---------------------------- MODULE GlDetoursProofs ----------------------------
(***************************************************************************)
(* Proofs about GlDetours: its type invariant, that the shadow can be      *)
(* trusted, and that the filter implements the unfiltered driver.          *)
(***************************************************************************)
EXTENDS GlDetours, TLAPS

(* The domain of every field, one conjunct per entry of the table. *)
LEMMA DomainOf ==
  /\ \A cap \in Capabilities \cup OtherCapabilities : Domain(cap) = BOOLEAN
  /\ Domain("blendFunc") =
       LET F == Factors \cup {Unknown} IN F \X F \X F \X F
  /\ Domain("blendEquation") = LET E == Equations \cup {Unknown} IN E \X E
  /\ Domain("blendColor") = Colours
  /\ Domain("depthFunc") = DepthFuncs
  /\ Domain("depthMask") = Bit
  /\ Domain("colorMask") = Bit \X Bit \X Bit \X Bit
  /\ Domain("cullFaceMode") = Faces
  /\ Domain("frontFace") = Windings
  /\ Domain("depthRange") = DepthRanges
  /\ Domain("sampleCoverage") = Coverages \X Bit
  /\ Domain("viewport") = Rects \cup {Unknown}
  /\ \A f \in {"unpackAlignment", "packAlignment", "unpackRowLength",
               "otherPixelStore"} : Domain(f) = PixelValues \cup {Unknown}
  /\ Domain("activeTexture") = UnitArgs \cup {0}
  /\ \A f \in BindingFields \cup {"otherBuffer"} :
       Domain(f) = Names \cup {Unknown, Orphan}
BY FieldAssumption
   DEF Domain, BlendFields, EnumFields, FreeFields, BindingFields, BufferFields

LEMMA SetFieldType ==
  ASSUME NEW g, IsDriverState(g), NEW f \in DriverFields, NEW v \in Domain(f)
  PROVE  IsDriverState(SetField(g, f, v))
BY DEF IsDriverState, SetField

LEMMA SetTextureType ==
  ASSUME NEW g, IsDriverState(g), NEW t, NEW n \in Names
  PROVE  IsDriverState(SetTexture(g, t, n))
BY DEF IsDriverState, SetTexture

LEMMA SetElementsType ==
  ASSUME NEW g, IsDriverState(g), NEW n \in Names
  PROVE  IsDriverState(SetElements(g, n))
BY DEF IsDriverState, SetElements

LEMMA StateType ==
  ASSUME NEW g, IsDriverState(g), NEW U, U = [f \in DriverFields |-> U[f]],
         \A f \in DriverFields : U[f] \in Domain(f)
  PROVE  IsDriverState([g EXCEPT !.state = U])
BY DEF IsDriverState

LEMMA UnbindType ==
  ASSUME NEW g, IsDriverState(g), NEW n, NEW to \in {0, Orphan},
         NEW fields \in SUBSET (BindingFields \cup {"otherBuffer"})
  PROVE  /\ Unbind(g, fields, n, to) = [f \in DriverFields |-> Unbind(g, fields, n, to)[f]]
         /\ \A f \in DriverFields : Unbind(g, fields, n, to)[f] \in Domain(f)
BY DomainOf, StateModelAssumption DEF IsDriverState, Unbind

LEMMA FreshType == IsDriverState(freshDriver)
<1>1. \A f \in Capabilities \cup OtherCapabilities : SpecDefault[f] \in Domain(f)
  <2> TAKE f \in Capabilities \cup OtherCapabilities
  <2>1. /\ f \in DriverFields
        /\ f \notin BlendFields \cup EnumFields \cup FreeFields \cup BindingFields
        /\ f \notin {"activeTexture", "otherBuffer", "otherPixelStore"}
    BY FieldAssumption DEF DriverFields, StateFields, OtherFields, ValueFields
  <2>2. SpecDefault[f] = (f = "GL_DITHER")
    BY <2>1 DEF SpecDefault, BlendFields, EnumFields, FreeFields
  <2> QED
    BY <2>2, DomainOf
<1>2. \A f \in BlendFields \cup FreeFields : SpecDefault[f] \in Domain(f)
  <2>1. \A f \in BlendFields \cup FreeFields :
           f \in DriverFields /\ f \notin Capabilities \cup OtherCapabilities
    BY FieldAssumption DEF DriverFields, StateFields, ValueFields
  <2>2. /\ SpecDefault["blendFunc"] = <<"GL_ONE", "GL_ZERO", "GL_ONE", "GL_ZERO">>
        /\ SpecDefault["blendEquation"] = <<"GL_FUNC_ADD", "GL_FUNC_ADD">>
        /\ SpecDefault["blendColor"] = "0000"
        /\ SpecDefault["depthMask"] = 1
        /\ SpecDefault["colorMask"] = <<1, 1, 1, 1>>
        /\ SpecDefault["depthRange"] = "0..1"
        /\ SpecDefault["sampleCoverage"] = <<"1.0", 0>>
    BY <2>1 DEF SpecDefault, BlendFields, FreeFields
  <2>3. /\ SpecDefault["blendFunc"] \in Domain("blendFunc")
        /\ SpecDefault["blendEquation"] \in Domain("blendEquation")
        /\ SpecDefault["blendColor"] \in Domain("blendColor")
    BY <2>2, DomainOf, DefaultAssumption
  <2>4. /\ SpecDefault["depthMask"] \in Domain("depthMask")
        /\ SpecDefault["colorMask"] \in Domain("colorMask")
        /\ SpecDefault["depthRange"] \in Domain("depthRange")
        /\ SpecDefault["sampleCoverage"] \in Domain("sampleCoverage")
    BY <2>2, DomainOf, DefaultAssumption DEF Bit
  <2> QED
    BY <2>3, <2>4 DEF BlendFields, FreeFields
<1>3. \A f \in EnumFields \cup {"otherPixelStore"} : SpecDefault[f] \in Domain(f)
  <2>1. \A f \in EnumFields \cup {"otherPixelStore"} :
           f \in DriverFields /\ f \notin Capabilities \cup OtherCapabilities
    BY FieldAssumption DEF DriverFields, StateFields, ValueFields, OtherFields
  <2> QED
    BY <2>1, DomainOf, DefaultAssumption DEF SpecDefault, EnumFields
<1>4. \A f \in BindingFields \cup {"activeTexture", "otherBuffer"} :
         SpecDefault[f] = 0 /\ SpecDefault[f] \in Domain(f)
  <2>1. \A f \in BindingFields \cup {"activeTexture", "otherBuffer"} :
           f \in DriverFields /\ f \notin Capabilities \cup OtherCapabilities
    BY FieldAssumption DEF DriverFields, StateFields, OtherFields
  <2> QED
    BY <2>1, DomainOf, StateModelAssumption DEF SpecDefault, BindingFields, BufferFields
<1>5. \A f \in DriverFields : SpecDefault[f] \in Domain(f)
  BY <1>1, <1>2, <1>3, <1>4 DEF DriverFields, StateFields, OtherFields, ValueFields
<1>6. SpecDefault = [f \in DriverFields |-> SpecDefault[f]]
  BY DEF SpecDefault
<1> QED
  BY <1>5, <1>6, StateModelAssumption DEF IsDriverState, freshDriver

LEMMA FreshShadowType == IsShadow(freshShadow)
<1>1. \A f \in StateFields : freshContextState[f] \in Domain(f)
  <2> TAKE f \in StateFields
  <2>1. SpecDefault[f] \in Domain(f)
    BY FreshType DEF IsDriverState, freshDriver, DriverFields
  <2>2. CASE f = "blendFunc"
    BY <2>2, DomainOf DEF freshContextState
  <2>3. CASE f \in BindingFields \cup {"viewport", "unpackAlignment",
                                      "packAlignment", "unpackRowLength"}
    BY <2>3, DomainOf DEF freshContextState, BindingFields, BufferFields
  <2> QED
    BY <2>1, <2>2, <2>3 DEF freshContextState
<1> QED
  BY <1>1, StateModelAssumption
  DEF IsShadow, freshShadow, freshContextState, freshTextures

-----------------------------------------------------------------------------
(* Typing of the steps of the driver.                                      *)

LEMMA OnCurrentType ==
  ASSUME DriverTypeOK, NEW after, OnCurrent(after),
         current \in Contexts => IsDriverState(after)
  PROVE  DriverTypeOK'
BY ContextAssumption DEF DriverTypeOK, OnCurrent, IsDriverState

LEMMA SetType ==
  ASSUME DriverTypeOK, NEW f \in DriverFields, NEW v \in Domain(f), Set(f, v)
  PROVE  DriverTypeOK'
BY OnCurrentType, SetFieldType DEF Set, Now, DriverTypeOK

LEMMA DeleteType ==
  ASSUME DriverTypeOK, NEW n \in Names \ {0},
         DeleteTexture(n) \/ DeleteBuffer(n) \/ DeleteFramebuffer(n) \/ DeleteVertexArray(n)
  PROVE  DriverTypeOK'
<1>1. CASE DeleteTexture(n)
  <2>1. ASSUME NEW g, IsDriverState(g), NEW to \in {0, Orphan}
        PROVE  IsDriverState(DeletedTexture(g, n, to))
    <3> DEFINE T == [u \in Units |-> [t \in DriverTargets |->
                       IF g.textures[u][t] = n THEN to ELSE g.textures[u][t]]]
    <3>1. T \in [Units -> [DriverTargets -> Names \cup {Orphan}]]
      BY <2>1, StateModelAssumption DEF IsDriverState
    <3>2. DeletedTexture(g, n, to) = [g EXCEPT !.textures = T]
      BY DEF DeletedTexture
    <3> HIDE DEF T
    <3> QED
      BY <2>1, <3>1, <3>2 DEF IsDriverState
  <2> QED
    BY <1>1, <2>1 DEF DeleteTexture, DriverTypeOK
<1>2. CASE DeleteBuffer(n)
  <2>1. ASSUME NEW g, IsDriverState(g), NEW here \in BOOLEAN
        PROVE  IsDriverState(DeletedBuffer(g, n, here))
    <3> DEFINE U == Unbind(g, BufferFields \cup {"otherBuffer"}, n,
                           IF here THEN 0 ELSE Orphan)
               E == [a \in Names |->
                       IF g.elements[a] # n THEN g.elements[a]
                       ELSE IF here /\ a = g.state["vertexArray"] THEN 0 ELSE Orphan]
    <3>1. U = [f \in DriverFields |-> U[f]] /\ \A f \in DriverFields : U[f] \in Domain(f)
      <4>1. (IF here THEN 0 ELSE Orphan) \in {0, Orphan}
        OBVIOUS
      <4>2. BufferFields \cup {"otherBuffer"} \in SUBSET (BindingFields \cup {"otherBuffer"})
        BY DEF BindingFields
      <4>3. ASSUME NEW to \in {0, Orphan},
                   NEW fields \in SUBSET (BindingFields \cup {"otherBuffer"})
            PROVE  LET V == Unbind(g, fields, n, to)
                   IN  V = [f \in DriverFields |-> V[f]] /\ \A f \in DriverFields : V[f] \in Domain(f)
        BY <2>1, UnbindType
      <4> QED
        BY <4>1, <4>2, <4>3, Zenon
    <3>2. E \in [Names -> Names \cup {Orphan}]
      BY <2>1, StateModelAssumption DEF IsDriverState
    <3>3. DeletedBuffer(g, n, here) = [g EXCEPT !.state = U, !.elements = E]
      BY DEF DeletedBuffer
    <3> HIDE DEF U, E
    <3> QED
      BY <2>1, <3>1, <3>2, <3>3 DEF IsDriverState
  <2> QED
    BY <1>2, <2>1 DEF DeleteBuffer, DriverTypeOK
<1>3. CASE DeleteFramebuffer(n)
  <2>1. current \in Contexts =>
          IsDriverState([Now EXCEPT !.state = Unbind(Now, {"framebuffer"}, n, 0)])
    <3> SUFFICES ASSUME current \in Contexts
                 PROVE  IsDriverState([Now EXCEPT !.state = Unbind(Now, {"framebuffer"}, n, 0)])
      OBVIOUS
    <3> DEFINE U == Unbind(Now, {"framebuffer"}, n, 0)
    <3>1. U = [f \in DriverFields |-> U[f]] /\ \A f \in DriverFields : U[f] \in Domain(f)
      BY UnbindType DEF BindingFields, DriverTypeOK, Now
    <3> HIDE DEF U
    <3>2. IsDriverState([Now EXCEPT !.state = U])
      BY <3>1, StateType DEF DriverTypeOK, Now
    <3> QED
      BY <3>2 DEF U
  <2> QED
    BY <1>3, <2>1, OnCurrentType DEF DeleteFramebuffer
<1>4. CASE DeleteVertexArray(n)
  <2>1. current \in Contexts => IsDriverState(DeletedVertexArray(Now, n))
    <3> SUFFICES ASSUME current \in Contexts
                 PROVE  IsDriverState(DeletedVertexArray(Now, n))
      OBVIOUS
    <3> DEFINE U == Unbind(Now, {"vertexArray"}, n, 0)
               E == [a \in Names |-> IF a = n THEN 0 ELSE Now.elements[a]]
    <3>1. U = [f \in DriverFields |-> U[f]] /\ \A f \in DriverFields : U[f] \in Domain(f)
      BY UnbindType DEF BindingFields, DriverTypeOK, Now
    <3>2. E \in [Names -> Names \cup {Orphan}]
      BY StateModelAssumption DEF DriverTypeOK, IsDriverState, Now
    <3>3. DeletedVertexArray(Now, n) = [Now EXCEPT !.state = U, !.elements = E]
      BY DEF DeletedVertexArray
    <3> HIDE DEF U, E
    <3> QED
      BY <3>1, <3>2, <3>3 DEF DriverTypeOK, IsDriverState, Now
  <2> QED
    BY <1>4, <2>1, OnCurrentType DEF DeleteVertexArray
<1> QED
  BY <1>1, <1>2, <1>3, <1>4

-----------------------------------------------------------------------------
(* The 22 detours are instances of a few kinds of step.                    *)

AValueCall == \E f \in ValueFields : \E v \in Domain(f), hook \in WritersOf(f) :
                ValueCall(hook, f, v)
AUnitCall == \E unit \in UnitArgs : glActiveTexture(unit)
ABindingCall == \E f \in BindingFields, n \in Names : \E hook \in WritersOf(f) :
                  BindingCall(hook, f, n)
AForward == \E f \in OtherFields : \E v \in Domain(f) : Forward(f, v)
AnElements == \E n \in Names :
                BindElements(n) /\ UNCHANGED <<readFramebuffer, filterVars>>
ATextureCall == \E target \in TargetArgs, n \in Names : glBindTexture(target, n)
AFramebufferCall == \E target \in FramebufferTargets, n \in Names :
                      glBindFramebuffer(target, n)
ADelete == \E n \in Names \ {0} : Delete(n)

LEMMA BlendSteps == BlendCall => AValueCall \/ AForward
<1>1. ASSUME NEW cap \in Capabilities \cup OtherCapabilities,
             glEnable(cap) \/ glDisable(cap)
      PROVE  AValueCall \/ AForward
  <2>1. Domain(cap) = BOOLEAN
    BY DomainOf
  <2>2. CASE cap \in Capabilities
    <3>1. cap \in ValueFields /\ WritersOf(cap) = {"Enable", "Disable"}
      BY <2>2, FieldAssumption
      DEF WritersOf, ValueFields, BlendFields, EnumFields, FreeFields, BindingFields,
          BufferFields
    <3> QED
      BY <1>1, <2>1, <2>2, <3>1 DEF AValueCall, glEnable, glDisable
  <2>3. CASE cap \notin Capabilities
    BY <1>1, <2>1, <2>3 DEF AForward, OtherFields, glEnable, glDisable
  <2> QED
    BY <2>2, <2>3
<1>2. /\ {"blendFunc", "blendEquation", "blendColor"} \subseteq ValueFields \ Capabilities
      /\ {"blendFunc", "blendEquation", "blendColor"} \cap BufferFields = {}
  BY FieldAssumption DEF ValueFields, BlendFields, FreeFields, BufferFields
<1>3. /\ WritersOf("blendFunc") = {"BlendFunc", "BlendFuncSeparate"}
      /\ WritersOf("blendEquation") = {"BlendEquation", "BlendEquationSeparate"}
      /\ WritersOf("blendColor") = {"BlendColor"}
  BY <1>2 DEF WritersOf
<1>4. ASSUME NEW s1 \in Factors, NEW d1 \in Factors, NEW s2 \in Factors, NEW d2 \in Factors
      PROVE  <<s1, d1, s2, d2>> \in Domain("blendFunc")
  BY DomainOf
<1>5. ASSUME NEW rgb \in Equations, NEW alpha \in Equations
      PROVE  <<rgb, alpha>> \in Domain("blendEquation")
  BY DomainOf
<1>6. ASSUME NEW src \in Factors, NEW dst \in Factors, glBlendFunc(src, dst)
      PROVE  AValueCall
  BY <1>2, <1>3, <1>4, <1>6 DEF AValueCall, glBlendFunc
<1>7. ASSUME NEW s1 \in Factors, NEW d1 \in Factors, NEW s2 \in Factors, NEW d2 \in Factors,
             glBlendFuncSeparate(s1, d1, s2, d2)
      PROVE  AValueCall
  BY <1>2, <1>3, <1>4, <1>7 DEF AValueCall, glBlendFuncSeparate
<1>8. ASSUME NEW mode \in Equations, glBlendEquation(mode) PROVE AValueCall
  BY <1>2, <1>3, <1>5, <1>8 DEF AValueCall, glBlendEquation
<1>9. ASSUME NEW rgb \in Equations, NEW alpha \in Equations,
             glBlendEquationSeparate(rgb, alpha)
      PROVE  AValueCall
  BY <1>2, <1>3, <1>5, <1>9 DEF AValueCall, glBlendEquationSeparate
<1>10. ASSUME NEW colour \in Colours, glBlendColor(colour) PROVE AValueCall
  BY <1>2, <1>3, <1>10, DomainOf DEF AValueCall, glBlendColor
<1> QED
  BY <1>1, <1>6, <1>7, <1>8, <1>9, <1>10 DEF BlendCall

LEMMA RasterSteps == RasterCall => AValueCall \/ AForward
<1> DEFINE Plain == {"depthFunc", "depthMask", "colorMask", "cullFaceMode",
                     "frontFace", "depthRange", "sampleCoverage", "viewport"}
           Pixel == {"unpackAlignment", "packAlignment", "unpackRowLength"}
<1>1. /\ Plain \cup Pixel \subseteq ValueFields \ Capabilities
      /\ (Plain \cup Pixel) \cap BufferFields = {}
  BY FieldAssumption DEF ValueFields, EnumFields, FreeFields, BufferFields
<1>2. /\ WritersOf("depthFunc") = {"DepthFunc"}
      /\ WritersOf("depthMask") = {"DepthMask"}
      /\ WritersOf("colorMask") = {"ColorMask"}
      /\ WritersOf("cullFaceMode") = {"CullFace"}
      /\ WritersOf("frontFace") = {"FrontFace"}
      /\ WritersOf("depthRange") = {"DepthRangef"}
      /\ WritersOf("sampleCoverage") = {"SampleCoverage"}
      /\ WritersOf("viewport") = {"Viewport"}
      /\ \A f \in Pixel : WritersOf(f) = {"PixelStorei"}
  BY <1>1 DEF WritersOf
<1>3. \A flag : normalized(flag) \in Bit
  BY DEF normalized, Bit
<1>4. ASSUME NEW func \in DepthFuncs, glDepthFunc(func) PROVE AValueCall
  BY <1>1, <1>2, <1>4, DomainOf DEF AValueCall, glDepthFunc
<1>5. ASSUME NEW flag \in Flags, glDepthMask(flag) PROVE AValueCall
  BY <1>1, <1>2, <1>3, <1>5, DomainOf DEF AValueCall, glDepthMask
<1>6. ASSUME NEW r \in Flags, NEW g \in Flags, NEW b \in Flags, NEW a \in Flags,
             glColorMask(r, g, b, a)
      PROVE  AValueCall
  <2>1. <<normalized(r), normalized(g), normalized(b), normalized(a)>>
          \in Domain("colorMask")
    BY <1>3, DomainOf
  <2> QED
    BY <1>1, <1>2, <1>6, <2>1 DEF AValueCall, glColorMask
<1>7. ASSUME NEW mode \in Faces, glCullFace(mode) PROVE AValueCall
  BY <1>1, <1>2, <1>7, DomainOf DEF AValueCall, glCullFace
<1>8. ASSUME NEW mode \in Windings, glFrontFace(mode) PROVE AValueCall
  BY <1>1, <1>2, <1>8, DomainOf DEF AValueCall, glFrontFace
<1>9. ASSUME NEW range \in DepthRanges, glDepthRangef(range) PROVE AValueCall
  BY <1>1, <1>2, <1>9, DomainOf DEF AValueCall, glDepthRangef
<1>10. ASSUME NEW value \in Coverages, NEW invert \in Flags,
              glSampleCoverage(value, invert)
       PROVE  AValueCall
  <2>1. <<value, normalized(invert)>> \in Domain("sampleCoverage")
    BY <1>3, DomainOf
  <2> QED
    BY <1>1, <1>2, <1>10, <2>1 DEF AValueCall, glSampleCoverage
<1>11. ASSUME NEW rect \in Rects, glViewport(rect) PROVE AValueCall
  BY <1>1, <1>2, <1>11, DomainOf DEF AValueCall, glViewport
<1>12. ASSUME NEW pname, NEW param \in PixelValues, glPixelStorei(pname, param)
       PROVE  AValueCall \/ AForward
  <2>1. \A f \in Pixel \cup {"otherPixelStore"} : param \in Domain(f)
    BY DomainOf
  <2>2. CASE pname \in DOMAIN PixelStoreFields
    <3>1. PixelStoreFields[pname] \in Pixel
      BY <2>2 DEF PixelStoreFields
    <3> QED
      BY <1>1, <1>2, <1>12, <2>1, <2>2, <3>1 DEF AValueCall, glPixelStorei
  <2>3. CASE pname \notin DOMAIN PixelStoreFields
    BY <1>12, <2>1, <2>3 DEF AForward, OtherFields, glPixelStorei
  <2> QED
    BY <2>2, <2>3
<1> QED
  BY <1>4, <1>5, <1>6, <1>7, <1>8, <1>9, <1>10, <1>11, <1>12 DEF RasterCall

LEMMA BindSteps ==
  BindCall => \/ AUnitCall \/ ABindingCall \/ AForward \/ AnElements
              \/ ATextureCall \/ AFramebufferCall \/ ADelete
<1>1. BindingFields \cap Capabilities = {}
  BY FieldAssumption
<1>2. /\ WritersOf("currentProgram") = {"UseProgram"}
      /\ WritersOf("vertexArray") = {"BindVertexArray"}
      /\ \A f \in BufferFields : WritersOf(f) = {"BindBuffer"}
  BY <1>1 DEF WritersOf, BindingFields, BufferFields
<1>3. ASSUME NEW n \in Names, glUseProgram(n) \/ glBindVertexArray(n) PROVE ABindingCall
  BY <1>2, <1>3 DEF ABindingCall, BindingFields, glUseProgram, glBindVertexArray
<1>4. ASSUME NEW target, NEW n \in Names, glBindBuffer(target, n)
      PROVE  ABindingCall \/ AnElements \/ AForward
  <2>1. CASE target \in DOMAIN BufferFieldOf
    <3>1. /\ BufferFieldOf[target] \in BufferFields
          /\ BindingCall("BindBuffer", BufferFieldOf[target], n)
      BY <1>4, <2>1 DEF glBindBuffer, BufferFieldOf, BufferFields
    <3> QED
      BY <1>2, <3>1 DEF ABindingCall, BindingFields
  <2>2. CASE target = "GL_ELEMENT_ARRAY_BUFFER"
    BY <1>4, <2>2 DEF AnElements, glBindBuffer, BufferFieldOf
  <2>3. CASE target \notin DOMAIN BufferFieldOf \cup {"GL_ELEMENT_ARRAY_BUFFER"}
    <3>1. Forward("otherBuffer", n) /\ n \in Domain("otherBuffer")
      BY <1>4, <2>3, DomainOf DEF glBindBuffer
    <3> QED
      BY <3>1 DEF AForward, OtherFields
  <2> QED
    BY <2>1, <2>2, <2>3
<1> QED
  BY <1>3, <1>4 DEF BindCall, AUnitCall, ATextureCall, AFramebufferCall, ADelete

-----------------------------------------------------------------------------
(* Type correctness.                                                       *)

LEMMA ShadowFieldType ==
  ASSUME NEW sh, IsShadow(sh), NEW f \in StateFields, NEW v \in Domain(f)
  PROVE  IsShadow([sh EXCEPT !.state[f] = v])
BY DEF IsShadow

LEMMA ShadowTextureType ==
  ASSUME NEW sh, IsShadow(sh), NEW u \in TrackedUnits, NEW s \in TextureSlots, NEW n \in Names
  PROVE  IsShadow([sh EXCEPT !.textures[u][s] = n])
<1> DEFINE T == [sh.textures EXCEPT ![u][s] = n]
<1>1. T \in [TrackedUnits -> [TextureSlots -> Names]]
  BY DEF IsShadow
<1>2. [sh EXCEPT !.textures[u][s] = n] = [sh EXCEPT !.textures = T]
  OBVIOUS
<1>3. ASSUME NEW X, X \in [TrackedUnits -> [TextureSlots -> Names]]
      PROVE  IsShadow([sh EXCEPT !.textures = X])
  BY <1>3 DEF IsShadow
<1> QED
  BY <1>1, <1>2, <1>3, Zenon

LEMMA LearnType ==
  ASSUME TypeOK, NEW hook, NEW f \in StateFields, NEW v \in Domain(f), Learn(hook, f, v)
  PROVE  /\ shadow' = [c \in Contexts \cup {NoContext} |-> shadow'[c]]
         /\ \A c \in Contexts \cup {NoContext} : IsShadow(shadow'[c])
         /\ tracked' = tracked /\ hookEnabled' = hookEnabled
<1>1. CASE shadow' = shadow
  BY <1>1 DEF Learn, TypeOK
<1>2. CASE shadow' = [shadow EXCEPT ![current].state[f] = v]
  <2>1. IsShadow([shadow[current] EXCEPT !.state[f] = v])
    BY ShadowFieldType DEF TypeOK, DriverTypeOK
  <2>2. shadow' = [shadow EXCEPT ![current] = [shadow[current] EXCEPT !.state[f] = v]]
    BY <1>2 DEF TypeOK, DriverTypeOK
  <2> QED
    BY <2>1, <2>2 DEF Learn, TypeOK, DriverTypeOK
<1> QED
  BY <1>1, <1>2 DEF Learn

LEMMA SetCallType ==
  ASSUME TypeOK, NEW hook, NEW f \in StateFields, NEW v \in Domain(f), NEW redundant,
         SetCall(hook, f, v, redundant)
  PROVE  TypeOK'
<1>1. CASE Drop(<<"set", f, v>>)
  BY <1>1 DEF Drop, TypeOK, DriverTypeOK, filterVars
<1>2. CASE Learn(hook, f, v) /\ Set(f, v) /\ UNCHANGED readFramebuffer
  <2>1. DriverTypeOK'
    BY <1>2, SetType DEF TypeOK, DriverFields
  <2> QED
    BY <1>2, <2>1, LearnType DEF TypeOK
<1> QED
  BY <1>1, <1>2 DEF SetCall

LEMMA TextureCallType ==
  ASSUME TypeOK, NEW target \in TargetArgs, NEW n \in Names, glBindTexture(target, n)
  PROVE  TypeOK'
<1>1. CASE Drop(<<"bindTexture", target, n>>)
  BY <1>1 DEF Drop, TypeOK, DriverTypeOK, filterVars
<1>2. CASE /\ BindTexture(target, n)
           /\ UNCHANGED <<tracked, hookEnabled, readFramebuffer>>
           /\ \/ shadow' = shadow
              \/ \E unit \in TrackedUnits, slot \in TextureSlots :
                   shadow' = [shadow EXCEPT ![current].textures[unit][slot] = n]
  <2>1. DriverTypeOK'
    BY <1>2, OnCurrentType, SetTextureType DEF TypeOK, BindTexture, Now, DriverTypeOK
  <2>2. /\ shadow' = [c \in Contexts \cup {NoContext} |-> shadow'[c]]
        /\ \A c \in Contexts \cup {NoContext} : IsShadow(shadow'[c])
    <3>1. CASE shadow' = shadow
      BY <3>1 DEF TypeOK
    <3>2. ASSUME NEW unit \in TrackedUnits, NEW slot \in TextureSlots,
                 shadow' = [shadow EXCEPT ![current].textures[unit][slot] = n]
          PROVE  <2>2!1 /\ <2>2!2
      <4>1. IsShadow([shadow[current] EXCEPT !.textures[unit][slot] = n])
        BY ShadowTextureType DEF TypeOK, DriverTypeOK
      <4>2. shadow' = [shadow EXCEPT ![current] =
                         [shadow[current] EXCEPT !.textures[unit][slot] = n]]
        BY <3>2 DEF TypeOK, DriverTypeOK
      <4> QED
        BY <4>1, <4>2 DEF TypeOK, DriverTypeOK
    <3> QED
      BY <1>2, <3>1, <3>2
  <2> QED
    BY <1>2, <2>1, <2>2 DEF TypeOK
<1>3. textureTargetSlot(target) # NoSlot => textureTargetSlot(target) \in TextureSlots
  BY DEF textureTargetSlot, TextureSlots, CubeFaces, NoSlot
<1> QED
  BY <1>1, <1>2, <1>3 DEF glBindTexture

LEMMA FramebufferCallType ==
  ASSUME TypeOK, NEW target \in FramebufferTargets, NEW n \in Names,
         glBindFramebuffer(target, n)
  PROVE  TypeOK'
<1>1. CASE Drop(<<"bindFramebuffer", target, n>>)
  BY <1>1 DEF Drop, TypeOK, DriverTypeOK, filterVars
<1>2. CASE /\ Learn("BindFramebuffer", "framebuffer",
                   IF target # "GL_READ_FRAMEBUFFER" THEN n ELSE Unknown)
           /\ BindFramebuffer(target, n)
           /\ \/ readFramebuffer' = readFramebuffer
              \/ readFramebuffer' = [readFramebuffer EXCEPT ![current] = n]
  <2>1. "framebuffer" \in StateFields /\ {n, Unknown} \subseteq Domain("framebuffer")
    BY DomainOf DEF StateFields, BindingFields
  <2>2. DriverTypeOK'
    BY <1>2, <2>1, OnCurrentType, SetFieldType
    DEF TypeOK, BindFramebuffer, Now, DriverTypeOK, DriverFields
  <2>3. readFramebuffer' \in [Contexts -> Names]
    BY <1>2 DEF TypeOK
  <2> QED
    BY <1>2, <2>1, <2>2, <2>3, LearnType DEF TypeOK
<1> QED
  BY <1>1, <1>2 DEF glBindFramebuffer

LEMMA ContextCallType == TypeOK /\ ContextCall => TypeOK'
<1> SUFFICES ASSUME TypeOK, ContextCall PROVE TypeOK'
  OBVIOUS
<1>1. ASSUME NEW c \in Contexts, eglCreateContext(c) PROVE TypeOK'
  <2>1. DriverTypeOK'
    BY <1>1, FreshType DEF eglCreateContext, CreateContext, TypeOK, DriverTypeOK
  <2>2. /\ shadow' = [d \in Contexts \cup {NoContext} |-> shadow'[d]]
        /\ \A d \in Contexts \cup {NoContext} : IsShadow(shadow'[d])
        /\ tracked' \subseteq Contexts \cup {NoContext}
    BY <1>1, FreshShadowType DEF eglCreateContext, noteContextCreated, TypeOK
  <2>3. readFramebuffer' \in [Contexts -> Names] /\ hookEnabled' = hookEnabled
    BY <1>1, StateModelAssumption DEF eglCreateContext, TypeOK
  <2> QED
    BY <2>1, <2>2, <2>3 DEF TypeOK
<1>2. ASSUME NEW c \in Contexts, eglDestroyContext(c) PROVE TypeOK'
  BY <1>2 DEF eglDestroyContext, DestroyContext, noteContextDestroyed, TypeOK, DriverTypeOK
<1>3. ASSUME NEW c, eglMakeCurrent(c) PROVE TypeOK'
  BY <1>3, DetourAssumption
  DEF eglMakeCurrent, MakeCurrent, TypeOK, DriverTypeOK, filterVars
<1> QED
  BY <1>1, <1>2, <1>3 DEF ContextCall

LEMMA TypeStep == TypeOK /\ [Next]_vars => TypeOK'
<1> SUFFICES ASSUME TypeOK, [Next]_vars PROVE TypeOK'
  OBVIOUS
<1>1. CASE AValueCall
  BY <1>1, SetCallType DEF AValueCall, ValueCall, StateFields
<1>2. CASE AUnitCall
  BY <1>2, SetCallType, DomainOf DEF AUnitCall, glActiveTexture, ValueCall, StateFields
<1>3. CASE ABindingCall
  BY <1>3, SetCallType, DomainOf DEF ABindingCall, BindingCall, StateFields
<1>4. CASE AForward
  BY <1>4, SetType DEF AForward, Forward, TypeOK, DriverFields, filterVars
<1>5. CASE AnElements
  BY <1>5, OnCurrentType, SetElementsType
  DEF AnElements, BindElements, Now, TypeOK, DriverTypeOK, filterVars
<1>6. CASE ATextureCall
  BY <1>6, TextureCallType DEF ATextureCall
<1>7. CASE AFramebufferCall
  BY <1>7, FramebufferCallType DEF AFramebufferCall
<1>8. CASE ADelete
  BY <1>8, DeleteType, StateModelAssumption DEF ADelete, Delete, TypeOK, filterVars
<1>9. CASE ContextCall
  BY <1>9, ContextCallType
<1>10. CASE SwitchHooks
  BY <1>10, DetourAssumption
  DEF SwitchHooks, setHookEnabled, setAllHooksEnabled, TypeOK, DriverTypeOK, driverVars
<1>11. CASE UNCHANGED vars
  BY <1>11 DEF vars, driverVars, filterVars, TypeOK, DriverTypeOK
<1> QED
  BY <1>1, <1>2, <1>3, <1>4, <1>5, <1>6, <1>7, <1>8, <1>9, <1>10, <1>11,
     BlendSteps, RasterSteps, BindSteps DEF Next

(* Every variable keeps its type, whatever the game calls. *)
THEOREM TypeCorrect == Spec => []TypeOK
<1>1. Init => TypeOK
  BY FreshType, FreshShadowType, StateModelAssumption
  DEF Init, DriverInit, TypeOK, DriverTypeOK
<1> QED
  BY <1>1, TypeStep, PTL DEF Spec

-----------------------------------------------------------------------------
(* A tracked handle is a live context's.                                   *)

(* Only creation and destruction change which contexts there are and are tracked. *)
LEMMA OthersKeepTracking ==
  ASSUME TypeOK, [Next]_vars, ~ContextCall
  PROVE  live' = live /\ tracked' = tracked
<1>1. CASE AValueCall \/ AUnitCall \/ ABindingCall
  BY <1>1
  DEF AValueCall, AUnitCall, ABindingCall, glActiveTexture, ValueCall, BindingCall, SetCall,
      Drop, Learn, Set, OnCurrent, filterVars
<1>2. CASE AForward \/ AnElements
  BY <1>2 DEF AForward, AnElements, Forward, BindElements, Set, OnCurrent, filterVars
<1>3. CASE ATextureCall
  BY <1>3 DEF ATextureCall, glBindTexture, Drop, BindTexture, OnCurrent, filterVars
<1>4. CASE AFramebufferCall
  BY <1>4 DEF AFramebufferCall, glBindFramebuffer, Drop, Learn, BindFramebuffer, OnCurrent,
              filterVars
<1>5. CASE ADelete
  BY <1>5 DEF ADelete, Delete, DeleteTexture, DeleteBuffer, DeleteFramebuffer,
              DeleteVertexArray, OnCurrent, filterVars
<1>6. CASE SwitchHooks \/ UNCHANGED vars
  BY <1>6 DEF SwitchHooks, setHookEnabled, setAllHooksEnabled, vars, driverVars, filterVars
<1> QED
  BY <1>1, <1>2, <1>3, <1>4, <1>5, <1>6, BlendSteps, RasterSteps, BindSteps DEF Next

(* Whatever the game calls and the driver refuses, a slot of the table belongs *)
(* to a context that exists: none is found by the next one with that handle.   *)
THEOREM TrackedCorrect == Spec => []TrackedLive
<1>1. Init => TypeOK /\ TrackedLive
  <2> SUFFICES ASSUME Init PROVE TypeOK /\ TrackedLive
    OBVIOUS
  <2>1. TypeOK
    BY FreshType, FreshShadowType, StateModelAssumption DEF Init, DriverInit, TypeOK, DriverTypeOK
  <2> QED
    BY <2>1 DEF Init, TrackedLive
<1>2. TypeOK /\ TrackedLive /\ [Next]_vars => (TypeOK /\ TrackedLive)'
  <2> SUFFICES ASSUME TypeOK, TrackedLive, [Next]_vars PROVE TrackedLive'
    BY TypeStep
  <2>1. CASE ~ContextCall
    BY <2>1, OthersKeepTracking DEF TrackedLive
  <2>2. ASSUME NEW c \in Contexts, eglCreateContext(c) PROVE TrackedLive'
    BY <2>2 DEF eglCreateContext, CreateContext, noteContextCreated, TrackedLive
  <2>3. ASSUME NEW c \in Contexts, eglDestroyContext(c) PROVE TrackedLive'
    BY <2>3 DEF eglDestroyContext, DestroyContext, noteContextDestroyed, TrackedLive
  <2>4. ASSUME NEW c, eglMakeCurrent(c) PROVE TrackedLive'
    BY <2>4 DEF eglMakeCurrent, MakeCurrent, filterVars, TrackedLive
  <2> QED
    BY <2>1, <2>2, <2>3, <2>4 DEF ContextCall
<1> QED
  BY <1>1, <1>2, PTL DEF Spec

-----------------------------------------------------------------------------
(* The shadow can be trusted.                                              *)

Sound(c) == SoundValues(c) /\ SoundBindings(c) /\ SoundUnit(c) /\ SoundTextures(c)

IInv == TypeOK /\ TrackedLive /\ ShadowSound

(* A step that leaves a context, its shadow and its tracking alone. *)
LEMMA SoundUnchanged ==
  ASSUME NEW c, Sound(c), shadow'[c] = shadow[c], gl'[c] = gl[c]
  PROVE  Sound(c)'
BY DEF Sound, SoundValues, SoundBindings, SoundUnit, SoundTextures, Kept, TexturesKept

LEMMA FreshSound ==
  ASSUME NEW c, shadow'[c] = freshShadow, gl'[c] = freshDriver
  PROVE  Sound(c)'
<1>1. \A f \in ValueFields :
        freshContextState[f] = SpecDefault[f] \/ Refused(f, freshContextState[f])
  <2> TAKE f \in ValueFields
  <2>1. f \in StateFields /\ f \notin BindingFields
    BY FieldAssumption
    DEF StateFields, ValueFields, BindingFields, BufferFields, BlendFields, EnumFields,
        FreeFields
  <2>2. CASE f = "blendFunc"
    <3>1. freshContextState[f] = <<Unknown, Unknown, Unknown, Unknown>>
      BY <2>1, <2>2 DEF freshContextState
    <3> QED
      BY <2>2, <3>1, StateModelAssumption DEF Refused, BlendFields
  <2>3. CASE f \in {"viewport", "unpackAlignment", "packAlignment", "unpackRowLength"}
    <3>1. freshContextState[f] = Unknown
      BY <2>1, <2>3 DEF freshContextState
    <3> QED
      BY <2>3, <3>1, StateModelAssumption DEF Refused, EnumFields
  <2> QED
    BY <2>1, <2>2, <2>3 DEF freshContextState
<1>2. \A f \in BindingFields \cup {"activeTexture"} : SpecDefault[f] = 0
  <2>1. \A f \in BindingFields \cup {"activeTexture"} :
           f \in DriverFields /\ f \notin Capabilities \cup OtherCapabilities
    BY FieldAssumption DEF DriverFields, StateFields, OtherFields
  <2> QED
    BY <2>1 DEF SpecDefault, BindingFields, BufferFields
<1>3. /\ "activeTexture" \in StateFields
      /\ freshContextState["activeTexture"] = SpecDefault["activeTexture"]
  BY DEF StateFields, freshContextState, BindingFields, BufferFields
<1> QED
  BY <1>1, <1>2, <1>3
  DEF Sound, SoundValues, SoundBindings, SoundUnit, SoundTextures, freshShadow,
      freshDriver, freshTextures, Kept, TexturesKept, DriverTargets

LEMMA SetCallSound ==
  ASSUME IInv, NEW f \in StateFields, NEW v, NEW hook \in WritersOf(f), NEW redundant,
         SetCall(hook, f, v, redundant), f = "activeTexture" => v \in Units
  PROVE  (TrackedLive /\ ShadowSound)'
<1>1. CASE Drop(<<"set", f, v>>)
  BY <1>1, SoundUnchanged DEF Drop, IInv, ShadowSound, Sound, TrackedLive, filterVars
<1>2. CASE Learn(hook, f, v) /\ Set(f, v)
  <2> SUFFICES ASSUME NEW c \in tracked \ {NoContext} PROVE Sound(c)'
    BY <1>2 DEF Learn, Set, OnCurrent, IInv, ShadowSound, Sound, TrackedLive
  <2> USE DEF IInv, TypeOK, DriverTypeOK
  <2>1. c \in Contexts /\ Sound(c)
    BY ContextAssumption DEF ShadowSound, Sound
  <2>2. CASE c # current
    BY <1>2, <2>1, <2>2, SoundUnchanged DEF Learn, Set, OnCurrent
  <2>3. CASE c = current
    <3>1. gl'[c] = SetField(gl[c], f, v)
      BY <1>2, <2>1, <2>3, ContextAssumption DEF Set, OnCurrent, Now
    <3>2. /\ gl'[c].textures = gl[c].textures
          /\ \A x \in StateFields : gl'[c].state[x] =
               IF x = f /\ ~Refused(f, v) THEN v ELSE gl[c].state[x]
      BY <2>1, <3>1 DEF SetField, IsDriverState, DriverFields
    <3>3. /\ shadow'[c].textures = shadow[c].textures
          /\ \A x \in StateFields : shadow'[c].state[x] =
               IF x = f /\ hook \in Installed THEN v ELSE shadow[c].state[x]
      <4>1. shadow'[c] = IF hook \in Installed THEN [shadow[c] EXCEPT !.state[f] = v]
                         ELSE shadow[c]
        BY <1>2, <2>1, <2>3 DEF Learn, filtered
      <4>2. IsShadow(shadow[c])
        BY <2>1
      <4> QED
        BY <4>1, <4>2 DEF IsShadow
    <3>4. Kept(f) => hook \in Installed
      BY DEF Kept
    <3>5. SoundValues(c)'
      BY <2>1, <3>2, <3>3, <3>4 DEF Sound, SoundValues, Kept, StateFields
    <3>6. \A x \in BindingFields : ~Refused(x, v)
      BY DEF Refused, EnumFields, BlendFields, BindingFields, BufferFields
    <3>7. SoundBindings(c)'
      BY <2>1, <3>2, <3>3, <3>4, <3>6 DEF Sound, SoundBindings, Kept, StateFields
    <3>8. f = "activeTexture" => ~Refused(f, v)
      BY DEF Refused, EnumFields, BlendFields
    <3>9. SoundUnit(c)'
      BY <2>1, <3>2, <3>3, <3>4, <3>8 DEF Sound, SoundUnit, Kept, StateFields
    <3>10. SoundTextures(c)'
      BY <2>1, <3>2, <3>3 DEF Sound, SoundTextures, TexturesKept
    <3> QED
      BY <3>5, <3>7, <3>9, <3>10 DEF Sound
  <2> QED
    BY <2>2, <2>3
<1> QED
  BY <1>1, <1>2 DEF SetCall

(* Calls the shadow has no field for. *)
LEMMA ForwardSound ==
  ASSUME IInv, AForward \/ AnElements
  PROVE  (TrackedLive /\ ShadowSound)'
<1> USE DEF IInv, TypeOK, DriverTypeOK
<1>1. \A f \in OtherFields : f \notin StateFields
  BY FieldAssumption
  DEF OtherFields, StateFields, ValueFields, BindingFields, BufferFields, BlendFields,
      EnumFields, FreeFields
<1>2. \E after :
        /\ OnCurrent(after) /\ UNCHANGED <<shadow, tracked>>
        /\ current \in Contexts =>
             /\ after.textures = gl[current].textures
             /\ \A x \in StateFields : after.state[x] = gl[current].state[x]
  <2>1. ASSUME NEW f \in OtherFields, NEW v, Forward(f, v) PROVE <1>2
    <3>1. current \in Contexts =>
            /\ SetField(Now, f, v).textures = gl[current].textures
            /\ \A x \in StateFields : SetField(Now, f, v).state[x] = gl[current].state[x]
      BY <1>1 DEF SetField, Now, IsDriverState, DriverFields
    <3> QED
      BY <2>1, <3>1 DEF Forward, Set, filterVars
  <2>2. ASSUME NEW n \in Names, BindElements(n), UNCHANGED filterVars PROVE <1>2
    <3>1. current \in Contexts =>
            /\ SetElements(Now, n).textures = gl[current].textures
            /\ SetElements(Now, n).state = gl[current].state
      BY DEF SetElements, Now, IsDriverState
    <3> QED
      BY <2>2, <3>1 DEF BindElements, filterVars
  <2> QED
    BY <2>1, <2>2 DEF AForward, AnElements
<1>3. PICK after : <1>2!(after)
  BY <1>2
<1>4. TrackedLive'
  BY <1>3 DEF TrackedLive, OnCurrent
<1>5. ASSUME NEW c \in tracked \ {NoContext} PROVE Sound(c)'
  <2>1. c \in Contexts /\ Sound(c)
    BY DEF ShadowSound, Sound
  <2>2. CASE c # current
    BY <1>3, <2>1, <2>2, SoundUnchanged DEF OnCurrent
  <2>3. CASE c = current
    <3>1. gl'[c].textures = gl[c].textures
      BY <1>3, <2>1, <2>3, ContextAssumption DEF OnCurrent
    <3>2. \A x \in StateFields : gl'[c].state[x] = gl[c].state[x]
      BY <1>3, <2>1, <2>3, ContextAssumption DEF OnCurrent
    <3> QED
      BY <1>3, <2>1, <3>1, <3>2
      DEF Sound, SoundValues, SoundBindings, SoundUnit, SoundTextures, Kept,
          TexturesKept, StateFields
  <2> QED
    BY <2>2, <2>3
<1> QED
  BY <1>3, <1>4, <1>5 DEF ShadowSound, Sound

LEMMA TextureCallSound ==
  ASSUME IInv, AcceptedCalls, NEW target \in TargetArgs, NEW n \in Names,
         glBindTexture(target, n)
  PROVE  (TrackedLive /\ ShadowSound)'
<1> USE DEF IInv, TypeOK, DriverTypeOK
<1>1. CASE Drop(<<"bindTexture", target, n>>)
  BY <1>1, SoundUnchanged DEF Drop, ShadowSound, Sound, TrackedLive, filterVars
<1>2. CASE ~Drop(<<"bindTexture", target, n>>)
  <2> DEFINE unit == Shadow("activeTexture")
             slot == textureTargetSlot(target)
             slotted == /\ filtered("BindTexture") /\ unit \in TrackedUnits
                        /\ slot # NoSlot
  <2>1. /\ BindTexture(target, n)
        /\ tracked' = tracked
        /\ shadow' = IF slotted THEN [shadow EXCEPT ![current].textures[unit][slot] = n]
                     ELSE shadow
    BY <1>2 DEF glBindTexture
  <2>2. slot = IF target \in TextureSlots THEN target ELSE NoSlot
    BY DEF AcceptedCalls, textureTargetSlot
  <2>3. TrackedLive'
    BY <2>1 DEF TrackedLive, BindTexture, OnCurrent
  <2>4. ASSUME NEW c \in tracked \ {NoContext} PROVE Sound(c)'
    <3>1. c \in Contexts /\ Sound(c) /\ IsDriverState(gl[c]) /\ IsShadow(shadow[c])
      BY DEF ShadowSound, Sound
    <3>2. CASE c # current
      BY <2>1, <3>1, <3>2, SoundUnchanged DEF BindTexture, OnCurrent
    <3>3. CASE c = current
      <4>1. gl'[c] = SetTexture(gl[c], target, n)
        BY <2>1, <3>1, <3>3, ContextAssumption DEF BindTexture, OnCurrent, Now
      <4>2. gl'[c].state = gl[c].state
        BY <3>1, <4>1 DEF SetTexture, IsDriverState
      <4>3. shadow'[c] = IF slotted
                         THEN [shadow[c] EXCEPT !.textures[unit][slot] = n] ELSE shadow[c]
        BY <2>1, <3>1, <3>3
      <4>4. shadow'[c].state = shadow[c].state
        BY <3>1, <4>3 DEF IsShadow
      <4>5. ASSUME TexturesKept, NEW u \in TrackedUnits \cap Units, NEW s \in TextureSlots,
                   shadow'[c].textures[u][s] = 0
            PROVE  gl'[c].textures[u][s] = 0
        <5>1. /\ unit = gl[c].state["activeTexture"]
              /\ shadow[c].textures[u][s] = 0 => gl[c].textures[u][s] = 0
              /\ filtered("BindTexture")
          <6>1. "BindTexture" \in Installed /\ {"ActiveTexture"} \subseteq Installed
            BY <4>5 DEF TexturesKept
          <6>2. WritersOf("activeTexture") = {"ActiveTexture"}
            BY FieldAssumption DEF WritersOf, BufferFields
          <6> QED
            BY <3>1, <3>3, <4>5, <6>1, <6>2
            DEF Sound, SoundUnit, SoundTextures, Kept, filtered, Shadow
        <5>2. shadow'[c].textures[u][s] =
                IF u = unit /\ s = target THEN n ELSE shadow[c].textures[u][s]
          BY <2>2, <3>1, <4>3, <5>1 DEF IsShadow, TextureSlots, NoSlot
        <5>3. gl'[c].textures[u][s] =
                IF u = unit /\ s = target THEN n ELSE gl[c].textures[u][s]
          BY <3>1, <4>1, <5>1 DEF SetTexture, IsDriverState, DriverTargets
        <5> QED
          BY <4>5, <5>1, <5>2, <5>3
      <4> QED
        BY <3>1, <4>2, <4>4, <4>5
        DEF Sound, SoundValues, SoundBindings, SoundUnit, SoundTextures, Kept, TexturesKept
    <3> QED
      BY <3>2, <3>3
  <2> QED
    BY <2>1, <2>3, <2>4 DEF ShadowSound, Sound
<1> QED
  BY <1>1, <1>2

LEMMA FramebufferCallSound ==
  ASSUME IInv, NEW target \in FramebufferTargets, NEW n \in Names,
         glBindFramebuffer(target, n)
  PROVE  (TrackedLive /\ ShadowSound)'
<1> USE DEF IInv, TypeOK, DriverTypeOK
<1> DEFINE draw == target # "GL_READ_FRAMEBUFFER"
           learnt == IF draw THEN n ELSE Unknown
<1>1. CASE Drop(<<"bindFramebuffer", target, n>>)
  BY <1>1, SoundUnchanged DEF Drop, ShadowSound, Sound, TrackedLive, filterVars
<1>2. CASE Learn("BindFramebuffer", "framebuffer", learnt) /\ BindFramebuffer(target, n)
  <2>1. TrackedLive' /\ tracked' = tracked
    BY <1>2 DEF TrackedLive, Learn, BindFramebuffer, OnCurrent
  <2>2. ASSUME NEW c \in tracked \ {NoContext} PROVE Sound(c)'
    <3>1. c \in Contexts /\ Sound(c) /\ IsDriverState(gl[c]) /\ IsShadow(shadow[c])
      BY DEF ShadowSound, Sound
    <3>2. CASE c # current
      BY <1>2, <3>1, <3>2, SoundUnchanged DEF Learn, BindFramebuffer, OnCurrent
    <3>3. CASE c = current
      <4>1. ~Refused("framebuffer", n)
        BY DEF Refused, EnumFields, BlendFields
      <4>2. gl'[c] = IF draw THEN [gl[c] EXCEPT !.state["framebuffer"] = n] ELSE gl[c]
        BY <1>2, <3>1, <3>3, <4>1, ContextAssumption
        DEF BindFramebuffer, OnCurrent, Now, SetField
      <4>3. /\ gl'[c].textures = gl[c].textures
            /\ \A x \in StateFields : gl'[c].state[x] =
                 IF x = "framebuffer" /\ draw THEN n ELSE gl[c].state[x]
        BY <3>1, <4>2 DEF IsDriverState, DriverFields
      <4>4. shadow'[c] = IF "BindFramebuffer" \in Installed
                         THEN [shadow[c] EXCEPT !.state["framebuffer"] = learnt]
                         ELSE shadow[c]
        BY <1>2, <3>1, <3>3 DEF Learn, filtered
      <4>5. /\ shadow'[c].textures = shadow[c].textures
            /\ \A x \in StateFields : shadow'[c].state[x] =
                 IF x = "framebuffer" /\ "BindFramebuffer" \in Installed
                 THEN learnt ELSE shadow[c].state[x]
        BY <3>1, <4>4 DEF IsShadow
      <4>6. "framebuffer" \notin ValueFields
        BY FieldAssumption
        DEF ValueFields, BindingFields, BlendFields, EnumFields, FreeFields
      <4>7. WritersOf("framebuffer") = {"BindFramebuffer"}
        BY FieldAssumption DEF WritersOf, BindingFields, BufferFields
      <4>8. SoundValues(c)' /\ SoundUnit(c)' /\ SoundTextures(c)'
        BY <3>1, <4>3, <4>5, <4>6
        DEF Sound, SoundValues, SoundUnit, SoundTextures, Kept, TexturesKept, StateFields
      <4>9. SoundBindings(c)'
        BY <3>1, <4>3, <4>5, <4>7, StateModelAssumption
        DEF Sound, SoundBindings, Kept, StateFields
      <4> QED
        BY <4>8, <4>9 DEF Sound
    <3> QED
      BY <3>2, <3>3
  <2> QED
    BY <2>1, <2>2 DEF ShadowSound, Sound
<1> QED
  BY <1>1, <1>2 DEF glBindFramebuffer

(* A deletion moves no binding away from 0. *)
KeepsZero(g, h) ==
  /\ \A f \in ValueFields \cup {"activeTexture"} : h.state[f] = g.state[f]
  /\ \A f \in BindingFields : g.state[f] = 0 => h.state[f] = 0
  /\ \A u \in Units, t \in DriverTargets : g.textures[u][t] = 0 => h.textures[u][t] = 0

LEMMA UnbindKeepsZero ==
  ASSUME NEW g, NEW h, NEW n \in Names \ {0}, NEW to,
         NEW fields \in SUBSET (BindingFields \cup {"otherBuffer"}),
         h.state = Unbind(g, fields, n, to), h.textures = g.textures
  PROVE  KeepsZero(g, h)
<1>1. \A f \in ValueFields \cup {"activeTexture"} : f \notin BindingFields \cup {"otherBuffer"}
  BY FieldAssumption
  DEF ValueFields, BindingFields, BufferFields, BlendFields, EnumFields, FreeFields
<1> QED
  BY <1>1 DEF KeepsZero, Unbind, DriverFields, StateFields

LEMMA DeleteKeepsZero ==
  ASSUME TypeOK, NEW n \in Names \ {0}, Delete(n), NEW c \in Contexts
  PROVE  KeepsZero(gl[c], gl'[c])
<1> USE DEF TypeOK, DriverTypeOK
<1>0. KeepsZero(gl[c], gl[c])
  BY DEF KeepsZero
<1>1. CASE DeleteTexture(n)
  <2>1. PICK to : gl'[c] = DeletedTexture(gl[c], n, to)
    BY <1>1 DEF DeleteTexture
  <2>2. /\ gl'[c].state = gl[c].state
        /\ gl'[c].textures = [u \in Units |-> [t \in DriverTargets |->
             IF gl[c].textures[u][t] = n THEN to ELSE gl[c].textures[u][t]]]
    BY <2>1 DEF DeletedTexture, IsDriverState
  <2> QED
    BY <2>2 DEF KeepsZero
<1>2. CASE DeleteBuffer(n)
  <2>1. gl'[c] = DeletedBuffer(gl[c], n, c = current)
    BY <1>2 DEF DeleteBuffer
  <2>2. PICK to : /\ gl'[c].state = Unbind(gl[c], BufferFields \cup {"otherBuffer"}, n, to)
                  /\ gl'[c].textures = gl[c].textures
    BY <2>1 DEF DeletedBuffer, IsDriverState
  <2> QED
    BY <2>2, UnbindKeepsZero DEF BindingFields
<1>3. CASE DeleteFramebuffer(n)
  <2>1. \/ gl'[c] = gl[c]
        \/ /\ gl'[c].state = Unbind(gl[c], {"framebuffer"}, n, 0)
           /\ gl'[c].textures = gl[c].textures
    BY <1>3 DEF DeleteFramebuffer, OnCurrent, Now, IsDriverState
  <2> QED
    BY <1>0, <2>1, UnbindKeepsZero DEF BindingFields
<1>4. CASE DeleteVertexArray(n)
  <2>1. \/ gl'[c] = gl[c]
        \/ /\ gl'[c].state = Unbind(gl[c], {"vertexArray"}, n, 0)
           /\ gl'[c].textures = gl[c].textures
    BY <1>4 DEF DeleteVertexArray, DeletedVertexArray, OnCurrent, Now, IsDriverState
  <2> QED
    BY <1>0, <2>1, UnbindKeepsZero DEF BindingFields
<1> QED
  BY <1>1, <1>2, <1>3, <1>4 DEF Delete

LEMMA DeleteSound ==
  ASSUME IInv, NEW n \in Names \ {0}, Delete(n)
  PROVE  (TrackedLive /\ ShadowSound)'
<1>1. UNCHANGED <<live, shadow, tracked>>
  BY DEF Delete, DeleteTexture, DeleteBuffer, DeleteFramebuffer, DeleteVertexArray,
     OnCurrent, filterVars
<1>2. ASSUME NEW c \in tracked \ {NoContext} PROVE Sound(c)'
  <2>1. c \in Contexts /\ Sound(c) /\ TypeOK
    BY DEF IInv, ShadowSound, Sound, TypeOK
  <2>2. KeepsZero(gl[c], gl'[c])
    BY <2>1, DeleteKeepsZero
  <2> QED
    BY <1>1, <2>1, <2>2
    DEF KeepsZero, Sound, SoundValues, SoundBindings, SoundUnit, SoundTextures, Kept,
        TexturesKept, DriverTargets
<1> QED
  BY <1>1, <1>2 DEF IInv, ShadowSound, Sound, TrackedLive

LEMMA ContextCallSound ==
  ASSUME IInv, ContextCall
  PROVE  (TrackedLive /\ ShadowSound)'
<1> USE DEF IInv, TypeOK, DriverTypeOK
<1>1. ASSUME NEW d \in Contexts, eglCreateContext(d) PROVE (TrackedLive /\ ShadowSound)'
  <2>1. d \notin tracked
    BY <1>1, ContextAssumption DEF eglCreateContext, CreateContext, TrackedLive
  <2>2. TrackedLive'
    BY <1>1 DEF eglCreateContext, CreateContext, noteContextCreated, TrackedLive
  <2>3. ASSUME NEW c \in tracked' \ {NoContext} PROVE Sound(c)'
    <3>1. CASE c = d
      <4>1. tracked' # tracked
        BY <2>1, <3>1
      <4>2. shadow'[c] = freshShadow /\ gl'[c] = freshDriver
        BY <1>1, <3>1, <4>1 DEF eglCreateContext, CreateContext, noteContextCreated
      <4> QED
        BY <4>2, FreshSound
    <3>2. CASE c # d
      <4>1. c \in tracked \ {NoContext} /\ c \in Contexts
        BY <1>1, <3>2 DEF eglCreateContext, noteContextCreated
      <4>2. shadow'[c] = shadow[c] /\ gl'[c] = gl[c]
        BY <1>1, <3>2, <4>1 DEF eglCreateContext, CreateContext, noteContextCreated
      <4> QED
        BY <4>1, <4>2, SoundUnchanged DEF ShadowSound, Sound
    <3> QED
      BY <3>1, <3>2
  <2> QED
    BY <2>2, <2>3 DEF ShadowSound, Sound
<1>2. ASSUME NEW d \in Contexts, eglDestroyContext(d) PROVE (TrackedLive /\ ShadowSound)'
  BY <1>2, SoundUnchanged
  DEF eglDestroyContext, DestroyContext, noteContextDestroyed, ShadowSound, Sound, TrackedLive
<1>3. ASSUME NEW d, eglMakeCurrent(d) PROVE (TrackedLive /\ ShadowSound)'
  BY <1>3, SoundUnchanged
  DEF eglMakeCurrent, MakeCurrent, filterVars, ShadowSound, Sound, TrackedLive
<1> QED
  BY <1>1, <1>2, <1>3 DEF ContextCall

LEMMA SoundStep == AcceptedCalls /\ IInv /\ [Next]_vars => IInv'
<1> SUFFICES ASSUME AcceptedCalls, IInv, [Next]_vars PROVE (TrackedLive /\ ShadowSound)'
  BY TypeStep DEF IInv
<1>1. CASE AValueCall
  <2>1. "activeTexture" \notin ValueFields
    BY FieldAssumption DEF ValueFields, BlendFields, EnumFields, FreeFields
  <2> QED
    BY <1>1, <2>1, SetCallSound DEF AValueCall, ValueCall, StateFields
<1>2. CASE AUnitCall
  <2>1. WritersOf("activeTexture") = {"ActiveTexture"}
    BY FieldAssumption DEF WritersOf, BufferFields
  <2> QED
    BY <1>2, <2>1, SetCallSound
    DEF AUnitCall, glActiveTexture, ValueCall, StateFields, AcceptedCalls
<1>3. CASE ABindingCall
  BY <1>3, SetCallSound DEF ABindingCall, BindingCall, StateFields, BindingFields, BufferFields
<1>4. CASE AForward \/ AnElements
  BY <1>4, ForwardSound
<1>5. CASE ATextureCall
  BY <1>5, TextureCallSound DEF ATextureCall
<1>6. CASE AFramebufferCall
  BY <1>6, FramebufferCallSound DEF AFramebufferCall
<1>7. CASE ADelete
  BY <1>7, DeleteSound DEF ADelete
<1>8. CASE ContextCall
  BY <1>8, ContextCallSound
<1>9. CASE SwitchHooks \/ UNCHANGED vars
  <2>1. UNCHANGED <<gl, live, shadow, tracked>>
    BY <1>9 DEF SwitchHooks, setHookEnabled, setAllHooksEnabled, vars, driverVars, filterVars
  <2> QED
    BY <2>1, SoundUnchanged DEF IInv, ShadowSound, Sound, TrackedLive
<1> QED
  BY <1>1, <1>2, <1>3, <1>4, <1>5, <1>6, <1>7, <1>8, <1>9,
     BlendSteps, RasterSteps, BindSteps DEF Next

LEMMA InitSound == Init => IInv
<1> SUFFICES ASSUME Init PROVE IInv
  OBVIOUS
<1>1. TypeOK
  BY FreshType, FreshShadowType, StateModelAssumption
  DEF Init, DriverInit, TypeOK, DriverTypeOK
<1> QED
  BY <1>1 DEF Init, IInv, ShadowSound, TrackedLive

(* For every set of installed hooks, every choice of hooks that may drop   *)
(* and every number of contexts: what the filter believes of a context     *)
(* whose creation it saw is what the driver holds.                         *)
THEOREM ShadowCorrect == AcceptedCalls => (Spec => [](ShadowSound /\ TrackedLive))
<1> SUFFICES ASSUME AcceptedCalls PROVE Spec => [](ShadowSound /\ TrackedLive)
  OBVIOUS
<1>1. IInv /\ [Next]_vars => IInv'
  BY SoundStep
<1>2. IInv => ShadowSound /\ TrackedLive
  BY DEF IInv
<1> QED
  BY <1>1, <1>2, InitSound, PTL DEF Spec

-----------------------------------------------------------------------------
(* The filter cannot be seen.                                              *)

LEMMA SameField ==
  ASSUME TypeOK, current \in Contexts, NEW f \in DriverFields, NEW v,
         gl[current].state[f] = v \/ Refused(f, v)
  PROVE  [gl EXCEPT ![current] = SetField(Now, f, v)] = gl
<1>1. SetField(gl[current], f, v) = gl[current]
  <2>1. ASSUME NEW g, IsDriverState(g), g.state[f] = v
        PROVE  [g EXCEPT !.state[f] = v] = g
    <3>1. [g.state EXCEPT ![f] = v] = g.state
      BY <2>1 DEF IsDriverState
    <3>2. [g EXCEPT !.state = g.state] = g
      BY <2>1 DEF IsDriverState
    <3> QED
      BY <3>1, <3>2, Zenon
  <2> QED
    BY <2>1 DEF SetField, TypeOK, DriverTypeOK
<1> QED
  BY <1>1 DEF Now, TypeOK, DriverTypeOK

LEMMA SetCallImplements ==
  ASSUME IInv, CoInstalled, NEW f \in StateFields, NEW v, NEW hook \in WritersOf(f),
         \/ f \in ValueFields \cup {"activeTexture"} /\ ValueCall(hook, f, v)
         \/ f \in BindingFields /\ BindingCall(hook, f, v)
  PROVE  Set(f, v)
<1> DEFINE redundant == IF f \in BindingFields THEN canDropBinding(Shadow(f), v)
                        ELSE sameValue(Shadow(f), v)
<1>1. SetCall(hook, f, v, redundant)
  <2>1. \A x \in ValueFields \cup {"activeTexture"} : x \notin BindingFields
    BY FieldAssumption
    DEF ValueFields, BindingFields, BufferFields, BlendFields, EnumFields, FreeFields
  <2> QED
    BY <2>1 DEF ValueCall, BindingCall
<1>2. CASE Drops(hook, redundant) /\ Drop(<<"set", f, v>>)
  <2>1. CASE current = NoContext
    BY <1>2, <2>1 DEF Drop, Set, OnCurrent
  <2>2. CASE current # NoContext
    <3>1. current \in tracked \ {NoContext} /\ current \in Contexts
      BY <1>2, <2>2 DEF Drops, filtered, IInv, TypeOK, DriverTypeOK
    <3>2. Kept(f) /\ Sound(current)
      BY <1>2, <3>1 DEF Drops, filtered, CoInstalled, IInv, ShadowSound, Sound
    <3>3. gl[current].state[f] = v \/ Refused(f, v)
      BY <1>2, <3>2
      DEF Drops, Shadow, sameValue, canDropBinding, Sound, SoundValues, SoundBindings,
          SoundUnit, StateFields
    <3>4. [gl EXCEPT ![current] = SetField(Now, f, v)] = gl
      BY <3>1, <3>3, SameField DEF DriverFields, IInv
    <3> QED
      BY <1>2, <3>4 DEF Drop, Set, OnCurrent
  <2> QED
    BY <2>1, <2>2
<1> QED
  BY <1>1, <1>2 DEF SetCall

LEMMA TextureCallImplements ==
  ASSUME IInv, CoInstalled, AcceptedCalls, NEW target \in TargetArgs, NEW n \in Names,
         glBindTexture(target, n)
  PROVE  BindTexture(target, n)
<1> DEFINE unit == Shadow("activeTexture")
           slot == textureTargetSlot(target)
<1>1. CASE /\ Drop(<<"bindTexture", target, n>>)
           /\ filtered("BindTexture") /\ unit \in TrackedUnits /\ slot # NoSlot
           /\ n = 0 /\ shadow[current].textures[unit][slot] = 0
  <2>1. CASE current = NoContext
    BY <1>1, <2>1 DEF Drop, BindTexture, OnCurrent
  <2>2. CASE current # NoContext
    <3>1. current \in tracked \ {NoContext} /\ current \in Contexts
      BY <1>1, <2>2 DEF filtered, IInv, TypeOK, DriverTypeOK
    <3>2. slot = target /\ target \in TextureSlots
      BY <1>1 DEF AcceptedCalls, textureTargetSlot
    <3>3. Sound(current) /\ IsDriverState(gl[current])
      BY <3>1 DEF IInv, ShadowSound, Sound, TypeOK, DriverTypeOK
    <3>4. Kept("activeTexture") /\ TexturesKept
      <4>1. WritersOf("activeTexture") = {"ActiveTexture"}
        BY FieldAssumption DEF WritersOf, BufferFields
      <4> QED
        BY <1>1, <4>1 DEF filtered, CoInstalled, Kept, TexturesKept
    <3>5. unit = gl[current].state["activeTexture"]
      BY <3>3, <3>4 DEF Sound, SoundUnit, Shadow
    <3>6. unit \in Units => gl[current].textures[unit][target] = 0
      BY <1>1, <3>2, <3>3, <3>4 DEF Sound, SoundTextures
    <3>7. SetTexture(gl[current], target, n) = gl[current]
      <4> DEFINE g == gl[current]
      <4>1. [g.textures EXCEPT ![unit][target] = n] = g.textures
        BY <1>1, <3>2, <3>3, <3>6 DEF IsDriverState, DriverTargets
      <4>2. [g EXCEPT !.textures = g.textures] = g
        BY <3>3 DEF IsDriverState
      <4>3. [g EXCEPT !.textures[unit][target] = n] = g
        BY <4>1, <4>2, Zenon
      <4> QED
        BY <3>5, <4>3 DEF SetTexture
    <3>8. [gl EXCEPT ![current] = SetTexture(Now, target, n)] = gl
      BY <3>7 DEF Now, IInv, TypeOK, DriverTypeOK
    <3> QED
      BY <1>1, <3>8 DEF Drop, BindTexture, OnCurrent
  <2> QED
    BY <2>1, <2>2
<1> QED
  BY <1>1 DEF glBindTexture, Drops, canDropBinding

LEMMA FramebufferCallImplements ==
  ASSUME IInv, CoInstalled, NEW target \in FramebufferTargets, NEW n \in Names,
         glBindFramebuffer(target, n)
  PROVE  BindFramebuffer(target, n)
<1>1. CASE /\ Drop(<<"bindFramebuffer", target, n>>)
           /\ filtered("BindFramebuffer") /\ target # "GL_READ_FRAMEBUFFER"
           /\ n = 0 /\ Shadow("framebuffer") = 0
  <2>1. CASE current = NoContext
    BY <1>1, <2>1 DEF Drop, BindFramebuffer, OnCurrent
  <2>2. CASE current # NoContext
    <3>1. current \in tracked \ {NoContext} /\ current \in Contexts
      BY <1>1, <2>2 DEF filtered, IInv, TypeOK, DriverTypeOK
    <3>2. "framebuffer" \in BindingFields /\ "framebuffer" \in DriverFields
      BY DEF BindingFields, DriverFields, StateFields
    <3>3. Kept("framebuffer")
      <4>1. WritersOf("framebuffer") = {"BindFramebuffer"}
        BY FieldAssumption DEF WritersOf, BindingFields, BufferFields
      <4> QED
        BY <1>1, <4>1 DEF filtered, Kept
    <3>4. gl[current].state["framebuffer"] = n
      BY <1>1, <3>1, <3>2, <3>3 DEF IInv, ShadowSound, SoundBindings, Shadow
    <3>5. [gl EXCEPT ![current] = SetField(Now, "framebuffer", n)] = gl
      BY <3>1, <3>2, <3>4, SameField DEF IInv
    <3> QED
      BY <1>1, <3>5 DEF Drop, BindFramebuffer, OnCurrent
  <2> QED
    BY <2>1, <2>2
<1> QED
  BY <1>1 DEF glBindFramebuffer, Drops, canDropBinding

LEMMA StepImplements ==
  AcceptedCalls /\ CoInstalled /\ IInv /\ [Next]_vars => [DriverNext]_driverVars
<1> SUFFICES ASSUME AcceptedCalls, CoInstalled, IInv, [Next]_vars
             PROVE  DriverNext \/ UNCHANGED driverVars
  OBVIOUS
<1>1. CASE AValueCall
  BY <1>1, SetCallImplements DEF AValueCall, DriverNext, DriverFields, StateFields
<1>2. CASE AUnitCall
  <2>1. WritersOf("activeTexture") = {"ActiveTexture"}
    BY FieldAssumption DEF WritersOf, BufferFields
  <2> QED
    BY <1>2, <2>1, SetCallImplements, DomainOf
    DEF AUnitCall, glActiveTexture, DriverNext, DriverFields, StateFields
<1>3. CASE ABindingCall
  BY <1>3, SetCallImplements, DomainOf DEF ABindingCall, DriverNext, DriverFields, StateFields
<1>4. CASE AForward
  BY <1>4 DEF AForward, Forward, DriverNext, DriverFields
<1>5. CASE AnElements
  BY <1>5 DEF AnElements, DriverNext
<1>6. CASE ATextureCall
  BY <1>6, TextureCallImplements DEF ATextureCall, DriverNext
<1>7. CASE AFramebufferCall
  BY <1>7, FramebufferCallImplements DEF AFramebufferCall, DriverNext
<1>8. CASE ADelete
  BY <1>8 DEF ADelete, Delete, DriverNext
<1>9. CASE ContextCall
  <2>1. ASSUME NEW c \in Contexts, eglCreateContext(c) \/ eglDestroyContext(c)
        PROVE  DriverNext
    BY <2>1 DEF eglCreateContext, eglDestroyContext, DriverNext
  <2>2. ASSUME NEW c, eglMakeCurrent(c) PROVE DriverNext
    <3>1. c \in Contexts \cup {NoContext} /\ MakeCurrent(c)
      BY <2>2 DEF eglMakeCurrent, MakeCurrent, IInv, TypeOK, DriverTypeOK
    <3> QED
      BY <3>1 DEF DriverNext
  <2> QED
    BY <1>9, <2>1, <2>2 DEF ContextCall
<1>10. CASE SwitchHooks \/ UNCHANGED vars
  BY <1>10 DEF SwitchHooks, setHookEnabled, setAllHooksEnabled, vars, driverVars
<1> QED
  BY <1>1, <1>2, <1>3, <1>4, <1>5, <1>6, <1>7, <1>8, <1>9, <1>10,
     BlendSteps, RasterSteps, BindSteps DEF Next

(* Whatever is dropped, the driver goes through the states it would go     *)
(* through without the filter, also when only some of the hooks could be   *)
(* placed, provided those that share a field were placed together.         *)
THEOREM FilterTransparent == AcceptedCalls /\ CoInstalled => (Spec => Transparent)
<1> SUFFICES ASSUME AcceptedCalls, CoInstalled PROVE Spec => DriverSpec
  BY DEF Transparent
<1>1. IInv /\ [Next]_vars => IInv'
  BY SoundStep
<1>2. IInv /\ [Next]_vars => [DriverNext]_driverVars
  BY StepImplements
<1>3. Init => DriverInit
  BY DEF Init
<1> QED
  BY <1>1, <1>2, <1>3, InitSound, PTL DEF Spec, DriverSpec

=============================================================================
