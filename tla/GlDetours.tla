------------------------------- MODULE GlDetours -------------------------------
(***************************************************************************)
(* The 22 detours of src/src/GlInterceptor.cpp, as the render thread runs  *)
(* them: each looks up the shadow of the current context, drops the call   *)
(* if the shadow says it changes nothing, and otherwise learns the value   *)
(* and forwards the call to the driver.  A detour is one step here; module *)
(* ShadowTable takes it apart.                                             *)
(***************************************************************************)
EXTENDS GlDriver, FiniteSets

CONSTANTS
  Installed,    \* hooks install() could place (a subset of Hooks)
  Games,        \* the games that are played (a bound on what happens together):
                \* the hooks whose entry points they call, those the auto mode
                \* switches one by one, the contexts they use and destroy, and
                \* the texture targets they bind
  MaxContexts   \* kMaxContexts

VARIABLES
  readFramebuffer, \* the driver's read-framebuffer binding of each context
  shadow,          \* mContexts[].state and .textures, by handle, and mDefault*
  tracked,         \* handles with a used slot; NoContext has the default shadow
  hookEnabled,     \* mHookEnabled, as the set of hooks that may drop
  game             \* the game that is played

filterVars == <<shadow, tracked, hookEnabled>>
vars == <<driverVars, readFramebuffer, filterVars, game>>

Hooks == {"Enable", "Disable", "BlendFunc", "BlendFuncSeparate", "BlendEquation",
          "BlendEquationSeparate", "BlendColor", "DepthFunc", "DepthMask",
          "ColorMask", "CullFace", "FrontFace", "DepthRangef", "SampleCoverage",
          "Viewport", "UseProgram", "ActiveTexture", "BindBuffer", "BindTexture",
          "BindFramebuffer", "BindVertexArray", "PixelStorei"}

ASSUME DetourAssumption ==
  /\ Installed \subseteq Hooks /\ MaxContexts \in Nat
  /\ Games \subseteq [calls : SUBSET Hooks, toggles : SUBSET Hooks,
                      uses : SUBSET (Contexts \cup {NoContext}), destroys : SUBSET Contexts,
                      targets : SUBSET TargetArgs]

freshShadow == [state |-> freshContextState, textures |-> freshTextures]

-----------------------------------------------------------------------------
(* The shape all detours share.                                            *)

(* Is there a detour on the entry point and a shadow for the context? *)
filtered(hook) == hook \in Installed /\ current \in tracked

mayDrop(hook) == hook \in hookEnabled

Drops(hook, redundant) == filtered(hook) /\ redundant /\ mayDrop(hook)

Drop(c) == call' = c /\ UNCHANGED <<gl, live, current, readFramebuffer, filterVars>>

(* Slip: a hook that is switched off does not look at the call at all. *)
LearnWhenOn(hook, f, v) ==
  /\ shadow' = IF filtered(hook) /\ mayDrop(hook)
               THEN [shadow EXCEPT ![current].state[f] = v] ELSE shadow
  /\ UNCHANGED <<tracked, hookEnabled>>

(* A hook that may not drop still learns. *)
Learn(hook, f, v) ==
  /\ shadow' = IF filtered(hook) THEN [shadow EXCEPT ![current].state[f] = v]
               ELSE shadow
  /\ UNCHANGED <<tracked, hookEnabled>>

Forward(f, v) == Set(f, v) /\ UNCHANGED <<readFramebuffer, filterVars>>

Shadow(f) == shadow[current].state[f]

(* A call that sets a field to a value, and one that binds an object name. *)
SetCall(hook, f, v, redundant) ==
  \/ /\ Drops(hook, redundant)
     /\ Drop(<<"set", f, v>>)
  \/ /\ ~Drops(hook, redundant)
     /\ Learn(hook, f, v)
     /\ Set(f, v)
     /\ UNCHANGED readFramebuffer

ValueCall(hook, f, v)   == SetCall(hook, f, v, sameValue(Shadow(f), v))
BindingCall(hook, f, n) == SetCall(hook, f, n, canDropBinding(Shadow(f), n))

-----------------------------------------------------------------------------
(* Capabilities and blending.                                              *)

glEnable(cap) == IF cap \in Capabilities THEN ValueCall("Enable", cap, TRUE)
                 ELSE Forward(cap, TRUE)

glDisable(cap) == IF cap \in Capabilities THEN ValueCall("Disable", cap, FALSE)
                  ELSE Forward(cap, FALSE)

glBlendFunc(src, dst) ==
  ValueCall("BlendFunc", "blendFunc", <<src, dst, src, dst>>)

glBlendFuncSeparate(srcRgb, dstRgb, srcAlpha, dstAlpha) ==
  ValueCall("BlendFuncSeparate", "blendFunc", <<srcRgb, dstRgb, srcAlpha, dstAlpha>>)

glBlendEquation(mode) ==
  ValueCall("BlendEquation", "blendEquation", <<mode, mode>>)

glBlendEquationSeparate(rgb, alpha) ==
  ValueCall("BlendEquationSeparate", "blendEquation", <<rgb, alpha>>)

glBlendColor(colour) == ValueCall("BlendColor", "blendColor", colour)

-----------------------------------------------------------------------------
(* Raster state.  GLboolean arguments are normalised to 0 or 1.            *)

(* Slip: the byte as the game passed it. *)
unnormalized(flag) == flag

normalized(flag) == IF flag # 0 THEN 1 ELSE 0

glDepthFunc(func)  == ValueCall("DepthFunc", "depthFunc", func)
glDepthMask(flag)  == ValueCall("DepthMask", "depthMask", normalized(flag))
glColorMask(r, g, b, a) ==
  ValueCall("ColorMask", "colorMask",
            <<normalized(r), normalized(g), normalized(b), normalized(a)>>)
glCullFace(mode)   == ValueCall("CullFace", "cullFaceMode", mode)
glFrontFace(mode)  == ValueCall("FrontFace", "frontFace", mode)
glDepthRangef(range) == ValueCall("DepthRangef", "depthRange", range)
glSampleCoverage(value, invert) ==
  ValueCall("SampleCoverage", "sampleCoverage", <<value, normalized(invert)>>)
glViewport(rect)   == ValueCall("Viewport", "viewport", rect)

PixelStoreFields == [GL_UNPACK_ALIGNMENT  |-> "unpackAlignment",
                     GL_PACK_ALIGNMENT    |-> "packAlignment",
                     GL_UNPACK_ROW_LENGTH |-> "unpackRowLength"]

(* A parameter of -1 has the bit pattern of the sentinel: Unknown. *)
glPixelStorei(pname, param) ==
  IF pname \in DOMAIN PixelStoreFields
  THEN ValueCall("PixelStorei", PixelStoreFields[pname], param)
  ELSE Forward("otherPixelStore", param)

-----------------------------------------------------------------------------
(* Bindings.                                                               *)

glUseProgram(program)    == BindingCall("UseProgram", "currentProgram", program)
glBindVertexArray(array) == BindingCall("BindVertexArray", "vertexArray", array)
glActiveTexture(unit)    == ValueCall("ActiveTexture", "activeTexture", unit)

BufferFieldOf == [GL_ARRAY_BUFFER        |-> "arrayBuffer",
                  GL_PIXEL_UNPACK_BUFFER |-> "pixelUnpackBuffer",
                  GL_PIXEL_PACK_BUFFER   |-> "pixelPackBuffer"]

(* The element array belongs to the vertex array and is always forwarded. *)
glBindBuffer(target, buffer) ==
  CASE target \in DOMAIN BufferFieldOf ->
         BindingCall("BindBuffer", BufferFieldOf[target], buffer)
    [] target = "GL_ELEMENT_ARRAY_BUFFER" ->
         BindElements(buffer) /\ UNCHANGED <<readFramebuffer, filterVars>>
    [] OTHER -> Forward("otherBuffer", buffer)

(* The unit is the one the shadow has active. *)
glBindTexture(target, texture) ==
  LET unit    == Shadow("activeTexture")
      slot    == textureTargetSlot(target)
      slotted == filtered("BindTexture") /\ unit \in TrackedUnits /\ slot # NoSlot
      redundant == slotted /\ canDropBinding(shadow[current].textures[unit][slot], texture)
      c == <<"bindTexture", target, texture>>
  IN \/ Drops("BindTexture", redundant) /\ Drop(c)
     \/ /\ ~Drops("BindTexture", redundant)
        /\ shadow' = IF slotted
                     THEN [shadow EXCEPT ![current].textures[unit][slot] = texture]
                     ELSE shadow
        /\ BindTexture(target, texture)
        /\ UNCHANGED <<tracked, hookEnabled, readFramebuffer>>

(* GL_FRAMEBUFFER binds for drawing and for reading, and is judged by the    *)
(* draw shadow alone.  A read bind is never dropped and forgets that shadow. *)
glBindFramebuffer(target, framebuffer) ==
  LET draw == target # "GL_READ_FRAMEBUFFER"
      redundant == draw /\ canDropBinding(Shadow("framebuffer"), framebuffer)
  IN \/ /\ Drops("BindFramebuffer", redundant)
        /\ Drop(<<"bindFramebuffer", target, framebuffer>>)
     \/ /\ ~Drops("BindFramebuffer", redundant)
        /\ Learn("BindFramebuffer", "framebuffer", IF draw THEN framebuffer ELSE Unknown)
        /\ BindFramebuffer(target, framebuffer)
        /\ readFramebuffer' =
             IF target = "GL_DRAW_FRAMEBUFFER" \/ current = NoContext
             THEN readFramebuffer
             ELSE [readFramebuffer EXCEPT ![current] = framebuffer]

-----------------------------------------------------------------------------
(* Deletions are not hooked.                                               *)

Delete(n) ==
  /\ \/ "BindTexture" \in game.calls /\ DeleteTexture(n) /\ UNCHANGED readFramebuffer
     \/ "BindBuffer" \in game.calls /\ DeleteBuffer(n) /\ UNCHANGED readFramebuffer
     \/ "BindVertexArray" \in game.calls /\ DeleteVertexArray(n) /\ UNCHANGED readFramebuffer
     \/ /\ "BindFramebuffer" \in game.calls
        /\ DeleteFramebuffer(n)
        /\ readFramebuffer' =
             [c \in Contexts |-> IF c = current /\ readFramebuffer[c] = n
                                 THEN 0 ELSE readFramebuffer[c]]
  /\ current \in game.uses
  /\ UNCHANGED filterVars /\ UNCHANGED game

(* Contexts.  A handle gets a fresh shadow if it has none and a slot is free. *)
noteContextCreated(c) ==
  IF c \in tracked \/ Cardinality(tracked \ {NoContext}) >= MaxContexts
  THEN UNCHANGED <<shadow, tracked>>
  ELSE /\ tracked' = tracked \cup {c}
       /\ shadow'  = [shadow EXCEPT ![c] = freshShadow]

eglCreateContext(c) ==
  /\ CreateContext(c)
  /\ noteContextCreated(c)
  /\ readFramebuffer' = [readFramebuffer EXCEPT ![c] = 0]
  /\ UNCHANGED hookEnabled

(* Slip: the slot of a destroyed context stays in use. *)
slotKept(c) == tracked' = tracked

noteContextDestroyed(c) == tracked' = tracked \ {c}

eglDestroyContext(c) ==
  /\ DestroyContext(c)
  /\ noteContextDestroyed(c)
  /\ UNCHANGED <<readFramebuffer, shadow, hookEnabled>>

eglMakeCurrent(c) ==
  MakeCurrent(c) /\ UNCHANGED <<readFramebuffer, filterVars>>

(* The auto mode and the settings switch hooks at any time. *)
setHookEnabled(hook, enabled) ==
  /\ hookEnabled' = IF enabled THEN hookEnabled \cup {hook} ELSE hookEnabled \ {hook}
  /\ UNCHANGED <<driverVars, readFramebuffer, shadow, tracked>>

setAllHooksEnabled(enabled) ==
  /\ hookEnabled' = IF enabled THEN Hooks ELSE {}
  /\ UNCHANGED <<driverVars, readFramebuffer, shadow, tracked>>

-----------------------------------------------------------------------------
(* Contexts that are live at the start were created before the hooks.      *)
Init ==
  /\ DriverInit
  /\ readFramebuffer = [c \in Contexts |-> 0]
  /\ shadow = [c \in Contexts \cup {NoContext} |-> freshShadow]
  /\ tracked = {NoContext}
  /\ hookEnabled = Hooks
  /\ game \in Games
  /\ live \cup {current} \subseteq game.uses \cup {NoContext}

(* A call of the game that is played. *)
Plays(hook) == hook \in game.calls /\ current \in game.uses /\ UNCHANGED game

BlendCall ==
  \/ /\ Plays("Enable")
     /\ \E cap \in Capabilities \cup OtherCapabilities : glEnable(cap) \/ glDisable(cap)
  \/ /\ Plays("BlendFunc")
     /\ \/ \E src, dst \in Factors : glBlendFunc(src, dst)
        \/ \E s1, d1, s2, d2 \in Factors : glBlendFuncSeparate(s1, d1, s2, d2)
  \/ /\ Plays("BlendEquation")
     /\ \/ \E mode \in Equations : glBlendEquation(mode)
        \/ \E rgb, alpha \in Equations : glBlendEquationSeparate(rgb, alpha)
  \/ Plays("BlendColor") /\ \E colour \in Colours : glBlendColor(colour)

RasterCall ==
  \/ Plays("DepthFunc") /\ \E func \in DepthFuncs : glDepthFunc(func)
  \/ Plays("DepthMask") /\ \E flag \in Flags : glDepthMask(flag)
  \/ Plays("ColorMask") /\ \E r, g, b, a \in Flags : glColorMask(r, g, b, a)
  \/ Plays("CullFace") /\ \E mode \in Faces : glCullFace(mode)
  \/ Plays("FrontFace") /\ \E mode \in Windings : glFrontFace(mode)
  \/ Plays("DepthRangef") /\ \E range \in DepthRanges : glDepthRangef(range)
  \/ /\ Plays("SampleCoverage")
     /\ \E value \in Coverages, invert \in Flags : glSampleCoverage(value, invert)
  \/ Plays("Viewport") /\ \E rect \in Rects : glViewport(rect)
  \/ /\ Plays("PixelStorei")
     /\ \E pname \in DOMAIN PixelStoreFields \cup {"GL_UNPACK_SKIP_ROWS"},
           param \in PixelValues : glPixelStorei(pname, param)

BindCall ==
  \/ Plays("UseProgram") /\ \E n \in Names : glUseProgram(n)
  \/ Plays("ActiveTexture") /\ \E unit \in UnitArgs : glActiveTexture(unit)
  \/ Plays("BindVertexArray") /\ \E n \in Names : glBindVertexArray(n)
  \/ /\ Plays("BindBuffer")
     /\ \E target \in DOMAIN BufferFieldOf \cup
                      {"GL_ELEMENT_ARRAY_BUFFER", "GL_UNIFORM_BUFFER"}, n \in Names :
          glBindBuffer(target, n)
  \/ Plays("BindTexture")
     /\ \E target \in TargetArgs \cap game.targets, n \in Names : glBindTexture(target, n)
  \/ Plays("BindFramebuffer")
     /\ \E target \in FramebufferTargets, n \in Names : glBindFramebuffer(target, n)
  \/ \E n \in Names \ {0} : Delete(n)

ContextCall ==
  \/ \E c \in Contexts \cap game.uses : eglCreateContext(c) /\ UNCHANGED game
  \/ \E c \in Contexts \cap game.destroys : eglDestroyContext(c) /\ UNCHANGED game
  \/ \E c \in game.uses : eglMakeCurrent(c) /\ UNCHANGED game

SwitchHooks ==
  \E enabled \in BOOLEAN :
    \/ \E hook \in Hooks \cap game.toggles : setHookEnabled(hook, enabled) /\ UNCHANGED game
    \/ setAllHooksEnabled(enabled) /\ UNCHANGED game

Next ==
  \/ BlendCall \/ RasterCall \/ BindCall
  \/ ContextCall
  \/ SwitchHooks

Spec == Init /\ [][Next]_vars

-----------------------------------------------------------------------------
(* Every variable has its type.  A normalised mask stays a bit, a unit the  *)
(* driver may refuse stays out of the driver, an orphan out of the shadow.  *)
IsShadow(sh) ==
  /\ sh = [state |-> sh.state, textures |-> sh.textures]
  /\ DOMAIN sh.state = StateFields
  /\ \A f \in StateFields : sh.state[f] \in Domain(f)
  /\ sh.textures \in [TrackedUnits -> [TextureSlots -> Names]]

TypeOK ==
  /\ DriverTypeOK
  /\ readFramebuffer \in [Contexts -> Names]
  /\ shadow = [c \in Contexts \cup {NoContext} |-> shadow[c]]
  /\ \A c \in Contexts \cup {NoContext} : IsShadow(shadow[c])
  /\ tracked \subseteq Contexts \cup {NoContext}
  /\ hookEnabled \subseteq Hooks

(* The hooks whose detours keep a field of the shadow. *)
WritersOf(f) ==
  CASE f \in Capabilities    -> {"Enable", "Disable"}
    [] f = "blendFunc"       -> {"BlendFunc", "BlendFuncSeparate"}
    [] f = "blendEquation"   -> {"BlendEquation", "BlendEquationSeparate"}
    [] f = "blendColor"      -> {"BlendColor"}
    [] f = "depthFunc"       -> {"DepthFunc"}
    [] f = "depthMask"       -> {"DepthMask"}
    [] f = "colorMask"       -> {"ColorMask"}
    [] f = "cullFaceMode"    -> {"CullFace"}
    [] f = "frontFace"       -> {"FrontFace"}
    [] f = "depthRange"      -> {"DepthRangef"}
    [] f = "sampleCoverage"  -> {"SampleCoverage"}
    [] f = "viewport"        -> {"Viewport"}
    [] f = "currentProgram"  -> {"UseProgram"}
    [] f = "activeTexture"   -> {"ActiveTexture"}
    [] f = "framebuffer"     -> {"BindFramebuffer"}
    [] f = "vertexArray"     -> {"BindVertexArray"}
    [] f \in BufferFields    -> {"BindBuffer"}
    [] OTHER                 -> {"PixelStorei"}

Kept(f) == WritersOf(f) \subseteq Installed
TexturesKept == {"ActiveTexture", "BindTexture"} \subseteq Installed

(* The shadow of a tracked context can be trusted, for the fields whose     *)
(* hooks could be placed.  A value it holds is the driver's, or one the     *)
(* driver refused (the sentinels among them): setting it again changes      *)
(* nothing.  A binding it holds as 0 is 0 in the driver, even though names  *)
(* are deleted, and reused, behind the filter's back.                       *)
SoundValues(c) == \A f \in ValueFields : Kept(f) =>
  \/ shadow[c].state[f] = gl[c].state[f]
  \/ Refused(f, shadow[c].state[f])

SoundBindings(c) == \A f \in BindingFields : Kept(f) =>
  (shadow[c].state[f] = 0 => gl[c].state[f] = 0)

SoundUnit(c) == Kept("activeTexture") =>
  shadow[c].state["activeTexture"] = gl[c].state["activeTexture"]

SoundTextures(c) == TexturesKept =>
  \A u \in TrackedUnits \cap Units, s \in TextureSlots :
    shadow[c].textures[u][s] = 0 => gl[c].textures[u][s] = 0

ShadowSound == \A c \in tracked \ {NoContext} :
  /\ SoundValues(c)
  /\ SoundBindings(c)
  /\ SoundUnit(c)
  /\ SoundTextures(c)

(* A handle is only trusted while its context exists: a stale entry would  *)
(* be taken for the next context that gets the same handle.                *)
TrackedLive == tracked \ {NoContext} \subseteq live

(* The filter cannot be seen: whatever the game calls, the driver ends up   *)
(* as if nothing had been dropped (the read framebuffer apart).             *)
Transparent == DriverSpec

(* When is an installation that got only some of its hooks safe?  When the *)
(* hooks of a field were placed together, and the hook that keeps the unit *)
(* with the hook that reads it.                                            *)
CoInstalled ==
  /\ \A f \in StateFields : WritersOf(f) \cap Installed # {} => Kept(f)
  /\ "BindTexture" \in Installed => "ActiveTexture" \in Installed

(* Calls with a unit or a target the driver refuses are learned all the    *)
(* same; the theorems are about games that make none.                      *)
AcceptedCalls == UnitArgs \subseteq Units /\ TargetArgs \cap CubeFaces = {}

(* "a call is only dropped when the driver would have ignored it"           *)
(* (tests/test_gl_filter.cpp): after glBindFramebuffer(GL_FRAMEBUFFER, n)   *)
(* the driver also reads from framebuffer n.                                *)
ReadBindingFollows ==
  call[1] = "bindFramebuffer" /\ current # NoContext =>
    (call[2] = "GL_FRAMEBUFFER" => readFramebuffer[current] = call[3])
=============================================================================
