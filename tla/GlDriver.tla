-------------------------------- MODULE GlDriver --------------------------------
(***************************************************************************)
(* What the game is promised: an OpenGL ES driver with no filter in front  *)
(* of it.  The driver is not part of the repository; it is modelled from   *)
(* the state the detours shadow and from the GL behaviour their comments   *)
(* rely on (deleted names, vertex-array objects, context defaults).        *)
(*                                                                         *)
(* `call' is the call the game has just made.  It is part of the           *)
(* specification so that an implementation cannot answer a call by doing   *)
(* nothing and pass for a stuttering step.                                 *)
(***************************************************************************)
EXTENDS GlStateModel

CONSTANTS
  Contexts,     \* handles eglCreateContext may return
  NoContext,    \* EGL_NO_CONTEXT
  TargetArgs    \* texture targets the game binds

ASSUME ContextAssumption == NoContext \notin Contexts

VARIABLES
  gl,       \* gl[c]: the driver's state of context c
  live,     \* contexts the driver has and the game may make current
  current,  \* the context current on the render thread
  call      \* the call just made

driverVars == <<gl, live, current, call>>

DriverTargets == TextureSlots \cup OtherTargets
FramebufferTargets == {"GL_FRAMEBUFFER", "GL_DRAW_FRAMEBUFFER", "GL_READ_FRAMEBUFFER"}

IsDriverState(g) ==
  /\ g = [state |-> g.state, textures |-> g.textures, elements |-> g.elements]
  /\ g.state = [f \in DriverFields |-> g.state[f]]
  /\ \A f \in DriverFields : g.state[f] \in Domain(f)
  /\ g.textures \in [Units -> [DriverTargets -> Names \cup {Orphan}]]
  /\ g.elements \in [Names -> Names \cup {Orphan}]

freshDriver ==
  [state    |-> SpecDefault,
   textures |-> [u \in Units |-> [t \in DriverTargets |-> 0]],
   elements |-> [a \in Names |-> 0]]

-----------------------------------------------------------------------------
(* What each kind of call does to the state g of the current context.      *)

SetField(g, f, v) ==
  IF Refused(f, v) THEN g ELSE [g EXCEPT !.state[f] = v]

(* Bindings go to the active unit, element arrays to the current vertex array. *)
SetTexture(g, target, n) ==
  IF target \in DriverTargets
  THEN [g EXCEPT !.textures[g.state["activeTexture"]][target] = n] ELSE g

SetElements(g, n) ==
  IF g.state["vertexArray"] \in Names
  THEN [g EXCEPT !.elements[g.state["vertexArray"]] = n] ELSE g

(* Deleting a name unbinds it in the current context.  Elsewhere the object *)
(* stays bound but is no longer what the name stands for.                   *)
Unbind(g, fields, n, to) ==
  [f \in DriverFields |-> IF f \in fields /\ g.state[f] = n THEN to ELSE g.state[f]]

DeletedTexture(g, n, to) ==
  [g EXCEPT !.textures = [u \in Units |-> [t \in DriverTargets |->
     IF g.textures[u][t] = n THEN to ELSE g.textures[u][t]]]]

DeletedBuffer(g, n, here) ==
  [g EXCEPT
     !.state = Unbind(g, BufferFields \cup {"otherBuffer"}, n,
                      IF here THEN 0 ELSE Orphan),
     !.elements = [a \in Names |->
        IF g.elements[a] # n THEN g.elements[a]
        ELSE IF here /\ a = g.state["vertexArray"] THEN 0 ELSE Orphan]]

DeletedVertexArray(g, n) ==
  [g EXCEPT !.state = Unbind(g, {"vertexArray"}, n, 0),
            !.elements = [a \in Names |-> IF a = n THEN 0 ELSE g.elements[a]]]

-----------------------------------------------------------------------------
(* The calls.  A state call made without a current context changes nothing. *)

OnCurrent(after) ==
  /\ gl' = IF current = NoContext THEN gl ELSE [gl EXCEPT ![current] = after]
  /\ UNCHANGED <<live, current>>

Now == gl[current]

Set(f, v) ==
  /\ call' = <<"set", f, v>>
  /\ OnCurrent(SetField(Now, f, v))

BindTexture(target, n) ==
  /\ call' = <<"bindTexture", target, n>>
  /\ OnCurrent(SetTexture(Now, target, n))

BindElements(n) ==
  /\ call' = <<"bindElements", n>>
  /\ OnCurrent(SetElements(Now, n))

(* The read binding is left out of the promise: see ReadBindingFollows in *)
(* module GlDetours.                                                      *)
BindFramebuffer(target, n) ==
  /\ call' = <<"bindFramebuffer", target, n>>
  /\ OnCurrent(IF target = "GL_READ_FRAMEBUFFER" THEN Now
               ELSE SetField(Now, "framebuffer", n))

(* Textures and buffers are shared by all contexts. *)
DeleteTexture(n) ==
  /\ current # NoContext
  /\ call' = <<"deleteTexture", n>>
  /\ gl' = [c \in Contexts |->
              DeletedTexture(gl[c], n, IF c = current THEN 0 ELSE Orphan)]
  /\ UNCHANGED <<live, current>>

DeleteBuffer(n) ==
  /\ current # NoContext
  /\ call' = <<"deleteBuffer", n>>
  /\ gl' = [c \in Contexts |-> DeletedBuffer(gl[c], n, c = current)]
  /\ UNCHANGED <<live, current>>

(* Framebuffers and vertex arrays belong to one context. *)
DeleteFramebuffer(n) ==
  /\ call' = <<"deleteFramebuffer", n>>
  /\ OnCurrent([Now EXCEPT !.state = Unbind(Now, {"framebuffer"}, n, 0)])

DeleteVertexArray(n) ==
  /\ call' = <<"deleteVertexArray", n>>
  /\ OnCurrent(DeletedVertexArray(Now, n))

(* A context that is current when it is destroyed lives on, without being   *)
(* usable elsewhere, until it is released; only then may its handle return. *)
CreateContext(c) ==
  /\ c \notin live /\ c # current
  /\ call' = <<"createContext", c>>
  /\ gl' = [gl EXCEPT ![c] = freshDriver]
  /\ live' = live \cup {c}
  /\ UNCHANGED current

DestroyContext(c) ==
  /\ c \in live
  /\ call' = <<"destroyContext", c>>
  /\ live' = live \ {c}
  /\ UNCHANGED <<gl, current>>

MakeCurrent(c) ==
  /\ c \in live \cup {NoContext}
  /\ call' = <<"makeCurrent", c>>
  /\ current' = c
  /\ UNCHANGED <<gl, live>>

-----------------------------------------------------------------------------
DriverInit ==
  /\ gl = [c \in Contexts |-> freshDriver]
  /\ live \in SUBSET Contexts
  /\ current \in live \cup {NoContext}
  /\ call = <<"none">>

DriverNext ==
  \/ \E f \in DriverFields : \E v \in Domain(f) : Set(f, v)
  \/ \E target \in TargetArgs, n \in Names : BindTexture(target, n)
  \/ \E target \in FramebufferTargets, n \in Names : BindFramebuffer(target, n)
  \/ \E n \in Names : BindElements(n)
  \/ \E n \in Names \ {0} : \/ DeleteTexture(n) \/ DeleteBuffer(n)
                            \/ DeleteFramebuffer(n) \/ DeleteVertexArray(n)
  \/ \E c \in Contexts : CreateContext(c) \/ DestroyContext(c)
  \/ \E c \in Contexts \cup {NoContext} : MakeCurrent(c)

DriverTypeOK ==
  /\ gl = [c \in Contexts |-> gl[c]]
  /\ \A c \in Contexts : IsDriverState(gl[c])
  /\ live \subseteq Contexts
  /\ current \in Contexts \cup {NoContext}

DriverSpec == DriverInit /\ [][DriverNext]_driverVars
=============================================================================
