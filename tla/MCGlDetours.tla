------------------------------ MODULE MCGlDetours ------------------------------
(***************************************************************************)
(* Instances of GlDetours for TLC.  Every field keeps its default, one     *)
(* other value and, where the driver refuses arguments, a refused one.     *)
(***************************************************************************)
EXTENDS GlDetours

CONSTANTS c1, c2

MCInvalid == {Unknown, "GL_INVALID"}
MCCapabilities == {"GL_DITHER", "GL_BLEND"}
MCOtherCapabilities == {"GL_RASTERIZER_DISCARD"}
MCFactors == {"GL_ONE", "GL_ZERO", Unknown}
MCEquations == {"GL_FUNC_ADD", "GL_MIN", "GL_INVALID"}
MCColours == {"0000", "1000"}
MCDepthFuncs == {"GL_LESS", "GL_ALWAYS", "GL_INVALID"}
MCFaces == {"GL_BACK", "GL_FRONT", "GL_INVALID"}
MCWindings == {"GL_CCW", "GL_CW"}
MCDepthRanges == {"0..1", "1..0"}
MCCoverages == {"1.0", "0.5"}
MCRects == {"drawable", "quarter", Unknown}
MCPixelValues == {"4", "0", Unknown}
MCFlags == {0, 255}
MCOtherTargets == {"GL_TEXTURE_BUFFER"}
MCTargetArgs == {"GL_TEXTURE_2D", "GL_TEXTURE_CUBE_MAP", "GL_TEXTURE_BUFFER"}

AllHooks == Hooks

(* One context that is created, in use and never destroyed. *)
Alone(calls, toggles) ==
  [calls |-> calls, toggles |-> toggles, uses |-> {c1}, destroys |-> {},
   targets |-> {"GL_TEXTURE_2D", "GL_TEXTURE_CUBE_MAP"}]

ValueGames == {
  Alone({"BlendFunc"}, {"BlendFunc"}),
  Alone({"BlendEquation", "DepthMask"}, {"BlendEquationSeparate"}),
  Alone({"BlendColor", "DepthFunc", "CullFace"}, {"DepthFunc"}),
  Alone({"Enable", "FrontFace", "DepthRangef"}, {"Disable"}),
  Alone({"ColorMask"}, {"ColorMask"}),
  Alone({"SampleCoverage"}, {}),
  Alone({"Viewport", "PixelStorei"}, {"Viewport"})}

BindingGames == {
  Alone({"BindBuffer"}, {"BindBuffer"}),
  Alone({"BindVertexArray", "UseProgram"}, {"BindVertexArray"}),
  Alone({"ActiveTexture", "BindTexture"}, {"ActiveTexture"})}

(* Contexts come, go and change places; textures are shared among them. *)
ContextGames == {
  [calls |-> {"UseProgram", "BindFramebuffer"}, toggles |-> {"BindFramebuffer"},
   uses |-> {c1}, destroys |-> {c1}, targets |-> {}],
  [calls |-> {"DepthMask"}, toggles |-> {"DepthMask"},
   uses |-> {c1, c2, NoContext}, destroys |-> {c1, c2}, targets |-> {}],
  [calls |-> {"BindTexture"}, toggles |-> {"BindTexture"},
   uses |-> {c1, c2}, destroys |-> {c2},
   targets |-> {"GL_TEXTURE_2D", "GL_TEXTURE_BUFFER"}]}

AllGames == ValueGames \cup BindingGames \cup ContextGames
FramebufferGame == {Alone({"BindFramebuffer"}, {})}
=============================================================================
