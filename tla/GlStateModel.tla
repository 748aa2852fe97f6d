------------------------------ MODULE GlStateModel ------------------------------
(***************************************************************************)
(* The state the GL filter shadows for one rendering context, the values   *)
(* a context is born with and the two redundancy rules                     *)
(* (src/src/GlStateModel.h).                                               *)
(*                                                                         *)
(* Data is abstracted to what the redundancy rules tell apart.  The four   *)
(* channels of a colour, a colour mask or a blend function are always      *)
(* compared and written together, so each is one field.  The `enabled' bit *)
(* mask is one Boolean field per capability.  A value of a field is a      *)
(* model value or a string; Unknown is the bit pattern of the sentinels    *)
(* kUnknownUint, kUnknownInt (one bit pattern per type).                   *)
(***************************************************************************)
EXTENDS Naturals, Sequences

CONSTANTS
  Unknown,            \* the sentinel of a field whose value is not known
  Invalid,            \* argument values the driver refuses, Unknown included
  Capabilities,       \* capabilities capabilityBit knows
  OtherCapabilities,  \* capabilities it does not
  Factors,            \* blend factors
  Equations,          \* blend equations
  Colours,            \* blend colours
  DepthFuncs, Faces, Windings, DepthRanges, Coverages, Rects, PixelValues,
  Flags,              \* GLboolean arguments, as bytes: 0 is false, others true
  Names,              \* object names, 0 is "none"
  Orphan,             \* a bound object whose name has been deleted
  Units,              \* texture units of the driver
  TrackedUnits,       \* units below TextureUnits::kMaxUnits
  UnitArgs,           \* units the game asks for
  OtherTargets        \* texture targets without a slot

ASSUME StateModelAssumption ==
  /\ Unknown \in Invalid
  /\ Unknown \notin Names
  /\ 0 \in Names
  /\ Orphan \notin Names
  /\ 0 \in TrackedUnits
  /\ 0 \in Units

-----------------------------------------------------------------------------
(* Fields.  A value field is dropped on equality, a binding field only on a *)
(* repeated unbind.  The driver has further fields the mod does not shadow. *)

BlendFields == {"blendFunc", "blendEquation"}
EnumFields  == {"depthFunc", "cullFaceMode", "frontFace", "viewport",
                "unpackAlignment", "packAlignment", "unpackRowLength"}
FreeFields  == {"blendColor", "depthMask", "colorMask", "depthRange",
                "sampleCoverage"}
ValueFields == Capabilities \cup BlendFields \cup EnumFields \cup FreeFields

BufferFields  == {"arrayBuffer", "pixelUnpackBuffer", "pixelPackBuffer"}
BindingFields == BufferFields \cup {"currentProgram", "framebuffer", "vertexArray"}

StateFields  == ValueFields \cup BindingFields \cup {"activeTexture"}
OtherFields  == OtherCapabilities \cup {"otherBuffer", "otherPixelStore"}
DriverFields == StateFields \cup OtherFields

(* A capability must not be named like another field. *)
ASSUME FieldAssumption ==
  /\ (Capabilities \cup OtherCapabilities) \cap
       (BlendFields \cup EnumFields \cup FreeFields \cup BindingFields
          \cup {"activeTexture", "otherBuffer", "otherPixelStore"}) = {}
  /\ Capabilities \cap OtherCapabilities = {}

Bit == 0 .. 1

(* The values a field can hold in the shadow. *)
Domain(f) ==
  CASE f \in Capabilities \cup OtherCapabilities -> BOOLEAN
    [] f = "blendFunc"      -> LET F == Factors \cup {Unknown} IN F \X F \X F \X F
    [] f = "blendEquation"  -> LET E == Equations \cup {Unknown} IN E \X E
    [] f = "blendColor"     -> Colours
    [] f = "depthFunc"      -> DepthFuncs
    [] f = "depthMask"      -> Bit
    [] f = "colorMask"      -> Bit \X Bit \X Bit \X Bit
    [] f = "cullFaceMode"   -> Faces
    [] f = "frontFace"      -> Windings
    [] f = "depthRange"     -> DepthRanges
    [] f = "sampleCoverage" -> Coverages \X Bit
    [] f = "viewport"       -> Rects \cup {Unknown}
    [] f \in {"unpackAlignment", "packAlignment", "unpackRowLength",
              "otherPixelStore"} -> PixelValues \cup {Unknown}
    [] f = "activeTexture"  -> UnitArgs \cup {0}
    [] OTHER                -> Names \cup {Unknown, Orphan}

(* The values a new context holds by the GL specification: what the driver *)
(* starts from.  The viewport and the pixel-store values are representative *)
(* members of their domains: the code never relies on them.                *)
SpecDefault == [f \in DriverFields |->
  CASE f = "GL_DITHER"      -> TRUE
    [] f \in (Capabilities \cup OtherCapabilities) \ {"GL_DITHER"} -> FALSE
    [] f = "blendFunc"      -> <<"GL_ONE", "GL_ZERO", "GL_ONE", "GL_ZERO">>
    [] f = "blendEquation"  -> <<"GL_FUNC_ADD", "GL_FUNC_ADD">>
    [] f = "blendColor"     -> "0000"
    [] f = "depthFunc"      -> "GL_LESS"
    [] f = "depthMask"      -> 1
    [] f = "colorMask"      -> <<1, 1, 1, 1>>
    [] f = "cullFaceMode"   -> "GL_BACK"
    [] f = "frontFace"      -> "GL_CCW"
    [] f = "depthRange"     -> "0..1"
    [] f = "sampleCoverage" -> <<"1.0", 0>>
    [] f = "viewport"       -> "drawable"
    [] f \in {"unpackAlignment", "packAlignment"} -> "4"
    [] OTHER                -> IF f \in {"unpackRowLength", "otherPixelStore"}
                               THEN "0" ELSE 0]

(* freshContextState(): the fields the specification pins down start known, *)
(* the others at their sentinel.                                            *)
freshContextState == [f \in StateFields |->
  CASE f = "blendFunc" -> <<Unknown, Unknown, Unknown, Unknown>>
    [] f \in BindingFields \cup {"viewport", "unpackAlignment",
                                 "packAlignment", "unpackRowLength"} -> Unknown
    [] OTHER -> SpecDefault[f]]

(* The instance must contain the values contexts are born with. *)
ASSUME DefaultAssumption ==
  /\ {"GL_ONE", "GL_ZERO"} \subseteq Factors
  /\ "GL_FUNC_ADD" \in Equations
  /\ "0000" \in Colours
  /\ "GL_LESS" \in DepthFuncs
  /\ "GL_BACK" \in Faces
  /\ "GL_CCW" \in Windings
  /\ "0..1" \in DepthRanges
  /\ "1.0" \in Coverages
  /\ "drawable" \in Rects
  /\ {"4", "0"} \subseteq PixelValues

-----------------------------------------------------------------------------
(* Texture targets and units.                                              *)

TextureSlots == {"GL_TEXTURE_2D", "GL_TEXTURE_3D", "GL_TEXTURE_2D_ARRAY",
                 "GL_TEXTURE_CUBE_MAP", "GL_TEXTURE_EXTERNAL_OES"}
CubeFaces    == {"GL_TEXTURE_CUBE_MAP_FACE"}   \* stands for the six face enums
NoSlot       == "none"

textureTargetSlot(target) ==
  CASE target \in TextureSlots -> target
    [] target \in CubeFaces    -> "GL_TEXTURE_CUBE_MAP"
    [] OTHER                   -> NoSlot

freshTextures == [u \in TrackedUnits |-> [s \in TextureSlots |-> 0]]

-----------------------------------------------------------------------------
(* Redundancy rules.                                                       *)

sameValue(shadow, value)     == shadow = value
(* Slip: a binding dropped whenever it repeats the last one. *)
canDropRepeat(shadow, name) == shadow = name

canDropBinding(shadow, name) == name = 0 /\ shadow = name

(* The arguments the driver answers with an error and otherwise ignores.   *)
Refused(f, v) ==
  \/ f \in EnumFields /\ v \in Invalid
  \/ f = "activeTexture" /\ v \notin Units
  \/ f \in BlendFields /\ \E i \in DOMAIN v : v[i] \in Invalid
=============================================================================
