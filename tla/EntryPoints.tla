------------------------------- MODULE EntryPoints -------------------------------
(***************************************************************************)
(* The hooks of GlInterceptor.cpp and EglSensor.cpp: one entry point of    *)
(* each library stands for all of them.  The preloader's hook() patches     *)
(* the exported symbol at once and then hands back the trampoline, which    *)
(* the installation stores; in between the game may already be in the      *)
(* detour.  What hook() does to a symbol it has patched before is open: it *)
(* refuses, patches it again and hands back the driver's entry, or hands    *)
(* back what the symbol led to, which is the detour itself.                 *)
(***************************************************************************)
EXTENDS Naturals

CONSTANT Libraries     \* {"gl", "egl"}

ASSUME EntryAssumption == Libraries = {"gl", "egl"}

VARIABLES
  symbol,        \* what a call by name reaches: the driver or the detour
  original,      \* gOriginals, gEglOriginals: where the trampoline leads, or none
  installed,     \* mInstalledCount > 0
  got            \* what hook() has handed back and is not stored yet

entryVars == <<symbol, original, installed, got>>

Driver == "driver"
Detour == "detour"
None   == "none"

(* install of a library that counts as installed does nothing. *)
mustHook(lib) == ~installed[lib]

(* hook() at one symbol: refused, patched, or patched without a trampoline. *)
hook(lib) ==
  \/ got' = "refused" /\ UNCHANGED <<symbol, original, installed>>
  \/ /\ got' \in {Driver, None, symbol[lib]}
     /\ symbol' = [symbol EXCEPT ![lib] = Detour]
     /\ UNCHANGED <<original, installed>>

(* The trampoline is stored; without one the symbol is given back, unless the *)
(* preloader keeps the earlier hook with the same detour.                     *)
store(lib) ==
  \/ /\ got = "refused"
     /\ UNCHANGED <<symbol, original, installed>> /\ got' = None
  \/ /\ got = None
     /\ symbol' = [symbol EXCEPT ![lib] = Driver] \/ (original[lib] # None /\ UNCHANGED symbol)
     /\ UNCHANGED <<original, installed, got>>
  \/ /\ got \in {Driver, Detour}
     /\ original' = [original EXCEPT ![lib] = got]
     /\ installed' = [installed EXCEPT ![lib] = TRUE]
     /\ got' = None /\ UNCHANGED symbol

(* Slip: the trampoline is forgotten with the count. *)
uninstallForgets ==
  /\ installed' = [installed EXCEPT !["gl"] = FALSE]
  /\ original' = [original EXCEPT !["gl"] = None]
  /\ UNCHANGED <<symbol, got>>

(* uninstall, of the GL filter only: "clears the mod's own bookkeeping". *)
uninstall ==
  /\ installed' = [installed EXCEPT !["gl"] = FALSE]
  /\ UNCHANGED <<symbol, original, got>>

(* A call by name reaches the driver, through the detour and its trampoline if *)
(* the symbol is patched.  Without a trampoline a GL detour calls the symbol    *)
(* by name, itself, as it does through one that leads back to it; a swap        *)
(* returns EGL_FALSE.                                                           *)
reaches(lib) == symbol[lib] = Driver \/ original[lib] = Driver
inDetour(lib) == symbol[lib] = Detour

EntryInit ==
  /\ symbol = [lib \in Libraries |-> Driver]
  /\ original = [lib \in Libraries |-> None]
  /\ installed = [lib \in Libraries |-> FALSE]
  /\ got = None

EntryTypeOK ==
  /\ symbol \in [Libraries -> {Driver, Detour}]
  /\ original \in [Libraries -> {None, Driver, Detour}]
  /\ installed \in [Libraries -> BOOLEAN]
  /\ got \in {None, Driver, Detour, "refused"}
=============================================================================
