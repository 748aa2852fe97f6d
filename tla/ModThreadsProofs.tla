---------------------------- MODULE ModThreadsProofs ----------------------------
(***************************************************************************)
(* Three threads in the mod, for any number of sessions and however often   *)
(* it is enabled: what it holds of the platform's sessions, that calls get  *)
(* through, what a callback that disable() cuts into can meet, that the     *)
(* readout is what was asked for, and that waits for locks are short.      *)
(***************************************************************************)
EXTENDS ModThreads, TLAPS

USE DEF Fatal, Nobody, Driver, Detour, None, NoSession, step, at, go, change, sessionVars,
        library, entryVars, overlayVars, loaderVars, options, menuVars, renderVars, history

-----------------------------------------------------------------------------
(* Types.                                                                  *)

Flags ==
  {gLibrary, mOverlayEnabled, showOverlay, stored, config, hasConfig, mFrameCallback,
   overlapped, late, shown}
    \subseteq BOOLEAN

LEMMA FlagsStep == TypeOK /\ [Next]_vars => Flags'
<1> SUFFICES ASSUME TypeOK, [Next]_vars PROVE Flags'
  OBVIOUS
<1> USE DEF TypeOK, SessionTypeOK, EntryTypeOK, OverlayTypeOK, Flags
<1>1. CASE load \/ beginEnable \/ installEglSensor \/ registerMenu
  BY <1>1 DEF load, beginEnable, installEglSensor, registerMenu
<1>2. CASE \/ install("gl", "hookGl", "storeGl", "hookEgl")
           \/ install("egl", "hookEgl", "storeEgl", "setCallback")
  BY <1>2 DEF install
<1>3. CASE startSession
  BY <1>3 DEF startSession, start, loadLibrary
<1>4. CASE setFlags \/ beginDisable
  BY <1>4 DEF setFlags, beginDisable, setOverlay
<1>5. CASE stopSession \/ clearCallback \/ uninstallFilter \/ unregister
  BY <1>5
  DEF stopSession, closeSession, clearSession, deactivate, clearCallback, uninstallFilter, unregister
<1>6. CASE \E next \in {"loaded", "unloaded"} : finishDisable(next)
  BY <1>6 DEF finishDisable
<1>7. CASE glCall \/ swap
  BY <1>7 DEF glCall, swap
<1>8. CASE enterCallback \/ checkSession \/ reportFrame \/ logLine
  BY <1>8 DEF enterCallback, checkSession, reportFrame, logLine
<1>9. CASE updateOverlay
  BY <1>9 DEF updateOverlay, countFrame, startUpdate
<1>10. CASE onConfigChanged \/ ignoreChange \/ save \/ publishChange
  BY <1>10 DEF onConfigChanged, ignoreChange, save, publishChange, publishOverlay
<1>11. CASE \E key \in {"showOverlay", "other"}, on \in BOOLEAN : handleConfigChanged(key, on)
  BY <1>11 DEF handleConfigChanged, setOverlay
<1>12. CASE UNCHANGED vars
  BY <1>12 DEF vars
<1> QED
  BY <1>1, <1>2, <1>3, <1>4, <1>5, <1>6, <1>7, <1>8, <1>9, <1>10, <1>11, <1>12
  DEF Next, Loader, Disable, Callback, Change

LEMMA InstallType ==
  ASSUME TypeOK, NEW lib \in Libraries, NEW hooking, NEW storing, NEW done,
         install(lib, hooking, storing, done)
  PROVE  EntryTypeOK'
<1> USE DEF TypeOK, EntryTypeOK
<1>1. CASE UNCHANGED entryVars
  BY <1>1
<1>2. CASE hook(lib)
  BY <1>2 DEF hook
<1>3. CASE store(lib)
  BY <1>3 DEF store
<1> QED
  BY <1>1, <1>2, <1>3 DEF install

LEMMA TypeStep == TypeOK /\ [Next]_vars => TypeOK'
<1> SUFFICES ASSUME TypeOK, [Next]_vars PROVE TypeOK'
  OBVIOUS
<1>0. Flags'
  BY FlagsStep
<1> USE <1>0, SessionAssumption, EntryAssumption, OverlayAssumption, ThreadsAssumption
    DEF TypeOK, SessionTypeOK, EntryTypeOK, OverlayTypeOK, Flags, fails
<1>1. CASE load
  BY <1>1 DEF load
<1>2. CASE beginEnable
  BY <1>2 DEF beginEnable
<1>3. CASE install("gl", "hookGl", "storeGl", "hookEgl")
  <2>1. EntryTypeOK' /\ pcL' \in {"storeGl", "hookEgl"}
    BY <1>3, InstallType DEF install
  <2> QED BY <1>3, <2>1 DEF install
<1>4. CASE install("egl", "hookEgl", "storeEgl", "setCallback")
  <2>1. EntryTypeOK' /\ pcL' \in {"storeEgl", "setCallback"}
    BY <1>4, InstallType DEF install
  <2> QED BY <1>4, <2>1 DEF install
<1>5. CASE installEglSensor
  BY <1>5 DEF installEglSensor
<1>6. CASE startSession
  <2>1. SessionTypeOK'
    <3>1. CASE UNCHANGED sessionVars
      BY <3>1
    <3>2. CASE start
      <4>1. CASE UNCHANGED <<device, gSession, mActive, created, open>>
        BY <4>1
      <4>2. CASE /\ created < MaxSessions /\ created' = created + 1
                 /\ open' = open \cup {created'} /\ gSession' = created' /\ mActive' = TRUE
                 /\ UNCHANGED device
        <5>1. created \in Nat /\ open \subseteq 1 .. created
          BY DEF Sessions
        <5>2. open' \subseteq 1 .. created'
          BY <4>2, <5>1
        <5>3. created' \in Sessions
          BY <4>2, <5>1 DEF Sessions
        <5> QED BY <4>2, <5>2, <5>3
      <4> QED BY <3>2, <4>1, <4>2 DEF start
    <3> QED BY <1>6, <3>1, <3>2 DEF startSession
  <2>2. failures' \subseteq Fatal \cup {"swapLost", "strayReport"}
    BY <1>6 DEF startSession
  <2> QED BY <1>6, <2>1, <2>2 DEF startSession
<1>7. CASE setFlags
  BY <1>7 DEF setFlags, setOverlay
<1>8. CASE registerMenu
  BY <1>8 DEF registerMenu
<1>9. CASE beginDisable
  BY <1>9 DEF beginDisable, setOverlay
<1>10. CASE stopSession
  <2>1. SessionTypeOK'
    BY <1>10 DEF stopSession, closeSession, clearSession, deactivate
  <2>2. pcL' \in {"clearCallback", "clearSession", "deactivate"}
    BY <1>10 DEF stopSession
  <2> QED BY <1>10, <2>1, <2>2 DEF stopSession
<1>11. CASE clearCallback
  BY <1>11 DEF clearCallback
<1>12. CASE uninstallFilter
  BY <1>12 DEF uninstallFilter, uninstall
<1>13. CASE unregister
  <2>1. late' \in BOOLEAN /\ shown' \in BOOLEAN
    OBVIOUS
  <2>2. UNCHANGED <<overlapped, hasConfig>> /\ registered' \in BOOLEAN
    BY <1>13 DEF unregister
  <2> QED BY <1>13, <2>1, <2>2 DEF unregister
<1>14. CASE \E next \in {"loaded", "unloaded"} : finishDisable(next)
  BY <1>14 DEF finishDisable
<1>15. CASE glCall
  BY <1>15 DEF glCall
<1>16. CASE swap
  BY <1>16 DEF swap
<1>17. CASE enterCallback
  <2>1. failures' \subseteq Fatal \cup {"swapLost", "strayReport"}
    BY <1>17 DEF enterCallback
  <2> QED BY <1>17, <2>1 DEF enterCallback
<1>18. CASE checkSession
  BY <1>18 DEF checkSession
<1>19. CASE reportFrame
  BY <1>19 DEF reportFrame
<1>20. CASE updateOverlay
  BY <1>20 DEF updateOverlay, countFrame, startUpdate, updateDue, maybeLog
<1>21. CASE logLine
  BY <1>21 DEF logLine
<1>22. CASE onConfigChanged
  BY <1>22 DEF onConfigChanged
<1>23. CASE ignoreChange
  BY <1>23 DEF ignoreChange
<1>24. CASE \E key \in {"showOverlay", "other"}, on \in BOOLEAN : handleConfigChanged(key, on)
  BY <1>24 DEF handleConfigChanged, setOverlay
<1>25. CASE save
  BY <1>25 DEF save
<1>26. CASE publishChange
  BY <1>26 DEF publishChange, publishOverlay
<1>27. CASE UNCHANGED vars
  BY <1>27 DEF vars
<1> QED
  BY <1>1, <1>2, <1>3, <1>4, <1>5, <1>6, <1>7, <1>8, <1>9, <1>10, <1>11, <1>12, <1>13, <1>14,
     <1>15, <1>16, <1>17, <1>18, <1>19, <1>20, <1>21, <1>22, <1>23, <1>24, <1>25, <1>26, <1>27
  DEF Next, Loader, Disable, Callback, Change

LEMMA InitType == Init => TypeOK
<1> SUFFICES ASSUME Init PROVE TypeOK
  OBVIOUS
<1>1. SessionTypeOK
  BY SessionAssumption DEF Init, SessionInit, SessionTypeOK, Sessions
<1>2. EntryTypeOK
  BY DEF Init, EntryInit, EntryTypeOK
<1>3. OverlayTypeOK
  <2>1. 0 \in 0 .. OverlayFrames - 1
    BY OverlayAssumption
  <2> QED BY <2>1 DEF Init, OverlayInit, OverlayTypeOK
<1>4. enables \in 0 .. MaxEnables
  BY ThreadsAssumption DEF Init
<1> QED BY <1>1, <1>2, <1>3, <1>4 DEF Init, TypeOK

(* Every variable of the three threads keeps its type and its bound. *)
THEOREM ThreadsTyped == Spec => []TypeOK
BY InitType, TypeStep, PTL DEF Spec

(* What the game, the callback and the menu leave alone. *)
LEMMA OthersKeep ==
  ASSUME [Next]_vars, ~Loader, ~Disable
  PROVE  UNCHANGED <<sessionVars, entryVars, loaderVars, mFrameCallback, registered>>
<1>1. CASE glCall \/ swap
  BY <1>1 DEF glCall, swap
<1>2. CASE Callback
  BY <1>2 DEF Callback, enterCallback, checkSession, reportFrame, updateOverlay, logLine
<1>3. CASE onConfigChanged \/ Change
  BY <1>3
  DEF onConfigChanged, Change, ignoreChange, handleConfigChanged, save, publishChange
<1>4. CASE UNCHANGED vars
  BY <1>4 DEF vars
<1> QED
  BY <1>1, <1>2, <1>3, <1>4 DEF Next

-----------------------------------------------------------------------------
(* The sessions of the platform.                                           *)

(* Without a session that is active none is held; one that is being stopped is *)
(* closed before it is forgotten.                                              *)
SessionHeld ==
  /\ ~mActive => gSession = NoSession
  /\ pcL \in {"clearSession", "deactivate"} => open = {}
  /\ pcL = "deactivate" => gSession = NoSession
  /\ SessionAccounted

LEMMA SessionStep ==
  ASSUME TypeOK, SessionHeld, [Next]_vars
  PROVE  SessionHeld'
<1> USE DEF SessionHeld, SessionAccounted
<1>1. CASE load \/ beginEnable \/ setFlags \/ registerMenu \/ beginDisable
  <2>1. UNCHANGED sessionVars /\ pcL' \in {"loaded", "hookGl", "register", "enabled", "stopSession"}
    BY <1>1 DEF load, beginEnable, setFlags, registerMenu, beginDisable
  <2>2. pcL \notin {"clearSession", "deactivate"}
    BY <1>1 DEF load, beginEnable, setFlags, registerMenu, beginDisable
  <2> QED BY <2>1, <2>2
<1>2. CASE \/ install("gl", "hookGl", "storeGl", "hookEgl")
           \/ install("egl", "hookEgl", "storeEgl", "setCallback")
           \/ installEglSensor
  BY <1>2 DEF install, installEglSensor
<1>3. CASE startSession
  <2>1. CASE UNCHANGED <<gSession, mActive, open>>
    BY <1>3, <2>1 DEF startSession
  <2>2. CASE start /\ ~UNCHANGED <<gSession, mActive, open>>
    <3>1. open = {}
      BY <2>2 DEF start, TypeOK, SessionTypeOK
    <3>2. open' = {gSession'} /\ mActive'
      BY <2>2, <3>1 DEF start
    <3> QED BY <1>3, <3>2 DEF startSession
  <2> QED BY <1>3, <2>1, <2>2 DEF startSession
<1>4. CASE stopSession
  <2>1. CASE pcL = "stopSession" /\ closeSession /\ pcL' = "clearSession"
    BY <2>1 DEF closeSession
  <2>2. CASE pcL = "stopSession" /\ ~mActive /\ UNCHANGED sessionVars /\ pcL' = "clearCallback"
    BY <2>2
  <2>3. CASE pcL = "clearSession" /\ clearSession /\ pcL' = "deactivate"
    BY <2>3 DEF clearSession
  <2>4. CASE pcL = "deactivate" /\ deactivate /\ pcL' = "clearCallback"
    BY <2>4 DEF deactivate
  <2> QED BY <1>4, <2>1, <2>2, <2>3, <2>4 DEF stopSession
<1>5. CASE clearCallback \/ uninstallFilter \/ unregister
           \/ \E next \in {"loaded", "unloaded"} : finishDisable(next)
  BY <1>5 DEF clearCallback, uninstallFilter, unregister, finishDisable
<1>6. CASE UNCHANGED <<sessionVars, loaderVars>>
  BY <1>6
<1> QED
  BY <1>1, <1>2, <1>3, <1>4, <1>5, <1>6, OthersKeep DEF Loader, Disable

(* However often the mod is enabled, and whatever start() meets: the platform has *)
(* no session but the one the mod holds, and none once it has stopped it.         *)
THEOREM SessionsAccounted == Spec => []SessionAccounted
<1>1. Init => SessionHeld
  BY DEF Init, SessionInit, SessionHeld, SessionAccounted
<1>2. SessionHeld => SessionAccounted
  BY DEF SessionHeld
<1> QED
  BY <1>1, <1>2, InitType, TypeStep, SessionStep, PTL DEF Spec

-----------------------------------------------------------------------------
(* Calls reach the driver.                                                 *)

Enabling == {"hookGl", "storeGl", "hookEgl", "storeEgl", "setCallback", "startSession",
             "setFlags", "register"}

(* The EGL hooks are installed once, so they are never installed over themselves; *)
(* the GL hooks are only when the mod has been enabled before.                     *)
SwapKept ==
  IF installed["egl"] THEN original["egl"] = Driver
  ELSE /\ original["egl"] = None
       /\ inDetour("egl") => pcL = "storeEgl" /\ got \in {Driver, None}

LoopsBack == original["gl"] = Detour \/ (pcL = "storeGl" /\ got = Detour)

(* A refused hook leaves its symbol be; and a game that renders while the mod is *)
(* being enabled has seen it enabled before.                                     *)
CallsKept ==
  /\ SwapKept
  /\ reaches("gl") \/ original["gl"] = Detour \/ (pcL = "storeGl" /\ got # "refused")
  /\ pcL = "storeEgl" => got # Detour
  /\ LoopsBack \/ (pcL = "hookGl" /\ inDetour("gl")) => enables > 1
  /\ inDetour("gl") \/ rendering \/ pcL \in Enabling \cup {"enabled"} => enables > 0
  /\ rendering /\ pcL \in Enabling => enables > 1
  /\ failures \cap {"recursion", "swapLost"} # {} => enables > 1

LEMMA InstallGlKeepsCalls ==
  ASSUME TypeOK, CallsKept, install("gl", "hookGl", "storeGl", "hookEgl")
  PROVE  CallsKept'
<1> USE EntryAssumption
    DEF CallsKept, SwapKept, LoopsBack, Enabling, TypeOK, EntryTypeOK, reaches, inDetour
<1>0. UNCHANGED <<rendering, failures, enables>> /\ pcL' \in Enabling
  BY DEF install
<1>1. CASE pcL = "hookGl" /\ pcL' = "hookEgl" /\ UNCHANGED entryVars
  BY <1>0, <1>1
<1>2. CASE pcL = "hookGl" /\ pcL' = "storeGl" /\ hook("gl")
  BY <1>0, <1>2 DEF hook
<1>3. CASE pcL = "storeGl" /\ pcL' = "hookEgl" /\ store("gl")
  BY <1>0, <1>3 DEF store
<1> QED
  BY <1>1, <1>2, <1>3 DEF install

LEMMA InstallEglKeepsCalls ==
  ASSUME TypeOK, CallsKept, install("egl", "hookEgl", "storeEgl", "setCallback")
  PROVE  CallsKept'
<1> USE EntryAssumption
    DEF CallsKept, SwapKept, LoopsBack, Enabling, TypeOK, EntryTypeOK, reaches, inDetour
<1>0. UNCHANGED <<rendering, failures, enables>> /\ pcL' \in Enabling
  BY DEF install
<1>1. CASE pcL = "hookEgl" /\ pcL' = "setCallback" /\ UNCHANGED entryVars
  BY <1>0, <1>1
<1>2. CASE pcL = "hookEgl" /\ pcL' = "storeEgl" /\ mustHook("egl") /\ hook("egl")
  BY <1>0, <1>2 DEF hook, mustHook
<1>3. CASE pcL = "storeEgl" /\ pcL' = "setCallback" /\ store("egl")
  BY <1>0, <1>3 DEF store
<1> QED
  BY <1>1, <1>2, <1>3 DEF install

LEMMA CallsStep ==
  ASSUME TypeOK, CallsKept, [Next]_vars
  PROVE  CallsKept'
<1> USE DEF CallsKept, SwapKept, LoopsBack, inDetour, reaches, Enabling, TypeOK
<1>1. CASE load \/ installEglSensor \/ setFlags \/ registerMenu \/ beginDisable
  <2>1. UNCHANGED <<entryVars, failures, enables>> /\ pcL \notin {"storeGl", "storeEgl"}
    BY <1>1 DEF load, installEglSensor, setFlags, registerMenu, beginDisable
  <2>2. /\ pcL' \in Enabling \cup {"enabled"} => pcL \in Enabling
        /\ pcL' \notin {"hookGl", "storeGl", "storeEgl"}
    BY <1>1 DEF load, installEglSensor, setFlags, registerMenu, beginDisable
  <2>3. rendering' = rendering \/ pcL' = "enabled"
    BY <1>1 DEF load, installEglSensor, setFlags, registerMenu, beginDisable
  <2> QED BY <2>1, <2>2, <2>3
<1>2. CASE beginEnable
  <2>1. enables' = enables + 1 /\ enables \in Nat /\ UNCHANGED <<entryVars, rendering, failures>>
    BY <1>2, ThreadsAssumption DEF beginEnable
  <2>2. pcL = "loaded" /\ pcL' = "hookGl"
    BY <1>2 DEF beginEnable
  <2> QED BY <2>1, <2>2
<1>3. CASE startSession
  <2>1. UNCHANGED <<entryVars, enables, rendering>> /\ pcL = "startSession" /\ pcL' = "setFlags"
    BY <1>3 DEF startSession
  <2>2. failures' = failures \/ failures' = {"nullEntry"}
    BY <1>3 DEF startSession, fails
  <2> QED BY <2>1, <2>2
<1>4. CASE Disable
  <2>1. /\ UNCHANGED <<symbol, original, got, rendering, failures, enables>>
        /\ installed'["egl"] = installed["egl"]
        /\ pcL \notin {"storeGl", "storeEgl"} /\ pcL' \notin Enabling \cup {"enabled"}
    BY <1>4, EntryAssumption
    DEF Disable, stopSession, clearCallback, uninstallFilter, uninstall, unregister, finishDisable,
        EntryTypeOK
  <2> QED BY <2>1
<1>5. CASE glCall \/ swap
  <2>1. UNCHANGED <<entryVars, loaderVars, rendering>> /\ rendering
    BY <1>5 DEF glCall, swap
  <2>2. \/ failures' = {}
        \/ failures' = {"recursion"} /\ ~reaches("gl")
        \/ failures' = {"swapLost"} /\ ~reaches("egl")
    BY <1>5 DEF glCall, swap, fails
  <2> QED BY <2>1, <2>2, EntryAssumption DEF EntryTypeOK
<1>6. CASE Callback
  <2>1. failures' \cap {"recursion", "swapLost"} \subseteq failures
    BY <1>6 DEF Callback, enterCallback, checkSession, reportFrame, updateOverlay, logLine, fails
  <2>2. UNCHANGED <<entryVars, loaderVars, rendering>>
    BY <1>6 DEF Callback, enterCallback, checkSession, reportFrame, updateOverlay, logLine
  <2> QED BY <2>1, <2>2
<1>7. CASE onConfigChanged \/ Change \/ UNCHANGED vars
  <2>1. UNCHANGED <<entryVars, loaderVars, rendering, failures>>
    BY <1>7 DEF onConfigChanged, Change, ignoreChange, handleConfigChanged, save, publishChange,
                vars
  <2> QED BY <2>1
<1> QED
  BY <1>1, <1>2, <1>3, <1>4, <1>5, <1>6, <1>7, InstallGlKeepsCalls, InstallEglKeepsCalls
  DEF Next, Loader

(* Whatever the preloader does with a symbol, and however often: the game's calls *)
(* reach the driver but for the moment of a first patch and for a GL filter that   *)
(* is installed over its own patch; and before the mod is enabled for the second   *)
(* time no call meets either.                                                      *)
THEOREM CallsGetThrough == Spec => []CallsReachDriver
<1>1. Init => CallsKept
  BY EntryAssumption
  DEF Init, EntryInit, CallsKept, SwapKept, LoopsBack, inDetour, Enabling, reaches
<1>2. TypeOK /\ CallsKept => CallsReachDriver
  BY EntryAssumption
  DEF TypeOK, EntryTypeOK, CallsKept, SwapKept, LoopsBack, CallsReachDriver, inDetour, reaches
<1> QED
  BY <1>1, <1>2, InitType, TypeStep, CallsStep, PTL DEF Spec

-----------------------------------------------------------------------------
(* What disable() takes away from a callback.                              *)

(* A callback no disable() has cut into has its pointer and its session. *)
CallbackWhole ==
  /\ inCallback /\ ~overlapped => ~stopping
  /\ pcR = "callback" /\ ~overlapped => mFrameCallback
  /\ pcR = "report" /\ ~overlapped => mActive /\ seen = gSession /\ gSession \in open

LEMMA CallbackStep ==
  ASSUME TypeOK, SessionHeld, CallbackWhole, [Next]_vars
  PROVE  CallbackWhole'
<1> USE DEF CallbackWhole, inCallback, stopping
<1>0. overlapped \in BOOLEAN /\ mActive \in BOOLEAN
  BY DEF TypeOK, SessionTypeOK
<1>1. CASE Loader
  <2>1. UNCHANGED <<pcR, overlapped, seen>> /\ (mFrameCallback => mFrameCallback')
    BY <1>1
    DEF Loader, load, beginEnable, install, installEglSensor, startSession, setFlags,
        registerMenu, beginDisable
  <2>2. ~(pcL' \in {"clearSession", "deactivate"})
    BY <1>1
    DEF Loader, load, beginEnable, install, installEglSensor, startSession, setFlags,
        registerMenu, beginDisable
  <2>3. mActive => UNCHANGED <<gSession, mActive, open>>
    BY <1>1
    DEF Loader, load, beginEnable, install, installEglSensor, startSession, start, setFlags,
        registerMenu, beginDisable
  <2> QED BY <2>1, <2>2, <2>3
<1>2. CASE stopSession
  <2>1. UNCHANGED <<pcR, seen, mFrameCallback>> /\ (overlapped => overlapped')
    BY <1>0, <1>2, Zenon DEF stopSession
  <2>2. pcR # "game" /\ mActive => overlapped'
    BY <1>0, <1>2, Zenon DEF stopSession
  <2>3. ~mActive => pcL' \notin {"clearSession", "deactivate"}
    BY <1>2 DEF stopSession, closeSession, clearSession
  <2> QED BY <1>0, <2>1, <2>2, <2>3
<1>3. CASE clearCallback
  <2>1. pcR' = pcR /\ (pcR # "game" => overlapped')
    BY <1>3, Zenon DEF clearCallback
  <2> QED BY <2>1
<1>4. CASE uninstallFilter \/ unregister \/ \E next \in {"loaded", "unloaded"} : finishDisable(next)
  <2>1. /\ UNCHANGED <<pcR, seen, mFrameCallback, overlapped, gSession, mActive, open>>
        /\ pcL' \notin {"clearSession", "deactivate"}
    BY <1>4 DEF uninstallFilter, unregister, finishDisable
  <2> QED BY <2>1
<1>5. CASE glCall \/ onConfigChanged \/ Change \/ UNCHANGED vars
  <2>1. UNCHANGED <<pcR, seen, overlapped, sessionVars, pcL, mFrameCallback>>
    BY <1>5 DEF glCall, onConfigChanged, Change, ignoreChange, handleConfigChanged, save,
                publishChange, vars
  <2> QED BY <2>1
<1>6. CASE swap
  <2>1. CASE pcR' = "game"
    BY <2>1
  <2>2. CASE pcR' = "callback"
    <3>1. mFrameCallback /\ UNCHANGED <<pcL, mFrameCallback>>
      BY <1>6, <2>2 DEF swap
    <3>2. pcL \in {"clearSession", "deactivate"} => overlapped'
      BY <1>6, <2>2, Zenon DEF swap
    <3> QED BY <2>2, <3>1, <3>2
  <2> QED BY <1>6, <2>1, <2>2 DEF swap
<1>7. CASE enterCallback
  BY <1>7 DEF enterCallback
<1>8. CASE checkSession
  BY <1>8 DEF checkSession, mayReport, SessionHeld, SessionAccounted
<1>9. CASE reportFrame
  BY <1>9 DEF reportFrame
<1>10. CASE updateOverlay
  <2>1. /\ pcR \in {"overlay", "lockOverlay"}
        /\ pcR' \in {"game", "logLine", "lockOverlay", "relock"} /\ pcL' = pcL
    BY <1>10 DEF updateOverlay, maybeLog
  <2>2. pcR' # "game" /\ overlapped => overlapped'
    BY <1>10, Zenon DEF updateOverlay
  <2> QED BY <2>1, <2>2
<1>11. CASE logLine
  BY <1>11 DEF logLine
<1> QED
  BY <1>1, <1>2, <1>3, <1>4, <1>5, <1>6, <1>7, <1>8, <1>9, <1>10, <1>11
  DEF Next, Disable, Callback

LEMMA StrayOnlyOverlapped ==
  ASSUME CallbackWhole, [Next]_vars
  PROVE  (failures' \ failures) \cap {"strayReport", "nullCallback"} # {} => overlapped
<1>1. CASE enterCallback
  BY <1>1 DEF enterCallback, fails, CallbackWhole
<1>2. CASE reportFrame
  BY <1>2 DEF reportFrame, reported, fails, CallbackWhole
<1>3. CASE glCall \/ swap
  BY <1>3 DEF glCall, swap, fails
<1>4. CASE startSession
  BY <1>4 DEF startSession, fails
<1>5. CASE Loader /\ ~startSession
  BY <1>5
  DEF Loader, load, beginEnable, install, installEglSensor, setFlags, registerMenu, beginDisable
<1>6. CASE Disable
  BY <1>6
  DEF Disable, stopSession, clearCallback, uninstallFilter, unregister, finishDisable
<1>7. CASE checkSession \/ updateOverlay \/ logLine \/ onConfigChanged \/ Change \/ UNCHANGED vars
  BY <1>7
  DEF checkSession, updateOverlay, logLine, onConfigChanged, Change, ignoreChange,
      handleConfigChanged, save, publishChange, vars
<1> QED
  BY <1>1, <1>2, <1>3, <1>4, <1>5, <1>6, <1>7 DEF Next, Callback

(* Only a callback that disable() takes the session or the pointer away from, in its *)
(* middle, reports to a session that is closed or calls a null pointer.              *)
THEOREM StraysOverlap == Spec => OnlyOverlapStrays
<1>1. Init => SessionHeld /\ CallbackWhole
  BY DEF Init, SessionInit, SessionHeld, SessionAccounted, CallbackWhole, inCallback
<1>2. TypeOK /\ SessionHeld /\ CallbackWhole /\ [Next]_vars => (SessionHeld /\ CallbackWhole)'
  BY SessionStep, CallbackStep
<1>3. CallbackWhole /\ [Next]_vars =>
        [(failures' \ failures) \cap {"strayReport", "nullCallback"} # {} => overlapped]_vars
  BY StrayOnlyOverlapped
<1> QED
  BY <1>1, <1>2, <1>3, InitType, TypeStep, PTL DEF Spec, OnlyOverlapStrays

-----------------------------------------------------------------------------
(* The readout.                                                            *)

(* A change that is not late found the menu registered, and it has the overlay do *)
(* what the option says; a readout that was shown is the one the option asks for.  *)
ReadoutKept ==
  /\ pcM # "idle" /\ ~late => registered
  /\ late => pcM # "idle"
  /\ registered => pcL \in {"enabled", "stopSession", "clearSession", "deactivate",
                            "clearCallback", "uninstall", "unregister"}
  /\ pcL = "enabled" /\ pcM \in {"saveOverlay", "publish"} /\ ~late =>
       mOverlayEnabled = showOverlay
  /\ shown => /\ pcL = "enabled" /\ mOverlayEnabled = showOverlay
              /\ pcM # "idle" => ~late
              /\ pcM \in {"idle", "changing", "save"} =>
                   screen = (IF showOverlay THEN "text" ELSE "empty")

LEMMA ReadoutStep ==
  ASSUME TypeOK, ReadoutKept, [Next]_vars
  PROVE  ReadoutKept'
<1> USE DEF ReadoutKept
<1>0. /\ late \in BOOLEAN /\ shown \in BOOLEAN
      /\ mOverlayEnabled \in BOOLEAN /\ showOverlay \in BOOLEAN
  BY DEF TypeOK, OverlayTypeOK
<1>1. CASE \/ load \/ beginEnable \/ installEglSensor \/ startSession \/ setFlags \/ registerMenu
           \/ install("gl", "hookGl", "storeGl", "hookEgl")
           \/ install("egl", "hookEgl", "storeEgl", "setCallback")
  <2>1. UNCHANGED <<pcM, late, shown>>
    BY <1>1 DEF load, beginEnable, installEglSensor, startSession, setFlags, registerMenu, install
  <2>2. pcL \in Enabling \cup {"unloaded", "loaded"}
    BY <1>1
    DEF load, beginEnable, installEglSensor, startSession, setFlags, registerMenu, install, Enabling
  <2>3. ~registered /\ ~shown
    BY <2>2 DEF Enabling
  <2>4. (registered' = registered /\ pcL' # "enabled") \/ pcL' = "enabled"
    BY <1>1 DEF load, beginEnable, installEglSensor, startSession, setFlags, registerMenu, install
  <2> QED BY <1>0, <2>1, <2>3, <2>4
<1>2. CASE beginDisable
  <2>1. shown' = FALSE /\ pcL' = "stopSession" /\ UNCHANGED <<pcM, registered, late>>
    BY <1>2 DEF beginDisable
  <2> QED BY <2>1
<1>3. CASE stopSession \/ clearCallback \/ uninstallFilter
  BY <1>3 DEF stopSession, clearCallback, uninstallFilter
<1>4. CASE unregister
  BY <1>4, Zenon DEF unregister
<1>5. CASE \E next \in {"loaded", "unloaded"} : finishDisable(next)
  BY <1>5 DEF finishDisable
<1>6. CASE glCall \/ swap \/ Callback \/ UNCHANGED vars
  <2>1. UNCHANGED <<pcL, pcM, registered, mOverlayEnabled, showOverlay, screen, late, shown>>
    BY <1>6
    DEF glCall, swap, Callback, enterCallback, checkSession, reportFrame, updateOverlay, countFrame,
        startUpdate, logLine, vars
  <2> QED BY <2>1
<1>7. CASE onConfigChanged
  BY <1>7 DEF onConfigChanged
<1>8. CASE ignoreChange \/ save
  BY <1>0, <1>8 DEF ignoreChange, save
<1>9. CASE publishChange
  BY <1>0, <1>9 DEF publishChange, publishOverlay
<1>10. CASE \E key \in {"showOverlay", "other"}, on \in BOOLEAN : handleConfigChanged(key, on)
  BY <1>0, <1>10 DEF handleConfigChanged, setOverlay
<1> QED
  BY <1>1, <1>2, <1>3, <1>4, <1>5, <1>6, <1>7, <1>8, <1>9, <1>10 DEF Next, Loader, Disable, Change

(* Over any number of times the mod is enabled, whatever its saves and snapshots were: *)
(* one change of the overlay in an enabled mod, and the screen is what the option says. *)
THEOREM ChangesShown == Spec => []ChangeShown
<1>1. Init => ReadoutKept
  BY DEF Init, ReadoutKept
<1>2. ReadoutKept => ChangeShown
  BY DEF ReadoutKept, ChangeShown
<1> QED
  BY <1>1, <1>2, InitType, TypeStep, ReadoutStep, PTL DEF Spec

-----------------------------------------------------------------------------
(* The locks.                                                              *)

(* A lock is held in the save of a change, and by the update of the readout that *)
(* asks for it again.                                                            *)
LocksHeld ==
  /\ mConfigMutex = "menu" <=> pcM \in {"save", "saveOverlay"}
  /\ mOverlayMutex = "render" <=> pcR = "relock"

LEMMA LocksStep ==
  ASSUME TypeOK, LocksHeld, [Next]_vars
  PROVE  LocksHeld'
<1> USE DEF LocksHeld
<1>1. CASE Loader \/ Disable \/ glCall \/ swap \/ onConfigChanged \/ UNCHANGED vars
  <2>1. UNCHANGED <<mConfigMutex, mOverlayMutex>>
    BY <1>1
    DEF Loader, load, beginEnable, install, installEglSensor, startSession, setFlags, registerMenu,
        beginDisable, setOverlay, Disable, stopSession, clearCallback, uninstallFilter, unregister,
        finishDisable, glCall, swap, onConfigChanged, vars
  <2>2. pcM' \in {"save", "saveOverlay"} <=> pcM \in {"save", "saveOverlay"}
    BY <1>1
    DEF Loader, load, beginEnable, install, installEglSensor, startSession, setFlags, registerMenu,
        beginDisable, Disable, stopSession, clearCallback, uninstallFilter, unregister,
        finishDisable, glCall, swap, onConfigChanged, vars
  <2>3. pcR' = "relock" <=> pcR = "relock"
    BY <1>1
    DEF Loader, load, beginEnable, install, installEglSensor, startSession, setFlags, registerMenu,
        beginDisable, Disable, stopSession, clearCallback, uninstallFilter, unregister,
        finishDisable, glCall, swap, onConfigChanged, vars
  <2> QED BY <2>1, <2>2, <2>3
<1>2. CASE Callback
  <2>1. UNCHANGED <<mConfigMutex, pcM>>
    BY <1>2
    DEF Callback, enterCallback, checkSession, reportFrame, updateOverlay, logLine
  <2>2. CASE enterCallback \/ checkSession \/ reportFrame \/ logLine
    BY <2>1, <2>2
    DEF enterCallback, checkSession, reportFrame, logLine
  <2>3. CASE updateOverlay
    BY <2>1, <2>3
    DEF updateOverlay, maybeLog, countFrame, startUpdate
  <2> QED BY <1>2, <2>2, <2>3 DEF Callback
<1>3. CASE Change
  <2>1. UNCHANGED <<pcR, mOverlayMutex>>
    BY <1>3
    DEF Change, ignoreChange, handleConfigChanged, save, publishChange, publishOverlay, setOverlay
  <2>2. mConfigMutex' = "menu" <=> pcM' \in {"save", "saveOverlay"}
    BY <1>3
    DEF Change, ignoreChange, handleConfigChanged, save, publishChange
  <2> QED BY <2>1, <2>2
<1> QED BY <1>1, <1>2, <1>3 DEF Next

(* However often the mod is enabled, no thread waits for one that waits itself, but *)
(* for the render thread's wait at the lock it holds.                                *)
THEOREM WaitsAreShort == Spec => []WaitsEnd
<1>1. Init => LocksHeld
  BY DEF Init, OverlayInit, LocksHeld
<1>2. TypeOK /\ LocksHeld => WaitsEnd
  BY DEF TypeOK, OverlayTypeOK, LocksHeld, WaitsEnd, waitsFor
<1> QED
  BY <1>1, <1>2, InitType, TypeStep, LocksStep, PTL DEF Spec
=============================================================================
