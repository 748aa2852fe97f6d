-------------------------------- MODULE ModThreads --------------------------------
(***************************************************************************)
(* Three threads in the mod (FpsOptoPro.cpp): the loader, which enables    *)
(* and disables it, the game's render thread, which calls GL and swaps,    *)
(* with the mod's callback inside the swap, and the menu, whose changes    *)
(* are saved and applied.  They share the hooks (EntryPoints), the hint     *)
(* session (AdpfSession), the readout (Overlay), the callback pointer and   *)
(* the configuration under mConfigMutex.  The scheduler, the auto mode, the *)
(* boot marker and the counters, which the callback and enable() reach too, *)
(* have modules of their own and are not repeated here.                     *)
(***************************************************************************)
EXTENDS AdpfSession, EntryPoints, Overlay

CONSTANT
  MaxEnables      \* bound on the times the loader enables the mod

ASSUME ThreadsAssumption == MaxEnables \in Nat

VARIABLES
  pcL, pcR, pcM,    \* the loader, the render thread, the menu
  allowAdpfSession, \* options of the configuration
  showOverlay,
  stored,           \* showOverlay in the file
  config,           \* enable()'s snapshot of showOverlay, while it is used
  hasConfig,        \* mConfigFile is not empty
  mConfigMutex,     \* the thread that holds it
  mFrameCallback,   \* is the callback set?
  registered,       \* the menu may call; it calls from any moment it was
  rendering,        \* the game renders
  seen,             \* the session reportFrame has checked
  enables,
  failures,         \* what went wrong in the last call that could
  overlapped,       \* history: disable() took something away in the middle of this callback
  late,             \* history: the change under way was so when the menu was unregistered
  shown             \* history: a change of the overlay, not late, was made since enable()

loaderVars == <<pcL, config, enables>>
options    == <<allowAdpfSession, showOverlay, stored>>
menuVars   == <<pcM, options, hasConfig, mConfigMutex, registered>>
renderVars == <<pcR, rendering, seen>>
history    == <<failures, overlapped, late, shown>>
vars == <<sessionVars, entryVars, overlayVars, loaderVars, menuVars, renderVars,
          mFrameCallback, history>>

(* A null function called, or a detour calling itself, ends the process. *)
Fatal == {"nullEntry", "nullCallback", "recursion"}
crashed == failures \cap Fatal # {}

fails(kinds) == failures' = kinds

inCallback == pcR # "game"
stopping   == pcL \in {"clearSession", "deactivate"}

-----------------------------------------------------------------------------
(* A step of a thread, while the process lives. *)
step(pc, from, to) == ~crashed /\ pc = from /\ pc' = to

at(from, to)     == step(pcL, from, to) /\ UNCHANGED <<config, enables>>
go(from, to)     == step(pcR, from, to)
change(from, to) == step(pcM, from, to)

(* The loader: enable(), a stage at a time.                                *)
load ==
  /\ at("unloaded", "loaded")
  /\ enables < MaxEnables
  /\ mConfigMutex = Nobody
  /\ hasConfig' = TRUE
  /\ showOverlay' = stored
  /\ UNCHANGED <<sessionVars, entryVars, overlayVars, pcM, allowAdpfSession, stored,
                 mConfigMutex, registered, renderVars, mFrameCallback, history>>

beginEnable ==
  /\ step(pcL, "loaded", "hookGl")
  /\ enables < MaxEnables /\ enables' = enables + 1
  /\ mConfigMutex = Nobody
  /\ config' = showOverlay
  /\ UNCHANGED <<sessionVars, entryVars, overlayVars, menuVars, renderVars, mFrameCallback,
                 history>>

install(lib, hooking, storing, done) ==
  /\ \/ at(hooking, done) /\ ~mustHook(lib) /\ UNCHANGED entryVars
     \/ at(hooking, storing) /\ mustHook(lib) /\ hook(lib)
     \/ at(storing, done) /\ store(lib)
  /\ UNCHANGED <<sessionVars, overlayVars, menuVars, renderVars, mFrameCallback, history>>

installEglSensor ==
  /\ at("setCallback", "startSession")
  /\ mFrameCallback' = (mFrameCallback \/ installed["egl"])
  /\ UNCHANGED <<sessionVars, entryVars, overlayVars, menuVars, renderVars, history>>

startSession ==
  /\ at("startSession", "setFlags")
  /\ IF ~allowAdpfSession THEN UNCHANGED <<sessionVars, failures>>
     ELSE IF callsMissingEntry THEN fails({"nullEntry"}) /\ UNCHANGED sessionVars
     ELSE start /\ UNCHANGED failures
  /\ UNCHANGED <<entryVars, overlayVars, menuVars, renderVars, mFrameCallback, overlapped,
                 late, shown>>

(* The flags under mConfigMutex; the auto mode and the logging follow. *)
setFlags ==
  /\ step(pcL, "setFlags", "register")
  /\ mConfigMutex = Nobody
  /\ setOverlay(config)
  /\ config' = FALSE
  /\ UNCHANGED <<sessionVars, entryVars, enables, menuVars, renderVars, mFrameCallback,
                 history>>

(* The game starts to render once the mod is enabled for the first time. *)
registerMenu ==
  /\ at("register", "enabled")
  /\ registered' = TRUE /\ rendering' = TRUE
  /\ UNCHANGED <<sessionVars, entryVars, overlayVars, pcM, options, hasConfig, mConfigMutex,
                 pcR, seen, mFrameCallback, history>>

-----------------------------------------------------------------------------
(* disable(), and unload(), which disables once more and drops the          *)
(* configuration.                                                           *)
beginDisable ==
  /\ at("enabled", "stopSession") \/ at("loaded", "stopSession")
  /\ setOverlay(FALSE)
  /\ shown' = FALSE
  /\ UNCHANGED <<sessionVars, entryVars, menuVars, renderVars, mFrameCallback, failures,
                 overlapped, late>>

stopSession ==
  /\ \/ at("stopSession", "clearCallback") /\ ~mActive /\ UNCHANGED sessionVars
     \/ at("stopSession", "clearSession") /\ closeSession
     \/ at("clearSession", "deactivate") /\ clearSession
     \/ at("deactivate", "clearCallback") /\ deactivate
  /\ overlapped' = (overlapped \/ (inCallback /\ mActive))
  /\ UNCHANGED <<entryVars, overlayVars, menuVars, renderVars, mFrameCallback, failures,
                 late, shown>>

clearCallback ==
  /\ at("clearCallback", "uninstall")
  /\ mFrameCallback' = FALSE
  /\ overlapped' = (overlapped \/ inCallback)
  /\ UNCHANGED <<sessionVars, entryVars, overlayVars, menuVars, renderVars, failures, late,
                 shown>>

uninstallFilter ==
  /\ at("uninstall", "unregister")
  /\ uninstall
  /\ UNCHANGED <<sessionVars, overlayVars, menuVars, renderVars, mFrameCallback, history>>

(* What the preloader does with the readout of a module that goes is its own. *)
unregister ==
  /\ at("unregister", "logOff")
  /\ registered' = FALSE
  /\ late' = (pcM # "idle")
  /\ UNCHANGED <<sessionVars, entryVars, overlayVars, pcM, options, hasConfig, mConfigMutex,
                 renderVars, mFrameCallback, failures, overlapped, shown>>

(* Under mConfigMutex; unload() goes on to drop the configuration. *)
finishDisable(next) ==
  /\ at("logOff", next)
  /\ mConfigMutex = Nobody
  /\ hasConfig' = (hasConfig /\ next = "loaded")
  /\ UNCHANGED <<sessionVars, entryVars, overlayVars, pcM, options, mConfigMutex, registered,
                 renderVars, mFrameCallback, history>>

-----------------------------------------------------------------------------
(* The render thread.                                                      *)
glCall ==
  /\ go("game", "game")
  /\ rendering /\ ~reaches("gl")
  /\ fails({"recursion"})
  /\ UNCHANGED <<sessionVars, entryVars, overlayVars, loaderVars, menuVars, rendering, seen,
                 mFrameCallback, overlapped, late, shown>>

(* Slip: the callback is not tested. *)
swapUntested ==
  /\ rendering
  /\ IF inDetour("egl") THEN go("game", "callback") ELSE go("game", "game")
  /\ fails(IF reaches("egl") THEN {} ELSE {"swapLost"})
  /\ overlapped' = (inCallback' /\ stopping)
  /\ UNCHANGED <<sessionVars, entryVars, overlayVars, loaderVars, menuVars, rendering, seen,
                 mFrameCallback, late, shown>>

(* doSwap: the swap, observed if it comes through the detour, and endFrame's  *)
(* test of the callback.  The first swap, which has no interval, is left out.  *)
swap ==
  /\ rendering
  /\ IF inDetour("egl") /\ mFrameCallback THEN go("game", "callback") ELSE go("game", "game")
  /\ fails(IF reaches("egl") THEN {} ELSE {"swapLost"})
  /\ overlapped' = (inCallback' /\ stopping)
  /\ UNCHANGED <<sessionVars, entryVars, overlayVars, loaderVars, menuVars, rendering, seen,
                 mFrameCallback, late, shown>>

(* The pointer is read for the test and may be read again for the call. *)
enterCallback ==
  /\ go("callback", "session")
  /\ \/ UNCHANGED failures
     \/ ~mFrameCallback /\ fails({"nullCallback"})
  /\ UNCHANGED <<sessionVars, entryVars, overlayVars, loaderVars, menuVars, rendering,
                 seen, mFrameCallback, overlapped, late, shown>>

checkSession ==
  /\ IF mayReport THEN go("session", "report") /\ seen' = gSession
     ELSE go("session", "overlay") /\ UNCHANGED seen
  /\ UNCHANGED <<sessionVars, entryVars, overlayVars, loaderVars, menuVars, rendering,
                 mFrameCallback, history>>

reportFrame ==
  /\ go("report", "overlay")
  /\ \E session \in reported(seen) :
       fails(IF session \in open THEN {} ELSE {"strayReport"})
  /\ seen' = NoSession
  /\ UNCHANGED <<sessionVars, entryVars, overlayVars, loaderVars, menuVars, rendering,
                 mFrameCallback, overlapped, late, shown>>

(* maybeLog ends the callback; a line that is due takes the configuration      *)
(* under its mutex first.                                                      *)
maybeLog == {"game", "logLine"}

(* updateOverlay, up to publishOverlay, which locks the mutex the thread       *)
(* already holds: it waits there for itself, and no step leaves "relock".      *)
updateOverlay ==
  /\ \/ \E next \in maybeLog : go("overlay", next) /\ ~mOverlayEnabled /\ UNCHANGED overlayVars
     \/ go("overlay", "lockOverlay") /\ mOverlayEnabled /\ UNCHANGED overlayVars
     \/ \E next \in maybeLog : go("lockOverlay", next) /\ countFrame
     \/ go("lockOverlay", "relock") /\ startUpdate("render")
  /\ overlapped' = (overlapped /\ inCallback')
  /\ UNCHANGED <<sessionVars, entryVars, loaderVars, menuVars, rendering, seen, mFrameCallback,
                 failures, late, shown>>

logLine ==
  /\ go("logLine", "game")
  /\ mConfigMutex = Nobody
  /\ overlapped' = FALSE
  /\ UNCHANGED <<sessionVars, entryVars, overlayVars, loaderVars, menuVars, rendering, seen,
                 mFrameCallback, failures, late, shown>>

-----------------------------------------------------------------------------
(* The menu.                                                               *)

(* onConfigChanged: the menu calls; it may have to wait for mConfigMutex. *)
onConfigChanged ==
  /\ change("idle", "changing")
  /\ registered
  /\ UNCHANGED <<sessionVars, entryVars, overlayVars, loaderVars, options, hasConfig,
                 mConfigMutex, registered, renderVars, mFrameCallback, history>>

(* handleConfigChanged: nothing for a configuration that is gone, ... *)
ignoreChange ==
  /\ change("changing", "idle")
  /\ mConfigMutex = Nobody /\ ~hasConfig
  /\ late' = FALSE
  /\ UNCHANGED <<sessionVars, entryVars, overlayVars, loaderVars, options, hasConfig,
                 mConfigMutex, registered, renderVars, mFrameCallback, failures, overlapped, shown>>

(* ... or the change, under mConfigMutex: to the overlay, or to another option, *)
(* which is saved alike.                                                        *)
handleConfigChanged(key, on) ==
  /\ change("changing", IF key = "showOverlay" THEN "saveOverlay" ELSE "save")
  /\ mConfigMutex = Nobody /\ hasConfig
  /\ IF key = "showOverlay" THEN showOverlay' = on /\ setOverlay(on)
     ELSE UNCHANGED <<showOverlay, overlayVars>>
  /\ mConfigMutex' = "menu"
  /\ UNCHANGED <<sessionVars, entryVars, loaderVars, allowAdpfSession, stored, hasConfig,
                 registered, renderVars, mFrameCallback, history>>

(* Slip: a change that goes on to the readout does not give up the lock. *)
saveLate ==
  /\ change("save", "idle") \/ change("saveOverlay", "publish")
  /\ mConfigMutex' = IF pcM = "save" THEN Nobody ELSE mConfigMutex
  /\ stored' \in {stored, showOverlay}
  /\ late' = (late /\ pcM = "saveOverlay")
  /\ UNCHANGED <<sessionVars, entryVars, overlayVars, loaderVars, allowAdpfSession, showOverlay,
                 hasConfig, registered, renderVars, mFrameCallback, failures, overlapped, shown>>

(* The mutex is held over the save to disk, whose failure goes unnoticed; ... *)
save ==
  /\ change("save", "idle") \/ change("saveOverlay", "publish")
  /\ mConfigMutex' = Nobody
  /\ stored' \in {stored, showOverlay}
  /\ late' = (late /\ pcM = "saveOverlay")
  /\ UNCHANGED <<sessionVars, entryVars, overlayVars, loaderVars, allowAdpfSession, showOverlay,
                 hasConfig, registered, renderVars, mFrameCallback, failures, overlapped, shown>>

(* ... and then the readout is shown or taken down.                           *)
publishChange ==
  /\ change("publish", "idle")
  /\ publishOverlay
  /\ late' = FALSE /\ shown' = (shown \/ (~late /\ pcL = "enabled"))
  /\ UNCHANGED <<sessionVars, entryVars, loaderVars, options, hasConfig, mConfigMutex, registered,
                 renderVars, mFrameCallback, failures, overlapped>>

-----------------------------------------------------------------------------
Init ==
  /\ SessionInit /\ EntryInit /\ OverlayInit
  /\ pcL = "unloaded" /\ pcR = "game" /\ pcM = "idle"
  /\ allowAdpfSession \in BOOLEAN /\ showOverlay \in BOOLEAN /\ stored = showOverlay
  /\ config = FALSE
  /\ hasConfig = FALSE /\ mConfigMutex = Nobody
  /\ mFrameCallback = FALSE /\ registered = FALSE
  /\ rendering = FALSE /\ seen = NoSession
  /\ enables = 0
  /\ failures = {} /\ overlapped = FALSE /\ late = FALSE /\ shown = FALSE

Loader ==
  \/ load \/ beginEnable
  \/ install("gl", "hookGl", "storeGl", "hookEgl")
  \/ install("egl", "hookEgl", "storeEgl", "setCallback")
  \/ installEglSensor \/ startSession \/ setFlags \/ registerMenu
  \/ beginDisable

Disable ==
  \/ stopSession \/ clearCallback \/ uninstallFilter \/ unregister
  \/ \E next \in {"loaded", "unloaded"} : finishDisable(next)

Callback ==
  enterCallback \/ checkSession \/ reportFrame \/ updateOverlay \/ logLine

Change ==
  \/ ignoreChange
  \/ \E key \in {"showOverlay", "other"}, on \in BOOLEAN : handleConfigChanged(key, on)
  \/ save
  \/ publishChange

Next == Loader \/ Disable \/ glCall \/ swap \/ Callback \/ onConfigChanged \/ Change

(* A thread in a handler of the mod goes on with it; the render thread gets a *)
(* mutex that is free again and again.                                        *)
Fairness ==
  /\ WF_vars(Disable) /\ SF_vars(Callback) /\ WF_vars(Change)

Spec == Init /\ [][Next]_vars /\ Fairness

-----------------------------------------------------------------------------
disabling ==
  pcL \in {"stopSession", "clearSession", "deactivate", "clearCallback", "uninstall",
           "unregister", "logOff"}

TypeOK ==
  /\ SessionTypeOK /\ EntryTypeOK /\ OverlayTypeOK
  /\ pcL \in {"unloaded", "loaded", "hookGl", "storeGl", "hookEgl", "storeEgl", "setCallback",
              "startSession", "setFlags", "register", "enabled", "stopSession",
              "clearSession", "deactivate", "clearCallback", "uninstall", "unregister", "logOff"}
  /\ pcR \in {"game", "callback", "session", "report", "overlay", "lockOverlay", "relock",
              "logLine"}
  /\ pcM \in {"idle", "changing", "save", "saveOverlay", "publish"}
  /\ mConfigMutex \in {Nobody, "menu"}
  /\ \A flag \in {allowAdpfSession, showOverlay, stored, config, hasConfig, mFrameCallback,
                  registered, rendering, overlapped, late, shown} : flag \in BOOLEAN
  /\ seen \in {NoSession} \cup Sessions /\ enables \in 0 .. MaxEnables
  /\ failures \subseteq Fatal \cup {"swapLost", "strayReport"}

(* "The swap is always forwarded unchanged" (README.md), and so is a GL call that   *)
(* is not dropped: a detour the game can reach leads to the driver, but for the      *)
(* moment in which a symbol is patched for the first time, and for the GL filter     *)
(* once it is installed over its own patch, with a trampoline that leads back to it. *)
(* The game's calls meet neither before the mod is enabled again.                    *)
CallsReachDriver ==
  /\ \A lib \in Libraries :
       \/ reaches(lib)
       \/ pcL = (IF lib = "gl" THEN "storeGl" ELSE "storeEgl")
       \/ lib = "gl" /\ enables > 1 /\ original[lib] = Detour
  /\ failures \cap {"recursion", "swapLost"} # {} => enables > 1

(* No session is left behind: the platform has at most the one the mod holds, and   *)
(* none once the mod has stopped it.                                                *)
SessionAccounted ==
  /\ open \subseteq {gSession}
  /\ mActive /\ pcL \notin {"clearSession", "deactivate"} => gSession \in open

(* "The callback must stay valid until it is replaced or cleared" (EglSensor.h), and *)
(* a report goes to a session that is open: except where disable() takes them away  *)
(* in the middle of that very callback.                                             *)
OnlyOverlapStrays ==
  [][(failures' \ failures) \cap {"strayReport", "nullCallback"} # {} => overlapped]_vars

(* "Take the overlay down if it was switched off so a stale readout does not stay on *)
(* screen": whatever enable() makes of a save that failed and of a change that was   *)
(* late, once the menu has made a change of the overlay while the mod is enabled,    *)
(* the option, the flag and the screen agree and stay so.                            *)
ChangeShown ==
  shown /\ pcL = "enabled" /\ pcM = "idle" =>
    mOverlayEnabled = showOverlay /\ screen = (IF showOverlay THEN "text" ELSE "empty")

(* disable() ends, whatever the menu and the callback are stuck in; and the callback *)
(* "must not throw or block" (EglSensor.h): apart from the second lock, nothing      *)
(* keeps the render thread in it.                                                   *)
HandlersReturn ==
  /\ disabling ~> ~disabling \/ crashed
  /\ inCallback ~> ~inCallback \/ pcR = "relock" \/ crashed

(* The same, as it is written: the callback never waits for a lock it holds.        *)
CallbackNeverWaitsForItself == ~(pcR = "relock" /\ mOverlayMutex = "render")

(* t is at a lock that u holds; where the loader takes the first one of load() and   *)
(* enable(), it may also not have come yet.                                          *)
waitsFor(t, u) ==
  \/ /\ mConfigMutex = u
     /\ \/ t = "loader" /\ pcL \in {"unloaded", "loaded", "setFlags", "logOff"}
        \/ t = "render" /\ pcR = "logLine"
        \/ t = "menu" /\ pcM = "changing"
  \/ /\ mOverlayMutex = u
     /\ \/ t = "render" /\ pcR \in {"lockOverlay", "relock"}
        \/ t = "menu" /\ pcM = "publish"

(* Two mutexes, three threads: no one who holds a lock waits for another thread, so  *)
(* no wait leads in a circle but that of the render thread for itself; disable() and *)
(* the callback's log line wait for the menu's save at the most.                     *)
WaitsEnd ==
  \A t, u \in {"loader", "render", "menu"} :
    waitsFor(t, u) =>
      /\ \A v \in {"loader", "render", "menu"} :
           waitsFor(u, v) => u = "render" /\ v = u /\ pcR = "relock"
      /\ t = "loader" \/ (t = "render" /\ pcR = "logLine") =>
           u = "menu" /\ pcM \in {"save", "saveOverlay"}
=============================================================================
