------------------------------- MODULE AdpfSession -------------------------------
(***************************************************************************)
(* AdpfSession.cpp: the hint session of the platform, opened by enable()   *)
(* and closed by disable(), to which the frame callback reports.  Nothing  *)
(* of it is locked.  updateTarget() is called by no one and left out; the   *)
(* durations are only handed on.                                           *)
(***************************************************************************)
EXTENDS Integers, FiniteSets

CONSTANTS
  Devices,      \* what libandroid.so is on a device: "absent", "old", without
                \* the entry points of the hint API, or "full"
  MaxSessions   \* bound on the sessions that are created

ASSUME SessionAssumption ==
  /\ Devices \subseteq {"absent", "old", "full"}
  /\ MaxSessions \in Nat

NoSession == 0
Sessions  == 1 .. MaxSessions

VARIABLES
  device,       \* the device the launch is on
  gLibrary,     \* gLibrary is not null
  gSession,     \* the session, or none
  mActive,
  created,      \* the platform: the sessions created so far,
  open          \* and the ones among them that are not closed

library     == <<device, gLibrary>>
sessionVars == <<library, gSession, mActive, created, open>>

(* loadLibrary: once the library is there it counts as loaded; the first time *)
(* its entry points have to be there as well.                                 *)
loaded == gLibrary \/ device = "full"
loadLibrary == gLibrary' = (gLibrary \/ device # "absent")

(* The manager is asked for through an entry point that may be missing. *)
callsMissingEntry == ~mActive /\ loaded /\ device # "full"

(* start, with none active yet: the library, the manager or the platform says *)
(* no, or there is a new one.                                                  *)
start ==
  /\ ~mActive
  /\ loadLibrary
  /\ \/ UNCHANGED <<device, gSession, mActive, created, open>>
     \/ /\ loaded /\ device = "full" /\ created < MaxSessions
        /\ created' = created + 1
        /\ open' = open \cup {created'}
        /\ gSession' = created' /\ mActive' = TRUE
        /\ UNCHANGED device

(* Slip: the session is dropped and not closed. *)
closeSessionForgets ==
  /\ mActive
  /\ UNCHANGED sessionVars

(* stop: the session is closed, then forgotten, then no longer active. *)
closeSession ==
  /\ mActive
  /\ open' = open \ {gSession}
  /\ UNCHANGED <<library, gSession, mActive, created>>

clearSession ==
  /\ mActive
  /\ gSession' = NoSession
  /\ UNCHANGED <<library, mActive, created, open>>

deactivate ==
  /\ mActive
  /\ mActive' = FALSE
  /\ UNCHANGED <<library, gSession, created, open>>

(* reportFrame: its checks, and the session its call may then use: the one the *)
(* check saw or, since it is read once more, the one there is by then.         *)
mayReport == mActive /\ gSession # NoSession
reported(seen) == {seen, gSession}

SessionInit ==
  /\ device \in Devices /\ gLibrary = FALSE
  /\ gSession = NoSession /\ mActive = FALSE /\ created = 0 /\ open = {}

SessionTypeOK ==
  /\ device \in Devices /\ gLibrary \in BOOLEAN /\ mActive \in BOOLEAN
  /\ gSession \in {NoSession} \cup Sessions
  /\ created \in {0} \cup Sessions /\ open \subseteq 1 .. created
=============================================================================
