---------------------------- MODULE AvatarTicker ----------------------------
(***************************************************************************)
(* The companion's states (avatar_core.cpp): the daemon thread requests,   *)
(* the thread that draws takes the latest request at its next tick, and    *)
(* two latches give a short state its time on the screen.                  *)
(***************************************************************************)
VARIABLES
  requested,  \* the latest request ...
  dirty,      \* ... which no tick has taken yet
  machine,    \* AvatarStateMachine::requested_
  latched     \* the latches whose time has not run out

avatarVars == <<requested, dirty, machine, latched>>

AvatarState == {"Idle", "Summoned", "Thinking", "Writing", "Error"}
Latches == {"Summoned", "Writing"}

AvatarTypeOK ==
  /\ requested \in AvatarState /\ machine \in AvatarState
  /\ dirty \in BOOLEAN /\ latched \in SUBSET Latches

AvatarInit == requested = "Idle" /\ dirty = FALSE /\ machine = "Idle" /\ latched = {}

(* The state is stored before the flag, so a tick between the two takes it  *)
(* early, and again.                                                        *)
Request(state) ==
  /\ requested' = state /\ dirty' = TRUE
  /\ UNCHANGED <<machine, latched>>

(* Defective: while she writes, nothing else is taken from the daemon.      *)
TickWritesOn ==
  /\ dirty /\ dirty' = FALSE
  /\ IF "Writing" \in latched THEN UNCHANGED <<machine, latched>>
     ELSE machine' = requested /\ latched' = latched \cup ({requested} \cap Latches)
  /\ UNCHANGED requested

(* Every 33 ms; without a request a tick only draws.                        *)
Tick ==
  /\ dirty /\ dirty' = FALSE
  /\ machine' = requested
  /\ latched' = latched \cup ({requested} \cap Latches)
  /\ UNCHANGED requested

(* 0.45 s after Summoned, 1.4 s after Writing.                              *)
Expire ==
  /\ \E latch \in latched : latched' = latched \ {latch}
  /\ UNCHANGED <<requested, dirty, machine>>

(* effective(): what a tick draws.  Other apps' sound, which turns Idle     *)
(* into Ambient, is left out.                                               *)
Effective ==
  IF "Writing" \in latched /\ machine \in {"Idle", "Writing"} THEN "Writing"
  ELSE IF machine = "Summoned" /\ "Summoned" \notin latched THEN "Listening"
  ELSE machine
=============================================================================
