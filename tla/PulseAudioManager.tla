------------------------- MODULE PulseAudioManager -------------------------
(***************************************************************************)
(* PulseAudioManager (pulseaudio.cpp): mute_other_apps() starts a timer    *)
(* thread that mutes the other apps once the start tone is over;           *)
(* unmute_other_apps() calls the timer off and restores what was muted.    *)
(*                                                                         *)
(* mute_timer_active is a plain bool that both threads write.  Every read  *)
(* of the timer thread follows a sleep or a call, so each access is taken  *)
(* as one step on memory.                                                  *)
(***************************************************************************)
EXTENDS Naturals

CONSTANT Apps  \* the playing apps that are not excluded from muting

VARIABLES
  mute_timer_active,
  mute_timer,     \* the std::thread: "none" when not joinable, else where the thread is
  muted_inputs,   \* set of <<app, was_muted>>
  muted,          \* the mute flag of each app, in the sound server
  wanted,         \* what the user chose for it
  aborted         \* std::terminate was called

pulseVars == <<mute_timer_active, mute_timer, muted_inputs, muted, wanted, aborted>>

PulseTypeOK ==
  /\ mute_timer_active \in BOOLEAN /\ aborted \in BOOLEAN
  /\ mute_timer \in {"none", "sleeping", "muting", "clearing", "done"}
  /\ muted_inputs \in SUBSET (Apps \X BOOLEAN)
  /\ muted \in [Apps -> BOOLEAN] /\ wanted \in [Apps -> BOOLEAN]

PulseInit ==
  /\ mute_timer_active = FALSE /\ aborted = FALSE
  /\ mute_timer = "none"
  /\ muted_inputs = {}
  /\ muted \in [Apps -> BOOLEAN] /\ wanted = muted

Joinable == mute_timer # "none"

(* The user mutes and unmutes an app, but not one that is muted for them.   *)
UserToggles(app) ==
  /\ \A was \in BOOLEAN : <<app, was>> \notin muted_inputs
  /\ muted' = [muted EXCEPT ![app] = ~@]
  /\ wanted' = [wanted EXCEPT ![app] = ~@]
  /\ UNCHANGED <<mute_timer_active, mute_timer, muted_inputs, aborted>>

-----------------------------------------------------------------------------
(* The timer thread.                                                        *)

TimerFires ==
  /\ mute_timer = "sleeping"
  /\ mute_timer' = IF mute_timer_active THEN "muting" ELSE "clearing"
  /\ UNCHANGED <<mute_timer_active, muted_inputs, muted, wanted, aborted>>

(* Defective: the state of an app before it was muted is not recorded.      *)
ForgetsWasMuted ==
  /\ mute_timer = "muting" /\ mute_timer' = "clearing"
  /\ muted_inputs' = muted_inputs \cup {<<app, FALSE>> : app \in Apps}
  /\ muted' = [app \in Apps |-> TRUE]
  /\ UNCHANGED <<mute_timer_active, wanted, aborted>>

(* do_mute(), under lock_.                                                  *)
DoMute ==
  /\ mute_timer = "muting" /\ mute_timer' = "clearing"
  /\ muted_inputs' = muted_inputs \cup {<<app, muted[app]>> : app \in Apps}
  /\ muted' = [app \in Apps |-> TRUE]
  /\ UNCHANGED <<mute_timer_active, wanted, aborted>>

TimerEnds ==
  /\ mute_timer = "clearing" /\ mute_timer' = "done"
  /\ mute_timer_active' = FALSE
  /\ UNCHANGED <<muted_inputs, muted, wanted, aborted>>

TimerThread == TimerFires \/ DoMute \/ TimerEnds

-----------------------------------------------------------------------------
(* The daemon thread.                                                       *)

(* A timer still active is called off, and must be joined.                  *)
CallOffTimer ==
  /\ mute_timer_active /\ Joinable
  /\ mute_timer_active' = FALSE
  /\ UNCHANGED <<mute_timer, muted_inputs, muted, wanted, aborted>>

JoinTimer ==
  /\ mute_timer = "done" /\ mute_timer' = "none"
  /\ UNCHANGED <<mute_timer_active, muted_inputs, muted, wanted, aborted>>

(* The new timer is move-assigned to mute_timer; assigning to a joinable    *)
(* std::thread calls std::terminate.                                        *)
StartTimer ==
  /\ mute_timer_active' = TRUE
  /\ mute_timer' = "sleeping"
  /\ aborted' = Joinable
  /\ UNCHANGED <<muted_inputs, muted, wanted>>

(* do_mute() runs under lock_, so the list is not half-written here.        *)
Unmute ==
  /\ mute_timer # "muting"
  /\ muted' = [app \in Apps |-> muted[app] /\ <<app, FALSE>> \notin muted_inputs]
  /\ muted_inputs' = {}
  /\ UNCHANGED <<mute_timer_active, mute_timer, wanted, aborted>>

(* The members of Impl are destroyed after cleanup(); so is a joinable      *)
(* std::thread, which calls std::terminate.                                 *)
Destroy ==
  /\ aborted' = Joinable
  /\ UNCHANGED <<mute_timer_active, mute_timer, muted_inputs, muted, wanted>>
=============================================================================
