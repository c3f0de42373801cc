----------------------------- MODULE Recording -----------------------------
(***************************************************************************)
(* One recording after another, on the devices: AudioManager and           *)
(* PulseAudioManager driven by the daemon thread in the order in which     *)
(* handle_start(), handle_stop(), handle_cancel() and cleanup() call them  *)
(* (daemon.cpp).  Which event is handled when is the matter of Daemon.tla. *)
(***************************************************************************)
EXTENDS AudioManager, PulseAudioManager

VARIABLES
  phase,  \* where the daemon thread is
  quit    \* request_shutdown() overwrote state_ during a recording

vars == <<audioVars, pulseVars, phase, quit>>

Phases ==
  {"idle", "mute", "mute_join", "mute_start", "open",
   "recording",
   "unmute", "unmute_join", "restore", "close", "closing",
   "cancel", "cancelling", "cancel_unmute", "cancel_join", "cancel_restore",
   "cleanup", "cleaning", "end_unmute", "end_join", "end_restore", "destroy", "ended"}

TypeOK == AudioTypeOK /\ PulseTypeOK /\ phase \in Phases /\ quit \in BOOLEAN

Init == AudioInit /\ PulseInit /\ phase = "idle" /\ quit = FALSE

To(from, to) == phase = from /\ phase' = to /\ UNCHANGED quit
Audio(action) == action /\ UNCHANGED pulseVars
Pulse(action) == action /\ UNCHANGED audioVars
NoDevice == UNCHANGED <<audioVars, pulseVars>>

(* handle_start(): mute_other_apps(true), then start_recording().           *)
Start ==
  \/ To("idle", "mute") /\ NoDevice
  \/ To("mute", "mute_join") /\ Pulse(CallOffTimer)
  \/ To("mute", "mute_start") /\ ~(mute_timer_active /\ Joinable) /\ NoDevice
  \/ To("mute_join", "mute_start") /\ Pulse(JoinTimer)
  \/ To("mute_start", "open") /\ Pulse(StartTimer)
  \/ To("open", "recording") /\ Audio(StartRecording)

(* Defective: a timer that has not fired yet is left to itself.             *)
UnmutesWithoutTimer(from, join, restore) ==
  To(from, restore) /\ NoDevice

(* unmute_other_apps(), up to the lock.                                     *)
UnmuteOtherApps(from, join, restore) ==
  \/ To(from, join) /\ Pulse(CallOffTimer)
  \/ To(from, restore) /\ ~mute_timer_active /\ NoDevice
  \/ To(join, restore) /\ Pulse(JoinTimer)

(* handle_stop(): unmute_other_apps(), then stop_recording().               *)
Stop ==
  \/ To("recording", "unmute") /\ NoDevice
  \/ UnmuteOtherApps("unmute", "unmute_join", "restore")
  \/ To("restore", "close") /\ Pulse(Unmute)
  \/ To("close", "closing") /\ Audio(StopRecording)
  \/ To("close", "idle") /\ Audio(NotRecording)
  \/ To("closing", "idle") /\ Audio(DeviceStopped)

(* Defective: a cancelled recording goes on.                                *)
CancelsMuteOnly ==
  \/ To("recording", "cancel_unmute") /\ NoDevice
  \/ UnmuteOtherApps("cancel_unmute", "cancel_join", "cancel_restore")
  \/ To("cancel_restore", "idle") /\ Pulse(Unmute)

(* handle_cancel(): the other way round.                                    *)
Cancel ==
  \/ To("recording", "cancel") /\ NoDevice
  \/ To("cancel", "cancelling") /\ Audio(StopRecording)
  \/ To("cancel", "cancel_unmute") /\ Audio(NotRecording)
  \/ To("cancelling", "cancel_unmute") /\ Audio(DeviceStopped)
  \/ UnmuteOtherApps("cancel_unmute", "cancel_join", "cancel_restore")
  \/ To("cancel_restore", "idle") /\ Pulse(Unmute)

(* A CANCEL handled between the two stores of request_shutdown() makes the  *)
(* daemon idle in the middle of a recording.                                *)
QuitDuringCancel ==
  /\ phase = "recording" /\ ~quit
  /\ phase' = "idle" /\ quit' = TRUE
  /\ NoDevice

(* cleanup(), from the loop of run(); then the managers are destroyed.      *)
Cleanup ==
  \/ phase \in {"idle", "recording"} /\ phase' = "cleanup" /\ UNCHANGED quit /\ NoDevice
  \/ To("cleanup", "cleaning") /\ Audio(StopRecording)
  \/ To("cleanup", "end_unmute") /\ Audio(NotRecording)
  \/ To("cleaning", "end_unmute") /\ Audio(DeviceStopped)
  \/ UnmuteOtherApps("end_unmute", "end_join", "end_restore")
  \/ To("end_restore", "destroy") /\ Pulse(Unmute)
  \/ To("destroy", "ended") /\ Pulse(Destroy)

DaemonThread == ~aborted /\ (Start \/ Stop \/ Cancel \/ QuitDuringCancel \/ Cleanup)

OtherThreads ==
  /\ ~aborted /\ phase # "ended"
  /\ \/ DeviceThread /\ UNCHANGED pulseVars
     \/ TimerThread /\ UNCHANGED audioVars
  /\ UNCHANGED <<phase, quit>>

User ==
  /\ ~aborted /\ phase # "ended"
  /\ \E app \in Apps : UserToggles(app)
  /\ UNCHANGED <<audioVars, phase, quit>>

Next == DaemonThread \/ OtherThreads \/ User

Spec == Init /\ [][Next]_vars

(* Inside a handler the daemon thread goes on; a recording lasts as long as *)
(* the user wants.  The threads of the device and of the timer run.         *)
FairSpec ==
  /\ Spec
  /\ WF_vars(phase \notin {"idle", "recording"} /\ DaemonThread)
  /\ WF_vars(OtherThreads)

-----------------------------------------------------------------------------
(* Properties.                                                              *)

(* Between recordings every app sounds as its user chose: whatever the      *)
(* timer was doing when the recording ended, the apps it muted are restored *)
(* and none is muted later (the flag, the join and the list of              *)
(* pulseaudio.cpp); the same after cleanup().                               *)
AppsAsWanted ==
  (~aborted /\ (phase = "ended" \/ (phase = "idle" /\ ~quit))) =>
    muted = wanted /\ mute_timer \in {"none", "done"}

(* The device runs only between the start and the stop of a recording, is   *)
(* never left open by cleanup(), and outlives its callback.                 *)
DeviceClosed ==
  /\ callback # "out" => device
  /\ (phase \in {"destroy", "ended"} \/ (phase = "idle" /\ ~quit)) =>
       ~device /\ ~recording_

(* "IDLE --START--> RECORDING --STOP--> PROCESSING --done/error--> IDLE"    *)
(* (engineering/architecture.md): a stopped recording ends.  The code can   *)
(* wait forever in stop_recording(), which holds lock_ while it waits for a *)
(* callback that waits for lock_.                                           *)
StopEnds == (phase = "close" /\ ~quit) ~> (phase = "idle" \/ aborted)

(* "Mute other applications while recording." (schema.cpp): muting never    *)
(* ends the program.  The code joins a mute timer only while it is active,  *)
(* and replaces or destroys a thread that nobody joined.                    *)
NeverAborts == aborted => quit
=============================================================================
