------------------------------- MODULE Daemon -------------------------------
(***************************************************************************)
(* AutoWhisperDaemon (daemon.cpp): the event queue, the loop of the daemon *)
(* thread, the three handlers, shutdown and cleanup.                       *)
(*                                                                         *)
(* Four threads and a signal handler share the state:                      *)
(*   - the hotkey listener calls on_hotkey_event();                        *)
(*   - the avatar thread reads state_, then calls on_hotkey_event();       *)
(*   - the tray thread runs request_shutdown();                            *)
(*   - SIGINT and SIGTERM set shutdown_requested_, and nothing else;       *)
(*   - the daemon thread runs everything else, step by step along pc.      *)
(*                                                                         *)
(* The audio, mute, tray and avatar managers appear as the value the       *)
(* daemon last gave them.  Their own threads have modules of their own;    *)
(* what the GTK tray does after request_shutdown() is in TrayManager.tla.  *)
(***************************************************************************)
EXTENDS Naturals, Sequences

CONSTANT QueueCapacity  \* 100 in on_hotkey_event()

ASSUME QueueAssumption == QueueCapacity \in Nat \ {0}

Events == {"START", "STOP", "CANCEL"}

VARIABLES
  state_,               \* the atomic DaemonState
  event_queue_,
  queue_mutex_,         \* TRUE while the daemon thread holds it between two steps
  shutdown_requested_,
  notified,             \* queue_cv_ was signalled since the daemon blocked on it
  pc,                   \* where the daemon thread is
  event,                \* the event it popped
  tray,                 \* TrayState last set
  avatar,               \* AvatarState last requested
  mic,                  \* audio_->is_recording()
  apps,                 \* "muted" while pulseaudio_ holds other apps muted
  listening,            \* the avatar and the tray run, and hotkey_ from run() to cleanup()
  quit,                 \* where the tray thread is in request_shutdown()
  click,                \* the event an avatar click is about to queue
  pid_file              \* the PID file exists

queueVars == <<event_queue_, queue_mutex_, shutdown_requested_, notified>>
shown == <<tray, avatar>>
device == <<mic, apps>>
threads == <<listening, quit, click, pid_file>>
vars == <<state_, queueVars, pc, event, shown, device, threads>>

Labels ==
  {"init", "failed", "run", "loop", "reload", "lock", "wait", "blocked", "awake",
   "dispatch", "start", "open_mic", "stop", "close_mic", "short", "transcribe",
   "inject", "finish", "cancel", "cancel_done", "cleanup", "stop_sources", "join",
   "stop_audio", "release", "exited"}

TypeOK ==
  /\ state_ \in {"IDLE", "RECORDING", "PROCESSING", "SHUTDOWN"}
  /\ event_queue_ \in Seq(Events) /\ Len(event_queue_) <= QueueCapacity
  /\ queue_mutex_ \in BOOLEAN
  /\ shutdown_requested_ \in BOOLEAN
  /\ notified \in BOOLEAN
  /\ pc \in Labels
  /\ event \in Events
  /\ tray \in {"IDLE", "RECORDING", "PROCESSING"}
  /\ avatar \in {"Idle", "Summoned", "Thinking", "Writing", "Error"}
  /\ mic \in BOOLEAN
  /\ apps \in {"normal", "muted"}
  /\ listening \in BOOLEAN
  /\ quit \in {"none", "stored", "flagged", "done"}
  /\ click \in {"none", "START", "STOP"}
  /\ pid_file \in BOOLEAN

Init ==
  /\ state_ = "IDLE"
  /\ event_queue_ = << >> /\ queue_mutex_ = FALSE
  /\ shutdown_requested_ = FALSE /\ notified = FALSE
  /\ pc = "init" /\ event = "START"
  /\ tray = "IDLE" /\ avatar = "Idle"
  /\ mic = FALSE /\ apps = "normal"
  /\ listening = FALSE /\ quit = "none" /\ click = "none"
  /\ pid_file = FALSE

Step(from, to) == pc = from /\ pc' = to

-----------------------------------------------------------------------------
(* The other threads.                                                       *)

(* Defective: the bound is tested after the push.                           *)
PushesThenTests(e) ==
  /\ ~queue_mutex_
  /\ \/ Len(event_queue_) <= QueueCapacity /\ event_queue_' = Append(event_queue_, e) /\ notified' = TRUE
     \/ Len(event_queue_) > QueueCapacity /\ UNCHANGED <<event_queue_, notified>>
  /\ UNCHANGED <<queue_mutex_, shutdown_requested_>>

(* on_hotkey_event(): under queue_mutex_, dropped when the queue is full.   *)
OnHotkeyEvent(e) ==
  /\ ~queue_mutex_
  /\ \/ /\ Len(event_queue_) < QueueCapacity
        /\ event_queue_' = Append(event_queue_, e)
        /\ notified' = (pc = "blocked")
     \/ Len(event_queue_) >= QueueCapacity /\ UNCHANGED <<event_queue_, notified>>
  /\ UNCHANGED <<queue_mutex_, shutdown_requested_>>

HotkeyThread(e) ==
  /\ listening /\ pc \notin {"run", "stop_sources"}
  /\ OnHotkeyEvent(e)
  /\ UNCHANGED <<state_, pc, event, shown, device, threads>>

(* A click on the avatar: state_ is read before the queue is locked.        *)
Click ==
  /\ listening /\ click = "none"
  /\ click' = IF state_ = "RECORDING" THEN "STOP" ELSE "START"
  /\ UNCHANGED <<state_, queueVars, pc, event, shown, device, listening, quit, pid_file>>

QueueClick ==
  /\ click # "none"
  /\ OnHotkeyEvent(click)
  /\ click' = "none"
  /\ UNCHANGED <<state_, pc, event, shown, device, listening, quit, pid_file>>

(* request_shutdown(): two stores and a notification, under no lock.        *)
StoreShutdown ==
  /\ listening /\ quit = "none" /\ quit' = "stored"
  /\ state_' = "SHUTDOWN"
  /\ UNCHANGED <<queueVars, pc, event, shown, device, listening, click, pid_file>>

FlagShutdown ==
  /\ quit = "stored" /\ quit' = "flagged"
  /\ shutdown_requested_' = TRUE
  /\ UNCHANGED <<state_, event_queue_, queue_mutex_, notified, pc, event, shown, device,
                 listening, click, pid_file>>

NotifyShutdown ==
  /\ quit = "flagged" /\ quit' = "done"
  /\ notified' = (pc = "blocked")
  /\ UNCHANGED <<state_, event_queue_, queue_mutex_, shutdown_requested_, pc, event, shown,
                 device, listening, click, pid_file>>

(* The handler setup_signals() installs.                                    *)
Signal ==
  /\ pc \notin {"failed", "exited"}
  /\ ~shutdown_requested_ /\ shutdown_requested_' = TRUE
  /\ UNCHANGED <<state_, event_queue_, queue_mutex_, notified, pc, event, shown, device, threads>>

-----------------------------------------------------------------------------
(* The daemon thread: initialize(), run() and process_events().             *)

(* The PID file is written first; the audio, model, output and hotkey steps *)
(* after it may throw, and then neither run() nor cleanup() happens.  The   *)
(* avatar and the tray are started last, the hotkey listener by run().      *)
Initialize ==
  /\ pc = "init" /\ pc' \in {"run", "failed"}
  /\ pid_file' = TRUE
  /\ listening' = (pc' = "run")
  /\ UNCHANGED <<state_, queueVars, event, shown, device, quit, click>>

Run ==
  /\ Step("run", "loop")
  /\ UNCHANGED <<state_, queueVars, event, shown, device, threads>>

(* Defective: queue_mutex_ is taken before the configuration is reloaded.   *)
LocksThenReloads ==
  /\ pc = "loop"
  /\ pc' = IF shutdown_requested_ THEN "cleanup" ELSE "reload"
  /\ queue_mutex_' = ~shutdown_requested_
  /\ UNCHANGED <<state_, event_queue_, shutdown_requested_, notified, event, shown, device, threads>>

Loop ==
  /\ pc = "loop"
  /\ pc' = IF shutdown_requested_ THEN "cleanup" ELSE "reload"
  /\ UNCHANGED <<state_, queueVars, event, shown, device, threads>>

(* maybe_reload_config() touches none of this state but takes the hotkey    *)
(* mutex, so it runs before queue_mutex_ is taken.                          *)
Reload ==
  /\ Step("reload", "lock")
  /\ UNCHANGED <<state_, queueVars, event, shown, device, threads>>

LockQueue ==
  /\ Step("lock", "wait")
  /\ queue_mutex_' = TRUE
  /\ UNCHANGED <<state_, event_queue_, shutdown_requested_, notified, event, shown, device, threads>>

(* Waiting on queue_cv_ gives queue_mutex_ up.                              *)
Block ==
  /\ Step("wait", "blocked")
  /\ event_queue_ = << >> /\ ~shutdown_requested_
  /\ queue_mutex_' = FALSE /\ notified' = FALSE
  /\ UNCHANGED <<state_, event_queue_, shutdown_requested_, event, shown, device, threads>>

(* Defective: a wait without a time-out.                                    *)
NeverTimesOut == FALSE

(* wait_for() returns after 100 ms whatever happened.                       *)
WaitTimesOut == TRUE

Wake ==
  /\ Step("blocked", "awake")
  /\ notified \/ WaitTimesOut
  /\ queue_mutex_' = TRUE
  /\ UNCHANGED <<state_, event_queue_, shutdown_requested_, notified, event, shown, device, threads>>

Pop ==
  /\ pc \in {"wait", "awake"} /\ pc' = "dispatch"
  /\ event_queue_ # << >>
  /\ event' = Head(event_queue_) /\ event_queue_' = Tail(event_queue_)
  /\ queue_mutex_' = FALSE
  /\ UNCHANGED <<state_, shutdown_requested_, notified, shown, device, threads>>

NothingToDo ==
  /\ pc \in {"wait", "awake"} /\ pc' = "loop"
  /\ event_queue_ = << >> /\ (pc = "wait" => shutdown_requested_)
  /\ queue_mutex_' = FALSE
  /\ UNCHANGED <<state_, event_queue_, shutdown_requested_, notified, event, shown, device, threads>>

-----------------------------------------------------------------------------
(* The handlers.  Each reads state_ in one step and stores it in a later    *)
(* one, and request_shutdown() may come between.                            *)

(* Defective: STOP is handled in every state.                               *)
StopsInAnyState ==
  /\ pc = "dispatch"
  /\ pc' = CASE event = "START" /\ state_ = "IDLE" -> "start"
             [] event = "STOP" -> "stop"
             [] event = "CANCEL" /\ state_ = "RECORDING" -> "cancel"
             [] event = "CANCEL" /\ state_ \in {"IDLE", "SHUTDOWN"} -> "cancel_done"
             [] OTHER -> "loop"
  /\ UNCHANGED <<state_, queueVars, event, shown, device, threads>>

Dispatch ==
  /\ pc = "dispatch"
  /\ pc' = CASE event = "START" /\ state_ = "IDLE" -> "start"
             [] event = "STOP" /\ state_ = "RECORDING" -> "stop"
             [] event = "CANCEL" /\ state_ = "RECORDING" -> "cancel"
             [] event = "CANCEL" /\ state_ \in {"IDLE", "SHUTDOWN"} -> "cancel_done"
             [] OTHER -> "loop"
  /\ UNCHANGED <<state_, queueVars, event, shown, device, threads>>

(* Defective: the tray is updated by the other two handlers only.           *)
RecordsUnshown ==
  /\ Step("start", "open_mic")
  /\ state_' = "RECORDING"
  /\ avatar' = "Summoned"
  /\ apps' \in {"normal", "muted"}
  /\ UNCHANGED <<queueVars, event, tray, mic, threads>>

BeginRecording ==
  /\ Step("start", "open_mic")
  /\ state_' = "RECORDING"
  /\ tray' = "RECORDING" /\ avatar' = "Summoned"
  /\ apps' \in {"normal", "muted"}
  /\ UNCHANGED <<queueVars, event, mic, threads>>

(* start_recording() reports no error when the device will not open.        *)
OpenMic ==
  /\ Step("open_mic", "loop")
  /\ mic' \in {mic, TRUE}
  /\ UNCHANGED <<state_, queueVars, event, shown, apps, threads>>

BeginProcessing ==
  /\ Step("stop", "close_mic")
  /\ state_' = "PROCESSING"
  /\ tray' = "PROCESSING" /\ avatar' = "Thinking"
  /\ apps' = "normal"
  /\ UNCHANGED <<queueVars, event, mic, threads>>

(* stop_recording(): what was recorded is shorter than MIN_DURATION, or it  *)
(* is worth transcribing; nothing was recorded if the device never opened.  *)
CloseMic ==
  /\ pc = "close_mic"
  /\ pc' = "short" \/ (pc' = "transcribe" /\ mic)
  /\ mic' = FALSE
  /\ UNCHANGED <<state_, queueVars, event, shown, apps, threads>>

(* Too short: the avatar is not told.  The other early return of            *)
(* handle_stop() (nothing left after trimming) never happens, because       *)
(* trim_silence() returns silent audio whole.                               *)
TooShort ==
  /\ Step("short", "loop")
  /\ state_' = "IDLE" /\ tray' = "IDLE"
  /\ UNCHANGED <<queueVars, event, avatar, device, threads>>

Transcribe ==
  /\ pc = "transcribe"
  /\ \/ pc' = "inject" /\ avatar' = "Writing"
     \/ pc' = "finish" /\ avatar' = avatar      \* an empty transcript
     \/ pc' = "finish" /\ avatar' = "Error"     \* transcribe() threw
  /\ UNCHANGED <<state_, queueVars, event, tray, device, threads>>

Inject ==
  /\ Step("inject", "finish")
  /\ avatar' \in {avatar, "Error"}
  /\ UNCHANGED <<state_, queueVars, event, tray, device, threads>>

(* Defective: an exception skips the store that ends processing.            *)
FinishesOnSuccessOnly ==
  /\ Step("finish", "loop")
  /\ state_' = IF avatar = "Error" THEN state_ ELSE "IDLE"
  /\ tray' = "IDLE" /\ avatar' = "Idle"
  /\ UNCHANGED <<queueVars, event, device, threads>>

Finish ==
  /\ Step("finish", "loop")
  /\ state_' = "IDLE" /\ tray' = "IDLE" /\ avatar' = "Idle"
  /\ UNCHANGED <<queueVars, event, device, threads>>

(* Defective: a cancelled recording leaves the other apps muted.            *)
CancelKeepsMute ==
  /\ Step("cancel", "cancel_done")
  /\ mic' = FALSE
  /\ UNCHANGED <<state_, queueVars, event, shown, apps, threads>>

CancelRecording ==
  /\ Step("cancel", "cancel_done")
  /\ mic' = FALSE /\ apps' = "normal"
  /\ UNCHANGED <<state_, queueVars, event, shown, threads>>

CancelDone ==
  /\ Step("cancel_done", "loop")
  /\ state_' = "IDLE" /\ tray' = "IDLE" /\ avatar' = "Idle"
  /\ UNCHANGED <<queueVars, event, device, threads>>

-----------------------------------------------------------------------------
(* cleanup(): the sources of events are stopped and joined, the hotkey      *)
(* listener before the avatar and the tray, then the recording in progress  *)
(* is closed, then the rest is released.                                    *)

StopHotkey ==
  /\ Step("cleanup", "stop_sources")
  /\ UNCHANGED <<state_, queueVars, event, shown, device, threads>>

StopSources ==
  /\ Step("stop_sources", "join")
  /\ listening' = FALSE
  /\ UNCHANGED <<state_, queueVars, event, shown, device, quit, click, pid_file>>

(* A click or a quit in progress runs to its end before its thread does.    *)
JoinSources ==
  /\ Step("join", "stop_audio")
  /\ click = "none" /\ quit \in {"none", "done"}
  /\ UNCHANGED <<state_, queueVars, event, shown, device, threads>>

(* Defective: the recording is closed only in the state it belongs to.      *)
StopsAudioIfRecording ==
  /\ Step("stop_audio", "release")
  /\ mic' = (mic /\ state_ # "RECORDING")
  /\ UNCHANGED <<state_, queueVars, event, shown, apps, threads>>

StopAudio ==
  /\ Step("stop_audio", "release")
  /\ mic' = FALSE
  /\ UNCHANGED <<state_, queueVars, event, shown, apps, threads>>

Release ==
  /\ Step("release", "exited")
  /\ apps' = "normal" /\ pid_file' = FALSE
  /\ UNCHANGED <<state_, queueVars, event, shown, mic, listening, quit, click>>

-----------------------------------------------------------------------------
MainLoop ==
  Initialize \/ Run \/ Loop \/ LockQueue \/ Block \/ Wake \/ Pop \/ NothingToDo \/ Dispatch

Handlers ==
  \/ BeginRecording \/ OpenMic
  \/ BeginProcessing \/ CloseMic \/ TooShort \/ Transcribe \/ Inject \/ Finish
  \/ CancelRecording \/ CancelDone

Cleanup == StopHotkey \/ StopSources \/ JoinSources \/ StopAudio \/ Release

DaemonThread == MainLoop \/ Reload \/ Handlers \/ Cleanup

Quitting == StoreShutdown \/ FlagShutdown \/ NotifyShutdown

Ended == pc \in {"failed", "exited"} /\ UNCHANGED vars

Next ==
  \/ DaemonThread
  \/ \E e \in Events : HotkeyThread(e)
  \/ Click \/ QueueClick
  \/ Quitting
  \/ Signal
  \/ Ended

Spec == Init /\ [][Next]_vars

(* The daemon thread runs while it can: the devices, the model and the      *)
(* output tools it calls return.  A click or a quit, once begun, goes on.   *)
(* Users and signals owe nothing.                                           *)
Fairness ==
  /\ WF_vars(DaemonThread)
  /\ WF_vars(QueueClick)
  /\ WF_vars(FlagShutdown \/ NotifyShutdown)

FairSpec == Spec /\ Fairness

-----------------------------------------------------------------------------
(* Properties.                                                              *)

Stopping == quit # "none" \/ shutdown_requested_

(* Between two events the daemon thread is at one of these.                 *)
AtRest == pc \in {"run", "loop", "reload", "lock", "wait", "blocked", "awake"}

(* Between two events an idle daemon is quiet: no microphone is open and no *)
(* other app is left muted, whichever way the last recording ended          *)
(* (too short, transcribed, failed, cancelled, device that never opened).   *)
IdleIsQuiet ==
  (AtRest /\ ~Stopping /\ state_ = "IDLE") => ~mic /\ apps = "normal"

(* An open microphone is always shown: the tray never says idle while the   *)
(* device records (the order of the calls in the three handlers).           *)
OpenMicIsShown == (mic /\ ~Stopping) => tray # "IDLE"

(* No event is refused because of processing: the daemon thread is busy     *)
(* while it lasts, so an event queued meanwhile finds an idle daemon, and   *)
(* the branch of handle_cancel() that cannot cancel is never taken.         *)
NothingRefused == pc = "dispatch" => state_ # "PROCESSING"

(* A daemon that exits leaves nothing behind: whatever it was doing when    *)
(* shutdown was asked for, the microphone is closed, the other apps are     *)
(* audible, the PID file is gone and no thread can queue events (cleanup).  *)
CleanExit ==
  pc = "exited" => ~mic /\ apps = "normal" /\ ~pid_file /\ ~listening /\ click = "none"

(* The user's view: the daemon and its microphone go round the documented   *)
(* cycle, also when shutdown comes between a handler's test of state_ and   *)
(* its store, as long as "SHUTDOWN" is read from the request and not from   *)
(* state_, which a handler in progress may overwrite.                       *)
Cycle ==
  INSTANCE DictationCycle WITH
    phase <- IF Stopping THEN "SHUTDOWN" ELSE state_,
    microphone <- mic,
    gone <- pc = "exited"
FollowsCycle == Cycle!Spec

(* A shutdown asked for by a signal or by the tray ends the program, though *)
(* a signal notifies nobody and a notification may come before the wait.    *)
ShutdownCompletes == shutdown_requested_ ~> pc \in {"exited", "failed"}

(* Processing always ends: a short, empty, failed or throwing transcription *)
(* leads back to a state in which START is accepted.                        *)
ProcessingEnds == state_ = "PROCESSING" ~> state_ # "PROCESSING"
=============================================================================
