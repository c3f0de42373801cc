---------------------------- MODULE DaemonProofs ----------------------------
(***************************************************************************)
(* The safety properties of Daemon.tla, for every capacity of the queue.   *)
(*                                                                         *)
(* None of them is inductive: what the daemon may do next depends on where *)
(* its thread is inside a handler.  Progress says what state_, the tray,   *)
(* the microphone and the other apps are at each place while nobody asked  *)
(* for shutdown; once somebody did, request_shutdown() may have            *)
(* overwritten state_ and a handler may overwrite it in turn, so nothing   *)
(* is said of it there.  Teardown says what each step of cleanup() has     *)
(* achieved, whatever state the daemon was in.                             *)
(***************************************************************************)
EXTENDS Daemon, SequenceTheorems, TLAPS

Tearing == {"cleanup", "stop_sources", "join", "stop_audio", "release", "exited"}

Quiet == ~mic /\ apps = "normal"

Progress ==
  /\ pc \in {"init", "failed", "run", "start"} => state_ = "IDLE" /\ Quiet
  /\ (AtRest \/ pc = "dispatch") =>
       \/ state_ = "IDLE" /\ Quiet
       \/ state_ = "RECORDING" /\ tray = "RECORDING"
  /\ pc \in {"open_mic", "stop", "cancel"} => state_ = "RECORDING" /\ tray = "RECORDING"
  /\ pc = "close_mic" => state_ = "PROCESSING" /\ tray = "PROCESSING" /\ apps = "normal"
  /\ pc \in {"short", "transcribe", "inject", "finish"} => state_ = "PROCESSING" /\ Quiet
  /\ pc = "cancel_done" => state_ \in {"IDLE", "RECORDING"} /\ Quiet
  /\ pc \notin Tearing

Teardown ==
  /\ pc \in Tearing => shutdown_requested_
  /\ pc \in {"join", "stop_audio", "release", "exited"} => ~listening
  /\ pc \in {"stop_audio", "release", "exited"} => click = "none" /\ quit \in {"none", "done"}
  /\ pc \in {"release", "exited"} => ~mic
  /\ pc = "exited" => apps = "normal" /\ ~pid_file

(* PROCESSING is stored and overwritten within one call of handle_stop().   *)
Busy ==
  state_ = "PROCESSING" => pc \in {"close_mic", "short", "transcribe", "inject", "finish"}

IInv ==
  /\ TypeOK
  /\ ~Stopping => Progress
  /\ Teardown
  /\ Busy

-----------------------------------------------------------------------------
(* A daemon under construction satisfies the invariant (daemon.h).          *)
LEMMA Initial == Init => IInv
<1> SUFFICES ASSUME Init PROVE IInv
  OBVIOUS
<1>1. event_queue_ \in Seq(Events) /\ Len(event_queue_) <= QueueCapacity
  BY QueueAssumption, EmptySeq DEF Init
<1>2. TypeOK
  BY <1>1 DEF Init, TypeOK, Labels, Events
<1>3. Progress /\ Teardown /\ Busy
  BY DEF Init, Progress, Teardown, Busy, Tearing, Quiet, AtRest
<1> QED BY <1>2, <1>3 DEF IInv

(* on_hotkey_event() keeps the queue within its capacity.                   *)
LEMMA QueueStep ==
  ASSUME TypeOK, NEW e \in Events, OnHotkeyEvent(e)
  PROVE  /\ event_queue_' \in Seq(Events) /\ Len(event_queue_') <= QueueCapacity
         /\ queue_mutex_' = queue_mutex_
         /\ shutdown_requested_' = shutdown_requested_
         /\ notified' \in BOOLEAN
<1>1. event_queue_ \in Seq(Events) /\ Len(event_queue_) <= QueueCapacity /\ notified \in BOOLEAN
  BY DEF TypeOK
<1>2. /\ queue_mutex_' = queue_mutex_ /\ shutdown_requested_' = shutdown_requested_
      /\ notified' \in BOOLEAN
  BY <1>1 DEF OnHotkeyEvent
<1>3. CASE /\ Len(event_queue_) < QueueCapacity
           /\ event_queue_' = Append(event_queue_, e)
  <2>1. /\ Append(event_queue_, e) \in Seq(Events)
        /\ Len(Append(event_queue_, e)) = Len(event_queue_) + 1
    BY <1>1, AppendProperties
  <2>2. Len(event_queue_) + 1 <= QueueCapacity
    BY <1>1, <1>3, QueueAssumption, LenProperties
  <2> QED BY <1>2, <1>3, <2>1, <2>2
<1>4. CASE UNCHANGED event_queue_
  BY <1>1, <1>2, <1>4
<1> QED BY <1>3, <1>4 DEF OnHotkeyEvent

(* The other threads touch neither pc nor the devices; what they do to      *)
(* state_ is part of a shutdown.                                            *)
LEMMA OtherThreadStep ==
  ASSUME IInv, TypeOK', UNCHANGED <<pc, tray, mic, apps, pid_file>>,
         listening' = listening,
         Stopping => Stopping',
         shutdown_requested_ => shutdown_requested_',
         ~Stopping' => state_' = state_,
         state_' \in {state_, "SHUTDOWN"},
         ~listening => click' \in {click, "none"} /\ (quit = "none" => quit' = "none")
                       /\ (quit = "done" => quit' = "done")
  PROVE  IInv'
<1>1. ~Stopping' => Progress'
  BY DEF IInv, Progress, AtRest, Quiet, Tearing
<1>2. Teardown'
  BY DEF IInv, Teardown, Tearing
<1>3. Busy'
  BY DEF IInv, Busy
<1> QED BY <1>1, <1>2, <1>3 DEF IInv

-----------------------------------------------------------------------------
(* The other threads.                                                       *)

(* A hotkey event touches the queue and nothing else.                       *)
LEMMA HotkeyThreadStep ==
  ASSUME IInv, NEW e \in Events, HotkeyThread(e)
  PROVE  IInv'
<1> USE DEF HotkeyThread, shown, device, threads
<1>1. TypeOK'
  BY QueueStep DEF IInv, TypeOK
<1> QED BY <1>1, QueueStep, OtherThreadStep DEF IInv, Stopping

(* The two halves of the on_toggle callback of initialize().                *)
LEMMA ClickStep == IInv /\ (Click \/ QueueClick) => IInv'
<1> USE DEF shown, device, queueVars
<1>1. ASSUME IInv, Click PROVE IInv'
  <2>1. TypeOK'
    BY <1>1 DEF IInv, TypeOK, Click
  <2> QED BY <1>1, <2>1, OtherThreadStep DEF Click, Stopping
<1>2. ASSUME IInv, QueueClick PROVE IInv'
  <2>1. click \in Events
    BY <1>2 DEF IInv, TypeOK, QueueClick, Events
  <2>2. TypeOK'
    BY <1>2, <2>1, QueueStep DEF IInv, TypeOK, QueueClick
  <2> QED BY <1>2, <2>1, <2>2, QueueStep, OtherThreadStep DEF IInv, QueueClick, Stopping
<1> QED BY <1>1, <1>2

(* The two stores and the notification of request_shutdown(), and the       *)
(* signal handler: from then on only Teardown is claimed of the devices.    *)
LEMMA QuittingStep == IInv /\ (Quitting \/ Signal) => IInv'
<1> USE DEF shown, device, queueVars, threads
<1>1. ASSUME IInv, StoreShutdown PROVE IInv'
  <2>1. TypeOK'
    BY <1>1 DEF IInv, TypeOK, StoreShutdown
  <2> QED BY <1>1, <2>1, OtherThreadStep DEF StoreShutdown, Stopping
<1>2. ASSUME IInv, FlagShutdown PROVE IInv'
  <2>1. TypeOK'
    BY <1>2 DEF IInv, TypeOK, FlagShutdown
  <2> QED BY <1>2, <2>1, OtherThreadStep DEF FlagShutdown, Stopping
<1>3. ASSUME IInv, NotifyShutdown PROVE IInv'
  <2>1. TypeOK'
    BY <1>3 DEF IInv, TypeOK, NotifyShutdown
  <2> QED BY <1>3, <2>1, OtherThreadStep DEF NotifyShutdown, Stopping
<1>4. ASSUME IInv, Signal PROVE IInv'
  <2>1. TypeOK'
    BY <1>4 DEF IInv, TypeOK, Signal
  <2> QED BY <1>4, <2>1, OtherThreadStep DEF Signal, Stopping
<1> QED BY <1>1, <1>2, <1>3, <1>4 DEF Quitting

-----------------------------------------------------------------------------
(* The daemon thread between two events.                                    *)

(* A step of the main loop that is well-typed in the queue, in pc and in    *)
(* event is well-typed: it touches nothing else.                            *)
LEMMA QueueTypes ==
  ASSUME TypeOK, pc' \in Labels, event' \in Events,
         event_queue_' \in Seq(Events), Len(event_queue_') <= QueueCapacity,
         queue_mutex_' \in BOOLEAN, notified' \in BOOLEAN,
         UNCHANGED <<state_, shutdown_requested_, shown, device, threads>>
  PROVE  TypeOK'
BY DEF TypeOK, Labels, Events, shown, device, threads

(* initialize(), run() and process_events(), up to the call of a handler.   *)
LEMMA MainLoopStep == IInv /\ (MainLoop \/ Reload) => IInv'
<1> SUFFICES ASSUME IInv, MainLoop \/ Reload PROVE IInv'
  OBVIOUS
<1> USE DEF shown, device, queueVars, threads, Step
<1>1. TypeOK /\ (~Stopping => Progress) /\ Teardown /\ Busy
  BY DEF IInv
<1>2. CASE Initialize
  <2>1. TypeOK'
    BY <1>1, <1>2 DEF Initialize, TypeOK, Labels
  <2>2. (~Stopping' => Progress') /\ Teardown' /\ Busy'
    BY <1>1, <1>2
    DEF Initialize, Progress, Quiet, Stopping, AtRest, Teardown, Tearing, Busy
  <2> QED BY <2>1, <2>2 DEF IInv
<1>3. CASE Run
  <2>1. TypeOK'
    BY <1>1, <1>3 DEF Run, TypeOK, Labels
  <2>2. (~Stopping' => Progress') /\ Teardown' /\ Busy'
    BY <1>1, <1>3
    DEF Run, Progress, Quiet, Stopping, AtRest, Teardown, Tearing, Busy
  <2> QED BY <2>1, <2>2 DEF IInv
<1>4. CASE Loop
  <2>1. TypeOK'
    BY <1>1, <1>4 DEF Loop, TypeOK, Labels
  <2>2. (~Stopping' => Progress') /\ Teardown' /\ Busy'
    BY <1>1, <1>4
    DEF Loop, Progress, Quiet, Stopping, AtRest, Teardown, Tearing, Busy
  <2> QED BY <2>1, <2>2 DEF IInv
<1>5. CASE Reload
  <2>1. TypeOK'
    BY <1>1, <1>5 DEF Reload, TypeOK, Labels
  <2>2. (~Stopping' => Progress') /\ Teardown' /\ Busy'
    BY <1>1, <1>5
    DEF Reload, Progress, Quiet, Stopping, AtRest, Teardown, Tearing, Busy
  <2> QED BY <2>1, <2>2 DEF IInv
<1>6. CASE LockQueue
  <2>1. TypeOK'
    BY <1>1, <1>6 DEF LockQueue, TypeOK, Labels
  <2>2. (~Stopping' => Progress') /\ Teardown' /\ Busy'
    BY <1>1, <1>6
    DEF LockQueue, Progress, Quiet, Stopping, AtRest, Teardown, Tearing, Busy
  <2> QED BY <2>1, <2>2 DEF IInv
<1>7. CASE Block
  <2>1. TypeOK'
    BY <1>1, <1>7, QueueTypes DEF Block, TypeOK, Labels
  <2>2. (~Stopping' => Progress') /\ Teardown' /\ Busy'
    BY <1>1, <1>7
    DEF Block, Progress, Quiet, Stopping, AtRest, Teardown, Tearing, Busy
  <2> QED BY <2>1, <2>2 DEF IInv
<1>8. CASE Wake
  <2>1. TypeOK'
    BY <1>1, <1>8 DEF Wake, TypeOK, Labels
  <2>2. (~Stopping' => Progress') /\ Teardown' /\ Busy'
    BY <1>1, <1>8
    DEF Wake, Progress, Quiet, Stopping, AtRest, Teardown, Tearing, Busy
  <2> QED BY <2>1, <2>2 DEF IInv
<1>9. CASE Pop
  <2>1. /\ Head(event_queue_) \in Events
        /\ Tail(event_queue_) \in Seq(Events)
        /\ Len(Tail(event_queue_)) <= QueueCapacity
    BY <1>1, <1>9, HeadTailProperties, LenProperties, QueueAssumption DEF Pop, TypeOK
  <2>2. TypeOK'
    BY <1>1, <1>9, <2>1, QueueTypes DEF Pop, TypeOK, Labels
  <2>3. (~Stopping' => Progress') /\ Teardown' /\ Busy'
    BY <1>1, <1>9
    DEF Pop, Progress, Quiet, Stopping, AtRest, Teardown, Tearing, Busy
  <2> QED BY <2>2, <2>3 DEF IInv
<1>10. CASE NothingToDo
  <2>1. TypeOK'
    BY <1>1, <1>10, QueueTypes DEF NothingToDo, TypeOK, Labels
  <2>2. (~Stopping' => Progress') /\ Teardown' /\ Busy'
    BY <1>1, <1>10
    DEF NothingToDo, Progress, Quiet, Stopping, AtRest, Teardown, Tearing, Busy
  <2> QED BY <2>1, <2>2 DEF IInv
<1>11. CASE Dispatch
  <2>1. TypeOK'
    BY <1>1, <1>11 DEF Dispatch, TypeOK, Labels
  <2>2. (~Stopping' => Progress') /\ Teardown' /\ Busy'
    BY <1>1, <1>11
    DEF Dispatch, Progress, Quiet, Stopping, AtRest, Teardown, Tearing, Busy
  <2> QED BY <2>1, <2>2 DEF IInv
<1> QED BY <1>2, <1>3, <1>4, <1>5, <1>6, <1>7, <1>8, <1>9, <1>10, <1>11 DEF MainLoop

-----------------------------------------------------------------------------
(* The handlers.                                                            *)

(* A handler touches neither the queue nor the threads, so its step is      *)
(* well-typed when what it does touch is.                                   *)
LEMMA HandlerTypes ==
  ASSUME TypeOK, pc' \in Labels,
         state_' \in {"IDLE", "RECORDING", "PROCESSING", "SHUTDOWN"},
         tray' \in {"IDLE", "RECORDING", "PROCESSING"},
         avatar' \in {"Idle", "Summoned", "Thinking", "Writing", "Error"},
         mic' \in BOOLEAN, apps' \in {"normal", "muted"},
         listening' \in BOOLEAN, pid_file' \in BOOLEAN,
         UNCHANGED <<queueVars, event, quit, click>>
  PROVE  TypeOK'
BY DEF TypeOK, Labels, Events, queueVars

(* Every step of handle_start(), handle_stop() and handle_cancel().         *)
LEMMA HandlersStep == IInv /\ Handlers => IInv'
<1> SUFFICES ASSUME IInv, Handlers PROVE IInv'
  OBVIOUS
<1> USE DEF shown, device, queueVars, threads, Step
<1>1. TypeOK /\ (~Stopping => Progress) /\ Teardown /\ Busy
  BY DEF IInv
<1>2. CASE BeginRecording
  <2>1. TypeOK'
    BY <1>1, <1>2, HandlerTypes DEF BeginRecording, TypeOK, Labels
  <2>2. (~Stopping' => Progress') /\ Teardown' /\ Busy'
    BY <1>1, <1>2
    DEF BeginRecording, Progress, Quiet, Stopping, AtRest, Teardown, Tearing, Busy
  <2> QED BY <2>1, <2>2 DEF IInv
<1>3. CASE OpenMic
  <2>1. TypeOK'
    <3>1. mic' \in BOOLEAN
      BY <1>1, <1>3 DEF OpenMic, TypeOK
    <3>2. pc' \in Labels /\ UNCHANGED <<state_, queueVars, event, shown, apps, threads>>
      BY <1>3 DEF OpenMic, Labels
    <3> QED BY <1>1, <3>1, <3>2, HandlerTypes DEF TypeOK
  <2>2. (~Stopping' => Progress') /\ Teardown' /\ Busy'
    BY <1>1, <1>3
    DEF OpenMic, Progress, Quiet, Stopping, AtRest, Teardown, Tearing, Busy
  <2> QED BY <2>1, <2>2 DEF IInv
<1>4. CASE BeginProcessing
  <2>1. TypeOK'
    BY <1>1, <1>4, HandlerTypes DEF BeginProcessing, TypeOK, Labels
  <2>2. (~Stopping' => Progress') /\ Teardown' /\ Busy'
    BY <1>1, <1>4
    DEF BeginProcessing, Progress, Quiet, Stopping, AtRest, Teardown, Tearing, Busy
  <2> QED BY <2>1, <2>2 DEF IInv
<1>5. CASE CloseMic
  <2>1. TypeOK'
    <3>1. mic' \in BOOLEAN
      BY <1>1, <1>5 DEF CloseMic, TypeOK
    <3>2. pc' \in Labels /\ UNCHANGED <<state_, queueVars, event, shown, apps, threads>>
      BY <1>5 DEF CloseMic, Labels
    <3> QED BY <1>1, <3>1, <3>2, HandlerTypes DEF TypeOK
  <2>2. (~Stopping' => Progress') /\ Teardown' /\ Busy'
    BY <1>1, <1>5
    DEF CloseMic, Progress, Quiet, Stopping, AtRest, Teardown, Tearing, Busy
  <2> QED BY <2>1, <2>2 DEF IInv
<1>6. CASE TooShort
  <2>1. TypeOK'
    BY <1>1, <1>6, HandlerTypes DEF TooShort, TypeOK, Labels
  <2>2. (~Stopping' => Progress') /\ Teardown' /\ Busy'
    BY <1>1, <1>6
    DEF TooShort, Progress, Quiet, Stopping, AtRest, Teardown, Tearing, Busy
  <2> QED BY <2>1, <2>2 DEF IInv
<1>7. CASE Transcribe
  <2>1. TypeOK'
    BY <1>1, <1>7, HandlerTypes DEF Transcribe, TypeOK, Labels
  <2>2. (~Stopping' => Progress') /\ Teardown' /\ Busy'
    BY <1>1, <1>7
    DEF Transcribe, Progress, Quiet, Stopping, AtRest, Teardown, Tearing, Busy
  <2> QED BY <2>1, <2>2 DEF IInv
<1>8. CASE Inject
  <2>1. TypeOK'
    BY <1>1, <1>8, HandlerTypes DEF Inject, TypeOK, Labels
  <2>2. (~Stopping' => Progress') /\ Teardown' /\ Busy'
    BY <1>1, <1>8
    DEF Inject, Progress, Quiet, Stopping, AtRest, Teardown, Tearing, Busy
  <2> QED BY <2>1, <2>2 DEF IInv
<1>9. CASE Finish
  <2>1. TypeOK'
    BY <1>1, <1>9, HandlerTypes DEF Finish, TypeOK, Labels
  <2>2. (~Stopping' => Progress') /\ Teardown' /\ Busy'
    BY <1>1, <1>9
    DEF Finish, Progress, Quiet, Stopping, AtRest, Teardown, Tearing, Busy
  <2> QED BY <2>1, <2>2 DEF IInv
<1>10. CASE CancelRecording
  <2>1. TypeOK'
    BY <1>1, <1>10, HandlerTypes DEF CancelRecording, TypeOK, Labels
  <2>2. (~Stopping' => Progress') /\ Teardown' /\ Busy'
    BY <1>1, <1>10
    DEF CancelRecording, Progress, Quiet, Stopping, AtRest, Teardown, Tearing, Busy
  <2> QED BY <2>1, <2>2 DEF IInv
<1>11. CASE CancelDone
  <2>1. TypeOK'
    BY <1>1, <1>11, HandlerTypes DEF CancelDone, TypeOK, Labels
  <2>2. (~Stopping' => Progress') /\ Teardown' /\ Busy'
    BY <1>1, <1>11
    DEF CancelDone, Progress, Quiet, Stopping, AtRest, Teardown, Tearing, Busy
  <2> QED BY <2>1, <2>2 DEF IInv
<1> QED BY <1>2, <1>3, <1>4, <1>5, <1>6, <1>7, <1>8, <1>9, <1>10, <1>11 DEF Handlers

(* Every step of cleanup(); the daemon thread reaches it only while         *)
(* stopping.                                                                *)
LEMMA CleanupStep == IInv /\ Cleanup => IInv'
<1> SUFFICES ASSUME IInv, Cleanup PROVE IInv'
  OBVIOUS
<1> USE DEF shown, device, queueVars, threads, Step
<1>1. TypeOK /\ (~Stopping => Progress) /\ Teardown /\ Busy
  BY DEF IInv
<1>2. CASE StopSources
  <2>1. TypeOK'
    BY <1>1, <1>2, HandlerTypes, ZenonT(40) DEF StopSources, TypeOK, Labels
  <2>2. (~Stopping' => Progress') /\ Teardown' /\ Busy'
    BY <1>1, <1>2
    DEF StopSources, Progress, Quiet, Stopping, AtRest, Teardown, Tearing, Busy
  <2> QED BY <2>1, <2>2 DEF IInv
<1>3. CASE JoinSources
  <2>1. TypeOK'
    BY <1>1, <1>3, HandlerTypes DEF JoinSources, TypeOK, Labels
  <2>2. (~Stopping' => Progress') /\ Teardown' /\ Busy'
    BY <1>1, <1>3
    DEF JoinSources, Progress, Quiet, Stopping, AtRest, Teardown, Tearing, Busy
  <2> QED BY <2>1, <2>2 DEF IInv
<1>4. CASE StopAudio
  <2>1. TypeOK'
    BY <1>1, <1>4, HandlerTypes, ZenonT(40) DEF StopAudio, TypeOK, Labels
  <2>2. (~Stopping' => Progress') /\ Teardown' /\ Busy'
    BY <1>1, <1>4
    DEF StopAudio, Progress, Quiet, Stopping, AtRest, Teardown, Tearing, Busy
  <2> QED BY <2>1, <2>2 DEF IInv
<1>5. CASE Release
  <2>1. TypeOK'
    BY <1>1, <1>5, HandlerTypes DEF Release, TypeOK, Labels
  <2>2. (~Stopping' => Progress') /\ Teardown' /\ Busy'
    BY <1>1, <1>5
    DEF Release, Progress, Quiet, Stopping, AtRest, Teardown, Tearing, Busy
  <2> QED BY <2>1, <2>2 DEF IInv
<1>6. CASE StopHotkey
  <2>1. TypeOK'
    BY <1>1, <1>6, HandlerTypes DEF StopHotkey, TypeOK, Labels
  <2>2. (~Stopping' => Progress') /\ Teardown' /\ Busy'
    BY <1>1, <1>6
    DEF StopHotkey, Progress, Quiet, Stopping, AtRest, Teardown, Tearing, Busy
  <2> QED BY <2>1, <2>2 DEF IInv
<1> QED BY <1>2, <1>3, <1>4, <1>5, <1>6 DEF Cleanup

-----------------------------------------------------------------------------
(* The invariant is inductive: one lemma for each party of the daemon.      *)
LEMMA Inductive == IInv /\ [Next]_vars => IInv'
<1> SUFFICES ASSUME IInv, [Next]_vars PROVE IInv'
  OBVIOUS
<1>1. CASE DaemonThread
  BY <1>1, MainLoopStep, HandlersStep, CleanupStep DEF DaemonThread
<1>2. CASE \E e \in Events : HotkeyThread(e)
  BY <1>2, HotkeyThreadStep
<1>3. CASE Click \/ QueueClick
  BY <1>3, ClickStep
<1>4. CASE Quitting \/ Signal
  BY <1>4, QuittingStep
<1>5. CASE UNCHANGED vars
  BY <1>5
  DEF vars, shown, device, queueVars, threads, IInv, TypeOK, Labels, Events, Progress, Quiet,
      Stopping, AtRest, Teardown, Tearing, Busy
<1> QED BY <1>1, <1>2, <1>3, <1>4, <1>5 DEF Next, Ended

(* The strengthening holds in every reachable state of the daemon, for      *)
(* every queue capacity.                                                    *)
THEOREM Invariance == Spec => []IInv
BY Initial, Inductive, PTL DEF Spec

(* The queue never holds more than its capacity, and every shared variable  *)
(* keeps its type, whatever the five parties do.                            *)
THEOREM TypeCorrect == Spec => []TypeOK
<1>1. IInv => TypeOK
  BY DEF IInv
<1> QED BY Invariance, <1>1, PTL

(* Whichever way a recording ends, the daemon that rests after it has       *)
(* closed the microphone and given the other apps their sound back.         *)
THEOREM IdleQuiet == Spec => []IdleIsQuiet
<1>1. IInv => IdleIsQuiet
  BY DEF IInv, IdleIsQuiet, Progress, AtRest, Quiet, Tearing
<1> QED BY Invariance, <1>1, PTL

(* The tray never says idle while the microphone is open.                   *)
THEOREM MicShown == Spec => []OpenMicIsShown
<1>1. IInv => OpenMicIsShown
  BY DEF IInv, OpenMicIsShown, TypeOK, Labels, Progress, AtRest, Quiet, Tearing
<1> QED BY Invariance, <1>1, PTL

(* handle_cancel() never meets a daemon that is processing.                 *)
THEOREM NeverRefuses == Spec => []NothingRefused
<1>1. IInv => NothingRefused
  BY DEF IInv, NothingRefused, Busy
<1> QED BY Invariance, <1>1, PTL

(* cleanup() leaves nothing behind.                                         *)
THEOREM ExitsClean == Spec => []CleanExit
<1>1. IInv => CleanExit
  BY DEF IInv, CleanExit, Teardown
<1> QED BY Invariance, <1>1, PTL

-----------------------------------------------------------------------------
(* The daemon implements the cycle of DictationCycle.tla.                   *)

Phase == IF Stopping THEN "SHUTDOWN" ELSE state_
Gone == pc = "exited"

CycleVars == <<Phase, mic, Gone>>

(* The steps of the other threads, and of the daemon thread outside the     *)
(* handlers and the end of cleanup(), are shutdown requests or nothing.     *)
LEMMA QuietStepFollows ==
  ASSUME IInv, UNCHANGED mic, pc' = "exited" <=> pc = "exited",
         Stopping => Stopping', ~Stopping' => state_' = state_
  PROVE  [Cycle!Next]_CycleVars
<1>1. Gone' = Gone
  BY DEF Gone
<1>2. CASE Stopping'
  <2>1. Phase' = "SHUTDOWN"
    BY <1>2 DEF Phase
  <2>2. Cycle!Shutdown
    BY <1>1, <2>1 DEF Cycle!Shutdown, Phase, Gone
  <2> QED BY <2>2 DEF Cycle!Next
<1>3. CASE ~Stopping'
  <2>1. Phase' = Phase
    BY <1>3 DEF Phase
  <2> QED BY <1>1, <2>1 DEF CycleVars
<1> QED BY <1>2, <1>3

(* The handlers are where the user sees the cycle turn: each step is Start, *)
(* Open, Stop, Close, Done or Cancel of DictationCycle, or a stutter.       *)
LEMMA HandlersFollow ==
  ASSUME IInv, IInv', Handlers
  PROVE  [Cycle!Next]_CycleVars
<1> USE DEF Step, Stopping, Phase, Gone, CycleVars, shown, device, threads, queueVars
<1>1. (Stopping' <=> Stopping) /\ ~Gone /\ ~Gone'
  <2> USE DEF Handlers, BeginRecording, OpenMic, BeginProcessing, CloseMic, TooShort, Transcribe,
     Inject, Finish, CancelRecording, CancelDone
  <2>1. quit' = quit /\ shutdown_requested_' = shutdown_requested_
    OBVIOUS
  <2>2. pc # "exited"
    OBVIOUS
  <2>3. pc' # "exited"
    OBVIOUS
  <2> QED BY <2>1, <2>2, <2>3
<1>2. mic \in BOOLEAN /\ (~Stopping => Progress)
  BY DEF IInv, TypeOK
<1>3. CASE BeginRecording
  <2>1. CASE Stopping
    BY <1>1, <1>3, <2>1 DEF BeginRecording
  <2>2. CASE ~Stopping
    BY <1>1, <1>2, <1>3, <2>2 DEF BeginRecording, Progress, Cycle!Next, Cycle!Start
  <2> QED BY <2>1, <2>2
<1>4. CASE OpenMic
  <2>1. CASE UNCHANGED mic
    BY <1>1, <1>4, <2>1 DEF OpenMic
  <2>2. CASE mic' = TRUE
    <3>1. Phase \in {"RECORDING", "SHUTDOWN"} /\ Phase' = Phase
      BY <1>1, <1>2, <1>4 DEF OpenMic, Progress
    <3> QED BY <1>1, <2>2, <3>1 DEF Cycle!Next, Cycle!Open
  <2> QED BY <1>4, <2>1, <2>2 DEF OpenMic
<1>5. CASE BeginProcessing
  <2>1. CASE Stopping
    BY <1>1, <1>5, <2>1 DEF BeginProcessing
  <2>2. CASE ~Stopping
    BY <1>1, <1>2, <1>5, <2>2 DEF BeginProcessing, Progress, Cycle!Next, Cycle!Stop
  <2> QED BY <2>1, <2>2
<1>6. CASE CloseMic \/ CancelRecording
  <2>1. mic' = FALSE /\ Phase' = Phase
    BY <1>1, <1>6 DEF CloseMic, CancelRecording
  <2> QED BY <1>1, <2>1 DEF Cycle!Next, Cycle!Close
<1>7. CASE TooShort \/ Finish
  <2>1. CASE Stopping
    BY <1>1, <1>7, <2>1 DEF TooShort, Finish
  <2>2. CASE ~Stopping
    <3>1. Phase = "PROCESSING" /\ Phase' = "IDLE" /\ ~mic /\ mic' = mic
      BY <1>1, <1>2, <1>7, <2>2 DEF TooShort, Finish, Progress, Quiet
    <3> QED BY <1>1, <3>1 DEF Cycle!Next, Cycle!Done
  <2> QED BY <2>1, <2>2
<1>8. CASE Transcribe \/ Inject
  BY <1>1, <1>8 DEF Transcribe, Inject
<1>9. CASE CancelDone
  <2>1. CASE Stopping
    BY <1>1, <1>9, <2>1 DEF CancelDone
  <2>2. CASE ~Stopping
    <3>1. Phase \in {"IDLE", "RECORDING"} /\ Phase' = "IDLE" /\ ~mic /\ mic' = mic
      BY <1>1, <1>2, <1>9, <2>2 DEF CancelDone, Progress, Quiet
    <3> QED BY <1>1, <3>1 DEF Cycle!Next, Cycle!Cancel
  <2> QED BY <2>1, <2>2
<1> QED BY <1>3, <1>4, <1>5, <1>6, <1>7, <1>8, <1>9 DEF Handlers

(* cleanup() closes the microphone before the program is gone.              *)
LEMMA CleanupFollows ==
  ASSUME IInv, IInv', Cleanup
  PROVE  [Cycle!Next]_CycleVars
<1> USE DEF Step, Stopping, Phase, Gone, CycleVars, shown, device, threads, queueVars
<1>1. Phase = "SHUTDOWN" /\ Phase' = "SHUTDOWN" /\ pc # "exited"
  BY DEF IInv, Teardown, Tearing, Cleanup, StopHotkey, StopSources, JoinSources, StopAudio, Release
<1>2. CASE StopHotkey \/ StopSources \/ JoinSources
  BY <1>1, <1>2 DEF StopHotkey, StopSources, JoinSources
<1>3. CASE StopAudio
  BY <1>1, <1>3 DEF StopAudio, Cycle!Next, Cycle!Close
<1>4. CASE Release
  <2>1. ~mic /\ mic' = mic /\ Gone'
    BY <1>4 DEF IInv, Teardown, Release
  <2> QED BY <1>1, <2>1 DEF Cycle!Next, Cycle!End
<1> QED BY <1>2, <1>3, <1>4 DEF Cleanup

(* The daemon and its microphone go round the documented cycle, and the     *)
(* program ends only with the microphone closed.                            *)
THEOREM ImplementsCycle == Spec => FollowsCycle
<1>1. Init => Cycle!Init
  BY DEF Init, Cycle!Init, Stopping
<1>2. IInv /\ IInv' /\ [Next]_vars => [Cycle!Next]_CycleVars
  <2> SUFFICES ASSUME IInv, IInv', [Next]_vars PROVE [Cycle!Next]_CycleVars
    OBVIOUS
  <2> USE DEF Step, Stopping, shown, device, threads, queueVars
  <2>1. CASE MainLoop \/ Reload
    BY <2>1, QuietStepFollows
    DEF MainLoop, Initialize, Run, Loop, Reload, LockQueue, Block, Wake, Pop, NothingToDo, Dispatch
  <2>2. CASE Handlers
    BY <2>2, HandlersFollow
  <2>3. CASE Cleanup
    BY <2>3, CleanupFollows
  <2>4. CASE \E e \in Events : HotkeyThread(e)
    BY <2>4, QuietStepFollows DEF HotkeyThread, OnHotkeyEvent
  <2>5. CASE Click \/ QueueClick
    BY <2>5, QuietStepFollows DEF Click, QueueClick, OnHotkeyEvent
  <2>6. CASE Quitting \/ Signal
    BY <2>6, QuietStepFollows DEF Quitting, StoreShutdown, FlagShutdown, NotifyShutdown, Signal
  <2>7. CASE UNCHANGED vars
    BY <2>7, QuietStepFollows DEF vars
  <2> QED BY <2>1, <2>2, <2>3, <2>4, <2>5, <2>6, <2>7 DEF Next, DaemonThread, Ended
<1> QED
  BY <1>1, <1>2, Invariance, PTL
  DEF Spec, FollowsCycle, Cycle!Spec, CycleVars, Phase, Gone
=============================================================================
