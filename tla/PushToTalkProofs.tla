-------------------------- MODULE PushToTalkProofs --------------------------
(***************************************************************************)
(* The properties of PushToTalk.tla, for every keyboard, every set of      *)
(* configurations and every capacity of the queue.                         *)
(*                                                                         *)
(* Between the trigger and the recording lies a queue of any length.  What *)
(* the daemon will do when it has handled everything depends on the last   *)
(* event alone: START leaves it recording and STOP and CANCEL leave it     *)
(* idle, whatever came before.  Bound is that outcome, at every place of   *)
(* the daemon thread, and the invariant says that, undisturbed, it agrees  *)
(* with the trigger all the time.                                          *)
(***************************************************************************)
EXTENDS PushToTalk, SequenceTheorems, TLAPS

DP == INSTANCE DaemonProofs
HP == INSTANCE HotkeyManagerProofs

Beginning == {"start", "open_mic"}
Ending == {"stop", "close_mic", "short", "transcribe", "inject", "finish",
           "cancel", "cancel_done"}
Waiting == {"init", "failed", "run", "loop", "reload", "lock", "wait", "blocked", "awake"}

(* Nobody asks for shutdown here, so state_ follows the daemon thread, and  *)
(* queue_mutex_ is held around the wait only.                               *)
DaemonOK ==
  /\ ~shutdown_requested_
  /\ event_queue_ \in Seq(D!Events) /\ event \in D!Events
  /\ click \in {"none", "START", "STOP"}
  /\ pc \in Waiting \cup {"dispatch"} \cup Beginning \cup Ending
  /\ pc \in Waiting \cup {"dispatch"} => state_ \in {"IDLE", "RECORDING"}
  /\ pc \in {"open_mic", "stop", "cancel"} => state_ = "RECORDING"
  /\ queue_mutex_ <=> pc \in {"wait", "awake"}

(* A handler that calls back is one of a started listener, with an event to *)
(* queue.                                                                   *)
CallOK == calling => running_ /\ sent \in D!Events

(* The daemon is bound to be recording once it has handled the event in     *)
(* hand, the queue and the event about to be queued.                        *)
Bound ==
  IF calling THEN sent = "START"
  ELSE IF event_queue_ # << >> THEN event_queue_[Len(event_queue_)] = "START"
  ELSE IF pc = "dispatch" THEN event = "START"
  ELSE IF pc \in Waiting THEN state_ = "RECORDING"
  ELSE pc \in Beginning

Agreed == Bound <=> trigger_pressed_

IInv == DaemonOK /\ CallOK /\ trigger_pressed_ \in BOOLEAN /\ (~disturbed => Agreed)

-----------------------------------------------------------------------------
(* The operators of the two modules.                                        *)

(* A stroke begins a press with START, ends one with STOP or CANCEL, or     *)
(* leaves the trigger as it is and sends nothing.                           *)
LEMMA StrokeSends ==
  ASSUME HK!Keyboard
  PROVE  \/ sent' = "none" /\ UNCHANGED trigger_pressed_
         \/ sent' = "START" /\ trigger_pressed_' = TRUE
         \/ sent' \in {"STOP", "CANCEL"} /\ trigger_pressed_' = FALSE
<1> USE DEF HK!Reported, HK!matchState, HK!Begin, HK!ReleaseTrigger, HK!Nothing
<1>1. ASSUME NEW k \in ModifierKeys, HK!PressModifier(k)
      PROVE  (sent' = "none" /\ UNCHANGED trigger_pressed_)
             \/ (sent' = "START" /\ trigger_pressed_' = TRUE)
  BY <1>1 DEF HK!PressModifier, HK!OnModifierPress
<1>2. ASSUME NEW k \in ModifierKeys, HK!ReleaseModifier(k)
      PROVE  (sent' = "none" /\ UNCHANGED trigger_pressed_)
             \/ (sent' = "STOP" /\ trigger_pressed_' = FALSE)
  BY <1>2 DEF HK!ReleaseModifier, HK!OnModifierRelease
<1>3. ASSUME NEW k \in Keys, HK!PressKey(k)
      PROVE  \/ sent' = "none" /\ UNCHANGED trigger_pressed_
             \/ sent' = "START" /\ trigger_pressed_' = TRUE
             \/ sent' \in {"STOP", "CANCEL"} /\ trigger_pressed_' = FALSE
  BY <1>3 DEF HK!PressKey, HK!OnKeyPress, HK!CancelTrigger, HK!ToggleOff
<1>4. ASSUME NEW k \in Keys, HK!ReleaseKey(k)
      PROVE  (sent' = "none" /\ UNCHANGED trigger_pressed_)
             \/ (sent' = "STOP" /\ trigger_pressed_' = FALSE)
  BY <1>4 DEF HK!ReleaseKey, HK!OnKeyRelease
<1> QED BY <1>1, <1>2, <1>3, <1>4 DEF HK!Keyboard

(* A stopped listener sends nothing.                                        *)
LEMMA StrokeIsHeard == HK!Keyboard /\ sent' # "none" => running_'
BY DEF HK!Keyboard, HK!PressModifier, HK!ReleaseModifier, HK!PressKey, HK!ReleaseKey, HK!Reported

(* A sequence that was appended to ends with what was appended.             *)
LEMMA LastAppended ==
  ASSUME NEW S, NEW q \in Seq(S), NEW e \in S
  PROVE  /\ Append(q, e) \in Seq(S) /\ Append(q, e) # << >>
         /\ Append(q, e)[Len(Append(q, e))] = e
BY AppendProperties

(* Taking the first element leaves the last one where it was, or takes it.  *)
LEMMA LastOfTail ==
  ASSUME NEW S, NEW q \in Seq(S), q # << >>
  PROVE  /\ Head(q) \in S /\ Tail(q) \in Seq(S)
         /\ Tail(q) = << >> => Head(q) = q[Len(q)]
         /\ Tail(q) # << >> => Tail(q)[Len(Tail(q))] = q[Len(q)]
<1>1. /\ Head(q) \in S /\ Tail(q) \in Seq(S) /\ Len(Tail(q)) = Len(q) - 1
      /\ \A i \in 1..Len(Tail(q)) : Tail(q)[i] = q[i + 1]
      /\ Head(q) = q[1] /\ Len(q) \in Nat \ {0}
  BY HeadTailProperties
<1>2. CASE Tail(q) = << >>
  <2>1. Len(q) = 1
    <3>1. Len(Tail(q)) = 0
      BY <1>2, EmptySeq
    <3>2. Len(Tail(q)) = Len(q) - 1 /\ Len(q) \in Nat
      BY <1>1
    <3> QED BY <3>1, <3>2
  <2> QED BY <1>1, <1>2, <2>1
<1>3. CASE Tail(q) # << >>
  <2>1. Len(Tail(q)) # 0
    BY <1>1, <1>3, EmptySeq
  <2>2. Len(Tail(q)) \in 1..Len(Tail(q)) /\ Len(Tail(q)) + 1 = Len(q)
    BY <1>1, <2>1
  <2> QED BY <1>1, <1>3, <2>2
<1> QED BY <1>2, <1>3

(* on_hotkey_event() appends the event to the queue or drops it.            *)
LEMMA Queued ==
  ASSUME event_queue_ \in Seq(D!Events), NEW e \in D!Events, D!OnHotkeyEvent(e)
  PROVE  /\ event_queue_' \in Seq(D!Events)
         /\ UNCHANGED <<queue_mutex_, shutdown_requested_>>
         /\ \/ /\ event_queue_' # << >>
               /\ event_queue_'[Len(event_queue_')] = e
            \/ Len(event_queue_) >= QueueCapacity /\ UNCHANGED event_queue_
BY LastAppended DEF D!OnHotkeyEvent

-----------------------------------------------------------------------------
(* The daemon alone.                                                        *)

(* A daemon under construction is idle, and no key is down.                 *)
LEMMA Initial == Init => IInv
<1> SUFFICES ASSUME Init PROVE IInv
  OBVIOUS
<1>1. DaemonOK
  BY EmptySeq DEF Init, D!Init, D!Events, DaemonOK, Waiting, Beginning, Ending
<1>2. CallOK /\ trigger_pressed_ = FALSE /\ ~Bound
  BY DEF Init, D!Init, HK!Init, CallOK, Bound, Waiting
<1> QED BY <1>1, <1>2 DEF IInv, Agreed

(* The main loop between two events.                                        *)
LEMMA LoopOK ==
  ASSUME DaemonOK, D!MainLoop \/ D!Reload
  PROVE  DaemonOK'
<1> USE DEF DaemonOK, Waiting, Beginning, Ending, D!Step, D!queueVars, D!shown, D!device, D!threads
<1>1. CASE D!Initialize
  BY <1>1 DEF D!Initialize
<1>2. CASE D!Run \/ D!Loop \/ D!Reload
  BY <1>2 DEF D!Run, D!Loop, D!Reload
<1>3. CASE D!LockQueue \/ D!Block \/ D!Wake
  BY <1>3 DEF D!LockQueue, D!Block, D!Wake
<1>4. CASE D!Pop
  <2>1. event' \in D!Events /\ event_queue_' \in Seq(D!Events)
    BY <1>4, LastOfTail DEF D!Pop
  <2> QED BY <1>4, <2>1 DEF D!Pop
<1>5. CASE D!NothingToDo
  BY <1>5 DEF D!NothingToDo
<1>6. CASE D!Dispatch
  <2>1. pc' \in {"start", "stop", "cancel", "cancel_done", "loop"}
    BY <1>6 DEF D!Dispatch
  <2>2. pc' \in {"stop", "cancel"} => state_ = "RECORDING"
    BY <1>6 DEF D!Dispatch
  <2>3. pc = "dispatch"
    BY <1>6 DEF D!Dispatch
  <2>4. UNCHANGED <<state_, event_queue_, queue_mutex_, shutdown_requested_, event, click>>
    BY <1>6 DEF D!Dispatch
  <2> QED BY <2>1, <2>2, <2>3, <2>4
<1> QED BY <1>1, <1>2, <1>3, <1>4, <1>5, <1>6 DEF D!MainLoop

(* The handlers.                                                            *)
LEMMA HandlersOK ==
  ASSUME DaemonOK, D!Handlers
  PROVE  DaemonOK'
<1> USE DEF DaemonOK, Waiting, Beginning, Ending, D!Step, D!queueVars, D!shown, D!device, D!threads
<1>0. CASE D!BeginRecording
  BY <1>0 DEF D!BeginRecording
<1>1. CASE D!OpenMic
  BY <1>1 DEF D!OpenMic
<1>2. CASE D!BeginProcessing \/ D!CloseMic
  BY <1>2 DEF D!BeginProcessing, D!CloseMic
<1>3. CASE D!TooShort \/ D!Transcribe
  BY <1>3 DEF D!TooShort, D!Transcribe
<1>4. CASE D!Inject \/ D!Finish
  BY <1>4 DEF D!Inject, D!Finish
<1>5. CASE D!CancelRecording \/ D!CancelDone
  BY <1>5 DEF D!CancelRecording, D!CancelDone
<1> QED BY <1>0, <1>1, <1>2, <1>3, <1>4, <1>5 DEF D!Handlers

(* Every step leaves the daemon in such a state.                            *)
LEMMA DaemonOKStep == IInv /\ [Next]_vars => DaemonOK'
<1> SUFFICES ASSUME IInv, [Next]_vars PROVE DaemonOK'
  OBVIOUS
<1>0. DaemonOK /\ CallOK
  BY DEF IInv
<1>1. ASSUME UNCHANGED daemonVars PROVE DaemonOK'
  BY <1>0, <1>1 DEF DaemonOK, daemonVars
<1>2. ASSUME UNCHANGED <<state_, pc, event>>, click' \in {"none", "START", "STOP"},
             event_queue_' \in Seq(D!Events), UNCHANGED <<queue_mutex_, shutdown_requested_>>
      PROVE  DaemonOK'
  BY <1>0, <1>2 DEF DaemonOK
<1>3. CASE Stroke \/ Resync \/ Failed \/ UNCHANGED vars
  BY <1>1, <1>3 DEF Stroke, Resync, Failed, vars
<1>4. CASE Deliver
  BY <1>0, <1>2, <1>4, Queued DEF Deliver, D!HotkeyThread, DaemonOK, CallOK, D!threads
<1>5. CASE Clicked
  <2>1. CASE D!Click
    BY <1>0, <1>2, <2>1 DEF D!Click, DaemonOK, D!queueVars
  <2>2. CASE D!QueueClick
    <3>1. click \in D!Events
      BY <1>0, <2>2 DEF D!QueueClick, DaemonOK, D!Events
    <3> QED BY <1>0, <1>2, <2>2, <3>1, Queued DEF D!QueueClick, DaemonOK
  <2> QED BY <1>5, <2>1, <2>2 DEF Clicked
<1>6. CASE Reconfigure \/ StartListening
  BY <1>0, <1>6, LoopOK DEF Reconfigure, StartListening, D!MainLoop
<1>7. CASE DaemonStep
  BY <1>0, <1>7, LoopOK, HandlersOK DEF DaemonStep
<1> QED BY <1>3, <1>4, <1>5, <1>6, <1>7 DEF Next

-----------------------------------------------------------------------------
(* The agreement of the trigger with what the daemon is bound to do.        *)

(* At rest the daemon is bound to what it is doing.                         *)
LEMMA BoundAtRest ==
  DaemonOK /\ Quiet => (Bound <=> state_ = "RECORDING")
BY DEF DaemonOK, Quiet, D!AtRest, Bound, Waiting

(* Undisturbed steps have to keep the agreement; a disturbance is forgotten *)
(* at rest only, in a state in which trigger and recording agree.           *)
LEMMA Forgotten ==
  ASSUME DaemonOK', trigger_pressed_' \in BOOLEAN, NEW cause, Disturb(cause),
         ~disturbed /\ ~cause => Agreed'
  PROVE  ~disturbed' => Agreed'
<1> SUFFICES ASSUME ~disturbed' PROVE Agreed'
  OBVIOUS
<1>1. CASE Quiet' /\ InStep'
  <2>1. Bound' <=> state_' = "RECORDING"
    BY <1>1 DEF DaemonOK, Quiet, D!AtRest, Bound, Waiting
  <2> QED BY <1>1, <2>1 DEF InStep, Agreed
<1>2. CASE ~(Quiet' /\ InStep')
  BY <1>2 DEF Disturb
<1> QED BY <1>1, <1>2

(* A stroke that sends nothing leaves both sides alone; one that sends      *)
(* binds the daemon to the new state of the trigger.                        *)
LEMMA StrokeAgrees == IInv /\ Stroke /\ ~disturbed => Agreed'
<1> SUFFICES ASSUME IInv, Stroke, ~disturbed PROVE Agreed'
  OBVIOUS
<1>0. Agreed /\ ~calling /\ UNCHANGED daemonVars
  BY DEF IInv, Stroke
<1>1. CASE sent' = "none" /\ UNCHANGED trigger_pressed_
  <2>1. ~calling'
    BY <1>1 DEF Stroke
  <2> QED BY <1>0, <1>1, <2>1 DEF Agreed, Bound, daemonVars
<1>2. CASE sent' = "START" /\ trigger_pressed_' = TRUE
  BY <1>2 DEF Stroke, Agreed, Bound
<1>3. CASE sent' \in {"STOP", "CANCEL"} /\ trigger_pressed_' = FALSE
  BY <1>3 DEF Stroke, Agreed, Bound
<1> QED BY <1>1, <1>2, <1>3, StrokeSends DEF Stroke

(* The event the daemon was bound to is queued last.                        *)
LEMMA DeliverAgrees ==
  IInv /\ Deliver /\ ~disturbed /\ Len(event_queue_) < QueueCapacity => Agreed'
<1> SUFFICES ASSUME IInv, Deliver, ~disturbed, Len(event_queue_) < QueueCapacity PROVE Agreed'
  OBVIOUS
<1>1. /\ event_queue_ \in Seq(D!Events) /\ sent \in D!Events /\ calling
      /\ sent = "START" <=> trigger_pressed_
  BY DEF IInv, DaemonOK, CallOK, Deliver, Agreed, Bound
<1>2. D!OnHotkeyEvent(sent) /\ ~calling' /\ UNCHANGED <<sent, trigger_pressed_>>
  BY DEF Deliver, D!HotkeyThread, hotkeyVars
<1>3. event_queue_' = Append(event_queue_, sent)
  BY <1>1, <1>2, QueueAssumption, LenProperties DEF D!OnHotkeyEvent
<1>4. event_queue_' # << >> /\ event_queue_'[Len(event_queue_')] = sent
  BY <1>1, <1>3, LastAppended
<1> QED BY <1>1, <1>2, <1>4 DEF Agreed, Bound

(* The daemon turns the queue and the event in hand into the state they     *)
(* bind it to, and leaves nothing out.                                      *)
LEMMA DaemonKeepsBound ==
  ASSUME DaemonOK, ~calling, ~calling', D!MainLoop \/ D!Reload \/ D!Handlers
  PROVE  Bound' <=> Bound
<1> USE DEF D!Step, D!queueVars, D!shown, D!device, D!threads
<1>1. CASE UNCHANGED event_queue_ /\ event_queue_ # << >>
  BY <1>1 DEF Bound
<1>2. CASE D!Pop
  <2>1. event_queue_ # << >> /\ event_queue_ \in Seq(D!Events) /\ pc' = "dispatch"
        /\ event' = Head(event_queue_) /\ event_queue_' = Tail(event_queue_)
    BY <1>2 DEF D!Pop, DaemonOK
  <2> QED BY <2>1, LastOfTail DEF Bound
<1>3. CASE D!Dispatch /\ event_queue_ = << >>
  <2>1. /\ pc = "dispatch" /\ UNCHANGED <<event_queue_, state_, event>>
        /\ state_ \in {"IDLE", "RECORDING"} /\ event \in {"START", "STOP", "CANCEL"}
    BY <1>3 DEF D!Dispatch, DaemonOK, D!Events
  <2>2. CASE event = "START"
    <3>1. pc' = IF state_ = "IDLE" THEN "start" ELSE "loop"
      BY <1>3, <2>1, <2>2 DEF D!Dispatch
    <3> QED BY <1>3, <2>1, <2>2, <3>1 DEF Bound, Beginning, Waiting
  <2>3. CASE event # "START"
    <3>1. \/ pc' \in {"stop", "cancel", "cancel_done"}
          \/ pc' = "loop" /\ state_ = "IDLE"
      BY <1>3, <2>1, <2>3 DEF D!Dispatch
    <3> QED BY <1>3, <2>1, <2>3, <3>1 DEF Bound, Beginning, Waiting
  <2> QED BY <2>2, <2>3
<1>4. CASE event_queue_ = << >> /\ ~D!Pop /\ ~D!Dispatch /\ (D!MainLoop \/ D!Reload)
  <2>1. UNCHANGED <<event_queue_, state_>> /\ pc \in Waiting /\ pc' \in Waiting
    BY <1>4
    DEF D!MainLoop, D!Initialize, D!Run, D!Loop, D!Reload, D!LockQueue, D!Block, D!Wake,
        D!NothingToDo, DaemonOK, Waiting
  <2> QED BY <1>4, <2>1 DEF Bound, Waiting
<1>5. CASE event_queue_ = << >> /\ D!Handlers
  <2> USE DEF DaemonOK, Bound, Waiting, Beginning, Ending
  <2>1. CASE D!BeginRecording
    BY <1>5, <2>1 DEF D!BeginRecording
  <2>2. CASE D!OpenMic
    BY <1>5, <2>2 DEF D!OpenMic
  <2>3. CASE D!BeginProcessing \/ D!CloseMic
    BY <1>5, <2>3 DEF D!BeginProcessing, D!CloseMic
  <2>4. CASE D!TooShort \/ D!Transcribe
    BY <1>5, <2>4 DEF D!TooShort, D!Transcribe
  <2>5. CASE D!Inject \/ D!Finish
    BY <1>5, <2>5 DEF D!Inject, D!Finish
  <2>6. CASE D!CancelRecording \/ D!CancelDone
    BY <1>5, <2>6 DEF D!CancelRecording, D!CancelDone
  <2> QED BY <1>5, <2>1, <2>2, <2>3, <2>4, <2>5, <2>6 DEF D!Handlers
<1>6. D!Pop \/ UNCHANGED event_queue_
  BY DEF D!MainLoop, D!Initialize, D!Run, D!Loop, D!Reload, D!LockQueue, D!Block, D!Wake,
     D!NothingToDo, D!Dispatch, D!Handlers, D!BeginRecording, D!OpenMic, D!BeginProcessing,
     D!CloseMic, D!TooShort, D!Transcribe, D!Inject, D!Finish, D!CancelRecording, D!CancelDone
<1> QED BY <1>1, <1>2, <1>3, <1>4, <1>5, <1>6

-----------------------------------------------------------------------------
(* A disturbance excuses the step it is part of, and nothing but the step   *)
(* that disturbs parts trigger and recording.                               *)
LEMMA Inductive == IInv /\ [Next]_vars => IInv'
<1> SUFFICES ASSUME IInv, [Next]_vars PROVE IInv'
  OBVIOUS
<1>1. DaemonOK'
  BY DaemonOKStep
<1>2. DaemonOK /\ CallOK /\ trigger_pressed_ \in BOOLEAN /\ (~disturbed => Agreed)
  BY DEF IInv
<1>3. CASE Stroke
  <2>0. sent' # "none" => running_'
    BY <1>3, StrokeIsHeard DEF Stroke
  <2>1. CallOK' /\ trigger_pressed_' \in BOOLEAN
    BY <1>2, <1>3, <2>0, StrokeSends DEF Stroke, CallOK, D!Events
  <2>2. Disturb(FALSE)
    BY <1>3 DEF Stroke
  <2>3. ~disturbed' => Agreed'
    BY <1>1, <1>3, <2>1, <2>2, StrokeAgrees, Forgotten
  <2> QED BY <1>1, <2>1, <2>3 DEF IInv
<1>4. CASE Deliver
  <2>1. CallOK' /\ trigger_pressed_' \in BOOLEAN
    BY <1>2, <1>4 DEF Deliver, CallOK, hotkeyVars
  <2>2. Disturb(Len(event_queue_) >= QueueCapacity)
    BY <1>4 DEF Deliver
  <2>3. ~(Len(event_queue_) >= QueueCapacity) => Len(event_queue_) < QueueCapacity
    BY <1>2, QueueAssumption, LenProperties DEF DaemonOK
  <2>4. ~disturbed' => Agreed'
    BY <1>1, <1>4, <2>1, <2>2, <2>3, DeliverAgrees, Forgotten
  <2> QED BY <1>1, <2>1, <2>4 DEF IInv
<1>5. CASE Resync \/ Reconfigure
  <2>1. ~calling /\ ~calling' /\ trigger_pressed_' = FALSE
    BY <1>5 DEF Resync, Reconfigure, HK!ResetInputState, HK!SetConfig, HK!DropMatchState
  <2>2. Disturb(trigger_pressed_)
    BY <1>5 DEF Resync, Reconfigure
  <2>3. Bound' <=> Bound
    <3>1. CASE Resync
      BY <2>1, <3>1 DEF Resync, Bound, daemonVars
    <3>2. CASE Reconfigure
      BY <1>2, <2>1, <3>2, DaemonKeepsBound DEF Reconfigure
    <3> QED BY <1>5, <3>1, <3>2
  <2>4. ~disturbed /\ ~trigger_pressed_ => Agreed'
    BY <1>2, <2>1, <2>3 DEF Agreed
  <2>5. ~disturbed' => Agreed'
    BY <1>1, <2>1, <2>2, <2>4, Forgotten
  <2> QED BY <1>1, <2>1, <2>5 DEF IInv, CallOK
<1>6. CASE StartListening \/ DaemonStep
  <2>1. Disturb(FALSE) /\ UNCHANGED <<calling, trigger_pressed_>>
    BY <1>6 DEF StartListening, DaemonStep, HK!Start, HK!matchState, hotkeyVars
  <2>2. calling => UNCHANGED <<running_, sent>>
    BY <1>2, <1>6 DEF StartListening, DaemonStep, HK!Start, hotkeyVars, CallOK
  <2>3. D!MainLoop \/ D!Reload \/ D!Handlers
    BY <1>6 DEF StartListening, DaemonStep, D!MainLoop
  <2>4. Bound' <=> Bound
    <3>1. CASE calling
      BY <2>1, <2>2, <3>1 DEF Bound
    <3>2. CASE ~calling
      BY <1>2, <2>1, <2>3, <3>2, DaemonKeepsBound
    <3> QED BY <3>1, <3>2
  <2>5. ~disturbed' => Agreed'
    BY <1>1, <1>2, <2>1, <2>4, Forgotten DEF Agreed
  <2> QED BY <1>1, <1>2, <2>1, <2>2, <2>5 DEF IInv, CallOK
<1>7. CASE Clicked
  <2>1. UNCHANGED <<calling, running_, trigger_pressed_, sent>> /\ Disturb(TRUE)
    BY <1>7 DEF Clicked, hotkeyVars
  <2>2. ~disturbed' => Agreed'
    BY <1>1, <1>2, <2>1, Forgotten
  <2> QED BY <1>1, <1>2, <2>1, <2>2 DEF IInv, CallOK
<1>8. CASE Failed \/ UNCHANGED vars
  <2>1. UNCHANGED vars
    BY <1>8 DEF Failed
  <2> QED BY <1>1, <1>2, <2>1 DEF IInv, CallOK, Agreed, Bound, vars, hotkeyVars, daemonVars
<1> QED BY <1>3, <1>4, <1>5, <1>6, <1>7, <1>8 DEF Next

(* The strengthening holds in every reachable state.                        *)
THEOREM Invariance == Spec => []IInv
BY Initial, Inductive, PTL DEF Spec

(* A daemon that has handled everything records exactly while the trigger   *)
(* is pressed, unless a full queue, a save, an interrupted event stream or  *)
(* a click came between.                                                    *)
THEOREM RecordsPressed == Spec => []RecordsWhilePressed
<1>1. IInv => RecordsWhilePressed
  BY BoundAtRest DEF IInv, RecordsWhilePressed, InStep, Agreed
<1> QED BY Invariance, <1>1, PTL

(* No step of the daemon thread waits for mutex_ with queue_mutex_ held     *)
(* (the comment on set_config() in hotkey.h).                               *)
THEOREM LocksInOrder == Spec => []LockOrder
<1>1. IInv => LockOrder
  BY DEF IInv, DaemonOK, LockOrder
<1> QED BY Invariance, <1>1, PTL

-----------------------------------------------------------------------------
(* The composition runs the daemon of Daemon.tla and the manager of         *)
(* HotkeyManager.tla, so whatever is proved of either holds here.           *)

(* A daemon fed by strokes and clicks behaves like the daemon alone.        *)
THEOREM ImplementsDaemon == Spec => D!Spec
<1>1. Init => D!Init
  BY DEF Init
<1>2. IInv /\ [Next]_vars => [D!Next]_(D!vars)
  <2> SUFFICES ASSUME IInv, [Next]_vars PROVE [D!Next]_(D!vars)
    OBVIOUS
  <2> USE DEF D!Next, D!DaemonThread, D!MainLoop
  <2>1. ASSUME UNCHANGED daemonVars PROVE UNCHANGED D!vars
    BY <2>1 DEF daemonVars, D!vars, D!queueVars, D!shown, D!device, D!threads
  <2>2. CASE Stroke \/ Resync \/ Failed \/ UNCHANGED vars
    BY <2>1, <2>2 DEF Stroke, Resync, Failed, vars
  <2>3. CASE Deliver
    BY <2>3 DEF Deliver, IInv, CallOK
  <2>4. CASE Reconfigure
    BY <2>4 DEF Reconfigure
  <2>5. CASE StartListening
    BY <2>5 DEF StartListening
  <2>6. CASE Clicked
    BY <2>6 DEF Clicked
  <2>7. CASE DaemonStep
    BY <2>7 DEF DaemonStep
  <2> QED BY <2>2, <2>3, <2>4, <2>5, <2>6, <2>7 DEF Next
<1> QED BY <1>1, <1>2, Invariance, PTL DEF Spec, D!Spec

(* A manager reconfigured by the daemon thread, whose callback may wait,    *)
(* behaves like the manager alone.                                          *)
THEOREM ImplementsHotkeys == Spec => HK!Spec
<1>1. Init => HK!Init
  BY DEF Init
<1>2. [Next]_vars => [HK!Next]_(HK!vars)
  <2> SUFFICES ASSUME [Next]_vars PROVE [HK!Next]_(HK!vars)
    OBVIOUS
  <2> USE DEF HK!Next
  <2>1. ASSUME UNCHANGED hotkeyVars PROVE UNCHANGED HK!vars
    BY <2>1 DEF hotkeyVars, HK!vars, HK!matchState
  <2>2. CASE Deliver \/ Clicked \/ DaemonStep \/ Failed \/ UNCHANGED vars
    BY <2>1, <2>2 DEF Deliver, Clicked, DaemonStep, Failed, vars
  <2>3. CASE Stroke
    BY <2>3 DEF Stroke
  <2>4. CASE Resync
    BY <2>4 DEF Resync
  <2>5. CASE Reconfigure
    BY <2>5 DEF Reconfigure
  <2>6. CASE StartListening
    BY <2>6 DEF StartListening
  <2> QED BY <2>2, <2>3, <2>4, <2>5, <2>6 DEF Next
<1> QED BY <1>1, <1>2, PTL DEF Spec, HK!Spec

(* DP and HP bring definitions of their own, the same as those of D and HK  *)
(* but for their names.  The daemon is one daemon (daemon.cpp), ...         *)
LEMMA SameDaemon == D!Spec <=> DP!Spec
<1> USE DEF
      D!Events, DP!Events, D!queueVars, DP!queueVars, D!shown, DP!shown, D!device,
      DP!device, D!threads, DP!threads, D!vars, DP!vars, D!Step, DP!Step
<1>1. D!Init <=> DP!Init
  BY DEF D!Init, DP!Init
<1>2. D!MainLoop <=> DP!MainLoop
  BY DEF
     D!MainLoop, DP!MainLoop, D!Initialize, DP!Initialize, D!Run, DP!Run, D!Loop,
     DP!Loop, D!LockQueue, DP!LockQueue, D!Block, DP!Block, D!Wake, DP!Wake,
     D!WaitTimesOut, DP!WaitTimesOut, D!Pop, DP!Pop, D!NothingToDo, DP!NothingToDo,
     D!Dispatch, DP!Dispatch
<1>3. D!Handlers <=> DP!Handlers
  BY DEF
     D!Handlers, DP!Handlers, D!BeginRecording, DP!BeginRecording, D!OpenMic,
     DP!OpenMic, D!BeginProcessing, DP!BeginProcessing, D!CloseMic, DP!CloseMic,
     D!TooShort, DP!TooShort, D!Transcribe, DP!Transcribe, D!Inject, DP!Inject,
     D!Finish, DP!Finish, D!CancelRecording, DP!CancelRecording, D!CancelDone,
     DP!CancelDone
<1>4. D!Reload \/ D!Cleanup <=> DP!Reload \/ DP!Cleanup
  BY DEF
     D!Reload, DP!Reload, D!Cleanup, DP!Cleanup, D!StopHotkey, DP!StopHotkey,
     D!StopSources, DP!StopSources, D!JoinSources, DP!JoinSources, D!StopAudio,
     DP!StopAudio, D!Release, DP!Release
<1>5. (\E e \in D!Events : D!HotkeyThread(e)) <=> \E e \in DP!Events : DP!HotkeyThread(e)
  BY DEF D!HotkeyThread, DP!HotkeyThread, D!OnHotkeyEvent, DP!OnHotkeyEvent
<1>6. D!Click \/ D!QueueClick \/ D!Quitting \/ D!Signal \/ D!Ended
      <=> DP!Click \/ DP!QueueClick \/ DP!Quitting \/ DP!Signal \/ DP!Ended
  BY DEF
     D!Click, DP!Click, D!QueueClick, DP!QueueClick, D!OnHotkeyEvent, DP!OnHotkeyEvent,
     D!Quitting, DP!Quitting, D!StoreShutdown, DP!StoreShutdown, D!FlagShutdown,
     DP!FlagShutdown, D!NotifyShutdown, DP!NotifyShutdown, D!Signal, DP!Signal,
     D!Ended, DP!Ended
<1>7. [D!Next]_(D!vars) <=> [DP!Next]_(DP!vars)
  BY <1>2, <1>3, <1>4, <1>5, <1>6 DEF D!Next, DP!Next, D!DaemonThread, DP!DaemonThread
<1> QED BY <1>1, <1>7, PTL DEF D!Spec, DP!Spec

(* ... and the manager one manager (hotkey_common.cpp).                     *)
LEMMA SameHotkeys == HK!Spec <=> HP!Spec
<1> USE DEF
      HK!ValidMods, HP!ValidMods, HK!Tokens, HP!Tokens, HK!Combo, HP!Combo, HK!Parse,
      HP!Parse, HK!Combos, HP!Combos, HK!trigger_combos_, HP!trigger_combos_,
      HK!cancel_combos_, HP!cancel_combos_, HK!matchState, HP!matchState, HK!vars,
      HP!vars
<1>1. HK!Init <=> HP!Init
  BY DEF HK!Init, HP!Init, HK!WellFormed, HP!WellFormed
<1>2. HK!Keyboard <=> HP!Keyboard
  BY DEF
     HK!Keyboard, HP!Keyboard, HK!PressModifier, HP!PressModifier, HK!ReleaseModifier,
     HP!ReleaseModifier, HK!PressKey, HP!PressKey, HK!ReleaseKey, HP!ReleaseKey,
     HK!OnModifierPress, HP!OnModifierPress, HK!OnModifierRelease,
     HP!OnModifierRelease, HK!OnKeyPress, HP!OnKeyPress, HK!OnKeyRelease,
     HP!OnKeyRelease, HK!CancelTrigger, HP!CancelTrigger, HK!Cancels, HP!Cancels,
     HK!ToggleOff, HP!ToggleOff, HK!CheckAnyTrigger, HP!CheckAnyTrigger,
     HK!CheckAnyCancel, HP!CheckAnyCancel, HK!CheckCombo, HP!CheckCombo,
     HK!TriggerMatches, HP!TriggerMatches, HK!IsModifierOnly, HP!IsModifierOnly,
     HK!Begin, HP!Begin, HK!ReleaseTrigger, HP!ReleaseTrigger, HK!Nothing, HP!Nothing,
     HK!Reported, HP!Reported
<1>3. [HK!Next]_(HK!vars) <=> [HP!Next]_(HP!vars)
  BY <1>2 DEF
     HK!Next, HP!Next, HK!SetConfig, HP!SetConfig, HK!DropMatchState,
     HP!DropMatchState, HK!ResetInputState, HP!ResetInputState, HK!Start, HP!Start,
     HK!Stop, HP!Stop
<1> QED BY <1>1, <1>3, PTL DEF HK!Spec, HP!Spec

(* What the daemon promises by itself it keeps when strokes on a keyboard   *)
(* feed it, however the configuration changes meanwhile: quiet when idle    *)
(* (handle_stop, handle_cancel), no open microphone that the tray does not  *)
(* show, no refused event, and the documented cycle.                        *)
THEOREM DaemonKeepsPromises ==
  Spec => /\ []DP!IdleIsQuiet /\ []DP!OpenMicIsShown /\ []DP!NothingRefused
          /\ DP!FollowsCycle
<1>1. DP!Spec => /\ []DP!IdleIsQuiet /\ []DP!OpenMicIsShown /\ []DP!NothingRefused
                 /\ DP!FollowsCycle
  BY QueueAssumption, DP!IdleQuiet, DP!MicShown, DP!NeverRefuses, DP!ImplementsCycle
<1> QED BY <1>1, ImplementsDaemon, SameDaemon

(* What the manager promises by itself it keeps when its callback has to    *)
(* wait for the queue and the daemon thread reconfigures it (set_config):   *)
(* it believes no modifier pressed that nobody holds, letting go ends the   *)
(* press, no press survives its configuration, and the events are those of  *)
(* a switch.                                                                *)
THEOREM HotkeysKeepPromises ==
  Spec => /\ []HP!CachedModifiersAreHeld /\ []HP!ChordHoldsTrigger
          /\ []HP!PressIsOfCurrentConfig /\ HP!IsSwitch
<1> USE DEF
      HK!ValidMods, HP!ValidMods, HK!Tokens, HP!Tokens, HK!Combo, HP!Combo,
      HK!HotkeyConfig, HP!HotkeyConfig
<1>1. HP!Spec => /\ []HP!CachedModifiersAreHeld /\ []HP!ChordHoldsTrigger
                 /\ []HP!PressIsOfCurrentConfig /\ HP!IsSwitch
  BY KeyboardAssumption, ConfigAssumption, NoComboAssumption,
     HP!CacheIsSound, HP!ChordIsHeld, HP!PressIsCurrent, HP!ImplementsSwitch
<1> QED BY <1>1, ImplementsHotkeys, SameHotkeys
=============================================================================
