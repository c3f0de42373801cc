----------------------------- MODULE PushToTalk -----------------------------
(***************************************************************************)
(* From the keyboard to the recording: HotkeyManager and Daemon composed   *)
(* along the callback HotkeyManager is constructed with (daemon.cpp), and  *)
(* along set_config(), which the daemon thread calls on a live listener.   *)
(*                                                                         *)
(* Two locks are involved.  A handler of HotkeyManager holds mutex_ while  *)
(* its callback takes queue_mutex_, so a stroke that sends an event takes  *)
(* two steps here: the handler, then on_hotkey_event().  Shutdown is left  *)
(* to Daemon.tla.                                                          *)
(***************************************************************************)
EXTENDS Naturals, Sequences

CONSTANTS ModifierKeys, ModifierName, Keys, Esc, NoKey, NoCombo, Configs, QueueCapacity

ASSUME QueueAssumption == QueueCapacity \in Nat \ {0}

VARIABLES
  config_, running_, pressed_modifiers_, trigger_pressed_, active_trigger_, sent, held

VARIABLES
  state_, event_queue_, queue_mutex_, shutdown_requested_, notified, pc, event,
  tray, avatar, mic, apps, listening, quit, click, pid_file

VARIABLES
  calling,    \* a handler of the listener holds mutex_ and is about to queue its event
  disturbed   \* history: since the last rest, something broke the pairing of trigger and recording

HK == INSTANCE HotkeyManager
D == INSTANCE Daemon

(* The assumptions of HotkeyManager on keyboard and configurations.         *)
ASSUME KeyboardAssumption ==
  /\ ModifierName \in [ModifierKeys -> HK!ValidMods]
  /\ ModifierKeys \cap Keys = {}
  /\ HK!ValidMods \cap Keys = {}
  /\ Esc \in Keys
  /\ NoKey \notin HK!Tokens

ASSUME ConfigAssumption == Configs \subseteq HK!HotkeyConfig

ASSUME NoComboAssumption == NoCombo \notin HK!Combo

hotkeyVars ==
  <<config_, running_, pressed_modifiers_, trigger_pressed_, active_trigger_, sent, held>>
daemonVars ==
  <<state_, event_queue_, queue_mutex_, shutdown_requested_, notified, pc, event,
    tray, avatar, mic, apps, listening, quit, click, pid_file>>
vars == <<hotkeyVars, daemonVars, calling, disturbed>>

TypeOK == HK!TypeOK /\ D!TypeOK /\ calling \in BOOLEAN /\ disturbed \in BOOLEAN

Init == HK!Init /\ D!Init /\ calling = FALSE /\ disturbed = FALSE

(* All events handled, no handler under way.                                *)
Quiet == D!AtRest /\ event_queue_ = << >> /\ ~calling /\ click = "none"

InStep == state_ = "RECORDING" <=> trigger_pressed_

(* disturbed is forgotten once both sides are back at rest together.        *)
Disturb(cause) == disturbed' = ((disturbed \/ cause) /\ ~(Quiet' /\ InStep'))

-----------------------------------------------------------------------------
(* A stroke the listener reports; a handler needs mutex_.                   *)
Stroke ==
  /\ ~calling
  /\ HK!Keyboard
  /\ calling' = (sent' # "none")
  /\ UNCHANGED daemonVars
  /\ Disturb(FALSE)

(* The callback, still under mutex_; a full queue drops the event.          *)
Deliver ==
  /\ calling
  /\ D!HotkeyThread(sent)
  /\ calling' = FALSE
  /\ UNCHANGED hotkeyVars
  /\ Disturb(Len(event_queue_) >= QueueCapacity)

(* The event stream of the platform was interrupted.                        *)
Resync ==
  /\ ~calling
  /\ HK!ResetInputState
  /\ UNCHANGED <<daemonVars, calling>>
  /\ Disturb(trigger_pressed_)

(* maybe_reload_config() finds other hotkeys in config.toml; set_config()   *)
(* waits for mutex_.                                                        *)
Reconfigure ==
  /\ ~calling
  /\ D!Reload
  /\ \E config \in Configs \ {config_} : HK!SetConfig(config)
  /\ UNCHANGED calling
  /\ Disturb(trigger_pressed_)

StartListening ==
  /\ D!Run /\ HK!Start
  /\ UNCHANGED calling
  /\ Disturb(FALSE)

(* A click on the companion records without the trigger.                    *)
Clicked ==
  /\ D!Click \/ D!QueueClick
  /\ UNCHANGED <<hotkeyVars, calling>>
  /\ Disturb(TRUE)

DaemonStep ==
  /\ D!MainLoop \/ D!Reload \/ D!Handlers
  /\ pc # "run"
  /\ UNCHANGED <<hotkeyVars, calling>>
  /\ Disturb(FALSE)

Failed == pc = "failed" /\ UNCHANGED vars

Next ==
  \/ Stroke \/ Deliver \/ Resync \/ Reconfigure
  \/ StartListening \/ Clicked \/ DaemonStep \/ Failed

Spec == Init /\ [][Next]_vars

-----------------------------------------------------------------------------
(* Properties.                                                              *)

(* Once every event is handled, the daemon records exactly while the        *)
(* trigger is pressed, whatever was struck while it processed: the only     *)
(* ways to part the two are an event dropped by a full queue, a             *)
(* configuration saved or an event stream interrupted in the middle of a    *)
(* press, and a click on the companion.                                     *)
RecordsWhilePressed == (Quiet /\ ~disturbed) => InStep

(* "Lock order is always this mutex before the daemon's event-queue mutex"  *)
(* (hotkey.h): while a handler holds mutex_ and waits for queue_mutex_, the *)
(* daemon thread does not hold queue_mutex_ and wait for mutex_.            *)
LockOrder == ~(calling /\ queue_mutex_ /\ pc = "reload")
=============================================================================
