--------------------------- MODULE HotkeyManager ---------------------------
(***************************************************************************)
(* The platform-independent half of HotkeyManager (hotkey_common.cpp): it  *)
(* turns the presses and releases the platform listener reports into the   *)
(* START, STOP and CANCEL events of the daemon.  Every handler runs under  *)
(* mutex_, so each is one action; PushToTalk.tla opens the lock.           *)
(*                                                                         *)
(* The keyboard itself is part of the model (variable held): the listener  *)
(* reports physical keys by name, and the left and the right key of a      *)
(* modifier carry the same name, so what the manager caches and what the   *)
(* user holds can differ.                                                  *)
(***************************************************************************)
EXTENDS Naturals, Sequences

CONSTANTS
  ModifierKeys,   \* the physical modifier keys of the keyboard
  ModifierName,   \* the name each of them is reported under
  Keys,           \* the names of the other keys
  Esc,            \* the key whose name is "esc"
  NoKey,          \* the empty key name of a modifier-only combo
  NoCombo,        \* std::nullopt of std::optional<KeyCombo>
  Configs         \* the HotkeyConfigs the user may run with or save

ValidMods == {ModifierName[k] : k \in ModifierKeys}

Tokens == ValidMods \cup Keys

(* A HotkeyConfig: trigger and cancel are sequences of combos, a combo the  *)
(* sequence of its "+"-separated tokens, aliases already normalised.        *)
HotkeyConfig ==
  [mode : {"push_to_talk", "toggle"}, trigger : Seq(Seq(Tokens)),
   cancel : Seq(Seq(Tokens)), escape_to_cancel : BOOLEAN]

ASSUME KeyboardAssumption ==
  /\ ModifierName \in [ModifierKeys -> ValidMods]
  /\ ModifierKeys \cap Keys = {}
  /\ ValidMods \cap Keys = {}
  /\ Esc \in Keys
  /\ NoKey \notin Tokens

ASSUME ConfigAssumption == Configs \subseteq HotkeyConfig

Combo == [modifiers : SUBSET ValidMods, key : Keys \cup {NoKey}]

ASSUME NoComboAssumption == NoCombo \notin Combo

IsModifierOnly(combo) == combo.key = NoKey

(* KeyCombo::parse over the tokens of one combo: NoCombo where it throws.   *)
Parse(tokens) ==
  LET n == Len(tokens)
  IN  IF n = 0 THEN NoCombo
      ELSE IF \A i \in 1..n : tokens[i] \in ValidMods
      THEN [modifiers |-> {tokens[i] : i \in 1..n}, key |-> NoKey]
      ELSE IF \A i \in 1..(n - 1) : tokens[i] \in ValidMods
      THEN [modifiers |-> {tokens[i] : i \in 1..(n - 1)}, key |-> tokens[n]]
      ELSE NoCombo

(* The combos in order, std::nullopt for those set_config() skips; the      *)
(* constructor accepts no configuration that has any of those.              *)
Combos(list) == [i \in 1..Len(list) |-> Parse(list[i])]

WellFormed(config) ==
  /\ \A i \in 1..Len(config.trigger) : Parse(config.trigger[i]) # NoCombo
  /\ \A i \in 1..Len(config.cancel) : Parse(config.cancel[i]) # NoCombo

-----------------------------------------------------------------------------
VARIABLES
  config_,            \* with it trigger_combos_ and cancel_combos_
  running_,           \* the listener is started
  pressed_modifiers_, \* names of the modifiers believed down
  trigger_pressed_,
  active_trigger_,
  sent,               \* what the last step passed to callback_, or "none"
  held                \* the keys physically down (the keyboard, not code)

matchState == <<pressed_modifiers_, trigger_pressed_, active_trigger_>>
vars == <<config_, running_, matchState, sent, held>>

Events == {"START", "STOP", "CANCEL"}

TypeOK ==
  /\ config_ \in Configs
  /\ running_ \in BOOLEAN
  /\ pressed_modifiers_ \in SUBSET ValidMods
  /\ trigger_pressed_ \in BOOLEAN
  /\ active_trigger_ \in Combo \cup {NoCombo}
  /\ sent \in Events \cup {"none"}
  /\ held \in SUBSET (ModifierKeys \cup Keys)

trigger_combos_ == Combos(config_.trigger)
cancel_combos_ == Combos(config_.cancel)

Init ==
  /\ config_ \in {c \in Configs : WellFormed(c)}
  /\ running_ = FALSE
  /\ pressed_modifiers_ = {}
  /\ trigger_pressed_ = FALSE
  /\ active_trigger_ = NoCombo
  /\ sent = "none"
  /\ held = {}

(* check_combo: the modifiers must be exactly those pressed.                *)
CheckCombo(combo, pressed, key) ==
  combo # NoCombo /\ combo.modifiers = pressed /\ combo.key = key

(* check_any_trigger: the first combo that matches; a modifier-only combo   *)
(* matches on the pressed modifiers alone, whatever the key.                *)
TriggerMatches(i, pressed, key) ==
  CheckCombo(trigger_combos_[i], pressed, key) \/ CheckCombo(trigger_combos_[i], pressed, NoKey)

CheckAnyTrigger(pressed, key) ==
  LET hits == {i \in 1..Len(trigger_combos_) : TriggerMatches(i, pressed, key)}
  IN  IF hits = {} THEN NoCombo
      ELSE trigger_combos_[CHOOSE i \in hits : \A j \in hits : i <= j]

CheckAnyCancel(pressed, key) ==
  \E i \in 1..Len(cancel_combos_) : CheckCombo(cancel_combos_[i], pressed, key)

-----------------------------------------------------------------------------
(* What a handler does to the trigger, with the event it sends.             *)

Begin(combo) ==
  /\ trigger_pressed_' = TRUE
  /\ active_trigger_' = combo
  /\ sent' = "START"

ReleaseTrigger ==
  /\ trigger_pressed_' = FALSE
  /\ active_trigger_' = NoCombo
  /\ sent' = "STOP"

Nothing ==
  /\ sent' = "none"
  /\ UNCHANGED <<trigger_pressed_, active_trigger_>>

(* set_config(), reset_input_state() and stop() drop all match state and    *)
(* send no event.                                                           *)
DropMatchState ==
  /\ pressed_modifiers_' = {}
  /\ trigger_pressed_' = FALSE
  /\ active_trigger_' = NoCombo
  /\ sent' = "none"

OnModifierPress(modifier) ==
  LET pressed == pressed_modifiers_ \cup {modifier}
      matched == CheckAnyTrigger(pressed, NoKey)
  IN  /\ pressed_modifiers_' = pressed
      /\ IF matched # NoCombo /\ ~trigger_pressed_ THEN Begin(matched) ELSE Nothing

(* Defective: the cached modifier is not erased when the trigger is let go. *)
KeepsModifierOnRelease(modifier) ==
  /\ UNCHANGED pressed_modifiers_
  /\ IF /\ active_trigger_ # NoCombo /\ IsModifierOnly(active_trigger_)
        /\ config_.mode = "push_to_talk" /\ trigger_pressed_
        /\ modifier \in active_trigger_.modifiers
     THEN ReleaseTrigger ELSE Nothing

(* Defective: the STOP is sent in toggle mode only.                         *)
MissesPushToTalk(modifier) ==
  /\ pressed_modifiers_' = pressed_modifiers_ \ {modifier}
  /\ IF /\ active_trigger_ # NoCombo /\ IsModifierOnly(active_trigger_)
        /\ config_.mode = "toggle" /\ trigger_pressed_
        /\ modifier \in active_trigger_.modifiers
     THEN ReleaseTrigger ELSE Nothing

OnModifierRelease(modifier) ==
  /\ pressed_modifiers_' = pressed_modifiers_ \ {modifier}
  /\ IF /\ active_trigger_ # NoCombo /\ IsModifierOnly(active_trigger_)
        /\ config_.mode = "push_to_talk" /\ trigger_pressed_
        /\ modifier \in active_trigger_.modifiers
     THEN ReleaseTrigger ELSE Nothing

Cancels(key) ==
  (config_.escape_to_cancel /\ key = Esc) \/ CheckAnyCancel(pressed_modifiers_, key)

(* Defective: the cancelled trigger stays pressed.                          *)
CancelKeepsTrigger ==
  /\ sent' = "CANCEL"
  /\ UNCHANGED <<trigger_pressed_, active_trigger_>>

(* A cancel leaves active_trigger_ alone.                                   *)
CancelTrigger ==
  /\ trigger_pressed_' = FALSE
  /\ sent' = "CANCEL"
  /\ UNCHANGED active_trigger_

(* A second press in toggle mode also leaves active_trigger_ alone.         *)
ToggleOff ==
  /\ trigger_pressed_' = FALSE
  /\ sent' = "STOP"
  /\ UNCHANGED active_trigger_

OnKeyPress(key) ==
  LET matched == CheckAnyTrigger(pressed_modifiers_, key)
      fires == matched # NoCombo /\ ~IsModifierOnly(matched)
  IN  /\ \/ Cancels(key) /\ CancelTrigger
         \/ ~Cancels(key) /\ fires /\ ~trigger_pressed_ /\ Begin(matched)
         \/ ~Cancels(key) /\ fires /\ trigger_pressed_ /\ config_.mode = "toggle" /\ ToggleOff
         \/ /\ ~Cancels(key)
            /\ ~fires \/ (trigger_pressed_ /\ config_.mode # "toggle")
            /\ Nothing
      /\ UNCHANGED pressed_modifiers_

(* Defective: the release is not tied to a trigger that is still pressed.   *)
StopsUnpressed(key) ==
  /\ IF /\ active_trigger_ # NoCombo /\ ~IsModifierOnly(active_trigger_)
        /\ config_.mode = "push_to_talk"
        /\ CheckCombo(active_trigger_, pressed_modifiers_, key)
     THEN ReleaseTrigger ELSE Nothing
  /\ UNCHANGED pressed_modifiers_

OnKeyRelease(key) ==
  /\ IF /\ active_trigger_ # NoCombo /\ ~IsModifierOnly(active_trigger_)
        /\ config_.mode = "push_to_talk" /\ trigger_pressed_
        /\ CheckCombo(active_trigger_, pressed_modifiers_, key)
     THEN ReleaseTrigger ELSE Nothing
  /\ UNCHANGED pressed_modifiers_

-----------------------------------------------------------------------------
(* The keyboard.  A press of a key already held is the auto-repeat of the   *)
(* keyboard driver; a handler returns at once when the manager is stopped.  *)

Reported(handler) ==
  /\ \/ running_ /\ handler
     \/ ~running_ /\ sent' = "none" /\ UNCHANGED matchState
  /\ UNCHANGED <<config_, running_>>

PressModifier(k) == held' = held \cup {k} /\ Reported(OnModifierPress(ModifierName[k]))

ReleaseModifier(k) ==
  /\ k \in held
  /\ held' = held \ {k}
  /\ Reported(OnModifierRelease(ModifierName[k]))

PressKey(k) == held' = held \cup {k} /\ Reported(OnKeyPress(k))

ReleaseKey(k) ==
  /\ k \in held
  /\ held' = held \ {k}
  /\ Reported(OnKeyRelease(k))

Keyboard ==
  \/ \E k \in ModifierKeys : PressModifier(k) \/ ReleaseModifier(k)
  \/ \E k \in Keys : PressKey(k) \/ ReleaseKey(k)

(* Defective: the combos are swapped and a press in progress is kept.       *)
SwapsConfigOnly(config) ==
  /\ config_' = config
  /\ sent' = "none"
  /\ UNCHANGED <<matchState, running_, held>>

(* Called by the daemon thread, also while keys are held.                   *)
SetConfig(config) ==
  /\ config_' = config
  /\ DropMatchState
  /\ UNCHANGED <<running_, held>>

(* The platform lost the event stream (macOS disables a slow tap): strokes  *)
(* went unseen, and the cache is dropped before the next one is reported.   *)
ResetInputState ==
  /\ running_
  /\ held' \in SUBSET (ModifierKeys \cup Keys)
  /\ DropMatchState
  /\ UNCHANGED <<config_, running_>>

Start ==
  /\ ~running_
  /\ running_' = TRUE
  /\ sent' = "none"
  /\ UNCHANGED <<config_, matchState, held>>

Stop ==
  /\ running_' = FALSE
  /\ DropMatchState
  /\ UNCHANGED <<config_, held>>

Next ==
  \/ Keyboard
  \/ \E config \in Configs : SetConfig(config)
  \/ ResetInputState
  \/ Start
  \/ Stop

Spec == Init /\ [][Next]_vars

-----------------------------------------------------------------------------
(* Properties.                                                              *)

HeldNames == {ModifierName[k] : k \in held \cap ModifierKeys}

(* The cached modifiers are down: a modifier the manager believes pressed   *)
(* is physically held on one side at least, across left/right pairs,        *)
(* auto-repeat, lost event streams and restarts of the listener.  The       *)
(* converse fails: letting go of one side forgets the other.                *)
CachedModifiersAreHeld == pressed_modifiers_ \subseteq HeldNames

(* A modifier-only push-to-talk trigger is pressed only while its whole     *)
(* chord is down, so with the keyboard at rest the trigger is not pressed   *)
(* and the STOP has been sent (on_modifier_release).                        *)
ChordHoldsTrigger ==
  (/\ trigger_pressed_
   /\ config_.mode = "push_to_talk"
   /\ IsModifierOnly(active_trigger_)) => active_trigger_.modifiers \subseteq HeldNames

(* The trigger in progress is one of the configured triggers: a             *)
(* configuration saved in the middle of a press leaves no old chord behind  *)
(* that only the old keys could release (set_config).                       *)
PressIsOfCurrentConfig ==
  trigger_pressed_ =>
    \E i \in 1..Len(trigger_combos_) :
      trigger_combos_[i] = active_trigger_ /\ active_trigger_ # NoCombo

(* The events are those of a switch: every STOP answers a START, with no    *)
(* CANCEL, reset, restart or configuration change between the two.          *)
Switch == INSTANCE Trigger WITH on <- trigger_pressed_, heard <- sent
IsSwitch == Switch!Spec
=============================================================================
