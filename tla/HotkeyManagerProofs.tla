------------------------- MODULE HotkeyManagerProofs -------------------------
(***************************************************************************)
(* The safety properties of HotkeyManager.tla, for every keyboard and      *)
(* every set of configurations.                                            *)
(*                                                                         *)
(* The invariant needs one strengthening: a stopped listener has no match  *)
(* state.  Without it a modifier released while the listener is stopped    *)
(* would stay cached, and so would the trigger it was part of.             *)
(***************************************************************************)
EXTENDS HotkeyManager, WellFoundedInduction, TLAPS

StoppedIsClear ==
  ~running_ => pressed_modifiers_ = {} /\ ~trigger_pressed_

IInv ==
  /\ TypeOK
  /\ StoppedIsClear
  /\ CachedModifiersAreHeld
  /\ ChordHoldsTrigger
  /\ PressIsOfCurrentConfig

-----------------------------------------------------------------------------
(* The operators of the module.                                             *)

(* A nonempty set of list positions has a first one.                        *)
LEMMA FirstHit ==
  ASSUME NEW S, S \subseteq Nat, S # {}
  PROVE  /\ (CHOOSE i \in S : \A j \in S : i <= j) \in S
         /\ \A j \in S : (CHOOSE i \in S : \A k \in S : i <= k) <= j
<1>1. PICK i \in S : \A j \in S : <<j, i>> \notin OpToRel(<, Nat)
  BY NatLessThanWellFounded, WFMin
<1>2. \A j \in S : i <= j
  <2>1. TAKE j \in S
  <2>2. <<j, i>> \in Nat \X Nat
    OBVIOUS
  <2>3. ~(j < i)
    BY <1>1, <2>2 DEF OpToRel
  <2> QED BY <2>3
<1> QED BY <1>2

(* KeyCombo::parse returns a combo or throws.                               *)
LEMMA ParseType ==
  ASSUME NEW tokens \in Seq(Tokens)
  PROVE  Parse(tokens) \in Combo \cup {NoCombo}
<1> DEFINE n == Len(tokens)
<1>1. n \in Nat /\ \A i \in 1..n : tokens[i] \in Tokens
  OBVIOUS
<1>2. CASE n = 0
  BY <1>2 DEF Parse
<1>3. CASE n # 0 /\ \A i \in 1..n : tokens[i] \in ValidMods
  <2>1. {tokens[i] : i \in 1..n} \in SUBSET ValidMods
    BY <1>3
  <2>2. Parse(tokens) = [modifiers |-> {tokens[i] : i \in 1..n}, key |-> NoKey]
    BY <1>3 DEF Parse
  <2> QED BY <2>1, <2>2 DEF Combo
<1>4. CASE /\ n # 0 /\ ~(\A i \in 1..n : tokens[i] \in ValidMods)
           /\ \A i \in 1..(n - 1) : tokens[i] \in ValidMods
  <2>1. tokens[n] \in Keys
    <3>1. n \in 1..n /\ tokens[n] \in Tokens
      BY <1>1, <1>4
    <3>2. tokens[n] \notin ValidMods
      BY <1>1, <1>4
    <3> QED BY <3>1, <3>2 DEF Tokens
  <2>2. {tokens[i] : i \in 1..(n - 1)} \in SUBSET ValidMods
    BY <1>4
  <2>3. Parse(tokens) = [modifiers |-> {tokens[i] : i \in 1..(n - 1)}, key |-> tokens[n]]
    BY <1>4 DEF Parse
  <2> QED BY <2>1, <2>2, <2>3 DEF Combo
<1>5. CASE /\ n # 0 /\ ~(\A i \in 1..n : tokens[i] \in ValidMods)
           /\ ~(\A i \in 1..(n - 1) : tokens[i] \in ValidMods)
  BY <1>5 DEF Parse
<1> QED BY <1>2, <1>3, <1>4, <1>5

(* trigger_combos_ has one entry a configured trigger.                      *)
LEMMA TriggerCombosType ==
  ASSUME config_ \in Configs
  PROVE  /\ Len(trigger_combos_) \in Nat
         /\ \A i \in 1..Len(trigger_combos_) : trigger_combos_[i] \in Combo \cup {NoCombo}
<1>1. config_.trigger \in Seq(Seq(Tokens))
  BY ConfigAssumption DEF HotkeyConfig
<1>2. /\ Len(trigger_combos_) = Len(config_.trigger)
      /\ Len(config_.trigger) \in Nat
      /\ \A i \in 1..Len(config_.trigger) : trigger_combos_[i] = Parse(config_.trigger[i])
  BY <1>1 DEF trigger_combos_, Combos
<1>3. \A i \in 1..Len(config_.trigger) : config_.trigger[i] \in Seq(Tokens)
  BY <1>1
<1> QED BY <1>2, <1>3, ParseType

(* What check_any_trigger() returns is a configured trigger whose modifiers *)
(* are exactly those pressed.                                               *)
LEMMA TriggerFound ==
  ASSUME config_ \in Configs, NEW pressed, NEW key, CheckAnyTrigger(pressed, key) # NoCombo
  PROVE  /\ CheckAnyTrigger(pressed, key) \in Combo
         /\ CheckAnyTrigger(pressed, key).modifiers = pressed
         /\ \E i \in 1..Len(trigger_combos_) : trigger_combos_[i] = CheckAnyTrigger(pressed, key)
<1> DEFINE hits == {i \in 1..Len(trigger_combos_) : TriggerMatches(i, pressed, key)}
           first == CHOOSE i \in hits : \A j \in hits : i <= j
<1>1. hits # {} /\ CheckAnyTrigger(pressed, key) = trigger_combos_[first]
  BY DEF CheckAnyTrigger
<1>2. Len(trigger_combos_) \in Nat
  BY TriggerCombosType
<1>3. first \in hits
  <2>1. hits \subseteq Nat
    BY <1>2
  <2> HIDE DEF hits
  <2> QED BY <1>1, <2>1, FirstHit
<1>4. first \in 1..Len(trigger_combos_) /\ TriggerMatches(first, pressed, key)
  BY <1>3
<1> HIDE DEF first
<1>5. trigger_combos_[first].modifiers = pressed
  BY <1>4 DEF TriggerMatches, CheckCombo
<1> QED BY <1>1, <1>4, <1>5, TriggerCombosType

-----------------------------------------------------------------------------
(* The handlers.  Each lemma starts from a running listener; what is held   *)
(* changes with the stroke.                                                 *)

(* Nothing, ReleaseTrigger, CancelTrigger and ToggleOff press no trigger.   *)
LEMMA PressSurvives ==
  ASSUME IInv, config_' = config_, running_' = running_,
         \/ trigger_pressed_' = FALSE /\ active_trigger_' \in {active_trigger_, NoCombo}
         \/ /\ UNCHANGED <<trigger_pressed_, active_trigger_>>
            /\ (/\ trigger_pressed_ /\ config_.mode = "push_to_talk"
                /\ IsModifierOnly(active_trigger_)) => active_trigger_.modifiers \subseteq HeldNames'
  PROVE  /\ trigger_pressed_' \in BOOLEAN
         /\ active_trigger_' \in Combo \cup {NoCombo}
         /\ ChordHoldsTrigger' /\ PressIsOfCurrentConfig'
<1>1. trigger_combos_' = trigger_combos_
  BY DEF trigger_combos_
<1>2. CASE trigger_pressed_' = FALSE /\ active_trigger_' \in {active_trigger_, NoCombo}
  BY <1>2 DEF IInv, TypeOK, ChordHoldsTrigger, PressIsOfCurrentConfig
<1>3. CASE /\ UNCHANGED <<trigger_pressed_, active_trigger_>>
           /\ (/\ trigger_pressed_ /\ config_.mode = "push_to_talk"
               /\ IsModifierOnly(active_trigger_)) => active_trigger_.modifiers \subseteq HeldNames'
  <2>1. TypeOK /\ PressIsOfCurrentConfig
    BY DEF IInv
  <2>2. ChordHoldsTrigger'
    BY <1>3 DEF ChordHoldsTrigger, IsModifierOnly
  <2>3. PressIsOfCurrentConfig'
    BY <1>1, <1>3, <2>1 DEF PressIsOfCurrentConfig
  <2> QED BY <1>3, <2>1, <2>2, <2>3 DEF TypeOK
<1> QED
  BY <1>2, <1>3

(* A press begins with a configured trigger whose modifiers are pressed.    *)
LEMMA PressBegins ==
  ASSUME IInv, config_' = config_, running_' = running_,
         NEW pressed, NEW key, pressed \subseteq HeldNames',
         CheckAnyTrigger(pressed, key) # NoCombo,
         Begin(CheckAnyTrigger(pressed, key))
  PROVE  /\ trigger_pressed_' \in BOOLEAN
         /\ active_trigger_' \in Combo \cup {NoCombo}
         /\ ChordHoldsTrigger' /\ PressIsOfCurrentConfig'
<1>1. trigger_combos_' = trigger_combos_
  BY DEF trigger_combos_
<1>2. /\ active_trigger_' \in Combo /\ active_trigger_' # NoCombo
      /\ active_trigger_'.modifiers = pressed
      /\ \E i \in 1..Len(trigger_combos_) : trigger_combos_[i] = active_trigger_'
  BY TriggerFound DEF Begin, IInv, TypeOK
<1> QED
  BY <1>1, <1>2 DEF Begin, ChordHoldsTrigger, PressIsOfCurrentConfig

(* Pressing more keys holds more names.                                     *)
LEMMA PressHolds ==
  ASSUME TypeOK, NEW k \in ModifierKeys \cup Keys, held' = held \cup {k}
  PROVE  /\ held' \in SUBSET (ModifierKeys \cup Keys)
         /\ HeldNames \subseteq HeldNames'
         /\ k \in ModifierKeys => ModifierName[k] \in HeldNames'
BY DEF TypeOK, HeldNames

(* Releasing a modifier lets go of one name at most, releasing another key  *)
(* of none.                                                                 *)
LEMMA ReleaseHolds ==
  ASSUME TypeOK, NEW k \in ModifierKeys \cup Keys, held' = held \ {k}
  PROVE  /\ held' \in SUBSET (ModifierKeys \cup Keys)
         /\ k \in ModifierKeys => HeldNames \ {ModifierName[k]} \subseteq HeldNames'
         /\ k \notin ModifierKeys => HeldNames = HeldNames'
BY DEF TypeOK, HeldNames

(* A listener that is stopped takes no notice.                              *)
LEMMA StoppedStroke ==
  ASSUME IInv, ~running_, sent' = "none", UNCHANGED <<config_, running_, matchState>>,
         held' \in SUBSET (ModifierKeys \cup Keys)
  PROVE  IInv'
<1>1. pressed_modifiers_' = {} /\ ~trigger_pressed_'
  BY DEF IInv, StoppedIsClear, matchState
<1>2. TypeOK'
  BY DEF IInv, TypeOK, matchState
<1> QED
  BY <1>1, <1>2 DEF IInv, StoppedIsClear, CachedModifiersAreHeld, ChordHoldsTrigger,
     PressIsOfCurrentConfig

(* on_modifier_press() preserves the invariant.                             *)
LEMMA PressModifierStep ==
  ASSUME IInv, NEW k \in ModifierKeys, PressModifier(k)
  PROVE  IInv'
<1> DEFINE modifier == ModifierName[k]
           pressed == pressed_modifiers_ \cup {modifier}
<1>1. modifier \in ValidMods
  BY DEF ValidMods
<1>2. /\ held' \in SUBSET (ModifierKeys \cup Keys)
      /\ HeldNames \subseteq HeldNames'
      /\ modifier \in HeldNames'
  BY PressHolds DEF IInv, PressModifier
<1>3. CASE ~running_
  BY <1>2, <1>3, StoppedStroke DEF PressModifier, Reported
<1>4. CASE running_ /\ OnModifierPress(modifier) /\ UNCHANGED <<config_, running_>>
  <2>1. pressed \subseteq HeldNames' /\ pressed \in SUBSET ValidMods
    BY <1>1, <1>2 DEF IInv, TypeOK, CachedModifiersAreHeld
  <2>2. CASE Begin(CheckAnyTrigger(pressed, NoKey)) /\ CheckAnyTrigger(pressed, NoKey) # NoCombo
    <3>1. /\ trigger_pressed_' \in BOOLEAN
          /\ active_trigger_' \in Combo \cup {NoCombo}
          /\ ChordHoldsTrigger' /\ PressIsOfCurrentConfig'
      BY <1>4, <2>1, <2>2, PressBegins
    <3> QED
      BY <1>2, <1>4, <2>1, <2>2, <3>1
      DEF OnModifierPress, Begin, IInv, TypeOK, StoppedIsClear, CachedModifiersAreHeld, Events
  <2>3. CASE Nothing
    <3>1. /\ trigger_pressed_' \in BOOLEAN
          /\ active_trigger_' \in Combo \cup {NoCombo}
          /\ ChordHoldsTrigger' /\ PressIsOfCurrentConfig'
      <4>1. (/\ trigger_pressed_ /\ config_.mode = "push_to_talk"
             /\ IsModifierOnly(active_trigger_)) => active_trigger_.modifiers \subseteq HeldNames'
        BY <1>2 DEF IInv, ChordHoldsTrigger
      <4> QED BY <1>4, <2>3, <4>1, PressSurvives DEF Nothing
    <3> QED
      BY <1>2, <1>4, <2>1, <2>3, <3>1
      DEF OnModifierPress, Nothing, IInv, TypeOK, StoppedIsClear, CachedModifiersAreHeld
  <2> QED BY <1>4, <2>2, <2>3 DEF OnModifierPress
<1> QED BY <1>3, <1>4 DEF PressModifier, Reported

(* on_modifier_release() preserves the invariant: the name that leaves the  *)
(* cache is the one that may no longer be held.                             *)
LEMMA ReleaseModifierStep ==
  ASSUME IInv, NEW k \in ModifierKeys, ReleaseModifier(k)
  PROVE  IInv'
<1> DEFINE modifier == ModifierName[k]
<1>1. /\ held' \in SUBSET (ModifierKeys \cup Keys)
      /\ HeldNames \ {modifier} \subseteq HeldNames'
  BY ReleaseHolds DEF IInv, ReleaseModifier
<1>2. CASE ~running_
  BY <1>1, <1>2, StoppedStroke DEF ReleaseModifier, Reported
<1>3. CASE running_ /\ OnModifierRelease(modifier) /\ UNCHANGED <<config_, running_>>
  <2>1. /\ pressed_modifiers_' = pressed_modifiers_ \ {modifier}
        /\ sent' \in {"none", "STOP"}
    BY <1>3 DEF OnModifierRelease, ReleaseTrigger, Nothing
  <2>2. /\ trigger_pressed_' \in BOOLEAN
        /\ active_trigger_' \in Combo \cup {NoCombo}
        /\ ChordHoldsTrigger' /\ PressIsOfCurrentConfig'
    <3>1. CASE ReleaseTrigger
      BY <1>3, <3>1, PressSurvives DEF ReleaseTrigger
    <3>2. CASE Nothing /\ ~(/\ active_trigger_ # NoCombo /\ IsModifierOnly(active_trigger_)
                            /\ config_.mode = "push_to_talk" /\ trigger_pressed_
                            /\ modifier \in active_trigger_.modifiers)
      <4>1. (/\ trigger_pressed_ /\ config_.mode = "push_to_talk"
             /\ IsModifierOnly(active_trigger_)) => active_trigger_.modifiers \subseteq HeldNames'
        <5>1. trigger_pressed_ => active_trigger_ # NoCombo
          BY DEF IInv, PressIsOfCurrentConfig
        <5> QED BY <1>1, <3>2, <5>1 DEF IInv, ChordHoldsTrigger
      <4> QED BY <1>3, <3>2, <4>1, PressSurvives DEF Nothing
    <3> QED BY <1>3, <3>1, <3>2 DEF OnModifierRelease
  <2> QED
    BY <1>1, <1>3, <2>1, <2>2
    DEF IInv, TypeOK, StoppedIsClear, CachedModifiersAreHeld, Events
<1> QED BY <1>2, <1>3 DEF ReleaseModifier, Reported

(* on_key_press() preserves the invariant, in its four outcomes.            *)
LEMMA PressKeyStep ==
  ASSUME IInv, NEW k \in Keys, PressKey(k)
  PROVE  IInv'
<1>1. held' \in SUBSET (ModifierKeys \cup Keys) /\ HeldNames \subseteq HeldNames'
  BY PressHolds DEF IInv, PressKey
<1>2. CASE ~running_
  BY <1>1, <1>2, StoppedStroke DEF PressKey, Reported
<1>3. CASE running_ /\ OnKeyPress(k) /\ UNCHANGED <<config_, running_>>
  <2>1. /\ pressed_modifiers_' = pressed_modifiers_
        /\ pressed_modifiers_ \subseteq HeldNames'
    BY <1>1, <1>3 DEF OnKeyPress, IInv, CachedModifiersAreHeld
  <2> DEFINE matched == CheckAnyTrigger(pressed_modifiers_, k)
  <2>2. /\ trigger_pressed_' \in BOOLEAN
        /\ active_trigger_' \in Combo \cup {NoCombo}
        /\ ChordHoldsTrigger' /\ PressIsOfCurrentConfig'
        /\ sent' \in Events \cup {"none"}
    <3>1. CASE CancelTrigger
      BY <1>3, <3>1, PressSurvives DEF CancelTrigger, Events
    <3>2. CASE ToggleOff
      BY <1>3, <3>2, PressSurvives DEF ToggleOff, Events
    <3>3. CASE Begin(matched) /\ matched # NoCombo
      BY <1>3, <2>1, <3>3, PressBegins DEF Begin, Events
    <3>4. CASE Nothing
      <4>1. (/\ trigger_pressed_ /\ config_.mode = "push_to_talk"
             /\ IsModifierOnly(active_trigger_)) => active_trigger_.modifiers \subseteq HeldNames'
        BY <1>1 DEF IInv, ChordHoldsTrigger
      <4> QED BY <1>3, <3>4, <4>1, PressSurvives DEF Nothing
    <3> QED BY <1>3, <3>1, <3>2, <3>3, <3>4 DEF OnKeyPress
  <2> QED
    BY <1>1, <1>3, <2>1, <2>2 DEF IInv, TypeOK, StoppedIsClear, CachedModifiersAreHeld
<1> QED BY <1>2, <1>3 DEF PressKey, Reported

(* on_key_release() preserves the invariant.                                *)
LEMMA ReleaseKeyStep ==
  ASSUME IInv, NEW k \in Keys, ReleaseKey(k)
  PROVE  IInv'
<1>1. held' \in SUBSET (ModifierKeys \cup Keys) /\ HeldNames = HeldNames'
  BY ReleaseHolds, KeyboardAssumption DEF IInv, ReleaseKey
<1>2. CASE ~running_
  BY <1>1, <1>2, StoppedStroke DEF ReleaseKey, Reported
<1>3. CASE running_ /\ OnKeyRelease(k) /\ UNCHANGED <<config_, running_>>
  <2>1. pressed_modifiers_' = pressed_modifiers_
    BY <1>3 DEF OnKeyRelease
  <2>2. /\ trigger_pressed_' \in BOOLEAN
        /\ active_trigger_' \in Combo \cup {NoCombo}
        /\ ChordHoldsTrigger' /\ PressIsOfCurrentConfig'
        /\ sent' \in Events \cup {"none"}
    <3>1. CASE ReleaseTrigger
      BY <1>3, <3>1, PressSurvives DEF ReleaseTrigger, Events
    <3>2. CASE Nothing
      <4>1. (/\ trigger_pressed_ /\ config_.mode = "push_to_talk"
             /\ IsModifierOnly(active_trigger_)) => active_trigger_.modifiers \subseteq HeldNames'
        BY <1>1 DEF IInv, ChordHoldsTrigger
      <4> QED BY <1>3, <3>2, <4>1, PressSurvives DEF Nothing
    <3> QED BY <1>3, <3>1, <3>2 DEF OnKeyRelease
  <2> QED
    BY <1>1, <1>3, <2>1, <2>2 DEF IInv, TypeOK, StoppedIsClear, CachedModifiersAreHeld
<1> QED BY <1>2, <1>3 DEF ReleaseKey, Reported

(* set_config(), reset_input_state() and stop() leave nothing to be wrong.  *)
LEMMA DropStep ==
  ASSUME IInv, DropMatchState, config_' \in Configs, running_' \in BOOLEAN,
         held' \in SUBSET (ModifierKeys \cup Keys)
  PROVE  IInv'
<1>1. /\ pressed_modifiers_' = {} /\ trigger_pressed_' = FALSE
      /\ active_trigger_' = NoCombo /\ sent' = "none"
  BY DEF DropMatchState
<1> QED
  BY <1>1 DEF IInv, TypeOK, StoppedIsClear, CachedModifiersAreHeld, ChordHoldsTrigger,
     PressIsOfCurrentConfig

(* A step that leaves the match state and the keyboard alone.               *)
LEMMA QuietStep ==
  ASSUME IInv, UNCHANGED <<config_, matchState, held>>, running_' \in {running_, TRUE},
         sent' \in {sent, "none"}
  PROVE  IInv'
<1>1. UNCHANGED <<pressed_modifiers_, trigger_pressed_, active_trigger_>>
  BY DEF matchState
<1>2. TypeOK' /\ StoppedIsClear'
  BY <1>1 DEF IInv, TypeOK, StoppedIsClear
<1>3. HeldNames' = HeldNames /\ trigger_combos_' = trigger_combos_
  BY DEF HeldNames, trigger_combos_
<1>4. CachedModifiersAreHeld' /\ ChordHoldsTrigger' /\ PressIsOfCurrentConfig'
  BY <1>1, <1>3
  DEF IInv, CachedModifiersAreHeld, ChordHoldsTrigger, PressIsOfCurrentConfig, IsModifierOnly
<1> QED BY <1>2, <1>4 DEF IInv

-----------------------------------------------------------------------------
(* A manager that was just constructed satisfies the invariant.             *)
LEMMA Initial == Init => IInv
BY DEF Init, IInv, TypeOK, StoppedIsClear, CachedModifiersAreHeld, ChordHoldsTrigger,
   PressIsOfCurrentConfig

(* The invariant is inductive: one lemma for each handler.                  *)
LEMMA Inductive == IInv /\ [Next]_vars => IInv'
<1> SUFFICES ASSUME IInv, [Next]_vars PROVE IInv'
  OBVIOUS
<1>1. CASE Keyboard
  BY <1>1, PressModifierStep, ReleaseModifierStep, PressKeyStep, ReleaseKeyStep DEF Keyboard
<1>2. CASE \E config \in Configs : SetConfig(config)
  BY <1>2, DropStep DEF SetConfig, IInv, TypeOK
<1>3. CASE ResetInputState
  BY <1>3, DropStep DEF ResetInputState, IInv, TypeOK
<1>4. CASE Start
  BY <1>4, QuietStep DEF Start
<1>5. CASE Stop
  BY <1>5, DropStep DEF Stop, IInv, TypeOK
<1>6. CASE UNCHANGED vars
  BY <1>6, QuietStep DEF vars
<1> QED BY <1>1, <1>2, <1>3, <1>4, <1>5, <1>6 DEF Next

(* The strengthening holds in every reachable state, for every keyboard and *)
(* every set of configurations.                                             *)
THEOREM Invariance == Spec => []IInv
BY Initial, Inductive, PTL DEF Spec

(* The match state of the manager stays well-formed.                        *)
THEOREM TypeCorrect == Spec => []TypeOK
<1>1. IInv => TypeOK
  BY DEF IInv
<1> QED BY Invariance, <1>1, PTL

(* No modifier is believed pressed that nobody holds: on_modifier_press(),  *)
(* on_modifier_release() and the three resets, for every keyboard in which  *)
(* several keys share a name.                                               *)
THEOREM CacheIsSound == Spec => []CachedModifiersAreHeld
<1>1. IInv => CachedModifiersAreHeld
  BY DEF IInv
<1> QED BY Invariance, <1>1, PTL

(* Letting go of any key of a modifier-only push-to-talk chord ends the     *)
(* press (on_modifier_release).                                             *)
THEOREM ChordIsHeld == Spec => []ChordHoldsTrigger
<1>1. IInv => ChordHoldsTrigger
  BY DEF IInv
<1> QED BY Invariance, <1>1, PTL

(* No press survives the configuration it belongs to (set_config).          *)
THEOREM PressIsCurrent == Spec => []PressIsOfCurrentConfig
<1>1. IInv => PressIsOfCurrentConfig
  BY DEF IInv
<1> QED BY Invariance, <1>1, PTL

-----------------------------------------------------------------------------
(* The manager implements the switch of Trigger.tla.                        *)

(* Every stroke moves the switch as Trigger allows: no STOP without a       *)
(* press, no second START during one.                                       *)
LEMMA StrokeIsSwitch ==
  ASSUME IInv, Keyboard
  PROVE  Switch!Next
<1> USE DEF Switch!Next, Switch!Start, Switch!Stop, Switch!Cancel, Switch!Silent
<1>1. CASE sent' = "none" /\ UNCHANGED trigger_pressed_
  BY <1>1
<1>2. CASE trigger_pressed_ /\ trigger_pressed_' = FALSE /\ sent' = "STOP"
  BY <1>2
<1>3. CASE ~trigger_pressed_ /\ trigger_pressed_' = TRUE /\ sent' = "START"
  BY <1>3
<1>4. CASE trigger_pressed_' = FALSE /\ sent' = "CANCEL"
  BY <1>4
<1>5. ASSUME NEW k \in ModifierKeys, PressModifier(k)
      PROVE  \/ sent' = "none" /\ UNCHANGED trigger_pressed_
             \/ ~trigger_pressed_ /\ trigger_pressed_' = TRUE /\ sent' = "START"
  BY <1>5 DEF PressModifier, Reported, OnModifierPress, Begin, Nothing, matchState
<1>6. ASSUME NEW k \in ModifierKeys, ReleaseModifier(k)
      PROVE  \/ sent' = "none" /\ UNCHANGED trigger_pressed_
             \/ trigger_pressed_ /\ trigger_pressed_' = FALSE /\ sent' = "STOP"
  BY <1>6 DEF ReleaseModifier, Reported, OnModifierRelease, ReleaseTrigger, Nothing, matchState
<1>7. ASSUME NEW k \in Keys, PressKey(k)
      PROVE  \/ sent' = "none" /\ UNCHANGED trigger_pressed_
             \/ ~trigger_pressed_ /\ trigger_pressed_' = TRUE /\ sent' = "START"
             \/ trigger_pressed_ /\ trigger_pressed_' = FALSE /\ sent' = "STOP"
             \/ trigger_pressed_' = FALSE /\ sent' = "CANCEL"
  BY <1>7
  DEF PressKey, Reported, OnKeyPress, Begin, CancelTrigger, ToggleOff, Nothing, matchState
<1>8. ASSUME NEW k \in Keys, ReleaseKey(k)
      PROVE  \/ sent' = "none" /\ UNCHANGED trigger_pressed_
             \/ trigger_pressed_ /\ trigger_pressed_' = FALSE /\ sent' = "STOP"
  BY <1>8 DEF ReleaseKey, Reported, OnKeyRelease, ReleaseTrigger, Nothing, matchState
<1> QED BY <1>1, <1>2, <1>3, <1>4, <1>5, <1>6, <1>7, <1>8 DEF Keyboard

(* START, STOP and CANCEL reach the daemon in the order of a switch.        *)
THEOREM ImplementsSwitch == Spec => IsSwitch
<1>1. Init => Switch!Init
  BY DEF Init, Switch!Init
<1>2. IInv /\ [Next]_vars => [Switch!Next]_<<trigger_pressed_, sent>>
  <2> SUFFICES ASSUME IInv, [Next]_vars PROVE [Switch!Next]_<<trigger_pressed_, sent>>
    OBVIOUS
  <2>1. CASE Keyboard
    BY <2>1, StrokeIsSwitch
  <2>2. CASE DropMatchState
    BY <2>2 DEF DropMatchState, Switch!Next, Switch!Silent
  <2>3. CASE Start
    BY <2>3 DEF Start, matchState, Switch!Next, Switch!Silent
  <2>4. CASE UNCHANGED vars
    BY <2>4 DEF vars, matchState
  <2> QED BY <2>1, <2>2, <2>3, <2>4 DEF Next, SetConfig, ResetInputState, Stop
<1> QED BY <1>1, <1>2, Invariance, PTL DEF Spec, IsSwitch, Switch!Spec
=============================================================================
