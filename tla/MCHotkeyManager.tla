-------------------------- MODULE MCHotkeyManager --------------------------
(***************************************************************************)
(* The keyboards and the configurations of the HotkeyManager runs.         *)
(***************************************************************************)
EXTENDS HotkeyManager

MCModifierName == [k \in {"Shift_L", "Shift_R", "Super_L"} |->
                     IF k = "Super_L" THEN "super" ELSE "shift"]

(* config.toml as shipped: a modifier-only push-to-talk chord.              *)
Shipped ==
  [mode |-> "push_to_talk", trigger |-> << <<"shift", "super">> >>,
   cancel |-> << <<"esc">> >>, escape_to_cancel |-> TRUE]

(* A chord with a key, as the Windows default (ctrl+alt+space).             *)
KeyChord ==
  [mode |-> "push_to_talk", trigger |-> << <<"super", "space">> >>,
   cancel |-> << <<"shift", "esc">> >>, escape_to_cancel |-> FALSE]

(* Two triggers in toggle mode.                                             *)
Toggle ==
  [mode |-> "toggle", trigger |-> << <<"shift", "super">>, <<"shift", "space">> >>,
   cancel |-> << <<"esc">> >>, escape_to_cancel |-> TRUE]

(* What a hand-edited config.toml may hold: only the last combo parses.     *)
Misspelt ==
  [mode |-> "push_to_talk",
   trigger |-> << <<"space", "shift">>, << >>, <<"super">> >>,
   cancel |-> << <<"esc", "space">> >>, escape_to_cancel |-> FALSE]

MCConfigs == {Shipped, KeyChord, Toggle, Misspelt}
=============================================================================
