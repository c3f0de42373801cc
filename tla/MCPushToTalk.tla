---------------------------- MODULE MCPushToTalk ----------------------------
(***************************************************************************)
(* A keyboard with one key a modifier, and the configurations of the       *)
(* PushToTalk runs.                                                        *)
(***************************************************************************)
EXTENDS PushToTalk

MCModifierName == [k \in {"Super_L"} |-> "super"]

Chord ==
  [mode |-> "push_to_talk", trigger |-> << <<"super">> >>,
   cancel |-> << <<"esc">> >>, escape_to_cancel |-> TRUE]

Toggle ==
  [mode |-> "toggle", trigger |-> << <<"super", "esc">> >>,
   cancel |-> << <<"esc">> >>, escape_to_cancel |-> FALSE]

MCConfigs == {Chord, Toggle}
=============================================================================
