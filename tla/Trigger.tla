------------------------------ MODULE Trigger ------------------------------
(***************************************************************************)
(* What the daemon may rely on from the hotkey subsystem, whatever keys    *)
(* the user strikes and however the configuration changes: the events it   *)
(* hears are those of a two-position switch.  START closes the switch,     *)
(* STOP opens it, CANCEL opens it whatever its position, and a reset opens *)
(* it in silence.  In particular there is never a STOP that does not       *)
(* answer a START, and never two STARTs without a STOP, a CANCEL or a      *)
(* reset between them.                                                     *)
(***************************************************************************)
VARIABLES
  on,     \* the switch is closed
  heard   \* the event of the last step, "none" when it raised none

Init == on = FALSE /\ heard = "none"

Start == ~on /\ on' = TRUE /\ heard' = "START"

Stop == on /\ on' = FALSE /\ heard' = "STOP"

Cancel == on' = FALSE /\ heard' = "CANCEL"

Silent == heard' = "none" /\ on' \in {on, FALSE}

Next == Start \/ Stop \/ Cancel \/ Silent

Spec == Init /\ [][Next]_<<on, heard>>
=============================================================================
