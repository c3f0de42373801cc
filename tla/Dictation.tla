----------------------------- MODULE Dictation -----------------------------
(***************************************************************************)
(* A dictation as its user sees it: what reaches the focused window and    *)
(* the clipboard, and what is reported of it.                              *)
(*                                                                         *)
(* Window and clipboard are touched while the text is delivered and at no  *)
(* other time.  The text is typed or pasted, once; pasted only with all of *)
(* it on the clipboard, and after typing only if that slipped: it came to  *)
(* an end half-way.  Return follows the text.  The user's clipboard is     *)
(* spared unless a copy is wished for or typing has failed.  The report    *)
(* comes last, unless the program ends before it, and is true, but for one *)
(* thing: typing may miss without anybody knowing, and is then reported,   *)
(* and followed by Return, as if the text were there.                      *)
(***************************************************************************)
CONSTANT None  \* no report yet

VARIABLES
  phase,      \* "off", "ready", "recording", "thinking", "delivering", "told"
  wishes,     \* the user's configuration
  window,     \* "empty", "typed", "missed", "slipped" or "pasted"
  entered,    \* Return was pressed after the text
  clipboard,  \* "other" than the text, or "text"
  report      \* what became of it

vars == <<phase, wishes, window, entered, clipboard, report>>

Wishes == [method : {"inject", "clipboard"}, also_copy : BOOLEAN,
           auto_paste : BOOLEAN, return_key : BOOLEAN]

Nothing ==
  /\ window = "empty" /\ entered = FALSE /\ clipboard = "other"
  /\ report = [is |-> None, success |-> FALSE]

Init == phase = "off" /\ wishes \in Wishes /\ Nothing

-----------------------------------------------------------------------------
Goes(from, to) == phase = from /\ phase' = to
Untouched == UNCHANGED <<wishes, window, entered, clipboard, report>>

StartUp == Goes("off", "ready") /\ Untouched

(* What was delivered before is the user's own by now.                      *)
Record == Goes("ready", "recording") /\ UNCHANGED wishes /\ Nothing'

Cancel == Goes("recording", "ready") /\ Untouched

Stop == Goes("recording", "thinking") /\ Untouched

(* There is nothing to deliver, or an error before it could be, ...         *)
NothingHeard == (Goes("thinking", "ready") \/ Goes("thinking", "told")) /\ Untouched

(* ... or there is a text.                                                  *)
Deliver == Goes("thinking", "delivering") /\ Untouched

Rest == Goes("told", "ready") /\ Untouched

(* The program ends in mid-delivery, and its user starts it anew.           *)
Crash == Goes("delivering", "off") /\ UNCHANGED wishes /\ Nothing'

-----------------------------------------------------------------------------
(* What a report says of window and clipboard.  A text that was only copied *)
(* is a success if no more was wished for; a Return key that could not be   *)
(* pressed is not counted.                                                  *)
Reports ==
  \/ report = [is |-> "INJECTED", success |-> TRUE] /\ window \in {"typed", "missed"}
  \/ /\ report = [is |-> "CLIPBOARD_PASTED", success |-> TRUE]
     /\ window = "pasted" /\ clipboard = "text"
  \/ /\ report = [is |-> "CLIPBOARD_ONLY", success |-> ~wishes.auto_paste]
     /\ window \notin {"typed", "missed"} /\ clipboard = "text"
  \/ report = [is |-> "FAILED", success |-> FALSE] /\ window \in {"empty", "slipped"}

Tell == phase' = "told" /\ Reports'
NotYet == UNCHANGED <<phase, report>>

Type ==
  /\ wishes.method = "inject" /\ (clipboard = "other" \/ wishes.also_copy)
  /\ window = "empty" /\ window' \in {"typed", "missed"}
  /\ NotYet \/ Tell
  /\ UNCHANGED <<entered, clipboard>>

Slip ==
  /\ window = "typed" /\ ~entered /\ window' = "slipped"
  /\ NotYet \/ Tell
  /\ UNCHANGED <<entered, clipboard>>

Copy ==
  /\ window \in {"empty", "slipped"} /\ clipboard' = "text"
  /\ NotYet /\ UNCHANGED <<window, entered>>

Paste ==
  /\ wishes.auto_paste /\ clipboard = "text"
  /\ window \in {"empty", "slipped"} /\ window' = "pasted"
  /\ NotYet /\ UNCHANGED <<entered, clipboard>>

Return ==
  /\ wishes.return_key /\ window \in {"typed", "missed", "pasted"}
  /\ ~entered /\ entered' = TRUE
  /\ NotYet /\ UNCHANGED <<window, clipboard>>

TellOnly == Tell /\ UNCHANGED <<window, entered, clipboard>>

Delivering ==
  /\ phase = "delivering" /\ UNCHANGED wishes
  /\ Type \/ Slip \/ Copy \/ Paste \/ Return \/ TellOnly

Next ==
  StartUp \/ Record \/ Cancel \/ Stop \/ NothingHeard \/ Deliver \/ Delivering \/ Rest \/ Crash

Spec == Init /\ [][Next]_vars
=============================================================================
