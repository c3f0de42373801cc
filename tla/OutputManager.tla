--------------------------- MODULE OutputManager ---------------------------
(***************************************************************************)
(* The way of a transcript to the focused window (output_common.cpp and    *)
(* output_x11.cpp): typed by XTest or by xdotool, or put on the clipboard  *)
(* by xclip or xsel and pasted by xdotool.  Every tool is a child of       *)
(* Subprocess.tla and may fail, hang or be killed half-way.                *)
(***************************************************************************)
EXTENDS Subprocess, Sequences

CONSTANT None  \* no outcome yet

VARIABLES
  config,     \* the OutputConfig, less paste_delay, lowercase and "newline"
  available,  \* the tools initialize() has found
  pc,         \* where initialize() or inject() is
  outcome,    \* last_outcome_ and what inject() returned
  window,     \* what was typed or pressed in the focused window, in order
  clipboard,  \* "other", "text", or "part" of the text
  mistyped    \* history: xdotool typed something and failed, or was killed

outputVars == <<config, available, pc, outcome, window, clipboard, mistyped>>

Tools == {"xdotool", "xclip", "xsel"}
OutputConfig == [method : {"inject", "clipboard"}, also_copy : BOOLEAN,
                 auto_paste : BOOLEAN, return_key : BOOLEAN]
Copying == {"copy_xclip", "copy_xsel", "first_xclip", "first_xsel"}
Pressing == {"type", "paste", "return_typed", "return_pasted"}
Finding == {"which_xdotool", "which_xclip", "which_xsel"}
NoOutcome == [is |-> None, success |-> FALSE]

(* What XTest makes of a text: all of it, some of its characters, or none.  *)
Blind == {"text", "gaps", "nothing"}

OutputTypeOK ==
  /\ SubprocessTypeOK
  /\ config \in OutputConfig /\ available \in SUBSET Tools
  /\ pc \in Copying \cup Pressing \cup Finding \cup {"initialize", "idle", "xtest", "done"}
  /\ outcome \in [is : {None, "INJECTED", "CLIPBOARD_PASTED", "CLIPBOARD_ONLY", "FAILED"},
                  success : BOOLEAN]
  /\ window \in Seq(Blind \cup {"part", "paste", "enter"}) /\ Len(window) <= 3
  /\ clipboard \in {"other", "text", "part"}
  /\ mistyped \in BOOLEAN

OutputInit ==
  /\ SubprocessInit
  /\ config \in OutputConfig
  /\ config.method = "clipboard" => ~config.also_copy  \* which only "inject" reads
  /\ available = {} /\ pc = "initialize"
  /\ outcome = NoOutcome /\ window = <<>> /\ clipboard = "other" /\ mistyped = FALSE

-----------------------------------------------------------------------------
(* How it goes on: the next call, or the end of the delivery.               *)

Run(command) ==
  /\ pc' = command
  /\ LET fn == IF command \in Copying THEN "with_input" ELSE "run_command"
     IN  Spawn(fn) \/ SpawnFails(fn)
  /\ UNCHANGED outcome

Goto(place) ==
  /\ pc' = place
  /\ call' = NoCall
  /\ UNCHANGED <<child, status, stdin, output, late>>

End(is, success) == outcome' = [is |-> is, success |-> success] /\ Goto("done")

CanCopy == available \cap {"xclip", "xsel"} # {}

DeliverClipboard ==
  IF ~CanCopy THEN End("FAILED", FALSE)
  ELSE Run(IF "xclip" \in available THEN "copy_xclip" ELSE "copy_xsel")

(* The transcript is in the window; Return follows if it is wanted, and its *)
(* failure changes nothing.                                                 *)
DeliverInjected ==
  IF config.return_key /\ "xdotool" \in available THEN Run("return_typed")
  ELSE End("INJECTED", TRUE)

DeliverPasted ==
  IF config.return_key THEN Run("return_pasted") ELSE End("CLIPBOARD_PASTED", TRUE)

(* Auto-paste, if it is wanted and possible.                                *)
Copied ==
  IF ~config.auto_paste THEN End("CLIPBOARD_ONLY", TRUE)
  ELSE IF "xdotool" \in available THEN Run("paste")
  ELSE End("CLIPBOARD_ONLY", FALSE)

Returned(command) == call.step = "returned" /\ pc = command
Here == UNCHANGED <<config, window, clipboard>>

-----------------------------------------------------------------------------
(* initialize(): command_exists() for each tool.                            *)
Initialize ==
  /\ pc = "initialize" /\ Run("which_xdotool")
  /\ Here /\ UNCHANGED <<available, mistyped>>

Found(tool, next) ==
  /\ available' = available \cup (IF call.code = 0 THEN {tool} ELSE {})
  /\ IF next = "idle" THEN Goto(next) /\ UNCHANGED outcome ELSE Run(next)
  /\ Here /\ UNCHANGED mistyped

FindTools ==
  \/ Returned("which_xdotool") /\ Found("xdotool", "which_xclip")
  \/ Returned("which_xclip") /\ Found("xclip", "which_xsel")
  \/ Returned("which_xsel") /\ Found("xsel", "idle")

(* inject(): X11 can always post events, or thinks so.                      *)
Inject ==
  /\ pc = "idle"
  /\ IF config.method = "clipboard" THEN DeliverClipboard
     ELSE IF config.also_copy /\ CanCopy
     THEN Run(IF "xclip" \in available THEN "first_xclip" ELSE "first_xsel")
     ELSE Goto("xtest") /\ UNCHANGED outcome
  /\ Here /\ UNCHANGED <<available, mistyped>>

(* copy_to_clipboard(): xsel is tried when xclip fails.  The first copy is  *)
(* a courtesy, whose outcome nobody reads.                                  *)
CopyReturns ==
  /\ call.step = "returned" /\ pc \in Copying
  /\ LET first == pc \in {"first_xclip", "first_xsel"}
         again == call.code # 0 /\ pc \in {"first_xclip", "copy_xclip"} /\ "xsel" \in available
     IN  IF again THEN Run(IF first THEN "first_xsel" ELSE "copy_xsel")
         ELSE IF first THEN Goto("xtest") /\ UNCHANGED outcome
         ELSE IF call.code = 0 THEN Copied
         ELSE End("FAILED", FALSE)
  /\ Here /\ UNCHANGED <<available, mistyped>>

(* inject_xtest(): characters without a key are passed over in silence, be  *)
(* it all of them, and nobody reads what becomes of the keys.  Without a    *)
(* display or a focused window there is no attempt, and xdotool is tried.   *)
XTest ==
  /\ pc = "xtest"
  /\ \/ /\ \E typed \in Blind : window' = Append(window, typed)
        /\ DeliverInjected
     \/ /\ IF "xdotool" \in available THEN Run("type") ELSE DeliverClipboard
        /\ UNCHANGED window
  /\ UNCHANGED <<config, available, clipboard, mistyped>>

TypeReturns ==
  /\ Returned("type")
  /\ IF call.code = 0 THEN DeliverInjected ELSE DeliverClipboard
  /\ mistyped' = (call.code # 0 /\ window # <<>>)
  /\ Here /\ UNCHANGED available

PasteReturns ==
  /\ Returned("paste")
  /\ IF call.code = 0 THEN DeliverPasted ELSE End("CLIPBOARD_ONLY", FALSE)
  /\ Here /\ UNCHANGED <<available, mistyped>>

(* Defective: a Return key that fails makes the injection one that failed.  *)
ReturnCounts ==
  /\ \/ /\ Returned("return_typed")
        /\ IF call.code = 0 THEN End("INJECTED", TRUE) ELSE DeliverClipboard
     \/ Returned("return_pasted") /\ End("CLIPBOARD_PASTED", TRUE)
  /\ Here /\ UNCHANGED <<available, mistyped>>

ReturnReturns ==
  /\ \/ Returned("return_typed") /\ End("INJECTED", TRUE)
     \/ Returned("return_pasted") /\ End("CLIPBOARD_PASTED", TRUE)
  /\ Here /\ UNCHANGED <<available, mistyped>>

Injecting ==
  \/ Inject \/ CopyReturns \/ XTest \/ TypeReturns \/ PasteReturns \/ ReturnReturns

-----------------------------------------------------------------------------
(* The tools.                                                               *)

Program == UNCHANGED <<config, available, pc, outcome, mistyped>>
OwnPipes == UNCHANGED <<call, status, stdin, output, late>>

(* which: the tool is there.                                                *)
Finds ==
  /\ pc \in Finding /\ FinishWork /\ OwnPipes
  /\ Program /\ UNCHANGED <<window, clipboard>>

(* xclip and xsel take the selection once their input has ended.            *)
Owns ==
  /\ pc \in Copying /\ AtEndOfInput /\ FinishWork /\ OwnPipes
  /\ clipboard' = IF stdin.read = Size THEN "text" ELSE "part"
  /\ Program /\ UNCHANGED window

(* xdotool types one key after the other ...                                *)
TypesPart ==
  /\ pc = "type" /\ child = "running" /\ window = <<>> /\ window' = <<"part">>
  /\ UNCHANGED child /\ OwnPipes
  /\ Program /\ UNCHANGED clipboard

(* ... or presses the keys of a paste or of Return.                         *)
Presses ==
  /\ pc \in Pressing /\ FinishWork /\ OwnPipes
  /\ window' = CASE pc = "type"  -> <<"text">>
                 [] pc = "paste" -> Append(window, "paste")
                 [] OTHER        -> Append(window, "enter")
  /\ Program /\ UNCHANGED clipboard

Tool ==
  \/ Finds \/ Owns \/ Presses \/ TypesPart
  \/ /\ \/ ReadInput
        \/ \E leavesHolder \in BOOLEAN : Exit(leavesHolder)
     /\ Program /\ UNCHANGED <<window, clipboard>>

Hangs == Hang /\ Program /\ UNCHANGED <<window, clipboard>>

Calls == Caller /\ UNCHANGED outputVars
TimePasses == Deadline /\ UNCHANGED outputVars

-----------------------------------------------------------------------------
(* last_outcome_ and the result tell what happened: injected means that     *)
(* xdotool typed the whole text or XTest sent the keys there are for it,    *)
(* and nothing failed half-way; pasted that the keys were pressed with the  *)
(* text on the clipboard, and clipboard-only that it is there to be pasted. *)
(* The clipboard never holds a part of the text: a tool is killed before    *)
(* its input is closed, for at the end of its input it would take the       *)
(* selection with what it has.  (That XTest's keys exist and arrive is not  *)
(* said: of a text it injected, characters may be missing, or all of them.) *)
Reached(what) == \E i \in 1..Len(window) : window[i] = what
OutcomeTrue ==
  /\ clipboard # "part"
  /\ pc = "done" =>
       /\ outcome.is = "INJECTED" => ~Reached("part") /\ \E typed \in Blind : Reached(typed)
       /\ outcome.is = "CLIPBOARD_PASTED" => Reached("paste")
       /\ outcome.is \in {"CLIPBOARD_PASTED", "CLIPBOARD_ONLY"} => clipboard = "text"
       /\ outcome.is = "FAILED" => ~Reached("paste") /\ ~outcome.success

(* A transcript is typed or pasted once.  The exception is the fallback     *)
(* after xdotool has typed something and failed or met its deadline: what   *)
(* it typed stays, and the whole text is pasted.  Return is the last key,   *)
(* after a paste or after all that would be typed, and never after a text   *)
(* that was broken off; but it comes after an attempt of XTest too of which *)
(* nothing arrived.                                                         *)
DeliveredOnce ==
  /\ Reached("paste") => ~Reached("gaps") /\ ~Reached("nothing")
  /\ Reached("paste") /\ (Reached("text") \/ Reached("part")) => mistyped
  /\ Reached("enter") =>
       /\ window[Len(window)] = "enter" /\ Len(window) > 1
       /\ Reached("part") => Reached("paste")
=============================================================================
