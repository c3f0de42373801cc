--------------------------- MODULE DeliveryProofs ---------------------------
(***************************************************************************)
(* The safety properties of Delivery.tla, for every length of the text and *)
(* every capacity of a pipe.                                               *)
(*                                                                         *)
(* The invariant has two halves.  One is about the call of a tool: its     *)
(* pipes, its child and how much of the input is through (Tools).  The     *)
(* other tells from where inject() is, and from whether the tool has done  *)
(* its work (Worked), what can be in the window and on the clipboard       *)
(* (Texts).  A tool acts by doing its work; nothing else that the child,   *)
(* its pipes or the deadline do concerns the second half (LEMMA Steady).   *)
(***************************************************************************)
EXTENDS Delivery, SequenceTheorems, TLAPS

(* Where no tool is called, and which copies are a courtesy.                *)
Quiet == {"initialize", "idle", "xtest", "done"}
First == {"first_xclip", "first_xsel"}
Second == {"copy_xclip", "copy_xsel"}
Commands == Copying \cup Pressing \cup Finding

Outcomes ==
  [is : {None, "INJECTED", "CLIPBOARD_PASTED", "CLIPBOARD_ONLY", "FAILED"}, success : BOOLEAN]

Types ==
  /\ config \in OutputConfig /\ available \in SUBSET Tools
  /\ pc \in Commands \cup Quiet
  /\ outcome \in Outcomes
  /\ clipboard \in {"other", "text", "part"}
  /\ mistyped \in BOOLEAN

(* The daemon injects at one stage, with the tools it has looked for.       *)
StageOK ==
  /\ stage \in {"starting", "idle", "recording", "thinking", "injecting", "finish"}
  /\ hurried \in BOOLEAN
  /\ stage = "starting" => pc \in Finding \cup {"initialize"}
  /\ stage \in {"recording", "thinking"} => pc = "idle"
  /\ stage \in {"idle", "finish"} => pc \in {"idle", "done"}
  /\ stage = "injecting" => pc \notin Finding \cup {"initialize"}

(* A call that is over has left nothing, and a call that was killed was     *)
(* still writing.                                                           *)
CallOK ==
  /\ pc \in Quiet => call = NoCall
  /\ pc \notin Quiet => call.step # "idle" /\ (call.fn = "with_input" <=> pc \in Copying)
  /\ call.step \in {"idle", "returned"} =>
       child = "none" /\ stdin = ClosedStdin /\ output = ClosedOutput
  /\ call.step = "killed" => stdin.open

(* The input is closed when all of it is written: not before.               *)
InputOK ==
  /\ stdin.read <= stdin.written
  /\ stdin.open => /\ stdin.written < Size /\ call.fn = "with_input"
                   /\ call.step \in {"pump", "killed"}
  /\ Calling /\ call.fn = "with_input" /\ ~stdin.open => stdin.written = Size

ToolsOK == SubprocessTypeOK /\ CallOK /\ InputOK

(* The tool has done its work, and nothing has come between.                *)
Worked ==
  \/ child = "finished"
  \/ child = "zombie" /\ status = 0
  \/ call.step = "returned" /\ call.code = 0

(* What can be in the window: what xdotool typed, what was reported as      *)
(* injected, and either with what follows it.                               *)
Typed == {<<"part">>, <<"text">>}
Unpasted == {<< >>} \cup Typed
Keyed == {<<"text">>, <<"gaps">>, <<"nothing">>}
KeyedEntered == {<<"text", "enter">>, <<"gaps", "enter">>, <<"nothing", "enter">>}
Missed == {<<"nothing">>, <<"nothing", "enter">>}
TypedPasted == {<<"part", "paste">>, <<"text", "paste">>}
Pasted == {<<"paste">>} \cup TypedPasted
TypedPastedEntered == {<<"part", "paste", "enter">>, <<"text", "paste", "enter">>}
Entered == {<<"paste", "enter">>} \cup TypedPastedEntered
Twice == TypedPasted \cup TypedPastedEntered

WindowOK ==
  /\ pc \in {"initialize", "idle", "xtest"} \cup Finding \cup First => window = << >>
  /\ pc = "type" => window \in Unpasted /\ (Worked => window = <<"text">>)
  /\ pc = "return_typed" => window \in Keyed \/ (window \in KeyedEntered /\ child # "running")
  /\ pc \in Second => window \in Unpasted
  /\ pc = "paste" => \/ window \in Unpasted /\ ~Worked
                     \/ window \in Pasted /\ child # "running"
  /\ pc = "return_pasted" => window \in Pasted \/ (window \in Entered /\ child # "running")
  /\ pc \in Second \cup {"paste"} => (window \in Typed => mistyped)
  /\ window \in Twice => mistyped

ClipboardOK ==
  /\ clipboard # "part"
  /\ pc \in Second /\ Worked => clipboard = "text"
  /\ pc \in {"paste", "return_pasted"} => clipboard = "text"

DoneOK ==
  pc = "done" =>
    \/ outcome.is = "INJECTED" /\ window \in Keyed \cup KeyedEntered
    \/ outcome.is = "CLIPBOARD_PASTED" /\ window \in Pasted \cup Entered /\ clipboard = "text"
    \/ outcome.is = "CLIPBOARD_ONLY" /\ window \in Unpasted \cup Pasted /\ clipboard = "text"
    \/ outcome.is = "FAILED" /\ window \in Unpasted /\ ~outcome.success

Texts == WindowOK /\ ClipboardOK /\ DoneOK

IInv == Types /\ AvatarTypeOK /\ StageOK /\ ToolsOK /\ Texts

-----------------------------------------------------------------------------
(* What is appended to the window.                                          *)
LEMMA AppendSecond == ASSUME NEW a, NEW b PROVE Append(<<a>>, b) = <<a, b>>
<1>1. /\ <<a>> \in Seq({a, b}) /\ Len(<<a>>) = 1 /\ <<a>>[1] = a
      /\ <<a, b>> \in Seq({a, b}) /\ Len(<<a, b>>) = 2 /\ <<a, b>>[1] = a /\ <<a, b>>[2] = b
  OBVIOUS
<1>2. /\ Append(<<a>>, b) \in Seq({a, b}) /\ Len(Append(<<a>>, b)) = 2
      /\ Append(<<a>>, b)[1] = a /\ Append(<<a>>, b)[2] = b
  BY <1>1, AppendProperties
<1>3. \A i \in 1 .. 2 : Append(<<a>>, b)[i] = <<a, b>>[i]
  BY <1>1, <1>2
<1> QED BY <1>1, <1>2, <1>3, SeqEqual, Zenon

LEMMA AppendThird == ASSUME NEW a, NEW b, NEW c PROVE Append(<<a, b>>, c) = <<a, b, c>>
<1> DEFINE S == {a, b, c}
<1>1. <<a, b>> \in Seq(S) /\ Len(<<a, b>>) = 2 /\ <<a, b>>[1] = a /\ <<a, b>>[2] = b
  OBVIOUS
<1>2. /\ <<a, b, c>> \in Seq(S) /\ Len(<<a, b, c>>) = 3
      /\ <<a, b, c>>[1] = a /\ <<a, b, c>>[2] = b /\ <<a, b, c>>[3] = c
  OBVIOUS
<1>3. /\ Append(<<a, b>>, c) \in Seq(S) /\ Len(Append(<<a, b>>, c)) = 3
      /\ Append(<<a, b>>, c)[1] = a /\ Append(<<a, b>>, c)[2] = b /\ Append(<<a, b>>, c)[3] = c
  BY <1>1, AppendProperties
<1>4. \A i \in 1 .. 3 : Append(<<a, b>>, c)[i] = <<a, b, c>>[i]
  BY <1>2, <1>3
<1> QED BY <1>2, <1>3, <1>4, SeqEqual, Zenon

(* What typing, pasting and Return make of a window.                        *)
LEMMA Windows ==
  /\ << >> \in Unpasted /\ << >> \notin Typed /\ << >> \notin Twice
  /\ \A typed \in Blind : Append(<< >>, typed) \in Keyed
  /\ <<"text">> \in Keyed /\ <<"text">> \in Typed /\ <<"part">> \in Typed
  /\ Typed \subseteq Unpasted
  /\ \A w \in Unpasted : w \notin Twice /\ (w \notin Typed => w = << >>)
  /\ \A w \in Keyed \cup KeyedEntered : w \notin Twice /\ w # << >>
  /\ \A w \in Keyed :
       Append(w, "enter") \in KeyedEntered /\ (Append(w, "enter") \in Missed <=> w \in Missed)
  /\ \A w \in Unpasted :
       Append(w, "paste") \in Pasted /\ (Append(w, "paste") \in Twice => w \in Typed)
       /\ Append(w, "paste") \notin Typed
  /\ \A w \in Pasted :
       Append(w, "enter") \in Entered /\ (Append(w, "enter") \in Twice => w \in Twice)
<1>1. << >> \in Unpasted /\ << >> \notin Typed /\ << >> \notin Twice
  BY DEF Typed, Unpasted, Twice, TypedPasted, TypedPastedEntered
<1>2. /\ <<"text">> \in Typed /\ <<"part">> \in Typed /\ Typed \subseteq Unpasted
      /\ <<"text">> \in Keyed
  BY DEF Typed, Unpasted, Keyed
<1>3. \A typed \in Blind : Append(<< >>, typed) \in Keyed
  BY DEF Blind, Keyed
<1>4. \A w \in Unpasted : w \notin Twice /\ (w \notin Typed => w = << >>)
  BY DEF Typed, Unpasted, Twice, TypedPasted, TypedPastedEntered
<1>5. \A w \in Keyed \cup KeyedEntered : w \notin Twice /\ w # << >>
  BY DEF Keyed, KeyedEntered, Twice, TypedPasted, TypedPastedEntered
<1>6. \A w \in Keyed :
        Append(w, "enter") \in KeyedEntered /\ (Append(w, "enter") \in Missed <=> w \in Missed)
  <2>1. \A w \in Keyed : \E a \in Blind : w = <<a>> /\ Append(w, "enter") = <<a, "enter">>
    BY AppendSecond DEF Keyed, Blind
  <2>2. \A a \in Blind :
          <<a, "enter">> \in KeyedEntered /\ (<<a, "enter">> \in Missed <=> <<a>> \in Missed)
    BY DEF Blind, KeyedEntered, Missed
  <2> QED BY <2>1, <2>2
<1>7. Append(<< >>, "paste") = <<"paste">>
  OBVIOUS
<1>8. \A w \in Typed : Append(w, "paste") \in TypedPasted
  BY AppendSecond DEF Typed, TypedPasted
<1>9. <<"paste">> \notin Twice /\ <<"paste">> \notin Typed /\ TypedPasted \cap Typed = {}
  BY DEF Typed, Twice, TypedPasted, TypedPastedEntered
<1>10. Append(<<"paste">>, "enter") = <<"paste", "enter">> /\ <<"paste", "enter">> \notin Twice
  BY AppendSecond DEF Twice, TypedPasted, TypedPastedEntered
<1>11. \A w \in TypedPasted : Append(w, "enter") \in TypedPastedEntered
  BY AppendThird DEF TypedPasted, TypedPastedEntered
<1>12. TypedPasted \subseteq Twice
  BY DEF Twice
<1> QED
  BY <1>1, <1>2, <1>3, <1>4, <1>5, <1>6, <1>7, <1>8, <1>9, <1>10, <1>11, <1>12, Zenon
  DEF Unpasted, Pasted, Entered

-----------------------------------------------------------------------------
(* The call of a tool.                                                      *)

(* No call, and pipes that are closed.                                      *)
LEMMA NoPipes ==
  /\ NoCall \in [fn : Functions, step : {"idle", "pump", "wait", "returned", "killed"},
                 code : {-1, 0, 1}]
  /\ ClosedStdin \in [written : 0 .. Size, read : 0 .. Size, open : BOOLEAN, reader : BOOLEAN]
  /\ ClosedOutput \in [open : BOOLEAN, held : BOOLEAN]
<1>1. 0 \in 0 .. Size
  BY PipeAssumption
<1>2. "run_command" \in Functions /\ 0 \in {-1, 0, 1}
  BY DEF Functions
<1> QED BY <1>1, <1>2 DEF NoCall, ClosedStdin, ClosedOutput

(* A tool is called when no other is.                                       *)
LEMMA Running ==
  ASSUME ToolsOK, NEW command \in Commands, call.step \in {"idle", "returned"}, Run(command)
  PROVE  ToolsOK' /\ ~Worked' /\ pc' = command /\ outcome' = outcome
<1>1. /\ SubprocessTypeOK /\ child = "none" /\ stdin = ClosedStdin /\ output = ClosedOutput
      /\ pc' = command /\ outcome' = outcome /\ command \notin Quiet
  BY DEF ToolsOK, CallOK, Run, Commands, Quiet, Copying, Pressing, Finding
<1> DEFINE fn == IF command \in Copying THEN "with_input" ELSE "run_command"
<1>2. Spawn(fn) \/ SpawnFails(fn)
  BY DEF Run
<1>3. fn \in Functions /\ (fn = "with_input" <=> command \in Copying)
  BY DEF Functions
<1> HIDE DEF fn
<1>4. CASE Spawn(fn)
  <2>1. /\ call' = [fn |-> fn, step |-> "pump", code |-> -1]
        /\ child' = "running" /\ status' = 1 /\ late' = FALSE
        /\ output' = [open |-> TRUE, held |-> FALSE]
    BY <1>4 DEF Spawn
  <2>2. stdin' = [written |-> 0, read |-> 0, open |-> fn = "with_input", reader |-> fn = "with_input"]
    BY <1>4 DEF Spawn, ClosedStdin
  <2>3. SubprocessTypeOK'
    <3>1. call' \in [fn : Functions, step : {"idle", "pump", "wait", "returned", "killed"},
                     code : {-1, 0, 1}]
      BY <1>3, <2>1
    <3>2. stdin' \in [written : 0 .. Size, read : 0 .. Size, open : BOOLEAN, reader : BOOLEAN]
      <4>1. 0 \in 0 .. Size /\ (fn = "with_input") \in BOOLEAN
        BY PipeAssumption
      <4> QED BY <2>2, <4>1, Zenon
    <3>3. output' \in [open : BOOLEAN, held : BOOLEAN]
      BY <2>1
    <3> QED BY <2>1, <3>1, <3>2, <3>3 DEF SubprocessTypeOK
  <2>4. call'.fn = fn /\ call'.step = "pump" /\ call'.code = -1
    BY <2>1
  <2>5. CallOK' /\ ~Worked'
    BY <1>1, <1>3, <2>1, <2>4 DEF CallOK, Worked
  <2>6. InputOK'
    <3>1. stdin'.written = 0 /\ stdin'.read = 0 /\ (stdin'.open <=> fn = "with_input")
      BY <2>2
    <3> QED BY <2>4, <3>1, PipeAssumption DEF InputOK
  <2> QED BY <1>1, <2>3, <2>5, <2>6 DEF ToolsOK
<1>5. CASE SpawnFails(fn)
  <2>1. /\ call' = [fn |-> fn, step |-> "returned", code |-> -1]
        /\ UNCHANGED <<child, status, stdin, output, late>>
    BY <1>5 DEF SpawnFails
  <2>2. SubprocessTypeOK'
    BY <1>1, <1>3, <2>1 DEF SubprocessTypeOK
  <2>3. CallOK' /\ InputOK' /\ ~Worked'
    BY <1>1, <1>3, <2>1 DEF CallOK, InputOK, Worked, Calling, ClosedStdin
  <2> QED BY <1>1, <2>2, <2>3 DEF ToolsOK
<1> QED BY <1>2, <1>4, <1>5

(* ... and no tool is called any more.                                      *)
LEMMA Going ==
  ASSUME ToolsOK, NEW place \in Quiet, call.step \in {"idle", "returned"}, Goto(place)
  PROVE  ToolsOK' /\ ~Worked' /\ pc' = place
<1>1. /\ SubprocessTypeOK /\ child = "none" /\ stdin = ClosedStdin /\ output = ClosedOutput
      /\ pc' = place /\ call' = NoCall /\ UNCHANGED <<child, status, stdin, output, late>>
  BY DEF ToolsOK, CallOK, Goto
<1>2. SubprocessTypeOK'
  BY <1>1 DEF SubprocessTypeOK, NoCall, Functions
<1>3. CallOK' /\ InputOK' /\ ~Worked'
  BY <1>1 DEF CallOK, InputOK, Worked, Calling, ClosedStdin, NoCall
<1> QED BY <1>1, <1>2, <1>3 DEF ToolsOK

(* Nothing but the tool itself does its work.                               *)
Idles == (Worked' => Worked) /\ (child' = "running" => child = "running")

(* One lemma for each kind of step of a call: the caller, the deadline, the *)
(* child's exit and its hanging.                                            *)
LEMMA CallerStep ==
  ASSUME ToolsOK, Caller, UNCHANGED pc PROVE ToolsOK' /\ Idles
<1>1. SubprocessTypeOK /\ CallOK /\ InputOK /\ Calling /\ pc \notin Quiet
  BY DEF ToolsOK, Caller, WriteInput, OutputEnds, Reap, Pumped, TimeOut, Calling, CallOK, NoCall
<1>2. /\ call \in [fn : Functions, step : {"idle", "pump", "wait", "returned", "killed"},
                   code : {-1, 0, 1}]
      /\ stdin \in [written : 0 .. Size, read : 0 .. Size, open : BOOLEAN, reader : BOOLEAN]
      /\ output \in [open : BOOLEAN, held : BOOLEAN]
      /\ Size \in Nat
  BY <1>1, PipeAssumption DEF SubprocessTypeOK
<1>3. CASE WriteInput
  <2>1. CASE stdin.reader
    <3>1. /\ call.step = "pump" /\ stdin.open
          /\ UNCHANGED <<call, child, status, output, late>>
          /\ stdin' = [stdin EXCEPT !.written = stdin.written + 1, !.open = stdin.written + 1 < Size]
      BY <1>3, <2>1 DEF WriteInput
    <3>2. /\ stdin'.written = stdin.written + 1 /\ stdin'.read = stdin.read
          /\ (stdin'.open <=> stdin.written + 1 < Size)
      BY <1>2, <3>1
    <3>3. stdin.written < Size /\ stdin.read <= stdin.written /\ call.fn = "with_input"
      BY <1>1, <3>1 DEF InputOK
    <3>4. stdin.written + 1 \in 0 .. Size
      BY <1>2, <3>3
    <3>5. SubprocessTypeOK'
      <4>1. stdin' \in [written : 0 .. Size, read : 0 .. Size, open : BOOLEAN, reader : BOOLEAN]
        <5>1. (stdin.written + 1 < Size) \in BOOLEAN
          OBVIOUS
        <5> QED BY <1>2, <3>1, <3>4, <5>1
      <4> QED BY <1>1, <3>1, <4>1 DEF SubprocessTypeOK
    <3>6. InputOK'
      BY <1>2, <3>1, <3>2, <3>3 DEF InputOK, Calling
    <3>7. CallOK' /\ Idles
      BY <1>1, <3>1 DEF CallOK, Idles, Worked
    <3> QED BY <3>5, <3>6, <3>7 DEF ToolsOK
  <2>2. CASE ~stdin.reader
    <3>1. /\ call.step = "pump" /\ stdin.open /\ call' = [call EXCEPT !.step = "killed"]
          /\ UNCHANGED <<stdin, child, status, output, late>>
      BY <1>3, <2>2 DEF WriteInput
    <3>2. call'.step = "killed" /\ call'.fn = call.fn
      BY <1>2, <3>1
    <3>3. SubprocessTypeOK'
      BY <1>1, <1>2, <3>1 DEF SubprocessTypeOK
    <3>4. CallOK' /\ InputOK' /\ Idles
      BY <1>1, <3>1, <3>2 DEF CallOK, InputOK, Calling, Idles, Worked
    <3> QED BY <3>3, <3>4 DEF ToolsOK
  <2> QED BY <2>1, <2>2
<1>4. CASE OutputEnds
  <2>1. /\ UNCHANGED <<call, child, status, stdin, late>> /\ call.step = "pump"
        /\ output' = [output EXCEPT !.open = FALSE]
    BY <1>4 DEF OutputEnds
  <2>2. SubprocessTypeOK'
    BY <1>1, <1>2, <2>1 DEF SubprocessTypeOK
  <2>3. CallOK' /\ InputOK' /\ Idles
    BY <1>1, <2>1 DEF CallOK, InputOK, Calling, Idles, Worked
  <2> QED BY <2>2, <2>3 DEF ToolsOK
<1>5. CASE Pumped
  <2>1. /\ UNCHANGED <<child, status, stdin, output, late>> /\ call.step = "pump"
        /\ call' = [call EXCEPT !.step = "wait"] /\ ~stdin.open
    BY <1>5 DEF Pumped
  <2>2. call'.step = "wait" /\ call'.fn = call.fn
    BY <1>2, <2>1
  <2>3. SubprocessTypeOK'
    BY <1>1, <1>2, <2>1 DEF SubprocessTypeOK
  <2>4. CallOK' /\ InputOK' /\ Idles
    BY <1>1, <2>1, <2>2 DEF CallOK, InputOK, Calling, Idles, Worked
  <2> QED BY <2>3, <2>4 DEF ToolsOK
<1>6. ASSUME NEW code \in {-1, 0, 1}, Returns(code), child' = "none",
             code = 0 => child = "zombie" /\ status = 0
      PROVE  ToolsOK' /\ Idles
  <2>1. /\ call' = [call EXCEPT !.step = "returned", !.code = code]
        /\ status' = 0 /\ stdin' = ClosedStdin /\ output' = ClosedOutput /\ late' = FALSE
    BY <1>6 DEF Returns
  <2>2. call'.step = "returned" /\ call'.fn = call.fn /\ call'.code = code
    BY <1>2, <2>1
  <2>3. SubprocessTypeOK'
    <3>1. call' \in [fn : Functions, step : {"idle", "pump", "wait", "returned", "killed"},
                     code : {-1, 0, 1}]
      BY <1>2, <2>1
    <3>2. stdin' \in [written : 0 .. Size, read : 0 .. Size, open : BOOLEAN, reader : BOOLEAN]
      BY <1>2, <2>1 DEF ClosedStdin
    <3>3. output' \in [open : BOOLEAN, held : BOOLEAN]
      BY <2>1 DEF ClosedOutput
    <3> QED BY <1>6, <2>1, <3>1, <3>2, <3>3 DEF SubprocessTypeOK
  <2>4. CallOK' /\ InputOK'
    BY <1>1, <1>6, <2>1, <2>2 DEF CallOK, InputOK, Calling, ClosedStdin
  <2>5. Idles
    BY <1>6, <2>2 DEF Idles, Worked
  <2> QED BY <2>3, <2>4, <2>5 DEF ToolsOK
<1>7. CASE Reap
  BY <1>1, <1>6, <1>7 DEF Reap, SubprocessTypeOK
<1>8. CASE TimeOut
  BY <1>6, <1>8 DEF TimeOut
<1> QED BY <1>3, <1>4, <1>5, <1>7, <1>8 DEF Caller

LEMMA DeadlineStep ==
  ASSUME ToolsOK, Deadline, UNCHANGED pc PROVE ToolsOK' /\ Idles
<1>1. late' = TRUE /\ UNCHANGED <<call, child, status, stdin, output>>
  BY DEF Deadline
<1>2. SubprocessTypeOK' /\ CallOK' /\ InputOK' /\ Idles
  BY <1>1 DEF ToolsOK, SubprocessTypeOK, CallOK, InputOK, Calling, Idles, Worked
<1> QED BY <1>2 DEF ToolsOK

(* A child has not exited while its caller has not returned.                *)
LEMMA ReadInputStep ==
  ASSUME ToolsOK, ReadInput, UNCHANGED pc PROVE ToolsOK' /\ Idles
<1>1. SubprocessTypeOK /\ CallOK /\ InputOK
  BY DEF ToolsOK
<1>2. /\ stdin' = [stdin EXCEPT !.read = stdin.read + 1] /\ stdin.read < stdin.written
      /\ child = "running" /\ UNCHANGED <<call, child, status, output, late>>
  BY DEF ReadInput
<1>3. /\ stdin \in [written : 0 .. Size, read : 0 .. Size, open : BOOLEAN, reader : BOOLEAN]
      /\ stdin.read + 1 \in 0 .. Size /\ stdin.read + 1 <= stdin.written
  BY <1>1, <1>2, PipeAssumption DEF SubprocessTypeOK
<1>4. /\ stdin' \in [written : 0 .. Size, read : 0 .. Size, open : BOOLEAN, reader : BOOLEAN]
      /\ stdin'.read = stdin.read + 1 /\ stdin'.written = stdin.written /\ stdin'.open = stdin.open
  BY <1>2, <1>3
<1>5. SubprocessTypeOK'
  BY <1>1, <1>2, <1>4 DEF SubprocessTypeOK
<1>6. CallOK' /\ InputOK' /\ Idles
  BY <1>1, <1>2, <1>3, <1>4 DEF CallOK, InputOK, Calling, Idles, Worked
<1> QED BY <1>5, <1>6 DEF ToolsOK

LEMMA ExitStep ==
  ASSUME ToolsOK, NEW leavesHolder \in BOOLEAN, Exit(leavesHolder), UNCHANGED pc
  PROVE  ToolsOK' /\ Idles
<1>1. SubprocessTypeOK /\ CallOK /\ InputOK
  BY DEF ToolsOK
<1>2. /\ child \in {"running", "finished"} /\ child' = "zombie" /\ UNCHANGED <<call, late>>
      /\ status' = (IF child = "finished" THEN 0 ELSE 1)
      /\ output' = [output EXCEPT !.held = leavesHolder /\ output.open]
      /\ stdin' = [stdin EXCEPT !.reader = leavesHolder /\ stdin.reader]
  BY DEF Exit
<1>3. call.step \notin {"idle", "returned"}
  BY <1>1, <1>2 DEF CallOK
<1>4. /\ stdin' \in [written : 0 .. Size, read : 0 .. Size, open : BOOLEAN, reader : BOOLEAN]
      /\ stdin'.read = stdin.read /\ stdin'.written = stdin.written /\ stdin'.open = stdin.open
  BY <1>1, <1>2 DEF SubprocessTypeOK
<1>5. output' \in [open : BOOLEAN, held : BOOLEAN]
  BY <1>1, <1>2 DEF SubprocessTypeOK
<1>6. SubprocessTypeOK'
  BY <1>1, <1>2, <1>4, <1>5 DEF SubprocessTypeOK
<1>7. CallOK' /\ InputOK' /\ Idles
  BY <1>1, <1>2, <1>3, <1>4 DEF CallOK, InputOK, Calling, Idles, Worked
<1> QED BY <1>6, <1>7 DEF ToolsOK

LEMMA HangStep ==
  ASSUME ToolsOK, Hang, UNCHANGED pc PROVE ToolsOK' /\ Idles
<1>1. /\ child \in {"running", "finished"} /\ child' = "hung"
      /\ UNCHANGED <<call, status, stdin, output, late>>
  BY DEF Hang
<1>2. SubprocessTypeOK' /\ CallOK' /\ InputOK' /\ Idles
  BY <1>1 DEF ToolsOK, SubprocessTypeOK, CallOK, InputOK, Calling, Idles, Worked
<1> QED BY <1>2 DEF ToolsOK

(* A tool that finishes its work does so in the middle of its call, and one *)
(* that has read to the end of its input has read all of it.                *)
LEMMA Finishing ==
  ASSUME ToolsOK, FinishWork, OwnPipes, UNCHANGED pc
  PROVE  /\ ToolsOK' /\ child = "running" /\ child' = "finished" /\ ~Worked
         /\ pc \in Copying /\ AtEndOfInput => stdin.read = Size
<1>1. SubprocessTypeOK /\ CallOK /\ InputOK /\ child = "running" /\ child' = "finished"
      /\ UNCHANGED <<call, status, stdin, output, late>>
  BY DEF ToolsOK, FinishWork, OwnPipes
<1>2. call.step \notin {"idle", "returned"}
  BY <1>1 DEF CallOK
<1>3. SubprocessTypeOK' /\ CallOK' /\ InputOK'
  BY <1>1, <1>2 DEF SubprocessTypeOK, CallOK, InputOK, Calling
<1>4. ~Worked
  BY <1>1, <1>2 DEF Worked
<1>5. ASSUME pc \in Copying, AtEndOfInput PROVE stdin.read = Size
  <2>1. ~stdin.open /\ stdin.read = stdin.written
    BY <1>5 DEF AtEndOfInput
  <2>2. call.fn = "with_input"
    BY <1>1, <1>5 DEF CallOK, Quiet, Copying
  <2>3. call.step \in {"pump", "wait"}
    BY <1>1, <1>2, <2>1 DEF CallOK, SubprocessTypeOK
  <2> QED BY <1>1, <2>1, <2>2, <2>3 DEF InputOK, Calling
<1> QED BY <1>1, <1>3, <1>4, <1>5 DEF ToolsOK

-----------------------------------------------------------------------------
(* The text on its way.                                                     *)

(* The texts depend on these only.                                          *)
LEMMA Steady ==
  ASSUME Texts, Idles, UNCHANGED <<pc, outcome, window, clipboard, mistyped>>
  PROVE  Texts'
<1>1. WindowOK'
  BY DEF Texts, Idles, WindowOK
<1>2. ClipboardOK' /\ DoneOK'
  BY DEF Texts, Idles, ClipboardOK, DoneOK
<1> QED BY <1>1, <1>2 DEF Texts

(* The delivery ends with an outcome.                                       *)
LEMMA Ending ==
  ASSUME ToolsOK, call.step \in {"idle", "returned"}, NEW success \in BOOLEAN,
         NEW is \in {"INJECTED", "CLIPBOARD_PASTED", "CLIPBOARD_ONLY", "FAILED"}, End(is, success)
  PROVE  /\ ToolsOK' /\ ~Worked' /\ pc' = "done" /\ outcome' \in Outcomes
         /\ outcome'.is = is /\ outcome'.success = success
<1>1. outcome' = [is |-> is, success |-> success] /\ Goto("done") /\ "done" \in Quiet
  BY DEF End, Quiet
<1>2. ToolsOK' /\ ~Worked' /\ pc' = "done"
  BY <1>1, Going
<1> QED BY <1>1, <1>2 DEF Outcomes

(* What is or may have been typed is no obstacle to the clipboard.          *)
LEMMA ByClipboard ==
  ASSUME ToolsOK, call.step \in {"idle", "returned"}, outcome \in Outcomes, DeliverClipboard,
         window' \in Unpasted, window' \in Typed => mistyped', clipboard' # "part"
  PROVE  ToolsOK' /\ Texts' /\ pc' \in Second \cup {"done"} /\ outcome' \in Outcomes
<1>1. window' \notin Twice
  BY Windows
<1>2. CASE ~CanCopy
  <2>1. /\ ToolsOK' /\ ~Worked' /\ pc' = "done" /\ outcome' \in Outcomes
        /\ outcome'.is = "FAILED" /\ outcome'.success = FALSE
    BY <1>2, Ending DEF DeliverClipboard
  <2>2. WindowOK' /\ ClipboardOK' /\ DoneOK'
    BY <1>1, <2>1 DEF WindowOK, ClipboardOK, DoneOK, First, Second, Finding
  <2> QED BY <2>1, <2>2 DEF Texts
<1>3. CASE CanCopy
  <2>1. PICK command \in Second : Run(command)
    BY <1>3 DEF DeliverClipboard, Second
  <2>2. command \in Commands
    BY DEF Second, Commands, Copying
  <2>3. ToolsOK' /\ ~Worked' /\ pc' = command /\ outcome' = outcome
    BY <2>1, <2>2, Running
  <2>4. WindowOK' /\ ClipboardOK' /\ DoneOK'
    BY <1>1, <2>3 DEF WindowOK, ClipboardOK, DoneOK, First, Second, Finding
  <2> QED BY <2>3, <2>4 DEF Texts
<1> QED BY <1>2, <1>3

(* The three ways on from a tool that did its work: typed, pasted, copied.  *)
LEMMA AfterTyping ==
  ASSUME ToolsOK, call.step \in {"idle", "returned"}, outcome \in Outcomes, DeliverInjected,
         window' \in Keyed, clipboard' # "part"
  PROVE  ToolsOK' /\ Texts' /\ pc' \in {"return_typed", "done"} /\ outcome' \in Outcomes
<1>1. window' \notin Twice
  BY Windows
<1>2. CASE config.return_key /\ "xdotool" \in available
  <2>1. ToolsOK' /\ ~Worked' /\ pc' = "return_typed" /\ outcome' = outcome
    BY <1>2, Running DEF DeliverInjected, Commands, Pressing
  <2>2. WindowOK' /\ ClipboardOK' /\ DoneOK'
    BY <1>1, <2>1 DEF WindowOK, ClipboardOK, DoneOK, First, Second, Finding
  <2> QED BY <2>1, <2>2 DEF Texts
<1>3. CASE ~(config.return_key /\ "xdotool" \in available)
  <2>1. End("INJECTED", TRUE)
    BY <1>3 DEF DeliverInjected
  <2>2. /\ ToolsOK' /\ ~Worked' /\ pc' = "done" /\ outcome' \in Outcomes
        /\ outcome'.is = "INJECTED"
    BY <2>1, Ending
  <2>3. WindowOK' /\ ClipboardOK' /\ DoneOK'
    BY <1>1, <2>2 DEF WindowOK, ClipboardOK, DoneOK, First, Second, Finding
  <2> QED BY <2>2, <2>3 DEF Texts
<1> QED BY <1>2, <1>3

LEMMA AfterPasting ==
  ASSUME ToolsOK, call.step \in {"idle", "returned"}, outcome \in Outcomes, DeliverPasted,
         window' \in Pasted, window' \in Twice => mistyped', clipboard' = "text"
  PROVE  ToolsOK' /\ Texts' /\ pc' \in {"return_pasted", "done"} /\ outcome' \in Outcomes
<1>1. CASE config.return_key
  <2>1. ToolsOK' /\ ~Worked' /\ pc' = "return_pasted" /\ outcome' = outcome
    BY <1>1, Running DEF DeliverPasted, Commands, Pressing
  <2>2. WindowOK' /\ ClipboardOK' /\ DoneOK'
    BY <2>1 DEF WindowOK, ClipboardOK, DoneOK, First, Second, Finding
  <2> QED BY <2>1, <2>2 DEF Texts
<1>2. CASE ~config.return_key
  <2>1. End("CLIPBOARD_PASTED", TRUE)
    BY <1>2 DEF DeliverPasted
  <2>2. /\ ToolsOK' /\ ~Worked' /\ pc' = "done" /\ outcome' \in Outcomes
        /\ outcome'.is = "CLIPBOARD_PASTED"
    BY <2>1, Ending
  <2>3. WindowOK' /\ ClipboardOK' /\ DoneOK'
    BY <2>2 DEF WindowOK, ClipboardOK, DoneOK, First, Second, Finding
  <2> QED BY <2>2, <2>3 DEF Texts
<1> QED BY <1>1, <1>2

(* The text is on the clipboard, and perhaps in the window.                 *)
LEMMA OnlyCopied ==
  ASSUME ToolsOK, call.step \in {"idle", "returned"}, NEW success \in BOOLEAN,
         End("CLIPBOARD_ONLY", success), window' \in Unpasted \cup Pasted,
         window' \in Twice => mistyped', clipboard' = "text"
  PROVE  ToolsOK' /\ Texts' /\ pc' = "done" /\ outcome' \in Outcomes
<1>1. /\ ToolsOK' /\ ~Worked' /\ pc' = "done" /\ outcome' \in Outcomes
      /\ outcome'.is = "CLIPBOARD_ONLY"
  BY Ending
<1>2. WindowOK' /\ ClipboardOK' /\ DoneOK'
  BY <1>1 DEF WindowOK, ClipboardOK, DoneOK, First, Second, Finding
<1> QED BY <1>1, <1>2 DEF Texts

LEMMA AfterCopying ==
  ASSUME ToolsOK, call.step \in {"idle", "returned"}, outcome \in Outcomes, Copied,
         window' \in Unpasted, window' \in Typed => mistyped', clipboard' = "text"
  PROVE  ToolsOK' /\ Texts' /\ pc' \in {"paste", "done"} /\ outcome' \in Outcomes
<1>1. window' \notin Twice
  BY Windows
<1>2. CASE Run("paste")
  <2>1. ToolsOK' /\ ~Worked' /\ pc' = "paste" /\ outcome' = outcome
    BY <1>2, Running DEF Commands, Pressing
  <2>2. WindowOK' /\ ClipboardOK' /\ DoneOK'
    BY <1>1, <2>1 DEF WindowOK, ClipboardOK, DoneOK, First, Second, Finding
  <2> QED BY <2>1, <2>2 DEF Texts
<1>3. CASE End("CLIPBOARD_ONLY", TRUE) \/ End("CLIPBOARD_ONLY", FALSE)
  BY <1>1, <1>3, OnlyCopied
<1> QED BY <1>2, <1>3 DEF Copied

-----------------------------------------------------------------------------
(* initialize() and inject().                                               *)

(* What a step of theirs has to keep.                                       *)
Kept == ToolsOK' /\ Texts' /\ Types'

(* One lemma per action of the output manager: the invariant is kept.       *)
LEMMA InitializeOK ==
  ASSUME IInv, Initialize PROVE Kept /\ pc' \in Finding
<1>1. /\ pc = "initialize" /\ Run("which_xdotool")
      /\ UNCHANGED <<config, window, clipboard, available, mistyped>>
  BY DEF Initialize, Here
<1>2. call.step = "idle"
  BY <1>1 DEF IInv, ToolsOK, CallOK, Quiet, NoCall
<1>3. ToolsOK' /\ ~Worked' /\ pc' = "which_xdotool" /\ outcome' = outcome
  BY <1>1, <1>2, Running DEF IInv, Commands, Finding
<1>4. WindowOK' /\ ClipboardOK' /\ DoneOK'
  BY <1>1, <1>3 DEF IInv, Texts, WindowOK, ClipboardOK, DoneOK, First, Second, Finding
<1>5. Types'
  BY <1>1, <1>3 DEF IInv, Types, Commands, Finding
<1> QED BY <1>3, <1>4, <1>5 DEF Kept, Texts, Finding

LEMMA FindToolsOK ==
  ASSUME IInv, FindTools PROVE Kept /\ pc' \in Finding \cup {"idle"}
<1>1. PICK tool \in Tools, next \in {"which_xclip", "which_xsel", "idle"} :
        call.step = "returned" /\ pc \in Finding /\ Found(tool, next)
  BY DEF FindTools, Returned, Tools, Finding
<1>2. /\ UNCHANGED <<config, window, clipboard, mistyped>>
      /\ IF next = "idle" THEN Goto(next) /\ UNCHANGED outcome ELSE Run(next)
  BY <1>1 DEF Found, Here
<1>3. available' \in SUBSET Tools
  BY <1>1 DEF Found, IInv, Types
<1>4. ToolsOK' /\ ~Worked' /\ pc' = next /\ outcome' = outcome
  <2>1. CASE next = "idle"
    BY <1>1, <1>2, <2>1, Going DEF IInv, Quiet
  <2>2. CASE next # "idle"
    BY <1>1, <1>2, <2>2, Running DEF IInv, Commands, Finding
  <2> QED BY <2>1, <2>2
<1>5. window = << >> /\ window \notin Twice
  BY <1>1, Windows DEF IInv, Texts, WindowOK
<1>6. WindowOK' /\ ClipboardOK' /\ DoneOK'
  BY <1>2, <1>4, <1>5 DEF IInv, Texts, WindowOK, ClipboardOK, DoneOK, First, Second, Finding
<1>7. Types'
  BY <1>2, <1>3, <1>4 DEF IInv, Types, Commands, Finding, Quiet
<1> QED BY <1>4, <1>6, <1>7 DEF Kept, Texts, Finding

LEMMA InjectOK ==
  ASSUME IInv, Inject PROVE Kept /\ pc' \notin Finding \cup {"initialize"}
<1>1. pc = "idle" /\ UNCHANGED <<config, window, clipboard, available, mistyped>>
  BY DEF Inject, Here
<1>2. call.step = "idle" /\ window = << >> /\ clipboard # "part" /\ outcome \in Outcomes
  BY <1>1 DEF IInv, Types, ToolsOK, CallOK, Quiet, NoCall, Texts, WindowOK, ClipboardOK
<1>3. CASE DeliverClipboard
  <2>1. ToolsOK' /\ Texts' /\ pc' \in Second \cup {"done"} /\ outcome' \in Outcomes
    BY <1>1, <1>2, <1>3, Windows, ByClipboard DEF IInv
  <2>2. Types'
    BY <1>1, <2>1 DEF IInv, Types, Commands, Copying, Second, Quiet
  <2> QED BY <2>1, <2>2 DEF Kept, Finding, Second
<1>4. ASSUME NEW command \in First, Run(command)
      PROVE  Kept /\ pc' \notin Finding \cup {"initialize"}
  <2>1. ToolsOK' /\ ~Worked' /\ pc' = command /\ outcome' = outcome
    BY <1>2, <1>4, Running DEF IInv, Commands, Copying, First
  <2>2. WindowOK' /\ ClipboardOK' /\ DoneOK'
    BY <1>1, <1>2, <2>1, Windows DEF WindowOK, ClipboardOK, DoneOK, First, Second, Finding
  <2>3. Types'
    BY <1>1, <2>1 DEF IInv, Types, Commands, Copying, First
  <2> QED BY <2>1, <2>2, <2>3 DEF Kept, Texts, Finding, First
<1>5. CASE Goto("xtest") /\ UNCHANGED outcome
  <2>1. ToolsOK' /\ ~Worked' /\ pc' = "xtest"
    BY <1>2, <1>5, Going DEF IInv, Quiet
  <2>2. WindowOK' /\ ClipboardOK' /\ DoneOK'
    BY <1>1, <1>2, <2>1, Windows DEF WindowOK, ClipboardOK, DoneOK, First, Second, Finding
  <2>3. Types'
    BY <1>1, <1>5, <2>1 DEF IInv, Types, Quiet
  <2> QED BY <2>1, <2>2, <2>3 DEF Kept, Texts, Finding
<1> QED BY <1>3, <1>4, <1>5 DEF Inject, First

LEMMA CopyReturnsOK ==
  ASSUME IInv, CopyReturns PROVE Kept /\ pc' \notin Finding \cup {"initialize"}
<1>1. /\ call.step = "returned" /\ pc \in First \cup Second
      /\ UNCHANGED <<config, window, clipboard, available, mistyped>>
  BY DEF CopyReturns, Here, Copying, First, Second
<1>2. /\ clipboard # "part" /\ outcome \in Outcomes
      /\ pc \in First => window = << >>
      /\ window \in Unpasted /\ (window \in Typed => mistyped)
      /\ pc \in Second /\ call.code = 0 => clipboard = "text"
  BY <1>1, Windows DEF IInv, Types, Texts, WindowOK, ClipboardOK, Worked
<1>3. \/ pc \in First /\ Run("first_xsel")
      \/ pc \in Second /\ Run("copy_xsel")
      \/ pc \in First /\ Goto("xtest") /\ UNCHANGED outcome
      \/ pc \in Second /\ call.code = 0 /\ Copied
      \/ pc \in Second /\ End("FAILED", FALSE)
  BY <1>1 DEF CopyReturns, First, Second
<1>4. ASSUME pc \in First, Run("first_xsel")
      PROVE  Kept /\ pc' \notin Finding \cup {"initialize"}
  <2>1. ToolsOK' /\ ~Worked' /\ pc' = "first_xsel" /\ outcome' = outcome
    BY <1>1, <1>4, Running DEF IInv, Commands, Copying
  <2>2. WindowOK' /\ ClipboardOK' /\ DoneOK'
    BY <1>1, <1>2, <1>4, <2>1, Windows DEF WindowOK, ClipboardOK, DoneOK, First, Second, Finding
  <2>3. Types'
    BY <1>1, <2>1 DEF IInv, Types, Commands, Copying
  <2> QED BY <2>1, <2>2, <2>3 DEF Kept, Texts, Finding
<1>5. ASSUME pc \in Second, Run("copy_xsel")
      PROVE  Kept /\ pc' \notin Finding \cup {"initialize"}
  <2>1. ToolsOK' /\ ~Worked' /\ pc' = "copy_xsel" /\ outcome' = outcome
    BY <1>1, <1>5, Running DEF IInv, Commands, Copying
  <2>2. WindowOK' /\ ClipboardOK' /\ DoneOK'
    BY <1>1, <1>2, <2>1, Windows DEF WindowOK, ClipboardOK, DoneOK, First, Second, Finding
  <2>3. Types'
    BY <1>1, <2>1 DEF IInv, Types, Commands, Copying
  <2> QED BY <2>1, <2>2, <2>3 DEF Kept, Texts, Finding
<1>6. ASSUME pc \in First, Goto("xtest"), UNCHANGED outcome
      PROVE  Kept /\ pc' \notin Finding \cup {"initialize"}
  <2>1. ToolsOK' /\ ~Worked' /\ pc' = "xtest"
    BY <1>1, <1>6, Going DEF IInv, Quiet
  <2>2. WindowOK' /\ ClipboardOK' /\ DoneOK'
    BY <1>1, <1>2, <1>6, <2>1, Windows DEF WindowOK, ClipboardOK, DoneOK, First, Second, Finding
  <2>3. Types'
    BY <1>1, <1>6, <2>1 DEF IInv, Types, Quiet
  <2> QED BY <2>1, <2>2, <2>3 DEF Kept, Texts, Finding
<1>7. ASSUME pc \in Second, call.code = 0, Copied
      PROVE  Kept /\ pc' \notin Finding \cup {"initialize"}
  <2>1. ToolsOK' /\ Texts' /\ pc' \in {"paste", "done"} /\ outcome' \in Outcomes
    BY <1>1, <1>2, <1>7, AfterCopying DEF IInv
  <2>2. Types'
    BY <1>1, <2>1 DEF IInv, Types, Commands, Pressing, Quiet
  <2> QED BY <2>1, <2>2 DEF Kept, Finding
<1>8. ASSUME pc \in Second, End("FAILED", FALSE)
      PROVE  Kept /\ pc' \notin Finding \cup {"initialize"}
  <2>1. /\ ToolsOK' /\ ~Worked' /\ pc' = "done" /\ outcome' \in Outcomes
        /\ outcome'.is = "FAILED" /\ outcome'.success = FALSE
    BY <1>1, <1>8, Ending DEF IInv
  <2>2. WindowOK' /\ ClipboardOK' /\ DoneOK'
    BY <1>1, <1>2, <2>1, Windows DEF WindowOK, ClipboardOK, DoneOK, First, Second, Finding
  <2>3. Types'
    BY <1>1, <2>1 DEF IInv, Types, Quiet
  <2> QED BY <2>1, <2>2, <2>3 DEF Kept, Texts, Finding
<1> QED BY <1>3, <1>4, <1>5, <1>6, <1>7, <1>8

LEMMA XTestOK ==
  ASSUME IInv, XTest PROVE Kept /\ pc' \notin Finding \cup {"initialize"}
<1>1. pc = "xtest" /\ UNCHANGED <<config, available, clipboard, mistyped>>
  BY DEF XTest
<1>2. /\ call.step = "idle" /\ window = << >> /\ clipboard # "part" /\ outcome \in Outcomes
  BY <1>1 DEF IInv, Types, ToolsOK, CallOK, Quiet, NoCall, Texts, WindowOK, ClipboardOK
<1>3. CASE DeliverInjected /\ \E typed \in Blind : window' = Append(window, typed)
  <2>1. window' \in Keyed
    BY <1>2, <1>3, Windows
  <2>2. ToolsOK' /\ Texts' /\ pc' \in {"return_typed", "done"} /\ outcome' \in Outcomes
    BY <1>1, <1>2, <1>3, <2>1, AfterTyping DEF IInv
  <2>3. Types'
    BY <1>1, <2>2 DEF IInv, Types, Commands, Pressing, Quiet
  <2> QED BY <2>2, <2>3 DEF Kept, Finding
<1>4. CASE Run("type") /\ UNCHANGED window
  <2>1. ToolsOK' /\ ~Worked' /\ pc' = "type" /\ outcome' = outcome
    BY <1>2, <1>4, Running DEF IInv, Commands, Pressing
  <2>2. WindowOK' /\ ClipboardOK' /\ DoneOK'
    BY <1>1, <1>2, <1>4, <2>1, Windows DEF WindowOK, ClipboardOK, DoneOK, First, Second, Finding
  <2>3. Types'
    BY <1>1, <2>1 DEF IInv, Types, Commands, Pressing
  <2> QED BY <2>1, <2>2, <2>3 DEF Kept, Texts, Finding
<1>5. CASE DeliverClipboard /\ UNCHANGED window
  <2>1. ToolsOK' /\ Texts' /\ pc' \in Second \cup {"done"} /\ outcome' \in Outcomes
    BY <1>1, <1>2, <1>5, Windows, ByClipboard DEF IInv
  <2>2. Types'
    BY <1>1, <2>1 DEF IInv, Types, Commands, Copying, Second, Quiet
  <2> QED BY <2>1, <2>2 DEF Kept, Finding, Second
<1> QED BY <1>3, <1>4, <1>5 DEF XTest

(* xdotool either typed all of the text, or what it typed is noted.         *)
LEMMA TypeReturnsOK ==
  ASSUME IInv, TypeReturns PROVE Kept /\ pc' \notin Finding \cup {"initialize"}
<1>1. /\ pc = "type" /\ call.step = "returned" /\ UNCHANGED <<config, window, clipboard, available>>
      /\ mistyped' = (call.code # 0 /\ window # << >>)
  BY DEF TypeReturns, Returned, Here
<1>2. /\ clipboard # "part" /\ outcome \in Outcomes /\ window \in Unpasted
      /\ call.code = 0 => window \in Keyed
      /\ mistyped' \in BOOLEAN
  BY <1>1, Windows DEF IInv, Types, Texts, WindowOK, ClipboardOK, Worked
<1>3. CASE call.code = 0
  <2>1. DeliverInjected
    BY <1>3 DEF TypeReturns
  <2>2. ToolsOK' /\ Texts' /\ pc' \in {"return_typed", "done"} /\ outcome' \in Outcomes
    BY <1>1, <1>2, <1>3, <2>1, AfterTyping DEF IInv
  <2>3. Types'
    BY <1>1, <1>2, <2>2 DEF IInv, Types, Commands, Pressing, Quiet
  <2> QED BY <2>2, <2>3 DEF Kept, Finding
<1>4. CASE call.code # 0
  <2>1. DeliverClipboard
    BY <1>4 DEF TypeReturns
  <2>2. window \in Typed => mistyped'
    BY <1>1, <1>4, Windows
  <2>3. ToolsOK' /\ Texts' /\ pc' \in Second \cup {"done"} /\ outcome' \in Outcomes
    BY <1>1, <1>2, <2>1, <2>2, ByClipboard DEF IInv
  <2>4. Types'
    BY <1>1, <1>2, <2>3 DEF IInv, Types, Commands, Copying, Second, Quiet
  <2> QED BY <2>3, <2>4 DEF Kept, Finding, Second
<1> QED BY <1>3, <1>4

LEMMA PasteReturnsOK ==
  ASSUME IInv, PasteReturns PROVE Kept /\ pc' \notin Finding \cup {"initialize"}
<1>1. /\ pc = "paste" /\ call.step = "returned"
      /\ UNCHANGED <<config, window, clipboard, available, mistyped>>
  BY DEF PasteReturns, Returned, Here
<1>2. /\ clipboard = "text" /\ outcome \in Outcomes /\ window \in Unpasted \cup Pasted
      /\ call.code = 0 => window \in Pasted
      /\ window \in Twice => mistyped
  BY <1>1 DEF IInv, Types, Texts, WindowOK, ClipboardOK, Worked
<1>3. CASE call.code = 0
  <2>1. DeliverPasted
    BY <1>3 DEF PasteReturns
  <2>2. ToolsOK' /\ Texts' /\ pc' \in {"return_pasted", "done"} /\ outcome' \in Outcomes
    BY <1>1, <1>2, <1>3, <2>1, AfterPasting DEF IInv
  <2>3. Types'
    BY <1>1, <2>2 DEF IInv, Types, Commands, Pressing, Quiet
  <2> QED BY <2>2, <2>3 DEF Kept, Finding
<1>4. CASE call.code # 0
  <2>1. End("CLIPBOARD_ONLY", FALSE)
    BY <1>4 DEF PasteReturns
  <2>2. ToolsOK' /\ Texts' /\ pc' = "done" /\ outcome' \in Outcomes
    BY <1>1, <1>2, <2>1, OnlyCopied DEF IInv
  <2>3. Types'
    BY <1>1, <2>2 DEF IInv, Types, Quiet
  <2> QED BY <2>2, <2>3 DEF Kept, Finding
<1> QED BY <1>3, <1>4

LEMMA ReturnReturnsOK ==
  ASSUME IInv, ReturnReturns PROVE Kept /\ pc' \notin Finding \cup {"initialize"}
<1>1. /\ call.step = "returned" /\ UNCHANGED <<config, window, clipboard, available, mistyped>>
      /\ \/ pc = "return_typed" /\ End("INJECTED", TRUE)
         \/ pc = "return_pasted" /\ End("CLIPBOARD_PASTED", TRUE)
  BY DEF ReturnReturns, Returned, Here
<1>2. PICK is \in {"INJECTED", "CLIPBOARD_PASTED"} :
        /\ End(is, TRUE)
        /\ is = "INJECTED" => pc = "return_typed"
        /\ is = "CLIPBOARD_PASTED" => pc = "return_pasted"
  BY <1>1
<1>3. /\ ToolsOK' /\ ~Worked' /\ pc' = "done" /\ outcome' \in Outcomes /\ outcome'.is = is
  BY <1>1, <1>2, Ending DEF IInv
<1>4. /\ clipboard # "part" /\ window \in Twice => mistyped
      /\ is = "INJECTED" => window \in Keyed \cup KeyedEntered
      /\ is = "CLIPBOARD_PASTED" => window \in Pasted \cup Entered /\ clipboard = "text"
  BY <1>2 DEF IInv, Texts, WindowOK, ClipboardOK
<1>5. WindowOK' /\ ClipboardOK' /\ DoneOK'
  BY <1>1, <1>2, <1>3, <1>4 DEF IInv, Texts, WindowOK, ClipboardOK, DoneOK, First, Second, Finding
<1>6. Types'
  BY <1>1, <1>3 DEF IInv, Types, Quiet
<1> QED BY <1>3, <1>5, <1>6 DEF Kept, Texts, Finding

-----------------------------------------------------------------------------
(* The tools.                                                               *)

(* One lemma per action of a tool, and then all of them: the invariant is   *)
(* kept.                                                                    *)
LEMMA FindsOK ==
  ASSUME IInv, Finds PROVE Kept
<1>1. /\ pc \in Finding /\ FinishWork /\ OwnPipes
      /\ UNCHANGED <<config, available, pc, outcome, mistyped, window, clipboard>>
  BY DEF Finds, Program
<1>2. ToolsOK'
  BY <1>1, Finishing DEF IInv
<1>3. WindowOK' /\ ClipboardOK' /\ DoneOK'
  BY <1>1 DEF IInv, Texts, WindowOK, ClipboardOK, DoneOK, First, Second, Finding
<1>4. Types'
  BY <1>1 DEF IInv, Types
<1> QED BY <1>2, <1>3, <1>4 DEF Kept, Texts

(* A tool takes the selection with all of the text.                         *)
LEMMA OwnsOK ==
  ASSUME IInv, Owns PROVE Kept
<1>1. /\ pc \in Copying /\ AtEndOfInput /\ FinishWork /\ OwnPipes
      /\ clipboard' = (IF stdin.read = Size THEN "text" ELSE "part")
      /\ UNCHANGED <<config, available, pc, outcome, mistyped, window>>
  BY DEF Owns, Program
<1>2. ToolsOK' /\ clipboard' = "text"
  BY <1>1, Finishing DEF IInv
<1>3. WindowOK' /\ ClipboardOK' /\ DoneOK'
  BY <1>1, <1>2 DEF IInv, Texts, WindowOK, ClipboardOK, DoneOK, First, Second, Finding, Copying
<1>4. Types'
  BY <1>1, <1>2 DEF IInv, Types
<1> QED BY <1>2, <1>3, <1>4 DEF Kept, Texts

LEMMA TypesPartOK ==
  ASSUME IInv, TypesPart PROVE Kept
<1>1. /\ pc = "type" /\ child = "running" /\ window' = <<"part">> /\ window = << >>
      /\ UNCHANGED <<child, call, status, stdin, output, late>>
      /\ UNCHANGED <<config, available, pc, outcome, mistyped, clipboard>>
  BY DEF TypesPart, OwnPipes, Program
<1>2. ToolsOK'
  BY <1>1 DEF IInv, ToolsOK, SubprocessTypeOK, CallOK, InputOK, Calling
<1>3. ~Worked' /\ window' \in Unpasted /\ window' \notin Twice
  BY <1>1, Windows DEF IInv, ToolsOK, CallOK, Worked
<1>4. WindowOK' /\ ClipboardOK' /\ DoneOK'
  BY <1>1, <1>3 DEF IInv, Texts, WindowOK, ClipboardOK, DoneOK, First, Second, Finding
<1>5. Types'
  BY <1>1 DEF IInv, Types
<1> QED BY <1>2, <1>4, <1>5 DEF Kept, Texts

(* xdotool presses what it was asked to press once.                         *)
LEMMA PressesOK ==
  ASSUME IInv, Presses PROVE Kept
<1>1. /\ pc \in Pressing /\ FinishWork /\ OwnPipes
      /\ window' = CASE pc = "type"  -> <<"text">>
                     [] pc = "paste" -> Append(window, "paste")
                     [] OTHER        -> Append(window, "enter")
      /\ UNCHANGED <<config, available, pc, outcome, mistyped, clipboard>>
  BY DEF Presses, Program
<1>2. ToolsOK' /\ child = "running" /\ child' = "finished" /\ Worked'
  BY <1>1, Finishing DEF IInv, Worked
<1>3. ClipboardOK' /\ DoneOK'
  BY <1>1 DEF IInv, Texts, ClipboardOK, DoneOK, Second, Pressing
<1>4. WindowOK'
  <2>1. CASE pc = "type"
    <3>1. window' = <<"text">> /\ window' \in Unpasted /\ window' \notin Twice
      BY <1>1, <2>1, Windows
    <3> QED BY <1>1, <2>1, <3>1 DEF WindowOK, First, Second, Finding
  <2>2. CASE pc = "paste"
    <3>1. window \in Unpasted /\ (window \in Typed => mistyped) /\ window' = Append(window, "paste")
      BY <1>1, <1>2, <2>2 DEF IInv, Texts, WindowOK
    <3>2. window' \in Pasted /\ (window' \in Twice => mistyped) /\ window' \notin Typed
      BY <3>1, Windows
    <3> QED BY <1>1, <1>2, <2>2, <3>2 DEF WindowOK, First, Second, Finding
  <2>3. CASE pc = "return_typed"
    <3>1. window \in Keyed /\ window' = Append(window, "enter")
      BY <1>1, <1>2, <2>3 DEF IInv, Texts, WindowOK
    <3>2. window' \in KeyedEntered /\ window' \notin Twice
      BY <3>1, Windows
    <3> QED BY <1>1, <1>2, <2>3, <3>2 DEF WindowOK, First, Second, Finding
  <2>4. CASE pc = "return_pasted"
    <3>1. window \in Pasted /\ (window \in Twice => mistyped) /\ window' = Append(window, "enter")
      BY <1>1, <1>2, <2>4 DEF IInv, Texts, WindowOK
    <3>2. window' \in Entered /\ (window' \in Twice => mistyped)
      BY <3>1, Windows
    <3> QED BY <1>1, <1>2, <2>4, <3>2 DEF WindowOK, First, Second, Finding
  <2> QED BY <1>1, <2>1, <2>2, <2>3, <2>4 DEF Pressing
<1>5. Types'
  BY <1>1 DEF IInv, Types
<1> QED BY <1>2, <1>3, <1>4, <1>5 DEF Kept, Texts

(* Everything else that goes on around a tool.                              *)
LEMMA AroundOK ==
  ASSUME IInv, Idles, ToolsOK',
         UNCHANGED <<config, available, pc, outcome, mistyped, window, clipboard>>
  PROVE  Kept
BY Steady DEF IInv, Types, Kept

LEMMA ToolOK ==
  ASSUME IInv, Calls \/ TimePasses \/ Tool \/ Hangs PROVE Kept /\ pc' = pc
<1>1. ToolsOK
  BY DEF IInv
<1>2. CASE Calls
  BY <1>1, <1>2, CallerStep, AroundOK DEF Calls, outputVars
<1>3. CASE TimePasses
  BY <1>1, <1>3, DeadlineStep, AroundOK DEF TimePasses, outputVars
<1>4. CASE Hangs
  BY <1>1, <1>4, HangStep, AroundOK DEF Hangs, Program
<1>5. CASE Tool
  <2>1. CASE Finds \/ Owns \/ Presses \/ TypesPart
    BY <2>1, FindsOK, OwnsOK, PressesOK, TypesPartOK DEF Finds, Owns, Presses, TypesPart, Program
  <2>2. CASE /\ ReadInput \/ \E leavesHolder \in BOOLEAN : Exit(leavesHolder)
             /\ Program /\ UNCHANGED <<window, clipboard>>
    BY <1>1, <2>2, ReadInputStep, ExitStep, AroundOK DEF Program
  <2> QED BY <1>5, <2>1, <2>2 DEF Tool
<1> QED BY <1>2, <1>3, <1>4, <1>5

-----------------------------------------------------------------------------
(* The daemon thread and the companion.                                     *)

(* A step that leaves the transcript, its tools and inject() alone.         *)
LEMMA Apart ==
  ASSUME IInv, UNCHANGED <<subprocessVars, outputVars>>
  PROVE  Kept /\ UNCHANGED pc
<1>1. UNCHANGED <<call, child, status, stdin, output, late,
                  config, available, pc, outcome, window, clipboard, mistyped>>
  BY DEF subprocessVars, outputVars
<1>2. ToolsOK' /\ Idles
  BY <1>1 DEF IInv, ToolsOK, SubprocessTypeOK, CallOK, InputOK, Calling, Idles, Worked
<1> QED BY <1>1, <1>2, AroundOK

(* The companion's part of the type invariant.                              *)
LEMMA Requesting ==
  ASSUME AvatarTypeOK, NEW state \in AvatarState, Request(state) PROVE AvatarTypeOK'
BY DEF AvatarTypeOK, Request

LEMMA Silence == ASSUME AvatarTypeOK, Silently PROVE AvatarTypeOK'
BY DEF AvatarTypeOK, Silently, avatarVars

(* The daemon thread: its handlers, and the steps of the output manager in  *)
(* them.                                                                    *)
LEMMA HandleStartOK ==
  ASSUME IInv, HandleStart PROVE Kept
<1>1. /\ pc \in {"idle", "done"} /\ UNCHANGED <<call, child, status, stdin, output, late>>
      /\ UNCHANGED <<config, available>>
      /\ pc' = "idle" /\ outcome' = NoOutcome
      /\ window' = << >> /\ clipboard' = "other" /\ mistyped' = FALSE
  BY DEF IInv, StageOK, HandleStart, Goes, subprocessVars
<1>2. ToolsOK'
  BY <1>1 DEF IInv, ToolsOK, SubprocessTypeOK, CallOK, InputOK, Calling, Quiet
<1>3. WindowOK' /\ ClipboardOK' /\ DoneOK'
  BY <1>1, Windows DEF WindowOK, ClipboardOK, DoneOK, First, Second, Finding
<1>4. Types'
  BY <1>1 DEF IInv, Types, NoOutcome, Outcomes, Quiet
<1> QED BY <1>2, <1>3, <1>4 DEF Kept, Texts

LEMMA DaemonThreadOK ==
  ASSUME IInv, DaemonThread PROVE IInv'
<1>1. AvatarTypeOK /\ StageOK
  BY DEF IInv
<1>2. CASE StartUp
  <2>1. Kept /\ pc' \in Finding \cup {"idle"}
    BY <1>2, InitializeOK, FindToolsOK DEF StartUp
  <2>2. AvatarTypeOK'
    BY <1>1, <1>2, Silence DEF StartUp
  <2>3. StageOK'
    BY <1>1, <1>2, <2>1 DEF StartUp, StageOK, Finding
  <2> QED BY <2>1, <2>2, <2>3 DEF IInv, Kept
<1>3. CASE HandleStart
  <2>1. Kept
    BY <1>3, HandleStartOK
  <2>2. AvatarTypeOK'
    BY <1>1, <1>3, Requesting DEF HandleStart, AvatarState
  <2>3. StageOK'
    BY <1>3 DEF HandleStart, StageOK, Goes, Finding
  <2> QED BY <2>1, <2>2, <2>3 DEF IInv, Kept
<1>4. CASE InjectStep
  <2>1. Kept /\ pc' \notin Finding \cup {"initialize"}
    BY <1>4, InjectOK, CopyReturnsOK, XTestOK, TypeReturnsOK, PasteReturnsOK, ReturnReturnsOK
    DEF InjectStep, Injecting
  <2>2. AvatarTypeOK'
    BY <1>1, <1>4, Silence DEF InjectStep
  <2>3. StageOK'
    BY <1>1, <1>4, <2>1 DEF InjectStep, StageOK, Finding
  <2> QED BY <2>1, <2>2, <2>3 DEF IInv, Kept
<1>5. CASE HandleCancel \/ HandleStop \/ TooShort \/ NothingSaid \/ Fails \/ Deliver \/ Injected
           \/ ComeToRest
  <2>1. Kept /\ pc' = pc
    BY <1>5, Apart DEF Outputless, HandleCancel, HandleStop, TooShort, NothingSaid, Fails, Deliver,
       Injected, ComeToRest
  <2>2. AvatarTypeOK'
    BY <1>1, <1>5, Requesting, Silence DEF HandleCancel, HandleStop, TooShort, NothingSaid, Fails,
       Deliver, Injected, ComeToRest, AvatarState
  <2>3. StageOK'
    BY <1>1, <1>5, <2>1 DEF HandleCancel, HandleStop, TooShort, NothingSaid, Fails, Deliver,
       Injected, ComeToRest, Goes, StageOK, Finding
  <2> QED BY <2>1, <2>2, <2>3 DEF IInv, Kept
<1> QED BY <1>2, <1>3, <1>4, <1>5 DEF DaemonThread

(* A daemon that is started anew finds what it leaves behind when it ends.  *)
LEMMA StartAgainOK ==
  ASSUME IInv, StartAgain PROVE IInv'
<1>1. /\ call' = NoCall /\ child' = "none" /\ status' = 0
      /\ stdin' = ClosedStdin /\ output' = ClosedOutput /\ late' = FALSE
      /\ available' = {} /\ pc' = "initialize" /\ outcome' = NoOutcome
      /\ window' = << >> /\ clipboard' = "other" /\ mistyped' = FALSE
      /\ requested' = "Idle" /\ dirty' = FALSE /\ machine' = "Idle" /\ latched' = {}
      /\ stage' = "starting" /\ hurried' = FALSE
      /\ UNCHANGED config
  BY DEF StartAgain
<1>2. ToolsOK'
  <2>1. SubprocessTypeOK'
    BY <1>1, NoPipes DEF SubprocessTypeOK
  <2>2. CallOK' /\ InputOK'
    BY <1>1 DEF CallOK, InputOK, Calling, Quiet, NoCall, ClosedStdin
  <2> QED BY <2>1, <2>2 DEF ToolsOK
<1>3. WindowOK' /\ ClipboardOK' /\ DoneOK'
  BY <1>1, Windows DEF WindowOK, ClipboardOK, DoneOK, First, Second, Finding
<1>4. Types' /\ AvatarTypeOK' /\ StageOK'
  BY <1>1 DEF IInv, Types, NoOutcome, Outcomes, Quiet, AvatarTypeOK, AvatarState, StageOK
<1> QED BY <1>2, <1>3, <1>4 DEF IInv, Texts

(* The invariant holds at the start.                                        *)
LEMMA Initial == Init => IInv
<1> SUFFICES ASSUME Init PROVE IInv
  OBVIOUS
<1>1. /\ call = NoCall /\ child = "none" /\ status = 0
      /\ stdin = ClosedStdin /\ output = ClosedOutput /\ late = FALSE
      /\ config \in OutputConfig /\ available = {} /\ pc = "initialize" /\ outcome = NoOutcome
      /\ window = << >> /\ clipboard = "other" /\ mistyped = FALSE
      /\ requested = "Idle" /\ dirty = FALSE /\ machine = "Idle" /\ latched = {}
      /\ stage = "starting" /\ hurried = FALSE
  BY DEF Init, OutputInit, SubprocessInit, AvatarInit
<1>2. ToolsOK
  <2>1. SubprocessTypeOK
    BY <1>1, NoPipes DEF SubprocessTypeOK
  <2>2. CallOK /\ InputOK
    BY <1>1 DEF CallOK, InputOK, Calling, Quiet, NoCall, ClosedStdin
  <2> QED BY <2>1, <2>2 DEF ToolsOK
<1>3. WindowOK /\ ClipboardOK /\ DoneOK
  BY <1>1, Windows DEF WindowOK, ClipboardOK, DoneOK, First, Second, Finding
<1>4. Types /\ AvatarTypeOK /\ StageOK
  BY <1>1 DEF Types, NoOutcome, Outcomes, Quiet, AvatarTypeOK, AvatarState, StageOK
<1> QED BY <1>2, <1>3, <1>4 DEF IInv, Texts

(* The invariant is kept by every step.                                     *)
LEMMA Inductive == IInv /\ [Next]_vars => IInv'
<1> SUFFICES ASSUME IInv, [Next]_vars PROVE IInv'
  OBVIOUS
<1>1. CASE DaemonThread
  BY <1>1, DaemonThreadOK
<1>2. CASE (Calls \/ TimePasses \/ Tool \/ Hangs) /\ Inside
  <2>1. Kept /\ pc' = pc
    BY <1>2, ToolOK
  <2>2. AvatarTypeOK' /\ StageOK'
    BY <1>2, <2>1 DEF Inside, IInv, AvatarTypeOK, StageOK
  <2> QED BY <2>1, <2>2 DEF IInv, Kept
<1>3. CASE (Tick \/ Expire) /\ Outputless /\ UNCHANGED <<stage, hurried>>
  <2>1. Kept /\ pc' = pc
    BY <1>3, Apart DEF Outputless
  <2>2. AvatarTypeOK'
    BY <1>3 DEF IInv, AvatarTypeOK, Tick, Expire, Latches
  <2>3. StageOK'
    BY <1>3, <2>1 DEF IInv, StageOK
  <2> QED BY <2>1, <2>2, <2>3 DEF IInv, Kept
<1>4. CASE StartAgain
  BY <1>4, StartAgainOK
<1>5. CASE UNCHANGED vars
  <2>1. UNCHANGED <<subprocessVars, outputVars>> /\ UNCHANGED <<requested, dirty, machine, latched, stage, hurried>>
    BY <1>5 DEF vars, subprocessVars, outputVars
  <2>2. Kept /\ pc' = pc
    BY <2>1, Apart
  <2>3. AvatarTypeOK' /\ StageOK'
    BY <2>1, <2>2 DEF IInv, AvatarTypeOK, StageOK
  <2> QED BY <2>2, <2>3 DEF IInv, Kept
<1> QED BY <1>1, <1>2, <1>3, <1>4, <1>5 DEF Next

-----------------------------------------------------------------------------
(* The theorems.                                                            *)

(* The invariant holds of every state a delivery can reach.                 *)
THEOREM Invariance == Spec => []IInv
BY Initial, Inductive, PTL DEF Spec

(* A call that has returned leaves no process and no descriptor behind      *)
(* (run_command() and run_command_with_input()), whatever the size of the   *)
(* text and of the pipes.                                                   *)
THEOREM NothingIsLeft == Spec => []NothingLeft
<1>1. IInv => NothingLeft
  BY DEF IInv, ToolsOK, CallOK, NothingLeft
<1> QED BY <1>1, Invariance, PTL

(* All the windows there can be, and what has reached them.                 *)
EveryText == Unpasted \cup Keyed \cup KeyedEntered \cup Pasted \cup Entered

LEMMA Reaching ==
  /\ \A w \in Keyed \cup KeyedEntered :
       /\ \E i \in 1 .. Len(w) : w[i] \in Blind
       /\ \A i \in 1 .. Len(w) : w[i] # "part"
  /\ \A w \in Pasted \cup Entered :
       /\ \E i \in 1 .. Len(w) : w[i] = "paste"
       /\ \A i \in 1 .. Len(w) : w[i] \notin {"gaps", "nothing"}
  /\ \A w \in Unpasted \cup Keyed \cup KeyedEntered : \A i \in 1 .. Len(w) : w[i] # "paste"
  /\ \A w \in {<<"paste">>, <<"paste", "enter">>} :
       \A i \in 1 .. Len(w) : w[i] \notin {"text", "part"}
  /\ \A w \in KeyedEntered \cup Entered : w[Len(w)] = "enter" /\ Len(w) > 1
  /\ \A w \in EveryText : w \in Seq(Blind \cup {"part", "paste", "enter"}) /\ Len(w) <= 3
<1>1. \A w \in Keyed \cup KeyedEntered :
        /\ 1 \in 1 .. Len(w) /\ w[1] \in Blind
        /\ \A i \in 1 .. Len(w) : w[i] # "part"
  <2>1. \A w \in Keyed :
          1 \in 1 .. Len(w) /\ w[1] \in Blind /\ \A i \in 1 .. Len(w) : w[i] # "part"
    BY DEF Keyed, Blind
  <2>2. \A w \in KeyedEntered :
          1 \in 1 .. Len(w) /\ w[1] \in Blind /\ \A i \in 1 .. Len(w) : w[i] # "part"
    BY DEF KeyedEntered, Blind
  <2> QED BY <2>1, <2>2
<1>2. \A w \in TypedPasted \cup TypedPastedEntered : 2 \in 1 .. Len(w) /\ w[2] = "paste"
  BY DEF TypedPasted, TypedPastedEntered
<1>3. \A w \in {<<"paste">>, <<"paste", "enter">>} : 1 \in 1 .. Len(w) /\ w[1] = "paste"
  OBVIOUS
<1>4. \A w \in Pasted \cup Entered :
        /\ \E i \in 1 .. Len(w) : w[i] = "paste"
        /\ \A i \in 1 .. Len(w) : w[i] \notin {"gaps", "nothing"}
  <2>1. \A w \in TypedPasted : \A i \in 1 .. Len(w) : w[i] \notin {"gaps", "nothing"}
    BY DEF TypedPasted
  <2>2. \A w \in TypedPastedEntered : \A i \in 1 .. Len(w) : w[i] \notin {"gaps", "nothing"}
    BY DEF TypedPastedEntered
  <2>3. \A w \in {<<"paste">>, <<"paste", "enter">>} :
          \A i \in 1 .. Len(w) : w[i] \notin {"gaps", "nothing"}
    OBVIOUS
  <2> QED BY <1>2, <1>3, <2>1, <2>2, <2>3 DEF Pasted, Entered
<1>5. \A w \in Unpasted \cup Keyed \cup KeyedEntered : \A i \in 1 .. Len(w) : w[i] # "paste"
  <2>1. \A w \in Typed : \A i \in 1 .. Len(w) : w[i] # "paste"
    BY DEF Typed
  <2>2. \A w \in KeyedEntered : \A i \in 1 .. Len(w) : w[i] # "paste"
    BY DEF KeyedEntered
  <2>3. \A w \in Keyed : \A i \in 1 .. Len(w) : w[i] # "paste"
    BY DEF Keyed
  <2>4. \A i \in 1 .. Len(<< >>) : FALSE
    OBVIOUS
  <2> QED BY <2>1, <2>2, <2>3, <2>4 DEF Unpasted
<1>6. \A w \in {<<"paste">>, <<"paste", "enter">>} :
        \A i \in 1 .. Len(w) : w[i] \notin {"text", "part"}
  OBVIOUS
<1>7. \A w \in KeyedEntered \cup Entered : w[Len(w)] = "enter" /\ Len(w) > 1
  <2>1. \A w \in KeyedEntered : w[Len(w)] = "enter" /\ Len(w) > 1
    BY DEF KeyedEntered
  <2>2. \A w \in TypedPastedEntered : w[Len(w)] = "enter" /\ Len(w) > 1
    BY DEF TypedPastedEntered
  <2>3. LET w == <<"paste", "enter">> IN w[Len(w)] = "enter" /\ Len(w) > 1
    OBVIOUS
  <2> QED BY <2>1, <2>2, <2>3 DEF Entered
<1>8. \A w \in EveryText : w \in Seq(Blind \cup {"part", "paste", "enter"}) /\ Len(w) <= 3
  <2> DEFINE S == Blind \cup {"part", "paste", "enter"}
  <2>1. << >> \in Seq(S) /\ Len(<< >>) <= 3
    OBVIOUS
  <2>2. \A a \in S : <<a>> \in Seq(S) /\ Len(<<a>>) <= 3
    OBVIOUS
  <2>3. \A a, b \in S : <<a, b>> \in Seq(S) /\ Len(<<a, b>>) <= 3
    OBVIOUS
  <2>4. \A a, b, c \in S : <<a, b, c>> \in Seq(S) /\ Len(<<a, b, c>>) <= 3
    OBVIOUS
  <2>5. /\ "part" \in S /\ "text" \in S /\ "gaps" \in S /\ "nothing" \in S
        /\ "paste" \in S /\ "enter" \in S
    BY DEF Blind
  <2> HIDE DEF S
  <2>6. \A w \in EveryText : w \in Seq(S) /\ Len(w) <= 3
    BY <2>1, <2>2, <2>3, <2>4, <2>5, Zenon
    DEF EveryText, Unpasted, Typed, Keyed, KeyedEntered, TypedPasted, Pasted,
        TypedPastedEntered, Entered
  <2> QED BY <2>6 DEF S
<1> QED BY <1>1, <1>4, <1>5, <1>6, <1>7, <1>8

(* Return is in those windows that are named for it.                        *)
LEMMA ReachingReturn ==
  /\ \A w \in Unpasted \cup Keyed \cup Pasted : \A i \in 1 .. Len(w) : w[i] # "enter"
  /\ \A w \in KeyedEntered \cup Entered : \E i \in 1 .. Len(w) : w[i] = "enter"
<1>1. \A w \in Typed : \A i \in 1 .. Len(w) : w[i] # "enter"
  BY DEF Typed
<1>2. \A w \in TypedPasted : \A i \in 1 .. Len(w) : w[i] # "enter"
  BY DEF TypedPasted
<1>3. \A w \in {<< >>, <<"paste">>} : \A i \in 1 .. Len(w) : w[i] # "enter"
  OBVIOUS
<1>4. \A w \in Keyed : \A i \in 1 .. Len(w) : w[i] # "enter"
  BY DEF Keyed
<1>5. \A w \in KeyedEntered : 2 \in 1 .. Len(w) /\ w[2] = "enter"
  BY DEF KeyedEntered
<1>6. \A w \in TypedPastedEntered : 3 \in 1 .. Len(w) /\ w[3] = "enter"
  BY DEF TypedPastedEntered
<1>7. \A w \in {<<"paste", "enter">>} : 2 \in 1 .. Len(w) /\ w[2] = "enter"
  OBVIOUS
<1> QED BY <1>1, <1>2, <1>3, <1>4, <1>5, <1>6, <1>7 DEF Unpasted, Pasted, Entered

LEMMA EveryWindow == ASSUME IInv PROVE window \in EveryText /\ (window \in Twice => mistyped)
<1>1. pc \in Commands \cup Quiet /\ WindowOK /\ DoneOK /\ << >> \in Unpasted
  BY Windows DEF IInv, Types, Texts
<1>2. \A w : w \in EveryText <=>
        \/ w \in Unpasted \/ w \in Keyed \/ w \in KeyedEntered \/ w \in Pasted \/ w \in Entered
  BY DEF EveryText
<1>3. CASE pc \in Finding \cup First \cup {"initialize", "idle", "xtest"}
  BY <1>1, <1>2, <1>3 DEF WindowOK
<1>4. CASE pc \in Second \cup Pressing
  BY <1>1, <1>2, <1>4, Windows DEF WindowOK, Pressing
<1>5. CASE pc = "done"
  BY <1>1, <1>2, <1>5, Windows DEF WindowOK, DoneOK
<1> QED BY <1>1, <1>3, <1>4, <1>5 DEF Commands, Quiet, Copying, First, Second

(* Every variable keeps its type, and what reaches the window is at most    *)
(* the text, a paste and a Return.                                          *)
THEOREM TypeCorrect == Spec => []TypeOK
<1>1. IInv => TypeOK
  <2> SUFFICES ASSUME IInv PROVE TypeOK
    OBVIOUS
  <2>1. window \in Seq(Blind \cup {"part", "paste", "enter"}) /\ Len(window) <= 3
    BY EveryWindow, Reaching
  <2>2. OutputTypeOK
    BY <2>1 DEF IInv, ToolsOK, Types, Outcomes, OutputTypeOK, Commands, Quiet
  <2> QED BY <2>2 DEF IInv, TypeOK, StageOK
<1> QED BY <1>1, Invariance, PTL

(* What inject() reports has happened: xdotool has typed the text, or XTest *)
(* what it could, or a paste was pressed; the clipboard holds the text, and *)
(* never a part of it.                                                      *)
THEOREM OutcomesTrue == Spec => []OutcomeTrue
<1>1. IInv => OutcomeTrue
  <2> SUFFICES ASSUME IInv PROVE OutcomeTrue
    OBVIOUS
  <2>1. clipboard # "part" /\ DoneOK
    BY DEF IInv, Texts, ClipboardOK
  <2>2. window \in Keyed \cup KeyedEntered =>
          ~Reached("part") /\ \E typed \in Blind : Reached(typed)
    BY Reaching DEF Reached
  <2>3. window \in Pasted \cup Entered => Reached("paste")
    BY Reaching DEF Reached
  <2>4. window \in Unpasted => ~Reached("paste")
    BY Reaching DEF Reached
  <2> QED BY <2>1, <2>2, <2>3, <2>4 DEF DoneOK, OutcomeTrue
<1> QED BY <1>1, Invariance, PTL

(* A transcript is typed or pasted once, and Return is the last key, after  *)
(* it or after what XTest takes for it: only what xdotool typed before it   *)
(* failed can be there as well.                                             *)
THEOREM IsDeliveredOnce == Spec => []DeliveredOnce
<1>1. IInv => DeliveredOnce
  <2> SUFFICES ASSUME IInv PROVE DeliveredOnce
    OBVIOUS
  <2>1. Reached("paste") => window \in Pasted \cup Entered
    BY EveryWindow, Reaching DEF Reached, EveryText
  <2>2. ASSUME Reached("paste"), Reached("text") \/ Reached("part") PROVE mistyped
    <3>2. window \notin {<<"paste">>, <<"paste", "enter">>}
      BY <2>2, Reaching DEF Reached
    <3>3. window \in Twice
      BY <2>1, <2>2, <3>2 DEF Pasted, Entered, Twice
    <3> QED BY <3>3, EveryWindow
  <2>3. Reached("enter") => window \in KeyedEntered \cup Entered
    BY EveryWindow, ReachingReturn DEF Reached, EveryText
  <2>4. /\ window \in KeyedEntered => ~Reached("part")
        /\ window \in Pasted \cup Entered =>
             Reached("paste") /\ ~Reached("gaps") /\ ~Reached("nothing")
        /\ window \in KeyedEntered \cup Entered =>
             window[Len(window)] = "enter" /\ Len(window) > 1
    BY Reaching DEF Reached
  <2> QED BY <2>1, <2>2, <2>3, <2>4 DEF DeliveredOnce
<1> QED BY <1>1, Invariance, PTL

-----------------------------------------------------------------------------
(* The delivery as its user sees it.                                        *)

(* What the configuration allows where inject() is, and that an attempt     *)
(* which slipped has left something in the window.                          *)
Wished ==
  /\ pc \in First \cup {"xtest", "type", "return_typed"} => config.method = "inject"
  /\ pc \in First => config.also_copy
  /\ pc \in Finding \cup {"initialize", "idle"} => clipboard = "other"
  /\ pc \in {"xtest", "type"} => clipboard = "other" \/ config.also_copy
  /\ pc \in {"paste", "return_pasted"} => config.auto_paste
  /\ pc \in {"return_typed", "return_pasted"} => config.return_key
  /\ mistyped => window # << >> /\ pc \in Second \cup {"paste", "return_pasted", "done"}

Fits == Dictated!Next \/ UNCHANGED Dictated!vars

Views ==
  /\ window = << >> /\ ~mistyped => Shown = "empty"
  /\ window \in Typed /\ ~mistyped => Shown = "typed"
  /\ window \in Keyed \cup KeyedEntered /\ ~mistyped =>
       Shown = IF window \in Missed THEN "missed" ELSE "typed"
  /\ window \in Typed /\ mistyped => Shown = "slipped"
  /\ window \in Pasted \cup Entered => Shown = "pasted"
  /\ window \in Unpasted \cup Keyed \cup Pasted => Reached("enter") = FALSE
  /\ window \in KeyedEntered \cup Entered => Reached("enter") = TRUE

(* "nothing" is in those of a missed text only.                             *)
LEMMA ReachingNothing ==
  /\ \A w \in Unpasted : \A i \in 1 .. Len(w) : w[i] # "nothing"
  /\ \A w \in (Keyed \cup KeyedEntered) \ Missed : \A i \in 1 .. Len(w) : w[i] # "nothing"
  /\ \A w \in Missed : \E i \in 1 .. Len(w) : w[i] = "nothing"
<1>1. \A w \in {<<"part">>, <<"text">>, <<"gaps">>} : \A i \in 1 .. Len(w) : w[i] # "nothing"
  OBVIOUS
<1>2. \A w \in {<<"text", "enter">>, <<"gaps", "enter">>} : \A i \in 1 .. Len(w) : w[i] # "nothing"
  OBVIOUS
<1>3. \A i \in 1 .. Len(<< >>) : FALSE
  OBVIOUS
<1>4. \A w \in Missed : 1 \in 1 .. Len(w) /\ w[1] = "nothing"
  BY DEF Missed
<1>5. (Keyed \cup KeyedEntered) \ Missed \subseteq
        {<<"part">>, <<"text">>, <<"gaps">>} \cup {<<"text", "enter">>, <<"gaps", "enter">>}
  BY Zenon DEF Keyed, KeyedEntered, Missed
<1> QED BY <1>1, <1>2, <1>3, <1>4, <1>5 DEF Unpasted, Typed

(* The mapping, evaluated on the windows of the invariant, in this state and*)
(* the next.                                                                *)
LEMMA View == Views
<1>1. window \in Pasted \cup Entered => Reached("paste")
  BY Reaching DEF Reached
<1>2. window \in Unpasted \cup Keyed \cup KeyedEntered => ~Reached("paste")
  BY Reaching DEF Reached
<1>3. window \in Unpasted \cup Keyed \cup Pasted => ~Reached("enter")
  BY ReachingReturn DEF Reached
<1>4. window \in KeyedEntered \cup Entered => Reached("enter")
  BY ReachingReturn DEF Reached
<1>5. (Reached("enter") = TRUE \/ Reached("enter") = FALSE)
  BY DEF Reached
<1>6. /\ window \in Unpasted => ~Reached("nothing")
      /\ window \in Keyed \cup KeyedEntered => (Reached("nothing") <=> window \in Missed)
  BY ReachingNothing DEF Reached
<1> QED BY <1>1, <1>2, <1>3, <1>4, <1>5, <1>6, Windows DEF Views, Shown

LEMMA ViewNext == Views'
BY View, PTL

(* What does not touch window, clipboard and outcome is not seen.           *)
LEMMA NotSeen ==
  ASSUME UNCHANGED <<config, outcome, window, clipboard, mistyped>>
  PROVE  /\ Shown' = Shown /\ Reached("enter")' = Reached("enter")
         /\ config' = config /\ clipboard' = clipboard /\ outcome' = outcome
BY DEF Shown, Reached

Delivers == stage = "injecting" /\ pc # "done"

(* A step of inject() either goes on with the next tool ...                 *)
LEMMA Unfinished ==
  ASSUME Delivers, stage' = stage, pc' # "done",
         UNCHANGED <<config, outcome, window, clipboard, mistyped>>
  PROVE  Fits
<1>1. Phase' = Phase
  BY DEF Delivers, Phase
<1> QED BY <1>1, NotSeen DEF Fits, Dictated!vars

(* ... or is the last, and true is what it reports.                         *)
LEMMA Finished ==
  ASSUME Delivers, stage' = stage, pc' = "done", Dictated!Reports',
         UNCHANGED <<config, window, clipboard, mistyped>>
  PROVE  Fits
<1>1. Phase = "delivering" /\ Phase' = "told"
  BY DEF Delivers, Phase
<1>2. /\ Shown' = Shown /\ Reached("enter")' = Reached("enter")
      /\ config' = config /\ clipboard' = clipboard
  BY DEF Shown, Reached
<1>3. Dictated!TellOnly
  BY <1>1, <1>2 DEF Dictated!TellOnly, Dictated!Tell
<1> QED BY <1>1, <1>2, <1>3 DEF Fits, Dictated!Next, Dictated!Delivering

(* The transcript has been put on the clipboard, or nothing can be done.    *)
LEMMA ClipboardSeen ==
  ASSUME DeliverClipboard, window' \in Unpasted, window' \in Typed => mistyped',
         mistyped' => window' # << >>
  PROVE  \/ pc' \in Second /\ outcome' = outcome
         \/ pc' = "done" /\ Dictated!Reports'
<1>1. CASE CanCopy
  BY <1>1 DEF DeliverClipboard, Run, Second
<1>2. CASE ~CanCopy
  <2>1. outcome' = [is |-> "FAILED", success |-> FALSE] /\ pc' = "done"
    BY <1>2 DEF DeliverClipboard, End, Goto
  <2>2. Shown' \in {"empty", "slipped"}
    BY ViewNext, Windows DEF Views
  <2> QED BY <2>1, <2>2 DEF Dictated!Reports
<1> QED BY <1>1, <1>2

(* The transcript is in the window.                                         *)
LEMMA InjectedSeen ==
  ASSUME DeliverInjected, window' \in Keyed, mistyped' = FALSE
  PROVE  \/ pc' = "return_typed" /\ config.return_key /\ outcome' = outcome
         \/ pc' = "done" /\ Dictated!Reports'
<1>1. CASE config.return_key /\ "xdotool" \in available
  BY <1>1 DEF DeliverInjected, Run
<1>2. CASE ~(config.return_key /\ "xdotool" \in available)
  <2>1. outcome' = [is |-> "INJECTED", success |-> TRUE] /\ pc' = "done"
    BY <1>2 DEF DeliverInjected, End, Goto
  <2>2. Shown' \in {"typed", "missed"}
    BY ViewNext DEF Views
  <2> QED BY <2>1, <2>2 DEF Dictated!Reports
<1> QED BY <1>1, <1>2

(* inject().                                                                *)
LEMMA InjectSeen ==
  ASSUME IInv, Wished, Delivers, stage' = stage, Inject PROVE Wished' /\ Fits
<1>1. pc = "idle" /\ UNCHANGED <<config, window, clipboard, available, mistyped>>
  BY DEF Inject, Here
<1>2. window = << >> /\ ~mistyped /\ clipboard = "other" /\ config.method \in {"inject", "clipboard"}
  BY <1>1 DEF IInv, Types, OutputConfig, Texts, WindowOK, Wished, Second
<1>3. CASE DeliverClipboard
  <2>1. \/ pc' \in Second /\ outcome' = outcome
        \/ pc' = "done" /\ Dictated!Reports'
    BY <1>1, <1>2, <1>3, ClipboardSeen, Windows
  <2>2. Wished'
    BY <1>1, <1>2, <2>1 DEF Wished, First, Second, Finding
  <2> QED BY <1>1, <2>1, <2>2, Unfinished, Finished DEF Second
<1>4. CASE /\ config.method = "inject" /\ outcome' = outcome
           /\ (pc' \in First /\ config.also_copy) \/ pc' = "xtest"
  <2>1. Wished'
    BY <1>1, <1>2, <1>4 DEF Wished, First, Second, Finding
  <2> QED BY <1>1, <1>4, <2>1, Unfinished DEF First
<1> QED BY <1>2, <1>3, <1>4 DEF Inject, Run, Goto, First

(* The returns of the commands.                                             *)
LEMMA CopyReturnsSeen ==
  ASSUME IInv, Wished, Delivers, stage' = stage, CopyReturns PROVE Wished' /\ Fits
<1>1. /\ call.step = "returned" /\ pc \in First \cup Second
      /\ UNCHANGED <<config, window, clipboard, available, mistyped>>
  BY DEF CopyReturns, Here, Copying, First, Second
<1>2. /\ pc \in First => window = << >> /\ ~mistyped
      /\ window \in Unpasted /\ (window \in Typed => mistyped)
      /\ pc \in Second /\ call.code = 0 => clipboard = "text"
      /\ config.auto_paste \in BOOLEAN
  BY <1>1, Windows DEF IInv, Types, OutputConfig, Texts, WindowOK, ClipboardOK, Worked, Wished,
     First, Second
<1>3. \/ pc \in First /\ pc' \in {"first_xsel", "xtest"} /\ outcome' = outcome
      \/ pc \in Second /\ pc' = "copy_xsel" /\ outcome' = outcome
      \/ pc \in Second /\ call.code = 0 /\ Copied
      \/ pc \in Second /\ End("FAILED", FALSE)
  BY <1>1 DEF CopyReturns, First, Second, Run, Goto
<1>4. CASE /\ outcome' = outcome
           /\ \/ pc \in First /\ pc' \in {"first_xsel", "xtest"}
              \/ pc \in Second /\ pc' = "copy_xsel"
  <2>1. Wished'
    BY <1>1, <1>2, <1>4 DEF Wished, First, Second, Finding
  <2> QED BY <1>1, <1>4, <2>1, Unfinished
<1>5. CASE pc \in Second /\ call.code = 0 /\ Copied
  <2>1. Shown' \notin {"typed", "missed"} /\ clipboard' = "text"
    BY <1>1, <1>2, <1>5, ViewNext, Windows DEF Views, Wished
  <2>2. \/ pc' = "paste" /\ config.auto_paste /\ outcome' = outcome
        \/ pc' = "done" /\ outcome' = [is |-> "CLIPBOARD_ONLY", success |-> ~config.auto_paste]
    BY <1>2, <1>5 DEF Copied, Run, End, Goto
  <2>3. pc' = "done" => Dictated!Reports'
    BY <1>1, <2>1, <2>2 DEF Dictated!Reports
  <2>4. Wished'
    BY <1>1, <1>2, <1>5, <2>2 DEF Wished, First, Second, Finding
  <2> QED BY <1>1, <2>2, <2>3, <2>4, Unfinished, Finished
<1>6. CASE pc \in Second /\ End("FAILED", FALSE)
  <2>1. outcome' = [is |-> "FAILED", success |-> FALSE] /\ pc' = "done"
    BY <1>6 DEF End, Goto
  <2>2. Shown' \in {"empty", "slipped"}
    BY <1>1, <1>2, ViewNext, Windows DEF Views, Wished
  <2>3. Wished' /\ Dictated!Reports'
    BY <1>1, <2>1, <2>2 DEF Wished, First, Second, Finding, Dictated!Reports
  <2> QED BY <1>1, <2>1, <2>3, Finished
<1> QED BY <1>3, <1>4, <1>5, <1>6

LEMMA XTestSeen ==
  ASSUME IInv, Wished, Delivers, stage' = stage, XTest PROVE Wished' /\ Fits
<1>1. pc = "xtest" /\ UNCHANGED <<config, available, clipboard, mistyped>>
  BY DEF XTest
<1>2. /\ window = << >> /\ ~mistyped /\ config.method = "inject"
      /\ clipboard = "other" \/ config.also_copy
  BY <1>1 DEF IInv, Texts, WindowOK, Wished, Second
<1>3. CASE DeliverInjected /\ \E typed \in Blind : window' = Append(window, typed)
  <2>1. window' \in Keyed /\ mistyped' = FALSE
    BY <1>1, <1>2, <1>3, Windows DEF IInv, Types
  <2>2. \/ pc' = "return_typed" /\ config.return_key /\ outcome' = outcome
        \/ pc' = "done" /\ Dictated!Reports'
    BY <1>3, <2>1, InjectedSeen
  <2>3. /\ Shown = "empty" /\ Shown' \in {"typed", "missed"}
        /\ Reached("enter") = FALSE /\ Reached("enter")' = FALSE
    BY <1>2, <2>1, View, ViewNext, Windows DEF Views
  <2>4. Phase = "delivering" /\ Phase' = (IF pc' = "done" THEN "told" ELSE "delivering")
    BY DEF Delivers, Phase
  <2>5. Dictated!Type
    BY <1>1, <1>2, <2>2, <2>3, <2>4 DEF Dictated!Type, Dictated!Tell, Dictated!NotYet
  <2>6. Wished'
    BY <1>1, <1>2, <2>1, <2>2 DEF Wished, First, Second, Finding
  <2> QED BY <1>1, <2>4, <2>5, <2>6 DEF Fits, Dictated!Next, Dictated!Delivering
<1>4. CASE UNCHANGED window /\ (Run("type") \/ DeliverClipboard)
  <2>1. \/ pc' \in Second \cup {"type"} /\ outcome' = outcome
        \/ pc' = "done" /\ Dictated!Reports'
    BY <1>1, <1>2, <1>4, ClipboardSeen, Windows DEF Run
  <2>2. Wished'
    BY <1>1, <1>2, <1>4, <2>1 DEF Wished, First, Second, Finding
  <2> QED BY <1>1, <1>4, <2>1, <2>2, Unfinished, Finished DEF Second
<1> QED BY <1>3, <1>4 DEF XTest

(* What was typed before xdotool failed has slipped.                        *)
LEMMA TypeReturnsSeen ==
  ASSUME IInv, Wished, Delivers, stage' = stage, TypeReturns PROVE Wished' /\ Fits
<1>1. /\ pc = "type" /\ call.step = "returned" /\ UNCHANGED <<config, window, clipboard, available>>
      /\ mistyped' = (call.code # 0 /\ window # << >>)
  BY DEF TypeReturns, Returned, Here
<1>2. /\ window \in Unpasted /\ ~mistyped /\ config.method = "inject"
      /\ call.code = 0 => window \in Keyed
  BY <1>1, Windows DEF IInv, Texts, WindowOK, Worked, Wished, Second
<1>3. CASE call.code = 0
  <2>1. DeliverInjected /\ mistyped' = FALSE /\ mistyped = FALSE
    BY <1>1, <1>2, <1>3 DEF TypeReturns, IInv, Types
  <2>2. \/ pc' = "return_typed" /\ config.return_key /\ outcome' = outcome
        \/ pc' = "done" /\ Dictated!Reports'
    BY <1>1, <1>2, <1>3, <2>1, InjectedSeen
  <2>3. Wished'
    BY <1>1, <1>2, <2>1, <2>2 DEF Wished, First, Second, Finding
  <2> QED BY <1>1, <2>1, <2>2, <2>3, Unfinished, Finished
<1>4. CASE call.code # 0
  <2>1. \/ pc' \in Second /\ outcome' = outcome
        \/ pc' = "done" /\ Dictated!Reports'
    BY <1>1, <1>2, <1>4, ClipboardSeen, Windows DEF TypeReturns
  <2>2. Wished'
    BY <1>1, <1>2, <2>1 DEF Wished, First, Second, Finding
  <2>3. CASE window = << >>
    <3>1. mistyped' = FALSE /\ mistyped = FALSE
      BY <1>1, <1>2, <2>3 DEF IInv, Types
    <3> QED BY <1>1, <2>1, <2>2, <3>1, Unfinished, Finished DEF Second
  <2>4. CASE window # << >>
    <3>1. window \in Typed /\ mistyped'
      BY <1>1, <1>2, <1>4, <2>4, Windows
    <3>2. /\ Shown = "typed" /\ Shown' = "slipped"
          /\ Reached("enter") = FALSE /\ Reached("enter")' = FALSE
      BY <1>1, <1>2, <3>1, View, ViewNext DEF Views, Unpasted
    <3>3. Phase = "delivering" /\ Phase' = (IF pc' = "done" THEN "told" ELSE "delivering")
      BY DEF Delivers, Phase
    <3>4. Dictated!Slip
      BY <1>1, <2>1, <3>2, <3>3 DEF Dictated!Slip, Dictated!Tell, Dictated!NotYet, Second
    <3> QED BY <1>1, <2>2, <3>3, <3>4 DEF Fits, Dictated!Next, Dictated!Delivering
  <2> QED BY <2>3, <2>4
<1> QED BY <1>3, <1>4

LEMMA PasteReturnsSeen ==
  ASSUME IInv, Wished, Delivers, stage' = stage, PasteReturns PROVE Wished' /\ Fits
<1>1. /\ pc = "paste" /\ call.step = "returned"
      /\ UNCHANGED <<config, window, clipboard, available, mistyped>>
  BY DEF PasteReturns, Returned, Here
<1>2. /\ clipboard = "text" /\ window \in Unpasted \cup Pasted /\ config.auto_paste
      /\ call.code = 0 => window \in Pasted
      /\ window \in Typed => mistyped
      /\ mistyped => window # << >>
  BY <1>1, Windows DEF IInv, Texts, WindowOK, ClipboardOK, Worked, Wished
<1>3. CASE call.code = 0
  <2>1. Shown' = "pasted"
    BY <1>1, <1>2, <1>3, ViewNext DEF Views
  <2>2. \/ pc' = "return_pasted" /\ config.return_key /\ outcome' = outcome
        \/ pc' = "done" /\ outcome' = [is |-> "CLIPBOARD_PASTED", success |-> TRUE]
    BY <1>3 DEF PasteReturns, DeliverPasted, Run, End, Goto
  <2>3. pc' = "done" => Dictated!Reports'
    BY <1>1, <1>2, <2>1, <2>2 DEF Dictated!Reports
  <2>4. Wished'
    BY <1>1, <1>2, <2>2 DEF Wished, First, Second, Finding
  <2> QED BY <1>1, <2>2, <2>3, <2>4, Unfinished, Finished
<1>4. CASE call.code # 0
  <2>1. pc' = "done" /\ outcome' = [is |-> "CLIPBOARD_ONLY", success |-> FALSE]
    BY <1>4 DEF PasteReturns, End, Goto
  <2>2. Shown' \notin {"typed", "missed"}
    BY <1>1, <1>2, ViewNext, Windows DEF Views
  <2>3. Dictated!Reports'
    BY <1>1, <1>2, <2>1, <2>2 DEF Dictated!Reports
  <2>4. Wished'
    BY <1>1, <1>2, <2>1 DEF Wished, First, Second, Finding
  <2> QED BY <1>1, <2>1, <2>3, <2>4, Finished
<1> QED BY <1>3, <1>4

LEMMA ReturnReturnsSeen ==
  ASSUME IInv, Wished, Delivers, stage' = stage, ReturnReturns PROVE Wished' /\ Fits
<1>1. /\ UNCHANGED <<config, window, clipboard, available, mistyped>> /\ pc' = "done"
      /\ \/ pc = "return_typed" /\ outcome' = [is |-> "INJECTED", success |-> TRUE]
         \/ pc = "return_pasted" /\ outcome' = [is |-> "CLIPBOARD_PASTED", success |-> TRUE]
  BY DEF ReturnReturns, Returned, Here, End, Goto
<1>2. /\ pc = "return_typed" => window \in Keyed \cup KeyedEntered /\ ~mistyped
      /\ pc = "return_pasted" => window \in Pasted \cup Entered /\ clipboard = "text"
  BY DEF IInv, Texts, WindowOK, ClipboardOK, Wished, Second
<1>3. Dictated!Reports'
  BY <1>1, <1>2, ViewNext DEF Views, Dictated!Reports
<1>4. Wished'
  BY <1>1 DEF Wished, First, Second, Finding
<1> QED BY <1>1, <1>3, <1>4, Finished

(* The tools act while the text is being delivered.                         *)
LEMMA WhenToolsAct ==
  ASSUME IInv, pc \in Copying \cup Pressing PROVE Delivers /\ Phase = "delivering"
BY DEF IInv, StageOK, Finding, Copying, Pressing, Delivers, Phase

(* The tools' own steps: a copy, a typed text, a keystroke.                 *)
LEMMA OwnsSeen ==
  ASSUME IInv, Wished, Owns, UNCHANGED stage PROVE Wished' /\ Fits
<1>1. pc \in First \cup Second /\ UNCHANGED <<config, pc, outcome, mistyped, window>>
  BY DEF Owns, Program, Copying, First, Second
<1>2. clipboard' = "text"
  BY OwnsOK DEF Owns, Kept, Texts, ClipboardOK
<1>3. /\ Phase = "delivering" /\ Phase' = Phase /\ Shown' = Shown
      /\ Reached("enter")' = Reached("enter")
  BY <1>1, WhenToolsAct DEF Phase, Shown, Reached, First, Second, Copying
<1>4. Shown \in {"empty", "slipped"}
  <2>1. window \in Unpasted /\ (window \in Typed => mistyped) /\ (mistyped => window # << >>)
    BY <1>1, Windows DEF IInv, Texts, WindowOK, Wished, First, Second
  <2> QED BY <2>1, View, Windows DEF Views
<1>5. Dictated!Copy
  BY <1>1, <1>2, <1>3, <1>4 DEF Dictated!Copy, Dictated!NotYet
<1>6. Wished'
  BY <1>1 DEF Wished, First, Second, Finding
<1> QED BY <1>1, <1>3, <1>5, <1>6 DEF Fits, Dictated!Next, Dictated!Delivering

LEMMA TypesPartSeen ==
  ASSUME IInv, Wished, TypesPart, UNCHANGED stage PROVE Wished' /\ Fits
<1>1. /\ pc = "type" /\ window = << >> /\ window' = <<"part">>
      /\ UNCHANGED <<config, pc, outcome, mistyped, clipboard>>
  BY DEF TypesPart, Program
<1>2. /\ mistyped = FALSE /\ config.method = "inject"
      /\ clipboard = "other" \/ config.also_copy
  BY <1>1 DEF IInv, Types, Wished, Second
<1>3. /\ Shown = "empty" /\ Shown' = "typed"
      /\ Reached("enter") = FALSE /\ Reached("enter")' = FALSE
  BY <1>1, <1>2, View, ViewNext, Windows DEF Views
<1>4. Phase = "delivering" /\ Phase' = Phase
  BY <1>1, WhenToolsAct DEF Phase, Pressing
<1>5. Dictated!Type
  BY <1>1, <1>2, <1>3, <1>4 DEF Dictated!Type, Dictated!NotYet
<1>6. Wished'
  BY <1>1, <1>2 DEF Wished, First, Second, Finding
<1> QED BY <1>1, <1>4, <1>5, <1>6 DEF Fits, Dictated!Next, Dictated!Delivering

(* xdotool types, pastes or presses Return.                                 *)
LEMMA PressesSeen ==
  ASSUME IInv, Wished, Presses, UNCHANGED stage PROVE Wished' /\ Fits
<1>1. /\ pc \in Pressing /\ child = "running"
      /\ window' = CASE pc = "type"  -> <<"text">>
                     [] pc = "paste" -> Append(window, "paste")
                     [] OTHER        -> Append(window, "enter")
      /\ UNCHANGED <<config, pc, outcome, mistyped, clipboard>>
  BY DEF Presses, Program, FinishWork
<1>2. Delivers /\ Phase = "delivering" /\ Phase' = Phase
  BY <1>1, WhenToolsAct DEF Phase
<1>3. mistyped \in BOOLEAN /\ WindowOK /\ ClipboardOK /\ ~(pc = "paste" /\ Worked)
  BY <1>1 DEF IInv, Types, Texts, ToolsOK, CallOK, Worked
<1>4. CASE pc = "type"
  <2>1. /\ window' = <<"text">> /\ window \in Unpasted /\ mistyped = FALSE
        /\ config.method = "inject" /\ (clipboard = "other" \/ config.also_copy)
    BY <1>1, <1>3, <1>4 DEF WindowOK, Wished, Second
  <2>2. /\ Shown \in {"empty", "typed"} /\ Shown' = "typed"
        /\ Reached("enter") = FALSE /\ Reached("enter")' = FALSE
    BY <1>1, <2>1, View, ViewNext, Windows DEF Views
  <2>3. Wished'
    BY <1>1, <1>4, <2>1 DEF Wished, First, Second, Finding
  <2>4. CASE Shown = "empty"
    <3>1. Dictated!Type
      BY <1>1, <1>2, <2>1, <2>2, <2>4 DEF Dictated!Type, Dictated!NotYet
    <3> QED BY <1>1, <1>2, <2>3, <3>1 DEF Fits, Dictated!Next, Dictated!Delivering
  <2>5. CASE Shown = "typed"
    BY <1>1, <1>2, <2>2, <2>3, <2>5 DEF Fits, Dictated!vars
  <2> QED BY <2>2, <2>4, <2>5
<1>5. CASE pc = "paste"
  <2>1. /\ window \in Unpasted /\ window' = Append(window, "paste") /\ clipboard = "text"
        /\ config.auto_paste /\ (window \in Typed => mistyped) /\ (mistyped => window # << >>)
    BY <1>1, <1>3, <1>5 DEF WindowOK, ClipboardOK, Wished
  <2>2. window' \in Pasted /\ window' # << >>
    BY <2>1, Windows DEF Unpasted
  <2>3. /\ Shown \in {"empty", "slipped"} /\ Shown' = "pasted"
        /\ Reached("enter") = FALSE /\ Reached("enter")' = FALSE
    BY <1>1, <2>1, <2>2, View, ViewNext, Windows DEF Views
  <2>4. Dictated!Paste
    BY <1>1, <1>2, <2>1, <2>3 DEF Dictated!Paste, Dictated!NotYet
  <2>5. Wished'
    BY <1>1, <1>5, <2>1, <2>2 DEF Wished, First, Second, Finding
  <2> QED BY <1>1, <1>2, <2>4, <2>5 DEF Fits, Dictated!Next, Dictated!Delivering
<1>6. CASE pc \in {"return_typed", "return_pasted"}
  <2>1. /\ pc = "return_typed" => window \in Keyed /\ mistyped = FALSE
        /\ pc = "return_pasted" => window \in Pasted
        /\ window' = Append(window, "enter") /\ config.return_key
    BY <1>1, <1>3, <1>6 DEF WindowOK, Wished, Second
  <2>2. /\ pc = "return_typed" =>
             window' \in KeyedEntered /\ (window' \in Missed <=> window \in Missed)
        /\ pc = "return_pasted" => window' \in Entered
    BY <2>1, Windows
  <2>3. /\ Shown \in {"typed", "missed", "pasted"} /\ Shown' = Shown
        /\ Reached("enter") = FALSE /\ Reached("enter")' = TRUE
    BY <1>1, <1>6, <2>1, <2>2, View, ViewNext, Windows DEF Views
  <2>4. Dictated!Return
    BY <1>1, <1>2, <2>1, <2>3 DEF Dictated!Return, Dictated!NotYet
  <2>5. Wished'
    BY <1>1, <1>6, <2>1 DEF Wished, First, Second, Finding
  <2> QED BY <1>1, <1>2, <2>4, <2>5 DEF Fits, Dictated!Next, Dictated!Delivering
<1> QED BY <1>1, <1>4, <1>5, <1>6 DEF Pressing

(* Nothing else that goes on around inject() is seen.                       *)
LEMMA AroundSeen ==
  ASSUME Wished, UNCHANGED <<config, pc, outcome, window, clipboard, mistyped>>, UNCHANGED Phase
  PROVE  Wished' /\ Fits
<1>1. Wished'
  BY DEF Wished
<1> QED BY <1>1, NotSeen DEF Fits, Dictated!vars

(* All steps of tools, calls and time.                                      *)
LEMMA OutsideSeen ==
  ASSUME IInv, Wished, Calls \/ TimePasses \/ Tool \/ Hangs, UNCHANGED stage
  PROVE  Wished' /\ Fits
<1>1. CASE Owns \/ TypesPart \/ Presses
  BY <1>1, OwnsSeen, TypesPartSeen, PressesSeen
<1>2. CASE UNCHANGED <<config, pc, outcome, window, clipboard, mistyped>>
  <2>1. UNCHANGED Phase
    BY <1>2 DEF Phase
  <2> QED BY <1>2, <2>1, AroundSeen
<1> QED BY <1>1, <1>2 DEF Calls, TimePasses, Hangs, Tool, Finds, Program, outputVars

(* The daemon thread outside inject().                                      *)
LEMMA StartUpSeen ==
  ASSUME IInv, Wished, StartUp PROVE Wished' /\ Fits
<1>1. /\ stage = "starting" /\ stage' = IF pc' = "idle" THEN "idle" ELSE "starting"
      /\ pc \in Finding \cup {"initialize"} /\ pc' \in Finding \cup {"idle"}
      /\ UNCHANGED <<config, outcome, window, clipboard, mistyped>>
  BY DEF StartUp, Initialize, FindTools, Found, Returned, Here, Run, Goto, Finding
<1>2. Phase = "off" /\ Phase' \in {"off", "ready"}
  BY <1>1 DEF Phase
<1>3. Dictated!StartUp \/ UNCHANGED Dictated!vars
  BY <1>1, <1>2, NotSeen DEF Dictated!StartUp, Dictated!Goes, Dictated!Untouched, Dictated!vars
<1>4. Wished'
  BY <1>1 DEF Wished, First, Second, Finding
<1> QED BY <1>3, <1>4 DEF Fits, Dictated!Next

(* The handlers around the delivery.                                        *)
LEMMA HandleStartSeen ==
  ASSUME IInv, HandleStart PROVE Wished' /\ Fits
<1>1. /\ stage = "idle" /\ stage' = "recording" /\ UNCHANGED config
      /\ pc' = "idle" /\ outcome' = NoOutcome
      /\ window' = << >> /\ clipboard' = "other" /\ mistyped' = FALSE
  BY DEF HandleStart, Goes
<1>2. Phase = "ready" /\ Phase' = "recording"
  BY <1>1 DEF Phase
<1>3. Shown' = "empty" /\ Reached("enter")' = FALSE
  BY <1>1, ViewNext, Windows DEF Views
<1>4. Dictated!Record
  BY <1>1, <1>2, <1>3 DEF Dictated!Record, Dictated!Goes, Dictated!Nothing, NoOutcome
<1>5. Wished'
  BY <1>1 DEF Wished, First, Second, Finding
<1> QED BY <1>4, <1>5 DEF Fits, Dictated!Next

LEMMA HandlersSeen ==
  ASSUME IInv, Wished,
         \/ HandleCancel \/ HandleStop \/ TooShort \/ NothingSaid \/ Fails \/ Deliver
         \/ Injected \/ ComeToRest
  PROVE  Wished' /\ Fits
<1>1. UNCHANGED <<config, pc, outcome, window, clipboard, mistyped>>
  BY DEF HandleCancel, HandleStop, TooShort, NothingSaid, Fails, Deliver, Injected, ComeToRest,
     Outputless, outputVars
<1>2. Wished' /\ Dictated!Untouched
  BY <1>1, NotSeen DEF Wished, Dictated!Untouched
<1>3. \/ stage \in {"recording", "idle"} /\ stage' = "idle"
      \/ stage = "recording" /\ stage' = "thinking"
      \/ stage = "thinking" /\ stage' \in {"idle", "finish", "injecting"}
      \/ stage = "injecting" /\ pc = "done" /\ stage' = "finish"
      \/ stage = "finish" /\ stage' = "idle"
  BY DEF HandleCancel, HandleStop, TooShort, NothingSaid, Fails, Deliver, Injected, ComeToRest, Goes
<1>4. stage = "thinking" => pc = "idle"
  BY DEF IInv, StageOK
<1>5. \/ Phase = "recording" /\ Phase' \in {"ready", "thinking"}
      \/ Phase = "thinking" /\ Phase' \in {"ready", "told", "delivering"}
      \/ Phase = "told" /\ Phase' = "ready"
      \/ Phase' = Phase
  BY <1>1, <1>3, <1>4 DEF Phase
<1>6. CASE Phase' = Phase
  BY <1>1, <1>2, <1>6, NotSeen DEF Fits, Dictated!vars
<1>7. CASE Phase' # Phase
  <2>1. Dictated!Cancel \/ Dictated!Stop \/ Dictated!NothingHeard \/ Dictated!Deliver \/ Dictated!Rest
    BY <1>2, <1>5, <1>7 DEF Dictated!Cancel, Dictated!Stop, Dictated!NothingHeard, Dictated!Deliver,
       Dictated!Rest, Dictated!Goes
  <2> QED BY <1>2, <2>1 DEF Fits, Dictated!Next
<1> QED BY <1>6, <1>7

(* SIGPIPE comes while a tool is given the text.                            *)
LEMMA StartAgainSeen ==
  ASSUME IInv, StartAgain PROVE Wished' /\ Fits
<1>1. /\ call.step = "killed" /\ stage' = "starting" /\ UNCHANGED config
      /\ pc' = "initialize" /\ outcome' = NoOutcome
      /\ window' = << >> /\ clipboard' = "other" /\ mistyped' = FALSE
  BY DEF StartAgain
<1>2. pc \in Copying
  BY <1>1 DEF IInv, ToolsOK, CallOK, InputOK, NoCall
<1>3. Phase = "delivering" /\ Phase' = "off"
  BY <1>1, <1>2, WhenToolsAct DEF Phase
<1>4. Shown' = "empty" /\ Reached("enter")' = FALSE
  BY <1>1, ViewNext, Windows DEF Views
<1>5. Dictated!Crash
  BY <1>1, <1>3, <1>4 DEF Dictated!Crash, Dictated!Goes, Dictated!Nothing, NoOutcome
<1>6. Wished'
  BY <1>1 DEF Wished, First, Second, Finding
<1> QED BY <1>5, <1>6 DEF Fits, Dictated!Next

(* Every step is one of the abstract dictation, or is not seen.             *)
LEMMA EveryStepFits == IInv /\ Wished /\ [Next]_vars => Wished' /\ Fits
<1> SUFFICES ASSUME IInv, Wished, [Next]_vars PROVE Wished' /\ Fits
  OBVIOUS
<1>1. CASE DaemonThread
  <2>1. CASE InjectStep
    <3>1. Delivers /\ stage' = stage
      BY <2>1 DEF InjectStep, Delivers, Injecting, Inject, CopyReturns, XTest, TypeReturns,
         PasteReturns, ReturnReturns, Returned, Copying
    <3> QED BY <2>1, <3>1, InjectSeen, CopyReturnsSeen, XTestSeen, TypeReturnsSeen, PasteReturnsSeen,
            ReturnReturnsSeen DEF InjectStep, Injecting
  <2> QED BY <1>1, <2>1, StartUpSeen, HandleStartSeen, HandlersSeen DEF DaemonThread
<1>2. CASE (Calls \/ TimePasses \/ Tool \/ Hangs) /\ Inside
  BY <1>2, OutsideSeen DEF Inside
<1>3. CASE ((Tick \/ Expire) /\ Outputless /\ UNCHANGED <<stage, hurried>>) \/ UNCHANGED vars
  <2>1. UNCHANGED <<config, pc, outcome, window, clipboard, mistyped, stage>>
    BY <1>3 DEF Outputless, outputVars, vars
  <2>2. UNCHANGED Phase
    BY <2>1 DEF Phase
  <2> QED BY <2>1, <2>2, AroundSeen
<1>4. CASE StartAgain
  BY <1>4, StartAgainSeen
<1> QED BY <1>1, <1>2, <1>3, <1>4 DEF Next

(* What the handlers, inject() and its tools do is a dictation as the user  *)
(* sees it (inject(), deliver_inject() and deliver_clipboard() in           *)
(* output_common.cpp): nothing late from a tool that was given up, no       *)
(* second text, no paste of a clipboard that is not ready, no needless      *)
(* overwriting of the clipboard, no report that is not true.                *)
THEOREM ImplementsDictation == Spec => IsDictation
<1>1. Init => Wished /\ Dictated!Init
  <2> SUFFICES ASSUME Init PROVE Wished /\ Dictated!Init
    OBVIOUS
  <2>1. /\ pc = "initialize" /\ window = << >> /\ clipboard = "other" /\ mistyped = FALSE
        /\ outcome = NoOutcome /\ stage = "starting" /\ config \in OutputConfig
    BY DEF Init, OutputInit
  <2>2. Phase = "off" /\ Shown = "empty" /\ Reached("enter") = FALSE
    BY <2>1, View, Windows DEF Views, Phase
  <2> QED BY <2>1, <2>2 DEF Wished, First, Second, Finding, Dictated!Init, Dictated!Nothing,
             Dictated!Wishes, NoOutcome, OutputConfig
<1>2. IInv /\ Wished /\ [Next]_vars => Wished' /\ [Dictated!Next]_(Dictated!vars)
  BY EveryStepFits DEF Fits
<1> QED BY <1>1, <1>2, Invariance, PTL DEF Spec, IsDictation, Dictated!Spec
=============================================================================
