----------------------------- MODULE Subprocess -----------------------------
(***************************************************************************)
(* run_command() and run_command_with_input() (subprocess.cpp): one child  *)
(* at a time, its pipes and the deadline.                                  *)
(*                                                                         *)
(* stdout and stderr, which are treated alike, are one pipe.  A child may  *)
(* leave a background process behind that keeps the pipes open, as xclip   *)
(* does, and it may hang.                                                  *)
(***************************************************************************)
EXTENDS Integers

CONSTANTS
  Size,     \* chunks of the input
  Capacity  \* chunks a pipe holds

ASSUME PipeAssumption == Size \in Nat \ {0} /\ Capacity \in Nat \ {0}

VARIABLES
  call,    \* step of the caller, its function, and the exit code once returned
  child,   \* "none", "running", "finished" (its work), "hung", "zombie"
  status,  \* what the child exits with
  stdin,   \* chunks written and read, ends open
  output,  \* the caller's end, and what holds the other one
  late     \* the deadline has passed

subprocessVars == <<call, child, status, stdin, output, late>>

Functions == {"run_command", "with_input"}
ClosedStdin == [written |-> 0, read |-> 0, open |-> FALSE, reader |-> FALSE]
ClosedOutput == [open |-> FALSE, held |-> FALSE]

SubprocessTypeOK ==
  /\ call \in [fn : Functions, step : {"idle", "pump", "wait", "returned", "killed"},
               code : {-1, 0, 1}]
  /\ child \in {"none", "running", "finished", "hung", "zombie"}
  /\ status \in {0, 1}
  /\ stdin \in [written : 0..Size, read : 0..Size, open : BOOLEAN, reader : BOOLEAN]
  /\ output \in [open : BOOLEAN, held : BOOLEAN]
  /\ late \in BOOLEAN

NoCall == [fn |-> "run_command", step |-> "idle", code |-> 0]

SubprocessInit ==
  /\ call = NoCall
  /\ child = "none" /\ status = 0
  /\ stdin = ClosedStdin /\ output = ClosedOutput /\ late = FALSE

Calling == call.step \in {"pump", "wait"}
ChildHasFiles == child \in {"running", "finished", "hung"}

-----------------------------------------------------------------------------
(* The caller.                                                              *)

(* fork(): the caller goes on to the poll loop, the child to its program.   *)
Spawn(fn) ==
  /\ call' = [fn |-> fn, step |-> "pump", code |-> -1]
  /\ child' = "running" /\ status' = 1 /\ late' = FALSE
  /\ stdin' = [ClosedStdin EXCEPT !.open = fn = "with_input", !.reader = fn = "with_input"]
  /\ output' = [open |-> TRUE, held |-> FALSE]

(* pipe() or fork() failed: exit_code keeps its initial -1.                 *)
SpawnFails(fn) ==
  /\ call' = [fn |-> fn, step |-> "returned", code |-> -1]
  /\ UNCHANGED <<child, status, stdin, output, late>>

(* The call returns and its pipes are closed.                               *)
Returns(code) ==
  /\ call' = [call EXCEPT !.step = "returned", !.code = code]
  /\ status' = 0 /\ stdin' = ClosedStdin /\ output' = ClosedOutput /\ late' = FALSE

(* Defective: the end of the input is seen one chunk too late.              *)
WritesTooMuch ==
  /\ call.step = "pump" /\ stdin.open
  /\ stdin.reader /\ stdin.written - stdin.read < Capacity
  /\ stdin' = [stdin EXCEPT !.written = @ + 1, !.open = stdin.written < Size]
  /\ UNCHANGED <<call, child, status, output, late>>

(* A chunk goes into a pipe with room.  Nobody is left to read: SIGPIPE,    *)
(* which the program does not ignore.                                       *)
WriteInput ==
  /\ call.step = "pump" /\ stdin.open
  /\ IF ~stdin.reader
     THEN call' = [call EXCEPT !.step = "killed"] /\ UNCHANGED stdin
     ELSE /\ stdin.written - stdin.read < Capacity
          /\ stdin' = [stdin EXCEPT !.written = @ + 1, !.open = stdin.written + 1 < Size]
          /\ UNCHANGED call
  /\ UNCHANGED <<child, status, output, late>>

(* Everything that held the other end is gone.                              *)
OutputEnds ==
  /\ call.step = "pump" /\ output.open /\ ~output.held /\ ~ChildHasFiles
  /\ output' = [output EXCEPT !.open = FALSE]
  /\ UNCHANGED <<call, child, status, stdin, late>>

(* Defective: only the end of the output tells that the child has exited.   *)
WaitsForOutput ==
  /\ child = "zombie" /\ child' = "none"
  /\ call.step = "wait"
  /\ Returns(status)

(* Both are done, or, given an input, it is written and the child is gone   *)
(* though something keeps its output open.                                  *)
Reap ==
  /\ child = "zombie" /\ child' = "none"
  /\ call.step = "wait" \/ (call.step = "pump" /\ call.fn = "with_input" /\ ~stdin.open)
  /\ Returns(status)

Pumped ==
  /\ call.step = "pump" /\ ~stdin.open /\ ~output.open
  /\ call' = [call EXCEPT !.step = "wait"]
  /\ UNCHANGED <<child, status, stdin, output, late>>

(* Defective: the child is killed and not waited for.                       *)
KillsOnly ==
  /\ Calling /\ late /\ child' = "zombie"
  /\ Returns(-1)

(* Defective: the pipes are closed, then the child is killed.               *)
ClosesFirst ==
  /\ Calling /\ late
  /\ IF stdin.open
     THEN stdin' = [stdin EXCEPT !.open = FALSE] /\ UNCHANGED <<call, child, status, output, late>>
     ELSE child' = "none" /\ Returns(-1)

(* terminate_child() waits for the child, then the pipes are closed.        *)
TimeOut ==
  /\ Calling /\ late /\ child' = "none"
  /\ Returns(-1)

Caller == WriteInput \/ OutputEnds \/ Reap \/ Pumped \/ TimeOut

(* Time passes.                                                             *)
Deadline ==
  /\ Calling /\ ~late /\ late' = TRUE
  /\ UNCHANGED <<call, child, status, stdin, output>>

-----------------------------------------------------------------------------
(* The child; what its program does is left to the caller's module.         *)

ReadInput ==
  /\ child = "running" /\ stdin.reader /\ stdin.read < stdin.written
  /\ stdin' = [stdin EXCEPT !.read = @ + 1]
  /\ UNCHANGED <<call, child, status, output, late>>

AtEndOfInput == ~stdin.open /\ stdin.read = stdin.written

FinishWork == child = "running" /\ child' = "finished"

(* It exits, 0 when its work is done, and its files are closed; what it     *)
(* leaves in the background keeps those it inherited.                       *)
Exit(leavesHolder) ==
  /\ child \in {"running", "finished"} /\ child' = "zombie"
  /\ status' = IF child = "finished" THEN 0 ELSE 1
  /\ leavesHolder => child = "finished" /\ call.fn = "with_input"
  /\ output' = [output EXCEPT !.held = leavesHolder /\ output.open]
  /\ stdin' = [stdin EXCEPT !.reader = leavesHolder /\ stdin.reader]
  /\ UNCHANGED <<call, late>>

(* It waits for something that does not come.                               *)
Hang ==
  /\ child \in {"running", "finished"} /\ child' = "hung"
  /\ UNCHANGED <<call, status, stdin, output, late>>

-----------------------------------------------------------------------------
(* A call that has returned leaves no process and no descriptor behind,     *)
(* whatever the child did and wherever the deadline fell: a daemon that     *)
(* runs for weeks would run out of both.                                    *)
NothingLeft ==
  call.step \in {"idle", "returned"} =>
    child = "none" /\ stdin = ClosedStdin /\ output = ClosedOutput
=============================================================================
