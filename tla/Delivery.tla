------------------------------ MODULE Delivery ------------------------------
(***************************************************************************)
(* From the end of a recording to the focused window, over and over: the   *)
(* daemon thread in handle_start(), handle_stop() and handle_cancel()      *)
(* (daemon.cpp), with what it calls on the way: OutputManager.tla over      *)
(* Subprocess.tla, and the companion that shows it (AvatarTicker.tla).     *)
(* Transcription.tla has what becomes of the text before it is injected,   *)
(* and Daemon.tla the events and the other threads.                        *)
(***************************************************************************)
EXTENDS OutputManager, AvatarTicker

VARIABLES
  stage,   \* where the daemon thread is
  hurried  \* history: the last recording was too short, and the avatar not told

vars == <<call, child, status, stdin, output, late,
          config, available, pc, outcome, window, clipboard, mistyped,
          requested, dirty, machine, latched, stage, hurried>>

TypeOK ==
  /\ OutputTypeOK /\ AvatarTypeOK
  /\ stage \in {"starting", "idle", "recording", "thinking", "injecting", "finish"}
  /\ hurried \in BOOLEAN

Init ==
  /\ OutputInit /\ AvatarInit
  /\ stage = "starting" /\ hurried = FALSE

-----------------------------------------------------------------------------
Silently == UNCHANGED avatarVars
Outputless == UNCHANGED <<subprocessVars, outputVars>>
Goes(from, to) == stage = from /\ stage' = to

StartUp ==
  /\ stage = "starting" /\ (Initialize \/ FindTools)
  /\ stage' = IF pc' = "idle" THEN "idle" ELSE "starting"
  /\ Silently /\ UNCHANGED hurried

(* handle_start().  Meanwhile the user has copied something else.           *)
HandleStart ==
  /\ Goes("idle", "recording") /\ Request("Summoned")
  /\ pc' = "idle" /\ outcome' = NoOutcome
  /\ window' = <<>> /\ clipboard' = "other" /\ mistyped' = FALSE
  /\ hurried' = FALSE
  /\ UNCHANGED <<subprocessVars, config, available>>

HandleCancel ==
  /\ stage \in {"recording", "idle"} /\ stage' = "idle"
  /\ Request("Idle") /\ hurried' = FALSE
  /\ Outputless

(* handle_stop() ...                                                        *)
HandleStop ==
  /\ Goes("recording", "thinking") /\ Request("Thinking")
  /\ Outputless /\ UNCHANGED hurried

(* ... ends early after less than MIN_DURATION, the avatar untold; that     *)
(* trim_silence() leaves nothing of a longer one does not happen ...        *)
TooShort ==
  /\ Goes("thinking", "idle") /\ hurried' = TRUE
  /\ Outputless /\ Silently

(* ... or finds no words in the transcript ...                              *)
NothingSaid ==
  /\ Goes("thinking", "finish") /\ Silently
  /\ Outputless /\ UNCHANGED hurried

(* ... or meets an exception ...                                            *)
Fails ==
  /\ Goes("thinking", "finish") /\ Request("Error")
  /\ Outputless /\ UNCHANGED hurried

(* ... or injects the transcript ...                                        *)
Deliver ==
  /\ Goes("thinking", "injecting") /\ Request("Writing")
  /\ Outputless /\ UNCHANGED hurried

InjectStep ==
  /\ stage = "injecting" /\ Injecting
  /\ Silently /\ UNCHANGED <<stage, hurried>>

Injected ==
  /\ pc = "done" /\ Goes("injecting", "finish")
  /\ IF outcome.success THEN Silently ELSE Request("Error")
  /\ Outputless /\ UNCHANGED hurried

(* ... and comes to rest.                                                   *)
ComeToRest ==
  /\ Goes("finish", "idle") /\ Request("Idle")
  /\ Outputless /\ UNCHANGED hurried

DaemonThread ==
  \/ StartUp \/ HandleStart \/ HandleCancel \/ HandleStop \/ TooShort \/ NothingSaid \/ Fails
  \/ Deliver \/ InjectStep \/ Injected \/ ComeToRest

Inside == UNCHANGED <<requested, dirty, machine, latched, stage, hurried>>

(* The daemon is gone, and its user starts it anew: systemd counts SIGPIPE  *)
(* as a clean exit and does not (Restart=on-failure).                       *)
StartAgain ==
  /\ call.step = "killed"
  /\ call' = NoCall /\ child' = "none" /\ status' = 0
  /\ stdin' = ClosedStdin /\ output' = ClosedOutput /\ late' = FALSE
  /\ available' = {} /\ pc' = "initialize" /\ outcome' = NoOutcome
  /\ window' = <<>> /\ clipboard' = "other" /\ mistyped' = FALSE
  /\ requested' = "Idle" /\ dirty' = FALSE /\ machine' = "Idle" /\ latched' = {}
  /\ stage' = "starting" /\ hurried' = FALSE
  /\ UNCHANGED config

Next ==
  \/ DaemonThread
  \/ (Calls \/ TimePasses \/ Tool \/ Hangs) /\ Inside
  \/ (Tick \/ Expire) /\ Outputless /\ UNCHANGED <<stage, hurried>>
  \/ StartAgain

Spec == Init /\ [][Next]_vars

(* The daemon thread, once it has a recording, the tools and the companion  *)
(* go on; only a tool that hangs may count on the deadline.                 *)
FairSpec ==
  /\ Spec
  /\ WF_vars(stage \notin {"idle", "recording"} /\ DaemonThread)
  /\ WF_vars(Calls /\ Inside) /\ WF_vars(Tool /\ Inside)
  /\ WF_vars(child = "hung" /\ TimePasses /\ Inside)
  /\ WF_vars(Tick /\ Outputless /\ UNCHANGED <<stage, hurried>>)
  /\ WF_vars(Expire /\ Outputless /\ UNCHANGED <<stage, hurried>>)

-----------------------------------------------------------------------------
(* What the user sees of it.                                                *)
Phase ==
  IF stage = "starting" THEN "off"
  ELSE IF stage = "idle" THEN "ready"
  ELSE IF stage = "finish" \/ (stage = "injecting" /\ pc = "done") THEN "told"
  ELSE IF stage = "injecting" THEN "delivering"
  ELSE stage

Shown ==
  IF Reached("paste") THEN "pasted"
  ELSE IF mistyped THEN "slipped"
  ELSE IF Reached("nothing") THEN "missed"
  ELSE IF window = << >> THEN "empty"
  ELSE "typed"

Dictated == INSTANCE Dictation
  WITH phase <- Phase, wishes <- config, window <- Shown, entered <- Reached("enter"),
       report <- outcome

(* The handlers, the two ways of injecting with their fallbacks, and tools  *)
(* that fail, hang or are killed at any step implement a dictation as the   *)
(* user sees it: no text in the window before or after its delivery, none   *)
(* twice, none pasted that is not yet on the clipboard, no clipboard that   *)
(* is overwritten without need, no report that is not true, but that a text *)
(* of which XTest typed nothing is reported as injected.                    *)
IsDictation == Dictated!Spec

-----------------------------------------------------------------------------
(* Every delivery ends, also when a tool hangs or leaves a process on its   *)
(* pipes, and it waits for the deadline only if a tool hangs ("without this *)
(* we'd block until the full timeout", subprocess.cpp).  Excepted is the    *)
(* SIGPIPE of a tool that exits before it has read its input.               *)
DeliveryEnds == stage = "injecting" ~> (stage # "injecting" \/ call.step = "killed")

(* Beside an idle daemon the companion comes to rest, whatever it was shown *)
(* before and between which of its ticks the requests fell.  Excepted is a  *)
(* recording that was too short, after which it keeps thinking.             *)
CompanionRests == []<>(stage = "idle" /\ ~hurried => Effective = "Idle")
=============================================================================
