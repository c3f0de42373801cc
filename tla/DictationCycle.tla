--------------------------- MODULE DictationCycle ---------------------------
(***************************************************************************)
(* The daemon as a user sees it (the state machine of                      *)
(* engineering/architecture.md, "Daemon lifecycle"), with the microphone:  *)
(*                                                                         *)
(*   IDLE --START--> RECORDING --STOP--> PROCESSING --done/error--> IDLE   *)
(*                       |--CANCEL-------------------------------> IDLE    *)
(*                                                                         *)
(* The microphone opens only during a recording, and each recording has    *)
(* closed it by the time the daemon is idle again.  Once shutdown has been *)
(* asked for the cycle is abandoned, and all that is left to happen is     *)
(* that the microphone closes for good.                                    *)
(***************************************************************************)
VARIABLES
  phase,       \* "IDLE", "RECORDING", "PROCESSING" or "SHUTDOWN"
  microphone,  \* the capture device is open
  gone         \* the program has ended

Init == phase = "IDLE" /\ microphone = FALSE /\ gone = FALSE

Start ==
  /\ phase = "IDLE" /\ phase' = "RECORDING"
  /\ UNCHANGED <<microphone, gone>>

Open ==
  /\ phase \in {"RECORDING", "SHUTDOWN"} /\ ~gone
  /\ microphone' = TRUE
  /\ UNCHANGED <<phase, gone>>

Stop ==
  /\ phase = "RECORDING" /\ phase' = "PROCESSING"
  /\ UNCHANGED <<microphone, gone>>

Close ==
  /\ microphone' = FALSE
  /\ UNCHANGED <<phase, gone>>

Done ==
  /\ phase = "PROCESSING" /\ ~microphone /\ phase' = "IDLE"
  /\ UNCHANGED <<microphone, gone>>

Cancel ==
  /\ phase = "RECORDING" /\ ~microphone /\ phase' = "IDLE"
  /\ UNCHANGED <<microphone, gone>>

Shutdown ==
  /\ phase' = "SHUTDOWN"
  /\ UNCHANGED <<microphone, gone>>

End ==
  /\ phase = "SHUTDOWN" /\ ~microphone /\ gone' = TRUE
  /\ UNCHANGED <<phase, microphone>>

Next == Start \/ Open \/ Stop \/ Close \/ Done \/ Cancel \/ Shutdown \/ End

Spec == Init /\ [][Next]_<<phase, microphone, gone>>
=============================================================================
