---------------------------- MODULE StdioServer ----------------------------
(***************************************************************************)
(* The child process `autowhisper serve --stdio`: loading the model        *)
(* (cmd_serve in cli.cpp, inference.cpp), one line in and one line out     *)
(* (local_protocol.cpp), the transcription behind it                       *)
(* (autowhisper_runtime.cpp, audio_file.cpp), and its death.               *)
(*                                                                         *)
(* A client owns one child at a time, so child k is the last one client k  *)
(* has started.  responses[k] is its stdout: the pipe, the client's        *)
(* reading thread and the queue that thread fills, in order.               *)
(***************************************************************************)
EXTENDS Naturals, Sequences, FiniteSets

CONSTANTS
  Clients,  \* LocalServiceClient objects
  Models,
  NoId      \* the null id of an answer to a line that was not understood

ASSUME ModelAssumption == Models # {}

VARIABLES
  child,      \* phase, model, unread stdin, SIGTERM on its way
  responses   \* lines the client has not taken yet

serverVars == <<child, responses>>

Dead == [phase |-> "dead", model |-> CHOOSE m \in Models : TRUE,
         stdin |-> <<>>, told |-> FALSE]

Alive(k) == child[k].phase # "dead"

ServerInit ==
  /\ child = [k \in Clients |-> Dead]
  /\ responses = [k \in Clients |-> <<>>]

(* A line for the queue: the id it echoes, what it says, for which file     *)
(* and by which model.                                                      *)
Line(id, kind, request, k) ==
  [id |-> id, kind |-> kind, of |-> request.of, model |-> child[k].model]

StreamFailure == [kind |-> "stream_failure"]

-----------------------------------------------------------------------------
(* The model is loaded before the first line is read.                       *)
Load(k) ==
  /\ child[k].phase = "loading"
  /\ child' = [child EXCEPT ![k].phase = "serving"]
  /\ UNCHANGED responses

(* AutoWhisperRuntime::transcribe_file(): another model than the loaded one *)
(* is refused.  A transcript, none, a failure and parameters that are       *)
(* refused all come back with the id, and are one here.                     *)
Transcription(k, request) ==
  IF request.model # child[k].model THEN "model_mismatch" ELSE "result"

(* ProtocolHandler: what is answered to a request.  A line of more than     *)
(* 1 MiB is answered without its id.                                        *)
Response(k, request) ==
  CASE request.method = "health" -> Line(request.id, "ready", request, k)
    [] request.method = "shutdown" -> Line(request.id, "stopping", request, k)
    [] request.method = "transcribe_file" /\ request.input = "huge" ->
         Line(NoId, "error", request, k)
    [] OTHER -> Line(request.id, Transcription(k, request), request, k)

(* _read_stdout() passes the lines on and, at the end of the stream, says   *)
(* that it has ended.                                                       *)
Say(k, lines) == responses' = [responses EXCEPT ![k] = @ \o lines]
End(k) == child' = [child EXCEPT ![k] = Dead]

(* StdioServer::run(): a line read, answered and flushed; the process ends  *)
(* after it has answered a shutdown.                                        *)
Serve(k) ==
  /\ child[k].phase = "serving" /\ child[k].stdin # <<>>
  /\ LET request == Head(child[k].stdin)
     IN IF request.method = "shutdown"
        THEN Say(k, <<Response(k, request), StreamFailure>>) /\ End(k)
        ELSE /\ Say(k, <<Response(k, request)>>)
             /\ child' = [child EXCEPT ![k].stdin = Tail(@)]

(* The child ends by itself: a model that does not load, a crash, or a text *)
(* that is no UTF-8, for which dump() throws outside every handler of run().*)
Crash(k) == Alive(k) /\ Say(k, <<StreamFailure>>) /\ End(k)

(* SIGTERM arrives.                                                         *)
Obey(k) == Alive(k) /\ child[k].told /\ Say(k, <<StreamFailure>>) /\ End(k)
=============================================================================
