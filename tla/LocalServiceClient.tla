------------------------- MODULE LocalServiceClient -------------------------
(***************************************************************************)
(* LocalServiceClient of the Fabric integration (protocol.py): one child   *)
(* per client, started when it is needed, asked one thing at a time, given *)
(* up and replaced after a failure, and stopped politely or not.           *)
(*                                                                         *)
(* call[t] is thread t's way through the code; every step of it is taken   *)
(* with the lock or waits for it.  A child may die between any two steps.  *)
(***************************************************************************)
EXTENDS StdioServer

CONSTANTS
  Threads,
  NoThread

ASSUME ThreadAssumption == NoThread \notin Threads

VARIABLES
  process,  \* a client's _process is not None
  lock,     \* a client's _lock
  call      \* per thread: step, client and what it carries

clientVars == <<process, lock, call>>

ClientSteps ==
  {"attempt", "start", "ask_health", "stop_failed", "health", "ask", "writing", "answer",
   "failed", "give_up", "close", "ask_shutdown", "shutdown", "stop", "wait", "terminated"}

ClientInit ==
  /\ process = [k \in Clients |-> FALSE]
  /\ lock = [k \in Clients |-> NoThread]

At(t, step) == call[t].step = step
Client(t) == call[t].client

(* Thread t goes on at step.                                                *)
Go(t, step) == call' = [call EXCEPT ![t].step = step]

(* A fault of the child hits an attempt: the child cannot be started, dies  *)
(* or does not answer in time.                                              *)
Hit(c) == [c EXCEPT !.fault = TRUE]

Lock(k, t) == lock[k] = NoThread /\ lock' = [lock EXCEPT ![k] = t]
Unlock(k) == lock' = [lock EXCEPT ![k] = NoThread]

(* _request_locked(), up to the wait: an id of its own, and a line for a    *)
(* child that still runs.  The pipe to it is empty, and holds any line but  *)
(* a huge one.                                                              *)
InFlight(k) ==
  {child[k].stdin[i].id : i \in DOMAIN child[k].stdin} \cup
  {responses[k][i].id : i \in {j \in DOMAIN responses[k] : responses[k][j] # StreamFailure}}

FreshId(k) == CHOOSE id \in 1 .. (Cardinality(InFlight(k)) + 1) : id \notin InFlight(k)

Request(t, method) ==
  [id |-> FreshId(Client(t)), method |-> method, of |-> t,
   model |-> call[t].model, input |-> call[t].input]

Write(t, method, wait, broken) ==
  LET k == Client(t)
  IN IF Alive(k)
     THEN /\ child' = [child EXCEPT ![k].stdin = Append(@, Request(t, method))]
          /\ call' = [call EXCEPT ![t].step = wait, ![t].id = FreshId(k)]
     ELSE Go(t, broken) /\ UNCHANGED child

(* ... and the wait for the next line; validate_response() wants the id of  *)
(* the request.                                                             *)
Arrived(t) == responses[Client(t)] # <<>>
Item(t) == Head(responses[Client(t)])
Take(t) == responses' = [responses EXCEPT ![Client(t)] = Tail(@)]

Valid(t) == Item(t) # StreamFailure /\ Item(t).id = call[t].id

-----------------------------------------------------------------------------
(* transcribe_file(): an attempt.  A child that runs is used as it is.      *)
Attempt(t) ==
  /\ At(t, "attempt")
  /\ LET k == Client(t)
     IN /\ Lock(k, t)
        /\ IF process[k] /\ Alive(k) THEN Go(t, "ask") ELSE Go(t, "start")
  /\ UNCHANGED <<serverVars, process>>

(* Defective: the queue of the last child serves the next.                  *)
StartsOnOldQueue(t) ==
  /\ At(t, "start")
  /\ LET k == Client(t)
     IN \/ /\ process' = [process EXCEPT ![k] = TRUE]
           /\ child' = [child EXCEPT ![k] =
                [Dead EXCEPT !.phase = "loading", !.model = call[t].model]]
           /\ Go(t, "ask_health") /\ UNCHANGED responses
        \/ /\ process' = [process EXCEPT ![k] = FALSE]
           /\ call' = [call EXCEPT ![t] = [Hit(call[t]) EXCEPT !.step = "failed"]]
           /\ UNCHANGED <<child, responses>>
  /\ UNCHANGED lock

(* Popen(), with pipes and a queue of its own, or OSError.                  *)
Start(t) ==
  /\ At(t, "start")
  /\ LET k == Client(t)
     IN \/ /\ process' = [process EXCEPT ![k] = TRUE]
           /\ child' = [child EXCEPT ![k] =
                [Dead EXCEPT !.phase = "loading", !.model = call[t].model]]
           /\ responses' = [responses EXCEPT ![k] = <<>>]
           /\ Go(t, "ask_health")
        \/ /\ process' = [process EXCEPT ![k] = FALSE]
           /\ call' = [call EXCEPT ![t] = [Hit(call[t]) EXCEPT !.step = "failed"]]
           /\ UNCHANGED serverVars
  /\ UNCHANGED lock

(* The child is asked for its health before anything else; if it does not   *)
(* answer well it is stopped and the attempt fails.                         *)
StopThen(t, then) ==
  call' = [call EXCEPT ![t].step = "stop", ![t].then = then, ![t].id = NoId]

AskHealth(t) ==
  /\ At(t, "ask_health")
  /\ Write(t, "health", "health", "stop_failed")
  /\ UNCHANGED <<responses, process, lock>>

BadStart(t) ==
  /\ At(t, "stop_failed")
  /\ StopThen(t, "failed")
  /\ UNCHANGED <<serverVars, process, lock>>

Health(t) ==
  /\ At(t, "health") /\ Arrived(t)
  /\ Take(t)
  /\ IF Valid(t)
     THEN call' = [call EXCEPT ![t].step = "ask", ![t].id = NoId]
     ELSE StopThen(t, "failed")
  /\ UNCHANGED <<child, process, lock>>

(* The request itself; its answer is a result, an error of the service or   *)
(* an error of transport or protocol.                                       *)
Ask(t) ==
  /\ At(t, "ask")
  /\ Write(t, "transcribe_file", IF call[t].input = "huge" THEN "writing" ELSE "answer", "failed")
  /\ UNCHANGED <<responses, process, lock>>

(* stdin.write() of a line longer than the pipe holds returns when the      *)
(* child has read it, or but for what the pipe holds, and no timeout covers *)
(* it.  The death of the child breaks the pipe; a write of which a part was *)
(* read says nothing of it.                                                 *)
Drained(t) ==
  /\ At(t, "writing") /\ child[Client(t)].phase = "serving"
  /\ Go(t, "answer")
  /\ UNCHANGED <<serverVars, process, lock>>

Written(t) ==
  /\ At(t, "writing") /\ child[Client(t)].stdin = <<>>
  /\ Go(t, "answer") \/ (~Alive(Client(t)) /\ Go(t, "failed"))
  /\ UNCHANGED <<serverVars, process, lock>>

Answer(t) ==
  /\ At(t, "answer") /\ Arrived(t)
  /\ Take(t)
  /\ IF Valid(t)
     THEN /\ call' = [call EXCEPT ![t].step = "return", ![t].result = Item(t), ![t].id = NoId]
          /\ Unlock(Client(t))
     ELSE Go(t, "failed") /\ UNCHANGED lock
  /\ UNCHANGED <<child, process>>

(* Defective: get() without a timeout.                                      *)
NeverTimesOut(t) ==
  /\ At(t, "shutdown") /\ ~Arrived(t)
  /\ Go(t, "stop")
  /\ UNCHANGED <<serverVars, process, lock>>

(* The startup, request or shutdown timeout expires.                        *)
TimeOut(t) ==
  /\ call[t].step \in {"health", "answer", "shutdown"} /\ ~Arrived(t)
  /\ \/ /\ At(t, "health")
        /\ call' = [call EXCEPT ![t] = [Hit(call[t]) EXCEPT !.step = "stop", !.then = "failed", !.id = NoId]]
     \/ /\ At(t, "answer")
        /\ call' = [call EXCEPT ![t] = [Hit(call[t]) EXCEPT !.step = "failed"]]
     \/ At(t, "shutdown") /\ Go(t, "stop")
  /\ UNCHANGED <<serverVars, process, lock>>

(* The exception leaves the first with-block, and the handler takes the     *)
(* lock again to stop the child.                                            *)
Failed(t) ==
  /\ At(t, "failed")
  /\ Go(t, "give_up") /\ Unlock(Client(t))
  /\ UNCHANGED <<serverVars, process>>

GiveUp(t) ==
  /\ At(t, "give_up")
  /\ Lock(Client(t), t)
  /\ StopThen(t, "retry")
  /\ UNCHANGED <<serverVars, process>>

(* The child dies under the thread that uses it.                            *)
Die(k) ==
  /\ Crash(k)
  /\ call' = [t \in Threads |->
       IF lock[k] = t /\ call[t].step \in {"ask_health", "health", "ask", "writing", "answer"}
       THEN Hit(call[t]) ELSE call[t]]
  /\ UNCHANGED <<process, lock>>

-----------------------------------------------------------------------------
(* close(): a child that runs is asked to stop.                             *)
Close(t) ==
  /\ At(t, "close")
  /\ LET k == Client(t)
     IN /\ Lock(k, t)
        /\ call' = [call EXCEPT
             ![t].step = IF process[k] /\ Alive(k) THEN "ask_shutdown" ELSE "stop",
             ![t].then = "closed"]
  /\ UNCHANGED <<serverVars, process>>

AskShutdown(t) ==
  /\ At(t, "ask_shutdown")
  /\ Write(t, "shutdown", "shutdown", "stop")
  /\ UNCHANGED <<responses, process, lock>>

ShutdownAnswered(t) ==
  /\ At(t, "shutdown") /\ Arrived(t)
  /\ Take(t) /\ Go(t, "stop")
  /\ UNCHANGED <<child, process, lock>>

(* _stop_locked(): where it comes back to.  The second failure is raised;   *)
(* a closed client and its queue are dropped.                               *)
After(c) ==
  CASE c.then = "failed" -> [c EXCEPT !.step = "failed"]
    [] c.then = "retry" /\ c.attempt = 1 ->
         [c EXCEPT !.step = "attempt", !.attempt = 2, !.fault = FALSE, !.then = "closed"]
    [] c.then = "retry" /\ c.attempt = 2 -> [c EXCEPT !.step = "return"]
    [] c.then = "closed" -> [c EXCEPT !.step = "closed"]

Stopped(t) ==
  LET c == call[t]
  IN /\ call' = [call EXCEPT ![t] = [After(c) EXCEPT !.id = NoId]]
     /\ IF c.then = "failed" THEN UNCHANGED lock ELSE Unlock(c.client)
     /\ responses' = IF c.then = "closed" THEN [responses EXCEPT ![c.client] = <<>>]
                     ELSE responses

Stop(t) ==
  /\ At(t, "stop")
  /\ process' = [process EXCEPT ![Client(t)] = FALSE]
  /\ IF process[Client(t)] /\ Alive(Client(t))
     THEN Go(t, "wait") /\ UNCHANGED <<responses, lock>>
     ELSE Stopped(t)
  /\ UNCHANGED child

Gone(t) ==
  /\ At(t, "wait") \/ At(t, "terminated")
  /\ ~Alive(Client(t))
  /\ Stopped(t)
  /\ UNCHANGED <<child, process>>

Terminate(t) ==
  /\ At(t, "wait") /\ Alive(Client(t))
  /\ child' = [child EXCEPT ![Client(t)].told = TRUE]
  /\ Go(t, "terminated")
  /\ UNCHANGED <<responses, process, lock>>

(* SIGKILL is not refused.                                                  *)
Kill(t) ==
  /\ At(t, "terminated") /\ Alive(Client(t))
  /\ End(Client(t)) /\ Say(Client(t), <<StreamFailure>>)
  /\ Go(t, "wait")
  /\ UNCHANGED <<process, lock>>

ClientStep(t) ==
  \/ Attempt(t) \/ Start(t) \/ AskHealth(t) \/ BadStart(t) \/ Health(t)
  \/ Ask(t) \/ Written(t) \/ Answer(t) \/ TimeOut(t) \/ Failed(t) \/ GiveUp(t)
  \/ Close(t) \/ AskShutdown(t) \/ ShutdownAnswered(t)
  \/ Stop(t) \/ Gone(t) \/ Terminate(t) \/ Kill(t)
=============================================================================
