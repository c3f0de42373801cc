---------------------------- MODULE LocalService ----------------------------
(***************************************************************************)
(* The local service as Fabric uses it: AutoWhisperProvider (provider.py)  *)
(* on LocalServiceClient and its children.  Any thread may transcribe, with *)
(* any model, or close.                                                    *)
(***************************************************************************)
EXTENDS LocalServiceClient

CONSTANTS
  NoClient,
  Inputs  \* "fine", or "huge": more than a line and a pipe may hold

ASSUME ClientAssumption == NoClient \notin Clients

VARIABLES
  provider  \* the provider's lock, its client and that client's model

vars == <<serverVars, clientVars, provider>>

NoCall ==
  [step |-> "idle", client |-> NoClient, model |-> CHOOSE m \in Models : TRUE,
   input |-> "fine", id |-> NoId, attempt |-> 1, then |-> "closed", fault |-> FALSE,
   temp |-> FALSE, result |-> StreamFailure]

ProviderSteps ==
  {"idle", "lock", "prepare", "converting", "closed", "return", "detach"}

TypeOK ==
  /\ \A k \in Clients :
       /\ child[k].phase \in {"loading", "serving", "dead"}
       /\ child[k].model \in Models /\ child[k].told \in BOOLEAN
       /\ Len(child[k].stdin) \leq 1 /\ Len(responses[k]) \leq 2
       /\ process[k] \in BOOLEAN /\ lock[k] \in Threads \cup {NoThread}
  /\ \A t \in Threads :
       /\ call[t].step \in ClientSteps \cup ProviderSteps
       /\ call[t].client \in Clients \cup {NoClient}
       /\ call[t].then \in {"failed", "retry", "closed"}
       /\ call[t].attempt \in 1 .. 2 /\ call[t].fault \in BOOLEAN
  /\ provider.lock \in Threads \cup {NoThread}
  /\ provider.client \in Clients \cup {NoClient}

Init ==
  /\ ServerInit /\ ClientInit
  /\ call = [t \in Threads |-> NoCall]
  /\ provider = [lock |-> NoThread, client |-> NoClient, model |-> CHOOSE m \in Models : TRUE]

-----------------------------------------------------------------------------
(* transcribe(): from here on the thread waits for the provider's lock.     *)
Transcribe(t, m, input) ==
  /\ At(t, "idle")
  /\ call' = [call EXCEPT ![t] = [NoCall EXCEPT !.step = "lock", !.model = m, !.input = input]]
  /\ UNCHANGED <<serverVars, process, lock, provider>>

(* _client_for(): a client object that nobody refers to any more.           *)
Unused == {k \in Clients :
  /\ k # provider.client /\ ~process[k] /\ lock[k] = NoThread
  /\ \A t \in Threads : At(t, "idle") \/ call[t].client # k}

(* Defective: the client of other settings is let go as it is.              *)
ForgetsStale(t) ==
  /\ At(t, "lock") /\ provider.lock = NoThread
  /\ \/ /\ provider.client # NoClient /\ provider.model = call[t].model
        /\ provider' = [provider EXCEPT !.lock = t]
        /\ call' = [call EXCEPT ![t].step = "prepare", ![t].client = provider.client]
     \/ /\ provider.client = NoClient \/ provider.model # call[t].model
        /\ \E k \in Unused :
             /\ provider' = [lock |-> t, client |-> k, model |-> call[t].model]
             /\ call' = [call EXCEPT ![t].client = k, ![t].step = "prepare"]
  /\ UNCHANGED <<serverVars, process, lock>>

(* Defective: the lock is held for the choice of the client only.           *)
ChoosesUnlocked(t) ==
  /\ At(t, "lock") /\ provider.lock = NoThread
  /\ \/ /\ provider.client # NoClient /\ provider.model = call[t].model
        /\ call' = [call EXCEPT ![t].step = "prepare", ![t].client = provider.client]
        /\ UNCHANGED provider
     \/ /\ provider.client = NoClient \/ provider.model # call[t].model
        /\ \E k \in Unused :
             /\ provider' = [provider EXCEPT !.client = k, !.model = call[t].model]
             /\ call' = [call EXCEPT
                  ![t].client = IF provider.client = NoClient THEN k ELSE provider.client,
                  ![t].step = IF provider.client = NoClient THEN "prepare" ELSE "close"]
  /\ UNCHANGED <<serverVars, process, lock>>

(* Defective: a change of model keeps the client.                           *)
KeepsClient(t) ==
  /\ At(t, "lock") /\ provider.lock = NoThread
  /\ \/ /\ provider.client # NoClient
        /\ provider' = [provider EXCEPT !.lock = t]
        /\ call' = [call EXCEPT ![t].step = "prepare", ![t].client = provider.client]
     \/ /\ provider.client = NoClient
        /\ \E k \in Unused :
             /\ provider' = [lock |-> t, client |-> k, model |-> call[t].model]
             /\ call' = [call EXCEPT ![t].client = k, ![t].step = "prepare"]
  /\ UNCHANGED <<serverVars, process, lock>>

(* The lock, then the client for these settings; the one for others is      *)
(* closed before the new one is used.                                       *)
ChooseClient(t) ==
  /\ At(t, "lock") /\ provider.lock = NoThread
  /\ \/ /\ provider.client # NoClient /\ provider.model = call[t].model
        /\ provider' = [provider EXCEPT !.lock = t]
        /\ call' = [call EXCEPT ![t].step = "prepare", ![t].client = provider.client]
     \/ /\ provider.client = NoClient \/ provider.model # call[t].model
        /\ \E k \in Unused :
             /\ provider' = [lock |-> t, client |-> k, model |-> call[t].model]
             /\ call' = [call EXCEPT
                  ![t].client = IF provider.client = NoClient THEN k ELSE provider.client,
                  ![t].step = IF provider.client = NoClient THEN "prepare" ELSE "close"]
  /\ UNCHANGED <<serverVars, process, lock>>

(* _prepared_audio(): a native format goes as it is; anything else is       *)
(* converted into a temporary file.                                         *)
Prepare(t) ==
  /\ At(t, "prepare")
  /\ \/ Go(t, "attempt")
     \/ call' = [call EXCEPT ![t].step = "converting", ![t].temp = TRUE]
  /\ UNCHANGED <<serverVars, process, lock, provider>>

(* ffmpeg succeeds, fails, or runs out of time.                             *)
Convert(t) ==
  /\ At(t, "converting")
  /\ Go(t, "attempt") \/ Go(t, "return")
  /\ UNCHANGED <<serverVars, process, lock, provider>>

(* Defective: the temporary file of a call without a transcript stays.      *)
UnlinksResultOnly(t) ==
  /\ At(t, "return")
  /\ provider' = [provider EXCEPT !.lock = NoThread]
  /\ call' = [call EXCEPT ![t] =
       [NoCall EXCEPT !.temp = call[t].temp /\ call[t].result = StreamFailure]]
  /\ UNCHANGED <<serverVars, process, lock>>

(* The temporary file is removed, the lock given up, and the caller told.   *)
Return(t) ==
  /\ At(t, "return")
  /\ provider' = [provider EXCEPT !.lock = NoThread]
  /\ call' = [call EXCEPT ![t] = NoCall]
  /\ UNCHANGED <<serverVars, process, lock>>

(* close(), from atexit or from Fabric: the client is detached under the    *)
(* lock and closed outside it.                                              *)
BeginClose(t) ==
  /\ At(t, "idle")
  /\ call' = [call EXCEPT ![t] = [NoCall EXCEPT !.step = "detach"]]
  /\ UNCHANGED <<serverVars, process, lock, provider>>

Detach(t) ==
  /\ At(t, "detach") /\ provider.lock = NoThread
  /\ provider' = [provider EXCEPT !.client = NoClient]
  /\ call' = [call EXCEPT
       ![t].client = provider.client,
       ![t].step = IF provider.client = NoClient THEN "idle" ELSE "close"]
  /\ UNCHANGED <<serverVars, process, lock>>

(* A client has been closed: that was close(), or the stale client of a     *)
(* transcription, which goes on with its own.                               *)
Closed(t) ==
  /\ At(t, "closed")
  /\ IF provider.lock = t
     THEN call' = [call EXCEPT ![t].step = "prepare", ![t].client = provider.client]
     ELSE call' = [call EXCEPT ![t] = NoCall]
  /\ UNCHANGED <<serverVars, process, lock, provider>>

ProviderStep(t) ==
  \/ ChooseClient(t) \/ Prepare(t) \/ Convert(t) \/ Return(t) \/ Detach(t) \/ Closed(t)

Thread(t) == ProviderStep(t) \/ (ClientStep(t) /\ UNCHANGED provider)

Child(k) ==
  /\ \/ (Load(k) \/ Serve(k) \/ Obey(k)) /\ UNCHANGED clientVars
     \/ Die(k)
     \/ \E t \in Threads : Client(t) = k /\ Drained(t)
  /\ UNCHANGED <<provider>>

Fabric ==
  \E t \in Threads : BeginClose(t) \/ \E m \in Models, i \in Inputs : Transcribe(t, m, i)

Next ==
  \/ \E t \in Threads : Thread(t)
  \/ \E k \in Clients : Child(k)
  \/ Fabric

Spec == Init /\ [][Next]_vars

(* Threads run and their timeouts expire.  A child owes nothing, and a lock *)
(* is fair to nobody.                                                       *)
FairSpec == Spec /\ \A t \in Threads : WF_vars(Thread(t))

-----------------------------------------------------------------------------
(* A transcript is of the caller's own file and by the model the caller     *)
(* asked for, whatever other threads do to the client meanwhile             *)
(* (_client_for and the id of the request).                                 *)
OwnTranscript ==
  \A t \in Threads :
    At(t, "return") /\ call[t].result # StreamFailure =>
      call[t].result.of = t /\ call[t].result.model = call[t].model

(* transcribe_file() tries twice so that one fault of the child goes        *)
(* unnoticed: a call gives up only if each attempt met a fault of its own,  *)
(* never because of what the first attempt or a neighbour left behind.  A   *)
(* request longer than a line may be is the exception: nothing can be       *)
(* matched to it.                                                           *)
OneFaultSurvived ==
  \A t \in Threads :
    At(t, "stop") /\ call[t].then = "retry" /\ call[t].input # "huge" =>
      call[t].fault

(* A child that runs is held by the provider's client or by a thread that   *)
(* uses or stops it: a change of model, a failure or close() leaves no      *)
(* process with its model in memory behind.                                 *)
NoOrphan ==
  \A k \in Clients : Alive(k) =>
    \/ process[k] /\ provider.client = k
    \/ \E t \in Threads : call[t].client = k /\ ~At(t, "idle")

(* The temporary recording is gone when the call has returned, however it   *)
(* went.                                                                    *)
RecordingRemoved == \A t \in Threads : At(t, "idle") => ~call[t].temp

(* A call that has the provider's lock comes back, whatever its child does, *)
(* and so does close(): no other caller waits for good.  The one exception: *)
(* nothing bounds stdin.write(), and a line longer than the pipe holds      *)
(* keeps its caller, and the provider's lock, for as long as the child      *)
(* lives and does not read.                                                 *)
CallsReturn ==
  \A t \in Threads :
    \/ provider.lock = t \/ At(t, "close") ~> At(t, "idle")
    \/ <>[]At(t, "writing")
=============================================================================
