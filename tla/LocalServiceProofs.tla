------------------------- MODULE LocalServiceProofs -------------------------
(***************************************************************************)
(* The safety properties of LocalService.tla, for any number of threads,   *)
(* clients, models and inputs.                                             *)
(*                                                                         *)
(* Two locks keep the callers apart: no two threads refer to one client    *)
(* (Ownership).  So the state of a client, of its child and of the lines   *)
(* between them can be told from where its user is (Used), or is that of   *)
(* rest (AtRest), and a step has to be checked against its own thread and  *)
(* client only (LEMMA OwnStep, LEMMA ChildStep).                           *)
(***************************************************************************)
EXTENDS LocalService, SequenceTheorems, FiniteSetTheorems, TLAPS

Files == Inputs \cup {"fine"}
Ids == Nat \cup {NoId}

Requests ==
  [id : Ids, method : {"health", "transcribe_file", "shutdown"}, of : Threads,
   model : Models, input : Files]

Lines ==
  [id : Ids, kind : {"ready", "stopping", "error", "model_mismatch", "result"},
   of : Threads, model : Models]

Items == Lines \cup {StreamFailure}

Children ==
  [phase : {"loading", "serving", "dead"}, model : Models, stdin : Seq(Requests), told : BOOLEAN]

Calls ==
  [step : ClientSteps \cup ProviderSteps, client : Clients \cup {NoClient}, model : Models,
   input : Files, id : Ids, attempt : 1 .. 2, then : {"failed", "retry", "closed"},
   fault : BOOLEAN, temp : BOOLEAN, result : Items]

Types ==
  /\ child \in [Clients -> Children]
  /\ responses \in [Clients -> Seq(Items)]
  /\ process \in [Clients -> BOOLEAN]
  /\ lock \in [Clients -> Threads \cup {NoThread}]
  /\ call \in [Threads -> Calls]
  /\ provider \in
       [lock : Threads \cup {NoThread}, client : Clients \cup {NoClient}, model : Models]

(* Where a thread refers to no client yet or no more, ...                   *)
Free == {"idle", "lock", "detach"}

(* ... where it has the lock of its client, ...                             *)
Holding ==
  {"start", "ask_health", "stop_failed", "health", "ask", "writing", "answer", "failed",
   "ask_shutdown", "shutdown", "stop", "wait", "terminated"}

(* ... where it uses the child, ...                                         *)
Asking == {"ask_health", "health", "ask", "writing", "answer"}

(* ... where a line may be on its way, ...                                  *)
Dirty == {"health", "writing", "answer", "failed", "give_up", "shutdown", "stop"}

(* ... where it closes the client, ...                                      *)
Closes(c) ==
  \/ c.step \in {"close", "ask_shutdown", "shutdown", "closed"}
  \/ c.step \in {"stop", "wait", "terminated"} /\ c.then = "closed"

(* ... and where its attempt has failed.                                    *)
Failing(c) ==
  \/ c.step \in {"stop_failed", "failed", "give_up"}
  \/ c.step \in {"stop", "wait", "terminated"} /\ c.then # "closed"

(* A client has one user, and the provider's client none but the thread     *)
(* with the provider's lock.                                                *)
Owner(t) ==
  /\ call[t].step \in Free => call[t].client = NoClient /\ ~call[t].temp
  /\ call[t].step \notin Free =>
       /\ call[t].client \in Clients
       /\ provider.lock = t \/ Closes(call[t])
       /\ provider.lock # t => call[t].client # provider.client
  /\ provider.lock = t =>
       /\ call[t].step \notin Free
       /\ provider.client \in Clients /\ provider.model = call[t].model
       /\ Closes(call[t]) <=> call[t].client # provider.client

Ownership ==
  /\ \A t \in Threads : Owner(t)
  /\ \A t, u \in Threads :
       t # u /\ call[t].step \notin Free => call[t].client # call[u].client

(* Nobody waits for the child of a client at rest, and only the provider's  *)
(* client keeps one.                                                        *)
Serves(k) ==
  Alive(k) /\ process[k] =>
    ~child[k].told /\ (provider.client = k => child[k].model = provider.model)

Clean(k) == Alive(k) /\ process[k] => child[k].stdin = <<>> /\ responses[k] = <<>>

(* One line at a time is on its way, and the end of the stream behind it.   *)
Lengths(k) ==
  /\ Alive(k) => Len(child[k].stdin) + Len(responses[k]) <= 1
  /\ ~Alive(k) => child[k].stdin = <<>> /\ Len(responses[k]) <= 2

AtRest(k) ==
  /\ lock[k] = NoThread
  /\ Alive(k) => process[k]
  /\ process[k] => provider.client = k
  /\ Serves(k) /\ Clean(k) /\ Lengths(k)

(* The user of a client holds its lock around the calls of the client, and  *)
(* leaves a child without a process only while it waits for its death.      *)
Managed(t) ==
  LET k == call[t].client
  IN /\ lock[k] = IF call[t].step \in Holding THEN t ELSE NoThread
     /\ Alive(k) /\ ~process[k] => call[t].step \in {"wait", "terminated"}
     /\ call[t].step \in Asking \cup {"ask_shutdown"} => process[k]
     /\ call[t].step \in {"wait", "terminated", "closed"} => ~process[k]
     /\ call[t].step = "start" => ~Alive(k)
     /\ call[t].step \in {"ask_shutdown", "shutdown"} => call[t].then = "closed"
     /\ Serves(k) /\ Lengths(k)
     /\ Clean(k) \/ call[t].step \in Dirty

(* What thread t has asked, and what it is told.                            *)
MyRequest(t, request) ==
  /\ request.id = call[t].id /\ request.of = t
  /\ request.model = call[t].model /\ request.input = call[t].input
  /\ request.method = IF At(t, "health") THEN "health" ELSE "transcribe_file"

MyLine(t, line) ==
  \/ line = StreamFailure /\ call[t].fault
  \/ /\ line # StreamFailure
     /\ line.of = t /\ line.model = call[t].model
     /\ At(t, "health") \/ call[t].input # "huge" => line.id = call[t].id

Pending(t) ==
  LET k == call[t].client
  IN /\ \A i \in DOMAIN child[k].stdin : MyRequest(t, child[k].stdin[i])
     /\ \A i \in DOMAIN responses[k] : MyLine(t, responses[k][i])

(* An attempt fails by a fault of the child, which did what it was asked.   *)
Answered(t) ==
  /\ call[t].step \in {"health", "writing", "answer"} => Pending(t)
  /\ call[t].step \in Asking /\ ~Alive(call[t].client) => call[t].fault
  /\ Failing(call[t]) /\ call[t].input # "huge" => call[t].fault

Used(t) == Managed(t) /\ Answered(t)

Results ==
  \A t \in Threads :
    call[t].result # StreamFailure =>
      call[t].result.of = t /\ call[t].result.model = call[t].model

IInv ==
  /\ Types
  /\ Ownership
  /\ \A t \in Threads : call[t].step \notin Free => Used(t)
  /\ \A k \in Clients : (\A t \in Threads : call[t].client # k) => AtRest(k)
  /\ Results

-----------------------------------------------------------------------------
(* What one party does is nobody else's business.                           *)

(* A client is at rest, and a thread sees its client as before, if neither  *)
(* has been touched.                                                        *)
Untouched(k) ==
  /\ child'[k] = child[k] /\ responses'[k] = responses[k]
  /\ process'[k] = process[k] /\ lock'[k] = lock[k]

(* Frame lemmas: a step leaves the other threads' calls, and the other      *)
(* clients at rest, as they were.                                           *)
LEMMA OthersUse ==
  ASSUME NEW u \in Threads, NEW k, k = call[u].client, Used(u), call'[u] = call[u], Untouched(k),
         provider'.client = k => provider'.model = provider.model /\ provider.client = k
  PROVE  Used(u)'
<1> USE DEF Untouched
<1>1. Managed(u)'
  BY DEF Used, Managed, Serves, Lengths, Clean, Alive
<1>2. Pending(u) => Pending(u)'
  <2>1. \A request : MyRequest(u, request) => MyRequest(u, request)'
    BY DEF MyRequest, At
  <2>2. \A line : MyLine(u, line) => MyLine(u, line)'
    BY DEF MyLine, At
  <2> QED BY <2>1, <2>2, Zenon DEF Pending
<1>3. Answered(u)'
  BY <1>2 DEF Used, Answered, Alive
<1> QED BY <1>1, <1>3 DEF Used

LEMMA OthersRest ==
  ASSUME NEW k \in Clients, AtRest(k), Untouched(k),
         provider'.client = provider.client \/ (provider.client # k /\ ~process[k]),
         provider'.client = k => provider'.model = provider.model \/ ~process[k]
  PROVE  AtRest(k)'
BY DEF Untouched, AtRest, Serves, Lengths, Clean, Alive

(* A step of thread t within a call of its client touches t, that client    *)
(* and its child, ...                                                       *)
Within(t) ==
  /\ provider' = provider
  /\ \A u \in Threads \ {t} : call'[u] = call[u]
  /\ \A j \in Clients \ {call[t].client} : Untouched(j)
  /\ call[t].step \notin Free /\ call'[t].step \notin Free
  /\ call'[t].client = call[t].client /\ call'[t].model = call[t].model
  /\ Closes(call'[t]) <=> Closes(call[t])

(* ... and has to be checked against them alone.                            *)
LEMMA OwnStep ==
  ASSUME IInv, Types', NEW t \in Threads, Within(t), Used(t)',
         call'[t].result # call[t].result =>
           call'[t].result.of = t /\ call'[t].result.model = call'[t].model
  PROVE  IInv'
<1>1. /\ Ownership /\ Results
      /\ \A u \in Threads : call[u].step \notin Free => Used(u)
      /\ \A k \in Clients : (\A u \in Threads : call[u].client # k) => AtRest(k)
  BY DEF IInv
<1> USE DEF Within
<1>2. Ownership'
  BY <1>1 DEF Ownership, Owner
<1>3. Results'
  BY <1>1 DEF Results
<1>4. ASSUME NEW u \in Threads, call'[u].step \notin Free PROVE Used(u)'
  <2>1. CASE u = t
    BY <2>1
  <2>2. CASE u # t
    <3>1. /\ call'[u] = call[u] /\ call[u].step \notin Free /\ Used(u)
          /\ call[u].client \in Clients /\ call[u].client # call[t].client
      BY <1>1, <1>4, <2>2 DEF Ownership, Owner
    <3>2. Untouched(call[u].client)
      BY <3>1
    <3> QED BY <3>1, <3>2, OthersUse
  <2> QED BY <2>1, <2>2
<1>5. ASSUME NEW k \in Clients, \A u \in Threads : call'[u].client # k PROVE AtRest(k)'
  <2>1. k # call[t].client /\ \A u \in Threads : call[u].client # k
    BY <1>5
  <2>2. Untouched(k) /\ AtRest(k)
    BY <1>1, <2>1
  <2> QED BY <2>2, OthersRest
<1> QED BY <1>2, <1>3, <1>4, <1>5 DEF IInv

(* A step of child k changes nothing but child k and its stdout, and a      *)
(* fault of the thread that uses it.                                        *)
LEMMA ChildStep ==
  ASSUME IInv, Types', NEW k \in Clients, UNCHANGED <<provider, process, lock>>,
         \A j \in Clients \ {k} : child'[j] = child[j] /\ responses'[j] = responses[j],
         \A u \in Threads : call'[u] = [call[u] EXCEPT !.fault = call'[u].fault],
         \A u \in Threads : call[u].client # k => call'[u] = call[u],
         \A u \in Threads : call[u].step \notin Free /\ call[u].client = k => Used(u)',
         (\A u \in Threads : call[u].client # k) => AtRest(k)'
  PROVE  IInv'
<1>1. /\ Types /\ Ownership /\ Results
      /\ \A u \in Threads : call[u].step \notin Free => Used(u)
      /\ \A j \in Clients : (\A u \in Threads : call[u].client # j) => AtRest(j)
  BY DEF IInv
<1>2. \A u \in Threads :
        /\ call'[u].step = call[u].step /\ call'[u].client = call[u].client
        /\ call'[u].model = call[u].model /\ call'[u].then = call[u].then
        /\ call'[u].temp = call[u].temp /\ call'[u].result = call[u].result
  BY <1>1 DEF Types, Calls
<1>3. Ownership'
  BY <1>1, <1>2 DEF Ownership, Owner, Closes
<1>4. Results'
  BY <1>1, <1>2 DEF Results
<1>5. ASSUME NEW u \in Threads, call'[u].step \notin Free PROVE Used(u)'
  <2>1. CASE call[u].client = k
    BY <1>2, <1>5, <2>1
  <2>2. CASE call[u].client # k
    <3>1. /\ call'[u] = call[u] /\ Used(u) /\ call[u].client \in Clients
      BY <1>1, <1>2, <1>5, <2>2 DEF Ownership, Owner
    <3>2. Untouched(call[u].client)
      BY <2>2, <3>1 DEF Untouched
    <3> QED BY <3>1, <3>2, OthersUse
  <2> QED BY <2>1, <2>2
<1>6. ASSUME NEW j \in Clients, \A u \in Threads : call'[u].client # j PROVE AtRest(j)'
  <2>1. \A u \in Threads : call[u].client # j
    BY <1>2, <1>6
  <2>2. CASE j = k
    BY <2>1, <2>2
  <2>3. CASE j # k
    <3>1. Untouched(j) /\ AtRest(j)
      BY <1>1, <2>1, <2>3 DEF Untouched
    <3> QED BY <3>1, OthersRest
  <2> QED BY <2>2, <2>3
<1> QED BY <1>3, <1>4, <1>5, <1>6 DEF IInv

-----------------------------------------------------------------------------
(* The operators of the client.                                             *)

(* What is known of a thread that refers to a client.                       *)
LEMMA Here ==
  ASSUME IInv, NEW t \in Threads, call[t].step \notin Free
  PROVE  /\ Types /\ call[t].client \in Clients /\ call[t] \in Calls
         /\ Managed(t) /\ Answered(t)
         /\ ~Closes(call[t]) =>
              provider.lock = t /\ provider.client = call[t].client /\ provider.model = call[t].model
<1>1. call[t] \in Calls
  BY DEF IInv, Types
<1> QED BY <1>1 DEF IInv, Ownership, Owner, Used

(* One call changes.                                                        *)
LEMMA CallUpdate ==
  ASSUME Types, NEW t \in Threads, NEW c \in Calls, call' = [call EXCEPT ![t] = c]
  PROVE  /\ call' \in [Threads -> Calls] /\ call'[t] = c
         /\ \A u \in Threads \ {t} : call'[u] = call[u]
BY DEF Types

(* No child, or one that has ended.                                         *)
LEMMA DeadType ==
  /\ Dead \in Children /\ Dead.phase = "dead" /\ Dead.stdin = <<>> /\ ~Dead.told
<1>1. (CHOOSE m \in Models : TRUE) \in Models
  BY ModelAssumption
<1>2. <<>> \in Seq(Requests)
  BY EmptySeq
<1> QED BY <1>1, <1>2 DEF Dead, Children

(* A thread that goes on changes its step.                                  *)
LEMMA Going ==
  ASSUME Types, NEW t \in Threads, NEW s \in ClientSteps \cup ProviderSteps, Go(t, s)
  PROVE  /\ call' \in [Threads -> Calls]
         /\ call'[t] = [call[t] EXCEPT !.step = s]
         /\ call'[t].step = s /\ call'[t].client = call[t].client
         /\ call'[t].model = call[t].model /\ call'[t].input = call[t].input
         /\ call'[t].id = call[t].id /\ call'[t].then = call[t].then
         /\ call'[t].fault = call[t].fault /\ call'[t].result = call[t].result
         /\ call'[t].temp = call[t].temp /\ call'[t].attempt = call[t].attempt
         /\ \A u \in Threads \ {t} : call'[u] = call[u]
BY DEF Types, Calls, Go

(* A thread on its way to _stop_locked() notes where it comes back to.      *)
LEMMA GoingToStop ==
  ASSUME Types, NEW t \in Threads, NEW w \in {"failed", "retry"}, NEW f \in BOOLEAN,
         call' = [call EXCEPT ![t] =
           [call[t] EXCEPT !.step = "stop", !.then = w, !.id = NoId, !.fault = f]]
  PROVE  /\ call' \in [Threads -> Calls]
         /\ call'[t].step = "stop" /\ call'[t].client = call[t].client
         /\ call'[t].model = call[t].model /\ call'[t].input = call[t].input
         /\ call'[t].then = w /\ call'[t].fault = f /\ call'[t].result = call[t].result
         /\ \A u \in Threads \ {t} : call'[u] = call[u]
<1> DEFINE c == [call[t] EXCEPT !.step = "stop", !.then = w, !.id = NoId, !.fault = f]
<1>1. call[t] \in Calls
  BY DEF Types
<1>2. c \in Calls
  BY <1>1 DEF Calls, ClientSteps, Ids
<1>3. /\ c.step = "stop" /\ c.client = call[t].client /\ c.model = call[t].model
      /\ c.input = call[t].input /\ c.then = w /\ c.fault = f /\ c.result = call[t].result
  BY <1>1 DEF Calls
<1> HIDE DEF c
<1>4. call' = [call EXCEPT ![t] = c]
  BY DEF c
<1> QED BY <1>2, <1>3, <1>4, CallUpdate

(* What StopThen does to a call.                                            *)
LEMMA StopThenIs ==
  ASSUME Types, NEW t \in Threads, NEW w, StopThen(t, w)
  PROVE  call' = [call EXCEPT ![t] =
           [call[t] EXCEPT !.step = "stop", !.then = w, !.id = NoId, !.fault = call[t].fault]]
BY DEF Types, Calls, StopThen

(* The next line is taken off the queue.                                    *)
LEMMA Taking ==
  ASSUME Types, NEW t \in Threads, call[t].client \in Clients, Arrived(t), Take(t)
  PROVE  LET k == call[t].client
         IN /\ responses' \in [Clients -> Seq(Items)]
            /\ Item(t) \in Items /\ 1 \in DOMAIN responses[k] /\ Item(t) = responses[k][1]
            /\ Len(responses'[k]) = Len(responses[k]) - 1 /\ Len(responses[k]) \in Nat \ {0}
            /\ \A j \in Clients \ {k} : responses'[j] = responses[j]
<1> DEFINE k == call[t].client
<1>1. responses[k] \in Seq(Items) /\ responses[k] # <<>>
  BY DEF Types, Arrived, Client
<1>2. /\ Head(responses[k]) \in Items /\ Head(responses[k]) = responses[k][1]
      /\ Tail(responses[k]) \in Seq(Items) /\ Len(Tail(responses[k])) = Len(responses[k]) - 1
      /\ Len(responses[k]) \in Nat \ {0}
  BY <1>1, HeadTailProperties, EmptySeq
<1>3. 1 \in DOMAIN responses[k]
  BY <1>1, <1>2
<1>4. responses' = [responses EXCEPT ![k] = Tail(@)]
  BY DEF Take, Client
<1>5. responses' \in [Clients -> Seq(Items)] /\ responses'[k] = Tail(responses[k])
      /\ \A j \in Clients \ {k} : responses'[j] = responses[j]
  BY <1>2, <1>4 DEF Types
<1> QED BY <1>2, <1>3, <1>5 DEF Item, Client

(* Nothing follows the line of a child that is alive.                       *)
LEMMA LastLine ==
  ASSUME Types, NEW k \in Clients, Lengths(k), Serves(k), UNCHANGED <<child, process, provider>>,
         responses' \in [Clients -> Seq(Items)],
         Len(responses'[k]) = Len(responses[k]) - 1, Len(responses[k]) \in Nat \ {0}
  PROVE  Lengths(k)' /\ Clean(k)' /\ Serves(k)'
<1>1. child[k].stdin \in Seq(Requests) /\ responses'[k] \in Seq(Items)
  BY DEF Types, Children
<1>2. Len(child[k].stdin) \in Nat /\ Len(responses'[k]) \in Nat
  BY <1>1, LenProperties
<1>3. Serves(k)'
  BY DEF Serves, Alive
<1>4. Alive(k)' <=> Alive(k)
  BY DEF Alive
<1>5. CASE Alive(k)
  <2>1. Len(child[k].stdin) + Len(responses[k]) <= 1
    BY <1>5 DEF Lengths
  <2>2. \A a, b, c \in Nat : a + c <= 1 /\ c # 0 /\ b = c - 1 => a = 0 /\ b = 0
    OBVIOUS
  <2>3. Len(child[k].stdin) = 0 /\ Len(responses'[k]) = 0
    BY <1>2, <2>1, <2>2
  <2>4. child[k].stdin = <<>> /\ responses'[k] = <<>>
    BY <1>1, <2>3, EmptySeq
  <2>5. Len(child'[k].stdin) + Len(responses'[k]) <= 1
    <3>1. Len(child'[k].stdin) = 0
      BY <2>3, Zenon
    <3>2. \A a, b : a = 0 /\ b = 0 => a + b <= 1
      OBVIOUS
    <3> QED BY <2>3, <3>1, <3>2, Zenon
  <2>6. Lengths(k)'
    BY <1>4, <1>5, <2>5, Zenon DEF Lengths
  <2>7. Clean(k)'
    BY <2>4, Zenon DEF Clean
  <2> QED BY <1>3, <2>6, <2>7
<1>6. CASE ~Alive(k)
  <2>1. child[k].stdin = <<>> /\ Len(responses[k]) <= 2
    BY <1>6 DEF Lengths
  <2>2. Len(responses'[k]) <= 2
    BY <1>2, <2>1
  <2>3. Lengths(k)'
    BY <1>4, <1>6, <2>1, <2>2, Zenon DEF Lengths
  <2>4. Clean(k)'
    BY <1>4, <1>6, Zenon DEF Clean
  <2> QED BY <1>3, <2>3, <2>4
<1> QED BY <1>5, <1>6

(* Nothing is on its way to or from a client without a line in flight, so   *)
(* there is a first identifier.                                             *)
LEMMA FreshIdType ==
  ASSUME NEW k, child[k].stdin = <<>>, responses[k] = <<>>
  PROVE  FreshId(k) \in Ids
<1>1. InFlight(k) = {}
  BY DEF InFlight
<1>2. Cardinality(InFlight(k)) + 1 = 1
  BY <1>1, FS_EmptySet
<1>3. FreshId(k) \in 1 .. 1
  BY <1>1, <1>2 DEF FreshId
<1> QED BY <1>3 DEF Ids

(* _request_locked() up to the wait.                                        *)
Asked(t, method, id) ==
  [id |-> id, method |-> method, of |-> t, model |-> call[t].model, input |-> call[t].input]

-----------------------------------------------------------------------------
(* The steps of transcribe_file().                                          *)

(* A step that leaves the child and the queue alone.                        *)
LEMMA ThreadStep ==
  ASSUME IInv, NEW t \in Threads, NEW k, k = call[t].client,
         UNCHANGED <<child, responses, process, provider>>,
         call' \in [Threads -> Calls], \A u \in Threads \ {t} : call'[u] = call[u],
         lock' = [lock EXCEPT ![k] = IF call'[t].step \in Holding THEN t ELSE NoThread],
         call[t].step \notin Free, call'[t].step \notin Free \cup {"health", "writing", "answer"},
         call'[t].client = k, call'[t].model = call[t].model, call'[t].input = call[t].input,
         call'[t].result = call[t].result, Closes(call'[t]) <=> Closes(call[t]),
         call'[t].step \in Asking \cup {"ask_shutdown"} => process[k],
         call'[t].step \in {"wait", "terminated", "closed"} => ~process[k],
         call[t].step \in {"wait", "terminated"} /\ Alive(k) => call'[t].step \in {"wait", "terminated"},
         call'[t].step \in {"ask_shutdown", "shutdown"} => call'[t].then = "closed",
         call'[t].step = "start" => ~Alive(k),
         call[t].step \in Dirty => call'[t].step \in Dirty \/ ~Alive(k) \/ ~process[k],
         call'[t].step \in Asking /\ ~Alive(k) => call'[t].fault,
         Failing(call'[t]) /\ call'[t].input # "huge" => call'[t].fault
  PROVE  IInv'
<1>1. Types /\ Managed(t) /\ k \in Clients
  BY Here
<1>2. Types'
  BY <1>1 DEF Types
<1>3. lock'[k] = (IF call'[t].step \in Holding THEN t ELSE NoThread)
      /\ \A j \in Clients \ {k} : Untouched(j)
  BY <1>1 DEF Types, Untouched
<1>4. Within(t)
  BY <1>3 DEF Within
<1>5. Managed(t)'
  <2>1. Clean(k) \/ call'[t].step \in Dirty
    BY <1>1 DEF Managed, Clean
  <2>2. Alive(k) /\ ~process[k] => call'[t].step \in {"wait", "terminated"}
    BY <1>1 DEF Managed
  <2> QED BY <1>1, <1>3, <2>1, <2>2 DEF Managed, Alive, Serves, Lengths, Clean
<1>6. Answered(t)'
  BY DEF Answered, Alive
<1> QED BY <1>2, <1>4, <1>5, <1>6, OwnStep DEF Used

(* A child that runs is clean, and only a client that is used has a child   *)
(* without a process.                                                       *)
LEMMA AttemptStep ==
  ASSUME IInv, NEW t \in Threads, Attempt(t), UNCHANGED provider PROVE IInv'
<1> DEFINE k == call[t].client
<1>1. call[t].step = "attempt" /\ k \in Clients
  BY Here DEF Attempt, At, Free
<1>2. Types /\ Managed(t)
  BY <1>1, Here DEF Free
<1>3. UNCHANGED <<child, responses, process>> /\ lock' = [lock EXCEPT ![k] = t]
  BY DEF Attempt, Lock, Client, serverVars
<1>4. PICK s \in {"ask", "start"} : Go(t, s) /\ (s = "ask" <=> process[k] /\ Alive(k))
  BY DEF Attempt, Client
<1>5. s \in ClientSteps /\ s \notin Free \cup {"health", "writing", "answer"} /\ s \in Holding
  BY DEF ClientSteps, Free, Holding
<1>6. ~Alive(k) \/ s = "ask"
  BY <1>1, <1>2, <1>4 DEF Managed
<1>7. ~Closes(call[t]) /\ ~Closes(call'[t]) /\ ~Failing(call'[t])
  BY <1>1, <1>2, <1>4, <1>5, Going DEF Closes, Failing
<1>8. /\ call' \in [Threads -> Calls] /\ \A u \in Threads \ {t} : call'[u] = call[u]
      /\ call'[t].step = s /\ call'[t].client = k /\ call'[t].model = call[t].model
      /\ call'[t].input = call[t].input /\ call'[t].result = call[t].result
  <2>1. Types /\ Go(t, s) /\ s \in ClientSteps \cup ProviderSteps
    BY <1>2, <1>4, <1>5
  <2> QED BY <2>1, Going
<1>9. /\ s \notin {"wait", "terminated", "closed", "ask_shutdown", "shutdown"}
      /\ call[t].step \notin Free \cup Dirty \cup {"wait", "terminated"}
      /\ s \in Asking => process[k] /\ Alive(k)
      /\ s = "start" => ~Alive(k)
  BY <1>1, <1>4, <1>6 DEF Free, Dirty, Asking
<1> QED
  BY <1>1, <1>3, <1>5, <1>7, <1>8, <1>9, ThreadStep

(* A new child has not been asked anything, and the stdout of the last one  *)
(* is gone; a child that does not start is a fault.                         *)
LEMMA StartStep ==
  ASSUME IInv, NEW t \in Threads, Start(t), UNCHANGED provider PROVE IInv'
<1> DEFINE k == call[t].client
<1>1. call[t].step = "start" /\ k \in Clients
  BY Here DEF Start, At, Free
<1>2. Types /\ Managed(t) /\ Answered(t) /\ call[t] \in Calls
      /\ (provider.client = k => provider.model = call[t].model)
  BY <1>1, Here DEF Free, Closes
<1>3. UNCHANGED lock
  BY DEF Start
<1>4. CASE /\ process' = [process EXCEPT ![k] = TRUE]
           /\ child' = [child EXCEPT ![k] =
                [Dead EXCEPT !.phase = "loading", !.model = call[t].model]]
           /\ responses' = [responses EXCEPT ![k] = <<>>]
           /\ Go(t, "ask_health")
  <2> DEFINE new == [Dead EXCEPT !.phase = "loading", !.model = call[t].model]
  <2>1. "ask_health" \in ClientSteps /\ "ask_health" \notin Free
    BY DEF ClientSteps, Free
  <2>2. /\ new \in Children /\ new.phase = "loading" /\ new.model = call[t].model
        /\ new.stdin = <<>> /\ ~new.told
    BY <1>2, DeadType DEF Children, Calls
  <2>3. call'[t].step = "ask_health" /\ call'[t].client = k /\ call'[t].fault = call[t].fault
    BY <1>2, <1>4, <2>1, Going
  <2>4. /\ child'[k] = new /\ responses'[k] = <<>> /\ process'[k] /\ lock'[k] = lock[k]
        /\ \A j \in Clients \ {k} : Untouched(j)
    BY <1>1, <1>2, <1>3, <1>4 DEF Types, Untouched
  <2> HIDE DEF new
  <2>5. Types'
    <3>1. child' \in [Clients -> Children]
      BY <1>2, <1>4, <2>2 DEF Types, new
    <3>2. responses' \in [Clients -> Seq(Items)] /\ process' \in [Clients -> BOOLEAN]
      BY <1>2, <1>4, EmptySeq DEF Types
    <3> QED BY <1>2, <1>3, <1>4, <2>1, <3>1, <3>2, Going DEF Types
  <2>6. Within(t)
    BY <1>1, <1>2, <1>4, <2>1, <2>3, <2>4, Going DEF Within, Free, Closes
  <2>7. Managed(t)'
    BY <1>1, <1>2, <2>2, <2>3, <2>4
    DEF Managed, Alive, Serves, Lengths, Clean, Asking, Dirty, Holding
  <2>8. Answered(t)'
    BY <2>2, <2>3, <2>4 DEF Answered, Alive, Asking, Failing
  <2> QED BY <1>2, <1>4, <2>1, <2>5, <2>6, <2>7, <2>8, Going, OwnStep DEF Used
<1>5. CASE /\ process' = [process EXCEPT ![k] = FALSE]
           /\ call' = [call EXCEPT ![t] = [Hit(call[t]) EXCEPT !.step = "failed"]]
           /\ UNCHANGED serverVars
  <2> DEFINE c == [Hit(call[t]) EXCEPT !.step = "failed"]
  <2>1. /\ c \in Calls /\ c.step = "failed" /\ c.client = k /\ c.fault
        /\ c.model = call[t].model /\ c.result = call[t].result
    BY <1>2 DEF Calls, Hit, ClientSteps
  <2>2. call' \in [Threads -> Calls] /\ call'[t] = c /\ \A u \in Threads \ {t} : call'[u] = call[u]
    BY <1>2, <1>5, <2>1, CallUpdate
  <2> HIDE DEF c
  <2>3. /\ UNCHANGED <<child, responses, lock>> /\ process'[k] = FALSE
        /\ \A j \in Clients \ {k} : Untouched(j)
    BY <1>1, <1>2, <1>3, <1>5 DEF Types, Untouched, serverVars
  <2>4. Types'
    BY <1>2, <1>5, <2>2, <2>3 DEF Types
  <2>5. Within(t)
    BY <1>1, <2>1, <2>2, <2>3 DEF Within, Free, Closes
  <2>6. ~Alive(k)
    BY <1>1, <1>2 DEF Managed
  <2>7. Managed(t)'
    BY <1>1, <1>2, <2>1, <2>2, <2>3, <2>6
    DEF Managed, Alive, Serves, Lengths, Clean, Asking, Dirty, Holding
  <2>8. Answered(t)'
    BY <2>1, <2>2, <2>3 DEF Answered, Alive, Asking, Failing
  <2> QED BY <2>1, <2>2, <2>4, <2>5, <2>7, <2>8, OwnStep DEF Used
<1> QED BY <1>4, <1>5 DEF Start, Client

(* A request is written to a child that is alive, and is the only one on    *)
(* its way.                                                                 *)
LEMMA WriteStep ==
  ASSUME IInv, NEW t \in Threads, call[t].step \in {"ask_health", "ask", "ask_shutdown"},
         NEW method \in {"health", "transcribe_file", "shutdown"},
         NEW wait \in {"health", "writing", "answer", "shutdown"}, NEW broken \in {"stop_failed", "failed", "stop"},
         call[t].step = "ask_health" =>
           method = "health" /\ wait = "health" /\ broken = "stop_failed",
         call[t].step = "ask" =>
           method = "transcribe_file" /\ wait \in {"writing", "answer"} /\ broken = "failed",
         call[t].step = "ask_shutdown" => wait = "shutdown" /\ broken = "stop",
         Write(t, method, wait, broken), UNCHANGED <<responses, process, lock, provider>>
  PROVE  IInv'
<1> DEFINE k == call[t].client
<1>1. call[t].step \notin Free /\ k \in Clients /\ Types /\ Managed(t) /\ Answered(t) /\ call[t] \in Calls
  BY Here DEF Free
<1>2. wait \in ClientSteps /\ broken \in ClientSteps /\ wait \notin Free /\ broken \notin Free
  BY DEF ClientSteps, Free
<1>3. CASE ~Alive(k) /\ Go(t, broken) /\ UNCHANGED child
  <2>1. /\ call' \in [Threads -> Calls] /\ \A u \in Threads \ {t} : call'[u] = call[u]
        /\ call'[t].step = broken /\ call'[t].client = k /\ call'[t].model = call[t].model
        /\ call'[t].then = call[t].then /\ call'[t].result = call[t].result
        /\ call'[t].fault = call[t].fault /\ call'[t].input = call[t].input
    <3>1. Types /\ Go(t, broken) /\ broken \in ClientSteps \cup ProviderSteps
      BY <1>1, <1>2, <1>3
    <3> HIDE DEF k
    <3>2. call[t].client = k
      BY DEF k
    <3> QED BY <3>1, <3>2, Going
  <2>2. Types'
    BY <1>1, <1>3, <2>1 DEF Types
  <2>3. Closes(call[t]) <=> Closes(call'[t])
    BY <1>1, <2>1 DEF Closes, Managed
  <2>4. Within(t)
    <3>1. \A j \in Clients \ {k} : Untouched(j)
      BY <1>3 DEF Untouched
    <3> QED BY <1>1, <1>2, <2>1, <2>3, <3>1 DEF Within
  <2>5. Managed(t)'
    BY <1>1, <1>3, <2>1 DEF Managed, Alive, Serves, Lengths, Clean, Asking, Dirty, Holding
  <2>6. Answered(t)'
    BY <1>1, <1>3, <2>1 DEF Answered, Alive, Asking, Failing, Managed
  <2> QED BY <1>1, <2>1, <2>2, <2>4, <2>5, <2>6, OwnStep DEF Used
<1>4. ASSUME Alive(k), child[k].stdin = <<>>, responses[k] = <<>>, NEW id \in Ids,
             child' = [child EXCEPT ![k].stdin = <<Asked(t, method, id)>>],
             call' = [call EXCEPT ![t] = [call[t] EXCEPT !.step = wait, !.id = id]]
      PROVE  IInv'
  <2> DEFINE c == [call[t] EXCEPT !.step = wait, !.id = id]
             r == Asked(t, method, id)
  <2>1. /\ c \in Calls /\ c.step = wait /\ c.client = k /\ c.model = call[t].model
        /\ c.input = call[t].input /\ c.id = id /\ c.then = call[t].then
        /\ c.fault = call[t].fault /\ c.result = call[t].result
    BY <1>1, <1>2 DEF Calls
  <2>2. call' \in [Threads -> Calls] /\ call'[t] = c /\ \A u \in Threads \ {t} : call'[u] = call[u]
    BY <1>1, <1>4, <2>1, CallUpdate
  <2> HIDE DEF c
  <2>3. r \in Requests
    BY <1>1 DEF Asked, Requests, Calls
  <2>4. /\ r.id = id /\ r.method = method /\ r.of = t
        /\ r.model = call[t].model /\ r.input = call[t].input
    BY DEF Asked
  <2>5. <<r>> \in Seq(Requests) /\ Len(<<r>>) = 1 /\ DOMAIN <<r>> = {1} /\ <<r>>[1] = r
    BY <2>3
  <2> HIDE DEF r
  <2>6. /\ child'[k] = [child[k] EXCEPT !.stdin = <<r>>] /\ child[k] \in Children
        /\ \A j \in Clients \ {k} : Untouched(j)
    BY <1>1, <1>4 DEF Types, Untouched, r
  <2>7. /\ child'[k].stdin = <<r>> /\ child'[k].phase = child[k].phase
        /\ child'[k].model = child[k].model /\ child'[k].told = child[k].told
    BY <2>6 DEF Children
  <2>8. Types'
    <3>1. child'[k] \in Children
      BY <2>5, <2>6 DEF Children
    <3>2. child' \in [Clients -> Children]
      BY <1>1, <1>4, <2>6, <3>1 DEF Types
    <3> QED BY <1>1, <2>2, <3>2 DEF Types
  <2>9. Within(t)
    BY <1>1, <1>2, <2>1, <2>2, <2>6 DEF Within, Closes, Managed
  <2>10. Managed(t)'
    <3>1. Len(child'[k].stdin) + Len(responses'[k]) <= 1
      BY <1>4, <2>5, <2>7
    <3>2. Alive(k)' /\ (process[k] => ~child[k].told /\ (provider.client = k => child[k].model = provider.model))
      BY <1>1, <1>4, <2>7 DEF Alive, Managed, Serves
    <3>3. /\ lock'[k] = t /\ process'[k] /\ wait \in Holding \cap Dirty
          /\ wait = "shutdown" => call'[t].then = "closed"
      BY <1>1, <1>4, <2>1, <2>2 DEF Managed, Asking, Dirty, Holding
    <3>4. Lengths(k)' /\ Serves(k)'
      BY <2>1, <2>2, <2>7, <3>1, <3>2 DEF Lengths, Serves
    <3> QED
      BY <2>1, <2>2, <3>2, <3>3, <3>4 DEF Managed, Asking
  <2>11. Answered(t)'
    <3>1. responses'[k] = <<>> /\ Alive(k)'
      BY <1>4, <2>7 DEF Alive
    <3>2. wait # "shutdown" => Pending(t)'
      <4>1. SUFFICES ASSUME wait # "shutdown" PROVE Pending(t)'
        OBVIOUS
      <4>2. call'[t].client = k /\ DOMAIN responses'[k] = {}
        BY <2>1, <2>2, <3>1
      <4> QED BY <2>1, <2>2, <2>4, <2>5, <2>7, <4>1, <4>2 DEF Pending, MyRequest, At
    <3> QED BY <2>1, <2>2, <3>1, <3>2 DEF Answered, Asking, Failing
  <2> QED BY <2>1, <2>2, <2>8, <2>9, <2>10, <2>11, OwnStep DEF Used
<1>5. \/ ~Alive(k) /\ Go(t, broken) /\ UNCHANGED child
      \/ /\ Alive(k) /\ child[k].stdin = <<>> /\ responses[k] = <<>>
         /\ \E id \in Ids :
              /\ child' = [child EXCEPT ![k].stdin = <<Asked(t, method, id)>>]
              /\ call' = [call EXCEPT ![t] = [call[t] EXCEPT !.step = wait, !.id = id]]
  <2>1. CASE ~Alive(k)
    BY <2>1 DEF Write, Client
  <2>2. CASE Alive(k)
    <3>1. child[k].stdin = <<>> /\ responses[k] = <<>>
      BY <1>1, <2>2 DEF Managed, Clean, Asking, Dirty
    <3>2. FreshId(k) \in Ids
      BY <3>1, FreshIdType
    <3>3. Append(child[k].stdin, Request(t, method)) = <<Asked(t, method, FreshId(k))>>
      BY <3>1 DEF Request, Asked, Client
    <3>4. /\ child' = [child EXCEPT ![k].stdin = Append(@, Request(t, method))]
          /\ call' = [call EXCEPT ![t] = [call[t] EXCEPT !.step = wait, !.id = FreshId(k)]]
      BY <2>2 DEF Write, Client
    <3>5. child' = [child EXCEPT ![k].stdin = <<Asked(t, method, FreshId(k))>>]
      BY <3>3, <3>4
    <3> QED BY <2>2, <3>1, <3>2, <3>4, <3>5
  <2> QED BY <2>1, <2>2
<1> QED BY <1>3, <1>4, <1>5

(* One lemma per kind of step, of a call and then of the provider and the   *)
(* child: the invariant is kept.                                            *)
LEMMA AskStep ==
  ASSUME IInv, NEW t \in Threads, AskHealth(t) \/ Ask(t) \/ AskShutdown(t), UNCHANGED provider
  PROVE  IInv'
<1>1. CASE AskHealth(t)
  BY <1>1, WriteStep DEF AskHealth, At
<1>2. CASE Ask(t)
  <2> DEFINE wait == IF call[t].input = "huge" THEN "writing" ELSE "answer"
  <2>1. /\ call[t].step = "ask" /\ Write(t, "transcribe_file", wait, "failed")
        /\ UNCHANGED <<responses, process, lock>>
    BY <1>2 DEF Ask, At
  <2>2. wait \in {"writing", "answer"}
    OBVIOUS
  <2> HIDE DEF wait
  <2> QED BY <2>1, <2>2, WriteStep
<1>3. CASE AskShutdown(t)
  BY <1>3, WriteStep DEF AskShutdown, At
<1> QED BY <1>1, <1>2, <1>3

(* A write that ends leaves what is on its way as it was; a broken pipe is  *)
(* the end of the child, which was a fault.                                 *)
LEMMA WrittenStep ==
  ASSUME IInv, NEW t \in Threads, Written(t) \/ Drained(t), UNCHANGED provider PROVE IInv'
<1> DEFINE k == call[t].client
<1>1. call[t].step = "writing" /\ k \in Clients
  BY Here DEF Written, Drained, At, Free
<1>2. Types /\ Managed(t) /\ Answered(t) /\ call[t] \in Calls
  BY <1>1, Here DEF Free
<1>3. UNCHANGED <<child, responses, process, lock>> /\ lock' = [lock EXCEPT ![k] = t]
  BY <1>1, <1>2 DEF Written, Drained, serverVars, Managed, Holding, Types
<1>4. Go(t, "answer") \/ (~Alive(k) /\ Go(t, "failed"))
  BY DEF Written, Drained, Client
<1>5. CASE Go(t, "answer")
  <2>1. "answer" \in ClientSteps \cup ProviderSteps
    BY DEF ClientSteps
  <2>2. /\ call' \in [Threads -> Calls]
        /\ call'[t].step = "answer" /\ call'[t].client = call[t].client
        /\ call'[t].model = call[t].model /\ call'[t].input = call[t].input
        /\ call'[t].id = call[t].id /\ call'[t].then = call[t].then
        /\ call'[t].fault = call[t].fault /\ call'[t].result = call[t].result
        /\ \A u \in Threads \ {t} : call'[u] = call[u]
    BY <1>2, <1>5, <2>1, Going
  <2>3. Types'
    BY <1>2, <1>3, <2>2 DEF Types
  <2>4. Within(t)
    BY <1>1, <1>3, <2>2 DEF Within, Untouched, Free, Closes
  <2>5. Managed(t)'
    BY <1>1, <1>2, <1>3, <2>2
    DEF Managed, Alive, Serves, Lengths, Clean, Asking, Dirty, Holding
  <2>6. Pending(t)'
    <3>1. Pending(t)
      BY <1>1, <1>2 DEF Answered
    <3>2. \A request : MyRequest(t, request) => MyRequest(t, request)'
      BY <1>1, <2>2 DEF MyRequest, At
    <3>3. \A line : MyLine(t, line) => MyLine(t, line)'
      BY <1>1, <2>2 DEF MyLine, At
    <3> QED BY <1>3, <2>2, <3>1, <3>2, <3>3, Zenon DEF Pending
  <2>7. Answered(t)'
    BY <1>1, <1>2, <1>3, <2>2, <2>6 DEF Answered, Alive, Asking, Failing
  <2> QED BY <2>2, <2>3, <2>4, <2>5, <2>7, OwnStep DEF Used
<1>6. CASE ~Alive(k) /\ Go(t, "failed")
  <2>1. "failed" \in ClientSteps \cup ProviderSteps
    BY DEF ClientSteps
  <2>2. /\ call' \in [Threads -> Calls]
        /\ call'[t].step = "failed" /\ call'[t].client = call[t].client
        /\ call'[t].model = call[t].model /\ call'[t].input = call[t].input
        /\ call'[t].fault = call[t].fault /\ call'[t].result = call[t].result
        /\ \A u \in Threads \ {t} : call'[u] = call[u]
    BY <1>2, <1>6, <2>1, Going
  <2>3. call[t].fault
    BY <1>1, <1>2, <1>6 DEF Answered, Asking
  <2> QED
    BY <1>1, <1>3, <2>2, <2>3, ThreadStep DEF Free, Asking, Dirty, Holding, Closes, Failing
<1> QED BY <1>4, <1>5, <1>6

(* A failed start is a fault, and the child is stopped before the attempt   *)
(* fails.                                                                   *)
LEMMA BadStartStep ==
  ASSUME IInv, NEW t \in Threads, BadStart(t), UNCHANGED provider PROVE IInv'
<1> DEFINE k == call[t].client
<1>1. call[t].step = "stop_failed" /\ k \in Clients
  BY Here DEF BadStart, At, Free
<1>2. Types /\ Managed(t) /\ Answered(t) /\ call[t] \in Calls
  BY <1>1, Here DEF Free
<1>3. UNCHANGED <<child, responses, process>> /\ lock' = [lock EXCEPT ![k] = t]
  BY <1>1, <1>2 DEF BadStart, serverVars, Managed, Holding, Types
<1>4. call' = [call EXCEPT ![t] =
        [call[t] EXCEPT !.step = "stop", !.then = "failed", !.id = NoId, !.fault = call[t].fault]]
  BY <1>2, StopThenIs DEF BadStart
<1>5. /\ call' \in [Threads -> Calls]
      /\ call'[t].step = "stop" /\ call'[t].client = k /\ call'[t].model = call[t].model
      /\ call'[t].input = call[t].input /\ call'[t].then = "failed"
      /\ call'[t].fault = call[t].fault /\ call'[t].result = call[t].result
      /\ \A u \in Threads \ {t} : call'[u] = call[u]
  BY <1>2, <1>4, GoingToStop DEF Calls
<1>6. call[t].input # "huge" => call[t].fault
  BY <1>1, <1>2 DEF Answered, Failing
<1> QED
  BY <1>1, <1>3, <1>5, <1>6, ThreadStep DEF Free, Asking, Dirty, Holding, Closes, Failing

(* The health of the child: the answer to the thread's own request, or the  *)
(* end of the child.                                                        *)
LEMMA HealthStep ==
  ASSUME IInv, NEW t \in Threads, Health(t), UNCHANGED provider PROVE IInv'
<1> DEFINE k == call[t].client
<1>1. call[t].step = "health" /\ k \in Clients
  BY Here DEF Health, At, Free
<1>2. Types /\ Managed(t) /\ Answered(t) /\ call[t] \in Calls
  BY <1>1, Here DEF Free
<1>3. UNCHANGED <<child, process, lock>> /\ Arrived(t) /\ Take(t)
  BY DEF Health
<1>4. /\ responses' \in [Clients -> Seq(Items)]
      /\ 1 \in DOMAIN responses[k] /\ Item(t) = responses[k][1]
      /\ Len(responses'[k]) = Len(responses[k]) - 1 /\ Len(responses[k]) \in Nat \ {0}
      /\ \A j \in Clients \ {k} : responses'[j] = responses[j]
  BY <1>1, <1>2, <1>3, Taking
<1>6. \A j : j = k => Lengths(j)' /\ Clean(j)' /\ Serves(j)'
  BY <1>1, <1>2, <1>3, <1>4, LastLine DEF Managed
<1>7. MyLine(t, Item(t))
  BY <1>1, <1>2, <1>4 DEF Answered, Pending
<1>8. \A j \in Clients \ {k} : Untouched(j)
  BY <1>3, <1>4 DEF Untouched
<1>9. CASE Valid(t)
  <2> DEFINE c == [call[t] EXCEPT !.step = "ask", !.id = NoId]
  <2>1. /\ c \in Calls /\ c.step = "ask" /\ c.client = k /\ c.model = call[t].model
        /\ c.fault = call[t].fault /\ c.result = call[t].result
    BY <1>2 DEF Calls, ClientSteps, Ids
  <2>2. call' = [call EXCEPT ![t] = c]
    BY <1>9 DEF Health
  <2> HIDE DEF c
  <2>3. call' \in [Threads -> Calls] /\ call'[t] = c /\ \A u \in Threads \ {t} : call'[u] = call[u]
    BY <1>2, <2>1, <2>2, CallUpdate
  <2>4. Types'
    BY <1>2, <1>3, <1>4, <2>3 DEF Types
  <2>5. Within(t)
    BY <1>1, <1>8, <2>1, <2>3 DEF Within, Free, Closes
  <2>6. Managed(t)'
    <3>1. Lengths(k)' /\ Clean(k)' /\ Serves(k)'
      BY <1>6, <2>1, <2>3
    <3> QED
      BY <1>1, <1>2, <1>3, <2>1, <2>3, <3>1 DEF Managed, Alive, Asking, Dirty, Holding
  <2>7. Answered(t)'
    BY <1>1, <1>2, <1>3, <2>1, <2>3 DEF Answered, Alive, Asking, Failing
  <2> QED BY <2>1, <2>3, <2>4, <2>5, <2>6, <2>7, OwnStep DEF Used
<1>10. CASE ~Valid(t)
  <2>1. call' = [call EXCEPT ![t] =
          [call[t] EXCEPT !.step = "stop", !.then = "failed", !.id = NoId, !.fault = call[t].fault]]
    BY <1>2, <1>10, StopThenIs DEF Health
  <2>2. /\ call' \in [Threads -> Calls]
        /\ call'[t].step = "stop" /\ call'[t].client = k /\ call'[t].model = call[t].model
        /\ call'[t].input = call[t].input /\ call'[t].then = "failed"
        /\ call'[t].fault = call[t].fault /\ call'[t].result = call[t].result
        /\ \A u \in Threads \ {t} : call'[u] = call[u]
    BY <1>2, <2>1, GoingToStop DEF Calls
  <2>3. call[t].fault
    BY <1>1, <1>7, <1>10 DEF MyLine, Valid, At
  <2>4. Types'
    BY <1>2, <1>3, <1>4, <2>2 DEF Types
  <2>5. Within(t)
    BY <1>1, <1>8, <2>2 DEF Within, Free, Closes
  <2>6. Managed(t)'
    <3>1. Lengths(k)' /\ Serves(k)'
      BY <1>6, <2>2
    <3> QED
      BY <1>1, <1>2, <1>3, <2>2, <3>1 DEF Managed, Alive, Asking, Dirty, Holding
  <2>7. Answered(t)'
    BY <2>2, <2>3 DEF Answered, Asking
  <2> QED BY <2>2, <2>4, <2>5, <2>6, <2>7, OwnStep DEF Used
<1> QED BY <1>9, <1>10

(* The answer to the request.                                               *)
LEMMA AnswerStep ==
  ASSUME IInv, NEW t \in Threads, Answer(t), UNCHANGED provider PROVE IInv'
<1> DEFINE k == call[t].client
<1>1. call[t].step = "answer" /\ k \in Clients
  BY Here DEF Answer, At, Free
<1>2. Types /\ Managed(t) /\ Answered(t) /\ call[t] \in Calls
  BY <1>1, Here DEF Free
<1>3. UNCHANGED <<child, process>> /\ Arrived(t) /\ Take(t)
  BY DEF Answer
<1>4. /\ responses' \in [Clients -> Seq(Items)]
      /\ Item(t) \in Items /\ 1 \in DOMAIN responses[k] /\ Item(t) = responses[k][1]
      /\ Len(responses'[k]) = Len(responses[k]) - 1 /\ Len(responses[k]) \in Nat \ {0}
      /\ \A j \in Clients \ {k} : responses'[j] = responses[j]
  BY <1>1, <1>2, <1>3, Taking
<1>6. \A j : j = k => Lengths(j)' /\ Clean(j)' /\ Serves(j)'
  BY <1>1, <1>2, <1>3, <1>4, LastLine DEF Managed
<1>7. MyLine(t, Item(t))
  BY <1>1, <1>2, <1>4 DEF Answered, Pending
<1>8. CASE Valid(t)
  <2> DEFINE c == [call[t] EXCEPT !.step = "return", !.result = Item(t), !.id = NoId]
  <2>1. /\ c \in Calls /\ c.step = "return" /\ c.client = k /\ c.model = call[t].model
        /\ c.result = Item(t)
    BY <1>2, <1>4 DEF Calls, ProviderSteps, Ids
  <2>2. call' = [call EXCEPT ![t] = c] /\ lock' = [lock EXCEPT ![k] = NoThread]
    BY <1>8 DEF Answer, Unlock, Client
  <2> HIDE DEF c
  <2>3. call' \in [Threads -> Calls] /\ call'[t] = c /\ \A u \in Threads \ {t} : call'[u] = call[u]
    BY <1>2, <2>1, <2>2, CallUpdate
  <2>4. Types'
    BY <1>2, <1>3, <1>4, <2>2, <2>3 DEF Types
  <2>5. Within(t)
    <3>1. \A j \in Clients \ {k} : Untouched(j)
      BY <1>2, <1>3, <1>4, <2>2 DEF Untouched, Types
    <3> QED BY <1>1, <2>1, <2>3, <3>1 DEF Within, Free, Closes
  <2>6. Managed(t)'
    <3>1. lock'[k] = NoThread
      BY <1>1, <1>2, <2>2 DEF Types
    <3>2. Lengths(k)' /\ Clean(k)' /\ Serves(k)'
      BY <1>6, <2>1, <2>3
    <3> QED
      BY <1>1, <1>2, <1>3, <2>1, <2>3, <3>1, <3>2 DEF Managed, Alive, Asking, Dirty, Holding
  <2>7. Answered(t)'
    BY <2>1, <2>3 DEF Answered, Asking, Failing
  <2>8. Item(t).of = t /\ Item(t).model = call[t].model
    BY <1>7, <1>8 DEF MyLine, Valid
  <2> QED BY <2>1, <2>3, <2>4, <2>5, <2>6, <2>7, <2>8, OwnStep DEF Used
<1>9. CASE ~Valid(t)
  <2>1. Go(t, "failed") /\ UNCHANGED lock /\ "failed" \in ClientSteps
    BY <1>9 DEF Answer, ClientSteps
  <2>2. call[t].input # "huge" => call[t].fault
    BY <1>1, <1>7, <1>9 DEF MyLine, Valid, At
  <2>3. /\ call'[t].step = "failed" /\ call'[t].client = k /\ call'[t].input = call[t].input
        /\ call'[t].fault = call[t].fault
    BY <1>2, <2>1, Going
  <2>4. Types'
    BY <1>2, <1>3, <1>4, <2>1, Going DEF Types
  <2>5. Within(t)
    <3>1. \A j \in Clients \ {k} : Untouched(j)
      BY <1>3, <1>4, <2>1 DEF Untouched
    <3> QED BY <1>1, <1>2, <2>1, <2>3, <3>1, Going DEF Within, Free, Closes
  <2>6. Managed(t)'
    <3>1. Lengths(k)' /\ Clean(k)' /\ Serves(k)'
      BY <1>6, <2>1, <2>3
    <3> QED
      BY <1>1, <1>2, <1>3, <2>1, <2>3, <3>1 DEF Managed, Alive, Asking, Dirty, Holding
  <2>7. Answered(t)'
    BY <2>2, <2>3 DEF Answered, Asking, Failing
  <2> QED BY <1>2, <2>1, <2>4, <2>5, <2>6, <2>7, Going, OwnStep DEF Used
<1> QED BY <1>8, <1>9

(* A time-out of an attempt is a fault of the child.                        *)
LEMMA TimeOutStep ==
  ASSUME IInv, NEW t \in Threads, TimeOut(t), UNCHANGED provider PROVE IInv'
<1> DEFINE k == call[t].client
<1>1. call[t].step \in {"health", "answer", "shutdown"} /\ k \in Clients
  BY Here DEF TimeOut, Free
<1>2. Types /\ Managed(t) /\ Answered(t) /\ call[t] \in Calls
  BY <1>1, Here DEF Free
<1>3. UNCHANGED <<child, responses, process>> /\ lock' = [lock EXCEPT ![k] = t]
  BY <1>1, <1>2 DEF TimeOut, serverVars, Managed, Holding, Types
<1>4. CASE call[t].step = "health"
  <2>1. call' = [call EXCEPT ![t] =
          [call[t] EXCEPT !.step = "stop", !.then = "failed", !.id = NoId, !.fault = TRUE]]
    BY <1>2, <1>4 DEF TimeOut, At, Hit, Calls
  <2>2. /\ call' \in [Threads -> Calls]
        /\ call'[t].step = "stop" /\ call'[t].client = k /\ call'[t].model = call[t].model
        /\ call'[t].input = call[t].input /\ call'[t].then = "failed"
        /\ call'[t].fault /\ call'[t].result = call[t].result
        /\ \A u \in Threads \ {t} : call'[u] = call[u]
    BY <1>2, <2>1, GoingToStop
  <2> QED BY <1>1, <1>3, <1>4, <2>2, ThreadStep DEF Free, Asking, Dirty, Holding, Closes, Failing
<1>5. CASE call[t].step = "answer"
  <2> DEFINE c == [Hit(call[t]) EXCEPT !.step = "failed"]
  <2>1. /\ c \in Calls /\ c.step = "failed" /\ c.client = k /\ c.fault /\ c.input = call[t].input
        /\ c.model = call[t].model /\ c.result = call[t].result
    BY <1>2 DEF Calls, Hit, ClientSteps
  <2>2. call' = [call EXCEPT ![t] = c]
    BY <1>5 DEF TimeOut, At
  <2> HIDE DEF c
  <2>3. call' \in [Threads -> Calls] /\ call'[t] = c /\ \A u \in Threads \ {t} : call'[u] = call[u]
    BY <1>2, <2>1, <2>2, CallUpdate
  <2> QED
    BY <1>1, <1>3, <1>5, <2>1, <2>3, ThreadStep DEF Free, Asking, Dirty, Holding, Closes, Failing
<1>6. CASE call[t].step = "shutdown"
  <2>1. Go(t, "stop") /\ "stop" \in ClientSteps
    BY <1>6 DEF TimeOut, At, ClientSteps
  <2>2. call[t].then = "closed"
    BY <1>2, <1>6 DEF Managed
  <2>3. /\ call' \in [Threads -> Calls] /\ \A u \in Threads \ {t} : call'[u] = call[u]
        /\ call'[t].step = "stop" /\ call'[t].client = k /\ call'[t].model = call[t].model
        /\ call'[t].input = call[t].input /\ call'[t].then = "closed"
        /\ call'[t].result = call[t].result
    BY <1>2, <2>1, <2>2, Going
  <2> QED
    BY <1>1, <1>3, <1>6, <2>3, ThreadStep DEF Free, Asking, Dirty, Holding, Closes, Failing
<1> QED BY <1>1, <1>4, <1>5, <1>6

(* Between the two with-blocks the client is nobody else's.                 *)
LEMMA FailedStep ==
  ASSUME IInv, NEW t \in Threads, Failed(t), UNCHANGED provider PROVE IInv'
<1> DEFINE k == call[t].client
<1>1. call[t].step = "failed" /\ k \in Clients
  BY Here DEF Failed, At, Free
<1>2. Types /\ Answered(t)
  BY <1>1, Here DEF Free
<1>3. UNCHANGED <<child, responses, process>> /\ lock' = [lock EXCEPT ![k] = NoThread]
  BY DEF Failed, Unlock, Client, serverVars
<1>4. Go(t, "give_up") /\ "give_up" \in ClientSteps
  BY DEF Failed, ClientSteps
<1>5. call[t].input # "huge" => call[t].fault
  BY <1>1, <1>2 DEF Answered, Failing
<1>6. /\ call' \in [Threads -> Calls] /\ \A u \in Threads \ {t} : call'[u] = call[u]
      /\ call'[t].step = "give_up" /\ call'[t].client = k /\ call'[t].model = call[t].model
      /\ call'[t].input = call[t].input /\ call'[t].fault = call[t].fault
      /\ call'[t].result = call[t].result
  BY <1>2, <1>4, Going
<1> QED
  BY <1>1, <1>3, <1>5, <1>6, ThreadStep DEF Free, Asking, Dirty, Holding, Closes, Failing

LEMMA GiveUpStep ==
  ASSUME IInv, NEW t \in Threads, GiveUp(t), UNCHANGED provider PROVE IInv'
<1> DEFINE k == call[t].client
<1>1. call[t].step = "give_up" /\ k \in Clients
  BY Here DEF GiveUp, At, Free
<1>2. Types /\ Answered(t) /\ call[t] \in Calls
  BY <1>1, Here DEF Free
<1>3. UNCHANGED <<child, responses, process>> /\ lock' = [lock EXCEPT ![k] = t]
  BY DEF GiveUp, Lock, Client, serverVars
<1>4. call' = [call EXCEPT ![t] =
        [call[t] EXCEPT !.step = "stop", !.then = "retry", !.id = NoId, !.fault = call[t].fault]]
  BY <1>2, StopThenIs DEF GiveUp
<1>5. /\ call' \in [Threads -> Calls]
      /\ call'[t].step = "stop" /\ call'[t].client = k /\ call'[t].model = call[t].model
      /\ call'[t].input = call[t].input /\ call'[t].then = "retry"
      /\ call'[t].fault = call[t].fault /\ call'[t].result = call[t].result
      /\ \A u \in Threads \ {t} : call'[u] = call[u]
  BY <1>2, <1>4, GoingToStop DEF Calls
<1>6. call[t].input # "huge" => call[t].fault
  BY <1>1, <1>2 DEF Answered, Failing
<1> QED
  BY <1>1, <1>3, <1>5, <1>6, ThreadStep DEF Free, Asking, Dirty, Holding, Closes, Failing

-----------------------------------------------------------------------------
(* close() and _stop_locked().                                              *)

LEMMA CloseStep ==
  ASSUME IInv, NEW t \in Threads, Close(t), UNCHANGED provider PROVE IInv'
<1> DEFINE k == call[t].client
<1>1. call[t].step = "close" /\ k \in Clients
  BY Here DEF Close, At, Free
<1>2. Types /\ call[t] \in Calls /\ Managed(t)
  BY <1>1, Here DEF Free
<1>3. UNCHANGED <<child, responses, process>> /\ lock' = [lock EXCEPT ![k] = t]
  BY DEF Close, Lock, Client, serverVars
<1>4. PICK s \in {"ask_shutdown", "stop"} :
        /\ call' = [call EXCEPT ![t] = [call[t] EXCEPT !.step = s, !.then = "closed"]]
        /\ s = "ask_shutdown" => process[k]
  <2>1. call' = [call EXCEPT ![t].step =
                   IF process[k] /\ Alive(k) THEN "ask_shutdown" ELSE "stop",
                 ![t].then = "closed"]
    BY DEF Close, Client
  <2> QED BY <1>2, <2>1 DEF Types
<1> DEFINE c == [call[t] EXCEPT !.step = s, !.then = "closed"]
<1>5. /\ c \in Calls /\ c.step = s /\ c.client = k /\ c.input = call[t].input /\ c.then = "closed"
      /\ c.model = call[t].model /\ c.result = call[t].result
  BY <1>2 DEF Calls, ClientSteps
<1> HIDE DEF c
<1>6. call' \in [Threads -> Calls] /\ call'[t] = c /\ \A u \in Threads \ {t} : call'[u] = call[u]
  BY <1>2, <1>4, <1>5, CallUpdate DEF c
<1>7. /\ lock' = [lock EXCEPT ![k] = IF call'[t].step \in Holding THEN t ELSE NoThread]
      /\ call[t].step \notin Free \cup Dirty \cup {"wait", "terminated"}
      /\ call'[t].step \notin
           Free \cup Asking \cup {"health", "writing", "answer", "wait", "terminated", "closed", "start"}
      /\ Closes(call[t]) /\ Closes(call'[t]) /\ ~Failing(call'[t])
  BY <1>1, <1>3, <1>4, <1>5, <1>6 DEF Free, Asking, Dirty, Holding, Closes, Failing
<1>8. /\ call'[t].client = k /\ call'[t].model = call[t].model /\ call'[t].input = call[t].input
      /\ call'[t].result = call[t].result /\ call'[t].then = "closed"
      /\ call'[t].step = "ask_shutdown" => process[k]
  BY <1>4, <1>5, <1>6
<1> QED BY <1>1, <1>3, <1>6, <1>7, <1>8, ThreadStep

LEMMA ShutdownAnsweredStep ==
  ASSUME IInv, NEW t \in Threads, ShutdownAnswered(t), UNCHANGED provider PROVE IInv'
<1> DEFINE k == call[t].client
<1>1. call[t].step = "shutdown" /\ k \in Clients
  BY Here DEF ShutdownAnswered, At, Free
<1>2. Types /\ Managed(t)
  BY <1>1, Here DEF Free
<1>3. UNCHANGED <<child, process, lock>> /\ Arrived(t) /\ Take(t)
  BY DEF ShutdownAnswered
<1>4. /\ responses' \in [Clients -> Seq(Items)]
      /\ Len(responses'[k]) = Len(responses[k]) - 1 /\ Len(responses[k]) \in Nat \ {0}
      /\ \A j \in Clients \ {k} : responses'[j] = responses[j]
  BY <1>1, <1>2, <1>3, Taking
<1>5. \A j : j = k => Lengths(j)' /\ Clean(j)' /\ Serves(j)'
  BY <1>1, <1>2, <1>3, <1>4, LastLine DEF Managed
<1>6. Go(t, "stop") /\ "stop" \in ClientSteps /\ call[t].then = "closed"
  BY <1>1, <1>2 DEF ShutdownAnswered, ClientSteps, Managed
<1>7. /\ call' \in [Threads -> Calls] /\ \A u \in Threads \ {t} : call'[u] = call[u]
      /\ call'[t].step = "stop" /\ call'[t].client = k /\ call'[t].model = call[t].model
      /\ call'[t].then = "closed" /\ call'[t].result = call[t].result
  BY <1>2, <1>6, Going
<1>8. Types'
  BY <1>2, <1>3, <1>4, <1>7 DEF Types
<1>9. Within(t)
  <2>1. \A j \in Clients \ {k} : Untouched(j)
    BY <1>3, <1>4 DEF Untouched
  <2> QED BY <1>1, <1>7, <2>1 DEF Within, Free, Closes
<1>10. Managed(t)'
  <2>1. Lengths(k)' /\ Clean(k)' /\ Serves(k)'
    BY <1>5, <1>7
  <2> QED BY <1>1, <1>2, <1>3, <1>7, <2>1 DEF Managed, Alive, Asking, Dirty, Holding
<1>11. Answered(t)'
  BY <1>7 DEF Answered, Asking, Failing
<1> QED BY <1>7, <1>8, <1>9, <1>10, <1>11, OwnStep DEF Used

(* The child is dead when _stop_locked() returns.                           *)
LEMMA StoppedStep ==
  ASSUME IInv, NEW t \in Threads, NEW k, k = call[t].client,
         call[t].step \in {"stop", "wait", "terminated"}, ~Alive(k),
         UNCHANGED <<child, provider>>, process' = [process EXCEPT ![k] = FALSE], Stopped(t)
  PROVE  IInv'
<1>1. Types /\ Managed(t) /\ Answered(t) /\ call[t] \in Calls /\ k \in Clients
  BY Here DEF Free
<1> DEFINE c == [After(call[t]) EXCEPT !.id = NoId]
<1>2. /\ c \in Calls /\ c.client = k /\ c.model = call[t].model /\ c.result = call[t].result
      /\ c.input = call[t].input
      /\ \/ call[t].then = "failed" /\ c.step = "failed" /\ c.fault = call[t].fault
         \/ call[t].then = "retry" /\ c.step \in {"attempt", "return"}
         \/ call[t].then = "closed" /\ c.step = "closed"
  <2>1. call[t].then \in {"failed", "retry", "closed"} /\ call[t].attempt \in {1, 2}
    BY <1>1 DEF Calls
  <2>2. CASE call[t].then = "failed"
    <3>1. c = [call[t] EXCEPT !.step = "failed", !.id = NoId]
      BY <1>1, <2>2 DEF After, Calls
    <3> HIDE DEF c
    <3> QED BY <1>1, <2>2, <3>1 DEF Calls, ClientSteps, Ids
  <2>3. CASE call[t].then = "retry" /\ call[t].attempt = 1
    <3>1. c = [call[t] EXCEPT !.step = "attempt", !.attempt = 2, !.fault = FALSE,
                              !.then = "closed", !.id = NoId]
      BY <1>1, <2>3 DEF After, Calls
    <3> HIDE DEF c
    <3>2. c = [step |-> "attempt", client |-> k, model |-> call[t].model,
               input |-> call[t].input, id |-> NoId, attempt |-> 2, then |-> "closed",
               fault |-> FALSE, temp |-> call[t].temp, result |-> call[t].result]
      BY <1>1, <3>1 DEF Calls
    <3>3. 2 \in 1 .. 2 /\ NoId \in Ids /\ "attempt" \in ClientSteps
      BY DEF Ids, ClientSteps
    <3>4. c \in Calls
      BY <1>1, <3>2, <3>3 DEF Calls
    <3> QED BY <2>3, <3>2, <3>4
  <2>4. CASE call[t].then = "retry" /\ call[t].attempt = 2
    <3>1. c = [call[t] EXCEPT !.step = "return", !.id = NoId]
      BY <1>1, <2>4 DEF After, Calls
    <3> HIDE DEF c
    <3> QED BY <1>1, <2>4, <3>1 DEF Calls, ProviderSteps, Ids
  <2>5. CASE call[t].then = "closed"
    <3>1. c = [call[t] EXCEPT !.step = "closed", !.id = NoId]
      BY <1>1, <2>5 DEF After, Calls
    <3> HIDE DEF c
    <3> QED BY <1>1, <2>5, <3>1 DEF Calls, ProviderSteps, Ids
  <2> QED BY <2>1, <2>2, <2>3, <2>4, <2>5
<1>3. call' = [call EXCEPT ![t] = c]
  BY DEF Stopped
<1> HIDE DEF c
<1>4. call' \in [Threads -> Calls] /\ call'[t] = c /\ \A u \in Threads \ {t} : call'[u] = call[u]
  BY <1>1, <1>2, <1>3, CallUpdate
<1>5. lock' = [lock EXCEPT ![k] = IF c.step = "failed" THEN t ELSE NoThread]
  <2>1. lock[k] = t
    BY <1>1 DEF Managed, Holding
  <2> QED BY <1>1, <1>2, <2>1 DEF Stopped, Unlock, Types
<1>6. /\ responses' \in [Clients -> Seq(Items)] /\ Len(responses'[k]) <= 2
      /\ \A j \in Clients \ {k} : responses'[j] = responses[j]
  <2>1. Len(responses[k]) <= 2
    BY <1>1 DEF Managed, Lengths
  <2>2. CASE UNCHANGED responses
    BY <1>1, <2>1, <2>2 DEF Types
  <2>3. CASE responses' = [responses EXCEPT ![k] = <<>>]
    <3>1. responses' \in [Clients -> Seq(Items)] /\ responses'[k] = <<>>
          /\ \A j \in Clients \ {k} : responses'[j] = responses[j]
      BY <1>1, <2>3, EmptySeq DEF Types
    <3> QED BY <3>1, EmptySeq
  <2> QED BY <2>2, <2>3 DEF Stopped
<1>7. Types'
  BY <1>1, <1>4, <1>5, <1>6 DEF Types
<1>8. Within(t)
  <2>1. \A j \in Clients \ {k} : Untouched(j)
    BY <1>1, <1>5, <1>6 DEF Untouched, Types
  <2>2. Closes(call'[t]) <=> Closes(call[t])
    BY <1>2, <1>4 DEF Closes
  <2> QED BY <1>2, <1>4, <2>1, <2>2 DEF Within, Free
<1>9. Managed(t)'
  <2>1. ~Alive(k)' /\ process'[k] = FALSE /\ child'[k].stdin = <<>>
    BY <1>1 DEF Alive, Types, Managed, Lengths
  <2>2. lock'[k] = IF c.step = "failed" THEN t ELSE NoThread
    BY <1>1, <1>5 DEF Types
  <2>3. Lengths(k)' /\ Clean(k)' /\ Serves(k)'
    BY <1>6, <2>1, Zenon DEF Lengths, Clean, Serves
  <2> QED
    BY <1>2, <1>4, <2>1, <2>2, <2>3 DEF Managed, Asking, Holding
<1>10. Answered(t)'
  BY <1>1, <1>2, <1>4 DEF Answered, Asking, Failing
<1> QED BY <1>2, <1>4, <1>7, <1>8, <1>9, <1>10, OwnStep DEF Used

LEMMA StopStep ==
  ASSUME IInv, NEW t \in Threads, Stop(t), UNCHANGED provider PROVE IInv'
<1> DEFINE k == call[t].client
<1>1. call[t].step = "stop" /\ k \in Clients
  BY Here DEF Stop, At, Free
<1>2. Types /\ Managed(t) /\ Answered(t)
  BY <1>1, Here DEF Free
<1>3. UNCHANGED child /\ process' = [process EXCEPT ![k] = FALSE]
  BY DEF Stop, Client
<1>4. CASE process[k] /\ Alive(k)
  <2>1. Go(t, "wait") /\ UNCHANGED <<responses, lock>> /\ "wait" \in ClientSteps
    BY <1>4 DEF Stop, Client, ClientSteps
  <2>2. /\ call' \in [Threads -> Calls] /\ \A u \in Threads \ {t} : call'[u] = call[u]
        /\ call'[t].step = "wait" /\ call'[t].client = k /\ call'[t].model = call[t].model
        /\ call'[t].input = call[t].input /\ call'[t].fault = call[t].fault
        /\ call'[t].then = call[t].then /\ call'[t].result = call[t].result
    BY <1>2, <2>1, Going
  <2>3. Types'
    BY <1>2, <1>3, <2>1, <2>2 DEF Types
  <2>4. Within(t)
    <3>1. \A j \in Clients \ {k} : Untouched(j)
      BY <1>2, <1>3, <2>1 DEF Untouched, Types
    <3> QED BY <1>1, <2>2, <3>1 DEF Within, Free, Closes
  <2>5. process'[k] = FALSE
    BY <1>1, <1>2, <1>3 DEF Types
  <2>6. Managed(t)'
    BY <1>1, <1>2, <1>3, <2>1, <2>2, <2>5
    DEF Managed, Alive, Serves, Lengths, Clean, Asking, Holding
  <2>7. Answered(t)'
    BY <1>1, <1>2, <2>2 DEF Answered, Asking, Failing
  <2> QED BY <2>2, <2>3, <2>4, <2>6, <2>7, OwnStep DEF Used
<1>5. CASE ~(process[k] /\ Alive(k))
  <2>1. ~Alive(k)
    BY <1>1, <1>2, <1>5 DEF Managed
  <2>2. Stopped(t)
    BY <1>5 DEF Stop, Client
  <2> QED BY <1>1, <1>3, <2>1, <2>2, StoppedStep DEF Stop
<1> QED BY <1>4, <1>5

LEMMA GoneStep ==
  ASSUME IInv, NEW t \in Threads, Gone(t), UNCHANGED provider PROVE IInv'
<1> DEFINE k == call[t].client
<1>1. call[t].step \in {"wait", "terminated"} /\ k \in Clients
  BY Here DEF Gone, At, Free
<1>2. Types /\ Managed(t)
  BY <1>1, Here DEF Free
<1>3. process' = [process EXCEPT ![k] = FALSE]
  BY <1>1, <1>2 DEF Gone, Managed, Types
<1> QED BY <1>1, <1>3, StoppedStep DEF Gone, Client

(* A child that is told, or killed, is nobody's process any more.           *)
LEMMA TerminateStep ==
  ASSUME IInv, NEW t \in Threads, Terminate(t), UNCHANGED provider PROVE IInv'
<1> DEFINE k == call[t].client
<1>1. call[t].step = "wait" /\ k \in Clients
  BY Here DEF Terminate, At, Free
<1>2. Types /\ Managed(t) /\ Answered(t)
  BY <1>1, Here DEF Free
<1>3. /\ UNCHANGED <<responses, process, lock>> /\ Alive(k)
      /\ child' = [child EXCEPT ![k].told = TRUE]
  BY DEF Terminate, Client
<1>4. Go(t, "terminated") /\ "terminated" \in ClientSteps
  BY DEF Terminate, ClientSteps
<1>5. /\ call' \in [Threads -> Calls] /\ \A u \in Threads \ {t} : call'[u] = call[u]
      /\ call'[t].step = "terminated" /\ call'[t].client = k /\ call'[t].model = call[t].model
      /\ call'[t].input = call[t].input /\ call'[t].fault = call[t].fault
      /\ call'[t].then = call[t].then /\ call'[t].result = call[t].result
  BY <1>2, <1>4, Going
<1>6. /\ child' \in [Clients -> Children] /\ \A j \in Clients \ {k} : child'[j] = child[j]
      /\ child'[k].phase = child[k].phase /\ child'[k].stdin = child[k].stdin
  <2> DEFINE c == [child[k] EXCEPT !.told = TRUE]
  <2>1. child \in [Clients -> Children] /\ child[k] \in Children
    BY <1>1, <1>2 DEF Types
  <2>2. c \in Children /\ c.phase = child[k].phase /\ c.stdin = child[k].stdin
    BY <2>1 DEF Children
  <2>3. child' = [child EXCEPT ![k] = c]
    BY <1>3, <2>1
  <2> HIDE DEF c
  <2> QED BY <1>1, <2>1, <2>2, <2>3
<1>7. Types'
  BY <1>2, <1>3, <1>5, <1>6 DEF Types
<1>8. Within(t)
  <2>1. \A j \in Clients \ {k} : Untouched(j)
    BY <1>3, <1>6 DEF Untouched
  <2> QED BY <1>1, <1>5, <2>1 DEF Within, Free, Closes
<1>9. Managed(t)'
  BY <1>1, <1>2, <1>3, <1>5, <1>6 DEF Managed, Alive, Serves, Lengths, Clean, Asking, Holding
<1>10. Answered(t)'
  BY <1>1, <1>2, <1>5 DEF Answered, Asking, Failing
<1> QED BY <1>5, <1>7, <1>8, <1>9, <1>10, OwnStep DEF Used

(* The last words of a child.                                               *)
LEMMA Ending ==
  ASSUME Types, NEW k \in Clients, Lengths(k), Alive(k), End(k), Say(k, <<StreamFailure>>)
  PROVE  /\ child' \in [Clients -> Children] /\ responses' \in [Clients -> Seq(Items)]
         /\ \A j \in Clients \ {k} : child'[j] = child[j] /\ responses'[j] = responses[j]
         /\ ~Alive(k)' /\ child'[k] = Dead /\ responses'[k] = responses[k] \o <<StreamFailure>>
         /\ Lengths(k)' /\ Clean(k)' /\ Serves(k)'
<1>1. child' \in [Clients -> Children] /\ child'[k] = Dead
      /\ \A j \in Clients \ {k} : child'[j] = child[j]
  BY DeadType DEF End, Types
<1>2. responses[k] \in Seq(Items) /\ <<StreamFailure>> \in Seq(Items) /\ Len(<<StreamFailure>>) = 1
  BY DEF Types, Items
<1>3. /\ responses[k] \o <<StreamFailure>> \in Seq(Items)
      /\ Len(responses[k] \o <<StreamFailure>>) = Len(responses[k]) + 1
  BY <1>2, ConcatProperties
<1>4. /\ responses' \in [Clients -> Seq(Items)] /\ responses'[k] = responses[k] \o <<StreamFailure>>
      /\ \A j \in Clients \ {k} : responses'[j] = responses[j]
  BY <1>3 DEF Types, Say
<1>5. ~Alive(k)' /\ child'[k].stdin = <<>>
  BY <1>1, DeadType DEF Alive
<1>6. Len(responses'[k]) <= 2
  <2>1. Len(child[k].stdin) \in Nat /\ Len(responses[k]) \in Nat
    BY LenProperties DEF Types, Children
  <2>2. Len(child[k].stdin) + Len(responses[k]) <= 1
    BY DEF Lengths
  <2>3. \A a, b, c \in Nat : a + b <= 1 /\ c = b + 1 => c <= 2
    OBVIOUS
  <2> QED BY <1>3, <1>4, <2>1, <2>2, <2>3, LenProperties
<1>7. Lengths(k)' /\ Clean(k)' /\ Serves(k)'
  BY <1>5, <1>6, Zenon DEF Lengths, Clean, Serves
<1> QED BY <1>1, <1>4, <1>5, <1>7

LEMMA KillStep ==
  ASSUME IInv, NEW t \in Threads, Kill(t), UNCHANGED provider PROVE IInv'
<1> DEFINE k == call[t].client
<1>1. call[t].step = "terminated" /\ k \in Clients
  BY Here DEF Kill, At, Free
<1>2. Types /\ Managed(t) /\ Answered(t)
  BY <1>1, Here DEF Free
<1>3. UNCHANGED <<process, lock>> /\ Alive(k) /\ End(k) /\ Say(k, <<StreamFailure>>)
  BY DEF Kill, Client
<1>4. Go(t, "wait") /\ "wait" \in ClientSteps
  BY DEF Kill, ClientSteps
<1>5. /\ call' \in [Threads -> Calls] /\ \A u \in Threads \ {t} : call'[u] = call[u]
      /\ call'[t].step = "wait" /\ call'[t].client = k /\ call'[t].model = call[t].model
      /\ call'[t].input = call[t].input /\ call'[t].fault = call[t].fault
      /\ call'[t].then = call[t].then /\ call'[t].result = call[t].result
  BY <1>2, <1>4, Going
<1>6. /\ child' \in [Clients -> Children] /\ responses' \in [Clients -> Seq(Items)]
      /\ \A j \in Clients \ {k} : child'[j] = child[j] /\ responses'[j] = responses[j]
  BY <1>1, <1>2, <1>3, Ending DEF Managed
<1>7. \A j : j = k => ~Alive(j)' /\ Lengths(j)' /\ Clean(j)' /\ Serves(j)'
  BY <1>1, <1>2, <1>3, Ending DEF Managed
<1>8. Types'
  BY <1>2, <1>3, <1>5, <1>6 DEF Types
<1>9. Within(t)
  <2>1. \A j \in Clients \ {k} : Untouched(j)
    BY <1>3, <1>6 DEF Untouched
  <2> QED BY <1>1, <1>5, <2>1 DEF Within, Free, Closes
<1>10. Managed(t)'
  <2>1. ~Alive(k)' /\ Lengths(k)' /\ Clean(k)' /\ Serves(k)'
    BY <1>5, <1>7
  <2> QED BY <1>1, <1>2, <1>3, <1>5, <2>1 DEF Managed, Asking, Holding
<1>11. Answered(t)'
  BY <1>1, <1>2, <1>5 DEF Answered, Asking, Failing
<1> QED BY <1>5, <1>8, <1>9, <1>10, <1>11, OwnStep DEF Used

(* Every step of the client.                                                *)
LEMMA EveryClientStep ==
  ASSUME IInv, NEW t \in Threads, ClientStep(t), UNCHANGED provider PROVE IInv'
BY AttemptStep, StartStep, AskStep, WrittenStep, BadStartStep, HealthStep, AnswerStep, TimeOutStep, FailedStep,
   GiveUpStep, CloseStep, ShutdownAnsweredStep, StopStep, GoneStep, TerminateStep, KillStep
DEF ClientStep

-----------------------------------------------------------------------------
(* The steps of the provider.                                               *)

(* A thread that refers to no client is of no consequence.                  *)
LEMMA NoCallType ==
  /\ NoCall \in Calls /\ NoCall.step = "idle" /\ NoCall.client = NoClient
  /\ NoCall.result = StreamFailure /\ NoCall.then = "closed" /\ NoCall.temp = FALSE
<1>1. (CHOOSE m \in Models : TRUE) \in Models /\ 1 \in 1 .. 2 /\ NoId \in Ids
  BY ModelAssumption DEF Ids
<1>2. "idle" \in ProviderSteps /\ "fine" \in Files /\ StreamFailure \in Items
  BY DEF ProviderSteps, Files, Items
<1> QED BY <1>1, <1>2 DEF NoCall, Calls

(* A client at rest is taken by a thread, ...                               *)
LEMMA Taken ==
  ASSUME NEW t \in Threads, NEW k, AtRest(k), UNCHANGED <<child, responses, process, lock>>,
         call'[t].client = k, call'[t].step \in {"prepare", "close"},
         provider'.client = k => provider'.model = provider.model \/ ~process[k]
  PROVE  Used(t)'
<1>1. Managed(t)'
  BY DEF Managed, AtRest, Alive, Serves, Lengths, Clean, Holding, Asking
<1>2. Answered(t)'
  BY DEF Answered, Asking, Failing
<1> QED BY <1>1, <1>2 DEF Used

(* ... and is at rest when the thread has left it.                          *)
LEMMA Left ==
  ASSUME NEW t \in Threads, NEW k, k = call[t].client, Managed(t),
         UNCHANGED <<child, responses, process, lock>>,
         provider'.client = provider.client, provider'.model = provider.model,
         call[t].step = "closed" \/ (call[t].step = "return" /\ provider.client = k)
  PROVE  AtRest(k)'
BY DEF Managed, AtRest, Alive, Serves, Lengths, Clean, Holding, Dirty

(* Nobody uses the provider's client while the lock is free, or while its   *)
(* owner closes another one.                                                *)
LEMMA ProviderAtRest ==
  ASSUME IInv, provider.client \in Clients,
         \A t \in Threads : provider.lock = t => Closes(call[t])
  PROVE  AtRest(provider.client) /\ \A u \in Threads : call[u].client # provider.client
<1>1. ASSUME NEW u \in Threads PROVE call[u].client # provider.client
  BY ClientAssumption DEF IInv, Ownership, Owner
<1> QED BY <1>1 DEF IInv

(* A step that changes a thread and the provider.                           *)
LEMMA ProviderMove ==
  ASSUME IInv, Types', Ownership', NEW t \in Threads,
         UNCHANGED <<child, responses, process, lock>>,
         \A u \in Threads \ {t} : call'[u] = call[u],
         call'[t].result # StreamFailure =>
           call'[t].result = call[t].result /\ call'[t].model = call[t].model,
         call'[t].step \notin Free => Used(t)',
         \A u \in Threads \ {t} :
           call[u].step \notin Free /\ provider'.client = call[u].client =>
             provider'.model = provider.model /\ provider.client = call[u].client,
         \A k \in Clients : (\A u \in Threads : call'[u].client # k) => AtRest(k)'
  PROVE  IInv'
<1>1. Results'
  BY DEF IInv, Results
<1>2. ASSUME NEW u \in Threads, call'[u].step \notin Free PROVE Used(u)'
  <2>1. CASE u = t
    BY <1>2, <2>1
  <2>2. CASE u # t
    <3>1. call'[u] = call[u] /\ call[u].step \notin Free /\ Used(u)
      BY <1>2, <2>2 DEF IInv
    <3>2. Untouched(call[u].client)
      BY DEF Untouched
    <3> QED BY <2>2, <3>1, <3>2, OthersUse
  <2> QED BY <2>1, <2>2
<1> QED BY <1>1, <1>2 DEF IInv

(* A call of transcribe() or close() begins, or close() finds no client.    *)
LEMMA FreeStep ==
  ASSUME IInv, NEW t \in Threads, call[t].step \in Free,
         UNCHANGED <<child, responses, process, lock, provider>>,
         NEW c \in Calls, call' = [call EXCEPT ![t] = c],
         c.step \in Free, c.client = NoClient, ~c.temp,
         c.result # StreamFailure => c.result = call[t].result /\ c.model = call[t].model
  PROVE  IInv'
<1>1. Types /\ Ownership /\ call[t].client = NoClient
  BY DEF IInv, Ownership, Owner
<1>2. call' \in [Threads -> Calls] /\ call'[t] = c /\ \A u \in Threads \ {t} : call'[u] = call[u]
  BY <1>1, CallUpdate
<1>3. Types'
  BY <1>1, <1>2 DEF Types
<1>4. Ownership'
  <2>1. \A u \in Threads : Owner(u)'
    BY <1>1, <1>2 DEF Ownership, Owner
  <2>2. \A u, v \in Threads : u # v /\ call'[u].step \notin Free => call'[u].client # call'[v].client
    BY <1>1, <1>2, ClientAssumption DEF Ownership, Owner
  <2> QED BY <2>1, <2>2 DEF Ownership
<1>5. ASSUME NEW k \in Clients, \A u \in Threads : call'[u].client # k PROVE AtRest(k)'
  <2>1. \A u \in Threads : call[u].client # k
    BY <1>1, <1>2, <1>5, ClientAssumption
  <2>2. AtRest(k) /\ Untouched(k)
    BY <2>1 DEF IInv, Untouched
  <2> QED BY <2>2, OthersRest
<1>6. \A u \in Threads \ {t} :
        call[u].step \notin Free /\ provider'.client = call[u].client =>
          provider'.model = provider.model /\ provider.client = call[u].client
  OBVIOUS
<1> QED BY <1>2, <1>3, <1>4, <1>5, <1>6, ProviderMove

LEMMA TranscribeStep ==
  ASSUME IInv, NEW t \in Threads, NEW m \in Models, NEW i \in Inputs, Transcribe(t, m, i)
  PROVE  IInv'
<1> DEFINE c == [NoCall EXCEPT !.step = "lock", !.model = m, !.input = i]
<1>1. /\ c \in Calls /\ c.step \in Free /\ c.client = NoClient /\ ~c.temp /\ c.result = StreamFailure
  BY NoCallType DEF Calls, Files, ProviderSteps, Free
<1>2. call' = [call EXCEPT ![t] = c] /\ call[t].step \in Free
  BY DEF Transcribe, At, Free
<1>3. UNCHANGED <<child, responses, process, lock, provider>>
  BY DEF Transcribe, serverVars
<1> HIDE DEF c
<1> QED BY <1>1, <1>2, <1>3, FreeStep

LEMMA BeginCloseStep ==
  ASSUME IInv, NEW t \in Threads, BeginClose(t) PROVE IInv'
<1> DEFINE c == [NoCall EXCEPT !.step = "detach"]
<1>1. /\ c \in Calls /\ c.step \in Free /\ c.client = NoClient /\ ~c.temp /\ c.result = StreamFailure
  BY NoCallType DEF Calls, ProviderSteps, Free
<1>2. call' = [call EXCEPT ![t] = c] /\ call[t].step \in Free
  BY DEF BeginClose, At, Free
<1>3. UNCHANGED <<child, responses, process, lock, provider>>
  BY DEF BeginClose, serverVars
<1> HIDE DEF c
<1> QED BY <1>1, <1>2, <1>3, FreeStep

(* _prepared_audio() does not touch the client.                             *)
LEMMA Preparing ==
  ASSUME IInv, NEW t \in Threads, call[t].step \in {"prepare", "converting"},
         UNCHANGED <<child, responses, process, lock, provider>>,
         NEW c \in Calls, call' = [call EXCEPT ![t] = c],
         c.step \in {"converting", "attempt", "return"}, c.client = call[t].client,
         c.model = call[t].model, c.input = call[t].input, c.result = call[t].result
  PROVE  IInv'
<1> DEFINE k == call[t].client
<1>1. Types /\ Managed(t) /\ k \in Clients
  BY Here DEF Free
<1>2. call' \in [Threads -> Calls] /\ call'[t] = c /\ \A u \in Threads \ {t} : call'[u] = call[u]
  BY <1>1, CallUpdate
<1>3. lock[k] = NoThread
  BY <1>1 DEF Managed, Holding
<1>4. lock' = [lock EXCEPT ![k] = IF c.step \in Holding THEN t ELSE NoThread]
  BY <1>1, <1>3 DEF Types, Holding
<1> QED
  BY <1>1, <1>2, <1>4, ThreadStep DEF Free, Asking, Dirty, Holding, Closes, Failing

LEMMA PrepareStep ==
  ASSUME IInv, NEW t \in Threads, Prepare(t) PROVE IInv'
<1>1. Types /\ call[t] \in Calls /\ call[t].step = "prepare"
  BY Here DEF Prepare, At, Free
<1>2. UNCHANGED <<child, responses, process, lock, provider>>
  BY DEF Prepare, serverVars
<1>3. PICK s \in {"attempt", "converting"}, b \in BOOLEAN :
        call' = [call EXCEPT ![t] = [call[t] EXCEPT !.step = s, !.temp = b]]
  <2>1. CASE Go(t, "attempt")
    <3>1. call' = [call EXCEPT ![t] = [call[t] EXCEPT !.step = "attempt", !.temp = call[t].temp]]
      BY <1>1, <2>1 DEF Go, Calls
    <3> QED BY <1>1, <3>1 DEF Calls
  <2>2. CASE call' = [call EXCEPT ![t].step = "converting", ![t].temp = TRUE]
    BY <1>1, <2>2 DEF Types
  <2> QED BY <2>1, <2>2 DEF Prepare
<1> DEFINE c == [call[t] EXCEPT !.step = s, !.temp = b]
<1>4. /\ c \in Calls /\ c.step = s /\ c.client = call[t].client /\ c.model = call[t].model
      /\ c.input = call[t].input /\ c.result = call[t].result
  BY <1>1 DEF Calls, ClientSteps, ProviderSteps
<1> HIDE DEF c
<1> QED BY <1>1, <1>2, <1>3, <1>4, Preparing DEF c

LEMMA ConvertStep ==
  ASSUME IInv, NEW t \in Threads, Convert(t) PROVE IInv'
<1>1. Types /\ call[t] \in Calls /\ call[t].step = "converting"
  BY Here DEF Convert, At, Free
<1>2. UNCHANGED <<child, responses, process, lock, provider>>
  BY DEF Convert, serverVars
<1>3. PICK s \in {"attempt", "return"} : call' = [call EXCEPT ![t] = [call[t] EXCEPT !.step = s]]
  BY <1>1 DEF Convert, Go
<1> DEFINE c == [call[t] EXCEPT !.step = s]
<1>4. /\ c \in Calls /\ c.step = s /\ c.client = call[t].client /\ c.model = call[t].model
      /\ c.input = call[t].input /\ c.result = call[t].result
  BY <1>1 DEF Calls, ClientSteps, ProviderSteps
<1> HIDE DEF c
<1> QED BY <1>1, <1>2, <1>3, <1>4, Preparing DEF c

(* A thread lets go of its client: nobody else refers to it.                *)
LEMMA LetGo ==
  ASSUME IInv, NEW t \in Threads, call[t].step \in {"return", "closed"},
         UNCHANGED <<child, responses, process, lock>>, provider.lock = t <=> call[t].step = "return",
         call' = [call EXCEPT ![t] = NoCall], provider' = [provider EXCEPT !.lock = provider'.lock],
         provider'.lock = IF provider.lock = t THEN NoThread ELSE provider.lock
  PROVE  IInv'
<1> DEFINE k == call[t].client
<1>1. Types /\ Ownership /\ Managed(t) /\ k \in Clients
  BY Here DEF Free, IInv
<1>2. call' \in [Threads -> Calls] /\ call'[t] = NoCall /\ \A u \in Threads \ {t} : call'[u] = call[u]
  BY <1>1, CallUpdate, NoCallType
<1>3. provider'.client = provider.client /\ provider'.model = provider.model
      /\ provider' \in [lock : Threads \cup {NoThread}, client : Clients \cup {NoClient}, model : Models]
  BY <1>1 DEF Types
<1>4. Types'
  BY <1>1, <1>2, <1>3 DEF Types
<1>5. Ownership'
  <2>1. Owner(t)'
    BY <1>1, <1>2, <1>3, NoCallType, ThreadAssumption DEF Owner, Free
  <2>2. ASSUME NEW u \in Threads \ {t} PROVE Owner(u)'
    <3>1. Owner(u) /\ call'[u] = call[u] /\ (provider'.lock = u <=> provider.lock = u)
      BY <1>1, <1>2, ThreadAssumption DEF Ownership
    <3> QED BY <1>3, <3>1 DEF Owner, Closes
  <2>3. \A u, v \in Threads : u # v /\ call'[u].step \notin Free => call'[u].client # call'[v].client
    BY <1>1, <1>2, NoCallType, ClientAssumption DEF Ownership, Owner, Free
  <2> QED BY <2>1, <2>2, <2>3 DEF Ownership
<1>6. ASSUME NEW j \in Clients, \A u \in Threads : call'[u].client # j PROVE AtRest(j)'
  <2>1. CASE j = k
    <3>1. call[t].step = "closed" \/ (call[t].step = "return" /\ provider.client = k)
      BY <1>1 DEF Ownership, Owner, Closes, Free
    <3> QED BY <1>1, <1>3, <2>1, <3>1, Left
  <2>2. CASE j # k
    <3>1. \A u \in Threads : call[u].client # j
      BY <1>2, <1>6, <2>2
    <3>2. AtRest(j) /\ Untouched(j)
      BY <3>1 DEF IInv, Untouched
    <3> QED BY <1>3, <3>2, OthersRest
  <2> QED BY <2>1, <2>2
<1> QED BY <1>2, <1>3, <1>4, <1>5, <1>6, NoCallType, ProviderMove DEF Free

LEMMA ReturnStep ==
  ASSUME IInv, NEW t \in Threads, Return(t) PROVE IInv'
<1>1. call[t].step = "return" /\ Types
  BY Here DEF Return, At, Free
<1>2. provider.lock = t
  BY <1>1, Here DEF Free, Closes
<1>3. /\ UNCHANGED <<child, responses, process, lock>> /\ call' = [call EXCEPT ![t] = NoCall]
      /\ provider' = [provider EXCEPT !.lock = NoThread]
  BY DEF Return, serverVars
<1>4. provider'.lock = NoThread
  BY <1>1, <1>3 DEF Types
<1> QED BY <1>1, <1>2, <1>3, <1>4, LetGo

(* The thread of a transcription goes on with the provider's client.        *)
LEMMA ClosedStep ==
  ASSUME IInv, NEW t \in Threads, Closed(t) PROVE IInv'
<1> DEFINE k == call[t].client
           p == provider.client
<1>1. call[t].step = "closed" /\ Types /\ call[t] \in Calls /\ Managed(t) /\ k \in Clients /\ Ownership
  BY Here DEF Closed, At, Free, IInv
<1>2. UNCHANGED <<child, responses, process, lock, provider>>
  BY DEF Closed, serverVars
<1>3. CASE provider.lock # t
  <2>1. call' = [call EXCEPT ![t] = NoCall]
    BY <1>3 DEF Closed
  <2>2. provider' = [provider EXCEPT !.lock = provider'.lock]
    BY <1>1, <1>2 DEF Types
  <2> QED BY <1>1, <1>2, <1>3, <2>1, <2>2, LetGo
<1>4. CASE provider.lock = t
  <2>1. p \in Clients /\ provider.model = call[t].model /\ k # p
    BY <1>1, <1>4 DEF Ownership, Owner, Closes
  <2> DEFINE c == [call[t] EXCEPT !.step = "prepare", !.client = p]
  <2>2. call' = [call EXCEPT ![t] = c]
    BY <1>1, <1>4 DEF Closed, Types
  <2>3. /\ c \in Calls /\ c.step = "prepare" /\ c.client = p /\ c.model = call[t].model
        /\ c.result = call[t].result
    BY <1>1, <2>1 DEF Calls, ProviderSteps
  <2> HIDE DEF c
  <2>4. call' \in [Threads -> Calls] /\ call'[t] = c /\ \A u \in Threads \ {t} : call'[u] = call[u]
    BY <1>1, <2>2, <2>3, CallUpdate
  <2>5. Types'
    BY <1>1, <1>2, <2>4 DEF Types
  <2>6. AtRest(p) /\ \A u \in Threads : call[u].client # p
    <3>1. \A u \in Threads : provider.lock = u => Closes(call[u])
      BY <1>1, <1>4 DEF Closes
    <3> QED BY <2>1, <3>1, ProviderAtRest
  <2>7. Ownership'
    <3>1. Owner(t)'
      BY <1>2, <1>4, <2>1, <2>3, <2>4 DEF Owner, Free, Closes
    <3>2. ASSUME NEW u \in Threads \ {t} PROVE Owner(u)'
      BY <1>1, <1>2, <2>4 DEF Ownership, Owner, Closes
    <3>3. \A u, v \in Threads : u # v /\ call'[u].step \notin Free => call'[u].client # call'[v].client
      BY <1>1, <2>3, <2>4, <2>6 DEF Ownership
    <3> QED BY <3>1, <3>2, <3>3 DEF Ownership
  <2>8. Used(t)'
    BY <1>2, <2>3, <2>4, <2>6, Taken
  <2>9. ASSUME NEW j \in Clients, \A u \in Threads : call'[u].client # j PROVE AtRest(j)'
    <3>1. CASE j = k
      BY <1>1, <1>2, <3>1, Left
    <3>2. CASE j # k
      <4>1. \A u \in Threads : call[u].client # j
        BY <2>4, <2>9, <3>2
      <4>2. AtRest(j) /\ Untouched(j)
        BY <1>2, <4>1 DEF IInv, Untouched
      <4> QED BY <1>2, <4>2, OthersRest
    <3> QED BY <3>1, <3>2
  <2> QED BY <1>2, <2>3, <2>4, <2>5, <2>7, <2>8, <2>9, ProviderMove
<1> QED BY <1>3, <1>4

(* close() takes the client from the provider.                              *)
LEMMA DetachStep ==
  ASSUME IInv, NEW t \in Threads, Detach(t) PROVE IInv'
<1> DEFINE p == provider.client
           c == [call[t] EXCEPT !.client = p, !.step = IF p = NoClient THEN "idle" ELSE "close"]
<1>1. Types /\ Ownership /\ call[t] \in Calls /\ call[t].step = "detach"
  BY DEF IInv, Types, Detach, At
<1>2. /\ UNCHANGED <<child, responses, process, lock>> /\ provider.lock = NoThread
      /\ provider' = [provider EXCEPT !.client = NoClient] /\ call' = [call EXCEPT ![t] = c]
  BY <1>1 DEF Detach, serverVars, Types
<1>3. /\ c \in Calls /\ c.client = p /\ c.step = (IF p = NoClient THEN "idle" ELSE "close")
      /\ c.model = call[t].model /\ c.result = call[t].result /\ c.temp = call[t].temp
  BY <1>1 DEF Calls, Types, ClientSteps, ProviderSteps
<1> HIDE DEF c
<1>4. CASE p = NoClient
  <2>1. provider' = provider
    BY <1>1, <1>2, <1>4 DEF Types
  <2>2. ~call[t].temp
    BY <1>1 DEF Ownership, Owner, Free
  <2> QED BY <1>1, <1>2, <1>3, <1>4, <2>1, <2>2, FreeStep DEF Free
<1>5. CASE p # NoClient
  <2>1. p \in Clients /\ c.step = "close"
    BY <1>1, <1>3, <1>5 DEF Types
  <2>2. call' \in [Threads -> Calls] /\ call'[t] = c /\ \A u \in Threads \ {t} : call'[u] = call[u]
    BY <1>1, <1>2, <1>3, CallUpdate
  <2>3. /\ provider'.lock = NoThread /\ provider'.client = NoClient /\ provider'.model = provider.model
        /\ provider' \in
             [lock : Threads \cup {NoThread}, client : Clients \cup {NoClient}, model : Models]
    BY <1>1, <1>2 DEF Types
  <2>4. Types'
    BY <1>1, <1>2, <2>2, <2>3 DEF Types
  <2>5. AtRest(p) /\ \A u \in Threads : call[u].client # p
    BY <1>2, <2>1, ThreadAssumption, ProviderAtRest
  <2>6. Ownership'
    <3>1. Owner(t)'
      BY <1>3, <2>1, <2>2, <2>3, ClientAssumption, ThreadAssumption DEF Owner, Free, Closes
    <3>2. ASSUME NEW u \in Threads \ {t} PROVE Owner(u)'
      <4>1. Owner(u) /\ call'[u] = call[u]
        BY <1>1, <2>2 DEF Ownership
      <4> QED BY <1>2, <2>3, <4>1, ClientAssumption, ThreadAssumption DEF Owner, Closes
    <3>3. \A u, v \in Threads : u # v /\ call'[u].step \notin Free => call'[u].client # call'[v].client
      BY <1>1, <1>3, <2>2, <2>5 DEF Ownership
    <3> QED BY <3>1, <3>2, <3>3 DEF Ownership
  <2>7. Used(t)'
    BY <1>2, <1>3, <2>1, <2>2, <2>3, <2>5, ClientAssumption, Taken
  <2>8. ASSUME NEW j \in Clients, \A u \in Threads : call'[u].client # j PROVE AtRest(j)'
    <3>1. j # p /\ \A u \in Threads : call[u].client # j
      BY <1>1, <1>3, <2>2, <2>8, ClientAssumption DEF Ownership, Owner, Free
    <3>2. AtRest(j) /\ Untouched(j)
      BY <1>2, <3>1 DEF IInv, Untouched
    <3>3. provider.client # j /\ ~process[j] /\ provider'.client # j
      BY <2>3, <3>1, <3>2, ClientAssumption DEF AtRest
    <3> QED BY <3>2, <3>3, OthersRest
  <2>9. \A u \in Threads \ {t} : call[u].step \notin Free => call[u].client # provider'.client
    BY <1>1, <2>3, ClientAssumption DEF Ownership, Owner
  <2> QED BY <1>2, <1>3, <2>2, <2>4, <2>6, <2>7, <2>8, <2>9, ProviderMove
<1> QED BY <1>4, <1>5

(* _client_for(): thread t gets the provider's lock, the provider client k, *)
(* and t the client q, which is k or the one to be closed first.            *)
LEMMA Choosing ==
  ASSUME IInv, NEW t \in Threads, call[t].step = "lock", provider.lock = NoThread,
         UNCHANGED <<child, responses, process, lock>>,
         NEW k \in Clients, NEW q \in Clients, NEW s \in {"prepare", "close"},
         provider' = [lock |-> t, client |-> k, model |-> call[t].model],
         call' = [call EXCEPT ![t] = [call[t] EXCEPT !.client = q, !.step = s]],
         s = "close" <=> q # k, q # k => q = provider.client,
         AtRest(q), \A u \in Threads : call[u].client # q, \A u \in Threads : call[u].client # k,
         \/ provider.client = k /\ provider.model = call[t].model
         \/ provider.client # k /\ ~process[k] /\ (q = k => provider.client = NoClient)
  PROVE  IInv'
<1> DEFINE c == [call[t] EXCEPT !.client = q, !.step = s]
<1>1. Types /\ Ownership /\ call[t] \in Calls
  BY DEF IInv, Types
<1>2. /\ c \in Calls /\ c.client = q /\ c.step = s
      /\ c.model = call[t].model /\ c.result = call[t].result
  BY <1>1 DEF Calls, ClientSteps, ProviderSteps
<1>3. call' = [call EXCEPT ![t] = c]
  OBVIOUS
<1> HIDE DEF c
<1>4. call' \in [Threads -> Calls] /\ call'[t] = c /\ \A u \in Threads \ {t} : call'[u] = call[u]
  BY <1>1, <1>2, <1>3, CallUpdate
<1>5. provider'.lock = t /\ provider'.client = k /\ provider'.model = call[t].model
  OBVIOUS
<1>6. Types'
  <2>1. provider' \in [lock : Threads \cup {NoThread}, client : Clients \cup {NoClient}, model : Models]
    BY <1>1 DEF Calls
  <2> QED BY <1>1, <1>4, <2>1 DEF Types
<1>7. Ownership'
  <2>1. Owner(t)'
    BY <1>2, <1>4, <1>5 DEF Owner, Free, Closes
  <2>2. ASSUME NEW u \in Threads \ {t} PROVE Owner(u)'
    <3>1. Owner(u) /\ call'[u] = call[u]
      BY <1>1, <1>4 DEF Ownership
    <3> QED BY <1>5, <3>1, ThreadAssumption DEF Owner, Closes
  <2>3. \A u, v \in Threads : u # v /\ call'[u].step \notin Free => call'[u].client # call'[v].client
    BY <1>1, <1>2, <1>4 DEF Ownership
  <2> QED BY <2>1, <2>2, <2>3 DEF Ownership
<1>8. Used(t)'
  BY <1>2, <1>4, <1>5, Taken
<1>9. ASSUME NEW j \in Clients, \A u \in Threads : call'[u].client # j PROVE AtRest(j)'
  <2>1. j # q /\ \A u \in Threads : call[u].client # j
    BY <1>1, <1>2, <1>4, <1>9, ClientAssumption DEF Ownership, Owner, Free
  <2>2. AtRest(j) /\ Untouched(j)
    BY <2>1 DEF IInv, Untouched
  <2>3. provider'.client = provider.client \/ (provider.client # j /\ ~process[j])
    BY <1>5, <2>1, <2>2, ClientAssumption DEF AtRest
  <2>4. provider'.client = j => provider'.model = provider.model \/ ~process[j]
    BY <1>5
  <2> QED BY <2>2, <2>3, <2>4, OthersRest
<1> QED BY <1>2, <1>4, <1>5, <1>6, <1>7, <1>8, <1>9, ProviderMove

LEMMA ChooseClientStep ==
  ASSUME IInv, NEW t \in Threads, ChooseClient(t) PROVE IInv'
<1> DEFINE p == provider.client
<1>1. Types /\ Ownership /\ call[t].step = "lock" /\ provider.lock = NoThread
  BY DEF IInv, ChooseClient, At
<1>2. UNCHANGED <<child, responses, process, lock>>
  BY DEF ChooseClient, serverVars
<1>3. p # NoClient => p \in Clients /\ AtRest(p) /\ \A u \in Threads : call[u].client # p
  BY <1>1, ThreadAssumption, ProviderAtRest DEF Types
<1>4. CASE /\ p # NoClient /\ provider.model = call[t].model
           /\ provider' = [provider EXCEPT !.lock = t]
           /\ call' = [call EXCEPT ![t].step = "prepare", ![t].client = p]
  <2>1. call' = [call EXCEPT ![t] = [call[t] EXCEPT !.client = p, !.step = "prepare"]]
    BY <1>1, <1>4 DEF Types, Calls
  <2>2. provider' = [lock |-> t, client |-> p, model |-> call[t].model]
    BY <1>1, <1>4 DEF Types
  <2> QED BY <1>1, <1>2, <1>3, <1>4, <2>1, <2>2, Choosing
<1>5. ASSUME p = NoClient \/ provider.model # call[t].model, NEW k \in Unused,
             provider' = [lock |-> t, client |-> k, model |-> call[t].model],
             call' = [call EXCEPT
               ![t].client = IF p = NoClient THEN k ELSE p,
               ![t].step = IF p = NoClient THEN "prepare" ELSE "close"]
      PROVE  IInv'
  <2>1. k \in Clients /\ k # p /\ ~process[k]
    BY DEF Unused
  <2>2. \A u \in Threads : call[u].client # k
    BY <1>1, <2>1, ClientAssumption DEF Unused, At, Ownership, Owner, Free
  <2>3. AtRest(k)
    BY <2>1, <2>2 DEF IInv
  <2>4. CASE p = NoClient
    <3>1. call' = [call EXCEPT ![t] = [call[t] EXCEPT !.client = k, !.step = "prepare"]]
      BY <1>1, <1>5, <2>4 DEF Types, Calls
    <3> QED BY <1>1, <1>2, <1>5, <2>1, <2>2, <2>3, <2>4, <3>1, Choosing
  <2>5. CASE p # NoClient
    <3>1. call' = [call EXCEPT ![t] = [call[t] EXCEPT !.client = p, !.step = "close"]]
      BY <1>1, <1>5, <2>5 DEF Types, Calls
    <3> QED BY <1>1, <1>2, <1>3, <1>5, <2>1, <2>2, <2>5, <3>1, Choosing
  <2> QED BY <2>4, <2>5
<1> QED BY <1>4, <1>5 DEF ChooseClient

-----------------------------------------------------------------------------
(* The steps of the child.                                                  *)

(* A child that has loaded its model is as alive as before.                 *)
LEMMA LoadStep ==
  ASSUME IInv, NEW k \in Clients, Load(k), UNCHANGED <<clientVars, provider>> PROVE IInv'
<1>1. Types /\ UNCHANGED <<responses, process, lock, call, provider>>
  BY DEF IInv, Load, clientVars
<1>2. /\ child' = [child EXCEPT ![k].phase = "serving"] /\ child[k].phase = "loading"
  BY DEF Load
<1>3. /\ child' \in [Clients -> Children] /\ \A j \in Clients \ {k} : child'[j] = child[j]
      /\ child'[k].stdin = child[k].stdin /\ child'[k].model = child[k].model
      /\ child'[k].told = child[k].told /\ Alive(k) /\ Alive(k)'
  BY <1>1, <1>2 DEF Types, Children, Alive
<1>4. Types'
  BY <1>1, <1>3 DEF Types
<1>5. ASSUME NEW u \in Threads, call[u].step \notin Free, call[u].client = k PROVE Used(u)'
  <2>1. Managed(u) /\ Answered(u)
    BY <1>5, Here
  <2>2. Managed(u)'
    BY <1>1, <1>3, <1>5, <2>1 DEF Managed, Alive, Serves, Lengths, Clean
  <2>3. Answered(u)'
    BY <1>1, <1>3, <1>5, <2>1 DEF Answered, Alive, Pending, MyRequest, MyLine, At
  <2> QED BY <2>2, <2>3 DEF Used
<1>6. (\A u \in Threads : call[u].client # k) => AtRest(k)'
  BY <1>1, <1>3 DEF IInv, AtRest, Alive, Serves, Lengths, Clean
<1>7. \A u \in Threads : call'[u] = call[u] /\ call'[u] = [call[u] EXCEPT !.fault = call'[u].fault]
  BY <1>1 DEF Types, Calls
<1> QED BY <1>1, <1>3, <1>4, <1>5, <1>6, <1>7, ChildStep

(* The client of a thread that asks is the provider's, with its model.      *)
LEMMA AskingModel ==
  ASSUME IInv, NEW u \in Threads, NEW k, k = call[u].client, call[u].step \in Asking, Alive(k)
  PROVE  /\ child[k].model = call[u].model /\ process[k] /\ ~child[k].told
<1>1. /\ Managed(u) /\ provider.client = k /\ provider.model = call[u].model
  BY Here DEF Free, Asking, Closes
<1> QED BY <1>1 DEF Managed, Serves

(* SIGTERM arrives at a child whose process nobody holds any more.          *)
LEMMA ObeyStep ==
  ASSUME IInv, NEW k \in Clients, Obey(k), UNCHANGED <<clientVars, provider>> PROVE IInv'
<1>1. Types /\ UNCHANGED <<process, lock, call, provider>>
  BY DEF IInv, clientVars
<1>2. Alive(k) /\ child[k].told /\ End(k) /\ Say(k, <<StreamFailure>>)
  BY DEF Obey
<1>3. \E u \in Threads : call[u].client = k
  BY <1>2 DEF IInv, AtRest, Serves
<1>4. Lengths(k)
  BY <1>3, Here, ClientAssumption DEF IInv, Ownership, Owner, Managed
<1>5. /\ child' \in [Clients -> Children] /\ responses' \in [Clients -> Seq(Items)]
      /\ \A j \in Clients \ {k} : child'[j] = child[j] /\ responses'[j] = responses[j]
      /\ ~Alive(k)' /\ Lengths(k)' /\ Clean(k)' /\ Serves(k)'
  BY <1>1, <1>2, <1>4, Ending
<1>6. Types'
  BY <1>1, <1>5 DEF Types
<1>7. ASSUME NEW u \in Threads, call[u].step \notin Free, call[u].client = k PROVE Used(u)'
  <2>1. Managed(u) /\ Answered(u)
    BY <1>7, Here
  <2>2. call[u].step \in {"wait", "terminated"}
    BY <1>2, <1>7, <2>1 DEF Managed, Serves
  <2>3. Managed(u)'
    BY <1>1, <1>5, <1>7, <2>1, <2>2 DEF Managed, Asking
  <2>4. Answered(u)'
    BY <1>1, <2>1, <2>2 DEF Answered, Asking
  <2> QED BY <2>3, <2>4 DEF Used
<1>8. \A u \in Threads : call'[u] = call[u] /\ call'[u] = [call[u] EXCEPT !.fault = call'[u].fault]
  BY <1>1 DEF Types, Calls
<1> QED BY <1>1, <1>3, <1>5, <1>6, <1>7, <1>8, ChildStep

(* The death of a child is a fault of the attempt that uses it.             *)
LEMMA DieStep ==
  ASSUME IInv, NEW k \in Clients, Die(k), UNCHANGED provider PROVE IInv'
<1> DEFINE Hurt(u) == lock[k] = u /\ call[u].step \in Asking
<1>1. Types /\ UNCHANGED <<process, lock, provider>>
  BY DEF IInv, Die
<1>2. Alive(k) /\ End(k) /\ Say(k, <<StreamFailure>>)
  BY DEF Die, Crash
<1>3. call' = [u \in Threads |-> IF Hurt(u) THEN Hit(call[u]) ELSE call[u]]
  BY DEF Die, Asking
<1>4. /\ call' \in [Threads -> Calls]
      /\ \A u \in Threads :
           /\ call'[u] = [call[u] EXCEPT !.fault = call'[u].fault]
           /\ call'[u] = [call[u] EXCEPT !.fault = call[u].fault \/ Hurt(u)]
  <2>1. ASSUME NEW u \in Threads
        PROVE  /\ call'[u] \in Calls /\ call'[u].fault = (call[u].fault \/ Hurt(u))
               /\ call'[u] = [call[u] EXCEPT !.fault = call'[u].fault]
    <3>1. call[u] \in Calls /\ call[u].fault \in BOOLEAN
      BY <1>1 DEF Types, Calls
    <3>2. CASE Hurt(u)
      <4>1. call'[u] = [call[u] EXCEPT !.fault = TRUE]
        BY <1>3, <3>2 DEF Hit
      <4>2. call'[u].fault = TRUE /\ call'[u] \in Calls
        BY <3>1, <4>1 DEF Calls
      <4> QED BY <3>2, <4>1, <4>2
    <3>3. CASE ~Hurt(u)
      <4>1. call'[u] = call[u]
        BY <1>3, <3>3
      <4>2. call'[u] = [call[u] EXCEPT !.fault = call[u].fault]
        BY <3>1, <4>1 DEF Calls
      <4> QED BY <3>1, <3>3, <4>1, <4>2
    <3> QED BY <3>2, <3>3
  <2> QED BY <1>3, <2>1
<1>5. \A u \in Threads :
        /\ call'[u].step = call[u].step /\ call'[u].client = call[u].client
        /\ call'[u].model = call[u].model /\ call'[u].input = call[u].input
        /\ call'[u].id = call[u].id /\ call'[u].then = call[u].then
        /\ (call[u].fault \/ Hurt(u) => call'[u].fault)
  BY <1>1, <1>4 DEF Types, Calls
<1>6. Lengths(k) /\ ((\A u \in Threads : call[u].client # k) => AtRest(k))
  BY Here, ClientAssumption DEF IInv, Ownership, Owner, Managed, AtRest
<1>7. /\ child' \in [Clients -> Children] /\ responses' \in [Clients -> Seq(Items)]
      /\ \A j \in Clients \ {k} : child'[j] = child[j] /\ responses'[j] = responses[j]
      /\ ~Alive(k)' /\ Lengths(k)' /\ Clean(k)' /\ Serves(k)' /\ child'[k] = Dead
      /\ responses'[k] = responses[k] \o <<StreamFailure>>
  BY <1>1, <1>2, <1>6, Ending
<1>8. Types'
  BY <1>1, <1>4, <1>7 DEF Types
<1>9. ASSUME NEW u \in Threads, call[u].step \notin Free, call[u].client = k PROVE Used(u)'
  <2>1. Managed(u) /\ Answered(u)
    BY <1>9, Here
  <2>2. call[u].step \in Asking => Hurt(u)
    BY <1>9, <2>1 DEF Managed, Asking, Holding
  <2>3. Managed(u)'
    BY <1>1, <1>5, <1>7, <1>9, <2>1 DEF Managed
  <2>4. call[u].step \in {"health", "writing", "answer"} => Pending(u)'
    <3>1. SUFFICES ASSUME call[u].step \in {"health", "writing", "answer"} PROVE Pending(u)'
      OBVIOUS
    <3>2. call'[u].fault /\ Pending(u)
      BY <1>5, <2>1, <2>2, <3>1 DEF Answered, Asking
    <3>3. child'[k].stdin = <<>>
      BY <1>7, DeadType
    <3>4. responses[k] \in Seq(Items) /\ <<StreamFailure>> \in Seq(Items)
      BY <1>1 DEF Types, Items
    <3>5. ASSUME NEW i \in DOMAIN responses'[k] PROVE MyLine(u, responses[k][i])' \/ responses'[k][i] = StreamFailure
      <4>1. CASE i \in 1 .. Len(responses[k])
        <5>1. responses'[k][i] = responses[k][i] /\ i \in DOMAIN responses[k]
          BY <1>7, <3>4, <4>1, ConcatProperties
        <5>2. MyLine(u, responses[k][i])
          BY <1>9, <3>2, <5>1 DEF Pending
        <5> QED BY <1>5, <3>2, <5>1, <5>2 DEF MyLine, At
      <4>2. CASE i \notin 1 .. Len(responses[k])
        BY <1>7, <3>4, <3>5, <4>2, ConcatProperties
      <4> QED BY <4>1, <4>2
    <3> QED BY <1>5, <1>9, <3>2, <3>3, <3>5 DEF Pending, MyLine
  <2>5. Answered(u)'
    BY <1>5, <1>9, <2>1, <2>2, <2>4 DEF Answered, Asking, Failing
  <2> QED BY <2>3, <2>5 DEF Used
<1>10. (\A u \in Threads : call[u].client # k) => AtRest(k)'
  BY <1>1, <1>6, <1>7 DEF AtRest
<1>11. \A u \in Threads : call[u].client # k => call'[u] = call[u]
  <2>1. ASSUME NEW u \in Threads, call[u].client # k PROVE ~Hurt(u)
    <3>1. CASE \A v \in Threads : call[v].client # k
      BY <1>6, <3>1, ThreadAssumption DEF AtRest
    <3>2. ASSUME NEW v \in Threads, call[v].client = k PROVE ~Hurt(u)
      <4>1. Managed(v)
        BY <3>2, Here, ClientAssumption DEF IInv, Ownership, Owner
      <4> QED BY <2>1, <3>2, <4>1, ThreadAssumption DEF Managed
    <3> QED BY <3>1, <3>2
  <2> QED BY <1>3, <2>1
<1> QED BY <1>1, <1>4, <1>7, <1>8, <1>9, <1>10, <1>11, ChildStep

(* What a child says to a request.                                          *)
LEMMA Responding ==
  ASSUME Types, NEW k \in Clients, NEW request \in Requests
  PROVE  /\ Response(k, request) \in Lines /\ Response(k, request) # StreamFailure
         /\ Response(k, request).of = request.of /\ Response(k, request).model = child[k].model
         /\ (request.method = "health" \/ request.input # "huge" =>
              Response(k, request).id = request.id)
<1>1. request.id \in Ids /\ NoId \in Ids /\ request.of \in Threads /\ child[k].model \in Models
  BY DEF Types, Children, Requests, Ids
<1>2. PICK id \in Ids, kind \in {"ready", "stopping", "error", "model_mismatch", "result"} :
        /\ Response(k, request) = Line(id, kind, request, k)
        /\ request.method = "health" \/ request.input # "huge" => id = request.id
  <2>1. Transcription(k, request) \in {"model_mismatch", "result"}
    BY DEF Transcription
  <2>2. CASE request.method = "health"
    BY <1>1, <2>2 DEF Response
  <2>3. CASE request.method = "shutdown"
    BY <1>1, <2>3 DEF Response
  <2>4. CASE request.method = "transcribe_file" /\ request.input = "huge"
    BY <1>1, <2>4 DEF Response
  <2>5. CASE request.method = "transcribe_file" /\ request.input # "huge"
    BY <1>1, <2>1, <2>5 DEF Response
  <2> QED BY <2>2, <2>3, <2>4, <2>5 DEF Requests
<1>3. Line(id, kind, request, k) =
        [id |-> id, kind |-> kind, of |-> request.of, model |-> child[k].model]
  BY DEF Line
<1>4. Line(id, kind, request, k) \in Lines
  BY <1>1, <1>3 DEF Lines
<1>5. Line(id, kind, request, k) # StreamFailure
  <2>1. "id" \in DOMAIN Line(id, kind, request, k)
    BY <1>3
  <2>2. "id" \notin DOMAIN StreamFailure
    BY DEF StreamFailure
  <2> QED BY <2>1, <2>2
<1> QED BY <1>2, <1>3, <1>4, <1>5

(* The one line that waits is answered, and nothing follows it but the end. *)
LEMMA Serving ==
  ASSUME Types, NEW k \in Clients, Lengths(k), Serve(k), UNCHANGED <<process, provider>>
  PROVE  LET request == Head(child[k].stdin)
         IN /\ Alive(k) /\ responses[k] = <<>> /\ child[k].stdin # <<>>
            /\ request \in Requests /\ 1 \in DOMAIN child[k].stdin /\ request = child[k].stdin[1]
            /\ child' \in [Clients -> Children] /\ responses' \in [Clients -> Seq(Items)]
            /\ \A j \in Clients \ {k} : child'[j] = child[j] /\ responses'[j] = responses[j]
            /\ Lengths(k)' /\ (Serves(k) => Serves(k)') /\ (Alive(k)' => child'[k].model = child[k].model)
            /\ request.method = "shutdown" => ~Alive(k)'
            /\ request.method # "shutdown" =>
                 child'[k].stdin = <<>> /\ responses'[k] = <<Response(k, request)>> /\ Alive(k)'
<1> DEFINE request == Head(child[k].stdin)
<1>1. /\ child[k] \in Children /\ child[k].stdin \in Seq(Requests) /\ child[k].stdin # <<>>
      /\ responses[k] \in Seq(Items) /\ Alive(k)
  BY DEF Types, Children, Serve, Alive
<1>2. Len(child[k].stdin) = 1 /\ Len(responses[k]) = 0
  <2>1. Len(child[k].stdin) \in Nat \ {0} /\ Len(responses[k]) \in Nat
    BY <1>1, HeadTailProperties, LenProperties, EmptySeq
  <2>2. Len(child[k].stdin) + Len(responses[k]) <= 1
    BY <1>1 DEF Lengths
  <2>3. \A a \in Nat \ {0}, b \in Nat : a + b <= 1 => a = 1 /\ b = 0
    OBVIOUS
  <2> QED BY <2>1, <2>2, <2>3
<1>3. responses[k] = <<>>
  BY <1>1, <1>2, EmptySeq
<1>4. request \in Requests /\ 1 \in DOMAIN child[k].stdin /\ request = child[k].stdin[1]
  BY <1>1, <1>2, HeadTailProperties
<1>5. Tail(child[k].stdin) \in Seq(Requests) /\ Tail(child[k].stdin) = <<>>
  <2>1. Tail(child[k].stdin) \in Seq(Requests) /\ Len(Tail(child[k].stdin)) = Len(child[k].stdin) - 1
    BY <1>1, HeadTailProperties
  <2>2. Len(Tail(child[k].stdin)) = 0
    BY <1>2, <2>1
  <2> QED BY <2>1, <2>2, EmptySeq
<1>6. Response(k, request) \in Items
  BY <1>4, Responding DEF Items
<1>7. CASE request.method = "shutdown"
  <2> DEFINE said == <<Response(k, request), StreamFailure>>
  <2>1. Say(k, said) /\ End(k)
    BY <1>7 DEF Serve
  <2>2. said \in Seq(Items) /\ Len(said) = 2
    BY <1>6 DEF Items
  <2> HIDE DEF said
  <2>3. responses[k] \o said \in Seq(Items) /\ Len(responses[k] \o said) = 2
    <3>1. responses[k] \o said = said
      BY <1>3, <2>2, ConcatEmptySeq
    <3> QED BY <2>2, <3>1
  <2>4. /\ responses' \in [Clients -> Seq(Items)] /\ Len(responses'[k]) = 2
        /\ \A j \in Clients \ {k} : responses'[j] = responses[j]
    BY <2>1, <2>3 DEF Types, Say
  <2>5. /\ child' \in [Clients -> Children] /\ \A j \in Clients \ {k} : child'[j] = child[j]
        /\ child'[k] = Dead /\ ~Alive(k)' /\ child'[k].stdin = <<>>
    BY <2>1, DeadType DEF Types, End, Alive
  <2>6. Len(responses'[k]) <= 2
    BY <2>4
  <2>7. Lengths(k)' /\ Serves(k)'
    BY <2>5, <2>6, Zenon DEF Lengths, Serves
  <2> QED BY <1>1, <1>3, <1>4, <1>7, <2>4, <2>5, <2>7
<1>8. CASE request.method # "shutdown"
  <2> DEFINE said == <<Response(k, request)>>
  <2>1. Say(k, said) /\ child' = [child EXCEPT ![k].stdin = Tail(@)]
    BY <1>8 DEF Serve
  <2>2. said \in Seq(Items) /\ Len(said) = 1
    BY <1>6
  <2>3. responses[k] \o said = said
    BY <1>3, <2>2, ConcatEmptySeq
  <2> HIDE DEF said
  <2>4. /\ responses' \in [Clients -> Seq(Items)] /\ responses'[k] = said
        /\ \A j \in Clients \ {k} : responses'[j] = responses[j]
    BY <2>1, <2>2, <2>3 DEF Types, Say
  <2>5. /\ child' \in [Clients -> Children] /\ \A j \in Clients \ {k} : child'[j] = child[j]
        /\ child'[k].stdin = <<>> /\ child'[k].model = child[k].model
        /\ child'[k].told = child[k].told /\ child'[k].phase = child[k].phase
    <3>1. child' = [child EXCEPT ![k] = [child[k] EXCEPT !.stdin = <<>>]]
      BY <1>5, <2>1 DEF Types
    <3>2. [child[k] EXCEPT !.stdin = <<>>] \in Children
      BY <1>1, <1>5 DEF Children
    <3> QED BY <1>1, <3>1, <3>2 DEF Types, Children
  <2>6. Alive(k)'
    BY <1>1, <2>5 DEF Alive
  <2>7. Len(child'[k].stdin) + Len(responses'[k]) <= 1
    <3>1. Len(child'[k].stdin) = 0 /\ Len(responses'[k]) = 1
      BY <2>2, <2>4, <2>5, EmptySeq, Zenon
    <3>2. \A a, b : a = 0 /\ b = 1 => a + b <= 1
      OBVIOUS
    <3> QED BY <3>1, <3>2, Zenon
  <2>8. Lengths(k)'
    BY <2>6, <2>7, Zenon DEF Lengths
  <2>9. Serves(k) => Serves(k)'
    <3>1. child'[k].told = child[k].told /\ child'[k].model = child[k].model
      BY <2>5
    <3> QED BY <1>1, <3>1 DEF Serves
  <2> QED BY <1>1, <1>3, <1>4, <1>8, <2>4, <2>5, <2>6, <2>8, <2>9 DEF said
<1> QED BY <1>7, <1>8

LEMMA ServeStep ==
  ASSUME IInv, NEW k \in Clients, Serve(k), UNCHANGED <<clientVars, provider>> PROVE IInv'
<1> DEFINE request == Head(child[k].stdin)
<1>1. Types /\ UNCHANGED <<process, lock, call, provider>>
  BY DEF IInv, clientVars
<1>2. child[k].stdin # <<>> /\ Alive(k)
  BY DEF Serve, Alive
<1>3. \E u \in Threads : call[u].client = k
  BY <1>2 DEF IInv, AtRest, Clean
<1>4. Lengths(k)
  BY <1>3, Here, ClientAssumption DEF IInv, Ownership, Owner, Managed
<1>5. /\ responses[k] = <<>> /\ request \in Requests
      /\ 1 \in DOMAIN child[k].stdin /\ request = child[k].stdin[1]
      /\ child' \in [Clients -> Children] /\ responses' \in [Clients -> Seq(Items)]
      /\ \A j \in Clients \ {k} : child'[j] = child[j] /\ responses'[j] = responses[j]
      /\ Lengths(k)' /\ (Serves(k) => Serves(k)')
      /\ request.method = "shutdown" => ~Alive(k)'
      /\ request.method # "shutdown" =>
           child'[k].stdin = <<>> /\ responses'[k] = <<Response(k, request)>> /\ Alive(k)'
  BY <1>1, <1>4, Serving
<1>6. Types'
  BY <1>1, <1>5 DEF Types
<1>7. ASSUME NEW u \in Threads, call[u].step \notin Free, call[u].client = k PROVE Used(u)'
  <2>1. Managed(u) /\ Answered(u)
    BY <1>7, Here
  <2>2. call[u].step \in Dirty \cup {"wait", "terminated"}
    BY <1>2, <1>7, <2>1 DEF Managed, Clean
  <2>3. Managed(u)'
    <3>1. process[k] => call[u].step \in Dirty
      BY <1>2, <1>7, <2>1 DEF Managed, Clean
    <3>2. Serves(k)' /\ (Clean(k)' \/ call[u].step \in Dirty)
      BY <1>1, <1>5, <1>7, <2>1, <3>1 DEF Managed, Clean
    <3>3. Alive(k)' /\ ~process[k] => call[u].step \in {"wait", "terminated"}
      BY <1>2, <1>7, <2>1 DEF Managed
    <3> QED BY <1>1, <1>5, <1>7, <2>1, <2>2, <3>2, <3>3 DEF Managed, Dirty
  <2>4. ASSUME call[u].step \in {"health", "writing", "answer"} PROVE Pending(u)' /\ Alive(k)'
    <3>1. MyRequest(u, request)
      BY <1>5, <1>7, <2>1, <2>4 DEF Answered, Pending
    <3>2. request.method # "shutdown"
      BY <3>1 DEF MyRequest
    <3>3. /\ child'[k].stdin = <<>> /\ responses'[k] = <<Response(k, request)>> /\ Alive(k)'
      BY <1>5, <3>2
    <3>4. child[k].model = call[u].model
      BY <1>2, <1>7, <2>4, AskingModel DEF Asking
    <3>5. MyLine(u, Response(k, request))
      <4>1. /\ Response(k, request) # StreamFailure
            /\ Response(k, request).of = u /\ Response(k, request).model = call[u].model
        BY <1>1, <1>5, <3>1, <3>4, Responding DEF MyRequest
      <4>2. At(u, "health") \/ call[u].input # "huge" => Response(k, request).id = call[u].id
        BY <1>1, <1>5, <3>1, Responding DEF MyRequest
      <4> QED BY <4>1, <4>2 DEF MyLine
    <3>6. \A i \in DOMAIN responses'[k] : responses'[k][i] = Response(k, request)
      BY <3>3
    <3>7. \A i \in DOMAIN responses'[k] : MyLine(u, responses[k][i])'
      BY <1>1, <3>5, <3>6 DEF MyLine, At
    <3> QED BY <1>1, <1>7, <3>3, <3>7 DEF Pending
  <2>5. Answered(u)'
    BY <1>1, <1>7, <2>1, <2>2, <2>4 DEF Answered, Asking, Dirty, Failing
  <2> QED BY <2>3, <2>5 DEF Used
<1>8. \A u \in Threads : call'[u] = call[u] /\ call'[u] = [call[u] EXCEPT !.fault = call'[u].fault]
  BY <1>1 DEF Types, Calls
<1> QED BY <1>1, <1>3, <1>5, <1>6, <1>7, <1>8, ChildStep

-----------------------------------------------------------------------------
(* The theorems.                                                            *)

(* The invariant holds at the start.                                        *)
LEMMA Initial == Init => IInv
<1> SUFFICES ASSUME Init PROVE IInv
  OBVIOUS
<1>1. /\ child = [k \in Clients |-> Dead] /\ responses = [k \in Clients |-> <<>>]
      /\ process = [k \in Clients |-> FALSE] /\ lock = [k \in Clients |-> NoThread]
      /\ call = [t \in Threads |-> NoCall]
      /\ provider = [lock |-> NoThread, client |-> NoClient, model |-> CHOOSE m \in Models : TRUE]
  BY DEF Init, ServerInit, ClientInit
<1>2. Types
  <2>1. child \in [Clients -> Children] /\ call \in [Threads -> Calls]
    BY <1>1, DeadType, NoCallType
  <2>2. responses \in [Clients -> Seq(Items)]
    BY <1>1, EmptySeq
  <2>3. process \in [Clients -> BOOLEAN] /\ lock \in [Clients -> Threads \cup {NoThread}]
    BY <1>1
  <2>4. provider \in
          [lock : Threads \cup {NoThread}, client : Clients \cup {NoClient}, model : Models]
    BY <1>1, ModelAssumption
  <2> QED BY <2>1, <2>2, <2>3, <2>4 DEF Types
<1>3. \A t \in Threads :
        /\ call[t].step \in Free /\ call[t].client = NoClient /\ ~call[t].temp
        /\ call[t].result = StreamFailure
  BY <1>1, NoCallType DEF Free
<1>4. Ownership
  BY <1>1, <1>3, ThreadAssumption DEF Ownership, Owner
<1>5. ASSUME NEW k \in Clients PROVE AtRest(k)
  <2>1. ~Alive(k) /\ ~process[k] /\ child[k].stdin = <<>> /\ lock[k] = NoThread
    BY <1>1, DeadType DEF Alive
  <2>2. Len(responses[k]) <= 2
    BY <1>1
  <2> QED BY <2>1, <2>2, Zenon DEF AtRest, Serves, Clean, Lengths
<1> QED BY <1>2, <1>3, <1>4, <1>5 DEF IInv, Results

(* The invariant is kept by every step.                                     *)
LEMMA Inductive == IInv /\ [Next]_vars => IInv'
<1> SUFFICES ASSUME IInv, [Next]_vars PROVE IInv'
  OBVIOUS
<1>1. ASSUME NEW t \in Threads, Thread(t) PROVE IInv'
  BY <1>1, ChooseClientStep, PrepareStep, ConvertStep, ReturnStep, DetachStep, ClosedStep,
     EveryClientStep DEF Thread, ProviderStep
<1>2. ASSUME NEW k \in Clients, Child(k) PROVE IInv'
  BY <1>2, LoadStep, ServeStep, ObeyStep, DieStep, WrittenStep DEF Child
<1>3. CASE Fabric
  BY <1>3, BeginCloseStep, TranscribeStep DEF Fabric
<1>4. CASE UNCHANGED vars
  <2>1. UNCHANGED <<child, responses, process, lock, call, provider>>
    BY <1>4 DEF vars, serverVars, clientVars
  <2>2. Types' /\ Ownership' /\ Results'
    BY <2>1 DEF IInv, Types, Ownership, Owner, Closes, Results
  <2>3. ASSUME NEW t \in Threads, call'[t].step \notin Free PROVE Used(t)'
    <3>1. Used(t) /\ Untouched(call[t].client)
      BY <2>1, <2>3 DEF IInv, Untouched
    <3> QED BY <2>1, <3>1, OthersUse
  <2>4. ASSUME NEW k \in Clients, \A t \in Threads : call'[t].client # k PROVE AtRest(k)'
    <3>1. AtRest(k) /\ Untouched(k)
      BY <2>1, <2>4 DEF IInv, Untouched
    <3> QED BY <2>1, <3>1, OthersRest
  <2> QED BY <2>2, <2>3, <2>4 DEF IInv
<1> QED BY <1>1, <1>2, <1>3, <1>4 DEF Next

(* The invariant holds of every state the service can reach.                *)
THEOREM Invariance == Spec => []IInv
BY Initial, Inductive, PTL DEF Spec

(* Where a client is concerned, at rest or used.                            *)
LEMMA EveryClient ==
  ASSUME IInv, NEW k \in Clients
  PROVE  /\ Lengths(k)
         /\ Alive(k) =>
              \/ process[k] /\ provider.client = k
              \/ \E t \in Threads : call[t].client = k /\ call[t].step \notin Free
<1>1. CASE \A t \in Threads : call[t].client # k
  BY <1>1 DEF IInv, AtRest
<1>2. ASSUME NEW t \in Threads, call[t].client = k
      PROVE  Lengths(k) /\ call[t].step \notin Free
  BY <1>2, Here, ClientAssumption DEF IInv, Ownership, Owner, Managed
<1> QED BY <1>1, <1>2

(* Every variable keeps its type, and the pipes of a child hold one request *)
(* and two lines at the most: the client asks one thing at a time.          *)
THEOREM TypeCorrect == Spec => []TypeOK
<1>1. IInv => TypeOK
  <2> SUFFICES ASSUME IInv PROVE TypeOK
    OBVIOUS
  <2>1. Types
    BY DEF IInv
  <2>2. ASSUME NEW k \in Clients
        PROVE  /\ child[k].phase \in {"loading", "serving", "dead"}
               /\ child[k].model \in Models /\ child[k].told \in BOOLEAN
               /\ Len(child[k].stdin) \leq 1 /\ Len(responses[k]) \leq 2
               /\ process[k] \in BOOLEAN /\ lock[k] \in Threads \cup {NoThread}
    <3>1. child[k] \in Children /\ responses[k] \in Seq(Items)
      BY <2>1 DEF Types
    <3>2. Len(child[k].stdin) \leq 1 /\ Len(responses[k]) \leq 2
      <4>1. Len(child[k].stdin) \in Nat /\ Len(responses[k]) \in Nat
        BY <3>1, LenProperties DEF Children
      <4>2. CASE Alive(k)
        <5>1. Len(child[k].stdin) + Len(responses[k]) <= 1
          BY <4>2, EveryClient DEF Lengths
        <5>2. \A a, b \in Nat : a + b <= 1 => a <= 1 /\ b <= 2
          OBVIOUS
        <5> QED BY <4>1, <5>1, <5>2, Zenon
      <4>3. CASE ~Alive(k)
        <5>1. Len(child[k].stdin) = 0 /\ Len(responses[k]) <= 2
          BY <4>3, EveryClient, EmptySeq, Zenon DEF Lengths
        <5> QED BY <4>1, <5>1
      <4> QED BY <4>2, <4>3
    <3> QED BY <2>1, <3>1, <3>2 DEF Types, Children
  <2>3. \A t \in Threads :
          /\ call[t].step \in ClientSteps \cup ProviderSteps
          /\ call[t].client \in Clients \cup {NoClient}
          /\ call[t].then \in {"failed", "retry", "closed"}
          /\ call[t].attempt \in 1 .. 2 /\ call[t].fault \in BOOLEAN
    BY <2>1 DEF Types, Calls
  <2>4. provider.lock \in Threads \cup {NoThread} /\ provider.client \in Clients \cup {NoClient}
    BY <2>1 DEF Types
  <2> QED BY <2>2, <2>3, <2>4 DEF TypeOK
<1> QED BY <1>1, Invariance, PTL

(* A caller is never told what another's file says, nor by a model it did   *)
(* not ask for: transcribe() in provider.py, however its threads, the       *)
(* closing ones and the deaths of children interleave.                      *)
THEOREM OwnTranscripts == Spec => []OwnTranscript
<1>1. IInv => OwnTranscript
  BY DEF IInv, Results, OwnTranscript
<1> QED BY <1>1, Invariance, PTL

(* transcribe_file() gives up only if both attempts met a fault of their    *)
(* own, unless the request was too long for a line.                         *)
THEOREM SurvivesOneFault == Spec => []OneFaultSurvived
<1>1. IInv => OneFaultSurvived
  BY DEF IInv, Used, Answered, Failing, OneFaultSurvived, At, Free
<1> QED BY <1>1, Invariance, PTL

(* A child that runs is the provider's or somebody is about to stop it.     *)
THEOREM NoOrphans == Spec => []NoOrphan
<1>1. IInv => NoOrphan
  <2> SUFFICES ASSUME IInv, NEW k \in Clients, Alive(k)
               PROVE  \/ process[k] /\ provider.client = k
                      \/ \E t \in Threads : call[t].client = k /\ ~At(t, "idle")
    BY DEF NoOrphan
  <2> QED BY EveryClient DEF At, Free
<1> QED BY <1>1, Invariance, PTL

(* No temporary recording outlives the call it was made for.                *)
THEOREM RecordingsRemoved == Spec => []RecordingRemoved
<1>1. IInv => RecordingRemoved
  BY DEF IInv, Ownership, Owner, RecordingRemoved, At, Free
<1> QED BY <1>1, Invariance, PTL
=============================================================================
