------------------------ MODULE HotkeyListenerProofs ------------------------
(***************************************************************************)
(* The safety properties of HotkeyListener.tla, for any number of Impls    *)
(* and however often the X server hangs.                                   *)
(*                                                                         *)
(* The inductive invariant says, Impl by Impl, who holds x_mutex, what is  *)
(* open at each place of the thread, and who may still be heard: an Impl   *)
(* left behind has lost its manager, and one not yet used has no thread.   *)
(***************************************************************************)
EXTENDS HotkeyListener, TLAPS

Impls == 1 .. MaxImpls

Holding == {"connecting", "freeing", "undoing"}
Empty == {"none", "opening", "connecting", "exited"}
Serving == {"syncing", "enabling", "recording", "translating", "calling", "closing", "freeing"}

(* x_mutex is held by the thread, or by the nudge of stop(), or by nobody.  *)
LockOK(i) ==
  /\ impls[i].x_mutex = "thread" <=> impls[i].thread \in Holding
  /\ impls[i].x_mutex = "stop" <=> caller = "nudge" /\ i = impl_

OpenOK(i) ==
  /\ impls[i].thread \in Empty => ~impls[i].data_display /\ ~impls[i].ctrl_display
  /\ impls[i].record_ctx <=> impls[i].thread \in Serving
  /\ impls[i].enabled => impls[i].record_ctx

OwnerOK(i) ==
  /\ i < impl_ => ~impls[i].manager
  /\ i > impl_ => impls[i].thread = "none"

CallerOK ==
  /\ caller = "stopped" => impls[impl_].thread \in {"none", "exited"}
  /\ caller # "stopped" => impl_ < MaxImpls
  /\ NudgeIsOnOpenDisplay
  /\ MatchStateIsCurrent

IInv ==
  /\ TypeOK
  /\ \A i \in Impls : LockOK(i) /\ OpenOK(i) /\ OwnerOK(i)
  /\ CallerOK

-----------------------------------------------------------------------------
(* A manager that has not been started satisfies the invariant.             *)
LEMMA Initial == Init => IInv
<1> SUFFICES ASSUME Init PROVE IInv
  OBVIOUS
<1>1. NewImpl \in Impl
  BY DEF NewImpl, Impl, Threads
<1>2. TypeOK
  <2>1. impls \in [1 .. MaxImpls -> Impl]
    BY <1>1 DEF Init
  <2>2. 1 \in 1 .. MaxImpls /\ 0 \in 0 .. MaxHangs
    BY ImplsAssumption, HangsAssumption
  <2> QED BY <2>1, <2>2 DEF Init, TypeOK
<1>3. ASSUME NEW i \in Impls PROVE impls[i] = NewImpl
  BY <1>3 DEF Init, Impls
<1>4. \A i \in Impls : LockOK(i) /\ OpenOK(i) /\ OwnerOK(i)
  BY <1>3, ImplsAssumption
  DEF Init, Impls, NewImpl, LockOK, OpenOK, OwnerOK, Holding, Empty, Serving
<1>5. CallerOK
  BY <1>3, ImplsAssumption
  DEF Init, Impls, NewImpl, CallerOK, NudgeIsOnOpenDisplay, MatchStateIsCurrent
<1> QED BY <1>2, <1>4, <1>5 DEF IInv

(* A step of the thread of Impl i keeps the invariant when what it makes of *)
(* that Impl is sound: it changes no other, and only the thread of the      *)
(* manager's own Impl adds to the match state.                              *)
LEMMA OneImplStep ==
  ASSUME IInv, NEW i \in Impls, NEW impl \in Impl,
         impls' = [impls EXCEPT ![i] = impl],
         UNCHANGED <<impl_, caller, expired, hung, hangs>>,
         \/ matched' = matched
         \/ matched' = matched \union {i} /\ i = impl_ /\ caller # "stopped",
         running_' \in BOOLEAN, crashed' \in BOOLEAN,
         impl.manager = impls[i].manager,
         impl.x_mutex = "thread" <=> impl.thread \in Holding,
         impl.x_mutex = "stop" <=> impls[i].x_mutex = "stop",
         impl.thread \in Empty => ~impl.data_display /\ ~impl.ctrl_display,
         impl.record_ctx <=> impl.thread \in Serving,
         impl.enabled => impl.record_ctx,
         \/ impl.thread = impls[i].thread
         \/ impl.thread # "none" /\ impls[i].thread \notin {"none", "exited"},
         impls[i].x_mutex = "stop" =>
           /\ impls[i].ctrl_display => impl.ctrl_display
           /\ impls[i].record_ctx => impl.record_ctx
  PROVE  IInv'
<1>1. TypeOK /\ CallerOK /\ \A j \in Impls : LockOK(j) /\ OpenOK(j) /\ OwnerOK(j)
  BY DEF IInv
<1>2. impls'[i] = impl /\ \A j \in Impls \ {i} : impls'[j] = impls[j]
  BY <1>1 DEF TypeOK, Impls
<1>3. TypeOK'
  BY <1>1 DEF TypeOK, Impls
<1>4. ASSUME NEW j \in Impls PROVE (LockOK(j) /\ OpenOK(j) /\ OwnerOK(j))'
  <2>1. CASE j = i
    BY <1>1, <1>2, <2>1 DEF LockOK, OpenOK, OwnerOK
  <2>2. CASE j # i
    BY <1>1, <1>2, <2>2 DEF LockOK, OpenOK, OwnerOK
  <2> QED BY <2>1, <2>2
<1>5. impl_ \in Impls
  BY <1>1 DEF TypeOK, Impls
<1>6. i # impl_ \/ caller # "stopped" \/ impl.thread = impls[i].thread
  BY <1>1 DEF CallerOK
<1>7. CallerOK'
  <2>1. CASE i = impl_
    BY <1>1, <1>2, <1>5, <1>6, <2>1
    DEF CallerOK, LockOK, NudgeIsOnOpenDisplay, MatchStateIsCurrent
  <2>2. CASE i # impl_
    BY <1>1, <1>2, <1>5, <2>2
    DEF CallerOK, NudgeIsOnOpenDisplay, MatchStateIsCurrent
  <2> QED BY <2>1, <2>2
<1> QED BY <1>3, <1>4, <1>7 DEF IInv

(* Most steps only take the thread from one place to another.               *)
LEMMA GotoStep ==
  ASSUME IInv, NEW i \in Impls, NEW place \in Threads \ (Empty \union Holding),
         Goto(i, place),
         impls[i].thread \notin {"none", "exited"} \union Holding,
         place \in Serving <=> impls[i].thread \in Serving,
         UNCHANGED <<impl_, caller, expired, hung, hangs>>,
         \/ matched' = matched
         \/ matched' = matched \union {i} /\ i = impl_ /\ caller # "stopped",
         running_' \in BOOLEAN, crashed' \in BOOLEAN
  PROVE  IInv'
<1> DEFINE impl == [impls[i] EXCEPT !.thread = place]
<1>1. impls \in [Impls -> Impl] /\ impls[i] \in Impl /\ LockOK(i) /\ OpenOK(i)
  BY DEF IInv, TypeOK, Impls
<1>2. impls' = [impls EXCEPT ![i] = impl] /\ impl \in Impl
  BY <1>1 DEF Goto, Impl
<1>3. /\ impl.thread = place /\ impl.x_mutex = impls[i].x_mutex
      /\ impl.manager = impls[i].manager /\ impl.enabled = impls[i].enabled
      /\ impl.data_display = impls[i].data_display
      /\ impl.ctrl_display = impls[i].ctrl_display
      /\ impl.record_ctx = impls[i].record_ctx
  BY <1>1 DEF Impl
<1>4. impl.x_mutex # "thread" /\ place # "none" /\ place \notin Empty /\ place \notin Holding
  BY <1>1, <1>3 DEF LockOK, Empty
<1>5. (impl.record_ctx <=> impl.thread \in Serving) /\ (impl.enabled => impl.record_ctx)
  BY <1>1, <1>3 DEF OpenOK
<1> HIDE DEF impl
<1> QED BY <1>2, <1>3, <1>4, <1>5, OneImplStep

(* The thread while it opens its connections and makes its context.         *)
LEMMA OpeningStep ==
  ASSUME IInv, NEW i \in Impls,
         Open(i) \/ Connect(i) \/ Query(i) \/ Create(i) \/ Sync(i) \/ Enable(i)
  PROVE  IInv'
<1> USE DEF manager, server, At
<1>1. /\ impls \in [Impls -> Impl] /\ impls[i] \in Impl /\ LockOK(i) /\ OpenOK(i)
      /\ running_ \in BOOLEAN /\ crashed \in BOOLEAN
  BY DEF IInv, TypeOK, Impls
<1>2. CASE Open(i)
  <2> DEFINE impl == [impls[i] EXCEPT !.thread = "connecting", !.x_mutex = "thread"]
  <2>1. impls' = [impls EXCEPT ![i] = impl] /\ impl \in Impl
    BY <1>1, <1>2 DEF Open, Locks, Impl, Threads
  <2>2. /\ impl.thread = "connecting" /\ impl.x_mutex = "thread"
        /\ impl.manager = impls[i].manager /\ impl.enabled = impls[i].enabled
        /\ impl.data_display = impls[i].data_display
        /\ impl.ctrl_display = impls[i].ctrl_display
        /\ impl.record_ctx = impls[i].record_ctx
    BY <1>1 DEF Impl
  <2>3. /\ impls[i].thread = "opening" /\ impls[i].x_mutex = "free"
        /\ ~impls[i].data_display /\ ~impls[i].ctrl_display
        /\ ~impls[i].record_ctx /\ ~impls[i].enabled
    BY <1>1, <1>2 DEF Open, Locks, OpenOK, Empty, Serving
  <2> HIDE DEF impl
  <2> QED BY <1>1, <1>2, <2>1, <2>2, <2>3, OneImplStep DEF Open, Holding, Serving
<1>3. CASE Connect(i)
  <2>1. PICK data, ctrl \in BOOLEAN :
          impls' = [impls EXCEPT
                     ![i].thread = IF data /\ ctrl THEN "querying" ELSE "failing",
                     ![i].x_mutex = "free",
                     ![i].data_display = data, ![i].ctrl_display = ctrl]
    BY <1>3 DEF Connect
  <2> DEFINE place == IF data /\ ctrl THEN "querying" ELSE "failing"
             impl == [impls[i] EXCEPT !.thread = place, !.x_mutex = "free",
                                      !.data_display = data, !.ctrl_display = ctrl]
  <2>2. place \in {"querying", "failing"}
    OBVIOUS
  <2> HIDE DEF place
  <2>3. impls' = [impls EXCEPT ![i] = impl] /\ impl \in Impl
    BY <1>1, <2>1, <2>2 DEF place, Impl, Threads
  <2>4. /\ impl.thread = place /\ impl.x_mutex = "free"
        /\ impl.manager = impls[i].manager /\ impl.enabled = impls[i].enabled
        /\ impl.record_ctx = impls[i].record_ctx
    BY <1>1 DEF Impl
  <2>5. /\ impls[i].thread = "connecting" /\ impls[i].x_mutex = "thread"
        /\ ~impls[i].record_ctx /\ ~impls[i].enabled
    BY <1>1, <1>3 DEF Connect, LockOK, OpenOK, Holding, Serving
  <2> HIDE DEF impl
  <2> QED
    BY <1>1, <1>3, <2>2, <2>3, <2>4, <2>5, OneImplStep DEF Connect, Holding, Serving, Empty
<1>4. CASE Query(i)
  <2>1. PICK place \in {"creating", "failing"} : Goto(i, place)
    BY <1>4 DEF Query
  <2> QED BY <1>1, <1>4, <2>1, GotoStep DEF Query, Threads, Empty, Holding, Serving
<1>5. CASE Create(i)
  <2>1. CASE Goto(i, "failing")
    BY <1>1, <1>5, <2>1, GotoStep DEF Create, Threads, Empty, Holding, Serving
  <2>2. CASE impls' = [impls EXCEPT ![i].thread = "syncing", ![i].record_ctx = TRUE]
    <3> DEFINE impl == [impls[i] EXCEPT !.thread = "syncing", !.record_ctx = TRUE]
    <3>1. impls' = [impls EXCEPT ![i] = impl] /\ impl \in Impl
      BY <1>1, <2>2 DEF Impl, Threads
    <3>2. /\ impl.thread = "syncing" /\ impl.x_mutex = impls[i].x_mutex
          /\ impl.manager = impls[i].manager /\ impl.record_ctx = TRUE
      BY <1>1 DEF Impl
    <3>3. impls[i].thread = "creating" /\ impls[i].x_mutex = "free"
      BY <1>5 DEF Create
    <3> HIDE DEF impl
    <3> QED
      BY <1>1, <1>5, <3>1, <3>2, <3>3, OneImplStep DEF Create, Holding, Serving, Empty
  <2> QED BY <1>5, <2>1, <2>2 DEF Create
<1>6. CASE Sync(i)
  BY <1>1, <1>6, GotoStep DEF Sync, Threads, Empty, Holding, Serving
<1>7. CASE Enable(i)
  <2>1. CASE Goto(i, "closing")
    BY <1>1, <1>7, <2>1, GotoStep DEF Enable, Threads, Empty, Holding, Serving
  <2>2. CASE impls' = [impls EXCEPT ![i].thread = "recording", ![i].enabled = TRUE]
    <3> DEFINE impl == [impls[i] EXCEPT !.thread = "recording", !.enabled = TRUE]
    <3>1. impls' = [impls EXCEPT ![i] = impl] /\ impl \in Impl
      BY <1>1, <2>2 DEF Impl, Threads
    <3>2. /\ impl.thread = "recording" /\ impl.x_mutex = impls[i].x_mutex
          /\ impl.manager = impls[i].manager
          /\ impl.ctrl_display = impls[i].ctrl_display
          /\ impl.record_ctx = impls[i].record_ctx
      BY <1>1 DEF Impl
    <3>3. impls[i].thread = "enabling" /\ impls[i].x_mutex # "thread" /\ impls[i].record_ctx
      BY <1>1, <1>7 DEF Enable, LockOK, OpenOK, Holding, Serving
    <3> HIDE DEF impl
    <3> QED
      BY <1>1, <1>7, <3>1, <3>2, <3>3, OneImplStep DEF Enable, Holding, Serving, Empty
  <2> QED BY <1>7, <2>1, <2>2 DEF Enable
<1> QED BY <1>2, <1>3, <1>4, <1>5, <1>6, <1>7

(* record_callback() in the thread: only a thread whose Impl still has its  *)
(* manager is heard, and that is the thread of impl_.                       *)
LEMMA CallbackStep ==
  ASSUME IInv, NEW i \in Impls, Stroke(i) \/ Translate(i) \/ Report(i) \/ Return(i)
  PROVE  IInv'
<1> USE DEF manager, server, At
<1>1. /\ running_ \in BOOLEAN /\ crashed \in BOOLEAN
      /\ impl_ \in Impls /\ impls[i].manager \in BOOLEAN
  BY DEF IInv, TypeOK, Impls, Impl
<1>2. CASE Stroke(i)
  BY <1>1, <1>2, GotoStep DEF Stroke, Threads, Empty, Holding, Serving
<1>3. CASE Translate(i)
  BY <1>1, <1>3, GotoStep DEF Translate, Threads, Empty, Holding, Serving
<1>4. CASE Report(i)
  <2>1. CASE UNCHANGED matched
    BY <1>1, <1>4, <2>1, GotoStep DEF Report, Threads, Empty, Holding, Serving
  <2>2. CASE impls[i].manager /\ matched' = matched \union {i}
    <3>1. OwnerOK(i) /\ CallerOK
      BY DEF IInv
    <3>2. ~(i < impl_) /\ ~(i > impl_)
      BY <1>4, <2>2, <3>1 DEF Report, OwnerOK
    <3>3. i = impl_
      BY <1>1, <3>2, ImplsAssumption DEF Impls
    <3>4. caller # "stopped"
      BY <1>4, <3>1, <3>3 DEF Report, CallerOK
    <3> QED BY <1>1, <1>4, <2>2, <3>3, <3>4, GotoStep DEF Report, Threads, Empty, Holding, Serving
  <2> QED BY <1>4, <2>1, <2>2 DEF Report
<1>5. CASE Return(i)
  BY <1>1, <1>5, GotoStep DEF Return, Threads, Empty, Holding, Serving
<1> QED BY <1>2, <1>3, <1>4, <1>5

(* The ends of the thread, after a stream and after a failure.              *)
LEMMA ClosingStep ==
  ASSUME IInv, NEW i \in Impls, Close(i) \/ Free(i) \/ Fail(i) \/ Undo(i)
  PROVE  IInv'
<1> USE DEF manager, server, At
<1>1. /\ impls \in [Impls -> Impl] /\ impls[i] \in Impl /\ LockOK(i) /\ OpenOK(i)
      /\ running_ \in BOOLEAN /\ crashed \in BOOLEAN
  BY DEF IInv, TypeOK, Impls
<1>2. CASE Close(i) \/ Fail(i)
  <2> DEFINE place == IF Close(i) THEN "freeing" ELSE "undoing"
             impl == [impls[i] EXCEPT !.thread = place, !.x_mutex = "thread"]
  <2>1. /\ impls' = [impls EXCEPT ![i].thread = place, ![i].x_mutex = "thread"]
        /\ impls[i].x_mutex = "free"
        /\ \/ impls[i].thread = "closing" /\ place = "freeing"
           \/ impls[i].thread = "failing" /\ place = "undoing"
        /\ UNCHANGED <<impl_, running_, matched, caller, expired, hung, hangs, crashed>>
    BY <1>2 DEF Close, Fail, Locks
  <2> HIDE DEF place
  <2>2. impls' = [impls EXCEPT ![i] = impl] /\ impl \in Impl
    BY <1>1, <2>1 DEF Impl, Threads
  <2>3. /\ impl.thread = place /\ impl.x_mutex = "thread"
        /\ impl.manager = impls[i].manager /\ impl.enabled = impls[i].enabled
        /\ impl.record_ctx = impls[i].record_ctx
    BY <1>1 DEF Impl
  <2>4. (impl.record_ctx <=> impl.thread \in Serving) /\ (impl.enabled => impl.record_ctx)
    BY <1>1, <2>1, <2>3 DEF OpenOK, Serving
  <2> HIDE DEF impl
  <2> QED BY <1>1, <2>1, <2>2, <2>3, <2>4, OneImplStep, ZenonT(40) DEF Holding, Empty
<1>3. CASE Free(i)
  <2> DEFINE impl == [impls[i] EXCEPT
                       !.thread = "exited", !.x_mutex = "free",
                       !.data_display = FALSE, !.ctrl_display = FALSE,
                       !.record_ctx = FALSE, !.enabled = FALSE, !.nudged = FALSE]
  <2>1. impls' = [impls EXCEPT ![i] = impl] /\ impl \in Impl
    BY <1>1, <1>3 DEF Free, Impl, Threads
  <2>2. /\ impl.thread = "exited" /\ impl.x_mutex = "free" /\ impl.manager = impls[i].manager
        /\ ~impl.data_display /\ ~impl.ctrl_display /\ ~impl.record_ctx /\ ~impl.enabled
    BY <1>1 DEF Impl
  <2>3. impls[i].thread = "freeing" /\ impls[i].x_mutex = "thread"
    BY <1>1, <1>3 DEF Free, LockOK, Holding
  <2> HIDE DEF impl
  <2> QED BY <1>1, <1>3, <2>1, <2>2, <2>3, OneImplStep, ZenonT(40) DEF Free, Holding, Serving
<1>4. CASE Undo(i)
  <2> DEFINE impl == [impls[i] EXCEPT !.thread = "exited", !.x_mutex = "free",
                                      !.data_display = FALSE, !.ctrl_display = FALSE]
  <2>1. impls' = [impls EXCEPT ![i] = impl] /\ impl \in Impl
    BY <1>1, <1>4 DEF Undo, Impl, Threads
  <2>2. /\ impl.thread = "exited" /\ impl.x_mutex = "free" /\ impl.manager = impls[i].manager
        /\ ~impl.data_display /\ ~impl.ctrl_display
        /\ impl.record_ctx = impls[i].record_ctx /\ impl.enabled = impls[i].enabled
    BY <1>1 DEF Impl
  <2>3. /\ impls[i].thread = "undoing" /\ impls[i].x_mutex = "thread"
        /\ ~impls[i].record_ctx /\ ~impls[i].enabled
    BY <1>1, <1>4 DEF Undo, LockOK, OpenOK, Holding, Serving
  <2> HIDE DEF impl
  <2> QED BY <1>1, <1>4, <2>1, <2>2, <2>3, OneImplStep DEF Undo, Holding, Serving
<1> QED BY <1>2, <1>3, <1>4

-----------------------------------------------------------------------------
(* The daemon thread and the X server.                                      *)

(* The server and the clock touch at most one flag of one Impl.             *)
LEMMA ServerStep ==
  ASSUME IInv,
         (\E i \in Impls : ServeNudge(i)) \/ Hang \/ Recover \/ Expire
  PROVE  IInv'
<1> USE DEF manager, server
<1>1. TypeOK /\ CallerOK /\ \A j \in Impls : LockOK(j) /\ OpenOK(j) /\ OwnerOK(j)
  BY DEF IInv
<1>2. ASSUME NEW i \in Impls, ServeNudge(i) PROVE IInv'
  <2> DEFINE impl == [impls[i] EXCEPT !.nudged = FALSE, !.enabled = FALSE]
  <2>1. impls \in [Impls -> Impl] /\ impls[i] \in Impl /\ LockOK(i) /\ OpenOK(i)
    BY <1>1 DEF TypeOK, Impls
  <2>2. impls' = [impls EXCEPT ![i] = impl] /\ impl \in Impl
    BY <1>2, <2>1 DEF ServeNudge, Impl, Threads
  <2>3. /\ impl.thread = impls[i].thread /\ impl.x_mutex = impls[i].x_mutex
        /\ impl.manager = impls[i].manager /\ ~impl.enabled
        /\ impl.data_display = impls[i].data_display
        /\ impl.ctrl_display = impls[i].ctrl_display
        /\ impl.record_ctx = impls[i].record_ctx
    BY <2>1 DEF Impl
  <2> HIDE DEF impl
  <2>4. running_' \in BOOLEAN /\ crashed' \in BOOLEAN
    BY <1>1, <1>2 DEF TypeOK, ServeNudge
  <2>5. /\ impl.x_mutex = "thread" <=> impl.thread \in Holding
        /\ impl.thread \in Empty => ~impl.data_display /\ ~impl.ctrl_display
        /\ impl.record_ctx <=> impl.thread \in Serving
    BY <2>1, <2>3 DEF LockOK, OpenOK
  <2>6. UNCHANGED <<impl_, matched, caller, expired, hung, hangs>>
    BY <1>2 DEF ServeNudge
  <2> QED BY <2>2, <2>3, <2>4, <2>5, <2>6, OneImplStep
<1>3. CASE Hang \/ Recover \/ Expire
  <2>1. UNCHANGED <<impls, impl_, running_, matched, caller, crashed>>
    BY <1>3 DEF Hang, Recover, Expire
  <2>2. hangs' \in 0 .. MaxHangs /\ hung' \in BOOLEAN /\ expired' \in BOOLEAN
    <3>1. hangs \in 0 .. MaxHangs /\ hung \in BOOLEAN /\ expired \in BOOLEAN
      BY <1>1 DEF TypeOK
    <3>2. CASE Hang
      BY <3>1, <3>2, HangsAssumption DEF Hang
    <3>3. CASE Recover
      BY <3>1, <3>3 DEF Recover
    <3>4. CASE Expire
      BY <3>1, <3>4 DEF Expire
    <3> QED BY <1>3, <3>2, <3>3, <3>4
  <2>3. TypeOK'
    BY <1>1, <2>1, <2>2 DEF TypeOK
  <2>4. CallerOK' /\ \A j \in Impls : (LockOK(j) /\ OpenOK(j) /\ OwnerOK(j))'
    BY <1>1, <2>1
    DEF CallerOK, NudgeIsOnOpenDisplay, MatchStateIsCurrent, LockOK, OpenOK, OwnerOK
  <2> QED BY <2>3, <2>4 DEF IInv
<1> QED BY <1>2, <1>3

(* start(), and stop() up to its return.                                    *)
LEMMA CallerStep == IInv /\ (Start \/ Stopping) => IInv'
<1> SUFFICES ASSUME IInv, Start \/ Stopping PROVE IInv'
  OBVIOUS
<1> USE DEF manager, server, At
<1>1. TypeOK /\ CallerOK /\ \A j \in Impls : LockOK(j) /\ OpenOK(j) /\ OwnerOK(j)
  BY DEF IInv
<1>2. /\ impls \in [Impls -> Impl] /\ impl_ \in Impls /\ impls[impl_] \in Impl
      /\ LockOK(impl_) /\ OpenOK(impl_)
  BY <1>1 DEF TypeOK, Impls
<1>3. CASE Start
  <2> DEFINE impl == [impls[impl_] EXCEPT !.thread = "opening"]
  <2>1. impls' = [impls EXCEPT ![impl_] = impl] /\ impl \in Impl
    BY <1>2, <1>3 DEF Start, Impl, Threads
  <2>2. /\ impl.thread = "opening" /\ impl.x_mutex = impls[impl_].x_mutex
        /\ impl.manager = impls[impl_].manager /\ impl.enabled = impls[impl_].enabled
        /\ impl.data_display = impls[impl_].data_display
        /\ impl.ctrl_display = impls[impl_].ctrl_display
        /\ impl.record_ctx = impls[impl_].record_ctx
    BY <1>2 DEF Impl
  <2> HIDE DEF impl
  <2>3. impls'[impl_] = impl /\ \A j \in Impls \ {impl_} : impls'[j] = impls[j]
    BY <1>2, <2>1
  <2>4. impls[impl_].thread \in {"none", "exited"}
    BY <1>1, <1>3 DEF Start, CallerOK
  <2>5. TypeOK'
    BY <1>1, <1>3, <2>1 DEF Start, TypeOK, Impls
  <2>6. ASSUME NEW j \in Impls PROVE (LockOK(j) /\ OpenOK(j) /\ OwnerOK(j))'
    <3>1. LockOK(j) /\ OpenOK(j) /\ OwnerOK(j) /\ impl_' = impl_
      BY <1>1, <1>3 DEF Start
    <3>2. CASE j = impl_
      <4>1. LockOK(j)'
        BY <1>3, <2>2, <2>3, <2>4, <3>1, <3>2 DEF Start, LockOK, Holding
      <4>2. OpenOK(j)'
        BY <1>3, <2>2, <2>3, <2>4, <3>1, <3>2 DEF OpenOK, Empty, Serving
      <4>3. OwnerOK(j)'
        BY <1>2, <2>3, <3>1, <3>2, ImplsAssumption DEF OwnerOK, Impls
      <4> QED BY <4>1, <4>2, <4>3
    <3>3. CASE j # impl_
      BY <1>3, <2>3, <3>1, <3>3 DEF Start, LockOK, OpenOK, OwnerOK
    <3> QED BY <3>2, <3>3
  <2>7. CallerOK'
    BY <1>1, <1>3 DEF Start, CallerOK, NudgeIsOnOpenDisplay, MatchStateIsCurrent
  <2> QED BY <2>5, <2>6, <2>7 DEF IInv
<1>4. CASE BeginStop \/ Join
  <2>1. /\ UNCHANGED <<impls, impl_, hung, hangs, crashed>>
        /\ caller # "nudge" /\ caller' # "nudge" /\ caller # "stopped"
        /\ caller' \in {"stopped", "stop"}
        /\ caller' = "stopped" => impls[impl_].thread = "exited" /\ matched' = {}
        /\ matched' \subseteq matched
        /\ running_' \in BOOLEAN /\ expired' \in BOOLEAN
    BY <1>1, <1>4 DEF BeginStop, Join, TypeOK
  <2>2. TypeOK'
    BY <1>1, <2>1 DEF TypeOK
  <2>3. \A j \in Impls : (LockOK(j) /\ OpenOK(j) /\ OwnerOK(j))'
    BY <1>1, <2>1 DEF LockOK, OpenOK, OwnerOK
  <2>4. CallerOK'
    BY <1>1, <2>1 DEF CallerOK, NudgeIsOnOpenDisplay, MatchStateIsCurrent
  <2> QED BY <2>2, <2>3, <2>4 DEF IInv
<1>5. CASE Nudge \/ SendNudge
  <2> DEFINE lock == IF Nudge THEN "stop" ELSE "free"
             sent == IF Nudge THEN impls[impl_].nudged ELSE TRUE
             impl == [impls[impl_] EXCEPT !.x_mutex = lock, !.nudged = sent]
  <2>1. /\ UNCHANGED <<impl_, running_, matched, expired, hung, hangs, crashed>>
        /\ caller \in {"stop", "nudge"} /\ caller' \in {"stop", "nudge"}
        /\ impls[impl_].x_mutex # "thread"
        /\ impls[impl_].ctrl_display /\ impls[impl_].record_ctx
        /\ lock = (IF caller' = "nudge" THEN "stop" ELSE "free")
    <3>1. CASE Nudge
      BY <3>1 DEF Nudge
    <3>2. CASE SendNudge
      BY <1>1, <1>2, <3>2 DEF SendNudge, Nudge, LockOK, CallerOK, NudgeIsOnOpenDisplay
    <3> QED BY <1>5, <3>1, <3>2
  <2>2. impls' = [impls EXCEPT ![impl_] = impl] /\ impl \in Impl
    <3>1. CASE Nudge
      BY <1>2, <3>1 DEF Nudge, Impl
    <3>2. CASE ~Nudge /\ SendNudge
      BY <1>2, <3>2 DEF SendNudge, Impl
    <3> QED BY <1>5, <3>1, <3>2
  <2> HIDE DEF lock, sent
  <2>3. /\ impl.thread = impls[impl_].thread /\ impl.x_mutex = lock
        /\ impl.manager = impls[impl_].manager /\ impl.enabled = impls[impl_].enabled
        /\ impl.data_display = impls[impl_].data_display
        /\ impl.ctrl_display = impls[impl_].ctrl_display
        /\ impl.record_ctx = impls[impl_].record_ctx
    BY <1>2 DEF Impl
  <2> HIDE DEF impl
  <2>4. impls'[impl_] = impl /\ \A j \in Impls \ {impl_} : impls'[j] = impls[j]
    BY <1>2, <2>2
  <2>5. TypeOK'
    BY <1>1, <2>1, <2>2 DEF TypeOK, Impls
  <2>6. ASSUME NEW j \in Impls PROVE (LockOK(j) /\ OpenOK(j) /\ OwnerOK(j))'
    <3>1. LockOK(j) /\ OpenOK(j) /\ OwnerOK(j)
      BY <1>1
    <3>2. CASE j = impl_
      BY <2>1, <2>3, <2>4, <3>1, <3>2 DEF LockOK, OpenOK, OwnerOK
    <3>3. CASE j # impl_
      BY <2>1, <2>4, <3>1, <3>3 DEF LockOK, OpenOK, OwnerOK
    <3> QED BY <3>2, <3>3
  <2>7. CallerOK'
    BY <1>1, <2>1, <2>3, <2>4 DEF CallerOK, NudgeIsOnOpenDisplay, MatchStateIsCurrent
  <2> QED BY <2>5, <2>6, <2>7 DEF IInv
<1>6. CASE Abandon
  <2> DEFINE impl == [impls[impl_] EXCEPT !.manager = FALSE]
  <2>1. impls' = [impls EXCEPT ![impl_] = impl] /\ impl \in Impl
    BY <1>2, <1>6 DEF Abandon, Impl
  <2>2. /\ impl.thread = impls[impl_].thread /\ impl.x_mutex = impls[impl_].x_mutex
        /\ ~impl.manager /\ impl.enabled = impls[impl_].enabled
        /\ impl.data_display = impls[impl_].data_display
        /\ impl.ctrl_display = impls[impl_].ctrl_display
        /\ impl.record_ctx = impls[impl_].record_ctx
    BY <1>2 DEF Impl
  <2> HIDE DEF impl
  <2>3. impls'[impl_] = impl /\ \A j \in Impls \ {impl_} : impls'[j] = impls[j]
    BY <1>2, <2>1
  <2>4. /\ impl_' = impl_ + 1 /\ impl_' \in Impls
        /\ \A j \in Impls : (j < impl_' <=> j <= impl_) /\ (j > impl_' => j > impl_)
    BY <1>1, <1>2, <1>6, ImplsAssumption DEF Abandon, CallerOK, Impls
  <2>5. caller = "stop" /\ caller' = "stopped" /\ matched' = {}
    BY <1>6 DEF Abandon
  <2>6. TypeOK'
    BY <1>1, <1>6, <2>1, <2>4 DEF Abandon, TypeOK, Impls
  <2>7. ASSUME NEW j \in Impls PROVE (LockOK(j) /\ OpenOK(j) /\ OwnerOK(j))'
    <3>1. LockOK(j) /\ OpenOK(j) /\ OwnerOK(j)
      BY <1>1
    <3>2. CASE j = impl_
      <4>1. ~(j > impl_')
        BY <1>2, <2>4, <3>2, ImplsAssumption DEF Impls
      <4> QED BY <2>2, <2>3, <2>5, <3>1, <3>2, <4>1 DEF LockOK, OpenOK, OwnerOK
    <3>3. CASE j # impl_
      <4>1. j < impl_' => j < impl_
        BY <1>2, <2>4, <3>3, ImplsAssumption DEF Impls
      <4> QED BY <2>3, <2>4, <2>5, <3>1, <3>3, <4>1 DEF LockOK, OpenOK, OwnerOK
    <3> QED BY <3>2, <3>3
  <2>8. impls'[impl_'].thread = "none"
    <3>1. impl_' > impl_ /\ impl_' # impl_
      BY <1>2, <2>4, ImplsAssumption DEF Impls
    <3> QED BY <1>1, <2>3, <2>4, <3>1 DEF OwnerOK
  <2>9. CallerOK'
    BY <2>5, <2>8 DEF CallerOK, NudgeIsOnOpenDisplay, MatchStateIsCurrent
  <2> QED BY <2>6, <2>7, <2>9 DEF IInv
<1> QED BY <1>3, <1>4, <1>5, <1>6 DEF Stopping

-----------------------------------------------------------------------------
(* The invariant is inductive: one lemma per party.                         *)
LEMMA Inductive == IInv /\ [Next]_vars => IInv'
<1> SUFFICES ASSUME IInv, [Next]_vars PROVE IInv'
  OBVIOUS
<1>1. ASSUME NEW i \in Impls, Thread(i) \/ Stroke(i) PROVE IInv'
  BY <1>1, OpeningStep, CallbackStep, ClosingStep DEF Thread
<1>2. CASE \E i \in Impls : ServeNudge(i)
  BY <1>2, ServerStep
<1>3. CASE Start \/ Stopping
  BY <1>3, CallerStep
<1>4. CASE Expire \/ Hang \/ Recover
  BY <1>4, ServerStep
<1>5. CASE UNCHANGED vars
  BY <1>5
  DEF vars, manager, server, IInv, TypeOK, CallerOK, LockOK, OpenOK, OwnerOK,
      NudgeIsOnOpenDisplay, MatchStateIsCurrent
<1> QED BY <1>1, <1>2, <1>3, <1>4, <1>5 DEF Next, Ended, Impls

(* The strengthening holds in every reachable state, however many Impls are *)
(* used up and however often the server hangs.                              *)
THEOREM Invariance == Spec => []IInv
BY Initial, Inductive, PTL DEF Spec

(* Every variable of the listener keeps its type.                           *)
THEOREM TypeCorrect == Spec => []TypeOK
<1>1. IInv => TypeOK
  BY DEF IInv
<1> QED BY Invariance, <1>1, PTL

(* nudge_record_shutdown() never uses a connection or a context that the    *)
(* listener thread has closed.                                              *)
THEOREM NudgeSafe == Spec => []NudgeIsOnOpenDisplay
<1>1. IInv => NudgeIsOnOpenDisplay
  BY DEF IInv, CallerOK
<1> QED BY Invariance, <1>1, PTL

(* An abandoned listener is never heard.                                    *)
THEOREM OnlyCurrentIsHeard == Spec => []MatchStateIsCurrent
<1>1. IInv => MatchStateIsCurrent
  BY DEF IInv, CallerOK
<1> QED BY Invariance, <1>1, PTL

(* stop() leaves nothing open but what an abandoned thread holds.           *)
THEOREM StopCloses == Spec => []StoppedIsClosed
<1>1. ASSUME IInv PROVE StoppedIsClosed
  <2> SUFFICES ASSUME caller = "stopped" PROVE StoppedIsClosed
    BY DEF StoppedIsClosed
  <2>1. /\ impls[impl_].thread \in {"none", "exited"} /\ impls[impl_] \in Impl
        /\ LockOK(impl_) /\ OpenOK(impl_)
    BY <1>1 DEF IInv, TypeOK, CallerOK, Impls
  <2>2. impls[impl_].x_mutex \notin {"thread", "stop"}
    BY <2>1 DEF LockOK, Holding
  <2>3. impls[impl_].x_mutex = "free"
    BY <2>1, <2>2 DEF Impl
  <2> QED BY <2>1, <2>3 DEF StoppedIsClosed, OpenOK, Empty, Serving
<1> QED BY Invariance, <1>1, PTL
=============================================================================
