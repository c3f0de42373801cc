--------------------------- MODULE HotkeyListener ---------------------------
(***************************************************************************)
(* The X11 listener thread of HotkeyManager (hotkey_x11.cpp): start(), the *)
(* thread, the callback XRecord calls in it, and the bounded stop().       *)
(*                                                                         *)
(* The thread works on an Impl.  When stop() gives up on a thread, it      *)
(* leaves the thread its Impl and creates another, so there are many:      *)
(* impls[i] is the i-th, and impl_ is the one the manager uses.            *)
(*                                                                         *)
(* X calls that wait for the server return only while it answers, and may  *)
(* fail.  Each Impl has two connections, and the server serves them in any *)
(* order: a request to end the record stream that is served before the     *)
(* request that begins it is lost.                                         *)
(***************************************************************************)
EXTENDS Naturals

CONSTANTS
  MaxImpls,   \* bound: the Impls created
  MaxHangs    \* bound: how often the X server stops answering

ASSUME ImplsAssumption == MaxImpls \in Nat \ {0}
ASSUME HangsAssumption == MaxHangs \in Nat

VARIABLES
  impls,      \* the Impls, live and leaked, with their threads
  impl_,      \* the one the manager owns
  running_,
  caller,     \* where the daemon thread is in start() and stop()
  expired,    \* the five seconds of stop() have passed
  matched,    \* the Impls whose strokes the match state stems from
  hung,       \* the X server does not answer
  hangs,      \* how often it stopped answering
  crashed     \* a callback called the matcher through a null manager

manager == <<impl_, running_, matched>>
server == <<hung, hangs>>
vars == <<impls, manager, caller, expired, server, crashed>>

Threads ==
  {"none", "opening", "connecting", "querying", "creating", "syncing", "enabling",
   "recording", "translating", "calling", "closing", "freeing", "failing", "undoing", "exited"}

Impl == [thread : Threads,
         x_mutex : {"free", "thread", "stop"},
         data_display : BOOLEAN, ctrl_display : BOOLEAN, record_ctx : BOOLEAN,
         manager : BOOLEAN,    \* FALSE: nullptr
         enabled : BOOLEAN,    \* the server sends the record stream
         nudged : BOOLEAN]     \* a request to end it is on the control connection

TypeOK ==
  /\ impls \in [1 .. MaxImpls -> Impl]
  /\ impl_ \in 1 .. MaxImpls
  /\ running_ \in BOOLEAN
  /\ caller \in {"stopped", "started", "stop", "nudge"}
  /\ expired \in BOOLEAN
  /\ matched \subseteq 1 .. MaxImpls
  /\ hung \in BOOLEAN
  /\ hangs \in 0 .. MaxHangs
  /\ crashed \in BOOLEAN

NewImpl == [thread |-> "none", x_mutex |-> "free",
            data_display |-> FALSE, ctrl_display |-> FALSE, record_ctx |-> FALSE,
            manager |-> TRUE, enabled |-> FALSE, nudged |-> FALSE]

Init ==
  /\ impls = [i \in 1 .. MaxImpls |-> NewImpl]
  /\ impl_ = 1
  /\ running_ = FALSE
  /\ caller = "stopped"
  /\ expired = FALSE
  /\ matched = {}
  /\ hung = FALSE /\ hangs = 0
  /\ crashed = FALSE

-----------------------------------------------------------------------------
(* The listener thread on its Impl i.                                       *)

At(i, place) == impls[i].thread = place

Goto(i, place) == impls' = [impls EXCEPT ![i].thread = place]

(* Taking x_mutex, then being at place.                                     *)
Locks(i, place) ==
  /\ impls[i].x_mutex = "free"
  /\ impls' = [impls EXCEPT ![i].thread = place, ![i].x_mutex = "thread"]

(* Defective: cleanup goes on without x_mutex.                              *)
LocksNothing(i) ==
  /\ At(i, "closing")
  /\ Goto(i, "freeing")
  /\ UNCHANGED <<manager, caller, expired, server, crashed>>

Open(i) ==
  /\ At(i, "opening") /\ Locks(i, "connecting")
  /\ UNCHANGED <<manager, caller, expired, server, crashed>>

(* XOpenDisplay() twice, under x_mutex; each may fail.                      *)
Connect(i) ==
  /\ At(i, "connecting") /\ ~hung
  /\ \E data, ctrl \in BOOLEAN :
       impls' = [impls EXCEPT ![i].thread = IF data /\ ctrl THEN "querying" ELSE "failing",
                              ![i].x_mutex = "free",
                              ![i].data_display = data, ![i].ctrl_display = ctrl]
  /\ UNCHANGED <<manager, caller, expired, server, crashed>>

Query(i) ==
  /\ At(i, "querying") /\ ~hung
  /\ Goto(i, "creating") \/ Goto(i, "failing")
  /\ UNCHANGED <<manager, caller, expired, server, crashed>>

(* XRecordCreateContext() waits for no reply.                               *)
Create(i) ==
  /\ At(i, "creating") /\ impls[i].x_mutex = "free"
  /\ \/ Goto(i, "failing")
     \/ impls' = [impls EXCEPT ![i].thread = "syncing", ![i].record_ctx = TRUE]
  /\ UNCHANGED <<manager, caller, expired, server, crashed>>

Sync(i) ==
  /\ At(i, "syncing") /\ ~hung
  /\ Goto(i, "enabling")
  /\ UNCHANGED <<manager, caller, expired, server, crashed>>

(* XRecordEnableContext() fails or the stream begins.                       *)
Enable(i) ==
  /\ At(i, "enabling") /\ ~hung
  /\ \/ Goto(i, "closing")
     \/ impls' = [impls EXCEPT ![i].thread = "recording", ![i].enabled = TRUE]
  /\ UNCHANGED <<manager, caller, expired, server, crashed>>

(* record_callback() drops a stroke of a stopped or abandoned listener; of  *)
(* any other it looks the key up, for which it may ask the server.          *)
Stroke(i) ==
  /\ At(i, "recording") /\ impls[i].enabled /\ ~hung
  /\ impls[i].manager /\ running_
  /\ Goto(i, "translating")
  /\ UNCHANGED <<manager, caller, expired, server, crashed>>

Translate(i) ==
  /\ At(i, "translating") /\ ~hung
  /\ Goto(i, "calling")
  /\ UNCHANGED <<manager, caller, expired, server, crashed>>

(* It then reads impl->manager again, and on_modifier_press() and the       *)
(* others test running_ again.                                              *)
Report(i) ==
  /\ At(i, "calling")
  /\ Goto(i, "recording")
  /\ matched' = IF impls[i].manager /\ running_ THEN matched \union {i} ELSE matched
  /\ crashed' = (crashed \/ ~impls[i].manager)
  /\ UNCHANGED <<impl_, running_, caller, expired, server>>

(* XRecordEnableContext() returns when the stream has ended.                *)
Return(i) ==
  /\ At(i, "recording") /\ ~impls[i].enabled
  /\ Goto(i, "closing")
  /\ UNCHANGED <<manager, caller, expired, server, crashed>>

Close(i) ==
  /\ At(i, "closing") /\ Locks(i, "freeing")
  /\ UNCHANGED <<manager, caller, expired, server, crashed>>

(* XCloseDisplay() waits for the server.                                    *)
Free(i) ==
  /\ At(i, "freeing") /\ ~hung
  /\ impls' = [impls EXCEPT ![i].thread = "exited", ![i].x_mutex = "free",
                            ![i].data_display = FALSE, ![i].ctrl_display = FALSE,
                            ![i].record_ctx = FALSE, ![i].enabled = FALSE, ![i].nudged = FALSE]
  /\ UNCHANGED <<manager, caller, expired, server, crashed>>

(* Defective: fail_cleanup() forgets the control connection.                *)
UndoesData(i) ==
  /\ At(i, "undoing") /\ ~hung
  /\ impls' = [impls EXCEPT ![i].thread = "exited", ![i].x_mutex = "free",
                            ![i].data_display = FALSE]
  /\ running_' = FALSE
  /\ UNCHANGED <<impl_, matched, caller, expired, server, crashed>>

(* fail_cleanup(), which writes running_ of the manager.                    *)
Fail(i) ==
  /\ At(i, "failing") /\ Locks(i, "undoing")
  /\ UNCHANGED <<manager, caller, expired, server, crashed>>

Undo(i) ==
  /\ At(i, "undoing") /\ ~hung
  /\ impls' = [impls EXCEPT ![i].thread = "exited", ![i].x_mutex = "free",
                            ![i].data_display = FALSE, ![i].ctrl_display = FALSE]
  /\ running_' = FALSE
  /\ UNCHANGED <<impl_, matched, caller, expired, server, crashed>>

Thread(i) ==
  \/ Open(i) \/ Connect(i) \/ Query(i) \/ Create(i) \/ Sync(i) \/ Enable(i)
  \/ Translate(i) \/ Report(i) \/ Return(i) \/ Close(i) \/ Free(i)
  \/ Fail(i) \/ Undo(i)

-----------------------------------------------------------------------------
(* start() and stop(), called by the daemon thread.                         *)

(* Starts are bounded by the Impls left: the last one is not used.          *)
Start ==
  /\ caller = "stopped" /\ impl_ < MaxImpls
  /\ caller' = "started"
  /\ running_' = TRUE
  /\ impls' = [impls EXCEPT ![impl_].thread = "opening"]
  /\ UNCHANGED <<impl_, matched, expired, server, crashed>>

BeginStop ==
  /\ caller = "started" /\ caller' = "stop"
  /\ running_' = FALSE /\ expired' = FALSE
  /\ UNCHANGED <<impls, impl_, matched, server, crashed>>

(* nudge_record_shutdown(): when x_mutex is not free within 500 ms, or      *)
(* there is no context, the loop of stop() only sleeps.                     *)
Nudge ==
  /\ caller = "stop" /\ ~expired
  /\ ~At(impl_, "exited")
  /\ impls[impl_].x_mutex = "free"
  /\ impls[impl_].ctrl_display /\ impls[impl_].record_ctx
  /\ caller' = "nudge"
  /\ impls' = [impls EXCEPT ![impl_].x_mutex = "stop"]
  /\ UNCHANGED <<manager, expired, server, crashed>>

(* XRecordDisableContext() and XFlush().                                    *)
SendNudge ==
  /\ caller = "nudge" /\ caller' = "stop"
  /\ impls' = [impls EXCEPT ![impl_].x_mutex = "free", ![impl_].nudged = TRUE]
  /\ UNCHANGED <<manager, expired, server, crashed>>

(* Five seconds are longer than a listener takes to exit once nudged, as    *)
(* long as the server answers.                                              *)
Expire ==
  /\ caller \in {"stop", "nudge"} /\ ~expired /\ hung
  /\ expired' = TRUE
  /\ UNCHANGED <<impls, manager, caller, server, crashed>>

Join ==
  /\ caller = "stop" /\ caller' = "stopped"
  /\ At(impl_, "exited")
  /\ matched' = {}
  /\ UNCHANGED <<impls, impl_, running_, expired, server, crashed>>

(* Defective: waits for x_mutex before it gives up.                         *)
AbandonsUnlocked ==
  /\ caller = "stop" /\ caller' = "stopped"
  /\ expired /\ ~At(impl_, "exited")
  /\ impls[impl_].x_mutex = "free"
  /\ impls' = [impls EXCEPT ![impl_].manager = FALSE]
  /\ impl_' = impl_ + 1
  /\ matched' = {}
  /\ UNCHANGED <<running_, expired, server, crashed>>

(* Defective: the abandoned Impl keeps its way to the matcher.              *)
AbandonsInTouch ==
  /\ caller = "stop" /\ caller' = "stopped"
  /\ expired /\ ~At(impl_, "exited")
  /\ impl_' = impl_ + 1
  /\ matched' = {}
  /\ UNCHANGED <<impls, running_, expired, server, crashed>>

(* The thread is detached and its Impl leaked.                              *)
Abandon ==
  /\ caller = "stop" /\ caller' = "stopped"
  /\ expired /\ ~At(impl_, "exited")
  /\ impls' = [impls EXCEPT ![impl_].manager = FALSE]
  /\ impl_' = impl_ + 1
  /\ matched' = {}
  /\ UNCHANGED <<running_, expired, server, crashed>>

Stopping == BeginStop \/ Nudge \/ SendNudge \/ Join \/ Abandon

-----------------------------------------------------------------------------
(* The X server.                                                            *)

(* A request to end a stream that has not begun is lost.                    *)
ServeNudge(i) ==
  /\ impls[i].nudged /\ ~hung
  /\ impls' = [impls EXCEPT ![i].nudged = FALSE, ![i].enabled = FALSE]
  /\ UNCHANGED <<manager, caller, expired, server, crashed>>

Hang ==
  /\ ~hung /\ hangs < MaxHangs
  /\ hung' = TRUE /\ hangs' = hangs + 1
  /\ UNCHANGED <<impls, manager, caller, expired, crashed>>

Recover ==
  /\ hung /\ hung' = FALSE
  /\ UNCHANGED <<impls, manager, caller, expired, hangs, crashed>>

-----------------------------------------------------------------------------
Ended == caller = "stopped" /\ UNCHANGED vars

Next ==
  \/ \E i \in 1 .. MaxImpls : Thread(i) \/ Stroke(i) \/ ServeNudge(i)
  \/ Start \/ Stopping \/ Expire
  \/ Hang \/ Recover
  \/ Ended

Spec == Init /\ [][Next]_vars

(* Threads run, time passes, and a server that answers serves each          *)
(* connection.  A thread that waits for x_mutex gets it (strong fairness):  *)
(* stop() sleeps 50 ms without it after each nudge.  Nobody need start or   *)
(* stop the listener or strike a key, and a server that hangs need not      *)
(* recover.                                                                 *)
Fairness ==
  /\ \A i \in 1 .. MaxImpls : SF_vars(Thread(i)) /\ WF_vars(ServeNudge(i))
  /\ WF_vars(Nudge \/ SendNudge \/ Join \/ Abandon)
  /\ WF_vars(Expire)

FairSpec == Spec /\ Fairness

-----------------------------------------------------------------------------
(* Properties.                                                              *)

(* "x_mutex guards ctrl_display/record_ctx lifetime": stop() never sends    *)
(* on a connection the thread has closed.                                   *)
NudgeIsOnOpenDisplay ==
  caller = "nudge" => impls[impl_].ctrl_display /\ impls[impl_].record_ctx

(* The match state stems from strokes of the manager's own listener, and    *)
(* from none once it is stopped: an abandoned thread is never heard again,  *)
(* whatever it was doing and whatever is started after it.                  *)
MatchStateIsCurrent ==
  matched \subseteq IF caller = "stopped" THEN {} ELSE {impl_}

(* When stop() has returned, both connections and the context are closed,   *)
(* whether the listener failed half-way through its start or ran; only a    *)
(* thread that was abandoned keeps them.                                    *)
StoppedIsClosed ==
  caller = "stopped" =>
    LET impl == impls[impl_] IN
      /\ ~impl.data_display /\ ~impl.ctrl_display /\ ~impl.record_ctx
      /\ ~impl.enabled /\ impl.x_mutex = "free"

(* "Never block shutdown on the X server": stop() returns wherever the      *)
(* listener is, though a nudge may come before the stream has begun, and    *)
(* though the server may stop answering while the listener holds x_mutex.   *)
StopReturns == caller = "stop" ~> caller = "stopped"
=============================================================================
