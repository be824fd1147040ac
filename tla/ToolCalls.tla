----------------------------- MODULE ToolCalls ------------------------------
(***************************************************************************)
(* The path of tools/call requests through one server: the bounded stdio    *)
(* transport and its dispatch map (mcp/transport.rs), preparation, the wait *)
(* for repository services and for the first index (mcp/runtime.rs,         *)
(* mcp/state.rs), handler admission (mcp/admission.rs) and the blocking     *)
(* executor (services/executor.rs).                                        *)
(*                                                                         *)
(* A call is one request of the client; ids may be used again by later      *)
(* calls.  Permits are owned by dispatch entries, by handlers or by the     *)
(* blocking closure; a semaphore is full when enough owners exist.  Which   *)
(* answer a call gets is left out except that a first result "index not     *)
(* ready" is retried.  The client does not reuse the id of a control        *)
(* request it still waits for: the transport keeps no entry for those.      *)
(***************************************************************************)
EXTENDS Naturals, FiniteSets

CONSTANTS Calls,              \* the requests, numbered in the order of arrival
          Ids,                \* JSON-RPC request ids
          Numberings,         \* the ids a client may give its calls
          DispatchCapacity,   \* permits of request_dispatch
          MaxEntries,         \* max_dispatch_entries, 4 * DispatchCapacity
          HandlerCapacity,    \* permits of request_admission
          ActiveCapacity,     \* permits of the executor, waiting included
          ExecutionCapacity   \* permits of the executor to run

ASSUME ToolCallsAssumption ==
  /\ Calls \subseteq Nat /\ IsFiniteSet(Calls) /\ IsFiniteSet(Ids)
  /\ Numberings \subseteq [Calls -> Ids]
  /\ DispatchCapacity \in Nat \ {0} /\ MaxEntries \in Nat
  /\ DispatchCapacity <= MaxEntries
  /\ HandlerCapacity \in Nat \ {0}
  /\ ExecutionCapacity \in Nat \ {0} /\ ActiveCapacity \in Nat
  /\ ExecutionCapacity <= ActiveCapacity

VARIABLES
  entry,      \* dispatched_calls: the DispatchEntry of an id
  direct,     \* a direct response is being written: nothing is received
  state,      \* McpServiceState of the context the calls select
  notifying,  \* the state was written, its waiters are not notified yet
  idOf,       \* the id of a call
  pc,         \* where its handler is
  cancelled,  \* its CancellationToken
  stage,      \* what a waiting call waits for: "services" or the first "index"
  note,       \* its Notified future: "none", "armed" or "fired"
  ahead,      \* the calls before it in the queue of the execution semaphore
  admitted,   \* calls whose handler holds an admission permit
  active,     \* calls whose executor run holds an active permit
  execution,  \* calls whose executor run holds an execution permit
  work        \* the blocking closure of a call

server   == <<entry, direct, idOf>>
service  == <<state, notifying>>
waiting  == <<stage, note>>
executor == <<ahead, active, execution, work>>
vars     == <<server, service, pc, cancelled, waiting, admitted, executor>>

\* A handler is at one of these points from dispatch to its response.
Handling == {"prepare", "create", "check", "wait", "run", "queued", "closure"}

\* Type correctness.
TypeOK ==
  /\ entry \in [Ids -> {"none", "active", "tombstoned"}]
  /\ direct \in BOOLEAN
  /\ state \in {"starting", "ready", "failed"} /\ notifying \in BOOLEAN
  /\ idOf \in [Calls -> Ids]
  /\ pc \in [Calls -> Handling \cup {"unsent", "respond", "done"}]
  /\ cancelled \in [Calls -> BOOLEAN]
  /\ stage \in [Calls -> {"services", "index"}]
  /\ note \in [Calls -> {"none", "armed", "fired"}]
  /\ ahead \in [Calls -> SUBSET Calls]
  /\ admitted \subseteq Calls /\ active \subseteq Calls /\ execution \subseteq Calls
  /\ work \in [Calls -> {"none", "spawned", "running"}]

Init ==
  /\ entry = [i \in Ids |-> "none"]
  /\ direct = FALSE
  /\ state = "starting" /\ notifying = FALSE
  /\ idOf \in Numberings
  /\ pc = [c \in Calls |-> "unsent"]
  /\ cancelled = [c \in Calls |-> FALSE]
  /\ stage = [c \in Calls |-> "services"]
  /\ note = [c \in Calls |-> "none"]
  /\ ahead = [c \in Calls |-> {}]
  /\ admitted = {} /\ active = {} /\ execution = {}
  /\ work = [c \in Calls |-> "none"]

Goto(c, l) == pc' = [pc EXCEPT ![c] = l]

-----------------------------------------------------------------------------
(* The transport.                                                          *)

Entries(S) == {i \in Ids : entry[i] \in S}

\* admit_message accepts a tool call: its id is free, the map has room and a
\* dispatch permit is available.
Admissible(i) ==
  /\ entry[i] = "none"
  /\ Cardinality(Entries({"active", "tombstoned"})) < MaxEntries
  /\ Cardinality(Entries({"active"})) < DispatchCapacity

\* receive: a tool call is dispatched, or refused with a direct response.
Receive(c) ==
  /\ pc[c] = "unsent" /\ ~direct
  /\ \A d \in Calls : d < c => pc[d] # "unsent"
  /\ \/ /\ Admissible(idOf[c])
        /\ entry' = [entry EXCEPT ![idOf[c]] = "active"]
        /\ Goto(c, "prepare")
        /\ UNCHANGED direct
     \/ /\ ~Admissible(idOf[c])
        /\ Goto(c, "done")
        /\ direct' = TRUE
        /\ UNCHANGED entry
  /\ UNCHANGED <<idOf, service, cancelled, waiting, admitted, executor>>

\* A control request whose id is reserved is refused directly as well.
RefuseControl(i) ==
  /\ entry[i] # "none" /\ ~direct
  /\ direct' = TRUE
  /\ UNCHANGED <<entry, idOf, service, pc, cancelled, waiting, admitted, executor>>

\* finish_direct_response.
FinishDirect ==
  /\ direct /\ direct' = FALSE
  /\ UNCHANGED <<entry, idOf, service, pc, cancelled, waiting, admitted, executor>>

\* A cancellation that frees the id with the permit.
ForgetDispatch(i) ==
  /\ entry[i] # "none" /\ ~direct
  /\ entry' = [entry EXCEPT ![i] = "none"]
  /\ cancelled' = [c \in Calls |->
                     cancelled[c] \/ (idOf[c] = i /\ pc[c] \in Handling)]
  /\ UNCHANGED <<direct, idOf, service, pc, waiting, admitted, executor>>

\* A cancelled notification: tombstone_dispatch frees the permit, keeps the id,
\* and the SDK cancels the token of the request.
CancelRequest(i) ==
  /\ entry[i] # "none" /\ ~direct
  /\ entry' = [entry EXCEPT ![i] = "tombstoned"]
  /\ cancelled' = [c \in Calls |->
                     cancelled[c] \/ (idOf[c] = i /\ pc[c] \in Handling)]
  /\ UNCHANGED <<direct, idOf, service, pc, waiting, admitted, executor>>

\* send: the response is written, or its write fails; finish_dispatch.
Send(c) ==
  /\ pc[c] = "respond"
  /\ entry' = [entry EXCEPT ![idOf[c]] = "none"]
  /\ Goto(c, "done")
  /\ UNCHANGED <<direct, idOf, service, cancelled, waiting, admitted, executor>>

-----------------------------------------------------------------------------
(* Preparation and waiting.                                                *)

\* The handler has its answer; the admission permit is dropped with its frame.
Respond(c) ==
  /\ Goto(c, "respond")
  /\ admitted' = admitted \ {c}

\* run_admitted: an admission permit is taken, unless another repository is
\* expected or none is left.
Admit(c) ==
  \/ Respond(c)
  \/ /\ Cardinality(admitted) < HandlerCapacity
     /\ admitted' = admitted \cup {c}
     /\ Goto(c, "run")

\* prepare_retrieval_call, with the state that wait_for_services returned.
Proceed(c) == IF state = "ready" THEN Admit(c) ELSE Respond(c)

\* The request is invalid or already cancelled, the services are there or have
\* failed, or the call waits for them.
Prepare(c) ==
  /\ pc[c] = "prepare"
  /\ \/ Respond(c)
     \/ ~cancelled[c] /\ state # "starting" /\ Proceed(c)
     \/ ~cancelled[c] /\ state = "starting" /\ Goto(c, "create") /\ UNCHANGED admitted
  /\ UNCHANGED <<server, service, cancelled, waiting, executor>>

\* notified() and enable().
CreateNotified(c) ==
  /\ pc[c] = "create"
  /\ note' = [note EXCEPT ![c] = "armed"]
  /\ Goto(c, "check")
  /\ UNCHANGED <<server, service, cancelled, stage, admitted, executor>>

\* What ends the wait: services that started or failed; for the first index,
\* services that failed.
Settled(c) == IF stage[c] = "services" THEN state # "starting" ELSE state = "failed"

\* The call leaves its wait with the state it read.
EndWait(c) == IF stage[c] = "services" THEN Proceed(c) ELSE Respond(c)

\* A wait that relies on the state read before its future was made.
WaitUnchecked(c) ==
  /\ pc[c] = "check" /\ Goto(c, "wait")
  /\ UNCHANGED <<server, service, cancelled, waiting, admitted, executor>>

\* The state is read after the future was made: the wait is over, goes on, or
\* its deadline has passed.
CheckState(c) ==
  /\ pc[c] = "check"
  /\ \/ /\ Settled(c) /\ EndWait(c)
        /\ note' = [note EXCEPT ![c] = "none"]
     \/ /\ ~Settled(c) /\ Goto(c, "wait")
        /\ UNCHANGED <<note, admitted>>
     \/ /\ ~Settled(c) /\ stage[c] = "services" /\ Respond(c)
        /\ note' = [note EXCEPT ![c] = "none"]
  /\ UNCHANGED <<server, service, cancelled, stage, executor>>

\* select!: the notification arrived, and the loop goes round.
Wake(c) ==
  /\ pc[c] = "wait" /\ note[c] = "fired"
  /\ Goto(c, "create")
  /\ UNCHANGED <<server, service, cancelled, waiting, admitted, executor>>

\* select!: the call is cancelled.
WaitCancelled(c) ==
  /\ pc[c] = "wait" /\ cancelled[c]
  /\ note' = [note EXCEPT ![c] = "none"]
  /\ Respond(c)
  /\ UNCHANGED <<server, service, cancelled, stage, executor>>

\* A wait for the services without the timer.
NoServiceDeadline(c) ==
  /\ pc[c] = "wait" /\ stage[c] = "index"
  /\ note' = [note EXCEPT ![c] = "none"]
  /\ EndWait(c)
  /\ UNCHANGED <<server, service, cancelled, stage, executor>>

\* select!: the deadline; wait_for_services reads the state once more.
WaitDeadline(c) ==
  /\ pc[c] = "wait"
  /\ note' = [note EXCEPT ![c] = "none"]
  /\ EndWait(c)
  /\ UNCHANGED <<server, service, cancelled, stage, executor>>

\* select!: wait_for_initial_index ended.  The call fails with it or with the
\* runtime, or runs its operation again.
IndexSettled(c) ==
  /\ pc[c] = "wait" /\ stage[c] = "index"
  /\ note' = [note EXCEPT ![c] = "none"]
  /\ \/ Respond(c)
     \/ state # "failed" /\ Goto(c, "run") /\ UNCHANGED admitted
  /\ UNCHANGED <<server, service, cancelled, stage, executor>>

\* set_ready and set_failed write the state, then notify_waiters.
SetState(s) ==
  /\ \/ state = "starting" /\ s \in {"ready", "failed"}
     \/ state = "ready" /\ s = "failed"
  /\ state' = s /\ notifying' = TRUE
  /\ UNCHANGED <<server, pc, cancelled, waiting, admitted, executor>>

NotifyWaiters ==
  /\ notifying /\ notifying' = FALSE
  /\ note' = [c \in Calls |-> IF note[c] = "armed" THEN "fired" ELSE note[c]]
  /\ UNCHANGED <<server, state, pc, cancelled, stage, admitted, executor>>

-----------------------------------------------------------------------------
(* Admission and execution.                                                *)

\* retry_after_initial_index: the operation returned.  A first "index not
\* ready" before the deadline waits for the index, anything else is the answer.
Returned(c, notReady) ==
  \/ Respond(c) /\ UNCHANGED stage
  \/ /\ notReady /\ stage[c] = "services"
     /\ stage' = [stage EXCEPT ![c] = "index"]
     /\ Goto(c, "create")
     /\ UNCHANGED admitted

\* BlockingExecutor::run: the call is cancelled, no active permit is left, or
\* the operation fails before it gets there; or it queues.
Run(c) ==
  /\ pc[c] = "run"
  /\ \/ /\ Returned(c, TRUE)
        /\ UNCHANGED <<ahead, active>>
     \/ /\ ~cancelled[c] /\ Cardinality(active) < ActiveCapacity
        /\ active' = active \cup {c}
        /\ ahead' = [ahead EXCEPT ![c] = {d \in Calls : pc[d] = "queued"}]
        /\ Goto(c, "queued")
        /\ UNCHANGED <<stage, admitted>>
  /\ UNCHANGED <<server, service, cancelled, note, execution, work>>

Dequeue(c) == ahead' = [d \in Calls |-> IF d = c THEN {} ELSE ahead[d] \ {c}]

\* An execution permit is free and nobody is before c.
Granted(c) == ahead[c] = {} /\ Cardinality(execution) < ExecutionCapacity

\* wait_for_execution: the permit, and the closure is handed to the blocking
\* pool with both; cancellation has precedence.
Acquire(c) ==
  /\ pc[c] = "queued" /\ ~cancelled[c] /\ Granted(c)
  /\ execution' = execution \cup {c}
  /\ Dequeue(c)
  /\ work' = [work EXCEPT ![c] = "spawned"]
  /\ Goto(c, "closure")
  /\ UNCHANGED <<server, service, cancelled, waiting, admitted, active>>

\* wait_for_execution: cancelled, or queue_timeout passed without a permit.
LeaveQueue(c) ==
  /\ pc[c] = "queued" /\ (cancelled[c] \/ ~Granted(c))
  /\ Dequeue(c)
  /\ active' = active \ {c}
  /\ Returned(c, FALSE)
  /\ UNCHANGED <<server, service, cancelled, note, execution, work>>

\* The run is over: both permits are dropped.
DropPermits(c) == active' = active \ {c} /\ execution' = execution \ {c}

\* The closure starts, unless it was cancelled meanwhile.
StartClosure(c) ==
  /\ work[c] = "spawned" /\ ~cancelled[c]
  /\ work' = [work EXCEPT ![c] = "running"]
  /\ UNCHANGED <<server, service, pc, cancelled, waiting, ahead, admitted, active,
                 execution>>

\* The closure returns or panics; its caller, if there still is one, goes on.
EndClosure(c) ==
  /\ work[c] = "running" \/ (work[c] = "spawned" /\ cancelled[c])
  /\ work' = [work EXCEPT ![c] = "none"]
  /\ DropPermits(c)
  /\ IF pc[c] = "closure" THEN Returned(c, work[c] = "running")
     ELSE UNCHANGED <<pc, stage, admitted>>
  /\ UNCHANGED <<server, service, cancelled, note, ahead>>

\* A handler whose frame owns the permits of its closure.
UnwindOwner(c) ==
  /\ pc[c] \in Handling
  /\ entry' = [entry EXCEPT ![idOf[c]] = "none"]
  /\ admitted' = admitted \ {c}
  /\ note' = [note EXCEPT ![c] = "none"]
  /\ Dequeue(c)
  /\ DropPermits(c)
  /\ Goto(c, "done")
  /\ UNCHANGED <<direct, idOf, service, cancelled, stage, work>>

\* The handler unwinds: DispatchedToolCall frees the id, the frame drops what
\* it owns.  A closure keeps running, with its permits.
Unwind(c) ==
  /\ pc[c] \in Handling
  /\ entry' = [entry EXCEPT ![idOf[c]] = "none"]
  /\ admitted' = admitted \ {c}
  /\ note' = [note EXCEPT ![c] = "none"]
  /\ Dequeue(c)
  /\ IF pc[c] = "closure" THEN UNCHANGED <<active, execution>> ELSE DropPermits(c)
  /\ Goto(c, "done")
  /\ UNCHANGED <<direct, idOf, service, cancelled, stage, work>>

-----------------------------------------------------------------------------
Step(c) ==
  Prepare(c) \/ CreateNotified(c) \/ CheckState(c) \/ Wake(c) \/ WaitCancelled(c)
    \/ WaitDeadline(c) \/ IndexSettled(c) \/ Run(c) \/ Acquire(c)
    \/ LeaveQueue(c) \/ StartClosure(c) \/ EndClosure(c)
    \/ Send(c)

Next ==
  \/ \E c \in Calls : Receive(c) \/ Step(c) \/ Unwind(c)
  \/ \E i \in Ids : RefuseControl(i) \/ CancelRequest(i)
  \/ \E s \in {"ready", "failed"} : SetState(s)
  \/ FinishDirect \/ NotifyWaiters

Spec == Init /\ [][Next]_vars

\* Tasks that can run do, timers fire, operations end and writes complete; a
\* client need not send or cancel anything, and services need not start.
FairSpec == Spec /\ \A c \in Calls : WF_vars(Step(c))

-----------------------------------------------------------------------------
(* Properties.                                                             *)

\* Handlers that have not been answered.
Live == {c \in Calls : pc[c] \in Handling \cup {"respond"}}

\* However calls are cancelled, time out or unwind, no more closures run than
\* the executor allows, no more runs are queued and running than it admits, and
\* no more handlers are alive than the dispatch map retains (executor.rs: a
\* dropped caller must not make running work invisible to either bound).
WorkBounded ==
  /\ Cardinality({c \in Calls : work[c] # "none"}) <= ExecutionCapacity
  /\ Cardinality({c \in Calls : work[c] # "none" \/ pc[c] = "queued"})
       <= ActiveCapacity
  /\ Cardinality(Live) <= MaxEntries

\* The id of a call is reserved for it alone until it is answered, through
\* cancellation, refused collisions and reuse by later calls, and no longer: a
\* permit is not left with an id nobody answers (DispatchEntry).
ReservedUntilAnswered ==
  /\ \A c \in Live : entry[idOf[c]] # "none"
  /\ \A c, d \in Live : idOf[c] = idOf[d] => c = d
  /\ \A i \in Ids : entry[i] # "none" => \E c \in Live : idOf[c] = i

\* No wake-up is lost: a call that sleeps although its wait is over has been
\* notified or is about to be (wait_for_services, retry_after_initial_index).
NoLostWake ==
  \A c \in Calls : pc[c] = "wait" /\ Settled(c) => note[c] = "fired" \/ notifying

\* Every dispatched call is answered or unwinds and all that it held comes
\* back: however calls, cancellations and state changes interleave, the server
\* comes to rest with its semaphores full and its dispatch map empty.
EverythingReturns ==
  <>[](/\ Live = {}
       /\ admitted \cup active \cup execution = {}
       /\ Entries({"active", "tombstoned"}) = {})
=============================================================================
