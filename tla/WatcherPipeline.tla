-------------------------- MODULE WatcherPipeline --------------------------
(***************************************************************************)
(* The way of a file change into the index of the leader process           *)
(* (watcher/runtime.rs, watcher/events.rs, watcher/delivery.rs,            *)
(* watcher/scheduler.rs, main/index_runtime.rs):                           *)
(*                                                                         *)
(*   notify callback -> raw queue -> watcher task -> message channel       *)
(*     -> scheduler -> reconciliation                                      *)
(*                                                                         *)
(* Every stage is bounded and degrades to a full reconciliation: a full    *)
(* raw queue sets `overflowed`, too many retained paths and a full channel *)
(* turn `pending` into a full request.                                     *)
(*                                                                         *)
(* An event, the watcher's pending state, a message, the scheduler's       *)
(* pending state and an action all are requests: "full", or a set of       *)
(* paths.  Time is abstract: a deadline that is set passes some time.      *)
(***************************************************************************)
EXTENDS Naturals, FiniteSets, Sequences

CONSTANTS
    Paths,         \* repository-relative paths
    Artifacts,     \* paths of the index database inside the repository
    RawCapacity,   \* raw event queue, and bound on the watcher's paths
    Capacity,      \* message channel (WATCHER_QUEUE_CAPACITY)
    MaxScheduled,  \* bound on the scheduler's paths
    MaxEdits,      \* bound on file changes
    MaxFaults      \* bound on noise, losses, failures and stops

ASSUME PipelineAssumption ==
    /\ IsFiniteSet(Paths)
    /\ Artifacts \subseteq Paths
    /\ RawCapacity \in Nat \ {0}
    /\ Capacity \in Nat \ {0}
    /\ MaxScheduled \in Nat
    /\ MaxEdits \in Nat
    /\ MaxFaults \in Nat

Request == [full : BOOLEAN, paths : SUBSET Paths]
Full == [full |-> TRUE, paths |-> {}]
ForPaths(s) == [full |-> FALSE, paths |-> s]
Nothing == ForPaths({})

\* The paths whose reconciliation a request asks for.
Covers(r) == IF r.full THEN Paths ELSE r.paths

\* PendingReconciliation::insert, extend and bound.
Merge(r, s, limit) ==
    IF r.full \/ s.full \/ Cardinality(r.paths \cup s.paths) > limit THEN Full
    ELSE ForPaths(r.paths \cup s.paths)

VARIABLES
    dirty,       \* paths whose indexed state is not the one on disk
    failed,      \* paths a successful action could not read since their last change
    edits, faults,
    watching,    \* a native watcher is registered
    kernel,      \* notifications on their way to the callback
    callback,    \* the event whose try_send found the raw queue full
    raw,         \* raw event queue
    overflowed,  \* AtomicBool set by the callback
    task,        \* program counter of the watcher task
    pending,     \* the watcher task's pending reconciliation
    armed,       \* its sleep ends before long_sleep
    messages,    \* message channel
    leader,      \* program counter of run_mcp_index_loop and run_index_leader
    scheduled,   \* the scheduler's pending reconciliation
    quiet,       \* the scheduler has a quiet_until
    action,      \* action being executed
    unread,      \* paths the action has yet to read
    read         \* paths the action read that did not change since

disk == <<dirty, failed, edits>>
source == <<watching, kernel, callback>>
watcher == <<task, pending, armed>>
sched == <<scheduled, quiet>>
run == <<action, unread, read>>
vars == <<disk, faults, source, raw, overflowed, watcher, messages, leader,
          sched, run>>

Init ==
    /\ dirty \in SUBSET (Paths \ Artifacts)
    /\ failed = {} /\ edits = 0 /\ faults = 0
    /\ watching = FALSE /\ kernel = {} /\ callback = {}
    /\ raw = <<>> /\ overflowed = FALSE
    /\ task = "off" /\ pending = Nothing /\ armed = FALSE
    /\ messages = <<>>
    /\ leader = "down"
    /\ scheduled = Nothing /\ quiet = FALSE
    /\ action = Nothing /\ unread = {} /\ read = {}

-----------------------------------------------------------------------------
(* The file system and the notify callback.                                *)

\* A file is written, created or deleted; a rename changes two paths.
Edit(s) ==
    /\ edits < MaxEdits
    /\ edits' = edits + 1
    /\ dirty' = dirty \cup (s \ Artifacts)
    /\ failed' = failed \ s
    /\ read' = read \ s
    /\ kernel' = IF watching THEN kernel \cup {ForPaths(s)} ELSE kernel
    /\ UNCHANGED <<faults, watching, callback, raw, overflowed, watcher,
                   messages, leader, sched, action, unread>>

\* Access events, events of kind "other" and events of another boundary.
Noise ==
    /\ watching
    /\ faults < MaxFaults
    /\ faults' = faults + 1
    /\ kernel' = kernel \cup {Nothing}
    /\ UNCHANGED <<disk, watching, callback, raw, overflowed, watcher, messages,
                   leader, sched, run>>

\* The kernel drops notifications and reports that it did (need_rescan, or a
\* notify error).
KernelOverflow ==
    /\ watching
    /\ faults < MaxFaults
    /\ faults' = faults + 1
    /\ kernel' = {Full}
    /\ UNCHANGED <<disk, watching, callback, raw, overflowed, watcher, messages,
                   leader, sched, run>>

\* The callback's try_send: a full queue leaves it holding the event.
CallbackSend(e) ==
    /\ e \in kernel
    /\ callback = {}
    /\ kernel' = kernel \ {e}
    /\ \/ /\ Len(raw) < RawCapacity
          /\ raw' = Append(raw, e)
          /\ UNCHANGED callback
       \/ /\ Len(raw) = RawCapacity
          /\ callback' = {e}
          /\ UNCHANGED raw
    /\ UNCHANGED <<disk, faults, watching, overflowed, watcher, messages, leader,
                   sched, run>>

\* overflowed.store(true): the event itself is dropped.
CallbackOverflow ==
    /\ callback # {}
    /\ callback' = {}
    /\ overflowed' = TRUE
    /\ UNCHANGED <<disk, faults, watching, kernel, raw, watcher, messages, leader,
                   sched, run>>

-----------------------------------------------------------------------------
(* The watcher task.                                                       *)

\* The top of the loop takes the overflow flag.
TaskTop ==
    /\ task = "top"
    /\ task' = "select"
    /\ overflowed' = FALSE
    /\ pending' = IF overflowed THEN Full ELSE pending
    /\ armed' = (armed \/ (overflowed /\ ~pending.full))
    /\ UNCHANGED <<disk, faults, source, raw, messages, leader, sched, run>>

\* The select is biased: a raw event goes first unless pending is full.
RawReady == raw # <<>> /\ ~pending.full

\* process_raw_event and the new deadline.
TaskEvent ==
    /\ task = "select"
    /\ RawReady
    /\ raw' = Tail(raw)
    /\ pending' = Merge(pending, Head(raw), RawCapacity)
    /\ armed' = (pending' # Nothing)
    /\ task' = "top"
    /\ UNCHANGED <<disk, faults, source, overflowed, messages, leader, sched, run>>

\* Mutant: the poll tick leaves the sleep as it is.
TaskPollUnarmed ==
    /\ task = "select"
    /\ ~RawReady
    /\ pending' = Full
    /\ task' = "top"
    /\ UNCHANGED <<disk, faults, source, raw, overflowed, armed, messages, leader,
                   sched, run>>

\* The poll timer, every five minutes, or thirty seconds without a native
\* watcher.
TaskPoll ==
    /\ task = "select"
    /\ ~RawReady
    /\ pending' = Full
    /\ armed' = (armed \/ ~pending.full)
    /\ task' = "top"
    /\ UNCHANGED <<disk, faults, source, raw, overflowed, messages, leader, sched,
                   run>>

\* The sleep ended: a full request first takes the overflow flag ...
TaskSleep ==
    /\ task = "select"
    /\ ~RawReady
    /\ armed
    /\ task' = IF pending.full THEN "coalesce" ELSE "flush"
    /\ overflowed' = (overflowed /\ ~pending.full)
    /\ UNCHANGED <<disk, faults, source, raw, pending, armed, messages, leader,
                   sched, run>>

\* ... and drains the events queued so far.
TaskCoalesce ==
    /\ task = "coalesce"
    /\ task' = "flush"
    /\ raw' = <<>>
    /\ UNCHANGED <<disk, faults, source, overflowed, pending, armed, messages,
                   leader, sched, run>>

\* Mutant: a path request that finds the channel full is dropped.
FlushDropping ==
    IF pending = Nothing THEN <<Nothing, messages>>
    ELSE IF Len(messages) < Capacity THEN <<Nothing, Append(messages, pending)>>
    ELSE <<IF pending.full THEN Full ELSE Nothing, messages>>

\* flush: what stays pending, and the channel.
Flush ==
    IF pending = Nothing THEN <<Nothing, messages>>
    ELSE IF Len(messages) < Capacity THEN <<Nothing, Append(messages, pending)>>
    ELSE <<Full, messages>>

\* Mutant: a blocked delivery is not tried again.
TaskFlushOnce ==
    /\ task = "flush"
    /\ pending' = Flush[1]
    /\ messages' = Flush[2]
    /\ armed' = FALSE
    /\ task' = "top"
    /\ UNCHANGED <<disk, faults, source, raw, overflowed, leader, sched, run>>

\* Delivery; a blocked one is tried again after a delay.
TaskFlush ==
    /\ task = "flush"
    /\ pending' = Flush[1]
    /\ messages' = Flush[2]
    /\ armed' = (pending' # Nothing)
    /\ task' = "top"
    /\ UNCHANGED <<disk, faults, source, raw, overflowed, leader, sched, run>>

-----------------------------------------------------------------------------
(* The leader: the watcher is started before the first scan.               *)

\* RepositoryWatcher::start: native notifications, or polling only.
Register ==
    /\ leader = "down"
    /\ leader' = "registered"
    /\ watching' \in BOOLEAN
    /\ task' = "top"
    /\ UNCHANGED <<disk, faults, kernel, callback, raw, overflowed, pending, armed,
                   messages, sched, run>>

\* The first scan.
StartScan ==
    /\ leader = "registered"
    /\ leader' = "scanning"
    /\ action' = Full /\ unread' = Paths \ Artifacts /\ read' = {}
    /\ UNCHANGED <<disk, faults, source, raw, overflowed, watcher, messages, sched>>

\* schedule_watcher_message drops database paths; enqueue merges the rest and
\* starts the quiet period again.
Enqueue(m) ==
    LET kept == [m EXCEPT !.paths = @ \ Artifacts] IN
    IF kept = Nothing THEN UNCHANGED sched
    ELSE /\ scheduled' = Merge(scheduled, kept, MaxScheduled)
         /\ quiet' = TRUE

\* drain_watcher_messages and the receive branches of the loop.
Receive ==
    /\ leader \in {"drain", "wait"}
    /\ messages # <<>>
    /\ Enqueue(Head(messages))
    /\ messages' = Tail(messages)
    /\ leader' = "drain"
    /\ UNCHANGED <<disk, faults, source, raw, overflowed, watcher, run>>

Drained ==
    /\ leader = "drain"
    /\ messages = <<>>
    /\ leader' = "wait"
    /\ UNCHANGED <<disk, faults, source, raw, overflowed, watcher, messages, sched,
                   run>>

\* take_ready, once every deadline has passed.
TakeReady ==
    /\ leader = "wait"
    /\ quiet
    /\ action' = scheduled
    /\ unread' = Covers(scheduled) \ Artifacts
    /\ read' = {}
    /\ scheduled' = Nothing
    /\ quiet' = FALSE
    /\ leader' = "acting"
    /\ UNCHANGED <<disk, faults, source, raw, overflowed, watcher, messages>>

\* The reconciliation reads one file.
ReadFile(f) ==
    /\ leader \in {"scanning", "acting"}
    /\ f \in unread
    /\ unread' = unread \ {f}
    /\ read' = read \cup {f}
    /\ UNCHANGED <<disk, faults, source, raw, overflowed, watcher, messages, leader,
                   sched, action>>

\* A file that cannot be read keeps its row and costs a warning.
ReadFailure(f) ==
    /\ leader \in {"scanning", "acting"}
    /\ f \in unread
    /\ faults < MaxFaults
    /\ faults' = faults + 1
    /\ unread' = unread \ {f}
    /\ failed' = failed \cup {f}
    /\ UNCHANGED <<dirty, edits, source, raw, overflowed, watcher, messages, leader,
                   sched, action, read>>

\* finish_success.
Succeed ==
    /\ leader \in {"scanning", "acting"}
    /\ unread = {}
    /\ dirty' = dirty \ read
    /\ leader' = "drain"
    /\ action' = Nothing /\ read' = {}
    /\ UNCHANGED <<failed, edits, faults, source, raw, overflowed, watcher,
                   messages, sched, unread>>

\* finish_failure: the action stays scheduled, for a retry.
Fail ==
    /\ leader = "acting"
    /\ faults < MaxFaults
    /\ faults' = faults + 1
    /\ scheduled' = Merge(scheduled, action, MaxScheduled)
    /\ quiet' = TRUE
    /\ leader' = "drain"
    /\ action' = Nothing /\ unread' = {} /\ read' = {}
    /\ UNCHANGED <<disk, source, raw, overflowed, watcher, messages>>

\* run_index_leader returns: the watcher is shut down, and what any stage held
\* is gone with it.
Stop(next) ==
    /\ faults < MaxFaults
    /\ faults' = faults + 1
    /\ leader' = next
    /\ watching' = FALSE /\ kernel' = {} /\ callback' = {}
    /\ raw' = <<>> /\ overflowed' = FALSE
    /\ task' = "off" /\ pending' = Nothing /\ armed' = FALSE
    /\ messages' = <<>>
    /\ scheduled' = Nothing /\ quiet' = FALSE
    /\ action' = Nothing /\ unread' = {} /\ read' = {}
    /\ UNCHANGED disk

\* The first scan fails with an error that may pass: after a delay the process
\* leads again, and starts over.
FailFirstScan == leader = "scanning" /\ Stop("down")

\* A terminal error or a cancellation ends the loop of run_mcp_index_loop: this
\* process does not lead again.
End == leader # "ended" /\ Stop("ended")

-----------------------------------------------------------------------------
Callback == CallbackOverflow \/ \E e \in kernel : CallbackSend(e)
Task == TaskTop \/ TaskEvent \/ TaskSleep \/ TaskCoalesce \/ TaskFlush
Reading == \E f \in unread : ReadFile(f)
Leader == Register \/ StartScan \/ Receive \/ Drained \/ TakeReady
          \/ Reading \/ Succeed

Environment ==
    \/ \E s \in SUBSET Paths : Cardinality(s) \in 1..2 /\ Edit(s)
    \/ Noise \/ KernelOverflow
    \/ \E f \in unread : ReadFailure(f)
    \/ Fail \/ FailFirstScan \/ End

Next == Callback \/ Task \/ TaskPoll \/ Leader \/ Environment

Spec == Init /\ [][Next]_vars

\* The notify thread, the watcher task and the leader are scheduled, and
\* timers fire.  Poll ticks are at least 30 seconds apart; the sleep of a
\* pending request and, once files stop changing, the scheduler's quiet period
\* are half a second: ticks cannot keep either from ending.  A process that is
\* down tries to lead again after a delay; one that has ended does not.
FairSpec ==
    /\ Spec
    /\ WF_vars(Callback) /\ WF_vars(Task) /\ WF_vars(TaskPoll) /\ WF_vars(Leader)
    /\ SF_vars(TaskSleep) /\ SF_vars(Drained) /\ SF_vars(TakeReady)

-----------------------------------------------------------------------------
TypeOK ==
    /\ dirty \in SUBSET (Paths \ Artifacts)
    /\ failed \in SUBSET Paths
    /\ edits \in 0..MaxEdits
    /\ faults \in 0..MaxFaults
    /\ watching \in BOOLEAN
    /\ kernel \in SUBSET Request
    /\ callback \in SUBSET Request
    /\ raw \in Seq(Request) /\ Len(raw) <= RawCapacity
    /\ overflowed \in BOOLEAN
    /\ task \in {"off", "top", "select", "coalesce", "flush"}
    /\ pending \in Request
    /\ armed \in BOOLEAN
    /\ messages \in Seq(Request) /\ Len(messages) <= Capacity
    /\ leader \in {"down", "registered", "scanning", "drain", "wait",
                  "acting", "ended"}
    /\ scheduled \in Request
    /\ quiet \in BOOLEAN
    /\ action \in Request
    /\ unread \in SUBSET Paths
    /\ read \in SUBSET Paths

Elements(q) == {q[i] : i \in 1..Len(q)}

\* The requests that some stage holds, and the paths they and a running
\* reconciliation account for.
Held ==
    kernel \cup callback \cup Elements(raw) \cup Elements(messages)
           \cup {pending, scheduled}
Known ==
    {f \in Paths : \/ \E e \in Held : f \in Covers(e)
                   \/ f \in unread \cup read
                   \/ overflowed}

\* No change is forgotten: while a native watcher is registered, a path whose
\* change is not indexed is known to some stage, or the first scan is still
\* to come.  Only a file that could not be read is given up.
NoLostChange ==
    watching /\ leader # "registered" => dirty \ failed \subseteq Known

\* Pending work has a deadline: the watcher task does not fall asleep on a
\* request, and the scheduler does not wait for another message to act.
PendingIsScheduled ==
    /\ pending # Nothing => armed
    /\ scheduled # Nothing => quiet

\* What makes NoLostChange inductive: a reconciliation, and nothing else, reads
\* what its action asked for, the queue is drained for a full request only,
\* and nothing is watched before the leader registers.
ActionCovers ==
    /\ unread \cup read \subseteq Covers(action)
    /\ leader \notin {"scanning", "acting"} => unread \cup read = {}
    /\ task = "coalesce" => pending.full
    /\ leader \in {"down", "ended"} => ~watching
IInv == TypeOK /\ ActionCovers /\ NoLostChange

\* Every change is indexed, or the file could not be read, unless a terminal
\* error or a cancellation ends the process's loop: another process leads then,
\* or none does.
EveryChangeIndexed == <>[](dirty \subseteq failed \/ leader = "ended")

=============================================================================
