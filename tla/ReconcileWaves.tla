--------------------------- MODULE ReconcileWaves ---------------------------
(***************************************************************************)
(* Request-time reconciliation (services/reconciliation.rs).  A retrieval  *)
(* call that needs a fresh index joins a "wave": one full scan whose       *)
(* outcome is distributed to every caller that joined it before the scan   *)
(* began.  The coordinator keeps at most one current and one pending wave  *)
(* behind a mutex; the task of the current wave first takes the process's  *)
(* indexing admission, then the cross-process operation lock, and only     *)
(* then closes the wave to new callers (mark_running).                     *)
(*                                                                         *)
(* The repository is a version counter: a scan that starts at version v    *)
(* publishes an index that contains every edit up to v.  Direct indexers   *)
(* (the CLI's `index`, the index leader and the watcher, in this process   *)
(* or in another one) compete for the same admission and lock.             *)
(***************************************************************************)
EXTENDS Naturals, FiniteSets

CONSTANTS
    Requests,       \* reconcile() calls; each is made once
    LocalIndexers,  \* direct index calls made in this process
    RemoteIndexers, \* direct index calls of other processes on this cache
    MaxWaves,       \* bound on the wave ids handed out
    MaxEdits,       \* bound on edits of the repository
    ActiveCapacity  \* permits of the active_requests semaphore

Indexers == LocalIndexers \cup RemoteIndexers
WaveId == 1..MaxWaves
NoWave == 0     \* Option::None of `current` and `pending`
Free == 0       \* nobody holds the lock or the admission

ASSUME WavesAssumption ==
    /\ MaxWaves \in Nat
    /\ MaxEdits \in Nat
    /\ ActiveCapacity \in Nat
    /\ Indexers \cap (WaveId \cup {Free}) = {}

VARIABLES
    current, pending,  \* CoordinatorState.current / .pending
    next_wave_id,      \* CoordinatorState.next_wave_id
    phase,             \* Wave.phase
    cancelled,         \* Wave.cancellation
    waiters,           \* Wave.waiters
    task,              \* where the task spawned for a wave stands
    result,            \* what the task will hand to finish_wave
    seen,              \* repository version at which a scan started
    call, outcome,     \* where a reconcile() call stands; what its oneshot holds
    asked,             \* repository version when reconcile() was called
    indexer,           \* where a direct index call stands
    permit,            \* holder of indexing_admission, a Semaphore(1)
    opLock,            \* holder of the operation lock file
    version,           \* edits made to the repository so far
    indexed,           \* version the published index is known to contain
    diag               \* ReconciliationDiagnostics, the wave counters

waveVars == <<current, pending, next_wave_id, phase, cancelled, waiters>>
vars == <<waveVars, task, result, seen, call, outcome, asked, indexer,
          permit, opLock, version, indexed, diag>>

WavePhase == {"WaitingForOperation", "Running"}
TaskPc == {"none", "admission", "check", "try", "mark", "scan", "publish",
           "release", "finish", "done"}
WaveResult == {"none", "ok", "cancelled", "error"}
InFlight == {"admitted", "waiting", "cancelling", "timing_out"}
CallPc == InFlight \cup
          {"idle", "ok", "failed", "cancelled", "not_ready", "overloaded"}
IndexerPc == {"idle", "lock", "scan", "publish", "release", "done"}
Diagnostics == [completed : Nat, failed : Nat, cancelled_before_start : Nat,
                active_waves : Nat]

\* Calls that still hold a permit of active_requests.
ActiveRequests == {r \in Requests : call[r] \in InFlight}

Init ==
    /\ current = NoWave
    /\ pending = NoWave
    /\ next_wave_id = 1
    /\ phase = [w \in WaveId |-> "WaitingForOperation"]
    /\ cancelled = [w \in WaveId |-> FALSE]
    /\ waiters = [w \in WaveId |-> {}]
    /\ task = [w \in WaveId |-> "none"]
    /\ result = [w \in WaveId |-> "none"]
    /\ seen = [w \in WaveId \cup Indexers |-> 0]
    /\ call = [r \in Requests |-> "idle"]
    /\ outcome = [r \in Requests |-> "none"]
    /\ asked = [r \in Requests |-> 0]
    /\ indexer = [i \in Indexers |-> "idle"]
    /\ permit = Free
    /\ opLock = Free
    /\ version = 0
    /\ indexed = 0
    /\ diag = [completed |-> 0, failed |-> 0, cancelled_before_start |-> 0,
               active_waves |-> 0]

Edit ==
    /\ version < MaxEdits
    /\ version' = version + 1
    /\ UNCHANGED <<waveVars, task, result, seen, call, outcome, asked,
                   indexer, permit, opLock, indexed, diag>>

-----------------------------------------------------------------------------
(* The calling side: ReconciliationCoordinator::reconcile.                 *)

\* try_acquire_owned on active_requests, or RetrievalOverloaded.
Admit(r) ==
    /\ call[r] = "idle"
    /\ asked' = [asked EXCEPT ![r] = version]
    /\ call' = [call EXCEPT ![r] =
                  IF Cardinality(ActiveRequests) < ActiveCapacity
                  THEN "admitted" ELSE "overloaded"]
    /\ UNCHANGED <<waveVars, task, result, seen, outcome, indexer, permit,
                   opLock, version, indexed, diag>>

\* cancellation.is_cancelled() before the call has a waiter.
CancelBeforeEnqueue(r) ==
    /\ call[r] = "admitted"
    /\ call' = [call EXCEPT ![r] = "cancelled"]
    /\ UNCHANGED <<waveVars, task, result, seen, outcome, asked, indexer,
                   permit, opLock, version, indexed, diag>>

\* Mutant: the phase is not looked at, so a caller may join a running scan.
JoinableRunning(w) ==
    /\ w # NoWave
    /\ ~cancelled[w]

\* Mutant: an abandoned wave is joined.
JoinableAbandoned(w) ==
    /\ w # NoWave
    /\ phase[w] = "WaitingForOperation"

\* A wave accepts callers until its scan may have begun, unless its last
\* caller left and it is being abandoned.
Joinable(w) ==
    /\ w # NoWave
    /\ phase[w] = "WaitingForOperation"
    /\ ~cancelled[w]

\* update_waiter_high_water recounts the occupied slots.
ActiveWaves(c, p) ==
    (IF c = NoWave THEN 0 ELSE 1) + (IF p = NoWave THEN 0 ELSE 1)

\* enqueue's first and fourth arms: new_wave, in the free slot.
NewWave(r) ==
    /\ next_wave_id \in WaveId
    /\ waiters' = [waiters EXCEPT ![next_wave_id] = {r}]
    /\ next_wave_id' = next_wave_id + 1

\* Mutant: the caller replaces the callers that were listed.
ReplaceWave(r, w) ==
    /\ waiters' = [waiters EXCEPT ![w] = {r}]
    /\ UNCHANGED next_wave_id

\* enqueue's second and third arms: the call is coalesced.
JoinWave(r, w) ==
    /\ waiters' = [waiters EXCEPT ![w] = @ \cup {r}]
    /\ UNCHANGED next_wave_id

\* No current wave: a first wave, and spawn_wave starts its task.
StartCurrent(r) ==
    /\ current = NoWave
    /\ NewWave(r)
    /\ current' = next_wave_id
    /\ task' = [task EXCEPT ![next_wave_id] = "admission"]
    /\ UNCHANGED pending

JoinCurrent(r) ==
    /\ Joinable(current)
    /\ JoinWave(r, current)
    /\ UNCHANGED <<current, pending, task>>

JoinPending(r) ==
    /\ current # NoWave /\ ~Joinable(current) /\ pending # NoWave
    /\ JoinWave(r, pending)
    /\ UNCHANGED <<current, pending, task>>

StartPending(r) ==
    /\ current # NoWave /\ ~Joinable(current) /\ pending = NoWave
    /\ NewWave(r)
    /\ pending' = next_wave_id
    /\ UNCHANGED <<current, task>>

\* ReconciliationCoordinator::enqueue.
Enqueue(r) ==
    /\ call[r] = "admitted"
    /\ call' = [call EXCEPT ![r] = "waiting"]
    /\ StartCurrent(r) \/ JoinCurrent(r) \/ JoinPending(r) \/ StartPending(r)
    /\ diag' = [diag EXCEPT !.active_waves = ActiveWaves(current', pending')]
    /\ UNCHANGED <<phase, cancelled, result, seen, outcome, asked, indexer,
                   permit, opLock, version, indexed>>

\* Complete is Ok; any failure is ReconciliationFailed.
CallResult(r) == IF outcome[r] = "ok" THEN "ok" ELSE "failed"

\* The oneshot resolved: the second arm of the biased select.
Receive(r) ==
    /\ call[r] = "waiting"
    /\ outcome[r] # "none"
    /\ call' = [call EXCEPT ![r] = CallResult(r)]
    /\ UNCHANGED <<waveVars, task, result, seen, outcome, asked, indexer,
                   permit, opLock, version, indexed, diag>>

\* The first arm wins over a resolved oneshot: the caller's token fired, or
\* the whole future was dropped (WaiterGuard::drop).
GiveUp(r) ==
    /\ call[r] = "waiting"
    /\ call' = [call EXCEPT ![r] = "cancelling"]
    /\ UNCHANGED <<waveVars, task, result, seen, outcome, asked, indexer,
                   permit, opLock, version, indexed, diag>>

\* The third arm: the deadline elapsed while the oneshot was still empty.
Deadline(r) ==
    /\ call[r] = "waiting"
    /\ outcome[r] = "none"
    /\ call' = [call EXCEPT ![r] = "timing_out"]
    /\ UNCHANGED <<waveVars, task, result, seen, outcome, asked, indexer,
                   permit, opLock, version, indexed, diag>>

\* Mutant: the emptied pending wave is dropped without being counted.
DropUncounted ==
    /\ pending' = NoWave
    /\ diag' = [diag EXCEPT !.active_waves = ActiveWaves(current, NoWave)]

\* exit_waiter drops a pending wave that lost its last caller.
DropPending ==
    /\ pending' = NoWave
    /\ diag' = [diag EXCEPT !.cancelled_before_start = @ + 1,
                            !.active_waves = ActiveWaves(current, NoWave)]

Lists(w, r) == w # NoWave /\ r \in waiters[w]

\* The last caller of a wave that has not begun cancels it.
LeaveCurrent(r) ==
    /\ Lists(current, r)
    /\ waiters' = [waiters EXCEPT ![current] = @ \ {r}]
    /\ cancelled' = IF /\ waiters[current] = {r}
                       /\ phase[current] = "WaitingForOperation"
                    THEN [cancelled EXCEPT ![current] = TRUE]
                    ELSE cancelled
    /\ UNCHANGED <<pending, diag>>

LeavePending(r) ==
    /\ ~Lists(current, r) /\ Lists(pending, r)
    /\ waiters' = [waiters EXCEPT ![pending] = @ \ {r}]
    /\ IF waiters[pending] = {r} THEN DropPending ELSE UNCHANGED <<pending, diag>>
    /\ UNCHANGED cancelled

\* The wave finished in the meantime; its outcome is dropped unread.
AlreadyOut(r) ==
    /\ ~Lists(current, r) /\ ~Lists(pending, r)
    /\ UNCHANGED <<waiters, cancelled, pending, diag>>

\* ReconciliationCoordinator::exit_waiter.
ExitWaiter(r) ==
    /\ call[r] \in {"cancelling", "timing_out"}
    /\ call' = [call EXCEPT ![r] =
                  IF @ = "cancelling" THEN "cancelled" ELSE "not_ready"]
    /\ LeaveCurrent(r) \/ LeavePending(r) \/ AlreadyOut(r)
    /\ UNCHANGED <<current, next_wave_id, phase, task, result, seen, outcome,
                   asked, indexer, permit, opLock, version, indexed>>

-----------------------------------------------------------------------------
(* The task of a wave: spawn_wave.                                         *)

\* The blocking closure returns early: its permit goes with it.
Abandon(w, res) ==
    /\ result' = [result EXCEPT ![w] = res]
    /\ task' = [task EXCEPT ![w] = "finish"]
    /\ permit' = IF permit = w THEN Free ELSE permit
    /\ opLock' = IF opLock = w THEN Free ELSE opLock

\* The biased select on the wave's token and indexing_admission.
TaskAdmission(w) ==
    /\ task[w] = "admission"
    /\ \/ /\ cancelled[w]
          /\ Abandon(w, "cancelled")
       \/ /\ ~cancelled[w]
          /\ permit = Free
          /\ permit' = w
          /\ task' = [task EXCEPT ![w] = "check"]
          /\ UNCHANGED <<result, opLock>>
    /\ UNCHANGED <<waveVars, seen, call, outcome, asked, indexer, version,
                   indexed, diag>>

\* One turn of coordination::acquire: the token first ...
TaskCheck(w) ==
    /\ task[w] = "check"
    /\ \/ /\ cancelled[w]
          /\ Abandon(w, "cancelled")
       \/ /\ ~cancelled[w]
          /\ task' = [task EXCEPT ![w] = "try"]
          /\ UNCHANGED <<result, permit, opLock>>
    /\ UNCHANGED <<waveVars, seen, call, outcome, asked, indexer, version,
                   indexed, diag>>

\* ... then try_lock: taken, held by another (sleep and turn), or an error.
TaskTry(w) ==
    /\ task[w] = "try"
    /\ \/ /\ opLock = Free
          /\ opLock' = w
          /\ task' = [task EXCEPT ![w] = "mark"]
          /\ UNCHANGED <<result, permit>>
       \/ /\ opLock # Free
          /\ task' = [task EXCEPT ![w] = "check"]
          /\ UNCHANGED <<result, permit, opLock>>
       \/ Abandon(w, "error")
    /\ UNCHANGED <<waveVars, seen, call, outcome, asked, indexer, version,
                   indexed, diag>>

\* mark_running: the wave is closed to new callers, or was given up.
MarkRunning(w) ==
    /\ task[w] = "mark"
    /\ IF /\ Joinable(current)
          /\ current = w
          /\ waiters[w] # {}
       THEN /\ phase' = [phase EXCEPT ![w] = "Running"]
            /\ task' = [task EXCEPT ![w] = "scan"]
            /\ UNCHANGED <<result, permit, opLock>>
       ELSE /\ \E res \in {"cancelled", "error"} : Abandon(w, res)
            /\ UNCHANGED phase
    /\ UNCHANGED <<current, pending, next_wave_id, cancelled, waiters, seen,
                   call, outcome, asked, indexer, version, indexed, diag>>

\* reconcile_cancellable_report begins discovery.
ScanStart(w) ==
    /\ task[w] = "scan"
    /\ seen' = [seen EXCEPT ![w] = version]
    /\ task' = [task EXCEPT ![w] = "publish"]
    /\ UNCHANGED <<waveVars, result, call, outcome, asked, indexer, permit,
                   opLock, version, indexed, diag>>

\* It ends: the generation is published, or the scan failed or panicked.
ScanEnd(w) ==
    /\ task[w] = "publish"
    /\ task' = [task EXCEPT ![w] = "release"]
    /\ \/ /\ ~cancelled[w]
          /\ result' = [result EXCEPT ![w] = "ok"]
          /\ indexed' = seen[w]
       \/ /\ result' = [result EXCEPT ![w] =
                          IF cancelled[w] THEN "cancelled" ELSE "error"]
          /\ UNCHANGED indexed
    /\ UNCHANGED <<waveVars, seen, call, outcome, asked, indexer, permit,
                   opLock, version, diag>>

\* operation.release()?; an unlock error replaces the scan's own result.
Release(w) ==
    /\ task[w] = "release"
    /\ \E res \in {result[w], "error"} : Abandon(w, res)
    /\ UNCHANGED <<waveVars, seen, call, outcome, asked, indexer, version,
                   indexed, diag>>

\* What finish_wave counts for the wave that ends.
FinishedCounter(w) ==
    CASE result[w] = "ok" -> [diag EXCEPT !.completed = @ + 1]
      [] result[w] = "cancelled" /\ waiters[w] = {} ->
            [diag EXCEPT !.cancelled_before_start = @ + 1]
      [] OTHER -> [diag EXCEPT !.failed = @ + 1]

\* Mutant: the pending wave becomes current without a task.
PromoteUnspawned(w) == [task EXCEPT ![w] = "done"]

\* Mutant: the pending wave's task is spawned and the old one runs on.
PromoteEarly(w) ==
    [v \in WaveId |-> IF v = w THEN "release"
                      ELSE IF v = pending THEN "admission" ELSE task[v]]

\* The ending task is done; spawn_wave starts the promoted wave's.
Promote(w) ==
    [v \in WaveId |-> IF v = w THEN "done"
                      ELSE IF v = pending THEN "admission" ELSE task[v]]

\* finish_wave: every caller still listed gets the result, and the pending
\* wave becomes current with a task of its own.
FinishWave(w) ==
    /\ task[w] = "finish"
    /\ IF current = w
       THEN /\ outcome' = [r \in Requests |->
                             IF r \in waiters[w] THEN result[w] ELSE outcome[r]]
            /\ waiters' = [waiters EXCEPT ![w] = {}]
            /\ current' = pending
            /\ pending' = NoWave
            /\ task' = Promote(w)
            /\ diag' = [FinishedCounter(w) EXCEPT !.active_waves =
                          ActiveWaves(pending, NoWave)]
       ELSE /\ task' = [task EXCEPT ![w] = "done"]
            /\ UNCHANGED <<outcome, waiters, current, pending, diag>>
    /\ result' = [result EXCEPT ![w] = "none"]
    /\ seen' = [seen EXCEPT ![w] = 0]
    /\ UNCHANGED <<next_wave_id, phase, cancelled, call, asked, indexer,
                   permit, opLock, version, indexed>>

TaskStep(w) ==
    \/ TaskAdmission(w) \/ TaskCheck(w) \/ TaskTry(w) \/ MarkRunning(w)
    \/ ScanStart(w) \/ ScanEnd(w) \/ Release(w) \/ FinishWave(w)

-----------------------------------------------------------------------------
(* Direct index calls: Services::index_cancellable_report.                 *)

DirectAdmission(i) ==
    /\ indexer[i] = "idle"
    /\ IF i \in LocalIndexers
       THEN permit = Free /\ permit' = i
       ELSE UNCHANGED permit
    /\ indexer' = [indexer EXCEPT ![i] = "lock"]
    /\ UNCHANGED <<waveVars, task, result, seen, call, outcome, asked, opLock,
                   version, indexed, diag>>

\* Mutant: a direct call goes on without the lock.
DirectUnlocked(i) ==
    /\ indexer[i] = "lock"
    /\ indexer' = [indexer EXCEPT ![i] = "scan"]
    /\ UNCHANGED <<waveVars, task, result, seen, call, outcome, asked, permit,
                   opLock, version, indexed, diag>>

\* acquire_operation.
DirectLock(i) ==
    /\ indexer[i] = "lock"
    /\ opLock = Free
    /\ opLock' = i
    /\ indexer' = [indexer EXCEPT ![i] = "scan"]
    /\ UNCHANGED <<waveVars, task, result, seen, call, outcome, asked, permit,
                   version, indexed, diag>>

DirectScan(i) ==
    /\ indexer[i] = "scan"
    /\ seen' = [seen EXCEPT ![i] = version]
    /\ indexer' = [indexer EXCEPT ![i] = "publish"]
    /\ UNCHANGED <<waveVars, task, result, call, outcome, asked, permit,
                   opLock, version, indexed, diag>>

DirectPublish(i) ==
    /\ indexer[i] = "publish"
    /\ indexed' = seen[i]
    /\ indexer' = [indexer EXCEPT ![i] = "release"]
    /\ UNCHANGED <<waveVars, task, result, seen, call, outcome, asked, permit,
                   opLock, version, diag>>

\* The call ends: after its release, by cancellation or an error at any
\* point, or because its process died and the OS dropped its lock.
DirectEnd(i) ==
    /\ indexer[i] \notin {"idle", "done"}
    /\ indexer' = [indexer EXCEPT ![i] = "done"]
    /\ permit' = IF permit = i THEN Free ELSE permit
    /\ opLock' = IF opLock = i THEN Free ELSE opLock
    /\ UNCHANGED <<waveVars, task, result, seen, call, outcome, asked,
                   version, indexed, diag>>

DirectStep(i) ==
    DirectLock(i) \/ DirectScan(i) \/ DirectPublish(i) \/ DirectEnd(i)

-----------------------------------------------------------------------------
CallStep(r) == Admit(r) \/ Enqueue(r) \/ Receive(r) \/ ExitWaiter(r)

Next ==
    \/ Edit
    \/ \E r \in Requests :
          CallStep(r) \/ CancelBeforeEnqueue(r) \/ GiveUp(r) \/ Deadline(r)
    \/ \E w \in WaveId : TaskStep(w)
    \/ \E i \in Indexers : DirectAdmission(i) \/ DirectStep(i)

\* Spawned tasks and blocking closures run to their end; nobody has to
\* edit, to give up, or to begin a direct index call.
Fairness ==
    /\ \A r \in Requests : WF_vars(Enqueue(r) \/ Receive(r) \/ ExitWaiter(r))
    /\ \A w \in WaveId : WF_vars(TaskStep(w))
    /\ \A i \in Indexers : WF_vars(DirectStep(i))

Spec == Init /\ [][Next]_vars /\ Fairness

-----------------------------------------------------------------------------
TypeOK ==
    /\ current \in WaveId \cup {NoWave}
    /\ pending \in WaveId \cup {NoWave}
    /\ next_wave_id \in 1..(MaxWaves + 1)
    /\ phase \in [WaveId -> WavePhase]
    /\ cancelled \in [WaveId -> BOOLEAN]
    /\ waiters \in [WaveId -> SUBSET Requests]
    /\ task \in [WaveId -> TaskPc]
    /\ result \in [WaveId -> WaveResult]
    /\ seen \in [WaveId \cup Indexers -> Nat]
    /\ call \in [Requests -> CallPc]
    /\ outcome \in [Requests -> WaveResult]
    /\ asked \in [Requests -> Nat]
    /\ indexer \in [Indexers -> IndexerPc]
    /\ permit \in WaveId \cup LocalIndexers \cup {Free}
    /\ opLock \in WaveId \cup Indexers \cup {Free}
    /\ version \in Nat
    /\ indexed \in Nat
    /\ diag \in Diagnostics

\* A call that returned Ok is answered from an index that contains every
\* edit made before it was made: a caller never joins a scan that may
\* already have read past its edit.
Freshness ==
    \A r \in Requests : call[r] = "ok" => indexed >= asked[r]

\* The unused-wave cancellation of exit_waiter is never what a caller that
\* stayed gets: the last caller to leave and a late one to join never meet
\* in one wave.
NoLiveWaiterCancelled ==
    \A r \in Requests : outcome[r] # "cancelled"

\* A caller still waiting for its outcome is listed by a wave the
\* coordinator keeps, exactly once, and the current wave's task still runs:
\* no caller is dropped between exit, promotion and finish.
NoLostWaiter ==
    /\ \A r \in Requests :
          call[r] \in {"waiting", "cancelling", "timing_out"}
             /\ outcome[r] = "none" =>
          \E w \in {current, pending} \ {NoWave} :
             /\ r \in waiters[w]
             /\ \A v \in WaveId \ {w} : r \notin waiters[v]
    /\ pending # NoWave => current # NoWave

\* At most one wave has a task that has not finished, and it is the current
\* one, although finish_wave starts the next task before the old one ends.
SingleTask ==
    \A w \in WaveId : task[w] \notin {"none", "done"} => w = current

\* Every wave ever created is accounted for once: completed, failed,
\* cancelled before its start, or still in one of the two slots.
WaveAccounting ==
    next_wave_id - 1 = diag.completed + diag.failed
                          + diag.cancelled_before_start + diag.active_waves

\* Publications are ordered by the operation lock: an index built from an
\* older view of the repository never replaces one built from a newer view.
IndexNeverRegresses == [][indexed' >= indexed]_indexed

\* What a caller sees of its call: nothing of the wave it waits for.
Visible(r) == IF call[r] \in InFlight THEN "pending" ELSE call[r]

Promise == INSTANCE FreshRetrieval WITH
    Capacity <- ActiveCapacity,
    call <- [r \in Requests |-> Visible(r)]

\* To its callers the coordinator is the service of FreshRetrieval: each call
\* is accepted unless the service is full, answered once, and positively only
\* at a moment at which the index holds everything written before the call;
\* waves, promotions, abandoned scans and competing indexers do not show.
ImplementsFreshRetrieval == Promise!Spec

\* Every call that enqueued itself returns, whatever others do, as long as
\* other users of the lock and of the admission end.
EveryCallReturns ==
    \A r \in Requests : call[r] \in InFlight ~> call[r] \notin InFlight

-----------------------------------------------------------------------------
(* The inductive invariant behind the safety properties.                   *)

Queued == {"waiting", "cancelling", "timing_out"}
HoldsOperation == {"mark", "scan", "publish", "release"}

\* The two slots, the tasks and the wave ids fit together.
SlotsInv ==
    /\ current # NoWave => current < next_wave_id
    /\ pending # NoWave => /\ current # NoWave
                           /\ pending # current
                           /\ pending < next_wave_id
                           /\ task[pending] = "none"
                           /\ phase[pending] = "WaitingForOperation"
                           /\ ~cancelled[pending]
                           /\ waiters[pending] # {}
                           /\ ~Joinable(current)
    /\ \A w \in WaveId : task[w] \notin {"none", "done"} <=> w = current
    /\ \A w \in WaveId : w >= next_wave_id =>
          /\ task[w] = "none"
          /\ phase[w] = "WaitingForOperation"
          /\ ~cancelled[w]
          /\ waiters[w] = {}

\* A wave that has not begun has a caller or is abandoned; one that has
\* begun is never abandoned.
PhaseInv ==
    /\ current # NoWave /\ phase[current] = "WaitingForOperation" =>
          (cancelled[current] <=> waiters[current] = {})
    /\ \A w \in WaveId :
          /\ cancelled[w] => waiters[w] = {} /\ phase[w] = "WaitingForOperation"
          /\ task[w] \in {"none", "admission", "check", "try", "mark"} =>
                phase[w] = "WaitingForOperation"
          /\ task[w] \in {"scan", "publish", "release"} =>
                phase[w] = "Running" /\ ~cancelled[w]
          /\ task[w] \in {"release", "finish"} => result[w] # "none"
          /\ result[w] = "cancelled" => cancelled[w]
          /\ result[w] = "ok" => phase[w] = "Running"

\* Callers are listed only by the two kept waves, and by one of them.
WaitersInv ==
    /\ \A w \in WaveId : waiters[w] # {} => w \in {current, pending}
    /\ \A w \in WaveId : \A r \in waiters[w] :
          /\ call[r] \in Queued
          /\ outcome[r] = "none"
          /\ \A v \in WaveId : r \in waiters[v] => v = w
    /\ \A r \in Requests : call[r] \in Queued /\ outcome[r] = "none" =>
          \E w \in WaveId : r \in waiters[w]
    /\ \A r \in Requests : call[r] \in {"idle", "admitted"} =>
          outcome[r] = "none"

\* Who is inside the operation lock.
LockInv ==
    /\ \A w \in WaveId : task[w] \in HoldsOperation <=> opLock = w
    /\ \A i \in Indexers :
          indexer[i] \in {"scan", "publish", "release"} <=> opLock = i

\* What a scan saw, what is published, and what callers asked for.
VersionInv ==
    /\ indexed <= version
    /\ \A r \in Requests : asked[r] <= version
    /\ \A x \in WaveId \cup Indexers : seen[x] <= version
ScanInv ==
    /\ \A w \in WaveId : task[w] = "publish" =>
          /\ indexed <= seen[w]
          /\ \A r \in waiters[w] : asked[r] <= seen[w]
    /\ \A i \in Indexers : indexer[i] = "publish" => indexed <= seen[i]
OutcomeInv ==
    /\ \A w \in WaveId : result[w] = "ok" =>
          \A r \in waiters[w] : asked[r] <= indexed
    /\ \A r \in Requests :
          /\ outcome[r] # "cancelled"
          /\ outcome[r] = "ok" => asked[r] <= indexed
          /\ call[r] = "ok" => outcome[r] = "ok"

\* The counters, with the occupied slots as last counted.
CountInv ==
    /\ WaveAccounting
    /\ diag.active_waves = ActiveWaves(current, pending)

IInv == TypeOK /\ SlotsInv /\ PhaseInv /\ WaitersInv /\ LockInv
        /\ VersionInv /\ ScanInv /\ OutcomeInv /\ CountInv

=============================================================================
