------------------------ MODULE ReconcileWavesProofs ------------------------
EXTENDS ReconcileWaves, TLAPS

(***************************************************************************)
(* Proofs about ReconcileWaves, for any number of callers, waves and       *)
(* direct indexers.  IInv is inductive: one lemma per action shows that    *)
(* the action preserves it; each lemma proves the parts the action can     *)
(* disturb one by one and the untouched parts in step <1>f (or <2>f).      *)
(***************************************************************************)

\* Wave ids, direct indexers and the two zero values never coincide.
LEMMA Distinct ==
    /\ NoWave \notin WaveId /\ Free \notin WaveId
    /\ WaveId \subseteq Nat
    /\ \A i \in Indexers : i # Free /\ i \notin WaveId
    /\ LocalIndexers \subseteq Indexers
BY WavesAssumption DEF WaveId, NoWave, Free, Indexers

\* The next wave id stays in range when a wave is created.
LEMMA NextId ==
    ASSUME TypeOK, next_wave_id \in WaveId
    PROVE  next_wave_id + 1 \in 1..(MaxWaves + 1)
BY WavesAssumption DEF TypeOK, WaveId

\* Updating two counters keeps the diagnostics well typed.
LEMMA SetCounters ==
    ASSUME NEW d \in Diagnostics, NEW a \in Nat, NEW b \in Nat
    PROVE  [d EXCEPT !.cancelled_before_start = a, !.active_waves = b]
              \in Diagnostics
BY DEF Diagnostics

\* A coordinator that was just created satisfies the invariant.
LEMMA InitInv == Init => IInv
<1>1. ASSUME Init PROVE TypeOK
  BY <1>1, WavesAssumption DEF Init, TypeOK, WavePhase, TaskPc, WaveResult, CallPc, InFlight, IndexerPc, Diagnostics, WaveId, NoWave, Free, Indexers
<1>2. ASSUME Init PROVE SlotsInv
  BY <1>2, WavesAssumption DEF Init, SlotsInv, Joinable, WaveId, NoWave, Free, Indexers
<1>3. ASSUME Init PROVE PhaseInv
  BY <1>3, WavesAssumption DEF Init, PhaseInv, WaveId, NoWave, Free, Indexers
<1>4. ASSUME Init PROVE WaitersInv
  BY <1>4, WavesAssumption DEF Init, WaitersInv, Queued, WaveId, NoWave, Free, Indexers
<1>5. ASSUME Init PROVE LockInv
  BY <1>5, WavesAssumption DEF Init, LockInv, HoldsOperation, WaveId, NoWave, Free, Indexers
<1>6. ASSUME Init PROVE VersionInv
  BY <1>6, WavesAssumption DEF Init, VersionInv, WaveId, NoWave, Free, Indexers
<1>7. ASSUME Init PROVE ScanInv
  BY <1>7, WavesAssumption DEF Init, ScanInv, WaveId, NoWave, Free, Indexers
<1>8. ASSUME Init PROVE OutcomeInv
  BY <1>8, WavesAssumption DEF Init, OutcomeInv, WaveId, NoWave, Free, Indexers
<1>9. ASSUME Init PROVE CountInv
  BY <1>9, WavesAssumption DEF Init, CountInv, WaveAccounting, ActiveWaves, Diagnostics, WaveId, NoWave, Free, Indexers
<1>q. QED  BY <1>1, <1>2, <1>3, <1>4, <1>5, <1>6, <1>7, <1>8, <1>9 DEF IInv

\* An edit only moves the repository's version.
LEMMA EditInv ==
    ASSUME IInv, Edit
    PROVE  IInv'
<1>a. /\ TypeOK /\ SlotsInv /\ PhaseInv /\ WaitersInv /\ LockInv
      /\ VersionInv /\ ScanInv /\ OutcomeInv /\ CountInv
  BY DEF IInv
<1>1. TypeOK'
  BY <1>a, Distinct DEF TypeOK, WavePhase, TaskPc, WaveResult, CallPc,
       InFlight, IndexerPc, Diagnostics, Edit, waveVars
<1>2. VersionInv'
  BY <1>a, Distinct DEF VersionInv, Edit, waveVars, TypeOK
<1>f. SlotsInv' /\ PhaseInv' /\ WaitersInv' /\ LockInv' /\ ScanInv' /\ OutcomeInv' /\ CountInv'
  BY <1>a DEF SlotsInv, PhaseInv, WaitersInv, LockInv, ScanInv, OutcomeInv,
       CountInv, Joinable, Queued, HoldsOperation, WaveAccounting,
       ActiveWaves, Diagnostics, Edit, waveVars
<1>q. QED  BY <1>1, <1>2, <1>f DEF IInv

\* A call is made: its version is the newest one.
LEMMA AdmitInv ==
    ASSUME IInv, NEW r \in Requests, Admit(r)
    PROVE  IInv'
<1>a. /\ TypeOK /\ SlotsInv /\ PhaseInv /\ WaitersInv /\ LockInv
      /\ VersionInv /\ ScanInv /\ OutcomeInv /\ CountInv
  BY DEF IInv
<1>1. TypeOK'
  BY <1>a, Distinct DEF TypeOK, WavePhase, TaskPc, WaveResult, CallPc,
       InFlight, IndexerPc, Diagnostics, Admit, waveVars
<1>2. WaitersInv'
  BY <1>a, Distinct DEF WaitersInv, Queued, Admit, InFlight, waveVars,
       TypeOK, SlotsInv, Joinable
<1>3. VersionInv'
  BY <1>a, Distinct DEF VersionInv, Admit, InFlight, waveVars, TypeOK
<1>4. ScanInv'
  BY <1>a, Distinct DEF ScanInv, Admit, InFlight, waveVars, TypeOK,
       WaitersInv, Queued
<1>5. OutcomeInv'
  BY <1>a, Distinct DEF OutcomeInv, Admit, InFlight, waveVars, TypeOK,
       WaitersInv, Queued
<1>f. SlotsInv' /\ PhaseInv' /\ LockInv' /\ CountInv'
  BY <1>a DEF SlotsInv, PhaseInv, LockInv, CountInv, Joinable,
       HoldsOperation, WaveAccounting, ActiveWaves, Diagnostics, Admit,
       waveVars
<1>q. QED  BY <1>1, <1>2, <1>3, <1>4, <1>5, <1>f DEF IInv

\* A call cancelled before it has a waiter leaves no trace.
LEMMA CancelBeforeEnqueueInv ==
    ASSUME IInv, NEW r \in Requests, CancelBeforeEnqueue(r)
    PROVE  IInv'
<1>a. /\ TypeOK /\ SlotsInv /\ PhaseInv /\ WaitersInv /\ LockInv
      /\ VersionInv /\ ScanInv /\ OutcomeInv /\ CountInv
  BY DEF IInv
<1>1. TypeOK'
  BY <1>a, Distinct DEF TypeOK, WavePhase, TaskPc, WaveResult, CallPc,
       InFlight, IndexerPc, Diagnostics, CancelBeforeEnqueue, waveVars
<1>2. WaitersInv'
  BY <1>a, Distinct DEF WaitersInv, Queued, CancelBeforeEnqueue, waveVars,
       TypeOK, SlotsInv, Joinable
<1>3. OutcomeInv'
  BY <1>a, Distinct DEF OutcomeInv, CancelBeforeEnqueue, waveVars, TypeOK,
       PhaseInv, SlotsInv, Joinable, ScanInv, WaitersInv, Queued
<1>f. SlotsInv' /\ PhaseInv' /\ LockInv' /\ VersionInv' /\ ScanInv' /\ CountInv'
  BY <1>a DEF SlotsInv, PhaseInv, LockInv, VersionInv, ScanInv, CountInv,
       Joinable, HoldsOperation, WaveAccounting, ActiveWaves, Diagnostics,
       CancelBeforeEnqueue, waveVars
<1>q. QED  BY <1>1, <1>2, <1>3, <1>f DEF IInv

\* enqueue, one case per arm of its match.
LEMMA EnqueueInv ==
    ASSUME IInv, NEW r \in Requests, Enqueue(r)
    PROVE  IInv'
<1>a. /\ TypeOK /\ SlotsInv /\ PhaseInv /\ WaitersInv /\ LockInv
      /\ VersionInv /\ ScanInv /\ OutcomeInv /\ CountInv
  BY DEF IInv
<1>1. CASE StartCurrent(r)
  <2>1. TypeOK'
    BY <1>a, <1>1, Distinct, NextId DEF TypeOK, WavePhase, TaskPc,
         WaveResult, CallPc, InFlight, IndexerPc, Diagnostics, Enqueue,
         ActiveWaves, waveVars, StartCurrent, NewWave
  <2>2. SlotsInv'
    BY <1>a, <1>1, Distinct DEF SlotsInv, Joinable, Enqueue, ActiveWaves,
         waveVars, StartCurrent, NewWave, TypeOK, PhaseInv, WaitersInv,
         Queued
  <2>3. PhaseInv'
    BY <1>a, <1>1, Distinct DEF PhaseInv, Enqueue, ActiveWaves, waveVars,
         StartCurrent, NewWave, TypeOK, SlotsInv, Joinable, WaitersInv,
         Queued
  <2>4. WaitersInv'
    BY <1>a, <1>1, Distinct DEF WaitersInv, Queued, Enqueue, ActiveWaves,
         waveVars, StartCurrent, NewWave, TypeOK, SlotsInv, Joinable
  <2>5. LockInv'
    BY <1>a, <1>1, Distinct DEF LockInv, HoldsOperation, Enqueue,
         ActiveWaves, waveVars, StartCurrent, NewWave, TypeOK, SlotsInv,
         Joinable
  <2>6. ScanInv'
    BY <1>a, <1>1, Distinct DEF ScanInv, Enqueue, ActiveWaves, waveVars,
         StartCurrent, NewWave, TypeOK, VersionInv, LockInv, HoldsOperation,
         PhaseInv, SlotsInv, Joinable
  <2>7. OutcomeInv'
    BY <1>a, <1>1, Distinct DEF OutcomeInv, Enqueue, ActiveWaves, waveVars,
         StartCurrent, NewWave, TypeOK, PhaseInv, SlotsInv, Joinable,
         ScanInv, WaitersInv, Queued
  <2>8. CountInv'
    BY <1>a, <1>1, Distinct DEF CountInv, WaveAccounting, ActiveWaves,
         Diagnostics, Enqueue, waveVars, NoWave, StartCurrent, NewWave,
         TypeOK, SlotsInv, Joinable
  <2>f. VersionInv'
    BY <1>a DEF VersionInv, Enqueue, waveVars
  <2>q. QED  BY <2>1, <2>2, <2>3, <2>4, <2>5, <2>6, <2>7, <2>8, <2>f DEF IInv
<1>2. CASE JoinCurrent(r)
  <2>1. TypeOK'
    BY <1>a, <1>2, Distinct DEF TypeOK, WavePhase, TaskPc, WaveResult,
         CallPc, InFlight, IndexerPc, Diagnostics, Enqueue, ActiveWaves,
         waveVars, JoinCurrent, JoinWave, Joinable
  <2>2. SlotsInv'
    BY <1>a, <1>2, Distinct DEF SlotsInv, Joinable, Enqueue, ActiveWaves,
         waveVars, JoinCurrent, JoinWave, TypeOK, PhaseInv, WaitersInv,
         Queued
  <2>3. PhaseInv'
    BY <1>a, <1>2, Distinct DEF PhaseInv, Enqueue, ActiveWaves, waveVars,
         JoinCurrent, JoinWave, Joinable, TypeOK, SlotsInv, WaitersInv,
         Queued
  <2>4. WaitersInv'
    BY <1>a, <1>2, Distinct DEF WaitersInv, Queued, Enqueue, ActiveWaves,
         waveVars, JoinCurrent, JoinWave, Joinable, TypeOK, SlotsInv
  <2>5. LockInv'
    BY <1>a, <1>2, Distinct DEF LockInv, HoldsOperation, Enqueue,
         ActiveWaves, waveVars, JoinCurrent, JoinWave, Joinable, TypeOK,
         SlotsInv
  <2>6. ScanInv'
    BY <1>a, <1>2, Distinct DEF ScanInv, Enqueue, ActiveWaves, waveVars,
         JoinCurrent, JoinWave, Joinable, TypeOK, VersionInv, LockInv,
         HoldsOperation, PhaseInv, SlotsInv
  <2>7. OutcomeInv'
    BY <1>a, <1>2, Distinct DEF OutcomeInv, Enqueue, ActiveWaves, waveVars,
         JoinCurrent, JoinWave, Joinable, TypeOK, PhaseInv, SlotsInv,
         ScanInv, WaitersInv, Queued
  <2>8. CountInv'
    BY <1>a, <1>2, Distinct DEF CountInv, WaveAccounting, ActiveWaves,
         Diagnostics, Enqueue, waveVars, NoWave, JoinCurrent, JoinWave,
         Joinable, TypeOK, SlotsInv
  <2>f. VersionInv'
    BY <1>a DEF VersionInv, Enqueue, waveVars
  <2>q. QED  BY <2>1, <2>2, <2>3, <2>4, <2>5, <2>6, <2>7, <2>8, <2>f DEF IInv
<1>3. CASE JoinPending(r)
  <2>1. TypeOK'
    BY <1>a, <1>3, Distinct DEF TypeOK, WavePhase, TaskPc, WaveResult,
         CallPc, InFlight, IndexerPc, Diagnostics, Enqueue, ActiveWaves,
         waveVars, JoinPending, JoinWave, Joinable
  <2>2. SlotsInv'
    BY <1>a, <1>3, Distinct DEF SlotsInv, Joinable, Enqueue, ActiveWaves,
         waveVars, JoinPending, JoinWave, TypeOK, PhaseInv, WaitersInv,
         Queued
  <2>3. PhaseInv'
    BY <1>a, <1>3, Distinct DEF PhaseInv, Enqueue, ActiveWaves, waveVars,
         JoinPending, JoinWave, Joinable, TypeOK, SlotsInv, WaitersInv,
         Queued
  <2>4. WaitersInv'
    BY <1>a, <1>3, Distinct DEF WaitersInv, Queued, Enqueue, ActiveWaves,
         waveVars, JoinPending, JoinWave, Joinable, TypeOK, SlotsInv
  <2>5. LockInv'
    BY <1>a, <1>3, Distinct DEF LockInv, HoldsOperation, Enqueue,
         ActiveWaves, waveVars, JoinPending, JoinWave, Joinable, TypeOK,
         SlotsInv
  <2>6. ScanInv'
    BY <1>a, <1>3, Distinct DEF ScanInv, Enqueue, ActiveWaves, waveVars,
         JoinPending, JoinWave, Joinable, TypeOK, VersionInv, LockInv,
         HoldsOperation, PhaseInv, SlotsInv
  <2>7. OutcomeInv'
    BY <1>a, <1>3, Distinct DEF OutcomeInv, Enqueue, ActiveWaves, waveVars,
         JoinPending, JoinWave, Joinable, TypeOK, PhaseInv, SlotsInv,
         ScanInv, WaitersInv, Queued
  <2>8. CountInv'
    BY <1>a, <1>3, Distinct DEF CountInv, WaveAccounting, ActiveWaves,
         Diagnostics, Enqueue, waveVars, NoWave, JoinPending, JoinWave,
         Joinable, TypeOK, SlotsInv
  <2>f. VersionInv'
    BY <1>a DEF VersionInv, Enqueue, waveVars
  <2>q. QED  BY <2>1, <2>2, <2>3, <2>4, <2>5, <2>6, <2>7, <2>8, <2>f DEF IInv
<1>4. CASE StartPending(r)
  <2>1. TypeOK'
    BY <1>a, <1>4, Distinct, NextId DEF TypeOK, WavePhase, TaskPc,
         WaveResult, CallPc, InFlight, IndexerPc, Diagnostics, Enqueue,
         ActiveWaves, waveVars, StartPending, NewWave, Joinable
  <2>2. SlotsInv'
    BY <1>a, <1>4, Distinct DEF SlotsInv, Joinable, Enqueue, ActiveWaves,
         waveVars, StartPending, NewWave, TypeOK, PhaseInv, WaitersInv,
         Queued
  <2>3. PhaseInv'
    BY <1>a, <1>4, Distinct DEF PhaseInv, Enqueue, ActiveWaves, waveVars,
         StartPending, NewWave, Joinable, TypeOK, SlotsInv, WaitersInv,
         Queued
  <2>4. WaitersInv'
    BY <1>a, <1>4, Distinct DEF WaitersInv, Queued, Enqueue, ActiveWaves,
         waveVars, StartPending, NewWave, Joinable, TypeOK, SlotsInv
  <2>5. LockInv'
    BY <1>a, <1>4, Distinct DEF LockInv, HoldsOperation, Enqueue,
         ActiveWaves, waveVars, StartPending, NewWave, Joinable, TypeOK,
         SlotsInv
  <2>6. ScanInv'
    BY <1>a, <1>4, Distinct DEF ScanInv, Enqueue, ActiveWaves, waveVars,
         StartPending, NewWave, Joinable, TypeOK, VersionInv, LockInv,
         HoldsOperation, PhaseInv, SlotsInv
  <2>7. OutcomeInv'
    BY <1>a, <1>4, Distinct DEF OutcomeInv, Enqueue, ActiveWaves, waveVars,
         StartPending, NewWave, Joinable, TypeOK, PhaseInv, SlotsInv,
         ScanInv, WaitersInv, Queued
  <2>8. CountInv'
    BY <1>a, <1>4, Distinct DEF CountInv, WaveAccounting, ActiveWaves,
         Diagnostics, Enqueue, waveVars, NoWave, StartPending, NewWave,
         Joinable, TypeOK, SlotsInv
  <2>f. VersionInv'
    BY <1>a DEF VersionInv, Enqueue, waveVars
  <2>q. QED  BY <2>1, <2>2, <2>3, <2>4, <2>5, <2>6, <2>7, <2>8, <2>f DEF IInv
<1>q. QED  BY <1>1, <1>2, <1>3, <1>4 DEF Enqueue

\* A resolved oneshot is read.
LEMMA ReceiveInv ==
    ASSUME IInv, NEW r \in Requests, Receive(r)
    PROVE  IInv'
<1>a. /\ TypeOK /\ SlotsInv /\ PhaseInv /\ WaitersInv /\ LockInv
      /\ VersionInv /\ ScanInv /\ OutcomeInv /\ CountInv
  BY DEF IInv
<1>1. TypeOK'
  BY <1>a, Distinct DEF TypeOK, WavePhase, TaskPc, WaveResult, CallPc,
       InFlight, IndexerPc, Diagnostics, Receive, CallResult, waveVars
<1>2. WaitersInv'
  BY <1>a, Distinct DEF WaitersInv, Queued, Receive, CallResult, waveVars,
       TypeOK, SlotsInv, Joinable
<1>3. OutcomeInv'
  BY <1>a, Distinct DEF OutcomeInv, Receive, CallResult, waveVars, TypeOK,
       PhaseInv, SlotsInv, Joinable, ScanInv, WaitersInv, Queued
<1>f. SlotsInv' /\ PhaseInv' /\ LockInv' /\ VersionInv' /\ ScanInv' /\ CountInv'
  BY <1>a DEF SlotsInv, PhaseInv, LockInv, VersionInv, ScanInv, CountInv,
       Joinable, HoldsOperation, WaveAccounting, ActiveWaves, Diagnostics,
       Receive, waveVars
<1>q. QED  BY <1>1, <1>2, <1>3, <1>f DEF IInv

\* The caller's token fires; the wave does not know yet.
LEMMA GiveUpInv ==
    ASSUME IInv, NEW r \in Requests, GiveUp(r)
    PROVE  IInv'
<1>a. /\ TypeOK /\ SlotsInv /\ PhaseInv /\ WaitersInv /\ LockInv
      /\ VersionInv /\ ScanInv /\ OutcomeInv /\ CountInv
  BY DEF IInv
<1>1. TypeOK'
  BY <1>a, Distinct DEF TypeOK, WavePhase, TaskPc, WaveResult, CallPc,
       InFlight, IndexerPc, Diagnostics, GiveUp, waveVars
<1>2. WaitersInv'
  BY <1>a, Distinct DEF WaitersInv, Queued, GiveUp, waveVars, TypeOK,
       SlotsInv, Joinable
<1>3. OutcomeInv'
  BY <1>a, Distinct DEF OutcomeInv, GiveUp, waveVars, TypeOK, PhaseInv,
       SlotsInv, Joinable, ScanInv, WaitersInv, Queued
<1>f. SlotsInv' /\ PhaseInv' /\ LockInv' /\ VersionInv' /\ ScanInv' /\ CountInv'
  BY <1>a DEF SlotsInv, PhaseInv, LockInv, VersionInv, ScanInv, CountInv,
       Joinable, HoldsOperation, WaveAccounting, ActiveWaves, Diagnostics,
       GiveUp, waveVars
<1>q. QED  BY <1>1, <1>2, <1>3, <1>f DEF IInv

\* The deadline elapses; the wave does not know yet.
LEMMA DeadlineInv ==
    ASSUME IInv, NEW r \in Requests, Deadline(r)
    PROVE  IInv'
<1>a. /\ TypeOK /\ SlotsInv /\ PhaseInv /\ WaitersInv /\ LockInv
      /\ VersionInv /\ ScanInv /\ OutcomeInv /\ CountInv
  BY DEF IInv
<1>1. TypeOK'
  BY <1>a, Distinct DEF TypeOK, WavePhase, TaskPc, WaveResult, CallPc,
       InFlight, IndexerPc, Diagnostics, Deadline, waveVars
<1>2. WaitersInv'
  BY <1>a, Distinct DEF WaitersInv, Queued, Deadline, waveVars, TypeOK,
       SlotsInv, Joinable
<1>3. OutcomeInv'
  BY <1>a, Distinct DEF OutcomeInv, Deadline, waveVars, TypeOK, PhaseInv,
       SlotsInv, Joinable, ScanInv, WaitersInv, Queued
<1>f. SlotsInv' /\ PhaseInv' /\ LockInv' /\ VersionInv' /\ ScanInv' /\ CountInv'
  BY <1>a DEF SlotsInv, PhaseInv, LockInv, VersionInv, ScanInv, CountInv,
       Joinable, HoldsOperation, WaveAccounting, ActiveWaves, Diagnostics,
       Deadline, waveVars
<1>q. QED  BY <1>1, <1>2, <1>3, <1>f DEF IInv

\* exit_waiter, one case per way a caller can leave.
LEMMA ExitWaiterInv ==
    ASSUME IInv, NEW r \in Requests, ExitWaiter(r)
    PROVE  IInv'
<1>a. /\ TypeOK /\ SlotsInv /\ PhaseInv /\ WaitersInv /\ LockInv
      /\ VersionInv /\ ScanInv /\ OutcomeInv /\ CountInv
  BY DEF IInv
<1>1. CASE LeaveCurrent(r)
  <2>1. TypeOK'
    BY <1>a, <1>1, Distinct DEF TypeOK, WavePhase, TaskPc, WaveResult,
         CallPc, InFlight, IndexerPc, Diagnostics, ExitWaiter, ActiveWaves,
         waveVars, LeaveCurrent, Lists
  <2>2. SlotsInv'
    BY <1>a, <1>1, Distinct DEF SlotsInv, Joinable, ExitWaiter, ActiveWaves,
         waveVars, LeaveCurrent, Lists, TypeOK, PhaseInv, WaitersInv, Queued
  <2>3. PhaseInv'
    BY <1>a, <1>1, Distinct DEF PhaseInv, ExitWaiter, ActiveWaves, waveVars,
         LeaveCurrent, Lists, TypeOK, SlotsInv, Joinable, WaitersInv, Queued
  <2>4. WaitersInv'
    BY <1>a, <1>1, Distinct DEF WaitersInv, Queued, ExitWaiter, ActiveWaves,
         waveVars, LeaveCurrent, Lists, TypeOK, SlotsInv, Joinable
  <2>5. ScanInv'
    BY <1>a, <1>1, Distinct DEF ScanInv, ExitWaiter, ActiveWaves, waveVars,
         LeaveCurrent, Lists, TypeOK
  <2>6. OutcomeInv'
    BY <1>a, <1>1, Distinct DEF OutcomeInv, ExitWaiter, ActiveWaves,
         waveVars, LeaveCurrent, Lists, TypeOK
  <2>7. CountInv'
    BY <1>a, <1>1, Distinct DEF CountInv, WaveAccounting, ActiveWaves,
         Diagnostics, ExitWaiter, waveVars, NoWave, LeaveCurrent, Lists,
         TypeOK, SlotsInv, Joinable
  <2>f. LockInv' /\ VersionInv'
    BY <1>a DEF LockInv, VersionInv, HoldsOperation, ExitWaiter, waveVars
  <2>q. QED  BY <2>1, <2>2, <2>3, <2>4, <2>5, <2>6, <2>7, <2>f DEF IInv
<1>2. CASE LeavePending(r) /\ waiters[pending] = {r}
  <2>1. TypeOK'
    <3>1. diag' = [diag EXCEPT
             !.cancelled_before_start = diag.cancelled_before_start + 1,
             !.active_waves = ActiveWaves(current, NoWave)]
      BY <1>2 DEF LeavePending, DropPending
    <3>2. ActiveWaves(current, NoWave) \in Nat
      BY DEF ActiveWaves
    <3>3. diag' \in Diagnostics
      <4>1. diag.cancelled_before_start + 1 \in Nat
        BY <1>a DEF TypeOK, Diagnostics
      <4>q. QED  BY <1>a, <3>1, <3>2, <4>1, SetCounters DEF TypeOK
    <3>q. QED
      BY <1>a, <1>2, <3>3 DEF TypeOK, ExitWaiter, LeavePending, DropPending,
         CallPc, InFlight
  <2>2. SlotsInv'
    BY <1>a, <1>2, Distinct DEF SlotsInv, Joinable, ExitWaiter, ActiveWaves,
         waveVars, LeavePending, Lists, DropPending, TypeOK, PhaseInv,
         WaitersInv, Queued
  <2>3. PhaseInv'
    BY <1>a, <1>2, Distinct DEF PhaseInv, ExitWaiter, ActiveWaves, waveVars,
         LeavePending, Lists, DropPending, TypeOK, SlotsInv, Joinable,
         WaitersInv, Queued
  <2>4. WaitersInv'
    BY <1>a, <1>2, Distinct DEF WaitersInv, Queued, ExitWaiter, ActiveWaves,
         waveVars, LeavePending, Lists, DropPending, TypeOK, SlotsInv,
         Joinable
  <2>5. ScanInv'
    BY <1>a, <1>2, Distinct DEF ScanInv, ExitWaiter, ActiveWaves, waveVars,
         LeavePending, Lists, DropPending, TypeOK
  <2>6. OutcomeInv'
    BY <1>a, <1>2, Distinct DEF OutcomeInv, ExitWaiter, ActiveWaves,
         waveVars, LeavePending, Lists, DropPending, TypeOK
  <2>7. CountInv'
    <3>1. diag' = [diag EXCEPT
             !.cancelled_before_start = diag.cancelled_before_start + 1,
             !.active_waves = ActiveWaves(current, NoWave)]
      BY <1>2 DEF LeavePending, DropPending
    <3>2. /\ diag'.completed = diag.completed
          /\ diag'.failed = diag.failed
          /\ diag'.cancelled_before_start = diag.cancelled_before_start + 1
          /\ diag'.active_waves = ActiveWaves(current, NoWave)
      BY <1>a, <3>1 DEF TypeOK, Diagnostics
    <3>3. diag.active_waves = ActiveWaves(current, NoWave) + 1
      BY <1>a, <1>2 DEF CountInv, ActiveWaves, LeavePending, Lists
    <3>4. ActiveWaves(current, NoWave) \in Nat
      BY DEF ActiveWaves
    <3>5. pending' = NoWave /\ UNCHANGED <<current, next_wave_id>>
      BY <1>2 DEF ExitWaiter, LeavePending, DropPending
    <3>q. QED
      BY <1>a, <3>2, <3>3, <3>4, <3>5 DEF CountInv, WaveAccounting, TypeOK,
         Diagnostics
  <2>f. LockInv' /\ VersionInv'
    BY <1>a DEF LockInv, VersionInv, HoldsOperation, ExitWaiter, waveVars
  <2>q. QED  BY <2>1, <2>2, <2>3, <2>4, <2>5, <2>6, <2>7, <2>f DEF IInv
<1>3. CASE LeavePending(r) /\ waiters[pending] # {r}
  <2>1. TypeOK'
    BY <1>a, <1>3, Distinct DEF TypeOK, WavePhase, TaskPc, WaveResult,
         CallPc, InFlight, IndexerPc, Diagnostics, ExitWaiter, ActiveWaves,
         waveVars, LeavePending, Lists
  <2>2. SlotsInv'
    BY <1>a, <1>3, Distinct DEF SlotsInv, Joinable, ExitWaiter, ActiveWaves,
         waveVars, LeavePending, Lists, TypeOK, PhaseInv, WaitersInv, Queued
  <2>3. PhaseInv'
    BY <1>a, <1>3, Distinct DEF PhaseInv, ExitWaiter, ActiveWaves, waveVars,
         LeavePending, Lists, TypeOK, SlotsInv, Joinable, WaitersInv, Queued
  <2>4. WaitersInv'
    BY <1>a, <1>3, Distinct DEF WaitersInv, Queued, ExitWaiter, ActiveWaves,
         waveVars, LeavePending, Lists, TypeOK, SlotsInv, Joinable
  <2>5. ScanInv'
    BY <1>a, <1>3, Distinct DEF ScanInv, ExitWaiter, ActiveWaves, waveVars,
         LeavePending, Lists, TypeOK
  <2>6. OutcomeInv'
    BY <1>a, <1>3, Distinct DEF OutcomeInv, ExitWaiter, ActiveWaves,
         waveVars, LeavePending, Lists, TypeOK
  <2>7. CountInv'
    BY <1>a, <1>3, Distinct DEF CountInv, WaveAccounting, ActiveWaves,
         Diagnostics, ExitWaiter, waveVars, NoWave, LeavePending, Lists,
         TypeOK, SlotsInv, Joinable
  <2>f. LockInv' /\ VersionInv'
    BY <1>a DEF LockInv, VersionInv, HoldsOperation, ExitWaiter, waveVars
  <2>q. QED  BY <2>1, <2>2, <2>3, <2>4, <2>5, <2>6, <2>7, <2>f DEF IInv
<1>4. CASE AlreadyOut(r)
  <2>1. TypeOK'
    BY <1>a, <1>4, Distinct DEF TypeOK, WavePhase, TaskPc, WaveResult,
         CallPc, InFlight, IndexerPc, Diagnostics, ExitWaiter, ActiveWaves,
         waveVars, AlreadyOut, Lists
  <2>2. SlotsInv'
    BY <1>a, <1>4, Distinct DEF SlotsInv, Joinable, ExitWaiter, ActiveWaves,
         waveVars, AlreadyOut, Lists, TypeOK, PhaseInv, WaitersInv, Queued
  <2>3. PhaseInv'
    BY <1>a, <1>4, Distinct DEF PhaseInv, ExitWaiter, ActiveWaves, waveVars,
         AlreadyOut, Lists, TypeOK, SlotsInv, Joinable, WaitersInv, Queued
  <2>4. WaitersInv'
    BY <1>a, <1>4, Distinct DEF WaitersInv, Queued, ExitWaiter, ActiveWaves,
         waveVars, AlreadyOut, Lists, TypeOK, SlotsInv, Joinable
  <2>5. ScanInv'
    BY <1>a, <1>4, Distinct DEF ScanInv, ExitWaiter, ActiveWaves, waveVars,
         AlreadyOut, Lists, TypeOK
  <2>6. OutcomeInv'
    BY <1>a, <1>4, Distinct DEF OutcomeInv, ExitWaiter, ActiveWaves,
         waveVars, AlreadyOut, Lists, TypeOK
  <2>7. CountInv'
    BY <1>a, <1>4, Distinct DEF CountInv, WaveAccounting, ActiveWaves,
         Diagnostics, ExitWaiter, waveVars, NoWave, AlreadyOut, Lists,
         TypeOK, SlotsInv, Joinable
  <2>f. LockInv' /\ VersionInv'
    BY <1>a DEF LockInv, VersionInv, HoldsOperation, ExitWaiter, waveVars
  <2>q. QED  BY <2>1, <2>2, <2>3, <2>4, <2>5, <2>6, <2>7, <2>f DEF IInv
<1>q. QED  BY <1>1, <1>2, <1>3, <1>4 DEF ExitWaiter

\* The task takes the indexing admission or sees its cancellation.
LEMMA TaskAdmissionInv ==
    ASSUME IInv, NEW w \in WaveId, TaskAdmission(w)
    PROVE  IInv'
<1>a. /\ TypeOK /\ SlotsInv /\ PhaseInv /\ WaitersInv /\ LockInv
      /\ VersionInv /\ ScanInv /\ OutcomeInv /\ CountInv
  BY DEF IInv
<1>1. TypeOK'
  BY <1>a, Distinct DEF TypeOK, WavePhase, TaskPc, WaveResult, CallPc,
       InFlight, IndexerPc, Diagnostics, TaskAdmission, Abandon, waveVars
<1>2. SlotsInv'
  BY <1>a, Distinct DEF SlotsInv, Joinable, TaskAdmission, Abandon, waveVars,
       TypeOK, PhaseInv, WaitersInv, Queued
<1>3. PhaseInv'
  BY <1>a, Distinct DEF PhaseInv, TaskAdmission, Abandon, waveVars, TypeOK,
       SlotsInv, Joinable, WaitersInv, Queued
<1>4. LockInv'
  BY <1>a, Distinct DEF LockInv, HoldsOperation, TaskAdmission, Abandon,
       waveVars, TypeOK, SlotsInv, Joinable
<1>5. ScanInv'
  BY <1>a, Distinct DEF ScanInv, TaskAdmission, Abandon, waveVars, TypeOK
<1>6. OutcomeInv'
  BY <1>a, Distinct DEF OutcomeInv, TaskAdmission, Abandon, waveVars, TypeOK,
       ScanInv
<1>f. WaitersInv' /\ VersionInv' /\ CountInv'
  BY <1>a DEF WaitersInv, VersionInv, CountInv, Queued, WaveAccounting,
       ActiveWaves, Diagnostics, TaskAdmission, waveVars
<1>q. QED  BY <1>1, <1>2, <1>3, <1>4, <1>5, <1>6, <1>f DEF IInv

\* The lock loop looks at the token.
LEMMA TaskCheckInv ==
    ASSUME IInv, NEW w \in WaveId, TaskCheck(w)
    PROVE  IInv'
<1>a. /\ TypeOK /\ SlotsInv /\ PhaseInv /\ WaitersInv /\ LockInv
      /\ VersionInv /\ ScanInv /\ OutcomeInv /\ CountInv
  BY DEF IInv
<1>1. TypeOK'
  BY <1>a, Distinct DEF TypeOK, WavePhase, TaskPc, WaveResult, CallPc,
       InFlight, IndexerPc, Diagnostics, TaskCheck, Abandon, waveVars
<1>2. SlotsInv'
  BY <1>a, Distinct DEF SlotsInv, Joinable, TaskCheck, Abandon, waveVars,
       TypeOK, PhaseInv, WaitersInv, Queued
<1>3. PhaseInv'
  BY <1>a, Distinct DEF PhaseInv, TaskCheck, Abandon, waveVars, TypeOK,
       SlotsInv, Joinable, WaitersInv, Queued
<1>4. LockInv'
  BY <1>a, Distinct DEF LockInv, HoldsOperation, TaskCheck, Abandon,
       waveVars, TypeOK, SlotsInv, Joinable
<1>5. ScanInv'
  BY <1>a, Distinct DEF ScanInv, TaskCheck, Abandon, waveVars, TypeOK
<1>6. OutcomeInv'
  BY <1>a, Distinct DEF OutcomeInv, TaskCheck, Abandon, waveVars, TypeOK,
       ScanInv
<1>f. WaitersInv' /\ VersionInv' /\ CountInv'
  BY <1>a DEF WaitersInv, VersionInv, CountInv, Queued, WaveAccounting,
       ActiveWaves, Diagnostics, TaskCheck, waveVars
<1>q. QED  BY <1>1, <1>2, <1>3, <1>4, <1>5, <1>6, <1>f DEF IInv

\* The lock loop tries the lock file.
LEMMA TaskTryInv ==
    ASSUME IInv, NEW w \in WaveId, TaskTry(w)
    PROVE  IInv'
<1>a. /\ TypeOK /\ SlotsInv /\ PhaseInv /\ WaitersInv /\ LockInv
      /\ VersionInv /\ ScanInv /\ OutcomeInv /\ CountInv
  BY DEF IInv
<1>1. TypeOK'
  BY <1>a, Distinct DEF TypeOK, WavePhase, TaskPc, WaveResult, CallPc,
       InFlight, IndexerPc, Diagnostics, TaskTry, Abandon, waveVars
<1>2. SlotsInv'
  BY <1>a, Distinct DEF SlotsInv, Joinable, TaskTry, Abandon, waveVars,
       TypeOK, PhaseInv, WaitersInv, Queued
<1>3. PhaseInv'
  BY <1>a, Distinct DEF PhaseInv, TaskTry, Abandon, waveVars, TypeOK,
       SlotsInv, Joinable, WaitersInv, Queued
<1>4. LockInv'
  BY <1>a, Distinct DEF LockInv, HoldsOperation, TaskTry, Abandon, waveVars,
       TypeOK, SlotsInv, Joinable
<1>5. ScanInv'
  BY <1>a, Distinct DEF ScanInv, TaskTry, Abandon, waveVars, TypeOK
<1>6. OutcomeInv'
  BY <1>a, Distinct DEF OutcomeInv, TaskTry, Abandon, waveVars, TypeOK,
       ScanInv
<1>f. WaitersInv' /\ VersionInv' /\ CountInv'
  BY <1>a DEF WaitersInv, VersionInv, CountInv, Queued, WaveAccounting,
       ActiveWaves, Diagnostics, TaskTry, waveVars
<1>q. QED  BY <1>1, <1>2, <1>3, <1>4, <1>5, <1>6, <1>f DEF IInv

\* mark_running closes the wave, or gives everything back.
LEMMA MarkRunningInv ==
    ASSUME IInv, NEW w \in WaveId, MarkRunning(w)
    PROVE  IInv'
<1>a. /\ TypeOK /\ SlotsInv /\ PhaseInv /\ WaitersInv /\ LockInv
      /\ VersionInv /\ ScanInv /\ OutcomeInv /\ CountInv
  BY DEF IInv
<1>1. TypeOK'
  BY <1>a, Distinct DEF TypeOK, WavePhase, TaskPc, WaveResult, CallPc,
       InFlight, IndexerPc, Diagnostics, MarkRunning, Abandon, Joinable,
       waveVars
<1>2. SlotsInv'
  BY <1>a, Distinct DEF SlotsInv, Joinable, MarkRunning, Abandon, waveVars,
       TypeOK, PhaseInv, WaitersInv, Queued
<1>3. PhaseInv'
  BY <1>a, Distinct DEF PhaseInv, MarkRunning, Abandon, Joinable, waveVars,
       TypeOK, SlotsInv, WaitersInv, Queued
<1>4. LockInv'
  BY <1>a, Distinct DEF LockInv, HoldsOperation, MarkRunning, Abandon,
       Joinable, waveVars, TypeOK, SlotsInv
<1>5. ScanInv'
  BY <1>a, Distinct DEF ScanInv, MarkRunning, Abandon, Joinable, waveVars,
       TypeOK, VersionInv, LockInv, HoldsOperation, PhaseInv, SlotsInv
<1>6. OutcomeInv'
  BY <1>a, Distinct DEF OutcomeInv, MarkRunning, Abandon, Joinable, waveVars,
       TypeOK, PhaseInv, SlotsInv, ScanInv, WaitersInv, Queued
<1>f. WaitersInv' /\ VersionInv' /\ CountInv'
  BY <1>a DEF WaitersInv, VersionInv, CountInv, Queued, WaveAccounting,
       ActiveWaves, Diagnostics, MarkRunning, waveVars
<1>q. QED  BY <1>1, <1>2, <1>3, <1>4, <1>5, <1>6, <1>f DEF IInv

\* Discovery starts: what it sees is at least what every caller asked.
LEMMA ScanStartInv ==
    ASSUME IInv, NEW w \in WaveId, ScanStart(w)
    PROVE  IInv'
<1>a. /\ TypeOK /\ SlotsInv /\ PhaseInv /\ WaitersInv /\ LockInv
      /\ VersionInv /\ ScanInv /\ OutcomeInv /\ CountInv
  BY DEF IInv
<1>1. TypeOK'
  BY <1>a, Distinct DEF TypeOK, WavePhase, TaskPc, WaveResult, CallPc,
       InFlight, IndexerPc, Diagnostics, ScanStart, waveVars
<1>2. SlotsInv'
  BY <1>a, Distinct DEF SlotsInv, Joinable, ScanStart, waveVars, TypeOK,
       PhaseInv, WaitersInv, Queued
<1>3. PhaseInv'
  BY <1>a, Distinct DEF PhaseInv, ScanStart, waveVars, TypeOK, SlotsInv,
       Joinable, WaitersInv, Queued
<1>4. LockInv'
  BY <1>a, Distinct DEF LockInv, HoldsOperation, ScanStart, waveVars, TypeOK,
       SlotsInv, Joinable
<1>5. VersionInv'
  BY <1>a, Distinct DEF VersionInv, ScanStart, waveVars, TypeOK
<1>6. ScanInv'
  BY <1>a, Distinct DEF ScanInv, ScanStart, waveVars, TypeOK, VersionInv,
       LockInv, HoldsOperation, PhaseInv, SlotsInv, Joinable
<1>f. WaitersInv' /\ OutcomeInv' /\ CountInv'
  BY <1>a DEF WaitersInv, OutcomeInv, CountInv, Queued, WaveAccounting,
       ActiveWaves, Diagnostics, ScanStart, waveVars
<1>q. QED  BY <1>1, <1>2, <1>3, <1>4, <1>5, <1>6, <1>f DEF IInv

\* Publication, or a failed scan.
LEMMA ScanEndInv ==
    ASSUME IInv, NEW w \in WaveId, ScanEnd(w)
    PROVE  IInv'
<1>a. /\ TypeOK /\ SlotsInv /\ PhaseInv /\ WaitersInv /\ LockInv
      /\ VersionInv /\ ScanInv /\ OutcomeInv /\ CountInv
  BY DEF IInv
<1>1. TypeOK'
  BY <1>a, Distinct DEF TypeOK, WavePhase, TaskPc, WaveResult, CallPc,
       InFlight, IndexerPc, Diagnostics, ScanEnd, waveVars
<1>2. SlotsInv'
  BY <1>a, Distinct DEF SlotsInv, Joinable, ScanEnd, waveVars, TypeOK,
       PhaseInv, WaitersInv, Queued
<1>3. PhaseInv'
  BY <1>a, Distinct DEF PhaseInv, ScanEnd, waveVars, TypeOK, SlotsInv,
       Joinable, WaitersInv, Queued
<1>4. LockInv'
  BY <1>a, Distinct DEF LockInv, HoldsOperation, ScanEnd, waveVars, TypeOK,
       SlotsInv, Joinable
<1>5. VersionInv'
  BY <1>a, Distinct DEF VersionInv, ScanEnd, waveVars, TypeOK
<1>6. ScanInv'
  BY <1>a, Distinct DEF ScanInv, ScanEnd, waveVars, TypeOK, LockInv,
       HoldsOperation
<1>7. OutcomeInv'
  BY <1>a, Distinct DEF OutcomeInv, ScanEnd, waveVars, TypeOK, PhaseInv,
       SlotsInv, Joinable, ScanInv, WaitersInv, Queued
<1>f. WaitersInv' /\ CountInv'
  BY <1>a DEF WaitersInv, CountInv, Queued, WaveAccounting, ActiveWaves,
       Diagnostics, ScanEnd, waveVars
<1>q. QED  BY <1>1, <1>2, <1>3, <1>4, <1>5, <1>6, <1>7, <1>f DEF IInv

\* operation.release().
LEMMA ReleaseInv ==
    ASSUME IInv, NEW w \in WaveId, Release(w)
    PROVE  IInv'
<1>a. /\ TypeOK /\ SlotsInv /\ PhaseInv /\ WaitersInv /\ LockInv
      /\ VersionInv /\ ScanInv /\ OutcomeInv /\ CountInv
  BY DEF IInv
<1>1. TypeOK'
  BY <1>a, Distinct DEF TypeOK, WavePhase, TaskPc, WaveResult, CallPc,
       InFlight, IndexerPc, Diagnostics, Release, Abandon, waveVars
<1>2. SlotsInv'
  BY <1>a, Distinct DEF SlotsInv, Joinable, Release, Abandon, waveVars,
       TypeOK, PhaseInv, WaitersInv, Queued
<1>3. PhaseInv'
  BY <1>a, Distinct DEF PhaseInv, Release, Abandon, waveVars, TypeOK,
       SlotsInv, Joinable, WaitersInv, Queued
<1>4. LockInv'
  BY <1>a, Distinct DEF LockInv, HoldsOperation, Release, Abandon, waveVars,
       TypeOK, SlotsInv, Joinable
<1>5. ScanInv'
  BY <1>a, Distinct DEF ScanInv, Release, Abandon, waveVars, TypeOK
<1>6. OutcomeInv'
  BY <1>a, Distinct DEF OutcomeInv, Release, Abandon, waveVars, TypeOK,
       ScanInv
<1>f. WaitersInv' /\ VersionInv' /\ CountInv'
  BY <1>a DEF WaitersInv, VersionInv, CountInv, Queued, WaveAccounting,
       ActiveWaves, Diagnostics, Release, waveVars
<1>q. QED  BY <1>1, <1>2, <1>3, <1>4, <1>5, <1>6, <1>f DEF IInv

\* finish_wave, with and without a pending wave to promote.
LEMMA FinishWaveInv ==
    ASSUME IInv, NEW w \in WaveId, FinishWave(w)
    PROVE  IInv'
<1>a. /\ TypeOK /\ SlotsInv /\ PhaseInv /\ WaitersInv /\ LockInv
      /\ VersionInv /\ ScanInv /\ OutcomeInv /\ CountInv
  BY DEF IInv
<1>1. CASE pending = NoWave
  <2>1. TypeOK'
    BY <1>a, <1>1, Distinct DEF TypeOK, WavePhase, TaskPc, WaveResult,
         CallPc, InFlight, IndexerPc, Diagnostics, FinishWave,
         FinishedCounter, Promote, ActiveWaves, waveVars
  <2>2. SlotsInv'
    BY <1>a, <1>1, Distinct DEF SlotsInv, Joinable, FinishWave,
         FinishedCounter, Promote, ActiveWaves, waveVars, TypeOK, PhaseInv,
         WaitersInv, Queued
  <2>3. PhaseInv'
    BY <1>a, <1>1, Distinct DEF PhaseInv, FinishWave, FinishedCounter,
         Promote, ActiveWaves, waveVars, TypeOK, SlotsInv, Joinable,
         WaitersInv, Queued
  <2>4. WaitersInv'
    <3>1. /\ waiters' = [waiters EXCEPT ![w] = {}]
          /\ current = w /\ current' = pending /\ pending' = NoWave
          /\ \A r \in Requests : outcome'[r] =
                IF r \in waiters[w] THEN result[w] ELSE outcome[r]
          /\ result[w] # "none"
          /\ call' = call
      BY <1>a, Distinct DEF FinishWave, SlotsInv, TypeOK, PhaseInv
    <3>2. \A v \in WaveId : v # w => waiters'[v] = waiters[v]
      BY <1>a, <3>1 DEF TypeOK
    <3>3. waiters'[w] = {}
      BY <1>a, <3>1 DEF TypeOK
    <3>4. \A v \in WaveId : waiters'[v] # {} => v \in {current', pending'}
      BY <1>a, <3>1, <3>2, <3>3, Distinct DEF WaitersInv
    <3>5. \A v \in WaveId : \A r \in waiters'[v] :
             /\ r \in Requests
             /\ v # w
             /\ call[r] \in Queued
             /\ r \notin waiters[w]
             /\ outcome[r] = "none"
             /\ \A u \in WaveId : r \in waiters'[u] => u = v
      BY <1>a, <3>1, <3>2, <3>3 DEF WaitersInv, TypeOK
    <3>6. \A r \in Requests : call'[r] \in Queued /\ outcome'[r] = "none" =>
             \E v \in WaveId : r \in waiters'[v]
      BY <1>a, <3>1, <3>2, <3>3 DEF WaitersInv
    <3>7. \A r \in Requests : call'[r] \in {"idle", "admitted"} =>
             outcome'[r] = "none"
      BY <1>a, <3>1 DEF WaitersInv, Queued
    <3>q. QED  BY <3>1, <3>4, <3>5, <3>6, <3>7 DEF WaitersInv
  <2>5. LockInv'
    BY <1>a, <1>1, Distinct DEF LockInv, HoldsOperation, FinishWave,
         FinishedCounter, Promote, ActiveWaves, waveVars, TypeOK, SlotsInv,
         Joinable
  <2>6. VersionInv'
    BY <1>a, <1>1, Distinct DEF VersionInv, FinishWave, FinishedCounter,
         Promote, ActiveWaves, waveVars, TypeOK
  <2>7. ScanInv'
    BY <1>a, <1>1, Distinct DEF ScanInv, FinishWave, FinishedCounter,
         Promote, ActiveWaves, waveVars, TypeOK, VersionInv, LockInv,
         HoldsOperation, PhaseInv, SlotsInv, Joinable
  <2>8. OutcomeInv'
    BY <1>a, <1>1, Distinct DEF OutcomeInv, FinishWave, FinishedCounter,
         Promote, ActiveWaves, waveVars, TypeOK, PhaseInv, SlotsInv,
         Joinable, ScanInv, WaitersInv, Queued
  <2>9. CountInv'
    BY <1>a, <1>1, Distinct DEF CountInv, WaveAccounting, ActiveWaves,
         Diagnostics, FinishWave, FinishedCounter, Promote, waveVars, NoWave,
         TypeOK, SlotsInv, Joinable
  <2>q. QED  BY <2>1, <2>2, <2>3, <2>4, <2>5, <2>6, <2>7, <2>8, <2>9 DEF IInv
<1>2. CASE pending # NoWave
  <2>1. TypeOK'
    BY <1>a, <1>2, Distinct, SMTT(30) DEF TypeOK, WavePhase, TaskPc, WaveResult,
         CallPc, InFlight, IndexerPc, Diagnostics, FinishWave,
         FinishedCounter, Promote, ActiveWaves, waveVars
  <2>2. SlotsInv'
    BY <1>a, <1>2, Distinct DEF SlotsInv, Joinable, FinishWave,
         FinishedCounter, Promote, ActiveWaves, waveVars, TypeOK, PhaseInv,
         WaitersInv, Queued
  <2>3. PhaseInv'
    BY <1>a, <1>2, Distinct DEF PhaseInv, FinishWave, FinishedCounter,
         Promote, ActiveWaves, waveVars, TypeOK, SlotsInv, Joinable,
         WaitersInv, Queued
  <2>4. WaitersInv'
    <3>1. /\ waiters' = [waiters EXCEPT ![w] = {}]
          /\ current = w /\ current' = pending /\ pending' = NoWave
          /\ \A r \in Requests : outcome'[r] =
                IF r \in waiters[w] THEN result[w] ELSE outcome[r]
          /\ result[w] # "none"
          /\ call' = call
      BY <1>a, Distinct DEF FinishWave, SlotsInv, TypeOK, PhaseInv
    <3>2. \A v \in WaveId : v # w => waiters'[v] = waiters[v]
      BY <1>a, <3>1 DEF TypeOK
    <3>3. waiters'[w] = {}
      BY <1>a, <3>1 DEF TypeOK
    <3>4. \A v \in WaveId : waiters'[v] # {} => v \in {current', pending'}
      BY <1>a, <3>1, <3>2, <3>3, Distinct DEF WaitersInv
    <3>5. \A v \in WaveId : \A r \in waiters'[v] :
             /\ r \in Requests
             /\ v # w
             /\ call[r] \in Queued
             /\ r \notin waiters[w]
             /\ outcome[r] = "none"
             /\ \A u \in WaveId : r \in waiters'[u] => u = v
      BY <1>a, <3>1, <3>2, <3>3 DEF WaitersInv, TypeOK
    <3>6. \A r \in Requests : call'[r] \in Queued /\ outcome'[r] = "none" =>
             \E v \in WaveId : r \in waiters'[v]
      BY <1>a, <3>1, <3>2, <3>3 DEF WaitersInv
    <3>7. \A r \in Requests : call'[r] \in {"idle", "admitted"} =>
             outcome'[r] = "none"
      BY <1>a, <3>1 DEF WaitersInv, Queued
    <3>q. QED  BY <3>1, <3>4, <3>5, <3>6, <3>7 DEF WaitersInv
  <2>5. LockInv'
    BY <1>a, <1>2, Distinct DEF LockInv, HoldsOperation, FinishWave,
         FinishedCounter, Promote, ActiveWaves, waveVars, TypeOK, SlotsInv,
         Joinable
  <2>6. VersionInv'
    BY <1>a, <1>2, Distinct DEF VersionInv, FinishWave, FinishedCounter,
         Promote, ActiveWaves, waveVars, TypeOK
  <2>7. ScanInv'
    BY <1>a, <1>2, Distinct DEF ScanInv, FinishWave, FinishedCounter,
         Promote, ActiveWaves, waveVars, TypeOK, VersionInv, LockInv,
         HoldsOperation, PhaseInv, SlotsInv, Joinable
  <2>8. OutcomeInv'
    BY <1>a, <1>2, Distinct DEF OutcomeInv, FinishWave, FinishedCounter,
         Promote, ActiveWaves, waveVars, TypeOK, PhaseInv, SlotsInv,
         Joinable, ScanInv, WaitersInv, Queued
  <2>9. CountInv'
    BY <1>a, <1>2, Distinct, SMTT(30) DEF CountInv, WaveAccounting, ActiveWaves,
         Diagnostics, FinishWave, FinishedCounter, Promote, waveVars, NoWave,
         TypeOK, SlotsInv, Joinable
  <2>q. QED  BY <2>1, <2>2, <2>3, <2>4, <2>5, <2>6, <2>7, <2>8, <2>9 DEF IInv
<1>q. QED  BY <1>1, <1>2 DEF FinishWave

\* A direct call is admitted.
LEMMA DirectAdmissionInv ==
    ASSUME IInv, NEW i \in Indexers, DirectAdmission(i)
    PROVE  IInv'
<1>a. /\ TypeOK /\ SlotsInv /\ PhaseInv /\ WaitersInv /\ LockInv
      /\ VersionInv /\ ScanInv /\ OutcomeInv /\ CountInv
  BY DEF IInv
<1>1. TypeOK'
  BY <1>a, Distinct DEF TypeOK, WavePhase, TaskPc, WaveResult, CallPc,
       InFlight, IndexerPc, Diagnostics, DirectAdmission, waveVars
<1>2. LockInv'
  BY <1>a, Distinct DEF LockInv, HoldsOperation, DirectAdmission, waveVars,
       TypeOK, SlotsInv, Joinable
<1>3. ScanInv'
  BY <1>a, Distinct DEF ScanInv, DirectAdmission, waveVars, TypeOK,
       VersionInv, LockInv, HoldsOperation, PhaseInv, SlotsInv, Joinable
<1>f. SlotsInv' /\ PhaseInv' /\ WaitersInv' /\ VersionInv' /\ OutcomeInv' /\ CountInv'
  BY <1>a DEF SlotsInv, PhaseInv, WaitersInv, VersionInv, OutcomeInv,
       CountInv, Joinable, Queued, WaveAccounting, ActiveWaves, Diagnostics,
       DirectAdmission, waveVars
<1>q. QED  BY <1>1, <1>2, <1>3, <1>f DEF IInv

\* A direct call takes the operation lock.
LEMMA DirectLockInv ==
    ASSUME IInv, NEW i \in Indexers, DirectLock(i)
    PROVE  IInv'
<1>a. /\ TypeOK /\ SlotsInv /\ PhaseInv /\ WaitersInv /\ LockInv
      /\ VersionInv /\ ScanInv /\ OutcomeInv /\ CountInv
  BY DEF IInv
<1>1. TypeOK'
  BY <1>a, Distinct DEF TypeOK, WavePhase, TaskPc, WaveResult, CallPc,
       InFlight, IndexerPc, Diagnostics, DirectLock, waveVars
<1>2. LockInv'
  BY <1>a, Distinct DEF LockInv, HoldsOperation, DirectLock, waveVars,
       TypeOK, SlotsInv, Joinable
<1>3. ScanInv'
  BY <1>a, Distinct DEF ScanInv, DirectLock, waveVars, TypeOK, VersionInv,
       LockInv, HoldsOperation, PhaseInv, SlotsInv, Joinable
<1>f. SlotsInv' /\ PhaseInv' /\ WaitersInv' /\ VersionInv' /\ OutcomeInv' /\ CountInv'
  BY <1>a DEF SlotsInv, PhaseInv, WaitersInv, VersionInv, OutcomeInv,
       CountInv, Joinable, Queued, WaveAccounting, ActiveWaves, Diagnostics,
       DirectLock, waveVars
<1>q. QED  BY <1>1, <1>2, <1>3, <1>f DEF IInv

\* A direct call starts its scan.
LEMMA DirectScanInv ==
    ASSUME IInv, NEW i \in Indexers, DirectScan(i)
    PROVE  IInv'
<1>a. /\ TypeOK /\ SlotsInv /\ PhaseInv /\ WaitersInv /\ LockInv
      /\ VersionInv /\ ScanInv /\ OutcomeInv /\ CountInv
  BY DEF IInv
<1>1. TypeOK'
  BY <1>a, Distinct DEF TypeOK, WavePhase, TaskPc, WaveResult, CallPc,
       InFlight, IndexerPc, Diagnostics, DirectScan, waveVars
<1>2. LockInv'
  BY <1>a, Distinct DEF LockInv, HoldsOperation, DirectScan, waveVars,
       TypeOK, SlotsInv, Joinable
<1>3. VersionInv'
  BY <1>a, Distinct DEF VersionInv, DirectScan, waveVars, TypeOK
<1>4. ScanInv'
  BY <1>a, Distinct DEF ScanInv, DirectScan, waveVars, TypeOK, VersionInv,
       LockInv, HoldsOperation, PhaseInv, SlotsInv, Joinable
<1>f. SlotsInv' /\ PhaseInv' /\ WaitersInv' /\ OutcomeInv' /\ CountInv'
  BY <1>a DEF SlotsInv, PhaseInv, WaitersInv, OutcomeInv, CountInv, Joinable,
       Queued, WaveAccounting, ActiveWaves, Diagnostics, DirectScan, waveVars
<1>q. QED  BY <1>1, <1>2, <1>3, <1>4, <1>f DEF IInv

\* A direct call publishes.
LEMMA DirectPublishInv ==
    ASSUME IInv, NEW i \in Indexers, DirectPublish(i)
    PROVE  IInv'
<1>a. /\ TypeOK /\ SlotsInv /\ PhaseInv /\ WaitersInv /\ LockInv
      /\ VersionInv /\ ScanInv /\ OutcomeInv /\ CountInv
  BY DEF IInv
<1>1. TypeOK'
  BY <1>a, Distinct DEF TypeOK, WavePhase, TaskPc, WaveResult, CallPc,
       InFlight, IndexerPc, Diagnostics, DirectPublish, waveVars
<1>2. LockInv'
  BY <1>a, Distinct DEF LockInv, HoldsOperation, DirectPublish, waveVars,
       TypeOK, SlotsInv, Joinable
<1>3. VersionInv'
  BY <1>a, Distinct DEF VersionInv, DirectPublish, waveVars, TypeOK
<1>4. ScanInv'
  BY <1>a, Distinct DEF ScanInv, DirectPublish, waveVars, TypeOK, LockInv,
       HoldsOperation
<1>5. OutcomeInv'
  BY <1>a, Distinct DEF OutcomeInv, DirectPublish, waveVars, TypeOK, ScanInv
<1>f. SlotsInv' /\ PhaseInv' /\ WaitersInv' /\ CountInv'
  BY <1>a DEF SlotsInv, PhaseInv, WaitersInv, CountInv, Joinable, Queued,
       WaveAccounting, ActiveWaves, Diagnostics, DirectPublish, waveVars
<1>q. QED  BY <1>1, <1>2, <1>3, <1>4, <1>5, <1>f DEF IInv

\* A direct call ends or its process dies.
LEMMA DirectEndInv ==
    ASSUME IInv, NEW i \in Indexers, DirectEnd(i)
    PROVE  IInv'
<1>a. /\ TypeOK /\ SlotsInv /\ PhaseInv /\ WaitersInv /\ LockInv
      /\ VersionInv /\ ScanInv /\ OutcomeInv /\ CountInv
  BY DEF IInv
<1>1. TypeOK'
  BY <1>a, Distinct DEF TypeOK, WavePhase, TaskPc, WaveResult, CallPc,
       InFlight, IndexerPc, Diagnostics, DirectEnd, waveVars
<1>2. LockInv'
  BY <1>a, Distinct DEF LockInv, HoldsOperation, DirectEnd, waveVars, TypeOK,
       SlotsInv, Joinable
<1>3. ScanInv'
  BY <1>a, Distinct DEF ScanInv, DirectEnd, waveVars, TypeOK, VersionInv,
       LockInv, HoldsOperation, PhaseInv, SlotsInv, Joinable
<1>f. SlotsInv' /\ PhaseInv' /\ WaitersInv' /\ VersionInv' /\ OutcomeInv' /\ CountInv'
  BY <1>a DEF SlotsInv, PhaseInv, WaitersInv, VersionInv, OutcomeInv,
       CountInv, Joinable, Queued, WaveAccounting, ActiveWaves, Diagnostics,
       DirectEnd, waveVars
<1>q. QED  BY <1>1, <1>2, <1>3, <1>f DEF IInv

\* Every step preserves the invariant.
LEMMA NextInv == IInv /\ [Next]_vars => IInv'
<1>. SUFFICES ASSUME IInv, [Next]_vars PROVE IInv'
  OBVIOUS
<1>1. CASE Edit
  BY <1>1, EditInv
<1>2. CASE \E r \in Requests :
              CallStep(r) \/ CancelBeforeEnqueue(r) \/ GiveUp(r) \/ Deadline(r)
  BY <1>2, AdmitInv, CancelBeforeEnqueueInv, EnqueueInv, ReceiveInv, GiveUpInv,
     DeadlineInv, ExitWaiterInv DEF CallStep
<1>3. CASE \E w \in WaveId : TaskStep(w)
  BY <1>3, TaskAdmissionInv, TaskCheckInv, TaskTryInv, MarkRunningInv,
     ScanStartInv, ScanEndInv, ReleaseInv, FinishWaveInv DEF TaskStep
<1>4. CASE \E i \in Indexers : DirectAdmission(i) \/ DirectStep(i)
  BY <1>4, DirectAdmissionInv, DirectLockInv, DirectScanInv, DirectPublishInv,
     DirectEndInv DEF DirectStep
<1>5. CASE UNCHANGED vars
  BY <1>5 DEF vars, waveVars, IInv, TypeOK, SlotsInv, PhaseInv, WaitersInv,
     LockInv, VersionInv, ScanInv, OutcomeInv, CountInv, WaveAccounting, Joinable
<1>q. QED  BY <1>1, <1>2, <1>3, <1>4, <1>5 DEF Next

\* IInv holds in every reachable state.
THEOREM InductiveInvariant == Spec => []IInv
BY InitInv, NextInv, PTL DEF Spec

\* Type correctness of every variable, the wave counters included.
THEOREM TypeCorrect == Spec => []TypeOK
<1>1. IInv => TypeOK  BY DEF IInv
<1>q. QED  BY <1>1, InductiveInvariant, PTL

\* reconcile() never answers Ok from an index older than its call.
THEOREM FreshAnswers == Spec => []Freshness
<1>1. IInv => Freshness
  BY DEF IInv, OutcomeInv, Freshness, TypeOK
<1>q. QED  BY <1>1, InductiveInvariant, PTL

\* The cancellation of an unused wave never reaches a caller that stayed.
THEOREM LiveWaitersKeepTheirWave == Spec => []NoLiveWaiterCancelled
<1>1. IInv => NoLiveWaiterCancelled
  BY DEF IInv, OutcomeInv, NoLiveWaiterCancelled
<1>q. QED  BY <1>1, InductiveInvariant, PTL

\* No caller falls between the current and the pending wave.
THEOREM WaitersAreKept == Spec => []NoLostWaiter
<1>1. IInv => NoLostWaiter
  BY Distinct DEF IInv, WaitersInv, SlotsInv, NoLostWaiter, Queued, TypeOK
<1>q. QED  BY <1>1, InductiveInvariant, PTL

\* One wave task at a time, for any number of callers.
THEOREM OneTaskAtATime == Spec => []SingleTask
<1>1. IInv => SingleTask
  BY DEF IInv, SlotsInv, SingleTask
<1>q. QED  BY <1>1, InductiveInvariant, PTL

\* The diagnostics account for every wave once.
THEOREM WavesAreAccounted == Spec => []WaveAccounting
<1>1. IInv => WaveAccounting
  BY DEF IInv, CountInv
<1>q. QED  BY <1>1, InductiveInvariant, PTL

\* The operation lock orders publications by what their scans saw.
THEOREM PublicationOrder == Spec => IndexNeverRegresses
<1>1. ASSUME IInv, [Next]_vars PROVE [indexed' >= indexed]_indexed
  <2>1. CASE \E w \in WaveId : ScanEnd(w)
    BY <1>1, <2>1 DEF ScanEnd, IInv, TypeOK, ScanInv
  <2>2. CASE \E i \in Indexers : DirectPublish(i)
    BY <1>1, <2>2 DEF DirectPublish, IInv, TypeOK, ScanInv
  <2>3. CASE UNCHANGED indexed
    BY <2>3
  <2>4. \/ \E w \in WaveId : ScanEnd(w)
        \/ \E i \in Indexers : DirectPublish(i)
        \/ UNCHANGED indexed
    BY <1>1 DEF Next, vars, CallStep, TaskStep, DirectStep, Edit, Admit,
       CancelBeforeEnqueue, Enqueue, Receive, GiveUp, Deadline, ExitWaiter,
       TaskAdmission, TaskCheck, TaskTry, MarkRunning, ScanStart, Release,
       FinishWave, DirectAdmission, DirectLock, DirectScan, DirectEnd
  <2>q. QED  BY <2>1, <2>2, <2>3, <2>4
<1>2. IInv /\ [Next]_vars => [indexed' >= indexed]_indexed
  BY <1>1
<1>q. QED  BY <1>2, InductiveInvariant, PTL DEF Spec, IndexNeverRegresses

\* What callers see when one call moves on.
LEMMA VisibleUpdate ==
    ASSUME TypeOK, NEW r \in Requests, NEW s,
           call' = [call EXCEPT ![r] = s]
    PROVE  [q \in Requests |-> Visible(q)]' =
           [[q \in Requests |-> Visible(q)] EXCEPT ![r] =
               IF s \in InFlight THEN "pending" ELSE s]
BY DEF TypeOK, Visible

\* Steps of waves, tasks and indexers that publish nothing do not show.
LEMMA HiddenStep ==
    ASSUME UNCHANGED <<call, asked, version, indexed>>
    PROVE  UNCHANGED Promise!vars
BY DEF Promise!vars, Visible

\* Every step of a call is a step of the promised service, or does not show.
LEMMA CallRefines ==
    ASSUME IInv, NEW r \in Requests,
           CallStep(r) \/ CancelBeforeEnqueue(r) \/ GiveUp(r) \/ Deadline(r)
    PROVE  [Promise!Next]_Promise!vars
<1> DEFINE Seen == [q \in Requests |-> Visible(q)]
<1>a. TypeOK
  BY DEF IInv
<1>1. CASE Admit(r)
  <2> DEFINE s == IF Cardinality(ActiveRequests) < ActiveCapacity
                  THEN "admitted" ELSE "overloaded"
  <2>1. Seen' = [Seen EXCEPT ![r] = IF s \in InFlight THEN "pending" ELSE s]
    BY <1>a, <1>1, VisibleUpdate DEF Admit
  <2>p. Promise!Cardinality(Promise!Pending) = Cardinality(Promise!Pending)
    BY DEF Promise!Cardinality, Cardinality
  <2>2. Promise!Pending = ActiveRequests
    BY <1>a DEF Promise!Pending, ActiveRequests, Visible, InFlight, TypeOK, CallPc
  <2>3. (IF s \in InFlight THEN "pending" ELSE s) =
        (IF Cardinality(Promise!Pending) < ActiveCapacity
         THEN "pending" ELSE "overloaded")
    BY <2>2 DEF InFlight
  <2>4. Seen[r] = "idle"
    BY <1>1 DEF Admit, Visible, InFlight
  <2>5. Seen' = [Seen EXCEPT ![r] =
                   IF Cardinality(Promise!Pending) < ActiveCapacity
                   THEN "pending" ELSE "overloaded"]
    BY <2>1, <2>3
  <2>6. asked' = [asked EXCEPT ![r] = version] /\ UNCHANGED <<version, indexed>>
    BY <1>1 DEF Admit
  <2>7. Promise!Ask(r)
    BY <2>p, <2>4, <2>5, <2>6 DEF Promise!Ask
  <2>q. QED  BY <2>7 DEF Promise!Next
<1>2. CASE Receive(r)
  <2>1. Seen' = [Seen EXCEPT ![r] = CallResult(r)]
    BY <1>a, <1>2, VisibleUpdate DEF Receive, CallResult, InFlight
  <2>2. Seen[r] = "pending"
    BY <1>2 DEF Receive, Visible, InFlight
  <2>3. CASE outcome[r] = "ok"
    <3>1. asked[r] <= indexed /\ CallResult(r) = "ok"
      BY <2>3 DEF IInv, OutcomeInv, CallResult
    <3>2. Promise!Answer(r)
      BY <1>2, <2>1, <2>2, <3>1 DEF Receive, Promise!Answer
    <3>q. QED  BY <3>2 DEF Promise!Next
  <2>4. CASE outcome[r] # "ok"
    <3>1. CallResult(r) = "failed"
      BY <2>4 DEF CallResult
    <3>2. Promise!Refuse(r)
      BY <1>2, <2>1, <2>2, <3>1 DEF Receive, Promise!Refuse, Promise!Reasons
    <3>q. QED  BY <3>2 DEF Promise!Next
  <2>q. QED  BY <2>3, <2>4
<1>3. CASE ExitWaiter(r)
  <2> DEFINE s == IF call[r] = "cancelling" THEN "cancelled" ELSE "not_ready"
  <2>1. call' = [call EXCEPT ![r] = s]
    BY <1>a, <1>3 DEF ExitWaiter, TypeOK
  <2>2. Seen' = [Seen EXCEPT ![r] = s]
    BY <1>a, <2>1, VisibleUpdate DEF InFlight
  <2>3. Seen[r] = "pending"
    BY <1>3 DEF ExitWaiter, Visible, InFlight
  <2>4. UNCHANGED <<version, indexed, asked>>
    BY <1>3 DEF ExitWaiter
  <2>5. Promise!Refuse(r)
    BY <2>2, <2>3, <2>4 DEF Promise!Refuse, Promise!Reasons
  <2>q. QED  BY <2>5 DEF Promise!Next
<1>4. CASE CancelBeforeEnqueue(r)
  <2>1. Seen' = [Seen EXCEPT ![r] = "cancelled"]
    BY <1>a, <1>4, VisibleUpdate DEF CancelBeforeEnqueue, InFlight
  <2>2. Seen[r] = "pending"
    BY <1>4 DEF CancelBeforeEnqueue, Visible, InFlight
  <2>3. Promise!Refuse(r)
    BY <1>4, <2>1, <2>2
       DEF CancelBeforeEnqueue, Promise!Refuse, Promise!Reasons
  <2>q. QED  BY <2>3 DEF Promise!Next
<1>5. CASE Enqueue(r) \/ GiveUp(r) \/ Deadline(r)
  <2>1. PICK s \in InFlight : call' = [call EXCEPT ![r] = s]
    BY <1>5 DEF Enqueue, GiveUp, Deadline, InFlight
  <2>2. Seen' = [Seen EXCEPT ![r] = "pending"] /\ Seen[r] = "pending"
    <3>1. Seen' = [Seen EXCEPT ![r] = "pending"]
      BY <1>a, <2>1, VisibleUpdate
    <3>2. Seen[r] = "pending"
      BY <1>5 DEF Enqueue, GiveUp, Deadline, Visible, InFlight
    <3>q. QED  BY <3>1, <3>2
  <2>3. Seen' = Seen
    BY <2>2
  <2>4. UNCHANGED <<version, indexed, asked>>
    BY <1>5 DEF Enqueue, GiveUp, Deadline
  <2>q. QED  BY <2>3, <2>4 DEF Promise!vars
<1>q. QED  BY <1>1, <1>2, <1>3, <1>4, <1>5 DEF CallStep

\* Publications are steps of the promised service: forward, never past the
\* edits that were made.
LEMMA PublishRefines ==
    ASSUME IInv,
           \/ \E w \in WaveId : ScanEnd(w)
           \/ \E i \in Indexers : DirectPublish(i)
    PROVE  [Promise!Next]_Promise!vars
<1>1. indexed' \in indexed..version
  BY DEF ScanEnd, DirectPublish, IInv, TypeOK, ScanInv, VersionInv
<1>2. UNCHANGED <<version, call, asked>>
  BY DEF ScanEnd, DirectPublish
<1>3. Promise!Publish
  BY <1>1, <1>2 DEF Promise!Publish, Visible
<1>q. QED  BY <1>3 DEF Promise!Next

\* The coordinator implements the service its callers are promised.
THEOREM Refinement == Spec => ImplementsFreshRetrieval
<1>1. Init => Promise!Init
  BY DEF Init, Promise!Init, Visible, InFlight
<1>2. IInv /\ [Next]_vars => [Promise!Next]_Promise!vars
  <2>. SUFFICES ASSUME IInv, [Next]_vars PROVE [Promise!Next]_Promise!vars
    OBVIOUS
  <2>1. CASE Edit
    <3>1. Promise!Edit
      BY <2>1 DEF Edit, Promise!Edit, Visible
    <3>q. QED  BY <3>1 DEF Promise!Next
  <2>2. CASE \E r \in Requests :
                CallStep(r) \/ CancelBeforeEnqueue(r) \/ GiveUp(r) \/ Deadline(r)
    BY <2>2, CallRefines
  <2>3. CASE \/ \E w \in WaveId : ScanEnd(w)
             \/ \E i \in Indexers : DirectPublish(i)
    BY <2>3, PublishRefines
  <2>4. CASE UNCHANGED <<call, asked, version, indexed>>
    BY <2>4, HiddenStep
  <2>5. \/ Edit
        \/ \E r \in Requests :
              CallStep(r) \/ CancelBeforeEnqueue(r) \/ GiveUp(r) \/ Deadline(r)
        \/ \E w \in WaveId : ScanEnd(w)
        \/ \E i \in Indexers : DirectPublish(i)
        \/ UNCHANGED <<call, asked, version, indexed>>
    BY DEF Next, vars, TaskStep, DirectStep, TaskAdmission, TaskCheck, TaskTry,
       MarkRunning, ScanStart, Release, FinishWave, DirectAdmission,
       DirectLock, DirectScan, DirectEnd
  <2>q. QED  BY <2>1, <2>2, <2>3, <2>4, <2>5
<1>q. QED
  BY <1>1, <1>2, InductiveInvariant, PTL
     DEF Spec, ImplementsFreshRetrieval, Promise!Spec

=============================================================================
