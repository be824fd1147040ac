-------------------------- MODULE ToolCallsProofs ---------------------------
(***************************************************************************)
(* Proofs about ToolCalls, for any finite sets of calls and ids and any     *)
(* capacities: work is bounded, ids are reserved until they are answered,   *)
(* and no wake-up is lost.                                                 *)
(***************************************************************************)
EXTENDS ToolCalls, FiniteSetTheorems, TLAPS

\* Type correctness of every reachable state (BoundedTransport, McpServices,
\* BlockingExecutor).
THEOREM TypeCorrect == Spec => []TypeOK
<1>1. Init => TypeOK
  <2> SUFFICES ASSUME Init PROVE TypeOK
    OBVIOUS
  <2>1. idOf \in [Calls -> Ids]
    BY ToolCallsAssumption DEF Init
  <2>2. entry \in [Ids -> {"none", "active", "tombstoned"}]
    BY DEF Init
  <2>3. /\ pc \in [Calls -> Handling \cup {"unsent", "respond", "done"}]
        /\ cancelled \in [Calls -> BOOLEAN] /\ ahead \in [Calls -> SUBSET Calls]
    BY DEF Init
  <2>4. QED
    BY <2>1, <2>2, <2>3 DEF Init, TypeOK
<1>2. TypeOK /\ [Next]_vars => TypeOK'
  <2> SUFFICES ASSUME TypeOK, [Next]_vars PROVE TypeOK'
    OBVIOUS
  <2>1. ASSUME NEW c \in Calls, Receive(c) PROVE TypeOK'
    <3>1. CASE /\ Admissible(idOf[c]) /\ UNCHANGED direct
               /\ entry' = [entry EXCEPT ![idOf[c]] = "active"]
               /\ Goto(c, "prepare")
      BY <2>1, <3>1, TypeOK
         DEF Receive, Admissible, Goto, TypeOK, Handling, server, service,
             waiting, executor
    <3>2. CASE Goto(c, "done") /\ direct' = TRUE /\ UNCHANGED entry
      BY <2>1, <3>2, TypeOK
         DEF Receive, Goto, TypeOK, Handling, server, service, waiting,
             executor
    <3> QED
      BY <2>1, <3>1, <3>2, Zenon DEF Receive
  <2>2. ASSUME NEW c \in Calls, Prepare(c) PROVE TypeOK'
    BY <2>2, TypeOK
       DEF Prepare, Goto, Respond, Proceed, Admit, TypeOK, Handling, server,
           service, waiting, executor
  <2>3. ASSUME NEW c \in Calls, CreateNotified(c) PROVE TypeOK'
    BY <2>3, TypeOK
       DEF CreateNotified, Goto, TypeOK, Handling, server, service, waiting,
           executor
  <2>4. ASSUME NEW c \in Calls, CheckState(c) PROVE TypeOK'
    BY <2>4, TypeOK
       DEF CheckState, Goto, EndWait, Proceed, Admit, Respond, TypeOK,
           Handling, server, service, waiting, executor
  <2>5. ASSUME NEW c \in Calls, Wake(c) PROVE TypeOK'
    BY <2>5, TypeOK
       DEF Wake, Goto, TypeOK, Handling, server, service, waiting, executor
  <2>6. ASSUME NEW c \in Calls, WaitCancelled(c) PROVE TypeOK'
    BY <2>6, TypeOK
       DEF WaitCancelled, Goto, Respond, TypeOK, Handling, server, service,
           waiting, executor
  <2>7. ASSUME NEW c \in Calls, WaitDeadline(c) PROVE TypeOK'
    BY <2>7, TypeOK
       DEF WaitDeadline, Goto, EndWait, Proceed, Admit, Respond, TypeOK,
           Handling, server, service, waiting, executor
  <2>8. ASSUME NEW c \in Calls, IndexSettled(c) PROVE TypeOK'
    BY <2>8, TypeOK
       DEF IndexSettled, Goto, Respond, TypeOK, Handling, server, service,
           waiting, executor
  <2>9. ASSUME NEW c \in Calls, Run(c) PROVE TypeOK'
    BY <2>9, TypeOK
       DEF Run, Goto, Returned, Respond, TypeOK, Handling, server, service,
           waiting, executor
  <2>10. ASSUME NEW c \in Calls, Acquire(c) PROVE TypeOK'
    BY <2>10, TypeOK
       DEF Acquire, Goto, Dequeue, TypeOK, Handling, server, service, waiting,
           executor
  <2>11. ASSUME NEW c \in Calls, LeaveQueue(c) PROVE TypeOK'
    BY <2>11, TypeOK
       DEF LeaveQueue, Goto, Dequeue, Returned, Respond, TypeOK, Handling,
           server, service, waiting, executor
  <2>12. ASSUME NEW c \in Calls, StartClosure(c) PROVE TypeOK'
    BY <2>12, TypeOK
       DEF StartClosure, TypeOK, Handling, server, service, waiting, executor
  <2>13. ASSUME NEW c \in Calls, EndClosure(c) PROVE TypeOK'
    BY <2>13, TypeOK
       DEF EndClosure, Goto, DropPermits, Returned, Respond, TypeOK, Handling,
           server, service, waiting, executor
  <2>14. ASSUME NEW c \in Calls, Send(c) PROVE TypeOK'
    BY <2>14, TypeOK
       DEF Send, Goto, TypeOK, Handling, server, service, waiting, executor
  <2>15. ASSUME NEW c \in Calls, Unwind(c) PROVE TypeOK'
    BY <2>15, TypeOK
       DEF Unwind, Goto, Dequeue, DropPermits, TypeOK, Handling, server,
           service, waiting, executor
  <2>16. ASSUME NEW i \in Ids, RefuseControl(i) PROVE TypeOK'
    BY <2>16, TypeOK
       DEF RefuseControl, TypeOK, Handling, server, service, waiting, executor
  <2>17. ASSUME NEW i \in Ids, CancelRequest(i) PROVE TypeOK'
    BY <2>17, TypeOK
       DEF CancelRequest, TypeOK, Handling, server, service, waiting, executor
  <2>18. ASSUME NEW s \in {"ready", "failed"}, SetState(s) PROVE TypeOK'
    BY <2>18, TypeOK
       DEF SetState, TypeOK, Handling, server, service, waiting, executor
  <2>19. CASE FinishDirect
    BY <2>19, TypeOK
       DEF FinishDirect, TypeOK, Handling, server, service, waiting, executor
  <2>20. CASE NotifyWaiters
    BY <2>20, TypeOK
       DEF NotifyWaiters, TypeOK, Handling, server, service, waiting, executor
  <2>21. CASE UNCHANGED vars
    BY <2>21, TypeOK
       DEF vars, TypeOK, Handling, server, service, waiting, executor
  <2> QED
    BY <2>1, <2>2, <2>3, <2>4, <2>5, <2>6, <2>7, <2>8, <2>9, <2>10, <2>11,
       <2>12, <2>13, <2>14, <2>15, <2>16, <2>17, <2>18, <2>19, <2>20, <2>21
       DEF Next, Step
<1>3. QED
  BY <1>1, <1>2, PTL DEF Spec

-----------------------------------------------------------------------------
\* Who holds the permits of the executor: a queued run its active permit, a
\* closure both, whether its caller is still there or not.
PermitInv ==
  /\ \A c \in Calls : c \in active <=> pc[c] = "queued" \/ work[c] # "none"
  /\ \A c \in Calls : c \in execution <=> work[c] # "none"
  /\ \A c \in Calls : work[c] # "none" => pc[c] \in {"closure", "done"}

\* The semaphores of the executor are never overdrawn.
CapacityInv ==
  /\ Cardinality(active) <= ActiveCapacity
  /\ Cardinality(execution) <= ExecutionCapacity

\* The dispatch map never exceeds its bound.
MapInv == Cardinality(Entries({"active", "tombstoned"})) <= MaxEntries

\* A sleeping call has a future that is listed for the next notification.
WakeInv ==
  /\ \A c \in Calls : pc[c] \in {"check", "wait"} => note[c] # "none"
  /\ NoLostWake

\* The inductive invariant of the path of a call.
CallsInv ==
  TypeOK /\ PermitInv /\ CapacityInv /\ ReservedUntilAnswered /\ MapInv /\ WakeInv

\* Nothing is held, reserved or waited for initially.
LEMMA CallsInvInit ==
  Init => PermitInv /\ CapacityInv /\ ReservedUntilAnswered /\ MapInv /\ WakeInv
<1> SUFFICES ASSUME Init
             PROVE  PermitInv /\ CapacityInv /\ ReservedUntilAnswered /\ MapInv
                      /\ WakeInv
  OBVIOUS
<1>1. PermitInv /\ ReservedUntilAnswered /\ WakeInv
  BY DEF Init, PermitInv, ReservedUntilAnswered, Live, Handling, WakeInv, NoLostWake
<1>2. CapacityInv
  BY FS_EmptySet, ToolCallsAssumption DEF Init, CapacityInv
<1>3. Entries({"active", "tombstoned"}) = {}
  BY DEF Init, Entries
<1>4. QED
  BY <1>1, <1>2, <1>3, FS_EmptySet, ToolCallsAssumption DEF MapInv

\* A set that gains an element.
LEMMA OneMore ==
  ASSUME NEW S, IsFiniteSet(S), NEW x, NEW T, T = S \cup {x}
  PROVE  Cardinality(T) \in Nat /\ Cardinality(T) <= Cardinality(S) + 1
<1>1. IsFiniteSet(T) /\ Cardinality(S) \in Nat /\ Cardinality(T) \in Nat
  BY FS_AddElement, FS_CardinalityType
<1>2. CASE x \in S
  <2>1. T = S
    BY <1>2
  <2>2. Cardinality(T) = Cardinality(S)
    BY <2>1
  <2>3. QED
    BY <1>1, <2>2
<1>3. CASE x \notin S
  <2>1. Cardinality(T) = Cardinality(S) + 1
    BY <1>3, FS_AddElement
  <2>2. QED
    BY <1>1, <2>1
<1>4. QED
  BY <1>2, <1>3

\* Semaphores whose permits are only given back stay within their capacity.
LEMMA SemaphoresShrink ==
  ASSUME TypeOK, CapacityInv, active' \subseteq active, execution' \subseteq execution
  PROVE  CapacityInv'
<1>1. IsFiniteSet(active) /\ IsFiniteSet(execution)
  BY ToolCallsAssumption, FS_Subset DEF TypeOK
<1>2. /\ Cardinality(active') <= Cardinality(active)
      /\ Cardinality(execution') <= Cardinality(execution)
  BY <1>1, FS_Subset
<1>3. /\ Cardinality(active) \in Nat /\ Cardinality(execution) \in Nat
      /\ Cardinality(active') \in Nat /\ Cardinality(execution') \in Nat
  BY <1>1, FS_Subset, FS_CardinalityType
<1>4. QED
  BY <1>2, <1>3, ToolCallsAssumption DEF CapacityInv

\* A map that only loses entries stays within its bound.
LEMMA MapShrinks ==
  ASSUME MapInv, \A j \in Ids : entry'[j] # "none" => entry[j] # "none", TypeOK, TypeOK'
  PROVE  MapInv'
<1> DEFINE E == Entries({"active", "tombstoned"})
<1>1. E' \subseteq E
  BY DEF Entries, TypeOK
<1>2. IsFiniteSet(E) /\ Cardinality(E) \in Nat
  BY ToolCallsAssumption, FS_Subset, FS_CardinalityType DEF Entries
<1>3. Cardinality(E') <= Cardinality(E) /\ Cardinality(E') \in Nat
  BY <1>1, <1>2, FS_Subset, FS_CardinalityType
<1>4. QED
  BY <1>2, <1>3, ToolCallsAssumption DEF MapInv

\* Every step moves the permits with their owners.
LEMMA PermitInvNext == CallsInv /\ TypeOK' /\ [Next]_vars => PermitInv'
<1> SUFFICES ASSUME CallsInv, TypeOK', [Next]_vars PROVE PermitInv'
  OBVIOUS
<1>1. ASSUME NEW c \in Calls, Receive(c) PROVE PermitInv'
  BY <1>1, CallsInv, TypeOK'
     DEF Receive, Goto, CallsInv, TypeOK, PermitInv, Handling, server, service,
         waiting, executor
<1>2. ASSUME NEW c \in Calls, Prepare(c) PROVE PermitInv'
  BY <1>2, CallsInv, TypeOK'
     DEF Prepare, Goto, Respond, Proceed, Admit, CallsInv, TypeOK, PermitInv,
         Handling, server, service, waiting, executor
<1>3. ASSUME NEW c \in Calls, CreateNotified(c) PROVE PermitInv'
  BY <1>3, CallsInv, TypeOK'
     DEF CreateNotified, Goto, CallsInv, TypeOK, PermitInv, Handling, server,
         service, waiting, executor
<1>4. ASSUME NEW c \in Calls, CheckState(c) PROVE PermitInv'
  BY <1>4, CallsInv, TypeOK'
     DEF CheckState, Goto, EndWait, Proceed, Admit, Respond, CallsInv, TypeOK,
         PermitInv, Handling, server, service, waiting, executor
<1>5. ASSUME NEW c \in Calls, Wake(c) PROVE PermitInv'
  BY <1>5, CallsInv, TypeOK'
     DEF Wake, Goto, CallsInv, TypeOK, PermitInv, Handling, server, service,
         waiting, executor
<1>6. ASSUME NEW c \in Calls, WaitCancelled(c) PROVE PermitInv'
  BY <1>6, CallsInv, TypeOK'
     DEF WaitCancelled, Goto, Respond, CallsInv, TypeOK, PermitInv, Handling,
         server, service, waiting, executor
<1>7. ASSUME NEW c \in Calls, WaitDeadline(c) PROVE PermitInv'
  BY <1>7, CallsInv, TypeOK'
     DEF WaitDeadline, Goto, EndWait, Proceed, Admit, Respond, CallsInv,
         TypeOK, PermitInv, Handling, server, service, waiting, executor
<1>8. ASSUME NEW c \in Calls, IndexSettled(c) PROVE PermitInv'
  BY <1>8, CallsInv, TypeOK'
     DEF IndexSettled, Goto, Respond, CallsInv, TypeOK, PermitInv, Handling,
         server, service, waiting, executor
<1>9. ASSUME NEW c \in Calls, Run(c) PROVE PermitInv'
  BY <1>9, CallsInv, TypeOK'
     DEF Run, Goto, Returned, Respond, CallsInv, TypeOK, PermitInv, Handling,
         server, service, waiting, executor
<1>10. ASSUME NEW c \in Calls, Acquire(c) PROVE PermitInv'
  BY <1>10, CallsInv, TypeOK'
     DEF Acquire, Goto, Dequeue, CallsInv, TypeOK, PermitInv, Handling, server,
         service, waiting, executor
<1>11. ASSUME NEW c \in Calls, LeaveQueue(c) PROVE PermitInv'
  BY <1>11, CallsInv, TypeOK'
     DEF LeaveQueue, Goto, Dequeue, Returned, Respond, CallsInv, TypeOK,
         PermitInv, Handling, server, service, waiting, executor
<1>12. ASSUME NEW c \in Calls, StartClosure(c) PROVE PermitInv'
  BY <1>12, CallsInv, TypeOK'
     DEF StartClosure, CallsInv, TypeOK, PermitInv, Handling, server, service,
         waiting, executor
<1>13. ASSUME NEW c \in Calls, EndClosure(c) PROVE PermitInv'
  BY <1>13, CallsInv, TypeOK'
     DEF EndClosure, Goto, DropPermits, Returned, Respond, CallsInv, TypeOK,
         PermitInv, Handling, server, service, waiting, executor
<1>14. ASSUME NEW c \in Calls, Send(c) PROVE PermitInv'
  BY <1>14, CallsInv, TypeOK'
     DEF Send, Goto, CallsInv, TypeOK, PermitInv, Handling, server, service,
         waiting, executor
<1>15. ASSUME NEW c \in Calls, Unwind(c) PROVE PermitInv'
  BY <1>15, CallsInv, TypeOK'
     DEF Unwind, Goto, Dequeue, DropPermits, CallsInv, TypeOK, PermitInv,
         Handling, server, service, waiting, executor
<1>16. ASSUME NEW i \in Ids, RefuseControl(i) PROVE PermitInv'
  BY <1>16, CallsInv, TypeOK'
     DEF RefuseControl, CallsInv, TypeOK, PermitInv, Handling, server, service,
         waiting, executor
<1>17. ASSUME NEW i \in Ids, CancelRequest(i) PROVE PermitInv'
  BY <1>17, CallsInv, TypeOK'
     DEF CancelRequest, CallsInv, TypeOK, PermitInv, Handling, server, service,
         waiting, executor
<1>18. ASSUME NEW s \in {"ready", "failed"}, SetState(s) PROVE PermitInv'
  BY <1>18, CallsInv, TypeOK'
     DEF SetState, CallsInv, TypeOK, PermitInv, Handling, server, service,
         waiting, executor
<1>19. CASE FinishDirect
  BY <1>19, CallsInv, TypeOK'
     DEF FinishDirect, CallsInv, TypeOK, PermitInv, Handling, server, service,
         waiting, executor
<1>20. CASE NotifyWaiters
  BY <1>20, CallsInv, TypeOK'
     DEF NotifyWaiters, CallsInv, TypeOK, PermitInv, Handling, server, service,
         waiting, executor
<1>21. CASE UNCHANGED vars
  BY <1>21, CallsInv, TypeOK'
     DEF vars, CallsInv, TypeOK, PermitInv, Handling, server, service, waiting,
         executor
<1> QED
  BY <1>1, <1>2, <1>3, <1>4, <1>5, <1>6, <1>7, <1>8, <1>9, <1>10, <1>11,
     <1>12, <1>13, <1>14, <1>15, <1>16, <1>17, <1>18, <1>19, <1>20, <1>21
     DEF Next, Step

\* Every step keeps the semaphores within their capacity.
LEMMA CapacityInvNext == CallsInv /\ TypeOK' /\ [Next]_vars => CapacityInv'
<1> SUFFICES ASSUME CallsInv, TypeOK', [Next]_vars PROVE CapacityInv'
  OBVIOUS
<1>1. ASSUME NEW c \in Calls, Receive(c) PROVE CapacityInv'
  <2>1. active' \subseteq active /\ execution' \subseteq execution
    BY <1>1, CallsInv
       DEF Receive, Goto, CallsInv, TypeOK, Handling, server, service, waiting,
           executor
  <2> QED
    BY <2>1, SemaphoresShrink DEF CallsInv
<1>2. ASSUME NEW c \in Calls, Prepare(c) PROVE CapacityInv'
  <2>1. active' \subseteq active /\ execution' \subseteq execution
    BY <1>2, CallsInv
       DEF Prepare, Goto, Respond, Proceed, Admit, CallsInv, TypeOK, Handling,
           server, service, waiting, executor
  <2> QED
    BY <2>1, SemaphoresShrink DEF CallsInv
<1>3. ASSUME NEW c \in Calls, CreateNotified(c) PROVE CapacityInv'
  <2>1. active' \subseteq active /\ execution' \subseteq execution
    BY <1>3, CallsInv
       DEF CreateNotified, Goto, CallsInv, TypeOK, Handling, server, service,
           waiting, executor
  <2> QED
    BY <2>1, SemaphoresShrink DEF CallsInv
<1>4. ASSUME NEW c \in Calls, CheckState(c) PROVE CapacityInv'
  <2>1. active' \subseteq active /\ execution' \subseteq execution
    BY <1>4, CallsInv
       DEF CheckState, Goto, EndWait, Proceed, Admit, Respond, CallsInv,
           TypeOK, Handling, server, service, waiting, executor
  <2> QED
    BY <2>1, SemaphoresShrink DEF CallsInv
<1>5. ASSUME NEW c \in Calls, Wake(c) PROVE CapacityInv'
  <2>1. active' \subseteq active /\ execution' \subseteq execution
    BY <1>5, CallsInv
       DEF Wake, Goto, CallsInv, TypeOK, Handling, server, service, waiting,
           executor
  <2> QED
    BY <2>1, SemaphoresShrink DEF CallsInv
<1>6. ASSUME NEW c \in Calls, WaitCancelled(c) PROVE CapacityInv'
  <2>1. active' \subseteq active /\ execution' \subseteq execution
    BY <1>6, CallsInv
       DEF WaitCancelled, Goto, Respond, CallsInv, TypeOK, Handling, server,
           service, waiting, executor
  <2> QED
    BY <2>1, SemaphoresShrink DEF CallsInv
<1>7. ASSUME NEW c \in Calls, WaitDeadline(c) PROVE CapacityInv'
  <2>1. active' \subseteq active /\ execution' \subseteq execution
    BY <1>7, CallsInv
       DEF WaitDeadline, Goto, EndWait, Proceed, Admit, Respond, CallsInv,
           TypeOK, Handling, server, service, waiting, executor
  <2> QED
    BY <2>1, SemaphoresShrink DEF CallsInv
<1>8. ASSUME NEW c \in Calls, IndexSettled(c) PROVE CapacityInv'
  <2>1. active' \subseteq active /\ execution' \subseteq execution
    BY <1>8, CallsInv
       DEF IndexSettled, Goto, Respond, CallsInv, TypeOK, Handling, server,
           service, waiting, executor
  <2> QED
    BY <2>1, SemaphoresShrink DEF CallsInv
<1>9. ASSUME NEW c \in Calls, Run(c) PROVE CapacityInv'
  <2>1. CASE UNCHANGED active
    BY <1>9, <2>1, SemaphoresShrink DEF Run, CallsInv
  <2>2. CASE Cardinality(active) < ActiveCapacity /\ active' = active \cup {c}
    <3>1. IsFiniteSet(active) /\ Cardinality(active) \in Nat
      BY CallsInv, ToolCallsAssumption, FS_Subset, FS_CardinalityType
         DEF CallsInv, TypeOK
    <3>2. Cardinality(active') \in Nat /\ Cardinality(active') <= Cardinality(active) + 1
      BY <2>2, <3>1, OneMore
    <3>3. Cardinality(active') <= ActiveCapacity
      BY <2>2, <3>1, <3>2, ToolCallsAssumption
    <3>4. execution' = execution
      BY <1>9 DEF Run
    <3> QED
      BY <3>3, <3>4, CallsInv DEF CallsInv, CapacityInv
  <2> QED
    BY <1>9, <2>1, <2>2 DEF Run
<1>10. ASSUME NEW c \in Calls, Acquire(c) PROVE CapacityInv'
  <2>1. IsFiniteSet(execution) /\ Cardinality(execution) \in Nat
    BY CallsInv, ToolCallsAssumption, FS_Subset, FS_CardinalityType
       DEF CallsInv, TypeOK
  <2>2. Cardinality(execution') \in Nat /\ Cardinality(execution') <= Cardinality(execution) + 1
    BY <1>10, <2>1, OneMore DEF Acquire
  <2>3. Cardinality(execution) < ExecutionCapacity /\ active' = active
    BY <1>10 DEF Acquire, Granted
  <2>4. Cardinality(execution') <= ExecutionCapacity
    BY <2>1, <2>2, <2>3, ToolCallsAssumption
  <2> QED
    BY <2>3, <2>4, CallsInv DEF CallsInv, CapacityInv
<1>11. ASSUME NEW c \in Calls, LeaveQueue(c) PROVE CapacityInv'
  <2>1. active' \subseteq active /\ execution' \subseteq execution
    BY <1>11, CallsInv
       DEF LeaveQueue, Goto, Dequeue, Returned, Respond, CallsInv, TypeOK,
           Handling, server, service, waiting, executor
  <2> QED
    BY <2>1, SemaphoresShrink DEF CallsInv
<1>12. ASSUME NEW c \in Calls, StartClosure(c) PROVE CapacityInv'
  <2>1. active' \subseteq active /\ execution' \subseteq execution
    BY <1>12, CallsInv
       DEF StartClosure, CallsInv, TypeOK, Handling, server, service, waiting,
           executor
  <2> QED
    BY <2>1, SemaphoresShrink DEF CallsInv
<1>13. ASSUME NEW c \in Calls, EndClosure(c) PROVE CapacityInv'
  <2>1. active' \subseteq active /\ execution' \subseteq execution
    BY <1>13, CallsInv
       DEF EndClosure, Goto, DropPermits, Returned, Respond, CallsInv, TypeOK,
           Handling, server, service, waiting, executor
  <2> QED
    BY <2>1, SemaphoresShrink DEF CallsInv
<1>14. ASSUME NEW c \in Calls, Send(c) PROVE CapacityInv'
  <2>1. active' \subseteq active /\ execution' \subseteq execution
    BY <1>14, CallsInv
       DEF Send, Goto, CallsInv, TypeOK, Handling, server, service, waiting,
           executor
  <2> QED
    BY <2>1, SemaphoresShrink DEF CallsInv
<1>15. ASSUME NEW c \in Calls, Unwind(c) PROVE CapacityInv'
  <2>1. active' \subseteq active /\ execution' \subseteq execution
    BY <1>15, CallsInv
       DEF Unwind, Goto, Dequeue, DropPermits, CallsInv, TypeOK, Handling,
           server, service, waiting, executor
  <2> QED
    BY <2>1, SemaphoresShrink DEF CallsInv
<1>16. ASSUME NEW i \in Ids, RefuseControl(i) PROVE CapacityInv'
  <2>1. active' \subseteq active /\ execution' \subseteq execution
    BY <1>16, CallsInv
       DEF RefuseControl, CallsInv, TypeOK, Handling, server, service, waiting,
           executor
  <2> QED
    BY <2>1, SemaphoresShrink DEF CallsInv
<1>17. ASSUME NEW i \in Ids, CancelRequest(i) PROVE CapacityInv'
  <2>1. active' \subseteq active /\ execution' \subseteq execution
    BY <1>17, CallsInv
       DEF CancelRequest, CallsInv, TypeOK, Handling, server, service, waiting,
           executor
  <2> QED
    BY <2>1, SemaphoresShrink DEF CallsInv
<1>18. ASSUME NEW s \in {"ready", "failed"}, SetState(s) PROVE CapacityInv'
  <2>1. active' \subseteq active /\ execution' \subseteq execution
    BY <1>18, CallsInv
       DEF SetState, CallsInv, TypeOK, Handling, server, service, waiting,
           executor
  <2> QED
    BY <2>1, SemaphoresShrink DEF CallsInv
<1>19. CASE FinishDirect
  <2>1. active' \subseteq active /\ execution' \subseteq execution
    BY <1>19, CallsInv
       DEF FinishDirect, CallsInv, TypeOK, Handling, server, service, waiting,
           executor
  <2> QED
    BY <2>1, SemaphoresShrink DEF CallsInv
<1>20. CASE NotifyWaiters
  <2>1. active' \subseteq active /\ execution' \subseteq execution
    BY <1>20, CallsInv
       DEF NotifyWaiters, CallsInv, TypeOK, Handling, server, service, waiting,
           executor
  <2> QED
    BY <2>1, SemaphoresShrink DEF CallsInv
<1>21. CASE UNCHANGED vars
  <2>1. active' \subseteq active /\ execution' \subseteq execution
    BY <1>21, CallsInv
       DEF vars, CallsInv, TypeOK, Handling, server, service, waiting, executor
  <2> QED
    BY <2>1, SemaphoresShrink DEF CallsInv
<1> QED
  BY <1>1, <1>2, <1>3, <1>4, <1>5, <1>6, <1>7, <1>8, <1>9, <1>10, <1>11,
     <1>12, <1>13, <1>14, <1>15, <1>16, <1>17, <1>18, <1>19, <1>20, <1>21
     DEF Next, Step

\* Every step keeps the map in line with the live handlers.
LEMMA ReservedNext == CallsInv /\ TypeOK' /\ [Next]_vars => ReservedUntilAnswered'
<1> SUFFICES ASSUME CallsInv, TypeOK', [Next]_vars PROVE ReservedUntilAnswered'
  OBVIOUS
<1>1. ASSUME NEW c \in Calls, Receive(c) PROVE ReservedUntilAnswered'
  <2>1. CASE /\ Admissible(idOf[c]) /\ UNCHANGED direct
             /\ entry' = [entry EXCEPT ![idOf[c]] = "active"]
             /\ Goto(c, "prepare")
    BY <1>1, <2>1, CallsInv, TypeOK'
       DEF Receive, Admissible, Goto, CallsInv, TypeOK, ReservedUntilAnswered,
           Live, Handling, server, service, waiting, executor
  <2>2. CASE Goto(c, "done") /\ direct' = TRUE /\ UNCHANGED entry
    BY <1>1, <2>2, CallsInv, TypeOK'
       DEF Receive, Goto, CallsInv, TypeOK, ReservedUntilAnswered, Live,
           Handling, server, service, waiting, executor
  <2> QED
    BY <1>1, <2>1, <2>2, Zenon DEF Receive
<1>2. ASSUME NEW c \in Calls, Prepare(c) PROVE ReservedUntilAnswered'
  BY <1>2, CallsInv, TypeOK'
     DEF Prepare, Goto, Respond, Proceed, Admit, CallsInv, TypeOK,
         ReservedUntilAnswered, Live, Handling, server, service, waiting,
         executor
<1>3. ASSUME NEW c \in Calls, CreateNotified(c) PROVE ReservedUntilAnswered'
  BY <1>3, CallsInv, TypeOK'
     DEF CreateNotified, Goto, CallsInv, TypeOK, ReservedUntilAnswered, Live,
         Handling, server, service, waiting, executor
<1>4. ASSUME NEW c \in Calls, CheckState(c) PROVE ReservedUntilAnswered'
  BY <1>4, CallsInv, TypeOK'
     DEF CheckState, Goto, EndWait, Proceed, Admit, Respond, CallsInv, TypeOK,
         ReservedUntilAnswered, Live, Handling, server, service, waiting,
         executor
<1>5. ASSUME NEW c \in Calls, Wake(c) PROVE ReservedUntilAnswered'
  BY <1>5, CallsInv, TypeOK'
     DEF Wake, Goto, CallsInv, TypeOK, ReservedUntilAnswered, Live, Handling,
         server, service, waiting, executor
<1>6. ASSUME NEW c \in Calls, WaitCancelled(c) PROVE ReservedUntilAnswered'
  BY <1>6, CallsInv, TypeOK'
     DEF WaitCancelled, Goto, Respond, CallsInv, TypeOK, ReservedUntilAnswered,
         Live, Handling, server, service, waiting, executor
<1>7. ASSUME NEW c \in Calls, WaitDeadline(c) PROVE ReservedUntilAnswered'
  BY <1>7, CallsInv, TypeOK'
     DEF WaitDeadline, Goto, EndWait, Proceed, Admit, Respond, CallsInv,
         TypeOK, ReservedUntilAnswered, Live, Handling, server, service,
         waiting, executor
<1>8. ASSUME NEW c \in Calls, IndexSettled(c) PROVE ReservedUntilAnswered'
  BY <1>8, CallsInv, TypeOK'
     DEF IndexSettled, Goto, Respond, CallsInv, TypeOK, ReservedUntilAnswered,
         Live, Handling, server, service, waiting, executor
<1>9. ASSUME NEW c \in Calls, Run(c) PROVE ReservedUntilAnswered'
  BY <1>9, CallsInv, TypeOK'
     DEF Run, Goto, Returned, Respond, CallsInv, TypeOK, ReservedUntilAnswered,
         Live, Handling, server, service, waiting, executor
<1>10. ASSUME NEW c \in Calls, Acquire(c) PROVE ReservedUntilAnswered'
  BY <1>10, CallsInv, TypeOK'
     DEF Acquire, Goto, Dequeue, CallsInv, TypeOK, ReservedUntilAnswered, Live,
         Handling, server, service, waiting, executor
<1>11. ASSUME NEW c \in Calls, LeaveQueue(c) PROVE ReservedUntilAnswered'
  BY <1>11, CallsInv, TypeOK'
     DEF LeaveQueue, Goto, Dequeue, Returned, Respond, CallsInv, TypeOK,
         ReservedUntilAnswered, Live, Handling, server, service, waiting,
         executor
<1>12. ASSUME NEW c \in Calls, StartClosure(c) PROVE ReservedUntilAnswered'
  BY <1>12, CallsInv, TypeOK'
     DEF StartClosure, CallsInv, TypeOK, ReservedUntilAnswered, Live, Handling,
         server, service, waiting, executor
<1>13. ASSUME NEW c \in Calls, EndClosure(c) PROVE ReservedUntilAnswered'
  BY <1>13, CallsInv, TypeOK'
     DEF EndClosure, Goto, DropPermits, Returned, Respond, CallsInv, TypeOK,
         ReservedUntilAnswered, Live, Handling, server, service, waiting,
         executor
<1>14. ASSUME NEW c \in Calls, Send(c) PROVE ReservedUntilAnswered'
  BY <1>14, CallsInv, TypeOK'
     DEF Send, Goto, CallsInv, TypeOK, ReservedUntilAnswered, Live, Handling,
         server, service, waiting, executor
<1>15. ASSUME NEW c \in Calls, Unwind(c) PROVE ReservedUntilAnswered'
  BY <1>15, CallsInv, TypeOK'
     DEF Unwind, Goto, Dequeue, DropPermits, CallsInv, TypeOK,
         ReservedUntilAnswered, Live, Handling, server, service, waiting,
         executor
<1>16. ASSUME NEW i \in Ids, RefuseControl(i) PROVE ReservedUntilAnswered'
  BY <1>16, CallsInv, TypeOK'
     DEF RefuseControl, CallsInv, TypeOK, ReservedUntilAnswered, Live,
         Handling, server, service, waiting, executor
<1>17. ASSUME NEW i \in Ids, CancelRequest(i) PROVE ReservedUntilAnswered'
  BY <1>17, CallsInv, TypeOK'
     DEF CancelRequest, CallsInv, TypeOK, ReservedUntilAnswered, Live,
         Handling, server, service, waiting, executor
<1>18. ASSUME NEW s \in {"ready", "failed"}, SetState(s) PROVE ReservedUntilAnswered'
  BY <1>18, CallsInv, TypeOK'
     DEF SetState, CallsInv, TypeOK, ReservedUntilAnswered, Live, Handling,
         server, service, waiting, executor
<1>19. CASE FinishDirect
  BY <1>19, CallsInv, TypeOK'
     DEF FinishDirect, CallsInv, TypeOK, ReservedUntilAnswered, Live, Handling,
         server, service, waiting, executor
<1>20. CASE NotifyWaiters
  BY <1>20, CallsInv, TypeOK'
     DEF NotifyWaiters, CallsInv, TypeOK, ReservedUntilAnswered, Live,
         Handling, server, service, waiting, executor
<1>21. CASE UNCHANGED vars
  BY <1>21, CallsInv, TypeOK'
     DEF vars, CallsInv, TypeOK, ReservedUntilAnswered, Live, Handling, server,
         service, waiting, executor
<1> QED
  BY <1>1, <1>2, <1>3, <1>4, <1>5, <1>6, <1>7, <1>8, <1>9, <1>10, <1>11,
     <1>12, <1>13, <1>14, <1>15, <1>16, <1>17, <1>18, <1>19, <1>20, <1>21
     DEF Next, Step

\* Every step keeps the map within its bound.
LEMMA MapInvNext == CallsInv /\ TypeOK' /\ [Next]_vars => MapInv'
<1> SUFFICES ASSUME CallsInv, TypeOK', [Next]_vars PROVE MapInv'
  OBVIOUS
<1>1. ASSUME NEW c \in Calls, Receive(c) PROVE MapInv'
  <2>1. CASE UNCHANGED entry
    BY <2>1, CallsInv, MapShrinks DEF CallsInv
  <2>2. CASE /\ Admissible(idOf[c])
             /\ entry' = [entry EXCEPT ![idOf[c]] = "active"]
    <3> DEFINE E == Entries({"active", "tombstoned"})
    <3>1. IsFiniteSet(E) /\ Cardinality(E) \in Nat
      BY ToolCallsAssumption, FS_Subset, FS_CardinalityType DEF Entries
    <3>2. E' = E \cup {idOf[c]}
      BY <2>2, CallsInv DEF CallsInv, TypeOK, Entries
    <3>3. Cardinality(E') \in Nat /\ Cardinality(E') <= Cardinality(E) + 1
      BY <3>1, <3>2, OneMore
    <3>4. QED
      BY <2>2, <3>1, <3>3, ToolCallsAssumption DEF Admissible, MapInv
  <2> QED
    BY <1>1, <2>1, <2>2 DEF Receive
<1>2. ASSUME NEW c \in Calls, Prepare(c) PROVE MapInv'
  <2>1. \A j \in Ids : entry'[j] # "none" => entry[j] # "none"
    BY <1>2, CallsInv
       DEF Prepare, Goto, Respond, Proceed, Admit, CallsInv, TypeOK, Handling,
           server, service, waiting, executor
  <2> QED
    BY <2>1, CallsInv, MapShrinks DEF CallsInv
<1>3. ASSUME NEW c \in Calls, CreateNotified(c) PROVE MapInv'
  <2>1. \A j \in Ids : entry'[j] # "none" => entry[j] # "none"
    BY <1>3, CallsInv
       DEF CreateNotified, Goto, CallsInv, TypeOK, Handling, server, service,
           waiting, executor
  <2> QED
    BY <2>1, CallsInv, MapShrinks DEF CallsInv
<1>4. ASSUME NEW c \in Calls, CheckState(c) PROVE MapInv'
  <2>1. \A j \in Ids : entry'[j] # "none" => entry[j] # "none"
    BY <1>4, CallsInv
       DEF CheckState, Goto, EndWait, Proceed, Admit, Respond, CallsInv,
           TypeOK, Handling, server, service, waiting, executor
  <2> QED
    BY <2>1, CallsInv, MapShrinks DEF CallsInv
<1>5. ASSUME NEW c \in Calls, Wake(c) PROVE MapInv'
  <2>1. \A j \in Ids : entry'[j] # "none" => entry[j] # "none"
    BY <1>5, CallsInv
       DEF Wake, Goto, CallsInv, TypeOK, Handling, server, service, waiting,
           executor
  <2> QED
    BY <2>1, CallsInv, MapShrinks DEF CallsInv
<1>6. ASSUME NEW c \in Calls, WaitCancelled(c) PROVE MapInv'
  <2>1. \A j \in Ids : entry'[j] # "none" => entry[j] # "none"
    BY <1>6, CallsInv
       DEF WaitCancelled, Goto, Respond, CallsInv, TypeOK, Handling, server,
           service, waiting, executor
  <2> QED
    BY <2>1, CallsInv, MapShrinks DEF CallsInv
<1>7. ASSUME NEW c \in Calls, WaitDeadline(c) PROVE MapInv'
  <2>1. \A j \in Ids : entry'[j] # "none" => entry[j] # "none"
    BY <1>7, CallsInv
       DEF WaitDeadline, Goto, EndWait, Proceed, Admit, Respond, CallsInv,
           TypeOK, Handling, server, service, waiting, executor
  <2> QED
    BY <2>1, CallsInv, MapShrinks DEF CallsInv
<1>8. ASSUME NEW c \in Calls, IndexSettled(c) PROVE MapInv'
  <2>1. \A j \in Ids : entry'[j] # "none" => entry[j] # "none"
    BY <1>8, CallsInv
       DEF IndexSettled, Goto, Respond, CallsInv, TypeOK, Handling, server,
           service, waiting, executor
  <2> QED
    BY <2>1, CallsInv, MapShrinks DEF CallsInv
<1>9. ASSUME NEW c \in Calls, Run(c) PROVE MapInv'
  <2>1. \A j \in Ids : entry'[j] # "none" => entry[j] # "none"
    BY <1>9, CallsInv
       DEF Run, Goto, Returned, Respond, CallsInv, TypeOK, Handling, server,
           service, waiting, executor
  <2> QED
    BY <2>1, CallsInv, MapShrinks DEF CallsInv
<1>10. ASSUME NEW c \in Calls, Acquire(c) PROVE MapInv'
  <2>1. \A j \in Ids : entry'[j] # "none" => entry[j] # "none"
    BY <1>10, CallsInv
       DEF Acquire, Goto, Dequeue, CallsInv, TypeOK, Handling, server, service,
           waiting, executor
  <2> QED
    BY <2>1, CallsInv, MapShrinks DEF CallsInv
<1>11. ASSUME NEW c \in Calls, LeaveQueue(c) PROVE MapInv'
  <2>1. \A j \in Ids : entry'[j] # "none" => entry[j] # "none"
    BY <1>11, CallsInv
       DEF LeaveQueue, Goto, Dequeue, Returned, Respond, CallsInv, TypeOK,
           Handling, server, service, waiting, executor
  <2> QED
    BY <2>1, CallsInv, MapShrinks DEF CallsInv
<1>12. ASSUME NEW c \in Calls, StartClosure(c) PROVE MapInv'
  <2>1. \A j \in Ids : entry'[j] # "none" => entry[j] # "none"
    BY <1>12, CallsInv
       DEF StartClosure, CallsInv, TypeOK, Handling, server, service, waiting,
           executor
  <2> QED
    BY <2>1, CallsInv, MapShrinks DEF CallsInv
<1>13. ASSUME NEW c \in Calls, EndClosure(c) PROVE MapInv'
  <2>1. \A j \in Ids : entry'[j] # "none" => entry[j] # "none"
    BY <1>13, CallsInv
       DEF EndClosure, Goto, DropPermits, Returned, Respond, CallsInv, TypeOK,
           Handling, server, service, waiting, executor
  <2> QED
    BY <2>1, CallsInv, MapShrinks DEF CallsInv
<1>14. ASSUME NEW c \in Calls, Send(c) PROVE MapInv'
  <2>1. \A j \in Ids : entry'[j] # "none" => entry[j] # "none"
    BY <1>14, CallsInv
       DEF Send, Goto, CallsInv, TypeOK, Handling, server, service, waiting,
           executor
  <2> QED
    BY <2>1, CallsInv, MapShrinks DEF CallsInv
<1>15. ASSUME NEW c \in Calls, Unwind(c) PROVE MapInv'
  <2>1. \A j \in Ids : entry'[j] # "none" => entry[j] # "none"
    BY <1>15, CallsInv
       DEF Unwind, Goto, Dequeue, DropPermits, CallsInv, TypeOK, Handling,
           server, service, waiting, executor
  <2> QED
    BY <2>1, CallsInv, MapShrinks DEF CallsInv
<1>16. ASSUME NEW i \in Ids, RefuseControl(i) PROVE MapInv'
  <2>1. \A j \in Ids : entry'[j] # "none" => entry[j] # "none"
    BY <1>16, CallsInv
       DEF RefuseControl, CallsInv, TypeOK, Handling, server, service, waiting,
           executor
  <2> QED
    BY <2>1, CallsInv, MapShrinks DEF CallsInv
<1>17. ASSUME NEW i \in Ids, CancelRequest(i) PROVE MapInv'
  <2>1. \A j \in Ids : entry'[j] # "none" => entry[j] # "none"
    BY <1>17, CallsInv
       DEF CancelRequest, CallsInv, TypeOK, Handling, server, service, waiting,
           executor
  <2> QED
    BY <2>1, CallsInv, MapShrinks DEF CallsInv
<1>18. ASSUME NEW s \in {"ready", "failed"}, SetState(s) PROVE MapInv'
  <2>1. \A j \in Ids : entry'[j] # "none" => entry[j] # "none"
    BY <1>18, CallsInv
       DEF SetState, CallsInv, TypeOK, Handling, server, service, waiting,
           executor
  <2> QED
    BY <2>1, CallsInv, MapShrinks DEF CallsInv
<1>19. CASE FinishDirect
  <2>1. \A j \in Ids : entry'[j] # "none" => entry[j] # "none"
    BY <1>19, CallsInv
       DEF FinishDirect, CallsInv, TypeOK, Handling, server, service, waiting,
           executor
  <2> QED
    BY <2>1, CallsInv, MapShrinks DEF CallsInv
<1>20. CASE NotifyWaiters
  <2>1. \A j \in Ids : entry'[j] # "none" => entry[j] # "none"
    BY <1>20, CallsInv
       DEF NotifyWaiters, CallsInv, TypeOK, Handling, server, service, waiting,
           executor
  <2> QED
    BY <2>1, CallsInv, MapShrinks DEF CallsInv
<1>21. CASE UNCHANGED vars
  <2>1. \A j \in Ids : entry'[j] # "none" => entry[j] # "none"
    BY <1>21, CallsInv
       DEF vars, CallsInv, TypeOK, Handling, server, service, waiting, executor
  <2> QED
    BY <2>1, CallsInv, MapShrinks DEF CallsInv
<1> QED
  BY <1>1, <1>2, <1>3, <1>4, <1>5, <1>6, <1>7, <1>8, <1>9, <1>10, <1>11,
     <1>12, <1>13, <1>14, <1>15, <1>16, <1>17, <1>18, <1>19, <1>20, <1>21
     DEF Next, Step

\* Every step keeps sleepers listed or notified.
LEMMA WakeInvNext == CallsInv /\ TypeOK' /\ [Next]_vars => WakeInv'
<1> SUFFICES ASSUME CallsInv, TypeOK', [Next]_vars PROVE WakeInv'
  OBVIOUS
<1>1. ASSUME NEW c \in Calls, Receive(c) PROVE WakeInv'
  BY <1>1, CallsInv, TypeOK'
     DEF Receive, Goto, CallsInv, TypeOK, WakeInv, NoLostWake, Settled,
         Handling, server, service, waiting, executor
<1>2. ASSUME NEW c \in Calls, Prepare(c) PROVE WakeInv'
  BY <1>2, CallsInv, TypeOK'
     DEF Prepare, Goto, Respond, Proceed, Admit, CallsInv, TypeOK, WakeInv,
         NoLostWake, Settled, Handling, server, service, waiting, executor
<1>3. ASSUME NEW c \in Calls, CreateNotified(c) PROVE WakeInv'
  BY <1>3, CallsInv, TypeOK'
     DEF CreateNotified, Goto, CallsInv, TypeOK, WakeInv, NoLostWake, Settled,
         Handling, server, service, waiting, executor
<1>4. ASSUME NEW c \in Calls, CheckState(c) PROVE WakeInv'
  BY <1>4, CallsInv, TypeOK'
     DEF CheckState, Goto, EndWait, Proceed, Admit, Respond, CallsInv, TypeOK,
         WakeInv, NoLostWake, Settled, Handling, server, service, waiting,
         executor
<1>5. ASSUME NEW c \in Calls, Wake(c) PROVE WakeInv'
  BY <1>5, CallsInv, TypeOK'
     DEF Wake, Goto, CallsInv, TypeOK, WakeInv, NoLostWake, Settled, Handling,
         server, service, waiting, executor
<1>6. ASSUME NEW c \in Calls, WaitCancelled(c) PROVE WakeInv'
  BY <1>6, CallsInv, TypeOK'
     DEF WaitCancelled, Goto, Respond, CallsInv, TypeOK, WakeInv, NoLostWake,
         Settled, Handling, server, service, waiting, executor
<1>7. ASSUME NEW c \in Calls, WaitDeadline(c) PROVE WakeInv'
  BY <1>7, CallsInv, TypeOK'
     DEF WaitDeadline, Goto, EndWait, Proceed, Admit, Respond, CallsInv,
         TypeOK, WakeInv, NoLostWake, Settled, Handling, server, service,
         waiting, executor
<1>8. ASSUME NEW c \in Calls, IndexSettled(c) PROVE WakeInv'
  BY <1>8, CallsInv, TypeOK'
     DEF IndexSettled, Goto, Respond, CallsInv, TypeOK, WakeInv, NoLostWake,
         Settled, Handling, server, service, waiting, executor
<1>9. ASSUME NEW c \in Calls, Run(c) PROVE WakeInv'
  BY <1>9, CallsInv, TypeOK'
     DEF Run, Goto, Returned, Respond, CallsInv, TypeOK, WakeInv, NoLostWake,
         Settled, Handling, server, service, waiting, executor
<1>10. ASSUME NEW c \in Calls, Acquire(c) PROVE WakeInv'
  BY <1>10, CallsInv, TypeOK'
     DEF Acquire, Goto, Dequeue, CallsInv, TypeOK, WakeInv, NoLostWake,
         Settled, Handling, server, service, waiting, executor
<1>11. ASSUME NEW c \in Calls, LeaveQueue(c) PROVE WakeInv'
  BY <1>11, CallsInv, TypeOK'
     DEF LeaveQueue, Goto, Dequeue, Returned, Respond, CallsInv, TypeOK,
         WakeInv, NoLostWake, Settled, Handling, server, service, waiting,
         executor
<1>12. ASSUME NEW c \in Calls, StartClosure(c) PROVE WakeInv'
  BY <1>12, CallsInv, TypeOK'
     DEF StartClosure, CallsInv, TypeOK, WakeInv, NoLostWake, Settled,
         Handling, server, service, waiting, executor
<1>13. ASSUME NEW c \in Calls, EndClosure(c) PROVE WakeInv'
  BY <1>13, CallsInv, TypeOK'
     DEF EndClosure, Goto, DropPermits, Returned, Respond, CallsInv, TypeOK,
         WakeInv, NoLostWake, Settled, Handling, server, service, waiting,
         executor
<1>14. ASSUME NEW c \in Calls, Send(c) PROVE WakeInv'
  BY <1>14, CallsInv, TypeOK'
     DEF Send, Goto, CallsInv, TypeOK, WakeInv, NoLostWake, Settled, Handling,
         server, service, waiting, executor
<1>15. ASSUME NEW c \in Calls, Unwind(c) PROVE WakeInv'
  BY <1>15, CallsInv, TypeOK'
     DEF Unwind, Goto, Dequeue, DropPermits, CallsInv, TypeOK, WakeInv,
         NoLostWake, Settled, Handling, server, service, waiting, executor
<1>16. ASSUME NEW i \in Ids, RefuseControl(i) PROVE WakeInv'
  BY <1>16, CallsInv, TypeOK'
     DEF RefuseControl, CallsInv, TypeOK, WakeInv, NoLostWake, Settled,
         Handling, server, service, waiting, executor
<1>17. ASSUME NEW i \in Ids, CancelRequest(i) PROVE WakeInv'
  BY <1>17, CallsInv, TypeOK'
     DEF CancelRequest, CallsInv, TypeOK, WakeInv, NoLostWake, Settled,
         Handling, server, service, waiting, executor
<1>18. ASSUME NEW s \in {"ready", "failed"}, SetState(s) PROVE WakeInv'
  BY <1>18, CallsInv, TypeOK'
     DEF SetState, CallsInv, TypeOK, WakeInv, NoLostWake, Settled, Handling,
         server, service, waiting, executor
<1>19. CASE FinishDirect
  BY <1>19, CallsInv, TypeOK'
     DEF FinishDirect, CallsInv, TypeOK, WakeInv, NoLostWake, Settled,
         Handling, server, service, waiting, executor
<1>20. CASE NotifyWaiters
  BY <1>20, CallsInv, TypeOK'
     DEF NotifyWaiters, CallsInv, TypeOK, WakeInv, NoLostWake, Settled,
         Handling, server, service, waiting, executor
<1>21. CASE UNCHANGED vars
  BY <1>21, CallsInv, TypeOK'
     DEF vars, CallsInv, TypeOK, WakeInv, NoLostWake, Settled, Handling,
         server, service, waiting, executor
<1> QED
  BY <1>1, <1>2, <1>3, <1>4, <1>5, <1>6, <1>7, <1>8, <1>9, <1>10, <1>11,
     <1>12, <1>13, <1>14, <1>15, <1>16, <1>17, <1>18, <1>19, <1>20, <1>21
     DEF Next, Step

\* The invariant holds in every reachable state.
LEMMA CallsInvariant == Spec => []CallsInv
<1>1. Init /\ TypeOK => CallsInv
  BY CallsInvInit DEF CallsInv
<1>2. CallsInv /\ TypeOK' /\ [Next]_vars => CallsInv'
  BY PermitInvNext, CapacityInvNext, ReservedNext, MapInvNext, WakeInvNext
     DEF CallsInv
<1>3. QED
  BY <1>1, <1>2, TypeCorrect, PTL DEF Spec

\* Live handlers have distinct reserved ids, so they are no more than entries.
LEMMA LiveBounded == CallsInv => Cardinality(Live) <= MaxEntries
<1> SUFFICES ASSUME CallsInv PROVE Cardinality(Live) <= MaxEntries
  OBVIOUS
<1> DEFINE E == Entries({"active", "tombstoned"})
           f == [c \in Live |-> idOf[c]]
<1>1. IsFiniteSet(Live) /\ IsFiniteSet(E)
  BY ToolCallsAssumption, FS_Subset DEF Live, Entries
<1>2. f \in [Live -> E]
  BY DEF CallsInv, TypeOK, ReservedUntilAnswered, Live, Entries
<1>3. \A c, d \in Live : f[c] = f[d] => c = d
  BY DEF CallsInv, ReservedUntilAnswered
<1>4. ~(Cardinality(E) < Cardinality(Live))
  <2>1. ASSUME Cardinality(E) < Cardinality(Live)
        PROVE  \E c, d \in Live : c # d /\ f[c] = f[d]
    <3> HIDE DEF f, E
    <3> QED
      BY <2>1, <1>1, <1>2, FS_PigeonHole
  <2>2. QED
    BY <2>1, <1>3
<1>5. Cardinality(E) \in Nat /\ Cardinality(Live) \in Nat
  BY <1>1, FS_CardinalityType
<1>6. Cardinality(E) <= MaxEntries
  BY DEF CallsInv, MapInv
<1>7. QED
  BY <1>4, <1>5, <1>6, ToolCallsAssumption

\* However calls are cancelled, time out or unwind, running closures, admitted
\* runs and live handlers stay within their bounds (BlockingExecutor::run).
THEOREM BoundedWork == Spec => []WorkBounded
<1>1. CallsInv => WorkBounded
  <2> SUFFICES ASSUME CallsInv PROVE WorkBounded
    OBVIOUS
  <2>1. {c \in Calls : work[c] # "none"} = execution
    BY DEF CallsInv, TypeOK, PermitInv
  <2>2. {c \in Calls : work[c] # "none" \/ pc[c] = "queued"} = active
    BY DEF CallsInv, TypeOK, PermitInv
  <2>3. QED
    BY <2>1, <2>2, LiveBounded DEF CallsInv, CapacityInv, WorkBounded
<1>2. QED
  BY <1>1, CallsInvariant, PTL

\* An id is reserved for one call until that call is answered, and no longer
\* (admit_message, tombstone_dispatch, finish_dispatch).
THEOREM Reserved == Spec => []ReservedUntilAnswered
<1>1. CallsInv => ReservedUntilAnswered
  BY DEF CallsInv
<1>2. QED
  BY <1>1, CallsInvariant, PTL

\* No change of the service state is missed by a waiting call
\* (wait_for_services, retry_after_initial_index_with_policy).
THEOREM WakesUp == Spec => []NoLostWake
<1>1. CallsInv => NoLostWake
  BY DEF CallsInv, WakeInv
<1>2. QED
  BY <1>1, CallsInvariant, PTL
=============================================================================
