-------------------------- MODULE McpRuntimeProofs --------------------------
(***************************************************************************)
(* Proofs about McpRuntime, for any set of contexts: the process returns    *)
(* with every task ended, and a ready repository is kept current.           *)
(***************************************************************************)
EXTENDS McpRuntime, TLAPS

\* Type correctness of every reachable state (run_mcp and its tasks).
THEOREM TypeCorrect == Spec => []TypeOK
<1>1. Init => TypeOK
  <2> SUFFICES ASSUME Init PROVE TypeOK
    OBVIOUS
  <2>1. leader \in [Services -> {"none", "self", "other"}]
    BY DEF Init
  <2>2. wait \in [Signals -> WaitPCs]
    BY DEF Init, WaitPCs
  <2>3. state \in [Services -> {"absent", "starting", "ready", "failed"}]
    BY DEF Init
  <2>4. QED
    BY <2>1, <2>2, <2>3 DEF Init, TypeOK, RunPCs
<1>2. TypeOK /\ [Next]_vars => TypeOK'
  <2> SUFFICES ASSUME TypeOK, [Next]_vars PROVE TypeOK'
    OBVIOUS
  <2> USE DEF TypeOK, WaitPCs, RunPCs
  <2>1. CASE MarkInitialized
    BY <2>1, TypeOK
       DEF MarkInitialized, RaiseFlag, Services, Signals, signalVars
  <2>2. CASE ServerEnds
    BY <2>2, TypeOK DEF ServerEnds, Services, Signals, signalVars
  <2>3. CASE ReturnUnstarted
    BY <2>3, TypeOK DEF ReturnUnstarted, Exit, Services, Signals, signalVars
  <2>4. CASE StartRuntime
    BY <2>4, TypeOK DEF StartRuntime, Services, Signals, signalVars
  <2>5. CASE StopRuntime
    BY <2>5, TypeOK DEF StopRuntime, Exit, Services, Signals, signalVars
  <2>6. CASE JoinRuntime
    BY <2>6, TypeOK DEF JoinRuntime, Exit, Services, Signals, signalVars
  <2>7. CASE JoinTimeout
    BY <2>7, TypeOK DEF JoinTimeout, Exit, Services, Signals, signalVars
  <2>8. CASE ReportFailure
    BY <2>8, TypeOK DEF ReportFailure, Services, Signals, signalVars
  <2>9. CASE Drained
    BY <2>9, TypeOK DEF Drained, Exit, Services, Signals, signalVars
  <2>10. CASE Configure
    BY <2>10, TypeOK DEF Configure, Services, Signals, signalVars
  <2>11. CASE OpenPrimaryFails
    BY <2>11, TypeOK DEF OpenPrimaryFails, Services, Signals, signalVars
  <2>12. CASE OpenPrimary
    BY <2>12, TypeOK DEF OpenPrimary, Services, Signals, signalVars
  <2>13. CASE JoinContexts
    BY <2>13, TypeOK DEF JoinContexts, Services, Signals, signalVars
  <2>14. CASE Terminated
    BY <2>14, TypeOK DEF Terminated, vars, Services, Signals, signalVars
  <2>15. ASSUME NEW s \in Services, RequestActivation(s) PROVE TypeOK'
    BY <2>15, TypeOK
       DEF RequestActivation, RaiseFlag, Services, Signals, signalVars
  <2>16. ASSUME NEW s \in Services, LoopCancelled(s) PROVE TypeOK'
    BY <2>16, TypeOK DEF LoopCancelled, EndLoop, Services, Signals, signalVars
  <2>17. ASSUME NEW s \in Services, ProbeLeadership(s) PROVE TypeOK'
    BY <2>17, TypeOK DEF ProbeLeadership, Services, Signals, signalVars
  <2>18. ASSUME NEW s \in Services, ProbeFails(s) PROVE TypeOK'
    BY <2>18, TypeOK DEF ProbeFails, EndLoop, Services, Signals, signalVars
  <2>19. ASSUME NEW s \in Services, LeadCancelled(s) PROVE TypeOK'
    BY <2>19, TypeOK
       DEF LeadCancelled, EndLoop, DropLeader, Services, Signals, signalVars
  <2>20. ASSUME NEW s \in Services, LeadTerminal(s) PROVE TypeOK'
    BY <2>20, TypeOK
       DEF LeadTerminal, EndLoop, DropLeader, Services, Signals, signalVars
  <2>21. ASSUME NEW s \in Services, LeadEnds(s) PROVE TypeOK'
    BY <2>21, TypeOK DEF LeadEnds, DropLeader, Services, Signals, signalVars
  <2>22. ASSUME NEW s \in Services, DelayEnds(s) PROVE TypeOK'
    BY <2>22, TypeOK DEF DelayEnds, Services, Signals, signalVars
  <2>23. ASSUME NEW s \in Services, FollowCancelled(s) PROVE TypeOK'
    BY <2>23, TypeOK DEF FollowCancelled, EndLoop, Services, Signals, signalVars
  <2>24. ASSUME NEW s \in Services, OtherProcess(s) PROVE TypeOK'
    BY <2>24, TypeOK DEF OtherProcess, Services, Signals, signalVars
  <2>25. ASSUME NEW g \in Signals, NotifyWaiters(g) PROVE TypeOK'
    BY <2>25, TypeOK DEF NotifyWaiters, Services, Signals, signalVars
  <2>26. ASSUME NEW g \in Signals, CreateNotified(g) PROVE TypeOK'
    BY <2>26, TypeOK DEF CreateNotified, Services, Signals, signalVars
  <2>27. ASSUME NEW g \in Signals, CheckFlag(g) PROVE TypeOK'
    BY <2>27, TypeOK DEF CheckFlag, Services, Signals, signalVars
  <2>28. ASSUME NEW g \in Signals, AwaitNotified(g) PROVE TypeOK'
    BY <2>28, TypeOK DEF AwaitNotified, Services, Signals, signalVars
  <2>29. ASSUME NEW c \in Contexts, Activated(c) PROVE TypeOK'
    BY <2>29, TypeOK DEF Activated, Services, Signals, signalVars
  <2>30. ASSUME NEW c \in Contexts, ActivationCancelled(c) PROVE TypeOK'
    BY <2>30, TypeOK DEF ActivationCancelled, Services, Signals, signalVars
  <2>31. ASSUME NEW c \in Contexts, OpenContext(c) PROVE TypeOK'
    BY <2>31, TypeOK DEF OpenContext, Services, Signals, signalVars
  <2>32. CASE UNCHANGED vars
    BY <2>32 DEF vars, Services, Signals
  <2> QED
    BY <2>1, <2>2, <2>3, <2>4, <2>5, <2>6, <2>7, <2>8, <2>9, <2>10, <2>11,
       <2>12, <2>13, <2>14, <2>15, <2>16, <2>17, <2>18, <2>19, <2>20,
       <2>21, <2>22, <2>23, <2>24, <2>25, <2>26, <2>27, <2>28, <2>29,
       <2>30, <2>31, <2>32 DEF Next, SignalStep, MainStep, RuntimeStep,
       ContextStep, LoopStep
<1>3. QED
  BY <1>1, <1>2, PTL DEF Spec

-----------------------------------------------------------------------------
\* The tasks run_mcp_runtime has started, by where it is: nothing before the
\* runtime starts, only the primary until it is open, nothing after it is done.
Started ==
  /\ main = "select" => runtime = "off"
  /\ main = "drain" => runtime = "done"
  /\ runtime = "off" => \A s \in Services : run[s] = "off"
  /\ runtime = "joining" => run[Primary] = "ended"
  /\ runtime = "done" => \A s \in Services : run[s] \in {"off", "ended"}
  /\ run[Primary] \in {"off", "configure", "open"} =>
       \A c \in Contexts : run[c] = "off"

\* run_mcp returned by itself only when nothing was started or all had ended.
Returned ==
  /\ outcome # "none" => main = "exit"
  /\ outcome \in {"closed", "stopped", "failed"} => runtime \in {"off", "done"}

\* The inductive invariant of the orderly exit.
ExitInv == TypeOK /\ Started /\ Returned

\* Nothing is started initially.
LEMMA ExitInvInit == Init => Started /\ Returned
BY DEF Init, Started, Returned, Services

\* Every step of every task keeps the correspondence.
LEMMA ExitInvNext == ExitInv /\ TypeOK' /\ [Next]_vars => Started' /\ Returned'
<1> SUFFICES ASSUME ExitInv, TypeOK', [Next]_vars PROVE Started' /\ Returned'
  OBVIOUS
<1>1. Started' /\ Returned'
  <2>1. CASE MarkInitialized
    BY <2>1, ExitInv, ServicesAssumption
       DEF MarkInitialized, RaiseFlag, ExitInv, TypeOK, Started, Returned,
           Services, Alive, signalVars
  <2>2. CASE ServerEnds
    BY <2>2, ExitInv, ServicesAssumption
       DEF ServerEnds, ExitInv, TypeOK, Started, Returned, Services, Alive,
           signalVars
  <2>3. CASE ReturnUnstarted
    BY <2>3, ExitInv, ServicesAssumption
       DEF ReturnUnstarted, Exit, ExitInv, TypeOK, Started, Returned, Services,
           Alive, signalVars
  <2>4. CASE StartRuntime
    BY <2>4, ExitInv, ServicesAssumption
       DEF StartRuntime, ExitInv, TypeOK, Started, Returned, Services, Alive,
           signalVars
  <2>5. CASE StopRuntime
    BY <2>5, ExitInv, ServicesAssumption
       DEF StopRuntime, Exit, ExitInv, TypeOK, Started, Returned, Services,
           Alive, signalVars
  <2>6. CASE JoinRuntime
    BY <2>6, ExitInv, ServicesAssumption
       DEF JoinRuntime, Exit, ExitInv, TypeOK, Started, Returned, Services,
           Alive, signalVars
  <2>7. CASE JoinTimeout
    BY <2>7, ExitInv, ServicesAssumption
       DEF JoinTimeout, Exit, ExitInv, TypeOK, Started, Returned, Services,
           Alive, signalVars
  <2>8. CASE ReportFailure
    BY <2>8, ExitInv, ServicesAssumption
       DEF ReportFailure, ExitInv, TypeOK, Started, Returned, Services, Alive,
           signalVars
  <2>9. CASE Drained
    BY <2>9, ExitInv, ServicesAssumption
       DEF Drained, Exit, ExitInv, TypeOK, Started, Returned, Services, Alive,
           signalVars
  <2>10. CASE Configure
    BY <2>10, ExitInv, ServicesAssumption
       DEF Configure, ExitInv, TypeOK, Started, Returned, Services, Alive,
           signalVars
  <2>11. CASE OpenPrimaryFails
    BY <2>11, ExitInv, ServicesAssumption
       DEF OpenPrimaryFails, ExitInv, TypeOK, Started, Returned, Services,
           Alive, signalVars
  <2>12. CASE OpenPrimary
    BY <2>12, ExitInv, ServicesAssumption
       DEF OpenPrimary, ExitInv, TypeOK, Started, Returned, Services, Alive,
           signalVars
  <2>13. CASE JoinContexts
    BY <2>13, ExitInv, ServicesAssumption
       DEF JoinContexts, ExitInv, TypeOK, Started, Returned, Services, Alive,
           signalVars
  <2>14. CASE Terminated
    BY <2>14, ExitInv, ServicesAssumption
       DEF Terminated, vars, ExitInv, TypeOK, Started, Returned, Services,
           Alive, signalVars
  <2>15. ASSUME NEW s \in Services, RequestActivation(s) PROVE Started' /\
     Returned'
    BY <2>15, ExitInv, ServicesAssumption
       DEF RequestActivation, RaiseFlag, ExitInv, TypeOK, Started, Returned,
           Services, Alive, signalVars
  <2>16. ASSUME NEW s \in Services, LoopCancelled(s) PROVE Started' /\ Returned'
    BY <2>16, ExitInv, ServicesAssumption
       DEF LoopCancelled, EndLoop, ExitInv, TypeOK, Started, Returned, Services,
           Alive, signalVars
  <2>17. ASSUME NEW s \in Services, ProbeLeadership(s) PROVE Started' /\
     Returned'
    BY <2>17, ExitInv, ServicesAssumption
       DEF ProbeLeadership, ExitInv, TypeOK, Started, Returned, Services, Alive,
           signalVars
  <2>18. ASSUME NEW s \in Services, ProbeFails(s) PROVE Started' /\ Returned'
    BY <2>18, ExitInv, ServicesAssumption
       DEF ProbeFails, EndLoop, ExitInv, TypeOK, Started, Returned, Services,
           Alive, signalVars
  <2>19. ASSUME NEW s \in Services, LeadCancelled(s) PROVE Started' /\ Returned'
    BY <2>19, ExitInv, ServicesAssumption
       DEF LeadCancelled, EndLoop, DropLeader, ExitInv, TypeOK, Started,
           Returned, Services, Alive, signalVars
  <2>20. ASSUME NEW s \in Services, LeadTerminal(s) PROVE Started' /\ Returned'
    BY <2>20, ExitInv, ServicesAssumption
       DEF LeadTerminal, EndLoop, DropLeader, ExitInv, TypeOK, Started,
           Returned, Services, Alive, signalVars
  <2>21. ASSUME NEW s \in Services, LeadEnds(s) PROVE Started' /\ Returned'
    BY <2>21, ExitInv, ServicesAssumption
       DEF LeadEnds, DropLeader, ExitInv, TypeOK, Started, Returned, Services,
           Alive, signalVars
  <2>22. ASSUME NEW s \in Services, DelayEnds(s) PROVE Started' /\ Returned'
    BY <2>22, ExitInv, ServicesAssumption
       DEF DelayEnds, ExitInv, TypeOK, Started, Returned, Services, Alive,
           signalVars
  <2>23. ASSUME NEW s \in Services, FollowCancelled(s) PROVE Started' /\
     Returned'
    BY <2>23, ExitInv, ServicesAssumption
       DEF FollowCancelled, EndLoop, ExitInv, TypeOK, Started, Returned,
           Services, Alive, signalVars
  <2>24. ASSUME NEW s \in Services, OtherProcess(s) PROVE Started' /\ Returned'
    BY <2>24, ExitInv, ServicesAssumption
       DEF OtherProcess, ExitInv, TypeOK, Started, Returned, Services, Alive,
           signalVars
  <2>25. ASSUME NEW g \in Signals, NotifyWaiters(g) PROVE Started' /\ Returned'
    BY <2>25, ExitInv, ServicesAssumption
       DEF NotifyWaiters, ExitInv, TypeOK, Started, Returned, Services, Alive,
           signalVars
  <2>26. ASSUME NEW g \in Signals, CreateNotified(g) PROVE Started' /\ Returned'
    BY <2>26, ExitInv, ServicesAssumption
       DEF CreateNotified, ExitInv, TypeOK, Started, Returned, Services, Alive,
           signalVars
  <2>27. ASSUME NEW g \in Signals, CheckFlag(g) PROVE Started' /\ Returned'
    BY <2>27, ExitInv, ServicesAssumption
       DEF CheckFlag, ExitInv, TypeOK, Started, Returned, Services, Alive,
           signalVars
  <2>28. ASSUME NEW g \in Signals, AwaitNotified(g) PROVE Started' /\ Returned'
    BY <2>28, ExitInv, ServicesAssumption
       DEF AwaitNotified, ExitInv, TypeOK, Started, Returned, Services, Alive,
           signalVars
  <2>29. ASSUME NEW c \in Contexts, Activated(c) PROVE Started' /\ Returned'
    BY <2>29, ExitInv, ServicesAssumption
       DEF Activated, ExitInv, TypeOK, Started, Returned, Services, Alive,
           signalVars
  <2>30. ASSUME NEW c \in Contexts, ActivationCancelled(c)
        PROVE  Started' /\ Returned'
    BY <2>30, ExitInv, ServicesAssumption
       DEF ActivationCancelled, ExitInv, TypeOK, Started, Returned, Services,
           Alive, signalVars
  <2>31. ASSUME NEW c \in Contexts, OpenContext(c) PROVE Started' /\ Returned'
    BY <2>31, ExitInv, ServicesAssumption
       DEF OpenContext, ExitInv, TypeOK, Started, Returned, Services, Alive,
           signalVars
  <2>32. CASE UNCHANGED vars
    BY <2>32 DEF vars, ExitInv, TypeOK, Started, Returned, Services, Alive
  <2> QED
    BY <2>1, <2>2, <2>3, <2>4, <2>5, <2>6, <2>7, <2>8, <2>9, <2>10, <2>11,
       <2>12, <2>13, <2>14, <2>15, <2>16, <2>17, <2>18, <2>19, <2>20,
       <2>21, <2>22, <2>23, <2>24, <2>25, <2>26, <2>27, <2>28, <2>29,
       <2>30, <2>31, <2>32 DEF Next, SignalStep, MainStep, RuntimeStep,
       ContextStep, LoopStep
<1> QED
  BY <1>1

\* The invariant of the orderly exit holds.
LEMMA ExitInvHolds == Spec => []ExitInv
BY ExitInvInit, ExitInvNext, TypeCorrect, PTL DEF Spec, ExitInv

\* A process that returns by itself leaves no repository task running, for any
\* number of contexts (supervise_mcp_tasks, run_mcp_runtime).
THEOREM ExitIsOrderly == Spec => []OrderlyExit
<1>1. ExitInv => OrderlyExit
  BY DEF ExitInv, Started, Returned, OrderlyExit
<1>2. QED
  BY <1>1, ExitInvHolds, PTL

-----------------------------------------------------------------------------
\* Where the task of a ready repository is.
ReadyInv ==
  \A s \in Services :
    state[s] = "ready"
      => \/ run[s] \in {"probe", "lead", "backoff", "follow"}
         \/ run[s] = "ended" /\ cancelled

\* Every step keeps a ready repository's loop running or cancelled.
LEMMA ReadyInvNext == ExitInv /\ ReadyInv /\ [Next]_vars => ReadyInv'
<1> SUFFICES ASSUME ExitInv, ReadyInv, [Next]_vars PROVE ReadyInv'
  OBVIOUS
<1>1. ReadyInv'
  <2>1. CASE MarkInitialized
    BY <2>1, ExitInv, ReadyInv, ServicesAssumption
       DEF MarkInitialized, RaiseFlag, ExitInv, TypeOK, Started, ReadyInv,
           Services, signalVars
  <2>2. CASE ServerEnds
    BY <2>2, ExitInv, ReadyInv, ServicesAssumption
       DEF ServerEnds, ExitInv, TypeOK, Started, ReadyInv, Services, signalVars
  <2>3. CASE ReturnUnstarted
    BY <2>3, ExitInv, ReadyInv, ServicesAssumption
       DEF ReturnUnstarted, Exit, ExitInv, TypeOK, Started, ReadyInv, Services,
           signalVars
  <2>4. CASE StartRuntime
    BY <2>4, ExitInv, ReadyInv, ServicesAssumption
       DEF StartRuntime, ExitInv, TypeOK, Started, ReadyInv, Services,
           signalVars
  <2>5. CASE StopRuntime
    BY <2>5, ExitInv, ReadyInv, ServicesAssumption
       DEF StopRuntime, Exit, ExitInv, TypeOK, Started, ReadyInv, Services,
           signalVars
  <2>6. CASE JoinRuntime
    BY <2>6, ExitInv, ReadyInv, ServicesAssumption
       DEF JoinRuntime, Exit, ExitInv, TypeOK, Started, ReadyInv, Services,
           signalVars
  <2>7. CASE JoinTimeout
    BY <2>7, ExitInv, ReadyInv, ServicesAssumption
       DEF JoinTimeout, Exit, ExitInv, TypeOK, Started, ReadyInv, Services,
           signalVars
  <2>8. CASE ReportFailure
    BY <2>8, ExitInv, ReadyInv, ServicesAssumption
       DEF ReportFailure, ExitInv, TypeOK, Started, ReadyInv, Services,
           signalVars
  <2>9. CASE Drained
    BY <2>9, ExitInv, ReadyInv, ServicesAssumption
       DEF Drained, Exit, ExitInv, TypeOK, Started, ReadyInv, Services,
           signalVars
  <2>10. CASE Configure
    BY <2>10, ExitInv, ReadyInv, ServicesAssumption
       DEF Configure, ExitInv, TypeOK, Started, ReadyInv, Services, signalVars
  <2>11. CASE OpenPrimaryFails
    BY <2>11, ExitInv, ReadyInv, ServicesAssumption
       DEF OpenPrimaryFails, ExitInv, TypeOK, Started, ReadyInv, Services,
           signalVars
  <2>12. CASE OpenPrimary
    BY <2>12, ExitInv, ReadyInv, ServicesAssumption
       DEF OpenPrimary, ExitInv, TypeOK, Started, ReadyInv, Services, signalVars
  <2>13. CASE JoinContexts
    BY <2>13, ExitInv, ReadyInv, ServicesAssumption
       DEF JoinContexts, ExitInv, TypeOK, Started, ReadyInv, Services,
           signalVars
  <2>14. CASE Terminated
    BY <2>14, ExitInv, ReadyInv, ServicesAssumption
       DEF Terminated, vars, ExitInv, TypeOK, Started, ReadyInv, Services,
           signalVars
  <2>15. ASSUME NEW s \in Services, RequestActivation(s) PROVE ReadyInv'
    BY <2>15, ExitInv, ReadyInv, ServicesAssumption
       DEF RequestActivation, RaiseFlag, ExitInv, TypeOK, Started, ReadyInv,
           Services, signalVars
  <2>16. ASSUME NEW s \in Services, LoopCancelled(s) PROVE ReadyInv'
    BY <2>16, ExitInv, ReadyInv, ServicesAssumption
       DEF LoopCancelled, EndLoop, ExitInv, TypeOK, Started, ReadyInv, Services,
           signalVars
  <2>17. ASSUME NEW s \in Services, ProbeLeadership(s) PROVE ReadyInv'
    BY <2>17, ExitInv, ReadyInv, ServicesAssumption
       DEF ProbeLeadership, ExitInv, TypeOK, Started, ReadyInv, Services,
           signalVars
  <2>18. ASSUME NEW s \in Services, ProbeFails(s) PROVE ReadyInv'
    BY <2>18, ExitInv, ReadyInv, ServicesAssumption
       DEF ProbeFails, EndLoop, ExitInv, TypeOK, Started, ReadyInv, Services,
           signalVars
  <2>19. ASSUME NEW s \in Services, LeadCancelled(s) PROVE ReadyInv'
    BY <2>19, ExitInv, ReadyInv, ServicesAssumption
       DEF LeadCancelled, EndLoop, DropLeader, ExitInv, TypeOK, Started,
           ReadyInv, Services, signalVars
  <2>20. ASSUME NEW s \in Services, LeadTerminal(s) PROVE ReadyInv'
    BY <2>20, ExitInv, ReadyInv, ServicesAssumption
       DEF LeadTerminal, EndLoop, DropLeader, ExitInv, TypeOK, Started,
           ReadyInv, Services, signalVars
  <2>21. ASSUME NEW s \in Services, LeadEnds(s) PROVE ReadyInv'
    BY <2>21, ExitInv, ReadyInv, ServicesAssumption
       DEF LeadEnds, DropLeader, ExitInv, TypeOK, Started, ReadyInv, Services,
           signalVars
  <2>22. ASSUME NEW s \in Services, DelayEnds(s) PROVE ReadyInv'
    BY <2>22, ExitInv, ReadyInv, ServicesAssumption
       DEF DelayEnds, ExitInv, TypeOK, Started, ReadyInv, Services, signalVars
  <2>23. ASSUME NEW s \in Services, FollowCancelled(s) PROVE ReadyInv'
    BY <2>23, ExitInv, ReadyInv, ServicesAssumption
       DEF FollowCancelled, EndLoop, ExitInv, TypeOK, Started, ReadyInv,
           Services, signalVars
  <2>24. ASSUME NEW s \in Services, OtherProcess(s) PROVE ReadyInv'
    BY <2>24, ExitInv, ReadyInv, ServicesAssumption
       DEF OtherProcess, ExitInv, TypeOK, Started, ReadyInv, Services,
           signalVars
  <2>25. ASSUME NEW g \in Signals, NotifyWaiters(g) PROVE ReadyInv'
    BY <2>25, ExitInv, ReadyInv, ServicesAssumption
       DEF NotifyWaiters, ExitInv, TypeOK, Started, ReadyInv, Services,
           signalVars
  <2>26. ASSUME NEW g \in Signals, CreateNotified(g) PROVE ReadyInv'
    BY <2>26, ExitInv, ReadyInv, ServicesAssumption
       DEF CreateNotified, ExitInv, TypeOK, Started, ReadyInv, Services,
           signalVars
  <2>27. ASSUME NEW g \in Signals, CheckFlag(g) PROVE ReadyInv'
    BY <2>27, ExitInv, ReadyInv, ServicesAssumption
       DEF CheckFlag, ExitInv, TypeOK, Started, ReadyInv, Services, signalVars
  <2>28. ASSUME NEW g \in Signals, AwaitNotified(g) PROVE ReadyInv'
    BY <2>28, ExitInv, ReadyInv, ServicesAssumption
       DEF AwaitNotified, ExitInv, TypeOK, Started, ReadyInv, Services,
           signalVars
  <2>29. ASSUME NEW c \in Contexts, Activated(c) PROVE ReadyInv'
    BY <2>29, ExitInv, ReadyInv, ServicesAssumption
       DEF Activated, ExitInv, TypeOK, Started, ReadyInv, Services, signalVars
  <2>30. ASSUME NEW c \in Contexts, ActivationCancelled(c) PROVE ReadyInv'
    BY <2>30, ExitInv, ReadyInv, ServicesAssumption
       DEF ActivationCancelled, ExitInv, TypeOK, Started, ReadyInv, Services,
           signalVars
  <2>31. ASSUME NEW c \in Contexts, OpenContext(c) PROVE ReadyInv'
    BY <2>31, ExitInv, ReadyInv, ServicesAssumption
       DEF OpenContext, ExitInv, TypeOK, Started, ReadyInv, Services, signalVars
  <2>32. CASE UNCHANGED vars
    BY <2>32 DEF vars, ExitInv, TypeOK, Started, ReadyInv, Services
  <2> QED
    BY <2>1, <2>2, <2>3, <2>4, <2>5, <2>6, <2>7, <2>8, <2>9, <2>10, <2>11,
       <2>12, <2>13, <2>14, <2>15, <2>16, <2>17, <2>18, <2>19, <2>20,
       <2>21, <2>22, <2>23, <2>24, <2>25, <2>26, <2>27, <2>28, <2>29,
       <2>30, <2>31, <2>32 DEF Next, SignalStep, MainStep, RuntimeStep,
       ContextStep, LoopStep
<1> QED
  BY <1>1

\* A repository that reports itself ready has a running index loop until the
\* runtime is cancelled (run_mcp_runtime, run_mcp_index_loop).
THEOREM ReadyStaysMaintained == Spec => []ReadyIsMaintained
<1>1. Init => ReadyInv
  BY DEF Init, ReadyInv, Services
<1>2. ReadyInv => ReadyIsMaintained
  BY DEF ReadyInv, ReadyIsMaintained
<1>3. QED
  BY <1>1, <1>2, ReadyInvNext, ExitInvHolds, PTL DEF Spec
=============================================================================
