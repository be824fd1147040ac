------------------------ MODULE SetupTransactionProofs ------------------------
(***************************************************************************)
(* Proofs about SetupTransaction, for any number of clients, skills,        *)
(* runtimes, processes, edits and faults: what users wrote survives, every  *)
(* registration names an installed runtime, skills are there exactly where  *)
(* something is registered, and a process serves only from an artifact that *)
(* stays installed.                                                         *)
(***************************************************************************)
EXTENDS SetupTransaction, WellFoundedInduction, TLAPS

\* The edit order has a first entry (Min in apply_plan and recovery).
LEMMA MinIsFirst ==
  ASSUME NEW S, S \subseteq Nat, S # {}
  PROVE  Min(S) \in S /\ \A y \in S : Min(S) <= y
<1>1. PICK x \in S : \A y \in S : ~ (<<y, x>> \in OpToRel(<, Nat))
  BY NatLessThanWellFounded, WFMin
<1>2. \A y \in S : ~ (y < x)
  BY <1>1, Zenon DEF OpToRel
<1>3. \A y \in S : x <= y
  BY <1>2
<1> QED
  BY <1>3, Zenon DEF Min

\* Paths are numbered, clients before skills, and the last one is an upper bound
\* (rollback_setup starts there).
LEMMA PathNumbers ==
  /\ Clients \subseteq Paths /\ Skills \subseteq Paths /\ Paths \subseteq Nat
  /\ Clients \cap Skills = {}
  /\ \A p \in Paths : p <= Max(Paths)
<1>1. /\ Clients \subseteq Paths /\ Skills \subseteq Paths /\ Paths \subseteq Nat
      /\ Clients \cap Skills = {}
  BY ConstantsAssumption DEF Clients, Skills, Paths
<1>2. ASSUME NEW p \in Paths PROVE \E x \in Paths : \A y \in Paths : x >= y
  <2>1. CASE NumSkills = 0
    BY <1>2, <2>1, ConstantsAssumption DEF Clients, Skills, Paths
  <2>2. CASE NumSkills # 0
    <3>1. NumClients + NumSkills \in Paths
      BY <2>2, ConstantsAssumption DEF Clients, Skills, Paths
    <3>2. \A y \in Paths : NumClients + NumSkills >= y
      BY ConstantsAssumption DEF Clients, Skills, Paths
    <3> QED
      BY <3>1, <3>2
  <2> QED
    BY <2>1, <2>2
<1>3. ASSUME NEW p \in Paths PROVE p <= Max(Paths)
  <2>1. \A y \in Paths : Max(Paths) >= y /\ Max(Paths) \in Paths
    BY <1>2, Zenon DEF Max
  <2> QED
    BY <1>1, <2>1
<1> QED
  BY <1>1, <1>3

\* A missing file is a content, and a run that has not begun is typed.
LEMMA EmptyRun == Absent \in Content /\ NoRun \in RunRecords
BY DEF Absent, Content, NoRun, RunRecords

\* The first path of a run that has one is a path (apply_plan).
LEMMA FirstPath ==
  ASSUME TypeOK, run.todo # {}
  PROVE  /\ Min(run.todo) \in run.todo /\ Min(run.todo) \in Paths
         /\ \A q \in run.todo : Min(run.todo) <= q
<1>1. run.todo \subseteq Paths
  BY DEF TypeOK, RunRecords
<1> QED
  BY <1>1, MinIsFirst, PathNumbers

\* The skills a plan writes or cleans up are skills (run_prepared).
LEMMA PlannedSkills ==
  ASSUME NEW op, NEW selected \in SUBSET Clients, NEW f
  PROVE  /\ WrittenSkills(op, selected, f) \subseteq Skills
         /\ CleanedSkills(op, selected, f) \subseteq Skills
<1>1. \A C \in SUBSET Clients : SkillsOf(C) \subseteq Skills
  BY ConstantsAssumption DEF SkillsOf
<1>2. WrittenSkills(op, selected, f) \subseteq Skills
  BY <1>1 DEF WrittenSkills
<1>3. CleanedSkills(op, selected, f) \subseteq Skills
  BY DEF CleanedSkills
<1> QED
  BY <1>2, <1>3

\* What a plan writes is typed (resolve_plan).
LEMMA PlanTyped ==
  ASSUME NEW op, NEW want \in Launchers \cup {None}, NEW selected,
         NEW f \in [Paths -> Content]
  PROVE  Updated(op, want, selected, f) \in [Paths -> Content]
<1> SUFFICES ASSUME NEW p \in Paths
             PROVE  Updated(op, want, selected, f)[p] \in Content
  BY DEF Updated
<1>1. f[p] \in Content
  OBVIOUS
<1>2. ClientUpdate(op, want, f[p]) \in Content
  BY <1>1 DEF ClientUpdate, Content, Launchers
<1>3. SkillUpdate(op, want, f[p]) \in Content /\ SkillUpdate("remove", want, f[p]) \in Content
  BY <1>1, EmptyRun DEF SkillUpdate, Content, Launchers
<1> QED
  BY <1>1, <1>2, <1>3 DEF Updated

\* The journal a run writes covers its changed paths (serialize_journal).
LEMMA JournalTyped ==
  ASSUME TypeOK, NEW state \in {"pending", "committed"}, journal' = JournalOf(state)
  PROVE  /\ journal'.state = state
         /\ EntriesOf(journal') = Changed(run) /\ Changed(run) \subseteq Paths
         /\ EntriesOf(journal') = DOMAIN journal'.updated
         /\ \A p \in Changed(run) : /\ journal'.original[p] = run.original[p]
                                    /\ journal'.updated[p] = run.updated[p]
                                    /\ run.original[p] \in Content
                                    /\ run.updated[p] \in Content
<1>1. Changed(run) \subseteq Paths
  BY DEF TypeOK, RunRecords, Changed
<1> QED
  BY <1>1 DEF JournalOf, EntriesOf, TypeOK, RunRecords

\* An empty journal has no entries (remove_journal).
LEMMA NoJournalTyped ==
  /\ NoJournal.state = "none" /\ EntriesOf(NoJournal) = {}
  /\ DOMAIN NoJournal.updated = {}
BY DEF NoJournal, EntriesOf

\* A run that is done with a path, or failed on it, is typed (rollback_setup).
LEMMA Dropped ==
  ASSUME TypeOK, NEW p
  PROVE  /\ [run EXCEPT !.todo = run.todo \ {p}] \in RunRecords
         /\ [run EXCEPT !.todo = run.todo \ {p}, !.failed = TRUE] \in RunRecords
BY DEF TypeOK, RunRecords

\* Removing an artifact leaves runtimes and processes typed
\* (remove_runtime_directory).
LEMMA RemovalTyped ==
  ASSUME TypeOK, NEW r, RemoveRuntime(r)
  PROVE  /\ runtimes' \subseteq Runtimes
         /\ server' \in [Servers -> [at : {"off", "starting", "leased", "serving"},
                                    runtime : Runtimes \cup {None}, intact : BOOLEAN]]
BY DEF TypeOK, RemoveRuntime

\* A user writes a content (UserWrite stands for every user's change).
LEMMA UserContent ==
  ASSUME TypeOK, NEW p \in Paths, UserEdit(p) \/ UserDelete(p) \/ UserRepair(p)
  PROVE  \E content \in Content, last \in 0 .. MaxEdits :
           /\ UserWrite(p, content, last)
           /\ \/ content.reg \in Nameable(p)
              \/ /\ journal.state = "pending" /\ p \in EntriesOf(journal)
                 /\ content = journal.original[p]
<1>1. CASE UserEdit(p)
  <2>1. PICK reg \in Nameable(p) :
          UserWrite(p, [there |-> TRUE, user |-> edits.last + 1, reg |-> reg],
                    edits.last + 1)
    BY <1>1 DEF UserEdit
  <2>2. [there |-> TRUE, user |-> edits.last + 1, reg |-> reg] \in Content
    BY ConstantsAssumption DEF TypeOK, Content, Nameable, Launchers
  <2>3. edits.last + 1 \in 0 .. MaxEdits
    BY <1>1, ConstantsAssumption DEF UserEdit, TypeOK
  <2> QED
    BY <2>1, <2>2, <2>3
<1>2. CASE UserDelete(p)
  <2>1. Absent.reg = None /\ None \in Nameable(p)
    BY DEF Absent, Nameable
  <2>2. edits.last + 1 \in 0 .. MaxEdits
    BY <1>2, ConstantsAssumption DEF UserDelete, TypeOK
  <2> QED
    BY <1>2, <2>1, <2>2, EmptyRun, Zenon DEF UserDelete
<1>3. CASE UserRepair(p)
  <2>1. journal.original[p] \in Content /\ p \in EntriesOf(journal)
    BY <1>3 DEF UserRepair, TypeOK, EntriesOf
  <2>2. edits.last \in 0 .. MaxEdits
    BY DEF TypeOK
  <2> QED
    BY <1>3, <2>1, <2>2, Zenon DEF UserRepair
<1> QED
  BY <1>1, <1>2, <1>3

\* Type correctness is kept by every step of a run, of a user and of a process.
LEMMA StepTyped == TypeOK /\ [Next]_vars => TypeOK'
<1> SUFFICES ASSUME TypeOK, [Next]_vars PROVE TypeOK'
  OBVIOUS
<1>1. CASE Recover
  <2>1. run' \in RunRecords
    BY <1>1, TypeOK DEF Recover, TypeOK, RunRecords, EntriesOf
  <2>2. pc' = "recovering" => run'.todo \subseteq EntriesOf(journal)
    BY <1>1, TypeOK DEF Recover, Goto, TypeOK, RunRecords, EntriesOf
  <2>3. pc' \in {"inventory", "resolve", "forget", "recovering"}
    BY <1>1 DEF Recover, Goto
  <2> QED
    BY <1>1, <2>1, <2>2, <2>3, TypeOK
       DEF Recover, NoFault, others, ghosts, TypeOK, Labels
<1>2. CASE RecoverCheck
  BY <1>2, TypeOK, EmptyRun, FirstPath, ConstantsAssumption
     DEF RecoverCheck, Goto, Exit, Fault, NoFault, others, ghosts, TypeOK,
         RunRecords, Labels
<1>3. CASE RecoverWrite
  BY <1>3, TypeOK, EmptyRun, FirstPath, ConstantsAssumption
     DEF RecoverWrite, Goto, Exit, Fault, NoFault, others, ghosts, TypeOK,
         RunRecords, Labels
<1>4. CASE RecoverDone
  BY <1>4, TypeOK, EmptyRun, ConstantsAssumption
     DEF RecoverDone, Goto, Exit, Fault, NoFault, others, ghosts, TypeOK,
         RunRecords, Labels
<1>5. CASE Forget
  BY <1>5, TypeOK, EmptyRun, NoJournalTyped, ConstantsAssumption
     DEF Forget, Goto, Exit, Fault, NoFault, others, ghosts, TypeOK, RunRecords,
         Labels
<1>6. CASE Resolve
  <2>1. CASE Exit
    BY <1>6, <2>1, TypeOK, EmptyRun
       DEF Resolve, Exit, Goto, NoFault, others, ghosts, TypeOK, Labels
  <2>2. CASE ~Exit
    <3> DEFINE written == WrittenSkills(run.op, run.selected, file)
               cleaned == CleanedSkills(run.op, run.selected, file)
               updated == Updated(run.op, run.want, run.selected, file)
    <3>1. /\ run' = [run EXCEPT !.original = file, !.updated = updated,
                         !.planned = run.selected \cup written \cup cleaned]
          /\ pc' = "confirm"
      BY <1>6, <2>2 DEF Resolve, Goto
    <3>2. /\ run.selected \in SUBSET Clients /\ run.want \in Launchers \cup {None}
          /\ file \in [Paths -> Content]
      BY TypeOK DEF TypeOK, RunRecords
    <3>3. updated \in [Paths -> Content]
      BY <3>2, PlanTyped
    <3>4. run.selected \cup written \cup cleaned \in SUBSET Paths
      BY <3>2, PlannedSkills, PathNumbers
    <3>5. run' \in RunRecords
      <4> HIDE DEF written, cleaned, updated
      <4> QED
        BY <3>1, <3>2, <3>3, <3>4, TypeOK DEF TypeOK, RunRecords
    <3> QED
      BY <1>6, <3>1, <3>5, TypeOK
         DEF Resolve, NoFault, others, ghosts, TypeOK, Labels
  <2> QED
    BY <2>1, <2>2
<1>7. CASE Confirm
  BY <1>7, TypeOK, EmptyRun, ConstantsAssumption
     DEF Confirm, Goto, Exit, Fault, NoFault, others, ghosts, TypeOK,
         RunRecords, Labels
<1>8. CASE InstallRuntime
  BY <1>8, TypeOK, EmptyRun, ConstantsAssumption
     DEF InstallRuntime, Goto, Exit, Fault, NoFault, others, ghosts, TypeOK,
         RunRecords, Labels
<1>9. CASE Preflight
  BY <1>9, TypeOK, EmptyRun, ConstantsAssumption
     DEF Preflight, Goto, Exit, Fault, NoFault, others, ghosts, TypeOK,
         RunRecords, Labels
<1>10. CASE Uninstall
  <2>1. /\ runtimes' \subseteq Runtimes
        /\ server' \in [Servers -> [at : {"off", "starting", "leased", "serving"},
                                   runtime : Runtimes \cup {None}, intact : BOOLEAN]]
    BY <1>10, TypeOK, RemovalTyped DEF Uninstall, RollbackRuntime, TypeOK
  <2>2. run' \in RunRecords
    BY <1>10, TypeOK, EmptyRun DEF Uninstall, Exit, TypeOK, RunRecords
  <2> QED
    BY <1>10, <2>1, <2>2, TypeOK
       DEF Uninstall, Exit, Goto, NoFault, ghosts, TypeOK, Labels
<1>11. CASE BeginTransaction
  BY <1>11, TypeOK, EmptyRun, JournalTyped, ConstantsAssumption
     DEF BeginTransaction, Goto, Exit, Fault, NoFault, others, ghosts, TypeOK,
         RunRecords, Labels
<1>12. CASE ApplyCheck
  BY <1>12, TypeOK, EmptyRun, ConstantsAssumption
     DEF ApplyCheck, Goto, Exit, Fault, NoFault, others, ghosts, TypeOK,
         RunRecords, Labels, StartRollback, Changed
<1>13. CASE ApplyWrite
  BY <1>13, TypeOK, EmptyRun, ConstantsAssumption
     DEF ApplyWrite, Goto, Exit, Fault, NoFault, others, ghosts, TypeOK,
         RunRecords, Labels, StartRollback, Changed
<1>14. CASE Commit
  BY <1>14, TypeOK, EmptyRun, JournalTyped, ConstantsAssumption
     DEF Commit, Goto, Exit, Fault, NoFault, others, ghosts, TypeOK, RunRecords,
         Labels, StartRollback, Changed
<1>15. CASE Cleanup
  <2>1. CASE journal' = NoJournal /\ NoFault
    BY <1>15, <2>1, TypeOK, EmptyRun, NoJournalTyped
       DEF Cleanup, Exit, Goto, NoFault, others, ghosts, TypeOK, Labels
  <2>2. CASE UNCHANGED journal /\ Fault
    BY <1>15, <2>2, TypeOK, EmptyRun, ConstantsAssumption
       DEF Cleanup, Exit, Goto, Fault, others, ghosts, TypeOK, Labels
  <2> QED
    BY <1>15, <2>1, <2>2 DEF Cleanup
<1>16. CASE RollbackCheck
  <2>1. run' \in RunRecords
    <3>1. \/ run' = run \/ run' = [run EXCEPT !.todo = run.todo \ {Max(run.todo)}]
          \/ run' = [run EXCEPT !.todo = run.todo \ {Max(run.todo)}, !.failed = TRUE]
      BY <1>16, Zenon DEF RollbackCheck
    <3>2. run \in RunRecords
      BY TypeOK DEF TypeOK
    <3> QED
      BY <3>1, <3>2, TypeOK, Dropped, Zenon
  <2>2. run \in RunRecords
    BY TypeOK DEF TypeOK
  <2>3. /\ file' \in [Paths -> Content]
        /\ side' \in [Paths -> {"none", "old", "new"}]
    BY <1>16, <2>2, TypeOK DEF RollbackCheck, TypeOK, RunRecords
  <2>4. pc' \in {"rollback", "rollbackWrite"} /\ (pc' = "rollbackWrite" => run'.todo # {})
    BY <1>16, TypeOK DEF RollbackCheck, Goto, TypeOK
  <2>5. faults' \in 0 .. MaxFaults
    BY <1>16, TypeOK, ConstantsAssumption
       DEF RollbackCheck, Fault, NoFault, TypeOK
  <2> QED
    BY <1>16, <2>1, <2>3, <2>4, <2>5, TypeOK
       DEF RollbackCheck, others, ghosts, TypeOK, Labels
<1>17. CASE RollbackWrite
  <2>1. run' \in RunRecords
    <3>1. \/ run' = run \/ run' = [run EXCEPT !.todo = run.todo \ {Max(run.todo)}]
          \/ run' = [run EXCEPT !.todo = run.todo \ {Max(run.todo)}, !.failed = TRUE]
      BY <1>17, Zenon DEF RollbackWrite
    <3>2. run \in RunRecords
      BY TypeOK DEF TypeOK
    <3> QED
      BY <3>1, <3>2, TypeOK, Dropped, Zenon
  <2>2. run \in RunRecords
    BY TypeOK DEF TypeOK
  <2>3. /\ file' \in [Paths -> Content]
        /\ side' \in [Paths -> {"none", "old", "new"}]
    BY <1>17, <2>2, TypeOK DEF RollbackWrite, TypeOK, RunRecords
  <2>4. pc' \in {"rollback", "rollbackWrite"} /\ (pc' = "rollbackWrite" => run'.todo # {})
    BY <1>17, TypeOK DEF RollbackWrite, Goto, TypeOK
  <2>5. faults' \in 0 .. MaxFaults
    BY <1>17, TypeOK, ConstantsAssumption
       DEF RollbackWrite, Fault, NoFault, TypeOK
  <2> QED
    BY <1>17, <2>1, <2>3, <2>4, <2>5, TypeOK
       DEF RollbackWrite, others, ghosts, TypeOK, Labels
<1>18. CASE RollbackDone
  <2>1. /\ runtimes' \subseteq Runtimes
        /\ server' \in [Servers -> [at : {"off", "starting", "leased", "serving"},
                                   runtime : Runtimes \cup {None}, intact : BOOLEAN]]
    BY <1>18, TypeOK, RemovalTyped DEF RollbackDone, RollbackRuntime, TypeOK
  <2>2. run' \in RunRecords
    BY <1>18, TypeOK, EmptyRun DEF RollbackDone, Exit, TypeOK, RunRecords
  <2> QED
    BY <1>18, <2>1, <2>2, TypeOK
       DEF RollbackDone, Exit, Goto, NoFault, ghosts, TypeOK, Labels
<1>19. CASE Abandon
  BY <1>19, TypeOK, EmptyRun, JournalTyped, ConstantsAssumption
     DEF Abandon, Goto, Exit, Fault, NoFault, others, ghosts, TypeOK,
         RunRecords, Labels
<1>20. CASE Inventory
  BY <1>20, TypeOK, EmptyRun, ConstantsAssumption
     DEF Inventory, Goto, Exit, Fault, NoFault, others, ghosts, TypeOK,
         RunRecords, Labels
<1>21. CASE PruneLease
  <2>1. run' \in RunRecords
    BY <1>21, TypeOK DEF PruneLease, TypeOK, RunRecords, Launchers
  <2> QED
    BY <1>21, <2>1, TypeOK
       DEF PruneLease, Goto, NoFault, others, ghosts, TypeOK, Labels
<1>22. CASE PruneRemove
  <2>1. /\ runtimes' \subseteq Runtimes
        /\ server' \in [Servers -> [at : {"off", "starting", "leased", "serving"},
                                   runtime : Runtimes \cup {None}, intact : BOOLEAN]]
    BY <1>22, TypeOK, RemovalTyped DEF PruneRemove, TypeOK
  <2>2. run' \in RunRecords
    BY <1>22, TypeOK, EmptyRun DEF PruneRemove, Exit, TypeOK, RunRecords
  <2> QED
    BY <1>22, <2>1, <2>2, TypeOK
       DEF PruneRemove, Exit, Goto, NoFault, ghosts, TypeOK, Labels
<1>23. CASE PruneDone
  BY <1>23, TypeOK, EmptyRun, ConstantsAssumption
     DEF PruneDone, Goto, Exit, Fault, NoFault, others, ghosts, TypeOK,
         RunRecords, Labels
<1>24. CASE Invoke
  BY <1>24, TypeOK, EmptyRun, ConstantsAssumption
     DEF Invoke, Goto, Exit, Fault, NoFault, others, ghosts, TypeOK, RunRecords,
         Labels
<1>25. CASE Decline
  BY <1>25, TypeOK, EmptyRun, ConstantsAssumption
     DEF Decline, Goto, Exit, Fault, NoFault, others, ghosts, TypeOK,
         RunRecords, Labels
<1>26. CASE Crash
  BY <1>26, TypeOK, EmptyRun, ConstantsAssumption
     DEF Crash, Goto, Exit, Fault, NoFault, others, ghosts, TypeOK, RunRecords,
         Labels
<1>27. ASSUME NEW p \in Paths, UserEdit(p) \/ UserDelete(p) \/ UserRepair(p)
      PROVE  TypeOK'
  <2>1. PICK content \in Content, last \in 0 .. MaxEdits : UserWrite(p, content, last)
    BY <1>27, UserContent
  <2> QED
    BY <2>1, TypeOK, ConstantsAssumption DEF UserWrite, TypeOK, Content
<1>28. ASSUME NEW s \in Servers, ServerIdentify(s) PROVE TypeOK'
  BY <1>28, TypeOK DEF ServerIdentify, TypeOK, ghosts
<1>29. ASSUME NEW s \in Servers, ServerLock(s) PROVE TypeOK'
  BY <1>29, TypeOK DEF ServerLock, TypeOK, ghosts
<1>30. ASSUME NEW s \in Servers, ServerServe(s) PROVE TypeOK'
  BY <1>30, TypeOK DEF ServerServe, TypeOK, ghosts
<1>31. ASSUME NEW s \in Servers, ServerEnd(s) PROVE TypeOK'
  BY <1>31, TypeOK DEF ServerEnd, TypeOK, ghosts, Off
<1>32. CASE UNCHANGED vars
  BY <1>32, TypeOK DEF TypeOK, vars
<1> QED
  BY <1>1, <1>2, <1>3, <1>4, <1>5, <1>6, <1>7, <1>8, <1>9, <1>10, <1>11, <1>12,
     <1>13, <1>14, <1>15, <1>16, <1>17, <1>18, <1>19, <1>20, <1>21, <1>22,
     <1>23, <1>24, <1>25, <1>26, <1>27, <1>28, <1>29, <1>30, <1>31, <1>32, Zenon
     DEF Next, Run, User, Server

\* The initial state is typed.
LEMMA InitTyped == Init => TypeOK
<1> SUFFICES ASSUME Init PROVE TypeOK
  OBVIOUS
<1>1. /\ journal.state = "none" /\ EntriesOf(journal) = {}
      /\ DOMAIN journal.updated = {}
  BY NoJournalTyped DEF Init
<1>2. server \in [Servers -> [at : {"off", "starting", "leased", "serving"},
                             runtime : Runtimes \cup {None}, intact : BOOLEAN]]
  BY DEF Init, Off
<1>3. edits.of \in [Paths -> Nat] /\ edits.last \in 0 .. MaxEdits /\ faults \in 0 .. MaxFaults
  BY ConstantsAssumption DEF Init
<1> QED
  BY <1>1, <1>2, <1>3, EmptyRun DEF Init, TypeOK, Labels

\* Type correctness of every reachable state (setup/transaction.rs, runtime.rs).
THEOREM TypeCorrect == Spec => []TypeOK
BY InitTyped, StepTyped, PTL DEF Spec

-----------------------------------------------------------------------------
\* A step that removes no artifact and leaves the processes alone keeps what is
\* known of leases.
LEMMA LeaseQuiet ==
  ASSUME LeaseInv, UNCHANGED server, runtimes \subseteq runtimes',
         pc' # "pruneLeased"
  PROVE  LeaseInv'
BY DEF LeaseInv

\* The removal of an artifact that nobody leases disturbs no process that serves
\* (rollback_installed_runtime, prune_runtimes_at).
LEMMA LeaseRemoval ==
  ASSUME TypeOK, LeaseInv, NEW r, RemoveRuntime(r), ~Leased(r),
         pc' # "pruneLeased"
  PROVE  LeaseInv'
<1>1. ASSUME NEW s \in Servers
      PROVE  /\ server'[s].intact => server'[s].runtime \in runtimes'
             /\ server'[s].at = "serving" => server'[s].intact
  <2>1. CASE server[s].runtime = r
    <3>1. server'[s].intact = FALSE /\ server'[s].at = server[s].at
      BY <2>1 DEF RemoveRuntime, TypeOK
    <3>2. server[s].at # "serving"
      BY <2>1 DEF Leased
    <3> QED
      BY <3>1, <3>2
  <2>2. CASE server[s].runtime # r
    BY <2>2 DEF RemoveRuntime, LeaseInv
  <2> QED
    BY <2>1, <2>2
<1> QED
  BY <1>1 DEF LeaseInv

\* Every step keeps what is known of leases.
LEMMA StepLeased == TypeOK /\ LeaseInv /\ [Next]_vars => LeaseInv'
<1> SUFFICES ASSUME TypeOK, LeaseInv, [Next]_vars PROVE LeaseInv'
  OBVIOUS
<1>1. CASE Recover
  BY <1>1, LeaseQuiet DEF Recover, Exit, Goto, others
<1>2. CASE RecoverCheck
  BY <1>2, LeaseQuiet DEF RecoverCheck, Exit, Goto, others
<1>3. CASE RecoverWrite
  BY <1>3, LeaseQuiet DEF RecoverWrite, Exit, Goto, others
<1>4. CASE RecoverDone
  BY <1>4, LeaseQuiet DEF RecoverDone, Exit, Goto, others
<1>5. CASE Forget
  BY <1>5, LeaseQuiet DEF Forget, Exit, Goto, others
<1>6. CASE Resolve
  BY <1>6, LeaseQuiet DEF Resolve, Exit, Goto, others
<1>7. CASE Confirm
  BY <1>7, LeaseQuiet DEF Confirm, Exit, Goto, others
<1>8. CASE InstallRuntime
  BY <1>8, LeaseQuiet DEF InstallRuntime, Exit, Goto, others
<1>9. CASE Preflight
  BY <1>9, LeaseQuiet DEF Preflight, Exit, Goto, others
<1>10. CASE Uninstall
  <2>1. pc' # "pruneLeased"
    BY <1>10 DEF Uninstall, Exit, Goto
  <2>2. CASE RemoveRuntime(run.want) /\ ~Leased(run.want)
    BY <2>1, <2>2, LeaseRemoval
  <2>3. CASE UNCHANGED <<runtimes, server>>
    BY <2>1, <2>3, LeaseQuiet
  <2> QED
    BY <1>10, <2>2, <2>3 DEF Uninstall, RollbackRuntime
<1>11. CASE BeginTransaction
  BY <1>11, LeaseQuiet DEF BeginTransaction, Exit, Goto, others
<1>12. CASE ApplyCheck
  BY <1>12, LeaseQuiet DEF ApplyCheck, Exit, Goto, others, StartRollback
<1>13. CASE ApplyWrite
  BY <1>13, LeaseQuiet DEF ApplyWrite, Exit, Goto, others, StartRollback
<1>14. CASE Commit
  BY <1>14, LeaseQuiet DEF Commit, Exit, Goto, others, StartRollback
<1>15. CASE Cleanup
  BY <1>15, LeaseQuiet DEF Cleanup, Exit, Goto, others
<1>16. CASE RollbackCheck
  BY <1>16, LeaseQuiet DEF RollbackCheck, Exit, Goto, others
<1>17. CASE RollbackWrite
  BY <1>17, LeaseQuiet DEF RollbackWrite, Exit, Goto, others
<1>18. CASE RollbackDone
  <2>1. pc' # "pruneLeased"
    BY <1>18 DEF RollbackDone, Exit, Goto
  <2>2. CASE RemoveRuntime(run.want) /\ ~Leased(run.want)
    BY <2>1, <2>2, LeaseRemoval
  <2>3. CASE UNCHANGED <<runtimes, server>>
    BY <2>1, <2>3, LeaseQuiet
  <2> QED
    BY <1>18, <2>2, <2>3 DEF RollbackDone, RollbackRuntime
<1>19. CASE Abandon
  BY <1>19, LeaseQuiet DEF Abandon, Exit, Goto, others
<1>20. CASE Inventory
  BY <1>20, LeaseQuiet DEF Inventory, Exit, Goto, others
<1>21. CASE PruneLease
  <2>1. UNCHANGED <<server, runtimes>>
    BY <1>21 DEF PruneLease, others
  <2>2. ~Leased(run'.want)
    BY <1>21, TypeOK DEF PruneLease, TypeOK, RunRecords
  <2> QED
    BY <2>1, <2>2, LeaseInv DEF LeaseInv, Leased
<1>22. CASE PruneRemove
  <2>1. pc' # "pruneLeased" /\ ~Leased(run.want)
    BY <1>22 DEF PruneRemove, Exit, Goto, LeaseInv
  <2>2. CASE RemoveRuntime(run.want)
    BY <2>1, <2>2, LeaseRemoval
  <2>3. CASE UNCHANGED <<runtimes, server>>
    BY <2>1, <2>3, LeaseQuiet
  <2> QED
    BY <1>22, <2>2, <2>3 DEF PruneRemove
<1>23. CASE PruneDone
  BY <1>23, LeaseQuiet DEF PruneDone, Exit, Goto, others
<1>24. CASE Invoke
  BY <1>24, LeaseQuiet DEF Invoke, Exit, Goto, others
<1>25. CASE Decline
  BY <1>25, LeaseQuiet DEF Decline, Exit, Goto, others
<1>26. CASE Crash
  BY <1>26, LeaseQuiet DEF Crash, Exit, Goto, others
<1>27. ASSUME NEW p \in Paths, UserEdit(p) \/ UserDelete(p) \/ UserRepair(p)
      PROVE  LeaseInv'
  BY <1>27, UserContent, LeaseInv DEF UserWrite, LeaseInv, Leased
<1>28. ASSUME NEW s \in Servers, ServerIdentify(s) PROVE LeaseInv'
  BY <1>28, TypeOK, LeaseInv DEF ServerIdentify, TypeOK, LeaseInv, Leased
<1>29. ASSUME NEW s \in Servers, ServerLock(s) PROVE LeaseInv'
  BY <1>29, TypeOK, LeaseInv DEF ServerLock, TypeOK, LeaseInv, Leased
<1>30. ASSUME NEW s \in Servers, ServerServe(s) PROVE LeaseInv'
  BY <1>30, TypeOK, LeaseInv DEF ServerServe, TypeOK, LeaseInv, Leased
<1>31. ASSUME NEW s \in Servers, ServerEnd(s) PROVE LeaseInv'
  BY <1>31, TypeOK, LeaseInv DEF ServerEnd, TypeOK, LeaseInv, Leased, Off
<1>32. CASE UNCHANGED vars
  BY <1>32, LeaseInv DEF LeaseInv, Leased, vars
<1> QED
  BY <1>1, <1>2, <1>3, <1>4, <1>5, <1>6, <1>7, <1>8, <1>9, <1>10, <1>11, <1>12,
     <1>13, <1>14, <1>15, <1>16, <1>17, <1>18, <1>19, <1>20, <1>21, <1>22,
     <1>23, <1>24, <1>25, <1>26, <1>27, <1>28, <1>29, <1>30, <1>31, <1>32, Zenon
     DEF Next, Run, User, Server

\* A process serves only from the artifact it identified when it started, and
\* that artifact stays installed while it serves
\* (acquire_executable_runtime_lease, try_acquire_runtime_prune_lease).
THEOREM ServedIsInstalled == Spec => []ServingIsInstalled
<1>1. Init => TypeOK /\ LeaseInv
  BY InitTyped DEF Init, LeaseInv, Off
<1>2. TypeOK /\ LeaseInv /\ [Next]_vars => TypeOK' /\ LeaseInv'
  BY StepTyped, StepLeased
<1>3. LeaseInv => ServingIsInstalled
  BY DEF LeaseInv, ServingIsInstalled
<1> QED
  BY <1>1, <1>2, <1>3, PTL DEF Spec

-----------------------------------------------------------------------------
\* A plan leaves the user's part of every configuration alone (resolve_client_edit).
LEMMA PlanKeepsUser ==
  ASSUME NEW op, NEW want, NEW selected \in SUBSET Clients,
         NEW f \in [Paths -> Content], NEW c \in Clients
  PROVE  Updated(op, want, selected, f)[c].user = f[c].user
<1>1. c \in Paths /\ c \notin WrittenSkills(op, selected, f)
                 /\ c \notin CleanedSkills(op, selected, f)
  BY PlannedSkills, PathNumbers
<1>2. f[c] \in Content
  BY <1>1
<1>3. ClientUpdate(op, want, f[c]).user = f[c].user
  BY <1>2 DEF ClientUpdate, Content
<1> QED
  BY <1>1, <1>3 DEF Updated

\* A step that changes no file and compares none keeps what is known of the
\* users' edits.
LEMMA EditQuiet ==
  ASSUME EditInv, UNCHANGED <<file, edits, raced>>,
         pc' \notin {"applyWrite", "recoverWrite", "rollbackWrite"},
         RunKeepsUser', JournalKeepsUser'
  PROVE  EditInv'
BY DEF EditInv, UserEditsSurvive, ComparedInv

\* The journal a transaction writes keeps the users' parts (serialize_journal).
LEMMA WrittenJournalKeeps ==
  ASSUME TypeOK, RunKeepsUser, pc \notin {"prune", "pruneLeased"},
         NEW state \in {"pending", "committed"}, journal' = JournalOf(state)
  PROVE  JournalKeepsUser'
BY JournalTyped DEF RunKeepsUser, JournalKeepsUser

\* A run that ends, or only moves on to other paths, keeps the users' parts.
LEMMA RunStillKeeps ==
  ASSUME RunKeepsUser,
         \/ run' = NoRun
         \/ /\ pc \notin {"prune", "pruneLeased"}
            /\ run'.original = run.original /\ run'.updated = run.updated
         \/ pc' \in {"prune", "pruneLeased"}
  PROVE  RunKeepsUser'
<1>1. CASE run' = NoRun
  <2>1. \A c \in Clients : NoRun.updated[c].user = NoRun.original[c].user
    BY PathNumbers DEF NoRun
  <2> QED
    BY <1>1, <2>1 DEF RunKeepsUser
<1>2. CASE run' # NoRun
  BY <1>2 DEF RunKeepsUser
<1> QED
  BY <1>1, <1>2

\* The path that recovery or the run wrote has the user's part it had; the other
\* paths did not change.
LEMMA EditWrite ==
  ASSUME TypeOK, EditInv, NEW p \in Paths, NEW content,
         file' = [file EXCEPT ![p] = content], UNCHANGED <<edits, raced>>,
         p \in Clients /\ p \notin raced => content.user = file[p].user,
         pc' \notin {"applyWrite", "recoverWrite", "rollbackWrite"},
         RunKeepsUser', UNCHANGED journal
  PROVE  EditInv'
<1>1. UserEditsSurvive'
  <2> SUFFICES ASSUME NEW c \in Clients, c \notin raced'
               PROVE  file'[c].user = edits'.of[c]
    BY DEF UserEditsSurvive
  <2>1. file[c].user = edits.of[c] /\ c \in Paths
    BY PathNumbers DEF EditInv, UserEditsSurvive
  <2>2. file'[c].user = file[c].user
    BY <2>1 DEF TypeOK
  <2> QED
    BY <2>1, <2>2
<1>2. JournalKeepsUser' /\ ComparedInv'
  BY DEF EditInv, JournalKeepsUser, ComparedInv
<1> QED
  BY <1>1, <1>2 DEF EditInv

\* Every step keeps what is known of the users' edits.
LEMMA StepEdited == TypeOK /\ EditInv /\ [Next]_vars => EditInv'
<1> SUFFICES ASSUME TypeOK, EditInv, [Next]_vars PROVE EditInv'
  OBVIOUS
<1>0. RunKeepsUser /\ JournalKeepsUser /\ run \in RunRecords
  BY DEF EditInv, TypeOK
<1>1. CASE Recover
  <2>1. RunKeepsUser'
    BY <1>1, <1>0, RunStillKeeps DEF Recover, Exit, Goto, RunRecords
  <2>2. JournalKeepsUser'
    BY <1>1, <1>0 DEF Recover, others, JournalKeepsUser
  <2> QED
    BY <1>1, <2>1, <2>2, EditQuiet DEF Recover, Exit, Goto, others, ghosts
<1>2. CASE RecoverCheck
  <2>1. RunKeepsUser'
    BY <1>2, <1>0, RunStillKeeps DEF RecoverCheck, Exit, RunRecords
  <2>2. JournalKeepsUser' /\ UNCHANGED <<file, edits, raced>>
    BY <1>2, <1>0 DEF RecoverCheck, others, ghosts, JournalKeepsUser
  <2>3. CASE pc' = "recoverWrite"
    <3>1. ComparedInv'
      BY <1>2, <2>2, <2>3
         DEF RecoverCheck, Exit, Goto, ComparedInv, others, ghosts
    <3>2. UserEditsSurvive'
      BY <2>2 DEF EditInv, UserEditsSurvive
    <3> QED
      BY <2>1, <2>2, <3>1, <3>2 DEF EditInv
  <2>4. CASE pc' # "recoverWrite"
    <3>1. pc' \notin {"applyWrite", "recoverWrite", "rollbackWrite"}
      BY <1>2, <2>4 DEF RecoverCheck, Exit, Goto
    <3> QED
      BY <2>1, <2>2, <3>1, EditQuiet
  <2> QED
    BY <2>3, <2>4
<1>3. CASE RecoverWrite
  <2> DEFINE p == Min(run.todo)
  <2>1. RunKeepsUser'
    BY <1>3, <1>0, RunStillKeeps DEF RecoverWrite, RunRecords
  <2>2. UNCHANGED <<journal, edits, raced>> /\ pc' \notin {"applyWrite", "recoverWrite", "rollbackWrite"}
    BY <1>3 DEF RecoverWrite, Goto, others, ghosts
  <2>3. CASE UNCHANGED file
    BY <2>1, <2>2, <2>3, <1>0, EditQuiet DEF JournalKeepsUser
  <2>4. CASE file' = [file EXCEPT ![p] = journal.original[p]] /\ p \in Paths
    <3>1. p \in Clients /\ p \notin raced => journal.original[p].user = file[p].user
      BY <1>3, <1>0, FirstPath, TypeOK
         DEF RecoverWrite, TypeOK, EditInv, ComparedInv, RunKeepsUser,
             JournalKeepsUser
    <3> HIDE DEF p
    <3> QED
      BY <2>1, <2>2, <2>4, <3>1, EditWrite
  <2>5. CASE file' = [file EXCEPT ![p] = journal.original[p]] /\ p \notin Paths
    <3>1. UNCHANGED file
      BY <2>5 DEF TypeOK
    <3> QED
      BY <2>3, <3>1
  <2> QED
    BY <1>3, <2>3, <2>4, <2>5 DEF RecoverWrite
<1>4. CASE RecoverDone
  <2>1. RunKeepsUser'
    BY <1>4, <1>0, RunStillKeeps DEF RecoverDone, Exit, Goto, RunRecords
  <2>2. JournalKeepsUser'
    BY <1>4, <1>0 DEF RecoverDone, others, JournalKeepsUser
  <2> QED
    BY <1>4, <2>1, <2>2, EditQuiet DEF RecoverDone, Exit, Goto, others, ghosts
<1>5. CASE Forget
  <2>1. RunKeepsUser'
    BY <1>5, <1>0, RunStillKeeps DEF Forget, Exit
  <2>2. JournalKeepsUser'
    BY <1>5, <1>0, NoJournalTyped DEF Forget, JournalKeepsUser
  <2> QED
    BY <1>5, <2>1, <2>2, EditQuiet DEF Forget, Exit, Goto, others, ghosts
<1>6. CASE Resolve
  <2>1. RunKeepsUser'
    <3>1. CASE run' = NoRun
      BY <1>0, <3>1, RunStillKeeps
    <3>2. CASE run' # NoRun
      <4>1. /\ run'.original = file
            /\ run'.updated = Updated(run.op, run.want, run.selected, file)
        BY <1>6, <1>0, <3>2 DEF Resolve, Exit, RunRecords
      <4>2. run.selected \in SUBSET Clients /\ file \in [Paths -> Content]
        BY <1>0, TypeOK DEF TypeOK, RunRecords
      <4> QED
        BY <4>1, <4>2, PlanKeepsUser DEF RunKeepsUser
    <3> QED
      BY <3>1, <3>2
  <2>2. JournalKeepsUser'
    BY <1>6, <1>0 DEF Resolve, JournalKeepsUser
  <2> QED
    BY <1>6, <2>1, <2>2, EditQuiet DEF Resolve, Exit, Goto, others, ghosts
<1>7. CASE Confirm
  <2>1. RunKeepsUser'
    BY <1>7, <1>0, RunStillKeeps DEF Confirm, Exit, Goto, RunRecords
  <2>2. JournalKeepsUser'
    BY <1>7, <1>0 DEF Confirm, others, JournalKeepsUser
  <2> QED
    BY <1>7, <2>1, <2>2, EditQuiet DEF Confirm, Exit, Goto, others, ghosts
<1>8. CASE InstallRuntime
  <2>1. RunKeepsUser'
    BY <1>8, <1>0, RunStillKeeps DEF InstallRuntime, Exit, Goto, RunRecords
  <2>2. JournalKeepsUser'
    BY <1>8, <1>0 DEF InstallRuntime, others, JournalKeepsUser
  <2> QED
    BY <1>8, <2>1, <2>2, EditQuiet
       DEF InstallRuntime, Exit, Goto, others, ghosts
<1>9. CASE Preflight
  <2>1. RunKeepsUser'
    BY <1>9, <1>0, RunStillKeeps DEF Preflight, Exit, Goto, RunRecords
  <2>2. JournalKeepsUser'
    BY <1>9, <1>0 DEF Preflight, others, JournalKeepsUser
  <2> QED
    BY <1>9, <2>1, <2>2, EditQuiet DEF Preflight, Exit, Goto, others, ghosts
<1>10. CASE Uninstall
  <2>1. RunKeepsUser'
    BY <1>10, <1>0, RunStillKeeps DEF Uninstall, Exit, Goto, RunRecords
  <2>2. JournalKeepsUser'
    BY <1>10, <1>0 DEF Uninstall, others, JournalKeepsUser
  <2> QED
    BY <1>10, <2>1, <2>2, EditQuiet DEF Uninstall, Exit, Goto, others, ghosts
<1>11. CASE BeginTransaction
  <2>1. RunKeepsUser'
    BY <1>11, <1>0, RunStillKeeps DEF BeginTransaction, Exit, Goto, RunRecords
  <2>2. JournalKeepsUser'
    <3>1. CASE UNCHANGED journal
      BY <1>0, <3>1 DEF JournalKeepsUser
    <3>2. CASE journal' \in {JournalOf("pending"), JournalOf("committed")}
      BY <1>11, <1>0, <3>2, WrittenJournalKeeps DEF BeginTransaction
    <3> QED
      BY <1>11, <3>1, <3>2 DEF BeginTransaction
  <2> QED
    BY <1>11, <2>1, <2>2, EditQuiet
       DEF BeginTransaction, Exit, Goto, others, ghosts
<1>12. CASE ApplyCheck
  <2>1. RunKeepsUser'
    BY <1>12, <1>0, RunStillKeeps
       DEF ApplyCheck, Exit, RunRecords, StartRollback
  <2>2. JournalKeepsUser' /\ UNCHANGED <<file, edits, raced>>
    BY <1>12, <1>0 DEF ApplyCheck, others, ghosts, JournalKeepsUser
  <2>3. CASE pc' = "applyWrite"
    <3>1. ComparedInv'
      BY <1>12, <2>2, <2>3
         DEF ApplyCheck, Exit, Goto, ComparedInv, others, ghosts, StartRollback
    <3>2. UserEditsSurvive'
      BY <2>2 DEF EditInv, UserEditsSurvive
    <3> QED
      BY <2>1, <2>2, <3>1, <3>2 DEF EditInv
  <2>4. CASE pc' # "applyWrite"
    <3>1. pc' \notin {"applyWrite", "recoverWrite", "rollbackWrite"}
      BY <1>12, <2>4 DEF ApplyCheck, Exit, Goto, StartRollback
    <3> QED
      BY <2>1, <2>2, <3>1, EditQuiet
  <2> QED
    BY <2>3, <2>4
<1>13. CASE ApplyWrite
  <2> DEFINE p == Min(run.todo)
  <2>1. RunKeepsUser'
    BY <1>13, <1>0, RunStillKeeps DEF ApplyWrite, RunRecords, StartRollback
  <2>2. UNCHANGED <<journal, edits, raced>> /\ pc' \notin {"applyWrite", "recoverWrite", "rollbackWrite"}
    BY <1>13 DEF ApplyWrite, Goto, others, ghosts, StartRollback
  <2>3. CASE UNCHANGED file
    BY <2>1, <2>2, <2>3, <1>0, EditQuiet DEF JournalKeepsUser
  <2>4. CASE file' = [file EXCEPT ![p] = run.updated[p]] /\ p \in Paths
    <3>1. p \in Clients /\ p \notin raced => run.updated[p].user = file[p].user
      BY <1>13, <1>0, FirstPath, TypeOK
         DEF ApplyWrite, TypeOK, EditInv, ComparedInv, RunKeepsUser,
             JournalKeepsUser
    <3> HIDE DEF p
    <3> QED
      BY <2>1, <2>2, <2>4, <3>1, EditWrite
  <2>5. CASE file' = [file EXCEPT ![p] = run.updated[p]] /\ p \notin Paths
    <3>1. UNCHANGED file
      BY <2>5 DEF TypeOK
    <3> QED
      BY <2>3, <3>1
  <2> QED
    BY <1>13, <2>3, <2>4, <2>5 DEF ApplyWrite
<1>14. CASE Commit
  <2>1. RunKeepsUser'
    BY <1>14, <1>0, RunStillKeeps
       DEF Commit, Exit, Goto, RunRecords, StartRollback
  <2>2. JournalKeepsUser'
    <3>1. CASE UNCHANGED journal
      BY <1>0, <3>1 DEF JournalKeepsUser
    <3>2. CASE journal' \in {JournalOf("pending"), JournalOf("committed")}
      BY <1>14, <1>0, <3>2, WrittenJournalKeeps DEF Commit
    <3> QED
      BY <1>14, <3>1, <3>2 DEF Commit
  <2> QED
    BY <1>14, <2>1, <2>2, EditQuiet
       DEF Commit, Exit, Goto, others, ghosts, StartRollback
<1>15. CASE Cleanup
  <2>1. RunKeepsUser'
    BY <1>15, <1>0, RunStillKeeps DEF Cleanup, Exit
  <2>2. JournalKeepsUser'
    BY <1>15, <1>0, NoJournalTyped DEF Cleanup, JournalKeepsUser
  <2> QED
    BY <1>15, <2>1, <2>2, EditQuiet DEF Cleanup, Exit, Goto, others, ghosts
<1>16. CASE RollbackCheck
  <2>1. RunKeepsUser'
    BY <1>16, <1>0, RunStillKeeps DEF RollbackCheck, Exit, RunRecords
  <2>2. JournalKeepsUser' /\ UNCHANGED <<file, edits, raced>>
    BY <1>16, <1>0 DEF RollbackCheck, others, ghosts, JournalKeepsUser
  <2>3. CASE pc' = "rollbackWrite"
    <3>1. ComparedInv'
      BY <1>16, <2>2, <2>3
         DEF RollbackCheck, Exit, Goto, ComparedInv, others, ghosts
    <3>2. UserEditsSurvive'
      BY <2>2 DEF EditInv, UserEditsSurvive
    <3> QED
      BY <2>1, <2>2, <3>1, <3>2 DEF EditInv
  <2>4. CASE pc' # "rollbackWrite"
    <3>1. pc' \notin {"applyWrite", "recoverWrite", "rollbackWrite"}
      BY <1>16, <2>4 DEF RollbackCheck, Exit, Goto
    <3> QED
      BY <2>1, <2>2, <3>1, EditQuiet
  <2> QED
    BY <2>3, <2>4
<1>17. CASE RollbackWrite
  <2> DEFINE p == Max(run.todo)
  <2>1. RunKeepsUser'
    BY <1>17, <1>0, RunStillKeeps DEF RollbackWrite, RunRecords
  <2>2. UNCHANGED <<journal, edits, raced>> /\ pc' \notin {"applyWrite", "recoverWrite", "rollbackWrite"}
    BY <1>17 DEF RollbackWrite, Goto, others, ghosts
  <2>3. CASE UNCHANGED file
    BY <2>1, <2>2, <2>3, <1>0, EditQuiet DEF JournalKeepsUser
  <2>4. CASE file' = [file EXCEPT ![p] = run.original[p]] /\ p \in Paths
    <3>1. p \in Clients /\ p \notin raced => run.original[p].user = file[p].user
      BY <1>17, <1>0, FirstPath, TypeOK
         DEF RollbackWrite, TypeOK, EditInv, ComparedInv, RunKeepsUser,
             JournalKeepsUser
    <3> HIDE DEF p
    <3> QED
      BY <2>1, <2>2, <2>4, <3>1, EditWrite
  <2>5. CASE file' = [file EXCEPT ![p] = run.original[p]] /\ p \notin Paths
    <3>1. UNCHANGED file
      BY <2>5 DEF TypeOK
    <3> QED
      BY <2>3, <3>1
  <2> QED
    BY <1>17, <2>3, <2>4, <2>5 DEF RollbackWrite
<1>18. CASE RollbackDone
  <2>1. RunKeepsUser'
    BY <1>18, <1>0, RunStillKeeps DEF RollbackDone, Exit, Goto, RunRecords
  <2>2. JournalKeepsUser'
    BY <1>18, <1>0 DEF RollbackDone, others, JournalKeepsUser
  <2> QED
    BY <1>18, <2>1, <2>2, EditQuiet DEF RollbackDone, Exit, Goto, others, ghosts
<1>19. CASE Abandon
  <2>1. RunKeepsUser'
    BY <1>19, <1>0, RunStillKeeps DEF Abandon, Exit, Goto, RunRecords
  <2>2. JournalKeepsUser'
    <3>1. CASE UNCHANGED journal
      BY <1>0, <3>1 DEF JournalKeepsUser
    <3>2. CASE journal' \in {JournalOf("pending"), JournalOf("committed")}
      BY <1>19, <1>0, <3>2, WrittenJournalKeeps DEF Abandon
    <3> QED
      BY <1>19, <3>1, <3>2 DEF Abandon
  <2> QED
    BY <1>19, <2>1, <2>2, EditQuiet DEF Abandon, Exit, Goto, others, ghosts
<1>20. CASE Inventory
  <2>1. RunKeepsUser'
    BY <1>20, <1>0, RunStillKeeps DEF Inventory, Exit, Goto, RunRecords
  <2>2. JournalKeepsUser'
    BY <1>20, <1>0 DEF Inventory, others, JournalKeepsUser
  <2> QED
    BY <1>20, <2>1, <2>2, EditQuiet DEF Inventory, Exit, Goto, others, ghosts
<1>21. CASE PruneLease
  <2>1. RunKeepsUser'
    BY <1>21, <1>0, RunStillKeeps DEF PruneLease, Exit, Goto, RunRecords
  <2>2. JournalKeepsUser'
    BY <1>21, <1>0 DEF PruneLease, others, JournalKeepsUser
  <2> QED
    BY <1>21, <2>1, <2>2, EditQuiet DEF PruneLease, Exit, Goto, others, ghosts
<1>22. CASE PruneRemove
  <2>1. RunKeepsUser'
    BY <1>22, <1>0, RunStillKeeps DEF PruneRemove, Exit, Goto, RunRecords
  <2>2. JournalKeepsUser'
    BY <1>22, <1>0 DEF PruneRemove, others, JournalKeepsUser
  <2> QED
    BY <1>22, <2>1, <2>2, EditQuiet DEF PruneRemove, Exit, Goto, others, ghosts
<1>23. CASE PruneDone
  <2>1. RunKeepsUser'
    BY <1>23, <1>0, RunStillKeeps DEF PruneDone, Exit, Goto, RunRecords
  <2>2. JournalKeepsUser'
    BY <1>23, <1>0 DEF PruneDone, others, JournalKeepsUser
  <2> QED
    BY <1>23, <2>1, <2>2, EditQuiet DEF PruneDone, Exit, Goto, others, ghosts
<1>24. CASE Invoke
  <2>1. RunKeepsUser'
    <3>1. run'.original = NoRun.original /\ run'.updated = NoRun.updated
      BY <1>24 DEF Invoke, NoRun
    <3> QED
      BY <3>1, PathNumbers DEF NoRun, RunKeepsUser
  <2>2. JournalKeepsUser'
    BY <1>24, <1>0 DEF Invoke, JournalKeepsUser
  <2> QED
    BY <1>24, <2>1, <2>2, EditQuiet DEF Invoke, Goto, others, ghosts
<1>25. CASE Decline
  <2>1. RunKeepsUser'
    BY <1>25, <1>0, RunStillKeeps DEF Decline, Exit, Goto, RunRecords
  <2>2. JournalKeepsUser'
    BY <1>25, <1>0 DEF Decline, others, JournalKeepsUser
  <2> QED
    BY <1>25, <2>1, <2>2, EditQuiet DEF Decline, Exit, Goto, others, ghosts
<1>26. CASE Crash
  <2>1. RunKeepsUser'
    BY <1>26, <1>0, RunStillKeeps DEF Crash, Exit, Goto, RunRecords
  <2>2. JournalKeepsUser'
    BY <1>26, <1>0 DEF Crash, others, JournalKeepsUser
  <2> QED
    BY <1>26, <2>1, <2>2, EditQuiet DEF Crash, Exit, Goto, others, ghosts
<1>27. ASSUME NEW p \in Paths, UserEdit(p) \/ UserDelete(p) \/ UserRepair(p)
      PROVE  EditInv'
  <2>1. PICK content \in Content, last \in 0 .. MaxEdits : UserWrite(p, content, last)
    BY <1>27, UserContent
  <2>2. UserEditsSurvive'
    <3> SUFFICES ASSUME NEW c \in Clients, c \notin raced'
                 PROVE  file'[c].user = edits'.of[c]
      BY DEF UserEditsSurvive
    <3>1. c \in Paths
      BY PathNumbers
    <3>2. CASE c = p
      BY <2>1, <3>1, <3>2 DEF UserWrite, TypeOK
    <3>3. CASE c # p
      <4>1. c \notin raced
        BY <2>1, <3>3 DEF UserWrite
      <4> QED
        BY <2>1, <3>1, <3>3, <4>1
           DEF UserWrite, TypeOK, EditInv, UserEditsSurvive
    <3> QED
      BY <3>2, <3>3
  <2>3. RunKeepsUser' /\ JournalKeepsUser'
    BY <1>0, <2>1 DEF UserWrite, RunKeepsUser, JournalKeepsUser
  <2>4. ComparedInv'
    <3>1. /\ UNCHANGED <<journal, pc, run>> /\ file' = [file EXCEPT ![p] = content]
          /\ raced' = IF InWindow(p) THEN raced \cup {p} ELSE raced \ {p}
      BY <2>1 DEF UserWrite
    <3>2. ASSUME NEW q, InWindow(q), q \notin raced'
          PROVE  q \notin raced /\ file'[q] = file[q]
      BY <3>1, <3>2 DEF TypeOK
    <3> QED
      BY <3>1, <3>2 DEF EditInv, ComparedInv, InWindow
  <2> QED
    BY <2>2, <2>3, <2>4 DEF EditInv
<1>28. ASSUME NEW s \in Servers, ServerIdentify(s) PROVE EditInv'
  BY <1>28, EditInv
     DEF ServerIdentify, ghosts, EditInv, UserEditsSurvive, RunKeepsUser,
         JournalKeepsUser, ComparedInv
<1>29. ASSUME NEW s \in Servers, ServerLock(s) PROVE EditInv'
  BY <1>29, EditInv
     DEF ServerLock, ghosts, EditInv, UserEditsSurvive, RunKeepsUser,
         JournalKeepsUser, ComparedInv
<1>30. ASSUME NEW s \in Servers, ServerServe(s) PROVE EditInv'
  BY <1>30, EditInv
     DEF ServerServe, ghosts, EditInv, UserEditsSurvive, RunKeepsUser,
         JournalKeepsUser, ComparedInv
<1>31. ASSUME NEW s \in Servers, ServerEnd(s) PROVE EditInv'
  BY <1>31, EditInv
     DEF ServerEnd, ghosts, EditInv, UserEditsSurvive, RunKeepsUser,
         JournalKeepsUser, ComparedInv
<1>32. CASE UNCHANGED vars
  BY <1>32, EditInv
     DEF vars, EditInv, UserEditsSurvive, RunKeepsUser, JournalKeepsUser,
         ComparedInv
<1> QED
  BY <1>1, <1>2, <1>3, <1>4, <1>5, <1>6, <1>7, <1>8, <1>9, <1>10, <1>11, <1>12,
     <1>13, <1>14, <1>15, <1>16, <1>17, <1>18, <1>19, <1>20, <1>21, <1>22,
     <1>23, <1>24, <1>25, <1>26, <1>27, <1>28, <1>29, <1>30, <1>31, <1>32, Zenon
     DEF Next, Run, User, Server

\* Setup, rollback and recovery never lose what a user wrote to a client
\* configuration, unless the edit fell between comparison and replacement
\* (restore_path, apply_edit).
THEOREM EditsAreKept == Spec => []UserEditsSurvive
<1>1. Init => TypeOK /\ EditInv
  <2> SUFFICES ASSUME Init PROVE EditInv
    BY InitTyped
  <2>1. UserEditsSurvive
    BY PathNumbers DEF Init, UserEditsSurvive, Absent
  <2>2. RunKeepsUser
    BY PathNumbers DEF Init, RunKeepsUser, NoRun
  <2>3. JournalKeepsUser
    BY NoJournalTyped DEF Init, JournalKeepsUser
  <2> QED
    BY <2>1, <2>2, <2>3 DEF Init, EditInv, ComparedInv
<1>2. TypeOK /\ EditInv /\ [Next]_vars => TypeOK' /\ EditInv'
  BY StepTyped, StepEdited
<1>3. EditInv => UserEditsSurvive
  BY DEF EditInv
<1> QED
  BY <1>1, <1>2, <1>3, PTL DEF Spec

-----------------------------------------------------------------------------
\* What a plan registers is what was registered or the launcher it is to
\* register (resolve_client_edit).
LEMMA PlanRegisters ==
  ASSUME NEW op, NEW want, NEW selected \in SUBSET Clients,
         NEW f \in [Paths -> Content], NEW c \in Clients
  PROVE  Updated(op, want, selected, f)[c].reg \in {f[c].reg, want, None}
<1>1. c \in Paths /\ c \notin WrittenSkills(op, selected, f)
                 /\ c \notin CleanedSkills(op, selected, f)
  BY PlannedSkills, PathNumbers
<1>2. f[c] \in Content
  BY <1>1
<1>3. ClientUpdate(op, want, f[c]).reg \in {f[c].reg, want, None}
  BY <1>2 DEF ClientUpdate, Content
<1> QED
  BY <1>1, <1>3 DEF Updated

\* Every step keeps registrations resolved.
LEMMA StepResolved ==
  TypeOK /\ ResolveInv /\ ReceiptInv /\ [Next]_vars => ResolveInv'
<1> SUFFICES ASSUME TypeOK, ResolveInv, ReceiptInv, [Next]_vars PROVE ResolveInv'
  OBVIOUS
<1>0. /\ run \in RunRecords /\ file \in [Paths -> Content]
      /\ Clients \subseteq Paths
  BY PathNumbers DEF TypeOK
<1>1. CASE Recover
  BY <1>1, <1>0, ResolveInv
     DEF Recover, Exit, Goto, others, RunRecords, ResolveInv,
         RegistrationsResolve, Resolved, Written
<1>2. CASE RecoverCheck
  BY <1>2, <1>0, ResolveInv
     DEF RecoverCheck, Exit, Goto, others, RunRecords, ResolveInv,
         RegistrationsResolve, Resolved, Written
<1>3. CASE RecoverWrite
  <2> DEFINE p == Min(run.todo)
  <2>1. p \in EntriesOf(journal) /\ p \in Paths
    BY <1>3, FirstPath, TypeOK DEF RecoverWrite, TypeOK
  <2>2. /\ file' = [file EXCEPT ![p] = journal.original[p]]
        /\ UNCHANGED <<journal, runtimes>> /\ pc' = "recovering"
        /\ journal.state = "pending"
    BY <1>3 DEF RecoverWrite, Goto, ResolveInv
  <2>3. \A c \in Clients : file'[c].reg \in Resolved
    <3> HIDE DEF p
    <3> QED
      BY <1>0, <2>1, <2>2 DEF ResolveInv, RegistrationsResolve, Resolved
  <2> QED
    BY <2>2, <2>3 DEF ResolveInv, RegistrationsResolve, Resolved, Written
<1>4. CASE RecoverDone
  BY <1>4, <1>0, ResolveInv
     DEF RecoverDone, Exit, Goto, others, RunRecords, ResolveInv,
         RegistrationsResolve, Resolved, Written
<1>5. CASE Forget
  BY <1>5, <1>0, ResolveInv, NoJournalTyped
     DEF Forget, Exit, Goto, others, RunRecords, ResolveInv,
         RegistrationsResolve, Resolved, Written
<1>6. CASE Resolve
  <2>1. UNCHANGED <<file, journal, runtimes>> /\ pc' \in {"idle", "confirm"}
    BY <1>6 DEF Resolve, Exit, Goto
  <2>2. ASSUME pc' = "confirm", NEW c \in Clients
        PROVE  /\ run'.original[c].reg \in Resolved
               /\ run'.updated[c].reg \in Resolved \cup {run'.want}
    <3>1. /\ run'.original = file /\ run'.want = run.want
          /\ run'.updated = Updated(run.op, run.want, run.selected, file)
      BY <1>6, <1>0, <2>2 DEF Resolve, Exit, Goto, RunRecords
    <3>2. run.selected \in SUBSET Clients
      BY <1>0 DEF RunRecords
    <3>3. run'.updated[c].reg \in {file[c].reg, run.want, None}
      BY <1>0, <3>1, <3>2, PlanRegisters
    <3>4. file[c].reg \in Resolved
      BY DEF ResolveInv, RegistrationsResolve, Resolved
    <3> QED
      BY <3>1, <3>3, <3>4 DEF Resolved
  <2> QED
    BY <2>1, <2>2 DEF ResolveInv, RegistrationsResolve, Resolved, Written
<1>7. CASE Confirm
  BY <1>7, <1>0, ResolveInv
     DEF Confirm, Exit, Goto, others, RunRecords, ResolveInv,
         RegistrationsResolve, Resolved, Written, Launchers
<1>8. CASE InstallRuntime
  BY <1>8, <1>0, ResolveInv, TypeOK
     DEF InstallRuntime, Exit, Goto, others, RunRecords, ResolveInv,
         RegistrationsResolve, Resolved, Written, TypeOK
<1>9. CASE Preflight
  BY <1>9, <1>0, ResolveInv
     DEF Preflight, Exit, Goto, others, RunRecords, ResolveInv,
         RegistrationsResolve, Resolved, Written
<1>10. CASE Uninstall
  BY <1>10, <1>0, ResolveInv, ReceiptInv
     DEF Uninstall, Exit, Goto, others, RunRecords, ResolveInv,
         RegistrationsResolve, Resolved, Written, RollbackRuntime,
         RemoveRuntime, ReceiptInv
<1>11. CASE BeginTransaction
  BY <1>11, <1>0, ResolveInv, JournalTyped
     DEF BeginTransaction, Exit, Goto, others, RunRecords, ResolveInv,
         RegistrationsResolve, Resolved, Written
<1>12. CASE ApplyCheck
  BY <1>12, <1>0, ResolveInv
     DEF ApplyCheck, Exit, Goto, others, RunRecords, ResolveInv,
         RegistrationsResolve, Resolved, Written, StartRollback
<1>13. CASE ApplyWrite
  BY <1>13, <1>0, ResolveInv
     DEF ApplyWrite, Exit, Goto, others, RunRecords, ResolveInv,
         RegistrationsResolve, Resolved, Written, StartRollback
<1>14. CASE Commit
  BY <1>14, <1>0, ResolveInv, JournalTyped
     DEF Commit, Exit, Goto, others, RunRecords, ResolveInv,
         RegistrationsResolve, Resolved, Written, StartRollback
<1>15. CASE Cleanup
  BY <1>15, <1>0, ResolveInv, NoJournalTyped
     DEF Cleanup, Exit, Goto, others, RunRecords, ResolveInv,
         RegistrationsResolve, Resolved, Written
<1>16. CASE RollbackCheck
  BY <1>16, <1>0, ResolveInv
     DEF RollbackCheck, Exit, Goto, others, RunRecords, ResolveInv,
         RegistrationsResolve, Resolved, Written
<1>17. CASE RollbackWrite
  <2> DEFINE p == Max(run.todo)
  <2>1. /\ \/ file' = [file EXCEPT ![p] = run.original[p]]
           \/ UNCHANGED file
        /\ UNCHANGED <<journal, runtimes>> /\ pc = "rollbackWrite" /\ pc' = "rollback"
    BY <1>17 DEF RollbackWrite, Goto
  <2>2. /\ run'.original = run.original /\ run'.updated = run.updated
        /\ run'.want = run.want
    BY <1>17, <1>0 DEF RollbackWrite, RunRecords
  <2>3. \A c \in Clients : file'[c].reg \in Resolved
    <3> HIDE DEF p
    <3> QED
      BY <1>0, <2>1 DEF ResolveInv, RegistrationsResolve, Resolved, Written
  <2> QED
    BY <2>1, <2>2, <2>3 DEF ResolveInv, RegistrationsResolve, Resolved, Written
<1>18. CASE RollbackDone
  BY <1>18, <1>0, ResolveInv, ReceiptInv
     DEF RollbackDone, Exit, Goto, others, RunRecords, ResolveInv,
         RegistrationsResolve, Resolved, Written, RollbackRuntime,
         RemoveRuntime, ReceiptInv
<1>19. CASE Abandon
  BY <1>19, <1>0, ResolveInv, JournalTyped
     DEF Abandon, Exit, Goto, others, RunRecords, ResolveInv,
         RegistrationsResolve, Resolved, Written
<1>20. CASE Inventory
  BY <1>20, <1>0, ResolveInv
     DEF Inventory, Exit, Goto, others, RunRecords, ResolveInv,
         RegistrationsResolve, Resolved, Written
<1>21. CASE PruneLease
  BY <1>21, <1>0, ResolveInv
     DEF PruneLease, Exit, Goto, others, RunRecords, ResolveInv,
         RegistrationsResolve, Resolved, Written
<1>22. CASE PruneRemove
  BY <1>22, <1>0, ResolveInv
     DEF PruneRemove, Exit, Goto, others, RunRecords, ResolveInv,
         RegistrationsResolve, Resolved, Written, RemoveRuntime
<1>23. CASE PruneDone
  BY <1>23, <1>0, ResolveInv
     DEF PruneDone, Exit, Goto, others, RunRecords, ResolveInv,
         RegistrationsResolve, Resolved, Written
<1>24. CASE Invoke
  BY <1>24, <1>0, ResolveInv
     DEF Invoke, Exit, Goto, others, RunRecords, ResolveInv,
         RegistrationsResolve, Resolved, Written
<1>25. CASE Decline
  BY <1>25, <1>0, ResolveInv
     DEF Decline, Exit, Goto, others, RunRecords, ResolveInv,
         RegistrationsResolve, Resolved, Written
<1>26. CASE Crash
  BY <1>26, <1>0, ResolveInv
     DEF Crash, Exit, Goto, others, RunRecords, ResolveInv,
         RegistrationsResolve, Resolved, Written
<1>27. ASSUME NEW p \in Paths, UserEdit(p) \/ UserDelete(p) \/ UserRepair(p)
      PROVE  ResolveInv'
  <2>1. PICK content \in Content, last \in 0 .. MaxEdits :
          /\ UserWrite(p, content, last)
          /\ \/ content.reg \in Nameable(p)
             \/ /\ journal.state = "pending" /\ p \in EntriesOf(journal)
                /\ content = journal.original[p]
    BY <1>27, UserContent
  <2> QED
    BY <1>0, <2>1, ResolveInv
       DEF UserWrite, Nameable, ResolveInv, RegistrationsResolve, Resolved, Written
<1>28. ASSUME NEW s \in Servers, ServerIdentify(s) PROVE ResolveInv'
  BY <1>28, ResolveInv
     DEF ServerIdentify, ResolveInv, RegistrationsResolve, Resolved, Written
<1>29. ASSUME NEW s \in Servers, ServerLock(s) PROVE ResolveInv'
  BY <1>29, ResolveInv
     DEF ServerLock, ResolveInv, RegistrationsResolve, Resolved, Written
<1>30. ASSUME NEW s \in Servers, ServerServe(s) PROVE ResolveInv'
  BY <1>30, ResolveInv
     DEF ServerServe, ResolveInv, RegistrationsResolve, Resolved, Written
<1>31. ASSUME NEW s \in Servers, ServerEnd(s) PROVE ResolveInv'
  BY <1>31, ResolveInv
     DEF ServerEnd, ResolveInv, RegistrationsResolve, Resolved, Written
<1>32. CASE UNCHANGED vars
  BY <1>32, ResolveInv
     DEF vars, ResolveInv, RegistrationsResolve, Resolved, Written
<1> QED
  BY <1>1, <1>2, <1>3, <1>4, <1>5, <1>6, <1>7, <1>8, <1>9, <1>10, <1>11, <1>12,
     <1>13, <1>14, <1>15, <1>16, <1>17, <1>18, <1>19, <1>20, <1>21, <1>22,
     <1>23, <1>24, <1>25, <1>26, <1>27, <1>28, <1>29, <1>30, <1>31, <1>32, Zenon
     DEF Next, Run, User, Server

\* Every step keeps track of where an installed runtime is named.
LEMMA StepReceipt ==
  TypeOK /\ ResolveInv /\ ReceiptInv /\ [Next]_vars => ReceiptInv'
<1> SUFFICES ASSUME TypeOK, ResolveInv, ReceiptInv, [Next]_vars PROVE ReceiptInv'
  OBVIOUS
<1>0. /\ run \in RunRecords /\ file \in [Paths -> Content]
      /\ Clients \subseteq Paths /\ Paths \subseteq Nat
  BY PathNumbers DEF TypeOK
<1>1. CASE Recover
  BY <1>1, <1>0, ReceiptInv
     DEF Recover, Exit, Goto, others, RunRecords, NoRun, ReceiptInv, Written,
         Changed
<1>2. CASE RecoverCheck
  BY <1>2, <1>0, ReceiptInv
     DEF RecoverCheck, Exit, Goto, others, RunRecords, NoRun, ReceiptInv,
         Written, Changed
<1>3. CASE RecoverWrite
  BY <1>3, <1>0, ReceiptInv
     DEF RecoverWrite, Exit, Goto, others, RunRecords, NoRun, ReceiptInv,
         Written, Changed
<1>4. CASE RecoverDone
  BY <1>4, <1>0, ReceiptInv
     DEF RecoverDone, Exit, Goto, others, RunRecords, NoRun, ReceiptInv,
         Written, Changed
<1>5. CASE Forget
  BY <1>5, <1>0, ReceiptInv, NoJournalTyped
     DEF Forget, Exit, Goto, others, RunRecords, NoRun, ReceiptInv, Written,
         Changed
<1>6. CASE Resolve
  <2>1. pc' \in {"idle", "confirm"} /\ ~run.receipt
    BY <1>6 DEF Resolve, Exit, Goto, ReceiptInv, Written
  <2>2. run' = NoRun \/ run'.receipt = run.receipt
    BY <1>6, <1>0 DEF Resolve, Exit, RunRecords
  <2>3. ~NoRun.receipt
    BY DEF NoRun
  <2> QED
    BY <2>1, <2>2, <2>3 DEF ReceiptInv, Written
<1>7. CASE Confirm
  BY <1>7, <1>0, ReceiptInv
     DEF Confirm, Exit, Goto, others, RunRecords, NoRun, ReceiptInv, Written,
         Changed
<1>8. CASE InstallRuntime
  BY <1>8, <1>0, ReceiptInv, TypeOK, ResolveInv, ConstantsAssumption
     DEF InstallRuntime, Exit, Goto, others, RunRecords, NoRun, ReceiptInv,
         Written, Changed, TypeOK, ResolveInv, RegistrationsResolve, Resolved
<1>9. CASE Preflight
  BY <1>9, <1>0, ReceiptInv
     DEF Preflight, Exit, Goto, others, RunRecords, NoRun, ReceiptInv, Written,
         Changed
<1>10. CASE Uninstall
  BY <1>10, <1>0, ReceiptInv
     DEF Uninstall, Exit, Goto, others, RunRecords, NoRun, ReceiptInv, Written,
         Changed, RollbackRuntime, RemoveRuntime
<1>11. CASE BeginTransaction
  BY <1>11, <1>0, ReceiptInv, JournalTyped, TypeOK
     DEF BeginTransaction, Exit, Goto, others, RunRecords, NoRun, ReceiptInv,
         Written, Changed
<1>12. CASE ApplyCheck
  BY <1>12, <1>0, ReceiptInv, FirstPath, TypeOK
     DEF ApplyCheck, Exit, Goto, others, RunRecords, NoRun, ReceiptInv, Written,
         Changed, StartRollback
<1>13. CASE ApplyWrite
  <2> DEFINE p == Min(run.todo)
  <2>1. /\ UNCHANGED journal /\ pc = "applyWrite" /\ pc' \in {"apply", "rollback"}
        /\ \/ file' = [file EXCEPT ![p] = run.updated[p]]
           \/ UNCHANGED file /\ pc' = "rollback"
    BY <1>13 DEF ApplyWrite, StartRollback, Goto
  <2>2. /\ run'.original = run.original /\ run'.want = run.want
        /\ run'.receipt = run.receipt /\ run'.planned = run.planned
        /\ run'.updated = run.updated
        /\ pc' = "apply" => run'.todo = run.todo \ {p}
        /\ pc' = "rollback" => run'.todo = {q \in Changed(run) : q <= p}
    BY <1>13, <1>0 DEF ApplyWrite, StartRollback, Goto, RunRecords
  <2>3. /\ p \in Changed(run) /\ p \in run.todo /\ p \in Nat
        /\ run.todo \subseteq Nat /\ \A q \in run.todo : p <= q
    BY <1>13, <1>0, FirstPath, TypeOK
       DEF ApplyWrite, TypeOK, ReceiptInv, RunRecords
  <2>4. ASSUME run.receipt, NEW c \in Clients, file'[c].reg = run.want
        PROVE  /\ c \in Changed(run)
               /\ pc' = "apply" => \A q \in run'.todo : c < q
               /\ pc' = "rollback" => c \in run'.todo
    <3> HIDE DEF p
    <3>1. CASE c = p
      BY <1>0, <2>2, <2>3, <3>1
    <3>2. CASE c # p
      <4>1. file[c].reg = run.want
        BY <1>0, <2>1, <2>4, <3>2
      <4>2. c \in Changed(run) /\ \A q \in run.todo : c < q
        BY <2>1, <2>4, <4>1 DEF ReceiptInv, Written
      <4> QED
        BY <1>0, <2>2, <2>3, <4>2
    <3> QED
      BY <3>1, <3>2
  <2>5. Changed(run') = Changed(run)
    BY <2>2 DEF Changed
  <2> QED
    BY <2>1, <2>2, <2>4, <2>5 DEF ReceiptInv, Written
<1>14. CASE Commit
  BY <1>14, <1>0, ReceiptInv, PathNumbers, JournalTyped, TypeOK
     DEF Commit, Exit, Goto, others, RunRecords, NoRun, ReceiptInv, Written,
         Changed, StartRollback
<1>15. CASE Cleanup
  BY <1>15, <1>0, ReceiptInv, NoJournalTyped
     DEF Cleanup, Exit, Goto, others, RunRecords, NoRun, ReceiptInv, Written,
         Changed
<1>16. CASE RollbackCheck
  <2>1. /\ UNCHANGED <<file, journal>> /\ pc = "rollback"
        /\ pc' \in {"rollback", "rollbackWrite"}
    BY <1>16 DEF RollbackCheck, Goto
  <2>2. /\ run'.original = run.original /\ run'.want = run.want
        /\ run'.receipt = run.receipt
    BY <1>16, <1>0 DEF RollbackCheck, RunRecords
  <2>3. ASSUME run.receipt, ~run'.failed, NEW c \in Clients, file[c].reg = run.want
        PROVE  c \in run'.todo
    <3>1. ~run.failed
      BY <1>16, <1>0, <2>3 DEF RollbackCheck, RunRecords
    <3>2. c \in run.todo /\ run.original[c].reg # run.want
      BY <2>1, <2>3, <3>1 DEF ReceiptInv, Written
    <3>3. \/ run' = run
          \/ /\ run'.todo = run.todo \ {Max(run.todo)}
             /\ file[Max(run.todo)] = run.original[Max(run.todo)]
      BY <1>16, <1>0, <2>3 DEF RollbackCheck, RunRecords
    <3> QED
      BY <2>3, <3>2, <3>3
  <2> QED
    BY <2>1, <2>2, <2>3 DEF ReceiptInv, Written
<1>17. CASE RollbackWrite
  <2> DEFINE p == Max(run.todo)
  <2>1. UNCHANGED journal /\ pc = "rollbackWrite" /\ pc' = "rollback"
    BY <1>17 DEF RollbackWrite, Goto
  <2>2. /\ run'.original = run.original /\ run'.want = run.want
        /\ run'.receipt = run.receipt /\ run'.todo = run.todo \ {p}
    BY <1>17, <1>0 DEF RollbackWrite, RunRecords
  <2>3. ASSUME run.receipt, ~run'.failed, NEW c \in Clients, file'[c].reg = run.want
        PROVE  c \in run'.todo
    <3>1. ~run.failed /\ file' = [file EXCEPT ![p] = run.original[p]]
      BY <1>17, <1>0, <2>3 DEF RollbackWrite, RunRecords
    <3>2. run.original[c].reg # run.want
      BY <2>1, <2>3 DEF ReceiptInv, Written
    <3>3. c # p /\ file[c].reg = run.want
      <4> HIDE DEF p
      <4> QED
        BY <1>0, <2>3, <3>1, <3>2
    <3>4. c \in run.todo
      BY <2>1, <2>3, <3>1, <3>3 DEF ReceiptInv, Written
    <3> QED
      BY <2>2, <3>3, <3>4
  <2> QED
    BY <2>1, <2>2, <2>3 DEF ReceiptInv, Written
<1>18. CASE RollbackDone
  BY <1>18, <1>0, ReceiptInv
     DEF RollbackDone, Exit, Goto, others, RunRecords, NoRun, ReceiptInv,
         Written, Changed, RollbackRuntime, RemoveRuntime
<1>19. CASE Abandon
  BY <1>19, <1>0, ReceiptInv
     DEF Abandon, Exit, Goto, others, RunRecords, NoRun, ReceiptInv, Written,
         Changed
<1>20. CASE Inventory
  BY <1>20, <1>0, ReceiptInv
     DEF Inventory, Exit, Goto, others, RunRecords, NoRun, ReceiptInv, Written,
         Changed
<1>21. CASE PruneLease
  BY <1>21, <1>0, ReceiptInv
     DEF PruneLease, Exit, Goto, others, RunRecords, NoRun, ReceiptInv, Written,
         Changed
<1>22. CASE PruneRemove
  BY <1>22, <1>0, ReceiptInv
     DEF PruneRemove, Exit, Goto, others, RunRecords, NoRun, ReceiptInv,
         Written, Changed, RemoveRuntime
<1>23. CASE PruneDone
  BY <1>23, <1>0, ReceiptInv
     DEF PruneDone, Exit, Goto, others, RunRecords, NoRun, ReceiptInv, Written,
         Changed
<1>24. CASE Invoke
  BY <1>24, <1>0, ReceiptInv
     DEF Invoke, Exit, Goto, others, RunRecords, NoRun, ReceiptInv, Written,
         Changed
<1>25. CASE Decline
  BY <1>25, <1>0, ReceiptInv
     DEF Decline, Exit, Goto, others, RunRecords, NoRun, ReceiptInv, Written,
         Changed
<1>26. CASE Crash
  BY <1>26, <1>0, ReceiptInv
     DEF Crash, Exit, Goto, others, RunRecords, NoRun, ReceiptInv, Written,
         Changed
<1>27. ASSUME NEW p \in Paths, UserEdit(p) \/ UserDelete(p) \/ UserRepair(p)
      PROVE  ReceiptInv'
  <2>1. PICK content \in Content, last \in 0 .. MaxEdits :
          /\ UserWrite(p, content, last)
          /\ \/ content.reg \in Nameable(p)
             \/ /\ journal.state = "pending" /\ p \in EntriesOf(journal)
                /\ content = journal.original[p]
    BY <1>27, UserContent
  <2> QED
    BY <1>0, <2>1, ReceiptInv DEF UserWrite, Nameable, ReceiptInv, Written, Changed
<1>28. ASSUME NEW s \in Servers, ServerIdentify(s) PROVE ReceiptInv'
  BY <1>28, ReceiptInv DEF ServerIdentify, ReceiptInv, Written, Changed
<1>29. ASSUME NEW s \in Servers, ServerLock(s) PROVE ReceiptInv'
  BY <1>29, ReceiptInv DEF ServerLock, ReceiptInv, Written, Changed
<1>30. ASSUME NEW s \in Servers, ServerServe(s) PROVE ReceiptInv'
  BY <1>30, ReceiptInv DEF ServerServe, ReceiptInv, Written, Changed
<1>31. ASSUME NEW s \in Servers, ServerEnd(s) PROVE ReceiptInv'
  BY <1>31, ReceiptInv DEF ServerEnd, ReceiptInv, Written, Changed
<1>32. CASE UNCHANGED vars
  BY <1>32, ReceiptInv DEF vars, ReceiptInv, Written, Changed
<1> QED
  BY <1>1, <1>2, <1>3, <1>4, <1>5, <1>6, <1>7, <1>8, <1>9, <1>10, <1>11, <1>12,
     <1>13, <1>14, <1>15, <1>16, <1>17, <1>18, <1>19, <1>20, <1>21, <1>22,
     <1>23, <1>24, <1>25, <1>26, <1>27, <1>28, <1>29, <1>30, <1>31, <1>32, Zenon
     DEF Next, Run, User, Server

\* Every registration, and every registration a recovery would put back, names an
\* installed runtime: neither a rollback nor pruning removes one that is
\* referenced (rollback_installed_runtime, prune_runtimes_at).
THEOREM RegistrationsStayResolved == Spec => []RegistrationsResolve
<1>1. Init => TypeOK /\ ResolveInv /\ ReceiptInv
  <2> SUFFICES ASSUME Init PROVE ResolveInv /\ ReceiptInv
    BY InitTyped
  <2>1. RegistrationsResolve
    BY PathNumbers, NoJournalTyped DEF Init, RegistrationsResolve, Absent
  <2> QED
    BY <2>1 DEF Init, NoRun, ResolveInv, ReceiptInv, Written
<1>2. TypeOK /\ ResolveInv /\ ReceiptInv /\ [Next]_vars
        => TypeOK' /\ ResolveInv' /\ ReceiptInv'
  BY StepTyped, StepResolved, StepReceipt
<1>3. ResolveInv => RegistrationsResolve
  BY DEF ResolveInv
<1> QED
  BY <1>1, <1>2, <1>3, PTL DEF Spec

-----------------------------------------------------------------------------
\* With no file new, or none old, there is no mixture.
LEMMA OneSided ==
  ASSUME \/ \A p \in Paths : side[p] # "new"
         \/ \A p \in Paths : side[p] # "old"
  PROVE  Unmixed
<1> SUFFICES ASSUME NEW p \in Paths, NEW q \in Paths,
                    {side[p], side[q]} = {"old", "new"}
             PROVE  FALSE
  BY DEF Unmixed
<1>1. /\ side[p] = "old" \/ side[q] = "old"
      /\ side[p] = "new" \/ side[q] = "new"
  OBVIOUS
<1> QED
  BY <1>1

\* Every step keeps track of the files that are new, unless the sync of a commit
\* record fails.
LEMMA StepSides ==
  ASSUME ~UnsyncedCommit
  PROVE  TypeOK /\ SidesInv /\ [Next]_vars => SidesInv'
<1> SUFFICES ASSUME TypeOK, SidesInv, [Next]_vars PROVE SidesInv'
  OBVIOUS
<1>0. /\ run \in RunRecords /\ side \in [Paths -> {"none", "old", "new"}]
      /\ Paths \subseteq Nat /\ run.todo \subseteq Paths
  BY PathNumbers DEF TypeOK, RunRecords
<1>1. CASE Recover
  BY <1>1, <1>0, SidesInv
     DEF Recover, Exit, Goto, others, RunRecords, NoRun, SidesInv, Changed,
         EntriesOf, Unmixed
<1>2. CASE RecoverCheck
  BY <1>2, <1>0, SidesInv, FirstPath, TypeOK
     DEF RecoverCheck, Exit, Goto, others, RunRecords, NoRun, SidesInv, Changed,
         EntriesOf, Unmixed
<1>3. CASE RecoverWrite
  BY <1>3, <1>0, SidesInv, FirstPath, TypeOK
     DEF RecoverWrite, Exit, Goto, others, RunRecords, NoRun, SidesInv, Changed,
         EntriesOf, Unmixed
<1>4. CASE RecoverDone
  <2>1. Unmixed
    BY <1>4, <1>0, OneSided DEF RecoverDone, SidesInv
  <2> QED
    BY <1>4, <2>1, SidesInv DEF RecoverDone, Goto, SidesInv, Unmixed
<1>5. CASE Forget
  BY <1>5, <1>0, SidesInv, NoJournalTyped
     DEF Forget, Exit, Goto, others, RunRecords, NoRun, SidesInv, Changed,
         EntriesOf, Unmixed
<1>6. CASE Resolve
  BY <1>6, <1>0, SidesInv
     DEF Resolve, Exit, Goto, others, RunRecords, NoRun, SidesInv, Changed,
         EntriesOf, Unmixed
<1>7. CASE Confirm
  BY <1>7, <1>0, SidesInv
     DEF Confirm, Exit, Goto, others, RunRecords, NoRun, SidesInv, Changed,
         EntriesOf, Unmixed
<1>8. CASE InstallRuntime
  BY <1>8, <1>0, SidesInv
     DEF InstallRuntime, Exit, Goto, others, RunRecords, NoRun, SidesInv,
         Changed, EntriesOf, Unmixed
<1>9. CASE Preflight
  BY <1>9, <1>0, SidesInv
     DEF Preflight, Exit, Goto, others, RunRecords, NoRun, SidesInv, Changed,
         EntriesOf, Unmixed
<1>10. CASE Uninstall
  BY <1>10, <1>0, SidesInv
     DEF Uninstall, Exit, Goto, others, RunRecords, NoRun, SidesInv, Changed,
         EntriesOf, Unmixed
<1>11. CASE BeginTransaction
  BY <1>11, <1>0, SidesInv, JournalTyped, TypeOK
     DEF BeginTransaction, Exit, Goto, others, RunRecords, NoRun, SidesInv,
         Changed, EntriesOf, Unmixed
<1>12. CASE ApplyCheck
  BY <1>12, <1>0, SidesInv, FirstPath, TypeOK
     DEF ApplyCheck, Exit, Goto, others, RunRecords, NoRun, SidesInv, Changed,
         EntriesOf, Unmixed, StartRollback
<1>13. CASE ApplyWrite
  <2> DEFINE p == Min(run.todo)
  <2>0. /\ UNCHANGED journal /\ pc = "applyWrite" /\ pc' \in {"apply", "rollback"}
        /\ \/ side' = [side EXCEPT ![p] = "new"]
           \/ UNCHANGED side /\ pc' = "rollback"
    BY <1>13 DEF ApplyWrite, StartRollback, Goto
  <2>1. Changed(run) # {} /\ journal.state = "pending" /\ EntriesOf(journal) = Changed(run)
    BY <2>0 DEF SidesInv
  <2>2. /\ pc' = "apply" => run'.todo = run.todo \ {p}
        /\ pc' = "rollback" => run'.todo = {q \in Changed(run) : q <= p}
        /\ Changed(run') = Changed(run)
    BY <1>13, <1>0 DEF ApplyWrite, StartRollback, Goto, RunRecords, Changed
  <2>3. /\ p \in Changed(run) /\ p \in run.todo /\ p \in Paths
        /\ \A q \in run.todo : p <= q
    BY <1>13, <1>0, FirstPath, TypeOK DEF ApplyWrite, TypeOK, SidesInv
  <2>4. ASSUME NEW q \in Paths
        PROVE  /\ side'[q] = "old" => q \in Changed(run)
               /\ side'[q] = "new" => /\ q \in Changed(run) /\ q <= p
                                     /\ \A t \in run.todo \ {p} : q < t
               /\ pc' = "apply" /\ q \in Changed(run) \ (run.todo \ {p}) => side'[q] = "new"
    <3>1. CASE q = p
      <4> HIDE DEF p
      <4>1. q <= p /\ \A t \in run.todo \ {p} : q < t
        <5>1. p \in Nat
          BY <1>0, <2>3
        <5>2. ASSUME NEW t \in run.todo, t # p PROVE p < t
          <6>1. t \in Nat /\ p <= t
            BY <1>0, <2>3
          <6> QED
            BY <5>1, <5>2, <6>1
        <5> QED
          BY <3>1, <5>1, <5>2
      <4>2. pc' = "apply" => side'[q] = "new"
        BY <1>0, <2>0, <3>1
      <4> QED
        BY <2>3, <3>1, <4>1, <4>2
    <3>2. CASE q # p
      <4>1. side'[q] = side[q]
        BY <1>0, <2>0, <3>2
      <4>2. /\ side[q] = "old" => q \in Changed(run)
            /\ side[q] = "new" => q \in Changed(run) /\ \A t \in run.todo : q < t
            /\ q \in Changed(run) \ run.todo => side[q] = "new"
        BY <2>0, <2>1 DEF SidesInv
      <4> HIDE DEF p
      <4> QED
        BY <1>0, <2>3, <3>2, <4>1, <4>2
    <3> QED
      BY <3>1, <3>2
  <2> HIDE DEF p
  <2> QED
    BY <2>0, <2>1, <2>2, <2>4 DEF SidesInv
<1>14. CASE Commit
  <2>0. UNCHANGED side /\ pc = "apply" /\ run.todo = {}
    BY <1>14 DEF Commit
  <2>1. CASE Changed(run) = {}
    BY <1>14, <2>0, <2>1, SidesInv DEF Commit, Exit, Goto, SidesInv, Unmixed
  <2>2. CASE Changed(run) # {} /\ pc' = "cleanup"
    <3>1. journal'.state = "committed"
      BY <1>14, <2>2, JournalTyped DEF Commit, StartRollback, Goto
    <3>2. Unmixed
      BY <1>0, <2>0, <2>2, OneSided DEF SidesInv
    <3> QED
      BY <2>0, <2>2, <3>1, <3>2 DEF SidesInv, Unmixed
  <2>3. CASE Changed(run) # {} /\ pc' # "cleanup"
    <3>1. /\ UNCHANGED journal /\ pc' = "rollback"
          /\ run' = [run EXCEPT !.todo = {q \in Changed(run) : q <= Max(Paths)}]
      BY <1>14, <2>3 DEF Commit, StartRollback, Goto
    <3>2. Changed(run') = Changed(run)
      BY <1>0, <3>1 DEF RunRecords, Changed
    <3>3. ASSUME NEW p \in Paths, side[p] = "new" PROVE p \in run'.todo
      BY <1>0, <2>0, <2>3, <3>1, <3>3, PathNumbers DEF RunRecords, SidesInv
    <3> QED
      BY <2>0, <2>3, <3>1, <3>2, <3>3, SidesInv DEF SidesInv, Unmixed
  <2> QED
    BY <2>1, <2>2, <2>3
<1>15. CASE Cleanup
  BY <1>15, <1>0, SidesInv, NoJournalTyped
     DEF Cleanup, Exit, Goto, others, RunRecords, NoRun, SidesInv, Changed,
         EntriesOf, Unmixed
<1>16. CASE RollbackCheck
  <2> DEFINE p == Max(run.todo)
  <2>0. /\ UNCHANGED journal /\ pc \in {"rollback", "rollbackWrite"}
        /\ pc' \in {"rollback", "rollbackWrite"}
    BY <1>16 DEF RollbackCheck, Goto
  <2>1. run.todo # {}
    BY <1>16, TypeOK DEF RollbackCheck, TypeOK
  <2>2. Changed(run) # {} /\ journal.state = "pending" /\ EntriesOf(journal) = Changed(run)
    BY <2>0, <2>1 DEF SidesInv
  <2>3. Changed(run') = Changed(run)
    BY <1>16, <1>0 DEF RollbackCheck, RunRecords, Changed
  <2>4. side' = side \/ side' = [side EXCEPT ![p] = "old"]
    BY <1>16 DEF RollbackCheck
  <2>5. ASSUME ~run'.failed
        PROVE  /\ ~run.failed
               /\ \/ run'.todo = run.todo
                  \/ run'.todo = run.todo \ {p} /\ side' = [side EXCEPT ![p] = "old"]
    BY <1>16, <1>0, <2>5 DEF RollbackCheck, RunRecords
  <2>6. ASSUME NEW q \in Paths, side'[q] = "new"
        PROVE  side[q] = "new" /\ (side' = [side EXCEPT ![p] = "old"] => q # p)
    <3> HIDE DEF p
    <3> QED
      BY <1>0, <2>4, <2>6
  <2>7. ASSUME ~run'.failed, NEW q \in Paths, side'[q] = "new"
        PROVE  q \in run'.todo
    <3>1. q \in run.todo
      BY <2>0, <2>2, <2>5, <2>6, <2>7 DEF SidesInv
    <3> QED
      BY <2>5, <2>6, <2>7, <3>1
  <2> QED
    BY <2>0, <2>2, <2>3, <2>6, <2>7 DEF SidesInv
<1>17. CASE RollbackWrite
  <2> DEFINE p == Max(run.todo)
  <2>0. /\ UNCHANGED journal /\ pc \in {"rollback", "rollbackWrite"}
        /\ pc' \in {"rollback", "rollbackWrite"}
    BY <1>17 DEF RollbackWrite, Goto
  <2>1. run.todo # {}
    BY <1>17, TypeOK DEF RollbackWrite, TypeOK
  <2>2. Changed(run) # {} /\ journal.state = "pending" /\ EntriesOf(journal) = Changed(run)
    BY <2>0, <2>1 DEF SidesInv
  <2>3. Changed(run') = Changed(run)
    BY <1>17, <1>0 DEF RollbackWrite, RunRecords, Changed
  <2>4. side' = side \/ side' = [side EXCEPT ![p] = "old"]
    BY <1>17 DEF RollbackWrite
  <2>5. ASSUME ~run'.failed
        PROVE  /\ ~run.failed
               /\ \/ run'.todo = run.todo
                  \/ run'.todo = run.todo \ {p} /\ side' = [side EXCEPT ![p] = "old"]
    BY <1>17, <1>0, <2>5 DEF RollbackWrite, RunRecords
  <2>6. ASSUME NEW q \in Paths, side'[q] = "new"
        PROVE  side[q] = "new" /\ (side' = [side EXCEPT ![p] = "old"] => q # p)
    <3> HIDE DEF p
    <3> QED
      BY <1>0, <2>4, <2>6
  <2>7. ASSUME ~run'.failed, NEW q \in Paths, side'[q] = "new"
        PROVE  q \in run'.todo
    <3>1. q \in run.todo
      BY <2>0, <2>2, <2>5, <2>6, <2>7 DEF SidesInv
    <3> QED
      BY <2>5, <2>6, <2>7, <3>1
  <2> QED
    BY <2>0, <2>2, <2>3, <2>6, <2>7 DEF SidesInv
<1>18. CASE RollbackDone
  <2>1. CASE pc' = "idle"
    BY <1>18, <2>1, SidesInv DEF RollbackDone, SidesInv, Unmixed
  <2>2. CASE pc' = "abandon"
    <3>1. Unmixed
      BY <1>18, <1>0, <2>2, OneSided DEF RollbackDone, Exit, Goto, SidesInv
    <3> QED
      BY <1>18, <2>2, <3>1, SidesInv DEF RollbackDone, SidesInv, Unmixed
  <2> QED
    BY <1>18, <2>1, <2>2 DEF RollbackDone, Exit, Goto
<1>19. CASE Abandon
  BY <1>19, <1>0, SidesInv, JournalTyped, TypeOK
     DEF Abandon, Exit, Goto, others, RunRecords, NoRun, SidesInv, Changed,
         EntriesOf, Unmixed
<1>20. CASE Inventory
  BY <1>20, <1>0, SidesInv
     DEF Inventory, Exit, Goto, others, RunRecords, NoRun, SidesInv, Changed,
         EntriesOf, Unmixed
<1>21. CASE PruneLease
  BY <1>21, <1>0, SidesInv
     DEF PruneLease, Exit, Goto, others, RunRecords, NoRun, SidesInv, Changed,
         EntriesOf, Unmixed
<1>22. CASE PruneRemove
  BY <1>22, <1>0, SidesInv
     DEF PruneRemove, Exit, Goto, others, RunRecords, NoRun, SidesInv, Changed,
         EntriesOf, Unmixed
<1>23. CASE PruneDone
  BY <1>23, <1>0, SidesInv
     DEF PruneDone, Exit, Goto, others, RunRecords, NoRun, SidesInv, Changed,
         EntriesOf, Unmixed
<1>24. CASE Invoke
  BY <1>24, <1>0, SidesInv
     DEF Invoke, Exit, Goto, others, RunRecords, NoRun, SidesInv, Changed,
         EntriesOf, Unmixed
<1>25. CASE Decline
  BY <1>25, <1>0, SidesInv
     DEF Decline, Exit, Goto, others, RunRecords, NoRun, SidesInv, Changed,
         EntriesOf, Unmixed
<1>26. CASE Crash
  BY <1>26, <1>0, SidesInv
     DEF Crash, Exit, Goto, others, RunRecords, NoRun, SidesInv, Changed,
         EntriesOf, Unmixed
<1>27. ASSUME NEW p \in Paths, UserEdit(p) \/ UserDelete(p) \/ UserRepair(p)
      PROVE  SidesInv'
  <2>1. UNCHANGED <<journal, pc, run, side>>
    BY <1>27, UserContent DEF UserWrite
  <2> QED
    BY <2>1, SidesInv DEF SidesInv, Unmixed
<1>28. ASSUME NEW s \in Servers, ServerIdentify(s) PROVE SidesInv'
  BY <1>28, SidesInv DEF ServerIdentify, SidesInv, Unmixed
<1>29. ASSUME NEW s \in Servers, ServerLock(s) PROVE SidesInv'
  BY <1>29, SidesInv DEF ServerLock, SidesInv, Unmixed
<1>30. ASSUME NEW s \in Servers, ServerServe(s) PROVE SidesInv'
  BY <1>30, SidesInv DEF ServerServe, SidesInv, Unmixed
<1>31. ASSUME NEW s \in Servers, ServerEnd(s) PROVE SidesInv'
  BY <1>31, SidesInv DEF ServerEnd, SidesInv, Unmixed
<1>32. CASE UNCHANGED vars
  BY <1>32, SidesInv DEF vars, SidesInv, Unmixed
<1> QED
  BY <1>1, <1>2, <1>3, <1>4, <1>5, <1>6, <1>7, <1>8, <1>9, <1>10, <1>11, <1>12,
     <1>13, <1>14, <1>15, <1>16, <1>17, <1>18, <1>19, <1>20, <1>21, <1>22,
     <1>23, <1>24, <1>25, <1>26, <1>27, <1>28, <1>29, <1>30, <1>31, <1>32, Zenon
     DEF Next, Run, User, Server

\* When no run is active and no journal is left, the last transaction has replaced
\* all of its paths or none of them, unless the sync of a commit record failed
\* (apply_plan, rollback_setup, recover_interrupted_transaction).
THEOREM TransactionsAreAtomic ==
  ASSUME ~UnsyncedCommit
  PROVE  Spec => []AllOrNothing
<1>1. Init => TypeOK /\ SidesInv
  <2> SUFFICES ASSUME Init PROVE SidesInv
    BY InitTyped
  <2>1. Unmixed
    BY OneSided DEF Init
  <2> QED
    BY <2>1, NoJournalTyped DEF Init, SidesInv
<1>2. TypeOK /\ SidesInv /\ [Next]_vars => TypeOK' /\ SidesInv'
  BY StepTyped, StepSides
<1>3. SidesInv => AllOrNothing
  BY DEF SidesInv, Unmixed, AllOrNothing
<1> QED
  BY <1>1, <1>2, <1>3, PTL DEF Spec

-----------------------------------------------------------------------------
(* Skills and registrations.                                               *)

\* Only the registrations count.
LEMMA FollowSame ==
  ASSUME NEW f, NEW g, SameReg(f, g, Paths), Follow(f)
  PROVE  Follow(g)
<1>1. /\ \A c \in Clients : f[c].reg = g[c].reg
      /\ \A s \in Skills : f[s].reg = g[s].reg
  BY PathNumbers DEF SameReg
<1> QED
  BY <1>1 DEF Follow

\* A plan made from files in which skills follow registrations leads to such
\* files again (resolve_client_edit, resolve_discovery_edits).
LEMMA PlanFollows ==
  ASSUME NEW op \in {"setup", "remove"}, NEW want, op = "setup" => want # None,
         NEW selected \in SUBSET Clients, NEW f \in [Paths -> Content], Follow(f)
  PROVE  Follow(Updated(op, want, selected, f))
<1> DEFINE u == Updated(op, want, selected, f)
           W == WrittenSkills(op, selected, f)
           K == CleanedSkills(op, selected, f)
           U == Unselected(selected, f)
<1>1. W \subseteq Skills /\ K \subseteq Skills
  BY PlannedSkills
<1>2. K = {}
  <2>1. ASSUME NEW s \in K, op = "setup" PROVE FALSE
    <3>1. s \in Skills /\ s \notin SkillsOf(selected \cup U) /\ f[s].reg # None
      BY <2>1 DEF CleanedSkills
    <3>2. PICK c \in Clients : SkillOf[c] = s /\ f[c].reg # None
      BY <3>1 DEF Follow
    <3>3. c \in selected \cup U
      BY <3>2 DEF Unselected
    <3> QED
      BY <3>1, <3>2, <3>3 DEF SkillsOf
  <2>2. op # "setup" => K = {}
    BY DEF CleanedSkills
  <2> QED
    BY <2>1, <2>2
<1>3. ASSUME NEW c \in Clients
      PROVE  u[c].reg # None <=> IF c \in selected THEN op = "setup" ELSE f[c].reg # None
  <2>1. c \in Paths /\ c \notin W /\ c \notin K /\ f[c] \in Content
    BY <1>1, PathNumbers
  <2>2. u[c] = IF c \in selected THEN ClientUpdate(op, want, f[c]) ELSE f[c]
    BY <2>1 DEF Updated
  <2>3. ClientUpdate(op, want, f[c]).reg # None <=> op = "setup"
    BY <2>1 DEF ClientUpdate, Content
  <2> QED
    BY <2>2, <2>3
<1>4. ASSUME NEW s \in Skills
      PROVE  u[s].reg # None <=>
               IF s \in W THEN op = "setup" ELSE f[s].reg # None
  <2>1. s \in Paths /\ s \notin selected /\ f[s] \in Content
    BY PathNumbers
  <2>2. u[s] = IF s \in W THEN SkillUpdate(op, want, f[s]) ELSE f[s]
    BY <1>2, <2>1 DEF Updated
  <2>3. SkillUpdate(op, want, f[s]).reg # None <=> op = "setup"
    BY <2>1 DEF SkillUpdate, Content, Absent
  <2> QED
    BY <2>2, <2>3
<1>5. \A c \in Clients : c \in U <=> c \notin selected /\ f[c].reg # None
  BY DEF Unselected
<1>6. \A s, C : s \in SkillsOf(C) <=> \E c \in C : SkillOf[c] = s
  BY DEF SkillsOf
<1>7. /\ op = "setup" => W = SkillsOf(selected)
      /\ op = "remove" => W = IF SkillsOf(U) = {} THEN Skills
                              ELSE SkillsOf(selected) \ SkillsOf(U)
  BY DEF WrittenSkills
<1>8. U \subseteq Clients
  BY DEF Unselected
<1> SUFFICES ASSUME NEW s \in Skills
             PROVE  u[s].reg # None <=>
                      \E c \in Clients : SkillOf[c] = s /\ u[c].reg # None
  BY DEF Follow
<1>9. f[s].reg # None <=> \E c \in Clients : SkillOf[c] = s /\ f[c].reg # None
  BY DEF Follow
<1> HIDE DEF u, W, K, U
<1>10. CASE op = "setup"
  <2>1. CASE s \in W
    BY <1>3, <1>4, <1>6, <1>7, <1>10, <2>1
  <2>2. CASE s \notin W
    <3>1. \A c \in Clients : SkillOf[c] = s => c \notin selected
      BY <1>6, <1>7, <1>10, <2>2
    <3> QED
      BY <1>3, <1>4, <1>2, <1>9, <2>2, <3>1
  <2> QED
    BY <2>1, <2>2
<1>11. CASE op = "remove"
  <2>1. \A c \in Clients : u[c].reg # None <=> c \in U
    BY <1>3, <1>5, <1>11
  <2>2. (\E c \in Clients : SkillOf[c] = s /\ u[c].reg # None) <=> s \in SkillsOf(U)
    BY <1>6, <1>8, <2>1
  <2>3. s \in W => s \notin SkillsOf(U)
    BY <1>7, <1>11
  <2>4. ASSUME s \notin W PROVE f[s].reg # None <=> s \in SkillsOf(U)
    <3>1. ASSUME f[s].reg # None PROVE s \in SkillsOf(U)
      <4>1. PICK c \in Clients : SkillOf[c] = s /\ f[c].reg # None
        BY <1>9, <3>1
      <4>2. CASE c \in selected
        BY <1>6, <1>7, <1>11, <2>4, <4>1, <4>2
      <4>3. CASE c \notin selected
        BY <1>5, <1>6, <4>1, <4>3
      <4> QED
        BY <4>2, <4>3
    <3>2. ASSUME s \in SkillsOf(U) PROVE f[s].reg # None
      BY <1>5, <1>6, <1>8, <1>9, <3>2
    <3> QED
      BY <3>1, <3>2
  <2> QED
    BY <1>4, <1>2, <1>11, <2>2, <2>3, <2>4
<1> QED
  BY <1>10, <1>11

\* A plan changes nothing outside the paths it plans to edit (resolve_plan).
LEMMA PlanOutside ==
  ASSUME NEW op, NEW want, NEW selected, NEW f, NEW p \in Paths,
         p \notin selected \cup WrittenSkills(op, selected, f)
                           \cup CleanedSkills(op, selected, f)
  PROVE  Updated(op, want, selected, f)[p] = f[p]
BY DEF Updated

\* What recovery would restore does not change with the content of entries, nor
\* with an edit that leaves the registration alone.
LEMMA RestoredStays ==
  ASSUME Follow(Restored), UNCHANGED journal,
         \A p \in Paths : \/ file'[p].reg = file[p].reg
                          \/ journal.state = "pending" /\ p \in EntriesOf(journal)
  PROVE  Follow(Restored')
<1>1. SameReg(Restored, Restored', Paths)
  BY DEF SameReg, Restored
<1> QED
  BY <1>1, FollowSame

\* What recovery would restore once a run is done with its changes, or has its
\* journal removed, is what is there.
LEMMA RestoredIsThere ==
  ASSUME Follow(file), UNCHANGED file, journal'.state # "pending"
  PROVE  Follow(Restored')
<1>1. SameReg(file, Restored', Paths)
  BY DEF SameReg, Restored
<1> QED
  BY <1>1, FollowSame

\* A step after which nothing is being planned, written or restored.
LEMMA SkillsQuiet ==
  ASSUME SkillInv, UNCHANGED <<file, journal, touched>>,
         pc' \in {"idle", "inventory", "prune", "pruneLeased", "uninstall"}
  PROVE  SkillInv'
<1>1. ASSUME ~touched PROVE FollowInv'
  <2>1. Follow(Restored')
    BY <1>1, RestoredStays DEF SkillInv, FollowInv
  <2> QED
    BY <2>1 DEF FollowInv, Recovering, Planning, Applying, Undoing
<1> QED
  BY <1>1 DEF SkillInv, Recovering, Planning, Applying, Undoing

\* The last path of a run that has one is a path (rollback_setup).
LEMMA LastPath ==
  ASSUME TypeOK, run.todo # {}
  PROVE  Max(run.todo) \in run.todo
<1> DEFINE S == run.todo
           N == NumClients + NumSkills
           T == {N - y : y \in S}
<1>1. S \subseteq Paths
  BY DEF TypeOK, RunRecords
<1>2. N \in Nat /\ \A y \in S : y \in Nat /\ y <= N /\ N - y \in Nat
  BY <1>1, ConstantsAssumption DEF Paths, Clients, Skills
<1> HIDE DEF N, S
<1>3. T \subseteq Nat /\ T # {}
  BY <1>2 DEF S
<1>4. Min(T) \in T /\ \A t \in T : Min(T) <= t
  BY <1>3, MinIsFirst
<1>5. PICK x \in S : N - x = Min(T)
  BY <1>4
<1>6. \A y \in S : N - x <= N - y
  BY <1>4, <1>5
<1>7. \A y \in S : x >= y
  BY <1>2, <1>6
<1>8. \E z \in S : \A y \in S : z >= y
  BY <1>7
<1> QED
  BY <1>8, Zenon DEF Max, S


\* Without a pending journal there is nothing to restore.
LEMMA NothingToRestore ==
  ASSUME Follow(Restored),
         journal.state = "pending" => SameReg(file, journal.original, EntriesOf(journal))
  PROVE  Follow(file)
<1>1. SameReg(Restored, file, Paths)
  BY DEF SameReg, Restored
<1> QED
  BY <1>1, FollowSame

\* An apply that stops starts to undo every path it may have written
\* (apply_plan, rollback_setup).
LEMMA UndoStarts ==
  ASSUME TypeOK, SidesInv, SkillInv, UNCHANGED <<journal, touched>>,
         pc \in Applying, NEW top, StartRollback(top),
         \/ run.todo = {} /\ UNCHANGED file /\ top = Max(Paths)
         \/ /\ run.todo # {} /\ top = Min(run.todo)
            /\ \/ UNCHANGED file
               \/ top \in Changed(run) /\ file' = [file EXCEPT ![top] = run.updated[top]]
  PROVE  SkillInv'
<1>0. run \in RunRecords /\ Paths \subseteq Nat /\ run.todo \subseteq Paths
  BY PathNumbers DEF TypeOK, RunRecords
<1>1. /\ pc' = "rollback" /\ run'.todo = {q \in Changed(run) : q <= top}
      /\ run'.original = run.original /\ run'.updated = run.updated
      /\ run'.failed = run.failed /\ Changed(run') = Changed(run)
  BY <1>0 DEF StartRollback, Goto, RunRecords, Changed
<1>2. Changed(run) \subseteq Paths
  BY <1>0 DEF RunRecords, Changed
<1>3. ASSUME NEW q \in Changed(run), q \notin run'.todo PROVE q \in run.todo /\ q # top
  <2>1. q \in Nat /\ ~(q <= top)
    BY <1>0, <1>1, <1>2, <1>3
  <2>2. run.todo # {} /\ top = Min(run.todo)
    BY <1>2, <2>1, PathNumbers
  <2>3. top \in run.todo /\ top \in Nat
    BY <1>0, <2>2, FirstPath
  <2>4. ASSUME q \notin run.todo PROVE FALSE
    <3>1. side[q] = "new"
      BY <1>2, <2>4 DEF SidesInv, Applying
    <3>2. q < top
      BY <1>2, <2>3, <3>1 DEF SidesInv, Applying
    <3> QED
      BY <2>1, <2>3, <3>2
  <2> QED
    BY <2>1, <2>3, <2>4
<1>4. ASSUME ~touched PROVE FollowInv'
  <2>1. /\ Follow(Restored) /\ Follow(run.original) /\ Follow(run.updated)
        /\ SameReg(file, run.original, Paths \ (Changed(run) \ run.todo))
    BY <1>4 DEF SkillInv, FollowInv
  <2>2. \A q \in Paths : \/ file'[q].reg = file[q].reg
                         \/ q = top /\ top \in Changed(run)
    <3>1. file \in [Paths -> Content]
      BY DEF TypeOK
    <3>2. file' = file \/ (top \in Changed(run) /\ file' = [file EXCEPT ![top] = run.updated[top]])
      OBVIOUS
    <3> QED
      BY <3>1, <3>2
  <2>3. Follow(Restored')
    <3>1. Changed(run) # {} => journal.state = "pending" /\ EntriesOf(journal) = Changed(run)
      BY DEF SidesInv, Applying
    <3> QED
      BY <2>1, <2>2, <3>1, RestoredStays
  <2>4. ASSUME NEW q \in Paths \ run'.todo PROVE file'[q].reg = run.original[q].reg
    <3>1. q # top \/ q \notin Changed(run)
      BY <1>3, <2>4
    <3>2. file'[q].reg = file[q].reg
      BY <2>2, <3>1
    <3>3. q \notin Changed(run) \ run.todo
      BY <1>3
    <3> QED
      BY <2>1, <3>2, <3>3 DEF SameReg
  <2> QED
    BY <1>1, <2>1, <2>3, <2>4
       DEF FollowInv, SameReg, Recovering, Planning, Applying, Undoing
<1>5. SameReg(run'.updated, run'.original, Paths \ Changed(run'))
  BY <1>1 DEF SkillInv
<1>6. run'.todo \subseteq Changed(run')
  BY <1>1
<1> QED
  BY <1>1, <1>4, <1>5, <1>6 DEF SkillInv, Recovering, Planning, Applying, Undoing

\* Every step keeps what is known of skills and registrations, unless the sync of
\* a commit record fails.
LEMMA StepSkills ==
  ASSUME ~UnsyncedCommit
  PROVE  TypeOK /\ SidesInv /\ SkillInv /\ [Next]_vars => SkillInv'
<1> SUFFICES ASSUME TypeOK, SidesInv, SkillInv, [Next]_vars PROVE SkillInv'
  OBVIOUS
<1>0. /\ run \in RunRecords /\ file \in [Paths -> Content] /\ Paths \subseteq Nat
      /\ run.todo \subseteq Paths /\ Changed(run) \subseteq Paths
  BY PathNumbers DEF TypeOK, RunRecords, Changed
<1> USE DEF Recovering, Planning, Applying, Undoing
<1>1. CASE Recover
  <2>0. /\ UNCHANGED <<file, journal, touched>> /\ pc = "recover" /\ run'.op = run.op
        /\ run'.want = run.want /\ pc' \in {"inventory", "resolve", "forget", "recovering"}
        /\ pc' = "resolve" => run.op # "prune"
        /\ pc' = "forget" => journal.state = "committed"
        /\ pc' = "recovering" => run'.todo = EntriesOf(journal)
    BY <1>1, <1>0 DEF Recover, Goto, others, ghosts, RunRecords, EntriesOf
  <2>1. ASSUME ~touched PROVE FollowInv'
    <3>1. Follow(Restored) /\ Follow(Restored')
      BY <2>0, <2>1, RestoredStays DEF SkillInv, FollowInv
    <3>2. journal.state = "committed" => Follow(file)
      BY <3>1, NothingToRestore
    <3> QED
      BY <2>0, <3>1, <3>2 DEF FollowInv, SameReg
  <2> QED
    BY <2>0, <2>1 DEF SkillInv
<1>2. CASE RecoverCheck
  <2>1. CASE pc' = "idle"
    BY <1>2, <2>1, SkillsQuiet DEF RecoverCheck, others, ghosts
  <2>2. CASE pc' # "idle"
    <3>0. /\ UNCHANGED <<file, journal, touched>> /\ pc \in Recovering /\ pc' \in Recovering
          /\ run'.op = run.op /\ run'.want = run.want
          /\ \A p \in run.todo \ run'.todo : file[p] = journal.original[p]
      BY <1>2, <1>0, <2>2 DEF RecoverCheck, Exit, Goto, others, ghosts, RunRecords
    <3>1. ASSUME ~touched PROVE FollowInv'
      <4>1. Follow(Restored')
        BY <3>0, <3>1, RestoredStays DEF SkillInv, FollowInv
      <4>2. SameReg(file, journal.original, EntriesOf(journal) \ run'.todo)
        BY <3>0, <3>1 DEF SkillInv, FollowInv, SameReg
      <4> QED
        BY <3>0, <4>1, <4>2 DEF FollowInv
    <3> QED
      BY <3>0, <3>1 DEF SkillInv
  <2> QED
    BY <2>1, <2>2
<1>3. CASE RecoverWrite
  <2> DEFINE p == Min(run.todo)
  <2>0. /\ UNCHANGED <<journal, touched>> /\ pc = "recoverWrite" /\ pc' = "recovering"
        /\ run'.op = run.op /\ run'.want = run.want /\ run'.todo = run.todo \ {p}
        /\ file' = [file EXCEPT ![p] = journal.original[p]]
    BY <1>3, <1>0 DEF RecoverWrite, Goto, others, ghosts, RunRecords
  <2>1. p \in EntriesOf(journal) /\ p \in Paths /\ journal.state = "pending"
    BY <2>0, FirstPath DEF TypeOK, SidesInv
  <2> HIDE DEF p
  <2>2. ASSUME ~touched PROVE FollowInv'
    <3>1. \A q \in Paths : q # p => file'[q] = file[q]
      BY <1>0, <2>0
    <3>2. Follow(Restored')
      BY <2>0, <2>1, <2>2, <3>1, RestoredStays DEF SkillInv, FollowInv
    <3>3. SameReg(file, journal.original, EntriesOf(journal) \ run.todo)
      BY <2>0, <2>2 DEF SkillInv, FollowInv
    <3>4. EntriesOf(journal) \subseteq Paths
      BY DEF TypeOK
    <3>5. SameReg(file', journal.original, EntriesOf(journal) \ run'.todo)
      BY <1>0, <2>0, <2>1, <3>1, <3>3, <3>4 DEF SameReg
    <3> QED
      BY <2>0, <3>2, <3>5 DEF FollowInv
  <2> QED
    BY <2>0, <2>2 DEF SkillInv
<1>4. CASE RecoverDone
  <2>0. /\ UNCHANGED <<file, journal, run, touched>> /\ pc = "recovering" /\ pc' = "forget"
        /\ run.todo = {}
    BY <1>4 DEF RecoverDone, Goto, others, ghosts
  <2>1. ASSUME ~touched PROVE FollowInv'
    <3>1. Follow(Restored) /\ Follow(Restored')
      BY <2>0, <2>1, RestoredStays DEF SkillInv, FollowInv
    <3>2. SameReg(file, journal.original, EntriesOf(journal))
      BY <2>0, <2>1 DEF SkillInv, FollowInv, SameReg
    <3>3. Follow(file)
      BY <3>1, <3>2, NothingToRestore
    <3> QED
      BY <2>0, <3>1, <3>3 DEF FollowInv
  <2> QED
    BY <2>0, <2>1 DEF SkillInv
<1>5. CASE Forget
  <2>0. /\ UNCHANGED <<file, run, touched>> /\ pc = "forget" /\ journal'.state = "none"
        /\ pc' \in {"inventory", "resolve"} /\ (pc' = "resolve" => run.op # "prune")
    BY <1>5, NoJournalTyped DEF Forget, Goto, others, ghosts
  <2>1. ASSUME ~touched PROVE FollowInv'
    <3>1. Follow(Restored')
      BY <2>0, <2>1, RestoredIsThere DEF SkillInv, FollowInv
    <3> QED
      BY <2>0, <3>1 DEF FollowInv
  <2> QED
    BY <2>0, <2>1 DEF SkillInv
<1>6. CASE Resolve
  <2>1. CASE pc' = "idle"
    BY <1>6, <2>1, SkillsQuiet DEF Resolve, others, ghosts
  <2>2. CASE pc' # "idle"
    <3> DEFINE written == WrittenSkills(run.op, run.selected, file)
               cleaned == CleanedSkills(run.op, run.selected, file)
               updated == Updated(run.op, run.want, run.selected, file)
    <3>0. /\ UNCHANGED <<file, journal, touched>> /\ pc = "resolve" /\ pc' = "confirm"
          /\ run' = [run EXCEPT !.original = file, !.updated = updated,
                       !.planned = run.selected \cup written \cup cleaned]
      BY <1>6, <2>2 DEF Resolve, Exit, Goto, others, ghosts
    <3>1. /\ run'.original = file /\ run'.updated = updated
          /\ run'.planned = run.selected \cup written \cup cleaned
      BY <1>0, <3>0 DEF RunRecords
    <3>2. SameReg(run'.updated, run'.original, Paths \ Changed(run'))
      <4> SUFFICES ASSUME NEW p \in Paths, p \notin Changed(run')
                   PROVE  updated[p] = file[p]
        BY <3>1 DEF SameReg
      <4>1. CASE p \in run'.planned
        BY <3>1, <4>1 DEF Changed
      <4>2. CASE p \notin run'.planned
        BY <3>1, <4>2, PlanOutside
      <4> QED
        BY <4>1, <4>2
    <3>3. ASSUME ~touched PROVE FollowInv'
      <4>1. Follow(Restored) /\ Follow(Restored')
        BY <3>0, <3>3, RestoredStays DEF SkillInv, FollowInv
      <4>2. Follow(file)
        BY <3>0, <4>1, NothingToRestore DEF SidesInv
      <4>3. /\ run.op \in {"setup", "remove"} /\ (run.op = "setup" => run.want # None)
            /\ run.selected \in SUBSET Clients
        BY <1>0, <3>0 DEF SkillInv, RunRecords
      <4>4. Follow(updated)
        BY <1>0, <4>2, <4>3, PlanFollows
      <4>5. SameReg(file, file, Paths)
        BY DEF SameReg
      <4> HIDE DEF updated
      <4> QED
        BY <3>0, <3>1, <4>1, <4>2, <4>4, <4>5 DEF FollowInv
    <3> QED
      BY <3>0, <3>2, <3>3 DEF SkillInv
  <2> QED
    BY <2>1, <2>2
<1>7. CASE Confirm
  <2>0. /\ UNCHANGED <<file, journal, run, touched>> /\ pc = "confirm"
        /\ pc' \in {"install", "preflight"}
    BY <1>7 DEF Confirm, Goto, others, ghosts
  <2> QED
    BY <2>0, RestoredStays DEF SkillInv, FollowInv
<1>8. CASE InstallRuntime
  <2>0. /\ UNCHANGED <<file, journal, touched>> /\ pc = "install" /\ pc' = "preflight"
        /\ run'.original = run.original /\ run'.updated = run.updated
        /\ Changed(run') = Changed(run)
    BY <1>8, <1>0 DEF InstallRuntime, Goto, others, ghosts, RunRecords, Changed
  <2> QED
    BY <2>0, RestoredStays DEF SkillInv, FollowInv
<1>9. CASE Preflight
  <2>0. /\ UNCHANGED <<file, journal, run, touched>> /\ pc = "preflight"
        /\ pc' \in {"begin", "uninstall"}
    BY <1>9 DEF Preflight, Goto, others, ghosts
  <2> QED
    BY <2>0, RestoredStays DEF SkillInv, FollowInv
<1>10. CASE Uninstall
  BY <1>10, SkillsQuiet DEF Uninstall, Exit, Goto, ghosts
<1>11. CASE BeginTransaction
  <2>0. /\ UNCHANGED <<file, touched>> /\ pc = "begin" /\ pc' \in {"apply", "uninstall"}
        /\ pc' = "apply" => run' = [run EXCEPT !.todo = run.planned]
        /\ journal' = journal \/ journal' = JournalOf("pending")
    BY <1>11 DEF BeginTransaction, Goto, others, ghosts
  <2>1. /\ pc' = "apply" =>
             /\ run'.original = run.original /\ run'.updated = run.updated
             /\ Changed(run') = Changed(run) /\ Changed(run') \ run'.todo = {}
    BY <1>0, <2>0 DEF RunRecords, Changed
  <2>2. ASSUME ~touched PROVE FollowInv'
    <3>1. /\ Follow(Restored) /\ Follow(run.original) /\ Follow(run.updated)
          /\ SameReg(file, run.original, Paths)
      BY <2>0, <2>2 DEF SkillInv, FollowInv
    <3>2. CASE journal' = journal
      BY <2>0, <2>1, <3>1, <3>2, RestoredStays DEF FollowInv, SameReg
    <3>3. CASE journal' = JournalOf("pending")
      <4>1. /\ EntriesOf(journal') = Changed(run)
            /\ \A p \in Changed(run) : journal'.original[p] = run.original[p]
        BY <3>3, JournalTyped
      <4>2. SameReg(run.original, Restored', Paths)
        BY <2>0, <3>1, <4>1 DEF SameReg, Restored
      <4>3. Follow(Restored')
        BY <3>1, <4>2, FollowSame
      <4> QED
        BY <2>0, <2>1, <3>1, <4>3 DEF FollowInv, SameReg
    <3> QED
      BY <2>0, <3>2, <3>3
  <2> QED
    BY <2>0, <2>1, <2>2 DEF SkillInv
<1>12. CASE ApplyCheck
  <2> DEFINE p == Min(run.todo)
  <2>0. UNCHANGED <<file, journal, touched>> /\ pc = "apply" /\ run.todo # {}
    BY <1>12 DEF ApplyCheck, others, ghosts
  <2>1. CASE StartRollback(p)
    BY <2>0, <2>1, UndoStarts
  <2>2. CASE pc' = "applyWrite" /\ UNCHANGED run
    BY <2>0, <2>2, RestoredStays DEF SkillInv, FollowInv
  <2>3. CASE /\ p \notin Changed(run) /\ UNCHANGED pc
             /\ run' = [run EXCEPT !.todo = @ \ {p}]
    <3>1. /\ run'.original = run.original /\ run'.updated = run.updated
          /\ Changed(run') = Changed(run) /\ run'.todo = run.todo \ {p}
      BY <1>0, <2>3 DEF RunRecords, Changed
    <3>2. Changed(run') \ run'.todo = Changed(run) \ run.todo
      BY <2>3, <3>1
    <3> QED
      BY <2>0, <2>3, <3>1, <3>2, RestoredStays DEF SkillInv, FollowInv
  <2> QED
    BY <1>12, <2>1, <2>2, <2>3 DEF ApplyCheck, Goto
<1>13. CASE ApplyWrite
  <2> DEFINE p == Min(run.todo)
  <2>0. UNCHANGED <<journal, touched>> /\ pc = "applyWrite" /\ run.todo # {}
    BY <1>13 DEF ApplyWrite, others, ghosts, TypeOK
  <2>1. /\ p \in Changed(run) /\ p \in run.todo /\ p \in Paths
        /\ journal.state = "pending" /\ EntriesOf(journal) = Changed(run)
    BY <2>0, FirstPath DEF SidesInv
  <2>2. CASE StartRollback(p)
    <3>1. UNCHANGED file \/ file' = [file EXCEPT ![p] = run.updated[p]]
      BY <1>13 DEF ApplyWrite
    <3> QED
      BY <2>0, <2>1, <2>2, <3>1, UndoStarts
  <2>3. CASE /\ pc' = "apply" /\ file' = [file EXCEPT ![p] = run.updated[p]]
             /\ run' = [run EXCEPT !.todo = @ \ {p}]
    <3> HIDE DEF p
    <3>1. /\ run'.original = run.original /\ run'.updated = run.updated
          /\ Changed(run') = Changed(run) /\ run'.todo = run.todo \ {p}
      BY <1>0, <2>3 DEF RunRecords, Changed
    <3>2. ASSUME ~touched PROVE FollowInv'
      <4>1. file'[p] = run.updated[p] /\ \A q \in Paths : q # p => file'[q] = file[q]
        BY <1>0, <2>1, <2>3
      <4>2. /\ Follow(Restored) /\ Follow(run.original) /\ Follow(run.updated)
            /\ SameReg(file, run.updated, Changed(run) \ run.todo)
            /\ SameReg(file, run.original, Paths \ (Changed(run) \ run.todo))
        BY <2>0, <3>2 DEF SkillInv, FollowInv
      <4>3. Follow(Restored')
        BY <2>0, <2>1, <4>1, <4>2, RestoredStays
      <4>4. SameReg(file', run.updated, Changed(run) \ run'.todo)
        BY <1>0, <3>1, <4>1, <4>2 DEF SameReg
      <4>5. SameReg(file', run.original, Paths \ (Changed(run) \ run'.todo))
        BY <2>1, <3>1, <4>1, <4>2 DEF SameReg
      <4> QED
        BY <2>3, <3>1, <4>2, <4>3, <4>4, <4>5 DEF FollowInv
    <3> QED
      BY <2>0, <2>3, <3>1, <3>2 DEF SkillInv
  <2> QED
    BY <1>13, <2>2, <2>3 DEF ApplyWrite, Goto
<1>14. CASE Commit
  <2>0. UNCHANGED <<file, touched>> /\ pc = "apply" /\ run.todo = {}
    BY <1>14 DEF Commit, others, ghosts
  <2>1. CASE pc' = "idle"
    BY <1>14, <2>0, <2>1, SkillsQuiet DEF Commit, Goto, StartRollback
  <2>2. CASE pc' = "cleanup"
    <3>1. journal'.state = "committed"
      BY <1>14, <2>2, JournalTyped DEF Commit, StartRollback, Exit, Goto
    <3>2. ASSUME ~touched PROVE FollowInv'
      <4>1. /\ Follow(run.updated) /\ SameReg(file, run.updated, Changed(run))
            /\ SameReg(file, run.original, Paths \ Changed(run))
            /\ SameReg(run.updated, run.original, Paths \ Changed(run))
        BY <2>0, <3>2 DEF SkillInv, FollowInv, SameReg
      <4>2. SameReg(run.updated, file, Paths)
        BY <4>1 DEF SameReg
      <4>3. Follow(file)
        BY <4>1, <4>2, FollowSame
      <4>4. Follow(Restored')
        BY <2>0, <3>1, <4>3, RestoredIsThere
      <4> QED
        BY <2>0, <2>2, <4>3, <4>4 DEF FollowInv
    <3> QED
      BY <2>0, <2>2, <3>2 DEF SkillInv
  <2>3. CASE UNCHANGED journal /\ StartRollback(Max(Paths))
    BY <2>0, <2>3, UndoStarts
  <2> QED
    BY <1>14, <2>1, <2>2, <2>3 DEF Commit, Exit, Goto
<1>15. CASE Cleanup
  <2>0. /\ UNCHANGED <<file, touched>> /\ pc = "cleanup" /\ pc' = "idle"
        /\ journal' = journal \/ journal'.state = "none"
    BY <1>15, NoJournalTyped DEF Cleanup, Exit, Goto, others, ghosts
  <2>1. ASSUME ~touched PROVE FollowInv'
    <3>1. Follow(Restored')
      BY <2>0, <2>1, RestoredIsThere, RestoredStays DEF SkillInv, FollowInv
    <3> QED
      BY <2>0, <3>1 DEF FollowInv
  <2> QED
    BY <2>0, <2>1 DEF SkillInv
<1>16. CASE RollbackCheck
  <2> DEFINE p == Max(run.todo)
  <2>0. /\ UNCHANGED <<file, journal, touched>> /\ pc = "rollback" /\ pc' \in Undoing
    BY <1>16 DEF RollbackCheck, Goto, others, ghosts
  <2>1. /\ run'.original = run.original /\ run'.updated = run.updated
        /\ Changed(run') = Changed(run)
        /\ run'.todo \in {run.todo, run.todo \ {p}}
        /\ ~run'.failed =>
             ~run.failed /\ (run'.todo = run.todo \/ file[p] = run.original[p])
    BY <1>16, <1>0 DEF RollbackCheck, RunRecords, Changed
  <2>2. run.todo \subseteq Changed(run) /\ run'.todo \subseteq Changed(run)
    BY <2>0, <2>1 DEF SkillInv
  <2> HIDE DEF p
  <2>3. ASSUME ~touched PROVE FollowInv'
    <3>1. Follow(Restored') /\ Follow(run.original) /\ Follow(run.updated)
      BY <2>0, <2>3, RestoredStays DEF SkillInv, FollowInv
    <3>2. ~run'.failed => SameReg(file, run.original, Paths \ run'.todo)
      BY <2>0, <2>1, <2>3 DEF SkillInv, FollowInv, SameReg
    <3> QED
      BY <2>0, <2>1, <3>1, <3>2 DEF FollowInv
  <2> QED
    BY <2>0, <2>1, <2>2, <2>3 DEF SkillInv
<1>17. CASE RollbackWrite
  <2> DEFINE p == Max(run.todo)
  <2>0. /\ UNCHANGED <<journal, touched>> /\ pc = "rollbackWrite" /\ pc' = "rollback"
        /\ file' = file \/ file' = [file EXCEPT ![p] = run.original[p]]
    BY <1>17 DEF RollbackWrite, Goto, others, ghosts
  <2>1. /\ run'.original = run.original /\ run'.updated = run.updated
        /\ Changed(run') = Changed(run) /\ run'.todo = run.todo \ {p}
        /\ ~run'.failed => ~run.failed /\ file' = [file EXCEPT ![p] = run.original[p]]
    BY <1>17, <1>0 DEF RollbackWrite, RunRecords, Changed
  <2>2. run.todo \subseteq Changed(run) /\ run'.todo \subseteq Changed(run)
    BY <2>0, <2>1 DEF SkillInv
  <2>3. ASSUME ~touched PROVE FollowInv'
    <3>1. Follow(Restored) /\ Follow(run.original) /\ Follow(run.updated)
      BY <2>0, <2>3 DEF SkillInv, FollowInv
    <3>2. p \in run.todo
      BY <1>0, <2>0, LastPath DEF TypeOK
    <3>3. p \in Paths /\ journal.state = "pending" /\ p \in EntriesOf(journal)
      BY <1>0, <2>0, <2>2, <3>2 DEF SidesInv
    <3> HIDE DEF p
    <3>4. \A q \in Paths : q # p => file'[q] = file[q]
      BY <1>0, <2>0
    <3>5. Follow(Restored')
      BY <2>0, <3>1, <3>3, <3>4, RestoredStays
    <3>6. ~run'.failed => SameReg(file', run.original, Paths \ run'.todo)
      <4>1. ASSUME ~run'.failed, NEW q \in Paths \ run'.todo
            PROVE  file'[q].reg = run.original[q].reg
        <5>1. CASE q = p
          BY <1>0, <2>1, <4>1, <5>1
        <5>2. CASE q # p
          BY <2>0, <2>1, <2>3, <3>4, <4>1, <5>2 DEF SkillInv, FollowInv, SameReg
        <5> QED
          BY <5>1, <5>2
      <4> QED
        BY <4>1 DEF SameReg
    <3> QED
      BY <2>0, <2>1, <3>1, <3>5, <3>6 DEF FollowInv
  <2> QED
    BY <2>0, <2>1, <2>2, <2>3 DEF SkillInv
<1>18. CASE RollbackDone
  <2>0. UNCHANGED <<file, journal, touched>> /\ pc = "rollback" /\ run.todo = {}
    BY <1>18 DEF RollbackDone, ghosts
  <2>1. CASE pc' = "idle"
    BY <2>0, <2>1, SkillsQuiet
  <2>2. CASE pc' = "abandon" /\ ~run.failed
    <3>1. ASSUME ~touched PROVE FollowInv'
      <4>1. Follow(Restored') /\ Follow(run.original) /\ SameReg(file, run.original, Paths)
        BY <2>0, <2>2, <3>1, RestoredStays DEF SkillInv, FollowInv, SameReg
      <4>2. Follow(file)
        BY <4>1, FollowSame DEF SameReg
      <4> QED
        BY <2>0, <2>2, <4>1, <4>2 DEF FollowInv
    <3> QED
      BY <2>0, <2>2, <3>1 DEF SkillInv
  <2> QED
    BY <1>18, <2>1, <2>2 DEF RollbackDone, Exit, Goto
<1>19. CASE Abandon
  <2>0. /\ UNCHANGED <<file, touched>> /\ pc = "abandon" /\ pc' = "cleanup"
        /\ journal'.state = "committed"
    BY <1>19, JournalTyped DEF Abandon, Goto, others, ghosts
  <2>1. ASSUME ~touched PROVE FollowInv'
    <3>1. Follow(file) /\ Follow(Restored')
      BY <2>0, <2>1, RestoredIsThere DEF SkillInv, FollowInv
    <3> QED
      BY <2>0, <3>1 DEF FollowInv
  <2> QED
    BY <2>0, <2>1 DEF SkillInv
<1>20. CASE Inventory
  BY <1>20, SkillsQuiet DEF Inventory, Goto, others, ghosts
<1>21. CASE PruneLease
  BY <1>21, SkillsQuiet DEF PruneLease, Goto, others, ghosts
<1>22. CASE PruneRemove
  BY <1>22, SkillsQuiet DEF PruneRemove, Exit, Goto, ghosts
<1>23. CASE PruneDone
  BY <1>23, SkillsQuiet DEF PruneDone, Exit, Goto, others, ghosts
<1>24. CASE Invoke
  <2>0. /\ UNCHANGED <<file, journal, touched>> /\ pc' = "recover"
        /\ run'.op # "none" /\ (run'.op = "setup" => run'.want # None)
    BY <1>24, ConstantsAssumption
       DEF Invoke, Goto, others, ghosts, NoRun, Launchers
  <2>1. ASSUME ~touched PROVE FollowInv'
    <3>1. Follow(Restored')
      BY <2>0, <2>1, RestoredStays DEF SkillInv, FollowInv
    <3> QED
      BY <2>0, <3>1 DEF FollowInv
  <2> QED
    BY <2>0, <2>1 DEF SkillInv
<1>25. CASE Decline
  BY <1>25, SkillsQuiet DEF Decline, Exit, Goto, others, ghosts
<1>26. CASE Crash
  BY <1>26, SkillsQuiet DEF Crash, Exit, Goto, others, ghosts
<1>27. ASSUME NEW p \in Paths, UserEdit(p) \/ UserDelete(p) \/ UserRepair(p)
       PROVE  SkillInv'
  <2>1. PICK content \in Content, last \in 0 .. MaxEdits : UserWrite(p, content, last)
    BY <1>27, UserContent
  <2>2. UNCHANGED <<journal, pc, run>> /\ touched' = (touched \/ content.reg # file[p].reg)
    BY <2>1 DEF UserWrite
  <2>3. ASSUME ~touched' PROVE ~touched /\ \A q \in Paths : file'[q].reg = file[q].reg
    BY <1>0, <2>1, <2>2, <2>3 DEF UserWrite
  <2>4. ASSUME ~touched' PROVE FollowInv'
    <3>1. FollowInv
      BY <2>3, <2>4 DEF SkillInv
    <3>2. /\ SameReg(file, file', Paths) /\ EntriesOf(journal) \subseteq Paths
      BY <2>3, <2>4 DEF SameReg, TypeOK
    <3>3. Follow(Restored')
      BY <2>2, <2>3, <2>4, <3>1, RestoredStays DEF FollowInv
    <3>4. Follow(file) => Follow(file')
      BY <3>2, FollowSame
    <3>5. \A g, P : P \subseteq Paths /\ SameReg(file, g, P) => SameReg(file', g, P)
      BY <3>2 DEF SameReg
    <3> QED
      BY <1>0, <2>2, <3>1, <3>2, <3>3, <3>4, <3>5 DEF FollowInv
  <2> QED
    BY <2>2, <2>4 DEF SkillInv
<1>28. CASE UNCHANGED <<file, journal, pc, run, touched>>
  <2>1. FollowInv => FollowInv'
    <3>1. Follow(Restored) => Follow(Restored')
      BY <1>28, RestoredStays
    <3> QED
      BY <1>28, <3>1 DEF FollowInv
  <2> QED
    BY <1>28, <2>1 DEF SkillInv
<1>29. ASSUME NEW s \in Servers, Server(s) PROVE SkillInv'
  BY <1>28, <1>29
     DEF Server, ServerIdentify, ServerLock, ServerServe, ServerEnd, ghosts
<1>30. CASE UNCHANGED vars
  BY <1>28, <1>30 DEF vars
<1> QED
  BY <1>1, <1>2, <1>3, <1>4, <1>5, <1>6, <1>7, <1>8, <1>9, <1>10, <1>11, <1>12,
     <1>13, <1>14, <1>15, <1>16, <1>17, <1>18, <1>19, <1>20, <1>21, <1>22,
     <1>23, <1>24, <1>25, <1>26, <1>27, <1>29, <1>30, Zenon
     DEF Next, Run, User

\* While users leave registrations alone, a skill file is LeanToken's exactly when
\* some registered client reads it, after any sequence of setups, removals, kills,
\* I/O errors and recoveries, unless the sync of a commit record failed
\* (run_prepared, resolve_plan).
THEOREM SkillsStayWithRegistrations ==
  ASSUME ~UnsyncedCommit
  PROVE  Spec => []SkillsFollowRegistrations
<1>1. Init => TypeOK /\ SidesInv /\ SkillInv
  <2> SUFFICES ASSUME Init PROVE SidesInv /\ SkillInv
    BY InitTyped
  <2>1. Unmixed
    BY OneSided DEF Init
  <2>2. SidesInv
    BY <2>1, NoJournalTyped DEF Init, SidesInv
  <2>3. Follow(file)
    BY PathNumbers DEF Init, Follow, Absent
  <2>4. SameReg(file, Restored, Paths)
    BY NoJournalTyped DEF Init, SameReg, Restored
  <2>5. Follow(Restored)
    BY <2>3, <2>4, FollowSame
  <2> QED
    BY <2>2, <2>5
       DEF Init, SkillInv, FollowInv, Recovering, Planning, Applying, Undoing
<1>2. TypeOK /\ SidesInv /\ SkillInv /\ [Next]_vars => TypeOK' /\ SidesInv' /\ SkillInv'
  BY StepTyped, StepSides, StepSkills
<1>3. SkillInv => SkillsFollowRegistrations
  <2> SUFFICES ASSUME SkillInv, journal.state = "none", ~touched PROVE Follow(file)
    BY DEF SkillsFollowRegistrations, Follow
  <2> QED
    BY NothingToRestore DEF SkillInv, FollowInv
<1> QED
  BY <1>1, <1>2, <1>3, PTL DEF Spec

=============================================================================
