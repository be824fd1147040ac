------------------------ MODULE CacheLifecycleProofs ------------------------
(***************************************************************************)
(* Proofs about CacheLifecycle, for any number of services and maintenance  *)
(* commands: a cache in use is kept, it has one initializer and one leader, *)
(* and what a service opens is a whole database.                           *)
(***************************************************************************)
EXTENDS CacheLifecycle, TLAPS

\* A removal has four steps: db, WAL, initialization and leadership lock file.
LEMMA FourArtifacts ==
  /\ Len(Artifacts) = 4
  /\ Artifacts[1] = "db" /\ Artifacts[2] = "wal"
  /\ Artifacts[3] = "init" /\ Artifacts[4] = "leader"
BY DEF Artifacts

\* Opening a lock file yields the inode its name leads to from then on, and
\* replaces no file (open_lock_file).
LEMMA OpensInode ==
  ASSUME TypeOK, NEW k \in Locks, NEW i \in Inodes, OpenLockFile(k, i)
  PROVE  /\ ino' \in [Locks -> Inodes \cup {0}]
         /\ ino'[k] = i /\ (ino[k] # 0 => ino'[k] = ino[k])
         /\ \A j \in Locks : j # k => ino'[j] = ino[j]
<1>1. CASE ino[k] # 0 /\ i = ino[k] /\ UNCHANGED ino
  BY <1>1 DEF TypeOK
<1>2. CASE ino[k] = 0 /\ ino' = [ino EXCEPT ![k] = i]
  BY <1>2 DEF TypeOK
<1> QED
  BY <1>1, <1>2, Zenon DEF OpenLockFile

\* Type correctness of every reachable state (coordination.rs, cache/).
THEOREM TypeCorrect == Spec => []TypeOK
<1>1. Init => TypeOK
  <2> SUFFICES ASSUME Init PROVE TypeOK
    OBVIOUS
  <2>1. ino \in [Locks -> Inodes \cup {0}]
    BY DEF Init
  <2>2. /\ db \in Inodes \cup {0} /\ wal \in Inodes \cup {0}
        /\ fd \in [Services -> [Locks -> Inodes \cup {0}]]
        /\ at \in [Maintainers -> 0 .. Len(Artifacts)]
    BY FourArtifacts DEF Init
  <2>3. /\ held \in [Services -> SUBSET Locks]
        /\ reasons \in [Maintainers -> SUBSET Reasons]
        /\ starts \in 0 .. MaxStarts
    BY CacheAssumption DEF Init
  <2>4. QED
    BY <2>1, <2>2, <2>3 DEF Init, TypeOK
<1>2. TypeOK /\ [Next]_vars => TypeOK'
  <2> SUFFICES ASSUME TypeOK, [Next]_vars PROVE TypeOK'
    OBVIOUS
  <2>1. ASSUME NEW p \in Services, StartService(p) PROVE TypeOK'
    BY <2>1, TypeOK, CacheAssumption
       DEF StartService, Begin, OpenLockFile, Fresh, TypeOK, Locks, files,
           facts, service, maint, Artifacts
  <2>2. ASSUME NEW p \in Services, TakeLease(p) PROVE TypeOK'
    BY <2>2, TypeOK, CacheAssumption
       DEF TakeLease, SharedFree, Excluded, TypeOK, Locks, files, facts,
           service, maint, Artifacts
  <2>3. ASSUME NEW p \in Services, OpenInit(p) PROVE TypeOK'
    BY <2>3, TypeOK, CacheAssumption
       DEF OpenInit, OpenLockFile, Fresh, TypeOK, Locks, files, facts, service,
           maint, Artifacts
  <2>4. ASSUME NEW p \in Services, TakeInit(p) PROVE TypeOK'
    BY <2>4, TypeOK, CacheAssumption
       DEF TakeInit, ExclusiveFree, Holders, TypeOK, Locks, files, facts,
           service, maint, Artifacts
  <2>5. ASSUME NEW p \in Services, OpenExisting(p) PROVE TypeOK'
    BY <2>5, TypeOK, CacheAssumption
       DEF OpenExisting, Opened, TypeOK, Locks, files, facts, service, maint,
           Artifacts
  <2>6. ASSUME NEW p \in Services, OpenFresh(p) PROVE TypeOK'
    <3>1. PICK i \in Inodes : db' = i /\ Opened(p, i)
      BY <2>6 DEF OpenFresh
    <3> QED
      BY <2>6, <3>1, TypeOK, CacheAssumption
         DEF OpenFresh, Opened, TypeOK, Locks, files, facts, service, maint,
             Artifacts
  <2>7. ASSUME NEW p \in Services, RemoveCorrupt(p) PROVE TypeOK'
    BY <2>7, TypeOK, CacheAssumption
       DEF RemoveCorrupt, TypeOK, Locks, files, facts, service, maint,
           Artifacts
  <2>8. ASSUME NEW p \in Services, RemoveCorruptWal(p) PROVE TypeOK'
    BY <2>8, TypeOK, CacheAssumption
       DEF RemoveCorruptWal, TypeOK, Locks, files, facts, service, maint,
           Artifacts
  <2>9. ASSUME NEW p \in Services, AbandonService(p) PROVE TypeOK'
    BY <2>9, TypeOK, CacheAssumption
       DEF AbandonService, Released, TypeOK, Locks, files, facts, service,
           maint, Artifacts
  <2>10. ASSUME NEW p \in Services, CloseService(p) PROVE TypeOK'
    BY <2>10, TypeOK, CacheAssumption
       DEF CloseService, Released, TypeOK, Locks, files, facts, service, maint,
           Artifacts
  <2>11. ASSUME NEW p \in Services, Commit(p) PROVE TypeOK'
    BY <2>11, TypeOK, CacheAssumption
       DEF Commit, TypeOK, Locks, files, facts, service, maint, Artifacts
  <2>12. ASSUME NEW p \in Services, OpenLeader(p) PROVE TypeOK'
    BY <2>12, TypeOK, CacheAssumption
       DEF OpenLeader, OpenLockFile, Fresh, TypeOK, Locks, files, facts,
           service, maint, Artifacts
  <2>13. ASSUME NEW p \in Services, TryLeader(p) PROVE TypeOK'
    <3>1. CASE /\ ExclusiveFree("leader", fd[p]["leader"])
               /\ held' = [held EXCEPT ![p] = @ \cup {"leader"}] /\ UNCHANGED fd
      BY <2>13, <3>1, TypeOK, CacheAssumption
         DEF TryLeader, ExclusiveFree, Holders, TypeOK, Locks, files, facts,
             service, maint, Artifacts
    <3>2. CASE fd' = [fd EXCEPT ![p]["leader"] = 0] /\ UNCHANGED held
      BY <2>13, <3>2, TypeOK, CacheAssumption
         DEF TryLeader, TypeOK, Locks, files, facts, service, maint, Artifacts
    <3> QED
      BY <2>13, <3>1, <3>2, Zenon DEF TryLeader
  <2>14. ASSUME NEW p \in Services, DropLeader(p) PROVE TypeOK'
    BY <2>14, TypeOK, CacheAssumption
       DEF DropLeader, TypeOK, Locks, files, facts, service, maint, Artifacts
  <2>15. ASSUME NEW m \in Maintainers, Probe(m) PROVE TypeOK'
    BY <2>15, TypeOK, CacheAssumption
       DEF Probe, Begin, ExclusiveFree, Holders, Excluded, TypeOK, Locks,
           files, facts, service, maint, Artifacts
  <2>16. ASSUME NEW m \in Maintainers, EndProbe(m) PROVE TypeOK'
    BY <2>16, TypeOK, CacheAssumption
       DEF EndProbe, TypeOK, Locks, files, facts, service, maint, Artifacts
  <2>17. ASSUME NEW m \in Maintainers, Select(m) PROVE TypeOK'
    <3>1. reasons' \in [Maintainers -> SUBSET Reasons]
      BY <2>17, TypeOK DEF Select, Reasons, TypeOK
    <3> QED
      BY <2>17, <3>1, TypeOK, CacheAssumption
         DEF Select, TypeOK, Locks, files, facts, service, maint, Artifacts
  <2>18. ASSUME NEW m \in Maintainers, Keep(m) PROVE TypeOK'
    BY <2>18, TypeOK, CacheAssumption
       DEF Keep, Leave, TypeOK, Locks, files, facts, service, maint, Artifacts
  <2>19. ASSUME NEW m \in Maintainers, TakePruneLease(m) PROVE TypeOK'
    <3>1. PICK i \in Inodes :
           /\ OpenLockFile("lease", i)
           /\ IF ExclusiveFree("lease", i)
              THEN /\ mfd' = [mfd EXCEPT ![m] = i]
                   /\ mpc' = [mpc EXCEPT ![m] = "inspect"]
                   /\ UNCHANGED <<reasons, at>>
              ELSE Leave(m)
      BY <2>19 DEF TakePruneLease
    <3>2. OpenLockFile("lease", i)
      BY <3>1
    <3>3. CASE /\ ExclusiveFree("lease", i)
               /\ mfd' = [mfd EXCEPT ![m] = i]
               /\ mpc' = [mpc EXCEPT ![m] = "inspect"]
               /\ UNCHANGED <<reasons, at>>
      BY <2>19, <3>2, <3>3, OpensInode, TypeOK, CacheAssumption
         DEF TakePruneLease, ExclusiveFree, Holders, Excluded, TypeOK, Locks,
             files, facts, service, maint, Artifacts
    <3>4. CASE Leave(m)
      BY <2>19, <3>2, <3>4, OpensInode, TypeOK, CacheAssumption
         DEF TakePruneLease, Leave, TypeOK, Locks, files, facts, service,
             maint, Artifacts
    <3> QED
      BY <3>1, <3>3, <3>4, Zenon
  <2>20. ASSUME NEW m \in Maintainers, StartRemoval(m) PROVE TypeOK'
    BY <2>20, TypeOK, CacheAssumption
       DEF StartRemoval, Revalidated, TypeOK, Locks, files, facts, service,
           maint, Artifacts
  <2>21. ASSUME NEW m \in Maintainers, KeepAfterAll(m) PROVE TypeOK'
    BY <2>21, TypeOK, CacheAssumption
       DEF KeepAfterAll, Leave, TypeOK, Locks, files, facts, service, maint,
           Artifacts
  <2>22. ASSUME NEW m \in Maintainers, RemoveArtifact(m) PROVE TypeOK'
    <3>1. ino' \in [Locks -> Inodes \cup {0}]
      BY <2>22 DEF RemoveArtifact, TypeOK
    <3>2. CASE Leave(m)
      BY <2>22, <3>1, <3>2, FourArtifacts, TypeOK, CacheAssumption
         DEF RemoveArtifact, Leave, TypeOK, Locks, files, facts, service, maint
    <3>3. CASE /\ at[m] # 4 /\ at' = [at EXCEPT ![m] = @ + 1]
               /\ UNCHANGED <<mpc, mfd, reasons>>
      BY <2>22, <3>1, <3>3, FourArtifacts, TypeOK, CacheAssumption
         DEF RemoveArtifact, TypeOK, Locks, files, facts, service, maint
    <3> QED
      BY <2>22, <3>2, <3>3, FourArtifacts, Zenon DEF RemoveArtifact
  <2>23. ASSUME NEW m \in Maintainers, StartCompact(m) PROVE TypeOK'
    BY <2>23, TypeOK, CacheAssumption
       DEF StartCompact, Begin, OpenLockFile, Fresh, ExclusiveFree, Holders,
           Excluded, TypeOK, Locks, files, facts, service, maint, Artifacts
  <2>24. ASSUME NEW m \in Maintainers, EndCompact(m) PROVE TypeOK'
    BY <2>24, TypeOK, CacheAssumption
       DEF EndCompact, Leave, TypeOK, Locks, files, facts, service, maint,
           Artifacts
  <2>25. ASSUME NEW m \in Maintainers, AbandonMaintenance(m) PROVE TypeOK'
    BY <2>25, TypeOK, CacheAssumption
       DEF AbandonMaintenance, Leave, TypeOK, Locks, files, facts, service,
           maint, Artifacts
  <2>26. CASE Environment
    BY <2>26, TypeOK, CacheAssumption
       DEF Environment, TypeOK, Locks, files, facts, service, maint, Artifacts
  <2>27. CASE UNCHANGED vars
    BY <2>27, TypeOK, CacheAssumption
       DEF vars, TypeOK, Locks, files, facts, service, maint, Artifacts
  <2> QED
    BY <2>1, <2>2, <2>3, <2>4, <2>5, <2>6, <2>7, <2>8, <2>9, <2>10, <2>11,
       <2>12, <2>13, <2>14, <2>15, <2>16, <2>17, <2>18, <2>19, <2>20, <2>21,
       <2>22, <2>23, <2>24, <2>25, <2>26, <2>27
       DEF Next, ServiceStep, Opening, MaintenanceStep, Maintaining
<1>3. QED
  BY <1>1, <1>2, PTL DEF Spec

-----------------------------------------------------------------------------
\* The lease file keeps its inode, so shared and exclusive leases exclude each
\* other; a service past its lease holds it, a command that works on the files
\* holds the exclusive one.
LeaseInv ==
  /\ \A p \in Services : fd[p]["lease"] \in {0, ino["lease"]}
  /\ \A m \in Maintainers : mfd[m] \in {0, ino["lease"]}
  /\ \A p \in Services : "lease" \in held[p] =>
       fd[p]["lease"] # 0 /\ \A m \in Maintainers : mfd[m] = 0
  /\ \A m, n \in Maintainers : mfd[m] # 0 /\ mfd[n] # 0 => m = n
  /\ \A p \in Services : pc[p] = "lease" => fd[p]["lease"] # 0
  /\ \A p \in Services : pc[p] \notin {"idle", "lease"} <=> "lease" \in held[p]
  /\ \A m \in Maintainers :
       mpc[m] \in {"probe", "inspect", "remove", "vacuum"} => mfd[m] # 0
  /\ \A m \in Maintainers : mpc[m] = "remove" => at[m] # 0

\* The initialization and leadership lock files a service has open are the
\* ones in the directory: they are unlinked only when no service has a lease.
OwnerInv ==
  /\ \A p \in Services : \A k \in {"init", "leader"} :
       /\ fd[p][k] # 0 => "lease" \in held[p] /\ fd[p][k] = ino[k]
       /\ k \in held[p] => fd[p][k] # 0
  /\ \A p \in Services : pc[p] = "init" => fd[p]["init"] # 0
  /\ OneOwner

\* The database is replaced only under the initialization lock; a WAL belongs
\* to the database beside it, and is removed only after it.
DatabaseInv ==
  /\ \A p \in Services :
       /\ pc[p] \in {"open", "rebuild", "recreate"} => "init" \in held[p]
       /\ pc[p] \in {"rebuild", "recreate"} => db = 0
       /\ pc[p] = "using" => using[p] # 0 /\ (using[p] = db \/ stale[p])
       /\ pc[p] # "using" => using[p] = 0
  /\ db # 0 => wal \in {0, db}
  /\ ~torn
  /\ \A m \in Maintainers : mpc[m] = "remove" /\ at[m] # 1 => db = 0

\* The inductive invariant of the cache.
CacheInv == TypeOK /\ LeaseInv /\ OwnerInv /\ DatabaseInv

\* Nothing is open or locked initially.
LEMMA CacheInvInit == Init => LeaseInv /\ OwnerInv /\ DatabaseInv
BY CacheAssumption
   DEF Init, LeaseInv, OwnerInv, DatabaseInv, OneOwner, Locks

\* Every step keeps the lease discipline.
LEMMA LeaseInvNext == CacheInv /\ TypeOK' /\ [Next]_vars => LeaseInv'
<1> SUFFICES ASSUME CacheInv, TypeOK', [Next]_vars PROVE LeaseInv'
  OBVIOUS
<1>1. ASSUME NEW p \in Services, StartService(p) PROVE LeaseInv'
  BY <1>1, CacheInv, CacheAssumption, TypeOK'
     DEF StartService, Begin, OpenLockFile, Fresh, CacheInv, TypeOK, LeaseInv,
         Locks, files, facts, service, maint, Artifacts
<1>2. ASSUME NEW p \in Services, TakeLease(p) PROVE LeaseInv'
  BY <1>2, CacheInv, CacheAssumption, TypeOK'
     DEF TakeLease, SharedFree, Excluded, CacheInv, TypeOK, LeaseInv, Locks,
         files, facts, service, maint, Artifacts
<1>3. ASSUME NEW p \in Services, OpenInit(p) PROVE LeaseInv'
  BY <1>3, CacheInv, CacheAssumption, TypeOK'
     DEF OpenInit, OpenLockFile, Fresh, CacheInv, TypeOK, LeaseInv, Locks,
         files, facts, service, maint, Artifacts
<1>4. ASSUME NEW p \in Services, TakeInit(p) PROVE LeaseInv'
  BY <1>4, CacheInv, CacheAssumption, TypeOK'
     DEF TakeInit, ExclusiveFree, Holders, CacheInv, TypeOK, LeaseInv, Locks,
         files, facts, service, maint, Artifacts
<1>5. ASSUME NEW p \in Services, OpenExisting(p) PROVE LeaseInv'
  BY <1>5, CacheInv, CacheAssumption, TypeOK'
     DEF OpenExisting, Opened, CacheInv, TypeOK, LeaseInv, Locks, files, facts,
         service, maint, Artifacts
<1>6. ASSUME NEW p \in Services, OpenFresh(p) PROVE LeaseInv'
  BY <1>6, CacheInv, CacheAssumption, TypeOK'
     DEF OpenFresh, Opened, Fresh, CacheInv, TypeOK, LeaseInv, Locks, files,
         facts, service, maint, Artifacts
<1>7. ASSUME NEW p \in Services, RemoveCorrupt(p) PROVE LeaseInv'
  BY <1>7, CacheInv, CacheAssumption, TypeOK'
     DEF RemoveCorrupt, CacheInv, TypeOK, LeaseInv, Locks, files, facts,
         service, maint, Artifacts
<1>8. ASSUME NEW p \in Services, RemoveCorruptWal(p) PROVE LeaseInv'
  BY <1>8, CacheInv, CacheAssumption, TypeOK'
     DEF RemoveCorruptWal, CacheInv, TypeOK, LeaseInv, Locks, files, facts,
         service, maint, Artifacts
<1>9. ASSUME NEW p \in Services, AbandonService(p) PROVE LeaseInv'
  BY <1>9, CacheInv, CacheAssumption, TypeOK'
     DEF AbandonService, Released, CacheInv, TypeOK, LeaseInv, Locks, files,
         facts, service, maint, Artifacts
<1>10. ASSUME NEW p \in Services, CloseService(p) PROVE LeaseInv'
  BY <1>10, CacheInv, CacheAssumption, TypeOK'
     DEF CloseService, Released, CacheInv, TypeOK, LeaseInv, Locks, files,
         facts, service, maint, Artifacts
<1>11. ASSUME NEW p \in Services, Commit(p) PROVE LeaseInv'
  BY <1>11, CacheInv, CacheAssumption, TypeOK'
     DEF Commit, CacheInv, TypeOK, LeaseInv, Locks, files, facts, service,
         maint, Artifacts
<1>12. ASSUME NEW p \in Services, OpenLeader(p) PROVE LeaseInv'
  BY <1>12, CacheInv, CacheAssumption, TypeOK'
     DEF OpenLeader, OpenLockFile, Fresh, CacheInv, TypeOK, LeaseInv, Locks,
         files, facts, service, maint, Artifacts
<1>13. ASSUME NEW p \in Services, TryLeader(p) PROVE LeaseInv'
  <2>1. CASE /\ ExclusiveFree("leader", fd[p]["leader"])
             /\ held' = [held EXCEPT ![p] = @ \cup {"leader"}] /\ UNCHANGED fd
    BY <1>13, <2>1, CacheInv, CacheAssumption, TypeOK'
       DEF TryLeader, ExclusiveFree, Holders, CacheInv, TypeOK, LeaseInv,
           Locks, files, facts, service, maint, Artifacts
  <2>2. CASE fd' = [fd EXCEPT ![p]["leader"] = 0] /\ UNCHANGED held
    BY <1>13, <2>2, CacheInv, CacheAssumption, TypeOK'
       DEF TryLeader, CacheInv, TypeOK, LeaseInv, Locks, files, facts, service,
           maint, Artifacts
  <2> QED
    BY <1>13, <2>1, <2>2, Zenon DEF TryLeader
<1>14. ASSUME NEW p \in Services, DropLeader(p) PROVE LeaseInv'
  BY <1>14, CacheInv, CacheAssumption, TypeOK'
     DEF DropLeader, CacheInv, TypeOK, LeaseInv, Locks, files, facts, service,
         maint, Artifacts
<1>15. ASSUME NEW m \in Maintainers, Probe(m) PROVE LeaseInv'
  BY <1>15, CacheInv, CacheAssumption, TypeOK'
     DEF Probe, Begin, ExclusiveFree, Holders, Excluded, CacheInv, TypeOK,
         LeaseInv, Locks, files, facts, service, maint, Artifacts
<1>16. ASSUME NEW m \in Maintainers, EndProbe(m) PROVE LeaseInv'
  BY <1>16, CacheInv, CacheAssumption, TypeOK'
     DEF EndProbe, CacheInv, TypeOK, LeaseInv, Locks, files, facts, service,
         maint, Artifacts
<1>17. ASSUME NEW m \in Maintainers, Select(m) PROVE LeaseInv'
  BY <1>17, CacheInv, CacheAssumption, TypeOK'
     DEF Select, CacheInv, TypeOK, LeaseInv, Locks, files, facts, service,
         maint, Artifacts
<1>18. ASSUME NEW m \in Maintainers, Keep(m) PROVE LeaseInv'
  BY <1>18, CacheInv, CacheAssumption, TypeOK'
     DEF Keep, Leave, CacheInv, TypeOK, LeaseInv, Locks, files, facts, service,
         maint, Artifacts
<1>19. ASSUME NEW m \in Maintainers, TakePruneLease(m) PROVE LeaseInv'
  <2>1. PICK i \in Inodes :
         /\ OpenLockFile("lease", i)
         /\ IF ExclusiveFree("lease", i)
            THEN /\ mfd' = [mfd EXCEPT ![m] = i]
                 /\ mpc' = [mpc EXCEPT ![m] = "inspect"]
                 /\ UNCHANGED <<reasons, at>>
            ELSE Leave(m)
    BY <1>19 DEF TakePruneLease
  <2>2. OpenLockFile("lease", i)
    BY <2>1
  <2>3. CASE /\ ExclusiveFree("lease", i)
             /\ mfd' = [mfd EXCEPT ![m] = i]
             /\ mpc' = [mpc EXCEPT ![m] = "inspect"]
             /\ UNCHANGED <<reasons, at>>
    BY <1>19, <2>2, <2>3, OpensInode, CacheInv, CacheAssumption, TypeOK'
       DEF TakePruneLease, ExclusiveFree, Holders, Excluded, CacheInv, TypeOK,
           LeaseInv, Locks, files, facts, service, maint, Artifacts
  <2>4. CASE Leave(m)
    BY <1>19, <2>2, <2>4, OpensInode, CacheInv, CacheAssumption, TypeOK'
       DEF TakePruneLease, Leave, CacheInv, TypeOK, LeaseInv, Locks, files,
           facts, service, maint, Artifacts
  <2> QED
    BY <2>1, <2>3, <2>4, Zenon
<1>20. ASSUME NEW m \in Maintainers, StartRemoval(m) PROVE LeaseInv'
  BY <1>20, CacheInv, CacheAssumption, TypeOK'
     DEF StartRemoval, Revalidated, CacheInv, TypeOK, LeaseInv, Locks, files,
         facts, service, maint, Artifacts
<1>21. ASSUME NEW m \in Maintainers, KeepAfterAll(m) PROVE LeaseInv'
  BY <1>21, CacheInv, CacheAssumption, TypeOK'
     DEF KeepAfterAll, Leave, CacheInv, TypeOK, LeaseInv, Locks, files, facts,
         service, maint, Artifacts
<1>22. ASSUME NEW m \in Maintainers, RemoveArtifact(m) PROVE LeaseInv'
  <2>1. ino'["lease"] = ino["lease"]
    <3>1. at[m] \in 1 .. 4
      BY <1>22, CacheInv, FourArtifacts
         DEF RemoveArtifact, CacheInv, LeaseInv, TypeOK
    <3>2. Artifacts[at[m]] # "lease"
      BY <3>1, FourArtifacts
    <3> QED
      BY <1>22, <3>2 DEF RemoveArtifact, Locks
  <2>2. CASE Leave(m)
    BY <1>22, <2>1, <2>2, FourArtifacts, CacheInv, CacheAssumption, TypeOK'
       DEF RemoveArtifact, Leave, CacheInv, TypeOK, LeaseInv, Locks, files,
           facts, service, maint
  <2>3. CASE /\ at[m] # 4 /\ at' = [at EXCEPT ![m] = @ + 1]
             /\ UNCHANGED <<mpc, mfd, reasons>>
    BY <1>22, <2>1, <2>3, FourArtifacts, CacheInv, CacheAssumption, TypeOK'
       DEF RemoveArtifact, CacheInv, TypeOK, LeaseInv, Locks, files, facts,
           service, maint
  <2> QED
    BY <1>22, <2>2, <2>3, FourArtifacts, Zenon DEF RemoveArtifact
<1>23. ASSUME NEW m \in Maintainers, StartCompact(m) PROVE LeaseInv'
  BY <1>23, CacheInv, CacheAssumption, TypeOK'
     DEF StartCompact, Begin, OpenLockFile, Fresh, ExclusiveFree, Holders,
         Excluded, CacheInv, TypeOK, LeaseInv, Locks, files, facts, service,
         maint, Artifacts
<1>24. ASSUME NEW m \in Maintainers, EndCompact(m) PROVE LeaseInv'
  BY <1>24, CacheInv, CacheAssumption, TypeOK'
     DEF EndCompact, Leave, CacheInv, TypeOK, LeaseInv, Locks, files, facts,
         service, maint, Artifacts
<1>25. ASSUME NEW m \in Maintainers, AbandonMaintenance(m) PROVE LeaseInv'
  BY <1>25, CacheInv, CacheAssumption, TypeOK'
     DEF AbandonMaintenance, Leave, CacheInv, TypeOK, LeaseInv, Locks, files,
         facts, service, maint, Artifacts
<1>26. CASE Environment
  BY <1>26, CacheInv, CacheAssumption, TypeOK'
     DEF Environment, CacheInv, TypeOK, LeaseInv, Locks, files, facts, service,
         maint, Artifacts
<1>27. CASE UNCHANGED vars
  BY <1>27, CacheInv, CacheAssumption, TypeOK'
     DEF vars, CacheInv, TypeOK, LeaseInv, Locks, files, facts, service, maint,
         Artifacts
<1> QED
  BY <1>1, <1>2, <1>3, <1>4, <1>5, <1>6, <1>7, <1>8, <1>9, <1>10, <1>11,
     <1>12, <1>13, <1>14, <1>15, <1>16, <1>17, <1>18, <1>19, <1>20, <1>21,
     <1>22, <1>23, <1>24, <1>25, <1>26, <1>27
     DEF Next, ServiceStep, Opening, MaintenanceStep, Maintaining

\* Every step keeps one owner of each lock.
LEMMA OwnerInvNext == CacheInv /\ TypeOK' /\ [Next]_vars => OwnerInv'
<1> SUFFICES ASSUME CacheInv, TypeOK', [Next]_vars PROVE OwnerInv'
  OBVIOUS
<1>1. ASSUME NEW p \in Services, StartService(p) PROVE OwnerInv'
  BY <1>1, CacheInv, CacheAssumption, TypeOK'
     DEF StartService, Begin, OpenLockFile, Fresh, CacheInv, TypeOK, LeaseInv,
         OwnerInv, OneOwner, Locks, files, facts, service, maint, Artifacts
<1>2. ASSUME NEW p \in Services, TakeLease(p) PROVE OwnerInv'
  BY <1>2, CacheInv, CacheAssumption, TypeOK'
     DEF TakeLease, SharedFree, Excluded, CacheInv, TypeOK, LeaseInv, OwnerInv,
         OneOwner, Locks, files, facts, service, maint, Artifacts
<1>3. ASSUME NEW p \in Services, OpenInit(p) PROVE OwnerInv'
  BY <1>3, CacheInv, CacheAssumption, TypeOK'
     DEF OpenInit, OpenLockFile, Fresh, CacheInv, TypeOK, LeaseInv, OwnerInv,
         OneOwner, Locks, files, facts, service, maint, Artifacts
<1>4. ASSUME NEW p \in Services, TakeInit(p) PROVE OwnerInv'
  BY <1>4, CacheInv, CacheAssumption, TypeOK'
     DEF TakeInit, ExclusiveFree, Holders, CacheInv, TypeOK, LeaseInv,
         OwnerInv, OneOwner, Locks, files, facts, service, maint, Artifacts
<1>5. ASSUME NEW p \in Services, OpenExisting(p) PROVE OwnerInv'
  BY <1>5, CacheInv, CacheAssumption, TypeOK'
     DEF OpenExisting, Opened, CacheInv, TypeOK, LeaseInv, OwnerInv, OneOwner,
         Locks, files, facts, service, maint, Artifacts
<1>6. ASSUME NEW p \in Services, OpenFresh(p) PROVE OwnerInv'
  BY <1>6, CacheInv, CacheAssumption, TypeOK'
     DEF OpenFresh, Opened, Fresh, CacheInv, TypeOK, LeaseInv, OwnerInv,
         OneOwner, Locks, files, facts, service, maint, Artifacts
<1>7. ASSUME NEW p \in Services, RemoveCorrupt(p) PROVE OwnerInv'
  BY <1>7, CacheInv, CacheAssumption, TypeOK'
     DEF RemoveCorrupt, CacheInv, TypeOK, LeaseInv, OwnerInv, OneOwner, Locks,
         files, facts, service, maint, Artifacts
<1>8. ASSUME NEW p \in Services, RemoveCorruptWal(p) PROVE OwnerInv'
  BY <1>8, CacheInv, CacheAssumption, TypeOK'
     DEF RemoveCorruptWal, CacheInv, TypeOK, LeaseInv, OwnerInv, OneOwner,
         Locks, files, facts, service, maint, Artifacts
<1>9. ASSUME NEW p \in Services, AbandonService(p) PROVE OwnerInv'
  BY <1>9, CacheInv, CacheAssumption, TypeOK'
     DEF AbandonService, Released, CacheInv, TypeOK, LeaseInv, OwnerInv,
         OneOwner, Locks, files, facts, service, maint, Artifacts
<1>10. ASSUME NEW p \in Services, CloseService(p) PROVE OwnerInv'
  BY <1>10, CacheInv, CacheAssumption, TypeOK'
     DEF CloseService, Released, CacheInv, TypeOK, LeaseInv, OwnerInv,
         OneOwner, Locks, files, facts, service, maint, Artifacts
<1>11. ASSUME NEW p \in Services, Commit(p) PROVE OwnerInv'
  BY <1>11, CacheInv, CacheAssumption, TypeOK'
     DEF Commit, CacheInv, TypeOK, LeaseInv, OwnerInv, OneOwner, Locks, files,
         facts, service, maint, Artifacts
<1>12. ASSUME NEW p \in Services, OpenLeader(p) PROVE OwnerInv'
  BY <1>12, CacheInv, CacheAssumption, TypeOK'
     DEF OpenLeader, OpenLockFile, Fresh, CacheInv, TypeOK, LeaseInv, OwnerInv,
         OneOwner, Locks, files, facts, service, maint, Artifacts
<1>13. ASSUME NEW p \in Services, TryLeader(p) PROVE OwnerInv'
  <2>1. CASE /\ ExclusiveFree("leader", fd[p]["leader"])
             /\ held' = [held EXCEPT ![p] = @ \cup {"leader"}] /\ UNCHANGED fd
    BY <1>13, <2>1, CacheInv, CacheAssumption, TypeOK'
       DEF TryLeader, ExclusiveFree, Holders, CacheInv, TypeOK, LeaseInv,
           OwnerInv, OneOwner, Locks, files, facts, service, maint, Artifacts
  <2>2. CASE fd' = [fd EXCEPT ![p]["leader"] = 0] /\ UNCHANGED held
    BY <1>13, <2>2, CacheInv, CacheAssumption, TypeOK'
       DEF TryLeader, CacheInv, TypeOK, LeaseInv, OwnerInv, OneOwner, Locks,
           files, facts, service, maint, Artifacts
  <2> QED
    BY <1>13, <2>1, <2>2, Zenon DEF TryLeader
<1>14. ASSUME NEW p \in Services, DropLeader(p) PROVE OwnerInv'
  BY <1>14, CacheInv, CacheAssumption, TypeOK'
     DEF DropLeader, CacheInv, TypeOK, LeaseInv, OwnerInv, OneOwner, Locks,
         files, facts, service, maint, Artifacts
<1>15. ASSUME NEW m \in Maintainers, Probe(m) PROVE OwnerInv'
  BY <1>15, CacheInv, CacheAssumption, TypeOK'
     DEF Probe, Begin, ExclusiveFree, Holders, Excluded, CacheInv, TypeOK,
         LeaseInv, OwnerInv, OneOwner, Locks, files, facts, service, maint,
         Artifacts
<1>16. ASSUME NEW m \in Maintainers, EndProbe(m) PROVE OwnerInv'
  BY <1>16, CacheInv, CacheAssumption, TypeOK'
     DEF EndProbe, CacheInv, TypeOK, LeaseInv, OwnerInv, OneOwner, Locks,
         files, facts, service, maint, Artifacts
<1>17. ASSUME NEW m \in Maintainers, Select(m) PROVE OwnerInv'
  BY <1>17, CacheInv, CacheAssumption, TypeOK'
     DEF Select, CacheInv, TypeOK, LeaseInv, OwnerInv, OneOwner, Locks, files,
         facts, service, maint, Artifacts
<1>18. ASSUME NEW m \in Maintainers, Keep(m) PROVE OwnerInv'
  BY <1>18, CacheInv, CacheAssumption, TypeOK'
     DEF Keep, Leave, CacheInv, TypeOK, LeaseInv, OwnerInv, OneOwner, Locks,
         files, facts, service, maint, Artifacts
<1>19. ASSUME NEW m \in Maintainers, TakePruneLease(m) PROVE OwnerInv'
  BY <1>19, CacheInv, CacheAssumption, TypeOK'
     DEF TakePruneLease, OpenLockFile, Fresh, ExclusiveFree, Holders, Excluded,
         Leave, CacheInv, TypeOK, LeaseInv, OwnerInv, OneOwner, Locks, files,
         facts, service, maint, Artifacts
<1>20. ASSUME NEW m \in Maintainers, StartRemoval(m) PROVE OwnerInv'
  BY <1>20, CacheInv, CacheAssumption, TypeOK'
     DEF StartRemoval, Revalidated, CacheInv, TypeOK, LeaseInv, OwnerInv,
         OneOwner, Locks, files, facts, service, maint, Artifacts
<1>21. ASSUME NEW m \in Maintainers, KeepAfterAll(m) PROVE OwnerInv'
  BY <1>21, CacheInv, CacheAssumption, TypeOK'
     DEF KeepAfterAll, Leave, CacheInv, TypeOK, LeaseInv, OwnerInv, OneOwner,
         Locks, files, facts, service, maint, Artifacts
<1>22. ASSUME NEW m \in Maintainers, RemoveArtifact(m) PROVE OwnerInv'
  BY <1>22, CacheInv, CacheAssumption, TypeOK'
     DEF RemoveArtifact, Leave, CacheInv, TypeOK, LeaseInv, OwnerInv, OneOwner,
         Locks, files, facts, service, maint, Artifacts
<1>23. ASSUME NEW m \in Maintainers, StartCompact(m) PROVE OwnerInv'
  BY <1>23, CacheInv, CacheAssumption, TypeOK'
     DEF StartCompact, Begin, OpenLockFile, Fresh, ExclusiveFree, Holders,
         Excluded, CacheInv, TypeOK, LeaseInv, OwnerInv, OneOwner, Locks,
         files, facts, service, maint, Artifacts
<1>24. ASSUME NEW m \in Maintainers, EndCompact(m) PROVE OwnerInv'
  BY <1>24, CacheInv, CacheAssumption, TypeOK'
     DEF EndCompact, Leave, CacheInv, TypeOK, LeaseInv, OwnerInv, OneOwner,
         Locks, files, facts, service, maint, Artifacts
<1>25. ASSUME NEW m \in Maintainers, AbandonMaintenance(m) PROVE OwnerInv'
  BY <1>25, CacheInv, CacheAssumption, TypeOK'
     DEF AbandonMaintenance, Leave, CacheInv, TypeOK, LeaseInv, OwnerInv,
         OneOwner, Locks, files, facts, service, maint, Artifacts
<1>26. CASE Environment
  BY <1>26, CacheInv, CacheAssumption, TypeOK'
     DEF Environment, CacheInv, TypeOK, LeaseInv, OwnerInv, OneOwner, Locks,
         files, facts, service, maint, Artifacts
<1>27. CASE UNCHANGED vars
  BY <1>27, CacheInv, CacheAssumption, TypeOK'
     DEF vars, CacheInv, TypeOK, LeaseInv, OwnerInv, OneOwner, Locks, files,
         facts, service, maint, Artifacts
<1> QED
  BY <1>1, <1>2, <1>3, <1>4, <1>5, <1>6, <1>7, <1>8, <1>9, <1>10, <1>11,
     <1>12, <1>13, <1>14, <1>15, <1>16, <1>17, <1>18, <1>19, <1>20, <1>21,
     <1>22, <1>23, <1>24, <1>25, <1>26, <1>27
     DEF Next, ServiceStep, Opening, MaintenanceStep, Maintaining

\* Every step keeps the database whole.
LEMMA DatabaseInvNext == CacheInv /\ TypeOK' /\ [Next]_vars => DatabaseInv'
<1> SUFFICES ASSUME CacheInv, TypeOK', [Next]_vars PROVE DatabaseInv'
  OBVIOUS
<1>1. ASSUME NEW p \in Services, StartService(p) PROVE DatabaseInv'
  BY <1>1, CacheInv, CacheAssumption, TypeOK'
     DEF StartService, Begin, OpenLockFile, Fresh, CacheInv, TypeOK, LeaseInv,
         OwnerInv, OneOwner, DatabaseInv, Locks, files, facts, service, maint,
         Artifacts
<1>2. ASSUME NEW p \in Services, TakeLease(p) PROVE DatabaseInv'
  BY <1>2, CacheInv, CacheAssumption, TypeOK'
     DEF TakeLease, SharedFree, Excluded, CacheInv, TypeOK, LeaseInv, OwnerInv,
         OneOwner, DatabaseInv, Locks, files, facts, service, maint, Artifacts
<1>3. ASSUME NEW p \in Services, OpenInit(p) PROVE DatabaseInv'
  BY <1>3, CacheInv, CacheAssumption, TypeOK'
     DEF OpenInit, OpenLockFile, Fresh, CacheInv, TypeOK, LeaseInv, OwnerInv,
         OneOwner, DatabaseInv, Locks, files, facts, service, maint, Artifacts
<1>4. ASSUME NEW p \in Services, TakeInit(p) PROVE DatabaseInv'
  BY <1>4, CacheInv, CacheAssumption, TypeOK'
     DEF TakeInit, ExclusiveFree, Holders, CacheInv, TypeOK, LeaseInv,
         OwnerInv, OneOwner, DatabaseInv, Locks, files, facts, service, maint,
         Artifacts
<1>5. ASSUME NEW p \in Services, OpenExisting(p) PROVE DatabaseInv'
  BY <1>5, CacheInv, CacheAssumption, TypeOK'
     DEF OpenExisting, Opened, CacheInv, TypeOK, LeaseInv, OwnerInv, OneOwner,
         DatabaseInv, Locks, files, facts, service, maint, Artifacts
<1>6. ASSUME NEW p \in Services, OpenFresh(p) PROVE DatabaseInv'
  BY <1>6, CacheInv, CacheAssumption, TypeOK'
     DEF OpenFresh, Opened, Fresh, CacheInv, TypeOK, LeaseInv, OwnerInv,
         OneOwner, DatabaseInv, Locks, files, facts, service, maint, Artifacts
<1>7. ASSUME NEW p \in Services, RemoveCorrupt(p) PROVE DatabaseInv'
  <2>1. \A q \in Services : stale[q] \/ using[q] = db => stale'[q]
    BY <1>7, Zenon DEF RemoveCorrupt
  <2>2. \A q \in Services : pc[q] \in {"rebuild", "recreate"} => db' = 0
    BY <1>7 DEF RemoveCorrupt
  <2> QED
    BY <1>7, <2>1, <2>2, CacheInv, CacheAssumption, TypeOK'
       DEF RemoveCorrupt, CacheInv, TypeOK, LeaseInv, OwnerInv, OneOwner,
           DatabaseInv, Locks, files, facts, service, maint, Artifacts
<1>8. ASSUME NEW p \in Services, RemoveCorruptWal(p) PROVE DatabaseInv'
  BY <1>8, CacheInv, CacheAssumption, TypeOK'
     DEF RemoveCorruptWal, CacheInv, TypeOK, LeaseInv, OwnerInv, OneOwner,
         DatabaseInv, Locks, files, facts, service, maint, Artifacts
<1>9. ASSUME NEW p \in Services, AbandonService(p) PROVE DatabaseInv'
  BY <1>9, CacheInv, CacheAssumption, TypeOK'
     DEF AbandonService, Released, CacheInv, TypeOK, LeaseInv, OwnerInv,
         OneOwner, DatabaseInv, Locks, files, facts, service, maint, Artifacts
<1>10. ASSUME NEW p \in Services, CloseService(p) PROVE DatabaseInv'
  BY <1>10, CacheInv, CacheAssumption, TypeOK'
     DEF CloseService, Released, CacheInv, TypeOK, LeaseInv, OwnerInv,
         OneOwner, DatabaseInv, Locks, files, facts, service, maint, Artifacts
<1>11. ASSUME NEW p \in Services, Commit(p) PROVE DatabaseInv'
  BY <1>11, CacheInv, CacheAssumption, TypeOK'
     DEF Commit, CacheInv, TypeOK, LeaseInv, OwnerInv, OneOwner, DatabaseInv,
         Locks, files, facts, service, maint, Artifacts
<1>12. ASSUME NEW p \in Services, OpenLeader(p) PROVE DatabaseInv'
  BY <1>12, CacheInv, CacheAssumption, TypeOK'
     DEF OpenLeader, OpenLockFile, Fresh, CacheInv, TypeOK, LeaseInv, OwnerInv,
         OneOwner, DatabaseInv, Locks, files, facts, service, maint, Artifacts
<1>13. ASSUME NEW p \in Services, TryLeader(p) PROVE DatabaseInv'
  BY <1>13, CacheInv, CacheAssumption, TypeOK'
     DEF TryLeader, ExclusiveFree, Holders, CacheInv, TypeOK, LeaseInv,
         OwnerInv, OneOwner, DatabaseInv, Locks, files, facts, service, maint,
         Artifacts
<1>14. ASSUME NEW p \in Services, DropLeader(p) PROVE DatabaseInv'
  BY <1>14, CacheInv, CacheAssumption, TypeOK'
     DEF DropLeader, CacheInv, TypeOK, LeaseInv, OwnerInv, OneOwner,
         DatabaseInv, Locks, files, facts, service, maint, Artifacts
<1>15. ASSUME NEW m \in Maintainers, Probe(m) PROVE DatabaseInv'
  BY <1>15, CacheInv, CacheAssumption, TypeOK'
     DEF Probe, Begin, ExclusiveFree, Holders, Excluded, CacheInv, TypeOK,
         LeaseInv, OwnerInv, OneOwner, DatabaseInv, Locks, files, facts,
         service, maint, Artifacts
<1>16. ASSUME NEW m \in Maintainers, EndProbe(m) PROVE DatabaseInv'
  BY <1>16, CacheInv, CacheAssumption, TypeOK'
     DEF EndProbe, CacheInv, TypeOK, LeaseInv, OwnerInv, OneOwner, DatabaseInv,
         Locks, files, facts, service, maint, Artifacts
<1>17. ASSUME NEW m \in Maintainers, Select(m) PROVE DatabaseInv'
  BY <1>17, CacheInv, CacheAssumption, TypeOK'
     DEF Select, CacheInv, TypeOK, LeaseInv, OwnerInv, OneOwner, DatabaseInv,
         Locks, files, facts, service, maint, Artifacts
<1>18. ASSUME NEW m \in Maintainers, Keep(m) PROVE DatabaseInv'
  BY <1>18, CacheInv, CacheAssumption, TypeOK'
     DEF Keep, Leave, CacheInv, TypeOK, LeaseInv, OwnerInv, OneOwner,
         DatabaseInv, Locks, files, facts, service, maint, Artifacts
<1>19. ASSUME NEW m \in Maintainers, TakePruneLease(m) PROVE DatabaseInv'
  BY <1>19, CacheInv, CacheAssumption, TypeOK'
     DEF TakePruneLease, OpenLockFile, Fresh, ExclusiveFree, Holders, Excluded,
         Leave, CacheInv, TypeOK, LeaseInv, OwnerInv, OneOwner, DatabaseInv,
         Locks, files, facts, service, maint, Artifacts
<1>20. ASSUME NEW m \in Maintainers, StartRemoval(m) PROVE DatabaseInv'
  BY <1>20, CacheInv, CacheAssumption, TypeOK'
     DEF StartRemoval, Revalidated, CacheInv, TypeOK, LeaseInv, OwnerInv,
         OneOwner, DatabaseInv, Locks, files, facts, service, maint, Artifacts
<1>21. ASSUME NEW m \in Maintainers, KeepAfterAll(m) PROVE DatabaseInv'
  BY <1>21, CacheInv, CacheAssumption, TypeOK'
     DEF KeepAfterAll, Leave, CacheInv, TypeOK, LeaseInv, OwnerInv, OneOwner,
         DatabaseInv, Locks, files, facts, service, maint, Artifacts
<1>22. ASSUME NEW m \in Maintainers, RemoveArtifact(m) PROVE DatabaseInv'
  BY <1>22, CacheInv, CacheAssumption, TypeOK'
     DEF RemoveArtifact, Leave, CacheInv, TypeOK, LeaseInv, OwnerInv, OneOwner,
         DatabaseInv, Locks, files, facts, service, maint, Artifacts
<1>23. ASSUME NEW m \in Maintainers, StartCompact(m) PROVE DatabaseInv'
  BY <1>23, CacheInv, CacheAssumption, TypeOK'
     DEF StartCompact, Begin, OpenLockFile, Fresh, ExclusiveFree, Holders,
         Excluded, CacheInv, TypeOK, LeaseInv, OwnerInv, OneOwner, DatabaseInv,
         Locks, files, facts, service, maint, Artifacts
<1>24. ASSUME NEW m \in Maintainers, EndCompact(m) PROVE DatabaseInv'
  BY <1>24, CacheInv, CacheAssumption, TypeOK'
     DEF EndCompact, Leave, CacheInv, TypeOK, LeaseInv, OwnerInv, OneOwner,
         DatabaseInv, Locks, files, facts, service, maint, Artifacts
<1>25. ASSUME NEW m \in Maintainers, AbandonMaintenance(m) PROVE DatabaseInv'
  BY <1>25, CacheInv, CacheAssumption, TypeOK'
     DEF AbandonMaintenance, Leave, CacheInv, TypeOK, LeaseInv, OwnerInv,
         OneOwner, DatabaseInv, Locks, files, facts, service, maint, Artifacts
<1>26. CASE Environment
  BY <1>26, CacheInv, CacheAssumption, TypeOK'
     DEF Environment, CacheInv, TypeOK, LeaseInv, OwnerInv, OneOwner,
         DatabaseInv, Locks, files, facts, service, maint, Artifacts
<1>27. CASE UNCHANGED vars
  BY <1>27, CacheInv, CacheAssumption, TypeOK'
     DEF vars, CacheInv, TypeOK, LeaseInv, OwnerInv, OneOwner, DatabaseInv,
         Locks, files, facts, service, maint, Artifacts
<1> QED
  BY <1>1, <1>2, <1>3, <1>4, <1>5, <1>6, <1>7, <1>8, <1>9, <1>10, <1>11,
     <1>12, <1>13, <1>14, <1>15, <1>16, <1>17, <1>18, <1>19, <1>20, <1>21,
     <1>22, <1>23, <1>24, <1>25, <1>26, <1>27
     DEF Next, ServiceStep, Opening, MaintenanceStep, Maintaining

\* The invariant holds in every reachable state.
LEMMA CacheInvariant == Spec => []CacheInv
<1>1. Init /\ TypeOK => CacheInv
  BY CacheInvInit DEF CacheInv
<1>2. CacheInv /\ TypeOK' /\ [Next]_vars => CacheInv'
  BY LeaseInvNext, OwnerInvNext, DatabaseInvNext DEF CacheInv
<1>3. QED
  BY <1>1, <1>2, TypeCorrect, PTL DEF Spec

\* A prune or a compaction never works on a cache a service has leased, and a
\* database in use is replaced only by the rebuild of a corrupt one (CacheLease,
\* CachePruneLease).
THEOREM InUse == Spec => []InUseIsKept
<1>1. CacheInv => InUseIsKept
  BY DEF CacheInv, LeaseInv, DatabaseInv, InUseIsKept
<1>2. QED
  BY <1>1, CacheInvariant, PTL

\* A cache has at most one initializer and one leader, although pruning unlinks
\* their lock files (IndexLeadership, InitializationLock).
THEOREM SingleOwner == Spec => []OneOwner
<1>1. CacheInv => OneOwner
  BY DEF CacheInv, OwnerInv
<1>2. QED
  BY <1>1, CacheInvariant, PTL

\* No database stays in the directory without its WAL, wherever a prune or a
\* rebuild crashes (remove_managed_artifacts, remove_database_artifacts).
THEOREM OpensWhole == Spec => []WholeDatabase
<1>1. CacheInv => WholeDatabase
  BY DEF CacheInv, DatabaseInv, WholeDatabase
<1>2. QED
  BY <1>1, CacheInvariant, PTL

\* Why a removal has a reason: what revalidation leaves applies now, unless
\* there is neither a database nor a WAL to remove.
LEMMA RevalidatedApplies ==
  ASSUME NEW R \in SUBSET Reasons, Revalidated(R) # {}, HasAge, TypeOK
  PROVE  \E r \in R : Applies(r)
<1> DEFINE compatible == R \ {r \in {"incompatible"} : ~Applies(r)}
           aged == compatible \ {r \in {"older"} : HasAge /\ ~old}
<1>1. aged # {} /\ (aged = {"missing"} => Applies("missing"))
  BY DEF Revalidated
<1>2. CASE aged = {"missing"}
  BY <1>1, <1>2
<1>3. CASE aged # {"missing"}
  <2>1. PICK r \in aged : r # "missing"
    BY <1>1, <1>3
  <2>2. r \in {"incompatible", "older", "lru"} /\ r \in R
    BY <2>1 DEF Reasons
  <2>3. CASE r = "incompatible"
    BY <2>1, <2>2, <2>3
  <2>4. CASE r = "older"
    BY <2>1, <2>2, <2>4 DEF Applies
  <2>5. CASE r = "lru"
    BY <2>2, <2>5 DEF Applies
  <2> QED
    BY <2>2, <2>3, <2>4, <2>5
<1> QED
  BY <1>2, <1>3

\* A prune removes a database only for a reason that still applied under the
\* lease (prune_observing).
THEOREM PruneReasons == Spec => PrunedForAReason
<1> DEFINE Keeps ==
      \A m \in Maintainers :
        mpc[m] = "inspect" /\ mpc'[m] = "remove" /\ HasAge
          => \E r \in reasons[m] : Applies(r)
<1>1. TypeOK /\ [Next]_vars => [Keeps]_vars
  <2> SUFFICES ASSUME TypeOK, Next, NEW n \in Maintainers,
                      mpc[n] = "inspect", mpc'[n] = "remove", HasAge
               PROVE  \E r \in reasons[n] : Applies(r)
    OBVIOUS
  <2>1. StartRemoval(n)
    <3>1. ASSUME NEW p \in Services, ServiceStep(p) PROVE FALSE
      BY <3>1 DEF ServiceStep, Opening, StartService, TakeLease, OpenInit,
                  TakeInit, OpenExisting, OpenFresh, Opened, RemoveCorrupt,
                  RemoveCorruptWal, AbandonService, CloseService, Commit,
                  OpenLeader, TryLeader, DropLeader, maint, service
    <3>2. ASSUME NEW m \in Maintainers, MaintenanceStep(m) PROVE StartRemoval(n)
      BY <3>2 DEF TypeOK, MaintenanceStep, Maintaining, Probe, EndProbe, Select,
                  Keep, TakePruneLease, StartRemoval, KeepAfterAll,
                  RemoveArtifact, StartCompact, EndCompact,
                  AbandonMaintenance, Leave
    <3>3. CASE Environment
      BY <3>3 DEF Environment, maint
    <3> QED
      BY <3>1, <3>2, <3>3 DEF Next
  <2>2. reasons[n] \in SUBSET Reasons /\ Revalidated(reasons[n]) # {}
    BY <2>1 DEF StartRemoval, TypeOK
  <2> QED
    BY <2>2, RevalidatedApplies
<1>2. QED
  BY <1>1, TypeCorrect, PTL DEF Spec, PrunedForAReason
=============================================================================
