--------------------------- MODULE CacheLifecycle ---------------------------
(***************************************************************************)
(* The life of one managed cache directory: services that open, lead, use   *)
(* and close it (services/startup, coordination.rs), and maintenance        *)
(* commands that prune or compact it (cache/prune.rs, cache/compact.rs),    *)
(* all in separate processes that may crash between any two steps.          *)
(*                                                                         *)
(* Coordination is by locks on files in the directory.  A lock belongs to   *)
(* an inode, not to a name: a process that opened a lock file before it was *)
(* unlinked locks an inode nobody else will find.  Opening a lock file and  *)
(* locking it are therefore separate steps, and files have identities.      *)
(* Caches do not share locks, so one is modelled; what others contribute to *)
(* its selection (their size, under max_total_bytes) is an arbitrary        *)
(* choice.  The operation lock is handled as the leadership lock is.        *)
(***************************************************************************)
EXTENDS Naturals, Sequences

CONSTANTS Services,     \* processes that use the cache
          Maintainers,  \* processes that prune or compact it
          Inodes,       \* identities of files
          MaxStarts     \* bound on operations started

ASSUME CacheAssumption == Inodes \subseteq Nat \ {0} /\ MaxStarts \in Nat

Locks   == {"lease", "init", "leader"}
Reasons == {"incompatible", "older", "missing", "lru"}

\* A removal that includes the lease file, and one that begins with the WAL.
ArtifactsWithLease == <<"db", "wal", "init", "leader", "lease">>
ArtifactsWalFirst == <<"wal", "db", "init", "leader">>

\* The artifacts in the order of their names; the lease file stays.
Artifacts == <<"db", "wal", "init", "leader">>

VARIABLES
  db,        \* the database file in the directory, 0 when there is none
  wal,       \* the database whose committed transactions the WAL holds, or 0
  torn,      \* the database in the directory has lost its WAL
  corrupt,   \* its content is unreadable
  old,       \* its last access is older than a prune asks for
  missing,   \* the repository it indexes does not exist
  obsolete,  \* the directory belongs to an older index-content version
  ino,       \* the lock file at each lock's name, 0 when there is none
  pc,        \* where each service is
  fd,        \* the lock files it has open
  held,      \* the locks it holds, on these files
  using,     \* the database file it uses
  stale,     \* that file was corrupt and another service replaced it
  mpc,       \* where each maintenance command is
  mfd,       \* the lease file it holds exclusively, or 0
  reasons,   \* why it selected the cache
  at,        \* the position of the artifact it removes next, or 0
  starts     \* operations started

files   == <<db, wal, torn, corrupt>>
facts   == <<old, missing, obsolete>>
service == <<pc, fd, held, using, stale>>
maint   == <<mpc, mfd, reasons, at>>
vars    == <<files, facts, ino, service, maint, starts>>

\* Type correctness.
TypeOK ==
  /\ db \in Inodes \cup {0} /\ wal \in Inodes \cup {0}
  /\ torn \in BOOLEAN /\ corrupt \in BOOLEAN
  /\ old \in BOOLEAN /\ missing \in BOOLEAN /\ obsolete \in BOOLEAN
  /\ ino \in [Locks -> Inodes \cup {0}]
  /\ pc \in [Services -> {"idle", "lease", "initfile", "init", "open", "rebuild",
                          "recreate", "using"}]
  /\ fd \in [Services -> [Locks -> Inodes \cup {0}]]
  /\ held \in [Services -> SUBSET Locks]
  /\ using \in [Services -> Inodes \cup {0}]
  /\ stale \in [Services -> BOOLEAN]
  /\ mpc \in [Maintainers -> {"idle", "probe", "select", "lease", "inspect",
                              "remove", "vacuum"}]
  /\ mfd \in [Maintainers -> Inodes \cup {0}]
  /\ reasons \in [Maintainers -> SUBSET Reasons]
  /\ at \in [Maintainers -> 0 .. Len(Artifacts)]
  /\ starts \in 0 .. MaxStarts

\* A directory nobody has open: empty, or with the database of an earlier use.
Init ==
  /\ \/ db = 0 /\ wal = 0 /\ ino = [k \in Locks |-> 0]
     \/ /\ db \in Inodes /\ \A i \in Inodes : db <= i
        /\ wal \in {0, db}
        /\ ino \in [Locks -> {db}]
  /\ torn = FALSE /\ corrupt = FALSE
  /\ old \in BOOLEAN /\ missing = FALSE /\ obsolete \in BOOLEAN
  /\ pc = [p \in Services |-> "idle"]
  /\ fd = [p \in Services |-> [k \in Locks |-> 0]]
  /\ held = [p \in Services |-> {}]
  /\ using = [p \in Services |-> 0]
  /\ stale = [p \in Services |-> FALSE]
  /\ mpc = [m \in Maintainers |-> "idle"]
  /\ mfd = [m \in Maintainers |-> 0]
  /\ reasons = [m \in Maintainers |-> {}]
  /\ at = [m \in Maintainers |-> 0]
  /\ starts = 0

-----------------------------------------------------------------------------
(* Files and locks.                                                        *)

\* The least identity that no file in S has.
Fresh(i, S) == i \in Inodes \ S /\ \A j \in Inodes \ S : i <= j

\* open_lock_file: the inode i the name of lock k leads to, created if absent.
OpenLockFile(k, i) ==
  IF ino[k] # 0
  THEN i = ino[k] /\ UNCHANGED ino
  ELSE /\ Fresh(i, {fd[p][k] : p \in Services} \cup {mfd[m] : m \in Maintainers})
       /\ ino' = [ino EXCEPT ![k] = i]

\* Nobody but service p holds lock k on inode i; a maintainer holds the lease.
Holders(k, i) == {p \in Services : k \in held[p] /\ fd[p][k] = i}
Excluded(i)   == \E m \in Maintainers : mfd[m] = i

\* try_lock_shared on the lease, try_lock on the other files and for pruning.
SharedFree(i)      == ~Excluded(i)
ExclusiveFree(k, i) == Holders(k, i) = {} /\ (k = "lease" => ~Excluded(i))

Begin == starts < MaxStarts /\ starts' = starts + 1

-----------------------------------------------------------------------------
(* A service.                                                              *)

\* acquire_cache_lease opens the lease file.
StartService(p) ==
  /\ pc[p] = "idle" /\ ~missing
  /\ Begin
  /\ \E i \in Inodes :
       OpenLockFile("lease", i) /\ fd' = [fd EXCEPT ![p]["lease"] = i]
  /\ pc' = [pc EXCEPT ![p] = "lease"]
  /\ UNCHANGED <<files, facts, held, using, stale, maint>>

\* It polls until the shared lock is free.
TakeLease(p) ==
  /\ pc[p] = "lease" /\ SharedFree(fd[p]["lease"])
  /\ held' = [held EXCEPT ![p] = @ \cup {"lease"}]
  /\ pc' = [pc EXCEPT ![p] = "initfile"]
  /\ UNCHANGED <<files, facts, ino, fd, using, stale, maint, starts>>

\* acquire_initialization opens the initialization lock file.
OpenInit(p) ==
  /\ pc[p] = "initfile"
  /\ \E i \in Inodes :
       OpenLockFile("init", i) /\ fd' = [fd EXCEPT ![p]["init"] = i]
  /\ pc' = [pc EXCEPT ![p] = "init"]
  /\ UNCHANGED <<files, facts, held, using, stale, maint, starts>>

\* It polls until the exclusive lock is free.
TakeInit(p) ==
  /\ pc[p] = "init" /\ ExclusiveFree("init", fd[p]["init"])
  /\ held' = [held EXCEPT ![p] = @ \cup {"init"}]
  /\ pc' = [pc EXCEPT ![p] = "open"]
  /\ UNCHANGED <<files, facts, ino, fd, using, stale, maint, starts>>

\* The service has database i open and drops the initialization lock.
Opened(p, i) ==
  /\ using' = [using EXCEPT ![p] = i]
  /\ held' = [held EXCEPT ![p] = @ \ {"init"}]
  /\ fd' = [fd EXCEPT ![p]["init"] = 0]
  /\ pc' = [pc EXCEPT ![p] = "using"]
  /\ old' = FALSE
  /\ UNCHANGED <<missing, obsolete, ino, stale, maint, starts>>

\* open_once: the database is opened, migrated and bound, and its access time
\* written.
OpenExisting(p) ==
  /\ pc[p] = "open" /\ db # 0 /\ ~corrupt
  /\ Opened(p, db)
  /\ UNCHANGED files

\* open_once: SQLite creates the database, and discards a WAL that it finds
\* beside an empty file.
OpenFresh(p) ==
  /\ pc[p] \in {"open", "recreate"} /\ db = 0
  /\ \E i \in Inodes :
       /\ Fresh(i, {using[q] : q \in Services} \cup {wal})
       /\ db' = i
       /\ Opened(p, i)
  /\ wal' = 0 /\ torn' = FALSE /\ corrupt' = FALSE

\* open_once: a corrupt managed cache is removed, the database file first.
\* Other services may have it open: they share the lease.
RemoveCorrupt(p) ==
  /\ pc[p] = "open" /\ db # 0 /\ corrupt
  /\ db' = 0 /\ corrupt' = FALSE /\ torn' = FALSE
  /\ stale' = [q \in Services |-> stale[q] \/ using[q] = db]
  /\ pc' = [pc EXCEPT ![p] = "rebuild"]
  /\ UNCHANGED <<wal, facts, ino, fd, held, using, maint, starts>>

\* remove_database_artifacts: then the WAL.
RemoveCorruptWal(p) ==
  /\ pc[p] = "rebuild"
  /\ wal' = 0
  /\ torn' = (torn \/ (db # 0 /\ wal = db))
  /\ pc' = [pc EXCEPT ![p] = "recreate"]
  /\ UNCHANGED <<db, corrupt, facts, ino, fd, held, using, stale, maint, starts>>

\* A process that ends: the system closes its files and so releases its locks.
Released(p) ==
  /\ pc' = [pc EXCEPT ![p] = "idle"]
  /\ fd' = [fd EXCEPT ![p] = [k \in Locks |-> 0]]
  /\ held' = [held EXCEPT ![p] = {}]
  /\ using' = [using EXCEPT ![p] = 0]
  /\ stale' = [stale EXCEPT ![p] = FALSE]

\* Opening fails or is cancelled, or the process crashes at any point.
AbandonService(p) ==
  /\ pc[p] # "idle"
  /\ Released(p)
  /\ UNCHANGED <<files, facts, ino, maint, starts>>

\* The last service to close a database checkpoints its WAL.
CloseService(p) ==
  /\ pc[p] = "using"
  /\ wal' = IF using[p] = wal /\ \A q \in Services \ {p} : using[q] # using[p]
            THEN 0 ELSE wal
  /\ Released(p)
  /\ UNCHANGED <<db, torn, corrupt, facts, ino, maint, starts>>

\* A publication commits to the WAL of the database in use.
Commit(p) ==
  /\ pc[p] = "using" /\ using[p] = db /\ wal = 0
  /\ wal' = db
  /\ UNCHANGED <<db, torn, corrupt, facts, ino, service, maint, starts>>

\* try_acquire_leadership opens the leadership lock file.
OpenLeader(p) ==
  /\ pc[p] = "using" /\ fd[p]["leader"] = 0
  /\ \E i \in Inodes :
       OpenLockFile("leader", i) /\ fd' = [fd EXCEPT ![p]["leader"] = i]
  /\ UNCHANGED <<files, facts, pc, held, using, stale, maint, starts>>

\* It tries the lock once.
TryLeader(p) ==
  /\ pc[p] = "using" /\ fd[p]["leader"] # 0 /\ "leader" \notin held[p]
  /\ IF ExclusiveFree("leader", fd[p]["leader"])
     THEN held' = [held EXCEPT ![p] = @ \cup {"leader"}] /\ UNCHANGED fd
     ELSE fd' = [fd EXCEPT ![p]["leader"] = 0] /\ UNCHANGED held
  /\ UNCHANGED <<files, facts, ino, pc, using, stale, maint, starts>>

\* The leader steps down.
DropLeader(p) ==
  /\ "leader" \in held[p]
  /\ held' = [held EXCEPT ![p] = @ \ {"leader"}]
  /\ fd' = [fd EXCEPT ![p]["leader"] = 0]
  /\ UNCHANGED <<files, facts, ino, pc, using, stale, maint, starts>>

-----------------------------------------------------------------------------
(* Maintenance commands.                                                   *)

HasArtifacts == db # 0 \/ wal # 0 \/ ino["init"] # 0 \/ ino["leader"] # 0

\* What an inspection finds: safe_to_prune, and the criteria of a prune.
SafeToPrune == HasArtifacts /\ ~(db # 0 /\ corrupt)

\* The age is that of the database or of a WAL that is not empty.
HasAge == db # 0 \/ wal # 0

Applies(r) ==
  CASE r = "incompatible" -> obsolete /\ ~corrupt
    [] r = "older"        -> old /\ HasAge
    [] r = "missing"      -> missing /\ db # 0 /\ ~corrupt
    [] r = "lru"          -> TRUE

\* A command that goes on with its lease still held.
LeaveLeased(m) ==
  /\ mpc' = [mpc EXCEPT ![m] = "idle"]
  /\ reasons' = [reasons EXCEPT ![m] = {}]
  /\ at' = [at EXCEPT ![m] = 0]
  /\ UNCHANGED mfd

\* The command goes on to the next cache, or ends: its lease is dropped.
Leave(m) ==
  /\ mpc' = [mpc EXCEPT ![m] = "idle"]
  /\ mfd' = [mfd EXCEPT ![m] = 0]
  /\ reasons' = [reasons EXCEPT ![m] = {}]
  /\ at' = [at EXCEPT ![m] = 0]

\* inspect_all probes whether the cache is active: it takes the exclusive
\* lease for a moment when the lease file exists, and leaves an active cache
\* alone.
Probe(m) ==
  /\ mpc[m] = "idle"
  /\ Begin
  /\ \/ /\ ino["lease"] # 0 /\ ExclusiveFree("lease", ino["lease"])
        /\ mfd' = [mfd EXCEPT ![m] = ino["lease"]]
        /\ mpc' = [mpc EXCEPT ![m] = "probe"]
     \/ /\ ino["lease"] = 0
        /\ mpc' = [mpc EXCEPT ![m] = "select"]
        /\ UNCHANGED mfd
  /\ UNCHANGED <<files, facts, ino, service, reasons, at>>

EndProbe(m) ==
  /\ mpc[m] = "probe"
  /\ mfd' = [mfd EXCEPT ![m] = 0]
  /\ mpc' = [mpc EXCEPT ![m] = "select"]
  /\ UNCHANGED <<files, facts, ino, service, reasons, at, starts>>

\* select_prune_candidates: the requested criteria that apply, or else the
\* size limit.
Select(m) ==
  /\ mpc[m] = "select" /\ SafeToPrune
  /\ \E R \in SUBSET {r \in Reasons \ {"lru"} : Applies(r)} :
       reasons' = [reasons EXCEPT ![m] = IF R = {} THEN {"lru"} ELSE R]
  /\ mpc' = [mpc EXCEPT ![m] = "lease"]
  /\ UNCHANGED <<files, facts, ino, service, mfd, at, starts>>

\* The cache is kept: not selected, or unsafe.
Keep(m) ==
  /\ mpc[m] = "select"
  /\ Leave(m)
  /\ UNCHANGED <<files, facts, ino, service, starts>>

\* prune takes the exclusive lease, or skips the cache.
TakePruneLease(m) ==
  /\ mpc[m] = "lease"
  /\ \E i \in Inodes :
       /\ OpenLockFile("lease", i)
       /\ IF ExclusiveFree("lease", i)
          THEN /\ mfd' = [mfd EXCEPT ![m] = i]
               /\ mpc' = [mpc EXCEPT ![m] = "inspect"]
               /\ UNCHANGED <<reasons, at>>
          ELSE Leave(m)
  /\ UNCHANGED <<files, facts, service, starts>>

\* A prune that trusts its first inspection about missing repositories.
RevalidatedAge(R) ==
  LET compatible == R \ {r \in {"incompatible"} : ~Applies(r)}
  IN  compatible \ {r \in {"older"} : HasAge /\ ~old}

\* prune_observing, after the inspection under the lease: each reason that no
\* longer applies is dropped, in this order; the size limit is not reconsidered.
Revalidated(R) ==
  LET compatible == R \ {r \in {"incompatible"} : ~Applies(r)}
      aged       == compatible \ {r \in {"older"} : HasAge /\ ~old}
  IN  IF aged = {"missing"} /\ ~Applies("missing") THEN {} ELSE aged

\* The removal begins with the first artifact.
StartRemoval(m) ==
  /\ mpc[m] = "inspect" /\ SafeToPrune /\ Revalidated(reasons[m]) # {}
  /\ reasons' = [reasons EXCEPT ![m] = Revalidated(@)]
  /\ at' = [at EXCEPT ![m] = 1]
  /\ mpc' = [mpc EXCEPT ![m] = "remove"]
  /\ UNCHANGED <<files, facts, ino, service, mfd, starts>>

\* Kept after all: no reason is left, the cache is unsafe, or the command was
\* cancelled.
KeepAfterAll(m) ==
  /\ mpc[m] = "inspect"
  /\ Leave(m)
  /\ UNCHANGED <<files, facts, ino, service, starts>>

\* A prune that drops its lease once the database file is gone.
RemoveArtifactUnleased(m) ==
  /\ mpc[m] = "remove"
  /\ LET a == Artifacts[at[m]] IN
       /\ db' = IF a = "db" THEN 0 ELSE db
       /\ wal' = IF a = "wal" THEN 0 ELSE wal
       /\ torn' = (torn \/ (a = "wal" /\ db # 0 /\ wal = db))
       /\ corrupt' = (corrupt /\ a # "db")
       /\ ino' = [k \in Locks |-> IF k = a THEN 0 ELSE ino[k]]
  /\ IF at[m] = Len(Artifacts)
     THEN Leave(m)
     ELSE /\ at' = [at EXCEPT ![m] = @ + 1]
          /\ mfd' = [mfd EXCEPT ![m] = 0]
          /\ UNCHANGED <<mpc, reasons>>
  /\ UNCHANGED <<facts, service, starts>>

\* remove_managed_artifacts removes one file after the other.
RemoveArtifact(m) ==
  /\ mpc[m] = "remove"
  /\ LET a == Artifacts[at[m]] IN
       /\ db' = IF a = "db" THEN 0 ELSE db
       /\ wal' = IF a = "wal" THEN 0 ELSE wal
       /\ torn' = (torn \/ (a = "wal" /\ db # 0 /\ wal = db))
       /\ corrupt' = (corrupt /\ a # "db")
       /\ ino' = [k \in Locks |-> IF k = a THEN 0 ELSE ino[k]]
  /\ IF at[m] = Len(Artifacts)
     THEN Leave(m)
     ELSE at' = [at EXCEPT ![m] = @ + 1] /\ UNCHANGED <<mpc, mfd, reasons>>
  /\ UNCHANGED <<facts, service, starts>>

\* compact_one: the exclusive lease, then VACUUM of an eligible database.
StartCompact(m) ==
  /\ mpc[m] = "idle" /\ SafeToPrune /\ db # 0
  /\ Begin
  /\ \E i \in Inodes :
       /\ OpenLockFile("lease", i)
       /\ ExclusiveFree("lease", i)
       /\ mfd' = [mfd EXCEPT ![m] = i]
  /\ mpc' = [mpc EXCEPT ![m] = "vacuum"]
  /\ UNCHANGED <<files, facts, service, reasons, at>>

\* The rewritten database is committed and the WAL is folded into it.
EndCompact(m) ==
  /\ mpc[m] = "vacuum"
  /\ wal' = 0
  /\ Leave(m)
  /\ UNCHANGED <<db, torn, corrupt, facts, ino, service, starts>>

\* A removal fails, a VACUUM is interrupted, or the process crashes.
AbandonMaintenance(m) ==
  /\ mpc[m] # "idle"
  /\ Leave(m)
  /\ UNCHANGED <<files, facts, ino, service, starts>>

-----------------------------------------------------------------------------
(* The environment.                                                        *)

\* Time passes, the repository is moved away or back, a disk error happens.
Environment ==
  /\ \/ old' = TRUE /\ UNCHANGED <<missing, corrupt>>
     \/ missing' = ~missing /\ UNCHANGED <<old, corrupt>>
     \/ db # 0 /\ corrupt' = TRUE /\ UNCHANGED <<old, missing>>
  /\ UNCHANGED <<db, wal, torn, obsolete, ino, service, maint, starts>>

-----------------------------------------------------------------------------
Opening(p) ==
  TakeLease(p) \/ OpenInit(p) \/ TakeInit(p) \/ OpenExisting(p) \/ OpenFresh(p)
    \/ RemoveCorrupt(p) \/ RemoveCorruptWal(p)

ServiceStep(p) ==
  StartService(p) \/ Opening(p) \/ AbandonService(p) \/ CloseService(p) \/ Commit(p)
    \/ OpenLeader(p) \/ TryLeader(p) \/ DropLeader(p)

Maintaining(m) ==
  EndProbe(m) \/ Select(m) \/ Keep(m) \/ TakePruneLease(m) \/ StartRemoval(m)
    \/ KeepAfterAll(m) \/ RemoveArtifact(m) \/ EndCompact(m)

MaintenanceStep(m) ==
  Probe(m) \/ Maintaining(m) \/ StartCompact(m) \/ AbandonMaintenance(m)

Next ==
  \/ \E p \in Services : ServiceStep(p)
  \/ \E m \in Maintainers : MaintenanceStep(m)
  \/ Environment

Spec == Init /\ [][Next]_vars

\* A running process goes on; it need not start, close, lead or commit.
FairSpec ==
  /\ Spec
  /\ \A p \in Services : WF_vars(Opening(p))
  /\ \A m \in Maintainers : WF_vars(Maintaining(m))

-----------------------------------------------------------------------------
(* Properties.                                                             *)

\* A database in use is neither rewritten nor taken away: no prune removes and
\* no compaction rewrites while a service holds the lease, whichever inode it
\* locked and whenever it opened it; only the rebuild of a corrupt database can
\* replace it (docs: the lease file is never unlinked).
InUseIsKept ==
  \A p \in Services :
    /\ "lease" \in held[p] => \A m \in Maintainers : mpc[m] \notin {"remove", "vacuum"}
    /\ pc[p] = "using" => using[p] = db \/ stale[p]

\* There is one leader and one initializer of a cache, although pruning
\* unlinks their lock files (coordination.rs).
OneOwner ==
  \A k \in {"init", "leader"} : \A p, q \in Services :
    k \in held[p] /\ k \in held[q] => p = q

\* A prune removes a database or its WAL only for a reason that applied when it
\* held the lease, except the size limit, which it does not reconsider (prune_observing).
PrunedForAReason ==
  [][\A m \in Maintainers :
       mpc[m] = "inspect" /\ mpc'[m] = "remove" /\ HasAge
         => \E r \in reasons[m] : Applies(r)]_vars

\* Whatever is opened after a crash in the middle of a prune or of a rebuild is
\* a whole database: one that lost its WAL while it stayed is never used
\* (docs: committed WAL state survives process failure).
WholeDatabase ==
  /\ \A p \in Services : pc[p] = "using" /\ using[p] = db => ~torn
  /\ db # 0 => wal \in {0, db}

\* A service that waits for the lease or for the initialization lock gets it:
\* every holder releases it, also by crashing.
OpenEnds ==
  \A p \in Services :
    (pc[p] # "idle") ~> (pc[p] \in {"idle", "using"})
=============================================================================
