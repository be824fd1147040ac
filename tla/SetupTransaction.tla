-------------------------- MODULE SetupTransaction --------------------------
(***************************************************************************)
(* `leantoken setup`, `remove` and `runtime prune`: several client         *)
(* configurations, the discovery skills and a private runtime are changed  *)
(* as one transaction with a recovery journal (src/setup/execution.rs,     *)
(* transaction.rs, apply.rs, plan.rs, runtime.rs, runtime/lease.rs).       *)
(*                                                                         *)
(* setup.lock serialises the runs that change anything, so one run is      *)
(* active at a time; it may be killed at any step, its writes may fail,    *)
(* and users edit the same files without the lock.  A dry run changes      *)
(* nothing and is left out.  Processes that run from an artifact hold its  *)
(* shared lease; who removes it needs the exclusive one.  The lock files   *)
(* of the leases are never removed, so a lease outlives its artifact.      *)
(*                                                                         *)
(* Where an error merely makes the run return, its effect is that of a     *)
(* kill, and Crash stands for both.  Errors the run reacts to are          *)
(* outcomes of the actions: "fail" changes nothing, "unsynced" has         *)
(* replaced the file and then failed to sync its directory.                *)
(***************************************************************************)
EXTENDS Naturals, FiniteSets, FiniteSetsExt

CONSTANTS
  NumClients,   \* client configurations, in the order they are edited
  NumSkills,    \* discovery skill files, edited after the clients
  SkillOf,      \* the skill file a client reads: SetupClient::discovery_path
  Runtimes,     \* private runtime artifacts (version and digest)
  Servers,      \* processes started from a private runtime
  Package,      \* the launcher of a registration without a private runtime
  None,         \* no registration
  UnsyncedCommit, \* may the directory sync of the commit record fail
  MaxEdits,     \* bound on user edits
  MaxFaults     \* bound on kills and I/O errors

Clients == 1 .. NumClients
Skills == NumClients + 1 .. NumClients + NumSkills
Paths == Clients \cup Skills

ASSUME ConstantsAssumption ==
  /\ NumClients \in Nat /\ NumSkills \in Nat
  /\ MaxEdits \in Nat /\ MaxFaults \in Nat
  /\ SkillOf \in [Clients -> Skills]
  /\ None \notin Runtimes /\ Package \notin Runtimes /\ Package # None
  /\ UnsyncedCommit \in BOOLEAN

VARIABLES
  file,      \* the content of each path
  journal,   \* setup-transaction-v1.json
  runtimes,  \* the artifacts installed under the runtime root
  server,    \* processes that run from an artifact
  pc,        \* where the run that holds setup.lock is, or "idle"
  run,       \* what that run has in memory
  faults,    \* kills and I/O errors so far
  edits,     \* ghost: the last user edit, and the last one of each path
  raced,     \* ghost: paths whose last user edit fell between check and write
  side,      \* ghost: what the last transaction left on each of its paths
  touched    \* ghost: a user changed a registration

vars == <<file, journal, runtimes, server, pc, run, faults, edits, raced, side, touched>>

-----------------------------------------------------------------------------
(* A file: whether it exists, the user's own part of it, the launcher its  *)
(* LeanToken entry names.  A skill whose reg is None lacks the ownership  *)
(* marker.                                                                 *)
Launchers == Runtimes \cup {Package}
Content == [there : BOOLEAN, user : Nat, reg : Launchers \cup {None}]
Absent == [there |-> FALSE, user |-> 0, reg |-> None]

(* A process: its artifact, and whether the directory it noted still exists *)
Off == [at |-> "off", runtime |-> None, intact |-> FALSE]

NoJournal == [state |-> "none", original |-> <<>>, updated |-> <<>>]

NoRun == [op |-> "none", selected |-> {}, want |-> None,
          original |-> [p \in Paths |-> Absent],
          updated |-> [p \in Paths |-> Absent],
          planned |-> {}, todo |-> {}, receipt |-> FALSE, failed |-> FALSE]

Init ==
  /\ file = [p \in Paths |-> Absent]
  /\ journal = NoJournal
  /\ runtimes = {}
  /\ server = [s \in Servers |-> Off]
  /\ pc = "idle" /\ run = NoRun
  /\ faults = 0
  /\ edits = [last |-> 0, of |-> [p \in Paths |-> 0]]
  /\ raced = {}
  /\ side = [p \in Paths |-> "none"]
  /\ touched = FALSE

ghosts == <<edits, raced, touched>>

(* What a step of the run leaves alone unless it removes an artifact        *)
others == <<server, ghosts>>

-----------------------------------------------------------------------------
(* resolve_plan                                                            *)

(* resolve_client_edit: only the LeanToken entry of a configuration changes *)
ClientUpdate(op, want, c) ==
  CASE op = "setup" -> [there |-> TRUE, user |-> c.user, reg |-> want]
    [] op = "remove" /\ c.reg # None -> [c EXCEPT !.reg = None]
    [] OTHER -> c

(* resolve_discovery_edits: an owned skill is replaced or deleted whole     *)
SkillUpdate(op, want, s) ==
  CASE op = "setup" -> [there |-> TRUE, user |-> 0, reg |-> want]
    [] op = "remove" /\ s.reg # None -> Absent
    [] OTHER -> s

SkillsOf(clients) == {SkillOf[c] : c \in clients}

Unselected(selected, f) == {c \in Clients \ selected : f[c].reg # None}

(* Mutant: a removal deletes a skill that another registered client reads   *)
WrittenSkillsOfOthers(op, selected, f) ==
  IF op # "setup" /\ Unselected(selected, f) = {} THEN Skills ELSE SkillsOf(selected)

(* The skills the run writes, and those it cleans up                        *)
WrittenSkills(op, selected, f) ==
  LET remaining == SkillsOf(Unselected(selected, f))
  IN  CASE op = "setup" -> SkillsOf(selected)
        [] op # "setup" /\ remaining = {} -> Skills
        [] OTHER -> SkillsOf(selected) \ remaining

CleanedSkills(op, selected, f) ==
  IF op = "setup"
    THEN {s \in Skills \ SkillsOf(selected \cup Unselected(selected, f)) :
            f[s].reg # None}
    ELSE {}

Updated(op, want, selected, f) ==
  [p \in Paths |->
    CASE p \in selected -> ClientUpdate(op, want, f[p])
      [] p \in WrittenSkills(op, selected, f) -> SkillUpdate(op, want, f[p])
      [] p \in CleanedSkills(op, selected, f) -> SkillUpdate("remove", want, f[p])
      [] OTHER -> f[p]]

(* The entries of the transaction: edits that have an updated content       *)
Changed(r) == {p \in r.planned : r.updated[p] # r.original[p]}

-----------------------------------------------------------------------------
(* Users, who do not take the setup lock                                   *)

InWindow(p) ==
  \/ pc \in {"applyWrite", "recoverWrite"} /\ p = Min(run.todo)
  \/ pc = "rollbackWrite" /\ p = Max(run.todo)

UserWrite(p, content, last) ==
  /\ file' = [file EXCEPT ![p] = content]
  /\ edits' = [last |-> last,
               of |-> [edits.of EXCEPT ![p] = content.user]]
  /\ raced' = IF InWindow(p) THEN raced \cup {p} ELSE raced \ {p}
  /\ touched' = (touched \/ content.reg # file[p].reg)
  /\ UNCHANGED <<journal, runtimes, server, pc, run, faults, side>>

(* The entry a user leaves, removes, or copies into a configuration: its    *)
(* launcher is installed, but not by the run that is still under way, whose *)
(* rollback would not look for it                                           *)
Nameable(p) ==
  LET fresh == IF run.receipt THEN {run.want} ELSE {}
  IN  {file[p].reg, None}
        \cup IF p \in Clients THEN {Package} \cup (runtimes \ fresh) ELSE {}

UserEdit(p) ==
  /\ edits.last < MaxEdits
  /\ \E reg \in Nameable(p) :
       UserWrite(p, [there |-> TRUE, user |-> edits.last + 1, reg |-> reg],
                 edits.last + 1)

UserDelete(p) ==
  /\ edits.last < MaxEdits /\ file[p].there
  /\ UserWrite(p, Absent, edits.last + 1)

(* The user puts back what a blocked recovery asks for: this takes an edit   *)
(* back and is not counted as one                                           *)
UserRepair(p) ==
  /\ journal.state = "pending" /\ p \in DOMAIN journal.original
  /\ file[p] \notin {journal.original[p], journal.updated[p]}
  /\ UserWrite(p, journal.original[p], edits.last)

-----------------------------------------------------------------------------
(* run_prepared and prune_runtimes_at                                      *)

Goto(label) == pc' = label

Exit == Goto("idle") /\ run' = NoRun

Fault == faults < MaxFaults /\ faults' = faults + 1
NoFault == UNCHANGED faults

(* acquire_setup_lock, which the end of the run and its death release       *)
Invoke ==
  /\ pc = "idle"
  /\ \E op \in {"setup", "remove", "prune"}, want \in Launchers,
        selected \in SUBSET Clients :
       /\ op # "prune" => selected # {}
       /\ op = "prune" => selected = {}
       /\ run' = [NoRun EXCEPT !.op = op, !.selected = selected,
                    !.want = IF op = "setup" THEN want ELSE None]
  /\ Goto("recover") /\ NoFault
  /\ UNCHANGED <<file, journal, runtimes, side, others>>

Crash ==
  /\ pc # "idle" /\ Fault
  /\ Exit
  /\ UNCHANGED <<file, journal, runtimes, side, others>>

(* recover_interrupted_transaction                                          *)
Recover ==
  /\ pc = "recover"
  /\ \/ /\ journal.state = "none"
        /\ Goto(IF run.op = "prune" THEN "inventory" ELSE "resolve")
        /\ UNCHANGED run
     \/ /\ journal.state = "committed"
        /\ Goto("forget") /\ UNCHANGED run
     \/ /\ journal.state = "pending"
        /\ Goto("recovering")
        /\ run' = [run EXCEPT !.todo = DOMAIN journal.original]
  /\ NoFault /\ UNCHANGED <<file, journal, runtimes, side, others>>

(* Mutant: what is not the original is taken for the transaction's own      *)
RecoverCheckTrusting ==
  /\ pc = "recovering" /\ run.todo # {}
  /\ LET p == Min(run.todo)
     IN  \/ /\ file[p] = journal.original[p]
            /\ run' = [run EXCEPT !.todo = @ \ {p}]
            /\ side' = [side EXCEPT ![p] = "old"]
            /\ UNCHANGED pc
         \/ /\ file[p] # journal.original[p]
            /\ Goto("recoverWrite") /\ UNCHANGED <<run, side>>
  /\ NoFault /\ UNCHANGED <<file, journal, runtimes, others>>

(* Mutant: only the original is accepted                                    *)
RecoverCheckStrict ==
  /\ pc = "recovering" /\ run.todo # {}
  /\ LET p == Min(run.todo)
     IN  \/ /\ file[p] = journal.original[p]
            /\ run' = [run EXCEPT !.todo = @ \ {p}]
            /\ side' = [side EXCEPT ![p] = "old"]
            /\ UNCHANGED pc
         \/ /\ file[p] # journal.original[p]
            /\ Exit /\ UNCHANGED side
  /\ NoFault /\ UNCHANGED <<file, journal, runtimes, others>>

(* restore_path for the next entry of the journal: its read and comparisons *)
RecoverCheck ==
  /\ pc = "recovering" /\ run.todo # {}
  /\ LET p == Min(run.todo)
     IN  \/ /\ file[p] = journal.original[p]
            /\ run' = [run EXCEPT !.todo = @ \ {p}]
            /\ side' = [side EXCEPT ![p] = "old"]
            /\ UNCHANGED pc
         \/ /\ file[p] \notin {journal.original[p], journal.updated[p]}
            /\ Exit /\ UNCHANGED side
         \/ /\ file[p] # journal.original[p] /\ file[p] = journal.updated[p]
            /\ Goto("recoverWrite") /\ UNCHANGED <<run, side>>
  /\ NoFault /\ UNCHANGED <<file, journal, runtimes, others>>

RecoverWrite ==
  /\ pc = "recoverWrite"
  /\ LET p == Min(run.todo)
     IN  /\ file' = [file EXCEPT ![p] = journal.original[p]]
         /\ side' = [side EXCEPT ![p] = "old"]
         /\ run' = [run EXCEPT !.todo = @ \ {p}]
  /\ Goto("recovering")
  /\ NoFault /\ UNCHANGED <<journal, runtimes, others>>

RecoverDone ==
  /\ pc = "recovering" /\ run.todo = {}
  /\ Goto("forget")
  /\ NoFault /\ UNCHANGED <<file, journal, runtimes, run, side, others>>

(* remove_journal                                                           *)
Forget ==
  /\ pc = "forget"
  /\ journal' = NoJournal
  /\ Goto(IF run.op = "prune" THEN "inventory" ELSE "resolve")
  /\ NoFault /\ UNCHANGED <<file, runtimes, run, side, others>>

(* The originals are read, the plan is built; an unowned skill is refused   *)
Resolve ==
  /\ pc = "resolve"
  /\ LET written == WrittenSkills(run.op, run.selected, file)
         refused == /\ run.op = "setup"
                    /\ \E s \in written : file[s].there /\ file[s].reg = None
     IN  IF refused
           THEN Exit
           ELSE /\ run' = [run EXCEPT
                     !.original = file,
                     !.updated = Updated(run.op, run.want, run.selected, file),
                     !.planned = run.selected \cup written
                                   \cup CleanedSkills(run.op, run.selected, file)]
                /\ Goto("confirm")
  /\ NoFault /\ UNCHANGED <<file, journal, runtimes, side, others>>

Confirm ==
  /\ pc = "confirm"
  /\ Goto(IF run.want \in Runtimes THEN "install" ELSE "preflight")
  /\ NoFault /\ UNCHANGED <<file, journal, runtimes, run, side, others>>

Decline ==
  /\ pc = "confirm"
  /\ Exit
  /\ NoFault /\ UNCHANGED <<file, journal, runtimes, side, others>>

-----------------------------------------------------------------------------
(* apply_plan                                                              *)

InstallRuntime ==
  /\ pc = "install"
  /\ runtimes' = runtimes \cup {run.want}
  /\ run' = [run EXCEPT !.receipt = run.want \notin runtimes]
  /\ Goto("preflight")
  /\ NoFault /\ UNCHANGED <<file, journal, side, others>>

(* preflight_configuration_snapshots of every client, preflight_edits,      *)
(* preflight_discovery                                                      *)
Preflight ==
  /\ pc = "preflight"
  /\ Goto(IF \A p \in Clients \cup run.planned : file[p] = run.original[p]
            THEN "begin" ELSE "uninstall")
  /\ NoFault /\ UNCHANGED <<file, journal, runtimes, run, side, others>>

(* The lease of an artifact: shared by the processes that run from it,      *)
(* exclusive while it is removed                                            *)
Leased(r) == \E s \in Servers : /\ server[s].runtime = r
                                /\ server[s].at \in {"leased", "serving"}

(* remove_runtime_directory: who noted its identity will not find it again  *)
RemoveRuntime(r) ==
  /\ runtimes' = runtimes \ {r}
  /\ server' = [s \in Servers |-> IF server[s].runtime = r
                                   THEN [server[s] EXCEPT !.intact = FALSE]
                                   ELSE server[s]]

(* rollback_installed_runtime, which an active lease refuses                *)
RollbackRuntime ==
  IF run.receipt /\ ~Leased(run.want)
    THEN RemoveRuntime(run.want)
    ELSE UNCHANGED <<runtimes, server>>

(* rollback_runtime_message, when no file has been written                  *)
Uninstall ==
  /\ pc = "uninstall"
  /\ RollbackRuntime
  /\ Exit
  /\ NoFault /\ UNCHANGED <<file, journal, side, ghosts>>

JournalOf(state) ==
  [state |-> state,
   original |-> [p \in Changed(run) |-> run.original[p]],
   updated |-> [p \in Changed(run) |-> run.updated[p]]]

(* begin_setup_transaction                                                  *)
BeginTransaction ==
  /\ pc = "begin"
  /\ \/ /\ Changed(run) = {} /\ NoFault
        /\ Goto("apply") /\ run' = [run EXCEPT !.todo = run.planned]
        /\ UNCHANGED <<journal, side>>
     \/ /\ Changed(run) # {} /\ journal.state = "none"
        /\ journal' = JournalOf("pending")
        /\ side' = [p \in Paths |-> IF p \in Changed(run) THEN "old" ELSE "none"]
        /\ \/ NoFault /\ Goto("apply") /\ run' = [run EXCEPT !.todo = run.planned]
           \/ Fault /\ Goto("uninstall") /\ UNCHANGED run
     \/ /\ Changed(run) # {} /\ Fault
        /\ Goto("uninstall") /\ UNCHANGED <<journal, run, side>>
  /\ UNCHANGED <<file, runtimes, others>>

(* Mutant: the edit that failed is not rolled back                          *)
StartRollbackOfApplied(p) ==
  /\ Goto("rollback")
  /\ run' = [run EXCEPT !.todo = {q \in Changed(run) : q < p}]

(* rollback_setup of the edits attempted up to path p                       *)
StartRollback(p) ==
  /\ Goto("rollback")
  /\ run' = [run EXCEPT !.todo = {q \in Changed(run) : q <= p}]

(* apply_edit, apply_discovery_edit: the comparison with the original       *)
ApplyCheck ==
  /\ pc = "apply" /\ run.todo # {}
  /\ LET p == Min(run.todo)
     IN  \/ /\ file[p] = run.original[p] /\ p \in Changed(run)
            /\ Goto("applyWrite") /\ UNCHANGED run /\ NoFault
         \/ /\ file[p] = run.original[p] /\ p \notin Changed(run)
            /\ run' = [run EXCEPT !.todo = @ \ {p}]
            /\ UNCHANGED pc /\ NoFault
         \/ file[p] # run.original[p] /\ StartRollback(p) /\ NoFault
         \/ file[p] = run.original[p] /\ StartRollback(p) /\ Fault
  /\ UNCHANGED <<file, journal, runtimes, side, others>>

(* write_if_changed, or the removal of a skill                              *)
ApplyWrite ==
  /\ pc = "applyWrite"
  /\ LET p == Min(run.todo)
         written == /\ file' = [file EXCEPT ![p] = run.updated[p]]
                    /\ side' = [side EXCEPT ![p] = "new"]
     IN  \/ /\ written /\ NoFault
            /\ Goto("apply") /\ run' = [run EXCEPT !.todo = @ \ {p}]
         \/ written /\ Fault /\ StartRollback(p)
         \/ Fault /\ StartRollback(p) /\ UNCHANGED <<file, side>>
  /\ UNCHANGED <<journal, runtimes, others>>

(* SetupTransaction::commit: the journal is replaced by a committed one     *)
Commit ==
  /\ pc = "apply" /\ run.todo = {}
  /\ \/ /\ Changed(run) = {}
        /\ Exit /\ NoFault /\ UNCHANGED journal
     \/ /\ Changed(run) # {}
        /\ journal' = JournalOf("committed")
        /\ Goto("cleanup") /\ UNCHANGED run /\ NoFault
     \/ /\ Changed(run) # {} /\ UnsyncedCommit
        /\ journal' = JournalOf("committed")
        /\ StartRollback(Max(Paths)) /\ Fault
     \/ /\ Changed(run) # {}
        /\ StartRollback(Max(Paths)) /\ Fault /\ UNCHANGED journal
  /\ UNCHANGED <<file, runtimes, side, others>>

(* The removal of a committed journal may fail: the next run removes it     *)
Cleanup ==
  /\ pc = "cleanup"
  /\ \/ journal' = NoJournal /\ NoFault
     \/ UNCHANGED journal /\ Fault
  /\ Exit
  /\ UNCHANGED <<file, runtimes, side, others>>

(* rollback_setup: newest edit first; a failure is kept and the rest goes on *)
RollbackCheck ==
  /\ pc = "rollback" /\ run.todo # {}
  /\ LET p == Max(run.todo)
     IN  \/ /\ file[p] = run.original[p]
            /\ run' = [run EXCEPT !.todo = @ \ {p}]
            /\ side' = [side EXCEPT ![p] = "old"]
            /\ UNCHANGED pc /\ NoFault
         \/ /\ file[p] \notin {run.original[p], run.updated[p]}
            /\ run' = [run EXCEPT !.todo = @ \ {p}, !.failed = TRUE]
            /\ UNCHANGED <<pc, side>> /\ NoFault
         \/ /\ file[p] # run.original[p] /\ file[p] = run.updated[p]
            /\ Goto("rollbackWrite") /\ UNCHANGED <<run, side>> /\ NoFault
         \/ /\ run' = [run EXCEPT !.todo = @ \ {p}, !.failed = TRUE]
            /\ UNCHANGED <<pc, side>> /\ Fault
  /\ UNCHANGED <<file, journal, runtimes, others>>

RollbackWrite ==
  /\ pc = "rollbackWrite"
  /\ LET p == Max(run.todo)
         restored == /\ file' = [file EXCEPT ![p] = run.original[p]]
                     /\ side' = [side EXCEPT ![p] = "old"]
     IN  \/ /\ restored /\ NoFault
            /\ run' = [run EXCEPT !.todo = @ \ {p}]
         \/ /\ restored /\ Fault
            /\ run' = [run EXCEPT !.todo = @ \ {p}, !.failed = TRUE]
         \/ /\ UNCHANGED <<file, side>> /\ Fault
            /\ run' = [run EXCEPT !.todo = @ \ {p}, !.failed = TRUE]
  /\ Goto("rollback")
  /\ UNCHANGED <<journal, runtimes, others>>

(* Mutant: the runtime is removed although a configuration still names it   *)
RollbackDoneRegardless ==
  /\ pc = "rollback" /\ run.todo = {}
  /\ RollbackRuntime
  /\ IF \/ run.failed \/ Changed(run) = {}
        \/ run.receipt /\ Leased(run.want)
       THEN Exit ELSE Goto("abandon") /\ UNCHANGED run
  /\ NoFault /\ UNCHANGED <<file, journal, side, ghosts>>

(* The journal and the runtime are kept after a failure; otherwise          *)
(* rollback_installed_runtime, whose failure keeps the journal too, then    *)
(* the commit of the empty transaction                                      *)
RollbackDone ==
  /\ pc = "rollback" /\ run.todo = {}
  /\ \/ /\ run.failed
        /\ Exit /\ UNCHANGED <<runtimes, server>>
     \/ /\ ~run.failed
        /\ RollbackRuntime
        /\ IF Changed(run) = {} \/ (run.receipt /\ Leased(run.want))
             THEN Exit ELSE Goto("abandon") /\ UNCHANGED run
  /\ NoFault /\ UNCHANGED <<file, journal, side, ghosts>>

Abandon ==
  /\ pc = "abandon"
  /\ journal' = JournalOf("committed")
  /\ Goto("cleanup")
  /\ NoFault /\ UNCHANGED <<file, runtimes, run, side, others>>

-----------------------------------------------------------------------------
(* prune_runtimes_at                                                       *)

Inventory ==
  /\ pc = "inventory"
  /\ run' = [run EXCEPT !.original = file]
  /\ Goto("prune")
  /\ NoFault /\ UNCHANGED <<file, journal, runtimes, side, others>>

(* try_acquire_runtime_prune_lease of an unreferenced artifact.  Retention  *)
(* and the lease probe of the inventory decide which are left out.          *)
PruneLease ==
  /\ pc = "prune"
  /\ \E r \in runtimes :
       /\ \A c \in Clients : run.original[c].reg # r
       /\ ~Leased(r)
       /\ run' = [run EXCEPT !.want = r]
  /\ Goto("pruneLeased")
  /\ NoFault /\ UNCHANGED <<file, journal, runtimes, side, others>>

(* The artifact is removed if no configuration changed since the inventory, *)
(* and the lease released                                                   *)
PruneRemove ==
  /\ pc = "pruneLeased"
  /\ IF \A c \in Clients : file[c] = run.original[c]
       THEN /\ RemoveRuntime(run.want)
            /\ Goto("prune")
            /\ run' = [run EXCEPT !.want = None]
       ELSE Exit /\ UNCHANGED <<runtimes, server>>
  /\ NoFault /\ UNCHANGED <<file, journal, side, ghosts>>

PruneDone ==
  /\ pc = "prune"
  /\ Exit
  /\ NoFault /\ UNCHANGED <<file, journal, runtimes, side, others>>

-----------------------------------------------------------------------------
(* Processes started from an artifact: acquire_executable_runtime_lease    *)

(* The directory of the executable is identified, its digest computed       *)
ServerIdentify(s) ==
  /\ server[s].at = "off"
  /\ \E r \in runtimes :
       server' = [server EXCEPT ![s] =
                    [at |-> "starting", runtime |-> r, intact |-> TRUE]]
  /\ UNCHANGED <<file, journal, runtimes, pc, run, faults, side, ghosts>>

(* lock_shared waits for a removal that is under way                        *)
ServerLock(s) ==
  /\ server[s].at = "starting"
  /\ ~(pc = "pruneLeased" /\ run.want = server[s].runtime)
  /\ server' = [server EXCEPT ![s].at = "leased"]
  /\ UNCHANGED <<file, journal, runtimes, pc, run, faults, side, ghosts>>

(* Mutant: the artifact is not looked at again under the lease              *)
ServerServeUnchecked(s) ==
  /\ server[s].at = "leased"
  /\ server' = [server EXCEPT ![s].at = "serving"]
  /\ UNCHANGED <<file, journal, runtimes, pc, run, faults, side, ghosts>>

(* The directory must be the one identified before                          *)
ServerServe(s) ==
  /\ server[s].at = "leased" /\ server[s].intact
  /\ server' = [server EXCEPT ![s].at = "serving"]
  /\ UNCHANGED <<file, journal, runtimes, pc, run, faults, side, ghosts>>

(* The process ends, or refused to start; its lease ends with it            *)
ServerEnd(s) ==
  /\ server[s].at # "off"
  /\ server' = [server EXCEPT ![s] = Off]
  /\ UNCHANGED <<file, journal, runtimes, pc, run, faults, side, ghosts>>

Server(s) ==
  ServerIdentify(s) \/ ServerLock(s) \/ ServerServe(s) \/ ServerEnd(s)

-----------------------------------------------------------------------------
Run ==
  \/ Recover \/ RecoverCheck \/ RecoverWrite \/ RecoverDone \/ Forget
  \/ Resolve \/ Confirm \/ InstallRuntime \/ Preflight \/ Uninstall
  \/ BeginTransaction \/ ApplyCheck \/ ApplyWrite \/ Commit \/ Cleanup
  \/ RollbackCheck \/ RollbackWrite \/ RollbackDone \/ Abandon
  \/ Inventory \/ PruneLease \/ PruneRemove \/ PruneDone

User == \E p \in Paths : UserEdit(p) \/ UserDelete(p) \/ UserRepair(p)

Next == Run \/ Invoke \/ Decline \/ Crash \/ User \/ \E s \in Servers : Server(s)

Spec == Init /\ [][Next]_vars

(* A run is not suspended for ever, and setup is invoked again: what        *)
(* recovery after an interruption presumes.                                 *)
FairSpec == Spec /\ WF_vars(Run) /\ WF_vars(Invoke)

-----------------------------------------------------------------------------
(* Properties                                                              *)

Labels == {"idle", "recover", "recovering", "recoverWrite", "forget", "resolve",
           "confirm", "install", "preflight", "uninstall", "begin", "apply",
           "applyWrite", "cleanup", "rollback", "rollbackWrite", "abandon",
           "inventory", "prune", "pruneLeased"}

EntriesOf(j) == DOMAIN j.original

(* What a run may have in memory                                            *)
RunRecords ==
  [op : {"none", "setup", "remove", "prune"}, selected : SUBSET Clients,
   want : Launchers \cup {None}, original : [Paths -> Content],
   updated : [Paths -> Content], planned : SUBSET Paths, todo : SUBSET Paths,
   receipt : BOOLEAN, failed : BOOLEAN]

(* Every variable has its type; a run restores paths of the transaction it  *)
(* is in, and the step that writes a path has one to write.                 *)
TypeOK ==
  /\ file \in [Paths -> Content]
  /\ journal.state \in {"none", "pending", "committed"}
  /\ EntriesOf(journal) \subseteq Paths /\ EntriesOf(journal) = DOMAIN journal.updated
  /\ \A p \in EntriesOf(journal) : journal.original[p] \in Content
                                   /\ journal.updated[p] \in Content
  /\ runtimes \subseteq Runtimes
  /\ server \in [Servers -> [at : {"off", "starting", "leased", "serving"},
                              runtime : Runtimes \cup {None}, intact : BOOLEAN]]
  /\ pc \in Labels
  /\ run \in RunRecords
  /\ pc = "install" => run.want \in Runtimes
  /\ pc \in {"recovering", "recoverWrite"} => run.todo \subseteq EntriesOf(journal)
  /\ pc \in {"applyWrite", "recoverWrite", "rollbackWrite"} => run.todo # {}
  /\ side \in [Paths -> {"none", "old", "new"}]
  /\ faults \in 0 .. MaxFaults /\ edits.last \in 0 .. MaxEdits
  /\ edits.of \in [Paths -> Nat]

(* When no run is active and no journal is left, the last transaction has   *)
(* replaced all of its paths or none of them (apply_plan, rollback_setup,   *)
(* recover_interrupted_transaction).                                        *)
AllOrNothing ==
  pc = "idle" /\ journal.state = "none" =>
    \A p, q \in Paths : {side[p], side[q]} # {"old", "new"}

(* Every registration, and every registration a recovery would put back,    *)
(* names a runtime that is installed: neither a rollback nor pruning        *)
(* removes one that is referenced (rollback_installed_runtime,              *)
(* prune_runtimes_at).                                                      *)
RegistrationsResolve ==
  /\ \A c \in Clients : file[c].reg \in runtimes \cup {Package, None}
  /\ journal.state = "pending" =>
       \A p \in EntriesOf(journal) \cap Clients :
         journal.original[p].reg \in runtimes \cup {Package, None}

(* A process serves only from the artifact it identified when it started,   *)
(* and that artifact stays installed while it serves: pruning, rollback and *)
(* reinstallation meet every step of its start                              *)
(* (acquire_executable_runtime_lease, try_acquire_runtime_prune_lease).     *)
ServingIsInstalled ==
  \A s \in Servers :
    server[s].at = "serving" => server[s].intact /\ server[s].runtime \in runtimes

(* Setup, rollback and recovery never lose what a user wrote to a client    *)
(* configuration, unless the edit fell between the comparison with the      *)
(* expected content and the replacement of the file (restore_path,          *)
(* apply_edit).                                                             *)
UserEditsSurvive ==
  \A c \in Clients \ raced : file[c].user = edits.of[c]

(* While users leave registrations alone, a skill file is LeanToken's       *)
(* exactly when some registered client reads it, after any sequence of      *)
(* setups, removals, kills and recoveries (run_prepared, resolve_plan).     *)
SkillsFollowRegistrations ==
  pc = "idle" /\ journal.state = "none" /\ ~touched =>
    \A s \in Skills :
      file[s].reg # None <=> \E c \in Clients : SkillOf[c] = s /\ file[c].reg # None

(* A user changed an entry of an interrupted transaction                    *)
Blocked ==
  /\ journal.state = "pending"
  /\ \E p \in EntriesOf(journal) :
       file[p] \notin {journal.original[p], journal.updated[p]}

(* A journal does not stay: a later run removes it, unless a user changed   *)
(* an entry, which recovery refuses to overwrite                            *)
(* (recover_interrupted_transaction).                                       *)
RecoveryCompletes == journal.state # "none" ~> journal.state = "none" \/ Blocked

-----------------------------------------------------------------------------
(* Strengthenings of the properties that are inductive                     *)

(* What a process noted and found intact is installed, and nobody holds     *)
(* the lease of the artifact that pruning removes                           *)
LeaseInv ==
  /\ \A s \in Servers :
       /\ server[s].intact => server[s].runtime \in runtimes
       /\ server[s].at = "serving" => server[s].intact
  /\ pc = "pruneLeased" => ~Leased(run.want)

(* Old and new content of a configuration have the user's part in common    *)
RunKeepsUser ==
  pc \notin {"prune", "pruneLeased"} =>
    \A c \in Clients : run.updated[c].user = run.original[c].user

JournalKeepsUser ==
  \A c \in EntriesOf(journal) \cap Clients :
    journal.updated[c].user = journal.original[c].user

(* A path about to be replaced holds the content it was compared with       *)
ComparedInv ==
  /\ pc = "applyWrite" /\ Min(run.todo) \notin raced =>
       file[Min(run.todo)] = run.original[Min(run.todo)]
  /\ pc = "recoverWrite" /\ Min(run.todo) \notin raced =>
       file[Min(run.todo)] = journal.updated[Min(run.todo)]
  /\ pc = "rollbackWrite" /\ Max(run.todo) \notin raced =>
       file[Max(run.todo)] = run.updated[Max(run.todo)]

EditInv == UserEditsSurvive /\ RunKeepsUser /\ JournalKeepsUser /\ ComparedInv

Resolved == runtimes \cup {Package, None}

(* The labels between the plan and the removal of an installed runtime      *)
Written == {"begin", "apply", "applyWrite", "rollback", "rollbackWrite", "preflight",
            "uninstall"}

(* A registration that is in place, was in place when the run planned, or   *)
(* is to be put back names an installed runtime                             *)
ResolveInv ==
  /\ RegistrationsResolve
  /\ pc \in Written \cup {"confirm", "install"} =>
       \A c \in Clients : run.original[c].reg \in Resolved
  /\ pc \in Written \cup {"confirm", "install"} =>
       \A c \in Clients : run.updated[c].reg \in Resolved \cup {run.want}
  /\ pc \in Written => run.want \in Resolved
  /\ pc \in {"recovering", "recoverWrite"} => journal.state = "pending"
  /\ pc \in {"inventory", "prune", "pruneLeased"} => journal.state = "none"
  /\ pc = "pruneLeased" => \A c \in Clients : run.original[c].reg # run.want

(* Where a runtime that this run installed is named: nowhere before the     *)
(* first write, then in paths already written, then in paths to roll back   *)
ReceiptInv ==
  /\ pc \notin Written \cup {"cleanup", "abandon"} => ~run.receipt
  /\ pc \in Written /\ run.receipt =>
       /\ run.want \notin {Package, None}
       /\ \A c \in Clients : run.original[c].reg # run.want
       /\ journal.state = "pending" =>
            \A c \in EntriesOf(journal) \cap Clients :
              journal.original[c].reg # run.want
       /\ \A c \in Clients : file[c].reg = run.want =>
            /\ pc \notin {"preflight", "begin", "uninstall"}
            /\ pc \in {"apply", "applyWrite"} =>
                 c \in Changed(run) /\ \A q \in run.todo : c < q
            /\ pc \in {"rollback", "rollbackWrite"} /\ ~run.failed =>
                 c \in run.todo
  /\ pc = "applyWrite" => Min(run.todo) \in Changed(run)

Unmixed == \A p, q \in Paths : {side[p], side[q]} # {"old", "new"}

(* A mixture of old and new files has a pending journal that lists the new  *)
(* ones; a run that applies or undoes its changes knows which these are     *)
SidesInv ==
  /\ journal.state # "pending" => Unmixed
  /\ journal.state = "pending" =>
       \A p \in Paths : side[p] = "new" => p \in EntriesOf(journal)
  /\ pc \in {"forget", "abandon", "cleanup"} => Unmixed
  /\ pc \in {"resolve", "confirm", "install", "preflight", "begin"} =>
       journal.state = "none"
  /\ pc \in {"recovering", "recoverWrite"} =>
       /\ journal.state = "pending"
       /\ \A p \in Paths : side[p] = "new" => p \in run.todo
  /\ pc = "applyWrite" => Min(run.todo) \in Changed(run)
  /\ pc \in {"apply", "applyWrite", "rollback", "rollbackWrite"} =>
       IF Changed(run) = {}
         THEN journal.state = "none" /\ (pc \in {"rollback", "rollbackWrite"} => run.todo = {})
         ELSE journal.state = "pending" /\ EntriesOf(journal) = Changed(run)
  /\ pc \in {"apply", "applyWrite"} /\ Changed(run) # {} =>
       \A p \in Paths :
         /\ side[p] = "old" => p \in Changed(run)
         /\ side[p] = "new" => p \in Changed(run) /\ \A q \in run.todo : p < q
         /\ p \in Changed(run) \ run.todo => side[p] = "new"
  /\ pc \in {"rollback", "rollbackWrite"} /\ Changed(run) # {} /\ ~run.failed =>
       \A p \in Paths : side[p] = "new" => p \in run.todo

(* A skill file is LeanToken's exactly when some registered client reads it *)
Follow(f) ==
  \A s \in Skills :
    f[s].reg # None <=> \E c \in Clients : SkillOf[c] = s /\ f[c].reg # None

(* The files as the recovery of a pending journal would leave them          *)
Restored ==
  [p \in Paths |-> IF journal.state = "pending" /\ p \in EntriesOf(journal)
                     THEN journal.original[p] ELSE file[p]]

SameReg(f, g, P) == \A p \in P : f[p].reg = g[p].reg

Applying == {"apply", "applyWrite"}
Undoing == {"rollback", "rollbackWrite"}
Recovering == {"recovering", "recoverWrite"}
Planning == {"confirm", "install", "preflight", "begin"}

(* Skills follow registrations in what recovery would restore, in what the  *)
(* run planned from and in what it plans; the files are between these two,  *)
(* on the side that the paths still to do tell                              *)
FollowInv ==
  /\ Follow(Restored)
  /\ pc \in {"forget", "abandon", "cleanup"} => Follow(file)
  /\ pc \in Recovering => SameReg(file, journal.original, EntriesOf(journal) \ run.todo)
  /\ pc \in Planning \cup Applying \cup Undoing =>
       Follow(run.original) /\ Follow(run.updated)
  /\ pc \in Planning => SameReg(file, run.original, Paths)
  /\ pc \in Applying =>
       /\ SameReg(file, run.updated, Changed(run) \ run.todo)
       /\ SameReg(file, run.original, Paths \ (Changed(run) \ run.todo))
  /\ pc \in Undoing /\ ~run.failed => SameReg(file, run.original, Paths \ run.todo)

SkillInv ==
  /\ pc \in Recovering \cup {"recover", "forget", "resolve"} =>
       run.op # "none" /\ (run.op = "setup" => run.want # None)
  /\ pc = "resolve" => run.op # "prune"
  /\ pc \in Planning \cup Applying \cup Undoing =>
       SameReg(run.updated, run.original, Paths \ Changed(run))
  /\ pc \in Undoing => run.todo \subseteq Changed(run)
  /\ ~touched => FollowInv

=============================================================================
