-------------------------- MODULE IndexPublication --------------------------
(***************************************************************************)
(* How one reconciliation turns the working tree into a new generation of  *)
(* the index (indexer/orchestrator.rs, indexer/incremental.rs,             *)
(* indexer/plan.rs, storage/staging.rs, storage/publication.rs).  A call   *)
(* captures a baseline, then discovers, plans and prepares outside any     *)
(* transaction while files keep changing and other calls publish; one      *)
(* immediate transaction re-checks the baseline and applies the stage.     *)
(*                                                                         *)
(* The operation lock, which normally keeps two calls apart, is left out   *)
(* on purpose: what is shown here holds by the baseline check alone.       *)
(*                                                                         *)
(* A path's content is a text, "binary", "oversized" or "absent".  An      *)
(* index row is the text it was derived from and the configuration hash    *)
(* (settings and derivation fingerprint) it was derived under.             *)
(***************************************************************************)
EXTENDS Naturals, FiniteSets

CONSTANTS
    Paths,       \* repository-relative paths
    Texts,       \* indexable contents
    Calls,       \* reconcile calls; each is made once
    ConfigOf,    \* configuration hash of a call's process
    OldConfig,   \* configuration hash stored when the behaviour starts
    Attempts,    \* tries before RetryableConflict (3 in the code)
    MaxEdits     \* bound on edits of the working tree

Configs == {OldConfig} \cup {ConfigOf[p] : p \in Calls}
Content == Texts \cup {"binary", "oversized", "absent"}
NoRow == [text |-> "absent", config |-> OldConfig]
Row == [text : Texts, config : Configs] \cup {NoRow}
NoPath == "none"

ASSUME PublicationAssumption ==
    /\ Attempts \in Nat \ {0}
    /\ MaxEdits \in Nat
    /\ Texts \cap {"binary", "oversized", "absent"} = {}
    /\ NoPath \notin Paths

VARIABLES
    disk,    \* the working tree
    edits,   \* edits so far
    db,      \* committed meta row and files table
    job,     \* local state of a reconcile call
    window   \* contents each path had since the call's attempt began

vars == <<disk, edits, db, job, window>>

Phases == {"discover", "existing", "observe", "plan", "hash", "relocate",
           "prepare", "publish"}
Kinds == {"full", "rebuild", "paths"}
Job == [pc : Phases \cup {"idle", "ok", "failed"},
        kind : Kinds,
        reported : SUBSET Paths,            \* watcher paths of a "paths" call
        attempt : 0..Attempts,
        baseline : [gen : Nat, config : Configs],
        left : SUBSET Paths,                \* paths this phase has yet to visit
        existing : [Paths -> Row],          \* pages of the files table
        found : SUBSET Paths,               \* discovered files
        delta : BOOLEAN,                    \* visibility changed
        candidates : SUBSET Paths,
        removals : SUBSET Paths,
        hashed : [Paths -> Content],        \* created files, read once more
        relocated : [Paths -> Paths \cup {NoPath}],  \* new path -> old path
        staged : [Paths -> Row],
        unread : SUBSET Paths]              \* PreparedFile::Failed

\* Discovery lists files within max_file_bytes, whatever they contain.
Discoverable(c) == c \notin {"absent", "oversized"}
\* What the index should hold for a path with content c.
Indexed(c) == IF c \in Texts THEN c ELSE "absent"

Fresh(kind, reported, attempt) ==
    [pc |-> IF kind = "paths" THEN "existing" ELSE "discover",
     kind |-> kind, reported |-> reported, attempt |-> attempt,
     baseline |-> [gen |-> db.gen, config |-> db.config], left |-> Paths,
     existing |-> [f \in Paths |-> NoRow], found |-> {}, delta |-> FALSE,
     candidates |-> {}, removals |-> {},
     hashed |-> [f \in Paths |-> "absent"],
     relocated |-> [f \in Paths |-> NoPath],
     staged |-> [f \in Paths |-> NoRow], unread |-> {}]

\* A cache some earlier process published, or an empty one.
Init ==
    /\ disk \in [Paths -> Content]
    /\ edits = 0
    /\ db \in [gen : {1}, config : {OldConfig},
               files : [Paths -> {NoRow} \cup
                          {[text |-> t, config |-> OldConfig] : t \in Texts}]]
    /\ job = [p \in Calls |-> [Fresh("full", {}, 0) EXCEPT !.pc = "idle"]]
    /\ window = [p \in Calls |-> [f \in Paths |-> {disk[f]}]]

Edit(f, c) ==
    /\ edits < MaxEdits
    /\ c # disk[f]
    /\ disk' = [disk EXCEPT ![f] = c]
    /\ edits' = edits + 1
    /\ window' = [p \in Calls |-> [window[p] EXCEPT ![f] = @ \cup {c}]]
    /\ UNCHANGED <<db, job>>

-----------------------------------------------------------------------------
(* Starting an attempt: the baseline is read before anything else.         *)

\* reconcile_paths_once hands a changed configuration to a full rebuild.
KindFor(p, kind) ==
    IF kind = "paths" /\ db.config # ConfigOf[p] THEN "rebuild" ELSE kind

StartAttempt(p, kind, reported, attempt) ==
    /\ job' = [job EXCEPT ![p] = Fresh(KindFor(p, kind), reported,
                  IF KindFor(p, kind) = kind THEN attempt ELSE 1)]
    /\ window' = [window EXCEPT ![p] = [f \in Paths |-> {disk[f]}]]

Begin(p) ==
    /\ job[p].pc = "idle"
    /\ \/ \E kind \in {"full", "rebuild"} : StartAttempt(p, kind, {}, 1)
       \/ \E rep \in SUBSET Paths \ {{}} : StartAttempt(p, "paths", rep, 1)
    /\ UNCHANGED <<disk, edits, db>>

\* A forced call derives every file again.
ForceReindex(p) ==
    \/ job[p].kind = "rebuild"
    \/ job[p].baseline.config # ConfigOf[p]

\* ChangeSet::classify: candidates without a row.
Created(j) == {f \in j.candidates : j.existing[f] = NoRow}

\* The phase that follows once every path of a phase has been visited, and
\* the paths it visits.
After(j) ==
    LET paths == j.kind = "paths"
        prepare == IF j.candidates = {} THEN <<"publish", {}>>
                   ELSE <<"prepare", j.candidates>>
    IN  CASE j.pc = "discover" -> IF paths THEN <<"plan", Paths>>
                                  ELSE <<"existing", Paths>>
          [] j.pc = "existing" -> IF paths THEN <<"observe", j.reported>>
                                  ELSE <<"plan", Paths>>
          [] j.pc = "observe"  -> IF j.delta THEN <<"discover", Paths>>
                                  ELSE <<"plan", j.reported>>
          [] j.pc = "plan"     -> IF ~paths THEN prepare
                                  ELSE IF Created(j) # {} /\ j.removals # {}
                                  THEN <<"hash", Created(j)>> ELSE prepare
          [] j.pc = "hash"     -> <<"relocate", {}>>
          [] j.pc = "relocate" -> prepare
          [] j.pc = "prepare"  -> <<"publish", {}>>

Advance(j) == [j EXCEPT !.pc = After(j)[1], !.left = After(j)[2]]

\* Path f is handled in phase pc; j is the job after it.
Visit(p, pc, f, j) ==
    /\ job[p].pc = pc
    /\ f \in job[p].left
    /\ LET rest == [j EXCEPT !.left = @ \ {f}]
       IN  job' = [job EXCEPT ![p] = IF rest.left = {} THEN Advance(rest)
                                     ELSE rest]
    /\ UNCHANGED <<disk, edits, db, window>>

\* The walk reaches path f.
Discover(p, f) ==
    Visit(p, "discover", f,
          IF Discoverable(disk[f]) THEN [job[p] EXCEPT !.found = @ \cup {f}]
          ELSE job[p])

\* existing_files: every page is a read of its own, of whatever is committed.
ReadPage(p, f) ==
    Visit(p, "existing", f, [job[p] EXCEPT !.existing[f] = db.files[f]])

\* observe_visibility_delta: a reported path that is on disk and not in the
\* index asks for a discovery.
Observe(p, f) ==
    Visit(p, "observe", f,
          [job[p] EXCEPT !.delta = @ \/ ( /\ disk[f] # "absent"
                                          /\ job[p].existing[f] = NoRow )])

\* content_unchanged: the row's hash still is the file's.
Unchanged(p, f) == job[p].existing[f] # NoRow /\ job[p].existing[f].text = disk[f]

\* Membership comes from discovery, or for a stable "paths" call from the
\* path itself.
Discovered(p) == job[p].kind # "paths" \/ job[p].delta
Gone(p, f) ==
    IF Discovered(p)
    THEN f \notin job[p].found /\ job[p].existing[f] # NoRow
    ELSE \/ disk[f] = "absent" /\ job[p].existing[f] # NoRow
         \/ disk[f] = "oversized"
Wanted(p, f) ==
    /\ IF Discovered(p) THEN f \in job[p].found ELSE Discoverable(disk[f])
    /\ \/ job[p].kind # "paths"
       \/ job[p].existing[f] = NoRow
       \/ f \in job[p].reported
    /\ ForceReindex(p) \/ ~Unchanged(p, f)

\* Candidates and deletions of one path.
Plan(p, f) ==
    Visit(p, "plan", f,
          [job[p] EXCEPT !.removals = IF Gone(p, f) THEN @ \cup {f} ELSE @,
                         !.candidates = IF Wanted(p, f) THEN @ \cup {f} ELSE @])

\* plan_relocations reads the created files one by one; a failed read drops
\* the file from the search.
Hash(p, f) ==
    \E c \in {disk[f], "absent"} :
        Visit(p, "hash", f, [job[p] EXCEPT !.hashed[f] = c])

\* One deleted row and one created file with one text make a relocation.
Sources(p, t) == {o \in job[p].removals : job[p].existing[o].text = t}
Targets(p, t) ==
    {n \in Created(job[p]) : job[p].hashed[n] = t}
Source(p, n) ==
    LET t == job[p].hashed[n] IN
    IF t \in Texts /\ Targets(p, t) = {n} /\ Cardinality(Sources(p, t)) = 1
    THEN CHOOSE o \in Sources(p, t) : TRUE
    ELSE NoPath

Relocate(p) ==
    /\ job[p].pc = "relocate"
    /\ LET from == [n \in Paths |-> Source(p, n)]
           rest == {n \in job[p].candidates : from[n] = NoPath}
       IN  job' = [job EXCEPT ![p] =
                     Advance([job[p] EXCEPT !.relocated = from,
                                            !.candidates = rest])]
    /\ UNCHANGED <<disk, edits, db, window>>

\* prepare_file reads the file again: a text is staged, a file that stopped
\* being indexable is removed, and a failed read keeps whatever row there is.
Prepared(p, f, c) ==
    CASE c \in Texts /\ job[p].kind = "paths" /\ job[p].existing[f].text = c -> job[p]
      [] c \in Texts /\ ~(job[p].kind = "paths" /\ job[p].existing[f].text = c) ->
            [job[p] EXCEPT !.staged[f] = [text |-> c, config |-> ConfigOf[p]]]
      [] c \in {"binary", "oversized"} ->
            IF job[p].existing[f] # NoRow
            THEN [job[p] EXCEPT !.removals = @ \cup {f}] ELSE job[p]
      [] c = "absent" -> [job[p] EXCEPT !.unread = @ \cup {f}]

\* A read error looks like a file that is gone.
Prepare(p, f) ==
    \E c \in {disk[f], "absent"} : Visit(p, "prepare", f, Prepared(p, f, c))

-----------------------------------------------------------------------------
(* The publication transaction.                                            *)

\* Mutant: only the configuration is compared.
VerifyConfigOnly(p) == job[p].baseline.config = db.config

\* verify_baseline.
VerifyBaseline(p) ==
    /\ job[p].baseline.gen = db.gen
    /\ job[p].baseline.config = db.config

\* Mutant: staged removals do not count as a change.
ChangedByFiles(p) ==
    \/ job[p].kind = "rebuild"
    \/ \E f \in Paths : job[p].staged[f] # NoRow \/ job[p].relocated[f] # NoPath
    \/ db.config # ConfigOf[p]

\* publish_reconciliation_inner's `changed`.
Changed(p) ==
    \/ job[p].kind = "rebuild"
    \/ \E f \in Paths : job[p].staged[f] # NoRow \/ job[p].relocated[f] # NoPath
    \/ job[p].removals # {}
    \/ db.config # ConfigOf[p]

\* Mutant: the row of a relocated file stays under its old path too.
WrittenTwice(p) ==
    [f \in Paths |->
        CASE job[p].staged[f] # NoRow -> job[p].staged[f]
          [] job[p].staged[f] = NoRow /\ job[p].relocated[f] # NoPath ->
                db.files[job[p].relocated[f]]
          [] OTHER ->
                IF \/ job[p].kind = "rebuild"
                   \/ f \in job[p].removals /\ \A n \in Paths : job[p].relocated[n] # f
                THEN NoRow ELSE db.files[f]]

\* The files table after the writer's deletes, relocations and replacements.
Written(p) ==
    [f \in Paths |->
        CASE job[p].staged[f] # NoRow -> job[p].staged[f]
          [] job[p].staged[f] = NoRow /\ job[p].relocated[f] # NoPath ->
                db.files[job[p].relocated[f]]
          [] OTHER -> IF job[p].kind = "rebuild" \/ f \in job[p].removals
                      THEN NoRow ELSE db.files[f]]

\* ReconciliationWriter::relocate finds the old row with the text it expects;
\* otherwise the transaction fails.
SourcesKept(p) ==
    \A n \in Paths : job[p].relocated[n] # NoPath =>
        db.files[job[p].relocated[n]].text = job[p].hashed[n]

\* The call returns; its locals are gone.
End(p, pc) ==
    /\ job' = [job EXCEPT ![p] = [Fresh("full", {}, 0) EXCEPT !.pc = pc]]
    /\ window' = [window EXCEPT ![p] = [f \in Paths |-> {}]]

Commit(p) ==
    /\ job[p].pc = "publish"
    /\ VerifyBaseline(p)
    /\ Changed(p)
    /\ SourcesKept(p)
    /\ db' = [gen |-> db.gen + 1, config |-> ConfigOf[p], files |-> Written(p)]
    /\ End(p, "ok")
    /\ UNCHANGED <<disk, edits>>

\* Nothing to write: the transaction is rolled back and the call succeeds.
NoOp(p) ==
    /\ job[p].pc = "publish"
    /\ VerifyBaseline(p)
    /\ ~Changed(p)
    /\ End(p, "ok")
    /\ UNCHANGED <<disk, edits, db>>

\* Mutant: a stale call plans again from its old baseline.
StaleFromBaseline(p) ==
    /\ job[p].pc = "publish"
    /\ ~VerifyBaseline(p)
    /\ \/ /\ job[p].attempt < Attempts
          /\ job' = [job EXCEPT ![p] =
                       [Fresh(job[p].kind, job[p].reported, job[p].attempt + 1)
                          EXCEPT !.baseline = job[p].baseline]]
          /\ UNCHANGED window
       \/ /\ job[p].attempt = Attempts
          /\ End(p, "failed")
    /\ UNCHANGED <<disk, edits, db>>

\* StaleReconciliation: plan again from a new baseline, or give up.
Stale(p) ==
    /\ job[p].pc = "publish"
    /\ ~VerifyBaseline(p)
    /\ \/ /\ job[p].attempt < Attempts
          /\ StartAttempt(p, job[p].kind, job[p].reported, job[p].attempt + 1)
       \/ /\ job[p].attempt = Attempts
          /\ End(p, "failed")
    /\ UNCHANGED <<disk, edits, db>>

\* Cancellation, a limit, an I/O or SQLite error, or the process dies: the
\* stage and an open transaction vanish.
Abort(p) ==
    /\ job[p].pc \in Phases
    /\ End(p, "failed")
    /\ UNCHANGED <<disk, edits, db>>

Step(p) ==
    \/ Relocate(p) \/ Commit(p) \/ NoOp(p) \/ Stale(p)
    \/ \E f \in Paths : \/ Discover(p, f) \/ ReadPage(p, f) \/ Observe(p, f)
                        \/ Plan(p, f) \/ Hash(p, f) \/ Prepare(p, f)

Next ==
    \/ \E f \in Paths, c \in Content : Edit(f, c)
    \/ \E p \in Calls : Begin(p) \/ Step(p) \/ Abort(p)

Spec == Init /\ [][Next]_vars

-----------------------------------------------------------------------------
TypeOK ==
    /\ disk \in [Paths -> Content]
    /\ edits \in 0..MaxEdits
    /\ db \in [gen : Nat, config : Configs, files : [Paths -> Row]]
    /\ job \in [Calls -> Job]
    /\ window \in [Calls -> [Paths -> SUBSET Content]]

\* Paths a call promises to bring up to date.
Scope(p) == IF job[p].kind = "paths" THEN job[p].reported ELSE Paths

\* A successful call leaves every path it promised to check as the working
\* tree had it at some moment of the call, whatever was edited or published
\* by others meanwhile.  Only a file whose read failed keeps its row.
PublishedFromWindow ==
    [][\A p \in Calls : job[p].pc = "publish" /\ job'[p].pc = "ok" =>
         \A f \in Scope(p) :
            \/ db'.files[f].text \in {Indexed(c) : c \in window[p][f]}
            \/ /\ f \in job[p].unread
               /\ db'.files[f] = IF job[p].kind = "rebuild" THEN NoRow
                                 ELSE db.files[f]]_vars

\* A plan that passes the baseline check was made from the committed files
\* table, although its pages were read one transaction at a time.
PlanFromCommitted ==
    \A p \in Calls :
       job[p].pc \in Phases /\ job[p].baseline.gen = db.gen =>
         /\ job[p].baseline.config = db.config
         /\ job[p].pc \in {"plan", "hash", "relocate", "prepare", "publish"} =>
               job[p].existing = db.files

\* A rename moves its row: the generation that has the file under its new
\* path, with the text read there, no longer has it under the old one.
RelocationMoves ==
    [][\A p \in Calls : job[p].pc = "publish" /\ job'[p].pc = "ok" =>
         \A n \in Paths : job[p].relocated[n] # NoPath =>
            /\ db'.files[n].text = job[p].hashed[n]
            /\ db'.files[job[p].relocated[n]] = NoRow]_vars

\* "relocation source changed before publication" cannot be the outcome of a
\* transaction that passed the baseline check.
RelocationSourcesKept ==
    \A p \in Calls : job[p].pc = "publish" /\ VerifyBaseline(p) => SourcesKept(p)

\* A call that gives up with RetryableConflict has lost Attempts races to
\* publications that others really made: attempt n is planned after n - 1
\* further generations, so some call makes progress whenever one is refused.
ConflictMeansProgress ==
    \A p \in Calls : job[p].pc \in Phases => job[p].attempt <= job[p].baseline.gen

\* Every row of a committed generation was derived under the configuration
\* the generation is labelled with.
UniformDerivation ==
    \A f \in Paths : db.files[f] # NoRow => db.files[f].config = db.config

\* Rows of two configurations come together in one way only: a full call under
\* a new configuration leaves a row it could not derive again because the read
\* of its file failed (PreparedFile::Failed in reconcile_once).
MixedOnlyByUnread ==
    [][UniformDerivation =>
         \/ UniformDerivation'
         \/ \E p \in Calls :
              /\ job[p].pc = "publish" /\ job'[p].pc = "ok" /\ job[p].kind = "full"
              /\ \A f \in Paths :
                   db'.files[f] # NoRow /\ db'.files[f].config # db'.config =>
                     f \in job[p].unread /\ db'.files[f] = db.files[f]]_vars

\* A file that was not edited while a call ran is indexed as it is when the call
\* succeeds, unless its read failed: what ReconcileWaves takes a scan to do.
QuietFilesAreExact ==
    [][\A p \in Calls : job[p].pc = "publish" /\ job'[p].pc = "ok" =>
         \A f \in Scope(p) \ job[p].unread :
            window[p][f] = {disk[f]} => db'.files[f].text = Indexed(disk[f])]_vars

-----------------------------------------------------------------------------
(* What a call does to the index, seen from outside.                       *)

Running(p) == job[p].pc \in Phases
Outcome == [p \in Calls |-> IF Running(p) THEN "running" ELSE job[p].pc]
Promised == [p \in Calls |-> IF Running(p) THEN Scope(p) ELSE {}]
Watched == [p \in Calls |-> IF Running(p) THEN window[p] ELSE [f \in Paths |-> {}]]
Unreadable == [p \in Calls |-> IF Running(p) THEN job[p].unread ELSE {}]

Atomic == INSTANCE AtomicIndex WITH
    call <- Outcome, scope <- Promised, seen <- Watched, lost <- Unreadable

\* A call is an atomic step of AtomicIndex, however its phases interleave with
\* edits and with the publications of others: it publishes what it saw in its
\* own scope, leaves every other row alone, and has no effect when it fails.
ImplementsAtomicIndex == Atomic!Spec

-----------------------------------------------------------------------------
(* Strengthenings of the properties that are inductive.                    *)

\* The existing rows a job has read so far.
Paged(j) ==
    CASE j.pc = "existing" -> Paths \ j.left
      [] j.pc = "discover" /\ j.kind # "paths" -> {}
      [] OTHER -> Paths

\* A baseline that is still the committed one was read with its rows, and
\* every further attempt has seen a further generation.
BaselineInv ==
    /\ db.gen >= 1
    /\ \A p \in Calls : job[p].pc \in Phases =>
         /\ job[p].baseline.gen <= db.gen
         /\ job[p].attempt <= job[p].baseline.gen
         /\ job[p].baseline.gen = db.gen =>
              /\ job[p].baseline.config = db.config
              /\ \A f \in Paged(job[p]) : job[p].existing[f] = db.files[f]

\* What the index may hold for path f after contents w were seen.
Seen(w, f) == {Indexed(c) : c \in w[f]}

\* Paths the walk has reached, paths the plan has decided on, candidates that
\* were prepared.
Walked(j) ==
    CASE j.pc = "discover" -> Paths \ j.left
      [] /\ j.pc # "discover" /\ j.kind = "paths"
         /\ j.pc \in {"existing", "observe"} \/ ~j.delta -> {}
      [] OTHER -> Paths
Planned(j) ==
    LET scope == IF j.kind = "paths" THEN j.reported ELSE Paths
    IN  CASE j.pc = "plan" -> scope \ j.left
          [] j.pc \in {"hash", "relocate", "prepare", "publish"} -> scope
          [] OTHER -> {}
Settled(j) ==
    CASE j.pc = "prepare" -> j.candidates \ j.left
      [] j.pc = "publish" -> j.candidates
      [] OTHER -> {}

\* Path f may be left without a write of its own.
Leave(j, w, f) ==
    /\ j.existing[f].text \in Seen(w, f)
    /\ j.kind = "rebuild" => "absent" \in Seen(w, f)

\* Discovery, plan and stage of a job agree with contents the files had.
PlanInv(j, w) ==
    /\ j.pc = "observe" => j.kind = "paths"
    /\ \A f \in Walked(j) \ j.found : "absent" \in Seen(w, f)
    /\ j.pc \in {"discover", "existing", "observe"} =>
         j.candidates = {} /\ j.removals = {}
    /\ j.pc = "plan" => j.left \cap (j.candidates \cup j.removals) = {}
    /\ j.candidates \cap j.removals \subseteq Settled(j)
    /\ j.pc = "prepare" => j.left \subseteq j.candidates
    /\ \A f \in j.removals : "absent" \in Seen(w, f)
    /\ \A f \in Planned(j) :
         f \notin j.removals \cup j.candidates /\ j.relocated[f] = NoPath =>
            Leave(j, w, f)

\* Nothing is relocated before the relocations are planned.
StillInv(j) ==
    j.pc \notin {"prepare", "publish"} => \A f \in Paths : j.relocated[f] = NoPath

StageInv(j, w) ==
    /\ \A f \in Paths : j.staged[f] # NoRow =>
         f \in Settled(j) /\ j.staged[f].text \in Seen(w, f)
    /\ \A f \in j.unread :
         f \in Settled(j) \ j.removals /\ j.staged[f] = NoRow
    /\ \A f \in Settled(j) \ (j.unread \cup j.removals) :
         j.staged[f] = NoRow => Leave(j, w, f)

\* A relocation has a row that goes and a file, with its text, that had none.
RelocationInv(j, w) ==
    /\ \A n \in Paths : j.hashed[n] = "absent" \/ j.hashed[n] \in w[n]
    /\ \A n \in Paths : j.relocated[n] # NoPath =>
         /\ n \notin j.candidates /\ j.existing[n] = NoRow
         /\ j.hashed[n] \in Texts
         /\ j.relocated[n] \in j.removals \ j.candidates
         /\ j.existing[j.relocated[n]].text = j.hashed[n]

JobInv ==
    \A p \in Calls : job[p].pc \in Phases =>
        /\ \A f \in Paths : disk[f] \in window[p][f]
        /\ StillInv(job[p])
        /\ PlanInv(job[p], window[p])
        /\ StageInv(job[p], window[p])
        /\ RelocationInv(job[p], window[p])

\* A job under configuration c derives what it stages under c; when the index
\* has another one, every row is derived again, removed or unread.
Derived(j, c) ==
    /\ j.kind = "paths" => j.baseline.config = c
    /\ j.pc \in {"hash", "relocate"} => j.kind = "paths"
    /\ j.kind # "paths" => \A f \in Paths : j.relocated[f] = NoPath
    /\ \A f \in Paths : j.staged[f] # NoRow => j.staged[f].config = c
    /\ j.baseline.config # c =>
         /\ \A f \in Planned(j) :
              j.existing[f] # NoRow => f \in j.removals \cup j.candidates
         /\ \A f \in Settled(j) \ (j.unread \cup j.removals) :
              j.staged[f] = NoRow => j.existing[f] = NoRow

DerivationInv == \A p \in Calls : job[p].pc \in Phases => Derived(job[p], ConfigOf[p])

=============================================================================
