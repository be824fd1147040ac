------------------------ MODULE IndexPublicationProofs ------------------------
(***************************************************************************)
(* Proofs about IndexPublication, for any number of calls, paths, texts,    *)
(* edits and attempts: what a successful call publishes is what the files   *)
(* held while it ran, planned from the generation it replaces.              *)
(***************************************************************************)
EXTENDS IndexPublication, FiniteSetTheorems, TLAPS

\* The phase after the last path of a phase (reconcile_once, reconcile_paths_once).
LEMMA AfterCases ==
  ASSUME NEW j
  PROVE  /\ j.pc = "discover" => After(j) = IF j.kind = "paths" THEN <<"plan", Paths>>
                                                       ELSE <<"existing", Paths>>
         /\ j.pc = "existing" => After(j) = IF j.kind = "paths" THEN <<"observe", j.reported>>
                                                       ELSE <<"plan", Paths>>
         /\ j.pc = "observe" => After(j) = IF j.delta THEN <<"discover", Paths>>
                                                      ELSE <<"plan", j.reported>>
         /\ j.pc = "plan" => After(j) \in {<<"publish", {}>>, <<"prepare", j.candidates>>,
                                           <<"hash", Created(j)>>}
         /\ j.pc = "hash" => After(j) = <<"relocate", {}>>
         /\ j.pc = "relocate" => After(j) \in {<<"publish", {}>>, <<"prepare", j.candidates>>}
         /\ j.pc = "prepare" => After(j) = <<"publish", {}>>
         /\ j.pc \in {"plan", "relocate"} /\ After(j) = <<"publish", {}>> => j.candidates = {}
BY DEF After

\* The index row of a path that is not indexed is a row, and no text.
LEMMA Rows ==
  /\ NoRow \in Row /\ NoRow.text = "absent" /\ "absent" \notin Texts
  /\ \A r \in Row : r.text \in Texts => r # NoRow
BY PublicationAssumption DEF NoRow, Row

\* Moving to the next phase changes the phase and the paths it visits.
LEMMA AdvanceFields ==
  ASSUME NEW j \in Job, j.pc \in Phases \ {"publish"}
  PROVE  /\ Advance(j) \in Job
         /\ Advance(j).pc = After(j)[1] /\ Advance(j).left = After(j)[2]
         /\ Advance(j).pc \in Phases
         /\ Advance(j) = [j EXCEPT !.pc = Advance(j).pc, !.left = Advance(j).left]
<1>1. After(j)[1] \in Phases /\ After(j)[2] \in SUBSET Paths
  <2>1. j.reported \in SUBSET Paths /\ j.candidates \in SUBSET Paths
    BY DEF Job
  <2>2. Created(j) \in SUBSET Paths
    BY <2>1 DEF Created
  <2>3. CASE j.pc \in {"discover", "existing", "observe"}
    BY <2>1, <2>3, AfterCases DEF Phases
  <2>4. CASE j.pc \in {"hash", "prepare"}
    BY <2>4, AfterCases DEF Phases
  <2>5. CASE j.pc \in {"plan", "relocate"}
    <3>1. After(j) \in {<<"publish", {}>>, <<"prepare", j.candidates>>,
                        <<"hash", Created(j)>>}
      BY <2>5, AfterCases
    <3> QED
      BY <2>1, <2>2, <3>1 DEF Phases
  <2> QED
    BY <2>3, <2>4, <2>5 DEF Phases
<1> DEFINE a == After(j)[1]
           b == After(j)[2]
<1>2. Advance(j) = [j EXCEPT !.pc = a, !.left = b]
  BY DEF Advance
<1> HIDE DEF a, b
<1>3. /\ [j EXCEPT !.pc = a, !.left = b].pc = a
      /\ [j EXCEPT !.pc = a, !.left = b].left = b
  BY DEF Job
<1>4. a \in Phases /\ b \in SUBSET Paths => [j EXCEPT !.pc = a, !.left = b] \in Job
  BY DEF Job
<1> QED
  BY <1>1, <1>2, <1>3, <1>4 DEF a, b

\* The fields that moving on leaves alone.
LEMMA AdvanceKeeps ==
  ASSUME NEW j \in Job, j.pc \in Phases \ {"publish"}, NEW k, k = Advance(j)
  PROVE  /\ k.kind = j.kind /\ k.reported = j.reported /\ k.attempt = j.attempt
         /\ k.baseline = j.baseline /\ k.existing = j.existing /\ k.found = j.found
         /\ k.delta = j.delta /\ k.candidates = j.candidates /\ k.removals = j.removals
         /\ k.hashed = j.hashed /\ k.relocated = j.relocated /\ k.staged = j.staged
         /\ k.unread = j.unread
BY DEF Advance, Job

\* The job after a visit: the path is off the list, and the phase may be over.
LEMMA VisitFields ==
  ASSUME NEW j \in Job, NEW f
  PROVE  LET rest == [j EXCEPT !.left = @ \ {f}]
         IN  /\ rest \in Job /\ rest.left = j.left \ {f} /\ rest.pc = j.pc
             /\ rest.kind = j.kind /\ rest.reported = j.reported
             /\ rest.attempt = j.attempt /\ rest.baseline = j.baseline
             /\ rest.existing = j.existing /\ rest.found = j.found
             /\ rest.delta = j.delta /\ rest.candidates = j.candidates
             /\ rest.removals = j.removals /\ rest.hashed = j.hashed
             /\ rest.relocated = j.relocated /\ rest.staged = j.staged
             /\ rest.unread = j.unread
<1>1. j.left \ {f} \in SUBSET Paths
  BY DEF Job
<1> DEFINE l == j.left \ {f}
<1> HIDE DEF l
<1>2. [j EXCEPT !.left = l] \in Job
  BY <1>1 DEF Job, l
<1>3. LET rest == [j EXCEPT !.left = l]
      IN  /\ rest.left = l /\ rest.pc = j.pc
          /\ rest.kind = j.kind /\ rest.reported = j.reported
          /\ rest.attempt = j.attempt /\ rest.baseline = j.baseline
          /\ rest.existing = j.existing /\ rest.found = j.found
          /\ rest.delta = j.delta /\ rest.candidates = j.candidates
          /\ rest.removals = j.removals /\ rest.hashed = j.hashed
          /\ rest.relocated = j.relocated /\ rest.staged = j.staged
          /\ rest.unread = j.unread
  BY DEF Job
<1> QED
  BY <1>2, <1>3 DEF l

\* A new attempt is typed (Baseline::capture).
LEMMA FreshOfTables ==
  ASSUME db \in [gen : Nat, config : Configs, files : [Paths -> Row]], NEW kind \in Kinds, NEW reported \in SUBSET Paths,
         NEW attempt \in 0 .. Attempts
  PROVE  /\ Fresh(kind, reported, attempt) \in Job
         /\ \A pc \in {"idle", "ok", "failed"} :
              /\ [Fresh(kind, reported, attempt) EXCEPT !.pc = pc] \in Job
              /\ [Fresh(kind, reported, attempt) EXCEPT !.pc = pc].pc = pc
<1>1. [gen |-> db.gen, config |-> db.config] \in [gen : Nat, config : Configs]
  OBVIOUS
<1>2. /\ [f \in Paths |-> NoRow] \in [Paths -> Row]
      /\ [f \in Paths |-> "absent"] \in [Paths -> Content]
      /\ [f \in Paths |-> NoPath] \in [Paths -> Paths \cup {NoPath}]
  BY Rows DEF Content
<1>3. (IF kind = "paths" THEN "existing" ELSE "discover") \in Phases
  BY DEF Phases
<1> DEFINE base == [gen |-> db.gen, config |-> db.config]
           none == [f \in Paths |-> NoRow]
           blank == [f \in Paths |-> "absent"]
           still == [f \in Paths |-> NoPath]
           first == IF kind = "paths" THEN "existing" ELSE "discover"
<1> HIDE DEF base, none, blank, still, first
<1>4. Fresh(kind, reported, attempt) \in Job
  BY <1>1, <1>2, <1>3 DEF Fresh, Job, base, none, blank, still, first
<1> QED
  BY <1>4 DEF Job

\* The same of every reachable state.
LEMMA FreshTyped ==
  ASSUME TypeOK, NEW kind \in Kinds, NEW reported \in SUBSET Paths,
         NEW attempt \in 0 .. Attempts
  PROVE  /\ Fresh(kind, reported, attempt) \in Job
         /\ \A pc \in {"idle", "ok", "failed"} :
              /\ [Fresh(kind, reported, attempt) EXCEPT !.pc = pc] \in Job
              /\ [Fresh(kind, reported, attempt) EXCEPT !.pc = pc].pc = pc
<1>1. db \in [gen : Nat, config : Configs, files : [Paths -> Row]]
  BY DEF TypeOK
<1> QED
  BY <1>1, FreshOfTables

\* What a visit makes of a job.
LEMMA VisitResult ==
  ASSUME TypeOK, NEW p \in Calls, NEW f \in Paths, NEW pc \in Phases \ {"publish"},
         NEW j \in Job, j.pc = pc, Visit(p, pc, f, j)
  PROVE  /\ LET rest == [j EXCEPT !.left = @ \ {f}]
            IN  job'[p] = IF rest.left = {} THEN Advance(rest) ELSE rest
         /\ job' \in [Calls -> Job] /\ job'[p].pc \in Phases
         /\ \A q \in Calls : q # p => job'[q] = job[q]
         /\ job[p].pc = pc /\ f \in job[p].left
         /\ UNCHANGED <<disk, edits, db, window>>
<1> DEFINE rest == [j EXCEPT !.left = @ \ {f}]
           k == IF rest.left = {} THEN Advance(rest) ELSE rest
<1>1. rest \in Job /\ rest.pc = pc
  BY VisitFields
<1>2. k \in Job /\ k.pc \in Phases
  <2> HIDE DEF rest
  <2> QED
    BY <1>1, AdvanceFields DEF Phases
<1>3. /\ job[p].pc = pc /\ f \in job[p].left /\ job' = [job EXCEPT ![p] = k]
      /\ UNCHANGED <<disk, edits, db, window>>
  BY DEF Visit
<1> HIDE DEF k
<1>4. job' \in [Calls -> Job] /\ job'[p] = k /\ \A q \in Calls : q # p => job'[q] = job[q]
  BY <1>2, <1>3 DEF TypeOK
<1> QED
  BY <1>2, <1>3, <1>4 DEF k

\* What each phase does with a path is typed.
LEMMA VisitsTyped ==
  ASSUME TypeOK, NEW p \in Calls, NEW f \in Paths
  PROVE  /\ job[p] \in Job
         /\ LET j == [job[p] EXCEPT !.found = @ \cup {f}]
            IN  j \in Job /\ j.pc = job[p].pc
         /\ LET j == [job[p] EXCEPT !.existing[f] = db.files[f]]
            IN  j \in Job /\ j.pc = job[p].pc
         /\ \A b \in BOOLEAN : LET j == [job[p] EXCEPT !.delta = b]
                               IN  j \in Job /\ j.pc = job[p].pc
         /\ \A R, C \in SUBSET Paths :
              LET j == [job[p] EXCEPT !.removals = R, !.candidates = C]
              IN  j \in Job /\ j.pc = job[p].pc
         /\ \A c \in Content : LET j == [job[p] EXCEPT !.hashed[f] = c]
                               IN  j \in Job /\ j.pc = job[p].pc
<1>1. job[p] \in Job /\ db.files[f] \in Row
  BY DEF TypeOK
<1> DEFINE j0 == job[p]
           r == db.files[f]
<1> HIDE DEF j0, r
<1>2. j0 \in Job /\ r \in Row
  BY <1>1 DEF j0, r
<1>3. LET j == [j0 EXCEPT !.found = @ \cup {f}] IN j \in Job /\ j.pc = j0.pc
  BY <1>2 DEF Job
<1>4. LET j == [j0 EXCEPT !.existing[f] = r] IN j \in Job /\ j.pc = j0.pc
  BY <1>2 DEF Job
<1>5. \A b \in BOOLEAN : LET j == [j0 EXCEPT !.delta = b] IN j \in Job /\ j.pc = j0.pc
  BY <1>2 DEF Job
<1>6. \A R, C \in SUBSET Paths : LET j == [j0 EXCEPT !.removals = R, !.candidates = C]
                               IN  j \in Job /\ j.pc = j0.pc
  BY <1>2 DEF Job
<1>7. \A c \in Content : LET j == [j0 EXCEPT !.hashed[f] = c] IN j \in Job /\ j.pc = j0.pc
  BY <1>2 DEF Job
<1> QED
  BY <1>2, <1>3, <1>4, <1>5, <1>6, <1>7 DEF j0, r

\* The walk reaches a path and may list it (discovery).
LEMMA VisitDiscover ==
  ASSUME TypeOK, NEW p \in Calls, NEW f \in Paths, Discover(p, f)
  PROVE  \E j \in Job : /\ Visit(p, "discover", f, j) /\ j.pc = job[p].pc
                       /\ j = IF Discoverable(disk[f])
                                THEN [job[p] EXCEPT !.found = @ \cup {f}] ELSE job[p]
BY VisitsTyped DEF Discover

\* A page of the files table is read as it is committed (existing_files).
LEMMA VisitReadPage ==
  ASSUME TypeOK, NEW p \in Calls, NEW f \in Paths, ReadPage(p, f)
  PROVE  \E j \in Job : /\ Visit(p, "existing", f, j) /\ j.pc = job[p].pc
                       /\ j = [job[p] EXCEPT !.existing[f] = db.files[f]]
BY VisitsTyped DEF ReadPage

\* A reported path may ask for a discovery (observe_visibility_delta).
LEMMA VisitObserve ==
  ASSUME TypeOK, NEW p \in Calls, NEW f \in Paths, Observe(p, f)
  PROVE  \E j \in Job, b \in BOOLEAN :
           /\ Visit(p, "observe", f, j) /\ j.pc = job[p].pc
           /\ j = [job[p] EXCEPT !.delta = b]
<1> DEFINE b == job[p].delta \/ (disk[f] # "absent" /\ job[p].existing[f] = NoRow)
<1>1. Visit(p, "observe", f, [job[p] EXCEPT !.delta = b]) /\ b \in BOOLEAN
  BY DEF Observe
<1> HIDE DEF b
<1> QED
  BY <1>1, VisitsTyped

\* The plan of a path adds it to removals or candidates.
LEMMA VisitPlan ==
  ASSUME TypeOK, NEW p \in Calls, NEW f \in Paths, Plan(p, f)
  PROVE  \E j \in Job, R, C \in SUBSET Paths :
           /\ Visit(p, "plan", f, j) /\ j.pc = job[p].pc
           /\ j = [job[p] EXCEPT !.removals = R, !.candidates = C]
           /\ R = IF Gone(p, f) THEN job[p].removals \cup {f} ELSE job[p].removals
           /\ C = IF Wanted(p, f) THEN job[p].candidates \cup {f} ELSE job[p].candidates
<1> DEFINE R == IF Gone(p, f) THEN job[p].removals \cup {f} ELSE job[p].removals
           C == IF Wanted(p, f) THEN job[p].candidates \cup {f} ELSE job[p].candidates
<1>1. Visit(p, "plan", f, [job[p] EXCEPT !.removals = R, !.candidates = C])
  BY DEF Plan
<1>2. R \in SUBSET Paths /\ C \in SUBSET Paths
  <2>1. job[p].removals \in SUBSET Paths /\ job[p].candidates \in SUBSET Paths
    <3>1. job[p] \in Job
      BY VisitsTyped
    <3> QED
      BY <3>1 DEF Job
  <2> QED
    BY <2>1
<1>3. R = (IF Gone(p, f) THEN job[p].removals \cup {f} ELSE job[p].removals)
  OBVIOUS
<1>4. C = (IF Wanted(p, f) THEN job[p].candidates \cup {f} ELSE job[p].candidates)
  OBVIOUS
<1> HIDE DEF R, C
<1>5. LET j == [job[p] EXCEPT !.removals = R, !.candidates = C]
      IN  j \in Job /\ j.pc = job[p].pc
  BY <1>2, VisitsTyped
<1> QED
  BY <1>1, <1>2, <1>3, <1>4, <1>5

\* A created file is read, or drops out (plan_relocations).
LEMMA VisitHash ==
  ASSUME TypeOK, NEW p \in Calls, NEW f \in Paths, Hash(p, f)
  PROVE  \E j \in Job, c \in {disk[f], "absent"} :
           /\ Visit(p, "hash", f, j) /\ j.pc = job[p].pc
           /\ j = [job[p] EXCEPT !.hashed[f] = c]
<1>1. PICK c \in {disk[f], "absent"} : Visit(p, "hash", f, [job[p] EXCEPT !.hashed[f] = c])
  BY DEF Hash
<1>2. c \in Content
  BY DEF TypeOK, Content
<1> QED
  BY <1>1, <1>2, VisitsTyped

\* prepare_file: what it does with a file, by what it read.
LEMMA PreparedCases ==
  ASSUME TypeOK, NEW p \in Calls, NEW f \in Paths, NEW c \in Content
  PROVE  LET j == Prepared(p, f, c)
             j0 == job[p]
         IN  /\ j \in Job /\ j.pc = j0.pc
             /\ \/ c \in Texts /\ j0.kind = "paths" /\ j0.existing[f].text = c /\ j = j0
                \/ /\ c \in Texts
                   /\ j = [j0 EXCEPT !.staged[f] = [text |-> c, config |-> ConfigOf[p]]]
                \/ /\ c \in {"binary", "oversized"} /\ j0.existing[f] # NoRow
                   /\ j = [j0 EXCEPT !.removals = @ \cup {f}]
                \/ c \in {"binary", "oversized"} /\ j0.existing[f] = NoRow /\ j = j0
                \/ c = "absent" /\ j = [j0 EXCEPT !.unread = @ \cup {f}]
<1> DEFINE j0 == job[p]
           row == [text |-> c, config |-> ConfigOf[p]]
<1>1. j0 \in Job /\ c \in Texts \cup {"binary", "oversized", "absent"}
  BY VisitsTyped DEF Content
<1>2. c \in Texts => row \in Row
  BY DEF Row, Configs
<1> HIDE DEF j0, row
<1>3. /\ row \in Row => [j0 EXCEPT !.staged[f] = row] \in Job
      /\ [j0 EXCEPT !.staged[f] = row].pc = j0.pc
  BY <1>1 DEF Job
<1>4. /\ [j0 EXCEPT !.removals = @ \cup {f}] \in Job
      /\ [j0 EXCEPT !.removals = @ \cup {f}].pc = j0.pc
  BY <1>1 DEF Job
<1>5. /\ [j0 EXCEPT !.unread = @ \cup {f}] \in Job
      /\ [j0 EXCEPT !.unread = @ \cup {f}].pc = j0.pc
  BY <1>1 DEF Job
<1>6. CASE c \in Texts
  <2>1. c \notin {"binary", "oversized", "absent"}
    BY <1>6, PublicationAssumption
  <2>2. CASE j0.kind = "paths" /\ j0.existing[f].text = c
    <3>1. Prepared(p, f, c) = j0
      BY <1>6, <2>1, <2>2 DEF Prepared, j0
    <3> QED
      BY <1>1, <1>6, <2>2, <3>1 DEF j0
  <2>3. CASE ~(j0.kind = "paths" /\ j0.existing[f].text = c)
    <3>1. Prepared(p, f, c) = [j0 EXCEPT !.staged[f] = row]
      BY <1>6, <2>1, <2>3 DEF Prepared, j0, row
    <3> QED
      BY <1>2, <1>3, <1>6, <3>1 DEF j0, row
  <2> QED
    BY <2>2, <2>3
<1>7. CASE c \in {"binary", "oversized"}
  <2>1. c \notin Texts
    BY <1>7, PublicationAssumption
  <2>2. Prepared(p, f, c) = IF j0.existing[f] # NoRow
                              THEN [j0 EXCEPT !.removals = @ \cup {f}] ELSE j0
    BY <1>7, <2>1 DEF Prepared, j0
  <2> QED
    BY <1>1, <1>4, <1>7, <2>2 DEF j0
<1>8. CASE c = "absent"
  <2>1. c \notin Texts
    BY <1>8, PublicationAssumption
  <2>2. Prepared(p, f, c) = [j0 EXCEPT !.unread = @ \cup {f}]
    BY <1>8, <2>1 DEF Prepared, j0
  <2> QED
    BY <1>5, <1>8, <2>2 DEF j0
<1> QED
  BY <1>1, <1>6, <1>7, <1>8

\* A candidate is read once more, which may fail (prepare_file).
LEMMA VisitPrepare ==
  ASSUME TypeOK, NEW p \in Calls, NEW f \in Paths, Prepare(p, f)
  PROVE  \E c \in {disk[f], "absent"} :
           /\ c \in Content /\ Visit(p, "prepare", f, Prepared(p, f, c))
           /\ Prepared(p, f, c) \in Job /\ Prepared(p, f, c).pc = job[p].pc
<1>1. PICK c \in {disk[f], "absent"} : Visit(p, "prepare", f, Prepared(p, f, c))
  BY DEF Prepare
<1>2. c \in Content
  BY DEF TypeOK, Content
<1> QED
  BY <1>1, <1>2, PreparedCases, Zenon

\* A relocation pairs one removed row with one created file of its text
\* (plan_relocations).
LEMMA SourceFacts ==
  ASSUME TypeOK, NEW p \in Calls, NEW n \in Paths
  PROVE  /\ Source(p, n) \in Paths \cup {NoPath}
         /\ Source(p, n) # NoPath =>
              /\ job[p].hashed[n] \in Texts /\ n \in Created(job[p])
              /\ Source(p, n) \in job[p].removals
              /\ job[p].existing[Source(p, n)].text = job[p].hashed[n]
<1> DEFINE t == job[p].hashed[n]
<1>1. CASE t \in Texts /\ Targets(p, t) = {n} /\ Cardinality(Sources(p, t)) = 1
  <2>1. Sources(p, t) # {}
    BY <1>1, FS_EmptySet
  <2>2. Source(p, n) \in Sources(p, t)
    BY <1>1, <2>1 DEF Source
  <2>3. n \in Created(job[p])
    BY <1>1 DEF Targets
  <2>4. job[p].removals \subseteq Paths
    BY DEF TypeOK, Job
  <2> QED
    BY <1>1, <2>2, <2>3, <2>4 DEF Sources
<1>2. CASE ~(t \in Texts /\ Targets(p, t) = {n} /\ Cardinality(Sources(p, t)) = 1)
  BY <1>2 DEF Source
<1> QED
  BY <1>1, <1>2

\* The job that plan_relocations leaves.
LEMMA RelocateResult ==
  ASSUME TypeOK, NEW p \in Calls, Relocate(p)
  PROVE  \E from \in [Paths -> Paths \cup {NoPath}], rest \in SUBSET Paths, j \in Job :
           /\ from = [n \in Paths |-> Source(p, n)]
           /\ rest = {n \in job[p].candidates : from[n] = NoPath}
           /\ j = [job[p] EXCEPT !.relocated = from, !.candidates = rest]
           /\ j.pc = "relocate" /\ job[p].pc = "relocate"
           /\ job' = [job EXCEPT ![p] = Advance(j)]
           /\ UNCHANGED <<disk, edits, db, window>>
<1> DEFINE from == [n \in Paths |-> Source(p, n)]
           rest == {n \in job[p].candidates : from[n] = NoPath}
           j == [job[p] EXCEPT !.relocated = from, !.candidates = rest]
<1>1. job[p] \in Job
  BY VisitsTyped DEF TypeOK
<1>2. from \in [Paths -> Paths \cup {NoPath}]
  BY SourceFacts
<1>3. rest \in SUBSET Paths
  BY <1>1 DEF Job
<1>4. /\ job[p].pc = "relocate" /\ job' = [job EXCEPT ![p] = Advance(j)]
      /\ UNCHANGED <<disk, edits, db, window>>
  BY DEF Relocate
<1>5. from = [n \in Paths |-> Source(p, n)] /\ rest = {n \in job[p].candidates : from[n] = NoPath}
  OBVIOUS
<1>6. j \in Job /\ j.pc = job[p].pc
  <2> HIDE DEF from, rest
  <2> QED
    BY <1>1, <1>2, <1>3 DEF Job
<1> HIDE DEF from, rest
<1> QED
  BY <1>2, <1>3, <1>4, <1>5, <1>6

\* The writer's files table is typed.
LEMMA WrittenTyped ==
  ASSUME TypeOK, NEW p \in Calls
  PROVE  Written(p) \in [Paths -> Row]
<1> SUFFICES ASSUME NEW f \in Paths PROVE Written(p)[f] \in Row
  BY DEF Written
<1>1. /\ job[p].staged \in [Paths -> Row]
      /\ job[p].relocated \in [Paths -> Paths \cup {NoPath}]
      /\ db.files \in [Paths -> Row]
  BY DEF TypeOK, Job
<1> QED
  BY <1>1, Rows DEF Written

\* A new attempt or the end of a call leaves typed jobs.
LEMMA CallTyped ==
  ASSUME TypeOK, NEW p \in Calls, db' \in [gen : Nat, config : Configs, files : [Paths -> Row]],
         UNCHANGED <<disk, edits>>,
         \/ \E pc \in {"idle", "ok", "failed"} : End(p, pc)
         \/ \E kind \in Kinds, rep \in SUBSET Paths, a \in 1 .. Attempts :
              StartAttempt(p, kind, rep, a)
  PROVE  TypeOK'
<1>1. ASSUME NEW pc \in {"idle", "ok", "failed"}, End(p, pc) PROVE TypeOK'
  <2> DEFINE j == [Fresh("full", {}, 0) EXCEPT !.pc = pc]
  <2>1. j \in Job
    <3>1. "full" \in Kinds /\ {} \in SUBSET Paths /\ 0 \in 0 .. Attempts
      BY PublicationAssumption DEF Kinds
    <3> QED
      BY <3>1, FreshTyped, Zenon
  <2>2. job' = [job EXCEPT ![p] = j] /\ window' = [window EXCEPT ![p] = [f \in Paths |-> {}]]
    BY <1>1 DEF End
  <2> HIDE DEF j
  <2> QED
    BY <2>1, <2>2 DEF TypeOK
<1>2. ASSUME NEW kind \in Kinds, NEW rep \in SUBSET Paths, NEW a \in 1 .. Attempts,
             StartAttempt(p, kind, rep, a)
      PROVE  TypeOK'
  <2> DEFINE j == Fresh(KindFor(p, kind), rep, IF KindFor(p, kind) = kind THEN a ELSE 1)
  <2>1. j \in Job
    <3>1. KindFor(p, kind) \in Kinds
      BY DEF KindFor, Kinds
    <3>2. (IF KindFor(p, kind) = kind THEN a ELSE 1) \in 0 .. Attempts
      BY PublicationAssumption
    <3> QED
      BY <3>1, <3>2, FreshTyped
  <2>2. job' = [job EXCEPT ![p] = j] /\ window' = [window EXCEPT ![p] = [f \in Paths |-> {disk[f]}]]
    BY <1>2 DEF StartAttempt
  <2>3. [f \in Paths |-> {disk[f]}] \in [Paths -> SUBSET Content]
    BY DEF TypeOK
  <2> HIDE DEF j
  <2> QED
    BY <2>1, <2>2, <2>3 DEF TypeOK
<1> QED
  BY <1>1, <1>2

\* Which calls start or end an attempt, and what they do to the database.
LEMMA CallSteps ==
  ASSUME TypeOK, NEW p \in Calls,
         Begin(p) \/ Commit(p) \/ NoOp(p) \/ Stale(p) \/ Abort(p)
  PROVE  /\ db' \in [gen : Nat, config : Configs, files : [Paths -> Row]]
         /\ UNCHANGED <<disk, edits>>
         /\ \/ \E pc \in {"idle", "ok", "failed"} : End(p, pc)
            \/ \E kind \in Kinds, rep \in SUBSET Paths, a \in 1 .. Attempts :
                 StartAttempt(p, kind, rep, a)
<1>0. job[p] \in Job
  BY DEF TypeOK
<1>1. CASE Begin(p)
  BY <1>1, PublicationAssumption DEF Begin, Kinds, TypeOK
<1>2. CASE Commit(p)
  <2>1. db.gen + 1 \in Nat /\ ConfigOf[p] \in Configs
    BY DEF TypeOK, Configs
  <2> QED
    BY <1>2, <2>1, WrittenTyped DEF Commit
<1>3. CASE NoOp(p) \/ Abort(p)
  BY <1>3 DEF NoOp, Abort, TypeOK
<1>4. CASE Stale(p)
  <2>1. /\ job[p].kind \in Kinds /\ job[p].reported \in SUBSET Paths
        /\ job[p].attempt \in 0 .. Attempts
    BY <1>0 DEF Job
  <2>2. job[p].attempt < Attempts => job[p].attempt + 1 \in 1 .. Attempts
    BY <2>1, PublicationAssumption
  <2> QED
    BY <1>4, <2>1, <2>2 DEF Stale, TypeOK
<1> QED
  BY <1>1, <1>2, <1>3, <1>4

\* Every step keeps the types.
LEMMA StepTyped == TypeOK /\ [Next]_vars => TypeOK'
<1> SUFFICES ASSUME TypeOK, [Next]_vars PROVE TypeOK'
  OBVIOUS
<1>1. ASSUME NEW f \in Paths, NEW c \in Content, Edit(f, c) PROVE TypeOK'
  <2>1. window' \in [Calls -> [Paths -> SUBSET Content]]
    BY <1>1 DEF Edit, TypeOK
  <2> QED
    BY <1>1, <2>1, PublicationAssumption DEF Edit, TypeOK
<1>2. ASSUME NEW p \in Calls, Begin(p) \/ Commit(p) \/ NoOp(p) \/ Stale(p) \/ Abort(p)
      PROVE  TypeOK'
  BY <1>2, CallSteps, CallTyped, Zenon
<1>3. ASSUME NEW p \in Calls, Relocate(p) PROVE TypeOK'
  <2>1. PICK j \in Job : /\ j.pc = "relocate" /\ job' = [job EXCEPT ![p] = Advance(j)]
                        /\ UNCHANGED <<disk, edits, db, window>>
    BY <1>3, RelocateResult
  <2>2. Advance(j) \in Job
    BY <2>1, AdvanceFields DEF Phases
  <2> QED
    BY <2>1, <2>2 DEF TypeOK
<1>4. ASSUME NEW p \in Calls, NEW f \in Paths, Discover(p, f) PROVE TypeOK'
  <2>1. PICK j \in Job : Visit(p, "discover", f, j) /\ j.pc = job[p].pc
    BY <1>4, VisitDiscover
  <2>2. j.pc = "discover"
    BY <2>1 DEF Visit
  <2> QED
    BY <2>1, <2>2, VisitResult DEF TypeOK, Phases
<1>5. ASSUME NEW p \in Calls, NEW f \in Paths, ReadPage(p, f) PROVE TypeOK'
  <2>1. PICK j \in Job : Visit(p, "existing", f, j) /\ j.pc = job[p].pc
    BY <1>5, VisitReadPage
  <2>2. j.pc = "existing"
    BY <2>1 DEF Visit
  <2> QED
    BY <2>1, <2>2, VisitResult DEF TypeOK, Phases
<1>6. ASSUME NEW p \in Calls, NEW f \in Paths, Observe(p, f) PROVE TypeOK'
  <2>1. PICK j \in Job : Visit(p, "observe", f, j) /\ j.pc = job[p].pc
    BY <1>6, VisitObserve
  <2>2. j.pc = "observe"
    BY <2>1 DEF Visit
  <2> QED
    BY <2>1, <2>2, VisitResult DEF TypeOK, Phases
<1>7. ASSUME NEW p \in Calls, NEW f \in Paths, Plan(p, f) PROVE TypeOK'
  <2>1. PICK j \in Job : Visit(p, "plan", f, j) /\ j.pc = job[p].pc
    BY <1>7, VisitPlan
  <2>2. j.pc = "plan"
    BY <2>1 DEF Visit
  <2> QED
    BY <2>1, <2>2, VisitResult DEF TypeOK, Phases
<1>8. ASSUME NEW p \in Calls, NEW f \in Paths, Hash(p, f) PROVE TypeOK'
  <2>1. PICK j \in Job : Visit(p, "hash", f, j) /\ j.pc = job[p].pc
    BY <1>8, VisitHash
  <2>2. j.pc = "hash"
    BY <2>1 DEF Visit
  <2> QED
    BY <2>1, <2>2, VisitResult DEF TypeOK, Phases
<1>9. ASSUME NEW p \in Calls, NEW f \in Paths, Prepare(p, f) PROVE TypeOK'
  <2>1. PICK j \in Job : Visit(p, "prepare", f, j) /\ j.pc = job[p].pc
    BY <1>9, VisitPrepare
  <2>2. j.pc = "prepare"
    BY <2>1 DEF Visit
  <2> QED
    BY <2>1, <2>2, VisitResult DEF TypeOK, Phases
<1>10. CASE UNCHANGED vars
  BY <1>10 DEF TypeOK, vars
<1> QED
  BY <1>1, <1>2, <1>3, <1>4, <1>5, <1>6, <1>7, <1>8, <1>9, <1>10, Zenon
     DEF Next, Step

\* A cache some earlier process published is typed.
LEMMA InitTyped == Init => TypeOK
<1> SUFFICES ASSUME Init PROVE TypeOK
  OBVIOUS
<1>1. db \in [gen : Nat, config : Configs, files : [Paths -> Row]]
  BY Rows DEF Init, Configs, Row
<1>2. [Fresh("full", {}, 0) EXCEPT !.pc = "idle"] \in Job
  <2>1. "full" \in Kinds /\ {} \in SUBSET Paths /\ 0 \in 0 .. Attempts
    BY PublicationAssumption DEF Kinds
  <2> QED
    BY <1>1, <2>1, FreshOfTables, Zenon
<1>3. job \in [Calls -> Job]
  BY <1>2 DEF Init
<1>4. window \in [Calls -> [Paths -> SUBSET Content]]
  BY DEF Init
<1>5. edits \in 0 .. MaxEdits /\ disk \in [Paths -> Content]
  BY PublicationAssumption DEF Init
<1> QED
  BY <1>1, <1>3, <1>4, <1>5 DEF TypeOK

\* Type correctness of every reachable state (indexer/orchestrator.rs).
THEOREM TypeCorrect == Spec => []TypeOK
BY InitTyped, StepTyped, PTL DEF Spec

-----------------------------------------------------------------------------
(* The baseline.                                                           *)

\* The next phase does not count rows as read that were not.
LEMMA PagedAdvance ==
  ASSUME NEW j \in Job, j.pc \in Phases \ {"publish"}, j.left = {}
  PROVE  Paged(Advance(j)) \subseteq Paged(j)
<1> DEFINE k == Advance(j)
<1>1. k.pc = After(j)[1] /\ k.left = After(j)[2] /\ k.kind = j.kind /\ k.pc \in Phases
  BY AdvanceFields, AdvanceKeeps
<1> HIDE DEF k
<1>2. CASE j.pc = "discover"
  BY <1>1, <1>2, AfterCases DEF Paged, k
<1>3. CASE j.pc = "existing"
  BY <1>1, <1>3, AfterCases DEF Paged, k
<1>4. CASE j.pc \notin {"discover", "existing"}
  <2>1. Paged(j) = Paths
    BY <1>4 DEF Paged
  <2> QED
    BY <2>1 DEF Paged
<1> QED
  BY <1>2, <1>3, <1>4 DEF k

\* A step of one call that keeps its baseline and attempt, and adds only rows as
\* they are committed, keeps the invariant.
LEMMA BaselineOfOne ==
  ASSUME TypeOK, BaselineInv, NEW p \in Calls, UNCHANGED db, job' \in [Calls -> Job],
         \A q \in Calls : q # p => job'[q] = job[q],
         job[p].pc \in Phases,
         job'[p].baseline = job[p].baseline, job'[p].attempt = job[p].attempt,
         job[p].baseline.gen = db.gen =>
           \A f \in Paged(job'[p]) : job'[p].existing[f] = db.files[f]
  PROVE  BaselineInv'
<1> SUFFICES ASSUME NEW q \in Calls, job'[q].pc \in Phases
             PROVE  /\ job'[q].baseline.gen <= db.gen
                    /\ job'[q].attempt <= job'[q].baseline.gen
                    /\ job'[q].baseline.gen = db.gen =>
                         /\ job'[q].baseline.config = db.config
                         /\ \A f \in Paged(job'[q]) : job'[q].existing[f] = db.files[f]
  BY DEF BaselineInv
<1>1. CASE q = p
  BY <1>1 DEF BaselineInv
<1>2. CASE q # p
  BY <1>2 DEF BaselineInv
<1> QED
  BY <1>1, <1>2

\* The same for a visit, whatever phase follows.
LEMMA BaselineVisit ==
  ASSUME TypeOK, BaselineInv, NEW p \in Calls, NEW f \in Paths,
         NEW pc \in Phases \ {"publish"}, NEW j \in Job, j.pc = pc, Visit(p, pc, f, j),
         j.baseline = job[p].baseline, j.attempt = job[p].attempt,
         NEW rest, rest = [j EXCEPT !.left = @ \ {f}],
         job[p].baseline.gen = db.gen =>
           \A g \in Paged(rest) : j.existing[g] = db.files[g]
  PROVE  BaselineInv'
<1>1. /\ job'[p] = (IF rest.left = {} THEN Advance(rest) ELSE rest)
      /\ job' \in [Calls -> Job] /\ \A q \in Calls : q # p => job'[q] = job[q]
      /\ job[p].pc = pc /\ UNCHANGED <<disk, edits, db, window>>
  BY VisitResult
<1>2. /\ rest \in Job /\ rest.pc = pc /\ rest.baseline = j.baseline
      /\ rest.attempt = j.attempt /\ rest.existing = j.existing
  BY VisitFields
<1>3. /\ job'[p].baseline = rest.baseline /\ job'[p].attempt = rest.attempt
      /\ job'[p].existing = rest.existing /\ Paged(job'[p]) \subseteq Paged(rest)
  <2>1. CASE rest.left = {}
    BY <1>1, <1>2, <2>1, AdvanceKeeps, PagedAdvance
  <2>2. CASE rest.left # {}
    BY <1>1, <2>2
  <2> QED
    BY <2>1, <2>2
<1>4. job[p].baseline.gen = db.gen =>
        \A g \in Paged(job'[p]) : job'[p].existing[g] = db.files[g]
  BY <1>2, <1>3
<1>5. /\ UNCHANGED db /\ job[p].pc \in Phases /\ job'[p].baseline = job[p].baseline
      /\ job'[p].attempt = job[p].attempt
  BY <1>1, <1>2, <1>3
<1> QED
  BY <1>1, <1>4, <1>5, BaselineOfOne

\* A call that starts an attempt or ends leaves the other calls alone.
LEMMA CallOthers ==
  ASSUME TypeOK, NEW p \in Calls,
         \/ \E pc \in {"idle", "ok", "failed"} : End(p, pc)
         \/ \E kind \in Kinds, rep \in SUBSET Paths, a \in 1 .. Attempts :
              StartAttempt(p, kind, rep, a)
  PROVE  \A q \in Calls : q # p => job'[q] = job[q] /\ window'[q] = window[q]
BY DEF TypeOK, End, StartAttempt

\* A call that ended is in no phase.
LEMMA EndedIsNoPhase ==
  ASSUME TypeOK, NEW p \in Calls, NEW pc \in {"idle", "ok", "failed"}, End(p, pc)
  PROVE  job'[p].pc = pc /\ job'[p].pc \notin Phases
<1>1. [Fresh("full", {}, 0) EXCEPT !.pc = pc].pc = pc
  BY DEF Fresh
<1>2. job'[p] = [Fresh("full", {}, 0) EXCEPT !.pc = pc]
  BY DEF End, TypeOK
<1> QED
  BY <1>1, <1>2 DEF Phases

\* What a new attempt starts from.
LEMMA StartedJob ==
  ASSUME TypeOK, NEW p \in Calls, NEW kind \in Kinds, NEW rep \in SUBSET Paths,
         NEW a \in 1 .. Attempts, StartAttempt(p, kind, rep, a)
  PROVE  /\ job'[p].pc = IF job'[p].kind = "paths" THEN "existing" ELSE "discover"
         /\ job'[p].attempt \in {a, 1} /\ job'[p].left = Paths
         /\ job'[p].baseline = [gen |-> db.gen, config |-> db.config]
         /\ job'[p].candidates = {} /\ job'[p].removals = {} /\ job'[p].unread = {}
         /\ job'[p].hashed = [f \in Paths |-> "absent"]
         /\ job'[p].relocated = [f \in Paths |-> NoPath]
         /\ job'[p].staged = [f \in Paths |-> NoRow]
         /\ window'[p] = [f \in Paths |-> {disk[f]}]
<1> DEFINE k == KindFor(p, kind)
           b == IF k = kind THEN a ELSE 1
<1>1. job'[p] = Fresh(k, rep, b) /\ window'[p] = [f \in Paths |-> {disk[f]}]
  BY DEF StartAttempt, TypeOK
<1>2. b \in {a, 1}
  OBVIOUS
<1> HIDE DEF k, b
<1> QED
  BY <1>1, <1>2 DEF Fresh

\* Every step keeps what is known of the baselines.
LEMMA StepBaseline == TypeOK /\ BaselineInv /\ [Next]_vars => BaselineInv'
<1> SUFFICES ASSUME TypeOK, BaselineInv, [Next]_vars PROVE BaselineInv'
  OBVIOUS
<1>1. ASSUME NEW f \in Paths, NEW c \in Content, Edit(f, c) PROVE BaselineInv'
  BY <1>1 DEF Edit, BaselineInv
<1>2. ASSUME NEW p \in Calls, Begin(p) \/ Stale(p) \/ Abort(p) \/ NoOp(p)
      PROVE  BaselineInv'
  <2>0. UNCHANGED db /\ \A q \in Calls : q # p => job'[q] = job[q]
    BY <1>2, CallSteps, CallOthers, Zenon DEF Begin, Stale, Abort, NoOp
  <2>1. ASSUME job'[p].pc \in Phases
        PROVE  /\ job'[p].baseline.gen = db.gen /\ job'[p].baseline.config = db.config
               /\ job'[p].attempt <= db.gen /\ Paged(job'[p]) = {}
    <3>1. PICK kind \in Kinds, rep \in SUBSET Paths, a \in 1 .. Attempts :
            /\ StartAttempt(p, kind, rep, a)
            /\ a = 1 \/ (Stale(p) /\ a = job[p].attempt + 1)
      <4>1. CASE Begin(p)
        BY <4>1, PublicationAssumption DEF Begin, Kinds
      <4>2. CASE Stale(p)
        <5>1. ~End(p, "failed")
          BY <2>1, EndedIsNoPhase
        <5>2. job[p].attempt < Attempts /\ StartAttempt(p, job[p].kind, job[p].reported, job[p].attempt + 1)
          BY <4>2, <5>1 DEF Stale
        <5>3. /\ job[p].kind \in Kinds /\ job[p].reported \in SUBSET Paths
              /\ job[p].attempt \in 0 .. Attempts
          BY DEF TypeOK, Job
        <5>4. job[p].attempt + 1 \in 1 .. Attempts
          BY <5>2, <5>3, PublicationAssumption
        <5> QED
          BY <4>2, <5>2, <5>3, <5>4
      <4>3. CASE Abort(p) \/ NoOp(p)
        BY <2>1, <4>3, EndedIsNoPhase DEF Abort, NoOp
      <4> QED
        BY <1>2, <4>1, <4>2, <4>3
    <3>2. /\ job'[p].baseline = [gen |-> db.gen, config |-> db.config]
          /\ job'[p].attempt \in {a, 1} /\ job'[p].left = Paths
          /\ job'[p].pc = IF job'[p].kind = "paths" THEN "existing" ELSE "discover"
      BY <3>1, StartedJob
    <3>3. a <= db.gen /\ 1 <= db.gen
      <4>1. CASE a = 1
        BY <4>1 DEF BaselineInv
      <4>2. CASE Stale(p) /\ a = job[p].attempt + 1
        <5>1. /\ job[p].attempt <= job[p].baseline.gen /\ job[p].baseline.gen <= db.gen
              /\ job[p].baseline.gen # db.gen /\ db.gen >= 1
          BY <4>2 DEF BaselineInv, Stale, VerifyBaseline, Phases
        <5>2. /\ job[p].attempt \in Nat /\ job[p].baseline.gen \in Nat /\ db.gen \in Nat
          BY DEF TypeOK, Job
        <5> QED
          BY <4>2, <5>1, <5>2
      <4> QED
        BY <3>1, <4>1, <4>2
    <3> QED
      BY <3>2, <3>3 DEF Paged
  <2>2. ASSUME NEW q \in Calls, job'[q].pc \in Phases
        PROVE  /\ job'[q].baseline.gen <= db.gen
               /\ job'[q].attempt <= job'[q].baseline.gen
               /\ job'[q].baseline.gen = db.gen =>
                    /\ job'[q].baseline.config = db.config
                    /\ \A f \in Paged(job'[q]) : job'[q].existing[f] = db.files[f]
    <3>1. db.gen \in Nat
      BY DEF TypeOK
    <3>2. CASE q = p
      BY <2>1, <2>2, <3>1, <3>2
    <3>3. CASE q # p
      BY <2>0, <2>2, <3>3 DEF BaselineInv
    <3> QED
      BY <3>2, <3>3
  <2>3. db.gen >= 1
    BY DEF BaselineInv
  <2> QED
    BY <2>0, <2>2, <2>3 DEF BaselineInv
<1>3. ASSUME NEW p \in Calls, Commit(p) PROVE BaselineInv'
  <2>1. /\ db'.gen = db.gen + 1 /\ job'[p].pc \notin Phases
        /\ \A q \in Calls : q # p => job'[q] = job[q]
    BY <1>3, CallSteps, CallOthers, EndedIsNoPhase DEF Commit
  <2>2. ASSUME NEW q \in Calls, job'[q].pc \in Phases
        PROVE  /\ job'[q].baseline.gen <= db.gen /\ job'[q].attempt <= job'[q].baseline.gen
               /\ job'[q].baseline.gen \in Nat
    <3>1. q # p /\ job'[q] = job[q]
      BY <2>1, <2>2
    <3>2. job[q].baseline.gen \in Nat
      BY DEF TypeOK, Job
    <3> QED
      BY <2>2, <3>1, <3>2 DEF BaselineInv
  <2>3. db.gen \in Nat /\ db.gen >= 1
    BY DEF TypeOK, BaselineInv
  <2>4. ASSUME NEW q \in Calls, job'[q].pc \in Phases
        PROVE  job'[q].baseline.gen <= db'.gen /\ job'[q].baseline.gen # db'.gen
    BY <2>1, <2>2, <2>3, <2>4
  <2>5. db'.gen >= 1
    BY <2>1, <2>3
  <2> QED
    BY <2>2, <2>4, <2>5 DEF BaselineInv
<1>4. ASSUME NEW p \in Calls, Relocate(p) PROVE BaselineInv'
  <2>1. PICK from \in [Paths -> Paths \cup {NoPath}], C \in SUBSET Paths, j \in Job :
          /\ from = [n \in Paths |-> Source(p, n)]
          /\ C = {n \in job[p].candidates : from[n] = NoPath}
          /\ j = [job[p] EXCEPT !.relocated = from, !.candidates = C]
          /\ j.pc = "relocate" /\ job[p].pc = "relocate"
          /\ job' = [job EXCEPT ![p] = Advance(j)]
          /\ UNCHANGED <<disk, edits, db, window>>
    BY <1>4, RelocateResult, Zenon
  <2>2. job[p] \in Job /\ job[p].pc \in Phases /\ j.pc \in Phases \ {"publish"}
    BY <2>1 DEF TypeOK, Phases
  <2>3. /\ j.baseline = job[p].baseline /\ j.attempt = job[p].attempt
        /\ j.existing = job[p].existing
    BY <2>1, <2>2 DEF Job
  <2>4. /\ job'[p] = Advance(j) /\ Advance(j) \in Job
        /\ \A q \in Calls : q # p => job'[q] = job[q]
    BY <2>1, <2>2, AdvanceFields DEF TypeOK
  <2>5. job' \in [Calls -> Job]
    BY <2>1, <2>4 DEF TypeOK
  <2>6. Paged(job[p]) = Paths /\ Paged(job'[p]) \subseteq Paths
    BY <2>1 DEF Paged
  <2>7. /\ job'[p].baseline = job[p].baseline /\ job'[p].attempt = job[p].attempt
        /\ job'[p].existing = job[p].existing
    BY <2>2, <2>3, <2>4, AdvanceKeeps
  <2>8. job[p].baseline.gen = db.gen =>
          \A f \in Paged(job'[p]) : job'[p].existing[f] = db.files[f]
    BY <2>2, <2>6, <2>7 DEF BaselineInv
  <2> QED
    BY <2>1, <2>2, <2>4, <2>5, <2>7, <2>8, BaselineOfOne
<1>5. ASSUME NEW p \in Calls, NEW f \in Paths, Discover(p, f) PROVE BaselineInv'
  <2>0. job[p] \in Job /\ "discover" \in Phases \ {"publish"}
    BY DEF TypeOK, Phases
  <2>1. PICK j \in Job :
          /\ Visit(p, "discover", f, j) /\ j.pc = job[p].pc
          /\ j = IF Discoverable(disk[f])
                   THEN [job[p] EXCEPT !.found = @ \cup {f}] ELSE job[p]
    BY <1>5, VisitDiscover
  <2> DEFINE rest == [j EXCEPT !.left = @ \ {f}]
  <2>2. /\ j.baseline = job[p].baseline /\ j.attempt = job[p].attempt
        /\ j.existing = job[p].existing /\ j.kind = job[p].kind
    BY <2>0, <2>1 DEF Job
  <2>3. job[p].pc = "discover" /\ f \in job[p].left
    BY <2>1 DEF Visit
  <2>4. rest \in Job /\ rest.pc = "discover" /\ rest.left = j.left \ {f} /\ rest.kind = j.kind
    BY <2>1, <2>3, VisitFields
  <2> HIDE DEF rest
  <2>5. Paged(rest) \subseteq Paged(job[p])
    BY <2>2, <2>3, <2>4 DEF Paged
  <2>6. job[p].baseline.gen = db.gen => \A g \in Paged(rest) : j.existing[g] = db.files[g]
    BY <2>2, <2>3, <2>5 DEF BaselineInv, Phases
  <2>7. j \in Job /\ j.pc = "discover" /\ Visit(p, "discover", f, j)
    BY <2>1, <2>3
  <2> QED
    BY <2>0, <2>2, <2>6, <2>7, BaselineVisit DEF rest
<1>6. ASSUME NEW p \in Calls, NEW f \in Paths, Observe(p, f) PROVE BaselineInv'
  <2>0. job[p] \in Job /\ "observe" \in Phases \ {"publish"}
    BY DEF TypeOK, Phases
  <2>1. PICK j \in Job, b \in BOOLEAN :
          /\ Visit(p, "observe", f, j) /\ j.pc = job[p].pc
          /\ j = [job[p] EXCEPT !.delta = b]
    BY <1>6, VisitObserve
  <2> DEFINE rest == [j EXCEPT !.left = @ \ {f}]
  <2>2. /\ j.baseline = job[p].baseline /\ j.attempt = job[p].attempt
        /\ j.existing = job[p].existing
    BY <2>0, <2>1 DEF Job
  <2>3. job[p].pc = "observe" /\ f \in job[p].left
    BY <2>1 DEF Visit
  <2>4. rest \in Job /\ rest.pc = "observe" /\ rest.left = j.left \ {f} /\ rest.kind = j.kind
    BY <2>1, <2>3, VisitFields
  <2> HIDE DEF rest
  <2>5. Paged(rest) \subseteq Paged(job[p])
    BY <2>2, <2>3, <2>4 DEF Paged
  <2>6. job[p].baseline.gen = db.gen => \A g \in Paged(rest) : j.existing[g] = db.files[g]
    BY <2>2, <2>3, <2>5 DEF BaselineInv, Phases
  <2>7. j \in Job /\ j.pc = "observe" /\ Visit(p, "observe", f, j)
    BY <2>1, <2>3
  <2> QED
    BY <2>0, <2>2, <2>6, <2>7, BaselineVisit DEF rest
<1>7. ASSUME NEW p \in Calls, NEW f \in Paths, Plan(p, f) PROVE BaselineInv'
  <2>0. job[p] \in Job /\ "plan" \in Phases \ {"publish"}
    BY DEF TypeOK, Phases
  <2>1. PICK j \in Job, R \in SUBSET Paths, C \in SUBSET Paths :
          /\ Visit(p, "plan", f, j) /\ j.pc = job[p].pc
          /\ j = [job[p] EXCEPT !.removals = R, !.candidates = C]
          /\ R = IF Gone(p, f) THEN job[p].removals \cup {f} ELSE job[p].removals
          /\ C = IF Wanted(p, f) THEN job[p].candidates \cup {f} ELSE job[p].candidates
    BY <1>7, VisitPlan
  <2> DEFINE rest == [j EXCEPT !.left = @ \ {f}]
  <2>2. /\ j.baseline = job[p].baseline /\ j.attempt = job[p].attempt
        /\ j.existing = job[p].existing
    BY <2>0, <2>1 DEF Job
  <2>3. job[p].pc = "plan" /\ f \in job[p].left
    BY <2>1 DEF Visit
  <2>4. rest \in Job /\ rest.pc = "plan" /\ rest.left = j.left \ {f} /\ rest.kind = j.kind
    BY <2>1, <2>3, VisitFields
  <2> HIDE DEF rest
  <2>5. Paged(rest) \subseteq Paged(job[p])
    BY <2>2, <2>3, <2>4 DEF Paged
  <2>6. job[p].baseline.gen = db.gen => \A g \in Paged(rest) : j.existing[g] = db.files[g]
    BY <2>2, <2>3, <2>5 DEF BaselineInv, Phases
  <2>7. j \in Job /\ j.pc = "plan" /\ Visit(p, "plan", f, j)
    BY <2>1, <2>3
  <2> QED
    BY <2>0, <2>2, <2>6, <2>7, BaselineVisit DEF rest
<1>8. ASSUME NEW p \in Calls, NEW f \in Paths, Hash(p, f) PROVE BaselineInv'
  <2>0. job[p] \in Job /\ "hash" \in Phases \ {"publish"}
    BY DEF TypeOK, Phases
  <2>1. PICK j \in Job, c \in {disk[f], "absent"} :
          /\ Visit(p, "hash", f, j) /\ j.pc = job[p].pc
          /\ j = [job[p] EXCEPT !.hashed[f] = c]
    BY <1>8, VisitHash
  <2> DEFINE rest == [j EXCEPT !.left = @ \ {f}]
  <2>2. /\ j.baseline = job[p].baseline /\ j.attempt = job[p].attempt
        /\ j.existing = job[p].existing
    BY <2>0, <2>1 DEF Job
  <2>3. job[p].pc = "hash" /\ f \in job[p].left
    BY <2>1 DEF Visit
  <2>4. rest \in Job /\ rest.pc = "hash" /\ rest.left = j.left \ {f} /\ rest.kind = j.kind
    BY <2>1, <2>3, VisitFields
  <2> HIDE DEF rest
  <2>5. Paged(rest) \subseteq Paged(job[p])
    BY <2>2, <2>3, <2>4 DEF Paged
  <2>6. job[p].baseline.gen = db.gen => \A g \in Paged(rest) : j.existing[g] = db.files[g]
    BY <2>2, <2>3, <2>5 DEF BaselineInv, Phases
  <2>7. j \in Job /\ j.pc = "hash" /\ Visit(p, "hash", f, j)
    BY <2>1, <2>3
  <2> QED
    BY <2>0, <2>2, <2>6, <2>7, BaselineVisit DEF rest
<1>9. ASSUME NEW p \in Calls, NEW f \in Paths, Prepare(p, f) PROVE BaselineInv'
  <2>0. job[p] \in Job /\ "prepare" \in Phases \ {"publish"}
    BY DEF TypeOK, Phases
  <2>1. PICK c \in {disk[f], "absent"} :
          /\ c \in Content /\ Visit(p, "prepare", f, Prepared(p, f, c))
          /\ Prepared(p, f, c) \in Job /\ Prepared(p, f, c).pc = job[p].pc
    BY <1>9, VisitPrepare
  <2> DEFINE j == Prepared(p, f, c)
             rest == [j EXCEPT !.left = @ \ {f}]
  <2>2. /\ j.baseline = job[p].baseline /\ j.attempt = job[p].attempt
        /\ j.existing = job[p].existing
    <3>1. \/ j = job[p] \/ j = [job[p] EXCEPT !.staged[f] = [text |-> c, config |-> ConfigOf[p]]]
          \/ j = [job[p] EXCEPT !.removals = @ \cup {f}]
          \/ j = [job[p] EXCEPT !.unread = @ \cup {f}]
      BY <2>1, PreparedCases
    <3> HIDE DEF j
    <3> QED
      BY <2>0, <3>1 DEF Job
  <2> HIDE DEF j
  <2>3. job[p].pc = "prepare" /\ f \in job[p].left
    BY <2>1 DEF Visit, j
  <2>4. rest \in Job /\ rest.pc = "prepare" /\ rest.left = j.left \ {f} /\ rest.kind = j.kind
    BY <2>1, <2>3, VisitFields DEF j
  <2> HIDE DEF rest
  <2>5. Paged(rest) \subseteq Paged(job[p])
    BY <2>2, <2>3, <2>4 DEF Paged
  <2>6. job[p].baseline.gen = db.gen => \A g \in Paged(rest) : j.existing[g] = db.files[g]
    BY <2>2, <2>3, <2>5 DEF BaselineInv, Phases
  <2>7. j \in Job /\ j.pc = "prepare" /\ Visit(p, "prepare", f, j)
    BY <2>1, <2>3 DEF j
  <2> QED
    BY <2>0, <2>2, <2>6, <2>7, BaselineVisit DEF rest
<1>10. ASSUME NEW p \in Calls, NEW f \in Paths, ReadPage(p, f) PROVE BaselineInv'
  <2>0. job[p] \in Job /\ "existing" \in Phases \ {"publish"}
    BY DEF TypeOK, Phases
  <2>1. PICK j \in Job :
          /\ Visit(p, "existing", f, j) /\ j.pc = job[p].pc
          /\ j = [job[p] EXCEPT !.existing[f] = db.files[f]]
    BY <1>10, VisitReadPage
  <2> DEFINE rest == [j EXCEPT !.left = @ \ {f}]
  <2>2. /\ j.baseline = job[p].baseline /\ j.attempt = job[p].attempt
        /\ j.left = job[p].left /\ j.existing = [job[p].existing EXCEPT ![f] = db.files[f]]
    BY <2>0, <2>1 DEF Job
  <2>8. rest = [j EXCEPT !.left = @ \ {f}]
    OBVIOUS
  <2>3. job[p].pc = "existing" /\ f \in job[p].left
    BY <2>1 DEF Visit
  <2>4. rest \in Job /\ rest.pc = "existing" /\ rest.left = j.left \ {f} /\ rest.kind = j.kind
    BY <2>1, <2>3, VisitFields
  <2> HIDE DEF rest
  <2>5. ASSUME job[p].baseline.gen = db.gen, NEW g \in Paged(rest)
        PROVE  j.existing[g] = db.files[g]
    <3>1. g \in Paths \ (job[p].left \ {f})
      BY <2>2, <2>4 DEF Paged
    <3>2. g # f => g \in Paged(job[p])
      BY <2>3, <3>1 DEF Paged
    <3>3. job[p].existing \in [Paths -> Row]
      BY <2>0 DEF Job
    <3> QED
      BY <2>2, <2>3, <2>5, <3>1, <3>2, <3>3 DEF BaselineInv, Phases
  <2>6. job[p].baseline.gen = db.gen => \A g \in Paged(rest) : j.existing[g] = db.files[g]
    BY <2>5
  <2>7. j \in Job /\ j.pc = "existing" /\ Visit(p, "existing", f, j)
    BY <2>1, <2>3
  <2>9. /\ "existing" \in Phases \ {"publish"}
        /\ j.baseline = job[p].baseline /\ j.attempt = job[p].attempt
    BY <2>0, <2>2
  <2> QED
    BY <2>6, <2>7, <2>8, <2>9, BaselineVisit
<1>11. CASE UNCHANGED vars
  BY <1>11 DEF BaselineInv, vars
<1> QED
  BY <1>1, <1>2, <1>3, <1>4, <1>5, <1>6, <1>7, <1>8, <1>9, <1>10, <1>11, Zenon
     DEF Next, Step

\* The first generation is 1, and no call has begun.
LEMMA InitBaseline == Init => BaselineInv
<1> SUFFICES ASSUME Init PROVE BaselineInv
  OBVIOUS
<1>1. [Fresh("full", {}, 0) EXCEPT !.pc = "idle"].pc = "idle"
  BY DEF Fresh
<1>2. \A p \in Calls : job[p].pc \notin Phases
  BY <1>1 DEF Init, Phases
<1> QED
  BY <1>2 DEF Init, BaselineInv

\* A plan that passes the baseline check was made from the committed files table,
\* although its pages were read one transaction at a time (verify_baseline).
THEOREM PlansAreCommitted == Spec => []PlanFromCommitted
<1>1. BaselineInv /\ TypeOK => PlanFromCommitted
  <2> SUFFICES ASSUME BaselineInv, TypeOK, NEW p \in Calls, job[p].pc \in Phases,
                      job[p].baseline.gen = db.gen
               PROVE  /\ job[p].baseline.config = db.config
                      /\ job[p].pc \in {"plan", "hash", "relocate", "prepare", "publish"} =>
                           job[p].existing = db.files
    BY DEF PlanFromCommitted
  <2>1. job[p].pc \in {"plan", "hash", "relocate", "prepare", "publish"} => Paged(job[p]) = Paths
    BY DEF Paged
  <2>2. job[p].existing \in [Paths -> Row] /\ db.files \in [Paths -> Row]
    BY DEF TypeOK, Job
  <2> QED
    BY <2>1, <2>2 DEF BaselineInv
<1> QED
  BY <1>1, InitTyped, InitBaseline, StepTyped, StepBaseline, PTL DEF Spec

\* A call that gives up has lost every attempt to a publication of another call
\* (StaleReconciliation, RetryableConflict).
THEOREM ConflictsAreProgress == Spec => []ConflictMeansProgress
<1>1. BaselineInv => ConflictMeansProgress
  BY DEF BaselineInv, ConflictMeansProgress
<1> QED
  BY <1>1, InitTyped, InitBaseline, StepTyped, StepBaseline, PTL DEF Spec

-----------------------------------------------------------------------------
(* Plan and stage.                                                         *)

\* What JobInv says of one call, but for the relocations that are not planned
\* yet.
PartsInv(j, w) == PlanInv(j, w) /\ StageInv(j, w) /\ RelocationInv(j, w)

\* Contents that were seen stay seen.
LEMMA SeenGrows ==
  ASSUME NEW w, NEW v, NEW f \in Paths, w[f] \subseteq v[f]
  PROVE  Seen(w, f) \subseteq Seen(v, f)
BY DEF Seen

\* A content a path has is seen, as the text or as no row.
LEMMA SeenNow ==
  ASSUME NEW w, NEW f \in Paths, NEW c \in Content, c \in w[f]
  PROVE  /\ c \in Texts => c \in Seen(w, f)
         /\ c \notin Texts => "absent" \in Seen(w, f)
BY DEF Seen, Indexed

\* What was planned from a window stays right when the window grows.
LEMMA PartsGrow ==
  ASSUME NEW j \in Job, NEW w, NEW v, \A f \in Paths : w[f] \subseteq v[f],
         PartsInv(j, w)
  PROVE  PartsInv(j, v)
<1>1. \A f \in Paths : Seen(w, f) \subseteq Seen(v, f)
  BY SeenGrows
<1>2. \A f \in Paths : Leave(j, w, f) => Leave(j, v, f)
  BY <1>1 DEF Leave
<1>3. /\ Walked(j) \subseteq Paths /\ Planned(j) \subseteq Paths
      /\ Settled(j) \subseteq Paths /\ j.removals \subseteq Paths
  BY DEF Walked, Planned, Settled, Job
<1>4. PlanInv(j, v)
  BY <1>1, <1>2, <1>3, Zenon DEF PlanInv, PartsInv
<1>5. StageInv(j, v)
  BY <1>1, <1>2, <1>3, Zenon DEF StageInv, PartsInv
<1>6. RelocationInv(j, v)
  BY DEF RelocationInv, PartsInv
<1> QED
  BY <1>4, <1>5, <1>6 DEF PartsInv

\* The next phase begins with nothing planned and nothing settled that was not.
LEMMA AdvanceSets ==
  ASSUME NEW j \in Job, j.pc \in Phases \ {"publish"},
         j.pc = "relocate" \/ j.left = {},
         j.pc = "observe" => j.kind = "paths",
         NEW k, k = Advance(j)
  PROVE  /\ Walked(k) \subseteq Walked(j)
         /\ Planned(k) \subseteq Planned(j)
         /\ Settled(k) = Settled(j)
         /\ k.pc = "prepare" => k.left = k.candidates
         /\ k.pc = "observe" => k.kind = "paths"
         /\ k.pc \in {"discover", "existing", "observe"} =>
              j.pc \in {"discover", "existing", "observe"}
         /\ k.pc = "plan" => j.pc \in {"discover", "existing", "observe"}
         /\ k.pc \notin {"prepare", "publish"} => j.pc \notin {"prepare", "publish"}
<1>1. /\ k.pc = After(j)[1] /\ k.left = After(j)[2] /\ k.pc \in Phases
      /\ k.kind = j.kind /\ k.reported = j.reported /\ k.delta = j.delta
      /\ k.candidates = j.candidates
  BY AdvanceFields, AdvanceKeeps
<1>2. j.reported \subseteq Paths /\ j.candidates \subseteq Paths
  BY DEF Job
<1>3. CASE j.pc = "discover"
  <2>1. k.pc = IF j.kind = "paths" THEN "plan" ELSE "existing"
    BY <1>1, <1>3, AfterCases
  <2>2. k.left = Paths
    BY <1>1, <1>3, AfterCases
  <2>3. Walked(j) = Paths /\ Planned(j) = {} /\ Settled(j) = {}
    <3>1. Walked(j) = Paths
      BY <1>3, Zenon DEF Walked
    <3>2. Planned(j) = {} /\ Settled(j) = {}
      BY <1>3 DEF Planned, Settled
    <3> QED
      BY <3>1, <3>2
  <2>4. Walked(k) \subseteq Paths /\ Planned(k) = {} /\ Settled(k) = {}
    BY <1>1, <1>2, <2>1, <2>2 DEF Walked, Planned, Settled
  <2> QED
    BY <1>3, <2>1, <2>3, <2>4
<1>4. CASE j.pc = "existing"
  <2>1. k.pc = IF j.kind = "paths" THEN "observe" ELSE "plan"
    BY <1>1, <1>4, AfterCases
  <2>2. j.kind # "paths" => k.left = Paths
    BY <1>1, <1>4, AfterCases
  <2>3. Planned(j) = {} /\ Settled(j) = {}
    BY <1>4 DEF Planned, Settled
  <2>4. Walked(k) = Walked(j)
    BY <1>1, <1>4, <2>1 DEF Walked
  <2>5. Planned(k) = {} /\ Settled(k) = {}
    BY <1>1, <1>2, <2>1, <2>2 DEF Planned, Settled
  <2> QED
    BY <1>1, <1>4, <2>1, <2>3, <2>4, <2>5
<1>5. CASE j.pc = "observe"
  <2>1. /\ k.pc = IF j.delta THEN "discover" ELSE "plan"
        /\ k.left = IF j.delta THEN Paths ELSE j.reported
    BY <1>1, <1>5, AfterCases
  <2>2. Walked(k) = {} /\ Planned(k) = {} /\ Settled(k) = {}
    BY <1>1, <1>2, <1>5, <2>1 DEF Walked, Planned, Settled
  <2>3. Settled(j) = {}
    BY <1>5 DEF Settled
  <2> QED
    BY <1>5, <2>1, <2>2, <2>3
<1>6. CASE j.pc \in {"plan", "hash", "relocate", "prepare"}
  <2>1. /\ k.pc \in {"hash", "relocate", "prepare", "publish"}
        /\ k.pc = "prepare" => k.left = j.candidates /\ j.pc # "prepare"
        /\ k.pc = "publish" => j.candidates = {} \/ j.pc = "prepare"
        /\ j.pc = "prepare" => k.pc = "publish"
    <3>1. CASE j.pc = "plan"
      <4>1. After(j) \in {<<"publish", {}>>, <<"prepare", j.candidates>>,
                          <<"hash", Created(j)>>}
        BY <3>1, AfterCases
      <4>2. After(j) = <<"publish", {}>> => j.candidates = {}
        BY <3>1, AfterCases
      <4> QED
        BY <1>1, <3>1, <4>1, <4>2
    <3>2. CASE j.pc = "relocate"
      <4>1. After(j) \in {<<"publish", {}>>, <<"prepare", j.candidates>>}
        BY <3>2, AfterCases
      <4>2. After(j) = <<"publish", {}>> => j.candidates = {}
        BY <3>2, AfterCases
      <4> QED
        BY <1>1, <3>2, <4>1, <4>2
    <3>3. CASE j.pc \in {"hash", "prepare"}
      BY <1>1, <3>3, AfterCases
    <3> QED
      BY <1>6, <3>1, <3>2, <3>3
  <2>2. Walked(k) = Walked(j)
    BY <1>1, <1>6, <2>1 DEF Walked
  <2>3. Planned(k) = Planned(j)
    BY <1>1, <1>6, <2>1 DEF Planned
  <2>4. Settled(k) = Settled(j)
    BY <1>1, <1>6, <2>1 DEF Settled
  <2> QED
    BY <1>1, <1>6, <2>1, <2>2, <2>3, <2>4
<1> QED
  BY <1>3, <1>4, <1>5, <1>6 DEF Phases

\* Leaving a path alone is a matter of its row, the kind of the call and the
\* window.
LEMMA LeaveSame ==
  ASSUME NEW j, NEW k, NEW w, k.kind = j.kind, k.existing = j.existing
  PROVE  \A f : Leave(k, w, f) <=> Leave(j, w, f)
BY DEF Leave

\* The next phase keeps what the phases before it established.
LEMMA PartsAdvance ==
  ASSUME NEW j \in Job, j.pc \in Phases \ {"publish"},
         j.pc = "relocate" \/ j.left = {}, NEW w,
         PartsInv(j, w), NEW k, k = Advance(j)
  PROVE  PartsInv(k, w) /\ (StillInv(j) => StillInv(k))
<1>1. /\ k.kind = j.kind /\ k.reported = j.reported /\ k.existing = j.existing
      /\ k.found = j.found /\ k.candidates = j.candidates /\ k.removals = j.removals
      /\ k.hashed = j.hashed /\ k.relocated = j.relocated /\ k.staged = j.staged
      /\ k.unread = j.unread
  BY AdvanceKeeps
<1>2. /\ Walked(k) \subseteq Walked(j) /\ Planned(k) \subseteq Planned(j)
      /\ Settled(k) = Settled(j)
      /\ k.pc = "prepare" => k.left = k.candidates
      /\ k.pc = "observe" => k.kind = "paths"
      /\ k.pc \in {"discover", "existing", "observe"} =>
           j.pc \in {"discover", "existing", "observe"}
      /\ k.pc = "plan" => j.pc \in {"discover", "existing", "observe"}
      /\ k.pc \notin {"prepare", "publish"} => j.pc \notin {"prepare", "publish"}
  BY AdvanceSets DEF PartsInv, PlanInv
<1>3. \A f : Leave(k, w, f) <=> Leave(j, w, f)
  BY <1>1, LeaveSame
<1>4. PlanInv(k, w)
  <2>1. \A f \in Walked(k) \ k.found : "absent" \in Seen(w, f)
    BY <1>1, <1>2 DEF PartsInv, PlanInv
  <2>2. /\ \A f \in k.removals : "absent" \in Seen(w, f)
        /\ \A f \in Planned(k) :
             f \notin k.removals \cup k.candidates /\ k.relocated[f] = NoPath =>
               Leave(k, w, f)
    BY <1>1, <1>2, <1>3 DEF PartsInv, PlanInv
  <2>3. j.pc \in {"discover", "existing", "observe"} => k.candidates = {} /\ k.removals = {}
    BY <1>1 DEF PartsInv, PlanInv
  <2>4. k.candidates \cap k.removals \subseteq Settled(k)
    BY <1>1, <1>2 DEF PartsInv, PlanInv
  <2> QED
    BY <1>2, <2>1, <2>2, <2>3, <2>4 DEF PlanInv
<1>5. StageInv(k, w)
  BY <1>1, <1>2, <1>3 DEF PartsInv, StageInv
<1>6. RelocationInv(k, w)
  BY <1>1 DEF PartsInv, RelocationInv
<1>7. StillInv(j) => StillInv(k)
  BY <1>1, <1>2 DEF StillInv
<1> QED
  BY <1>4, <1>5, <1>6, <1>7 DEF PartsInv

\* The part of JobInv about one call.
OneInv(j, w) == StillInv(j) /\ PartsInv(j, w)

\* A step of one call that leaves its parts right, the windows and the other
\* calls alone, keeps JobInv.
LEMMA JobOfOne ==
  ASSUME TypeOK, JobInv, NEW p \in Calls, UNCHANGED <<disk, window>>,
         \A q \in Calls : q # p => job'[q] = job[q], job[p].pc \in Phases,
         OneInv(job'[p], window[p])
  PROVE  JobInv'
<1> SUFFICES ASSUME NEW q \in Calls, job'[q].pc \in Phases
             PROVE  /\ \A f \in Paths : disk[f] \in window[q][f]
                    /\ StillInv(job'[q]) /\ PlanInv(job'[q], window[q])
                    /\ StageInv(job'[q], window[q]) /\ RelocationInv(job'[q], window[q])
  BY DEF JobInv
<1>1. CASE q = p
  BY <1>1 DEF JobInv, OneInv, PartsInv
<1>2. CASE q # p
  BY <1>2 DEF JobInv
<1> QED
  BY <1>1, <1>2

\* The same for a visit: it is enough that the job without the visited path is
\* right, whatever phase follows.
LEMMA JobVisit ==
  ASSUME TypeOK, JobInv, NEW p \in Calls, NEW f \in Paths,
         NEW pc \in Phases \ {"publish"}, NEW j \in Job, j.pc = pc, Visit(p, pc, f, j),
         NEW rest, rest = [j EXCEPT !.left = @ \ {f}],
         OneInv(rest, window[p])
  PROVE  JobInv'
<1>1. /\ job'[p] = (IF rest.left = {} THEN Advance(rest) ELSE rest)
      /\ \A q \in Calls : q # p => job'[q] = job[q]
      /\ job[p].pc = pc /\ UNCHANGED <<disk, edits, db, window>>
  BY VisitResult
<1>2. rest \in Job /\ rest.pc = pc
  BY VisitFields
<1>3. OneInv(job'[p], window[p])
  <2>1. CASE rest.left = {}
    BY <1>1, <1>2, <2>1, PartsAdvance DEF OneInv
  <2>2. CASE rest.left # {}
    BY <1>1, <2>2
  <2> QED
    BY <2>1, <2>2
<1> QED
  BY <1>1, <1>3, JobOfOne

\* What JobInv says of a call that is under way.
LEMMA JobFacts ==
  ASSUME TypeOK, JobInv, NEW p \in Calls, job[p].pc \in Phases
  PROVE  /\ job[p] \in Job /\ OneInv(job[p], window[p])
         /\ \A f \in Paths : disk[f] \in window[p][f] /\ disk[f] \in Content
BY DEF TypeOK, JobInv, OneInv, PartsInv

\* The job after path f is handled; what the phase wrote is not among these.
SameRest(k, j, f) ==
  /\ k.pc = j.pc /\ k.left = j.left \ {f} /\ k.kind = j.kind
  /\ k.reported = j.reported

\* The walk (discovery): a path it does not list is not a file to index.
LEMMA DiscoverKeeps ==
  ASSUME NEW j \in Job, NEW k \in Job, NEW w, NEW f \in Paths, OneInv(j, w),
         j.pc = "discover", SameRest(k, j, f), f \in j.left,
         k.existing = j.existing, k.delta = j.delta, k.candidates = j.candidates,
         k.removals = j.removals, k.hashed = j.hashed, k.relocated = j.relocated,
         k.staged = j.staged, k.unread = j.unread,
         k.found = j.found \cup {f} \/ (k.found = j.found /\ "absent" \in Seen(w, f))
  PROVE  OneInv(k, w)
<1>1. Walked(k) \subseteq Walked(j) \cup {f} /\ Planned(k) = {} /\ Settled(k) = Settled(j)
  BY DEF Walked, Planned, Settled, SameRest
<1>2. \A g : Leave(k, w, g) <=> Leave(j, w, g)
  BY LeaveSame DEF SameRest
<1>3. PlanInv(k, w)
  <2>1. \A g \in Walked(k) \ k.found : "absent" \in Seen(w, g)
    BY <1>1 DEF OneInv, PartsInv, PlanInv
  <2>2. /\ k.candidates = {} /\ k.removals = {} /\ k.pc = "discover"
    BY DEF OneInv, PartsInv, PlanInv, SameRest
  <2> QED
    BY <1>1, <2>1, <2>2 DEF PlanInv
<1>4. StageInv(k, w)
  BY <1>1, <1>2 DEF OneInv, PartsInv, StageInv
<1>5. RelocationInv(k, w) /\ StillInv(k)
  BY DEF OneInv, PartsInv, RelocationInv, StillInv, SameRest
<1> QED
  BY <1>3, <1>4, <1>5 DEF OneInv, PartsInv

\* A page is read (existing_files): nothing is planned from it yet.
LEMMA ReadPageKeeps ==
  ASSUME NEW j \in Job, NEW k \in Job, NEW w, NEW f \in Paths, OneInv(j, w),
         j.pc = "existing", SameRest(k, j, f),
         k.found = j.found, k.delta = j.delta, k.candidates = j.candidates,
         k.removals = j.removals, k.hashed = j.hashed, k.relocated = j.relocated,
         k.staged = j.staged, k.unread = j.unread
  PROVE  OneInv(k, w)
<1>1. Walked(k) = Walked(j) /\ Planned(k) = {} /\ Settled(k) = {} /\ Settled(j) = {}
  BY DEF Walked, Planned, Settled, SameRest
<1>2. PlanInv(k, w)
  BY <1>1 DEF OneInv, PartsInv, PlanInv, SameRest
<1>3. StageInv(k, w)
  BY <1>1 DEF OneInv, PartsInv, StageInv
<1>4. StillInv(k) /\ \A n \in Paths : k.relocated[n] = NoPath
  BY DEF OneInv, StillInv, SameRest
<1>5. RelocationInv(k, w)
  BY <1>4 DEF OneInv, PartsInv, RelocationInv
<1> QED
  BY <1>2, <1>3, <1>4, <1>5 DEF OneInv, PartsInv

\* A reported path is observed (observe_visibility_delta).
LEMMA ObserveKeeps ==
  ASSUME NEW j \in Job, NEW k \in Job, NEW w, NEW f \in Paths, OneInv(j, w),
         j.pc = "observe", SameRest(k, j, f),
         k.existing = j.existing, k.found = j.found, k.candidates = j.candidates,
         k.removals = j.removals, k.hashed = j.hashed, k.relocated = j.relocated,
         k.staged = j.staged, k.unread = j.unread
  PROVE  OneInv(k, w)
<1>1. k.kind = "paths" /\ k.pc = "observe"
  BY DEF OneInv, PartsInv, PlanInv, SameRest
<1>2. Walked(k) = {} /\ Planned(k) = {} /\ Settled(k) = {} /\ Settled(j) = {}
  BY <1>1 DEF Walked, Planned, Settled
<1>3. PlanInv(k, w)
  BY <1>1, <1>2 DEF OneInv, PartsInv, PlanInv
<1>4. StageInv(k, w)
  BY <1>2 DEF OneInv, PartsInv, StageInv
<1>5. RelocationInv(k, w) /\ StillInv(k)
  BY DEF OneInv, PartsInv, RelocationInv, StillInv, SameRest
<1> QED
  BY <1>3, <1>4, <1>5 DEF OneInv, PartsInv

\* A path is planned: it goes, is a candidate, or may stay as it is.
LEMMA PlanKeeps ==
  ASSUME NEW j \in Job, NEW k \in Job, NEW w, NEW f \in Paths, OneInv(j, w),
         j.pc = "plan", SameRest(k, j, f), f \in j.left,
         k.existing = j.existing, k.found = j.found, k.delta = j.delta,
         k.hashed = j.hashed, k.relocated = j.relocated,
         k.staged = j.staged, k.unread = j.unread,
         NEW gone \in BOOLEAN, NEW wanted \in BOOLEAN, ~(gone /\ wanted),
         k.removals = IF gone THEN j.removals \cup {f} ELSE j.removals,
         k.candidates = IF wanted THEN j.candidates \cup {f} ELSE j.candidates,
         gone => "absent" \in Seen(w, f),
         f \in Planned(k) /\ ~gone /\ ~wanted => Leave(j, w, f)
  PROVE  OneInv(k, w)
<1>1. Walked(k) = Walked(j) /\ Settled(k) = {} /\ Settled(j) = {}
  BY DEF Walked, Settled, SameRest
<1>2. Planned(k) \subseteq Planned(j) \cup {f}
  BY DEF Planned, SameRest
<1>3. f \notin j.removals /\ f \notin j.candidates
  BY DEF OneInv, PartsInv, PlanInv
<1>4. \A g : Leave(k, w, g) <=> Leave(j, w, g)
  BY LeaveSame DEF SameRest
<1>5. PlanInv(k, w)
  <2>1. \A g \in Walked(k) \ k.found : "absent" \in Seen(w, g)
    BY <1>1 DEF OneInv, PartsInv, PlanInv
  <2>2. k.pc = "plan"
    BY DEF SameRest
  <2>3. k.left \cap (k.candidates \cup k.removals) = {}
    BY DEF OneInv, PartsInv, PlanInv, SameRest
  <2>4. k.candidates \cap k.removals \subseteq Settled(k)
    <3>1. j.candidates \cap j.removals = {}
      BY <1>1 DEF OneInv, PartsInv, PlanInv
    <3> QED
      BY <1>3, <3>1
  <2>5. ASSUME NEW g \in k.removals PROVE "absent" \in Seen(w, g)
    <3>1. CASE g = f
      BY <1>3, <2>5, <3>1
    <3>2. CASE g # f
      BY <1>2, <2>5, <3>2 DEF OneInv, PartsInv, PlanInv
    <3> QED
      BY <3>1, <3>2
  <2>6. ASSUME NEW g \in Planned(k), g \notin k.removals \cup k.candidates,
               k.relocated[g] = NoPath
        PROVE  Leave(k, w, g)
    <3>1. CASE g = f
      BY <1>4, <2>6, <3>1
    <3>2. CASE g # f
      <4>1. g \in Planned(j) /\ g \notin j.removals \cup j.candidates
        BY <1>2, <2>6, <3>2
      <4> QED
        BY <1>4, <2>6, <4>1 DEF OneInv, PartsInv, PlanInv
    <3> QED
      BY <3>1, <3>2
  <2> QED
    BY <2>1, <2>2, <2>3, <2>4, <2>5, <2>6 DEF PlanInv
<1>6. StageInv(k, w)
  BY <1>1 DEF OneInv, PartsInv, StageInv
<1>7. StillInv(k) /\ \A n \in Paths : k.relocated[n] = NoPath
  BY DEF OneInv, StillInv, SameRest
<1>8. RelocationInv(k, w)
  BY <1>7 DEF OneInv, PartsInv, RelocationInv
<1> QED
  BY <1>5, <1>6, <1>7, <1>8 DEF OneInv, PartsInv

\* A created file is read for its hash (plan_relocations).
LEMMA HashKeeps ==
  ASSUME NEW j \in Job, NEW k \in Job, NEW w, NEW f \in Paths, OneInv(j, w),
         j.pc = "hash", SameRest(k, j, f),
         k.existing = j.existing, k.found = j.found, k.delta = j.delta,
         k.candidates = j.candidates, k.removals = j.removals,
         k.relocated = j.relocated, k.staged = j.staged, k.unread = j.unread,
         NEW c, k.hashed = [j.hashed EXCEPT ![f] = c], c = "absent" \/ c \in w[f]
  PROVE  OneInv(k, w)
<1>1. Walked(k) = Walked(j) /\ Planned(k) = Planned(j) /\ Settled(k) = {} /\ Settled(j) = {}
  BY DEF Walked, Planned, Settled, SameRest
<1>2. \A g : Leave(k, w, g) <=> Leave(j, w, g)
  BY LeaveSame DEF SameRest
<1>3. PlanInv(k, w)
  BY <1>1, <1>2 DEF OneInv, PartsInv, PlanInv, SameRest
<1>4. StageInv(k, w)
  BY <1>1 DEF OneInv, PartsInv, StageInv
<1>5. StillInv(k) /\ \A n \in Paths : k.relocated[n] = NoPath
  BY DEF OneInv, StillInv, SameRest
<1>6. \A n \in Paths : k.hashed[n] = "absent" \/ k.hashed[n] \in w[n]
  BY DEF OneInv, PartsInv, RelocationInv, Job
<1>7. RelocationInv(k, w)
  BY <1>5, <1>6 DEF RelocationInv
<1> QED
  BY <1>3, <1>4, <1>5, <1>7 DEF OneInv, PartsInv

\* What becomes of a prepared candidate f: its row stays, it is staged, it is
\* removed, or its read failed.
Decided(k, j, w, f) ==
    \/ /\ k.removals = j.removals /\ k.staged = j.staged /\ k.unread = j.unread
       /\ Leave(j, w, f)
    \/ \E row \in Row \ {NoRow} :
         /\ k.removals = j.removals /\ k.unread = j.unread
         /\ k.staged = [j.staged EXCEPT ![f] = row]
         /\ row.text \in Seen(w, f)
    \/ /\ k.removals = j.removals \cup {f} /\ k.staged = j.staged
       /\ k.unread = j.unread /\ "absent" \in Seen(w, f)
    \/ /\ k.removals = j.removals /\ k.staged = j.staged
       /\ k.unread = j.unread \cup {f}

\* A candidate is prepared (prepare_file): staged with a text it had, removed
\* because it is no text, left because its row is right, or not read.
LEMMA PrepareKeeps ==
  ASSUME NEW j \in Job, NEW k \in Job, NEW w, NEW f \in Paths, OneInv(j, w),
         j.pc = "prepare", SameRest(k, j, f), f \in j.left,
         k.existing = j.existing, k.found = j.found, k.delta = j.delta,
         k.candidates = j.candidates, k.hashed = j.hashed, k.relocated = j.relocated,
         Decided(k, j, w, f)
  PROVE  OneInv(k, w)
<1> USE DEF Decided
<1>1. /\ Walked(k) = Walked(j) /\ Planned(k) = Planned(j)
      /\ k.pc = "prepare" /\ k.left = j.left \ {f}
  BY DEF Walked, Planned, SameRest
<1>2. f \in j.candidates
  BY DEF OneInv, PartsInv, PlanInv
<1>3. Settled(k) = Settled(j) \cup {f} /\ f \notin Settled(j)
  BY <1>1, <1>2 DEF Settled
<1>4. f \notin j.removals /\ f \notin j.unread /\ j.staged[f] = NoRow
  BY <1>2, <1>3 DEF OneInv, PartsInv, PlanInv, StageInv
<1>5. \A g : Leave(k, w, g) <=> Leave(j, w, g)
  BY LeaveSame DEF SameRest
<1>6. k.removals \in {j.removals, j.removals \cup {f}}
  OBVIOUS
<1>7. PlanInv(k, w)
  <2>1. \A g \in Walked(k) \ k.found : "absent" \in Seen(w, g)
    BY <1>1 DEF OneInv, PartsInv, PlanInv
  <2>2. k.candidates \cap k.removals \subseteq Settled(k)
    BY <1>3, <1>6 DEF OneInv, PartsInv, PlanInv
  <2>3. k.left \subseteq k.candidates
    BY <1>1 DEF OneInv, PartsInv, PlanInv
  <2>4. ASSUME NEW g \in k.removals PROVE "absent" \in Seen(w, g)
    <3>1. CASE g = f
      BY <1>4, <2>4, <3>1
    <3>2. CASE g # f
      BY <1>1, <1>6, <2>4, <3>2 DEF OneInv, PartsInv, PlanInv
    <3> QED
      BY <3>1, <3>2
  <2>5. ASSUME NEW g \in Planned(k), g \notin k.removals \cup k.candidates,
               k.relocated[g] = NoPath
        PROVE  Leave(k, w, g)
    BY <1>1, <1>5, <1>6, <2>5 DEF OneInv, PartsInv, PlanInv
  <2> QED
    BY <1>1, <2>1, <2>2, <2>3, <2>4, <2>5 DEF PlanInv
<1>8. StageInv(k, w)
  <2>0. j.staged \in [Paths -> Row]
    BY DEF Job
  <2>1. ASSUME NEW g \in Paths, k.staged[g] # NoRow
        PROVE  g \in Settled(k) /\ k.staged[g].text \in Seen(w, g)
    <3>1. CASE g = f
      BY <1>3, <1>4, <2>0, <2>1, <3>1
    <3>2. CASE g # f
      <4>1. k.staged[g] = j.staged[g]
        BY <2>0, <3>2
      <4> QED
        BY <1>3, <2>1, <4>1 DEF OneInv, PartsInv, StageInv
    <3> QED
      BY <3>1, <3>2
  <2>2. ASSUME NEW g \in k.unread
        PROVE  g \in Settled(k) \ k.removals /\ k.staged[g] = NoRow
    <3>1. CASE g = f
      BY <1>3, <1>4, <2>2, <3>1
    <3>2. CASE g # f
      <4>1. g \in j.unread /\ g \in Paths
        BY <2>2, <3>2 DEF Job
      <4>2. k.staged[g] = j.staged[g]
        BY <2>0, <3>2, <4>1
      <4>3. g \in Settled(j) \ j.removals /\ j.staged[g] = NoRow
        BY <4>1 DEF OneInv, PartsInv, StageInv
      <4> QED
        BY <1>3, <1>6, <3>2, <4>2, <4>3
    <3> QED
      BY <3>1, <3>2
  <2>3. ASSUME NEW g \in Settled(k) \ (k.unread \cup k.removals), k.staged[g] = NoRow
        PROVE  Leave(k, w, g)
    <3>1. CASE g = f
      <4>1. CASE Leave(j, w, f)
        BY <1>5, <3>1, <4>1
      <4>2. ASSUME NEW row \in Row \ {NoRow}, k.staged = [j.staged EXCEPT ![f] = row],
                   row.text \in Seen(w, f), k.removals = j.removals
            PROVE  Leave(k, w, g)
        BY <2>0, <2>3, <3>1, <4>2
      <4> QED
        BY <2>3, <3>1, <4>1, <4>2
    <3>2. CASE g # f
      <4>1. g \in Settled(j) \ (j.unread \cup j.removals) /\ g \in Paths
        BY <1>3, <1>6, <2>3, <3>2 DEF Settled, Job
      <4>2. k.staged[g] = j.staged[g]
        BY <2>0, <3>2, <4>1
      <4> QED
        BY <1>5, <2>3, <4>1, <4>2 DEF OneInv, PartsInv, StageInv
    <3> QED
      BY <3>1, <3>2
  <2> QED
    BY <2>1, <2>2, <2>3 DEF StageInv
<1>9. RelocationInv(k, w)
  BY <1>6 DEF OneInv, PartsInv, RelocationInv
<1>10. StillInv(k)
  BY <1>1 DEF StillInv
<1> QED
  BY <1>7, <1>8, <1>9, <1>10 DEF OneInv, PartsInv

\* What is planned for a path agrees with a content it had: a row that goes has
\* lost its file, and a row that stays has its text (plan of one path).
LEMMA PlanDecision ==
  ASSUME TypeOK, JobInv, NEW p \in Calls, NEW f \in Paths, job[p].pc = "plan"
  PROVE  /\ ~(Gone(p, f) /\ Wanted(p, f))
         /\ Gone(p, f) => "absent" \in Seen(window[p], f)
         /\ f \in Scope(p) /\ ~Gone(p, f) /\ ~Wanted(p, f) =>
              Leave(job[p], window[p], f)
<1> DEFINE j == job[p]
           w == window[p]
           d == disk[f]
           row == job[p].existing[f]
<1>1. j \in Job /\ OneInv(j, w) /\ d \in w[f] /\ d \in Content
  BY JobFacts DEF Phases
<1>2. row \in Row /\ (row # NoRow => row.text \in Texts) /\ NoRow.text = "absent"
  BY <1>1 DEF Job, Row, NoRow
<1>3. d \notin Texts => "absent" \in Seen(w, f)
  BY <1>1, SeenNow
<1>4. d \in Texts => d \in Seen(w, f)
  BY <1>1, SeenNow
<1>5. Discovered(p) /\ f \notin j.found => "absent" \in Seen(w, f)
  <2>1. Discovered(p) => Walked(j) = Paths
    BY DEF Discovered, Walked
  <2> QED
    BY <1>1, <2>1 DEF OneInv, PartsInv, PlanInv
<1>6. "absent" \notin Texts /\ "oversized" \notin Texts
  BY PublicationAssumption
<1>7. ~(Gone(p, f) /\ Wanted(p, f))
  BY DEF Gone, Wanted, Discoverable
<1>8. Gone(p, f) => "absent" \in Seen(w, f)
  BY <1>3, <1>5, <1>6 DEF Gone
<1>9. ASSUME f \in Scope(p), ~Gone(p, f), ~Wanted(p, f) PROVE Leave(j, w, f)
  <2>1. CASE IF Discovered(p) THEN f \in j.found ELSE Discoverable(d)
    <3>1. ~ForceReindex(p) /\ Unchanged(p, f)
      BY <1>9, <2>1 DEF Wanted, Scope
    <3>2. row # NoRow /\ row.text = d /\ j.kind # "rebuild"
      BY <3>1 DEF ForceReindex, Unchanged
    <3> QED
      BY <1>2, <1>4, <3>2 DEF Leave
  <2>2. CASE ~(IF Discovered(p) THEN f \in j.found ELSE Discoverable(d))
    <3>1. row = NoRow /\ "absent" \in Seen(w, f)
      BY <1>3, <1>5, <1>6, <1>9, <2>2 DEF Gone, Discoverable
    <3> QED
      BY <1>2, <3>1 DEF Leave
  <2> QED
    BY <2>1, <2>2
<1> QED
  BY <1>7, <1>8, <1>9

\* What prepare_file makes of a candidate agrees with the content it read.
LEMMA PrepareDecision ==
  ASSUME TypeOK, JobInv, NEW p \in Calls, NEW f \in Paths, job[p].pc = "prepare",
         NEW c \in {disk[f], "absent"}, NEW j, j = Prepared(p, f, c)
  PROVE  /\ j.left = job[p].left /\ j.kind = job[p].kind /\ j.reported = job[p].reported
         /\ j.existing = job[p].existing /\ j.found = job[p].found
         /\ j.delta = job[p].delta /\ j.candidates = job[p].candidates
         /\ j.hashed = job[p].hashed /\ j.relocated = job[p].relocated
         /\ Decided(j, job[p], window[p], f)
<1> USE DEF Decided
<1> DEFINE j0 == job[p]
           w == window[p]
           new == [text |-> c, config |-> ConfigOf[p]]
<1>1. j0 \in Job /\ disk[f] \in w[f] /\ disk[f] \in Content
  BY JobFacts DEF Phases
<1>2. c \in Content /\ "absent" \notin Texts /\ NoRow.text = "absent"
  BY <1>1, PublicationAssumption DEF Content, NoRow
<1>3. /\ c \in Texts => c \in Seen(w, f)
      /\ c \in {"binary", "oversized"} => "absent" \in Seen(w, f)
  <2>1. c # "absent" => c = disk[f]
    OBVIOUS
  <2>2. c \in {"binary", "oversized"} => c \notin Texts
    BY PublicationAssumption
  <2> QED
    BY <1>1, <1>2, <2>1, <2>2, SeenNow
<1>4. \/ c \in Texts /\ j0.kind = "paths" /\ j0.existing[f].text = c /\ j = j0
      \/ c \in Texts /\ j = [j0 EXCEPT !.staged[f] = new]
      \/ /\ c \in {"binary", "oversized"} /\ j0.existing[f] # NoRow
         /\ j = [j0 EXCEPT !.removals = @ \cup {f}]
      \/ c \in {"binary", "oversized"} /\ j0.existing[f] = NoRow /\ j = j0
      \/ c = "absent" /\ j = [j0 EXCEPT !.unread = @ \cup {f}]
  BY <1>2, PreparedCases
<1>5. c \in Texts => new \in Row \ {NoRow} /\ new.text = c
  BY <1>2 DEF Row, Configs, NoRow
<1> HIDE DEF j0, w, new
<1>6. CASE c \in Texts /\ j0.kind = "paths" /\ j0.existing[f].text = c /\ j = j0
  <2>1. Leave(j0, w, f)
    BY <1>3, <1>6 DEF Leave
  <2> QED
    BY <1>6, <2>1 DEF j0, w
<1>7. CASE c \in Texts /\ j = [j0 EXCEPT !.staged[f] = new]
  <2>1. /\ j.left = j0.left /\ j.kind = j0.kind /\ j.reported = j0.reported
        /\ j.existing = j0.existing /\ j.found = j0.found
        /\ j.delta = j0.delta /\ j.candidates = j0.candidates
        /\ j.hashed = j0.hashed /\ j.relocated = j0.relocated
        /\ j.removals = j0.removals /\ j.unread = j0.unread
        /\ j.staged = [j0.staged EXCEPT ![f] = new]
    BY <1>1, <1>7 DEF Job
  <2> QED
    BY <1>3, <1>5, <1>7, <2>1 DEF j0, w
<1>8. CASE /\ c \in {"binary", "oversized"} /\ j0.existing[f] # NoRow
           /\ j = [j0 EXCEPT !.removals = @ \cup {f}]
  <2>1. /\ j.left = j0.left /\ j.kind = j0.kind /\ j.reported = j0.reported
        /\ j.existing = j0.existing /\ j.found = j0.found
        /\ j.delta = j0.delta /\ j.candidates = j0.candidates
        /\ j.hashed = j0.hashed /\ j.relocated = j0.relocated
        /\ j.removals = j0.removals \cup {f} /\ j.unread = j0.unread
        /\ j.staged = j0.staged
    BY <1>1, <1>8 DEF Job
  <2> QED
    BY <1>3, <1>8, <2>1 DEF j0, w
<1>9. CASE c \in {"binary", "oversized"} /\ j0.existing[f] = NoRow /\ j = j0
  <2>1. Leave(j0, w, f)
    BY <1>2, <1>3, <1>9 DEF Leave
  <2> QED
    BY <1>9, <2>1 DEF j0, w
<1>10. CASE c = "absent" /\ j = [j0 EXCEPT !.unread = @ \cup {f}]
  <2>1. /\ j.left = j0.left /\ j.kind = j0.kind /\ j.reported = j0.reported
        /\ j.existing = j0.existing /\ j.found = j0.found
        /\ j.delta = j0.delta /\ j.candidates = j0.candidates
        /\ j.hashed = j0.hashed /\ j.relocated = j0.relocated
        /\ j.removals = j0.removals /\ j.unread = j0.unread \cup {f}
        /\ j.staged = j0.staged
    BY <1>1, <1>10 DEF Job
  <2> QED
    BY <2>1 DEF j0
<1> QED
  BY <1>4, <1>6, <1>7, <1>8, <1>9, <1>10 DEF j0

\* A new attempt has nothing planned, staged or moved.
LEMMA FreshParts ==
  ASSUME NEW j, NEW w, j.pc \in {"existing", "discover"},
         j.pc = "existing" <=> j.kind = "paths", j.left = Paths,
         j.candidates = {}, j.removals = {}, j.unread = {},
         j.hashed = [f \in Paths |-> "absent"], j.relocated = [f \in Paths |-> NoPath],
         j.staged = [f \in Paths |-> NoRow]
  PROVE  OneInv(j, w)
<1>1. Walked(j) = {} /\ Planned(j) = {} /\ Settled(j) = {}
  BY DEF Walked, Planned, Settled
<1>2. PlanInv(j, w)
  BY <1>1 DEF PlanInv
<1>3. StageInv(j, w)
  BY <1>1 DEF StageInv
<1>4. RelocationInv(j, w) /\ StillInv(j)
  BY DEF RelocationInv, StillInv
<1> QED
  BY <1>2, <1>3, <1>4 DEF OneInv, PartsInv


\* Every step keeps what is known of plans and stages.
LEMMA StepJob == TypeOK /\ JobInv /\ [Next]_vars => JobInv'
<1> SUFFICES ASSUME TypeOK, JobInv, [Next]_vars PROVE JobInv'
  OBVIOUS
<1>1. ASSUME NEW f \in Paths, NEW c \in Content, Edit(f, c) PROVE JobInv'
  <2>1. /\ UNCHANGED job /\ disk' = [disk EXCEPT ![f] = c]
        /\ window' = [p \in Calls |-> [window[p] EXCEPT ![f] = @ \cup {c}]]
    BY <1>1 DEF Edit
  <2>2. disk \in [Paths -> Content] /\ window \in [Calls -> [Paths -> SUBSET Content]]
    BY DEF TypeOK
  <2>3. ASSUME NEW p \in Calls, job[p].pc \in Phases
        PROVE  /\ \A g \in Paths : disk'[g] \in window'[p][g]
               /\ OneInv(job[p], window'[p])
    <3>1. job[p] \in Job /\ OneInv(job[p], window[p])
      BY <2>3, JobFacts
    <3>2. \A g \in Paths : window[p][g] \subseteq window'[p][g]
      BY <2>1, <2>2
    <3>3. \A g \in Paths : disk[g] \in window[p][g]
      BY <2>3, JobFacts
    <3>4. \A g \in Paths : disk'[g] \in window'[p][g]
      BY <2>1, <2>2, <3>3
    <3> QED
      BY <3>1, <3>2, <3>4, PartsGrow DEF OneInv
  <2> QED
    BY <2>1, <2>3 DEF JobInv, OneInv, PartsInv
<1>2. ASSUME NEW p \in Calls, Begin(p) \/ Commit(p) \/ NoOp(p) \/ Stale(p) \/ Abort(p)
      PROVE  JobInv'
  <2>1. /\ UNCHANGED disk
        /\ \A q \in Calls : q # p => job'[q] = job[q] /\ window'[q] = window[q]
    BY <1>2, CallSteps, CallOthers, Zenon
  <2>2. ASSUME job'[p].pc \in Phases
        PROVE  /\ \A f \in Paths : disk[f] \in window'[p][f]
               /\ OneInv(job'[p], window'[p])
    <3>1. \A pc \in {"idle", "ok", "failed"} : ~End(p, pc)
      BY <2>2, EndedIsNoPhase
    <3>2. PICK kind \in Kinds, rep \in SUBSET Paths, a \in 1 .. Attempts :
            StartAttempt(p, kind, rep, a)
      BY <1>2, <3>1, CallSteps
    <3>3. /\ job'[p].pc = (IF job'[p].kind = "paths" THEN "existing" ELSE "discover")
          /\ job'[p].left = Paths
          /\ job'[p].candidates = {} /\ job'[p].removals = {} /\ job'[p].unread = {}
          /\ job'[p].hashed = [f \in Paths |-> "absent"]
          /\ job'[p].relocated = [f \in Paths |-> NoPath]
          /\ job'[p].staged = [f \in Paths |-> NoRow]
          /\ window'[p] = [f \in Paths |-> {disk[f]}]
      BY <3>2, StartedJob
    <3>4. OneInv(job'[p], window'[p])
      BY <3>3, FreshParts
    <3> QED
      BY <3>3, <3>4
  <2>3. ASSUME NEW q \in Calls, job'[q].pc \in Phases
        PROVE  /\ \A f \in Paths : disk'[f] \in window'[q][f]
               /\ OneInv(job'[q], window'[q])
    <3>1. CASE q = p
      BY <2>1, <2>2, <2>3, <3>1
    <3>2. CASE q # p
      BY <2>1, <2>3, <3>2 DEF JobInv, OneInv, PartsInv
    <3> QED
      BY <3>1, <3>2
  <2> QED
    BY <2>3 DEF JobInv, OneInv, PartsInv
<1>3. ASSUME NEW p \in Calls, Relocate(p) PROVE JobInv'
  <2>1. PICK from \in [Paths -> Paths \cup {NoPath}], C \in SUBSET Paths, j \in Job :
          /\ from = [n \in Paths |-> Source(p, n)]
          /\ C = {n \in job[p].candidates : from[n] = NoPath}
          /\ j = [job[p] EXCEPT !.relocated = from, !.candidates = C]
          /\ j.pc = "relocate" /\ job[p].pc = "relocate"
          /\ job' = [job EXCEPT ![p] = Advance(j)]
          /\ UNCHANGED <<disk, edits, db, window>>
    BY <1>3, RelocateResult, Zenon
  <2> DEFINE j0 == job[p]
             w == window[p]
  <2>2. j0 \in Job /\ OneInv(j0, w) /\ j0.pc \in Phases
    BY <2>1, JobFacts DEF Phases
  <2>3. /\ j.left = j0.left /\ j.kind = j0.kind
        /\ j.reported = j0.reported /\ j.existing = j0.existing
        /\ j.found = j0.found /\ j.delta = j0.delta
        /\ j.removals = j0.removals /\ j.hashed = j0.hashed
        /\ j.staged = j0.staged /\ j.unread = j0.unread
        /\ j.candidates = C /\ j.relocated = from
    BY <2>1, <2>2 DEF Job
  <2>4. \A n \in Paths : from[n] # NoPath =>
          /\ j0.hashed[n] \in Texts /\ n \in Created(j0)
          /\ from[n] \in j0.removals
          /\ j0.existing[from[n]].text = j0.hashed[n]
    BY <2>1, SourceFacts
  <2> HIDE DEF j0, w
  <2>5. /\ Walked(j) = Walked(j0) /\ Planned(j) = Planned(j0)
        /\ Settled(j) = {} /\ Settled(j0) = {}
    BY <2>1, <2>3 DEF Walked, Planned, Settled, j0
  <2>6. \A g : Leave(j, w, g) <=> Leave(j0, w, g)
    BY <2>3, LeaveSame
  <2>7. /\ C \subseteq j0.candidates /\ j0.candidates \cap j0.removals = {}
        /\ \A n \in Paths : n \in j0.candidates /\ from[n] = NoPath => n \in C
        /\ \A n \in Paths : from[n] # NoPath => n \notin C
    BY <2>1, <2>2, <2>5 DEF OneInv, PartsInv, PlanInv, j0
  <2>8. PlanInv(j, w)
    <3>1. \A f \in Planned(j0) : f \in Paths
      BY <2>2 DEF Planned, Job
    <3>2. \A f \in j.removals : "absent" \in Seen(w, f)
      BY <2>2, <2>3 DEF OneInv, PartsInv, PlanInv
    <3>3. ASSUME NEW f \in Planned(j), f \notin j.removals \cup j.candidates,
                 j.relocated[f] = NoPath
          PROVE  Leave(j, w, f)
      <4>1. f \notin j0.removals \cup j0.candidates
        BY <2>3, <2>5, <2>7, <3>1, <3>3
      <4>2. j0.relocated[f] = NoPath
        BY <2>1, <2>2, <2>5, <3>1 DEF OneInv, StillInv, j0
      <4> QED
        BY <2>2, <2>5, <2>6, <4>1, <4>2 DEF OneInv, PartsInv, PlanInv
    <3> QED
      BY <2>1, <2>2, <2>3, <2>5, <2>7, <3>2, <3>3 DEF OneInv, PartsInv, PlanInv
  <2>9. StageInv(j, w)
    BY <2>2, <2>3, <2>5 DEF OneInv, PartsInv, StageInv
  <2>10. RelocationInv(j, w)
    <3>1. \A n \in Paths : j.hashed[n] = "absent" \/ j.hashed[n] \in w[n]
      BY <2>2, <2>3 DEF OneInv, PartsInv, RelocationInv
    <3>2. ASSUME NEW n \in Paths, j.relocated[n] # NoPath
          PROVE  /\ n \notin j.candidates /\ j.existing[n] = NoRow
                 /\ j.hashed[n] \in Texts
                 /\ j.relocated[n] \in j.removals \ j.candidates
                 /\ j.existing[j.relocated[n]].text = j.hashed[n]
      BY <2>3, <2>4, <2>7, <3>2 DEF Created
    <3> QED
      BY <3>1, <3>2 DEF RelocationInv
  <2>11. /\ job'[p] = Advance(j) /\ \A q \in Calls : q # p => job'[q] = job[q]
         /\ j.pc \in Phases \ {"publish"}
    BY <2>1 DEF TypeOK, Phases
  <2>12. PartsInv(job'[p], w)
    BY <2>1, <2>8, <2>9, <2>10, <2>11, PartsAdvance DEF PartsInv
  <2>13. job'[p].pc \in {"prepare", "publish"}
    <3>1. After(j) \in {<<"publish", {}>>, <<"prepare", j.candidates>>}
      BY <2>1, AfterCases
    <3>2. job'[p].pc = After(j)[1]
      BY <2>11, AdvanceFields
    <3> QED
      BY <3>1, <3>2
  <2> QED
    BY <2>1, <2>2, <2>11, <2>12, <2>13, JobOfOne DEF OneInv, StillInv, j0, w
<1>4. ASSUME NEW p \in Calls, NEW f \in Paths, Discover(p, f) PROVE JobInv'
  <2>1. PICK j \in Job :
          /\ Visit(p, "discover", f, j) /\ j.pc = job[p].pc
          /\ j = IF Discoverable(disk[f]) THEN [job[p] EXCEPT !.found = @ \cup {f}]
             ELSE job[p]
    BY <1>4, VisitDiscover
  <2>2. j.pc = "discover" /\ job[p].pc = "discover" /\ f \in job[p].left
    BY <2>1 DEF Visit
  <2> DEFINE rest == [j EXCEPT !.left = @ \ {f}]
             w == window[p]
  <2>3. job[p] \in Job /\ OneInv(job[p], w) /\ disk[f] \in w[f] /\ disk[f] \in Content
    BY <2>2, JobFacts DEF Phases
  <2>4. /\ j.kind = job[p].kind /\ j.reported = job[p].reported
        /\ j.existing = job[p].existing /\ j.delta = job[p].delta
        /\ j.candidates = job[p].candidates /\ j.removals = job[p].removals
        /\ j.hashed = job[p].hashed /\ j.relocated = job[p].relocated
        /\ j.staged = job[p].staged /\ j.unread = job[p].unread
        /\ j.left = job[p].left
        /\ j.found = (IF Discoverable(disk[f]) THEN job[p].found \cup {f} ELSE job[p].found)
    BY <2>1, <2>3 DEF Job
  <2>5. /\ rest \in Job /\ rest.left = j.left \ {f} /\ rest.pc = j.pc
        /\ rest.kind = j.kind /\ rest.reported = j.reported
        /\ rest.existing = j.existing /\ rest.found = j.found
        /\ rest.delta = j.delta /\ rest.candidates = j.candidates
        /\ rest.removals = j.removals /\ rest.hashed = j.hashed
        /\ rest.relocated = j.relocated /\ rest.staged = j.staged
        /\ rest.unread = j.unread
    BY VisitFields
  <2>6. rest = [j EXCEPT !.left = @ \ {f}] /\ "discover" \in Phases \ {"publish"}
    BY DEF Phases
  <2> HIDE DEF rest, w
  <2>7. ~Discoverable(disk[f]) => "absent" \in Seen(w, f)
    BY <2>3, PublicationAssumption, SeenNow DEF Discoverable
  <2>9. /\ SameRest(rest, job[p], f)
         /\ rest.kind = job[p].kind /\ rest.reported = job[p].reported
         /\ rest.existing = job[p].existing /\ rest.delta = job[p].delta
         /\ rest.candidates = job[p].candidates
         /\ rest.removals = job[p].removals /\ rest.hashed = job[p].hashed
         /\ rest.relocated = job[p].relocated /\ rest.staged = job[p].staged
         /\ rest.unread = job[p].unread
         /\ \/ rest.found = job[p].found \cup {f}
            \/ rest.found = job[p].found /\ "absent" \in Seen(w, f)
    BY <2>2, <2>4, <2>5, <2>7 DEF SameRest
  <2>10. OneInv(rest, w)
    <3>1. rest.found = job[p].found \cup {f} \/
            (rest.found = job[p].found /\ "absent" \in Seen(w, f))
      BY <2>9
    <3> QED
      BY <2>2, <2>3, <2>5, <2>9, <3>1, DiscoverKeeps
  <2> QED
    BY <2>1, <2>2, <2>6, <2>10, JobVisit DEF w
<1>5. ASSUME NEW p \in Calls, NEW f \in Paths, ReadPage(p, f) PROVE JobInv'
  <2>1. PICK j \in Job :
          /\ Visit(p, "existing", f, j) /\ j.pc = job[p].pc
          /\ j = [job[p] EXCEPT !.existing[f] = db.files[f]]
    BY <1>5, VisitReadPage
  <2>2. j.pc = "existing" /\ job[p].pc = "existing" /\ f \in job[p].left
    BY <2>1 DEF Visit
  <2> DEFINE rest == [j EXCEPT !.left = @ \ {f}]
             w == window[p]
  <2>3. job[p] \in Job /\ OneInv(job[p], w) /\ disk[f] \in w[f] /\ disk[f] \in Content
    BY <2>2, JobFacts DEF Phases
  <2>4. /\ j.kind = job[p].kind /\ j.reported = job[p].reported
        /\ j.found = job[p].found /\ j.delta = job[p].delta
        /\ j.candidates = job[p].candidates /\ j.removals = job[p].removals
        /\ j.hashed = job[p].hashed /\ j.relocated = job[p].relocated
        /\ j.staged = job[p].staged /\ j.unread = job[p].unread
        /\ j.left = job[p].left
    BY <2>1, <2>3 DEF Job
  <2>5. /\ rest \in Job /\ rest.left = j.left \ {f} /\ rest.pc = j.pc
        /\ rest.kind = j.kind /\ rest.reported = j.reported
        /\ rest.existing = j.existing /\ rest.found = j.found
        /\ rest.delta = j.delta /\ rest.candidates = j.candidates
        /\ rest.removals = j.removals /\ rest.hashed = j.hashed
        /\ rest.relocated = j.relocated /\ rest.staged = j.staged
        /\ rest.unread = j.unread
    BY VisitFields
  <2>6. rest = [j EXCEPT !.left = @ \ {f}] /\ "existing" \in Phases \ {"publish"}
    BY DEF Phases
  <2> HIDE DEF rest, w
  <2>9. OneInv(rest, w)
    BY <2>2, <2>3, <2>4, <2>5, ReadPageKeeps DEF SameRest
  <2> QED
    BY <2>1, <2>2, <2>6, <2>9, JobVisit DEF w
<1>6. ASSUME NEW p \in Calls, NEW f \in Paths, Observe(p, f) PROVE JobInv'
  <2>1. PICK j \in Job, b \in BOOLEAN :
          /\ Visit(p, "observe", f, j) /\ j.pc = job[p].pc
          /\ j = [job[p] EXCEPT !.delta = b]
    BY <1>6, VisitObserve
  <2>2. j.pc = "observe" /\ job[p].pc = "observe" /\ f \in job[p].left
    BY <2>1 DEF Visit
  <2> DEFINE rest == [j EXCEPT !.left = @ \ {f}]
             w == window[p]
  <2>3. job[p] \in Job /\ OneInv(job[p], w) /\ disk[f] \in w[f] /\ disk[f] \in Content
    BY <2>2, JobFacts DEF Phases
  <2>4. /\ j.kind = job[p].kind /\ j.reported = job[p].reported
        /\ j.existing = job[p].existing /\ j.found = job[p].found
        /\ j.candidates = job[p].candidates /\ j.removals = job[p].removals
        /\ j.hashed = job[p].hashed /\ j.relocated = job[p].relocated
        /\ j.staged = job[p].staged /\ j.unread = job[p].unread
        /\ j.left = job[p].left
    BY <2>1, <2>3 DEF Job
  <2>5. /\ rest \in Job /\ rest.left = j.left \ {f} /\ rest.pc = j.pc
        /\ rest.kind = j.kind /\ rest.reported = j.reported
        /\ rest.existing = j.existing /\ rest.found = j.found
        /\ rest.delta = j.delta /\ rest.candidates = j.candidates
        /\ rest.removals = j.removals /\ rest.hashed = j.hashed
        /\ rest.relocated = j.relocated /\ rest.staged = j.staged
        /\ rest.unread = j.unread
    BY VisitFields
  <2>6. rest = [j EXCEPT !.left = @ \ {f}] /\ "observe" \in Phases \ {"publish"}
    BY DEF Phases
  <2> HIDE DEF rest, w
  <2>9. OneInv(rest, w)
    BY <2>2, <2>3, <2>4, <2>5, ObserveKeeps DEF SameRest
  <2> QED
    BY <2>1, <2>2, <2>6, <2>9, JobVisit DEF w
<1>7. ASSUME NEW p \in Calls, NEW f \in Paths, Plan(p, f) PROVE JobInv'
  <2>1. PICK j \in Job, R \in SUBSET Paths, C \in SUBSET Paths :
          /\ Visit(p, "plan", f, j) /\ j.pc = job[p].pc
          /\ j = [job[p] EXCEPT !.removals = R, !.candidates = C]
          /\ R = IF Gone(p, f) THEN job[p].removals \cup {f} ELSE job[p].removals
          /\ C = IF Wanted(p, f) THEN job[p].candidates \cup {f} ELSE job[p].candidates
    BY <1>7, VisitPlan
  <2>2. j.pc = "plan" /\ job[p].pc = "plan" /\ f \in job[p].left
    BY <2>1 DEF Visit
  <2> DEFINE rest == [j EXCEPT !.left = @ \ {f}]
             w == window[p]
  <2>3. job[p] \in Job /\ OneInv(job[p], w) /\ disk[f] \in w[f] /\ disk[f] \in Content
    BY <2>2, JobFacts DEF Phases
  <2>4. /\ j.kind = job[p].kind /\ j.reported = job[p].reported
        /\ j.existing = job[p].existing /\ j.found = job[p].found
        /\ j.delta = job[p].delta /\ j.hashed = job[p].hashed
        /\ j.relocated = job[p].relocated /\ j.staged = job[p].staged
        /\ j.unread = job[p].unread /\ j.left = job[p].left /\ j.removals = R
        /\ j.candidates = C
    BY <2>1, <2>3 DEF Job
  <2>5. /\ rest \in Job /\ rest.left = j.left \ {f} /\ rest.pc = j.pc
        /\ rest.kind = j.kind /\ rest.reported = j.reported
        /\ rest.existing = j.existing /\ rest.found = j.found
        /\ rest.delta = j.delta /\ rest.candidates = j.candidates
        /\ rest.removals = j.removals /\ rest.hashed = j.hashed
        /\ rest.relocated = j.relocated /\ rest.staged = j.staged
        /\ rest.unread = j.unread
    BY VisitFields
  <2>6. rest = [j EXCEPT !.left = @ \ {f}] /\ "plan" \in Phases \ {"publish"}
    BY DEF Phases
  <2> HIDE DEF rest, w
  <2>7. Gone(p, f) \in BOOLEAN /\ Wanted(p, f) \in BOOLEAN
    BY DEF Gone, Wanted
  <2>8. /\ ~(Gone(p, f) /\ Wanted(p, f))
        /\ Gone(p, f) => "absent" \in Seen(w, f)
        /\ f \in Planned(rest) /\ ~Gone(p, f) /\ ~Wanted(p, f) => Leave(job[p], w, f)
    <3>1. f \in Planned(rest) => f \in Scope(p)
      BY <2>2, <2>4, <2>5 DEF Planned, Scope
    <3> QED
      BY <2>2, <3>1, PlanDecision DEF w
  <2>9. /\ SameRest(rest, job[p], f)
         /\ rest.kind = job[p].kind /\ rest.reported = job[p].reported
         /\ rest.existing = job[p].existing /\ rest.found = job[p].found
         /\ rest.delta = job[p].delta /\ rest.hashed = job[p].hashed
         /\ rest.relocated = job[p].relocated /\ rest.staged = job[p].staged
         /\ rest.unread = job[p].unread
         /\ rest.removals =
              (IF Gone(p, f) THEN job[p].removals \cup {f} ELSE job[p].removals)
         /\ rest.candidates =
              (IF Wanted(p, f) THEN job[p].candidates \cup {f} ELSE job[p].candidates)
    BY <2>1, <2>2, <2>4, <2>5 DEF SameRest
  <2>10. OneInv(rest, w)
    BY <2>2, <2>3, <2>5, <2>7, <2>8, <2>9, PlanKeeps
  <2> QED
    BY <2>1, <2>2, <2>6, <2>10, JobVisit DEF w
<1>8. ASSUME NEW p \in Calls, NEW f \in Paths, Hash(p, f) PROVE JobInv'
  <2>1. PICK j \in Job, c \in {disk[f], "absent"} :
          /\ Visit(p, "hash", f, j) /\ j.pc = job[p].pc
          /\ j = [job[p] EXCEPT !.hashed[f] = c]
    BY <1>8, VisitHash
  <2>2. j.pc = "hash" /\ job[p].pc = "hash" /\ f \in job[p].left
    BY <2>1 DEF Visit
  <2> DEFINE rest == [j EXCEPT !.left = @ \ {f}]
             w == window[p]
  <2>3. job[p] \in Job /\ OneInv(job[p], w) /\ disk[f] \in w[f] /\ disk[f] \in Content
    BY <2>2, JobFacts DEF Phases
  <2>4. /\ j.kind = job[p].kind /\ j.reported = job[p].reported
        /\ j.existing = job[p].existing /\ j.found = job[p].found
        /\ j.delta = job[p].delta /\ j.candidates = job[p].candidates
        /\ j.removals = job[p].removals /\ j.relocated = job[p].relocated
        /\ j.staged = job[p].staged /\ j.unread = job[p].unread
        /\ j.left = job[p].left /\ j.hashed = [job[p].hashed EXCEPT ![f] = c]
    BY <2>1, <2>3 DEF Job
  <2>5. /\ rest \in Job /\ rest.left = j.left \ {f} /\ rest.pc = j.pc
        /\ rest.kind = j.kind /\ rest.reported = j.reported
        /\ rest.existing = j.existing /\ rest.found = j.found
        /\ rest.delta = j.delta /\ rest.candidates = j.candidates
        /\ rest.removals = j.removals /\ rest.hashed = j.hashed
        /\ rest.relocated = j.relocated /\ rest.staged = j.staged
        /\ rest.unread = j.unread
    BY VisitFields
  <2>6. rest = [j EXCEPT !.left = @ \ {f}] /\ "hash" \in Phases \ {"publish"}
    BY DEF Phases
  <2> HIDE DEF rest, w
  <2>9. OneInv(rest, w)
    BY <2>2, <2>3, <2>4, <2>5, HashKeeps DEF SameRest
  <2> QED
    BY <2>1, <2>2, <2>6, <2>9, JobVisit DEF w
<1>9. ASSUME NEW p \in Calls, NEW f \in Paths, Prepare(p, f) PROVE JobInv'
  <2>1. PICK c \in {disk[f], "absent"} :
          /\ c \in Content /\ Visit(p, "prepare", f, Prepared(p, f, c))
          /\ Prepared(p, f, c) \in Job /\ Prepared(p, f, c).pc = job[p].pc
    BY <1>9, VisitPrepare
  <2> DEFINE j == Prepared(p, f, c)
             rest == [j EXCEPT !.left = @ \ {f}]
             w == window[p]
  <2>2. j.pc = "prepare" /\ job[p].pc = "prepare" /\ f \in job[p].left
    BY <2>1 DEF Visit
  <2>3. job[p] \in Job /\ OneInv(job[p], w)
    BY <2>2, JobFacts DEF Phases
  <2>4. /\ j.kind = job[p].kind /\ j.reported = job[p].reported
        /\ j.existing = job[p].existing /\ j.found = job[p].found
        /\ j.delta = job[p].delta /\ j.candidates = job[p].candidates
        /\ j.hashed = job[p].hashed /\ j.relocated = job[p].relocated
        /\ j.left = job[p].left
        /\ Decided(j, job[p], w, f)
    <3>1. j = Prepared(p, f, c) /\ w = window[p]
      OBVIOUS
    <3> HIDE DEF j, w
    <3>2. c \in {disk[f], "absent"}
      BY <2>1
    <3> QED
      BY <2>2, <3>1, <3>2, PrepareDecision
  <2>5. j \in Job /\ Visit(p, "prepare", f, j)
    BY <2>1
  <2> HIDE DEF j
  <2>6. /\ rest \in Job /\ rest.left = j.left \ {f} /\ rest.pc = j.pc
        /\ rest.kind = j.kind /\ rest.reported = j.reported
        /\ rest.existing = j.existing /\ rest.found = j.found
        /\ rest.delta = j.delta /\ rest.candidates = j.candidates
        /\ rest.removals = j.removals /\ rest.hashed = j.hashed
        /\ rest.relocated = j.relocated /\ rest.staged = j.staged
        /\ rest.unread = j.unread
    BY <2>5, VisitFields
  <2>7. rest = [j EXCEPT !.left = @ \ {f}] /\ "prepare" \in Phases \ {"publish"}
    BY DEF Phases
  <2> HIDE DEF rest, w
  <2>9. /\ SameRest(rest, job[p], f)
         /\ rest.kind = job[p].kind /\ rest.reported = job[p].reported
         /\ rest.existing = job[p].existing /\ rest.found = job[p].found
         /\ rest.delta = job[p].delta /\ rest.candidates = job[p].candidates
         /\ rest.hashed = job[p].hashed /\ rest.relocated = job[p].relocated
         /\ Decided(rest, job[p], w, f)
    BY <2>2, <2>4, <2>6 DEF SameRest, Decided
  <2>10. OneInv(rest, w)
    BY <2>2, <2>3, <2>6, <2>9, PrepareKeeps
  <2> QED
    BY <2>2, <2>5, <2>7, <2>10, JobVisit DEF w
<1>10. CASE UNCHANGED vars
  BY <1>10 DEF JobInv, vars
<1> QED
  BY <1>1, <1>2, <1>3, <1>4, <1>5, <1>6, <1>7, <1>8, <1>9, <1>10, Zenon
     DEF Next, Step

\* A call that has not begun has planned nothing.
LEMMA InitJob == Init => JobInv
<1> SUFFICES ASSUME Init, NEW p \in Calls PROVE job[p].pc \notin Phases
  BY DEF JobInv
<1>1. job[p] = [Fresh("full", {}, 0) EXCEPT !.pc = "idle"]
  BY DEF Init
<1>2. job[p].pc = "idle"
  BY <1>1 DEF Fresh
<1> QED
  BY <1>2 DEF Phases

-----------------------------------------------------------------------------
(* The publication transaction.                                            *)

\* What is known of a call whose baseline check succeeds.
LEMMA PublishFacts ==
  ASSUME TypeOK, BaselineInv, JobInv, NEW p \in Calls, job[p].pc = "publish",
         VerifyBaseline(p)
  PROVE  /\ job[p] \in Job /\ OneInv(job[p], window[p])
         /\ job[p].existing = db.files /\ db.files \in [Paths -> Row]
         /\ Settled(job[p]) = job[p].candidates /\ Planned(job[p]) = Scope(p)
<1>1. job[p].pc \in Phases
  BY DEF Phases
<1>2. job[p] \in Job /\ OneInv(job[p], window[p])
  BY <1>1, JobFacts
<1>3. Paged(job[p]) = Paths
  BY DEF Paged
<1>4. job[p].existing \in [Paths -> Row] /\ db.files \in [Paths -> Row]
  BY <1>2 DEF TypeOK, Job
<1>5. \A f \in Paths : job[p].existing[f] = db.files[f]
  BY <1>1, <1>3 DEF BaselineInv, VerifyBaseline
<1>6. Settled(job[p]) = job[p].candidates /\ Planned(job[p]) = Scope(p)
  BY DEF Settled, Planned, Scope
<1> QED
  BY <1>2, <1>4, <1>5, <1>6

\* The old row of every relocation is there, with the text it was planned for.
LEMMA SourcesFound ==
  ASSUME TypeOK, BaselineInv, JobInv, NEW p \in Calls, job[p].pc = "publish",
         VerifyBaseline(p)
  PROVE  SourcesKept(p)
BY PublishFacts DEF SourcesKept, OneInv, PartsInv, RelocationInv

\* The files table a publication leaves, path by path.
LEMMA WrittenAt ==
  ASSUME NEW p \in Calls, NEW f \in Paths
  PROVE  /\ job[p].staged[f] # NoRow => Written(p)[f] = job[p].staged[f]
         /\ job[p].staged[f] = NoRow /\ job[p].relocated[f] # NoPath =>
              Written(p)[f] = db.files[job[p].relocated[f]]
         /\ job[p].staged[f] = NoRow /\ job[p].relocated[f] = NoPath =>
              Written(p)[f] = IF job[p].kind = "rebuild" \/ f \in job[p].removals
                              THEN NoRow ELSE db.files[f]
BY DEF Written

\* A call succeeds by a publication or because there is nothing to publish;
\* either way the files table is the one its stage describes.
LEMMA CallSucceeds ==
  ASSUME TypeOK, [Next]_vars, NEW p \in Calls, job[p].pc = "publish", job'[p].pc = "ok"
  PROVE  /\ VerifyBaseline(p)
         /\ \A f \in Paths : db'.files[f] = Written(p)[f]
<1>0. "ok" # "publish" /\ "ok" \notin Phases /\ job[p].pc # job'[p].pc
  BY DEF Phases
<1>1. Commit(p) \/ NoOp(p)
  <2>1. ASSUME NEW f \in Paths, NEW c \in Content, Edit(f, c) PROVE FALSE
    BY <1>0, <2>1 DEF Edit
  <2>2. ASSUME NEW q \in Calls, Begin(q) \/ Commit(q) \/ NoOp(q) \/ Stale(q) \/ Abort(q)
        PROVE  Commit(p) \/ NoOp(p)
    <3>1. q = p
      BY <1>0, <2>2, CallSteps, CallOthers
    <3>2. ~Begin(p)
      BY DEF Begin
    <3>3. ~End(p, "failed")
      BY EndedIsNoPhase
    <3>4. ~Abort(p)
      BY <3>3 DEF Abort
    <3>5. ASSUME Stale(p) PROVE FALSE
      <4>1. \/ \E pc \in {"idle", "ok", "failed"} : End(p, pc)
            \/ \E kind \in Kinds, rep \in SUBSET Paths, a \in 1 .. Attempts :
                 StartAttempt(p, kind, rep, a)
        BY <3>5, CallSteps
      <4>2. StartAttempt(p, job[p].kind, job[p].reported, job[p].attempt + 1)
        BY <3>3, <3>5 DEF Stale
      <4>3. /\ job[p].kind \in Kinds /\ job[p].reported \in SUBSET Paths
            /\ job[p].attempt + 1 \in 1 .. Attempts
        BY <3>3, <3>5, PublicationAssumption DEF Stale, TypeOK, Job
      <4>4. job'[p].pc \in {"existing", "discover"}
        BY <4>2, <4>3, StartedJob
      <4> QED
        BY <4>4
    <3> QED
      BY <2>2, <3>1, <3>2, <3>4, <3>5
  <2>3. ASSUME NEW q \in Calls, Relocate(q) PROVE FALSE
    BY <1>0, <2>3 DEF Relocate, TypeOK
  <2>4. ASSUME NEW q \in Calls, NEW f \in Paths,
               NEW pc \in Phases \ {"publish"}, NEW j, Visit(q, pc, f, j)
        PROVE  FALSE
    <3>1. q # p
      BY <2>4 DEF Visit
    <3> QED
      BY <1>0, <2>4, <3>1 DEF Visit, TypeOK
  <2>5. ASSUME NEW q \in Calls, NEW f \in Paths,
               \/ Discover(q, f) \/ ReadPage(q, f) \/ Observe(q, f) \/ Plan(q, f)
               \/ Hash(q, f) \/ Prepare(q, f)
        PROVE  FALSE
    <3>1. {"discover", "existing", "observe", "plan", "hash", "prepare"}
            \subseteq Phases \ {"publish"}
      BY DEF Phases
    <3>2. \E pc \in Phases \ {"publish"} : \E j : Visit(q, pc, f, j)
      <4>1. CASE Discover(q, f)
        BY <3>1, <4>1 DEF Discover
      <4>2. CASE ReadPage(q, f)
        BY <3>1, <4>2 DEF ReadPage
      <4>3. CASE Observe(q, f)
        BY <3>1, <4>3 DEF Observe
      <4>4. CASE Plan(q, f)
        BY <3>1, <4>4 DEF Plan
      <4>5. CASE Hash(q, f)
        BY <3>1, <4>5 DEF Hash
      <4>6. CASE Prepare(q, f)
        BY <3>1, <4>6 DEF Prepare
      <4> QED
        BY <2>5, <4>1, <4>2, <4>3, <4>4, <4>5, <4>6
    <3> QED
      BY <2>4, <3>2
  <2>6. CASE UNCHANGED vars
    BY <1>0, <2>6 DEF vars
  <2> QED
    BY <2>1, <2>2, <2>3, <2>5, <2>6, Zenon DEF Next, Step
<1>2. CASE Commit(p)
  BY <1>2 DEF Commit
<1>3. CASE NoOp(p)
  <2>1. /\ VerifyBaseline(p) /\ db' = db /\ job[p].kind # "rebuild" /\ job[p].removals = {}
        /\ \A f \in Paths : job[p].staged[f] = NoRow /\ job[p].relocated[f] = NoPath
    BY <1>3 DEF NoOp, Changed
  <2> QED
    BY <2>1, WrittenAt
<1> QED
  BY <1>1, <1>2, <1>3

\* "relocation source changed before publication" is never the outcome of a
\* transaction that passed the baseline check (ReconciliationWriter::relocate).
THEOREM SourcesAreKept == Spec => []RelocationSourcesKept
<1>1. TypeOK /\ BaselineInv /\ JobInv => RelocationSourcesKept
  BY SourcesFound DEF RelocationSourcesKept
<1> QED
  BY <1>1, InitTyped, InitBaseline, InitJob, StepTyped, StepBaseline, StepJob, PTL DEF Spec

\* The row of a relocation is under its new path after a successful call, and
\* under its old one no more.
LEMMA RowMoves ==
  ASSUME TypeOK, BaselineInv, JobInv, [Next]_vars, NEW p \in Calls,
         job[p].pc = "publish", job'[p].pc = "ok",
         NEW n \in Paths, job[p].relocated[n] # NoPath
  PROVE  /\ db'.files[n].text = job[p].hashed[n]
         /\ db'.files[n] = db.files[job[p].relocated[n]]
         /\ db'.files[job[p].relocated[n]] = NoRow /\ job[p].relocated[n] \in Paths
<1> DEFINE j == job[p]
           o == j.relocated[n]
<1>1. VerifyBaseline(p) /\ \A f \in Paths : db'.files[f] = Written(p)[f]
  BY CallSucceeds
<1>2. /\ j \in Job /\ OneInv(j, window[p]) /\ j.existing = db.files
      /\ Settled(j) = j.candidates
  BY <1>1, PublishFacts
<1>3. /\ n \notin j.candidates /\ j.hashed[n] \in Texts
      /\ o \in j.removals \ j.candidates /\ db.files[o].text = j.hashed[n]
  BY <1>2 DEF OneInv, PartsInv, RelocationInv
<1>4. o \in Paths
  BY <1>2, <1>3 DEF Job
<1>5. j.staged[n] = NoRow /\ j.staged[o] = NoRow
  BY <1>2, <1>3, <1>4 DEF OneInv, PartsInv, StageInv
<1>6. j.relocated[o] = NoPath
  <2>1. db.files[o] # NoRow
    BY <1>3, Rows
  <2> QED
    BY <1>2, <1>4, <2>1 DEF OneInv, PartsInv, RelocationInv
<1>7. db'.files[n] = db.files[o]
  BY <1>1, <1>5, WrittenAt
<1>8. db'.files[o] = NoRow
  BY <1>1, <1>3, <1>4, <1>5, <1>6, WrittenAt
<1> QED
  BY <1>3, <1>4, <1>7, <1>8

\* A rename moves its row: the generation that has the file under its new path,
\* with the text read there, no longer has it under the old one
\* (plan_relocations, ReconciliationWriter::relocate).
THEOREM RenamesMove == Spec => RelocationMoves
<1>1. TypeOK /\ BaselineInv /\ JobInv /\ [Next]_vars =>
        [\A p \in Calls : job[p].pc = "publish" /\ job'[p].pc = "ok" =>
           \A n \in Paths : job[p].relocated[n] # NoPath =>
              /\ db'.files[n].text = job[p].hashed[n]
              /\ db'.files[job[p].relocated[n]] = NoRow]_vars
  BY RowMoves, Zenon
<1> QED
  BY <1>1, InitTyped, InitBaseline, InitJob, StepTyped, StepBaseline, StepJob, PTL
     DEF Spec, RelocationMoves

\* What a successful call leaves in the files table: a path outside its scope may
\* change too, but only to what the call saw there.
LEMMA FromWindow ==
  ASSUME TypeOK, BaselineInv, JobInv, [Next]_vars, NEW p \in Calls,
         job[p].pc = "publish", job'[p].pc = "ok", NEW f \in Paths
  PROVE  \/ db'.files[f].text \in {Indexed(c) : c \in window[p][f]}
         \/ /\ f \in job[p].unread
            /\ db'.files[f] = IF job[p].kind = "rebuild" THEN NoRow ELSE db.files[f]
         \/ f \notin Scope(p) /\ db'.files[f] = db.files[f]
<1> DEFINE j == job[p]
           w == window[p]
<1> DEFINE Left == /\ f \in j.unread
                   /\ db'.files[f] = IF j.kind = "rebuild" THEN NoRow ELSE db.files[f]
           Other == f \notin Scope(p) /\ db'.files[f] = db.files[f]
<1>0. SUFFICES db'.files[f].text \in Seen(w, f) \/ Left \/ Other
  BY DEF Seen
<1> HIDE DEF Left, Other
<1>1. VerifyBaseline(p) /\ \A g \in Paths : db'.files[g] = Written(p)[g]
  BY CallSucceeds
<1>2. /\ j \in Job /\ OneInv(j, w) /\ j.existing = db.files
      /\ Settled(j) = j.candidates /\ Planned(j) = Scope(p)
  BY <1>1, PublishFacts
<1>3. CASE j.staged[f] # NoRow
  <2>1. db'.files[f] = j.staged[f]
    BY <1>1, <1>3, WrittenAt
  <2> QED
    BY <1>2, <1>3, <2>1 DEF OneInv, PartsInv, StageInv
<1>4. CASE j.staged[f] = NoRow /\ j.relocated[f] # NoPath
  <2>1. db'.files[f] = db.files[j.relocated[f]]
    BY <1>1, <1>4, WrittenAt
  <2>2. /\ j.hashed[f] \in Texts /\ db.files[j.relocated[f]].text = j.hashed[f]
        /\ j.hashed[f] = "absent" \/ j.hashed[f] \in w[f]
    BY <1>2, <1>4 DEF OneInv, PartsInv, RelocationInv
  <2>3. j.hashed[f] \in w[f] /\ j.hashed[f] \in Content
    BY <2>2, PublicationAssumption DEF Content
  <2> QED
    BY <2>1, <2>2, <2>3, SeenNow
<1>5. CASE j.staged[f] = NoRow /\ j.relocated[f] = NoPath
  <2>1. db'.files[f] = IF j.kind = "rebuild" \/ f \in j.removals THEN NoRow
                       ELSE db.files[f]
    BY <1>1, <1>5, WrittenAt
  <2>2. CASE f \in j.removals
    <3>1. "absent" \in Seen(w, f)
      BY <1>2, <2>2 DEF OneInv, PartsInv, PlanInv
    <3> QED
      BY <2>1, <2>2, <3>1, Rows
  <2>3. CASE f \notin j.removals /\ f \in j.unread
    BY <2>1, <2>3 DEF Left
  <2>4. CASE f \notin j.removals /\ f \notin j.unread /\ f \notin Scope(p)
    BY <2>1, <2>4 DEF Scope, Other
  <2>5. CASE f \notin j.removals /\ f \notin j.unread /\ f \in Scope(p)
    <3>1. Leave(j, w, f)
      <4>1. CASE f \in j.candidates
        BY <1>2, <1>5, <2>5, <4>1 DEF OneInv, PartsInv, StageInv
      <4>2. CASE f \notin j.candidates
        BY <1>2, <1>5, <2>5, <4>2 DEF OneInv, PartsInv, PlanInv
      <4> QED
        BY <4>1, <4>2
    <3> QED
      BY <1>2, <2>1, <2>5, <3>1, Rows DEF Leave
  <2> QED
    BY <2>2, <2>3, <2>4, <2>5
<1> QED
  BY <1>3, <1>4, <1>5

\* A successful call leaves every path it promised to check as the working tree
\* had it at some moment of the call, whatever was edited or published by others
\* meanwhile; only a file whose read failed keeps its row (reconcile_once,
\* reconcile_paths_once, publish_reconciliation).
THEOREM PublicationsAreFromWindows == Spec => PublishedFromWindow
<1>1. TypeOK /\ BaselineInv /\ JobInv /\ [Next]_vars =>
        [\A p \in Calls : job[p].pc = "publish" /\ job'[p].pc = "ok" =>
           \A f \in Scope(p) :
              \/ db'.files[f].text \in {Indexed(c) : c \in window[p][f]}
              \/ /\ f \in job[p].unread
                 /\ db'.files[f] = IF job[p].kind = "rebuild" THEN NoRow
                                   ELSE db.files[f]]_vars
  <2>1. TypeOK => \A p \in Calls : Scope(p) \subseteq Paths
    BY DEF TypeOK, Scope, Job
  <2> QED
    BY <2>1, FromWindow, Zenon
<1> QED
  BY <1>1, InitTyped, InitBaseline, InitJob, StepTyped, StepBaseline, StepJob, PTL
     DEF Spec, PublishedFromWindow

\* A file that was not edited while a call ran is indexed as it is when the call
\* succeeds, unless its read failed: a scan is what ReconcileWaves takes it to be
\* (reconcile_once, reconcile_paths_once).
THEOREM QuietFiles == Spec => QuietFilesAreExact
<1>1. ASSUME TypeOK, BaselineInv, JobInv, [Next]_vars, NEW p \in Calls,
             job[p].pc = "publish", job'[p].pc = "ok",
             NEW f \in Scope(p) \ job[p].unread, window[p][f] = {disk[f]}
      PROVE  db'.files[f].text = Indexed(disk[f])
  <2>0. f \in Paths
    BY <1>1 DEF TypeOK, Scope, Job
  <2>1. db'.files[f].text \in {Indexed(c) : c \in window[p][f]}
    BY <1>1, <2>0, FromWindow
  <2> QED
    BY <1>1, <2>1
<1>2. TypeOK /\ BaselineInv /\ JobInv /\ [Next]_vars =>
        [\A p \in Calls : job[p].pc = "publish" /\ job'[p].pc = "ok" =>
           \A f \in Scope(p) \ job[p].unread :
              window[p][f] = {disk[f]} => db'.files[f].text = Indexed(disk[f])]_vars
  BY <1>1, Zenon
<1> QED
  BY <1>2, InitTyped, InitBaseline, InitJob, StepTyped, StepBaseline, StepJob, PTL
     DEF Spec, QuietFilesAreExact

-----------------------------------------------------------------------------
(* Derivation: which configuration the rows of a generation were derived    *)
(* under.                                                                   *)

\* The phase and the sets of a job may change as long as they do not grow.
LEMMA DerivedSame ==
  ASSUME NEW j, NEW k, NEW c, Derived(j, c),
         k.kind = j.kind, k.baseline = j.baseline,
         k.pc \in {"hash", "relocate"} => k.kind = "paths",
         k.relocated = j.relocated, k.staged = j.staged,
         k.removals = j.removals, k.candidates = j.candidates, k.unread = j.unread,
         Planned(k) \subseteq Planned(j), Settled(k) \subseteq Settled(j),
         \A f \in Planned(k) \cup Settled(k) : k.existing[f] = j.existing[f]
  PROVE  Derived(k, c)
BY DEF Derived

\* Only a call for reported paths looks for relocations (reconcile_paths_once).
LEMMA HashOnlyPaths ==
  ASSUME NEW j \in Job, j.pc \in Phases \ {"publish"}, NEW c, Derived(j, c),
         NEW k, k = Advance(j), k.pc \in {"hash", "relocate"}
  PROVE  j.kind = "paths"
<1>1. k.pc = After(j)[1]
  BY AdvanceFields
<1>2. j.pc = "hash" \/ j.kind = "paths"
  <2>1. CASE j.pc = "plan"
    BY <1>1, <2>1 DEF After
  <2>2. CASE j.pc \in {"discover", "existing", "observe", "relocate", "prepare"}
    BY <1>1, <2>2, AfterCases
  <2> QED
    BY <2>1, <2>2 DEF Phases
<1> QED
  BY <1>2 DEF Derived

\* The next phase keeps what is known of the derivation.
LEMMA DerivedAdvance ==
  ASSUME NEW j \in Job, j.pc \in Phases \ {"publish"},
         j.pc = "relocate" \/ j.left = {}, j.pc = "observe" => j.kind = "paths",
         NEW c, Derived(j, c), NEW k, k = Advance(j)
  PROVE  Derived(k, c)
<1>1. /\ k.kind = j.kind /\ k.baseline = j.baseline /\ k.existing = j.existing
      /\ k.candidates = j.candidates /\ k.removals = j.removals
      /\ k.relocated = j.relocated /\ k.staged = j.staged /\ k.unread = j.unread
  BY AdvanceKeeps
<1>2. Planned(k) \subseteq Planned(j) /\ Settled(k) = Settled(j)
  BY AdvanceSets
<1>3. k.pc \in {"hash", "relocate"} => k.kind = "paths"
  BY <1>1, HashOnlyPaths
<1> QED
  BY <1>1, <1>2, <1>3, DerivedSame

\* A visit keeps DerivationInv when the job without the visited path has it.
LEMMA DerivedVisit ==
  ASSUME TypeOK, JobInv, DerivationInv, NEW p \in Calls, NEW f \in Paths,
         NEW pc \in Phases \ {"publish"}, NEW j \in Job, j.pc = pc, Visit(p, pc, f, j),
         j.kind = job[p].kind,
         NEW rest, rest = [j EXCEPT !.left = @ \ {f}], Derived(rest, ConfigOf[p])
  PROVE  DerivationInv'
<1>1. /\ job'[p] = (IF rest.left = {} THEN Advance(rest) ELSE rest)
      /\ \A q \in Calls : q # p => job'[q] = job[q]
      /\ job[p].pc = pc
  BY VisitResult
<1>2. rest \in Job /\ rest.pc = pc /\ rest.kind = j.kind
  BY VisitFields
<1>3. rest.pc = "observe" => rest.kind = "paths"
  BY <1>1, <1>2 DEF JobInv, PlanInv
<1>4. Derived(job'[p], ConfigOf[p])
  <2>1. CASE rest.left = {}
    BY <1>1, <1>2, <1>3, <2>1, DerivedAdvance
  <2>2. CASE rest.left # {}
    BY <1>1, <2>2
  <2> QED
    BY <2>1, <2>2
<1> QED
  BY <1>1, <1>4 DEF DerivationInv

\* A row of another configuration is removed or derived again (ForceReindex).
LEMMA ForcedPlan ==
  ASSUME TypeOK, NEW p \in Calls, NEW f \in Paths, Derived(job[p], ConfigOf[p]),
         job[p].baseline.config # ConfigOf[p], job[p].existing[f] # NoRow
  PROVE  Gone(p, f) \/ Wanted(p, f)
<1>1. job[p].kind # "paths"
  BY DEF Derived
<1> QED
  BY <1>1 DEF Gone, Wanted, Discovered, ForceReindex

\* DerivationInv is inductive, given the plan of every call.
LEMMA StepDerivation == TypeOK /\ JobInv /\ DerivationInv /\ [Next]_vars => DerivationInv'
<1> SUFFICES ASSUME TypeOK, JobInv, DerivationInv, [Next]_vars PROVE DerivationInv'
  OBVIOUS
<1>1. ASSUME NEW f \in Paths, NEW c \in Content, Edit(f, c) PROVE DerivationInv'
  BY <1>1 DEF Edit, DerivationInv
<1>2. ASSUME NEW p \in Calls, Begin(p) \/ Commit(p) \/ NoOp(p) \/ Stale(p) \/ Abort(p)
      PROVE  DerivationInv'
  <2>1. \A q \in Calls : q # p => job'[q] = job[q]
    BY <1>2, CallSteps, CallOthers, Zenon
  <2>2. ASSUME job'[p].pc \in Phases PROVE Derived(job'[p], ConfigOf[p])
    <3>1. \A pc \in {"idle", "ok", "failed"} : ~End(p, pc)
      BY <2>2, EndedIsNoPhase
    <3>2. PICK kind \in Kinds, rep \in SUBSET Paths, a \in 1 .. Attempts :
            StartAttempt(p, kind, rep, a)
      BY <1>2, <3>1, CallSteps
    <3> DEFINE k == job'[p]
    <3>3. /\ k.pc = (IF k.kind = "paths" THEN "existing" ELSE "discover")
          /\ k.baseline = [gen |-> db.gen, config |-> db.config]
          /\ k.left = Paths /\ k.candidates = {} /\ k.removals = {} /\ k.unread = {}
          /\ k.relocated = [f \in Paths |-> NoPath]
          /\ k.staged = [f \in Paths |-> NoRow]
      BY <3>2, StartedJob
    <3>4. k.kind = KindFor(p, kind)
      BY <3>2 DEF StartAttempt, Fresh, TypeOK
    <3>5. k.kind = "paths" => db.config = ConfigOf[p]
      BY <3>4 DEF KindFor
    <3> HIDE DEF k
    <3>6. Planned(k) = {} /\ Settled(k) = {}
      BY <3>3 DEF Planned, Settled
    <3>7. Derived(k, ConfigOf[p])
      BY <3>3, <3>5, <3>6 DEF Derived
    <3> QED
      BY <3>7 DEF k
  <2> QED
    BY <2>1, <2>2 DEF DerivationInv
<1>3. ASSUME NEW p \in Calls, Relocate(p) PROVE DerivationInv'
  <2>1. PICK from \in [Paths -> Paths \cup {NoPath}], C \in SUBSET Paths, j \in Job :
          /\ from = [n \in Paths |-> Source(p, n)]
          /\ C = {n \in job[p].candidates : from[n] = NoPath}
          /\ j = [job[p] EXCEPT !.relocated = from, !.candidates = C]
          /\ j.pc = "relocate" /\ job[p].pc = "relocate"
          /\ job' = [job EXCEPT ![p] = Advance(j)]
          /\ UNCHANGED <<disk, edits, db, window>>
    BY <1>3, RelocateResult, Zenon
  <2>2. job[p] \in Job /\ job[p].pc \in Phases /\ Derived(job[p], ConfigOf[p])
    BY <2>1 DEF Phases, DerivationInv, TypeOK
  <2>3. /\ j.kind = job[p].kind /\ j.baseline = job[p].baseline
        /\ j.staged = job[p].staged /\ j.relocated = from
    BY <2>1, <2>2 DEF Job
  <2>4. j.kind = "paths" /\ j.baseline.config = ConfigOf[p]
    BY <2>1, <2>2, <2>3 DEF Derived
  <2>5. Derived(j, ConfigOf[p])
    BY <2>2, <2>3, <2>4 DEF Derived
  <2>6. /\ job'[p] = Advance(j) /\ \A q \in Calls : q # p => job'[q] = job[q]
        /\ j.pc \in Phases \ {"publish"}
    BY <2>1 DEF TypeOK, Phases
  <2>7. Derived(job'[p], ConfigOf[p])
    BY <2>1, <2>5, <2>6, DerivedAdvance
  <2> QED
    BY <2>6, <2>7 DEF DerivationInv
<1>4. ASSUME NEW p \in Calls, NEW f \in Paths, Discover(p, f) PROVE DerivationInv'
  <2>1. PICK j \in Job :
          /\ Visit(p, "discover", f, j) /\ j.pc = job[p].pc
          /\ j = IF Discoverable(disk[f]) THEN [job[p] EXCEPT !.found = @ \cup {f}]
             ELSE job[p]
    BY <1>4, VisitDiscover
  <2>2. j.pc = "discover" /\ job[p].pc = "discover" /\ f \in job[p].left
    BY <2>1 DEF Visit
  <2> DEFINE rest == [j EXCEPT !.left = @ \ {f}]
  <2>3. job[p] \in Job /\ job[p].pc \in Phases /\ Derived(job[p], ConfigOf[p])
    BY <2>2 DEF Phases, DerivationInv, TypeOK
  <2>4. /\ j.left = job[p].left /\ j.kind = job[p].kind /\ j.baseline = job[p].baseline
        /\ j.reported = job[p].reported /\ j.existing = job[p].existing /\ j.delta = job[p].delta
        /\ j.candidates = job[p].candidates /\ j.removals = job[p].removals /\ j.hashed = job[p].hashed
        /\ j.relocated = job[p].relocated /\ j.staged = job[p].staged /\ j.unread = job[p].unread
    BY <2>1, <2>3 DEF Job
  <2>5. /\ rest \in Job /\ rest.left = j.left \ {f} /\ rest.pc = j.pc
        /\ rest.kind = j.kind /\ rest.baseline = j.baseline /\ rest.reported = j.reported
        /\ rest.existing = j.existing /\ rest.found = j.found /\ rest.delta = j.delta
        /\ rest.candidates = j.candidates /\ rest.removals = j.removals /\ rest.hashed = j.hashed
        /\ rest.relocated = j.relocated /\ rest.staged = j.staged /\ rest.unread = j.unread
    BY VisitFields
  <2>6. rest = [j EXCEPT !.left = @ \ {f}] /\ "discover" \in Phases \ {"publish"}
    BY DEF Phases
  <2> HIDE DEF rest
  <2>7. Planned(rest) = {} /\ Settled(rest) = {}
    BY <2>2, <2>5 DEF Planned, Settled
  <2>8. rest.pc \in {"hash", "relocate"} => rest.kind = "paths"
    BY <2>2, <2>3, <2>4, <2>5 DEF Derived
  <2>9. Derived(rest, ConfigOf[p])
    BY <2>3, <2>4, <2>5, <2>7, <2>8, DerivedSame
  <2> QED
    BY <2>1, <2>2, <2>4, <2>6, <2>9, DerivedVisit
<1>5. ASSUME NEW p \in Calls, NEW f \in Paths, ReadPage(p, f) PROVE DerivationInv'
  <2>1. PICK j \in Job :
          /\ Visit(p, "existing", f, j) /\ j.pc = job[p].pc
          /\ j = [job[p] EXCEPT !.existing[f] = db.files[f]]
    BY <1>5, VisitReadPage
  <2>2. j.pc = "existing" /\ job[p].pc = "existing" /\ f \in job[p].left
    BY <2>1 DEF Visit
  <2> DEFINE rest == [j EXCEPT !.left = @ \ {f}]
  <2>3. job[p] \in Job /\ job[p].pc \in Phases /\ Derived(job[p], ConfigOf[p])
    BY <2>2 DEF Phases, DerivationInv, TypeOK
  <2>4. /\ j.left = job[p].left /\ j.kind = job[p].kind /\ j.baseline = job[p].baseline
        /\ j.reported = job[p].reported /\ j.found = job[p].found /\ j.delta = job[p].delta
        /\ j.candidates = job[p].candidates /\ j.removals = job[p].removals /\ j.hashed = job[p].hashed
        /\ j.relocated = job[p].relocated /\ j.staged = job[p].staged /\ j.unread = job[p].unread
    BY <2>1, <2>3 DEF Job
  <2>5. /\ rest \in Job /\ rest.left = j.left \ {f} /\ rest.pc = j.pc
        /\ rest.kind = j.kind /\ rest.baseline = j.baseline /\ rest.reported = j.reported
        /\ rest.existing = j.existing /\ rest.found = j.found /\ rest.delta = j.delta
        /\ rest.candidates = j.candidates /\ rest.removals = j.removals /\ rest.hashed = j.hashed
        /\ rest.relocated = j.relocated /\ rest.staged = j.staged /\ rest.unread = j.unread
    BY VisitFields
  <2>6. rest = [j EXCEPT !.left = @ \ {f}] /\ "existing" \in Phases \ {"publish"}
    BY DEF Phases
  <2> HIDE DEF rest
  <2>7. Planned(rest) = {} /\ Settled(rest) = {}
    BY <2>2, <2>5 DEF Planned, Settled
  <2>8. rest.pc \in {"hash", "relocate"} => rest.kind = "paths"
    BY <2>2, <2>3, <2>4, <2>5 DEF Derived
  <2>9. Derived(rest, ConfigOf[p])
    BY <2>3, <2>4, <2>5, <2>7, <2>8, DerivedSame
  <2> QED
    BY <2>1, <2>2, <2>4, <2>6, <2>9, DerivedVisit
<1>6. ASSUME NEW p \in Calls, NEW f \in Paths, Observe(p, f) PROVE DerivationInv'
  <2>1. PICK j \in Job, b \in BOOLEAN :
          /\ Visit(p, "observe", f, j) /\ j.pc = job[p].pc
          /\ j = [job[p] EXCEPT !.delta = b]
    BY <1>6, VisitObserve
  <2>2. j.pc = "observe" /\ job[p].pc = "observe" /\ f \in job[p].left
    BY <2>1 DEF Visit
  <2> DEFINE rest == [j EXCEPT !.left = @ \ {f}]
  <2>3. job[p] \in Job /\ job[p].pc \in Phases /\ Derived(job[p], ConfigOf[p])
    BY <2>2 DEF Phases, DerivationInv, TypeOK
  <2>4. /\ j.left = job[p].left /\ j.kind = job[p].kind /\ j.baseline = job[p].baseline
        /\ j.reported = job[p].reported /\ j.existing = job[p].existing /\ j.found = job[p].found
        /\ j.candidates = job[p].candidates /\ j.removals = job[p].removals /\ j.hashed = job[p].hashed
        /\ j.relocated = job[p].relocated /\ j.staged = job[p].staged /\ j.unread = job[p].unread
    BY <2>1, <2>3 DEF Job
  <2>5. /\ rest \in Job /\ rest.left = j.left \ {f} /\ rest.pc = j.pc
        /\ rest.kind = j.kind /\ rest.baseline = j.baseline /\ rest.reported = j.reported
        /\ rest.existing = j.existing /\ rest.found = j.found /\ rest.delta = j.delta
        /\ rest.candidates = j.candidates /\ rest.removals = j.removals /\ rest.hashed = j.hashed
        /\ rest.relocated = j.relocated /\ rest.staged = j.staged /\ rest.unread = j.unread
    BY VisitFields
  <2>6. rest = [j EXCEPT !.left = @ \ {f}] /\ "observe" \in Phases \ {"publish"}
    BY DEF Phases
  <2> HIDE DEF rest
  <2>7. Planned(rest) = {} /\ Settled(rest) = {}
    BY <2>2, <2>5 DEF Planned, Settled
  <2>8. rest.pc \in {"hash", "relocate"} => rest.kind = "paths"
    BY <2>2, <2>3, <2>4, <2>5 DEF Derived
  <2>9. Derived(rest, ConfigOf[p])
    BY <2>3, <2>4, <2>5, <2>7, <2>8, DerivedSame
  <2> QED
    BY <2>1, <2>2, <2>4, <2>6, <2>9, DerivedVisit
<1>7. ASSUME NEW p \in Calls, NEW f \in Paths, Plan(p, f) PROVE DerivationInv'
  <2>1. PICK j \in Job, R \in SUBSET Paths, C \in SUBSET Paths :
          /\ Visit(p, "plan", f, j) /\ j.pc = job[p].pc
          /\ j = [job[p] EXCEPT !.removals = R, !.candidates = C]
          /\ R = IF Gone(p, f) THEN job[p].removals \cup {f} ELSE job[p].removals
          /\ C = IF Wanted(p, f) THEN job[p].candidates \cup {f} ELSE job[p].candidates
    BY <1>7, VisitPlan
  <2>2. j.pc = "plan" /\ job[p].pc = "plan" /\ f \in job[p].left
    BY <2>1 DEF Visit
  <2> DEFINE rest == [j EXCEPT !.left = @ \ {f}]
  <2>3. job[p] \in Job /\ job[p].pc \in Phases /\ Derived(job[p], ConfigOf[p])
    BY <2>2 DEF Phases, DerivationInv, TypeOK
  <2>4. /\ j.left = job[p].left /\ j.kind = job[p].kind /\ j.baseline = job[p].baseline
        /\ j.reported = job[p].reported /\ j.existing = job[p].existing /\ j.found = job[p].found
        /\ j.delta = job[p].delta /\ j.hashed = job[p].hashed /\ j.relocated = job[p].relocated
        /\ j.staged = job[p].staged /\ j.unread = job[p].unread
    BY <2>1, <2>3 DEF Job
  <2>5. /\ rest \in Job /\ rest.left = j.left \ {f} /\ rest.pc = j.pc
        /\ rest.kind = j.kind /\ rest.baseline = j.baseline /\ rest.reported = j.reported
        /\ rest.existing = j.existing /\ rest.found = j.found /\ rest.delta = j.delta
        /\ rest.candidates = j.candidates /\ rest.removals = j.removals /\ rest.hashed = j.hashed
        /\ rest.relocated = j.relocated /\ rest.staged = j.staged /\ rest.unread = j.unread
    BY VisitFields
  <2>6. rest = [j EXCEPT !.left = @ \ {f}] /\ "plan" \in Phases \ {"publish"}
    BY DEF Phases
  <2> HIDE DEF rest
  <2>7. j.removals = R /\ j.candidates = C
    BY <2>1, <2>3 DEF Job
  <2>8. /\ Settled(rest) = {}
        /\ Planned(rest) \subseteq Planned(job[p]) \cup {f}
    BY <2>2, <2>4, <2>5 DEF Planned, Settled
  <2>9. ASSUME job[p].baseline.config # ConfigOf[p], NEW g \in Planned(rest),
               rest.existing[g] # NoRow
        PROVE  g \in rest.removals \cup rest.candidates
    <3>1. CASE g = f
      BY <2>1, <2>3, <2>4, <2>5, <2>7, <2>9, <3>1, ForcedPlan
    <3>2. CASE g \in Planned(job[p])
      BY <2>1, <2>3, <2>4, <2>5, <2>7, <2>9, <3>2 DEF Derived
    <3> QED
      BY <2>8, <3>1, <3>2
  <2>10. Derived(rest, ConfigOf[p])
    BY <2>2, <2>3, <2>4, <2>5, <2>8, <2>9 DEF Derived
  <2> QED
    BY <2>1, <2>2, <2>4, <2>6, <2>10, DerivedVisit
<1>8. ASSUME NEW p \in Calls, NEW f \in Paths, Hash(p, f) PROVE DerivationInv'
  <2>1. PICK j \in Job, c \in {disk[f], "absent"} :
          /\ Visit(p, "hash", f, j) /\ j.pc = job[p].pc
          /\ j = [job[p] EXCEPT !.hashed[f] = c]
    BY <1>8, VisitHash
  <2>2. j.pc = "hash" /\ job[p].pc = "hash" /\ f \in job[p].left
    BY <2>1 DEF Visit
  <2> DEFINE rest == [j EXCEPT !.left = @ \ {f}]
  <2>3. job[p] \in Job /\ job[p].pc \in Phases /\ Derived(job[p], ConfigOf[p])
    BY <2>2 DEF Phases, DerivationInv, TypeOK
  <2>4. /\ j.left = job[p].left /\ j.kind = job[p].kind /\ j.baseline = job[p].baseline
        /\ j.reported = job[p].reported /\ j.existing = job[p].existing /\ j.found = job[p].found
        /\ j.delta = job[p].delta /\ j.candidates = job[p].candidates /\ j.removals = job[p].removals
        /\ j.relocated = job[p].relocated /\ j.staged = job[p].staged /\ j.unread = job[p].unread
    BY <2>1, <2>3 DEF Job
  <2>5. /\ rest \in Job /\ rest.left = j.left \ {f} /\ rest.pc = j.pc
        /\ rest.kind = j.kind /\ rest.baseline = j.baseline /\ rest.reported = j.reported
        /\ rest.existing = j.existing /\ rest.found = j.found /\ rest.delta = j.delta
        /\ rest.candidates = j.candidates /\ rest.removals = j.removals /\ rest.hashed = j.hashed
        /\ rest.relocated = j.relocated /\ rest.staged = j.staged /\ rest.unread = j.unread
    BY VisitFields
  <2>6. rest = [j EXCEPT !.left = @ \ {f}] /\ "hash" \in Phases \ {"publish"}
    BY DEF Phases
  <2> HIDE DEF rest
  <2>7. Planned(rest) = Planned(job[p]) /\ Settled(rest) = Settled(job[p])
    BY <2>2, <2>4, <2>5 DEF Planned, Settled
  <2>8. rest.pc \in {"hash", "relocate"} => rest.kind = "paths"
    BY <2>2, <2>3, <2>4, <2>5 DEF Derived
  <2>9. Derived(rest, ConfigOf[p])
    BY <2>3, <2>4, <2>5, <2>7, <2>8, DerivedSame
  <2> QED
    BY <2>1, <2>2, <2>4, <2>6, <2>9, DerivedVisit
<1>9. ASSUME NEW p \in Calls, NEW f \in Paths, Prepare(p, f) PROVE DerivationInv'
  <2>1. PICK c \in {disk[f], "absent"} :
          /\ c \in Content /\ Visit(p, "prepare", f, Prepared(p, f, c))
          /\ Prepared(p, f, c) \in Job /\ Prepared(p, f, c).pc = job[p].pc
    BY <1>9, VisitPrepare
  <2> DEFINE j == Prepared(p, f, c)
             j0 == job[p]
             rest == [j EXCEPT !.left = @ \ {f}]
  <2>2. j.pc = "prepare" /\ j0.pc = "prepare" /\ f \in j0.left
    BY <2>1 DEF Visit
  <2>3. j0 \in Job /\ j0.pc \in Phases /\ Derived(j0, ConfigOf[p])
    BY <2>2 DEF Phases, DerivationInv, TypeOK
  <2>4. \/ c \in Texts /\ j0.kind = "paths" /\ j = j0
        \/ c \in Texts /\ j = [j0 EXCEPT !.staged[f] = [text |-> c, config |-> ConfigOf[p]]]
        \/ j0.existing[f] # NoRow /\ j = [j0 EXCEPT !.removals = @ \cup {f}]
        \/ j0.existing[f] = NoRow /\ j = j0
        \/ j = [j0 EXCEPT !.unread = @ \cup {f}]
    BY <2>1, PreparedCases
  <2>5. j \in Job /\ Visit(p, "prepare", f, j)
    BY <2>1
  <2> HIDE DEF j
  <2>6. /\ j.left = j0.left /\ j.kind = j0.kind /\ j.reported = j0.reported
        /\ j.baseline = j0.baseline /\ j.existing = j0.existing
        /\ j.candidates = j0.candidates /\ j.relocated = j0.relocated
        /\ \A g \in Paths : g # f => j.staged[g] = j0.staged[g]
        /\ j.staged[f] = j0.staged[f] \/ (c \in Texts /\
             j.staged[f] = [text |-> c, config |-> ConfigOf[p]])
        /\ j0.removals \subseteq j.removals /\ j0.unread \subseteq j.unread
        /\ \/ j.staged[f] = [text |-> c, config |-> ConfigOf[p]] /\ c \in Texts
           \/ f \in j.removals \cup j.unread \/ j0.existing[f] = NoRow
           \/ j0.kind = "paths"
    <3> HIDE DEF j0
    <3>1. CASE j = j0 /\ (j0.existing[f] = NoRow \/ j0.kind = "paths")
      BY <3>1
    <3>2. CASE c \in Texts /\ j = [j0 EXCEPT !.staged[f] = [text |-> c, config |-> ConfigOf[p]]]
      BY <2>3, <3>2 DEF Job
    <3>3. CASE j = [j0 EXCEPT !.removals = @ \cup {f}]
      BY <2>3, <3>3 DEF Job
    <3>4. CASE j = [j0 EXCEPT !.unread = @ \cup {f}]
      BY <2>3, <3>4 DEF Job
    <3> QED
      BY <2>4, <3>1, <3>2, <3>3, <3>4
  <2>7. /\ rest \in Job /\ rest.left = j.left \ {f} /\ rest.pc = j.pc
        /\ rest.kind = j.kind /\ rest.baseline = j.baseline /\ rest.reported = j.reported
        /\ rest.existing = j.existing /\ rest.candidates = j.candidates
        /\ rest.removals = j.removals /\ rest.relocated = j.relocated
        /\ rest.staged = j.staged /\ rest.unread = j.unread
    BY <2>5, VisitFields
  <2>8. rest = [j EXCEPT !.left = @ \ {f}] /\ "prepare" \in Phases \ {"publish"}
    BY DEF Phases
  <2> HIDE DEF rest, j0
  <2>9. /\ Planned(rest) = Planned(j0) /\ Settled(rest) \subseteq Settled(j0) \cup {f}
        /\ Settled(rest) \subseteq Paths
    BY <2>2, <2>3, <2>6, <2>7 DEF Planned, Settled, Job
  <2>10. c \in Texts => [text |-> c, config |-> ConfigOf[p]] # NoRow
    BY PublicationAssumption DEF NoRow
  <2>11. \A g \in Paths : rest.staged[g] # NoRow => rest.staged[g].config = ConfigOf[p]
    BY <2>3, <2>6, <2>7 DEF Derived
  <2>12. ASSUME rest.baseline.config # ConfigOf[p],
                NEW g \in Settled(rest) \ (rest.unread \cup rest.removals),
                rest.staged[g] = NoRow
         PROVE  rest.existing[g] = NoRow
    <3>1. j0.kind # "paths"
      BY <2>3, <2>6, <2>7, <2>12 DEF Derived
    <3>2. CASE g = f
      BY <2>6, <2>7, <2>10, <2>12, <3>1, <3>2
    <3>3. CASE g # f
      BY <2>3, <2>6, <2>7, <2>9, <2>12, <3>3 DEF Derived
    <3> QED
      BY <3>2, <3>3
  <2>13. Derived(rest, ConfigOf[p])
    BY <2>2, <2>3, <2>6, <2>7, <2>9, <2>11, <2>12 DEF Derived
  <2> QED
    BY <2>2, <2>5, <2>6, <2>8, <2>13, DerivedVisit DEF j0
<1>10. CASE UNCHANGED vars
  BY <1>10 DEF DerivationInv, vars
<1> QED
  BY <1>1, <1>2, <1>3, <1>4, <1>5, <1>6, <1>7, <1>8, <1>9, <1>10, Zenon
     DEF Next, Step

\* A call that has not begun has derived nothing.
LEMMA InitDerivation == Init => DerivationInv
<1> SUFFICES ASSUME Init, NEW p \in Calls PROVE job[p].pc \notin Phases
  BY DEF DerivationInv
<1>1. job[p] = [Fresh("full", {}, 0) EXCEPT !.pc = "idle"]
  BY DEF Init
<1>2. job[p].pc = "idle"
  BY <1>1 DEF Fresh
<1> QED
  BY <1>2 DEF Phases

\* The committed generation is replaced by a publication and by nothing else.
LEMMA OnlyCommitsWrite ==
  ASSUME [Next]_vars, db' # db
  PROVE  \E p \in Calls : Commit(p)
<1>1. ASSUME NEW p \in Calls, NEW f \in Paths PROVE
        /\ Discover(p, f) => db' = db
        /\ ReadPage(p, f) => db' = db
        /\ Observe(p, f) => db' = db
        /\ Plan(p, f) => db' = db
        /\ Hash(p, f) => db' = db
        /\ Prepare(p, f) => db' = db
  BY DEF Discover, ReadPage, Observe, Plan, Hash, Prepare, Visit
<1>2. ASSUME NEW p \in Calls PROVE
        /\ Begin(p) => db' = db
        /\ Relocate(p) => db' = db
        /\ NoOp(p) => db' = db
        /\ Stale(p) => db' = db
        /\ Abort(p) => db' = db
  BY DEF Begin, Relocate, NoOp, Stale, Abort
<1>3. \A f \in Paths, c \in Content : Edit(f, c) => db' = db
  BY DEF Edit
<1>4. UNCHANGED vars => db' = db
  BY DEF vars
<1> QED
  BY <1>1, <1>2, <1>3, <1>4, Zenon DEF Next, Step

\* A row that a publication leaves under another configuration than its own was
\* already there, and its file could not be read.
LEMMA OddRowsAreUnread ==
  ASSUME TypeOK, BaselineInv, JobInv, DerivationInv, UniformDerivation,
         NEW p \in Calls, Commit(p), NEW f \in Paths,
         db'.files[f] # NoRow, db'.files[f].config # db'.config
  PROVE  /\ job[p].kind = "full" /\ f \in job[p].unread
         /\ db'.files[f] = db.files[f]
<1> DEFINE j == job[p]
<1>1. /\ j.pc = "publish" /\ VerifyBaseline(p)
      /\ db'.config = ConfigOf[p] /\ db'.files[f] = Written(p)[f]
  BY DEF Commit
<1>2. /\ j \in Job /\ OneInv(j, window[p]) /\ j.existing = db.files
      /\ Settled(j) = j.candidates /\ Planned(j) = Scope(p)
  BY <1>1, PublishFacts
<1>3. Derived(j, ConfigOf[p]) /\ j.baseline.config = db.config
  BY <1>1 DEF DerivationInv, Phases, VerifyBaseline
<1>4. j.staged[f] = NoRow
  BY <1>1, <1>3, WrittenAt DEF Derived
<1>5. j.relocated[f] = NoPath
  <2> SUFFICES ASSUME j.relocated[f] # NoPath PROVE FALSE
    OBVIOUS
  <2>1. db'.files[f] = db.files[j.relocated[f]] /\ j.relocated[f] \in Paths
    BY <1>1, <1>2, <1>4, WrittenAt DEF Job
  <2>2. j.kind = "paths"
    BY <1>3 DEF Derived
  <2>3. db.config = ConfigOf[p]
    BY <1>3, <2>2 DEF Derived
  <2> QED
    BY <1>1, <2>1, <2>3 DEF UniformDerivation
<1>6. j.kind # "rebuild" /\ f \notin j.removals /\ db'.files[f] = db.files[f]
  BY <1>1, <1>4, <1>5, WrittenAt
<1>7. j.baseline.config # ConfigOf[p]
  BY <1>1, <1>3, <1>6 DEF UniformDerivation
<1>8. j.kind = "full"
  BY <1>2, <1>3, <1>6, <1>7 DEF Derived, Job, Kinds
<1>9. f \in j.candidates
  BY <1>2, <1>3, <1>6, <1>7, <1>8 DEF Derived, Scope
<1> QED
  BY <1>2, <1>3, <1>4, <1>6, <1>7, <1>8, <1>9 DEF Derived

\* Rows of two configurations come together in one way only: a full call under a
\* new configuration leaves a row it could not derive again because the read of
\* its file failed (PreparedFile::Failed in reconcile_once).
THEOREM MixedByUnread == Spec => MixedOnlyByUnread
<1>1. ASSUME TypeOK, BaselineInv, JobInv, DerivationInv, [Next]_vars, UniformDerivation,
             ~UniformDerivation'
      PROVE  \E p \in Calls :
               /\ job[p].pc = "publish" /\ job'[p].pc = "ok" /\ job[p].kind = "full"
               /\ \A f \in Paths :
                    db'.files[f] # NoRow /\ db'.files[f].config # db'.config =>
                      f \in job[p].unread /\ db'.files[f] = db.files[f]
  <2>1. db' # db
    BY <1>1 DEF UniformDerivation
  <2>2. PICK p \in Calls : Commit(p)
    BY <1>1, <2>1, OnlyCommitsWrite
  <2>3. job[p].pc = "publish" /\ job'[p].pc = "ok"
    BY <1>1, <2>2, EndedIsNoPhase DEF Commit
  <2>4. PICK g \in Paths : db'.files[g] # NoRow /\ db'.files[g].config # db'.config
    BY <1>1 DEF UniformDerivation
  <2>5. job[p].kind = "full"
    BY <1>1, <2>2, <2>4, OddRowsAreUnread
  <2>6. \A f \in Paths :
          db'.files[f] # NoRow /\ db'.files[f].config # db'.config =>
            f \in job[p].unread /\ db'.files[f] = db.files[f]
    BY <1>1, <2>2, OddRowsAreUnread
  <2> QED
    BY <2>3, <2>5, <2>6
<1>2. TypeOK /\ BaselineInv /\ JobInv /\ DerivationInv /\ [Next]_vars =>
        [UniformDerivation =>
           \/ UniformDerivation'
           \/ \E p \in Calls :
                /\ job[p].pc = "publish" /\ job'[p].pc = "ok" /\ job[p].kind = "full"
                /\ \A f \in Paths :
                     db'.files[f] # NoRow /\ db'.files[f].config # db'.config =>
                       f \in job[p].unread /\ db'.files[f] = db.files[f]]_vars
  BY <1>1, Zenon
<1> QED
  BY <1>2, InitTyped, InitBaseline, InitJob, InitDerivation, StepTyped, StepBaseline,
     StepJob, StepDerivation, PTL DEF Spec, MixedOnlyByUnread

-----------------------------------------------------------------------------
(* Refinement: a call is an atomic step of AtomicIndex.                    *)

\* A step of call p leaves the others as AtomicIndex sees them.
LEMMA OneCall ==
  ASSUME NEW p \in Calls,
         \A q \in Calls : q # p => job'[q] = job[q] /\ window'[q] = window[q]
  PROVE  /\ Outcome' = [Outcome EXCEPT ![p] = Outcome'[p]]
         /\ Promised' = [Promised EXCEPT ![p] = Promised'[p]]
         /\ Watched' = [Watched EXCEPT ![p] = Watched'[p]]
         /\ Unreadable' = [Unreadable EXCEPT ![p] = Unreadable'[p]]
<1>1. \A q \in Calls : q # p => Outcome'[q] = Outcome[q]
  BY DEF Outcome, Running
<1>2. \A q \in Calls : q # p => Promised'[q] = Promised[q]
  BY DEF Promised, Running, Scope
<1>3. \A q \in Calls : q # p => Watched'[q] = Watched[q]
  BY DEF Watched, Running
<1>4. \A q \in Calls : q # p => Unreadable'[q] = Unreadable[q]
  BY DEF Unreadable, Running
<1>5. Outcome' = [Outcome EXCEPT ![p] = Outcome'[p]]
  BY <1>1 DEF Outcome
<1>6. Promised' = [Promised EXCEPT ![p] = Promised'[p]]
  BY <1>2 DEF Promised
<1>7. Watched' = [Watched EXCEPT ![p] = Watched'[p]]
  BY <1>3 DEF Watched
<1>8. Unreadable' = [Unreadable EXCEPT ![p] = Unreadable'[p]]
  BY <1>4 DEF Unreadable
<1> QED
  BY <1>5, <1>6, <1>7, <1>8

\* What AtomicIndex sees of a call that runs, and of one that does not.
LEMMA ViewOf ==
  ASSUME NEW p \in Calls
  PROVE  /\ job[p].pc \in Phases =>
              /\ Outcome[p] = "running" /\ Promised[p] = Scope(p)
              /\ Watched[p] = window[p] /\ Unreadable[p] = job[p].unread
         /\ job[p].pc \notin Phases =>
              /\ Outcome[p] = job[p].pc /\ Promised[p] = {}
              /\ Watched[p] = [f \in Paths |-> {}] /\ Unreadable[p] = {}
BY DEF Outcome, Promised, Watched, Unreadable, Running

\* The same after the step.
LEMMA ViewAfter ==
  ASSUME NEW p \in Calls
  PROVE  /\ job'[p].pc \in Phases =>
              /\ Outcome'[p] = "running" /\ Promised'[p] = Scope(p)'
              /\ Watched'[p] = window'[p] /\ Unreadable'[p] = job'[p].unread
         /\ job'[p].pc \notin Phases =>
              /\ Outcome'[p] = job'[p].pc /\ Promised'[p] = {}
              /\ Watched'[p] = [f \in Paths |-> {}] /\ Unreadable'[p] = {}
BY DEF Outcome, Promised, Watched, Unreadable, Running

\* An edit is an edit: only running calls can see it.
LEMMA EditRefines ==
  ASSUME TypeOK, NEW f \in Paths, NEW c \in Content, Edit(f, c)
  PROVE  Atomic!Edit(f, c)
<1>1. /\ disk' = [disk EXCEPT ![f] = c] /\ UNCHANGED <<db, job>>
      /\ window' = [p \in Calls |-> [window[p] EXCEPT ![f] = @ \cup {c}]]
  BY DEF Edit
<1>2. Outcome' = Outcome /\ Promised' = Promised /\ Unreadable' = Unreadable
  BY <1>1 DEF Outcome, Promised, Unreadable, Running, Scope
<1>3. Watched' = [p \in Calls |-> IF Outcome[p] = "running"
                     THEN [Watched[p] EXCEPT ![f] = @ \cup {c}] ELSE Watched[p]]
  <2>1. ASSUME NEW p \in Calls
        PROVE  Watched'[p] = IF Outcome[p] = "running"
                     THEN [Watched[p] EXCEPT ![f] = @ \cup {c}] ELSE Watched[p]
    <3>1. CASE job[p].pc \in Phases
      BY <1>1, <3>1, ViewOf, ViewAfter
    <3>2. CASE job[p].pc \notin Phases
      <4>1. Outcome[p] # "running"
        <5>1. job[p].pc \in {"idle", "ok", "failed"}
          BY <3>2 DEF TypeOK, Job
        <5> QED
          BY <3>2, <5>1, ViewOf
      <4> QED
        BY <1>1, <3>2, <4>1, ViewOf, ViewAfter
    <3> QED
      BY <3>1, <3>2
  <2> QED
    BY <2>1 DEF Watched
<1> QED
  BY <1>1, <1>2, <1>3 DEF Atomic!Edit

\* A new attempt promises at least what the one before it did (StartAttempt).
LEMMA StartRefines ==
  ASSUME TypeOK, NEW p \in Calls, NEW kind \in Kinds, NEW rep \in SUBSET Paths,
         NEW a \in 1 .. Attempts, StartAttempt(p, kind, rep, a),
         UNCHANGED <<disk, db>>,
         \/ job[p].pc = "idle"
         \/ job[p].pc \in Phases /\ kind = job[p].kind /\ rep = job[p].reported
  PROVE  \E s \in SUBSET Paths : Atomic!Start(p, s)
<1>1. /\ job'[p].pc = (IF job'[p].kind = "paths" THEN "existing" ELSE "discover")
      /\ job'[p].unread = {} /\ window'[p] = [f \in Paths |-> {disk[f]}]
  BY StartedJob
<1>2. job'[p].kind = KindFor(p, kind) /\ job'[p].reported = rep
  BY DEF StartAttempt, Fresh, TypeOK
<1>3. \A q \in Calls : q # p => job'[q] = job[q] /\ window'[q] = window[q]
  BY CallOthers, Zenon
<1>4. job'[p].pc \in Phases
  BY <1>1 DEF Phases
<1> DEFINE s == Promised'[p]
<1>5. s \in SUBSET Paths
  BY <1>2, <1>4, ViewAfter DEF Scope
<1>6. Promised[p] \subseteq s /\ Outcome[p] \in {"idle", "running"}
  <2>1. CASE job[p].pc = "idle"
    BY <2>1, ViewOf DEF Phases
  <2>2. CASE job[p].pc \in Phases /\ kind = job[p].kind /\ rep = job[p].reported
    <3>1. Promised[p] = Scope(p) /\ s = Scope(p)' /\ Outcome[p] = "running"
      BY <1>4, <2>2, ViewOf, ViewAfter
    <3>2. Scope(p) \subseteq Scope(p)'
      BY <1>2, <2>2 DEF Scope, KindFor
    <3> QED
      BY <3>1, <3>2
  <2> QED
    BY <2>1, <2>2
<1>7. Outcome'[p] = "running" /\ Unreadable'[p] = {} /\ Watched'[p] = [f \in Paths |-> {disk[f]}]
  BY <1>1, <1>4, ViewAfter
<1>8. Atomic!Start(p, s)
  BY <1>3, <1>6, <1>7, OneCall DEF Atomic!Start
<1> QED
  BY <1>5, <1>8

\* A call that ends shows its result and nothing else (End).
LEMMA EndRefines ==
  ASSUME TypeOK, NEW p \in Calls, NEW pc \in {"ok", "failed"}, End(p, pc),
         job[p].pc \in Phases, UNCHANGED disk
  PROVE  Atomic!End(p, pc) /\ job'[p].pc = pc
<1>1. job'[p].pc = pc /\ job'[p].pc \notin Phases
  BY EndedIsNoPhase
<1>2. \A q \in Calls : q # p => job'[q] = job[q] /\ window'[q] = window[q]
  BY CallOthers, Zenon
<1>3. /\ Outcome'[p] = pc /\ Promised'[p] = {} /\ Unreadable'[p] = {}
      /\ Watched'[p] = [f \in Paths |-> {}] /\ Outcome[p] = "running"
  BY <1>1, ViewOf, ViewAfter
<1> QED
  BY <1>1, <1>2, <1>3, OneCall DEF Atomic!End

\* A visit that loses no read is hidden.
LEMMA VisitHidden ==
  ASSUME TypeOK, NEW p \in Calls, NEW f \in Paths, NEW pc \in Phases \ {"publish"},
         NEW j \in Job, j.pc = pc, Visit(p, pc, f, j),
         j.kind = job[p].kind, j.reported = job[p].reported
  PROVE  /\ Outcome' = Outcome /\ Promised' = Promised /\ Watched' = Watched
         /\ Unreadable' = [Unreadable EXCEPT ![p] = j.unread]
         /\ Outcome[p] = "running" /\ Unreadable[p] = job[p].unread
         /\ UNCHANGED <<disk, db>>
<1> DEFINE rest == [j EXCEPT !.left = @ \ {f}]
<1>1. /\ job'[p] = (IF rest.left = {} THEN Advance(rest) ELSE rest)
      /\ job'[p].pc \in Phases /\ job[p].pc \in Phases
      /\ \A q \in Calls : q # p => job'[q] = job[q]
      /\ UNCHANGED <<disk, edits, db, window>>
  BY VisitResult
<1>2. /\ rest \in Job /\ rest.kind = j.kind /\ rest.reported = j.reported
      /\ rest.unread = j.unread /\ rest.pc = pc
  BY VisitFields
<1> HIDE DEF rest
<1>3. /\ job'[p].kind = job[p].kind /\ job'[p].reported = job[p].reported
      /\ job'[p].unread = j.unread
  BY <1>1, <1>2, AdvanceKeeps
<1>4. Scope(p)' = Scope(p)
  BY <1>3 DEF Scope
<1>5. /\ Outcome'[p] = Outcome[p] /\ Promised'[p] = Promised[p] /\ Watched'[p] = Watched[p]
      /\ Unreadable'[p] = j.unread
      /\ Outcome[p] = "running" /\ Unreadable[p] = job[p].unread
  BY <1>1, <1>3, <1>4, ViewOf, ViewAfter
<1>6. /\ Outcome' = [Outcome EXCEPT ![p] = Outcome'[p]]
      /\ Promised' = [Promised EXCEPT ![p] = Promised'[p]]
      /\ Watched' = [Watched EXCEPT ![p] = Watched'[p]]
      /\ Unreadable' = [Unreadable EXCEPT ![p] = Unreadable'[p]]
  BY <1>1, OneCall
<1>7. Outcome' = Outcome /\ Promised' = Promised /\ Watched' = Watched
  <2>1. ASSUME NEW F, NEW G, F = [q \in Calls |-> F[q]], G = [F EXCEPT ![p] = G[p]],
               G[p] = F[p]
        PROVE  G = F
    BY <2>1
  <2>2. /\ Outcome = [q \in Calls |-> Outcome[q]]
        /\ Promised = [q \in Calls |-> Promised[q]]
        /\ Watched = [q \in Calls |-> Watched[q]]
    BY DEF Outcome, Promised, Watched
  <2> QED
    BY <1>5, <1>6, <2>1, <2>2
<1> QED
  BY <1>1, <1>5, <1>6, <1>7

\* The phases before preparation change nothing that AtomicIndex sees.
LEMMA PhasesHidden ==
  ASSUME TypeOK, NEW p \in Calls, NEW f \in Paths,
         \/ Discover(p, f) \/ ReadPage(p, f) \/ Observe(p, f)
         \/ Plan(p, f) \/ Hash(p, f)
  PROVE  UNCHANGED Atomic!vars
<1>1. job[p] \in Job
  BY DEF TypeOK
<1>2. \E pc \in Phases \ {"publish"}, j \in Job :
        /\ Visit(p, pc, f, j) /\ j.pc = pc
        /\ j.kind = job[p].kind /\ j.reported = job[p].reported /\ j.unread = job[p].unread
  <2>1. CASE Discover(p, f)
    <3>1. PICK j \in Job :
            /\ Visit(p, "discover", f, j) /\ j.pc = job[p].pc
            /\ j = IF Discoverable(disk[f]) THEN [job[p] EXCEPT !.found = @ \cup {f}]
                   ELSE job[p]
      BY <2>1, VisitDiscover
    <3>2. /\ j.kind = job[p].kind /\ j.reported = job[p].reported
          /\ j.unread = job[p].unread
      BY <1>1, <3>1 DEF Job
    <3> QED
      BY <3>1, <3>2 DEF Visit, Phases
  <2>2. CASE ReadPage(p, f)
    <3>1. PICK j \in Job :
            /\ Visit(p, "existing", f, j) /\ j.pc = job[p].pc
            /\ j = [job[p] EXCEPT !.existing[f] = db.files[f]]
      BY <2>2, VisitReadPage
    <3>2. /\ j.kind = job[p].kind /\ j.reported = job[p].reported
          /\ j.unread = job[p].unread
      BY <1>1, <3>1 DEF Job
    <3> QED
      BY <3>1, <3>2 DEF Visit, Phases
  <2>3. CASE Observe(p, f)
    <3>1. PICK j \in Job, b \in BOOLEAN :
            /\ Visit(p, "observe", f, j) /\ j.pc = job[p].pc
            /\ j = [job[p] EXCEPT !.delta = b]
      BY <2>3, VisitObserve
    <3>2. /\ j.kind = job[p].kind /\ j.reported = job[p].reported
          /\ j.unread = job[p].unread
      BY <1>1, <3>1 DEF Job
    <3> QED
      BY <3>1, <3>2 DEF Visit, Phases
  <2>4. CASE Plan(p, f)
    <3>1. PICK j \in Job, R \in SUBSET Paths, C \in SUBSET Paths :
            /\ Visit(p, "plan", f, j) /\ j.pc = job[p].pc
            /\ j = [job[p] EXCEPT !.removals = R, !.candidates = C]
            /\ R = IF Gone(p, f) THEN job[p].removals \cup {f} ELSE job[p].removals
            /\ C = IF Wanted(p, f) THEN job[p].candidates \cup {f} ELSE job[p].candidates
      BY <2>4, VisitPlan
    <3>2. /\ j.kind = job[p].kind /\ j.reported = job[p].reported
          /\ j.unread = job[p].unread
      BY <1>1, <3>1 DEF Job
    <3> QED
      BY <3>1, <3>2 DEF Visit, Phases
  <2>5. CASE Hash(p, f)
    <3>1. PICK j \in Job, c \in {disk[f], "absent"} :
            /\ Visit(p, "hash", f, j) /\ j.pc = job[p].pc
            /\ j = [job[p] EXCEPT !.hashed[f] = c]
      BY <2>5, VisitHash
    <3>2. /\ j.kind = job[p].kind /\ j.reported = job[p].reported
          /\ j.unread = job[p].unread
      BY <1>1, <3>1 DEF Job
    <3> QED
      BY <3>1, <3>2 DEF Visit, Phases
  <2> QED
    BY <2>1, <2>2, <2>3, <2>4, <2>5
<1>3. /\ Outcome' = Outcome /\ Promised' = Promised /\ Watched' = Watched
      /\ Unreadable' = [Unreadable EXCEPT ![p] = Unreadable[p]] /\ UNCHANGED <<disk, db>>
  BY <1>2, VisitHidden
<1>4. Unreadable' = Unreadable
  BY <1>3 DEF Unreadable
<1> QED
  BY <1>3, <1>4 DEF Atomic!vars

\* Preparing a file is hidden, or a read is lost (PreparedFile::Failed).
LEMMA PrepareRefines ==
  ASSUME TypeOK, NEW p \in Calls, NEW f \in Paths, Prepare(p, f)
  PROVE  Atomic!Lose(p, f) \/ UNCHANGED Atomic!vars
<1>1. PICK c \in {disk[f], "absent"} :
        /\ c \in Content /\ Visit(p, "prepare", f, Prepared(p, f, c))
        /\ Prepared(p, f, c) \in Job /\ Prepared(p, f, c).pc = job[p].pc
  BY VisitPrepare
<1> DEFINE j == Prepared(p, f, c)
           j0 == job[p]
<1>2. \/ j = j0
      \/ j = [j0 EXCEPT !.staged[f] = [text |-> c, config |-> ConfigOf[p]]]
      \/ j = [j0 EXCEPT !.removals = @ \cup {f}]
      \/ j = [j0 EXCEPT !.unread = @ \cup {f}]
  BY <1>1, PreparedCases
<1>3. j \in Job /\ Visit(p, "prepare", f, j) /\ j.pc = "prepare" /\ j0 \in Job
  BY <1>1 DEF Visit, TypeOK
<1> HIDE DEF j
<1>4. /\ j.kind = j0.kind /\ j.reported = j0.reported
      /\ j.unread = j0.unread \/ j.unread = j0.unread \cup {f}
  BY <1>2, <1>3 DEF Job
<1>5. /\ Outcome' = Outcome /\ Promised' = Promised /\ Watched' = Watched
      /\ Unreadable' = [Unreadable EXCEPT ![p] = j.unread]
      /\ Outcome[p] = "running" /\ Unreadable[p] = j0.unread
      /\ UNCHANGED <<disk, db>>
  BY <1>3, <1>4, VisitHidden DEF Phases
<1>6. CASE j.unread = j0.unread
  <2>1. Unreadable' = Unreadable
    BY <1>5, <1>6 DEF Unreadable
  <2> QED
    BY <1>5, <2>1 DEF Atomic!vars
<1>7. CASE j.unread = j0.unread \cup {f}
  BY <1>5, <1>7 DEF Atomic!Lose
<1> QED
  BY <1>4, <1>6, <1>7

\* So are the relocations a call plans.
LEMMA RelocateHidden ==
  ASSUME TypeOK, NEW p \in Calls, Relocate(p)
  PROVE  UNCHANGED Atomic!vars
<1>1. PICK from \in [Paths -> Paths \cup {NoPath}], C \in SUBSET Paths, j \in Job :
        /\ from = [n \in Paths |-> Source(p, n)]
        /\ C = {n \in job[p].candidates : from[n] = NoPath}
        /\ j = [job[p] EXCEPT !.relocated = from, !.candidates = C]
        /\ j.pc = "relocate" /\ job[p].pc = "relocate"
        /\ job' = [job EXCEPT ![p] = Advance(j)]
        /\ UNCHANGED <<disk, edits, db, window>>
  BY RelocateResult, Zenon
<1>2. job \in [Calls -> Job] /\ j.pc \in Phases \ {"publish"}
  BY <1>1 DEF TypeOK, Phases
<1>3. job'[p] = Advance(j) /\ \A q \in Calls : q # p => job'[q] = job[q]
  BY <1>1, <1>2
<1>4. /\ j.kind = job[p].kind /\ j.reported = job[p].reported
      /\ j.unread = job[p].unread
  BY <1>1, <1>2 DEF Job
<1>5. /\ job'[p].kind = j.kind /\ job'[p].reported = j.reported
      /\ job'[p].unread = j.unread /\ job'[p].pc \in Phases
  BY <1>2, <1>3, AdvanceKeeps, AdvanceFields
<1>6. \A q \in Calls : /\ Running(q)' <=> Running(q)
                       /\ ~Running(q) => job'[q].pc = job[q].pc
                       /\ Scope(q)' = Scope(q) /\ job'[q].unread = job[q].unread
  BY <1>1, <1>2, <1>3, <1>4, <1>5 DEF Running, Scope
<1>7. Outcome' = Outcome
  BY <1>6, Zenon DEF Outcome
<1>8. Promised' = Promised
  BY <1>6, Zenon DEF Promised
<1>9. Watched' = Watched
  BY <1>1, <1>6, Zenon DEF Watched
<1>10. Unreadable' = Unreadable
  BY <1>6, Zenon DEF Unreadable
<1> QED
  BY <1>1, <1>7, <1>8, <1>9, <1>10 DEF Atomic!vars

\* A success is one atomic step: the generation, its configuration and every row
\* are what AtomicIndex promises (publish_reconciliation).
LEMMA SucceedRefines ==
  ASSUME TypeOK, BaselineInv, JobInv, DerivationInv, [Next]_vars,
         NEW p \in Calls, Commit(p) \/ NoOp(p)
  PROVE  Atomic!Succeed(p)
<1> DEFINE j == job[p]
<1>1. j.pc = "publish" /\ End(p, "ok") /\ UNCHANGED disk /\ VerifyBaseline(p)
  BY DEF Commit, NoOp
<1>2. j.pc \in Phases
  BY <1>1 DEF Phases
<1>3. Atomic!End(p, "ok") /\ job'[p].pc = "ok"
  BY <1>1, <1>2, EndRefines
<1>4. (db' = db \/ db'.gen = db.gen + 1) /\ db'.config = ConfigOf[p]
  BY DEF Commit, NoOp, Changed
<1>5. Promised[p] = Scope(p) /\ Watched[p] = window[p] /\ Unreadable[p] = j.unread
  BY <1>2, ViewOf
<1>6. Atomic!NoRow = NoRow /\ \A c : Atomic!Indexed(c) = Indexed(c)
  BY DEF Atomic!NoRow, NoRow, Atomic!Indexed, Indexed
<1>7. ASSUME NEW f \in Paths PROVE Atomic!UpToDate(p, f)
  <2>1. \/ db'.files[f].text \in {Indexed(c) : c \in window[p][f]}
        \/ /\ f \in j.unread
           /\ db'.files[f] = IF j.kind = "rebuild" THEN NoRow ELSE db.files[f]
        \/ f \notin Scope(p) /\ db'.files[f] = db.files[f]
    BY <1>1, <1>3, FromWindow
  <2>2. {Atomic!Indexed(c) : c \in Watched[p][f]} = {Indexed(c) : c \in window[p][f]}
    BY <1>5, <1>6
  <2> QED
    BY <1>5, <1>6, <2>1, <2>2 DEF Atomic!UpToDate
<1>8. ASSUME NEW f \in Paths PROVE Atomic!Accounted(p, f)
  <2>1. db'.files[f] = Written(p)[f]
    BY <1>1, <1>3, CallSucceeds
  <2>2. CASE j.staged[f] # NoRow
    <3>1. j.staged[f].config = ConfigOf[p]
      BY <1>2, <2>2 DEF DerivationInv, Derived
    <3> QED
      BY <2>1, <2>2, <3>1, WrittenAt DEF Atomic!Accounted
  <2>3. CASE j.relocated[f] # NoPath
    BY <1>1, <1>3, <1>6, <2>3, RowMoves DEF Atomic!Accounted
  <2>4. CASE j.staged[f] = NoRow /\ j.relocated[f] = NoPath
    BY <1>6, <2>1, <2>4, WrittenAt DEF Atomic!Accounted
  <2> QED
    BY <2>2, <2>3, <2>4
<1> QED
  BY <1>3, <1>4, <1>7, <1>8 DEF Atomic!Succeed

\* A call that begins, is refused, or ends without a success (reconcile).
LEMMA CallRefines ==
  ASSUME TypeOK, NEW p \in Calls, Begin(p) \/ Stale(p) \/ Abort(p)
  PROVE  (\E s \in SUBSET Paths : Atomic!Start(p, s)) \/ Atomic!Fail(p)
<1>0. UNCHANGED <<disk, db>> /\ job[p] \in Job
  BY DEF Begin, Stale, Abort, TypeOK
<1>1. ASSUME End(p, "failed"), job[p].pc \in Phases PROVE Atomic!Fail(p)
  BY <1>0, <1>1, EndRefines DEF Atomic!Fail
<1>2. CASE Begin(p)
  <2>1. PICK kind \in Kinds, rep \in SUBSET Paths : StartAttempt(p, kind, rep, 1)
    BY <1>2 DEF Begin, Kinds
  <2>2. 1 \in 1 .. Attempts
    BY PublicationAssumption
  <2>3. job[p].pc = "idle"
    BY <1>2 DEF Begin
  <2> QED
    BY <1>0, <2>1, <2>2, <2>3, StartRefines
<1>3. CASE Stale(p)
  <2>1. job[p].pc \in Phases
    BY <1>3 DEF Stale, Phases
  <2>2. CASE End(p, "failed")
    BY <1>1, <2>1, <2>2
  <2>3. CASE /\ job[p].attempt < Attempts
             /\ StartAttempt(p, job[p].kind, job[p].reported, job[p].attempt + 1)
    <3>1. /\ job[p].kind \in Kinds /\ job[p].reported \in SUBSET Paths
          /\ job[p].attempt + 1 \in 1 .. Attempts
      BY <1>0, <2>3, PublicationAssumption DEF Job
    <3> QED
      BY <1>0, <2>1, <2>3, <3>1, StartRefines
  <2> QED
    BY <1>3, <2>2, <2>3 DEF Stale
<1>4. CASE Abort(p)
  BY <1>1, <1>4 DEF Abort
<1> QED
  BY <1>2, <1>3, <1>4

\* However the phases of calls interleave with edits and with each other's
\* publications, every call is one atomic step of AtomicIndex or a failure without
\* effect (reconcile_once, reconcile_paths_once, publish_reconciliation).
THEOREM Refinement == Spec => ImplementsAtomicIndex
<1>1. Init => Atomic!Init
  <2> SUFFICES ASSUME Init PROVE Atomic!Init
    OBVIOUS
  <2>1. \A p \in Calls : job[p].pc = "idle"
    BY DEF Init, Fresh
  <2>2. \A p \in Calls : ~Running(p)
    BY <2>1 DEF Running, Phases
  <2>3. /\ Outcome = [p \in Calls |-> "idle"] /\ Promised = [p \in Calls |-> {}]
        /\ Watched = [p \in Calls |-> [f \in Paths |-> {}]]
        /\ Unreadable = [p \in Calls |-> {}]
    BY <2>1, <2>2 DEF Outcome, Promised, Watched, Unreadable
  <2>4. Atomic!Content = Content /\ Atomic!NoRow = NoRow
    BY DEF Atomic!Content, Content, Atomic!NoRow, NoRow
  <2> QED
    BY <2>3, <2>4 DEF Init, Atomic!Init
<1>2. TypeOK /\ BaselineInv /\ JobInv /\ DerivationInv /\ [Next]_vars =>
        [Atomic!Next]_Atomic!vars
  <2> SUFFICES ASSUME TypeOK, BaselineInv, JobInv, DerivationInv, [Next]_vars
               PROVE  Atomic!Next \/ UNCHANGED Atomic!vars
    OBVIOUS
  <2>1. ASSUME NEW f \in Paths, NEW c \in Content, Edit(f, c) PROVE Atomic!Next
    <3>1. Atomic!Edit(f, c) /\ c \in Atomic!Content
      BY <2>1, EditRefines DEF Atomic!Content, Content
    <3> QED
      BY <3>1 DEF Atomic!Next
  <2>2. ASSUME NEW p \in Calls, Begin(p) \/ Stale(p) \/ Abort(p) PROVE Atomic!Next
    BY <2>2, CallRefines DEF Atomic!Next
  <2>3. ASSUME NEW p \in Calls, Commit(p) \/ NoOp(p) PROVE Atomic!Next
    BY <2>3, SucceedRefines DEF Atomic!Next
  <2>4. ASSUME NEW p \in Calls, Relocate(p) PROVE UNCHANGED Atomic!vars
    BY <2>4, RelocateHidden
  <2>5. ASSUME NEW p \in Calls, NEW f \in Paths,
               \/ Discover(p, f) \/ ReadPage(p, f) \/ Observe(p, f)
               \/ Plan(p, f) \/ Hash(p, f)
        PROVE  UNCHANGED Atomic!vars
    BY <2>5, PhasesHidden
  <2>6. ASSUME NEW p \in Calls, NEW f \in Paths, Prepare(p, f)
        PROVE  Atomic!Next \/ UNCHANGED Atomic!vars
    BY <2>6, PrepareRefines DEF Atomic!Next
  <2>7. CASE UNCHANGED vars
    <3>1. Outcome' = Outcome /\ Promised' = Promised
      BY <2>7 DEF vars, Outcome, Promised, Running, Scope
    <3>2. Watched' = Watched /\ Unreadable' = Unreadable
      BY <2>7 DEF vars, Watched, Unreadable, Running
    <3> QED
      BY <2>7, <3>1, <3>2 DEF vars, Atomic!vars
  <2> QED
    BY <2>1, <2>2, <2>3, <2>4, <2>5, <2>6, <2>7, Zenon DEF Next, Step
<1> QED
  BY <1>1, <1>2, InitTyped, InitBaseline, InitJob, InitDerivation, StepTyped,
     StepBaseline, StepJob, StepDerivation, PTL
     DEF Spec, ImplementsAtomicIndex, Atomic!Spec

=============================================================================
