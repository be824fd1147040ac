---------------------------- MODULE AtomicIndex ----------------------------
(***************************************************************************)
(* What a reconcile call promises about the index, without phases, plans,  *)
(* stages or baselines.  A call looks at the working tree between its      *)
(* start and its end, and has its whole effect in one step: every path of  *)
(* its scope gets a content the file had meanwhile, in a generation under  *)
(* the call's configuration; a failed call has no effect.                  *)
(***************************************************************************)
EXTENDS Naturals

CONSTANTS
    Paths,      \* repository-relative paths
    Texts,      \* indexable contents
    Calls,      \* reconcile calls; each is made once
    ConfigOf,   \* configuration hash of a call's process
    OldConfig   \* configuration hash stored when the behaviour starts

VARIABLES
    disk,    \* the working tree
    db,      \* the committed generation
    call,    \* "idle", "running", "ok" or "failed"
    scope,   \* paths a running call brings up to date
    seen,    \* contents each path had while the call was running
    lost     \* files whose read failed

vars == <<disk, db, call, scope, seen, lost>>

Content == Texts \cup {"binary", "oversized", "absent"}
NoRow == [text |-> "absent", config |-> OldConfig]
Indexed(c) == IF c \in Texts THEN c ELSE "absent"

Init ==
    /\ disk \in [Paths -> Content]
    /\ db \in [gen : {1}, config : {OldConfig},
               files : [Paths -> {NoRow} \cup
                          {[text |-> t, config |-> OldConfig] : t \in Texts}]]
    /\ call = [p \in Calls |-> "idle"]
    /\ scope = [p \in Calls |-> {}]
    /\ seen = [p \in Calls |-> [f \in Paths |-> {}]]
    /\ lost = [p \in Calls |-> {}]

Edit(f, c) ==
    /\ disk' = [disk EXCEPT ![f] = c]
    /\ seen' = [p \in Calls |-> IF call[p] = "running"
                                THEN [seen[p] EXCEPT ![f] = @ \cup {c}] ELSE seen[p]]
    /\ UNCHANGED <<db, call, scope, lost>>

\* A call begins, or begins again and promises at least as much.
Start(p, s) ==
    /\ call[p] \in {"idle", "running"}
    /\ scope[p] \subseteq s
    /\ call' = [call EXCEPT ![p] = "running"]
    /\ scope' = [scope EXCEPT ![p] = s]
    /\ seen' = [seen EXCEPT ![p] = [f \in Paths |-> {disk[f]}]]
    /\ lost' = [lost EXCEPT ![p] = {}]
    /\ UNCHANGED <<disk, db>>

\* A file cannot be read, or is gone when it is.
Lose(p, f) ==
    /\ call[p] = "running"
    /\ lost' = [lost EXCEPT ![p] = @ \cup {f}]
    /\ UNCHANGED <<disk, db, call, scope, seen>>

\* The call is over; what it knew is gone.
End(p, result) ==
    /\ call[p] = "running"
    /\ call' = [call EXCEPT ![p] = result]
    /\ scope' = [scope EXCEPT ![p] = {}]
    /\ seen' = [seen EXCEPT ![p] = [f \in Paths |-> {}]]
    /\ lost' = [lost EXCEPT ![p] = {}]
    /\ UNCHANGED disk

Fail(p) ==
    /\ End(p, "failed")
    /\ UNCHANGED db

\* Path f has a content it had while the call ran, or keeps its row because it
\* is none of the call's paths, or because its file could not be read.
UpToDate(p, f) ==
    \/ db'.files[f].text \in {Indexed(c) : c \in seen[p][f]}
    \/ f \notin scope[p] /\ db'.files[f] = db.files[f]
    \/ f \in lost[p] /\ db'.files[f] \in {db.files[f], NoRow}

\* A row is kept, removed, derived by this call, or moved from another path.
Accounted(p, f) ==
    \/ db'.files[f] \in {db.files[f], NoRow}
    \/ db'.files[f].config = ConfigOf[p]
    \/ \E o \in Paths : db'.files[f] = db.files[o] /\ db'.files[o] = NoRow

Succeed(p) ==
    /\ End(p, "ok")
    /\ db' = db \/ db'.gen = db.gen + 1
    /\ db'.config = ConfigOf[p]
    /\ \A f \in Paths : UpToDate(p, f) /\ Accounted(p, f)

Next ==
    \/ \E f \in Paths, c \in Content : Edit(f, c)
    \/ \E p \in Calls :
         \/ \E s \in SUBSET Paths : Start(p, s)
         \/ \E f \in Paths : Lose(p, f)
         \/ Fail(p) \/ Succeed(p)

Spec == Init /\ [][Next]_vars

=============================================================================
