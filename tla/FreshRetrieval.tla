--------------------------- MODULE FreshRetrieval ---------------------------
(***************************************************************************)
(* What request-time reconciliation promises to its callers, without       *)
(* waves, tasks, locks or other processes.  A repository is edited, and an *)
(* index of it is published that never goes back to an older view.  At     *)
(* most Capacity calls are served at a time.  A call is answered once:     *)
(* positively only at a moment at which the index contains every edit made *)
(* before the call, and otherwise with a reason.                           *)
(***************************************************************************)
EXTENDS Naturals, FiniteSets

CONSTANTS
    Requests,  \* the calls; each is made once
    Capacity   \* calls served at a time

VARIABLES
    version,  \* edits made to the repository so far
    indexed,  \* edits the published index contains
    call,     \* what a caller knows of its call
    asked     \* the version at which it called

vars == <<version, indexed, call, asked>>

\* Calls that were accepted and not yet answered.
Pending == {r \in Requests : call[r] = "pending"}

\* The negative answers to an accepted call.
Reasons == {"failed", "cancelled", "not_ready"}

Init ==
    /\ version = 0
    /\ indexed = 0
    /\ call = [r \in Requests |-> "idle"]
    /\ asked = [r \in Requests |-> 0]

Edit ==
    /\ version' = version + 1
    /\ UNCHANGED <<indexed, call, asked>>

\* Some scan ends that began after the one whose index it replaces.
Publish ==
    /\ indexed' \in indexed..version
    /\ UNCHANGED <<version, call, asked>>

\* A call is accepted, or refused when the service is full.
Ask(r) ==
    /\ call[r] = "idle"
    /\ asked' = [asked EXCEPT ![r] = version]
    /\ call' = [call EXCEPT ![r] =
                  IF Cardinality(Pending) < Capacity
                  THEN "pending" ELSE "overloaded"]
    /\ UNCHANGED <<version, indexed>>

\* Reconciled: the index is good for this caller.
Answer(r) ==
    /\ call[r] = "pending"
    /\ asked[r] <= indexed
    /\ call' = [call EXCEPT ![r] = "ok"]
    /\ UNCHANGED <<version, indexed, asked>>

Refuse(r) ==
    /\ call[r] = "pending"
    /\ \E reason \in Reasons : call' = [call EXCEPT ![r] = reason]
    /\ UNCHANGED <<version, indexed, asked>>

Next ==
    \/ Edit
    \/ Publish
    \/ \E r \in Requests : Ask(r) \/ Answer(r) \/ Refuse(r)

Spec == Init /\ [][Next]_vars

=============================================================================
