-------------------------- MODULE RetrievalReceipts --------------------------
(***************************************************************************)
(* Retrieval receipts (storage/receipts.rs, receipt.rs,                    *)
(* services/receipt_rebase.rs).  A response returns a token for a stored   *)
(* list of the evidence it showed; a later request that names the token    *)
(* is not shown that evidence again.  A receipt is never changed: a        *)
(* response that shows more gets a successor.  rebase carries evidence     *)
(* that is still the same into the current generation.                     *)
(*                                                                         *)
(* Clients of several processes share one database.  Their responses may   *)
(* be lost, they may go on with any token they ever got, and the database  *)
(* file may be replaced by an earlier copy of it.  Opening a file gives it *)
(* another namespace when its physical identity is not the one it stores.  *)
(* A replacement may keep the identity: on Windows that is the path, on    *)
(* Unix device and inode, which survive an overwriting copy and are used   *)
(* again.  Only whoever restores a copy knows, so `same` is arbitrary.     *)
(*                                                                         *)
(* The wall clock may jump, so every sample of it is some element of       *)
(* Times.  Evidence is a set: the order of candidates is arbitrary, so the *)
(* ones that fit are any subset of the right size.  Header and evidence    *)
(* bytes have quotas of the same form as the counts and are left out, and  *)
(* near duplicates are shown like any other evidence.  Row ids and access  *)
(* sequences grow together, so the oldest receipt has the smallest id.     *)
(***************************************************************************)
EXTENDS Naturals, FiniteSets, FiniteSetsExt

CONSTANTS
    Clients,        \* whoever keeps the tokens of its own responses
    Places,         \* a path and a line range, or a signature at that range
    Texts,          \* emitted contents, told apart by content_hash
    Overlap,        \* pairs of places of one path whose ranges overlap
    Times,          \* wall-clock readings
    Ttl,            \* RECEIPT_TTL_MILLIS
    MaxReceipts,    \* MAX_RECEIPTS
    MaxPerReceipt,  \* MAX_EVIDENCE_PER_RECEIPT
    MaxTotal,       \* MAX_TOTAL_EVIDENCE
    MaxRows,        \* bound on receipts ever inserted into one file
    MaxEvents       \* bound on requests, publications, copies and restorations

ASSUME ReceiptsAssumption ==
    /\ Times \subseteq Nat /\ Ttl \in Nat
    /\ MaxReceipts \in Nat /\ MaxPerReceipt \in Nat /\ MaxTotal \in Nat
    /\ MaxRows \in Nat /\ MaxEvents \in Nat
    /\ IsFiniteSet(Places) /\ IsFiniteSet(Texts)
    /\ Overlap \subseteq Places \X Places

Generations == 1..(MaxEvents + 1)
Item == [place : Places, text : Texts]
\* ReceiptEvidence; an exact-only one takes no part in overlap decisions.
Evidence == [place : Places, text : Texts, exact : BOOLEAN]
ItemOf(e) == [place |-> e.place, text |-> e.text]
\* An item that was shown, with the generation it was read from.
Shown == [place : Places, text : Texts, gen : Generations]
\* format_receipt_id: the namespace of the database file and the row id.
Token == [ns : 1..(MaxEvents + 1), id : 1..MaxRows]
NoToken == [ns |-> 0, id |-> 0]
Call == [pc : {"idle", "read", "reply", "classify", "persist"},
         token : Token \cup {NoToken}, gen : Generations, items : SUBSET Item,
         source : SUBSET Evidence, sourceGen : Generations, shown : SUBSET Shown]
Row == [gen : Generations, created : Times, expires : Nat, evidence : SUBSET Evidence]

VARIABLES
    generation, document,  \* current generation and what each place holds in it
    namespace,             \* retrieval_receipt_usage.namespace
    namespaces,            \* random namespaces generated so far
    nextRow,               \* next row id
    rows,                  \* retrieval_receipts and their evidence
    usage,                 \* counters of retrieval_receipt_usage
    copies,                \* copies of the database file
    mixed,                 \* ghost: a copy was restored in the file's own namespace
    events,                \* requests, publications, copies and restorations so far
    call,                  \* what each client's request has in memory
    held,                  \* tokens a client got
    seen                   \* ghost: what a client was shown

index == <<generation, document>>
store == <<namespace, nextRow, rows, usage>>
history == <<namespaces, copies, mixed>>
vars == <<index, store, history, events, call, held, seen>>

Idle == [pc |-> "idle", token |-> NoToken, gen |-> 1, items |-> {},
         source |-> {}, sourceGen |-> 1, shown |-> {}]

Init ==
    /\ generation = 1
    /\ document \in [Places -> Texts]
    /\ namespace = 1 /\ namespaces = 1
    /\ copies = {} /\ mixed = FALSE
    /\ nextRow = 1
    /\ rows = [id \in {} |-> {}]
    /\ usage = [receipts |-> 0, evidence |-> 0]
    /\ events = 0
    /\ call = [c \in Clients |-> Idle]
    /\ held = [c \in Clients |-> {}]
    /\ seen = [c \in Clients |-> {}]

-----------------------------------------------------------------------------
(* The environment.                                                        *)

Publish ==
    /\ events < MaxEvents
    /\ events' = events + 1
    /\ generation' = generation + 1
    /\ document' \in [Places -> Texts]
    /\ UNCHANGED <<store, history, call, held, seen>>

\* The database file is copied; its index is in it.
Copy ==
    /\ events < MaxEvents
    /\ events' = events + 1
    /\ copies' = copies \cup
         {[namespace |-> namespace, nextRow |-> nextRow, rows |-> rows,
           generation |-> generation, document |-> document]}
    /\ UNCHANGED <<index, store, namespaces, mixed, call, held, seen>>

\* ensure_quota_usage_projections recounts the rows.
EvidenceCount(r, ids) == Cardinality(UNION {{id} \X r[id].evidence : id \in ids})
Counted(r) == [receipts |-> Cardinality(DOMAIN r),
               evidence |-> EvidenceCount(r, DOMAIN r)]

\* Mutant: the namespace is not rotated.
RotatedNever(f, same) == <<f.namespace, namespaces>>

\* regenerate_receipt_namespaces_if_cloned: a file with another identity than
\* the one it stores gets a random namespace.
Rotated(f, same) ==
    IF same THEN <<f.namespace, namespaces>> ELSE <<namespaces + 1, namespaces + 1>>

\* The processes end, a copy is put under the cache's path and opened; only
\* responses that were sent before are still delivered.  A new file is like
\* a copy of the empty one that is found to be another.
Restore(f, same) ==
    /\ events < MaxEvents
    /\ events' = events + 1
    /\ namespace' = Rotated(f, same)[1]
    /\ namespaces' = Rotated(f, same)[2]
    /\ mixed' = same
    /\ nextRow' = f.nextRow
    /\ rows' = f.rows
    /\ usage' = Counted(f.rows)
    /\ generation' = f.generation
    /\ document' = f.document
    /\ call' = [c \in Clients |-> IF call[c].pc = "reply" THEN call[c] ELSE Idle]
    /\ UNCHANGED <<copies, held, seen>>

-----------------------------------------------------------------------------
(* Steps of a write transaction.                                           *)

Known(r, t) == t.ns = namespace /\ t.id \in DOMAIN r
Expired(r, now) == {id \in DOMAIN r : r[id].expires <= now}

\* DELETE, the cascade and the trigger retrieval_receipts_ad.
Without(r, gone) == [id \in DOMAIN r \ gone |-> r[id]]
Reduced(u, r, gone) ==
    [receipts |-> u.receipts - Cardinality(gone),
     evidence |-> u.evidence - EvidenceCount(r, gone)]

\* Mutant: the new receipt itself is not counted.
FitsWithout(u, n) == u.receipts <= MaxReceipts /\ u.evidence + n <= MaxTotal

Fits(u, n) == u.receipts < MaxReceipts /\ u.evidence + n <= MaxTotal

\* Mutant: the source itself may be evicted.
AllButNone(r, source) == DOMAIN r

\* The receipts that may be evicted.
AllBut(r, source) == DOMAIN r \ source

\* evict_oldest_receipt_except, k times.
Oldest(ids, k) == {i \in ids : Cardinality({j \in ids : j < i}) < k}

\* Evicting the k oldest of the other receipts makes room for n rows of
\* evidence, and fewer do not.
MakesRoom(r, u, others, n, k) ==
    /\ Fits(Reduced(u, r, Oldest(others, k)), n)
    /\ \A j \in 0..(k - 1) : ~Fits(Reduced(u, r, Oldest(others, j)), n)

\* INSERT and the trigger retrieval_receipts_ai.
Insert(r, u, row) ==
    /\ nextRow \in 1..MaxRows
    /\ nextRow' = nextRow + 1
    /\ rows' = [id \in DOMAIN r \cup {nextRow} |->
                  IF id = nextRow THEN row ELSE r[id]]
    /\ usage' = [receipts |-> u.receipts + 1,
                 evidence |-> u.evidence + Cardinality(row.evidence)]
    /\ UNCHANGED namespace

Reply(c, token, shown) ==
    call' = [call EXCEPT ![c] = [Idle EXCEPT !.pc = "reply", !.token = token,
                                             !.shown = shown]]
End(c) == call' = [call EXCEPT ![c] = Idle]

-----------------------------------------------------------------------------
(* A retrieval: a read of one generation, then evaluate_receipt.           *)

\* The snapshot is read, and something is found at these places.
Read(c, t, places) ==
    /\ call[c].pc = "idle"
    /\ events < MaxEvents
    /\ events' = events + 1
    /\ call' = [call EXCEPT ![c] =
         [Idle EXCEPT !.pc = "read", !.token = t, !.gen = generation,
                      !.items = {[place |-> p, text |-> document[p]] : p \in places}]]
    /\ UNCHANGED <<index, store, history, held, seen>>

\* decide: SuppressExact or SuppressOverlap.
Suppressed(previous, i, overlap) ==
    \/ \E e \in previous : e.text = i.text
    \/ overlap /\ \E e \in previous : ~e.exact /\ <<e.place, i.place>> \in Overlap

Live(now) == Without(rows, Expired(rows, now))
LiveUsage(now) == Reduced(usage, rows, Expired(rows, now))

\* The source is unknown, from the future of the clock, or stale.
Refuse(c, now) ==
    LET t == call[c].token
        unknown == ~Known(Live(now), t)
        early == ~unknown /\ rows[t.id].created > now
        stale == ~unknown /\ rows[t.id].gen # call[c].gen
        gone == IF early THEN {t.id} ELSE {}
    IN  /\ call[c].pc = "read"
        /\ t # NoToken
        /\ unknown \/ early \/ stale
        /\ rows' = Without(Live(now), gone)
        /\ usage' = Reduced(LiveUsage(now), Live(now), gone)
        /\ End(c)
        /\ UNCHANGED <<index, history, namespace, nextRow, events, held, seen>>

\* The source can be used: it is known and of the generation that was read.
Accepted(c, now) ==
    /\ call[c].pc = "read"
    /\ call[c].token # NoToken =>
         /\ Known(Live(now), call[c].token)
         /\ rows[call[c].token.id].created <= now
         /\ rows[call[c].token.id].gen = call[c].gen

Source(c) == IF call[c].token = NoToken THEN {} ELSE {call[c].token.id}
Previous(c) == UNION {rows[id].evidence : id \in Source(c)}
Returned(c, overlap) ==
    {i \in call[c].items : ~Suppressed(Previous(c), i, overlap)}
ShownBy(c, overlap) ==
    {[place |-> i.place, text |-> i.text, gen |-> call[c].gen] : i \in Returned(c, overlap)}
\* How many rows of evidence the successor may append.
Appendable(c, overlap) ==
    Min({Cardinality(Returned(c, overlap)), MaxPerReceipt - Cardinality(Previous(c))})

\* Nothing to append: the source is returned.
Reuse(c, now, overlap) ==
    /\ Accepted(c, now)
    /\ call[c].token # NoToken
    /\ Appendable(c, overlap) = 0
    /\ rows' = Live(now)
    /\ usage' = LiveUsage(now)
    /\ Reply(c, call[c].token, ShownBy(c, overlap))
    /\ UNCHANGED <<index, history, namespace, nextRow, events, held, seen>>

\* A successor with the source's evidence and the appended part: all that
\* may be appended once k receipts are evicted, or what fits when all are.
Succeed(c, now, overlap, append, k) ==
    LET live == Live(now)
        others == AllBut(live, Source(c))
        n == Cardinality(Previous(c)) + Cardinality(append)
        left == Reduced(LiveUsage(now), live, Oldest(others, k))
    IN  /\ call[c].token # NoToken => Appendable(c, overlap) > 0
        /\ \/ /\ Cardinality(append) = Appendable(c, overlap)
              /\ MakesRoom(live, LiveUsage(now), others, n, k)
           \/ /\ Cardinality(append) < Appendable(c, overlap)
              /\ k = Cardinality(others)
              /\ Fits(left, n) /\ ~Fits(left, n + 1)
        /\ Insert(Without(live, Oldest(others, k)), left,
             [gen |-> call[c].gen, created |-> now, expires |-> now + Ttl,
              evidence |-> Previous(c) \cup
                {[place |-> i.place, text |-> i.text, exact |-> FALSE] : i \in append}])
        /\ Reply(c, [ns |-> namespace, id |-> nextRow], ShownBy(c, overlap))
        /\ UNCHANGED <<index, history, events, held, seen>>

\* Overlap suppression is off for exact reads.
Evaluate(c, now, overlap) ==
    \/ Refuse(c, now)
    \/ Reuse(c, now, overlap)
    \/ /\ Accepted(c, now)
       /\ \E append \in SUBSET Returned(c, overlap), k \in 0..Cardinality(DOMAIN rows) :
            Succeed(c, now, overlap, append, k)

-----------------------------------------------------------------------------
(* rebase_receipt.                                                         *)

Valid(t, now) ==
    /\ Known(rows, t)
    /\ rows[t.id].created <= now
    /\ rows[t.id].expires > now

\* load_receipt_rebase_source.
Load(c, t, now) ==
    /\ call[c].pc = "idle"
    /\ events < MaxEvents
    /\ events' = events + 1
    /\ Valid(t, now)
    /\ call' = [call EXCEPT ![c] =
         [Idle EXCEPT !.pc = "classify", !.token = t,
                      !.source = rows[t.id].evidence, !.sourceGen = rows[t.id].gen]]
    /\ UNCHANGED <<index, store, history, held, seen>>

\* classify_receipt against one generation: evidence whose place still holds
\* its text is carried, unless the live file cannot be matched with the index.
Classify(c, carried) ==
    /\ call[c].pc = "classify"
    /\ call[c].sourceGen < generation
    /\ \A e \in carried : document[e.place] = e.text
    /\ call' = [call EXCEPT ![c] = [@ EXCEPT !.pc = "persist", !.gen = generation,
                                             !.items = {ItemOf(e) : e \in carried}]]
    /\ UNCHANGED <<index, store, history, events, held, seen>>

\* Mutant: the generation may have moved on since classification.
StillTheSource(c) ==
    /\ rows[call[c].token.id].gen = call[c].sourceGen
    /\ rows[call[c].token.id].evidence = call[c].source

\* Neither the generation nor the source changed since classification.
StillClassified(c) ==
    /\ call[c].gen = generation
    /\ rows[call[c].token.id].gen = call[c].sourceGen
    /\ rows[call[c].token.id].evidence = call[c].source

\* Mutant: carried evidence takes part in overlap decisions.
CarriedInFull(c) ==
    {[place |-> i.place, text |-> i.text, exact |-> FALSE] : i \in call[c].items}

\* Carried evidence is stored as exact-only.
Carried(c) ==
    {[place |-> i.place, text |-> i.text, exact |-> TRUE] : i \in call[c].items}

\* persist_rebased_receipt.
Persist(c, now, k) ==
    LET t == call[c].token
        live == Without(rows, Expired(rows, now) \ {t.id})
        use == Reduced(usage, rows, Expired(rows, now) \ {t.id})
        others == AllBut(live, {t.id})
    IN  /\ call[c].pc = "persist"
        /\ Valid(t, now)
        /\ StillClassified(c)
        /\ MakesRoom(live, use, others, Cardinality(Carried(c)), k)
        /\ Insert(Without(live, Oldest(others, k)),
                  Reduced(use, live, Oldest(others, k)),
                  [gen |-> generation, created |-> now, expires |-> now + Ttl,
                   evidence |-> Carried(c)])
        /\ Reply(c, [ns |-> namespace, id |-> nextRow], {})
        /\ UNCHANGED <<index, history, events, held, seen>>

-----------------------------------------------------------------------------
\* The client gets the response: its token, and what it showed.
Deliver(c) ==
    /\ call[c].pc = "reply"
    /\ held' = [held EXCEPT ![c] = @ \cup {call[c].token}]
    /\ seen' = [seen EXCEPT ![c] = @ \cup call[c].shown]
    /\ End(c)
    /\ UNCHANGED <<index, store, history, events>>

\* A lost response, a cancellation, a response budget, a quota that cannot be
\* met, a conflict or an error: an open transaction is rolled back.
Abort(c) ==
    /\ call[c].pc # "idle"
    /\ End(c)
    /\ UNCHANGED <<index, store, history, events, held, seen>>

Step(c) ==
    \/ \E t \in held[c] \cup {NoToken}, places \in SUBSET Places \ {{}} :
         Read(c, t, places)
    \/ \E now \in Times, overlap \in BOOLEAN : Evaluate(c, now, overlap)
    \/ \E t \in held[c], now \in Times : Load(c, t, now)
    \/ \E carried \in SUBSET call[c].source : Classify(c, carried)
    \/ \E now \in Times, k \in 0..Cardinality(DOMAIN rows) : Persist(c, now, k)
    \/ Deliver(c)
    \/ Abort(c)

Next ==
    \/ Publish
    \/ Copy
    \/ \E f \in copies, same \in BOOLEAN : Restore(f, same)
    \/ \E c \in Clients : Step(c)

Spec == Init /\ [][Next]_vars

-----------------------------------------------------------------------------
\* The type of a database file and of its copies.
File(f) ==
    /\ f.generation \in 1..(events + 1)
    /\ f.document \in [Places -> Texts]
    /\ f.namespace \in 1..namespaces
    /\ f.nextRow \in 1..(MaxRows + 1)
    /\ DOMAIN f.rows \subseteq 1..(f.nextRow - 1)
    /\ \A id \in DOMAIN f.rows : f.rows[id] \in Row

TypeOK ==
    /\ generation \in 1..(events + 1)
    /\ document \in [Places -> Texts]
    /\ events \in 0..MaxEvents
    /\ namespaces \in 1..(events + 1)
    /\ namespace \in 1..namespaces
    /\ mixed \in BOOLEAN
    /\ nextRow \in 1..(MaxRows + 1)
    /\ DOMAIN rows \subseteq 1..(nextRow - 1)
    /\ \A id \in DOMAIN rows : rows[id] \in Row
    /\ \A f \in copies : File(f)
    /\ usage \in [receipts : Nat, evidence : Nat]
    /\ call \in [Clients -> Call]
    /\ held \in [Clients -> SUBSET Token]
    /\ seen \in [Clients -> SUBSET Shown]

\* Nothing is withheld that the client does not have: an item left out of a
\* response was shown to this client with the same content, or a range that
\* overlaps it was shown from the same generation (decide, evaluate_receipt).
\* Lost responses, branches, rebases and restored copies make no exception,
\* except a copy that kept the file's identity, until the next rotation.
WithheldWasShown ==
    [][~mixed => \A c \in Clients : call[c].pc = "read" /\ call'[c].pc = "reply" =>
         \A i \in call[c].items :
            \/ \E s \in call'[c].shown : ItemOf(s) = i
            \/ \E s \in seen[c] : s.text = i.text
            \/ \E s \in seen[c] : s.gen = call[c].gen /\ <<s.place, i.place>> \in Overlap]_vars

\* The counters that decide about eviction are those of the rows, and the
\* quotas are kept, whatever was pruned, evicted, appended or restored.
QuotasKept ==
    /\ usage = Counted(rows)
    /\ usage.receipts <= MaxReceipts
    /\ usage.evidence <= MaxTotal
    /\ \A id \in DOMAIN rows : Cardinality(rows[id].evidence) <= MaxPerReceipt

\* The source of a request that succeeds is still there, as it was: neither
\* the append nor the eviction that makes room for it touches the source.
SourceKept ==
    [][\A c \in Clients :
         /\ call[c].pc \in {"read", "persist"} /\ call'[c].pc = "reply"
         /\ call[c].token # NoToken
         => /\ call[c].token.id \in DOMAIN rows \cap DOMAIN rows'
            /\ rows'[call[c].token.id] = rows[call[c].token.id]]_vars

\* A rebased receipt lists only what the current generation still holds,
\* although it was classified before the transaction.
CarriedIsCurrent ==
    [][\A c \in Clients : call[c].pc = "persist" /\ call'[c].pc = "reply" =>
         \A e \in rows'[call'[c].token.id].evidence : document[e.place] = e.text]_vars

\* A token that became unknown (expired, evicted, of a replaced file) stays
\* unknown: its id is never given to another receipt, nor does a restored copy
\* bring it back, unless the copy kept the file's identity
\* (regenerate_receipt_namespaces_if_cloned).
UnknownForGood ==
    [][~mixed' => \A c \in Clients : \A t \in held[c] :
         ~Known(rows, t) => ~(Known(rows, t))']_vars

-----------------------------------------------------------------------------
(* The inductive invariant.                                                *)

\* The token was given out under this namespace or under one before it.  With
\* a copy restored in the file's own namespace, nothing is known of row ids.
Issued(t) ==
    /\ t.ns <= namespaces
    /\ mixed \/ t.ns < namespace \/ (t.ns = namespace /\ t.id < nextRow)

\* The token is known, and it is the one that was given out.
Trusted(t) == ~mixed /\ Known(rows, t)

\* A request names a token that its client holds.
TokensInv(c) ==
    /\ \A t \in held[c] : Issued(t)
    /\ Issued(call[c].token)
    /\ call[c].token \in IF call[c].pc = "reply" THEN Token ELSE held[c] \cup {NoToken}

\* The evidence of a receipt of generation gen was shown.
Backed(evidence, gen, shown) ==
    \A e \in evidence : \E s \in shown :
       s.text = e.text /\ (~e.exact => s.place = e.place /\ s.gen = gen)

\* What a receipt lists was shown to every client that holds its token, or
\* is shown by the response that delivers it; a rebase handles only that.
BackedInv(c) ==
    /\ \A t \in held[c] :
         Trusted(t) => Backed(rows[t.id].evidence, rows[t.id].gen, seen[c])
    /\ call[c].pc = "reply" /\ Trusted(call[c].token) =>
         Backed(rows[call[c].token.id].evidence, rows[call[c].token.id].gen,
                seen[c] \cup call[c].shown)
    /\ ~mixed /\ call[c].pc \in {"classify", "persist"} =>
         \A e \in call[c].source : \E s \in seen[c] : s.text = e.text

\* What a rebase classified is of its source, and holds as long as the
\* generation is the same.
ClassifiedInv(c) ==
    /\ Cardinality(call[c].source) <= MaxPerReceipt
    /\ call[c].pc = "persist" =>
         /\ call[c].items \subseteq {ItemOf(e) : e \in call[c].source}
         /\ call[c].gen <= generation
         /\ call[c].gen = generation =>
              \A i \in call[c].items : document[i.place] = i.text

\* The quotas hold in a copy as well.
CopiesInv ==
    \A f \in copies :
      /\ Counted(f.rows).receipts <= MaxReceipts
      /\ Counted(f.rows).evidence <= MaxTotal
      /\ \A id \in DOMAIN f.rows : Cardinality(f.rows[id].evidence) <= MaxPerReceipt

\* The invariant behind the theorems: a receipt is backed by what its holders
\* saw, and counters, tokens and classifications agree with the rows.
IInv ==
    /\ TypeOK
    /\ QuotasKept /\ CopiesInv
    /\ \A c \in Clients : TokensInv(c) /\ BackedInv(c) /\ ClassifiedInv(c)

=============================================================================
