---------------------- MODULE RetrievalReceiptsProofs ----------------------
(***************************************************************************)
(* Nothing is withheld that was not shown, for any clients, contents,      *)
(* quotas and clocks.                                                      *)
(***************************************************************************)
EXTENDS RetrievalReceipts, FiniteSetTheorems, TLAPS

USE ReceiptsAssumption

\* Rows of a table with row ids that can be given out.
Table(r) == DOMAIN r \subseteq 1..MaxRows /\ \A id \in DOMAIN r : r[id] \in Row

-----------------------------------------------------------------------------
(* Counting rows of evidence.                                              *)

\* Evidence is one of finitely many.
LEMMA EvidenceFinite == IsFiniteSet(Evidence)
<1> DEFINE D == (Places \X Texts) \X BOOLEAN
           f == [d \in D |-> [place |-> d[1][1], text |-> d[1][2], exact |-> d[2]]]
<1>1. IsFiniteSet(D)
  <2>1. IsFiniteSet({TRUE} \cup {FALSE}) BY FS_Singleton, FS_Union
  <2>2. {TRUE} \cup {FALSE} = BOOLEAN OBVIOUS
  <2>3. IsFiniteSet(BOOLEAN) BY <2>1, <2>2
  <2>4. IsFiniteSet(Places \X Texts) BY FS_Product
  <2> HIDE DEF D
  <2> QED BY <2>3, <2>4, FS_Product DEF D
<1>2. f \in Surjection(D, Evidence)
  <2>1. f \in [D -> Evidence] BY DEF Evidence
  <2>2. ASSUME NEW e \in Evidence PROVE \E d \in D : f[d] = e
    <3>1. <<<<e.place, e.text>>, e.exact>> \in D BY DEF Evidence
    <3>2. f[<<<<e.place, e.text>>, e.exact>>] = e BY <3>1 DEF Evidence
    <3> QED BY <3>1, <3>2
  <2> QED BY <2>1, <2>2 DEF Surjection
<1> QED
  <2> HIDE DEF D, f
  <2> QED BY <1>1, <1>2, FS_Surjection

\* The evidence of some rows, tagged with the row.
Tagged(r, ids) == UNION {{id} \X r[id].evidence : id \in ids}

\* A part of a table has finitely many rows of evidence.
LEMMA TaggedFinite ==
    ASSUME NEW r, Table(r), NEW ids \in SUBSET DOMAIN r
    PROVE  /\ IsFiniteSet(ids) /\ Cardinality(ids) \in Nat
           /\ IsFiniteSet(Tagged(r, ids)) /\ EvidenceCount(r, ids) \in Nat
<1>1. IsFiniteSet(1..MaxRows) BY FS_Interval
<1>2. ids \subseteq 1..MaxRows BY DEF Table
<1>3. IsFiniteSet(ids) BY <1>1, <1>2, FS_Subset
<1>4. IsFiniteSet(ids \X Evidence) BY <1>3, EvidenceFinite, FS_Product
<1>5. Tagged(r, ids) \subseteq ids \X Evidence BY DEF Tagged, Table, Row
<1>6. IsFiniteSet(Tagged(r, ids)) BY <1>4, <1>5, FS_Subset
<1> QED BY <1>3, <1>6, FS_CardinalityType DEF EvidenceCount, Tagged

\* The size of what is left of a finite set.
LEMMA SizeWithout ==
    ASSUME NEW S, IsFiniteSet(S), NEW T, S \cap T = T
    PROVE  Cardinality(S \ T) = Cardinality(S) - Cardinality(T)
BY FS_Difference

\* Deleting rows reduces the counters by exactly what the rows had.
LEMMA CountedWithout ==
    ASSUME NEW r, Table(r), NEW gone \in SUBSET DOMAIN r
    PROVE  /\ Table(Without(r, gone))
           /\ DOMAIN Without(r, gone) = DOMAIN r \ gone
           /\ \A id \in DOMAIN r \ gone : Without(r, gone)[id] = r[id]
           /\ Counted(Without(r, gone)) = Reduced(Counted(r), r, gone)
           /\ Reduced(Counted(r), r, gone) \in [receipts : Nat, evidence : Nat]
           /\ Reduced(Counted(r), r, gone).receipts <= Counted(r).receipts
           /\ Reduced(Counted(r), r, gone).evidence <= Counted(r).evidence
<1> DEFINE q == Without(r, gone)  kept == DOMAIN r \ gone
<1>1. /\ Table(q) /\ DOMAIN q = kept
      /\ \A id \in kept : q[id] = r[id]
  BY DEF Without, Table
<1>2. Tagged(q, kept) = Tagged(r, kept) BY <1>1 DEF Tagged
<1>3. Tagged(r, kept) = Tagged(r, DOMAIN r) \ Tagged(r, gone)
  BY DEF Tagged
<1>4. Tagged(r, DOMAIN r) \cap Tagged(r, gone) = Tagged(r, gone)
  BY DEF Tagged
<1>5. EvidenceCount(q, kept) = EvidenceCount(r, DOMAIN r) - EvidenceCount(r, gone)
  <2>1. \A t, ids : EvidenceCount(t, ids) = Cardinality(Tagged(t, ids))
    BY DEF EvidenceCount, Tagged
  <2>2. IsFiniteSet(Tagged(r, DOMAIN r)) BY TaggedFinite
  <2>3. Cardinality(Tagged(r, kept)) =
          Cardinality(Tagged(r, DOMAIN r)) - Cardinality(Tagged(r, gone))
    BY ONLY <1>3, <1>4, <2>2, SizeWithout
  <2> QED BY <1>2, <2>1, <2>3
<1>6. Cardinality(kept) = Cardinality(DOMAIN r) - Cardinality(gone)
  <2>1. DOMAIN r \cap gone = gone OBVIOUS
  <2> QED BY <2>1, TaggedFinite, SizeWithout
<1>7. /\ EvidenceCount(q, kept) \in Nat /\ Cardinality(kept) \in Nat
      /\ EvidenceCount(r, DOMAIN r) \in Nat /\ Cardinality(DOMAIN r) \in Nat
      /\ EvidenceCount(r, gone) \in Nat /\ Cardinality(gone) \in Nat
  BY <1>1, TaggedFinite
<1>8. Counted(q) = Reduced(Counted(r), r, gone)
  BY <1>1, <1>5, <1>6 DEF Counted, Reduced
<1>9. /\ Counted(r).receipts = Cardinality(DOMAIN r)
      /\ Counted(r).evidence = EvidenceCount(r, DOMAIN r)
  BY DEF Counted
<1> HIDE DEF q, kept
<1>10. /\ Reduced(Counted(r), r, gone) = [receipts |-> Cardinality(kept), evidence |-> EvidenceCount(q, kept)]
  BY <1>5, <1>6, <1>9 DEF Reduced
<1> QED BY <1>1, <1>5, <1>6, <1>7, <1>8, <1>9, <1>10 DEF q, kept

\* The table after an insertion (Insert).
Added(r, id, row) == [j \in DOMAIN r \cup {id} |-> IF j = id THEN row ELSE r[j]]

\* Inserting a row under a fresh id adds it and its evidence to the counters.
LEMMA CountedAdded ==
    ASSUME NEW r, Table(r), NEW id \in 1..MaxRows, id \notin DOMAIN r, NEW row \in Row
    PROVE  /\ Table(Added(r, id, row))
           /\ Counted(Added(r, id, row)) =
                [receipts |-> Counted(r).receipts + 1,
                 evidence |-> Counted(r).evidence + Cardinality(row.evidence)]
           /\ Counted(r) \in [receipts : Nat, evidence : Nat]
           /\ IsFiniteSet(row.evidence) /\ Cardinality(row.evidence) \in Nat
<1> DEFINE q == Added(r, id, row)
<1>1. Table(q) BY DEF Table, Added
<1>2. /\ IsFiniteSet(row.evidence) /\ Cardinality(row.evidence) \in Nat
  BY EvidenceFinite, FS_Subset, FS_CardinalityType DEF Row
<1>3. /\ DOMAIN q = DOMAIN r \cup {id} /\ q[id] = row
      /\ \A j \in DOMAIN r : q[j] = r[j]
  BY DEF Added
<1>4. Without(q, {id}) = [j \in DOMAIN r |-> r[j]] BY <1>3 DEF Without
<1>5. Counted([j \in DOMAIN r |-> r[j]]) = Counted(r) BY DEF Counted, EvidenceCount
<1> HIDE DEF q
<1>6. EvidenceCount(q, {id}) = Cardinality(row.evidence)
  <2>1. Tagged(q, {id}) = {id} \X row.evidence BY <1>3 DEF Tagged
  <2>2. Cardinality({id} \X row.evidence) = 1 * Cardinality(row.evidence)
    <3>1. IsFiniteSet({id}) /\ Cardinality({id}) = 1 BY FS_Singleton
    <3> QED BY <1>2, <3>1, FS_Product
  <2>3. EvidenceCount(q, {id}) = Cardinality(Tagged(q, {id}))
    BY DEF EvidenceCount, Tagged
  <2>4. 1 * Cardinality(row.evidence) = Cardinality(row.evidence) BY <1>2
  <2> QED BY <2>1, <2>2, <2>3, <2>4
<1>7. Cardinality({id}) = 1 BY FS_Singleton
<1>8. Reduced(Counted(q), q, {id}) = Counted(r)
  BY <1>1, <1>3, <1>4, <1>5, CountedWithout
<1>9. Counted(q) \in [receipts : Nat, evidence : Nat] /\ Counted(r) \in [receipts : Nat, evidence : Nat]
  BY <1>1, TaggedFinite DEF Counted
<1>10. /\ Counted(q).receipts - 1 = Counted(r).receipts
       /\ Counted(q).evidence - Cardinality(row.evidence) = Counted(r).evidence
  BY <1>6, <1>7, <1>8 DEF Reduced
<1>11. /\ Counted(q).receipts = Counted(r).receipts + 1
       /\ Counted(q).evidence = Counted(r).evidence + Cardinality(row.evidence)
  BY <1>2, <1>9, <1>10
<1>12. Counted(q) = [receipts |-> Counted(q).receipts, evidence |-> Counted(q).evidence]
  BY DEF Counted
<1> QED BY <1>1, <1>2, <1>9, <1>11, <1>12 DEF q

\* The smaller of two numbers.
LEMMA MinPair ==
    ASSUME NEW a \in Int, NEW b \in Int
    PROVE  Min({a, b}) \in Int /\ Min({a, b}) <= a /\ Min({a, b}) <= b
<1>1. \E x \in {a, b} : \A y \in {a, b} : x <= y OBVIOUS
<1> QED BY <1>1 DEF Min

\* A rewritten set of evidence or items is not larger.
LEMMA CarriedSize ==
    ASSUME NEW source \in SUBSET Evidence, NEW items, items \subseteq {ItemOf(e) : e \in source}
    PROVE  LET stored == {[place |-> i.place, text |-> i.text, exact |-> TRUE] : i \in items}
           IN  /\ stored \in SUBSET Evidence
               /\ IsFiniteSet(stored) /\ IsFiniteSet(source)
               /\ Cardinality(stored) <= Cardinality(source)
               /\ Cardinality(stored) \in Nat /\ Cardinality(source) \in Nat
<1> DEFINE stored == {[place |-> i.place, text |-> i.text, exact |-> TRUE] : i \in items}
           part == {e \in source : ItemOf(e) \in items}
           f == [e \in part |-> [place |-> e.place, text |-> e.text, exact |-> TRUE]]
<1>1. IsFiniteSet(source) /\ Cardinality(source) \in Nat
  BY EvidenceFinite, FS_Subset, FS_CardinalityType
<1>2. IsFiniteSet(part) /\ Cardinality(part) <= Cardinality(source) /\ Cardinality(part) \in Nat
  BY <1>1, FS_Subset, FS_CardinalityType
<1>3. \A e \in part : [place |-> e.place, text |-> e.text, exact |-> TRUE] \in stored
  <2> TAKE e \in part
  <2>1. ItemOf(e) \in items OBVIOUS
  <2>2. ItemOf(e).place = e.place /\ ItemOf(e).text = e.text BY DEF ItemOf
  <2> QED BY <2>1, <2>2
<1>4. \A x \in stored : \E e \in part : x = [place |-> e.place, text |-> e.text, exact |-> TRUE]
  BY DEF ItemOf
<1>5. f \in Surjection(part, stored) BY <1>3, <1>4 DEF Surjection
<1>6. stored \in SUBSET Evidence 
  <2> SUFFICES ASSUME NEW x \in stored PROVE x \in Evidence OBVIOUS
  <2>1. PICK e \in part : x = [place |-> e.place, text |-> e.text, exact |-> TRUE]
    BY <1>4
  <2> QED BY <2>1 DEF Evidence
<1> HIDE DEF stored, part, f
<1>7. IsFiniteSet(stored) /\ Cardinality(stored) <= Cardinality(part)
  BY <1>2, <1>5, FS_Surjection
<1>8. Cardinality(stored) \in Nat BY <1>7, FS_CardinalityType
<1> QED BY <1>1, <1>2, <1>6, <1>7, <1>8 DEF stored

-----------------------------------------------------------------------------
(* What the steps of a transaction do to the stored rows.                  *)

StoreInv ==
    /\ namespaces \in 1..(MaxEvents + 1)
    /\ namespace \in 1..namespaces
    /\ nextRow \in 1..(MaxRows + 1)
    /\ DOMAIN rows \subseteq 1..(nextRow - 1)
    /\ \A id \in DOMAIN rows : rows[id] \in Row
    /\ usage \in [receipts : Nat, evidence : Nat]
    /\ QuotasKept

\* A token that was given out is not given out again, and its row, if it is
\* still there, is what it was.
RowsKept ==
    \A t \in Token \cup {NoToken} : Issued(t) =>
      /\ Issued(t)'
      /\ Trusted(t)' => Trusted(t) /\ rows'[t.id] = rows[t.id]

\* Some of the stored rows, with the counters of these rows.
Part(r, u) ==
    /\ Table(r)
    /\ DOMAIN r \subseteq DOMAIN rows
    /\ \A id \in DOMAIN r : r[id] = rows[id]
    /\ u = Counted(r)
    /\ u \in [receipts : Nat, evidence : Nat]
    /\ u.receipts <= MaxReceipts
    /\ u.evidence <= MaxTotal

\* All stored rows, with the counters kept by the triggers.
LEMMA PartAll ==
    ASSUME StoreInv
    PROVE  Part(rows, usage)
BY DEF StoreInv, QuotasKept, Part, Table

\* Deleting rows of a part leaves a part.
LEMMA PartWithout ==
    ASSUME NEW r, NEW u, Part(r, u), NEW gone \in SUBSET DOMAIN r
    PROVE  /\ Part(Without(r, gone), Reduced(u, r, gone))
           /\ DOMAIN Without(r, gone) = DOMAIN r \ gone
<1>1. /\ Table(Without(r, gone)) /\ DOMAIN Without(r, gone) = DOMAIN r \ gone
      /\ \A id \in DOMAIN r \ gone : Without(r, gone)[id] = r[id]
      /\ Counted(Without(r, gone)) = Reduced(u, r, gone)
      /\ Reduced(u, r, gone) \in [receipts : Nat, evidence : Nat]
      /\ Reduced(u, r, gone).receipts <= u.receipts
      /\ Reduced(u, r, gone).evidence <= u.evidence
  BY CountedWithout DEF Part
<1> HIDE DEF Without, Reduced
<1> QED BY <1>1 DEF Part

\* Rows are deleted, by expiry or as the early source.
LEMMA ShrinkStep ==
    ASSUME StoreInv, NEW r, NEW u, Part(r, u), rows' = r, usage' = u,
           UNCHANGED <<namespace, nextRow, namespaces, mixed>>
    PROVE  StoreInv' /\ RowsKept
<1>1. StoreInv' BY DEF StoreInv, QuotasKept, Part, Table
<1>2. RowsKept BY DEF RowsKept, Issued, Trusted, Known, Part
<1> QED BY <1>1, <1>2

\* A step that does not touch the receipts.
LEMMA SameStore ==
    ASSUME StoreInv, UNCHANGED <<store, namespaces, mixed>>
    PROVE  StoreInv' /\ RowsKept
<1>1. rows' = rows /\ usage' = usage /\ UNCHANGED <<namespace, nextRow, namespaces, mixed>>
  BY DEF store
<1> QED BY <1>1, PartAll, ShrinkStep

\* A receipt is inserted after evictions that made room for it.
LEMMA InsertStep ==
    ASSUME StoreInv, NEW r, NEW u, Part(r, u), NEW row \in Row, NEW n \in Nat,
           Cardinality(row.evidence) <= MaxPerReceipt,
           Cardinality(row.evidence) <= n, Fits(u, n), Insert(r, u, row),
           UNCHANGED <<namespaces, mixed>>
    PROVE  /\ StoreInv' /\ RowsKept
           /\ rows' = Added(r, nextRow, row)
           /\ nextRow \notin DOMAIN rows
           /\ nextRow \in DOMAIN rows' /\ rows'[nextRow] = row
           /\ \A id \in DOMAIN r : id \in DOMAIN rows' /\ rows'[id] = rows[id]
           /\ [ns |-> namespace, id |-> nextRow] \in Token
           /\ \A t \in Token : t = [ns |-> namespace, id |-> nextRow] => Issued(t)'
<1>1. /\ nextRow \in 1..MaxRows /\ nextRow' = nextRow + 1 /\ namespace' = namespace
      /\ rows' = Added(r, nextRow, row)
      /\ usage' = [receipts |-> u.receipts + 1, evidence |-> u.evidence + Cardinality(row.evidence)]
  BY DEF Insert, Added
<1>2. nextRow \notin DOMAIN rows /\ nextRow \notin DOMAIN r BY DEF StoreInv, Part
<1>3. /\ Table(rows') /\ usage' = Counted(rows') /\ Cardinality(row.evidence) \in Nat
  BY <1>1, <1>2, CountedAdded DEF Part
<1>4. /\ DOMAIN rows' = DOMAIN r \cup {nextRow} /\ rows'[nextRow] = row
      /\ \A id \in DOMAIN r : id \in DOMAIN rows' /\ rows'[id] = rows[id]
  BY <1>1, <1>2 DEF Added, Part
<1>5. /\ usage' \in [receipts : Nat, evidence : Nat]
      /\ usage'.receipts <= MaxReceipts /\ usage'.evidence <= MaxTotal
  BY <1>1, <1>3 DEF Part, Fits
<1>6. \A id \in DOMAIN rows' : Cardinality(rows'[id].evidence) <= MaxPerReceipt
  BY <1>4 DEF StoreInv, QuotasKept, Part
<1>7. DOMAIN rows' \subseteq 1..(nextRow' - 1)
  BY <1>1, <1>4 DEF StoreInv, Part
<1>8. StoreInv'
  BY <1>1, <1>3, <1>5, <1>6, <1>7 DEF StoreInv, QuotasKept, Table
<1>9. RowsKept
  BY <1>1, <1>4 DEF RowsKept, Issued, Trusted, Known, Part, StoreInv, Token, NoToken
<1>10. /\ [ns |-> namespace, id |-> nextRow] \in Token
       /\ \A t \in Token : t = [ns |-> namespace, id |-> nextRow] => Issued(t)'
  BY <1>1 DEF StoreInv, Token, Issued
<1> QED BY <1>1, <1>2, <1>4, <1>8, <1>9, <1>10

\* A copy is opened: its namespace is new, or nothing is trusted any more.
LEMMA RestoreStep ==
    ASSUME IInv, NEW f \in copies, NEW same \in BOOLEAN, Restore(f, same)
    PROVE  StoreInv' /\ RowsKept
<1>1. /\ namespaces \in 1..(events + 1) /\ events \in Nat /\ events < MaxEvents
      /\ namespace \in 1..namespaces /\ f.namespace \in 1..namespaces
      /\ f.nextRow \in 1..(MaxRows + 1) /\ DOMAIN f.rows \subseteq 1..(f.nextRow - 1)
      /\ \A id \in DOMAIN f.rows : f.rows[id] \in Row
      /\ mixed \in BOOLEAN
  BY DEF IInv, TypeOK, File, Restore
<1>2. /\ rows' = f.rows /\ usage' = Counted(f.rows) /\ nextRow' = f.nextRow /\ mixed' = same
      /\ same => namespace' = f.namespace /\ namespaces' = namespaces
      /\ ~same => namespace' = namespaces + 1 /\ namespaces' = namespaces + 1
  BY DEF Restore, Rotated
<1>3. Table(f.rows) BY <1>1 DEF Table
<1>4. QuotasKept'
  BY <1>2 DEF IInv, CopiesInv, QuotasKept
<1>5. usage' \in [receipts : Nat, evidence : Nat]
  BY <1>2, <1>3, TaggedFinite DEF Counted
<1>6. namespaces' \in 1..(MaxEvents + 1) /\ namespace' \in 1..namespaces'
  BY <1>1, <1>2
<1>7. StoreInv' BY <1>1, <1>2, <1>4, <1>5, <1>6 DEF StoreInv
<1>8. RowsKept
  BY <1>1, <1>2 DEF RowsKept, Issued, Trusted, Known, Token, NoToken
<1> QED BY <1>7, <1>8

-----------------------------------------------------------------------------
(* The invariant holds initially and is kept by every step.                *)

ClientInv(c) == TokensInv(c) /\ BackedInv(c) /\ ClassifiedInv(c)

ClientTypes ==
    /\ generation \in Generations
    /\ document \in [Places -> Texts]
    /\ events \in 0..MaxEvents
    /\ call \in [Clients -> Call]
    /\ held \in [Clients -> SUBSET Token]
    /\ seen \in [Clients -> SUBSET Shown]

\* What was published, copied and restored so far.
HistoryInv ==
    /\ generation \in 1..(events + 1)
    /\ namespaces \in 1..(events + 1)
    /\ mixed \in BOOLEAN
    /\ \A f \in copies : File(f)
    /\ CopiesInv

\* The invariant, split into the store, the history, the types and the clients.
LEMMA IInvParts ==
    IInv <=> StoreInv /\ HistoryInv /\ ClientTypes /\ \A c \in Clients : ClientInv(c)
<1>1. ASSUME HistoryInv, ClientTypes
      PROVE  namespaces \in 1..(MaxEvents + 1) /\ generation \in Generations
  BY <1>1 DEF HistoryInv, ClientTypes, Generations
<1>2. ASSUME TypeOK PROVE namespaces \in 1..(MaxEvents + 1) /\ generation \in Generations
  BY <1>2 DEF TypeOK, Generations
<1> QED BY <1>1, <1>2 DEF IInv, TypeOK, StoreInv, HistoryInv, ClientTypes, ClientInv

\* The same of the state after a step.
LEMMA IInvPartsNext ==
    StoreInv' /\ HistoryInv' /\ ClientTypes' /\ (\A c \in Clients : ClientInv(c)') => IInv'
<1>1. ASSUME HistoryInv', ClientTypes' PROVE (events \in 0..MaxEvents)'
  BY <1>1 DEF ClientTypes
<1> QED BY <1>1 DEF IInv, TypeOK, StoreInv, HistoryInv, ClientTypes, ClientInv

\* A bound that grows stays a bound.
LEMMA Widen ==
    ASSUME NEW a \in Nat, NEW b \in Nat, a <= b, NEW g \in 1..(a + 1)
    PROVE  g \in 1..(b + 1)
OBVIOUS

\* The history is a history after a request as well.
LEMMA SameHistory ==
    ASSUME IInv, UNCHANGED <<index, history>>, events' \in events..MaxEvents
    PROVE  HistoryInv'
<1>1. /\ HistoryInv /\ events \in Nat /\ events' \in Nat /\ events <= events'
      /\ UNCHANGED <<generation, document, namespaces, mixed, copies>>
  BY IInvParts DEF ClientTypes, index, history
<1>2. ASSUME NEW f \in copies PROVE File(f)'
  BY <1>1 DEF HistoryInv, File
<1>3. generation' \in 1..(events' + 1) /\ namespaces' \in 1..(events' + 1)
  <2>1. generation \in 1..(events + 1) /\ namespaces \in 1..(events + 1)
    BY <1>1 DEF HistoryInv
  <2>2. generation' = generation /\ namespaces' = namespaces BY <1>1
  <2>3. events \in Nat /\ events' \in Nat /\ events <= events' BY <1>1
  <2>4. generation \in 1..(events' + 1) /\ namespaces \in 1..(events' + 1)
    <3> HIDE ReceiptsAssumption
    <3> QED BY ONLY <2>1, <2>3, Widen
  <2> QED BY <2>2, <2>4
<1> QED BY <1>1, <1>2, <1>3 DEF HistoryInv, CopiesInv

\* A client without a request.
LEMMA IdleCall ==
    /\ Idle \in Call
    /\ Idle.pc = "idle" /\ Idle.token = NoToken /\ Idle.gen = 1
    /\ Idle.source = {} /\ Idle.items = {} /\ Idle.shown = {}
    /\ Cardinality({}) = 0 /\ Cardinality({}) <= MaxPerReceipt
BY FS_EmptySet DEF Idle, Call, Generations, NoToken

\* An empty database satisfies the invariant.
LEMMA InitInv == Init => IInv
<1> SUFFICES ASSUME Init PROVE IInv OBVIOUS
<1> USE DEF Init
<1>1. DOMAIN rows = {} OBVIOUS
<1>2. Counted(rows) = [receipts |-> 0, evidence |-> 0]
  <2>1. UNION {{id} \X rows[id].evidence : id \in {}} = {} OBVIOUS
  <2> QED BY <1>1, <2>1, FS_EmptySet DEF Counted, EvidenceCount
<1>3. StoreInv /\ HistoryInv
  <2>1. 1 \in 1..(MaxEvents + 1) /\ 1 \in 1..(0 + 1) /\ 1 \in 1..1 OBVIOUS
  <2>2. StoreInv BY <1>1, <1>2, <2>1 DEF StoreInv, QuotasKept
  <2>3. HistoryInv BY <2>1 DEF HistoryInv, CopiesInv
  <2> QED BY <2>2, <2>3
<1>4. ClientTypes BY IdleCall DEF ClientTypes, Generations
<1>5. \A c \in Clients : ClientInv(c)
  <2> TAKE c \in Clients
  <2>1. call[c] = Idle /\ held[c] = {} /\ generation = 1 /\ namespace = 1 OBVIOUS
  <2>2. TokensInv(c) BY <2>1, IdleCall DEF TokensInv, Issued, NoToken
  <2>3. BackedInv(c) BY <2>1, IdleCall DEF BackedInv
  <2>4. ClassifiedInv(c)
    <3> HIDE DEF Init
    <3> QED BY <2>1, IdleCall DEF ClassifiedInv
  <2> QED BY <2>2, <2>3, <2>4 DEF ClientInv
<1> QED BY <1>3, <1>4, <1>5, IInvParts

\* A client whose own state is left alone.
LEMMA OtherClient ==
    ASSUME IInv, RowsKept, UNCHANGED <<index, mixed>>, NEW d \in Clients,
           call'[d] = call[d], held'[d] = held[d], seen'[d] = seen[d]
    PROVE  ClientInv(d)'
<1>1. /\ ClientInv(d) /\ call[d].token \in Token \cup {NoToken}
      /\ held[d] \subseteq Token
  BY IInvParts DEF ClientTypes, Call
<1>2. TokensInv(d)' BY <1>1 DEF ClientInv, TokensInv, RowsKept
<1>3. BackedInv(d)'
  BY <1>1 DEF ClientInv, BackedInv, TokensInv, RowsKept, Backed
<1>4. ClassifiedInv(d)' BY <1>1 DEF ClientInv, ClassifiedInv, index
<1> QED BY <1>2, <1>3, <1>4 DEF ClientInv

\* A step of client c that ends in the call record x.
LEMMA ClientStep ==
    ASSUME IInv, StoreInv', RowsKept, UNCHANGED <<index, history>>, events' \in events..MaxEvents,
           NEW c \in Clients, NEW x \in Call, call' = [call EXCEPT ![c] = x],
           held' \in [Clients -> SUBSET Token], seen' \in [Clients -> SUBSET Shown],
           \A d \in Clients \ {c} : held'[d] = held[d] /\ seen'[d] = seen[d],
           ClientInv(c)'
    PROVE  IInv'
<1>1. ClientTypes' BY IInvParts DEF ClientTypes, index
<1>2. \A d \in Clients \ {c} : call'[d] = call[d] BY IInvParts DEF ClientTypes
<1>3. \A d \in Clients : ClientInv(d)'
  <2> TAKE d \in Clients
  <2> QED BY <1>2, OtherClient DEF history
<1> QED BY <1>1, <1>3, SameHistory, IInvPartsNext

\* The tokens a client holds, after a step that shows it nothing.
LEMMA HeldKept ==
    ASSUME IInv, RowsKept, NEW c \in Clients
    PROVE  /\ \A t \in held[c] : /\ Issued(t)'
                                 /\ Trusted(t)' => Backed(rows'[t.id].evidence, rows'[t.id].gen, seen[c])
           /\ \A t \in Token \cup {NoToken} : Issued(t) => Issued(t)'
           /\ call[c] \in Call /\ held[c] \subseteq Token /\ Issued(NoToken) /\ Issued(NoToken)'
<1>1. /\ ClientInv(c) /\ call[c] \in Call /\ held[c] \subseteq Token
      /\ namespace \in Nat \ {0} /\ namespaces \in Nat
  BY IInvParts DEF ClientTypes, StoreInv
<1>2. Issued(NoToken) BY <1>1 DEF Issued, NoToken
<1>3. \A t \in held[c] : /\ Issued(t)'
                         /\ Trusted(t)' => Backed(rows'[t.id].evidence, rows'[t.id].gen, seen[c])
  BY <1>1 DEF ClientInv, BackedInv, TokensInv, RowsKept
<1> QED BY <1>1, <1>2, <1>3 DEF RowsKept

\* Client c begins a retrieval or ends its request.
LEMMA FreshCall ==
    ASSUME IInv, StoreInv', RowsKept, UNCHANGED <<index, history, held, seen>>,
           events' \in events..MaxEvents, NEW c \in Clients, NEW x \in Call,
           call' = [call EXCEPT ![c] = x], x.pc \in {"idle", "read"},
           x.token \in held[c] \cup {NoToken}, x.source = {}
    PROVE  IInv'
<1>1. /\ call'[c] = x /\ held'[c] = held[c] /\ seen'[c] = seen[c]
      /\ generation' = generation
  BY IInvParts DEF ClientTypes, index
<1>2. TokensInv(c)' BY <1>1, HeldKept DEF TokensInv
<1>3. BackedInv(c)' BY <1>1, HeldKept DEF BackedInv
<1>4. ClassifiedInv(c)'
  <2>1. call'[c].source = {} /\ call'[c].pc # "persist"
    BY <1>1
  <2> QED BY <2>1, IdleCall DEF ClassifiedInv
<1>5. held' \in [Clients -> SUBSET Token] /\ seen' \in [Clients -> SUBSET Shown]
  BY IInvParts DEF ClientTypes
<1> QED BY <1>2, <1>3, <1>4, <1>5, ClientStep DEF ClientInv

\* A request ends without a response.
LEMMA EndInv ==
    ASSUME IInv, StoreInv', RowsKept, UNCHANGED <<index, history, events, held, seen>>,
           NEW c \in Clients, End(c)
    PROVE  IInv'
<1>1. events' \in events..MaxEvents BY IInvParts DEF ClientTypes
<1> QED BY <1>1, IdleCall, FreshCall DEF End

\* A retrieval reads its snapshot.
LEMMA ReadInv ==
    ASSUME IInv, NEW c \in Clients, NEW t \in held[c] \cup {NoToken},
           NEW places \in SUBSET Places, Read(c, t, places)
    PROVE  IInv' /\ RowsKept
<1> DEFINE x == [Idle EXCEPT !.pc = "read", !.token = t, !.gen = generation,
                   !.items = {[place |-> p, text |-> document[p]] : p \in places}]
<1>1. StoreInv' /\ RowsKept BY IInvParts, SameStore DEF Read, history
<1>2. /\ ClientTypes /\ t \in Token \cup {NoToken} BY IInvParts DEF ClientTypes
<1>3. x \in Call /\ x.pc = "read" /\ x.token = t /\ x.source = {} /\ x.gen = generation
  <2>1. {[place |-> p, text |-> document[p]] : p \in places} \in SUBSET Item
    BY <1>2 DEF ClientTypes, Item
  <2>2. generation \in Generations BY <1>2 DEF ClientTypes
  <2> QED BY <1>2, <2>1, <2>2, IdleCall DEF Idle, Call
<1>4. events' \in events..MaxEvents BY <1>2 DEF Read, ClientTypes
<1>5. call' = [call EXCEPT ![c] = x] BY DEF Read
<1> HIDE DEF x
<1> QED BY <1>1, <1>3, <1>4, <1>5, FreshCall DEF Read

\* A response is ready.
LEMMA ReplyInv ==
    ASSUME IInv, StoreInv', RowsKept, UNCHANGED <<index, history, events, held, seen>>,
           NEW c \in Clients, NEW t \in Token, NEW shown \in SUBSET Shown,
           Reply(c, t, shown), Issued(t)',
           Trusted(t)' => Backed(rows'[t.id].evidence, rows'[t.id].gen, seen[c] \cup shown)
    PROVE  IInv'
<1> DEFINE x == [Idle EXCEPT !.pc = "reply", !.token = t, !.shown = shown]
<1>1. /\ x \in Call /\ x.pc = "reply" /\ x.token = t /\ x.shown = shown
      /\ x.source = {} /\ x.gen = 1
  BY IdleCall DEF Idle, Call
<1>2. call' = [call EXCEPT ![c] = x] BY DEF Reply
<1> HIDE DEF x
<1>3. /\ call'[c] = x /\ held'[c] = held[c] /\ seen'[c] = seen[c]
      /\ generation' = generation /\ generation >= 1 /\ events' \in events..MaxEvents
      /\ held' \in [Clients -> SUBSET Token] /\ seen' \in [Clients -> SUBSET Shown]
  BY <1>2, IInvParts DEF ClientTypes, index, Generations
<1>4. TokensInv(c)' BY <1>1, <1>3, HeldKept DEF TokensInv
<1>5. BackedInv(c)' BY <1>1, <1>3, HeldKept DEF BackedInv
<1>6. ClassifiedInv(c)'
  <2>1. Cardinality(call'[c].source) <= MaxPerReceipt
    <3>1. call'[c].source = {} BY <1>1, <1>3
    <3> QED BY <3>1, IdleCall
  <2> QED BY <1>1, <1>3, <2>1 DEF ClassifiedInv
<1> QED BY <1>1, <1>2, <1>3, <1>4, <1>5, <1>6, ClientStep DEF ClientInv

\* What pruning leaves, with its counters.
LEMMA LivePart ==
    ASSUME StoreInv, NEW now \in Times
    PROVE  /\ Part(Live(now), LiveUsage(now))
           /\ DOMAIN Live(now) = DOMAIN rows \ Expired(rows, now)
<1>1. Expired(rows, now) \in SUBSET DOMAIN rows BY DEF Expired
<1> QED BY <1>1, PartAll, PartWithout DEF Live, LiveUsage

\* The source is refused: expired rows and an early source are deleted.
LEMMA RefuseInv ==
    ASSUME IInv, NEW c \in Clients, NEW now \in Times, Refuse(c, now)
    PROVE  IInv' /\ RowsKept
<1> DEFINE t == call[c].token
           early == Known(Live(now), t) /\ rows[t.id].created > now
           gone == IF early THEN {t.id} ELSE {}
<1>1. StoreInv BY IInvParts
<1>2. Part(Live(now), LiveUsage(now)) BY <1>1, LivePart
<1>3. gone \in SUBSET DOMAIN Live(now) BY DEF Known
<1>4. /\ rows' = Without(Live(now), gone)
      /\ usage' = Reduced(LiveUsage(now), Live(now), gone)
      /\ End(c) /\ UNCHANGED <<index, history, namespace, nextRow, events, held, seen>>
      /\ UNCHANGED <<namespaces, mixed>>
  BY DEF Refuse, history
<1> HIDE DEF gone
<1>5. Part(Without(Live(now), gone), Reduced(LiveUsage(now), Live(now), gone))
  BY <1>2, <1>3, PartWithout
<1>6. StoreInv' /\ RowsKept BY <1>1, <1>4, <1>5, ShrinkStep
<1> QED BY <1>4, <1>6, EndInv

\* What a request's source contributes, once it is accepted.
LEMMA AcceptedSource ==
    ASSUME IInv, NEW c \in Clients, NEW now \in Times, Accepted(c, now)
    PROVE  /\ Source(c) \subseteq DOMAIN Live(now)
           /\ Previous(c) \in SUBSET Evidence
           /\ IsFiniteSet(Previous(c)) /\ Cardinality(Previous(c)) \in Nat
           /\ Cardinality(Previous(c)) <= MaxPerReceipt
           /\ mixed \/ Backed(Previous(c), call[c].gen, seen[c])
           /\ call[c].token # NoToken =>
                /\ call[c].token \in held[c] /\ Known(rows, call[c].token)
                /\ Previous(c) = rows[call[c].token.id].evidence
                /\ rows[call[c].token.id].gen = call[c].gen
<1>1. /\ StoreInv /\ ClientInv(c) /\ call[c].pc = "read"
  BY IInvParts DEF Accepted
<1>2. CASE call[c].token = NoToken
  <2>1. Source(c) = {} /\ Previous(c) = {} BY <1>2 DEF Source, Previous
  <2> QED BY <1>2, <2>1, FS_EmptySet DEF Backed
<1>3. CASE call[c].token # NoToken
  <2> DEFINE id == call[c].token.id
  <2>1. /\ Known(Live(now), call[c].token) /\ rows[id].gen = call[c].gen
    BY <1>3 DEF Accepted
  <2>2. id \in DOMAIN Live(now) /\ id \in DOMAIN rows /\ call[c].token.ns = namespace
    BY <1>1, <2>1, LivePart DEF Known
  <2>3. Source(c) = {id} /\ Previous(c) = rows[id].evidence
    BY <1>3 DEF Source, Previous
  <2>4. call[c].token \in held[c] /\ Known(rows, call[c].token)
    BY <1>1, <1>3, <2>2 DEF ClientInv, TokensInv, Known
  <2>5. mixed \/ Backed(rows[id].evidence, rows[id].gen, seen[c])
    BY <1>1, <2>4 DEF ClientInv, BackedInv, Trusted
  <2>6. rows[id].evidence \in SUBSET Evidence /\ Cardinality(rows[id].evidence) <= MaxPerReceipt
    BY <1>1, <2>2 DEF StoreInv, QuotasKept, Row
  <2>7. IsFiniteSet(rows[id].evidence) /\ Cardinality(rows[id].evidence) \in Nat
    BY <2>6, EvidenceFinite, FS_Subset, FS_CardinalityType
  <2> QED BY <1>3, <2>1, <2>2, <2>3, <2>4, <2>5, <2>6, <2>7
<1> QED BY <1>2, <1>3

\* What a response shows has its type.
LEMMA ShownType ==
    ASSUME IInv, NEW c \in Clients, NEW overlap \in BOOLEAN
    PROVE  ShownBy(c, overlap) \in SUBSET Shown
<1>1. call[c] \in Call BY IInvParts DEF ClientTypes
<1>2. call[c].gen \in Generations /\ \A i \in Returned(c, overlap) : i \in Item
  BY <1>1 DEF Call, Returned
<1> QED BY <1>2 DEF ShownBy, Shown, Item

\* The source is returned as it is.
LEMMA ReuseInv ==
    ASSUME IInv, NEW c \in Clients, NEW now \in Times, NEW overlap \in BOOLEAN,
           Reuse(c, now, overlap)
    PROVE  IInv' /\ RowsKept
<1> DEFINE t == call[c].token
<1>1. StoreInv' /\ RowsKept BY IInvParts, LivePart, ShrinkStep DEF Reuse, history
<1>2. t \in held[c] /\ Accepted(c, now) BY AcceptedSource DEF Reuse
<1>3. /\ \A u \in held[c] : /\ Issued(u)'
                            /\ Trusted(u)' => Backed(rows'[u.id].evidence, rows'[u.id].gen, seen[c])
      /\ t \in Token
  BY <1>1, <1>2, HeldKept
<1>4. PICK u \in Token : u = t BY <1>3
<1>5. Trusted(u)' => Backed(rows'[u.id].evidence, rows'[u.id].gen, seen[c] \cup ShownBy(c, overlap))
  BY <1>2, <1>3, <1>4 DEF Backed
<1>6. Issued(u)' BY <1>2, <1>3, <1>4
<1>7. Reply(c, u, ShownBy(c, overlap)) /\ UNCHANGED <<index, history, events, held, seen>>
  BY <1>4 DEF Reuse
<1> QED BY <1>1, <1>5, <1>6, <1>7, ShownType, ReplyInv

\* Items stored as evidence are not more than the items.
LEMMA AppendSize ==
    ASSUME NEW items \in SUBSET Item
    PROVE  LET stored == {[place |-> i.place, text |-> i.text, exact |-> FALSE] : i \in items}
           IN  /\ stored \in SUBSET Evidence
               /\ IsFiniteSet(stored) /\ IsFiniteSet(items)
               /\ Cardinality(stored) <= Cardinality(items)
               /\ Cardinality(stored) \in Nat /\ Cardinality(items) \in Nat
<1> DEFINE stored == {[place |-> i.place, text |-> i.text, exact |-> FALSE] : i \in items}
           f == [i \in items |-> [place |-> i.place, text |-> i.text, exact |-> FALSE]]
           g == [e \in Evidence |-> ItemOf(e)]
<1>1. g \in Surjection(Evidence, Item)
  <2>1. g \in [Evidence -> Item] BY DEF Evidence, Item, ItemOf
  <2>2. ASSUME NEW i \in Item PROVE \E e \in Evidence : g[e] = i
    <3>1. [place |-> i.place, text |-> i.text, exact |-> FALSE] \in Evidence
      BY DEF Item, Evidence
    <3>2. g[[place |-> i.place, text |-> i.text, exact |-> FALSE]] = i
      BY <3>1 DEF Item, ItemOf
    <3> QED BY <3>1, <3>2
  <2> QED BY <2>1, <2>2 DEF Surjection
<1>2. f \in Surjection(items, stored) BY DEF Surjection
<1>3. stored \in SUBSET Evidence
  <2>1. \A i \in Item : [place |-> i.place, text |-> i.text, exact |-> FALSE] \in Evidence
    BY DEF Evidence, Item
  <2> QED BY <2>1
<1> HIDE DEF stored, f, g
<1>4. IsFiniteSet(items) /\ Cardinality(items) \in Nat
  BY <1>1, EvidenceFinite, FS_Surjection, FS_Subset, FS_CardinalityType
<1>5. IsFiniteSet(stored) /\ Cardinality(stored) <= Cardinality(items)
  BY <1>2, <1>4, FS_Surjection
<1>6. Cardinality(stored) \in Nat BY <1>5, FS_CardinalityType
<1> QED BY <1>3, <1>4, <1>5, <1>6 DEF stored

\* What may be appended stays within the limit of a receipt.
LEMMA AppendableBound ==
    ASSUME NEW c, NEW overlap, Cardinality(Returned(c, overlap)) \in Nat,
           Cardinality(Previous(c)) \in Nat
    PROVE  /\ Appendable(c, overlap) \in Int
           /\ Appendable(c, overlap) <= MaxPerReceipt - Cardinality(Previous(c))
<1> DEFINE a == Cardinality(Returned(c, overlap))
           b == MaxPerReceipt - Cardinality(Previous(c))
<1>1. a \in Int /\ b \in Int OBVIOUS
<1>2. Appendable(c, overlap) = Min({a, b}) BY DEF Appendable
<1> HIDE DEF a, b
<1>3. Min({a, b}) \in Int /\ Min({a, b}) <= b BY <1>1, MinPair
<1> QED BY <1>2, <1>3 DEF b

\* The successor that a response stores.
Successor(c, now, append) ==
    [gen |-> call[c].gen, created |-> now, expires |-> now + Ttl,
     evidence |-> Previous(c) \cup
       {[place |-> i.place, text |-> i.text, exact |-> FALSE] : i \in append}]

\* It is a row within the limits, and all its evidence has been shown.
LEMMA SuccessorRow ==
    ASSUME IInv, NEW c \in Clients, NEW now \in Times, NEW overlap \in BOOLEAN,
           Accepted(c, now), NEW append \in SUBSET Returned(c, overlap),
           Cardinality(append) <= Appendable(c, overlap)
    PROVE  /\ Successor(c, now, append) \in Row
           /\ Cardinality(Successor(c, now, append).evidence)
                <= Cardinality(Previous(c)) + Cardinality(append)
           /\ Cardinality(Successor(c, now, append).evidence) <= MaxPerReceipt
           /\ Cardinality(Previous(c)) + Cardinality(append) \in Nat
           /\ mixed \/ Backed(Successor(c, now, append).evidence, call[c].gen,
                              seen[c] \cup ShownBy(c, overlap))
<1> DEFINE new == {[place |-> i.place, text |-> i.text, exact |-> FALSE] : i \in append}
<1>1. /\ Previous(c) \in SUBSET Evidence /\ IsFiniteSet(Previous(c))
      /\ Cardinality(Previous(c)) \in Nat /\ Cardinality(Previous(c)) <= MaxPerReceipt
      /\ mixed \/ Backed(Previous(c), call[c].gen, seen[c])
  BY AcceptedSource
<1>2. call[c] \in Call /\ Returned(c, overlap) \in SUBSET Item /\ append \in SUBSET Item
  BY IInvParts DEF ClientTypes, Returned, Call
<1>3. /\ new \in SUBSET Evidence /\ IsFiniteSet(new) /\ Cardinality(new) \in Nat
      /\ Cardinality(append) \in Nat /\ Cardinality(new) <= Cardinality(append)
  BY <1>2, AppendSize
<1>4. Backed(new, call[c].gen, ShownBy(c, overlap))
  <2> SUFFICES ASSUME NEW i \in append
               PROVE  \E s \in ShownBy(c, overlap) :
                        s.text = i.text /\ s.place = i.place /\ s.gen = call[c].gen
    BY DEF Backed
  <2>1. [place |-> i.place, text |-> i.text, gen |-> call[c].gen] \in ShownBy(c, overlap)
    BY DEF ShownBy
  <2> QED BY <2>1
<1> HIDE DEF new
<1>5. /\ Cardinality(Previous(c) \cup new) \in Nat
      /\ Cardinality(Previous(c) \cup new) <= Cardinality(Previous(c)) + Cardinality(new)
  <2>1. /\ IsFiniteSet(Previous(c) \cup new)
        /\ Cardinality(Previous(c) \cup new)
             = Cardinality(Previous(c)) + Cardinality(new) - Cardinality(Previous(c) \cap new)
    BY <1>1, <1>3, FS_Union
  <2>2. Cardinality(Previous(c) \cap new) \in Nat /\ Cardinality(Previous(c) \cup new) \in Nat
    BY <1>1, <2>1, FS_Intersection, FS_CardinalityType
  <2> QED BY <1>1, <1>3, <2>1, <2>2
<1>6. Cardinality(append) <= MaxPerReceipt - Cardinality(Previous(c))
  <2>1. Cardinality(Returned(c, overlap)) \in Nat BY <1>2, AppendSize
  <2>2. /\ Appendable(c, overlap) \in Int
        /\ Appendable(c, overlap) <= MaxPerReceipt - Cardinality(Previous(c))
    BY <1>1, <2>1, AppendableBound
  <2> QED BY <1>1, <1>3, <2>2
<1>7. mixed \/ Backed(Previous(c) \cup new, call[c].gen, seen[c] \cup ShownBy(c, overlap))
  BY <1>1, <1>4 DEF Backed
<1>8. Successor(c, now, append) =
        [gen |-> call[c].gen, created |-> now, expires |-> now + Ttl, evidence |-> Previous(c) \cup new]
  BY DEF Successor, new
<1>9. Successor(c, now, append) \in Row
  <2>1. now + Ttl \in Nat /\ call[c].gen \in Generations BY <1>2 DEF Call
  <2> QED BY <1>1, <1>3, <1>8, <2>1 DEF Row
<1> QED BY <1>1, <1>3, <1>5, <1>6, <1>7, <1>8, <1>9

\* Evicting rows of a part leaves a part.
LEMMA Evicted ==
    ASSUME NEW r, NEW u, Part(r, u), NEW source, NEW k
    PROVE  /\ Part(Without(r, Oldest(AllBut(r, source), k)), Reduced(u, r, Oldest(AllBut(r, source), k)))
           /\ DOMAIN r \cap source \subseteq DOMAIN Without(r, Oldest(AllBut(r, source), k))
<1>1. /\ Oldest(AllBut(r, source), k) \in SUBSET DOMAIN r
      /\ Oldest(AllBut(r, source), k) \cap source = {}
  BY DEF Oldest, AllBut
<1> QED BY <1>1, PartWithout

\* What a successful evaluation that stores a successor does to the rows.
LEMMA SucceedStore ==
    ASSUME IInv, NEW c \in Clients, NEW now \in Times, NEW overlap \in BOOLEAN,
           NEW append \in SUBSET Returned(c, overlap), NEW k,
           Accepted(c, now), Succeed(c, now, overlap, append, k)
    PROVE  /\ StoreInv' /\ RowsKept
           /\ nextRow \in DOMAIN rows' /\ rows'[nextRow] = Successor(c, now, append)
           /\ \A id \in Source(c) : id \in DOMAIN rows /\ id \in DOMAIN rows' /\ rows'[id] = rows[id]
           /\ [ns |-> namespace, id |-> nextRow] \in Token
           /\ \A t \in Token : t = [ns |-> namespace, id |-> nextRow] => Issued(t)'
           /\ Cardinality(append) <= Appendable(c, overlap)
<1> DEFINE live == Live(now)
           gone == Oldest(AllBut(live, Source(c)), k)
           left == Reduced(LiveUsage(now), live, gone)
           n == Cardinality(Previous(c)) + Cardinality(append)
<1>1. StoreInv /\ Part(live, LiveUsage(now)) /\ DOMAIN live \subseteq DOMAIN rows
  BY IInvParts, LivePart DEF Part
<1>2. Part(Without(live, gone), left) /\ DOMAIN live \cap Source(c) \subseteq DOMAIN Without(live, gone)
  BY <1>1, Evicted
<1>3. /\ Cardinality(append) = Appendable(c, overlap) \/ Cardinality(append) < Appendable(c, overlap)
      /\ Fits(left, n)
      /\ Insert(Without(live, gone), left, Successor(c, now, append))
      /\ UNCHANGED <<namespaces, mixed>>
  BY DEF Succeed, MakesRoom, Successor, history
<1>4. Cardinality(append) <= Appendable(c, overlap)
  <2>1. append \in SUBSET Item /\ Returned(c, overlap) \in SUBSET Item
    BY IInvParts DEF ClientTypes, Returned, Call
  <2>2. Cardinality(append) \in Nat /\ Cardinality(Returned(c, overlap)) \in Nat
    BY <2>1, AppendSize
  <2>3. Cardinality(Previous(c)) \in Nat BY AcceptedSource
  <2>4. Appendable(c, overlap) \in Int BY <2>2, <2>3, AppendableBound
  <2> QED BY <1>3, <2>2, <2>4
<1>5. /\ Successor(c, now, append) \in Row
      /\ Cardinality(Successor(c, now, append).evidence) <= n
      /\ Cardinality(Successor(c, now, append).evidence) <= MaxPerReceipt
      /\ n \in Nat
  BY <1>4, SuccessorRow
<1>6. Source(c) \subseteq DOMAIN live BY AcceptedSource
<1> HIDE DEF live, gone, left, n
<1> QED BY <1>1, <1>2, <1>3, <1>4, <1>5, <1>6, InsertStep

\* The successor is backed by what was shown and what the response shows.
LEMMA SucceedInv ==
    ASSUME IInv, NEW c \in Clients, NEW now \in Times, NEW overlap \in BOOLEAN,
           NEW append \in SUBSET Returned(c, overlap), NEW k,
           Accepted(c, now), Succeed(c, now, overlap, append, k)
    PROVE  IInv' /\ RowsKept
<1>1. /\ StoreInv' /\ RowsKept
      /\ rows'[nextRow] = Successor(c, now, append)
      /\ Cardinality(append) <= Appendable(c, overlap)
  BY SucceedStore
<1>2. PICK t \in Token : t = [ns |-> namespace, id |-> nextRow] BY SucceedStore
<1>3. Issued(t)' BY <1>2, SucceedStore
<1>4. mixed \/ Backed(Successor(c, now, append).evidence, call[c].gen, seen[c] \cup ShownBy(c, overlap))
  BY <1>1, SuccessorRow
<1>5. /\ t.id = nextRow /\ Successor(c, now, append).gen = call[c].gen
  BY <1>2 DEF Successor
<1>6. Trusted(t)' => Backed(rows'[t.id].evidence, rows'[t.id].gen, seen[c] \cup ShownBy(c, overlap))
  <2>1. mixed' = mixed BY DEF Succeed, history
  <2> QED BY <1>1, <1>4, <1>5, <2>1 DEF Trusted
<1>7. Reply(c, t, ShownBy(c, overlap)) /\ UNCHANGED <<index, history, events, held, seen>>
  BY <1>2 DEF Succeed
<1> QED BY <1>1, <1>3, <1>6, <1>7, ShownType, ReplyInv

\* Every outcome of evaluate_receipt keeps the invariant.
LEMMA EvaluateInv ==
    ASSUME IInv, NEW c \in Clients, NEW now \in Times, NEW overlap \in BOOLEAN,
           Evaluate(c, now, overlap)
    PROVE  IInv' /\ RowsKept
<1>1. CASE Refuse(c, now) BY <1>1, RefuseInv
<1>2. CASE Reuse(c, now, overlap) BY <1>2, ReuseInv
<1>3. CASE /\ Accepted(c, now)
           /\ \E append \in SUBSET Returned(c, overlap), k \in 0..Cardinality(DOMAIN rows) :
                Succeed(c, now, overlap, append, k)
  BY <1>3, SucceedInv
<1> QED BY <1>1, <1>2, <1>3 DEF Evaluate

\* A rebase loads its source.
LEMMA LoadInv ==
    ASSUME IInv, NEW c \in Clients, NEW t \in held[c], NEW now \in Times, Load(c, t, now)
    PROVE  IInv' /\ RowsKept
<1> DEFINE x == [Idle EXCEPT !.pc = "classify", !.token = t,
                   !.source = rows[t.id].evidence, !.sourceGen = rows[t.id].gen]
<1>1. StoreInv' /\ RowsKept BY IInvParts, SameStore DEF Load, history
<1>2. /\ StoreInv /\ ClientTypes /\ ClientInv(c) /\ Known(rows, t) /\ t \in Token
  BY IInvParts DEF ClientTypes, Load, Valid
<1>3. /\ rows[t.id] \in Row /\ Cardinality(rows[t.id].evidence) <= MaxPerReceipt
      /\ mixed \/ Backed(rows[t.id].evidence, rows[t.id].gen, seen[c])
  BY <1>2 DEF StoreInv, QuotasKept, Known, ClientInv, BackedInv, Trusted
<1>4. /\ x \in Call /\ x.pc = "classify" /\ x.token = t /\ x.gen = 1
      /\ x.source = rows[t.id].evidence
  <2>1. rows[t.id].evidence \in SUBSET Evidence /\ rows[t.id].gen \in Generations
    BY <1>3 DEF Row
  <2> QED BY <1>2, <2>1, IdleCall DEF Idle, Call
<1>5. call' = [call EXCEPT ![c] = x] BY DEF Load
<1> HIDE DEF x
<1>6. /\ call'[c] = x /\ held' = held /\ seen' = seen /\ UNCHANGED <<index, history>> /\ mixed' = mixed
      /\ generation' = generation /\ generation \in Nat /\ 1 <= generation
      /\ events' \in events..MaxEvents
  BY <1>2, <1>5 DEF ClientTypes, Load, index, history, Generations
<1>7. TokensInv(c)' BY <1>1, <1>4, <1>6, HeldKept DEF TokensInv
<1>8. BackedInv(c)' BY <1>1, <1>3, <1>4, <1>6, HeldKept DEF BackedInv, Backed
<1>9. ClassifiedInv(c)' BY <1>3, <1>4, <1>6 DEF ClassifiedInv
<1> QED BY <1>1, <1>2, <1>4, <1>5, <1>6, <1>7, <1>8, <1>9, ClientStep DEF ClientInv, ClientTypes

\* A rebase classifies its evidence against one generation.
LEMMA ClassifyInv ==
    ASSUME IInv, NEW c \in Clients, NEW carried \in SUBSET call[c].source, Classify(c, carried)
    PROVE  IInv' /\ RowsKept
<1> DEFINE x == [call[c] EXCEPT !.pc = "persist", !.gen = generation,
                   !.items = {ItemOf(e) : e \in carried}]
<1>1. StoreInv' /\ RowsKept BY IInvParts, SameStore DEF Classify, history
<1>2. ClientTypes /\ ClientInv(c) /\ call[c] \in Call /\ call[c].pc = "classify"
  BY IInvParts DEF ClientTypes, Classify
<1>3. call' = [call EXCEPT ![c] = x] BY DEF Classify
<1>4. /\ x \in Call /\ x.pc = "persist" /\ x.token = call[c].token /\ x.gen = generation
      /\ x.source = call[c].source /\ x.items = {ItemOf(e) : e \in carried}
  <2>1. \A e \in Evidence : ItemOf(e) \in Item BY DEF Evidence, Item, ItemOf
  <2>2. {ItemOf(e) : e \in carried} \in SUBSET Item BY <1>2, <2>1 DEF Call
  <2>3. generation \in Generations BY <1>2 DEF ClientTypes
  <2> QED BY <1>2, <2>2, <2>3 DEF Call
<1> HIDE DEF x
<1>5. /\ call'[c] = x /\ held' = held /\ seen' = seen /\ UNCHANGED <<index, history>> /\ mixed' = mixed
      /\ generation' = generation /\ generation \in Nat /\ document' = document
      /\ events' \in events..MaxEvents
  BY <1>2, <1>3 DEF ClientTypes, Classify, index, history, Generations
<1>6. TokensInv(c)'
  <2>1. Issued(call[c].token) /\ call[c].token \in held[c] \cup {NoToken}
    BY <1>2 DEF ClientInv, TokensInv
  <2>2. call[c].token \in Token \cup {NoToken} BY <1>2 DEF Call
  <2> QED BY <1>1, <1>4, <1>5, <2>1, <2>2, HeldKept DEF TokensInv
<1>7. BackedInv(c)'
  BY <1>1, <1>2, <1>4, <1>5, HeldKept DEF BackedInv, ClientInv
<1>8. ClassifiedInv(c)'
  <2>1. \A e \in carried : document[ItemOf(e).place] = ItemOf(e).text
    BY DEF Classify, ItemOf
  <2> QED BY <1>2, <1>4, <1>5, <2>1 DEF ClassifiedInv, ClientInv
<1> QED BY <1>1, <1>2, <1>3, <1>4, <1>5, <1>6, <1>7, <1>8, ClientStep DEF ClientInv, ClientTypes

\* What a successful rebase does to the rows.
LEMMA PersistStore ==
    ASSUME IInv, NEW c \in Clients, NEW now \in Times, NEW k, Persist(c, now, k)
    PROVE  /\ StoreInv' /\ RowsKept
           /\ nextRow \in DOMAIN rows'
           /\ rows'[nextRow] = [gen |-> generation, created |-> now, expires |-> now + Ttl,
                               evidence |-> Carried(c)]
           /\ LET id == call[c].token.id
              IN  id \in DOMAIN rows /\ id \in DOMAIN rows' /\ rows'[id] = rows[id]
           /\ [ns |-> namespace, id |-> nextRow] \in Token
           /\ \A t \in Token : t = [ns |-> namespace, id |-> nextRow] => Issued(t)'
<1> DEFINE id == call[c].token.id
           stale == Expired(rows, now) \ {id}
           live == Without(rows, stale)
           use == Reduced(usage, rows, stale)
           gone == Oldest(AllBut(live, {id}), k)
           left == Reduced(use, live, gone)
           row == [gen |-> generation, created |-> now, expires |-> now + Ttl,
                   evidence |-> Carried(c)]
<1>1. /\ StoreInv /\ ClientInv(c) /\ ClientTypes /\ call[c] \in Call /\ call[c].pc = "persist"
      /\ id \in DOMAIN rows
  BY IInvParts DEF ClientTypes, Persist, Valid, Known
<1>2. stale \in SUBSET DOMAIN rows BY DEF Expired
<1>3. Part(live, use) /\ DOMAIN live = DOMAIN rows \ stale
  BY <1>1, <1>2, PartAll, PartWithout
<1>4. Part(Without(live, gone), left) /\ DOMAIN live \cap {id} \subseteq DOMAIN Without(live, gone)
  BY <1>3, Evicted
<1>5. id \in DOMAIN Without(live, gone) BY <1>1, <1>3, <1>4
<1>6. /\ Fits(left, Cardinality(Carried(c))) /\ Insert(Without(live, gone), left, row)
      /\ UNCHANGED <<namespaces, mixed>>
  BY DEF Persist, MakesRoom, history
<1>7. /\ Carried(c) \in SUBSET Evidence /\ Cardinality(Carried(c)) \in Nat
      /\ Cardinality(Carried(c)) <= MaxPerReceipt
  <2>1. /\ call[c].source \in SUBSET Evidence
        /\ call[c].items \subseteq {ItemOf(e) : e \in call[c].source}
        /\ Cardinality(call[c].source) <= MaxPerReceipt
    BY <1>1 DEF Call, ClientInv, ClassifiedInv
  <2>2. /\ Carried(c) \in SUBSET Evidence /\ Cardinality(Carried(c)) \in Nat
        /\ Cardinality(call[c].source) \in Nat
        /\ Cardinality(Carried(c)) <= Cardinality(call[c].source)
    BY <2>1, CarriedSize DEF Carried
  <2> QED BY <2>1, <2>2
<1>8. row \in Row /\ row.evidence = Carried(c)
  <2>1. now + Ttl \in Nat /\ generation \in Generations BY <1>1 DEF ClientTypes
  <2> QED BY <1>7, <2>1 DEF Row
<1>9. Cardinality(Carried(c)) <= Cardinality(Carried(c)) BY <1>7
<1> HIDE DEF stale, live, use, gone, left, row
<1>10. /\ StoreInv' /\ RowsKept
       /\ nextRow \in DOMAIN rows' /\ rows'[nextRow] = row
       /\ \A j \in DOMAIN Without(live, gone) : j \in DOMAIN rows' /\ rows'[j] = rows[j]
       /\ [ns |-> namespace, id |-> nextRow] \in Token
       /\ \A t \in Token : t = [ns |-> namespace, id |-> nextRow] => Issued(t)'
  BY <1>1, <1>4, <1>6, <1>7, <1>8, <1>9, InsertStep
<1> QED BY <1>1, <1>5, <1>10 DEF row

\* The rebased receipt is backed, by text only, by what was shown.
LEMMA PersistInv ==
    ASSUME IInv, NEW c \in Clients, NEW now \in Times, NEW k, Persist(c, now, k)
    PROVE  IInv' /\ RowsKept
<1>1. StoreInv' /\ RowsKept BY PersistStore
<1>2. PICK t \in Token : t = [ns |-> namespace, id |-> nextRow] BY PersistStore
<1>3. Issued(t)' BY <1>2, PersistStore
<1>4. t.id = nextRow /\ rows'[nextRow].evidence = Carried(c)
  <2>1. rows'[nextRow] = [gen |-> generation, created |-> now, expires |-> now + Ttl,
                          evidence |-> Carried(c)]
    BY PersistStore
  <2> QED BY <1>2, <2>1
<1>5. ASSUME ~mixed PROVE Backed(Carried(c), rows'[nextRow].gen, seen[c])
  <2>1. /\ call[c].items \subseteq {ItemOf(e) : e \in call[c].source}
        /\ \A e \in call[c].source : \E s \in seen[c] : s.text = e.text
    BY <1>5, IInvParts DEF ClientInv, BackedInv, ClassifiedInv, Persist
  <2>2. \A i \in call[c].items : \E s \in seen[c] : s.text = i.text
    BY <2>1 DEF ItemOf
  <2> QED BY <2>2 DEF Backed, Carried
<1>6. Trusted(t)' => Backed(rows'[t.id].evidence, rows'[t.id].gen, seen[c] \cup {})
  <2>1. mixed' = mixed BY DEF Persist, history
  <2> QED BY <1>4, <1>5, <2>1 DEF Trusted
<1>7. Reply(c, t, {}) /\ UNCHANGED <<index, history, events, held, seen>>
  BY <1>2 DEF Persist
<1> QED BY <1>1, <1>3, <1>6, <1>7, ReplyInv

\* The client gets the token together with what the response shows.
LEMMA DeliverInv ==
    ASSUME IInv, NEW c \in Clients, Deliver(c)
    PROVE  IInv' /\ RowsKept
<1>1. StoreInv' /\ RowsKept BY IInvParts, SameStore DEF Deliver, history
<1>2. /\ ClientTypes /\ ClientInv(c) /\ call[c] \in Call /\ call[c].pc = "reply"
      /\ call[c].token \in Token \cup {NoToken} /\ call[c].shown \in SUBSET Shown
  BY IInvParts DEF ClientTypes, Deliver, Call
<1>3. /\ call[c].token \in Token /\ Issued(call[c].token)
      /\ \A t \in held[c] : Issued(t)
  BY <1>2 DEF ClientInv, TokensInv
<1>4. /\ call' = [call EXCEPT ![c] = Idle] /\ call'[c] = Idle
      /\ held'[c] = held[c] \cup {call[c].token} /\ seen'[c] = seen[c] \cup call[c].shown
      /\ \A d \in Clients \ {c} : held'[d] = held[d] /\ seen'[d] = seen[d]
      /\ held' \in [Clients -> SUBSET Token] /\ seen' \in [Clients -> SUBSET Shown]
      /\ rows' = rows /\ namespace' = namespace /\ nextRow' = nextRow
      /\ UNCHANGED <<index, history>> /\ events' \in events..MaxEvents
      /\ mixed' = mixed /\ namespaces' = namespaces
  BY <1>2, <1>3 DEF Deliver, End, ClientTypes, store, history
<1>5. TokensInv(c)'
  <2>1. Issued(NoToken)' /\ \A t \in held'[c] : Issued(t)'
    BY <1>1, <1>3, <1>4, HeldKept DEF Issued
  <2> QED BY <1>4, <2>1, IdleCall DEF TokensInv
<1>6. BackedInv(c)'
  <2>1. ASSUME NEW t \in held'[c], Trusted(t)'
        PROVE  Backed(rows[t.id].evidence, rows[t.id].gen, seen'[c])
    <3>1. Trusted(t) BY <1>4, <2>1 DEF Trusted, Known
    <3>2. CASE t \in held[c]
      <4>1. Backed(rows[t.id].evidence, rows[t.id].gen, seen[c])
        BY <1>2, <3>1, <3>2 DEF ClientInv, BackedInv
      <4> QED BY <1>4, <4>1 DEF Backed
    <3>3. CASE t = call[c].token BY <1>2, <1>4, <3>1, <3>3 DEF ClientInv, BackedInv
    <3> QED BY <1>4, <3>2, <3>3
  <2> QED BY <1>4, <2>1, IdleCall DEF BackedInv
<1>7. ClassifiedInv(c)'
  <2>1. Cardinality(call'[c].source) <= MaxPerReceipt
    <3>1. call'[c].source = {} BY <1>4, IdleCall
    <3> QED BY <3>1, IdleCall
  <2> QED BY <1>4, <2>1, IdleCall DEF ClassifiedInv
<1> QED BY <1>1, <1>4, <1>5, <1>6, <1>7, IdleCall, ClientStep DEF ClientInv

\* Publish and Copy leave the clients alone.
LEMMA PublishInv ==
    ASSUME IInv, Publish
    PROVE  IInv' /\ RowsKept
<1>1. StoreInv' /\ RowsKept BY IInvParts, SameStore DEF Publish, history
<1>2. /\ ClientTypes /\ HistoryInv /\ call' = call /\ held' = held /\ seen' = seen
      /\ events' = events + 1 /\ events' \in 0..MaxEvents /\ events \in Nat
      /\ generation' = generation + 1 /\ generation \in 1..(events + 1)
      /\ document' \in [Places -> Texts]
      /\ UNCHANGED <<namespaces, copies, mixed>>
  BY IInvParts DEF Publish, ClientTypes, HistoryInv, history
<1>3. ClientTypes' BY <1>2 DEF ClientTypes, Generations
<1>4. HistoryInv'
  <2>1. ASSUME NEW f \in copies PROVE File(f)' BY <1>2 DEF HistoryInv, File
  <2> QED BY <1>2, <2>1 DEF HistoryInv, CopiesInv
<1>5. ASSUME NEW c \in Clients PROVE ClientInv(c)'
  <2>1. ClientInv(c) /\ call[c].token \in Token \cup {NoToken} /\ call[c].gen \in Nat
    BY <1>2, IInvParts DEF ClientTypes, Call, Generations
  <2>2. TokensInv(c)' BY <1>1, <1>2, <2>1, HeldKept DEF ClientInv, TokensInv
  <2>3. BackedInv(c)'
    BY <1>2, <2>1 DEF ClientInv, BackedInv, Publish, store, Trusted, Known
  <2>4. ClassifiedInv(c)' BY <1>2, <2>1 DEF ClientInv, ClassifiedInv
  <2> QED BY <2>2, <2>3, <2>4 DEF ClientInv
<1> QED BY <1>1, <1>3, <1>4, <1>5, IInvPartsNext

\* The copy has the type and keeps the quotas of the file.
LEMMA CopyInv ==
    ASSUME IInv, Copy
    PROVE  IInv' /\ RowsKept
<1> PICK g : g = [namespace |-> namespace, nextRow |-> nextRow, rows |-> rows,
                  generation |-> generation, document |-> document]
  OBVIOUS
<1>1. StoreInv' /\ RowsKept BY IInvParts, SameStore DEF Copy
<1>2. /\ StoreInv /\ ClientTypes /\ HistoryInv /\ copies' = copies \cup {g}
      /\ events' = events + 1 /\ events \in Nat /\ events' \in 0..MaxEvents
      /\ UNCHANGED <<index, namespaces, mixed, call, held, seen>>
      /\ UNCHANGED <<generation, document>>
  BY IInvParts DEF Copy, ClientTypes, index
<1>3. ASSUME NEW f \in copies PROVE File(f)' BY <1>2 DEF HistoryInv, File
<1>4. File(g)'
  <2>1. /\ g.generation \in 1..(events + 1) /\ g.document \in [Places -> Texts]
        /\ g.namespace \in 1..namespaces /\ g.nextRow \in 1..(MaxRows + 1)
        /\ DOMAIN g.rows \subseteq 1..(g.nextRow - 1)
        /\ \A id \in DOMAIN g.rows : g.rows[id] \in Row
    BY <1>2 DEF StoreInv, ClientTypes, HistoryInv
  <2>2. g.generation \in 1..(events' + 1) BY <1>2, <2>1
  <2> QED BY <1>2, <2>1, <2>2 DEF File
<1>5. /\ Counted(g.rows).receipts <= MaxReceipts /\ Counted(g.rows).evidence <= MaxTotal
      /\ \A id \in DOMAIN g.rows : Cardinality(g.rows[id].evidence) <= MaxPerReceipt
  BY <1>2 DEF StoreInv, QuotasKept
<1>6. HistoryInv'
  <2>1. generation' \in 1..(events' + 1) /\ namespaces' \in 1..(events' + 1)
    BY <1>2 DEF HistoryInv
  <2>2. \A f \in copies' : File(f)' BY <1>2, <1>3, <1>4
  <2>3. CopiesInv' BY <1>2, <1>5 DEF HistoryInv, CopiesInv
  <2> QED BY <1>2, <2>1, <2>2, <2>3 DEF HistoryInv
<1>7. ClientTypes' BY <1>2 DEF ClientTypes
<1>8. \A c \in Clients : ClientInv(c)' BY <1>1, <1>2, OtherClient
<1> QED BY <1>1, <1>6, <1>7, <1>8, IInvPartsNext

\* After a copy was opened no token that is held is known, or none is trusted.
LEMMA RestoreInv ==
    ASSUME IInv, NEW f \in copies, NEW same \in BOOLEAN, Restore(f, same)
    PROVE  IInv' /\ RowsKept
<1>1. StoreInv' /\ RowsKept BY RestoreStep
<1>2. /\ StoreInv /\ ClientTypes /\ HistoryInv /\ File(f)
      /\ events' = events + 1 /\ events \in Nat /\ events' \in 0..MaxEvents
      /\ generation' = f.generation /\ document' = f.document
      /\ UNCHANGED <<copies, held, seen>> /\ mixed' = same
      /\ call' = [c \in Clients |-> IF call[c].pc = "reply" THEN call[c] ELSE Idle]
      /\ namespaces' \in {namespaces, namespaces + 1}
  BY IInvParts DEF Restore, Rotated, ClientTypes, HistoryInv
<1>3. HistoryInv'
  <2>1. namespaces \in Nat BY <1>2 DEF StoreInv
  <2>2. ASSUME NEW g \in copies PROVE File(g)' BY <1>2, <2>1 DEF HistoryInv, File
  <2>3. /\ generation' \in 1..(events' + 1) /\ namespaces' \in 1..(events' + 1)
    BY <1>2 DEF HistoryInv, File
  <2> QED BY <1>2, <2>2, <2>3 DEF HistoryInv, CopiesInv
<1>4. ClientTypes'
  <2>1. call' \in [Clients -> Call] BY <1>2, IdleCall DEF ClientTypes
  <2>2. generation' \in Generations /\ document' \in [Places -> Texts]
    BY <1>2 DEF File, Generations
  <2> QED BY <1>2, <2>1, <2>2 DEF ClientTypes
<1>5. ASSUME NEW c \in Clients PROVE ClientInv(c)'
  <2>1. /\ ClientInv(c) /\ call[c] \in Call /\ call[c].token \in Token \cup {NoToken}
        /\ held[c] \subseteq Token
    BY <1>2, IInvParts DEF ClientTypes, Call
  <2>2. \/ call'[c] = Idle
        \/ call'[c] = call[c] /\ call[c].pc = "reply"
    BY <1>2
  <2>3. TokensInv(c)' BY <1>1, <1>2, <2>1, <2>2, HeldKept, IdleCall DEF ClientInv, TokensInv
  <2>4. BackedInv(c)'
    <3>1. \A t \in held[c] : Trusted(t)' => Backed(rows'[t.id].evidence, rows'[t.id].gen, seen[c])
      BY <1>1, HeldKept
    <3>2. PICK u \in Token \cup {NoToken} : u = call[c].token BY <2>1
    <3>3. call[c].pc = "reply" /\ Trusted(u)' =>
            Backed(rows'[u.id].evidence, rows'[u.id].gen, seen[c] \cup call[c].shown)
      <4>1. Issued(u) BY <2>1, <3>2 DEF ClientInv, TokensInv
      <4>2. Trusted(u)' => Trusted(u) /\ rows'[u.id] = rows[u.id]
        BY <1>1, <4>1 DEF RowsKept
      <4> QED BY <2>1, <3>2, <4>2 DEF ClientInv, BackedInv
    <3>4. CASE call'[c] = Idle BY <1>2, <3>1, <3>4, IdleCall DEF BackedInv
    <3>5. CASE call'[c] = call[c] /\ call[c].pc = "reply"
      BY <1>2, <3>1, <3>2, <3>3, <3>5 DEF BackedInv
    <3> QED BY <2>2, <3>4, <3>5
  <2>5. ClassifiedInv(c)'
    <3>1. call'[c].pc # "persist" BY <2>2, IdleCall
    <3>2. CASE call'[c] = Idle
      <4>1. call'[c].source = {} BY <3>2, IdleCall
      <4> QED BY <3>1, <4>1, IdleCall DEF ClassifiedInv
    <3>3. CASE call'[c] = call[c] BY <2>1, <3>1, <3>3 DEF ClientInv, ClassifiedInv
    <3> QED BY <2>2, <3>2, <3>3
  <2> QED BY <2>3, <2>4, <2>5 DEF ClientInv
<1> QED BY <1>1, <1>3, <1>4, <1>5, IInvPartsNext

\* The transaction is rolled back or the response is lost.
LEMMA AbortInv ==
    ASSUME IInv, NEW c \in Clients, Abort(c)
    PROVE  IInv' /\ RowsKept
<1>1. StoreInv' /\ RowsKept BY IInvParts, SameStore DEF Abort, history
<1> QED BY <1>1, EndInv DEF Abort

\* A step that changes nothing.
LEMMA StutterInv ==
    ASSUME IInv, UNCHANGED vars
    PROVE  IInv' /\ RowsKept
<1>1. StoreInv' /\ RowsKept BY IInvParts, SameStore DEF vars, history
<1>2. /\ UNCHANGED <<index, history, events, call, held, seen>> BY DEF vars
<1>3. \A c \in Clients : ClientInv(c)' BY <1>1, <1>2, OtherClient DEF history
<1>4. ClientTypes' /\ events' \in events..MaxEvents
  BY <1>2, IInvParts DEF ClientTypes, index
<1> QED BY <1>1, <1>2, <1>3, <1>4, SameHistory, IInvPartsNext

\* Every step keeps the invariant, and the rows of tokens given out.
LEMMA NextInv == IInv /\ [Next]_vars => IInv' /\ RowsKept
<1> SUFFICES ASSUME IInv, [Next]_vars PROVE IInv' /\ RowsKept OBVIOUS
<1>1. CASE Publish BY <1>1, PublishInv
<1>2. CASE Copy BY <1>2, CopyInv
<1>5. ASSUME NEW f \in copies, NEW same \in BOOLEAN, Restore(f, same)
      PROVE  IInv' /\ RowsKept
  BY <1>5, RestoreInv
<1>3. ASSUME NEW c \in Clients, Step(c) PROVE IInv' /\ RowsKept
  <2>1. CASE \E t \in held[c] \cup {NoToken}, places \in SUBSET Places \ {{}} :
               Read(c, t, places)
    BY <2>1, ReadInv
  <2>2. CASE \E now \in Times, overlap \in BOOLEAN : Evaluate(c, now, overlap)
    BY <2>2, EvaluateInv
  <2>3. CASE \E t \in held[c], now \in Times : Load(c, t, now) BY <2>3, LoadInv
  <2>4. CASE \E carried \in SUBSET call[c].source : Classify(c, carried)
    BY <2>4, ClassifyInv
  <2>5. CASE \E now \in Times, k \in 0..Cardinality(DOMAIN rows) : Persist(c, now, k)
    BY <2>5, PersistInv
  <2>6. CASE Deliver(c) BY <2>6, DeliverInv
  <2>7. CASE Abort(c) BY <2>7, AbortInv
  <2> QED BY <1>3, <2>1, <2>2, <2>3, <2>4, <2>5, <2>6, <2>7 DEF Step
<1>4. CASE UNCHANGED vars BY <1>4, StutterInv
<1> QED BY <1>1, <1>2, <1>3, <1>4, <1>5 DEF Next

\* The invariant holds of every state.
LEMMA Invariance == Spec => []IInv
BY InitInv, NextInv, PTL DEF Spec

-----------------------------------------------------------------------------
(* The theorems.                                                           *)

\* Every variable has its type, the counters never become negative, and a row
\* id that was used is not used again (TypeOK).
THEOREM TypeCorrect == Spec => []TypeOK
BY Invariance, PTL DEF IInv

\* Receipts, evidence and the evidence of one receipt stay within their quotas,
\* and the counters kept by the triggers are those of the rows (QuotasKept).
THEOREM QuotasAreKept == Spec => []QuotasKept
BY Invariance, PTL DEF IInv

\* A step of one client leaves the requests of the others alone.
LEMMA OwnCall ==
    ASSUME IInv, NEW d \in Clients, Step(d), NEW c \in Clients, c # d
    PROVE  call'[c] = call[c]
<1>1. call \in [Clients -> Call] BY IInvParts DEF ClientTypes
<1>2. ASSUME NEW x, call' = [call EXCEPT ![d] = x] PROVE call'[c] = call[c]
  BY <1>1, <1>2
<1>3. CASE End(d) BY <1>2, <1>3 DEF End
<1>4. ASSUME NEW t, NEW shown, Reply(d, t, shown) PROVE call'[c] = call[c]
  BY <1>2, <1>4 DEF Reply
<1>5. CASE Deliver(d) \/ Abort(d) BY <1>3, <1>5 DEF Deliver, Abort
<1>6. ASSUME NEW t, NEW places, Read(d, t, places) PROVE call'[c] = call[c]
  BY <1>2, <1>6 DEF Read
<1>7. ASSUME NEW t, NEW now, Load(d, t, now) PROVE call'[c] = call[c]
  BY <1>2, <1>7 DEF Load
<1>8. ASSUME NEW carried, Classify(d, carried) PROVE call'[c] = call[c]
  BY <1>1, <1>8 DEF Classify
<1>9. ASSUME NEW now, NEW k, Persist(d, now, k) PROVE call'[c] = call[c]
  BY <1>4, <1>9 DEF Persist
<1>10. ASSUME NEW now, NEW overlap, Evaluate(d, now, overlap) PROVE call'[c] = call[c]
  <2>1. CASE Refuse(d, now) BY <1>3, <2>1 DEF Refuse
  <2>2. CASE Reuse(d, now, overlap) BY <1>4, <2>2 DEF Reuse
  <2>3. ASSUME NEW append, NEW k, Succeed(d, now, overlap, append, k)
        PROVE  call'[c] = call[c]
    BY <1>4, <2>3 DEF Succeed
  <2> QED BY <1>10, <2>1, <2>2, <2>3 DEF Evaluate
<1> QED BY <1>5, <1>6, <1>7, <1>8, <1>9, <1>10 DEF Step

\* Only three steps make a response ready.
LEMMA WhoReplies ==
    ASSUME IInv, [Next]_vars, NEW c \in Clients, call[c].pc \in {"read", "persist"},
           call'[c].pc = "reply"
    PROVE  \/ \E now \in Times, overlap \in BOOLEAN : Reuse(c, now, overlap)
           \/ \E now \in Times, overlap \in BOOLEAN :
                /\ Accepted(c, now)
                /\ \E append \in SUBSET Returned(c, overlap), k \in 0..Cardinality(DOMAIN rows) :
                     Succeed(c, now, overlap, append, k)
           \/ \E now \in Times, k \in 0..Cardinality(DOMAIN rows) : Persist(c, now, k)
<1>1. call \in [Clients -> Call] BY IInvParts DEF ClientTypes
<1>2. call'[c] # call[c] OBVIOUS
<1>3. /\ ~Publish /\ ~Copy /\ ~UNCHANGED vars
      /\ ~(\E f \in copies, same \in BOOLEAN : Restore(f, same))
  BY <1>2, IdleCall DEF Publish, Copy, Restore, vars
<1>4. Step(c) BY <1>2, <1>3, OwnCall DEF Next
<1>5. ~End(c) BY <1>1, IdleCall DEF End
<1>6. /\ ~Deliver(c) /\ ~Abort(c) /\ \A now \in Times : ~Refuse(c, now)
      /\ \A t, places : ~Read(c, t, places)
      /\ \A t, now : ~Load(c, t, now)
      /\ \A carried : ~Classify(c, carried)
  BY <1>5 DEF Deliver, Abort, Refuse, Read, Load, Classify
<1> QED BY <1>4, <1>6 DEF Step, Evaluate

\* What the ready response has in it.
LEMMA ReplyIs ==
    ASSUME IInv, NEW c \in Clients, NEW t, NEW shown, Reply(c, t, shown)
    PROVE  call'[c].token = t /\ call'[c].shown = shown
<1>1. call \in [Clients -> Call] BY IInvParts DEF ClientTypes
<1>2. call'[c] = [Idle EXCEPT !.pc = "reply", !.token = t, !.shown = shown]
  BY <1>1 DEF Reply
<1> QED BY <1>2 DEF Idle

\* An item a response leaves out was shown to this client with the same text,
\* or overlaps what it was shown of the same generation; an undetected restored
\* copy excepted (WithheldWasShown).
THEOREM NothingIsWithheldUnseen == Spec => WithheldWasShown
<1> DEFINE A == ~mixed => \A c \in Clients : call[c].pc = "read" /\ call'[c].pc = "reply" =>
         \A i \in call[c].items :
            \/ \E s \in call'[c].shown : ItemOf(s) = i
            \/ \E s \in seen[c] : s.text = i.text
            \/ \E s \in seen[c] : s.gen = call[c].gen /\ <<s.place, i.place>> \in Overlap
<1>1. IInv /\ [Next]_vars => A
  <2> SUFFICES ASSUME IInv, [Next]_vars, ~mixed, NEW c \in Clients, call[c].pc = "read",
                      call'[c].pc = "reply", NEW i \in call[c].items
               PROVE  \/ \E s \in call'[c].shown : ItemOf(s) = i
                      \/ \E s \in seen[c] : s.text = i.text
                      \/ \E s \in seen[c] : s.gen = call[c].gen /\ <<s.place, i.place>> \in Overlap
    OBVIOUS
  <2>1. PICK now \in Times, overlap \in BOOLEAN :
          Accepted(c, now) /\ call'[c].shown = ShownBy(c, overlap)
    <3>1. ASSUME NEW now, NEW overlap, Reuse(c, now, overlap)
          PROVE  Accepted(c, now) /\ call'[c].shown = ShownBy(c, overlap)
      BY <3>1, ReplyIs DEF Reuse
    <3>2. ASSUME NEW now, NEW overlap, NEW append, NEW k, Succeed(c, now, overlap, append, k)
          PROVE  call'[c].shown = ShownBy(c, overlap)
      BY <3>2, ReplyIs DEF Succeed
    <3>3. \A now, k : ~Persist(c, now, k) BY DEF Persist
    <3> QED BY <3>1, <3>2, <3>3, WhoReplies
  <2>2. Backed(Previous(c), call[c].gen, seen[c]) BY <2>1, AcceptedSource
  <2>3. CASE i \in Returned(c, overlap)
    <3>1. [place |-> i.place, text |-> i.text, gen |-> call[c].gen] \in call'[c].shown
      BY <2>1, <2>3 DEF ShownBy
    <3>2. i \in Item BY IInvParts DEF ClientTypes, Call
    <3>3. ItemOf([place |-> i.place, text |-> i.text, gen |-> call[c].gen]) = i
      BY <3>2 DEF ItemOf, Item
    <3> QED BY <3>1, <3>3
  <2>4. CASE i \notin Returned(c, overlap)
    <3>1. Suppressed(Previous(c), i, overlap) BY <2>4 DEF Returned
    <3> QED BY <2>2, <3>1 DEF Suppressed, Backed
  <2> QED BY <2>3, <2>4
<1>2. IInv /\ [Next]_vars => [A]_vars BY <1>1
<1> QED BY <1>2, Invariance, PTL DEF Spec, WithheldWasShown

\* Neither eviction nor the successor touches the source of a request that
\* succeeds (SourceKept).
THEOREM SourcesAreKept == Spec => SourceKept
<1> DEFINE A == \A c \in Clients :
         /\ call[c].pc \in {"read", "persist"} /\ call'[c].pc = "reply"
         /\ call[c].token # NoToken
         => /\ call[c].token.id \in DOMAIN rows \cap DOMAIN rows'
            /\ rows'[call[c].token.id] = rows[call[c].token.id]
<1>1. IInv /\ [Next]_vars => A
  <2> SUFFICES ASSUME IInv, [Next]_vars, NEW c \in Clients,
                      call[c].pc \in {"read", "persist"}, call'[c].pc = "reply",
                      call[c].token # NoToken
               PROVE  /\ call[c].token.id \in DOMAIN rows \cap DOMAIN rows'
                      /\ rows'[call[c].token.id] = rows[call[c].token.id]
    OBVIOUS
  <2>1. Source(c) = {call[c].token.id} BY DEF Source
  <2>2. CASE \E now \in Times, overlap \in BOOLEAN : Reuse(c, now, overlap)
    <3>1. PICK now \in Times : Accepted(c, now) /\ rows' = Live(now) BY <2>2 DEF Reuse
    <3>2. Part(Live(now), LiveUsage(now)) BY IInvParts, LivePart
    <3>3. call[c].token.id \in DOMAIN Live(now) BY <2>1, <3>1, AcceptedSource
    <3> QED BY <3>1, <3>2, <3>3 DEF Part
  <2>3. CASE \E now \in Times, overlap \in BOOLEAN :
               /\ Accepted(c, now)
               /\ \E append \in SUBSET Returned(c, overlap), k \in 0..Cardinality(DOMAIN rows) :
                    Succeed(c, now, overlap, append, k)
    BY <2>1, <2>3, SucceedStore
  <2>4. CASE \E now \in Times, k \in 0..Cardinality(DOMAIN rows) : Persist(c, now, k)
    BY <2>4, PersistStore
  <2> QED BY <2>2, <2>3, <2>4, WhoReplies
<1>2. IInv /\ [Next]_vars => [A]_vars BY <1>1
<1> QED BY <1>2, Invariance, PTL DEF Spec, SourceKept

\* A rebased receipt lists what the current generation holds, although other
\* processes may publish after the classification (CarriedIsCurrent).
THEOREM RebasedIsCurrent == Spec => CarriedIsCurrent
<1> DEFINE A == \A c \in Clients : call[c].pc = "persist" /\ call'[c].pc = "reply" =>
         \A e \in rows'[call'[c].token.id].evidence : document[e.place] = e.text
<1>1. IInv /\ [Next]_vars => A
  <2> SUFFICES ASSUME IInv, [Next]_vars, NEW c \in Clients, call[c].pc = "persist",
                      call'[c].pc = "reply"
               PROVE  \A e \in rows'[call'[c].token.id].evidence : document[e.place] = e.text
    OBVIOUS
  <2>1. PICK now \in Times, k \in 0..Cardinality(DOMAIN rows) : Persist(c, now, k)
    BY WhoReplies DEF Reuse, Accepted
  <2>2. call'[c].token = [ns |-> namespace, id |-> nextRow] BY <2>1, ReplyIs DEF Persist
  <2>3. rows'[call'[c].token.id].evidence = Carried(c)
    <3>1. rows'[nextRow] = [gen |-> generation, created |-> now, expires |-> now + Ttl,
                            evidence |-> Carried(c)]
      BY <2>1, PersistStore
    <3> QED BY <2>2, <3>1
  <2>4. \A i \in call[c].items : document[i.place] = i.text
    BY <2>1, IInvParts DEF Persist, StillClassified, ClientInv, ClassifiedInv
  <2> QED BY <2>3, <2>4 DEF Carried
<1>2. IInv /\ [Next]_vars => [A]_vars BY <1>1
<1> QED BY <1>2, Invariance, PTL DEF Spec, CarriedIsCurrent

\* A token that became unknown never names another receipt, in this file or in
\* a restored copy whose identity shows that it is one (UnknownForGood).
THEOREM UnknownStaysUnknown == Spec => UnknownForGood
<1> DEFINE A == ~mixed' => \A c \in Clients : \A t \in held[c] :
                   ~Known(rows, t) => ~(Known(rows, t))'
<1>1. IInv /\ [Next]_vars => A
  <2> SUFFICES ASSUME IInv, [Next]_vars PROVE A OBVIOUS
  <2>1. RowsKept BY NextInv
  <2>2. \A c \in Clients : \A t \in held[c] : t \in Token /\ Issued(t)
    BY IInvParts DEF ClientTypes, ClientInv, TokensInv
  <2> QED BY <2>1, <2>2 DEF RowsKept, Trusted
<1>2. IInv /\ [Next]_vars => [A]_vars BY <1>1
<1> QED BY <1>2, Invariance, NextInv, PTL DEF Spec, UnknownForGood
=============================================================================
