--------------------------- MODULE TransactionChains ---------------------------
(***************************************************************************)
(* What the blocks of a chain say of transactions, and that building a     *)
(* block, committing it and popping it keep that true: the lemmas that the *)
(* proofs about Transactions rest on.  No variable occurs in them.         *)
(***************************************************************************)
EXTENDS TransactionEffects, TLAPS

-----------------------------------------------------------------------------
(* What holds of databases, blocks and chains *)

\* Ids are sequences of the names in input ids and sender ids.
Name == {x[1] : x \in Input \cup Sid}
Id == {x \in Seq(Name) : Len(x) > 0}

\* A record with these fields, and a sequence, of whatever values
IsRecord(r, fields) == DOMAIN r = fields /\ r = [f \in fields |-> r[f]]
IsSequence(s) == s \in Seq({s[i] : i \in 1..Len(s)})

\* The generated transactions that account a pays for
PaidBy(generated, a) == {g \in generated : g.payer = a}

\* Generated transactions differ in their ids, and those that contracts have sent in
\* their sender ids.
Differ(g, h) == g.id # h.id /\ ~(g.sent /\ h.sent /\ g.sid = h.sid)

\* What is used of finite sets.  FiniteFactsHold, in TransactionsProofs, takes it from the
\* library, whose theorems need not be in sight of everything before.
FiniteFacts ==
    /\ IsFiniteSet({}) /\ Cardinality({}) = 0
    /\ \A x : Cardinality({x}) = 1
    /\ \A G : IsFiniteSet(G) => Cardinality(G) \in Nat
    /\ \A G : IsFiniteSet(G) => \A H \in SUBSET G : IsFiniteSet(H)
    /\ \A G, H, g : IsFiniteSet(G) /\ H = G \cup {g} => IsFiniteSet(H)
    /\ \A G, H, g : IsFiniteSet(G) /\ g \notin G /\ H = G \cup {g}
                      => Cardinality(H) = Cardinality(G) + 1

DbOK(db) ==
    /\ FiniteFacts
    /\ IsRecord(db, {"recorded", "generated", "ram", "correction", "replace_deferred"})
    /\ db.recorded \subseteq Input
    /\ IsFiniteSet(db.generated)
    /\ db.ram \in [Payer -> Nat] /\ db.correction \in [Payer -> Nat]
    /\ \A a \in Payer : db.ram[a] = Cardinality(PaidBy(db.generated, a)) + db.correction[a]
    /\ \A g \in db.generated : g.payer \in Payer /\ g.id \in Id
    /\ \A g, h \in db.generated : g = h \/ Differ(g, h)

\* Where an id comes from, given the input transactions that have been applied and
\* the scheduled ones that have been retired: a delayed input transaction is
\* scheduled under its own id, the id of what a contract generates begins with that
\* of the transaction in which it ran.
Ran(inputs, retired) == retired \cup {t \in inputs : Delay[t] = 0}
Origin(x, inputs, retired) ==
    \/ x \in inputs /\ Delay[x] > 0
    \/ \E y \in Ran(inputs, retired), s \in Sid : x = y \o s

\* What is yet to be retired has an id of its own.
OriginsOK(db, inputs, retired) ==
    /\ \A g \in db.generated : g.id \notin retired /\ Origin(g.id, inputs, retired)
    /\ \A x \in retired : x \in Id /\ Origin(x, inputs, retired)

\* The scheduled transactions that receipts retire, and the input transactions
RetiredIn(receipts) ==
    {receipts[k][2] : k \in {k \in 1..Len(receipts) : receipts[k][1] # "input"}}
InputsIn(receipts) ==
    {receipts[k][2] : k \in {k \in 1..Len(receipts) : receipts[k][1] = "input"}}

Kind == {"input", "executed", "soft_fail", "hard_fail", "expired"}
ReceiptsOK(receipts) ==
    /\ receipts \in Seq(Kind \X Id)
    /\ \A k, l \in 1..Len(receipts) : SameTransaction(receipts[k], receipts[l]) => k = l

\* A block on a chain that has applied and retired these before: nothing is applied
\* or retired twice, and all that was applied is recorded until it has expired.
BlockOK(b, inputs, retired) ==
    /\ b.time \in Nat \ {0} /\ b.metas \subseteq Input
    /\ DbOK(b.db)
    /\ ReceiptsOK(b.receipts) /\ InputsIn(b.receipts) = b.metas
    /\ inputs \cap b.metas = {} /\ retired \cap RetiredIn(b.receipts) = {}
    /\ \A t \in inputs \cup b.metas : t \in b.db.recorded \/ Expire[t] < b.time
    /\ OriginsOK(b.db, inputs \cup b.metas, retired \cup RetiredIn(b.receipts))

\* What the first j blocks of a chain have applied and retired
InputsTo(c, j) == UNION {c[i].metas : i \in 1..j}
RetiredTo(c, j) == UNION {RetiredIn(c[i].receipts) : i \in 1..j}

\* A block that may be the next of the chain
NextOK(c, b) ==
    /\ BlockOK(b, InputsTo(c, Len(c)), RetiredTo(c, Len(c)))
    /\ \A i \in 1..Len(c) : c[i].time < b.time

ChainOK(c) ==
    /\ IsSequence(c) /\ Len(c) > 0
    /\ \A j \in 1..Len(c) : BlockOK(c[j], InputsTo(c, j - 1), RetiredTo(c, j - 1))
    /\ \A i, j \in 1..Len(c) : i < j => c[i].time < c[j].time

\* The block that is being built, or none
IsPending(p) ==
    /\ IsRecord(p, {"time", "incomplete", "receipts", "metas", "db"})
    /\ p.incomplete \in BOOLEAN
PendingOK(c, p) == p = NoPending \/ (IsPending(p) /\ NextOK(c, p))

\* While the blocks of another fork are applied, those that were left can be put
\* back in their place.
Applied(left, more) == Len(left) + 1 - more
CanGoBack(c, left, more) ==
    /\ IsSequence(left) /\ more \in 1..(Len(left) + 1)
    /\ Applied(left, more) < Len(c)
    /\ ChainOK(SubSeq(c, 1, Len(c) - Applied(left, more)) \o left)

\* The ids that a transaction called x may give to what it sends, or schedules; whether a
\* database has none of these ids; whether it has no others than those of some objects
\* and these.
Sent(x) == {x \o s : s \in Sid}
Scheduled(t) == IF Delay[t] > 0 THEN {t} ELSE Sent(t)
Fresh(db, ids) == \A h \in db.generated : h.id \notin ids
Made(db, kept, ids) == \A h \in db.generated : h.id \in ids \/ \E o \in kept : h.id = o.id

-----------------------------------------------------------------------------
(* Ids *)

\* Input ids and sender ids have one name.
LEMMA ShortId ==
    ASSUME NEW x \in Input \cup Sid
    PROVE  x \in Seq(Name) /\ Len(x) = 1 /\ x \in Id
<1>1. PICK n \in Name : x = <<n>>
  BY IdAssumption DEF Name
<1>2. x \in Seq(Name) /\ Len(x) = 1
  BY <1>1
<1>3. Len(x) > 0
  BY <1>2
<1>. QED BY <1>2, <1>3, ZenonT(30) DEF Id

\* The length of a concatenation
LEMMA JoinedLength ==
    ASSUME NEW S, NEW x \in Seq(S), NEW y \in Seq(S)
    PROVE  Len(x \o y) = Len(x) + Len(y)
OBVIOUS

\* The id of what a contract generates
LEMMA JoinedId ==
    ASSUME NEW x \in Id, NEW s \in Sid
    PROVE  x \o s \in Id /\ Len(x \o s) = Len(x) + 1 /\ Len(x) \in Nat \ {0}
<1>1. x \in Seq(Name) /\ Len(x) > 0 /\ s \in Seq(Name) /\ Len(s) = 1
  BY ShortId DEF Id
<1>2. Len(x) \in Nat
  BY <1>1
<1>3. x \o s \in Seq(Name)
  BY <1>1
<1>4. Len(x \o s) = Len(x) + Len(s)
  BY <1>1, JoinedLength, ZenonT(30)
<1>. QED BY <1>1, <1>2, <1>3, <1>4 DEF Id

\* It tells which transaction generated it.
LEMMA JoinedOnce ==
    ASSUME NEW x \in Id, NEW y \in Id, NEW s \in Sid, NEW u \in Sid, x \o s = y \o u
    PROVE  x = y
<1>1. x \in Seq(Name) /\ y \in Seq(Name) /\ s \in Seq(Name) /\ u \in Seq(Name)
  BY ShortId DEF Id
<1>2. Len(x) = Len(y)
  <2>1. Len(x \o s) = Len(x) + 1 /\ Len(y \o u) = Len(y) + 1 /\ Len(x) \in Nat /\ Len(y) \in Nat
    BY JoinedId
  <2>. QED BY <2>1
<1>3. \A i \in 1..Len(x) : x[i] = y[i]
  <2>. TAKE i \in 1..Len(x)
  <2>1. (x \o s)[i] = x[i] /\ (y \o u)[i] = y[i]
    BY <1>1, <1>2
  <2>. QED BY <2>1
<1>. QED BY <1>1, <1>2, <1>3

\* An id that is two names long or more has been made by a transaction that ran, and one
\* of an input transaction belongs to a delayed one that was applied.
LEMMA OriginOf ==
    ASSUME NEW I \in SUBSET Input, NEW R \in SUBSET Id, NEW x, Origin(x, I, R)
    PROVE  /\ \A y \in Id, s \in Sid : x = y \o s => y \in Ran(I, R)
           /\ x \in Input => x \in I /\ Delay[x] > 0
<1>1. Ran(I, R) \subseteq Id
  BY ShortId DEF Ran
<1>2. CASE x \in I /\ Delay[x] > 0
  <2>1. Len(x) = 1
    BY <1>2, ShortId
  <2>2. \A y \in Id, s \in Sid : Len(y \o s) # 1
    BY JoinedId
  <2>. QED BY <1>2, <2>1, <2>2
<1>3. CASE \E y \in Ran(I, R), s \in Sid : x = y \o s
  <2>1. PICK y \in Ran(I, R), s \in Sid : x = y \o s
    BY <1>3
  <2>2. y \in Id
    BY <1>1
  <2>3. \A z \in Id, u \in Sid : x = z \o u => z = y
    BY <2>1, <2>2, JoinedOnce, ZenonT(30)
  <2>4. x \notin Input
    <3>1. Len(x) = Len(y) + 1 /\ Len(y) \in Nat \ {0}
      BY <2>1, <2>2, JoinedId
    <3>2. x \in Input => Len(x) = 1
      BY ShortId
    <3>. QED BY <3>1, <3>2
  <2>. QED BY <2>3, <2>4
<1>. QED BY <1>2, <1>3 DEF Origin

\* More may be applied and retired.
LEMMA OriginMore ==
    ASSUME NEW I, NEW R, NEW J, NEW Q, I \subseteq J, R \subseteq Q, NEW x, Origin(x, I, R)
    PROVE  Origin(x, J, Q)
BY DEF Origin, Ran

-----------------------------------------------------------------------------
(* The database *)

\* The set with one more element
LEMMA OneMore ==
    ASSUME FiniteFacts, NEW G, IsFiniteSet(G), NEW g
    PROVE  /\ IsFiniteSet(G \cup {g})
           /\ g \notin G => Cardinality(G \cup {g}) = Cardinality(G) + 1
BY ZenonT(30) DEF FiniteFacts

\* One more for the payer, the same for the others.
LEMMA PaidMore ==
    ASSUME FiniteFacts, NEW G, IsFiniteSet(G), NEW g, g \notin G, NEW a
    PROVE  /\ Cardinality(PaidBy(G, a)) \in Nat
           /\ Cardinality(PaidBy(G \cup {g}, a)) =
                  Cardinality(PaidBy(G, a)) + (IF g.payer = a THEN 1 ELSE 0)
<1>1. IsFiniteSet(PaidBy(G, a))
  BY DEF PaidBy, FiniteFacts
<1>2. Cardinality(PaidBy(G, a)) \in Nat
  BY <1>1 DEF FiniteFacts
<1>3. CASE g.payer = a
  <2>1. PaidBy(G \cup {g}, a) = PaidBy(G, a) \cup {g} /\ g \notin PaidBy(G, a)
    BY <1>3 DEF PaidBy
  <2>. HIDE DEF PaidBy
  <2>2. Cardinality(PaidBy(G, a) \cup {g}) = Cardinality(PaidBy(G, a)) + 1
    BY <1>1, <2>1, OneMore
  <2>. QED BY <1>2, <1>3, <2>1, <2>2
<1>4. CASE g.payer # a
  <2>1. PaidBy(G \cup {g}, a) = PaidBy(G, a)
    BY <1>4 DEF PaidBy
  <2>. QED BY <1>2, <1>4, <2>1
<1>. QED BY <1>3, <1>4

\* One less when one goes.
LEMMA PaidLess ==
    ASSUME FiniteFacts, NEW G, IsFiniteSet(G), NEW g \in G, NEW a
    PROVE  /\ Cardinality(PaidBy(G \ {g}, a)) \in Nat
           /\ Cardinality(PaidBy(G, a)) =
                  Cardinality(PaidBy(G \ {g}, a)) + (IF g.payer = a THEN 1 ELSE 0)
<1>. DEFINE H == G \ {g}
<1>1. IsFiniteSet(H) /\ H \cup {g} = G /\ g \notin H
  BY DEF FiniteFacts
<1>. HIDE DEF H
<1>2. /\ Cardinality(PaidBy(H, a)) \in Nat
      /\ Cardinality(PaidBy(H \cup {g}, a)) =
             Cardinality(PaidBy(H, a)) + (IF g.payer = a THEN 1 ELSE 0)
  BY <1>1, PaidMore
<1>. QED BY <1>1, <1>2 DEF H

\* db.create in schedule_deferred_transaction and schedule_transaction: an object under
\* a new key, and RAM for it.
LEMMA StoreOK ==
    ASSUME NEW db, DbOK(db), NEW g, g.payer \in Payer, g.id \in Id,
           \A h \in db.generated : Differ(g, h) /\ Differ(h, g)
    PROVE  /\ DbOK(Store(db, g))
           /\ Store(db, g).recorded = db.recorded
           /\ Store(db, g).generated = db.generated \cup {g}
<1>. DEFINE d == Store(db, g)
<1>0. IsRecord(d, {"recorded", "generated", "ram", "correction", "replace_deferred"})
  BY ZenonT(30) DEF DbOK, IsRecord, Store
<1>1. /\ d.recorded = db.recorded /\ d.generated = db.generated \cup {g}
      /\ d.ram = [db.ram EXCEPT ![g.payer] = @ + 1] /\ d.correction = db.correction
  BY DEF DbOK, IsRecord, Store
<1>. HIDE DEF d
<1>2. g \notin db.generated
  BY DEF Differ
<1>3. IsFiniteSet(d.generated)
  <2>1. FiniteFacts /\ IsFiniteSet(db.generated)
    BY DEF DbOK
  <2>2. IsFiniteSet(db.generated \cup {g})
    BY <2>1, OneMore
  <2>. QED BY <1>1, <2>2
<1>4. d.ram \in [Payer -> Nat]
  BY <1>1 DEF DbOK
<1>5. ASSUME NEW a \in Payer
      PROVE  d.ram[a] = Cardinality(PaidBy(d.generated, a)) + d.correction[a]
  <2>1. /\ Cardinality(PaidBy(db.generated, a)) \in Nat
        /\ Cardinality(PaidBy(db.generated \cup {g}, a)) =
               Cardinality(PaidBy(db.generated, a)) + (IF g.payer = a THEN 1 ELSE 0)
    BY <1>2, PaidMore DEF DbOK
  <2>2. d.ram[a] = db.ram[a] + (IF g.payer = a THEN 1 ELSE 0)
    BY <1>1 DEF DbOK
  <2>3. db.ram[a] = Cardinality(PaidBy(db.generated, a)) + db.correction[a]
        /\ db.correction[a] \in Nat
    BY DEF DbOK
  <2>. QED BY <1>1, <2>1, <2>2, <2>3
<1>6. \A x, y \in d.generated : x = y \/ Differ(x, y)
  BY <1>1 DEF DbOK
<1>. QED BY <1>0, <1>1, <1>3, <1>4, <1>5, <1>6 DEF DbOK, d

\* remove_scheduled_transaction gives the RAM back.
LEMMA RemoveOK ==
    ASSUME NEW db, DbOK(db), NEW g \in db.generated
    PROVE  /\ DbOK(RemoveScheduled(db, g))
           /\ RemoveScheduled(db, g).recorded = db.recorded
           /\ RemoveScheduled(db, g).generated = db.generated \ {g}
<1>. DEFINE d == RemoveScheduled(db, g)
<1>0. IsRecord(d, {"recorded", "generated", "ram", "correction", "replace_deferred"})
  BY ZenonT(30) DEF DbOK, IsRecord, RemoveScheduled
<1>1. /\ d.recorded = db.recorded /\ d.generated = db.generated \ {g}
      /\ d.ram = [db.ram EXCEPT ![g.payer] = @ - 1] /\ d.correction = db.correction
  BY DEF DbOK, IsRecord, RemoveScheduled
<1>. HIDE DEF d
<1>2. IsFiniteSet(d.generated)
  BY <1>1 DEF DbOK, FiniteFacts
<1>3. ASSUME NEW a \in Payer
      PROVE  /\ d.ram[a] = Cardinality(PaidBy(d.generated, a)) + d.correction[a]
             /\ d.ram[a] \in Nat
  <2>1. /\ Cardinality(PaidBy(db.generated \ {g}, a)) \in Nat
        /\ Cardinality(PaidBy(db.generated, a)) =
               Cardinality(PaidBy(db.generated \ {g}, a)) + (IF g.payer = a THEN 1 ELSE 0)
    BY PaidLess DEF DbOK
  <2>2. d.ram[a] = IF g.payer = a THEN db.ram[a] - 1 ELSE db.ram[a]
    BY <1>1 DEF DbOK
  <2>3. db.ram[a] = Cardinality(PaidBy(db.generated, a)) + db.correction[a]
        /\ db.correction[a] \in Nat
    BY DEF DbOK
  <2>. QED BY <1>1, <2>1, <2>2, <2>3
<1>4. d.ram \in [Payer -> Nat]
  <2>1. DOMAIN d.ram = Payer /\ d.ram = [a \in Payer |-> d.ram[a]]
    BY <1>1 DEF DbOK
  <2>. QED BY <1>3, <2>1
<1>5. \A x, y \in d.generated : x = y \/ Differ(x, y)
  BY <1>1 DEF DbOK
<1>. QED BY <1>0, <1>1, <1>2, <1>3, <1>4, <1>5 DEF DbOK, d

\* An object whose RAM is only noted down as to be corrected
Noted(db, old) == [db EXCEPT !.generated = @ \ {old}, !.correction[old.payer] = @ + 1]

\* The replacement before replace_deferred removes the object, not its RAM.
LEMMA NotedOK ==
    ASSUME NEW db, DbOK(db), NEW old \in db.generated
    PROVE  /\ DbOK(Noted(db, old))
           /\ Noted(db, old).recorded = db.recorded
           /\ Noted(db, old).generated = db.generated \ {old}
<1>. DEFINE d == Noted(db, old)
<1>0. IsRecord(d, {"recorded", "generated", "ram", "correction", "replace_deferred"})
  BY ZenonT(30) DEF DbOK, IsRecord, Noted
<1>1. /\ d.recorded = db.recorded /\ d.generated = db.generated \ {old}
      /\ d.correction = [db.correction EXCEPT ![old.payer] = @ + 1] /\ d.ram = db.ram
  BY DEF DbOK, IsRecord, Noted
<1>. HIDE DEF d
<1>2. IsFiniteSet(d.generated)
  BY <1>1 DEF DbOK, FiniteFacts
<1>3. ASSUME NEW a \in Payer
      PROVE  d.ram[a] = Cardinality(PaidBy(d.generated, a)) + d.correction[a]
  <2>1. /\ Cardinality(PaidBy(db.generated \ {old}, a)) \in Nat
        /\ Cardinality(PaidBy(db.generated, a)) =
               Cardinality(PaidBy(db.generated \ {old}, a)) + (IF old.payer = a THEN 1 ELSE 0)
    BY PaidLess DEF DbOK
  <2>2. d.correction[a] = db.correction[a] + (IF old.payer = a THEN 1 ELSE 0)
    BY <1>1 DEF DbOK
  <2>3. db.ram[a] = Cardinality(PaidBy(db.generated, a)) + db.correction[a]
        /\ db.correction[a] \in Nat
    BY DEF DbOK
  <2>. QED BY <1>1, <2>1, <2>2, <2>3
<1>4. d.correction \in [Payer -> Nat] /\ d.ram \in [Payer -> Nat]
  BY <1>1 DEF DbOK
<1>5. \A x, y \in d.generated : x = y \/ Differ(x, y)
  BY <1>1 DEF DbOK
<1>. QED BY <1>0, <1>1, <1>2, <1>3, <1>4, <1>5, ZenonT(30) DEF DbOK, d

\* The new object is put in the place of the one with its sender id.
LEMMA PutInPlace ==
    ASSUME NEW db, DbOK(db), NEW old \in db.generated, old.sent,
           NEW r, DbOK(r), r.recorded = db.recorded, r.generated = db.generated \ {old},
           NEW k, k.payer \in Payer, k.id \in Id, k.sid = old.sid,
           k.id = old.id \/ \A h \in db.generated : h.id # k.id
    PROVE  /\ DbOK(Store(r, k)) /\ Store(r, k).recorded = db.recorded
           /\ \A h \in Store(r, k).generated : h.id = k.id \/ \E o \in db.generated : h.id = o.id
<1>1. \A h \in db.generated \ {old} : Differ(old, h) /\ Differ(h, old)
  BY DEF DbOK
<1>2. \A h \in r.generated : Differ(k, h) /\ Differ(h, k)
  BY <1>1 DEF Differ
<1>3. /\ DbOK(Store(r, k)) /\ Store(r, k).recorded = r.recorded
      /\ Store(r, k).generated = r.generated \cup {k}
  BY <1>2, StoreOK
<1>. QED BY <1>3

\* What a contract does keeps the database in order, if the ids it makes are new.
LEMMA ExecOK ==
    ASSUME NEW db, DbOK(db), NEW id \in Id, NEW effect \in Effects, NEW time, NEW incomplete,
           Fresh(db, Sent(id)),
           NEW r, r = Exec(db, id, effect, time, incomplete)
    PROVE  /\ r.except \in {"none"} \cup Exceptions
           /\ DbOK(r.db) /\ r.db.recorded = db.recorded
           /\ Made(r.db, db.generated, Sent(id))
<1>. USE DEF Made
<1>1. CASE effect.do = "nothing"
  BY <1>1 DEF Exec, Ok
<1>2. CASE effect.do = "fail"
  BY <1>2 DEF Exec, Thrown, Exceptions
<1>3. CASE effect.do = "cancel"
  <2>. DEFINE same == BySenderId(db, effect.sid)
              g == CHOOSE g \in same : TRUE
  <2>1. r = Ok(CancelDeferred(db, effect.sid))
    BY <1>3 DEF Exec
  <2>2. CASE same = {}
    BY <2>1, <2>2 DEF Ok, CancelDeferred
  <2>3. CASE same # {}
    <3>1. g \in db.generated /\ r = Ok(RemoveScheduled(db, g))
      BY <2>1, <2>3 DEF CancelDeferred, BySenderId
    <3>. HIDE DEF g
    <3>2. r.except = "none" /\ r.db = RemoveScheduled(db, g)
      BY <3>1 DEF Ok
    <3>. QED BY <3>1, <3>2, RemoveOK
  <2>. QED BY <2>2, <2>3
<1>4. CASE effect.do = "defer"
  <2>1. effect.sid \in Sid /\ effect.payer \in Payer
    BY <1>4 DEF Effects
  <2>. DEFINE same == BySenderId(db, effect.sid)
              new == id \o effect.sid
              g == Generated(new, effect.sid, TRUE, effect.payer, time, effect.delay)
              old == CHOOSE old \in same : TRUE
  <2>2. new \in Id
    BY <2>1, JoinedId
  <2>3. new \in Sent(id) /\ \A h \in db.generated : h.id # new
    BY <2>1, ZenonT(30) DEF Sent, Fresh
  <2>4. r = ScheduleDeferred(db, id, effect, time, incomplete)
    BY <1>4 DEF Exec
  <2>5. CASE same = {}
    <3>1. r = Ok(Store(db, g))
      BY <2>4, <2>5 DEF ScheduleDeferred
    <3>2. r.except = "none" /\ r.db = Store(db, g)
      BY <3>1 DEF Ok
    <3>3. g.id = new /\ g.sid = effect.sid /\ g.sent = TRUE /\ g.payer = effect.payer
      BY DEF Generated
    <3>. HIDE DEF g, new
    <3>4. \A h \in db.generated : Differ(g, h) /\ Differ(h, g)
      BY <2>3, <2>5, <3>3 DEF Differ, BySenderId
    <3>5. /\ DbOK(Store(db, g)) /\ Store(db, g).recorded = db.recorded
          /\ Store(db, g).generated = db.generated \cup {g}
      BY <2>1, <2>2, <3>3, <3>4, StoreOK
    <3>. QED BY <2>3, <3>2, <3>3, <3>5
  <2>6. CASE same # {} /\ (~effect.replace \/ (~db.replace_deferred /\ incomplete))
    <3>1. r = Thrown("objective", db) \/ r = Thrown("local", db)
      BY <2>4, <2>6, ZenonT(30) DEF ScheduleDeferred
    <3>2. r.except \in Exceptions /\ r.db = db
      BY <3>1 DEF Thrown, Exceptions
    <3>. QED BY <3>2
  <2>7. CASE same # {} /\ effect.replace /\ ~(~db.replace_deferred /\ incomplete)
    <3>. DEFINE k == [g EXCEPT !.id = old.id]
    <3>1. r = Ok(Replace(db, g, old))
      BY <2>4, <2>7, ZenonT(30) DEF ScheduleDeferred
    <3>2. r.except = "none" /\ r.db = Replace(db, g, old)
      BY <3>1 DEF Ok
    <3>3. old \in db.generated /\ old.sent /\ old.sid = effect.sid /\ old.id \in Id
      BY <2>7 DEF BySenderId, DbOK
    <3>4. /\ g.id = new /\ g.sid = old.sid /\ g.payer = effect.payer
          /\ k.id = old.id /\ k.sid = old.sid /\ k.payer = effect.payer
      BY <3>3 DEF Generated
    <3>5. CASE db.replace_deferred
      <4>. DEFINE d == RemoveScheduled(db, old)
      <4>1. r.db = Store(d, g)
        BY <3>2, <3>5 DEF Replace
      <4>. HIDE DEF g, k, new, old
      <4>2. DbOK(d) /\ d.recorded = db.recorded /\ d.generated = db.generated \ {old}
        BY <3>3, RemoveOK
      <4>. HIDE DEF d
      <4>3. /\ DbOK(Store(d, g)) /\ Store(d, g).recorded = db.recorded
            /\ \A h \in Store(d, g).generated :
                  h.id = g.id \/ \E o \in db.generated : h.id = o.id
        <5>1. /\ g.payer \in Payer /\ g.id \in Id /\ g.sid = old.sid
              /\ \A h \in db.generated : h.id # g.id
          BY <2>1, <2>2, <2>3, <3>4
        <5>. QED BY <3>3, <4>2, <5>1, PutInPlace
      <4>. QED BY <2>3, <3>2, <3>4, <4>1, <4>3
    <3>6. CASE ~db.replace_deferred
      <4>. DEFINE d == Noted(db, old)
      <4>1. r.db = Store(d, k)
        BY <3>2, <3>6 DEF Replace, Noted
      <4>. HIDE DEF g, k, new, old
      <4>2. DbOK(d) /\ d.recorded = db.recorded /\ d.generated = db.generated \ {old}
        BY <3>3, NotedOK
      <4>. HIDE DEF d
      <4>3. /\ DbOK(Store(d, k)) /\ Store(d, k).recorded = db.recorded
            /\ \A h \in Store(d, k).generated :
                  h.id = k.id \/ \E o \in db.generated : h.id = o.id
        BY <2>1, <3>3, <3>4, <4>2, PutInPlace
      <4>. QED BY <3>2, <3>3, <3>4, <4>1, <4>3
    <3>. QED BY <3>5, <3>6
  <2>. QED BY <2>5, <2>6, <2>7
<1>. QED BY <1>1, <1>2, <1>3, <1>4 DEF Effects

\* clear_expired_input_transactions, and the activation of replace_deferred, touch
\* neither what is generated nor the RAM it takes.
LEMMA ClearOK ==
    ASSUME NEW db, DbOK(db), NEW time
    PROVE  LET d == ClearExpiredInputTransactions(db, time)
           IN  /\ DbOK(d) /\ d.generated = db.generated
               /\ d.recorded = {t \in db.recorded : time <= Expire[t]}
<1>. DEFINE d == ClearExpiredInputTransactions(db, time)
<1>0. IsRecord(d, {"recorded", "generated", "ram", "correction", "replace_deferred"})
  BY ZenonT(30) DEF DbOK, IsRecord, ClearExpiredInputTransactions
<1>1. /\ d.recorded = {t \in db.recorded : time <= Expire[t]} /\ d.generated = db.generated
      /\ d.ram = db.ram /\ d.correction = db.correction
  BY DEF DbOK, IsRecord, ClearExpiredInputTransactions
<1>. HIDE DEF d
<1>2. d.recorded \subseteq Input
  BY <1>1 DEF DbOK
<1>3. DbOK(d)
  BY <1>0, <1>1, <1>2 DEF DbOK
<1>. QED BY <1>1, <1>3 DEF d

\* on_activation<replace_deferred> gives back what was noted down: the RAM that is left is
\* that of the generated transactions there are.
LEMMA ActivateOK ==
    ASSUME NEW db, DbOK(db)
    PROVE  LET d == OnActivationReplaceDeferred(db)
           IN  DbOK(d) /\ d.generated = db.generated /\ d.recorded = db.recorded
<1>. DEFINE d == OnActivationReplaceDeferred(db)
<1>0. IsRecord(d, {"recorded", "generated", "ram", "correction", "replace_deferred"})
  BY ZenonT(30) DEF DbOK, IsRecord, OnActivationReplaceDeferred
<1>1. /\ d.recorded = db.recorded /\ d.generated = db.generated
      /\ d.correction = [a \in Payer |-> 0]
      /\ d.ram = [a \in Payer |-> IF db.correction[a] > db.ram[a] THEN 0
                                  ELSE db.ram[a] - db.correction[a]]
  BY DEF DbOK, IsRecord, OnActivationReplaceDeferred
<1>. HIDE DEF d
<1>2. ASSUME NEW a \in Payer
      PROVE  /\ d.ram[a] = Cardinality(PaidBy(d.generated, a)) + d.correction[a]
             /\ d.ram[a] \in Nat
  <2>1. IsFiniteSet(PaidBy(db.generated, a))
    BY DEF PaidBy, DbOK, FiniteFacts
  <2>2. Cardinality(PaidBy(db.generated, a)) \in Nat
    BY <2>1 DEF FiniteFacts, DbOK
  <2>3. db.ram[a] = Cardinality(PaidBy(db.generated, a)) + db.correction[a]
        /\ db.correction[a] \in Nat
    BY DEF DbOK
  <2>4. db.ram[a] - db.correction[a] = Cardinality(PaidBy(db.generated, a))
        /\ ~(db.correction[a] > db.ram[a])
    BY <2>2, <2>3
  <2>5. d.ram[a] = Cardinality(PaidBy(db.generated, a)) /\ d.correction[a] = 0
    BY <1>1, <2>4
  <2>. QED BY <1>1, <2>2, <2>5
<1>3. d.ram \in [Payer -> Nat] /\ d.correction \in [Payer -> Nat]
  BY <1>1, <1>2
<1>4. DbOK(d)
  BY <1>0, <1>1, <1>2, <1>3 DEF DbOK
<1>. QED BY <1>1, <1>4 DEF d

-----------------------------------------------------------------------------
(* Receipts and blocks *)

\* push_receipt: a receipt of a transaction that has none yet
LEMMA RetiredReceipt ==
    ASSUME NEW rs, ReceiptsOK(rs), NEW kind \in Kind, kind # "input",
           NEW x \in Id, x \notin RetiredIn(rs)
    PROVE  /\ ReceiptsOK(Append(rs, <<kind, x>>))
           /\ InputsIn(Append(rs, <<kind, x>>)) = InputsIn(rs)
           /\ RetiredIn(Append(rs, <<kind, x>>)) = RetiredIn(rs) \cup {x}
<1>. DEFINE n == Append(rs, <<kind, x>>)
<1>1. rs \in Seq(Kind \X Id) /\ Len(rs) \in Nat
  BY DEF ReceiptsOK
<1>2. n \in Seq(Kind \X Id) /\ Len(n) = Len(rs) + 1
  BY <1>1
<1>3. n[Len(rs) + 1] = <<kind, x>>
  BY <1>1
<1>4. \A k \in 1..Len(rs) : n[k] = rs[k]
  BY <1>1
<1>5. n[Len(rs) + 1][1] = kind /\ n[Len(rs) + 1][2] = x
  BY <1>3
<1>6. 1..Len(n) = 1..Len(rs) \cup {Len(rs) + 1} /\ Len(rs) + 1 \notin 1..Len(rs)
  BY <1>1, <1>2
<1>. HIDE DEF n
<1>7. \A k \in 1..Len(rs) : ~SameTransaction(rs[k], n[Len(rs) + 1])
                            /\ ~SameTransaction(n[Len(rs) + 1], rs[k])
  BY <1>5 DEF SameTransaction, InputsIn, RetiredIn
<1>8. \A k, l \in 1..Len(n) : SameTransaction(n[k], n[l]) => k = l
  BY <1>4, <1>6, <1>7 DEF ReceiptsOK
<1>9. InputsIn(n) = InputsIn(rs) /\ RetiredIn(n) = RetiredIn(rs) \cup {x}
  <2>1. InputsIn(n) = InputsIn(rs)
    BY <1>4, <1>5, <1>6 DEF InputsIn
  <2>2. RetiredIn(n) = RetiredIn(rs) \cup {x}
    BY <1>4, <1>5, <1>6 DEF RetiredIn
  <2>. QED BY <2>1, <2>2, Zenon
<1>. QED BY <1>2, <1>8, <1>9, ZenonT(30) DEF ReceiptsOK, n

\* The receipt of an input transaction that has none yet
LEMMA InputReceipt ==
    ASSUME NEW rs, ReceiptsOK(rs), NEW x \in Id, x \notin InputsIn(rs)
    PROVE  /\ ReceiptsOK(Append(rs, <<"input", x>>))
           /\ InputsIn(Append(rs, <<"input", x>>)) = InputsIn(rs) \cup {x}
           /\ RetiredIn(Append(rs, <<"input", x>>)) = RetiredIn(rs)
<1>. DEFINE n == Append(rs, <<"input", x>>)
<1>1. rs \in Seq(Kind \X Id) /\ Len(rs) \in Nat
  BY DEF ReceiptsOK
<1>2. n \in Seq(Kind \X Id) /\ Len(n) = Len(rs) + 1
  BY <1>1 DEF Kind
<1>3. n[Len(rs) + 1] = <<"input", x>>
  BY <1>1
<1>4. \A k \in 1..Len(rs) : n[k] = rs[k]
  BY <1>1
<1>5. n[Len(rs) + 1][1] = "input" /\ n[Len(rs) + 1][2] = x
  BY <1>3
<1>6. 1..Len(n) = 1..Len(rs) \cup {Len(rs) + 1} /\ Len(rs) + 1 \notin 1..Len(rs)
  BY <1>1, <1>2
<1>. HIDE DEF n
<1>7. \A k \in 1..Len(rs) : ~SameTransaction(rs[k], n[Len(rs) + 1])
                            /\ ~SameTransaction(n[Len(rs) + 1], rs[k])
  BY <1>5 DEF SameTransaction, InputsIn, RetiredIn
<1>8. \A k, l \in 1..Len(n) : SameTransaction(n[k], n[l]) => k = l
  BY <1>4, <1>6, <1>7 DEF ReceiptsOK
<1>9. InputsIn(n) = InputsIn(rs) \cup {x} /\ RetiredIn(n) = RetiredIn(rs)
  <2>1. InputsIn(n) = InputsIn(rs) \cup {x}
    BY <1>4, <1>5, <1>6 DEF InputsIn
  <2>2. RetiredIn(n) = RetiredIn(rs)
    BY <1>4, <1>5, <1>6 DEF RetiredIn
  <2>. QED BY <2>1, <2>2, Zenon
<1>. QED BY <1>2, <1>8, <1>9, ZenonT(30) DEF ReceiptsOK, n

\* The retired and the scheduled transactions of a block have ids, and the block's
\* predecessors have applied input transactions.
LEMMA BlockIds ==
    ASSUME NEW b, NEW I, NEW R, I \subseteq Input, BlockOK(b, I, R)
    PROVE  /\ I \cup b.metas \in SUBSET Input
           /\ R \cup RetiredIn(b.receipts) \in SUBSET Id
           /\ \A g \in b.db.generated : g.id \in Id
BY DEF BlockOK, OriginsOK, DbOK

\* A scheduled transaction that has not been retired has not run, and has generated
\* nothing.
LEMMA NotYetRun ==
    ASSUME NEW b, NEW I, NEW R, I \subseteq Input, BlockOK(b, I, R),
           NEW g \in b.db.generated
    PROVE  /\ Fresh(b.db, Sent(g.id))
           /\ \A x \in Sent(g.id) : x \notin R \cup RetiredIn(b.receipts)
<1>. DEFINE J == I \cup b.metas
            Q == R \cup RetiredIn(b.receipts)
<1>1. J \in SUBSET Input /\ Q \in SUBSET Id /\ g.id \in Id
  BY BlockIds
<1>2. /\ \A h \in b.db.generated : h.id \notin Q /\ Origin(h.id, J, Q)
      /\ \A x \in Q : Origin(x, J, Q)
  BY ZenonT(30) DEF BlockOK, OriginsOK
<1>. HIDE DEF J, Q
<1>3. g.id \notin Ran(J, Q)
  <2>1. g.id \in Input => Delay[g.id] > 0
    BY <1>1, <1>2, OriginOf, ZenonT(30)
  <2>2. \A t \in Input : Delay[t] > 0 => Delay[t] # 0
    BY TimesAssumption
  <2>. QED BY <1>1, <1>2, <2>1, <2>2 DEF Ran
<1>4. \A x : Origin(x, J, Q) => x \notin Sent(g.id)
  BY <1>1, <1>3, OriginOf, ZenonT(30) DEF Sent
<1>. QED BY <1>2, <1>4 DEF Q, Fresh

\* Nor has an input transaction that is admitted: it is recorded until it has expired,
\* and nothing that it scheduled, or its contracts, is there.
LEMMA NotYetApplied ==
    ASSUME NEW b, NEW I, NEW R, I \subseteq Input, BlockOK(b, I, R),
           NEW t \in Input, Admits(b.db, t, b.time)
    PROVE  /\ t \notin I \cup b.metas
           /\ t \notin R \cup RetiredIn(b.receipts)
           /\ Fresh(b.db, {t}) /\ Fresh(b.db, Sent(t))
           /\ \A x \in Sent(t) : x \notin R \cup RetiredIn(b.receipts)
<1>. DEFINE J == I \cup b.metas
            Q == R \cup RetiredIn(b.receipts)
<1>1. J \in SUBSET Input /\ Q \in SUBSET Id
  BY BlockIds
<1>2. /\ \A h \in b.db.generated : Origin(h.id, J, Q)
      /\ \A x \in Q : Origin(x, J, Q)
  BY ZenonT(30) DEF BlockOK, OriginsOK
<1>3. t \notin J
  <2>1. Expire[t] \in Nat /\ b.time \in Nat
    BY TimesAssumption DEF BlockOK
  <2>2. ~(Expire[t] < b.time) /\ t \notin b.db.recorded
    BY <2>1 DEF Admits
  <2>. QED BY <2>2 DEF BlockOK
<1>. HIDE DEF J, Q
<1>4. ~Origin(t, J, Q)
  BY <1>1, <1>3, OriginOf
<1>5. t \notin Ran(J, Q) /\ t \in Id
  BY <1>2, <1>3, <1>4, ShortId DEF Ran
<1>6. \A x : Origin(x, J, Q) => x \notin Sent(t)
  BY <1>1, <1>5, OriginOf DEF Sent
<1>. QED BY <1>2, <1>3, <1>4, <1>6 DEF J, Q, Fresh

\* A scheduled transaction is retired, and its contracts, or those that handle its
\* failure, have run.
LEMMA RetireOK ==
    ASSUME NEW p, NEW I, NEW R, I \subseteq Input, IsPending(p), BlockOK(p, I, R),
           NEW g \in p.db.generated, NEW kind \in Kind, kind # "input",
           NEW db, DbOK(db), db.recorded = p.db.recorded,
           Made(db, p.db.generated \ {g}, Sent(g.id)),
           NEW q, q = Receive(p, kind, g.id, db)
    PROVE  /\ IsPending(q) /\ BlockOK(q, I, R)
           /\ q.time = p.time /\ q.incomplete = p.incomplete /\ q.metas = p.metas
           /\ q.db.recorded = p.db.recorded
<1>. DEFINE x == g.id
            J == I \cup p.metas
            Q == R \cup RetiredIn(p.receipts)
<1>1. /\ IsPending(q) /\ q.time = p.time /\ q.incomplete = p.incomplete /\ q.db = db
      /\ q.receipts = Append(p.receipts, <<kind, x>>) /\ q.metas = p.metas
  BY ZenonT(30) DEF Receive, IsPending, IsRecord
<1>2. J \in SUBSET Input /\ Q \in SUBSET Id /\ x \in Id
  BY BlockIds
<1>3. /\ \A h \in p.db.generated : h.id \notin Q /\ Origin(h.id, J, Q)
      /\ \A y \in Q : Origin(y, J, Q)
  BY ZenonT(30) DEF BlockOK, OriginsOK
<1>4. x \notin R /\ x \notin RetiredIn(p.receipts)
  BY <1>3
<1>5. /\ ReceiptsOK(q.receipts) /\ InputsIn(q.receipts) = InputsIn(p.receipts)
      /\ RetiredIn(q.receipts) = RetiredIn(p.receipts) \cup {x}
  <2>1. ReceiptsOK(p.receipts)
    BY DEF BlockOK
  <2>2. x \in Id /\ x \notin RetiredIn(p.receipts) /\ q.receipts = Append(p.receipts, <<kind, x>>)
    BY <1>1, <1>2, <1>4
  <2>. HIDE DEF x
  <2>. QED BY <2>1, <2>2, RetiredReceipt
<1>6. R \cup RetiredIn(q.receipts) = Q \cup {x} /\ R \cap RetiredIn(q.receipts) = {}
  BY <1>4, <1>5 DEF BlockOK
<1>7. OriginsOK(db, J, Q \cup {x})
  <2>1. \A y : Origin(y, J, Q) => Origin(y, J, Q \cup {x})
    BY OriginMore
  <2>2. \A y \in Sent(x) : Origin(y, J, Q \cup {x})
    BY ZenonT(30) DEF Origin, Ran, Sent
  <2>3. \A y \in Sent(x) : y \notin Q /\ y # x
    <3>1. \A y \in Sent(x) : y \notin Q
      BY NotYetRun
    <3>2. \A y \in Sent(x) : y # x
      BY <1>2, JoinedId DEF Sent
    <3>. QED BY <3>1, <3>2
  <2>4. \A o \in p.db.generated \ {g} : o.id # x
    BY DEF BlockOK, DbOK, Differ
  <2>. HIDE DEF x, J, Q
  <2>5. \A h \in db.generated : h.id \notin Q \cup {x} /\ Origin(h.id, J, Q \cup {x})
    BY <1>3, <2>1, <2>2, <2>3, <2>4, ZenonT(30) DEF x, Made
  <2>6. x \in Id /\ Origin(x, J, Q \cup {x})
    BY <1>2, <1>3, <2>1 DEF x
  <2>. QED BY <1>2, <1>3, <2>1, <2>5, <2>6, ZenonT(30) DEF OriginsOK
<1>8. BlockOK(q, I, R)
  BY <1>1, <1>5, <1>6, <1>7, ZenonT(30) DEF BlockOK
<1>. QED BY <1>1, <1>8

\* An input transaction is applied: its contracts have run, or it is scheduled.
LEMMA ApplyOK ==
    ASSUME NEW p, NEW I, NEW R, I \subseteq Input, IsPending(p), BlockOK(p, I, R),
           NEW t \in Input, Admits(p.db, t, p.time),
           NEW db, DbOK(db), db.recorded = p.db.recorded \cup {t},
           Made(db, p.db.generated, Scheduled(t)),
           NEW q, q = Receive(p, "input", t, db)
    PROVE  /\ IsPending(q) /\ BlockOK(q, I, R)
           /\ q.time = p.time /\ q.incomplete = p.incomplete /\ q.metas = p.metas \cup {t}
           /\ t \notin I \cup p.metas
<1>. DEFINE J == I \cup p.metas
            Q == R \cup RetiredIn(p.receipts)
<1>1. /\ IsPending(q) /\ q.time = p.time /\ q.incomplete = p.incomplete /\ q.db = db
      /\ q.receipts = Append(p.receipts, <<"input", t>>) /\ q.metas = p.metas \cup {t}
  BY ZenonT(30) DEF Receive, IsPending, IsRecord
<1>2. J \in SUBSET Input /\ Q \in SUBSET Id /\ t \in Id
  BY BlockIds, ShortId
<1>3. /\ \A h \in p.db.generated : h.id \notin Q /\ Origin(h.id, J, Q)
      /\ \A y \in Q : Origin(y, J, Q)
  BY ZenonT(30) DEF BlockOK, OriginsOK
<1>4. t \notin J /\ t \notin Q /\ \A y \in Sent(t) : y \notin Q
  BY NotYetApplied, ZenonT(30)
<1>5. /\ ReceiptsOK(q.receipts) /\ InputsIn(q.receipts) = InputsIn(p.receipts) \cup {t}
      /\ RetiredIn(q.receipts) = RetiredIn(p.receipts)
  <2>1. ReceiptsOK(p.receipts) /\ t \notin InputsIn(p.receipts)
    BY <1>4 DEF BlockOK
  <2>2. t \in Id /\ q.receipts = Append(p.receipts, <<"input", t>>)
    BY <1>1, <1>2
  <2>3. /\ ReceiptsOK(Append(p.receipts, <<"input", t>>))
        /\ InputsIn(Append(p.receipts, <<"input", t>>)) = InputsIn(p.receipts) \cup {t}
        /\ RetiredIn(Append(p.receipts, <<"input", t>>)) = RetiredIn(p.receipts)
    BY <2>1, <2>2, InputReceipt
  <2>. QED BY <2>2, <2>3, ZenonT(30)
<1>6. OriginsOK(db, J \cup {t}, Q)
  <2>1. \A y : Origin(y, J, Q) => Origin(y, J \cup {t}, Q)
    BY OriginMore
  <2>2. Delay[t] = 0 => \A y \in Sent(t) : Origin(y, J \cup {t}, Q)
    BY DEF Origin, Ran, Sent
  <2>3. Delay[t] > 0 => Origin(t, J \cup {t}, Q)
    BY DEF Origin
  <2>. Delay[t] = 0 \/ Delay[t] > 0
    BY TimesAssumption
  <2>. HIDE DEF J, Q
  <2>4. \A h \in db.generated : h.id \notin Q /\ Origin(h.id, J \cup {t}, Q)
    BY <1>3, <1>4, <2>1, <2>2, <2>3, ZenonT(30) DEF Made, Scheduled
  <2>. QED BY <1>2, <1>3, <2>1, <2>4, ZenonT(30) DEF OriginsOK
<1>7. I \cup q.metas = J \cup {t} /\ I \cap q.metas = {}
  BY <1>1, <1>4 DEF BlockOK
<1>8. \A u \in J \cup {t} : u \in db.recorded \/ Expire[u] < q.time
  BY <1>1 DEF BlockOK
<1>9. BlockOK(q, I, R)
  BY <1>1, <1>5, <1>6, <1>7, <1>8, ZenonT(30) DEF BlockOK
<1>. QED BY <1>1, <1>4, <1>9

-----------------------------------------------------------------------------
(* What pushing a transaction does to the block that is being built *)

\* The block after it: the same, or with something applied or retired.
LEMMA PushOK ==
    ASSUME NEW p, NEW I, NEW R, I \subseteq Input, IsPending(p), BlockOK(p, I, R),
           NEW t \in Input, NEW effects \in SUBSET Effects, NEW speculative \in BOOLEAN,
           NEW r \in PushTransaction(p, t, effects, speculative)
    PROVE  \/ r.pending = p /\ (r.except = "none" => p.incomplete /\ ~speculative)
           \/ /\ r.except = "none" /\ t \notin I \cup p.metas
              /\ IsPending(r.pending) /\ BlockOK(r.pending, I, R)
              /\ r.pending.time = p.time /\ r.pending.incomplete = p.incomplete
              /\ r.pending.metas = p.metas \cup {t}
<1>1. CASE ~Admits(p.db, t, p.time)
  <2>1. r = Result("objective", p)
    BY <1>1 DEF PushTransaction
  <2>. QED BY <2>1 DEF Result
<1>2. CASE Admits(p.db, t, p.time)
  <2>. DEFINE d == [p.db EXCEPT !.recorded = @ \cup {t}]
              ends == IF Delay[t] > 0
                      THEN {Ok(ScheduleTransaction(d, t, p.time))}
                      ELSE {Exec(d, t, f, p.time, p.incomplete) : f \in effects}
              cut == IF p.incomplete THEN Exceptions ELSE {"objective"}
  <2>1. r \in {Result("none", IF p.incomplete /\ ~speculative THEN p
                              ELSE Receive(p, "input", t, e.db)) :
                  e \in {e \in ends : e.except = "none"}}
              \cup {Result(e, p) : e \in cut \cup ({e.except : e \in ends} \ {"none"})}
    BY <1>2, ZenonT(30) DEF PushTransaction
  <2>2. /\ IsRecord(d, {"recorded", "generated", "ram", "correction", "replace_deferred"})
        /\ d.recorded = p.db.recorded \cup {t} /\ d.generated = p.db.generated
        /\ d.ram = p.db.ram /\ d.correction = p.db.correction
    BY ZenonT(30) DEF BlockOK, DbOK, IsRecord
  <2>3. DbOK(p.db)
    BY DEF BlockOK
  <2>. HIDE DEF d
  <2>4. DbOK(d)
    BY <2>2, <2>3 DEF DbOK
  <2>5. Fresh(d, {t}) /\ Fresh(d, Sent(t))
    BY <1>2, <2>2, NotYetApplied DEF Fresh
  <2>6. t \in Id /\ Delay[t] \in Nat
    BY ShortId, TimesAssumption, ZenonT(30)
  <2>7. ASSUME NEW e \in ends
        PROVE  DbOK(e.db) /\ e.db.recorded = d.recorded /\ Made(e.db, p.db.generated, Scheduled(t))
    <3>1. CASE Delay[t] > 0
      <4>. DEFINE g == Generated(t, t, FALSE, FirstAuth[t], p.time, Delay[t])
      <4>0. e = Ok(ScheduleTransaction(d, t, p.time))
        BY <3>1
      <4>1. e.db = Store(d, g)
        BY <4>0 DEF Ok, ScheduleTransaction
      <4>2. g.id = t /\ g.sent = FALSE /\ g.payer = FirstAuth[t]
        BY DEF Generated
      <4>. HIDE DEF g
      <4>3. g.payer \in Payer
        BY <4>2, PayerAssumption
      <4>4. \A h \in d.generated : Differ(g, h) /\ Differ(h, g)
        BY <2>5, <4>2, ZenonT(30) DEF Differ, Fresh
      <4>5. /\ DbOK(Store(d, g)) /\ Store(d, g).recorded = d.recorded
            /\ Store(d, g).generated = d.generated \cup {g}
        BY <2>4, <2>6, <4>2, <4>3, <4>4, StoreOK, ZenonT(30)
      <4>. QED BY <2>2, <3>1, <4>1, <4>2, <4>5 DEF Made, Scheduled
    <3>2. CASE ~(Delay[t] > 0)
      <4>1. PICK f \in effects : e = Exec(d, t, f, p.time, p.incomplete)
        BY <3>2
      <4>2. Delay[t] = 0
        BY <2>6, <3>2
      <4>3. /\ DbOK(e.db) /\ e.db.recorded = d.recorded
            /\ Made(e.db, d.generated, Sent(t))
        BY <2>4, <2>5, <2>6, <4>1, ExecOK
      <4>. QED BY <2>2, <3>2, <4>3 DEF Scheduled
    <3>. QED BY <3>1, <3>2, ZenonT(30)
  <2>8. CASE r \in {Result(e, p) : e \in cut \cup ({e.except : e \in ends} \ {"none"})}
    <3>1. PICK e \in cut \cup ({x.except : x \in ends} \ {"none"}) : r = Result(e, p)
      BY <2>8
    <3>2. e # "none"
      BY DEF Exceptions
    <3>. QED BY <3>1, <3>2 DEF Result
  <2>9. CASE r \in {Result("none", IF p.incomplete /\ ~speculative THEN p
                                   ELSE Receive(p, "input", t, e.db)) :
                       e \in {e \in ends : e.except = "none"}}
    <3>1. PICK e \in ends : r = Result("none", IF p.incomplete /\ ~speculative THEN p
                                               ELSE Receive(p, "input", t, e.db))
      BY <2>9
    <3>. HIDE DEF ends
    <3>2. CASE p.incomplete /\ ~speculative
      BY <3>1, <3>2, ZenonT(30) DEF Result
    <3>3. CASE ~(p.incomplete /\ ~speculative)
      <4>1. r.except = "none" /\ r.pending = Receive(p, "input", t, e.db)
        BY <3>1, <3>3, ZenonT(30) DEF Result
      <4>2. /\ DbOK(e.db) /\ e.db.recorded = p.db.recorded \cup {t}
            /\ Made(e.db, p.db.generated, Scheduled(t))
        BY <2>2, <2>7, ZenonT(30)
      <4>. QED BY <1>2, <4>1, <4>2, ApplyOK
    <3>. QED BY <3>2, <3>3
  <2>. QED BY <2>1, <2>8, <2>9
<1>. QED BY <1>1, <1>2

\* A scheduled transaction
LEMMA PushScheduledOK ==
    ASSUME NEW p, NEW I, NEW R, I \subseteq Input, IsPending(p), BlockOK(p, I, R),
           NEW g \in p.db.generated, NEW effects \in SUBSET Effects,
           NEW r \in PushScheduledTransaction(p, g, effects)
    PROVE  \/ r.pending = p
           \/ /\ IsPending(r.pending) /\ BlockOK(r.pending, I, R)
              /\ r.pending.time = p.time /\ r.pending.incomplete = p.incomplete
              /\ r.pending.metas = p.metas
<1>. DEFINE removed == RemoveScheduled(p.db, g)
            tried == Attempts(removed, g, p, effects)
            succeeded == {x \in tried : x.except = "none"}
            threw == {x.except : x \in tried} \ {"none"}
            handled == {e \in threw : g.sent /\ ~FailureIsSubjective(e)}
            After(db) == /\ DbOK(db) /\ db.recorded = p.db.recorded
                         /\ Made(db, p.db.generated \ {g}, Sent(g.id))
<1>1. /\ DbOK(removed) /\ removed.recorded = p.db.recorded
      /\ removed.generated = p.db.generated \ {g} /\ g.id \in Id
  <2>1. DbOK(p.db)
    BY DEF BlockOK
  <2>. QED BY <2>1, RemoveOK DEF DbOK
<1>2. \/ r = Result("none", Receive(p, "expired", g.id, removed))
      \/ \E x \in succeeded : r = Result("none", Receive(p, "executed", g.id, x.db))
      \/ \E x \in succeeded : r = Result("none", Receive(p, "soft_fail", g.id, x.db))
      \/ \E e \in threw : r = ScheduledFails(p, g, e)
  BY DEF PushScheduledTransaction, SoftFails
<1>. HIDE DEF removed
<1>3. After(removed)
  BY <1>1, ZenonT(30) DEF Made
<1>4. \A x \in tried : After(x.db)
  <2>. SUFFICES ASSUME NEW x \in tried PROVE After(x.db)
    BY ZenonT(30)
  <2>1. CASE \E f \in effects : x = Exec(removed, g.id, f, p.time, p.incomplete)
    <3>1. PICK f \in effects : x = Exec(removed, g.id, f, p.time, p.incomplete)
      BY <2>1
    <3>2. Fresh(removed, Sent(g.id))
      BY <1>1, NotYetRun DEF Fresh
    <3>3. /\ DbOK(x.db) /\ x.db.recorded = removed.recorded
          /\ Made(x.db, removed.generated, Sent(g.id))
      BY <1>1, <3>1, <3>2, ExecOK
    <3>. QED BY <1>1, <3>3
  <2>2. CASE \E e \in Exceptions : x = Thrown(e, removed)
    <3>1. x.db = removed
      BY <2>2 DEF Thrown
    <3>. QED BY <1>3, <3>1
  <2>3. \/ \E f \in effects : x = Exec(removed, g.id, f, p.time, p.incomplete)
        \/ \E e \in Exceptions : x = Thrown(e, removed)
    BY ZenonT(30) DEF Attempts
  <2>. QED BY <2>1, <2>2, <2>3, ZenonT(30)
<1>5. ASSUME NEW kind \in Kind, kind # "input", NEW db, After(db),
             NEW q, q = Receive(p, kind, g.id, db)
      PROVE  /\ IsPending(q) /\ BlockOK(q, I, R) /\ q.time = p.time
             /\ q.incomplete = p.incomplete /\ q.metas = p.metas
  <2>1. /\ DbOK(db) /\ db.recorded = p.db.recorded
        /\ Made(db, p.db.generated \ {g}, Sent(g.id))
    BY <1>5
  <2>2. q = Receive(p, kind, g.id, db) /\ kind \in Kind /\ kind # "input"
    BY <1>5, ZenonT(30)
  <2>. HIDE DEF After
  <2>3. \A k \in Kind : \A d, z : k # "input" /\ DbOK(d) /\ d.recorded = p.db.recorded
          /\ Made(d, p.db.generated \ {g}, Sent(g.id)) /\ z = Receive(p, k, g.id, d)
            => /\ IsPending(z) /\ BlockOK(z, I, R) /\ z.time = p.time
               /\ z.incomplete = p.incomplete /\ z.metas = p.metas
    BY RetireOK
  <2>. QED BY <2>1, <2>2, <2>3
<1>. HIDE DEF After, tried
<1>6. CASE r = Result("none", Receive(p, "expired", g.id, removed))
  BY <1>3, <1>5, <1>6 DEF Result, Kind
<1>7. CASE \E x \in succeeded : r = Result("none", Receive(p, "executed", g.id, x.db))
  BY <1>4, <1>5, <1>7 DEF Result, Kind
<1>8. CASE \E x \in succeeded : r = Result("none", Receive(p, "soft_fail", g.id, x.db))
  BY <1>4, <1>5, <1>8 DEF Result, Kind
<1>9. CASE \E e \in threw : r = ScheduledFails(p, g, e)
  <2>1. r.pending = p \/ r.pending = Receive(p, "hard_fail", g.id, removed)
    BY <1>9 DEF ScheduledFails, Result, removed
  <2>. QED BY <1>3, <1>5, <2>1 DEF Kind
<1>. QED BY <1>2, <1>6, <1>7, <1>8, <1>9, ZenonT(30)

-----------------------------------------------------------------------------
(* Chains *)

\* A sequence is one of its own elements.
LEMMA Sequenced ==
    ASSUME NEW S, NEW s \in Seq(S)
    PROVE  IsSequence(s) /\ Len(s) \in Nat /\ DOMAIN s = 1..Len(s)
<1>1. Len(s) \in Nat /\ s = [i \in 1..Len(s) |-> s[i]]
  OBVIOUS
<1>. DEFINE T == {s[i] : i \in 1..Len(s)}
<1>2. \A i \in 1..Len(s) : s[i] \in T
  OBVIOUS
<1>. HIDE DEF T
<1>3. s \in [1..Len(s) -> T]
  BY <1>1, <1>2
<1>. QED BY <1>1, <1>3 DEF IsSequence, T

\* The length and the domain of a sequence
LEMMA SequenceFacts ==
    ASSUME NEW s, IsSequence(s)
    PROVE  Len(s) \in Nat /\ DOMAIN s = 1..Len(s)
BY Sequenced DEF IsSequence

\* One block more
LEMMA ToNext ==
    ASSUME NEW c, NEW n \in Nat \ {0}
    PROVE  /\ InputsTo(c, n) = InputsTo(c, n - 1) \cup c[n].metas
           /\ RetiredTo(c, n) = RetiredTo(c, n - 1) \cup RetiredIn(c[n].receipts)
<1>1. 1..n = (1..(n - 1)) \cup {n}
  OBVIOUS
<1>. QED BY <1>1 DEF InputsTo, RetiredTo

\* Chains that begin in the same way
LEMMA ToSame ==
    ASSUME NEW c, NEW d, NEW n \in Nat, \A i \in 1..n : c[i] = d[i], NEW j \in 0..n
    PROVE  InputsTo(c, j) = InputsTo(d, j) /\ RetiredTo(c, j) = RetiredTo(d, j)
<1>1. \A i \in 1..j : c[i] = d[i]
  OBVIOUS
<1>. QED BY <1>1 DEF InputsTo, RetiredTo

\* The length of a chain, and the input transactions it has applied
LEMMA ChainFacts ==
    ASSUME NEW c, ChainOK(c)
    PROVE  /\ Len(c) \in Nat \ {0} /\ DOMAIN c = 1..Len(c)
           /\ \A j \in 0..Len(c) : InputsTo(c, j) \subseteq Input
           /\ MetasOf(c) = InputsTo(c, Len(c))
<1>1. Len(c) \in Nat \ {0} /\ DOMAIN c = 1..Len(c)
  BY SequenceFacts DEF ChainOK
<1>2. \A i \in 1..Len(c) : c[i].metas \subseteq Input
  BY ZenonT(30) DEF ChainOK, BlockOK
<1>3. \A j \in 0..Len(c) : InputsTo(c, j) \subseteq Input
  BY <1>1, <1>2 DEF InputsTo
<1>. QED BY <1>1, <1>3 DEF MetasOf, InputsTo

\* The head has a time.
LEMMA HeadTime ==
    ASSUME NEW c, ChainOK(c)
    PROVE  c[Len(c)].time \in Nat \ {0}
<1>1. Len(c) \in 1..Len(c)
  BY ChainFacts
<1>2. \A j \in 1..Len(c) : BlockOK(c[j], InputsTo(c, j - 1), RetiredTo(c, j - 1))
  BY DEF ChainOK
<1>. QED BY <1>1, <1>2, ZenonT(30) DEF BlockOK

\* A block that start_block has begun
Started(db, time, p) ==
    \E incomplete, speculative, activate \in BOOLEAN :
        p = StartBlock(db, time, incomplete, speculative, activate)

\* The part of start_block that concerns transactions
LEMMA StartOK ==
    ASSUME NEW c, ChainOK(c), NEW time \in Nat, c[Len(c)].time < time,
           NEW p, Started(c[Len(c)].db, time, p)
    PROVE  /\ IsPending(p) /\ NextOK(c, p)
           /\ p.metas = {} /\ p.time = time
<1>0. PICK incomplete \in BOOLEAN, speculative \in BOOLEAN, activate \in BOOLEAN :
          p = StartBlock(c[Len(c)].db, time, incomplete, speculative, activate)
  BY DEF Started
<1>. DEFINE n == Len(c)
            h == c[n]
            on == OnActivationReplaceDeferred(h.db)
            d == IF activate THEN on ELSE h.db
            e == ClearExpiredInputTransactions(d, time)
<1>1. n \in Nat \ {0} /\ BlockOK(h, InputsTo(c, n - 1), RetiredTo(c, n - 1))
  BY ChainFacts DEF ChainOK
<1>2. /\ IsPending(p) /\ p.time = time
      /\ p.receipts = <<>> /\ p.metas = {} /\ (p.db = h.db \/ p.db = e)
  BY <1>0, ZenonT(30) DEF StartBlock, IsPending, IsRecord
<1>3. DbOK(h.db) /\ h.time \in Nat
  BY <1>1 DEF BlockOK
<1>4. DbOK(d) /\ d.generated = h.db.generated /\ d.recorded = h.db.recorded
  BY <1>3, ActivateOK
<1>. HIDE DEF d
<1>5. /\ DbOK(e) /\ e.generated = h.db.generated
      /\ e.recorded = {t \in h.db.recorded : time <= Expire[t]}
  BY <1>4, ClearOK
<1>. HIDE DEF e, n
<1>6. /\ DbOK(p.db) /\ p.db.generated = h.db.generated
      /\ \A t \in Input : t \in h.db.recorded => t \in p.db.recorded \/ Expire[t] < time
  BY <1>2, <1>3, <1>5, TimesAssumption
<1>7. /\ InputsTo(c, n) = InputsTo(c, n - 1) \cup h.metas
      /\ RetiredTo(c, n) = RetiredTo(c, n - 1) \cup RetiredIn(h.receipts)
  BY <1>1, ToNext
<1>8. InputsTo(c, n) \subseteq Input
  BY <1>1, ChainFacts DEF n
<1>9. \A i \in 1..n : c[i].time < time
  <2>1. \A i \in 1..n : c[i].time \in Nat
    BY ZenonT(30) DEF ChainOK, BlockOK, n
  <2>2. n \in 1..n /\ \A i, j \in 1..n : i < j => c[i].time < c[j].time
    BY <1>1 DEF ChainOK, n
  <2>3. \A i \in 1..n : i < n => c[i].time < h.time
    BY <2>2
  <2>4. h.time < time
    BY DEF n
  <2>. QED BY <1>1, <1>3, <2>1, <2>3, <2>4
<1>10. RetiredIn(<<>>) = {} /\ InputsIn(<<>>) = {} /\ ReceiptsOK(<<>>)
  BY DEF RetiredIn, InputsIn, ReceiptsOK
<1>11. \A t \in InputsTo(c, n) : t \in p.db.recorded \/ Expire[t] < time
  <2>1. \A t \in InputsTo(c, n) : t \in h.db.recorded \/ Expire[t] < h.time
    BY <1>1, <1>7, ZenonT(30) DEF BlockOK
  <2>. QED BY <1>3, <1>6, <1>8, <2>1, TimesAssumption DEF n
<1>12. OriginsOK(p.db, InputsTo(c, n), RetiredTo(c, n))
  BY <1>1, <1>6, <1>7, ZenonT(30) DEF BlockOK, OriginsOK
<1>13. time \in Nat \ {0}
  BY <1>3 DEF n
<1>14. BlockOK(p, InputsTo(c, n), RetiredTo(c, n))
  BY <1>2, <1>6, <1>10, <1>11, <1>12, <1>13, ZenonT(30) DEF BlockOK
<1>. QED BY <1>2, <1>9, <1>14 DEF NextOK, n


\* commit_block: the pending block becomes the head.
LEMMA AppendOK ==
    ASSUME NEW c, ChainOK(c), NEW b, NextOK(c, b), NEW d, d = Append(c, Committed(b))
    PROVE  /\ ChainOK(d) /\ Len(d) = Len(c) + 1
           /\ \A i \in 1..Len(c) : d[i] = c[i]
           /\ MetasOf(d) = MetasOf(c) \cup b.metas
<1>. DEFINE n == Len(c)
            k == Committed(b)
<1>1. n \in Nat \ {0} /\ MetasOf(c) = InputsTo(c, n)
  BY ChainFacts
<1>2. /\ IsSequence(d) /\ Len(d) = n + 1 /\ d[n + 1] = k
      /\ \A i \in 1..n : d[i] = c[i]
  <2>. DEFINE S == {c[i] : i \in 1..Len(c)}
  <2>1. c \in Seq(S)
    BY DEF ChainOK, IsSequence
  <2>. HIDE DEF S, k
  <2>2. c \in Seq(S \cup {k}) /\ k \in S \cup {k}
    BY <2>1
  <2>3. d \in Seq(S \cup {k})
    BY <2>2 DEF k
  <2>4. /\ Len(d) = n + 1 /\ d[n + 1] = k
        /\ \A i \in 1..n : d[i] = c[i]
    BY <2>2 DEF k
  <2>. QED BY <2>3, <2>4, Sequenced, ZenonT(30)
<1>3. k.time = b.time /\ k.receipts = b.receipts /\ k.metas = b.metas /\ k.db = b.db
  BY DEF Committed
<1>. HIDE DEF k, n
<1>4. \A j \in 0..n : InputsTo(d, j) = InputsTo(c, j) /\ RetiredTo(d, j) = RetiredTo(c, j)
  BY <1>1, <1>2, ToSame, ZenonT(30)
<1>5. BlockOK(b, InputsTo(d, n), RetiredTo(d, n))
  BY <1>1, <1>4 DEF NextOK, n
<1>6. BlockOK(d[n + 1], InputsTo(d, n), RetiredTo(d, n))
  BY <1>2, <1>3, <1>5 DEF BlockOK
<1>7. \A j \in 1..n : BlockOK(d[j], InputsTo(d, j - 1), RetiredTo(d, j - 1))
  <2>. SUFFICES ASSUME NEW j \in 1..n
                PROVE  BlockOK(d[j], InputsTo(d, j - 1), RetiredTo(d, j - 1))
    BY ZenonT(30)
  <2>1. j - 1 \in 0..n
    BY <1>1
  <2>2. BlockOK(c[j], InputsTo(c, j - 1), RetiredTo(c, j - 1))
    BY DEF ChainOK, n
  <2>. QED BY <1>2, <1>4, <2>1, <2>2, ZenonT(30)
<1>8. \A j \in 1..Len(d) : BlockOK(d[j], InputsTo(d, j - 1), RetiredTo(d, j - 1))
  <2>1. \A j \in 1..Len(d) : j \in 1..n \/ (j = n + 1 /\ j - 1 = n)
    BY <1>1, <1>2
  <2>. QED BY <1>6, <1>7, <2>1
<1>9. \A i, j \in 1..Len(d) : i < j => d[i].time < d[j].time
  <2>1. \A i, j \in 1..n : i < j => c[i].time < c[j].time
    BY DEF ChainOK, n
  <2>2. \A i \in 1..n : c[i].time < b.time
    BY DEF NextOK, n
  <2>. QED BY <1>1, <1>2, <1>3, <2>1, <2>2
<1>10. ChainOK(d)
  BY <1>1, <1>2, <1>8, <1>9 DEF ChainOK
<1>11. MetasOf(d) = InputsTo(c, n) \cup b.metas
  <2>1. MetasOf(d) = InputsTo(d, n + 1)
    BY <1>2, <1>10, ChainFacts, ZenonT(30)
  <2>2. InputsTo(d, n + 1) = InputsTo(d, n) \cup d[n + 1].metas
    <3>1. n + 1 \in Nat \ {0} /\ (n + 1) - 1 = n
      BY <1>1
    <3>2. InputsTo(d, n + 1) = InputsTo(d, (n + 1) - 1) \cup d[n + 1].metas
      BY <3>1, ToNext, ZenonT(30)
    <3>. QED BY <3>1, <3>2, ZenonT(30)
  <2>. QED BY <1>1, <1>2, <1>3, <1>4, <2>1, <2>2
<1>. QED BY <1>1, <1>2, <1>10, <1>11 DEF n

\* What is left of a chain after blocks have been popped is a chain.
LEMMA PrefixOK ==
    ASSUME NEW c, ChainOK(c), NEW k \in 1..Len(c), NEW d, d = SubSeq(c, 1, k)
    PROVE  /\ ChainOK(d) /\ Len(d) = k /\ \A i \in 1..k : d[i] = c[i]
           /\ MetasOf(d) = InputsTo(c, k)
<1>1. Len(c) \in Nat \ {0} /\ k \in Nat \ {0}
  BY ChainFacts
<1>2. IsSequence(d) /\ Len(d) = k /\ \A i \in 1..k : d[i] = c[i]
  <2>. DEFINE S == {c[i] : i \in 1..Len(c)}
  <2>1. c \in Seq(S)
    BY DEF ChainOK, IsSequence
  <2>. HIDE DEF S
  <2>2. d \in Seq(S) /\ Len(d) = k /\ \A i \in 1..k : d[i] = c[i]
    BY <1>1, <2>1
  <2>. QED BY <2>2, Sequenced, ZenonT(30)
<1>3. \A j \in 0..k : InputsTo(d, j) = InputsTo(c, j) /\ RetiredTo(d, j) = RetiredTo(c, j)
  BY <1>1, <1>2, ToSame, ZenonT(30)
<1>4. \A j \in 1..k : BlockOK(d[j], InputsTo(d, j - 1), RetiredTo(d, j - 1))
  <2>. SUFFICES ASSUME NEW j \in 1..k
                PROVE  BlockOK(d[j], InputsTo(d, j - 1), RetiredTo(d, j - 1))
    OBVIOUS
  <2>1. j - 1 \in 0..k /\ j \in 1..Len(c)
    BY <1>1
  <2>2. BlockOK(c[j], InputsTo(c, j - 1), RetiredTo(c, j - 1))
    BY <2>1 DEF ChainOK
  <2>. QED BY <1>2, <1>3, <2>1, <2>2
<1>5. \A i, j \in 1..k : i < j => d[i].time < d[j].time
  <2>1. \A i, j \in 1..Len(c) : i < j => c[i].time < c[j].time
    BY ZenonT(30) DEF ChainOK
  <2>2. 1..k \subseteq 1..Len(c)
    BY <1>1
  <2>. QED BY <1>2, <2>1, <2>2
<1>6. ChainOK(d)
  <2>1. k > 0
    BY <1>1
  <2>2. IsSequence(d) /\ Len(d) > 0
    BY <1>2, <2>1
  <2>3. \A j \in 1..Len(d) : BlockOK(d[j], InputsTo(d, j - 1), RetiredTo(d, j - 1))
    BY <1>2, <1>4, ZenonT(30)
  <2>4. \A i, j \in 1..Len(d) : i < j => d[i].time < d[j].time
    BY <1>2, <1>5, ZenonT(30)
  <2>. QED BY <2>2, <2>3, <2>4, ZenonT(30) DEF ChainOK
<1>7. MetasOf(d) = InputsTo(d, k)
  BY <1>2, <1>6, ChainFacts, ZenonT(30)
<1>8. k \in 0..k
  BY <1>1
<1>. QED BY <1>2, <1>3, <1>6, <1>7, <1>8


\* The two parts of a chain have applied different transactions.
LEMMA PartsOK ==
    ASSUME NEW base, NEW rest, IsSequence(base), IsSequence(rest), ChainOK(base \o rest)
    PROVE  /\ MetasOf(base \o rest) = MetasOf(base) \cup MetasOf(rest)
           /\ MetasOf(base) \cap MetasOf(rest) = {}
<1>. DEFINE n == Len(base)
            m == Len(rest)
            c == base \o rest
<1>1. /\ n \in Nat /\ m \in Nat /\ Len(c) = n + m
      /\ DOMAIN base = 1..n /\ DOMAIN rest = 1..m /\ DOMAIN c = 1..(n + m)
      /\ \A i \in 1..n : c[i] = base[i]
      /\ \A j \in 1..m : c[n + j] = rest[j]
  <2>. DEFINE S == {base[i] : i \in 1..Len(base)}
              T == {rest[i] : i \in 1..Len(rest)}
  <2>1. base \in Seq(S) /\ rest \in Seq(T)
    BY DEF IsSequence
  <2>. HIDE DEF S, T
  <2>2. base \in Seq(S \cup T) /\ rest \in Seq(S \cup T)
    BY <2>1
  <2>. QED BY <2>2
<1>2. ChainOK(c)
  OBVIOUS
<1>. HIDE DEF c, n, m
<1>3. \A k \in DOMAIN c : k \in 1..n \/ \E j \in 1..m : k = n + j
  <2>. SUFFICES ASSUME NEW k \in 1..(n + m), k \notin 1..n PROVE k - n \in 1..m /\ k = n + (k - n)
    BY <1>1
  <2>. QED BY <1>1
<1>4. MetasOf(c) = MetasOf(base) \cup MetasOf(rest)
  <2>1. \A i \in 1..n : i \in DOMAIN c
    BY <1>1
  <2>2. \A j \in 1..m : n + j \in DOMAIN c
    BY <1>1
  <2>3. ASSUME NEW t \in MetasOf(c) PROVE t \in MetasOf(base) \cup MetasOf(rest)
    <3>1. PICK k \in DOMAIN c : t \in c[k].metas
      BY DEF MetasOf
    <3>2. CASE k \in 1..n
      BY <1>1, <3>1, <3>2 DEF MetasOf
    <3>3. CASE \E j \in 1..m : k = n + j
      BY <1>1, <3>1, <3>3 DEF MetasOf
    <3>. QED BY <1>3, <3>2, <3>3
  <2>4. ASSUME NEW t \in MetasOf(base) PROVE t \in MetasOf(c)
    BY <1>1, <2>1 DEF MetasOf
  <2>5. ASSUME NEW t \in MetasOf(rest) PROVE t \in MetasOf(c)
    BY <1>1, <2>2 DEF MetasOf
  <2>. QED BY <2>3, <2>4, <2>5
<1>5. ASSUME NEW i \in 1..n, NEW j \in 1..m PROVE base[i].metas \cap rest[j].metas = {}
  <2>1. n + j \in 1..Len(c) /\ i \in 1..((n + j) - 1)
    BY <1>1
  <2>2. InputsTo(c, (n + j) - 1) \cap c[n + j].metas = {}
    BY <1>2, <2>1, ZenonT(30) DEF ChainOK, BlockOK
  <2>3. c[i].metas \subseteq InputsTo(c, (n + j) - 1)
    BY <2>1 DEF InputsTo
  <2>. QED BY <1>1, <2>2, <2>3
<1>6. MetasOf(base) \cap MetasOf(rest) = {}
  BY <1>1, <1>5 DEF MetasOf
<1>. QED BY <1>4, <1>6 DEF c

\* A sequence is its beginning followed by its end.
LEMMA Rejoined ==
    ASSUME NEW S, NEW c \in Seq(S), NEW k \in 0..Len(c)
    PROVE  /\ SubSeq(c, k + 1, Len(c)) \in Seq(S)
           /\ Len(SubSeq(c, k + 1, Len(c))) = Len(c) - k
           /\ SubSeq(c, 1, k) \o SubSeq(c, k + 1, Len(c)) = c
<1>. DEFINE base == SubSeq(c, 1, k)
            rest == SubSeq(c, k + 1, Len(c))
            n == Len(c) - k
<1>1. Len(c) \in Nat /\ k \in Nat /\ n \in Nat /\ Len(c) = k + n
  OBVIOUS
<1>2. base \in Seq(S) /\ Len(base) = k /\ \A i \in 1..k : base[i] = c[i]
  BY <1>1
<1>. HIDE DEF n
<1>3. rest \in Seq(S) /\ Len(rest) = n /\ \A i \in 1..n : rest[i] = c[k + i]
  <2>1. k + 1 \in 1..(Len(c) + 1) /\ Len(c) - (k + 1) + 1 = n
    BY <1>1
  <2>2. Len(rest) = n
    BY <1>1, <2>1
  <2>3. \A i \in 1..n : rest[i] = c[k + i]
    BY <1>1, <2>1
  <2>4. rest \in Seq(S)
    BY <1>1, <2>1
  <2>. QED BY <2>2, <2>3, <2>4
<1>. HIDE DEF base, rest
<1>4. /\ base \o rest \in Seq(S) /\ Len(base \o rest) = k + n
      /\ \A i \in 1..(k + n) :
            (base \o rest)[i] = IF i <= k THEN base[i] ELSE rest[i - k]
  <2>1. base \o rest \in Seq(S)
    BY <1>2, <1>3
  <2>2. Len(base \o rest) = k + n
    BY <1>2, <1>3, JoinedLength, ZenonT(30)
  <2>3. \A i \in 1..(Len(base) + Len(rest)) :
            (base \o rest)[i] = IF i <= Len(base) THEN base[i] ELSE rest[i - Len(base)]
    BY <1>2, <1>3
  <2>. QED BY <1>2, <1>3, <2>1, <2>2, <2>3
<1>5. ASSUME NEW i \in 1..(k + n) PROVE (base \o rest)[i] = c[i]
  <2>1. CASE i <= k
    BY <1>1, <1>2, <1>4, <2>1
  <2>2. CASE ~(i <= k)
    <3>1. i - k \in 1..n /\ k + (i - k) = i
      BY <1>1, <2>2
    <3>. QED BY <1>3, <1>4, <2>2, <3>1
  <2>. QED BY <2>1, <2>2, ZenonT(30)
<1>6. base \o rest = c
  <2>. DEFINE e == base \o rest
  <2>1. e \in Seq(S) /\ Len(e) = Len(c) /\ \A i \in 1..Len(c) : e[i] = c[i]
    BY <1>1, <1>4, <1>5
  <2>. HIDE DEF e
  <2>2. e = c
    BY <2>1
  <2>. QED BY <2>2 DEF e
<1>. QED BY <1>3, <1>6, ZenonT(30) DEF base, rest, n

\* All of a sequence, as a subsequence
LEMMA WholeSequence ==
    ASSUME NEW s, IsSequence(s)
    PROVE  SubSeq(s, 1, Len(s)) = s
<1>. DEFINE S == {s[i] : i \in 1..Len(s)}
<1>1. s \in Seq(S)
  BY DEF IsSequence
<1>. HIDE DEF S
<1>. QED BY <1>1

\* Chains that agree up to block k begin with the same chain.
LEMMA SamePrefix ==
    ASSUME NEW c, NEW d, ChainOK(c), ChainOK(d), NEW k \in Nat, k <= Len(c), k <= Len(d),
           \A i \in 1..k : c[i] = d[i]
    PROVE  SubSeq(c, 1, k) = SubSeq(d, 1, k)
<1>. DEFINE S == {c[i] : i \in 1..Len(c)} \cup {d[i] : i \in 1..Len(d)}
<1>1. c \in Seq(S) /\ d \in Seq(S)
  <2>1. /\ c \in Seq({c[i] : i \in 1..Len(c)})
        /\ d \in Seq({d[i] : i \in 1..Len(d)})
    BY DEF ChainOK, IsSequence
  <2>. QED BY <2>1
<1>. HIDE DEF S
<1>2. /\ SubSeq(c, 1, k) \in Seq(S) /\ Len(SubSeq(c, 1, k)) = k
      /\ \A i \in 1..k : SubSeq(c, 1, k)[i] = c[i]
  BY <1>1
<1>3. /\ SubSeq(d, 1, k) \in Seq(S) /\ Len(SubSeq(d, 1, k)) = k
      /\ \A i \in 1..k : SubSeq(d, 1, k)[i] = d[i]
  BY <1>1
<1>. DEFINE e == SubSeq(c, 1, k)
            f == SubSeq(d, 1, k)
<1>4. /\ e \in Seq(S) /\ f \in Seq(S) /\ Len(e) = k /\ Len(f) = k
      /\ \A i \in 1..k : e[i] = f[i]
  BY <1>2, <1>3
<1>. HIDE DEF e, f
<1>5. e = f
  BY <1>4
<1>. QED BY <1>5 DEF e, f

\* One more block of the other fork
LEMMA GoesBackFurther ==
    ASSUME NEW c, NEW d, ChainOK(c), ChainOK(d), Len(d) = Len(c) + 1,
           \A i \in 1..Len(c) : d[i] = c[i],
           NEW left, NEW more, CanGoBack(c, left, more), more > 1
    PROVE  CanGoBack(d, left, more - 1)
<1>. DEFINE n == Applied(left, more)
            k == Len(c) - n
<1>1. Len(left) \in Nat /\ Len(c) \in Nat /\ more \in 2..(Len(left) + 1)
  BY SequenceFacts, ChainFacts DEF CanGoBack
<1>2. n \in Nat /\ n < Len(c) /\ Applied(left, more - 1) = n + 1
  BY <1>1 DEF CanGoBack, Applied
<1>. HIDE DEF n
<1>3. k \in Nat /\ k <= Len(c) /\ k <= Len(d) /\ Len(d) - (n + 1) = k /\ n + 1 < Len(d)
  BY <1>1, <1>2
<1>. HIDE DEF k
<1>4. \A i \in 1..k : d[i] = c[i]
  BY <1>1, <1>3
<1>5. SubSeq(d, 1, k) = SubSeq(c, 1, k)
  BY <1>3, <1>4, SamePrefix
<1>6. ChainOK(SubSeq(d, 1, k) \o left)
  BY <1>5, ZenonT(30) DEF CanGoBack, k, n
<1>. QED BY <1>1, <1>2, <1>3, <1>6 DEF CanGoBack

\* A chain and what is left when the last n blocks are popped
Popped(c, n, base, rest) ==
    base = SubSeq(c, 1, Len(c) - n) /\ rest = SubSeq(c, Len(c) - n + 1, Len(c))

\* pop_block leaves a chain, whose transactions and those of the popped blocks are apart.
LEMMA PoppedOK ==
    ASSUME NEW c, ChainOK(c), NEW n \in Nat, n < Len(c), NEW base, NEW rest,
           Popped(c, n, base, rest)
    PROVE  /\ ChainOK(base) /\ IsSequence(base) /\ Len(base) = Len(c) - n
           /\ IsSequence(rest) /\ Len(rest) = n /\ base \o rest = c
           /\ MetasOf(c) = MetasOf(base) \cup MetasOf(rest)
           /\ MetasOf(base) \cap MetasOf(rest) = {}
<1>. base = SubSeq(c, 1, Len(c) - n) /\ rest = SubSeq(c, Len(c) - n + 1, Len(c))
  BY DEF Popped
<1>. DEFINE k == Len(c) - n
<1>1. Len(c) \in Nat /\ k \in 1..Len(c) /\ Len(c) - k = n
  BY ChainFacts
<1>2. ChainOK(base) /\ Len(base) = k
  BY <1>1, PrefixOK, ZenonT(30)
<1>3. IsSequence(rest) /\ Len(rest) = n /\ base \o rest = c
  <2>. DEFINE S == {c[i] : i \in 1..Len(c)}
  <2>1. c \in Seq(S)
    BY DEF ChainOK, IsSequence
  <2>. HIDE DEF S, k
  <2>2. base = SubSeq(c, 1, k) /\ rest = SubSeq(c, k + 1, Len(c))
    BY DEF k
  <2>3. k \in 0..Len(c)
    BY <1>1
  <2>4. /\ SubSeq(c, k + 1, Len(c)) \in Seq(S)
        /\ Len(SubSeq(c, k + 1, Len(c))) = Len(c) - k
        /\ SubSeq(c, 1, k) \o SubSeq(c, k + 1, Len(c)) = c
    BY <2>1, <2>3, Rejoined, ZenonT(30)
  <2>5. rest \in Seq(S) /\ Len(rest) = n /\ base \o rest = c
    BY <1>1, <2>2, <2>4, ZenonT(30)
  <2>. QED BY <2>5, Sequenced, ZenonT(30)
<1>4. IsSequence(base)
  BY <1>2 DEF ChainOK
<1>5. ChainOK(base \o rest) /\ IsSequence(base) /\ IsSequence(rest)
  BY <1>3, <1>4, ZenonT(30)
<1>6. /\ MetasOf(base \o rest) = MetasOf(base) \cup MetasOf(rest)
      /\ MetasOf(base) \cap MetasOf(rest) = {}
  BY ONLY <1>5, PartsOK
<1>. QED BY <1>2, <1>3, <1>4, <1>6, ZenonT(30)

\* The database of the genesis block has no transactions, and nobody pays for any.
LEMMA GenesisOK ==
    ASSUME FiniteFacts
    PROVE  DbOK(GenesisDb)
<1>. DEFINE db == GenesisDb
<1>1. /\ IsRecord(db, {"recorded", "generated", "ram", "correction", "replace_deferred"})
      /\ db.recorded = {} /\ db.generated = {}
      /\ db.ram = [a \in Payer |-> 0] /\ db.correction = [a \in Payer |-> 0]
  BY ZenonT(30) DEF GenesisDb, IsRecord
<1>. HIDE DEF db
<1>2. IsFiniteSet({}) /\ Cardinality({}) = 0
  BY DEF FiniteFacts
<1>3. \A a \in Payer : PaidBy(db.generated, a) = {}
  BY <1>1 DEF PaidBy
<1>4. DbOK(db)
  BY <1>1, <1>2, <1>3 DEF DbOK
<1>. QED BY <1>4 DEF db

\* Lists of receipts with one of the same transaction have an id in common.
LEMMA CommonReceipt ==
    ASSUME NEW r, NEW s, NEW x \in 1..Len(r), NEW y \in 1..Len(s), SameTransaction(r[x], s[y])
    PROVE  \/ InputsIn(r) \cap InputsIn(s) # {}
           \/ RetiredIn(r) \cap RetiredIn(s) # {}
<1>1. r[x][2] = s[y][2] /\ (r[x][1] = "input" <=> s[y][1] = "input")
  BY DEF SameTransaction
<1>2. CASE r[x][1] = "input"
  <2>1. r[x][2] \in InputsIn(r) /\ s[y][2] \in InputsIn(s)
    BY <1>1, <1>2 DEF InputsIn
  <2>. QED BY <1>1, <2>1
<1>3. CASE r[x][1] # "input"
  <2>1. r[x][2] \in RetiredIn(r) /\ s[y][2] \in RetiredIn(s)
    BY <1>1, <1>3 DEF RetiredIn
  <2>. QED BY <1>1, <2>1
<1>. QED BY <1>2, <1>3

\* Blocks at different heights of a chain have no transaction in common.
LEMMA OnceOnChain ==
    ASSUME NEW c, ChainOK(c), NEW i \in 1..Len(c), NEW j \in 1..Len(c),
           NEW k \in DOMAIN c[i].receipts, NEW l \in DOMAIN c[j].receipts,
           SameTransaction(c[i].receipts[k], c[j].receipts[l])
    PROVE  i = j /\ k = l
<1>1. ASSUME NEW h \in 1..Len(c)
      PROVE  /\ BlockOK(c[h], InputsTo(c, h - 1), RetiredTo(c, h - 1))
             /\ ReceiptsOK(c[h].receipts) /\ DOMAIN c[h].receipts = 1..Len(c[h].receipts)
  <2>1. BlockOK(c[h], InputsTo(c, h - 1), RetiredTo(c, h - 1))
    BY DEF ChainOK
  <2>2. ReceiptsOK(c[h].receipts)
    BY <2>1 DEF BlockOK
  <2>3. DOMAIN c[h].receipts = 1..Len(c[h].receipts)
    BY <2>2 DEF ReceiptsOK
  <2>. QED BY <2>1, <2>2, <2>3
<1>2. ASSUME NEW a \in 1..Len(c), NEW b \in 1..Len(c), a < b,
             NEW x \in DOMAIN c[a].receipts, NEW y \in DOMAIN c[b].receipts,
             SameTransaction(c[a].receipts[x], c[b].receipts[y])
      PROVE  FALSE
  <2>1. a \in 1..(b - 1)
    BY <1>2
  <2>2. x \in 1..Len(c[a].receipts) /\ y \in 1..Len(c[b].receipts)
    BY <1>1, ZenonT(30)
  <2>3. \/ InputsIn(c[a].receipts) \cap InputsIn(c[b].receipts) # {}
        \/ RetiredIn(c[a].receipts) \cap RetiredIn(c[b].receipts) # {}
    BY <1>2, <2>2, CommonReceipt, ZenonT(30)
  <2>4. /\ InputsIn(c[a].receipts) = c[a].metas /\ InputsIn(c[b].receipts) = c[b].metas
        /\ InputsTo(c, b - 1) \cap c[b].metas = {}
        /\ RetiredTo(c, b - 1) \cap RetiredIn(c[b].receipts) = {}
    BY <1>1, Zenon DEF BlockOK
  <2>5. c[a].metas \subseteq InputsTo(c, b - 1)
        /\ RetiredIn(c[a].receipts) \subseteq RetiredTo(c, b - 1)
    BY <2>1, Zenon DEF InputsTo, RetiredTo
  <2>. QED BY <2>3, <2>4, <2>5
<1>3. SameTransaction(c[j].receipts[l], c[i].receipts[k])
  BY DEF SameTransaction
<1>4. i = j
  BY <1>2, <1>3
<1>. QED BY <1>1, <1>4, ZenonT(30) DEF ReceiptsOK
================================================================================
