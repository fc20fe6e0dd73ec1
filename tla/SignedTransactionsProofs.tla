----------------------- MODULE SignedTransactionsProofs -----------------------
(***************************************************************************)
(* The keys that a transaction's metadata answers with are those of its    *)
(* signatures, for any transactions, any number of metadata objects and    *)
(* pool threads and any size of the cache.                                 *)
(***************************************************************************)
EXTENDS SignedTransactions, SequenceTheorems, TLAPS

\* What packed_transaction holds of a transaction that was unpacked.
Unpacked(s) == [id |-> s.id, cfd |-> s.cfd, sigs |-> s.sigs]

\* The keys that the first n signatures of a transaction give.
KeysOf(s, n) == {RecoverKey(s.sigs[i], SigDigest(s)) : i \in 1..n}

\* The entries that are right: the key is the one that the signature gives for the id.
RightEntries ==
    UNION {{[sig |-> s.sigs[i], id |-> s.id, key |-> RecoverKey(s.sigs[i], SigDigest(s))] :
               i \in DOMAIN s.sigs} : s \in SignedTrxs}

TwoByOneKey(s) == \E i, j \in DOMAIN s.sigs :
    i # j /\ RecoverKey(s.sigs[i], SigDigest(s)) = RecoverKey(s.sigs[j], SigDigest(s))

Keys == UNION {Signers(s) : s \in SignedTrxs}

Futures == [state : {"none", "queued", "running", "done", "threw"}, keys : SUBSET Keys, timed : BOOLEAN]

MetaRecords == [held : BOOLEAN, sent : Seq(SignedTrxs),
                unpacked : Seq({Unpacked(s) : s \in SignedTrxs}), future : Futures]

\* The future's keys, once it has them, are the signers of the transaction.
FutureRight(s, f) ==
    /\ f \in Futures
    /\ f.state = "done" => f.keys = Signers(s)
    /\ f.state = "threw" => f.timed \/ TwoByOneKey(s)

\* A metadata object that is not gone holds what was sent.
MetaRight(r) ==
    /\ r \in MetaRecords
    /\ \E s \in SignedTrxs : r.sent = <<s>> /\ r.unpacked = <<Unpacked(s)>> /\ FutureRight(s, r.future)

Active(t) == task[t].at # "idle"

\* A call has the keys of the signatures it has passed; a pool thread works on an object whose
\* future runs, the main thread on one that has no future.
TaskRight(t) ==
    LET k == task[t]
        r == meta[k.meta]
    IN  /\ k \in [at : {"sig", "recover"}, meta : Metas, next : Nat, keys : SUBSET Keys]
        /\ r # NoMeta
        /\ r.future.state = IF t = Main THEN "none" ELSE "running"
        /\ t = Main => r.held
        /\ k.next \in 1..(Len(r.sent[1].sigs) + 1)
        /\ k.at = "recover" => k.next =< Len(r.sent[1].sigs)
        /\ k.keys = KeysOf(r.sent[1], k.next - 1)

\* Every object and every call is right, and no two calls share an object: only so does an
\* object outlive the call that works on it.
ObjectsRight ==
    /\ meta = [m \in Metas |-> meta[m]]
    /\ task = [t \in RecoveryThreads |-> task[t]]
    /\ \A m \in Metas : meta[m] = NoMeta \/ MetaRight(meta[m])
    /\ \A t \in RecoveryThreads : task[t] = NoTask \/ TaskRight(t)
    /\ \A t, u \in RecoveryThreads : Active(t) /\ Active(u) /\ t # u => task[t].meta # task[u].meta

\* The inductive invariant.
SignedInv == ObjectsRight /\ cache \in Seq(RightEntries)

-------------------------------------------------------------------------------

\* However a transaction was packed, a constructor of packed_transaction that does not throw
\* gives the transaction that was sent.
LEMMA ConstructedIsSent ==
    ASSUME NEW s \in SignedTrxs, NEW c \in Compressions, NEW p \in Constructed(s, c),
           Failed \notin {p.id, p.cfd}
    PROVE  p = Unpacked(s)
<1>1. LocalUnpackTransaction(c, PackBytes(c, s.id, s.big)) \in {Failed, s.id}
  BY DEF LocalUnpackTransaction, UnpackBytes, PackBytes
<1>2. LocalUnpackContextFreeData(c, LocalPackContextFreeData(c, s.cfd)) \in {Failed, s.cfd}
  BY DEF LocalUnpackContextFreeData, LocalPackContextFreeData, UnpackBytes, PackBytes
<1>3. LocalPackTransaction(c, s) \in {Failed, s.id}
  BY DEF LocalPackTransaction
<1> QED
  BY <1>1, <1>2, <1>3
     DEF Constructed, FromSigned, FromPacked, FromPackedAndData, FromTransaction, Unpacked

\* A hit in the cache has the key that the signature gives for this transaction, although
\* the cache does not know the transaction's context-free data.
LEMMA HitIsRight ==
    ASSUME cache \in Seq(RightEntries), NEW s \in SignedTrxs, NEW i \in DOMAIN s.sigs,
           NEW e \in Hit(s.sigs[i], s.id)
    PROVE  e.key = RecoverKey(s.sigs[i], SigDigest(s))
<1>1. e \in RightEntries /\ e.sig = s.sigs[i] /\ e.id = s.id
  BY DEF Hit, Range
<1>2. PICK t \in SignedTrxs : \E j \in DOMAIN t.sigs :
          e = [sig |-> t.sigs[j], id |-> t.id, key |-> RecoverKey(t.sigs[j], SigDigest(t))]
  BY <1>1 DEF RightEntries
<1>3. PICK j \in DOMAIN t.sigs :
          e = [sig |-> t.sigs[j], id |-> t.id, key |-> RecoverKey(t.sigs[j], SigDigest(t))]
  BY <1>2
<1>4. t.sigs[j] = s.sigs[i] /\ t.id = s.id /\ e.key = RecoverKey(t.sigs[j], SigDigest(t))
  BY <1>1, <1>3
<1>5. SigDigest(t) = SigDigest(s)
  BY <1>4, IdIsWhole DEF SigDigest
<1> QED
  BY <1>4, <1>5

\* What an active call knows: its object is there and is not another call's.
LEMMA ActiveTask ==
    ASSUME ObjectsRight, NEW t \in RecoveryThreads, task[t].at # "idle"
    PROVE  /\ TaskRight(t)
           /\ task[t].meta \in Metas
           /\ MetaRight(meta[task[t].meta])
           /\ meta[task[t].meta].sent[1] \in SignedTrxs
           /\ CurrentTrx(t) = Unpacked(meta[task[t].meta].sent[1])
<1>1. TaskRight(t)
  BY SMTT(30) DEF ObjectsRight, NoTask
<1>2. task[t].meta \in Metas /\ MetaRight(meta[task[t].meta])
  BY <1>1, ZenonT(30) DEF TaskRight, ObjectsRight
<1>3. PICK s \in SignedTrxs :
          meta[task[t].meta].sent = <<s>> /\ meta[task[t].meta].unpacked = <<Unpacked(s)>>
  BY <1>2 DEF MetaRight
<1> QED
  BY <1>1, <1>2, <1>3 DEF CurrentTrx

\* A step that changes one object, on which no call works, and starts no call.
LEMMA ObjectChanged ==
    ASSUME ObjectsRight, NEW m \in Metas, NEW r, r = NoMeta \/ MetaRight(r),
           \A t \in RecoveryThreads : Active(t) => task[t].meta # m,
           meta' = [meta EXCEPT ![m] = r], UNCHANGED task
    PROVE  ObjectsRight'
<1>1. \A n \in Metas : meta'[n] = IF n = m THEN r ELSE meta[n]
  BY DEF ObjectsRight
<1>2. meta' = [n \in Metas |-> meta'[n]] /\ \A n \in Metas : meta'[n] = NoMeta \/ MetaRight(meta'[n])
  BY <1>1 DEF ObjectsRight
<1>3. ASSUME NEW t \in RecoveryThreads PROVE task'[t] = NoTask \/ TaskRight(t)'
  <2>1. CASE task[t] = NoTask
    BY <2>1, ZenonT(30)
  <2>2. CASE TaskRight(t)
    <3>1. Active(t) /\ task[t].meta \in Metas
      BY <2>2 DEF TaskRight, Active
    <3>2. meta'[task[t].meta] = meta[task[t].meta]
      BY <3>1, <1>1
    <3> QED
      BY <2>2, <3>2, ZenonT(30) DEF TaskRight
  <2> QED
    BY <2>1, <2>2 DEF ObjectsRight
<1> QED
  BY <1>2, <1>3 DEF ObjectsRight, Active

\* When a call ends its result is right, and the other calls go on (get_signature_keys).
LEMMA FinishIsRight ==
    ASSUME ObjectsRight, NEW t \in RecoveryThreads, task[t].at # "idle",
           NEW state \in {"done", "threw"}, NEW keys \in SUBSET Keys,
           state = "done" => keys = Signers(meta[task[t].meta].sent[1]),
           state = "threw" => \/ meta[task[t].meta].future.timed
                              \/ TwoByOneKey(meta[task[t].meta].sent[1]),
           Finish(t, state, keys)
    PROVE  ObjectsRight'
<1> DEFINE m == task[t].meta
<1>1. TaskRight(t) /\ m \in Metas /\ MetaRight(meta[m])
  BY ActiveTask
<1>2. \A u \in RecoveryThreads : task'[u] = IF u = t THEN NoTask ELSE task[u]
  BY DEF Finish, ObjectsRight
<1>3. \A n \in Metas \ {m} : meta'[n] = meta[n]
  BY ZenonT(30) DEF Finish, ObjectsRight
<1>4. meta'[m] \in {NoMeta, meta[m],
                    [meta[m] EXCEPT !.future.state = state, !.future.keys = keys]}
  BY <1>1, ZenonT(30) DEF Finish, ObjectsRight
<1>5. MetaRight([meta[m] EXCEPT !.future.state = state, !.future.keys = keys])
  <2>1. PICK s \in SignedTrxs : /\ meta[m].sent = <<s>> /\ meta[m].unpacked = <<Unpacked(s)>>
                                /\ FutureRight(s, meta[m].future)
    BY <1>1 DEF MetaRight
  <2>2. meta[m].sent[1] = s
    BY <2>1
  <2>3. FutureRight(s, [meta[m].future EXCEPT !.state = state, !.keys = keys])
    BY <2>1, <2>2, ZenonT(30) DEF FutureRight, Futures, Keys
  <2> DEFINE r == [meta[m] EXCEPT !.future.state = state, !.future.keys = keys]
  <2>4. meta[m] \in MetaRecords
    BY <1>1 DEF MetaRight
  <2>5. r.future = [meta[m].future EXCEPT !.state = state, !.keys = keys]
    BY <2>4 DEF MetaRecords, Futures
  <2>6. r.sent = meta[m].sent /\ r.unpacked = meta[m].unpacked /\ r.future \in Futures
    BY <2>4, <2>5, <2>3 DEF MetaRecords, Futures, FutureRight
  <2>7. r \in MetaRecords
    BY <2>4, <2>6, ZenonT(30) DEF MetaRecords
  <2> QED
    BY <2>1, <2>3, <2>5, <2>6, <2>7, ZenonT(30) DEF MetaRight
<1>6. \A n \in Metas : meta'[n] = NoMeta \/ MetaRight(meta'[n])
  BY <1>1, <1>3, <1>4, <1>5, ZenonT(30) DEF ObjectsRight
<1>7. ASSUME NEW u \in RecoveryThreads PROVE task'[u] = NoTask \/ TaskRight(u)'
  <2>1. CASE u = t \/ task[u] = NoTask
    BY <2>1, <1>2
  <2>2. CASE u # t /\ TaskRight(u)
    <3>1. task[u].meta \in Metas \ {m}
      BY <2>2, <1>1, ZenonT(30) DEF TaskRight, ObjectsRight, Active
    <3>2. meta'[task[u].meta] = meta[task[u].meta] /\ task'[u] = task[u]
      BY <3>1, <2>2, <1>2, <1>3, SMTT(30)
    <3> QED
      BY <2>2, <3>2, ZenonT(30) DEF TaskRight
  <2> QED
    BY <2>1, <2>2 DEF ObjectsRight
<1>8. meta' = [n \in Metas |-> meta'[n]] /\ task' = [u \in RecoveryThreads |-> task'[u]]
  BY ZenonT(30) DEF Finish, ObjectsRight
<1>9. \A v, u \in RecoveryThreads :
          Active(v)' /\ Active(u)' /\ v # u => task'[v].meta # task'[u].meta
  BY <1>2 DEF Active, NoTask, ObjectsRight
<1> QED
  BY <1>6, <1>7, <1>8, <1>9 DEF ObjectsRight

\* The keys of one signature more.
LEMMA OneMoreKey ==
    ASSUME NEW s \in SignedTrxs, NEW n \in DOMAIN s.sigs
    PROVE  /\ n \in Nat /\ n >= 1 /\ n =< Len(s.sigs) /\ Len(s.sigs) \in Nat
           /\ KeysOf(s, n) = KeysOf(s, n - 1) \cup {RecoverKey(s.sigs[n], SigDigest(s))}
           /\ RecoverKey(s.sigs[n], SigDigest(s)) \in Keys
           /\ RecoverKey(s.sigs[n], SigDigest(s)) \in KeysOf(s, n - 1) => TwoByOneKey(s)
<1>1. n \in 1..Len(s.sigs) /\ Len(s.sigs) \in Nat
  BY SigsAssumption
<1>2. 1..n = 1..(n - 1) \cup {n} /\ n \notin 1..(n - 1) /\ 1..(n - 1) \subseteq 1..Len(s.sigs)
  BY <1>1
<1>3. KeysOf(s, n) = KeysOf(s, n - 1) \cup {RecoverKey(s.sigs[n], SigDigest(s))}
  BY <1>2 DEF KeysOf
<1>4. RecoverKey(s.sigs[n], SigDigest(s)) \in Keys
  BY DEF Keys, Signers
<1>5. RecoverKey(s.sigs[n], SigDigest(s)) \in KeysOf(s, n - 1) => TwoByOneKey(s)
  BY <1>1, <1>2, SigsAssumption DEF KeysOf, TwoByOneKey
<1> QED
  BY <1>1, <1>3, <1>4, <1>5

\* The key of the signature a call is at is collected, or ends the call if it is there.
LEMMA CollectIsRight ==
    ASSUME ObjectsRight, NEW t \in RecoveryThreads, task[t].at # "idle",
           task[t].next =< Len(CurrentTrx(t).sigs), NEW key,
           key = RecoverKey(CurrentSig(t), SigDigest(CurrentTrx(t))),
           Collect(t, key)
    PROVE  ObjectsRight'
<1> DEFINE m == task[t].meta
           s == meta[m].sent[1]
<1>1. TaskRight(t) /\ m \in Metas /\ MetaRight(meta[m]) /\ s \in SignedTrxs /\ CurrentTrx(t) = Unpacked(s)
  BY ActiveTask
<1>0. m = task[t].meta /\ s = meta[m].sent[1]
  OBVIOUS
<1> HIDE DEF m, s
<1>2. key = RecoverKey(s.sigs[task[t].next], SigDigest(s)) /\ task[t].next =< Len(s.sigs)
  BY <1>1, SMTT(30) DEF CurrentSig, Unpacked, SigDigest
<1>3. /\ task[t] \in [at : {"sig", "recover"}, meta : Metas, next : Nat, keys : SUBSET Keys]
      /\ task[t].next \in 1..(Len(s.sigs) + 1) /\ task[t].keys = KeysOf(s, task[t].next - 1)
  BY <1>0, <1>1, ZenonT(30) DEF TaskRight
<1>4. task[t].next \in DOMAIN s.sigs
  BY <1>1, <1>2, <1>3, SigsAssumption
<1>5. /\ Len(s.sigs) \in Nat
      /\ KeysOf(s, task[t].next) = task[t].keys \cup {key} /\ key \in Keys
      /\ key \in task[t].keys => TwoByOneKey(s)
  BY <1>1, <1>2, <1>3, <1>4, OneMoreKey
<1>6. CASE key \in task[t].keys
  BY <1>0, <1>6, <1>5, FinishIsRight DEF Collect
<1>7. CASE key \notin task[t].keys
  <2> DEFINE k == [at |-> "sig", meta |-> m, next |-> task[t].next + 1, keys |-> task[t].keys \cup {key}]
  <2>0. k = [at |-> "sig", meta |-> m, next |-> task[t].next + 1, keys |-> task[t].keys \cup {key}]
    OBVIOUS
  <2>1. task' = [task EXCEPT ![t] = k] /\ UNCHANGED meta
    BY <1>7, <1>0 DEF Collect
  <2> HIDE DEF k
  <2>2. \A u \in RecoveryThreads : task'[u] = IF u = t THEN k ELSE task[u]
    BY <2>1, ZenonT(30) DEF ObjectsRight
  <2>3. /\ k \in [at : {"sig", "recover"}, meta : Metas, next : Nat, keys : SUBSET Keys]
        /\ k.at = "sig" /\ k.meta = m /\ k.next = task[t].next + 1 /\ k.keys = task[t].keys \cup {key}
    BY <1>0, <1>3, <1>5, <2>0
  <2>4. k.next \in 1..(Len(s.sigs) + 1) /\ k.next - 1 = task[t].next
    BY <2>3, <1>2, <1>3, <1>5, SMTT(30)
  <2>5. TaskRight(t)'
    <3>1. task'[t] = k /\ meta'[k.meta] = meta[task[t].meta]
      BY <2>1, <2>2, <2>3, <1>0
    <3> QED
      BY <3>1, <2>3, <2>4, <1>0, <1>1, <1>5, ZenonT(30) DEF TaskRight
  <2>6. \A u \in RecoveryThreads \ {t} : task'[u] = NoTask \/ TaskRight(u)'
    BY <2>1, <2>2, ZenonT(30) DEF ObjectsRight, TaskRight
  <2>7. \A v, u \in RecoveryThreads :
            Active(v)' /\ Active(u)' /\ v # u => task'[v].meta # task'[u].meta
    BY <1>0, <1>3, <2>2, <2>3 DEF ObjectsRight, Active
  <2> QED
    BY <2>1, <2>2, <2>5, <2>6, <2>7 DEF ObjectsRight
<1> QED
  BY <1>6, <1>7

\* A new call of get_signature_keys: a pool thread's on an object whose future now runs, the
\* main thread's on one that has none.
LEMMA TaskStarted ==
    ASSUME ObjectsRight, NEW t \in RecoveryThreads, task[t].at = "idle", NEW m \in Metas, NEW r,
           MetaRight(r), r.future.state = (IF t = Main THEN "none" ELSE "running"), t = Main => r.held,
           r.sent = meta[m].sent,
           \A u \in RecoveryThreads : Active(u) => task[u].meta # m,
           meta' = [meta EXCEPT ![m] = r],
           task' = [task EXCEPT ![t] = [at |-> "sig", meta |-> m, next |-> 1, keys |-> {}]]
    PROVE  ObjectsRight'
<1> DEFINE k == [at |-> "sig", meta |-> m, next |-> 1, keys |-> {}]
<1>1. \A n \in Metas : meta'[n] = IF n = m THEN r ELSE meta[n]
  BY DEF ObjectsRight
<1>2. \A u \in RecoveryThreads : task'[u] = IF u = t THEN k ELSE task[u]
  BY DEF ObjectsRight
<1>3. meta' = [n \in Metas |-> meta'[n]] /\ task' = [u \in RecoveryThreads |-> task'[u]]
  BY ZenonT(30) DEF ObjectsRight
<1>4. \A n \in Metas : meta'[n] = NoMeta \/ MetaRight(meta'[n])
  BY <1>1 DEF ObjectsRight
<1>5. TaskRight(t)'
  <2>1. PICK s \in SignedTrxs : r.sent = <<s>>
    BY DEF MetaRight
  <2>2. r.sent[1] = s /\ Len(s.sigs) \in Nat
    BY <2>1, SigsAssumption
  <2>3. KeysOf(s, 0) = {}
    BY DEF KeysOf
  <2>4. r # NoMeta
    BY <2>1 DEF NoMeta
  <2>5. task'[t] = k /\ meta'[m] = r
    BY <1>1, <1>2
  <2>6. k \in [at : {"sig", "recover"}, meta : Metas, next : Nat, keys : SUBSET Keys]
    OBVIOUS
  <2>7. k.next = 1 /\ k.at = "sig" /\ k.meta = m /\ k.keys = {}
    OBVIOUS
  <2>8. 1 \in 1..(Len(s.sigs) + 1) /\ 1 - 1 = 0
    BY <2>2
  <2> HIDE DEF k
  <2> QED
    BY <2>2, <2>3, <2>4, <2>5, <2>6, <2>7, <2>8, ZenonT(30) DEF TaskRight
<1>6. ASSUME NEW u \in RecoveryThreads \ {t} PROVE task'[u] = NoTask \/ TaskRight(u)'
  <2>1. CASE task[u] = NoTask
    BY <2>1, <1>2, ZenonT(30)
  <2>2. CASE TaskRight(u)
    <3>1. task[u].meta \in Metas \ {m}
      BY <2>2 DEF TaskRight, Active
    <3>2. meta'[task[u].meta] = meta[task[u].meta] /\ task'[u] = task[u]
      BY <3>1, <1>1, <1>2
    <3> QED
      BY <2>2, <3>2, ZenonT(30) DEF TaskRight
  <2> QED
    BY <2>1, <2>2 DEF ObjectsRight
<1>7. \A v, u \in RecoveryThreads :
          Active(v)' /\ Active(u)' /\ v # u => task'[v].meta # task'[u].meta
  BY <1>2 DEF ObjectsRight, Active
<1> QED
  BY <1>3, <1>4, <1>5, <1>6, <1>7 DEF ObjectsRight

\* An object whose future neither runs nor is missing is no call's; one that has no future
\* can only be the main thread's.
LEMMA NobodyWorks ==
    ASSUME ObjectsRight, NEW m \in Metas, meta[m].future.state # "running",
           meta[m].future.state = "none" => task[Main].at = "idle" \/ task[Main].meta # m
    PROVE  \A t \in RecoveryThreads : Active(t) => task[t].meta # m
<1> SUFFICES ASSUME NEW t \in RecoveryThreads, Active(t), task[t].meta = m PROVE FALSE
  OBVIOUS
<1>1. TaskRight(t)
  BY ActiveTask DEF Active
<1> QED
  BY <1>1 DEF TaskRight, Active

\* A metadata object with other contents in its future.
LEMMA FutureChanged ==
    ASSUME NEW r, MetaRight(r), NEW f \in Futures, f.state \in {"none", "queued", "running"}
    PROVE  /\ MetaRight([r EXCEPT !.future = f])
           /\ [r EXCEPT !.future = f].future = f
           /\ [r EXCEPT !.future = f].sent = r.sent /\ [r EXCEPT !.future = f].held = r.held
<1> DEFINE q == [r EXCEPT !.future = f]
<1>1. r \in MetaRecords
  BY DEF MetaRight
<1>2. q \in MetaRecords /\ q.future = f /\ q.sent = r.sent /\ q.unpacked = r.unpacked /\ q.held = r.held
  BY <1>1 DEF MetaRecords
<1>3. \A s : FutureRight(s, f)
  BY DEF FutureRight
<1> HIDE DEF q
<1>4. MetaRight(q)
  BY <1>2, <1>3 DEF MetaRight
<1> QED
  BY <1>2, <1>4 DEF q

\* Every step keeps the invariant.
LEMMA SignedStep ==
    ASSUME SignedInv, SignedNext
    PROVE  SignedInv'
<1> USE DEF SignedInv
<1>1. ASSUME NEW m \in Metas, Arrive(m) PROVE SignedInv'
  <2>1. PICK s \in SignedTrxs, c \in Compressions : \E p \in Constructed(s, c) :
            /\ meta[m] = NoMeta
            /\ Failed \notin {p.id, p.cfd}
            /\ meta' = [meta EXCEPT ![m] = [held |-> TRUE, sent |-> <<s>>, unpacked |-> <<p>>, future |-> NoFuture]]
            /\ UNCHANGED <<task, cache>>
    BY <1>1, ZenonT(30) DEF Arrive
  <2> DEFINE r == [held |-> TRUE, sent |-> <<s>>, unpacked |-> <<Unpacked(s)>>, future |-> NoFuture]
  <2>2. meta[m] = NoMeta /\ meta' = [meta EXCEPT ![m] = r] /\ UNCHANGED <<task, cache>>
    BY <2>1, ConstructedIsSent, ZenonT(30)
  <2>3. NoFuture \in Futures /\ NoFuture.state = "none"
    BY DEF NoFuture, Futures
  <2>4. MetaRight(r)
    BY <2>3 DEF MetaRight, MetaRecords, FutureRight
  <2>5. \A t \in RecoveryThreads : Active(t) => task[t].meta # m
    BY <2>2, ActiveTask DEF Active, TaskRight
  <2> QED
    BY <2>2, <2>4, <2>5, ObjectChanged, ZenonT(30)
<1>2. ASSUME NEW m \in Metas, Forget(m) PROVE SignedInv'
  <2>1. meta[m].held /\ task[Main].meta # m /\ UNCHANGED <<task, cache>>
    BY <1>2 DEF Forget
  <2>2. MetaRight(meta[m]) /\ meta[m] \in MetaRecords
    BY <2>1 DEF ObjectsRight, NoMeta, MetaRight
  <2>3. CASE InPool(m) \/ meta[m].future.state = "queued"
    <3> DEFINE r == [meta[m] EXCEPT !.held = FALSE]
    <3>1. meta' = [meta EXCEPT ![m] = r]
      BY <1>2, <2>3, ZenonT(30) DEF Forget, ObjectsRight
    <3>2. /\ r \in MetaRecords /\ r.sent = meta[m].sent /\ r.unpacked = meta[m].unpacked
          /\ r.future = meta[m].future
      BY <2>2, ZenonT(30) DEF MetaRecords
    <3> HIDE DEF r
    <3>3. MetaRight(r) /\ r # NoMeta
      <4>1. PICK s \in SignedTrxs : /\ meta[m].sent = <<s>> /\ meta[m].unpacked = <<Unpacked(s)>>
                                    /\ FutureRight(s, meta[m].future)
        BY <2>2 DEF MetaRight
      <4>2. MetaRight(r)
        BY <3>2, <4>1 DEF MetaRight
      <4>3. r.sent # <<>>
        BY <3>2, <4>1
      <4> QED
        BY <4>2, <4>3 DEF NoMeta
    <3>4. \A n \in Metas : meta'[n] = IF n = m THEN r ELSE meta[n]
      BY <3>1 DEF ObjectsRight
    <3>5. ASSUME NEW t \in RecoveryThreads PROVE task'[t] = NoTask \/ TaskRight(t)'
      <4>1. CASE task[t] = NoTask
        BY <4>1, <2>1
      <4>2. CASE TaskRight(t)
        <5>1. /\ task'[t] = task[t] /\ task[t].meta \in Metas
              /\ meta'[task[t].meta] = IF task[t].meta = m THEN r ELSE meta[task[t].meta]
          BY <4>2, <2>1, <3>4 DEF TaskRight
        <5>2. CASE task[t].meta = m
          BY <5>1, <5>2, <4>2, <3>2, <3>3, <2>1, ZenonT(30) DEF TaskRight
        <5>3. CASE task[t].meta # m
          BY <5>1, <5>3, <4>2 DEF TaskRight
        <5> QED
          BY <5>2, <5>3
      <4> QED
        BY <4>1, <4>2 DEF ObjectsRight
    <3> QED
      BY <3>1, <3>3, <3>4, <3>5, <2>1 DEF ObjectsRight, Active
  <2>4. CASE ~(InPool(m) \/ meta[m].future.state = "queued")
    <3>1. meta' = [meta EXCEPT ![m] = NoMeta]
      BY <1>2, <2>4 DEF Forget, ObjectsRight
    <3>2. \A t \in RecoveryThreads : Active(t) => task[t].meta # m
      BY <2>4 DEF InPool, Active
    <3> QED
      BY <3>1, <3>2, <2>1, ObjectChanged, ZenonT(30)
  <2> QED
    BY <2>3, <2>4
<1>3. ASSUME NEW m \in Metas, StartRecoverKeys(m) PROVE SignedInv'
  <2>1. PICK timed \in BOOLEAN :
            /\ meta[m].held /\ task[Main].at = "idle" /\ meta[m].future.state = "none"
            /\ meta' = [meta EXCEPT ![m].future = [NoFuture EXCEPT !.state = "queued", !.timed = timed]]
            /\ UNCHANGED <<task, cache>>
    BY <1>3, ZenonT(30) DEF StartRecoverKeys
  <2> DEFINE f == [NoFuture EXCEPT !.state = "queued", !.timed = timed]
  <2>2. f \in Futures /\ f.state = "queued"
    BY ZenonT(30) DEF NoFuture, Futures
  <2>3. meta' = [meta EXCEPT ![m] = [meta[m] EXCEPT !.future = f]]
    BY <2>1 DEF ObjectsRight
  <2>4. MetaRight(meta[m])
    BY <2>1 DEF ObjectsRight, NoMeta
  <2> HIDE DEF f
  <2>5. MetaRight([meta[m] EXCEPT !.future = f])
    BY <2>2, <2>4, FutureChanged
  <2>6. \A t \in RecoveryThreads : Active(t) => task[t].meta # m
    BY <2>1, NobodyWorks
  <2> QED
    BY <2>1, <2>3, <2>5, <2>6, ObjectChanged, ZenonT(30)
<1>4. ASSUME NEW m \in Metas, RecoverKeys(m) PROVE SignedInv'
  <2>1. /\ meta[m].held /\ task[Main].at = "idle" /\ meta[m].future.state = "none"
        /\ task' = [task EXCEPT ![Main] = [at |-> "sig", meta |-> m, next |-> 1, keys |-> {}]]
        /\ UNCHANGED <<meta, cache>>
    BY <1>4 DEF RecoverKeys
  <2>2. MetaRight(meta[m]) /\ Main \in RecoveryThreads
    BY <2>1 DEF ObjectsRight, NoMeta, RecoveryThreads
  <2>3. \A t \in RecoveryThreads : Active(t) => task[t].meta # m
    BY <2>1, NobodyWorks
  <2>4. meta' = [meta EXCEPT ![m] = meta[m]]
    BY <2>1 DEF ObjectsRight
  <2> QED
    BY <2>1, <2>2, <2>3, <2>4, TaskStarted, ZenonT(30)
<1>5. ASSUME NEW t \in RecoveryThreads, NEW m \in Metas, RunJob(t, m) PROVE SignedInv'
  <2>1. /\ t # Main /\ task[t].at = "idle" /\ meta[m].future.state = "queued" /\ UNCHANGED cache
    BY <1>5 DEF RunJob
  <2>2. MetaRight(meta[m])
    BY <2>1 DEF ObjectsRight, NoMeta, NoFuture
  <2>3. \A u \in RecoveryThreads : Active(u) => task[u].meta # m
    BY <2>1, NobodyWorks
  <2>4. CASE meta[m].held
    <3> DEFINE f == [meta[m].future EXCEPT !.state = "running"]
    <3>1. meta[m].future \in Futures
      BY <2>2 DEF MetaRight, MetaRecords
    <3>2. f \in Futures /\ f.state = "running"
      BY <3>1 DEF Futures
    <3>3. meta' = [meta EXCEPT ![m] = [meta[m] EXCEPT !.future = f]]
      BY <1>5, <2>4 DEF RunJob, ObjectsRight
    <3>4. task' = [task EXCEPT ![t] = [at |-> "sig", meta |-> m, next |-> 1, keys |-> {}]]
      BY <1>5, <2>4 DEF RunJob
    <3> HIDE DEF f
    <3> DEFINE r == [meta[m] EXCEPT !.future = f]
    <3>5. MetaRight(r) /\ r.future.state = "running" /\ r.sent = meta[m].sent
      BY <3>2, <2>2, FutureChanged
    <3>6. meta' = [meta EXCEPT ![m] = r]
      BY <3>3
    <3> HIDE DEF r
    <3> QED
      BY <3>4, <3>5, <3>6, <2>1, <2>3, TaskStarted, ZenonT(30)
  <2>5. CASE ~meta[m].held
    <3>1. meta' = [meta EXCEPT ![m] = NoMeta] /\ UNCHANGED task
      BY <1>5, <2>5 DEF RunJob
    <3> QED
      BY <3>1, <2>1, <2>3, ObjectChanged, ZenonT(30)
  <2> QED
    BY <2>4, <2>5
<1>6. ASSUME NEW t \in RecoveryThreads, LookUp(t) PROVE SignedInv'
  <2>1. task[t].at = "sig" /\ task[t].next <= Len(CurrentTrx(t).sigs) /\ UNCHANGED cache
    BY <1>6 DEF LookUp
  <2> DEFINE hit == Hit(CurrentSig(t), CurrentTrx(t).id)
             m == task[t].meta
             s == meta[m].sent[1]
  <2>2. TaskRight(t) /\ m \in Metas /\ s \in SignedTrxs /\ CurrentTrx(t) = Unpacked(s)
    BY <2>1, ActiveTask
  <2>3. s = meta[task[t].meta].sent[1]
    OBVIOUS
  <2>4. CASE hit = {}
    <3>1. task' = [task EXCEPT ![t].at = "recover"] /\ UNCHANGED meta
      BY <1>6, <2>4 DEF LookUp
    <3>2. /\ task[t] \in [at : {"sig", "recover"}, meta : Metas, next : Nat, keys : SUBSET Keys]
          /\ task[t].next =< Len(s.sigs)
      BY <2>1, <2>2 DEF TaskRight, Unpacked
    <3> DEFINE k == [task[t] EXCEPT !.at = "recover"]
    <3>3. /\ k \in [at : {"sig", "recover"}, meta : Metas, next : Nat, keys : SUBSET Keys]
          /\ k.at = "recover" /\ k.meta = task[t].meta /\ k.next = task[t].next /\ k.keys = task[t].keys
      BY <3>2, ZenonT(30)
    <3>4. \A u \in RecoveryThreads : task'[u] = IF u = t THEN k ELSE task[u]
      <4>1. task = [u \in RecoveryThreads |-> task[u]]
        BY ZenonT(30) DEF ObjectsRight
      <4> QED BY <3>1, <4>1
    <3> HIDE DEF k, s, m
    <3>5. TaskRight(t)'
      <4>1. task'[t] = k /\ meta'[k.meta] = meta[task[t].meta]
        BY <3>1, <3>3, <3>4, ZenonT(30)
      <4> QED
        BY <4>1, <3>2, <3>3, <2>2, <2>3 DEF TaskRight
    <3>6. \A u \in RecoveryThreads \ {t} : task'[u] = NoTask \/ TaskRight(u)'
      BY <3>1, <3>4 DEF ObjectsRight, TaskRight
    <3>7. \A v, u \in RecoveryThreads :
              Active(v)' /\ Active(u)' /\ v # u => task'[v].meta # task'[u].meta
      BY <3>3, <3>4, <2>1 DEF ObjectsRight, Active
    <3> QED
      BY <3>1, <3>4, <3>5, <3>6, <3>7, <2>1, ZenonT(30) DEF ObjectsRight
  <2>5. ASSUME NEW e \in hit, Collect(t, e.key) PROVE SignedInv'
    <3> HIDE DEF s, m
    <3>1. task[t].next \in DOMAIN s.sigs
      BY <2>1, <2>2, <2>3, SigsAssumption DEF TaskRight, Unpacked
    <3>2. CurrentSig(t) = s.sigs[task[t].next] /\ CurrentTrx(t).id = s.id /\ SigDigest(CurrentTrx(t)) = SigDigest(s)
      BY <2>2 DEF CurrentSig, Unpacked, SigDigest
    <3>3. e.key = RecoverKey(CurrentSig(t), SigDigest(CurrentTrx(t)))
      BY <2>2, <3>1, <3>2, HitIsRight
    <3>4. ObjectsRight'
      BY <2>1, <2>5, <3>3, CollectIsRight
    <3> QED
      BY <3>4, <2>1, ZenonT(30)
  <2> QED
    BY <1>6, <2>4, <2>5 DEF LookUp
<1>7. ASSUME NEW t \in RecoveryThreads, TooLong(t) PROVE SignedInv'
  BY <1>7, FinishIsRight DEF TooLong
<1>8. ASSUME NEW t \in RecoveryThreads, Emplace(t) PROVE SignedInv'
  <2> DEFINE m == task[t].meta
             s == meta[m].sent[1]
             key == RecoverKey(CurrentSig(t), SigDigest(CurrentTrx(t)))
  <2>1. task[t].at = "recover" /\ Collect(t, key)
    BY <1>8 DEF Emplace
  <2>2. TaskRight(t) /\ m \in Metas /\ s \in SignedTrxs /\ CurrentTrx(t) = Unpacked(s)
    BY <2>1, ActiveTask
  <2>3. s = meta[task[t].meta].sent[1]
    OBVIOUS
  <2> HIDE DEF m, s
  <2>4. task[t].next \in DOMAIN s.sigs /\ task[t].next =< Len(CurrentTrx(t).sigs)
    <3>1. task[t].next \in 1..(Len(s.sigs) + 1) /\ task[t].next =< Len(s.sigs)
      BY <2>1, <2>2, <2>3 DEF TaskRight
    <3>2. CurrentTrx(t).sigs = s.sigs
      BY <2>2 DEF Unpacked
    <3>3. DOMAIN s.sigs = 1..Len(s.sigs) /\ Len(s.sigs) \in Nat
      BY <2>2, SigsAssumption, ZenonT(30)
    <3>4. task[t].next \in 1..Len(s.sigs)
      BY <3>1, <3>3
    <3> QED
      BY <3>1, <3>2, <3>3, <3>4, ZenonT(30)
  <2>5. ObjectsRight'
    BY <2>1, <2>4, CollectIsRight
  <2> DEFINE e == [sig |-> CurrentSig(t), id |-> CurrentTrx(t).id, key |-> key]
  <2>6. e = [sig |-> s.sigs[task[t].next], id |-> s.id, key |-> RecoverKey(s.sigs[task[t].next], SigDigest(s))]
    BY <2>2 DEF CurrentSig, Unpacked, SigDigest
  <2>7. e \in RightEntries
    BY <2>2, <2>4, <2>6 DEF RightEntries
  <2>8. cache' = cache \/ cache' = Append(cache, e)
    BY <1>8 DEF Emplace
  <2> HIDE DEF e
  <2> QED
    BY <2>5, <2>7, <2>8
<1>9. ASSUME NEW t \in RecoveryThreads, Trim(t) PROVE SignedInv'
  <2> DEFINE m == task[t].meta
             s == meta[m].sent[1]
  <2>1. task[t].at = "sig" /\ task[t].next > Len(CurrentTrx(t).sigs) /\ Finish(t, "done", task[t].keys)
    BY <1>9 DEF Trim
  <2>2. TaskRight(t) /\ m \in Metas /\ s \in SignedTrxs /\ CurrentTrx(t) = Unpacked(s)
    BY <2>1, ActiveTask
  <2>3. s = meta[task[t].meta].sent[1]
    OBVIOUS
  <2> HIDE DEF m, s
  <2>4. task[t].next - 1 = Len(s.sigs)
    <3>1. task[t].next \in 1..(Len(s.sigs) + 1)
      BY <2>2, <2>3 DEF TaskRight
    <3>2. CurrentTrx(t).sigs = s.sigs /\ Len(s.sigs) \in Nat
      BY <2>2, SigsAssumption, SMTT(30) DEF Unpacked
    <3> QED
      BY <3>1, <3>2, <2>1
  <2>5. task[t].keys = Signers(s) /\ task[t].keys \in SUBSET Keys
    BY <2>2, <2>3, <2>4, SigsAssumption, ZenonT(30) DEF TaskRight, KeysOf, Signers
  <2>6. ObjectsRight'
    BY <2>1, <2>3, <2>5, FinishIsRight
  <2>7. cache' \in Seq(RightEntries)
    <3>1. CASE Len(cache) > CacheSize
      <4>1. Len(cache) - CacheSize + 1 \in 1..Len(cache) + 1 /\ Len(cache) \in Nat
        BY <3>1, CacheSizeAssumption
      <4>2. SubSeq(cache, Len(cache) - CacheSize + 1, Len(cache)) \in Seq(RightEntries)
        BY <4>1, SubSeqProperties
      <4> QED
        BY <1>9, <3>1, <4>2 DEF Trim
    <3>2. CASE ~(Len(cache) > CacheSize)
      BY <1>9, <3>2 DEF Trim
    <3> QED
      BY <3>1, <3>2
  <2> QED
    BY <2>6, <2>7
<1> QED
  BY <1>1, <1>2, <1>3, <1>4, <1>5, <1>6, <1>7, <1>8, <1>9 DEF SignedNext

\* No transaction has been unpacked, and no task is running, at the start.
LEMMA SignedInitial == ASSUME SignedInit PROVE SignedInv
  BY DEF SignedInit, SignedInv, ObjectsRight, NoTask, Active

\* For any transactions, objects, threads and size of the cache, the keys that a metadata
\* object answers with are those its sender's signatures give, and it fails only for a
\* deadline or for two signatures by one key (transaction_metadata, get_signature_keys).
THEOREM RecoveredKeysAsSigned == SignedSpec => []KeysAsSigned
<1>1. SignedInv /\ UNCHANGED signedVars => SignedInv'
  BY DEF SignedInv, ObjectsRight, TaskRight, Active, signedVars
<1>2. SignedInv => KeysAsSigned
  <2> SUFFICES ASSUME SignedInv, NEW m \in Metas, meta[m].held PROVE
        LET sent == meta[m].sent[1] future == meta[m].future
        IN /\ future.state = "done" => future.keys = Signers(sent)
           /\ future.state = "threw" => future.timed \/ TwoByOneKey(sent)
    BY DEF KeysAsSigned, TwoByOneKey
  <2>1. MetaRight(meta[m])
    BY DEF SignedInv, ObjectsRight, NoMeta
  <2>2. PICK s \in SignedTrxs : meta[m].sent = <<s>> /\ FutureRight(s, meta[m].future)
    BY <2>1 DEF MetaRight
  <2>3. meta[m].sent[1] = s
    BY <2>2
  <2> QED
    BY <2>2, <2>3 DEF FutureRight
<1> QED
  BY <1>1, <1>2, SignedInitial, SignedStep, PTL DEF SignedSpec
===============================================================================
