-------------------------- MODULE SignedTransactions --------------------------
(***************************************************************************)
(* A signed transaction's way to the public keys that signed it: the       *)
(* packed_transaction built from what arrived, the transaction_metadata    *)
(* around it, and the recovery of the keys on the threads of a pool or on  *)
(* the main thread, all through one cache of recovered keys whose mutex is *)
(* released while a key is recovered.                                      *)
(*                                                                         *)
(* A transaction is [id, cfd, big, sigs]: its id covers everything but the *)
(* context-free data cfd and the signatures; a big one exceeds the limit   *)
(* of decompression.  A signature is [key, over]: recovering it from the   *)
(* digest it is over gives the signer's key, from another digest another.  *)
(* One chain id.  The cache is keyed by signature and transaction id.      *)
(***************************************************************************)
EXTENDS Naturals, Sequences, Functions

CONSTANTS
    SignedTrxs,     \* the signed transactions that arrive
    Metas,          \* transaction_metadata objects alive at once
    PoolThreads,    \* threads of the pool
    CacheSize       \* recovery_cache_size

(* The id of a transaction decides its context-free data: the cache takes  *)
(* the id for the whole of what was signed.                                *)
ASSUME IdIsWhole == \A t, u \in SignedTrxs : t.id = u.id => t.cfd = u.cfd

(* A transaction carries a vector of signatures.                           *)
ASSUME SigsAssumption ==
    \A t \in SignedTrxs : Len(t.sigs) \in Nat /\ DOMAIN t.sigs = 1..Len(t.sigs)

ASSUME CacheSizeAssumption == CacheSize \in Nat

VARIABLES
    meta,       \* per object: held, the transaction sent, its unpacked form, signing_keys_future
    task,       \* per thread: the call of get_signature_keys it is in
    cache       \* recovery_cache, oldest first: [sig, id, key]

signedVars == <<meta, task, cache>>

Main == "main"
RecoveryThreads == PoolThreads \cup {Main}
NoCfd == "none"
SigDigest(t) == <<t.id, t.cfd>>
RecoverKey(sig, digest) == IF sig.over = digest THEN <<sig.key>> ELSE <<sig.key, sig.over, digest>>
Signers(t) == {RecoverKey(t.sigs[i], SigDigest(t)) : i \in DOMAIN t.sigs}

-----------------------------------------------------------------------------
(* packed_transaction.  Bytes are [zip, of, big]: what they hold, whether  *)
(* they are compressed, whether that is too much to decompress.            *)
Compressions == {"none", "zlib", "unknown"}
Failed == "failed"

PackBytes(c, x, big) == [zip |-> c = "zlib", of |-> x, big |-> big]
UnpackBytes(c, b) ==
    IF c = "unknown" \/ b.zip # (c = "zlib") \/ (b.zip /\ b.big) THEN Failed ELSE b.of

(* No context-free data packs to no bytes, which unpack to none.           *)
LocalPackContextFreeData(c, cfd) == PackBytes(c, cfd, FALSE)
LocalUnpackContextFreeData(c, b) ==
    IF c # "unknown" /\ b.of = NoCfd THEN NoCfd ELSE UnpackBytes(c, b)
LocalPackTransaction(c, t) == IF c = "unknown" THEN Failed ELSE t.id
LocalUnpackTransaction(c, b) == UnpackBytes(c, b)

(* The constructors: from a signed transaction, from packed bytes (off the *)
(* wire, or from JSON with packed_context_free_data), from packed bytes    *)
(* and plain data, and from a plain transaction and packed data.           *)
FromSigned(t, c) == [id |-> LocalPackTransaction(c, t), cfd |-> t.cfd, sigs |-> t.sigs]
FromPacked(t, c) ==
    [id |-> LocalUnpackTransaction(c, PackBytes(c, t.id, t.big)),
     cfd |-> LocalUnpackContextFreeData(c, LocalPackContextFreeData(c, t.cfd)), sigs |-> t.sigs]
FromPackedAndData(t, c) ==
    [id |-> LocalUnpackTransaction(c, PackBytes(c, t.id, t.big)), cfd |-> t.cfd, sigs |-> t.sigs]
FromTransaction(t, c) ==
    [id |-> LocalPackTransaction(c, t),
     cfd |-> LocalUnpackContextFreeData(c, LocalPackContextFreeData(c, t.cfd)), sigs |-> t.sigs]

Constructed(t, c) == {FromSigned(t, c), FromPacked(t, c), FromPackedAndData(t, c), FromTransaction(t, c)}

-----------------------------------------------------------------------------
(* transaction_metadata.                                                   *)
NoFuture == [state |-> "none", keys |-> {}, timed |-> FALSE]
NoMeta == [held |-> FALSE, sent |-> <<>>, unpacked |-> <<>>, future |-> NoFuture]
NoTask == [at |-> "idle", meta |-> Main, next |-> 0, keys |-> {}]

SignedInit ==
    /\ meta = [m \in Metas |-> NoMeta]
    /\ task = [t \in RecoveryThreads |-> NoTask]
    /\ cache = <<>>

Arrive(m) == \E t \in SignedTrxs, c \in Compressions : \E p \in Constructed(t, c) :
    /\ meta[m] = NoMeta
    /\ Failed \notin {p.id, p.cfd}
    /\ meta' = [meta EXCEPT ![m] = [held |-> TRUE, sent |-> <<t>>, unpacked |-> <<p>>, future |-> NoFuture]]
    /\ UNCHANGED <<task, cache>>

(* The last reference goes; a pool job that runs keeps the object, one     *)
(* that has not started will find it gone.                                 *)
InPool(m) == \E t \in RecoveryThreads : task[t].at # "idle" /\ task[t].meta = m
Forget(m) ==
    /\ meta[m].held
    /\ task[Main].meta # m
    /\ meta' = [meta EXCEPT ![m] = IF InPool(m) \/ @.future.state = "queued"
                                   THEN [@ EXCEPT !.held = FALSE] ELSE NoMeta]
    /\ UNCHANGED <<task, cache>>

(* On the main thread: a producer's limit makes the recovery timed, a      *)
(* block's transactions are recovered without one.                         *)
StartRecoverKeys(m) == \E timed \in BOOLEAN :
    /\ meta[m].held
    /\ task[Main].at = "idle"
    /\ meta[m].future.state = "none"
    /\ meta' = [meta EXCEPT ![m].future = [NoFuture EXCEPT !.state = "queued", !.timed = timed]]
    /\ UNCHANGED <<task, cache>>

(* recover_keys where no recovery was started: the main thread does it.    *)
RecoverKeys(m) ==
    /\ meta[m].held
    /\ task[Main].at = "idle"
    /\ meta[m].future.state = "none"
    /\ task' = [task EXCEPT ![Main] = [at |-> "sig", meta |-> m, next |-> 1, keys |-> {}]]
    /\ UNCHANGED <<meta, cache>>

(* A pool thread takes the job: with the object gone it gives no keys.     *)
RunJob(t, m) ==
    /\ t # Main
    /\ task[t].at = "idle"
    /\ meta[m].future.state = "queued"
    /\ IF meta[m].held
       THEN /\ task' = [task EXCEPT ![t] = [at |-> "sig", meta |-> m, next |-> 1, keys |-> {}]]
            /\ meta' = [meta EXCEPT ![m].future.state = "running"]
       ELSE /\ meta' = [meta EXCEPT ![m] = NoMeta]
            /\ UNCHANGED task
    /\ UNCHANGED cache

-----------------------------------------------------------------------------
(* get_signature_keys.                                                     *)
CurrentTrx(t) == meta[task[t].meta].unpacked[1]
CurrentSig(t) == CurrentTrx(t).sigs[task[t].next]

Hit(sig, id) == {e \in Range(cache) : e.sig = sig /\ e.id = id}

(* The call ends: in the future, and the object goes if nobody holds it.   *)
Finish(t, state, keys) ==
    /\ task' = [task EXCEPT ![t] = NoTask]
    /\ meta' = [meta EXCEPT ![task[t].meta] =
                    IF ~@.held THEN NoMeta
                    ELSE IF t = Main /\ state = "threw" THEN @
                    ELSE [@ EXCEPT !.future.state = state, !.future.keys = keys]]

(* A recovered key is added; a key met twice fails the transaction.        *)
Collect(t, key) ==
    IF key \in task[t].keys THEN Finish(t, "threw", {})
    ELSE /\ task' = [task EXCEPT ![t] = [at |-> "sig", meta |-> task[t].meta, next |-> task[t].next + 1,
                                         keys |-> task[t].keys \cup {key}]]
         /\ UNCHANGED meta

LookUp(t) ==
    /\ task[t].at = "sig"
    /\ task[t].next <= Len(CurrentTrx(t).sigs)
    /\ LET hit == Hit(CurrentSig(t), CurrentTrx(t).id)
       IN IF hit = {}
          THEN task' = [task EXCEPT ![t].at = "recover"] /\ UNCHANGED meta
          ELSE \E e \in hit : Collect(t, e.key)
    /\ UNCHANGED cache

(* The deadline has passed before the next signature.                      *)
TooLong(t) ==
    /\ task[t].at = "sig"
    /\ t # Main
    /\ task[t].next <= Len(CurrentTrx(t).sigs)
    /\ meta[task[t].meta].future.timed
    /\ Finish(t, "threw", {})
    /\ UNCHANGED cache

(* Under the mutex again: a signature already cached is not cached twice.  *)
Emplace(t) ==
    /\ task[t].at = "recover"
    /\ LET sig == CurrentSig(t)
           key == RecoverKey(sig, SigDigest(CurrentTrx(t)))
       IN /\ cache' = IF \E e \in Range(cache) : e.sig = sig THEN cache
                      ELSE Append(cache, [sig |-> sig, id |-> CurrentTrx(t).id, key |-> key])
          /\ Collect(t, key)

(* Mutant of Trim: the last signature is not looked at.                    *)
TrimEarly(t) ==
    /\ task[t].at = "sig"
    /\ task[t].next >= Len(CurrentTrx(t).sigs)
    /\ UNCHANGED cache
    /\ Finish(t, "done", task[t].keys)

(* The cache is trimmed to its size when all signatures are done.          *)
Trim(t) ==
    /\ task[t].at = "sig"
    /\ task[t].next > Len(CurrentTrx(t).sigs)
    /\ cache' = IF Len(cache) > CacheSize
                THEN SubSeq(cache, Len(cache) - CacheSize + 1, Len(cache)) ELSE cache
    /\ Finish(t, "done", task[t].keys)

SignedNext ==
    \/ \E m \in Metas : Arrive(m) \/ Forget(m) \/ StartRecoverKeys(m) \/ RecoverKeys(m)
    \/ \E t \in RecoveryThreads, m \in Metas : RunJob(t, m)
    \/ \E t \in RecoveryThreads : LookUp(t) \/ TooLong(t) \/ Emplace(t) \/ Trim(t)

SignedSpec == SignedInit /\ [][SignedNext]_signedVars

-----------------------------------------------------------------------------
(* However the transaction was packed and whichever threads met in the     *)
(* cache, the keys a metadata object answers with are those its sender's   *)
(* signatures give, and only a passed deadline or two signatures by one    *)
(* key make it fail.                                                       *)
KeysAsSigned == \A m \in Metas : meta[m].held =>
    LET sent == meta[m].sent[1] future == meta[m].future
    IN /\ future.state = "done" => future.keys = Signers(sent)
       /\ future.state = "threw" => \/ future.timed
                                    \/ \E i, j \in DOMAIN sent.sigs :
                                        /\ i # j
                                        /\ RecoverKey(sent.sigs[i], SigDigest(sent))
                                           = RecoverKey(sent.sigs[j], SigDigest(sent))

=============================================================================
