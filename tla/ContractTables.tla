--------------------------- MODULE ContractTables ---------------------------
(***************************************************************************)
(* The rows contracts keep in the chain state (contract_table_objects.hpp) *)
(* and the database API one action reaches them through (apply_context's   *)
(* db_*_i64 and generic_index): tables created with their first row and    *)
(* removed with their last, the RAM of every row and table billed to its   *)
(* payer, and the iterator caches that name rows and ends of tables by     *)
(* integers for as long as an action runs, notified contracts included.    *)
(* A failing call undoes the transaction.  A snapshot rewrites the tables  *)
(* with fresh identifiers.                                                 *)
(*                                                                         *)
(* "kv" is the primary index, "idx" stands for the five secondary indices, *)
(* which share their code.  A value is the size of a "kv" row's data or an *)
(* "idx" row's secondary key.                                              *)
(***************************************************************************)
EXTENDS Integers, Sequences, FiniteSets, FiniteSetsExt, SequencesExt

CONSTANTS Contracts,    \* accounts with code
          TableNames,   \* the (scope, table) pairs in use
          BadKey,       \* a secondary key the API refuses: not a number, or of a wrong length
          DbWorlds,     \* [code, auths, privileged, restrict, notify, keys, values]: the
                        \* account and authorizers of the actions, the settings in force,
                        \* and the primary keys and values in use in each kind of index
          MaxObjects    \* rows ever created, which bounds the behaviours

VARIABLES dbWorld, tables, saved, call

ctVars == <<dbWorld, tables, saved, call>>

Kinds == {"kv", "idx"}
NoPayer == "no account"

TableSize == 44 + 2 * 32
RowSize(kind, value) == IF kind = "kv" THEN 44 + 2 * 32 + value ELSE 24 + 8 + 3 * 32

EmptyCache == [ends |-> <<>>, its |-> <<>>]
NewCall(code) == [act |-> code, receiver |-> code, notified |-> {code},
                  freed |-> {}, cache |-> [kind \in Kinds |-> EmptyCache], deltas |-> [a \in Contracts |-> 0]]

\* A step of a call: the state it has made so far, and whether it threw.
Now == [ok |-> TRUE, ret |-> -1, db |-> tables, call |-> call]
Throw(s) == [s EXCEPT !.ok = FALSE]
Check(s, condition) == IF condition THEN s ELSE Throw(s)

-----------------------------------------------------------------------------
(* Billing. *)

MayCharge(c, payer) ==
  \/ c.receiver \in dbWorld.privileged
  \/ payer = c.receiver
  \/ dbWorld.restrict
  \/ (dbWorld.notify \/ c.receiver = c.act) /\ payer \in dbWorld.auths

UpdateDbUsage(s, payer, delta) ==
  IF ~s.ok \/ (delta > 0 /\ ~MayCharge(s.call, payer)) THEN Throw(s)
  ELSE [s EXCEPT !.db.ram[payer] = @ + delta, !.call.deltas[payer] = @ + delta]

\* What exec_one requires of the RAM a contract has used when it returns.
ChargesAllowed(c) ==
  (dbWorld.restrict /\ c.receiver \notin dbWorld.privileged) =>
    \A a \in Contracts \ {c.receiver} :
       c.deltas[a] > 0 => c.receiver = c.act /\ a \in dbWorld.auths

-----------------------------------------------------------------------------
(* The iterator cache of one index. *)

EndIterator(index) == -(index + 1)
EndIndex(iterator) == -iterator - 1

PositionIn(seq, x) == CHOOSE i \in 1..Len(seq) : seq[i] = x

CacheTableNever(s, kind, tid) == s

CacheTable(s, kind, tid) ==
  IF tid \in ToSet(s.call.cache[kind].ends) THEN s
  ELSE [s EXCEPT !.call.cache[kind].ends = Append(@, tid)]

EndOf(s, kind, tid) ==
  IF tid \in ToSet(s.call.cache[kind].ends)
  THEN [s EXCEPT !.ret = EndIterator(PositionIn(s.call.cache[kind].ends, tid))]
  ELSE Throw(s)

\* Iterators count from 0, a removed row leaves 0 for its null pointer.
CacheAdd(s, kind, row) ==
  LET its == s.call.cache[kind].its
  IN  IF row.id \in ToSet(its) THEN [s EXCEPT !.ret = PositionIn(its, row.id) - 1]
      ELSE [s EXCEPT !.call.cache[kind].its = Append(@, row.id), !.ret = Len(its)]

Live(s, kind, it) == it \in 0..(Len(s.call.cache[kind].its) - 1) /\ s.call.cache[kind].its[it + 1] # 0
RowAt(s, kind, it) == CHOOSE r \in s.db.rows : r.id = s.call.cache[kind].its[it + 1] /\ r.kind = kind

CacheRemove(s, kind, it) == [s EXCEPT !.call.cache[kind].its[it + 1] = 0]

-----------------------------------------------------------------------------
(* Tables and rows. *)

FindTable(s, code, name) == {t \in s.db.tabs : t.code = code /\ t.name = name}

FindOrCreateTable(s, name, payer) ==
  IF FindTable(s, s.call.receiver, name) # {} THEN s
  ELSE LET charged == UpdateDbUsage(s, payer, TableSize)
       IN  [charged EXCEPT !.db.tabs = @ \cup {[id |-> s.db.nextTab, code |-> s.call.receiver,
                                                name |-> name, payer |-> payer, count |-> 0]},
                           !.db.nextTab = @ + 1]

Counted(tabs, tid, by) == {IF t.id = tid THEN [t EXCEPT !.count = @ + by] ELSE t : t \in tabs}

KeyAllowed(kind, value) == kind = "idx" => value # BadKey

Store(s, kind, name, payer, pk, value) ==
  IF payer = NoPayer \/ ~KeyAllowed(kind, value) THEN Throw(s)
  ELSE LET with == FindOrCreateTable(s, name, payer)
           tid  == (CHOOSE t \in FindTable(with, s.call.receiver, name) : TRUE).id
           row  == [id |-> s.db.nextRow, kind |-> kind, tid |-> tid, pk |-> pk,
                    value |-> value, payer |-> payer]
           put  == [with EXCEPT !.db.rows = @ \cup {row}, !.db.nextRow = @ + 1,
                                !.db.tabs = Counted(@, tid, 1)]
           paid == UpdateDbUsage(put, payer, RowSize(kind, value))
       IN  IF \E r \in s.db.rows : r.kind = kind /\ r.tid = tid /\ r.pk = pk THEN Throw(s)
           ELSE CacheAdd(CacheTable(paid, kind, tid), kind, row)

OwnTable(s, tid) == \E t \in s.db.tabs : t.id = tid /\ t.code = s.call.receiver

UpdateRefundsNew(s, kind, it, payer, value) ==
  IF ~Live(s, kind, it) \/ ~KeyAllowed(kind, value) THEN Throw(s)
  ELSE LET old  == RowAt(s, kind, it)
           new  == [old EXCEPT !.value = value, !.payer = IF payer = NoPayer THEN @ ELSE payer]
           from == RowSize(kind, old.value)
           to   == RowSize(kind, value)
           paid == UpdateDbUsage(UpdateDbUsage(s, old.payer, -to), new.payer, to)
       IN  IF ~OwnTable(s, old.tid) THEN Throw(s)
           ELSE [paid EXCEPT !.db.rows = (@ \ {old}) \cup {new}]

Update(s, kind, it, payer, value) ==
  IF ~Live(s, kind, it) \/ ~KeyAllowed(kind, value) THEN Throw(s)
  ELSE LET old  == RowAt(s, kind, it)
           new  == [old EXCEPT !.value = value, !.payer = IF payer = NoPayer THEN @ ELSE payer]
           from == RowSize(kind, old.value)
           to   == RowSize(kind, value)
           paid == IF old.payer # new.payer
                   THEN UpdateDbUsage(UpdateDbUsage(s, old.payer, -from), new.payer, to)
                   ELSE UpdateDbUsage(s, old.payer, to - from)
       IN  IF ~OwnTable(s, old.tid) THEN Throw(s)
           ELSE [paid EXCEPT !.db.rows = (@ \ {old}) \cup {new}]

\* The identifiers from next on belong to tables created after this one is freed.
RemoveTable(s, t) == [UpdateDbUsage(s, t.payer, -TableSize) EXCEPT
                        !.db.tabs = @ \ {t}, !.call.freed = @ \cup {[tid |-> t.id, next |-> s.db.nextTab]}]

RemoveRow(s, kind, it) ==
  IF ~Live(s, kind, it) THEN Throw(s)
  ELSE LET row    == RowAt(s, kind, it)
           paid   == UpdateDbUsage(s, row.payer, -RowSize(kind, row.value))
           gone   == [paid EXCEPT !.db.rows = @ \ {row}, !.db.tabs = Counted(@, row.tid, -1)]
           t      == CHOOSE t \in gone.db.tabs : t.id = row.tid
           swept  == IF t.count = 0 THEN RemoveTable(gone, t) ELSE gone
       IN  IF ~OwnTable(s, row.tid) THEN Throw(s) ELSE CacheRemove(swept, kind, it)

-----------------------------------------------------------------------------
(* Reading: every answer is an iterator, -1 where there is no such table. *)

\* The composite keys of the indices, least first.
Before(order, a, b) ==
  IF order = "secondary" /\ a.value # b.value THEN a.value < b.value ELSE a.pk < b.pk
InOrderOf(s, kind, order, tid) ==
  SetToSortSeq({r \in s.db.rows : r.kind = kind /\ r.tid = tid}, LAMBDA a, b : Before(order, a, b))

KeyOf(order, r) == IF order = "secondary" THEN r.value ELSE r.pk

\* find, lowerbound, upperbound and end: the first row whose key passes.
Seek(s, kind, order, code, name, how, key) ==
  IF FindTable(s, code, name) = {} THEN [s EXCEPT !.ret = -1]
  ELSE LET tid    == (CHOOSE t \in FindTable(s, code, name) : TRUE).id
           cached == CacheTable(s, kind, tid)
           Pass(r) == CASE how = "find"  -> KeyOf(order, r) = key
                        [] how = "lower" -> KeyOf(order, r) >= key
                        [] how = "upper" -> KeyOf(order, r) > key
                        [] how = "end"   -> FALSE
           found  == SelectSeq(InOrderOf(s, kind, order, tid), Pass)
       IN  IF order = "secondary" /\ how # "end" /\ ~KeyAllowed(kind, key) THEN Throw(s)
           ELSE IF found = <<>> THEN EndOf(cached, kind, tid)
           ELSE CacheAdd(cached, kind, Head(found))

NextRow(s, kind, order, it) ==
  IF it < -1 THEN [s EXCEPT !.ret = -1]
  ELSE IF ~Live(s, kind, it) THEN Throw(s)
  ELSE LET row == RowAt(s, kind, it)
           all == InOrderOf(s, kind, order, row.tid)
           i   == PositionIn(all, row)
       IN  IF i = Len(all) THEN EndOf(s, kind, row.tid) ELSE CacheAdd(s, kind, all[i + 1])

\* The table an end iterator points to may have been removed since, and its
\* memory reused: tid is what the pointer then reads.
PreviousRow(s, kind, order, it, tid) ==
  IF it < -1
  THEN LET all == InOrderOf(s, kind, order, tid)
       IN  IF all = <<>> THEN [s EXCEPT !.ret = -1] ELSE CacheAdd(s, kind, all[Len(all)])
  ELSE IF ~Live(s, kind, it) THEN Throw(s)
  ELSE LET row == RowAt(s, kind, it)
           all == InOrderOf(s, kind, order, row.tid)
           i   == PositionIn(all, row)
       IN  IF i = 1 THEN [s EXCEPT !.ret = -1] ELSE CacheAdd(s, kind, all[i - 1])

ReadableTids(s, kind, it) ==
  LET ends == s.call.cache[kind].ends
  IN  IF it >= -1 THEN {0}
      ELSE IF EndIndex(it) > Len(ends) THEN {}
      ELSE LET tid == ends[EndIndex(it)]
           IN  {tid} \cup {t.id : t \in {u \in s.db.tabs : \E f \in s.call.freed : f.tid = tid /\ u.id >= f.next}}

-----------------------------------------------------------------------------

EmptyDb == [tabs |-> {}, rows |-> {}, ram |-> [a \in Contracts |-> 0],
            nextTab |-> 1, nextRow |-> 1]

CtInit ==
  /\ dbWorld \in DbWorlds
  /\ tables = EmptyDb /\ saved = EmptyDb
  /\ call = NewCall(dbWorld.code)

\* An exception undoes the transaction's session and ends the action.
Outcome(s) ==
  /\ tables' = IF s.ok THEN s.db ELSE saved
  /\ call' = IF s.ok THEN s.call ELSE NewCall(dbWorld.code)
  /\ UNCHANGED <<dbWorld, saved>>

Iterators(kind) == (-Len(call.cache[kind].ends) - 2) .. Len(call.cache[kind].its)
Orders(kind) == IF kind = "kv" THEN {"primary"} ELSE {"primary", "secondary"}

CallStore ==
  /\ tables.nextRow <= MaxObjects
  /\ \E kind \in Kinds, name \in TableNames, payer \in Contracts \cup {NoPayer} :
       \E pk \in dbWorld.keys[kind], value \in dbWorld.values[kind] : Outcome(Store(Now, kind, name, payer, pk, value))

CallUpdate ==
  \E kind \in Kinds : \E it \in Iterators(kind), payer \in Contracts \cup {NoPayer}, value \in dbWorld.values[kind] :
     Outcome(Update(Now, kind, it, payer, value))

CallRemove == \E kind \in Kinds : \E it \in Iterators(kind) : Outcome(RemoveRow(Now, kind, it))

CallSeek ==
  \E kind \in Kinds, code \in Contracts, name \in TableNames :
    \E order \in Orders(kind), how \in {"find", "lower", "upper", "end"} :
      \E key \in IF order = "secondary" THEN dbWorld.values.idx ELSE dbWorld.keys[kind] :
         Outcome(Seek(Now, kind, order, code, name, how, key))

CallNext ==
  \E kind \in Kinds : \E it \in Iterators(kind), order \in Orders(kind) :
     Outcome(NextRow(Now, kind, order, it))

CallPrevious ==
  \E kind \in Kinds : \E it \in Iterators(kind), order \in Orders(kind) :
     LET tids == ReadableTids(Now, kind, it)
     IN  \/ \E tid \in tids : Outcome(PreviousRow(Now, kind, order, it, tid))
         \/ tids = {} /\ Outcome(Throw(Now))

\* The contract returns and the next recipient of the action runs, in the same
\* context and with its caches.
NotifyNext ==
  /\ \E code \in Contracts \ call.notified :
       IF ChargesAllowed(call)
       THEN /\ call' = [call EXCEPT !.receiver = code, !.notified = @ \cup {code},
                                    !.deltas = [a \in Contracts |-> 0]]
            /\ UNCHANGED <<dbWorld, tables, saved>>
       ELSE Outcome(Throw(Now))

\* The action ends and its transaction is committed.
CallReturns ==
  /\ IF ChargesAllowed(call)
     THEN saved' = tables /\ UNCHANGED tables
     ELSE tables' = saved /\ UNCHANGED saved
  /\ call' = NewCall(dbWorld.code)
  /\ UNCHANGED dbWorld

\* The tables are written to a snapshot and read back between transactions:
\* tables in the order of their ids, the rows of each index under them.
FromTablesSnapshot(db) ==
  LET tabs == SetToSortSeq(db.tabs, LAMBDA a, b : a.id < b.id)
      New(tid) == CHOOSE i \in 1..Len(tabs) : tabs[i].id = tid
      rows == SetToSortSeq(db.rows, LAMBDA a, b : a.tid < b.tid \/ (a.tid = b.tid /\ a.pk < b.pk))
  IN  [db EXCEPT !.tabs = {[tabs[i] EXCEPT !.id = i] : i \in 1..Len(tabs)},
                 !.rows = {[rows[i] EXCEPT !.id = i, !.tid = New(@)] : i \in 1..Len(rows)},
                 !.nextTab = Len(tabs) + 1, !.nextRow = Len(rows) + 1]

RestoreTables ==
  /\ tables = saved /\ call = NewCall(call.act)
  /\ tables' = FromTablesSnapshot(tables) /\ saved' = tables'
  /\ UNCHANGED <<dbWorld, call>>

CtNext == CallStore \/ CallUpdate \/ CallRemove \/ CallSeek \/ CallNext \/ CallPrevious
          \/ NotifyNext \/ CallReturns \/ RestoreTables

CtSpec == CtInit /\ [][CtNext]_ctVars

-----------------------------------------------------------------------------

\* Every account is billed exactly for the tables and rows it pays for, and a
\* table exists exactly as long as some row of some index is counted in it:
\* billing and refunds of stores, updates that change the payer or the size and
\* removals that take the table along cancel out over any sequence of calls.
StorageBilled ==
  /\ \A a \in Contracts :
       tables.ram[a] = TableSize * Cardinality({t \in tables.tabs : t.payer = a})
                       + MapThenSumSet(LAMBDA r : RowSize(r.kind, r.value), {r \in tables.rows : r.payer = a})
  /\ \A t \in tables.tabs : t.count > 0 /\ t.count = Cardinality({r \in tables.rows : r.tid = t.id})
  /\ \A r \in tables.rows : \E t \in tables.tabs : t.id = r.tid

\* The assertion "an invariant was broken, table should be in cache" of the
\* iterator cache never fires: an iterator that is not null points to a row that
\* exists, no row has two, and the row's table has its end iterator cached.
IteratorsHold ==
  \A kind \in Kinds :
    LET c == call.cache[kind]
    IN  \A i \in 1..Len(c.its) : c.its[i] # 0 =>
          /\ \A j \in 1..Len(c.its) : c.its[j] = c.its[i] => i = j
          /\ \E r \in tables.rows : r.id = c.its[i] /\ r.kind = kind /\ r.tid \in ToSet(c.ends)
=============================================================================
