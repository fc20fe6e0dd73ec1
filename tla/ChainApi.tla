------------------------------- MODULE ChainApi -------------------------------
(* The chain API of a node in two parts, each a specification of its own: the *)
(* queries that page through tables (Cq), and pushing lists of transactions   *)
(* (Push).                                                                    *)
EXTENDS Integers, FiniteSets, Sequences, SequencesExt, Naturals

-----------------------------------------------------------------------------
(***************************************************************************)
(* The paged queries of chain_plugin's read-only API: get_table_rows over  *)
(* the primary and over a secondary index, get_table_by_scope,             *)
(* get_producers, get_scheduled_transactions and get_currency_balance.     *)
(* Each call walks an ordered index of the chain database from a lower     *)
(* bound, stops at the limit or after 10 ms, and tells the client where to *)
(* continue.  The client pages through the answer while blocks change the  *)
(* database between two calls.                                             *)
(*                                                                         *)
(* An index entry is a pair <<first, second>> in the order of its index:   *)
(*   "rows"      <<primary key, 0>>         by_scope_primary               *)
(*   "seckey"    <<secondary, primary>>     by_secondary                   *)
(*   "scopes"    <<scope, table>>           by_code_scope_table            *)
(*   "producers" <<votes, owner>>           by_secondary                   *)
(*   "scheduled" <<delay_until, id>>        by_delay                       *)
(*   "balance"   <<symbol, 0>>              by_scope_primary               *)
(* The strings of a request are the numbers they convert to; NoBound is    *)
(* an empty string.                                                        *)
(***************************************************************************)

CONSTANTS
  Queries,     \* the first requests: records as in Request below
  Entries,     \* for each kind of query, the entries its index may hold
  DigitNames,  \* the scopes whose name is written with digits only
  MaxChanges   \* bound on the changes of the database during one scan

VARIABLES
  entries,  \* the index the query walks
  rows,     \* the primary keys that have a key_value_object ("seckey")
  query,    \* the request the client sends next
  got,      \* what it was given so far, in the order of the answers
  stage,    \* "asking", "done" (no more) or "stopped" (told that there is more)
  kept,     \* ghost: the rows asked for that were there all the time
  broken,   \* ghost: the place to continue from did not survive
  changes   \* ghost: how often the database changed

cqVars == <<entries, rows, query, got, stage, kept, broken, changes>>

NoBound == 0
Top == 1000000    \* numeric_limits<uint64_t>::max()

Before(a, b) == a[1] < b[1] \/ (a[1] = b[1] /\ a[2] < b[2])

\* The entries of a set in the order of the index.
Sorted(S) ==
  [i \in 1 .. Cardinality(S) |->
     CHOOSE e \in S : Cardinality({x \in S : Before(x, e)}) = i - 1]

Paired == {"seckey", "producers", "scheduled"}   \* one entry per second part

(***************************************************************************)
(* get_table_index_name: the position in the request chooses the primary   *)
(* index or the number of a secondary one (four bits of the table's name). *)
(* The contract of the model has the secondary index number 0.             *)
(***************************************************************************)
IndexName(position) ==
  IF position < 2 THEN [primary |-> TRUE, number |-> 0]
                  ELSE [primary |-> FALSE, number |-> (position - 2) % 16]

\* get_table_rows: the dispatch on the index found, and the table ids.
IndexOf(q) ==
  LET i == IndexName(q.position)
  IN  IF q.kind = "seckey" /\ (i.primary \/ i.number # 0) THEN {} ELSE entries

LowerTuple(q) == <<q.lower, q.table>>
UpperTupleOpen(q) == <<IF q.upper = NoBound THEN Top ELSE q.upper, q.table>>
UpperTuple(q) == <<IF q.upper = NoBound THEN Top ELSE q.upper,
                   IF q.table = NoBound THEN Top ELSE q.table>>

\* The range of the table queries: nothing when the bounds are crossed,
\* and the other way round for a reverse query.
TableRange(q) ==
  LET lower == LowerTuple(q)
      upper == UpperTuple(q)
      range == Sorted({e \in IndexOf(q) : ~Before(e, lower) /\ ~Before(upper, e)})
  IN  IF Before(upper, lower) THEN <<>>
      ELSE IF q.reverse THEN Reverse(range) ELSE range

From(e) == Sorted({x \in entries : ~Before(x, e)})

\* get_producers: from the first vote, or from the votes of the first owner
\* whose name is not below the lower bound.
ProducersAtOrAbove(lower) ==
  {e \in entries : e[2] >= lower /\ \A x \in entries : x[2] >= lower => e[2] <= x[2]}

ProducerRange(q) ==
  IF q.lower = NoBound THEN Sorted(entries)
  ELSE IF ProducersAtOrAbove(q.lower) = {} THEN <<>>
  ELSE From(CHOOSE e \in ProducersAtOrAbove(q.lower) : TRUE)

\* get_scheduled_transactions: from the beginning, from a time, or from the
\* transaction with the given id; from the end when there is none.
ScheduledRange(q) ==
  IF q.since # NoBound THEN Sorted({e \in entries : e[1] >= q.since})
  ELSE IF q.lower = NoBound THEN Sorted(entries)
  ELSE IF \E e \in entries : e[2] = q.lower
       THEN From(CHOOSE e \in entries : e[2] = q.lower)
       ELSE <<>>

IndexRange(q) ==
  CASE q.kind = "producers" -> ProducerRange(q)
    [] q.kind = "scheduled" -> ScheduledRange(q)
    [] q.kind = "balance"   -> Sorted(entries)
    [] OTHER                -> TableRange(q)

\* Whether the walk pushes a row for an entry: get_table_by_scope passes over
\* other tables, a secondary entry without a row is passed over, and
\* get_currency_balance compares the symbol.
Pushes(q, e) ==
  CASE q.kind = "scopes"  -> q.table \in {NoBound, e[2]}
    [] q.kind = "seckey"  -> e[2] \in rows
    [] q.kind = "balance" -> q.lower \in {NoBound, e[1]}
    [] OTHER              -> TRUE

\* get_currency_balance: the walk ends at the one symbol that was asked for.
BalanceEnds(q, e) == q.lower # NoBound /\ e[1] = q.lower

Pushed(q, s) == SelectSeq(s, LAMBDA e : Pushes(q, e))

\* The walks stop after the limit's last row; `time` is how many entries they
\* get to before the 10 ms are over.  The table walks look at the clock after
\* an entry, so they always get to one; get_producers and
\* get_scheduled_transactions look at it before.
Stops(q, range, time, n) ==
  \/ n = Len(range)
  \/ n >= time
  \/ q.kind # "balance" /\ Len(Pushed(q, SubSeq(range, 1, n))) >= q.limit
  \/ q.kind = "balance" /\ n > 0 /\ BalanceEnds(q, range[n])

Times(q, range) ==
  CASE q.kind = "balance" -> {Len(range) + 1}
    [] q.kind \in {"producers", "scheduled"} -> 0 .. Len(range) + 1
    [] OTHER -> 1 .. Len(range) + 1

Walked(q, range, time) ==
  CHOOSE n \in 0 .. Len(range) :
    Stops(q, range, time, n) /\ \A k \in 0 .. n - 1 : ~Stops(q, range, time, k)

\* convert_to_type of a scope's text: a text of digits is read as a number,
\* which lies below every name; any other text as the name it is.
Converted(scope) == IF scope \in DigitNames THEN 1 ELSE scope

\* `more` of an answer as the next request's bound: the scope's text, the
\* producer's name or the transaction's id of the entry the walk stopped at.
\* A get_table_rows answer only says that there is more: the client of the
\* primary index continues after the last key, a client of a secondary index
\* cannot.  A client gives up when a page brings nothing new.
Continued(q, page, next) ==
  CASE q.kind \in {"producers", "scheduled"} ->
         [q EXCEPT !.lower = next[2], !.since = NoBound]
    [] q.kind = "scopes" /\ ~q.reverse -> [q EXCEPT !.lower = Converted(next[1])]
    [] q.kind = "scopes" /\ q.reverse  -> [q EXCEPT !.upper = Converted(next[1])]
    [] q.kind = "rows" /\ ~q.reverse   -> [q EXCEPT !.lower = Last(page)[1] + 1]
    [] q.kind = "rows" /\ q.reverse    -> [q EXCEPT !.upper = Last(page)[1] - 1]

CanContinue(q, page) ==
  /\ q.kind # "seckey"
  /\ q.kind = "rows" => page # <<>> /\ (q.reverse => Last(page)[1] > 1)
  /\ page = <<>> \/ ~(Range(page) \subseteq Range(got))

\* A call of the API and its answer.
Ask ==
  /\ stage = "asking"
  /\ \E range \in {IndexRange(query)} : \E time \in Times(query, range) :
     \E n \in {Walked(query, range, time)} :
     \E page \in {Pushed(query, SubSeq(range, 1, n))} :
       LET more == n < Len(range) /\ query.kind # "balance"
           goes == more /\ CanContinue(query, page)
       IN  /\ got' = got \o page
           /\ stage' = IF goes THEN "asking" ELSE IF more THEN "stopped" ELSE "done"
           /\ query' = IF goes THEN Continued(query, page, range[n + 1]) ELSE query
           /\ broken' = (broken \/ (goes /\ query.kind = "scopes"
                                         /\ Converted(range[n + 1][1]) # range[n + 1][1]))
  /\ UNCHANGED <<entries, rows, kept, changes>>

\* Between two calls blocks are applied: an entry of the index is stored,
\* removed or moved to another first part (a change of the votes).
Touches(e) == query.kind \in {"producers", "scheduled"} /\ e[2] = query.lower

Change ==
  /\ stage = "asking" /\ got # <<>> /\ changes < MaxChanges
  /\ changes' = changes + 1
  /\ \/ \E e \in Entries[query.kind] \ entries :
          /\ query.kind \in Paired => \A x \in entries : x[2] # e[2]
          /\ entries' = entries \cup {e}
          /\ UNCHANGED <<rows, kept, broken>>
     \/ \E e \in entries :
          /\ entries' = entries \ {e}
          /\ kept' = kept \ {e}
          /\ broken' = (broken \/ Touches(e))
          /\ UNCHANGED rows
     \/ \E e \in entries, d \in Entries[query.kind] \ entries :
          /\ query.kind \in Paired /\ d[2] = e[2]
          /\ entries' = (entries \ {e}) \cup {d}
          /\ kept' = kept \ {e}
          /\ broken' = (broken \/ Touches(e))
          /\ UNCHANGED rows
  /\ UNCHANGED <<query, got, stage>>

\* What a request asks for: the rows from the lower to the upper bound, of
\* the table and of the index that it names.
Asked(q) ==
  IF q.kind \in {"rows", "seckey", "scopes"}
  THEN {e \in entries :
          /\ e[1] >= q.lower
          /\ q.upper # NoBound => e[1] <= q.upper
          /\ q.table # NoBound => e[2] = q.table
          /\ q.kind = "seckey" => q.position = 2 /\ e[2] \in rows}
  ELSE {e \in Range(IndexRange(q)) : Pushes(q, e)}

Subsets(kind) ==
  {S \in SUBSET Entries[kind] :
     kind \in Paired => \A a, b \in S : a[2] = b[2] => a = b}

CqInit ==
  /\ query \in Queries
  /\ entries \in Subsets(query.kind)
  /\ rows \in IF query.kind = "seckey" THEN SUBSET {e[2] : e \in entries} ELSE {{}}
  /\ got = <<>> /\ stage = "asking" /\ broken = FALSE /\ changes = 0
  /\ kept = Asked(query)

CqNext == Ask \/ Change

CqSpec == CqInit /\ [][CqNext]_cqVars

-----------------------------------------------------------------------------
(***************************************************************************)
(* What the client may rely on: when an answer says that there is no more  *)
(* (read_only::get_table_rows_result::more and the `more` of the other     *)
(* answers empty), every row asked for that was in the database from the   *)
(* first call to the last has been returned, whatever was stored, removed  *)
(* or moved in between, provided that the producer or transaction to       *)
(* continue from was left alone and the text of a scope reads back as      *)
(* itself.  As long as nothing changed only rows asked for are returned,   *)
(* and none of them twice, except by get_table_by_scope, which continues   *)
(* with a whole scope again.                                               *)
(***************************************************************************)
PagesComplete ==
  /\ stage = "done" /\ ~broken => kept \subseteq Range(got)
  /\ changes = 0 /\ ~broken => Range(got) \subseteq kept
  /\ changes = 0 /\ query.kind # "scopes" => IsInjective(got)

\* The `more` of get_table_by_scope_result and get_producers_result is
\* documented as "fill lower_bound with this value to fetch more rows": while
\* nothing changes, following it never brings a row again.
NextPageIsNew == changes = 0 => IsInjective(got)

-----------------------------------------------------------------------------
(***************************************************************************)
(* The chain API's calls that push transactions: push_transaction, which   *)
(* answers with the action traces as a tree, send_transaction, which       *)
(* leaves them as a list, and push_transactions, which pushes a list one   *)
(* after the other, each when the one before has been answered.  The       *)
(* producer plugin's transaction_async answers each transaction once, at   *)
(* any later time, with an exception or a trace.                           *)
(*                                                                         *)
(* An action trace is [ancestor, sequence, failed]: its closest unnotified *)
(* ancestor's ordinal (0: none), its receipt's global sequence (0: it has  *)
(* no receipt), and whether it has an exception.  Its ordinal is its place *)
(* in the list.                                                            *)
(***************************************************************************)

CONSTANTS
    PushClients,    \* calls of the API
    PushLists,      \* what they push: lists of transaction ids
    PushTraces,     \* the lists of action traces a transaction may leave
    MaxAtOnce       \* the 1000 of push_transactions

VARIABLES
    calls,          \* per client: the call, how far it is, its answer
    exited          \* handle_db_exhaustion ended the process

pushVars == <<calls, exited>>

PushKinds == {"push_transaction", "send_transaction", "push_transactions"}
NoCall == [kind |-> "none", list |-> <<>>, index |-> 0, results |-> <<>>, answers |-> <<>>]
PushError == [id |-> "error", flat |-> TRUE, tree |-> <<>>, trace |-> <<>>]

-----------------------------------------------------------------------------
(* convert_act_trace_to_tree_struct: the traces that ran or failed, under  *)
(* their ancestor in the order of their global sequence, the one with no   *)
(* receipt last; here depth first, as <<ancestor, ordinal>>.               *)
Kept(trace, i) == trace[i].sequence # 0 \/ trace[i].failed
EarlierByOrdinal(trace, i, j) == i < j
Earlier(trace, i, j) ==
    trace[i].sequence # 0 /\ (trace[j].sequence = 0 \/ trace[i].sequence < trace[j].sequence)

Under(trace, a) ==
    SetToSortSeq({i \in DOMAIN trace : Kept(trace, i) /\ trace[i].ancestor = a},
                 LAMBDA i, j : Earlier(trace, i, j))

RECURSIVE TreeUnder(_, _)
TreeUnder(trace, a) ==
    FoldLeft(LAMBDA done, i : Append(done, <<a, i>>) \o TreeUnder(trace, i), <<>>, Under(trace, a))

(* With no ABI to show the actions by, the trace goes out as it is.        *)
Result(kind, id, trace, abiFails) ==
    [id |-> id, flat |-> kind = "send_transaction" \/ abiFails, trace |-> trace,
     tree |-> IF kind = "send_transaction" \/ abiFails THEN <<>> ELSE TreeUnder(trace, 0)]

-----------------------------------------------------------------------------
PushInit ==
    /\ calls = [c \in PushClients |-> NoCall]
    /\ exited = FALSE

(* A batch that stops at its first failure.                                *)
WrappedNextStops(call, result) ==
    LET results == Append(call.results, result)
    IN IF call.index < Len(call.list) /\ result.id # "error"
       THEN [call EXCEPT !.results = results, !.index = @ + 1]
       ELSE [call EXCEPT !.results = results, !.index = 0, !.answers = Append(@, "results")]

(* push_recurse's wrapped_next, and the callers' own `next`: the result is *)
(* kept; the next transaction is pushed, or the call answered.             *)
WrappedNext(call, result) ==
    LET results == Append(call.results, result)
    IN IF call.index < Len(call.list)
       THEN [call EXCEPT !.results = results, !.index = @ + 1]
       ELSE [call EXCEPT !.results = results, !.index = 0, !.answers = Append(@, "results")]

(* An empty list or one too long is refused; a single push takes one.      *)
Call(c) == \E kind \in PushKinds, list \in PushLists :
    /\ ~exited
    /\ calls[c] = NoCall
    /\ kind # "push_transactions" => Len(list) = 1
    /\ calls' = [calls EXCEPT ![c] =
            IF Len(list) \in 1..MaxAtOnce
            THEN [NoCall EXCEPT !.kind = kind, !.list = list, !.index = 1]
            ELSE [NoCall EXCEPT !.kind = kind, !.list = list, !.answers = <<"exception">>]]
    /\ UNCHANGED exited

Waiting(c) == ~exited /\ calls[c].index > 0
CurrentId(c) == calls[c].list[calls[c].index]

(* The transaction cannot be unpacked, or the node refuses it.             *)
Refuse(c) ==
    /\ Waiting(c)
    /\ calls' = [calls EXCEPT ![c] =
            IF @.kind = "push_transactions" THEN WrappedNext(@, PushError)
            ELSE [@ EXCEPT !.index = 0, !.answers = Append(@, "exception")]]
    /\ UNCHANGED exited

Traced(c) == \E trace \in PushTraces, abiFails \in BOOLEAN :
    /\ Waiting(c)
    /\ calls' = [calls EXCEPT ![c] = WrappedNext(@, Result(@.kind, CurrentId(c), trace, abiFails))]
    /\ UNCHANGED exited

HandleDbExhaustion(c) ==
    /\ Waiting(c)
    /\ exited' = TRUE
    /\ UNCHANGED calls

PushNext == \E c \in PushClients : Call(c) \/ Refuse(c) \/ Traced(c) \/ HandleDbExhaustion(c)
PushSpec == PushInit /\ [][PushNext]_pushVars

-----------------------------------------------------------------------------
(* A tree holds every action that ran or failed once, below the action     *)
(* that caused it, which comes before it, and an action's children in the  *)
(* order they ran.                                                         *)
WholeTree(trace, tree) ==
    LET at(i) == CHOOSE k \in DOMAIN tree : tree[k][2] = i
        keptOnes == {i \in DOMAIN trace : Kept(trace, i)}
    IN /\ Len(tree) = Cardinality(keptOnes)
       /\ {tree[k] : k \in DOMAIN tree} = {<<trace[i].ancestor, i>> : i \in keptOnes}
       /\ \A i, j \in keptOnes :
            /\ trace[i].ancestor = trace[j].ancestor
            /\ trace[i].sequence # 0
            /\ trace[j].sequence = 0 \/ trace[i].sequence < trace[j].sequence
            => at(i) < at(j)
       /\ \A i, j \in keptOnes : trace[j].ancestor = i => at(i) < at(j)

(* Whatever fails on the way, a call is answered at most once, and an      *)
(* answered list has one result per transaction, in the order they were    *)
(* given, each with its transaction's id and all of its actions.           *)
PushesAnswered == \A c \in PushClients : LET call == calls[c] IN
    /\ Len(call.answers) <= 1
    /\ call.answers = <<"results">> => Len(call.results) = Len(call.list)
    /\ \A k \in DOMAIN call.results : LET r == call.results[k] IN
        r.id # "error" => r.id = call.list[k] /\ (r.flat \/ WholeTree(r.trace, r.tree))
=============================================================================
