---------------------------- MODULE Authorization ----------------------------
(* Accounts and authority in two parts, each a specification of its own: the  *)
(* permissions, links and code of accounts (Pm), and the check of a           *)
(* transaction's authorizations against keys (Ac).                            *)
EXTENDS Integers, FiniteSets, FiniteSetsExt, Sequences, SequencesExt

-----------------------------------------------------------------------------
(***************************************************************************)
(* Accounts and their permissions, links, code and ABI, as the native      *)
(* actions of the system account change them (eosio_contract.cpp), each    *)
(* after its check that the permission it declares is high enough          *)
(* (authorization_manager.cpp).  That a declared permission is satisfied   *)
(* by keys is in the second part.  An action that fails changes nothing    *)
(* and is no step.                                                         *)
(***************************************************************************)

CONSTANTS
    Newcomers,   \* names of accounts to create
    PermNames,   \* permission names besides owner and active
    LinkTypes,   \* action types, "" for a whole contract
    Hashes,      \* contract code
    Sizes,       \* billable sizes of authorities and ABIs
    MaxPermId,   \* bound on the permissions created
    Actors       \* who acts in a behaviour: [manage |-> accounts that change
                 \* permissions and links, deploy |-> accounts that set code]

System == "eosio"
AllNames == {"owner", "active"} \cup PermNames
CodeSize(h) == IF h = "none" THEN 0 ELSE 10

VARIABLES
    accounts,   \* the accounts
    perms,      \* permission_index: [id, owner, name, parent, size]
    links,      \* permission_link_index: [account, code, type, requirement]
    code,       \* code[a]: the hash of a's code
    abi,        \* abi[a]: the size of a's ABI
    refs,       \* refs[h]: code_ref_count, 0 when there is no code_object
    ram,        \* ram[a]: RAM billed
    next_id,
    features,   \* builtin features activated
    actors

pmVars == <<accounts, perms, links, code, abi, refs, ram, next_id, features, actors>>

AllAccounts == {System} \cup Newcomers
Perm(id, a, n, parent, size) == [id |-> id, owner |-> a, name |-> n, parent |-> parent, size |-> size]

\* create_native_account; id 0 is reserved for the absence of a parent.
PmInit ==
    /\ accounts = {System}
    /\ perms = {Perm(1, System, "owner", 0, 1), Perm(2, System, "active", 1, 1)}
    /\ links = {}
    /\ code = [a \in AllAccounts |-> "none"] /\ abi = [a \in AllAccounts |-> 0]
    /\ refs = [h \in Hashes |-> 0]
    /\ ram = [a \in AllAccounts |-> 0]
    /\ next_id = 3
    /\ features = {}
    /\ actors \in Actors
--------------------------------------------------------------------------------
(* authorization_manager *)

Find(a, n) == {p \in perms : p.owner = a /\ p.name = n}

\* permission_object::satisfies, by the ids of a permission and of those above it.
Above(q) ==
    LET up[i \in 0..MaxPermId] ==
            IF i = 0 THEN {} ELSE {i} \cup UNION {up[p.parent] : p \in {p \in perms : p.id = i /\ p.parent < i}}
    IN up[q.id]
Satisfies(p, q) == p.owner = q.owner /\ p.id \in Above(q)

\* get_permission of a name fails when there is none.
SatisfiesName(p, a, n) == \E q \in Find(a, n) : Satisfies(p, q)

\* lookup_linked_permission, lookup_minimum_permission.
LinkOf(a, c, t) == {l \in links : l.account = a /\ l.code = c /\ l.type = t}
Linked(a, c, t) ==
    IF LinkOf(a, c, t) # {} THEN {l.requirement : l \in LinkOf(a, c, t)}
    ELSE {l.requirement : l \in LinkOf(a, c, "")}
Minimum(a, c, t) == IF Linked(a, c, t) = {} THEN {"active"} ELSE Linked(a, c, t)

\* check_authorization, of an action with the declared permission p.
MayAct(p, c, t) ==
    \A n \in Minimum(p.owner, c, t) : n = "eosio.any" \/ SatisfiesName(p, p.owner, n)

Native == {"updateauth", "deleteauth", "linkauth", "unlinkauth", "canceldelay"}

\* check_updateauth_authorization, of p for the permission n, or for its parent
\* when it is new.
MayUpdate(p, n, parent) ==
    IF Find(p.owner, n) # {} THEN SatisfiesName(p, p.owner, n) ELSE SatisfiesName(p, p.owner, parent)

\* check_linkauth_authorization.
MayLink(p, c, t) ==
    /\ (c = System \/ "fix_linkauth_restriction" \notin features) => t \notin Native
    /\ MayAct(p, c, t)

\* check_unlinkauth_authorization.
MayUnlink(p, c, t) ==
    /\ Linked(p.owner, c, t) # {}
    /\ \A n \in Linked(p.owner, c, t) : n = "eosio.any" \/ SatisfiesName(p, p.owner, n)

--------------------------------------------------------------------------------
(* Native actions *)

BillPerm(size) == 5 + size  \* billable_size_v<permission_object> and the authority's
BillLink == 3               \* billable_size_v<permission_link_object>

NewAccount(p, a, owner_size, active_size) ==
    /\ MayAct(p, System, "newaccount")
    /\ a \notin accounts /\ next_id + 1 <= MaxPermId
    /\ accounts' = accounts \cup {a}
    /\ perms' = perms \cup {Perm(next_id, a, "owner", 0, owner_size), Perm(next_id + 1, a, "active", next_id, active_size)}
    /\ next_id' = next_id + 2
    /\ ram' = [ram EXCEPT ![a] = @ + BillPerm(owner_size) + BillPerm(active_size)]
    /\ UNCHANGED <<links, code, abi, refs, features, actors>>

UpdateAuthReparents(p, n, parent, size) ==
    /\ MayUpdate(p, n, parent) /\ n # parent
    /\ next_id <= MaxPermId
    /\ perms' = (perms \ Find(p.owner, n)) \cup
            {Perm(IF Find(p.owner, n) = {} THEN next_id ELSE q.id, p.owner, n, parent_perm.id, size) :
                q \in IF Find(p.owner, n) = {} THEN {p} ELSE Find(p.owner, n), parent_perm \in Find(p.owner, parent)}
    /\ next_id' = next_id + 1
    /\ UNCHANGED <<accounts, links, code, abi, refs, ram, features, actors>>

\* updateauth: parent is "" for the owner permission alone.
UpdateAuth(p, n, parent, size) ==
    LET a == p.owner
        parents == IF n = "owner" THEN {0} ELSE {q.id : q \in Find(a, parent)}
    IN /\ MayUpdate(p, n, parent)
       /\ n # parent
       /\ n = "active" => parent = "owner"
       /\ n = "owner" <=> parent = ""
       /\ parents # {}
       /\ \/ \E q \in Find(a, n) :
                /\ q.parent \in parents
                /\ perms' = (perms \ {q}) \cup {[q EXCEPT !.size = size]}
                /\ ram' = [ram EXCEPT ![a] = @ + BillPerm(size) - BillPerm(q.size)]
                /\ UNCHANGED next_id
          \/ /\ Find(a, n) = {} /\ next_id <= MaxPermId
             /\ perms' = perms \cup {Perm(next_id, a, n, id, size) : id \in parents}
             /\ next_id' = next_id + 1
             /\ ram' = [ram EXCEPT ![a] = @ + BillPerm(size)]
       /\ UNCHANGED <<accounts, links, code, abi, refs, features, actors>>

DeleteAuthLinked(p, n) ==
    \E q \in Find(p.owner, n) :
        /\ Satisfies(p, q) /\ n \notin {"owner", "active"}
        /\ ~\E r \in perms : r.parent = q.id
        /\ perms' = perms \ {q}
        /\ ram' = [ram EXCEPT ![p.owner] = @ - BillPerm(q.size)]
        /\ UNCHANGED <<accounts, links, code, abi, refs, next_id, features, actors>>

\* deleteauth: not of a linked permission, nor of one with children.
DeleteAuth(p, n) ==
    \E q \in Find(p.owner, n) :
        /\ Satisfies(p, q)
        /\ n \notin {"owner", "active"}
        /\ ~\E l \in links : l.account = p.owner /\ l.requirement = n
        /\ ~\E r \in perms : r.parent = q.id
        /\ perms' = perms \ {q}
        /\ ram' = [ram EXCEPT ![p.owner] = @ - BillPerm(q.size)]
        /\ UNCHANGED <<accounts, links, code, abi, refs, next_id, features, actors>>

\* linkauth: before only_link_to_existing_permission, a permission of any
\* account by that name will do.
LinkAuth(p, c, t, n) ==
    LET a == p.owner
        link == [account |-> a, code |-> c, type |-> t, requirement |-> n]
    IN /\ MayLink(p, c, t)
       /\ c \in accounts
       /\ \/ n = "eosio.any"
          \/ \E q \in perms : q.name = n /\ ("only_link_to_existing_permission" \in features => q.owner = a)
       /\ link \notin links
       /\ links' = (links \ LinkOf(a, c, t)) \cup {link}
       /\ ram' = IF LinkOf(a, c, t) = {} THEN [ram EXCEPT ![a] = @ + BillLink] ELSE ram
       /\ UNCHANGED <<accounts, perms, code, abi, refs, next_id, features, actors>>

UnlinkAuth(p, c, t) ==
    /\ MayUnlink(p, c, t)
    /\ LinkOf(p.owner, c, t) # {}
    /\ links' = links \ LinkOf(p.owner, c, t)
    /\ ram' = [ram EXCEPT ![p.owner] = @ - BillLink]
    /\ UNCHANGED <<accounts, perms, code, abi, refs, next_id, features, actors>>

RefsKept(a, h) == [refs EXCEPT ![h] = @ + 1]

\* The counts of the code given up and of the code taken; a code_object goes
\* with its last account.
RefsAfter(a, h) ==
    [g \in Hashes |-> refs[g] + (IF g = h THEN 1 ELSE 0) - (IF g = code[a] THEN 1 ELSE 0)]

SetCode(p, h) ==
    LET a == p.owner
    IN /\ MayAct(p, System, "setcode")
       /\ h # code[a]
       /\ refs' = IF h = "none" THEN [refs EXCEPT ![code[a]] = @ - 1] ELSE RefsAfter(a, h)
       /\ code' = [code EXCEPT ![a] = h]
       /\ ram' = [ram EXCEPT ![a] = @ + CodeSize(h) - CodeSize(code[a])]
       /\ UNCHANGED <<accounts, perms, links, abi, next_id, features, actors>>

SetAbi(p, size) ==
    /\ MayAct(p, System, "setabi")
    /\ abi' = [abi EXCEPT ![p.owner] = size]
    /\ ram' = [ram EXCEPT ![p.owner] = @ + size - abi[p.owner]]
    /\ UNCHANGED <<accounts, perms, links, code, refs, next_id, features, actors>>

Activate(f) ==
    /\ features' = features \cup {f}
    /\ UNCHANGED <<accounts, perms, links, code, abi, refs, ram, next_id, actors>>

\* add_to_snapshot and read_from_snapshot: the rows in the order of their ids,
\* a parent by its owner and name among the rows already read.
FromSnapshot ==
    LET rows == SetToSortSeq(perms, LAMBDA p, q : p.id < q.id)
        parentOf(p) == {q \in perms : q.id = p.parent}
        read(done, row) ==
            LET above == {q \in done : q.owner = row.owner /\ \E o \in parentOf(row) : o.name = q.name}
            IN IF row.parent = 0 THEN done \cup {row}
               ELSE done \cup {[row EXCEPT !.parent = q.id] : q \in above}
    IN FoldLeft(read, {}, rows)

Declared(group) == {p \in perms : p.owner \in group}

PmNext ==
    \/ \E p \in Declared({System}), a \in Newcomers, s \in Sizes : NewAccount(p, a, s, s)
    \/ \E p \in Declared(actors.manage) :
        \/ \E n \in AllNames, parent \in AllNames \cup {""}, s \in Sizes : UpdateAuth(p, n, parent, s)
        \/ \E n \in AllNames : DeleteAuth(p, n)
        \/ \E t \in LinkTypes, n \in AllNames \cup {"eosio.any"} : LinkAuth(p, System, t, n)
        \/ \E t \in LinkTypes : UnlinkAuth(p, System, t)
    \/ \E p \in Declared(actors.deploy) :
        \/ \E h \in Hashes \cup {"none"} : SetCode(p, h)
        \/ \E s \in Sizes : SetAbi(p, s)
    \/ \E f \in {"only_link_to_existing_permission", "fix_linkauth_restriction"} \ features : Activate(f)

PmSpec == PmInit /\ [][PmNext]_pmVars
--------------------------------------------------------------------------------
(* Every permission hangs below its account's owner permission, through       *)
(* permissions that are older than it and still exist, whatever was created,  *)
(* changed and deleted meanwhile; and a snapshot, which names parents instead *)
(* of numbering them, is read back as it was written.                         *)
PermissionTree ==
    /\ \A p \in perms :
        /\ p.parent = 0 <=> p.name = "owner"
        /\ p.parent # 0 => \E q \in perms : q.id = p.parent /\ q.owner = p.owner /\ q.id < p.id
        /\ SatisfiesName(CHOOSE o \in perms : o.owner = p.owner /\ o.name = "owner", p.owner, p.name)
    /\ FromSnapshot = perms

LinksResolve == \A l \in links : l.requirement = "eosio.any" \/ Find(l.account, l.requirement) # {}

(* Once linkauth accepts the account's own permissions only, no step leaves   *)
(* a link to a permission that does not exist: such a link could neither be   *)
(* used, nor changed, nor removed.                                            *)
LinksStayResolved ==
    [][LinksResolve /\ "only_link_to_existing_permission" \in features => LinksResolve']_pmVars

Billed(a) ==
    LET own == {p \in perms : p.owner = a /\ a # System}
    IN MapThenSumSet(LAMBDA p : BillPerm(p.size), own) + BillLink * Cardinality({l \in links : l.account = a})
       + CodeSize(code[a]) + abi[a]

(* An account is billed for exactly what it has on the chain, and a contract's *)
(* code is kept exactly as long as an account runs it, however often code is   *)
(* set, shared and cleared.                                                    *)
StorageAccounted ==
    /\ \A a \in Newcomers : ram[a] = Billed(a)
    /\ \A h \in Hashes : refs[h] = Cardinality({a \in AllAccounts : code[a] = h})

-----------------------------------------------------------------------------
(***************************************************************************)
(* The check of a transaction's signatures (authority_checker.hpp and      *)
(* authorization_manager.cpp): whether keys, permissions and a delay       *)
(* satisfy the authorities declared, and which of the keys that takes.     *)
(*                                                                         *)
(* A permission level is a pair <<actor, name>>.  An authority is a        *)
(* threshold and a set of factors, [kind, of, weight]: a wait (of seconds),*)
(* a key, or an account (another permission level).  A behaviour checks    *)
(* one transaction: first the keys it needs are asked for, of those that   *)
(* could be had, then the transaction is checked with the keys it bears.   *)
(***************************************************************************)

CONSTANTS
    Authorities,   \* sets of permissions: functions from levels to authorities
    KeySets,       \* sets of keys
    DeclaredAuths, \* sequences of levels a transaction's actions declare
    Grants,        \* sets of levels considered satisfied
    Delays,        \* delays provided
    DepthLimits,   \* max_authority_depth
    MaxDelay       \* max_transaction_delay

VARIABLES
    auths,      \* the permissions of the chain
    asked,      \* the keys of get_required_keys
    declared, granted, delay, limit,
    required,   \* the answer of get_required_keys
    verdict     \* the answer of check_authorization

acVars == <<auths, asked, declared, granted, delay, limit, required, verdict>>
--------------------------------------------------------------------------------
(* authority_checker *)

KindRank(f) == CASE f.kind = "wait" -> 2 [] f.kind = "key" -> 1 [] f.kind = "account" -> 0

\* meta_permission_comparator.
Precedes(f, g) ==
    \/ f.weight > g.weight
    \/ f.weight = g.weight /\ KindRank(f) > KindRank(g)

MetaPermissions(authority) == SetToSortSeq(authority.factors, Precedes)

\* validate: the keys, levels and waits of an authority are distinct by
\* construction of the set.
Weigh(factors) == FoldSet(LAMBDA f, total : f.weight + total, 0, factors)
ValidAuthority(authority) ==
    /\ authority.threshold > 0
    /\ \A f \in authority.factors : f.kind = "wait" => f.of > 0
    /\ \A f, g \in authority.factors : f.kind = g.kind /\ f.of = g.of => f = g
    /\ Weigh(authority.factors) >= authority.threshold

StatusOptimistic(cache, level) ==
    IF level \in DOMAIN cache /\ cache[level] # "permission_unsatisfied" THEN "permission_satisfied" ELSE "none"

\* permission_status_in_cache, with the wildcard of an actor.
Status(cache, level) ==
    IF level \in DOMAIN cache THEN cache[level]
    ELSE IF <<level[1], "">> \in DOMAIN cache THEN cache[<<level[1], "">>]
    ELSE "none"

Cached(cache, level, status) == [l \in DOMAIN cache \cup {level} |-> IF l = level THEN status ELSE cache[l]]

\* The checker: the keys provided and those used, the delay, and the cache of
\* the call.
RECURSIVE SatisfiedAuthority(_, _, _), Visit(_, _, _, _, _)

\* satisfied, of an authority: the keys used are taken back when it fails.
SatisfiedAuthority(authority, s, depth) ==
    LET r == Visit(MetaPermissions(authority), authority.threshold, 0, s, depth)
    IN [ok |-> r.ok, s |-> IF r.ok THEN r.s ELSE [r.s EXCEPT !.used = s.used]]

\* weight_tally_visitor over the factors left, with the weight so far.
Visit(factors, threshold, total, s, depth) ==
    IF factors = <<>> THEN [ok |-> FALSE, s |-> s]
    ELSE
    LET f == Head(factors)
        status == IF f.kind = "account" THEN Status(s.cache, f.of) ELSE "none"
        descend == f.kind = "account" /\ status = "none" /\ depth < limit /\ f.of \in DOMAIN auths
        inner == IF descend
                 THEN SatisfiedAuthority(auths[f.of], [s EXCEPT !.cache = Cached(@, f.of, "being_evaluated")], depth + 1)
                 ELSE [ok |-> FALSE, s |-> s]
        counts == CASE f.kind = "wait" -> s.delay >= f.of
                    [] f.kind = "key" -> f.of \in s.keys
                    [] f.kind = "account" -> inner.ok \/ status = "permission_satisfied"
        after == CASE f.kind = "key" /\ counts -> [s EXCEPT !.used = @ \cup {f.of}]
                   [] descend -> [inner.s EXCEPT !.cache = Cached(@, f.of,
                                    IF inner.ok THEN "permission_satisfied" ELSE "permission_unsatisfied")]
                   [] OTHER -> s
        sum == IF counts THEN total + f.weight ELSE total
    IN IF sum >= threshold THEN [ok |-> TRUE, s |-> after]
       ELSE Visit(Tail(factors), threshold, sum, after, depth)

\* make_auth_checker, initialize_permission_cache.
Checker(keys, grants, d) ==
    [keys |-> keys, used |-> {}, delay |-> d, grants |-> grants, cache |-> <<>>]
FreshCache(s) == [s EXCEPT !.cache = [l \in s.grants |-> "permission_satisfied"]]

\* satisfied, of a level: a call starts with a cache of its own.
Satisfied(level, s) ==
    LET r == Visit(<<[kind |-> "account", of |-> level, weight |-> 1]>>, 1, 0, FreshCache(s), 0)
    IN [ok |-> r.ok, s |-> r.s]

--------------------------------------------------------------------------------
(* authorization_manager *)

\* The declared levels, one after the other.
SatisfyAll(levels, s0) ==
    FoldLeft(LAMBDA r, l : IF ~r.ok THEN r ELSE Satisfied(l, r.s), [ok |-> TRUE, s |-> s0], levels)

\* get_required_keys.
GetRequiredKeys(levels, candidates) ==
    LET r == SatisfyAll(levels, Checker(candidates, {}, delay))
    IN IF r.ok THEN [ok |-> TRUE, keys |-> r.s.used] ELSE [ok |-> FALSE, keys |-> {}]

\* check_authorization, of the levels in ascending order, each once; a delay
\* of the maximum or more satisfies every wait.
EffectiveDelay == IF delay >= MaxDelay THEN 2 * MaxDelay ELSE delay
LevelOrder == SetToSeq(DOMAIN auths)
InOrder(levels) == SelectSeq(LevelOrder, LAMBDA l : l \in Range(levels))

CheckAuthorization(levels, keys) ==
    LET r == SatisfyAll(InOrder(levels), Checker(keys, granted, EffectiveDelay))
    IN CASE ~r.ok -> "unsatisfied_authorization"
         [] r.ok /\ r.s.used # keys -> "tx_irrelevant_sig"
         [] OTHER -> "authorized"

Unanswered == [ok |-> FALSE, keys |-> {"none"}]

AcInit ==
    /\ auths \in Authorities /\ \A l \in DOMAIN auths : ValidAuthority(auths[l])
    /\ asked \in KeySets /\ declared \in DeclaredAuths /\ granted \in Grants
    /\ delay \in Delays /\ limit \in DepthLimits
    /\ required = Unanswered /\ verdict = "none"

AskRequiredKeys ==
    /\ required = Unanswered
    /\ required' = GetRequiredKeys(declared, asked)
    /\ UNCHANGED <<auths, asked, declared, granted, delay, limit, verdict>>

\* The transaction bears the keys asked for, or all that could be had.
PushSigned(keys) ==
    /\ required # Unanswered /\ verdict = "none"
    /\ verdict' = CheckAuthorization(declared, keys)
    /\ asked' = keys
    /\ UNCHANGED <<auths, declared, granted, delay, limit, required>>

AcNext ==
    \/ AskRequiredKeys
    \/ required # Unanswered /\ \E keys \in {required.keys, asked} : PushSigned(keys)

AcSpec == AcInit /\ [][AcNext]_acVars
--------------------------------------------------------------------------------
\* What keys, grants and a delay amount to: the levels that have a derivation.
Wild(g) == {l \in DOMAIN auths : l \in g \/ <<l[1], "">> \in g}

GrantedBy(keys, g, d) ==
    LET step(set) == set \cup {l \in DOMAIN auths :
            auths[l].threshold <= Weigh({f \in auths[l].factors :
                CASE f.kind = "wait" -> d >= f.of [] f.kind = "key" -> f.of \in keys [] f.kind = "account" -> f.of \in set})}
    IN FoldFunction(LAMBDA i, set : step(set), Wild(g), [i \in 1..Cardinality(DOMAIN auths) |-> i])

Uses(l) == {f.of : f \in {f \in auths[l].factors : f.kind = "account"}}
Acyclic == \E order \in SetToSeqs(DOMAIN auths) :
               \A i \in 1..Len(order) : Uses(order[i]) \cap {order[j] : j \in i..Len(order)} = {}

(* A transaction is authorized only when its keys, the permissions granted    *)
(* and its delay really derive every level it declares, whatever the cache,   *)
(* the order of the factors and the cycles between the authorities; and one   *)
(* that does is refused only for a signature too many, when no authority     *)
(* depends on itself and the depth allowed is not reached.                    *)
VerdictJust ==
    verdict # "none" =>
        LET derived == Range(declared) \subseteq GrantedBy(asked, granted, EffectiveDelay)
        IN /\ verdict = "authorized" => derived
           /\ derived /\ Acyclic /\ limit >= Cardinality(DOMAIN auths) => verdict # "unsatisfied_authorization"
=============================================================================
