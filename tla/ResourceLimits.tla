------------------------------ MODULE ResourceLimits ------------------------------
(***************************************************************************)
(* resource_limits_manager and the billing of a transaction that           *)
(* transaction_context does with it: usage averages of accounts and        *)
(* blocks, weights that take effect at the end of the block, elastic       *)
(* limits, greylists.                                                      *)
(*                                                                         *)
(* CPU and NET are treated alike by the code, twice, and are the members   *)
(* of Resource here.  The sizes of the integers are left out: usage stays  *)
(* below a block limit per period, far from their ends.                    *)
(***************************************************************************)
EXTENDS Integers, FiniteSets, FiniteSetsExt

CONSTANTS
    Account,
    Resource,      \* {"cpu", "net"}
    Precision,     \* config::rate_limiting_precision
    Window,        \* [Resource -> Nat]: account usage average windows, in slots
    Periods,       \* [Resource -> Nat]: block usage average windows, in blocks
    MaxChoices,    \* [Resource -> SUBSET Nat]: block limits a configuration may set
    MaxTrxUsage,   \* [Resource -> Nat]: limit of one transaction
    Multiplier,    \* max_multiplier
    TargetPercent, \* target_block_cpu_usage_pct, target_block_net_usage_pct
    ContractRate,  \* ratios <<numerator, denominator>>: {99, 100} and {1000, 999}
    ExpandRate,    \*   in finalize_block
    Greylist,      \* accounts the producing node has greylisted
    Usages,        \* [Resource -> SUBSET Nat]: what transactions use: never nothing
    Limits,        \* subset of [Limited -> Int]: weights, and bytes of RAM, a contract may
                   \* set; negative is unlimited
    RamUses,       \* subset of Int: bytes one transaction takes or frees
    MaxSlot        \* bound on block slots

\* Precision, Multiplier, windows and periods are positive, a maximum is, and a window is
\* within Precision.

VARIABLES
    usage,         \* [Account -> [Resource -> accumulator]]: resource_usage_object
    weight,        \* [Account -> [Limited -> Int]]: resource_limits_object
    pending_weight,\* the same, for the accounts with pending limits
    total,         \* [Limited -> Nat]: total weights, total bytes of RAM
    ram_usage,     \* [Account -> Nat]: bytes of RAM in use
    block_usage,   \* [Resource -> Nat]: pending_cpu_usage and pending_net_usage
    average,       \* [Resource -> accumulator]: average_block_*_usage
    virtual,       \* [Resource -> Nat]: virtual limits
    max,           \* [Resource -> Nat]: block limits of resource_limits_config_object
    slot,          \* slot of the pending block
    billing        \* which operations that "should never fail" have failed

rlVars == <<usage, weight, pending_weight, total, ram_usage, block_usage, average, virtual, max, slot, billing>>

Limited == Resource \cup {"ram"}
--------------------------------------------------------------------------------
(* exponential_moving_average_accumulator *)

\* impl::integer_divide_ceil
DivideCeil(n, d) == (n \div d) + (IF n % d > 0 THEN 1 ELSE 0)

NoUsage == [last_ordinal |-> 0, value_ex |-> 0, consumed |-> 0]

Average(acc) == DivideCeil(acc.value_ex, Precision)

\* add, without its asserts on overflow; ordinals do not decrease.
AddUsage(acc, units, ordinal, window) ==
    LET decayed == IF acc.last_ordinal + window > ordinal
                   THEN (acc.value_ex * (window - (ordinal - acc.last_ordinal))) \div window
                   ELSE 0
        old == IF acc.last_ordinal = ordinal THEN acc
               ELSE [last_ordinal |-> ordinal, value_ex |-> decayed,
                     consumed |-> DivideCeil(decayed, Precision)]
    IN  [old EXCEPT !.consumed = @ + units,
                    !.value_ex = @ + DivideCeil(units * Precision, window)]

AtLeast(a, b) == IF a >= b THEN a ELSE b
AtMost(a, b) == IF a <= b THEN a ELSE b

Scaled(n, ratio) == (n * ratio[1]) \div ratio[2]

\* update_elastic_limit
UpdateElasticLimit(limit, acc, m) ==
    LET target == (m * TargetPercent) \div 100
        result == Scaled(limit, IF Average(acc) > target THEN ContractRate ELSE ExpandRate)
    IN  AtMost(AtLeast(result, m), m * Multiplier)
--------------------------------------------------------------------------------
(* Limits of accounts *)

\* get_account_limits: the pending limits, if there are any
WeightOf(pw, a, r) == IF a \in DOMAIN pw THEN pw[a][r] ELSE weight[a][r]

Unlimited(pw, a, r) == WeightOf(pw, a, r) < 0 \/ total[r] = 0

MaxUseInWindow(pw, a, r, elastic) ==
    ((IF elastic THEN virtual[r] ELSE max[r]) * Window[r] * WeightOf(pw, a, r)) \div total[r]

\* Mutant: what an account has used is rounded down before it is compared.
AccountLimitFloor(use, pw, a, r, elastic) ==
    AtLeast(0, MaxUseInWindow(pw, a, r, elastic)
                 - (use[a][r].value_ex * Window[r]) \div Precision)

\* get_account_cpu_limit_ex, get_account_net_limit_ex: available, for an account
\* that is not unlimited
AccountLimit(use, pw, a, r, elastic) ==
    AtLeast(0, MaxUseInWindow(pw, a, r, elastic)
                 - DivideCeil(use[a][r].value_ex * Window[r], Precision))

\* Mutant: it is the accounts that are not greylisted that lose elasticity.
ElasticForWrong(a, producing) == producing \/ a \in Greylist

\* The limits of greylisted accounts are not elastic when producing.
ElasticFor(a, producing) == ~(producing /\ a \in Greylist)

\* transaction_context::max_bandwidth_billed_accounts_can_pay, as the set of
\* the limits that it takes the minimum of
CanPay(use, pw, accounts, r, producing) ==
    {AccountLimit(use, pw, a, r, ElasticFor(a, producing)) :
        a \in {b \in accounts : ~Unlimited(pw, b, r)}}

\* update_account_usage
UpdateAccountUsage(accounts) ==
    [a \in Account |->
        IF a \in accounts
        THEN [r \in Resource |-> AddUsage(usage[a][r], 0, slot, Window[r])]
        ELSE usage[a]]

\* transaction_context::init: what is left of the block, and at most what one
\* transaction may use
InitialLimit(r) == AtMost(max[r] - block_usage[r], MaxTrxUsage[r])

\* transaction_context::finalize, after the contract has left the pending limits
\* pw: what the transaction may be billed
FinalLimit(use, pw, accounts, r, producing) ==
    Min({InitialLimit(r)} \cup CanPay(use, pw, accounts, r, producing))

\* check_net_usage and validate_cpu_usage_to_bill
MayBill(pw, accounts, units, producing) ==
    \E use \in {UpdateAccountUsage(accounts)} :
        \A r \in Resource : units[r] <= FinalLimit(use, pw, accounts, r, producing)
--------------------------------------------------------------------------------
(* Operations *)

AddedUsage(accounts, units) ==
    [a \in Account |->
        IF a \in accounts
        THEN [r \in Resource |-> AddUsage(usage[a][r], units[r], slot, Window[r])]
        ELSE usage[a]]

\* The asserts of add_transaction_usage
UsageAllowed(pw, accounts, units) ==
    /\ \A a \in accounts, r \in Resource :
          Unlimited(pw, a, r)
            \/ (AddedUsage(accounts, units)[a][r].value_ex * Window[r]) \div Precision
                 <= MaxUseInWindow(pw, a, r, TRUE)
    /\ \A r \in Resource : block_usage[r] + units[r] <= max[r]

\* add_transaction_usage, called where it "should never fail"
AddTransactionUsage(pw, accounts, units, where) ==
    IF UsageAllowed(pw, accounts, units)
    THEN /\ usage' = AddedUsage(accounts, units)
         /\ block_usage' = [r \in Resource |-> block_usage[r] + units[r]]
         /\ UNCHANGED billing
    ELSE billing' = billing \cup {where} /\ UNCHANGED <<usage, block_usage>>

\* set_account_limits by the contract of the transaction, or nothing
LimitsAfter(change) ==
    IF change = <<>> THEN pending_weight
    ELSE [a \in DOMAIN pending_weight \cup {change[1]} |->
             IF a = change[1] THEN change[2] ELSE pending_weight[a]]

Changes == {<<>>} \cup (Account \X Limits)

\* Mutant: an account that had all it wanted is not found to have less.
DecreasedFromLimit(change) ==
    LET before == WeightOf(pending_weight, change[1], "ram")
    IN  change[2]["ram"] >= 0 /\ change[2]["ram"] < before

\* set_account_limits: whether the account's RAM has to be verified
DecreasedLimit(change) ==
    LET before == WeightOf(pending_weight, change[1], "ram")
    IN  change[2]["ram"] >= 0 /\ (before < 0 \/ change[2]["ram"] < before)

\* add_pending_ram_usage for the owner of what a transaction stores or frees, and
\* verify_account_ram_usage, at the end, for those with more RAM or a lower limit
RamAllowed(change, owner, bytes) ==
    /\ ram_usage[owner] + bytes >= 0
    /\ LET verified == {a \in Account : (a = owner /\ bytes > 0)
                                     \/ (change # <<>> /\ a = change[1] /\ DecreasedLimit(change))}
       IN  \A a \in verified :
              LET limit == WeightOf(LimitsAfter(change), a, "ram")
              IN  limit >= 0 => ram_usage[a] + (IF a = owner THEN bytes ELSE 0) <= limit

\* A transaction of a block succeeds, on every node: init, the contract, finalize
ExecuteTransaction(accounts, units, change, owner, bytes) ==
    /\ RamAllowed(change, owner, bytes)
    /\ MayBill(LimitsAfter(change), accounts, units, FALSE)
    /\ ram_usage' = [ram_usage EXCEPT ![owner] = @ + bytes]
    /\ pending_weight' = LimitsAfter(change)
    /\ AddTransactionUsage(pending_weight', accounts, units, "transaction")
    /\ UNCHANGED <<weight, total, average, virtual, max, slot>>

\* push_scheduled_transaction on a hard failure, without an explicit CPU time:
\* the transaction had time to run, and the accounts are billed what they can
\* pay of it, and no NET.
BillHardFailure(accounts, units) ==
    /\ LET limit == Min({InitialLimit("cpu")} \cup
                        CanPay(UpdateAccountUsage(accounts), pending_weight, accounts, "cpu", FALSE))
           billed == [r \in Resource |-> IF r = "cpu" THEN AtMost(units[r], limit) ELSE 0]
       IN  limit > 0 /\ AddTransactionUsage(pending_weight, accounts, billed, "hard failure")
    /\ UNCHANGED <<weight, pending_weight, total, ram_usage, average, virtual, max, slot>>

Positive(w) == IF w > 0 THEN w ELSE 0

\* Mutant: the old weight is not taken off the total.
TotalKeepsOld(r) ==
    total[r] + MapThenSumSet(LAMBDA a : Positive(pending_weight[a][r]), DOMAIN pending_weight)

\* The total after update_state_and_value for every account with pending limits
TotalAfterUpdates(r) ==
    total[r] - MapThenSumSet(LAMBDA a : Positive(weight[a][r]), DOMAIN pending_weight)
             + MapThenSumSet(LAMBDA a : Positive(pending_weight[a][r]), DOMAIN pending_weight)

\* process_account_limit_updates, in any order of the accounts: the assert that
\* the total does not underflow
UpdatesAllowed ==
    \A r \in Limited :
        MapThenSumSet(LAMBDA a : Positive(weight[a][r]), DOMAIN pending_weight) <= total[r]

\* finalize_block: process_account_limit_updates, set_block_parameters with the
\* limits of the configuration, process_block_usage; then the next block starts.
FinalizeBlock(limits, skip) ==
    /\ slot + skip <= MaxSlot
    /\ IF UpdatesAllowed
       THEN /\ weight' = [a \in Account |-> IF a \in DOMAIN pending_weight
                                            THEN pending_weight[a] ELSE weight[a]]
            /\ total' = [r \in Limited |-> TotalAfterUpdates(r)]
            /\ UNCHANGED billing
       ELSE billing' = billing \cup {"limits"} /\ UNCHANGED <<weight, total>>
    /\ pending_weight' = <<>>
    /\ max' = limits
    /\ average' = [r \in Resource |-> AddUsage(average[r], block_usage[r],
                                                average[r].last_ordinal + 1, Periods[r])]
    /\ virtual' = [r \in Resource |-> UpdateElasticLimit(virtual[r], average'[r], limits[r])]
    /\ block_usage' = [r \in Resource |-> 0]
    /\ slot' = slot + skip
    /\ UNCHANGED <<usage, ram_usage>>

RlInit ==
    /\ usage = [a \in Account |-> [r \in Resource |-> NoUsage]]
    /\ weight = [a \in Account |-> [r \in Limited |-> -1]]
    /\ pending_weight = <<>>
    /\ total = [r \in Limited |-> 0]
    /\ ram_usage = [a \in Account |-> 0]
    /\ block_usage = [r \in Resource |-> 0]
    /\ average = [r \in Resource |-> NoUsage]
    /\ max \in {m \in [Resource -> UNION {MaxChoices[r] : r \in Resource}] :
                   \A r \in Resource : m[r] \in MaxChoices[r]}
    /\ virtual = max
    /\ slot = 1
    /\ billing = {}

UsageChoices ==
    {u \in [Resource -> UNION {Usages[r] : r \in Resource}] : \A r \in Resource : u[r] \in Usages[r]}

RlNext ==
    \/ \E accounts \in SUBSET Account \ {{}}, units \in UsageChoices :
          \/ \E change \in Changes, owner \in accounts, bytes \in RamUses :
                ExecuteTransaction(accounts, units, change, owner, bytes)
          \/ BillHardFailure(accounts, units)
    \/ \E limits \in [Resource -> UNION {MaxChoices[r] : r \in Resource}], skip \in 1..2 :
          /\ \A r \in Resource : limits[r] \in MaxChoices[r]
          /\ FinalizeBlock(limits, skip)

RlSpec == RlInit /\ [][RlNext]_rlVars
--------------------------------------------------------------------------------
(* Properties *)

\* What the code says "should never fail" does not: once the limits have been
\* checked, billing the accounts and the block succeeds, whatever is rounded
\* where, and the total weights never underflow when pending limits replace
\* the old ones (add_transaction_usage, process_account_limit_updates).
BillingNeverFails == billing \subseteq {"hard failure"}

\* The same of the billing of a hard failure, of which push_scheduled_transaction
\* says too that it "should never fail".
HardFailureBilled == "hard failure" \notin billing

\* A transaction that a producing node admits, with greylisted accounts held to
\* limits that are not elastic, is admitted by every other node with the same
\* usage: the greylist only ever lowers the limit of a transaction.
ValidatorsAgree ==
    \A accounts \in SUBSET Account \ {{}} :
        \E use \in {UpdateAccountUsage(accounts)} :
            \A r \in Resource :
                FinalLimit(use, pending_weight, accounts, r, TRUE)
                    <= FinalLimit(use, pending_weight, accounts, r, FALSE)

\* The total weights are the sums of the positive weights of the accounts, no
\* account has more RAM in use than its limit, set in this block or before,
\* and the elastic limits stay between the block limit and its multiple,
\* through changes of weights and of the configuration.
TotalsMatch ==
    /\ \A r \in Limited : total[r] = MapThenSumSet(LAMBDA a : Positive(weight[a][r]), Account)
    /\ \A a \in Account : LET limit == WeightOf(pending_weight, a, "ram")
                         IN  limit >= 0 => ram_usage[a] <= limit
    /\ \A r \in Resource : max[r] <= virtual[r] /\ virtual[r] <= max[r] * Multiplier
================================================================================
