---------------------------- MODULE ActionReceipts ----------------------------
(* The actions of a transaction and their receipts (Tree), and the Merkle     *)
(* tree whose root stands for the receipts and blocks (Merkle): two           *)
(* specifications.                                                            *)
EXTENDS Integers, Sequences, FiniteSets, SequencesExt, Naturals, Bitwise

-----------------------------------------------------------------------------
(***************************************************************************)
(* How the actions of one transaction run (transaction_context::exec,      *)
(* apply_context::exec).  An action runs its first receiver, then every    *)
(* account notified on the way, then the context-free inline actions any   *)
(* of them sent, then the inline ones, depth first.  Every action gets an  *)
(* entry of the transaction's trace when it is scheduled, and a receipt    *)
(* when it has run.  A contract is whatever sequence of calls of the API   *)
(* its code makes.                                                         *)
(***************************************************************************)

CONSTANTS Actors,       \* the accounts
          Nobody,       \* the name of an account that does not exist
          Payloads,     \* [cfas, acts]: the context-free actions and actions of a transaction
          TreeWorlds,   \* [producing, skipAuth, restrict, privileged, blocked, grants]
          MaxOrdinal,   \* actions of a transaction, which bounds the behaviours
          MaxInlineDepth

VARIABLES treeWorld, traces, frames, originals, executed, trxStatus

treeVars == <<treeWorld, traces, frames, originals, executed, trxStatus>>

Act(account, auths) == [account |-> account, auths |-> auths]
Dangling == 0
Innermost == Len(frames)
Frame == frames[Innermost]

ScheduleAction(ts, act, receiver, cf, creator, closest) ==
  Append(ts, [act |-> act, receiver |-> receiver, cf |-> cf, creator |-> creator, closest |-> closest])

\* The trace of a transaction before any of its actions runs.
Scheduled(payload) ==
  FoldLeft(LAMBDA ts, act : ScheduleAction(ts, act, act.account, FALSE, 0, 0),
    FoldLeft(LAMBDA ts, act : ScheduleAction(ts, act, act.account, TRUE, 0, 0), <<>>, payload.cfas),
    payload.acts)

\* A new apply_context: "act" is the entry its pointer to the action reads, "at" the place
\* in "notified" of the receiver that runs.
NewFrame(ordinal, depth) ==
  [first |-> ordinal, depth |-> depth, act |-> ordinal, at |-> 1,
   notified |-> <<[receiver |-> traces[ordinal].receiver, ordinal |-> ordinal]>>,
   cfa |-> <<>>, inl |-> <<>>]

TreeInit ==
  /\ treeWorld \in TreeWorlds
  /\ \E payload \in Payloads : traces = Scheduled(payload)
  /\ frames = <<>> /\ executed = <<>>
  /\ originals = [i \in DOMAIN traces |-> i]
  /\ trxStatus = "running"

Running == trxStatus = "running" /\ frames # <<>> /\ Frame.at <= Len(Frame.notified)
Receiver == Frame.notified[Frame.at].receiver
Ordinal == Frame.notified[Frame.at].ordinal
CurrentAct == traces[Frame.first].act
ContextFree == traces[Frame.first].cf
Privileged == Receiver \in treeWorld.privileged

\* The contract that runs makes a call: it needs an account with code to run.
Calls == Running /\ Receiver \in Actors

Abort ==
  /\ trxStatus' = "failed"
  /\ UNCHANGED <<treeWorld, traces, frames, originals, executed>>

MovedUnnoticed(fs) == [i \in DOMAIN fs |-> [fs[i] EXCEPT !.act = Dangling]]

\* Growing the trace moves it: only the context that grew it takes a new pointer.
Moved(fs) == [i \in DOMAIN fs |-> [fs[i] EXCEPT !.act = IF i = Len(fs) THEN Ordinal ELSE Dangling]]
Schedule(act, receiver, cf) ==
  /\ Len(traces) < MaxOrdinal
  /\ traces' = ScheduleAction(traces, act, receiver, cf, Ordinal, Frame.first)
  /\ UNCHANGED <<treeWorld, originals, executed, trxStatus>>

HasRecipient(account) == \E i \in DOMAIN Frame.notified : Frame.notified[i].receiver = account

RequireRecipient(recipient) ==
  /\ Calls /\ ~ContextFree
  /\ ~HasRecipient(recipient)
  /\ Schedule(CurrentAct, recipient, FALSE)
  /\ frames' = Moved([frames EXCEPT ![Innermost].notified =
                       Append(@, [receiver |-> recipient, ordinal |-> Len(traces) + 1])])

\* Whether an inline action's authorizations are declared by accounts that let the
\* receiver act for them, or are inherited from the action that sends it.
Authorized(a, inherited) ==
  \A actor \in a.auths \ inherited : actor = Receiver \/ <<Receiver, actor>> \in treeWorld.grants

InheritsUnrestricted(a, producing) ==
  IF a.account = Receiver /\ Receiver = CurrentAct.account /\ producing
  THEN a.auths \cap CurrentAct.auths ELSE {}

Inherits(a, producing) ==
  IF ~treeWorld.restrict /\ a.account = Receiver /\ Receiver = CurrentAct.account /\ producing
  THEN a.auths \cap CurrentAct.auths ELSE {}

InlineAllowed(a, producing) ==
  /\ a.account \in Actors /\ a.auths \subseteq Actors
  /\ producing => a.auths \cap treeWorld.blocked = {}
  /\ \/ treeWorld.skipAuth \/ Privileged
     \/ Authorized(a, Inherits(a, producing))
     \/ ~treeWorld.restrict /\ a.account = Receiver /\ ~producing

ExecuteInline(a) ==
  /\ Calls /\ ~ContextFree
  /\ \/ /\ InlineAllowed(a, treeWorld.producing)
        /\ Schedule(a, a.account, FALSE)
        /\ frames' = Moved([frames EXCEPT ![Innermost].inl = Append(@, Len(traces) + 1)])
     \/ ~InlineAllowed(a, treeWorld.producing) /\ Abort

ExecuteContextFreeInline(a) ==
  /\ Calls /\ ~ContextFree
  /\ \/ /\ a.account \in Actors /\ a.auths = {}
        /\ Schedule(a, a.account, TRUE)
        /\ frames' = Moved([frames EXCEPT ![Innermost].cfa = Append(@, Len(traces) + 1)])
     \/ ~(a.account \in Actors /\ a.auths = {}) /\ Abort

\* The code traps, or its receiver does not exist.
ContractFails == Running /\ Abort

\* The receiver's code returned: the receipt, and the next of the notified.
ExecOneReturns ==
  /\ Calls
  /\ executed' = Append(executed, Ordinal)
  /\ frames' = [frames EXCEPT ![Innermost].at = @ + 1]
  /\ UNCHANGED <<treeWorld, traces, originals, trxStatus>>

Notified == trxStatus = "running" /\ frames # <<>> /\ Frame.at > Len(Frame.notified)

\* The next context-free inline action, or else the next inline action.
RunChild ==
  /\ Notified
  /\ Frame.cfa \o Frame.inl # <<>>
  /\ \/ Frame.depth >= MaxInlineDepth /\ Abort
     \/ /\ Frame.depth < MaxInlineDepth
        /\ LET list == IF Frame.cfa # <<>> THEN "cfa" ELSE "inl"
           IN  frames' = Append([frames EXCEPT ![Innermost][list] = Tail(@)],
                                NewFrame(Head(Frame[list]), Frame.depth + 1))
        /\ UNCHANGED <<treeWorld, traces, originals, executed, trxStatus>>

ExecReturns ==
  /\ Notified
  /\ Frame.cfa \o Frame.inl = <<>>
  /\ frames' = Front(frames)
  /\ UNCHANGED <<treeWorld, traces, originals, executed, trxStatus>>

ExecuteNext ==
  /\ trxStatus = "running" /\ frames = <<>>
  /\ IF originals = <<>>
     THEN trxStatus' = "executed" /\ UNCHANGED <<frames, originals>>
     ELSE frames' = <<NewFrame(Head(originals), 0)>> /\ originals' = Tail(originals) /\ UNCHANGED trxStatus
  /\ UNCHANGED <<treeWorld, traces, executed>>

TreeNext ==
  \/ \E account \in Actors \cup {Nobody} : RequireRecipient(account)
  \/ \E account \in Actors \cup {Nobody}, auths \in {{}} \cup {{x} : x \in Actors} :
       ExecuteInline(Act(account, auths)) \/ ExecuteContextFreeInline(Act(account, auths))
  \/ ContractFails \/ ExecOneReturns \/ RunChild \/ ExecReturns \/ ExecuteNext

TreeSpec == TreeInit /\ [][TreeNext]_treeVars

-----------------------------------------------------------------------------
(* The order the trace promises: what a reader of it reconstructs from the *)
(* creator and closest-unnotified-ancestor fields alone.                   *)

Where(P(_)) == SetToSortSeq({o \in DOMAIN traces : P(o)}, <)
IsNotification(o) == traces[o].receiver # traces[o].act.account
Sent(first, cf) ==
  Where(LAMBDA o : traces[o].closest = first /\ ~IsNotification(o) /\ traces[o].cf = cf)

Subtrees ==
  LET runs[o \in DOMAIN traces] ==
        <<o>> \o Where(LAMBDA n : traces[n].closest = o /\ IsNotification(n))
              \o FlattenSeq([i \in DOMAIN Sent(o, TRUE) |-> runs[Sent(o, TRUE)[i]]])
              \o FlattenSeq([i \in DOMAIN Sent(o, FALSE) |-> runs[Sent(o, FALSE)[i]]])
  IN  runs

Depths == LET depth[o \in DOMAIN traces] == IF traces[o].closest = 0 THEN 0
                                            ELSE depth[traces[o].closest] + (IF IsNotification(o) THEN 0 ELSE 1)
          IN  depth

\* The receipts of an executed transaction are in the order its trace tells: every action,
\* the accounts it notified, its context-free inline actions and its inline actions, each with
\* all that follows from it, and none nested deeper than max_inline_action_depth
\* (apply_context::exec, transaction_context::schedule_action).
ReceiptsFollowTrace ==
  trxStatus = "executed" =>
    /\ executed =
         LET roots == Where(LAMBDA o : traces[o].creator = 0)
         IN  FlattenSeq([i \in DOMAIN roots |-> Subtrees[roots[i]]])
    /\ \A o \in DOMAIN traces : Depths[o] <= MaxInlineDepth

\* The action a context reads is in the trace where it looks: the pointer it keeps is renewed
\* whenever the trace grows under it, and a context whose inline actions have grown the trace
\* reads no action any more (apply_context::schedule_action).
ActionAlive == Calls => Frame.act # Dangling /\ traces[Frame.act].act = CurrentAct

\* What a producer lets a contract send inline, every validator of the block lets it send: the
\* authorizations a producer inherits from the action are covered by the exemption validators
\* grant to actions sent to oneself (apply_context::execute_inline).
ValidatorsAllow ==
  Calls => \A account \in Actors, auths \in SUBSET Actors :
             InlineAllowed(Act(account, auths), TRUE) => InlineAllowed(Act(account, auths), FALSE)

-----------------------------------------------------------------------------
(***************************************************************************)
(* The two ways the chain computes a Merkle root: merkle() over a complete *)
(* list (the transactions and the actions of a block), and                 *)
(* incremental_merkle, which block headers carry along and append one      *)
(* block id to at a time, keeping only the nodes the next append needs.    *)
(*                                                                         *)
(* A digest is a term: a leaf is <<n>>, the hash of a pair its two sides.  *)
(* make_canonical_pair marks them left and right, which the order of the   *)
(* pair stands for.  Word arithmetic is on MerkleBits = 16 bits, the       *)
(* code's 64 shortened: the counts here are far below either.              *)
(***************************************************************************)

CONSTANTS
    MaxLeaves   \* digests appended

VARIABLES
    nodeCount,      \* _node_count
    activeNodes,    \* _active_nodes
    leaves          \* ghost: the digests appended so far

merkleVars == <<nodeCount, activeNodes, leaves>>

MerkleBits == 16
NoDigest == <<>>
Hash(l, r) == <<l, r>>

-----------------------------------------------------------------------------
(* merkle(): an odd level repeats its last digest.                         *)
Evened(ids) == IF Len(ids) % 2 = 1 THEN Append(ids, ids[Len(ids)]) ELSE ids
HalvedOf(ids) == [i \in 1..(Len(ids) \div 2) |-> Hash(ids[2 * i - 1], ids[2 * i])]

RECURSIVE MerkleOf(_)
MerkleOf(ids) ==
    IF ids = <<>> THEN NoDigest
    ELSE IF Len(ids) = 1 THEN ids[1] ELSE MerkleOf(HalvedOf(Evened(ids)))

-----------------------------------------------------------------------------
(* The depth of the tree that holds n leaves.                              *)
SmearRight(v, k) == v | (v \div 2^k)
NextPowerOf2(n) ==
    SmearRight(SmearRight(SmearRight(SmearRight(n - 1, 1), 2), 4), 8) + 1

(* Each mask is the lower half of every group of bits it divides.          *)
ClzPower2(v) ==
    LET less(mask, k) == IF (v & mask) # 0 THEN k ELSE 0
    IN MerkleBits - (IF v # 0 THEN 1 ELSE 0)
       - less(255, 8) - less(3855, 4) - less(13107, 2) - less(21845, 1)

CalculateMaxDepth(n) == IF n = 0 THEN 0 ELSE ClzPower2(NextPowerOf2(n)) + 1

(* append's way up from the new leaf: on the left side, the node is kept   *)
(* if it is complete and stands for its missing sibling; on the right, the *)
(* left sibling is the next active node, kept if this side is incomplete.  *)
RECURSIVE CollapseAlways(_, _, _, _, _, _)
CollapseAlways(depth, index, top, partial, active, kept) ==
    IF depth = 0 THEN Append(kept, top)
    ELSE IF index % 2 = 0
    THEN CollapseAlways(depth - 1, index \div 2, Hash(top, top), TRUE, active, Append(kept, top))
    ELSE CollapseAlways(depth - 1, index \div 2, Hash(Head(active), top), partial, Tail(active),
                        IF partial THEN Append(kept, Head(active)) ELSE kept)

RECURSIVE Collapse(_, _, _, _, _, _)
Collapse(depth, index, top, partial, active, kept) ==
    IF depth = 0 THEN Append(kept, top)
    ELSE IF index % 2 = 0
    THEN Collapse(depth - 1, index \div 2, Hash(top, top), TRUE, active,
                  IF partial THEN kept ELSE Append(kept, top))
    ELSE Collapse(depth - 1, index \div 2, Hash(Head(active), top), partial, Tail(active),
                  IF partial THEN Append(kept, Head(active)) ELSE kept)

GetRoot == IF nodeCount > 0 THEN activeNodes[Len(activeNodes)] ELSE NoDigest

MerkleInit == nodeCount = 0 /\ activeNodes = <<>> /\ leaves = <<>>

AppendDigest ==
    /\ nodeCount < MaxLeaves
    /\ leaves' = Append(leaves, <<nodeCount>>)
    /\ activeNodes' = Collapse(CalculateMaxDepth(nodeCount + 1) - 1, nodeCount, <<nodeCount>>,
                               FALSE, activeNodes, <<>>)
    /\ nodeCount' = nodeCount + 1

MerkleNext == AppendDigest
MerkleSpec == MerkleInit /\ [][MerkleNext]_merkleVars

-----------------------------------------------------------------------------
(* The root that incremental_merkle carries, having forgotten all but a    *)
(* few nodes, is the one merkle() computes from all the digests appended.  *)
RootsAgree == GetRoot = MerkleOf(leaves)
=============================================================================
