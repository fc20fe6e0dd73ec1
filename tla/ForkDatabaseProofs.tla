--------------------------- MODULE ForkDatabaseProofs ---------------------------
(***************************************************************************)
(* The safety of the fork database, for every tree of blocks and every     *)
(* size of the index.  Rooted /\ HeadIsBest is inductive as it stands; the *)
(* only fact about trees it rests on is that remove collects a set closed  *)
(* under "is built on" (DescendantsClosed).                                *)
(***************************************************************************)
EXTENDS ForkDatabaseFile, TLAPS, WellFoundedInduction

-----------------------------------------------------------------------------
(***************************************************************************)
(* Facts about trees of blocks, for every universe of blocks that meets    *)
(* the assumptions of BlockTree.                                           *)
(***************************************************************************)

\* Every non-empty set of naturals has a least element.  It stands in for
\* induction on block numbers below.
LEMMA LeastNumber ==
    ASSUME NEW T, T \subseteq Nat, T # {}
    PROVE  \E m \in T : \A n \in T : m =< n
<1>1. IsWellFoundedOn(OpToRel(<, Nat), Nat)
  BY NatLessThanWellFounded
<1>2. PICK m \in T : \A n \in T : ~(<<n, m>> \in OpToRel(<, Nat))
  BY <1>1, WFMin
<1>3. ASSUME NEW n \in T, n < m PROVE FALSE
  <2>1. <<n, m>> \in Nat \X Nat /\ <<n, m>>[1] < <<n, m>>[2]
    BY <1>3
  <2>2. <<n, m>> \in OpToRel(<, Nat)
    BY <2>1, Zenon DEF OpToRel
  <2>. QED BY <1>2, <2>2
<1>4. \A n \in T : n \in Nat /\ m \in Nat /\ ~(n < m)
  BY <1>3
<1>. QED BY <1>4

\* A non-empty set of blocks has one with the smallest block number.
LEMMA LowestBlock ==
    ASSUME NEW B, B \subseteq Block, B # {}
    PROVE  \E b \in B : \A a \in B : Num[b] =< Num[a]
<1>. DEFINE T == {Num[b] : b \in B}
<1>1. T \subseteq Nat /\ T # {}
  BY FieldAssumption
<1>. HIDE DEF T
<1>2. PICK m \in T : \A n \in T : m =< n
  BY <1>1, LeastNumber, ZenonT(30)
<1>. QED BY <1>2 DEF T

\* What remove collects contains the block, nothing outside the index, and
\* every block of the index built on a collected one.
LEMMA DescendantsClosed ==
    ASSUME NEW id, NEW I
    PROVE  /\ id \in Descendants(id, I)
           /\ Descendants(id, I) \subseteq I \cup {id}
           /\ ClosedIn(Descendants(id, I), I)
BY DEF Descendants, ClosedIn

\* It is the least such set.
LEMMA DescendantsLeast ==
    ASSUME NEW id, NEW I, NEW S, id \in S, ClosedIn(S, I)
    PROVE  Descendants(id, I) \subseteq S
<1>. DEFINE T == S \cap (I \cup {id})
<1>1. T \in SUBSET (I \cup {id}) /\ id \in T /\ ClosedIn(T, I)
  BY DEF ClosedIn
<1>. QED BY <1>1 DEF Descendants

\* A collected block other than the first was collected because its
\* predecessor was.
LEMMA DescendantsPrev ==
    ASSUME NEW id, NEW I, NEW b \in Descendants(id, I), b # id
    PROVE  b \in I /\ Prev[b] \in Descendants(id, I)
<1>. DEFINE D == Descendants(id, I)
<1>1. b \in I
  BY DescendantsClosed
<1>2. ASSUME Prev[b] \notin D PROVE FALSE
  <2>1. id \in D \ {b}
    BY DescendantsClosed
  <2>2. ClosedIn(D \ {b}, I)
    BY <1>2, DescendantsClosed DEF ClosedIn
  <2>3. D \subseteq D \ {b}
    BY <2>1, <2>2, DescendantsLeast
  <2>. QED BY <2>3
<1>. QED BY <1>1, <1>2

\* In a set of blocks that hangs from r, every block is numbered above r.
LEMMA AboveRoot ==
    ASSUME NEW I, I \subseteq Block, NEW r \in Block,
           \A b \in I : Prev[b] \in I \cup {r}
    PROVE  \A b \in I : Num[r] < Num[b]
<1>. DEFINE Above(b) == Num[r] < Num[b]
            Bad == {b \in I : ~Above(b)}
<1>1. SUFFICES ASSUME Bad # {} PROVE FALSE
  OBVIOUS
<1>2. PICK b \in Bad : \A a \in Bad : Num[b] =< Num[a]
  BY <1>1, LowestBlock, ZenonT(30)
<1>3. b \in Block \ {Genesis} /\ Prev[b] \in Block
  BY <1>2, GenesisAssumption, FieldAssumption
<1>4. /\ Num[b] = Num[Prev[b]] + 1
      /\ Num[b] \in Nat /\ Num[Prev[b]] \in Nat /\ Num[r] \in Nat
  BY <1>3, NumAssumption, FieldAssumption
<1>5. CASE Prev[b] = r
  BY <1>2, <1>4, <1>5
<1>6. CASE Prev[b] # r
  <2>1. Prev[b] \in I \ Bad
    BY <1>2, <1>4, <1>6
  <2>. QED BY <1>2, <1>4, <2>1
<1>. QED BY <1>5, <1>6

\* A block built on another one is not the genesis block, and is numbered one
\* above it.
LEMMA NumberOfNext ==
    ASSUME NEW b \in Block, Prev[b] \in Block
    PROVE  Num[b] \in Nat /\ Num[Prev[b]] \in Nat /\ Num[b] = Num[Prev[b]] + 1
<1>1. b # Genesis
  BY GenesisAssumption
<1>. QED BY <1>1, NumAssumption, FieldAssumption

\* No block is numbered below the genesis block.
LEMMA GenesisLowest == \A b \in Block : Num[Genesis] =< Num[b]
<1>1. PICK b \in Block : \A a \in Block : Num[b] =< Num[a]
  BY LowestBlock, GenesisAssumption
<1>2. CASE b = Genesis
  BY <1>1, <1>2
<1>3. CASE b # Genesis
  <2>1. Prev[b] \in Block
    BY <1>3, FieldAssumption
  <2>. QED BY <1>1, <2>1, NumberOfNext
<1>. QED BY <1>2, <1>3

\* Descendants are numbered above the block they descend from.
LEMMA DescendantsAbove ==
    ASSUME NEW I, I \subseteq Block, NEW id \in Block, NEW c \in Descendants(id, I)
    PROVE  c \in Block /\ (c = id \/ Num[c] > Num[id])
<1>. DEFINE S == {b \in Block : b = id \/ Num[b] > Num[id]}
<1>1. ASSUME NEW b \in I, Prev[b] \in S PROVE b \in S
  <2>1. b \in Block /\ Prev[b] \in Block /\ Num[id] \in Nat
    BY <1>1, FieldAssumption
  <2>. QED BY <1>1, <2>1, NumberOfNext
<1>2. id \in S /\ ClosedIn(S, I)
  BY <1>1 DEF ClosedIn
<1>. HIDE DEF S
<1>3. Descendants(id, I) \subseteq S
  BY <1>2, DescendantsLeast
<1>. QED BY <1>3 DEF S

\* A descendant's descendants are descendants.
LEMMA DescendantsTransitive ==
    ASSUME NEW I, NEW a, NEW b \in Descendants(a, I)
    PROVE  Descendants(b, I) \subseteq Descendants(a, I)
BY DescendantsClosed, DescendantsLeast

\* All blocks of an index that hangs from r descend from r.
LEMMA AllDescend ==
    ASSUME NEW I, I \subseteq Block, NEW r \in Block, NEW J, I \subseteq J,
           \A b \in I : Prev[b] \in I \cup {r}
    PROVE  I \cup {r} \subseteq Descendants(r, J)
<1>. DEFINE D == Descendants(r, J)
            Lost == I \ D
<1>1. r \in D /\ ClosedIn(D, J)
  BY DescendantsClosed
<1>. HIDE DEF D
<1>2. SUFFICES ASSUME Lost # {} PROVE FALSE
  BY <1>1 DEF D
<1>3. PICK b \in Lost : \A a \in Lost : Num[b] =< Num[a]
  BY <1>2, LowestBlock, ZenonT(30)
<1>4. b \in Block /\ Prev[b] \in Block
  BY <1>3
<1>5. Prev[b] \notin Lost
  BY <1>3, <1>4, NumberOfNext
<1>6. Prev[b] \in D
  BY <1>1, <1>3, <1>5
<1>. QED BY <1>1, <1>3, <1>6 DEF ClosedIn

\* In an index that hangs from r, whatever descends from a block of it does so
\* within it.
LEMMA DescendantsInside ==
    ASSUME NEW I, I \subseteq Block, NEW r \in Block,
           \A b \in I : Prev[b] \in I \cup {r},
           NEW id \in I, NEW c \in I, c \in Descendants(id, Block)
    PROVE  c \in Descendants(id, I)
<1>. DEFINE D == Descendants(id, I)
            S == {b \in Block : Num[b] >= Num[id] /\ (b \in I \cup {r} => b \in D)}
<1>1. id \in D /\ D \subseteq I /\ ClosedIn(D, I) /\ Num[r] < Num[id]
  BY DescendantsClosed, AboveRoot
<1>. HIDE DEF D
<1>2. id \in S
  BY <1>1, FieldAssumption
<1>3. ASSUME NEW b \in Block, Prev[b] \in S PROVE b \in S
  <2>1. Num[b] > Num[id] /\ b # r
    BY <1>1, <1>3, NumberOfNext, FieldAssumption
  <2>2. ASSUME b \in I PROVE b \in D
    BY <1>1, <1>3, <2>2 DEF ClosedIn
  <2>. QED BY <2>1, <2>2, FieldAssumption
<1>4. ClosedIn(S, Block)
  BY <1>3 DEF ClosedIn
<1>. HIDE DEF S
<1>5. c \in S
  BY <1>2, <1>4, DescendantsLeast
<1>. QED BY <1>5 DEF S, D

\* The branch of a block goes down to the root without a gap.
LEMMA BranchPrev ==
    ASSUME NEW I, NEW r, \A b \in I : Prev[b] \in I \cup {r},
           NEW t, NEW b \in Branch(t, I)
    PROVE  Prev[b] \in Branch(t, I) \cup {r}
<1>1. b \in I /\ t \in Descendants(b, I)
  BY DEF Branch
<1>2. ASSUME Prev[b] \in I PROVE t \in Descendants(Prev[b], I)
  <2>1. b \in Descendants(Prev[b], I)
    BY <1>1, DescendantsClosed DEF ClosedIn
  <2>. QED BY <1>1, <2>1, DescendantsTransitive
<1>. QED BY <1>1, <1>2 DEF Branch

\* A branch has one block of a number.
LEMMA BranchUnique ==
    ASSUME NEW I, I \subseteq Block, NEW t,
           NEW a \in Branch(t, I), NEW c \in Branch(t, I), Num[a] = Num[c]
    PROVE  a = c
<1>. DEFINE S == Descendants(a, I) \ Descendants(c, I)
<1>1. SUFFICES ASSUME a # c PROVE FALSE
  OBVIOUS
<1>2. /\ a \in I /\ a \in Block /\ t \in Descendants(a, I)
      /\ c \in I /\ c \in Block /\ t \in Descendants(c, I)
      /\ Num[a] \in Nat /\ Num[c] \in Nat
  BY FieldAssumption DEF Branch
<1>3. a \notin Descendants(c, I) /\ c \notin Descendants(a, I)
  BY <1>1, <1>2, DescendantsAbove
<1>4. a \in S
  BY <1>3, DescendantsClosed
<1>5. ASSUME NEW b \in I, Prev[b] \in S PROVE b \in S
  <2>1. b \in Descendants(a, I)
    BY <1>5, DescendantsClosed DEF ClosedIn
  <2>2. ASSUME b \in Descendants(c, I) PROVE FALSE
    <3>1. b # c
      BY <1>3, <2>1
    <3>2. Prev[b] \in Descendants(c, I)
      BY <2>2, <3>1, DescendantsPrev
    <3>. QED BY <1>5, <3>2
  <2>. QED BY <2>1, <2>2
<1>6. ClosedIn(S, I)
  BY <1>5 DEF ClosedIn
<1>7. Descendants(a, I) \subseteq S
  BY <1>4, <1>6, DescendantsLeast
<1>. QED BY <1>2, <1>7

\* A set that holds the predecessor of each of its blocks but the root holds the
\* whole branch of each of its blocks.
LEMMA BranchInside ==
    ASSUME NEW I, NEW r, r \notin I, NEW V, V \subseteq I \cup {r},
           \A b \in V \ {r} : Prev[b] \in V, NEW t \in V
    PROVE  Branch(t, I) \subseteq V
<1>. SUFFICES ASSUME NEW a \in Branch(t, I), a \notin V PROVE FALSE
  OBVIOUS
<1>1. a \in I /\ t \in Descendants(a, I)
  BY DEF Branch
<1>2. a \in I \ V /\ ClosedIn(I \ V, I)
  BY <1>1 DEF ClosedIn
<1>3. Descendants(a, I) \subseteq I \ V
  BY <1>2, DescendantsLeast
<1>. QED BY <1>1, <1>3

-----------------------------------------------------------------------------
(***************************************************************************)
(* The fork database.                                                      *)
(***************************************************************************)

FdbInv == TypeOK /\ Rooted /\ HeadIsBest

\* The fork database starts out rooted, with the root as its head.
LEMMA FdbInitial == Init => FdbInv
BY GenesisAssumption DEF Init, FdbInv, TypeOK, Rooted, HeadIsBest

\* The first element of by_lib_block_num is preferred to by no other.
LEMMA BestIsBest ==
    ASSUME NEW S, S \subseteq Block, NEW a \in BestOf(S)
    PROVE  a \in S /\ \A b \in S : ~first_preferred(b, a)
BY FieldAssumption DEF BestOf, SortsBefore, first_preferred

\* add keeps the invariant: the block is linked, and the head is either left
\* alone, when nothing is validated, or the first element of the index order.
LEMMA AddSafe ==
    ASSUME FdbInv, NEW n \in Block, NEW v \in BOOLEAN, Add(n, v)
    PROVE  FdbInv'
<1>. USE DEF Add
<1>0. n # root
  <2>1. \A b \in index : Num[root] < Num[b]
    BY AboveRoot DEF FdbInv, TypeOK, Rooted
  <2>2. ASSUME n = root PROVE FALSE
    <3>1. Prev[root] \in Block /\ root \in Block \ {Genesis}
      BY <2>2, GenesisAssumption DEF FdbInv, TypeOK
    <3>2. Num[root] = Num[Prev[root]] + 1 /\ Num[Prev[root]] \in Nat /\ Num[root] \in Nat
      BY <3>1, NumAssumption, FieldAssumption
    <3>3. Prev[root] \in index \cup {root}
      BY <2>2
    <3>. QED BY <3>2, <3>3, <2>1
  <2>. QED BY <2>2
<1>1. index' \subseteq Block /\ validated' \subseteq Block /\ root' \in Block
  BY DEF FdbInv, TypeOK
<1>2. Rooted'
  BY <1>0 DEF FdbInv, Rooted
<1>3. CASE index' \cap validated' = {}
  <2>1. fork_head' = fork_head /\ fork_head \in validated'
    BY <1>3 DEF FdbInv, HeadIsBest
  <2>. QED BY <1>1, <1>2, <1>3, <2>1 DEF FdbInv, TypeOK, HeadIsBest
<1>4. CASE index' \cap validated' # {}
  <2>1. fork_head' \in BestOf(index' \cap validated')
    BY <1>4
  <2>2. /\ fork_head' \in index' \cap validated'
        /\ \A b \in index' \cap validated' : ~first_preferred(b, fork_head')
    BY <1>1, <2>1, BestIsBest
  <2>3. HeadIsBest'
    BY <2>2 DEF HeadIsBest, first_preferred
  <2>. QED BY <1>1, <1>2, <2>2, <2>3 DEF FdbInv, TypeOK
<1>. QED BY <1>3, <1>4

\* mark_valid keeps the invariant: the candidate it compares with the head is
\* preferred to by no validated block, so the winner of the two is not either.
LEMMA MarkValidSafe ==
    ASSUME FdbInv, NEW h \in Block, MarkValid(h)
    PROVE  FdbInv'
<1>. USE DEF MarkValid
<1>1. index' \subseteq Block /\ validated' \subseteq Block /\ root' \in Block
  BY DEF FdbInv, TypeOK
<1>2. Rooted'
  BY DEF FdbInv, Rooted
<1>3. PICK best \in BestOf(index \cap validated') :
          fork_head' = IF first_preferred(best, fork_head) THEN best ELSE fork_head
  OBVIOUS
<1>4. best \in index \cap validated' /\ \A b \in index \cap validated' : ~first_preferred(b, best)
  BY <1>1, BestIsBest
<1>5. fork_head' \in validated' /\ fork_head' \in Block
  BY <1>1, <1>3, <1>4 DEF FdbInv, HeadIsBest, TypeOK
<1>6. ASSUME NEW b \in index \cap validated' PROVE ~first_preferred(b, fork_head')
  <2>1. {best, b, fork_head} \subseteq Block
    BY <1>1, <1>4 DEF FdbInv, TypeOK
  <2>2. ~first_preferred(b, best)
    BY <1>4
  <2>. QED BY <1>3, <2>1, <2>2, FieldAssumption DEF first_preferred
<1>7. HeadIsBest'
  BY <1>5, <1>6 DEF HeadIsBest, first_preferred
<1>. QED BY <1>1, <1>2, <1>5, <1>7 DEF FdbInv, TypeOK

\* remove keeps the invariant: what it erases is closed, so no survivor was
\* built on an erased block, and the head is not among them.
LEMMA RemoveSafe ==
    ASSUME FdbInv, NEW id \in index, Remove(id)
    PROVE  FdbInv'
<1>. DEFINE gone == Descendants(id, index)
<1>1. gone \subseteq index /\ ClosedIn(gone, index)
  BY DescendantsClosed
<1>2. /\ fork_head \notin gone /\ index' = index \ gone /\ validated' = validated \ gone
      /\ root' = root /\ fork_head' = fork_head
  BY DEF Remove
<1>. HIDE DEF gone
<1>3. TypeOK'
  BY <1>2 DEF FdbInv, TypeOK
<1>4. Rooted'
  BY <1>1, <1>2 DEF FdbInv, Rooted, ClosedIn
<1>5. HeadIsBest'
  BY <1>2 DEF FdbInv, HeadIsBest, first_preferred
<1>. QED BY <1>3, <1>4, <1>5 DEF FdbInv

\* advance_root keeps the invariant: nothing that stays was built on anything
\* that goes, except on the new root itself.
LEMMA AdvanceRootSafe ==
    ASSUME FdbInv, NEW id \in Block, AdvanceRoot(id)
    PROVE  FdbInv'
<1>. DEFINE gone == PrunedBy(id)
<1>1. root \in gone /\ gone \subseteq (index \ {id}) \cup {root} /\ ClosedIn(gone, index \ {id})
  BY DescendantsClosed DEF PrunedBy
<1>2. /\ id \in index \cap validated /\ fork_head \notin gone
      /\ index' = (index \ {id}) \ gone
      /\ validated' = validated \cap (index' \cup {id})
      /\ root' = id /\ fork_head' = fork_head
  BY DEF AdvanceRoot
<1>. HIDE DEF gone
<1>3. TypeOK'
  BY <1>2 DEF FdbInv, TypeOK
<1>4. Rooted'
  BY <1>1, <1>2 DEF FdbInv, Rooted, ClosedIn
<1>5. HeadIsBest'
  BY <1>1, <1>2 DEF FdbInv, Rooted, HeadIsBest, first_preferred
<1>. QED BY <1>3, <1>4, <1>5 DEF FdbInv

\* Every operation of the fork database keeps the invariant.
LEMMA FdbStep == FdbInv /\ [Next]_fdbVars => FdbInv'
<1>. SUFFICES ASSUME FdbInv, [Next]_fdbVars PROVE FdbInv'
  OBVIOUS
<1>1. ASSUME NEW b \in Block, Add(b, FALSE) PROVE FdbInv'
  BY <1>1, AddSafe, ZenonT(30)
<1>2. ASSUME NEW b \in Block, MarkValid(b) PROVE FdbInv'
  BY <1>2, MarkValidSafe
<1>3. ASSUME NEW b \in index, Remove(b) PROVE FdbInv'
  BY <1>3, RemoveSafe
<1>4. ASSUME NEW b \in Block, AdvanceRoot(b) PROVE FdbInv'
  BY <1>4, AdvanceRootSafe
<1>5. CASE RollbackHeadToRoot
  BY <1>5 DEF RollbackHeadToRoot, FdbInv, TypeOK, Rooted, HeadIsBest, first_preferred
<1>6. ASSUME NEW b \in Block, ResetOnReplay(b) PROVE FdbInv'
  BY <1>6 DEF ResetOnReplay, Reset, FdbInv, TypeOK, Rooted, HeadIsBest
<1>7. CASE UNCHANGED fdbVars
  BY <1>7 DEF fdbVars, FdbInv, TypeOK, Rooted, HeadIsBest, first_preferred
<1>. QED BY <1>1, <1>2, <1>3, <1>4, <1>5, <1>6, <1>7, ZenonT(30) DEF Next

\* The fork database never holds an orphaned branch, never flags a block it
\* does not hold, and its head is always a validated block to which no
\* validated block is preferred.
THEOREM ForkDatabaseSafe == Spec => [](TypeOK /\ Rooted /\ HeadIsBest)
<1>1. Init => FdbInv
  BY FdbInitial
<1>2. FdbInv /\ [Next]_fdbVars => FdbInv'
  BY FdbStep
<1>. QED BY <1>1, <1>2, PTL DEF Spec, FdbInv

\* add never moves a head of the index to a less preferred block, although it does
\* not compare: the old head is one of the blocks the new one is the best of.
LEMMA AddKeepsHeadRank ==
    ASSUME FdbInv, NEW n \in Block, NEW v \in BOOLEAN, Add(n, v), fork_head \in index
    PROVE  ~first_preferred(fork_head, fork_head')
<1>1. FdbInv'
  BY AddSafe
<1>2. /\ index' = index \cup {n} /\ validated \subseteq validated' /\ root' = root
      /\ index' \subseteq Block /\ validated' \subseteq Block /\ fork_head \in Block
  BY <1>1 DEF Add, FdbInv, TypeOK
<1>3. CASE index' \cap validated' = {}
  BY <1>2, <1>3, FieldAssumption DEF Add, first_preferred
<1>4. CASE index' \cap validated' # {}
  <2>1. fork_head' \in BestOf(index' \cap validated')
    BY <1>4 DEF Add
  <2>2. /\ fork_head' \in index'
        /\ \A b \in index' \cap validated' : ~first_preferred(b, fork_head')
    BY <1>2, <2>1, BestIsBest
  <2>. QED BY <1>2, <2>2 DEF FdbInv, HeadIsBest
<1>. QED BY <1>3, <1>4

\* Receiving, validating, discarding or finalizing a block never moves a head that
\* is a block of the index to a less preferred one, whatever the irreversible
\* numbers of the tree; only a rollback or a reset does, and it moves the head to
\* the root.
THEOREM ForkHeadNeverWorsens == Spec => HeadNeverWorsens
<1>. DEFINE Kept == first_preferred(fork_head, fork_head') /\ fork_head \in index =>
                      fork_head' = root'
<1>1. FdbInv /\ [Next]_fdbVars => [Kept]_fdbVars
  <2>. SUFFICES ASSUME FdbInv, Next PROVE Kept
    OBVIOUS
  <2>0. \A b \in Block : Lib[b] \in Nat /\ Num[b] \in Nat
    BY FieldAssumption
  <2>1. ASSUME NEW b \in Block, NEW v \in BOOLEAN, Add(b, v) PROVE Kept
    BY <2>1, AddKeepsHeadRank
  <2>2. ASSUME NEW b \in Block, MarkValid(b) PROVE Kept
    <3>1. fork_head \in Block /\ fork_head' \in Block
      BY <2>2, MarkValidSafe DEF FdbInv, TypeOK
    <3>. QED BY <2>2, <2>0, <3>1 DEF MarkValid, first_preferred
  <2>3. ASSUME fork_head' = fork_head PROVE Kept
    BY <2>0, <2>3 DEF FdbInv, TypeOK, first_preferred
  <2>4. ASSUME NEW b \in index, Remove(b) PROVE Kept
    BY <2>4, <2>3 DEF Remove
  <2>5. ASSUME NEW b \in Block, AdvanceRoot(b) PROVE Kept
    BY <2>5, <2>3 DEF AdvanceRoot
  <2>6. CASE RollbackHeadToRoot
    BY <2>6 DEF RollbackHeadToRoot
  <2>7. ASSUME NEW b \in Block, ResetOnReplay(b) PROVE Kept
    BY <2>7 DEF ResetOnReplay, Reset
  <2>. QED BY <2>1, <2>2, <2>4, <2>5, <2>6, <2>7, ZenonT(30) DEF Next
<1>. QED BY <1>1, FdbInitial, FdbStep, PTL DEF Spec, HeadNeverWorsens

\* Every block of a rooted index descends from id or is pruned by an advance of
\* the root to id, and not both.
LEMMA PrunedOrKept ==
    ASSUME FdbInv, NEW id \in index
    PROVE  Descendants(id, index) \ {id} = (index \ {id}) \ PrunedBy(id)
<1>. DEFINE D == Descendants(id, index)
            P == PrunedBy(id)
<1>1. /\ id \in D /\ D \subseteq index /\ ClosedIn(D, index)
      /\ root \in P /\ P \subseteq (index \ {id}) \cup {root} /\ ClosedIn(P, index \ {id})
      /\ index \subseteq Block /\ root \notin index
  BY DescendantsClosed DEF PrunedBy, FdbInv, TypeOK, Rooted
<1>2. index \subseteq D \cup P
  <2>. DEFINE Bad == index \ (D \cup P)
  <2>1. SUFFICES ASSUME Bad # {} PROVE FALSE
    OBVIOUS
  <2>2. PICK b \in Bad : \A a \in Bad : Num[b] =< Num[a]
    BY <1>1, <2>1, LowestBlock, ZenonT(30)
  <2>3. b \in index /\ b \notin D /\ b \notin P /\ b # id
    BY <1>1, <2>2
  <2>4. b \in Block \ {Genesis} /\ Prev[b] \in Block /\ Prev[b] \in index \cup {root}
    BY <1>1, <2>3, GenesisAssumption, FieldAssumption DEF FdbInv, TypeOK, Rooted
  <2>5. Num[b] = Num[Prev[b]] + 1 /\ Num[b] \in Nat /\ Num[Prev[b]] \in Nat
    BY <2>4, NumAssumption, FieldAssumption
  <2>6. Prev[b] \notin Bad
    BY <2>2, <2>5
  <2>7. Prev[b] \in D \cup P
    BY <1>1, <2>4, <2>6
  <2>. QED BY <1>1, <2>3, <2>7 DEF ClosedIn
<1>3. D \cap P = {}
  <2>. DEFINE S == D \ P
  <2>1. id \in S
    BY <1>1
  <2>2. ASSUME NEW c \in index, Prev[c] \in S PROVE c \in S
    <3>1. c \in D
      BY <1>1, <2>2 DEF ClosedIn
    <3>2. ASSUME c \in P PROVE FALSE
      <4>1. c # root
        BY <1>1
      <4>2. Prev[c] \in P
        BY <3>2, <4>1, DescendantsPrev DEF PrunedBy
      <4>. QED BY <2>2, <4>2
    <3>. QED BY <3>1, <3>2
  <2>3. ClosedIn(S, index)
    BY <2>2 DEF ClosedIn
  <2>4. D \subseteq S
    BY <2>1, <2>3, DescendantsLeast
  <2>. QED BY <2>4
<1>. QED BY <1>1, <1>2, <1>3

\* Advancing the root keeps exactly the blocks that descend from the new root.
THEOREM ForkAdvanceKeepsDescendants == Spec => AdvanceKeepsDescendants
<1>. DEFINE Kept == \A b \in index : AdvanceRoot(b) =>
                        /\ root' \in index \cap validated
                        /\ index' = Descendants(root', index) \ {root'}
<1>1. FdbInv /\ [Next]_fdbVars => [Kept]_fdbVars
  <2>. SUFFICES ASSUME FdbInv, NEW b \in index, AdvanceRoot(b)
                PROVE  /\ root' \in index \cap validated
                       /\ index' = Descendants(root', index) \ {root'}
    OBVIOUS
  <2>. QED BY PrunedOrKept DEF AdvanceRoot
<1>. QED BY <1>1, FdbInitial, FdbStep, PTL DEF Spec, AdvanceKeepsDescendants

\* Both at once: no operation of the fork database loses a better head or a live
\* fork.
THEOREM ForkStepsKeepBest == Spec => StepsKeepBest
BY ForkHeadNeverWorsens, ForkAdvanceKeepsDescendants DEF StepsKeepBest

-----------------------------------------------------------------------------
(***************************************************************************)
(* The file of the fork database.  What makes the load succeed is the order*)
(* close writes the blocks in: a predecessor never has a higher            *)
(* irreversible number and has a smaller number, so it is written first    *)
(* whatever the flags of the two.                                          *)
(***************************************************************************)

\* What a file holds of the database it was written from: the database was in
\* order, every block of it is written once with its flag, and none after a
\* block that is built on it.
Saved(f, c) ==
    /\ c.index \subseteq Block /\ c.root \in Block /\ c.root \notin c.index
    /\ \A b \in c.index : Prev[b] \in c.index \cup {c.root}
    /\ c.validated \subseteq c.index \cup {c.root} /\ c.root \in c.validated
    /\ c.head \in c.validated
    /\ \A b \in c.index \cap c.validated : ~first_preferred(b, c.head)
    /\ f.root = c.root /\ f.head = c.head
    /\ Len(f.entries) \in Nat /\ DOMAIN f.entries = 1..Len(f.entries)
    /\ \A i \in 1..Len(f.entries) :
          /\ f.entries[i].id \in c.index /\ f.entries[i].valid \in BOOLEAN
          /\ f.entries[i].valid = (f.entries[i].id \in c.validated)
    /\ \A b \in c.index : \E i \in 1..Len(f.entries) : f.entries[i].id = b
    /\ \A i, j \in 1..Len(f.entries) : i < j => f.entries[i].id # f.entries[j].id
    /\ RisesIn(c.index) => \A i, j \in 1..Len(f.entries) : i < j =>
          Prev[f.entries[i].id] # f.entries[j].id

\* The database after the first p - 1 entries of the file have been added.
Loaded(f, c, p) ==
    /\ p \in 1..(Len(f.entries) + 1)
    /\ root = c.root
    /\ \A b : b \in index <=> \E i \in 1..Len(f.entries) : i < p /\ f.entries[i].id = b
    /\ validated = {c.root} \cup (index \cap c.validated)

\* The inductive invariant: the database is in order whatever its phase, the
\* file of a stopped node is a faithful one, and a load is as far as pos says.
FileInv ==
    /\ FdbInv
    /\ phase \in {"open", "closed", "loading", "failed"}
    /\ phase # "open" => Saved(file, atClose)
    /\ phase = "loading" => Loaded(file, atClose, pos)
    /\ LoadSucceeds

\* A block and its predecessor: the predecessor is the one close writes first.
LEMMA PredecessorFirst ==
    ASSUME TypeOK, NEW b \in index, Prev[b] \in index, RisesIn(index)
    PROVE  ~WrittenBefore(b, Prev[b])
<1>1. b \in Block \ {Genesis}
  BY GenesisAssumption DEF TypeOK
<1>2. Lib[Prev[b]] =< Lib[b] /\ Num[b] = Num[Prev[b]] + 1
  BY <1>1, NumAssumption DEF RisesIn
<1>3. Lib[b] \in Nat /\ Lib[Prev[b]] \in Nat /\ Num[b] \in Nat /\ Num[Prev[b]] \in Nat
  BY <1>1, FieldAssumption
<1>. QED BY <1>2, <1>3 DEF WrittenBefore, first_preferred

\* close writes no block twice.
LEMMA WrittenOnce ==
    ASSUME TypeOK, NEW b \in index
    PROVE  ~WrittenBefore(b, b)
<1>1. Lib[b] \in Nat /\ Num[b] \in Nat /\ Rank[b] \in Nat
  BY FieldAssumption DEF TypeOK
<1>. QED BY <1>1 DEF WrittenBefore, first_preferred

\* A database that starts, or starts again, from one block is in order.
LEMMA ResetSafe ==
    ASSUME NEW b \in Block, Reset(b)
    PROVE  FdbInv'
BY DEF Reset, FdbInv, TypeOK, Rooted, HeadIsBest

\* close writes a faithful file.
LEMMA CloseSaves ==
    ASSUME FdbInv, Close
    PROVE  Saved(file', atClose')
<1>1. PICK s \in WriteOrder :
        file' = [root    |-> root,
                 entries |-> [i \in DOMAIN s |-> [id |-> s[i], valid |-> s[i] \in validated]],
                 head    |-> fork_head]
  BY ZenonT(30) DEF Close
<1>2. PICK n \in 0..MaxIndex : s \in [1..n -> index]
  BY DEF WriteOrder
<1>3. /\ s \in [1..n -> index] /\ n \in Nat
      /\ \A i, j \in 1..n : i < j => WrittenBefore(s[i], s[j])
      /\ \A b \in index : \E i \in 1..n : s[i] = b
  BY <1>2, MaxIndexAssumption DEF WriteOrder
<1>4. atClose' = [index |-> index, validated |-> validated, root |-> root, head |-> fork_head]
  BY DEF Close
<1>. DEFINE e == file'.entries
<1>5. /\ e = [i \in 1..n |-> [id |-> s[i], valid |-> s[i] \in validated]]
      /\ file'.root = root /\ file'.head = fork_head
  BY <1>1, <1>3
<1>6. \A i \in 1..n : s[i] \in Block /\ e[i].id = s[i] /\ e[i].valid \in BOOLEAN
                   /\ e[i].valid = (s[i] \in validated)
  <2>1. ASSUME NEW i \in 1..n PROVE s[i] \in Block /\ e[i] = [id |-> s[i], valid |-> s[i] \in validated]
    BY <1>3, <1>5 DEF FdbInv, TypeOK
  <2>. HIDE DEF e
  <2>2. ASSUME NEW i \in 1..n
        PROVE  e[i].id = s[i] /\ e[i].valid = (s[i] \in validated) /\ e[i].valid \in BOOLEAN
    <3>1. PICK v \in BOOLEAN : v = (s[i] \in validated)
      <4>. WITNESS (s[i] \in validated) \in BOOLEAN
      <4>. QED OBVIOUS
    <3>2. e[i] = [id |-> s[i], valid |-> v]
      BY <2>1, <3>1
    <3>. QED BY <3>1, <3>2
  <2>. QED BY <2>1, <2>2, ZenonT(30)
<1>7. Len(e) = n /\ DOMAIN e = 1..n
  <2>1. e \in Seq([id : Block, valid : BOOLEAN])
    <3>1. \A i \in 1..n : [id |-> s[i], valid |-> s[i] \in validated] \in [id : Block, valid : BOOLEAN]
      BY <1>6
    <3>. QED BY <1>3, <1>5, <3>1
  <2>. QED BY <1>3, <1>5, <2>1
<1>8. ASSUME NEW i \in 1..n, NEW j \in 1..n, i < j
      PROVE  s[i] # s[j] /\ (RisesIn(index) => Prev[s[i]] # s[j])
  <2>1. s[i] \in index /\ s[j] \in index /\ WrittenBefore(s[i], s[j])
    BY <1>3, <1>8
  <2>. QED BY <2>1, PredecessorFirst, WrittenOnce DEF FdbInv
<1>. HIDE DEF e
<1>9. /\ \A i \in 1..Len(e) : e[i].id \in index /\ e[i].valid \in BOOLEAN
                              /\ e[i].valid = (e[i].id \in validated)
      /\ \A b \in index : \E i \in 1..Len(e) : e[i].id = b
      /\ \A i, j \in 1..Len(e) : i < j => e[i].id # e[j].id
      /\ RisesIn(index) => \A i, j \in 1..Len(e) : i < j => Prev[e[i].id] # e[j].id
  BY <1>3, <1>6, <1>7, <1>8
<1>10. /\ index \subseteq Block /\ root \in Block /\ root \notin index
       /\ \A b \in index : Prev[b] \in index \cup {root}
       /\ validated \subseteq index \cup {root} /\ root \in validated
       /\ fork_head \in validated
       /\ \A b \in index \cap validated : ~first_preferred(b, fork_head)
  BY DEF FdbInv, TypeOK, Rooted, HeadIsBest
<1>. QED BY <1>4, <1>5, <1>7, <1>9, <1>10 DEF Saved, e

\* An entry of a faithful file can be added when its turn comes: its block is
\* not there yet, and its predecessor is where no irreversible number falls.
LEMMA EntryLinks ==
    ASSUME FileInv, phase = "loading", pos \in DOMAIN file.entries
    PROVE  /\ file.entries[pos].id \in Block \ index
           /\ file.entries[pos].valid \in BOOLEAN
           /\ RisesIn(atClose.index) => Prev[file.entries[pos].id] \in index \cup {root}
<1>. DEFINE n == Len(file.entries)
            id == file.entries[pos].id
<1>1. Saved(file, atClose) /\ Loaded(file, atClose, pos)
  BY DEF FileInv
<1>2. n \in Nat /\ DOMAIN file.entries = 1..n /\ pos \in 1..n
  BY <1>1, ZenonT(30) DEF Saved
<1>3. file.entries[pos].valid \in BOOLEAN
  BY <1>1, <1>2 DEF Saved
<1>4. id \in atClose.index /\ id \in Block
  BY <1>1, <1>2 DEF Saved
<1>5. id \notin index
  <2>1. \A i, j \in 1..n : i < j => file.entries[i].id # file.entries[j].id
    BY <1>1, ZenonT(30) DEF Saved
  <2>2. \A b : b \in index <=> \E i \in 1..n : i < pos /\ file.entries[i].id = b
    BY <1>1, ZenonT(30) DEF Loaded
  <2>. QED BY <1>2, <2>1, <2>2
<1>6. ASSUME Prev[id] = atClose.root PROVE Prev[id] \in index \cup {root}
  BY <1>1, <1>6 DEF Loaded
<1>7. ASSUME Prev[id] # atClose.root, RisesIn(atClose.index) PROVE Prev[id] \in index \cup {root}
  <2>1. Prev[id] \in atClose.index
    BY <1>1, <1>4, <1>7, ZenonT(30) DEF Saved
  <2>2. PICK i \in 1..n : file.entries[i].id = Prev[id]
    BY <1>1, <2>1, ZenonT(30) DEF Saved
  <2>3. ~(pos < i)
    BY <1>1, <1>2, <1>7, <2>2 DEF Saved
  <2>4. i # pos
    <3>1. id \in Block \ {Genesis}
      BY <1>4, <2>1, <1>1, GenesisAssumption, ZenonT(30) DEF Saved
    <3>2. Num[id] = Num[Prev[id]] + 1 /\ Num[id] \in Nat
      BY <3>1, NumAssumption, FieldAssumption
    <3>. QED BY <2>2, <3>2
  <2>5. i < pos
    BY <1>2, <2>3, <2>4
  <2>. QED BY <1>1, <2>2, <2>5, ZenonT(30) DEF Loaded
<1>. QED BY <1>3, <1>4, <1>5, <1>6, <1>7

\* Adding an entry takes the load one entry on.
LEMMA EntryLoads ==
    ASSUME FileInv, phase = "loading", pos \in DOMAIN file.entries,
           Add(file.entries[pos].id, file.entries[pos].valid), pos' = pos + 1,
           UNCHANGED <<file, atClose>>
    PROVE  Loaded(file, atClose, pos)'
<1>. DEFINE n == Len(file.entries)
            e == file.entries
<1>1. Saved(file, atClose) /\ Loaded(file, atClose, pos)
  BY DEF FileInv
<1>2. n \in Nat /\ pos \in 1..n /\ DOMAIN e = 1..n
  BY <1>1 DEF Saved
<1>3. /\ index' = index \cup {e[pos].id} /\ root' = root
      /\ validated' = IF e[pos].valid THEN validated \cup {e[pos].id} ELSE validated
  BY DEF Add
<1>4. /\ root = atClose.root /\ validated = {atClose.root} \cup (index \cap atClose.validated)
      /\ \A b : b \in index <=> \E i \in 1..n : i < pos /\ e[i].id = b
  BY <1>1 DEF Loaded
<1>5. e[pos].valid = (e[pos].id \in atClose.validated)
  BY <1>1, <1>2 DEF Saved
<1>. HIDE DEF n, e
<1>6. validated' = {atClose.root} \cup (index' \cap atClose.validated)
  BY <1>3, <1>4, <1>5, ZenonT(30)
<1>7. \A b : b \in index' <=> \E i \in 1..n : i < pos + 1 /\ e[i].id = b
  BY <1>2, <1>3, <1>4
<1>. QED BY <1>2, <1>3, <1>4, <1>6, <1>7 DEF Loaded, n, e

\* The database that has read every entry is the one that was saved, but for its
\* head, and it accepts the head that was saved.
LEMMA AllLoaded ==
    ASSUME FileInv, phase = "loading", pos = Len(file.entries) + 1
    PROVE  /\ index = atClose.index /\ validated = atClose.validated /\ root = atClose.root
           /\ HeadAccepted(file.head)
<1>1. Saved(file, atClose) /\ Loaded(file, atClose, pos)
  BY DEF FileInv
<1>2. Len(file.entries) \in Nat
  BY <1>1 DEF Saved
<1>3. \A b : b \in index <=> \E i \in 1..Len(file.entries) : file.entries[i].id = b
  BY <1>1, <1>2 DEF Loaded
<1>4. index = atClose.index
  <2>1. ASSUME NEW b \in index PROVE b \in atClose.index
    <3>1. PICK i \in 1..Len(file.entries) : file.entries[i].id = b
      BY <1>3
    <3>. QED BY <1>1, <3>1 DEF Saved
  <2>2. ASSUME NEW b \in atClose.index PROVE b \in index
    BY <1>1, <1>3, ZenonT(30) DEF Saved
  <2>. QED BY <2>1, <2>2, ZenonT(30)
<1>5. root = atClose.root /\ validated = atClose.validated
  BY <1>1, <1>4 DEF Saved, Loaded
<1>6. HeadAccepted(file.head)
  BY <1>1, <1>4, <1>5 DEF Saved, HeadAccepted, BestOf
<1>. QED BY <1>4, <1>5, <1>6

\* Every step of the life of the file keeps the invariant: an operation of the
\* running database, a stop, a crash while the file is read, and each step of open.
LEMMA FileStep == FileInv /\ [FileNext]_fileVars => FileInv'
<1>. SUFFICES ASSUME FileInv, [FileNext]_fileVars PROVE FileInv'
  OBVIOUS
<1>0. FdbInv
  BY DEF FileInv
<1>1. CASE Operate
  <2>1. FdbInv'
    BY <1>0, <1>1, FdbStep DEF Operate
  <2>2. phase' = "open"
    BY <1>1 DEF Operate
  <2>. QED BY <2>1, <2>2 DEF FileInv, LoadSucceeds
<1>2. CASE Close
  <2>1. FdbInv' /\ phase' = "closed"
    BY <1>2, ResetSafe, GenesisAssumption DEF Close
  <2>2. Saved(file, atClose)'
    BY <1>0, <1>2, CloseSaves
  <2>. QED BY <2>1, <2>2 DEF FileInv, LoadSucceeds
<1>3. CASE OpenRoot
  <2>1. Saved(file, atClose) /\ file' = file /\ atClose' = atClose /\ phase' = "loading" /\ pos' = 1
    BY <1>3, ZenonT(30) DEF OpenRoot, FileInv
  <2>2. file.root \in Block /\ Reset(file.root)
    BY <1>3, <2>1 DEF OpenRoot, Saved
  <2>3. FdbInv'
    BY <2>2, ResetSafe, ZenonT(30)
  <2>4. Saved(file, atClose)'
    BY <2>1 DEF Saved
  <2>5. Len(file.entries) \in Nat /\ file.root = atClose.root
    BY <2>1 DEF Saved
  <2>6. Loaded(file, atClose, pos)'
    BY <2>1, <2>2, <2>5 DEF Loaded, Reset
  <2>. QED BY <2>1, <2>3, <2>4, <2>6 DEF FileInv, LoadSucceeds
<1>4. CASE LoadEntry
  <2>1. phase = "loading" /\ pos \in DOMAIN file.entries /\ file' = file /\ atClose' = atClose
    BY <1>4 DEF LoadEntry
  <2>2. /\ file.entries[pos].id \in Block \ index
        /\ file.entries[pos].valid \in BOOLEAN
        /\ RisesIn(atClose.index) => Prev[file.entries[pos].id] \in index \cup {root}
    BY <2>1, EntryLinks
  <2>3. Saved(file, atClose)'
    BY <2>1 DEF FileInv, Saved
  <2>4. CASE /\ Add(file.entries[pos].id, file.entries[pos].valid)
             /\ pos' = pos + 1 /\ phase' = "loading"
    <3>1. FdbInv'
      BY <1>0, <2>2, <2>4, AddSafe
    <3>2. Loaded(file, atClose, pos)'
      BY <2>1, <2>4, EntryLoads, ZenonT(30)
    <3>. QED BY <2>3, <2>4, <3>1, <3>2 DEF FileInv, LoadSucceeds
  <2>5. CASE /\ Prev[file.entries[pos].id] \notin index \cup {root}
             /\ phase' = "failed" /\ UNCHANGED <<index, validated, root, fork_head, pos>>
    <3>1. FdbInv'
      BY <1>0, <2>5, FdbStep, ZenonT(30) DEF fdbVars
    <3>2. LoadSucceeds'
      BY <2>1, <2>2, <2>5 DEF LoadSucceeds
    <3>. QED BY <2>3, <2>5, <3>1, <3>2 DEF FileInv
  <2>. QED BY <1>4, <2>1, <2>2, <2>4, <2>5 DEF LoadEntry
<1>5. CASE LoadHead
  <2>1. /\ phase' = "open" /\ fork_head' = atClose.head
        /\ index' = atClose.index /\ validated' = atClose.validated /\ root' = atClose.root
    BY <1>5, AllLoaded DEF LoadHead, FileInv, Saved
  <2>2. Saved(file, atClose)
    BY <1>0, <1>5 DEF LoadHead, FileInv
  <2>3. FdbInv'
    BY <2>1, <2>2 DEF Saved, FdbInv, TypeOK, Rooted, HeadIsBest, first_preferred
  <2>. QED BY <2>1, <2>2, <2>3, ZenonT(30) DEF FileInv, LoadSucceeds
<1>6. CASE CrashWhileLoading
  <2>1. /\ Saved(file, atClose) /\ file' = file /\ atClose' = atClose /\ phase' = "closed"
        /\ Reset(Genesis)
    BY <1>6 DEF CrashWhileLoading, FileInv
  <2>2. FdbInv'
    BY <2>1, ResetSafe, GenesisAssumption, ZenonT(30)
  <2>3. Saved(file, atClose)'
    BY <2>1 DEF Saved
  <2>. QED BY <2>1, <2>2, <2>3 DEF FileInv, LoadSucceeds
<1>7. CASE UNCHANGED fileVars
  <2>1. UNCHANGED <<index, validated, root, fork_head, phase, file, pos, atClose>>
    BY <1>7 DEF fileVars
  <2>2. FdbInv'
    BY <1>0, <2>1, FdbStep, ZenonT(30) DEF fdbVars
  <2>3. (phase # "open" => Saved(file, atClose))'
    BY <2>1 DEF FileInv, Saved
  <2>4. (phase = "loading" => Loaded(file, atClose, pos))'
    BY <2>1 DEF FileInv, Loaded
  <2>. QED BY <1>0, <2>1, <2>2, <2>3, <2>4 DEF FileInv, LoadSucceeds
<1>. QED BY <1>1, <1>2, <1>3, <1>4, <1>5, <1>6, <1>7 DEF FileNext

\* open never throws on a file that close wrote of a tree in which no irreversible
\* number falls, and whenever a load ends, the database is the one that was saved: for
\* every tree of blocks, every mix of validated and unvalidated forks and any number of
\* crashes while the file is read.
THEOREM ForkFileRestores == FileSpec => FileRestores
<1>1. FileInit => FileInv
  BY FdbInitial, ZenonT(30) DEF FileInit, FileInv, LoadSucceeds
<1>. DEFINE Restored == phase = "loading" /\ phase' = "open" =>
                          /\ index' = atClose.index
                          /\ validated' = atClose.validated
                          /\ root' = atClose.root
                          /\ fork_head' = atClose.head
<1>2. FileInv /\ [FileNext]_fileVars => [Restored]_fileVars
  <2>. SUFFICES ASSUME FileInv, FileNext, phase = "loading", phase' = "open"
                PROVE  /\ index' = atClose.index
                       /\ validated' = atClose.validated
                       /\ root' = atClose.root
                       /\ fork_head' = atClose.head
    BY ZenonT(30) DEF fileVars
  <2>1. LoadHead
    BY DEF FileNext, Operate, Close, OpenRoot, LoadEntry, CrashWhileLoading
  <2>2. Saved(file, atClose)
    BY DEF FileInv
  <2>. QED BY <2>1, <2>2, AllLoaded DEF LoadHead, Saved
<1>3. FileInv => LoadSucceeds
  BY DEF FileInv
<1>. QED BY <1>1, <1>2, <1>3, FileStep, PTL DEF FileSpec, FileRestores, RoundTrip
================================================================================
