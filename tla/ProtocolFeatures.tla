-------------------------- MODULE ProtocolFeatures --------------------------
(***************************************************************************)
(* Protocol features: the set a node recognizes, read from its             *)
(* protocol_features directory when it starts                              *)
(* (initialize_protocol_features in chain_plugin.cpp,                      *)
(* protocol_feature_set), their preactivation by a privileged contract and *)
(* activation at the start of the next block (controller.cpp), and the     *)
(* protocol_feature_manager's own record of what is active, which is not   *)
(* in the database and has to follow every block that is applied, aborted, *)
(* popped or read again at a restart.                                      *)
(*                                                                         *)
(* A digest is <<codename, dependencies>>: it covers neither the           *)
(* restrictions of the file nor anything else a node may choose.  Time is  *)
(* counted in blocks.                                                      *)
(***************************************************************************)
EXTENDS Integers, Sequences, SequencesExt, FiniteSets

CONSTANTS
  Codenames,     \* the builtin features
  Needs,         \* [codename -> builtin features it depends on]
  Unlocks,       \* [codename -> intrinsics its activation handler whitelists]
  Directories,   \* the contents of a node's directory: [codename -> file], partial;
                 \* a file is [deps, enabled, preactivation, earliest]
  Populate,      \* missing files are written with the defaults
  Gate,          \* the feature that unlocks the preactivation intrinsic
  MaxHeight, MaxActivations

VARIABLES
  directory,     \* the files
  known,         \* the recognized features: [digest -> restrictions]
  up,            \* the node runs
  headers,       \* activations of the blocks of the current branch, in order
  states,        \* protocol_state_object after each block, and first at genesis
  lib,           \* number of the last irreversible block
  pending,       \* the block being built: [acts, count, state], or NoBlock
  manager        \* protocol_feature_manager

pfVars == <<directory, known, up, headers, states, lib, pending, manager>>

NoBlock == [acts |-> <<>>, count |-> 0, state |-> [pre |-> <<>>, act |-> <<>>, white |-> {}],
            open |-> FALSE]

NotActive == MaxHeight + 2

NoPrevious == "none"

Height == Len(headers)

State == IF pending.open THEN pending.state ELSE states[Height + 1]

(***************************************************************************)
(* The features a node recognizes.                                         *)
(***************************************************************************)

Digest(c, deps) == <<c, deps>>

\* make_default_builtin_protocol_feature, given the digests of what it needs.
DefaultFeature(c, digests) ==
  [deps |-> {digests[n] : n \in Needs[c]}, enabled |-> Populate, preactivation |-> c # Gate,
   earliest |-> 0]

\* The digest each builtin feature ends up with: that of its file, or of its
\* default, whose dependencies are the digests already settled.
Settled(dir) ==
  LET d[c \in Codenames] ==
        IF c \in DOMAIN dir THEN Digest(c, dir[c].deps) ELSE Digest(c, DefaultFeature(c, d).deps)
  IN d

FileDigests(dir) == {Digest(c, dir[c].deps) : c \in DOMAIN dir}

\* add_feature accepts every file once what it depends on was added: its
\* dependencies are recognized and include every builtin it needs.  Only files
\* are there at that point, the defaults come later.
FilesAccepted(dir) ==
  \A c \in DOMAIN dir :
    /\ dir[c].deps \subseteq FileDigests(dir)
    /\ Needs[c] \subseteq {d[1] : d \in dir[c].deps}

Recognized(dir) ==
  LET s == Settled(dir)
      feature(c) == IF c \in DOMAIN dir THEN dir[c] ELSE DefaultFeature(c, s)
  IN [d \in {s[c] : c \in Codenames} |->
        LET f == feature(d[1])
        IN [enabled |-> f.enabled, preactivation |-> f.preactivation, earliest |-> f.earliest]]

Populated(dir) ==
  IF ~Populate THEN dir
  ELSE [c \in Codenames |->
          IF c \in DOMAIN dir THEN dir[c] ELSE DefaultFeature(c, Settled(dir))]

Ready(d, now) ==
  /\ d \in DOMAIN known
  /\ known[d].enabled
  /\ known[d].earliest <= now

ValidateDependencies(d, active) == d \in DOMAIN known /\ d[2] \subseteq active

(***************************************************************************)
(* protocol_feature_manager: a list of activations, and for every builtin  *)
(* its activation block and the builtin activated before it.               *)
(***************************************************************************)

NoEntry == [num |-> NotActive, previous |-> NoPrevious]

NoFeatures == [list |-> <<>>, last |-> NoPrevious, builtin |-> [c \in Codenames |-> NoEntry]]

CanActivate(m, d, num) ==
  /\ d \in DOMAIN known
  /\ m.list # <<>> => Last(m.list).num <= num
  /\ m.builtin[d[1]].num = NotActive

ActivateFeature(m, d, num) ==
  [list |-> Append(m.list, [digest |-> d, num |-> num]), last |-> d[1],
   builtin |-> [m.builtin EXCEPT ![d[1]] = [num |-> num, previous |-> m.last]]]

PoppedListOnly(m, num) == [m EXCEPT !.list = SelectSeq(@, LAMBDA e : e.num <= num)]

\* Unlinks the builtins activated above a block, newest first.
PoppedBlocksTo(m, num) ==
  LET late == {c \in Codenames : m.builtin[c].num # NotActive /\ m.builtin[c].num > num}
      unlink(x, i) ==
        IF x.last # NoPrevious /\ x.builtin[x.last].num > num
        THEN [x EXCEPT !.last = x.builtin[x.last].previous,
                       !.builtin[x.last] = NoEntry]
        ELSE x
      short == FoldLeft(unlink, m, [i \in 1 .. Cardinality(late) |-> i])
  IN [short EXCEPT !.list = SelectSeq(@, LAMBDA e : e.num <= num)]

IsBuiltinActivated(m, c, num) == m.builtin[c].num <= num

\* protocol_feature_manager::init: the activations in the database, in order.
InitManager(state) ==
  FoldLeft(LAMBDA m, e : ActivateFeature(m, e.digest, e.num), NoFeatures, state.act)

InitSucceeds(state, features) == \A i \in DOMAIN state.act : state.act[i].digest \in features

(***************************************************************************)
(* Blocks.                                                                 *)
(***************************************************************************)

\* Digests the headers of the branch have activated.
HeaderFeatures == UNION {ToSet(headers[i]) : i \in DOMAIN headers}

\* pending_state::is_protocol_feature_activated for the block being built.
IsActivated(d) ==
  d \in HeaderFeatures \/ d \in ToSet(SubSeq(pending.acts, 1, pending.count))

\* check_protocol_features.
Checked(acts, now) ==
  \A i \in DOMAIN acts :
    /\ Ready(acts[i], now)
    /\ acts[i] \notin HeaderFeatures
    /\ ValidateDependencies(acts[i], HeaderFeatures \cup ToSet(SubSeq(acts, 1, i - 1)))

\* The whitelist is a multimap from hashes to names: a set of names.
FindIntrinsic(white, names) == white \cap names

IsIntrinsicWhitelisted(white, name) == name \in white

AddIntrinsicToWhitelist(white, names) == white \cup names

OnActivation(white, c) == AddIntrinsicToWhitelist(white, Unlocks[c])

\* One activation at the start of a block: refused when it needed a
\* preactivation and had none, or was already made in this block.
StartOne(x, d) ==
  IF ~x.ok THEN x
  ELSE IF \/ d \notin ToSet(x.state.pre) /\ known[d].preactivation
          \/ d \in x.done
          \/ FindIntrinsic(x.state.white, Unlocks[d[1]]) # {}
          \/ ~CanActivate(x.manager, d, Height + 1)
  THEN [x EXCEPT !.ok = FALSE]
  ELSE [x EXCEPT !.done = @ \cup {d}, !.state.white = OnActivation(@, d[1]),
                 !.manager = ActivateFeature(@, d, Height + 1)]

\* The whole of start_block that is about features.
Started(acts) ==
  LET x == FoldLeft(StartOne, [ok |-> TRUE, done |-> {}, state |-> State, manager |-> manager], acts)
  IN IF ~x.ok THEN x
     ELSE IF ~(ToSet(x.state.pre) \subseteq x.done) THEN [x EXCEPT !.ok = FALSE]
     ELSE IF acts = <<>> THEN x
     ELSE [x EXCEPT !.state.pre = <<>>,
                    !.state.act = @ \o [i \in DOMAIN acts |-> [digest |-> acts[i], num |-> Height + 1]]]

\* A block begins: one this node produces (the time is that of the head) or one
\* it received (the time is the block's own).  A start that fails leaves no
\* pending block, and the manager is taken back to the head.
StartBlock(acts, producing) ==
  /\ up /\ ~pending.open /\ Height < MaxHeight
  /\ Checked(acts, IF producing THEN Height ELSE Height + 1)
  /\ \E x \in {Started(acts)} :
       IF x.ok
       THEN /\ pending' = [acts |-> acts, count |-> Len(acts), state |-> x.state, open |-> TRUE]
            /\ manager' = x.manager
       ELSE /\ manager' = PoppedBlocksTo(x.manager, Height)
            /\ UNCHANGED pending
  /\ UNCHANGED <<directory, known, up, headers, states, lib>>

\* A privileged contract preactivates a feature; a failure undoes its
\* transaction.  Its code was accepted because the intrinsic is whitelisted.
PreactivateFeature(d) ==
  /\ up /\ pending.open
  /\ IsIntrinsicWhitelisted(pending.state.white, "preactivate_feature")
  /\ Ready(d, Height + 1)
  /\ ~IsActivated(d)
  /\ d \notin ToSet(pending.state.pre)
  /\ ValidateDependencies(d, {n \in DOMAIN known : IsActivated(n)} \cup ToSet(pending.state.pre))
  /\ pending' = [pending EXCEPT !.state.pre = Append(@, d)]
  /\ UNCHANGED <<directory, known, up, headers, states, lib, manager>>

CommitBlock ==
  /\ up /\ pending.open
  /\ headers' = Append(headers, pending.acts)
  /\ states' = Append(states, pending.state)
  /\ pending' = NoBlock
  /\ UNCHANGED <<directory, known, up, lib, manager>>

AbortBlock ==
  /\ up /\ pending.open
  /\ pending' = NoBlock
  /\ manager' = PoppedBlocksTo(manager, Height)
  /\ UNCHANGED <<directory, known, up, headers, states, lib>>

PopBlock ==
  /\ up /\ ~pending.open /\ Height > lib
  /\ headers' = Front(headers)
  /\ states' = Front(states)
  /\ manager' = PoppedBlocksTo(manager, Height - 1)
  /\ UNCHANGED <<directory, known, up, lib, pending>>

Irreversible ==
  /\ up /\ lib < Height
  /\ lib' = lib + 1
  /\ UNCHANGED <<directory, known, up, headers, states, pending, manager>>

\* The node stops; what it was building is undone.
Stop ==
  /\ up
  /\ up' = FALSE
  /\ pending' = NoBlock
  /\ UNCHANGED <<directory, known, headers, states, lib, manager>>

\* The node starts again, perhaps with edited files.  It does not start when a
\* file is refused, or a feature the state activated is not recognized.
Start(dir) ==
  /\ ~up
  /\ FilesAccepted(dir)
  /\ directory' = Populated(dir)
  /\ known' = Recognized(dir)
  /\ InitSucceeds(states[Height + 1], DOMAIN Recognized(dir))
  /\ manager' = InitManager(states[Height + 1])
  /\ up' = TRUE
  /\ UNCHANGED <<headers, states, lib, pending>>

PfInit ==
  /\ \E dir \in Directories :
       /\ FilesAccepted(dir)
       /\ directory = Populated(dir) /\ known = Recognized(dir)
  /\ up = TRUE
  /\ headers = <<>>
  /\ states = <<[pre |-> <<>>, act |-> <<>>, white |-> {}]>>
  /\ lib = 0
  /\ pending = NoBlock
  /\ manager = NoFeatures

PfNext ==
  \/ \E n \in 0 .. MaxActivations : \E acts \in [1 .. n -> DOMAIN known], p \in BOOLEAN :
       StartBlock(acts, p)
  \/ \E d \in DOMAIN known : PreactivateFeature(d)
  \/ CommitBlock
  \/ AbortBlock
  \/ PopBlock
  \/ Irreversible
  \/ Stop
  \/ \E dir \in Directories \cup {directory} : Start(dir)

PfSpec == PfInit /\ [][PfNext]_pfVars

(***************************************************************************)
(* get_activated_protocol_features (chain_plugin.cpp) by ordinal: the      *)
(* features from ordinal lower to ordinal upper, at most limit of them,    *)
(* and where to go on.  Ordinals count from 0; the end is past the last.   *)
(***************************************************************************)

AtOrdinal(n) == IF n >= Len(manager.list) THEN Len(manager.list) ELSE n

NextIfNotEnd(n) == IF n = Len(manager.list) THEN n ELSE n + 1

Query(lower, upper, limit, reverse) ==
  LET from == AtOrdinal(lower)
      to   == NextIfNotEnd(AtOrdinal(upper))
      all  == IF reverse THEN Reverse([i \in 1 .. (to - from) |-> from + i - 1])
              ELSE [i \in 1 .. (to - from) |-> from + i - 1]
  IN IF upper < lower THEN [page |-> <<>>, more |-> <<>>]
     ELSE IF Len(all) <= limit THEN [page |-> all, more |-> <<>>]
     ELSE [page |-> SubSeq(all, 1, limit), more |-> <<all[limit + 1]>>]

\* By block: both ends of the range are found with the lower bound.
LowerBound(num) == Cardinality({i \in DOMAIN manager.list : manager.list[i].num < num})

UpperBound(num) == Cardinality({i \in DOMAIN manager.list : manager.list[i].num <= num})

QueryByBlock(lower, upper) ==
  IF upper < lower THEN <<>>
  ELSE [i \in 1 .. (UpperBound(lower) - LowerBound(lower)) |-> LowerBound(lower) + i - 1]

\* Reading page after page, each from where the last said to go on.
Paged(limit, reverse) ==
  LET end == Len(manager.list)
      step(x, i) ==
        IF x.stop THEN x
        ELSE LET q == IF reverse THEN Query(0, x.at, limit, TRUE) ELSE Query(x.at, end, limit, FALSE)
             IN [got |-> x.got \o q.page, stop |-> q.more = <<>>,
                 at |-> IF q.more = <<>> THEN x.at ELSE q.more[1]]
  IN FoldLeft(step, [got |-> <<>>, stop |-> FALSE, at |-> IF reverse THEN end ELSE 0],
              [i \in 1 .. (end + 1) |-> i]).got

(***************************************************************************)
(* The manager, the database and the block headers agree on what is active *)
(* - in the block being built, after an abort, a failed start, a pop and a *)
(* restart; every feature was activated once, after what it depends on;    *)
(* what is preactivated is not active yet and was preactivated with the    *)
(* gate open; and reading the activations page by page gives all of them   *)
(* in order, once, and asking for one block those of that block.           *)
(* (controller_impl::start_block, abort_block, pop_block,                  *)
(* protocol_feature_manager::popped_blocks_to and init,                    *)
(* read_only::get_activated_protocol_features.)                            *)
(***************************************************************************)
FeaturesAgree ==
  up =>
    LET now  == IF pending.open THEN Height + 1 ELSE Height
        acts == FlattenSeq(headers) \o pending.acts
    IN /\ manager.list = State.act
       /\ [i \in DOMAIN manager.list |-> manager.list[i].digest] = acts
       /\ \A d \in DOMAIN known : IsBuiltinActivated(manager, d[1], now) <=> d \in ToSet(acts)
       /\ IsInjective(acts)
       /\ \A i \in DOMAIN acts : acts[i][2] \subseteq ToSet(SubSeq(acts, 1, i - 1))
       /\ ToSet(State.pre) \cap ToSet(acts) = {}
       /\ State.pre # <<>> => \E d \in ToSet(acts) : d[1] = Gate
       /\ \A b \in 0 .. now : {manager.list[i + 1] : i \in ToSet(QueryByBlock(b, b))}
                             = {e \in ToSet(State.act) : e.num = b}
       /\ \A limit \in 1 .. 2 :
            /\ Paged(limit, FALSE) = [i \in DOMAIN acts |-> i - 1]
            /\ Paged(limit, TRUE) = Reverse([i \in DOMAIN acts |-> i - 1])
====
