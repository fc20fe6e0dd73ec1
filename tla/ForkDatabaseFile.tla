---------------------------- MODULE ForkDatabaseFile ----------------------------
(***************************************************************************)
(* fork_database::close and open: the database written to fork_db.dat when *)
(* the node stops, and rebuilt from it, one add per entry, when it starts. *)
(***************************************************************************)
EXTENDS ForkDatabase, Sequences

VARIABLES
    phase,     \* "open", "closed", "loading" or "failed" (open threw)
    file,      \* fork_db.dat: root, entries in the order written, head
    pos,       \* the entry open reads next
    atClose    \* history: the database as it was when close was called

fileVars == <<index, validated, root, fork_head, phase, file, pos, atClose>>

NoFile == [root |-> NoBlock, entries |-> <<>>, head |-> NoBlock]
Nothing == [index |-> {}, validated |-> {}, root |-> NoBlock, head |-> NoBlock]

\* Mutant of WrittenBefore: the merge takes the preferred of the two blocks.
WrittenAfter(a, b) ==
    \/ first_preferred(a, b)
    \/ /\ Lib[a] = Lib[b] /\ Num[a] = Num[b]
       /\ \/ a \in validated /\ b \notin validated
          \/ (a \in validated <=> b \in validated) /\ Rank[a] > Rank[b]

\* The loop of close merges the unvalidated and the validated blocks, each
\* taken from the back of by_lib_block_num, writing the less preferred of the
\* two and on a tie the validated one.
WrittenBefore(a, b) ==
    \/ first_preferred(b, a)
    \/ /\ Lib[a] = Lib[b] /\ Num[a] = Num[b]
       /\ \/ a \in validated /\ b \notin validated
          \/ (a \in validated <=> b \in validated) /\ Rank[a] > Rank[b]

\* The one sequence of all blocks of the index in that order (as a singleton).
WriteOrder ==
    {s \in UNION {[1..n -> index] : n \in 0..MaxIndex} :
        /\ \A i, j \in DOMAIN s : i < j => WrittenBefore(s[i], s[j])
        /\ \A b \in index : \E i \in DOMAIN s : s[i] = b}

\* close: writes the file.  The process then ends; the initial values stand for
\* a database that is not there.
Close ==
    /\ phase = "open"
    /\ \E s \in WriteOrder :
           file' = [root    |-> root,
                    entries |-> [i \in DOMAIN s |-> [id |-> s[i], valid |-> s[i] \in validated]],
                    head    |-> fork_head]
    /\ atClose' = [index |-> index, validated |-> validated, root |-> root, head |-> fork_head]
    /\ phase' = "closed"
    /\ Reset(Genesis)
    /\ pos' = 0

\* open: reset to the root that was saved.
OpenRoot ==
    /\ phase = "closed"
    /\ Reset(file.root)
    /\ phase' = "loading"
    /\ pos' = 1
    /\ UNCHANGED <<file, atClose>>

\* open: one entry is added with the flag it was saved with; an unlinkable or
\* duplicate entry makes open throw.
LoadEntry ==
    /\ phase = "loading" /\ pos \in DOMAIN file.entries
    /\ LET e == file.entries[pos]
       IN  \/ Add(e.id, e.valid) /\ pos' = pos + 1 /\ phase' = phase
           \/ /\ e.id \in index \/ Prev[e.id] \notin index \cup {root}
              /\ phase' = "failed"
              /\ UNCHANGED <<index, validated, root, fork_head, pos>>
    /\ UNCHANGED <<file, atClose>>

\* What open asserts of the head it read, once it has found it.
HeadAccepted(h) ==
    /\ h \in index \cup {root}
    /\ index \cap validated = {} => h = root
    /\ \A b \in BestOf(index \cap validated) : ~first_preferred(b, h)

\* Mutant of LoadHead: the head that the adds arrived at is kept.
LoadHeadKept ==
    /\ phase = "loading" /\ pos = Len(file.entries) + 1
    /\ IF HeadAccepted(file.head)
       THEN phase' = "open" /\ file' = NoFile /\ pos' = 0 /\ atClose' = Nothing
       ELSE phase' = "failed" /\ UNCHANGED <<file, pos, atClose>>
    /\ UNCHANGED fdbVars

\* open: the saved head replaces the one the adds arrived at, the assertions
\* are checked, and the file is deleted.
LoadHead ==
    /\ phase = "loading" /\ pos = Len(file.entries) + 1
    /\ IF HeadAccepted(file.head)
       THEN /\ fork_head' = file.head
            /\ phase' = "open"
            /\ file' = NoFile
            /\ pos' = 0
            /\ atClose' = Nothing
       ELSE /\ phase' = "failed"
            /\ UNCHANGED <<fork_head, file, pos, atClose>>
    /\ UNCHANGED <<index, validated, root>>

\* A crash before the file is deleted: the next start reads it again.
CrashWhileLoading ==
    /\ phase = "loading"
    /\ phase' = "closed"
    /\ Reset(Genesis)
    /\ pos' = 0
    /\ UNCHANGED <<file, atClose>>

FileInit ==
    /\ Init
    /\ phase = "open"
    /\ file = NoFile
    /\ pos = 0
    /\ atClose = Nothing

Operate == phase = "open" /\ Next /\ UNCHANGED <<phase, file, pos, atClose>>

FileNext == Operate \/ Close \/ OpenRoot \/ LoadEntry \/ LoadHead \/ CrashWhileLoading

FileSpec == FileInit /\ [][FileNext]_fileVars

-----------------------------------------------------------------------------

\* open never throws on a file that close wrote of a tree in which no irreversible
\* number falls: every entry finds its predecessor already added, whatever mix of
\* validated and unvalidated forks was saved.  Where one falls, close writes the
\* block before its predecessor and open throws; the assertions on the head hold
\* either way.
LoadSucceeds ==
    phase = "failed" => ~RisesIn(atClose.index) /\ pos \in DOMAIN file.entries

\* A database that was saved and loaded is the one that was saved: same blocks,
\* same flags, same root, and the same head even where another validated block
\* ties with it.
RoundTrip ==
    [][phase = "loading" /\ phase' = "open" =>
         /\ index' = atClose.index
         /\ validated' = atClose.validated
         /\ root' = atClose.root
         /\ fork_head' = atClose.head]_fileVars

\* A saved fork database loads, unless an irreversible number falls in it, and is
\* what it was.
FileRestores == RoundTrip /\ []LoadSucceeds
================================================================================
