------------------------------ MODULE Snapshot ------------------------------
(***************************************************************************)
(* Writing the state to a snapshot and loading it into an empty database:  *)
(* ostream/istream_snapshot_writer/reader, the variant forms, and what     *)
(* controller_impl, authorization_manager and resource_limits_manager put  *)
(* into the sections.  The objects of the database are known by ids that   *)
(* are not written: loading numbers them again, contract rows are counted  *)
(* after their table, and a permission finds its parent by name and gets a *)
(* new usage object.  The process may die while the file is written; a     *)
(* binary section that is not ended still has the place holder as size,    *)
(* which is also the end marker of the file.                               *)
(***************************************************************************)
EXTENDS Integers, FiniteSets, Sequences, SequencesExt

CONSTANTS
  Owners, Names,  \* of permissions
  Tables, Keys,   \* contract tables and the keys of their rows
  MaxId           \* bound on the ids the running node has given out

VARIABLES
  db,      \* the state: [head, perms, usage, tables, nextPerm,
           \* nextUsage, nextTable]
  format,  \* "binary" or "variant"
  file,    \* [head, sections, end]; a section is [name, ended, rows]
  todo,    \* what the writer still has to write: sections [name, rows]
  stage,   \* "running", "writing", "written", "dead", "loaded", "refused"
  source   \* ghost: the state the snapshot was taken of

snVars == <<db, format, file, todo, stage, source>>

Ascending(S) ==
  [i \in 1 .. Cardinality(S) |-> CHOOSE x \in S : Cardinality({y \in S : y < x}) = i - 1]

NoFile == [head |-> FALSE, sections |-> <<>>, end |-> FALSE]

\* index_utils::walk and size_range/walk_range: the rows in the order of ids,
\* those of a table in the order of their keys.
Walk(f) == LET ids == Ascending(DOMAIN f) IN [i \in 1 .. Len(ids) |-> f[ids[i]]]

\* An empty database: permission 0 and nothing else.
EmptyDb == [head |-> 0, perms |-> [i \in {} |-> 0], usage |-> [i \in {} |-> 0],
            tables |-> [i \in {} |-> 0],
            nextPerm |-> 0, nextUsage |-> 0, nextTable |-> 0]

NoOwner == ""
NoName == ""

-----------------------------------------------------------------------------
(* The node's own changes of the state: what gives the objects their ids. *)

\* authorization_manager::create_permission; permission 0 is reserved and
\* shares the usage object 0 with the first permission.
CreatePermission(d, owner, name, parent, used) ==
  [d EXCEPT !.perms = @ @@ (d.nextPerm :> [owner |-> owner, name |-> name, parent |-> parent,
                                           usage |-> d.nextUsage]),
            !.usage = @ @@ (d.nextUsage :> used),
            !.nextPerm = @ + 1, !.nextUsage = @ + 1]

InitialDb ==
  LET reserved == [EmptyDb EXCEPT
        !.perms = (0 :> [owner |-> NoOwner, name |-> NoName, parent |-> 0, usage |-> 0]),
        !.nextPerm = 1]
  IN  CreatePermission(reserved, CHOOSE o \in Owners : TRUE, CHOOSE n \in Names : TRUE, 0, 0)

Create ==
  /\ stage = "running" /\ db.nextPerm <= MaxId
  /\ \E o \in Owners, n \in Names : \E p \in {0} \cup {i \in DOMAIN db.perms : db.perms[i].owner = o} :
       /\ \A i \in DOMAIN db.perms : <<db.perms[i].owner, db.perms[i].name>> # <<o, n>>
       /\ db' = CreatePermission(db, o, n, p, 0)
  /\ UNCHANGED <<format, file, todo, stage, source>>

\* remove_permission: only one without children; permission 1 is eosio@owner.
RemovePermission ==
  /\ stage = "running"
  /\ \E i \in DOMAIN db.perms \ {0, 1} :
       /\ \A j \in DOMAIN db.perms : db.perms[j].parent # i
       /\ db' = [db EXCEPT !.perms = [j \in DOMAIN @ \ {i} |-> @[j]],
                           !.usage = [u \in DOMAIN @ \ {db.perms[i].usage} |-> @[u]]]
  /\ UNCHANGED <<format, file, todo, stage, source>>

\* update_permission_usage
UsePermission ==
  /\ stage = "running"
  /\ \E i \in DOMAIN db.perms \ {0} : db' = [db EXCEPT !.usage[db.perms[i].usage] = 1]
  /\ UNCHANGED <<format, file, todo, stage, source>>

\* A contract stores or removes a row of a table or of its index; the table
\* comes with its first row and goes with its last.
Store ==
  /\ stage = "running" /\ db.nextTable <= MaxId
  /\ \E t \in Tables, k \in Keys, kind \in {"kv", "idx"} :
       IF \E i \in DOMAIN db.tables : db.tables[i].name = t
       THEN \E i \in DOMAIN db.tables :
              /\ db.tables[i].name = t
              /\ db' = [db EXCEPT !.tables[i][kind] = @ \cup {k}]
       ELSE db' = [db EXCEPT !.tables = @ @@ (db.nextTable :>
                     [[name |-> t, kv |-> {}, idx |-> {}] EXCEPT ![kind] = {k}]),
                   !.nextTable = @ + 1]
  /\ UNCHANGED <<format, file, todo, stage, source>>

Erase ==
  /\ stage = "running"
  /\ \E i \in DOMAIN db.tables, kind \in {"kv", "idx"} : \E k \in db.tables[i][kind] :
       LET left == [db.tables[i] EXCEPT ![kind] = @ \ {k}]
       IN  db' = [db EXCEPT !.tables =
                    IF left.kv \cup left.idx = {}
                    THEN [j \in DOMAIN @ \ {i} |-> @[j]]
                    ELSE [@ EXCEPT ![i] = left]]
  /\ UNCHANGED <<format, file, todo, stage, source>>

-----------------------------------------------------------------------------
(* What is written. *)

Row(kind, value) == [kind |-> kind, value |-> value]
Rows(kind, s) == [i \in 1 .. Len(s) |-> Row(kind, s[i])]

\* snapshot_row_traits<permission_object>::to_snapshot_row
ToSnapshotRow(d, p) ==
  [owner |-> p.owner, name |-> p.name, parent |-> d.perms[p.parent].name, used |-> d.usage[p.usage]]

PermissionRows(d) ==
  LET perms == Walk(d.perms)
  IN  Rows("permission", [i \in 1 .. Len(perms) |-> ToSnapshotRow(d, perms[i])])

\* add_contract_tables_to_snapshot: a row for the table, then for each index
\* the number of its rows and the rows.
IndexRows(S) == <<Row("size", Cardinality(S))>> \o Rows("data", Ascending(S))

TableRows(d) ==
  LET tables == Walk(d.tables)
  IN  FlattenSeq([i \in 1 .. Len(tables) |->
        <<Row("table", tables[i].name)>> \o IndexRows(tables[i].kv) \o IndexRows(tables[i].idx)])

\* add_to_snapshot: the sections, in order.
Section(name, rows) == [name |-> name, rows |-> rows]
Sections(d) ==
  <<Section("header", <<Row("version", 1)>>),
    Section("block_state", <<Row("head", d.head)>>),
    Section("contract_tables", TableRows(d)),
    Section("permission", PermissionRows(d))>>

StartWriting ==
  /\ stage = "running"
  /\ stage' = "writing" /\ source' = db
  /\ todo' = Sections(db)
  /\ file' = [NoFile EXCEPT !.head = TRUE]
  /\ UNCHANGED <<db, format>>

Open == file.sections # <<>> /\ ~Last(file.sections).ended

\* write_start_section: the binary form has the place holders now.
WriteStart ==
  /\ stage = "writing" /\ todo # <<>>
  /\ ~Open
  /\ file' = [file EXCEPT !.sections =
                Append(@, [name |-> Head(todo).name, ended |-> FALSE, rows |-> <<>>])]
  /\ UNCHANGED <<db, format, todo, stage, source>>

WriteRow ==
  /\ stage = "writing" /\ Open /\ Head(todo).rows # <<>>
  /\ file' = [file EXCEPT !.sections[Len(file.sections)].rows = Append(@, Head(Head(todo).rows))]
  /\ todo' = [todo EXCEPT ![1].rows = Tail(@)]
  /\ UNCHANGED <<db, format, stage, source>>

WriteEnd ==
  /\ stage = "writing" /\ Open /\ Head(todo).rows = <<>>
  /\ file' = [file EXCEPT !.sections[Len(file.sections)].ended = TRUE]
  /\ todo' = Tail(todo)
  /\ UNCHANGED <<db, format, stage, source>>

Finalize ==
  /\ stage = "writing" /\ todo = <<>>
  /\ file' = [file EXCEPT !.end = TRUE]
  /\ stage' = "written"
  /\ UNCHANGED <<db, format, todo, source>>

\* The process dies: the variant form was only in memory until the end of a
\* section.
Die ==
  /\ stage = "writing"
  /\ stage' = "dead"
  /\ file' = IF format = "variant" /\ Open THEN [file EXCEPT !.sections = Front(@)] ELSE file
  /\ UNCHANGED <<db, format, todo, source>>

-----------------------------------------------------------------------------
(* What is read. *)

\* validate: the sections are passed over by their sizes until the end
\* marker; the place holder of a section that was not ended reads as one.
BinaryValidates == file.head /\ (file.end \/ Open)

\* The variant form has no end: what is there is well formed.
VariantValidates == file.head

Validates == IF format = "binary" THEN BinaryValidates ELSE VariantValidates

\* has_section and set_section: sections before the end marker.
FoundOpen(name) == {i \in 1 .. Len(file.sections) : file.sections[i].name = name}
Found(name) ==
  {i \in 1 .. Len(file.sections) : file.sections[i].name = name /\ file.sections[i].ended}

RowsOf(name) == file.sections[CHOOSE i \in Found(name) : TRUE].rows

\* from_snapshot_row: permission 0 is the reserved one; the parent is looked
\* up by its name among the permissions read so far.
NamedPermission(d, owner, name) ==
  {i \in DOMAIN d.perms : d.perms[i].owner = owner /\ d.perms[i].name = name}

FromSnapshotRow(d, row) ==
  IF d.nextPerm = 0
  THEN [d EXCEPT !.perms = (0 :> [owner |-> row.owner, name |-> row.name, parent |-> 0, usage |-> 0]),
                 !.nextPerm = 1,
                 !.fails = @ \/ row.name # NoName \/ row.owner # NoOwner \/ row.parent # NoName]
  ELSE IF row.parent = NoName THEN CreatePermission(d, row.owner, row.name, 0, row.used)
  ELSE IF NamedPermission(d, row.owner, row.parent) = {} THEN [d EXCEPT !.fails = TRUE]
  ELSE CreatePermission(d, row.owner, row.name,
                        CHOOSE i \in NamedPermission(d, row.owner, row.parent) : TRUE, row.used)

RECURSIVE ReadPermissions(_, _)
ReadPermissions(d, rows) ==
  IF rows = <<>> \/ d.fails THEN d
  ELSE ReadPermissions(FromSnapshotRow(d, Head(rows).value), Tail(rows))

\* read_contract_tables_from_snapshot: the loop of the whole section reads
\* until a read said that there is no more row.
Data(rows) == {r.value : r \in Range(rows)}

RECURSIVE ReadTables(_, _)
ReadTables(d, rows) ==
  IF rows = <<>> \/ d.fails THEN d
  ELSE LET kv  == rows[2].value
           idx == rows[kv + 3].value
           t   == [name |-> rows[1].value, kv |-> Data(SubSeq(rows, 3, kv + 2)),
                   idx |-> Data(SubSeq(rows, kv + 4, kv + idx + 3))]
       IN  ReadTables([d EXCEPT !.tables = @ @@ (d.nextTable :> t), !.nextTable = @ + 1],
                      SubSeq(rows, kv + idx + 4, Len(rows)))

\* read_from_snapshot into an empty database.
Read ==
  LET start == [EmptyDb EXCEPT !.head = RowsOf("block_state")[1].value] @@ [fails |-> FALSE]
  IN  ReadPermissions(ReadTables(start, RowsOf("contract_tables")), RowsOf("permission"))

Needed == {"header", "block_state", "contract_tables", "permission"}

Load ==
  /\ stage \in {"written", "dead"}
  /\ IF Validates /\ \A n \in Needed : Found(n) # {}
     THEN \E d \in {Read} :
            /\ stage' = IF d.fails THEN "refused" ELSE "loaded"
            /\ db' = [f \in DOMAIN EmptyDb |-> d[f]]
     ELSE stage' = "refused" /\ UNCHANGED db
  /\ UNCHANGED <<format, file, todo, source>>

\* After loading the chain goes on, and a later snapshot may be taken.
Continue ==
  /\ stage = "loaded" /\ db # source
  /\ stage' = "running" /\ file' = NoFile /\ todo' = <<>> /\ source' = EmptyDb
  /\ UNCHANGED <<db, format>>

SnInit ==
  /\ db = InitialDb /\ source = EmptyDb
  /\ format \in {"binary", "variant"}
  /\ file = NoFile /\ todo = <<>> /\ stage = "running"

SnNext ==
  \/ Create \/ RemovePermission \/ UsePermission \/ Store \/ Erase
  \/ StartWriting \/ WriteStart \/ WriteRow \/ WriteEnd \/ Finalize \/ Die
  \/ Load \/ Continue

SnSpec == SnInit /\ [][SnNext]_snVars

-----------------------------------------------------------------------------
\* A permission and a table by their names, whatever their ids.
ParentName(d, p) == <<d.perms[p.parent].owner, d.perms[p.parent].name>>
PermissionsByName(d) ==
  {[owner |-> p.owner, name |-> p.name, parent |-> ParentName(d, p), used |-> d.usage[p.usage]] :
     p \in {d.perms[i] : i \in DOMAIN d.perms \ {0}}}

(***************************************************************************)
(* A node that starts from a snapshot has the state the snapshot was taken *)
(* of: the same tables with the same rows, the same permissions under the  *)
(* same parents with the same last use (read_from_snapshot after           *)
(* add_to_snapshot), and the rows it would write again, which are what     *)
(* calculate_integrity_hash hashes, are the same too.  A file whose writer *)
(* finished is never refused, and one whose writer died is loaded only if  *)
(* all of its sections had been ended.                                     *)
(***************************************************************************)
SnapshotRestores ==
  /\ stage = "loaded" =>
       /\ PermissionsByName(db) = PermissionsByName(source)
       /\ Range(Walk(db.tables)) = Range(Walk(source.tables))
       /\ Sections(db) = Sections(source)
       /\ todo = <<>>
  /\ stage = "refused" => ~file.end
=============================================================================
