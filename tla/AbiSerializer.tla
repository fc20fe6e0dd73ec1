---------------------------- MODULE AbiSerializer ----------------------------
(***************************************************************************)
(* abi_serializer: the rules an account's ABI must meet (set_abi,          *)
(* validate), and the two conversions written separately against it,       *)
(* JSON to bytes (_variant_to_binary) and bytes to JSON                    *)
(* (_binary_to_variant), with the action members of a transaction that use *)
(* them (abi_to_variant, abi_from_variant).                                *)
(*                                                                         *)
(* A type name is the sequence of its base name and suffixes: <<"S">>,     *)
(* <<"S", "[]">>, <<"S", "?">>, and a field's may end in "$", a binary     *)
(* extension.  A JSON value is a record with its kind.  All built-in types *)
(* are one byte; lengths and tags are one byte.  The time limit is left    *)
(* out: it may end any conversion with an exception.                       *)
(***************************************************************************)
EXTENDS Integers, Sequences, SequencesExt, FiniteSets

CONSTANTS
  Builtins,     \* built_in_types
  Abis,         \* ABI definitions, as sequences of definitions
  Inputs,       \* JSON values handed to the serializer, with their type
  Byte, MaxBytes,
  MaxDepth      \* max_recursion_depth

VARIABLES
  abi,          \* the definition
  stage,
  type,         \* the type converted
  bytes,        \* what was unpacked, or packed
  value,        \* the JSON value
  left,         \* bytes not consumed
  result        \* outcome of the second conversion

abiVars == <<abi, stage, type, bytes, value, left, result>>

(***************************************************************************)
(* Type names.                                                             *)
(***************************************************************************)

IsArray(t) == t # <<>> /\ Last(t) = "[]"

IsOptional(t) == t # <<>> /\ Last(t) = "?"

IsExtension(t) == t # <<>> /\ Last(t) = "$"

FundamentalType(t) == IF IsArray(t) \/ IsOptional(t) THEN Front(t) ELSE t

RemoveBinExtension(t) == IF IsExtension(t) THEN Front(t) ELSE t

\* The maps set_abi fills; a later definition replaces an earlier one of its name.
Map(defs) ==
  [n \in {defs[i].name : i \in DOMAIN defs} |->
     defs[CHOOSE i \in DOMAIN defs : defs[i].name = n /\ \A j \in DOMAIN defs : defs[j].name = n => j <= i]]

Loaded(a, types, variants) ==
  [typedefs |-> Map(SubSeq(a.types, 1, types)), structs |-> Map(a.structs),
   variants |-> IF variants THEN Map(a.variants) ELSE <<>>, actions |-> Map(a.actions)]

\* resolve_type follows typedefs at most as often as there are any.
ResolveType(m, t) ==
  LET follow(x, i) == IF x \in DOMAIN m.typedefs THEN m.typedefs[x].type ELSE x
      end == FoldLeft(follow, t, [i \in 1 .. Cardinality(DOMAIN m.typedefs) |-> i])
  IN IF end \in DOMAIN m.typedefs THEN t ELSE end

EnterScope(d) == d + 1 < MaxDepth

RECURSIVE IsType(_, _, _)
IsType(m, t, d) ==
  LET f == FundamentalType(t)
  IN /\ EnterScope(d)
     /\ \/ f \in Builtins
        \/ IF f \in DOMAIN m.typedefs THEN IsType(m, m.typedefs[f].type, d + 1)
           ELSE f \in DOMAIN m.structs \/ f \in DOMAIN m.variants

\* The bases of a struct, nearest first, as far as they do not repeat.
RECURSIVE Bases(_, _, _)
Bases(m, s, seen) ==
  IF s.base = <<>> \/ ResolveType(m, s.base) \notin DOMAIN m.structs THEN seen
  ELSE LET b == m.structs[ResolveType(m, s.base)]
       IN IF b.name \in ToSet(seen) THEN Append(seen, b.name) ELSE Bases(m, b, Append(seen, b.name))

ValidStruct(m, s) ==
  LET chain == Bases(m, s, <<s.name>>)
      top   == m.structs[Last(chain)]
  IN /\ IsInjective(chain)
     /\ top.base = <<>> \/ ResolveType(m, top.base) \in DOMAIN m.structs
     /\ \A i \in DOMAIN s.fields : IsType(m, RemoveBinExtension(s.fields[i].type), 0)

Validate(m) ==
  /\ \A n \in DOMAIN m.typedefs : IsType(m, m.typedefs[n].type, 0)
  /\ \A n \in DOMAIN m.structs : ValidStruct(m, m.structs[n])
  /\ \A n \in DOMAIN m.variants : \A i \in DOMAIN m.variants[n].types : IsType(m, m.variants[n].types[i], 0)
  /\ \A n \in DOMAIN m.actions : IsType(m, m.actions[n].type, 0)

\* set_abi: each typedef is checked against the structs and the typedefs before
\* it; the variants are not there yet.
SetAbi(a) ==
  /\ \A i \in DOMAIN a.types :
       LET before == Loaded(a, i - 1, FALSE)
       IN IsType(before, a.types[i].type, 0) /\ ~IsType(before, a.types[i].name, 0)
  /\ \A defs \in {a.types, a.structs, a.variants, a.actions} : Cardinality(DOMAIN Map(defs)) = Len(defs)
  /\ Validate(Loaded(a, Len(a.types), TRUE))

(***************************************************************************)
(* JSON values and outcomes.                                               *)
(***************************************************************************)

Null == [k |-> "null"]

Number(n) == [k |-> "num", n |-> n]

List(items) == [k |-> "list", items |-> items]

Object(f) == [k |-> "obj", fields |-> f]

TypeString(t) == [k |-> "str", str |-> t]

Hex(b) == [k |-> "hex", bytes |-> b]

Failed(why) == [ok |-> FALSE, why |-> why]

Got(v, rest) == [ok |-> TRUE, value |-> v, rest |-> rest]

Packed(b) == [ok |-> TRUE, bytes |-> b]

(***************************************************************************)
(* Bytes to JSON.                                                          *)
(***************************************************************************)

\* A built-in value, a vector of them, or an optional one.
UnpackBuiltin(t, s) ==
  CASE s = <<>> -> Failed("end")
    [] s # <<>> /\ IsArray(t) ->
         IF Len(s) - 1 < s[1] THEN Failed("end")
         ELSE Got(List([i \in 1 .. s[1] |-> Number(s[i + 1])]), SubSeq(s, s[1] + 2, Len(s)))
    [] s # <<>> /\ IsOptional(t) ->
         CASE s[1] = 0 -> Got(Null, Tail(s))
           [] s[1] = 1 /\ Len(s) > 1 -> Got(Number(s[2]), SubSeq(s, 3, Len(s)))
           [] OTHER -> Failed("end")
    [] OTHER -> Got(Number(s[1]), Tail(s))

RECURSIVE UnpackValue(_, _, _, _), UnpackItems(_, _, _, _, _), UnpackStruct(_, _, _, _), UnpackFields(_, _, _, _, _)
UnpackValue(m, t, s, d) ==
  LET r == ResolveType(m, t)
      f == FundamentalType(r)
  IN CASE ~EnterScope(d) -> Failed("depth")
       [] EnterScope(d) /\ f \in Builtins -> UnpackBuiltin(r, s)
       [] EnterScope(d) /\ f \notin Builtins /\ IsArray(r) ->
            IF s = <<>> THEN Failed("end") ELSE UnpackItems(m, f, s[1], Got(List(<<>>), Tail(s)), d + 1)
       [] EnterScope(d) /\ f \notin Builtins /\ IsOptional(r) ->
            IF s = <<>> THEN Failed("end")
            ELSE IF s[1] = 0 THEN Got(Null, Tail(s)) ELSE UnpackValue(m, f, Tail(s), d + 1)
       [] EnterScope(d) /\ r \in DOMAIN m.variants ->
            IF s = <<>> \/ (s # <<>> /\ s[1] >= Len(m.variants[r].types)) THEN Failed("end")
            ELSE LET pick == m.variants[r].types[s[1] + 1]
                     x == UnpackValue(m, pick, Tail(s), d + 1)
                 IN IF ~x.ok THEN x ELSE Got(List(<<TypeString(pick), x.value>>), x.rest)
       [] OTHER ->
            LET x == UnpackStruct(m, r, s, d + 1)
            IN IF x.ok /\ DOMAIN x.value.fields = {} THEN Failed("empty") ELSE x

UnpackItems(m, t, n, sofar, d) ==
  IF n = 0 THEN sofar
  ELSE LET x == UnpackValue(m, t, sofar.rest, d)
       IN CASE ~x.ok -> x
            [] x.ok /\ x.value.k = "null" -> Failed("null")
            [] OTHER -> UnpackItems(m, t, n - 1, Got(List(Append(sofar.value.items, x.value)), x.rest), d)

UnpackStruct(m, t, s, d) ==
  IF ~EnterScope(d) THEN Failed("depth")
  ELSE IF t \notin DOMAIN m.structs THEN Failed("type")
  ELSE LET st == m.structs[t]
           b  == IF st.base = <<>> THEN Got(Object(<<>>), s)
                 ELSE UnpackStruct(m, ResolveType(m, st.base), s, d + 1)
       IN IF ~b.ok THEN b ELSE UnpackFields(m, st.fields, 1, b, d + 1)

\* At the end of the stream an extension is passed over.
UnpackFields(m, fields, i, sofar, d) ==
  IF i > Len(fields) THEN sofar
  ELSE LET t == fields[i].type
           x == UnpackValue(m, ResolveType(m, RemoveBinExtension(t)), sofar.rest, d)
       IN CASE sofar.rest = <<>> /\ IsExtension(t) -> UnpackFields(m, fields, i + 1, sofar, d)
            [] sofar.rest = <<>> /\ ~IsExtension(t) -> Failed("end")
            [] sofar.rest # <<>> /\ ~x.ok -> x
            [] OTHER ->
                 LET old == sofar.value.fields
                     new == [n \in DOMAIN old \cup {fields[i].name} |->
                               IF n = fields[i].name THEN x.value ELSE old[n]]
                 IN UnpackFields(m, fields, i + 1, Got(Object(new), x.rest), d)

BinaryToVariant(m, t, s) == IF EnterScope(0) THEN UnpackValue(m, t, s, 1) ELSE Failed("depth")

(***************************************************************************)
(* JSON to bytes.  "ext" says whether an extension may still be left out.  *)
(***************************************************************************)

PackBuiltin(t, v) ==
  CASE IsArray(t) /\ v.k = "list" ->
         IF \A i \in DOMAIN v.items : v.items[i].k = "num"
         THEN Packed(<<Len(v.items)>> \o [i \in DOMAIN v.items |-> v.items[i].n]) ELSE Failed("kind")
    [] IsOptional(t) /\ v.k = "null" -> Packed(<<0>>)
    [] IsOptional(t) /\ v.k = "num" -> Packed(<<1, v.n>>)
    [] ~IsArray(t) /\ ~IsOptional(t) /\ v.k = "num" -> Packed(<<v.n>>)
    [] OTHER -> Failed("kind")

DisallowNever(ext, condition) == ext

DisallowUnless(ext, condition) == ext /\ condition

RECURSIVE PackValue(_, _, _, _, _), PackItems(_, _, _, _, _, _), PackFields(_, _, _, _, _, _), PackPositions(_, _, _, _, _, _)
PackValue(m, t, v, ext, d) ==
  LET r == ResolveType(m, t)
      f == FundamentalType(r)
      again == EnterScope(d)
  IN CASE ~again -> Failed("depth")
       [] again /\ f \in Builtins -> PackBuiltin(r, v)
       [] again /\ f \notin Builtins /\ IsArray(r) ->
            IF v.k # "list" THEN Failed("kind")
            ELSE PackItems(m, f, v.items, 1, Packed(<<Len(v.items)>>), d + 1)
       [] again /\ r \in DOMAIN m.variants ->
            IF v.k # "list" \/ (v.k = "list" /\ (Len(v.items) # 2 \/ (Len(v.items) = 2 /\ v.items[1].k # "str")))
            THEN Failed("kind")
            ELSE LET at == {i \in DOMAIN m.variants[r].types : m.variants[r].types[i] = v.items[1].str}
                 IN IF at = {} THEN Failed("kind")
                    ELSE LET first == CHOOSE i \in at : \A j \in at : i <= j
                             x == PackValue(m, m.variants[r].types[first], v.items[2], ext, d + 1)
                         IN IF x.ok THEN Packed(<<first - 1>> \o x.bytes) ELSE x
       [] again /\ r \in DOMAIN m.structs /\ v.k = "obj" ->
            LET st == m.structs[r]
                b  == IF st.base = <<>> THEN Packed(<<>>)
                      ELSE PackValue(m, ResolveType(m, st.base), v, DisallowUnless(ext, FALSE), d + 1)
            IN IF b.ok THEN PackFields(m, st.fields, v.fields, [i |-> 1, skipped |-> FALSE, ext |-> ext], b, d + 1)
               ELSE b
       [] again /\ r \in DOMAIN m.structs /\ v.k = "list" ->
            IF m.structs[r].base # <<>> THEN Failed("kind")
            ELSE PackPositions(m, m.structs[r].fields, v.items, [i |-> 1, ext |-> ext], Packed(<<>>), d + 1)
       [] again /\ r \in DOMAIN m.structs -> Failed("kind")
       [] OTHER -> Failed("type")

PackItems(m, t, items, i, sofar, d) ==
  IF i > Len(items) THEN sofar
  ELSE LET x == PackValue(m, t, items[i], DisallowUnless(TRUE, FALSE), d)
       IN IF x.ok THEN PackItems(m, t, items, i + 1, Packed(sofar.bytes \o x.bytes), d) ELSE x

\* The fields of an object, in the order of the struct.
PackFields(m, fields, given, at, sofar, d) ==
  IF at.i > Len(fields) THEN sofar
  ELSE LET f == fields[at.i]
           x == PackValue(m, RemoveBinExtension(f.type), given[f.name],
                          DisallowUnless(at.ext, at.i = Len(fields)), d)
       IN CASE f.name \in DOMAIN given /\ at.skipped -> Failed("extra")
            [] f.name \in DOMAIN given /\ ~at.skipped ->
                 IF x.ok THEN PackFields(m, fields, given, [at EXCEPT !.i = @ + 1], Packed(sofar.bytes \o x.bytes), d)
                 ELSE x
            [] f.name \notin DOMAIN given /\ IsExtension(f.type) /\ at.ext ->
                 PackFields(m, fields, given, [at EXCEPT !.i = @ + 1, !.skipped = TRUE], sofar, d)
            [] OTHER -> Failed("missing")

\* The fields given by position.
PackPositions(m, fields, items, at, sofar, d) ==
  IF at.i > Len(fields) THEN sofar
  ELSE IF at.i <= Len(items)
  THEN LET x == PackValue(m, RemoveBinExtension(fields[at.i].type), items[at.i],
                          DisallowUnless(at.ext, at.i = Len(fields)), d)
       IN IF x.ok THEN PackPositions(m, fields, items, [at EXCEPT !.i = @ + 1], Packed(sofar.bytes \o x.bytes), d)
          ELSE x
  ELSE IF IsExtension(fields[at.i].type) /\ at.ext THEN sofar ELSE Failed("missing")

VariantToBinary(m, t, v) ==
  CASE ~EnterScope(0) -> Failed("depth")
    [] EnterScope(0) /\ ~IsType(m, t, 1) -> IF v.k = "hex" THEN Packed(v.bytes) ELSE Failed("kind")
    [] OTHER -> PackValue(m, t, v, TRUE, 1)

(***************************************************************************)
(* The data of an action in the JSON of a transaction.                     *)
(***************************************************************************)

AddAction(m, t, b) ==
  LET x == BinaryToVariant(m, t, b)
  IN IF x.ok THEN [data |-> x.value, hex |-> TRUE] ELSE [data |-> Hex(b), hex |-> FALSE]

\* An object is packed, and what that throws is not caught; anything that is
\* neither an object nor a string leaves the data to hex_data.
ExtractAction(m, t, j, b) ==
  CASE j.data.k = "hex" -> Packed(j.data.bytes)
    [] j.data.k = "obj" -> VariantToBinary(m, t, j.data)
    [] OTHER -> IF j.hex THEN Packed(b) ELSE Failed("data")

(***************************************************************************)
(* The steps: an ABI, then one conversion, then the one back.              *)
(***************************************************************************)

M == Loaded(abi, Len(abi.types), TRUE)

Types == {abi.actions[i].type : i \in DOMAIN abi.actions}

Accept ==
  /\ stage = "abi" /\ SetAbi(abi)
  /\ stage' = "ready"
  /\ UNCHANGED <<abi, type, bytes, value, left, result>>

Unpack(t, s) ==
  /\ stage = "ready"
  /\ \E x \in {BinaryToVariant(M, t, s)} :
       /\ x.ok
       /\ value' = x.value /\ left' = x.rest
  /\ stage' = "unpacked" /\ type' = t /\ bytes' = s
  /\ UNCHANGED <<abi, result>>

Repack ==
  /\ stage = "unpacked"
  /\ result' = VariantToBinary(M, type, value)
  /\ stage' = "repacked"
  /\ UNCHANGED <<abi, type, bytes, value, left>>

Pack(t, v) ==
  /\ stage = "ready"
  /\ \E x \in {VariantToBinary(M, t, v)} : x.ok /\ bytes' = x.bytes
  /\ stage' = "packed" /\ type' = t /\ value' = v
  /\ UNCHANGED <<abi, left, result>>

Reunpack ==
  /\ stage = "packed"
  /\ result' = BinaryToVariant(M, type, bytes)
  /\ stage' = "reunpacked"
  /\ UNCHANGED <<abi, type, bytes, value, left>>

\* to_variant and from_variant of an action that holds these bytes.
Json(t, s) ==
  /\ stage = "ready"
  /\ type' = t /\ bytes' = s
  /\ \E x \in {BinaryToVariant(M, t, s)} : left' = IF x.ok THEN x.rest ELSE <<>>
  /\ result' = ExtractAction(M, t, AddAction(M, t, s), s)
  /\ stage' = "json"
  /\ UNCHANGED <<abi, value>>

ByteStrings == UNION {[1 .. n -> Byte] : n \in 0 .. MaxBytes}

AbiInit ==
  /\ abi \in Abis
  /\ stage = "abi" /\ type = <<>> /\ bytes = <<>> /\ value = Null /\ left = <<>> /\ result = Failed("none")

AbiNext ==
  \/ Accept
  \/ stage = "ready" /\ \E t \in Types, s \in ByteStrings : Unpack(t, s) \/ Json(t, s)
  \/ Repack
  \/ \E x \in Inputs : Pack(x.type, x.value)
  \/ Reunpack

AbiSpec == AbiInit /\ [][AbiNext]_abiVars

(***************************************************************************)
(* The two conversions are inverse to each other.  What was unpacked packs *)
(* to the bytes it came from, and what was packed unpacks, without bytes   *)
(* left over, to a value that packs to the same bytes; an action's data    *)
(* comes back from JSON as the part of it its type covers.  The conversion *)
(* back may be refused, for reasons that the code has and no others:       *)
(* packing has no rule for an optional that is not of a built-in type, and *)
(* wants the extensions of a struct that is not the last field, which      *)
(* unpacking passes over at the end of the bytes; unpacking refuses a      *)
(* struct without fields, an empty optional in an array, and half the      *)
(* depth that packing allows.  (_variant_to_binary, _binary_to_variant,    *)
(* abi_to_variant::add, abi_from_variant::extract.)                        *)
(***************************************************************************)
ConversionsInverse ==
  LET used == SubSeq(bytes, 1, Len(bytes) - Len(left))
      Refused(why) == why = "type" \/ (why = "missing" /\ left = <<>>)
  IN /\ stage = "repacked" =>
          IF result.ok THEN result.bytes = used ELSE Refused(result.why)
     /\ stage = "reunpacked" =>
          IF result.ok
          THEN result.rest = <<>> /\ VariantToBinary(M, type, result.value) = Packed(bytes)
          ELSE result.why \in {"empty", "null", "depth"}
     /\ stage = "json" =>
          IF result.ok THEN result.bytes \in {used, bytes} ELSE Refused(result.why)
====
