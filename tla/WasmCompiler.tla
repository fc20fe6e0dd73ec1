----------------------------- MODULE WasmCompiler -----------------------------
(* From a contract's text or bytes to compiled code in four parts, each a     *)
(* specification of its own: code validated and emitted (Wasm), injected      *)
(* instructions (Inj), the module as a whole (Wm), and the lexer of the text  *)
(* format (Lex).                                                              *)
EXTENDS Integers, Sequences, SequencesExt, Bitwise, FiniteSetsExt

-----------------------------------------------------------------------------
(***************************************************************************)
(* The body of one WebAssembly function on its way into native code: the   *)
(* validator reads it operator by operator (Validate.cpp,                  *)
(* FunctionValidationContext) and, when it accepts all of it, the emitter  *)
(* reads it again and builds LLVM code (LLVMEmitIR.cpp,                    *)
(* EmitFunctionContext).  The emitter relies on what the validator has     *)
(* established, and skips code that cannot be reached where the validator  *)
(* reads on with operands of any type.  Both read the same operator in one *)
(* step here.                                                              *)
(*                                                                         *)
(* Operators without control flow are told apart by the types they take    *)
(* and leave (Operators.h).                                                *)
(***************************************************************************)

CONSTANTS WasmTypes,     \* value types in use, "i32" among them
          WasmFunctions, \* [parameters, ret]: types of the functions that can be called
          MaxNesting,    \* control structures in one another
          MaxOperands,   \* operands on the stack
          WordBits       \* width of an integer, a power of two

VARIABLES valid,         \* FunctionValidationContext
          emit,          \* EmitFunctionContext, and the depth its UnreachableOpVisitor keeps
          word           \* an integer operator and its operands, or none when code is read

wasmVars == <<valid, emit, word>>

AnyType == "any"
NoType == "none"
Results == WasmTypes \cup {NoType}
Typed(result) == IF result = NoType THEN <<>> ELSE <<result>>
Top(context) == Last(context.ctl)

\* Neither context goes on once it has thrown.
Stop(context) == [context EXCEPT !.ok = FALSE]
-----------------------------------------------------------------------------
(* The validator.  "arg" is the type a branch to the structure takes along.  *)

PushControl(v, kind, arg, result) ==
  [v EXCEPT !.ctl = Append(@, [kind |-> kind, base |-> Len(v.stack), arg |-> arg, res |-> result, live |-> TRUE])]

Push(v, types) == [v EXCEPT !.stack = @ \o types]

\* popOperand: the operand is left in "popped".
PopOperand(v) ==
  IF ~v.ok \/ v.ctl = <<>> THEN Stop(v)
  ELSE IF Len(v.stack) > Top(v).base THEN [v EXCEPT !.stack = Front(@), !.popped = Last(v.stack)]
  ELSE IF Top(v).live THEN Stop(v)
  ELSE [v EXCEPT !.popped = AnyType]

Agree(expected, actual) == expected = actual \/ expected = AnyType \/ actual = AnyType

PopExpecting(v, type) ==
  LET u == PopOperand(v) IN IF u.ok /\ ~Agree(type, u.popped) THEN Stop(u) ELSE u

PopAll(v, types) == FoldLeft(PopExpecting, v, Reverse(types))

\* popControlStack, with the mutant that lets an if without an else yield a result.
PopControlLax(v, isElse) ==
  IF ~v.ok \/ v.ctl = <<>> THEN Stop(v)
  ELSE IF Len(v.stack) > Top(v).base THEN Stop(v)
  ELSE IF isElse /\ Top(v).kind = "ifThen" THEN [v EXCEPT !.ctl[Len(v.ctl)] = [@ EXCEPT !.kind = "ifElse", !.live = TRUE]]
  ELSE IF isElse THEN Stop(v)
  ELSE [v EXCEPT !.ctl = Front(@), !.stack = IF Len(v.ctl) > 1 THEN @ \o Typed(Top(v).res) ELSE @]

PopControl(v, isElse) ==
  IF ~v.ok \/ v.ctl = <<>> THEN Stop(v)
  ELSE IF Len(v.stack) > Top(v).base THEN Stop(v)
  ELSE IF isElse /\ Top(v).kind = "ifThen" THEN [v EXCEPT !.ctl[Len(v.ctl)] = [@ EXCEPT !.kind = "ifElse", !.live = TRUE]]
  ELSE IF isElse \/ (Top(v).kind = "ifThen" /\ Top(v).res # NoType) THEN Stop(v)
  ELSE [v EXCEPT !.ctl = Front(@), !.stack = IF Len(v.ctl) > 1 THEN @ \o Typed(Top(v).res) ELSE @]

\* enterUnreachable, of both contexts
EnterUnreachable(context) ==
  IF ~context.ok \/ context.ctl = <<>> THEN Stop(context)
  ELSE [context EXCEPT !.stack = SubSeq(@, 1, Top(context).base), !.ctl[Len(context.ctl)] = [@ EXCEPT !.live = FALSE]]

\* The type that a branch takes along; no such target is a failure of the validator.
TargetExists(v, depth) == depth < Len(v.ctl)
TargetArg(v, depth) == v.ctl[Len(v.ctl) - depth].arg

ValidateSelect(v) ==
  LET condition == PopOperand(v)
      onFalse == PopOperand(condition)
      onTrue == PopOperand(onFalse)
  IN  IF onTrue.ok /\ Agree("i32", condition.popped) /\ Agree(onFalse.popped, onTrue.popped)
      THEN Push(onTrue, <<onFalse.popped>>) ELSE Stop(v)

ValidateBranch(v, depth) ==
  IF TargetExists(v, depth) THEN EnterUnreachable(PopAll(v, Typed(TargetArg(v, depth)))) ELSE Stop(v)

ValidateBranchIf(v, depth) ==
  IF TargetExists(v, depth)
  THEN Push(PopAll(v, Typed(TargetArg(v, depth)) \o <<"i32">>), Typed(TargetArg(v, depth))) ELSE Stop(v)

ValidateBranchTable(v, depths, default) ==
  IF /\ \A depth \in Range(depths) \cup {default} : TargetExists(v, depth)
     /\ \A depth \in Range(depths) : TargetArg(v, depth) = TargetArg(v, default)
  THEN EnterUnreachable(PopAll(v, Typed(TargetArg(v, default)) \o <<"i32">>)) ELSE Stop(v)
-----------------------------------------------------------------------------
(* The emitter.  Its operands are LLVM values of which only the types      *)
(* matter; an operand of another type than the instruction takes is a      *)
(* failure of LLVM's.                                                      *)

EmitPop(e, type) ==
  IF ~e.ok \/ Len(e.stack) - (IF e.ctl = <<>> THEN 0 ELSE Top(e).base) < 1 \/ Last(e.stack) # type THEN Stop(e)
  ELSE [e EXCEPT !.stack = Front(@)]

EmitPopAll(e, types) == FoldLeft(EmitPop, e, Reverse(types))

EmitControl(e, kind, arg, result) ==
  IF ~e.ok \/ (e.ctl # <<>> /\ ~Top(e).live) THEN Stop(e)
  ELSE [e EXCEPT !.ctl = Append(@, [kind |-> kind, base |-> Len(e.stack), res |-> result, live |-> TRUE,
                                    outer |-> Len(e.targets), hasElse |-> kind = "ifThen"]),
                 !.targets = Append(@, arg)]

EmitArg(e, depth) == e.targets[Len(e.targets) - depth]

\* What a structure leaves behind flows to its end, when the end of its code is reached.
EmitResult(e) ==
  LET u == IF Top(e).live THEN EmitPopAll(e, Typed(Top(e).res)) ELSE e
  IN  IF Len(u.stack) = Top(e).base THEN u ELSE Stop(u)

EmitElse(e) ==
  LET u == EmitResult(e)
  IN  IF u.ok /\ Top(u).kind = "ifThen"
      THEN [u EXCEPT !.ctl[Len(u.ctl)] = [@ EXCEPT !.kind = "ifElse", !.live = TRUE, !.hasElse = FALSE]] ELSE Stop(u)

\* An if without an else branches to its end from an else block that has no result to give.
EmitEnd(e) ==
  LET u == EmitResult(e)
  IN  IF u.ok /\ ~(Top(u).hasElse /\ Top(u).res # NoType)
      THEN [u EXCEPT !.stack = @ \o Typed(Top(u).res), !.targets = SubSeq(@, 1, Top(u).outer), !.ctl = Front(@)]
      ELSE Stop(u)

EmitBranch(e, depth) ==
  IF depth < Len(e.targets) THEN EnterUnreachable(EmitPopAll(e, Typed(EmitArg(e, depth)))) ELSE Stop(e)

\* br_if leaves its argument on the stack and reads it there.
EmitBranchIf(e, depth) ==
  LET u == EmitPop(e, "i32")
  IN  IF u.ok /\ depth < Len(u.targets) /\ (EmitArg(u, depth) # NoType => u.stack # <<>> /\ Last(u.stack) = EmitArg(u, depth))
      THEN u ELSE Stop(u)

EmitBranchTable(e, depths, default) ==
  IF /\ \A depth \in Range(depths) \cup {default} : depth < Len(e.targets)
     /\ \A depth \in Range(depths) : EmitArg(e, depth) = EmitArg(e, default)
  THEN EnterUnreachable(EmitPopAll(e, Typed(EmitArg(e, default)) \o <<"i32">>)) ELSE Stop(e)

EmitDrop(e) == IF e.stack = <<>> THEN Stop(e) ELSE [e EXCEPT !.stack = Front(@)]

EmitSelect(e) ==
  LET u == EmitPop(e, "i32")
  IN  IF u.ok /\ Len(u.stack) - Top(u).base >= 2 /\ u.stack[Len(u.stack)] = u.stack[Len(u.stack) - 1]
      THEN [u EXCEPT !.stack = Front(@)] ELSE Stop(u)

\* UnreachableOpVisitor, with the mutant that forgets that an if opens a structure.
SkipOpenNot(e, kind) == IF kind = "ifThen" THEN e ELSE [e EXCEPT !.skipped = @ + 1]
SkipOpen(e, kind) == [e EXCEPT !.skipped = @ + 1]
SkipElse(e) == IF e.skipped = 0 THEN EmitElse(e) ELSE e
SkipEnd(e) == IF e.skipped = 0 THEN EmitEnd(e) ELSE [e EXCEPT !.skipped = @ - 1]
-----------------------------------------------------------------------------
WasmInit ==
  /\ \E ret \in Results :
       /\ valid = PushControl([ok |-> TRUE, ctl |-> <<>>, stack |-> <<>>, popped |-> AnyType, ret |-> ret],
                              "function", ret, ret)
       /\ emit = EmitControl([ok |-> TRUE, ctl |-> <<>>, stack |-> <<>>, targets |-> <<>>, skipped |-> 0, ret |-> ret],
                             "function", ret, ret)
  /\ word \in [op : {NoType}, left : {0}, right : {0}]
             \cup [op : {"rotl", "rotr", "shl", "shr_s", "div_s", "rem_s"}, left : 0..2^WordBits - 1, right : {0}]

\* One operator: what the validator makes of it, what the emitter does, and what it does
\* when the operator cannot be reached.  The emitter stops at the end of the function.
Reads(v, e, skipped) ==
  /\ word.op = NoType
  /\ valid.ok /\ Len(valid.ctl) <= MaxNesting /\ Len(valid.stack) <= MaxOperands
  /\ valid' = IF v.ok THEN [v EXCEPT !.popped = AnyType] ELSE Stop(valid)
  /\ emit' = IF ~v.ok \/ emit.ctl = <<>> THEN emit ELSE IF Top(emit).live THEN e ELSE skipped
  /\ UNCHANGED word

\* What the operators without control flow take and leave: constants, conversions and unary
\* operators, comparisons and binary operators
NumericOps ==
  UNION {{<<<<>>, <<in>>>>, <<<<in>>, <<out>>>>, <<<<in, in>>, <<out>>>>} : in \in WasmTypes, out \in WasmTypes}

\* get, set and tee of a local, get and set of a global
VariableOps == UNION {{<<<<>>, <<type>>>>, <<<<type>>, <<>>>>, <<<<type>>, <<type>>>>} : type \in WasmTypes}

MemoryOps == UNION {{<<<<"i32">>, <<type>>>>, <<<<"i32", type>>, <<>>>>} : type \in WasmTypes}

\* call, and call_indirect, which takes the index of the function as well
CallOps ==
  UNION {{<<function.parameters, Typed(function.ret)>>, <<function.parameters \o <<"i32">>, Typed(function.ret)>>} :
           function \in WasmFunctions}

EmitPlain(e, op) == Push(EmitPopAll(e, op[1]), op[2])
ReadPlain(op) == Reads(Push(PopAll(valid, op[1]), op[2]), EmitPlain(emit, op), emit)
ReadNumeric == \E op \in NumericOps : ReadPlain(op)
ReadVariable == \E op \in VariableOps : ReadPlain(op)
ReadMemory == \E op \in MemoryOps : ReadPlain(op)
ReadCall == \E op \in CallOps : ReadPlain(op)

BlockOperands(kind) == IF kind = "ifThen" THEN <<"i32">> ELSE <<>>
BlockArg(kind, result) == IF kind = "loop" THEN NoType ELSE result

EmitBlock(e, kind, result) ==
  EmitControl(EmitPopAll(e, BlockOperands(kind)), kind, BlockArg(kind, result), result)

ReadBlock(kind, result) ==
  Reads(PushControl(PopAll(valid, BlockOperands(kind)), kind, BlockArg(kind, result), result),
        EmitBlock(emit, kind, result), SkipOpen(emit, kind))

ReadElse ==
  Reads(IF valid.ctl = <<>> THEN Stop(valid) ELSE PopControl(PopAll(valid, Typed(Top(valid).res)), TRUE),
        EmitElse(emit), SkipElse(emit))

ReadEnd ==
  Reads(IF valid.ctl = <<>> THEN Stop(valid) ELSE PopControl(PopAll(valid, Typed(Top(valid).res)), FALSE),
        EmitEnd(emit), SkipEnd(emit))

ReadReturn ==
  Reads(EnterUnreachable(PopAll(valid, Typed(valid.ret))),
        EnterUnreachable(EmitPopAll(emit, Typed(emit.ret))), emit)

ReadUnreachable == Reads(EnterUnreachable(valid), EnterUnreachable(emit), emit)
ReadDrop == Reads(PopOperand(valid), EmitDrop(emit), emit)
ReadSelect == Reads(ValidateSelect(valid), EmitSelect(emit), emit)

ReadBranch(depth) ==
  \/ Reads(ValidateBranch(valid, depth), EmitBranch(emit, depth), emit)
  \/ Reads(ValidateBranchIf(valid, depth), EmitBranchIf(emit, depth), emit)
  \/ \E depths \in {<<>>, <<0>>, <<1>>} :
       Reads(ValidateBranchTable(valid, depths, depth), EmitBranchTable(emit, depths, depth), emit)

\* Another pair of operands of an integer operator.
NextWord ==
  /\ word.op # NoType /\ word.right < 2^WordBits - 1
  /\ word' = [word EXCEPT !.right = @ + 1]
  /\ UNCHANGED <<valid, emit>>

WasmNext ==
  \/ ReadNumeric \/ ReadVariable \/ ReadMemory \/ ReadCall
  \/ \E kind \in {"block", "loop", "ifThen"}, result \in Results : ReadBlock(kind, result)
  \/ ReadElse \/ ReadEnd \/ ReadReturn \/ ReadUnreachable \/ ReadDrop \/ ReadSelect
  \/ \E depth \in 0..MaxNesting : ReadBranch(depth)
  \/ NextWord

WasmSpec == WasmInit /\ [][WasmNext]_wasmVars
-----------------------------------------------------------------------------
(* Integer operators, from LLVM's, which leave shifts by the width or more *)
(* and quotients that do not fit undefined.                                *)

\* Outside the words.
Undefined == 2^(WordBits + 1)
Trap == 2^(WordBits + 2)
Signed(n) == IF n >= 2^(WordBits - 1) THEN n - 2^WordBits ELSE n
Wrapped(n) == n % 2^WordBits
Magnitude(n) == IF n < 0 THEN -n ELSE n
Quotient(l, r) == LET q == Magnitude(l) \div Magnitude(r) IN IF (l < 0) = (r < 0) THEN q ELSE -q

ShiftMaskUnmasked(count) == count

ShiftMask(count) == count % WordBits
CreateShl(n, count) == IF count >= WordBits THEN Undefined ELSE Wrapped(n * 2^count)
CreateLShr(n, count) == IF count >= WordBits THEN Undefined ELSE n \div 2^count
CreateAShr(n, count) == IF count >= WordBits THEN Undefined ELSE Wrapped(Signed(n) \div 2^count)

EmitRotl(l, r) == CreateShl(l, ShiftMask(r)) | CreateLShr(l, ShiftMask(Wrapped(WordBits - r)))
EmitRotr(l, r) == CreateShl(l, ShiftMask(Wrapped(WordBits - r))) | CreateLShr(l, ShiftMask(r))

Overflows(l, r) == Signed(l) = -2^(WordBits - 1) /\ Signed(r) = -1
EmitDivS(l, r) == IF r = 0 \/ Overflows(l, r) THEN Trap ELSE Wrapped(Quotient(Signed(l), Signed(r)))
EmitSRem(l, r) ==
  IF r = 0 THEN Trap ELSE IF Overflows(l, r) THEN 0
  ELSE Wrapped(Signed(l) - Signed(r) * Quotient(Signed(l), Signed(r)))

Rotated(l, r) == LET k == r % WordBits IN Wrapped(l * 2^k) + (l \div 2^(WordBits - k))

\* The word an operator leaves is the one its definition names: rotations lose no bit
\* whatever the count, shifts take the count modulo the width, and the one remainder whose
\* quotient does not fit is zero.
WordExact ==
  LET l == word.left r == word.right k == word.right % WordBits
  IN  CASE word.op = NoType -> TRUE
        [] word.op = "rotl" -> EmitRotl(l, r) = Rotated(l, r)
        [] word.op = "rotr" -> EmitRotr(l, r) = Rotated(l, WordBits - k)
        [] word.op = "shl" -> CreateShl(l, ShiftMask(r)) = Wrapped(l * 2^k)
        [] word.op = "shr_s" -> CreateAShr(l, ShiftMask(r)) = Wrapped(Signed(l) \div 2^k)
        [] word.op = "div_s" -> \/ EmitDivS(l, r) = Trap /\ (r = 0 \/ Overflows(l, r))
                                \/ \E q \in -2^(WordBits - 1)..2^(WordBits - 1) - 1 :
                                     EmitDivS(l, r) = Wrapped(q) /\ Magnitude(Signed(l) - q * Signed(r)) < Magnitude(Signed(r))
        [] word.op = "rem_s" -> \/ r = 0 /\ EmitSRem(l, r) = Trap
                                \/ r # 0 /\ (Signed(l) - Signed(EmitSRem(l, r))) % Magnitude(Signed(r)) = 0

\* Code that the validator accepts never makes the emitter fail, and the two agree on the
\* control structures that are open, on the operands and on what can be reached, however
\* much code is skipped; and every integer operator is computed without undefined behaviour.
CompiledAsValidated ==
  /\ valid.ok =>
       /\ emit.ok
       /\ emit.ctl = <<>> => emit.stack = Typed(emit.ret)
       /\ emit.ctl # <<>> =>
            /\ Len(valid.ctl) = Len(emit.ctl) + emit.skipped
            /\ \A i \in DOMAIN emit.ctl :
                 /\ valid.ctl[i].kind = emit.ctl[i].kind /\ valid.ctl[i].base = emit.ctl[i].base
                 /\ valid.ctl[i].res = emit.ctl[i].res /\ valid.ctl[i].live = emit.ctl[i].live
            /\ emit.stack = IF Top(emit).live THEN valid.stack ELSE SubSeq(valid.stack, 1, Top(emit).base)
  /\ WordExact

-----------------------------------------------------------------------------
(***************************************************************************)
(* How a contract's code is instrumented before it runs                    *)
(* (wasm_eosio_injection.hpp).  Two passes over every function body: the   *)
(* first replaces floating-point operators by calls of software routines   *)
(* and surrounds every call with the call-depth counter, the second puts   *)
(* the time checks in.  Every routine the first pass needs becomes an      *)
(* import placed before the contract's own, which renumbers the functions  *)
(* while the pass is still running: the calls the pass writes name their   *)
(* target by a provisional number that the second pass resolves.           *)
(*                                                                         *)
(* Instructions are records [op, to]; function numbers count from 0, the   *)
(* imports first, as in the code.                                          *)
(***************************************************************************)

CONSTANTS InjModules,  \* the modules: number of imports and bodies, types, exports, start, table
          FloatOps,    \* float operators, each [op, routine, type, converts]
          MaxBody,     \* bound on the instructions of one body
          MaxPages     \* the page limit of a contract's memory

VARIABLES inj,         \* the module being instrumented and the injectors' static fields
          source       \* the bodies as the contract's author wrote them

injVars == <<inj, source>>

NoStart == -1
NoGlobal == -1

Ins(op, to) == [op |-> op, to |-> to]

(* A function by what it is: an import, an injected routine or a body *)
Env(k) == <<"env", k>>
Injected(name) == <<"eosio_injection", name>>
Body(k) == <<"body", k>>

(* injector_utils::init, the two injectors' init, max_memory_injection      *)
Loaded(w) ==
    [imports |-> [k \in 1..w.imports |-> [name |-> Env(k - 1), type |-> w.types[1]]],
     defs |-> w.defs, types |-> w.types,
     exports |-> w.exports, start |-> w.start, table |-> w.table,
     pages |-> IF w.pages > MaxPages THEN MaxPages ELSE w.pages,
     globals |-> w.globals, depth |-> NoGlobal,
     registered |-> <<>>, mapping |-> <<>>, checktime |-> 0,
     code |-> [f \in 1..w.defs |-> <<>>], phase |-> "import", fd |-> 1, out |-> <<>>]

Shift(S) == [k \in DOMAIN S |-> S[k] + 1]

Registered(m, name) == \E k \in DOMAIN m.registered : m.registered[k].name = name

(* get_next_indices: the provisional number lies above every function       *)
NextIndex(m) == Len(m.imports) + m.defs + Len(m.registered)

AddTypeSlot(m, type) ==
    IF \E k \in DOMAIN m.types : m.types[k] = type THEN m
    ELSE [m EXCEPT !.types = Append(@, type)]

(* add_import: the routine goes behind the ones added before it and ahead   *)
(* of the contract's own imports; exports, start and table move along       *)
AddImport(m, name, type) ==
    IF Len(m.imports) = 0 \/ ~Registered(m, name)
    THEN LET t == AddTypeSlot(m, type)
             index == NextIndex(m)
             actual == Len(m.registered)
         IN [t EXCEPT !.registered = Append(@, [name |-> name, index |-> index]),
                      !.mapping = Append(@, [index |-> index, actual |-> actual]),
                      !.imports = InsertAt(@, actual + 1, [name |-> Injected(name), type |-> type]),
                      !.exports = Shift(@),
                      !.start = IF @ = NoStart THEN @ ELSE @ + 1,
                      !.table = Shift(@)]
    ELSE m

IndexOf(m, name) == m.registered[CHOOSE k \in DOMAIN m.registered : m.registered[k].name = name].index
Actual(m, index) == m.mapping[CHOOSE k \in DOMAIN m.mapping : m.mapping[k].index = index].actual
Mapped(m, index) == \E k \in DOMAIN m.mapping : m.mapping[k].index = index

(* call_depth_check_and_insert_checktime                                    *)
GuardedCall(m, ins) ==
    LET g == IF m.depth = NoGlobal THEN m.globals ELSE m.depth
        n == AddImport([m EXCEPT !.depth = g,
                                 !.globals = IF m.depth = NoGlobal THEN @ + 1 ELSE @],
                       "call_depth_assert", "none")
    IN [n EXCEPT !.out = @ \o
          <<Ins("get_global", g), Ins("eqz", 0), Ins("if", 0),
            Ins("call", IndexOf(n, "call_depth_assert")), Ins("else", 0),
            Ins("const", -1), Ins("get_global", g), Ins("add", 0), Ins("set_global", g),
            Ins("end", 0), ins,
            Ins("get_global", g), Ins("const", 1), Ins("add", 0), Ins("set_global", g),
            Ins("call", n.checktime)>>]

(* inject_which_op *)
InjectWhichOp(f) == f.routine

(* The float injectors *)
FloatCall(m, f) ==
    LET n == AddImport(m, InjectWhichOp(f), f.type)
    IN [n EXCEPT !.out = Append(@, Ins("call", IndexOf(n, InjectWhichOp(f))))]

(* The conversions from integers have injectors too, but pre_op_injectors   *)
(* declares them under names the decoder does not look up                   *)
(* (f32_convert_s_i32, not f32_convert_s_i32_t): they pass unchanged.       *)
ConvertCall(m, f) == [m EXCEPT !.out = Append(@, Ins("float", f))]

(* pre_op_injectors on one instruction                                      *)
PreOp(m, ins) ==
    CASE ins.op \in {"call", "call_indirect"} -> GuardedCall(m, ins)
      [] ins.op = "float" /\ ~ins.to.converts -> FloatCall(m, ins.to)
      [] ins.op = "float" /\ ins.to.converts -> ConvertCall(m, ins.to)
      [] OTHER -> [m EXCEPT !.out = Append(@, ins)]

(* fix_call_index                                                           *)
FixCallAll(m, ins) == [ins EXCEPT !.to = @ + Len(m.registered)]
FixCall(m, ins) ==
    [ins EXCEPT !.to = IF Mapped(m, @) THEN Actual(m, @) ELSE @ + Len(m.registered)]

ChecktimeCall(m) == Ins("call", Actual(m, m.checktime))

(* post_op_injectors on one instruction: a loop is followed by a time check *)
PostOp(m, ins) ==
    CASE ins.op = "call" -> <<FixCall(m, ins)>>
      [] ins.op = "loop" -> <<ins, ChecktimeCall(m)>>
      [] OTHER -> <<ins>>

InjInit ==
    \E w \in InjModules :
       /\ inj = Loaded(w)
       /\ source = [module |-> w, code |-> [f \in 1..w.defs |-> <<>>]]

(* inject(): the first import *)
ImportChecktime ==
    /\ inj.phase = "import"
    /\ \E m \in {AddImport(inj, "checktime", "none")} :
          inj' = [m EXCEPT !.checktime = IndexOf(m, "checktime"), !.phase = "pre"]
    /\ UNCHANGED source

(* The instructions a validated body may hold *)
Written(w) ==
    {Ins("call", i) : i \in 0..(w.imports + w.defs - 1)}
    \cup {Ins("float", f) : f \in FloatOps}
    \cup {Ins(op, 0) : op \in {"call_indirect", "loop", "nop"}}

(* One turn of the first decoding loop; the body is read as it comes *)
PreDecode ==
    /\ inj.phase = "pre"
    /\ inj.fd <= inj.defs
    /\ Len(source.code[inj.fd]) < MaxBody
    /\ \E ins \in Written(source.module) :
          /\ source' = [source EXCEPT !.code[inj.fd] = Append(@, ins)]
          /\ inj' = PreOp(inj, ins)

PreBodyDone ==
    /\ inj.phase = "pre"
    /\ inj.fd <= inj.defs
    /\ inj' = [inj EXCEPT !.code[inj.fd] = inj.out, !.out = <<>>, !.fd = @ + 1]
    /\ UNCHANGED source

PassDone ==
    /\ inj.phase = "pre"
    /\ inj.fd > inj.defs
    /\ inj' = [inj EXCEPT !.phase = "post", !.fd = 1]
    /\ UNCHANGED source

(* The second pass over one body: it adds no import, so its turns are one   *)
(* step; a time check opens the body                                        *)
PostDecode ==
    /\ inj.phase = "post"
    /\ inj.fd <= inj.defs
    /\ \E body \in {inj.code[inj.fd]} :
          inj' = [inj EXCEPT !.code[inj.fd] =
                               <<ChecktimeCall(inj)>>
                                 \o FlattenSeq([k \in DOMAIN body |-> PostOp(inj, body[k])]),
                             !.fd = @ + 1,
                             !.phase = IF inj.fd = inj.defs THEN "done" ELSE @]
    /\ UNCHANGED source

InjNext ==
    \/ ImportChecktime
    \/ PreDecode
    \/ PreBodyDone
    \/ PassDone
    \/ PostDecode

InjSpec == InjInit /\ [][InjNext]_injVars

----------------------------------------------------------------------------
(* The function a number names before and after instrumentation *)
Before(i) ==
    IF i < source.module.imports THEN Env(i) ELSE Body(i - source.module.imports)
After(i) ==
    IF i < Len(inj.imports) THEN inj.imports[i + 1].name ELSE Body(i - Len(inj.imports))

DepthOf == source.module.globals

(* A body as it must read after instrumentation, calls naming functions *)
Intended(ins) ==
    CASE ins.op \in {"call", "call_indirect"} ->
           <<Ins("get_global", DepthOf), Ins("eqz", 0), Ins("if", 0),
             Ins("call", Injected("call_depth_assert")), Ins("else", 0), Ins("const", -1),
             Ins("get_global", DepthOf), Ins("add", 0), Ins("set_global", DepthOf), Ins("end", 0),
             IF ins.op = "call" THEN Ins("call", Before(ins.to)) ELSE ins,
             Ins("get_global", DepthOf), Ins("const", 1), Ins("add", 0),
             Ins("set_global", DepthOf), Ins("call", Injected("checktime"))>>
      [] ins.op = "float" /\ ~ins.to.converts -> <<Ins("call", Injected(ins.to.op))>>
      [] ins.op = "loop" -> <<ins, Ins("call", Injected("checktime"))>>
      [] OTHER -> <<ins>>

Resolved(ins) == IF ins.op = "call" THEN Ins("call", After(ins.to)) ELSE ins

(* The signature an injected routine is declared with *)
Signature(name) ==
    IF name \in {Injected("checktime"), Injected("call_depth_assert")} THEN "none"
    ELSE (CHOOSE f \in FloatOps : Injected(f.op) = name).type

(* After instrumentation every call - direct, exported, through the table,  *)
(* the start function - reaches the function the author named, every        *)
(* injected call reaches its routine with the routine's signature, every    *)
(* call is counted in and out and every body, call and loop checks the      *)
(* time, although imports were still being added while calls were written   *)
(* (add_import, fix_call_index).                                            *)
InjectionSound ==
    inj.phase = "done" =>
       /\ \A f \in 1..inj.defs :
             [k \in DOMAIN inj.code[f] |-> Resolved(inj.code[f][k])]
               = <<Ins("call", Injected("checktime"))>>
                   \o FlattenSeq([k \in DOMAIN source.code[f] |-> Intended(source.code[f][k])])
       /\ \A k \in DOMAIN inj.exports : After(inj.exports[k]) = Before(source.module.exports[k])
       /\ \A k \in DOMAIN inj.table : After(inj.table[k]) = Before(source.module.table[k])
       /\ inj.start # NoStart => After(inj.start) = Before(source.module.start)
       /\ \A k \in 1..(Len(inj.imports) - source.module.imports) :
             /\ inj.imports[k].type = Signature(inj.imports[k].name)
             /\ \E t \in DOMAIN inj.types : inj.types[t] = inj.imports[k].type
       /\ inj.pages <= MaxPages

-----------------------------------------------------------------------------
(***************************************************************************)
(* From the bytes of a contract to a linked instance: reading the sections *)
(* of a WebAssembly binary (WASMSerialization.cpp), the definitions'       *)
(* validation (Validate.cpp), the chain's own limits                       *)
(* (wasm_eosio_validation.cpp), linking and instantiation                  *)
(* (Linker.cpp, ModuleInstance.cpp, Table.cpp).  Bodies are WasmCode's     *)
(* subject; here a body is its locals and whether its code is sound.       *)
(*                                                                         *)
(* A binary is a sequence of sections [id, content]; indices count from 0. *)
(***************************************************************************)

CONSTANTS Contents,       \* for each section id, the contents tried
          Intrinsics,     \* the host functions, as [name, type]
          MaxElements,    \* maximum_section_elements
          MaxLocals,      \* maximum_func_local_bytes, in locals
          MaxTable,       \* maximum_table_elements
          MaxMemory,      \* maximum_linear_memory, in pages
          MaxData,        \* maximum_linear_memory_init, in cells
          MaxGlobals,     \* maximum_mutable_globals, in globals
          MaxNested       \* the nesting a producer accepts

VARIABLES mod,            \* the module read so far
          stage           \* reading, valid, accepted, produced (accepted by a producer), rejected

wmVars == <<mod, stage>>

NoFunction == -1
Unbounded == -1

Empty ==
    [types |-> <<>>, imports |-> <<>>, others |-> <<>>, defs |-> <<>>, tables |-> <<>>,
     memories |-> <<>>, globals |-> <<>>, exports |-> <<>>, start |-> NoFunction,
     elems |-> <<>>, datas |-> <<>>, last |-> 0]

Bad == [Empty EXCEPT !.last = -1]
Section(id, content) == [id |-> id, content |-> content]
Elements(s) == {s[k] : k \in DOMAIN s}
Functions(m) == Len(m.imports) + Len(m.defs)
Tables(m) == Len(m.tables) + Len(SelectSeq(m.others, LAMBDA i : i.kind = "table"))
Memories(m) == Len(m.memories) + Len(SelectSeq(m.others, LAMBDA i : i.kind = "memory"))

(* The type number of a function *)
TypeOf(m, f) ==
    IF f < Len(m.imports) THEN m.imports[f + 1].type ELSE m.defs[f - Len(m.imports) + 1].type

----------------------------------------------------------------------------
(* Reading *)

(* serializeImportSection: all four limits test the function imports *)
ReadImports(m, content) ==
    LET fs == SelectSeq(content, LAMBDA i : i.kind = "function")
    IN IF \/ \E i \in Elements(fs) : i.type >= Len(m.types)
          \/ Len(fs) >= MaxElements
       THEN Bad
       ELSE [m EXCEPT !.imports = @ \o fs,
                      !.others = @ \o SelectSeq(content, LAMBDA i : i.kind # "function")]

(* serializeFunctionSection: the declarations, whose bodies come later *)
ReadDeclarations(m, content) ==
    IF Len(content) >= MaxElements \/ \E t \in Elements(content) : t >= Len(m.types) THEN Bad
    ELSE [m EXCEPT !.defs = [k \in DOMAIN content |->
                               [type |-> content[k], locals |-> <<>>, ops |-> <<>>, coded |-> FALSE]]]

(* LocalSet: a run of locals of one type; the reader expands the runs *)
Expand(sets) == FoldLeft(LAMBDA a, r : a \o [k \in 1..r.num |-> r.type], <<>>, sets)
LocalSum(sets) == FoldLeft(LAMBDA a, r : a + r.num, 0, sets)

(* serializeFunctionBody (input) for every declared function *)
ReadBodies(m, content) ==
    IF \/ Len(content) # Len(m.defs)
       \/ \E b \in Elements(content) : LocalSum(b.sets) > MaxLocals \/ ~b.sound
    THEN Bad
    ELSE [m EXCEPT !.defs = [k \in DOMAIN content |->
                               [@[k] EXCEPT !.locals = Expand(content[k].sets),
                                            !.ops = content[k].ops, !.coded = TRUE]]]

ReadContent(m, s) ==
    CASE s.id = 0 -> m
      [] s.id = 1 -> [m EXCEPT !.types = s.content]
      [] s.id = 2 -> ReadImports(m, s.content)
      [] s.id = 3 -> ReadDeclarations(m, s.content)
      [] s.id = 4 -> [m EXCEPT !.tables = s.content]
      [] s.id = 5 -> [m EXCEPT !.memories = s.content]
      [] s.id = 6 -> [m EXCEPT !.globals = s.content]
      [] s.id = 7 -> [m EXCEPT !.exports = s.content]
      [] s.id = 8 -> [m EXCEPT !.start = s.content]
      [] s.id = 9 -> [m EXCEPT !.elems = s.content]
      [] s.id = 10 -> ReadBodies(m, s.content)
      [] s.id = 11 -> [m EXCEPT !.datas = s.content]
      [] OTHER -> Bad

(* serializeModule (input), one section: known sections come in order *)
ReadSection(m, s) ==
    IF m = Bad \/ (s.id # 0 /\ s.id <= m.last) THEN Bad
    ELSE LET r == ReadContent(m, s)
         IN IF r = Bad THEN Bad ELSE [r EXCEPT !.last = IF s.id = 0 THEN @ ELSE s.id]

----------------------------------------------------------------------------
(* Writing *)

(* serializeFunctionBody (output): the runs of equal types *)
RunsTail(locals) ==
    FoldLeft(LAMBDA a, t :
               IF a # <<>> /\ Last(a).type = t THEN a ELSE Append(a, [num |-> 1, type |-> t]), <<>>, locals)
Runs(locals) ==
    FoldLeft(LAMBDA a, t :
               IF a # <<>> /\ Last(a).type = t
               THEN [a EXCEPT ![Len(a)].num = @ + 1]
               ELSE Append(a, [num |-> 1, type |-> t]), <<>>, locals)

WriteBody(d) == [sets |-> Runs(d.locals), ops |-> d.ops, sound |-> d.coded]

(* serializeModule (output): empty sections are left out *)
WriteModule(m) ==
    LET part(id, content) == IF content = <<>> THEN <<>> ELSE <<Section(id, content)>>
    IN part(1, m.types)
       \o part(2, m.imports \o m.others)
       \o part(3, [k \in DOMAIN m.defs |-> m.defs[k].type])
       \o part(4, m.tables) \o part(5, m.memories) \o part(6, m.globals) \o part(7, m.exports)
       \o (IF m.start = NoFunction THEN <<>> ELSE <<Section(8, m.start)>>)
       \o part(9, m.elems)
       \o part(10, [k \in DOMAIN m.defs |-> WriteBody(m.defs[k])])
       \o part(11, m.datas)

ReadModule(file) == FoldLeft(ReadSection, Empty, file)

----------------------------------------------------------------------------
(* Validation *)

(* validate(SizeConstraints) *)
SizesOk(size, limit) ==
    LET max == IF size.max = Unbounded THEN limit ELSE size.max
    IN size.min <= max /\ max <= limit

(* validateInitializer: a constant, or an imported immutable global *)
GlobalImports(m) == SelectSeq(m.others, LAMBDA i : i.kind = "global")
InitializerOk(m, init, type) ==
    IF init.op = "const" THEN init.type = type
    ELSE /\ init.index < Len(GlobalImports(m))
         /\ ~GlobalImports(m)[init.index + 1].mutable
         /\ GlobalImports(m)[init.index + 1].type = type

(* validateGlobalIndex for an export: in range and immutable *)
GlobalExportOk(m, index) ==
    LET n == Len(GlobalImports(m))
    IN /\ index < n + Len(m.globals)
       /\ ~(IF index < n THEN GlobalImports(m)[index + 1].mutable ELSE m.globals[index - n + 1].mutable)

ExportOk(m, e) ==
    CASE e.kind = "function" -> e.index < Functions(m)
      [] e.kind = "table" -> e.index < Tables(m)
      [] e.kind = "memory" -> e.index < Memories(m)
      [] e.kind = "global" -> GlobalExportOk(m, e.index)

ElementSegmentOkUnchecked(m, s) == s.table < Tables(m) /\ InitializerOk(m, s.base, "i32")
ElementSegmentOk(m, s) ==
    /\ s.table < Tables(m)
    /\ InitializerOk(m, s.base, "i32")
    /\ \A f \in Elements(s.indices) : f < Functions(m)

DataSegmentOk(m, s) == s.memory < Memories(m) /\ InitializerOk(m, s.base, "i32")

StartOk(m) ==
    m.start # NoFunction =>
       /\ m.start < Functions(m)
       /\ m.types[TypeOf(m, m.start) + 1] = "none"

(* validateDefinitions *)
Definitions(m) ==
    /\ \A i \in Elements(m.imports) : i.type < Len(m.types)
    /\ \A i \in Elements(m.others) :
          CASE i.kind = "table" -> SizesOk(i.size, 2 * MaxTable)
            [] i.kind = "memory" -> SizesOk(i.size, 2 * MaxMemory)
            [] i.kind = "global" -> ~i.mutable
    /\ \A d \in Elements(m.defs) : d.type < Len(m.types)
    /\ \A g \in Elements(m.globals) : InitializerOk(m, g.init, g.type)
    /\ \A t \in Elements(m.tables) : SizesOk(t, 2 * MaxTable)
    /\ Tables(m) <= 1
    /\ \A t \in Elements(m.memories) : SizesOk(t, 2 * MaxMemory)
    /\ Memories(m) <= 1
    /\ \A e \in Elements(m.exports) : ExportOk(m, e)
    /\ \A j, k \in DOMAIN m.exports : j # k => m.exports[j].name # m.exports[k].name
    /\ StartOk(m)
    /\ \A s \in Elements(m.datas) : DataSegmentOk(m, s)
    /\ \A s \in Elements(m.elems) : ElementSegmentOk(m, s)

(* The chain's limits: wasm_binary_validation::validate *)
Constraints(m) ==
    /\ m.memories # <<>> => m.memories[1].min <= MaxMemory
    /\ \A s \in Elements(m.datas) : s.base.op = "const" /\ s.base.value + s.cells <= MaxData
    /\ m.tables # <<>> => m.tables[1].min <= MaxTable
    /\ Len(SelectSeq(m.globals, LAMBDA g : g.mutable)) <= MaxGlobals
    /\ \A d \in Elements(m.defs) : Len(d.locals) <= MaxLocals
    /\ \E e \in Elements(m.exports) :
          /\ e.kind = "function" /\ e.name = "apply"
          /\ m.types[TypeOf(m, e.index) + 1] = "apply"

(* nested_validator: one counter runs through all bodies; else counts as an *)
(* opening, and so does an end met at zero                                  *)
Nested(a, op) ==
    LET d == IF op = "end" /\ a.depth > 0 THEN a.depth - 1
             ELSE IF op \in {"block", "else", "end"} THEN a.depth + 1 ELSE a.depth
    IN [depth |-> d, ok |-> a.ok /\ d < MaxNested]

(* op_constrainers over every body: loads and stores at large offsets are   *)
(* refused, and on a producer deep nesting                                  *)
Operators(m, producing) ==
    LET all == FlattenSeq([k \in DOMAIN m.defs |-> m.defs[k].ops])
    IN /\ "far" \notin Elements(all)
       /\ producing => FoldLeft(Nested, [depth |-> 0, ok |-> TRUE], all).ok

(* linkModule with root_resolver: an import that is no host function throws *)
Links(m) ==
    /\ m.others = <<>>
    /\ \A i \in Elements(m.imports) : [name |-> i.name, type |-> m.types[i.type + 1]] \in Intrinsics

----------------------------------------------------------------------------
(* Instantiation: "fault" stands for an index out of range, a failed        *)
(* errorUnless or assertion; an exception the caller handles is "thrown"    *)

(* growTable: beyond the maximum it fails *)
GrowTable(size, by, max) == IF max # Unbounded /\ size + by > max THEN -1 ELSE size + by

(* createTable *)
TableSize(m) ==
    IF m.tables = <<>> THEN 0 ELSE GrowTable(0, m.tables[1].min, m.tables[1].max)

(* evaluateInitializer *)
Evaluated(m, init) == IF init.op = "const" THEN init.type ELSE "fault"

SegmentFits(m, s) == s.base.value <= TableSize(m) /\ TableSize(m) - s.base.value >= Len(s.indices)

(* parse_initial_memory: the image copied into memory before every run *)
ImageFits(m, s) ==
    /\ s.base.value < m.memories[1].min
    /\ s.base.value + s.cells <= m.memories[1].min

(* setTableElement stores at base + index; a table has MaxTable slots *)
StoresInRange(m, s) ==
    \A k \in DOMAIN s.indices :
       /\ s.base.value + (k - 1) < TableSize(m)
       /\ s.base.value + (k - 1) < MaxTable
       /\ s.indices[k] < Functions(m)

(* instantiateModule, in the order of its checks *)
Instantiate(m) ==
    CASE \E d \in Elements(m.defs) : ~d.coded -> "thrown"
      [] m.others # <<>> -> "fault"
      [] Len(m.tables) > 1 \/ Len(m.memories) > 1 -> "fault"
      [] TableSize(m) = -1 -> "thrown"
      [] \E s \in Elements(m.elems) : s.table >= Len(m.tables) -> "fault"
      [] \E s \in Elements(m.elems) : Evaluated(m, s.base) # "i32" -> "fault"
      [] \E s \in Elements(m.elems) : ~SegmentFits(m, s) -> "thrown"
      [] \E g \in Elements(m.globals) : Evaluated(m, g.init) # g.type -> "fault"
      [] \E e \in Elements(m.exports) : ~ExportOk(m, e) -> "fault"
      [] \E s \in Elements(m.elems) : ~StoresInRange(m, s) -> "fault"
      [] ~StartOk(m) -> "fault"
      [] \E s \in Elements(m.datas) : s.base.op # "const" \/ m.memories = <<>> -> "fault"
      [] \E s \in Elements(m.datas) : ~ImageFits(m, s) -> "thrown"
      [] OTHER -> "ready"

----------------------------------------------------------------------------
WmInit == mod = Empty /\ stage = "reading"

(* The next section of the binary *)
ReadNext ==
    /\ stage = "reading"
    /\ \E id \in DOMAIN Contents : \E c \in Contents[id] :
       \E r \in {ReadSection(mod, Section(id, c))} :
          IF r = Bad THEN stage' = "rejected" /\ mod' = Bad
          ELSE mod' = r /\ UNCHANGED stage

(* The binary ends; serialize(InputStream, Module) validates the definitions *)
Validate ==
    /\ stage = "reading"
    /\ stage' = IF Definitions(mod) THEN "valid" ELSE "rejected"
    /\ mod' = IF Definitions(mod) THEN mod ELSE Bad

(* wasm_interface::validate: the chain's limits, then a trial link *)
AcceptCode ==
    /\ stage = "valid"
    /\ \E producing \in BOOLEAN :
       \E ok \in {Constraints(mod) /\ Operators(mod, producing) /\ Links(mod)} :
          /\ stage' = IF ok THEN IF producing THEN "produced" ELSE "accepted" ELSE "rejected"
          /\ mod' = IF ok THEN mod ELSE Bad

WmNext == ReadNext \/ Validate \/ AcceptCode

WmSpec == WmInit /\ [][WmNext]_wmVars

----------------------------------------------------------------------------
(* The blocks open at the deepest point of a body *)
Deepest(ops) ==
    FoldLeft(LAMBDA a, op : LET d == IF op = "block" THEN a.depth + 1
                                     ELSE IF op = "end" THEN a.depth - 1 ELSE a.depth
                            IN [depth |-> d, max |-> IF d > a.max THEN d ELSE a.max],
             [depth |-> 0, max |-> 0], ops).max

(* A binary that setcode accepts can be instantiated without an index out   *)
(* of range, a broken assertion or a type confusion in instantiateModule:   *)
(* what is unsound was refused before, what cannot fit throws.  A producer  *)
(* never accepts a body nested to the limit, although its counter is kept   *)
(* across bodies (nested_validator).  And the writer and the reader agree:  *)
(* the binary written from the module reads back as the same module         *)
(* (get_instantiated_module writes the module it instrumented and the       *)
(* runtime reads it again), unless a declared function has no body.         *)
InstanceSound ==
    /\ stage \in {"accepted", "produced"} => Instantiate(mod) # "fault"
    /\ stage = "produced" => \A d \in Elements(mod.defs) : Deepest(d.ops) < MaxNested
    /\ (stage = "valid" /\ \A d \in Elements(mod.defs) : d.coded) =>
          LET again == ReadModule(WriteModule(mod))
          IN [again EXCEPT !.last = 0] = [mod EXCEPT !.last = 0]

-----------------------------------------------------------------------------
(***************************************************************************)
(* The lexer of WebAssembly text: regular expressions parsed and turned    *)
(* into a nondeterministic automaton, that into a deterministic one whose  *)
(* characters are grouped into classes, and the loop that cuts a text into *)
(* tokens with it and notes where lines start.                             *)
(*                                                                         *)
(* A regular expression is a sequence of symbols: operators, or <<"set",   *)
(* s>> for a set of characters (a literal, a class or a bracketed set).    *)
(* A state is a number; a negative one is terminal, it names a token and   *)
(* whether the character that led to it is consumed.  Offsets count from   *)
(* 1; the text is followed by Nul.  Texts end in a new line.               *)
(***************************************************************************)

CONSTANTS
    LexTexts,       \* the texts
    RegexpTokens,   \* regexpTokenPairs: [type, regexp]
    LiteralTokens   \* literalTokenTuples: [type, literal, separator]

VARIABLES
    machine,        \* StaticData::nfaMachine and what it is built from; the parsed
                    \* expressions, nodes, are kept in all stages
    text, pos,      \* string and nextChar
    tokens,         \* the tokens: [type, begin, end]
    lineStarts,
    lexed           \* lex has returned

lexVars == <<machine, text, pos, tokens, lineStarts, lexed>>

Nul == "nul"
NewLine == "nl"
LexSeparators == {" ", NewLine, "=", "(", ")", ";", Nul}
RecoveryPoints == {" ", NewLine, "(", ")"}
LexChars == UNION {ToSet(t) : t \in LexTexts} \cup LexSeparators

TokenTypes == {p.type : p \in ToSet(RegexpTokens)} \cup {p.type : p \in ToSet(LiteralTokens)}
TokenIndex(type) == CHOOSE i \in 1..Len(RegexpTokens) + Len(LiteralTokens) :
    (RegexpTokens \o LiteralTokens)[i].type = type
TokenAt(i) == (RegexpTokens \o LiteralTokens)[i].type

-----------------------------------------------------------------------------
(* Regexp.cpp: the parser gives <<node, next symbol>>.                     *)
Symbol(re, i) == IF i > Len(re) THEN "end" ELSE re[i][1]

RECURSIVE ParseUnion(_, _), ParseUnionFrom(_, _), ParseSeq(_, _), ParseSeqFrom(_, _)
ParseGroup(re, i) ==
    IF Symbol(re, i) = "(" THEN LET u == ParseUnion(re, i + 1) IN <<u[1], u[2] + 1>>
    ELSE <<<<"lit", re[i][2]>>, i + 1>>
ParseQuantifier(re, i) ==
    LET g == ParseGroup(re, i)
    IN IF Symbol(re, g[2]) \in {"+", "*", "?"} THEN <<<<Symbol(re, g[2]), g[1]>>, g[2] + 1>> ELSE g
ParseSeqFrom(re, left) ==
    IF Symbol(re, left[2]) \in {")", "end", "|"} THEN left
    ELSE LET q == ParseQuantifier(re, left[2])
         IN ParseSeqFrom(re, <<<<"seq", left[1], q[1]>>, q[2]>>)
ParseSeq(re, i) == ParseSeqFrom(re, ParseQuantifier(re, i))
ParseUnionFrom(re, left) ==
    IF Symbol(re, left[2]) # "|" THEN left
    ELSE LET s == ParseSeq(re, left[2] + 1)
         IN ParseUnionFrom(re, <<<<"alt", left[1], s[1]>>, s[2]>>)
ParseUnion(re, i) == ParseUnionFrom(re, ParseSeq(re, i))
ParseRegexp(re) == ParseUnion(re, 1)[1]

-----------------------------------------------------------------------------
(* The builder: n states, edges <<from, character, to>>, epsilon edges.    *)
CreateBuilder == [n |-> 1, edges |-> {}, eps |-> {}]
AddState(b) == [b EXCEPT !.n = @ + 1]
NewState(b) == b.n
AddEdge(b, from, chars, to) == [b EXCEPT !.edges = @ \cup {<<from, c, to>> : c \in chars}]
AddEpsilonEdge(b, from, to) == [b EXCEPT !.eps = @ \cup {<<from, to>>}]

Terminal(i) == -2 * (i + 1)
Unmatched == Terminal(0)
DoesntConsume(t) == IF t % 2 = 0 THEN t - 1 ELSE t
Consumes(t) == t % 2 = 0
TerminalToken(t) == ((-t) \div 2) - 1

RECURSIVE CreateNFA(_, _, _, _)
CreateNFA(b, node, from, to) ==
    CASE node[1] = "lit" -> AddEdge(b, from, node[2], to)
      [] node[1] = "*" -> AddEpsilonEdge(CreateNFA(b, node[2], from, from), from, to)
      [] node[1] = "+" ->
            LET mid == NewState(b) once == CreateNFA(AddState(b), node[2], from, mid)
            IN AddEpsilonEdge(CreateNFA(once, node[2], mid, mid), mid, to)
      [] node[1] = "?" -> AddEpsilonEdge(CreateNFA(b, node[2], from, to), from, to)
      [] node[1] = "alt" -> CreateNFA(CreateNFA(b, node[2], from, to), node[3], from, to)
      [] node[1] = "seq" ->
            LET mid == NewState(b)
            IN CreateNFA(CreateNFA(AddState(b), node[2], from, mid), node[3], mid, to)

(* A state that accepts on seeing a separator, which it leaves.            *)
WithPeekState(b, final) == AddEdge(AddState(b), NewState(b), LexSeparators, DoesntConsume(final))

NonTerminalEdges(b, from, c) == {e[3] : e \in {x \in b.edges : x[1] = from /\ x[2] = c /\ x[3] >= 0}}

RECURSIVE AddLiteral(_, _, _, _)
AddLiteral(b, literal, from, final) ==
    LET c == literal[1]
        known == NonTerminalEdges(b, from, c)
    IN IF Len(literal) = 1 THEN AddEdge(b, from, {c}, final)
       ELSE IF known # {} THEN AddLiteral(b, Tail(literal), Min(known), final)
       ELSE AddLiteral(AddEdge(AddState(b), from, {c}, NewState(b)), Tail(literal), NewState(b), final)

AddRegexpToken(b, p, node) ==
    CreateNFA(WithPeekState(b, Terminal(TokenIndex(p.type))), node, 0, NewState(b))
AddLiteralToken(b, p) ==
    LET final == Terminal(TokenIndex(p.type))
    IN IF p.separator THEN AddLiteral(b, p.literal, 0, final)
       ELSE AddLiteral(WithPeekState(b, final), p.literal, 0, NewState(b))

(* One iteration of the loops over the tokens; a regular expression is     *)
(* parsed first.                                                           *)
ParseToken ==
    /\ machine.stage = "nfa"
    /\ machine.added = Len(machine.nodes) /\ machine.added < Len(RegexpTokens)
    /\ machine' = [machine EXCEPT !.nodes = Append(@, ParseRegexp(RegexpTokens[machine.added + 1].regexp))]
    /\ UNCHANGED <<text, pos, tokens, lineStarts, lexed>>

AddToken ==
    /\ machine.stage = "nfa"
    /\ \/ machine.added < Len(machine.nodes)
       \/ machine.added \in Len(RegexpTokens)..Len(RegexpTokens) + Len(LiteralTokens) - 1
    /\ LET k == machine.added + 1
           lit == k - Len(RegexpTokens)
       IN machine' = [machine EXCEPT !.added = k,
                          !.nfa = IF lit <= 0 THEN AddRegexpToken(@, RegexpTokens[k], machine.nodes[k])
                                  ELSE AddLiteralToken(@, LiteralTokens[lit])]
    /\ UNCHANGED <<text, pos, tokens, lineStarts, lexed>>

-----------------------------------------------------------------------------
(* convertToDFA: a deterministic state is a set of states, or {t} for a    *)
(* terminal t.  Two terminals in one set are a fatal error.  A step takes   *)
(* all pending states.                                                     *)

RECURSIVE EpsilonClosure(_, _)
EpsilonClosure(b, S) ==
    LET more == S \cup {e[2] : e \in {x \in b.eps : x[1] \in S}}
    IN IF more = S THEN S ELSE EpsilonClosure(b, more)

CurrentTerminal(closed) ==
    LET terminals == {s \in closed : s < 0}
    IN IF terminals = {} THEN DoesntConsume(Unmatched)
       ELSE DoesntConsume(CHOOSE t \in terminals : terminals = {t})

NextSet(b, closed, c) ==
    LET next == {e[3] : e \in {x \in b.edges : x[1] \in closed /\ x[2] = c}}
    IN IF next = {} THEN {CurrentTerminal(closed)} ELSE next
IsTerminal(S) == \E t \in S : S = {t} /\ t < 0

DfaRow(b, S) == LET closed == EpsilonClosure(b, S) IN [c \in LexChars |-> NextSet(b, closed, c)]

StartConversion ==
    /\ machine.stage = "nfa"
    /\ machine.added = Len(RegexpTokens) + Len(LiteralTokens)
    /\ machine' = [stage |-> "dfa", nodes |-> machine.nodes, nfa |-> machine.nfa, pending |-> {{0}}, table |-> <<>>]
    /\ UNCHANGED <<text, pos, tokens, lineStarts, lexed>>

ConvertToDFA ==
    /\ machine.stage = "dfa" /\ machine.pending # {}
    /\ LET known == machine.table @@ [S \in machine.pending |-> DfaRow(machine.nfa, S)]
           reached == UNION {{known[S][c] : c \in LexChars} : S \in machine.pending}
       IN machine' = [machine EXCEPT !.table = known,
                          !.pending = {T \in reached : ~IsTerminal(T)} \ DOMAIN known]
    /\ UNCHANGED <<text, pos, tokens, lineStarts, lexed>>

(* Machine: characters with the same transitions everywhere share a class, *)
(* named by one of them.                                                   *)
SameColumn(table, c, d) == \A S \in DOMAIN table : table[S][c] = table[S][d]
BuildMachine ==
    /\ machine.stage = "dfa" /\ machine.pending = {}
    /\ LET table == machine.table
           class == [c \in LexChars |-> CHOOSE d \in LexChars : SameColumn(table, c, d)]
       IN machine' = [stage |-> "ready", nodes |-> machine.nodes, class |-> class,
                      next |-> [S \in DOMAIN table |-> [d \in {class[c] : c \in LexChars} |-> table[S][d]]]]
    /\ UNCHANGED <<text, pos, tokens, lineStarts, lexed>>

CharAt(i) == IF i > Len(text) THEN Nul ELSE text[i]

(* feed: from state S at offset i to <<terminal, first offset not used>>.  *)
RECURSIVE Feed(_, _)
Feed(S, i) ==
    LET next == machine.next[S][machine.class[CharAt(i)]]
    IN IF ~IsTerminal(next) THEN Feed(next, i + 1)
       ELSE LET t == CHOOSE x \in next : TRUE IN <<t, IF Consumes(t) THEN i + 1 ELSE i>>

-----------------------------------------------------------------------------
(* lex.                                                                    *)
LexInit ==
    /\ machine = [stage |-> "nfa", nodes |-> <<>>, added |-> 0, nfa |-> CreateBuilder]
    /\ text = <<>> /\ pos = 0 /\ tokens = <<>> /\ lineStarts = <<>> /\ lexed = FALSE

(* The machine is static: it is built when lex is first called.            *)
StartLex ==
    /\ machine.stage = "ready" /\ pos = 0
    /\ text' \in LexTexts
    /\ pos' = 1
    /\ lineStarts' = <<1>>
    /\ UNCHANGED <<machine, tokens, lexed>>

SkipWhitespace ==
    /\ CharAt(pos) \in {" ", NewLine}
    /\ lineStarts' = IF CharAt(pos) = NewLine THEN Append(lineStarts, pos + 1) ELSE lineStarts
    /\ pos' = pos + 1
    /\ UNCHANGED <<machine, text, tokens, lexed>>

AtLineComment == CharAt(pos) = ";" /\ CharAt(pos + 1) = ";"
AtBlockComment == CharAt(pos) = "(" /\ CharAt(pos + 1) = ";"

RECURSIVE LineEnd(_)
LineEnd(i) == IF CharAt(i) \in {NewLine, Nul} THEN i ELSE LineEnd(i + 1)

SkipLineComment ==
    /\ AtLineComment
    /\ LET end == LineEnd(pos + 2)
       IN IF CharAt(end) = NewLine
          THEN lineStarts' = Append(lineStarts, end + 1) /\ pos' = end + 1
          ELSE pos' = end /\ UNCHANGED lineStarts
    /\ UNCHANGED <<machine, text, tokens, lexed>>

(* A delimited comment from its inside: where it ends, the line starts     *)
(* noted, and whether it is terminated.                                    *)
RECURSIVE InComment(_, _, _)
InComment(i, depth, lines) ==
    IF depth = 0 THEN [end |-> i, lines |-> lines, closed |-> TRUE]
    ELSE IF CharAt(i) = ";" /\ CharAt(i + 1) = ")" THEN InComment(i + 2, depth - 1, lines)
    ELSE IF CharAt(i) = "(" /\ CharAt(i + 1) = ";" THEN InComment(i + 2, depth + 1, lines)
    ELSE IF i = Len(text) + 1 THEN [end |-> i, lines |-> lines, closed |-> FALSE]
    ELSE InComment(i + 1, depth, IF CharAt(i) = NewLine THEN Append(lines, i) ELSE lines)

(* The unterminated comment's token; the loop then goes on to the text's   *)
(* end, where the next feed stops it.                                      *)
SkipBlockComment ==
    /\ AtBlockComment
    /\ LET c == InComment(pos + 2, 1, <<>>)
       IN /\ pos' = c.end
          /\ lineStarts' = lineStarts \o c.lines
          /\ tokens' = IF c.closed THEN tokens
                       ELSE Append(tokens, [type |-> "unterminated", begin |-> pos, end |-> c.end])
    /\ UNCHANGED <<machine, text, lexed>>

RECURSIVE RecoveryPoint(_)
RecoveryPoint(i) == IF CharAt(i) \in RecoveryPoints THEN i ELSE RecoveryPoint(i + 1)

FeedToken ==
    /\ ~lexed
    /\ CharAt(pos) \notin {" ", NewLine} /\ ~AtLineComment /\ ~AtBlockComment
    /\ \E fed \in {Feed({0}, pos)} :
        IF TerminalToken(fed[1]) # 0
        THEN /\ tokens' = Append(tokens, [type |-> TokenAt(TerminalToken(fed[1])), begin |-> pos, end |-> fed[2]])
             /\ pos' = fed[2]
             /\ UNCHANGED <<lineStarts, lexed>>
        ELSE IF pos <= Len(text)
        THEN /\ tokens' = Append(tokens, [type |-> "unrecognized", begin |-> pos, end |-> RecoveryPoint(fed[2])])
             /\ pos' = RecoveryPoint(fed[2])
             /\ UNCHANGED <<lineStarts, lexed>>
        ELSE /\ tokens' = Append(tokens, [type |-> "eof", begin |-> pos, end |-> pos])
             /\ lineStarts' = Append(lineStarts, fed[2] + 1)
             /\ lexed' = TRUE
             /\ UNCHANGED pos
    /\ UNCHANGED <<machine, text>>

LexNext ==
    \/ ParseToken \/ AddToken \/ StartConversion \/ ConvertToDFA \/ BuildMachine \/ StartLex
    \/ pos > 0 /\ (SkipWhitespace \/ SkipLineComment \/ SkipBlockComment \/ FeedToken)
LexSpec == LexInit /\ [][LexNext]_lexVars

(* calcLocusFromOffset: the line a character is on, counted from 0, by     *)
(* binary search between lo and hi.                                        *)
RECURSIVE LineOf(_, _, _)
LineOf(offset, lo, hi) ==
    IF hi <= lo THEN lo
    ELSE LET mid == (lo + hi + 1) \div 2
         IN IF offset < lineStarts[mid + 1] THEN LineOf(offset, lo, mid - 1)
            ELSE IF offset > lineStarts[mid + 1] THEN LineOf(offset, mid, hi)
            ELSE mid

-----------------------------------------------------------------------------
(* The strings a regular expression matches.                               *)
RECURSIVE Matches(_, _)
Matches(node, s) ==
    LET repeated(from) == \E k \in from..Len(s) :
            /\ k > 0
            /\ Matches(node[2], SubSeq(s, 1, k))
            /\ \/ k = Len(s)
               \/ Matches(<<"*", node[2]>>, SubSeq(s, k + 1, Len(s)))
    IN CASE node[1] = "lit" -> Len(s) = 1 /\ s[1] \in node[2]
         [] node[1] = "*" -> s = <<>> \/ repeated(1)
         [] node[1] = "+" -> Matches(node[2], s) \/ repeated(1)
         [] node[1] = "?" -> s = <<>> \/ Matches(node[2], s)
         [] node[1] = "alt" -> Matches(node[2], s) \/ Matches(node[3], s)
         [] node[1] = "seq" -> \E k \in 0..Len(s) :
                /\ Matches(node[2], SubSeq(s, 1, k))
                /\ Matches(node[3], SubSeq(s, k + 1, Len(s)))

IsToken(type, s) ==
    \/ \E k \in DOMAIN RegexpTokens : RegexpTokens[k].type = type /\ Matches(machine.nodes[k], s)
    \/ \E p \in ToSet(LiteralTokens) : p.type = type /\ p.literal = s
IsSeparatorToken(type) == \E p \in ToSet(LiteralTokens) : p.type = type /\ p.separator

(* The text from `begin` up to `end` is a token of some type that may end. *)
TokenEndsAt(begin, end) == \E type \in TokenTypes :
    /\ IsToken(type, SubSeq(text, begin, end - 1))
    /\ IsSeparatorToken(type) \/ CharAt(end) \in LexSeparators

(* A token the automaton reports spells what its regular expression or     *)
(* literal says, no longer token starts where it does, and text is called  *)
(* unrecognized only where no token starts.  Every token is reported on    *)
(* the line it is on.                                                      *)
LexesTokens == \A k \in DOMAIN tokens :
    LET t == tokens[k] IN
    /\ t.type \in TokenTypes => IsToken(t.type, SubSeq(text, t.begin, t.end - 1))
    /\ t.type \notin {"eof", "unterminated"} =>
            \A end \in t.begin + 1..Len(text) + 1 :
                end > t.end \/ t.type = "unrecognized" => ~TokenEndsAt(t.begin, end)
    /\ lexed => LineOf(t.begin, 0, Len(lineStarts) - 1)
                = Cardinality({i \in 1..t.begin - 1 : text[i] = NewLine})
=============================================================================
