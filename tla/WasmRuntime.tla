----------------------------- MODULE WasmRuntime -----------------------------
(* Running a contract in three parts, each a specification of its own: cached *)
(* instances (Wi), the functions of the host (Wh) and the floating point      *)
(* routines (Fp).                                                             *)
EXTENDS Integers, Sequences, FiniteSets, FiniteSetsExt, SequencesExt

-----------------------------------------------------------------------------
(***************************************************************************)
(* The contract instances a node keeps and the memory they share           *)
(* (wasm_interface_private.hpp, webassembly/wavm.cpp, webassembly/wabt.cpp,*)
(* Memory.cpp, ObjectGC.cpp).  Compiling a contract is slow, so instances  *)
(* are kept across runs, blocks and forks; all wavm instances share one    *)
(* linear memory.  Blocks are applied and undone around them; code that    *)
(* setcode removed is dropped from the cache once the removal is final.    *)
(***************************************************************************)

CONSTANTS Codes,        \* contract code hashes
          InitialPages, \* Codes -> pages a code declares (-1: no memory)
          PageLimit,    \* pages any memory may grow to
          MaxBlock,     \* bound on block numbers
          NoCode        \* a value outside Codes

VARIABLES history,      \* the codes stored in state after each applied block, from the last final one
          base,         \* the number of the last irreversible block
          pending,      \* the codes stored, in the block being applied
          cache,        \* code -> [last, instance]: wasm_instantiation_cache
          objects,      \* the instances that exist (GCGlobals::allObjects)
          globals,      \* instance -> has a run changed its mutable globals?
          pageMemory,       \* the shared memory: pages, who wrote which
          running,      \* the code being run, what it started with
          failed        \* is the last run's setup a failure

wiVars == <<history, base, pending, cache, objects, globals, pageMemory, running, failed>>

Never == MaxBlock + 100
NoMemory == [pages |-> -1, dirty |-> {}]
Idle == [code |-> NoCode, fresh |-> TRUE, pages |-> -1]

HeadNum == base + Len(history) - 1
Cached == {c \in Codes : cache[c].known}
NoEntry == [known |-> FALSE, last |-> Never, built |-> FALSE]

(* growMemory: fails beyond the maximum; new pages are zero *)
Grow(mem, by) ==
    IF by > 0 /\ (by > PageLimit \/ mem.pages > PageLimit - by) THEN NoMemory
    ELSE [mem EXCEPT !.pages = @ + by]

(* shrinkMemory down to one page; the subtraction wraps at zero pages *)
ShrinkToOne(mem) ==
    IF mem.pages = 0 THEN NoMemory
    ELSE [pages |-> 1, dirty |-> mem.dirty \cap {1}]

(* resetMemory: one zeroed page, then up to the declared size, whose        *)
(* subtraction wraps at zero as well                                        *)
ResetNoZero(mem, pages) ==
    IF ShrinkToOne(mem) = NoMemory THEN [ok |-> FALSE, mem |-> mem]
    ELSE LET one == ShrinkToOne(mem)
         IN IF pages = 0 \/ Grow(one, pages - 1) = NoMemory THEN [ok |-> FALSE, mem |-> one]
            ELSE [ok |-> TRUE, mem |-> Grow(one, pages - 1)]
Reset(mem, pages) ==
    IF ShrinkToOne(mem) = NoMemory THEN [ok |-> FALSE, mem |-> mem]
    ELSE LET one == [ShrinkToOne(mem) EXCEPT !.dirty = {}]
         IN IF pages = 0 \/ Grow(one, pages - 1) = NoMemory THEN [ok |-> FALSE, mem |-> one]
            ELSE [ok |-> TRUE, mem |-> Grow(one, pages - 1)]

(* instantiateModule: the first instance with a memory creates the memory   *)
(* all of them use                                                          *)
WithMemory(mem, c) ==
    IF InitialPages[c] = -1 \/ mem # NoMemory THEN mem
    ELSE [pages |-> InitialPages[c], dirty |-> {}]

(* freeUnreferencedObjects: what no live instance reaches goes, the memory  *)
(* with the last instance that refers to it                                 *)
CollectedAlways(live, mem) == IF live = {} THEN mem ELSE NoMemory
Collected(live, mem) ==
    IF \A c \in live : InitialPages[c] = -1 THEN NoMemory ELSE mem

----------------------------------------------------------------------------
WiInit ==
    /\ history = <<{}>> /\ base = 1
    /\ pending = {}
    /\ cache = [c \in Codes |-> NoEntry]
    /\ objects = {}
    /\ globals = [c \in Codes |-> FALSE]
    /\ pageMemory = NoMemory
    /\ running = Idle
    /\ failed = FALSE

(* A setcode action: the account's code becomes c *)
StoreCode(c) ==
    /\ running = Idle
    /\ c \notin pending
    /\ pending' = pending \cup {c}
    /\ UNCHANGED <<history, base, cache, objects, globals, pageMemory, running, failed>>

(* A setcode that drops the last use of c: code_block_num_last_used *)
RemoveCode(c) ==
    /\ running = Idle
    /\ c \in pending
    /\ pending' = pending \ {c}
    /\ cache' = IF cache[c].known THEN [cache EXCEPT ![c].last = HeadNum + 1] ELSE cache
    /\ UNCHANGED <<history, base, objects, globals, pageMemory, running, failed>>

(* get_instantiated_module: find or create the entry, build the instance;   *)
(* a build that throws leaves the entry without one                         *)
Built(c) == cache[c].known /\ cache[c].built

BuildFails(c) ==
    /\ running = Idle
    /\ c \in pending
    /\ ~Built(c)
    /\ cache' = [cache EXCEPT ![c] = IF @.known THEN @ ELSE [NoEntry EXCEPT !.known = TRUE]]
    /\ UNCHANGED <<history, base, pending, objects, globals, pageMemory, running, failed>>

Build(c) ==
    /\ running = Idle
    /\ c \in pending
    /\ ~Built(c)
    /\ cache' = [cache EXCEPT ![c] = [known |-> TRUE, built |-> TRUE,
                                      last |-> IF @.known THEN @.last ELSE Never]]
    /\ objects' = objects \cup {c}
    /\ globals' = [globals EXCEPT ![c] = FALSE]
    /\ pageMemory' = WithMemory(pageMemory, c)
    /\ UNCHANGED <<history, base, pending, running, failed>>

(* wavm_instantiated_module::call up to the contract's first instruction:   *)
(* the memory is reset to the declared size, the image copied in, the       *)
(* globals restored                                                         *)
Run(c) ==
    /\ running = Idle
    /\ c \in pending
    /\ Built(c)
    /\ IF InitialPages[c] = -1
       THEN /\ running' = [code |-> c, fresh |-> TRUE, pages |-> -1]
            /\ globals' = [globals EXCEPT ![c] = FALSE]
            /\ UNCHANGED <<pageMemory, failed>>
       ELSE \E r \in {Reset(pageMemory, InitialPages[c])} :
               /\ pageMemory' = r.mem
               /\ failed' = ~r.ok
               /\ running' = IF r.ok THEN [code |-> c, fresh |-> r.mem.dirty = {}, pages |-> r.mem.pages]
                             ELSE Idle
               /\ globals' = IF r.ok THEN [globals EXCEPT ![c] = FALSE] ELSE globals
    /\ UNCHANGED <<history, base, pending, cache, objects>>

(* The contract writes to a page, to a global, grows its memory *)
WriteMemory ==
    /\ running # Idle
    /\ \/ /\ \E p \in 1..pageMemory.pages : pageMemory' = [pageMemory EXCEPT !.dirty = @ \cup {p}]
          /\ InitialPages[running.code] # -1
          /\ UNCHANGED globals
       \/ /\ globals' = [globals EXCEPT ![running.code] = TRUE]
          /\ UNCHANGED pageMemory
       \/ /\ InitialPages[running.code] # -1
          /\ pageMemory.pages < PageLimit
          /\ pageMemory' = Grow(pageMemory, 1)
          /\ UNCHANGED globals
    /\ UNCHANGED <<history, base, pending, cache, objects, running, failed>>

(* It returns, exits or traps: nothing is put back *)
Finish ==
    /\ running # Idle
    /\ running' = Idle
    /\ UNCHANGED <<history, base, pending, cache, objects, globals, pageMemory, failed>>

(* The block is complete *)
Commit ==
    /\ running = Idle
    /\ HeadNum < MaxBlock
    /\ history' = Append(history, pending)
    /\ UNCHANGED <<base, pending, cache, objects, globals, pageMemory, running, failed>>

(* The block being built is aborted, or a fork switch pops the head too *)
Abort ==
    /\ running = Idle
    /\ \/ pending' = history[Len(history)] /\ UNCHANGED history
       \/ /\ Len(history) > 1
          /\ history' = SubSeq(history, 1, Len(history) - 1)
          /\ pending' = history[Len(history) - 1]
    /\ UNCHANGED <<base, cache, objects, globals, pageMemory, running, failed>>

(* current_lib: a block becomes irreversible; entries last used at or       *)
(* before it go, and the collector runs over the instances                  *)
Evicted(lib) == {c \in Cached : cache[c].last <= lib}

Irreversible ==
    /\ running = Idle
    /\ Len(history) > 1
    /\ base' = base + 1
    /\ history' = Tail(history)
    /\ cache' = [c \in Codes |-> IF c \in Evicted(base') THEN NoEntry ELSE cache[c]]
    /\ IF \E c \in Evicted(base') : cache[c].built
       THEN /\ objects' = {c \in Codes : cache'[c].built}
            /\ pageMemory' = Collected(objects', pageMemory)
       ELSE UNCHANGED <<objects, pageMemory>>
    /\ UNCHANGED <<pending, globals, running, failed>>

WiNext ==
    \/ \E c \in Codes : StoreCode(c)
    \/ \E c \in Codes : RemoveCode(c)
    \/ \E c \in Codes : BuildFails(c)
    \/ \E c \in Codes : Build(c)
    \/ \E c \in Codes : Run(c)
    \/ WriteMemory
    \/ Finish
    \/ Commit
    \/ Abort
    \/ Irreversible

WiSpec == WiInit /\ [][WiNext]_wiVars

----------------------------------------------------------------------------
(* However earlier runs ended and whichever instances and forks came in     *)
(* between, a run starts from its own initial state: the declared number    *)
(* of pages, nothing another run wrote, its globals restored; and the       *)
(* instance it runs, with the memory it refers to, still exists             *)
(* (wavm_instantiated_module::call, freeUnreferencedObjects).               *)
FreshStart ==
    /\ running # Idle => running.fresh /\ running.pages = InitialPages[running.code]
    /\ \A c \in Codes : cache[c].built =>
          /\ c \in objects
          /\ InitialPages[c] # -1 => pageMemory # NoMemory

-----------------------------------------------------------------------------
(***************************************************************************)
(* The calls a contract makes into the node.  A contract passes 32-bit     *)
(* integers; the invokers of the two runtimes (webassembly/wavm.hpp and    *)
(* webassembly/wabt.hpp) turn them into native arrays, references and      *)
(* strings inside the linear memory, from the last parameter to the first, *)
(* giving the API function a copy of what is misaligned and writing the    *)
(* copy back when it returns.  The API classes of wasm_interface.cpp then  *)
(* check that the action may use them and do their work.                   *)
(*                                                                         *)
(* The same contract runs in both runtimes side by side: nodes of one      *)
(* network may use either.  A word is a number below Words (2^32 in the    *)
(* code), a byte a member of Byte, a wide type (a hash, a name, a 64-bit   *)
(* integer) Wide bytes aligned on Wide.                                    *)
(***************************************************************************)

CONSTANTS
  Words,        \* the number of 32-bit words: pointers and lengths are below it
  MemorySize,   \* bytes in the linear memory
  Byte,         \* the values of a byte, 0 among them
  Wide,         \* size and alignment of the wide types
  Calls,        \* the calls contracts make: [name, args]
  Actions,      \* the actions that run: [contextFree, receiver, data]
  ActiveProducers, \* the active producers, one wide value (a byte) each
  MaxMessage,   \* longest assertion message kept (max_assert_message)
  Transaction,  \* the bytes of the packed transaction
  ReservedCode, \* first assertion code reserved for the system
  ContractsConsole,
  MaxProducers, MaxInlineSize,
  EmptyScheduleAllowed \* disallow_empty_producer_schedule is not activated

VARIABLES
  memory,       \* [runtime -> linear memory]
  chain,        \* [runtime -> what API functions changed]
  status,       \* [runtime -> "running" | "thrown" | "exited" | "faulted"]
  action,       \* the action that runs, with the privilege its start read
  edge          \* the last call named the very top of the memory

whVars == <<memory, chain, status, action, edge>>

Runtimes == {"wavm", "wabt"}

IntMax == (Words \div 2) - 1

Addresses == 0 .. (MemorySize - 1)

(***************************************************************************)
(* What each API function takes, in the order of its declaration.          *)
(***************************************************************************)

Array(size, const) == [kind |-> "array", size |-> size, const |-> const]

Reference(const) == [kind |-> "reference", size |-> Wide, const |-> const]

Other(kind) == [kind |-> kind, size |-> 1, const |-> TRUE]

MemoryApi == [memcpy  |-> <<Other("pair")>>, memmove |-> <<Other("pair")>>,
              memcmp  |-> <<Other("pair")>>, memset  |-> <<Other("fill")>>]

CryptoApi == [sha256             |-> <<Array(1, FALSE), Reference(FALSE)>>,
              assert_sha256      |-> <<Array(1, FALSE), Reference(TRUE)>>,
              recover_key        |-> <<Reference(TRUE), Array(1, FALSE), Array(1, FALSE)>>,
              assert_recover_key |-> <<Reference(TRUE), Array(1, FALSE), Array(1, FALSE)>>]

PrivilegedApi ==
  [get_resource_limits    |-> <<Other("value"), Reference(FALSE), Reference(FALSE),
                                Reference(FALSE)>>,
   set_proposed_producers |-> <<Array(1, FALSE)>>,
   get_blockchain_parameters_packed |-> <<Array(1, FALSE)>>,
   set_blockchain_parameters_packed |-> <<Array(1, FALSE)>>,
   is_privileged          |-> <<Other("value")>>,
   set_privileged         |-> <<Other("value"), Other("value")>>]

SystemApi == [eosio_assert         |-> <<Other("value"), Other("string")>>,
              eosio_assert_message |-> <<Other("value"), Array(1, TRUE)>>,
              eosio_assert_code    |-> <<Other("value"), Other("value")>>,
              eosio_exit           |-> <<Other("value")>>,
              abort                |-> <<>>]

ActionApi == [read_action_data |-> <<Array(1, FALSE)>>, action_data_size |-> <<>>]

ConsoleApi == [prints |-> <<Other("string")>>, prints_l |-> <<Array(1, TRUE)>>,
               printi |-> <<Other("value")>>, printi128 |-> <<Reference(TRUE)>>]

PermissionApi == [check_transaction_authorization |->
                    <<Array(1, FALSE), Array(1, FALSE), Array(1, FALSE)>>,
                  get_account_creation_time |-> <<Other("value")>>]

ReadingApi == [read_transaction |-> <<Array(1, FALSE)>>, transaction_size |-> <<>>]

ProducerApi == [get_active_producers |-> <<Array(Wide, FALSE)>>]

ContextFreeApi == [get_context_free_data |-> <<Other("value"), Array(1, FALSE)>>]

TransactionApi == [send_inline |-> <<Array(1, FALSE)>>]

Params(f) ==
  CASE f \in DOMAIN MemoryApi      -> MemoryApi[f]
    [] f \in DOMAIN CryptoApi      -> CryptoApi[f]
    [] f \in DOMAIN PrivilegedApi  -> PrivilegedApi[f]
    [] f \in DOMAIN SystemApi      -> SystemApi[f]
    [] f \in DOMAIN ActionApi      -> ActionApi[f]
    [] f \in DOMAIN ConsoleApi     -> ConsoleApi[f]
    [] f \in DOMAIN PermissionApi  -> PermissionApi[f]
    [] f \in DOMAIN ReadingApi     -> ReadingApi[f]
    [] f \in DOMAIN ProducerApi    -> ProducerApi[f]
    [] f \in DOMAIN ContextFreeApi -> ContextFreeApi[f]
    [] f \in DOMAIN TransactionApi -> TransactionApi[f]

(***************************************************************************)
(* Bounds checks of the runtimes.  In wavm a length is sign-extended to 64 *)
(* bits, where no sum wraps; in wabt it stays a 32-bit number.             *)
(***************************************************************************)

WavmArray(ptr, length, size) ==
  /\ ptr < MemorySize
  /\ length <= IntMax
  /\ length <= (MemorySize - ptr) \div size

WavmReference(ptr) ==
  /\ ptr # 0
  /\ ptr + Wide < MemorySize

ValidatedPointerNoWrap(offset, size) == (offset + size) % Words <= MemorySize

ValidatedPointer(offset, size) ==
  /\ (offset + size) % Words <= MemorySize
  /\ (offset + size) % Words >= offset

WabtArray(ptr, length, size) ==
  /\ length < IntMax \div size
  /\ ValidatedPointer(ptr, (length * size) % Words)

WabtReference(ptr) ==
  /\ ptr # 0
  /\ WabtArray(ptr, 1, Wide)

WavmTerminated(m, ptr) == \E a \in Addresses : a >= ptr /\ m[a] = 0

WabtTerminated(m, ptr) ==
  /\ ValidatedPointer(ptr, 1)
  /\ \E a \in Addresses : a >= ptr /\ m[a] = 0

WavmReturns(ptr) == ptr < MemorySize

WabtReturns(ptr) == ptr < MemorySize

ArrayOk(r, ptr, length, size) ==
  IF r = "wavm" THEN WavmArray(ptr, length, size) ELSE WabtArray(ptr, length, size)

ReferenceOk(r, ptr) == IF r = "wavm" THEN WavmReference(ptr) ELSE WabtReference(ptr)

TerminatedOk(r, m, ptr) == IF r = "wavm" THEN WavmTerminated(m, ptr) ELSE WabtTerminated(m, ptr)

ReturnsOk(r, ptr) == IF r = "wavm" THEN WavmReturns(ptr) ELSE WabtReturns(ptr)

\* Whether a parameter passes the runtime's checks.
Passes(r, m, p, a) ==
  CASE p.kind = "array"     -> ArrayOk(r, a.ptr, a.length, p.size)
    [] p.kind = "reference" -> ReferenceOk(r, a.ptr)
    [] p.kind = "pair"      -> /\ ArrayOk(r, a.ptr, a.length, 1)
                               /\ ArrayOk(r, a.other, a.length, 1)
    [] p.kind = "fill"      -> ArrayOk(r, a.ptr, a.length, 1)
    [] p.kind = "string"    -> TerminatedOk(r, m, a.ptr)
    [] p.kind = "value"     -> TRUE

\* The native bytes behind a parameter: none for a value or a string.
Extent(p, a) ==
  CASE p.kind = "array"     -> a.length * p.size
    [] p.kind = "reference" -> Wide
    [] OTHER                -> 0

Misaligned(p, a) == p.kind \in {"array", "reference"} /\ a.ptr % p.size # 0

(***************************************************************************)
(* A native view of the parameters: parameter k has its own copy when it   *)
(* is misaligned, and is the memory itself otherwise.                      *)
(***************************************************************************)

\* What parameter k reads at its i-th byte (from 0).
Reads(v, k, i) ==
  IF Misaligned(v.params[k], v.args[k]) THEN v.copies[k][i] ELSE v.memory[v.args[k].ptr + i]

Write(v, k, i, b) ==
  IF Misaligned(v.params[k], v.args[k])
  THEN [v EXCEPT !.copies[k][i] = b]
  ELSE [v EXCEPT !.memory[v.args[k].ptr + i] = b]

\* Writes the bytes of a sequence to parameter k, first to last.
WriteAll(v, k, bytes) ==
  FoldLeft(LAMBDA w, i : Write(w, k, i - 1, bytes[i]), v, [i \in 1 .. Len(bytes) |-> i])

BytesOf(v, k) ==
  [i \in 1 .. Extent(v.params[k], v.args[k]) |-> Reads(v, k, i - 1)]

\* The copies the invokers make before the call.
CopyIn(m, params, args) ==
  [params |-> params, args |-> args, memory |-> m,
   copies |-> [k \in 1 .. Len(params) |->
                IF Misaligned(params[k], args[k])
                THEN [i \in 0 .. (Extent(params[k], args[k]) - 1) |->
                        m[args[k].ptr + i]]
                ELSE <<>>]]

\* One parameter written back; the calls nest with the first parameter
\* innermost, so that the last one's copy is written last.
WriteBackOne(v, k) ==
  IF Misaligned(v.params[k], v.args[k]) /\ ~v.params[k].const
  THEN [v EXCEPT !.memory =
          [x \in Addresses |->
             IF x - v.args[k].ptr \in DOMAIN v.copies[k] THEN v.copies[k][x - v.args[k].ptr] ELSE @[x]]]
  ELSE v

WriteBack(v) == FoldLeft(WriteBackOne, v, [k \in 1 .. Len(v.params) |-> k]).memory

(***************************************************************************)
(* What the API functions do.  Each returns [memory view, return pointer,  *)
(* chain, outcome]; a thrown call has no effect (the whole transaction is  *)
(* undone).                                                                *)
(***************************************************************************)

Done(v, c) == [view |-> v, chain |-> c, outcome |-> "running", pointer |-> 0]

Throw(v, c) == [view |-> v, chain |-> c, outcome |-> "thrown", pointer |-> 0]

Returning(v, c, ptr) == [view |-> v, chain |-> c, outcome |-> "running", pointer |-> ptr]

Distance(x, y) == IF x >= y THEN x - y ELSE y - x

\* memmove: every byte is read before any is written.
Move(v, a) ==
  [v EXCEPT !.memory = [x \in Addresses |->
     IF x >= a.ptr /\ x < a.ptr + a.length THEN @[a.other + (x - a.ptr)] ELSE @[x]]]

DoMemory(f, v, c) ==
  LET a == v.args[1]
  IN CASE f = "memcpy"  -> IF Distance(a.ptr, a.other) >= a.length
                           THEN Returning(Move(v, a), c, a.ptr) ELSE Throw(v, c)
       [] f = "memmove" -> Returning(Move(v, a), c, a.ptr)
       [] f = "memcmp"  -> Done(v, c)
       [] f = "memset"  -> Returning([v EXCEPT !.memory = [x \in Addresses |->
                             IF x >= a.ptr /\ x < a.ptr + a.length THEN a.value ELSE @[x]]],
                             c, a.ptr)

\* A digest of bytes: Wide bytes that depend on all of them.
Digest(bytes) ==
  [i \in 1 .. Wide |-> (FoldLeft(LAMBDA s, b : s + b, i, bytes)) % 2]

\* A key recovered from a digest and a signature; an empty signature does not
\* unpack.
Recovered(digest, sig) == Digest(digest \o sig)

DoCrypto(f, v, c) ==
  CASE f = "sha256"        -> Done(WriteAll(v, 2, Digest(BytesOf(v, 1))), c)
    [] f = "assert_sha256" -> IF Digest(BytesOf(v, 1)) = BytesOf(v, 2) THEN Done(v, c) ELSE Throw(v, c)
    [] f = "recover_key"   -> IF BytesOf(v, 2) # <<>> /\ Extent(v.params[3], v.args[3]) >= Wide
                              THEN Done(WriteAll(v, 3, Recovered(BytesOf(v, 1), BytesOf(v, 2))), c)
                              ELSE Throw(v, c)
    [] f = "assert_recover_key" ->
         IF /\ BytesOf(v, 2) # <<>> /\ Extent(v.params[3], v.args[3]) >= Wide
            /\ Recovered(BytesOf(v, 1), BytesOf(v, 2)) = SubSeq(BytesOf(v, 3), 1, Wide)
         THEN Done(v, c) ELSE Throw(v, c)

\* At most length bytes of a source are copied to the buffer, parameter k.
CopyAtMost(v, k, source, length) ==
  WriteAll(v, k, SubSeq(source, 1, IF length < Len(source) THEN length ELSE Len(source)))

DoAction(f, v, c) ==
  CASE f = "read_action_data" -> Done(CopyAtMost(v, 1, action.data, v.args[1].length), c)
    [] f = "action_data_size" -> Done(v, c)

DoReading(f, v, c) ==
  CASE f = "read_transaction" -> Done(CopyAtMost(v, 1, Transaction, v.args[1].length), c)
    [] f = "transaction_size" -> Done(v, c)

\* The text itself is left out.
DoConsole(v, c) == IF ContractsConsole THEN Done(v, [c EXCEPT !.printed = TRUE]) ELSE Done(v, c)

\* Packed data whose first byte is 0 does not unpack.  Keys and permissions may
\* be left out; the transaction may not.  A failed check is an answer, not an
\* error.
DoPermission(f, v, c) ==
  CASE f = "check_transaction_authorization" ->
         IF /\ BytesOf(v, 1) # <<>> /\ BytesOf(v, 1)[1] # 0
            /\ \A k \in {2, 3} : BytesOf(v, k) = <<>> \/ BytesOf(v, k)[1] # 0
         THEN Done(v, c) ELSE Throw(v, c)
    [] f = "get_account_creation_time" ->
         IF v.args[1].value # 0 THEN Done(v, c) ELSE Throw(v, c)

\* The buffer is checked for buffer_size names; at most buffer_size bytes are
\* written.
DoProducer(v, c) ==
  Done(CopyAtMost(v, 1, FlattenSeq([i \in 1 .. Len(ActiveProducers) |->
                           [j \in 1 .. Wide |-> ActiveProducers[i]]]), v.args[1].length), c)

ValidSchedule(producers) ==
  /\ producers # <<>> \/ EmptyScheduleAllowed
  /\ Len(producers) <= MaxProducers
  /\ \A i \in DOMAIN producers : producers[i] # 0
  /\ IsInjective(producers)

DoPrivileged(f, v, c) ==
  CASE f = "get_resource_limits" ->
         Done(FoldLeft(LAMBDA w, k : WriteAll(w, k, [i \in 1 .. Wide |-> k % 2]), v, <<2, 3, 4>>), c)
    [] f = "set_proposed_producers" ->
         IF ValidSchedule(BytesOf(v, 1)) THEN Done(v, [c EXCEPT !.proposed = BytesOf(v, 1)])
         ELSE Throw(v, c)
    [] f = "get_blockchain_parameters_packed" ->
         IF Len(c.parameters) <= v.args[1].length
         THEN Done(CopyAtMost(v, 1, c.parameters, v.args[1].length), c)
         ELSE Done(v, c)
    [] f = "set_blockchain_parameters_packed" ->
         IF Len(BytesOf(v, 1)) >= Len(c.parameters) /\ BytesOf(v, 1)[1] # 0
         THEN Done(v, [c EXCEPT !.parameters = SubSeq(BytesOf(v, 1), 1, Len(@))])
         ELSE Throw(v, c)
    [] f = "is_privileged" -> Done(v, c)
    [] f = "set_privileged" ->
         Done(v, [c EXCEPT !.privileged = IF v.args[2].value # 0 THEN @ \cup {v.args[1].value}
                                          ELSE @ \ {v.args[1].value}])

\* strnlen over a string that the invoker saw terminated.
MessageLength(m, ptr) ==
  CHOOSE n \in 0 .. MaxMessage :
    /\ n = MaxMessage \/ m[ptr + n] = 0
    /\ \A i \in 0 .. (n - 1) : m[ptr + i] # 0

DoSystem(f, v, c) ==
  CASE f = "eosio_assert" ->
         IF v.args[1].value # 0 THEN Done(v, c)
         ELSE Throw(v, [c EXCEPT !.message = MessageLength(v.memory, v.args[2].ptr)])
    [] f = "eosio_assert_message" ->
         IF v.args[1].value # 0 THEN Done(v, c)
         ELSE Throw(v, [c EXCEPT !.message = IF v.args[2].length > MaxMessage THEN MaxMessage
                                             ELSE v.args[2].length])
    [] f = "eosio_assert_code" ->
         IF v.args[1].value # 0 THEN Done(v, c)
         ELSE Throw(v, [c EXCEPT !.message = IF v.args[2].value >= ReservedCode THEN ReservedCode
                                             ELSE v.args[2].value])
    [] f = "eosio_exit" -> [Done(v, c) EXCEPT !.outcome = "exited"]
    [] f = "abort"      -> Throw(v, c)

DoContextFree(v, c) == Done(CopyAtMost(v, 2, action.data, v.args[2].length), c)

DoTransaction(v, c) ==
  IF v.args[1].length < MaxInlineSize /\ v.args[1].length > 0
  THEN Done(v, [c EXCEPT !.inline = BytesOf(v, 1)]) ELSE Throw(v, c)

(***************************************************************************)
(* The constructors of the API classes.                                    *)
(***************************************************************************)

ContextAware == ~action.contextFree

OnlyContextFree == action.contextFree

Privileged == ContextAware /\ action.privileged

Allowed(f) ==
  CASE f \in DOMAIN PrivilegedApi  -> Privileged
    [] f \in DOMAIN ContextFreeApi -> OnlyContextFree
    [] f \in DOMAIN ProducerApi \cup DOMAIN TransactionApi \cup DOMAIN PermissionApi -> ContextAware
    [] OTHER -> TRUE

Perform(f, v, c) ==
  CASE f \in DOMAIN MemoryApi      -> DoMemory(f, v, c)
    [] f \in DOMAIN CryptoApi      -> DoCrypto(f, v, c)
    [] f \in DOMAIN PrivilegedApi  -> DoPrivileged(f, v, c)
    [] f \in DOMAIN SystemApi      -> DoSystem(f, v, c)
    [] f \in DOMAIN ActionApi      -> DoAction(f, v, c)
    [] f \in DOMAIN ConsoleApi     -> DoConsole(v, c)
    [] f \in DOMAIN PermissionApi  -> DoPermission(f, v, c)
    [] f \in DOMAIN ReadingApi     -> DoReading(f, v, c)
    [] f \in DOMAIN ProducerApi    -> DoProducer(v, c)
    [] f \in DOMAIN ContextFreeApi -> DoContextFree(v, c)
    [] f \in DOMAIN TransactionApi -> DoTransaction(v, c)

\* The API function that gives its caller a pointer back.
GivesPointer == {"memcpy", "memmove", "memset"}

Touched(p, a) ==
  CASE p.kind = "pair" -> (a.ptr .. (a.ptr + a.length - 1)) \cup (a.other .. (a.other + a.length - 1))
    [] p.kind = "fill" -> a.ptr .. (a.ptr + a.length - 1)
    [] OTHER           -> IF p.kind \in {"array", "reference"}
                          THEN a.ptr .. (a.ptr + Extent(p, a) - 1) ELSE {}

Ends(outcome, m, c) == [status |-> outcome, memory |-> m, chain |-> c]

\* The wrapper around a method: the API object is built (and its checks made)
\* once the parameters are translated.
Wrapper(r, f, v, c) ==
  IF ~Allowed(f) THEN Throw(v, c) ELSE Perform(f, v, c)

\* A whole call in a runtime.  Native code that leaves the memory faults.
Invoke(r, call, m, c) ==
  LET params == Params(call.name)
      args   == call.args
      ks     == 1 .. Len(params)
  IN IF \E k \in ks : ~Passes(r, m, params[k], args[k]) THEN Ends("thrown", m, c)
     ELSE IF \E k \in ks : ~(Touched(params[k], args[k]) \subseteq Addresses)
          THEN Ends("faulted", m, c)
     ELSE LET d == Wrapper(r, call.name, CopyIn(m, params, args), c)
          IN IF /\ d.outcome = "running" /\ call.name \in GivesPointer
                /\ ~ReturnsOk(r, d.pointer)
             THEN Ends("thrown", m, c)
             ELSE Ends(d.outcome, WriteBack(d.view), d.chain)

\* A reference that ends at the top of the memory, or an empty array there:
\* wavm refuses both, wabt neither.
AtTop(call) ==
  \E k \in 1 .. Len(call.args) :
    LET p == Params(call.name)[k] a == call.args[k]
    IN \/ p.kind = "reference" /\ a.ptr + Wide = MemorySize
       \/ p.kind = "array" /\ a.ptr = MemorySize /\ a.length = 0
       \/ p.kind = "pair" /\ MemorySize \in {a.ptr, a.other} /\ a.length = 0
       \/ p.kind = "fill" /\ a.ptr = MemorySize /\ a.length = 0

(***************************************************************************)
(* Behaviours.                                                             *)
(***************************************************************************)

NoChanges == [privileged |-> {1}, parameters |-> <<1>>, proposed |-> <<>>, inline |-> <<>>, message |-> 0,
              printed |-> FALSE]

Fresh == [x \in Addresses |-> 0]

\* exec_one reads whether the receiver is privileged once, when it starts.
Starting(a, c) == [contextFree |-> a.contextFree, data |-> a.data, before |-> c,
                   privileged |-> a.receiver \in c.privileged]

WhInit ==
  \E a \in Actions :
    /\ memory = [r \in Runtimes |-> Fresh]
    /\ chain = [r \in Runtimes |-> NoChanges]
    /\ status = [r \in Runtimes |-> "running"]
    /\ action = Starting(a, NoChanges)
    /\ edge = FALSE

Call(call) ==
  /\ \A r \in Runtimes : status[r] = "running"
  /\ \E end \in {[r \in Runtimes |-> Invoke(r, call, memory[r], chain[r])]} :
       /\ status' = [r \in Runtimes |-> end[r].status]
       /\ memory' = [r \in Runtimes |-> end[r].memory]
       /\ chain' = [r \in Runtimes |-> end[r].chain]
  /\ edge' = AtTop(call)
  /\ UNCHANGED action

\* The next action, in a fresh memory, while the runtimes agree; what a thrown
\* action changed is undone.
NextAction(a) ==
  /\ status["wavm"] # "running" /\ status["wavm"] = status["wabt"]
  /\ LET c == IF status["wavm"] = "thrown" THEN action.before
              ELSE [chain["wavm"] EXCEPT !.inline = <<>>, !.message = 0, !.printed = FALSE]
     IN /\ chain' = [r \in Runtimes |-> c]
        /\ action' = Starting(a, c)
  /\ memory' = [r \in Runtimes |-> Fresh]
  /\ status' = [r \in Runtimes |-> "running"]
  /\ edge' = FALSE

WhNext ==
  \/ \E call \in Calls : Call(call)
  \/ \E a \in Actions : NextAction(a)

WhSpec == WhInit /\ [][WhNext]_whVars

(***************************************************************************)
(* Whatever integers a contract passes, the native functions touch only    *)
(* its own linear memory, and the two runtimes refuse the same calls and   *)
(* leave the same memory and the same chain behind - except when a         *)
(* reference ends exactly at the top of the memory or an empty array is    *)
(* placed there, which wavm refuses and wabt does not.  (The checks of     *)
(* array_ptr_impl and of the reference invokers, the misaligned copies and *)
(* their write-back in webassembly/wavm.hpp and webassembly/wabt.hpp.)     *)
(***************************************************************************)
HostCallsSound ==
  /\ \A r \in Runtimes : status[r] # "faulted"
  /\ \/ edge
     \/ /\ status["wavm"] = status["wabt"]
        /\ memory["wavm"] = memory["wabt"]
        /\ chain["wavm"] = chain["wabt"]
  /\ status["wavm"] # "thrown" => status["wabt"] = status["wavm"]

-----------------------------------------------------------------------------
(***************************************************************************)
(* The arithmetic contracts reach through intrinsics: softfloat_api, which *)
(* replaces the floating point instructions of WebAssembly by software so  *)
(* that all nodes agree, and compiler_builtins with libraries/builtins,    *)
(* the 128 bit integers and their conversions.  A float is its bit         *)
(* pattern, with ExpBits of exponent and ManBits of significand in place   *)
(* of 8 and 23 (f32), 11 and 52 (f64), 15 and 112 (f128); integers have    *)
(* IntBits in place of 32 or 64, and WideBits in place of 128.  The        *)
(* Berkeley softfloat library is outside the repository: its add, sub and  *)
(* comparisons are exact IEEE operations here.                             *)
(***************************************************************************)

CONSTANTS ExpBits, ManBits, IntBits, WideBits,
          WideInts,   \* the wide integers to try, a set of integers of WideBits
          Thrown      \* the outcome of a call that throws

VARIABLE alu   \* the last call: [op, a, b, res]

fpVars == <<alu>>

Bias == 2^(ExpBits - 1) - 1
Width == 1 + ExpBits + ManBits
SignBit == 2^(ExpBits + ManBits)
Patterns == 0..(2 * SignBit - 1)

Neg(a) == a \div SignBit = 1
AbsBits(a) == a % SignBit
ExpField(a) == AbsBits(a) \div 2^ManBits
ManField(a) == a % 2^ManBits
Inf == (2^ExpBits - 1) * 2^ManBits
IsNan(a) == AbsBits(a) > Inf
IsInf(a) == AbsBits(a) = Inf
Minus(a) == (a + SignBit) % (2 * SignBit)

Bits(exp) == (exp + Bias) * 2^ManBits    \* the pattern of 2^exp
NoNumber == Inf + 2^(ManBits - 1)

-----------------------------------------------------------------------------
(* Values are scaled to integers; Unit is 1. *)

Unit == 2^(Bias + ManBits)
Magnitude(m) == IF m < 2^ManBits THEN 2 * m
                ELSE (2^ManBits + (m % 2^ManBits)) * 2^(m \div 2^ManBits)
Value(a) == IF Neg(a) THEN -Magnitude(AbsBits(a)) ELSE Magnitude(AbsBits(a))

\* The nearest float, ties to the even significand.
Nearest(v) ==
  LET size == IF v < 0 THEN -v ELSE v
      low  == CHOOSE m \in 0..Inf : Magnitude(m) <= size /\ (m = Inf \/ Magnitude(m + 1) > size)
      gap  == Magnitude(low + 1) - Magnitude(low)
      up   == \/ 2 * (size - Magnitude(low)) > gap
              \/ 2 * (size - Magnitude(low)) = gap /\ low % 2 = 1
      m    == IF low = Inf THEN Inf ELSE IF up THEN low + 1 ELSE low
  IN  IF v < 0 THEN m + SignBit ELSE m

FAdd(a, b) ==
  IF IsNan(a) \/ IsNan(b) \/ (IsInf(a) /\ IsInf(b) /\ a # b) THEN NoNumber
  ELSE IF IsInf(a) THEN a ELSE IF IsInf(b) THEN b
  ELSE IF a = SignBit /\ b = SignBit THEN SignBit
  ELSE Nearest(Value(a) + Value(b))
FSub(a, b) == FAdd(a, IF IsNan(b) THEN b ELSE Minus(b))
Ordered(a, b) == ~IsNan(a) /\ ~IsNan(b)
FLt(a, b) == Ordered(a, b) /\ Value(a) < Value(b)
FEq(a, b) == Ordered(a, b) /\ Value(a) = Value(b)
FLe(a, b) == FLt(a, b) \/ FEq(a, b)

-----------------------------------------------------------------------------
(* softfloat_api *)

Gt(a, b) == IF IsNan(a) \/ IsNan(b) THEN FALSE ELSE ~FLe(a, b)
Ge(a, b) == IF IsNan(a) \/ IsNan(b) THEN FALSE ELSE ~FLt(a, b)

FMin(a, b) == IF IsNan(a) THEN a ELSE IF IsNan(b) THEN b
              ELSE IF Neg(a) # Neg(b) THEN (IF Neg(a) THEN a ELSE b)
              ELSE IF FLt(a, b) THEN a ELSE b
FMax(a, b) == IF IsNan(a) THEN a ELSE IF IsNan(b) THEN b
              ELSE IF Neg(a) # Neg(b) THEN (IF Neg(a) THEN b ELSE a)
              ELSE IF FLt(a, b) THEN b ELSE a
CopySign(a, b) == AbsBits(a) + (IF Neg(b) THEN SignBit ELSE 0)

\* Clears the low bits of a pattern that stand for the fraction.
Mask(a, bits) == a - (a % 2^bits)

Ceil32(a) ==
  LET e == ExpField(a) - Bias
      f == ManBits - e
  IN  IF e >= ManBits THEN a
      ELSE IF e >= 0
           THEN IF a % 2^f = 0 THEN a
                ELSE Mask(IF Neg(a) THEN a ELSE a + 2^f - 1, f)
      ELSE IF Neg(a) THEN SignBit
      ELSE IF AbsBits(a) # 0 THEN Bits(0) ELSE a

Floor32(a) ==
  LET e == ExpField(a) - Bias
      f == ManBits - e
  IN  IF e >= ManBits THEN a
      ELSE IF e >= 0
           THEN IF a % 2^f = 0 THEN a
                ELSE Mask(IF Neg(a) THEN a + 2^f - 1 ELSE a, f)
      ELSE IF ~Neg(a) THEN 0
      ELSE IF AbsBits(a) # 0 THEN Minus(Bits(0)) ELSE a

Trunc(a) ==
  LET e == ExpField(a) - Bias + 1 + ExpBits
      k == IF e < 1 + ExpBits THEN 1 ELSE e
  IN  IF e >= ManBits + 1 + ExpBits \/ a % 2^(Width - k) = 0 THEN a ELSE Mask(a, Width - k)

InvEps == Bits(ManBits)
ToInteger(a) == IF Neg(a) THEN FAdd(FSub(a, InvEps), InvEps) ELSE FSub(FAdd(a, InvEps), InvEps)

NearestInt(a) ==
  IF ExpField(a) >= Bias + ManBits THEN a
  ELSE LET y == ToInteger(a) IN IF FEq(y, 0) THEN (IF Neg(a) THEN SignBit ELSE 0) ELSE y

\* The 64 bit versions go through y = int(a) - a.
Ceil64(a) ==
  LET y == FSub(ToInteger(a), a)
  IN  IF ExpField(a) >= Bias + ManBits \/ FEq(a, 0) THEN a
      ELSE IF ExpField(a) <= Bias - 1 THEN (IF Neg(a) THEN SignBit ELSE Bits(0))
      ELSE IF FLt(y, 0) THEN FAdd(FAdd(a, y), Bits(0)) ELSE FAdd(a, y)

Floor64Wrong(a) ==
  LET y == FSub(ToInteger(a), a)
  IN  IF ExpField(a) >= Bias + ManBits \/ a \in {0, SignBit} THEN a
      ELSE IF ExpField(a) <= Bias THEN (IF Neg(a) THEN Minus(Bits(0)) ELSE 0)
      ELSE IF ~FLe(y, 0) THEN FSub(FAdd(a, y), Bits(0)) ELSE FAdd(a, y)

Floor64(a) ==
  LET y == FSub(ToInteger(a), a)
  IN  IF ExpField(a) >= Bias + ManBits \/ a \in {0, SignBit} THEN a
      ELSE IF ExpField(a) <= Bias - 1 THEN (IF Neg(a) THEN Minus(Bits(0)) ELSE 0)
      ELSE IF ~FLe(y, 0) THEN FSub(FAdd(a, y), Bits(0)) ELSE FAdd(a, y)

\* Conversions to integers throw where the integer does not exist.
TruncS(a) == IF Ge(a, Bits(IntBits - 1)) \/ FLt(a, Minus(Bits(IntBits - 1))) \/ IsNan(a) THEN Thrown
             ELSE Value(Trunc(a)) \div Unit
TruncUWide(a) == IF Ge(a, Bits(IntBits)) \/ FLt(a, Minus(Bits(0))) \/ IsNan(a) THEN Thrown
             ELSE Value(Trunc(a)) \div Unit
TruncU(a) == IF Ge(a, Bits(IntBits)) \/ FLe(a, Minus(Bits(0))) \/ IsNan(a) THEN Thrown
             ELSE Value(Trunc(a)) \div Unit

-----------------------------------------------------------------------------
(* compiler_builtins: 128 bit integers, as WideBits of two's complement.   *)
(* A shift by the width or more is undefined in C and left out.            *)

MaxWide == 2^(WideBits - 1) - 1
Unsigned(x) == x % 2^WideBits
Signed(x) == LET u == Unsigned(x) IN IF u > MaxWide THEN u - 2^WideBits ELSE u

ShiftLeft(x, n) == Signed(x * 2^n)
ShiftRightArithmetic(x, n) == x \div 2^n
ShiftRightLogical(x, n) == Signed(Unsigned(x) \div 2^n)

AbsOf(x) == IF x < 0 THEN -x ELSE x
Quotient(x, y) == LET q == AbsOf(x) \div AbsOf(y) IN IF (x < 0) # (y < 0) THEN -q ELSE q
DivTi(x, y) == IF y = 0 THEN Thrown ELSE Signed(Quotient(x, y))
ModTi(x, y) == IF y = 0 THEN Thrown ELSE x - y * Quotient(x, y)

\* ___fixsfti and the others: a float to a 128 bit integer.  A significand
\* shifted into the sign bit is read as it stands.
Shifted(a, e) == LET s == 2^ManBits + ManField(a)
                 IN  IF e < ManBits THEN s \div 2^(ManBits - e) ELSE s * 2^(e - ManBits)
FixTi(a) ==
  LET e == ExpField(a) - Bias
  IN  IF e < 0 THEN 0
      ELSE IF e >= WideBits THEN (IF Neg(a) THEN -MaxWide - 1 ELSE MaxWide)
      ELSE Signed(IF Neg(a) THEN -Shifted(a, e) ELSE Shifted(a, e))
FixUnsTi(a) ==
  LET e == ExpField(a) - Bias
  IN  IF Neg(a) \/ e < 0 THEN 0
      ELSE IF e >= WideBits THEN 2^WideBits - 1 ELSE Shifted(a, e)

Digits(n) == CHOOSE d \in 1..(WideBits + 1) : 2^(d - 1) <= n /\ n < 2^d

\* ___floattidf: a 128 bit integer to a double, rounding to even.
FloatTi(x) ==
  IF x = 0 THEN 0
  ELSE LET n   == AbsOf(x)
           sd  == Digits(n)
           d   == ManBits + 1
           pqr == CASE sd = d + 1 -> 2 * n
                    [] sd = d + 2 -> n
                    [] OTHER -> LET cut == 2^(sd - (d + 2))
                                    top == n \div cut
                                IN  IF n % cut # 0 /\ top % 2 = 0 THEN top + 1 ELSE top
           r   == IF (pqr \div 4) % 2 = 1 /\ pqr % 2 = 0 THEN pqr + 1 ELSE pqr
           cut == (r + 1) \div 4
           man == IF sd <= d THEN n * 2^(d - sd) ELSE IF cut >= 2^d THEN cut \div 2 ELSE cut
           e   == IF sd > d /\ cut >= 2^d THEN sd ELSE sd - 1
       IN  (IF x < 0 THEN SignBit ELSE 0) + (e + Bias) * 2^ManBits + (man % 2^ManBits)

\* ___cmptf2 and what its callers pass for operands that do not compare.
CmpTf(a, b, ifNan) == IF IsNan(a) \/ IsNan(b) THEN ifNan
                      ELSE IF FLt(a, b) THEN -1 ELSE IF FEq(a, b) THEN 0 ELSE 1
IfNan == [eq |-> 1, ne |-> 1, ge |-> -1, gt |-> 0, le |-> 1, lt |-> 0]

-----------------------------------------------------------------------------

FpInit == alu = [op |-> "none", a |-> 0, b |-> 0, res |-> 0]

FpIdle == alu.op = "none"
Called(op, a, b, res) == alu' = [op |-> op, a |-> a, b |-> b, res |-> res]

\* Each records the results of a family of functions on the same operands.
Rounding == FpIdle /\ \E a \in Patterns :
  Called("round", a, 0, [ceil32 |-> Ceil32(a), ceil64 |-> Ceil64(a), floor32 |-> Floor32(a),
                         floor64 |-> Floor64(a), trunc |-> Trunc(a), nearest |-> NearestInt(a)])
Comparing == FpIdle /\ \E a, b \in Patterns :
  Called("compare", a, b, [gt |-> Gt(a, b), ge |-> Ge(a, b), min |-> FMin(a, b), max |-> FMax(a, b),
                           sign |-> CopySign(a, b), cmp |-> [f \in DOMAIN IfNan |-> CmpTf(a, b, IfNan[f])]])
ToInt == FpIdle /\ \E a \in Patterns :
  Called("toint", a, 0, [s |-> TruncS(a), u |-> TruncU(a), ti |-> FixTi(a), uti |-> FixUnsTi(a)])
FromInt == FpIdle /\ \E x \in WideInts : Called("fromint", x, 0, FloatTi(x))
Integers128 == FpIdle /\ \E x, y \in WideInts :
  Called("int", x, y, [div |-> DivTi(x, y), mod |-> ModTi(x, y),
                       shl |-> ShiftLeft(x, y % WideBits), sar |-> ShiftRightArithmetic(x, y % WideBits),
                       shr |-> ShiftRightLogical(x, y % WideBits)])

FpNext == Rounding \/ Comparing \/ ToInt \/ FromInt \/ Integers128

FpSpec == FpInit /\ [][FpNext]_fpVars

-----------------------------------------------------------------------------

\* r is the float of the integer i, with the sign of a where it is zero.
IsInteger(r, i, a) == Value(r) = i * Unit /\ (i = 0 => Neg(r) = Neg(a))

\* Ceil, floor, trunc and nearest, done on the bits for f32 and by adding and
\* subtracting 1/epsilon for f64, return the integer the WebAssembly standard
\* asks for on every pattern, subnormals and zeros of both signs included, and
\* leave infinities and NaNs alone.
RoundingExact ==
  alu.op = "round" =>
    LET a == alu.a   r == alu.res   v == Value(a)
        floor == v \div Unit
        ceil  == -((-v) \div Unit)
        near  == IF 2 * v = (2 * floor + 1) * Unit THEN (IF floor % 2 = 0 THEN floor ELSE floor + 1)
                 ELSE (2 * v + Unit) \div (2 * Unit)
    IN  IF IsNan(a) \/ IsInf(a) THEN \A f \in DOMAIN r : r[f] = a
        ELSE /\ IsInteger(r.ceil32, ceil, a) /\ IsInteger(r.ceil64, ceil, a)
             /\ IsInteger(r.floor32, floor, a) /\ IsInteger(r.floor64, floor, a)
             /\ IsInteger(r.trunc, IF Neg(a) THEN ceil ELSE floor, a)
             /\ IsInteger(r.nearest, near, a)

\* A conversion from float to integer throws exactly when the truncated value is
\* not an integer of the type, a wide integer becomes the nearest float, 128 bit
\* division truncates and never divides by zero, and shifts are those of two's
\* complement; the comparison builtins answer as their callers test them, false
\* for NaN.
ConversionsExact ==
  LET a == alu.a   b == alu.b   r == alu.res
      whole == IF Neg(a) THEN -((-Value(a)) \div Unit) ELSE Value(a) \div Unit
      Fits(low, high) == ~IsNan(a) /\ ~IsInf(a) /\ whole >= low /\ whole < high
  IN  /\ alu.op = "toint" =>
           /\ r.s = (IF Fits(-(2^(IntBits - 1)), 2^(IntBits - 1)) THEN whole ELSE Thrown)
           /\ r.u = (IF Fits(0, 2^IntBits) THEN whole ELSE Thrown)
           /\ Fits(-MaxWide - 1, MaxWide + 1) => r.ti = whole
           /\ Fits(0, 2^WideBits) => r.uti = whole
      /\ alu.op = "fromint" => r = Nearest(a * Unit)
      /\ alu.op = "int" =>
           /\ (b = 0) = (r.div = Thrown) /\ (b = 0) = (r.mod = Thrown)
           /\ b # 0 => /\ Unsigned(r.div * b + r.mod) = Unsigned(a)
                       /\ AbsOf(r.mod) < AbsOf(b) /\ (r.mod = 0 \/ (r.mod < 0) = (a < 0))
           /\ LET n == 2^(b % WideBits)
              IN  r.sar * n <= a /\ a < (r.sar + 1) * n /\ (a >= 0 => r.shr = r.sar)
      /\ alu.op = "compare" =>
           /\ (r.cmp.eq = 0) = FEq(a, b) /\ (r.cmp.ne # 0) = ~FEq(a, b)
           /\ (r.cmp.lt < 0) = FLt(a, b) /\ (r.cmp.le <= 0) = FLe(a, b)
           /\ (r.cmp.gt > 0) = FLt(b, a) /\ (r.cmp.ge >= 0) = FLe(b, a)
           /\ r.gt = FLt(b, a) /\ r.ge = FLe(b, a)
           /\ Ordered(a, b) => /\ FLe(r.min, a) /\ FLe(r.min, b) /\ r.min \in {a, b}
                               /\ FLe(a, r.max) /\ FLe(b, r.max) /\ r.max \in {a, b}
                               /\ {r.min, r.max} = {a, b}

\* "If the value is too large for the integer type, saturate", the comment of
\* ___fixsfti, ___fixdfti and ___fixtfti says of the signed conversions.
FixSaturates ==
  alu.op = "toint" /\ ~IsNan(alu.a) /\ ~Neg(alu.a) /\ Value(alu.a) >= (MaxWide + 1) * Unit =>
     alu.res.ti = MaxWide
=============================================================================
