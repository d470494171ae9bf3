# Tiny-WASM-Compiler: TLA+ models, checks and proofs

The repository is a one-pass WebAssembly compiler for AArch64 in C++. A
`Frontend` reads a module section by section and, in `parseCodeSection`, emits
machine code for each bytecode instruction through an `Assembler`; a `Runtime`
calls the result through one generated wrapper and turns `BRK` into a trap code.
The compiler is sequential. What is hard about it is that the machine code it
leaves behind has state of its own (two stacks, parameter registers, the memory
size in a register, patched branches) whose invariants are spread over many
instruction handlers, and that a trap can leave any of them with a long jump.

Paths below are relative to the repository; line numbers are those of
`src/src/frontend/frontend.cpp` unless another file is named.

## Inventory

| component | state | operations | correct when |
|---|---|---|---|
| generated calls (364-483, 1058-1137, 1430-1481; `backend/aarch64_ins.cpp`: `dec_sp`, `decreaseSPWithClean`) | SP, LR, R0-R6, native stack, operand stack under ROP (X28) | wrapper call, prologue, local.get/set/tee, call, call_indirect, host call, return, trap | frames of live calls are adjacent and above the guard; every RET goes to its caller; ROP is where compile-time validation says; locals survive calls |
| linear memory (109-177, 1165-1344; `runtimeBlock.hpp`) | X25 (bytes), `linearMemoryByteSize`, block | memory and data section, wrapper entry and exit, memory.grow, memory.size, loads, stores, traps | accesses stay in bounds, size within limits and never shrinking, fresh memory zero |
| control-flow compilation (571-765, 829-886, 993-1005, 1418-1422, 1483-1495; `common/stack.cpp`) | validation stack, labels, pending branches, code | block, loop, if, else, end, br, br_if, return, end of function | every branch lands where Wasm says with the right operand height; valid code is accepted, but for operands that code after br or return lacks, and results asked of branches to loops |
| runtime (`runtime.cpp`, `runtime.hpp`) | SIGTRAP handler, `globalTrapEnv`, `globalTrapcode` (process-wide) | constructor, destructor, callByName, handler | a trap ends the call it happened in and is reported once |
| module parser (21-88, 178-363, 1504-1513; `ModuleInfo`) | types, functions, imports, exports, table, elements, code addresses | one per section, in the order of the binary format | every index used at run time means what the section said |
| globals (178-209, 1138-1164) | `globalManager`, slots of 8 bytes | global section, global.get, global.set | a global has the value last written to it |
| numeric instructions (484-570, 766-828, 881-992, 1006-1057, 1345-1372) | R9-R11, flags, bytes under ROP | one per opcode | results and traps are Wasm's |
| bytecode reader (`byteCodeReader.cpp`) | bytes, offset | readByte, readLEB128 | decodes exactly the well-formed integers |
| frame layout (`operandManager`) | size | add, getAlignedSize | offsets disjoint, aligned, encodable |
| assembler (`backend`) | code buffer | one per instruction | encodings |

The components interact by direct calls at compile time and through registers
and memory blocks at run time: a call relies on the frame layout and on the
function address table, `call_indirect` on the table the parser filled,
loads and stores on X25 and X26 as the wrapper set them, and every trap on the
runtime's `sigsetjmp`. Nothing is persistent and there is one thread.

The behaviours that are hard to test, each at its line, are the `hazards` of
`PROJECT.json`.

## Modules

| module | what it is |
|---|---|
| `WasmCalls` | abstract: activations with locals and operands, as Wasm has them |
| `CallFrames` | the machine under generated calls, one action per instruction; implements `WasmCalls` |
| `CallFrames_proofs` | proofs about `CallFrames`, and that it implements `WasmCalls` |
| `WasmMemory` | abstract: pages and bytes |
| `LinearMemory` | X25, the saved size and the block; implements `WasmMemory` |
| `LinearMemory_proofs` | proofs about `LinearMemory`, and that it implements `WasmMemory` |
| `ControlFlow` | the compiler's validation stack, labels and code against Wasm validation |
| `ControlFlow_proofs` | proofs about `ControlFlow` |
| `WasmFunction` | abstract: typed locals and operands, and arithmetic on numbers |
| `PowersOfTwo` | the powers of two, as a recursive function |
| `PowersOfTwo_proofs` | induction from the least number of a set, and the laws of powers and of division by them |
| `BytecodeReader` | readLEB128, one byte at a time, and what the bytes denote |
| `FunctionBody` | a function's frame layout, immediates and instructions down to operand bytes; implements `WasmFunction` |
| `FunctionBody_proofs` | proofs about `FunctionBody`: layout, types, ROP, decoding |
| `FunctionRefinement_proofs` | proof that `FunctionBody` implements `WasmFunction` |
| `ModuleTables` | the sections of a module and what calls and globals find through them |
| `ModuleTables_proofs` | proofs about `ModuleTables` |
| `Runtime` | Compiler and Runtime objects and the globals they share |
| `Runtime_proofs` | proofs about `Runtime` |
| `MC...` | constants for TLC |

### CallFrames

An address is a number of 8-byte words above the stack guard X24, so address 0
is the guard itself; a value takes one word (OP::add packs i32 in 4 bytes, which
changes offsets but not what is saved where). `stack`, `reg`, `lr`, `sp` and
`ops` are the native stack, R0-R6, X30, SP and the operand stack up to ROP.
`pc` is not an address: it says which function runs and how many operands the
compile-time stack gives it there, which is all that an instruction's validation
depends on; after it any instruction may come that validation accepts, so that
the model covers every program over the given functions. A code address
(`CodeAddress`) is a `pc` together with whether a result will be pushed. `acts`
is a history variable: the live activations, with the SP and operand base each
got when it was entered.

`Call` is 1058-1086 in the order of the code: parameters to the frame
(`WithParams`), arguments popped into registers (`ArgsInRegs`), LR to the frame
(`WithLr`), then the callee's prologue (`EnterBody`), which traps or lowers SP
and zeroes the whole frame (`Cleaned`). `Return` contains what runs after the
caller's BLR as well: restoring LR, pushing R0 (`Pushed`), reloading the
caller's parameters (`Reloaded`). `CallImport` lets the host function clobber
all parameter registers. The wrapper's frame is `WrapperSp`.

Constants say which programs are considered: `ExcessReturns` (a return above
other operands, valid Wasm), `IndirectFrom` (bodies with call_indirect),
`ImmWords` (what the immediate of SUB can hold). The passing run uses programs
on which the code keeps Wasm's meaning, and each violation run adds one feature.

### LinearMemory

`x25` is SizeLinMem while JIT code runs, `stored` the runtime block it is kept
in between calls, `mem` the allocated block. `MemoryGrow` is the emitted
sequence: a 32-bit sum compared with the smaller limit, then a 64-bit update.
`Store` keeps apart the bytes that the check covers (`StoreBytes`), those the
emitted STR writes (`StoreWrites`) and the index register of
`str_w_r`/`str_h_w_r` (`IndexedStores`, `FirstRegister`). `Trap` leaves without
saving X25, as `siglongjmp` does. `confirm` aborts the process: "rejected".

### ControlFlow

`stack`, `labels`, `brs` and `code` are `Stack::v_`, LabelManager's vectors and
the code buffer, in which an address is an instruction number. Next to them are
Wasm's own validation frames (`frames`), whether control can reach the current
point (`live`), and two sets of facts about the bytecode: `wanted` (where each
reachable branch must go, and with how many operands) and `lands` (the address
that place turned out to have). Actions are guarded by Wasm's rules, so the
bytecode is always valid, and a failing `confirm` is `Reject`. Linking ORs an
offset into a placeholder (`Linked`), so linking twice corrupts. `Features`
names three kinds of valid code the compiler does not handle. `Ending` lets a
module that has used up `MaxOps` be closed with the fewest instructions that
make it valid, so that every compilation the bound allows is a complete one.

### FunctionBody, BytecodeReader, WasmFunction

A cell is 4 bytes. `slots` and `size` are what `OP::add` keeps, `types` the
validation stack, `reg`, `frame` and `opmem` the parameter registers and the
bytes above SP and below ROP. Compiling an instruction and running it is one
step, which is what lets validation's types and the bytes at run time be
compared; straight-line code runs each instruction once, in the order it was
compiled. An immediate is read byte by byte (`ReadGroup`, one iteration of
readLEB128), and the instruction follows with the last byte. `Prologue` is the
caller's registers, whose upper halves an i32 leaves undefined, and the cleared
frame. `Call` is the call of a function without parameters as seen from its
caller: parameters to the frame, LR to its first 8 bytes, the callee's result,
parameters back (the callee itself is `CallFrames`' subject). `Flags`,
`Satisfied` and `Condition` are CMP and the condition codes each comparison
uses, `Quotient` divides as SDIV does. What the compiler refuses although it is
valid is phase `refused`, with the reason in `outcome`.

`WasmFunction` has the same instructions on numbers: signed comparison and
truncating division are defined on integers, CTZ and CLZ by the powers of two
that divide or exceed. It may refuse at any time; when the compiler may is said by
`LocalsInOrderCompile` and `DecodesWasmIntegers`. Its variable `done` names each
step, so that a step of one must be the same instruction of the other. The
mapping (`WasmLocals`, `WasmOperands`, ...) reads a parameter from its register,
another local from its cells in the frame, and cuts the cells below ROP into
operands by the types of the validation stack (`OperandsOf`).

### ModuleTables

One action opens a section and one parses an item of it, so that what each
section knows when it is parsed is exact: `CompileBody` puts the number of
elements and the pure index of a type into the code as they are then
(`Indirect`), `Finish` fills `elemSig` at the end of the file. `addr` is
funcAddrTable where it has been set, `sites` the calls in compiled code. The
module is a valid one, and what the compiler does not support is `Reject`. A
signature is its sequence of letters. After `Finish`, calls by name, by index
and through the table, and accesses of globals, happen in any order; `last` says
what the latest came to.

### Runtime

`module` and `owner` say which Compiler and Runtime objects exist (a Compiler
outlives the Runtimes that refer to it; nothing else is assumed about their
lifetimes), `helper`, `handler`, `masked`, `env` and `code` are the globals:
`linearMemoryHelper`, SIGTRAP's disposition and mask, `globalTrapEnv` and
`globalTrapcode`. `Compile` includes a module that is refused by an exception
after its import section. A trap is one step, from BRK through the handler to
the second return of `sigsetjmp`. Only myPrintf is ever imported and it makes no
calls, so calls of Runtimes do not nest. The four history variables say when one
object has got in another's way; no action reads them. `TrapsAreCaught` and the
other properties are stated for all programs, with exactly those cases excepted.

## Runs

| run | question | result |
|---|---|---|
| `call_frames` | do frames, registers and ROP implement Wasm calls? | passes |
| `linear_memory` | is memory Wasm's? | passes |
| `control_flow` | do branches land, and is valid code refused only where `Excused` says? | passes |
| `runtime` | when does one object's trap or import reach another's? | passes |
| `function_body` | do locals, immediates and instructions compute what Wasm says, and which valid functions are refused? | passes |
| `module_tables` | do names, indices, table elements and globals lead where the module says? | passes |
| `call_indirect_params` | are parameters stored before call_indirect? | no: 1134 reloads what nothing stored |
| `call_excess_return` | is ROP right after a return above other operands? | no: 585 |
| `memory_grow_wraps` | does memory.grow respect its limit for every delta? | no: 1312 |
| `memory_growth_lost` | does growth survive a trap? | no: 135 |
| `memory_store8` | does i32.store8 stay within memory? | no: 1273 |
| `memory_store_indexed` | do i32.store and i32.store16 use the checked address? | only when X0 is 0 |

Bounds, and why they are enough:

* `call_frames`: a function with a parameter, a local and a result, one with
  none of them, and a host function; 12 words of stack, which is the wrapper's
  frame and frames of 4 and 2 words, so recursion of both functions overflows
  at different depths and at every alignment to the guard; two operands per
  function (one beneath the argument of a call). `ImmWords` = 8 is larger than
  every frame; a frame that is not loses bits of its size at
  `aarch64_ins.cpp:170`, which `ProgramFits` excludes.
* `linear_memory`: three pages of four bytes and 32-bit words of 32 values
  (the block has 12 bytes, so that addresses and page counts beyond it exist);
  an i32 fits, straddles, starts at and lies beyond the end of memory; with and
  without a maximum, one below and one at the embedder's limit. The deltas of
  the passing run do not wrap; those of `memory_grow_wraps` do.
* `control_flow`: six instructions besides the ENDs, frames nested two deep in
  a function, two functions, so that labels, patches and the residue of one
  function meet those of the next.
* `function_body`: an i32 of 4 bits and an i64 of 8, half words of 2, LEB128
  groups of 3, so that the last group of each type has bits to spare, as groups
  of 7 have for 32 and 64. No parameters, and one of each type in both orders;
  up to two declared locals, four instructions. Immediates are arbitrary in
  functions without locals (all values of an i32, and of both operands of an
  instruction on two i32) and samples elsewhere. `MaxReach` cuts off the last
  locals, as 255 bytes do.
* `module_tables`: five items shared among types, functions, elements, exports
  and globals, so that two types, two functions and an element, or two globals'
  slots, meet; function types that differ in one letter or in its
  place, one with an unsupported type and one with too many parameters; 2-bit
  i32 with a positive and a negative value.
* `runtime`: two Runtimes, three modules (two with the import), two trap codes:
  enough for one object to be constructed, trap or be destroyed between any two
  steps of another, and for the freed or foreign memory of a third module.

All but `call_frames` leave deadlock unchecked: a refused module has nothing
left to do, a compilation or a function ends, a process may be killed.

Fairness: `ControlFlow!Spec` has `WF_vars(Next)`. The compiler is one loop over
the finite bytecode of a module, without waiting for anything, so it goes on
until the module is compiled or refused; weak fairness of the whole step says no
more than that. `BranchesEventuallyLand` needs it. The other modules state none:
there the steps are the generated program's, which may loop for ever, or a
host's, which need not call.

## Proofs

`CallFrames_proofs` shows, for every set of functions, signatures, table, stack
size and set of values,

    ProgramFits => (Spec => []Inv)   for FramesContiguous, ReturnChain,
                                     OperandsMatch and TypeOK.

`ProgramFits` is the assumption that returns have nothing but the result above
the frame's base (what happens otherwise is `call_excess_return`) and that frame
sizes fit the immediate of SUB. The named assumptions of the module (`SignaturesAssumption`,
`ValuesAssumption`, `SizesAssumption`) are evaluated by every run.

None of the four is inductive alone. `IInv` is the conjunction of the first
three, of types that keep nothing apart (`WordsTyped`) and of two facts about
the ghost activations: the frame of any activation lies below the frames of all
its callers, not only of its own (`Ordered`), and below the wrapper's
(`BelowWrapper`). They are what lets one step's writes be separated from every
caller at once. The argument about a RET is: the frames are adjacent, so raising
SP gives the caller's SP; its word 0 was written by `WithLr` when it made the
call; no step since wrote at or above the caller's SP, since every store of the
innermost activation is at an offset inside its own frame; hence LR is the
caller's code address. There is one lemma per action, and lemmas for entering a
body, which three actions share. `TypeOK` comes after it: that no code address
or stale word reaches a local, an operand or a result (`Separated`) is inductive
once `IInv` says where the frames are, since a saved LR is the one word of a
frame that no local is read from, and RET takes LR from exactly that word.

The module goes on from there and shows

    ProgramFits => (Spec => CallersUntouched)
    ProgramFits /\ IndirectFits => (Spec => ImplementsWasmCalls)

where `IndirectFits` says that functions with parameters make no call_indirect
(`call_indirect_params` is what happens when they do). A Wasm activation is
`Active` if it is the innermost (parameters in registers) and `Waiting` if not
(everything in its frame, operands up to its callee's base). A step of the
innermost activation cannot change a waiting one (`WaitingSame`): it writes below
the frames of all callers and pops nothing under its own base. That needs one
more invariant, `BasesOrdered`: the operand bases of any two activations, not only
of a caller and its callee, are in order. A call turns `Active` into `Waiting`
because CALL has just stored the parameters (`SavedLocals`), a return the reverse
because the code behind BLR reloads them; the callee starts as
`WasmCalls!Activation` because the prologue clears its whole frame (`NewTop`).

`LinearMemory_proofs` shows, for every page size, block, word width, data and
address,

    SizesFit => (Spec => []Inv)                        for TypeOK, SizeWithinLimits
    SizesFit /\ ~TrapsAfterGrowth => (Spec => SizeNeverShrinks)
    MemoryFits => (Spec => []BeyondSizeZero)

`SizesFit` is what the size of the memory depends on: initial sizes fit the
block and deltas do not wrap (`memory_grow_wraps` is what happens otherwise).
Nothing else is needed for X25 to stay in the block: not that stores write what
was checked, not that data lies in the memory, not that calls end without a trap
(what a stray store beyond the block overwrites is not modelled: of such a store
the theorems speak only as far as it lands in the block). The contents need
more, and `MemoryFits` adds it, one conjunct each: no trap follows a growth, a
store writes what was checked where it was checked, data lies in the declared
memory. Five of the six conditions are the subject of a violation run or of a
hazard, and the constants of `MCLinearMemory.cfg` satisfy all six.

There are two inductive invariants. `SInv` is about the sizes; it adds that there is
no memory before the memory section, and that the saved size is whole pages also
while a call runs on another size, since that is what a trap falls back to.
`IInv` adds `BeyondSizeZero`: a checked store ends at X25, `MemoryGrow` only moves
X25 up, and the memory section uncovers a block nobody has written to. Each action
has a lemma for each of the two (`...Sizes`, `...Fresh`).

The refinement is `MemoryFits => (Spec => ImplementsWasmMemory)`:
`Size \div PageSize` pages, the limit of either the module or the embedder, and
the block up to `Size`. There is one lemma per action: each maps to the action of
the same name, the refusal of a module to `Refuse`. `memory.grow` needs most:
the 32-bit sums do not wrap (`GrowthTest`), and the bytes between the old and the
new size are zero (`BeyondSizeZero`), as Wasm says of new pages.

`Runtime_proofs` shows `Spec => []Inv` for `TypeOK`, `TrapsAreCaught`,
`TrapCodeIsOwn` and `OwnMemoryOnly`, for every set of objects, with no assumption
but the names being distinct. The invariant adds what the four leave out: whoever
lives while there is no handler has seen a destructor remove it (`Unhandled`),
every module whose import section is the last one has the helper
(`HelperPoints`), and references are to objects that exist (`Referred`).

`FunctionBody_proofs` shows `Spec => []SlotsDisjoint` and
`Spec => []LocalsInOrderCompile` for any parameters, locals and code. The
invariant adds `Doubled`: as long as only i64 have been declared, slot k begins at
cell 2k, so an i64 that comes before every i32 is aligned. An instruction leaves
the layout alone and is refused only if some slot cannot be reached
(`Instruction`, one lemma per action); the padding of the frame is less than four
cells (`Aligned`).

The same module shows, for any width of i32, i64, half word and LEB128 group that
`FunctionAssumption` admits (an i64 has two cells and fits a register, an i32
has one), the three properties that are about numbers:

* `Spec => []TypeOK` and `Spec => []RopMatches`, from `MInv`: registers, frame and
  operand stack hold bytes that are in range, ROP is the number of cells the
  validation stack stands for, every local's slot lies in the frame. There is one
  lemma for what loading and storing do to cells (`LoadedTyped`, `WordsHold`),
  one for each operation of the ALU, and one per action (`PushedTyped` and
  `PoppedTyped` carry the operand stack).
* `Spec => []DecodesWasmIntegers`, from `DInv`: while an immediate is being read,
  `value` is the number that the bytes so far denote and `shift` is where the next
  goes (`AccumulatedIs`). The last byte is where it is decided: the bits beyond
  the width are all equal to the sign exactly if the code accepts it
  (`PaddingIsSign`), and then the sign extension and the half words that MOVZ and
  MOVK assemble give the value the whole sequence denotes (`DenotedIs`,
  `MovedIsValue`, `DecodedIs`).

`FunctionRefinement_proofs` shows that the code of a function does what Wasm says
of it, `Spec => ImplementsWasmFunction`, from `MInv` alone and the fact that a
function starts without operands (`Unstarted`). It has three layers:

* the arithmetic, for numbers of n bits and any n: SDIV on magnitudes is Wasm's
  truncating division (`QuotientIs`), the negated subtrahend of SUB wraps as Wasm's
  difference (`AluIs`), the flags of CMP under each condition code decide the
  signed and unsigned comparisons (`ComparesIs`), RBIT and CLZ count what
  divisibility by powers of two counts (`ReversedIs`, `CountsAre`), and DIV_S
  traps on one pair of operands only (`TrapsIs`);
* the data: the cells below ROP are Wasm's operands (`TopOperand`,
  `PushedOperand`), a cell written for one local is none of another's
  (`StoredApart`, `SlotsApart`), a call restores the parameters it saved and
  touches no other local (`SavedParam`, `UncoveredLocal`), the cleared frame is
  the zeros of the declared locals (`PrologueIs`);
* the steps: one lemma per action, each to the Wasm action of the same name;
  fetching and reading an immediate are invisible, until the last byte, which
  is the instruction (`ReadGroupIs`, `PerformIs`).

All of this needs powers of two for every exponent, which no backend knows. The prover
cannot instantiate the library's induction theorems, but it can use well-foundedness
of the naturals for a given set (`LeastNumber`), so that induction is on the set of
counterexamples (`Induction`, `InductionUpTo`), and the existence of the function
that a recursive equation defines is proved once for `Pow2` (`RecursionExists`)
and in the same way for the sums over half words and bits of `FunctionBody`.

`ModuleTables_proofs` shows `Spec => []IndirectCallsTyped` and
`Spec => []CallsReachFunctions` for any types, names and number of entries. The
argument: letters and the bracket determine the types (`SignatureInjective`; the
position of the bracket is what `UnseparatedSignature` loses), equal signatures
are the same pure index (`PureIndices`), a call site's immediates stay true
because the sections they come from are closed before the code section begins
(`InOrder`, `Sites`), and each function's address is entered exactly when its
body has been parsed (`Addresses`).

It also shows `Spec => []TypeOK` and `Spec => []GlobalsKeepTheirValues`: a global's
8-byte slot holds its value sign-extended by the parser or zero-extended by
GLOBAL_SET, and in either case what global.get reads is the value; slots are as
many as globals and never move. `LiteralsAssumption` says that the literals of a
module are within the width of their types.

`ControlFlow_proofs` is about bytecode of any length, nesting and number of
functions, which is where a run of six instructions says least:

    Spec => []TypeOK      Spec => LinkedOnce
    Features = {} => (Spec => []Inv)  for BranchesLand, StackMirrorsWasm
    Features = {} => (Spec => ValidAccepted)

The first two hold whatever the `Features`. The other three assume there are
none, as the passing run does: each Feature is valid code on which one of them
fails, by the code's own lines. The invariant has to find Wasm's
frames on the compiler's stack, and there it helps to name the places: `Base(c, d)`
says that frame k's control element is at `c[k]` and its part of the stack
begins at `d[k]`, which differ only when an ELSE lies above its IF
(`Positions`), that everything else is operands (`Others`), that each placeholder
of a branch has one owner, an open IF or ELSE or one entry of `brs`
(`Placeholders`: hence linked once), and that a label is unfilled just as long
as its block is open (`LabelsFilled`: hence `relpatchAllLabels` finds an address
for every branch). The actions that push or pop only operands share one lemma
(`Straight...`); Block, If, Else and the ENDs have their own, which give the c and d
of the next state. `Flow` adds where each reachable branch is on its way: linked,
registered with a label of its block, or the placeholder of an open IF or ELSE
(`Way`), and after the function's end, where it must be and owned by nobody
(`Finished`, which is what keeps later functions from patching it).
`findTargetBlock` counts BLOCK elements only, so it finds Wasm's target as long as
no IF lies between (`TargetIsFound`, by counting: `CountImage`). `Operands` says
how many values lie between control elements, except in code after a `return` or
`br`; with it each `confirm` of END and ELSE holds because Wasm's rule does, and
`ValidAccepted` follows: a confirm fails only where the dead code of the innermost
frame lacks an operand (`Lacking`), at the END of such a frame or of an ELSE whose
true branch was one (`dead` and `deadIf` of the Wasm frame say so), and at a branch
to a loop that has a result (`LackingAt`). The code does refuse valid modules there
(843-848, 853), so the property states what it accepts, not that it accepts all.

Model-checked only: `BranchesEventuallyLand`, which is liveness under fairness and
out of the prover's reach.

## Plan

All modules of the plan are there. What would come next:

1. A single-Runtime abstract specification of `Runtime`.
2. A composition of `ModuleTables` with `CallFrames`, whose function table is a
   constant today.

## Not modelled

* Bit layouts of instructions: no state that other parts rely on, and the
  encodings that do matter are in the models (scaled offsets, masked immediates,
  OR-ed branch offsets, STR's index register, condition codes).
* Malformed modules, and custom, data-count and start sections, magic number and
  version: `ModuleTables` takes a valid file with the sections that have state.
* `ExecutableMemory` (mmap, copying, disassembly), file input, logging, the demo
  and the test driver: input and output.
* Branch ranges (imm19, imm26), tables of more than 4095 elements and the 64 KB
  end of the operand stack: sizes no bounded model reaches.
* X24-X28 as the host compiler uses them across a call.
