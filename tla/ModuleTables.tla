---------------------------- MODULE ModuleTables ----------------------------
(***************************************************************************)
(* The index spaces of a module: what Frontend::startCompilation fills     *)
(* section by section (types, functions, the table and its elements,       *)
(* exports, globals, code addresses), and what calls by name, by index and *)
(* through the table, and accesses of globals, later find there.           *)
(*                                                                         *)
(* A step opens a section or parses one of its items.  The module is a     *)
(* valid one: sections in order, indices in range, one body per function.  *)
(* Indices count from 0, as in the code; sequences from 1.                 *)
(***************************************************************************)
EXTENDS Integers, Sequences, FiniteSets, PowersOfTwo

CONSTANTS
  FuncTypes,    \* the function types modules use: [params, results]
  Names,        \* names of exported functions
  MaxParams,    \* config::MaxParamsForWasmFunction
  Bits,         \* an i32 has that many bits, a slot of globalMemory twice
  Literals,     \* Literals[t]: constants of type t, as the bits of t
  MaxItems,     \* bound: types, functions, elements, exports and globals
  MaxEntries    \* bound: globals, and entries of the table

\* The letters of a signature.
SignatureType == [I32 |-> "i", I64 |-> "I", F32 |-> "f", F64 |-> "F"]
ValueTypes == DOMAIN SignatureType

ASSUME ContentsAssumption ==
  /\ FuncTypes \subseteq [params : Seq(ValueTypes), results : Seq(ValueTypes)]
  /\ MaxItems \in Nat /\ MaxEntries \in Nat /\ MaxParams \in Nat /\ Bits \in Nat \ {0}

\* A global is an i32 or an i64.
ASSUME LiteralsAssumption ==
  /\ DOMAIN Literals = {"I32", "I64"}
  /\ Literals["I32"] \subseteq 0..(Pow2[Bits] - 1)
  /\ Literals["I64"] \subseteq 0..(Pow2[2 * Bits] - 1)

VARIABLES
  at,         \* the section being parsed, "run" or "rejected"
  left,       \* items of that section still to be read
  typeInfo,   \* module_.typeInfo_, without the signature that TypeSignature gives
  pureSig,    \* signatureStringToPureSigIndex
  funcType,   \* funcIndex2TypeIndex_
  imports,    \* importsFunctionNumbers
  table,      \* hasTable, tableInitialSize
  elements,   \* elementIndexToFunctionIndex, numberElements of them
  elemSig,    \* elementIndexToPureSignatureIndex
  exports,    \* exportFuncNameToIndex_
  globals,    \* globalManager
  globalMem,  \* globalMemory, by slot of 8 bytes
  addr,       \* funcAddrTable, where it has been set
  sites,      \* the calls in compiled code, with the immediates in them
  current,    \* history: the value the program gave each global last
  last        \* history: what the last operation at run time came to

parsed == <<typeInfo, pureSig, funcType, imports, table, exports, globals>>
blocks == <<elements, elemSig, globalMem, addr>>
histories == <<current, last>>
vars == <<at, left, parsed, blocks, sites, histories>>

\* Where a call goes, or why it does not.
Body(f) == [kind |-> "body", fn |-> f]
End(kind) == [kind |-> kind]
Host == End("host")
Nowhere == End("unset")
None == End("none")

NFuncs == Len(funcType)
Declared == 0..(NFuncs - 1)
TypeOf(f) == typeInfo[funcType[f + 1] + 1]
Slots == 0..(MaxItems - 1)
WithAddr(f, to) == [g \in DOMAIN addr \cup {f} |-> IF g = f THEN to ELSE addr[g]]
AddrOf(f) == IF f \in DOMAIN addr THEN addr[f] ELSE Nowhere

Init ==
  /\ at = "start" /\ left = 0
  /\ typeInfo = <<>> /\ funcType = <<>> /\ imports = 0
  /\ pureSig = [s \in {} |-> 0]
  /\ table = [has |-> FALSE, initial |-> 0]
  /\ elements = <<>> /\ elemSig = <<>>
  /\ exports = [name \in {} |-> 0]
  /\ globals = <<>> /\ globalMem = [slot \in Slots |-> 0]
  /\ addr = [f \in {} |-> Nowhere]
  /\ sites = {} /\ current = <<>> /\ last = None

\* A confirm or an exception.
Reject ==
  at' = "rejected" /\ left' = 0 /\ UNCHANGED <<parsed, blocks, sites, histories>>

-----------------------------------------------------------------------------
\* startCompilation goes from section to section; parse...Section reads how
\* many items there are, and then the items.
Rank == [start |-> 0, type |-> 1, import |-> 2, function |-> 3, table |-> 4,
         global |-> 5, export |-> 6, element |-> 7, code |-> 8]
Items == Len(typeInfo) + NFuncs + Len(elements) + Cardinality(DOMAIN exports) + Len(globals)

Follows(s) == at \in DOMAIN Rank /\ left = 0 /\ Rank[at] < Rank[s]
Begins(s, n) == at' = s /\ left' = n

Open(s, n) ==
  /\ Follows(s) /\ Items + n <= MaxItems
  /\ s \in {"import", "function"} => typeInfo # <<>>
  /\ s = "export" => NFuncs > 0
  /\ s = "global" => n <= MaxEntries
  /\ Begins(s, n) /\ UNCHANGED <<parsed, blocks, sites, histories>>

Item(s) == at = s /\ left > 0
OneLess == left' = left - 1 /\ UNCHANGED at

\* parseTypeSection.  Types with the same signature share a pure index.
Letters(types) == [k \in DOMAIN types |-> SignatureType[types[k]]]
UnseparatedSignature(t) == <<"(">> \o Letters(t.params) \o Letters(t.results)
TypeSignature(t) == (<<"(">> \o Letters(t.params)) \o (<<")">> \o Letters(t.results))

\* SignatureMap::set.
WithSignature(sig) ==
  [s \in DOMAIN pureSig \cup {sig} |->
     IF s \in DOMAIN pureSig THEN pureSig[s] ELSE Cardinality(DOMAIN pureSig)]

Type(t) ==
  /\ Item("type")
  /\ \/ (Len(t.params) > MaxParams \/ Len(t.results) > 1) /\ Reject
     \/ /\ Len(t.params) <= MaxParams /\ Len(t.results) <= 1 /\ OneLess
        /\ typeInfo' = Append(typeInfo, t)
        /\ pureSig' = WithSignature(TypeSignature(t))
        /\ UNCHANGED <<funcType, imports, table, exports, globals, blocks, sites, histories>>

\* parseImportSection: the only import there is is env.myPrintf.
Import(typeIndex, isPrintf) ==
  /\ Item("import") /\ typeIndex < Len(typeInfo)
  /\ \/ ~isPrintf /\ Reject
     \/ /\ isPrintf /\ OneLess
        /\ funcType' = Append(funcType, typeIndex)
        /\ addr' = WithAddr(NFuncs, Host)
        /\ imports' = IF left = 1 THEN NFuncs + 1 ELSE imports
        /\ UNCHANGED <<typeInfo, pureSig, table, exports, globals, elements, elemSig,
                       globalMem, sites, histories>>

Function(typeIndex) ==
  /\ Item("function") /\ typeIndex < Len(typeInfo) /\ OneLess
  /\ funcType' = Append(funcType, typeIndex)
  /\ UNCHANGED <<typeInfo, pureSig, imports, table, exports, globals, blocks, sites, histories>>

\* parseTableSection: a table with a limit must not be able to grow.
Table(initial, limited, max) ==
  /\ Follows("table") /\ (limited => initial <= max)
  /\ \/ limited /\ initial # max /\ Reject
     \/ /\ (limited => initial = max) /\ Begins("table", 0)
        /\ table' = [has |-> TRUE, initial |-> initial]
        /\ UNCHANGED <<typeInfo, pureSig, funcType, imports, exports, globals, blocks,
                       sites, histories>>

\* parseGlobalSection.  A mutable global has a slot, an i32 fills it with its
\* sign; the value of another is an immediate of the code.
IsI64(t) == t = "I64"
SignedValue(t, v) == IF IsI64(t) \/ v < Pow2[Bits - 1] THEN v ELSE v - Pow2[Bits]
SignExtended(t, v) ==
  IF IsI64(t) \/ v < Pow2[Bits - 1] THEN v ELSE v + Pow2[2 * Bits] - Pow2[Bits]
FirstSlot == 0
NextSlot == Cardinality({k \in DOMAIN globals : globals[k].isMutable})
Global(t, isMutable, v) ==
  LET info == [is64bit |-> IsI64(t), isMutable |-> isMutable,
               slot |-> IF isMutable THEN NextSlot ELSE 0, value |-> SignExtended(t, v)]
  IN  /\ Item("global") /\ OneLess
      /\ globals' = Append(globals, info)
      /\ globalMem' = IF isMutable THEN [globalMem EXCEPT ![NextSlot] = info.value]
                      ELSE globalMem
      /\ current' = Append(current, v)
      /\ UNCHANGED <<typeInfo, pureSig, funcType, imports, table, exports, elements,
                     elemSig, addr, sites, last>>

\* parseExportSection: other exports than functions are skipped.
Export(name, f, isFunc) ==
  /\ Item("export") /\ f \in Declared
  /\ \/ ~isFunc /\ OneLess /\ UNCHANGED <<parsed, blocks, sites, histories>>
     \/ isFunc /\ name \in DOMAIN exports /\ Reject
     \/ /\ isFunc /\ name \notin DOMAIN exports /\ OneLess
        /\ exports' = [n \in DOMAIN exports \cup {name} |->
                         IF n = name THEN f ELSE exports[n]]
        /\ UNCHANGED <<typeInfo, pureSig, funcType, imports, table, globals, blocks,
                       sites, histories>>

\* parseElementSection: one segment, which must fill the table.
OpenElements(n) ==
  /\ Follows("element") /\ table.has /\ n <= table.initial
  /\ n > 0 => NFuncs > 0
  /\ Items + n <= MaxItems
  /\ \/ n # table.initial /\ Reject
     \/ /\ n = table.initial /\ Begins("element", n)
        /\ UNCHANGED <<parsed, blocks, sites, histories>>

Element(f) ==
  /\ Item("element") /\ f \in Declared
  /\ \/ f < imports /\ Reject
     \/ /\ f >= imports /\ OneLess
        /\ elements' = Append(elements, f)
        /\ UNCHANGED <<parsed, elemSig, globalMem, addr, sites, histories>>

-----------------------------------------------------------------------------
\* parseCodeSection, one body at a time; a body may have one call.
Direct(f) == [kind |-> "direct", fn |-> f]
Indirect(typeIndex) ==
  [kind |-> "indirect", type |-> typeIndex,
   expected |-> pureSig[TypeSignature(typeInfo[typeIndex + 1])], bound |-> Len(elements)]
Calls ==
  {None} \cup {Direct(f) : f \in Declared}
         \cup (IF table.has THEN {Indirect(k) : k \in 0..(Len(typeInfo) - 1)} ELSE {})

OpenCode ==
  /\ Follows("code") /\ Begins("code", NFuncs - imports)
  /\ UNCHANGED <<parsed, blocks, sites, histories>>

Parsed == NFuncs - imports - left
CurrentFunc == Parsed + imports
Supported(t) == \A k \in DOMAIN t.params : t.params[k] \in {"I32", "I64"}
FullTable == Len(elements) = table.initial

CompileBody(call) ==
  LET f == CurrentFunc
  IN  /\ Item("code") /\ call \in Calls
      /\ \/ ~(Supported(TypeOf(f)) /\ (call.kind = "indirect" => FullTable)) /\ Reject
         \/ /\ Supported(TypeOf(f)) /\ (call.kind = "indirect" => FullTable) /\ OneLess
            /\ addr' = WithAddr(f, Body(f))
            /\ sites' = sites \cup ({call} \ {None})
            /\ UNCHANGED <<parsed, elements, elemSig, globalMem, histories>>

\* The end of the file: makeElementIndexToPureSignatureIndex.
Finish ==
  /\ at \in DOMAIN Rank /\ left = 0 /\ (NFuncs > imports => at = "code")
  /\ at' = "run"
  /\ elemSig' = IF table.has
                  THEN [e \in DOMAIN elements |-> pureSig[TypeSignature(TypeOf(elements[e]))]]
                  ELSE elemSig
  /\ UNCHANGED <<left, parsed, elements, globalMem, addr, sites, histories>>

-----------------------------------------------------------------------------
\* At run time.
Ran(what) ==
  /\ at = "run" /\ last' = what
  /\ UNCHANGED <<at, left, parsed, elements, elemSig, addr, sites>>

\* Runtime::callByName, asked for a function of type t; validateSignature.
CallByName(name, t) ==
  /\ Ran([kind |-> "named", name |-> name, type |-> t,
          to |-> IF name \notin DOMAIN exports THEN End("Function not found")
                 ELSE IF TypeSignature(TypeOf(exports[name])) # TypeSignature(t)
                        THEN End("Signature validation failed")
                 ELSE AddrOf(exports[name])])
  /\ UNCHANGED <<globalMem, current>>

CallDirect(site) ==
  /\ site \in sites /\ site.kind = "direct"
  /\ Ran([kind |-> "direct", fn |-> site.fn, to |-> AddrOf(site.fn)])
  /\ UNCHANGED <<globalMem, current>>

InTable(e, site) == e < site.bound
CallIndirect(site, e) ==
  /\ site \in sites /\ site.kind = "indirect"
  /\ Ran([kind |-> "indirect", type |-> site.type, element |-> e,
          to |-> IF ~InTable(e, site) THEN End("TableElement_out_of_range")
                 ELSE IF elemSig[e + 1] # site.expected
                        THEN End("IndirectCall_signature_mismatch")
                 ELSE AddrOf(elements[e + 1])])
  /\ UNCHANGED <<globalMem, current>>

\* GLOBAL_GET and GLOBAL_SET move whole slots, the operand stack has the width
\* of the type.
OfType(g, x) == IF g.is64bit THEN x ELSE x % Pow2[Bits]
GlobalGet(k) ==
  LET g == globals[k]
      x == IF g.isMutable THEN globalMem[g.slot] ELSE g.value
  IN  /\ Ran([kind |-> "get", global |-> k, value |-> OfType(g, x)])
      /\ UNCHANGED <<globalMem, current>>

GlobalSet(k, v) ==
  /\ globals[k].isMutable
  /\ globalMem' = [globalMem EXCEPT ![globals[k].slot] = v]
  /\ current' = [current EXCEPT ![k] = v]
  /\ Ran(None)

Next ==
  \/ \E s \in {"type", "import", "function", "global", "export"}, n \in 1..MaxItems : Open(s, n)
  \/ \E t \in FuncTypes : Type(t)
  \/ \E k \in Slots, isPrintf \in BOOLEAN : Import(k, isPrintf)
  \/ \E k \in Slots : Function(k)
  \/ \E initial, max \in 0..MaxEntries, limited \in BOOLEAN : Table(initial, limited, max)
  \/ \E t \in DOMAIN Literals, isMutable \in BOOLEAN : \E v \in Literals[t] : Global(t, isMutable, v)
  \/ \E name \in Names, f \in Slots, isFunc \in BOOLEAN : Export(name, f, isFunc)
  \/ \E n \in 0..MaxEntries : OpenElements(n)
  \/ \E f \in Slots : Element(f)
  \/ OpenCode
  \/ \E call \in Calls : CompileBody(call)
  \/ Finish
  \/ \E name \in Names, t \in FuncTypes : CallByName(name, t)
  \/ \E site \in sites : CallDirect(site)
  \/ \E site \in sites, e \in 0..MaxEntries : CallIndirect(site, e)
  \/ \E k \in DOMAIN globals : GlobalGet(k)
  \/ \E k \in DOMAIN globals :
       \E v \in Literals[IF globals[k].is64bit THEN "I64" ELSE "I32"] : GlobalSet(k, v)

Spec == Init /\ [][Next]_vars

-----------------------------------------------------------------------------
\* Every variable has its type.
TypeOK ==
  /\ at \in DOMAIN Rank \cup {"run", "rejected"} /\ left \in 0..MaxItems
  /\ typeInfo \in Seq(FuncTypes) /\ funcType \in Seq(Nat) /\ imports \in Nat
  /\ \A s \in DOMAIN pureSig : pureSig[s] \in Nat
  /\ table \in [has : BOOLEAN, initial : 0..MaxEntries]
  /\ elements \in Seq(Slots) /\ elemSig \in Seq(Nat)
  /\ DOMAIN exports \subseteq Names /\ \A n \in DOMAIN exports : exports[n] \in Slots
  /\ globals \in Seq([is64bit : BOOLEAN, isMutable : BOOLEAN, slot : Slots,
                      value : 0..(Pow2[2 * Bits] - 1)])
  /\ globalMem \in [Slots -> 0..(Pow2[2 * Bits] - 1)]
  /\ DOMAIN addr \subseteq Slots
  /\ \A f \in DOMAIN addr : addr[f] \in {Host, Body(f)}
  /\ current \in Seq(0..(Pow2[2 * Bits] - 1)) /\ Len(current) = Len(globals)

\* A call through the table runs the function that is there if its type has
\* the same parameters and results as the one called for, whatever its index;
\* it traps if the element has another type or is not there.
IndirectCallsTyped ==
  last.kind = "indirect" =>
    IF last.element >= Len(elements)
      THEN last.to = End("TableElement_out_of_range")
      ELSE LET f == elements[last.element + 1]
           IN  last.to = IF TypeOf(f) = typeInfo[last.type + 1]
                           THEN Body(f) ELSE End("IndirectCall_signature_mismatch")

\* A direct call runs the function it names, which may be the host's; a call by
\* name runs the exported function, and only if it has the type asked for.
Target(f) == IF f < imports THEN Host ELSE Body(f)
CallsReachFunctions ==
  /\ last.kind = "direct" => last.to = Target(last.fn)
  /\ last.kind = "named" /\ last.to \in {Host, Nowhere} \cup {Body(f) : f \in Slots} =>
       /\ last.name \in DOMAIN exports
       /\ last.to = Target(exports[last.name])
       /\ TypeOf(exports[last.name]) = last.type

\* Every read of a global gives what was last written to it, or its initial
\* value: neither the widths nor the slots of other globals interfere.
GlobalsKeepTheirValues == last.kind = "get" => last.value = current[last.global]
=============================================================================
