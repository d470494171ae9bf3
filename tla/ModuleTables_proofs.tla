------------------------- MODULE ModuleTables_proofs -------------------------
(***************************************************************************)
(* For every set of function types and modules of any size: a call through *)
(* the table reaches exactly the functions of the type it asks for.        *)
(***************************************************************************)
EXTENDS ModuleTables, PowersOfTwo_proofs, FiniteSetTheorems, TLAPS

WasmTypes == [params : Seq(ValueTypes), results : Seq(ValueTypes)]
Stages == {"start", "type", "import", "function", "table", "global", "export",
           "element", "code"}

\* The letters of a list of types, and where they are in a signature.
LEMMA LettersOfTypes ==
  ASSUME NEW ts \in Seq(ValueTypes)
  PROVE  /\ Letters(ts) \in Seq({"i", "I", "f", "F"})
         /\ Len(Letters(ts)) = Len(ts)
         /\ \A k \in 1..Len(ts) : Letters(ts)[k] = SignatureType[ts[k]]
<1>1. DOMAIN ts = 1..Len(ts) /\ Len(ts) \in Nat
  OBVIOUS
<1>2. \A t \in ValueTypes : SignatureType[t] \in {"i", "I", "f", "F"}
  BY DEF ValueTypes, SignatureType
<1>3. \A k \in 1..Len(ts) : ts[k] \in ValueTypes
  OBVIOUS
<1>4. Letters(ts) = [k \in 1..Len(ts) |-> SignatureType[ts[k]]]
  BY <1>1 DEF Letters
<1> QED
  BY <1>1, <1>2, <1>3, <1>4

LEMMA LettersInjective ==
  ASSUME NEW ts \in Seq(ValueTypes), NEW us \in Seq(ValueTypes),
         Letters(ts) = Letters(us)
  PROVE  ts = us
<1>1. Len(ts) = Len(us)
  BY LettersOfTypes
<1>2. ASSUME NEW k \in 1..Len(ts) PROVE ts[k] = us[k]
  <2>1. SignatureType[ts[k]] = SignatureType[us[k]]
    BY <1>1, LettersOfTypes
  <2>2. ts[k] \in ValueTypes /\ us[k] \in ValueTypes
    BY <1>1
  <2> QED
    BY <2>1, <2>2 DEF ValueTypes, SignatureType
<1> QED
  BY <1>1, <1>2

\* A signature determines its type: the bracket ends the parameters.
LEMMA SignatureInjective ==
  ASSUME NEW t \in WasmTypes, NEW u \in WasmTypes, TypeSignature(t) = TypeSignature(u)
  PROVE  t = u
<1> DEFINE P == Letters(t.params)
           R == Letters(t.results)
           Q == Letters(u.params)
           S == Letters(u.results)
           L == {"i", "I", "f", "F", "(", ")"}
           A == (<<"(">> \o P) \o (<<")">> \o R)
           B == (<<"(">> \o Q) \o (<<")">> \o S)
<1>1. P \in Seq({"i", "I", "f", "F"}) /\ R \in Seq({"i", "I", "f", "F"})
      /\ Q \in Seq({"i", "I", "f", "F"}) /\ S \in Seq({"i", "I", "f", "F"})
  BY LettersOfTypes DEF WasmTypes
<1>2. P \in Seq(L) /\ R \in Seq(L) /\ Q \in Seq(L) /\ S \in Seq(L)
  BY <1>1
<1>3. A = B
  BY DEF TypeSignature, A, B
<1> HIDE DEF P, Q, R, S
<1>4. Len(P) + Len(R) = Len(Q) + Len(S)
  <2>1. Len(A) = Len(P) + Len(R) + 2
    BY <1>2
  <2>2. Len(B) = Len(Q) + Len(S) + 2
    BY <1>2
  <2> HIDE DEF A, B
  <2> QED
    BY <2>1, <2>2, <1>2, <1>3
<1>5. \A k \in 1..Len(P) : A[k + 1] = P[k]
  BY <1>2
<1>6. \A k \in 1..Len(Q) : B[k + 1] = Q[k]
  BY <1>2
<1>7. A[Len(P) + 2] = ")"
  BY <1>2
<1>8. B[Len(Q) + 2] = ")"
  BY <1>2
<1>9. \A k \in 1..Len(R) : A[Len(P) + 2 + k] = R[k]
  BY <1>2
<1>10. \A k \in 1..Len(S) : B[Len(Q) + 2 + k] = S[k]
  BY <1>2
<1>11. (\A k \in 1..Len(P) : P[k] # ")") /\ (\A k \in 1..Len(Q) : Q[k] # ")")
  BY <1>1
<1>12. Len(P) \in Nat /\ Len(Q) \in Nat /\ Len(R) \in Nat /\ Len(S) \in Nat
  BY <1>2
<1> HIDE DEF A, B
<1>13. Len(P) = Len(Q)
  <2>1. CASE Len(P) < Len(Q)
    <3>1. Len(P) + 1 \in 1..Len(Q)
      BY <2>1, <1>12
    <3>2. Q[Len(P) + 1] = ")"
      BY <3>1, <1>3, <1>6, <1>7, <1>12
    <3> QED
      BY <3>1, <3>2, <1>11
  <2>2. CASE Len(Q) < Len(P)
    <3>1. Len(Q) + 1 \in 1..Len(P)
      BY <2>2, <1>12
    <3>2. P[Len(Q) + 1] = ")"
      BY <3>1, <1>3, <1>5, <1>8, <1>12
    <3> QED
      BY <3>1, <3>2, <1>11
  <2> QED
    BY <2>1, <2>2, <1>12
<1>14. P = Q
  <2>1. \A k \in 1..Len(P) : P[k] = Q[k]
    BY <1>3, <1>5, <1>6, <1>13
  <2> QED
    BY <2>1, <1>2, <1>13
<1>15. R = S
  <2>1. Len(R) = Len(S)
    BY <1>4, <1>12, <1>13
  <2>2. \A k \in 1..Len(R) : R[k] = S[k]
    BY <2>1, <1>3, <1>9, <1>10, <1>13
  <2> QED
    BY <2>1, <2>2, <1>2
<1>16. t.params = u.params /\ t.results = u.results
  BY <1>14, <1>15, LettersInjective DEF P, Q, R, S, WasmTypes
<1> QED
  BY <1>16 DEF WasmTypes
-----------------------------------------------------------------------------
\* Indices stay in their spaces.
Shape ==
  /\ at \in Stages \cup {"run", "rejected"} /\ left \in Nat
  /\ typeInfo \in Seq(FuncTypes)
  /\ funcType \in Seq(Nat) /\ \A f \in Declared : funcType[f + 1] < Len(typeInfo)
  /\ imports \in Nat /\ imports <= NFuncs
  /\ elements \in Seq(Nat) /\ \A e \in DOMAIN elements : elements[e] \in imports..(NFuncs - 1)
  /\ \A name \in DOMAIN exports : exports[name] \in Declared

\* What has been parsed when: nothing that an index was resolved with changes
\* after that.
InOrder ==
  /\ at \in {"start", "type"} => funcType = <<>>
  /\ at \in {"start", "type"} \/ (at = "import" /\ left > 0) => imports = 0
  /\ elements # <<>> => table.has /\ at \in {"element", "code", "run", "rejected"}
  /\ at = "element" => table.has
  /\ sites # {} => at \in {"code", "run", "rejected"}
  /\ at = "code" => left <= NFuncs - imports
  /\ at # "run" => last = None

\* The pure indices tell the signatures of the types apart.
PureIndices ==
  /\ IsFiniteSet(DOMAIN pureSig)
  /\ \A s \in DOMAIN pureSig : pureSig[s] \in 0..(Cardinality(DOMAIN pureSig) - 1)
  /\ \A r, s \in DOMAIN pureSig : pureSig[r] = pureSig[s] => r = s
  /\ \A k \in DOMAIN typeInfo : TypeSignature(typeInfo[k]) \in DOMAIN pureSig

\* Compiled calls hold the indices of what is still there.
Sites ==
  \A site \in sites :
    \/ site.kind = "direct" /\ site.fn \in Declared
    \/ /\ site.kind = "indirect" /\ site.type \in 0..(Len(typeInfo) - 1)
       /\ site.expected = pureSig[TypeSignature(typeInfo[site.type + 1])]
       /\ site.bound = Len(elements)

\* The code addresses of the functions, as far as they are known.
Addresses ==
  /\ at = "import" => \A f \in Declared : AddrOf(f) = Host
  /\ \A f \in 0..(imports - 1) : AddrOf(f) = Host
  /\ at = "code" => \A f \in imports..(NFuncs - left - 1) : AddrOf(f) = Body(f)
  /\ at = "run" => \A f \in imports..(NFuncs - 1) : AddrOf(f) = Body(f)
  /\ at = "run" => \A e \in DOMAIN elements :
                      elemSig[e] = pureSig[TypeSignature(TypeOf(elements[e]))]

Inv ==
  /\ Shape /\ InOrder /\ PureIndices /\ Sites /\ Addresses
  /\ IndirectCallsTyped /\ CallsReachFunctions

LEMMA Initially == Init => Inv
<1> SUFFICES ASSUME Init PROVE Inv
  OBVIOUS
<1>1. Shape /\ InOrder
  BY DEF Init, Shape, InOrder, Stages, NFuncs, Declared
<1>2. PureIndices
  BY FS_EmptySet DEF Init, PureIndices
<1>3. Sites /\ Addresses
  BY DEF Init, Sites, Addresses, NFuncs, Declared
<1>4. IndirectCallsTyped /\ CallsReachFunctions
  BY DEF Init, IndirectCallsTyped, CallsReachFunctions, None, End
<1> QED
  BY <1>1, <1>2, <1>3, <1>4 DEF Inv

LEMMA StageNames == DOMAIN Rank = Stages
  BY DEF Rank, Stages

\* Until a call has come to something, nothing is said of one.
LEMMA NothingYet ==
  ASSUME InOrder', at' # "run" \/ last' = None
  PROVE  IndirectCallsTyped' /\ CallsReachFunctions'
BY DEF InOrder, IndirectCallsTyped, CallsReachFunctions, None, End

\* A refused module keeps what it has.
LEMMA RejectKeeps == ASSUME Inv, at # "run", Reject PROVE Inv'
<1> USE DEF Inv, Reject, parsed, blocks, histories, NFuncs, Declared
<1>1. Shape' /\ InOrder'
  BY DEF Shape, InOrder
<1>2. PureIndices' /\ Sites'
  BY DEF PureIndices, Sites, TypeSignature, Letters
<1>3. Addresses'
  BY DEF Addresses, AddrOf
<1>4. IndirectCallsTyped' /\ CallsReachFunctions'
  BY <1>1, NothingYet
<1> QED
  BY <1>1, <1>2, <1>3, <1>4

\* From section to section.
LEMMA OpenKeeps ==
  ASSUME Inv, NEW s \in Stages, NEW n \in Nat, Follows(s), Begins(s, n),
         s # "start",
         s = "element" => table.has, s = "code" => n = NFuncs - imports,
         UNCHANGED <<parsed, blocks, sites, histories>>
  PROVE  Inv'
<1> USE DEF Inv, Begins, parsed, blocks, histories, NFuncs, Declared
<1>1. Shape'
  BY DEF Shape
<1>2. Rank[at] < Rank[s] /\ at \in Stages
  BY StageNames DEF Follows
<1>3. InOrder'
  BY <1>2 DEF InOrder, Shape, Stages, Rank
<1>4. PureIndices' /\ Sites'
  BY DEF PureIndices, Sites, TypeSignature, Letters
<1>5. Addresses'
  <2>1. s = "import" => \A f \in Declared : AddrOf(f) = Host
    BY <1>2 DEF InOrder, Stages, Rank
  <2>2. s = "code" => NFuncs - n - 1 = imports - 1
    BY DEF Shape
  <2>3. s # "run"
    BY DEF Stages
  <2>4. s = "import" => \A f \in Declared' : AddrOf(f)' = Host
    BY <2>1 DEF AddrOf
  <2>5. \A f \in 0..(imports' - 1) : AddrOf(f)' = Host
    BY DEF Addresses, AddrOf
  <2>6. s = "code" => \A f \in imports'..(NFuncs' - left' - 1) : AddrOf(f)' = Body(f)
    BY <2>2 DEF Shape
  <2> QED
    BY <2>3, <2>4, <2>5, <2>6 DEF Addresses
<1>6. IndirectCallsTyped' /\ CallsReachFunctions'
  BY <1>3, NothingYet DEF Stages
<1> QED
  BY <1>1, <1>3, <1>4, <1>5, <1>6

LEMMA TypeKeeps == ASSUME Inv, NEW t \in FuncTypes, Type(t) PROVE Inv'
<1>1. CASE Reject
  BY <1>1, RejectKeeps DEF Type, Item
<1>2. CASE ~Reject
  <2> USE DEF Inv
  <2>1. /\ at = "type" /\ at' = at /\ left > 0 /\ left' = left - 1
        /\ typeInfo' = Append(typeInfo, t)
        /\ pureSig' = WithSignature(TypeSignature(t))
        /\ UNCHANGED <<funcType, imports, table, exports, elements, elemSig, addr, sites, last>>
    BY <1>2 DEF Type, Item, OneLess, blocks, histories
  <2>2. /\ typeInfo' \in Seq(FuncTypes) /\ DOMAIN typeInfo' = 1..(Len(typeInfo) + 1)
        /\ \A k \in 1..Len(typeInfo) : typeInfo'[k] = typeInfo[k]
        /\ typeInfo'[Len(typeInfo) + 1] = t
    BY <2>1 DEF Shape
  <2>3. funcType = <<>> /\ elements = <<>> /\ sites = {} /\ last = None /\ imports = 0
    BY <2>1 DEF InOrder
  <2>4. Shape' /\ InOrder'
    BY <2>1, <2>2, <2>3 DEF Shape, InOrder, NFuncs, Declared
  <2>5. PureIndices'
    <3> DEFINE D == DOMAIN pureSig
               s == TypeSignature(t)
    <3>1. DOMAIN pureSig' = D \cup {s}
      BY <2>1 DEF WithSignature
    <3>2. \A r \in D : pureSig'[r] = pureSig[r]
      BY <2>1 DEF WithSignature
    <3>3. s \notin D => pureSig'[s] = Cardinality(D)
      BY <2>1 DEF WithSignature
    <3>4. IsFiniteSet(D) /\ Cardinality(D) \in Nat
      BY FS_CardinalityType DEF PureIndices
    <3>5. IsFiniteSet(D \cup {s})
          /\ Cardinality(D \cup {s}) = IF s \in D THEN Cardinality(D) ELSE Cardinality(D) + 1
      BY <3>4, FS_AddElement
    <3>6. ASSUME NEW k \in DOMAIN typeInfo' PROVE TypeSignature(typeInfo'[k]) \in D \cup {s}
      <4>1. CASE k = Len(typeInfo) + 1
        BY <4>1, <2>2
      <4>2. CASE k \in 1..Len(typeInfo)
        <5>1. typeInfo'[k] = typeInfo[k] /\ k \in DOMAIN typeInfo
          BY <4>2, <2>2 DEF Shape
        <5> QED
          BY <5>1 DEF PureIndices
      <4> QED
        BY <4>1, <4>2, <2>2 DEF Shape
    <3> HIDE DEF D, s
    <3>7. \A r \in D : pureSig[r] \in 0..(Cardinality(D) - 1)
      BY DEF PureIndices, D
    <3>8. \A q, r \in D : pureSig[q] = pureSig[r] => q = r
      BY DEF PureIndices, D
    <3>9. \A r \in D \cup {s} : pureSig'[r] \in 0..(Cardinality(D \cup {s}) - 1)
      BY <3>2, <3>3, <3>4, <3>5, <3>7
    <3>10. \A q, r \in D \cup {s} : pureSig'[q] = pureSig'[r] => q = r
      BY <3>2, <3>3, <3>4, <3>7, <3>8
    <3>11. \A k \in DOMAIN typeInfo' : TypeSignature(typeInfo[k])' \in DOMAIN pureSig'
      BY <3>1, <3>6 DEF TypeSignature, Letters
    <3> QED
      BY <3>1, <3>5, <3>9, <3>10, <3>11 DEF PureIndices
  <2>6. Sites' /\ Addresses'
    BY <2>1, <2>3 DEF Sites, Addresses, AddrOf, NFuncs, Declared
  <2>7. IndirectCallsTyped' /\ CallsReachFunctions'
    BY <2>1, <2>4, NothingYet
  <2> QED
    BY <2>4, <2>5, <2>6, <2>7
<1> QED
  BY <1>1, <1>2

LEMMA Prefix == ASSUME NEW m \in Nat, NEW n \in Nat, m <= n PROVE 0..(m - 1) \subseteq 0..(n - 1)
OBVIOUS

LEMMA ImportKeeps ==
  ASSUME Inv, NEW k \in Nat, NEW p \in BOOLEAN, Import(k, p) PROVE Inv'
<1>1. CASE Reject
  BY <1>1, RejectKeeps DEF Import, Item
<1>2. CASE ~Reject
  <2> USE DEF Inv
  <2>1. /\ at = "import" /\ at' = at /\ left > 0 /\ left' = left - 1
        /\ k < Len(typeInfo) /\ funcType' = Append(funcType, k)
        /\ addr' = WithAddr(NFuncs, Host)
        /\ imports' = IF left = 1 THEN NFuncs + 1 ELSE imports
        /\ UNCHANGED <<typeInfo, pureSig, table, exports, elements, elemSig, sites, last>>
    BY <1>2 DEF Import, Item, OneLess, histories
  <2>2. /\ funcType' \in Seq(Nat) /\ NFuncs' = NFuncs + 1 /\ NFuncs \in Nat
        /\ \A f \in Declared : funcType'[f + 1] = funcType[f + 1]
        /\ funcType'[NFuncs + 1] = k
    BY <2>1 DEF Shape, NFuncs, Declared
  <2>3. elements = <<>> /\ sites = {} /\ last = None /\ imports = 0
    BY <2>1 DEF InOrder
  <2>4. imports' \in Nat /\ imports' <= NFuncs'
    BY <2>1, <2>2, <2>3
  <2>5. Declared' = Declared \cup {NFuncs}
    BY <2>2 DEF Declared
  <2>6. Shape'
    <3>1. \A f \in Declared' : funcType'[f + 1] < Len(typeInfo')
      <4>1. \A f \in Declared : funcType'[f + 1] < Len(typeInfo')
        BY <2>1, <2>2 DEF Shape
      <4>2. funcType'[NFuncs + 1] < Len(typeInfo')
        BY <2>1, <2>2
      <4> QED
        BY <4>1, <4>2, <2>5
    <3>2. \A e \in DOMAIN elements' : elements'[e] \in (imports..(NFuncs - 1))'
      BY <2>1, <2>3
    <3>3. \A name \in DOMAIN exports' : exports'[name] \in Declared'
      BY <2>1, <2>5 DEF Shape
    <3>4. at' \in Stages \cup {"run", "rejected"} /\ left' \in Nat /\ typeInfo' \in Seq(FuncTypes)
         /\ elements' \in Seq(Nat)
      BY <2>1, <2>3 DEF Shape
    <3>5. imports' \in Nat /\ imports' <= NFuncs'
      BY <2>4 DEF Shape
    <3> QED
      BY <2>2, <3>1, <3>2, <3>3, <3>4, <3>5 DEF Shape
  <2>7. InOrder'
    BY <2>1, <2>3 DEF InOrder, Shape
  <2>8. PureIndices' /\ Sites'
    BY <2>1, <2>3 DEF PureIndices, Sites, TypeSignature, Letters
  <2>9. Addresses'
    <3>1. \A f \in Declared' : AddrOf(f)' = Host
      BY <2>1, <2>5 DEF Addresses, AddrOf, WithAddr
    <3>2. 0..(imports' - 1) \subseteq Declared'
      <4>1. NFuncs' \in Nat
        BY <2>2
      <4>2. 0..(imports' - 1) \subseteq 0..(NFuncs' - 1)
        BY <4>1, <2>4, Prefix
      <4> QED
        BY <4>2 DEF Declared
    <3> QED
      BY <2>1, <3>1, <3>2 DEF Addresses
  <2>10. IndirectCallsTyped' /\ CallsReachFunctions'
    BY <2>1, <2>7, NothingYet
  <2> QED
    BY <2>6, <2>7, <2>8, <2>9, <2>10
<1> QED
  BY <1>1, <1>2

LEMMA FunctionKeeps == ASSUME Inv, NEW k \in Nat, Function(k) PROVE Inv'
<1> USE DEF Inv
<1>1. /\ at = "function" /\ at' = at /\ left > 0 /\ left' = left - 1
      /\ k < Len(typeInfo) /\ funcType' = Append(funcType, k)
      /\ UNCHANGED <<typeInfo, imports, pureSig, table, exports, elements, elemSig, addr, sites, last>>
  BY DEF Function, Item, OneLess, blocks, histories
<1>2. /\ funcType' \in Seq(Nat) /\ NFuncs' = NFuncs + 1 /\ NFuncs \in Nat
      /\ \A f \in Declared : funcType'[f + 1] = funcType[f + 1]
      /\ funcType'[NFuncs + 1] = k
  BY <1>1 DEF Shape, NFuncs, Declared
<1>3. elements = <<>> /\ sites = {} /\ last = None
  BY <1>1 DEF InOrder
<1>4. Declared' = Declared \cup {NFuncs}
  BY <1>2 DEF Declared
<1>5. Shape'
  <2>1. \A f \in Declared' : funcType'[f + 1] < Len(typeInfo')
    BY <1>1, <1>2, <1>4 DEF Shape
  <2>2. \A e \in DOMAIN elements' : elements'[e] \in (imports..(NFuncs - 1))'
    BY <1>1, <1>3
  <2>3. \A name \in DOMAIN exports' : exports'[name] \in Declared'
    BY <1>1, <1>4 DEF Shape
  <2>4. at' \in Stages \cup {"run", "rejected"} /\ left' \in Nat /\ typeInfo' \in Seq(FuncTypes)
       /\ elements' \in Seq(Nat)
    BY <1>1, <1>3 DEF Shape
  <2>5. imports' \in Nat /\ imports' <= NFuncs'
    BY <1>1, <1>2 DEF Shape
  <2> QED
    BY <1>2, <2>1, <2>2, <2>3, <2>4, <2>5 DEF Shape
<1>6. InOrder'
  BY <1>1, <1>3 DEF InOrder, Shape
<1>7. PureIndices' /\ Sites' /\ Addresses'
  BY <1>1, <1>3 DEF PureIndices, Sites, Addresses, AddrOf, TypeSignature, Letters
<1>8. IndirectCallsTyped' /\ CallsReachFunctions'
  BY <1>1, <1>6, NothingYet
<1> QED
  BY <1>5, <1>6, <1>7, <1>8

\* An item of a section that calls do not depend on.
LEMMA ItemKeeps ==
  ASSUME Inv, at \in {"global", "export"}, OneLess, left > 0,
         \A name \in DOMAIN exports' : exports'[name] \in Declared,
         UNCHANGED <<typeInfo, funcType, imports, pureSig, table, elements, elemSig, addr,
                     sites, last>>
  PROVE  Inv'
<1> USE DEF Inv, OneLess, NFuncs, Declared
<1>1. Shape' /\ InOrder'
  BY DEF Shape, InOrder
<1>2. PureIndices' /\ Sites' /\ Addresses'
  BY DEF PureIndices, Sites, Addresses, AddrOf, TypeSignature, Letters
<1>3. IndirectCallsTyped' /\ CallsReachFunctions'
  BY <1>1, NothingYet
<1> QED
  BY <1>1, <1>2, <1>3

LEMMA GlobalKeeps ==
  ASSUME Inv, NEW t, NEW isMutable, NEW v, Global(t, isMutable, v) PROVE Inv'
BY ItemKeeps DEF Inv, Shape, Global, Item, OneLess

LEMMA ExportKeeps ==
  ASSUME Inv, NEW name, NEW f, NEW isFunc \in BOOLEAN, Export(name, f, isFunc) PROVE Inv'
<1>1. CASE Reject
  BY <1>1, RejectKeeps DEF Export, Item
<1>2. CASE ~Reject
  BY <1>2, ItemKeeps DEF Inv, Shape, Export, Item, OneLess, parsed, blocks, histories
<1> QED
  BY <1>1, <1>2

LEMMA TableKeeps ==
  ASSUME Inv, NEW initial, NEW limited \in BOOLEAN, NEW max, Table(initial, limited, max)
  PROVE  Inv'
<1>1. CASE Reject
  BY <1>1, RejectKeeps, StageNames DEF Table, Follows, Stages
<1>2. CASE ~Reject
  <2> USE DEF Inv, NFuncs, Declared
  <2>1. /\ at \in {"start", "type", "import", "function"} /\ left = 0
        /\ at' = "table" /\ left' = 0 /\ table'.has
        /\ UNCHANGED <<typeInfo, funcType, imports, pureSig, exports, elements, elemSig,
                       addr, sites, last>>
    BY <1>2, StageNames DEF Table, Follows, Begins, Stages, Rank, blocks, histories
  <2>2. Shape' /\ InOrder'
    BY <2>1 DEF Shape, InOrder, Stages
  <2>3. PureIndices' /\ Sites' /\ Addresses'
    BY <2>1 DEF PureIndices, Sites, Addresses, AddrOf, TypeSignature, Letters
  <2>4. IndirectCallsTyped' /\ CallsReachFunctions'
    BY <2>1, <2>2, NothingYet
  <2> QED
    BY <2>2, <2>3, <2>4
<1> QED
  BY <1>1, <1>2

LEMMA OpenElementsKeeps == ASSUME Inv, NEW n \in Nat, OpenElements(n) PROVE Inv'
<1>1. CASE Reject
  BY <1>1, RejectKeeps, StageNames DEF OpenElements, Follows, Stages
<1>2. CASE ~Reject
  BY <1>2, OpenKeeps DEF OpenElements, Stages
<1> QED
  BY <1>1, <1>2

LEMMA ElementKeeps == ASSUME Inv, NEW f, Element(f) PROVE Inv'
<1>1. CASE Reject
  BY <1>1, RejectKeeps DEF Element, Item
<1>2. CASE ~Reject
  <2> USE DEF Inv, NFuncs, Declared
  <2>1. /\ at = "element" /\ at' = at /\ left > 0 /\ left' = left - 1
        /\ f \in Declared /\ f >= imports /\ elements' = Append(elements, f)
        /\ UNCHANGED <<typeInfo, funcType, imports, pureSig, table, exports, elemSig, addr,
                       sites, last>>
    BY <1>2 DEF Element, Item, OneLess, parsed, histories
  <2>2. f \in imports..(NFuncs - 1) /\ f \in Nat
    BY <2>1 DEF Shape
  <2>3. elements' \in Seq(Nat)
        /\ \A e \in DOMAIN elements' : elements'[e] \in imports..(NFuncs - 1)
    BY <2>1, <2>2 DEF Shape
  <2>4. Shape' /\ InOrder'
    BY <2>1, <2>3 DEF Shape, InOrder
  <2>5. PureIndices' /\ Sites' /\ Addresses'
    BY <2>1 DEF PureIndices, Sites, Addresses, AddrOf, TypeSignature, Letters, InOrder
  <2>6. IndirectCallsTyped' /\ CallsReachFunctions'
    BY <2>1, <2>4, NothingYet
  <2> QED
    BY <2>4, <2>5, <2>6
<1> QED
  BY <1>1, <1>2

LEMMA CompileBodyKeeps == ASSUME Inv, NEW call, CompileBody(call) PROVE Inv'
<1>1. CASE Reject
  BY <1>1, RejectKeeps DEF CompileBody, Item
<1>2. CASE ~Reject
  <2> DEFINE f == CurrentFunc
  <2> USE DEF Inv
  <2>1. /\ at = "code" /\ at' = at /\ left > 0 /\ left' = left - 1 /\ call \in Calls
        /\ addr' = WithAddr(f, Body(f)) /\ sites' = sites \cup ({call} \ {None})
        /\ UNCHANGED <<typeInfo, funcType, imports, pureSig, table, exports, elements,
                       elemSig, last>>
    BY <1>2 DEF CompileBody, Item, OneLess, parsed, histories
  <2>2. /\ left \in Nat /\ NFuncs \in Nat /\ imports \in Nat
        /\ f = NFuncs - left /\ f >= imports
    BY <2>1 DEF CurrentFunc, Parsed, Shape, InOrder, NFuncs
  <2>3. Shape' /\ InOrder'
    BY <2>1, <2>2 DEF Shape, InOrder, NFuncs, Declared
  <2>4. PureIndices'
    BY <2>1 DEF PureIndices, TypeSignature, Letters
  <2>5. Sites'
    <3> SUFFICES ASSUME NEW site \in sites'
                 PROVE  \/ site.kind = "direct" /\ site.fn \in Declared
                        \/ /\ site.kind = "indirect" /\ site.type \in 0..(Len(typeInfo) - 1)
                           /\ site.expected = pureSig[TypeSignature(typeInfo[site.type + 1])]
                           /\ site.bound = Len(elements)
      BY <2>1 DEF Sites, TypeSignature, Letters, NFuncs, Declared
    <3>1. CASE site \in sites
      BY <3>1 DEF Sites
    <3>2. CASE \E g \in Declared : site = Direct(g)
      BY <3>2 DEF Direct
    <3>3. CASE \E k \in 0..(Len(typeInfo) - 1) : site = Indirect(k)
      BY <3>3 DEF Indirect
    <3> QED
      BY <2>1, <3>1, <3>2, <3>3 DEF Calls
  <2>6. Addresses'
    <3> HIDE DEF f
    <3>1. \A g \in 0..(imports - 1) : AddrOf(g)' = Host
      BY <2>1, <2>2 DEF Addresses, AddrOf, WithAddr
    <3>2. \A g \in imports..(NFuncs - left) : AddrOf(g)' = Body(g)
      BY <2>1, <2>2 DEF Addresses, AddrOf, WithAddr
    <3>3. NFuncs' - left' - 1 = NFuncs - left
      BY <2>1, <2>2 DEF NFuncs
    <3> QED
      BY <2>1, <3>1, <3>2, <3>3 DEF Addresses
  <2>7. IndirectCallsTyped' /\ CallsReachFunctions'
    BY <2>1, <2>3, NothingYet
  <2> QED
    BY <2>3, <2>4, <2>5, <2>6, <2>7
<1> QED
  BY <1>1, <1>2

LEMMA FinishKeeps == ASSUME Inv, Finish PROVE Inv'
<1> USE DEF Inv
<1>1. /\ at \in Stages /\ left = 0 /\ (NFuncs > imports => at = "code")
      /\ at' = "run" /\ left' = left
      /\ elemSig' = IF table.has
                      THEN [e \in DOMAIN elements |-> pureSig[TypeSignature(TypeOf(elements[e]))]]
                      ELSE elemSig
      /\ UNCHANGED <<typeInfo, funcType, imports, pureSig, table, exports, elements, addr,
                     sites, last>>
  BY StageNames DEF Finish, parsed, histories
<1>2. at # "run" /\ last = None
  BY <1>1 DEF Stages, InOrder
<1>3. Shape' /\ InOrder'
  BY <1>1, <1>2 DEF Shape, InOrder, NFuncs, Declared
<1>4. PureIndices' /\ Sites'
  BY <1>1 DEF PureIndices, Sites, TypeSignature, Letters, NFuncs, Declared
<1>5. Addresses'
  <2>1. \A f \in imports..(NFuncs - 1) : AddrOf(f) = Body(f)
    BY <1>1 DEF Addresses, Shape, NFuncs
  <2>2. \A e \in DOMAIN elements :
          elemSig'[e] = pureSig[TypeSignature(TypeOf(elements[e]))]
    BY <1>1 DEF InOrder
  <2>3. \A f : AddrOf(f)' = AddrOf(f)
    BY <1>1 DEF AddrOf
  <2>4. \A e : (TypeSignature(TypeOf(elements[e])))' = TypeSignature(TypeOf(elements[e]))
    BY <1>1 DEF TypeSignature, Letters, TypeOf
  <2> QED
    BY <1>1, <2>1, <2>2, <2>3, <2>4 DEF Addresses, NFuncs, Declared
<1>6. IndirectCallsTyped' /\ CallsReachFunctions'
  BY <1>1, <1>2, <1>3, NothingYet
<1> QED
  BY <1>3, <1>4, <1>5, <1>6

-----------------------------------------------------------------------------
\* A call or an access changes nothing that the parser made.
LEMMA RanKeeps ==
  ASSUME Inv, NEW what, Ran(what)
  PROVE  Shape' /\ InOrder' /\ PureIndices' /\ Sites' /\ Addresses'
<1> USE DEF Inv, Ran, parsed, NFuncs, Declared
<1>1. Shape' /\ InOrder'
  BY DEF Shape, InOrder
<1>2. PureIndices' /\ Sites'
  BY DEF PureIndices, Sites, TypeSignature, Letters
<1>3. Addresses'
  BY DEF Addresses, AddrOf, TypeSignature, Letters, TypeOf
<1> QED
  BY <1>1, <1>2, <1>3

\* Compiled code is where funcAddrTable says.
LEMMA AddressKnown ==
  ASSUME Inv, at = "run", NEW f \in Declared PROVE AddrOf(f) = Target(f)
BY DEF Inv, Addresses, Shape, Target, Declared, NFuncs

LEMMA TypeKnown ==
  ASSUME Inv, NEW f \in Declared
  PROVE  /\ TypeOf(f) \in FuncTypes
         /\ TypeSignature(TypeOf(f)) \in DOMAIN pureSig
<1>1. funcType[f + 1] \in Nat /\ funcType[f + 1] < Len(typeInfo)
  BY DEF Inv, Shape, Declared, NFuncs
<1>2. funcType[f + 1] + 1 \in DOMAIN typeInfo
  BY <1>1 DEF Inv, Shape
<1> QED
  BY <1>2 DEF Inv, Shape, PureIndices, TypeOf

\* What the parser made is what it was when the call began.
LEMMA RanSame ==
  ASSUME NEW what, Ran(what), NEW f
  PROVE  /\ TypeOf(f)' = TypeOf(f) /\ Target(f)' = Target(f)
         /\ last' = what /\ at = "run"
         /\ UNCHANGED <<typeInfo, exports, elements>>
BY DEF Ran, parsed, TypeOf, Target

LEMMA CallByNameKeeps ==
  ASSUME Inv, NEW name, NEW t \in FuncTypes, CallByName(name, t) PROVE Inv'
<1> DEFINE f == exports[name]
           to == IF name \notin DOMAIN exports THEN End("Function not found")
                 ELSE IF TypeSignature(TypeOf(f)) # TypeSignature(t)
                        THEN End("Signature validation failed")
                 ELSE AddrOf(f)
           what == [kind |-> "named", name |-> name, type |-> t, to |-> to]
<1>1. Ran(what)
  BY DEF CallByName
<1>2. last' = what /\ at = "run" /\ UNCHANGED exports
      /\ TypeOf(f)' = TypeOf(f) /\ Target(f)' = Target(f)
  BY <1>1 DEF Ran, parsed, TypeOf, Target
<1>3. IndirectCallsTyped'
  BY <1>2 DEF IndirectCallsTyped
<1>4. CallsReachFunctions'
  <2>1. CASE name \notin DOMAIN exports
    BY <2>1, <1>2 DEF CallsReachFunctions, End, Host, Nowhere, Body
  <2>2. CASE name \in DOMAIN exports /\ TypeSignature(TypeOf(f)) # TypeSignature(t)
    BY <2>2, <1>2 DEF CallsReachFunctions, End, Host, Nowhere, Body
  <2>3. CASE name \in DOMAIN exports /\ TypeSignature(TypeOf(f)) = TypeSignature(t)
    <3>1. f \in Declared
      BY <2>3 DEF Inv, Shape
    <3>2. to = Target(f)
      BY <1>2, <2>3, <3>1, AddressKnown
    <3>3. TypeOf(f) = t
      BY <2>3, <3>1, TypeKnown, SignatureInjective, ContentsAssumption DEF WasmTypes
    <3> HIDE DEF to
    <3>4. last'.name \in DOMAIN exports' /\ last'.to = Target(exports[last.name])'
          /\ TypeOf(exports[last.name])' = last'.type /\ last'.kind = "named"
      BY <1>2, <2>3, <3>2, <3>3
    <3> QED
      BY <3>4 DEF CallsReachFunctions
  <2> QED
    BY <2>1, <2>2, <2>3
<1> QED
  BY <1>1, <1>3, <1>4, RanKeeps DEF Inv

LEMMA CallDirectKeeps == ASSUME Inv, NEW site \in sites, CallDirect(site) PROVE Inv'
<1> DEFINE what == [kind |-> "direct", fn |-> site.fn, to |-> AddrOf(site.fn)]
<1>1. Ran(what) /\ site.kind = "direct"
  BY DEF CallDirect
<1>2. last' = what /\ at = "run" /\ Target(site.fn)' = Target(site.fn)
  BY <1>1, RanSame
<1>3. site.fn \in Declared
  BY <1>1 DEF Inv, Sites
<1>4. AddrOf(site.fn) = Target(site.fn)
  BY <1>2, <1>3, AddressKnown
<1>5. IndirectCallsTyped' /\ CallsReachFunctions'
  BY <1>2, <1>4 DEF IndirectCallsTyped, CallsReachFunctions
<1> QED
  BY <1>1, <1>5, RanKeeps DEF Inv

LEMMA CallIndirectKeeps ==
  ASSUME Inv, NEW site \in sites, NEW e \in Nat, CallIndirect(site, e) PROVE Inv'
<1> DEFINE f == elements[e + 1]
           t == typeInfo[site.type + 1]
           to == IF ~InTable(e, site) THEN End("TableElement_out_of_range")
                 ELSE IF elemSig[e + 1] # site.expected
                        THEN End("IndirectCall_signature_mismatch")
                 ELSE AddrOf(f)
           what == [kind |-> "indirect", type |-> site.type, element |-> e, to |-> to]
<1>1. Ran(what) /\ site.kind = "indirect"
  BY DEF CallIndirect
<1>2. last' = what /\ at = "run" /\ TypeOf(f)' = TypeOf(f)
      /\ UNCHANGED <<typeInfo, elements>>
  BY <1>1, RanSame
<1>3. /\ site.type \in 0..(Len(typeInfo) - 1) /\ site.bound = Len(elements)
      /\ site.expected = pureSig[TypeSignature(t)]
  BY <1>1 DEF Inv, Sites
<1>4. t \in FuncTypes /\ TypeSignature(t) \in DOMAIN pureSig
  <2>1. site.type + 1 \in DOMAIN typeInfo
    BY <1>3 DEF Inv, Shape
  <2> QED
    BY <2>1 DEF Inv, Shape, PureIndices
<1>5. to = IF e >= Len(elements) THEN End("TableElement_out_of_range")
           ELSE IF TypeOf(f) = t THEN Body(f) ELSE End("IndirectCall_signature_mismatch")
  <2>1. Len(elements) \in Nat
    BY DEF Inv, Shape
  <2>2. CASE e >= Len(elements)
    BY <2>1, <2>2, <1>3 DEF InTable
  <2>3. CASE e < Len(elements)
    <3>1. e + 1 \in DOMAIN elements
      BY <2>3 DEF Inv, Shape
    <3>2. f \in imports..(NFuncs - 1) /\ f \in Declared
      BY <3>1 DEF Inv, Shape, Declared, NFuncs
    <3>3. elemSig[e + 1] = pureSig[TypeSignature(TypeOf(f))]
      BY <3>1, <1>2 DEF Inv, Addresses
    <3>4. TypeOf(f) \in FuncTypes /\ TypeSignature(TypeOf(f)) \in DOMAIN pureSig
      BY <3>2, TypeKnown
    <3>5. elemSig[e + 1] = site.expected <=> TypeSignature(TypeOf(f)) = TypeSignature(t)
      BY <3>3, <3>4, <1>3, <1>4 DEF Inv, PureIndices
    <3>6. TypeSignature(TypeOf(f)) = TypeSignature(t) <=> TypeOf(f) = t
      BY <3>4, <1>4, SignatureInjective, ContentsAssumption DEF WasmTypes
    <3>7. AddrOf(f) = Body(f)
      BY <1>2, <3>2, AddressKnown DEF Target, Inv, Shape
    <3> QED
      BY <2>1, <2>3, <1>3, <3>5, <3>6, <3>7 DEF InTable
  <2> QED
    BY <2>1, <2>2, <2>3
<1> HIDE DEF to
<1>6. IndirectCallsTyped'
  BY <1>2, <1>5 DEF IndirectCallsTyped
<1>7. CallsReachFunctions'
  BY <1>2 DEF CallsReachFunctions
<1> QED
  BY <1>1, <1>6, <1>7, RanKeeps DEF Inv

LEMMA GlobalAccessKeeps ==
  ASSUME Inv, NEW what, Ran(what), what.kind \in {"get", "none"} PROVE Inv'
<1>1. IndirectCallsTyped' /\ CallsReachFunctions'
  BY DEF Ran, IndirectCallsTyped, CallsReachFunctions
<1> QED
  BY <1>1, RanKeeps DEF Inv

LEMMA Preserved == Inv /\ [Next]_vars => Inv'
<1> SUFFICES ASSUME Inv, [Next]_vars PROVE Inv'
  OBVIOUS
<1>1. ASSUME NEW s \in {"type", "import", "function", "global", "export"},
             NEW n \in 1..MaxItems, Open(s, n)
      PROVE  Inv'
  <2>1. s \in Stages /\ s \notin {"start", "element", "code"} /\ n \in Nat
    BY DEF Stages
  <2>2. Follows(s) /\ Begins(s, n) /\ UNCHANGED <<parsed, blocks, sites, histories>>
    BY <1>1 DEF Open
  <2> QED
    BY <2>1, <2>2, OpenKeeps
<1>2. ASSUME NEW t \in FuncTypes, Type(t) PROVE Inv'
  BY <1>2, TypeKeeps
<1>3. ASSUME NEW k \in Slots, NEW isPrintf \in BOOLEAN, Import(k, isPrintf) PROVE Inv'
  BY <1>3, ImportKeeps DEF Slots
<1>4. ASSUME NEW k \in Slots, Function(k) PROVE Inv'
  BY <1>4, FunctionKeeps DEF Slots
<1>5. CASE \E initial, max \in 0..MaxEntries, limited \in BOOLEAN : Table(initial, limited, max)
  BY <1>5, TableKeeps
<1>6. CASE \E t \in DOMAIN Literals, isMutable \in BOOLEAN :
             \E v \in Literals[t] : Global(t, isMutable, v)
  BY <1>6, GlobalKeeps
<1>7. CASE \E name \in Names, f \in Slots, isFunc \in BOOLEAN : Export(name, f, isFunc)
  BY <1>7, ExportKeeps
<1>8. ASSUME NEW n \in 0..MaxEntries, OpenElements(n) PROVE Inv'
  BY <1>8, OpenElementsKeeps
<1>9. CASE \E f \in Slots : Element(f)
  BY <1>9, ElementKeeps
<1>10. CASE OpenCode
  <2>1. NFuncs - imports \in Nat
    BY DEF Inv, Shape, NFuncs
  <2> QED
    BY <1>10, <2>1, OpenKeeps DEF OpenCode, Stages
<1>11. CASE \E call \in Calls : CompileBody(call)
  BY <1>11, CompileBodyKeeps
<1>12. CASE Finish
  BY <1>12, FinishKeeps
<1>13. CASE \E name \in Names, t \in FuncTypes : CallByName(name, t)
  BY <1>13, CallByNameKeeps
<1>14. CASE \E site \in sites : CallDirect(site)
  BY <1>14, CallDirectKeeps
<1>15. ASSUME NEW site \in sites, NEW e \in 0..MaxEntries, CallIndirect(site, e) PROVE Inv'
  BY <1>15, CallIndirectKeeps
<1>16. ASSUME NEW k \in DOMAIN globals, GlobalGet(k) PROVE Inv'
  BY <1>16, GlobalAccessKeeps DEF GlobalGet
<1>17. CASE \E k \in DOMAIN globals :
              \E v \in Literals[IF globals[k].is64bit THEN "I64" ELSE "I32"] : GlobalSet(k, v)
  BY <1>17, GlobalAccessKeeps DEF GlobalSet, None, End
<1>18. CASE UNCHANGED vars
  <2> USE <1>18 DEF vars, parsed, blocks, histories, Inv, NFuncs, Declared
  <2>1. Shape' /\ InOrder'
    BY DEF Shape, InOrder
  <2>2. PureIndices' /\ Sites'
    BY DEF PureIndices, Sites, TypeSignature, Letters
  <2>3. Addresses'
    BY DEF Addresses, AddrOf, TypeSignature, Letters, TypeOf
  <2>4. IndirectCallsTyped' /\ CallsReachFunctions'
    BY DEF IndirectCallsTyped, CallsReachFunctions, TypeOf, Target
  <2> QED
    BY <2>1, <2>2, <2>3, <2>4
<1> QED
  BY <1>1, <1>2, <1>3, <1>4, <1>5, <1>6, <1>7, <1>8, <1>9, <1>10, <1>11, <1>12, <1>13,
     <1>14, <1>15, <1>16, <1>17, <1>18 DEF Next

\* A call through the table runs a function of exactly the type it asks for, or
\* traps: CALL_INDIRECT compares pure signature indices that were handed out
\* while types were parsed with ones looked up after the last body.
THEOREM IndirectCallsAreTyped == Spec => []IndirectCallsTyped
<1>1. Inv => IndirectCallsTyped
  BY DEF Inv
<1> QED
  BY <1>1, Initially, Preserved, PTL DEF Spec

\* Direct calls and calls by name run the function they name: funcAddrTable,
\* filled by the import and the code sections, agrees with the index space.
THEOREM CallsReachTheirFunctions == Spec => []CallsReachFunctions
<1>1. Inv => CallsReachFunctions
  BY DEF Inv
<1> QED
  BY <1>1, Initially, Preserved, PTL DEF Spec
-----------------------------------------------------------------------------
(***************************************************************************)
(* The globals, and the types of the variables.                            *)
(***************************************************************************)

\* The number of items is bounded, and those still to be read are counted.
Budget ==
  /\ IsFiniteSet(DOMAIN exports) /\ Items \in 0..MaxItems
  /\ at # "code" => Items + left <= MaxItems

\* Where the value of a global is, and that every mutable one has a place.
WidthOf(t) == IF t = "I64" THEN 2 * Bits ELSE Bits
TypeOfGlobal(k) == IF globals[k].is64bit THEN "I64" ELSE "I32"
Content(k) == IF globals[k].isMutable THEN globalMem[globals[k].slot] ELSE globals[k].value
Valued ==
  \A k \in DOMAIN globals :
    /\ current[k] \in 0..(Pow2[WidthOf(TypeOfGlobal(k))] - 1)
    /\ OfType(globals[k], Content(k)) = current[k]
Placed ==
  /\ \A k \in DOMAIN globals : globals[k].isMutable => globals[k].slot < NextSlot
  /\ \A j, k \in DOMAIN globals :
       globals[j].isMutable /\ globals[k].isMutable /\ globals[j].slot = globals[k].slot => j = k

GInv == Inv /\ TypeOK /\ Budget /\ Valued /\ Placed /\ GlobalsKeepTheirValues

\* The numbers of a slot and of an i32.
LEMMA WidthFacts ==
  /\ Pow2[Bits] \in Nat \ {0} /\ Pow2[2 * Bits] \in Nat \ {0} /\ Pow2[Bits - 1] \in Nat \ {0}
  /\ Pow2[2 * Bits] = Pow2[Bits] * Pow2[Bits]
  /\ Pow2[Bits] = 2 * Pow2[Bits - 1]
  /\ Pow2[Bits] <= Pow2[2 * Bits]
<1>1. Bits \in Nat /\ Bits - 1 \in Nat /\ 2 * Bits \in Nat /\ Bits + Bits = 2 * Bits
      /\ (Bits - 1) + 1 = Bits /\ Bits <= 2 * Bits
  BY ContentsAssumption
<1>2. Pow2[Bits] \in Nat \ {0} /\ Pow2[2 * Bits] \in Nat \ {0} /\ Pow2[Bits - 1] \in Nat \ {0}
  BY <1>1, PowNat
<1>3. Pow2[Bits + Bits] = Pow2[Bits] * Pow2[Bits]
  BY <1>1, PowSum
<1>4. Pow2[(Bits - 1) + 1] = 2 * Pow2[Bits - 1]
  BY <1>1, PowNext
<1>5. Pow2[Bits] <= Pow2[2 * Bits]
  BY <1>1, PowGrows
<1> QED
  BY <1>1, <1>2, <1>3, <1>4, <1>5

LEMMA LiteralFacts ==
  ASSUME NEW t \in DOMAIN Literals, NEW v \in Literals[t]
  PROVE  /\ t \in {"I32", "I64"} /\ v \in 0..(Pow2[WidthOf(t)] - 1)
         /\ SignExtended(t, v) \in 0..(Pow2[2 * Bits] - 1)
         /\ (IF IsI64(t) THEN SignExtended(t, v) ELSE SignExtended(t, v) % Pow2[Bits]) = v
<1>1. t \in {"I32", "I64"} /\ v \in 0..(Pow2[WidthOf(t)] - 1)
  BY LiteralsAssumption DEF WidthOf
<1> DEFINE P == Pow2[Bits]
           Q == Pow2[2 * Bits]
<1>2. P \in Nat \ {0} /\ Q \in Nat \ {0} /\ Q = P * P /\ P <= Q
  BY WidthFacts
<1>3. CASE t = "I64"
  BY <1>1, <1>3 DEF SignExtended, IsI64, WidthOf
<1>4. CASE t = "I32" /\ v < Pow2[Bits - 1]
  <2>1. v \in 0..(P - 1) /\ SignExtended(t, v) = v
    BY <1>1, <1>4 DEF SignExtended, WidthOf
  <2> HIDE DEF P, Q
  <2>2. v = P * 0 + v
    BY <1>2, <2>1
  <2>3. v % P = v
    BY <1>2, <2>1, <2>2, QuotientOf
  <2>4. v \in 0..(Q - 1)
    BY <1>2, <2>1
  <2> QED
    BY <1>1, <1>4, <2>1, <2>3, <2>4 DEF P, Q, IsI64
<1>5. CASE t = "I32" /\ ~(v < Pow2[Bits - 1])
  <2>1. v \in 0..(P - 1) /\ SignExtended(t, v) = v + Q - P
    BY <1>1, <1>5 DEF SignExtended, WidthOf, IsI64
  <2> HIDE DEF P, Q
  <2>2. v + Q - P = P * (P - 1) + v /\ P - 1 \in Int
    BY <1>2, <2>1
  <2>3. (v + Q - P) % P = v
    BY <1>2, <2>1, <2>2, QuotientOf
  <2>4. v + Q - P \in 0..(Q - 1)
    BY <1>2, <2>1
  <2> QED
    BY <1>1, <1>5, <2>1, <2>3, <2>4 DEF P, Q, IsI64
<1> QED
  BY <1>1, <1>3, <1>4, <1>5

LEMMA GInitially == Init => GInv
<1> SUFFICES ASSUME Init PROVE GInv
  OBVIOUS
<1>1. /\ at = "start" /\ left = 0 /\ typeInfo = <<>> /\ funcType = <<>> /\ imports = 0
      /\ DOMAIN pureSig = {} /\ table = [has |-> FALSE, initial |-> 0]
      /\ elements = <<>> /\ elemSig = <<>> /\ DOMAIN exports = {} /\ globals = <<>>
      /\ globalMem = [slot \in Slots |-> 0] /\ DOMAIN addr = {} /\ current = <<>>
      /\ last = None
  BY DEF Init
<1>2. TypeOK
  <2>1. globalMem \in [Slots -> 0..(Pow2[2 * Bits] - 1)]
    BY <1>1, WidthFacts
  <2>2. at \in DOMAIN Rank
    BY <1>1 DEF Rank
  <2> QED
    BY <1>1, <2>1, <2>2, ContentsAssumption DEF TypeOK
<1>3. Budget
  <2>1. IsFiniteSet(DOMAIN exports) /\ Cardinality(DOMAIN exports) = 0
    BY <1>1, FS_EmptySet
  <2> QED
    BY <1>1, <2>1, ContentsAssumption DEF Budget, Items, NFuncs
<1>4. Valued /\ Placed
  BY <1>1 DEF Valued, Placed
<1>5. GlobalsKeepTheirValues
  BY <1>1 DEF GlobalsKeepTheirValues, None, End
<1> QED
  BY <1>2, <1>3, <1>4, <1>5, Initially DEF GInv

\* What is no access of a global leaves them alone.
LEMMA GlobalsSame ==
  ASSUME GInv, UNCHANGED <<globals, globalMem, current>>, last' = last \/ last'.kind # "get"
  PROVE  Valued' /\ Placed' /\ GlobalsKeepTheirValues'
<1>1. Valued'
  BY DEF GInv, Valued, WidthOf, TypeOfGlobal, Content, OfType
<1>2. Placed'
  BY DEF GInv, Placed, NextSlot
<1>3. GlobalsKeepTheirValues'
  BY DEF GInv, GlobalsKeepTheirValues
<1> QED
  BY <1>1, <1>2, <1>3

\* What the bound says of each step.
Counts ==
  /\ MaxItems \in Nat /\ left \in Nat /\ Items \in 0..MaxItems
  /\ NFuncs \in 0..MaxItems /\ Len(globals) \in 0..MaxItems
  /\ at # "code" => Items + left <= MaxItems /\ NFuncs + left <= MaxItems
                    /\ Len(globals) + left <= MaxItems
Sizes ==
  /\ Len(typeInfo) \in Nat /\ Len(funcType) \in Nat /\ Len(elements) \in Nat
  /\ Cardinality(DOMAIN exports) \in Nat /\ Len(globals) \in Nat

LEMMA Sized == ASSUME GInv PROVE Sizes
BY FS_CardinalityType DEF GInv, TypeOK, Budget, Sizes

LEMMA Counted == ASSUME GInv PROVE Counts
<1>1. MaxItems \in Nat
  BY ContentsAssumption
<1>2. /\ left \in Nat /\ Items \in 0..MaxItems
      /\ at # "code" => Items + left <= MaxItems
  BY <1>1 DEF GInv, TypeOK, Budget
<1>3. NFuncs \in Nat /\ Len(globals) \in Nat /\ NFuncs <= Items /\ Len(globals) <= Items
  BY Sized DEF Sizes, Items, NFuncs
<1> QED
  BY <1>1, <1>2, <1>3 DEF Counts

LEMMA Typed == ASSUME GInv PROVE TypeOK /\ MaxItems \in Nat
BY ContentsAssumption DEF GInv

LEMMA Budgeted == ASSUME GInv PROVE IsFiniteSet(DOMAIN exports)
BY DEF GInv, Budget

\* An item that is entered is one less to be read.
LEMMA BudgetKept ==
  ASSUME GInv, at # "code", left > 0, left' = left - 1, Items' = Items + 1, UNCHANGED exports
  PROVE  Budget'
<1>1. IsFiniteSet(DOMAIN exports)'
  BY Budgeted
<1> QED
  BY <1>1, Counted DEF Counts, Budget

LEMMA BudgetSame ==
  ASSUME GInv, at' = "code" \/ (at # "code" /\ left' \in Nat /\ left' <= left) \/ left' = 0,
         UNCHANGED <<typeInfo, funcType, elements, exports, globals>>
  PROVE  Budget'
<1>1. Items' = Items /\ IsFiniteSet(DOMAIN exports)'
  BY Budgeted DEF Items, NFuncs
<1> QED
  BY <1>1, Counted DEF Counts, Budget

\* A step that ends the parsing, or opens a section.
LEMMA RejectKeepsG == ASSUME GInv, at # "run", Reject PROVE GInv'
<1>1. at' = "rejected" /\ left' = 0 /\ UNCHANGED <<parsed, blocks, sites, histories>>
  BY DEF Reject
<1>2. TypeOK'
  BY <1>1, Typed DEF TypeOK, parsed, blocks, histories
<1>3. Budget'
  BY <1>1, BudgetSame, Counted DEF Counts, parsed, blocks
<1>4. Valued' /\ Placed' /\ GlobalsKeepTheirValues'
  BY <1>1, GlobalsSame DEF parsed, blocks, histories
<1> QED
  BY <1>2, <1>3, <1>4, RejectKeeps DEF GInv

LEMMA OpenKeepsG ==
  ASSUME GInv, NEW s \in Stages, NEW n \in 0..MaxItems, Begins(s, n), Inv',
         s # "code" => Items + n <= MaxItems,
         UNCHANGED <<parsed, blocks, sites, histories>>
  PROVE  GInv'
<1>1. at' = s /\ left' = n /\ s \in DOMAIN Rank
  BY StageNames DEF Begins
<1>2. TypeOK'
  BY <1>1 DEF GInv, TypeOK, parsed, blocks, histories
<1>3. Budget'
  <2>1. UNCHANGED <<typeInfo, funcType, elements, exports, globals>>
    BY DEF parsed, blocks
  <2>2. Items' = Items /\ IsFiniteSet(DOMAIN exports)'
    BY <2>1, Budgeted DEF Items, NFuncs
  <2> QED
    BY <1>1, <2>2, Counted DEF Counts, Budget
<1>4. Valued' /\ Placed' /\ GlobalsKeepTheirValues'
  BY GlobalsSame DEF parsed, blocks, histories
<1> QED
  BY <1>2, <1>3, <1>4 DEF GInv

LEMMA TypeKeepsG == ASSUME GInv, NEW t \in FuncTypes, Type(t) PROVE GInv'
<1>1. CASE Reject
  BY <1>1, RejectKeepsG DEF Type, Item
<1>2. CASE ~Reject
  <2>1. /\ at = "type" /\ at' = at /\ left > 0 /\ left' = left - 1
        /\ typeInfo' = Append(typeInfo, t) /\ pureSig' = WithSignature(TypeSignature(t))
        /\ UNCHANGED <<funcType, imports, table, exports, globals, elements, elemSig,
                       globalMem, addr, sites, current, last>>
    BY <1>2 DEF Type, Item, OneLess, blocks, histories
  <2>2. typeInfo \in Seq(FuncTypes)
    BY Typed DEF TypeOK
  <2>3. Len(typeInfo') = Len(typeInfo) + 1 /\ typeInfo' \in Seq(FuncTypes)
    BY <2>1, <2>2
  <2>4. \A s \in DOMAIN pureSig' : pureSig'[s] \in Nat
    <3>1. Cardinality(DOMAIN pureSig) \in Nat
      BY FS_CardinalityType DEF GInv, Inv, PureIndices
    <3>2. \A s \in DOMAIN pureSig : pureSig[s] \in Nat
      BY Typed DEF TypeOK
    <3> QED
      BY <2>1, <3>1, <3>2 DEF WithSignature
  <2>5. TypeOK'
    BY <2>1, <2>3, <2>4, Typed DEF TypeOK
  <2>6. Budget'
    <3>1. Items' = Items + 1
      BY <2>1, <2>3, Sized DEF Sizes, Items, NFuncs
    <3> QED
      BY <2>1, <3>1, BudgetKept
  <2> QED
    BY <2>1, <2>5, <2>6, GlobalsSame, TypeKeeps DEF GInv
<1> QED
  BY <1>1, <1>2

LEMMA ImportKeepsG ==
  ASSUME GInv, NEW k \in Nat, NEW p \in BOOLEAN, Import(k, p) PROVE GInv'
<1>1. CASE Reject
  BY <1>1, RejectKeepsG DEF Import, Item
<1>2. CASE ~Reject
  <2>1. /\ at = "import" /\ at' = at /\ left > 0 /\ left' = left - 1
        /\ funcType' = Append(funcType, k) /\ addr' = WithAddr(NFuncs, Host)
        /\ imports' = IF left = 1 THEN NFuncs + 1 ELSE imports
        /\ UNCHANGED <<typeInfo, pureSig, table, exports, globals, elements, elemSig,
                       globalMem, sites, current, last>>
    BY <1>2 DEF Import, Item, OneLess, histories
  <2>2. funcType \in Seq(Nat)
    BY Typed DEF TypeOK
  <2>3. Len(funcType') = Len(funcType) + 1 /\ funcType' \in Seq(Nat)
    BY <2>1, <2>2
  <2>4. NFuncs \in Slots
    BY <2>1, Counted DEF Counts, Slots, NFuncs
  <2>5. DOMAIN addr' \subseteq Slots /\ \A f \in DOMAIN addr' : addr'[f] \in {Host, Body(f)}
    <3>1. DOMAIN addr \subseteq Slots /\ \A f \in DOMAIN addr : addr[f] \in {Host, Body(f)}
      BY Typed DEF TypeOK
    <3> QED
      BY <2>1, <2>4, <3>1 DEF WithAddr
  <2>6. TypeOK'
    BY <2>1, <2>2, <2>3, <2>5, Typed DEF TypeOK, NFuncs
  <2>7. Budget'
    <3>1. Items' = Items + 1
      BY <2>1, <2>3, Sized DEF Sizes, Items, NFuncs
    <3> QED
      BY <2>1, <3>1, BudgetKept
  <2> QED
    BY <2>1, <2>6, <2>7, GlobalsSame, ImportKeeps DEF GInv
<1> QED
  BY <1>1, <1>2

LEMMA FunctionKeepsG == ASSUME GInv, NEW k \in Nat, Function(k) PROVE GInv'
<1>1. /\ at = "function" /\ at' = at /\ left > 0 /\ left' = left - 1
      /\ funcType' = Append(funcType, k)
      /\ UNCHANGED <<typeInfo, pureSig, imports, table, exports, globals, elements, elemSig,
                     globalMem, addr, sites, current, last>>
  BY DEF Function, Item, OneLess, blocks, histories
<1>2. funcType \in Seq(Nat)
  BY Typed DEF TypeOK
<1>3. Len(funcType') = Len(funcType) + 1 /\ funcType' \in Seq(Nat)
  BY <1>1, <1>2
<1>4. TypeOK'
  BY <1>1, <1>3, Typed DEF TypeOK
<1>5. Budget'
  <2>1. Items' = Items + 1
    BY <1>1, <1>3, Sized DEF Sizes, Items, NFuncs
  <2> QED
    BY <1>1, <2>1, BudgetKept
<1> QED
  BY <1>1, <1>4, <1>5, GlobalsSame, FunctionKeeps DEF GInv

LEMMA TableKeepsG ==
  ASSUME GInv, NEW initial \in 0..MaxEntries, NEW limited \in BOOLEAN, NEW max \in 0..MaxEntries,
         Table(initial, limited, max)
  PROVE  GInv'
<1>1. CASE Reject
  BY <1>1, RejectKeepsG, StageNames DEF Table, Follows, Stages
<1>2. CASE ~Reject
  <2>1. /\ at' = "table" /\ left' = 0 /\ table' = [has |-> TRUE, initial |-> initial]
        /\ left = 0 /\ at \in DOMAIN Rank
        /\ UNCHANGED <<typeInfo, pureSig, funcType, imports, exports, globals, elements,
                       elemSig, globalMem, addr, sites, current, last>>
    BY <1>2 DEF Table, Follows, Begins, blocks, histories
  <2>2. TypeOK'
    <3>1. "table" \in DOMAIN Rank
      BY DEF Rank
    <3> QED
      BY <2>1, <3>1, Typed DEF TypeOK
  <2>3. Budget'
    BY <2>1, BudgetSame, Counted DEF Counts
  <2> QED
    BY <2>1, <2>2, <2>3, GlobalsSame, TableKeeps DEF GInv
<1> QED
  BY <1>1, <1>2

LEMMA ExportKeepsG ==
  ASSUME GInv, NEW name \in Names, NEW f, NEW isFunc \in BOOLEAN, Export(name, f, isFunc)
  PROVE  GInv'
<1>1. CASE Reject
  BY <1>1, RejectKeepsG DEF Export, Item
<1>2. CASE ~Reject
  <2>1. /\ at = "export" /\ at' = at /\ left > 0 /\ left' = left - 1 /\ f \in Declared
        /\ \/ UNCHANGED exports
           \/ /\ name \notin DOMAIN exports
              /\ exports' = [n \in DOMAIN exports \cup {name} |->
                               IF n = name THEN f ELSE exports[n]]
        /\ UNCHANGED <<typeInfo, pureSig, funcType, imports, table, globals, elements,
                       elemSig, globalMem, addr, sites, current, last>>
    BY <1>2 DEF Export, Item, OneLess, parsed, blocks, histories
  <2>2. f \in Slots
    BY <2>1, Counted DEF Counts, Declared, NFuncs, Slots
  <2>3. DOMAIN exports' \subseteq Names /\ \A n \in DOMAIN exports' : exports'[n] \in Slots
    BY <2>1, <2>2 DEF GInv, TypeOK
  <2>4. IsFiniteSet(DOMAIN exports')
        /\ Cardinality(DOMAIN exports') \in {Cardinality(DOMAIN exports),
                                             Cardinality(DOMAIN exports) + 1}
    <3>1. IsFiniteSet(DOMAIN exports)
      BY DEF GInv, Budget
    <3>2. \/ DOMAIN exports' = DOMAIN exports
          \/ name \notin DOMAIN exports /\ DOMAIN exports' = DOMAIN exports \cup {name}
      <4>1. CASE UNCHANGED exports
        <5>1. DOMAIN exports' = DOMAIN exports
          BY <4>1, Zenon
        <5> QED
          BY <5>1, Zenon
      <4>2. CASE ~UNCHANGED exports
        BY <2>1, <4>2
      <4> QED
        BY <4>1, <4>2
    <3>3. name \notin DOMAIN exports =>
            /\ IsFiniteSet(DOMAIN exports \cup {name})
            /\ Cardinality(DOMAIN exports \cup {name}) = Cardinality(DOMAIN exports) + 1
      BY <3>1, FS_AddElement
    <3> QED
      BY <3>1, <3>2, <3>3
  <2>5. TypeOK'
    BY <2>1, <2>3, Typed DEF TypeOK
  <2>6. Budget'
    <3>1. Items' \in {Items, Items + 1}
      BY <2>1, <2>4, Sized DEF Sizes, Items, NFuncs
    <3> QED
      BY <2>1, <2>4, <3>1, Counted DEF Counts, Budget
  <2> QED
    BY <2>1, <2>5, <2>6, GlobalsSame, ExportKeeps DEF GInv
<1> QED
  BY <1>1, <1>2

LEMMA OpenElementsKeepsG == ASSUME GInv, NEW n \in Nat, OpenElements(n) PROVE GInv'
<1>1. CASE Reject
  BY <1>1, RejectKeepsG, StageNames DEF OpenElements, Follows, Stages
<1>2. CASE ~Reject
  <2>1. Items + n <= MaxItems /\ n \in 0..MaxItems /\ Begins("element", n)
        /\ UNCHANGED <<parsed, blocks, sites, histories>>
    BY <1>2, Counted DEF Counts, OpenElements
  <2>2. "element" \in Stages
    BY DEF Stages
  <2>3. Inv'
    BY OpenElementsKeeps DEF GInv
  <2> QED
    BY <2>1, <2>2, <2>3, OpenKeepsG
<1> QED
  BY <1>1, <1>2

LEMMA ElementKeepsG == ASSUME GInv, NEW f, Element(f) PROVE GInv'
<1>1. CASE Reject
  BY <1>1, RejectKeepsG DEF Element, Item
<1>2. CASE ~Reject
  <2>1. /\ at = "element" /\ at' = at /\ left > 0 /\ left' = left - 1 /\ f \in Declared
        /\ elements' = Append(elements, f)
        /\ UNCHANGED <<typeInfo, pureSig, funcType, imports, table, exports, globals,
                       elemSig, globalMem, addr, sites, current, last>>
    BY <1>2 DEF Element, Item, OneLess, parsed, histories
  <2>2. f \in Slots
    BY <2>1, Counted DEF Counts, Declared, NFuncs, Slots
  <2>3. elements \in Seq(Slots)
    BY Typed DEF TypeOK
  <2>4. elements' \in Seq(Slots) /\ Len(elements') = Len(elements) + 1
    BY <2>1, <2>2, <2>3
  <2>5. TypeOK'
    BY <2>1, <2>4, Typed DEF TypeOK
  <2>6. Budget'
    <3>1. Items' = Items + 1
      BY <2>1, <2>4, Sized DEF Sizes, Items, NFuncs
    <3> QED
      BY <2>1, <3>1, BudgetKept
  <2> QED
    BY <2>1, <2>5, <2>6, GlobalsSame, ElementKeeps DEF GInv
<1> QED
  BY <1>1, <1>2

LEMMA CompileBodyKeepsG == ASSUME GInv, NEW call, CompileBody(call) PROVE GInv'
<1>1. CASE Reject
  BY <1>1, RejectKeepsG DEF CompileBody, Item
<1>2. CASE ~Reject
  <2> DEFINE f == CurrentFunc
  <2>1. /\ at = "code" /\ at' = at /\ left > 0 /\ left' = left - 1
        /\ addr' = WithAddr(f, Body(f))
        /\ UNCHANGED <<typeInfo, pureSig, funcType, imports, table, exports, globals,
                       elements, elemSig, globalMem, current, last>>
    BY <1>2 DEF CompileBody, Item, OneLess, parsed, histories
  <2>2. f \in Slots
    <3>1. left <= NFuncs - imports /\ imports \in Nat /\ NFuncs \in Nat /\ NFuncs <= MaxItems
      BY <2>1, Counted DEF Counts, GInv, Inv, InOrder, Shape, NFuncs
    <3>2. f = NFuncs - left
      BY <3>1, Counted DEF Counts, CurrentFunc, Parsed
    <3> QED
      BY <2>1, <3>1, <3>2, Counted DEF Counts, Slots
  <2>3. DOMAIN addr' \subseteq Slots /\ \A g \in DOMAIN addr' : addr'[g] \in {Host, Body(g)}
    <3>1. DOMAIN addr \subseteq Slots /\ \A g \in DOMAIN addr : addr[g] \in {Host, Body(g)}
      BY Typed DEF TypeOK
    <3> HIDE DEF f
    <3> QED
      BY <2>1, <2>2, <3>1 DEF WithAddr
  <2>4. TypeOK'
    BY <2>1, <2>3, Typed DEF TypeOK
  <2>5. Budget'
    BY <2>1, BudgetSame, Counted DEF Counts
  <2> QED
    BY <2>1, <2>4, <2>5, GlobalsSame, CompileBodyKeeps DEF GInv
<1> QED
  BY <1>1, <1>2

LEMMA FinishKeepsG == ASSUME GInv, Finish PROVE GInv'
<1>1. /\ at' = "run" /\ left = 0 /\ left' = left
      /\ elemSig' = IF table.has
                      THEN [e \in DOMAIN elements |-> pureSig[TypeSignature(TypeOf(elements[e]))]]
                      ELSE elemSig
      /\ UNCHANGED <<typeInfo, pureSig, funcType, imports, table, exports, globals, elements,
                     globalMem, addr, sites, current, last>>
  BY DEF Finish, parsed, histories
<1>2. elemSig' \in Seq(Nat)
  <2>1. elemSig \in Seq(Nat) /\ elements \in Seq(Slots)
        /\ \A s \in DOMAIN pureSig : pureSig[s] \in Nat
    BY Typed DEF TypeOK
  <2>2. ASSUME NEW e \in DOMAIN elements
        PROVE  pureSig[TypeSignature(TypeOf(elements[e]))] \in Nat
    <3>1. elements[e] \in Declared
      BY DEF GInv, Inv, Shape, Declared, NFuncs
    <3> QED
      BY <2>1, <3>1, TypeKnown DEF GInv
  <2>3. DOMAIN elements = 1..Len(elements) /\ Len(elements) \in Nat
    BY <2>1
  <2> QED
    BY <1>1, <2>1, <2>2, <2>3
<1>3. TypeOK'
  BY <1>1, <1>2, Typed DEF TypeOK
<1>4. Budget'
  <2>1. Items <= MaxItems /\ Items' = Items
    BY <1>1, Counted DEF Counts, Items, NFuncs
  <2> QED
    BY <1>1, <2>1, Counted, Budgeted DEF Counts, Budget
<1> QED
  BY <1>1, <1>3, <1>4, GlobalsSame, FinishKeeps DEF GInv
-----------------------------------------------------------------------------
\* How many slots there are.
LEMMA SlotCount ==
  ASSUME GInv
  PROVE  /\ NextSlot \in 0..Len(globals)
         /\ IsFiniteSet({k \in DOMAIN globals : globals[k].isMutable})
<1> DEFINE M == {k \in DOMAIN globals : globals[k].isMutable}
           n == Len(globals)
<1>1. n \in Nat /\ DOMAIN globals = 1..n
  BY Typed DEF TypeOK
<1>2. IsFiniteSet(1..n) /\ Cardinality(1..n) = n
  <2>1. 1 \in Int /\ n \in Int
    BY <1>1
  <2> HIDE DEF n
  <2>2. IsFiniteSet(1..n) /\ Cardinality(1..n) = IF 1 > n THEN 0 ELSE n - 1 + 1
    BY <2>1, FS_Interval
  <2> QED
    BY <1>1, <2>2
<1>3. M \subseteq 1..n
  BY <1>1
<1>4. IsFiniteSet(M) /\ Cardinality(M) <= Cardinality(1..n) /\ Cardinality(M) \in Nat
  BY <1>2, <1>3, FS_Subset, FS_CardinalityType
<1> QED
  BY <1>1, <1>2, <1>4 DEF NextSlot

\* A new mutable global has the next slot, and the others keep theirs.
LEMMA GlobalKeepsG ==
  ASSUME GInv, NEW t \in DOMAIN Literals, NEW isMutable \in BOOLEAN, NEW v \in Literals[t],
         Global(t, isMutable, v)
  PROVE  GInv'
<1> DEFINE n == Len(globals)
           M == {k \in DOMAIN globals : globals[k].isMutable}
           info == [is64bit |-> IsI64(t), isMutable |-> isMutable,
                    slot |-> IF isMutable THEN NextSlot ELSE 0, value |-> SignExtended(t, v)]
           Info == [is64bit : BOOLEAN, isMutable : BOOLEAN, slot : Slots,
                    value : 0..(Pow2[2 * Bits] - 1)]
<1>1. /\ at = "global" /\ at' = at /\ left > 0 /\ left' = left - 1
      /\ globals' = Append(globals, info)
      /\ globalMem' = IF isMutable THEN [globalMem EXCEPT ![NextSlot] = info.value] ELSE globalMem
      /\ current' = Append(current, v)
      /\ UNCHANGED <<typeInfo, pureSig, funcType, imports, table, exports, elements, elemSig,
                     addr, sites, last>>
  BY DEF Global, Item, OneLess
<1>2. /\ n \in Nat /\ globals \in Seq(Info) /\ Len(current) = n
      /\ current \in Seq(0..(Pow2[2 * Bits] - 1))
      /\ globalMem \in [Slots -> 0..(Pow2[2 * Bits] - 1)]
  BY Typed DEF TypeOK
<1>3. n < MaxItems /\ MaxItems \in Nat /\ NextSlot \in Slots /\ 0 \in Slots
  BY <1>1, <1>2, Counted, SlotCount DEF Counts, Slots
<1>4. info \in Info /\ IsI64(t) \in BOOLEAN
  BY <1>3, LiteralFacts DEF IsI64
<1> DEFINE new == info
<1>5. /\ new.is64bit = IsI64(t) /\ new.isMutable = isMutable /\ new.value = SignExtended(t, v)
      /\ (isMutable => new.slot = NextSlot)
  OBVIOUS
<1>6. globals' = Append(globals, new) /\ new \in Info
  BY <1>1, <1>4
<1>7. globalMem' = IF isMutable THEN [globalMem EXCEPT ![NextSlot] = new.value] ELSE globalMem
  BY <1>1
<1> HIDE DEF new, info
<1>8. /\ globals' \in Seq(Info) /\ Len(globals') = n + 1 /\ DOMAIN globals' = 1..(n + 1)
      /\ globals'[n + 1] = new /\ \A k \in 1..n : globals'[k] = globals[k]
      /\ DOMAIN globals = 1..n
  BY <1>2, <1>6
<1>9. v \in 0..(Pow2[2 * Bits] - 1)
  BY WidthFacts, LiteralFacts DEF WidthOf
<1>10. /\ current' \in Seq(0..(Pow2[2 * Bits] - 1))
       /\ Len(current') = n + 1 /\ current'[n + 1] = v
       /\ \A k \in 1..n : current'[k] = current[k]
  BY <1>1, <1>2, <1>9
<1>11. globalMem' \in [Slots -> 0..(Pow2[2 * Bits] - 1)]
  BY <1>2, <1>3, <1>6, <1>7
<1>12. TypeOK'
  <2>1. left' \in 0..MaxItems
    BY <1>1, Typed DEF TypeOK
  <2>2. Len(current') = Len(globals')
    BY <1>8, <1>10
  <2>3. globals' \in Seq([is64bit : BOOLEAN, isMutable : BOOLEAN, slot : Slots,
                         value : 0..(Pow2[2 * Bits] - 1)])
    BY <1>8
  <2> HIDE DEF n, Info
  <2> QED
    BY <1>1, <1>10, <1>11, <2>1, <2>2, <2>3, Typed DEF TypeOK
<1>13. Budget'
  <2>1. Items' = Items + 1
    BY <1>1, <1>8, Sized DEF Sizes, Items, NFuncs
  <2> QED
    BY <1>1, <2>1, BudgetKept
<1>14. NextSlot' = IF isMutable THEN NextSlot + 1 ELSE NextSlot
  <2>1. {k \in DOMAIN globals' : globals'[k].isMutable} = IF isMutable THEN M \cup {n + 1} ELSE M
    <3>1. \A k : k \in DOMAIN globals' <=> k \in DOMAIN globals \/ k = n + 1
      BY <1>2, <1>8
    <3>2. globals'[n + 1].isMutable = isMutable
          /\ \A k \in DOMAIN globals : globals'[k].isMutable = globals[k].isMutable
      BY <1>5, <1>8
    <3> QED
      BY <3>1, <3>2, Zenon
  <2>2. IsFiniteSet(M) /\ n + 1 \notin M
    BY <1>2, <1>8, SlotCount
  <2> HIDE DEF M
  <2>3. Cardinality(M \cup {n + 1}) = Cardinality(M) + 1
    BY <2>2, FS_AddElement
  <2> QED
    BY <2>1, <2>3 DEF NextSlot, M
<1>15. \A k \in 1..n : globals[k].isMutable =>
         /\ globals[k].slot < NextSlot /\ globals[k].slot \in Nat
         /\ globalMem'[globals[k].slot] = globalMem[globals[k].slot]
  <2> TAKE k \in 1..n
  <2>1. globals[k] \in Info
    <3> HIDE DEF Info
    <3> QED
      BY <1>2
  <2>2. globals[k].slot \in Slots /\ globals[k].slot \in Nat
    BY <1>3, <2>1 DEF Slots
  <2>3. globals[k].isMutable => globals[k].slot < NextSlot
    BY <1>8 DEF GInv, Placed
  <2> QED
    BY <1>2, <1>7, <2>2, <2>3
<1>16. Valued'
  <2>1. ASSUME NEW k \in 1..n
        PROVE  /\ current'[k] \in 0..(Pow2[WidthOf(TypeOfGlobal(k))] - 1)'
               /\ OfType(globals[k], Content(k))' = current'[k]
    <3>1. current'[k] = current[k] /\ globals'[k] = globals[k] /\ k \in DOMAIN globals
      BY <1>8, <1>10
    <3>2. Content(k)' = Content(k) /\ TypeOfGlobal(k)' = TypeOfGlobal(k)
      BY <1>15, <3>1 DEF Content, TypeOfGlobal
    <3>3. /\ current[k] \in 0..(Pow2[WidthOf(TypeOfGlobal(k))] - 1)
          /\ OfType(globals[k], Content(k)) = current[k]
      BY <3>1 DEF GInv, Valued
    <3> QED
      BY <3>1, <3>2, <3>3 DEF OfType, WidthOf
  <2>2. ASSUME NEW k, k = n + 1
        PROVE  /\ current'[k] \in 0..(Pow2[WidthOf(TypeOfGlobal(k))] - 1)'
               /\ OfType(globals[k], Content(k))' = current'[k]
    <3>1. current'[k] = v /\ globals'[k] = new
      BY <1>8, <1>10, <2>2
    <3>2. Content(k)' = new.value
      BY <1>2, <1>3, <1>5, <1>7, <3>1 DEF Content
    <3>3. TypeOfGlobal(k)' = t
      BY <1>5, <3>1, LiteralFacts DEF TypeOfGlobal, IsI64
    <3> QED
      BY <1>5, <3>1, <3>2, <3>3, LiteralFacts DEF OfType, WidthOf
  <2>3. \A k \in DOMAIN globals' : k \in 1..n \/ k = n + 1
    BY <1>2, <1>8
  <2> QED
    BY <2>1, <2>2, <2>3 DEF Valued
<1>17. Placed'
  <2>0. NextSlot \in Nat
    BY <1>2, SlotCount
  <2>1. ASSUME NEW k \in DOMAIN globals', globals'[k].isMutable
        PROVE  /\ globals'[k].slot < NextSlot'
               /\ k \in 1..n => globals'[k] = globals[k] /\ globals[k].slot < NextSlot
               /\ k \notin 1..n => k = n + 1 /\ globals'[k].slot = NextSlot
    <3>1. CASE k \in 1..n
      <4>1. globals'[k] = globals[k] /\ globals[k].slot < NextSlot /\ globals[k].slot \in Nat
        BY <1>8, <1>15, <2>1, <3>1
      <4> QED
        BY <1>14, <2>0, <3>1, <4>1
    <3>2. CASE k \notin 1..n
      <4>1. k = n + 1
        BY <1>2, <1>8, <3>2
      <4>2. isMutable /\ globals'[k].slot = NextSlot
        BY <1>5, <1>8, <2>1, <4>1
      <4> QED
        BY <1>14, <2>0, <3>2, <4>1, <4>2
    <3> QED
      BY <3>1, <3>2
  <2>2. ASSUME NEW j \in DOMAIN globals', NEW k \in DOMAIN globals',
               globals'[j].isMutable, globals'[k].isMutable, globals'[j].slot = globals'[k].slot
        PROVE  j = k
    <3>1. \A i, l \in 1..n : globals[i].isMutable /\ globals[l].isMutable
                              /\ globals[i].slot = globals[l].slot => i = l
      BY <1>8 DEF GInv, Placed
    <3>2. \A i \in 1..n : globals[i].isMutable => globals[i].slot \in Nat
      BY <1>15
    <3> QED
      BY <2>0, <2>1, <2>2, <3>1, <3>2
  <2> QED
    BY <2>1, <2>2 DEF Placed
<1>18. GlobalsKeepTheirValues'
  <2>1. last' = None
    BY <1>1 DEF GInv, Inv, InOrder
  <2> QED
    BY <2>1 DEF GlobalsKeepTheirValues, None, End
<1> QED
  BY <1>12, <1>13, <1>16, <1>17, <1>18, GlobalKeeps DEF GInv
\* At run time only GLOBAL_SET changes a global, and only the one it names.
LEMMA RanTyped ==
  ASSUME GInv, NEW what, Ran(what), UNCHANGED globals
  PROVE  Budget'
<1>1. /\ at = "run" /\ at' = at /\ left' = left
      /\ UNCHANGED <<typeInfo, funcType, elements, exports, globals>>
  BY DEF Ran, parsed
<1>2. left \in Nat
  BY Counted DEF Counts
<1> QED
  BY <1>1, <1>2, BudgetSame

LEMMA CallKeepsG ==
  ASSUME GInv, NEW what, Ran(what), what.kind # "get", UNCHANGED <<globalMem, current>>, Inv'
  PROVE  GInv'
<1>1. UNCHANGED <<globals, at, left, typeInfo, pureSig, funcType, imports, table, exports,
                  elements, elemSig, addr>> /\ last' = what
  BY DEF Ran, parsed
<1>2. TypeOK'
  BY <1>1, Typed DEF TypeOK
<1>3. Budget'
  BY <1>1, RanTyped
<1> QED
  BY <1>1, <1>2, <1>3, GlobalsSame DEF GInv

LEMMA GlobalGetKeepsG == ASSUME GInv, NEW k \in DOMAIN globals, GlobalGet(k) PROVE GInv'
<1> DEFINE x == Content(k)
           what == [kind |-> "get", global |-> k, value |-> OfType(globals[k], x)]
<1>1. Ran(what) /\ UNCHANGED <<globalMem, current>>
  BY DEF GlobalGet, Content
<1>2. UNCHANGED <<globals, at, left, typeInfo, pureSig, funcType, imports, table, exports,
                  elements, elemSig, addr>> /\ last' = what
  BY <1>1 DEF Ran, parsed
<1>3. TypeOK'
  BY <1>1, <1>2, Typed DEF TypeOK
<1>4. Budget'
  BY <1>1, <1>2, RanTyped
<1>5. Valued' /\ Placed'
  <2>1. Valued'
    BY <1>1, <1>2 DEF GInv, Valued, WidthOf, TypeOfGlobal, Content, OfType
  <2>2. Placed'
    BY <1>1, <1>2 DEF GInv, Placed, NextSlot
  <2> QED
    BY <2>1, <2>2
<1>6. GlobalsKeepTheirValues'
  <2>1. OfType(globals[k], x) = current[k]
    BY DEF GInv, Valued
  <2> HIDE DEF x
  <2> QED
    BY <1>1, <1>2, <2>1 DEF GlobalsKeepTheirValues
<1>7. Inv'
  BY <1>1, GlobalAccessKeeps DEF GInv
<1> QED
  BY <1>3, <1>4, <1>5, <1>6, <1>7 DEF GInv

LEMMA GlobalSetKeepsG ==
  ASSUME GInv, NEW k \in DOMAIN globals, NEW v \in Literals[TypeOfGlobal(k)], GlobalSet(k, v)
  PROVE  GInv'
<1> DEFINE s == globals[k].slot
<1>1. /\ globals[k].isMutable /\ globalMem' = [globalMem EXCEPT ![s] = v]
      /\ current' = [current EXCEPT ![k] = v] /\ Ran(None)
  BY DEF GlobalSet
<1>2. UNCHANGED <<globals, at, left, typeInfo, pureSig, funcType, imports, table, exports,
                  elements, elemSig, addr>> /\ last' = None
  BY <1>1 DEF Ran, parsed
<1>3. TypeOfGlobal(k) \in {"I32", "I64"}
  BY DEF TypeOfGlobal
<1>4. v \in 0..(Pow2[WidthOf(TypeOfGlobal(k))] - 1) /\ v \in 0..(Pow2[2 * Bits] - 1)
  <2>1. TypeOfGlobal(k) \in DOMAIN Literals
    BY <1>3, LiteralsAssumption
  <2>2. v \in 0..(Pow2[WidthOf(TypeOfGlobal(k))] - 1)
    BY <2>1, LiteralFacts
  <2> QED
    BY <1>3, <2>2, WidthFacts DEF WidthOf
<1>5. /\ globalMem \in [Slots -> 0..(Pow2[2 * Bits] - 1)]
      /\ current \in Seq(0..(Pow2[2 * Bits] - 1)) /\ Len(current) = Len(globals)
      /\ DOMAIN globals = 1..Len(globals)
  BY Typed DEF TypeOK
<1>6. \A j \in DOMAIN globals : globals[j].slot \in Slots
  <2> DEFINE Info == [is64bit : BOOLEAN, isMutable : BOOLEAN, slot : Slots,
                      value : 0..(Pow2[2 * Bits] - 1)]
  <2>1. \A g \in Info : g.slot \in Slots
    OBVIOUS
  <2>2. globals \in Seq(Info)
    BY Typed DEF TypeOK
  <2> HIDE DEF Info
  <2> QED
    BY <2>1, <2>2
<1>7. TypeOK'
  <2>1. globalMem' \in [Slots -> 0..(Pow2[2 * Bits] - 1)]
    BY <1>1, <1>4, <1>5
  <2>2. current' \in Seq(0..(Pow2[2 * Bits] - 1)) /\ Len(current') = Len(globals')
    BY <1>1, <1>2, <1>4, <1>5
  <2> QED
    BY <1>2, <2>1, <2>2, Typed DEF TypeOK
<1>8. Budget'
  BY <1>1, <1>2, RanTyped
<1>9. Valued'
  <2> SUFFICES ASSUME NEW j \in DOMAIN globals
               PROVE  /\ current'[j] \in 0..(Pow2[WidthOf(TypeOfGlobal(j))] - 1)
                      /\ OfType(globals[j], Content(j)') = current'[j]
    BY <1>2 DEF Valued, WidthOf, TypeOfGlobal, OfType
  <2>1. CASE j = k
    <3>1. current'[j] = v /\ Content(j)' = v
      BY <1>1, <1>2, <1>5, <1>6, <2>1 DEF Content
    <3>2. OfType(globals[j], v) = v
      <4>1. CASE globals[j].is64bit
        BY <4>1 DEF OfType
      <4>2. CASE ~globals[j].is64bit
        <5>1. v \in 0..(Pow2[Bits] - 1) /\ Pow2[Bits] \in Nat \ {0}
          BY <1>4, <2>1, <4>2, WidthFacts DEF TypeOfGlobal, WidthOf
        <5>2. v % Pow2[Bits] = v
          BY <5>1
        <5> QED
          BY <4>2, <5>2 DEF OfType
      <4> QED
        BY <4>1, <4>2
    <3> QED
      BY <1>4, <2>1, <3>1, <3>2
  <2>2. CASE j # k
    <3>1. current'[j] = current[j]
      BY <1>1, <1>5, <2>2
    <3>2. globals[j].isMutable => globals[j].slot # s
      BY <1>1, <2>2 DEF GInv, Placed
    <3>3. Content(j)' = Content(j)
      BY <1>1, <1>2, <1>5, <1>6, <3>2 DEF Content
    <3> QED
      BY <3>1, <3>3 DEF GInv, Valued
  <2> QED
    BY <2>1, <2>2
<1>10. Placed'
  BY <1>2 DEF GInv, Placed, NextSlot
<1>11. GlobalsKeepTheirValues'
  BY <1>2 DEF GlobalsKeepTheirValues, None, End
<1>12. Inv'
  BY <1>1, GlobalAccessKeeps DEF GInv, None, End
<1> QED
  BY <1>7, <1>8, <1>9, <1>10, <1>11, <1>12 DEF GInv

LEMMA GPreserved == GInv /\ [Next]_vars => GInv'
<1> SUFFICES ASSUME GInv, [Next]_vars PROVE GInv'
  OBVIOUS
<1>0. Inv'
  BY Preserved DEF GInv
<1>1. ASSUME NEW s \in {"type", "import", "function", "global", "export"},
             NEW n \in 1..MaxItems, Open(s, n)
      PROVE  GInv'
  <2>1. s \in Stages /\ n \in 0..MaxItems /\ s # "code"
    BY DEF Stages
  <2>2. Begins(s, n) /\ Items + n <= MaxItems /\ UNCHANGED <<parsed, blocks, sites, histories>>
    BY <1>1 DEF Open
  <2> QED
    BY <1>0, <2>1, <2>2, OpenKeepsG
<1>2. ASSUME NEW t \in FuncTypes, Type(t) PROVE GInv'
  BY <1>2, TypeKeepsG
<1>3. ASSUME NEW k \in Slots, NEW isPrintf \in BOOLEAN, Import(k, isPrintf) PROVE GInv'
  BY <1>3, ImportKeepsG DEF Slots
<1>4. ASSUME NEW k \in Slots, Function(k) PROVE GInv'
  BY <1>4, FunctionKeepsG DEF Slots
<1>5. CASE \E initial, max \in 0..MaxEntries, limited \in BOOLEAN : Table(initial, limited, max)
  BY <1>5, TableKeepsG
<1>6. CASE \E t \in DOMAIN Literals, isMutable \in BOOLEAN :
             \E v \in Literals[t] : Global(t, isMutable, v)
  BY <1>6, GlobalKeepsG
<1>7. CASE \E name \in Names, f \in Slots, isFunc \in BOOLEAN : Export(name, f, isFunc)
  BY <1>7, ExportKeepsG
<1>8. ASSUME NEW n \in 0..MaxEntries, OpenElements(n) PROVE GInv'
  BY <1>8, OpenElementsKeepsG
<1>9. CASE \E f \in Slots : Element(f)
  BY <1>9, ElementKeepsG
<1>10. CASE OpenCode
  <2>1. NFuncs - imports \in 0..MaxItems
    <3>1. NFuncs \in 0..MaxItems /\ MaxItems \in Nat /\ imports \in Nat /\ imports <= NFuncs
      BY Counted DEF Counts, GInv, Inv, Shape
    <3> QED
      BY <3>1
  <2>2. "code" \in Stages
    BY DEF Stages
  <2> QED
    BY <1>0, <1>10, <2>1, <2>2, OpenKeepsG DEF OpenCode
<1>11. CASE \E call \in Calls : CompileBody(call)
  BY <1>11, CompileBodyKeepsG
<1>12. CASE Finish
  BY <1>12, FinishKeepsG
<1>13. ASSUME NEW name, NEW t, CallByName(name, t) PROVE GInv'
  BY <1>0, <1>13, CallKeepsG DEF CallByName
<1>14. ASSUME NEW site, CallDirect(site) PROVE GInv'
  BY <1>0, <1>14, CallKeepsG DEF CallDirect
<1>15. ASSUME NEW site, NEW e, CallIndirect(site, e) PROVE GInv'
  BY <1>0, <1>15, CallKeepsG DEF CallIndirect
<1>16. ASSUME NEW k \in DOMAIN globals, GlobalGet(k) PROVE GInv'
  BY <1>16, GlobalGetKeepsG
<1>17. CASE \E k \in DOMAIN globals :
              \E v \in Literals[IF globals[k].is64bit THEN "I64" ELSE "I32"] : GlobalSet(k, v)
  BY <1>17, GlobalSetKeepsG DEF TypeOfGlobal
<1>18. CASE UNCHANGED vars
  <2>1. TypeOK'
    BY <1>18, Typed DEF TypeOK, vars, parsed, blocks, histories
  <2>0. UNCHANGED <<typeInfo, funcType, elements, exports, globals>>
    BY <1>18 DEF vars, parsed, blocks
  <2>2. Items' = Items /\ IsFiniteSet(DOMAIN exports)'
    BY <2>0, Budgeted DEF Items, NFuncs
  <2>3. Budget'
    BY <1>18, <2>2 DEF GInv, Budget, vars
  <2>4. Valued' /\ Placed' /\ GlobalsKeepTheirValues'
    BY <1>18, GlobalsSame DEF vars, parsed, blocks, histories
  <2> QED
    BY <1>0, <2>1, <2>3, <2>4 DEF GInv
<1> QED
  BY <1>1, <1>2, <1>3, <1>4, <1>5, <1>6, <1>7, <1>8, <1>9, <1>10, <1>11, <1>12, <1>13,
     <1>14, <1>15, <1>16, <1>17, <1>18 DEF Next

\* Every variable has its type; in particular no counter of the parser passes
\* the bound, and every index entered is one that exists.
THEOREM TypeCorrect == Spec => []TypeOK
<1>1. GInv => TypeOK
  BY DEF GInv
<1> QED
  BY <1>1, GInitially, GPreserved, PTL DEF Spec

\* GLOBAL_GET finds what GLOBAL_SET or the global section last gave the global
\* it names: mutable globals have slots of their own, and the sign bits that
\* fill the slot of an i32 are cut off when it is read.
THEOREM GlobalsAreKept == Spec => []GlobalsKeepTheirValues
<1>1. GInv => GlobalsKeepTheirValues
  BY DEF GInv
<1> QED
  BY <1>1, GInitially, GPreserved, PTL DEF Spec
==============================================================================
