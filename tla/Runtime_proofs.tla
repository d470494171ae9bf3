-------------------------- MODULE Runtime_proofs --------------------------
(***************************************************************************)
(* For any number of modules and Runtime objects, constructed, called and  *)
(* destroyed in any order: what the process-wide state of the runtime      *)
(* keeps apart, and when it does not.                                      *)
(***************************************************************************)
EXTENDS Runtime, TLAPS

\* Who has no handler, and whose memory the helper does not point to.
Unhandled == handler = "default" => Live \subseteq unguarded
HelperPoints ==
  \A c \in Importing \ superseded : module[c] = "compiled" => helper = c

\* A Runtime's module is there, and so is the Runtime that is called.
Referred ==
  /\ \A r \in Runtimes : owner[r] # None => module[owner[r]] = "compiled"
  /\ call # None => owner[call] # None

IInv ==
  /\ TypeOK /\ TrapsAreCaught /\ TrapCodeIsOwn /\ OwnMemoryOnly
  /\ Unhandled /\ HelperPoints /\ Referred

LEMMA InitEstablishes == Init => IInv
<1> SUFFICES ASSUME Init PROVE IInv
  OBVIOUS
<1>1. TypeOK
  BY DEF Init, TypeOK
<1>2. Live = {} /\ \A c \in Compilers : module[c] = "absent"
  BY DEF Init, Live
<1>3. HelperPoints
  BY <1>2, ObjectsAssumption DEF HelperPoints
<1>4. Referred
  BY DEF Init, Referred
<1>5. TrapsAreCaught /\ TrapCodeIsOwn /\ OwnMemoryOnly /\ Unhandled
  BY <1>2 DEF Init, TrapsAreCaught, TrapCodeIsOwn, OwnMemoryOnly, Unhandled
<1> QED
  BY <1>1, <1>3, <1>4, <1>5 DEF IInv

LEMMA CompilePreserves ==
  ASSUME IInv, NEW c \in Compilers, Compile(c)
  PROVE  IInv'
<1>1. /\ process = "up" /\ call = None /\ module[c] = "absent"
      /\ UNCHANGED <<owner, handler, masked, env, code, call, ret, process,
                     cause, overtaken, unguarded>>
  BY DEF Compile, Hosting
<1>2. /\ module' \in [Compilers -> {"absent", "compiled", "destroyed"}]
      /\ module'[c] # "absent"
      /\ \A d \in Compilers \ {c} : module'[d] = module[d]
  BY DEF Compile, IInv, TypeOK
<1>3. /\ helper' \in {helper, c}
      /\ module'[c] = "compiled" /\ c \in Importing => helper' = c
      /\ superseded' = IF helper' = c THEN {d \in Compilers : module[d] # "absent"}
                                      ELSE superseded
  BY <1>2 DEF Compile, ParsedImports, IInv, TypeOK
<1>4. TypeOK'
  BY <1>1, <1>2, <1>3 DEF IInv, TypeOK
<1>5. HelperPoints'
  <2> SUFFICES ASSUME NEW d \in Importing \ superseded', module'[d] = "compiled"
               PROVE  helper' = d
    BY DEF HelperPoints
  <2>1. d \in Compilers
    BY ObjectsAssumption
  <2>2. CASE d = c
    BY <1>3, <2>2
  <2>3. CASE d # c
    BY <1>2, <1>3, <2>1, <2>3 DEF IInv, HelperPoints
  <2> QED
    BY <2>2, <2>3
<1>6. Referred'
  BY <1>1, <1>2 DEF IInv, Referred, TypeOK
<1>7. OwnMemoryOnly'
  BY <1>1, <1>5, <1>6 DEF OwnMemoryOnly, HelperPoints, Referred, Live
<1>8. TrapsAreCaught' /\ TrapCodeIsOwn' /\ Unhandled'
  BY <1>1 DEF IInv, TrapsAreCaught, TrapCodeIsOwn, Unhandled, Live
<1> QED
  BY <1>4, <1>5, <1>6, <1>7, <1>8 DEF IInv

LEMMA DestroyCompilerPreserves ==
  ASSUME IInv, NEW c \in Compilers, DestroyCompiler(c)
  PROVE  IInv'
<1>1. /\ process = "up" /\ call = None /\ \A r \in Runtimes : owner[r] # c
      /\ module' = [module EXCEPT ![c] = "destroyed"]
      /\ UNCHANGED <<owner, globals, call, ret, process, history>>
  BY DEF DestroyCompiler, Hosting
<1>2. TypeOK'
  BY <1>1 DEF IInv, TypeOK, globals, history
<1>3. HelperPoints'
  BY <1>1, ObjectsAssumption DEF IInv, TypeOK, HelperPoints, globals, history
<1>4. Referred'
  BY <1>1 DEF IInv, TypeOK, Referred
<1>5. TrapsAreCaught' /\ TrapCodeIsOwn' /\ OwnMemoryOnly' /\ Unhandled'
  BY <1>1 DEF IInv, TrapsAreCaught, TrapCodeIsOwn, OwnMemoryOnly, Unhandled, Live,
              globals, history
<1> QED
  BY <1>2, <1>3, <1>4, <1>5 DEF IInv

LEMMA ConstructPreserves ==
  ASSUME IInv, NEW r \in Runtimes, NEW c \in Compilers, Construct(r, c)
  PROVE  IInv'
<1>1. /\ process = "up" /\ call = None /\ module[c] = "compiled"
      /\ owner' = [owner EXCEPT ![r] = c]
      /\ handler' = "signal_handler" /\ code' = NONE
      /\ ret' = [ret EXCEPT ![r] = "none"]
      /\ overtaken' = Runtimes /\ unguarded' = {}
      /\ UNCHANGED <<module, helper, masked, env, call, process, cause, superseded>>
  BY DEF Construct, Hosting, Registered
<1>2. TypeOK'
  BY <1>1 DEF IInv, TypeOK
<1>3. Referred' /\ HelperPoints'
  BY <1>1 DEF IInv, TypeOK, Referred, HelperPoints
<1>4. OwnMemoryOnly'
  BY <1>1, <1>3 DEF OwnMemoryOnly, HelperPoints, Referred, Live
<1>5. TrapsAreCaught' /\ TrapCodeIsOwn' /\ Unhandled'
  BY <1>1 DEF TrapsAreCaught, TrapCodeIsOwn, Unhandled, Live
<1> QED
  BY <1>2, <1>3, <1>4, <1>5 DEF IInv

LEMMA DestroyPreserves ==
  ASSUME IInv, NEW r \in Runtimes, Destroy(r)
  PROVE  IInv'
<1>1. /\ process = "up" /\ call = None
      /\ owner' = [owner EXCEPT ![r] = None]
      /\ handler' = "default" /\ unguarded' = Live \ {r}
      /\ UNCHANGED <<module, helper, masked, env, code, call, ret, process,
                     cause, overtaken, superseded>>
  BY DEF Destroy, Hosting
<1>2. TypeOK'
  BY <1>1 DEF IInv, TypeOK, Live
<1>3. Live' = Live \ {r} /\ \A q \in Live' : owner'[q] = owner[q]
  BY <1>1 DEF IInv, TypeOK, Live
<1>4. Referred' /\ HelperPoints'
  BY <1>1 DEF IInv, TypeOK, Referred, HelperPoints
<1>5. TrapsAreCaught' /\ TrapCodeIsOwn' /\ OwnMemoryOnly' /\ Unhandled'
  BY <1>1, <1>3 DEF IInv, TrapsAreCaught, TrapCodeIsOwn, OwnMemoryOnly, Unhandled
<1> QED
  BY <1>2, <1>4, <1>5 DEF IInv

LEMMA CallByNamePreserves ==
  ASSUME IInv, NEW r \in Runtimes, CallByName(r)
  PROVE  IInv'
<1>1. /\ process = "up" /\ owner[r] # None /\ call' = r
      /\ env' = [frame |-> r, masked |-> masked]
      /\ UNCHANGED <<objects, helper, handler, masked, code, ret, process, history>>
  BY DEF CallByName, Hosting
<1>2. TypeOK'
  BY <1>1 DEF IInv, TypeOK, objects, history
<1>3. Referred' /\ HelperPoints'
  BY <1>1 DEF IInv, Referred, HelperPoints, objects, history
<1>4. TrapsAreCaught' /\ TrapCodeIsOwn' /\ OwnMemoryOnly' /\ Unhandled'
  BY <1>1 DEF IInv, TrapsAreCaught, TrapCodeIsOwn, OwnMemoryOnly, Unhandled, Live,
              objects, history
<1> QED
  BY <1>2, <1>3, <1>4 DEF IInv

LEMMA ReturnPreserves ==
  ASSUME IInv, Return
  PROVE  IInv'
<1>1. /\ process = "up" /\ call' = None /\ env' = [env EXCEPT !.frame = None]
      /\ ret' = [ret EXCEPT ![call] = "returned"]
      /\ UNCHANGED <<objects, helper, handler, masked, code, process, history>>
  BY DEF Return, Ended, Calling
<1>2. TypeOK'
  BY <1>1 DEF IInv, TypeOK, objects, history
<1>3. \A r \in Runtimes : ret'[r] = "trapped" => ret[r] = "trapped"
  BY <1>1 DEF IInv, TypeOK
<1>4. Referred' /\ HelperPoints'
  BY <1>1 DEF IInv, Referred, HelperPoints, objects, history
<1>5. TrapsAreCaught' /\ TrapCodeIsOwn' /\ OwnMemoryOnly' /\ Unhandled'
  BY <1>1, <1>3 DEF IInv, TrapsAreCaught, TrapCodeIsOwn, OwnMemoryOnly, Unhandled,
                    Live, objects, history
<1> QED
  BY <1>2, <1>4, <1>5 DEF IInv

\* The jump buffer names the running call, so a caught trap ends that call.
LEMMA TrapPreserves ==
  ASSUME IInv, NEW c \in Trapcodes, Trap(c)
  PROVE  IInv'
<1>1. /\ process = "up" /\ call \in Runtimes /\ owner[call] # None
      /\ env.frame = call /\ ~masked /\ UNCHANGED objects
  BY DEF Trap, Calling, IInv, TypeOK, Referred
<1>2. CASE handler = "default"
  <2>1. process' = "killed" /\ UNCHANGED <<globals, call, ret, history>>
    BY <1>1, <1>2 DEF Trap
  <2>2. call \in unguarded
    BY <1>1, <1>2 DEF IInv, Unhandled, Live
  <2> QED
    BY <1>1, <2>1, <2>2
       DEF IInv, TypeOK, TrapsAreCaught, TrapCodeIsOwn, OwnMemoryOnly, Unhandled,
           HelperPoints, Referred, Live, globals, objects, history
<1>3. CASE handler = "signal_handler"
  <2>1. /\ call' = None /\ env' = [env EXCEPT !.frame = None]
        /\ ret' = [ret EXCEPT ![call] = "trapped"]
        /\ masked' = env.masked /\ process' = process
        /\ code' = c /\ cause' = [cause EXCEPT ![call] = c]
        /\ overtaken' = Runtimes \ {call}
        /\ UNCHANGED <<helper, handler, unguarded, superseded>>
    BY <1>1, <1>3 DEF Trap, Recorded, RestoredMask, Ended
  <2>2. TypeOK'
    BY <1>1, <2>1 DEF IInv, TypeOK, objects
  <2>3. TrapCodeIsOwn'
    <3> SUFFICES ASSUME NEW r \in Runtimes, r \notin overtaken'
                 PROVE  code' = cause'[r]
      BY DEF TrapCodeIsOwn, Live
    <3>1. r = call
      BY <2>1
    <3>2. cause'[call] = c
      BY <1>1, <2>1 DEF IInv, TypeOK
    <3> QED
      BY <2>1, <3>1, <3>2
  <2>4. Referred' /\ HelperPoints'
    BY <1>1, <2>1 DEF IInv, Referred, HelperPoints, objects
  <2>5. TrapsAreCaught' /\ OwnMemoryOnly' /\ Unhandled'
    BY <1>1, <2>1 DEF IInv, TrapsAreCaught, OwnMemoryOnly, Unhandled, Live, objects
  <2> QED
    BY <2>2, <2>3, <2>4, <2>5 DEF IInv
<1> QED
  BY <1>2, <1>3 DEF IInv, TypeOK

LEMMA MyPrintfPreserves ==
  ASSUME IInv, MyPrintf
  PROVE  IInv'
<1>1. /\ process = "up" /\ call \in Runtimes /\ owner[call] \in Importing
      /\ process' \in {"up", "undefined"}
      /\ UNCHANGED <<objects, globals, call, ret, history>>
  BY DEF MyPrintf, Calling, IInv, TypeOK
<1>2. owner[call] \in Compilers /\ owner[call] # None
  BY <1>1, ObjectsAssumption
<1>3. process' = "undefined" => owner[call] \in superseded
  <2> SUFFICES ASSUME owner[call] \notin superseded
               PROVE  process' = "up"
    BY <1>1
  <2>1. module[owner[call]] = "compiled"
    BY <1>1, <1>2 DEF IInv, Referred
  <2>2. helper = owner[call]
    BY <1>1, <2>1 DEF IInv, HelperPoints
  <2> QED
    BY <1>2, <2>1, <2>2 DEF MyPrintf
<1> QED
  BY <1>1, <1>3
     DEF IInv, TypeOK, TrapsAreCaught, TrapCodeIsOwn, OwnMemoryOnly, Unhandled,
         HelperPoints, Referred, Live, globals, objects, history

-----------------------------------------------------------------------------

LEMMA NextPreserves == IInv /\ [Next]_vars => IInv'
<1> SUFFICES ASSUME IInv, [Next]_vars PROVE IInv'
  OBVIOUS
<1>1. CASE UNCHANGED vars
  BY <1>1 DEF vars, IInv, TypeOK, TrapsAreCaught, TrapCodeIsOwn, OwnMemoryOnly,
              Unhandled, HelperPoints, Referred, Live, globals, objects, history
<1>2. CASE Next
  BY <1>2, CompilePreserves, DestroyCompilerPreserves, ConstructPreserves,
     DestroyPreserves, CallByNamePreserves, ReturnPreserves, TrapPreserves,
     MyPrintfPreserves DEF Next
<1> QED
  BY <1>1, <1>2

LEMMA Invariance == Spec => []IInv
BY InitEstablishes, NextPreserves, PTL DEF Spec

\* Between actions SIGTRAP is not blocked, and the jump buffer names the
\* running call and no other.
THEOREM TypeCorrect == Spec => []TypeOK
<1>1. IInv => TypeOK
  BY DEF IInv
<1> QED
  BY Invariance, <1>1, PTL

\* A trap never ends the process, unless the destructor of another Runtime has
\* taken the handler away and no constructor has put it back.
THEOREM EveryTrapIsCaught == Spec => []TrapsAreCaught
<1>1. IInv => TrapsAreCaught
  BY DEF IInv
<1> QED
  BY Invariance, <1>1, PTL

\* getTrapCode gives the code of a Runtime's own last trap until another traps
\* or is constructed.
THEOREM TrapCodesAreOwn == Spec => []TrapCodeIsOwn
<1>1. IInv => TrapCodeIsOwn
  BY DEF IInv
<1> QED
  BY Invariance, <1>1, PTL

\* myPrintf reads its own module's memory unless a later module has an import.
THEOREM MemoryIsOwn == Spec => []OwnMemoryOnly
<1>1. IInv => OwnMemoryOnly
  BY DEF IInv
<1> QED
  BY Invariance, <1>1, PTL
=============================================================================
