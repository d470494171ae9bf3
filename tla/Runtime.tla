------------------------------ MODULE Runtime ------------------------------
(***************************************************************************)
(* The host's side of a program: Compiler and Runtime objects, and what    *)
(* they share in one process.  The SIGTRAP handler, the jump buffer, the   *)
(* trap code and the memory myPrintf reads are globals, which constructors *)
(* and destructors change under every other object.  The host is one       *)
(* thread and calls no function of a Runtime from within another.          *)
(***************************************************************************)
EXTENDS FiniteSets

CONSTANTS
  Compilers,   \* Compiler objects; each compiles one module
  Importing,   \* those whose module imports env.myPrintf
  Runtimes,    \* Runtime objects
  Trapcodes,   \* Trapcode, without NONE
  NONE,        \* Trapcode::NONE
  None         \* no object

ASSUME ObjectsAssumption ==
  /\ Importing \subseteq Compilers
  /\ None \notin Compilers \cup Runtimes
  /\ NONE \notin Trapcodes

VARIABLES
  module,   \* Compiler -> "absent", "compiled", "destroyed"
  owner,    \* Runtime -> the Compiler of compiler_, or None: no such object
  helper,   \* linearMemoryHelper: the Compiler whose memory it points to
  handler,  \* SIGTRAP: "default" or "signal_handler"
  masked,   \* is SIGTRAP blocked?
  env,      \* globalTrapEnv: the call whose frame it names, the saved mask
  code,     \* globalTrapcode
  call,     \* the Runtime whose callByName runs, or None
  ret,      \* Runtime -> what its last callByName returned (hasTrapped)
  process,  \* "up", "killed" by SIGTRAP, or "undefined"
  \* History, which no action reads:
  cause,      \* Runtime -> the trap that ended its last trapped call
  overtaken,  \* Runtimes: since then another trapped or one was constructed
  unguarded,  \* Runtimes: since the last construction another was destroyed
  superseded  \* Compilers: a later one has parsed an import section

globals == <<helper, handler, masked, env, code>>
objects == <<module, owner>>
history == <<cause, overtaken, unguarded, superseded>>
vars == <<objects, globals, call, ret, process, history>>

Live == {r \in Runtimes : owner[r] # None}
Calling == process = "up" /\ call # None
Hosting == process = "up" /\ call = None

Init ==
  /\ module = [c \in Compilers |-> "absent"]
  /\ owner = [r \in Runtimes |-> None]
  /\ helper = None /\ handler = "default" /\ masked = FALSE
  /\ env = [frame |-> None, masked |-> FALSE]
  /\ code = NONE /\ call = None /\ process = "up"
  /\ ret = [r \in Runtimes |-> "none"]
  /\ cause = [r \in Runtimes |-> NONE]
  /\ overtaken = {} /\ unguarded = {} /\ superseded = {}

-----------------------------------------------------------------------------
ParsedImportsOnce(c) == IF c \in Importing /\ helper = None THEN c ELSE helper
ParsedImports(c) == IF c \in Importing THEN c ELSE helper

\* Compiler::compile.  parseImportSection sets the helper; what is refused
\* after it leaves the helper set, and its Compiler goes out of scope.
Compile(c) ==
  /\ Hosting /\ module[c] = "absent"
  /\ \/ /\ module' = [module EXCEPT ![c] = "compiled"]
        /\ helper' = ParsedImports(c)
     \/ /\ module' = [module EXCEPT ![c] = "destroyed"]
        /\ helper' \in {helper, ParsedImports(c)}
  /\ superseded' = IF helper' = c THEN {d \in Compilers : module[d] # "absent"}
                                 ELSE superseded
  /\ UNCHANGED <<owner, handler, masked, env, code, call, ret, process>>
  /\ UNCHANGED <<cause, overtaken, unguarded>>

\* A Compiler outlives the Runtimes that refer to it.
DestroyCompiler(c) ==
  /\ Hosting /\ module[c] = "compiled"
  /\ \A r \in Runtimes : owner[r] # c
  /\ module' = [module EXCEPT ![c] = "destroyed"]
  /\ UNCHANGED <<owner, globals, call, ret, process, history>>

\* registerSignalHandler replaces whatever handler there is.
RegisteredByFirst == IF Live = {} THEN "signal_handler" ELSE handler
Registered == "signal_handler"

Construct(r, c) ==
  /\ Hosting /\ owner[r] = None /\ module[c] = "compiled"
  /\ owner' = [owner EXCEPT ![r] = c]
  /\ handler' = Registered /\ code' = NONE
  /\ ret' = [ret EXCEPT ![r] = "none"]
  /\ overtaken' = Runtimes /\ unguarded' = {}
  /\ UNCHANGED <<module, helper, masked, env, call, process, cause, superseded>>

Destroy(r) ==
  /\ Hosting /\ owner[r] # None
  /\ owner' = [owner EXCEPT ![r] = None]
  /\ handler' = "default"
  /\ unguarded' = Live \ {r}
  /\ UNCHANGED <<module, helper, masked, env, code, call, ret, process>>
  /\ UNCHANGED <<cause, overtaken, superseded>>

-----------------------------------------------------------------------------
\* sigsetjmp, then the wrapper of the module.  A name or signature that is
\* not exported throws before, and changes nothing.
CallByName(r) ==
  /\ Hosting /\ owner[r] # None
  /\ call' = r
  /\ env' = [frame |-> r, masked |-> masked]
  /\ UNCHANGED <<objects, helper, handler, masked, code, ret, process, history>>

\* The buffer is left behind, naming a frame that exists no more.
Ended(hasTrapped) ==
  /\ call' = None
  /\ env' = [env EXCEPT !.frame = None]
  /\ ret' = [ret EXCEPT ![call] = IF hasTrapped THEN "trapped" ELSE "returned"]

Return ==
  /\ Calling
  /\ Ended(FALSE)
  /\ UNCHANGED <<objects, helper, handler, masked, code, process, history>>

\* Delivering SIGTRAP blocks it; siglongjmp restores the mask sigsetjmp saved.
UnsavedMask == TRUE
RestoredMask == env.masked

\* signal_handler keeps what R0 held in globalTrapcode.
RecordedOnce(c) == IF code = NONE THEN c ELSE code
Recorded(c) == c

\* BRK with its code in R0.  Without a handler, or while it is blocked,
\* SIGTRAP kills the process.
Trap(c) ==
  /\ Calling
  /\ \/ /\ handler = "default" \/ masked
        /\ process' = "killed"
        /\ UNCHANGED <<globals, call, ret, history>>
     \/ /\ handler = "signal_handler" /\ ~masked
        /\ code' = Recorded(c)
        /\ IF env.frame = call
             THEN Ended(TRUE) /\ masked' = RestoredMask /\ UNCHANGED process
             ELSE process' = "undefined" /\ UNCHANGED <<masked, env, call, ret>>
        /\ cause' = [cause EXCEPT ![call] = c] /\ overtaken' = Runtimes \ {call}
        /\ UNCHANGED <<helper, handler, unguarded, superseded>>
  /\ UNCHANGED objects

\* myPrintf, called by the module: it reads the memory the helper points to.
MyPrintf ==
  /\ Calling /\ owner[call] \in Importing
  /\ process' = IF helper \in Compilers /\ module[helper] = "compiled"
                  THEN "up" ELSE "undefined"
  /\ UNCHANGED <<objects, globals, call, ret, history>>

Next ==
  \/ \E c \in Compilers : Compile(c) \/ DestroyCompiler(c)
  \/ \E r \in Runtimes, c \in Compilers : Construct(r, c)
  \/ \E r \in Runtimes : Destroy(r) \/ CallByName(r)
  \/ Return \/ (\E c \in Trapcodes : Trap(c)) \/ MyPrintf

Spec == Init /\ [][Next]_vars

-----------------------------------------------------------------------------
(* Properties *)

\* The type invariant.  Between actions SIGTRAP is not blocked, and the jump
\* buffer names the running call and no other.
TypeOK ==
  /\ module \in [Compilers -> {"absent", "compiled", "destroyed"}]
  /\ owner \in [Runtimes -> Compilers \cup {None}]
  /\ helper \in Compilers \cup {None}
  /\ handler \in {"default", "signal_handler"} /\ masked \in BOOLEAN
  /\ env \in [frame: Runtimes \cup {None}, masked: BOOLEAN]
  /\ code \in Trapcodes \cup {NONE} /\ call \in Runtimes \cup {None}
  /\ ret \in [Runtimes -> {"none", "returned", "trapped"}]
  /\ process \in {"up", "killed", "undefined"}
  /\ cause \in [Runtimes -> Trapcodes \cup {NONE}]
  /\ overtaken \subseteq Runtimes /\ unguarded \subseteq Runtimes
  /\ superseded \subseteq Compilers
  /\ ~masked /\ ~env.masked /\ (process = "up" => env.frame = call)

\* A trap ends the call it happened in and the process goes on, as often as
\* programs trap, unless ~Runtime of another object took the handler away.
TrapsAreCaught == process = "killed" => call \in unguarded

\* After a call that trapped, getTrapCode says why, for as long as no other
\* Runtime has trapped or been constructed; calls that return and objects
\* that are destroyed do not change that.
TrapCodeIsOwn ==
  \A r \in Live \ overtaken : ret[r] = "trapped" => code = cause[r]

\* siglongjmp goes to a frame that is there, and myPrintf reads memory that
\* is its module's own, unless a later module, accepted or not, had an import.
OwnMemoryOnly ==
  /\ process = "undefined" => owner[call] \in superseded
  /\ \A r \in Live : owner[r] \in Importing \ superseded => helper = owner[r]
=============================================================================
