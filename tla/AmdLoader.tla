----------------------------- MODULE AmdLoader ------------------------------
(***************************************************************************)
(* The loader bundled at the head of select2.js (almond).  define() only   *)
(* files a module away; the first require() that reaches it runs its       *)
(* factory, after the factories of its dependencies.  JavaScript runs one  *)
(* call at a time, so the calls in progress form a stack; a factory that   *)
(* throws, or a dependency nobody defined, empties it.                     *)
(***************************************************************************)
EXTENDS Naturals, Sequences, FiniteSets

CONSTANTS
  Module,        \* names of modules
  DepGraphs      \* the dependency lists the page's scripts may hold

ASSUME DepGraphsAssumption == DepGraphs \subseteq [Module -> Seq(Module)]

VARIABLES
  deps,          \* the dependency list of every module
  waiting,       \* defined by a script, factory not called yet
  defining,      \* taken out of waiting; never cleared by the loader
  defined,       \* the factory has returned
  stack,         \* calls of main in progress: module and next dependency
  ran,           \* how often each factory has returned
  early,         \* <<m, d>>: m's factory was handed undefined for d
  failed         \* some call of the loader has thrown

loaderVars == <<deps, waiting, defining, defined, stack, ran, early, failed>>

Frame == [mod : Module, at : Nat \ {0}]

TypeOK ==
  /\ deps \in [Module -> Seq(Module)]
  /\ waiting \subseteq Module
  /\ defining \subseteq Module
  /\ defined \subseteq Module
  /\ stack \in Seq(Frame)
  /\ ran \in [Module -> Nat]
  /\ early \subseteq Module \X Module
  /\ failed \in BOOLEAN

Init ==
  /\ deps \in DepGraphs
  /\ waiting = {} /\ defining = {} /\ defined = {}
  /\ stack = <<>>
  /\ ran = [m \in Module |-> 0]
  /\ early = {}
  /\ failed = FALSE

Top == stack[Len(stack)]
Below == [i \in 1..Len(stack) - 1 |-> stack[i]]
NextDep == deps[Top.mod][Top.at]
Known(m) == m \in defined \union waiting \union defining

\* Variant: only a module that still waits is left alone.
Define_Again(m) ==
  /\ stack = <<>>
  /\ waiting' = waiting \union {m}
  /\ UNCHANGED <<deps, defining, defined, stack, ran, early, failed>>

\* A script of the page, at the top level, defines m.
Define(m) ==
  /\ stack = <<>>
  /\ waiting' = IF m \in defined THEN waiting ELSE waiting \union {m}
  /\ UNCHANGED <<deps, defining, defined, stack, ran, early, failed>>

\* callDep on a module whose factory was not called yet: main is entered.
Enter(m, below) ==
  /\ waiting' = waiting \ {m}
  /\ defining' = defining \union {m}
  /\ stack' = Append(below, [mod |-> m, at |-> 1])

Throw ==
  /\ stack' = <<>>
  /\ failed' = TRUE

\* require("m") at the top level.
Require(m) ==
  /\ stack = <<>>
  /\ \/ m \in waiting /\ Enter(m, <<>>) /\ UNCHANGED failed
     \/ ~Known(m) /\ Throw /\ UNCHANGED <<waiting, defining>>
  /\ UNCHANGED <<deps, defined, ran, early>>

\* One turn of the loop over the dependencies of the module on top.
\* Variant: a dependency that waits is handed over without being called.
Resolve_Lazily ==
  /\ stack # <<>>
  /\ Top.at <= Len(deps[Top.mod])
  /\ LET below == Append(Below, [Top EXCEPT !.at = @ + 1])
     IN /\ stack' = below
        /\ early' = early \union (IF NextDep \in defined
                                  THEN {} ELSE {<<Top.mod, NextDep>>})
  /\ UNCHANGED <<deps, waiting, defining, defined, ran, failed>>

Resolve ==
  /\ stack # <<>>
  /\ Top.at <= Len(deps[Top.mod])
  /\ LET below == Append(Below, [Top EXCEPT !.at = @ + 1])
     IN \/ /\ NextDep \in waiting
           /\ Enter(NextDep, below)
           /\ UNCHANGED <<early, failed>>
        \/ /\ NextDep \notin waiting
           /\ Known(NextDep)
           /\ stack' = below
           /\ early' = early \union (IF NextDep \in defined
                                     THEN {} ELSE {<<Top.mod, NextDep>>})
           /\ UNCHANGED <<waiting, defining, failed>>
        \/ /\ ~Known(NextDep)
           /\ Throw
           /\ UNCHANGED <<waiting, defining, early>>
  /\ UNCHANGED <<deps, defined, ran>>

\* Every argument is there: the factory runs and its value is kept.
Return ==
  /\ stack # <<>>
  /\ Top.at > Len(deps[Top.mod])
  /\ defined' = defined \union {Top.mod}
  /\ ran' = [ran EXCEPT ![Top.mod] = @ + 1]
  /\ stack' = Below
  /\ UNCHANGED <<deps, waiting, defining, early, failed>>

\* ... or throws: nothing is kept, and the module stays in defining.
FactoryThrows ==
  /\ stack # <<>>
  /\ Top.at > Len(deps[Top.mod])
  /\ Throw
  /\ UNCHANGED <<deps, waiting, defining, defined, ran, early>>

Next ==
  \/ \E m \in Module : Define(m) \/ Require(m)
  \/ Resolve
  \/ Return
  \/ FactoryThrows

Spec == Init /\ [][Next]_loaderVars

-----------------------------------------------------------------------------
\* No factory runs to its end twice, however often its module is defined,
\* required or reached through other modules, and whatever threw before.
FactoryOnce == \A m \in Module : ran[m] <= 1

\* The modules m needs, itself among them: those in every set that holds m and,
\* with a module, its dependencies.
Closed(S) == \A m \in S : \A i \in DOMAIN deps[m] : deps[m][i] \in S
Needs(m, d) == \A S \in SUBSET Module : m \in S /\ Closed(S) => d \in S

\* A factory is handed undefined in place of a module only when that module
\* needs the factory's own, or when a call of the loader threw before: a
\* module whose factory threw stays in defining, and is undefined for ever.
DepsFirst ==
  \A p \in early : failed \/ Needs(p[2], p[1])
=============================================================================
