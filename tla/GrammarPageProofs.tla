-------------------------- MODULE GrammarPageProofs --------------------------
(***************************************************************************)
(* What a page keeps, for every page: any modules and dependencies, any    *)
(* numbers of panels, tabs, menus, sections and buttons.                   *)
(*                                                                         *)
(* The loader.  FactoryOnce and DepsFirst are not inductive: what forbids  *)
(* a second run is that a module whose call is in progress is neither      *)
(* waiting nor defined, and that no module has two calls in progress; what *)
(* is handed over too soon is in progress itself, and needs each module    *)
(* above it on the stack.                                                  *)
(*                                                                         *)
(* The widgets.  Each property speaks of a widget at rest; what is         *)
(* inductive tells what each callback awaited will make of the widget.     *)
(***************************************************************************)
EXTENDS GrammarPage, FiniteSetTheorems, SequenceTheorems, NaturalsInduction, TLAPS

-----------------------------------------------------------------------------
(* The loader.                                                             *)

Counted == \A m \in Module : ran[m] = IF m \in defined THEN 1 ELSE 0

Apart == waiting \intersect defined = {}

InProgress ==
  \A i \in DOMAIN stack :
    /\ stack[i].mod \in defining
    /\ stack[i].mod \notin waiting \union defined

OneCallEach ==
  \A i, j \in DOMAIN stack : stack[i].mod = stack[j].mod => i = j

IInv ==
  /\ TypeOK
  /\ Counted
  /\ Apart
  /\ InProgress
  /\ OneCallEach

\* A call that has returned leaves the calls below it as they were.
LEMMA BelowFacts ==
  ASSUME TypeOK, stack # <<>>
  PROVE  /\ Len(stack) \in Nat \ {0}
         /\ Top \in Frame
         /\ Below \in Seq(Frame)
         /\ Len(Below) = Len(stack) - 1
         /\ \A i \in 1..Len(stack) - 1 : Below[i] = stack[i]
<1>1. stack \in Seq(Frame)
  BY DEF TypeOK
<1>2. Len(stack) \in Nat \ {0} /\ stack[Len(stack)] \in Frame
  BY <1>1
<1>3. /\ Below \in Seq(Frame)
      /\ Len(Below) = Len(stack) - 1
      /\ \A i \in 1..Len(stack) - 1 : Below[i] = stack[i]
  BY <1>1, <1>2 DEF Below
<1> QED  BY <1>2, <1>3 DEF Top

\* The stack with another frame of the same module at its top.
LEMMA TopReplaced ==
  ASSUME NEW s \in Seq(Frame), NEW t \in Seq(Frame), NEW e \in Frame,
         Len(s) \in Nat \ {0}, Len(t) = Len(s) - 1, e.mod = s[Len(s)].mod,
         \A i \in 1..Len(s) - 1 : t[i] = s[i]
  PROVE  /\ Append(t, e) \in Seq(Frame)
         /\ DOMAIN Append(t, e) = DOMAIN s /\ Len(Append(t, e)) = Len(s)
         /\ \A i \in DOMAIN Append(t, e) : Append(t, e)[i].mod = s[i].mod
<1> DEFINE u == Append(t, e)
<1>1. u \in Seq(Frame) /\ Len(u) = Len(t) + 1
  OBVIOUS
<1>2. u[Len(s)] = e /\ \A i \in 1..Len(s) - 1 : u[i] = t[i]
  OBVIOUS
<1> HIDE DEF u
<1>3. DOMAIN u = 1..Len(s) /\ DOMAIN s = 1..Len(s) /\ Len(u) = Len(s)
  BY <1>1
<1>4. \A i \in 1..Len(s) : i = Len(s) \/ i \in 1..Len(s) - 1
  OBVIOUS
<1>5. \A i \in DOMAIN u : u[i].mod = s[i].mod
  BY <1>2, <1>3, <1>4
<1> QED  BY <1>1, <1>3, <1>5 DEF u

\* The loader starts with no module defined, waiting or in progress.
THEOREM InitIInv == Init => IInv
<1> SUFFICES ASSUME Init
             PROVE  IInv
  OBVIOUS
<1> USE DEF Init
<1>1. deps \in [Module -> Seq(Module)]
  BY DepGraphsAssumption
<1>2. stack \in Seq(Frame) /\ DOMAIN stack = {}
  OBVIOUS
<1>3. TypeOK
  BY <1>1, <1>2 DEF TypeOK
<1>4. Counted /\ Apart
  BY DEF Counted, Apart
<1>5. InProgress /\ OneCallEach
  BY <1>2 DEF InProgress, OneCallEach
<1> QED  BY <1>3, <1>4, <1>5 DEF IInv

\* Calling the factory of a waiting module puts a new module on the stack.
LEMMA EnterIInv ==
  ASSUME IInv, NEW m \in waiting, NEW below \in Seq(Frame),
         Enter(m, below),
         \A i \in DOMAIN below : i \in DOMAIN stack /\ below[i].mod = stack[i].mod,
         UNCHANGED <<deps, defined, ran>>, early' \subseteq Module \X Module,
         failed' \in BOOLEAN
  PROVE  IInv'
<1> USE DEF IInv, Enter, Frame
<1>1. m \in Module /\ m \notin defined
  BY DEF TypeOK, Apart
<1>2. \A i \in DOMAIN stack : stack[i].mod # m
  BY DEF InProgress
<1>3. /\ stack' \in Seq(Frame)
      /\ Len(stack') = Len(below) + 1
      /\ stack'[Len(below) + 1].mod = m
      /\ \A i \in 1..Len(below) :
           i \in DOMAIN stack /\ stack'[i].mod = stack[i].mod
  BY <1>1
<1>4. TypeOK'
  BY <1>1, <1>3 DEF TypeOK
<1>5. Counted' /\ Apart'
  BY DEF Counted, Apart
<1>6. InProgress'
  <2> SUFFICES ASSUME NEW i \in DOMAIN stack'
               PROVE  /\ stack'[i].mod \in defining'
                      /\ stack'[i].mod \notin waiting' \union defined'
    BY DEF InProgress
  <2>1. CASE i \in 1..Len(below)
    BY <2>1, <1>3 DEF InProgress
  <2>2. CASE i = Len(below) + 1
    BY <2>2, <1>1, <1>3
  <2> QED  BY <2>1, <2>2, <1>3
<1>7. OneCallEach'
  <2> SUFFICES ASSUME NEW i \in DOMAIN stack', NEW j \in DOMAIN stack',
                      stack'[i].mod = stack'[j].mod
               PROVE  i = j
    BY DEF OneCallEach
  <2>1. i \in 1..Len(below) + 1 /\ j \in 1..Len(below) + 1
    BY <1>3
  <2>2. CASE i \in 1..Len(below) /\ j \in 1..Len(below)
    BY <2>2, <1>3 DEF OneCallEach
  <2>3. CASE i = Len(below) + 1 \/ j = Len(below) + 1
    BY <2>1, <2>3, <1>2, <1>3
  <2> QED  BY <2>1, <2>2, <2>3
<1> QED  BY <1>4, <1>5, <1>6, <1>7

\* Every step of the loader keeps the invariant.
THEOREM NextIInv == IInv /\ [Next]_loaderVars => IInv'
<1> SUFFICES ASSUME IInv, [Next]_loaderVars
             PROVE  IInv'
  OBVIOUS
<1> USE DEF IInv
<1>1. ASSUME NEW m \in Module, Define(m)
      PROVE  IInv'
  <2>1. DOMAIN stack = {} /\ stack' = stack
    BY <1>1 DEF Define
  <2> QED
    BY <1>1, <2>1 DEF Define, TypeOK, Counted, Apart, InProgress, OneCallEach
<1>2. ASSUME NEW m \in Module, Require(m)
      PROVE  IInv'
  <2>1. CASE m \in waiting /\ Enter(m, <<>>) /\ UNCHANGED failed
    <3>1. /\ <<>> \in Seq(Frame)
          /\ \A i \in DOMAIN <<>> : i \in DOMAIN stack /\ <<>>[i].mod = stack[i].mod
      OBVIOUS
    <3> QED  BY <1>2, <2>1, <3>1, EnterIInv DEF Require, TypeOK
  <2>2. CASE ~Known(m) /\ Throw /\ UNCHANGED <<waiting, defining>>
    BY <1>2, <2>2
    DEF Require, Throw, TypeOK, Counted, Apart, InProgress, OneCallEach
  <2> QED  BY <1>2, <2>1, <2>2 DEF Require
<1>3. ASSUME Resolve
      PROVE  IInv'
  <2> DEFINE below == Append(Below, [Top EXCEPT !.at = @ + 1])
  <2>1. /\ below \in Seq(Frame)
        /\ DOMAIN below = DOMAIN stack
        /\ \A i \in DOMAIN below : below[i].mod = stack[i].mod
    <3>1. stack # <<>> /\ TypeOK
      BY <1>3 DEF Resolve
    <3>2. /\ Len(stack) \in Nat \ {0} /\ Top \in Frame
          /\ Below \in Seq(Frame) /\ Len(Below) = Len(stack) - 1
          /\ \A i \in 1..Len(stack) - 1 : Below[i] = stack[i]
      BY <3>1, BelowFacts
    <3>3. /\ [Top EXCEPT !.at = @ + 1] \in Frame
          /\ [Top EXCEPT !.at = @ + 1].mod = stack[Len(stack)].mod
      BY <3>2 DEF Frame, Top
    <3>4. stack \in Seq(Frame)
      BY <3>1 DEF TypeOK
    <3> QED  BY <3>2, <3>3, <3>4, TopReplaced
  <2>2. NextDep \in Module /\ Top.mod \in Module
    BY <1>3, BelowFacts DEF Resolve, NextDep, TypeOK, Frame
  <2> HIDE DEF below
  <2>3. CASE NextDep \in waiting /\ Enter(NextDep, below) /\ UNCHANGED <<early, failed>>
    <3>1. UNCHANGED <<deps, defined, ran>>
      BY <1>3 DEF Resolve
    <3> QED  BY <2>1, <2>3, <3>1, EnterIInv DEF TypeOK
  <2>4. CASE /\ stack' = below
             /\ early' = early \union (IF NextDep \in defined
                                       THEN {} ELSE {<<Top.mod, NextDep>>})
             /\ UNCHANGED <<waiting, defining, failed>>
    BY <1>3, <2>1, <2>2, <2>4
    DEF Resolve, TypeOK, Counted, Apart, InProgress, OneCallEach
  <2>5. CASE Throw /\ UNCHANGED <<waiting, defining, early>>
    BY <1>3, <2>5
    DEF Resolve, Throw, TypeOK, Counted, Apart, InProgress, OneCallEach
  <2> QED  BY <1>3, <2>3, <2>4, <2>5 DEF Resolve, below
<1>4. ASSUME Return
      PROVE  IInv'
  <2>1. /\ stack' \in Seq(Frame)
        /\ Len(stack') = Len(stack) - 1
        /\ \A i \in DOMAIN stack' : i \in DOMAIN stack /\ stack'[i] = stack[i]
        /\ \A i \in DOMAIN stack' : i # Len(stack)
    BY <1>4, BelowFacts DEF Return
  <2>2. /\ Len(stack) \in DOMAIN stack
        /\ Top.mod \in Module /\ Top.mod \notin waiting \union defined
    BY <1>4, BelowFacts DEF Return, InProgress, Top, Frame
  <2>3. \A i \in DOMAIN stack' : stack'[i].mod # Top.mod
    BY <2>1, <2>2 DEF OneCallEach, Top
  <2>4. TypeOK' /\ Counted' /\ Apart'
    BY <1>4, <2>1, <2>2 DEF Return, TypeOK, Counted, Apart
  <2>5. InProgress'
    BY <1>4, <2>1, <2>3 DEF Return, InProgress
  <2>6. OneCallEach'
    BY <2>1 DEF OneCallEach
  <2> QED  BY <2>4, <2>5, <2>6
<1>5. ASSUME FactoryThrows
      PROVE  IInv'
  BY <1>5
  DEF FactoryThrows, Throw, TypeOK, Counted, Apart, InProgress, OneCallEach
<1>6. ASSUME UNCHANGED loaderVars
      PROVE  IInv'
  BY <1>6 DEF loaderVars, TypeOK, Counted, Apart, InProgress, OneCallEach
<1> QED  BY <1>1, <1>2, <1>3, <1>4, <1>5, <1>6 DEF Next

-----------------------------------------------------------------------------
(* What a factory may be handed.                                           *)

\* A call in progress needs those above it on the stack.
Chain ==
  \A i, j \in DOMAIN stack : i <= j => Needs(stack[i].mod, stack[j].mod)

\* Unless something threw, what was taken out of waiting is in progress or done.
InFlight ==
  failed \/ \A m \in defining :
              m \in defined \/ \E i \in DOMAIN stack : stack[i].mod = m

DepsInv == IInv /\ Chain /\ InFlight /\ DepsFirst

LEMMA NeedsFacts ==
  /\ \A m \in Module : Needs(m, m)
  /\ \A m \in Module, d \in Module : Needs(m, d) =>
       \A i \in DOMAIN deps[d] : Needs(m, deps[d][i])
BY DEF Needs, Closed

LEMMA NeedsKept ==
  ASSUME deps' = deps
  PROVE  \A m, d : Needs(m, d)' <=> Needs(m, d)
BY DEF Needs, Closed

\* A step that puts no module on the stack and hands over none.
LEMMA DepsFrame ==
  ASSUME Chain, InFlight, DepsFirst, deps' = deps, early' = early,
         failed => failed',
         \A i \in DOMAIN stack' : i \in DOMAIN stack /\ stack'[i].mod = stack[i].mod,
         ~failed' => /\ defining' \subseteq defining /\ defined \subseteq defined'
                     /\ \A i \in DOMAIN stack :
                          i \in DOMAIN stack' \/ stack[i].mod \in defined'
  PROVE  Chain' /\ InFlight' /\ DepsFirst'
<1>1. Chain'
  BY NeedsKept DEF Chain
<1>2. InFlight'
  <2> SUFFICES ASSUME ~failed', NEW m \in defining'
               PROVE  m \in defined' \/ \E i \in DOMAIN stack' : stack'[i].mod = m
    BY DEF InFlight
  <2>1. /\ m \in defining /\ ~failed /\ defined \subseteq defined'
        /\ \A i \in DOMAIN stack : i \in DOMAIN stack' \/ stack[i].mod \in defined'
    OBVIOUS
  <2>2. CASE m \in defined
    BY <2>1, <2>2
  <2>3. CASE m \notin defined
    <3>1. PICK i \in DOMAIN stack : stack[i].mod = m
      BY <2>1, <2>3 DEF InFlight
    <3>2. i \in DOMAIN stack' \/ m \in defined'
      BY <2>1, <3>1
    <3> QED  BY <3>1, <3>2
  <2> QED  BY <2>2, <2>3
<1>3. DepsFirst'
  BY NeedsKept DEF DepsFirst
<1> QED  BY <1>1, <1>2, <1>3

\* Calling the factory of a waiting module, which the call below it needs.
LEMMA DepsEnter ==
  ASSUME DepsInv, NEW m \in waiting, NEW below \in Seq(Frame), Enter(m, below),
         Len(below) = Len(stack),
         \A i \in DOMAIN below : below[i].mod = stack[i].mod,
         stack # <<>> => \E i \in DOMAIN deps[Top.mod] : m = deps[Top.mod][i],
         UNCHANGED <<deps, defined, early, failed>>
  PROVE  Chain' /\ InFlight' /\ DepsFirst'
<1>1. /\ stack' = Append(below, [mod |-> m, at |-> 1]) /\ m \in Module
      /\ defining' = defining \union {m} /\ stack \in Seq(Frame)
  BY DEF DepsInv, IInv, TypeOK, Enter
<1>2. /\ Len(below) \in Nat /\ Len(stack) = Len(below)
      /\ DOMAIN stack' = 1..Len(below) + 1 /\ DOMAIN stack = 1..Len(below)
      /\ stack'[Len(below) + 1].mod = m
      /\ \A i \in 1..Len(below) : stack'[i].mod = stack[i].mod /\ stack[i].mod \in Module
  <2>1. /\ Len(below) \in Nat /\ Len(stack) \in Nat
        /\ DOMAIN below = 1..Len(below) /\ DOMAIN stack = 1..Len(stack)
    BY <1>1
  <2>2. /\ DOMAIN stack' = 1..Len(below) + 1
        /\ stack'[Len(below) + 1] = [mod |-> m, at |-> 1]
        /\ \A i \in 1..Len(below) : stack'[i] = below[i]
    BY <1>1
  <2>3. \A i \in DOMAIN stack : stack[i] \in Frame
    BY <1>1
  <2>4. \A i \in DOMAIN stack : stack[i].mod \in Module
    BY <2>3 DEF Frame
  <2> QED  BY <2>1, <2>2, <2>4
<1>3. Chain'
  <2> SUFFICES ASSUME NEW i \in 1..Len(below) + 1, NEW j \in 1..Len(below) + 1, i <= j
               PROVE  Needs(stack'[i].mod, stack'[j].mod)
    BY <1>2, NeedsKept DEF Chain
  <2>1. CASE j \in 1..Len(below)
    <3>1. i \in 1..Len(below)
      BY <1>2, <2>1
    <3>2. /\ i \in DOMAIN stack /\ j \in DOMAIN stack
          /\ stack'[i].mod = stack[i].mod /\ stack'[j].mod = stack[j].mod
      BY <1>2, <2>1, <3>1
    <3>3. Needs(stack[i].mod, stack[j].mod)
      BY <3>2 DEF DepsInv, Chain
    <3> QED  BY <3>2, <3>3
  <2>2. CASE j = Len(below) + 1 /\ i = j
    BY <1>1, <1>2, <2>2, NeedsFacts
  <2>3. CASE j = Len(below) + 1 /\ i # j
    <3>1. i \in 1..Len(below) /\ Len(below) \in 1..Len(below) /\ i <= Len(below)
      BY <1>2, <2>3
    <3>2. Needs(stack[i].mod, Top.mod)
      BY <1>2, <3>1 DEF DepsInv, Chain, Top
    <3>3. stack # <<>> /\ Top.mod \in Module
      BY <1>2, <3>1 DEF Top
    <3> QED  BY <1>2, <2>3, <3>1, <3>2, <3>3, NeedsFacts
  <2> QED  BY <1>2, <2>1, <2>2, <2>3
<1>4. InFlight'
  <2> SUFFICES ASSUME ~failed, NEW n \in defining \union {m}, n \notin defined
               PROVE  \E i \in DOMAIN stack' : stack'[i].mod = n
    BY <1>1 DEF InFlight
  <2>1. CASE n = m
    BY <1>2, <2>1
  <2>2. CASE n # m
    <3>1. PICK i \in DOMAIN stack : stack[i].mod = n
      BY <2>2 DEF DepsInv, InFlight
    <3> QED  BY <1>2, <3>1
  <2> QED  BY <2>1, <2>2
<1>5. DepsFirst'
  BY NeedsKept DEF DepsInv, DepsFirst
<1> QED  BY <1>3, <1>4, <1>5

\* What a factory is handed although it is not there needs the factory's module.
LEMMA DepsResolve ==
  ASSUME DepsInv, Resolve
  PROVE  Chain' /\ InFlight' /\ DepsFirst'
<1> DEFINE below == Append(Below, [Top EXCEPT !.at = @ + 1])
<1>1. /\ below \in Seq(Frame)
      /\ DOMAIN below = DOMAIN stack /\ Len(below) = Len(stack)
      /\ \A i \in DOMAIN below : below[i].mod = stack[i].mod
  <2>1. stack # <<>> /\ TypeOK
    BY DEF DepsInv, IInv, Resolve
  <2>2. /\ Len(stack) \in Nat \ {0} /\ DOMAIN stack = 1..Len(stack) /\ Top \in Frame
        /\ Below \in Seq(Frame) /\ Len(Below) = Len(stack) - 1
        /\ \A i \in 1..Len(stack) - 1 : Below[i] = stack[i]
    BY <2>1, BelowFacts DEF TypeOK
  <2>3. /\ [Top EXCEPT !.at = @ + 1] \in Frame
        /\ [Top EXCEPT !.at = @ + 1].mod = stack[Len(stack)].mod
    BY <2>2 DEF Frame, Top
  <2>4. stack \in Seq(Frame)
    BY <2>1 DEF TypeOK
  <2> QED  BY <2>2, <2>3, <2>4, TopReplaced
<1>2. /\ NextDep \in Module /\ Top.mod \in Module
      /\ \E i \in DOMAIN deps[Top.mod] : NextDep = deps[Top.mod][i]
  <2>1. Top \in Frame /\ stack # <<>> /\ Top.at <= Len(deps[Top.mod])
    BY BelowFacts DEF DepsInv, IInv, Resolve
  <2>2. Top.mod \in Module /\ Top.at \in Nat \ {0}
    BY <2>1 DEF Frame
  <2>3. deps[Top.mod] \in Seq(Module)
    BY <2>2 DEF DepsInv, IInv, TypeOK
  <2>4. Top.at \in DOMAIN deps[Top.mod] /\ NextDep = deps[Top.mod][Top.at]
    BY <2>1, <2>2, <2>3 DEF NextDep
  <2> QED  BY <2>2, <2>3, <2>4
<1>3. /\ Len(stack) \in DOMAIN stack /\ Top.mod = stack[Len(stack)].mod
      /\ DOMAIN stack = 1..Len(stack) /\ Len(stack) \in Nat
  <2>1. stack \in Seq(Frame) /\ stack # <<>>
    BY DEF DepsInv, IInv, TypeOK, Resolve
  <2> QED  BY <2>1 DEF Top
<1>4. UNCHANGED <<deps, defined>>
  BY DEF Resolve
<1> HIDE DEF below
<1>5. CASE NextDep \in waiting /\ Enter(NextDep, below) /\ UNCHANGED <<early, failed>>
  BY <1>1, <1>2, <1>4, <1>5, DepsEnter
<1>6. CASE /\ NextDep \notin waiting /\ Known(NextDep) /\ stack' = below
           /\ early' = early \union (IF NextDep \in defined
                                     THEN {} ELSE {<<Top.mod, NextDep>>})
           /\ UNCHANGED <<waiting, defining, failed>>
  <2>1. Chain'
    BY <1>1, <1>4, <1>6, NeedsKept DEF DepsInv, Chain
  <2>2. InFlight'
    BY <1>1, <1>4, <1>6 DEF DepsInv, InFlight
  <2>3. failed \/ NextDep \in defined \/ Needs(NextDep, Top.mod)
    <3> SUFFICES ASSUME ~failed, NextDep \notin defined
                 PROVE  Needs(NextDep, Top.mod)
      OBVIOUS
    <3>1. NextDep \in defining
      BY <1>6 DEF Known
    <3>2. PICK i \in DOMAIN stack : stack[i].mod = NextDep
      BY <3>1 DEF DepsInv, InFlight
    <3>3. i <= Len(stack)
      BY <1>3
    <3> QED  BY <1>3, <3>2, <3>3 DEF DepsInv, Chain
  <2>4. DepsFirst'
    <3> SUFFICES ASSUME NEW p \in early', ~failed
                 PROVE  Needs(p[2], p[1])
      BY <1>4, <1>6, NeedsKept DEF DepsFirst
    <3>1. CASE p \in early
      BY <3>1 DEF DepsInv, DepsFirst
    <3>2. CASE p \notin early
      <4>1. p = <<Top.mod, NextDep>> /\ NextDep \notin defined
        BY <1>6, <3>2
      <4> QED  BY <2>3, <4>1
    <3> QED  BY <3>1, <3>2
  <2> QED  BY <2>1, <2>2, <2>4
<1>7. CASE Throw /\ UNCHANGED <<waiting, defining, early>>
  BY <1>4, <1>7, DepsFrame DEF DepsInv, Throw
<1> QED  BY <1>5, <1>6, <1>7 DEF Resolve, below

LEMMA NextDeps ==
  ASSUME DepsInv, [Next]_loaderVars
  PROVE  DepsInv'
<1>0. IInv'
  BY NextIInv DEF DepsInv
<1>1. ASSUME NEW m \in Module, Define(m)
      PROVE  Chain' /\ InFlight' /\ DepsFirst'
  BY <1>1, DepsFrame DEF DepsInv, Define
<1>2. ASSUME NEW m \in Module, Require(m)
      PROVE  Chain' /\ InFlight' /\ DepsFirst'
  <2>1. CASE m \in waiting /\ Enter(m, <<>>) /\ UNCHANGED failed
    <3>1. <<>> \in Seq(Frame) /\ stack = <<>> /\ UNCHANGED <<deps, defined, early>>
      BY <1>2 DEF Require
    <3> QED  BY <2>1, <3>1, DepsEnter
  <2>2. CASE ~Known(m) /\ Throw /\ UNCHANGED <<waiting, defining>>
    BY <1>2, <2>2, DepsFrame DEF DepsInv, Require, Throw
  <2> QED  BY <1>2, <2>1, <2>2 DEF Require
<1>3. ASSUME Return
      PROVE  Chain' /\ InFlight' /\ DepsFirst'
  <2>1. /\ stack' = Below /\ defined' = defined \union {Top.mod}
        /\ UNCHANGED <<deps, waiting, defining, early, failed>> /\ stack # <<>>
        /\ stack \in Seq(Frame)
    BY <1>3 DEF Return, DepsInv, IInv, TypeOK
  <2>2. /\ DOMAIN stack = 1..Len(stack) /\ Len(stack) \in Nat
        /\ DOMAIN stack' = 1..Len(stack) - 1
        /\ \A i \in 1..Len(stack) - 1 : stack'[i] = stack[i]
    BY <2>1 DEF Below
  <2>3. \A i \in DOMAIN stack : i \in DOMAIN stack' \/ stack[i].mod \in defined'
    BY <2>1, <2>2 DEF Top
  <2> QED  BY <2>1, <2>2, <2>3, DepsFrame DEF DepsInv
<1>4. ASSUME FactoryThrows
      PROVE  Chain' /\ InFlight' /\ DepsFirst'
  BY <1>4, DepsFrame DEF DepsInv, FactoryThrows, Throw
<1>5. ASSUME UNCHANGED loaderVars
      PROVE  Chain' /\ InFlight' /\ DepsFirst'
  BY <1>5, DepsFrame DEF DepsInv, loaderVars
<1>6. Chain' /\ InFlight' /\ DepsFirst'
  BY <1>1, <1>2, <1>3, <1>4, <1>5, DepsResolve DEF Next
<1> QED  BY <1>0, <1>6 DEF DepsInv

-----------------------------------------------------------------------------
(* Sequences and small sets.                                               *)

LEMMA EndsOfSeq ==
  ASSUME NEW X, NEW q \in Seq(X), q # <<>>
  PROVE  /\ Head(q) \in X /\ Tail(q) \in Seq(X)
         /\ Tail(q) = <<>> => Head(q) = q[Len(q)]
         /\ Tail(q) # <<>> => Tail(q)[Len(Tail(q))] = q[Len(q)]
<1>1. Len(q) \in Nat \ {0} /\ Len(Tail(q)) = Len(q) - 1 /\ Head(q) = q[1]
  OBVIOUS
<1>2. Head(q) \in X /\ Tail(q) \in Seq(X)
  BY <1>1
<1>3. Tail(q) = <<>> => Len(q) = 1
  <2>1. Tail(q) = <<>> => Len(Tail(q)) = 0
    BY EmptySeq, Zenon
  <2> QED  BY <1>1, <2>1
<1>4. Tail(q) # <<>> => Tail(q)[Len(Tail(q))] = q[Len(q)]
  BY <1>1, <1>2
<1> QED  BY <1>1, <1>2, <1>3, <1>4

LEMMA EndOfAppend ==
  ASSUME NEW X, NEW q \in Seq(X), NEW e \in X
  PROVE  /\ Append(q, e) \in Seq(X) /\ Append(q, e) # <<>>
         /\ Append(q, e)[Len(Append(q, e))] = e
OBVIOUS

LEMMA AtMostOne == \A x : Cardinality({x}) = 1 /\ Cardinality({x}) <= 1
<1>1. \A x : Cardinality({x}) = 1
  BY FS_Singleton
<1> QED  BY <1>1

LEMMA FewOfASet ==
  ASSUME NEW X, \A a, b \in X : a = b
  PROVE  Cardinality(X) \in Nat /\ Cardinality(X) <= 1
<1>1. CASE X = {}
  BY <1>1, FS_EmptySet
<1>2. CASE X # {}
  <2>1. PICK x \in X : TRUE
    BY <1>2
  <2>2. X = {x}
    BY <2>1
  <2>3. Cardinality(X) = 1
    BY <2>2, FS_Singleton
  <2> QED  BY <2>3
<1> QED  BY <1>1, <1>2

LEMMA AllOfFew ==
  ASSUME NEW X, IsFiniteSet(X), Cardinality(X) <= 1
  PROVE  \A a, b \in X : a = b
<1>1. Cardinality(X) \in Nat
  BY FS_CardinalityType
<1>2. CASE Cardinality(X) = 0
  BY <1>2, FS_EmptySet
<1>3. CASE Cardinality(X) = 1
  <2>1. PICK x : X = {x}
    BY <1>3, FS_Singleton
  <2> QED  BY <2>1
<1> QED  BY <1>1, <1>2, <1>3

LEMMA LeastOfSet ==
  ASSUME NEW X \in SUBSET Nat, X # {}
  PROVE  \E x \in X : \A y \in X : x <= y
<1>1. PICK x \in X : \A y \in X : <<y, x>> \notin OpToRel(<, Nat)
  BY NatLessThanWellFounded, WFMin
<1>2. \A y \in X : ~(y < x)
  BY <1>1 DEF OpToRel
<1> QED  BY <1>2

LEMMA GreatestOfSet ==
  ASSUME NEW n \in Nat, NEW X \in SUBSET (0..n), X # {}
  PROVE  \E x \in X : \A y \in X : y <= x
<1> DEFINE Y == {n - y : y \in X}
<1>1. Y \in SUBSET Nat /\ Y # {}
  <2>1. \A y \in X : y \in 0..n
    OBVIOUS
  <2>2. \A y \in X : n - y \in Nat
    BY <2>1
  <2> QED  BY <2>2
<1>2. PICK u \in Y : \A v \in Y : u <= v
  BY <1>1, LeastOfSet
<1>3. PICK x \in X : u = n - x
  OBVIOUS
<1>4. \A y \in X : n - x <= n - y
  BY <1>2, <1>3
<1> QED  BY <1>4

-----------------------------------------------------------------------------
(* The buttons.                                                            *)

\* A timeout still due will set the state asked for last.
ButtonInv ==
  /\ U!TypeOK
  /\ button.active = button.checked
  /\ button.radio => Cardinality(button.checked) <= 1
  /\ button.disabled = button.isLoading
  /\ button.due = <<>> => button.isLoading = (button.last = "loading")
  /\ button.due # <<>> => button.due[Len(button.due)] = button.last

LEMMA ButtonCard == \A X : U!Cardinality(X) = Cardinality(X)
BY DEF U!Cardinality, Cardinality

LEMMA ButtonInit == U!Init => ButtonInv
<1> SUFFICES ASSUME NEW radio \in BOOLEAN, NEW on \in SUBSET Choices,
                    radio => Cardinality(on) <= 1,
                    button = [radio |-> radio, active |-> on, checked |-> on,
                              isLoading |-> FALSE, disabled |-> FALSE,
                              due |-> <<>>, last |-> "reset"]
             PROVE  ButtonInv
  BY ButtonCard DEF U!Init
<1>2. <<>> \in Seq(U!States) /\ "reset" \in U!States
  BY DEF U!States
<1> QED  BY <1>2 DEF ButtonInv, U!TypeOK

LEMMA ButtonNext == ButtonInv /\ U!Next => ButtonInv'
<1> SUFFICES ASSUME ButtonInv, U!Next
             PROVE  ButtonInv'
  OBVIOUS
<1>0. button.due \in Seq(U!States)
  BY DEF ButtonInv, U!TypeOK
<1> USE DEF ButtonInv, U!TypeOK
<1>1. ASSUME NEW s \in U!States, U!SetState(s)
      PROVE  ButtonInv'
  <2>1. button' = [button EXCEPT !.due = Append(@, s), !.last = s]
    BY <1>1 DEF U!SetState
  <2>2. /\ Append(button.due, s) \in Seq(U!States)
        /\ Append(button.due, s) # <<>>
        /\ Append(button.due, s)[Len(Append(button.due, s))] = s
    BY <1>0, EndOfAppend
  <2> QED  BY <2>1, <2>2
<1>2. ASSUME U!Timeout
      PROVE  ButtonInv'
  <2> DEFINE s == Head(button.due)
             due == Tail(button.due)
  <2>1. button.due # <<>> /\ button' = U!Ran([button EXCEPT !.due = due], s)
    BY <1>2 DEF U!Timeout
  <2>2. s \in U!States /\ due \in Seq(U!States)
    BY <1>0, <2>1, EndsOfSeq
  <2>3. due = <<>> => s = button.last
    BY <1>0, <2>1, EndsOfSeq
  <2>4. due # <<>> => due[Len(due)] = button.last
    BY <1>0, <2>1, EndsOfSeq
  <2>5. /\ button'.due = due
        /\ button'.isLoading = (s = "loading") /\ button'.disabled = (s = "loading")
        /\ button' \in [radio : BOOLEAN, active : SUBSET Choices, checked : SUBSET Choices,
                        isLoading : BOOLEAN, disabled : BOOLEAN,
                        due : Seq(U!States), last : U!States]
        /\ button'.active = button.active /\ button'.checked = button.checked
        /\ button'.radio = button.radio /\ button'.last = button.last
    BY <2>1, <2>2 DEF U!Ran
  <2> QED  BY <2>3, <2>4, <2>5
<1>3. ASSUME NEW c \in Choices, U!Toggle(c)
      PROVE  ButtonInv'
  <2>1. CASE button' = button
    BY <2>1
  <2>2. CASE button.radio /\ button' = [button EXCEPT !.active = {c}, !.checked = {c}]
    <3>1. Cardinality({c}) <= 1
      BY AtMostOne
    <3> QED  BY <2>2, <3>1
  <2>3. CASE /\ ~button.radio
             /\ \E x \in SUBSET Choices : button' = [button EXCEPT !.active = x, !.checked = x]
    BY <2>3
  <2>4. CASE button.radio
    BY <1>3, <2>1, <2>2, <2>4 DEF U!Toggle, U!Checked
  <2>5. CASE ~button.radio
    <3>1. CASE c \in button.active
      <4>1. button' = [button EXCEPT !.active = button.active \ {c}, !.checked = button.active \ {c}]
        BY <1>3, <2>5, <3>1 DEF U!Toggle, U!Checked
      <4> QED  BY <2>3, <2>5, <4>1
    <3>2. CASE c \notin button.active
      <4>1. button' = [button EXCEPT !.active = button.active \union {c},
                                     !.checked = (button.active \ {c}) \union {c}]
        BY <1>3, <2>5, <3>2 DEF U!Toggle, U!Checked
      <4>2. (button.active \ {c}) \union {c} = button.active \union {c}
        OBVIOUS
      <4> QED  BY <2>3, <2>5, <4>1, <4>2
    <3> QED  BY <3>1, <3>2
  <2> QED  BY <2>4, <2>5
<1> QED  BY <1>1, <1>2, <1>3 DEF U!Next

LEMMA ButtonSafe == ButtonInv => U!ButtonSettled
BY ButtonCard DEF ButtonInv, U!ButtonSettled

-----------------------------------------------------------------------------
(* The menus.                                                              *)

MenuInv ==
  /\ M!TypeOK
  /\ \A a, b \in menus.open \intersect menus.mayClose : a = b
  /\ menus.open \subseteq menus.mayOpen \ menus.disabled
  /\ \A m \in Menus : menus.focus[m] \in M!NoFocus..(Entries - 1)

LEMMA MenuInit == M!Init => MenuInv
<1>1. Entries \in Nat
  BY PageAssumption
<1> QED  BY <1>1 DEF M!Init, MenuInv, M!TypeOK, M!NoFocus

\* A click leaves the menus that refuse to close, and may open one.
LEMMA MenuClick ==
  ASSUME MenuInv,
         NEW opened \in SUBSET (menus.mayOpen \ menus.disabled),
         \A a, b \in opened : a = b,
         menus' = [menus EXCEPT !.open = (@ \ menus.mayClose) \union opened,
                                !.focus = M!NowhereFocused]
  PROVE  MenuInv'
<1>1. Entries \in Nat
  BY PageAssumption
<1>2. M!NowhereFocused \in [Menus -> Int]
      /\ \A m \in Menus : M!NowhereFocused[m] \in M!NoFocus..(Entries - 1)
  BY <1>1 DEF M!NowhereFocused, M!NoFocus
<1>3. /\ menus'.disabled = menus.disabled /\ menus'.mayOpen = menus.mayOpen
      /\ menus'.mayClose = menus.mayClose
      /\ menus'.open = (menus.open \ menus.mayClose) \union opened
      /\ menus'.focus = M!NowhereFocused
  BY DEF MenuInv, M!TypeOK
<1>4. M!TypeOK'
  BY <1>2 DEF MenuInv, M!TypeOK
<1> QED  BY <1>2, <1>3, <1>4 DEF MenuInv

LEMMA MenuNext == MenuInv /\ M!Next => MenuInv'
<1> SUFFICES ASSUME MenuInv, M!Next
             PROVE  MenuInv'
  OBVIOUS
<1>0. /\ menus.open \subseteq Menus /\ menus.disabled \subseteq Menus
      /\ menus.mayOpen \subseteq Menus /\ menus.mayClose \subseteq Menus
      /\ menus.focus \in [Menus -> Int]
  BY DEF MenuInv, M!TypeOK
<1>1. ASSUME menus' = [M!Cleared(menus) EXCEPT !.focus = M!NowhereFocused]
      PROVE  MenuInv'
  <2>1. menus' = [menus EXCEPT !.open = (@ \ menus.mayClose) \union {},
                               !.focus = M!NowhereFocused]
    BY <1>1, <1>0 DEF M!Cleared, MenuInv, M!TypeOK
  <2>2. {} \in SUBSET (menus.mayOpen \ menus.disabled) /\ \A a, b \in {} : a = b
    OBVIOUS
  <2> QED  BY <2>1, <2>2, MenuClick
<1>2. ASSUME NEW m \in Menus, menus' = M!Toggled(menus, m)
      PROVE  MenuInv'
  <2>1. CASE m \in menus.disabled \/ m \in menus.open \/ m \notin menus.mayOpen
    BY <1>1, <1>2, <2>1 DEF M!Toggled
  <2>2. CASE ~(m \in menus.disabled \/ m \in menus.open \/ m \notin menus.mayOpen)
    <3>1. menus' = [menus EXCEPT !.open = (@ \ menus.mayClose) \union {m},
                                 !.focus = M!NowhereFocused]
      BY <1>2, <2>2, <1>0 DEF M!Toggled, M!Cleared, MenuInv, M!TypeOK
    <3>2. {m} \in SUBSET (menus.mayOpen \ menus.disabled) /\ \A a, b \in {m} : a = b
      BY <2>2
    <3> QED  BY <3>1, <3>2, MenuClick
  <2> QED  BY <2>1, <2>2
<1>3. ASSUME NEW m \in Menus, NEW key \in {"up", "down", "escape"}, M!Key(m, key)
      PROVE  MenuInv'
  <2>1. CASE menus' = M!Toggled(menus, m)
    BY <1>2, <2>1
  <2>2. CASE menus' = menus
    BY <2>2 DEF MenuInv, M!TypeOK
  <2> DEFINE f == M!AtLeastFirst(IF key = "up" THEN M!Up(menus.focus[m])
                                 ELSE M!Down(menus.focus[m]))
  <2>3. CASE Entries # 0 /\ menus' = [menus EXCEPT !.focus[m] = f]
    <3>1. Entries \in Nat \ {0} /\ menus.focus[m] \in M!NoFocus..(Entries - 1)
      BY <2>3, PageAssumption DEF MenuInv
    <3>2. f \in M!NoFocus..(Entries - 1) /\ f \in Int
      BY <3>1 DEF M!NoFocus, M!AtLeastFirst, M!Up, M!Down
    <3> HIDE DEF f
    <3>3. /\ menus'.disabled = menus.disabled /\ menus'.mayOpen = menus.mayOpen
          /\ menus'.mayClose = menus.mayClose /\ menus'.open = menus.open
          /\ menus'.focus = [menus.focus EXCEPT ![m] = f]
      BY <2>3 DEF MenuInv, M!TypeOK
    <3>4. M!TypeOK'
      BY <2>3, <3>2 DEF MenuInv, M!TypeOK
    <3>5. \A n \in Menus : menus'.focus[n] \in M!NoFocus..(Entries - 1)
      BY <1>0, <3>2, <3>3 DEF MenuInv
    <3> QED  BY <3>3, <3>4, <3>5 DEF MenuInv
  <2> QED  BY <1>3, <2>1, <2>2, <2>3 DEF M!Key
<1> QED  BY <1>1, <1>2, <1>3 DEF M!Next, M!ClickElsewhere, M!ToggleClick

LEMMA MenuSafe == MenuInv => M!OneMenuOpen
<1>1. \A X : M!Cardinality(X) = Cardinality(X)
  BY DEF M!Cardinality, Cardinality
<1> QED  BY <1>1, FewOfASet DEF MenuInv, M!OneMenuOpen

-----------------------------------------------------------------------------
(* The scroll spy.                                                         *)

SpyStates ==
  [offsets : S!Layouts, maxScroll : S!Positions,
   activeTarget : S!Targets \union {S!NoTarget}, top : S!Positions, processed : BOOLEAN]

\* The target v.activeTarget is right for the layout and the position of v.
Follows(v) ==
  LET i == v.activeTarget
  IN IF v.top >= v.maxScroll THEN i = Sections
     ELSE IF i = S!NoTarget THEN v.top < v.offsets[1]
     ELSE /\ i > 1 => v.offsets[i] <= v.top
          /\ i < Sections => v.top <= v.offsets[i + 1]

SpyInv == spy \in SpyStates /\ (spy.processed => Follows(spy))

\* Every position from the first section on is in some section.
LEMMA SomeSection ==
  ASSUME NEW o \in S!Layouts, NEW top \in S!Positions, o[1] <= top
  PROVE  \E i \in S!Targets :
           /\ o[i] <= top
           /\ i < Sections => top < o[i + 1]
<1> DEFINE X == {i \in S!Targets : o[i] <= top}
<1>1. Sections \in Nat \ {0} /\ Height \in Nat /\ o \in [1..Sections -> 0..Height]
  BY PageAssumption DEF S!Layouts, S!Targets, S!Positions
<1>2. X \in SUBSET (0..Sections) /\ 1 \in X
  BY <1>1 DEF S!Targets
<1>3. PICK x \in X : \A y \in X : y <= x
  BY <1>1, <1>2, GreatestOfSet
<1>4. x < Sections => x + 1 \in S!Targets /\ x + 1 \notin X
  BY <1>1, <1>3 DEF S!Targets
<1>5. x < Sections => top < o[x + 1]
  BY <1>1, <1>4 DEF S!Positions, S!Targets
<1> QED  BY <1>3, <1>5

\* Whatever was active before and wherever the sections were then.
LEMMA SpyProcess ==
  ASSUME NEW w \in SpyStates
  PROVE  S!Process(w) \in SpyStates /\ Follows(S!Process(w))
<1> DEFINE o == w.offsets
           a == w.activeTarget
           top == w.top
           v == S!Process(w)
<1>1. /\ Sections \in Nat \ {0} /\ Height \in Nat
      /\ o \in [1..Sections -> 0..Height] /\ o \in S!Layouts
      /\ top \in 0..Height /\ top \in S!Positions /\ w.maxScroll \in 0..Height
      /\ \A i \in 2..Sections : o[i] >= o[i - 1] /\ o[i] > 0
  BY PageAssumption DEF SpyStates, S!Layouts, S!Targets, S!Positions
<1>2. \A i \in S!Targets :
        S!Covers(w, i) <=> o[i] <= top /\ (i < Sections => top <= o[i + 1])
  BY <1>1 DEF S!Covers, S!Targets
<1>3. /\ v.offsets = o /\ v.maxScroll = w.maxScroll /\ v.top = top
      /\ v.processed = TRUE
      /\ v.activeTarget =
           IF top >= w.maxScroll THEN Sections
           ELSE IF a # S!NoTarget /\ top <= o[1] THEN 1
           ELSE IF S!Found(w) # {} THEN S!Min(S!Found(w)) ELSE a
      /\ v \in [offsets : {o}, maxScroll : {w.maxScroll}, activeTarget : {v.activeTarget},
                   top : {top}, processed : BOOLEAN]
  BY DEF S!Process, SpyStates
<1>4. ASSUME S!Found(w) # {}
      PROVE  S!Min(S!Found(w)) \in S!Found(w)
  <2>1. S!Found(w) \in SUBSET Nat
    BY <1>1 DEF S!Found, S!Targets
  <2>2. \E x \in S!Found(w) : \A y \in S!Found(w) : x <= y
    BY <1>4, <2>1, LeastOfSet
  <2> QED  BY <2>2 DEF S!Min
<1> DEFINE b == v.activeTarget
           InSection == /\ b \in S!Targets \union {S!NoTarget}
                        /\ IF top >= w.maxScroll THEN b = Sections
                           ELSE IF b = S!NoTarget THEN top < o[1]
                           ELSE /\ b > 1 => o[b] <= top
                                /\ b < Sections => top <= o[b + 1]
<1> HIDE DEF o, top, v
<1>5. ASSUME top >= w.maxScroll
      PROVE  InSection
  BY <1>1, <1>3, <1>5 DEF S!Targets
<1>6. ASSUME ~(top >= w.maxScroll) /\ a # S!NoTarget /\ top <= o[1]
      PROVE  InSection
  <2>1. b = 1 /\ (1 < Sections => o[2] >= o[1])
    BY <1>1, <1>3, <1>6
  <2>2. 1 < Sections => o[1] \in 0..Height /\ o[2] \in 0..Height
    BY <1>1
  <2> QED  BY <1>1, <1>6, <2>1, <2>2 DEF S!Targets, S!NoTarget
<1>7. ASSUME ~(top >= w.maxScroll) /\ ~(a # S!NoTarget /\ top <= o[1])
      PROVE  InSection
  <2>1. CASE S!Found(w) # {}
    <3>1. b \in S!Found(w)
      BY <1>3, <1>4, <1>7, <2>1
    <3>2. b \in S!Targets /\ S!Covers(w, b)
      BY <3>1 DEF S!Found
    <3>3. o[b] <= top /\ (b < Sections => top <= o[b + 1])
      BY <1>2, <3>2
    <3> QED  BY <1>1, <1>7, <3>2, <3>3 DEF S!Targets, S!NoTarget
  <2>2. CASE S!Found(w) = {}
    <3>1. b = a
      BY <1>3, <1>7, <2>2
    <3>2. o[1] \in 0..Height
      BY <1>1
    <3>3. CASE top < o[1]
      BY <1>1, <1>7, <3>1, <3>2, <3>3
    <3>4. CASE o[1] <= top
      <4>1. PICK i \in S!Targets : o[i] <= top /\ (i < Sections => top < o[i + 1])
        BY <1>1, <3>4, SomeSection
      <4>2. i < Sections => o[i + 1] \in 0..Height
        BY <1>1 DEF S!Targets
      <4>3. S!Covers(w, i)
        BY <1>1, <1>2, <4>1, <4>2
      <4>4. i = a
        BY <2>2, <4>3 DEF S!Found
      <4> QED  BY <1>1, <1>7, <3>1, <4>1, <4>2, <4>4 DEF S!Targets, S!NoTarget
    <3> QED  BY <1>1, <3>2, <3>3, <3>4
  <2> QED  BY <2>1, <2>2
<1>8. InSection
  BY <1>5, <1>6, <1>7, Zenon
<1>9. v \in SpyStates
  BY <1>1, <1>3, <1>8 DEF SpyStates, o, top
<1> QED  BY <1>3, <1>8, <1>9 DEF Follows, o, top, v

LEMMA SpyInit == S!Init => SpyInv
<1>1. ASSUME NEW o \in S!Layouts, NEW m \in S!Positions, NEW t \in S!Positions
      PROVE  [offsets |-> o, maxScroll |-> m, activeTarget |-> S!NoTarget,
              top |-> t, processed |-> FALSE] \in SpyStates
  BY DEF SpyStates
<1> QED  BY <1>1, SpyProcess DEF S!Init, SpyInv

LEMMA SpyNext == SpyInv /\ S!Next => SpyInv'
<1>1. ASSUME SpyInv, NEW t \in S!Positions, spy' = S!Process([spy EXCEPT !.top = t])
      PROVE  SpyInv'
  <2>1. [spy EXCEPT !.top = t] \in SpyStates
    BY <1>1 DEF SpyInv, SpyStates
  <2> QED  BY <1>1, <2>1, SpyProcess DEF SpyInv
<1>2. ASSUME SpyInv, NEW o \in S!Layouts, NEW m \in S!Positions,
             spy' = [spy EXCEPT !.offsets = o, !.maxScroll = m, !.processed = FALSE]
      PROVE  SpyInv'
  BY <1>2 DEF SpyInv, SpyStates
<1> QED  BY <1>1, <1>2 DEF S!Next, S!Scroll, S!Refresh

LEMMA SpySafe == SpyInv => S!SpyFollows
BY DEF SpyInv, Follows, S!SpyFollows

-----------------------------------------------------------------------------
(* The placement of the dropdown.                                          *)

PlaceInv == W!TypeOK /\ W!PlacedWithRoom

LEMMA PlaceInit == W!Init => PlaceInv
BY DEF W!Init, PlaceInv, W!TypeOK, W!PlacedWithRoom

LEMMA PlaceNext == PlaceInv /\ W!Next => PlaceInv'
BY DEF W!Next, W!PositionDropdown, W!NewDirection, PlaceInv, W!TypeOK, W!PlacedWithRoom


LEMMA PlaceSafe == PlaceInv => W!PlacedWithRoom
BY DEF PlaceInv

-----------------------------------------------------------------------------
(* The tabs.                                                               *)

\* The end of a transition for which one callback was armed.
LEMMA TabEnded ==
  ASSUME NEW w, NEW el, NEW c, w.pending[el] = <<c>>
  PROVE  B!Ended(w, el, B!Run) = B!Run([w EXCEPT !.pending = B!Disarm(@, {el})], c)
<1> DEFINE base == [w EXCEPT !.pending = B!Disarm(@, {el})]
           step(g) == [s \in SUBSET {1} |->
             IF s = {} THEN base ELSE B!Run(g[s \ {B!Max(s)}], <<c>>[B!Max(s)])]
           g0 == [s \in SUBSET {1} |-> IF s = {} THEN base ELSE B!Run(base, c)]
           it == CHOOSE it : it = step(it)
<1> HIDE DEF base
<1>1. B!Max({1}) = 1
  BY DEF B!Max
<1>2. \A s \in SUBSET {1} : s # {} => s = {1}
  OBVIOUS
<1>3. g0 = step(g0)
  <2>1. \A s \in SUBSET {1} : s # {} => s \ {B!Max(s)} = {} /\ <<c>>[B!Max(s)] = c
    BY <1>1, <1>2
  <2>2. \A s \in SUBSET {1} : s # {} => g0[s \ {B!Max(s)}] = base
    BY <2>1
  <2> HIDE DEF g0
  <2>3. g0 = [s \in SUBSET {1} |-> g0[s]]
    BY DEF g0
  <2>4. \A s \in SUBSET {1} :
          g0[s] = IF s = {} THEN base ELSE B!Run(g0[s \ {B!Max(s)}], <<c>>[B!Max(s)])
    BY <2>1, <2>2 DEF g0
  <2> QED  BY <2>3, <2>4
<1>4. it = step(it)
  BY <1>3
<1> HIDE DEF it
<1>5. it[{1}] = B!Run(it[{}], c) /\ it[{}] = base
  <2>1. {} \in SUBSET {1} /\ {1} \in SUBSET {1} /\ {1} # {} /\ {1} \ {1} = {} /\ <<c>>[1] = c
    OBVIOUS
  <2>2. \A s \in SUBSET {1} :
          it[s] = IF s = {} THEN base ELSE B!Run(it[s \ {B!Max(s)}], <<c>>[B!Max(s)])
    BY <1>4
  <2> QED  BY <1>1, <2>1, <2>2
<1>6. B!FoldLeft(B!Run, base, <<c>>) = it[{1}]
  <2>1. DOMAIN <<c>> = {1}
    OBVIOUS
  <2> QED  BY <2>1 DEF B!FoldLeft, B!MapThenFoldSet, it
<1>7. B!Ended(w, el, B!Run) = B!FoldLeft(B!Run, base, <<c>>)
  BY DEF B!Ended, base
<1> QED  BY <1>5, <1>6, <1>7 DEF base

\* Between two fades: one tab, its heading and its pane.
TabSteady ==
  /\ tabs.pending = [el \in Tabs |-> <<>>]
  /\ \E t \in Tabs : tabs.li = {t} /\ tabs.pane = {t} /\ B!Visible(t)

\* While the pane o fades out that t will replace.
TabFading ==
  \E o, t \in Tabs :
    /\ tabs.li = {t} /\ tabs.pane = {o}
    /\ tabs.pending = [el \in Tabs |-> IF el = o THEN << <<{o}, t>> >> ELSE <<>>]

TabInv == ~hasty => B!TypeOK /\ (TabSteady \/ TabFading)

LEMMA FadingWaits == TabFading => ~B!Quiet(tabs.pending)
<1> SUFFICES ASSUME NEW o \in Tabs, NEW t \in Tabs,
                    tabs.pending = [el \in Tabs |-> IF el = o THEN << <<{o}, t>> >> ELSE <<>>]
             PROVE  ~B!Quiet(tabs.pending)
  BY DEF TabFading
<1>1. o \in DOMAIN tabs.pending /\ tabs.pending[o] = << <<{o}, t>> >>
  OBVIOUS
<1>2. << <<{o}, t>> >> # <<>>
  OBVIOUS
<1> QED  BY <1>1, <1>2 DEF B!Quiet

LEMMA TabInit == B!Init => TabInv
<1> SUFFICES ASSUME B!Init
             PROVE  B!TypeOK /\ TabSteady
  BY DEF TabInv
<1>1. <<>> \in Seq((SUBSET Tabs) \X Tabs)
  OBVIOUS
<1>2. PICK t \in Tabs, fade \in SUBSET Tabs :
        tabs = [li |-> {t}, pane |-> {t}, fade |-> fade, in |-> {t},
                pending |-> [el \in Tabs |-> <<>>]]
  BY DEF B!Init, B!NoneAwaited
<1>3. B!TypeOK
  BY <1>1, <1>2 DEF B!TypeOK, B!Init
<1> QED  BY <1>2, <1>3 DEF TabSteady, B!Visible

LEMMA TabNext == TabInv /\ B!Next => TabInv'
<1> SUFFICES ASSUME TabInv, B!Next, ~hasty'
             PROVE  B!TypeOK' /\ (TabSteady' \/ TabFading')
  BY DEF TabInv
<1> DEFINE Calls == Seq((SUBSET Tabs) \X Tabs)
<1>1. ASSUME NEW t \in Tabs, B!Click(t)
      PROVE  B!TypeOK' /\ (TabSteady' \/ TabFading')
  <2>1. ~hasty /\ B!Quiet(tabs.pending) /\ hasty' \in BOOLEAN
    BY <1>1 DEF B!Click
  <2>2. B!TypeOK /\ (TabSteady \/ TabFading)
    BY <2>1 DEF TabInv
  <2>3. TabSteady
    <3> QED  BY <2>1, <2>2, FadingWaits
  <2>4. PICK o \in Tabs : tabs.li = {o} /\ tabs.pane = {o}
    BY <2>3 DEF TabSteady
  <2> DEFINE w == [tabs EXCEPT !.li = {t}]
  <2>5. /\ w.pane = {o} /\ w.fade = tabs.fade /\ w.in = tabs.in /\ w.li = {t}
        /\ w.pending = [el \in Tabs |-> <<>>]
        /\ w \in [li : SUBSET Tabs, pane : SUBSET Tabs, fade : SUBSET Tabs, in : SUBSET Tabs,
                  pending : [Tabs -> Calls]]
    BY <2>2, <2>3, <2>4 DEF B!TypeOK, TabSteady
  <2>6. tabs' = B!ActivatePane(w, t)
    BY <1>1 DEF B!Click
  <2> HIDE DEF w
  <2>7. CASE o \in tabs.fade
    <3> DEFINE p == [el \in Tabs |-> IF el = o THEN << <<{o}, t>> >> ELSE <<>>]
    <3>1. B!ArmAll(w.pending, w.pane, LAMBDA x : <<w.pane, t>>) = p
      <4>1. Append(<<>>, <<{o}, t>>) = << <<{o}, t>> >>
        OBVIOUS
      <4> QED  BY <2>5, <4>1 DEF B!ArmAll
    <3>2. p \in [Tabs -> Calls]
      OBVIOUS
    <3> HIDE DEF p
    <3>3. tabs' = [[w EXCEPT !.pending = p] EXCEPT !.in = @ \ {o}]
      <4>1. w.pane \intersect w.fade # {}
        BY <2>5, <2>7
      <4>2. tabs' = [[w EXCEPT !.pending = B!ArmAll(@, w.pane, LAMBDA x : <<w.pane, t>>)]
                     EXCEPT !.in = @ \ w.pane]
        BY <2>6, <4>1 DEF B!ActivatePane
      <4>3. [w EXCEPT !.pending = B!ArmAll(@, w.pane, LAMBDA x : <<w.pane, t>>)]
              = [w EXCEPT !.pending = p]
        BY <2>5, <3>1
      <4> QED  BY <2>5, <4>2, <4>3
    <3>4. B!TypeOK'
      BY <2>1, <2>5, <3>2, <3>3 DEF B!TypeOK
    <3>5. tabs'.li = {t} /\ tabs'.pane = {o} /\ tabs'.pending = p
      BY <2>5, <3>3
    <3> QED  BY <3>4, <3>5 DEF TabFading, p
  <2>8. CASE o \notin tabs.fade
    <3>1. tabs' = [[[w EXCEPT !.pane = ({o} \ {o}) \union {t}] EXCEPT !.fade = @ \ {t}]
                   EXCEPT !.in = @ \ {o}]
      BY <2>5, <2>6, <2>8 DEF B!ActivatePane, B!Replaced
    <3>2. B!TypeOK'
      BY <2>1, <2>5, <3>1 DEF B!TypeOK
    <3>3. tabs'.li = {t} /\ tabs'.pane = {t} /\ t \notin tabs'.fade
          /\ tabs'.pending = [el \in Tabs |-> <<>>]
      BY <2>5, <3>1
    <3> QED  BY <3>2, <3>3 DEF TabSteady, B!Visible
  <2> QED  BY <2>7, <2>8
<1>2. ASSUME NEW e \in Tabs, B!TransitionEnds(e)
      PROVE  B!TypeOK' /\ (TabSteady' \/ TabFading')
  <2>1. ~hasty /\ hasty' = hasty /\ tabs.pending[e] # <<>>
    BY <1>2 DEF B!TransitionEnds
  <2>2. B!TypeOK /\ TabFading
    BY <2>1 DEF TabInv, TabSteady
  <2>3. PICK o, t \in Tabs :
          /\ tabs.li = {t} /\ tabs.pane = {o}
          /\ tabs.pending = [el \in Tabs |-> IF el = o THEN << <<{o}, t>> >> ELSE <<>>]
    BY <2>2 DEF TabFading
  <2>4. e = o /\ tabs.pending[e] = << <<{o}, t>> >>
    BY <2>1, <2>3
  <2> DEFINE w == [tabs EXCEPT !.pending = [el \in Tabs |-> <<>>]]
  <2>5. B!Disarm(tabs.pending, {e}) = [el \in Tabs |-> <<>>]
    BY <2>3, <2>4 DEF B!Disarm
  <2>6. tabs' = B!Run(w, <<{o}, t>>)
    <3>1. tabs' = B!Ended(tabs, e, B!Run)
      BY <1>2 DEF B!TransitionEnds
    <3>2. tabs' = B!Run([tabs EXCEPT !.pending = B!Disarm(@, {e})], <<{o}, t>>)
      BY <2>4, <3>1, TabEnded
    <3>3. [tabs EXCEPT !.pending = B!Disarm(@, {e})] = w
      BY <2>5
    <3> QED  BY <3>2, <3>3
  <2>7. /\ w.pane = {o} /\ w.fade = tabs.fade /\ w.in = tabs.in /\ w.li = {t}
        /\ w.pending = [el \in Tabs |-> <<>>]
        /\ w \in [li : SUBSET Tabs, pane : SUBSET Tabs, fade : SUBSET Tabs, in : SUBSET Tabs,
                  pending : [Tabs -> Calls]]
    <3>1. /\ tabs \in [li : SUBSET Tabs, pane : SUBSET Tabs, fade : SUBSET Tabs,
                      in : SUBSET Tabs, pending : [Tabs -> Calls]]
          /\ [el \in Tabs |-> <<>>] \in [Tabs -> Calls]
      BY <2>2 DEF B!TypeOK
    <3> HIDE DEF Calls
    <3> QED  BY <2>3, <3>1
  <2> HIDE DEF w
  <2>8. tabs' = [[w EXCEPT !.pane = ({o} \ {o}) \union {t}] EXCEPT !.in = @ \union {t}]
    BY <2>6, <2>7 DEF B!Run, B!Replaced
  <2>9. B!TypeOK'
    BY <2>1, <2>2, <2>7, <2>8 DEF B!TypeOK
  <2>10. tabs'.li = {t} /\ tabs'.pane = {t} /\ t \in tabs'.in
         /\ tabs'.pending = [el \in Tabs |-> <<>>]
    BY <2>7, <2>8
  <2> QED  BY <2>9, <2>10 DEF TabSteady, B!Visible
<1> QED  BY <1>1, <1>2 DEF B!Next

LEMMA TabSafe == TabInv => B!TabSettled
<1> SUFFICES ASSUME TabInv, ~hasty, B!Quiet(tabs.pending)
             PROVE  TabSteady
  BY DEF TabSteady, B!TabSettled
<1> QED  BY FadingWaits DEF TabInv

-----------------------------------------------------------------------------
(* The panels.                                                             *)

\* The end of a transition for which one callback was armed.
LEMMA PanelEnded ==
  ASSUME NEW w, NEW el, NEW c, w.pending[el] = <<c>>
  PROVE  P!Ended(w, el, P!Run) = P!Run([w EXCEPT !.pending = P!Disarm(@, {el})], c)
<1> DEFINE base == [w EXCEPT !.pending = P!Disarm(@, {el})]
           step(g) == [s \in SUBSET {1} |->
             IF s = {} THEN base ELSE P!Run(g[s \ {P!Max(s)}], <<c>>[P!Max(s)])]
           g0 == [s \in SUBSET {1} |-> IF s = {} THEN base ELSE P!Run(base, c)]
           it == CHOOSE it : it = step(it)
<1> HIDE DEF base
<1>1. P!Max({1}) = 1
  BY DEF P!Max
<1>2. \A s \in SUBSET {1} : s # {} => s = {1}
  OBVIOUS
<1>3. g0 = step(g0)
  <2>1. \A s \in SUBSET {1} : s # {} => s \ {P!Max(s)} = {} /\ <<c>>[P!Max(s)] = c
    BY <1>1, <1>2
  <2>2. \A s \in SUBSET {1} : s # {} => g0[s \ {P!Max(s)}] = base
    BY <2>1
  <2> HIDE DEF g0
  <2>3. g0 = [s \in SUBSET {1} |-> g0[s]]
    BY DEF g0
  <2>4. \A s \in SUBSET {1} :
          g0[s] = IF s = {} THEN base ELSE P!Run(g0[s \ {P!Max(s)}], <<c>>[P!Max(s)])
    BY <2>1, <2>2 DEF g0
  <2> QED  BY <2>3, <2>4
<1>4. it = step(it)
  BY <1>3
<1> HIDE DEF it
<1>5. it[{1}] = P!Run(it[{}], c) /\ it[{}] = base
  <2>1. {} \in SUBSET {1} /\ {1} \in SUBSET {1} /\ {1} # {} /\ {1} \ {1} = {} /\ <<c>>[1] = c
    OBVIOUS
  <2>2. \A s \in SUBSET {1} :
          it[s] = IF s = {} THEN base ELSE P!Run(it[s \ {P!Max(s)}], <<c>>[P!Max(s)])
    BY <1>4
  <2> QED  BY <1>1, <2>1, <2>2
<1>6. P!FoldLeft(P!Run, base, <<c>>) = it[{1}]
  <2>1. DOMAIN <<c>> = {1}
    OBVIOUS
  <2> QED  BY <2>1 DEF P!FoldLeft, P!MapThenFoldSet, it
<1>7. P!Ended(w, el, P!Run) = P!FoldLeft(P!Run, base, <<c>>)
  BY DEF P!Ended, base
<1> QED  BY <1>5, <1>6, <1>7 DEF base

Showing(p) == << <<"shown", p>> >>
Hiding(p) == << <<"hidden", p>> >>
Orphan(p) == << <<"orphan", p>> >>

\* The panels that are open or about to be.
Opened == {p \in Panels : p \in panels.in \/ panels.pending[p] = Showing(p)}

\* Each panel is at rest or in one transition, closed in the meantime.
PanelsAgree ==
  /\ \A p \in Panels :
       /\ panels.pending[p] \in {<<>>, Showing(p), Hiding(p), Orphan(p)}
       /\ panels.pending[p] # <<>> => p \notin panels.in
       /\ p \in panels.trans <=> panels.pending[p] \in {Showing(p), Hiding(p)}
       /\ p \in panels.collapsed <=> p \notin Opened
       /\ ~panels.accordion => (p \in panels.mark <=> ~(p \in Opened <=> p \in panels.first))
  /\ panels.accordion => \A p, q \in Opened : p = q

PanelsInv == ~hasty => P!TypeOK /\ PanelsAgree

PanelsType ==
  [accordion : BOOLEAN, first : SUBSET Panels, in : SUBSET Panels, data : SUBSET Panels,
   trans : SUBSET Panels, collapsed : SUBSET Panels, mark : SUBSET Panels,
   pending : [Panels -> Seq({"shown", "hidden", "orphan"} \X Panels)]]

LEMMA PanelsCalls ==
  \A p \in Panels :
    /\ {<<>>, Showing(p), Hiding(p), Orphan(p)} \subseteq Seq({"shown", "hidden", "orphan"} \X Panels)
    /\ <<>> \notin {Showing(p), Hiding(p), Orphan(p)}
    /\ Showing(p) # Hiding(p) /\ Showing(p) # Orphan(p) /\ Hiding(p) # Orphan(p)
    /\ Append(<<>>, <<"shown", p>>) = Showing(p)
    /\ Append(<<>>, <<"hidden", p>>) = Hiding(p)
    /\ Append(<<>>, <<"orphan", p>>) = Orphan(p)
BY DEF Showing, Hiding, Orphan

LEMMA PanelsCard == \A X : P!Cardinality(X) = Cardinality(X)
BY DEF P!Cardinality, Cardinality

LEMMA PanelsInit == P!Init => PanelsInv
<1> SUFFICES ASSUME P!Init
             PROVE  P!TypeOK /\ PanelsAgree
  BY DEF PanelsInv
<1>1. PICK accordion \in BOOLEAN, first \in SUBSET Panels :
        /\ accordion => P!Cardinality(first) <= 1
        /\ panels = [accordion |-> accordion, first |-> first, in |-> first, data |-> {},
                     trans |-> {}, collapsed |-> Panels \ first, mark |-> {},
                     pending |-> [p \in Panels |-> <<>>]]
  BY DEF P!Init, P!NoneAwaited
<1>2. P!TypeOK
  BY <1>1, PanelsCalls DEF P!TypeOK, P!Init
<1>3. Opened = first
  BY <1>1, PanelsCalls DEF Opened
<1>4. accordion => \A p, q \in first : p = q
  <2>1. IsFiniteSet(first)
    BY PageAssumption, FS_Subset
  <2> QED  BY <1>1, <2>1, PanelsCard, AllOfFew
<1> QED  BY <1>1, <1>2, <1>3, <1>4, PanelsCalls DEF PanelsAgree

LEMMA PanelsSafe == PanelsInv => P!CollapseSettled
<1> SUFFICES ASSUME P!TypeOK, PanelsAgree, P!Quiet(panels.pending)
             PROVE  /\ panels.collapsed = Panels \ panels.in
                    /\ panels.accordion => P!Cardinality(panels.in) <= 1
                    /\ ~panels.accordion =>
                         panels.mark = (panels.in \ panels.first) \union (panels.first \ panels.in)
  BY DEF PanelsInv, P!CollapseSettled
<1>1. /\ panels.in \subseteq Panels /\ panels.collapsed \subseteq Panels
      /\ panels.first \subseteq Panels /\ panels.mark \subseteq Panels
      /\ DOMAIN panels.pending = Panels
  BY DEF P!TypeOK
<1>2. Opened = panels.in
  BY <1>1, PanelsCalls DEF P!Quiet, Opened
<1>3. panels.accordion => Cardinality(panels.in) <= 1
  BY <1>2, FewOfASet DEF PanelsAgree
<1> QED  BY <1>1, <1>2, <1>3, PanelsCard DEF PanelsAgree

\* A click on a panel whose transition, or whose accordion, is at rest.
LEMMA PanelsClick ==
  ASSUME P!TypeOK, PanelsAgree, NEW p \in Panels, P!Click(p), ~P!Hasty(panels, p)
  PROVE  panels' \in PanelsType /\ PanelsAgree'
<1> DEFINE w == [panels EXCEPT !.mark = P!Marked(panels, p),
                               !.collapsed = P!Headings(panels, p), !.data = @ \union {p}]
<1>1. panels' = P!Toggle(w, p) /\ panels \in PanelsType
  BY DEF P!Click, P!TypeOK, PanelsType
<1>2. P!Marked(panels, p) \in SUBSET Panels /\ P!Headings(panels, p) \in SUBSET Panels
  BY <1>1 DEF P!Marked, P!Headings, PanelsType
<1>3. /\ w \in PanelsType /\ w.accordion = panels.accordion /\ w.first = panels.first
      /\ w.in = panels.in /\ w.data = panels.data \union {p} /\ w.trans = panels.trans
      /\ w.collapsed = P!Headings(panels, p) /\ w.mark = P!Marked(panels, p)
      /\ w.pending = panels.pending
  BY <1>1, <1>2 DEF PanelsType
<1>4. panels.pending[p] = <<>> /\ p \notin panels.trans
  BY <1>1, PanelsCalls DEF P!Hasty, P!Quiet, PanelsAgree, PanelsType
<1>5. panels.accordion => \A q \in Panels : panels.pending[q] = <<>> /\ q \notin panels.trans
  BY <1>1, PanelsCalls DEF P!Hasty, P!Quiet, PanelsAgree, PanelsType
<1>6. \A q \in Panels :
        /\ q \in P!Marked(panels, p) <=> IF q = p THEN q \notin panels.mark ELSE q \in panels.mark
        /\ q \in P!Headings(panels, p) <=>
             IF q = p THEN p \in panels.in ELSE panels.accordion \/ q \in panels.collapsed
  BY <1>1, <1>4 DEF P!Marked, P!Headings, PanelsType
<1> HIDE DEF w
<1>7. CASE p \in panels.in
  <2> DEFINE pending == [panels.pending EXCEPT ![p] = Hiding(p)]
  <2>1. panels' = [w EXCEPT !.in = @ \ {p}, !.trans = @ \union {p}, !.pending = pending]
    BY <1>1, <1>3, <1>4, <1>7, PanelsCalls DEF P!Toggle, P!Hide, P!Arm
  <2>2. /\ pending \in [Panels -> Seq({"shown", "hidden", "orphan"} \X Panels)]
        /\ \A q \in Panels : pending[q] = IF q = p THEN Hiding(p) ELSE panels.pending[q]
    BY <1>1, PanelsCalls DEF PanelsType
  <2> HIDE DEF pending
  <2>3. /\ panels' \in PanelsType /\ panels'.accordion = panels.accordion
        /\ panels'.first = panels.first /\ panels'.in = panels.in \ {p}
        /\ panels'.trans = panels.trans \union {p} /\ panels'.pending = pending
        /\ panels'.collapsed = P!Headings(panels, p) /\ panels'.mark = P!Marked(panels, p)
    BY <1>3, <2>1, <2>2 DEF PanelsType
  <2>4. \A q \in Panels : q \in Opened' <=> q # p /\ q \in Opened
    BY <1>4, <2>2, <2>3, PanelsCalls DEF Opened
  <2>5. p \in Opened
    BY <1>7 DEF Opened
  <2>6. ASSUME NEW q \in Panels
        PROVE  /\ panels'.pending[q] \in {<<>>, Showing(q), Hiding(q), Orphan(q)}
               /\ panels'.pending[q] # <<>> => q \notin panels'.in
               /\ q \in panels'.trans <=> panels'.pending[q] \in {Showing(q), Hiding(q)}
    BY <2>2, <2>3, PanelsCalls DEF PanelsAgree
  <2>7. ASSUME NEW q \in Panels
        PROVE  q \in panels'.collapsed <=> q \notin Opened'
    <3>1. CASE q = p
      BY <1>6, <1>7, <2>3, <2>4, <3>1
    <3>2. CASE q # p /\ panels.accordion
      <4>1. q \notin Opened
        BY <2>5, <3>2 DEF PanelsAgree
      <4> QED  BY <1>6, <2>3, <2>4, <3>2, <4>1
    <3>3. CASE q # p /\ ~panels.accordion
      BY <1>6, <2>3, <2>4, <3>3 DEF PanelsAgree
    <3> QED  BY <3>1, <3>2, <3>3
  <2>8. ASSUME NEW q \in Panels, ~panels'.accordion
        PROVE  q \in panels'.mark <=> ~(q \in Opened' <=> q \in panels'.first)
    BY <1>6, <2>3, <2>4, <2>5, <2>8 DEF PanelsAgree
  <2>9. panels'.accordion => \A a, b \in Opened' : a = b
    <3>1. Opened' \subseteq Panels
      BY DEF Opened
    <3> QED  BY <2>3, <2>4, <3>1 DEF PanelsAgree
  <2> QED  BY <2>3, <2>6, <2>7, <2>8, <2>9 DEF PanelsAgree
<1>8. CASE p \notin panels.in
  <2> DEFINE off == IF panels.accordion THEN panels.in ELSE {}
             pending == [q \in Panels |->
               IF q = p THEN Showing(p)
               ELSE IF q \in off THEN IF q \in w.data THEN Hiding(q) ELSE Orphan(q)
               ELSE panels.pending[q]]
             hidden == [q \in Panels |->
               IF q \in off THEN IF q \in w.data THEN Hiding(q) ELSE Orphan(q)
               ELSE panels.pending[q]]
  <2>1. off \subseteq Panels /\ p \notin off /\ \A q \in off : panels.pending[q] = <<>>
    BY <1>1, <1>5, <1>8 DEF PanelsType
  <2>2. P!Actives(w) = off /\ off \ (w.data \intersect w.trans) = off
    BY <1>1, <1>3, <1>5 DEF P!Actives, PanelsType
  <2>3. hidden = P!ArmAll(w.pending, off, LAMBDA q :
                   <<IF q \in w.data THEN "hidden" ELSE "orphan", q>>)
    <3>1. DOMAIN w.pending = Panels
      BY <1>3 DEF PanelsType
    <3>2. \A q \in Panels :
            hidden[q] = IF q \in off
                        THEN Append(w.pending[q], <<IF q \in w.data THEN "hidden" ELSE "orphan", q>>)
                        ELSE w.pending[q]
      BY <1>3, <2>1, PanelsCalls
    <3> QED  BY <3>1, <3>2 DEF P!ArmAll
  <2>4. pending = P!Arm(hidden, p, <<"shown", p>>)
    <3>1. hidden[p] = <<>> /\ DOMAIN hidden = Panels
      BY <1>4, <2>1
    <3> QED  BY <3>1, PanelsCalls DEF P!Arm
  <2>5. pending \in [Panels -> Seq({"shown", "hidden", "orphan"} \X Panels)]
    BY <1>1, PanelsCalls DEF PanelsType
  <2> HIDE DEF pending, hidden
  <2>6. P!HideActives(w)
          = [w EXCEPT !.in = @ \ off, !.trans = @ \union (off \intersect w.data),
                      !.pending = hidden]
    BY <2>2, <2>3 DEF P!HideActives
  <2>7. panels' = [[w EXCEPT !.in = @ \ off, !.trans = @ \union (off \intersect w.data),
                             !.pending = hidden]
                   EXCEPT !.trans = @ \union {p}, !.pending = pending]
    BY <1>1, <1>3, <1>4, <1>8, <2>2, <2>4, <2>6 DEF P!Toggle, P!Show
  <2>8. /\ panels' \in PanelsType /\ panels'.accordion = panels.accordion
        /\ panels'.first = panels.first /\ panels'.in = panels.in \ off
        /\ panels'.trans = (panels.trans \union (off \intersect w.data)) \union {p}
        /\ panels'.pending = pending
        /\ panels'.collapsed = P!Headings(panels, p) /\ panels'.mark = P!Marked(panels, p)
    BY <1>3, <2>1, <2>5, <2>7 DEF PanelsType
  <2>9. \A q \in Panels : q \in Opened' <=> q = p \/ (~panels.accordion /\ q \in Opened)
    <3> SUFFICES ASSUME NEW q \in Panels
                 PROVE  q \in Opened' <=> q = p \/ (~panels.accordion /\ q \in Opened)
      OBVIOUS
    <3>1. q \in Opened' <=> q \in panels.in \ off \/ pending[q] = Showing(q)
      BY <2>8 DEF Opened
    <3>2. pending[q] = Showing(q) <=> q = p \/ (q \notin off /\ panels.pending[q] = Showing(q))
      BY PanelsCalls DEF pending
    <3>3. panels.accordion => panels.pending[q] # Showing(q)
      BY <1>5, PanelsCalls
    <3> QED  BY <3>1, <3>2, <3>3 DEF Opened
  <2>10. p \notin Opened
    BY <1>4, <1>8, PanelsCalls DEF Opened
  <2>11. ASSUME NEW q \in Panels
        PROVE  /\ panels'.pending[q] \in {<<>>, Showing(q), Hiding(q), Orphan(q)}
               /\ panels'.pending[q] # <<>> => q \notin panels'.in
               /\ q \in panels'.trans <=> panels'.pending[q] \in {Showing(q), Hiding(q)}
    <3>1. CASE q = p
      BY <1>8, <2>8, <3>1, PanelsCalls DEF pending
    <3>2. CASE q # p /\ q \in off
      BY <1>5, <2>8, <3>2, PanelsCalls DEF pending
    <3>3. CASE q # p /\ q \notin off
      BY <2>8, <3>3, PanelsCalls DEF pending, PanelsAgree
    <3> QED  BY <3>1, <3>2, <3>3
  <2>12. ASSUME NEW q \in Panels
        PROVE  q \in panels'.collapsed <=> q \notin Opened'
    BY <1>6, <1>8, <2>8, <2>9 DEF PanelsAgree
  <2>13. ASSUME NEW q \in Panels, ~panels'.accordion
        PROVE  q \in panels'.mark <=> ~(q \in Opened' <=> q \in panels'.first)
    BY <1>6, <2>8, <2>9, <2>10, <2>13 DEF PanelsAgree
  <2>14. panels'.accordion => \A a, b \in Opened' : a = b
    <3>1. Opened' \subseteq Panels
      BY DEF Opened
    <3> QED  BY <2>8, <2>9, <3>1
  <2> QED  BY <2>8, <2>11, <2>12, <2>13, <2>14 DEF PanelsAgree
<1> QED  BY <1>7, <1>8

\* The end of a transition.
LEMMA PanelsEnd ==
  ASSUME P!TypeOK, PanelsAgree, NEW p \in Panels, P!TransitionEnds(p)
  PROVE  panels' \in PanelsType /\ PanelsAgree'
<1> DEFINE w == [panels EXCEPT !.pending = P!Disarm(@, {p})]
<1>1. /\ panels' = P!Ended(panels, p, P!Run) /\ panels.pending[p] # <<>>
      /\ panels \in PanelsType
  BY DEF P!TransitionEnds, P!TypeOK, PanelsType
<1>2. /\ P!Disarm(panels.pending, {p}) \in [Panels -> Seq({"shown", "hidden", "orphan"} \X Panels)]
      /\ \A q \in Panels :
           P!Disarm(panels.pending, {p})[q] = IF q = p THEN <<>> ELSE panels.pending[q]
  BY <1>1, PanelsCalls DEF P!Disarm, PanelsType
<1>3. /\ w \in PanelsType /\ w.accordion = panels.accordion /\ w.first = panels.first
      /\ w.in = panels.in /\ w.trans = panels.trans
      /\ w.collapsed = panels.collapsed /\ w.mark = panels.mark
      /\ w.pending = P!Disarm(panels.pending, {p})
  BY <1>1, <1>2 DEF PanelsType
<1>4. p \notin panels.in
  BY <1>1 DEF PanelsAgree
<1>5. ASSUME NEW in \in SUBSET Panels, NEW trans \in SUBSET Panels,
             panels' = [[w EXCEPT !.in = in] EXCEPT !.trans = trans],
             \A q \in Panels : q \in in <=> q \in panels.in \/ (q = p /\ panels.pending[p] = Showing(p)),
             \A q \in Panels : q \in trans <=> q \in panels.trans /\ q # p
      PROVE  panels' \in PanelsType /\ PanelsAgree'
  <2>1. /\ panels' \in PanelsType /\ panels'.accordion = panels.accordion
        /\ panels'.first = panels.first /\ panels'.in = in /\ panels'.trans = trans
        /\ panels'.collapsed = panels.collapsed /\ panels'.mark = panels.mark
        /\ panels'.pending = P!Disarm(panels.pending, {p})
    BY <1>3, <1>5 DEF PanelsType
  <2>2. Opened' = Opened
    <3>1. \A q \in Panels : q \in Opened' <=> q \in Opened
      BY <1>2, <1>5, <2>1, PanelsCalls DEF Opened
    <3> QED  BY <3>1 DEF Opened
  <2>3. ASSUME NEW q \in Panels
        PROVE  /\ panels'.pending[q] \in {<<>>, Showing(q), Hiding(q), Orphan(q)}
               /\ panels'.pending[q] # <<>> => q \notin panels'.in
               /\ q \in panels'.trans <=> panels'.pending[q] \in {Showing(q), Hiding(q)}
    <3>1. CASE q = p
      BY <1>2, <1>5, <2>1, <3>1, PanelsCalls
    <3>2. CASE q # p
      <4>1. /\ panels'.pending[q] = panels.pending[q]
            /\ q \in panels'.in <=> q \in panels.in
            /\ q \in panels'.trans <=> q \in panels.trans
        BY <1>2, <1>5, <2>1, <3>2
      <4> QED  BY <4>1 DEF PanelsAgree
    <3> QED  BY <3>1, <3>2
  <2> QED  BY <2>1, <2>2, <2>3 DEF PanelsAgree
<1> HIDE DEF w
<1>6. CASE panels.pending[p] = Showing(p)
  <2>1. panels' = P!Run(w, <<"shown", p>>)
    BY <1>1, <1>6, PanelEnded DEF Showing, w
  <2>2. panels' = [w EXCEPT !.in = @ \union {p}, !.trans = @ \ {p}]
    BY <2>1 DEF P!Run
  <2>3. panels' = [[w EXCEPT !.in = panels.in \union {p}] EXCEPT !.trans = panels.trans \ {p}]
    BY <1>3, <2>2 DEF PanelsType
  <2>4. panels.in \union {p} \in SUBSET Panels /\ panels.trans \ {p} \in SUBSET Panels
    BY <1>1 DEF PanelsType
  <2> QED  BY <1>5, <1>6, <2>3, <2>4
<1>7. CASE panels.pending[p] = Hiding(p)
  <2>1. panels' = P!Run(w, <<"hidden", p>>)
    BY <1>1, <1>7, PanelEnded DEF Hiding, w
  <2>2. panels' = [w EXCEPT !.trans = @ \ {p}]
    BY <2>1 DEF P!Run
  <2>3. panels' = [[w EXCEPT !.in = panels.in] EXCEPT !.trans = panels.trans \ {p}]
    BY <1>3, <2>2 DEF PanelsType
  <2>4. panels.in \in SUBSET Panels /\ panels.trans \ {p} \in SUBSET Panels
    BY <1>1 DEF PanelsType
  <2> QED  BY <1>5, <1>7, <2>3, <2>4, PanelsCalls
<1>8. CASE panels.pending[p] = Orphan(p)
  <2>1. panels' = P!Run(w, <<"orphan", p>>)
    BY <1>1, <1>8, PanelEnded DEF Orphan, w
  <2>2. panels' = w
    BY <2>1 DEF P!Run
  <2>3. panels' = [[w EXCEPT !.in = panels.in] EXCEPT !.trans = panels.trans]
    BY <1>3, <2>2 DEF PanelsType
  <2>4. panels.in \in SUBSET Panels /\ panels.trans \in SUBSET Panels
    BY <1>1 DEF PanelsType
  <2>5. p \notin panels.trans
    BY <1>8, PanelsCalls DEF PanelsAgree
  <2> QED  BY <1>5, <1>8, <2>3, <2>4, <2>5, PanelsCalls
<1> QED  BY <1>1, <1>6, <1>7, <1>8 DEF PanelsAgree

LEMMA PanelsNext == PanelsInv /\ P!Next => PanelsInv'
<1> SUFFICES ASSUME PanelsInv, P!Next, ~hasty'
             PROVE  P!TypeOK' /\ PanelsAgree'
  BY DEF PanelsInv
<1>1. ASSUME NEW p \in Panels, P!Click(p)
      PROVE  hasty' \in BOOLEAN /\ panels' \in PanelsType /\ PanelsAgree'
  <2>1. ~hasty /\ ~P!Hasty(panels, p) /\ hasty' \in BOOLEAN
    BY <1>1 DEF P!Click
  <2> QED  BY <1>1, <2>1, PanelsClick DEF PanelsInv
<1>2. ASSUME NEW p \in Panels, P!TransitionEnds(p)
      PROVE  hasty' \in BOOLEAN /\ panels' \in PanelsType /\ PanelsAgree'
  <2>1. ~hasty /\ hasty' = hasty
    BY <1>2 DEF P!TransitionEnds
  <2>2. P!TypeOK /\ PanelsAgree
    BY <2>1 DEF PanelsInv
  <2> QED  BY <1>2, <2>1, <2>2, PanelsEnd DEF P!TypeOK
<1> QED  BY <1>1, <1>2 DEF P!Next, P!TypeOK, PanelsType

-----------------------------------------------------------------------------
(* The dialog.                                                             *)

\* The end of a transition for which one callback was armed.
LEMMA DialogEnded ==
  ASSUME NEW w, NEW el, NEW c, w.pending[el] = <<c>>
  PROVE  D!Ended(w, el, D!Run) = D!Run([w EXCEPT !.pending = D!Disarm(@, {el})], c)
<1> DEFINE base == [w EXCEPT !.pending = D!Disarm(@, {el})]
           step(g) == [s \in SUBSET {1} |->
             IF s = {} THEN base ELSE D!Run(g[s \ {D!Max(s)}], <<c>>[D!Max(s)])]
           g0 == [s \in SUBSET {1} |-> IF s = {} THEN base ELSE D!Run(base, c)]
           it == CHOOSE it : it = step(it)
<1> HIDE DEF base
<1>1. D!Max({1}) = 1
  BY DEF D!Max
<1>2. \A s \in SUBSET {1} : s # {} => s = {1}
  OBVIOUS
<1>3. g0 = step(g0)
  <2>1. \A s \in SUBSET {1} : s # {} => s \ {D!Max(s)} = {} /\ <<c>>[D!Max(s)] = c
    BY <1>1, <1>2
  <2>2. \A s \in SUBSET {1} : s # {} => g0[s \ {D!Max(s)}] = base
    BY <2>1
  <2> HIDE DEF g0
  <2>3. g0 = [s \in SUBSET {1} |-> g0[s]]
    BY DEF g0
  <2>4. \A s \in SUBSET {1} :
          g0[s] = IF s = {} THEN base ELSE D!Run(g0[s \ {D!Max(s)}], <<c>>[D!Max(s)])
    BY <2>1, <2>2 DEF g0
  <2> QED  BY <2>3, <2>4
<1>4. it = step(it)
  BY <1>3
<1> HIDE DEF it
<1>5. it[{1}] = D!Run(it[{}], c) /\ it[{}] = base
  <2>1. {} \in SUBSET {1} /\ {1} \in SUBSET {1} /\ {1} # {} /\ {1} \ {1} = {} /\ <<c>>[1] = c
    OBVIOUS
  <2>2. \A s \in SUBSET {1} :
          it[s] = IF s = {} THEN base ELSE D!Run(it[s \ {D!Max(s)}], <<c>>[D!Max(s)])
    BY <1>4
  <2> QED  BY <1>1, <2>1, <2>2
<1>6. D!FoldLeft(D!Run, base, <<c>>) = it[{1}]
  <2>1. DOMAIN <<c>> = {1}
    OBVIOUS
  <2> QED  BY <2>1 DEF D!FoldLeft, D!MapThenFoldSet, it
<1>7. D!Ended(w, el, D!Run) = D!FoldLeft(D!Run, base, <<c>>)
  BY DEF D!Ended, base
<1> QED  BY <1>5, <1>6, <1>7 DEF base

\* Nothing was armed on the element that a transition's end bubbled to.
LEMMA DialogNoneEnded ==
  ASSUME NEW w, NEW el, w.pending[el] = <<>>
  PROVE  D!Ended(w, el, D!Run) = [w EXCEPT !.pending = D!Disarm(@, {el})]
<1>1. DOMAIN <<>> = {}
  OBVIOUS
<1> QED  BY <1>1 DEF D!Ended, D!FoldLeft, D!MapThenFoldSet

DialogEl == <<"dialog", 0>>
ModalEl == <<"modal", 0>>
BackdropEl(b) == <<"backdrop", b>>

DialogCalls == {"entered", "shown", "hideModal", "left"}

NoneArmed == [e \in D!Elements |-> <<>>]
OnlyArmed(el, do) == [e \in D!Elements |-> IF e = el THEN <<do>> ELSE <<>>]

LEMMA ElementsFacts ==
  /\ DialogEl \in D!Elements /\ ModalEl \in D!Elements /\ DialogEl # ModalEl
  /\ \A b \in D!Backdrops :
       /\ BackdropEl(b) \in D!Elements /\ BackdropEl(b) # DialogEl /\ BackdropEl(b) # ModalEl
       /\ \A a \in D!Backdrops : BackdropEl(a) = BackdropEl(b) => a = b
BY DEF D!Elements, DialogEl, ModalEl, BackdropEl

LEMMA PendingFacts ==
  /\ NoneArmed \in [D!Elements -> Seq(DialogCalls)]
  /\ \A els : D!Disarm(NoneArmed, els) = NoneArmed
  /\ \A el \in D!Elements : NoneArmed[el] = <<>>
  /\ D!Quiet(NoneArmed)
  /\ \A el \in D!Elements, do \in DialogCalls :
       /\ D!Arm(NoneArmed, el, do) = OnlyArmed(el, do)
       /\ OnlyArmed(el, do) \in [D!Elements -> Seq(DialogCalls)]
       /\ OnlyArmed(el, do)[el] = <<do>>
       /\ \A e \in D!Elements : e # el => OnlyArmed(el, do)[e] = <<>>
       /\ D!Disarm(OnlyArmed(el, do), {el}) = NoneArmed
       /\ ~D!Quiet(OnlyArmed(el, do))
<1>1. /\ NoneArmed \in [D!Elements -> Seq(DialogCalls)]
      /\ \A els : D!Disarm(NoneArmed, els) = NoneArmed
      /\ \A el \in D!Elements : NoneArmed[el] = <<>>
      /\ D!Quiet(NoneArmed)
  BY DEF NoneArmed, D!Disarm, D!Quiet
<1>2. ASSUME NEW el \in D!Elements, NEW do \in DialogCalls
      PROVE  /\ D!Arm(NoneArmed, el, do) = OnlyArmed(el, do)
             /\ OnlyArmed(el, do) \in [D!Elements -> Seq(DialogCalls)]
             /\ OnlyArmed(el, do)[el] = <<do>>
             /\ \A e \in D!Elements : e # el => OnlyArmed(el, do)[e] = <<>>
             /\ D!Disarm(OnlyArmed(el, do), {el}) = NoneArmed
             /\ ~D!Quiet(OnlyArmed(el, do))
  <2>1. Append(<<>>, do) = <<do>> /\ <<do>> # <<>> /\ <<do>> \in Seq(DialogCalls)
    OBVIOUS
  <2>2. D!Arm(NoneArmed, el, do) = OnlyArmed(el, do)
    BY <2>1 DEF NoneArmed, OnlyArmed, D!Arm
  <2>3. /\ OnlyArmed(el, do) \in [D!Elements -> Seq(DialogCalls)]
        /\ OnlyArmed(el, do)[el] = <<do>>
        /\ \A e \in D!Elements : e # el => OnlyArmed(el, do)[e] = <<>>
    BY <2>1 DEF OnlyArmed
  <2>4. D!Disarm(OnlyArmed(el, do), {el}) = NoneArmed
    BY DEF D!Disarm, OnlyArmed, NoneArmed
  <2>5. ~D!Quiet(OnlyArmed(el, do))
    BY <2>1, <2>3 DEF D!Quiet, OnlyArmed
  <2> QED  BY <2>2, <2>3, <2>4, <2>5
<1> QED  BY <1>1, <1>2

DialogType ==
  [fade : BOOLEAN, backdrop : {"true", "static", "false"}, keyboard : BOOLEAN,
   isShown : BOOLEAN, displayed : BOOLEAN, modalOpen : BOOLEAN,
   current : D!Backdrops \union {D!NoBackdrop}, inBody : SUBSET D!Backdrops,
   dismiss : Nat, keyup : Nat, focusin : BOOLEAN,
   pending : [D!Elements -> Seq(DialogCalls)]]

\* The backdrop of a dialog that was shown.
BackdropThere(m) ==
  IF m.backdrop = "false" THEN m.current = D!NoBackdrop /\ m.inBody = {}
  ELSE m.current \in D!Backdrops /\ m.inBody = {m.current}

HandlersBound(m) == m.isShown /\ m.modalOpen /\ (m.keyup > 0) = m.keyboard /\ m.dismiss > 0

HandlersGone(m) == ~m.isShown /\ m.keyup = 0 /\ m.dismiss = 0 /\ ~m.focusin

Off(m) ==
  /\ HandlersGone(m) /\ ~m.displayed /\ ~m.modalOpen /\ m.pending = NoneArmed
  /\ m.current = D!NoBackdrop /\ m.inBody = {}

On(m) ==
  HandlersBound(m) /\ BackdropThere(m) /\ m.displayed /\ m.focusin /\ m.pending = NoneArmed

\* The transitions between the two, each with its one callback.
Entering(m) ==
  /\ HandlersBound(m) /\ BackdropThere(m) /\ m.fade /\ m.backdrop # "false"
  /\ m.pending = OnlyArmed(BackdropEl(m.current), "entered")

Opening(m) ==
  /\ HandlersBound(m) /\ BackdropThere(m) /\ m.fade /\ m.displayed /\ m.focusin
  /\ m.pending = OnlyArmed(DialogEl, "shown")

Leaving(m) ==
  /\ HandlersGone(m) /\ BackdropThere(m) /\ m.fade /\ m.pending = OnlyArmed(ModalEl, "hideModal")

Removing(m) ==
  /\ HandlersGone(m) /\ BackdropThere(m) /\ ~m.displayed /\ m.backdrop # "false"
  /\ m.pending = OnlyArmed(BackdropEl(m.current), "left")

Phased(m) ==
  /\ m \in DialogType
  /\ Off(m) \/ On(m) \/ Entering(m) \/ Opening(m) \/ Leaving(m) \/ Removing(m)

DialogInv == ~hasty => hasty \in BOOLEAN /\ Phased(modal)

LEMMA DialogInit == D!Init => DialogInv
<1> SUFFICES ASSUME D!Init
             PROVE  hasty \in BOOLEAN /\ Phased(modal)
  BY DEF DialogInv
<1>1. PICK fade \in BOOLEAN, backdrop \in {"true", "static", "false"}, keyboard \in BOOLEAN :
        modal = [fade |-> fade, backdrop |-> backdrop, keyboard |-> keyboard,
                 isShown |-> FALSE, displayed |-> FALSE, modalOpen |-> FALSE,
                 current |-> D!NoBackdrop, inBody |-> {}, dismiss |-> 0, keyup |-> 0,
                 focusin |-> FALSE, pending |-> NoneArmed]
  BY DEF D!Init, D!NoneAwaited, NoneArmed
<1>2. modal \in DialogType
  BY <1>1, PendingFacts DEF DialogType
<1>3. Off(modal)
  BY <1>1 DEF Off, HandlersGone
<1> QED  BY <1>2, <1>3 DEF D!Init, Phased

LEMMA DialogSafe == DialogInv => D!ModalSettled
<1> SUFFICES ASSUME Phased(modal), D!Quiet(modal.pending)
             PROVE  D!ModalSettled
  BY DEF DialogInv, D!ModalSettled
<1>1. Off(modal) \/ On(modal)
  BY PendingFacts, ElementsFacts
  DEF Phased, BackdropThere, Entering, Opening, Leaving, Removing, DialogCalls
<1>2. \A X : D!Cardinality(X) = Cardinality(X)
  BY DEF D!Cardinality, Cardinality
<1>3. Cardinality({}) = 0 /\ \A x : Cardinality({x}) = 1
  BY FS_EmptySet, AtMostOne
<1>4. D!NoBackdrop \notin D!Backdrops
  BY DEF D!NoBackdrop, D!Backdrops
<1>5. CASE Off(modal)
  BY <1>2, <1>3, <1>5 DEF Off, HandlersGone, Phased, DialogType, D!ModalSettled
<1>6. CASE On(modal)
  <2>1. modal \in DialogType
    BY DEF Phased
  <2>2. /\ modal.isShown = TRUE /\ modal.displayed = TRUE /\ modal.modalOpen = TRUE
        /\ modal.focusin = TRUE /\ (modal.keyup > 0) = modal.keyboard /\ (modal.dismiss > 0) = TRUE
    BY <1>6, <2>1 DEF On, HandlersBound, DialogType
  <2>3. /\ D!Cardinality(modal.inBody) = IF modal.backdrop # "false" THEN 1 ELSE 0
        /\ modal.inBody = {modal.current} \ {D!NoBackdrop}
    <3>1. CASE modal.backdrop = "false"
      BY <1>2, <1>3, <1>6, <3>1 DEF On, BackdropThere
    <3>2. CASE modal.backdrop # "false"
      BY <1>2, <1>3, <1>4, <1>6, <3>2 DEF On, BackdropThere
    <3> QED  BY <3>1, <3>2
  <2>4. modal.keyboard \in BOOLEAN
    BY <2>1 DEF DialogType
  <2> QED  BY <2>2, <2>3, <2>4 DEF D!ModalSettled
<1> QED  BY <1>1, <1>5, <1>6

LEMMA DialogEntered ==
  ASSUME NEW m \in DialogType, HandlersBound(m), BackdropThere(m), m.pending = NoneArmed
  PROVE  Phased(D!Entered(m))
<1> DEFINE n == [m EXCEPT !.displayed = TRUE, !.focusin = TRUE]
<1>1. /\ n \in DialogType /\ HandlersBound(n) /\ BackdropThere(n) /\ n.pending = NoneArmed
      /\ n.displayed /\ n.focusin /\ n.fade = m.fade
  BY DEF DialogType, HandlersBound, BackdropThere
<1> HIDE DEF n
<1>2. CASE m.fade
  <2> DEFINE p == OnlyArmed(DialogEl, "shown")
  <2>1. D!Entered(m) = [n EXCEPT !.pending = p]
    BY <1>1, <1>2, PendingFacts, ElementsFacts DEF D!Entered, n, DialogEl, DialogCalls
  <2>2. p \in [D!Elements -> Seq(DialogCalls)]
    BY PendingFacts, ElementsFacts DEF DialogCalls
  <2> HIDE DEF p
  <2>3. Opening([n EXCEPT !.pending = p])
    BY <1>1, <1>2, <2>2 DEF Opening, HandlersBound, BackdropThere, DialogType, p
  <2>4. [n EXCEPT !.pending = p] \in DialogType
    BY <1>1, <2>2 DEF DialogType
  <2> QED  BY <2>1, <2>3, <2>4 DEF Phased
<1>3. CASE ~m.fade
  <2>1. D!Entered(m) = n
    BY <1>3 DEF D!Entered, n
  <2> QED  BY <1>1, <2>1 DEF Phased, On
<1> QED  BY <1>2, <1>3 DEF DialogType

LEMMA DialogRemoved ==
  ASSUME NEW m \in DialogType, HandlersGone(m), ~m.displayed, BackdropThere(m), m.pending = NoneArmed
  PROVE  Phased(D!RemoveBackdrop(m))
<1>1. m.inBody \ {m.current} = {}
  BY DEF BackdropThere
<1>2. D!RemoveBackdrop(m) = [m EXCEPT !.inBody = {}, !.current = D!NoBackdrop, !.pending = NoneArmed,
                                      !.modalOpen = FALSE]
  BY <1>1, PendingFacts DEF D!RemoveBackdrop
<1>3. NoneArmed \in [D!Elements -> Seq(DialogCalls)]
  BY PendingFacts
<1> DEFINE n == D!RemoveBackdrop(m)
<1>4. /\ n \in DialogType /\ HandlersGone(n) /\ ~n.displayed /\ ~n.modalOpen /\ n.pending = NoneArmed
      /\ n.current = D!NoBackdrop /\ n.inBody = {}
  BY <1>2, <1>3 DEF DialogType, HandlersGone
<1> QED  BY <1>4 DEF Phased, Off

LEMMA DialogHidden ==
  ASSUME NEW m \in DialogType, HandlersGone(m), BackdropThere(m), m.pending = NoneArmed
  PROVE  Phased(D!HideModal(m))
<1> DEFINE n == [m EXCEPT !.displayed = FALSE]
<1>1. /\ n \in DialogType /\ HandlersGone(n) /\ BackdropThere(n) /\ n.pending = NoneArmed
      /\ ~n.displayed /\ n.fade = m.fade /\ n.current = m.current /\ n.backdrop = m.backdrop
  BY DEF DialogType, HandlersGone, BackdropThere
<1> HIDE DEF n
<1>2. D!HideModal(m) = IF n.current # D!NoBackdrop /\ n.fade
                       THEN [n EXCEPT !.pending = D!Arm(@, <<"backdrop", n.current>>, "left")]
                       ELSE D!RemoveBackdrop(n)
  BY <1>1 DEF D!HideModal, D!Backdrop, D!Callback, n, HandlersGone
<1>3. CASE n.current # D!NoBackdrop /\ n.fade
  <2> DEFINE p == OnlyArmed(BackdropEl(n.current), "left")
  <2>0. n.backdrop # "false" /\ n.current \in D!Backdrops
    BY <1>1, <1>3 DEF BackdropThere
  <2>1. D!HideModal(m) = [n EXCEPT !.pending = p]
    <3>1. D!Arm(NoneArmed, BackdropEl(n.current), "left") = p
      BY <2>0, PendingFacts, ElementsFacts DEF DialogCalls
    <3> QED  BY <1>1, <1>2, <1>3, <3>1 DEF BackdropEl
  <2>2. p \in [D!Elements -> Seq(DialogCalls)]
    BY <2>0, PendingFacts, ElementsFacts DEF DialogCalls
  <2> HIDE DEF p
  <2> DEFINE o == [n EXCEPT !.pending = p]
  <2>3. /\ o \in DialogType /\ HandlersGone(o) /\ BackdropThere(o) /\ ~o.displayed
        /\ o.backdrop # "false" /\ o.pending = p /\ o.current = n.current
    BY <1>1, <2>0, <2>2 DEF HandlersGone, BackdropThere, DialogType
  <2> QED  BY <2>1, <2>3 DEF Phased, Removing, p
<1>4. CASE ~(n.current # D!NoBackdrop /\ n.fade)
  BY <1>1, <1>2, <1>4, DialogRemoved
<1> QED  BY <1>3, <1>4

LEMMA DialogShow ==
  ASSUME Phased(modal), D!Quiet(modal.pending), D!ShowMethod
  PROVE  Phased(modal')
<1> DEFINE m == [modal EXCEPT !.isShown = TRUE, !.modalOpen = TRUE, !.dismiss = @ + 1,
                              !.keyup = IF modal.keyboard THEN @ + 1 ELSE @]
<1>1. Off(modal) /\ modal \in DialogType
  <2>1. ~modal.isShown
    BY DEF D!ShowMethod
  <2> QED
    BY <2>1, PendingFacts, ElementsFacts
    DEF Phased, On, HandlersBound, BackdropThere, Entering, Opening, Leaving, Removing, DialogCalls
<1>2. /\ m \in DialogType /\ HandlersBound(m) /\ m.pending = NoneArmed /\ m.inBody = {}
      /\ m.current = D!NoBackdrop /\ m.isShown /\ m.backdrop = modal.backdrop
      /\ m.fade = modal.fade
  <2>1. /\ modal.dismiss + 1 \in Nat \ {0} /\ modal.keyup + 1 \in Nat \ {0} /\ modal.keyup = 0
        /\ modal.keyboard \in BOOLEAN /\ modal.fade \in BOOLEAN
    BY <1>1 DEF DialogType, Off, HandlersGone
  <2>2. m \in DialogType
    BY <1>1, <2>1 DEF DialogType
  <2>3. /\ m.pending = NoneArmed /\ m.inBody = {} /\ m.current = D!NoBackdrop /\ m.isShown
        /\ m.modalOpen /\ m.backdrop = modal.backdrop /\ m.fade = modal.fade
        /\ m.dismiss = modal.dismiss + 1 /\ m.keyboard = modal.keyboard
        /\ m.keyup = IF modal.keyboard THEN modal.keyup + 1 ELSE modal.keyup
    BY <1>1 DEF DialogType, Off
  <2>4. m.dismiss > 0 /\ (m.keyup > 0) = m.keyboard
    BY <2>1, <2>3
  <2> QED  BY <2>2, <2>3, <2>4 DEF HandlersBound
<1>3. modal' = D!Backdrop(m, "entered")
  BY DEF D!ShowMethod, D!Show
<1> HIDE DEF m
<1>4. CASE m.backdrop # "false"
  <2> DEFINE b == CHOOSE x \in D!Backdrops : x \notin m.inBody
             n == [m EXCEPT !.current = b, !.inBody = @ \union {b}, !.dismiss = @ + 1]
  <2>1. b \in D!Backdrops
    <3>1. 1 \in D!Backdrops
      BY PageAssumption DEF D!Backdrops
    <3> QED  BY <1>2, <3>1
  <2>2. modal' = IF m.fade THEN [n EXCEPT !.pending = D!Arm(@, <<"backdrop", b>>, "entered")]
                 ELSE D!Callback(n, "entered")
    BY <1>2, <1>3, <1>4 DEF D!Backdrop
  <2> HIDE DEF b
  <2>3. /\ n \in DialogType /\ HandlersBound(n) /\ BackdropThere(n) /\ n.pending = NoneArmed
        /\ n.current = b /\ n.fade = m.fade /\ n.backdrop # "false"
    <3>1. m.dismiss + 1 \in Nat /\ m.dismiss + 1 > 0 /\ m.inBody \union {b} = {b}
      BY <1>2 DEF DialogType
    <3>2. n \in DialogType
      BY <1>2, <2>1, <3>1 DEF DialogType
    <3>3. /\ n.current = b /\ n.inBody = {b} /\ n.dismiss = m.dismiss + 1 /\ n.pending = NoneArmed
          /\ n.fade = m.fade /\ n.backdrop = m.backdrop /\ n.isShown = m.isShown
          /\ n.modalOpen = m.modalOpen /\ n.keyup = m.keyup /\ n.keyboard = m.keyboard
      BY <1>2, <3>1 DEF DialogType
    <3> QED  BY <1>2, <1>4, <2>1, <3>1, <3>2, <3>3 DEF HandlersBound, BackdropThere
  <2> HIDE DEF n
  <2>4. CASE m.fade
    <3> DEFINE p == OnlyArmed(BackdropEl(b), "entered")
               o == [n EXCEPT !.pending = p]
    <3>1. modal' = o
      BY <2>1, <2>2, <2>3, <2>4, PendingFacts, ElementsFacts DEF BackdropEl, DialogCalls
    <3>2. p \in [D!Elements -> Seq(DialogCalls)]
      BY <2>1, PendingFacts, ElementsFacts DEF DialogCalls
    <3> HIDE DEF p
    <3>3. /\ o \in DialogType /\ HandlersBound(o) /\ BackdropThere(o) /\ o.pending = p
          /\ o.current = b /\ o.fade /\ o.backdrop # "false"
      BY <2>3, <2>4, <3>2 DEF DialogType, HandlersBound, BackdropThere
    <3> QED  BY <3>1, <3>3 DEF Phased, Entering, p
  <2>5. CASE ~m.fade
    BY <2>2, <2>3, <2>5, DialogEntered DEF D!Callback
  <2> QED  BY <2>4, <2>5
<1>5. CASE m.backdrop = "false"
  <2>1. modal' = D!Entered(m)
    BY <1>2, <1>3, <1>5 DEF D!Backdrop, D!Callback
  <2>2. BackdropThere(m)
    BY <1>2, <1>5 DEF BackdropThere
  <2> QED  BY <1>2, <2>1, <2>2, DialogEntered
<1> QED  BY <1>4, <1>5

LEMMA DialogHide ==
  ASSUME Phased(modal), D!Quiet(modal.pending), D!HideMethod
  PROVE  Phased(modal')
<1> DEFINE n == [modal EXCEPT !.isShown = FALSE, !.keyup = 0, !.focusin = FALSE, !.dismiss = 0]
<1>1. On(modal) /\ modal \in DialogType
  <2>1. modal.isShown
    BY DEF D!HideMethod
  <2> QED
    BY <2>1, PendingFacts, ElementsFacts
    DEF Phased, Off, HandlersGone, BackdropThere, Entering, Opening, Leaving, Removing, DialogCalls
<1>2. /\ n \in DialogType /\ HandlersGone(n) /\ BackdropThere(n) /\ n.pending = NoneArmed
      /\ n.fade = modal.fade
  BY <1>1 DEF DialogType, On, HandlersGone, BackdropThere
<1>3. modal' = IF modal.fade THEN [n EXCEPT !.pending = D!Arm(@, <<"modal", 0>>, "hideModal")]
               ELSE D!HideModal(n)
  BY DEF D!HideMethod, D!Hide
<1> HIDE DEF n
<1>4. CASE modal.fade
  <2> DEFINE p == OnlyArmed(ModalEl, "hideModal")
             o == [n EXCEPT !.pending = p]
  <2>1. modal' = o
    BY <1>2, <1>3, <1>4, PendingFacts, ElementsFacts DEF ModalEl, DialogCalls
  <2>2. p \in [D!Elements -> Seq(DialogCalls)]
    BY PendingFacts, ElementsFacts DEF DialogCalls
  <2> HIDE DEF p
  <2>3. o \in DialogType /\ HandlersGone(o) /\ BackdropThere(o) /\ o.pending = p /\ o.fade
    BY <1>2, <1>4, <2>2 DEF DialogType, HandlersGone, BackdropThere
  <2> QED  BY <2>1, <2>3 DEF Phased, Leaving, p
<1>5. CASE ~modal.fade
  BY <1>2, <1>3, <1>5, DialogHidden
<1> QED  BY <1>4, <1>5

LEMMA OnlyAt ==
  ASSUME NEW el \in D!Elements, NEW do \in DialogCalls, NEW e \in D!Elements,
         OnlyArmed(el, do)[e] # <<>>
  PROVE  e = el
BY PendingFacts

\* What a dialog does whose element e has a callback armed.
LEMMA DialogWaits ==
  ASSUME Phased(modal), NEW e \in D!Elements, modal.pending[e] # <<>>
  PROVE  /\ e = DialogEl => Opening(modal)
         /\ e = ModalEl => Leaving(modal)
         /\ \A b \in D!Backdrops : e = BackdropEl(b) =>
              b = modal.current /\ (Entering(modal) \/ Removing(modal))
<1>1. ~Off(modal) /\ ~On(modal)
  BY PendingFacts DEF Off, On
<1>2. ASSUME Opening(modal)
      PROVE  e = DialogEl
  <2>1. modal.pending = OnlyArmed(DialogEl, "shown") /\ "shown" \in DialogCalls
    BY <1>2 DEF Opening, DialogCalls
  <2> QED  BY <2>1, OnlyAt, ElementsFacts
<1>3. ASSUME Leaving(modal)
      PROVE  e = ModalEl
  <2>1. modal.pending = OnlyArmed(ModalEl, "hideModal") /\ "hideModal" \in DialogCalls
    BY <1>3 DEF Leaving, DialogCalls
  <2> QED  BY <2>1, OnlyAt, ElementsFacts
<1>4. ASSUME Entering(modal) \/ Removing(modal)
      PROVE  modal.current \in D!Backdrops /\ e = BackdropEl(modal.current)
  <2>1. modal.current \in D!Backdrops
    BY <1>4 DEF Entering, Removing, BackdropThere
  <2>2. BackdropEl(modal.current) \in D!Elements
    BY <2>1, ElementsFacts
  <2>3. PICK do \in DialogCalls : modal.pending = OnlyArmed(BackdropEl(modal.current), do)
    BY <1>4 DEF Entering, Removing, DialogCalls
  <2> QED  BY <2>1, <2>2, <2>3, OnlyAt
<1> QED  BY <1>1, <1>2, <1>3, <1>4, ElementsFacts DEF Phased

\* The end of the one transition of a dialog.
LEMMA DialogEnds ==
  ASSUME Phased(modal), D!TransitionEnds
  PROVE  Phased(modal')
<1> DEFINE w == [modal EXCEPT !.pending = NoneArmed]
<1>0. modal \in DialogType
  BY DEF Phased
<1>1. /\ w \in DialogType /\ w.pending = NoneArmed
      /\ HandlersBound(modal) => HandlersBound(w)
      /\ HandlersGone(modal) => HandlersGone(w)
      /\ BackdropThere(modal) => BackdropThere(w)
      /\ w.displayed = modal.displayed /\ w.focusin = modal.focusin
  BY <1>0, PendingFacts DEF DialogType, HandlersBound, HandlersGone, BackdropThere
<1>2. ASSUME NEW el \in D!Elements, NEW do \in DialogCalls, modal.pending = OnlyArmed(el, do)
      PROVE  D!Ended(modal, el, D!Run) = D!Run(w, do)
  <2>1. modal.pending[el] = <<do>> /\ D!Disarm(modal.pending, {el}) = NoneArmed
    BY <1>2, PendingFacts
  <2> QED  BY <2>1, DialogEnded
<1> HIDE DEF w
<1>3. ASSUME D!DialogEnd
      PROVE  Phased(modal')
  <2>1. DialogEl \in D!Elements /\ ModalEl \in D!Elements
    BY ElementsFacts
  <2>2. /\ modal.pending[DialogEl] # <<>>
        /\ modal' = D!Ended(D!Ended(modal, DialogEl, D!Run), ModalEl, D!Run)
    BY <1>3 DEF D!DialogEnd, DialogEl, ModalEl
  <2>3. Opening(modal)
    BY <2>1, <2>2, DialogWaits
  <2>4. D!Ended(modal, DialogEl, D!Run) = D!Run(w, "shown")
    BY <1>2, <2>1, <2>3 DEF Opening, DialogCalls
  <2>5. D!Run(w, "shown") = w
    BY DEF D!Run
  <2>6. w.pending[ModalEl] = <<>> /\ D!Disarm(w.pending, {ModalEl}) = w.pending
    BY <1>1, <2>1, PendingFacts
  <2>7. modal' = [w EXCEPT !.pending = w.pending]
    <3>1. modal' = D!Ended(w, ModalEl, D!Run)
      BY <2>2, <2>4, <2>5
    <3>2. modal' = [w EXCEPT !.pending = D!Disarm(w.pending, {ModalEl})]
      BY <2>6, <3>1, DialogNoneEnded
    <3> QED  BY <2>6, <3>2
  <2>8. modal' = w
    BY <1>1, <2>7 DEF DialogType
  <2> QED  BY <1>1, <2>3, <2>8 DEF Phased, On, Opening
<1>4. ASSUME D!ModalEnd
      PROVE  Phased(modal')
  <2>1. /\ ModalEl \in D!Elements /\ modal.pending[ModalEl] # <<>>
        /\ modal' = D!Ended(modal, ModalEl, D!Run)
    BY <1>4, ElementsFacts DEF D!ModalEnd, ModalEl
  <2>2. Leaving(modal)
    BY <2>1, DialogWaits
  <2>3. modal' = D!Run(w, "hideModal")
    BY <1>2, <2>1, <2>2 DEF Leaving, DialogCalls
  <2>4. modal' = D!HideModal(w)
    BY <2>3 DEF D!Run
  <2> QED  BY <1>1, <2>2, <2>4, DialogHidden DEF Leaving
<1>5. ASSUME NEW b \in D!Backdrops, D!BackdropEnd(b)
      PROVE  Phased(modal')
  <2>1. /\ BackdropEl(b) \in D!Elements /\ modal.pending[BackdropEl(b)] # <<>>
        /\ modal' = D!Ended(modal, BackdropEl(b), D!Run)
    BY <1>5, ElementsFacts DEF D!BackdropEnd, BackdropEl
  <2>2. b = modal.current /\ (Entering(modal) \/ Removing(modal))
    BY <2>1, DialogWaits
  <2>3. CASE Entering(modal)
    <3>1. modal' = D!Run(w, "entered")
      BY <1>2, <2>1, <2>2, <2>3 DEF Entering, DialogCalls
    <3>2. modal' = D!Entered(w)
      BY <3>1 DEF D!Run
    <3> QED  BY <1>1, <2>3, <3>2, DialogEntered DEF Entering
  <2>4. CASE Removing(modal)
    <3>1. modal' = D!Run(w, "left")
      BY <1>2, <2>1, <2>2, <2>4 DEF Removing, DialogCalls
    <3>2. modal' = D!RemoveBackdrop(w)
      BY <3>1 DEF D!Run
    <3> QED  BY <1>1, <2>4, <3>2, DialogRemoved DEF Removing
  <2> QED  BY <2>2, <2>3, <2>4
<1> QED  BY <1>3, <1>4, <1>5 DEF D!TransitionEnds

LEMMA DialogNext == DialogInv /\ D!Next => DialogInv'
<1> SUFFICES ASSUME DialogInv, D!Next, ~hasty'
             PROVE  hasty' \in BOOLEAN /\ Phased(modal')
  BY DEF DialogInv, Phased
<1>1. CASE D!ShowMethod \/ D!HideMethod
  <2>1. D!TurnedRound
    BY <1>1 DEF D!ShowMethod, D!HideMethod
  <2>2. ~hasty /\ D!Quiet(modal.pending) /\ hasty' \in BOOLEAN
    BY <2>1 DEF D!TurnedRound
  <2> QED  BY <1>1, <2>2, DialogShow, DialogHide DEF DialogInv
<1>2. CASE D!TransitionEnds
  <2>1. hasty' = hasty
    BY <1>2 DEF D!TransitionEnds
  <2> QED  BY <1>2, <2>1, DialogEnds DEF DialogInv
<1> QED  BY <1>1, <1>2 DEF D!Next, D!DismissClick, D!BackdropClick, D!EscapeKey

-----------------------------------------------------------------------------
(* The tooltip.                                                            *)

\* The end of a transition for which one callback was armed.
LEMMA TipOneEnded ==
  ASSUME NEW w, NEW el, NEW c, w.pending[el] = <<c>>
  PROVE  T!Ended(w, el, T!Run) = T!Run([w EXCEPT !.pending = T!Disarm(@, {el})], c)
<1> DEFINE base == [w EXCEPT !.pending = T!Disarm(@, {el})]
           step(g) == [s \in SUBSET {1} |->
             IF s = {} THEN base ELSE T!Run(g[s \ {T!Max(s)}], <<c>>[T!Max(s)])]
           g0 == [s \in SUBSET {1} |-> IF s = {} THEN base ELSE T!Run(base, c)]
           it == CHOOSE it : it = step(it)
<1> HIDE DEF base
<1>1. T!Max({1}) = 1
  BY DEF T!Max
<1>2. \A s \in SUBSET {1} : s # {} => s = {1}
  OBVIOUS
<1>3. g0 = step(g0)
  <2>1. \A s \in SUBSET {1} : s # {} => s \ {T!Max(s)} = {} /\ <<c>>[T!Max(s)] = c
    BY <1>1, <1>2
  <2>2. \A s \in SUBSET {1} : s # {} => g0[s \ {T!Max(s)}] = base
    BY <2>1
  <2> HIDE DEF g0
  <2>3. g0 = [s \in SUBSET {1} |-> g0[s]]
    BY DEF g0
  <2>4. \A s \in SUBSET {1} :
          g0[s] = IF s = {} THEN base ELSE T!Run(g0[s \ {T!Max(s)}], <<c>>[T!Max(s)])
    BY <2>1, <2>2 DEF g0
  <2> QED  BY <2>3, <2>4
<1>4. it = step(it)
  BY <1>3
<1> HIDE DEF it
<1>5. it[{1}] = T!Run(it[{}], c) /\ it[{}] = base
  <2>1. {} \in SUBSET {1} /\ {1} \in SUBSET {1} /\ {1} # {} /\ {1} \ {1} = {} /\ <<c>>[1] = c
    OBVIOUS
  <2>2. \A s \in SUBSET {1} :
          it[s] = IF s = {} THEN base ELSE T!Run(it[s \ {T!Max(s)}], <<c>>[T!Max(s)])
    BY <1>4
  <2> QED  BY <1>1, <2>1, <2>2
<1>6. T!FoldLeft(T!Run, base, <<c>>) = it[{1}]
  <2>1. DOMAIN <<c>> = {1}
    OBVIOUS
  <2> QED  BY <2>1 DEF T!FoldLeft, T!MapThenFoldSet, it
<1>7. T!Ended(w, el, T!Run) = T!FoldLeft(T!Run, base, <<c>>)
  BY DEF T!Ended, base
<1> QED  BY <1>5, <1>6, <1>7 DEF base

\* Two callbacks run in the order in which they were armed.
LEMMA TipTwoEnded ==
  ASSUME NEW w, NEW el, DOMAIN w.pending[el] = {1, 2}
  PROVE  T!Ended(w, el, T!Run)
           = T!Run(T!Run([w EXCEPT !.pending = T!Disarm(@, {el})], w.pending[el][1]),
                   w.pending[el][2])
<1> DEFINE q == w.pending[el]
           a == q[1]
           b == q[2]
           base == [w EXCEPT !.pending = T!Disarm(@, {el})]
           step(g) == [s \in SUBSET {1, 2} |->
             IF s = {} THEN base ELSE T!Run(g[s \ {T!Max(s)}], q[T!Max(s)])]
           g0 == [s \in SUBSET {1, 2} |->
             IF s = {} THEN base
             ELSE IF s = {1} THEN T!Run(base, a)
             ELSE IF s = {2} THEN T!Run(base, b)
             ELSE T!Run(T!Run(base, a), b)]
           it == CHOOSE it : it = step(it)
<1> HIDE DEF base
<1>1. T!Max({1}) = 1 /\ T!Max({2}) = 2 /\ T!Max({1, 2}) = 2
  BY DEF T!Max
<1>2. DOMAIN q = {1, 2} /\ q[1] = a /\ q[2] = b
  OBVIOUS
<1> HIDE DEF a, b
<1>3. \A s \in SUBSET {1, 2} : s \in {{}, {1}, {2}, {1, 2}}
  OBVIOUS
<1>4. {1} \ {1} = {} /\ {2} \ {2} = {} /\ {1, 2} \ {2} = {1} /\ {1} # {} /\ {2} # {}
      /\ {1, 2} # {} /\ {1} # {2} /\ {1, 2} # {1} /\ {1, 2} # {2}
      /\ {} \in SUBSET {1, 2} /\ {1} \in SUBSET {1, 2} /\ {2} \in SUBSET {1, 2}
      /\ {1, 2} \in SUBSET {1, 2}
  OBVIOUS
<1>5. g0 = step(g0)
  <2>1. /\ g0[{}] = base /\ g0[{1}] = T!Run(base, a) /\ g0[{2}] = T!Run(base, b)
        /\ g0[{1, 2}] = T!Run(T!Run(base, a), b)
    BY <1>4
  <2>2. g0 = [s \in SUBSET {1, 2} |-> g0[s]]
    OBVIOUS
  <2> HIDE DEF g0
  <2>3. \A s \in SUBSET {1, 2} :
          g0[s] = IF s = {} THEN base ELSE T!Run(g0[s \ {T!Max(s)}], q[T!Max(s)])
    <3> SUFFICES ASSUME NEW s \in SUBSET {1, 2}
                 PROVE  g0[s] = IF s = {} THEN base
                                ELSE T!Run(g0[s \ {T!Max(s)}], q[T!Max(s)])
      OBVIOUS
    <3>1. CASE s = {}
      BY <2>1, <3>1
    <3>2. CASE s = {1}
      BY <1>1, <1>2, <1>4, <2>1, <3>2
    <3>3. CASE s = {2}
      BY <1>1, <1>2, <1>4, <2>1, <3>3
    <3>4. CASE s = {1, 2}
      BY <1>1, <1>2, <1>4, <2>1, <3>4
    <3> QED  BY <1>3, <3>1, <3>2, <3>3, <3>4
  <2> QED  BY <2>2, <2>3
<1>6. it = step(it)
  BY <1>5
<1> HIDE DEF it
<1>7. it[{}] = base /\ it[{1}] = T!Run(it[{}], a) /\ it[{1, 2}] = T!Run(it[{1}], b)
  <2>1. \A s \in SUBSET {1, 2} :
          it[s] = IF s = {} THEN base ELSE T!Run(it[s \ {T!Max(s)}], q[T!Max(s)])
    BY <1>6
  <2>2. it[{}] = base
    BY <1>4, <2>1
  <2>3. it[{1}] = T!Run(it[{1} \ {T!Max({1})}], q[T!Max({1})])
    BY <1>4, <2>1
  <2>4. it[{1, 2}] = T!Run(it[{1, 2} \ {T!Max({1, 2})}], q[T!Max({1, 2})])
    BY <1>4, <2>1
  <2> QED  BY <1>1, <1>2, <1>4, <2>2, <2>3, <2>4
<1>8. T!FoldLeft(T!Run, base, q) = it[{1, 2}]
  BY <1>2 DEF T!FoldLeft, T!MapThenFoldSet, it
<1>9. T!Ended(w, el, T!Run) = T!FoldLeft(T!Run, base, q)
  BY DEF T!Ended, base
<1> QED  BY <1>7, <1>8, <1>9 DEF base, a, b

TipCalls == {"shown", "hidden"}

\* The sequences of callbacks within the bound.
Fades == {q \in Seq(TipCalls) : Len(q) <= 2}

Fading(q) == T!Contains(q, "hidden")

LEMMA FadesFacts ==
  ASSUME NEW q \in Fades
  PROVE  /\ Len(q) = 0 => q = <<>> /\ ~Fading(q)
         /\ Len(q) = 1 => q = <<q[1]>> /\ (Fading(q) <=> q[1] = "hidden")
         /\ Len(q) = 2 => q = <<q[1], q[2]>> /\ (Fading(q) <=> q[1] = "hidden" \/ q[2] = "hidden")
         /\ Len(q) \in {0, 1, 2} /\ \A i \in 1..Len(q) : q[i] \in TipCalls
         /\ \A a \in TipCalls : Len(q) <= 1 =>
              /\ Append(q, a) \in Fades /\ Len(Append(q, a)) = Len(q) + 1
              /\ Fading(Append(q, a)) <=> Fading(q) \/ a = "hidden"
<1>1. q \in Seq(TipCalls) /\ Len(q) \in {0, 1, 2} /\ \A i \in 1..Len(q) : q[i] \in TipCalls
  <2>1. q \in Seq(TipCalls) /\ Len(q) <= 2
    BY DEF Fades
  <2>2. Len(q) \in Nat
    BY <2>1
  <2>3. \A n \in Nat : n <= 2 => n \in {0, 1, 2}
    OBVIOUS
  <2>4. \A i \in 1..Len(q) : q[i] \in TipCalls
    BY <2>1
  <2> QED  BY <2>1, <2>2, <2>3, <2>4
<1>2. Len(q) = 0 => q = <<>>
  BY <1>1, EmptySeq
<1>3. Len(q) = 1 => q = <<q[1]>>
  BY <1>1
<1>4. Len(q) = 2 => q = <<q[1], q[2]>>
  BY <1>1
<1>5. 1..0 = {} /\ 1..1 = {1} /\ 1..2 = {1, 2}
  OBVIOUS
<1>6. /\ Len(q) = 0 => ~Fading(q)
      /\ Len(q) = 1 => (Fading(q) <=> q[1] = "hidden")
      /\ Len(q) = 2 => (Fading(q) <=> q[1] = "hidden" \/ q[2] = "hidden")
  BY <1>5 DEF Fading, T!Contains
<1>7. ASSUME NEW a \in TipCalls, Len(q) <= 1
      PROVE  /\ Append(q, a) \in Fades /\ Len(Append(q, a)) = Len(q) + 1
             /\ Fading(Append(q, a)) <=> Fading(q) \/ a = "hidden"
  <2> DEFINE p == Append(q, a)
  <2>1. /\ p \in Seq(TipCalls) /\ Len(p) = Len(q) + 1 /\ p[Len(q) + 1] = a
        /\ \A i \in 1..Len(q) : p[i] = q[i]
    BY <1>1
  <2> HIDE DEF p
  <2>2. \A i : i \in 1..Len(p) <=> i \in 1..Len(q) \/ i = Len(q) + 1
    BY <1>1, <2>1
  <2>3. Fading(p) <=> Fading(q) \/ a = "hidden"
    BY <2>1, <2>2 DEF Fading, T!Contains
  <2>4. p \in Fades
    BY <1>1, <1>7, <2>1 DEF Fades
  <2> QED  BY <2>1, <2>3, <2>4 DEF p
<1> QED  BY <1>1, <1>2, <1>3, <1>4, <1>6, <1>7

TipType ==
  [page : BOOLEAN, bound : BOOLEAN, animation : BOOLEAN, delay : SUBSET {"show", "hide"},
   attached : BOOLEAN, fade : BOOLEAN, hoverState : {"none", "in", "out"},
   timeout : {"none", "show", "hide"}, want : BOOLEAN, hasty : BOOLEAN,
   pending : [{"tip"} -> Fades]]

\* What the end of the fades awaited makes of the tip.
LEMMA TipEnded ==
  ASSUME NEW t \in TipType, t.pending["tip"] # <<>>
  PROVE  T!Ended(t, "tip", T!Run)
           = [t EXCEPT !.pending = [el \in {"tip"} |-> <<>>],
                       !.attached = @ /\ (Fading(t.pending["tip"]) => t.hoverState = "in")]
<1> DEFINE w == [t EXCEPT !.pending = [el \in {"tip"} |-> <<>>]]
           out == [t EXCEPT !.pending = [el \in {"tip"} |-> <<>>],
                            !.attached = @ /\ (Fading(t.pending["tip"]) => t.hoverState = "in")]
           r(x) == [w EXCEPT !.attached = x]
           in == t.hoverState = "in"
<1>1. T!Disarm(t.pending, {"tip"}) = [el \in {"tip"} |-> <<>>]
  BY DEF T!Disarm, TipType
<1>2. /\ w = r(t.attached) /\ t.attached \in BOOLEAN /\ in \in BOOLEAN
      /\ out = r(t.attached /\ (Fading(t.pending["tip"]) => in))
      /\ \A x : r(x).attached = x /\ r(x).hoverState = t.hoverState
      /\ \A x, y : [r(x) EXCEPT !.attached = y] = r(y)
  BY DEF TipType
<1> HIDE DEF w, out
<1>3. \A x : T!Run(r(x), "shown") = r(x)
  BY DEF T!Run
<1>4. \A x : T!Run(r(x), "hidden") = r(x /\ in)
  <2> SUFFICES ASSUME NEW x
               PROVE  T!Run(r(x), "hidden") = r(x /\ in)
    OBVIOUS
  <2>1. T!Run(r(x), "hidden") = [r(x) EXCEPT !.attached = r(x).attached /\ r(x).hoverState = "in"]
    BY DEF T!Run, T!Hidden
  <2>2. r(x).attached = x /\ r(x).hoverState = t.hoverState
    BY <1>2
  <2> QED  BY <1>2, <2>1, <2>2
<1>5. [t EXCEPT !.pending = T!Disarm(@, {"tip"})] = r(t.attached)
  BY <1>1, <1>2 DEF w
<1> HIDE DEF r
<1> DEFINE q == t.pending["tip"]
<1>6. q \in Fades /\ Len(q) # 0
  BY FadesFacts DEF TipType
<1>7. ASSUME NEW a \in TipCalls, q = <<a>>, Fading(q) <=> a = "hidden"
      PROVE  T!Ended(t, "tip", T!Run) = out
  <2>1. T!Ended(t, "tip", T!Run) = T!Run(r(t.attached), a)
    <3>1. T!Ended(t, "tip", T!Run) = T!Run([t EXCEPT !.pending = T!Disarm(@, {"tip"})], a)
      BY <1>7, TipOneEnded
    <3> QED  BY <1>5, <3>1
  <2>2. CASE a = "hidden"
    <3>1. out = r(t.attached /\ in)
      BY <1>2, <1>7, <2>2
    <3> QED  BY <1>4, <2>1, <2>2, <3>1
  <2>3. CASE a = "shown"
    <3>1. out = r(t.attached)
      BY <1>2, <1>7, <2>3
    <3> QED  BY <1>3, <2>1, <2>3, <3>1
  <2> QED  BY <2>2, <2>3 DEF TipCalls
<1>8. ASSUME NEW a \in TipCalls, NEW b \in TipCalls, q = <<a, b>>,
             Fading(q) <=> a = "hidden" \/ b = "hidden"
      PROVE  T!Ended(t, "tip", T!Run) = out
  <2> DEFINE x == t.attached
             one == IF a = "hidden" THEN x /\ in ELSE x
             two == IF b = "hidden" THEN one /\ in ELSE one
  <2>1. T!Ended(t, "tip", T!Run) = T!Run(T!Run(r(x), a), b)
    <3>1. T!Ended(t, "tip", T!Run)
            = T!Run(T!Run([t EXCEPT !.pending = T!Disarm(@, {"tip"})], a), b)
      <4>1. DOMAIN t.pending["tip"] = {1, 2} /\ t.pending["tip"][1] = a /\ t.pending["tip"][2] = b
        BY <1>8
      <4> QED  BY <4>1, TipTwoEnded
    <3> QED  BY <1>5, <3>1
  <2>2. T!Run(r(x), a) = r(one)
    BY <1>3, <1>4 DEF TipCalls
  <2>3. T!Run(r(one), b) = r(two)
    <3> HIDE DEF one
    <3> QED  BY <1>3, <1>4 DEF TipCalls
  <2>4. two = (x /\ (Fading(q) => in))
    BY <1>2, <1>8 DEF TipCalls
  <2>5. out = r(two)
    <3> HIDE DEF two
    <3> QED  BY <1>2, <2>4
  <2> HIDE DEF one, two
  <2> QED  BY <2>1, <2>2, <2>3, <2>5
<1>9. T!Ended(t, "tip", T!Run) = out
  <2>1. CASE Len(q) = 1
    <3>1. q = <<q[1]>> /\ q[1] \in TipCalls /\ (Fading(q) <=> q[1] = "hidden")
      BY <1>6, <2>1, FadesFacts
    <3> QED  BY <1>7, <3>1
  <2>2. CASE Len(q) = 2
    <3>1. /\ q = <<q[1], q[2]>> /\ q[1] \in TipCalls /\ q[2] \in TipCalls
          /\ Fading(q) <=> q[1] = "hidden" \/ q[2] = "hidden"
      BY <1>6, <2>2, FadesFacts
    <3> QED  BY <1>8, <3>1
  <2> QED  BY <1>6, <2>1, <2>2, FadesFacts
<1> QED  BY <1>9 DEF out

Awaits(t) == t.pending["tip"]

TipBase(t) ==
  /\ t \in TipType
  /\ t.page => ~t.animation /\ t.delay = {} /\ t.timeout = "none"
  /\ ~t.animation => ~t.fade /\ Awaits(t) = <<>>

\* A timer that runs knows what was wanted last; without one the tip is as
\* wanted, or a fade awaited will make it so.
TipSound(t) ==
  /\ TipBase(t)
  /\ t.timeout # "none" => Len(Awaits(t)) <= 1
  /\ t.timeout = "show" => t.want /\ t.hoverState = "in"
  /\ t.timeout = "hide" => ~t.want /\ t.hoverState = "out"
  /\ t.timeout = "none" /\ ~t.hasty =>
       IF t.want THEN t.attached /\ ~Fading(Awaits(t))
       ELSE t.hoverState # "in" /\ (t.attached => Fading(Awaits(t)))

TipInv == TipSound(tip)

LEMMA NoneFades == <<>> \in Fades /\ Len(<<>>) = 0 /\ ~Fading(<<>>)
<1>1. <<>> \in Fades /\ Len(<<>>) = 0
  BY DEF Fades
<1> QED  BY <1>1, FadesFacts

LEMMA TipInit == T!Init => TipInv
<1> SUFFICES ASSUME NEW page \in BOOLEAN, NEW animation \in BOOLEAN,
                    NEW delay \in SUBSET {"show", "hide"},
                    page => ~animation /\ delay = {},
                    tip = T!Blank(page, animation, delay)
             PROVE  TipInv
  BY DEF T!Init
<1>1. tip = [page |-> page, bound |-> ~page, animation |-> animation, delay |-> delay,
             attached |-> FALSE, fade |-> FALSE, hoverState |-> "none", timeout |-> "none",
             want |-> FALSE, hasty |-> FALSE, pending |-> [el \in {"tip"} |-> <<>>]]
  BY DEF T!Blank, T!NoneAwaited
<1>2. tip \in TipType
  BY <1>1, NoneFades DEF TipType
<1>3. Awaits(tip) = <<>>
  BY <1>1 DEF Awaits
<1> QED  BY <1>1, <1>2, <1>3, NoneFades DEF TipInv, TipSound, TipBase

LEMMA TipSafe == TipInv => T!TipFollows
<1> SUFFICES ASSUME TipSound(tip), T!Quiet(tip.pending), tip.timeout = "none", ~tip.hasty
             PROVE  tip.attached = tip.want
  BY DEF TipInv, T!TipFollows
<1>1. tip \in TipType /\ Awaits(tip) = <<>>
  BY DEF TipSound, TipBase, TipType, T!Quiet, Awaits
<1> QED  BY <1>1, NoneFades DEF TipSound, TipType

\* Tooltip.show of a tip that is wanted and whose timer does not run.
LEMMA TipShow ==
  ASSUME NEW t, TipBase(t), t.timeout = "none", t.want,
         t.animation => Len(Awaits(t)) <= 1
  PROVE  TipSound(T!Show(t)) /\ T!Show(t).want /\ T!Show(t).animation = t.animation
<1> DEFINE n == T!Show(t)
           q == IF t.animation THEN Append(Awaits(t), "shown") ELSE Awaits(t)
<1>1. t \in TipType /\ Awaits(t) \in Fades
  BY DEF TipBase, TipType, Awaits
<1>2. q \in Fades /\ (Fading(q) <=> Fading(Awaits(t)))
  BY <1>1, FadesFacts DEF TipCalls
<1>3. [el \in {"tip"} |-> q] = IF t.animation THEN T!Arm(t.pending, "tip", "shown") ELSE t.pending
  BY <1>1 DEF T!Arm, TipType, Awaits
<1> HIDE DEF q
<1>4. n = [t EXCEPT !.attached = TRUE, !.fade = t.animation, !.hoverState = "none",
                    !.hasty = @ \/ Fading(Awaits(t)), !.pending = [el \in {"tip"} |-> q]]
  BY <1>3 DEF T!Show, Fading, Awaits
<1> HIDE DEF n
<1>5. (t.hasty \/ Fading(Awaits(t))) \in BOOLEAN /\ [el \in {"tip"} |-> q] \in [{"tip"} -> Fades]
  BY <1>1, <1>2 DEF TipType, Fading, T!Contains
<1>6. /\ n \in TipType /\ n.attached /\ n.fade = t.animation /\ n.hasty = (t.hasty \/ Fading(Awaits(t)))
      /\ n.timeout = "none" /\ n.want /\ n.page = t.page /\ n.animation = t.animation
      /\ n.delay = t.delay /\ n.pending = [el \in {"tip"} |-> q]
  BY <1>1, <1>4, <1>5 DEF TipType
<1>7. Awaits(n) = q
  BY <1>6 DEF Awaits
<1> QED  BY <1>2, <1>6, <1>7 DEF TipSound, TipBase, n, q

\* Tooltip.hide of a tip that was left and whose timer does not run.
LEMMA TipHide ==
  ASSUME NEW t, TipBase(t), t.timeout = "none", ~t.want, t.hoverState = "out",
         Len(Awaits(t)) <= 1
  PROVE  TipSound(T!Hide(t))
<1> DEFINE n == T!Hide(t)
<1>1. t \in TipType /\ Awaits(t) \in Fades
  BY DEF TipBase, TipType, Awaits
<1>2. CASE t.fade
  <2> DEFINE q == Append(Awaits(t), "hidden")
  <2>1. q \in Fades /\ Fading(q)
    BY <1>1, FadesFacts DEF TipCalls
  <2>2. [el \in {"tip"} |-> q] = T!Arm(t.pending, "tip", "hidden")
    BY <1>1 DEF T!Arm, TipType, Awaits
  <2> HIDE DEF q
  <2>3. n = [t EXCEPT !.hoverState = "none", !.pending = [el \in {"tip"} |-> q]]
    BY <1>2, <2>2 DEF T!Hide
  <2> HIDE DEF n
  <2>4. /\ n \in TipType /\ n.hoverState = "none" /\ n.pending = [el \in {"tip"} |-> q]
        /\ n.timeout = "none" /\ ~n.want /\ n.page = t.page /\ n.animation = t.animation
        /\ n.delay = t.delay
    BY <1>1, <2>1, <2>3 DEF TipType
  <2>5. Awaits(n) = q /\ t.animation
    BY <1>2, <2>4 DEF Awaits, TipBase
  <2> QED  BY <2>1, <2>4, <2>5 DEF TipSound, TipBase, n
<1>3. CASE ~t.fade
  <2>1. n = [t EXCEPT !.attached = FALSE, !.hoverState = "none"]
    BY <1>1, <1>3 DEF T!Hide, T!Hidden, TipType
  <2> HIDE DEF n
  <2>2. /\ n \in TipType /\ n.hoverState = "none" /\ n.pending = t.pending /\ ~n.attached
        /\ n.timeout = "none" /\ ~n.want /\ n.page = t.page /\ n.animation = t.animation
        /\ n.delay = t.delay /\ n.fade = t.fade
    BY <1>1, <2>1 DEF TipType
  <2> QED  BY <2>2 DEF TipSound, TipBase, Awaits, n
<1> QED  BY <1>2, <1>3

\* Tooltip.enter of a tip that is wanted.
LEMMA TipEntry ==
  ASSUME NEW t, TipBase(t), t.want, t.animation => Len(Awaits(t)) <= 1
  PROVE  TipSound(T!Entry(t))
<1> DEFINE n == [t EXCEPT !.timeout = "none", !.hoverState = "in"]
           o == [n EXCEPT !.timeout = "show"]
<1>1. t \in TipType
  BY DEF TipBase
<1>2. /\ n \in TipType /\ n.timeout = "none" /\ n.want /\ n.hoverState = "in"
      /\ n.page = t.page /\ n.animation = t.animation /\ n.delay = t.delay
      /\ n.fade = t.fade /\ n.pending = t.pending
  BY <1>1 DEF TipType
<1>3. T!Entry(t) = IF "show" \in t.delay THEN o ELSE T!Show(n)
  BY DEF T!Entry
<1> HIDE DEF n
<1>4. TipBase(n)
  BY <1>2 DEF TipBase, Awaits
<1>5. CASE "show" \in t.delay
  <2>1. /\ o \in TipType /\ o.timeout = "show" /\ o.want /\ o.hoverState = "in"
        /\ o.page = t.page /\ o.animation = t.animation /\ o.delay = t.delay
        /\ o.fade = t.fade /\ o.pending = t.pending
    BY <1>2 DEF TipType
  <2>2. ~t.page /\ Len(Awaits(t)) <= 1
    BY <1>1, <1>5, NoneFades DEF TipBase, TipType
  <2> HIDE DEF o
  <2> QED  BY <1>3, <1>5, <2>1, <2>2 DEF TipSound, TipBase, Awaits
<1>6. CASE "show" \notin t.delay
  <2>1. n.animation => Len(Awaits(n)) <= 1
    BY <1>2 DEF Awaits
  <2> QED  BY <1>2, <1>3, <1>4, <1>6, <2>1, TipShow
<1> QED  BY <1>5, <1>6

\* Tooltip.leave of a tip that is not wanted any more.
LEMMA TipDeparture ==
  ASSUME NEW t, TipBase(t), ~t.want, Len(Awaits(t)) <= 1
  PROVE  TipSound(T!Departure(t))
<1> DEFINE n == [t EXCEPT !.timeout = "none", !.hoverState = "out"]
           o == [n EXCEPT !.timeout = "hide"]
<1>1. t \in TipType
  BY DEF TipBase
<1>2. /\ n \in TipType /\ n.timeout = "none" /\ ~n.want /\ n.hoverState = "out"
      /\ n.page = t.page /\ n.animation = t.animation /\ n.delay = t.delay
      /\ n.fade = t.fade /\ n.pending = t.pending
  BY <1>1 DEF TipType
<1>3. T!Departure(t) = IF "hide" \in t.delay THEN o ELSE T!Hide(n)
  BY DEF T!Departure
<1> HIDE DEF n
<1>4. TipBase(n) /\ Len(Awaits(n)) <= 1
  BY <1>2 DEF TipBase, Awaits
<1>5. CASE "hide" \in t.delay
  <2>1. /\ o \in TipType /\ o.timeout = "hide" /\ ~o.want /\ o.hoverState = "out"
        /\ o.page = t.page /\ o.animation = t.animation /\ o.delay = t.delay
        /\ o.fade = t.fade /\ o.pending = t.pending
    BY <1>2 DEF TipType
  <2>2. ~t.page
    BY <1>5 DEF TipBase
  <2> HIDE DEF o
  <2> QED  BY <1>3, <1>5, <2>1, <2>2 DEF TipSound, TipBase, Awaits
<1>6. CASE "hide" \notin t.delay
  BY <1>2, <1>3, <1>4, <1>6, TipHide
<1> QED  BY <1>5, <1>6

LEMMA TipNext == TipInv /\ T!Next => TipInv'
<1> SUFFICES ASSUME TipSound(tip), T!Next
             PROVE  TipSound(tip')
  BY DEF TipInv
<1>0. /\ tip \in TipType /\ TipBase(tip) /\ Awaits(tip) \in Fades /\ Len(Awaits(tip)) \in Nat
      /\ ~tip.animation => Awaits(tip) = <<>>
  <2>1. tip \in TipType /\ TipBase(tip) /\ Awaits(tip) \in Fades
        /\ (~tip.animation => Awaits(tip) = <<>>)
    BY DEF TipSound, TipBase, TipType, Awaits
  <2> QED  BY <2>1 DEF Fades
<1>1. ASSUME NEW t, NEW want \in BOOLEAN, t = [tip EXCEPT !.want = want]
      PROVE  /\ TipBase(t) /\ t.want = want /\ t.animation = tip.animation
             /\ Awaits(t) = Awaits(tip)
  BY <1>0, <1>1 DEF TipBase, TipType, Awaits
<1>2. ASSUME T!Enter
      PROVE  TipSound(tip')
  <2> DEFINE t == [tip EXCEPT !.want = TRUE]
  <2>1. tip' = T!Entry(t) /\ Len(Awaits(tip)) <= 1
    BY <1>0, <1>2 DEF T!Enter, T!MaxFades, Awaits
  <2>2. TipBase(t) /\ t.want /\ Len(Awaits(t)) <= 1
    BY <1>1, <2>1
  <2> HIDE DEF t
  <2> QED  BY <2>1, <2>2, TipEntry
<1>3. ASSUME T!Leave
      PROVE  TipSound(tip')
  <2> DEFINE t == [tip EXCEPT !.want = FALSE]
  <2>1. tip' = T!Departure(t) /\ Len(Awaits(tip)) <= 1
    BY <1>0, <1>3 DEF T!Leave, T!MaxFades, Awaits
  <2>2. TipBase(t) /\ ~t.want /\ Len(Awaits(t)) <= 1
    BY <1>1, <2>1
  <2> HIDE DEF t
  <2> QED  BY <2>1, <2>2, TipDeparture
<1>4. ASSUME T!MouseOver
      PROVE  TipSound(tip')
  <2> DEFINE t == [tip EXCEPT !.bound = TRUE, !.want = TRUE]
             shown == T!Show(t)
  <2>1. tip.page /\ tip' = IF tip.bound THEN T!Entry(shown) ELSE shown
    BY <1>4 DEF T!MouseOver
  <2>2. /\ TipBase(t) /\ t.timeout = "none" /\ t.want /\ ~t.animation
    BY <1>0, <2>1 DEF TipBase, TipType, Awaits
  <2> HIDE DEF t
  <2>3. TipSound(shown) /\ shown.want /\ ~shown.animation
    BY <2>2, TipShow
  <2> HIDE DEF shown
  <2>4. TipSound(T!Entry(shown))
    BY <2>3, TipEntry DEF TipSound
  <2> QED  BY <2>1, <2>3, <2>4
<1>5. ASSUME T!ShowTimer \/ T!HideTimer
      PROVE  TipSound(tip')
  <2> DEFINE t == [tip EXCEPT !.timeout = "none"]
  <2>1. /\ tip.timeout # "none" /\ Len(Awaits(tip)) <= 1
        /\ t.want = tip.want /\ t.hoverState = tip.hoverState /\ t.timeout = "none"
    BY <1>0, <1>5 DEF T!ShowTimer, T!HideTimer, TipSound, TipType
  <2>2. TipBase(t) /\ Len(Awaits(t)) <= 1
    BY <1>0, <2>1 DEF TipBase, TipType, Awaits
  <2>3. CASE T!ShowTimer
    <3>1. t.want /\ t.hoverState = "in" /\ tip' = T!Show(t)
      BY <2>1, <2>3 DEF T!ShowTimer, TipSound
    <3> HIDE DEF t
    <3> QED  BY <2>1, <2>2, <3>1, TipShow
  <2>4. CASE T!HideTimer
    <3>1. ~t.want /\ t.hoverState = "out" /\ tip' = T!Hide(t)
      BY <2>1, <2>4 DEF T!HideTimer, TipSound
    <3> HIDE DEF t
    <3> QED  BY <2>1, <2>2, <3>1, TipHide
  <2> QED  BY <1>5, <2>3, <2>4
<1>6. ASSUME T!TransitionEnds
      PROVE  TipSound(tip')
  <2>1. tip' = [tip EXCEPT !.pending = [el \in {"tip"} |-> <<>>],
                           !.attached = @ /\ (Fading(Awaits(tip)) => tip.hoverState = "in")]
    BY <1>0, <1>6, TipEnded DEF T!TransitionEnds, Awaits
  <2>2. /\ tip' \in TipType /\ tip'.attached = (tip.attached /\ (Fading(Awaits(tip)) => tip.hoverState = "in"))
        /\ tip'.page = tip.page /\ tip'.animation = tip.animation /\ tip'.delay = tip.delay
        /\ tip'.fade = tip.fade /\ tip'.timeout = tip.timeout /\ tip'.want = tip.want
        /\ tip'.hoverState = tip.hoverState /\ tip'.hasty = tip.hasty
        /\ tip'.pending = [el \in {"tip"} |-> <<>>]
    BY <1>0, <2>1, NoneFades DEF TipType
  <2>3. Awaits(tip') = <<>>
    BY <2>2 DEF Awaits
  <2>4. TipBase(tip')
    BY <1>0, <2>2, <2>3 DEF TipBase
  <2>5. ASSUME tip'.timeout = "none", ~tip'.hasty
        PROVE  IF tip'.want THEN tip'.attached /\ ~Fading(Awaits(tip'))
               ELSE tip'.hoverState # "in" /\ (tip'.attached => Fading(Awaits(tip')))
    <3>1. CASE tip.want
      <4>1. tip.attached /\ ~Fading(Awaits(tip))
        BY <2>2, <2>5, <3>1 DEF TipSound
      <4> QED  BY <2>2, <2>3, <3>1, <4>1, NoneFades
    <3>2. CASE ~tip.want
      <4>1. tip.hoverState # "in" /\ (tip.attached => Fading(Awaits(tip)))
        BY <2>2, <2>5, <3>2 DEF TipSound
      <4> QED  BY <2>2, <3>2, <4>1
    <3> QED  BY <3>1, <3>2
  <2>6. /\ tip'.timeout = "show" => tip'.want /\ tip'.hoverState = "in"
        /\ tip'.timeout = "hide" => ~tip'.want /\ tip'.hoverState = "out"
    BY <2>2 DEF TipSound
  <2>7. Len(Awaits(tip')) <= 1
    BY <2>3, NoneFades
  <2> QED  BY <2>4, <2>5, <2>6, <2>7 DEF TipSound
<1> QED  BY <1>2, <1>3, <1>4, <1>5, <1>6 DEF T!Next

-----------------------------------------------------------------------------
(* The carousel.                                                           *)

LEMMA MaxOfSet ==
  ASSUME NEW n \in Nat, NEW s \in SUBSET (1..n), s # {}
  PROVE  /\ C!Max(s) \in s
         /\ \A y \in s : y <= C!Max(s)
<1>1. \E x \in s : \A y \in s : x >= y
  <2>1. s \in SUBSET (0..n)
    OBVIOUS
  <2>2. PICK x \in s : \A y \in s : y <= x
    BY <2>1, GreatestOfSet
  <2>3. \A y \in s : x >= y
    BY <2>2
  <2> QED  BY <2>3
<1> QED  BY <1>1 DEF C!Max

\* One unfolding of the fold over the handlers q, from base.
SlidStep(base, q, g, s) ==
  IF s = {} THEN base ELSE C!RunSlid(g[s \ {C!Max(s)}], q[C!Max(s)])

\* The fold over handlers is defined, however many there are.
LEMMA SlidFoldExists ==
  ASSUME NEW base, NEW q, NEW n \in Nat
  PROVE  \E g : g = [s \in SUBSET (1..n) |-> SlidStep(base, q, g, s)]
<1> DEFINE Has(k) == \E g : g = [s \in SUBSET (1..k) |-> SlidStep(base, q, g, s)]
           X == {k \in 0..n : ~Has(k)}
<1>1. Has(0)
  <2> DEFINE g == [s \in SUBSET (1..0) |-> base]
  <2>1. \A s \in SUBSET (1..0) : s = {}
    OBVIOUS
  <2>2. g = [s \in SUBSET (1..0) |-> SlidStep(base, q, g, s)]
    BY <2>1 DEF SlidStep
  <2> QED  BY <2>2
<1>2. ASSUME NEW k \in Nat, Has(k)
      PROVE  Has(k + 1)
  <2>1. PICK g : g = [s \in SUBSET (1..k) |-> SlidStep(base, q, g, s)]
    BY <1>2
  <2>2. \A s \in SUBSET (1..k) : g[s] = SlidStep(base, q, g, s)
    BY <2>1
  <2> DEFINE h == [s \in SUBSET (1..k + 1) |->
                     IF k + 1 \in s THEN C!RunSlid(g[s \ {k + 1}], q[k + 1]) ELSE g[s]]
  <2>3. ASSUME NEW s \in SUBSET (1..k + 1)
        PROVE  h[s] = SlidStep(base, q, h, s)
    <3>1. CASE k + 1 \in s
      <4>1. C!Max(s) = k + 1
        <5>1. k + 1 \in Nat /\ s # {}
          BY <3>1
        <5>2. C!Max(s) \in s /\ k + 1 <= C!Max(s)
          BY <3>1, <5>1, MaxOfSet
        <5>3. C!Max(s) \in 1..k + 1
          BY <5>2
        <5> QED  BY <5>2, <5>3
      <4>2. s \ {k + 1} \in SUBSET (1..k + 1) /\ k + 1 \notin s \ {k + 1}
        OBVIOUS
      <4>3. h[s \ {k + 1}] = g[s \ {k + 1}]
        BY <4>2
      <4>4. h[s] = C!RunSlid(g[s \ {k + 1}], q[k + 1])
        BY <3>1
      <4> HIDE DEF h
      <4> QED  BY <3>1, <4>1, <4>3, <4>4 DEF SlidStep
    <3>2. CASE k + 1 \notin s
      <4>1. s \in SUBSET (1..k)
        BY <3>2
      <4>2. h[s] = g[s]
        BY <3>2
      <4>3. CASE s = {}
        BY <2>2, <4>1, <4>2, <4>3 DEF SlidStep
      <4>4. CASE s # {}
        <5>1. s \ {C!Max(s)} \in SUBSET (1..k + 1) /\ k + 1 \notin s \ {C!Max(s)}
          BY <3>2
        <5>2. h[s \ {C!Max(s)}] = g[s \ {C!Max(s)}]
          BY <5>1
        <5> HIDE DEF h
        <5> QED  BY <2>2, <4>1, <4>2, <4>4, <5>2 DEF SlidStep
      <4> QED  BY <4>3, <4>4
    <3> QED  BY <3>1, <3>2
  <2>4. h = [s \in SUBSET (1..k + 1) |-> h[s]]
    OBVIOUS
  <2> HIDE DEF h
  <2>5. h = [s \in SUBSET (1..k + 1) |-> SlidStep(base, q, h, s)]
    BY <2>3, <2>4
  <2> QED  BY <2>5
<1> HIDE DEF Has
<1>3. ASSUME X # {}
      PROVE  FALSE
  <2>1. X \in SUBSET Nat
    OBVIOUS
  <2>2. PICK k \in X : \A j \in X : k <= j
    BY <1>3, <2>1, LeastOfSet
  <2>3. k \in 0..n /\ k # 0
    BY <1>1
  <2>4. k - 1 \in 0..n /\ k - 1 \in Nat /\ k = (k - 1) + 1 /\ ~(k <= k - 1)
    BY <2>3
  <2>5. k - 1 \notin X
    BY <2>2, <2>4
  <2>6. Has(k - 1)
    BY <2>4, <2>5
  <2>7. Has((k - 1) + 1)
    BY <1>2, <2>4, <2>6
  <2> QED  BY <2>4, <2>7
<1>4. Has(n)
  BY <1>3
<1> QED  BY <1>4 DEF Has

\* The fold as a sequence of carousels, one for each handler that has run.
LEMMA SlidFold ==
  ASSUME NEW base, NEW q, NEW n \in Nat, DOMAIN q = 1..n
  PROVE  \E it : /\ it[0] = base
                 /\ \A k \in 1..n : it[k] = C!RunSlid(it[k - 1], q[k])
                 /\ it[n] = C!FoldLeft(C!RunSlid, base, q)
<1> DEFINE fold == CHOOSE g : g = [s \in SUBSET (1..n) |-> SlidStep(base, q, g, s)]
           it == [k \in 0..n |-> fold[1..k]]
<1>1. fold = [s \in SUBSET (1..n) |-> SlidStep(base, q, fold, s)]
  BY SlidFoldExists
<1>2. C!FoldLeft(C!RunSlid, base, q) = fold[1..n]
  BY DEF C!FoldLeft, C!MapThenFoldSet, fold, SlidStep
<1> HIDE DEF fold
<1>3. \A s \in SUBSET (1..n) : fold[s] = SlidStep(base, q, fold, s)
  BY <1>1
<1>4. it[0] = base
  <2>1. 1..0 = {} /\ 0 \in 0..n
    OBVIOUS
  <2>2. fold[{}] = base
    BY <1>3 DEF SlidStep
  <2> QED  BY <2>1, <2>2
<1>5. ASSUME NEW k \in 1..n
      PROVE  it[k] = C!RunSlid(it[k - 1], q[k])
  <2>1. 1..k \in SUBSET (1..n) /\ 1..k # {} /\ k \in 1..k /\ k \in Nat /\ k \in 0..n
    OBVIOUS
  <2>2. C!Max(1..k) = k
    <3>1. C!Max(1..k) \in 1..k /\ k <= C!Max(1..k)
      BY <2>1, MaxOfSet
    <3> QED  BY <3>1
  <2>3. (1..k) \ {k} = 1..(k - 1) /\ k - 1 \in 0..n
    OBVIOUS
  <2>4. fold[1..k] = C!RunSlid(fold[1..(k - 1)], q[k])
    BY <1>3, <2>1, <2>2, <2>3 DEF SlidStep
  <2> QED  BY <2>1, <2>3, <2>4
<1>6. it[n] = C!FoldLeft(C!RunSlid, base, q)
  <2>1. n \in 0..n
    OBVIOUS
  <2> QED  BY <1>2, <2>1
<1> HIDE DEF it
<1> QED  BY <1>4, <1>5, <1>6

Handlers == {<<"indicator">>} \union {<<"to", p>> : p \in C!Items}

CarouselType ==
  [css : BOOLEAN, wrap : BOOLEAN, auto : BOOLEAN,
   active : SUBSET C!Items, indicator : SUBSET C!Items,
   sliding : BOOLEAN, interval : BOOLEAN, paused : BOOLEAN, slidDue : Nat,
   onSlid : Seq(Handlers), overlapped : BOOLEAN, hover : BOOLEAN, restarted : BOOLEAN,
   pending : [C!Items -> Seq(C!Items \X C!Items)]]

NoSlide == [i \in C!Items |-> <<>>]

OneSlide(a, b) == [i \in C!Items |-> IF i = a THEN << <<a, b>> >> ELSE <<>>]

\* Between two slides; during one from a.
Still(c) == ~c.sliding /\ c.pending = NoSlide

Slides(c, a) ==
  c.sliding /\ c.css /\ \E b \in C!Items \ {a} : c.pending = OneSlide(a, b)

\* The first handler of the slid event lights the indicator, the others are
\* clicks that wait.
LightsFirst(q) ==
  q # <<>> /\ q[1] = <<"indicator">> /\ \A i \in 2..Len(q) : q[i] # <<"indicator">>

Lit(c) ==
  IF c.sliding \/ c.slidDue > 0
  THEN /\ c.indicator = {} /\ LightsFirst(c.onSlid)
       /\ c.slidDue = IF c.sliding THEN 0 ELSE 1
  ELSE c.indicator = c.active

Poised(c) ==
  /\ c \in CarouselType
  /\ \E a \in C!Items : c.active = {a} /\ (Still(c) \/ Slides(c, a))
  /\ c.hover /\ ~c.restarted => ~c.interval
  /\ c.onSlid # <<>> => c.sliding \/ c.slidDue > 0
  /\ ~c.css => c.slidDue = 0

CarouselSound(c) == Poised(c) /\ (~c.overlapped => Lit(c))

CarouselInv == CarouselSound(carousel)

LEMMA HandlersFacts ==
  /\ <<"indicator">> \in Handlers
  /\ \A p \in C!Items : /\ <<"to", p>> \in Handlers /\ <<"to", p>> # <<"indicator">>
                        /\ <<"to", p>>[1] = "to" /\ <<"to", p>>[2] = p
  /\ <<"indicator">>[1] = "indicator" /\ "to" # "indicator"
  /\ \A h \in Handlers : h # <<"indicator">> => \E p \in C!Items : h = <<"to", p>>
<1>1. \A p : Len(<<"to", p>>) = 2
  OBVIOUS
<1>2. Len(<<"indicator">>) = 1
  OBVIOUS
<1> QED  BY <1>1, <1>2 DEF Handlers

LEMMA ActiveFacts ==
  ASSUME NEW c, NEW a \in C!Items, c.active = {a}
  PROVE  C!ActiveItem(c) = a
<1>1. a <= a
  BY DEF C!Items
<1> QED  BY <1>1 DEF C!ActiveItem

\* cycle and pause change the clock only.
LEMMA CycleFacts ==
  ASSUME NEW c \in CarouselType, NEW v \in BOOLEAN
  PROVE  /\ \E i, p \in BOOLEAN : C!Cycle(c, v) = [c EXCEPT !.interval = i, !.paused = p]
         /\ \E p \in BOOLEAN : C!Pause(c, v) = [c EXCEPT !.interval = FALSE, !.paused = p]
<1>1. c.auto \in BOOLEAN /\ c.paused \in BOOLEAN
  BY DEF CarouselType
<1>2. C!Cycle(c, v) = [c EXCEPT !.interval = c.auto /\ ~(c.paused /\ v), !.paused = c.paused /\ v]
  BY DEF CarouselType, C!Cycle
<1>3. C!Pause(c, v) = [c EXCEPT !.interval = FALSE, !.paused = c.paused \/ ~v]
  BY DEF CarouselType, C!Pause
<1> QED  BY <1>1, <1>2, <1>3

\* A change of the clock that starts no clock under the mouse.
LEMMA ClockFree ==
  ASSUME NEW c, CarouselSound(c), NEW i \in BOOLEAN, NEW p \in BOOLEAN, i => c.interval
  PROVE  CarouselSound([c EXCEPT !.interval = i, !.paused = p])
<1> DEFINE r == [c EXCEPT !.interval = i, !.paused = p]
<1>1. /\ r \in CarouselType /\ r.interval = i /\ r.active = c.active /\ r.sliding = c.sliding
      /\ r.css = c.css /\ r.pending = c.pending /\ r.hover = c.hover /\ r.restarted = c.restarted
      /\ r.onSlid = c.onSlid /\ r.slidDue = c.slidDue /\ r.overlapped = c.overlapped
      /\ r.indicator = c.indicator
  BY DEF CarouselSound, Poised, CarouselType
<1> HIDE DEF r
<1>2. Poised(r)
  BY <1>1 DEF CarouselSound, Poised, Still, Slides
<1>3. Lit(c) => Lit(r)
  BY <1>1 DEF Lit
<1> QED  BY <1>1, <1>2, <1>3 DEF CarouselSound, r

LEMMA OneSlideFacts ==
  ASSUME NEW a \in C!Items, NEW b \in C!Items
  PROVE  OneSlide(a, b) \in [C!Items -> Seq(C!Items \X C!Items)]
<1>1. <<a, b>> \in C!Items \X C!Items
  OBVIOUS
<1> DEFINE d == <<a, b>>
           Z == C!Items \X C!Items
<1> HIDE DEF d, Z
<1>2. <<d>> \in Seq(Z) /\ <<>> \in Seq(Z)
  BY <1>1 DEF d, Z
<1> QED  BY <1>2 DEF OneSlide, d, Z

\* The carousel c that slides from a to b, with its clock as i and p tell.
SlidTo(c, a, b, i, p) ==
  IF c.css
  THEN [c EXCEPT !.sliding = TRUE, !.indicator = {},
                 !.onSlid = Append(@, <<"indicator">>),
                 !.overlapped = @ \/ c.slidDue > 0,
                 !.pending = OneSlide(a, b), !.interval = i, !.paused = p]
  ELSE [c EXCEPT !.active = {b}, !.sliding = FALSE, !.indicator = {b},
                 !.onSlid = <<>>, !.overlapped = @ \/ c.slidDue > 0,
                 !.interval = i, !.paused = p]

LEMMA SlideToFacts ==
  ASSUME NEW c \in CarouselType, NEW a \in C!Items, NEW b \in C!Items, b # a,
         c.active = {a}, Still(c)
  PROVE  \E i, p \in BOOLEAN :
           /\ i => c.interval
           /\ C!SlideTo(c, b) = SlidTo(c, a, b, i, p)
<1> DEFINE begun == [c EXCEPT !.sliding = TRUE, !.indicator = {},
                              !.onSlid = Append(@, <<"indicator">>),
                              !.overlapped = @ \/ c.slidDue > 0]
           timed == IF c.interval THEN C!Pause(begun, FALSE) ELSE begun
           done(t) == IF c.css THEN [t EXCEPT !.pending = C!Arm(@, a, <<a, b>>)]
                      ELSE C!ShowIndicator([C!Moved(t, a, b) EXCEPT !.onSlid = <<>>])
           stops(t) == IF c.css
                       THEN [t EXCEPT !.pending = OneSlide(a, b)]
                       ELSE [t EXCEPT !.active = {b}, !.sliding = FALSE, !.indicator = {b},
                                      !.onSlid = <<>>]
           cl(i, p) == [begun EXCEPT !.interval = i, !.paused = p]
<1>1. C!ActiveItem(c) = a /\ b \notin c.active
  BY ActiveFacts
<1>2. begun \in CarouselType /\ begun.pending = NoSlide /\ begun.active = {a} /\ begun.indicator = {}
      /\ begun.interval = c.interval /\ begun.paused = c.paused
  <2>1. Append(c.onSlid, <<"indicator">>) \in Seq(Handlers)
    BY HandlersFacts DEF CarouselType
  <2> HIDE DEF Handlers
  <2> QED  BY <2>1 DEF CarouselType, Still
<1>3. C!SlideTo(c, b) = IF c.interval THEN C!Cycle(done(timed), FALSE) ELSE done(timed)
  BY <1>1 DEF C!SlideTo
<1> HIDE DEF begun
<1>4. \E p \in BOOLEAN : timed = cl(FALSE, p)
  <2>1. CASE c.interval
    BY <1>2, <2>1, CycleFacts
  <2>2. CASE ~c.interval
    <3>1. begun = [begun EXCEPT !.interval = FALSE, !.paused = begun.paused]
      BY <1>2, <2>2 DEF CarouselType
    <3>2. begun.paused \in BOOLEAN
      BY <1>2 DEF CarouselType
    <3> QED  BY <2>2, <3>1, <3>2
  <2> QED  BY <2>1, <2>2
<1>5. ASSUME NEW p \in BOOLEAN, NEW i \in BOOLEAN
      PROVE  /\ cl(i, p) \in CarouselType /\ cl(i, p).pending = NoSlide /\ cl(i, p).active = {a}
             /\ cl(i, p).indicator = {}
             /\ \A j, k : [cl(i, p) EXCEPT !.interval = j, !.paused = k] = cl(j, k)
  BY <1>2 DEF CarouselType
<1>6. ASSUME NEW p \in BOOLEAN
      PROVE  done(cl(FALSE, p)) = stops(cl(FALSE, p))
  <2> DEFINE t == cl(FALSE, p)
  <2>1. t \in CarouselType /\ t.pending = NoSlide /\ t.active = {a} /\ t.indicator = {}
    BY <1>5
  <2> HIDE DEF cl
  <2>2. C!Arm(t.pending, a, <<a, b>>) = OneSlide(a, b)
    <3>1. Append(<<>>, <<a, b>>) = << <<a, b>> >>
      OBVIOUS
    <3> QED  BY <2>1, <3>1 DEF C!Arm, NoSlide, OneSlide
  <2>3. CASE c.css
    BY <2>2, <2>3
  <2>4. CASE ~c.css
    <3> DEFINE m == [C!Moved(t, a, b) EXCEPT !.onSlid = <<>>]
    <3>1. m = [t EXCEPT !.active = {b}, !.sliding = FALSE, !.onSlid = <<>>]
      <4>1. ({a} \union {b}) \ {a} = {b}
        OBVIOUS
      <4> QED  BY <2>1, <4>1 DEF C!Moved
    <3>2. m.active = {b} /\ m.indicator = {}
      BY <2>1, <3>1 DEF CarouselType
    <3>3. C!ShowIndicator(m) = [m EXCEPT !.indicator = {b}]
      BY <3>2, ActiveFacts DEF C!ShowIndicator
    <3>4. [m EXCEPT !.indicator = {b}] = stops(t)
      BY <2>1, <2>4, <3>1 DEF CarouselType
    <3> QED  BY <2>4, <3>3, <3>4
  <2> QED  BY <2>3, <2>4
<1>7. PICK p \in BOOLEAN : timed = cl(FALSE, p)
  BY <1>4
<1>8. done(timed) = stops(cl(FALSE, p))
  BY <1>6, <1>7
<1>9. \E i, k \in BOOLEAN : (i => c.interval) /\ C!SlideTo(c, b) = stops(cl(i, k))
  <2>1. stops(cl(FALSE, p)) \in CarouselType
    <3>1. cl(FALSE, p) \in CarouselType
      BY <1>5
    <3>2. OneSlide(a, b) \in [C!Items -> Seq(C!Items \X C!Items)] /\ <<>> \in Seq(Handlers)
      BY OneSlideFacts, EmptySeq
    <3> HIDE DEF cl
    <3> QED  BY <3>1, <3>2 DEF CarouselType
  <2>2. ASSUME NEW i, NEW k
        PROVE  [stops(cl(FALSE, p)) EXCEPT !.interval = i, !.paused = k] = stops(cl(i, k))
    <3> DEFINE t == cl(FALSE, p)
               u == cl(i, k)
    <3>1. t \in CarouselType /\ [t EXCEPT !.interval = i, !.paused = k] = u
      BY <1>5
    <3> HIDE DEF t, u
    <3>2. [stops(t) EXCEPT !.interval = i, !.paused = k]
            = stops([t EXCEPT !.interval = i, !.paused = k])
      <4>1. CASE c.css
        BY <3>1, <4>1 DEF CarouselType
      <4>2. CASE ~c.css
        BY <3>1, <4>2 DEF CarouselType
      <4> QED  BY <4>1, <4>2
    <3> HIDE DEF stops
    <3>3. [stops(t) EXCEPT !.interval = i, !.paused = k] = stops(u)
      BY <3>1, <3>2
    <3> QED  BY <3>3 DEF t, u
  <2> HIDE DEF stops, cl, done, timed
  <2>3. CASE c.interval
    <3>1. PICK i, k \in BOOLEAN :
            C!Cycle(stops(cl(FALSE, p)), FALSE) = [stops(cl(FALSE, p)) EXCEPT !.interval = i, !.paused = k]
      BY <2>1, CycleFacts
    <3>2. C!SlideTo(c, b) = C!Cycle(stops(cl(FALSE, p)), FALSE)
      BY <1>3, <1>8, <2>3
    <3>3. [stops(cl(FALSE, p)) EXCEPT !.interval = i, !.paused = k] = stops(cl(i, k))
      BY <2>2
    <3>4. C!SlideTo(c, b) = stops(cl(i, k))
      BY <3>1, <3>2, <3>3
    <3> QED  BY <2>3, <3>4
  <2>4. CASE ~c.interval
    BY <1>3, <1>8, <2>4
  <2> QED  BY <2>3, <2>4
<1>10. PICK i, k \in BOOLEAN : (i => c.interval) /\ C!SlideTo(c, b) = stops(cl(i, k))
  BY <1>9
<1>11. stops(cl(i, k)) = SlidTo(c, a, b, i, k)
  BY DEF begun, CarouselType, SlidTo
<1> QED  BY <1>10, <1>11

LEMMA LightsFacts ==
  /\ LightsFirst(Append(<<>>, <<"indicator">>))
  /\ \A q \in Seq(Handlers), p \in C!Items :
       LightsFirst(q) => LightsFirst(Append(q, <<"to", p>>))
<1>1. LightsFirst(Append(<<>>, <<"indicator">>))
  <2>1. <<>> \in Seq(Handlers) /\ Len(<<>>) = 0
    BY EmptySeq
  <2> DEFINE e == <<"indicator">>
             q == Append(<<>>, e)
  <2>2. e \in Handlers
    BY HandlersFacts
  <2> HIDE DEF e
  <2>3. q # <<>> /\ Len(q) = 1 /\ q[1] = e
    BY <2>1, <2>2
  <2> HIDE DEF q
  <2>4. 2..1 = {}
    OBVIOUS
  <2> QED  BY <2>3, <2>4 DEF LightsFirst, q, e
<1>2. ASSUME NEW q \in Seq(Handlers), NEW p \in C!Items, LightsFirst(q)
      PROVE  LightsFirst(Append(q, <<"to", p>>))
  <2> DEFINE h == <<"to", p>>
             r == Append(q, h)
  <2>1. h \in Handlers /\ h # <<"indicator">>
    BY HandlersFacts
  <2> HIDE DEF h, Handlers
  <2>2. /\ Len(q) \in Nat /\ q # <<>> /\ Len(r) = Len(q) + 1 /\ r # <<>>
        /\ \A i \in 1..Len(q) : r[i] = q[i]
        /\ r[Len(q) + 1] = h
    BY <1>2, <2>1 DEF LightsFirst
  <2>3. Len(q) # 0
    BY <2>2, EmptySeq
  <2> HIDE DEF r
  <2>4. r[1] = q[1] /\ \A i \in 2..Len(r) : i \in 2..Len(q) \/ i = Len(q) + 1
    BY <2>2, <2>3
  <2>5. \A i \in 2..Len(q) : r[i] = q[i] /\ q[i] # <<"indicator">>
    BY <1>2, <2>2 DEF LightsFirst
  <2>6. r # <<>> /\ r[1] = <<"indicator">>
    BY <1>2, <2>2, <2>4 DEF LightsFirst
  <2>7. \A i \in 2..Len(r) : r[i] # <<"indicator">>
    BY <2>1, <2>2, <2>4, <2>5
  <2> QED  BY <2>6, <2>7 DEF LightsFirst, h, r
<1> QED  BY <1>1, <1>2

\* A slide from a still carousel.
LEMMA SlideToSound ==
  ASSUME NEW c, CarouselSound(c), ~c.sliding, NEW b \in C!Items
  PROVE  /\ CarouselSound(C!SlideTo(c, b))
         /\ c.overlapped => C!SlideTo(c, b).overlapped
<1>1. c \in CarouselType /\ Poised(c)
  BY DEF CarouselSound, Poised
<1>2. PICK a \in C!Items : c.active = {a} /\ Still(c)
  BY <1>1 DEF Poised, Slides
<1>3. CASE b = a
  <2>1. C!SlideTo(c, b) = [c EXCEPT !.sliding = FALSE]
    BY <1>2, <1>3 DEF C!SlideTo
  <2>2. C!SlideTo(c, b) = c
    BY <1>1, <2>1 DEF CarouselType
  <2> QED  BY <2>2
<1>4. CASE b # a
  <2> DEFINE r == C!SlideTo(c, b)
             q == Append(c.onSlid, <<"indicator">>)
  <2>1. PICK i, p \in BOOLEAN : (i => c.interval) /\ r = SlidTo(c, a, b, i, p)
    BY <1>1, <1>2, <1>4, SlideToFacts
  <2> HIDE DEF r
  <2>2. q \in Seq(Handlers) /\ <<>> \in Seq(Handlers)
    <3>1. c.onSlid \in Seq(Handlers)
      BY <1>1 DEF CarouselType
    <3> QED  BY <3>1, HandlersFacts, EmptySeq, AppendProperties
  <2>3. OneSlide(a, b) \in [C!Items -> Seq(C!Items \X C!Items)]
    BY OneSlideFacts
  <2>4. c.slidDue \in Nat /\ (c.slidDue = 0 => c.onSlid = <<>>)
    BY <1>1, <1>2 DEF Poised, Still, CarouselType
  <2>5. CASE c.css
    <3>1. /\ r.sliding /\ r.indicator = {} /\ r.onSlid = q /\ r.pending = OneSlide(a, b)
          /\ r.overlapped = (c.overlapped \/ c.slidDue > 0) /\ r.interval = i
          /\ r.css /\ r.active = {a} /\ r.slidDue = c.slidDue
          /\ r.hover = c.hover /\ r.restarted = c.restarted
      BY <1>1, <1>2, <2>1, <2>5 DEF SlidTo, CarouselType
    <3>2. r \in CarouselType
      <4>1. r = [c EXCEPT !.sliding = TRUE, !.indicator = {}, !.onSlid = q,
                          !.overlapped = c.overlapped \/ c.slidDue > 0,
                          !.pending = OneSlide(a, b), !.interval = i, !.paused = p]
        BY <2>1, <2>5 DEF SlidTo
      <4> DEFINE o == c.overlapped \/ c.slidDue > 0
                 s == OneSlide(a, b)
      <4>2. o \in BOOLEAN /\ {} \in SUBSET C!Items
        OBVIOUS
      <4> HIDE DEF q, Handlers, o, s
      <4>3. r = [c EXCEPT !.sliding = TRUE, !.indicator = {}, !.onSlid = q, !.overlapped = o,
                          !.pending = s, !.interval = i, !.paused = p]
        BY <4>1 DEF o, s
      <4>4. s \in [C!Items -> Seq(C!Items \X C!Items)]
        BY <2>3 DEF s
      <4> DEFINE e == [c EXCEPT !.sliding = TRUE, !.indicator = {}, !.onSlid = q, !.overlapped = o]
      <4>5. e \in CarouselType
        BY <1>1, <2>2, <4>2 DEF CarouselType
      <4>6. r = [e EXCEPT !.pending = s, !.interval = i, !.paused = p]
        BY <4>3
      <4> HIDE DEF e
      <4> QED  BY <2>1, <4>4, <4>5, <4>6 DEF CarouselType
    <3>3. Slides(r, a)
      BY <1>4, <3>1 DEF Slides
    <3>4. Poised(r)
      BY <1>1, <2>1, <3>1, <3>2, <3>3 DEF Poised
    <3>5. ~r.overlapped => c.slidDue = 0 /\ r.onSlid = Append(<<>>, <<"indicator">>)
      <4>1. SUFFICES ASSUME ~r.overlapped
                     PROVE  c.slidDue = 0 /\ r.onSlid = Append(<<>>, <<"indicator">>)
        OBVIOUS
      <4>2. ~(c.slidDue > 0)
        BY <3>1, <4>1
      <4>3. c.slidDue = 0 /\ c.onSlid = <<>>
        BY <2>4, <4>2
      <4> QED  BY <3>1, <4>3
    <3>6. ~r.overlapped => Lit(r)
      BY <3>1, <3>5, LightsFacts DEF Lit
    <3> QED  BY <3>1, <3>4, <3>6 DEF CarouselSound, r
  <2>6. CASE ~c.css
    <3>1. /\ ~r.sliding /\ r.indicator = {b} /\ r.onSlid = <<>> /\ r.pending = NoSlide
          /\ r.overlapped = (c.overlapped \/ c.slidDue > 0) /\ r.interval = i
          /\ ~r.css /\ r.active = {b} /\ r.slidDue = c.slidDue
          /\ r.hover = c.hover /\ r.restarted = c.restarted
      BY <1>1, <1>2, <2>1, <2>6 DEF SlidTo, CarouselType, Still
    <3>2. r \in CarouselType
      BY <1>1, <2>1, <2>2, <2>6 DEF SlidTo, CarouselType
    <3>3. c.slidDue = 0
      BY <1>1, <2>6 DEF Poised
    <3>4. Poised(r)
      BY <1>1, <2>1, <3>1, <3>2, <3>3 DEF Poised, Still
    <3>5. Lit(r)
      BY <3>1, <3>3 DEF Lit
    <3> QED  BY <3>1, <3>4, <3>5 DEF CarouselSound, r
  <2> QED  BY <2>5, <2>6
<1> QED  BY <1>3, <1>4

\* pause().cycle() starts the clock, under the mouse too, and says so.
LEMMA RestartSound ==
  ASSUME NEW c, CarouselSound(c)
  PROVE  CarouselSound(C!Restart(c)) /\ C!Restart(c).overlapped = c.overlapped
<1>1. c \in CarouselType /\ Poised(c)
  BY DEF CarouselSound, Poised
<1> DEFINE r == C!Restart(c)
<1>2. r = [c EXCEPT !.paused = FALSE, !.interval = c.auto, !.restarted = c.hover]
  BY <1>1 DEF C!Restart, C!Cycle, C!Pause, CarouselType
<1>3. /\ r \in CarouselType /\ r.active = c.active /\ r.sliding = c.sliding
      /\ r.css = c.css /\ r.pending = c.pending /\ r.hover = c.hover /\ r.restarted = c.hover
      /\ r.onSlid = c.onSlid /\ r.slidDue = c.slidDue /\ r.overlapped = c.overlapped
      /\ r.indicator = c.indicator
  <2> HIDE DEF r
  <2> QED  BY <1>1, <1>2 DEF CarouselType
<1> HIDE DEF r
<1>4. Poised(r)
  BY <1>1, <1>3 DEF Poised, Still, Slides
<1>5. Lit(c) => Lit(r)
  BY <1>3 DEF Lit
<1> QED  BY <1>3, <1>4, <1>5 DEF CarouselSound, r

LEMMA ToSound ==
  ASSUME NEW c, CarouselSound(c), NEW b \in C!Items
  PROVE  /\ CarouselSound(C!To(c, b))
         /\ c.overlapped => C!To(c, b).overlapped
<1>1. CASE c.sliding
  <2> DEFINE q == Append(c.onSlid, <<"to", b>>)
             r == [c EXCEPT !.onSlid = q]
  <2>1. c \in CarouselType /\ Poised(c) /\ c.onSlid \in Seq(Handlers)
    BY DEF CarouselSound, Poised, CarouselType
  <2>2. q \in Seq(Handlers)
    BY <2>1, HandlersFacts, AppendProperties
  <2>3. C!To(c, b) = r
    BY <1>1 DEF C!To
  <2>4. LightsFirst(c.onSlid) => LightsFirst(q)
    BY <2>1, LightsFacts
  <2> HIDE DEF q, Handlers
  <2>5. /\ r \in CarouselType /\ r.active = c.active /\ r.sliding = c.sliding
        /\ r.css = c.css /\ r.pending = c.pending /\ r.hover = c.hover /\ r.restarted = c.restarted
        /\ r.onSlid = q /\ r.slidDue = c.slidDue /\ r.overlapped = c.overlapped
        /\ r.indicator = c.indicator /\ r.interval = c.interval
    BY <2>1, <2>2 DEF CarouselType
  <2> HIDE DEF r
  <2>6. Poised(r)
    BY <1>1, <2>1, <2>5 DEF Poised, Still, Slides
  <2>7. Lit(c) => Lit(r)
    BY <1>1, <2>4, <2>5 DEF Lit
  <2> QED  BY <2>3, <2>5, <2>6, <2>7 DEF CarouselSound
<1>2. CASE ~c.sliding /\ b \in c.active
  BY <1>2, RestartSound DEF C!To
<1>3. CASE ~c.sliding /\ b \notin c.active
  BY <1>3, SlideToSound DEF C!To
<1> QED  BY <1>1, <1>2, <1>3

LEMMA StepSound ==
  ASSUME NEW c, CarouselSound(c), NEW type \in {"next", "prev"}
  PROVE  CarouselSound(C!Step(c, type))
<1>1. PICK a \in C!Items : c.active = {a}
  BY DEF CarouselSound, Poised
<1>2. C!Towards(c, type) = {} \/ \E b \in C!Items : C!Towards(c, type) = {b}
  <2>1. C!ActiveItem(c) = a
    BY <1>1, ActiveFacts
  <2>2. Length \in Nat \ {0} /\ a \in Nat /\ 1 <= a /\ a <= Length
    BY PageAssumption DEF C!Items
  <2>3. /\ a < Length => a + 1 \in C!Items
        /\ a > 1 => a - 1 \in C!Items
        /\ 1 \in C!Items /\ Length \in C!Items
    BY <2>2 DEF C!Items
  <2>4. "next" # "prev"
    OBVIOUS
  <2>5. CASE type = "next" /\ a < Length
    BY <2>1, <2>2, <2>3, <2>4, <2>5 DEF C!Towards
  <2>6. CASE type = "next" /\ a = Length
    BY <2>1, <2>2, <2>3, <2>4, <2>6 DEF C!Towards
  <2>7. CASE type = "prev" /\ a > 1
    BY <2>1, <2>2, <2>3, <2>4, <2>7 DEF C!Towards
  <2>8. CASE type = "prev" /\ a = 1
    BY <2>1, <2>2, <2>3, <2>4, <2>8 DEF C!Towards
  <2> QED  BY <2>2, <2>5, <2>6, <2>7, <2>8
<1>3. CASE c.sliding \/ C!Towards(c, type) = {}
  BY <1>3 DEF C!Step
<1>4. CASE ~c.sliding /\ C!Towards(c, type) # {}
  <2>1. PICK b \in C!Items : C!Towards(c, type) = {b}
    BY <1>2, <1>4
  <2>2. (CHOOSE i \in {b} : TRUE) = b
    OBVIOUS
  <2>3. C!Step(c, type) = C!SlideTo(c, b)
    BY <1>4, <2>1, <2>2 DEF C!Step
  <2> QED  BY <1>4, <2>3, SlideToSound
<1> QED  BY <1>3, <1>4

\* The handlers of a slid event.
LEMMA RunSlidSound ==
  ASSUME NEW c, CarouselSound(c), NEW h \in Handlers,
         h # <<"indicator">> \/ c.overlapped
  PROVE  /\ CarouselSound(C!RunSlid(c, h))
         /\ c.overlapped => C!RunSlid(c, h).overlapped
<1>1. CASE h = <<"indicator">>
  <2> DEFINE r == C!ShowIndicator(c)
  <2>1. PICK a \in C!Items : c.active = {a}
    BY DEF CarouselSound, Poised
  <2>2. r = [c EXCEPT !.indicator = @ \union {a}]
    BY <2>1, ActiveFacts DEF C!ShowIndicator
  <2>3. c \in CarouselType /\ Poised(c)
    BY DEF CarouselSound, Poised
  <2> HIDE DEF r
  <2>4. /\ r \in CarouselType /\ r.active = c.active /\ r.sliding = c.sliding
        /\ r.css = c.css /\ r.pending = c.pending /\ r.hover = c.hover /\ r.restarted = c.restarted
        /\ r.onSlid = c.onSlid /\ r.slidDue = c.slidDue /\ r.overlapped = c.overlapped
        /\ r.interval = c.interval
    BY <2>2, <2>3 DEF CarouselType
  <2>5. Poised(r)
    BY <2>3, <2>4 DEF Poised, Still, Slides
  <2>6. C!RunSlid(c, h) = r
    BY <1>1, HandlersFacts DEF C!RunSlid, r
  <2> QED  BY <1>1, <2>4, <2>5, <2>6 DEF CarouselSound
<1>2. CASE h # <<"indicator">>
  <2>1. PICK b \in C!Items : h = <<"to", b>>
    BY <1>2, HandlersFacts
  <2>2. h[1] # "indicator" /\ h[2] = b
    BY <2>1, HandlersFacts
  <2>3. C!RunSlid(c, h) = C!To(c, b)
    BY <2>2 DEF C!RunSlid
  <2> QED  BY <2>3, ToSound
<1> QED  BY <1>1, <1>2

LEMMA SlidSound ==
  ASSUME CarouselSound(carousel), C!Slid
  PROVE  CarouselSound(carousel')
<1> DEFINE base == [carousel EXCEPT !.slidDue = @ - 1, !.onSlid = <<>>]
           q == carousel.onSlid
           n == Len(q)
           over == carousel.overlapped
           m == IF over THEN 0 ELSE 1
<1>1. /\ carousel \in CarouselType /\ Poised(carousel)
      /\ carousel.slidDue \in Nat /\ carousel.slidDue > 0 /\ q \in Seq(Handlers)
      /\ carousel' = C!FoldLeft(C!RunSlid, base, q)
  BY DEF C!Slid, CarouselSound, Poised, CarouselType
<1>2. n \in Nat /\ DOMAIN q = 1..n /\ \A k \in 1..n : q[k] \in Handlers
  BY <1>1
<1>3. PICK it : /\ it[0] = base
                /\ \A k \in 1..n : it[k] = C!RunSlid(it[k - 1], q[k])
                /\ it[n] = C!FoldLeft(C!RunSlid, base, q)
  BY <1>2, SlidFold
<1>4. /\ base \in CarouselType /\ base.slidDue = carousel.slidDue - 1 /\ base.onSlid = <<>>
      /\ base.active = carousel.active /\ base.sliding = carousel.sliding
      /\ base.css = carousel.css /\ base.pending = carousel.pending
      /\ base.hover = carousel.hover /\ base.restarted = carousel.restarted
      /\ base.interval = carousel.interval /\ base.overlapped = over
      /\ base.indicator = carousel.indicator
  <2>1. <<>> \in Seq(Handlers)
    BY EmptySeq
  <2> DEFINE d == carousel.slidDue - 1
  <2>2. d \in Nat
    BY <1>1
  <2> HIDE DEF Handlers, q, n, d
  <2>3. base = [carousel EXCEPT !.slidDue = d, !.onSlid = <<>>]
    BY DEF d
  <2> HIDE DEF base
  <2>4. base \in CarouselType /\ base.slidDue = d /\ base.onSlid = <<>>
    BY <1>1, <2>1, <2>2, <2>3 DEF CarouselType
  <2> QED  BY <1>1, <2>3, <2>4 DEF CarouselType, d
<1> HIDE DEF base, q, n, over
<1>5. Poised(base)
  BY <1>1, <1>4 DEF Poised, Still, Slides
<1> DEFINE Good(k) == CarouselSound(it[k]) /\ (over => it[k].overlapped)
<1>6. m \in 0..n /\ Good(m)
  <2>1. CASE over
    <3>1. CarouselSound(base) /\ base.overlapped
      BY <1>4, <1>5, <2>1 DEF CarouselSound
    <3> QED  BY <1>2, <1>3, <2>1, <3>1
  <2>2. CASE ~over
    <3>1. Lit(carousel)
      BY <2>2 DEF CarouselSound, over
    <3>2. ~carousel.sliding /\ carousel.slidDue = 1 /\ carousel.indicator = {} /\ LightsFirst(q)
      BY <1>1, <3>1 DEF Lit, q
    <3>3. n # 0 /\ 1 \in 1..n /\ q[1] = <<"indicator">>
      BY <1>1, <1>2, <3>2, EmptySeq DEF LightsFirst, n, q
    <3>4. it[1] = C!RunSlid(base, q[1])
      <4>1. it[1] = C!RunSlid(it[1 - 1], q[1]) /\ 1 - 1 = 0
        BY <1>3, <3>3
      <4> QED  BY <1>3, <4>1
    <3> DEFINE r == C!ShowIndicator(base)
    <3>5. it[1] = r
      BY <3>3, <3>4, HandlersFacts DEF C!RunSlid
    <3>6. PICK a \in C!Items : base.active = {a} /\ (Still(base) \/ Slides(base, a))
      BY <1>5 DEF Poised
    <3>7. r = [base EXCEPT !.indicator = {a}]
      <4>1. {} \union {a} = {a}
        OBVIOUS
      <4> QED  BY <1>4, <3>2, <3>6, <4>1, ActiveFacts DEF C!ShowIndicator
    <3> HIDE DEF r
    <3>8. /\ r \in CarouselType /\ r.active = {a} /\ r.sliding = base.sliding
          /\ r.css = base.css /\ r.pending = base.pending
          /\ r.hover = base.hover /\ r.restarted = base.restarted
          /\ r.onSlid = base.onSlid /\ r.slidDue = base.slidDue /\ r.overlapped = base.overlapped
          /\ r.indicator = {a} /\ r.interval = base.interval
      BY <1>4, <3>6, <3>7 DEF CarouselType
    <3>9. Poised(r)
      BY <1>5, <3>6, <3>8 DEF Poised, Still, Slides
    <3>10. Lit(r)
      BY <1>4, <3>2, <3>8 DEF Lit
    <3> QED  BY <1>2, <2>2, <3>3, <3>5, <3>9, <3>10 DEF CarouselSound
  <2> QED  BY <2>1, <2>2
<1>7. ASSUME NEW k \in m..n - 1, Good(k)
      PROVE  Good(k + 1)
  <2>1. k + 1 \in 1..n /\ (k + 1) - 1 = k /\ (k + 1 = 1 => over)
    BY <1>2
  <2>2. it[k + 1] = C!RunSlid(it[k], q[k + 1])
    BY <1>3, <2>1
  <2>3. q[k + 1] \in Handlers
    BY <1>2, <2>1
  <2>4. q[k + 1] # <<"indicator">> \/ it[k].overlapped
    <3>1. CASE over
      BY <1>7, <3>1
    <3>2. CASE ~over
      <4>1. LightsFirst(q)
        BY <1>1, <3>2 DEF CarouselSound, Lit, over, q
      <4>2. k + 1 \in 2..Len(q)
        BY <1>2, <2>1, <3>2 DEF n
      <4> QED  BY <4>1, <4>2 DEF LightsFirst
    <3> QED  BY <3>1, <3>2
  <2> QED  BY <1>7, <2>2, <2>3, <2>4, RunSlidSound
<1>8. Good(n)
  <2> DEFINE X == {k \in m..n : ~Good(k)}
  <2> HIDE DEF Good
  <2>1. X \in SUBSET Nat /\ m \in Nat /\ m <= n
    BY <1>2, <1>6
  <2>2. ASSUME X # {}
        PROVE  FALSE
    <3>1. PICK k \in X : \A j \in X : k <= j
      BY <2>1, <2>2, LeastOfSet
    <3>2. k \in m..n /\ k # m /\ ~Good(k)
      BY <1>6, <3>1
    <3>3. k - 1 \in m..n - 1 /\ k - 1 \in m..n /\ ~(k <= k - 1) /\ (k - 1) + 1 = k
      BY <1>2, <2>1, <3>2
    <3>4. Good(k - 1)
      BY <3>1, <3>3
    <3>5. Good((k - 1) + 1)
      BY <1>7, <3>3, <3>4
    <3> QED  BY <3>2, <3>3, <3>5
  <2>3. n \in m..n
    BY <1>2, <2>1
  <2> QED  BY <2>2, <2>3
<1> QED  BY <1>1, <1>3, <1>8

\* The end of a transition for which one callback was armed.
LEMMA SlideEnded ==
  ASSUME NEW w, NEW el, NEW c, w.pending[el] = <<c>>
  PROVE  C!Ended(w, el, C!Run) = C!Run([w EXCEPT !.pending = C!Disarm(@, {el})], c)
<1> DEFINE base == [w EXCEPT !.pending = C!Disarm(@, {el})]
           step(g) == [s \in SUBSET {1} |->
             IF s = {} THEN base ELSE C!Run(g[s \ {C!Max(s)}], <<c>>[C!Max(s)])]
           g0 == [s \in SUBSET {1} |-> IF s = {} THEN base ELSE C!Run(base, c)]
           it == CHOOSE it : it = step(it)
<1> HIDE DEF base
<1>1. C!Max({1}) = 1
  BY DEF C!Max
<1>2. \A s \in SUBSET {1} : s # {} => s = {1}
  OBVIOUS
<1>3. g0 = step(g0)
  <2>1. \A s \in SUBSET {1} : s # {} => s \ {C!Max(s)} = {} /\ <<c>>[C!Max(s)] = c
    BY <1>1, <1>2
  <2>2. \A s \in SUBSET {1} : s # {} => g0[s \ {C!Max(s)}] = base
    BY <2>1
  <2> HIDE DEF g0
  <2>3. g0 = [s \in SUBSET {1} |-> g0[s]]
    BY DEF g0
  <2>4. \A s \in SUBSET {1} :
          g0[s] = IF s = {} THEN base ELSE C!Run(g0[s \ {C!Max(s)}], <<c>>[C!Max(s)])
    BY <2>1, <2>2 DEF g0
  <2> QED  BY <2>3, <2>4
<1>4. it = step(it)
  BY <1>3
<1> HIDE DEF it
<1>5. it[{1}] = C!Run(it[{}], c) /\ it[{}] = base
  <2>1. {} \in SUBSET {1} /\ {1} \in SUBSET {1} /\ {1} # {} /\ {1} \ {1} = {} /\ <<c>>[1] = c
    OBVIOUS
  <2>2. \A s \in SUBSET {1} :
          it[s] = IF s = {} THEN base ELSE C!Run(it[s \ {C!Max(s)}], <<c>>[C!Max(s)])
    BY <1>4
  <2> QED  BY <1>1, <2>1, <2>2
<1>6. C!FoldLeft(C!Run, base, <<c>>) = it[{1}]
  <2>1. DOMAIN <<c>> = {1}
    OBVIOUS
  <2> QED  BY <2>1 DEF C!FoldLeft, C!MapThenFoldSet, it
<1>7. C!Ended(w, el, C!Run) = C!FoldLeft(C!Run, base, <<c>>)
  BY DEF C!Ended, base
<1> QED  BY <1>5, <1>6, <1>7 DEF base

LEMMA CarouselEnds ==
  ASSUME CarouselSound(carousel), NEW i \in C!Items, C!TransitionEnds(i)
  PROVE  CarouselSound(carousel')
<1>1. carousel \in CarouselType /\ Poised(carousel)
  BY DEF CarouselSound, Poised
<1>2. PICK a \in C!Items : carousel.active = {a} /\ (Still(carousel) \/ Slides(carousel, a))
  BY <1>1 DEF Poised
<1>3. carousel.pending[i] # <<>> /\ carousel' = C!Ended(carousel, i, C!Run)
  BY DEF C!TransitionEnds
<1>4. Slides(carousel, a)
  BY <1>2, <1>3 DEF Still, NoSlide
<1>5. PICK b \in C!Items \ {a} : carousel.pending = OneSlide(a, b)
  BY <1>4 DEF Slides
<1>6. i = a /\ carousel.pending[a] = << <<a, b>> >>
  BY <1>3, <1>5 DEF OneSlide
<1> DEFINE w == [carousel EXCEPT !.pending = C!Disarm(@, {a})]
           r == [carousel EXCEPT !.active = {b}, !.sliding = FALSE, !.pending = NoSlide,
                                 !.slidDue = @ + 1]
<1>7. carousel' = C!Run(w, <<a, b>>)
  <2> DEFINE d == <<a, b>>
  <2>1. carousel.pending[i] = <<d>>
    BY <1>6
  <2> HIDE DEF d
  <2>2. C!Ended(carousel, i, C!Run) = C!Run([carousel EXCEPT !.pending = C!Disarm(@, {i})], d)
    BY <2>1, SlideEnded
  <2> QED  BY <1>3, <1>6, <2>2 DEF d
<1>8. C!Disarm(carousel.pending, {a}) = NoSlide
  BY <1>5 DEF C!Disarm, OneSlide, NoSlide
<1>9. carousel' = r
  <2>1. w = [carousel EXCEPT !.pending = NoSlide]
    BY <1>8
  <2>2. <<a, b>>[1] = a /\ <<a, b>>[2] = b /\ ({a} \union {b}) \ {a} = {b}
    BY <1>5
  <2> HIDE DEF w
  <2>3. carousel' = [C!Moved(w, a, b) EXCEPT !.slidDue = @ + 1]
    BY <1>7, <2>2 DEF C!Run
  <2> QED  BY <1>1, <1>2, <2>1, <2>2, <2>3 DEF C!Moved, CarouselType
<1>10. NoSlide \in [C!Items -> Seq(C!Items \X C!Items)]
  <2>1. <<>> \in Seq(C!Items \X C!Items)
    BY EmptySeq
  <2> QED  BY <2>1 DEF NoSlide
<1>11. /\ r \in CarouselType /\ r.active = {b} /\ ~r.sliding /\ r.pending = NoSlide
       /\ r.css = carousel.css /\ r.hover = carousel.hover /\ r.restarted = carousel.restarted
       /\ r.onSlid = carousel.onSlid /\ r.slidDue = carousel.slidDue + 1
       /\ r.overlapped = carousel.overlapped
       /\ r.indicator = carousel.indicator /\ r.interval = carousel.interval
  <2> DEFINE d == carousel.slidDue + 1
  <2>1. d \in Nat
    BY <1>1 DEF CarouselType
  <2>2. r = [carousel EXCEPT !.active = {b}, !.sliding = FALSE, !.pending = NoSlide,
                             !.slidDue = d]
    OBVIOUS
  <2> HIDE DEF Handlers, d, r
  <2>3. r \in CarouselType /\ r.slidDue = d
    BY <1>1, <1>5, <1>10, <2>1, <2>2 DEF CarouselType
  <2> QED  BY <1>1, <2>2, <2>3 DEF CarouselType, d
<1> HIDE DEF r
<1>12. carousel.slidDue \in Nat
  BY <1>1 DEF CarouselType
<1>13. Poised(r)
  BY <1>1, <1>4, <1>5, <1>11, <1>12 DEF Poised, Still, Slides
<1>14. Lit(carousel) => Lit(r)
  BY <1>4, <1>11, <1>12 DEF Lit, Slides
<1> QED  BY <1>9, <1>11, <1>13, <1>14 DEF CarouselSound

LEMMA CarouselInit == C!Init => CarouselInv
<1> SUFFICES ASSUME C!Init
             PROVE  CarouselInv
  OBVIOUS
<1>1. PICK css, wrap, auto \in BOOLEAN :
        carousel = [css |-> css, wrap |-> wrap, auto |-> auto, active |-> {1}, indicator |-> {1},
                    sliding |-> FALSE, interval |-> FALSE, paused |-> FALSE, slidDue |-> 0,
                    onSlid |-> <<>>, overlapped |-> FALSE,
                    hover |-> FALSE, restarted |-> FALSE,
                    pending |-> NoSlide]
  BY DEF C!Init, C!NoneAwaited, NoSlide
<1>2. 1 \in C!Items
  BY PageAssumption DEF C!Items
<1>3. NoSlide \in [C!Items -> Seq(C!Items \X C!Items)] /\ <<>> \in Seq(Handlers)
  <2>1. <<>> \in Seq(C!Items \X C!Items)
    BY EmptySeq
  <2> QED  BY <2>1, EmptySeq DEF NoSlide
<1>4. carousel \in CarouselType
  <2> HIDE DEF Handlers
  <2> QED  BY <1>1, <1>2, <1>3 DEF CarouselType
<1> QED  BY <1>1, <1>2, <1>4 DEF CarouselInv, CarouselSound, Poised, Lit, Still

\* The mouse stops the clock and lets it go on.
LEMMA CarouselMouse ==
  ASSUME CarouselSound(carousel), C!MouseEnter \/ C!MouseLeave
  PROVE  CarouselSound(carousel')
<1> DEFINE r == carousel'
<1>1. carousel \in CarouselType /\ Poised(carousel)
  BY DEF CarouselSound, Poised
<1>2. /\ r \in CarouselType /\ r.active = carousel.active /\ r.sliding = carousel.sliding
      /\ r.css = carousel.css /\ r.pending = carousel.pending
      /\ r.onSlid = carousel.onSlid /\ r.slidDue = carousel.slidDue
      /\ r.overlapped = carousel.overlapped /\ r.indicator = carousel.indicator
      /\ r.hover => ~r.interval
  <2>1. CASE C!MouseEnter
    <3>1. r = [carousel EXCEPT !.paused = @ \/ ~TRUE, !.interval = FALSE,
                               !.hover = TRUE, !.restarted = FALSE]
      BY <1>1, <2>1 DEF C!MouseEnter, C!Pause, CarouselType
    <3> HIDE DEF r
    <3> QED  BY <1>1, <3>1 DEF CarouselType
  <2>2. CASE C!MouseLeave
    <3>1. PICK i, p \in BOOLEAN : C!Cycle(carousel, TRUE) = [carousel EXCEPT !.interval = i, !.paused = p]
      BY <1>1, CycleFacts
    <3>2. r = [carousel EXCEPT !.interval = i, !.paused = p, !.hover = FALSE]
      BY <1>1, <2>2, <3>1 DEF C!MouseLeave
    <3> HIDE DEF r
    <3> QED  BY <1>1, <3>2 DEF CarouselType
  <2> QED  BY <2>1, <2>2
<1> HIDE DEF r
<1>3. Poised(r)
  BY <1>1, <1>2 DEF Poised, Still, Slides
<1>4. Lit(carousel) => Lit(r)
  BY <1>2 DEF Lit
<1> QED  BY <1>2, <1>3, <1>4 DEF CarouselSound, r

LEMMA CarouselNext == CarouselInv /\ C!Next => CarouselInv'
<1> SUFFICES ASSUME CarouselSound(carousel), C!Next
             PROVE  CarouselSound(carousel')
  BY DEF CarouselInv
<1>1. CASE C!NextItem \/ C!PrevItem
  BY <1>1, StepSound DEF C!NextItem, C!PrevItem
<1>2. CASE C!Slid
  BY <1>2, SlidSound
<1>3. ASSUME NEW i \in C!Items, C!IndicatorClick(i)
      PROVE  CarouselSound(carousel')
  BY <1>3, ToSound DEF C!IndicatorClick
<1>4. ASSUME NEW i \in C!Items, C!TransitionEnds(i)
      PROVE  CarouselSound(carousel')
  BY <1>4, CarouselEnds
<1>5. CASE C!MouseEnter \/ C!MouseLeave
  BY <1>5, CarouselMouse
<1>6. CASE C!StartCycling
  BY <1>6, RestartSound DEF C!StartCycling
<1> QED  BY <1>1, <1>2, <1>3, <1>4, <1>5, <1>6 DEF C!Next

LEMMA CarouselSafe == CarouselInv => C!CarouselSettled
<1> SUFFICES ASSUME CarouselSound(carousel)
             PROVE  C!CarouselSettled
  BY DEF CarouselInv
<1>1. carousel \in CarouselType /\ Poised(carousel)
  BY DEF CarouselSound, Poised
<1>2. PICK a \in C!Items : carousel.active = {a} /\ (Still(carousel) \/ Slides(carousel, a))
  BY <1>1 DEF Poised
<1>3. C!Cardinality({a}) = 1
  <2>1. C!Cardinality({a}) = Cardinality({a})
    BY DEF C!Cardinality, Cardinality
  <2> QED  BY <2>1, FS_Singleton
<1>4. ASSUME C!Quiet(carousel.pending), carousel.slidDue = 0
      PROVE  /\ ~carousel.sliding /\ carousel.onSlid = <<>>
             /\ ~carousel.overlapped => carousel.indicator = carousel.active
  <2>1. Still(carousel)
    <3>1. CASE Slides(carousel, a)
      <4>1. PICK b \in C!Items \ {a} : carousel.pending = OneSlide(a, b)
        BY <3>1 DEF Slides
      <4>2. carousel.pending[a] # <<>> /\ a \in DOMAIN carousel.pending
        BY <4>1 DEF OneSlide
      <4> QED  BY <1>4, <4>2 DEF C!Quiet
    <3> QED  BY <1>2, <3>1
  <2>2. ~carousel.sliding /\ carousel.onSlid = <<>>
    BY <1>1, <1>4, <2>1 DEF Poised, Still
  <2>3. Lit(carousel) => carousel.indicator = carousel.active
    BY <1>4, <2>2 DEF Lit
  <2> QED  BY <2>2, <2>3 DEF CarouselSound
<1>5. carousel.hover /\ ~carousel.restarted => ~carousel.interval
  BY <1>1 DEF Poised
<1> QED  BY <1>2, <1>3, <1>4, <1>5 DEF C!CarouselSettled

-----------------------------------------------------------------------------
(* The page.                                                               *)

\* A page follows one of its parts.
PageInv ==
  /\ DepsInv
  /\ onPage = "modal" => DialogInv
  /\ onPage = "tooltip" => TipInv
  /\ onPage = "carousel" => CarouselInv
  /\ onPage = "collapse" => PanelsInv
  /\ onPage = "tab" => TabInv
  /\ onPage = "dropdown" => MenuInv
  /\ onPage = "scrollspy" => SpyInv
  /\ onPage = "button" => ButtonInv
  /\ onPage = "placement" => PlaceInv

LEMMA PageStart == PageInit => PageInv
<1> SUFFICES ASSUME PageInit
             PROVE  PageInv
  OBVIOUS
<1>1. DepsInv
  BY InitIInv DEF PageInit, Init, DepsInv, Chain, InFlight, DepsFirst
<1>2. /\ onPage = "modal" => DialogInv
      /\ onPage = "tooltip" => TipInv
      /\ onPage = "carousel" => CarouselInv
      /\ onPage = "collapse" => PanelsInv
      /\ onPage = "tab" => TabInv
  BY DialogInit, TipInit, CarouselInit, PanelsInit, TabInit DEF PageInit
<1>3. /\ onPage = "dropdown" => MenuInv
      /\ onPage = "scrollspy" => SpyInv
      /\ onPage = "button" => ButtonInv
      /\ onPage = "placement" => PlaceInv
  BY MenuInit, SpyInit, ButtonInit, PlaceInit DEF PageInit
<1> QED  BY <1>1, <1>2, <1>3 DEF PageInv

\* A page on which nothing happens stays as it is.
LEMMA PageStutters == PageInv /\ UNCHANGED pageVars => PageInv'
<1> SUFFICES ASSUME PageInv, UNCHANGED pageVars
             PROVE  PageInv'
  OBVIOUS
<1>1. DepsInv'
  BY NextDeps DEF PageInv, pageVars
<1>2. /\ onPage' = onPage /\ modal' = modal /\ tip' = tip /\ carousel' = carousel /\ panels' = panels /\ tabs' = tabs
      /\ menus' = menus /\ spy' = spy /\ button' = button /\ place' = place /\ hasty' = hasty
  BY DEF pageVars
<1>3. DialogInv => DialogInv'
  BY <1>2 DEF DialogInv
<1>4. TipInv => TipInv'
  BY <1>2 DEF TipInv
<1>5. CarouselInv => CarouselInv'
  BY <1>2 DEF CarouselInv
<1>6. PanelsInv => PanelsInv'
  BY <1>2 DEF PanelsInv, P!TypeOK, PanelsAgree, Opened
<1>7. TabInv => TabInv'
  BY <1>2 DEF TabInv, B!TypeOK, TabSteady, TabFading, B!Visible
<1>8. MenuInv => MenuInv'
  BY <1>2 DEF MenuInv, M!TypeOK
<1>9. SpyInv => SpyInv'
  BY <1>2 DEF SpyInv
<1>10. ButtonInv => ButtonInv'
  BY <1>2 DEF ButtonInv, U!TypeOK
<1>11. PlaceInv => PlaceInv'
  BY <1>2 DEF PlaceInv, W!TypeOK, W!PlacedWithRoom
<1> QED
  BY <1>1, <1>2, <1>3, <1>4, <1>5, <1>6, <1>7, <1>8, <1>9, <1>10, <1>11 DEF PageInv

\* A step of the page is one of the part it follows.
THEOREM PageKept == PageInv /\ [PageNext]_pageVars => PageInv'
<1> SUFFICES ASSUME PageInv, PageNext
             PROVE  PageInv'
  BY PageStutters
<1>1. [Next]_loaderVars /\ onPage' = onPage
  BY DEF PageNext, LoaderStep, ModalStep, TooltipStep, CarouselStep, CollapseStep, TabStep,
         DropdownStep, ScrollSpyStep, ButtonStep, PlacementStep, Select2Step, loaderVars
<1>2. DepsInv'
  BY <1>1, NextDeps DEF PageInv
<1>3. /\ onPage = "modal" => D!Next
      /\ onPage = "tooltip" => T!Next
      /\ onPage = "carousel" => C!Next
      /\ onPage = "collapse" => P!Next
      /\ onPage = "tab" => B!Next
      /\ onPage = "dropdown" => M!Next
      /\ onPage = "scrollspy" => S!Next
      /\ onPage = "button" => U!Next
      /\ onPage = "placement" => W!Next
  BY DEF PageNext, LoaderStep, ModalStep, TooltipStep, CarouselStep, CollapseStep, TabStep,
         DropdownStep, ScrollSpyStep, ButtonStep, PlacementStep, Select2Step
<1>4. /\ onPage = "modal" => DialogInv'
      /\ onPage = "tooltip" => TipInv'
      /\ onPage = "carousel" => CarouselInv'
      /\ onPage = "collapse" => PanelsInv'
      /\ onPage = "tab" => TabInv'
  BY <1>3, DialogNext, TipNext, CarouselNext, PanelsNext, TabNext DEF PageInv
<1>5. /\ onPage = "dropdown" => MenuInv'
      /\ onPage = "scrollspy" => SpyInv'
      /\ onPage = "button" => ButtonInv'
      /\ onPage = "placement" => PlaceInv'
  BY <1>3, MenuNext, SpyNext, ButtonNext, PlaceNext DEF PageInv
<1> QED  BY <1>1, <1>2, <1>4, <1>5 DEF PageInv

\* No factory runs to its end twice, in any behaviour of the loader.
THEOREM FactoryRunsOnce == PageSpec => []FactoryOnce
<1>1. PageInv => FactoryOnce
  <2>1. DepsInv => \A m \in Module : ran[m] \in {0, 1}
    BY DEF DepsInv, IInv, Counted
  <2> QED  BY <2>1 DEF PageInv, FactoryOnce
<1> QED  BY <1>1, PageStart, PageKept, PTL DEF PageSpec

\* Whatever the scripts define and require, and in any order: while nothing has
\* thrown, only a module that needs the factory's own is handed to the factory
\* before its own factory has returned.
THEOREM DepsCorrect == PageSpec => []DepsFirst
<1>1. PageInv => DepsFirst
  BY DEF PageInv, DepsInv
<1> QED  BY <1>1, PageStart, PageKept, PTL DEF PageSpec

\* A dialog whose transitions are over is all there or all gone: what the user
\* sees, its backdrop, the class of the body and its handlers agree with
\* isShown, if it was not turned round midway.
THEOREM ModalCorrect == PageSpec => []ModalSettled
<1>1. PageInv => ModalSettled
  BY DialogSafe DEF PageInv, ModalSettled
<1> QED  BY <1>1, PageStart, PageKept, PTL DEF PageSpec

\* However its delays, its fades and the page's handler interleave, a tooltip at
\* rest is in the document exactly when the mouse or the focus last entered.
THEOREM TipCorrect == PageSpec => []TipFollows
<1>1. PageInv => TipFollows
  BY TipSafe DEF PageInv, TipFollows
<1> QED  BY <1>1, PageStart, PageKept, PTL DEF PageSpec

\* However clicks, transitions and slid events interleave, a carousel has one
\* active item, at rest serves every click and lights the item's indicator if
\* no slide overtook a slid event, and stands still under the mouse.
THEOREM CarouselCorrect == PageSpec => []CarouselSettled
<1>1. PageInv => CarouselSettled
  BY CarouselSafe DEF PageInv, CarouselSettled
<1> QED  BY <1>1, PageStart, PageKept, PTL DEF PageSpec

\* The panels, tabs, menus, links and buttons of a page, and the dropdown of
\* Select2, show one state at rest, however many there are.
THEOREM ControlsCorrect == PageSpec => []ControlsSettled
<1>1. PageInv => ControlsSettled
  BY PanelsSafe, TabSafe, MenuSafe, SpySafe, ButtonSafe, PlaceSafe
  DEF PageInv, ControlsSettled
<1> QED  BY <1>1, PageStart, PageKept, PTL DEF PageSpec
=============================================================================
