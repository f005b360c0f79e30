---------------------------- MODULE Transitions -----------------------------
(***************************************************************************)
(* CSS transitions as the Bootstrap widgets wait for them.  A callback is  *)
(* armed on an element with one() and emulateTransitionEnd(); the end of   *)
(* the transition, seen by the browser or played by the timer, runs all    *)
(* the callbacks armed on the element, once, in the order in which they    *)
(* were armed.  When the end comes is not told: transitions are cut short, *)
(* prolonged and throttled.                                                *)
(***************************************************************************)
EXTENDS Naturals, Sequences, SequencesExt

\* Which callbacks the elements wait with, each in the order of arming.
NoneAwaited(elements) == [el \in elements |-> <<>>]

Arm(pending, el, do) == [pending EXCEPT ![el] = Append(@, do)]

ArmAll(pending, els, Do(_)) ==
  [el \in DOMAIN pending |->
     IF el \in els THEN Append(pending[el], Do(el)) ELSE pending[el]]

Disarm(pending, els) ==
  [el \in DOMAIN pending |-> IF el \in els THEN <<>> ELSE pending[el]]

Quiet(pending) == \A el \in DOMAIN pending : pending[el] = <<>>

Awaited(pending) == FoldFunction(LAMBDA q, n : Len(q) + n, 0, pending)

\* The widget w after the end of a transition on el; Run(w, do) is what the
\* callback do makes of the widget.
Ended(w, el, Run(_, _)) ==
  FoldLeft(Run, [w EXCEPT !.pending = Disarm(@, {el})], w.pending[el])
=============================================================================
