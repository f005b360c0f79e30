------------------------------ MODULE Carousel ------------------------------
(***************************************************************************)
(* A Bootstrap carousel: its items slide one after the other, on a timer,  *)
(* on the arrows, and on the indicators below it.  The event that a slide  *)
(* is over comes from a timeout of its own, after the transition.          *)
(***************************************************************************)
EXTENDS Transitions, FiniteSets

CONSTANTS
  Length,       \* the number of items
  MaxQueued     \* bound on the handlers queued for the slid event

VARIABLE carousel

Items == 1..Length

TypeOK ==
  carousel \in
    [css : BOOLEAN, wrap : BOOLEAN, auto : BOOLEAN,
     active : SUBSET Items, indicator : SUBSET Items,
     sliding : BOOLEAN, interval : BOOLEAN, paused : BOOLEAN,
     slidDue : Nat,                   \* timeouts that will trigger slid
     onSlid : Seq({<<"indicator">>} \union {<<"to", p>> : p \in Items}),
     overlapped : BOOLEAN,            \* a slide began while slid was due
     hover : BOOLEAN, restarted : BOOLEAN,   \* the mouse is over it; restarted since
     pending : [Items -> Seq(Items \X Items)]]

Init ==
  \E css, wrap, auto \in BOOLEAN :
    carousel = [css |-> css, wrap |-> wrap, auto |-> auto, active |-> {1}, indicator |-> {1},
                sliding |-> FALSE, interval |-> FALSE, paused |-> FALSE, slidDue |-> 0,
                onSlid |-> <<>>, overlapped |-> FALSE,
                hover |-> FALSE, restarted |-> FALSE,
                pending |-> NoneAwaited(Items)]

\* Carousel.cycle and pause; byEvent tells a call by a mouse event.
Cycle(c, byEvent) ==
  LET p == c.paused /\ byEvent
  IN [c EXCEPT !.paused = p, !.interval = c.auto /\ ~p]

Pause(c, byEvent) ==
  [c EXCEPT !.paused = @ \/ ~byEvent, !.interval = FALSE]

\* pause().cycle()
Restart(c) == [Cycle(Pause(c, FALSE), FALSE) EXCEPT !.restarted = c.hover]

\* What a slide leaves: the callback of the transition, or at once.
Moved(c, from, to) ==
  [c EXCEPT !.active = (@ \union {to}) \ {from}, !.sliding = FALSE]

\* getActiveIndex(): the first of the active items.
ActiveItem(c) == CHOOSE i \in c.active : \A j \in c.active : i <= j

\* The handlers of the slid event that light the indicator.
ShowIndicator(c) == [c EXCEPT !.indicator = @ \union {ActiveItem(c)}]

\* Carousel.slide towards the item next, the carousel standing still.
SlideTo(c, next) ==
  LET from  == ActiveItem(c)
      begun == [c EXCEPT !.sliding = TRUE, !.indicator = {},
                         !.onSlid = Append(@, <<"indicator">>),
                         !.overlapped = @ \/ c.slidDue > 0]
      timed == IF c.interval THEN Pause(begun, FALSE) ELSE begun
      done  == IF c.css THEN [timed EXCEPT !.pending = Arm(@, from, <<from, next>>)]
               ELSE ShowIndicator([Moved(timed, from, next) EXCEPT !.onSlid = <<>>])
  IN IF next \in c.active THEN [c EXCEPT !.sliding = FALSE]
     ELSE IF c.interval THEN Cycle(done, FALSE) ELSE done

\* The item to the right or to the left, with wrapping around.
Towards(c, type) ==
  LET i == ActiveItem(c)
  IN CASE type = "next" /\ i < Length -> {i + 1}
       [] type = "prev" /\ i > 1      -> {i - 1}
       [] type = "next" /\ i = Length -> IF c.wrap THEN {1} ELSE {}
       [] type = "prev" /\ i = 1      -> IF c.wrap THEN {Length} ELSE {}

\* Variant: next() forgets that a slide is under way.
Step_Anytime(c, type) ==
  IF Towards(c, type) = {} THEN c
  ELSE SlideTo(c, CHOOSE i \in Towards(c, type) : TRUE)

\* Carousel.next and prev
Step(c, type) ==
  IF c.sliding \/ Towards(c, type) = {} THEN c
  ELSE SlideTo(c, CHOOSE i \in Towards(c, type) : TRUE)

\* Carousel.to
To(c, pos) ==
  IF c.sliding THEN [c EXCEPT !.onSlid = Append(@, <<"to", pos>>)]
  ELSE IF pos \in c.active THEN Restart(c)
  ELSE SlideTo(c, pos)

RunSlid(c, handler) ==
  IF handler[1] = "indicator" THEN ShowIndicator(c) ELSE To(c, handler[2])

Run(c, do) == [Moved(c, do[1], do[2]) EXCEPT !.slidDue = @ + 1]

-----------------------------------------------------------------------------
WithinBounds == Len(carousel.onSlid) < MaxQueued /\ carousel.slidDue < MaxQueued

\* The arrows, and the timer of the interval; the indicators; the mouse; a call
\* of carousel({interval: ...}) from a script.
NextItem == WithinBounds /\ carousel' = Step(carousel, "next")
PrevItem == WithinBounds /\ carousel' = Step(carousel, "prev")
IndicatorClick(pos) == WithinBounds /\ carousel' = To(carousel, pos)
MouseEnter == carousel' = [Pause(carousel, TRUE) EXCEPT !.hover = TRUE, !.restarted = FALSE]
MouseLeave == carousel.hover /\ carousel' = [Cycle(carousel, TRUE) EXCEPT !.hover = FALSE]
StartCycling == carousel.auto /\ carousel' = Restart(carousel)

TransitionEnds(i) ==
  /\ carousel.pending[i] # <<>>
  /\ carousel' = Ended(carousel, i, Run)

Slid ==
  /\ carousel.slidDue > 0
  /\ carousel' = FoldLeft(RunSlid,
                          [carousel EXCEPT !.slidDue = @ - 1, !.onSlid = <<>>],
                          carousel.onSlid)

Next ==
  \/ NextItem \/ PrevItem \/ Slid
  \/ \E i \in Items : IndicatorClick(i) \/ TransitionEnds(i)
  \/ MouseEnter \/ MouseLeave \/ StartCycling

\* Exactly one item is active at any time.  Once no slide and no slid event
\* is awaited, no click on an indicator is left unserved, the carousel can
\* slide again, and the indicator lit is that of the active item -- unless a
\* slide began between the end of another and its slid event.  While the mouse
\* is over the carousel its clock stands still, whatever slides begin and end,
\* unless pause().cycle() restarts it.
CarouselSettled ==
  /\ Cardinality(carousel.active) = 1
  /\ carousel.hover /\ ~carousel.restarted => ~carousel.interval
  /\ Quiet(carousel.pending) /\ carousel.slidDue = 0 =>
       /\ ~carousel.sliding
       /\ carousel.onSlid = <<>>
       /\ ~carousel.overlapped => carousel.indicator = carousel.active
=============================================================================
