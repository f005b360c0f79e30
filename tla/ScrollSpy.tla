----------------------------- MODULE ScrollSpy ------------------------------
(***************************************************************************)
(* Bootstrap's scrollspy: as the page scrolls, the link of the section     *)
(* under the top of the window is active.                                  *)
(***************************************************************************)
EXTENDS Naturals, FiniteSetsExt

CONSTANTS
  Sections,      \* how many sections the page has
  Height         \* the positions of the page

VARIABLE spy

Positions == 0..Height
Targets == 1..Sections
NoTarget == 0

\* refresh() sorts the sections by where they begin.  A section other than the
\* first that begins at zero is left out: process() takes it for a missing one.
Layouts ==
  {o \in [Targets -> Positions] :
     \A i \in Targets \ {1} : o[i] >= o[i - 1] /\ o[i] > 0}

TypeOK ==
  spy \in [offsets : Layouts, maxScroll : Positions,
           activeTarget : Targets \union {NoTarget},
           top : Positions,         \* scrollTop and the configured offset
           processed : BOOLEAN]     \* since the offsets were read

\* Where process() finds a section, the page not being at an end.
Covers(w, i) ==
  /\ w.top >= w.offsets[i]
  /\ i = Sections \/ w.offsets[i + 1] = 0 \/ w.top <= w.offsets[i + 1]

\* The loop of process() runs from the last section to the first, compares
\* with the target that was active when it began and activates all it finds.
Found(w) == {i \in Targets \ {w.activeTarget} : Covers(w, i)}

\* ScrollSpy.process
Process(w) ==
  [w EXCEPT !.processed = TRUE,
            !.activeTarget =
              IF w.top >= w.maxScroll THEN Sections
              ELSE IF @ # NoTarget /\ w.top <= w.offsets[1] THEN 1
              ELSE IF Found(w) # {} THEN Min(Found(w)) ELSE @]

Init ==
  \E o \in Layouts, m, t \in Positions :
    spy = Process([offsets |-> o, maxScroll |-> m, activeTarget |-> NoTarget,
                   top |-> t, processed |-> FALSE])

Scroll == \E t \in Positions : spy' = Process([spy EXCEPT !.top = t])

\* ScrollSpy.refresh, after the layout has changed
Refresh ==
  \E o \in Layouts, m \in Positions :
    spy' = [spy EXCEPT !.offsets = o, !.maxScroll = m, !.processed = FALSE]

Next == Scroll \/ Refresh

\* Once the page was scrolled after its layout was read, the active target is
\* the section the position is in, whatever was active before: the last one at
\* the end of the page, at a border either of the two sections that meet, and
\* none only above the first section.
SpyFollows ==
  LET i == spy.activeTarget
  IN spy.processed =>
       IF spy.top >= spy.maxScroll THEN i = Sections
       ELSE IF i = NoTarget THEN spy.top < spy.offsets[1]
       ELSE /\ i > 1 => spy.offsets[i] <= spy.top
            /\ i < Sections => spy.top <= spy.offsets[i + 1]
=============================================================================
