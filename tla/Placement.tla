----------------------------- MODULE Placement ------------------------------
(***************************************************************************)
(* Where the dropdown of Select2 is put: below its control, or above it    *)
(* when there is room above and none below.  It is placed when it opens,   *)
(* when its results change and when the window scrolls, and remembers the  *)
(* side in a class of its own.                                             *)
(***************************************************************************)
VARIABLE place

TypeOK ==
  place \in [side : {"none", "above", "below"},      \* the class
             top : {"above", "below"},               \* the style
             enoughRoomAbove : BOOLEAN, enoughRoomBelow : BOOLEAN,
             before : {"none", "above", "below"}]    \* the class before

Init ==
  place = [side |-> "none", top |-> "below", enoughRoomAbove |-> TRUE,
           enoughRoomBelow |-> TRUE, before |-> "none"]

\* The new direction, or "none" to leave the classes as they are.
NewDirection(side, above, below) ==
  IF ~below /\ above /\ side # "above" THEN "above"
  ELSE IF ~above /\ below /\ side = "above" THEN "below"
  ELSE IF side = "none" THEN "below" ELSE "none"

\* AttachBody._positionDropdown
PositionDropdown(above, below) ==
  LET new == NewDirection(place.side, above, below)
  IN place' = [side |-> IF new # "none" THEN new ELSE place.side,
               top |-> IF new = "above" \/ (place.side = "above" /\ new # "below")
                       THEN "above" ELSE "below",
               enoughRoomAbove |-> above, enoughRoomBelow |-> below,
               before |-> place.side]

Next == \E above, below \in BOOLEAN : PositionDropdown(above, below)

\* A dropdown with room on one side only is on that side; with room on both or
\* on none it stays where it was, so that it does not jump while the page
\* scrolls; and it is drawn where its class says.
PlacedWithRoom ==
  place.side # "none" =>
    /\ place.top = place.side
    /\ place.enoughRoomAbove /\ ~place.enoughRoomBelow => place.side = "above"
    /\ ~place.enoughRoomAbove /\ place.enoughRoomBelow => place.side = "below"
    /\ place.enoughRoomAbove = place.enoughRoomBelow /\ place.before # "none"
         => place.side = place.before
=============================================================================
