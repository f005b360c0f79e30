------------------------------ MODULE Dropdown ------------------------------
(***************************************************************************)
(* Bootstrap dropdown menus: a click on a toggle closes every menu and     *)
(* opens the one of the toggle, a click elsewhere closes them, the keys    *)
(* open, close and walk through a menu.                                    *)
(***************************************************************************)
EXTENDS Integers, FiniteSets

CONSTANTS Menus, Entries       \* the menus; how many entries each one has

VARIABLE menus

NoFocus == -1

TypeOK ==
  menus \in [disabled : SUBSET Menus,        \* their toggles are disabled
             mayOpen : SUBSET Menus,         \* no handler prevents showing
             mayClose : SUBSET Menus,        \* no handler prevents hiding
             open : SUBSET Menus,
             focus : [Menus -> Int]]         \* the entry that has the focus

Init ==
  \E disabled, mayOpen, mayClose \in SUBSET Menus :
    menus = [disabled |-> disabled, mayOpen |-> mayOpen, mayClose |-> mayClose,
             open |-> {}, focus |-> [m \in Menus |-> NoFocus]]

\* clearMenus()
Cleared(w) == [w EXCEPT !.open = @ \ w.mayClose]

NowhereFocused == [m \in Menus |-> NoFocus]

\* Dropdown.toggle; the event of a disabled toggle goes on to the document.
\* The toggle takes the focus.
Toggled(w, m) ==
  LET c == [Cleared(w) EXCEPT !.focus = NowhereFocused]
  IN IF m \in w.disabled \/ m \in w.open \/ m \notin w.mayOpen THEN c
     ELSE [c EXCEPT !.open = @ \union {m}]

ToggleClick(m) == menus' = Toggled(menus, m)
ClickElsewhere == menus' = [Cleared(menus) EXCEPT !.focus = NowhereFocused]

\* Where the keys up and down take the focus among n entries.
Up(i) == IF i > 0 THEN i - 1 ELSE i
Down(i) == IF i < Entries - 1 THEN i + 1 ELSE i
AtLeastFirst(i) == IF i = NoFocus THEN 0 ELSE i

\* Dropdown.keydown on the toggle of m: escape in an open menu is a click, and
\* every key in a closed one.
Key(m, key) ==
  /\ m \notin menus.disabled
  /\ menus' = IF m \notin menus.open \/ key = "escape" THEN Toggled(menus, m)
              ELSE IF Entries = 0 THEN menus
              ELSE [menus EXCEPT !.focus[m] =
                      AtLeastFirst(IF key = "up" THEN Up(@) ELSE Down(@))]

Next ==
  \/ ClickElsewhere
  \/ \E m \in Menus : ToggleClick(m) \/ \E key \in {"up", "down", "escape"} : Key(m, key)

\* One menu at a time: of the menus that do not refuse to close at most one is
\* open, none that is disabled or refuses to open, and the focus stays on the
\* entries of a menu that is open.
OneMenuOpen ==
  /\ Cardinality(menus.open \intersect menus.mayClose) <= 1
  /\ menus.open \subseteq menus.mayOpen \ menus.disabled
  /\ \A m \in Menus : menus.focus[m] \in NoFocus..(Entries - 1)
=============================================================================
