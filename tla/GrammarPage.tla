---------------------------- MODULE GrammarPage -----------------------------
(***************************************************************************)
(* What the scripts of a grammar page bring to life: the loader of the     *)
(* modules of select2.js, the Select2 control and the placement of its     *)
(* dropdown, and the widgets of bootstrap.js with the page's own handlers. *)
(* They share no state, so that a behaviour follows one of them, onPage,   *)
(* and the others are absent.                                              *)
(***************************************************************************)
EXTENDS AmdLoader

CONSTANTS
  MaxBackdrops, MaxAwaited,      \* of Modal
  Length, MaxQueued,             \* of Carousel
  Panels, Tabs,                  \* of Collapse and Tab
  Menus, Entries,                \* of Dropdown
  Sections, Height,              \* of ScrollSpy
  Choices, MaxDue,               \* of Button
  Options, Terms, TermLength, Hits, ItemOf, Setups,    \* of Select2
  MaxHandlers, StackLimit

ASSUME PageAssumption ==
  /\ {MaxBackdrops, Length, Sections} \subseteq Nat \ {0}
  /\ {MaxAwaited, MaxQueued, Entries, Height, MaxDue} \subseteq Nat
  /\ IsFiniteSet(Panels)

VARIABLES
  onPage, modal, tip, carousel, panels, tabs, menus, spy, button, place,
  hasty,                         \* of Modal, Collapse and Tab
  setup, ctl, agenda, thrown     \* of Select2

D == INSTANCE Modal
T == INSTANCE Tooltip
C == INSTANCE Carousel
P == INSTANCE Collapse
B == INSTANCE Tab
M == INSTANCE Dropdown
S == INSTANCE ScrollSpy
U == INSTANCE Button
W == INSTANCE Placement
K == INSTANCE Select2

ASSUME TermsAssumption ==
  /\ "" \in Terms /\ ItemOf[""] = K!None /\ Hits[""] = K!Items
  /\ \A t \in Terms : ItemOf[t] # K!None => ItemOf[t] \in Hits[t]

ASSUME SetupsAssumption ==
  /\ Options = 1..Cardinality(Options) /\ IsFiniteSet(Options)
  /\ Setups \subseteq
       [multiple : BOOLEAN, closeOnSelect : BOOLEAN, selectOnClose : BOOLEAN,
        minimumInputLength : Nat, maximumInputLength : Nat,
        maximumSelectionLength : Nat, allowClear : BOOLEAN, tags : BOOLEAN,
        prevent : {"none", "open", "close", "select", "unselect"}, ctrl : BOOLEAN]

selectVars == <<setup, ctl, agenda, thrown>>
pageVars == <<loaderVars, selectVars, onPage, modal, tip, carousel, panels,
              tabs, hasty, menus, spy, button, place>>

Absent == "absent"

PageInit ==
  /\ onPage \in {"loader", "modal", "tooltip", "carousel", "collapse", "tab",
                 "dropdown", "scrollspy", "button", "placement", "select2"}
  /\ Init /\ (onPage = "loader" \/ deps = CHOOSE g \in DepGraphs : TRUE)
  /\ onPage \in {"modal", "collapse", "tab"} \/ hasty = FALSE
  /\ IF onPage = "modal"     THEN D!Init ELSE modal = Absent
  /\ IF onPage = "tooltip"   THEN T!Init ELSE tip = Absent
  /\ IF onPage = "carousel"  THEN C!Init ELSE carousel = Absent
  /\ IF onPage = "collapse"  THEN P!Init ELSE panels = Absent
  /\ IF onPage = "tab"       THEN B!Init ELSE tabs = Absent
  /\ IF onPage = "dropdown"  THEN M!Init ELSE menus = Absent
  /\ IF onPage = "scrollspy" THEN S!Init ELSE spy = Absent
  /\ IF onPage = "button"    THEN U!Init ELSE button = Absent
  /\ IF onPage = "placement" THEN W!Init ELSE place = Absent
  /\ IF onPage = "select2"   THEN K!Init
     ELSE setup = Absent /\ ctl = Absent /\ agenda = <<>> /\ thrown = {}

LoaderStep ==
  /\ onPage = "loader" /\ Next
  /\ UNCHANGED <<selectVars, onPage, hasty, modal, tip, carousel, panels, tabs, menus, spy, button, place>>
ModalStep ==
  /\ onPage = "modal" /\ D!Next
  /\ UNCHANGED <<loaderVars, selectVars, onPage, tip, carousel, panels, tabs, menus, spy, button, place>>
TooltipStep ==
  /\ onPage = "tooltip" /\ T!Next
  /\ UNCHANGED <<loaderVars, selectVars, onPage, hasty, modal, carousel, panels, tabs, menus, spy, button, place>>
CarouselStep ==
  /\ onPage = "carousel" /\ C!Next
  /\ UNCHANGED <<loaderVars, selectVars, onPage, hasty, modal, tip, panels, tabs, menus, spy, button, place>>
CollapseStep ==
  /\ onPage = "collapse" /\ P!Next
  /\ UNCHANGED <<loaderVars, selectVars, onPage, modal, tip, carousel, tabs, menus, spy, button, place>>
TabStep ==
  /\ onPage = "tab" /\ B!Next
  /\ UNCHANGED <<loaderVars, selectVars, onPage, modal, tip, carousel, panels, menus, spy, button, place>>
DropdownStep ==
  /\ onPage = "dropdown" /\ M!Next
  /\ UNCHANGED <<loaderVars, selectVars, onPage, hasty, modal, tip, carousel, panels, tabs, spy, button, place>>
ScrollSpyStep ==
  /\ onPage = "scrollspy" /\ S!Next
  /\ UNCHANGED <<loaderVars, selectVars, onPage, hasty, modal, tip, carousel, panels, tabs, menus, button, place>>
ButtonStep ==
  /\ onPage = "button" /\ U!Next
  /\ UNCHANGED <<loaderVars, selectVars, onPage, hasty, modal, tip, carousel, panels, tabs, menus, spy, place>>
PlacementStep ==
  /\ onPage = "placement" /\ W!Next
  /\ UNCHANGED <<loaderVars, selectVars, onPage, hasty, modal, tip, carousel, panels, tabs, menus, spy, button>>
Select2Step ==
  /\ onPage = "select2" /\ K!Next
  /\ UNCHANGED <<loaderVars, onPage, hasty, modal, tip, carousel, panels, tabs, menus, spy, button, place>>

PageNext ==
  \/ LoaderStep \/ ModalStep \/ TooltipStep \/ CarouselStep \/ CollapseStep
  \/ TabStep \/ DropdownStep \/ ScrollSpyStep \/ ButtonStep
  \/ PlacementStep \/ Select2Step

PageSpec == PageInit /\ [][PageNext]_pageVars

-----------------------------------------------------------------------------
\* Whatever is on the page keeps its type.
PageTypeOK ==
  /\ onPage = "loader" => TypeOK
  /\ onPage = "modal" => D!TypeOK
  /\ onPage = "tooltip" => T!TypeOK
  /\ onPage = "carousel" => C!TypeOK
  /\ onPage = "collapse" => P!TypeOK
  /\ onPage = "tab" => B!TypeOK
  /\ onPage = "dropdown" => M!TypeOK
  /\ onPage = "scrollspy" => S!TypeOK
  /\ onPage = "button" => U!TypeOK
  /\ onPage = "placement" => W!TypeOK
  /\ onPage = "select2" => K!TypeOK

\* A dialog whose transitions are over is all there or all gone: what the user
\* sees, the backdrop, the class of the body and the handlers agree with
\* isShown, if it was not turned round midway.
ModalSettled == onPage = "modal" => D!ModalSettled

\* A tooltip at rest is in the document exactly when the last thing the mouse
\* or the focus did was to enter, if it was not shown while it faded out.
TipFollows == onPage = "tooltip" => T!TipFollows

\* A carousel has one active item at any time; at rest no click is unserved,
\* and the indicator is that of the item; the mouse over it stops the clock.
CarouselSettled == onPage = "carousel" => C!CarouselSettled

\* The panels, tabs, menus, links and buttons of a page show one state at rest:
\* headings that tell which panels are open, one open panel of an accordion,
\* one pane, that of the active tab, one menu, the link of the section the page
\* is scrolled to, a button disabled only while it is loading, and the dropdown
\* of Select2 on a side of its control where there is room.
ControlsSettled ==
  /\ onPage = "collapse" => P!CollapseSettled
  /\ onPage = "tab" => B!TabSettled
  /\ onPage = "dropdown" => M!OneMenuOpen
  /\ onPage = "scrollspy" => S!SpyFollows
  /\ onPage = "button" => U!ButtonSettled
  /\ onPage = "placement" => W!PlacedWithRoom

\* Between two inputs the control of Select2 shows the options selected in the
\* element.
SelectionShown == onPage = "select2" => K!SelectionShown

\* In its open dropdown the listed items that are selected are marked.
MarksCurrent == onPage = "select2" => K!MarksCurrent

\* Its class, its dropdown and its handlers on body and window go together.
HandlersMatch == onPage = "select2" => K!HandlersMatch

\* The list of its open dropdown answers what stands in the search box.
ListAnswersBox == onPage = "select2" => K!ListAnswersBox

\* Where each choice closes it (closeOnSelect, and no control key held), it lets
\* the user choose no more than maximumSelectionLength options; the premises of
\* K!AtMostMaximum name the settings and scripts that this leaves out.
AtMostMaximum == onPage = "select2" => K!AtMostMaximum

\* "You can only select N items" (select2.js:4254), which the code does not keep
\* where a choice leaves the list open.
OnlySelectMaximum == onPage = "select2" => K!OnlySelectMaximum
=============================================================================
