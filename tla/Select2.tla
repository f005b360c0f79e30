------------------------------ MODULE Select2 -------------------------------
(***************************************************************************)
(* The Select2 control of the grammar pages over the options of a select   *)
(* element: core, selection, data and dropdown adapters, wired together by *)
(* events whose listeners run in the order in which they were registered.  *)
(* One input runs to its end before the next one: agenda holds the calls   *)
(* still to be made, the next one first.                                   *)
(***************************************************************************)
EXTENDS Naturals, Sequences, FiniteSets, SequencesExt

CONSTANTS
  Options,       \* the options of the page's select element, 1..n
  Terms,         \* what the search box may hold; "" is the empty box
  TermLength,    \* [Terms -> Nat]
  Hits,          \* [Terms -> sets of items]: whose text contains the term
  ItemOf,        \* [Terms -> items]: the item with that very text, None for ""
  Setups,        \* options of the control; prevent: an event a script of the
                 \* page prevents; ctrl: the user may hold the control key
  MaxHandlers,   \* bound on the handlers one control piles up on body
  StackLimit     \* calls that fit on the engine's stack

None == 0
Items == Options \union ({ItemOf[t] : t \in Terms} \ {None})

VARIABLES
  setup,
  ctl,           \* the control
  agenda,        \* the calls to make
  thrown         \* the exceptions that have reached the engine

vars == <<setup, ctl, agenda, thrown>>

Control ==
  [disabled : BOOLEAN,
   dom : Seq(Items),                    \* the options, in document order
   selected : SUBSET Items,             \* the selected ones
   rendered : SUBSET Items,             \* the choices the control shows
   isOpen : BOOLEAN,                    \* class select2-container--open
   attached : BOOLEAN,                  \* the dropdown is in the document
   closers : Nat,                       \* mousedown handlers on body
   positioners : Nat,                   \* scroll and resize handlers
   stray : BOOLEAN,                     \* some are of a control destroyed
   items : Seq(Items),                  \* the results listed ...
   term : Terms,                        \* ... for this term
   marked : SUBSET Items,               \* aria-selected
   highlighted : Items \union {None},
   box : Terms,                         \* text of the search box
   keyup : BOOLEAN,                     \* keyup still bound to handleSearch
   keyUpPrevented : BOOLEAN,
   unasked : BOOLEAN]                   \* no query was sent for the box

\* The events of the control, and what their listeners and the core do.
Events == {"open", "close", "select", "unselect", "query"}
CallNames ==
  Events \union
  {"attach close handler", "show dropdown", "set classes", "add open class",
   "detach close handler", "empty box", "hide dropdown", "select on close",
   "remove open class", "select data", "unselect data", "change",
   "set classes if open", "ask data", "highlight", "clear value", "toggle",
   "handle search", "key used", "box text"}

Call == [do : CallNames, item : Items \union {None}, term : Terms, ctrl : BOOLEAN]

TypeOK ==
  /\ setup \in Setups
  /\ ctl \in Control
  /\ agenda \in Seq(Call)
  /\ thrown \subseteq {"TypeError", "RangeError"}

\* The control the constructor makes for a select element.
Fresh(dom, selected, disabled) ==
  [disabled |-> disabled, dom |-> dom, selected |-> selected, rendered |-> selected,
   isOpen |-> FALSE, attached |-> FALSE, closers |-> 0, positioners |-> 0,
   stray |-> FALSE, items |-> <<>>, term |-> "", marked |-> {}, highlighted |-> None,
   box |-> "", keyup |-> TRUE, keyUpPrevented |-> FALSE, unasked |-> FALSE]

Init ==
  /\ setup \in Setups
  /\ \E chosen \in {X \in SUBSET Options : Cardinality(X) <= 1} :
       ctl = Fresh([i \in 1..Cardinality(Options) |-> i], chosen, FALSE)
  /\ agenda = <<>>
  /\ thrown = {}

-----------------------------------------------------------------------------
\* Calls, and the listeners of each event in the order of registration.
Do(name) == [do |-> name, item |-> None, term |-> "", ctrl |-> FALSE]
DoItem(name, x, ctrl) == [Do(name) EXCEPT !.item = x, !.ctrl = ctrl]
DoTerm(name, t) == [Do(name) EXCEPT !.term = t]

When(option, call) == IF option THEN <<call>> ELSE <<>>

OpenListeners ==
  <<Do("attach close handler"), Do("show dropdown"), Do("set classes"),
    Do("add open class")>>

\* Defaults.apply: the decorators each adapter is wrapped in.
Given(option, name) == IF option THEN {name} ELSE {}

DataAdapter ==
  Given(setup.minimumInputLength > 0, "MinimumInputLength")
  \union Given(setup.maximumInputLength > 0, "MaximumInputLength")
  \union Given(setup.maximumSelectionLength > 0, "MaximumSelectionLength")
  \union Given(setup.tags, "Tags")

ResultsAdapter == Given(setup.selectOnClose, "SelectOnClose")

DropdownAdapter ==
  {"AttachBody"} \union Given(~setup.multiple, "DropdownSearch")
  \union Given(setup.closeOnSelect, "CloseOnSelect")

SelectionAdapter ==
  {"EventRelay"} \union Given(setup.allowClear, "AllowClear")
  \union Given(setup.multiple, "SelectionSearch")

CloseListeners ==
  <<Do("detach close handler"), Do("empty box"), Do("hide dropdown")>>
  \o When("SelectOnClose" \in ResultsAdapter, Do("select on close"))
  \o <<Do("remove open class")>>

\* select and unselect: the data adapter, closeOnSelect, the results.
PickListeners(name, x, ctrl) ==
  <<DoItem(name, x, ctrl)>>
  \o When("CloseOnSelect" \in DropdownAdapter /\ ~ctrl, Do("close"))
  \o <<Do("set classes if open")>>

QueryListeners(t) ==
  When(~ctl.isOpen, Do("open")) \o <<DoTerm("ask data", t)>>

Listeners(c) ==
  CASE c.do = "open" -> OpenListeners
    [] c.do = "close" -> CloseListeners
    [] c.do = "select" -> PickListeners("select data", c.item, c.ctrl)
    [] c.do = "unselect" -> PickListeners("unselect data", c.item, c.ctrl)
    [] c.do = "query" -> QueryListeners(c.term)

\* Select2.open: the query opens the dropdown, then it is opened again.
OpenCalls == <<DoTerm("query", ""), Do("open")>>
ToggleCalls == IF ctl.disabled THEN <<>>
               ELSE IF ctl.isOpen THEN <<Do("close")>> ELSE OpenCalls

Idle == agenda = <<>>
Running(name) == ~Idle /\ Head(agenda).do = name

\* The call on top makes these calls before those that were waiting.
Then(calls) ==
  /\ agenda' = calls \o Tail(agenda)
  /\ UNCHANGED thrown

\* An exception ends every call in progress.
Throw(e) == agenda' = <<>> /\ thrown' = thrown \union {e}

\* A script of the page may prevent an event.  args.prevented is then set
\* on the event's arguments, and the calls of open and close pass none.
Prevent ==
  /\ ~Idle /\ setup.prevent = Head(agenda).do
  /\ IF setup.prevent \in {"open", "close"} THEN Throw("TypeError") ELSE Then(<<>>)
  /\ UNCHANGED <<setup, ctl>>

Trigger ==
  /\ ~Idle /\ Head(agenda).do \in Events \ {setup.prevent}
  /\ LET calls == Listeners(Head(agenda))
     IN IF Len(calls) + Len(agenda) <= StackLimit THEN Then(calls)
        ELSE Throw("RangeError")
  /\ UNCHANGED <<setup, ctl>>

Run(name, calls, after) ==
  /\ Running(name)
  /\ Then(calls)
  /\ ctl' = after
  /\ UNCHANGED setup

AttachCloseHandler ==
  Run("attach close handler", <<>>, [ctl EXCEPT !.closers = @ + 1])

DetachCloseHandler == Run("detach close handler", <<>>, [ctl EXCEPT !.closers = 0])

ShowDropdown ==
  Run("show dropdown", <<>>, [ctl EXCEPT !.attached = TRUE, !.positioners = @ + 1])

\* Variant: the handlers that follow scrolling are left on the window.
HideDropdown_Watching ==
  Run("hide dropdown", <<>>, [ctl EXCEPT !.attached = FALSE])

HideDropdown ==
  Run("hide dropdown", <<>>, [ctl EXCEPT !.attached = FALSE, !.positioners = 0, !.stray = FALSE])

\* Variant: the box keeps its text.
EmptyBox_Kept == Run("empty box", <<>>, ctl)

EmptyBox == Run("empty box", <<>>, [ctl EXCEPT !.box = "", !.unasked = FALSE])
AddOpenClass == Run("add open class", <<>>, [ctl EXCEPT !.isOpen = TRUE])
RemoveOpenClass == Run("remove open class", <<>>, [ctl EXCEPT !.isOpen = FALSE])

SelectOnClose ==
  Run("select on close",
      When(ctl.highlighted # None, DoItem("select", ctl.highlighted, FALSE)), ctl)

-----------------------------------------------------------------------------
\* The data adapter.
\* Variant: no change event follows.
SelectData_Silent ==
  LET x == Head(agenda).item
  IN Run("select data", <<>>,
         [ctl EXCEPT !.selected = IF setup.multiple THEN @ \union {x} ELSE {x}])

SelectData ==
  LET x == Head(agenda).item
  IN Run("select data", <<Do("change")>>,
         [ctl EXCEPT !.selected = IF setup.multiple THEN @ \union {x} ELSE {x}])

\* Only one of many choices can be taken back.
UnselectData ==
  LET x == Head(agenda).item
  IN Run("unselect data", When(setup.multiple, Do("change")),
         [ctl EXCEPT !.selected = IF setup.multiple THEN @ \ {x} ELSE @])

\* The elements of s that are in X, in the order of s.
Kept(s, X) ==
  LET kept[n \in 0..Len(s)] ==
        IF n = 0 THEN <<>>
        ELSE IF s[n] \in X THEN Append(kept[n - 1], s[n]) ELSE kept[n - 1]
  IN kept[Len(s)]

\* SelectAdapter.current, and the selection that draws what it is given.
Current == Kept(ctl.dom, ctl.selected)
Updated(data) == [ctl EXCEPT !.rendered = ToSet(data)]

\* The change event of the element: current() and selection:update.
Change == Run("change", <<>>, Updated(Current))

\* val() of the element, with nothing: the cross of allowClear.
ClearValue == Run("clear value", <<Do("change")>>, [ctl EXCEPT !.selected = {}])

\* Tags: options made for earlier terms and not selected are removed ...
WithoutOldTags ==
  IF "Tags" \in DataAdapter
  THEN [ctl EXCEPT !.dom = Kept(@, Options \union ctl.selected)]
  ELSE ctl

\* ... and the term makes one unless an option has that text.
Tag(d, t) == "Tags" \in DataAdapter /\ ItemOf[t] # None /\ ItemOf[t] \notin ToSet(d)

TooMany ==
  /\ "MaximumSelectionLength" \in DataAdapter
  /\ Cardinality(ctl.selected) >= setup.maximumSelectionLength

TooShort(t) ==
  /\ "MinimumInputLength" \in DataAdapter
  /\ TermLength[t] < setup.minimumInputLength

TooLong(t) ==
  /\ "MaximumInputLength" \in DataAdapter
  /\ TermLength[t] > setup.maximumInputLength

\* SelectAdapter.query: the options of d that match, in document order.
Matching(d, t) == Kept(d, Hits[t])

\* The list is emptied and filled again: with the results, of which none is
\* marked yet, or with a message, which nothing can pick.
PutUp(c, t, results) ==
  [c EXCEPT !.term = t, !.items = results, !.marked = {}, !.highlighted = None]
Message(c, t) == PutUp(c, t, <<>>)

\* Tags.query around it, in a control without its old tags.
Answered(c, t) ==
  LET tag == IF Tag(c.dom, t) THEN <<ItemOf[t]>> ELSE <<>>
  IN PutUp([c EXCEPT !.dom = @ \o tag], t, tag \o Matching(c.dom, t))

\* The query of the decorated data adapter, outermost first.
\* Variant: the limit on the number of choices is forgotten.
AskData_Unlimited ==
  LET t == Head(agenda).term
  IN Run("ask data", <<Do("set classes if open")>>,
         IF TooShort(t) \/ TooLong(t) THEN Message(WithoutOldTags, t)
         ELSE Answered(WithoutOldTags, t))

AskData ==
  LET t == Head(agenda).term
  IN Run("ask data", <<Do("set classes if open")>>,
         IF TooMany \/ TooShort(t) \/ TooLong(t) THEN Message(WithoutOldTags, t)
         ELSE Answered(WithoutOldTags, t))

-----------------------------------------------------------------------------
\* Results: the listed items that are selected are marked, and the first of
\* them, or else the first item, is highlighted.
SetClasses ==
  LET marked == ToSet(ctl.items) \intersect ctl.selected
      order == IF marked = {} THEN ctl.items ELSE Kept(ctl.items, marked)
  IN [ctl EXCEPT !.marked = marked,
                 !.highlighted = IF order = <<>> THEN None ELSE Head(order)]

\* The open event: whether the class is there or not.
MarkOnOpen == Run("set classes", <<>>, SetClasses)

\* Variant: the marks follow select and unselect only in a closed dropdown.
MarkIfOpen_Closed ==
  Run("set classes if open", <<>>, IF ctl.isOpen THEN ctl ELSE SetClasses)

MarkIfOpen ==
  Run("set classes if open", <<>>, IF ctl.isOpen THEN SetClasses ELSE ctl)

Highlight == Run("highlight", <<>>, [ctl EXCEPT !.highlighted = Head(agenda).item])

\* mouseup on a result, or results:toggle.
PickCalls(x, ctrl) ==
  IF x \notin ctl.marked THEN <<DoItem("select", x, ctrl)>>
  ELSE IF setup.multiple THEN <<DoItem("unselect", x, ctrl)>>
  ELSE <<Do("close")>>

\* results:select, by the enter key.
EnterCalls ==
  IF ctl.highlighted = None THEN <<>>
  ELSE IF ctl.highlighted \in ctl.marked THEN <<Do("close")>>
  ELSE <<DoItem("select", ctl.highlighted, FALSE)>>

\* Search.handleSearch: the query of an input, or of a keyup.
HandleSearch ==
  Run("handle search",
      IF ctl.keyUpPrevented THEN <<>> ELSE <<DoTerm("query", ctl.box)>>,
      [ctl EXCEPT !.keyUpPrevented = FALSE, !.unasked = @ /\ ctl.keyUpPrevented])

\* A key the core has used: keydown ends, and keyup reaches the search box
\* unless closing a single control has moved the focus out of it.
KeyUp ==
  /\ Running("key used")
  /\ Then(When(ctl.keyup /\ (setup.multiple \/ ctl.isOpen), Do("handle search")))
  /\ ctl' = [ctl EXCEPT !.keyUpPrevented = TRUE]
  /\ UNCHANGED setup

\* searchRemoveChoice ends by putting the text of the choice in the box.
BoxText ==
  /\ Running("box text")
  /\ Then(When(ctl.keyup, Do("handle search")))
  /\ ctl' = [ctl EXCEPT !.box = Head(agenda).term, !.unasked = TRUE]
  /\ UNCHANGED setup

-----------------------------------------------------------------------------
\* Inputs, taken when no call is in progress.
Input(calls, after) ==
  /\ Idle
  /\ agenda' = calls
  /\ ctl' = after
  /\ UNCHANGED <<setup, thrown>>

\* A click on the control.
ToggleDropdown == Input(ToggleCalls, ctl)

\* select2('open') and select2('close'), as the page's buttons call them.
OpenMethod == ~ctl.isOpen /\ Input(OpenCalls, ctl)
CloseMethod == ctl.isOpen /\ Input(<<Do("close")>>, ctl)

\* Enter, space or alt with an arrow, on a closed control.
OpenKey == ~ctl.isOpen /\ Input(OpenCalls, ctl)

\* mousedown elsewhere: one of the handlers on body closes the control.
ClickOutside ==
  ctl.isOpen /\ ctl.closers > 0 /\ Input(<<Do("close")>>, ctl)

\* The search box can be reached: always in a control of many choices, in
\* the dropdown of one that holds a single choice.
Searchable ==
  /\ ~ctl.disabled
  /\ \/ "SelectionSearch" \in SelectionAdapter
     \/ "DropdownSearch" \in DropdownAdapter /\ ctl.attached

\* A key that writes, then the input event: keyup is unbound from now on.
Type(t) ==
  /\ Searchable /\ t # ctl.box
  /\ Input(<<Do("handle search")>>,
           [ctl EXCEPT !.box = t, !.unasked = TRUE, !.keyup = FALSE,
                       !.keyUpPrevented = FALSE])

\* The input event alone: a paste with the mouse, the cross of the box.
Paste(t) ==
  /\ Searchable /\ t # ctl.box
  /\ Input(<<Do("handle search")>>,
           [ctl EXCEPT !.box = t, !.unasked = TRUE, !.keyup = FALSE])

\* Keys of an open control, from the search box.
Key(calls) == ctl.isOpen /\ Searchable /\ Input(calls \o <<Do("key used")>>, ctl)

Enter == Key(EnterCalls)
Escape == Key(<<Do("close")>>)
ToggleKey == ctl.highlighted # None /\ Key(PickCalls(ctl.highlighted, FALSE))

\* Where the arrows move the highlight; none goes to the first item.
Previous(i) == IF i = 0 THEN 1 ELSE i - 1
Following(i) == i + 1
Arrow(Move(_)) ==
  LET at == SelectInSeq(ctl.items, LAMBDA x : x = ctl.highlighted)
  IN /\ Move(at) \in DOMAIN ctl.items
     /\ Key(<<DoItem("highlight", ctl.items[Move(at)], FALSE)>>)

Hover(x) ==
  /\ ctl.attached /\ x \in ToSet(ctl.items) /\ x # ctl.highlighted
  /\ Input(<<DoItem("highlight", x, FALSE)>>, ctl)

Pick(x, ctrl) ==
  /\ ctl.attached /\ x \in ToSet(ctl.items) /\ (ctrl => setup.ctrl)
  /\ Input(PickCalls(x, ctrl), ctl)

\* The cross of a choice: unselect, and the click goes on to the control.
RemoveChoice(x) ==
  /\ setup.multiple /\ x \in ctl.rendered
  /\ Input(<<DoItem("unselect", x, FALSE), Do("toggle")>>, ctl)

Toggle == Run("toggle", ToggleCalls, ctl)

\* _handleClear: every choice shown is unselected, unless a script prevents
\* it, then the value is emptied and the control toggled.
ClearChoices ==
  /\ "AllowClear" \in SelectionAdapter /\ ~ctl.disabled /\ ctl.rendered # {}
  /\ LET shown == Kept(ctl.dom, ctl.rendered)
         unselects == [i \in DOMAIN shown |-> DoItem("unselect", shown[i], FALSE)]
     IN Input(IF setup.prevent = "unselect" THEN <<Head(unselects)>>
              ELSE unselects \o <<Do("clear value"), Do("toggle")>>, ctl)

\* Backspace in the empty box of a control of many choices takes back the
\* last choice, opens the dropdown without a query, and puts the text of the
\* choice, which no option contains with the blank after it, in the box.
Backspace(text) ==
  /\ "SelectionSearch" \in SelectionAdapter /\ "AllowClear" \notin SelectionAdapter
  /\ "Tags" \notin DataAdapter
  /\ ~ctl.disabled /\ ctl.box = "" /\ ctl.rendered # {}
  /\ ctl.closers < MaxHandlers - 1
  /\ Hits[text] = {}
  /\ LET shown == Kept(ctl.dom, ctl.rendered)
     IN Input(<<DoItem("unselect", Last(shown), FALSE), Do("open"),
                DoTerm("box text", text)>>,
              [ctl EXCEPT !.keyUpPrevented = FALSE])

\* A script sets the value of the element, the control being closed.
SetValue(x) ==
  /\ ~ctl.isOpen /\ x \in ToSet(ctl.dom)
  /\ Input(<<Do("change")>>, [ctl EXCEPT !.selected = {x}])

\* A script sets the property disabled; the observer synchronises.
SetDisabled(d) ==
  /\ d # ctl.disabled
  /\ Input(When(d /\ ctl.isOpen, Do("close")), [ctl EXCEPT !.disabled = d])

\* A script calls select2(options) on the element again: the old control is
\* destroyed, without closing; its handlers on the window wait for the next
\* closing, whose handlers have the same namespace.
Rebuild ==
  /\ ctl.positioners < MaxHandlers - 3
  /\ Input(<<>>, [Fresh(ctl.dom, ctl.selected, ctl.disabled) EXCEPT
                    !.positioners = ctl.positioners, !.stray = ctl.isOpen \/ ctl.stray])

UserInput ==
  \/ ToggleDropdown \/ OpenMethod \/ CloseMethod \/ OpenKey \/ ClickOutside
  \/ \E t \in Terms : Type(t) \/ Paste(t) \/ Backspace(t)
  \/ Enter \/ Escape \/ ToggleKey \/ Arrow(Previous) \/ Arrow(Following)
  \/ \E x \in Items : Hover(x) \/ RemoveChoice(x) \/ SetValue(x)
  \/ \E x \in Items, ctrl \in BOOLEAN : Pick(x, ctrl)
  \/ ClearChoices
  \/ \E d \in BOOLEAN : SetDisabled(d)
  \/ Rebuild

Progress ==
  \/ Prevent \/ Trigger
  \/ AttachCloseHandler \/ DetachCloseHandler
  \/ ShowDropdown \/ HideDropdown \/ EmptyBox
  \/ AddOpenClass \/ RemoveOpenClass \/ SelectOnClose
  \/ SelectData \/ UnselectData \/ Change \/ ClearValue
  \/ AskData \/ MarkOnOpen \/ MarkIfOpen \/ Highlight
  \/ HandleSearch \/ KeyUp \/ BoxText \/ Toggle

Next == UserInput \/ Progress

Spec == Init /\ [][Next]_vars

-----------------------------------------------------------------------------
\* Between two inputs the control shows exactly the options selected in the
\* element the page's scripts read, whatever sequence of picks, crosses, keys,
\* prevented events and exceptions led there.
SelectionShown == Idle => ctl.rendered = ctl.selected

\* In an open dropdown the listed items that are selected, and no others, are
\* marked: an item picked by mistake as if it were not selected would be
\* selected twice, or taken back instead.  (An exception skips the listeners
\* that mark; scripts set values while the dropdown is closed.)
MarksCurrent ==
  Idle /\ ctl.isOpen /\ thrown = {} =>
    ctl.marked = ctl.selected \intersect ToSet(ctl.items)

\* The class, the dropdown in the document and the handlers on the body and
\* the window go together, although open runs twice and close may be called
\* when nothing is open: otherwise a click elsewhere could not close it.  Only
\* a control built anew while it was open finds handlers of the old one.
HandlersMatch ==
  Idle /\ "RangeError" \notin thrown =>
    /\ ctl.isOpen <=> ctl.attached
    /\ ctl.isOpen <=> ctl.closers > 0
    /\ ctl.isOpen \/ ctl.stray <=> ctl.positioners > 0

\* The list of an open dropdown answers what stands in the search box, unless
\* the text came from a choice taken back or its input was swallowed.
ListAnswersBox ==
  Idle /\ ctl.isOpen /\ thrown = {} /\ ~ctl.unasked => ctl.term = ctl.box

\* Where a choice closes the control, no more choices than maximumSelectionLength,
\* for a user who does not hold the control key; scripts set one value.  The
\* limit is looked at only when the list is asked for: a list that stays open
\* after a pick, by closeOnSelect = false or by ctrl, is not asked for again,
\* and select checks nothing (select2.js:2913), so nothing is promised there.
\* (Nor where a script prevents unselect, which lets backspace open the list as
\* it was before the last choice, or where selectOnClose chooses the
\* highlighted item as well.)
AtMostMaximum ==
  setup.maximumSelectionLength > 0 /\ setup.closeOnSelect /\ ~setup.ctrl
    /\ setup.prevent # "unselect" /\ ~setup.selectOnClose /\ thrown = {} =>
    Cardinality(ctl.selected) <= setup.maximumSelectionLength

\* "You can only select N items" (select2.js:4254), whether or not a choice
\* closes the list: violated where closeOnSelect = false, since the open list
\* outlives the picks.
OnlySelectMaximum ==
  setup.maximumSelectionLength > 0 /\ ~setup.ctrl /\ thrown = {} =>
    Cardinality(ctl.selected) <= setup.maximumSelectionLength
=============================================================================
