---------------------------- MODULE Select2Proofs ---------------------------
(***************************************************************************)
(* The Select2 control of a page and its results from a server.            *)
(*                                                                         *)
(* The control, for any options, terms and settings.  The properties speak *)
(* of a control at rest; between two inputs any number of calls may wait,  *)
(* those of several listeners of several events.  The invariant tells what *)
(* can wait together and what each call that waits has still to put right. *)
(*                                                                         *)
(* The results, for every set of terms, every server and any number of     *)
(* questions.  Only what was asked last is ever put up, since no more than *)
(* one query is under way, by timer or by request, and it is the one asked *)
(* last; the rest of the invariant tells what the list holds then.         *)
(***************************************************************************)
EXTENDS GrammarPage, Select2Search, FiniteSetTheorems, SequenceTheorems,
        NaturalsInduction, WellFoundedInduction, TLAPS

-----------------------------------------------------------------------------
(* The Select2 control.                                                    *)

\* The calls of the listeners, by what they are part of.
Attaching == {"attach close handler", "show dropdown", "set classes", "add open class"}
OpenTime == Attaching \union {"open"}
Asking == {"query", "ask data"}
Unselecting == {"unselect", "unselect data"}
Selecting == {"select", "select data"}
Closing == {"close", "detach close handler", "empty box", "hide dropdown"}
CloseTime ==
  Closing \union Selecting
    \union {"change", "select on close", "remove open class", "set classes if open"}

\* Calls that are made as soon as they are due, and calls after which there are none.
HeadOnly ==
  {"select", "select data", "unselect data", "change", "query", "attach close handler",
   "detach close handler", "highlight"}
LastOnly == {"toggle", "key used", "box text", "handle search"}

\* The listeners of an event come one after the other.
Linked(a, b) ==
  \/ a = "attach close handler" /\ b = "show dropdown"
  \/ a = "show dropdown" /\ b = "set classes"
  \/ a = "set classes" /\ b = "add open class"
  \/ a = "detach close handler" /\ b = "empty box"
  \/ a = "empty box" /\ b = "hide dropdown"
  \/ a = "hide dropdown" /\ b \in {"select on close", "remove open class"}
  \/ a = "select on close" /\ b = "remove open class"
Linking ==
  {"attach close handler", "show dropdown", "set classes", "detach close handler",
   "empty box", "hide dropdown", "select on close"}
Chained ==
  {"show dropdown", "set classes", "add open class", "empty box", "hide dropdown",
   "select on close"}

\* What may wait on the agenda together: which calls come before which, and
\* which come one right after the other.
Before(x, y) ==
  /\ x \notin LastOnly /\ y \notin HeadOnly
  /\ y = "remove open class" => x \in CloseTime
  /\ y = "ask data" => x \in OpenTime
Adjacent(x, y) == x \in Linking \/ y \in Chained => Linked(x, y)

\* What waits is a few lists of calls one after the other, each without a gap.
Shape(a) ==
  /\ \A i, j \in 1..Len(a) :
       /\ i < j => Before(a[i].do, a[j].do)
       /\ j = i + 1 => Adjacent(a[i].do, a[j].do)
  /\ \A i \in 1..Len(a) : i = Len(a) => a[i].do \notin Linking

\* The call on top, the names of those waiting, the terms they ask for.
First(a) == IF a = <<>> THEN "idle" ELSE a[1].do
Called(a) == {a[i].do : i \in 1..Len(a)}
Asked(a) == {a[i].term : i \in {j \in 1..Len(a) : a[j].do \in Asking}}

now == First(agenda)
awaited == Called(agenda)

\* Only allowClear lets unselect wait: Backspace, which opens, makes it at once.
CallsShaped ==
  /\ agenda \in Seq(K!Call) /\ Shape(agenda)
  /\ \A i \in 1..Len(agenda) : i # 1 /\ agenda[i].do = "unselect" => setup.allowClear

\* What is chosen, listed and highlighted is in the select, and what is drawn is what is
\* chosen, except between a choice and its change event.
Drawn ==
  /\ ctl.selected \subseteq K!ToSet(ctl.dom)
  /\ K!ToSet(ctl.items) \subseteq K!ToSet(ctl.dom)
  /\ ctl.highlighted \in K!ToSet(ctl.items) \union {K!None}
  /\ now \in Selecting \union {"highlight"} => agenda[1].item \in K!ToSet(ctl.items)
  /\ ctl.rendered = ctl.selected \/ now = "change"

\* Opened, the control has its handlers; closed, none, but for those of a stray dropdown.
Matched ==
  /\ ctl.isOpen <=> ctl.attached
  /\ ctl.isOpen <=> ctl.closers > 0
  /\ ctl.isOpen \/ ctl.stray <=> ctl.positioners > 0

Detached == ctl.closers = 0 /\ ~ctl.attached /\ ctl.positioners = 0 /\ ~ctl.stray

\* While it opens: the handlers of body come first, the dropdown with its own next, the
\* class last.
HalfOpen ==
  /\ ctl.closers > 0
  /\ now = "show dropdown" =>
       /\ ctl.isOpen <=> ctl.attached
       /\ ctl.isOpen \/ ctl.stray <=> ctl.positioners > 0
  /\ now \in {"set classes", "add open class"} => ctl.attached /\ ctl.positioners > 0

\* While it closes the handlers go in the same order; an exception that reaches the engine
\* from the depth of the calls may leave the ones that were to be removed.
Handled ==
  /\ now \in {"detach close handler", "empty box", "hide dropdown", "select on close"} =>
       "remove open class" \in awaited
  /\ "remove open class" \in awaited => setup.prevent # "close"
  /\ "RangeError" \notin thrown =>
       /\ now \in {"empty box", "hide dropdown"} => ctl.closers = 0
       /\ "remove open class" \in awaited
            /\ now \notin {"detach close handler", "empty box", "hide dropdown"} => Detached
       /\ "remove open class" \notin awaited =>
            IF now \in {"show dropdown", "set classes", "add open class"} THEN HalfOpen
            ELSE Matched

MarksOK == ctl.marked = ctl.selected \intersect K!ToSet(ctl.items)
Fixing ==
  Closing \union Asking
    \union {"set classes", "set classes if open", "select on close", "remove open class"}

\* The marks of an open list are those of the choices, or a call that sets them waits.
Marked ==
  /\ now = "add open class" => MarksOK
  /\ now \in {"select data", "unselect data"} => "set classes if open" \in awaited
  /\ "clear value" \in awaited => "toggle" \in awaited /\ ~ctl.disabled
  /\ thrown = {} /\ ctl.isOpen =>
       \/ MarksOK
       \/ awaited \intersect Fixing # {}
       \/ "toggle" \in awaited /\ ~ctl.disabled

\* The list answers what the box holds, or the question waits, or the calls that open or
\* empty the box.
Answering ==
  /\ awaited \intersect Asking # {} => awaited \subseteq Asking \union OpenTime
  /\ now = "ask data" => ctl.isOpen
  /\ "remove open class" \in awaited /\ now \notin {"detach close handler", "empty box"} =>
       ctl.box = ""
  /\ awaited \intersect OpenTime # {} =>
       \/ awaited \intersect Asking # {}
       \/ "box text" \in awaited
       \/ ctl.isOpen /\ awaited \subseteq OpenTime \union {"set classes if open"}
  /\ thrown = {} /\ ~ctl.unasked =>
       /\ Asked(agenda) \subseteq {ctl.box}
       /\ \/ awaited \intersect (Asking \union {"box text", "remove open class"}) # {}
          \/ IF ctl.isOpen THEN ctl.term = ctl.box ELSE ctl.box = ""

\* The maximum is only kept where a choice closes the control, which empties the list:
\* a list with items in it leaves room for one more.
Limited ==
  /\ setup.maximumSelectionLength > 0 /\ setup.closeOnSelect /\ ~setup.ctrl
  /\ setup.prevent # "unselect" /\ ~setup.selectOnClose /\ thrown = {}
Room == Cardinality(ctl.selected) < setup.maximumSelectionLength
Listed == ctl.items = <<>> \/ Room
Openers == {"open", "attach close handler", "show dropdown"}

Bounded ==
  /\ IsFiniteSet(ctl.selected)
  /\ ~setup.selectOnClose => "select on close" \notin awaited
  /\ now = "select" /\ agenda[1].ctrl => setup.ctrl
  /\ now \in Unselecting /\ awaited \intersect Openers # {} =>
       setup.multiple /\ agenda[1].item \in ctl.selected
  /\ setup.allowClear /\ "unselect" \in awaited => awaited \intersect Openers = {}
  /\ Limited =>
       /\ Cardinality(ctl.selected) <= setup.maximumSelectionLength
       /\ now \in Selecting => Room /\ awaited \intersect (Openers \union Asking) = {}
       /\ now = "select data" => "close" \in awaited
       /\ ctl.attached => Listed \/ awaited \intersect (Asking \union Closing) # {}
       /\ awaited \intersect Openers # {} =>
            Listed \/ awaited \intersect Asking # {} \/ now \in Unselecting

\* What holds between any two calls of the control.
ControlInv ==
  K!TypeOK /\ CallsShaped /\ Drawn /\ Handled /\ Marked /\ Answering /\ Bounded

-----------------------------------------------------------------------------
\* Calls before others: the names and the terms of both.
LEMMA CalledConcat ==
  ASSUME NEW Elem, NEW c \in Seq(Elem), NEW t \in Seq(Elem)
  PROVE  /\ c \o t \in Seq(Elem)
         /\ Called(c \o t) = Called(c) \union Called(t)
         /\ Asked(c \o t) = Asked(c) \union Asked(t)
         /\ First(c \o t) = IF c = <<>> THEN First(t) ELSE First(c)
         /\ c # <<>> => (c \o t)[1] = c[1]
<1> DEFINE a == c \o t
           m == Len(c)
           n == Len(t)
<1>1. m \in Nat /\ n \in Nat /\ a \in Seq(Elem) /\ Len(a) = m + n
  OBVIOUS
<1>2. \A i \in 1..m : i \in 1..m + n /\ a[i] = c[i]
  BY <1>1
<1>3. \A i \in 1..n : i + m \in 1..m + n /\ a[i + m] = t[i]
  BY <1>1
<1>4. \A i \in 1..m + n : i \in 1..m \/ (i - m \in 1..n /\ a[i] = t[i - m])
  BY <1>1
<1>5. c = <<>> <=> m = 0
  BY EmptySeq
<1>6. t = <<>> <=> n = 0
  BY EmptySeq
<1>7. a = <<>> <=> m + n = 0
  BY <1>1, EmptySeq
<1> HIDE DEF a, m, n
<1>8. Called(a) = Called(c) \union Called(t)
  <2>1. Called(a) = {a[i].do : i \in 1..m + n} /\ Called(c) = {c[i].do : i \in 1..m}
        /\ Called(t) = {t[i].do : i \in 1..n}
    BY <1>1 DEF Called, m, n
  <2>2. \A i \in 1..m + n : a[i].do \in Called(c) \union Called(t)
    BY <1>2, <1>4, <2>1
  <2>3. \A i \in 1..m : c[i].do \in Called(a)
    BY <1>2, <2>1
  <2>4. \A i \in 1..n : t[i].do \in Called(a)
    BY <1>3, <2>1
  <2> QED  BY <2>1, <2>2, <2>3, <2>4
<1>9. Asked(a) = Asked(c) \union Asked(t)
  <2>1. /\ Asked(a) = {a[i].term : i \in {j \in 1..m + n : a[j].do \in Asking}}
        /\ Asked(c) = {c[i].term : i \in {j \in 1..m : c[j].do \in Asking}}
        /\ Asked(t) = {t[i].term : i \in {j \in 1..n : t[j].do \in Asking}}
    BY <1>1 DEF Asked, m, n
  <2>2. \A i \in 1..m + n : a[i].do \in Asking => a[i].term \in Asked(c) \union Asked(t)
    BY <1>2, <1>4, <2>1
  <2>3. \A i \in 1..m : c[i].do \in Asking => c[i].term \in Asked(a)
    BY <1>2, <2>1
  <2>4. \A i \in 1..n : t[i].do \in Asking => t[i].term \in Asked(a)
    BY <1>3, <2>1
  <2> QED  BY <2>1, <2>2, <2>3, <2>4
<1>10. c = <<>> => a = t
  BY DEF a
<1>11. c # <<>> => a # <<>> /\ a[1] = c[1]
  BY <1>1, <1>2, <1>5, <1>7
<1> QED  BY <1>1, <1>8, <1>9, <1>10, <1>11 DEF First, a

\* No call.
LEMMA CalledEmpty == Called(<<>>) = {} /\ Asked(<<>>) = {} /\ First(<<>>) = "idle" /\ Shape(<<>>)
<1>1. Len(<<>>) = 0
  OBVIOUS
<1>2. 1..0 = {} /\ 2..0 = {} /\ 1..0 - 1 = {}
  OBVIOUS
<1> QED  BY <1>1, <1>2 DEF Called, Asked, First, Shape

\* The call on top, and those below it.
LEMMA CalledTail ==
  ASSUME NEW Elem, NEW a \in Seq(Elem), a # <<>>
  PROVE  /\ Tail(a) \in Seq(Elem) /\ a[1] \in Elem /\ Head(a) = a[1]
         /\ Called(a) = {a[1].do} \union Called(Tail(a))
         /\ Asked(a) = (IF a[1].do \in Asking THEN {a[1].term} ELSE {}) \union Asked(Tail(a))
         /\ First(a) = a[1].do
         /\ First(Tail(a)) = IF Called(Tail(a)) = {} THEN "idle" ELSE Tail(a)[1].do
         /\ Called(Tail(a)) # {} => First(Tail(a)) \in Called(Tail(a))
         /\ Called(Tail(a)) = {} => Tail(a) = <<>>
<1> DEFINE t == Tail(a)
           n == Len(t)
<1>1. n \in Nat /\ t \in Seq(Elem) /\ Len(a) = n + 1 /\ Head(a) = a[1] /\ a[1] \in Elem
  <2>1. Len(a) \in Nat /\ Len(a) # 0
    BY EmptySeq
  <2> QED  BY <2>1
<1>2. \A i \in 1..n : i + 1 \in 1..n + 1 /\ a[i + 1] = t[i]
  BY <1>1
<1>3. \A i \in 1..n + 1 : i = 1 \/ (i - 1 \in 1..n /\ a[i] = t[i - 1])
  BY <1>1
<1>4. 1 \in 1..n + 1
  BY <1>1
<1>5. t = <<>> <=> n = 0
  BY <1>1, EmptySeq
<1> HIDE DEF t, n
<1>6. Called(a) = {a[1].do} \union Called(t)
  <2>1. Called(a) = {a[i].do : i \in 1..n + 1} /\ Called(t) = {t[i].do : i \in 1..n}
    BY <1>1 DEF Called, n
  <2>2. \A i \in 1..n + 1 : a[i].do \in {a[1].do} \union Called(t)
    BY <1>3, <2>1
  <2>3. \A i \in 1..n : t[i].do \in Called(a)
    BY <1>2, <2>1
  <2>4. a[1].do \in Called(a)
    BY <1>4, <2>1
  <2> QED  BY <2>1, <2>2, <2>3, <2>4
<1>7. Asked(a) = (IF a[1].do \in Asking THEN {a[1].term} ELSE {}) \union Asked(t)
  <2>1. /\ Asked(a) = {a[i].term : i \in {j \in 1..n + 1 : a[j].do \in Asking}}
        /\ Asked(t) = {t[i].term : i \in {j \in 1..n : t[j].do \in Asking}}
    BY <1>1 DEF Asked, n
  <2>2. \A i \in 1..n + 1 : i # 1 /\ a[i].do \in Asking => a[i].term \in Asked(t)
    BY <1>3, <2>1
  <2>3. \A i \in 1..n : t[i].do \in Asking => t[i].term \in Asked(a)
    BY <1>2, <2>1
  <2>4. a[1].do \in Asking => a[1].term \in Asked(a)
    BY <1>4, <2>1
  <2>5. \A x \in Asked(a) : x \in Asked(t) \/ (a[1].do \in Asking /\ x = a[1].term)
    BY <2>1, <2>2
  <2>6. \A x \in Asked(t) : x \in Asked(a)
    BY <2>1, <2>3
  <2> QED  BY <2>4, <2>5, <2>6
<1>8. Called(t) = {} <=> t = <<>>
  <2>1. n # 0 => t[1].do \in Called(t)
    BY <1>1 DEF Called, n
  <2>2. n = 0 => Called(t) = {}
    BY <1>1, <1>5, CalledEmpty
  <2> QED  BY <1>5, <2>1, <2>2
<1>9. t # <<>> => t[1].do \in Called(t)
  BY <1>1, <1>5 DEF Called, n
<1> QED  BY <1>1, <1>6, <1>7, <1>8, <1>9 DEF First, t

\* Short lists of calls.
LEMMA CalledFew ==
  ASSUME NEW Elem, NEW c \in Elem, NEW d \in Elem, NEW e \in Elem, NEW f \in Elem, NEW g \in Elem
  PROVE  /\ <<c>> \in Seq(Elem) /\ Called(<<c>>) = {c.do}
         /\ <<c, d>> \in Seq(Elem) /\ Called(<<c, d>>) = {c.do, d.do}
         /\ <<c, d, e>> \in Seq(Elem) /\ Called(<<c, d, e>>) = {c.do, d.do, e.do}
         /\ <<c, d, e, f>> \in Seq(Elem) /\ Called(<<c, d, e, f>>) = {c.do, d.do, e.do, f.do}
         /\ <<c, d, e, f, g>> \in Seq(Elem)
            /\ Called(<<c, d, e, f, g>>) = {c.do, d.do, e.do, f.do, g.do}
         /\ First(<<c>>) = c.do /\ First(<<c, d>>) = c.do /\ First(<<c, d, e>>) = c.do
         /\ First(<<c, d, e, f>>) = c.do /\ First(<<c, d, e, f, g>>) = c.do
<1>1. /\ Len(<<c>>) = 1 /\ Len(<<c, d>>) = 2 /\ Len(<<c, d, e>>) = 3
      /\ Len(<<c, d, e, f>>) = 4 /\ Len(<<c, d, e, f, g>>) = 5
  OBVIOUS
<1>2. 1..1 = {1} /\ 1..2 = {1, 2} /\ 1..3 = {1, 2, 3} /\ 1..4 = {1, 2, 3, 4}
        /\ 1..5 = {1, 2, 3, 4, 5}
  OBVIOUS
<1>3. Called(<<c>>) = {c.do}
  BY <1>1, <1>2 DEF Called
<1>4. Called(<<c, d>>) = {c.do, d.do}
  BY <1>1, <1>2 DEF Called
<1>5. Called(<<c, d, e>>) = {c.do, d.do, e.do}
  BY <1>1, <1>2 DEF Called
<1>6. Called(<<c, d, e, f>>) = {c.do, d.do, e.do, f.do}
  BY <1>1, <1>2 DEF Called
<1>7. Called(<<c, d, e, f, g>>) = {c.do, d.do, e.do, f.do, g.do}
  BY <1>1, <1>2 DEF Called
<1>8. /\ <<c>> # <<>> /\ <<c, d>> # <<>> /\ <<c, d, e>> # <<>>
      /\ <<c, d, e, f>> # <<>> /\ <<c, d, e, f, g>> # <<>>
  OBVIOUS
<1> QED  BY <1>3, <1>4, <1>5, <1>6, <1>7, <1>8 DEF First

\* Terms are only asked for by queries.
LEMMA AskedNone == \A a : Called(a) \intersect Asking = {} => Asked(a) = {}
  BY DEF Called, Asked

\* What the shape of the agenda says of the call on top and those below.
LEMMA ShapeTail ==
  ASSUME NEW Elem, NEW a \in Seq(Elem), a # <<>>, Shape(a)
  PROVE  LET n == a[1].do  t == Tail(a) IN
         /\ Shape(t)
         /\ \A x \in Called(t) : Before(n, x)
         /\ t # <<>> => Adjacent(n, First(t))
         /\ n \in Linking => t # <<>>
<1> DEFINE t == Tail(a)
           k == Len(t)
<1>1. k \in Nat /\ t \in Seq(Elem) /\ Len(a) = k + 1
  <2>1. Len(a) \in Nat /\ Len(a) # 0
    BY EmptySeq
  <2> QED  BY <2>1
<1>2. \A i \in 1..k : a[i + 1] = t[i]
  BY <1>1
<1>3. t = <<>> <=> k = 0
  BY <1>1, EmptySeq
<1>4. Called(t) = {t[i].do : i \in 1..k}
  BY DEF Called
<1>5. Shape(t) <=>
        /\ \A i, j \in 1..k :
             /\ i < j => Before(t[i].do, t[j].do)
             /\ j = i + 1 => Adjacent(t[i].do, t[j].do)
        /\ \A i \in 1..k : i = k => t[i].do \notin Linking
  BY SMTT(30) DEF Shape
<1>6. /\ \A i, j \in 1..k + 1 :
             /\ i < j => Before(a[i].do, a[j].do)
             /\ j = i + 1 => Adjacent(a[i].do, a[j].do)
      /\ \A i \in 1..k + 1 : i = k + 1 => a[i].do \notin Linking
  BY <1>1, Zenon DEF Shape
<1>7. First(t) = IF t = <<>> THEN "idle" ELSE t[1].do
  BY DEF First
<1> HIDE DEF t, k
<1>8. \A i \in 1..k : i + 1 \in 1..k + 1 /\ 1 < i + 1
  BY <1>1
<1>9. 1 \in 1..k + 1
  BY <1>1
<1>10. \A x \in Called(t) : Before(a[1].do, x)
  BY <1>2, <1>4, <1>6, <1>8, <1>9
<1>11. k # 0 => Adjacent(a[1].do, First(t))
  <2>1. k # 0 => 1 \in 1..k /\ 1 + 1 \in 1..k + 1 /\ t[1] = a[1 + 1]
    BY <1>1, <1>2
  <2> QED  BY <1>3, <1>6, <1>7, <1>9, <2>1
<1>12. a[1].do \in Linking => k # 0
  BY <1>1, <1>6, <1>9
<1>13. \A i, j \in 1..k :
             /\ i < j => Before(t[i].do, t[j].do)
             /\ j = i + 1 => Adjacent(t[i].do, t[j].do)
  <2> TAKE i, j \in 1..k
  <2>1. i + 1 \in 1..k + 1 /\ j + 1 \in 1..k + 1 /\ a[i + 1] = t[i] /\ a[j + 1] = t[j]
    BY <1>2, <1>8
  <2>2. i < j => i + 1 < j + 1
    BY <1>1
  <2> QED  BY <1>6, <2>1, <2>2
<1>14. \A i \in 1..k : i = k => t[i].do \notin Linking
  BY <1>2, <1>6, <1>8
<1>15. Shape(t)
  BY <1>5, <1>13, <1>14
<1> QED  BY <1>3, <1>10, <1>11, <1>12, <1>15 DEF t

\* Calls that come before others.
LEMMA ShapeConcat ==
  ASSUME NEW Elem, NEW c \in Seq(Elem), NEW t \in Seq(Elem), Shape(c), Shape(t), c # <<>>,
         \A x \in Called(c), y \in Called(t) : Before(x, y),
         IF t = <<>> THEN TRUE ELSE Adjacent(c[Len(c)].do, First(t))
  PROVE  Shape(c \o t)
<1> DEFINE a == c \o t
           m == Len(c)
           n == Len(t)
<1>1. m \in Nat /\ n \in Nat /\ Len(a) = m + n
  OBVIOUS
<1>2. \A i \in 1..m : a[i] = c[i] /\ c[i].do \in Called(c)
  BY <1>1 DEF Called
<1>3. \A i \in 1..n : a[i + m] = t[i] /\ t[i].do \in Called(t)
  BY <1>1 DEF Called
<1>4. m # 0 /\ (t = <<>> <=> n = 0)
  BY EmptySeq
<1>5. /\ \A i, j \in 1..m :
             /\ i < j => Before(c[i].do, c[j].do)
             /\ j = i + 1 => Adjacent(c[i].do, c[j].do)
      /\ \A i \in 1..m : i = m => c[i].do \notin Linking
  BY DEF Shape
<1>6. /\ \A i, j \in 1..n :
             /\ i < j => Before(t[i].do, t[j].do)
             /\ j = i + 1 => Adjacent(t[i].do, t[j].do)
      /\ \A i \in 1..n : i = n => t[i].do \notin Linking
  BY DEF Shape
<1>7. First(t) = IF t = <<>> THEN "idle" ELSE t[1].do
  BY DEF First
<1>8. n # 0 => Adjacent(c[m].do, t[1].do)
  BY <1>4, <1>7
<1>9. \A i \in 1..m + n : i \in 1..m \/ (i - m \in 1..n /\ a[i] = t[i - m])
  BY <1>1, <1>3
<1>10. Shape(a) <=>
        /\ \A i, j \in 1..m + n :
             /\ i < j => Before(a[i].do, a[j].do)
             /\ j = i + 1 => Adjacent(a[i].do, a[j].do)
        /\ \A i \in 1..m + n : i = m + n => a[i].do \notin Linking
  BY <1>1 DEF Shape
<1> HIDE DEF a, m, n
<1>11. ASSUME NEW i \in 1..m + n, NEW j \in 1..m + n
       PROVE  /\ i < j => Before(a[i].do, a[j].do)
              /\ j = i + 1 => Adjacent(a[i].do, a[j].do)
  <2>1. CASE i \in 1..m /\ j \in 1..m
    BY <1>2, <1>5, <2>1
  <2>2. CASE i - m \in 1..n /\ a[i] = t[i - m] /\ j - m \in 1..n /\ a[j] = t[j - m]
    <3>1. (i < j => i - m < j - m) /\ (j = i + 1 => j - m = (i - m) + 1)
      BY <1>1
    <3> QED  BY <1>6, <2>2, <3>1
  <2>3. CASE i \in 1..m /\ j - m \in 1..n /\ a[j] = t[j - m]
    <3>1. Before(a[i].do, a[j].do)
      BY <1>2, <1>3, <2>3
    <3>2. j = i + 1 => i = m /\ j - m = 1 /\ n # 0
      BY <1>1, <2>3
    <3> QED  BY <1>2, <1>8, <2>3, <3>1, <3>2
  <2>4. CASE j \in 1..m /\ i - m \in 1..n
    BY <1>1, <2>4
  <2> QED  BY <1>9, <2>1, <2>2, <2>3, <2>4
<1>12. \A i \in 1..m + n : i = m + n => a[i].do \notin Linking
  <2> TAKE i \in 1..m + n
  <2>1. CASE i \in 1..m
    <3>1. i = m + n => i = m /\ n = 0
      BY <1>1, <2>1
    <3> QED  BY <1>2, <1>4, <1>5, <2>1, <3>1
  <2>2. CASE i - m \in 1..n /\ a[i] = t[i - m]
    <3>1. i = m + n => i - m = n
      BY <1>1
    <3> QED  BY <1>6, <2>2, <3>1
  <2> QED  BY <1>9, <2>1, <2>2
<1> QED  BY <1>10, <1>11, <1>12 DEF a

\* What a call made by name, with an item or with a term carries.
LEMMA CallFacts ==
  /\ \A n \in K!CallNames : K!Do(n) \in K!Call /\ K!Do(n).do = n /\ ~K!Do(n).ctrl
  /\ \A n \in K!CallNames, x \in K!Items \union {K!None}, b \in BOOLEAN :
       /\ K!DoItem(n, x, b) \in K!Call
       /\ K!DoItem(n, x, b).do = n /\ K!DoItem(n, x, b).item = x /\ K!DoItem(n, x, b).ctrl = b
  /\ \A n \in K!CallNames, t \in Terms :
       /\ K!DoTerm(n, t) \in K!Call
       /\ K!DoTerm(n, t).do = n /\ K!DoTerm(n, t).term = t
<1> "" \in Terms
  BY TermsAssumption
<1> QED  BY DEF K!Do, K!DoItem, K!DoTerm, K!Call

\* The calls below the one on top, and the first of them.
below == Called(Tail(agenda))
next == First(Tail(agenda))

\* A call happens: it is on top, and those below it wait in the same shape.
LEMMA TopFacts ==
  ASSUME CallsShaped, ~K!Idle
  PROVE  /\ Tail(agenda) \in Seq(K!Call) /\ agenda[1] \in K!Call /\ Head(agenda) = agenda[1]
         /\ now = agenda[1].do
         /\ awaited = {now} \union below
         /\ Asked(agenda) = (IF now \in Asking THEN {agenda[1].term} ELSE {})
                              \union Asked(Tail(agenda))
         /\ IF below = {} THEN Tail(agenda) = <<>> /\ next = "idle" ELSE next \in below
         /\ \A x \in below : Before(now, x)
         /\ below # {} => Adjacent(now, next)
         /\ now \in Linking => below # {}
         /\ Shape(Tail(agenda))
         /\ \A i \in 1..Len(Tail(agenda)) : Tail(agenda)[i].do = "unselect" => setup.allowClear
         /\ "unselect" \in below => setup.allowClear
         /\ below \intersect Asking = {} => Asked(Tail(agenda)) = {}
<1>1. agenda \in Seq(K!Call) /\ agenda # <<>> /\ Shape(agenda)
  BY DEF CallsShaped, K!Idle
<1>2. /\ Tail(agenda) \in Seq(K!Call) /\ agenda[1] \in K!Call /\ Head(agenda) = agenda[1]
      /\ now = agenda[1].do
      /\ awaited = {now} \union below
      /\ Asked(agenda) = (IF now \in Asking THEN {agenda[1].term} ELSE {})
                           \union Asked(Tail(agenda))
      /\ IF below = {} THEN Tail(agenda) = <<>> /\ next = "idle" ELSE next \in below
  BY <1>1, CalledTail DEF now, awaited, below, next
<1>3. /\ Shape(Tail(agenda))
      /\ \A x \in Called(Tail(agenda)) : Before(agenda[1].do, x)
      /\ Tail(agenda) # <<>> => Adjacent(agenda[1].do, First(Tail(agenda)))
      /\ agenda[1].do \in Linking => Tail(agenda) # <<>>
  BY <1>1, ShapeTail
<1>4. below # {} <=> Tail(agenda) # <<>>
  BY <1>2, CalledEmpty DEF below
<1>5. \A i \in 1..Len(Tail(agenda)) : Tail(agenda)[i].do = "unselect" => setup.allowClear
  <2> TAKE i \in 1..Len(Tail(agenda))
  <2>1. i + 1 \in 1..Len(agenda) /\ i + 1 # 1 /\ agenda[i + 1] = Tail(agenda)[i]
    BY <1>1
  <2> QED  BY <2>1 DEF CallsShaped
<1>6. "unselect" \in below => setup.allowClear
  BY <1>5 DEF below, Called
<1> QED  BY <1>2, <1>3, <1>4, <1>5, <1>6, AskedNone DEF below, next

\* The call on top makes no call, one, or several.
LEMMA Popped ==
  ASSUME CallsShaped, ~K!Idle, K!Then(<<>>), setup' = setup
  PROVE  /\ CallsShaped' /\ thrown' = thrown
         /\ awaited' = below /\ now' = next /\ Asked(agenda') = Asked(Tail(agenda))
<1>1. agenda' = Tail(agenda) /\ thrown' = thrown
  BY TopFacts DEF K!Then
<1> QED  BY <1>1, TopFacts DEF CallsShaped, awaited, now, below, next

LEMMA Pushed ==
  ASSUME CallsShaped, ~K!Idle, NEW c \in Seq(K!Call), c # <<>>, K!Then(c), Shape(c), setup' = setup,
         "unselect" \notin Called(c),
         \A x \in Called(c), y \in below : Before(x, y),
         below = {} \/ Adjacent(c[Len(c)].do, next)
  PROVE  /\ CallsShaped' /\ thrown' = thrown
         /\ awaited' = Called(c) \union below /\ now' = First(c)
         /\ Asked(agenda') = Asked(c) \union Asked(Tail(agenda))
         /\ agenda'[1] = c[1]
<1> DEFINE t == Tail(agenda)
<1>1. agenda' = c \o t /\ thrown' = thrown
  BY DEF K!Then
<1>2. t \in Seq(K!Call) /\ Shape(t) /\ (t = <<>> \/ below # {})
  BY TopFacts
<1>3. /\ c \o t \in Seq(K!Call) /\ Called(c \o t) = Called(c) \union Called(t)
      /\ Asked(c \o t) = Asked(c) \union Asked(t) /\ First(c \o t) = First(c)
      /\ (c \o t)[1] = c[1]
  <2> HIDE DEF t
  <2>1. t \in Seq(K!Call)
    BY <1>2
  <2>2. First(c \o t) = IF c = <<>> THEN First(t) ELSE First(c)
    BY ONLY <2>1, CalledConcat, c \in Seq(K!Call)
  <2> QED  BY ONLY <2>1, <2>2, CalledConcat, c \in Seq(K!Call), c # <<>>
<1>4. Shape(c \o t)
  <2>1. \A x \in Called(c), y \in Called(t) : Before(x, y)
    BY DEF below
  <2>2. IF t = <<>> THEN TRUE ELSE Adjacent(c[Len(c)].do, First(t))
    BY <1>2 DEF next
  <2> QED  BY <1>2, <2>1, <2>2, ShapeConcat
<1>5. \A i \in 1..Len(c \o t) : i # 1 /\ (c \o t)[i].do = "unselect" => setup.allowClear
  <2> SUFFICES ASSUME NEW i \in 1..Len(c \o t), (c \o t)[i].do = "unselect"
               PROVE  setup.allowClear
    OBVIOUS
  <2>1. i \in 1..Len(c) \/ (i - Len(c) \in 1..Len(t) /\ (c \o t)[i] = t[i - Len(c)])
    BY <1>2
  <2>2. i \notin 1..Len(c)
    BY <1>2 DEF Called
  <2> QED  BY <2>1, <2>2, TopFacts
<1> QED  BY <1>1, <1>3, <1>4, <1>5 DEF CallsShaped, awaited, now, below

LEMMA PushedOne ==
  ASSUME CallsShaped, ~K!Idle, NEW c \in K!Call, K!Then(<<c>>), setup' = setup,
         c.do \notin Linking \union {"unselect"},
         \A y \in below : Before(c.do, y),
         below = {} \/ Adjacent(c.do, next)
  PROVE  /\ CallsShaped' /\ thrown' = thrown
         /\ awaited' = {c.do} \union below /\ now' = c.do
         /\ Asked(agenda') = (IF c.do \in Asking THEN {c.term} ELSE {}) \union Asked(Tail(agenda))
         /\ agenda'[1] = c
<1>1. <<c>> \in Seq(K!Call) /\ Called(<<c>>) = {c.do} /\ First(<<c>>) = c.do
  BY CalledFew
<1>2. Len(<<c>>) = 1 /\ <<c>>[1] = c /\ <<c>> # <<>>
  OBVIOUS
<1>3. Shape(<<c>>)
  BY <1>2 DEF Shape
<1>4. Asked(<<c>>) = IF c.do \in Asking THEN {c.term} ELSE {}
  BY <1>2 DEF Asked
<1>5. \A x \in Called(<<c>>), y \in below : Before(x, y)
  BY <1>1
<1> QED  BY <1>1, <1>2, <1>3, <1>4, <1>5, Pushed

\* The listeners of open, one by one.
LEMMA AttachKept ==
  ASSUME ControlInv, K!AttachCloseHandler
  PROVE  ControlInv'
<1>1. /\ ~K!Idle /\ now = "attach close handler" /\ K!Then(<<>>) /\ setup' = setup
      /\ ctl' = [ctl EXCEPT !.closers = @ + 1] /\ ctl \in K!Control
      /\ ctl.closers + 1 \in Nat /\ ctl.closers + 1 > 0
  <2>1. ctl \in K!Control
    BY DEF ControlInv, K!TypeOK
  <2>2. ctl.closers \in Nat
    BY <2>1 DEF K!Control
  <2>3. ctl.closers + 1 \in Nat /\ ctl.closers + 1 > 0
    BY <2>2
  <2> QED  BY <2>1, <2>3, TopFacts DEF K!AttachCloseHandler, K!Run, K!Running, ControlInv
<1>2. /\ CallsShaped' /\ thrown' = thrown /\ awaited' = below /\ now' = next
      /\ Asked(agenda') = Asked(Tail(agenda))
  BY <1>1, Popped DEF ControlInv
<1>3. /\ awaited = {now} \union below /\ (IF below = {} THEN next = "idle" ELSE next \in below)
      /\ below \intersect HeadOnly = {} /\ ("unselect" \in below => setup.allowClear)
      /\ Asked(agenda) = Asked(Tail(agenda))
      /\ (below \intersect Asking = {} => Asked(Tail(agenda)) = {})
      /\ next = "show dropdown"
      /\ below # {}
      /\ "remove open class" \notin below
  BY <1>1, TopFacts DEF ControlInv, Before, Adjacent, Linked, Linking, Chained, Asking, LastOnly,
                        CloseTime, OpenTime, Attaching, Closing, Selecting
<1>4. K!TypeOK'
  BY <1>1, <1>2, TermsAssumption DEF ControlInv, K!TypeOK, CallsShaped, K!Control, K!Call
<1>5. Drawn'
  BY <1>1, <1>2, <1>3 DEF ControlInv, Drawn, Selecting, HeadOnly, K!Control
<1>6. Handled'
  BY <1>1, <1>2, <1>3 DEF ControlInv, Handled, Detached, Matched, HalfOpen, Chained, HeadOnly,
                          K!Control
<1>7. Marked'
  BY <1>1, <1>2, <1>3 DEF ControlInv, Marked, MarksOK, Chained, Fixing, Closing, Asking,
                          HeadOnly, K!Control
<1>8. Answering'
  BY <1>1, <1>2, <1>3 DEF ControlInv, Answering, Asking, OpenTime, Attaching, HeadOnly, K!Control
<1>9. Bounded'
  BY <1>1, <1>2, <1>3 DEF ControlInv, Bounded, Limited, Listed, Room, Openers, Asking, Selecting,
                          Unselecting, Closing, HeadOnly, K!Control
<1> QED  BY <1>2, <1>4, <1>5, <1>6, <1>7, <1>8, <1>9 DEF ControlInv

LEMMA ShowKept ==
  ASSUME ControlInv, K!ShowDropdown
  PROVE  ControlInv'
<1>1. /\ ~K!Idle /\ now = "show dropdown" /\ K!Then(<<>>) /\ setup' = setup
      /\ ctl' = [ctl EXCEPT !.attached = TRUE, !.positioners = @ + 1] /\ ctl \in K!Control
      /\ ctl.positioners + 1 \in Nat /\ ctl.positioners + 1 > 0
  <2>1. ctl \in K!Control
    BY DEF ControlInv, K!TypeOK
  <2>2. ctl.positioners \in Nat
    BY <2>1 DEF K!Control
  <2>3. ctl.positioners + 1 \in Nat /\ ctl.positioners + 1 > 0
    BY <2>2
  <2> QED  BY <2>1, <2>3, TopFacts DEF K!ShowDropdown, K!Run, K!Running, ControlInv
<1>2. /\ CallsShaped' /\ thrown' = thrown /\ awaited' = below /\ now' = next
      /\ Asked(agenda') = Asked(Tail(agenda))
  BY <1>1, Popped DEF ControlInv
<1>3. /\ awaited = {now} \union below /\ (IF below = {} THEN next = "idle" ELSE next \in below)
      /\ below \intersect HeadOnly = {} /\ ("unselect" \in below => setup.allowClear)
      /\ Asked(agenda) = Asked(Tail(agenda))
      /\ (below \intersect Asking = {} => Asked(Tail(agenda)) = {})
      /\ next = "set classes"
      /\ below # {}
      /\ "remove open class" \notin below
  BY <1>1, TopFacts DEF ControlInv, Before, Adjacent, Linked, Linking, Chained, Asking, LastOnly,
                        CloseTime, OpenTime, Attaching, Closing, Selecting
<1>4. K!TypeOK'
  BY <1>1, <1>2, TermsAssumption DEF ControlInv, K!TypeOK, CallsShaped, K!Control, K!Call
<1>5. Drawn'
  BY <1>1, <1>2, <1>3 DEF ControlInv, Drawn, Selecting, HeadOnly, K!Control
<1>6. Handled'
  BY <1>1, <1>2, <1>3 DEF ControlInv, Handled, Detached, Matched, HalfOpen, Chained, HeadOnly,
                          K!Control
<1>7. Marked'
  BY <1>1, <1>2, <1>3 DEF ControlInv, Marked, MarksOK, Chained, Fixing, Closing, Asking,
                          HeadOnly, K!Control
<1>8. Answering'
  BY <1>1, <1>2, <1>3 DEF ControlInv, Answering, Asking, OpenTime, Attaching, HeadOnly, K!Control
<1>9. Bounded'
  BY <1>1, <1>2, <1>3 DEF ControlInv, Bounded, Limited, Listed, Room, Openers, Asking, Selecting,
                          Unselecting, Closing, HeadOnly, K!Control
<1> QED  BY <1>2, <1>4, <1>5, <1>6, <1>7, <1>8, <1>9 DEF ControlInv

LEMMA AddKept ==
  ASSUME ControlInv, K!AddOpenClass
  PROVE  ControlInv'
<1>1. /\ ~K!Idle /\ now = "add open class" /\ K!Then(<<>>) /\ setup' = setup
      /\ ctl' = [ctl EXCEPT !.isOpen = TRUE] /\ ctl \in K!Control
  BY TopFacts DEF K!AddOpenClass, K!Run, K!Running, ControlInv, K!TypeOK
<1>2. /\ CallsShaped' /\ thrown' = thrown /\ awaited' = below /\ now' = next
      /\ Asked(agenda') = Asked(Tail(agenda))
  BY <1>1, Popped DEF ControlInv
<1>3. /\ awaited = {now} \union below /\ (IF below = {} THEN next = "idle" ELSE next \in below)
      /\ below \intersect HeadOnly = {} /\ ("unselect" \in below => setup.allowClear)
      /\ Asked(agenda) = Asked(Tail(agenda))
      /\ (below \intersect Asking = {} => Asked(Tail(agenda)) = {})
      /\ "remove open class" \notin below
      /\ next \notin Chained
  BY <1>1, TopFacts DEF ControlInv, Before, Adjacent, Linked, Linking, Chained, Asking, LastOnly,
                        CloseTime, OpenTime, Attaching, Closing, Selecting
<1>4. K!TypeOK'
  BY <1>1, <1>2, TermsAssumption DEF ControlInv, K!TypeOK, CallsShaped, K!Control, K!Call
<1>5. Drawn'
  BY <1>1, <1>2, <1>3 DEF ControlInv, Drawn, Selecting, HeadOnly, K!Control
<1>6. Handled'
  BY <1>1, <1>2, <1>3 DEF ControlInv, Handled, Detached, Matched, HalfOpen, Chained, HeadOnly,
                          K!Control
<1>7. Marked'
  BY <1>1, <1>2, <1>3 DEF ControlInv, Marked, MarksOK, Chained, Fixing, Closing, Asking,
                          HeadOnly, K!Control
<1>8. Answering'
  BY <1>1, <1>2, <1>3 DEF ControlInv, Answering, Asking, OpenTime, Attaching, HeadOnly, K!Control
<1>9. Bounded'
  BY <1>1, <1>2, <1>3 DEF ControlInv, Bounded, Limited, Listed, Room, Openers, Asking, Selecting,
                          Unselecting, Closing, HeadOnly, K!Control
<1> QED  BY <1>2, <1>4, <1>5, <1>6, <1>7, <1>8, <1>9 DEF ControlInv

\* The listeners of close, one by one.
LEMMA DetachKept ==
  ASSUME ControlInv, K!DetachCloseHandler
  PROVE  ControlInv'
<1>1. /\ ~K!Idle /\ now = "detach close handler" /\ K!Then(<<>>) /\ setup' = setup
      /\ ctl' = [ctl EXCEPT !.closers = 0] /\ ctl \in K!Control
  BY TopFacts DEF K!DetachCloseHandler, K!Run, K!Running, ControlInv, K!TypeOK
<1>2. /\ CallsShaped' /\ thrown' = thrown /\ awaited' = below /\ now' = next
      /\ Asked(agenda') = Asked(Tail(agenda))
  BY <1>1, Popped DEF ControlInv
<1>3. /\ awaited = {now} \union below /\ (IF below = {} THEN next = "idle" ELSE next \in below)
      /\ below \intersect HeadOnly = {} /\ ("unselect" \in below => setup.allowClear)
      /\ Asked(agenda) = Asked(Tail(agenda))
      /\ (below \intersect Asking = {} => Asked(Tail(agenda)) = {})
      /\ next = "empty box"
      /\ below # {}
      /\ "ask data" \notin below
  BY <1>1, TopFacts DEF ControlInv, Before, Adjacent, Linked, Linking, Chained, Asking, LastOnly,
                        CloseTime, OpenTime, Attaching, Closing, Selecting
<1>4. K!TypeOK'
  BY <1>1, <1>2, TermsAssumption DEF ControlInv, K!TypeOK, CallsShaped, K!Control, K!Call
<1>5. Drawn'
  BY <1>1, <1>2, <1>3 DEF ControlInv, Drawn, Selecting, HeadOnly, K!Control
<1>6. Handled'
  BY <1>1, <1>2, <1>3 DEF ControlInv, Handled, Detached, Matched, HalfOpen, Chained, HeadOnly,
                          K!Control
<1>7. Marked'
  BY <1>1, <1>2, <1>3 DEF ControlInv, Marked, MarksOK, Chained, Fixing, Closing, Asking,
                          HeadOnly, K!Control
<1>8. Answering'
  BY <1>1, <1>2, <1>3 DEF ControlInv, Answering, Asking, OpenTime, Attaching, HeadOnly, K!Control
<1>9. Bounded'
  BY <1>1, <1>2, <1>3 DEF ControlInv, Bounded, Limited, Listed, Room, Openers, Asking, Selecting,
                          Unselecting, Closing, HeadOnly, K!Control
<1> QED  BY <1>2, <1>4, <1>5, <1>6, <1>7, <1>8, <1>9 DEF ControlInv

LEMMA EmptyKept ==
  ASSUME ControlInv, K!EmptyBox
  PROVE  ControlInv'
<1>1. /\ ~K!Idle /\ now = "empty box" /\ K!Then(<<>>) /\ setup' = setup
      /\ ctl' = [ctl EXCEPT !.box = "", !.unasked = FALSE] /\ ctl \in K!Control
  BY TopFacts DEF K!EmptyBox, K!Run, K!Running, ControlInv, K!TypeOK
<1>2. /\ CallsShaped' /\ thrown' = thrown /\ awaited' = below /\ now' = next
      /\ Asked(agenda') = Asked(Tail(agenda))
  BY <1>1, Popped DEF ControlInv
<1>3. /\ awaited = {now} \union below /\ (IF below = {} THEN next = "idle" ELSE next \in below)
      /\ below \intersect HeadOnly = {} /\ ("unselect" \in below => setup.allowClear)
      /\ Asked(agenda) = Asked(Tail(agenda))
      /\ (below \intersect Asking = {} => Asked(Tail(agenda)) = {})
      /\ next = "hide dropdown"
      /\ below # {}
      /\ "ask data" \notin below
  BY <1>1, TopFacts DEF ControlInv, Before, Adjacent, Linked, Linking, Chained, Asking, LastOnly,
                        CloseTime, OpenTime, Attaching, Closing, Selecting
<1>4. K!TypeOK'
  BY <1>1, <1>2, TermsAssumption DEF ControlInv, K!TypeOK, CallsShaped, K!Control, K!Call
<1>5. Drawn'
  BY <1>1, <1>2, <1>3 DEF ControlInv, Drawn, Selecting, HeadOnly, K!Control
<1>6. Handled'
  BY <1>1, <1>2, <1>3 DEF ControlInv, Handled, Detached, Matched, HalfOpen, Chained, HeadOnly,
                          K!Control
<1>7. Marked'
  BY <1>1, <1>2, <1>3 DEF ControlInv, Marked, MarksOK, Chained, Fixing, Closing, Asking,
                          HeadOnly, K!Control
<1>8. Answering'
  <2>1. below \intersect Asking = {}
    BY <1>1, <1>3 DEF ControlInv, Answering, Asking, OpenTime, Attaching
  <2>2. awaited' \intersect OpenTime # {} => "box text" \in awaited'
    BY <1>1, <1>2, <1>3, <2>1 DEF ControlInv, Answering, Asking, OpenTime, Attaching
  <2>3. "remove open class" \in awaited' /\ Asked(agenda') = {}
    BY <1>1, <1>2, <1>3, <2>1 DEF ControlInv, Handled
  <2> QED  BY <1>1, <1>2, <1>3, <2>1, <2>2, <2>3 DEF Answering, K!Control
<1>9. Bounded'
  BY <1>1, <1>2, <1>3 DEF ControlInv, Bounded, Limited, Listed, Room, Openers, Asking, Selecting,
                          Unselecting, Closing, HeadOnly, K!Control
<1> QED  BY <1>2, <1>4, <1>5, <1>6, <1>7, <1>8, <1>9 DEF ControlInv

LEMMA HideKept ==
  ASSUME ControlInv, K!HideDropdown
  PROVE  ControlInv'
<1>1. /\ ~K!Idle /\ now = "hide dropdown" /\ K!Then(<<>>) /\ setup' = setup
      /\ ctl' = [ctl EXCEPT !.attached = FALSE, !.positioners = 0, !.stray = FALSE]
         /\ ctl \in K!Control
  BY TopFacts DEF K!HideDropdown, K!Run, K!Running, ControlInv, K!TypeOK
<1>2. /\ CallsShaped' /\ thrown' = thrown /\ awaited' = below /\ now' = next
      /\ Asked(agenda') = Asked(Tail(agenda))
  BY <1>1, Popped DEF ControlInv
<1>3. /\ awaited = {now} \union below /\ (IF below = {} THEN next = "idle" ELSE next \in below)
      /\ below \intersect HeadOnly = {} /\ ("unselect" \in below => setup.allowClear)
      /\ Asked(agenda) = Asked(Tail(agenda))
      /\ (below \intersect Asking = {} => Asked(Tail(agenda)) = {})
      /\ next \in {"select on close", "remove open class"}
      /\ below # {}
      /\ "ask data" \notin below
  BY <1>1, TopFacts DEF ControlInv, Before, Adjacent, Linked, Linking, Chained, Asking, LastOnly,
                        CloseTime, OpenTime, Attaching, Closing, Selecting
<1>4. K!TypeOK'
  BY <1>1, <1>2, TermsAssumption DEF ControlInv, K!TypeOK, CallsShaped, K!Control, K!Call
<1>5. Drawn'
  BY <1>1, <1>2, <1>3 DEF ControlInv, Drawn, Selecting, HeadOnly, K!Control
<1>6. Handled'
  BY <1>1, <1>2, <1>3 DEF ControlInv, Handled, Detached, Matched, HalfOpen, Chained, HeadOnly,
                          K!Control
<1>7. Marked'
  BY <1>1, <1>2, <1>3, ZenonT(40) DEF ControlInv, Marked, MarksOK, Chained, Fixing,
                          Closing, Asking, HeadOnly, K!Control
<1>8. Answering'
  BY <1>1, <1>2, <1>3 DEF ControlInv, Answering, Asking, OpenTime, Attaching, HeadOnly, K!Control
<1>9. Bounded'
  BY <1>1, <1>2, <1>3 DEF ControlInv, Bounded, Limited, Listed, Room, Openers, Asking, Selecting,
                          Unselecting, Closing, HeadOnly, K!Control
<1> QED  BY <1>2, <1>4, <1>5, <1>6, <1>7, <1>8, <1>9 DEF ControlInv

LEMMA RemoveKept ==
  ASSUME ControlInv, K!RemoveOpenClass
  PROVE  ControlInv'
<1>1. /\ ~K!Idle /\ now = "remove open class" /\ K!Then(<<>>) /\ setup' = setup
      /\ ctl' = [ctl EXCEPT !.isOpen = FALSE] /\ ctl \in K!Control
  BY TopFacts DEF K!RemoveOpenClass, K!Run, K!Running, ControlInv, K!TypeOK
<1>2. /\ CallsShaped' /\ thrown' = thrown /\ awaited' = below /\ now' = next
      /\ Asked(agenda') = Asked(Tail(agenda))
  BY <1>1, Popped DEF ControlInv
<1>3. /\ awaited = {now} \union below /\ (IF below = {} THEN next = "idle" ELSE next \in below)
      /\ below \intersect HeadOnly = {} /\ ("unselect" \in below => setup.allowClear)
      /\ Asked(agenda) = Asked(Tail(agenda))
      /\ (below \intersect Asking = {} => Asked(Tail(agenda)) = {})
      /\ "ask data" \notin below
      /\ next \notin Chained
  BY <1>1, TopFacts DEF ControlInv, Before, Adjacent, Linked, Linking, Chained, Asking, LastOnly,
                        CloseTime, OpenTime, Attaching, Closing, Selecting
<1>4. K!TypeOK'
  BY <1>1, <1>2, TermsAssumption DEF ControlInv, K!TypeOK, CallsShaped, K!Control, K!Call
<1>5. Drawn'
  BY <1>1, <1>2, <1>3 DEF ControlInv, Drawn, Selecting, HeadOnly, K!Control
<1>6. Handled'
  <2>1. setup'.prevent # "close"
    BY <1>1, <1>3 DEF ControlInv, Handled
  <2>2. now' \notin {"detach close handler", "empty box", "hide dropdown", "select on close",
                     "show dropdown", "set classes", "add open class"}
    BY <1>2, <1>3 DEF HeadOnly, Chained
  <2>3. "RangeError" \notin thrown' => Detached' /\ ~ctl'.isOpen
    BY <1>1, <1>2, <1>3 DEF ControlInv, Handled, Detached, K!Control
  <2>5. Detached' /\ ~ctl'.isOpen => Matched'
    BY DEF Detached, Matched
  <2> QED  BY <2>1, <2>2, <2>3, <2>5 DEF Handled
<1>7. Marked'
  BY <1>1, <1>2, <1>3 DEF ControlInv, Marked, MarksOK, Chained, Fixing, Closing, Asking,
                          HeadOnly, K!Control
<1>8. Answering'
  BY <1>1, <1>2, <1>3 DEF ControlInv, Answering, Asking, OpenTime, Attaching, HeadOnly, K!Control
<1>9. Bounded'
  BY <1>1, <1>2, <1>3 DEF ControlInv, Bounded, Limited, Listed, Room, Openers, Asking, Selecting,
                          Unselecting, Closing, HeadOnly, K!Control
<1> QED  BY <1>2, <1>4, <1>5, <1>6, <1>7, <1>8, <1>9 DEF ControlInv

\* The pointer, or an arrow key, highlights an item.
LEMMA HighlightKept ==
  ASSUME ControlInv, K!Highlight
  PROVE  ControlInv'
<1>1. /\ ~K!Idle /\ now = "highlight" /\ K!Then(<<>>) /\ setup' = setup
      /\ ctl' = [ctl EXCEPT !.highlighted = Head(agenda).item] /\ ctl \in K!Control
      /\ Head(agenda) = agenda[1] /\ agenda[1].item \in K!Items \union {K!None}
  BY TopFacts DEF K!Highlight, K!Run, K!Running, ControlInv, K!TypeOK, K!Control, K!Call
<1>2. /\ CallsShaped' /\ thrown' = thrown /\ awaited' = below /\ now' = next
      /\ Asked(agenda') = Asked(Tail(agenda))
  BY <1>1, Popped DEF ControlInv
<1>3. /\ awaited = {now} \union below /\ (IF below = {} THEN next = "idle" ELSE next \in below)
      /\ below \intersect HeadOnly = {} /\ ("unselect" \in below => setup.allowClear)
      /\ Asked(agenda) = Asked(Tail(agenda))
      /\ (below \intersect Asking = {} => Asked(Tail(agenda)) = {})
      /\ "remove open class" \notin below
      /\ "ask data" \notin below
      /\ next \notin Chained
  BY <1>1, TopFacts DEF ControlInv, Before, Adjacent, Linked, Linking, Chained, Asking, LastOnly,
                        CloseTime, OpenTime, Attaching, Closing, Selecting
<1>4. K!TypeOK'
  BY <1>1, <1>2, TermsAssumption DEF ControlInv, K!TypeOK, CallsShaped, K!Control, K!Call
<1>5. Drawn'
  BY <1>1, <1>2, <1>3 DEF ControlInv, Drawn, Selecting, HeadOnly, K!Control
<1>6. Handled'
  BY <1>1, <1>2, <1>3 DEF ControlInv, Handled, Detached, Matched, HalfOpen, Chained, HeadOnly,
                          K!Control
<1>7. Marked'
  BY <1>1, <1>2, <1>3 DEF ControlInv, Marked, MarksOK, Chained, Fixing, Closing, Asking,
                          HeadOnly, K!Control
<1>8. Answering'
  BY <1>1, <1>2, <1>3 DEF ControlInv, Answering, Asking, OpenTime, Attaching, HeadOnly, K!Control
<1>9. Bounded'
  BY <1>1, <1>2, <1>3 DEF ControlInv, Bounded, Limited, Listed, Room, Openers, Asking, Selecting,
                          Unselecting, Closing, HeadOnly, K!Control
<1> QED  BY <1>2, <1>4, <1>5, <1>6, <1>7, <1>8, <1>9 DEF ControlInv

\* A set of numbers that is not empty has a least one.
LEMMA LeastOfSet ==
  ASSUME NEW X \in SUBSET Nat, X # {}
  PROVE  \E x \in X : \A y \in X : x <= y
<1>1. PICK x \in X : \A y \in X : <<y, x>> \notin OpToRel(<, Nat)
  BY NatLessThanWellFounded, WFMin
<1>2. \A y \in X : ~(y < x)
  BY <1>1 DEF OpToRel
<1> QED  BY <1>2

\* Numbers up to n that have all that their predecessor has.
LEMMA AllUpTo ==
  ASSUME NEW n \in Nat, NEW Y, 0 \in Y, \A k \in 1..n : k - 1 \in Y => k \in Y
  PROVE  0..n \subseteq Y
<1> DEFINE X == {k \in 0..n : k \notin Y}
<1>1. ASSUME X # {}
      PROVE  FALSE
  <2>1. X \in SUBSET Nat
    OBVIOUS
  <2>2. PICK k \in X : \A j \in X : k <= j
    BY <1>1, <2>1, LeastOfSet
  <2>3. k \in 1..n /\ k - 1 \in 0..n /\ ~(k <= k - 1)
    BY <2>2
  <2> QED  BY <2>2, <2>3
<1> QED  BY <1>1

\* One unfolding of the function that filters a sequence.
KeptStep(s, X, k, n) ==
  IF n = 0 THEN <<>>
  ELSE IF s[n] \in X THEN Append(k[n - 1], s[n]) ELSE k[n - 1]

\* The recursive function of the filter has the value its equation gives, at every index.
LEMMA KeptExists ==
  ASSUME NEW Elem, NEW s \in Seq(Elem), NEW X
  PROVE  \E k : k = [n \in 0..Len(s) |-> KeptStep(s, X, k, n)]
<1> DEFINE Y == {m \in 0..Len(s) : \E k : k = [n \in 0..m |-> KeptStep(s, X, k, n)]}
<1>1. Len(s) \in Nat
  OBVIOUS
<1>2. 0 \in Y
  <2> DEFINE k == [n \in 0..0 |-> <<>>]
  <2>1. k = [n \in 0..0 |-> KeptStep(s, X, k, n)]
    BY DEF KeptStep
  <2> QED  BY <1>1, <2>1
<1>3. ASSUME NEW m \in 1..Len(s), m - 1 \in Y
      PROVE  m \in Y
  <2>1. PICK k : k = [n \in 0..m - 1 |-> KeptStep(s, X, k, n)]
    BY <1>3
  <2>2. \A n \in 0..m - 1 : k[n] = KeptStep(s, X, k, n)
    BY <2>1
  <2> DEFINE h == [n \in 0..m |-> IF n = m THEN KeptStep(s, X, k, m) ELSE k[n]]
  <2>3. ASSUME NEW n \in 0..m
        PROVE  h[n] = KeptStep(s, X, h, n)
    <3>1. n # 0 => n - 1 \in 0..m /\ n - 1 # m
      OBVIOUS
    <3>2. n # 0 => h[n - 1] = k[n - 1]
      BY <3>1
    <3>3. h[n] = KeptStep(s, X, k, n)
      <4>1. n # m => n \in 0..m - 1
        OBVIOUS
      <4> QED  BY <2>2, <4>1
    <3> HIDE DEF h
    <3> QED  BY <3>2, <3>3 DEF KeptStep
  <2>4. h = [n \in 0..m |-> h[n]]
    OBVIOUS
  <2> HIDE DEF h
  <2>5. h = [n \in 0..m |-> KeptStep(s, X, h, n)]
    BY <2>3, <2>4
  <2> QED  BY <1>1, <2>5
<1> HIDE DEF Y
<1>4. 0..Len(s) \subseteq Y
  BY <1>1, <1>2, <1>3, AllUpTo
<1>5. Len(s) \in Y
  BY <1>1, <1>4
<1> QED  BY <1>5 DEF Y

\* The elements kept are those of the sequence that are in the set.
LEMMA KeptFacts ==
  ASSUME NEW Elem, NEW s \in Seq(Elem), NEW X
  PROVE  K!Kept(s, X) \in Seq(Elem) /\ K!ToSet(K!Kept(s, X)) = K!ToSet(s) \intersect X
<1> DEFINE kept == CHOOSE k : k = [n \in 0..Len(s) |-> KeptStep(s, X, k, n)]
           Upto(n) == {s[i] : i \in 1..n} \intersect X
           Y == {n \in 0..Len(s) : kept[n] \in Seq(Elem) /\ K!ToSet(kept[n]) = Upto(n)}
<1>1. kept = [n \in 0..Len(s) |-> KeptStep(s, X, kept, n)]
  BY KeptExists
<1>2. K!Kept(s, X) = kept[Len(s)]
  BY DEF K!Kept, KeptStep
<1> HIDE DEF kept
<1>3. \A n \in 0..Len(s) : kept[n] = KeptStep(s, X, kept, n)
  BY <1>1
<1>4. Len(s) \in Nat
  OBVIOUS
<1>5. 0 \in Y
  <2>1. kept[0] = <<>>
    BY <1>3, <1>4 DEF KeptStep
  <2>2. K!ToSet(<<>>) = {} /\ Upto(0) = {}
    BY DEF K!ToSet
  <2> HIDE DEF Upto
  <2>3. <<>> \in Seq(Elem) /\ 0 \in 0..Len(s)
    BY <1>4
  <2>4. kept[0] \in Seq(Elem) /\ K!ToSet(kept[0]) = Upto(0)
    BY <2>1, <2>2, <2>3
  <2> QED  BY <2>3, <2>4
<1>6. ASSUME NEW n \in 1..Len(s), n - 1 \in Y
      PROVE  n \in Y
  <2> DEFINE q == kept[n - 1]
  <2>1. q \in Seq(Elem) /\ K!ToSet(q) = Upto(n - 1) /\ s[n] \in Elem /\ n \in 0..Len(s)
    BY <1>6
  <2>2. kept[n] = IF s[n] \in X THEN Append(q, s[n]) ELSE q
    BY <1>3, <2>1 DEF KeptStep
  <2>3. Upto(n) = IF s[n] \in X THEN Upto(n - 1) \union {s[n]} ELSE Upto(n - 1)
    <3>1. \A i \in 1..n : i = n \/ i \in 1..n - 1
      OBVIOUS
    <3>2. n \in 1..n /\ \A i \in 1..n - 1 : i \in 1..n
      OBVIOUS
    <3> QED  BY <3>1, <3>2
  <2> HIDE DEF q
  <2>4. K!ToSet(Append(q, s[n])) = K!ToSet(q) \union {s[n]}
    <3> DEFINE b == Append(q, s[n])
    <3>1. Len(b) = Len(q) + 1 /\ b[Len(q) + 1] = s[n] /\ (\A i \in 1..Len(q) : b[i] = q[i])
          /\ Len(q) \in Nat /\ DOMAIN b = 1..Len(q) + 1 /\ DOMAIN q = 1..Len(q)
      BY <2>1
    <3> HIDE DEF b
    <3>2. \A i \in 1..Len(q) + 1 : i \in 1..Len(q) \/ i = Len(q) + 1
      BY <3>1
    <3>3. Len(q) + 1 \in 1..Len(q) + 1 /\ \A i \in 1..Len(q) : i \in 1..Len(q) + 1
      BY <3>1
    <3>4. K!ToSet(b) = {b[i] : i \in 1..Len(q) + 1} /\ K!ToSet(q) = {q[i] : i \in 1..Len(q)}
      BY <3>1 DEF K!ToSet
    <3>5. K!ToSet(b) = K!ToSet(q) \union {s[n]}
      BY <3>1, <3>2, <3>3, <3>4
    <3> QED  BY <3>5 DEF b
  <2>5. Append(q, s[n]) \in Seq(Elem)
    BY <2>1
  <2> HIDE DEF Upto
  <2>6. kept[n] \in Seq(Elem) /\ K!ToSet(kept[n]) = Upto(n)
    BY <2>1, <2>2, <2>3, <2>4, <2>5
  <2> QED  BY <2>1, <2>6
<1>7. Len(s) \in Y
  <2> HIDE DEF Y
  <2>1. 0..Len(s) \subseteq Y
    BY <1>4, <1>5, <1>6, AllUpTo
  <2> QED  BY <1>4, <2>1
<1>8. Upto(Len(s)) = K!ToSet(s) \intersect X
  BY <1>4 DEF K!ToSet
<1> QED  BY <1>2, <1>7, <1>8

\* What a sequence lists.
LEMMA SetOf ==
  /\ K!ToSet(<<>>) = {}
  /\ \A Elem : \A s \in Seq(Elem) :
       /\ K!ToSet(s) \subseteq Elem
       /\ \A i \in 1..Len(s) : s[i] \in K!ToSet(s)
       /\ s # <<>> => Head(s) = s[1] /\ Head(s) \in K!ToSet(s) /\ s[Len(s)] \in K!ToSet(s)
       /\ K!ToSet(s) # {} => s # <<>>
<1>1. K!ToSet(<<>>) = {}
  BY DEF K!ToSet
<1> SUFFICES ASSUME NEW Elem, NEW s \in Seq(Elem)
             PROVE  /\ K!ToSet(s) \subseteq Elem
                    /\ \A i \in 1..Len(s) : s[i] \in K!ToSet(s)
                    /\ s # <<>> => Head(s) = s[1] /\ Head(s) \in K!ToSet(s)
                                   /\ s[Len(s)] \in K!ToSet(s)
                    /\ K!ToSet(s) # {} => s # <<>>
  BY <1>1
<1>2. K!ToSet(s) = {s[i] : i \in 1..Len(s)} /\ Len(s) \in Nat
  BY DEF K!ToSet
<1>3. s # <<>> => 1 \in 1..Len(s) /\ Len(s) \in 1..Len(s) /\ Head(s) = s[1]
  BY <1>2, EmptySeq
<1> QED  BY <1>1, <1>2, <1>3

\* Two sequences, and one element more, list what they list together.
LEMMA SetOfConcat ==
  ASSUME NEW Elem, NEW s \in Seq(Elem), NEW t \in Seq(Elem)
  PROVE  K!ToSet(s \o t) = K!ToSet(s) \union K!ToSet(t)
<1> DEFINE a == s \o t
           m == Len(s)
           n == Len(t)
<1>1. m \in Nat /\ n \in Nat /\ Len(a) = m + n /\ a \in Seq(Elem)
  OBVIOUS
<1>2. \A i \in 1..m : i \in 1..m + n /\ a[i] = s[i]
  BY <1>1
<1>3. \A i \in 1..n : i + m \in 1..m + n /\ a[i + m] = t[i]
  BY <1>1
<1>4. \A i \in 1..m + n : i \in 1..m \/ (i - m \in 1..n /\ a[i] = t[i - m])
  BY <1>1
<1>5. /\ K!ToSet(a) = {a[i] : i \in 1..m + n}
      /\ K!ToSet(s) = {s[i] : i \in 1..m} /\ K!ToSet(t) = {t[i] : i \in 1..n}
  BY <1>1 DEF K!ToSet
<1> HIDE DEF a, m, n
<1>6. K!ToSet(a) = K!ToSet(s) \union K!ToSet(t)
  <2>1. \A i \in 1..m + n : a[i] \in K!ToSet(s) \union K!ToSet(t)
    BY <1>2, <1>4, <1>5
  <2>2. \A i \in 1..m : s[i] \in K!ToSet(a)
    BY <1>2, <1>5
  <2>3. \A i \in 1..n : t[i] \in K!ToSet(a)
    BY <1>3, <1>5
  <2> QED  BY <1>5, <2>1, <2>2, <2>3
<1> QED  BY <1>6 DEF a

\* Both copies of the cardinality are one.
LEMMA SelectCard == \A X : K!Cardinality(X) = Cardinality(X)
  BY DEF K!Cardinality, Cardinality

\* What SetClasses leaves: the marks the selection asks for, a listed item highlighted.
LEMMA SetClassesFacts ==
  ASSUME ctl \in K!Control
  PROVE  \E h \in K!ToSet(ctl.items) \union {K!None} :
           K!SetClasses = [ctl EXCEPT !.marked = K!ToSet(ctl.items) \intersect ctl.selected,
                                      !.highlighted = h]
<1> DEFINE marked == K!ToSet(ctl.items) \intersect ctl.selected
           order == IF marked = {} THEN ctl.items ELSE K!Kept(ctl.items, marked)
           h == IF order = <<>> THEN K!None ELSE Head(order)
<1>1. ctl.items \in Seq(K!Items)
  BY DEF K!Control
<1>2. order \in Seq(K!Items) /\ K!ToSet(order) \subseteq K!ToSet(ctl.items)
  BY <1>1, KeptFacts
<1>3. h \in K!ToSet(ctl.items) \union {K!None}
  <2> HIDE DEF order
  <2> QED  BY <1>2, SetOf
<1>4. K!SetClasses = [ctl EXCEPT !.marked = marked, !.highlighted = h]
  BY DEF K!SetClasses
<1> QED  BY <1>3, <1>4

\* The change event draws what is chosen.
LEMMA ChangeKept ==
  ASSUME ControlInv, K!Change
  PROVE  ControlInv'
<1>1. /\ ~K!Idle /\ now = "change" /\ K!Then(<<>>) /\ setup' = setup
      /\ ctl' = [ctl EXCEPT !.rendered = ctl.selected] /\ ctl \in K!Control
  <2>1. K!ToSet(K!Kept(ctl.dom, ctl.selected)) = ctl.selected
    <3>1. ctl.dom \in Seq(K!Items) /\ ctl.selected \subseteq K!ToSet(ctl.dom)
      BY DEF ControlInv, K!TypeOK, K!Control, Drawn
    <3>2. K!ToSet(K!Kept(ctl.dom, ctl.selected)) = K!ToSet(ctl.dom) \intersect ctl.selected
      BY <3>1, KeptFacts
    <3> QED  BY <3>1, <3>2
  <2> QED  BY <2>1, TopFacts DEF K!Change, K!Updated, K!Current, K!Run, K!Running, ControlInv,
                                 K!TypeOK
<1>2. /\ CallsShaped' /\ thrown' = thrown /\ awaited' = below /\ now' = next
      /\ Asked(agenda') = Asked(Tail(agenda))
  BY <1>1, Popped DEF ControlInv
<1>3. /\ awaited = {now} \union below /\ (IF below = {} THEN next = "idle" ELSE next \in below)
      /\ below \intersect HeadOnly = {} /\ ("unselect" \in below => setup.allowClear)
      /\ Asked(agenda) = Asked(Tail(agenda))
      /\ (below \intersect Asking = {} => Asked(Tail(agenda)) = {})
      /\ "ask data" \notin below
      /\ next \notin Chained
  BY <1>1, TopFacts DEF ControlInv, Before, Adjacent, Linked, Linking, Chained, Asking, LastOnly,
                        CloseTime, OpenTime, Attaching, Closing, Selecting
<1>4. K!TypeOK'
  BY <1>1, <1>2 DEF ControlInv, K!TypeOK, CallsShaped, K!Control
<1>5. Drawn'
  BY <1>1, <1>2, <1>3 DEF ControlInv, Drawn, Selecting, HeadOnly, K!Control
<1>6. Handled'
  BY <1>1, <1>2, <1>3 DEF ControlInv, Handled, Detached, Matched, HalfOpen, Chained, HeadOnly,
                          K!Control
<1>7. Marked'
  BY <1>1, <1>2, <1>3 DEF ControlInv, Marked, MarksOK, Chained, Fixing, Closing, Asking,
                          HeadOnly, K!Control
<1>8. Answering'
  BY <1>1, <1>2, <1>3 DEF ControlInv, Answering, Asking, OpenTime, Attaching, HeadOnly, K!Control
<1>9. Bounded'
  BY <1>1, <1>2, <1>3 DEF ControlInv, Bounded, Limited, Listed, Room, Openers, Asking, Selecting,
                          Unselecting, Closing, HeadOnly, K!Control
<1> QED  BY <1>2, <1>4, <1>5, <1>6, <1>7, <1>8, <1>9 DEF ControlInv

\* Marks set when the list opens, or when the selection changes while it is open.
LEMMA MarkKept ==
  ASSUME ControlInv, K!MarkOnOpen
  PROVE  ControlInv'
<1>1. PICK h \in K!ToSet(ctl.items) \union {K!None} :
        /\ ~K!Idle /\ now = "set classes" /\ K!Then(<<>>) /\ setup' = setup
        /\ ctl' = [ctl EXCEPT !.marked = K!ToSet(ctl.items) \intersect ctl.selected,
                              !.highlighted = h]
        /\ ctl \in K!Control /\ h \in K!Items \union {K!None}
  <2>1. ctl \in K!Control /\ K!ToSet(ctl.items) \subseteq K!Items
    BY SetOf DEF ControlInv, K!TypeOK, K!Control
  <2> QED  BY <2>1, SetClassesFacts, TopFacts DEF K!MarkOnOpen, K!Run, K!Running, ControlInv
<1>2. /\ CallsShaped' /\ thrown' = thrown /\ awaited' = below /\ now' = next
      /\ Asked(agenda') = Asked(Tail(agenda))
  BY <1>1, Popped DEF ControlInv
<1>3. /\ awaited = {now} \union below /\ (IF below = {} THEN next = "idle" ELSE next \in below)
      /\ below \intersect HeadOnly = {} /\ ("unselect" \in below => setup.allowClear)
      /\ Asked(agenda) = Asked(Tail(agenda))
      /\ (below \intersect Asking = {} => Asked(Tail(agenda)) = {})
      /\ "remove open class" \notin below
      /\ next = "add open class"
      /\ below # {}
  BY <1>1, TopFacts DEF ControlInv, Before, Adjacent, Linked, Linking, Chained, Asking, LastOnly,
                        CloseTime, OpenTime, Attaching, Closing, Selecting
<1>4. K!TypeOK'
  BY <1>1, <1>2 DEF ControlInv, K!TypeOK, CallsShaped, K!Control
<1>5. Drawn'
  BY <1>1, <1>2, <1>3 DEF ControlInv, Drawn, Selecting, HeadOnly, K!Control
<1>6. Handled'
  BY <1>1, <1>2, <1>3 DEF ControlInv, Handled, Detached, Matched, HalfOpen, Chained, HeadOnly,
                          K!Control
<1>7. Marked'
  BY <1>1, <1>2, <1>3 DEF ControlInv, Marked, MarksOK, Chained, Fixing, Closing, Asking,
                          HeadOnly, K!Control
<1>8. Answering'
  BY <1>1, <1>2, <1>3 DEF ControlInv, Answering, Asking, OpenTime, Attaching, HeadOnly, K!Control
<1>9. Bounded'
  BY <1>1, <1>2, <1>3 DEF ControlInv, Bounded, Limited, Listed, Room, Openers, Asking, Selecting,
                          Unselecting, Closing, HeadOnly, K!Control
<1> QED  BY <1>2, <1>4, <1>5, <1>6, <1>7, <1>8, <1>9 DEF ControlInv

LEMMA MarkOpenKept ==
  ASSUME ControlInv, K!MarkIfOpen, ctl.isOpen
  PROVE  ControlInv'
<1>1. PICK h \in K!ToSet(ctl.items) \union {K!None} :
        /\ ~K!Idle /\ now = "set classes if open" /\ ctl.isOpen /\ K!Then(<<>>) /\ setup' = setup
        /\ ctl' = [ctl EXCEPT !.marked = K!ToSet(ctl.items) \intersect ctl.selected,
                              !.highlighted = h]
        /\ ctl \in K!Control /\ h \in K!Items \union {K!None}
  <2>1. ctl \in K!Control /\ K!ToSet(ctl.items) \subseteq K!Items
    BY SetOf DEF ControlInv, K!TypeOK, K!Control
  <2> QED  BY <2>1, SetClassesFacts, TopFacts DEF K!MarkIfOpen, K!Run, K!Running, ControlInv
<1>2. /\ CallsShaped' /\ thrown' = thrown /\ awaited' = below /\ now' = next
      /\ Asked(agenda') = Asked(Tail(agenda))
  BY <1>1, Popped DEF ControlInv
<1>3. /\ awaited = {now} \union below /\ (IF below = {} THEN next = "idle" ELSE next \in below)
      /\ below \intersect HeadOnly = {} /\ ("unselect" \in below => setup.allowClear)
      /\ Asked(agenda) = Asked(Tail(agenda))
      /\ (below \intersect Asking = {} => Asked(Tail(agenda)) = {})
      /\ "ask data" \notin below
      /\ next \notin Chained
  BY <1>1, TopFacts DEF ControlInv, Before, Adjacent, Linked, Linking, Chained, Asking, LastOnly,
                        CloseTime, OpenTime, Attaching, Closing, Selecting
<1>4. K!TypeOK'
  BY <1>1, <1>2 DEF ControlInv, K!TypeOK, CallsShaped, K!Control
<1>5. Drawn'
  BY <1>1, <1>2, <1>3 DEF ControlInv, Drawn, Selecting, HeadOnly, K!Control
<1>6. Handled'
  BY <1>1, <1>2, <1>3 DEF ControlInv, Handled, Detached, Matched, HalfOpen, Chained, HeadOnly,
                          K!Control
<1>7. Marked'
  BY <1>1, <1>2, <1>3 DEF ControlInv, Marked, MarksOK, Chained, Fixing, Closing, Asking,
                          HeadOnly, K!Control
<1>8. Answering'
  BY <1>1, <1>2, <1>3 DEF ControlInv, Answering, Asking, OpenTime, Attaching, HeadOnly, K!Control
<1>9. Bounded'
  BY <1>1, <1>2, <1>3 DEF ControlInv, Bounded, Limited, Listed, Room, Openers, Asking, Selecting,
                          Unselecting, Closing, HeadOnly, K!Control
<1> QED  BY <1>2, <1>4, <1>5, <1>6, <1>7, <1>8, <1>9 DEF ControlInv

LEMMA MarkClosedKept ==
  ASSUME ControlInv, K!MarkIfOpen, ~ctl.isOpen
  PROVE  ControlInv'
<1>1. /\ ~K!Idle /\ now = "set classes if open" /\ K!Then(<<>>) /\ setup' = setup
      /\ ctl' = ctl /\ ctl \in K!Control /\ ~ctl.isOpen
  BY TopFacts DEF K!MarkIfOpen, K!Run, K!Running, ControlInv, K!TypeOK
<1>2. /\ CallsShaped' /\ thrown' = thrown /\ awaited' = below /\ now' = next
      /\ Asked(agenda') = Asked(Tail(agenda))
  BY <1>1, Popped DEF ControlInv
<1>3. /\ awaited = {now} \union below /\ (IF below = {} THEN next = "idle" ELSE next \in below)
      /\ below \intersect HeadOnly = {} /\ ("unselect" \in below => setup.allowClear)
      /\ Asked(agenda) = Asked(Tail(agenda))
      /\ (below \intersect Asking = {} => Asked(Tail(agenda)) = {})
      /\ "ask data" \notin below
      /\ next \notin Chained
  BY <1>1, TopFacts DEF ControlInv, Before, Adjacent, Linked, Linking, Chained, Asking, LastOnly,
                        CloseTime, OpenTime, Attaching, Closing, Selecting
<1>4. K!TypeOK'
  BY <1>1, <1>2 DEF ControlInv, K!TypeOK, CallsShaped, K!Control
<1>5. Drawn'
  BY <1>1, <1>2, <1>3 DEF ControlInv, Drawn, Selecting, HeadOnly, K!Control
<1>6. Handled'
  BY <1>1, <1>2, <1>3 DEF ControlInv, Handled, Detached, Matched, HalfOpen, Chained, HeadOnly,
                          K!Control
<1>7. Marked'
  BY <1>1, <1>2, <1>3 DEF ControlInv, Marked, MarksOK, Chained, Fixing, Closing, Asking,
                          HeadOnly, K!Control
<1>8. Answering'
  BY <1>1, <1>2, <1>3 DEF ControlInv, Answering, Asking, OpenTime, Attaching, HeadOnly, K!Control
<1>9. Bounded'
  BY <1>1, <1>2, <1>3 DEF ControlInv, Bounded, Limited, Listed, Room, Openers, Asking, Selecting,
                          Unselecting, Closing, HeadOnly, K!Control
<1> QED  BY <1>2, <1>4, <1>5, <1>6, <1>7, <1>8, <1>9 DEF ControlInv

LEMMA ChangeCall == K!Do("change") \in K!Call /\ K!Do("change").do = "change"
<1>1. "change" \in K!CallNames
  BY DEF K!CallNames
<1> QED  BY <1>1, CallFacts

LEMMA NoCalls == <<>> \in Seq(K!Call) /\ \A i \in 1..Len(<<>>) : FALSE
<1>1. Len(<<>>) = 0
  OBVIOUS
<1>2. \A i \in 1..Len(<<>>) : FALSE
  BY <1>1
<1>3. <<>> \in Seq(K!Call)
  OBVIOUS
<1> QED  BY <1>2, <1>3

\* An exception ends every call in progress.
LEMMA ThrowKept ==
  ASSUME ControlInv, ~K!Idle, now \in K!Events, NEW e \in {"TypeError", "RangeError"}, K!Throw(e),
         UNCHANGED <<setup, ctl>>,
         e # "RangeError" => "remove open class" \notin awaited
  PROVE  ControlInv'
<1>1. agenda' = <<>> /\ thrown' = thrown \union {e} /\ setup' = setup /\ ctl' = ctl
  BY DEF K!Throw
<1>2. now' = "idle" /\ awaited' = {} /\ Asked(agenda') = {} /\ CallsShaped'
  <2>1. CallsShaped'
    BY <1>1, NoCalls, CalledEmpty DEF CallsShaped
  <2> QED  BY <1>1, <2>1, CalledEmpty DEF now, awaited
<1>3. K!TypeOK'
  BY <1>1, <1>2 DEF ControlInv, K!TypeOK, CallsShaped
<1>4. Drawn'
  BY <1>1, <1>2 DEF ControlInv, Drawn, Selecting, K!Events
<1>5. Handled'
  <2>1. "RangeError" \notin thrown' => "RangeError" \notin thrown
          /\ "remove open class" \notin awaited
    BY <1>1
  <2>2. now \notin {"show dropdown", "set classes", "add open class"}
    BY DEF K!Events
  <2>3. "RangeError" \notin thrown' => Matched
    BY <2>1, <2>2 DEF ControlInv, Handled
  <2>4. Matched => Matched'
    BY <1>1 DEF Matched
  <2> QED  BY <1>2, <2>3, <2>4 DEF Handled
<1>6. Marked' /\ Answering'
  BY <1>1, <1>2 DEF Marked, Answering
<1>7. Bounded'
  BY <1>1, <1>2 DEF ControlInv, Bounded, Limited, Selecting, Unselecting
<1> QED  BY <1>2, <1>3, <1>4, <1>5, <1>6, <1>7 DEF ControlInv

\* A handler of the page prevents an event: none of its listeners is called.
LEMMA PreventPickKept ==
  ASSUME ControlInv, ~K!Idle, K!Then(<<>>), UNCHANGED <<setup, ctl>>,
         now \in {"none", "select", "unselect"}, setup.prevent = now
  PROVE  ControlInv'
<1>1. /\ ~K!Idle /\ K!Then(<<>>) /\ UNCHANGED <<setup, ctl>> /\ ctl \in K!Control
      /\ now \in {"none", "select", "unselect"} /\ setup.prevent = now
  BY DEF ControlInv, K!TypeOK
<1>2. /\ CallsShaped' /\ thrown' = thrown /\ awaited' = below /\ now' = next
      /\ Asked(agenda') = Asked(Tail(agenda))
  BY <1>1, Popped DEF ControlInv
<1>3. /\ awaited = {now} \union below /\ (IF below = {} THEN next = "idle" ELSE next \in below)
      /\ below \intersect HeadOnly = {} /\ ("unselect" \in below => setup.allowClear)
      /\ Asked(agenda) = Asked(Tail(agenda))
      /\ (below \intersect Asking = {} => Asked(Tail(agenda)) = {})
      /\ "ask data" \notin below
      /\ ("remove open class" \notin below \/ now = "select")
      /\ next \notin Chained
  BY <1>1, TopFacts DEF ControlInv, Before, Adjacent, Linked, Linking, Chained, Asking, LastOnly,
                        CloseTime, OpenTime, Attaching, Closing, Selecting
<1>4. K!TypeOK'
  BY <1>1, <1>2 DEF ControlInv, K!TypeOK, CallsShaped, K!Control
<1>5. Drawn'
  BY <1>1, <1>2, <1>3 DEF ControlInv, Drawn, Selecting, HeadOnly, K!Control
<1>6. Handled'
  BY <1>1, <1>2, <1>3 DEF ControlInv, Handled, Detached, Matched, HalfOpen, Chained, HeadOnly,
                          K!Control
<1>7. Marked'
  BY <1>1, <1>2, <1>3 DEF ControlInv, Marked, MarksOK, Chained, Fixing, Closing, Asking,
                          HeadOnly, K!Control
<1>8. Answering'
  BY <1>1, <1>2, <1>3 DEF ControlInv, Answering, Asking, OpenTime, Attaching, HeadOnly, K!Control
<1>9. Bounded'
  BY <1>1, <1>2, <1>3 DEF ControlInv, Bounded, Limited, Listed, Room, Openers, Asking, Selecting,
                          Unselecting, Closing, HeadOnly, K!Control
<1> QED  BY <1>2, <1>4, <1>5, <1>6, <1>7, <1>8, <1>9 DEF ControlInv

LEMMA PreventKept == ControlInv /\ K!Prevent => ControlInv'
<1> SUFFICES ASSUME ControlInv, K!Prevent PROVE ControlInv'
  OBVIOUS
<1>1. ~K!Idle /\ setup.prevent = now /\ UNCHANGED <<setup, ctl>> /\ setup \in Setups
  BY TopFacts DEF K!Prevent, ControlInv, K!TypeOK
<1>2. setup.prevent \in {"none", "open", "close", "select", "unselect"}
  BY <1>1, SetupsAssumption
<1>3. CASE setup.prevent \in {"open", "close"}
  <2>1. "remove open class" \notin awaited
    <3>1. awaited = {now} \union below /\ \A x \in below : Before(now, x)
      BY <1>1, TopFacts DEF ControlInv
    <3>2. setup.prevent = "open" => "remove open class" \notin awaited
      BY <1>1, <3>1 DEF Before, CloseTime, Closing, Selecting
    <3> QED  BY <1>3, <3>2 DEF ControlInv, Handled
  <2>2. K!Throw("TypeError")
    BY <1>3 DEF K!Prevent
  <2> QED  BY <1>1, <1>3, <2>1, <2>2, ThrowKept DEF K!Events
<1>4. CASE setup.prevent \notin {"open", "close"}
  <2>1. /\ now \in {"none", "select", "unselect"} /\ K!Then(<<>>) /\ setup' = setup /\ ctl' = ctl
        /\ setup.prevent = now
    BY <1>1, <1>2, <1>4 DEF K!Prevent
  <2> QED  BY <1>1, <2>1, PreventPickKept
<1> QED  BY <1>3, <1>4

\* An option is chosen, or no longer chosen.
LEMMA SelectDataKept ==
  ASSUME ControlInv, K!SelectData
  PROVE  ControlInv'
<1> DEFINE x == agenda[1].item
           c == K!Do("change")
           chosen == IF setup.multiple THEN ctl.selected \union {x} ELSE {x}
<1>1. /\ ~K!Idle /\ now = "select data" /\ K!Then(<<c>>) /\ setup' = setup
      /\ ctl' = [ctl EXCEPT !.selected = chosen] /\ ctl \in K!Control
      /\ c \in K!Call /\ c.do = "change"
      /\ x \in K!ToSet(ctl.items) /\ x \in K!ToSet(ctl.dom) /\ x \in K!Items
  <2>1. /\ ~K!Idle /\ now = "select data" /\ K!Then(<<c>>) /\ setup' = setup
        /\ ctl' = [ctl EXCEPT !.selected = chosen] /\ ctl \in K!Control
    BY TopFacts DEF K!SelectData, K!Run, K!Running, ControlInv, K!TypeOK
  <2>2. x \in K!ToSet(ctl.items) /\ x \in K!ToSet(ctl.dom)
    BY <2>1 DEF ControlInv, Drawn, Selecting
  <2>3. K!ToSet(ctl.dom) \subseteq K!Items
    BY <2>1, SetOf DEF K!Control
  <2>4. c \in K!Call /\ c.do = "change"
    BY ChangeCall
  <2>5. x \in K!Items
    BY <2>2, <2>3
  <2> HIDE DEF c
  <2> QED  BY <2>1, <2>2, <2>4, <2>5
<1>2. /\ awaited = {now} \union below /\ (IF below = {} THEN next = "idle" ELSE next \in below)
      /\ below \intersect HeadOnly = {} /\ ("unselect" \in below => setup.allowClear)
      /\ Asked(agenda) = (IF now \in Asking THEN {agenda[1].term} ELSE {}) \union Asked(Tail(agenda))
      /\ (below \intersect Asking = {} => Asked(Tail(agenda)) = {})
      /\ \A y \in below : Before(now, y)
      /\ below # {} => Adjacent(now, next)
  BY <1>1, TopFacts DEF ControlInv, Before, LastOnly
<1>3. /\ (\A y \in below : Before(c.do, y)) /\ (below = {} \/ Adjacent(c.do, next))
      /\ "ask data" \notin below
  BY <1>1, <1>2 DEF Before, Adjacent, Linked, Linking, Chained, Asking, LastOnly, HeadOnly,
      CloseTime, OpenTime, Attaching, Closing, Selecting
<1> HIDE DEF c
<1>4. /\ CallsShaped' /\ thrown' = thrown /\ awaited' = {c.do} \union below /\ now' = c.do
      /\ Asked(agenda') = (IF c.do \in Asking THEN {c.term} ELSE {}) \union Asked(Tail(agenda))
      /\ agenda'[1] = c
  BY <1>1, <1>3, PushedOne DEF ControlInv, Linking
<1>5. K!TypeOK'
  BY <1>1, <1>4 DEF ControlInv, K!TypeOK, CallsShaped, K!Control
<1>6. Drawn'
  BY <1>1, <1>2, <1>3, <1>4 DEF ControlInv, Drawn, Selecting, HeadOnly, K!Control
<1>7. Handled'
  BY <1>1, <1>2, <1>3, <1>4 DEF ControlInv, Handled, Detached, Matched, HalfOpen, Chained,
                                HeadOnly, K!Control
<1>8. Marked'
  BY <1>1, <1>2, <1>3, <1>4 DEF ControlInv, Marked, MarksOK, Chained, Fixing, Closing, Asking,
                                HeadOnly, K!Control
<1>9. Answering'
  BY <1>1, <1>2, <1>3, <1>4 DEF ControlInv, Answering, Asking, OpenTime, Attaching, HeadOnly,
                                K!Control
<1>10. Bounded'
  <2>1. IsFiniteSet(chosen) /\ (Limited => Cardinality(chosen) <= setup.maximumSelectionLength)
    <3>1. IsFiniteSet(ctl.selected) /\ (Limited => Room)
      BY <1>1 DEF ControlInv, Bounded, Selecting
    <3>2. /\ IsFiniteSet(ctl.selected \union {x})
          /\ Cardinality(ctl.selected \union {x}) \in {Cardinality(ctl.selected), Cardinality(ctl.selected) + 1}
          /\ Cardinality(ctl.selected) \in Nat
      BY <3>1, FS_AddElement, FS_CardinalityType
    <3>3. IsFiniteSet({x}) /\ Cardinality({x}) = 1
      BY FS_Singleton
    <3>4. setup.maximumSelectionLength \in Nat
      BY SetupsAssumption DEF ControlInv, K!TypeOK
    <3> QED  BY <3>1, <3>2, <3>3, <3>4 DEF Room, Limited
  <2> QED  BY <1>1, <1>2, <1>3, <1>4, <2>1 DEF ControlInv, Bounded, Limited, Listed, Openers,
                                               Asking, Selecting, Unselecting, Closing, HeadOnly,
                                                   K!Control
<1> QED  BY <1>4, <1>5, <1>6, <1>7, <1>8, <1>9, <1>10 DEF ControlInv

LEMMA UnselectDataKept ==
  ASSUME ControlInv, K!UnselectData
  PROVE  ControlInv'
<1> DEFINE x == agenda[1].item
           c == K!Do("change")
           left == IF setup.multiple THEN ctl.selected \ {x} ELSE ctl.selected
<1>1. /\ ~K!Idle /\ now = "unselect data" /\ setup' = setup /\ ctl \in K!Control
      /\ c \in K!Call /\ c.do = "change"
      /\ ctl' = [ctl EXCEPT !.selected = left]
      /\ setup.multiple => K!Then(<<c>>)
      /\ ~setup.multiple => K!Then(<<>>) /\ left = ctl.selected
  <2>1. c \in K!Call /\ c.do = "change"
    BY ChangeCall
  <2> QED  BY <2>1, TopFacts DEF K!UnselectData, K!Run, K!Running, K!When, ControlInv, K!TypeOK
<1>11. left \subseteq ctl.selected
  OBVIOUS
<1>12. IsFiniteSet(ctl.selected) /\ Cardinality(ctl.selected) \in Nat
  BY FS_CardinalityType DEF ControlInv, Bounded
<1>13. /\ IsFiniteSet(left) /\ Cardinality(left) \in Nat
       /\ Cardinality(left) <= Cardinality(ctl.selected)
       /\ setup.multiple /\ x \in ctl.selected => Cardinality(left) < Cardinality(ctl.selected)
  <2>1. /\ IsFiniteSet(ctl.selected \ {x})
        /\ Cardinality(ctl.selected \ {x}) =
             IF x \in ctl.selected THEN Cardinality(ctl.selected) - 1 ELSE Cardinality(ctl.selected)
    BY <1>12, FS_RemoveElement
  <2>2. Cardinality(ctl.selected \ {x}) \in Nat
    BY <2>1, FS_CardinalityType
  <2> QED  BY <1>12, <2>1, <2>2
<1> HIDE DEF c, left
<1>2. /\ awaited = {now} \union below /\ (IF below = {} THEN next = "idle" ELSE next \in below)
      /\ below \intersect HeadOnly = {} /\ ("unselect" \in below => setup.allowClear)
      /\ Asked(agenda) = (IF now \in Asking THEN {agenda[1].term} ELSE {}) \union Asked(Tail(agenda))
      /\ (below \intersect Asking = {} => Asked(Tail(agenda)) = {})
      /\ \A x1 \in below : Before(now, x1)
      /\ below # {} => Adjacent(now, next)
  BY <1>1, TopFacts DEF ControlInv, Before, LastOnly
<1>3. /\ (\A x1 \in below : Before(c.do, x1)) /\ (below = {} \/ Adjacent(c.do, next))
      /\ "ask data" \notin below /\ "remove open class" \notin below /\ next \notin Chained
  BY <1>1, <1>2 DEF Before, Adjacent, Linked, Linking, Chained, Asking, LastOnly, HeadOnly,
      CloseTime, OpenTime, Attaching, Closing, Selecting
<1>4. /\ CallsShaped' /\ thrown' = thrown /\ Asked(agenda') = Asked(Tail(agenda))
      /\ setup.multiple => awaited' = {"change"} \union below /\ now' = "change"
      /\ ~setup.multiple => awaited' = below /\ now' = next
  <2>1. CASE setup.multiple
    <3>1. K!Then(<<c>>) /\ c.do \notin Asking
      BY <1>1, <2>1 DEF Asking
    <3> QED  BY <1>1, <1>3, <2>1, <3>1, PushedOne DEF ControlInv, Linking
  <2>2. CASE ~setup.multiple
    <3>1. K!Then(<<>>)
      BY <1>1, <2>2
    <3> QED  BY <1>1, <2>2, <3>1, Popped DEF ControlInv
  <2> QED  BY <2>1, <2>2
<1>5. K!TypeOK'
  BY <1>1, <1>4, <1>11 DEF ControlInv, K!TypeOK, CallsShaped, K!Control
<1>6. Drawn'
  BY <1>1, <1>2, <1>3, <1>4, <1>11 DEF ControlInv, Drawn, Selecting, HeadOnly, K!Control
<1>7. Handled'
  BY <1>1, <1>2, <1>3, <1>4 DEF ControlInv, Handled, Detached, Matched, HalfOpen, Chained,
                                HeadOnly, K!Control
<1>8. Marked'
  BY <1>1, <1>2, <1>3, <1>4 DEF ControlInv, Marked, MarksOK, Chained, Fixing, Closing, Asking,
                                HeadOnly, K!Control
<1>9. Answering'
  BY <1>1, <1>2, <1>3, <1>4, ZenonT(40) DEF ControlInv, Answering, Asking, OpenTime,
                                Attaching, HeadOnly, K!Control
<1>10. Bounded'
  <2>1. setup.maximumSelectionLength \in Nat
    BY SetupsAssumption DEF ControlInv, K!TypeOK
  <2>2. /\ ctl'.selected = left /\ ctl'.items = ctl.items /\ ctl'.attached = ctl.attached
        /\ setup' = setup
    BY <1>1 DEF K!Control
  <2>3. Listed => Listed'
    BY <1>12, <1>13, <2>1, <2>2 DEF Listed, Room
  <2>4. Limited' <=> Limited
    BY <1>1, <1>4 DEF Limited
  <2>5. Limited => Cardinality(ctl.selected) <= setup.maximumSelectionLength
    BY DEF ControlInv, Bounded
  <2>6. Limited /\ awaited \intersect Openers # {} => Room'
    <3>1. awaited \intersect Openers # {} => setup.multiple /\ x \in ctl.selected
      BY <1>1 DEF ControlInv, Bounded, Unselecting
    <3> QED  BY <1>12, <1>13, <2>1, <2>2, <2>5, <3>1 DEF Room
  <2>7. Limited => Cardinality(ctl'.selected) <= setup.maximumSelectionLength
    BY <1>12, <1>13, <2>1, <2>2, <2>5
  <2>8. Limited' => (awaited' \intersect Openers # {} => Listed')
    BY <1>2, <1>4, <2>4, <2>6 DEF Listed, Openers
  <2> QED  BY <1>1, <1>2, <1>3, <1>4, <1>13, <2>2, <2>3, <2>4, <2>7, <2>8
           DEF ControlInv, Bounded, Openers, Asking, Selecting, Unselecting, Closing, HeadOnly
<1> QED  BY <1>4, <1>5, <1>6, <1>7, <1>8, <1>9, <1>10 DEF ControlInv

\* The cross of a single choice takes the value away.
LEMMA ClearValueKept ==
  ASSUME ControlInv, K!ClearValue
  PROVE  ControlInv'
<1> DEFINE c == K!Do("change")
<1>1. /\ ~K!Idle /\ now = "clear value" /\ K!Then(<<c>>) /\ setup' = setup
      /\ ctl' = [ctl EXCEPT !.selected = {}] /\ ctl \in K!Control
      /\ c \in K!Call /\ c.do = "change"
  <2>1. c \in K!Call /\ c.do = "change"
    BY ChangeCall
  <2> QED  BY <2>1, TopFacts DEF K!ClearValue, K!Run, K!Running, ControlInv, K!TypeOK
<1> HIDE DEF c
<1>2. /\ awaited = {now} \union below /\ (IF below = {} THEN next = "idle" ELSE next \in below)
      /\ below \intersect HeadOnly = {} /\ ("unselect" \in below => setup.allowClear)
      /\ Asked(agenda) = Asked(Tail(agenda))
      /\ (below \intersect Asking = {} => Asked(Tail(agenda)) = {})
      /\ \A x \in below : Before(now, x)
      /\ below # {} => Adjacent(now, next)
  BY <1>1, TopFacts DEF ControlInv, Before, LastOnly, Asking
<1>3. /\ (\A x \in below : Before(c.do, x)) /\ (below = {} \/ Adjacent(c.do, next))
      /\ "ask data" \notin below /\ "remove open class" \notin below
  BY <1>1, <1>2 DEF Before, Adjacent, Linked, Linking, Chained, Asking, LastOnly, HeadOnly,
      CloseTime, OpenTime, Attaching, Closing, Selecting
<1>4. /\ CallsShaped' /\ thrown' = thrown /\ awaited' = {"change"} \union below /\ now' = "change"
      /\ Asked(agenda') = Asked(Tail(agenda))
  <2>1. c.do \notin Asking
    BY <1>1 DEF Asking
  <2>2. c.do \notin Linking \union {"unselect"}
    BY <1>1 DEF Linking
  <2>3. /\ CallsShaped' /\ thrown' = thrown /\ awaited' = {c.do} \union below /\ now' = c.do
        /\ Asked(agenda') = (IF c.do \in Asking THEN {c.term} ELSE {}) \union Asked(Tail(agenda))
    BY <1>1, <1>3, <2>2, PushedOne DEF ControlInv
  <2> QED  BY <1>1, <2>1, <2>3
<1>5. K!TypeOK'
  BY <1>1, <1>4 DEF ControlInv, K!TypeOK, CallsShaped, K!Control
<1>6. Drawn'
  BY <1>1, <1>2, <1>3, <1>4 DEF ControlInv, Drawn, Selecting, HeadOnly, K!Control
<1>7. Handled'
  BY <1>1, <1>2, <1>3, <1>4 DEF ControlInv, Handled, Detached, Matched, HalfOpen, Chained,
                                HeadOnly, K!Control
<1>8. Marked'
  BY <1>1, <1>2, <1>3, <1>4 DEF ControlInv, Marked, MarksOK, Chained, Fixing, Closing, Asking,
                                HeadOnly, K!Control
<1>9. Answering'
  BY <1>1, <1>2, <1>3, <1>4 DEF ControlInv, Answering, Asking, OpenTime, Attaching, HeadOnly,
                                K!Control
<1>10. Bounded'
  <2>1. IsFiniteSet({}) /\ Cardinality({}) = 0
    BY FS_EmptySet
  <2>2. setup.maximumSelectionLength \in Nat
    BY SetupsAssumption DEF ControlInv, K!TypeOK
  <2>3. ctl'.selected = {} /\ setup' = setup
    BY <1>1 DEF K!Control
  <2>4. Cardinality(ctl'.selected) <= setup.maximumSelectionLength /\ IsFiniteSet(ctl'.selected)
        /\ (Limited => Room')
    BY <2>1, <2>2, <2>3 DEF Room, Limited
  <2> QED  BY <1>1, <1>2, <1>3, <1>4, <2>4
           DEF ControlInv, Bounded, Limited, Listed, Openers, Asking, Selecting, Unselecting,
               Closing, HeadOnly, K!Control
<1> QED  BY <1>4, <1>5, <1>6, <1>7, <1>8, <1>9, <1>10 DEF ControlInv

\* What is known of the calls below the one on top.
LEMMA WaitingFacts ==
  ASSUME CallsShaped, ~K!Idle
  PROVE  /\ awaited = {now} \union below
         /\ IF below = {} THEN next = "idle" ELSE next \in below
         /\ \A x \in below : Before(now, x)
         /\ below # {} => Adjacent(now, next)
         /\ "unselect" \in below => setup.allowClear
         /\ Asked(agenda) = (IF now \in Asking THEN {agenda[1].term} ELSE {}) \union Asked(Tail(agenda))
         /\ below \intersect Asking = {} => Asked(Tail(agenda)) = {}
  BY TopFacts

\* What is highlighted is chosen when the control closes, if it is to be.
LEMMA SelectOnCloseKept ==
  ASSUME ControlInv, K!SelectOnClose, ctl.highlighted # K!None
  PROVE  ControlInv'
<1> DEFINE c == K!DoItem("select", ctl.highlighted, FALSE)
<1>1. /\ ~K!Idle /\ now = "select on close" /\ K!Then(<<c>>) /\ setup' = setup
      /\ ctl' = ctl /\ ctl \in K!Control
  BY TopFacts DEF K!SelectOnClose, K!When, K!Run, K!Running, ControlInv, K!TypeOK
<1>2. c \in K!Call /\ c.do = "select" /\ c.item = ctl.highlighted /\ ~c.ctrl
  <2>1. "select" \in K!CallNames /\ ctl.highlighted \in K!Items \union {K!None}
    BY <1>1 DEF K!CallNames, K!Events, K!Control
  <2> QED  BY <2>1, TermsAssumption DEF K!DoItem, K!Do, K!Call
<1>3. c.item \in K!ToSet(ctl.items)
  BY <1>2 DEF ControlInv, Drawn
<1> HIDE DEF c
<1>4. /\ awaited = {now} \union below /\ next \in below /\ next = "remove open class"
      /\ below \intersect HeadOnly = {} /\ ("unselect" \in below => setup.allowClear)
      /\ \A x \in below : x # "ask data"
  BY <1>1, TopFacts DEF ControlInv, Before, Adjacent, Linked, Linking, OpenTime, Attaching
<1>12. /\ below \intersect Asking = {} /\ Asked(Tail(agenda)) = {}
       /\ (\A x \in below : Before("select", x)) /\ Adjacent("select", next)
  <2>1. /\ below \intersect Asking = {}
        /\ (\A x \in below : Before("select", x)) /\ Adjacent("select", next)
    BY <1>4 DEF Before, Adjacent, Linking, Chained, Asking, LastOnly, HeadOnly, CloseTime, Selecting
  <2> QED  BY <1>1, <2>1, WaitingFacts DEF ControlInv
<1>5. /\ CallsShaped' /\ thrown' = thrown /\ awaited' = {"select"} \union below /\ now' = "select"
      /\ Asked(agenda') = {} /\ agenda'[1] = c
  <2>1. c.do \notin Linking \union {"unselect"} /\ c.do \notin Asking
    BY <1>2 DEF Linking, Asking
  <2>2. /\ CallsShaped' /\ thrown' = thrown /\ awaited' = {c.do} \union below /\ now' = c.do
        /\ Asked(agenda') = (IF c.do \in Asking THEN {c.term} ELSE {}) \union Asked(Tail(agenda))
        /\ agenda'[1] = c
    BY <1>1, <1>2, <1>12, <2>1, PushedOne DEF ControlInv
  <2> QED  BY <1>2, <1>12, <2>1, <2>2
<1>6. K!TypeOK'
  BY <1>1, <1>5 DEF ControlInv, K!TypeOK, CallsShaped
<1>7. Drawn'
  BY <1>1, <1>3, <1>4, <1>5 DEF ControlInv, Drawn, Selecting
<1>8. Handled'
  BY <1>1, <1>4, <1>5 DEF ControlInv, Handled, Detached, Matched, HalfOpen
<1>9. Marked'
  BY <1>1, <1>4, <1>5 DEF ControlInv, Marked, MarksOK, Fixing
<1>10. Answering'
  BY <1>1, <1>4, <1>5 DEF ControlInv, Answering, Asking, OpenTime, Attaching
<1>11. Bounded'
  <2>1. setup.selectOnClose /\ ~Limited'
    BY <1>1, <1>4, <1>5 DEF ControlInv, Bounded, Limited
  <2> QED  BY <1>1, <1>2, <1>4, <1>5, <2>1 DEF ControlInv, Bounded, Unselecting, Openers
<1> QED  BY <1>5, <1>6, <1>7, <1>8, <1>9, <1>10, <1>11 DEF ControlInv

LEMMA NothingOnCloseKept ==
  ASSUME ControlInv, K!SelectOnClose, ctl.highlighted = K!None
  PROVE  ControlInv'
<1>1. /\ ~K!Idle /\ now = "select on close" /\ K!Then(<<>>) /\ setup' = setup
      /\ ctl' = ctl /\ ctl \in K!Control
  BY TopFacts DEF K!SelectOnClose, K!When, K!Run, K!Running, ControlInv, K!TypeOK
<1>2. /\ CallsShaped' /\ thrown' = thrown /\ awaited' = below /\ now' = next
      /\ Asked(agenda') = Asked(Tail(agenda))
  BY <1>1, Popped DEF ControlInv
<1>3. /\ awaited = {now} \union below /\ next \in below
      /\ below \intersect HeadOnly = {} /\ ("unselect" \in below => setup.allowClear)
      /\ Asked(agenda) = Asked(Tail(agenda))
      /\ next = "remove open class"
  BY <1>1, TopFacts DEF ControlInv, Before, Adjacent, Linked, Linking, Asking
<1>4. K!TypeOK'
  BY <1>1, <1>2 DEF ControlInv, K!TypeOK, CallsShaped
<1>5. Drawn'
  BY <1>1, <1>2, <1>3 DEF ControlInv, Drawn, Selecting, HeadOnly
<1>6. Handled'
  BY <1>1, <1>2, <1>3 DEF ControlInv, Handled, Detached, Matched, HalfOpen
<1>7. Marked'
  BY <1>1, <1>2, <1>3 DEF ControlInv, Marked, MarksOK, Fixing
<1>8. Answering'
  BY <1>1, <1>2, <1>3 DEF ControlInv, Answering, Asking, OpenTime, Attaching
<1>9. Bounded'
  BY <1>1, <1>2, <1>3 DEF ControlInv, Bounded, Limited, Listed, Room, Openers, Asking, Selecting,
                          Unselecting, Closing, HeadOnly
<1> QED  BY <1>2, <1>4, <1>5, <1>6, <1>7, <1>8, <1>9 DEF ControlInv

\* The list put up for a term: items of the control, none of which is marked.
LEMMA AskedFacts ==
  ASSUME ctl \in K!Control, ctl.selected \subseteq K!ToSet(ctl.dom), NEW t \in Terms
  PROVE  \E d \in Seq(K!Items), s \in Seq(K!Items) :
           /\ K!ToSet(s) \subseteq K!ToSet(d) /\ ctl.selected \subseteq K!ToSet(d)
           /\ (IF K!TooMany \/ K!TooShort(t) \/ K!TooLong(t) THEN K!Message(K!WithoutOldTags, t)
               ELSE K!Answered(K!WithoutOldTags, t))
                = [ctl EXCEPT !.dom = d, !.items = s, !.term = t, !.marked = {},
                              !.highlighted = K!None]
           /\ K!TooMany => s = <<>>
<1> DEFINE d1 == IF "Tags" \in K!DataAdapter THEN K!Kept(ctl.dom, Options \union ctl.selected)
                 ELSE ctl.dom
           tag == IF K!Tag(d1, t) THEN <<ItemOf[t]>> ELSE <<>>
           d2 == d1 \o tag
           s2 == tag \o K!Kept(d1, Hits[t])
           c1 == [ctl EXCEPT !.dom = d1]
           Put(d, s) == [ctl EXCEPT !.dom = d, !.items = s, !.term = t, !.marked = {},
                                    !.highlighted = K!None]
<1>1. ctl.dom \in Seq(K!Items) /\ DOMAIN ctl = DOMAIN ctl
  BY DEF K!Control
<1>2. d1 \in Seq(K!Items) /\ ctl.selected \subseteq K!ToSet(d1)
  <2> DEFINE q == K!Kept(ctl.dom, Options \union ctl.selected)
  <2>1. q \in Seq(K!Items) /\ K!ToSet(q) = K!ToSet(ctl.dom) \intersect (Options \union ctl.selected)
    BY <1>1, KeptFacts
  <2>2. d1 = IF "Tags" \in K!DataAdapter THEN q ELSE ctl.dom
    OBVIOUS
  <2> HIDE DEF q, d1
  <2> QED  BY <1>1, <2>1, <2>2
<1>3. tag \in Seq(K!Items)
  <2>1. K!Tag(d1, t) => ItemOf[t] \in K!Items
    BY DEF K!Tag, K!Items
  <2> QED  BY <2>1
<1>4. K!Kept(d1, Hits[t]) \in Seq(K!Items)
      /\ K!ToSet(K!Kept(d1, Hits[t])) = K!ToSet(d1) \intersect Hits[t]
  <2> HIDE DEF d1
  <2> QED  BY <1>2, KeptFacts
<1>5. K!WithoutOldTags = c1
  <2>1. ctl = [ctl EXCEPT !.dom = ctl.dom]
    BY DEF K!Control
  <2> QED  BY <2>1 DEF K!WithoutOldTags
<1>6. c1.dom = d1
  BY DEF K!Control
<1>7. K!Message(K!WithoutOldTags, t) = Put(d1, <<>>)
  BY <1>5 DEF K!Message, K!PutUp, K!Control
<1>8. K!Answered(K!WithoutOldTags, t) = Put(d2, s2)
  BY <1>5, <1>6 DEF K!Answered, K!PutUp, K!Matching, K!Control
<1>9. d2 \in Seq(K!Items) /\ s2 \in Seq(K!Items)
      /\ K!ToSet(d2) = K!ToSet(d1) \union K!ToSet(tag)
      /\ K!ToSet(s2) = K!ToSet(tag) \union (K!ToSet(d1) \intersect Hits[t])
  <2> DEFINE k == K!Kept(d1, Hits[t])
  <2> HIDE DEF d1, tag, k
  <2>1. k \in Seq(K!Items) /\ K!ToSet(k) = K!ToSet(d1) \intersect Hits[t]
    BY <1>4 DEF k
  <2>2. d1 \o tag \in Seq(K!Items) /\ tag \o k \in Seq(K!Items)
    BY <1>2, <1>3, <2>1
  <2>3. K!ToSet(d1 \o tag) = K!ToSet(d1) \union K!ToSet(tag)
    BY <1>2, <1>3, SetOfConcat
  <2>4. K!ToSet(tag \o k) = K!ToSet(tag) \union K!ToSet(k)
    BY <1>3, <2>1, SetOfConcat
  <2> QED  BY <2>1, <2>2, <2>3, <2>4 DEF k
<1>10. <<>> \in Seq(K!Items) /\ K!ToSet(<<>>) = {}
  BY SetOf
<1> HIDE DEF Put, d1, d2, s2, tag, c1
<1>11. CASE K!TooMany \/ K!TooShort(t) \/ K!TooLong(t)
  <2>1. Put(d1, <<>>) = [ctl EXCEPT !.dom = d1, !.items = <<>>, !.term = t, !.marked = {},
                                    !.highlighted = K!None]
    BY DEF Put
  <2> QED  BY <1>2, <1>7, <1>10, <1>11, <2>1
<1>12. CASE ~(K!TooMany \/ K!TooShort(t) \/ K!TooLong(t))
  <2>1. Put(d2, s2) = [ctl EXCEPT !.dom = d2, !.items = s2, !.term = t, !.marked = {},
                                    !.highlighted = K!None]
    BY DEF Put
  <2> QED  BY <1>2, <1>8, <1>9, <1>12, <2>1
<1> QED  BY <1>11, <1>12

\* The data adapter answers: the list is for the term asked.
LEMMA AskDataKept ==
  ASSUME ControlInv, K!AskData
  PROVE  ControlInv'
<1> DEFINE t == agenda[1].term
           c == K!Do("set classes if open")
<1>1. /\ ~K!Idle /\ now = "ask data" /\ K!Then(<<c>>) /\ setup' = setup /\ ctl \in K!Control
      /\ ctl' = IF K!TooMany \/ K!TooShort(t) \/ K!TooLong(t) THEN K!Message(K!WithoutOldTags, t)
                ELSE K!Answered(K!WithoutOldTags, t)
      /\ t \in Terms
  BY TopFacts DEF K!AskData, K!Run, K!Running, ControlInv, K!TypeOK, K!Call
<1>2. PICK d \in Seq(K!Items), s \in Seq(K!Items) :
           /\ K!ToSet(s) \subseteq K!ToSet(d) /\ ctl.selected \subseteq K!ToSet(d)
           /\ ctl' = [ctl EXCEPT !.dom = d, !.items = s, !.term = t, !.marked = {},
                                 !.highlighted = K!None]
           /\ K!TooMany => s = <<>>
  <2>1. ctl.selected \subseteq K!ToSet(ctl.dom)
    BY DEF ControlInv, Drawn
  <2> HIDE DEF t
  <2> QED  BY <1>1, <2>1, AskedFacts
<1>3. c \in K!Call /\ c.do = "set classes if open"
  <2>1. "set classes if open" \in K!CallNames
    BY DEF K!CallNames
  <2> QED  BY <2>1, CallFacts
<1> HIDE DEF c
<1>4. /\ awaited = {now} \union below /\ (IF below = {} THEN next = "idle" ELSE next \in below)
      /\ below \intersect HeadOnly = {} /\ ("unselect" \in below => setup.allowClear)
      /\ "remove open class" \notin below
      /\ Asked(agenda) = {t} \union Asked(Tail(agenda))
      /\ (below = {} \/ next \notin Chained)
      /\ \A x \in below : x # "ask data"
  BY <1>1, TopFacts DEF ControlInv, Before, Adjacent, Linked, Linking, CloseTime, Closing,
                        Selecting,
                        Asking, OpenTime, Attaching
<1>5. (\A x \in below : Before("set classes if open", x))
      /\ (below = {} \/ Adjacent("set classes if open", next))
  BY <1>4 DEF Before, Adjacent, Linking, LastOnly
<1>6. /\ CallsShaped' /\ thrown' = thrown /\ awaited' = {"set classes if open"} \union below
      /\ now' = "set classes if open" /\ Asked(agenda') = Asked(Tail(agenda))
  <2>1. c.do \notin Linking \union {"unselect"} /\ c.do \notin Asking
    BY <1>3 DEF Linking, Asking
  <2>2. /\ CallsShaped' /\ thrown' = thrown /\ awaited' = {c.do} \union below /\ now' = c.do
        /\ Asked(agenda') = (IF c.do \in Asking THEN {c.term} ELSE {}) \union Asked(Tail(agenda))
    BY <1>1, <1>3, <1>5, <2>1, PushedOne DEF ControlInv
  <2> QED  BY <1>3, <2>1, <2>2
<1>7. below \subseteq OpenTime /\ Asked(agenda') = {}
  <2>1. below \subseteq Asking \union OpenTime
    BY <1>1, <1>4 DEF ControlInv, Answering, Asking
  <2>2. below \subseteq OpenTime
    BY <1>4, <2>1 DEF Asking, HeadOnly
  <2>3. below \intersect Asking = {}
    BY <2>2 DEF Asking, OpenTime, Attaching
  <2> QED  BY <1>1, <1>6, <2>2, <2>3, TopFacts DEF ControlInv
<1>8. K!TypeOK'
  BY <1>1, <1>2, <1>6 DEF ControlInv, K!TypeOK, CallsShaped, K!Control
<1>9. Drawn'
  BY <1>1, <1>2, <1>4, <1>6 DEF ControlInv, Drawn, Selecting, K!Control
<1>10. Handled'
  BY <1>1, <1>2, <1>4, <1>6 DEF ControlInv, Handled, Detached, Matched, HalfOpen, K!Control
<1>11. Marked'
  BY <1>1, <1>2, <1>4, <1>6 DEF ControlInv, Marked, MarksOK, Fixing, K!Control
<1>12. Answering'
  <2>1. ctl.isOpen /\ (thrown = {} /\ ~ctl.unasked => t = ctl.box)
    BY <1>1, <1>4 DEF ControlInv, Answering
  <2>2. /\ ctl'.isOpen /\ ctl'.term = t /\ ctl'.box = ctl.box /\ ctl'.unasked = ctl.unasked
    BY <1>1, <1>2, <2>1 DEF K!Control
  <2>3. /\ awaited' \intersect Asking = {} /\ "remove open class" \notin awaited'
        /\ awaited' \subseteq OpenTime \union {"set classes if open"}
    BY <1>4, <1>6, <1>7 DEF Asking, OpenTime, Attaching
  <2> QED  BY <1>6, <1>7, <2>1, <2>2, <2>3 DEF Answering
<1>13. Bounded'
  <2>1. ctl'.selected = ctl.selected /\ ctl'.items = s
    BY <1>1, <1>2 DEF K!Control
  <2>2. Limited => s = <<>> \/ Room
    <3>1. setup.maximumSelectionLength \in Nat
      BY SetupsAssumption DEF ControlInv, K!TypeOK
    <3>2. Cardinality(ctl.selected) \in Nat
      BY FS_CardinalityType DEF ControlInv, Bounded
    <3>3. Limited /\ ~Room => K!TooMany
      BY <3>1, <3>2, SelectCard DEF Limited, Room, K!TooMany, K!DataAdapter, K!Given
    <3> QED  BY <1>2, <3>3
  <2>3. Limited' => Listed'
    BY <1>1, <1>6, <2>1, <2>2 DEF Limited, Listed, Room
  <2> QED  BY <1>1, <1>4, <1>6, <2>1, <2>3 DEF ControlInv, Bounded, Limited, Openers,
                                               Unselecting, Selecting
<1> QED  BY <1>6, <1>8, <1>9, <1>10, <1>11, <1>12, <1>13 DEF ControlInv

\* The elements of short sequences put together.
LEMMA JoinedTwo ==
  ASSUME NEW Elem, NEW s \in Seq(Elem), NEW t \in Seq(Elem)
  PROVE  /\ s \o t \in Seq(Elem) /\ Len(s \o t) = Len(s) + Len(t)
         /\ \A i \in 1..Len(s) : (s \o t)[i] = s[i]
         /\ \A i \in 1..Len(t) : (s \o t)[Len(s) + i] = t[i]
         /\ Len(s) \in Nat /\ Len(t) \in Nat
  OBVIOUS

LEMMA Joined ==
  ASSUME NEW Elem, NEW s \in Seq(Elem), NEW t \in Seq(Elem), NEW u \in Seq(Elem)
  PROVE  /\ s \o t \o u \in Seq(Elem)
         /\ Len(s \o t \o u) = Len(s) + Len(t) + Len(u)
         /\ \A i \in 1..Len(s) : (s \o t \o u)[i] = s[i]
         /\ \A i \in 1..Len(t) : (s \o t \o u)[Len(s) + i] = t[i]
         /\ \A i \in 1..Len(u) : (s \o t \o u)[Len(s) + Len(t) + i] = u[i]
<1>1. /\ s \o t \in Seq(Elem) /\ Len(s \o t) = Len(s) + Len(t)
      /\ Len(s) \in Nat /\ Len(t) \in Nat /\ Len(u) \in Nat
      /\ \A i \in 1..Len(s) : (s \o t)[i] = s[i]
      /\ \A i \in 1..Len(t) : (s \o t)[Len(s) + i] = t[i]
  BY JoinedTwo
<1>2. \A a \in Seq(Elem) : 
      /\ a \o u \in Seq(Elem) /\ Len(a \o u) = Len(a) + Len(u)
      /\ \A i \in 1..Len(a) : (a \o u)[i] = a[i]
      /\ \A i \in 1..Len(u) : (a \o u)[Len(a) + i] = u[i]
  BY JoinedTwo
<1>3. PICK a \in Seq(Elem) : a = s \o t
  BY <1>1
<1>4. /\ a \o u \in Seq(Elem) /\ Len(a \o u) = Len(a) + Len(u)
      /\ \A i \in 1..Len(a) : (a \o u)[i] = a[i]
      /\ \A i \in 1..Len(u) : (a \o u)[Len(a) + i] = u[i]
  BY <1>2
<1>5. \A i \in 1..Len(s) : i \in 1..Len(a)
  BY <1>1, <1>3
<1>6. \A i \in 1..Len(t) : Len(s) + i \in 1..Len(a)
  BY <1>1, <1>3
<1>7. /\ \A i \in 1..Len(s) : (a \o u)[i] = s[i]
      /\ \A i \in 1..Len(t) : (a \o u)[Len(s) + i] = t[i]
  BY <1>1, <1>3, <1>4, <1>5, <1>6
<1> QED  BY <1>1, <1>3, <1>4, <1>7

LEMMA Short ==
  \A a, b, c, d :
    /\ Len(<<a>>) = 1 /\ <<a>>[1] = a
    /\ Len(<<a, b>>) = 2 /\ <<a, b>>[1] = a /\ <<a, b>>[2] = b
    /\ Len(<<a, b, c>>) = 3 /\ <<a, b, c>>[1] = a /\ <<a, b, c>>[2] = b /\ <<a, b, c>>[3] = c
    /\ Len(<<a, b, c, d>>) = 4 /\ <<a, b, c, d>>[1] = a /\ <<a, b, c, d>>[2] = b
    /\ <<a, b, c, d>>[3] = c /\ <<a, b, c, d>>[4] = d
    /\ Len(<<>>) = 0
  OBVIOUS

\* Lists of up to five calls: their names, and what there is to show of their order.
LEMMA ListNames ==
  ASSUME NEW c, Len(c) \in 1..5
  PROVE  /\ c # <<>> /\ First(c) = c[1].do
         /\ Len(c) = 1 => Called(c) = {c[1].do}
         /\ Len(c) = 2 => Called(c) = {c[1].do, c[2].do}
         /\ Len(c) = 3 => Called(c) = {c[1].do, c[2].do, c[3].do}
         /\ Len(c) = 4 => Called(c) = {c[1].do, c[2].do, c[3].do, c[4].do}
         /\ Len(c) = 5 => Called(c) = {c[1].do, c[2].do, c[3].do, c[4].do, c[5].do}
<1>1. c # <<>>
  OBVIOUS
<1>2. 1..1 = {1} /\ 1..2 = {1, 2} /\ 1..3 = {1, 2, 3} /\ 1..4 = {1, 2, 3, 4}
        /\ 1..5 = {1, 2, 3, 4, 5}
  OBVIOUS
<1>3. Called(c) = {c[i].do : i \in 1..Len(c)}
  BY DEF Called
<1>4. Len(c) = 1 => Called(c) = {c[1].do}
  BY <1>2, <1>3
<1>5. Len(c) = 2 => Called(c) = {c[1].do, c[2].do}
  BY <1>2, <1>3
<1>6. Len(c) = 3 => Called(c) = {c[1].do, c[2].do, c[3].do}
  BY <1>2, <1>3
<1>7. Len(c) = 4 => Called(c) = {c[1].do, c[2].do, c[3].do, c[4].do}
  BY <1>2, <1>3
<1>8. Len(c) = 5 => Called(c) = {c[1].do, c[2].do, c[3].do, c[4].do, c[5].do}
  BY <1>2, <1>3
<1> QED  BY <1>1, <1>4, <1>5, <1>6, <1>7, <1>8 DEF First

\* Lists in order, whatever their calls are.
LEMMA ShapeOfOne ==
  ASSUME NEW c, Len(c) = 1, c[1].do \notin Linking
  PROVE  Shape(c)
<1>1. \A i \in 1..Len(c) : i = 1
  OBVIOUS
<1>2. \A i, j \in 1..Len(c) : ~(i < j) /\ j # i + 1
  OBVIOUS
<1> QED  BY <1>1, <1>2 DEF Shape

LEMMA ShapeOfTwo ==
  ASSUME NEW c, Len(c) = 2,
         Before(c[1].do, c[2].do),
         Adjacent(c[1].do, c[2].do),
         c[2].do \notin Linking
  PROVE  Shape(c)
<1>1. ASSUME NEW i \in 1..Len(c), NEW j \in 1..Len(c)
      PROVE  /\ i < j => Before(c[i].do, c[j].do)
             /\ j = i + 1 => Adjacent(c[i].do, c[j].do)
  <2>1. i \in {1, 2} /\ j \in {1, 2}
    OBVIOUS
  <2>2. CASE j = 1
    BY <2>1, <2>2
  <2>3. CASE j = 2
    BY <2>1, <2>3
  <2> QED  BY <2>1, <2>2, <2>3
<1>2. \A i \in 1..Len(c) : i = Len(c) => c[i].do \notin Linking
  OBVIOUS
<1> QED  BY <1>1, <1>2 DEF Shape

LEMMA ShapeOfThree ==
  ASSUME NEW c, Len(c) = 3,
         Before(c[1].do, c[2].do),
         Before(c[1].do, c[3].do) /\ Before(c[2].do, c[3].do),
         Adjacent(c[1].do, c[2].do),
         Adjacent(c[2].do, c[3].do),
         c[3].do \notin Linking
  PROVE  Shape(c)
<1>1. ASSUME NEW i \in 1..Len(c), NEW j \in 1..Len(c)
      PROVE  /\ i < j => Before(c[i].do, c[j].do)
             /\ j = i + 1 => Adjacent(c[i].do, c[j].do)
  <2>1. i \in {1, 2, 3} /\ j \in {1, 2, 3}
    OBVIOUS
  <2>2. CASE j = 1
    BY <2>1, <2>2
  <2>3. CASE j = 2
    BY <2>1, <2>3
  <2>4. CASE j = 3
    BY <2>1, <2>4
  <2> QED  BY <2>1, <2>2, <2>3, <2>4
<1>2. \A i \in 1..Len(c) : i = Len(c) => c[i].do \notin Linking
  OBVIOUS
<1> QED  BY <1>1, <1>2 DEF Shape

LEMMA ShapeOfFour ==
  ASSUME NEW c, Len(c) = 4,
         Before(c[1].do, c[2].do),
         Before(c[1].do, c[3].do) /\ Before(c[2].do, c[3].do),
         Before(c[1].do, c[4].do) /\ Before(c[2].do, c[4].do) /\ Before(c[3].do, c[4].do),
         Adjacent(c[1].do, c[2].do),
         Adjacent(c[2].do, c[3].do),
         Adjacent(c[3].do, c[4].do),
         c[4].do \notin Linking
  PROVE  Shape(c)
<1>1. ASSUME NEW i \in 1..Len(c), NEW j \in 1..Len(c)
      PROVE  /\ i < j => Before(c[i].do, c[j].do)
             /\ j = i + 1 => Adjacent(c[i].do, c[j].do)
  <2>1. i \in {1, 2, 3, 4} /\ j \in {1, 2, 3, 4}
    OBVIOUS
  <2>2. CASE j = 1
    BY <2>1, <2>2
  <2>3. CASE j = 2
    BY <2>1, <2>3
  <2>4. CASE j = 3
    BY <2>1, <2>4
  <2>5. CASE j = 4
    BY <2>1, <2>5
  <2> QED  BY <2>1, <2>2, <2>3, <2>4, <2>5
<1>2. \A i \in 1..Len(c) : i = Len(c) => c[i].do \notin Linking
  OBVIOUS
<1> QED  BY <1>1, <1>2 DEF Shape

LEMMA ShapeOfFive ==
  ASSUME NEW c, Len(c) = 5,
         Before(c[1].do, c[2].do),
         Before(c[1].do, c[3].do) /\ Before(c[2].do, c[3].do),
         Before(c[1].do, c[4].do) /\ Before(c[2].do, c[4].do) /\ Before(c[3].do, c[4].do),
         Before(c[1].do, c[5].do) /\ Before(c[2].do, c[5].do) /\ Before(c[3].do, c[5].do)
           /\ Before(c[4].do, c[5].do),
         Adjacent(c[1].do, c[2].do),
         Adjacent(c[2].do, c[3].do),
         Adjacent(c[3].do, c[4].do),
         Adjacent(c[4].do, c[5].do),
         c[5].do \notin Linking
  PROVE  Shape(c)
<1>1. ASSUME NEW i \in 1..Len(c), NEW j \in 1..Len(c)
      PROVE  /\ i < j => Before(c[i].do, c[j].do)
             /\ j = i + 1 => Adjacent(c[i].do, c[j].do)
  <2>1. i \in {1, 2, 3, 4, 5} /\ j \in {1, 2, 3, 4, 5}
    OBVIOUS
  <2>2. CASE j = 1
    BY <2>1, <2>2
  <2>3. CASE j = 2
    BY <2>1, <2>3
  <2>4. CASE j = 3
    BY <2>1, <2>4
  <2>5. CASE j = 4
    BY <2>1, <2>5
  <2>6. CASE j = 5
    BY <2>1, <2>6
  <2> QED  BY <2>1, <2>2, <2>3, <2>4, <2>5, <2>6
<1>2. \A i \in 1..Len(c) : i = Len(c) => c[i].do \notin Linking
  OBVIOUS
<1> QED  BY <1>1, <1>2 DEF Shape

\* The calls of the listeners of each event.
LEMMA OpenList ==
  /\ K!OpenListeners \in Seq(K!Call) /\ K!OpenListeners # <<>> /\ Shape(K!OpenListeners)
  /\ Called(K!OpenListeners) = Attaching
  /\ First(K!OpenListeners) = "attach close handler"
  /\ K!OpenListeners[Len(K!OpenListeners)].do = "add open class"
<1>1. {"attach close handler", "show dropdown", "set classes", "add open class"} \subseteq K!CallNames
  BY DEF K!CallNames
<1>2. PICK a \in K!Call, b \in K!Call, c \in K!Call, d \in K!Call :
        /\ a = K!Do("attach close handler") /\ b = K!Do("show dropdown")
        /\ c = K!Do("set classes") /\ d = K!Do("add open class")
        /\ a.do = "attach close handler" /\ b.do = "show dropdown" /\ c.do = "set classes"
        /\ d.do = "add open class"
  <2>1. /\ K!Do("attach close handler") \in K!Call
           /\ K!Do("attach close handler").do = "attach close handler"
        /\ K!Do("show dropdown") \in K!Call /\ K!Do("show dropdown").do = "show dropdown"
        /\ K!Do("set classes") \in K!Call /\ K!Do("set classes").do = "set classes"
        /\ K!Do("add open class") \in K!Call /\ K!Do("add open class").do = "add open class"
    BY <1>1, CallFacts
  <2> QED  BY <2>1
<1>3. K!OpenListeners = <<a, b, c, d>>
  BY <1>2 DEF K!OpenListeners
<1>4. PICK q \in Seq(K!Call) :
        q = <<a, b, c, d>> /\ Len(q) = 4 /\ q[1] = a /\ q[2] = b /\ q[3] = c /\ q[4] = d
  <2>1. <<a, b, c, d>> \in Seq(K!Call)
    OBVIOUS
  <2> QED  BY <2>1, Short
<1>5. Called(q) = Attaching /\ First(q) = a.do /\ q # <<>>
  <2>1. Len(q) \in 1..5
    BY <1>4
  <2> QED  BY <1>2, <1>4, <2>1, ListNames DEF Attaching
<1>6. Shape(q)
  <2>1. /\ Before(a.do, b.do) /\ Before(a.do, c.do) /\ Before(a.do, d.do)
        /\ Before(b.do, c.do) /\ Before(b.do, d.do) /\ Before(c.do, d.do)
    BY <1>2 DEF Before, LastOnly, HeadOnly
  <2>2. Adjacent(a.do, b.do) /\ Adjacent(b.do, c.do) /\ Adjacent(c.do, d.do)
    BY <1>2 DEF Adjacent, Linked
  <2>4. Len(q) = 4 /\ q[4].do \notin Linking
    BY <1>2, <1>4 DEF Linking
  <2>5. /\ Before(q[1].do, q[2].do)
        /\ Adjacent(q[1].do, q[2].do)
        /\ Before(q[1].do, q[3].do) /\ Before(q[2].do, q[3].do)
        /\ Adjacent(q[2].do, q[3].do)
        /\ Before(q[1].do, q[4].do) /\ Before(q[2].do, q[4].do) /\ Before(q[3].do, q[4].do)
        /\ Adjacent(q[3].do, q[4].do)
    BY <1>4, <2>1, <2>2
  <2> QED  BY <2>4, <2>5, ShapeOfFour
<1> QED  BY <1>2, <1>3, <1>4, <1>5, <1>6

LEMMA CloseList ==
  /\ K!CloseListeners \in Seq(K!Call) /\ K!CloseListeners # <<>> /\ Shape(K!CloseListeners)
  /\ Called(K!CloseListeners) =
       {"detach close handler", "empty box", "hide dropdown", "remove open class"}
       \union (IF setup.selectOnClose THEN {"select on close"} ELSE {})
  /\ First(K!CloseListeners) = "detach close handler"
  /\ K!CloseListeners[Len(K!CloseListeners)].do = "remove open class"
<1>1. {"detach close handler", "empty box", "hide dropdown", "remove open class", "select on close"}
        \subseteq K!CallNames
  BY DEF K!CallNames
<1>2. PICK a \in K!Call, b \in K!Call, c \in K!Call, d \in K!Call, e \in K!Call :
        /\ a = K!Do("detach close handler") /\ b = K!Do("empty box") /\ c = K!Do("hide dropdown")
        /\ d = K!Do("select on close") /\ e = K!Do("remove open class")
        /\ a.do = "detach close handler" /\ b.do = "empty box" /\ c.do = "hide dropdown"
        /\ d.do = "select on close" /\ e.do = "remove open class"
  <2>1. /\ K!Do("detach close handler") \in K!Call
           /\ K!Do("detach close handler").do = "detach close handler"
        /\ K!Do("empty box") \in K!Call /\ K!Do("empty box").do = "empty box"
        /\ K!Do("hide dropdown") \in K!Call /\ K!Do("hide dropdown").do = "hide dropdown"
        /\ K!Do("select on close") \in K!Call /\ K!Do("select on close").do = "select on close"
        /\ K!Do("remove open class") \in K!Call
           /\ K!Do("remove open class").do = "remove open class"
    BY <1>1, CallFacts
  <2> QED  BY <2>1
<1>13. K!CloseListeners = <<a, b, c>> \o (IF setup.selectOnClose THEN <<d>> ELSE <<>>) \o <<e>>
  <2>1. ("SelectOnClose" \in K!ResultsAdapter) <=> setup.selectOnClose
    BY DEF K!ResultsAdapter, K!Given
  <2> QED  BY <1>2, <2>1 DEF K!CloseListeners, K!When
<1>3. PICK s \in Seq(K!Call) : s = <<a, b, c>> /\ Len(s) = 3 /\ s[1] = a /\ s[2] = b /\ s[3] = c
  <2>1. <<a, b, c>> \in Seq(K!Call)
    OBVIOUS
  <2> QED  BY <2>1, Short
<1>4. PICK t \in Seq(K!Call) : /\ t = IF setup.selectOnClose THEN <<d>> ELSE <<>>
                               /\ IF setup.selectOnClose THEN Len(t) = 1 /\ t[1] = d ELSE Len(t) = 0
  <2>1. <<d>> \in Seq(K!Call) /\ <<>> \in Seq(K!Call)
    OBVIOUS
  <2> QED  BY <2>1, Short
<1>5. PICK u \in Seq(K!Call) : u = <<e>> /\ Len(u) = 1 /\ u[1] = e
  <2>1. <<e>> \in Seq(K!Call)
    OBVIOUS
  <2> QED  BY <2>1, Short
<1>6. PICK q \in Seq(K!Call) : q = s \o t \o u
  BY Joined
<1>7. /\ Len(q) = Len(s) + Len(t) + Len(u)
      /\ \A i \in 1..Len(s) : q[i] = s[i]
      /\ \A i \in 1..Len(t) : q[Len(s) + i] = t[i]
      /\ \A i \in 1..Len(u) : q[Len(s) + Len(t) + i] = u[i]
  BY <1>6, Joined
<1>8. q[1] = a /\ q[2] = b /\ q[3] = c
      /\ IF setup.selectOnClose THEN Len(q) = 5 /\ q[4] = d /\ q[5] = e ELSE Len(q) = 4 /\ q[4] = e
  <2>1. q[1] = a /\ q[2] = b /\ q[3] = c
    BY <1>3, <1>7
  <2>2. q[Len(s) + Len(t) + 1] = e /\ Len(q) = Len(s) + Len(t) + 1
    BY <1>5, <1>7
  <2>3. setup.selectOnClose => q[3 + 1] = d
    BY <1>3, <1>4, <1>7
  <2> QED  BY <1>3, <1>4, <2>1, <2>2, <2>3
<1>9. /\ Called(q) = {"detach close handler", "empty box", "hide dropdown", "remove open class"}
                       \union (IF setup.selectOnClose THEN {"select on close"} ELSE {})
      /\ First(q) = a.do /\ q # <<>>
  <2>1. CASE setup.selectOnClose
    <3>1. Len(q) \in 1..5 /\ Len(q) = 5
      BY <1>8, <2>1
    <3>2. q # <<>> /\ First(q) = q[1].do
            /\ Called(q) = {q[1].do, q[2].do, q[3].do, q[4].do, q[5].do}
      BY <3>1, ListNames
    <3>3. /\ q[1].do = "detach close handler" /\ q[2].do = "empty box" /\ q[3].do = "hide dropdown"
          /\ q[4].do = "select on close" /\ q[5].do = "remove open class"
      BY <1>2, <1>8, <2>1
    <3>4. First(q) = a.do
      BY <1>8, <3>2
    <3>5. Called(q) = {"detach close handler", "empty box", "hide dropdown", "remove open class",
                       "select on close"}
      BY <3>2, <3>3
    <3> QED  BY <2>1, <3>2, <3>4, <3>5
  <2>2. CASE ~(setup.selectOnClose)
    <3>1. Len(q) \in 1..5 /\ Len(q) = 4
      BY <1>8, <2>2
    <3>2. q # <<>> /\ First(q) = q[1].do /\ Called(q) = {q[1].do, q[2].do, q[3].do, q[4].do}
      BY <3>1, ListNames
    <3> QED  BY <1>2, <1>8, <2>2, <3>2
  <2> QED  BY <2>1, <2>2
<1>10. q[Len(q)].do = "remove open class"
  BY <1>2, <1>8
<1>11. Shape(q)
  <2>1. /\ Before(a.do, b.do) /\ Before(a.do, c.do) /\ Before(a.do, d.do) /\ Before(a.do, e.do)
        /\ Before(b.do, c.do) /\ Before(b.do, d.do) /\ Before(b.do, e.do)
        /\ Before(c.do, d.do) /\ Before(c.do, e.do) /\ Before(d.do, e.do)
    BY <1>2 DEF Before, LastOnly, HeadOnly, CloseTime, Closing
  <2>2. /\ Adjacent(a.do, b.do) /\ Adjacent(b.do, c.do) /\ Adjacent(c.do, d.do)
        /\ Adjacent(c.do, e.do) /\ Adjacent(d.do, e.do)
    BY <1>2 DEF Adjacent, Linked
  <2>3. q[Len(q)].do \notin Linking
    BY <1>10 DEF Linking
  <2>4. CASE setup.selectOnClose
    <3>1. Len(q) = 5 /\ q[5].do \notin Linking
      BY <1>8, <2>4, <2>3
    <3>2. /\ Before(q[1].do, q[2].do)
          /\ Adjacent(q[1].do, q[2].do)
          /\ Before(q[1].do, q[3].do) /\ Before(q[2].do, q[3].do)
          /\ Adjacent(q[2].do, q[3].do)
          /\ Before(q[1].do, q[4].do) /\ Before(q[2].do, q[4].do) /\ Before(q[3].do, q[4].do)
          /\ Adjacent(q[3].do, q[4].do)
          /\ Before(q[1].do, q[5].do) /\ Before(q[2].do, q[5].do) /\ Before(q[3].do, q[5].do)
             /\ Before(q[4].do, q[5].do)
          /\ Adjacent(q[4].do, q[5].do)
      BY <1>8, <2>1, <2>2, <2>4
    <3> QED  BY <3>1, <3>2, ShapeOfFive
  <2>5. CASE ~setup.selectOnClose
    <3>1. Len(q) = 4 /\ q[4].do \notin Linking
      BY <1>8, <2>5, <2>3
    <3>2. /\ Before(q[1].do, q[2].do)
          /\ Adjacent(q[1].do, q[2].do)
          /\ Before(q[1].do, q[3].do) /\ Before(q[2].do, q[3].do)
          /\ Adjacent(q[2].do, q[3].do)
          /\ Before(q[1].do, q[4].do) /\ Before(q[2].do, q[4].do) /\ Before(q[3].do, q[4].do)
          /\ Adjacent(q[3].do, q[4].do)
      BY <1>8, <2>1, <2>2, <2>5
    <3> QED  BY <3>1, <3>2, ShapeOfFour
  <2> QED  BY <2>4, <2>5
<1>12. q = K!CloseListeners
  BY <1>3, <1>4, <1>5, <1>6, <1>13
<1> QED  BY <1>2, <1>9, <1>10, <1>11, <1>12

Picking == {"select data", "unselect data"}

LEMMA PickList ==
  ASSUME NEW n \in Picking, NEW k \in K!Call
  PROVE  LET c == K!PickListeners(n, k.item, k.ctrl) IN
         /\ c \in Seq(K!Call) /\ c # <<>> /\ Shape(c)
         /\ Called(c) = {n, "set classes if open"}
                          \union (IF setup.closeOnSelect /\ ~k.ctrl THEN {"close"} ELSE {})
         /\ First(c) = n /\ c[1].item = k.item /\ c[Len(c)].do = "set classes if open"
<1>1. {"select data", "unselect data", "close", "set classes if open"} \subseteq K!CallNames
  BY DEF K!CallNames, K!Events
<1>2. PICK a \in K!Call, d \in K!Call, e \in K!Call :
        /\ a = K!DoItem(n, k.item, k.ctrl) /\ d = K!Do("close") /\ e = K!Do("set classes if open")
        /\ a.do = n /\ a.item = k.item /\ d.do = "close" /\ e.do = "set classes if open"
  <2>1. /\ K!Do("close") \in K!Call /\ K!Do("close").do = "close"
        /\ K!Do("set classes if open") \in K!Call
           /\ K!Do("set classes if open").do = "set classes if open"
    BY <1>1, CallFacts
  <2>2. K!DoItem(n, k.item, k.ctrl) \in K!Call /\ K!DoItem(n, k.item, k.ctrl).do = n
        /\ K!DoItem(n, k.item, k.ctrl).item = k.item
    <3>1. n \in K!CallNames
      BY <1>1 DEF Picking
    <3> QED  BY <3>1, TermsAssumption DEF K!DoItem, K!Do, K!Call
  <2> QED  BY <2>1, <2>2
<1>13. K!PickListeners(n, k.item, k.ctrl) =
         <<a>> \o (IF setup.closeOnSelect /\ ~k.ctrl THEN <<d>> ELSE <<>>) \o <<e>>
  <2>1. ("CloseOnSelect" \in K!DropdownAdapter) <=> setup.closeOnSelect
    BY DEF K!DropdownAdapter, K!Given
  <2> QED  BY <1>2, <2>1 DEF K!PickListeners, K!When
<1>3. PICK s \in Seq(K!Call) : s = <<a>> /\ Len(s) = 1 /\ s[1] = a
  <2>1. <<a>> \in Seq(K!Call)
    OBVIOUS
  <2> QED  BY <2>1, Short
<1>4. PICK t \in Seq(K!Call) : /\ t = IF setup.closeOnSelect /\ ~k.ctrl THEN <<d>> ELSE <<>>
                               /\ IF setup.closeOnSelect /\ ~k.ctrl THEN Len(t) = 1 /\ t[1] = d
                                  ELSE Len(t) = 0
  <2>1. <<d>> \in Seq(K!Call) /\ <<>> \in Seq(K!Call)
    OBVIOUS
  <2> QED  BY <2>1, Short
<1>5. PICK u \in Seq(K!Call) : u = <<e>> /\ Len(u) = 1 /\ u[1] = e
  <2>1. <<e>> \in Seq(K!Call)
    OBVIOUS
  <2> QED  BY <2>1, Short
<1>6. PICK q \in Seq(K!Call) : q = s \o t \o u
  BY Joined
<1>7. /\ Len(q) = Len(s) + Len(t) + Len(u)
      /\ \A i \in 1..Len(s) : q[i] = s[i]
      /\ \A i \in 1..Len(t) : q[Len(s) + i] = t[i]
      /\ \A i \in 1..Len(u) : q[Len(s) + Len(t) + i] = u[i]
  BY <1>6, Joined
<1>8. q[1] = a
      /\ IF setup.closeOnSelect /\ ~k.ctrl THEN Len(q) = 3 /\ q[2] = d /\ q[3] = e
         ELSE Len(q) = 2 /\ q[2] = e
  <2>1. q[1] = a
    BY <1>3, <1>7
  <2>2. q[Len(s) + Len(t) + 1] = e /\ Len(q) = Len(s) + Len(t) + 1
    BY <1>5, <1>7
  <2>3. setup.closeOnSelect /\ ~k.ctrl => q[1 + 1] = d
    BY <1>3, <1>4, <1>7
  <2> QED  BY <1>3, <1>4, <2>1, <2>2, <2>3
<1>9. /\ Called(q) = {n, "set classes if open"}
                       \union (IF setup.closeOnSelect /\ ~k.ctrl THEN {"close"} ELSE {})
      /\ First(q) = a.do /\ q # <<>>
  <2>1. CASE setup.closeOnSelect /\ ~k.ctrl
    <3>1. Len(q) \in 1..5 /\ Len(q) = 3
      BY <1>8, <2>1
    <3>2. q # <<>> /\ First(q) = q[1].do /\ Called(q) = {q[1].do, q[2].do, q[3].do}
      BY <3>1, ListNames
    <3> QED  BY <1>2, <1>8, <2>1, <3>2, ZenonT(40)
  <2>2. CASE ~(setup.closeOnSelect /\ ~k.ctrl)
    <3>1. Len(q) \in 1..5 /\ Len(q) = 2
      BY <1>8, <2>2
    <3>2. q # <<>> /\ First(q) = q[1].do /\ Called(q) = {q[1].do, q[2].do}
      BY <3>1, ListNames
    <3> QED  BY <1>2, <1>8, <2>2, <3>2
  <2> QED  BY <2>1, <2>2
<1>10. q[Len(q)].do = "set classes if open" /\ q[1].item = k.item
  BY <1>2, <1>8
<1>11. Shape(q)
  <2>1. Before(a.do, d.do) /\ Before(a.do, e.do) /\ Before(d.do, e.do)
    BY <1>2 DEF Before, LastOnly, HeadOnly, Picking
  <2>2. Adjacent(a.do, d.do) /\ Adjacent(a.do, e.do) /\ Adjacent(d.do, e.do)
    BY <1>2 DEF Adjacent, Linked, Linking, Chained, Picking
  <2>3. q[Len(q)].do \notin Linking
    BY <1>10 DEF Linking
  <2>4. CASE setup.closeOnSelect /\ ~k.ctrl
    <3>1. Len(q) = 3 /\ q[3].do \notin Linking
      BY <1>8, <2>4, <2>3
    <3>2. /\ Before(q[1].do, q[2].do)
          /\ Adjacent(q[1].do, q[2].do)
          /\ Before(q[1].do, q[3].do) /\ Before(q[2].do, q[3].do)
          /\ Adjacent(q[2].do, q[3].do)
      BY <1>8, <2>1, <2>2, <2>4
    <3> QED  BY <3>1, <3>2, ShapeOfThree
  <2>5. CASE ~(setup.closeOnSelect /\ ~k.ctrl)
    <3>1. Len(q) = 2 /\ q[2].do \notin Linking
      BY <1>8, <2>5, <2>3
    <3>2. /\ Before(q[1].do, q[2].do)
          /\ Adjacent(q[1].do, q[2].do)
      BY <1>8, <2>1, <2>2, <2>5
    <3> QED  BY <3>1, <3>2, ShapeOfTwo
  <2> QED  BY <2>4, <2>5
<1>12. q = K!PickListeners(n, k.item, k.ctrl)
  BY <1>3, <1>4, <1>5, <1>6, <1>13
<1> QED  BY <1>2, <1>9, <1>10, <1>11, <1>12

LEMMA QueryList ==
  ASSUME NEW t \in Terms
  PROVE  LET c == K!QueryListeners(t) IN
         /\ c \in Seq(K!Call) /\ c # <<>> /\ Shape(c)
         /\ Called(c) = {"ask data"} \union (IF ctl.isOpen THEN {} ELSE {"open"})
         /\ First(c) = IF ctl.isOpen THEN "ask data" ELSE "open"
         /\ Asked(c) = {t} /\ c[Len(c)].do = "ask data"
<1>1. {"open", "ask data"} \subseteq K!CallNames
  BY DEF K!CallNames, K!Events
<1>2. PICK a \in K!Call, b \in K!Call :
        /\ a = K!Do("open") /\ b = K!DoTerm("ask data", t)
        /\ a.do = "open" /\ b.do = "ask data" /\ b.term = t
  <2>1. /\ K!Do("open") \in K!Call /\ K!Do("open").do = "open"
    BY <1>1, CallFacts
  <2>2. K!DoTerm("ask data", t) \in K!Call /\ K!DoTerm("ask data", t).do = "ask data"
        /\ K!DoTerm("ask data", t).term = t
    <3>1. "ask data" \in K!CallNames
      BY <1>1
    <3> QED  BY <3>1 DEF K!DoTerm, K!Do, K!Call
  <2> QED  BY <2>1, <2>2
<1>13. K!QueryListeners(t) = (IF ctl.isOpen THEN <<>> ELSE <<a>>) \o <<b>>
  BY <1>2 DEF K!QueryListeners, K!When
<1>3. PICK s \in Seq(K!Call) : /\ s = IF ctl.isOpen THEN <<>> ELSE <<a>>
                               /\ IF ctl.isOpen THEN Len(s) = 0 ELSE Len(s) = 1 /\ s[1] = a
  <2>1. <<a>> \in Seq(K!Call) /\ <<>> \in Seq(K!Call)
    OBVIOUS
  <2> QED  BY <2>1, Short
<1>4. PICK u \in Seq(K!Call) : u = <<b>> /\ Len(u) = 1 /\ u[1] = b
  <2>1. <<b>> \in Seq(K!Call)
    OBVIOUS
  <2> QED  BY <2>1, Short
<1>5. PICK q \in Seq(K!Call) : q = s \o u
  BY JoinedTwo
<1>6. /\ Len(q) = Len(s) + Len(u)
      /\ \A i \in 1..Len(s) : q[i] = s[i]
      /\ \A i \in 1..Len(u) : q[Len(s) + i] = u[i]
  BY <1>5, JoinedTwo
<1>7. IF ctl.isOpen THEN Len(q) = 1 /\ q[1] = b ELSE Len(q) = 2 /\ q[1] = a /\ q[2] = b
  <2>1. q[Len(s) + 1] = b /\ Len(q) = Len(s) + 1
    BY <1>4, <1>6
  <2>2. ~ctl.isOpen => q[1] = a
    BY <1>3, <1>6
  <2> QED  BY <1>3, <2>1, <2>2
<1>8. /\ Called(q) = {"ask data"} \union (IF ctl.isOpen THEN {} ELSE {"open"})
      /\ First(q) = IF ctl.isOpen THEN "ask data" ELSE "open"
      /\ q # <<>>
  <2>1. CASE ctl.isOpen
    <3>1. Len(q) \in 1..5 /\ Len(q) = 1
      BY <1>7, <2>1
    <3>2. q # <<>> /\ First(q) = q[1].do /\ Called(q) = {q[1].do}
      BY <3>1, ListNames
    <3> QED  BY <1>2, <1>7, <2>1, <3>2
  <2>2. CASE ~(ctl.isOpen)
    <3>1. Len(q) \in 1..5 /\ Len(q) = 2
      BY <1>7, <2>2
    <3>2. q # <<>> /\ First(q) = q[1].do /\ Called(q) = {q[1].do, q[2].do}
      BY <3>1, ListNames
    <3> QED  BY <1>2, <1>7, <2>2, <3>2
  <2> QED  BY <2>1, <2>2
<1>9. q[Len(q)].do = "ask data"
  BY <1>2, <1>7
<1>10. Asked(q) = {t}
  <2>1. 1..1 = {1} /\ 1..2 = {1, 2}
    OBVIOUS
  <2>2. {j \in 1..Len(q) : q[j].do \in Asking} = {Len(q)}
    BY <1>2, <1>7, <2>1 DEF Asking
  <2>3. q[Len(q)].term = t
    BY <1>2, <1>7
  <2> QED  BY <2>2, <2>3 DEF Asked
<1>11. Shape(q)
  <2>1. Before(a.do, b.do)
    BY <1>2 DEF Before, LastOnly, HeadOnly, OpenTime
  <2>2. Adjacent(a.do, b.do)
    BY <1>2 DEF Adjacent, Linked, Linking, Chained
  <2>3. q[Len(q)].do \notin Linking
    BY <1>9 DEF Linking
  <2>4. CASE ctl.isOpen
    <3>1. Len(q) = 1 /\ q[1].do \notin Linking
      BY <1>7, <2>3, <2>4
    <3> QED  BY <3>1, ShapeOfOne
  <2>5. CASE ~ctl.isOpen
    <3>1. Len(q) = 2 /\ q[2].do \notin Linking
      BY <1>7, <2>3, <2>5
    <3>2. Before(q[1].do, q[2].do) /\ Adjacent(q[1].do, q[2].do)
      BY <1>7, <2>1, <2>2, <2>5
    <3> QED  BY <3>1, <3>2, ShapeOfTwo
  <2> QED  BY <2>4, <2>5
<1>12. q = K!QueryListeners(t)
  BY <1>3, <1>4, <1>5, <1>13
<1> QED  BY <1>2, <1>8, <1>9, <1>10, <1>11, <1>12

\* What waits below an event that happens.
LEMMA EventFacts ==
  ASSUME CallsShaped, ~K!Idle, now \in K!Events
  PROVE  /\ agenda[1] \in K!Call /\ now = agenda[1].do
         /\ awaited = {now} \union below /\ (IF below = {} THEN next = "idle" ELSE next \in below)
         /\ below \intersect HeadOnly = {} /\ ("unselect" \in below => setup.allowClear)
         /\ Asked(agenda) = (IF now \in Asking THEN {agenda[1].term} ELSE {}) \union Asked(Tail(agenda))
         /\ (below \intersect Asking = {} => Asked(Tail(agenda)) = {})
         /\ (now \notin OpenTime => "ask data" \notin below)
         /\ (now \notin CloseTime => "remove open class" \notin below)
         /\ (below = {} \/ next \notin Chained)
<1>1. now \notin Linking
  BY DEF K!Events, Linking
<1>2. \A x \in Chained : ~Linked(now, x)
  BY DEF K!Events, Linked
<1> QED  BY <1>1, <1>2, TopFacts DEF Before, Adjacent

\* An event happens: its listeners are called before what waits.
LEMMA OpenTriggered ==
  ASSUME ControlInv, ~K!Idle, now = "open", UNCHANGED <<setup, ctl>>, setup.prevent # now,
         K!Then(K!OpenListeners)
  PROVE  ControlInv'
<1> DEFINE c == K!OpenListeners
<1>1. /\ ~K!Idle /\ now = "open" /\ K!Then(c) /\ setup' = setup /\ ctl' = ctl /\ ctl \in K!Control
      /\ setup.prevent # "open"
  BY DEF ControlInv, K!TypeOK
<1>2. /\ agenda[1] \in K!Call /\ now = agenda[1].do
      /\ awaited = {now} \union below /\ (IF below = {} THEN next = "idle" ELSE next \in below)
      /\ below \intersect HeadOnly = {} /\ ("unselect" \in below => setup.allowClear)
      /\ Asked(agenda) = Asked(Tail(agenda))
      /\ (below \intersect Asking = {} => Asked(Tail(agenda)) = {})
      /\ "remove open class" \notin below /\ (below = {} \/ next \notin Chained)
  <2>1. now \in K!Events /\ now \notin CloseTime /\ now \notin Asking
    BY <1>1 DEF K!Events, OpenTime, Attaching, CloseTime, Closing, Selecting, Asking
  <2> QED  BY <1>1, <2>1, EventFacts DEF ControlInv
<1>3. /\ c \in Seq(K!Call) /\ c # <<>> /\ Shape(c) /\ Called(c) = Attaching
      /\ First(c) = "attach close handler" /\ c[Len(c)].do = "add open class"
  BY OpenList
<1> HIDE DEF c
<1>4. /\ CallsShaped' /\ thrown' = thrown
      /\ awaited' = Called(c) \union below /\ now' = First(c)
      /\ Asked(agenda') = Asked(c) \union Asked(Tail(agenda))
      /\ agenda'[1] = c[1]
  <2>1. \A x \in Called(c), y \in below : Before(x, y)
    BY <1>1, <1>2, <1>3 DEF Before, LastOnly, Attaching, OpenTime, CloseTime, Closing, Selecting
  <2>2. below = {} \/ Adjacent(c[Len(c)].do, next)
    BY <1>2, <1>3 DEF Adjacent, Linking
  <2>3. "unselect" \notin Called(c)
    BY <1>3 DEF Attaching
  <2> QED  BY <1>1, <1>3, <2>1, <2>2, <2>3, Pushed DEF ControlInv
<1>5. Asked(c) = {}
  BY <1>3, AskedNone DEF Asking, Attaching
<1>6. K!TypeOK'
  BY <1>1, <1>4 DEF ControlInv, K!TypeOK, CallsShaped
<1>7. Drawn'
  BY <1>1, <1>2, <1>3, <1>4 DEF ControlInv, Drawn, Selecting
<1>8. Handled'
  BY <1>1, <1>2, <1>3, <1>4 DEF ControlInv, Handled, Detached, Matched, HalfOpen, Attaching,
                                HeadOnly
<1>9. Marked'
  BY <1>1, <1>2, <1>3, <1>4 DEF ControlInv, Marked, MarksOK, Attaching, HeadOnly, Fixing,
                                Closing, Asking
<1>10. Answering'
  BY <1>1, <1>2, <1>3, <1>4, <1>5 DEF ControlInv, Answering, Asking, OpenTime, Attaching, HeadOnly
<1>11. Bounded'
  BY <1>1, <1>2, <1>3, <1>4 DEF ControlInv, Bounded, Limited, Listed, Room, Openers, Asking,
                                Selecting,
                                Unselecting, Closing, Attaching, HeadOnly
<1> QED  BY <1>4, <1>6, <1>7, <1>8, <1>9, <1>10, <1>11 DEF ControlInv

LEMMA CloseTriggered ==
  ASSUME ControlInv, ~K!Idle, now = "close", UNCHANGED <<setup, ctl>>, setup.prevent # now,
         K!Then(K!CloseListeners)
  PROVE  ControlInv'
<1> DEFINE c == K!CloseListeners
<1>1. /\ ~K!Idle /\ now = "close" /\ K!Then(c) /\ setup' = setup /\ ctl' = ctl /\ ctl \in K!Control
      /\ setup.prevent # "close"
  BY DEF ControlInv, K!TypeOK
<1>2. /\ agenda[1] \in K!Call /\ now = agenda[1].do
      /\ awaited = {now} \union below /\ (IF below = {} THEN next = "idle" ELSE next \in below)
      /\ below \intersect HeadOnly = {} /\ ("unselect" \in below => setup.allowClear)
      /\ Asked(agenda) = Asked(Tail(agenda))
      /\ (below \intersect Asking = {} => Asked(Tail(agenda)) = {})
      /\ "ask data" \notin below /\ (below = {} \/ next \notin Chained)
  <2>1. now \in K!Events /\ now \notin OpenTime /\ now \notin Asking
    BY <1>1 DEF K!Events, OpenTime, Attaching, CloseTime, Closing, Selecting, Asking
  <2> QED  BY <1>1, <2>1, EventFacts DEF ControlInv
<1>3. /\ c \in Seq(K!Call) /\ c # <<>> /\ Shape(c)
         /\ Called(c) = {"detach close handler", "empty box", "hide dropdown", "remove open class"}
                       \union (IF setup.selectOnClose THEN {"select on close"} ELSE {})
      /\ First(c) = "detach close handler" /\ c[Len(c)].do = "remove open class"
  BY CloseList
<1> HIDE DEF c
<1>4. /\ CallsShaped' /\ thrown' = thrown
      /\ awaited' = Called(c) \union below /\ now' = First(c)
      /\ Asked(agenda') = Asked(c) \union Asked(Tail(agenda))
      /\ agenda'[1] = c[1]
  <2>1. \A x \in Called(c), y \in below : Before(x, y)
    BY <1>1, <1>2, <1>3 DEF Before, LastOnly, Attaching, OpenTime, CloseTime, Closing, Selecting
  <2>2. below = {} \/ Adjacent(c[Len(c)].do, next)
    BY <1>2, <1>3 DEF Adjacent, Linking
  <2>3. "unselect" \notin Called(c)
    BY <1>3 DEF Attaching
  <2> QED  BY <1>1, <1>3, <2>1, <2>2, <2>3, Pushed DEF ControlInv
<1>5. Asked(c) = {}
  BY <1>3, AskedNone DEF Asking, Attaching
<1>6. K!TypeOK'
  BY <1>1, <1>4 DEF ControlInv, K!TypeOK, CallsShaped
<1>7. Drawn'
  BY <1>1, <1>2, <1>3, <1>4 DEF ControlInv, Drawn, Selecting
<1>8. Handled'
  BY <1>1, <1>2, <1>3, <1>4 DEF ControlInv, Handled, Detached, Matched, HalfOpen, Attaching,
                                HeadOnly
<1>9. Marked'
  BY <1>1, <1>2, <1>3, <1>4 DEF ControlInv, Marked, MarksOK, Attaching, HeadOnly, Fixing,
                                Closing, Asking
<1>10. Answering'
  BY <1>1, <1>2, <1>3, <1>4, <1>5 DEF ControlInv, Answering, Asking, OpenTime, Attaching, HeadOnly
<1>11. Bounded'
  BY <1>1, <1>2, <1>3, <1>4 DEF ControlInv, Bounded, Limited, Listed, Room, Openers, Asking,
                                Selecting,
                                Unselecting, Closing, Attaching, HeadOnly
<1> QED  BY <1>4, <1>6, <1>7, <1>8, <1>9, <1>10, <1>11 DEF ControlInv

LEMMA SelectTriggered ==
  ASSUME ControlInv, ~K!Idle, now = "select", UNCHANGED <<setup, ctl>>, setup.prevent # now,
         K!Then(K!PickListeners("select data", agenda[1].item, agenda[1].ctrl))
  PROVE  ControlInv'
<1> DEFINE c == K!PickListeners("select data", agenda[1].item, agenda[1].ctrl)
<1>1. /\ ~K!Idle /\ now = "select" /\ K!Then(c) /\ setup' = setup /\ ctl' = ctl /\ ctl \in K!Control
      /\ setup.prevent # "select"
  BY DEF ControlInv, K!TypeOK
<1>2. /\ agenda[1] \in K!Call /\ now = agenda[1].do
      /\ awaited = {now} \union below /\ (IF below = {} THEN next = "idle" ELSE next \in below)
      /\ below \intersect HeadOnly = {} /\ ("unselect" \in below => setup.allowClear)
      /\ Asked(agenda) = Asked(Tail(agenda))
      /\ (below \intersect Asking = {} => Asked(Tail(agenda)) = {})
      /\ "ask data" \notin below /\ (below = {} \/ next \notin Chained)
  <2>1. now \in K!Events /\ now \notin OpenTime /\ now \notin Asking
    BY <1>1 DEF K!Events, OpenTime, Attaching, CloseTime, Closing, Selecting, Asking
  <2> QED  BY <1>1, <2>1, EventFacts DEF ControlInv
<1>3. /\ c \in Seq(K!Call) /\ c # <<>> /\ Shape(c)
         /\ Called(c) = {"select data", "set classes if open"}
                       \union (IF setup.closeOnSelect /\ ~agenda[1].ctrl THEN {"close"} ELSE {})
      /\ First(c) = "select data" /\ c[Len(c)].do = "set classes if open"
         /\ c[1].item = agenda[1].item
  <2>1. "select data" \in Picking
    BY DEF Picking
  <2> QED  BY <1>2, <2>1, PickList
<1> HIDE DEF c
<1>4. /\ CallsShaped' /\ thrown' = thrown
      /\ awaited' = Called(c) \union below /\ now' = First(c)
      /\ Asked(agenda') = Asked(c) \union Asked(Tail(agenda))
      /\ agenda'[1] = c[1]
  <2>1. \A x \in Called(c), y \in below : Before(x, y)
    BY <1>1, <1>2, <1>3 DEF Before, LastOnly, Attaching, OpenTime, CloseTime, Closing, Selecting
  <2>2. below = {} \/ Adjacent(c[Len(c)].do, next)
    BY <1>2, <1>3 DEF Adjacent, Linking
  <2>3. "unselect" \notin Called(c)
    BY <1>3 DEF Attaching
  <2> QED  BY <1>1, <1>3, <2>1, <2>2, <2>3, Pushed DEF ControlInv
<1>5. Asked(c) = {}
  BY <1>3, AskedNone DEF Asking, Attaching
<1>6. K!TypeOK'
  BY <1>1, <1>4 DEF ControlInv, K!TypeOK, CallsShaped
<1>7. Drawn'
  BY <1>1, <1>2, <1>3, <1>4 DEF ControlInv, Drawn, Selecting
<1>8. Handled'
  BY <1>1, <1>2, <1>3, <1>4 DEF ControlInv, Handled, Detached, Matched, HalfOpen, Attaching,
                                HeadOnly
<1>9. Marked'
  BY <1>1, <1>2, <1>3, <1>4 DEF ControlInv, Marked, MarksOK, Attaching, HeadOnly, Fixing,
                                Closing, Asking
<1>10. Answering'
  BY <1>1, <1>2, <1>3, <1>4, <1>5 DEF ControlInv, Answering, Asking, OpenTime, Attaching, HeadOnly
<1>11. Bounded'
  BY <1>1, <1>2, <1>3, <1>4 DEF ControlInv, Bounded, Limited, Listed, Room, Openers, Asking,
                                Selecting,
                                Unselecting, Closing, Attaching, HeadOnly
<1> QED  BY <1>4, <1>6, <1>7, <1>8, <1>9, <1>10, <1>11 DEF ControlInv

LEMMA UnselectTriggered ==
  ASSUME ControlInv, ~K!Idle, now = "unselect", UNCHANGED <<setup, ctl>>, setup.prevent # now,
         K!Then(K!PickListeners("unselect data", agenda[1].item, agenda[1].ctrl))
  PROVE  ControlInv'
<1> DEFINE c == K!PickListeners("unselect data", agenda[1].item, agenda[1].ctrl)
<1>1. /\ ~K!Idle /\ now = "unselect" /\ K!Then(c) /\ setup' = setup /\ ctl' = ctl
         /\ ctl \in K!Control
      /\ setup.prevent # "unselect"
  BY DEF ControlInv, K!TypeOK
<1>2. /\ agenda[1] \in K!Call /\ now = agenda[1].do
      /\ awaited = {now} \union below /\ (IF below = {} THEN next = "idle" ELSE next \in below)
      /\ below \intersect HeadOnly = {} /\ ("unselect" \in below => setup.allowClear)
      /\ Asked(agenda) = Asked(Tail(agenda))
      /\ (below \intersect Asking = {} => Asked(Tail(agenda)) = {})
      /\ "ask data" \notin below /\ "remove open class" \notin below
         /\ (below = {} \/ next \notin Chained)
  <2>1. now \in K!Events /\ now \notin OpenTime /\ now \notin CloseTime /\ now \notin Asking
    BY <1>1 DEF K!Events, OpenTime, Attaching, CloseTime, Closing, Selecting, Asking
  <2> QED  BY <1>1, <2>1, EventFacts DEF ControlInv
<1>3. /\ c \in Seq(K!Call) /\ c # <<>> /\ Shape(c)
         /\ Called(c) = {"unselect data", "set classes if open"}
                       \union (IF setup.closeOnSelect /\ ~agenda[1].ctrl THEN {"close"} ELSE {})
      /\ First(c) = "unselect data" /\ c[Len(c)].do = "set classes if open"
         /\ c[1].item = agenda[1].item
  <2>1. "unselect data" \in Picking
    BY DEF Picking
  <2> QED  BY <1>2, <2>1, PickList
<1> HIDE DEF c
<1>4. /\ CallsShaped' /\ thrown' = thrown
      /\ awaited' = Called(c) \union below /\ now' = First(c)
      /\ Asked(agenda') = Asked(c) \union Asked(Tail(agenda))
      /\ agenda'[1] = c[1]
  <2>1. \A x \in Called(c), y \in below : Before(x, y)
    BY <1>1, <1>2, <1>3 DEF Before, LastOnly, Attaching, OpenTime, CloseTime, Closing, Selecting
  <2>2. below = {} \/ Adjacent(c[Len(c)].do, next)
    BY <1>2, <1>3 DEF Adjacent, Linking
  <2>3. "unselect" \notin Called(c)
    BY <1>3 DEF Attaching
  <2> QED  BY <1>1, <1>3, <2>1, <2>2, <2>3, Pushed DEF ControlInv
<1>5. Asked(c) = {}
  BY <1>3, AskedNone DEF Asking, Attaching
<1>6. K!TypeOK'
  BY <1>1, <1>4 DEF ControlInv, K!TypeOK, CallsShaped
<1>7. Drawn'
  BY <1>1, <1>2, <1>3, <1>4 DEF ControlInv, Drawn, Selecting
<1>8. Handled'
  BY <1>1, <1>2, <1>3, <1>4 DEF ControlInv, Handled, Detached, Matched, HalfOpen, Attaching,
                                HeadOnly
<1>9. Marked'
  BY <1>1, <1>2, <1>3, <1>4 DEF ControlInv, Marked, MarksOK, Attaching, HeadOnly, Fixing,
                                Closing, Asking
<1>10. Answering'
  BY <1>1, <1>2, <1>3, <1>4, <1>5 DEF ControlInv, Answering, Asking, OpenTime, Attaching, HeadOnly
<1>11. Bounded'
  BY <1>1, <1>2, <1>3, <1>4 DEF ControlInv, Bounded, Limited, Listed, Room, Openers, Asking,
                                Selecting,
                                Unselecting, Closing, Attaching, HeadOnly
<1> QED  BY <1>4, <1>6, <1>7, <1>8, <1>9, <1>10, <1>11 DEF ControlInv

LEMMA QueryTriggered ==
  ASSUME ControlInv, ~K!Idle, now = "query", UNCHANGED <<setup, ctl>>, setup.prevent # now,
         K!Then(K!QueryListeners(agenda[1].term))
  PROVE  ControlInv'
<1> DEFINE c == K!QueryListeners(agenda[1].term)
<1>1. /\ ~K!Idle /\ now = "query" /\ K!Then(c) /\ setup' = setup /\ ctl' = ctl /\ ctl \in K!Control
      /\ setup.prevent # "query"
  BY DEF ControlInv, K!TypeOK
<1>2. /\ agenda[1] \in K!Call /\ now = agenda[1].do
      /\ awaited = {now} \union below /\ (IF below = {} THEN next = "idle" ELSE next \in below)
      /\ below \intersect HeadOnly = {} /\ ("unselect" \in below => setup.allowClear)
      /\ Asked(agenda) = {agenda[1].term} \union Asked(Tail(agenda))
      /\ (below \intersect Asking = {} => Asked(Tail(agenda)) = {})
      /\ "ask data" \notin below /\ "remove open class" \notin below
         /\ (below = {} \/ next \notin Chained)
  <2>1. now \in K!Events /\ now \notin OpenTime /\ now \notin CloseTime /\ now \in Asking
    BY <1>1 DEF K!Events, OpenTime, Attaching, CloseTime, Closing, Selecting, Asking
  <2> QED  BY <1>1, <2>1, EventFacts DEF ControlInv
<1>3. /\ c \in Seq(K!Call) /\ c # <<>> /\ Shape(c)
         /\ Called(c) = {"ask data"} \union (IF ctl.isOpen THEN {} ELSE {"open"})
      /\ First(c) = (IF ctl.isOpen THEN "ask data" ELSE "open") /\ c[Len(c)].do = "ask data"
         /\ Asked(c) = {agenda[1].term}
  <2>1. agenda[1].term \in Terms
    BY <1>2 DEF K!Call
  <2> QED  BY <2>1, QueryList
<1> HIDE DEF c
<1>4. /\ CallsShaped' /\ thrown' = thrown
      /\ awaited' = Called(c) \union below /\ now' = First(c)
      /\ Asked(agenda') = Asked(c) \union Asked(Tail(agenda))
      /\ agenda'[1] = c[1]
  <2>1. \A x \in Called(c), y \in below : Before(x, y)
    BY <1>1, <1>2, <1>3 DEF Before, LastOnly, Attaching, OpenTime, CloseTime, Closing, Selecting
  <2>2. below = {} \/ Adjacent(c[Len(c)].do, next)
    BY <1>2, <1>3 DEF Adjacent, Linking
  <2>3. "unselect" \notin Called(c)
    BY <1>3 DEF Attaching
  <2> QED  BY <1>1, <1>3, <2>1, <2>2, <2>3, Pushed DEF ControlInv
<1>5. Asked(c) = {agenda[1].term}
  BY <1>3
<1>6. K!TypeOK'
  BY <1>1, <1>4 DEF ControlInv, K!TypeOK, CallsShaped
<1>7. Drawn'
  BY <1>1, <1>2, <1>3, <1>4 DEF ControlInv, Drawn, Selecting
<1>8. Handled'
  BY <1>1, <1>2, <1>3, <1>4 DEF ControlInv, Handled, Detached, Matched, HalfOpen, Attaching,
                                HeadOnly
<1>9. Marked'
  BY <1>1, <1>2, <1>3, <1>4 DEF ControlInv, Marked, MarksOK, Attaching, HeadOnly, Fixing,
                                Closing, Asking
<1>10. Answering'
  BY <1>1, <1>2, <1>3, <1>4, <1>5 DEF ControlInv, Answering, Asking, OpenTime, Attaching, HeadOnly
<1>11. "unselect" \notin below
  <2>1. awaited \subseteq Asking \union OpenTime
    BY <1>1, <1>2 DEF ControlInv, Answering, Asking
  <2> QED  BY <1>2, <2>1 DEF Asking, OpenTime, Attaching
<1>12. Bounded'
  BY <1>1, <1>2, <1>3, <1>4, <1>11
     DEF ControlInv, Bounded, Limited, Listed, Room, Openers, Asking, Selecting, Unselecting,
         Closing,
         HeadOnly
<1> QED  BY <1>4, <1>6, <1>7, <1>8, <1>9, <1>10, <1>12 DEF ControlInv

\* What holds of the control whenever only calls of an input are waiting.
AtRest ==
  /\ ctl.selected \subseteq K!ToSet(ctl.dom) /\ K!ToSet(ctl.items) \subseteq K!ToSet(ctl.dom)
  /\ ctl.highlighted \in K!ToSet(ctl.items) \union {K!None}
  /\ "RangeError" \notin thrown => Matched
  /\ IsFiniteSet(ctl.selected)
  /\ Limited => /\ Cardinality(ctl.selected) <= setup.maximumSelectionLength
                /\ ctl.attached => Listed

ToMark == thrown = {} /\ ctl.isOpen
ToAnswer == thrown = {} /\ ~ctl.unasked
AnswerOK == IF ctl.isOpen THEN ctl.term = ctl.box ELSE ctl.box = ""

\* The calls inputs make, and what they ask of the control.
Starters ==
  {"open", "close", "query", "select", "unselect", "change", "highlight", "clear value"} \union LastOnly

Begun ==
  /\ AtRest /\ awaited \subseteq Starters
  /\ ctl.rendered = ctl.selected \/ now = "change"
  /\ now \in {"select", "highlight"} => agenda[1].item \in K!ToSet(ctl.items)
  /\ ToMark => \/ MarksOK
               \/ awaited \intersect {"close", "query"} # {}
               \/ "toggle" \in awaited /\ ~ctl.disabled
  /\ "clear value" \in awaited => "toggle" \in awaited /\ ~ctl.disabled
  /\ "query" \in awaited => awaited \subseteq {"query", "open"}
  /\ "open" \in awaited => "query" \in awaited \/ (now = "unselect" /\ "box text" \in awaited)
  /\ ToAnswer => /\ Asked(agenda) \subseteq {ctl.box}
                 /\ AnswerOK \/ awaited \intersect {"query", "box text"} # {}
  /\ now = "select" => /\ agenda[1].ctrl => setup.ctrl
                       /\ awaited \intersect {"open", "query"} = {}
                       /\ Limited => Room
  /\ now = "unselect" /\ "open" \in awaited => setup.multiple /\ agenda[1].item \in ctl.selected
  /\ setup.allowClear /\ "unselect" \in awaited => "open" \notin awaited

\* An input begins a list of its own calls on a control at rest.
LEMMA BegunKept ==
  ASSUME K!TypeOK', CallsShaped', Begun'
  PROVE  ControlInv'
<1>1. now' \in awaited' \union {"idle"}
  <2>1. CASE agenda' = <<>>
    BY <2>1 DEF now, First
  <2>2. CASE agenda' # <<>>
    <3>1. agenda' \in Seq(K!Call)
      BY DEF CallsShaped
    <3>2. 1 \in 1..Len(agenda')
      <4>1. Len(agenda') \in Nat /\ Len(agenda') # 0
        BY <2>2, <3>1, EmptySeq
      <4> QED  BY <4>1
    <3> QED  BY <2>2, <3>2 DEF now, First, awaited, Called
  <2> QED  BY <2>1, <2>2
<1>2. awaited' \subseteq Starters /\ AtRest'
  BY DEF Begun
<1>3. Drawn'
  BY <1>1, <1>2 DEF Begun, AtRest, Drawn, Selecting, Starters, LastOnly
<1>4. Handled'
  BY <1>1, <1>2 DEF AtRest, Handled, Starters, LastOnly
<1>5. Marked'
  BY <1>1, <1>2 DEF Begun, ToMark, Marked, Starters, LastOnly, Fixing, Closing, Asking
<1>6. Answering'
  BY <1>1, <1>2 DEF Begun, ToAnswer, AnswerOK, Answering, Starters, LastOnly, Asking, OpenTime,
                    Attaching
<1>7. Bounded'
  BY <1>1, <1>2 DEF Begun, AtRest, Bounded, Starters, LastOnly, Asking, Selecting, Unselecting,
                    Closing,
                    Openers
<1> QED  BY <1>3, <1>4, <1>5, <1>6, <1>7 DEF ControlInv

\* The control between two inputs, and when the last call of one is due.
LEMMA RestFacts ==
  ASSUME ControlInv, K!Idle
  PROVE  /\ agenda = <<>> /\ AtRest /\ ctl.rendered = ctl.selected
         /\ (ToMark => MarksOK) /\ (ToAnswer => AnswerOK)
<1>1. agenda = <<>> /\ now = "idle" /\ awaited = {}
  BY CalledEmpty DEF K!Idle, now, awaited
<1> QED  BY <1>1 DEF ControlInv, Drawn, Handled, Marked, Answering, Bounded, AtRest, ToMark,
                     ToAnswer,
                     AnswerOK

LEMMA LastFacts ==
  ASSUME ControlInv, ~K!Idle, now \in LastOnly
  PROVE  /\ Tail(agenda) = <<>> /\ agenda[1] \in K!Call /\ Head(agenda) = agenda[1]
         /\ AtRest /\ ctl.rendered = ctl.selected
         /\ (ToMark => MarksOK \/ (now = "toggle" /\ ~ctl.disabled))
         /\ (ToAnswer => AnswerOK \/ now = "box text")
<1>1. /\ Tail(agenda) = <<>> /\ agenda[1] \in K!Call /\ Head(agenda) = agenda[1]
      /\ awaited = {now}
  <2>1. below = {}
    BY TopFacts DEF ControlInv, Before
  <2> QED  BY <2>1, TopFacts DEF ControlInv
<1>2. AtRest /\ ctl.rendered = ctl.selected
  BY <1>1 DEF ControlInv, Drawn, Handled, Bounded, AtRest, LastOnly, Asking, Closing, Openers
<1>3. (ToMark => MarksOK \/ (now = "toggle" /\ ~ctl.disabled))
  <2>1. now \notin Fixing
    BY <1>1 DEF LastOnly, Fixing, Asking, Closing
  <2>2. awaited \intersect Fixing = {} /\ ("toggle" \in awaited => now = "toggle")
    BY <1>1, <2>1
  <2>3. ToMark
          => MarksOK \/ awaited \intersect Fixing # {} \/ ("toggle" \in awaited /\ ~ctl.disabled)
    <3>1. Marked
      BY DEF ControlInv
    <3> QED  BY <3>1 DEF Marked, ToMark
  <2> QED  BY <2>2, <2>3
<1>4. (ToAnswer => AnswerOK \/ now = "box text")
  BY <1>1 DEF ControlInv, Answering, ToAnswer, AnswerOK, LastOnly, Asking
<1> QED  BY <1>1, <1>2, <1>3, <1>4

\* No call, or the calls of a short list, are waiting.
LEMMA NoCall ==
  ASSUME agenda' = <<>>
  PROVE  CallsShaped' /\ awaited' = {} /\ now' = "idle" /\ Asked(agenda') = {}
<1>1. CallsShaped'
  BY NoCalls, CalledEmpty DEF CallsShaped
<1> QED  BY <1>1, CalledEmpty DEF now, awaited

LEMMA OneCall ==
  ASSUME agenda' \in Seq(K!Call), Len(agenda') = 1, agenda'[1].do \notin Linking
  PROVE  /\ CallsShaped' /\ awaited' = {agenda'[1].do} /\ now' = agenda'[1].do
         /\ \A x \in Asked(agenda') : agenda'[1].do \in Asking /\ x = agenda'[1].term
<1>1. Shape(agenda')
  BY ShapeOfOne
<1>2. \A i \in 1..Len(agenda') : i = 1
  OBVIOUS
<1>3. CallsShaped'
  BY <1>1, <1>2 DEF CallsShaped
<1>4. Len(agenda') \in 1..5
  OBVIOUS
<1>5. awaited' = {agenda'[1].do} /\ now' = agenda'[1].do
  BY <1>4, ListNames DEF awaited, now
<1> QED  BY <1>2, <1>3, <1>5 DEF Asked

LEMMA TwoCalls ==
  ASSUME agenda' \in Seq(K!Call), Len(agenda') = 2,
         Before(agenda'[1].do, agenda'[2].do), Adjacent(agenda'[1].do, agenda'[2].do),
         agenda'[2].do \notin Linking, agenda'[2].do # "unselect"
  PROVE  /\ CallsShaped' /\ awaited' = {agenda'[1].do, agenda'[2].do} /\ now' = agenda'[1].do
         /\ \A x \in Asked(agenda') : \/ agenda'[1].do \in Asking /\ x = agenda'[1].term
                                      \/ agenda'[2].do \in Asking /\ x = agenda'[2].term
<1>1. Shape(agenda')
  BY ShapeOfTwo
<1>2. \A i \in 1..Len(agenda') : i \in {1, 2}
  OBVIOUS
<1>3. CallsShaped'
  BY <1>1, <1>2 DEF CallsShaped
<1>4. Len(agenda') \in 1..5
  OBVIOUS
<1>5. awaited' = {agenda'[1].do, agenda'[2].do} /\ now' = agenda'[1].do
  BY <1>4, ListNames DEF awaited, now
<1>6. \A x \in Asked(agenda') :
        \E i \in {1, 2} : agenda'[i].do \in Asking /\ x = agenda'[i].term
  BY <1>2 DEF Asked
<1> QED  BY <1>3, <1>5, <1>6

LEMMA ThreeCalls ==
  ASSUME agenda' \in Seq(K!Call), Len(agenda') = 3,
         Before(agenda'[1].do, agenda'[2].do), Before(agenda'[1].do, agenda'[3].do),
         Before(agenda'[2].do, agenda'[3].do),
         Adjacent(agenda'[1].do, agenda'[2].do), Adjacent(agenda'[2].do, agenda'[3].do),
         agenda'[3].do \notin Linking, agenda'[2].do # "unselect", agenda'[3].do # "unselect"
  PROVE  /\ CallsShaped' /\ awaited' = {agenda'[1].do, agenda'[2].do, agenda'[3].do}
         /\ now' = agenda'[1].do
         /\ \A x \in Asked(agenda') : \/ agenda'[1].do \in Asking /\ x = agenda'[1].term
                                      \/ agenda'[2].do \in Asking /\ x = agenda'[2].term
                                      \/ agenda'[3].do \in Asking /\ x = agenda'[3].term
<1>1. Shape(agenda')
  BY ShapeOfThree
<1>2. \A i \in 1..Len(agenda') : i \in {1, 2, 3}
  OBVIOUS
<1>3. CallsShaped'
  BY <1>1, <1>2 DEF CallsShaped
<1>4. Len(agenda') \in 1..5
  OBVIOUS
<1>5. awaited' = {agenda'[1].do, agenda'[2].do, agenda'[3].do} /\ now' = agenda'[1].do
  BY <1>4, ListNames DEF awaited, now
<1>6. \A x \in Asked(agenda') :
        \E i \in {1, 2, 3} : agenda'[i].do \in Asking /\ x = agenda'[i].term
  BY <1>2 DEF Asked
<1> QED  BY <1>3, <1>5, <1>6

\* Whichever event it is, the invariant is kept.
LEMMA TriggerKept ==
  ASSUME ControlInv, K!Trigger
  PROVE  ControlInv'
<1>1. /\ ~K!Idle /\ now \in K!Events /\ setup.prevent # now /\ UNCHANGED <<setup, ctl>>
      /\ Head(agenda) = agenda[1] /\ now = agenda[1].do
  BY TopFacts DEF K!Trigger, ControlInv
<1>2. CASE Len(K!Listeners(agenda[1])) + Len(agenda) <= StackLimit
  <2>1. K!Then(K!Listeners(agenda[1]))
    BY <1>1, <1>2 DEF K!Trigger
  <2>2. CASE now = "open"
    <3>1. K!Then(K!OpenListeners)
      BY <1>1, <2>1, <2>2 DEF K!Listeners
    <3> QED  BY <1>1, <2>2, <3>1, OpenTriggered
  <2>3. CASE now = "close"
    <3>1. K!Then(K!CloseListeners)
      BY <1>1, <2>1, <2>3 DEF K!Listeners
    <3> QED  BY <1>1, <2>3, <3>1, CloseTriggered
  <2>4. CASE now = "select"
    <3>1. K!Then(K!PickListeners("select data", agenda[1].item, agenda[1].ctrl))
      BY <1>1, <2>1, <2>4 DEF K!Listeners
    <3> QED  BY <1>1, <2>4, <3>1, SelectTriggered
  <2>5. CASE now = "unselect"
    <3>1. K!Then(K!PickListeners("unselect data", agenda[1].item, agenda[1].ctrl))
      BY <1>1, <2>1, <2>5 DEF K!Listeners
    <3> QED  BY <1>1, <2>5, <3>1, UnselectTriggered
  <2>6. CASE now = "query"
    <3>1. K!Then(K!QueryListeners(agenda[1].term))
      BY <1>1, <2>1, <2>6 DEF K!Listeners
    <3> QED  BY <1>1, <2>6, <3>1, QueryTriggered
  <2> QED  BY <1>1, <2>2, <2>3, <2>4, <2>5, <2>6 DEF K!Events
<1>3. CASE ~(Len(K!Listeners(agenda[1])) + Len(agenda) <= StackLimit)
  <2>1. K!Throw("RangeError")
    BY <1>1, <1>3 DEF K!Trigger
  <2> QED  BY <1>1, <2>1, ThrowKept
<1> QED  BY <1>2, <1>3

\* The query that opens the dropdown before it is opened again.
LEMMA OpenPair ==
  ASSUME agenda' = K!OpenCalls
  PROVE  CallsShaped' /\ awaited' = {"query", "open"} /\ now' = "query"
         /\ Asked(agenda') \subseteq {""}
<1>1. PICK a \in K!Call, b \in K!Call : /\ a = K!DoTerm("query", "") /\ b = K!Do("open")
                                        /\ a.do = "query" /\ a.term = "" /\ b.do = "open"
  <2>1. "query" \in K!CallNames /\ "open" \in K!CallNames /\ "" \in Terms
    BY TermsAssumption DEF K!CallNames, K!Events
  <2>2. K!DoTerm("query", "") \in K!Call /\ K!DoTerm("query", "").do = "query"
        /\ K!DoTerm("query", "").term = ""
    BY <2>1 DEF K!DoTerm, K!Do, K!Call
  <2>3. K!Do("open") \in K!Call /\ K!Do("open").do = "open"
    BY <2>1, CallFacts
  <2> QED  BY <2>2, <2>3
<1>2. agenda' = <<a, b>>
  BY <1>1 DEF K!OpenCalls
<1>3. agenda' \in Seq(K!Call) /\ Len(agenda') = 2 /\ agenda'[1] = a /\ agenda'[2] = b
  BY <1>2
<1>4. /\ Before(agenda'[1].do, agenda'[2].do) /\ Adjacent(agenda'[1].do, agenda'[2].do)
      /\ agenda'[2].do \notin Linking /\ agenda'[2].do # "unselect"
  BY <1>1, <1>3 DEF Before, Adjacent, Linking, Chained, LastOnly, HeadOnly
<1>5. /\ CallsShaped' /\ awaited' = {a.do, b.do} /\ now' = a.do
      /\ \A x \in Asked(agenda') : \/ agenda'[1].do \in Asking /\ x = agenda'[1].term
                                   \/ agenda'[2].do \in Asking /\ x = agenda'[2].term
  BY <1>3, <1>4, TwoCalls
<1>6. Asked(agenda') \subseteq {""}
  BY <1>1, <1>3, <1>5 DEF Asking
<1> QED  BY <1>1, <1>5, <1>6

\* One call of a name, without more.
Plain == {"close", "handle search", "change"}

LEMMA DoneAlone ==
  ASSUME NEW n \in Plain, agenda' = <<K!Do(n)>>
  PROVE  CallsShaped' /\ awaited' = {n} /\ now' = n /\ Asked(agenda') = {}
<1>1. n \in K!CallNames /\ n \notin Linking /\ n \notin Asking
  BY DEF Plain, K!CallNames, K!Events, Linking, Asking
<1>2. PICK a \in K!Call : a = K!Do(n) /\ a.do = n
  BY <1>1, CallFacts
<1>3. agenda' = <<a>>
  BY <1>2
<1>4. agenda' \in Seq(K!Call) /\ Len(agenda') = 1 /\ agenda'[1] = a
  BY <1>3
<1> QED  BY <1>1, <1>2, <1>4, OneCall

\* What only the search box and its keys change.
LEMMA RestSame ==
  ASSUME AtRest, setup' = setup, thrown' = thrown,
         ctl'.selected = ctl.selected, ctl'.rendered = ctl.rendered, ctl'.dom = ctl.dom,
         ctl'.items = ctl.items, ctl'.marked = ctl.marked, ctl'.highlighted = ctl.highlighted,
         ctl'.isOpen = ctl.isOpen, ctl'.attached = ctl.attached, ctl'.term = ctl.term,
         ctl'.closers = ctl.closers, ctl'.positioners = ctl.positioners, ctl'.stray = ctl.stray
  PROVE  AtRest' /\ (MarksOK => MarksOK') /\ (ToMark' => ToMark) /\ (Limited' => Limited)
<1>1. Matched => Matched'
  BY DEF Matched
<1>2. Limited' <=> Limited
  BY DEF Limited
<1>3. Listed => Listed'
  BY DEF Listed, Room
<1>4. AtRest'
  BY <1>1, <1>2, <1>3 DEF AtRest
<1>5. (MarksOK => MarksOK') /\ (ToMark' => ToMark)
  BY DEF MarksOK, ToMark
<1> QED  BY <1>2, <1>4, <1>5

\* The last call makes calls: they are all that is waiting.
LEMMA Replaced ==
  ASSUME ControlInv, ~K!Idle, now \in LastOnly, NEW c \in Seq(K!Call), K!Then(c)
  PROVE  agenda' = c /\ thrown' = thrown
<1>1. Tail(agenda) = <<>>
  BY LastFacts
<1>2. c \o <<>> = c
  BY ConcatEmptySeq
<1> QED  BY <1>1, <1>2 DEF K!Then

\* What each call of the keys and of the search box leaves.
LEMMA HandleSearchKept ==
  ASSUME ControlInv, K!HandleSearch
  PROVE  ControlInv'
<1> DEFINE c == IF ctl.keyUpPrevented THEN <<>> ELSE <<K!DoTerm("query", ctl.box)>>
<1>1. /\ ~K!Idle /\ now = "handle search" /\ K!Then(c) /\ setup' = setup /\ ctl \in K!Control
      /\ ctl' = [ctl EXCEPT !.keyUpPrevented = FALSE, !.unasked = ctl.unasked /\ ctl.keyUpPrevented]
  BY TopFacts DEF K!HandleSearch, K!Run, K!Running, ControlInv, K!TypeOK
<1>2. PICK a \in K!Call : a = K!DoTerm("query", ctl.box) /\ a.do = "query" /\ a.term = ctl.box
  <2>1. "query" \in K!CallNames /\ ctl.box \in Terms
    BY <1>1 DEF K!CallNames, K!Events, K!Control
  <2>2. K!DoTerm("query", ctl.box) \in K!Call /\ K!DoTerm("query", ctl.box).do = "query"
        /\ K!DoTerm("query", ctl.box).term = ctl.box
    BY <2>1, CallFacts
  <2> QED  BY <2>2
<1>3. c \in Seq(K!Call) /\ c = IF ctl.keyUpPrevented THEN <<>> ELSE <<a>>
  <2>1. <<a>> \in Seq(K!Call) /\ <<>> \in Seq(K!Call)
    OBVIOUS
  <2> QED  BY <1>2, <2>1
<1>4. agenda' = c /\ thrown' = thrown
  <2> HIDE DEF c
  <2>1. now \in LastOnly
    BY <1>1 DEF LastOnly
  <2> QED  BY <1>1, <1>3, <2>1, Replaced
<1>5. /\ ctl'.box = ctl.box /\ ctl'.isOpen = ctl.isOpen /\ ctl'.term = ctl.term
      /\ ctl'.rendered = ctl.rendered /\ ctl'.selected = ctl.selected
      /\ (~ctl'.unasked => ~ctl.unasked \/ ~ctl.keyUpPrevented)
      /\ ctl' \in K!Control
  BY <1>1 DEF K!Control
<1>6. AtRest' /\ (MarksOK => MarksOK') /\ (ToMark' => ToMark)
  <2>1. AtRest
    BY <1>1, LastFacts DEF LastOnly
  <2> QED  BY <1>1, <1>4, <1>5, <2>1, RestSame DEF K!Control
<1>7. ctl.rendered = ctl.selected /\ (ToMark => MarksOK) /\ (ToAnswer => AnswerOK)
  BY <1>1, LastFacts DEF LastOnly
<1> HIDE DEF c
<1>8. CASE ctl.keyUpPrevented
  <2>1. CallsShaped' /\ awaited' = {} /\ now' = "idle" /\ Asked(agenda') = {}
    BY <1>3, <1>4, <1>8, NoCall
  <2>2. K!TypeOK'
    BY <1>1, <1>4, <1>5, <2>1 DEF ControlInv, K!TypeOK, CallsShaped
  <2>3. ToAnswer' => AnswerOK'
    BY <1>4, <1>5, <1>7, <1>8 DEF ToAnswer, AnswerOK
  <2>4. Begun'
    BY <1>5, <1>6, <1>7, <2>1, <2>3 DEF Begun
  <2> QED  BY <2>1, <2>2, <2>4, BegunKept
<1>9. CASE ~ctl.keyUpPrevented
  <2>1. agenda' \in Seq(K!Call) /\ Len(agenda') = 1 /\ agenda'[1] = a
    BY <1>3, <1>4, <1>9
  <2>2. a.do \notin Linking
    BY <1>2 DEF Linking
  <2>3. CallsShaped' /\ awaited' = {"query"} /\ now' = "query" /\ Asked(agenda') \subseteq {ctl.box}
    BY <1>2, <2>1, <2>2, OneCall
  <2>4. K!TypeOK'
    BY <1>1, <1>4, <1>5, <2>3 DEF ControlInv, K!TypeOK, CallsShaped
  <2>5. Begun'
    BY <1>5, <1>6, <1>7, <2>3 DEF Begun, Starters
  <2> QED  BY <2>3, <2>4, <2>5, BegunKept
<1> QED  BY <1>8, <1>9

LEMMA KeyUpKept ==
  ASSUME ControlInv, K!KeyUp
  PROVE  ControlInv'
<1> DEFINE d == K!Do("handle search")
           c == IF ctl.keyup /\ (setup.multiple \/ ctl.isOpen) THEN <<d>> ELSE <<>>
<1>1. /\ ~K!Idle /\ now = "key used" /\ K!Then(c) /\ setup' = setup /\ ctl \in K!Control
      /\ ctl' = [ctl EXCEPT !.keyUpPrevented = TRUE]
  BY TopFacts DEF K!KeyUp, K!When, K!Running, ControlInv, K!TypeOK
<1>2. c \in Seq(K!Call) /\ c \in {<<>>, <<d>>}
  <2>1. "handle search" \in K!CallNames
    BY DEF K!CallNames
  <2>2. d \in K!Call
    BY <2>1, CallFacts
  <2> HIDE DEF d
  <2>3. <<d>> \in Seq(K!Call) /\ <<>> \in Seq(K!Call)
    BY <2>2
  <2> QED  BY <2>3
<1> HIDE DEF c
<1>3. agenda' = c /\ thrown' = thrown
  <2>1. now \in LastOnly
    BY <1>1 DEF LastOnly
  <2> QED  BY <1>1, <1>2, <2>1, Replaced
<1>4. /\ ctl'.box = ctl.box /\ ctl'.isOpen = ctl.isOpen /\ ctl'.term = ctl.term
      /\ ctl'.rendered = ctl.rendered /\ ctl'.selected = ctl.selected /\ ctl'.unasked = ctl.unasked
      /\ ctl' \in K!Control
  BY <1>1 DEF K!Control
<1>5. AtRest' /\ (MarksOK => MarksOK') /\ (ToMark' => ToMark)
  <2>1. AtRest
    BY <1>1, LastFacts DEF LastOnly
  <2> QED  BY <1>1, <1>3, <1>4, <2>1, RestSame DEF K!Control
<1>6. ctl.rendered = ctl.selected /\ (ToMark => MarksOK) /\ (ToAnswer => AnswerOK)
  BY <1>1, LastFacts DEF LastOnly
<1>7. /\ CallsShaped' /\ awaited' \subseteq {"handle search"} /\ now' \in {"idle", "handle search"}
      /\ Asked(agenda') = {}
  <2>1. "handle search" \in Plain
    BY DEF Plain
  <2>2. CASE c = <<>>
    BY <1>3, <2>2, NoCall
  <2>3. CASE c = <<d>>
    BY <1>3, <2>1, <2>3, DoneAlone
  <2> QED  BY <1>2, <2>2, <2>3
<1>8. K!TypeOK'
  BY <1>1, <1>3, <1>4, <1>7 DEF ControlInv, K!TypeOK, CallsShaped
<1>9. ToAnswer' => AnswerOK'
  BY <1>3, <1>4, <1>6 DEF ToAnswer, AnswerOK
<1>10. Begun'
  BY <1>4, <1>5, <1>6, <1>7, <1>9 DEF Begun, Starters, LastOnly
<1> QED  BY <1>7, <1>8, <1>10, BegunKept

LEMMA BoxTextKept ==
  ASSUME ControlInv, K!BoxText
  PROVE  ControlInv'
<1> DEFINE d == K!Do("handle search")
           c == IF ctl.keyup THEN <<d>> ELSE <<>>
<1>1. /\ ~K!Idle /\ now = "box text" /\ K!Then(c) /\ setup' = setup /\ ctl \in K!Control
      /\ ctl' = [ctl EXCEPT !.box = agenda[1].term, !.unasked = TRUE] /\ agenda[1].term \in Terms
  BY TopFacts DEF K!BoxText, K!When, K!Running, ControlInv, K!TypeOK, K!Call
<1>2. c \in Seq(K!Call) /\ c \in {<<>>, <<d>>}
  <2>1. "handle search" \in K!CallNames
    BY DEF K!CallNames
  <2>2. d \in K!Call
    BY <2>1, CallFacts
  <2> HIDE DEF d
  <2>3. <<d>> \in Seq(K!Call) /\ <<>> \in Seq(K!Call)
    BY <2>2
  <2> QED  BY <2>3, SMTT(30)
<1> HIDE DEF c
<1>3. agenda' = c /\ thrown' = thrown
  <2>1. now \in LastOnly
    BY <1>1 DEF LastOnly
  <2> QED  BY <1>1, <1>2, <2>1, Replaced
<1>4. /\ ctl'.rendered = ctl.rendered /\ ctl'.selected = ctl.selected /\ ctl'.unasked
      /\ ctl' \in K!Control
  BY <1>1 DEF K!Control
<1>5. AtRest' /\ (MarksOK => MarksOK') /\ (ToMark' => ToMark)
  <2>1. AtRest
    BY <1>1, LastFacts DEF LastOnly
  <2> QED  BY <1>1, <1>3, <1>4, <2>1, RestSame DEF K!Control
<1>6. ctl.rendered = ctl.selected /\ (ToMark => MarksOK)
  BY <1>1, LastFacts DEF LastOnly
<1>7. /\ CallsShaped' /\ awaited' \subseteq {"handle search"} /\ now' \in {"idle", "handle search"}
      /\ Asked(agenda') = {}
  <2>1. "handle search" \in Plain
    BY DEF Plain
  <2>2. CASE c = <<>>
    BY <1>3, <2>2, NoCall
  <2>3. CASE c = <<d>>
    BY <1>3, <2>1, <2>3, DoneAlone
  <2> QED  BY <1>2, <2>2, <2>3
<1>8. K!TypeOK'
  BY <1>1, <1>3, <1>4, <1>7 DEF ControlInv, K!TypeOK, CallsShaped
<1>9. Begun'
  BY <1>4, <1>5, <1>6, <1>7 DEF Begun, Starters, LastOnly, ToAnswer
<1> QED  BY <1>7, <1>8, <1>9, BegunKept

\* The calls of a click on the control.
LEMMA ToggleStart ==
  ASSUME K!TypeOK, AtRest, ctl.rendered = ctl.selected,
         ToMark => MarksOK \/ ~ctl.disabled, ToAnswer => AnswerOK,
         agenda' = K!ToggleCalls, setup' = setup, thrown' = thrown, ctl' = ctl
  PROVE  ControlInv'
<1>1. AtRest' /\ (ToMark' => MarksOK' \/ ~ctl.disabled) /\ (ToAnswer' => AnswerOK')
      /\ ctl'.rendered = ctl'.selected
  <2>1. AtRest' /\ (MarksOK => MarksOK') /\ (ToMark' => ToMark)
    BY RestSame
  <2> QED  BY <2>1 DEF ToAnswer, AnswerOK
<1>2. CASE ctl.disabled
  <2>1. CallsShaped' /\ awaited' = {} /\ now' = "idle" /\ Asked(agenda') = {}
    BY <1>2, NoCall DEF K!ToggleCalls
  <2>2. K!TypeOK'
    BY <2>1 DEF K!TypeOK, CallsShaped
  <2>3. Begun'
    BY <1>1, <1>2, <2>1 DEF Begun
  <2> QED  BY <2>1, <2>2, <2>3, BegunKept
<1>3. CASE ~ctl.disabled /\ ctl.isOpen
  <2>1. CallsShaped' /\ awaited' = {"close"} /\ now' = "close" /\ Asked(agenda') = {}
    BY <1>3, DoneAlone DEF K!ToggleCalls, Plain
  <2>2. K!TypeOK'
    BY <2>1 DEF K!TypeOK, CallsShaped
  <2>3. Begun'
    BY <1>1, <2>1 DEF Begun, Starters
  <2> QED  BY <2>1, <2>2, <2>3, BegunKept
<1>4. CASE ~ctl.disabled /\ ~ctl.isOpen
  <2>1. CallsShaped' /\ awaited' = {"query", "open"} /\ now' = "query"
          /\ Asked(agenda') \subseteq {""}
    BY <1>4, OpenPair DEF K!ToggleCalls
  <2>2. K!TypeOK'
    BY <2>1 DEF K!TypeOK, CallsShaped
  <2>3. ToAnswer' => Asked(agenda') \subseteq {ctl'.box}
    BY <1>1, <1>4, <2>1 DEF AnswerOK
  <2>4. Begun'
    BY <1>1, <2>1, <2>3 DEF Begun, Starters
  <2> QED  BY <2>1, <2>2, <2>4, BegunKept
<1> QED  BY <1>2, <1>3, <1>4

LEMMA ToggleCallsList == K!ToggleCalls \in Seq(K!Call)
<1>1. "query" \in K!CallNames /\ "open" \in K!CallNames /\ "close" \in K!CallNames /\ "" \in Terms
  BY TermsAssumption DEF K!CallNames, K!Events
<1>2. K!DoTerm("query", "") \in K!Call /\ K!Do("open") \in K!Call /\ K!Do("close") \in K!Call
  BY <1>1, CallFacts
<1>3. \A a, b \in K!Call : <<a, b>> \in Seq(K!Call) /\ <<a>> \in Seq(K!Call) /\ <<>> \in Seq(K!Call)
  OBVIOUS
<1> QED  BY <1>2, <1>3 DEF K!ToggleCalls, K!OpenCalls

LEMMA ToggleKept ==
  ASSUME ControlInv, K!Toggle
  PROVE  ControlInv'
<1>1. ~K!Idle /\ now = "toggle" /\ K!Then(K!ToggleCalls) /\ setup' = setup /\ ctl' = ctl /\ K!TypeOK
  BY TopFacts DEF K!Toggle, K!Run, K!Running, ControlInv
<1>2. agenda' = K!ToggleCalls /\ thrown' = thrown
  BY <1>1, ToggleCallsList, Replaced DEF LastOnly
<1>3. AtRest /\ ctl.rendered = ctl.selected /\ (ToMark => MarksOK \/ ~ctl.disabled)
      /\ (ToAnswer => AnswerOK)
  BY <1>1, LastFacts DEF LastOnly
<1> QED  BY <1>1, <1>2, <1>3, ToggleStart

\* An input that only makes calls: nothing else has changed.
LEMMA InputFacts ==
  ASSUME ControlInv, NEW c, K!Input(c, ctl)
  PROVE  /\ agenda' = c /\ ctl' = ctl /\ setup' = setup /\ thrown' = thrown
         /\ K!TypeOK /\ ctl \in K!Control /\ AtRest /\ ctl.rendered = ctl.selected
         /\ (ToMark => MarksOK) /\ (ToAnswer => AnswerOK)
         /\ AtRest' /\ ctl'.rendered = ctl'.selected
         /\ (ToMark' => MarksOK') /\ (ToAnswer' => AnswerOK')
<1>1. /\ agenda' = c /\ ctl' = ctl /\ setup' = setup /\ thrown' = thrown /\ K!Idle
      /\ K!TypeOK /\ ctl \in K!Control
  BY DEF K!Input, ControlInv, K!TypeOK
<1>2. AtRest /\ ctl.rendered = ctl.selected /\ (ToMark => MarksOK) /\ (ToAnswer => AnswerOK)
  BY <1>1, RestFacts
<1>3. AtRest' /\ (MarksOK => MarksOK') /\ (ToMark' => ToMark)
  BY <1>1, <1>2, RestSame
<1>4. ToAnswer' => AnswerOK'
  BY <1>1, <1>2 DEF ToAnswer, AnswerOK
<1> QED  BY <1>1, <1>2, <1>3, <1>4

\* The inputs that open and close.
LEMMA ToggleDropdownKept ==
  ASSUME ControlInv, K!ToggleDropdown
  PROVE  ControlInv'
<1>1. K!Input(K!ToggleCalls, ctl)
  BY DEF K!ToggleDropdown
<1> QED  BY <1>1, InputFacts, ToggleStart

LEMMA OpenStart ==
  ASSUME ControlInv, ~ctl.isOpen, K!Input(K!OpenCalls, ctl)
  PROVE  ControlInv'
<1>1. CallsShaped' /\ awaited' = {"query", "open"} /\ now' = "query"
        /\ Asked(agenda') \subseteq {""}
  BY InputFacts, OpenPair
<1>2. K!TypeOK'
  BY <1>1, InputFacts DEF K!TypeOK, CallsShaped
<1>3. ToAnswer' => Asked(agenda') \subseteq {ctl'.box}
  BY <1>1, InputFacts DEF AnswerOK
<1>4. Begun'
  BY <1>1, <1>3, InputFacts DEF Begun, Starters
<1> QED  BY <1>1, <1>2, <1>4, BegunKept

LEMMA CloseStart ==
  ASSUME ControlInv, K!Input(<<K!Do("close")>>, ctl)
  PROVE  ControlInv'
<1>1. CallsShaped' /\ awaited' = {"close"} /\ now' = "close" /\ Asked(agenda') = {}
  BY InputFacts, DoneAlone DEF Plain
<1>2. K!TypeOK'
  BY <1>1, InputFacts DEF K!TypeOK, CallsShaped
<1>3. Begun'
  BY <1>1, InputFacts DEF Begun, Starters
<1> QED  BY <1>1, <1>2, <1>3, BegunKept

\* A text comes into the box, by a key or without one.
LEMMA TextStart ==
  ASSUME ControlInv, K!Idle, NEW t \in Terms, agenda' = <<K!Do("handle search")>>,
         setup' = setup, thrown' = thrown,
         \/ ctl' = [ctl EXCEPT !.box = t, !.unasked = TRUE, !.keyup = FALSE, !.keyUpPrevented = FALSE]
         \/ ctl' = [ctl EXCEPT !.box = t, !.unasked = TRUE, !.keyup = FALSE]
  PROVE  ControlInv'
<1>1. K!TypeOK /\ ctl \in K!Control
  BY DEF ControlInv, K!TypeOK
<1>2. AtRest /\ ctl.rendered = ctl.selected /\ (ToMark => MarksOK)
  BY RestFacts
<1>3. CallsShaped' /\ awaited' = {"handle search"} /\ now' = "handle search" /\ Asked(agenda') = {}
  BY DoneAlone DEF Plain
<1>4. ctl' \in K!Control /\ ctl'.unasked /\ ctl'.rendered = ctl.rendered
        /\ ctl'.selected = ctl.selected
  BY <1>1 DEF K!Control
<1>5. AtRest' /\ (MarksOK => MarksOK') /\ (ToMark' => ToMark)
  BY <1>1, <1>2, RestSame DEF K!Control
<1>6. K!TypeOK'
  BY <1>1, <1>3, <1>4 DEF K!TypeOK, CallsShaped
<1>7. Begun'
  BY <1>2, <1>3, <1>4, <1>5 DEF Begun, Starters, LastOnly, ToAnswer
<1> QED  BY <1>3, <1>6, <1>7, BegunKept

LEMMA TypeKept ==
  ASSUME ControlInv, NEW t \in Terms, K!Type(t) \/ K!Paste(t)
  PROVE  ControlInv'
  BY TextStart DEF K!Type, K!Paste, K!Input

Chosen == {"close", "select", "unselect", "highlight"}

\* What the user does with an item of the list, with a key or with the mouse.
LEMMA ChosenStart ==
  ASSUME ControlInv, NEW c \in Seq(K!Call), K!Input(c, ctl), ctl.isOpen \/ ctl.attached,
         \/ Len(c) = 1 /\ c[1].do \in Chosen \union {"key used"}
         \/ Len(c) = 2 /\ c[1].do \in Chosen /\ c[2].do = "key used",
         c[1].do \in {"select", "highlight"} => c[1].item \in K!ToSet(ctl.items),
         c[1].do = "select" => (c[1].ctrl => setup.ctrl)
  PROVE  ControlInv'
<1>1. /\ CallsShaped' /\ awaited' \subseteq Chosen \union {"key used"} /\ now' = c[1].do
      /\ Asked(agenda') = {} /\ agenda'[1] = c[1]
  <2>1. agenda' = c
    BY InputFacts
  <2>2. CASE Len(c) = 1
    <3>1. c[1].do \notin Linking /\ c[1].do \notin Asking
      BY <2>2 DEF Chosen, Linking, Asking
    <3>2. CallsShaped' /\ awaited' = {c[1].do} /\ now' = c[1].do /\ Asked(agenda') = {}
      BY <2>1, <2>2, <3>1, OneCall
    <3> QED  BY <2>1, <2>2, <3>2
  <2>3. CASE Len(c) = 2 /\ c[1].do \in Chosen /\ c[2].do = "key used"
    <3>1. /\ Before(c[1].do, c[2].do) /\ Adjacent(c[1].do, c[2].do) /\ c[2].do \notin Linking
          /\ c[2].do # "unselect" /\ c[1].do \notin Asking /\ c[2].do \notin Asking
      BY <2>3 DEF Chosen, Before, Adjacent, LastOnly, HeadOnly, Linking, Chained, Asking
    <3>2. /\ CallsShaped' /\ awaited' = {c[1].do, c[2].do} /\ now' = c[1].do /\ Asked(agenda') = {}
      BY <2>1, <2>3, <3>1, TwoCalls
    <3> QED  BY <2>1, <2>3, <3>2
  <2> QED  BY <2>2, <2>3
<1>2. K!TypeOK'
  BY <1>1, InputFacts DEF K!TypeOK, CallsShaped
<1>3. now' = "select" => (Limited' => Room')
  <2> SUFFICES ASSUME c[1].do = "select", Limited'
               PROVE  Room'
    BY <1>1
  <2>1. Limited /\ ctl.attached
    <3>1. Limited /\ thrown = {}
      BY InputFacts DEF Limited
    <3>2. AtRest
      BY InputFacts
    <3> QED  BY <3>1, <3>2 DEF AtRest, Matched
  <2>2. Listed
    BY <2>1, InputFacts DEF AtRest
  <2>3. ctl.items # <<>>
    BY SetOf
  <2> QED  BY <2>2, <2>3, InputFacts DEF Listed, Room
<1>4. Begun'
  <2>1. now' \in {"select", "highlight"} => agenda'[1].item \in K!ToSet(ctl'.items)
    BY <1>1, InputFacts
  <2>2. awaited' \subseteq Starters /\ awaited' \intersect {"open", "query", "clear value"} = {}
    BY <1>1 DEF Chosen, Starters, LastOnly
  <2>3. now' = "select" => (agenda'[1].ctrl => setup'.ctrl)
    BY <1>1, InputFacts
  <2> QED  BY <1>1, <1>3, <2>1, <2>2, <2>3, InputFacts DEF Begun
<1> QED  BY <1>1, <1>2, <1>4, BegunKept

\* The calls of a key: what it does, then what its keyup does.
LEMMA KeyList ==
  ASSUME NEW a \in K!Call
  PROVE  LET k == K!Do("key used") IN
         /\ <<a>> \o <<k>> \in Seq(K!Call) /\ Len(<<a>> \o <<k>>) = 2
         /\ (<<a>> \o <<k>>)[1] = a /\ (<<a>> \o <<k>>)[2].do = "key used"
         /\ <<>> \o <<k>> \in Seq(K!Call) /\ Len(<<>> \o <<k>>) = 1
         /\ (<<>> \o <<k>>)[1].do = "key used"
<1>1. "key used" \in K!CallNames
  BY DEF K!CallNames
<1>2. PICK k \in K!Call : k = K!Do("key used") /\ k.do = "key used"
  BY <1>1, CallFacts, ZenonT(40)
<1>3. PICK s \in Seq(K!Call) : s = <<a>> /\ Len(s) = 1 /\ s[1] = a
  <2>1. <<a>> \in Seq(K!Call)
    OBVIOUS
  <2> QED  BY <2>1, Short
<1>4. PICK u \in Seq(K!Call) : u = <<k>> /\ Len(u) = 1 /\ u[1] = k
  <2>1. <<k>> \in Seq(K!Call)
    OBVIOUS
  <2> QED  BY <2>1, Short
<1>5. /\ s \o u \in Seq(K!Call) /\ Len(s \o u) = Len(s) + Len(u)
      /\ \A i \in 1..Len(s) : (s \o u)[i] = s[i]
      /\ \A i \in 1..Len(u) : (s \o u)[Len(s) + i] = u[i]
  BY JoinedTwo
<1>6. Len(s \o u) = 2 /\ (s \o u)[1] = a /\ (s \o u)[1 + 1] = k
  BY <1>3, <1>4, <1>5
<1>7. <<>> \o u = u
  BY ConcatEmptySeq
<1> QED  BY <1>2, <1>3, <1>4, <1>5, <1>6, <1>7

LEMMA EscapeKept ==
  ASSUME ControlInv, K!Escape
  PROVE  ControlInv'
<1>1. "close" \in K!CallNames
  BY DEF K!CallNames, K!Events
<1>2. PICK a \in K!Call : a = K!Do("close") /\ a.do = "close"
  BY <1>1, CallFacts
<1>3. ctl.isOpen /\ K!Input(<<a>> \o <<K!Do("key used")>>, ctl)
  BY <1>2 DEF K!Escape, K!Key
<1>4. PICK c \in Seq(K!Call) :
        K!Input(c, ctl) /\ Len(c) = 2 /\ c[1] = a /\ c[2].do = "key used"
  BY <1>3, KeyList
<1>5. a.do \in Chosen
  BY <1>2 DEF Chosen
<1> QED  BY <1>2, <1>3, <1>4, <1>5, ChosenStart

\* A call that a key, or the mouse, makes of an item of the list.
LEMMA ItemCall ==
  ASSUME NEW n \in Chosen, NEW x \in K!Items \union {K!None}
  PROVE  /\ K!DoItem(n, x, FALSE) \in K!Call /\ K!DoItem(n, x, FALSE).do = n
         /\ K!DoItem(n, x, FALSE).item = x /\ ~K!DoItem(n, x, FALSE).ctrl
         /\ K!DoItem(n, x, TRUE) \in K!Call /\ K!DoItem(n, x, TRUE).do = n
         /\ K!DoItem(n, x, TRUE).item = x
         /\ K!Do(n) \in K!Call /\ K!Do(n).do = n
<1>1. n \in K!CallNames
  BY DEF Chosen, K!CallNames, K!Events
<1> QED  BY <1>1, TermsAssumption DEF K!DoItem, K!Do, K!Call

LEMMA ListItems ==
  ASSUME K!TypeOK
  PROVE  /\ ctl.items \in Seq(K!Items) /\ K!ToSet(ctl.items) \subseteq K!Items
         /\ ctl.dom \in Seq(K!Items) /\ K!ToSet(ctl.dom) \subseteq K!Items
         /\ ctl.highlighted \in K!Items \union {K!None}
         /\ ctl.rendered \subseteq K!Items
<1>1. /\ ctl.items \in Seq(K!Items) /\ ctl.dom \in Seq(K!Items)
      /\ ctl.highlighted \in K!Items \union {K!None} /\ ctl.rendered \subseteq K!Items
  BY DEF K!TypeOK, K!Control
<1> QED  BY <1>1, SetOf

LEMMA OneSeq == \A a \in K!Call : <<a>> \in Seq(K!Call)
  OBVIOUS

\* The calls of a key that picks: one call, of an item of the list unless it closes.
Picked(c) ==
  \E a \in K!Call :
    /\ c = <<a>> /\ a.do \in Chosen
    /\ a.do \in {"select", "highlight"} => a.item \in K!ToSet(ctl.items)
    /\ a.do = "select" => (a.ctrl => setup.ctrl)

LEMMA PickedKept ==
  ASSUME ControlInv, NEW c, Picked(c), ctl.isOpen \/ ctl.attached,
         K!Input(c, ctl) \/ K!Input(c \o <<K!Do("key used")>>, ctl)
  PROVE  ControlInv'
<1>1. PICK a \in K!Call :
        /\ c = <<a>> /\ a.do \in Chosen
        /\ a.do \in {"select", "highlight"} => a.item \in K!ToSet(ctl.items)
        /\ a.do = "select" => (a.ctrl => setup.ctrl)
  BY DEF Picked
<1>2. CASE K!Input(c, ctl)
  <2>1. <<a>> \in Seq(K!Call)
    BY OneSeq
  <2>2. PICK q \in Seq(K!Call) : K!Input(q, ctl) /\ Len(q) = 1 /\ q[1] = a
    BY <1>1, <1>2, <2>1, Short
  <2> QED  BY <1>1, <2>2, ChosenStart
<1>3. CASE K!Input(c \o <<K!Do("key used")>>, ctl)
  <2>1. PICK q \in Seq(K!Call) :
          K!Input(q, ctl) /\ Len(q) = 2 /\ q[1] = a /\ q[2].do = "key used"
    BY <1>1, <1>3, KeyList
  <2> QED  BY <1>1, <2>1, ChosenStart
<1> QED  BY <1>2, <1>3

\* Enter and a click make such calls.
LEMMA PickCallsPicked ==
  ASSUME K!TypeOK, NEW x \in K!ToSet(ctl.items)
  PROVE  Picked(K!PickCalls(x, FALSE)) /\ (setup.ctrl => Picked(K!PickCalls(x, TRUE)))
<1>1. x \in K!Items \union {K!None}
  BY ListItems
<1>2. {"select", "unselect", "close"} \subseteq Chosen
  BY DEF Chosen
<1>3. PICK a \in K!Call, b \in K!Call, c \in K!Call, d \in K!Call, e \in K!Call :
        /\ a = K!DoItem("select", x, FALSE) /\ a.do = "select" /\ a.item = x /\ ~a.ctrl
        /\ b = K!DoItem("unselect", x, FALSE) /\ b.do = "unselect"
        /\ c = K!Do("close") /\ c.do = "close"
        /\ d = K!DoItem("select", x, TRUE) /\ d.do = "select" /\ d.item = x
        /\ e = K!DoItem("unselect", x, TRUE) /\ e.do = "unselect"
  <2>1. /\ K!DoItem("select", x, FALSE) \in K!Call /\ K!DoItem("select", x, FALSE).do = "select"
        /\ K!DoItem("select", x, FALSE).item = x /\ ~K!DoItem("select", x, FALSE).ctrl
        /\ K!DoItem("select", x, TRUE) \in K!Call /\ K!DoItem("select", x, TRUE).do = "select"
        /\ K!DoItem("select", x, TRUE).item = x
    BY <1>1, <1>2, ItemCall
  <2>2. /\ K!DoItem("unselect", x, FALSE) \in K!Call
           /\ K!DoItem("unselect", x, FALSE).do = "unselect"
        /\ K!DoItem("unselect", x, TRUE) \in K!Call /\ K!DoItem("unselect", x, TRUE).do = "unselect"
    BY <1>1, <1>2, ItemCall
  <2>3. K!Do("close") \in K!Call /\ K!Do("close").do = "close"
    BY <1>1, <1>2, ItemCall
  <2> QED  BY <2>1, <2>2, <2>3
<1>4. K!PickCalls(x, FALSE) \in {<<a>>, <<b>>, <<c>>}
        /\ K!PickCalls(x, TRUE) \in {<<d>>, <<e>>, <<c>>}
  BY <1>3 DEF K!PickCalls
<1>5. Picked(<<a>>) /\ (setup.ctrl => Picked(<<d>>))
  BY <1>2, <1>3 DEF Picked
<1>6. Picked(<<b>>) /\ Picked(<<c>>) /\ Picked(<<e>>)
  BY <1>2, <1>3 DEF Picked
<1> QED  BY <1>4, <1>5, <1>6

\* The inputs that choose.
LEMMA PickKept ==
  ASSUME ControlInv, NEW x \in K!Items, K!Pick(x, TRUE) \/ K!Pick(x, FALSE)
  PROVE  ControlInv'
<1>1. K!TypeOK
  BY DEF ControlInv
<1>2. CASE K!Pick(x, TRUE)
  <2>1. ctl.attached /\ x \in K!ToSet(ctl.items) /\ setup.ctrl /\ K!Input(K!PickCalls(x, TRUE), ctl)
    BY <1>2 DEF K!Pick
  <2> QED  BY <1>1, <2>1, PickCallsPicked, PickedKept
<1>3. CASE K!Pick(x, FALSE)
  <2>1. ctl.attached /\ x \in K!ToSet(ctl.items) /\ K!Input(K!PickCalls(x, FALSE), ctl)
    BY <1>3 DEF K!Pick
  <2> QED  BY <1>1, <2>1, PickCallsPicked, PickedKept
<1> QED  BY <1>2, <1>3

LEMMA ToggleKeyKept ==
  ASSUME ControlInv, K!ToggleKey
  PROVE  ControlInv'
<1>1. /\ ctl.isOpen /\ ctl.highlighted # K!None
      /\ K!Input(K!PickCalls(ctl.highlighted, FALSE) \o <<K!Do("key used")>>, ctl)
  BY DEF K!ToggleKey, K!Key
<1>2. K!TypeOK /\ ctl.highlighted \in K!ToSet(ctl.items)
  BY <1>1 DEF ControlInv, Drawn
<1> QED  BY <1>1, <1>2, PickCallsPicked, PickedKept

LEMMA EnterKept ==
  ASSUME ControlInv, K!Enter
  PROVE  ControlInv'
<1>1. ctl.isOpen /\ K!Input(K!EnterCalls \o <<K!Do("key used")>>, ctl) /\ K!TypeOK
  BY DEF K!Enter, K!Key, ControlInv
<1>2. CASE ctl.highlighted = K!None
  <2>1. K!Input(<<>> \o <<K!Do("key used")>>, ctl)
    BY <1>1, <1>2 DEF K!EnterCalls
  <2>2. PICK a \in K!Call : a = K!Do("close")
    BY ItemCall DEF Chosen
  <2>3. PICK c \in Seq(K!Call) : K!Input(c, ctl) /\ Len(c) = 1 /\ c[1].do = "key used"
    BY <2>1, <2>2, KeyList
  <2> QED  BY <1>1, <2>3, ChosenStart
<1>3. CASE ctl.highlighted # K!None
  <2>1. ctl.highlighted \in K!ToSet(ctl.items)
    BY <1>3 DEF ControlInv, Drawn
  <2>2. Picked(<<K!Do("close")>>) /\ Picked(<<K!DoItem("select", ctl.highlighted, FALSE)>>)
    <3>1. "select" \in Chosen /\ "close" \in Chosen /\ ctl.highlighted \in K!Items \union {K!None}
      BY <1>1, ListItems DEF Chosen
    <3>2. PICK a \in K!Call, b \in K!Call :
            /\ a = K!DoItem("select", ctl.highlighted, FALSE) /\ a.do = "select"
            /\ a.item = ctl.highlighted /\ ~a.ctrl
            /\ b = K!Do("close") /\ b.do = "close"
      <4>1. K!Do("close") \in K!Call /\ K!Do("close").do = "close"
        BY <3>1, ItemCall
      <4>2. PICK x \in K!Items \union {K!None} : x = ctl.highlighted
        BY <3>1
      <4>3. /\ K!DoItem("select", x, FALSE) \in K!Call /\ K!DoItem("select", x, FALSE).do = "select"
            /\ K!DoItem("select", x, FALSE).item = x /\ ~K!DoItem("select", x, FALSE).ctrl
        BY <3>1, ItemCall, ZenonT(40)
      <4> QED  BY <4>1, <4>2, <4>3
    <3>3. Picked(<<a>>)
      BY <2>1, <3>1, <3>2 DEF Picked
    <3>4. Picked(<<b>>)
      BY <3>1, <3>2 DEF Picked
    <3> QED  BY <3>2, <3>3, <3>4
  <2>3. Picked(K!EnterCalls)
    BY <1>3, <2>2 DEF K!EnterCalls
  <2> QED  BY <1>1, <2>3, PickedKept
<1> QED  BY <1>2, <1>3

LEMMA HoverKept ==
  ASSUME ControlInv, NEW x, K!Hover(x)
  PROVE  ControlInv'
<1>1. /\ ctl.attached /\ x \in K!ToSet(ctl.items) /\ K!TypeOK
      /\ K!Input(<<K!DoItem("highlight", x, FALSE)>>, ctl)
  BY DEF K!Hover, ControlInv
<1>2. PICK a \in K!Call : a = K!DoItem("highlight", x, FALSE) /\ a.do = "highlight" /\ a.item = x
  <2>1. "highlight" \in Chosen /\ x \in K!Items \union {K!None}
    BY <1>1, ListItems DEF Chosen
  <2>2. /\ K!DoItem("highlight", x, FALSE) \in K!Call
        /\ K!DoItem("highlight", x, FALSE).do = "highlight"
        /\ K!DoItem("highlight", x, FALSE).item = x
    BY <2>1, ItemCall
  <2> QED  BY <2>2
<1>3. Picked(<<a>>)
  BY <1>1, <1>2 DEF Picked, Chosen
<1> QED  BY <1>1, <1>2, <1>3, PickedKept

LEMMA ArrowKept ==
  ASSUME ControlInv, K!Arrow(K!Previous) \/ K!Arrow(K!Following)
  PROVE  ControlInv'
<1>1. PICK i \in DOMAIN ctl.items :
        ctl.isOpen
          /\ K!Input(<<K!DoItem("highlight", ctl.items[i], FALSE)>> \o <<K!Do("key used")>>, ctl)
  BY DEF K!Arrow, K!Key
<1>2. ctl.items[i] \in K!ToSet(ctl.items) /\ K!TypeOK
  BY DEF K!ToSet, ControlInv
<1>3. PICK a \in K!Call : a = K!DoItem("highlight", ctl.items[i], FALSE) /\ a.do = "highlight"
                          /\ a.item = ctl.items[i]
  <2>1. "highlight" \in Chosen /\ ctl.items[i] \in K!Items \union {K!None}
    BY <1>2, ListItems DEF Chosen
  <2>2. PICK x \in K!Items \union {K!None} : x = ctl.items[i]
    BY <2>1
  <2>3. /\ K!DoItem("highlight", x, FALSE) \in K!Call
        /\ K!DoItem("highlight", x, FALSE).do = "highlight"
        /\ K!DoItem("highlight", x, FALSE).item = x
    BY <2>1, ItemCall
  <2> QED  BY <2>2, <2>3
<1>4. Picked(<<a>>)
  BY <1>2, <1>3 DEF Picked, Chosen
<1> QED  BY <1>1, <1>3, <1>4, PickedKept

LEMMA UnselectCall ==
  ASSUME NEW x \in K!Items
  PROVE  /\ K!DoItem("unselect", x, FALSE) \in K!Call
            /\ K!DoItem("unselect", x, FALSE).do = "unselect"
         /\ K!DoItem("unselect", x, FALSE).item = x
  BY ItemCall DEF Chosen

\* The inputs that take a choice back, and those of the page.
LEMMA RemoveChoiceKept ==
  ASSUME ControlInv, NEW x \in K!Items, K!RemoveChoice(x)
  PROVE  ControlInv'
<1>1. K!Input(<<K!DoItem("unselect", x, FALSE), K!Do("toggle")>>, ctl)
  BY DEF K!RemoveChoice
<1>2. PICK a \in K!Call : a = K!DoItem("unselect", x, FALSE) /\ a.do = "unselect"
  BY UnselectCall
<1>3. PICK b \in K!Call : b = K!Do("toggle") /\ b.do = "toggle"
  <2>1. "toggle" \in K!CallNames
    BY DEF K!CallNames
  <2> QED  BY <2>1, CallFacts
<1>4. <<a, b>> \in Seq(K!Call) /\ Len(<<a, b>>) = 2 /\ <<a, b>>[1] = a /\ <<a, b>>[2] = b
  OBVIOUS
<1>5. /\ agenda' \in Seq(K!Call) /\ Len(agenda') = 2 /\ agenda'[1] = a /\ agenda'[2] = b
  BY <1>1, <1>2, <1>3, <1>4, InputFacts
<1>6. /\ CallsShaped' /\ awaited' = {"unselect", "toggle"} /\ now' = "unselect"
         /\ Asked(agenda') = {}
  <2>1. /\ Before(a.do, b.do) /\ Adjacent(a.do, b.do) /\ b.do \notin Linking /\ b.do # "unselect"
        /\ a.do \notin Asking /\ b.do \notin Asking
    BY <1>2, <1>3 DEF Before, Adjacent, LastOnly, HeadOnly, Linking, Chained, Asking
  <2> QED  BY <1>2, <1>3, <1>5, <2>1, TwoCalls
<1>7. K!TypeOK'
  BY <1>1, <1>6, InputFacts DEF K!TypeOK, CallsShaped
<1>8. Begun'
  BY <1>1, <1>6, InputFacts DEF Begun, Starters, LastOnly
<1> QED  BY <1>6, <1>7, <1>8, BegunKept

\* Backspace opens the list again, but only with one choice fewer.
LEMMA BackspaceKept ==
  ASSUME ControlInv, NEW t \in Terms, K!Backspace(t)
  PROVE  ControlInv'
<1> DEFINE shown == K!Kept(ctl.dom, ctl.rendered)
<1>1. /\ setup.multiple /\ ~setup.allowClear /\ ctl.rendered # {} /\ K!Idle /\ K!TypeOK
      /\ agenda' = <<K!DoItem("unselect", K!Last(shown), FALSE), K!Do("open"), K!DoTerm("box text", t)>>
      /\ ctl' = [ctl EXCEPT !.keyUpPrevented = FALSE] /\ setup' = setup /\ thrown' = thrown
  BY DEF K!Backspace, K!Input, K!SelectionAdapter, K!Given, ControlInv
<1>2. AtRest /\ ctl.rendered = ctl.selected /\ (ToMark => MarksOK) /\ (ToAnswer => AnswerOK)
  BY <1>1, RestFacts
<1>3. PICK x \in K!Items : x = K!Last(shown) /\ x \in ctl.selected
  <2>1. shown \in Seq(K!Items) /\ K!ToSet(shown) = ctl.rendered
    <3>1. ctl.dom \in Seq(K!Items) /\ ctl.rendered \subseteq K!ToSet(ctl.dom)
      BY <1>1, <1>2, ListItems DEF AtRest
    <3>2. shown \in Seq(K!Items) /\ K!ToSet(shown) = K!ToSet(ctl.dom) \intersect ctl.rendered
      BY <3>1, KeptFacts
    <3> QED  BY <3>1, <3>2
  <2> HIDE DEF shown
  <2>2. shown # <<>> /\ shown[Len(shown)] \in K!ToSet(shown) /\ K!ToSet(shown) \subseteq K!Items
    BY <1>1, <2>1, SetOf
  <2>3. K!Last(shown) = shown[Len(shown)]
    BY DEF K!Last
  <2> QED  BY <1>2, <2>1, <2>2, <2>3
<1> HIDE DEF shown
<1>4. PICK a \in K!Call, b \in K!Call, c \in K!Call :
        /\ agenda' = <<a, b, c>>
        /\ a.do = "unselect" /\ a.item = x /\ b.do = "open" /\ c.do = "box text"
  <2>1. "open" \in K!CallNames /\ "box text" \in K!CallNames
    BY DEF K!CallNames, K!Events
  <2>2. K!Do("open") \in K!Call /\ K!Do("open").do = "open"
    BY <2>1, CallFacts
  <2>3. K!DoTerm("box text", t) \in K!Call /\ K!DoTerm("box text", t).do = "box text"
    BY <2>1, CallFacts
  <2>4. PICK a \in K!Call : a = K!DoItem("unselect", x, FALSE) /\ a.do = "unselect" /\ a.item = x
    BY UnselectCall
  <2> QED  BY <1>1, <1>3, <2>2, <2>3, <2>4
<1>5. /\ agenda' \in Seq(K!Call) /\ Len(agenda') = 3
      /\ agenda'[1] = a /\ agenda'[2] = b /\ agenda'[3] = c
  <2>1. <<a, b, c>> \in Seq(K!Call)
    OBVIOUS
  <2> QED  BY <1>4, <2>1, Short
<1>6. /\ CallsShaped' /\ awaited' = {"unselect", "open", "box text"} /\ now' = "unselect"
      /\ Asked(agenda') = {}
  <2>1. /\ Before(a.do, b.do) /\ Before(a.do, c.do) /\ Before(b.do, c.do)
        /\ Adjacent(a.do, b.do) /\ Adjacent(b.do, c.do) /\ c.do \notin Linking
        /\ b.do # "unselect" /\ c.do # "unselect"
        /\ a.do \notin Asking /\ b.do \notin Asking /\ c.do \notin Asking
    BY <1>4 DEF Before, Adjacent, LastOnly, HeadOnly, Linking, Chained, Asking
  <2>2. /\ CallsShaped' /\ awaited' = {a.do, b.do, c.do} /\ now' = a.do /\ Asked(agenda') = {}
    BY <1>5, <2>1, ThreeCalls
  <2> QED  BY <1>4, <2>2
<1>7. ctl' \in K!Control /\ ctl'.selected = ctl.selected /\ ctl'.rendered = ctl.rendered
  BY <1>1 DEF K!TypeOK, K!Control
<1>8. AtRest' /\ (MarksOK => MarksOK') /\ (ToMark' => ToMark)
  BY <1>1, <1>2, RestSame DEF K!TypeOK, K!Control
<1>9. K!TypeOK'
  BY <1>1, <1>6, <1>7 DEF K!TypeOK, CallsShaped
<1>10. Begun'
  <2>1. awaited' \subseteq Starters /\ awaited' \intersect {"query", "clear value"} = {}
    BY <1>6 DEF Starters, LastOnly
  <2>2. agenda'[1].item \in ctl'.selected
    BY <1>3, <1>4, <1>5, <1>7
  <2> QED  BY <1>1, <1>2, <1>6, <1>7, <1>8, <2>1, <2>2 DEF Begun
<1> QED  BY <1>6, <1>9, <1>10, BegunKept

LEMMA SetValueKept ==
  ASSUME ControlInv, NEW x, K!SetValue(x)
  PROVE  ControlInv'
<1>1. /\ ~ctl.isOpen /\ x \in K!ToSet(ctl.dom) /\ K!Idle /\ K!TypeOK
      /\ agenda' = <<K!Do("change")>> /\ ctl' = [ctl EXCEPT !.selected = {x}]
      /\ setup' = setup /\ thrown' = thrown
  BY DEF K!SetValue, K!Input, ControlInv
<1>2. AtRest /\ (ToAnswer => AnswerOK)
  BY <1>1, RestFacts
<1>3. CallsShaped' /\ awaited' = {"change"} /\ now' = "change" /\ Asked(agenda') = {}
  BY <1>1, DoneAlone DEF Plain
<1>4. ctl' \in K!Control /\ ctl'.selected = {x} /\ ~ctl'.isOpen
  BY <1>1, ListItems DEF K!TypeOK, K!Control
<1>5. K!TypeOK'
  BY <1>1, <1>3, <1>4 DEF K!TypeOK, CallsShaped
<1>6. IsFiniteSet(ctl'.selected)
      /\ (Limited' => Cardinality(ctl'.selected) <= setup'.maximumSelectionLength)
  <2>1. IsFiniteSet({x}) /\ Cardinality({x}) = 1
    BY FS_Singleton
  <2>2. setup.maximumSelectionLength \in Nat
    BY <1>1, SetupsAssumption DEF K!TypeOK
  <2>3. Cardinality(ctl'.selected) = 1
    BY <1>4, <2>1
  <2> QED  BY <1>1, <1>4, <2>1, <2>2, <2>3 DEF Limited
<1>7. AtRest'
  <2>1. Matched => Matched'
    BY <1>1 DEF Matched, K!TypeOK, K!Control
  <2>2. Limited' => ~ctl'.attached
    <3>1. Limited' => "RangeError" \notin thrown
      BY <1>1 DEF Limited
    <3> QED  BY <1>1, <1>2, <3>1 DEF AtRest, Matched, K!TypeOK, K!Control
  <2>3. ctl'.dom = ctl.dom /\ ctl'.items = ctl.items /\ ctl'.highlighted = ctl.highlighted
    BY <1>1 DEF K!TypeOK, K!Control
  <2> QED  BY <1>1, <1>2, <1>4, <1>6, <2>1, <2>2, <2>3 DEF AtRest
<1>8. ToAnswer' => AnswerOK'
  BY <1>1, <1>2 DEF ToAnswer, AnswerOK, K!TypeOK, K!Control
<1>9. Begun'
  BY <1>3, <1>4, <1>7, <1>8 DEF Begun, Starters, ToMark
<1> QED  BY <1>3, <1>5, <1>9, BegunKept

LEMMA SetDisabledKept ==
  ASSUME ControlInv, K!SetDisabled(TRUE) \/ K!SetDisabled(FALSE)
  PROVE  ControlInv'
<1>1. /\ K!Idle /\ K!TypeOK /\ setup' = setup /\ thrown' = thrown
      /\ agenda' \in {<<>>, <<K!Do("close")>>}
      /\ ctl' = [ctl EXCEPT !.disabled = TRUE] \/ ctl' = [ctl EXCEPT !.disabled = FALSE]
  BY DEF K!SetDisabled, K!Input, K!When, ControlInv
<1>2. AtRest /\ ctl.rendered = ctl.selected /\ (ToMark => MarksOK) /\ (ToAnswer => AnswerOK)
  BY <1>1, RestFacts
<1>3. /\ CallsShaped' /\ awaited' \subseteq {"close"} /\ now' \in {"idle", "close"}
         /\ Asked(agenda') = {}
  BY <1>1, NoCall, DoneAlone DEF Plain
<1>4. /\ ctl' \in K!Control /\ ctl'.box = ctl.box /\ ctl'.isOpen = ctl.isOpen
         /\ ctl'.term = ctl.term
      /\ ctl'.rendered = ctl.rendered /\ ctl'.selected = ctl.selected /\ ctl'.unasked = ctl.unasked
  BY <1>1 DEF K!TypeOK, K!Control
<1>5. AtRest' /\ (MarksOK => MarksOK') /\ (ToMark' => ToMark)
  BY <1>1, <1>2, RestSame DEF K!TypeOK, K!Control
<1>6. K!TypeOK'
  BY <1>1, <1>3, <1>4 DEF K!TypeOK, CallsShaped
<1>7. ToAnswer' => AnswerOK'
  BY <1>1, <1>2, <1>4 DEF ToAnswer, AnswerOK
<1>8. Begun'
  BY <1>2, <1>3, <1>4, <1>5, <1>7 DEF Begun, Starters
<1> QED  BY <1>3, <1>6, <1>8, BegunKept

LEMMA RebuildKept ==
  ASSUME ControlInv, K!Rebuild
  PROVE  ControlInv'
<1> DEFINE fresh == [K!Fresh(ctl.dom, ctl.selected, ctl.disabled) EXCEPT
                       !.positioners = ctl.positioners, !.stray = ctl.isOpen \/ ctl.stray]
<1>1. /\ K!Idle /\ K!TypeOK /\ setup' = setup /\ thrown' = thrown /\ agenda' = <<>> /\ ctl' = fresh
      /\ ctl \in K!Control
  BY DEF K!Rebuild, K!Input, ControlInv, K!TypeOK
<1>2. AtRest
  BY <1>1, RestFacts
<1>3. CallsShaped' /\ awaited' = {} /\ now' = "idle" /\ Asked(agenda') = {}
  BY <1>1, NoCall
<1>4. /\ fresh.dom = ctl.dom /\ fresh.selected = ctl.selected /\ fresh.rendered = ctl.selected
      /\ ~fresh.isOpen /\ ~fresh.attached /\ fresh.closers = 0
      /\ fresh.positioners = ctl.positioners /\ (fresh.stray <=> ctl.isOpen \/ ctl.stray)
      /\ fresh.items = <<>> /\ fresh.highlighted = K!None /\ fresh.box = ""
  BY DEF K!Fresh
<1>5. fresh \in K!Control
  <2>1. "" \in Terms
    BY TermsAssumption
  <2>2. <<>> \in Seq(K!Items)
    OBVIOUS
  <2> QED  BY <1>1, <2>1, <2>2, ZenonT(40) DEF K!Fresh, K!Control
<1> HIDE DEF fresh
<1>6. K!TypeOK'
  BY <1>1, <1>3, <1>5 DEF K!TypeOK, CallsShaped
<1>7. AtRest'
  <2>1. "RangeError" \notin thrown => Matched'
    <3>1. "RangeError" \notin thrown => (ctl.isOpen \/ ctl.stray <=> ctl.positioners > 0)
      BY <1>2 DEF AtRest, Matched
    <3>2. ~(ctl'.closers > 0)
      <4>1. ctl'.closers = 0
        BY <1>1, <1>4
      <4>2. ~(0 > 0)
        OBVIOUS
      <4> QED  BY <4>1, <4>2
    <3> QED  BY <1>1, <1>4, <3>1, <3>2 DEF Matched
  <2>2. Limited' <=> Limited
    BY <1>1 DEF Limited
  <2>3. K!ToSet(fresh.items) = {}
    BY <1>4, SetOf
  <2> QED  BY <1>1, <1>2, <1>4, <2>1, <2>2, <2>3 DEF AtRest, Listed
<1>8. Begun'
  BY <1>1, <1>3, <1>4, <1>7 DEF Begun, ToMark, AnswerOK
<1> QED  BY <1>3, <1>6, <1>8, BegunKept

\* The cross that clears a control takes back one choice after the other.
LEMMA ClearChoicesKept ==
  ASSUME ControlInv, K!ClearChoices
  PROVE  ControlInv'
<1> DEFINE shown == K!Kept(ctl.dom, ctl.rendered)
           unselects == [i \in DOMAIN shown |-> K!DoItem("unselect", shown[i], FALSE)]
           rest == <<K!Do("clear value"), K!Do("toggle")>>
<1>1. /\ setup.allowClear /\ ~ctl.disabled /\ ctl.rendered # {}
      /\ K!Input(IF setup.prevent = "unselect" THEN <<Head(unselects)>> ELSE unselects \o rest, ctl)
  BY DEF K!ClearChoices, K!SelectionAdapter, K!Given
<1>2. shown \in Seq(K!Items) /\ shown # <<>>
  <2>1. ctl.dom \in Seq(K!Items) /\ ctl.rendered \subseteq K!ToSet(ctl.dom)
    <3>1. AtRest /\ ctl.rendered = ctl.selected /\ K!TypeOK
      BY <1>1, InputFacts
    <3> QED  BY <3>1, ListItems DEF AtRest
  <2>2. shown \in Seq(K!Items) /\ K!ToSet(shown) = ctl.rendered
    <3>1. shown \in Seq(K!Items) /\ K!ToSet(shown) = K!ToSet(ctl.dom) \intersect ctl.rendered
      BY <2>1, KeptFacts
    <3> QED  BY <2>1, <3>1
  <2> HIDE DEF shown
  <2> QED  BY <1>1, <2>2, SetOf
<1> HIDE DEF shown
<1>3. /\ unselects \in Seq(K!Call) /\ Len(unselects) = Len(shown)
      /\ \A i \in 1..Len(shown) : unselects[i].do = "unselect"
  <2>1. \A i \in 1..Len(shown) : shown[i] \in K!Items
    BY <1>2
  <2>2. DOMAIN shown = 1..Len(shown) /\ Len(shown) \in Nat
    BY <1>2
  <2>3. \A i \in 1..Len(shown) : unselects[i] \in K!Call /\ unselects[i].do = "unselect"
    BY <2>1, <2>2, UnselectCall
  <2>4. unselects \in [1..Len(shown) -> K!Call]
    BY <2>2, <2>3
  <2> HIDE DEF unselects
  <2> QED  BY <2>2, <2>3, <2>4
<1> HIDE DEF unselects
<1>4. Len(shown) \in Nat /\ Len(shown) # 0 /\ unselects # <<>>
  BY <1>2, <1>3, EmptySeq
<1>5. /\ Called(unselects) = {"unselect"} /\ First(unselects) = "unselect" /\ Shape(unselects)
      /\ unselects[Len(unselects)].do = "unselect" /\ Head(unselects) = unselects[1]
  <2>1. Called(unselects) = {unselects[i].do : i \in 1..Len(shown)} /\ 1 \in 1..Len(shown)
    BY <1>3, <1>4 DEF Called
  <2>2. Called(unselects) = {"unselect"}
    BY <1>3, <2>1
  <2>3. First(unselects) = "unselect"
    BY <1>3, <1>4, <2>1 DEF First
  <2>4. Before("unselect", "unselect") /\ Adjacent("unselect", "unselect")
          /\ "unselect" \notin Linking
    BY DEF Before, Adjacent, HeadOnly, LastOnly, Linking, Chained
  <2>5. Shape(unselects)
    BY <1>3, <2>4 DEF Shape
  <2> QED  BY <1>3, <1>4, <2>2, <2>3, <2>5
<1>6. rest \in Seq(K!Call) /\ Shape(rest) /\ Called(rest) = {"clear value", "toggle"}
      /\ First(rest) = "clear value"
  <2>1. "clear value" \in K!CallNames /\ "toggle" \in K!CallNames
    BY DEF K!CallNames
  <2>2. PICK a \in K!Call, b \in K!Call : /\ a = K!Do("clear value") /\ b = K!Do("toggle")
                                          /\ a.do = "clear value" /\ b.do = "toggle"
    <3>1. /\ K!Do("clear value") \in K!Call /\ K!Do("clear value").do = "clear value"
          /\ K!Do("toggle") \in K!Call /\ K!Do("toggle").do = "toggle"
      BY <2>1, CallFacts
    <3> QED  BY <3>1
  <2>3. PICK q \in Seq(K!Call) : q = <<a, b>> /\ Len(q) = 2 /\ q[1] = a /\ q[2] = b
    <3>1. <<a, b>> \in Seq(K!Call)
      OBVIOUS
    <3> QED  BY <3>1, Short
  <2>4. Before(a.do, b.do) /\ Adjacent(a.do, b.do) /\ b.do \notin Linking
    BY <2>2 DEF Before, Adjacent, HeadOnly, LastOnly, Linking, Chained
  <2>5. Shape(q)
    BY <2>3, <2>4, ShapeOfTwo
  <2>6. Len(q) \in 1..5
    BY <2>3
  <2>7. Called(q) = {a.do, b.do} /\ First(q) = a.do
    BY <2>3, <2>6, ListNames
  <2>8. rest = q
    BY <2>2, <2>3
  <2> QED  BY <2>2, <2>3, <2>5, <2>7, <2>8
<1> HIDE DEF rest
<1>7. /\ CallsShaped' /\ now' = "unselect" /\ Asked(agenda') = {}
      /\ awaited' \in {{"unselect"}, {"unselect", "clear value", "toggle"}}
  <2>1. CASE setup.prevent = "unselect"
    <3>1. PICK a \in K!Call : a = Head(unselects) /\ a.do = "unselect"
      BY <1>3, <1>4, <1>5
    <3>2. agenda' = <<a>>
      BY <1>1, <2>1, <3>1, InputFacts
    <3>3. agenda' \in Seq(K!Call) /\ Len(agenda') = 1 /\ agenda'[1] = a
      BY <3>2, OneSeq, Short
    <3>4. a.do \notin Linking /\ a.do \notin Asking
      BY <3>1 DEF Linking, Asking
    <3> QED  BY <3>1, <3>3, <3>4, OneCall
  <2>2. CASE setup.prevent # "unselect"
    <3>1. agenda' = unselects \o rest /\ setup' = setup
      BY <1>1, <2>2, InputFacts
    <3>2. /\ unselects \o rest \in Seq(K!Call)
          /\ Called(unselects \o rest) = {"unselect", "clear value", "toggle"}
          /\ First(unselects \o rest) = "unselect"
      <4>1. /\ unselects \o rest \in Seq(K!Call)
            /\ Called(unselects \o rest) = Called(unselects) \union Called(rest)
            /\ First(unselects \o rest) = First(unselects)
        <5>1. unselects \in Seq(K!Call) /\ rest \in Seq(K!Call) /\ unselects # <<>>
          BY <1>3, <1>4, <1>6
        <5>2. First(unselects \o rest) =
                IF unselects = <<>> THEN First(rest) ELSE First(unselects)
          BY ONLY <5>1, CalledConcat
        <5> QED  BY ONLY <5>1, <5>2, CalledConcat
      <4> QED  BY <1>5, <1>6, <4>1
    <3>3. Shape(unselects \o rest)
      <4>1. \A y \in {"clear value", "toggle"} : Before("unselect", y)
        BY DEF Before, HeadOnly, LastOnly
      <4>2. Adjacent("unselect", "clear value")
        BY DEF Adjacent, Linking, Chained
      <4>3. \A x \in Called(unselects), y \in Called(rest) : Before(x, y)
        BY <1>5, <1>6, <4>1
      <4>4. IF rest = <<>> THEN TRUE ELSE Adjacent(unselects[Len(unselects)].do, First(rest))
        BY <1>5, <1>6, <4>2
      <4> QED  BY <1>3, <1>4, <1>5, <1>6, <4>3, <4>4, ShapeConcat
    <3>4. CallsShaped'
      BY <1>1, <3>1, <3>2, <3>3 DEF CallsShaped
    <3>5. awaited' = {"unselect", "clear value", "toggle"} /\ now' = "unselect"
      BY <3>1, <3>2 DEF awaited, now
    <3>6. Asked(agenda') = {}
      <4>1. Called(agenda') \intersect Asking = {}
        BY <3>1, <3>2 DEF Asking
      <4> QED  BY <4>1, AskedNone
    <3> QED  BY <3>4, <3>5, <3>6
  <2> QED  BY <2>1, <2>2
<1>8. K!TypeOK'
  BY <1>1, <1>7, InputFacts DEF K!TypeOK, CallsShaped
<1>9. Begun'
  <2>1. ~ctl'.disabled
    BY <1>1, InputFacts
  <2>2. awaited' \subseteq Starters /\ awaited' \intersect {"open", "query"} = {}
        /\ ("clear value" \in awaited' => "toggle" \in awaited')
    BY <1>7 DEF Starters, LastOnly
  <2> QED  BY <1>1, <1>7, <2>1, <2>2, InputFacts DEF Begun
<1> QED  BY <1>7, <1>8, <1>9, BegunKept

\* The control as it is made.
LEMMA ControlInit == K!Init => ControlInv
<1> SUFFICES ASSUME K!Init
             PROVE  ControlInv
  OBVIOUS
<1>1. PICK chosen \in SUBSET Options :
        ctl = K!Fresh([i \in 1..K!Cardinality(Options) |-> i], chosen, FALSE)
        /\ K!Cardinality(chosen) <= 1
  BY DEF K!Init
<1>2. setup \in Setups /\ agenda = <<>> /\ thrown = {}
  BY DEF K!Init
<1>3. /\ Options = 1..Cardinality(Options) /\ IsFiniteSet(Options) /\ Cardinality(Options) \in Nat
      /\ Options \subseteq K!Items
  BY SetupsAssumption, FS_CardinalityType DEF K!Items
<1> DEFINE dom == [i \in 1..Cardinality(Options) |-> i]
<1>4. dom \in Seq(K!Items) /\ K!ToSet(dom) = Options
  <2>1. DOMAIN dom = Options /\ \A i \in Options : dom[i] = i
    BY <1>3
  <2>2. dom \in [1..Cardinality(Options) -> K!Items]
    BY <1>3
  <2>3. dom \in Seq(K!Items)
    BY <1>3, <2>2
  <2> HIDE DEF dom
  <2> QED  BY <2>1, <2>3 DEF K!ToSet
<1>5. ctl = K!Fresh(dom, chosen, FALSE)
  BY <1>1, SelectCard
<1> HIDE DEF dom
<1>6. /\ ctl.selected = chosen /\ ctl.rendered = chosen /\ ctl.dom = dom /\ ctl.items = <<>>
      /\ ctl.highlighted = K!None /\ ~ctl.isOpen /\ ~ctl.attached /\ ~ctl.stray
      /\ ctl.closers = 0 /\ ctl.positioners = 0 /\ ctl.box = "" /\ ~ctl.unasked
  BY <1>5 DEF K!Fresh
<1>7. ctl \in K!Control
  <2>1. "" \in Terms
    BY TermsAssumption
  <2>2. <<>> \in Seq(K!Items)
    OBVIOUS
  <2>3. chosen \subseteq K!Items
    BY <1>3
  <2> QED  BY <1>4, <1>5, <2>1, <2>2, <2>3 DEF K!Fresh, K!Control
<1>8. now = "idle" /\ awaited = {} /\ Asked(agenda) = {} /\ CallsShaped
  <2>1. CallsShaped
    BY <1>2, NoCalls, CalledEmpty DEF CallsShaped
  <2> QED  BY <1>2, <2>1, CalledEmpty DEF now, awaited
<1>9. K!TypeOK
  BY <1>2, <1>7, <1>8 DEF K!TypeOK, CallsShaped
<1>10. Drawn
  <2>1. K!ToSet(ctl.items) = {}
    BY <1>6, SetOf
  <2> QED  BY <1>4, <1>6, <1>8, <2>1 DEF Drawn, Selecting
<1>11. Handled
  <2>1. ~(0 > 0)
    OBVIOUS
  <2> QED  BY <1>6, <1>8, <2>1 DEF Handled, Matched
<1>12. Marked /\ Answering
  BY <1>6, <1>8 DEF Marked, Answering
<1>13. Bounded
  <2>1. IsFiniteSet(ctl.selected) /\ Cardinality(ctl.selected) \in Nat
    BY <1>3, <1>6, FS_Subset, FS_CardinalityType
  <2>2. setup.maximumSelectionLength \in Nat
    BY <1>2, SetupsAssumption
  <2>3. Cardinality(ctl.selected) <= 1
    BY <1>1, <1>6, SelectCard
  <2>4. Limited => Cardinality(ctl.selected) <= setup.maximumSelectionLength
    BY <2>1, <2>2, <2>3 DEF Limited
  <2> QED  BY <1>6, <1>8, <2>1, <2>4 DEF Bounded, Selecting, Unselecting
<1> QED  BY <1>8, <1>9, <1>10, <1>11, <1>12, <1>13 DEF ControlInv

\* A control on which nothing happens stays as it is.
LEMMA ControlStutter == ControlInv /\ UNCHANGED selectVars => ControlInv'
<1> SUFFICES ASSUME ControlInv, UNCHANGED selectVars
             PROVE  ControlInv'
  OBVIOUS
<1>1. setup' = setup /\ ctl' = ctl /\ agenda' = agenda /\ thrown' = thrown
  BY DEF selectVars
<1>2. now' = now /\ awaited' = awaited /\ (CallsShaped => CallsShaped')
  BY <1>1 DEF now, awaited, CallsShaped
<1>3. (K!TypeOK => K!TypeOK') /\ (Drawn => Drawn') /\ (Marked => Marked')
        /\ (Answering => Answering')
  BY <1>1, <1>2 DEF K!TypeOK, Drawn, Marked, MarksOK, Answering
<1>4. (Handled => Handled') /\ (Bounded => Bounded')
  BY <1>1, <1>2 DEF Handled, Matched, HalfOpen, Detached, Bounded, Limited, Room, Listed
<1> QED  BY <1>2, <1>3, <1>4 DEF ControlInv

\* Every input, and every call, keeps the invariant.
LEMMA InputKept ==
  ASSUME ControlInv, K!UserInput
  PROVE  ControlInv'
<1>1. CASE K!ToggleDropdown \/ K!OpenMethod \/ K!CloseMethod \/ K!OpenKey \/ K!ClickOutside
  <2>1. K!ToggleDropdown => ControlInv'
    BY ToggleDropdownKept
  <2>2. K!OpenMethod \/ K!OpenKey => ControlInv'
    BY OpenStart DEF K!OpenMethod, K!OpenKey
  <2>3. K!CloseMethod \/ K!ClickOutside => ControlInv'
    BY CloseStart DEF K!CloseMethod, K!ClickOutside
  <2> QED  BY <1>1, <2>1, <2>2, <2>3
<1>2. CASE \E t \in Terms : K!Type(t) \/ K!Paste(t) \/ K!Backspace(t)
  BY <1>2, TypeKept, BackspaceKept
<1>3. CASE K!Enter \/ K!Escape \/ K!ToggleKey \/ K!Arrow(K!Previous) \/ K!Arrow(K!Following)
  BY <1>3, EnterKept, EscapeKept, ToggleKeyKept, ArrowKept
<1>4. CASE \E x \in K!Items : K!Hover(x) \/ K!RemoveChoice(x) \/ K!SetValue(x)
  BY <1>4, HoverKept, RemoveChoiceKept, SetValueKept
<1>5. CASE \E x \in K!Items, held \in BOOLEAN : K!Pick(x, held)
  <2>1. PICK x \in K!Items : \E held \in BOOLEAN : K!Pick(x, held)
    BY <1>5
  <2>2. K!Pick(x, TRUE) \/ K!Pick(x, FALSE)
    BY <2>1
  <2> QED  BY <2>2, PickKept
<1>6. CASE K!ClearChoices \/ K!Rebuild
  BY <1>6, ClearChoicesKept, RebuildKept
<1>7. CASE \E d \in BOOLEAN : K!SetDisabled(d)
  <2>1. K!SetDisabled(TRUE) \/ K!SetDisabled(FALSE)
    BY <1>7
  <2> QED  BY <2>1, SetDisabledKept
<1> QED  BY <1>1, <1>2, <1>3, <1>4, <1>5, <1>6, <1>7 DEF K!UserInput

LEMMA ProgressKept ==
  ASSUME ControlInv, K!Progress
  PROVE  ControlInv'
<1>1. CASE K!Prevent \/ K!Trigger \/ K!AttachCloseHandler \/ K!DetachCloseHandler
  BY <1>1, PreventKept, TriggerKept, AttachKept, DetachKept
<1>2. CASE K!ShowDropdown \/ K!HideDropdown \/ K!EmptyBox \/ K!AddOpenClass \/ K!RemoveOpenClass
  BY <1>2, ShowKept, HideKept, EmptyKept, AddKept, RemoveKept
<1>3. CASE K!SelectOnClose
  BY <1>3, SelectOnCloseKept, NothingOnCloseKept
<1>4. CASE K!SelectData \/ K!UnselectData \/ K!Change \/ K!ClearValue
  BY <1>4, SelectDataKept, UnselectDataKept, ChangeKept, ClearValueKept
<1>5. CASE K!AskData \/ K!MarkOnOpen \/ K!Highlight
  BY <1>5, AskDataKept, MarkKept, HighlightKept
<1>6. CASE K!MarkIfOpen
  BY <1>6, MarkOpenKept, MarkClosedKept
<1>7. CASE K!HandleSearch \/ K!KeyUp \/ K!BoxText \/ K!Toggle
  BY <1>7, HandleSearchKept, KeyUpKept, BoxTextKept, ToggleKept
<1> QED  BY <1>1, <1>2, <1>3, <1>4, <1>5, <1>6, <1>7 DEF K!Progress

\* Any step of the control keeps it.
LEMMA ControlNext == ControlInv /\ K!Next => ControlInv'
  BY InputKept, ProgressKept DEF K!Next

\* What it says of a control at rest is what the runs check.
LEMMA ControlSafe ==
  ControlInv => /\ K!TypeOK /\ K!SelectionShown /\ K!MarksCurrent /\ K!HandlersMatch
                /\ K!ListAnswersBox /\ K!AtMostMaximum
<1> SUFFICES ASSUME ControlInv
             PROVE  /\ K!TypeOK /\ K!SelectionShown /\ K!MarksCurrent /\ K!HandlersMatch
                    /\ K!ListAnswersBox /\ K!AtMostMaximum
  OBVIOUS
<1>1. K!Idle => /\ AtRest /\ ctl.rendered = ctl.selected
                /\ (ToMark => MarksOK) /\ (ToAnswer => AnswerOK)
  BY RestFacts
<1>2. K!TypeOK /\ K!SelectionShown
  BY <1>1 DEF ControlInv, K!SelectionShown
<1>3. K!MarksCurrent
  BY <1>1 DEF K!MarksCurrent, ToMark, MarksOK
<1>4. K!HandlersMatch
  BY <1>1 DEF K!HandlersMatch, AtRest, Matched
<1>5. K!ListAnswersBox
  BY <1>1 DEF K!ListAnswersBox, ToAnswer, AnswerOK
<1>6. K!AtMostMaximum
  BY SelectCard DEF ControlInv, Bounded, Limited, K!AtMostMaximum
<1> QED  BY <1>2, <1>3, <1>4, <1>5, <1>6

\* The control, on the page that has it.
SelectInv == onPage = "select2" => ControlInv

\* A page that has the control has it in one of the states of the invariant.
LEMMA SelectStart == PageInit => SelectInv
  BY ControlInit DEF PageInit, SelectInv

\* Every step of a grammar page keeps the invariant of its Select2 control.
THEOREM SelectKept == SelectInv /\ [PageNext]_pageVars => SelectInv'
<1> SUFFICES ASSUME SelectInv, [PageNext]_pageVars, onPage' = "select2"
             PROVE  ControlInv'
  BY DEF SelectInv
<1>1. CASE UNCHANGED pageVars
  BY <1>1, ControlStutter DEF SelectInv, pageVars
<1>2. CASE PageNext
  <2>1. onPage' = onPage
    BY <1>2 DEF PageNext, LoaderStep, ModalStep, TooltipStep, CarouselStep, CollapseStep, TabStep,
           DropdownStep, ScrollSpyStep, ButtonStep, PlacementStep, Select2Step
  <2>2. K!Next
    BY <1>2, <2>1
    DEF PageNext, LoaderStep, ModalStep, TooltipStep, CarouselStep, CollapseStep, TabStep,
        DropdownStep, ScrollSpyStep, ButtonStep, PlacementStep, Select2Step
  <2> QED  BY <2>1, <2>2, ControlNext DEF SelectInv
<1> QED  BY <1>1, <1>2

\* However inputs, prevented events and calls of scripts follow each other, what
\* a Select2 control at rest draws as chosen is what is chosen.
THEOREM SelectionCorrect == PageSpec => []SelectionShown
<1>1. SelectInv => SelectionShown
  BY ControlSafe DEF SelectInv, SelectionShown
<1> QED  BY <1>1, SelectStart, SelectKept, PTL DEF PageSpec

\* The list of an open control at rest that has thrown nothing marks the choices
\* in it and no others.
THEOREM MarksCorrect == PageSpec => []MarksCurrent
<1>1. SelectInv => MarksCurrent
  BY ControlSafe DEF SelectInv, MarksCurrent
<1> QED  BY <1>1, SelectStart, SelectKept, PTL DEF PageSpec

\* No handler of the document or the window is left behind by a closed control,
\* and none is missing from an open one.
THEOREM HandlersCorrect == PageSpec => []HandlersMatch
<1>1. SelectInv => HandlersMatch
  BY ControlSafe DEF SelectInv, HandlersMatch
<1> QED  BY <1>1, SelectStart, SelectKept, PTL DEF PageSpec

\* The list of an open control at rest answers what its search box holds.
THEOREM ListCorrect == PageSpec => []ListAnswersBox
<1>1. SelectInv => ListAnswersBox
  BY ControlSafe DEF SelectInv, ListAnswersBox
<1> QED  BY <1>1, SelectStart, SelectKept, PTL DEF PageSpec

\* A control that closes on a choice has never more choices than its maximum.
THEOREM MaximumCorrect == PageSpec => []AtMostMaximum
<1>1. SelectInv => AtMostMaximum
  BY ControlSafe DEF SelectInv, AtMostMaximum
<1> QED  BY <1>1, SelectStart, SelectKept, PTL DEF PageSpec

-----------------------------------------------------------------------------
(* Results from a server.                                                   *)

USE SearchAssumption

\* The first n pages of the answer to the last question.
PageList(n) == [i \in 1..n |-> [term |-> asked.term, page |-> i]]

AskedIsReal ==
  /\ asked = Nothing \/ asked.page >= 1
  /\ asked.page <= asks
  /\ delay => asked.term # Empty

OneUnderWay ==
  /\ flying \subseteq {asked} \ {Nothing}
  /\ flying # {} => request = asked /\ timer = Nothing
  /\ timer # Nothing => timer = asked
  /\ ~delay => timer = Nothing

ListTold ==
  /\ Waiting => ~requestFailed
  /\ Waiting \/ requestFailed => loading
  /\ more => asked.page >= 1

ListHolds ==
  /\ (Waiting \/ requestFailed) /\ asked.page > 1 => list = PageList(asked.page - 1)
  /\ ~Waiting /\ ~requestFailed /\ asked.page > 0 => list = PageList(asked.page)

IInv == SearchTypeOK /\ AskedIsReal /\ OneUnderWay /\ ListTold /\ ListHolds /\ PagesInOrder

-----------------------------------------------------------------------------
LEMMA PageListFacts ==
  ASSUME SearchTypeOK, NEW n \in Nat
  PROVE  /\ PageList(n) \in Seq(Query)
         /\ Len(PageList(n)) = n
         /\ \A i \in 1..n : PageList(n)[i] = [term |-> asked.term, page |-> i]
  BY DEF PageList, SearchTypeOK, Query

\* One more page makes the list one longer.
LEMMA NextPage ==
  ASSUME SearchTypeOK, asked.page > 1, list = PageList(asked.page - 1)
  PROVE  Append(list, asked) = PageList(asked.page)
<1> DEFINE n == asked.page - 1
<1>0. asked \in Query
  BY DEF SearchTypeOK
<1>1. /\ asked \in Query /\ asked.page \in Nat /\ n \in Nat /\ n + 1 = asked.page
      /\ asked = [term |-> asked.term, page |-> asked.page]
  BY <1>0 DEF Query
<1>2. /\ list \in Seq(Query) /\ Len(list) = n
      /\ \A i \in 1..n : list[i] = [term |-> asked.term, page |-> i]
  BY <1>1, PageListFacts
<1>3. /\ Append(list, asked) \in Seq(Query)
      /\ Len(Append(list, asked)) = asked.page
      /\ \A i \in 1..n : Append(list, asked)[i] = list[i]
      /\ Append(list, asked)[n + 1] = asked
  BY <1>1, <1>2
<1>4. \A i \in 1..asked.page :
        Append(list, asked)[i] = [term |-> asked.term, page |-> i]
  BY <1>1, <1>2, <1>3
<1> QED  BY <1>1, <1>3, <1>4 DEF PageList

\* What a query leaves: it is the only one under way.
LEMMA FetchFacts ==
  ASSUME IInv, NEW q \in Query, q.page >= 1, delay => q.term # Empty,
         asked' = q, Fetch(q), UNCHANGED delay
  PROVE  /\ OneUnderWay' /\ Waiting'
         /\ timer' \in Query /\ request' \in Query /\ flying' \subseteq Query
<1>1. flying \ {request} = {}
  BY DEF IInv, OneUnderWay
<1>2. Nothing \in Query /\ q # Nothing /\ delay \in BOOLEAN /\ timer \in Query
  BY DEF Nothing, Query, IInv, SearchTypeOK
<1>3. CASE delay
  <2>1. timer' = q /\ request' = Nothing /\ flying' = {}
    BY <1>1, <1>3 DEF Fetch
  <2> QED  BY <1>2, <1>3, <2>1 DEF OneUnderWay, Waiting
<1>4. CASE ~delay
  <2>1. timer' = Nothing /\ request' = q /\ flying' = {q}
    BY <1>1, <1>4 DEF Fetch, IInv, OneUnderWay
  <2> QED  BY <1>2, <1>4, <2>1 DEF OneUnderWay, Waiting
<1> QED  BY <1>2, <1>3, <1>4

-----------------------------------------------------------------------------
LEMMA InitIInv == SearchInit => IInv
<1> SUFFICES ASSUME SearchInit PROVE IInv
  OBVIOUS
<1> USE DEF SearchInit, Nothing
<1>1. SearchTypeOK
  <2>1. Nothing \in Query /\ flying \subseteq Query /\ list \in Seq(Query)
    BY DEF Query
  <2> QED  BY <2>1 DEF SearchTypeOK
<1>2. AskedIsReal /\ OneUnderWay /\ ListTold /\ ListHolds /\ PagesInOrder
  BY DEF AskedIsReal, OneUnderWay, ListTold, ListHolds, PagesInOrder, Waiting
<1> QED  BY <1>1, <1>2 DEF IInv

\* A question puts nothing in the list.
LEMMA AskIInv ==
  ASSUME IInv, NEW t \in SearchTerms, Ask(t)
  PROVE  IInv' /\ Waiting'
<1>1. /\ asked' = [term |-> t, page |-> 1] /\ asked' \in Query /\ asked'.page = 1
      /\ asked'.term = t /\ (delay => t # Empty)
  BY DEF Ask, Query
<1>2. /\ Fetch(asked') /\ requestFailed' = FALSE /\ loading' = TRUE /\ isOpen' = TRUE
      /\ asks' = asks + 1 /\ UNCHANGED <<delay, list, more>>
  BY DEF Ask
<1>3. /\ OneUnderWay' /\ Waiting'
      /\ timer' \in Query /\ request' \in Query /\ flying' \subseteq Query
  BY <1>1, <1>2, FetchFacts
<1>4. SearchTypeOK'
  <2>1. (delay \in BOOLEAN)' /\ (more \in BOOLEAN)'
    BY <1>2 DEF IInv, SearchTypeOK
  <2>2. (list \in Seq(Query))' /\ (asks \in Nat)'
    BY <1>2 DEF IInv, SearchTypeOK
  <2> QED  BY <1>1, <1>2, <1>3, <2>1, <2>2 DEF SearchTypeOK
<1>5. AskedIsReal'
  BY <1>1, <1>2 DEF AskedIsReal, IInv, SearchTypeOK
<1>6. ListTold' /\ ListHolds' /\ PagesInOrder'
  BY <1>1, <1>2, <1>3 DEF ListTold, ListHolds, PagesInOrder, IInv
<1> QED  BY <1>3, <1>4, <1>5, <1>6 DEF IInv

\* Only a list at rest loads another page.
LEMMA LoadMoreFacts ==
  ASSUME IInv, LoadMore
  PROVE  ~Waiting /\ ~requestFailed /\ asked.page >= 1 /\ asked.page < MaxAsks
  BY DEF IInv, LoadMore, ListTold, AskedIsReal, SearchTypeOK, Query

LEMMA LoadMoreIInv ==
  ASSUME IInv, LoadMore
  PROVE  IInv' /\ Waiting'
<1>1. asked \in Query /\ asked.page \in Nat /\ asked.page >= 1
  BY LoadMoreFacts DEF IInv, SearchTypeOK, Query
<1>2. /\ asked' = [asked EXCEPT !.page = @ + 1] /\ asked' \in Query
      /\ asked'.page = asked.page + 1 /\ asked'.term = asked.term
      /\ (delay => asked'.term # Empty)
  BY <1>1 DEF LoadMore, Query, IInv, AskedIsReal
<1>3. /\ Fetch(asked') /\ requestFailed' = FALSE /\ loading' = TRUE
      /\ asks' = asks + 1 /\ UNCHANGED <<delay, isOpen, list, more>>
  BY DEF LoadMore
<1>4. /\ OneUnderWay' /\ Waiting'
      /\ timer' \in Query /\ request' \in Query /\ flying' \subseteq Query
  <2>1. asked'.page >= 1 /\ (delay => asked'.term # Empty) /\ UNCHANGED delay
    BY <1>1, <1>2, <1>3
  <2> QED  BY <1>2, <1>3, <2>1, FetchFacts
<1>5. SearchTypeOK'
  <2>1. (delay \in BOOLEAN)' /\ (more \in BOOLEAN)' /\ (isOpen \in BOOLEAN)'
    BY <1>3 DEF IInv, SearchTypeOK
  <2>2. (list \in Seq(Query))' /\ (asks \in Nat)'
    BY <1>3 DEF IInv, SearchTypeOK
  <2> QED  BY <1>2, <1>3, <1>4, <2>1, <2>2 DEF SearchTypeOK
<1>6. AskedIsReal'
  BY <1>1, <1>2, <1>3 DEF AskedIsReal, IInv, SearchTypeOK
<1>7. ListTold' /\ PagesInOrder'
  BY <1>1, <1>2, <1>3, <1>4 DEF ListTold, PagesInOrder, IInv
<1>8. list = PageList(asked.page)
  BY <1>1, LoadMoreFacts DEF IInv, ListHolds
<1>9. ListHolds'
  BY <1>1, <1>2, <1>3, <1>4, <1>8 DEF ListHolds, PageList
<1> QED  BY <1>4, <1>5, <1>6, <1>7, <1>9 DEF IInv

\* A timer sends the query it was set for.
LEMMA TimerIInv ==
  ASSUME IInv, TimerFires
  PROVE  IInv' /\ Waiting /\ Waiting'
<1>1. /\ timer = asked /\ asked # Nothing /\ flying = {}
      /\ timer' = Nothing /\ request' = asked /\ flying' = {asked}
      /\ UNCHANGED <<delay, isOpen, asked, list, more, loading, requestFailed, asks>>
  BY DEF IInv, OneUnderWay, TimerFires
<1>2. Waiting /\ Waiting'
  BY <1>1 DEF Waiting, TimerFires
<1>3. SearchTypeOK'
  BY <1>1 DEF IInv, SearchTypeOK, Nothing, Query
<1>4. AskedIsReal' /\ OneUnderWay'
  BY <1>1 DEF IInv, AskedIsReal, OneUnderWay, Nothing
<1>5. ListTold' /\ ListHolds' /\ PagesInOrder'
  BY <1>1, <1>2 DEF IInv, ListTold, ListHolds, PagesInOrder, PageList
<1> QED  BY <1>2, <1>3, <1>4, <1>5 DEF IInv

\* A query that is answered is the one asked last, and the only one.
LEMMA AnswerFacts ==
  ASSUME IInv, NEW q \in flying
  PROVE  /\ q = asked /\ asked.page >= 1 /\ asked \in Query /\ asked.page \in Nat
         /\ timer = Nothing /\ flying \ {q} = {} /\ Waiting /\ ~requestFailed
         /\ list' = (IF q.page = 1 THEN <<q>> ELSE Append(list, q)) =>
              list' = PageList(asked.page)
<1>1. /\ q = asked /\ asked.page >= 1 /\ asked \in Query /\ asked.page \in Nat
      /\ timer = Nothing /\ flying \ {q} = {} /\ Waiting /\ ~requestFailed
  BY DEF IInv, OneUnderWay, AskedIsReal, ListTold, Waiting, SearchTypeOK, Query
<1>2. CASE asked.page = 1
  <2>1. asked = [term |-> asked.term, page |-> 1]
    BY <1>1, <1>2 DEF Query
  <2>2. <<asked>> = PageList(1)
    BY <2>1 DEF PageList
  <2> QED  BY <1>1, <1>2, <2>2
<1>3. CASE asked.page > 1
  BY <1>1, <1>3, NextPage DEF IInv, ListHolds
<1> QED  BY <1>1, <1>2, <1>3

LEMMA RespondIInv ==
  ASSUME IInv, NEW q \in flying, Respond(q)
  PROVE  IInv' /\ ~Waiting'
<1>1. /\ q = asked /\ asked.page >= 1 /\ asked \in Query /\ asked.page \in Nat
      /\ timer' = Nothing /\ flying' = {} /\ ~requestFailed' /\ list' = PageList(asked.page)
      /\ ~loading' /\ more' \in BOOLEAN
      /\ UNCHANGED <<delay, isOpen, asked, timer, request, requestFailed, asks>>
  BY AnswerFacts DEF Respond
<1>2. ~Waiting'
  BY <1>1 DEF Waiting
<1>3. /\ list' \in Seq(Query) /\ Len(list') = asked.page
      /\ \A i \in 1..asked.page : list'[i] = [term |-> asked.term, page |-> i]
  BY <1>1, PageListFacts DEF IInv
<1>4. SearchTypeOK'
  <2>1. /\ (delay \in BOOLEAN)' /\ (isOpen \in BOOLEAN)' /\ (more \in BOOLEAN)'
        /\ (loading \in BOOLEAN)' /\ (requestFailed \in BOOLEAN)'
    BY <1>1 DEF IInv, SearchTypeOK, Respond
  <2>2. /\ (asked \in Query)' /\ (timer \in Query)' /\ (request \in Query)'
        /\ (asks \in Nat)' /\ (flying \subseteq Query)'
    BY <1>1 DEF IInv, SearchTypeOK
  <2> QED  BY <1>3, <2>1, <2>2 DEF SearchTypeOK
<1>5. AskedIsReal' /\ OneUnderWay' /\ ListTold'
  BY <1>1, <1>2 DEF IInv, AskedIsReal, OneUnderWay, ListTold
<1>6. ListHolds'
  BY <1>1, <1>2 DEF ListHolds, PageList
<1>7. PagesInOrder'
  <2>1. DOMAIN list' = 1..asked.page /\ 1 \in 1..asked.page
    BY <1>1 DEF PageList
  <2>2. list'[1].term = asked.term
    <3>1. list'[1] = [term |-> asked.term, page |-> 1]
      BY <1>3, <2>1
    <3> QED  BY <3>1
  <2> QED  BY <1>3, <2>1, <2>2 DEF PagesInOrder
<1> QED  BY <1>2, <1>4, <1>5, <1>6, <1>7 DEF IInv

LEMMA FailIInv ==
  ASSUME IInv, NEW q \in flying, Fail(q)
  PROVE  IInv' /\ ~Waiting' /\ requestFailed'
<1>1. /\ q = asked /\ asked.page >= 1 /\ timer' = Nothing /\ flying' = {} /\ requestFailed'
      /\ Waiting /\ UNCHANGED <<delay, isOpen, asked, timer, request, list, more, loading, asks>>
  BY AnswerFacts DEF Fail
<1>2. ~Waiting'
  BY <1>1 DEF Waiting
<1>3. requestFailed' \in BOOLEAN
  BY DEF Fail
<1>4. SearchTypeOK'
  BY <1>1, <1>3 DEF IInv, SearchTypeOK
<1>5. AskedIsReal' /\ OneUnderWay' /\ ListTold'
  BY <1>1, <1>2 DEF IInv, AskedIsReal, OneUnderWay, ListTold
<1>6. ListHolds' /\ PagesInOrder'
  BY <1>1, <1>2 DEF IInv, ListHolds, PagesInOrder, PageList
<1> QED  BY <1>1, <1>2, <1>4, <1>5, <1>6 DEF IInv

\* Steps that change neither what is under way nor the list.
LEMMA QuietIInv ==
  ASSUME IInv, UNCHANGED vars \/ Close
  PROVE  IInv' /\ UNCHANGED <<asked, list, timer, flying, requestFailed>>
<1>1. /\ UNCHANGED <<delay, asked, timer, request, flying, list, more, loading, requestFailed, asks>>
      /\ isOpen' \in BOOLEAN
  BY DEF vars, Close, IInv, SearchTypeOK
<1>2. SearchTypeOK' /\ AskedIsReal' /\ OneUnderWay'
  BY <1>1 DEF IInv, SearchTypeOK, AskedIsReal, OneUnderWay
<1>3. ListTold' /\ ListHolds' /\ PagesInOrder'
  BY <1>1 DEF IInv, ListTold, ListHolds, PagesInOrder, PageList, Waiting
<1> QED  BY <1>1, <1>2, <1>3 DEF IInv

LEMMA NextIInv == IInv /\ [SearchNext]_vars => IInv'
<1> SUFFICES ASSUME IInv, [SearchNext]_vars PROVE IInv'
  OBVIOUS
<1>1. ASSUME NEW t \in SearchTerms, Ask(t) PROVE IInv'
  BY <1>1, AskIInv
<1>2. CASE LoadMore
  BY <1>2, LoadMoreIInv
<1>3. CASE TimerFires
  BY <1>3, TimerIInv
<1>4. CASE Answer
  BY <1>4, RespondIInv, FailIInv DEF Answer
<1>5. CASE UNCHANGED vars \/ Close
  BY <1>5, QuietIInv
<1> QED  BY <1>1, <1>2, <1>3, <1>4, <1>5 DEF SearchNext

LEMMA InvariantHolds == SearchSpec => []IInv
  BY InitIInv, NextIInv, PTL DEF SearchSpec

-----------------------------------------------------------------------------
\* At no time does the list mix terms, skip a page or show one twice: every
\* answer AjaxAdapter hands on is the one to the last question.
THEOREM PagesAlwaysInOrder == SearchSpec => []PagesInOrder
<1>1. IInv => PagesInOrder
  BY DEF IInv
<1> QED  BY <1>1, InvariantHolds, PTL

\* At rest the list holds all the pages asked for of the last term, whatever
\* was typed, delayed, aborted, answered or closed on the way.
THEOREM ListFreshAtRest == SearchSpec => []FreshAtRest
<1>1. IInv => FreshAtRest
  BY DEF IInv, ListHolds, PageList, FreshAtRest
<1> QED  BY <1>1, InvariantHolds, PTL

\* Every step of the adapter and the list, seen as a question and an answer, is
\* one FreshResults allows, or none.
THEOREM FreshStepsImplemented == SearchSpec => Fresh!Init /\ [][Fresh!Next]_Fresh!freshVars
<1>1. SearchInit => Fresh!Init
  BY DEF SearchInit, Fresh!Init, Nothing, Waiting
<1>2. IInv /\ [SearchNext]_vars => [Fresh!Next]_Fresh!freshVars
  <2> SUFFICES ASSUME IInv, [SearchNext]_vars PROVE [Fresh!Next]_Fresh!freshVars
    OBVIOUS
  <2>1. ASSUME NEW t \in SearchTerms, Ask(t) PROVE Fresh!Ask(t)
    BY <2>1, AskIInv DEF Ask, Fresh!Ask
  <2>2. ASSUME LoadMore PROVE Fresh!More
    <3>1. ~Waiting /\ ~requestFailed /\ asked.page >= 1 /\ asked.page < MaxAsks /\ Waiting'
      BY <2>2, LoadMoreFacts, LoadMoreIInv
    <3>2. asked.page \in Nat
      BY DEF IInv, SearchTypeOK, Query
    <3>3. asked.page \in 1..MaxAsks
      BY <3>1, <3>2
    <3> QED  BY <2>2, <3>1, <3>3 DEF LoadMore, Fresh!More
  <2>3. CASE TimerFires
    BY <2>3, TimerIInv DEF TimerFires, Fresh!freshVars
  <2>4. ASSUME NEW q \in flying, Respond(q) PROVE Fresh!Deliver
    BY <2>4, AnswerFacts, RespondIInv DEF Respond, Fresh!Deliver
  <2>5. ASSUME NEW q \in flying, Fail(q) PROVE Fresh!GiveUp
    BY <2>5, AnswerFacts, FailIInv DEF Fail, Fresh!GiveUp
  <2>6. CASE UNCHANGED vars \/ Close
    BY <2>6, QuietIInv DEF Waiting, Fresh!freshVars
  <2> QED
    BY <2>1, <2>2, <2>3, <2>4, <2>5, <2>6 DEF SearchNext, Answer, Fresh!Next
<1> QED  BY <1>1, <1>2, InvariantHolds, PTL DEF SearchSpec
=============================================================================
