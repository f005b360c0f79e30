--------------------------- MODULE Select2Search ----------------------------
(***************************************************************************)
(* Results from a server: the ajax data adapter, with or without a delay   *)
(* after the last key, and the results list that loads one page after      *)
(* another as it is scrolled.  Answers come in any order, or fail.         *)
(***************************************************************************)
EXTENDS Naturals, Sequences, FiniteSets

CONSTANTS
  SearchTerms,   \* what may be searched for
  Empty,         \* the term of an emptied box, for which nobody waits
  Undefined,     \* the term of a dropdown that opens
  Pages,         \* [SearchTerms -> Nat]: the pages the server has for each term
  MaxAsks        \* bound on the questions of the user

ASSUME SearchAssumption ==
  /\ Empty \in SearchTerms /\ Undefined \in SearchTerms /\ Undefined # Empty
  /\ Pages \in [SearchTerms -> Nat] /\ MaxAsks \in Nat

VARIABLES
  delay,         \* ajax.delay is set
  isOpen,
  asked,         \* lastParams: term and page of the last query
  timer,         \* the query the pending _queryTimeout will send
  request,       \* _request: the last query sent and not aborted
  flying,        \* queries the server has not answered
  list,          \* pages in the list
  more,          \* the line that loads more is in the list
  loading,       \* no scrolling loads another page
  requestFailed, \* the last query ended in an error
  asks           \* questions so far

vars == <<delay, isOpen, asked, timer, request, flying, list, more, loading,
          requestFailed, asks>>

Query == [term : SearchTerms, page : Nat]
Nothing == [term |-> Undefined, page |-> 0]

SearchTypeOK ==
  /\ delay \in BOOLEAN /\ isOpen \in BOOLEAN /\ more \in BOOLEAN
  /\ loading \in BOOLEAN /\ requestFailed \in BOOLEAN
  /\ asked \in Query /\ timer \in Query /\ request \in Query
  /\ flying \subseteq Query
  /\ list \in Seq(Query)
  /\ asks \in Nat

SearchInit ==
  /\ delay \in BOOLEAN
  /\ isOpen = FALSE
  /\ asked = Nothing /\ timer = Nothing /\ request = Nothing
  /\ flying = {}
  /\ list = <<>>
  /\ more = FALSE /\ loading = FALSE /\ requestFailed = FALSE
  /\ asks = 0

\* Variant: the request before is not aborted.
Fetch_NoAbort(q) ==
  IF delay /\ q.term # Empty
  THEN timer' = q /\ request' = Nothing /\ UNCHANGED flying
  ELSE request' = q /\ flying' = flying \union {q} /\ UNCHANGED timer

\* AjaxAdapter.query: the request before is aborted; with a delay, the timer
\* before is replaced.
Fetch(q) ==
  IF delay /\ q.term # Empty
  THEN /\ timer' = q
       /\ request' = Nothing
       /\ flying' = flying \ {request}
  ELSE /\ request' = q
       /\ flying' = (flying \ {request}) \union {q}
       /\ UNCHANGED timer

\* A key in the search box, or the dropdown opening.  With a delay the user
\* does not empty the box: that query would not replace the timer.
Ask(t) ==
  /\ asks < MaxAsks
  /\ t = Undefined => ~isOpen
  /\ t = Empty => ~delay
  /\ asked' = [term |-> t, page |-> 1]
  /\ Fetch(asked')
  /\ requestFailed' = FALSE
  /\ isOpen' = TRUE
  /\ loading' = TRUE
  /\ asks' = asks + 1
  /\ UNCHANGED <<delay, list, more>>

\* Variant: scrolling is not told that a page is on its way.
LoadMore_Again ==
  /\ isOpen /\ more
  /\ asks < MaxAsks
  /\ asked' = [asked EXCEPT !.page = @ + 1]
  /\ Fetch(asked')
  /\ requestFailed' = FALSE
  /\ loading' = TRUE
  /\ asks' = asks + 1
  /\ UNCHANGED <<delay, isOpen, list, more>>

\* The list is scrolled to the line that loads more.
LoadMore ==
  /\ isOpen /\ more /\ ~loading
  /\ asks < MaxAsks
  /\ asked' = [asked EXCEPT !.page = @ + 1]
  /\ Fetch(asked')
  /\ requestFailed' = FALSE
  /\ loading' = TRUE
  /\ asks' = asks + 1
  /\ UNCHANGED <<delay, isOpen, list, more>>

\* The delay is over.
TimerFires ==
  /\ timer # Nothing
  /\ request' = timer
  /\ flying' = flying \union {timer}
  /\ timer' = Nothing
  /\ UNCHANGED <<delay, isOpen, asked, list, more, loading, requestFailed, asks>>

\* Variant: the list is told of the first page only.
Respond_FirstOnly(q) ==
  /\ q \in flying
  /\ flying' = flying \ {q}
  /\ list' = IF q.page = 1 THEN <<q>> ELSE Append(list, q)
  /\ more' = (q.page < Pages[q.term])
  /\ loading' = (loading /\ q.page > 1)
  /\ UNCHANGED <<delay, isOpen, asked, timer, request, requestFailed, asks>>

\* results:all for the first page, results:append for the others; a term
\* without results puts up a message.
Respond(q) ==
  /\ q \in flying
  /\ flying' = flying \ {q}
  /\ list' = IF q.page = 1 THEN <<q>> ELSE Append(list, q)
  /\ more' = (q.page < Pages[q.term])
  /\ loading' = FALSE
  /\ UNCHANGED <<delay, isOpen, asked, timer, request, requestFailed, asks>>

\* The server cannot be reached: nothing tells the list.
Fail(q) ==
  /\ q \in flying
  /\ flying' = flying \ {q}
  /\ requestFailed' = TRUE
  /\ UNCHANGED <<delay, isOpen, asked, timer, request, list, more, loading, asks>>

\* Closing aborts nothing.
Close ==
  /\ isOpen
  /\ isOpen' = FALSE
  /\ UNCHANGED <<delay, asked, timer, request, flying, list, more, loading, requestFailed, asks>>

Answer == \E q \in flying : Respond(q) \/ Fail(q)

SearchNext ==
  \/ \E t \in SearchTerms : Ask(t)
  \/ LoadMore
  \/ TimerFires
  \/ Answer
  \/ Close

\* The browser runs timers and reports the end of every request.
SearchSpec == SearchInit /\ [][SearchNext]_vars /\ WF_vars(TimerFires) /\ WF_vars(Answer)

-----------------------------------------------------------------------------
Waiting == timer # Nothing \/ flying # {}

\* At rest the list holds what was asked last, all its pages and no others,
\* whatever requests were aborted, delayed or answered on the way.
FreshAtRest ==
  ~Waiting /\ ~requestFailed /\ asked.page > 0 =>
    list = [i \in 1..asked.page |-> [term |-> asked.term, page |-> i]]

\* At no time does the list mix terms, skip a page or show one twice.
PagesInOrder ==
  \A i \in DOMAIN list : list[i] = [term |-> list[1].term, page |-> i]

\* A list that is loading ends loading, unless its request fails: nothing
\* handles the error, and the list then loads until the next question.
LoadingEnds == loading ~> (~loading \/ requestFailed)

Fresh == INSTANCE FreshResults WITH
  shown <- list,
  state <- IF Waiting THEN "waiting" ELSE IF requestFailed THEN "failed" ELSE "idle",
  Terms <- SearchTerms,
  MaxPage <- MaxAsks

\* Seen from outside the list puts up only answers to the last question.
ImplementsFresh == Fresh!Spec
=============================================================================
