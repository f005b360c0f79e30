--------------------------- MODULE MCGrammarPage ----------------------------
(***************************************************************************)
(* Three modules that need each other in every way that matters: a chain,  *)
(* a shared module, a circle of two and of three, a module that needs      *)
(* itself.  A module no script defines is a state on the way to each.      *)
(* The control has two options, with a box that is empty, holds a short or *)
(* a long term, or the text of a choice.                                   *)
(***************************************************************************)
EXTENDS GrammarPage, TLC

MCModules == {"core", "data", "utils"}

Graph(core, data, utils) ==
  [m \in MCModules |-> CASE m = "core" -> core [] m = "data" -> data [] m = "utils" -> utils]

MCDepGraphs ==
  {Graph(<<"data">>, <<"utils">>, <<>>),
   Graph(<<"data", "utils">>, <<"utils">>, <<>>),
   Graph(<<"data", "utils">>, <<"core">>, <<>>),
   Graph(<<"data">>, <<"utils">>, <<"core">>),
   Graph(<<"core", "data">>, <<>>, <<"data", "data">>)}

MCTerms == {"", "a", "ab", "text "}
MCTermLength == "" :> 0 @@ "a" :> 1 @@ "ab" :> 2 @@ "text " :> 5
MCHits == "" :> {1, 2, 3} @@ "a" :> {1, 2, 3} @@ "ab" :> {2, 3} @@ "text " :> {}
MCItemOf == "" :> 0 @@ "a" :> 1 @@ "ab" :> 3 @@ "text " :> 0

Base == [multiple |-> FALSE, closeOnSelect |-> TRUE, selectOnClose |-> FALSE,
         minimumInputLength |-> 0, maximumInputLength |-> 0,
         maximumSelectionLength |-> 0, allowClear |-> FALSE,
         tags |-> FALSE, prevent |-> "none", ctrl |-> FALSE]
Many == [Base EXCEPT !.multiple = TRUE]

\* The pages' control, and one for each option that changes its behaviour.
MCSetups ==
  {[Base EXCEPT !.minimumInputLength = 2],
   [Base EXCEPT !.allowClear = TRUE, !.prevent = "unselect"],
   [Base EXCEPT !.allowClear = TRUE, !.selectOnClose = TRUE, !.closeOnSelect = FALSE],
   [Base EXCEPT !.tags = TRUE],
   [Base EXCEPT !.selectOnClose = TRUE, !.maximumInputLength = 1],
   [Base EXCEPT !.prevent = "open"],
   [Base EXCEPT !.prevent = "close"],
   [Many EXCEPT !.maximumSelectionLength = 1],
   [Many EXCEPT !.closeOnSelect = FALSE, !.allowClear = TRUE],
   [Many EXCEPT !.closeOnSelect = FALSE, !.minimumInputLength = 2],
   [Many EXCEPT !.tags = TRUE, !.ctrl = TRUE],
   [Many EXCEPT !.prevent = "select"]}

\* A list that stays open after a choice, with room for one choice.
OpenListSetups == {[Many EXCEPT !.closeOnSelect = FALSE, !.maximumSelectionLength = 1]}
=============================================================================
