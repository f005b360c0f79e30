-------------------------- MODULE MCSelect2Search ---------------------------
(***************************************************************************)
(* A server that has two pages for everything, three for one term and none *)
(* for another.                                                            *)
(***************************************************************************)
EXTENDS Select2Search, TLC

MCPages == "undefined" :> 2 @@ "" :> 2 @@ "a" :> 3 @@ "b" :> 0
=============================================================================
