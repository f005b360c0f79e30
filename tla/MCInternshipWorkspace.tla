----------------------- MODULE MCInternshipWorkspace ------------------------
(***************************************************************************)
(* A branch of three commits; changes and workspaces can be exchanged.     *)
(***************************************************************************)
EXTENDS InternshipWorkspace

MCHistory == <<"h1", "h2", "h3">>

MCSymmetry == Permutations(Changes) \cup Permutations(Workspaces)
=============================================================================
