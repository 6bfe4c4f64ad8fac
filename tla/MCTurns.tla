------------------------------ MODULE MCTurns ------------------------------
(***************************************************************************)
(* Small instances of InteractiveTurns and of its refinement of ChatLine.  *)
(***************************************************************************)
EXTENDS InteractiveTurns_line, TLC

\* Messages are interchangeable: nothing orders them but their arrival.
Symmetry == Permutations(Msg)
=============================================================================
