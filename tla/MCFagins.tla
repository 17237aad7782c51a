------------------------------ MODULE MCFagins ------------------------------
(***************************************************************************)
(* Instances of Fagins: few rows, but every assignment of ranks to them,   *)
(* every set of rows each child delivers and every order of delivery.      *)
(***************************************************************************)
EXTENDS Fagins, TLC

\* on either side of the 0 that stands for NULL
MCRanks == {-1, 1}

Symmetry == Permutations(Tid)

=============================================================================
