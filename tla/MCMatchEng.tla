----------------------------- MODULE MCMatchEng ------------------------------
(***************************************************************************)
(* Model-checking instances of MatchEng: order ids are interchangeable.    *)
(***************************************************************************)
EXTENDS MatchEng

IdSymmetry == Permutations(Ids)
=============================================================================
