------------------------------- MODULE MCFeeds -------------------------------
(***************************************************************************)
(* Model-checking instance of Feeds: prices fall, so that the last one is  *)
(* not the highest.                                                        *)
(***************************************************************************)
EXTENDS Feeds

MCPrice == [m \in Messages |-> 1 + MaxSends - m]
=============================================================================
