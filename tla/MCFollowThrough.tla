-------------------------- MODULE MCFollowThrough ---------------------------
(***************************************************************************)
(* Values for the constants of the follow-through gate.                    *)
(***************************************************************************)
EXTENDS FollowThrough

mcHalf == [s \in Symbols |-> 50]
=============================================================================
