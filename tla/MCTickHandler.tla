--------------------------- MODULE MCTickHandler ----------------------------
(***************************************************************************)
(* Symmetry for the tick handler's runs.                                   *)
(***************************************************************************)
EXTENDS TickHandler, TLC

\* Symbols are only compared, and every property treats them alike.  For runs
\* without temporal properties.
mcSymmetry == Permutations(Symbols)
=============================================================================
