----------------------------- MODULE MCExecutor ------------------------------
(***************************************************************************)
(* Values for the constants of the executor that a .cfg cannot write.      *)
(***************************************************************************)
EXTENDS ExecutorProps, TLC

mcCommands == {"HaltEntries", "ResumeEntries", "FlattenAll"}
mcNone == {}
mcOutcomes == {-1, 1}
mcFunding == {0, 2}
mcDepths == {1, 3}
mcAllFaults == FaultKinds

\* Symbols are only compared, and every property treats them alike.  For runs
\* without temporal properties.
mcSymbolSymmetry == Permutations(Symbols)
=============================================================================
