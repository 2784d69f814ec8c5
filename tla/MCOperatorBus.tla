--------------------------- MODULE MCOperatorBus ----------------------------
(***************************************************************************)
(* Values for the constants of the operator bus.                           *)
(***************************************************************************)
EXTENDS OperatorBus

mcUpdates == {"FlattenAll", "ResumeEntries", NoCommand}
=============================================================================
