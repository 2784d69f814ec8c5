------------------------------ MODULE SafeMode ------------------------------
(***************************************************************************)
(* The heartbeat-miss ladder of crates/executor-core/src/safe_mode.rs as   *)
(* operators on its state, the record [misses, phase].  The executor       *)
(* calls OnHeartbeat for every heartbeat it receives and OnMiss every time *)
(* its timer branch finds the last heartbeat too old.                      *)
(***************************************************************************)
EXTENDS Naturals

CONSTANTS
  MissCaution,     \* miss_caution:   misses that stop new entries
  MissDefensive,   \* miss_defensive: misses that make the phase Defensive
  MissEmergency    \* miss_emergency: misses that close every position

\* The thresholds are u32 values read from config.toml.  Nothing in the code
\* orders them or makes them positive, and neither does this assumption.
ASSUME MissThresholds ==
  /\ MissCaution \in Nat
  /\ MissDefensive \in Nat
  /\ MissEmergency \in Nat

SafePhase == {"Normal", "Caution", "Defensive", "Emergency"}

\* consecutive_misses grows without bound in the code; the phase depends only
\* on its comparison with the thresholds, so the model counts up to the
\* largest of them (theorem SaturationIsInvisible of ExecutorProofs).
LargestThreshold ==
  CHOOSE n \in {MissCaution, MissDefensive, MissEmergency} :
    \A m \in {MissCaution, MissDefensive, MissEmergency} : m <= n

Saturate(n) == IF n <= LargestThreshold THEN n ELSE LargestThreshold

SafeModeState == [misses : Nat, phase : SafePhase]

NewSafeMode == [misses |-> 0, phase |-> "Normal"]

\* The phase on_miss assigns when n consecutive misses have been counted.
PhaseAfter(n) ==
  IF n >= MissEmergency THEN "Emergency"
  ELSE IF n >= MissDefensive THEN "Defensive"
  ELSE IF n >= MissCaution THEN "Caution"
  ELSE "Normal"

OnHeartbeat(sm) == NewSafeMode

\* Mutant of OnMiss.
OnMissForgetful(sm) == [misses |-> 1, phase |-> PhaseAfter(1)]

OnMiss(sm) ==
  LET n == Saturate(sm.misses + 1)
  IN  [misses |-> n, phase |-> PhaseAfter(n)]

HaltEntries(sm) == sm.phase \in {"Caution", "Defensive", "Emergency"}

CloseAll(sm) == sm.phase = "Emergency"
=============================================================================
