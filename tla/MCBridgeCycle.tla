---------------------------- MODULE MCBridgeCycle ----------------------------
(* BridgeCycle on small instances. *)
EXTENDS BridgeCycle

LearningSteps == {"pipeline", "patterns_fallback"}
ReadingSteps == {"pipeline", "patterns_fallback", "validation"}
SlowSteps == {"pipeline", "patterns_fallback"}
=============================================================================
