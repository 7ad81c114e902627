---------------------------- MODULE MCEventQueue ----------------------------
(* EventQueue on small instances: the hooks are interchangeable. *)
EXTENDS EventQueue

CONSTANTS h1, h2, w1

TwoHooks == {h1, h2}
OneHook == {h1}
OneWorker == {w1}
Batch1 == {1}
Batch2 == {2}

HookSymmetry == Permutations(TwoHooks)
=============================================================================
