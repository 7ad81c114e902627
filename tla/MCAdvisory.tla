----------------------------- MODULE MCAdvisory -----------------------------
(* Advisory on small instances. *)
EXTENDS Advisory, TLC

CONSTANTS h1, h2, s1, s2, edit, tip, base

TwoHooks == {h1, h2}
OneSession == {s1}
TwoSessions == {s1, s2}
OneTool == {edit}
TwoAdvices == {tip, base}

Renaming == Permutations(TwoHooks) \cup Permutations(TwoSessions)
=============================================================================
