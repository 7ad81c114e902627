----------------------------- MODULE MCEpisodes -----------------------------
(* Episodes on small instances. *)
EXTENDS Episodes, TLC

CONSTANTS a1, a2, s1, s2

OneAgent == {a1}
TwoAgents == {a1, a2}
OneSession == {s1}
TwoSessions == {s1, s2}
OneTool == {"Bash"}
TwoTools == {"Bash", "Edit"}

Renaming == Permutations(TwoAgents) \cup Permutations(TwoSessions)
=============================================================================
