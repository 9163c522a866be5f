------------------------- MODULE MCCaptureIntents -------------------------
(* Small instances of the capture protocol for TLC. *)
EXTENDS CaptureIntents

CONSTANTS g1, g2, a1, a2, b1

TwoGames == {g1, g2}

\* g1 has the saves of two accounts; g2 has none, or the save of one.
TwoAccounts == {a1, a2}
ThreeSaves  == {a1, a2, b1}
MCTitleOf   == [s \in Saves |-> IF s = b1 THEN g2 ELSE g1]
=============================================================================
