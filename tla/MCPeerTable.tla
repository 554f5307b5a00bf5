---------------------------- MODULE MCPeerTable ----------------------------
(***************************************************************************)
(* Small instances of PeerTable.                                           *)
(***************************************************************************)
EXTENDS PeerTable, TLC

CONSTANTS a, b, e   \* peers

\* What a voter may propose: the extremes.
Extremes == {0, Top}

\* What other nodes' lists say: a neutral and a top reputation.
Claims == {Neutral, Top}

\* b and e appear only in lists and are alike.
ListedOnly == Permutations({b, e})
=============================================================================
