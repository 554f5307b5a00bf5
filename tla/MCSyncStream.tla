---------------------------- MODULE MCSyncStream ----------------------------
(***************************************************************************)
(* A small instance of SyncStream.                                         *)
(***************************************************************************)
EXTENDS SyncStream, TLC

CONSTANT alice   \* an author

Public(i)  == [id |-> i, author |-> alice, visibility |-> "public", body |-> 0]
Network(i) == [id |-> i, author |-> alice, visibility |-> "network", body |-> 0]

\* Three public units, one of which may come from a peer first, and one that
\* only followers may see.
MCUnit == {Public(1), Public(2), Public(3), Network(4)}

FromPeers == {Public(2)}
=============================================================================
