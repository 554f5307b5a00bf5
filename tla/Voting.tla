------------------------------ MODULE Voting ------------------------------
(***************************************************************************)
(* The arithmetic of votes, the same for agents and for peers.  A          *)
(* reputation in [0.0, 1.0] is a number of top-ths, rounded down.          *)
(***************************************************************************)
EXTENDS Integers, FiniteSets, FiniteSetsExt

\* r is at least max(0, mean - sigma * stddev) of the table's reputations: with
\* n entries, their sum and the sum of their squares, the inequality
\* mean - r <= sigma * stddev without divisions and roots.
AtThreshold(table, sigma, r) ==
    LET n == Cardinality(DOMAIN table)
        sum == MapThenSumSet(LAMBDA e : table[e], DOMAIN table)
        squares == MapThenSumSet(LAMBDA e : table[e] * table[e], DOMAIN table)
        short == sum - r * n
    IN short <= 0 \/ short * short <= sigma * sigma * (n * squares - sum * sum)

\* current * (1 - weight) + proposed * weight
Weighted(top, current, proposed, weight) ==
    (current * (top - weight) + proposed * weight) \div top
=============================================================================
