---------------------------- MODULE MCAdmission ----------------------------
(***************************************************************************)
(* Small instances of Admission.                                           *)
(***************************************************************************)
EXTENDS Admission, TLC

CONSTANTS a, b, \* agents
          h, k  \* handlers

\* What a voter may propose: the extremes.
Extremes == {0, Top}

\* Agents are alike, and so are handlers.
Alike == Permutations({a, b}) \union Permutations({h, k})
=============================================================================
