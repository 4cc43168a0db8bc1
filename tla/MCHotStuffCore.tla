--------------------------- MODULE MCHotStuffCore ---------------------------
(* Instances of HotStuffCore for TLC. *)
EXTENDS HotStuffCore, TLC

CONSTANTS x, y, r1, r2, r3

\* The branch whose i-th block carries payload c and the certificate qcs[i],
\* on top of block b.
OnTop(b, c, qcs) ==
  {b \o [i \in 1..k |-> [cmds |-> c, qc |-> qcs[i]]] : k \in 1..Len(qcs)}

ThreeStepTree ==
  OnTop(b0, x, <<0, 1, 2, 3, 4>>) \cup OnTop(b0, y, <<0, 1, 2, 3>>)
    \cup OnTop(b0, y, <<0, 1, 1>>)
    \cup OnTop(<<[cmds |-> x, qc |-> 0]>>, y, <<0, 0>>)

TwoOfThree == {{r1, r2}, {r1, r3}, {r2, r3}}

Symm2 == Permutations({r1, r2})
=============================================================================
