--------------------------- MODULE MCChainVoting ---------------------------
(* Instances of ChainVoting for TLC. *)
EXTENDS ChainVoting, TLC

CONSTANTS x, y, r1, r2, r3

\* A content: payload c, certificate of height q.
C(c, q) == [cmds |-> c, qc |-> q]

\* The branch whose i-th block carries payload c and the certificate qcs[i],
\* on top of block b.
Chain(b, c, qcs) ==
  {b \o [i \in 1..k |-> C(c, qcs[i])] : k \in 1..Len(qcs)}

(* The x branch commits its first block at height 3.  The y branch certifies
   nothing up to height 3, where it is no longer stopped by the vheight rule but
   by the lock alone, and then enough to commit. *)
Overtaking ==
  Chain(b0, x, <<0, 1, 2>>) \cup Chain(b0, y, <<0, 0, 0, 3, 4>>)

\* r1 and one of the others, as the formula of a generalized quorum may say.
HubAndOne == {{r1, r2}, {r1, r3}}
=============================================================================
