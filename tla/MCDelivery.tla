----------------------------- MODULE MCDelivery -----------------------------
(* Instances of Delivery for TLC. *)
EXTENDS Delivery, TLC

CONSTANTS x, r1, r2, r3

C(c, q) == [cmds |-> c, qc |-> q]

\* A branch of three proposers, whose last block certifies the first one.
X1 == <<C(x, 0)>>
X2 == Append(X1, C(x, 1))
X3 == Append(X2, C(x, 1))

OneBranch == {X1, X2, X3}
ProposerOf == X1 :> r1 @@ X2 :> r2 @@ X3 :> r3
LastInvalid == {X3}
=============================================================================
