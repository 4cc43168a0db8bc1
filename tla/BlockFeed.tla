----------------------------- MODULE BlockFeed -----------------------------
(***************************************************************************)
(* What consensus is promised about the blocks that it sees, whatever is   *)
(* fetched from whom: a block is delivered to a replica after its parent,  *)
(* it was made by a replica to which its parent had been delivered, and    *)
(* unless the replica made it itself its certificate has been verified.    *)
(* A replica that restarts begins again with the genesis block.            *)
(***************************************************************************)
EXTENDS BlockTree

CONSTANTS
  Nodes,    \* the replicas
  Genuine   \* the blocks whose certificate verifies

VARIABLES
  created,   \* the blocks made so far
  delivered  \* per node: the blocks delivered to it (on_deliver_blk)

Init ==
  /\ created = {b0}
  /\ delivered = [n \in Nodes |-> {b0}]

Create(n, b) ==
  /\ Parent(b) \in delivered[n]
  /\ created' = created \cup {b}
  /\ delivered' = [delivered EXCEPT ![n] = @ \cup {b}]

\* B are blocks of others; the parent of each is delivered with or before it.
Deliver(n, B) ==
  /\ B \subseteq created \cap Genuine
  /\ \A b \in B \ delivered[n] : Parent(b) \in delivered[n] \cup B
  /\ delivered' = [delivered EXCEPT ![n] = @ \cup B]
  /\ UNCHANGED created

Restart(n) ==
  /\ delivered' = [delivered EXCEPT ![n] = {b0}]
  /\ UNCHANGED created

Next ==
  \E n \in Nodes :
    \/ \E b \in created' \ {b0} : Create(n, b)
    \/ Deliver(n, delivered'[n] \ delivered[n])
    \/ Restart(n)

Spec == Init /\ [][Next]_<<created, delivered>>
=============================================================================
