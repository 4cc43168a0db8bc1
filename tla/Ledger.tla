------------------------------- MODULE Ledger -------------------------------
(***************************************************************************)
(* What the replicated state machine promises its clients: every replica   *)
(* executes a sequence of blocks that only grows at its end, and of any    *)
(* two replicas' sequences one is a prefix of the other.  do_consensus and *)
(* do_decide of consensus.cpp:147-156 report each newly executed block, in *)
(* the order of this sequence.                                             *)
(***************************************************************************)
EXTENDS Sequences, SequencesExt

CONSTANTS
  Nodes,    \* the replicas that execute
  Entries   \* what a block may contain

VARIABLE log \* per node: the blocks it has executed, oldest first

Consistent(s, t) == IsPrefix(s, t) \/ IsPrefix(t, s)

Init == log = [n \in Nodes |-> << >>]

\* Node n executes further blocks, none of which conflicts with what any
\* other node has executed.
Execute(n) ==
  /\ log' = [log EXCEPT ![n] = log'[n]]
  /\ log'[n] \in Seq(Entries)
  /\ IsPrefix(log[n], log'[n])
  /\ \A m \in Nodes : Consistent(log'[n], log[m])

Next == \E n \in Nodes : Execute(n)

Spec == Init /\ [][Next]_log
=============================================================================
