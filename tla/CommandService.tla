--------------------------- MODULE CommandService ---------------------------
(***************************************************************************)
(* What a client of the replicated state machine is promised: a command    *)
(* that it has submitted is executed at most once, in one order for all,   *)
(* and is reported as confirmed only after it has been executed.           *)
(***************************************************************************)
EXTENDS Sequences, SequencesExt

CONSTANT Commands

VARIABLES
  submitted,  \* the commands that the client has sent
  log,        \* the batches of commands executed so far, in their order
  confirmed   \* the commands reported to the client as executed

Init ==
  /\ submitted = {}
  /\ log = << >>
  /\ confirmed = {}

Submit ==
  /\ submitted' \in SUBSET Commands
  /\ submitted \subseteq submitted'
  /\ UNCHANGED log

Execute ==
  /\ log' \in Seq(Seq(submitted))
  /\ IsPrefix(log, log')
  /\ \A i, j \in DOMAIN log' : \A k \in DOMAIN log'[i], l \in DOMAIN log'[j] :
       log'[i][k] = log'[j][l] => i = j /\ k = l
  /\ UNCHANGED <<submitted, confirmed>>

\* The client may go on with further commands in the same step.
Confirm ==
  /\ confirmed \subseteq confirmed'
  /\ \A c \in confirmed' : \E i \in DOMAIN log : Contains(log[i], c)
  /\ Submit

Next == (Submit /\ UNCHANGED confirmed) \/ Execute \/ Confirm

Spec == Init /\ [][Next]_<<submitted, log, confirmed>>
=============================================================================
