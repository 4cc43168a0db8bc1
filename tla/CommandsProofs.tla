--------------------------- MODULE CommandsProofs ---------------------------
(***************************************************************************)
(* IInv is an invariant of Commands, for any number of replicas, crashes,  *)
(* commands, batches and window and for both builds, and with it that      *)
(* confirmed commands are executed and answers counted once; and Commands  *)
(* implements CommandService.                                              *)
(*                                                                         *)
(* An action is composed of TrySend, Batch and Advance: WindowKeeps,       *)
(* BatchKeeps and AdvanceKeeps are about these operators, the steps of the *)
(* system follow from them.                                                *)
(***************************************************************************)
EXTENDS Commands, FiniteSetTheorems, SequenceTheorems, TLAPS

-----------------------------------------------------------------------------
(* The operators. *)

LEMMA LiveFacts == Live \subseteq Replicas /\ IsFiniteSet(Live) /\ Proposer \in Live
<1>1. Live \subseteq Replicas /\ Proposer \in Live
  BY ReplicasAssumption DEF Live
<1> QED BY <1>1, ReplicasAssumption, FS_Subset

LEMMA CommittedByFacts ==
  ASSUME NEW k \in Nat, NEW l \in Nat, k <= l
  PROVE  /\ CommittedBy(k) \in 0..k
         /\ CommittedBy(k) <= CommittedBy(l)
BY DEF CommittedBy, Depth

\* One more reply of r makes an execution of c by r no less executed.
LEMMA ExecutedStays ==
  ASSUME NEW r, NEW c,
         got[r] \in Nat, got'[r] \in Nat, got[r] <= got'[r], got[r] <= Len(chain),
         Len(chain) \in Nat, \A i \in 1..Len(chain) : chain'[i] = chain[i],
         HasExecuted(r, c)
  PROVE  HasExecuted(r, c)'
<1>1. PICK i \in 1..CommittedBy(got[r]) : Contains(chain[i], c)
  BY DEF HasExecuted
<1>2. /\ CommittedBy(got[r]) \in 0..got[r]
      /\ CommittedBy(got'[r]) \in 0..got'[r]
      /\ CommittedBy(got[r]) <= CommittedBy(got'[r])
  BY CommittedByFacts
<1>3. i \in 1..CommittedBy(got'[r]) /\ chain'[i] = chain[i]
  BY <1>1, <1>2
<1>4. (CommittedBy(got[r]))' = CommittedBy(got'[r])
  BY DEF CommittedBy, Depth
<1> QED BY <1>1, <1>3, <1>4 DEF HasExecuted, Contains

\* The client fills its window and numbers what it sends without gaps.
LEMMA WindowKeeps ==
  ASSUME TypeOK, ClientInv, NEW w \in SUBSET waiting, TrySend(cnt, w, 0)
  PROVE  /\ cnt' \in cnt..Total
         /\ waiting' \in SUBSET Cmds
         /\ waiting' \subseteq 0..(cnt' - 1)
         /\ Cardinality(waiting') <= max_async_num
         /\ sent' \in Seq(Cmds \X (0..MaxRestarts))
         /\ Len(sent') = cnt'
         /\ \A i \in 1..Len(sent') : sent'[i] = <<i - 1, 0>>
<1> DEFINE room == max_async_num - Cardinality(w)
           n == IF room < Total - cnt THEN room ELSE Total - cnt
           new == [k \in 1..n |-> <<cnt + k - 1, 0>>]
<1>1. /\ cnt \in 0..Total /\ Total \in Nat /\ max_async_num \in Nat /\ MaxRestarts \in Nat
      /\ w \subseteq 0..(cnt - 1)
      /\ Cardinality(waiting) <= max_async_num
  BY NumbersAssumption DEF TypeOK, ClientInv
<1>2. IsFiniteSet(0..(cnt - 1))
  BY <1>1, FS_Interval
<1>3. IsFiniteSet(waiting)
  BY <1>2, FS_Subset DEF ClientInv
<1>4. /\ IsFiniteSet(w)
      /\ Cardinality(w) <= Cardinality(waiting)
      /\ Cardinality(w) \in Nat /\ Cardinality(waiting) \in Nat
  BY <1>3, FS_Subset, FS_CardinalityType
<1>5. n \in Nat /\ n <= room /\ cnt + n <= Total
  BY <1>1, <1>4
<1>6. cnt' = cnt + n /\ waiting' = w \cup cnt..(cnt + n - 1) /\ sent' = sent \o new
  BY DEF TrySend
<1> HIDE DEF n
<1>7. Cardinality(waiting') <= max_async_num
  <2>1. /\ IsFiniteSet(cnt..(cnt + n - 1))
        /\ Cardinality(cnt..(cnt + n - 1)) = IF cnt > cnt + n - 1 THEN 0 ELSE cnt + n - 1 - cnt + 1
    <3> DEFINE top == cnt + n - 1
    <3>1. cnt \in Int /\ top \in Int
      BY <1>1, <1>5
    <3> HIDE DEF top
    <3>2. IsFiniteSet(cnt..top) /\ Cardinality(cnt..top) = IF cnt > top THEN 0 ELSE top - cnt + 1
      BY <3>1, FS_Interval
    <3> QED BY <3>2, <1>1, <1>5 DEF top
  <2>2. Cardinality(cnt..(cnt + n - 1)) = n
    BY <2>1, <1>1, <1>5
  <2>3. w \cap (cnt..(cnt + n - 1)) = {}
    BY <1>1, <1>5
  <2>4. Cardinality(w \cup cnt..(cnt + n - 1)) =
          Cardinality(w) + Cardinality(cnt..(cnt + n - 1)) - Cardinality(w \cap (cnt..(cnt + n - 1)))
    BY <1>4, <2>1, FS_Union
  <2>5. Cardinality(waiting') = Cardinality(w) + n - 0
    BY <1>6, <2>2, <2>3, <2>4, FS_EmptySet
  <2>6. n <= max_async_num - Cardinality(w)
    BY <1>5
  <2> QED BY <2>5, <2>6, <1>1, <1>4, <1>5
<1>8. /\ new \in Seq(Cmds \X (0..MaxRestarts)) /\ Len(new) = n
      /\ \A k \in 1..n : new[k] = <<cnt + k - 1, 0>>
  <2>1. \A k \in 1..n : <<cnt + k - 1, 0>> \in Cmds \X (0..MaxRestarts)
    BY <1>1, <1>5 DEF Cmds
  <2> QED BY <2>1, <1>5
<1>9. /\ sent \in Seq(Cmds \X (0..MaxRestarts)) /\ Len(sent) = cnt
      /\ \A i \in 1..Len(sent) : sent[i] = <<i - 1, 0>>
  BY DEF TypeOK, ClientInv
<1> HIDE DEF new
<1>10. /\ sent' \in Seq(Cmds \X (0..MaxRestarts))
       /\ Len(sent') = cnt + n
       /\ \A i \in 1..(cnt + n) : sent'[i] = IF i <= cnt THEN sent[i] ELSE new[i - cnt]
  BY <1>6, <1>8, <1>9, ConcatProperties
<1>11. \A i \in 1..(cnt + n) : sent'[i] = <<i - 1, 0>>
  <2> SUFFICES ASSUME NEW i \in 1..(cnt + n) PROVE sent'[i] = <<i - 1, 0>>
    OBVIOUS
  <2>1. CASE i <= cnt
    BY <2>1, <1>9, <1>10
  <2>2. CASE i > cnt
    <3>1. i - cnt \in 1..n /\ sent'[i] = new[i - cnt]
      BY <2>2, <1>1, <1>5, <1>10
    <3>2. new[i - cnt] = <<cnt + (i - cnt) - 1, 0>> /\ cnt + (i - cnt) - 1 = i - 1
      BY <3>1, <1>8, <1>1
    <3> QED BY <3>1, <3>2
  <2> QED BY <2>1, <2>2, <1>1, <1>5
<1>12. waiting' \subseteq 0..(cnt + n - 1) /\ waiting' \in SUBSET Cmds
  BY <1>1, <1>5, <1>6 DEF Cmds
<1>13. cnt' \in cnt..Total /\ Len(sent') = cnt'
  BY <1>1, <1>5, <1>6, <1>10
<1>14. waiting' \subseteq 0..(cnt' - 1) /\ \A i \in 1..Len(sent') : sent'[i] = <<i - 1, 0>>
  <2>1. cnt' = cnt + n
    BY <1>6
  <2> QED BY <2>1, <1>1, <1>5, <1>11, <1>12, <1>13
<1> QED BY <1>7, <1>10, <1>12, <1>13, <1>14

\* The places of a command between the proposer and the chain.
LEMMA PipelinePlaces ==
  ASSUME chain \in Seq(Seq(Cmds)), beats \in Seq(Seq(Cmds)), buffer \in Seq(Cmds)
  PROVE  /\ Pipeline \in Seq(Seq(Cmds))
         /\ Len(Pipeline) = Len(chain) + Len(beats) + 1
         /\ \A i \in 1..Len(chain) : Pipeline[i] = chain[i]
         /\ \A i \in 1..Len(beats) : Pipeline[Len(chain) + i] = beats[i]
         /\ Pipeline[Len(chain) + Len(beats) + 1] = buffer
<1> DEFINE last == <<buffer>>
<1>1. last \in Seq(Seq(Cmds)) /\ Len(last) = 1 /\ last[1] = buffer
  OBVIOUS
<1> HIDE DEF last
<1> DEFINE cb == chain \o beats
<1>2. /\ cb \in Seq(Seq(Cmds)) /\ Len(cb) = Len(chain) + Len(beats)
      /\ \A i \in 1..(Len(chain) + Len(beats)) :
           cb[i] = IF i <= Len(chain) THEN chain[i] ELSE beats[i - Len(chain)]
  BY ConcatProperties
<1> HIDE DEF cb
<1>3. /\ cb \o last \in Seq(Seq(Cmds)) /\ Len(cb \o last) = Len(cb) + 1
      /\ \A i \in 1..(Len(cb) + 1) :
           (cb \o last)[i] = IF i <= Len(cb) THEN cb[i] ELSE last[i - Len(cb)]
  <2>1. cb \in Seq(Seq(Cmds)) /\ last \in Seq(Seq(Cmds))
    BY <1>1, <1>2
  <2>2. /\ cb \o last \in Seq(Seq(Cmds)) /\ Len(cb \o last) = Len(cb) + Len(last)
        /\ \A i \in 1..(Len(cb) + Len(last)) :
             (cb \o last)[i] = IF i <= Len(cb) THEN cb[i] ELSE last[i - Len(cb)]
    BY <2>1, ConcatProperties
  <2> QED BY <2>2, <1>1
<1>4. Pipeline = cb \o last
  BY DEF Pipeline, cb, last
<1>5. Len(chain) \in Nat /\ Len(beats) \in Nat
  OBVIOUS
<1>6. \A i \in 1..Len(chain) : Pipeline[i] = chain[i]
  BY <1>2, <1>3, <1>4, <1>5, SMTT(40)
<1>7. \A i \in 1..Len(beats) : Pipeline[Len(chain) + i] = beats[i]
  <2> SUFFICES ASSUME NEW i \in 1..Len(beats) PROVE Pipeline[Len(chain) + i] = beats[i]
    OBVIOUS
  <2>1. /\ Len(chain) + i \in 1..(Len(chain) + Len(beats))
        /\ ~(Len(chain) + i <= Len(chain)) /\ (Len(chain) + i) - Len(chain) = i
    BY <1>5
  <2> QED BY <2>1, <1>2, <1>3, <1>4, <1>5, SMTT(40)
<1>8. Pipeline[Len(chain) + Len(beats) + 1] = buffer
  <2>1. (Len(cb) + 1) - Len(cb) = 1 /\ Len(cb) + 1 \in 1..(Len(cb) + 1) /\ ~(Len(cb) + 1 <= Len(cb))
    BY <1>2, <1>5
  <2> QED BY <2>1, <1>1, <1>2, <1>3, <1>4, <1>5
<1> QED BY <1>2, <1>3, <1>4, <1>6, <1>7, <1>8

\* Commands enter the pipeline in the order of their numbers.
LEMMA PipelineOrdered ==
  ASSUME PipelineInv, NEW i \in 1..Len(Pipeline), NEW j \in 1..Len(Pipeline),
         NEW k \in 1..Len(Pipeline[i]), NEW l \in 1..Len(Pipeline[j]),
         i < j \/ (i = j /\ k < l)
  PROVE  Pipeline[i][k] < Pipeline[j][l]
BY Zenon DEF PipelineInv

\* A batch or the buffer takes one more command, in its place.
LEMMA BatchKeeps ==
  ASSUME TypeOK, PipelineInv, heard[Proposer] \in Cmds,
         Batch(heard[Proposer]), chain' = chain, heard'[Proposer] = heard[Proposer] + 1
  PROVE  buffer' \in Seq(Cmds) /\ beats' \in Seq(Seq(Cmds)) /\ PipelineInv'
<1> DEFINE c == heard[Proposer]
           n == Len(chain) + Len(beats)
           full == Append(buffer, c)
           more == Append(beats, full)
<1>1. /\ chain \in Seq(Seq(Cmds)) /\ beats \in Seq(Seq(Cmds)) /\ buffer \in Seq(Cmds)
      /\ c \in Cmds /\ c \in Nat /\ n \in Nat
      /\ Len(chain) \in Nat /\ Len(beats) \in Nat
  BY DEF TypeOK, Cmds
<1>2. /\ full \in Seq(Cmds) /\ Len(full) = Len(buffer) + 1
      /\ \A k \in 1..Len(buffer) : full[k] = buffer[k]
      /\ full[Len(buffer) + 1] = c
  BY <1>1, AppendProperties
<1> HIDE DEF full
<1>3. /\ more \in Seq(Seq(Cmds)) /\ Len(more) = Len(beats) + 1
      /\ \A i \in 1..Len(beats) : more[i] = beats[i]
      /\ more[Len(beats) + 1] = full
  BY <1>1, <1>2, AppendProperties
<1>4. \/ buffer' = full /\ beats' = beats
      \/ buffer' = << >> /\ beats' = more
  BY DEF Batch, full
<1> HIDE DEF more
<1>5. buffer' \in Seq(Cmds) /\ beats' \in Seq(Seq(Cmds)) /\ chain' \in Seq(Seq(Cmds))
  <2>1. << >> \in Seq(Cmds)
    BY EmptySeq
  <2> QED BY <2>1, <1>1, <1>2, <1>3, <1>4
<1>6. /\ Pipeline \in Seq(Seq(Cmds))
      /\ Len(Pipeline) = n + 1
      /\ \A i \in 1..Len(chain) : Pipeline[i] = chain[i]
      /\ \A i \in 1..Len(beats) : Pipeline[Len(chain) + i] = beats[i]
      /\ Pipeline[n + 1] = buffer
  BY <1>1, PipelinePlaces
<1>7. /\ Pipeline' \in Seq(Seq(Cmds))
      /\ Len(Pipeline') = Len(chain) + Len(beats') + 1
      /\ \A i \in 1..Len(chain) : Pipeline'[i] = chain[i]
      /\ \A i \in 1..Len(beats') : Pipeline'[Len(chain) + i] = beats'[i]
      /\ Pipeline'[Len(chain) + Len(beats') + 1] = buffer'
  BY <1>5, PipelinePlaces DEF Pipeline
<1> HIDE DEF n
<1>8. /\ \A i \in 1..n : Pipeline'[i] = Pipeline[i]
      /\ Pipeline'[n + 1] = full
      /\ \/ Len(Pipeline') = n + 1
         \/ Len(Pipeline') = n + 2 /\ Pipeline'[n + 2] = << >>
  <2>1. \A i \in 1..n : Pipeline'[i] = Pipeline[i]
    <3> SUFFICES ASSUME NEW i \in 1..n PROVE Pipeline'[i] = Pipeline[i]
      OBVIOUS
    <3>1. CASE i <= Len(chain)
      BY <3>1, <1>1, <1>6, <1>7 DEF n
    <3>2. CASE i > Len(chain)
      <4> DEFINE j == i - Len(chain)
      <4>1. j \in 1..Len(beats) /\ i = Len(chain) + j
        BY <3>2, <1>1 DEF n
      <4> HIDE DEF j
      <4>2. j \in 1..Len(beats') /\ beats'[j] = beats[j]
        <5>1. CASE beats' = beats
          BY <4>1, <5>1
        <5>2. CASE beats' = more
          BY <4>1, <5>2, <1>1, <1>3
        <5> QED BY <5>1, <5>2, <1>4
      <4> QED BY <4>1, <4>2, <1>6, <1>7
    <3> QED BY <3>1, <3>2, <1>1
  <2>2. CASE buffer' = full /\ beats' = beats
    BY <2>1, <2>2, <1>7 DEF n
  <2>3. CASE buffer' = << >> /\ beats' = more
    <3>1. /\ Len(beats') = Len(beats) + 1 /\ beats'[Len(beats) + 1] = full
          /\ Len(beats) + 1 \in 1..Len(beats')
      BY <2>3, <1>1, <1>3
    <3>2. Pipeline'[Len(chain) + (Len(beats) + 1)] = full
      BY <3>1, <1>7
    <3>4. Len(chain) + (Len(beats) + 1) = n + 1
      BY <1>1 DEF n
    <3>3. Len(chain) + Len(beats') + 1 = n + 2
      BY <3>1, <1>1 DEF n
    <3> QED BY <2>1, <2>3, <3>2, <3>3, <3>4, <1>7
  <2> QED BY <2>2, <2>3, <1>4
<1>9. PipelineInv'
  <2> SUFFICES ASSUME NEW i \in 1..Len(Pipeline'), NEW j \in 1..Len(Pipeline'),
                      NEW k \in 1..Len(Pipeline'[i]), NEW l \in 1..Len(Pipeline'[j])
               PROVE  /\ i < j \/ (i = j /\ k < l) => Pipeline'[i][k] < Pipeline'[j][l]
                      /\ Pipeline'[i][k] < c + 1
    BY DEF PipelineInv
  <2>1. i \in 1..(n + 1) /\ j \in 1..(n + 1)
    BY <1>1, <1>8, SMTT(40)
  <2>2. Pipeline[n + 1] = buffer /\ Len(Pipeline) = n + 1
    BY <1>6
  <2>3. \A a \in 1..(n + 1) : \A b \in 1..Len(Pipeline[a]) : Pipeline[a][b] < c /\ Pipeline[a][b] \in Int
    <3> SUFFICES ASSUME NEW a \in 1..(n + 1), NEW b \in 1..Len(Pipeline[a])
                 PROVE  Pipeline[a][b] < c /\ Pipeline[a][b] \in Int
      OBVIOUS
    <3>1. Pipeline[a] \in Seq(Cmds)
      BY <1>6
    <3>2. Pipeline[a][b] \in Cmds
      BY <3>1, ElementOfSeq
    <3> QED BY <3>2, <2>2 DEF PipelineInv, Cmds
  <2>4. \A a \in 1..(n + 1) : \A b \in 1..Len(Pipeline'[a]) :
          \/ a <= n + 1 /\ b \in 1..Len(Pipeline[a]) /\ Pipeline'[a][b] = Pipeline[a][b]
          \/ a = n + 1 /\ b = Len(Pipeline[a]) + 1 /\ Pipeline'[a][b] = c
    <3> SUFFICES ASSUME NEW a \in 1..(n + 1), NEW b \in 1..Len(Pipeline'[a])
                 PROVE  \/ a <= n + 1 /\ b \in 1..Len(Pipeline[a]) /\ Pipeline'[a][b] = Pipeline[a][b]
                        \/ a = n + 1 /\ b = Len(Pipeline[a]) + 1 /\ Pipeline'[a][b] = c
      OBVIOUS
    <3>1. CASE a \in 1..n
      <4>1. Pipeline'[a] = Pipeline[a]
        BY <3>1, <1>8
      <4>2. a <= n + 1
        BY <3>1, <1>1
      <4> QED BY <4>1, <4>2
    <3>2. CASE a = n + 1
      <4>1. Len(buffer) \in Nat /\ b \in 1..(Len(buffer) + 1) /\ Pipeline'[a] = full
        BY <3>2, <1>1, <1>2, <1>8
      <4> QED BY <4>1, <3>2, <2>2, <1>1, <1>2, SMTT(40)
    <3> QED BY <3>1, <3>2, <1>1
  <2>7. \/ k \in 1..Len(Pipeline[i]) /\ Pipeline'[i][k] = Pipeline[i][k]
        \/ i = n + 1 /\ k = Len(Pipeline[i]) + 1 /\ Pipeline'[i][k] = c
    BY <2>1, <2>4
  <2>8. \/ l \in 1..Len(Pipeline[j]) /\ Pipeline'[j][l] = Pipeline[j][l]
        \/ j = n + 1 /\ l = Len(Pipeline[j]) + 1 /\ Pipeline'[j][l] = c
    BY <2>1, <2>4
  <2>5. Pipeline'[i][k] < c + 1
    BY <2>1, <2>3, <2>7, <1>1, SMTT(40)
  <2>6. ASSUME i < j \/ (i = j /\ k < l)
        PROVE  Pipeline'[i][k] < Pipeline'[j][l]
    <3>1. k \in 1..Len(Pipeline[i]) /\ Pipeline'[i][k] = Pipeline[i][k]
      <4>1. Pipeline[i] \in Seq(Cmds) /\ Pipeline[j] \in Seq(Cmds)
        BY <2>1, <1>6
      <4>2. Len(Pipeline[i]) \in Nat /\ Len(Pipeline[j]) \in Nat
        BY <4>1
      <4>3. i \in Int /\ j \in Int /\ k \in Int /\ l \in Int /\ i <= n + 1 /\ j <= n + 1
        BY <2>1, <1>1
      <4>4. ~(i = n + 1 /\ k = Len(Pipeline[i]) + 1)
        <5> SUFFICES ASSUME i = n + 1, k = Len(Pipeline[i]) + 1 PROVE FALSE
          OBVIOUS
        <5>1. j = i /\ k < l
          BY <4>3, <2>6
        <5>2. l <= Len(Pipeline[j]) + 1
          BY <4>2, <4>3, <2>8
        <5> QED BY <4>2, <4>3, <5>1, <5>2
      <4> QED BY <4>4, <2>7
    <3>2. CASE l \in 1..Len(Pipeline[j]) /\ Pipeline'[j][l] = Pipeline[j][l]
      <4>1. /\ i \in 1..Len(Pipeline) /\ j \in 1..Len(Pipeline)
            /\ k \in 1..Len(Pipeline[i]) /\ l \in 1..Len(Pipeline[j])
        BY <3>1, <3>2, <2>1, <2>2
      <4>2. Pipeline[i][k] < Pipeline[j][l]
        BY <4>1, <2>6, PipelineOrdered
      <4> QED BY <4>2, <3>1, <3>2
    <3>3. CASE Pipeline'[j][l] = c
      BY <3>1, <3>3, <2>1, <2>3
    <3> QED BY <3>2, <3>3, <2>8
  <2> QED BY <2>5, <2>6
<1> QED BY <1>5, <1>9

\* Deciding blocks moves commands from decision_waiting to the answers.
LEMMA AdvanceKeeps ==
  ASSUME TypeOK, AnswerInv, ChainInv,
         chain' \in Seq(Seq(Cmds)), Len(chain) <= Len(chain'),
         \A i \in 1..Len(chain) : chain'[i] = chain[i],
         NEW r \in Live, NEW k \in Nat, got[r] <= k, k <= Len(chain'), Advance(r, k),
         acks' = acks, heard' = heard
  PROVE  /\ decision_waiting' \in [Replicas -> SUBSET (Cmds \X (0..MaxRestarts))]
         /\ answers' \in SUBSET (Replicas \X Cmds \X {0, 1} \X (0..MaxRestarts))
         /\ got' \in [Replicas -> 0..Len(chain')]
         /\ AnswerInv'
         /\ \A q \in Replicas : \A c : HasExecuted(q, c) => HasExecuted(q, c)'
<1> DEFINE run == CommittedBy(got[r]) + 1 .. CommittedBy(k)
           now == {e \in decision_waiting[r] : \E i \in run : Contains(chain'[i], e[1])}
<1>1. /\ r \in Replicas /\ Len(chain) \in Nat /\ Len(chain') \in Nat
      /\ decision_waiting \in [Replicas -> SUBSET (Cmds \X (0..MaxRestarts))]
      /\ got \in [Replicas -> 0..Len(chain)]
      /\ answers \in SUBSET (Replicas \X Cmds \X {0, 1} \X (0..MaxRestarts))
  BY LiveFacts DEF TypeOK
<1>2. /\ got' = [got EXCEPT ![r] = k]
      /\ decision_waiting' = [decision_waiting EXCEPT ![r] = @ \ now]
      /\ answers' = answers \cup {<<r, e[1], 1, e[2]>> : e \in now}
  BY DEF Advance
<1>3. now \subseteq decision_waiting[r]
  OBVIOUS
<1>4. \A e \in now : HasExecuted(r, e[1])'
  <2> SUFFICES ASSUME NEW e \in now PROVE HasExecuted(r, e[1])'
    OBVIOUS
  <2>1. PICK i \in run : Contains(chain'[i], e[1])
    OBVIOUS
  <2>2. /\ CommittedBy(got[r]) \in 0..got[r] /\ CommittedBy(k) \in 0..k
        /\ got[r] \in Nat /\ got'[r] = k
    BY <1>1, <1>2, CommittedByFacts
  <2>3. (CommittedBy(got[r]))' = CommittedBy(k)
    BY <2>2 DEF CommittedBy, Depth
  <2>4. i \in 1..CommittedBy(k)
    BY <2>1, <2>2
  <2>5. (Contains(chain[i], e[1]))'
    BY <2>1 DEF Contains
  <2> QED BY <2>3, <2>4, <2>5 DEF HasExecuted
<1>5. \A e, d \in decision_waiting[r] : e \in now /\ d[1] = e[1] => d \in now
  OBVIOUS
<1> HIDE DEF now
<1>6. \A q \in Replicas : decision_waiting'[q] = IF q = r THEN decision_waiting[q] \ now ELSE decision_waiting[q]
  BY <1>1, <1>2
<1>7. \A q \in Replicas : got[q] <= got'[q] /\ got'[q] \in 0..Len(chain') /\ got[q] \in Nat
  BY <1>1, <1>2 DEF ChainInv
<1>8. \A q \in Replicas : \A c : HasExecuted(q, c) => HasExecuted(q, c)'
  <2> SUFFICES ASSUME NEW q \in Replicas, NEW c, HasExecuted(q, c) PROVE HasExecuted(q, c)'
    OBVIOUS
  <2>1. got[q] \in Nat /\ got'[q] \in Nat /\ got[q] <= got'[q] /\ got[q] <= Len(chain)
    BY <1>1, <1>7
  <2> QED BY <1>1, <2>1, ExecutedStays
<1>9. decision_waiting' \in [Replicas -> SUBSET (Cmds \X (0..MaxRestarts))]
  BY <1>1, <1>2
<1>10. answers' \in SUBSET (Replicas \X Cmds \X {0, 1} \X (0..MaxRestarts))
  BY <1>1, <1>2, <1>3
<1>11. got' \in [Replicas -> 0..Len(chain')]
  BY <1>1, <1>2, <1>7
<1>12. AnswerInv'
  <2>1. \A q \in Replicas : \A e \in decision_waiting'[q] : e[2] = 0 /\ e[1] < heard'[q]
    BY <1>6 DEF AnswerInv
  <2>2. ASSUME NEW m \in answers'
        PROVE  /\ m[1] \in Live /\ m[3] = 1 /\ m[4] = 0
               /\ m[2] < heard'[m[1]]
               /\ HasExecuted(m[1], m[2])'
               /\ ~Open(m[1], m[2])'
    <3>1. CASE m \in answers
      BY <3>1, <1>6, <1>8, LiveFacts DEF AnswerInv, Open
    <3>2. CASE \E e \in now : m = <<r, e[1], 1, e[2]>>
      <4>1. PICK e \in now : m = <<r, e[1], 1, e[2]>>
        BY <3>2
      <4>2. m[1] = r /\ m[2] = e[1] /\ m[3] = 1 /\ m[4] = e[2]
        BY <4>1
      <4>3. ~Open(r, e[1])'
        BY <1>1, <1>3, <1>5, <1>6 DEF Open
      <4> QED BY <4>2, <4>3, <1>1, <1>3, <1>4 DEF AnswerInv
    <3> QED BY <3>1, <3>2, <1>2
  <2>3. ASSUME NEW a \in acks'
        PROVE  /\ a[2] \in Live
               /\ a[1] < heard'[a[2]]
               /\ HasExecuted(a[2], a[1])'
               /\ ~Open(a[2], a[1])' /\ ~InFlight(a[2], a[1])'
    <3>1. /\ a \in acks /\ a[2] \in Replicas
      BY LiveFacts DEF AnswerInv
    <3>2. ~Open(a[2], a[1])'
      BY <3>1, <1>6 DEF AnswerInv, Open
    <3>3. ~InFlight(a[2], a[1])'
      <4> SUFFICES ASSUME NEW m \in answers', m[1] = a[2], m[2] = a[1] PROVE FALSE
        BY DEF InFlight
      <4>1. m \notin answers
        BY <3>1 DEF AnswerInv, InFlight
      <4>2. PICK e \in now : m = <<r, e[1], 1, e[2]>>
        BY <4>1, <1>2
      <4>3. a[2] = r /\ a[1] = e[1]
        BY <4>2
      <4> QED BY <4>3, <3>1, <1>3 DEF AnswerInv, Open
    <3> QED BY <3>1, <3>2, <3>3, <1>8 DEF AnswerInv
  <2> QED BY <2>1, <2>2, <2>3 DEF AnswerInv
<1> QED BY <1>8, <1>9, <1>10, <1>11, <1>12

-----------------------------------------------------------------------------
(* The service. *)

svc == <<{sent[i][1] : i \in DOMAIN sent}, Executed(Longest), confirmed>>

\* The replica that is ahead is as far as the proposer, which has all blocks.
LEMMA AheadHasChain ==
  ASSUME NEW g, NEW n \in Nat, \A q \in Replicas : g[q] \in 0..n, g[Proposer] = n
  PROVE  /\ (CHOOSE r \in Live : \A q \in Live : g[q] <= g[r]) \in Live
         /\ g[CHOOSE r \in Live : \A q \in Live : g[q] <= g[r]] = n
<1> DEFINE Ahead(r) == \A q \in Live : g[q] <= g[r]
<1>1. Proposer \in Live /\ Ahead(Proposer)
  BY LiveFacts
<1> DEFINE l == CHOOSE r \in Live : Ahead(r)
<1>2. l \in Live /\ Ahead(l)
  BY <1>1
<1>3. g[l] \in 0..n /\ g[Proposer] <= g[l]
  BY <1>1, <1>2, LiveFacts
<1>4. g[l] = n
  BY <1>3
<1> QED BY <1>2, <1>4

\* The log of the service are the blocks that the last one commits.
LEMMA LogIsCommitted ==
  /\ TypeOK /\ ChainInv => Executed(Longest) = SubSeq(chain, 1, CommittedBy(Len(chain)))
  /\ TypeOK' /\ ChainInv' => Executed(Longest)' = SubSeq(chain', 1, CommittedBy(Len(chain')))
<1>1. ASSUME TypeOK, ChainInv
      PROVE  Executed(Longest) = SubSeq(chain, 1, CommittedBy(Len(chain)))
  <2>1. Len(chain) \in Nat /\ \A q \in Replicas : got[q] \in 0..Len(chain)
    BY <1>1 DEF TypeOK
  <2>2. got[Longest] = Len(chain)
    BY <1>1, <2>1, AheadHasChain DEF Longest, ChainInv
  <2> QED BY <2>2 DEF Executed
<1>2. ASSUME TypeOK', ChainInv'
      PROVE  Executed(Longest)' = SubSeq(chain', 1, CommittedBy(Len(chain')))
  <2>1. Len(chain') \in Nat /\ \A q \in Replicas : got'[q] \in 0..Len(chain')
    BY <1>2 DEF TypeOK
  <2>2. got'[Longest'] = Len(chain')
    BY <1>2, <2>1, AheadHasChain DEF Longest, ChainInv
  <2>3. Executed(Longest)' = SubSeq(chain', 1, CommittedBy(got'[Longest']))
    BY DEF Executed, CommittedBy, Depth
  <2> QED BY <2>2, <2>3
<1> QED BY <1>1, <1>2

\* What a replica has executed is in the log.
LEMMA ExecutedIsLogged ==
  ASSUME TypeOK, ChainInv, NEW r \in Replicas, NEW c, HasExecuted(r, c)
  PROVE  \E i \in DOMAIN Executed(Longest) : Contains(Executed(Longest)[i], c)
<1>1. /\ chain \in Seq(Seq(Cmds)) /\ Len(chain) \in Nat
      /\ got[r] \in 0..Len(chain)
  BY DEF TypeOK
<1>2. PICK i \in 1..CommittedBy(got[r]) : Contains(chain[i], c)
  BY DEF HasExecuted
<1> DEFINE k == CommittedBy(Len(chain))
<1>3. k \in 0..Len(chain) /\ i \in 1..k
  <2>1. got[r] \in Nat /\ got[r] <= Len(chain)
    BY <1>1
  <2>2. CommittedBy(got[r]) <= k /\ CommittedBy(got[r]) \in 0..got[r] /\ k \in 0..Len(chain)
    BY <1>1, <2>1, CommittedByFacts
  <2> QED BY <1>2, <2>2
<1> HIDE DEF k
<1>4. /\ SubSeq(chain, 1, k) \in Seq(Seq(Cmds)) /\ Len(SubSeq(chain, 1, k)) = k
      /\ \A j \in 1..k : SubSeq(chain, 1, k)[j] = chain[j]
  BY <1>1, <1>3, SubSeqProperties
<1>5. Executed(Longest) = SubSeq(chain, 1, k)
  BY LogIsCommitted DEF k
<1>6. i \in DOMAIN SubSeq(chain, 1, k)
  BY <1>3, <1>4
<1>7. Contains(SubSeq(chain, 1, k)[i], c)
  BY <1>2, <1>3, <1>4
<1> QED BY <1>5, <1>6, <1>7

\* Confirmed commands stay executed.
LEMMA ConfirmedStays ==
  ASSUME ConfirmedIsExecuted, confirmed' = confirmed,
         \A q \in Replicas : \A c : HasExecuted(q, c) => HasExecuted(q, c)'
  PROVE  ConfirmedIsExecuted'
<1> SUFFICES ASSUME NEW c \in confirmed
             PROVE  Cardinality({r \in Live : HasExecuted(r, c)'}) > nfaulty
  BY DEF ConfirmedIsExecuted
<1> DEFINE now == {r \in Live : HasExecuted(r, c)}
           then == {r \in Live : HasExecuted(r, c)'}
<1>1. Cardinality(now) > nfaulty
  BY DEF ConfirmedIsExecuted
<1>2. now \subseteq then /\ now \subseteq Live /\ then \subseteq Live
  BY LiveFacts
<1> HIDE DEF now, then
<1>3. IsFiniteSet(now) /\ IsFiniteSet(then)
  BY <1>2, LiveFacts, FS_Subset
<1>4. Cardinality(now) <= Cardinality(then) /\ Cardinality(now) \in Nat /\ Cardinality(then) \in Nat
  BY <1>2, <1>3, FS_Subset, FS_CardinalityType
<1>5. Cardinality(then) > nfaulty
  BY <1>1, <1>4, ReplicasAssumption
<1> QED BY <1>5 DEF then

\* All that is said of places also holds when the proposer has heard no more.
LEMMA PipelineStays ==
  ASSUME PipelineInv, Pipeline' = Pipeline, heard'[Proposer] = heard[Proposer]
  PROVE  PipelineInv'
BY DEF PipelineInv

\* The numbers that the client has sent.
LEMMA SubmittedAre ==
  /\ ClientInv => {sent[i][1] : i \in 1..Len(sent)} = {i - 1 : i \in 1..Len(sent)}
  /\ ClientInv' => {sent[i][1] : i \in 1..Len(sent)}' = {i - 1 : i \in 1..Len(sent')}
BY DEF ClientInv

\* More requests are a step of the service, if nothing is executed meanwhile.
LEMMA SubmitsMore ==
  ASSUME TypeOK, TypeOK', ClientInv, ClientInv', cnt <= cnt', Executed(Longest)' = Executed(Longest),
         confirmed \subseteq confirmed',
         \A c \in confirmed' : \E i \in DOMAIN Executed(Longest) : Contains(Executed(Longest)[i], c)
  PROVE  Service!Next
<1>1. /\ sent \in Seq(Cmds \X (0..MaxRestarts)) /\ sent' \in Seq(Cmds \X (0..MaxRestarts))
      /\ Len(sent) = cnt /\ Len(sent') = cnt' /\ cnt \in Nat /\ cnt' \in Nat
      /\ DOMAIN sent = 1..Len(sent) /\ DOMAIN sent' = 1..Len(sent')
  BY DEF TypeOK, ClientInv
<1>2. /\ {sent[i][1] : i \in DOMAIN sent} = {i - 1 : i \in 1..Len(sent)}
      /\ {sent[i][1] : i \in DOMAIN sent}' = {i - 1 : i \in 1..Len(sent')}
  BY <1>1, SubmittedAre
<1>3. {i - 1 : i \in 1..Len(sent)} \subseteq {i - 1 : i \in 1..Len(sent')}
  BY <1>1
<1>4. {sent[i][1] : i \in DOMAIN sent}' \in SUBSET Cmds
  <2>1. \A i \in 1..Len(sent') : sent'[i][1] \in Cmds
    BY <1>1
  <2> QED BY <2>1, <1>1
<1>5. Service!Submit
  BY <1>2, <1>3, <1>4 DEF Service!Submit
<1> QED BY <1>5 DEF Service!Next, Service!Confirm, Service!Contains, Contains

\* Without new blocks or committed ones nothing is executed.
LEMMA ExecutedSame ==
  ASSUME chain' = chain, got' = got
  PROVE  /\ \A r, c : HasExecuted(r, c)' <=> HasExecuted(r, c)
         /\ Executed(Longest)' = Executed(Longest)
<1>1. \A r, c : HasExecuted(r, c)' <=> HasExecuted(r, c)
  BY DEF HasExecuted, CommittedBy, Depth, Contains
<1>2. Longest' = Longest
  BY DEF Longest
<1>3. \A r : Executed(r)' = Executed(r)
  BY DEF Executed, CommittedBy, Depth
<1>4. Executed(Longest)' = SubSeq(chain', 1, CommittedBy(got'[Longest']))
  BY DEF Executed, CommittedBy, Depth
<1> QED BY <1>1, <1>2, <1>4 DEF Executed

\* The requests of the replicas are among those sent when these grow.
LEMMA HeardStays ==
  ASSUME TypeOK, ClientInv, cnt' \in cnt..Total, Len(sent') = cnt', heard' = heard
  PROVE  heard' \in [Replicas -> 0..Len(sent')]
<1>1. /\ heard \in [Replicas -> 0..cnt] /\ cnt \in Nat /\ Total \in Nat
  BY NumbersAssumption DEF TypeOK, ClientInv
<1>2. \A r \in Replicas : heard[r] \in 0..Len(sent')
  BY <1>1
<1> QED BY <1>1, <1>2

-----------------------------------------------------------------------------
(* The steps. *)

LEMMA ClientStartStep ==
  ASSUME IInv, ClientStart
  PROVE  IInv' /\ Service!Next
<1>1. cnt = 0 /\ inc = 0 /\ {} \in SUBSET waiting
  BY DEF IInv, ClientInv, ClientStart
<1>2. TrySend(cnt, {}, 0)
  BY <1>1 DEF ClientStart
<1>3. /\ cnt' \in cnt..Total
      /\ waiting' \in SUBSET Cmds
      /\ waiting' \subseteq 0..(cnt' - 1)
      /\ Cardinality(waiting') <= max_async_num
      /\ sent' \in Seq(Cmds \X (0..MaxRestarts))
      /\ Len(sent') = cnt'
      /\ \A i \in 1..Len(sent') : sent'[i] = <<i - 1, 0>>
  BY <1>1, <1>2, WindowKeeps DEF IInv
<1>4. /\ inc' = inc /\ acks' = acks /\ confirmed' = confirmed /\ heard' = heard
      /\ decision_waiting' = decision_waiting /\ buffer' = buffer /\ beats' = beats
      /\ chain' = chain /\ got' = got /\ answers' = answers
  BY DEF ClientStart
<1>5. /\ \A r, c : HasExecuted(r, c)' <=> HasExecuted(r, c)
      /\ Executed(Longest)' = Executed(Longest)
  BY <1>4, ExecutedSame
<1>6. heard' \in [Replicas -> 0..Len(sent')]
  BY <1>3, <1>4, HeardStays DEF IInv
<1>7. TypeOK'
  <2>1. cnt' \in 0..Total
    BY <1>1, <1>3
  <2> QED BY <2>1, <1>3, <1>4, <1>6 DEF IInv, TypeOK
<1>8. ClientInv'
  BY <1>1, <1>3, <1>4 DEF ClientInv
<1>9. AnswerInv'
  BY <1>4, <1>5 DEF IInv, AnswerInv, Open, InFlight
<1>10. ChainInv' /\ PipelineInv'
  <2>1. Pipeline' = Pipeline
    BY <1>4 DEF Pipeline
  <2> QED BY <2>1, <1>4, PipelineStays DEF IInv, ChainInv
<1>11. ConfirmedIsExecuted'
  BY <1>4, <1>5, ConfirmedStays DEF IInv
<1>12. Service!Next
  <2>1. /\ {sent[i][1] : i \in DOMAIN sent}' \in SUBSET Cmds
        /\ {sent[i][1] : i \in DOMAIN sent} = {}
    <3>1. \A i \in DOMAIN sent' : sent'[i][1] \in Cmds
      BY <1>3
    <3>2. sent = << >>
      BY DEF ClientStart
    <3> QED BY <3>1, <3>2
  <2>2. Service!Submit
    BY <2>1, <1>5 DEF Service!Submit
  <2> QED BY <2>2, <1>4 DEF Service!Next
<1> QED BY <1>7, <1>8, <1>9, <1>10, <1>11, <1>12 DEF IInv

\* The window part of HandleAnswer, for the client that counts the reply.
LEMMA HandleAnswerStep ==
  ASSUME IInv, NEW m \in answers, HandleAnswer(m)
  PROVE  IInv' /\ [Service!Next]_svc
<1> DEFINE c == m[2]
           repliers == {m[1]} \cup {r \in Replicas : <<c, r>> \in acks}
<1>1. TypeOK /\ ClientInv /\ AnswerInv /\ ChainInv /\ PipelineInv /\ ConfirmedIsExecuted
  BY DEF IInv
<1>2. /\ m \in Replicas \X Cmds \X {0, 1} \X (0..MaxRestarts)
      /\ m[1] \in Live /\ m[1] \in Replicas /\ c \in Cmds
      /\ m[3] = 1 /\ m[4] = 0 /\ c < heard[m[1]] /\ HasExecuted(m[1], c) /\ ~Open(m[1], c)
  BY <1>1 DEF TypeOK, AnswerInv
<1>3. /\ answers' = answers \ {m} /\ heard' = heard
      /\ decision_waiting' = decision_waiting /\ buffer' = buffer /\ beats' = beats
      /\ chain' = chain /\ got' = got
  BY DEF HandleAnswer
<1>4. /\ \A r, d : HasExecuted(r, d)' <=> HasExecuted(r, d)
      /\ Executed(Longest)' = Executed(Longest)
  BY <1>3, ExecutedSame
<1>5. ChainInv' /\ PipelineInv'
  <2>1. Pipeline' = Pipeline
    BY <1>3 DEF Pipeline
  <2> QED BY <2>1, <1>1, <1>3, PipelineStays DEF ChainInv
<1>6. \A r, d : InFlight(r, d)' => InFlight(r, d)
  BY <1>3 DEF InFlight
<1>7. \A r, d : Open(r, d)' <=> Open(r, d)
  BY <1>3 DEF Open
<1>8. CASE c \notin waiting
  <2>1. /\ inc' = inc /\ cnt' = cnt /\ waiting' = waiting /\ acks' = acks
        /\ confirmed' = confirmed /\ sent' = sent
    BY <1>8 DEF HandleAnswer, client
  <2>2. TypeOK'
    BY <2>1, <1>1, <1>3 DEF TypeOK
  <2>3. ClientInv'
    BY <2>1, <1>1 DEF ClientInv
  <2>4. AnswerInv'
    BY <2>1, <1>1, <1>3, <1>4, <1>6, <1>7 DEF AnswerInv
  <2>5. ConfirmedIsExecuted'
    BY <2>1, <1>1, <1>4, ConfirmedStays
  <2>6. UNCHANGED svc
    BY <2>1, <1>4 DEF svc
  <2> QED BY <2>2, <2>3, <2>4, <2>5, <2>6, <1>5 DEF IInv
<1>9. CASE c \in waiting
  <2>1. inc' = inc /\ inc = 0 /\ acks' = acks \cup {<<c, m[1]>>}
    BY <1>1, <1>9 DEF HandleAnswer, ClientInv
  <2>2. ~InFlight(m[1], c)'
    <3> SUFFICES ASSUME NEW o \in answers', o[1] = m[1], o[2] = c PROVE FALSE
      BY DEF InFlight
    <3>1. /\ o \in answers /\ o # m /\ o \in Replicas \X Cmds \X {0, 1} \X (0..MaxRestarts)
          /\ o[3] = 1 /\ o[4] = 0
      BY <1>1, <1>3 DEF TypeOK, AnswerInv
    <3>2. o = <<o[1], o[2], o[3], o[4]>> /\ m = <<m[1], m[2], m[3], m[4]>>
      BY <3>1, <1>2
    <3> QED BY <3>1, <3>2, <1>2
  <2>3. AnswerInv'
    <3>1. \A r \in Replicas : \A e \in decision_waiting'[r] : e[2] = 0 /\ e[1] < heard'[r]
      BY <1>1, <1>3 DEF AnswerInv
    <3>2. \A o \in answers' :
            /\ o[1] \in Live /\ o[3] = 1 /\ o[4] = 0
            /\ o[2] < heard'[o[1]]
            /\ HasExecuted(o[1], o[2])'
            /\ ~Open(o[1], o[2])'
      BY <1>1, <1>3, <1>4, <1>7 DEF AnswerInv
    <3>3. ASSUME NEW a \in acks'
          PROVE  /\ a[2] \in Live
                 /\ a[1] < heard'[a[2]]
                 /\ HasExecuted(a[2], a[1])'
                 /\ ~Open(a[2], a[1])' /\ ~InFlight(a[2], a[1])'
      <4>1. CASE a \in acks
        BY <4>1, <1>1, <1>3, <1>4, <1>6, <1>7 DEF AnswerInv
      <4>2. CASE a = <<c, m[1]>>
        BY <4>2, <2>2, <1>2, <1>3, <1>4, <1>7
      <4> QED BY <4>1, <4>2, <2>1
    <3> QED BY <3>1, <3>2, <3>3 DEF AnswerInv
  <2>4. acks' \in SUBSET (Cmds \X Replicas)
    BY <2>1, <1>1, <1>2 DEF TypeOK
  <2>5. answers' \in SUBSET (Replicas \X Cmds \X {0, 1} \X (0..MaxRestarts))
    BY <1>1, <1>3 DEF TypeOK
  <2>6. CASE ~Enough(repliers)
    <3>1. cnt' = cnt /\ waiting' = waiting /\ confirmed' = confirmed /\ sent' = sent
      BY <2>6, <1>9 DEF HandleAnswer
    <3>2. TypeOK'
      BY <3>1, <2>1, <2>4, <2>5, <1>1, <1>3 DEF TypeOK
    <3>3. ClientInv'
      BY <3>1, <2>1, <1>1 DEF ClientInv
    <3>4. ConfirmedIsExecuted'
      BY <3>1, <1>1, <1>4, ConfirmedStays
    <3>5. UNCHANGED svc
      BY <3>1, <1>4 DEF svc
    <3> QED BY <3>2, <3>3, <3>4, <3>5, <2>3, <1>5 DEF IInv
  <2>7. CASE Enough(repliers)
    <3>1. confirmed' = confirmed \cup {c} /\ TrySend(cnt, waiting \ {c}, 0)
      BY <2>1, <2>7, <1>9 DEF HandleAnswer
    <3>2. /\ cnt' \in cnt..Total
          /\ waiting' \in SUBSET Cmds
          /\ waiting' \subseteq 0..(cnt' - 1)
          /\ Cardinality(waiting') <= max_async_num
          /\ sent' \in Seq(Cmds \X (0..MaxRestarts))
          /\ Len(sent') = cnt'
          /\ \A i \in 1..Len(sent') : sent'[i] = <<i - 1, 0>>
      <4>1. waiting \ {c} \in SUBSET waiting
        OBVIOUS
      <4> HIDE DEF c
      <4> QED BY <4>1, <3>1, <1>1, WindowKeeps
    <3>3. heard' \in [Replicas -> 0..Len(sent')]
      BY <3>2, <1>1, <1>3, HeardStays
    <3>4. TypeOK'
      <4>1. confirmed' \in SUBSET Cmds
        BY <3>1, <1>1, <1>2 DEF TypeOK
      <4>2. cnt' \in 0..Total
        BY <3>2, <1>1, NumbersAssumption DEF TypeOK
      <4> QED BY <4>1, <4>2, <3>2, <3>3, <2>1, <2>4, <2>5, <1>1, <1>3 DEF TypeOK
    <3>5. ClientInv'
      BY <3>2, <2>1 DEF ClientInv
    <3>6. Cardinality({r \in Live : HasExecuted(r, c)}) > nfaulty
      <4>1. repliers \subseteq {r \in Live : HasExecuted(r, c)}
        <5>1. \A r : <<c, r>> \in acks => r \in Live /\ HasExecuted(r, c)
          BY <1>1 DEF AnswerInv
        <5> QED BY <5>1, <1>2
      <4>2. IsFiniteSet({r \in Live : HasExecuted(r, c)})
        BY LiveFacts, FS_Subset
      <4> DEFINE ran == {r \in Live : HasExecuted(r, c)}
      <4> HIDE DEF ran, repliers
      <4>3. /\ Cardinality(repliers) <= Cardinality(ran)
            /\ Cardinality(repliers) \in Nat /\ Cardinality(ran) \in Nat
        BY <4>1, <4>2, FS_Subset, FS_CardinalityType DEF ran
      <4>4. Cardinality(repliers) > nfaulty
        BY <2>7 DEF Enough
      <4>5. Cardinality(ran) > nfaulty
        BY <4>3, <4>4, ReplicasAssumption
      <4> QED BY <4>5 DEF ran
    <3>7. ConfirmedIsExecuted'
      <4> SUFFICES ASSUME NEW d \in confirmed'
                   PROVE  Cardinality({r \in Live : HasExecuted(r, d)'}) > nfaulty
        BY DEF ConfirmedIsExecuted
      <4>1. {r \in Live : HasExecuted(r, d)'} = {r \in Live : HasExecuted(r, d)}
        BY <1>4
      <4>2. Cardinality({r \in Live : HasExecuted(r, d)}) > nfaulty
        BY <3>1, <3>6, <1>1 DEF ConfirmedIsExecuted
      <4> QED BY <4>1, <4>2
    <3>8. Service!Next
      <4>1. \A d \in confirmed' : \E r \in Live : HasExecuted(r, d)
        <5> SUFFICES ASSUME NEW d \in confirmed', ~\E r \in Live : HasExecuted(r, d) PROVE FALSE
          OBVIOUS
        <5>1. Cardinality({r \in Live : HasExecuted(r, d)}) > nfaulty
          BY <3>1, <3>6, <1>1 DEF ConfirmedIsExecuted
        <5>2. {r \in Live : HasExecuted(r, d)} = {}
          OBVIOUS
        <5>3. 0 > nfaulty
          BY <5>1, <5>2, FS_EmptySet
        <5> QED BY <5>3, ReplicasAssumption
      <4>2. \A d \in confirmed' :
              \E i \in DOMAIN Executed(Longest) : Contains(Executed(Longest)[i], d)
        BY <4>1, <1>1, ExecutedIsLogged, LiveFacts
      <4>3. cnt <= cnt' /\ confirmed \subseteq confirmed'
        BY <3>1, <3>2
      <4> QED BY <4>2, <4>3, <3>4, <3>5, <1>1, <1>4, SubmitsMore
    <3> QED BY <3>4, <3>5, <3>7, <3>8, <2>3, <1>5 DEF IInv
  <2> QED BY <2>6, <2>7
<1> QED BY <1>8, <1>9

LEMMA HandleRequestStep ==
  ASSUME IInv, NEW r \in Live, HandleRequest(r)
  PROVE  IInv' /\ UNCHANGED svc
<1> DEFINE e == sent[heard[r] + 1]
           h == heard[r]
<1>1. TypeOK /\ ClientInv /\ AnswerInv /\ ChainInv /\ PipelineInv /\ ConfirmedIsExecuted
  BY DEF IInv
<1>2. /\ r \in Replicas /\ Proposer \in Replicas
      /\ heard \in [Replicas -> 0..Len(sent)] /\ Len(sent) \in Nat
      /\ h \in Nat /\ h + 1 \in 1..Len(sent)
      /\ e \in Cmds \X (0..MaxRestarts) /\ e = <<h, 0>> /\ h \in Cmds
  <2>1. /\ r \in Replicas /\ Proposer \in Replicas
        /\ heard \in [Replicas -> 0..Len(sent)] /\ Len(sent) \in Nat
        /\ sent \in Seq(Cmds \X (0..MaxRestarts))
    BY <1>1, LiveFacts DEF TypeOK
  <2>2. h \in Nat /\ h + 1 \in 1..Len(sent)
    BY <2>1 DEF HandleRequest
  <2>3. e \in Cmds \X (0..MaxRestarts)
    BY <2>1, <2>2
  <2>4. e = <<h + 1 - 1, 0>> /\ h + 1 - 1 = h
    BY <2>2, <1>1 DEF ClientInv
  <2> QED BY <2>1, <2>2, <2>3, <2>4
<1>3. /\ inc' = inc /\ cnt' = cnt /\ waiting' = waiting /\ acks' = acks
      /\ confirmed' = confirmed /\ sent' = sent /\ chain' = chain /\ got' = got
      /\ heard' = [heard EXCEPT ![r] = @ + 1]
  BY DEF HandleRequest, client
<1>4. ~\E d \in decision_waiting[r] : d[1] = e[1]
  BY <1>1, <1>2 DEF AnswerInv
<1>5. /\ decision_waiting' = [decision_waiting EXCEPT ![r] = @ \cup {e}]
      /\ answers' = answers
  BY <1>4 DEF HandleRequest
<1>6. IF r = Proposer THEN Batch(h) ELSE buffer' = buffer /\ beats' = beats
  <2>1. e[1] = h
    BY <1>2
  <2> QED BY <2>1 DEF HandleRequest
<1> HIDE DEF e, h
<1>7. /\ \A q, d : HasExecuted(q, d)' <=> HasExecuted(q, d)
      /\ Executed(Longest)' = Executed(Longest)
  BY <1>3, ExecutedSame
<1>8. buffer' \in Seq(Cmds) /\ beats' \in Seq(Seq(Cmds)) /\ PipelineInv'
  <2>1. CASE r = Proposer
    <3>1. heard'[Proposer] = heard[Proposer] + 1 /\ heard[Proposer] = h
      BY <2>1, <1>2, <1>3 DEF h
    <3>2. Batch(heard[Proposer]) /\ heard[Proposer] \in Cmds
      BY <2>1, <3>1, <1>2, <1>6
    <3> QED BY <3>1, <3>2, <1>1, <1>3, BatchKeeps
  <2>2. CASE r # Proposer
    <3>1. buffer' = buffer /\ beats' = beats
      BY <2>2, <1>6
    <3>2. Pipeline' = Pipeline
      BY <3>1, <1>3 DEF Pipeline
    <3>3. heard'[Proposer] = heard[Proposer]
      BY <2>2, <1>2, <1>3
    <3> QED BY <3>1, <3>2, <3>3, <1>1, PipelineStays DEF TypeOK
  <2> QED BY <2>1, <2>2
<1>9. TypeOK'
  <2>1. heard' \in [Replicas -> 0..Len(sent')]
    BY <1>2, <1>3 DEF h
  <2>2. decision_waiting' \in [Replicas -> SUBSET (Cmds \X (0..MaxRestarts))]
    BY <1>1, <1>2, <1>5 DEF TypeOK
  <2> QED BY <2>1, <2>2, <1>1, <1>3, <1>5, <1>8 DEF TypeOK
<1>10. ClientInv' /\ ChainInv'
  BY <1>1, <1>3 DEF ClientInv, ChainInv
<1>11. AnswerInv'
  <2>1. \A q \in Replicas : heard[q] \in Int /\ heard'[q] \in Int /\ heard[q] <= heard'[q]
    BY <1>2, <1>3
  <2>2. heard'[r] = h + 1
    BY <1>2, <1>3 DEF h
  <2>3. \A q \in Replicas : decision_waiting'[q] = IF q = r THEN decision_waiting[q] \cup {e} ELSE decision_waiting[q]
    BY <1>1, <1>2, <1>5 DEF TypeOK
  <2>4. ASSUME NEW q \in Replicas, NEW d \in decision_waiting'[q]
        PROVE  d[2] = 0 /\ d[1] < heard'[q]
    <3>1. CASE d \in decision_waiting[q]
      <4>1. d[2] = 0 /\ d[1] < heard[q] /\ d[1] \in Int
        BY <3>1, <1>1 DEF AnswerInv, TypeOK, Cmds
      <4> QED BY <4>1, <2>1
    <3>2. CASE q = r /\ d = e
      BY <3>2, <2>2, <1>2
    <3> QED BY <3>1, <3>2, <2>3
  <2>5. ASSUME NEW q \in Replicas, NEW c, Open(q, c)'
        PROVE  Open(q, c) \/ (q = r /\ c = h)
    <3>1. PICK d \in decision_waiting'[q] : d[1] = c
      BY <2>5 DEF Open
    <3>2. e[1] = h
      BY <1>2
    <3> QED BY <3>1, <3>2, <2>3 DEF Open
  <2>6. ASSUME NEW m \in answers'
        PROVE  /\ m[1] \in Live /\ m[3] = 1 /\ m[4] = 0
               /\ m[2] < heard'[m[1]]
               /\ HasExecuted(m[1], m[2])'
               /\ ~Open(m[1], m[2])'
    <3>1. /\ m[1] \in Live /\ m[3] = 1 /\ m[4] = 0 /\ m[2] < heard[m[1]]
          /\ HasExecuted(m[1], m[2]) /\ ~Open(m[1], m[2])
          /\ m[1] \in Replicas /\ m[2] \in Int
      BY <1>1, <1>5, LiveFacts DEF AnswerInv, TypeOK, Cmds
    <3>2. m[2] < heard'[m[1]]
      BY <3>1, <2>1, <1>2, <1>3
    <3>3. ~(m[1] = r /\ m[2] = h)
      BY <3>1, <1>2 DEF h
    <3> QED BY <3>1, <3>2, <3>3, <2>5, <1>7
  <2>7. ASSUME NEW a \in acks'
        PROVE  /\ a[2] \in Live
               /\ a[1] < heard'[a[2]]
               /\ HasExecuted(a[2], a[1])'
               /\ ~Open(a[2], a[1])' /\ ~InFlight(a[2], a[1])'
    <3>1. /\ a[2] \in Live /\ a[1] < heard[a[2]]
          /\ HasExecuted(a[2], a[1]) /\ ~Open(a[2], a[1]) /\ ~InFlight(a[2], a[1])
          /\ a[2] \in Replicas /\ a[1] \in Int
      BY <1>1, <1>3, LiveFacts DEF AnswerInv, TypeOK, Cmds
    <3>2. a[1] < heard'[a[2]]
      BY <3>1, <2>1, <1>2, <1>3
    <3>3. ~(a[2] = r /\ a[1] = h)
      BY <3>1, <1>2 DEF h
    <3>4. ~InFlight(a[2], a[1])'
      BY <3>1, <1>5 DEF InFlight
    <3> QED BY <3>1, <3>2, <3>3, <3>4, <2>5, <1>7
  <2> QED BY <2>4, <2>6, <2>7 DEF AnswerInv
<1>12. ConfirmedIsExecuted'
  BY <1>1, <1>3, <1>7, ConfirmedStays
<1>13. UNCHANGED svc
  BY <1>3, <1>7 DEF svc
<1> QED BY <1>8, <1>9, <1>10, <1>11, <1>12, <1>13 DEF IInv

\* The first batch becomes the last block: nothing changes its place.
LEMMA ProposeKeepsPlaces ==
  ASSUME TypeOK, beats # << >>, chain' = Append(chain, Head(beats)), beats' = Tail(beats),
         buffer' = buffer
  PROVE  /\ chain' \in Seq(Seq(Cmds)) /\ beats' \in Seq(Seq(Cmds))
         /\ Len(chain') = Len(chain) + 1
         /\ \A i \in 1..Len(chain) : chain'[i] = chain[i]
         /\ Pipeline' = Pipeline
<1>1. /\ chain \in Seq(Seq(Cmds)) /\ beats \in Seq(Seq(Cmds)) /\ buffer \in Seq(Cmds)
      /\ Len(chain) \in Nat /\ Len(beats) \in Nat
  BY DEF TypeOK
<1>2. /\ Head(beats) \in Seq(Cmds) /\ beats' \in Seq(Seq(Cmds))
      /\ Len(beats') = Len(beats) - 1
      /\ \A i \in 1..Len(beats') : beats'[i] = beats[i + 1]
      /\ Head(beats) = beats[1] /\ Len(beats) \in Nat \ {0}
  BY <1>1, HeadTailProperties, EmptySeq
<1>3. /\ chain' \in Seq(Seq(Cmds)) /\ Len(chain') = Len(chain) + 1
      /\ \A i \in 1..Len(chain) : chain'[i] = chain[i]
      /\ chain'[Len(chain) + 1] = beats[1]
  BY <1>1, <1>2, AppendProperties
<1> DEFINE n == Len(chain) + Len(beats) + 1
<1>4. /\ Pipeline \in Seq(Seq(Cmds)) /\ Len(Pipeline) = n
      /\ \A i \in 1..Len(chain) : Pipeline[i] = chain[i]
      /\ \A i \in 1..Len(beats) : Pipeline[Len(chain) + i] = beats[i]
      /\ Pipeline[n] = buffer
  BY <1>1, PipelinePlaces
<1>5. /\ Pipeline' \in Seq(Seq(Cmds)) /\ Len(Pipeline') = Len(chain') + Len(beats') + 1
      /\ \A i \in 1..Len(chain') : Pipeline'[i] = chain'[i]
      /\ \A i \in 1..Len(beats') : Pipeline'[Len(chain') + i] = beats'[i]
      /\ Pipeline'[Len(chain') + Len(beats') + 1] = buffer'
  BY <1>1, <1>2, <1>3, PipelinePlaces DEF Pipeline
<1>6. Len(chain') + Len(beats') + 1 = n
  BY <1>1, <1>2, <1>3
<1>7. \A i \in 1..n : Pipeline'[i] = Pipeline[i]
  <2> SUFFICES ASSUME NEW i \in 1..n PROVE Pipeline'[i] = Pipeline[i]
    OBVIOUS
  <2>1. CASE i <= Len(chain)
    <3>1. i \in 1..Len(chain) /\ i \in 1..Len(chain')
      BY <2>1, <1>1, <1>3
    <3> QED BY <3>1, <1>3, <1>4, <1>5
  <2>2. CASE i = Len(chain) + 1
    <3>1. Len(chain) + 1 \in 1..Len(chain')
      BY <1>1, <1>3
    <3>3. Pipeline'[Len(chain) + 1] = beats[1]
      BY <3>1, <1>3, <1>5
    <3>2. Pipeline[Len(chain) + 1] = beats[1]
      BY <1>2, <1>4
    <3> QED BY <3>2, <3>3, <2>2
  <2>3. CASE i = n
    BY <2>3, <1>4, <1>5, <1>6
  <2>4. CASE i > Len(chain) + 1 /\ i < n
    <3> DEFINE j == i - (Len(chain) + 1)
    <3>1. /\ j \in 1..Len(beats') /\ j + 1 \in 1..Len(beats)
          /\ i = Len(chain') + j /\ i = Len(chain) + (j + 1)
      BY <2>4, <1>1, <1>2, <1>3
    <3> HIDE DEF j
    <3>2. Pipeline'[i] = beats'[j] /\ beats'[j] = beats[j + 1]
      BY <3>1, <1>2, <1>5
    <3>3. Pipeline[i] = beats[j + 1]
      BY <3>1, <1>4
    <3> QED BY <3>2, <3>3
  <2>5. \/ i <= Len(chain) \/ i = Len(chain) + 1 \/ i = n
        \/ i > Len(chain) + 1 /\ i < n
    <3>1. Len(chain) \in Nat /\ n \in Nat /\ i <= n
      BY <1>1
    <3> HIDE DEF n
    <3> QED BY <3>1
  <2> QED BY <2>1, <2>2, <2>3, <2>4, <2>5
<1>8. Pipeline' = Pipeline
  <2> HIDE DEF n
  <2>1. Len(Pipeline') = Len(Pipeline) /\ \A i \in 1..Len(Pipeline') : Pipeline'[i] = Pipeline[i]
    BY <1>4, <1>5, <1>6, <1>7
  <2> QED BY <2>1, <1>4, <1>5, SeqEqual
<1> QED BY <1>2, <1>3, <1>8

\* What a longer chain commits is executed in the order of submission.
LEMMA ExecutesMore ==
  ASSUME TypeOK, TypeOK', ChainInv, ChainInv', PipelineInv', ClientInv,
         heard' = heard, sent' = sent, confirmed' = confirmed,
         Len(chain) <= Len(chain'), \A i \in 1..Len(chain) : chain'[i] = chain[i]
  PROVE  Service!Execute
<1> DEFINE submitted == {sent[i][1] : i \in DOMAIN sent}
           k == CommittedBy(Len(chain))
           l == CommittedBy(Len(chain'))
           log == SubSeq(chain, 1, k)
           next == SubSeq(chain', 1, l)
<1>1. /\ chain \in Seq(Seq(Cmds)) /\ chain' \in Seq(Seq(Cmds))
      /\ beats' \in Seq(Seq(Cmds)) /\ buffer' \in Seq(Cmds)
      /\ Len(chain) \in Nat /\ Len(chain') \in Nat
      /\ sent \in Seq(Cmds \X (0..MaxRestarts)) /\ Len(sent) \in Nat /\ DOMAIN sent = 1..Len(sent)
      /\ heard[Proposer] \in 0..Len(sent)
  BY LiveFacts DEF TypeOK
<1>2. k \in 0..Len(chain) /\ l \in 0..Len(chain') /\ k <= l
  BY <1>1, CommittedByFacts
<1>3. Executed(Longest) = log /\ Executed(Longest)' = next
  BY LogIsCommitted
<1> HIDE DEF k, l
<1>4. /\ log \in Seq(Seq(Cmds)) /\ Len(log) = k
      /\ \A i \in 1..k : log[i] = chain[i]
  BY <1>1, <1>2, SubSeqProperties
<1>5. \A i \in 1..l : i \in 1..Len(chain')
  BY <1>1, <1>2
<1>6. \A i \in 1..Len(chain') : \A a \in 1..Len(chain'[i]) :
        /\ chain'[i][a] \in submitted
        /\ \A j \in 1..Len(chain') : \A b \in 1..Len(chain'[j]) :
             chain'[i][a] = chain'[j][b] => i = j /\ a = b
  <2>1. /\ Len(Pipeline') = Len(chain') + Len(beats') + 1
        /\ \A i \in 1..Len(chain') : Pipeline'[i] = chain'[i]
    BY <1>1, PipelinePlaces DEF Pipeline
  <2>2. \A i \in 1..Len(chain') : i \in 1..Len(Pipeline') /\ chain'[i] \in Seq(Cmds)
    BY <2>1, <1>1
  <2> SUFFICES ASSUME NEW i \in 1..Len(chain'), NEW a \in 1..Len(chain'[i])
               PROVE  /\ chain'[i][a] \in submitted
                      /\ \A j \in 1..Len(chain') : \A b \in 1..Len(chain'[j]) :
                           chain'[i][a] = chain'[j][b] => i = j /\ a = b
    OBVIOUS
  <2>3. chain'[i][a] \in Cmds
    BY <2>2, ElementOfSeq
  <2>4. chain'[i][a] \in submitted
    <3>1. chain'[i][a] < heard[Proposer]
      BY <2>1, <2>2 DEF PipelineInv
    <3> DEFINE c == chain'[i][a]
    <3>5. c \in Nat
      BY <2>3 DEF Cmds
    <3>6. c < heard[Proposer]
      BY <3>1
    <3> HIDE DEF c
    <3>7. heard[Proposer] \in Nat /\ heard[Proposer] <= Len(sent) /\ Len(sent) \in Nat
      BY <1>1
    <3>2. c \in Nat /\ c + 1 \in 1..Len(sent)
      BY <3>5, <3>6, <3>7
    <3>3. sent[c + 1] = <<c + 1 - 1, 0>> /\ c + 1 - 1 = c
      BY <3>2 DEF ClientInv
    <3>4. sent[c + 1][1] = c
      BY <3>3
    <3> QED BY <3>2, <3>4, <1>1 DEF c
  <2>5. ASSUME NEW j \in 1..Len(chain'), NEW b \in 1..Len(chain'[j]),
               chain'[i][a] = chain'[j][b]
        PROVE  i = j /\ a = b
    <3>1. /\ i < j \/ (i = j /\ a < b) => chain'[i][a] < chain'[j][b]
          /\ j < i \/ (j = i /\ b < a) => chain'[j][b] < chain'[i][a]
      BY <2>1, <2>2 DEF PipelineInv
    <3>2. /\ i \in Int /\ j \in Int /\ a \in Int /\ b \in Int
          /\ chain'[i][a] \in Int /\ chain'[j][b] \in Int
      BY <2>3, <2>5 DEF Cmds
    <3> QED BY <3>1, <3>2, <2>5
  <2> QED BY <2>4, <2>5
<1> HIDE DEF submitted
<1>7. \A i \in 1..Len(chain') : chain'[i] \in Seq(submitted)
  <2> SUFFICES ASSUME NEW i \in 1..Len(chain') PROVE chain'[i] \in Seq(submitted)
    OBVIOUS
  <2>1. chain'[i] \in Seq(Cmds)
    BY <1>1
  <2>2. /\ Len(chain'[i]) \in Nat /\ chain'[i] \in [1..Len(chain'[i]) -> Cmds]
    BY <2>1, LenProperties
  <2>3. chain'[i] \in [1..Len(chain'[i]) -> submitted]
    BY <2>2, <1>6
  <2> QED BY <2>2, <2>3, SeqDef
<1>8. /\ next \in Seq(Seq(submitted)) /\ Len(next) = l
      /\ \A i \in 1..l : next[i] = chain'[i]
  BY <1>1, <1>2, <1>5, <1>7, SubSeqProperties, SMTT(40)
<1> HIDE DEF next, log
<1>9. Service!IsPrefix(log, next)
  <2>1. \A i \in 1..k : next[i] = log[i]
    <3> SUFFICES ASSUME NEW i \in 1..k PROVE next[i] = log[i]
      OBVIOUS
    <3>1. i \in 1..Len(chain) /\ i \in 1..l
      BY <1>1, <1>2, SMTT(40)
    <3>2. log[i] = chain[i] /\ chain'[i] = chain[i]
      BY <3>1, <1>4
    <3>3. next[i] = chain'[i]
      BY <3>1, <1>8
    <3> QED BY <3>2, <3>3
  <2>2. /\ SubSeq(log, 1, k) \in Seq(Seq(Cmds)) /\ Len(SubSeq(log, 1, k)) = k
        /\ \A i \in 1..k : SubSeq(log, 1, k)[i] = log[i]
    BY <1>1, <1>2, <1>4, SubSeqProperties
  <2>3. /\ SubSeq(next, 1, k) \in Seq(Seq(Cmds)) /\ Len(SubSeq(next, 1, k)) = k
        /\ \A i \in 1..k : SubSeq(next, 1, k)[i] = next[i]
    <3>1. \A i \in 1..k : next[i] \in Seq(Cmds)
      BY <1>4, <2>1
    <3> QED BY <3>1, <1>2, SubSeqProperties
  <2>4. SubSeq(log, 1, k) = SubSeq(next, 1, k)
    BY <2>1, <2>2, <2>3, SeqEqual
  <2>5. Len(log) = k /\ Len(next) = l /\ k <= l
    BY <1>2, <1>4, <1>8
  <2> QED BY <2>4, <2>5 DEF Service!IsPrefix
<1>10. \A i, j \in DOMAIN next : \A a \in DOMAIN next[i], b \in DOMAIN next[j] :
         next[i][a] = next[j][b] => i = j /\ a = b
  <2>1. DOMAIN next = 1..l
    BY <1>8
  <2>2. \A i \in 1..l : next[i] = chain'[i] /\ i \in 1..Len(chain') /\ DOMAIN next[i] = 1..Len(chain'[i])
    <3> SUFFICES ASSUME NEW i \in 1..l
                 PROVE  next[i] = chain'[i] /\ i \in 1..Len(chain') /\ DOMAIN next[i] = 1..Len(chain'[i])
      OBVIOUS
    <3>1. next[i] = chain'[i] /\ i \in 1..Len(chain')
      BY <1>5, <1>8
    <3>2. chain'[i] \in Seq(submitted)
      BY <3>1, <1>7
    <3>3. DOMAIN chain'[i] = 1..Len(chain'[i])
      BY <3>2
    <3> QED BY <3>1, <3>3
  <2> QED BY <2>1, <2>2, <1>6
<1>11. UNCHANGED <<submitted, confirmed>>
  BY DEF submitted
<1>12. /\ Executed(Longest)' \in Seq(Seq(submitted))
       /\ Service!IsPrefix(Executed(Longest), Executed(Longest)')
       /\ \A i, j \in DOMAIN Executed(Longest)' :
            \A a \in DOMAIN Executed(Longest)'[i], b \in DOMAIN Executed(Longest)'[j] :
              Executed(Longest)'[i][a] = Executed(Longest)'[j][b] => i = j /\ a = b
  BY <1>3, <1>8, <1>9, <1>10
<1> QED BY <1>11, <1>12 DEF Service!Execute, submitted

LEMMA ProposeStep ==
  ASSUME IInv, Propose
  PROVE  IInv' /\ Service!Next
<1>1. TypeOK /\ ClientInv /\ AnswerInv /\ ChainInv /\ PipelineInv /\ ConfirmedIsExecuted
  BY DEF IInv
<1>2. /\ inc' = inc /\ cnt' = cnt /\ waiting' = waiting /\ acks' = acks
      /\ confirmed' = confirmed /\ sent' = sent /\ heard' = heard /\ buffer' = buffer
  BY DEF Propose, client
<1>3. /\ chain' \in Seq(Seq(Cmds)) /\ beats' \in Seq(Seq(Cmds))
      /\ Len(chain') = Len(chain) + 1
      /\ \A i \in 1..Len(chain) : chain'[i] = chain[i]
      /\ Pipeline' = Pipeline
  BY <1>1, <1>2, ProposeKeepsPlaces DEF Propose
<1>4. /\ Len(chain) \in Nat /\ Len(chain') \in Nat /\ Len(chain) <= Len(chain')
      /\ Proposer \in Live /\ Proposer \in Replicas
      /\ got \in [Replicas -> 0..Len(chain)] /\ got[Proposer] <= Len(chain')
  <2>1. Len(chain) \in Nat /\ got \in [Replicas -> 0..Len(chain)]
    BY <1>1 DEF TypeOK
  <2>2. Proposer \in Live /\ Proposer \in Replicas
    BY LiveFacts
  <2> QED BY <2>1, <2>2, <1>3
<1>5. Advance(Proposer, Len(chain'))
  BY DEF Propose
<1>6. /\ decision_waiting' \in [Replicas -> SUBSET (Cmds \X (0..MaxRestarts))]
      /\ answers' \in SUBSET (Replicas \X Cmds \X {0, 1} \X (0..MaxRestarts))
      /\ got' \in [Replicas -> 0..Len(chain')]
      /\ AnswerInv'
      /\ \A q \in Replicas : \A c : HasExecuted(q, c) => HasExecuted(q, c)'
  BY <1>1, <1>2, <1>3, <1>4, <1>5, AdvanceKeeps
<1>7. TypeOK'
  BY <1>1, <1>2, <1>3, <1>6 DEF TypeOK
<1>8. ClientInv'
  BY <1>1, <1>2 DEF ClientInv
<1>9. ChainInv'
  <2>1. got'[Proposer] = Len(chain')
    BY <1>4, <1>5 DEF Advance
  <2>2. \A r \in Replicas : got'[r] <= Len(chain')
    BY <1>4, <1>6
  <2> QED BY <2>1, <2>2 DEF ChainInv
<1>10. PipelineInv'
  BY <1>1, <1>2, <1>3, PipelineStays
<1>11. ConfirmedIsExecuted'
  BY <1>1, <1>2, <1>6, ConfirmedStays
<1>12. Service!Execute
  BY <1>1, <1>2, <1>3, <1>4, <1>7, <1>9, <1>10, ExecutesMore
<1> QED BY <1>6, <1>7, <1>8, <1>9, <1>10, <1>11, <1>12 DEF IInv, Service!Next

LEMMA ReceiveBlockStep ==
  ASSUME IInv, NEW r \in Live, NEW k \in 1..Len(chain), ReceiveBlock(r, k)
  PROVE  IInv' /\ UNCHANGED svc
<1>1. TypeOK /\ ClientInv /\ AnswerInv /\ ChainInv /\ PipelineInv /\ ConfirmedIsExecuted
  BY DEF IInv
<1>2. /\ inc' = inc /\ cnt' = cnt /\ waiting' = waiting /\ acks' = acks
      /\ confirmed' = confirmed /\ sent' = sent /\ heard' = heard /\ buffer' = buffer
      /\ beats' = beats /\ chain' = chain
  BY DEF ReceiveBlock, client
<1>3. /\ r \in Replicas /\ chain \in Seq(Seq(Cmds)) /\ Len(chain) \in Nat
      /\ got \in [Replicas -> 0..Len(chain)]
  BY <1>1, LiveFacts DEF TypeOK
<1>4. /\ k \in Nat /\ got[r] <= k /\ k <= Len(chain') /\ Len(chain) <= Len(chain')
      /\ r # Proposer
  BY <1>1, <1>2, <1>3 DEF ReceiveBlock, ChainInv
<1>5. Advance(r, k)
  BY DEF ReceiveBlock
<1>6. /\ decision_waiting' \in [Replicas -> SUBSET (Cmds \X (0..MaxRestarts))]
      /\ answers' \in SUBSET (Replicas \X Cmds \X {0, 1} \X (0..MaxRestarts))
      /\ got' \in [Replicas -> 0..Len(chain')]
      /\ AnswerInv'
      /\ \A q \in Replicas : \A c : HasExecuted(q, c) => HasExecuted(q, c)'
  BY <1>1, <1>2, <1>3, <1>4, <1>5, AdvanceKeeps
<1>7. TypeOK'
  BY <1>1, <1>2, <1>6 DEF TypeOK
<1>8. ClientInv'
  BY <1>1, <1>2 DEF ClientInv
<1>9. ChainInv'
  <2>1. got'[Proposer] = Len(chain')
    BY <1>1, <1>2, <1>3, <1>4, <1>5, LiveFacts DEF Advance, ChainInv
  <2>2. \A q \in Replicas : got'[q] <= Len(chain')
    BY <1>2, <1>3, <1>6
  <2> QED BY <2>1, <2>2 DEF ChainInv
<1>10. PipelineInv'
  <2>1. Pipeline' = Pipeline
    BY <1>2 DEF Pipeline
  <2> QED BY <2>1, <1>1, <1>2, PipelineStays
<1>11. ConfirmedIsExecuted'
  BY <1>1, <1>2, <1>6, ConfirmedStays
<1>12. UNCHANGED svc
  <2>1. Executed(Longest)' = Executed(Longest)
    BY <1>1, <1>2, <1>7, <1>9, LogIsCommitted
  <2> QED BY <2>1, <1>2 DEF svc
<1> QED BY <1>6, <1>7, <1>8, <1>9, <1>10, <1>11, <1>12 DEF IInv

LEMMA InitIInv == Init => IInv /\ Service!Init
<1> SUFFICES ASSUME Init PROVE IInv /\ Service!Init
  OBVIOUS
<1>1. TypeOK
  BY NumbersAssumption DEF Init, TypeOK
<1>2. ClientInv
  BY FS_EmptySet, NumbersAssumption DEF Init, ClientInv
<1>3. AnswerInv /\ ConfirmedIsExecuted
  BY DEF Init, AnswerInv, ConfirmedIsExecuted
<1>4. ChainInv
  BY LiveFacts DEF Init, ChainInv
<1>5. PipelineInv
  <2>1. /\ Len(Pipeline) = 0 + 0 + 1 /\ Pipeline[0 + 0 + 1] = << >>
    <3>1. chain = << >> /\ beats = << >> /\ buffer = << >> /\ Len(chain) = 0 /\ Len(beats) = 0
      BY DEF Init
    <3> QED BY <3>1, <1>1, PipelinePlaces DEF TypeOK
  <2>2. Len(Pipeline) = 1 /\ Pipeline[1] = << >>
    BY <2>1
  <2>3. \A i \in 1..Len(Pipeline) : 1..Len(Pipeline[i]) = {}
    BY <2>2
  <2> QED BY <2>3 DEF PipelineInv
<1>6. Service!Init
  <2>1. Executed(Longest) = << >>
    <3>1. Executed(Longest) = SubSeq(chain, 1, CommittedBy(Len(chain))) /\ Len(chain) = 0
      BY <1>1, <1>4, LogIsCommitted DEF Init
    <3>2. CommittedBy(0) = 0
      BY DEF CommittedBy, Depth
    <3> QED BY <3>1, <3>2, SubSeqEmpty
  <2> QED BY <2>1 DEF Init, Service!Init
<1> QED BY <1>1, <1>2, <1>3, <1>4, <1>5, <1>6 DEF IInv

LEMMA NextIInv == IInv /\ [Next]_vars => IInv' /\ [Service!Next]_svc
<1> SUFFICES ASSUME IInv, [Next]_vars PROVE IInv' /\ [Service!Next]_svc
  OBVIOUS
<1>1. CASE ClientStart
  BY <1>1, ClientStartStep
<1>2. CASE \E m \in answers : HandleAnswer(m)
  BY <1>2, HandleAnswerStep
<1>3. CASE \E r \in Live : HandleRequest(r)
  BY <1>3, HandleRequestStep
<1>4. CASE Propose
  BY <1>4, ProposeStep
<1>5. CASE \E r \in Live, k \in 1..Len(chain) : ReceiveBlock(r, k)
  BY <1>5, ReceiveBlockStep
<1>6. CASE UNCHANGED vars
  <2>1. /\ inc' = inc /\ cnt' = cnt /\ waiting' = waiting /\ acks' = acks
        /\ confirmed' = confirmed /\ sent' = sent /\ heard' = heard /\ buffer' = buffer
        /\ decision_waiting' = decision_waiting /\ beats' = beats /\ chain' = chain
        /\ got' = got /\ answers' = answers
    BY <1>6 DEF vars, client
  <2>2. /\ \A r, c : HasExecuted(r, c)' <=> HasExecuted(r, c)
        /\ Executed(Longest)' = Executed(Longest)
    BY <2>1, ExecutedSame
  <2>3. TypeOK'
    BY <2>1 DEF IInv, TypeOK
  <2>4. ClientInv' /\ ChainInv'
    BY <2>1 DEF IInv, ClientInv, ChainInv
  <2>5. AnswerInv'
    BY <2>1, <2>2 DEF IInv, AnswerInv, Open, InFlight
  <2>6. PipelineInv'
    <3>1. Pipeline' = Pipeline
      BY <2>1 DEF Pipeline
    <3> QED BY <3>1, <2>1, PipelineStays DEF IInv
  <2>7. ConfirmedIsExecuted'
    BY <2>1, <2>2, ConfirmedStays DEF IInv
  <2>8. UNCHANGED svc
    BY <2>1, <2>2 DEF svc
  <2> QED BY <2>3, <2>4, <2>5, <2>6, <2>7, <2>8 DEF IInv
<1> QED BY <1>1, <1>2, <1>3, <1>4, <1>5, <1>6 DEF Next

-----------------------------------------------------------------------------
(***************************************************************************)
(* The theorems.                                                           *)
(***************************************************************************)

\* As long as the client is not restarted, window, tables, answers, batches and
\* chain stay consistent, in whatever order requests, blocks and answers arrive.
THEOREM CommandsInvariance == Spec => []IInv
<1>1. Init => IInv
  BY InitIInv
<1>2. IInv /\ [Next]_vars => IInv'
  BY NextIInv
<1> QED BY <1>1, <1>2, PTL DEF Spec

\* "wait for f + 1 ack" (hotstuff_client.cpp:112): a confirmed command has been
\* executed by more replicas than may be faulty.
THEOREM ConfirmedIsExecutedHolds == Spec => []ConfirmedIsExecuted
<1>1. IInv => ConfirmedIsExecuted
  BY DEF IInv
<1> QED BY <1>1, CommandsInvariance, PTL

\* Unless the client is restarted, a replica answers each request at most once
\* (hotstuff.cpp:404-406), and only when it has executed the command.
THEOREM AnsweredOnceHolds == Spec => []AnsweredOnce
<1>1. IInv => AnsweredOnce
  <2> SUFFICES ASSUME IInv, NEW r \in Live, NEW c \in Cmds
               PROVE  /\ InFlight(r, c) => ~Open(r, c)
                      /\ Counted(r, c) => ~Open(r, c) /\ ~InFlight(r, c)
                      /\ InFlight(r, c) \/ Counted(r, c) => HasExecuted(r, c)
                      /\ Open(r, c) \/ InFlight(r, c) \/ Counted(r, c) =>
                           \E i \in 1..heard[r] : sent[i][1] = c
    BY DEF AnsweredOnce
  <2>1. InFlight(r, c) => ~Open(r, c)
    BY DEF IInv, AnswerInv, InFlight
  <2>2. Counted(r, c) => ~Open(r, c) /\ ~InFlight(r, c)
    BY DEF IInv, AnswerInv, Counted
  <2>4. InFlight(r, c) \/ Counted(r, c) => HasExecuted(r, c)
    BY DEF IInv, AnswerInv, InFlight, Counted
  <2>3. ASSUME Open(r, c) \/ InFlight(r, c) \/ Counted(r, c)
        PROVE  \E i \in 1..heard[r] : sent[i][1] = c
    <3>1. r \in Replicas /\ heard[r] \in 0..Len(sent) /\ Len(sent) \in Nat /\ c \in Nat
      BY LiveFacts DEF IInv, TypeOK, Cmds
    <3>2. c < heard[r]
      BY <2>3, <3>1 DEF IInv, AnswerInv, Open, InFlight, Counted
    <3>3. c + 1 \in 1..heard[r] /\ c + 1 \in 1..Len(sent) /\ c + 1 - 1 = c
      BY <3>1, <3>2
    <3>4. sent[c + 1] = <<c + 1 - 1, 0>>
      BY <3>1, <3>3 DEF IInv, ClientInv
    <3>5. sent[c + 1][1] = c
      BY <3>3, <3>4
    <3> QED BY <3>3, <3>5
  <2> QED BY <2>1, <2>2, <2>3, <2>4
<1> QED BY <1>1, CommandsInvariance, PTL

\* The client sees the promised service: every command is executed at most
\* once, in one order, and confirmed only after it is executed.
THEOREM ServiceImplemented == Spec => ImplementsService
<1>1. Init => Service!Init
  BY InitIInv
<1>2. IInv /\ [Next]_vars => [Service!Next]_svc
  BY NextIInv
<1> QED BY <1>1, <1>2, CommandsInvariance, PTL DEF Spec, ImplementsService, Service!Spec, svc
=============================================================================
