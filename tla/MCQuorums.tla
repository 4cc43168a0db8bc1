----------------------------- MODULE MCQuorums -----------------------------
(* Configurations for TLC, like those of conf/quorum_confs and of
   test_quorums.cpp but smaller, and all small ones of one nested level. *)
EXTENDS Quorums

R(i) == [id |-> i]
Select(k, cs) == [select |-> k, outOf |-> cs]

\* The formulas of a nested one as a list, in the order of the text.
RECURSIVE Listed(_, _)
Listed(c, n) ==
  LET Add(ls, m) ==
        IF "id" \in DOMAIN m THEN [ls EXCEPT !.out = Append(ls.out, m)]
        ELSE [out  |-> Append(ls.out, [formula |-> n + 1 + Len(ls.rest)]),
              rest |-> ls.rest \o Listed(m, n + 1 + Len(ls.rest))]
      all == FoldLeft(Add, [out |-> << >>, rest |-> << >>], c.outOf)
  IN  <<[select |-> c.select, outOf |-> all.out]>> \o all.rest

Thresholds == {Select(k, [i \in 1..n |-> R(i)]) : k \in 1..4, n \in 1..4}

\* Two thresholds over replicas that may overlap, and one more replica, at
\* each place.
Pairs ==
  {<<Select(k, <<R(1), R(2), R(3)>>), R(4), Select(l, c)>> :
     k \in 1..3, l \in 1..2, c \in {<<R(5), R(6)>>, <<R(3), R(4)>>}}

OneLevel ==
  {Select(k, <<p[q[1]], p[q[2]], p[q[3]]>>) :
     k \in 1..3, p \in Pairs, q \in {<<1, 2, 3>>, <<2, 1, 3>>, <<3, 1, 2>>}}

\* Nested twice, after the insertion example of the tests.
TwoLevels ==
  {Select(k, <<Select(2, <<R(1), R(2), R(3)>>), R(4),
               Select(l, <<Select(2, <<R(5), R(1)>>), R(6), Select(m, <<R(2), R(4), R(5)>>)>>)>>) :
     k \in 1..3, l \in 1..3, m \in 1..3}

\* unbalanced_4.json and kgrid_4.json, replicas counted from 1.
Shipped ==
  {Select(1, <<Select(3, <<R(1), R(2), R(3), R(4)>>),
               Select(2, <<Select(1, <<R(1), R(2), R(3)>>), Select(1, <<R(4)>>)>>)>>),
   Select(2, <<Select(2, <<Select(2, <<R(1), R(2)>>), Select(2, <<R(3), R(4)>>)>>),
               Select(2, <<Select(2, <<R(1), R(3)>>), Select(2, <<R(2), R(4)>>)>>)>>)}

\* The build without generalized quorums.
ThresholdBuild ==
  {[generalized |-> FALSE, quorum |-> ThresholdConf(QuorumSize(nreplicas), nreplicas)]}

Generalized ==
  {[generalized |-> TRUE, quorum |-> Listed(c, 1)] :
     c \in {t \in Thresholds : t.select <= Len(t.outOf)}
             \cup OneLevel \cup TwoLevels \cup Shipped}

BothBuilds == Generalized \cup ThresholdBuild

\* A random vector without a share that is 0, which the recovery would skip; with
\* the modulus of the curve such a share does not occur in practice.
SomeCoins == <<70, 3, 49, 23, 5, 20, 11, 59, 11>>

\* As quorums_maj_thres_101.json modulo 101: as many members as the modulus.
Majority(n) ==
  LET c == Listed(Select(n \div 2 + 1, [i \in 1..n |-> R(i)]), 1)
  IN  {[generalized |-> TRUE, quorum |-> c]}

MajorityOfFive == Majority(5)

FewCoins == <<4, 3, 1>>
=============================================================================
