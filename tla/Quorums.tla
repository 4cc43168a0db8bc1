------------------------------ MODULE Quorums ------------------------------
(***************************************************************************)
(* Generalized quorums (quorums.cpp, linalg_util.cpp) and the certificates *)
(* that are recovered with them (crypto.cpp, hotstuff_keygen.cpp).         *)
(*                                                                         *)
(* A configuration is a tree of thresholds, "select k out of these".  The  *)
(* formula that is parsed from it decides when a group of voters is a      *)
(* quorum.  The same formula is turned into a matrix M over GF(P) with a   *)
(* replica per row (a monotone span program): the dealer hands out M * r,  *)
(* and a quorum gets the secret r[1] back by solving  M_A^T x = e1  for    *)
(* its rows.  The code factors P M^T = L U once and solves  U_A x = y.     *)
(*                                                                         *)
(* The build without USE_GENERALIZED_QUORUMS reads no configuration.  It   *)
(* counts votes, the dealer hands out the values of a polynomial, and a    *)
(* certificate is recovered by interpolation.                              *)
(*                                                                         *)
(* A share stands for the signature that is made with it: signatures of    *)
(* one message are linear in the keys, so they are recovered alike.        *)
(* Sequences begin at 1, as replicas do here; the code's begin at 0.       *)
(***************************************************************************)
EXTENDS Integers, Sequences, SequencesExt, FiniteSets, FiniteSetsExt

CONSTANTS
  Replicas, \* ids of the replicas, some of which a configuration may not name
  P,        \* the prime modulus (ZZ_p::init)
  Confs,    \* per build and configuration: [generalized |-> ..., quorum |-> ...]
  Coins     \* the dealer's random vector r, as long as any matrix is wide

ASSUME ModulusAssumption ==
  P \in Nat /\ P > 1 /\ \A d \in 2..(P - 1) : P % d # 0

-----------------------------------------------------------------------------
(* The formula. *)

\* quorums.json lists its formulas in the order in which the text opens them:
\* c[n] is [select |-> k, outOf |-> <<...>>], and a member of outOf is a
\* replica, [id |-> i], or a formula further on in the list, [formula |-> j].
IsNested(c) == "formula" \in DOMAIN c

Members == [id : Replicas] \cup [formula : Nat]

\* Where formula j is nested: the pairs of a formula and a place in its outOf.
Places(c, j) ==
  {p \in UNION {{n} \X DOMAIN c[n].outOf : n \in DOMAIN c} :
     c[p[1]].outOf[p[2]] = [formula |-> j]}

\* A list of formulas that is the text of one: what is nested comes later, every
\* formula but the first has one place, and between a formula and one that is
\* nested in it there is only what is nested in its members before that one.
IsListing(c) ==
  /\ c \in Seq([select : Nat \ {0}, outOf : Seq(Members) \ {<< >>}]) \ {<< >>}
  /\ \A n \in DOMAIN c : \A i \in DOMAIN c[n].outOf :
       IsNested(c[n].outOf[i]) => c[n].outOf[i].formula \in (n + 1)..Len(c)
  /\ \A j \in 2..Len(c) : \E p \in Places(c, j) :
       /\ Places(c, j) = {p}
       /\ \A k \in (p[1] + 1)..(j - 1) : \A q \in Places(c, k) :
            q[1] > p[1] \/ (q[1] = p[1] /\ q[2] < p[2])

ASSUME ConfAssumption == \A c \in Confs : IsListing(c.quorum)

\* Any k of n replicas.
ThresholdConf(k, n) == <<[select |-> k, outOf |-> [i \in 1..n |-> [id |-> i]]]>>

nreplicas == Cardinality(Replicas)

\* Without generalized quorums: how many of n replicas are a quorum (on_init in
\* HotStuffBase::start), and for how many of them the key generator shares the key.
QuorumSize(n) == n - ((n - 1) \div 3)

KeyThreshold(n) == n - (n \div 3)

\* In that build the replicas count, which is the formula of a threshold.
ASSUME BuildAssumption ==
  \A c \in Confs :
    /\ c.generalized \in BOOLEAN
    /\ ~c.generalized =>
         /\ nreplicas \in Nat \ {0} /\ Replicas = 1..nreplicas
         /\ c.quorum = ThresholdConf(QuorumSize(nreplicas), nreplicas)

\* The numbers from 1 to n that are in S, in their order.
Ascending(S, n) ==
  LET upTo[i \in 0..n] ==
        IF i = 0 THEN << >> ELSE IF i \in S THEN Append(upTo[i - 1], i) ELSE upTo[i - 1]
  IN  upTo[n]

\* from_json: the replicas and the nested formulas become two lists.
from_json(conf) ==
  [n \in DOMAIN conf |->
    LET out    == conf[n].outOf
        flat   == Ascending({i \in DOMAIN out : ~IsNested(out[i])}, Len(out))
        nested == Ascending({i \in DOMAIN out : IsNested(out[i])}, Len(out))
    IN  [threshold |-> conf[n].select,
         elements  |-> [i \in DOMAIN flat |-> out[flat[i]].id],
         nestedElements |-> [i \in DOMAIN nested |-> out[nested[i]].formula]]]

\* (Changed: an equal number of true values is not enough.)
evalFomula_Strict(t, reps) ==
  LET holds[n \in DOMAIN t] ==
        Cardinality({i \in DOMAIN t[n].elements : t[n].elements[i] \in reps})
          + Cardinality({i \in DOMAIN t[n].nestedElements : holds[t[n].nestedElements[i]]})
        > t[n].threshold
  IN  holds[1]

evalFomula(t, reps) ==
  LET holds[n \in DOMAIN t] ==
        Cardinality({i \in DOMAIN t[n].elements : t[n].elements[i] \in reps})
          + Cardinality({i \in DOMAIN t[n].nestedElements : holds[t[n].nestedElements[i]]})
        >= t[n].threshold
  IN  holds[1]

-----------------------------------------------------------------------------
(* Matrices over GF(P): sequences of rows. *)

Field == 0..(P - 1)

InvMod(a) == CHOOSE b \in Field : (a * b) % P = 1

Negative(a) == (P - a) % P

\* f[1] + ... + f[n]
Total(f, n) == LET sum[i \in 0..n] == IF i = 0 THEN 0 ELSE sum[i - 1] + f[i] IN sum[n]

Dot(u, v) == Total([i \in DOMAIN u |-> u[i] * v[i]], Len(u)) % P

Zeros(n) == [i \in 1..n |-> 0]

e1(n) == [i \in 1..n |-> IF i = 1 THEN 1 ELSE 0]

Identity(n) == [i \in 1..n |-> [j \in 1..n |-> IF i = j THEN 1 ELSE 0]]

Transpose(M) == [j \in DOMAIN M[1] |-> [i \in DOMAIN M |-> M[i][j]]]

Augmented(M, v) == [i \in DOMAIN M |-> Append(M[i], v[i])]

Swap(s, i, j) == [s EXCEPT ![i] = s[j], ![j] = s[i]]

TimesVector(M, v) == [i \in DOMAIN M |-> Dot(M[i], v)]

Times(M, N) == LET NT == Transpose(N) IN [i \in DOMAIN M |-> TimesVector(NT, M[i])]

\* (Changed: the factors stay where they are.)
SwapFactors_None(L, i, j) == L

SwapFactors(L, i, j) == LET S == Swap(L, i, j) IN [k \in DOMAIN S |-> Swap(S[k], i, j)]

\* With the row of a pivot in its place: clear column k below it.
ClearBelow(s, row, k) ==
  LET factor(i) == (s.M[i][k] * InvMod(s.M[row][k])) % P
  IN  [s EXCEPT
        !.M = [i \in DOMAIN s.M |->
                IF i <= row THEN s.M[i]
                ELSE [j \in DOMAIN s.M[i] |->
                       (s.M[i][j] + s.M[row][j] * Negative(factor(i))) % P]],
        !.L = [i \in DOMAIN s.L |->
                IF i <= row THEN s.L[i] ELSE [s.L[i] EXCEPT ![row] = factor(i)]],
        !.pivots = Append(s.pivots, k)]

\* One column k of PLU or gauss, on [M, Perm, L, pivots]: bring the first row
\* with a pivot up and clear the column below it.
EliminateColumn(s, k) ==
  LET row  == Len(s.pivots) + 1
      cand == {i \in row..Len(s.M) : s.M[i][k] # 0}
      pos  == Min(cand)
  IN  IF cand = {} THEN s
      ELSE ClearBelow([s EXCEPT !.M = Swap(s.M, pos, row), !.Perm = Swap(s.Perm, pos, row),
                                !.L = SwapFactors(s.L, pos, row)],
                      row, k)

\* PLU, which leaves U in M; gauss is the same without Perm and L.
PLU(M) ==
  LET s[k \in 0..Len(M[1])] ==
        IF k = 0
        THEN [M |-> M, Perm |-> Identity(Len(M)), L |-> Identity(Len(M)), pivots |-> << >>]
        ELSE EliminateColumn(s[k - 1], k)
  IN  s[Len(M[1])]

Rank(M) == Len(PLU(M).pivots)

solveByForwardSubstitution(L, b) ==
  LET x[i \in 0..Len(L)] ==
        IF i = 0 THEN << >>
        ELSE LET before == x[i - 1]
             IN  Append(before, ((b[i] + Negative(Dot(before, L[i]))) * InvMod(L[i][i])) % P)
  IN  x[Len(L)]

\* A is the reduced matrix with the right-hand side as its last column; free
\* variables are 0.  x[i] is the solution of the rows from i on.
solveByBackwardSubstitution(A, pivots) ==
  LET m == Len(A[1]) - 1
      x[i \in 1..(Len(pivots) + 1)] ==
        IF i > Len(pivots) THEN Zeros(m)
        ELSE LET rest == x[i + 1]
             IN  [rest EXCEPT ![pivots[i]] =
                   ((A[i][m + 1] + Negative(Dot(rest, A[i]))) * InvMod(A[i][pivots[i]])) % P]
  IN  x[1]

-----------------------------------------------------------------------------
(* The span program. *)

\* NTL::power
Power(a, e) == LET p[i \in 0..e] == IF i = 0 THEN 1 ELSE (p[i - 1] * a) % P IN p[e]

getVandermonde(threshold, numPoints) ==
  [i \in 1..numPoints |-> [j \in 1..threshold |-> Power(i, j - 1)]]

\* (Changed: the rows behind the inserted ones begin one row too early.)
performInsertion_OffByOne(M1, M2, r) ==
  LET pad == Zeros(Len(M2[1]) - 1)
  IN  [i \in 1..(Len(M1) + Len(M2) - 1) |->
        IF i < r THEN M1[i] \o pad
        ELSE IF i < r + Len(M2) THEN M1[r] \o Tail(M2[i - r + 1])
        ELSE M1[i - Len(M2)] \o pad]

\* M2 takes the place of row r of M1.
performInsertion(M1, M2, r) ==
  LET pad == Zeros(Len(M2[1]) - 1)
  IN  [i \in 1..(Len(M1) + Len(M2) - 1) |->
        IF i < r THEN M1[i] \o pad
        ELSE IF i < r + Len(M2) THEN M1[r] \o Tail(M2[i - r + 1])
        ELSE M1[i - Len(M2) + 1] \o pad]

\* Formula t takes the place of row s.at: its replicas label the first of the
\* new rows, its nested formulas are inserted in the others.
insertNextTheta(s, t) ==
  [M |-> performInsertion(
           s.M, getVandermonde(t.threshold, Len(t.elements) + Len(t.nestedElements)), s.at),
   L |-> s.L \o t.elements,
   at |-> s.at + Len(t.elements)]

\* insertNextTheta calls itself for the nested formulas in their turn, and so
\* takes all of them in the order of the list.
createMspWithInsertionAlgorithm(t) ==
  LET s[n \in 0..Len(t)] ==
        IF n = 0 THEN [M |-> << <<1>> >>, L |-> << >>, at |-> 1]
        ELSE insertNextTheta(s[n - 1], t[n])
  IN  s[Len(t)]

\* AccessStructure::initialize.  The key generator and the replicas read the same
\* file.  (Only the formula is used in the build without generalized quorums.)
initialize(c) ==
  LET msp == createMspWithInsertionAlgorithm(from_json(c.quorum))
      plu == PLU(Transpose(msp.M))
  IN  [formula |-> from_json(c.quorum), M |-> msp.M, L |-> msp.L, plu |-> plu, U |-> plu.M,
       y |-> solveByForwardSubstitution(plu.L, TimesVector(plu.Perm, e1(Len(msp.M[1]))))]

\* The rows of M (the columns of U) that belong to reps, in order.
Owned(acc, reps) == Ascending({j \in DOMAIN acc.L : acc.L[j] \in reps}, Len(acc.L))

getColsOfUOwnedByReps(acc, reps) ==
  LET own == Owned(acc, reps)
  IN  [i \in DOMAIN acc.U |-> [j \in DOMAIN own |-> acc.U[i][own[j]]]]

isAuthorizedGroupWithPLU(acc, reps) ==
  LET Ua == getColsOfUOwnedByReps(acc, reps)
  IN  Rank(Ua) = Rank(Augmented(Ua, acc.y))

getRecombinationVector(acc, reps) ==
  LET g == PLU(Augmented(getColsOfUOwnedByReps(acc, reps), acc.y))
  IN  solveByBackwardSubstitution(g.M, g.pivots)

\* The coins are drawn from the field, one for each column or coefficient.
ASSUME CoinsAssumption ==
  /\ Coins \in Seq(Field)
  /\ \A c \in Confs :
       /\ Len(createMspWithInsertionAlgorithm(from_json(c.quorum)).M[1]) <= Len(Coins)
       /\ ~c.generalized => KeyThreshold(nreplicas) <= Len(Coins)

\* shareRandSecret; the secret is the first coin.
shareRandSecret(acc) == TimesVector(acc.M, Coins)

\* A part certificate: the owner's shares in the order of the rows.
Part(shares, acc, q) ==
  LET own == Owned(acc, {q}) IN [j \in DOMAIN own |-> shares[own[j]]]

\* (Changed: the shares are collected replica by replica.)
recoverGenThreshSig_ByReplica(acc, parts, reps) ==
  LET inOrder == FlattenSeq([i \in 1..Cardinality(reps) |-> parts[SetToSortSeq(reps, <)[i]]])
  IN  Dot(inOrder, getRecombinationVector(acc, reps))

\* The certificate of the parts of reps: shares go to their rows, what is left
\* empty is skipped, the rest meets the recombination vector.
recoverGenThreshSig(acc, parts, reps) ==
  LET before(j) == {i \in 1..j : acc.L[i] = acc.L[j]}
      temp == [j \in DOMAIN acc.L |->
                 IF acc.L[j] \in reps THEN parts[acc.L[j]][Cardinality(before(j))] ELSE 0]
      full == Ascending({j \in DOMAIN temp : temp[j] # 0}, Len(temp))
  IN  Dot([k \in DOMAIN full |-> temp[full[k]]], getRecombinationVector(acc, reps))

-----------------------------------------------------------------------------
(* The build without generalized quorums. *)

\* share: the value at point q of the polynomial that has the coins as coefficients.
share(t, q) == Total([e \in 1..t |-> Coins[e] * Power(q, e - 1)], t) % P

\* What the value at point i weighs at 0, among those at the points in reps: the
\* product of j / (j - i) over the other points j.
Weight(reps, i, n) ==
  LET w[j \in 0..n] ==
        IF j = 0 THEN 1
        ELSE IF j \in reps \ {i} THEN (w[j - 1] * ((j * InvMod((j - i) % P)) % P)) % P
        ELSE w[j - 1]
  IN  w[n]

\* (Changed: the points are the places among the parts, not the ids.)
recoverThreshSig_ByPlace(ps, reps) ==
  LET place(i) == Cardinality({q \in reps : q <= i})
  IN  Total([i \in 1..nreplicas |->
               IF i \in reps THEN Weight(1..Cardinality(reps), place(i), nreplicas) * ps[i][1]
               ELSE 0],
            nreplicas) % P

\* The certificate of all parts in ps, with replica i at point i.
recoverThreshSig(ps, reps) ==
  Total([i \in 1..nreplicas |->
           IF i \in reps THEN Weight(reps, i, nreplicas) * ps[i][1] ELSE 0],
        nreplicas) % P

-----------------------------------------------------------------------------
(* A replica collects votes for one block. *)

VARIABLES
  conf,     \* the configuration in use
  acc,      \* the access structure made of it (ReplicaConfig)
  parts,    \* per replica: the part certificate that its key makes
  voted,    \* Block::voted
  cert      \* the threshold signature, 0 before it is computed

vars == <<conf, acc, parts, voted, cert>>

Init ==
  /\ conf \in Confs
  /\ acc = initialize(conf)
  /\ parts = IF conf.generalized
             THEN LET shares == shareRandSecret(acc)
                  IN  [q \in Replicas |-> Part(shares, acc, q)]
             ELSE [q \in Replicas |-> <<share(KeyThreshold(nreplicas), q)>>]
  /\ voted = {}
  /\ cert = 0

\* QuorumCertBls::compute
compute(reps) ==
  IF conf.generalized THEN recoverGenThreshSig(acc, parts, reps)
  ELSE recoverThreshSig(parts, reps)

\* on_receive_vote: a first vote of q; with a quorum, compute the certificate.
Vote(q) ==
  /\ ~evalFomula(acc.formula, voted)
  /\ q \notin voted
  /\ voted' = voted \cup {q}
  /\ cert' = IF evalFomula(acc.formula, voted')
             THEN compute(voted')
             ELSE cert
  /\ UNCHANGED <<conf, acc, parts>>

Next == \E q \in Replicas : Vote(q)

Spec == Init /\ [][Next]_vars

-----------------------------------------------------------------------------
(* Correctness. *)

\* Is the configuration met by reps?
Satisfied(c, reps) ==
  LET met[n \in DOMAIN c] ==
        Cardinality({i \in DOMAIN c[n].outOf :
                       IF IsNested(c[n].outOf[i]) THEN met[c[n].outOf[i].formula]
                       ELSE c[n].outOf[i].id \in reps})
        >= c[n].select
  IN  met[1]

\* The parsed formula accepts the voters exactly when the configuration does
\* (from_json splits it into two lists, evalFomula counts them together).
QuorumIsConf == evalFomula(acc.formula, voted) <=> Satisfied(conf.quorum, voted)

\* "the thresh. sig. will be valid iff a quorum has signed" (crypto.cpp:86), for
\* which reason no verification of a certificate counts voters: with generalized
\* quorums the span program of the keys accepts the voters exactly when the formula
\* does.
CertIffQuorum ==
  conf.generalized =>
    (isAuthorizedGroupWithPLU(acc, voted) <=> evalFomula(acc.formula, voted))

\* The same of the other build: what is recovered from the parts of a group is the
\* signature under the secret key only when the group is a quorum.
ValidIffQuorum ==
  ~conf.generalized =>
    (recoverThreshSig(parts, voted) = Coins[1] <=> evalFomula(acc.formula, voted))

\* The certificate of a quorum is the signature under the secret key, in both builds,
\* whichever quorum voted and in whatever order (QuorumCertBls::compute, then verify).
CertVerifies == evalFomula(acc.formula, voted) => cert = Coins[1]

\* Factoring with row swaps keeps P M^T = L U, L being lower triangular.
FactorsMultiply ==
  /\ Times(acc.plu.Perm, Transpose(acc.M)) = Times(acc.plu.L, acc.U)
  /\ \A i, j \in DOMAIN acc.plu.L : i < j => acc.plu.L[i][j] = 0
=============================================================================
