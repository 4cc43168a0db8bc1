--------------------------- MODULE DeliveryProofs ---------------------------
(***************************************************************************)
(* IInv is an invariant of Delivery, for any replicas, blocks, authors and *)
(* invalid certificates, and with it the safety properties; and deliveries *)
(* implement what consensus is promised about them (BlockFeed).            *)
(*                                                                         *)
(* A handler is async_deliver_blk or on_fetch_blk on the record of one     *)
(* replica, followed by Settle: the lemmas up to BecomesKeeps are about    *)
(* these operators, the steps of the system follow from them.              *)
(***************************************************************************)
EXTENDS Delivery, BlockTreeProofs

\* Every block that can occur is one of the tree, with its branch.
LEMMA BlockFacts ==
  /\ Block \subseteq Tree
  /\ \A b \in Block : Branch(b) \subseteq Block /\ QcRef(b) \in Branch(b)
  /\ b0 \in Block /\ b0 \notin Blocks
  /\ \A b \in Blocks : b # b0 /\ Parent(b) \in Branch(b)
<1>1. b0 \in Tree /\ Blocks \subseteq Tree /\ b0 \notin Blocks
  BY BlocksAssumption, AncestryOrder
<1>2. \A b \in Block : Branch(b) \subseteq Block
  BY GenesisBranch, BlocksAssumption DEF Block
<1>3. \A b \in Block : QcRef(b) \in Branch(b)
  BY <1>1, BranchFacts DEF Block
<1>4. \A b \in Blocks : Parent(b) \in Branch(b)
  BY <1>1, ParentInBranch
<1> QED BY <1>1, <1>2, <1>3, <1>4 DEF Block

\* RepInv, but that b may be missing where a child of it is opened.
RepInvBut(s, r, P, b) ==
  /\ b0 \in s.delivered
  /\ s.delivered \subseteq s.store
  /\ s.store \subseteq P \cup {b0}
  /\ \A c \in s.delivered : Branch(c) \subseteq s.delivered
  /\ s.opened \subseteq s.store
  /\ s.checking \cup s.refused \cup s.qcwait \subseteq s.opened
  /\ s.opened \cap Invalid \subseteq s.checking \cup s.refused
  /\ \A e \in s.awaits : e[1] \in P \ s.opened
  /\ OnlyOwnInvalid(s, r)
  /\ Waiting(s) \cap s.delivered = {}
  /\ \A e \in s.awaits : e[1] \in s.ctx /\ e \in s.asked
  /\ \A c \in s.qcwait : QcRef(c) \in s.ctx /\ Of(s.asked, QcRef(c)) # {}
  /\ \A c \in s.opened : Parent(c) \in s.delivered \cup Waiting(s) \cup {b}

LEMMA RepInvIsRepInvBut ==
  ASSUME NEW s, NEW r, NEW P, NEW b, RepInv(s, r, P)
  PROVE  RepInvBut(s, r, P, b)
BY DEF RepInv, RepInvBut, Backed

\* Opening b and its stored ancestors keeps everything but that some of them
\* may be ready; what is asked of p beyond what was asked is on b's branch.
LEMMA OpenKeeps ==
  ASSUME NEW s \in Replica, NEW r \in Replicas, NEW p \in Replicas,
         NEW P \in SUBSET Blocks, NEW b \in Blocks,
         RepInvBut(s, r, P, b), Branch(b) \subseteq P \cup {b0}
  PROVE  LET t == async_deliver_blk(s, b, p) IN
         /\ t \in Replica
         /\ RepInv(t, r, P)
         /\ t.store = s.store
         /\ t.delivered = s.delivered
         /\ t.asked \subseteq s.asked \cup (Branch(b) \X {p})
<1> DEFINE known == s.delivered \cup Waiting(s)
           stops == Branch(b) \ (s.store \ known)
           run == {a \in Branch(b) : \A c \in stops : Height(c) < Height(a)}
           missing == {a \in stops \ known : \A c \in stops : Height(c) <= Height(a)}
           certs == {QcRef(a) : a \in run} \ s.store
           t == async_deliver_blk(s, b, p)
<1>1. t = [s EXCEPT !.opened = @ \cup run,
                    !.checking = @ \cup {a \in run : QcRef(a) # b0},
                    !.qcwait = @ \cup {a \in run : QcRef(a) \notin s.store},
                    !.awaits = @ \cup (missing \X {p}),
                    !.ctx = @ \cup missing \cup certs,
                    !.asked = @ \cup ((missing \cup certs) \X {p})]
  BY DEF async_deliver_blk
<1>2. /\ t.store = s.store /\ t.delivered = s.delivered
      /\ t.opened = s.opened \cup run
      /\ t.checking = s.checking \cup {a \in run : QcRef(a) # b0}
      /\ t.refused = s.refused
      /\ t.qcwait = s.qcwait \cup {a \in run : QcRef(a) \notin s.store}
      /\ t.awaits = s.awaits \cup (missing \X {p})
      /\ t.ctx = s.ctx \cup missing \cup certs
      /\ t.asked = s.asked \cup ((missing \cup certs) \X {p})
      /\ t.owed = s.owed
  BY <1>1 DEF Replica
<1>3. /\ b \in Tree /\ Branch(b) \subseteq Block /\ Branch(b) \subseteq Tree
      /\ b0 \in s.delivered /\ b0 \in s.store /\ b0 \in Branch(b)
      /\ \A a \in Branch(b) : Height(a) \in Nat
  BY BlockFacts, BranchFacts DEF RepInvBut, Block
<1>4. b0 \in stops /\ \A a \in run : Height(a) \in Nat
  BY <1>3
<1>5. /\ run \subseteq Branch(b) \ {b0}
      /\ run \subseteq s.store
      /\ run \cap known = {} /\ run \cap stops = {}
  <2>1. \A a \in run : a \in Branch(b) /\ a \notin stops
    BY <1>3
  <2> QED BY <1>4, <2>1
<1>6. missing \subseteq Branch(b) \ {b0} /\ missing \cap run = {} /\ missing \cap known = {}
  BY <1>3, <1>5
<1>7. run \subseteq Blocks /\ missing \subseteq Blocks
  BY <1>3, <1>5, <1>6 DEF Block
<1>8. certs \subseteq Branch(b) \ {b0}
  <2>1. ASSUME NEW a \in run
        PROVE  QcRef(a) \in Branch(b)
    <3>1. a \in Branch(b) /\ a \in Tree
      BY <1>3, <1>5
    <3> QED BY <1>3, <3>1, BranchFacts
  <2> QED BY <1>3, <2>1
<1>9. certs \subseteq Blocks
  BY <1>3, <1>8 DEF Block
<1>10. t \in Replica
  <2>1. /\ s.store \in SUBSET Block /\ s.delivered \in SUBSET Block
        /\ s.ctx \in SUBSET Blocks /\ s.asked \in SUBSET (Blocks \X Replicas)
        /\ s.owed \in SUBSET (Blocks \X Replicas)
        /\ s.awaits \in SUBSET (Blocks \X Replicas)
        /\ s.opened \in SUBSET Blocks /\ s.checking \in SUBSET Blocks
        /\ s.refused \in SUBSET Blocks /\ s.qcwait \in SUBSET Blocks
    BY DEF Replica
  <2> HIDE DEF run, missing, certs
  <2>2. /\ s.opened \cup run \in SUBSET Blocks
        /\ s.checking \cup {a \in run : QcRef(a) # b0} \in SUBSET Blocks
        /\ s.qcwait \cup {a \in run : QcRef(a) \notin s.store} \in SUBSET Blocks
        /\ s.awaits \cup (missing \X {p}) \in SUBSET (Blocks \X Replicas)
        /\ s.ctx \cup missing \cup certs \in SUBSET Blocks
        /\ s.asked \cup ((missing \cup certs) \X {p}) \in SUBSET (Blocks \X Replicas)
    BY <1>7, <1>9, <2>1
  <2> QED BY <1>1, <2>1, <2>2 DEF Replica
<1>11. ASSUME NEW a \in run
       PROVE  Parent(a) \in s.delivered \cup Waiting(s) \cup run \cup missing
  <2>1. a \in Branch(b) /\ a \in Tree /\ a # b0
    BY <1>3, <1>5
  <2>2. /\ Parent(a) \in Branch(a) /\ Height(Parent(a)) = Height(a) - 1
    BY <2>1, ParentInBranch
  <2>3. Parent(a) \in Branch(b)
    BY <1>3, <2>1, <2>2, BranchFacts
  <2>4. Height(a) \in Nat /\ Height(Parent(a)) \in Nat
    BY <1>3, <2>1, <2>3
  <2>5. \A c \in stops : Height(c) < Height(a) /\ Height(c) \in Nat
    BY <1>3
  <2>6. CASE \E c \in stops : ~(Height(c) < Height(Parent(a)))
    <3>1. PICK c \in stops : ~(Height(c) < Height(Parent(a)))
      BY <2>6
    <3>2. Height(c) = Height(Parent(a)) /\ c \in Branch(b)
      BY <2>2, <2>4, <2>5, <3>1
    <3>3. c = Parent(a)
      BY <1>3, <2>3, <3>2, BranchFacts
    <3>4. \A d \in stops : Height(d) <= Height(c)
      BY <2>2, <2>4, <2>5, <3>2
    <3> QED BY <3>1, <3>3, <3>4
  <2>7. CASE \A c \in stops : Height(c) < Height(Parent(a))
    BY <2>3, <2>7
  <2> QED BY <2>6, <2>7
<1>12. b \in s.delivered \cup Waiting(s) \cup run \cup missing
  <2>1. b \in Branch(b) /\ \A c \in Branch(b) : Height(c) <= Height(b)
    BY <1>3, BranchFacts
  <2>2. CASE b \in stops
    BY <2>1, <2>2
  <2>3. CASE b \notin stops
    <3>1. ASSUME NEW c \in stops
          PROVE  Height(c) < Height(b)
      <4>1. Height(c) # Height(b)
        BY <1>3, <2>1, <2>3, BranchFacts
      <4> QED BY <1>3, <2>1, <4>1
    <3> QED BY <2>1, <3>1
  <2> QED BY <2>2, <2>3
<1>13. RepInv(t, r, P)
  <2> HIDE DEF run, missing, certs, known, t
  <2>1. /\ b0 \in t.delivered
        /\ t.delivered \subseteq t.store
        /\ t.store \subseteq P \cup {b0}
        /\ \A c \in t.delivered : Branch(c) \subseteq t.delivered
        /\ OnlyOwnInvalid(t, r)
    BY <1>2 DEF RepInvBut, OnlyOwnInvalid
  <2>2. /\ t.opened \subseteq t.store
        /\ t.checking \cup t.refused \cup t.qcwait \subseteq t.opened
    BY <1>2, <1>5 DEF RepInvBut
  <2>3. t.opened \cap Invalid \subseteq t.checking \cup t.refused
    BY <1>2, InvalidAssumption DEF RepInvBut
  <2>4. Waiting(t) = Waiting(s) \cup run \cup missing
    <3>1. {e[1] : e \in t.awaits} = {e[1] : e \in s.awaits} \cup {e[1] : e \in missing \X {p}}
      BY <1>2
    <3>2. {e[1] : e \in missing \X {p}} = missing
      <4>1. \A a \in missing : <<a, p>> \in missing \X {p} /\ <<a, p>>[1] = a
        OBVIOUS
      <4>2. \A e \in missing \X {p} : e[1] \in missing
        OBVIOUS
      <4> QED BY <4>1, <4>2
    <3> QED BY <1>2, <3>1, <3>2 DEF Waiting
  <2>5. \A e \in t.awaits : e[1] \in P \ t.opened
    <3>1. ASSUME NEW e \in s.awaits
          PROVE  e[1] \in P \ t.opened
      <4>1. e[1] \in P /\ e[1] \notin s.opened /\ e[1] \in known
        BY DEF RepInvBut, Waiting, known
      <4> QED BY <1>2, <1>5, <4>1
    <3>2. ASSUME NEW e \in missing \X {p}
          PROVE  e[1] \in P \ t.opened
      <4>1. e[1] \in missing
        OBVIOUS
      <4>2. e[1] \in P /\ e[1] \notin run /\ e[1] \notin known
        BY <1>6, <4>1
      <4> QED BY <1>2, <4>2 DEF known, Waiting
    <3> QED BY <1>2, <3>1, <3>2
  <2>6. Backed(t)
    <3>1. Waiting(t) \cap t.delivered = {}
      BY <1>2, <1>5, <1>6, <2>4 DEF RepInvBut, known
    <3>2. \A e \in t.awaits : e[1] \in t.ctx /\ e \in t.asked
      <4>1. \A e \in missing \X {p} : e[1] \in missing /\ e \in (missing \cup certs) \X {p}
        OBVIOUS
      <4> QED BY <1>2, <4>1 DEF RepInvBut
    <3>3. \A c \in t.qcwait : QcRef(c) \in t.ctx /\ Of(t.asked, QcRef(c)) # {}
      <4>1. ASSUME NEW c \in s.qcwait
            PROVE  QcRef(c) \in t.ctx /\ Of(t.asked, QcRef(c)) # {}
        BY <1>2 DEF RepInvBut, Of
      <4>2. ASSUME NEW c \in run, QcRef(c) \notin s.store
            PROVE  QcRef(c) \in t.ctx /\ Of(t.asked, QcRef(c)) # {}
        <5>1. QcRef(c) \in certs
          BY <4>2 DEF certs
        <5>2. <<QcRef(c), p>> \in t.asked
          BY <1>2, <5>1
        <5>3. <<QcRef(c), p>> \in Of(t.asked, QcRef(c))
          BY <5>2 DEF Of
        <5> QED BY <1>2, <5>1, <5>3
      <4> QED BY <1>2, <4>1, <4>2
    <3>4. \A c \in t.opened : Parent(c) \in t.delivered \cup Waiting(t)
      BY <1>2, <1>11, <1>12, <2>4 DEF RepInvBut
    <3> QED BY <3>1, <3>2, <3>3, <3>4 DEF Backed
  <2> QED BY <2>1, <2>2, <2>3, <2>5, <2>6 DEF RepInv
<1>14. t.asked \subseteq s.asked \cup (Branch(b) \X {p})
  <2> HIDE DEF run, missing, certs
  <2> QED BY <1>2, <1>6, <1>8
<1> QED BY <1>2, <1>10, <1>13, <1>14

\* Settle leaves nothing ready; what it delivers was proposed, verifies, and
\* comes with its parent.
LEMMA SettleKeeps ==
  ASSUME NEW s \in Replica, NEW r \in Replicas, NEW P \in SUBSET Blocks,
         RepInv(s, r, P)
  PROVE  LET u == Settle(s) IN
         /\ u \in Replica
         /\ RepInv(u, r, P)
         /\ NoneReady(u)
         /\ u.store = s.store /\ u.asked = s.asked /\ s.delivered \subseteq u.delivered
         /\ \A b \in u.delivered \ s.delivered :
              b \in P \ Invalid /\ Parent(b) \in u.delivered
<1> DEFINE done == {b \in Clear(s) : Branch(b) \subseteq s.delivered \cup Clear(s)}
           u == Settle(s)
<1>1. u = [s EXCEPT !.delivered = @ \cup done, !.opened = @ \ done]
  BY DEF Settle
<1>2. /\ u.delivered = s.delivered \cup done /\ u.opened = s.opened \ done
      /\ u.store = s.store /\ u.asked = s.asked /\ u.ctx = s.ctx
      /\ u.awaits = s.awaits /\ u.checking = s.checking
      /\ u.refused = s.refused /\ u.qcwait = s.qcwait
  BY <1>1 DEF Replica
<1>3. /\ s.opened \subseteq Blocks /\ s.delivered \subseteq Block
      /\ Clear(s) \subseteq s.opened /\ done \subseteq Clear(s)
      /\ Clear(s) \cap (s.checking \cup s.refused \cup s.qcwait) = {}
  BY DEF Replica, Clear
<1>4. u \in Replica
  <2> HIDE DEF done
  <2>1. s.delivered \cup done \in SUBSET Block /\ s.opened \ done \in SUBSET Blocks
    BY <1>3 DEF Block
  <2> QED BY <1>1, <2>1 DEF Replica
<1>5. \A b \in Blocks : /\ b \in Tree /\ b \in Branch(b) /\ Parent(b) \in Branch(b)
                        /\ \A a \in Branch(b) : Branch(a) \subseteq Branch(b)
  BY BlockFacts, BranchFacts DEF Block
<1>6. ASSUME NEW b \in done
      PROVE  Branch(b) \subseteq u.delivered
  <2>1. b \in Blocks /\ Branch(b) \subseteq s.delivered \cup Clear(s)
    BY <1>3
  <2>2. ASSUME NEW a \in Branch(b), a \in Clear(s)
        PROVE  a \in done
    BY <1>5, <2>1, <2>2
  <2> QED BY <1>2, <2>1, <2>2
<1>7. done \cap Invalid = {} /\ Clear(s) \cap Invalid = {}
  BY <1>3 DEF RepInv
<1>8. \A b \in done : b \in P \ Invalid /\ Parent(b) \in u.delivered
  <2>1. \A b \in done : b \in Blocks /\ b \in s.store
    BY <1>3 DEF RepInv
  <2>2. \A b \in done : b \in P
    BY <2>1, BlockFacts DEF RepInv
  <2> QED BY <1>5, <1>6, <1>7, <2>1, <2>2
<1>9. Waiting(s) = Waiting(u) \cup done
  <2> HIDE DEF done
  <2> QED BY <1>2, <1>3 DEF Waiting
<1>10. RepInv(u, r, P)
  <2>1. /\ b0 \in u.delivered
        /\ u.delivered \subseteq u.store
        /\ u.store \subseteq P \cup {b0}
        /\ u.opened \subseteq u.store
    BY <1>2, <1>3 DEF RepInv
  <2>2. \A b \in u.delivered : Branch(b) \subseteq u.delivered
    <3>1. \A b \in s.delivered : Branch(b) \subseteq s.delivered
      BY DEF RepInv
    <3> HIDE DEF done, u
    <3> QED BY <1>2, <1>6, <3>1
  <2>3. /\ u.checking \cup u.refused \cup u.qcwait \subseteq u.opened
        /\ u.opened \cap Invalid \subseteq u.checking \cup u.refused
        /\ \A e \in u.awaits : e[1] \in P \ u.opened
    <3> HIDE DEF done, u
    <3> QED BY <1>2, <1>3 DEF RepInv
  <2>4. OnlyOwnInvalid(u, r)
    <3> SUFFICES ASSUME NEW b \in u.delivered, NEW a \in Branch(b) \cap Invalid
                 PROVE  \E c \in Branch(b) \cap Blocks : Author[c] = r /\ a \in Branch(c)
      BY DEF OnlyOwnInvalid
    <3>1. CASE b \in s.delivered
      BY <3>1 DEF RepInv, OnlyOwnInvalid
    <3>2. CASE b \in done
      <4>1. a \in s.delivered /\ b \in Blocks
        BY <1>3, <1>7, <3>2
      <4>2. a \in Branch(a)
        BY <1>5, InvalidAssumption
      <4>3. PICK c \in Branch(a) \cap Blocks : Author[c] = r /\ a \in Branch(c)
        BY <4>1, <4>2 DEF RepInv, OnlyOwnInvalid
      <4>4. c \in Branch(b)
        BY <1>5, <4>1, <4>3
      <4> QED BY <4>3, <4>4
    <3> QED BY <1>2, <3>1, <3>2
  <2>5. Backed(u)
    <3> HIDE DEF done, u
    <3>1. Waiting(u) \cap u.delivered = {}
      <4>1. Waiting(u) \cap done = {}
        BY <1>2, <1>3 DEF RepInv, Waiting
      <4> QED BY <1>2, <1>9, <4>1 DEF RepInv, Backed
    <3>2. /\ \A e \in u.awaits : e[1] \in u.ctx /\ e \in u.asked
          /\ \A b \in u.qcwait : QcRef(b) \in u.ctx /\ Of(u.asked, QcRef(b)) # {}
      BY <1>2 DEF RepInv, Backed
    <3>3. \A b \in u.opened : Parent(b) \in u.delivered \cup Waiting(u)
      BY <1>2, <1>9 DEF RepInv, Backed
    <3> QED BY <3>1, <3>2, <3>3 DEF Backed
  <2> QED BY <2>1, <2>2, <2>3, <2>4, <2>5 DEF RepInv
<1>11. NoneReady(u)
  <2> SUFFICES ASSUME NEW b \in u.opened, Branch(b) \subseteq u.delivered \cup Clear(u)
               PROVE  FALSE
    BY DEF NoneReady
  <2>1. b \in s.opened /\ b \notin done /\ b \in Blocks
    BY <1>2, <1>3
  <2>2. Clear(u) \subseteq Clear(s) /\ u.delivered \subseteq s.delivered \cup Clear(s)
    BY <1>2, <1>3 DEF Clear
  <2>3. Branch(b) \subseteq s.delivered \cup Clear(s) /\ b \in Branch(b)
    BY <1>5, <2>1, <2>2
  <2>4. b \notin s.delivered
    BY <2>1 DEF RepInv, Backed, Waiting
  <2> QED BY <2>1, <2>3, <2>4
<1> QED BY <1>2, <1>4, <1>8, <1>10, <1>11

\* The fetch of a stored block b ends: what waited for it goes on.
LEMMA FetchKeeps ==
  ASSUME NEW s \in Replica, NEW r \in Replicas, NEW P \in SUBSET Blocks,
         NEW b \in Blocks, RepInv(s, r, P), Branch(b) \subseteq P \cup {b0}
  PROVE  LET t == on_fetch_blk(s, b) IN
         /\ t \in Replica
         /\ RepInv(t, r, P)
         /\ t.store = s.store
         /\ t.delivered = s.delivered
         /\ t.asked \subseteq s.asked \cup (Branch(b) \X {e[2] : e \in Of(s.asked, b)})
<1> DEFINE s1 == [s EXCEPT !.ctx = @ \ {b},
                           !.asked = @ \ Of(@, b),
                           !.owed = @ \ Of(@, b),
                           !.awaits = @ \ Of(@, b),
                           !.qcwait = {a \in @ : QcRef(a) # b}]
<1>1. /\ s1.store = s.store /\ s1.delivered = s.delivered
      /\ s1.opened = s.opened /\ s1.checking = s.checking /\ s1.refused = s.refused
      /\ s1.ctx = s.ctx \ {b} /\ s1.asked = s.asked \ Of(s.asked, b)
      /\ s1.awaits = s.awaits \ Of(s.awaits, b)
      /\ s1.qcwait = {a \in s.qcwait : QcRef(a) # b}
  BY DEF Replica
<1>2. s1 \in Replica
  BY DEF Replica
<1>3. RepInvBut(s1, r, P, b)
  <2> HIDE DEF s1
  <2>1. Waiting(s1) \subseteq Waiting(s) /\ Waiting(s) \subseteq Waiting(s1) \cup {b}
    BY <1>1 DEF Waiting, Of
  <2>2. \A e \in s1.awaits : e[1] \in s1.ctx /\ e \in s1.asked
    BY <1>1 DEF RepInv, Backed, Of
  <2>3. ASSUME NEW c \in s1.qcwait
        PROVE  QcRef(c) \in s1.ctx /\ Of(s1.asked, QcRef(c)) # {}
    <3>1. QcRef(c) \in s.ctx /\ QcRef(c) # b
      BY <1>1 DEF RepInv, Backed
    <3>2. PICK e \in s.asked : e[1] = QcRef(c)
      BY <1>1 DEF RepInv, Backed, Of
    <3>3. e \in Of(s1.asked, QcRef(c))
      BY <1>1, <3>1, <3>2 DEF Of
    <3> QED BY <1>1, <3>1, <3>3
  <2>4. \A c \in s1.opened : Parent(c) \in s1.delivered \cup Waiting(s1) \cup {b}
    BY <1>1, <2>1 DEF RepInv, Backed
  <2>5. Waiting(s1) \cap s1.delivered = {}
    BY <1>1, <2>1 DEF RepInv, Backed
  <2>6. /\ s1.checking \cup s1.refused \cup s1.qcwait \subseteq s1.opened
        /\ s1.opened \cap Invalid \subseteq s1.checking \cup s1.refused
        /\ \A e \in s1.awaits : e[1] \in P \ s1.opened
    BY <1>1 DEF RepInv
  <2> QED BY <1>1, <2>2, <2>3, <2>4, <2>5, <2>6 DEF RepInv, RepInvBut, OnlyOwnInvalid
<1>4. CASE b \notin s.ctx
  BY <1>4 DEF on_fetch_blk
<1>5. CASE b \in s.ctx /\ Of(s.awaits, b) = {}
  <2>1. on_fetch_blk(s, b) = s1
    BY <1>5 DEF on_fetch_blk
  <2> HIDE DEF s1
  <2>2. Waiting(s1) = Waiting(s)
    BY <1>1, <1>5 DEF Waiting
  <2>3. \A c \in s1.opened : Parent(c) \in s1.delivered \cup Waiting(s1)
    BY <1>1, <2>2 DEF RepInv, Backed
  <2>4. RepInv(s1, r, P)
    BY <1>3, <2>3 DEF RepInv, RepInvBut, Backed
  <2> QED BY <1>1, <1>2, <2>1, <2>4
<1>6. CASE b \in s.ctx /\ Of(s.awaits, b) # {}
  <2> DEFINE e0 == CHOOSE e \in Of(s.awaits, b) : TRUE
  <2>1. e0 \in s.awaits /\ e0[1] = b
    BY <1>6 DEF Of
  <2>2. e0 \in s.asked /\ e0 \in Blocks \X Replicas
    BY <2>1 DEF RepInv, Backed, Replica
  <2>3. e0[2] \in Replicas /\ e0[2] \in {e[2] : e \in Of(s.asked, b)}
    <3> HIDE DEF e0
    <3> QED BY <2>1, <2>2 DEF Of
  <2>4. on_fetch_blk(s, b) = async_deliver_blk(s1, b, e0[2])
    BY <1>6 DEF on_fetch_blk
  <2> DEFINE t == async_deliver_blk(s1, b, e0[2])
  <2>5. /\ t \in Replica /\ RepInv(t, r, P)
        /\ t.store = s1.store /\ t.delivered = s1.delivered
        /\ t.asked \subseteq s1.asked \cup (Branch(b) \X {e0[2]})
    <3> HIDE DEF s1, e0
    <3>1. ASSUME NEW q \in Replicas
          PROVE  LET v == async_deliver_blk(s1, b, q) IN
                 /\ v \in Replica /\ RepInv(v, r, P)
                 /\ v.store = s1.store /\ v.delivered = s1.delivered
                 /\ v.asked \subseteq s1.asked \cup (Branch(b) \X {q})
      <4> DEFINE v == async_deliver_blk(s1, b, q)
      <4>1. v \in Replica /\ RepInv(v, r, P)
        BY <1>2, <1>3, OpenKeeps
      <4>2. v.store = s1.store /\ v.delivered = s1.delivered
        BY <1>2, <1>3, OpenKeeps
      <4>3. v.asked \subseteq s1.asked \cup (Branch(b) \X {q})
        BY <1>2, <1>3, OpenKeeps
      <4> QED BY <4>1, <4>2, <4>3
    <3> QED BY <2>3, <3>1
  <2> HIDE DEF s1, t, e0
  <2>6. t.asked \subseteq s.asked \cup (Branch(b) \X {e[2] : e \in Of(s.asked, b)})
    BY <1>1, <2>3, <2>5
  <2> QED BY <1>1, <2>4, <2>5, <2>6 DEF t
<1> QED BY <1>4, <1>5, <1>6

\* RepInv of a record does not mind that more blocks are proposed.
LEMMA RepInvGrows ==
  ASSUME NEW s, NEW r, NEW P, NEW Q, RepInv(s, r, P), P \subseteq Q
  PROVE  RepInv(s, r, Q)
<1>1. s.store \subseteq Q \cup {b0} /\ \A e \in s.awaits : e[1] \in Q \ s.opened
  BY DEF RepInv
<1> QED BY <1>1 DEF RepInv

-----------------------------------------------------------------------------
(***************************************************************************)
(* The steps of the system.                                                *)
(***************************************************************************)

\* A handler that ends in Becomes, and what it may deliver.
LEMMA BecomesKeeps ==
  ASSUME IInv, NEW r \in Replicas, NEW t \in Replica, RepInv(t, r, proposals),
         t.delivered = rep[r].delivered, rep[r].store \subseteq t.store,
         Steady => \A e \in t.asked : Branch(e[1]) \subseteq rep[e[2]].store,
         Becomes(r, t)
  PROVE  /\ rep' \in [Replicas -> Replica]
         /\ reqs' \in SUBSET Msg
         /\ \A q \in Replicas : RepInv(rep'[q], q, proposals) /\ NoneReady(rep'[q])
         /\ \A q \in Replicas : rep[q].store \subseteq rep'[q].store
         /\ Steady => \A q \in Replicas : \A e \in rep'[q].asked :
                        Branch(e[1]) \subseteq rep'[e[2]].store
         /\ \A q \in Replicas \ {r} : rep'[q] = rep[q]
         /\ rep[r].delivered \subseteq rep'[r].delivered
         /\ \A b \in rep'[r].delivered \ rep[r].delivered :
              b \in proposals \ Invalid /\ Parent(b) \in rep'[r].delivered
<1> DEFINE u == Settle(t)
<1>1. /\ rep \in [Replicas -> Replica] /\ proposals \in SUBSET Blocks
      /\ reqs \in SUBSET Msg
      /\ \A q \in Replicas : RepInv(rep[q], q, proposals) /\ NoneReady(rep[q])
  BY DEF IInv, TypeOK
<1>2. rep' = [rep EXCEPT ![r] = u] /\ reqs' = reqs \cup NewRequests(r, rep[r], t)
  BY DEF Becomes
<1>3. u \in Replica /\ RepInv(u, r, proposals) /\ NoneReady(u)
  BY <1>1, SettleKeeps
<1>4. u.store = t.store /\ u.asked = t.asked /\ t.delivered \subseteq u.delivered
  BY <1>1, SettleKeeps
<1>5. \A b \in u.delivered \ t.delivered :
        b \in proposals \ Invalid /\ Parent(b) \in u.delivered
  BY <1>1, SettleKeeps
<1> HIDE DEF u
<1>6. /\ rep' \in [Replicas -> Replica] /\ rep'[r] = u
      /\ \A q \in Replicas \ {r} : rep'[q] = rep[q]
  BY <1>1, <1>2, <1>3
<1>7. reqs' \in SUBSET Msg
  <2>1. t.asked \subseteq Blocks \X Replicas
    BY DEF Replica
  <2>2. NewRequests(r, rep[r], t) \subseteq Msg
    BY <2>1 DEF NewRequests, Msg
  <2> QED BY <1>1, <1>2, <2>2
<1>8. \A q \in Replicas : rep[q].store \subseteq rep'[q].store
  BY <1>4, <1>6
<1>9. ASSUME Steady, NEW q \in Replicas, NEW e \in rep'[q].asked
      PROVE  Branch(e[1]) \subseteq rep'[e[2]].store
  <2>1. rep'[q] \in Replica
    BY <1>6
  <2>2. e[2] \in Replicas
    BY <2>1 DEF Replica
  <2>3. Branch(e[1]) \subseteq rep[e[2]].store
    BY <1>4, <1>6, <1>9 DEF IInv, GlobalInv
  <2> QED BY <1>8, <2>2, <2>3
<1> QED BY <1>1, <1>3, <1>4, <1>5, <1>6, <1>7, <1>8, <1>9

\* The three handlers that begin with async_deliver_blk, and Verified.
LEMMA OpenStep ==
  ASSUME IInv, NEW r \in Replicas, NEW p \in Replicas, NEW b \in proposals,
         NEW s \in Replica, RepInv(s, r, proposals),
         s.delivered = rep[r].delivered, rep[r].store \subseteq s.store,
         s.asked = rep[r].asked,
         Steady => Branch(b) \subseteq rep[p].store
  PROVE  LET t == async_deliver_blk(s, b, p) IN
         /\ t \in Replica /\ RepInv(t, r, proposals)
         /\ t.delivered = rep[r].delivered /\ rep[r].store \subseteq t.store
         /\ Steady => \A e \in t.asked : Branch(e[1]) \subseteq rep[e[2]].store
<1> DEFINE t == async_deliver_blk(s, b, p)
<1>1. b \in Blocks /\ proposals \in SUBSET Blocks /\ Branch(b) \subseteq proposals \cup {b0}
  BY DEF IInv, TypeOK, GlobalInv
<1>2. RepInvBut(s, r, proposals, b)
  BY RepInvIsRepInvBut
<1>3. t \in Replica /\ RepInv(t, r, proposals)
  BY <1>1, <1>2, OpenKeeps
<1>4. t.store = s.store /\ t.delivered = s.delivered
  <2>1. t.store = s.store
    BY <1>1, <1>2, OpenKeeps
  <2>2. t.delivered = s.delivered
    BY <1>1, <1>2, OpenKeeps
  <2> QED BY <2>1, <2>2
<1>5. t.asked \subseteq s.asked \cup (Branch(b) \X {p})
  BY <1>1, <1>2, OpenKeeps
<1> HIDE DEF t
<1>6. ASSUME Steady, NEW e \in t.asked
      PROVE  Branch(e[1]) \subseteq rep[e[2]].store
  <2>1. CASE e \in s.asked
    BY <1>6, <2>1 DEF IInv, GlobalInv
  <2>2. CASE e \in Branch(b) \X {p}
    <3>1. e[1] \in Branch(b) /\ e[2] = p
      BY <2>2
    <3>2. b \in Tree
      BY <1>1, BlockFacts DEF Block
    <3>3. Branch(e[1]) \subseteq Branch(b)
      BY <3>1, <3>2, BranchFacts
    <3> QED BY <1>6, <3>1, <3>3
  <2> QED BY <1>5, <2>1, <2>2
<1> QED BY <1>3, <1>4, <1>6 DEF t

\* A block that is stored without being delivered disturbs nothing.
LEMMA StoreKeeps ==
  ASSUME NEW s \in Replica, NEW r \in Replicas, NEW P \in SUBSET Blocks,
         NEW b \in P, RepInv(s, r, P)
  PROVE  LET t == [s EXCEPT !.store = @ \cup {b}] IN
         /\ t \in Replica /\ RepInv(t, r, P)
         /\ t.delivered = s.delivered /\ t.asked = s.asked
         /\ t.store = s.store \cup {b}
<1> DEFINE t == [s EXCEPT !.store = @ \cup {b}]
<1>1. /\ t.store = s.store \cup {b}
      /\ t.delivered = s.delivered /\ t.asked = s.asked /\ t.ctx = s.ctx
      /\ t.awaits = s.awaits /\ t.opened = s.opened /\ t.checking = s.checking
      /\ t.refused = s.refused /\ t.qcwait = s.qcwait
  BY DEF Replica
<1>2. t \in Replica
  BY DEF Replica, Block
<1> HIDE DEF t
<1>3. Waiting(t) = Waiting(s)
  BY <1>1 DEF Waiting
<1>4. Backed(t)
  BY <1>1, <1>3 DEF RepInv, Backed
<1>5. RepInv(t, r, P)
  BY <1>1, <1>4 DEF RepInv, OnlyOwnInvalid
<1> QED BY <1>1, <1>2, <1>5 DEF t

\* The steps that leave all records but their parts ctx and owed alone.
LEMMA QuietStep ==
  ASSUME IInv, NEW r \in Replicas, NEW b \in Blocks, NEW q \in Replicas,
         rep' = [rep EXCEPT ![r].ctx = @ \cup {b}, ![r].owed = @ \cup {<<b, q>>}]
                  \/ rep' = rep
  PROVE  /\ rep' \in [Replicas -> Replica]
         /\ \A n \in Replicas : RepInv(rep'[n], n, proposals) /\ NoneReady(rep'[n])
         /\ \A n \in Replicas : /\ rep'[n].store = rep[n].store
                                /\ rep'[n].asked = rep[n].asked
                                /\ rep'[n].delivered = rep[n].delivered
<1>1. /\ rep \in [Replicas -> Replica]
      /\ \A n \in Replicas : RepInv(rep[n], n, proposals) /\ NoneReady(rep[n])
  BY DEF IInv, TypeOK
<1>2. CASE rep' = rep
  BY <1>1, <1>2
<1>3. CASE rep' = [rep EXCEPT ![r].ctx = @ \cup {b}, ![r].owed = @ \cup {<<b, q>>}]
  <2> DEFINE t == [rep[r] EXCEPT !.ctx = @ \cup {b}, !.owed = @ \cup {<<b, q>>}]
  <2>1. rep[r] \in Replica
    BY <1>1
  <2>2. rep' = [rep EXCEPT ![r] = t]
    BY <1>1, <1>3
  <2>3. t \in Replica
    <3>1. /\ rep[r].ctx \cup {b} \in SUBSET Blocks
          /\ rep[r].owed \cup {<<b, q>>} \in SUBSET (Blocks \X Replicas)
      BY <2>1 DEF Replica
    <3> QED BY <2>1, <3>1 DEF Replica
  <2>4. /\ t.store = rep[r].store /\ t.delivered = rep[r].delivered
        /\ t.asked = rep[r].asked /\ rep[r].ctx \subseteq t.ctx
        /\ t.awaits = rep[r].awaits /\ t.opened = rep[r].opened
        /\ t.checking = rep[r].checking /\ t.refused = rep[r].refused
        /\ t.qcwait = rep[r].qcwait
    BY <2>1 DEF Replica
  <2> HIDE DEF t
  <2>5. Waiting(t) = Waiting(rep[r]) /\ Clear(t) = Clear(rep[r])
    BY <2>4 DEF Waiting, Clear
  <2>6. Backed(t)
    BY <1>1, <2>4, <2>5 DEF RepInv, Backed
  <2>7. RepInv(t, r, proposals)
    BY <1>1, <2>4, <2>6 DEF RepInv, OnlyOwnInvalid
  <2>8. NoneReady(t)
    BY <1>1, <2>4, <2>5 DEF NoneReady
  <2>9. /\ rep' \in [Replicas -> Replica] /\ rep'[r] = t
        /\ \A n \in Replicas \ {r} : rep'[n] = rep[n]
    BY <1>1, <2>2, <2>3
  <2> QED BY <1>1, <2>4, <2>7, <2>8, <2>9
<1> QED BY <1>2, <1>3

\* What consensus sees.
feed == <<proposals \cup {b0}, seen>>

LEMMA FeedDeliver ==
  ASSUME NEW r \in Replicas, Feed!Deliver(r, seen'[r] \ seen[r])
  PROVE  Feed!Next
BY DEF Feed!Next

\* A step that keeps the records well, and does not restart or propose.
LEMMA KeepsIInv ==
  ASSUME IInv, UNCHANGED <<proposals, losses, restarts>>,
         rep' \in [Replicas -> Replica], reqs' \in SUBSET Msg, resps' \in SUBSET Msg,
         \A m \in resps' : m[3] \in proposals,
         \A q \in Replicas : RepInv(rep'[q], q, proposals) /\ NoneReady(rep'[q]),
         \A q \in Replicas : rep[q].store \subseteq rep'[q].store,
         Steady => \A q \in Replicas : \A e \in rep'[q].asked :
                     Branch(e[1]) \subseteq rep'[e[2]].store
  PROVE  IInv'
<1>1. TypeOK'
  BY DEF IInv, TypeOK
<1>2. \A q \in Replicas : RepInv(rep'[q], q, proposals') /\ NoneReady(rep'[q])
  OBVIOUS
<1>3. Steady' = Steady
  BY DEF Steady
<1>4. ASSUME Steady, NEW b \in proposals
      PROVE  Branch(b) \subseteq rep'[Author[b]].store
  <2>1. Branch(b) \subseteq rep[Author[b]].store
    BY <1>4 DEF IInv, GlobalInv
  <2>2. Author[b] \in Replicas
    BY AuthorAssumption DEF IInv, TypeOK
  <2> QED BY <2>1, <2>2
<1>5. GlobalInv'
  BY <1>3, <1>4 DEF IInv, GlobalInv
<1> QED BY <1>1, <1>2, <1>5 DEF IInv

LEMMA HandlerStep ==
  ASSUME IInv, NEW r \in Replicas, NEW t \in Replica, RepInv(t, r, proposals),
         t.delivered = rep[r].delivered, rep[r].store \subseteq t.store,
         Steady => \A e \in t.asked : Branch(e[1]) \subseteq rep[e[2]].store,
         Becomes(r, t), UNCHANGED <<proposals, losses, restarts>>,
         resps' \in SUBSET Msg, \A m \in resps' : m[3] \in proposals
  PROVE  IInv' /\ [Feed!Next]_feed
<1>1. /\ rep' \in [Replicas -> Replica]
      /\ reqs' \in SUBSET Msg
      /\ \A q \in Replicas : RepInv(rep'[q], q, proposals) /\ NoneReady(rep'[q])
      /\ \A q \in Replicas : rep[q].store \subseteq rep'[q].store
      /\ Steady => \A q \in Replicas : \A e \in rep'[q].asked :
                     Branch(e[1]) \subseteq rep'[e[2]].store
  BY BecomesKeeps
<1>2. /\ \A q \in Replicas \ {r} : rep'[q] = rep[q]
      /\ rep[r].delivered \subseteq rep'[r].delivered
  BY BecomesKeeps
<1>3. \A b \in rep'[r].delivered \ rep[r].delivered :
        b \in proposals \ Invalid /\ Parent(b) \in rep'[r].delivered
  BY BecomesKeeps
<1>4. IInv'
  BY <1>1, KeepsIInv
<1> DEFINE D == seen
           E == seen'
           B == E[r] \ D[r]
<1>5. E = [D EXCEPT ![r] = @ \cup B]
  BY <1>2 DEF seen
<1>6. B \subseteq (proposals \cup {b0}) \cap (Block \ Invalid)
  BY <1>3 DEF IInv, TypeOK, Block, seen
<1>7. \A b \in B \ D[r] : Parent(b) \in D[r] \cup B
  BY <1>3 DEF seen
<1>8. Feed!Deliver(r, B)
  BY <1>5, <1>6, <1>7 DEF seen, Feed!Deliver, Feed!Parent, Parent, Feed!WalkDown, WalkDown,
                          Feed!Height, Height, Feed!b0, b0
<1>9. Feed!Next
  BY <1>8, FeedDeliver
<1> QED BY <1>4, <1>9

LEMMA ReceiveProposalStep ==
  ASSUME IInv, NEW r \in Replicas, NEW b \in proposals, ReceiveProposal(r, b)
  PROVE  IInv' /\ [Feed!Next]_feed
<1> DEFINE s == [rep[r] EXCEPT !.store = @ \cup {b}]
           t == async_deliver_blk(s, b, Author[b])
<1>1. /\ rep[r] \in Replica /\ RepInv(rep[r], r, proposals)
      /\ proposals \in SUBSET Blocks
      /\ resps \in SUBSET Msg /\ \A m \in resps : m[3] \in proposals
  BY DEF IInv, TypeOK, GlobalInv
<1>2. /\ s \in Replica /\ RepInv(s, r, proposals)
      /\ s.delivered = rep[r].delivered /\ s.asked = rep[r].asked
      /\ s.store = rep[r].store \cup {b}
  BY <1>1, StoreKeeps
<1>3. Author[b] \in Replicas /\ (Steady => Branch(b) \subseteq rep[Author[b]].store)
  BY <1>1, AuthorAssumption DEF IInv, GlobalInv
<1>4. Becomes(r, t) /\ UNCHANGED <<proposals, resps, losses, restarts>>
  BY DEF ReceiveProposal
<1> HIDE DEF s
<1>5. /\ t \in Replica /\ RepInv(t, r, proposals)
      /\ t.delivered = rep[r].delivered /\ rep[r].store \subseteq t.store
      /\ Steady => \A e \in t.asked : Branch(e[1]) \subseteq rep[e[2]].store
  BY <1>2, <1>3, OpenStep
<1> HIDE DEF t
<1> QED BY <1>1, <1>4, <1>5, HandlerStep

LEMMA ReceiveVoteStep ==
  ASSUME IInv, NEW r \in Replicas, NEW v \in Replicas, NEW b \in proposals,
         ReceiveVote(r, v, b)
  PROVE  IInv' /\ [Feed!Next]_feed
<1> DEFINE t == async_deliver_blk(rep[r], b, v)
<1>1. /\ rep[r] \in Replica /\ RepInv(rep[r], r, proposals) /\ RepInv(rep[v], v, proposals)
      /\ resps \in SUBSET Msg /\ \A m \in resps : m[3] \in proposals
  BY DEF IInv, TypeOK, GlobalInv
<1>2. Becomes(r, t) /\ UNCHANGED <<proposals, resps, losses, restarts>>
  BY DEF ReceiveVote
<1>3. Branch(b) \subseteq rep[v].store
  BY <1>1 DEF ReceiveVote, RepInv
<1>4. /\ t \in Replica /\ RepInv(t, r, proposals)
      /\ t.delivered = rep[r].delivered /\ rep[r].store \subseteq t.store
      /\ Steady => \A e \in t.asked : Branch(e[1]) \subseteq rep[e[2]].store
  BY <1>1, <1>3, OpenStep
<1> HIDE DEF t
<1> QED BY <1>1, <1>2, <1>4, HandlerStep

LEMMA ReceiveRespStep ==
  ASSUME IInv, NEW m \in resps, ReceiveResp(m)
  PROVE  IInv' /\ [Feed!Next]_feed
<1> DEFINE r == m[2]
           b == m[3]
           s == [rep[r] EXCEPT !.store = @ \cup {b}]
           t == on_fetch_blk(s, b)
<1>1. /\ m \in Msg /\ r \in Replicas /\ b \in proposals /\ b \in Blocks
      /\ proposals \in SUBSET Blocks
      /\ rep[r] \in Replica /\ RepInv(rep[r], r, proposals)
      /\ resps \in SUBSET Msg /\ \A n \in resps : n[3] \in proposals
      /\ Branch(b) \subseteq proposals \cup {b0}
  BY DEF IInv, TypeOK, GlobalInv, Msg
<1>2. /\ s \in Replica /\ RepInv(s, r, proposals)
      /\ s.delivered = rep[r].delivered /\ s.asked = rep[r].asked
      /\ s.store = rep[r].store \cup {b}
  BY <1>1, StoreKeeps
<1>3. Becomes(r, t) /\ UNCHANGED <<proposals, losses, restarts>>
  BY DEF ReceiveResp
<1>4. /\ resps' \in SUBSET Msg
      /\ \A n \in resps' : n[3] \in proposals
  <2> DEFINE answers == {<<r, e[2], b>> : e \in Of(rep[r].owed, b)}
  <2>1. resps' = (resps \ {m}) \cup answers
    BY DEF ReceiveResp
  <2>2. Of(rep[r].owed, b) \subseteq Blocks \X Replicas
    BY <1>1 DEF Replica, Of
  <2>3. answers \subseteq Msg /\ \A n \in answers : n[3] = b
    BY <1>1, <2>2 DEF Msg
  <2> HIDE DEF answers
  <2> QED BY <1>1, <2>1, <2>3
<1> HIDE DEF s, r, b
<1>5. t \in Replica /\ RepInv(t, r, proposals)
  BY <1>1, <1>2, FetchKeeps
<1>6. t.store = s.store /\ t.delivered = s.delivered
  <2>1. t.store = s.store
    BY <1>1, <1>2, FetchKeeps
  <2>2. t.delivered = s.delivered
    BY <1>1, <1>2, FetchKeeps
  <2> QED BY <2>1, <2>2
<1>7. t.asked \subseteq s.asked \cup (Branch(b) \X {e[2] : e \in Of(s.asked, b)})
  BY <1>1, <1>2, FetchKeeps
<1> HIDE DEF t
<1>8. ASSUME Steady, NEW e \in t.asked
      PROVE  Branch(e[1]) \subseteq rep[e[2]].store
  <2>1. CASE e \in s.asked
    BY <1>1, <1>2, <1>8, <2>1 DEF IInv, GlobalInv
  <2>2. CASE e \in Branch(b) \X {f[2] : f \in Of(s.asked, b)}
    <3>1. e[1] \in Branch(b) /\ e[2] \in {f[2] : f \in Of(s.asked, b)}
      BY <2>2
    <3>2. PICK f \in Of(s.asked, b) : e[2] = f[2]
      BY <3>1
    <3>3. f \in rep[r].asked /\ f[1] = b
      BY <1>2, <3>2 DEF Of
    <3>4. Branch(b) \subseteq rep[e[2]].store
      BY <1>1, <1>8, <3>2, <3>3 DEF IInv, GlobalInv
    <3>5. b \in Tree
      BY <1>1, BlockFacts DEF Block
    <3>6. Branch(e[1]) \subseteq Branch(b)
      BY <3>1, <3>5, BranchFacts
    <3> QED BY <3>4, <3>6
  <2> QED BY <1>7, <2>1, <2>2
<1> QED BY <1>1, <1>2, <1>3, <1>4, <1>5, <1>6, <1>8, HandlerStep

LEMMA VerifiedStep ==
  ASSUME IInv, NEW r \in Replicas, NEW b \in Blocks, Verified(r, b)
  PROVE  IInv' /\ [Feed!Next]_feed
<1> DEFINE s == rep[r]
           t == [s EXCEPT !.checking = @ \ {b}, !.refused = @ \cup ({b} \cap Invalid)]
<1>1. /\ s \in Replica /\ RepInv(s, r, proposals) /\ b \in s.checking
      /\ resps \in SUBSET Msg /\ \A m \in resps : m[3] \in proposals
  BY DEF IInv, TypeOK, GlobalInv, Verified
<1>2. /\ t.store = s.store /\ t.delivered = s.delivered /\ t.asked = s.asked
      /\ t.ctx = s.ctx /\ t.awaits = s.awaits /\ t.opened = s.opened
      /\ t.checking = s.checking \ {b} /\ t.refused = s.refused \cup ({b} \cap Invalid)
      /\ t.qcwait = s.qcwait
  BY <1>1 DEF Replica
<1>3. t \in Replica
  BY <1>1 DEF Replica
<1>4. Becomes(r, t) /\ UNCHANGED <<proposals, resps, losses, restarts>>
  BY DEF Verified
<1> HIDE DEF t
<1>5. Backed(t)
  BY <1>1, <1>2 DEF RepInv, Backed, Waiting
<1>6. /\ t.checking \cup t.refused \cup t.qcwait \subseteq t.opened
      /\ t.opened \cap Invalid \subseteq t.checking \cup t.refused
  BY <1>1, <1>2 DEF RepInv
<1>7. RepInv(t, r, proposals)
  BY <1>1, <1>2, <1>5, <1>6 DEF RepInv, OnlyOwnInvalid
<1>8. Steady => \A e \in t.asked : Branch(e[1]) \subseteq rep[e[2]].store
  BY <1>2 DEF IInv, GlobalInv
<1> QED BY <1>1, <1>2, <1>3, <1>4, <1>7, <1>8, HandlerStep

\* The steps that only move messages.
LEMMA MessageStep ==
  ASSUME IInv,
         \/ \E m \in reqs : ReceiveReq(m)
         \/ \E r \in Replicas, b \in Blocks : Timeout(r, b)
         \/ \E m \in reqs \cup resps : Lose(m)
  PROVE  IInv' /\ [Feed!Next]_feed
<1>1. /\ rep \in [Replicas -> Replica]
      /\ reqs \in SUBSET Msg /\ resps \in SUBSET Msg
      /\ losses \in 0..MaxLosses
      /\ \A m \in resps : m[3] \in proposals
      /\ \A q \in Replicas : RepInv(rep[q], q, proposals) /\ NoneReady(rep[q])
      /\ Steady => \A q \in Replicas : \A e \in rep[q].asked :
                     Branch(e[1]) \subseteq rep[e[2]].store
  BY DEF IInv, TypeOK, GlobalInv
<1>2. ASSUME NEW m \in reqs, ReceiveReq(m)
      PROVE  IInv' /\ [Feed!Next]_feed
  <2> DEFINE r == m[2]
             b == m[3]
  <2>1. m \in Msg /\ r \in Replicas /\ b \in Blocks /\ m[1] \in Replicas
    BY <1>1 DEF Msg
  <2>2. /\ reqs' \in SUBSET Msg
        /\ UNCHANGED <<proposals, losses, restarts>>
    BY <1>1, <1>2 DEF ReceiveReq
  <2>3. rep' = [rep EXCEPT ![r].ctx = @ \cup {b}, ![r].owed = @ \cup {<<b, m[1]>>}]
          \/ rep' = rep
    BY <1>2 DEF ReceiveReq
  <2>4. resps' \in SUBSET Msg /\ \A n \in resps' : n[3] \in proposals
    <3>1. CASE resps' = resps
      BY <1>1, <3>1
    <3>2. CASE b \in rep[r].store /\ resps' = resps \cup {<<r, m[1], b>>}
      <4>1. b \in proposals
        BY <1>1, <2>1, <3>2, BlockFacts DEF RepInv
      <4>2. <<r, m[1], b>> \in Msg
        BY <2>1 DEF Msg
      <4> QED BY <1>1, <3>2, <4>1, <4>2
    <3> QED BY <1>2, <3>1, <3>2 DEF ReceiveReq
  <2> HIDE DEF r, b
  <2>5. /\ rep' \in [Replicas -> Replica]
        /\ \A n \in Replicas : RepInv(rep'[n], n, proposals) /\ NoneReady(rep'[n])
        /\ \A n \in Replicas : /\ rep'[n].store = rep[n].store
                               /\ rep'[n].asked = rep[n].asked
                               /\ rep'[n].delivered = rep[n].delivered
    BY <2>1, <2>3, QuietStep
  <2>6. ASSUME Steady, NEW q \in Replicas, NEW e \in rep'[q].asked
        PROVE  Branch(e[1]) \subseteq rep'[e[2]].store
    <3>1. e \in rep[q].asked /\ e[2] \in Replicas
      BY <1>1, <2>5 DEF Replica
    <3> QED BY <1>1, <2>5, <2>6, <3>1
  <2>7. IInv'
    BY <2>2, <2>4, <2>5, <2>6, KeepsIInv
  <2>8. UNCHANGED feed
    BY <2>2, <2>5 DEF feed, seen
  <2> QED BY <2>7, <2>8
<1>3. ASSUME NEW r \in Replicas, NEW b \in Blocks, Timeout(r, b)
      PROVE  IInv' /\ [Feed!Next]_feed
  <2>1. Of(rep[r].asked, b) \subseteq Blocks \X Replicas
    BY <1>1 DEF Replica, Of
  <2>2. reqs' \in SUBSET Msg
    BY <1>1, <1>3, <2>1 DEF Timeout, Msg
  <2>3. UNCHANGED <<rep, proposals, resps, losses, restarts>>
    BY <1>3 DEF Timeout
  <2>4. IInv'
    BY <1>1, <2>2, <2>3, KeepsIInv
  <2> QED BY <2>3, <2>4 DEF feed, seen
<1>4. ASSUME NEW m \in reqs \cup resps, Lose(m)
      PROVE  IInv' /\ [Feed!Next]_feed
  <2>1. /\ UNCHANGED <<rep, proposals, restarts>>
        /\ losses' \in 0..MaxLosses
        /\ reqs' \in SUBSET Msg /\ resps' \in SUBSET Msg
        /\ \A n \in resps' : n[3] \in proposals
    BY <1>1, <1>4, BoundsAssumption DEF Lose
  <2>2. TypeOK'
    BY <2>1 DEF IInv, TypeOK
  <2>3. \A q \in Replicas : RepInv(rep[q], q, proposals)' /\ NoneReady(rep[q])'
    BY <1>1, <2>1
  <2>4. GlobalInv'
    BY <2>1 DEF IInv, GlobalInv, Steady
  <2> QED BY <2>1, <2>2, <2>3, <2>4 DEF IInv, feed, seen
<1> QED BY <1>2, <1>3, <1>4

LEMMA ProposeStep ==
  ASSUME IInv, NEW r \in Replicas, NEW b \in Blocks, Propose(r, b)
  PROVE  IInv' /\ Feed!Next
<1> DEFINE s == rep[r]
           t == [s EXCEPT !.store = @ \cup {b}, !.delivered = @ \cup {b}]
           P == proposals
           Q == proposals \cup {b}
<1>1. /\ rep \in [Replicas -> Replica] /\ s \in Replica /\ P \in SUBSET Blocks
      /\ \A q \in Replicas : RepInv(rep[q], q, P) /\ NoneReady(rep[q])
      /\ RepInv(s, r, P) /\ NoneReady(s)
      /\ \A c \in P : Branch(c) \subseteq P \cup {b0}
  BY DEF IInv, TypeOK, GlobalInv
<1>2. /\ Author[b] = r /\ b \notin P /\ Parent(b) \in s.delivered
      /\ rep' = [rep EXCEPT ![r] = t] /\ proposals' = Q
      /\ UNCHANGED <<reqs, resps, losses, restarts>>
  BY <1>1 DEF Propose
<1>3. /\ t.store = s.store \cup {b} /\ t.delivered = s.delivered \cup {b}
      /\ t.asked = s.asked /\ t.ctx = s.ctx
      /\ t.awaits = s.awaits /\ t.opened = s.opened /\ t.checking = s.checking
      /\ t.refused = s.refused /\ t.qcwait = s.qcwait
  BY <1>1 DEF Replica
<1>4. t \in Replica
  BY <1>1 DEF Replica, Block
<1>5. /\ rep' \in [Replicas -> Replica] /\ rep'[r] = t
      /\ \A q \in Replicas \ {r} : rep'[q] = rep[q]
  BY <1>1, <1>2, <1>4
<1>6. b # b0 /\ b \in Tree /\ b \in Branch(b)
  BY BlockFacts, BranchFacts DEF Block
<1>7. Branch(b) \subseteq s.delivered \cup {b}
  <2>1. Branch(Parent(b)) \subseteq s.delivered
    BY <1>1, <1>2 DEF RepInv
  <2> QED BY <1>6, <2>1, ParentInBranch
<1>8. s.delivered \subseteq s.store /\ s.store \subseteq P \cup {b0}
  BY <1>1 DEF RepInv
<1> HIDE DEF s, t
<1>9. Waiting(t) = Waiting(s) /\ Clear(t) = Clear(s)
  BY <1>3 DEF Waiting, Clear
<1>10. b \notin Waiting(s)
  <2>1. s.opened \subseteq P \cup {b0} /\ \A e \in s.awaits : e[1] \in P
    BY <1>1, <1>8 DEF RepInv
  <2> QED BY <1>2, <1>6, <2>1 DEF Waiting
<1>11. RepInv(t, r, Q)
  <2>1. /\ b0 \in t.delivered
        /\ t.delivered \subseteq t.store
        /\ t.store \subseteq Q \cup {b0}
        /\ \A c \in t.delivered : Branch(c) \subseteq t.delivered
    BY <1>1, <1>3, <1>7, <1>8 DEF RepInv
  <2>2. /\ t.opened \subseteq t.store
        /\ t.checking \cup t.refused \cup t.qcwait \subseteq t.opened
        /\ t.opened \cap Invalid \subseteq t.checking \cup t.refused
        /\ \A e \in t.awaits : e[1] \in Q \ t.opened
    BY <1>1, <1>3 DEF RepInv
  <2>3. OnlyOwnInvalid(t, r)
    <3>1. OnlyOwnInvalid(s, r)
      BY <1>1 DEF RepInv
    <3>2. ASSUME NEW a \in Branch(b) \cap Invalid
          PROVE  \E c \in Branch(b) \cap Blocks : Author[c] = r /\ a \in Branch(c)
      BY <1>2, <1>6
    <3> QED BY <1>3, <3>1, <3>2 DEF OnlyOwnInvalid
  <2>4. Backed(t)
    BY <1>1, <1>3, <1>9, <1>10 DEF RepInv, Backed
  <2> QED BY <2>1, <2>2, <2>3, <2>4 DEF RepInv
<1>12. NoneReady(t)
  <2> SUFFICES ASSUME NEW c \in s.opened, Branch(c) \subseteq s.delivered \cup {b} \cup Clear(s)
               PROVE  FALSE
    BY <1>3, <1>9 DEF NoneReady
  <2>1. c \in Blocks /\ c \in P \cup {b0}
    BY <1>1, <1>8 DEF Replica, RepInv
  <2>2. Branch(c) \subseteq P \cup {b0}
    BY <1>1, <2>1, BlockFacts
  <2>3. Branch(c) \subseteq s.delivered \cup Clear(s)
    BY <1>2, <1>6, <2>2
  <2> QED BY <1>1, <2>3 DEF NoneReady
<1>13. \A q \in Replicas : RepInv(rep'[q], q, Q) /\ NoneReady(rep'[q])
  <2>1. ASSUME NEW q \in Replicas \ {r}
        PROVE  RepInv(rep'[q], q, Q) /\ NoneReady(rep'[q])
    <3>1. RepInv(rep[q], q, P) /\ NoneReady(rep[q]) /\ rep'[q] = rep[q]
      BY <1>1, <1>5
    <3>2. RepInv(rep[q], q, Q)
      BY <3>1, RepInvGrows
    <3> QED BY <3>1, <3>2
  <2> QED BY <1>5, <1>11, <1>12, <2>1
<1>14. GlobalInv'
  <2>1. Steady' = Steady
    BY <1>2 DEF Steady
  <2>2. \A c \in Q : Branch(c) \subseteq Q \cup {b0}
    BY <1>1, <1>7, <1>8
  <2>3. \A m \in resps' : m[3] \in Q
    BY <1>2 DEF IInv, GlobalInv
  <2>4. \A q \in Replicas : rep[q].store \subseteq rep'[q].store /\ rep'[q].asked = rep[q].asked
    BY <1>3, <1>5 DEF s
  <2>5. ASSUME Steady, NEW c \in Q
        PROVE  Branch(c) \subseteq rep'[Author[c]].store
    <3>1. CASE c = b
      BY <1>2, <1>3, <1>5, <1>7, <1>8, <3>1
    <3>2. CASE c \in P
      <4>1. Author[c] \in Replicas
        BY <1>1, <3>2, AuthorAssumption
      <4> QED BY <2>4, <2>5, <3>2, <4>1 DEF IInv, GlobalInv
    <3> QED BY <3>1, <3>2
  <2>6. ASSUME Steady, NEW q \in Replicas, NEW e \in rep'[q].asked
        PROVE  Branch(e[1]) \subseteq rep'[e[2]].store
    <3>1. e \in rep[q].asked /\ e[2] \in Replicas
      BY <1>1, <2>4 DEF Replica
    <3> QED BY <2>4, <2>6, <3>1 DEF IInv, GlobalInv
  <2> HIDE DEF P, Q
  <2> QED BY <1>2, <2>1, <2>2, <2>3, <2>5, <2>6 DEF GlobalInv
<1>15. IInv'
  <2>1. TypeOK'
    BY <1>1, <1>2, <1>5 DEF IInv, TypeOK
  <2> QED BY <1>2, <1>13, <1>14, <2>1 DEF IInv
<1>16. Feed!Create(r, b)
  <2>1. seen' = [seen EXCEPT ![r] = @ \cup {b}]
    BY <1>3, <1>5 DEF seen, s
  <2>2. (proposals \cup {b0})' = (proposals \cup {b0}) \cup {b}
    BY <1>2
  <2>3. Parent(b) \in seen[r]
    BY <1>2 DEF seen, s
  <2> QED BY <2>1, <2>2, <2>3 DEF Feed!Create, Feed!Parent, Parent, Feed!WalkDown, WalkDown,
                                  Feed!Height, Height
<1>17. b \in (proposals \cup {b0})' \ {Feed!b0}
  BY <1>2, <1>6 DEF Feed!b0, b0
<1> QED BY <1>15, <1>16, <1>17 DEF Feed!Next

LEMMA NewReplicaKeeps ==
  ASSUME NEW r, NEW P \in SUBSET Blocks
  PROVE  NewReplica \in Replica /\ RepInv(NewReplica, r, P) /\ NoneReady(NewReplica)
<1> DEFINE s == NewReplica
<1>1. /\ s.store = {b0} /\ s.delivered = {b0} /\ s.ctx = {} /\ s.asked = {} /\ s.owed = {}
      /\ s.awaits = {} /\ s.opened = {} /\ s.checking = {} /\ s.refused = {} /\ s.qcwait = {}
  BY DEF NewReplica
<1>2. s \in Replica
  BY DEF NewReplica, Replica, Block
<1> HIDE DEF s
<1>3. Waiting(s) = {}
  BY <1>1 DEF Waiting
<1>4. b0 \notin Invalid /\ Branch(b0) = {b0}
  BY GenesisBranch, BlockFacts, InvalidAssumption
<1>5. Backed(s) /\ NoneReady(s)
  BY <1>1, <1>3 DEF Backed, NoneReady
<1>6. OnlyOwnInvalid(s, r)
  BY <1>1, <1>4 DEF OnlyOwnInvalid
<1>7. RepInv(s, r, P)
  BY <1>1, <1>4, <1>5, <1>6 DEF RepInv
<1> QED BY <1>2, <1>5, <1>7 DEF s

LEMMA RestartStep ==
  ASSUME IInv, NEW r \in Replicas, Restart(r)
  PROVE  IInv' /\ Feed!Next
<1>1. /\ rep \in [Replicas -> Replica] /\ proposals \in SUBSET Blocks
      /\ \A q \in Replicas : RepInv(rep[q], q, proposals) /\ NoneReady(rep[q])
      /\ restarts \in 0..MaxRestarts
  BY DEF IInv, TypeOK
<1>2. /\ rep' = [rep EXCEPT ![r] = NewReplica] /\ restarts' = restarts + 1
      /\ restarts < MaxRestarts /\ UNCHANGED <<proposals, losses>>
      /\ reqs' \subseteq reqs /\ resps' \subseteq resps
  BY DEF Restart
<1>3. NewReplica \in Replica /\ RepInv(NewReplica, r, proposals) /\ NoneReady(NewReplica)
  BY <1>1, NewReplicaKeeps
<1>4. /\ rep' \in [Replicas -> Replica] /\ rep'[r] = NewReplica
      /\ \A q \in Replicas \ {r} : rep'[q] = rep[q]
  BY <1>1, <1>2, <1>3
<1>5. \A q \in Replicas : RepInv(rep'[q], q, proposals') /\ NoneReady(rep'[q])
  <2>1. proposals' = proposals
    BY <1>2
  <2> QED BY <1>1, <1>3, <1>4, <2>1
<1>6. restarts' \in 0..MaxRestarts /\ ~Steady'
  BY <1>1, <1>2, BoundsAssumption DEF Steady
<1>7. TypeOK'
  BY <1>2, <1>4, <1>6 DEF IInv, TypeOK
<1>8. GlobalInv'
  BY <1>2, <1>6 DEF IInv, GlobalInv
<1>9. Feed!Restart(r)
  <2>1. NewReplica.delivered = {b0}
    BY DEF NewReplica
  <2>2. seen' = [seen EXCEPT ![r] = {b0}]
    BY <1>4, <2>1 DEF seen
  <2> QED BY <1>2, <2>2 DEF Feed!Restart, Feed!b0, b0
<1> QED BY <1>5, <1>7, <1>8, <1>9 DEF IInv, Feed!Next

LEMMA InitIInv == Init => IInv /\ Feed!Init
<1> SUFFICES ASSUME Init
             PROVE  IInv /\ Feed!Init
  OBVIOUS
<1>1. /\ rep = [r \in Replicas |-> NewReplica] /\ proposals = {}
      /\ reqs = {} /\ resps = {} /\ losses = 0 /\ restarts = 0
  BY DEF Init
<1>2. \A r \in Replicas : /\ rep[r] \in Replica
                          /\ RepInv(rep[r], r, proposals) /\ NoneReady(rep[r])
  BY <1>1, NewReplicaKeeps
<1>3. TypeOK
  BY <1>1, <1>2, BoundsAssumption DEF TypeOK
<1>4. GlobalInv
  BY <1>1 DEF GlobalInv, NewReplica
<1>5. Feed!Init
  BY <1>1 DEF Feed!Init, seen, NewReplica, Feed!b0, b0
<1> QED BY <1>2, <1>3, <1>4, <1>5 DEF IInv

LEMMA NextIInv == IInv /\ [Next]_vars => IInv' /\ [Feed!Next]_feed
<1> SUFFICES ASSUME IInv, [Next]_vars
             PROVE  IInv' /\ [Feed!Next]_feed
  OBVIOUS
<1>1. proposals \in SUBSET Blocks
  BY DEF IInv, TypeOK
<1>2. CASE \E r \in Replicas, b \in Blocks : Propose(r, b)
  BY <1>2, ProposeStep
<1>3. CASE \E r \in Replicas, b \in proposals : ReceiveProposal(r, b)
  BY <1>3, ReceiveProposalStep
<1>4. CASE \E r, v \in Replicas, b \in proposals : ReceiveVote(r, v, b)
  BY <1>4, ReceiveVoteStep
<1>5. CASE \E m \in resps : ReceiveResp(m)
  BY <1>5, ReceiveRespStep
<1>6. CASE \E r \in Replicas, b \in Blocks : Verified(r, b)
  BY <1>6, VerifiedStep
<1>7. CASE \/ \E m \in reqs : ReceiveReq(m)
           \/ \E r \in Replicas, b \in Blocks : Timeout(r, b)
           \/ \E m \in reqs \cup resps : Lose(m)
  BY <1>7, MessageStep
<1>8. CASE \E r \in Replicas : Restart(r)
  BY <1>8, RestartStep
<1>9. CASE UNCHANGED vars
  <2>1. /\ rep' = rep /\ proposals' = proposals /\ reqs' = reqs /\ resps' = resps
        /\ losses' = losses /\ restarts' = restarts
    BY <1>9 DEF vars
  <2>2. TypeOK'
    BY <2>1 DEF IInv, TypeOK
  <2>3. GlobalInv'
    BY <2>1 DEF IInv, GlobalInv, Steady
  <2>4. \A r \in Replicas : RepInv(rep'[r], r, proposals') /\ NoneReady(rep'[r])
    BY <2>1 DEF IInv
  <2> QED BY <2>1, <2>2, <2>3, <2>4 DEF IInv, feed, seen
<1> QED BY <1>2, <1>3, <1>4, <1>5, <1>6, <1>7, <1>8, <1>9 DEF Next

-----------------------------------------------------------------------------
(***************************************************************************)
(* The theorems.                                                           *)
(***************************************************************************)

\* Through losses, restarts and any order of proposals, votes, answers,
\* timeouts and verifications, the tables of the replicas stay consistent.
THEOREM DeliveryInvariance == Spec => []IInv
<1>1. Init => IInv
  BY InitIInv
<1>2. IInv /\ [Next]_vars => IInv'
  BY NextIInv
<1> QED BY <1>1, <1>2, PTL DEF Spec

\* The assertion of on_deliver_blk never fails: a block is delivered after its
\* parent (hotstuff.cpp:103).
THEOREM ParentsFirstHolds == Spec => []ParentsFirst
<1>1. IInv => ParentsFirst
  <2> SUFFICES ASSUME IInv, NEW r \in Replicas, NEW b \in rep[r].delivered \ {b0}
               PROVE  b \in rep[r].store /\ Parent(b) \in rep[r].delivered
    BY DEF ParentsFirst
  <2>1. RepInv(rep[r], r, proposals) /\ rep[r] \in Replica
    BY DEF IInv, TypeOK
  <2>2. b \in Blocks /\ Branch(b) \subseteq rep[r].delivered /\ b \in rep[r].store
    BY <2>1 DEF RepInv, Replica, Block
  <2> QED BY <2>2, BlockFacts
<1> QED BY <1>1, DeliveryInvariance, PTL

\* No block above a certificate that does not verify is delivered, but to the
\* replica that made it.
THEOREM InvalidStaysOutHolds == Spec => []InvalidStaysOut
<1>1. IInv => InvalidStaysOut
  BY DEF IInv, RepInv, InvalidStaysOut
<1> QED BY <1>1, DeliveryInvariance, PTL

\* Whatever a pending delivery waits for is under way, and no delivery is
\* forgotten once nothing is missing.
THEOREM WaitsAreBackedHolds == Spec => []WaitsAreBacked
<1>1. IInv => WaitsAreBacked
  BY DEF IInv, RepInv, WaitsAreBacked
<1> QED BY <1>1, DeliveryInvariance, PTL

\* As long as nobody restarts, only replicas that hold a block are asked for it.
THEOREM AskedHasItHolds == Spec => []AskedHasIt
<1>1. IInv => AskedHasIt
  <2> SUFFICES ASSUME IInv, Steady, NEW r \in Replicas, NEW e \in rep[r].asked
               PROVE  e[1] \in rep[e[2]].store
    BY DEF AskedHasIt
  <2>1. rep[r] \in Replica /\ Branch(e[1]) \subseteq rep[e[2]].store
    BY DEF IInv, TypeOK, GlobalInv
  <2>2. e[1] \in Tree
    BY <2>1, BlockFacts DEF Replica, Block
  <2> QED BY <2>1, <2>2, BranchFacts
<1> QED BY <1>1, DeliveryInvariance, PTL

\* Fetching and delivery implement what consensus is promised about blocks.
THEOREM FeedImplemented == Spec => ImplementsFeed
<1>1. Init => Feed!Init
  BY InitIInv
<1>2. IInv /\ [Next]_vars => [Feed!Next]_feed
  BY NextIInv
<1> QED BY <1>1, <1>2, DeliveryInvariance, PTL DEF Spec, ImplementsFeed, Feed!Spec, feed
=============================================================================
