--------------------------- MODULE DavNamespaceProofs ---------------------------
(***************************************************************************)
(* Proofs about DavNamespace, for any tree, any number of requests and any  *)
(* contents:                                                                *)
(*                                                                         *)
(*   Invariance          a transaction finds the request as its checks left *)
(*                       it, and a table of whole records;                  *)
(*   OverwritesRefused   Overwrite: F replaces nothing;                     *)
(*   RowsStayWhole       metadata and chunks of a key stay together;        *)
(*   ImplementsTree      DavNamespace implements Tree.                      *)
(*                                                                         *)
(* The last two are for a bucket that is Plain: no two names that differ in *)
(* case only, and no collection copied or moved onto one of its ancestors.  *)
(* The code has neither condition: without them RowsWhole, MoveArrives and  *)
(* DeleteStaysBelow fail.                                                   *)
(*                                                                         *)
(* The heart is TargetApart: between two places of which none lies below    *)
(* the other, nothing is copied over a row that is still to be copied, so   *)
(* that the loop over a listing does what one simultaneous copy does        *)
(* (CopiedAtOnce).  Induction over the rounds of the loop is the choice of  *)
(* the first round that went wrong (Rounds), and paths are compared name by *)
(* name (UnderPoints).                                                      *)
(***************************************************************************)
EXTENDS DavNamespace, SequenceTheorems, FiniteSetTheorems, FunctionTheorems, WellFoundedInduction, TLAPS

(***************************************************************************)
(* Loops                                                                   *)
(***************************************************************************)

\* A set of naturals has a least element, unless it is empty.
LEMMA LeastNatural ==
  ASSUME NEW T \in SUBSET Nat, T # {}
  PROVE  \E x \in T : \A y \in T : x <= y
<1>1. PICK x \in T : \A y \in T : ~(<<y, x>> \in OpToRel(<,Nat))
  BY NatLessThanWellFounded, WFMin, Zenon
<1>2. ASSUME NEW y \in T PROVE x <= y
  <2>1. <<y, x>> \notin OpToRel(<,Nat)
    BY <1>1
  <2>2. ~(y < x)
    BY <2>1 DEF OpToRel
  <2> QED BY <2>2
<1> QED BY <1>2

\* Induction over the rounds of a loop, for any set of rounds that turned out well.
LEMMA Rounds ==
  ASSUME NEW n \in Nat, NEW S, 0 \in S, \A i \in 1..n : i - 1 \in S => i \in S
  PROVE  0..n \subseteq S
<1>1. SUFFICES ASSUME (0..n) \ S # {} PROVE FALSE
  OBVIOUS
<1>2. PICK i \in (0..n) \ S : \A j \in (0..n) \ S : i <= j
  <2> (0..n) \ S \in SUBSET Nat OBVIOUS
  <2> QED BY <1>1, LeastNatural
<1>3. i \in 1..n /\ i - 1 \in 0..n /\ i - 1 \in S
  BY <1>2
<1> QED BY <1>2, <1>3

\* f[i] is what a loop has made of base in its first i rounds.
Loop(f, n, V, base, g) == f \in [0..n -> V] /\ f[0] = base /\ \A i \in 1..n : f[i] = g[<<f[i - 1], i>>]

\* A loop has a value after each of its rounds.
LEMMA LoopDefined ==
  ASSUME NEW n \in Nat, NEW V, NEW base \in V, NEW g \in [V \X (1..n) -> V]
  PROVE  \E f : Loop(f, n, V, base, g)
<1> DEFINE Good(f, m) == f[0] = base /\ \A i \in 1..m : f[i] = g[<<f[i - 1], i>>]
           Defined == {m \in 0..n : \E f \in [0..m -> V] : Good(f, m)}
<1>1. 0 \in Defined
  <2> DEFINE f == [i \in 0..0 |-> base]
  <2>1. f \in [0..0 -> V] /\ Good(f, 0)
    OBVIOUS
  <2> HIDE DEF f, Good
  <2>2. \E h \in [0..0 -> V] : Good(h, 0)
    BY <2>1
  <2> QED BY <2>2
<1>2. ASSUME NEW m \in 1..n, m - 1 \in Defined PROVE m \in Defined
  <2>1. PICK f \in [0..(m - 1) -> V] : Good(f, m - 1)
    BY <1>2
  <2> DEFINE more == [i \in 0..m |-> IF i = m THEN g[<<f[m - 1], m>>] ELSE f[i]]
  <2>2. more \in [0..m -> V]
    OBVIOUS
  <2>3. more[m] = g[<<f[m - 1], m>>] /\ \A i \in 0..(m - 1) : more[i] = f[i]
    OBVIOUS
  <2>4. Good(more, m)
    <3> HIDE DEF more
    <3>1. more[0] = base
      BY <2>1, <2>3
    <3>2. ASSUME NEW i \in 1..m PROVE more[i] = g[<<more[i - 1], i>>]
      <4>1. more[i - 1] = f[i - 1]
        BY <2>3
      <4>2. CASE i = m
        BY <2>3, <4>1, <4>2
      <4>3. CASE i # m
        <5>1. i \in 1..(m - 1)
          BY <4>3
        <5>2. more[i] = f[i]
          BY <2>3, <5>1
        <5> QED BY <2>1, <4>1, <5>1, <5>2
      <4> QED BY <4>2, <4>3
    <3> QED BY <3>1, <3>2
  <2> HIDE DEF more, Good
  <2>5. \E h \in [0..m -> V] : Good(h, m)
    BY <2>2, <2>4
  <2> QED BY <2>5
<1>3. n \in Defined
  <2> HIDE DEF Defined
  <2>1. 0..n \subseteq Defined
    BY <1>1, <1>2, Rounds
  <2> QED BY <2>1
<1> QED BY <1>3 DEF Loop

(***************************************************************************)
(* Paths                                                                   *)
(***************************************************************************)

Names == DOMAIN Fold

\* Places are paths of names.
LEMMA PlaceType ==
  ASSUME NEW p \in Places
  PROVE  /\ p \in Seq(Names) /\ p \in Seq(Nat)
         /\ Len(p) \in Nat /\ Len(p) > 0
         /\ \A i \in 1..Len(p) : p[i] \in Names /\ p[i] \in Nat /\ p[i] # 0
<1>1. p \in Seq(Names) /\ p # <<>>
  <2>1. CASE p \in Files
    BY <2>1, FoldAssumption DEF Names
  <2>2. CASE p \in Collections
    <3>1. PICK f \in Files : p \in Prefixes(f) \ {<<>>, f}
      BY <2>2 DEF Collections
    <3>2. PICK n \in 0..Len(f) : p = SubSeq(f, 1, n)
      BY <3>1 DEF Prefixes
    <3>3. f \in Seq(Names) /\ Len(f) \in Nat
      BY FoldAssumption DEF Names
    <3>4. p \in Seq(Names)
      BY <3>2, <3>3, SubSeqProperties
    <3> QED BY <3>1, <3>4
  <2> QED BY <2>1, <2>2 DEF Places
<1>2. Names \subseteq Nat /\ 0 \notin Names
  BY FoldAssumption DEF Names
<1>3. p \in Seq(Nat)
  BY <1>1, <1>2, SeqMonotonic
<1>4. Len(p) \in Nat /\ Len(p) > 0
  BY <1>1
<1>5. \A i \in 1..Len(p) : p[i] \in Names
  BY <1>1
<1> QED BY <1>1, <1>2, <1>3, <1>4, <1>5

\* A marker is the path of a collection and an empty name.
LEMMA MarkerType ==
  ASSUME NEW k \in Markers
  PROVE  \E p \in Collections : /\ k = Append(p, 0) /\ k \in Seq(Nat)
                                /\ Len(k) = Len(p) + 1 /\ k[Len(k)] = 0
                                /\ \A i \in 1..Len(p) : k[i] = p[i]
                                /\ SubSeq(k, 1, Len(p)) = p
<1>1. PICK p \in Collections : k = Append(p, 0)
  BY DEF Markers
<1>2. p \in Seq(Nat) /\ Len(p) \in Nat
  BY PlaceType DEF Places
<1>3. k \in Seq(Nat) /\ Len(k) = Len(p) + 1 /\ k[Len(k)] = 0 /\ \A i \in 1..Len(p) : k[i] = p[i]
  BY <1>1, <1>2
<1>4. SubSeq(k, 1, Len(p)) = p
  <2>1. SubSeq(k, 1, Len(p)) \in Seq(Nat) /\ Len(SubSeq(k, 1, Len(p))) = Len(p)
    BY <1>2, <1>3
  <2>2. \A i \in 1..Len(p) : SubSeq(k, 1, Len(p))[i] = p[i]
    BY <1>2, <1>3
  <2> QED BY <1>2, <2>1, <2>2, SeqEqual
<1> QED BY <1>1, <1>3, <1>4

\* Keys are paths whose last name alone may be empty.
LEMMA KeyType ==
  ASSUME NEW k \in Keys
  PROVE  /\ k \in Seq(Nat) /\ Len(k) \in Nat /\ Len(k) > 0
         /\ \A i \in 1..Len(k) : k[i] \in Nat /\ (i < Len(k) => k[i] \in Names)
<1>1. CASE k \in Files
  BY <1>1, PlaceType DEF Places
<1>2. CASE k \in Markers
  <2>1. PICK p \in Collections : /\ k \in Seq(Nat)
                                 /\ Len(k) = Len(p) + 1 /\ k[Len(k)] = 0
                                 /\ \A i \in 1..Len(p) : k[i] = p[i]
    BY <1>2, MarkerType
  <2>2. Len(p) \in Nat /\ \A i \in 1..Len(p) : p[i] \in Names
    BY PlaceType DEF Places
  <2>3. \A i \in 1..Len(k) : i < Len(k) => i \in 1..Len(p)
    BY <2>1, <2>2
  <2> QED BY <2>1, <2>2, <2>3
<1> QED BY <1>1, <1>2 DEF Keys

\* A request that names a collection works on the place of a key.
LEMMA CollType ==
  ASSUME NEW k \in Keys
  PROVE  /\ Coll(k) \in Places
         /\ k \in Markers => Append(Coll(k), 0) = k
         /\ \E n \in 1..Len(k) : Coll(k) = SubSeq(k, 1, n)
<1>1. CASE k \in Files
  <2>1. k \in Seq(Nat) /\ Len(k) \in Nat /\ Len(k) > 0 /\ k[Len(k)] # 0
    BY <1>1, PlaceType DEF Places
  <2>2. Coll(k) = k
    BY <2>1 DEF Coll, Last
  <2>3. k = SubSeq(k, 1, Len(k))
    BY <2>1, SubSeqFull
  <2>4. k \notin Markers
    BY <2>1, MarkerType
  <2>5. Len(k) \in 1..Len(k) /\ Coll(k) = SubSeq(k, 1, Len(k)) /\ Coll(k) \in Places
    BY <1>1, <2>1, <2>2, <2>3 DEF Places
  <2> QED BY <2>4, <2>5, Zenon
<1>2. CASE k \in Markers
  <2>1. PICK p \in Collections : /\ k = Append(p, 0) /\ k \in Seq(Nat)
                                 /\ Len(k) = Len(p) + 1 /\ k[Len(k)] = 0
                                 /\ SubSeq(k, 1, Len(p)) = p
    BY <1>2, MarkerType
  <2>2. Len(p) \in Nat /\ Len(p) > 0
    BY PlaceType DEF Places
  <2>3. Coll(k) = p
    BY <2>1, <2>2 DEF Coll, Last, Front
  <2>4. Len(p) \in 1..Len(k) /\ Coll(k) = SubSeq(k, 1, Len(p))
    BY <2>1, <2>2, <2>3
  <2>5. Coll(k) \in Places /\ Append(Coll(k), 0) = k
    BY <2>1, <2>3 DEF Places
  <2> QED BY <2>4, <2>5
<1> QED BY <1>1, <1>2 DEF Keys

\* Under, name by name.
LEMMA UnderPoints ==
  ASSUME NEW p \in Seq(Nat), NEW k \in Seq(Nat)
  PROVE  Under(p, k) <=> Len(p) < Len(k) /\ \A i \in 1..Len(p) : k[i] = p[i]
<1>1. CASE Len(p) < Len(k)
  <2>1. Len(p) \in Nat /\ Len(k) \in Nat
    OBVIOUS
  <2> DEFINE q == SubSeq(k, 1, Len(p))
  <2>2. q \in Seq(Nat) /\ Len(q) = Len(p) /\ \A i \in 1..Len(p) : q[i] = k[i]
    BY <1>1, <2>1
  <2>3. q = p <=> \A i \in 1..Len(p) : q[i] = p[i]
    <3> HIDE DEF q
    <3> QED BY <2>1, <2>2, SeqEqual
  <2> QED BY <1>1, <2>2, <2>3 DEF Under
<1>2. CASE ~(Len(p) < Len(k))
  BY <1>2 DEF Under
<1> QED BY <1>1, <1>2

\* Two places of one key are the same or one lies under the other.
LEMMA CommonKey ==
  ASSUME NEW p \in Seq(Nat), NEW q \in Seq(Nat), NEW k \in Seq(Nat), Under(p, k), Under(q, k)
  PROVE  p = q \/ Under(p, q) \/ Under(q, p)
<1>1. Len(p) \in Nat /\ Len(q) \in Nat /\ Len(k) \in Nat
  OBVIOUS
<1>2. \A i \in 1..Len(p) : k[i] = p[i]
  BY UnderPoints
<1>3. \A i \in 1..Len(q) : k[i] = q[i]
  BY UnderPoints
<1>4. CASE Len(p) < Len(q)
  BY <1>1, <1>2, <1>3, <1>4, UnderPoints
<1>5. CASE Len(q) < Len(p)
  BY <1>1, <1>2, <1>3, <1>5, UnderPoints
<1>6. CASE Len(p) = Len(q)
  <2>1. \A i \in 1..Len(p) : p[i] = q[i]
    BY <1>1, <1>2, <1>3, <1>6
  <2> QED BY <1>6, <2>1, SeqEqual
<1> QED BY <1>1, <1>4, <1>5, <1>6

\* Without two names that differ in case only, LIKE matches what lies under the prefix.
LEMMA LikeIsUnder ==
  ASSUME IsInjective(Fold), NEW p \in Places, NEW k \in Keys
  PROVE  Like(p, k) <=> Under(p, k)
<1>1. /\ p \in Seq(Nat) /\ Len(p) \in Nat
      /\ \A i \in 1..Len(p) : p[i] \in Names /\ p[i] # 0
  BY PlaceType
<1>2. /\ k \in Seq(Nat) /\ Len(k) \in Nat
      /\ \A i \in 1..Len(k) : i < Len(k) => k[i] \in Names
  BY KeyType
<1>3. \A a \in Names : a # 0
  BY FoldAssumption DEF Names
<1>4. CASE Len(p) < Len(k)
  <2> DEFINE q == SubSeq(k, 1, Len(p))
  <2>0. \A i \in 1..Len(p) : i \in 1..Len(k) /\ i < Len(k)
    BY <1>1, <1>2, <1>4
  <2>1. q \in Seq(Nat) /\ Len(q) = Len(p) /\ \A i \in 1..Len(p) : q[i] = k[i] /\ q[i] \in Names
    <3>1. q \in Seq(Nat) /\ Len(q) = Len(p) /\ \A i \in 1..Len(p) : q[i] = k[i]
      BY <1>1, <1>2, <1>4
    <3>2. \A i \in 1..Len(p) : k[i] \in Names
      BY <1>2, <2>0
    <3> QED BY <3>1, <3>2
  <2> HIDE DEF q
  <2>2. Folded(q) = [i \in 1..Len(p) |-> Fold[q[i]]]
    BY <1>3, <2>1 DEF Folded
  <2>3. Folded(p) = [i \in 1..Len(p) |-> Fold[p[i]]]
    BY <1>1 DEF Folded
  <2>4. ASSUME Folded(q) = Folded(p) PROVE q = p
    <3>1. ASSUME NEW i \in 1..Len(p) PROVE q[i] = p[i]
      <4>1. Folded(q)[i] = Fold[q[i]] /\ Folded(p)[i] = Fold[p[i]]
        BY <2>2, <2>3
      <4>2. Fold[q[i]] = Fold[p[i]] /\ q[i] \in DOMAIN Fold /\ p[i] \in DOMAIN Fold
        BY <1>1, <2>1, <2>4, <4>1 DEF Names
      <4> QED BY <4>2 DEF IsInjective
    <3> QED BY <1>1, <2>1, <3>1, SeqEqual
  <2> QED BY <1>4, <2>4 DEF Like, Under, q
<1>5. CASE ~(Len(p) < Len(k))
  BY <1>5 DEF Like, Under
<1> QED BY <1>4, <1>5

(***************************************************************************)
(* Where a copy goes                                                       *)
(***************************************************************************)

\* What of a key comes below a prefix goes below the other.
LEMMA TargetType ==
  ASSUME NEW src \in Places, NEW dst \in Places, NEW k \in Keys, Under(src, k)
  PROVE  LET t == Target(src, dst, k) IN
         /\ t = dst \o SubSeq(k, Len(src) + 1, Len(k))
         /\ t \in Seq(Nat) /\ Len(t) = Len(dst) + (Len(k) - Len(src))
         /\ \A i \in 1..Len(dst) : t[i] = dst[i]
         /\ \A i \in 1..(Len(k) - Len(src)) : t[Len(dst) + i] = k[Len(src) + i]
<1>1. src \in Seq(Nat) /\ dst \in Seq(Nat) /\ k \in Seq(Nat)
  BY PlaceType, KeyType
<1>2. Len(src) \in Nat /\ Len(dst) \in Nat /\ Len(k) \in Nat /\ Len(src) < Len(k)
  BY <1>1 DEF Under
<1> DEFINE rest == SubSeq(k, Len(src) + 1, Len(k))
<1>3. rest \in Seq(Nat) /\ Len(rest) = Len(k) - Len(src)
  BY <1>1, <1>2
<1>4. \A i \in 1..(Len(k) - Len(src)) : rest[i] = k[Len(src) + i]
  BY <1>1, <1>2
<1>5. Target(src, dst, k) = dst \o rest
  BY DEF Target
<1> HIDE DEF rest
<1>6. /\ dst \o rest \in Seq(Nat) /\ Len(dst \o rest) = Len(dst) + Len(rest)
      /\ \A i \in 1..Len(dst) + Len(rest) : (dst \o rest)[i] = IF i <= Len(dst) THEN dst[i] ELSE rest[i - Len(dst)]
  BY <1>1, <1>3, ConcatProperties
<1> DEFINE t == Target(src, dst, k)
<1>7. /\ t \in Seq(Nat) /\ Len(t) = Len(dst) + Len(rest)
      /\ \A i \in 1..Len(dst) + Len(rest) : t[i] = IF i <= Len(dst) THEN dst[i] ELSE rest[i - Len(dst)]
  BY <1>5, <1>6
<1> HIDE DEF t
<1>8. ASSUME NEW i \in 1..Len(dst) PROVE t[i] = dst[i]
  <2>1. i \in 1..Len(dst) + Len(rest) /\ i <= Len(dst)
    BY <1>2, <1>3
  <2> QED BY <1>7, <2>1
<1>9. ASSUME NEW i \in 1..(Len(k) - Len(src)) PROVE t[Len(dst) + i] = k[Len(src) + i]
  <2>1. Len(dst) + i \in 1..Len(dst) + Len(rest) /\ ~(Len(dst) + i <= Len(dst)) /\ (Len(dst) + i) - Len(dst) = i
    BY <1>2, <1>3
  <2>2. t[Len(dst) + i] = rest[i]
    BY <1>7, <2>1
  <2> QED BY <1>4, <2>2
<1> QED BY <1>3, <1>5, <1>7, <1>8, <1>9 DEF t, rest

\* Two keys never go to one place.
LEMMA TargetInjective ==
  ASSUME NEW src \in Places, NEW dst \in Places, NEW j \in Keys, NEW k \in Keys,
         Under(src, j), Under(src, k), Target(src, dst, j) = Target(src, dst, k)
  PROVE  j = k
<1>1. src \in Seq(Nat) /\ dst \in Seq(Nat) /\ j \in Seq(Nat) /\ k \in Seq(Nat)
  BY PlaceType, KeyType
<1>2. Len(src) \in Nat /\ Len(dst) \in Nat /\ Len(j) \in Nat /\ Len(k) \in Nat
  BY <1>1
<1>3. Len(src) < Len(j) /\ Len(src) < Len(k) /\ \A i \in 1..Len(src) : j[i] = src[i] /\ k[i] = src[i]
  BY <1>1, UnderPoints
<1>4. Len(j) = Len(k)
  <2>1. Len(Target(src, dst, j)) = Len(dst) + (Len(j) - Len(src))
    BY TargetType
  <2>2. Len(Target(src, dst, k)) = Len(dst) + (Len(k) - Len(src))
    BY TargetType
  <2> QED BY <1>2, <2>1, <2>2
<1>5. ASSUME NEW i \in 1..(Len(k) - Len(src)) PROVE j[Len(src) + i] = k[Len(src) + i]
  <2>1. Target(src, dst, j)[Len(dst) + i] = j[Len(src) + i]
    BY <1>4, TargetType
  <2>2. Target(src, dst, k)[Len(dst) + i] = k[Len(src) + i]
    BY TargetType
  <2> QED BY <2>1, <2>2
<1>6. ASSUME NEW i \in 1..Len(k) PROVE j[i] = k[i]
  <2>1. CASE i <= Len(src)
    BY <1>2, <1>3, <2>1
  <2>2. CASE ~(i <= Len(src))
    <3>1. i - Len(src) \in 1..(Len(k) - Len(src)) /\ Len(src) + (i - Len(src)) = i
      BY <1>2, <2>2
    <3> QED BY <1>5, <3>1
  <2> QED BY <2>1, <2>2
<1> QED BY <1>1, <1>4, <1>6, SeqEqual

\* A copy to where it comes from goes nowhere.
LEMMA TargetSame ==
  ASSUME NEW src \in Places, NEW k \in Keys, Under(src, k)
  PROVE  Target(src, src, k) = k
<1>1. src \in Seq(Nat) /\ k \in Seq(Nat) /\ Len(src) \in Nat /\ Len(k) \in Nat
  BY PlaceType, KeyType
<1>2. Len(src) < Len(k) /\ \A i \in 1..Len(src) : k[i] = src[i]
  BY <1>1, UnderPoints
<1> DEFINE t == Target(src, src, k)
<1>3. /\ t \in Seq(Nat) /\ Len(t) = Len(src) + (Len(k) - Len(src))
      /\ \A i \in 1..Len(src) : t[i] = src[i]
      /\ \A i \in 1..(Len(k) - Len(src)) : t[Len(src) + i] = k[Len(src) + i]
  BY TargetType
<1> HIDE DEF t
<1>4. ASSUME NEW i \in 1..Len(k) PROVE t[i] = k[i]
  <2>1. CASE i <= Len(src)
    BY <1>1, <1>2, <1>3, <2>1
  <2>2. CASE ~(i <= Len(src))
    <3>1. i - Len(src) \in 1..(Len(k) - Len(src)) /\ Len(src) + (i - Len(src)) = i
      BY <1>1, <2>2
    <3> QED BY <1>3, <3>1
  <2> QED BY <2>1, <2>2
<1>5. Len(t) = Len(k)
  BY <1>1, <1>3
<1> QED BY <1>1, <1>3, <1>4, <1>5, SeqEqual DEF t

\* What is copied lies below the destination.
LEMMA TargetBelow ==
  ASSUME NEW src \in Places, NEW dst \in Places, NEW k \in Keys, Under(src, k)
  PROVE  Under(dst, Target(src, dst, k))
<1>1. src \in Seq(Nat) /\ dst \in Seq(Nat) /\ k \in Seq(Nat)
  BY PlaceType, KeyType
<1>2. Len(src) \in Nat /\ Len(dst) \in Nat /\ Len(k) \in Nat /\ Len(src) < Len(k)
  BY <1>1 DEF Under
<1> DEFINE t == Target(src, dst, k)
<1>3. /\ t \in Seq(Nat) /\ Len(t) = Len(dst) + (Len(k) - Len(src))
      /\ \A i \in 1..Len(dst) : t[i] = dst[i]
  BY TargetType
<1> HIDE DEF t
<1>4. Len(dst) < Len(t)
  BY <1>2, <1>3
<1> QED BY <1>1, <1>3, <1>4, UnderPoints DEF t

\* Two places none of which lies below the other.
Apart(p, q) == ~Under(p, q) /\ ~Under(q, p)

\* Nothing is copied over a row that is still to be copied.
LEMMA TargetApart ==
  ASSUME NEW src \in Places, NEW dst \in Places, Apart(src, dst), NEW j \in Keys, NEW k \in Keys,
         Under(src, j), Under(src, k), Target(src, dst, j) = k
  PROVE  src = dst /\ j = k
<1>1. Under(dst, k)
  BY TargetBelow
<1>2. src \in Seq(Nat) /\ dst \in Seq(Nat) /\ k \in Seq(Nat)
  BY PlaceType, KeyType
<1>3. src = dst
  BY <1>1, <1>2, CommonKey DEF Apart
<1> QED BY <1>3, TargetSame

(***************************************************************************)
(* The loop of copyPrefixInTx                                              *)
(***************************************************************************)

\* What the loop has made so far: a row that was there is there.
Copying == {copied \in [table : Table, clash : BOOLEAN] :
              IsFiniteSet(Rows(copied.table)) /\ \A k \in Rows(rows) : copied.table[k] # None}

\* A row written or removed leaves a table of finitely many rows.
LEMMA RowsFinite ==
  ASSUME NEW t \in Table, IsFiniteSet(Rows(t)), NEW k \in Keys, NEW r \in Row \cup {None},
         NEW u, u = [t EXCEPT ![k] = r]
  PROVE  u \in Table /\ IsFiniteSet(Rows(u))
<1>1. u \in Table /\ \A j \in Keys \ {k} : u[j] = t[j]
  BY DEF Table
<1>2. Rows(u) \subseteq Rows(t) \cup {k}
  BY <1>1 DEF Rows
<1>3. IsFiniteSet(Rows(t) \cup {k})
  BY FS_AddElement
<1>4. IsFiniteSet(Rows(u))
  BY <1>2, <1>3, FS_Subset
<1> QED BY <1>1, <1>4

\* What putObjectInTx stores: the metadata of one row with the chunks of another.
Paired(r, q) == [meta |-> r.meta, chunks |-> q.chunks]

\* No destination was there so far.
Clear(copied) == ~copied.clash

\* Rows have both parts, and what is not None is a row.
LEMMA RowType ==
  /\ None \notin Row
  /\ \A r \in Row : r = [meta |-> r.meta, chunks |-> r.chunks]
  /\ \A table \in Table : \A k \in Keys : table[k] # None => table[k] \in Row
<1>1. None \notin Row
  BY NoneAssumption
<1>2. \A r \in Row : r = [meta |-> r.meta, chunks |-> r.chunks]
  BY DEF Row
<1>3. \A table \in Table : \A k \in Keys : table[k] # None => table[k] \in Row
  BY DEF Table
<1> QED BY <1>1, <1>2, <1>3

\* One row more.
LEMMA CopyNextType ==
  ASSUME rows \in Table, NEW copied \in Copying, NEW k \in Rows(rows), NEW t \in Keys
  PROVE  LET more == CopyNext(copied, k, t) IN
         /\ more \in Copying
         /\ more.table[t] = Paired(rows[k], copied.table[k])
         /\ \A j \in Keys \ {t} : more.table[j] = copied.table[j]
         /\ Clear(more) => Clear(copied) /\ copied.table[t] = None
<1> DEFINE more == CopyNext(copied, k, t)
           new == Paired(rows[k], copied.table[k])
<1>1. k \in Keys /\ rows[k] \in Row
  BY RowType DEF Rows
<1>2. copied.table \in Table /\ copied.clash \in BOOLEAN
  BY DEF Copying
<1>3. copied.table[k] \in Row
  BY <1>1, <1>2, RowType DEF Copying
<1>4. new \in Row
  BY <1>1, <1>3 DEF Row, Paired
<1>5. more = [table |-> [copied.table EXCEPT ![t] = new], clash |-> copied.clash \/ copied.table[t] # None]
  BY DEF CopyNext, CopyRow, Paired
<1> HIDE DEF new, more
<1>6. more.table = [copied.table EXCEPT ![t] = new]
  BY <1>5
<1>7. more.table \in Table /\ more.table[t] = new /\ \A j \in Keys \ {t} : more.table[j] = copied.table[j]
  BY <1>2, <1>4, <1>6 DEF Table
<1>8. more.clash = (copied.clash \/ copied.table[t] # None)
  BY <1>5, Zenon
<1>9. (copied.clash \/ copied.table[t] # None) \in BOOLEAN
  BY Zenon
<1>10. more \in [table : Table, clash : BOOLEAN]
  <2>1. more.table \in Table
    BY <1>7
  <2>2. more.clash \in BOOLEAN
    BY <1>8, <1>9, Zenon
  <2>3. more = [table |-> more.table, clash |-> more.clash]
    BY <1>5, <1>6, <1>8, Zenon
  <2> DEFINE tt == more.table
             cc == more.clash
  <2>4. tt \in Table /\ cc \in BOOLEAN /\ more = [table |-> tt, clash |-> cc]
    BY <2>1, <2>2, <2>3, Zenon
  <2> HIDE DEF tt, cc
  <2> QED BY <2>4
<1>11. ASSUME NEW j \in Rows(rows) PROVE more.table[j] # None
  <2>1. j \in Keys /\ copied.table[j] # None
    BY <1>11 DEF Rows, Copying
  <2>2. CASE j = t
    BY <1>4, <1>7, <2>2, RowType
  <2>3. CASE j # t
    BY <1>7, <2>1, <2>3
  <2> QED BY <2>2, <2>3
<1>12. more \in Copying
  <2>1. IsFiniteSet(Rows(more.table))
    <3>1. new \in Row \cup {None} /\ IsFiniteSet(Rows(copied.table))
      BY <1>4 DEF Copying
    <3> QED BY <1>2, <1>6, <3>1, RowsFinite
  <2> QED BY <1>10, <1>11, <2>1 DEF Copying
<1>13. Clear(more) => Clear(copied) /\ copied.table[t] = None
  BY <1>8, Zenon DEF Clear
<1> QED BY <1>7, <1>12, <1>13 DEF new, more

\* The rounds of the loop over the first n rows of a listing.
Rounded(built, src, dst, listing, n) ==
  /\ built[0] = [table |-> rows, clash |-> FALSE]
  /\ built[n] = CopyPrefix(src, dst, listing)
  /\ \A i \in 0..n : built[i] \in Copying
  /\ \A i \in 1..n : built[i] = CopyNext(built[i - 1], listing[i], Target(src, dst, listing[i]))

Landing(src, dst, listing, n) == \A i \in 1..n : Target(src, dst, listing[i]) \in Keys

\* The loop, round by round.
LEMMA CopyPrefixBuilt ==
  ASSUME rows \in Table, IsFiniteSet(Rows(rows)), NEW src, NEW dst, NEW listing \in Seq(Rows(rows)), NEW n \in Nat, Len(listing) = n,
         Landing(src, dst, listing, n)
  PROVE  \E built : Rounded(built, src, dst, listing, n)
<1> DEFINE V == Copying
           start == [table |-> rows, clash |-> FALSE]
           step(c, i) == CopyNext(c, listing[i], Target(src, dst, listing[i]))
           g == [p \in V \X (1..n) |-> step(p[1], p[2])]
           Good(f) == f = [i \in 0..n |-> IF i = 0 THEN start ELSE step(f[i - 1], i)]
           built == CHOOSE f : Good(f)
<1>1. start \in V
  <2>1. start.table = rows
    OBVIOUS
  <2>2. start \in [table : Table, clash : BOOLEAN]
    OBVIOUS
  <2> QED BY <2>1, <2>2 DEF Copying, Rows
<1>2. ASSUME NEW c \in V, NEW i \in 1..n PROVE step(c, i) \in V
  <2>1. listing[i] \in Rows(rows) /\ Target(src, dst, listing[i]) \in Keys
    BY DEF Landing
  <2> QED BY <2>1, CopyNextType
<1> HIDE DEF V, step, start
<1>3. PICK f \in [0..n -> V] : f[0] = start /\ \A i \in 1..n : f[i] = g[<<f[i - 1], i>>]
  <2>1. g \in [V \X (1..n) -> V]
    BY <1>2
  <2> HIDE DEF g
  <2>2. PICK f : Loop(f, n, V, start, g)
    BY <1>1, <2>1, LoopDefined
  <2> QED BY <2>2 DEF Loop
<1>4. Good(f)
  <2>1. ASSUME NEW i \in 1..n PROVE f[i] = step(f[i - 1], i)
    <3>1. f[i - 1] \in V
      BY <1>3
    <3> QED BY <1>3, <3>1
  <2>2. \A i \in 0..n : f[i] = IF i = 0 THEN start ELSE step(f[i - 1], i)
    BY <1>3, <2>1
  <2> QED BY <1>3, <2>2
<1>5. Good(built)
  <2> HIDE DEF Good
  <2> QED BY <1>4
<1>6. CopyPrefix(src, dst, listing) = built[n]
  BY DEF CopyPrefix, start, step
<1> HIDE DEF built
<1>7. built[0] = start /\ \A i \in 1..n : built[i] = step(built[i - 1], i)
  <2>1. built = [i \in 0..n |-> IF i = 0 THEN start ELSE step(built[i - 1], i)]
    BY <1>5
  <2> HIDE DEF Good
  <2>2. \A i \in 0..n : built[i] = IF i = 0 THEN start ELSE step(built[i - 1], i)
    BY <2>1
  <2>3. 0 \in 0..n /\ \A i \in 1..n : i \in 0..n /\ i # 0
    OBVIOUS
  <2> QED BY <2>2, <2>3
<1>8. 0..n \subseteq {i \in 0..n : built[i] \in V}
  <2> DEFINE S == {i \in 0..n : built[i] \in V}
  <2>1. 0 \in S
    BY <1>1, <1>7
  <2>2. ASSUME NEW i \in 1..n, i - 1 \in S PROVE i \in S
    BY <1>2, <1>7, <2>2
  <2> HIDE DEF S
  <2>3. 0..n \subseteq S
    BY <2>1, <2>2, Rounds
  <2> QED BY <2>3 DEF S
<1>9. \A i \in 0..n : built[i] \in Copying
  BY <1>8 DEF V
<1>10. Rounded(built, src, dst, listing, n)
  BY <1>6, <1>7, <1>9 DEF start, step, Rounded
<1> QED BY <1>10

(***************************************************************************)
(* The loop, all at once                                                   *)
(***************************************************************************)

\* No key comes before itself.
LEMMA NotBeforeItself == \A k \in Keys : ~Before(k, k)
<1>1. ASSUME NEW k \in Keys PROVE ~Before(k, k)
  <2>1. \A i \in 1..Len(k) : k[i] \in Nat
    BY KeyType
  <2>2. \A i \in 1..Len(k) : ~(k[i] < k[i])
    BY <2>1
  <2> QED BY <2>2 DEF Before, IsStrictPrefix
<1> QED BY <1>1

\* A listing has the rows it lists, each of them.
LEMMA ListingType ==
  ASSUME NEW S \in SUBSET Keys, IsFiniteSet(S), NEW listing \in Listings(S)
  PROVE  /\ listing \in Seq(S) /\ Len(listing) \in Nat
         /\ \A k \in S : \E i \in 1..Len(listing) : listing[i] = k
<1> DEFINE n == Cardinality(S)
<1>1. n \in Nat
  BY FS_CardinalityType
<1>2. listing \in [1..n -> S] /\ \A i, j \in 1..n : i < j => Before(listing[i], listing[j])
  BY DEF Listings
<1>3. IsFiniteSet(1..n) /\ Cardinality(1..n) = n
  <2>1. Cardinality(1..n) = IF 1 > n THEN 0 ELSE n - 1 + 1
    BY <1>1, FS_Interval
  <2>2. Cardinality(1..n) = n
    BY <1>1, <2>1
  <2> QED BY <1>1, <2>2, FS_Interval
<1> HIDE DEF n
<1>4. listing \in Seq(S) /\ Len(listing) = n
  BY <1>1, <1>2
<1>5. \A k \in Keys : ~Before(k, k)
  BY NotBeforeItself
<1>6. \A i, j \in 1..n : listing[i] = listing[j] => i = j
  <2>1. SUFFICES ASSUME NEW i \in 1..n, NEW j \in 1..n, listing[i] = listing[j], i < j PROVE FALSE
    BY <1>1
  <2>2. Before(listing[i], listing[j]) /\ listing[i] \in Keys
    BY <1>2, <2>1
  <2> QED BY <1>5, <2>1, <2>2
<1>7. listing \in Injection(1..n, S)
  BY <1>2, <1>6 DEF Injection, IsInjective
<1>8. listing \in Surjection(1..n, S)
  BY <1>3, <1>7, FS_Injection DEF n
<1>9. \A k \in S : \E i \in 1..n : listing[i] = k
  BY <1>8 DEF Surjection
<1> QED BY <1>1, <1>4, <1>9

\* Where nothing is overwritten, every row that was there stays as it was.
LEMMA ClashSeen ==
  ASSUME rows \in Table, IsFiniteSet(Rows(rows)), NEW src \in Places, NEW dst \in Places, Fits(src, dst),
         NEW listing \in Listings(Matching(rows, src))
  PROVE  LET copied == CopyPrefix(src, dst, listing) IN
         /\ copied \in Copying
         /\ Clear(copied) => \A k \in Rows(rows) : copied.table[k] = rows[k]
<1>1. listing \in Seq(Matching(rows, src)) /\ Len(listing) \in Nat
  <2>1. Matching(rows, src) \in SUBSET Keys /\ IsFiniteSet(Matching(rows, src))
    BY FS_Subset DEF Matching, Rows
  <2> QED BY <2>1, ListingType
<1>0. PICK n \in Nat : Len(listing) = n
  BY <1>1
<1>2. listing \in Seq(Rows(rows)) /\ \A i \in 1..n : listing[i] \in Matching(rows, src)
  BY <1>0, <1>1 DEF Matching
<1>3. \A i \in 1..n : Target(src, dst, listing[i]) \in Keys
  BY <1>2 DEF Fits
<1>r. PICK built : Rounded(built, src, dst, listing, n)
  BY <1>0, <1>2, <1>3, CopyPrefixBuilt DEF Landing
<1>4. /\ built[0] = [table |-> rows, clash |-> FALSE]
      /\ built[n] = CopyPrefix(src, dst, listing)
      /\ \A i \in 0..n : built[i] \in Copying
      /\ \A i \in 1..n : built[i] = CopyNext(built[i - 1], listing[i], Target(src, dst, listing[i]))
  BY <1>r DEF Rounded
<1> DEFINE Right(i) == Clear(built[i]) => \A k \in Rows(rows) : built[i].table[k] = rows[k]
           S == {i \in 0..n : Right(i)}
<1>5. 0 \in S
  BY <1>4
<1>6. ASSUME NEW i \in 1..n, i - 1 \in S PROVE i \in S
  <2> DEFINE k == listing[i]
             t == Target(src, dst, k)
             old == built[i - 1]
  <2>1. old \in Copying /\ k \in Rows(rows) /\ t \in Keys
    <3>1. i - 1 \in 0..n
      OBVIOUS
    <3>2. k \in Rows(rows) /\ t \in Keys
      BY <1>0, <1>2, <1>3
    <3> QED BY <1>4, <3>1, <3>2
  <2>2. built[i] = CopyNext(old, k, t)
    BY <1>4
  <2>3. Right(i - 1)
    BY <1>6
  <2> HIDE DEF k, t, old
  <2>4. /\ \A j \in Keys \ {t} : built[i].table[j] = old.table[j]
        /\ Clear(built[i]) => Clear(old) /\ old.table[t] = None
    <3>1. rows \in Table
      OBVIOUS
    <3> QED BY <2>1, <2>2, <3>1, CopyNextType
  <2>5. CASE ~Clear(built[i])
    BY <2>5
  <2>6. CASE Clear(built[i])
    <3>1. t \notin Rows(rows)
      BY <2>1, <2>4, <2>6 DEF Copying
    <3>2. ASSUME NEW j \in Rows(rows) PROVE built[i].table[j] = rows[j]
      <4>1. j \in Keys \ {t}
        BY <3>1 DEF Rows
      <4> QED BY <2>3, <2>4, <2>6, <4>1 DEF old
    <3> QED BY <3>2
  <2> QED BY <2>5, <2>6
<1> HIDE DEF S
<1>7. n \in S
  <2>1. 0..n \subseteq S
    BY <1>5, <1>6, Rounds
  <2> QED BY <2>1
<1>8. CopyPrefix(src, dst, listing) \in Copying
  BY <1>1, <1>4
<1> QED BY <1>4, <1>7, <1>8 DEF S

\* One after the other, the rows go to their places as they were, and nothing
\* else changes: between two places that are apart, and without two names that
\* differ in case only.
LEMMA CopiedAtOnce ==
  ASSUME IsInjective(Fold), rows \in Table, RowsWhole, IsFiniteSet(Rows(rows)),
         NEW src \in Places, NEW dst \in Places, Apart(src, dst), Fits(src, dst),
         NEW listing \in Listings(Matching(rows, src))
  PROVE  LET table == CopyPrefix(src, dst, listing).table IN
         /\ table \in Table
         /\ \A k \in Matching(rows, src) : table[Target(src, dst, k)] = rows[k]
         /\ \A k \in Keys : (\A j \in Matching(rows, src) : Target(src, dst, j) # k) => table[k] = rows[k]
<1>1. /\ listing \in Seq(Matching(rows, src)) /\ Len(listing) \in Nat
      /\ \A k \in Matching(rows, src) : \E i \in 1..Len(listing) : listing[i] = k
  <2>1. Matching(rows, src) \in SUBSET Keys /\ IsFiniteSet(Matching(rows, src))
    BY FS_Subset DEF Matching, Rows
  <2> QED BY <2>1, ListingType
<1>0. PICK n \in Nat : Len(listing) = n
  BY <1>1
<1> DEFINE t(k) == Target(src, dst, k)
<1>2. /\ listing \in Seq(Rows(rows))
      /\ \A i \in 1..n : listing[i] \in Matching(rows, src) /\ listing[i] \in Rows(rows) /\ listing[i] \in Keys
  BY <1>0, <1>1 DEF Matching, Rows
<1>3. \A i \in 1..n : t(listing[i]) \in Keys
  BY <1>2 DEF Fits
<1>r. PICK built : Rounded(built, src, dst, listing, n)
  BY <1>0, <1>2, <1>3, CopyPrefixBuilt DEF Landing
<1>4. /\ built[0] = [table |-> rows, clash |-> FALSE]
      /\ built[n] = CopyPrefix(src, dst, listing)
      /\ \A i \in 0..n : built[i] \in Copying
      /\ \A i \in 1..n : built[i] = CopyNext(built[i - 1], listing[i], Target(src, dst, listing[i]))
  BY <1>r DEF Rounded
<1>5. \A k \in Matching(rows, src) : k \in Keys /\ Under(src, k)
  <2>1. ASSUME NEW k \in Matching(rows, src) PROVE k \in Keys /\ Under(src, k)
    <3>1. k \in Keys /\ Like(src, k)
      BY DEF Matching, Matched, Places
    <3> QED BY <3>1, LikeIsUnder
  <2> QED BY <2>1
<1>6. \A i \in 1..n : Under(src, listing[i])
  BY <1>2, <1>5
<1> DEFINE Moved(i) == \A j \in 1..i : built[i].table[t(listing[j])] = rows[listing[j]]
           Others(i) == \A k \in Keys : (\A j \in 1..i : t(listing[j]) # k) => built[i].table[k] = rows[k]
           S == {i \in 0..n : Moved(i) /\ Others(i)}
<1> HIDE DEF t
<1>7. 0 \in S
  BY <1>1, <1>4
<1>8. ASSUME NEW i \in 1..n, i - 1 \in S PROVE i \in S
  <2> DEFINE k == listing[i]
             old == built[i - 1]
  <2>1. old \in Copying /\ k \in Rows(rows) /\ k \in Keys /\ t(k) \in Keys /\ Under(src, k)
    <3>1. i - 1 \in 0..n
      OBVIOUS
    <3> QED BY <1>2, <1>3, <1>4, <1>6, <3>1
  <2>2. built[i] = CopyNext(old, k, t(k))
    BY <1>4 DEF t
  <2>3. Moved(i - 1) /\ Others(i - 1)
    BY <1>8
  <2>4. /\ built[i].table[t(k)] = Paired(rows[k], old.table[k])
        /\ \A j \in Keys \ {t(k)} : built[i].table[j] = old.table[j]
    <3> HIDE DEF k, old
    <3> QED BY <2>1, <2>2, CopyNextType
  <2>5. old.table[k] = rows[k]
    <3>1. CASE \E j \in 1..(i - 1) : t(listing[j]) = k
      <4>1. PICK j \in 1..(i - 1) : t(listing[j]) = k
        BY <3>1
      <4>2. j \in 1..n
        BY <1>1
      <4>3. listing[j] = k
        BY <1>2, <1>6, <2>1, <4>1, <4>2, TargetApart DEF t
      <4> QED BY <2>3, <4>1, <4>3
    <3>2. CASE ~(\E j \in 1..(i - 1) : t(listing[j]) = k)
      BY <2>1, <2>3, <3>2
    <3> QED BY <3>1, <3>2
  <2>6. built[i].table[t(k)] = rows[k]
    <3>1. rows[k] \in Row /\ rows[k].meta = rows[k].chunks
      BY <2>1, RowType DEF RowsWhole, Rows
    <3>2. rows[k] = [meta |-> rows[k].meta, chunks |-> rows[k].chunks]
      BY <3>1, RowType
    <3> QED BY <2>4, <2>5, <3>1, <3>2 DEF Paired
  <2>7. ASSUME NEW j \in 1..i PROVE built[i].table[t(listing[j])] = rows[listing[j]]
    <3>1. j \in 1..n /\ (j # i => j \in 1..(i - 1))
      BY <1>1
    <3>2. CASE t(listing[j]) = t(k)
      <4>1. listing[j] = k
        BY <1>2, <1>6, <2>1, <3>1, <3>2, TargetInjective DEF t
      <4> QED BY <2>6, <4>1
    <3>3. CASE t(listing[j]) # t(k)
      <4>1. j \in 1..(i - 1) /\ t(listing[j]) \in Keys \ {t(k)}
        BY <1>3, <3>1, <3>3 DEF t
      <4> QED BY <2>3, <2>4, <4>1
    <3> QED BY <3>2, <3>3
  <2>8. ASSUME NEW q \in Keys, \A j \in 1..i : t(listing[j]) # q PROVE built[i].table[q] = rows[q]
    <3>1. q # t(k)
      BY <1>1, <2>8
    <3>2. \A j \in 1..(i - 1) : t(listing[j]) # q
      BY <1>1, <2>8
    <3> QED BY <2>3, <2>4, <3>1, <3>2
  <2> QED BY <2>7, <2>8
<1> HIDE DEF S
<1>9. n \in S
  <2>1. 0..n \subseteq S
    BY <1>7, <1>8, Rounds
  <2> QED BY <2>1
<1> DEFINE table == CopyPrefix(src, dst, listing).table
<1>10. table = built[n].table
  BY <1>4
<1>11. table \in Table
  BY <1>1, <1>4, <1>10 DEF Copying
<1> HIDE DEF table
<1>12. ASSUME NEW k \in Matching(rows, src) PROVE table[t(k)] = rows[k]
  <2>1. PICK j \in 1..n : listing[j] = k
    BY <1>0, <1>1
  <2> QED BY <1>9, <1>10, <2>1 DEF S
<1>13. ASSUME NEW k \in Keys, \A j \in Matching(rows, src) : t(j) # k PROVE table[k] = rows[k]
  <2>1. \A j \in 1..n : t(listing[j]) # k
    BY <1>2, <1>13
  <2> QED BY <1>9, <1>10, <2>1 DEF S
<1> QED BY <1>11, <1>12, <1>13 DEF t, table

(***************************************************************************)
(* Listings exist                                                          *)
(***************************************************************************)

\* The order of the index, name by name.
Earlier(j, k) ==
  \/ Len(j) < Len(k) /\ \A i \in 1..Len(j) : j[i] = k[i]
  \/ \E i \in 1..Len(j) : i \in 1..Len(k) /\ j[i] < k[i] /\ \A m \in 1..(i - 1) : j[m] = k[m]

\* Before is that order.
LEMMA BeforePoints ==
  ASSUME NEW j \in Seq(Nat), NEW k \in Seq(Nat)
  PROVE  Before(j, k) <=> Earlier(j, k)
<1>1. Len(j) \in Nat /\ Len(k) \in Nat
  OBVIOUS
<1>2. ASSUME NEW n \in Nat, n <= Len(j), n <= Len(k)
      PROVE  SubSeq(j, 1, n) = SubSeq(k, 1, n) <=> \A m \in 1..n : j[m] = k[m]
  <2> DEFINE s == SubSeq(j, 1, n)
             t == SubSeq(k, 1, n)
  <2>1. s \in Seq(Nat) /\ Len(s) = n /\ \A m \in 1..n : s[m] = j[m]
    BY <1>1, <1>2
  <2>2. t \in Seq(Nat) /\ Len(t) = n /\ \A m \in 1..n : t[m] = k[m]
    BY <1>1, <1>2
  <2> HIDE DEF s, t
  <2>3. s = t <=> \A m \in 1..n : s[m] = t[m]
    BY <2>1, <2>2, SeqEqual
  <2>4. s = t <=> \A m \in 1..n : j[m] = k[m]
    BY <2>1, <2>2, <2>3
  <2> QED BY <2>4 DEF s, t
<1>3. IsStrictPrefix(j, k) <=> Len(j) < Len(k) /\ \A i \in 1..Len(j) : j[i] = k[i]
  <2>1. Len(j) <= Len(k) => (SubSeq(j, 1, Len(j)) = SubSeq(k, 1, Len(j)) <=> \A m \in 1..Len(j) : j[m] = k[m])
    BY <1>1, <1>2
  <2>2. Len(j) = Len(k) /\ (\A m \in 1..Len(j) : j[m] = k[m]) => j = k
    BY SeqEqual
  <2>3. Len(j) < Len(k) => j # k
    BY <1>1
  <2> QED BY <1>1, <2>1, <2>2, <2>3 DEF IsStrictPrefix, IsPrefix
<1>4. ASSUME NEW i \in 1..Len(j) \cap 1..Len(k)
      PROVE  SubSeq(j, 1, i - 1) = SubSeq(k, 1, i - 1) <=> \A m \in 1..(i - 1) : j[m] = k[m]
  <2>1. i - 1 \in Nat /\ i - 1 <= Len(j) /\ i - 1 <= Len(k)
    BY <1>1
  <2> QED BY <1>2, <2>1
<1> QED BY <1>3, <1>4 DEF Before, Earlier

\* Of two keys one comes before the other.
LEMMA BeforeTotal ==
  ASSUME NEW j \in Seq(Nat), NEW k \in Seq(Nat), j # k
  PROVE  Before(j, k) \/ Before(k, j)
<1>1. Len(j) \in Nat /\ Len(k) \in Nat /\ (\A i \in 1..Len(j) : j[i] \in Nat) /\ \A i \in 1..Len(k) : k[i] \in Nat
  OBVIOUS
<1> DEFINE D == {i \in 1..Len(j) : i \in 1..Len(k) /\ j[i] # k[i]}
<1>2. CASE D # {}
  <2>1. PICK i \in D : \A m \in D : i <= m
    <3>1. D \in SUBSET Nat
      OBVIOUS
    <3> HIDE DEF D
    <3> QED BY <1>2, <3>1, LeastNatural
  <2>2. i \in 1..Len(j) /\ i \in 1..Len(k) /\ j[i] # k[i]
    BY <2>1
  <2>3. \A m \in 1..(i - 1) : j[m] = k[m]
    <3>1. ASSUME NEW m \in 1..(i - 1) PROVE j[m] = k[m]
      <4>1. m \in 1..Len(j) /\ m \in 1..Len(k) /\ ~(i <= m)
        BY <1>1, <2>2
      <4> QED BY <2>1, <4>1
    <3> QED BY <3>1
  <2>4. j[i] < k[i] \/ k[i] < j[i]
    BY <1>1, <2>2
  <2>5. Earlier(j, k) \/ Earlier(k, j)
    BY <2>2, <2>3, <2>4 DEF Earlier
  <2> QED BY <2>5, BeforePoints
<1>3. CASE D = {}
  <2>1. \A i \in 1..Len(j) : i \in 1..Len(k) => j[i] = k[i]
    BY <1>3
  <2>2. CASE Len(j) = Len(k)
    <3>1. \A i \in 1..Len(j) : j[i] = k[i]
      BY <2>1, <2>2
    <3> QED BY <2>2, <3>1, SeqEqual
  <2>3. CASE Len(j) < Len(k)
    <3>1. \A i \in 1..Len(j) : j[i] = k[i]
      BY <1>1, <2>1, <2>3
    <3> QED BY <2>3, <3>1, BeforePoints DEF Earlier
  <2>4. CASE Len(k) < Len(j)
    <3>1. \A i \in 1..Len(k) : k[i] = j[i]
      BY <1>1, <2>1, <2>4
    <3> QED BY <2>4, <3>1, BeforePoints DEF Earlier
  <2> QED BY <1>1, <2>2, <2>3, <2>4
<1> QED BY <1>2, <1>3

\* The order of numbers is transitive.
LEMMA LessTransitive == \A a, b, c \in Nat : a < b /\ b < c => a < c
OBVIOUS

\* The order of keys is transitive.
LEMMA BeforeTransitive ==
  ASSUME NEW j \in Seq(Nat), NEW k \in Seq(Nat), NEW q \in Seq(Nat), Before(j, k), Before(k, q)
  PROVE  Before(j, q)
<1>1. /\ Len(j) \in Nat /\ Len(k) \in Nat /\ Len(q) \in Nat
      /\ \A i \in 1..Len(j) : j[i] \in Nat
      /\ \A i \in 1..Len(k) : k[i] \in Nat
      /\ \A i \in 1..Len(q) : q[i] \in Nat
  OBVIOUS
<1>2. Earlier(j, k) /\ Earlier(k, q)
  BY BeforePoints
<1>3. CASE Len(j) < Len(k) /\ \A i \in 1..Len(j) : j[i] = k[i]
  <2>1. CASE Len(k) < Len(q) /\ \A i \in 1..Len(k) : k[i] = q[i]
    <3>1. Len(j) < Len(q) /\ \A i \in 1..Len(j) : j[i] = q[i]
      BY <1>1, <1>3, <2>1
    <3> QED BY <3>1, BeforePoints DEF Earlier
  <2>2. CASE \E i \in 1..Len(k) : i \in 1..Len(q) /\ k[i] < q[i] /\ \A m \in 1..(i - 1) : k[m] = q[m]
    <3>1. PICK i \in 1..Len(k) : i \in 1..Len(q) /\ k[i] < q[i] /\ \A m \in 1..(i - 1) : k[m] = q[m]
      BY <2>2
    <3>2. CASE i <= Len(j)
      <4>1. i \in 1..Len(j) /\ j[i] < q[i] /\ \A m \in 1..(i - 1) : j[m] = q[m]
        BY <1>1, <1>3, <3>1, <3>2
      <4>2. Earlier(j, q)
        BY <3>1, <4>1 DEF Earlier
      <4> QED BY <4>2, BeforePoints
    <3>3. CASE Len(j) < i
      <4>1. Len(j) < Len(q) /\ \A m \in 1..Len(j) : j[m] = q[m]
        BY <1>1, <1>3, <3>1, <3>3
      <4> QED BY <4>1, BeforePoints DEF Earlier
    <3> QED BY <1>1, <3>2, <3>3
  <2> QED BY <1>2, <2>1, <2>2 DEF Earlier
<1>4. CASE \E i \in 1..Len(j) : i \in 1..Len(k) /\ j[i] < k[i] /\ \A m \in 1..(i - 1) : j[m] = k[m]
  <2>0. PICK i \in 1..Len(j) : i \in 1..Len(k) /\ j[i] < k[i] /\ \A m \in 1..(i - 1) : j[m] = k[m]
    BY <1>4
  <2>1. CASE Len(k) < Len(q) /\ \A n \in 1..Len(k) : k[n] = q[n]
    <3>1. i \in 1..Len(q) /\ j[i] < q[i]
      BY <1>1, <2>0, <2>1
    <3>2. \A m \in 1..(i - 1) : j[m] = q[m]
      <4>1. \A m \in 1..(i - 1) : m \in 1..Len(k)
        BY <1>1, <2>0
      <4> QED BY <2>0, <2>1, <4>1
    <3>3. Earlier(j, q)
      BY <3>1, <3>2 DEF Earlier
    <3> QED BY <3>3, BeforePoints
  <2>2. CASE \E n \in 1..Len(k) : n \in 1..Len(q) /\ k[n] < q[n] /\ \A m \in 1..(n - 1) : k[m] = q[m]
    <3>1. PICK n \in 1..Len(k) : n \in 1..Len(q) /\ k[n] < q[n] /\ \A m \in 1..(n - 1) : k[m] = q[m]
      BY <2>2
    <3>2. CASE n < i
      <4>0. n \in 1..(i - 1) /\ n \in 1..Len(j) /\ \A m \in 1..(n - 1) : m \in 1..(i - 1)
        <5>1. i \in Nat /\ i <= Len(j) /\ Len(j) \in Nat
          BY <1>1
        <5>2. n \in Nat /\ 1 <= n
          BY <1>1
        <5> QED BY <3>2, <5>1, <5>2
      <4>1. n \in 1..Len(j) /\ j[n] < q[n] /\ \A m \in 1..(n - 1) : j[m] = q[m]
        <5>1. j[n] = k[n] /\ \A m \in 1..(n - 1) : j[m] = k[m]
          BY <2>0, <4>0
        <5>2. k[n] < q[n] /\ \A m \in 1..(n - 1) : k[m] = q[m]
          BY <3>1
        <5>3. \A m \in 1..(n - 1) : j[m] = q[m]
          BY <5>1, <5>2
        <5> QED BY <4>0, <5>1, <5>2, <5>3
      <4>2. Earlier(j, q)
        BY <3>1, <4>1 DEF Earlier
      <4> QED BY <4>2, BeforePoints
    <3>3. CASE i < n
      <4>0. i \in 1..(n - 1) /\ i \in 1..Len(q) /\ \A m \in 1..(i - 1) : m \in 1..(n - 1)
        <5>1. i \in Nat /\ 1 <= i
          BY <1>1
        <5>2. n \in Nat /\ n <= Len(q) /\ Len(q) \in Nat
          BY <1>1, <3>1
        <5> QED BY <3>3, <5>1, <5>2, SMTT(20)
      <4>1. i \in 1..Len(q) /\ j[i] < q[i] /\ \A m \in 1..(i - 1) : j[m] = q[m]
        <5>0. \A m \in 1..(n - 1) : k[m] = q[m]
          BY <3>1
        <5>1. k[i] = q[i] /\ \A m \in 1..(i - 1) : k[m] = q[m]
          BY <4>0, <5>0
        <5>2. j[i] < k[i] /\ \A m \in 1..(i - 1) : j[m] = k[m]
          BY <2>0
        <5>3. \A m \in 1..(i - 1) : j[m] = q[m]
          BY <5>1, <5>2
        <5> QED BY <4>0, <5>1, <5>2, <5>3
      <4>2. Earlier(j, q)
        BY <4>1 DEF Earlier
      <4> QED BY <4>2, BeforePoints
    <3>4. CASE i = n
      <4>1. i \in 1..Len(q) /\ j[i] < q[i]
        <5>1. i \in 1..Len(q) /\ j[i] < k[i] /\ k[i] < q[i]
          BY <2>0, <3>1, <3>4
        <5>2. j[i] \in Nat /\ k[i] \in Nat /\ q[i] \in Nat
          BY <1>1, <2>0, <5>1
        <5> QED BY <5>1, <5>2, LessTransitive, Zenon
      <4>2. \A m \in 1..(i - 1) : j[m] = q[m]
        <5>1. \A m \in 1..(i - 1) : j[m] = k[m] /\ k[m] = q[m]
          BY <2>0, <3>1, <3>4
        <5> QED BY <5>1
      <4>3. Earlier(j, q)
        BY <4>1, <4>2 DEF Earlier
      <4> QED BY <4>3, BeforePoints
    <3> QED BY <1>1, <3>2, <3>3, <3>4
  <2> QED BY <1>2, <2>1, <2>2 DEF Earlier
<1> QED BY <1>2, <1>3, <1>4 DEF Earlier

\* Any finite set of rows can be listed in order, so that TransferTree is never
\* held up for want of a listing: a key's place is the number of keys before it.
THEOREM ListingExists ==
  ASSUME NEW S \in SUBSET Keys, IsFiniteSet(S)
  PROVE  Listings(S) # {}
<1> DEFINE n == Cardinality(S)
           below == [k \in S |-> {j \in S : Before(j, k)}]
           place == [k \in S |-> Cardinality(below[k]) + 1]
<1>1. n \in Nat /\ \A k \in S : k \in Keys /\ k \in Seq(Nat) /\ ~Before(k, k)
  BY FS_CardinalityType, KeyType, NotBeforeItself
<1>2. \A k \in S : /\ below[k] \subseteq S \ {k} /\ IsFiniteSet(below[k])
                   /\ Cardinality(below[k]) \in Nat /\ Cardinality(below[k]) <= n - 1
  <2>1. ASSUME NEW k \in S PROVE /\ below[k] \subseteq S \ {k} /\ IsFiniteSet(below[k])
                                 /\ Cardinality(below[k]) \in Nat /\ Cardinality(below[k]) <= n - 1
    <3>1. below[k] \subseteq S \ {k}
      BY <1>1
    <3> HIDE DEF below
    <3>2. IsFiniteSet(S \ {k}) /\ Cardinality(S \ {k}) = n - 1
      BY FS_RemoveElement
    <3>3. IsFiniteSet(below[k]) /\ Cardinality(below[k]) <= n - 1
      BY <3>1, <3>2, FS_Subset
    <3>4. Cardinality(below[k]) \in Nat
      BY <3>3, FS_CardinalityType
    <3> QED BY <3>1, <3>3, <3>4
  <2> QED BY <2>1
<1>3. ASSUME NEW j \in S, NEW k \in S, Before(j, k) PROVE Cardinality(below[j]) < Cardinality(below[k])
  <2>1. below[j] \subseteq below[k] /\ j \in below[k] /\ j \notin below[j]
    <3>1. ASSUME NEW i \in below[j] PROVE i \in below[k]
      <4>1. i \in S /\ Before(i, j)
        OBVIOUS
      <4>2. Before(i, k)
        BY <1>1, <1>3, <4>1, BeforeTransitive
      <4> QED BY <4>1, <4>2
    <3> QED BY <1>1, <1>3, <3>1
  <2> HIDE DEF below
  <2>2. Cardinality(below[j]) <= Cardinality(below[k]) /\ Cardinality(below[j]) # Cardinality(below[k])
    <3>1. IsFiniteSet(below[k]) /\ below[j] \in SUBSET below[k]
      BY <1>2, <2>1
    <3> QED BY <2>1, <3>1, FS_Subset
  <2>3. Cardinality(below[j]) \in Nat /\ Cardinality(below[k]) \in Nat
    BY <1>2
  <2> QED BY <2>2, <2>3
<1> HIDE DEF below
<1>4. place \in [S -> 1..n]
  <2>1. \A k \in S : Cardinality(below[k]) + 1 \in 1..n
    BY <1>1, <1>2
  <2> QED BY <2>1
<1>5. \A j, k \in S : Before(j, k) => place[j] < place[k]
  BY <1>2, <1>3
<1> HIDE DEF place
<1>6. \A j, k \in S : place[j] = place[k] => j = k
  <2>1. ASSUME NEW j \in S, NEW k \in S, place[j] = place[k], j # k PROVE FALSE
    <3>1. Before(j, k) \/ Before(k, j)
      BY <1>1, <2>1, BeforeTotal
    <3>2. place[j] < place[k] \/ place[k] < place[j]
      BY <1>5, <3>1
    <3>3. place[j] \in 1..n /\ place[k] \in 1..n
      BY <1>4
    <3> QED BY <2>1, <3>2, <3>3
  <2> QED BY <2>1
<1>7. IsFiniteSet(1..n) /\ Cardinality(1..n) = n
  <2>1. Cardinality(1..n) = IF 1 > n THEN 0 ELSE n - 1 + 1
    BY <1>1, FS_Interval
  <2>2. Cardinality(1..n) = n
    BY <1>1, <2>1
  <2> QED BY <1>1, <2>2, FS_Interval
<1>8. place \in Surjection(S, 1..n)
  <2>1. place \in Injection(S, 1..n)
    BY <1>4, <1>6 DEF Injection, IsInjective
  <2> QED BY <1>7, <2>1, FS_Injection
<1>9. \A i \in 1..n : \E k \in S : place[k] = i
  BY <1>8 DEF Surjection
<1> DEFINE listing == [i \in 1..n |-> CHOOSE k \in S : place[k] = i]
<1>10. \A i \in 1..n : listing[i] \in S /\ place[listing[i]] = i
  BY <1>9
<1>11. listing \in [1..n -> S]
  BY <1>10
<1> HIDE DEF listing
<1>12. ASSUME NEW i \in 1..n, NEW j \in 1..n, i < j PROVE Before(listing[i], listing[j])
  <2>1. listing[i] # listing[j] /\ ~(place[listing[j]] < place[listing[i]])
    BY <1>10, <1>12
  <2>2. ~Before(listing[j], listing[i])
    BY <1>5, <1>10, <2>1
  <2> QED BY <1>1, <1>10, <2>1, <2>2, BeforeTotal
<1>13. listing \in Listings(S)
  BY <1>11, <1>12 DEF Listings, n
<1> QED BY <1>13

(***************************************************************************)
(* What a request is about to do, as its checks leave it                   *)
(***************************************************************************)

\* The tree begins empty, without requests.
LEMMA InitTyped == Init => IInv
<1> SUFFICES ASSUME Init PROVE IInv
  OBVIOUS
<1>1. rows \in Table
  BY DEF Init, Table
<1>2. Rows(rows) = {}
  BY DEF Init, Rows
<1>3. RequestOK(Idle)
  BY DEF RequestOK, Idle
<1>4. req = [c \in Clients |-> req[c]] /\ \A c \in Clients : RequestOK(req[c])
  BY <1>3 DEF Init
<1> QED BY <1>1, <1>2, <1>4, FS_EmptySet DEF IInv, Init

\* A request that has passed its checks.
LEMMA AskTyped ==
  ASSUME IInv, NEW c \in Clients, NEW what, NEW src, NEW dst, NEW overwrite, Ask(c, what, src, dst, overwrite),
         NEW r, r = [at |-> what, src |-> src, dst |-> dst, overwrite |-> overwrite], RequestOK(r)
  PROVE  IInv'
<1>1. rows' = rows /\ written' = written /\ req' = [req EXCEPT ![c] = r]
  BY DEF Ask
<1>2. Rows(rows)' = Rows(rows) /\ Table' = Table /\ Contents' = Contents
  BY <1>1 DEF Rows, Table
<1>3. req' = [d \in Clients |-> req'[d]] /\ \A d \in Clients : RequestOK(req'[d])
  BY <1>1 DEF IInv
<1> QED BY <1>1, <1>2, <1>3 DEF IInv, RequestOK

\* The checks of the handler.
LEMMA CheckTyped ==
  ASSUME IInv, NEW c \in Clients, Check(c)
  PROVE  IInv'
<1>1. CASE \E k \in Files : PutCheck(c, k)
  <2>1. PICK k \in Files : Ask(c, "put", k, None, TRUE)
    BY <1>1 DEF PutCheck
  <2> DEFINE r == [at |-> "put", src |-> k, dst |-> None, overwrite |-> TRUE]
  <2>2. RequestOK(r)
    BY DEF RequestOK
  <2> QED BY <2>1, <2>2, AskTyped
<1>2. CASE \E k \in Keys : DeleteCheck(c, k)
  <2>1. PICK k \in Keys : DeleteCheck(c, k)
    BY <1>2
  <2>2. CASE Ask(c, "deleteObject", k, None, TRUE)
    <3> DEFINE r == [at |-> "deleteObject", src |-> k, dst |-> None, overwrite |-> TRUE]
    <3>1. RequestOK(r)
      BY DEF RequestOK
    <3> QED BY <2>2, <3>1, AskTyped
  <2>3. CASE Ask(c, "deletePrefix", Coll(k), None, TRUE)
    <3> DEFINE r == [at |-> "deletePrefix", src |-> Coll(k), dst |-> None, overwrite |-> TRUE]
    <3>1. RequestOK(r)
      BY CollType DEF RequestOK
    <3> QED BY <2>3, <3>1, AskTyped
  <2> QED BY <2>1, <2>2, <2>3 DEF DeleteCheck
<1>3. CASE \E k \in Markers : MkcolCheck(c, k)
  <2>1. PICK k \in Markers : Ask(c, "mkcol", k, None, FALSE)
    BY <1>3 DEF MkcolCheck
  <2> DEFINE r == [at |-> "mkcol", src |-> k, dst |-> None, overwrite |-> FALSE]
  <2>2. RequestOK(r)
    BY DEF RequestOK
  <2> QED BY <2>1, <2>2, AskTyped
<1>4. CASE \E k \in Keys : \E d \in Destinations(k), move, overwrite \in BOOLEAN :
               TransferTreeCheck(c, k, d, move, overwrite)
  <2>1. PICK k \in Keys, d \in Keys, move \in BOOLEAN, overwrite \in BOOLEAN :
          TransferTreeCheck(c, k, d, move, overwrite) /\ d \in Destinations(k)
    BY <1>4 DEF Destinations
  <2> DEFINE what == IF move THEN "movePrefix" ELSE "copyPrefix"
             src == Coll(k)
             dst == Coll(d)
             r == [at |-> what, src |-> src, dst |-> dst, overwrite |-> overwrite]
  <2>2. /\ move => src # dst
        /\ ~Under(src, dst)
        /\ Upwards \/ ~Under(dst, src)
        /\ Ask(c, what, src, dst, overwrite)
    BY <2>1 DEF TransferTreeCheck, IntoItself, Destinations
  <2>3. src \in Places /\ dst \in Places
    BY CollType
  <2> HIDE DEF src, dst
  <2>4. RequestOK(r)
    BY <2>2, <2>3 DEF RequestOK
  <2> QED BY <2>2, <2>4, AskTyped
<1>5. CASE \E k \in Keys, d \in Keys, move, overwrite \in BOOLEAN : TransferFileCheck(c, k, d, move, overwrite)
  <2>1. PICK k \in Keys, d \in Keys, move \in BOOLEAN, overwrite \in BOOLEAN :
          TransferFileCheck(c, k, d, move, overwrite)
    BY <1>5
  <2> DEFINE what == IF move THEN "moveObject" ELSE "copyObject"
             r == [at |-> what, src |-> k, dst |-> d, overwrite |-> overwrite]
  <2>2. (move => k # d) /\ Ask(c, what, k, d, overwrite)
    BY <2>1 DEF TransferFileCheck
  <2>3. RequestOK(r)
    BY <2>2 DEF RequestOK
  <2> QED BY <2>2, <2>3, AskTyped
<1> QED BY <1>1, <1>2, <1>3, <1>4, <1>5 DEF Check

\* A transaction that leaves a table of finitely many rows.
LEMMA DoneTyped ==
  ASSUME IInv, rows' \in Table, IsFiniteSet(Rows(rows')), written' \subseteq Contents,
         req' = req \/ \E c \in Clients : Return(c)
  PROVE  IInv'
<1>1. RequestOK(Idle)
  BY DEF RequestOK, Idle
<1>2. req' = [d \in Clients |-> req'[d]] /\ \A d \in Clients : RequestOK(req'[d])
  BY <1>1 DEF IInv, Return
<1>3. Rows(rows)' = Rows(rows') /\ Table' = Table
  BY DEF Rows, Table
<1> QED BY <1>2, <1>3 DEF IInv, RequestOK

\* A row of one content.
LEMMA NewRow == \A content \in Contents \cup {Dir} : [meta |-> content, chunks |-> content] \in Row
BY DEF Row

\* Rows taken away leave a table of finitely many rows.
LEMMA DeletePrefixTyped ==
  ASSUME NEW t \in Table, IsFiniteSet(Rows(t)), NEW p
  PROVE  DeletePrefix(t, p) \in Table /\ IsFiniteSet(Rows(DeletePrefix(t, p)))
<1> DEFINE u == DeletePrefix(t, p)
<1>1. u \in Table /\ \A k \in Keys : u[k] # None => t[k] # None
  BY DEF DeletePrefix, Table
<1> HIDE DEF u
<1>2. Rows(u) \subseteq Rows(t)
  BY <1>1 DEF Rows
<1>3. IsFiniteSet(Rows(u))
  BY <1>2, FS_Subset
<1> QED BY <1>1, <1>3 DEF u

\* A row copied has both parts.
LEMMA CopyRowType ==
  ASSUME rows \in Table, IsFiniteSet(Rows(rows)), NEW src \in Rows(rows), NEW dst \in Keys,
         NEW u, u = CopyRow(rows, rows, src, dst)
  PROVE  /\ u \in Table /\ IsFiniteSet(Rows(u))
         /\ u[dst] = Paired(rows[src], rows[src])
         /\ \A k \in Keys \ {dst} : u[k] = rows[k]
<1>1. src \in Keys /\ rows[src] \in Row
  BY RowType DEF Rows
<1>2. Paired(rows[src], rows[src]) \in Row
  BY <1>1 DEF Row, Paired
<1>3. u = [rows EXCEPT ![dst] = Paired(rows[src], rows[src])]
  BY DEF CopyRow, Paired
<1>4. u \in Table /\ IsFiniteSet(Rows(u))
  BY <1>2, <1>3, RowsFinite
<1>5. u[dst] = Paired(rows[src], rows[src]) /\ \A k \in Keys \ {dst} : u[k] = rows[k]
  BY <1>3 DEF Table
<1> QED BY <1>4, <1>5

\* The transactions.
LEMMA ActTyped ==
  ASSUME IInv, NEW c \in Clients, Act(c)
  PROVE  IInv'
<1>1. rows \in Table /\ IsFiniteSet(Rows(rows)) /\ written \subseteq Contents /\ RequestOK(req[c])
  BY DEF IInv
<1> USE DEF RequestOK
<1>2. CASE Put(c)
  <2>1. PICK content \in Contents : /\ rows' = [rows EXCEPT ![req[c].src] = [meta |-> content, chunks |-> content]]
                                    /\ written' = written \cup {content}
    BY <1>2 DEF Put
  <2>2. req[c].src \in Keys /\ Return(c)
    BY <1>1, <1>2 DEF Put, Keys
  <2>3. rows' \in Table /\ IsFiniteSet(Rows(rows'))
    BY <1>1, <2>1, <2>2, NewRow, RowsFinite
  <2> QED BY <1>1, <2>1, <2>2, <2>3, DoneTyped
<1>3. CASE Mkcol(c)
  <2>1. /\ rows' = [rows EXCEPT ![Append(Coll(req[c].src), 0)] = [meta |-> Dir, chunks |-> Dir]]
        /\ written' = written /\ Return(c) /\ req[c].src \in Markers
    BY <1>1, <1>3 DEF Mkcol
  <2>2. Append(Coll(req[c].src), 0) \in Keys
    BY <2>1, CollType DEF Keys
  <2>3. rows' \in Table /\ IsFiniteSet(Rows(rows'))
    BY <1>1, <2>1, <2>2, NewRow, RowsFinite
  <2> QED BY <1>1, <2>1, <2>3, DoneTyped
<1>4. CASE DeleteObject(c)
  <2>1. /\ rows' = [rows EXCEPT ![req[c].src] = None]
        /\ written' = written /\ Return(c) /\ req[c].src \in Keys
    BY <1>1, <1>4 DEF DeleteObject
  <2>2. rows' \in Table /\ IsFiniteSet(Rows(rows'))
    BY <1>1, <2>1, RowsFinite
  <2> QED BY <1>1, <2>1, <2>2, DoneTyped
<1>5. CASE DeleteTree(c)
  <2>1. rows' = DeletePrefix(rows, req[c].src) /\ written' = written /\ Return(c)
    BY <1>5 DEF DeleteTree
  <2> QED BY <1>1, <2>1, DeletePrefixTyped, DoneTyped
<1>6. CASE TransferFile(c)
  <2> DEFINE src == req[c].src
             dst == req[c].dst
             u == CopyRow(rows, rows, src, dst)
  <2>1. /\ rows' = IF req[c].at = "moveObject" THEN [u EXCEPT ![src] = None] ELSE u
        /\ written' = written /\ Return(c) /\ src \in Rows(rows) /\ src \in Keys /\ dst \in Keys
    BY <1>1, <1>6 DEF TransferFile, HasObject, Rows
  <2> HIDE DEF src, dst, u
  <2>2. u \in Table /\ IsFiniteSet(Rows(u))
    BY <1>1, <2>1, CopyRowType DEF u
  <2>3. rows' \in Table /\ IsFiniteSet(Rows(rows'))
    BY <2>1, <2>2, RowsFinite
  <2> QED BY <1>1, <2>1, <2>3, DoneTyped
<1>7. CASE TransferTree(c)
  <2> DEFINE src == req[c].src
             dst == req[c].dst
  <2>1. PICK listing \in Listings(Matching(rows, src)) :
          rows' = IF req[c].at = "movePrefix" THEN DeletePrefix(CopyPrefix(src, dst, listing).table, src)
                  ELSE CopyPrefix(src, dst, listing).table
    BY <1>7 DEF TransferTree
  <2>2. written' = written /\ Return(c) /\ src \in Places /\ dst \in Places /\ Fits(src, dst)
    BY <1>1, <1>7 DEF TransferTree
  <2> HIDE DEF src, dst
  <2> DEFINE u == CopyPrefix(src, dst, listing)
  <2>3. u \in Copying
    BY <1>1, <2>1, <2>2, ClashSeen
  <2> HIDE DEF u
  <2>4. u.table \in Table /\ IsFiniteSet(Rows(u.table))
    BY <2>3 DEF Copying
  <2>5. rows' \in Table /\ IsFiniteSet(Rows(rows'))
    BY <2>1, <2>4, DeletePrefixTyped DEF u
  <2> QED BY <1>1, <2>2, <2>5, DoneTyped
<1>8. CASE Fail(c)
  BY <1>1, <1>8, DoneTyped DEF Fail
<1> QED BY <1>2, <1>3, <1>4, <1>5, <1>6, <1>7, <1>8 DEF Act

\* Other APIs.
LEMMA OthersTyped ==
  ASSUME IInv, NEW k \in Keys, S3Put(k) \/ S3Delete(k)
  PROVE  IInv'
<1>1. rows \in Table /\ IsFiniteSet(Rows(rows)) /\ written \subseteq Contents
  BY DEF IInv
<1>2. CASE S3Put(k)
  <2>1. PICK content \in Contents : /\ rows' = [rows EXCEPT ![k] = [meta |-> content, chunks |-> content]]
                                    /\ written' = written \cup {content}
    BY <1>2 DEF S3Put
  <2>2. rows' \in Table /\ IsFiniteSet(Rows(rows'))
    BY <1>1, <2>1, NewRow, RowsFinite
  <2> QED BY <1>1, <1>2, <2>1, <2>2, DoneTyped DEF S3Put
<1>3. CASE S3Delete(k)
  <2>1. rows' = [rows EXCEPT ![k] = None]
    BY <1>3 DEF S3Delete
  <2>2. rows' \in Table /\ IsFiniteSet(Rows(rows'))
    BY <1>1, <2>1, RowsFinite
  <2> QED BY <1>1, <1>3, <2>2, DoneTyped DEF S3Delete
<1> QED BY <1>2, <1>3

\* Every step leaves a table of rows and requests that passed their checks.
LEMMA NextTyped == IInv /\ [Next]_vars => IInv'
<1> SUFFICES ASSUME IInv, [Next]_vars PROVE IInv'
  OBVIOUS
<1>1. CASE UNCHANGED vars
  <2>1. rows' = rows /\ written' = written /\ req' = req
    BY <1>1 DEF vars
  <2>2. rows \in Table /\ IsFiniteSet(Rows(rows)) /\ written \subseteq Contents
    BY DEF IInv
  <2> QED BY <2>1, <2>2, DoneTyped
<1>2. CASE \E c \in Clients : Check(c) \/ Act(c)
  BY <1>2, CheckTyped, ActTyped
<1>3. CASE \E k \in Keys : S3Put(k) \/ S3Delete(k)
  BY <1>3, OthersTyped
<1> QED BY <1>1, <1>2, <1>3 DEF Next

\* The rows of the bucket are always finitely many and whole records, and a request
\* about to change them has passed the checks of the handler (handler.go:58-326).
THEOREM Invariance == Spec => []IInv
BY InitTyped, NextTyped, PTL DEF Spec

(***************************************************************************)
(* Overwrite: F                                                            *)
(***************************************************************************)

\* What a step leaves of the rows while it ends request r.
Spared(r) == \A k \in Rows(rows) : rows'[k] = rows[k] \/ k = r.src \/ Like(r.src, k)

\* CopyObject and MoveObject look for the destination in their transaction.
LEMMA TransferFileSpares ==
  ASSUME IInv, NEW c \in Clients, TransferFile(c), ~req[c].overwrite
  PROVE  Spared(req[c])
<1> DEFINE src == req[c].src
           dst == req[c].dst
           u == CopyRow(rows, rows, src, dst)
<1>1. /\ rows' = IF req[c].at = "moveObject" THEN [u EXCEPT ![src] = None] ELSE u
      /\ src \in Rows(rows) /\ src \in Keys /\ dst \in Keys
  BY DEF TransferFile, HasObject, Rows, IInv, RequestOK
<1>2. dst \notin Rows(rows)
  BY DEF TransferFile, HasObject
<1> HIDE DEF src, dst, u
<1>3. u \in Table /\ \A k \in Keys \ {dst} : u[k] = rows[k]
  BY <1>1, CopyRowType DEF u, IInv
<1>4. \A k \in Rows(rows) : k \in Keys /\ k # dst
  BY <1>2 DEF Rows
<1>5. ASSUME NEW k \in Rows(rows), k # src PROVE rows'[k] = rows[k]
  <2>1. u[k] = rows[k]
    BY <1>3, <1>4
  <2>2. k \in Keys
    BY <1>4
  <2>3. [u EXCEPT ![src] = None][k] = u[k]
    BY <1>3, <1>5, <2>2 DEF Table
  <2> QED BY <1>1, <2>1, <2>3
<1> QED BY <1>5 DEF Spared, src

\* CopyPrefix and MovePrefix look for each destination in theirs.
LEMMA TransferTreeSpares ==
  ASSUME IInv, NEW c \in Clients, TransferTree(c), ~req[c].overwrite
  PROVE  Spared(req[c])
<1> DEFINE src == req[c].src
           dst == req[c].dst
<1>1. PICK listing \in Listings(Matching(rows, src)) :
        LET copied == CopyPrefix(src, dst, listing) IN
        /\ copied.clash => req[c].overwrite
        /\ rows' = IF req[c].at = "movePrefix" THEN DeletePrefix(copied.table, src) ELSE copied.table
  BY DEF TransferTree
<1>2. src \in Places /\ dst \in Places /\ Fits(src, dst) /\ rows \in Table /\ IsFiniteSet(Rows(rows))
  BY DEF TransferTree, IInv, RequestOK
<1> DEFINE u == CopyPrefix(src, dst, listing)
<1>3. Clear(u)
  BY <1>1, Zenon DEF Clear
<1>4. rows' = IF req[c].at = "movePrefix" THEN DeletePrefix(u.table, src) ELSE u.table
  BY <1>1
<1> HIDE DEF src, dst
<1>5. \A k \in Rows(rows) : u.table[k] = rows[k]
  BY <1>2, <1>3, ClashSeen
<1> HIDE DEF u
<1>6. ASSUME NEW k \in Rows(rows) PROVE rows'[k] = rows[k] \/ Like(src, k)
  <2>1. k \in Keys
    BY DEF Rows
  <2>2. DeletePrefix(u.table, src)[k] = IF k \in Matched[src] THEN None ELSE u.table[k]
    BY <2>1 DEF DeletePrefix
  <2>3. k \in Matched[src] => Like(src, k)
    BY <1>2 DEF Matched, Places
  <2> QED BY <1>4, <1>5, <2>2, <2>3
<1> QED BY <1>6 DEF Spared, src

\* No step replaces what a request may not.
LEMMA StepSpares ==
  ASSUME IInv, [Next]_vars, NEW c \in Clients, req[c].dst # None, ~req[c].overwrite, req'[c] = Idle
  PROVE  Spared(req[c])
<1>1. req = [d \in Clients |-> req[d]] /\ RequestOK(req[c])
  BY DEF IInv
<1>2. CASE rows' = rows
  BY <1>2 DEF Spared
<1>3. CASE req'[c] = req[c]
  BY <1>3 DEF Idle
<1>4. CASE \E d \in Clients : Act(d)
  <2>1. PICK d \in Clients : Act(d)
    BY <1>4
  <2>2. Return(d)
    BY <2>1 DEF Act, Put, Mkcol, DeleteObject, DeleteTree, TransferFile, TransferTree, Fail
  <2>3. CASE d # c
    <3>1. req'[c] = req[c]
      BY <1>1, <2>2, <2>3 DEF Return
    <3> QED BY <1>3, <3>1
  <2>4. CASE d = c
    <3>1. TransferFile(c) \/ TransferTree(c) \/ rows' = rows
      BY <1>1, <2>1, <2>4 DEF Act, Put, Mkcol, DeleteObject, DeleteTree, Fail, RequestOK
    <3> QED BY <1>2, <3>1, TransferFileSpares, TransferTreeSpares
  <2> QED BY <2>3, <2>4
<1>5. CASE UNCHANGED vars
  BY <1>2, <1>5 DEF vars
<1>6. CASE \E d \in Clients : Check(d)
  <2>1. rows' = rows
    BY <1>6 DEF Check, Ask, PutCheck, DeleteCheck, MkcolCheck, TransferTreeCheck, TransferFileCheck
  <2> QED BY <1>2, <2>1
<1>7. CASE \E k \in Keys : S3Put(k) \/ S3Delete(k)
  BY <1>3, <1>7 DEF S3Put, S3Delete
<1> QED BY <1>4, <1>5, <1>6, <1>7 DEF Next

\* A request with Overwrite: F replaces nothing that exists when it commits,
\* however stale its checks are and whatever LIKE matches (sqlite.go:275-403, 834-894).
THEOREM OverwritesRefused == Spec => OverwriteForbidden
<1>1. ASSUME IInv, [Next]_vars
      PROVE  [\A c \in Clients :
                req[c].dst # None /\ ~req[c].overwrite /\ req'[c] = Idle =>
                  \A k \in Rows(rows) : rows'[k] = rows[k] \/ k = req[c].src \/ Like(req[c].src, k)]_vars
  BY <1>1, StepSpares DEF Spared
<1> QED BY <1>1, Invariance, PTL DEF Spec, OverwriteForbidden

(***************************************************************************)
(* Rows are whole                                                          *)
(***************************************************************************)

\* The bucket has no two names that differ in case only, and no collection is
\* copied or moved over one of its ancestors.
Plain == IsInjective(Fold) /\ ~Upwards

\* What a copy or a move of a collection makes of the rows, row by row.
LEMMA TransferTreeRows ==
  ASSUME Plain, IInv, RowsWhole, NEW c \in Clients, TransferTree(c)
  PROVE  LET src == req[c].src dst == req[c].dst from == Matching(rows, src) IN
         /\ src \in Places /\ dst \in Places /\ Apart(src, dst)
         /\ req[c].at = "movePrefix" => src # dst
         /\ \A k \in Keys : rows'[k] =
              IF req[c].at = "movePrefix" /\ Under(src, k) THEN None
              ELSE IF \E j \in from : Target(src, dst, j) = k
                THEN rows[CHOOSE j \in from : Target(src, dst, j) = k]
                ELSE rows[k]
<1> DEFINE src == req[c].src
           dst == req[c].dst
           from == Matching(rows, src)
<1>1. PICK listing \in Listings(Matching(rows, src)) :
        rows' = IF req[c].at = "movePrefix" THEN DeletePrefix(CopyPrefix(src, dst, listing).table, src)
                ELSE CopyPrefix(src, dst, listing).table
  BY DEF TransferTree
<1>2. /\ src \in Places /\ dst \in Places /\ Fits(src, dst) /\ Apart(src, dst)
      /\ rows \in Table /\ IsFiniteSet(Rows(rows))
      /\ req[c].at = "movePrefix" => src # dst
  BY DEF TransferTree, IInv, RequestOK, Apart, Plain
<1> DEFINE table == CopyPrefix(src, dst, listing).table
<1>3. rows' = IF req[c].at = "movePrefix" THEN DeletePrefix(table, src) ELSE table
  BY <1>1
<1> HIDE DEF src, dst
<1>4. IsInjective(Fold) /\ RowsWhole
  BY DEF Plain
<1>5. /\ \A k \in Matching(rows, src) : table[Target(src, dst, k)] = rows[k]
      /\ \A k \in Keys : (\A j \in Matching(rows, src) : Target(src, dst, j) # k) => table[k] = rows[k]
  BY <1>2, <1>4, CopiedAtOnce
<1> HIDE DEF table
<1>6. ASSUME NEW k \in Keys PROVE k \in Matched[src] <=> Under(src, k)
  <2>1. k \in Matched[src] <=> Like(src, k)
    BY <1>2 DEF Matched, Places
  <2> QED BY <1>2, <1>4, <2>1, LikeIsUnder
<1>7. ASSUME NEW k \in Keys
      PROVE  rows'[k] = IF req[c].at = "movePrefix" /\ Under(src, k) THEN None
                        ELSE IF \E j \in from : Target(src, dst, j) = k
                          THEN rows[CHOOSE j \in from : Target(src, dst, j) = k]
                          ELSE rows[k]
  <2>1. table[k] = IF \E j \in from : Target(src, dst, j) = k
                     THEN rows[CHOOSE j \in from : Target(src, dst, j) = k]
                     ELSE rows[k]
    <3> DEFINE To(j) == Target(src, dst, j) = k
    <3>1. CASE \E j \in from : To(j)
      <4> DEFINE q == CHOOSE j \in from : To(j)
      <4>1. q \in from /\ To(q)
        BY <3>1
      <4>2. table[k] = rows[q]
        <5> HIDE DEF q
        <5> QED BY <1>5, <4>1
      <4> QED BY <3>1, <4>2
    <3>2. CASE ~(\E j \in from : To(j))
      BY <1>5, <3>2
    <3> QED BY <3>1, <3>2
  <2>2. DeletePrefix(table, src)[k] = IF k \in Matched[src] THEN None ELSE table[k]
    BY DEF DeletePrefix
  <2>3. rows'[k] = IF req[c].at = "movePrefix" /\ Under(src, k) THEN None ELSE table[k]
    BY <1>3, <1>6, <2>2
  <2> QED BY <2>1, <2>3
<1> QED BY <1>2, <1>7 DEF src, dst

(***************************************************************************)
(* Metadata and chunks                                                     *)
(***************************************************************************)

\* One row that is whole, or none, in place of another.
LEMMA WholePut ==
  ASSUME rows \in Table, RowsWhole, NEW k \in Keys, NEW r, r = None \/ r.meta = r.chunks, rows' = [rows EXCEPT ![k] = r]
  PROVE  RowsWhole'
<1>1. ASSUME NEW j \in Keys PROVE rows'[j] = None \/ rows'[j].meta = rows'[j].chunks
  <2>1. rows'[j] = IF j = k THEN r ELSE rows[j]
    BY DEF Table
  <2> QED BY <2>1 DEF RowsWhole
<1> QED BY <1>1 DEF RowsWhole

\* Rows that are whole, or none.
LEMMA WholeStep ==
  ASSUME IInv, RowsWhole, Plain, [Next]_vars
  PROVE  RowsWhole'
<1>1. /\ rows \in Table /\ IsFiniteSet(Rows(rows)) /\ \A c \in Clients : RequestOK(req[c])
      /\ \A content : [meta |-> content, chunks |-> content].meta = [meta |-> content, chunks |-> content].chunks
  BY DEF IInv
<1>2. CASE rows' = rows
  BY <1>2 DEF RowsWhole
<1>3. ASSUME NEW c \in Clients, Put(c) PROVE RowsWhole'
  <2>1. PICK content \in Contents : rows' = [rows EXCEPT ![req[c].src] = [meta |-> content, chunks |-> content]]
    BY <1>3 DEF Put
  <2>2. req[c].src \in Keys
    BY <1>1, <1>3 DEF Put, Keys, RequestOK
  <2> QED BY <1>1, <2>1, <2>2, WholePut
<1>4. ASSUME NEW c \in Clients, Mkcol(c) PROVE RowsWhole'
  <2>1. rows' = [rows EXCEPT ![Append(Coll(req[c].src), 0)] = [meta |-> Dir, chunks |-> Dir]] /\ req[c].src \in Markers
    BY <1>1, <1>4 DEF Mkcol, RequestOK
  <2>2. Append(Coll(req[c].src), 0) \in Keys
    BY <2>1, CollType DEF Keys
  <2> QED BY <1>1, <2>1, <2>2, WholePut
<1>5. ASSUME NEW c \in Clients, DeleteObject(c) PROVE RowsWhole'
  <2>1. rows' = [rows EXCEPT ![req[c].src] = None] /\ req[c].src \in Keys
    BY <1>1, <1>5 DEF DeleteObject, RequestOK
  <2> QED BY <1>1, <2>1, WholePut
<1>6. ASSUME NEW c \in Clients, DeleteTree(c) PROVE RowsWhole'
  BY <1>6 DEF DeleteTree, DeletePrefix, RowsWhole
<1>7. ASSUME NEW c \in Clients, TransferFile(c) PROVE RowsWhole'
  <2> DEFINE src == req[c].src
             dst == req[c].dst
             u == CopyRow(rows, rows, src, dst)
  <2>1. /\ rows' = IF req[c].at = "moveObject" THEN [u EXCEPT ![src] = None] ELSE u
        /\ src \in Rows(rows) /\ src \in Keys /\ dst \in Keys
    BY <1>1, <1>7 DEF TransferFile, HasObject, Rows, RequestOK
  <2> HIDE DEF src, dst, u
  <2>2. u \in Table /\ u[dst] = Paired(rows[src], rows[src]) /\ \A k \in Keys \ {dst} : u[k] = rows[k]
    BY <1>1, <2>1, CopyRowType DEF u
  <2>3. rows[src].meta = rows[src].chunks
    BY <2>1 DEF RowsWhole, Rows
  <2>4. u[dst].meta = u[dst].chunks
    BY <2>2, <2>3 DEF Paired
  <2>5. ASSUME NEW k \in Keys PROVE rows'[k] = None \/ rows'[k].meta = rows'[k].chunks
    <3>1. u[k] = None \/ u[k].meta = u[k].chunks
      BY <2>2, <2>4 DEF RowsWhole
    <3>2. [u EXCEPT ![src] = None][k] = IF k = src THEN None ELSE u[k]
      BY <2>2 DEF Table
    <3> QED BY <2>1, <3>1, <3>2
  <2> QED BY <2>5 DEF RowsWhole
<1>8. ASSUME NEW c \in Clients, TransferTree(c) PROVE RowsWhole'
  <2> DEFINE src == req[c].src
             dst == req[c].dst
             from == Matching(rows, src)
             To(k, j) == Target(src, dst, j) = k
  <2>1. \A k \in Keys : rows'[k] =
              IF req[c].at = "movePrefix" /\ Under(src, k) THEN None
              ELSE IF \E j \in from : To(k, j) THEN rows[CHOOSE j \in from : To(k, j)] ELSE rows[k]
    BY <1>8, TransferTreeRows
  <2>2. from \subseteq Keys
    BY DEF Matching, Rows
  <2> HIDE DEF from, To
  <2>3. ASSUME NEW k \in Keys PROVE rows'[k] = None \/ rows'[k].meta = rows'[k].chunks
    <3>1. CASE \E j \in from : To(k, j)
      <4> DEFINE q == CHOOSE j \in from : To(k, j)
      <4>1. q \in Keys
        BY <2>2, <3>1
      <4>2. rows'[k] = None \/ rows'[k] = rows[q]
        BY <2>1, <3>1
      <4> HIDE DEF q
      <4> QED BY <4>1, <4>2 DEF RowsWhole
    <3>2. CASE ~(\E j \in from : To(k, j))
      BY <2>1, <3>2 DEF RowsWhole
    <3> QED BY <3>1, <3>2
  <2> QED BY <2>3 DEF RowsWhole
<1>9. ASSUME NEW k \in Keys, S3Put(k) PROVE RowsWhole'
  <2>1. PICK content \in Contents : rows' = [rows EXCEPT ![k] = [meta |-> content, chunks |-> content]]
    BY <1>9 DEF S3Put
  <2> QED BY <1>1, <2>1, WholePut
<1>10. ASSUME NEW k \in Keys, S3Delete(k) PROVE RowsWhole'
  <2>1. rows' = [rows EXCEPT ![k] = None]
    BY <1>10 DEF S3Delete
  <2> QED BY <1>1, <2>1, WholePut
<1>11. CASE UNCHANGED vars
  BY <1>2, <1>11 DEF vars
<1>12. CASE \E c \in Clients : Check(c)
  <2>1. rows' = rows
    BY <1>12 DEF Check, Ask, PutCheck, DeleteCheck, MkcolCheck, TransferTreeCheck, TransferFileCheck
  <2> QED BY <1>2, <2>1
<1>13. CASE \E c \in Clients : Fail(c)
  BY <1>2, <1>13 DEF Fail
<1> QED BY <1>3, <1>4, <1>5, <1>6, <1>7, <1>8, <1>9, <1>10, <1>11, <1>12, <1>13 DEF Next, Act

\* The row of a key and its chunk rows describe one content, whatever is copied
\* and moved side by side (sqlite.go:834-894).  With names that differ in case
\* only, or onto an ancestor, a listed row may be overwritten before it is read.
THEOREM RowsStayWhole == ASSUME Plain PROVE Spec => []RowsWhole
<1>1. Init => RowsWhole
  BY DEF Init, RowsWhole
<1>2. IInv /\ RowsWhole /\ [Next]_vars => RowsWhole'
  BY WholeStep
<1> QED BY <1>1, <1>2, Invariance, PTL DEF Spec

(***************************************************************************)
(* The tree                                                                *)
(***************************************************************************)

TreeOf(t) == [k \in Keys |-> IF t[k] = None THEN None ELSE t[k].chunks]

\* What a key holds in the tree.
LEMMA TreeNone ==
  ASSUME NEW t \in Table, NEW k \in Keys
  PROVE  /\ TreeOf(t)[k] = IF t[k] = None THEN None ELSE t[k].chunks
         /\ TreeOf(t)[k] # None <=> k \in Rows(t)
<1>1. TreeOf(t)[k] = IF t[k] = None THEN None ELSE t[k].chunks
  BY DEF TreeOf
<1>2. t[k] # None => t[k].chunks # None
  <2>1. ASSUME t[k] # None PROVE t[k].chunks # None
    <3>1. t[k] \in Row
      BY <2>1, RowType
    <3>2. t[k].chunks \in Contents \cup {Dir}
      BY <3>1 DEF Row
    <3> QED BY <3>2, NoneAssumption
  <2> QED BY <2>1
<1> QED BY <1>1, <1>2 DEF Rows

\* A row written stores its content.
LEMMA StoreMaps ==
  ASSUME rows \in Table, NEW k \in Keys, NEW content \in Contents \cup {Dir},
         rows' = [rows EXCEPT ![k] = [meta |-> content, chunks |-> content]]
  PROVE  AsTree!Next
<1>1. TreeOf(rows') = [TreeOf(rows) EXCEPT ![k] = content]
  <2> DEFINE r == [meta |-> content, chunks |-> content]
  <2>1. r \in Row /\ r.chunks = content
    BY DEF Row
  <2>2. r # None
    BY <2>1, RowType
  <2> HIDE DEF r
  <2>3. \A j \in Keys : rows'[j] = IF j = k THEN r ELSE rows[j]
    BY DEF Table, r
  <2>4. \A j \in Keys : TreeOf(rows')[j] = IF j = k THEN content ELSE TreeOf(rows)[j]
    BY <2>1, <2>2, <2>3 DEF TreeOf
  <2> QED BY <2>4 DEF TreeOf
<1>2. AsTree!Store(k)
  BY <1>1 DEF AsTree!Store, TreeOf
<1> QED BY <1>2 DEF AsTree!Next

\* Rows taken away.
LEMMA RemoveMaps ==
  ASSUME rows \in Table, NEW gone \in SUBSET Keys, \A k \in Keys : rows'[k] = IF k \in gone THEN None ELSE rows[k]
  PROVE  AsTree!Remove(gone)
<1>1. TreeOf(rows') = [k \in Keys |-> IF k \in gone THEN None ELSE TreeOf(rows)[k]]
  BY DEF TreeOf
<1> QED BY <1>1 DEF AsTree!Remove, TreeOf

\* Every place is a directory of the tree.
LEMMA PlacesAreDirectories == Places \subseteq AsTree!Directories
<1>1. ASSUME NEW p \in Places PROVE \E k \in Keys : \E n \in 1..Len(k) : p = SubSeq(k, 1, n)
  <2>0. p \in Seq(Nat) /\ Len(p) \in Nat /\ Len(p) > 0
    BY PlaceType
  <2>1. CASE p \in Files
    <3>1. p = SubSeq(p, 1, Len(p)) /\ Len(p) \in 1..Len(p) /\ p \in Keys
      BY <2>0, <2>1, SubSeqFull DEF Keys
    <3> QED BY <3>1
  <2>2. CASE p \in Collections
    <3> DEFINE k == Append(p, 0)
    <3>1. k \in Keys
      BY <2>2 DEF Markers, Keys
    <3>2. k \in Seq(Nat) /\ Len(k) = Len(p) + 1 /\ \A i \in 1..Len(p) : k[i] = p[i]
      BY <2>0
    <3> HIDE DEF k
    <3>3. SubSeq(k, 1, Len(p)) \in Seq(Nat) /\ Len(SubSeq(k, 1, Len(p))) = Len(p)
      BY <2>0, <3>2
    <3>4. \A i \in 1..Len(p) : SubSeq(k, 1, Len(p))[i] = p[i]
      BY <2>0, <3>2
    <3>5. p = SubSeq(k, 1, Len(p))
      BY <2>0, <3>3, <3>4, SeqEqual
    <3>6. Len(p) \in 1..Len(k)
      BY <2>0, <3>2
    <3> QED BY <3>1, <3>5, <3>6
  <2> QED BY <2>1, <2>2 DEF Places
<1> QED BY <1>1 DEF AsTree!Directories

\* A table whose tree moves the files of "from" to their targets is a transfer of the tree.
LEMMA TransferIs ==
  ASSUME NEW from, NEW to, NEW move,
         TreeOf(rows') = [k \in Keys |->
               IF \E q \in from : to[q] = k THEN TreeOf(rows)[CHOOSE q \in from : to[q] = k]
               ELSE IF move /\ k \in from THEN None ELSE TreeOf(rows)[k]]
  PROVE  AsTree!Transfer(from, to, move)
BY DEF AsTree!Transfer, TreeOf

\* CopyObject and MoveObject transfer one file.
LEMMA TransferFileMaps ==
  ASSUME IInv, NEW c \in Clients, TransferFile(c)
  PROVE  AsTree!Next
<1> DEFINE src == req[c].src
           dst == req[c].dst
           move == req[c].at = "moveObject"
           u == CopyRow(rows, rows, src, dst)
           to == [r \in {src} |-> dst]
<1>1. /\ rows' = IF move THEN [u EXCEPT ![src] = None] ELSE u
      /\ src \in Rows(rows) /\ src \in Keys /\ dst \in Keys /\ (move => src # dst)
      /\ rows \in Table /\ IsFiniteSet(Rows(rows)) /\ move \in BOOLEAN
  BY DEF TransferFile, HasObject, Rows, RequestOK, IInv
<1> HIDE DEF src, dst, u, move
<1>2. u \in Table /\ u[dst] = Paired(rows[src], rows[src]) /\ \A k \in Keys \ {dst} : u[k] = rows[k]
  BY <1>1, CopyRowType DEF u
<1>3. rows'[dst] = u[dst] /\ \A k \in Keys \ {dst} : rows'[k] = IF move /\ k = src THEN None ELSE rows[k]
  BY <1>1, <1>2 DEF Table
<1>4. TreeOf(rows')[dst] = TreeOf(rows)[src]
  <2>1. rows[src] # None /\ Paired(rows[src], rows[src]) \in Row
    BY <1>1, RowType DEF Rows, Row, Paired
  <2>2. Paired(rows[src], rows[src]).chunks = rows[src].chunks
    BY DEF Paired
  <2>3. rows'[dst] # None /\ rows'[dst].chunks = rows[src].chunks
    BY <1>2, <1>3, <2>1, <2>2, RowType
  <2> QED BY <1>1, <2>1, <2>3 DEF TreeOf
<1>5. ASSUME NEW k \in Keys
      PROVE  TreeOf(rows')[k] =
               IF \E q \in {src} : to[q] = k THEN TreeOf(rows)[CHOOSE q \in {src} : to[q] = k]
               ELSE IF move /\ k \in {src} THEN None ELSE TreeOf(rows)[k]
  <2>1. CASE k = dst
    <3>1. (CHOOSE q \in {src} : to[q] = k) = src
      BY <2>1
    <3>2. \E q \in {src} : to[q] = k
      BY <2>1
    <3> HIDE DEF to
    <3> QED BY <1>4, <2>1, <3>1, <3>2
  <2>2. CASE k # dst
    <3>1. ~(\E q \in {src} : to[q] = k)
      BY <2>2
    <3>2. TreeOf(rows')[k] = IF move /\ k = src THEN None ELSE TreeOf(rows)[k]
      BY <1>3, <2>2 DEF TreeOf
    <3> HIDE DEF to
    <3> QED BY <3>1, <3>2
  <2> QED BY <2>1, <2>2
<1>6. TreeOf(rows') = [k \in Keys |->
               IF \E q \in {src} : to[q] = k THEN TreeOf(rows)[CHOOSE q \in {src} : to[q] = k]
               ELSE IF move /\ k \in {src} THEN None ELSE TreeOf(rows)[k]]
  <2> HIDE DEF to
  <2> QED BY <1>5 DEF TreeOf
<1>7. TreeOf(rows)[src] # None
  BY <1>1, TreeNone
<1>8. PICK p, q, m, at : p = src /\ q = dst /\ m = move /\ at = to
  OBVIOUS
<1>9. p \in Keys /\ q \in Keys /\ m \in BOOLEAN /\ TreeOf(rows)[p] # None
  BY <1>1, <1>7, <1>8
<1>10. TreeOf(rows') = [k \in Keys |->
               IF \E r \in {p} : at[r] = k THEN TreeOf(rows)[CHOOSE r \in {p} : at[r] = k]
               ELSE IF m /\ k \in {p} THEN None ELSE TreeOf(rows)[k]]
  <2> HIDE DEF to
  <2> QED BY <1>6, <1>8
<1>11. AsTree!TransferFile(p, q, m)
  <2>1. AsTree!Transfer({p}, at, m)
    BY <1>10, TransferIs
  <2>2. at = [r \in {p} |-> q]
    BY <1>8
  <2> QED BY <1>9, <2>1, <2>2 DEF AsTree!TransferFile, TreeOf
<1> QED BY <1>9, <1>11 DEF AsTree!Next, TreeOf

\* CopyPrefix and MovePrefix transfer a directory at once, unless it is empty.
LEMMA TransferTreeMaps ==
  ASSUME Plain, IInv, RowsWhole, NEW c \in Clients, TransferTree(c)
  PROVE  AsTree!Next \/ TreeOf(rows') = TreeOf(rows)
<1> DEFINE src == req[c].src
           dst == req[c].dst
           move == req[c].at = "movePrefix"
           from == Matching(rows, src)
           To(k, j) == Target(src, dst, j) = k
<1>1. /\ src \in Places /\ dst \in Places /\ Apart(src, dst) /\ (move => src # dst) /\ move \in BOOLEAN
      /\ \A k \in Keys : rows'[k] =
           IF move /\ Under(src, k) THEN None
           ELSE IF \E j \in from : To(k, j) THEN rows[CHOOSE j \in from : To(k, j)] ELSE rows[k]
  BY TransferTreeRows
<1>2. rows \in Table /\ IsInjective(Fold)
  BY DEF IInv, Plain
<1> HIDE DEF src, dst, move
<1>3. ASSUME NEW k \in Keys PROVE k \in from <=> Under(src, k) /\ rows[k] # None
  <2>1. k \in Matched[src] <=> Like(src, k)
    BY <1>1 DEF Matched, Places
  <2> QED BY <1>1, <1>2, <2>1, LikeIsUnder DEF Matching, Rows
<1>4. from \subseteq Keys
  BY DEF Matching, Rows
<1> HIDE DEF from
<1> DEFINE to == [p \in from |-> dst \o SubSeq(p, Len(src) + 1, Len(p))]
<1>5. \A j \in from : to[j] = Target(src, dst, j)
  BY <1>3, <1>4 DEF Target
<1>6. \A k \in Keys : (\E q \in from : to[q] = k) <=> \E j \in from : To(k, j)
  <2> HIDE DEF to
  <2> QED BY <1>5
<1>7. \A k \in Keys : (CHOOSE q \in from : to[q] = k) = CHOOSE j \in from : To(k, j)
  <2> TAKE k \in Keys
  <2> HIDE DEF to
  <2>1. \A q : (q \in from /\ to[q] = k) <=> (q \in from /\ To(k, q))
    BY <1>5
  <2> QED BY <2>1
<1>8. ASSUME NEW k \in Keys
      PROVE  TreeOf(rows')[k] =
               IF \E q \in from : to[q] = k THEN TreeOf(rows)[CHOOSE q \in from : to[q] = k]
               ELSE IF move /\ k \in from THEN None ELSE TreeOf(rows)[k]
  <2>1. CASE \E j \in from : To(k, j)
    <3> DEFINE q == CHOOSE j \in from : To(k, j)
    <3>1. q \in from /\ To(k, q)
      BY <2>1
    <3> HIDE DEF q
    <3>2. q \in Keys /\ Under(src, q)
      BY <1>3, <1>4, <3>1
    <3>3. ~(move /\ Under(src, k))
      BY <1>1, <3>1, <3>2, TargetApart
    <3>4. rows'[k] = rows[q]
      BY <1>1, <2>1, <3>3 DEF q
    <3>5. TreeOf(rows')[k] = TreeOf(rows)[q]
      BY <3>2, <3>4 DEF TreeOf
    <3>6. (\E i \in from : to[i] = k) /\ (CHOOSE i \in from : to[i] = k) = q
      BY <1>6, <1>7, <2>1 DEF q
    <3> HIDE DEF to
    <3> QED BY <3>5, <3>6
  <2>2. CASE ~(\E j \in from : To(k, j))
    <3>1. rows'[k] = IF move /\ Under(src, k) THEN None ELSE rows[k]
      BY <1>1, <2>2
    <3>2. TreeOf(rows')[k] = IF move /\ k \in from THEN None ELSE TreeOf(rows)[k]
      BY <1>3, <3>1 DEF TreeOf
    <3>3. ~(\E i \in from : to[i] = k)
      BY <1>6, <2>2
    <3> HIDE DEF to
    <3> QED BY <3>2, <3>3
  <2> QED BY <2>1, <2>2
<1>9. TreeOf(rows') = [k \in Keys |->
               IF \E q \in from : to[q] = k THEN TreeOf(rows)[CHOOSE q \in from : to[q] = k]
               ELSE IF move /\ k \in from THEN None ELSE TreeOf(rows)[k]]
  <2> HIDE DEF to
  <2> QED BY <1>8 DEF TreeOf
<1>10. AsTree!Below(src) = from
  <2>1. \A k \in Keys : AsTree!Under(src, k) <=> Under(src, k)
    BY DEF AsTree!Under, Under
  <2>2. \A k \in Keys : TreeOf(rows)[k] # None <=> rows[k] # None
    BY <1>2, TreeNone DEF Rows
  <2>3. AsTree!Below(src) = {k \in Keys : AsTree!Under(src, k) /\ TreeOf(rows)[k] # None}
    BY DEF AsTree!Below, TreeOf
  <2> QED BY <1>3, <1>4, <2>1, <2>2, <2>3
<1>11. CASE from = {}
  <2>1. \A k \in Keys : TreeOf(rows')[k] = TreeOf(rows)[k]
    BY <1>8, <1>11
  <2> QED BY <2>1 DEF TreeOf
<1>12. CASE from # {}
  <2>1. AsTree!Transfer(from, to, move)
    BY <1>9 DEF AsTree!Transfer, TreeOf
  <2>2. AsTree!TransferTree(src, dst, move)
    BY <1>10, <2>1 DEF AsTree!TransferTree
  <2>3. src \in AsTree!Directories /\ dst \in AsTree!Directories
    BY <1>1, PlacesAreDirectories
  <2>4. AsTree!Below(src) # {} /\ move \in BOOLEAN
    BY <1>1, <1>10, <1>12
  <2>5. \E d \in AsTree!Directories : AsTree!Below(d) # {} /\ \E e \in AsTree!Directories, m \in BOOLEAN : AsTree!TransferTree(d, e, m)
    BY <2>2, <2>3, <2>4
  <2> QED BY <2>5 DEF AsTree!Next
<1> QED BY <1>11, <1>12

\* Every step of a request is a step of the tree, or changes nothing of it.
LEMMA StepMaps ==
  ASSUME Plain, IInv, RowsWhole, [Next]_vars
  PROVE  AsTree!Next \/ TreeOf(rows') = TreeOf(rows)
<1>1. rows \in Table /\ \A c \in Clients : RequestOK(req[c])
  BY DEF IInv
<1>2. CASE rows' = rows
  BY <1>2
<1>3. ASSUME NEW c \in Clients, Put(c) PROVE AsTree!Next
  <2>1. PICK content \in Contents : rows' = [rows EXCEPT ![req[c].src] = [meta |-> content, chunks |-> content]]
    BY <1>3 DEF Put
  <2>2. req[c].src \in Keys
    BY <1>1, <1>3 DEF Put, Keys, RequestOK
  <2> QED BY <1>1, <2>1, <2>2, StoreMaps
<1>4. ASSUME NEW c \in Clients, Mkcol(c) PROVE AsTree!Next
  <2>1. rows' = [rows EXCEPT ![Append(Coll(req[c].src), 0)] = [meta |-> Dir, chunks |-> Dir]] /\ req[c].src \in Markers
    BY <1>1, <1>4 DEF Mkcol, RequestOK
  <2>2. Append(Coll(req[c].src), 0) \in Keys
    BY <2>1, CollType DEF Keys
  <2> QED BY <1>1, <2>1, <2>2, StoreMaps
<1>5. ASSUME NEW k \in Keys, rows' = [rows EXCEPT ![k] = None] PROVE AsTree!Next
  <2>1. \A j \in Keys : rows'[j] = IF j \in {k} THEN None ELSE rows[j]
    BY <1>1, <1>5 DEF Table
  <2>2. AsTree!Remove({k})
    BY <1>1, <2>1, RemoveMaps
  <2> QED BY <2>2 DEF AsTree!Next
<1>6. ASSUME NEW c \in Clients, DeleteObject(c) PROVE AsTree!Next
  <2>1. rows' = [rows EXCEPT ![req[c].src] = None] /\ req[c].src \in Keys
    BY <1>1, <1>6 DEF DeleteObject, RequestOK
  <2> QED BY <1>5, <2>1
<1>7. ASSUME NEW c \in Clients, DeleteTree(c) PROVE AsTree!Next
  <2> DEFINE src == req[c].src
             gone == {q \in Keys : AsTree!Under(src, q)}
  <2>1. rows' = DeletePrefix(rows, src) /\ src \in Places
    BY <1>1, <1>7 DEF DeleteTree, RequestOK
  <2> HIDE DEF src
  <2>2. ASSUME NEW k \in Keys PROVE k \in Matched[src] <=> k \in gone
    <3>1. k \in Matched[src] <=> Like(src, k)
      BY <2>1 DEF Matched, Places
    <3>2. Like(src, k) <=> Under(src, k)
      BY <2>1, LikeIsUnder DEF Plain
    <3> QED BY <3>1, <3>2 DEF AsTree!Under, Under
  <2>3. \A k \in Keys : rows'[k] = IF k \in gone THEN None ELSE rows[k]
    <3> HIDE DEF gone
    <3> QED BY <2>1, <2>2 DEF DeletePrefix
  <2>4. PICK d : d = src
    OBVIOUS
  <2>5. \A k \in Keys : rows'[k] = IF k \in {q \in Keys : AsTree!Under(d, q)} THEN None ELSE rows[k]
    BY <2>3, <2>4
  <2>6. AsTree!Remove({q \in Keys : AsTree!Under(d, q)})
    BY <1>1, <2>5, RemoveMaps
  <2>7. d \in AsTree!Directories
    BY <2>1, <2>4, PlacesAreDirectories
  <2> QED BY <2>6, <2>7 DEF AsTree!Next
<1>8. ASSUME NEW k \in Keys, S3Put(k) PROVE AsTree!Next
  <2>1. PICK content \in Contents : rows' = [rows EXCEPT ![k] = [meta |-> content, chunks |-> content]]
    BY <1>8 DEF S3Put
  <2> QED BY <1>1, <2>1, StoreMaps
<1>9. ASSUME NEW k \in Keys, S3Delete(k) PROVE AsTree!Next
  BY <1>5, <1>9 DEF S3Delete
<1>10. CASE UNCHANGED vars
  BY <1>2, <1>10 DEF vars
<1>11. CASE \E c \in Clients : Check(c)
  <2>1. rows' = rows
    BY <1>11 DEF Check, Ask, PutCheck, DeleteCheck, MkcolCheck, TransferTreeCheck, TransferFileCheck
  <2> QED BY <1>2, <2>1
<1>12. CASE \E c \in Clients : Fail(c)
  BY <1>2, <1>12 DEF Fail
<1>13. ASSUME NEW c \in Clients, TransferFile(c) PROVE AsTree!Next
  BY <1>13, TransferFileMaps
<1>14. ASSUME NEW c \in Clients, TransferTree(c) PROVE AsTree!Next \/ TreeOf(rows') = TreeOf(rows)
  BY <1>14, TransferTreeMaps
<1> QED BY <1>3, <1>4, <1>6, <1>7, <1>8, <1>9, <1>10, <1>11, <1>12, <1>13, <1>14 DEF Next, Act

\* Whatever requests run side by side, a bucket changes as Tree says: each in one
\* step, and a copy or a move of a collection all at once (sqlite.go:275-415, 834-905).
THEOREM ImplementsTree == ASSUME Plain PROVE Spec => TreeSpec
<1>1. Init => AsTree!Init
  BY DEF Init, AsTree!Init
<1>2. ASSUME IInv, RowsWhole, [Next]_vars
      PROVE  [AsTree!Next]_([k \in Keys |-> IF rows[k] = None THEN None ELSE rows[k].chunks])
  BY <1>2, StepMaps DEF TreeOf
<1> QED BY <1>1, <1>2, Invariance, RowsStayWhole, PTL DEF Spec, TreeSpec, AsTree!Spec
================================================================================
