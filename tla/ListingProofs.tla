------------------------------ MODULE ListingProofs ------------------------------
(***************************************************************************)
(* The walks through a bucket of any number of keys and prefixes, with any  *)
(* limits and sizes of a query, while others write any number of times.     *)
(*                                                                         *)
(* The heart of it is ListedUpTo(page, cursor): what was there all the time *)
(* and lies up to the cursor has been listed, in order, and prefixes once.  *)
(* Each loop over the rows of a query keeps it row by row (KeyListed,       *)
(* PrefixListed, RowSkipped), because a query leaves out no row between two *)
(* others (QueryOK, RowsNextUp).  That keys of one prefix lie side by side  *)
(* (GroupAssumption) is what makes it right to continue behind the last     *)
(* prefix of a page (PrefixesEnd).                                          *)
(*                                                                         *)
(* The model's loops are recursive functions; a lemma about a loop is an    *)
(* induction over its rounds by Rounds, which rests on the least element of *)
(* a set of naturals.                                                       *)
(***************************************************************************)
EXTENDS Listing, SequenceTheorems, WellFoundedInduction, TLAPS

\* A set of naturals has a least element, unless it is empty.
LEMMA LeastNatural ==
  ASSUME NEW T \in SUBSET Nat, T # {}
  PROVE  \E x \in T : \A y \in T : x <= y
<1>1. PICK x \in T : \A y \in T : ~(<<y, x>> \in OpToRel(<,Nat))
  BY NatLessThanWellFounded, WFMin, Zenon
<1>2. ASSUME NEW y \in T PROVE x <= y
  <2>1. <<y, x>> \notin OpToRel(<,Nat)
    BY <1>1
  <2>2. ~(y < x)
    BY <2>1 DEF OpToRel
  <2> QED BY <2>2
<1> QED BY <1>2

\* Induction over the rounds of a loop, for any set of rounds that turned out well.
LEMMA Rounds ==
  ASSUME NEW n \in Nat, NEW S, 0 \in S, \A i \in 1..n : i - 1 \in S => i \in S
  PROVE  0..n \subseteq S
<1>1. SUFFICES ASSUME (0..n) \ S # {} PROVE FALSE
  OBVIOUS
<1>2. PICK i \in (0..n) \ S : \A j \in (0..n) \ S : i <= j
  <2> (0..n) \ S \in SUBSET Nat OBVIOUS
  <2> QED BY <1>1, LeastNatural
<1>3. i \in 1..n /\ i - 1 \in 0..n /\ i - 1 \in S
  BY <1>2
<1> QED BY <1>2, <1>3

\* f[i] is what a loop has made of base in its first i rounds.
Loop(f, n, V, base, g) == f \in [0..n -> V] /\ f[0] = base /\ \A i \in 1..n : f[i] = g[<<f[i - 1], i>>]

\* A loop has a value after each of its rounds.
LEMMA LoopDefined ==
  ASSUME NEW n \in Nat, NEW V, NEW base \in V, NEW g \in [V \X (1..n) -> V]
  PROVE  \E f : Loop(f, n, V, base, g)
<1> DEFINE Good(f, m) == f[0] = base /\ \A i \in 1..m : f[i] = g[<<f[i - 1], i>>]
           Defined == {m \in 0..n : \E f \in [0..m -> V] : Good(f, m)}
<1>1. 0 \in Defined
  <2> DEFINE f == [i \in 0..0 |-> base]
  <2>1. f \in [0..0 -> V] /\ Good(f, 0)
    OBVIOUS
  <2> HIDE DEF f, Good
  <2>2. \E h \in [0..0 -> V] : Good(h, 0)
    BY <2>1
  <2> QED BY <2>2
<1>2. ASSUME NEW m \in 1..n, m - 1 \in Defined PROVE m \in Defined
  <2>1. PICK f \in [0..(m - 1) -> V] : Good(f, m - 1)
    BY <1>2
  <2> DEFINE more == [i \in 0..m |-> IF i = m THEN g[<<f[m - 1], m>>] ELSE f[i]]
  <2>2. more \in [0..m -> V]
    OBVIOUS
  <2>3. more[m] = g[<<f[m - 1], m>>] /\ \A i \in 0..(m - 1) : more[i] = f[i]
    OBVIOUS
  <2>4. Good(more, m)
    <3> HIDE DEF more
    <3>1. more[0] = base
      BY <2>1, <2>3
    <3>2. ASSUME NEW i \in 1..m PROVE more[i] = g[<<more[i - 1], i>>]
      <4>1. more[i - 1] = f[i - 1]
        BY <2>3
      <4>2. CASE i = m
        BY <2>3, <4>1, <4>2
      <4>3. CASE i # m
        <5>1. i \in 1..(m - 1)
          BY <4>3
        <5>2. more[i] = f[i]
          BY <2>3, <5>1
        <5> QED BY <2>1, <4>1, <5>1, <5>2
      <4> QED BY <4>2, <4>3
    <3> QED BY <3>1, <3>2
  <2> HIDE DEF more, Good
  <2>5. \E h \in [0..m -> V] : Good(h, m)
    BY <2>2, <2>4
  <2> QED BY <2>5
<1>3. n \in Defined
  <2> HIDE DEF Defined
  <2>1. 0..n \subseteq Defined
    BY <1>1, <1>2, Rounds
  <2> QED BY <2>1
<1> QED BY <1>3 DEF Loop

\* f[i] is what the first i of n sequences make when put one behind the other.
Beginnings(f, seqs, n) ==
  /\ f = [i \in 1..n |-> f[i]] /\ f[1] = seqs[1]
  /\ \A i \in 2..n : f[i] = f[i - 1] \o seqs[i]

\* FlattenSeq makes of n sequences what their beginnings grow to.
LEMMA Flattened ==
  ASSUME NEW n \in Nat, n > 0, NEW seqs, Len(seqs) = n, NEW f, Beginnings(f, seqs, n)
  PROVE  FlattenSeq(seqs) = f[n]
<1> DEFINE Good(h) == h = [i \in 1..n |-> IF i = 1 THEN seqs[i] ELSE h[i - 1] \o seqs[i]]
           flat == CHOOSE h : Good(h)
           S == {0} \cup {i \in 1..n : flat[i] = f[i]}
<1>1. Good(f)
  <2>1. \A i \in 1..n : f[i] = IF i = 1 THEN seqs[i] ELSE f[i - 1] \o seqs[i]
    <3> TAKE i \in 1..n
    <3>1. i # 1 => i \in 2..n
      OBVIOUS
    <3> QED BY <3>1 DEF Beginnings
  <2>2. [i \in 1..n |-> f[i]] = [i \in 1..n |-> IF i = 1 THEN seqs[i] ELSE f[i - 1] \o seqs[i]]
    BY <2>1
  <2> QED BY <2>2 DEF Beginnings
<1>2. Good(flat)
  <2> HIDE DEF Good
  <2> QED BY <1>1
<1>3. FlattenSeq(seqs) = flat[n]
  BY DEF FlattenSeq
<1> HIDE DEF flat
<1>4. \A i \in 1..n : flat[i] = IF i = 1 THEN seqs[i] ELSE flat[i - 1] \o seqs[i]
  BY <1>2
<1>5. ASSUME NEW i \in 1..n, i - 1 \in S PROVE i \in S
  <2>1. CASE i = 1
    BY <1>4, <2>1 DEF Beginnings
  <2>2. CASE i # 1
    <3>1. i \in 2..n /\ i - 1 # 0
      BY <2>2
    <3>2. flat[i - 1] = f[i - 1]
      BY <1>5, <3>1
    <3>3. flat[i] = flat[i - 1] \o seqs[i] /\ f[i] = f[i - 1] \o seqs[i]
      BY <1>4, <2>2, <3>1 DEF Beginnings
    <3> QED BY <3>2, <3>3
  <2> QED BY <2>1, <2>2
<1>6. 0..n \subseteq S
  <2>1. 0 \in S
    OBVIOUS
  <2> HIDE DEF S
  <2> QED BY <1>5, <2>1, Rounds
<1>7. n \in S /\ n # 0
  <2> HIDE DEF S
  <2> QED BY <1>6
<1> QED BY <1>3, <1>7

--------------------------------------------------------------------------------
(* Sequences *)

\* What an appended element adds to the set of a sequence.
LEMMA AppendSet ==
  ASSUME NEW V, NEW s \in Seq(V), NEW x \in V
  PROVE  ToSet(Append(s, x)) = ToSet(s) \cup {x}
<1> DEFINE t == Append(s, x)
<1>1. /\ t \in Seq(V) /\ Len(t) = Len(s) + 1 /\ Len(s) \in Nat
      /\ \A i \in 1..Len(s) : t[i] = s[i]
      /\ t[Len(s) + 1] = x
  BY AppendProperties
<1> HIDE DEF t
<1>2. DOMAIN s = 1..Len(s) /\ DOMAIN t = 1..(Len(s) + 1)
  BY <1>1
<1>3. ASSUME NEW y \in ToSet(t) PROVE y \in ToSet(s) \cup {x}
  <2>1. PICK i \in 1..(Len(s) + 1) : y = t[i]
    BY <1>2 DEF ToSet
  <2>2. CASE i = Len(s) + 1
    BY <1>1, <2>1, <2>2
  <2>3. CASE i # Len(s) + 1
    <3>1. i \in 1..Len(s)
      BY <1>1, <2>3
    <3> QED BY <1>1, <1>2, <2>1, <3>1 DEF ToSet
  <2> QED BY <2>2, <2>3
<1>4. ASSUME NEW y \in ToSet(s) PROVE y \in ToSet(t)
  <2>1. PICK i \in 1..Len(s) : y = s[i]
    BY <1>2 DEF ToSet
  <2>2. i \in 1..(Len(s) + 1) /\ t[i] = y
    BY <1>1, <2>1
  <2> QED BY <1>2, <2>2 DEF ToSet
<1>5. x \in ToSet(t)
  <2>1. Len(s) + 1 \in 1..(Len(s) + 1)
    BY <1>1
  <2> QED BY <1>1, <1>2, <2>1 DEF ToSet
<1> QED BY <1>3, <1>4, <1>5 DEF t

\* The elements of two sequences, one behind the other.
LEMMA ConcatSet ==
  ASSUME NEW V, NEW s \in Seq(V), NEW t \in Seq(V)
  PROVE  ToSet(s \o t) = ToSet(s) \cup ToSet(t)
<1> DEFINE u == s \o t
<1>1. /\ u \in Seq(V) /\ Len(u) = Len(s) + Len(t) /\ Len(s) \in Nat /\ Len(t) \in Nat
      /\ \A i \in 1..(Len(s) + Len(t)) : u[i] = IF i <= Len(s) THEN s[i] ELSE t[i - Len(s)]
  BY ConcatProperties
<1> HIDE DEF u
<1>2. DOMAIN s = 1..Len(s) /\ DOMAIN t = 1..Len(t) /\ DOMAIN u = 1..(Len(s) + Len(t))
  BY <1>1
<1>3. ASSUME NEW y \in ToSet(u) PROVE y \in ToSet(s) \cup ToSet(t)
  <2>1. PICK i \in 1..(Len(s) + Len(t)) : y = u[i]
    BY <1>2 DEF ToSet
  <2>2. CASE i <= Len(s)
    <3>1. i \in 1..Len(s) /\ y = s[i]
      BY <1>1, <2>1, <2>2
    <3> QED BY <1>2, <3>1 DEF ToSet
  <2>3. CASE ~(i <= Len(s))
    <3>1. i - Len(s) \in 1..Len(t) /\ y = t[i - Len(s)]
      BY <1>1, <2>1, <2>3
    <3> QED BY <1>2, <3>1 DEF ToSet
  <2> QED BY <2>2, <2>3
<1>4. ASSUME NEW y \in ToSet(s) PROVE y \in ToSet(u)
  <2>1. PICK i \in 1..Len(s) : y = s[i]
    BY <1>2 DEF ToSet
  <2>2. i \in 1..(Len(s) + Len(t)) /\ u[i] = y
    BY <1>1, <2>1
  <2> QED BY <1>2, <2>2 DEF ToSet
<1>5. ASSUME NEW y \in ToSet(t) PROVE y \in ToSet(u)
  <2>1. PICK i \in 1..Len(t) : y = t[i]
    BY <1>2 DEF ToSet
  <2>2. Len(s) + i \in 1..(Len(s) + Len(t)) /\ ~(Len(s) + i <= Len(s)) /\ (Len(s) + i) - Len(s) = i
    BY <1>1
  <2>3. u[Len(s) + i] = t[(Len(s) + i) - Len(s)]
    BY <1>1, <2>2
  <2> QED BY <1>2, <2>1, <2>2, <2>3 DEF ToSet
<1> QED BY <1>3, <1>4, <1>5 DEF u

\* What is new to a sequence may be appended to it.
LEMMA AppendInjection ==
  ASSUME NEW V, NEW s \in Seq(V), NEW x \in V, IsInjective(s), x \notin ToSet(s)
  PROVE  IsInjective(Append(s, x))
<1> DEFINE t == Append(s, x)
<1>1. /\ t \in Seq(V) /\ Len(t) = Len(s) + 1 /\ Len(s) \in Nat
      /\ \A i \in 1..Len(s) : t[i] = s[i]
      /\ t[Len(s) + 1] = x
  BY AppendProperties
<1> HIDE DEF t
<1>2. DOMAIN s = 1..Len(s) /\ DOMAIN t = 1..(Len(s) + 1)
  BY <1>1
<1>3. \A i \in 1..Len(s) : s[i] # x
  BY <1>2 DEF ToSet
<1>4. ASSUME NEW i \in DOMAIN t, NEW j \in DOMAIN t, t[i] = t[j] PROVE i = j
  <2>1. (i \in 1..Len(s) \/ i = Len(s) + 1) /\ (j \in 1..Len(s) \/ j = Len(s) + 1)
    BY <1>1, <1>2
  <2> QED BY <1>1, <1>2, <1>3, <1>4, <2>1 DEF IsInjective
<1>5. IsInjective(t)
  BY <1>4 DEF IsInjective
<1> QED BY <1>5 DEF t

\* Appending to the second of two sequences appends to both together.
LEMMA ConcatAppend ==
  ASSUME NEW V, NEW s \in Seq(V), NEW t \in Seq(V), NEW x \in V
  PROVE  s \o Append(t, x) = Append(s \o t, x)
<1>1. Append(t, x) = t \o <<x>> /\ <<x>> \in Seq(V)
  BY AppendIsConcat
<1>2. s \o t \in Seq(V)
  BY ConcatProperties
<1>3. Append(s \o t, x) = (s \o t) \o <<x>>
  BY <1>2, AppendIsConcat
<1>4. (s \o t) \o <<x>> = s \o (t \o <<x>>)
  BY <1>1, ConcatAssociative
<1> QED BY <1>1, <1>3, <1>4, Zenon

\* n sequences, and the same with a further one.
OneMore(ss, more, n, V) ==
  /\ DOMAIN ss = 1..n /\ Len(ss) = n /\ (n = 0 => ss = <<>>)
  /\ \A i \in 1..n : ss[i] \in Seq(V)
  /\ DOMAIN more = 1..(n + 1) /\ Len(more) = n + 1
  /\ \A i \in 1..n : more[i] = ss[i]
  /\ more[n + 1] \in Seq(V)

\* A last sequence comes behind what the others make.
LEMMA FlattenGrows ==
  ASSUME NEW V, NEW n \in Nat, NEW ss, NEW more, OneMore(ss, more, n, V)
  PROVE  /\ FlattenSeq(ss) \in Seq(V)
         /\ FlattenSeq(more) = FlattenSeq(ss) \o more[n + 1]
<1> USE DEF OneMore
<1> DEFINE W == Seq(V)
           g == [p \in W \X (1..(n + 1)) |-> p[1] \o more[p[2]]]
<1>1. \A i \in 1..(n + 1) : more[i] \in W
  <2> TAKE i \in 1..(n + 1)
  <2>1. i \in 1..n \/ i = n + 1
    OBVIOUS
  <2> QED BY <2>1
<1>2. <<>> \in W /\ \A c \in W, d \in W : c \o d \in W
  BY ConcatProperties
<1>3. g \in [W \X (1..(n + 1)) -> W]
  <2> HIDE DEF W
  <2> QED BY <1>1, <1>2
<1>4. PICK f : /\ f \in [0..(n + 1) -> W] /\ f[0] = <<>>
               /\ \A i \in 1..(n + 1) : f[i] = g[<<f[i - 1], i>>]
  <2>1. n + 1 \in Nat
    OBVIOUS
  <2> HIDE DEF g, W
  <2>2. PICK f : Loop(f, n + 1, W, <<>>, g)
    BY <1>2, <1>3, <2>1, LoopDefined
  <2> QED BY <2>2 DEF Loop
<1>5. \A i \in 1..(n + 1) : f[i - 1] \in W /\ f[i] = f[i - 1] \o more[i]
  <2> TAKE i \in 1..(n + 1)
  <2>1. i - 1 \in 0..(n + 1)
    OBVIOUS
  <2>2. f[i - 1] \in W
    BY <1>4, <2>1
  <2> HIDE DEF W
  <2> QED BY <1>4, <2>2
<1>6. f[1] = more[1]
  <2>1. 1 \in 1..(n + 1) /\ 1 - 1 = 0
    OBVIOUS
  <2>2. f[1] = f[1 - 1] \o more[1]
    BY <1>5, <2>1, Zenon
  <2>3. more[1] \in Seq(V)
    BY <1>1, <2>1
  <2>4. <<>> \o more[1] = more[1]
    BY <2>3, ConcatEmptySeq
  <2>5. f[1 - 1] = <<>>
    BY <1>4, <2>1
  <2> QED BY <2>2, <2>4, <2>5, Zenon
<1> HIDE DEF g
<1> DEFINE h(m) == [i \in 1..m |-> f[i]]
<1>7. FlattenSeq(more) = f[n + 1]
  <2> DEFINE hh == h(n + 1)
  <2>1. \A i \in 1..(n + 1) : hh[i] = f[i]
    OBVIOUS
  <2>2. hh = [i \in 1..(n + 1) |-> hh[i]]
    OBVIOUS
  <2> HIDE DEF hh
  <2>3. hh[1] = more[1]
    BY <1>6, <2>1
  <2>4. \A i \in 2..(n + 1) : hh[i] = hh[i - 1] \o more[i]
    <3> TAKE i \in 2..(n + 1)
    <3>1. i \in 1..(n + 1) /\ i - 1 \in 1..(n + 1)
      OBVIOUS
    <3> QED BY <1>5, <2>1, <3>1
  <2>5. Beginnings(hh, more, n + 1)
    BY <2>2, <2>3, <2>4 DEF Beginnings
  <2>6. n + 1 \in Nat /\ n + 1 > 0 /\ n + 1 \in 1..(n + 1)
    OBVIOUS
  <2>7. FlattenSeq(more) = hh[n + 1]
    BY <2>5, <2>6, Flattened
  <2> QED BY <2>1, <2>6, <2>7
<1>8. FlattenSeq(ss) = f[n]
  <2>1. CASE n = 0
    BY <1>4, <2>1 DEF FlattenSeq
  <2>2. CASE n > 0
    <3> DEFINE hh == h(n)
    <3>1. \A i \in 1..n : hh[i] = f[i]
      OBVIOUS
    <3>2. hh = [i \in 1..n |-> hh[i]]
      OBVIOUS
    <3> HIDE DEF hh
    <3>3. hh[1] = ss[1]
      <4>1. 1 \in 1..n
        BY <2>2
      <4> QED BY <1>6, <3>1, <4>1
    <3>4. \A i \in 2..n : hh[i] = hh[i - 1] \o ss[i]
      <4> TAKE i \in 2..n
      <4>1. i \in 1..(n + 1) /\ i \in 1..n /\ i - 1 \in 1..n
        OBVIOUS
      <4> QED BY <1>5, <3>1, <4>1
    <3>5. Beginnings(hh, ss, n)
      BY <3>2, <3>3, <3>4 DEF Beginnings
    <3>6. FlattenSeq(ss) = hh[n]
      BY <2>2, <3>5, Flattened
    <3>7. n \in 1..n
      BY <2>2
    <3> QED BY <3>1, <3>6, <3>7
  <2> QED BY <2>1, <2>2
<1>9. n + 1 \in 1..(n + 1) /\ (n + 1) - 1 = n
  OBVIOUS
<1>10. f[n] \in W /\ f[n + 1] = f[n] \o more[n + 1]
  BY <1>5, <1>9
<1> QED BY <1>7, <1>8, <1>10
--------------------------------------------------------------------------------
(* The inductive invariant *)

Names == {Group[k] : k \in Keys}
Page == [keys : Seq(Keys), prefixes : Seq(Names)]

\* What the earlier pages have listed, and what it is with a page behind them.
OldKeys == FlattenSeq([i \in DOMAIN pages |-> pages[i].keys])
OldPrefixes == FlattenSeq([i \in DOMAIN pages |-> pages[i].prefixes])
KeysWith(p) == OldKeys \o p.keys
PrefixesWith(p) == OldPrefixes \o p.prefixes

TypeOK ==
  /\ present \in SUBSET Keys
  /\ steady \in SUBSET present
  /\ writes \in Nat
  /\ walk \in {"pages", "ls", "lsLimited", "lsd", "children"}
  /\ at \in {"idle", "scan", "advance", "probe", "page", "rows", "end"}
  /\ after \in 0..KeyCount
  /\ next \in 0..KeyCount
  /\ page \in Page
  /\ pages \in Seq(Page)

\* Which walk is where, and what a walk has not touched yet.
PlaceOK ==
  /\ at \in {"scan", "advance", "probe", "page"} => walk = "pages"
  /\ at = "rows" => walk # "pages" /\ next = 0
  /\ at = "idle" => page = NewPage /\ after = 0 /\ next = 0
  /\ at = "idle" \/ walk # "pages" => pages = <<>>
  /\ at = "end" /\ walk = "pages" => page = NewPage
  /\ next = 0 \/ next = after
  /\ at \in {"advance", "page"} => next # 0
  /\ at # "idle" /\ writes = 0 => steady = present

\* Keys listed in order up to a cursor.
Ascends(keys, cursor) ==
  /\ keys \in Seq(Keys)
  /\ \A i \in 1..Len(keys) : keys[i] <= cursor
  /\ \A i, j \in 1..Len(keys) : i < j => keys[i] < keys[j]

\* Objects that were there all the time and have been listed, each in its way.
Listed(p, k) ==
  \/ k \in ToSet(KeysWith(p)) \/ Group[k] \in ToSet(PrefixesWith(p))
  \/ (walk = "lsd" /\ Group[k] = None)
  \/ (walk = "children" /\ k = Marker)

\* What has been listed when page p is under way and the cursor has come so far.
ListedUpTo(p, cursor) ==
  /\ p \in Page
  /\ cursor \in 0..KeyCount
  /\ Ascends(KeysWith(p), cursor)
  /\ IsInjective(p.prefixes)
  /\ \A g \in ToSet(p.prefixes) : g # None /\ \E j \in Keys : j <= cursor /\ Group[j] = g
  /\ writes = 0 => IsInjective(PrefixesWith(p))
  /\ \A k \in steady : k <= cursor => Listed(p, k)

\* Nothing that was there all the time is behind the cursor any more.
Exhausted == \A k \in steady : k <= after

\* What is behind the cursor when a walk stops asking.
AheadOK ==
  /\ at = "probe" /\ next = 0 => Exhausted
  /\ at = "end" => Exhausted \/ (walk = "lsLimited" /\ Len(page.keys) = Limit)

LimitOK ==
  /\ at = "scan" => Emitted(page) < Limit
  /\ walk \in {"pages", "lsLimited"} => Emitted(page) <= Limit
  /\ at = "rows" /\ walk = "lsLimited" => Emitted(page) < Limit
  /\ walk = "lsLimited" => page.prefixes = <<>>
  /\ \A i \in DOMAIN pages : Emitted(pages[i]) <= Limit /\ IsInjective(pages[i].prefixes)

\* If nothing is written: no key of these prefixes is behind the cursor.
Passed(prefixes) == \A k \in present : k > after => Group[k] \notin ToSet(prefixes)

PassedOK ==
  /\ at = "advance" => page.prefixes # <<>> /\ Group[next] = page.prefixes[Len(page.prefixes)]
  /\ writes = 0 /\ walk = "pages" /\ at # "end" => Passed(OldPrefixes)
  /\ writes = 0 /\ at = "probe" => Exhausted \/ (next # 0 /\ Group[next] = None)
  /\ writes = 0 /\ at = "page" => Passed(page.prefixes)

IInv == TypeOK /\ PlaceOK /\ ListedUpTo(page, after) /\ AheadOK /\ LimitOK /\ PassedOK
--------------------------------------------------------------------------------
(* The query *)

Ascending(rows) == \A i, j \in 1..Len(rows) : i < j => rows[i] < rows[j]

\* The keys behind a key that the index holds up to key m, in its order.
FoundUpTo(rows, behind, m) ==
  /\ rows \in Seq(Keys)
  /\ \A i \in 1..Len(rows) : rows[i] \in present /\ behind < rows[i] /\ rows[i] <= m
  /\ Ascending(rows)
  /\ \A k \in present : behind < k /\ k <= m => \E i \in 1..Len(rows) : rows[i] = k

\* The first of them: one that is not among the rows comes behind a full query.
QueryRows(rows, behind, limit) ==
  /\ rows \in Seq(Keys)
  /\ Len(rows) <= limit
  /\ \A i \in 1..Len(rows) : rows[i] \in present /\ behind < rows[i]
  /\ Ascending(rows)
  /\ \A k \in present : behind < k =>
       \/ \E i \in 1..Len(rows) : rows[i] = k
       \/ Len(rows) = limit /\ \A i \in 1..Len(rows) : rows[i] < k

\* One key further in the index.
LEMMA FoundNext ==
  ASSUME present \in SUBSET Keys, NEW behind \in Nat, NEW k \in Keys,
         NEW rows, FoundUpTo(rows, behind, k - 1)
  PROVE  FoundUpTo(Found(rows, k, behind), behind, k)
<1> USE SizesAssumption
<1>1. rows \in Seq(Keys) /\ Len(rows) \in Nat /\ k \in Nat /\ k - 1 < k
  BY DEF FoundUpTo, Keys
<1>2. \A i \in 1..Len(rows) : rows[i] \in present /\ behind < rows[i] /\ rows[i] <= k - 1 /\ rows[i] \in Nat
  BY <1>1 DEF FoundUpTo, Keys
<1>3. CASE k \in present /\ k > behind
  <2> DEFINE more == Append(rows, k)
  <2>1. Found(rows, k, behind) = more
    BY <1>3 DEF Found
  <2>2. /\ more \in Seq(Keys) /\ Len(more) = Len(rows) + 1
        /\ \A i \in 1..Len(rows) : more[i] = rows[i]
        /\ more[Len(rows) + 1] = k
    BY <1>1, AppendProperties
  <2> HIDE DEF more
  <2>3. \A i \in 1..Len(more) : i \in 1..Len(rows) \/ i = Len(rows) + 1
    BY <1>1, <2>2
  <2>4. \A i \in 1..Len(more) : more[i] \in present /\ behind < more[i] /\ more[i] <= k
    <3> TAKE i \in 1..Len(more)
    <3>1. CASE i \in 1..Len(rows)
      BY <1>1, <1>2, <2>2, <3>1
    <3>2. CASE i = Len(rows) + 1
      BY <1>1, <1>3, <2>2, <3>2
    <3> QED BY <2>3, <3>1, <3>2
  <2>5. ASSUME NEW i \in 1..Len(more), NEW j \in 1..Len(more), i < j
        PROVE  more[i] < more[j]
    <3>1. i \in 1..Len(rows)
      BY <1>1, <2>2, <2>5
    <3>2. CASE j \in 1..Len(rows)
      BY <2>2, <2>5, <3>1, <3>2 DEF FoundUpTo, Ascending
    <3>3. CASE j = Len(rows) + 1
      BY <1>1, <1>2, <2>2, <3>1, <3>3
    <3> QED BY <2>3, <3>2, <3>3
  <2>6. ASSUME NEW l \in present, behind < l, l <= k PROVE \E i \in 1..Len(more) : more[i] = l
    <3>1. CASE l = k
      <4>1. Len(rows) + 1 \in 1..Len(more)
        BY <1>1, <2>2
      <4> QED BY <2>2, <3>1, <4>1
    <3>2. CASE l # k
      <4>1. l <= k - 1
        BY <1>1, <2>6, <3>2 DEF Keys
      <4>2. PICK i \in 1..Len(rows) : rows[i] = l
        BY <2>6, <4>1 DEF FoundUpTo
      <4>3. i \in 1..Len(more) /\ more[i] = l
        BY <1>1, <2>2, <4>2
      <4> QED BY <4>3
    <3> QED BY <3>1, <3>2
  <2> QED BY <2>1, <2>2, <2>4, <2>5, <2>6 DEF FoundUpTo, Ascending
<1>4. CASE ~(k \in present /\ k > behind)
  <2>1. Found(rows, k, behind) = rows
    BY <1>4 DEF Found
  <2>2. \A l \in present : behind < l /\ l <= k => l <= k - 1
    BY <1>1, <1>4 DEF Keys
  <2>3. \A i \in 1..Len(rows) : rows[i] <= k
    BY <1>1, <1>2
  <2> QED BY <2>1, <2>2, <2>3 DEF FoundUpTo
<1> QED BY <1>3, <1>4

\* What the whole index holds behind a key.
LEMMA FoundAll ==
  ASSUME present \in SUBSET Keys, NEW behind \in Nat, NEW limit \in Nat
  PROVE  \E rows : /\ FoundUpTo(rows, behind, KeyCount)
                   /\ Query(behind, limit) = SubSeq(rows, 1, IF Len(rows) < limit THEN Len(rows) ELSE limit)
<1> USE SizesAssumption
<1> DEFINE n == KeyCount
           V == Seq(Keys)
           g == [p \in V \X (1..n) |-> Found(p[1], p[2], behind)]
           Good(f) == f = [k \in 0..n |-> IF k = 0 THEN <<>> ELSE Found(f[k - 1], k, behind)]
           found == CHOOSE f : Good(f)
           S == {k \in 0..n : FoundUpTo(found[k], behind, k)}
<1>1. <<>> \in V /\ \A c \in V, k \in 1..n : Found(c, k, behind) \in V

  <2>1. \A c \in V, k \in 1..n : Found(c, k, behind) \in V
    <3> TAKE c \in V, k \in 1..n
    <3>1. k \in Keys
      BY DEF Keys
    <3>2. Append(c, k) \in V
      BY <3>1, AppendProperties
    <3> QED BY <3>2 DEF Found
  <2> QED BY <2>1
<1> HIDE DEF V
<1>2. PICK f \in [0..n -> V] : f[0] = <<>> /\ \A k \in 1..n : f[k] = g[<<f[k - 1], k>>]
  <2>1. g \in [V \X (1..n) -> V]
    BY <1>1
  <2> HIDE DEF g
  <2>2. PICK f : Loop(f, n, V, <<>>, g)
    BY <1>1, <2>1, LoopDefined
  <2> QED BY <2>2 DEF Loop
<1>3. Good(f)
  <2>1. ASSUME NEW k \in 1..n PROVE f[k] = Found(f[k - 1], k, behind)
    <3>1. f[k - 1] \in V
      BY <1>2
    <3> QED BY <1>2, <3>1
  <2>2. \A k \in 0..n : f[k] = IF k = 0 THEN <<>> ELSE Found(f[k - 1], k, behind)
    BY <1>2, <2>1
  <2> QED BY <2>2
<1>4. Good(found)
  <2> HIDE DEF Good
  <2> QED BY <1>3
<1>5. Query(behind, limit) = SubSeq(found[n], 1, IF Len(found[n]) < limit THEN Len(found[n]) ELSE limit)
  BY DEF Query
<1> HIDE DEF found
<1>6. found[0] = <<>> /\ \A k \in 1..n : found[k] = Found(found[k - 1], k, behind)
  BY <1>4
<1>7. 0 \in S
  <2>1. FoundUpTo(<<>>, behind, 0)
    <3>1. <<>> \in Seq(Keys) /\ Len(<<>>) = 0
      OBVIOUS
    <3>2. \A k \in present : ~(k <= 0)
      BY DEF Keys
    <3> QED BY <3>1, <3>2 DEF FoundUpTo, Ascending
  <2> QED BY <1>6, <2>1
<1>8. ASSUME NEW k \in 1..n, k - 1 \in S PROVE k \in S
  <2>1. k \in Keys
    BY DEF Keys
  <2>2. FoundUpTo(found[k - 1], behind, k - 1)
    BY <1>8
  <2>3. FoundUpTo(Found(found[k - 1], k, behind), behind, k)
    BY <2>1, <2>2, FoundNext
  <2> QED BY <1>6, <2>3
<1>9. 0..n \subseteq S
  <2> HIDE DEF S
  <2> QED BY <1>7, <1>8, Rounds
<1>10. FoundUpTo(found[n], behind, n)
  BY <1>9
<1> QED BY <1>5, <1>10

\* A query yields the first rows behind its key, in order, and leaves out none.
LEMMA QueryOK ==
  ASSUME present \in SUBSET Keys, NEW behind \in Nat, NEW limit \in Nat
  PROVE  QueryRows(Query(behind, limit), behind, limit)
<1> USE SizesAssumption
<1>1. PICK all : /\ FoundUpTo(all, behind, KeyCount)
                 /\ Query(behind, limit) = SubSeq(all, 1, IF Len(all) < limit THEN Len(all) ELSE limit)
  BY FoundAll
<1> DEFINE m == IF Len(all) < limit THEN Len(all) ELSE limit
           rows == SubSeq(all, 1, m)
<1>2. all \in Seq(Keys) /\ Len(all) \in Nat /\ m \in Nat /\ m <= Len(all) /\ m <= limit
  BY <1>1 DEF FoundUpTo
<1>3. \A i \in 1..m : all[i] \in Keys
  BY <1>2
<1>4. m < Len(all) => m = limit
  BY <1>2
<1> HIDE DEF m
<1>5. rows \in Seq(Keys) /\ Len(rows) = m /\ \A i \in 1..m : rows[i] = all[i]
  <2>1. /\ SubSeq(all, 1, m) \in Seq(Keys)
        /\ Len(SubSeq(all, 1, m)) = IF 1 <= m THEN m - 1 + 1 ELSE 0
        /\ \A i \in 1..(m - 1 + 1) : SubSeq(all, 1, m)[i] = all[1 + i - 1]
    BY <1>2, <1>3, SubSeqProperties
  <2>2. ASSUME NEW i \in 1..m PROVE rows[i] = all[i]
    <3>1. i \in 1..(m - 1 + 1) /\ 1 + i - 1 = i
      BY <1>2
    <3> QED BY <2>1, <3>1
  <2> QED BY <1>2, <2>1, <2>2
<1>6. Query(behind, limit) = rows
  BY <1>1 DEF m
<1> HIDE DEF rows
<1>7. \A i \in 1..m : i \in 1..Len(all)
  BY <1>2
<1>8. \A i \in 1..m : rows[i] \in present /\ behind < rows[i]
  BY <1>1, <1>5, <1>7 DEF FoundUpTo
<1>9. Ascending(rows)
  BY <1>1, <1>5, <1>7 DEF FoundUpTo, Ascending
<1>10. ASSUME NEW k \in present, behind < k, ~\E i \in 1..m : rows[i] = k
       PROVE  m = limit /\ \A i \in 1..m : rows[i] < k
  <2>1. PICK j \in 1..Len(all) : all[j] = k
    BY <1>1, <1>10 DEF FoundUpTo, Keys
  <2>2. j \notin 1..m
    BY <1>5, <1>10, <2>1
  <2>3. m < j /\ m < Len(all)
    BY <1>2, <2>2
  <2>4. ASSUME NEW i \in 1..m PROVE rows[i] < k
    <3>1. i \in 1..Len(all) /\ i < j
      BY <1>2, <1>7, <2>3
    <3>2. all[i] < all[j]
      BY <1>1, <3>1 DEF FoundUpTo, Ascending
    <3> QED BY <1>5, <2>1, <3>2
  <2> QED BY <1>4, <2>3, <2>4
<1>11. QueryRows(rows, behind, limit)
  BY <1>2, <1>5, <1>8, <1>9, <1>10 DEF QueryRows
<1> QED BY <1>6, <1>11
--------------------------------------------------------------------------------
(* One row more *)

\* What the earlier pages have listed are keys and prefixes.
LEMMA OldTypes ==
  ASSUME pages \in Seq(Page)
  PROVE  OldKeys \in Seq(Keys) /\ OldPrefixes \in Seq(Names)
<1> DEFINE n == Len(pages)
           ks == [i \in DOMAIN pages |-> pages[i].keys]
           gs == [i \in DOMAIN pages |-> pages[i].prefixes]
           moreKs == [i \in 1..(n + 1) |-> IF i = n + 1 THEN <<>> ELSE ks[i]]
           moreGs == [i \in 1..(n + 1) |-> IF i = n + 1 THEN <<>> ELSE gs[i]]
<1>1. n \in Nat /\ DOMAIN pages = 1..n /\ \A i \in 1..n : pages[i] \in Page
  OBVIOUS
<1>2. \A i \in 1..n : ks[i] \in Seq(Keys) /\ gs[i] \in Seq(Names)
  BY <1>1 DEF Page
<1>3. DOMAIN ks = 1..n /\ DOMAIN gs = 1..n /\ Len(ks) = n /\ Len(gs) = n
  BY <1>1
<1>4. n = 0 => ks = <<>> /\ gs = <<>>
  BY <1>1
<1> HIDE DEF n, ks, gs
<1>5. /\ DOMAIN moreKs = 1..(n + 1) /\ Len(moreKs) = n + 1
      /\ DOMAIN moreGs = 1..(n + 1) /\ Len(moreGs) = n + 1
  BY <1>1
<1>6. \A i \in 1..n : moreKs[i] = ks[i] /\ moreGs[i] = gs[i]
  BY <1>1
<1>7. moreKs[n + 1] = <<>> /\ moreGs[n + 1] = <<>>
  BY <1>1
<1> HIDE DEF moreKs, moreGs
<1>8. moreKs[n + 1] \in Seq(Keys) /\ moreGs[n + 1] \in Seq(Names)
  BY <1>7
<1>9. FlattenSeq(ks) \in Seq(Keys)
  <2> OneMore(ks, moreKs, n, Keys)
    BY <1>2, <1>3, <1>4, <1>5, <1>6, <1>8 DEF OneMore
  <2> QED BY <1>1, FlattenGrows
<1>10. FlattenSeq(gs) \in Seq(Names)
  <2> OneMore(gs, moreGs, n, Names)
    BY <1>2, <1>3, <1>4, <1>5, <1>6, <1>8 DEF OneMore
  <2> QED BY <1>1, FlattenGrows
<1> QED BY <1>9, <1>10 DEF OldKeys, OldPrefixes, ks, gs

\* A page behind the others: it has been listed last.
LEMMA PagesGrow ==
  ASSUME pages \in Seq(Page), NEW p \in Page, NEW more, more = Append(pages, p)
  PROVE  /\ FlattenSeq([i \in DOMAIN more |-> more[i].keys]) = KeysWith(p)
         /\ FlattenSeq([i \in DOMAIN more |-> more[i].prefixes]) = PrefixesWith(p)
<1> DEFINE n == Len(pages)
           ks == [i \in DOMAIN pages |-> pages[i].keys]
           gs == [i \in DOMAIN pages |-> pages[i].prefixes]
           moreKs == [i \in DOMAIN more |-> more[i].keys]
           moreGs == [i \in DOMAIN more |-> more[i].prefixes]
<1>1. n \in Nat /\ DOMAIN pages = 1..n /\ \A i \in 1..n : pages[i] \in Page
  OBVIOUS
<1>2. /\ more \in Seq(Page) /\ Len(more) = n + 1 /\ DOMAIN more = 1..(n + 1)
      /\ \A i \in 1..n : more[i] = pages[i]
      /\ more[n + 1] = p
  <2>1. /\ more \in Seq(Page) /\ Len(more) = n + 1
        /\ \A i \in 1..n : more[i] = pages[i]
        /\ more[n + 1] = p
    BY AppendProperties
  <2> QED BY <2>1
<1>3. \A i \in 1..n : ks[i] \in Seq(Keys) /\ gs[i] \in Seq(Names)
  BY <1>1 DEF Page
<1>4. DOMAIN ks = 1..n /\ DOMAIN gs = 1..n /\ Len(ks) = n /\ Len(gs) = n
  BY <1>1
<1>5. n = 0 => ks = <<>> /\ gs = <<>>
  BY <1>1
<1>6. /\ DOMAIN moreKs = 1..(n + 1) /\ Len(moreKs) = n + 1
      /\ DOMAIN moreGs = 1..(n + 1) /\ Len(moreGs) = n + 1
  BY <1>1, <1>2
<1>7. \A i \in 1..n : moreKs[i] = ks[i] /\ moreGs[i] = gs[i]
  BY <1>1, <1>2
<1>8. moreKs[n + 1] = p.keys /\ moreGs[n + 1] = p.prefixes
  BY <1>1, <1>2
<1>9. p.keys \in Seq(Keys) /\ p.prefixes \in Seq(Names)
  BY DEF Page
<1>10. OldKeys = FlattenSeq(ks) /\ OldPrefixes = FlattenSeq(gs)
  BY DEF OldKeys, OldPrefixes
<1> HIDE DEF n, ks, gs, moreKs, moreGs
<1>11. moreKs[n + 1] \in Seq(Keys) /\ moreGs[n + 1] \in Seq(Names)
  BY <1>8, <1>9
<1>12. FlattenSeq(moreKs) = FlattenSeq(ks) \o moreKs[n + 1]
  <2>1. DOMAIN ks = 1..n /\ Len(ks) = n /\ (n = 0 => ks = <<>>)
    BY <1>4, <1>5
  <2>2. \A i \in 1..n : ks[i] \in Seq(Keys) /\ moreKs[i] = ks[i]
    BY <1>3, <1>7
  <2>3. DOMAIN moreKs = 1..(n + 1) /\ Len(moreKs) = n + 1 /\ moreKs[n + 1] \in Seq(Keys)
    BY <1>6, <1>11
  <2>4. OneMore(ks, moreKs, n, Keys)
    BY <2>1, <2>2, <2>3 DEF OneMore
  <2>5. n \in Nat
    BY <1>1
  <2> QED BY <2>4, <2>5, FlattenGrows, ZenonT(60)
<1>13. FlattenSeq(moreGs) = FlattenSeq(gs) \o moreGs[n + 1]
  <2>1. DOMAIN gs = 1..n /\ Len(gs) = n /\ (n = 0 => gs = <<>>)
    BY <1>4, <1>5
  <2>2. \A i \in 1..n : gs[i] \in Seq(Names) /\ moreGs[i] = gs[i]
    BY <1>3, <1>7
  <2>3. DOMAIN moreGs = 1..(n + 1) /\ Len(moreGs) = n + 1 /\ moreGs[n + 1] \in Seq(Names)
    BY <1>6, <1>11
  <2>4. OneMore(gs, moreGs, n, Names)
    BY <2>1, <2>2, <2>3 DEF OneMore
  <2>5. n \in Nat
    BY <1>1
  <2> QED BY <2>4, <2>5, FlattenGrows, ZenonT(60)
<1>14. FlattenSeq(moreKs) = KeysWith(p)
  BY <1>8, <1>10, <1>12, Zenon DEF KeysWith
<1>15. FlattenSeq(moreGs) = PrefixesWith(p)
  BY <1>8, <1>10, <1>13, Zenon DEF PrefixesWith
<1> QED BY <1>14, <1>15 DEF moreKs, moreGs

\* A row listed by its key.
LEMMA AddedKey ==
  ASSUME pages \in Seq(Page), NEW p \in Page, NEW k \in Keys
  PROVE  /\ AddKey(p, k) \in Page
         /\ AddKey(p, k).prefixes = p.prefixes
         /\ Len(AddKey(p, k).keys) = Len(p.keys) + 1
         /\ Emitted(AddKey(p, k)) = Emitted(p) + 1
         /\ KeysWith(AddKey(p, k)) = Append(KeysWith(p), k)
         /\ PrefixesWith(AddKey(p, k)) = PrefixesWith(p)
         /\ KeysWith(p) \in Seq(Keys) /\ PrefixesWith(p) \in Seq(Names)
<1> DEFINE q == AddKey(p, k)
<1>1. p.keys \in Seq(Keys) /\ p.prefixes \in Seq(Names) /\ OldKeys \in Seq(Keys) /\ OldPrefixes \in Seq(Names)
  BY OldTypes DEF Page
<1>2. Append(p.keys, k) \in Seq(Keys) /\ Len(Append(p.keys, k)) = Len(p.keys) + 1
  BY <1>1, AppendProperties
<1>3. q.keys = Append(p.keys, k) /\ q.prefixes = p.prefixes /\ q \in Page
  BY <1>1, <1>2 DEF AddKey, Page
<1> HIDE DEF q
<1>4. KeysWith(q) = Append(KeysWith(p), k)
  <2>1. OldKeys \o Append(p.keys, k) = Append(OldKeys \o p.keys, k)
    BY <1>1, ConcatAppend
  <2> QED BY <1>3, <2>1, Zenon DEF KeysWith
<1>5. PrefixesWith(q) = PrefixesWith(p)
  BY <1>3, Zenon DEF PrefixesWith
<1>6. KeysWith(p) \in Seq(Keys) /\ PrefixesWith(p) \in Seq(Names)
  BY <1>1, ConcatProperties DEF KeysWith, PrefixesWith
<1>7. Emitted(q) = Emitted(p) + 1
  <2> Len(p.keys) \in Nat /\ Len(p.prefixes) \in Nat
    BY <1>1
  <2>1. Len(q.keys) = Len(p.keys) + 1
    BY <1>2, <1>3, Zenon
  <2>2. Len(q.prefixes) = Len(p.prefixes)
    BY <1>3, Zenon
  <2>3. \A a, b \in Nat : (a + 1) + b = a + b + 1 /\ a + (b + 1) = a + b + 1
    OBVIOUS
  <2> QED BY <2>1, <2>2, <2>3, Zenon DEF Emitted
<1> QED BY <1>2, <1>3, <1>4, <1>5, <1>6, <1>7 DEF q

\* A row listed by its common prefix.
LEMMA AddedPrefix ==
  ASSUME pages \in Seq(Page), NEW p \in Page, NEW k \in Keys
  PROVE  /\ AddPrefix(p, k) \in Page
         /\ AddPrefix(p, k).keys = p.keys
         /\ AddPrefix(p, k).prefixes = Append(p.prefixes, Group[k])
         /\ Emitted(AddPrefix(p, k)) = Emitted(p) + 1
         /\ KeysWith(AddPrefix(p, k)) = KeysWith(p)
         /\ PrefixesWith(AddPrefix(p, k)) = Append(PrefixesWith(p), Group[k])
         /\ KeysWith(p) \in Seq(Keys) /\ PrefixesWith(p) \in Seq(Names) /\ Group[k] \in Names
<1> DEFINE q == AddPrefix(p, k)
<1>1. p.keys \in Seq(Keys) /\ p.prefixes \in Seq(Names) /\ OldKeys \in Seq(Keys) /\ OldPrefixes \in Seq(Names)
  BY OldTypes DEF Page
<1>2. Group[k] \in Names
  BY DEF Names
<1>3. Append(p.prefixes, Group[k]) \in Seq(Names) /\ Len(Append(p.prefixes, Group[k])) = Len(p.prefixes) + 1
  BY <1>1, <1>2, AppendProperties
<1>4. q.keys = p.keys /\ q.prefixes = Append(p.prefixes, Group[k]) /\ q \in Page
  BY <1>1, <1>3 DEF AddPrefix, Page
<1> HIDE DEF q
<1>5. PrefixesWith(q) = Append(PrefixesWith(p), Group[k])
  <2>0. OldPrefixes \in Seq(Names) /\ p.prefixes \in Seq(Names)
    BY <1>1
  <2>1. OldPrefixes \o Append(p.prefixes, Group[k]) = Append(OldPrefixes \o p.prefixes, Group[k])
    BY <1>2, <2>0, ConcatAppend
  <2>2. PrefixesWith(q) = OldPrefixes \o q.prefixes /\ PrefixesWith(p) = OldPrefixes \o p.prefixes
    BY DEF PrefixesWith
  <2> QED BY <1>4, <2>1, <2>2
<1>6. KeysWith(q) = KeysWith(p)
  BY <1>4, Zenon DEF KeysWith
<1>7. KeysWith(p) \in Seq(Keys) /\ PrefixesWith(p) \in Seq(Names)
  BY <1>1, ConcatProperties DEF KeysWith, PrefixesWith
<1>8. Emitted(q) = Emitted(p) + 1
  <2> Len(p.keys) \in Nat /\ Len(p.prefixes) \in Nat
    BY <1>1
  <2>1. Len(q.prefixes) = Len(p.prefixes) + 1
    BY <1>3, <1>4, Zenon
  <2>2. Len(q.keys) = Len(p.keys)
    BY <1>4, Zenon
  <2>3. \A a, b \in Nat : (a + 1) + b = a + b + 1 /\ a + (b + 1) = a + b + 1
    OBVIOUS
  <2> QED BY <2>1, <2>2, <2>3, Zenon DEF Emitted
<1> QED BY <1>2, <1>4, <1>5, <1>6, <1>7, <1>8 DEF q

\* No key that was there all the time lies between the cursor and key k.
NextUp(cursor, k) == k \in Keys /\ cursor < k /\ \A j \in steady : cursor < j => k <= j

\* The cursor may move over what has been listed in another way.
LEMMA CursorMoves ==
  ASSUME TypeOK, NEW p, NEW c, ListedUpTo(p, c), NEW d \in 0..KeyCount, c <= d,
         \A k \in steady : c < k /\ k <= d => Listed(p, k)
  PROVE  ListedUpTo(p, d)
<1> USE SizesAssumption
<1>1. c \in 0..KeyCount /\ c \in Int /\ d \in Int
  BY DEF ListedUpTo
<1>2. Ascends(KeysWith(p), d)
  <2>1. Ascends(KeysWith(p), c)
    BY DEF ListedUpTo
  <2>2. \A i \in 1..Len(KeysWith(p)) : KeysWith(p)[i] \in Int
    BY <2>1 DEF Ascends, Keys
  <2>3. \A i \in 1..Len(KeysWith(p)) : KeysWith(p)[i] <= d
    BY <1>1, <2>1, <2>2 DEF Ascends
  <2> QED BY <2>1, <2>3 DEF Ascends
<1>3. \A g \in ToSet(p.prefixes) : g # None /\ \E j \in Keys : j <= d /\ Group[j] = g
  <2> TAKE g \in ToSet(p.prefixes)
  <2>1. g # None
    BY DEF ListedUpTo
  <2>2. PICK j \in Keys : j <= c /\ Group[j] = g
    BY DEF ListedUpTo
  <2>3. j <= d
    BY <1>1, <2>2 DEF Keys
  <2> QED BY <2>1, <2>2, <2>3
<1>4. \A k \in steady : k <= d => Listed(p, k)
  <2> TAKE k \in steady
  <2>1. k \in Int
    BY DEF TypeOK, Keys
  <2>2. k <= c \/ c < k
    BY <1>1, <2>1
  <2> QED BY <2>2 DEF ListedUpTo
<1> QED BY <1>2, <1>3, <1>4 DEF ListedUpTo

\* The next row is listed by its key.
LEMMA KeyListed ==
  ASSUME TypeOK, NEW p, NEW c, ListedUpTo(p, c), NEW k, NextUp(c, k)
  PROVE  ListedUpTo(AddKey(p, k), k)
<1> USE SizesAssumption
<1> DEFINE q == AddKey(p, k)
           old == KeysWith(p)
           new == KeysWith(q)
<1>1. pages \in Seq(Page) /\ p \in Page /\ k \in Keys /\ c \in Nat /\ c < k /\ k \in Nat /\ k \in 0..KeyCount
  BY DEF TypeOK, ListedUpTo, NextUp, Keys
<1>2. /\ q \in Page /\ q.prefixes = p.prefixes
      /\ new = Append(old, k)
      /\ PrefixesWith(q) = PrefixesWith(p)
      /\ old \in Seq(Keys)
  BY <1>1, AddedKey
<1> HIDE DEF q, old, new
<1>3. /\ new \in Seq(Keys) /\ Len(new) = Len(old) + 1 /\ Len(old) \in Nat
      /\ \A i \in 1..Len(old) : new[i] = old[i]
      /\ new[Len(old) + 1] = k
  BY <1>1, <1>2, AppendProperties
<1>4. ToSet(new) = ToSet(old) \cup {k}
  BY <1>1, <1>2, AppendSet
<1>5. \A i \in 1..Len(old) : old[i] <= c /\ old[i] \in Nat
  BY <1>2 DEF ListedUpTo, Ascends, Keys, old
<1>6. \A i \in 1..Len(new) : i \in 1..Len(old) \/ i = Len(old) + 1
  BY <1>3
<1>7. \A i \in 1..Len(new) : new[i] <= k
  BY <1>1, <1>3, <1>5, <1>6
<1>8. ASSUME NEW i \in 1..Len(new), NEW j \in 1..Len(new), i < j PROVE new[i] < new[j]
  <2>1. i \in 1..Len(old)
    BY <1>3, <1>8
  <2>2. CASE j \in 1..Len(old)
    <3>1. old[i] < old[j]
      BY <1>8, <2>1, <2>2 DEF ListedUpTo, Ascends, old
    <3> QED BY <1>3, <2>1, <2>2, <3>1
  <2>3. CASE j = Len(old) + 1
    <3>1. new[i] <= c /\ new[i] \in Nat
      BY <1>3, <1>5, <2>1
    <3>2. new[j] = k
      BY <1>3, <2>3
    <3> QED BY <1>1, <3>1, <3>2
  <2> QED BY <1>6, <2>2, <2>3
<1>9. Ascends(new, k)
  BY <1>3, <1>7, <1>8 DEF Ascends
<1>10. \A g \in ToSet(q.prefixes) : g # None /\ \E j \in Keys : j <= k /\ Group[j] = g
  <2> TAKE g \in ToSet(q.prefixes)
  <2>1. g \in ToSet(p.prefixes)
    BY <1>2
  <2>2. g # None
    BY <2>1 DEF ListedUpTo
  <2>3. PICK j \in Keys : j <= c /\ Group[j] = g
    BY <2>1 DEF ListedUpTo
  <2>4. j <= k
    BY <1>1, <2>3 DEF Keys
  <2> QED BY <2>2, <2>3, <2>4
<1>11. ASSUME NEW j \in steady, j <= k PROVE Listed(q, j)
  <2>1. j \in Nat
    BY DEF TypeOK, Keys
  <2>2. CASE j = k
    BY <1>4, <2>2 DEF Listed, new
  <2>3. CASE j # k
    <3>1. j <= c
      BY <1>1, <1>11, <2>1, <2>3 DEF NextUp
    <3>2. Listed(p, j)
      BY <3>1 DEF ListedUpTo
    <3> QED BY <1>2, <1>4, <3>2 DEF Listed, old, new
  <2> QED BY <2>2, <2>3
<1>12. IsInjective(q.prefixes) /\ (writes = 0 => IsInjective(PrefixesWith(q)))
  BY <1>2 DEF ListedUpTo
<1> QED BY <1>1, <1>2, <1>9, <1>10, <1>11, <1>12 DEF ListedUpTo, q, new

\* It is listed by its common prefix, which has not been listed yet.
LEMMA PrefixListed ==
  ASSUME TypeOK, NEW p, NEW c, ListedUpTo(p, c), NEW k, NextUp(c, k),
         Group[k] # None, Group[k] \notin ToSet(p.prefixes),
         writes = 0 => Group[k] \notin ToSet(OldPrefixes)
  PROVE  ListedUpTo(AddPrefix(p, k), k)
<1> USE SizesAssumption
<1> DEFINE q == AddPrefix(p, k)
           old == PrefixesWith(p)
           new == PrefixesWith(q)
           g == Group[k]
<1>1. pages \in Seq(Page) /\ p \in Page /\ k \in Keys /\ c \in Nat /\ c < k /\ k \in Nat /\ k \in 0..KeyCount
  BY DEF TypeOK, ListedUpTo, NextUp, Keys
<1>2. /\ q \in Page /\ q.prefixes = Append(p.prefixes, g)
      /\ new = Append(old, g)
      /\ KeysWith(q) = KeysWith(p)
      /\ old \in Seq(Names) /\ g \in Names
  BY <1>1, AddedPrefix
<1>3. p.prefixes \in Seq(Names) /\ OldPrefixes \in Seq(Names)
  BY <1>1, OldTypes DEF Page
<1>4. ToSet(old) = ToSet(OldPrefixes) \cup ToSet(p.prefixes)
  BY <1>3, ConcatSet DEF PrefixesWith
<1> HIDE DEF q, old, new, g
<1>5. ToSet(new) = ToSet(old) \cup {g} /\ ToSet(q.prefixes) = ToSet(p.prefixes) \cup {g}
  BY <1>2, <1>3, AppendSet
<1>6. IsInjective(q.prefixes)
  BY <1>2, <1>3, AppendInjection DEF ListedUpTo, g
<1>7. writes = 0 => IsInjective(new)
  <2>1. SUFFICES ASSUME writes = 0 PROVE IsInjective(new)
    OBVIOUS
  <2>2. IsInjective(old) /\ g \notin ToSet(old)
    BY <1>4, <2>1 DEF ListedUpTo, old, g
  <2> QED BY <1>2, <2>2, AppendInjection
<1>8. Ascends(KeysWith(q), k)
  <2>1. Ascends(KeysWith(p), c)
    BY DEF ListedUpTo
  <2>2. \A i \in 1..Len(KeysWith(p)) : KeysWith(p)[i] \in Nat
    BY <2>1 DEF Ascends, Keys
  <2>3. \A i \in 1..Len(KeysWith(p)) : KeysWith(p)[i] <= k
    BY <1>1, <2>1, <2>2 DEF Ascends
  <2>4. Ascends(KeysWith(p), k)
    BY <2>1, <2>3 DEF Ascends
  <2> QED BY <1>2, <2>4
<1>9. \A h \in ToSet(q.prefixes) : h # None /\ \E j \in Keys : j <= k /\ Group[j] = h
  <2> TAKE h \in ToSet(q.prefixes)
  <2>1. CASE h = g
    BY <1>1, <2>1 DEF g
  <2>2. CASE h # g
    <3>1. h \in ToSet(p.prefixes)
      BY <1>5, <2>2
    <3>2. h # None
      BY <3>1 DEF ListedUpTo
    <3>3. PICK j \in Keys : j <= c /\ Group[j] = h
      BY <3>1 DEF ListedUpTo
    <3>4. j <= k
      BY <1>1, <3>3 DEF Keys
    <3> QED BY <3>2, <3>3, <3>4
  <2> QED BY <2>1, <2>2
<1>10. ASSUME NEW j \in steady, j <= k PROVE Listed(q, j)
  <2>1. j \in Nat
    BY DEF TypeOK, Keys
  <2>2. CASE j = k
    BY <1>5, <2>2 DEF Listed, new, g
  <2>3. CASE j # k
    <3>1. j <= c
      BY <1>1, <1>10, <2>1, <2>3 DEF NextUp
    <3>2. Listed(p, j)
      BY <3>1 DEF ListedUpTo
    <3> QED BY <1>2, <1>5, <3>2 DEF Listed, old, new
  <2> QED BY <2>2, <2>3
<1> QED BY <1>1, <1>2, <1>6, <1>7, <1>8, <1>9, <1>10 DEF ListedUpTo, q, new

\* It is listed already.
LEMMA RowSkipped ==
  ASSUME TypeOK, NEW p, NEW c, ListedUpTo(p, c), NEW k, NextUp(c, k), Listed(p, k)
  PROVE  ListedUpTo(p, k)
<1> USE SizesAssumption
<1>1. k \in 0..KeyCount /\ c \in Int /\ c <= k
  BY DEF NextUp, Keys, ListedUpTo
<1>2. \A j \in steady : c < j /\ j <= k => j = k
  BY DEF NextUp, TypeOK, Keys
<1>3. \A j \in steady : c < j /\ j <= k => Listed(p, j)
  BY <1>2
<1> QED BY <1>1, <1>3, CursorMoves

\* From one row of a query to the next no key is left out.
LEMMA RowsNextUp ==
  ASSUME TypeOK, NEW limit \in Nat, NEW rows, NEW behind \in Nat, QueryRows(rows, behind, limit), NEW i \in 1..Len(rows)
  PROVE  NextUp(IF i = 1 THEN behind ELSE rows[i - 1], rows[i])
<1> USE SizesAssumption
<1> DEFINE c == IF i = 1 THEN behind ELSE rows[i - 1]
<1>1. rows \in Seq(Keys) /\ rows[i] \in Keys /\ Len(rows) \in Nat
  BY DEF QueryRows
<1>2. \A m \in 1..Len(rows) : rows[m] \in Nat /\ behind < rows[m]
  BY DEF QueryRows, Keys
<1>3. c < rows[i] /\ c \in Nat /\ behind <= c
  <2>1. CASE i = 1
    BY <1>2, <2>1
  <2>2. CASE i # 1
    <3>1. i - 1 \in 1..Len(rows) /\ i - 1 < i
      BY <1>1, <2>2
    <3>2. rows[i - 1] < rows[i]
      BY <3>1 DEF QueryRows, Ascending
    <3> QED BY <1>2, <2>2, <3>1, <3>2
  <2> QED BY <2>1, <2>2
<1>5. ASSUME NEW j \in steady, c < j PROVE rows[i] <= j
  <2>1. j \in present /\ j \in Nat
    BY DEF TypeOK, Keys
  <2>2. behind < j
    BY <1>3, <1>5, <2>1
  <2>3. \/ \E m \in 1..Len(rows) : rows[m] = j
        \/ \A m \in 1..Len(rows) : rows[m] < j
    BY <2>1, <2>2 DEF QueryRows
  <2>4. CASE \A m \in 1..Len(rows) : rows[m] < j
    BY <1>1, <2>1, <2>4 DEF Keys
  <2>5. CASE \E m \in 1..Len(rows) : rows[m] = j
    <3>1. PICK m \in 1..Len(rows) : rows[m] = j
      BY <2>5
    <3>2. CASE m < i
      <4>1. i - 1 \in 1..Len(rows) /\ i # 1 /\ m <= i - 1
        BY <3>2
      <4>2. m = i - 1 \/ rows[m] < rows[i - 1]
        BY <3>1, <4>1 DEF QueryRows, Ascending
      <4> QED BY <1>2, <1>3, <1>5, <2>1, <3>1, <4>1, <4>2
    <3>3. CASE m = i
      BY <3>1, <3>3, <2>1
    <3>4. CASE i < m
      <4>1. rows[i] < rows[m]
        BY <3>1, <3>4 DEF QueryRows, Ascending
      <4> QED BY <1>1, <2>1, <3>1, <4>1 DEF Keys
    <3> QED BY <3>2, <3>3, <3>4
  <2> QED BY <2>3, <2>4, <2>5
<1> QED BY <1>1, <1>3, <1>5 DEF NextUp
--------------------------------------------------------------------------------
(* The rows of a query *)

\* Before the first page is returned, nothing is listed but what the page has.
LEMMA NoOldPages == pages = <<>> => OldKeys = <<>> /\ OldPrefixes = <<>>
<1> SUFFICES ASSUME pages = <<>> PROVE OldKeys = <<>> /\ OldPrefixes = <<>>
  OBVIOUS
<1> DEFINE ks == [i \in DOMAIN pages |-> pages[i].keys]
           gs == [i \in DOMAIN pages |-> pages[i].prefixes]
<1>1. ks = <<>> /\ gs = <<>>
  OBVIOUS
<1>2. OldKeys = FlattenSeq(ks) /\ OldPrefixes = FlattenSeq(gs)
  BY DEF OldKeys, OldPrefixes
<1> HIDE DEF ks, gs
<1> QED BY <1>1, <1>2 DEF FlattenSeq

\* A line of one of the walks that are one loop.
LEMMA LineListed ==
  ASSUME TypeOK, pages = <<>>, NEW p, NEW c, ListedUpTo(p, c), NEW k, NextUp(c, k)
  PROVE  /\ ListedUpTo(Line(p, k), k)
         /\ walk \in {"ls", "lsLimited"} =>
              Line(p, k).prefixes = p.prefixes /\ Len(Line(p, k).keys) = Len(p.keys) + 1
<1>1. /\ p \in Page /\ k \in Keys /\ pages \in Seq(Page)
      /\ walk \in {"pages", "ls", "lsLimited", "lsd", "children"}
  BY DEF ListedUpTo, NextUp, TypeOK
<1>2. p.prefixes \in Seq(Names) /\ OldPrefixes = <<>> /\ OldPrefixes \in Seq(Names)
  BY <1>1, NoOldPages, OldTypes DEF Page
<1>3. ToSet(OldPrefixes) = {}
  BY <1>2 DEF ToSet
<1>4. ToSet(p.prefixes) \subseteq ToSet(PrefixesWith(p))
  BY <1>2, ConcatSet DEF PrefixesWith
<1>5. ListedUpTo(AddKey(p, k), k)
  BY KeyListed
<1>6. AddKey(p, k).prefixes = p.prefixes /\ Len(AddKey(p, k).keys) = Len(p.keys) + 1
  BY <1>1, AddedKey
<1>7. CASE walk = "lsd"
  <2>1. Line(p, k) = PrefixOf(p, k)
    BY <1>7 DEF Line
  <2>2. CASE Group[k] = None \/ Group[k] \in ToSet(p.prefixes)
    <3>1. Listed(p, k)
      BY <1>4, <1>7, <2>2 DEF Listed
    <3>2. Line(p, k) = p
      BY <2>1, <2>2 DEF PrefixOf
    <3> QED BY <1>7, <3>1, <3>2, RowSkipped
  <2>3. CASE ~(Group[k] = None \/ Group[k] \in ToSet(p.prefixes))
    <3>1. Line(p, k) = AddPrefix(p, k)
      BY <2>1, <2>3 DEF PrefixOf
    <3> QED BY <1>3, <1>7, <2>3, <3>1, PrefixListed
  <2> QED BY <2>2, <2>3
<1>8. CASE walk = "children"
  <2>1. Line(p, k) = ChildOf(p, k)
    BY <1>8 DEF Line
  <2>0. CASE k = Marker
    <3>1. Listed(p, k)
      BY <1>8, <2>0 DEF Listed
    <3>2. Line(p, k) = p
      BY <2>0, <2>1 DEF ChildOf
    <3> QED BY <1>8, <3>1, <3>2, RowSkipped
  <2>2. CASE k # Marker /\ Group[k] = None
    BY <1>5, <1>8, <2>1, <2>2 DEF ChildOf
  <2>3. CASE k # Marker /\ Group[k] # None /\ Group[k] \in ToSet(p.prefixes)
    <3>1. Listed(p, k)
      BY <1>4, <2>3 DEF Listed
    <3>2. Line(p, k) = p
      BY <2>1, <2>3 DEF ChildOf, PrefixOf
    <3> QED BY <1>8, <3>1, <3>2, RowSkipped
  <2>4. CASE k # Marker /\ Group[k] # None /\ Group[k] \notin ToSet(p.prefixes)
    <3>1. Line(p, k) = AddPrefix(p, k)
      BY <2>1, <2>4 DEF ChildOf, PrefixOf
    <3> QED BY <1>3, <1>8, <2>4, <3>1, PrefixListed
  <2> QED BY <2>0, <2>2, <2>3, <2>4
<1>9. CASE walk \notin {"lsd", "children"}
  <2>1. Line(p, k) = AddKey(p, k)
    BY <1>9 DEF Line
  <2> QED BY <1>5, <1>6, <2>1
<1> QED BY <1>7, <1>8, <1>9

\* A line of the other walks leaves a page a page.
LEMMA LineType == ASSUME NEW p \in Page, NEW k \in Keys, pages \in Seq(Page) PROVE Line(p, k) \in Page
<1>1. AddKey(p, k) \in Page /\ AddPrefix(p, k) \in Page
  BY AddedKey, AddedPrefix
<1>2. PrefixOf(p, k) \in Page
  BY <1>1 DEF PrefixOf
<1>3. ChildOf(p, k) \in Page
  BY <1>1, <1>2 DEF ChildOf
<1>4. CASE walk = "lsd"
  BY <1>2, <1>4 DEF Line
<1>5. CASE walk = "children"
  BY <1>3, <1>5 DEF Line
<1>6. CASE walk \notin {"lsd", "children"}
  BY <1>1, <1>6 DEF Line
<1> QED BY <1>4, <1>5, <1>6

\* The page as the rows make it, one after the other.
LEMMA LinesBuilt ==
  ASSUME pages \in Seq(Page), page \in Page, NEW n \in Nat, NEW rows \in Seq(Keys), Len(rows) = n
  PROVE  \E built : /\ built[0] = page /\ built[n] = Lines(rows)
                    /\ \A i \in 1..n : built[i] = Line(built[i - 1], rows[i])
<1> DEFINE V == Page
           g == [p \in V \X (1..n) |-> Line(p[1], rows[p[2]])]
           Good(f) == f = [i \in 0..n |-> IF i = 0 THEN page ELSE Line(f[i - 1], rows[i])]
           built == CHOOSE f : Good(f)
<1>1. page \in V /\ \A c \in V, i \in 1..n : Line(c, rows[i]) \in V
  BY LineType
<1> HIDE DEF V
<1>2. PICK f \in [0..n -> V] : f[0] = page /\ \A i \in 1..n : f[i] = g[<<f[i - 1], i>>]
  <2>1. g \in [V \X (1..n) -> V]
    BY <1>1
  <2> HIDE DEF g
  <2>2. PICK f : Loop(f, n, V, page, g)
    BY <1>1, <2>1, LoopDefined
  <2> QED BY <2>2 DEF Loop
<1>3. Good(f)
  <2>1. ASSUME NEW i \in 1..n PROVE f[i] = Line(f[i - 1], rows[i])
    <3>1. f[i - 1] \in V
      BY <1>2
    <3> QED BY <1>2, <3>1
  <2>2. \A i \in 0..n : f[i] = IF i = 0 THEN page ELSE Line(f[i - 1], rows[i])
    BY <1>2, <2>1
  <2> QED BY <2>2
<1>4. Good(built)
  <2> HIDE DEF Good
  <2> QED BY <1>3
<1>5. Lines(rows) = built[n]
  BY DEF Lines
<1> HIDE DEF built
<1>6. built[0] = page /\ \A i \in 1..n : built[i] = Line(built[i - 1], rows[i])
  BY <1>4
<1> QED BY <1>5, <1>6

\* What a query adds to the page of one of these walks.
LEMMA LinesListed ==
  ASSUME TypeOK, pages = <<>>, ListedUpTo(page, after),
         NEW limit \in Nat, NEW rows, QueryRows(rows, after, limit)
  PROVE  /\ ListedUpTo(Lines(rows), IF rows = <<>> THEN after ELSE rows[Len(rows)])
         /\ walk \in {"ls", "lsLimited"} =>
              Lines(rows).prefixes = page.prefixes /\ Len(Lines(rows).keys) = Len(page.keys) + Len(rows)
<1> DEFINE n == Len(rows)
           cursor(i) == IF i = 0 THEN after ELSE rows[i]
           Right(p, i) ==
             /\ ListedUpTo(p, cursor(i))
             /\ walk \in {"ls", "lsLimited"} =>
                  p.prefixes = page.prefixes /\ Len(p.keys) = Len(page.keys) + i
<1>1. rows \in Seq(Keys) /\ n \in Nat /\ after \in Nat /\ page \in Page /\ pages \in Seq(Page)
  BY DEF QueryRows, TypeOK
<1>2. PICK built : /\ built[0] = page /\ built[n] = Lines(rows)
                   /\ \A i \in 1..n : built[i] = Line(built[i - 1], rows[i])
  BY <1>1, LinesBuilt
<1>3. \A i \in 1..n : NextUp(cursor(i - 1), rows[i])
  <2> TAKE i \in 1..n
  <2>1. NextUp(IF i = 1 THEN after ELSE rows[i - 1], rows[i])
    BY <1>1, RowsNextUp
  <2> QED BY <2>1
<1> HIDE DEF n, cursor
<1>4. Len(page.keys) \in Nat
  BY <1>1 DEF Page
<1> DEFINE S == {i \in 0..n : Right(built[i], i)}
<1>5. 0 \in S
  <2>1. cursor(0) = after
    BY DEF cursor
  <2> QED BY <1>1, <1>2, <1>4, <2>1
<1>6. ASSUME NEW i \in 1..n, i - 1 \in S PROVE i \in S
  <2>1. Right(built[i - 1], i - 1)
    BY <1>6
  <2>2. cursor(i) = rows[i]
    BY DEF cursor
  <2>3. ListedUpTo(Line(built[i - 1], rows[i]), rows[i])
    BY <1>3, <2>1, LineListed
  <2>4. walk \in {"ls", "lsLimited"} =>
          /\ Line(built[i - 1], rows[i]).prefixes = built[i - 1].prefixes
          /\ Len(Line(built[i - 1], rows[i]).keys) = Len(built[i - 1].keys) + 1
    BY <1>3, <2>1, LineListed
  <2>5. built[i] = Line(built[i - 1], rows[i])
    BY <1>2
  <2>6. ListedUpTo(built[i], cursor(i))
    BY <2>2, <2>3, <2>5
  <2>7. walk \in {"ls", "lsLimited"} =>
          built[i].prefixes = page.prefixes /\ Len(built[i].keys) = Len(page.keys) + i
    <3> SUFFICES ASSUME walk \in {"ls", "lsLimited"}
                 PROVE  built[i].prefixes = page.prefixes /\ Len(built[i].keys) = Len(page.keys) + i
      OBVIOUS
    <3>1. Len(built[i].keys) = Len(built[i - 1].keys) + 1 /\ built[i].prefixes = built[i - 1].prefixes
      BY <2>4, <2>5
    <3>2. Len(built[i - 1].keys) = Len(page.keys) + (i - 1) /\ built[i - 1].prefixes = page.prefixes
      BY <2>1
    <3> QED BY <1>4, <3>1, <3>2
  <2> QED BY <2>6, <2>7
<1>7. 0..n \subseteq S
  <2> HIDE DEF S
  <2> QED BY <1>1, <1>5, <1>6, Rounds
<1>8. Right(Lines(rows), n)
  <2>1. n \in S
    BY <1>1, <1>7
  <2> QED BY <1>2, <2>1
<1>9. cursor(n) = IF rows = <<>> THEN after ELSE rows[Len(rows)]
  BY <1>1 DEF cursor, n
<1> QED BY <1>8, <1>9 DEF n

\* What the loop of ListObjects carries from row to row.
Acc == [page : Page, next : 0..KeyCount, full : BOOLEAN, past : Names \cup {None}]
Cursor(acc) == IF acc.next = 0 THEN after ELSE acc.next
Stopped(acc) == acc.full \/ acc.past # None

\* The page under way has all rows up to the cursor; the loop goes on at cursor c, or
\* it has stopped behind a last entry.
AccOK(acc, c) ==
  /\ acc \in Acc
  /\ ListedUpTo(acc.page, Cursor(acc))
  /\ after <= Cursor(acc)
  /\ Emitted(acc.page) <= Limit
  /\ ~Stopped(acc) => Emitted(acc.page) < Limit /\ Cursor(acc) = c
  /\ acc.past # None =>
       /\ acc.next # 0 /\ acc.page.prefixes # <<>>
       /\ Group[acc.next] = acc.page.prefixes[Len(acc.page.prefixes)]
  /\ acc.full => acc.next # 0 /\ Group[acc.next] = None /\ acc.past = None

\* A row leaves the state of the loop well formed.
LEMMA RowType == ASSUME NEW acc \in Acc, NEW k \in Keys, pages \in Seq(Page) PROVE Row(acc, k) \in Acc
<1> USE SizesAssumption
<1>1. acc.page \in Page /\ k \in 0..KeyCount
  BY DEF Acc, Keys
<1>2. AddKey(acc.page, k) \in Page /\ AddPrefix(acc.page, k) \in Page /\ Group[k] \in Names
  BY <1>1, AddedKey, AddedPrefix
<1>3. CASE acc.full \/ acc.past # None
  BY <1>3 DEF Row
<1>4. CASE ~(acc.full \/ acc.past # None) /\ (Group[k] # None /\ Group[k] \in ToSet(acc.page.prefixes))
  BY <1>1, <1>4 DEF Row, Acc
<1>5. CASE ~(acc.full \/ acc.past # None) /\ ~(Group[k] # None /\ Group[k] \in ToSet(acc.page.prefixes))
  <2> DEFINE p == IF Group[k] = None THEN AddKey(acc.page, k) ELSE AddPrefix(acc.page, k)
  <2>1. p \in Page
    BY <1>2
  <2>2. Row(acc, k) = [page |-> p, next |-> k, full |-> Group[k] = None /\ Emitted(p) >= Limit,
                       past |-> IF Group[k] # None /\ Emitted(p) >= Limit THEN Group[k] ELSE None]
    BY <1>5 DEF Row
  <2> HIDE DEF p
  <2> QED BY <1>1, <1>2, <2>1, <2>2 DEF Acc
<1> QED BY <1>3, <1>4, <1>5

\* One row of the loop.
LEMMA RowOK ==
  ASSUME TypeOK, writes = 0 => Passed(OldPrefixes), NEW acc, NEW c, AccOK(acc, c),
         NEW k \in present, NextUp(c, k), after < k
  PROVE  AccOK(Row(acc, k), k) /\ Row(acc, k).next # 0
<1> USE SizesAssumption
<1>1. /\ pages \in Seq(Page) /\ acc \in Acc /\ acc.page \in Page /\ k \in Keys /\ k # 0 /\ k \in Nat
      /\ after \in Nat /\ Group[k] \in Names
  BY DEF AccOK, Acc, TypeOK, Keys, Names
<1>2. Row(acc, k) \in Acc
  BY <1>1, RowType
<1>3. CASE Stopped(acc)
  <2>1. Row(acc, k) = acc
    BY <1>3 DEF Row, Stopped
  <2>2. acc.next # 0
    BY <1>3 DEF AccOK, Stopped
  <2> QED BY <1>3, <2>1, <2>2 DEF AccOK
<1>4. CASE ~Stopped(acc)
  <2>1. /\ ListedUpTo(acc.page, c) /\ ~acc.full /\ acc.past = None
        /\ Emitted(acc.page) < Limit
    BY <1>4 DEF AccOK, Stopped
  <2>2. acc.page.keys \in Seq(Keys) /\ acc.page.prefixes \in Seq(Names) /\ Emitted(acc.page) \in Nat
    <3>1. acc.page.keys \in Seq(Keys) /\ acc.page.prefixes \in Seq(Names)
      BY <1>1 DEF Page
    <3>2. Len(acc.page.keys) \in Nat /\ Len(acc.page.prefixes) \in Nat
      BY <3>1
    <3>3. \A a, b \in Nat : a + b \in Nat
      OBVIOUS
    <3> QED BY <3>1, <3>2, <3>3, Zenon DEF Emitted
  <2>3. CASE Group[k] # None /\ Group[k] \in ToSet(acc.page.prefixes)
    <3> DEFINE new == [acc EXCEPT !.next = k]
    <3>1. Row(acc, k) = new
      BY <2>1, <2>3 DEF Row
    <3>2. /\ new.next = k /\ new.page = acc.page /\ ~new.full /\ new.past = None
      BY <1>1, <2>1 DEF Acc
    <3>3. Listed(acc.page, k)
      <4>1. OldPrefixes \in Seq(Names)
        BY <1>1, OldTypes
      <4>2. ToSet(acc.page.prefixes) \subseteq ToSet(PrefixesWith(acc.page))
        BY <2>2, <4>1, ConcatSet DEF PrefixesWith
      <4> QED BY <2>3, <4>2 DEF Listed
    <3>4. ListedUpTo(acc.page, k)
      BY <2>1, <3>3, RowSkipped
    <3> HIDE DEF new
    <3>5. Cursor(new) = k /\ ~Stopped(new)
      BY <1>1, <3>2 DEF Cursor, Stopped
    <3>6. Emitted(new.page) < Limit /\ Emitted(new.page) <= Limit
      BY <2>1, <2>2, <3>2
    <3>7. AccOK(new, k)
      BY <1>1, <1>2, <3>1, <3>2, <3>4, <3>5, <3>6 DEF AccOK
    <3> QED BY <1>1, <3>1, <3>2, <3>7
  <2>4. CASE ~(Group[k] # None /\ Group[k] \in ToSet(acc.page.prefixes))
    <3> DEFINE p == IF Group[k] = None THEN AddKey(acc.page, k) ELSE AddPrefix(acc.page, k)
               new == Row(acc, k)
    <3>1. new = [page |-> p, next |-> k, full |-> Group[k] = None /\ Emitted(p) >= Limit,
                 past |-> IF Group[k] # None /\ Emitted(p) >= Limit THEN Group[k] ELSE None]
      BY <2>1, <2>4 DEF Row
    <3>2. Emitted(p) = Emitted(acc.page) + 1
      BY <1>1, AddedKey, AddedPrefix
    <3>3. Emitted(p) \in Nat /\ Emitted(p) <= Limit
      <4> HIDE DEF p
      <4> QED BY <2>1, <2>2, <3>2
    <3>4. ListedUpTo(p, k)
      <4>1. CASE Group[k] = None
        BY <2>1, <4>1, KeyListed
      <4>2. CASE Group[k] # None
        <5>1. writes = 0 => Group[k] \notin ToSet(OldPrefixes)
          BY DEF Passed
        <5>2. ListedUpTo(AddPrefix(acc.page, k), k)
          BY <2>1, <2>4, <4>2, <5>1, PrefixListed
        <5> QED BY <4>2, <5>2
      <4> QED BY <4>1, <4>2
    <3>5. Group[k] # None => p.prefixes # <<>> /\ p.prefixes[Len(p.prefixes)] = Group[k]
      <4> SUFFICES ASSUME Group[k] # None PROVE p.prefixes # <<>> /\ p.prefixes[Len(p.prefixes)] = Group[k]
        OBVIOUS
      <4>1. p.prefixes = Append(acc.page.prefixes, Group[k])
        BY <1>1, AddedPrefix
      <4>2. /\ Len(Append(acc.page.prefixes, Group[k])) = Len(acc.page.prefixes) + 1
            /\ Append(acc.page.prefixes, Group[k])[Len(acc.page.prefixes) + 1] = Group[k]
            /\ Append(acc.page.prefixes, Group[k]) # <<>>
        BY <1>1, <2>2, AppendProperties, SMTT(20)
      <4> HIDE DEF p
      <4> QED BY <4>1, <4>2, Zenon
    <3> HIDE DEF p
    <3> DEFINE full == Group[k] = None /\ Emitted(p) >= Limit
               past == IF Group[k] # None /\ Emitted(p) >= Limit THEN Group[k] ELSE None
    <3>6. new.page = p /\ new.next = k /\ new.full = full /\ new.past = past
      <4>1. new = [page |-> p, next |-> k, full |-> full, past |-> past]
        BY <3>1
      <4> HIDE DEF full, past, new
      <4> QED BY <4>1
    <3> HIDE DEF new
    <3>7. Cursor(new) = k
      BY <1>1, <3>6 DEF Cursor
    <3>8. full => new.full /\ Group[k] = None /\ past = None
      BY <3>6, Zenon
    <3>9. new.full => full
      BY <3>6, Zenon
    <3>10. past # None => Group[k] # None /\ past = Group[k]
      OBVIOUS
    <3>11. Emitted(p) >= Limit => full \/ past # None
      BY Zenon
    <3> HIDE DEF full, past
    <3>12. ~Stopped(new) => Emitted(p) < Limit
      <4>1. ~Stopped(new) => ~(Emitted(p) >= Limit)
        BY <3>6, <3>8, <3>11, Zenon DEF Stopped
      <4> QED BY <3>3, <4>1
    <3>13. new.full => new.next # 0 /\ Group[new.next] = None /\ new.past = None
      BY <1>1, <3>6, <3>8, <3>9, Zenon
    <3>14. new.past # None => /\ new.next # 0 /\ new.page.prefixes # <<>>
                              /\ Group[new.next] = new.page.prefixes[Len(new.page.prefixes)]
      BY <1>1, <3>5, <3>6, <3>10, Zenon
    <3>15. AccOK(new, k)
      <4>1. ListedUpTo(new.page, Cursor(new)) /\ after <= Cursor(new) /\ Emitted(new.page) <= Limit
        BY <1>1, <3>3, <3>4, <3>6, <3>7
      <4>2. new \in Acc
        BY <1>2 DEF new
      <4>3. ~Stopped(new) => Emitted(new.page) < Limit /\ Cursor(new) = k
        BY <3>6, <3>7, <3>12
      <4> QED BY <3>13, <3>14, <4>1, <4>2, <4>3, Zenon DEF AccOK
    <3> QED BY <1>1, <3>6, <3>15 DEF new
  <2> QED BY <2>3, <2>4
<1> QED BY <1>3, <1>4

\* The loop over the rows of a query.
LEMMA RolledBuilt ==
  ASSUME pages \in Seq(Page), NEW acc \in Acc, NEW n \in Nat, NEW rows \in Seq(Keys), Len(rows) = n
  PROVE  \E built : /\ built[0] = acc /\ built[n] = Rolled(acc, rows)
                    /\ \A i \in 1..n : built[i] = Row(built[i - 1], rows[i])
<1> DEFINE V == Acc
           g == [p \in V \X (1..n) |-> Row(p[1], rows[p[2]])]
           Good(f) == f = [i \in 0..n |-> IF i = 0 THEN acc ELSE Row(f[i - 1], rows[i])]
           built == CHOOSE f : Good(f)
<1>1. acc \in V /\ \A c \in V, i \in 1..n : Row(c, rows[i]) \in V
  BY RowType
<1> HIDE DEF V
<1>2. PICK f \in [0..n -> V] : f[0] = acc /\ \A i \in 1..n : f[i] = g[<<f[i - 1], i>>]
  <2>1. g \in [V \X (1..n) -> V]
    BY <1>1
  <2> HIDE DEF g
  <2>2. PICK f : Loop(f, n, V, acc, g)
    BY <1>1, <2>1, LoopDefined
  <2> QED BY <2>2 DEF Loop
<1>3. Good(f)
  <2>1. ASSUME NEW i \in 1..n PROVE f[i] = Row(f[i - 1], rows[i])
    <3>1. f[i - 1] \in V
      BY <1>2
    <3> QED BY <1>2, <3>1
  <2>2. \A i \in 0..n : f[i] = IF i = 0 THEN acc ELSE Row(f[i - 1], rows[i])
    BY <1>2, <2>1
  <2> QED BY <2>2
<1>4. Good(built)
  <2> HIDE DEF Good
  <2> QED BY <1>3
<1>5. Rolled(acc, rows) = built[n]
  BY DEF Rolled
<1> HIDE DEF built
<1>6. built[0] = acc /\ \A i \in 1..n : built[i] = Row(built[i - 1], rows[i])
  BY <1>4
<1> QED BY <1>5, <1>6

\* What a query adds to a page of ListObjects.
LEMMA RolledOK ==
  ASSUME TypeOK, writes = 0 => Passed(OldPrefixes), NEW acc, AccOK(acc, after),
         NEW limit \in Nat, NEW rows, QueryRows(rows, after, limit)
  PROVE  /\ AccOK(Rolled(acc, rows), IF rows = <<>> THEN after ELSE rows[Len(rows)])
         /\ IF rows = <<>> THEN Rolled(acc, rows) = acc ELSE Rolled(acc, rows).next # 0
<1> DEFINE n == Len(rows)
           cursor(i) == IF i = 0 THEN after ELSE rows[i]
           Right(a, i) == AccOK(a, cursor(i)) /\ (i # 0 => a.next # 0)
<1>1. /\ rows \in Seq(Keys) /\ n \in Nat /\ after \in Nat /\ acc \in Acc /\ pages \in Seq(Page)
      /\ \A i \in 1..n : rows[i] \in present /\ after < rows[i]
  BY DEF QueryRows, TypeOK, AccOK
<1>2. PICK built : /\ built[0] = acc /\ built[n] = Rolled(acc, rows)
                   /\ \A i \in 1..n : built[i] = Row(built[i - 1], rows[i])
  BY <1>1, RolledBuilt
<1>3. \A i \in 1..n : NextUp(cursor(i - 1), rows[i])
  <2> TAKE i \in 1..n
  <2>1. NextUp(IF i = 1 THEN after ELSE rows[i - 1], rows[i])
    BY <1>1, RowsNextUp
  <2> QED BY <2>1
<1> HIDE DEF n, cursor
<1> DEFINE S == {i \in 0..n : Right(built[i], i)}
<1>4. 0 \in S
  <2>1. cursor(0) = after
    BY DEF cursor
  <2> QED BY <1>1, <1>2, <2>1
<1>5. ASSUME NEW i \in 1..n, i - 1 \in S PROVE i \in S
  <2>1. AccOK(built[i - 1], cursor(i - 1))
    BY <1>5
  <2>2. cursor(i) = rows[i]
    BY DEF cursor
  <2>3. AccOK(Row(built[i - 1], rows[i]), rows[i]) /\ Row(built[i - 1], rows[i]).next # 0
    BY <1>1, <1>3, <2>1, RowOK
  <2> QED BY <1>2, <2>2, <2>3
<1>6. 0..n \subseteq S
  <2> HIDE DEF S
  <2> QED BY <1>1, <1>4, <1>5, Rounds
<1>7. Right(Rolled(acc, rows), n)
  <2>1. n \in S
    BY <1>1, <1>6
  <2> QED BY <1>2, <2>1
<1>8. cursor(n) = IF rows = <<>> THEN after ELSE rows[Len(rows)]
  BY <1>1 DEF cursor, n
<1>9. n = 0 <=> rows = <<>>
  BY <1>1 DEF n
<1> QED BY <1>2, <1>7, <1>8, <1>9
--------------------------------------------------------------------------------
(* The steps *)

\* Behind a query with less than it asked for there is nothing.
LEMMA RowsExhaust ==
  ASSUME TypeOK, NEW limit \in Nat, NEW behind \in Nat, NEW rows, QueryRows(rows, behind, limit), Len(rows) < limit
  PROVE  \A k \in present : k <= IF rows = <<>> THEN behind ELSE rows[Len(rows)]
<1>1. rows \in Seq(Keys) /\ Len(rows) \in Nat /\ \A i \in 1..Len(rows) : rows[i] \in Nat /\ behind < rows[i]
  BY SizesAssumption DEF QueryRows, Keys
<1> TAKE k \in present
<1>2. k \in Nat
  BY SizesAssumption DEF TypeOK, Keys
<1>3. CASE behind < k
  <2>1. PICK i \in 1..Len(rows) : rows[i] = k
    BY <1>3 DEF QueryRows
  <2>2. Len(rows) \in 1..Len(rows) /\ rows # <<>>
    BY <1>1, <2>1
  <2>3. i = Len(rows) \/ rows[i] < rows[Len(rows)]
    BY <2>2 DEF QueryRows, Ascending
  <2> QED BY <1>1, <2>1, <2>2, <2>3
<1>4. CASE ~(behind < k)
  <2>1. rows # <<>> => Len(rows) \in 1..Len(rows)
    BY <1>1
  <2> QED BY <1>1, <1>2, <1>4, <2>1
<1> QED BY <1>3, <1>4

\* The last row of a query is the greatest.
LEMMA RowsLast ==
  ASSUME TypeOK, NEW limit \in Nat, NEW behind \in Nat, NEW rows, QueryRows(rows, behind, limit), rows # <<>>
  PROVE  Last(rows) = rows[Len(rows)] /\ rows[Len(rows)] \in 0..KeyCount /\ behind < rows[Len(rows)]
<1>1. Len(rows) \in 1..Len(rows)
  BY DEF QueryRows
<1> QED BY <1>1, SizesAssumption DEF QueryRows, Last, Keys

\* A step of the walk leaves what earlier pages have listed, and the objects.
LEMMA ListedKept ==
  ASSUME UNCHANGED <<steady, writes, walk, pages>>, ListedUpTo(page', after')
  PROVE  ListedUpTo(page, after)'
BY DEF ListedUpTo, Ascends, Listed, KeysWith, PrefixesWith, OldKeys, OldPrefixes

\* The cursor does not go back over what it has passed.
LEMMA PassedKept ==
  ASSUME TypeOK, NEW prefixes, Passed(prefixes), present' = present, after' \in Nat, after <= after'
  PROVE  \A k \in present' : k > after' => Group[k] \notin ToSet(prefixes)
BY SizesAssumption DEF Passed, TypeOK, Keys

\* Nor does a writer, who takes objects away.
LEMMA ListedLess ==
  ASSUME ListedUpTo(page, after), walk' = walk, pages' = pages, page' = page, after' = after,
         writes' # 0, steady' \subseteq steady
  PROVE  ListedUpTo(page, after)'
<1>1. KeysWith(page)' = KeysWith(page) /\ PrefixesWith(page)' = PrefixesWith(page)
  BY DEF KeysWith, PrefixesWith, OldKeys, OldPrefixes
<1>2. Ascends(KeysWith(page), after)'
  BY <1>1 DEF ListedUpTo, Ascends
<1>3. \A k \in steady' : k <= after' => Listed(page, k)'
  <2> TAKE k \in steady'
  <2>1. k <= after => Listed(page, k)
    BY DEF ListedUpTo
  <2> QED BY <1>1, <2>1 DEF Listed
<1>4. /\ page' \in Page /\ after' \in 0..KeyCount /\ IsInjective(page'.prefixes)
      /\ \A g \in ToSet(page'.prefixes) : g # None /\ \E j \in Keys : j <= after' /\ Group[j] = g
  BY DEF ListedUpTo
<1> QED BY <1>2, <1>3, <1>4 DEF ListedUpTo

\* Before a walk nothing is owed and nothing is listed.
LEMMA InitInvariant == Init => IInv
<1> SUFFICES ASSUME Init PROVE IInv
  OBVIOUS
<1> USE SizesAssumption
<1>1. /\ present \in SUBSET Keys /\ steady = {} /\ writes = 0 /\ walk = "pages" /\ at = "idle"
      /\ after = 0 /\ next = 0 /\ page = NewPage /\ pages = <<>>
  BY DEF Init
<1>2. OldKeys = <<>> /\ OldPrefixes = <<>>
  BY <1>1, NoOldPages
<1>3. page \in Page /\ page.keys = <<>> /\ page.prefixes = <<>>
  BY <1>1 DEF Page, NewPage
<1>4. TypeOK
  BY <1>1, <1>3 DEF TypeOK
<1>5. KeysWith(page) = <<>> /\ PrefixesWith(page) = <<>>
  BY <1>2, <1>3 DEF KeysWith, PrefixesWith
<1>6. ToSet(<<>>) = {} /\ IsInjective(<<>>) /\ Len(<<>>) = 0
  BY DEF ToSet, IsInjective
<1>7. ListedUpTo(page, after)
  <2>1. Ascends(<<>>, 0)
    BY <1>6 DEF Ascends
  <2> QED BY <1>1, <1>3, <1>5, <1>6, <2>1 DEF ListedUpTo
<1>8. Emitted(page) = 0
  BY <1>3, <1>6 DEF Emitted
<1> QED BY <1>1, <1>2, <1>3, <1>4, <1>6, <1>7, <1>8 DEF IInv, PlaceOK, AheadOK, LimitOK, PassedOK, Passed

\* A writer that puts or deletes an object during a walk.
LEMMA PutInvariant == ASSUME IInv, NEW k \in Keys, Put(k) PROVE IInv'
<1> USE SizesAssumption
<1>1. /\ present' = present \cup {k} /\ writes' = writes + 1 /\ steady' = steady /\ walk' = walk
      /\ at' = at /\ after' = after /\ next' = next /\ page' = page /\ pages' = pages
  BY DEF Put
<1>2. TypeOK /\ writes \in Nat /\ writes' # 0
  BY <1>1 DEF IInv, TypeOK
<1>3. TypeOK'
  BY <1>1, <1>2 DEF TypeOK
<1>4. ListedUpTo(page, after)'
  BY <1>1, <1>2, ListedLess DEF IInv
<1>5. PlaceOK' /\ AheadOK' /\ LimitOK' /\ PassedOK'
  BY <1>1, <1>2 DEF IInv, PlaceOK, AheadOK, LimitOK, PassedOK, Exhausted
<1> QED BY <1>3, <1>4, <1>5 DEF IInv

\* A key deleted is owed no more.
LEMMA DeleteInvariant == ASSUME IInv, NEW k \in Keys, Delete(k) PROVE IInv'
<1> USE SizesAssumption
<1>1. /\ present' = present \ {k} /\ writes' = writes + 1 /\ steady' = steady \ {k} /\ walk' = walk
      /\ at' = at /\ after' = after /\ next' = next /\ page' = page /\ pages' = pages
  BY DEF Delete
<1>2. TypeOK /\ writes \in Nat /\ writes' # 0
  BY <1>1 DEF IInv, TypeOK
<1>3. TypeOK'
  BY <1>1, <1>2 DEF TypeOK
<1>4. ListedUpTo(page, after)'
  BY <1>1, <1>2, ListedLess DEF IInv
<1>5. PlaceOK' /\ AheadOK' /\ LimitOK' /\ PassedOK'
  BY <1>1, <1>2 DEF IInv, PlaceOK, AheadOK, LimitOK, PassedOK, Exhausted
<1> QED BY <1>3, <1>4, <1>5 DEF IInv

\* Nothing has been listed yet.
LEMMA FreshInvariant ==
  ASSUME TypeOK', page' = NewPage, after' = 0, next' = 0, pages' = <<>>,
         \/ at' = "idle"
         \/ at' = "scan" /\ walk' = "pages" /\ steady' = present'
         \/ at' = "rows" /\ walk' # "pages" /\ steady' = present'
  PROVE  IInv'
<1> USE SizesAssumption
<1>1. OldKeys' = <<>> /\ OldPrefixes' = <<>>
  <2> DEFINE ks == [i \in DOMAIN pages' |-> pages'[i].keys]
             gs == [i \in DOMAIN pages' |-> pages'[i].prefixes]
  <2>1. ks = <<>> /\ gs = <<>>
    OBVIOUS
  <2>2. OldKeys' = FlattenSeq(ks) /\ OldPrefixes' = FlattenSeq(gs)
    BY DEF OldKeys, OldPrefixes
  <2> HIDE DEF ks, gs
  <2> QED BY <2>1, <2>2 DEF FlattenSeq
<1>2. page' \in Page /\ page'.keys = <<>> /\ page'.prefixes = <<>>
  BY DEF Page, NewPage
<1>3. OldKeys' \o page'.keys = <<>> /\ OldPrefixes' \o page'.prefixes = <<>>
  BY <1>1, <1>2
<1>4. ToSet(<<>>) = {} /\ IsInjective(<<>>) /\ Len(<<>>) = 0
  BY DEF ToSet, IsInjective
<1>5. ListedUpTo(page, after)'
  <2>1. Ascends(<<>>, 0)
    BY <1>4 DEF Ascends
  <2>2. \A k \in steady' : ~(k <= 0)
    BY DEF TypeOK, Keys
  <2>3. Ascends(KeysWith(page), after)'
    BY <1>3, <2>1 DEF KeysWith, Ascends
  <2>4. IsInjective(PrefixesWith(page))'
    BY <1>3, <1>4, Zenon DEF PrefixesWith, IsInjective
  <2> QED BY <1>2, <1>4, <2>2, <2>3, <2>4 DEF ListedUpTo
<1>6. Emitted(page') = 0
  BY <1>2, <1>4 DEF Emitted
<1>7. PlaceOK'
  BY DEF PlaceOK
<1>8. LimitOK'
  BY <1>2, <1>4, <1>6 DEF LimitOK, Emitted
<1>9. AheadOK' /\ PassedOK'
  BY <1>1, <1>4 DEF AheadOK, PassedOK, Passed
<1> QED BY <1>5, <1>7, <1>8, <1>9 DEF IInv

\* A walk begins with nothing behind its cursor.
LEMMA StartInvariant == IInv /\ Start => IInv'
<1> SUFFICES ASSUME IInv, Start PROVE IInv'
  OBVIOUS
<1>1. /\ page' = NewPage /\ after' = 0 /\ next' = 0 /\ pages' = <<>> /\ steady' = present'
      /\ (at' = "scan" /\ walk' = "pages") \/ (at' = "rows" /\ walk' # "pages")
  BY DEF IInv, PlaceOK, Start
<1>2. TypeOK'
  BY DEF IInv, TypeOK, Start
<1> QED BY <1>1, <1>2, FreshInvariant

\* What ended is forgotten as a whole.
LEMMA ForgetInvariant == IInv /\ Forget => IInv'
<1> SUFFICES ASSUME IInv, Forget PROVE IInv'
  OBVIOUS
<1>1. page' = NewPage /\ after' = 0 /\ next' = 0 /\ pages' = <<>> /\ at' = "idle"
  BY DEF Forget
<1>2. TypeOK'
  BY SizesAssumption DEF IInv, TypeOK, Forget, bucket, Page, NewPage
<1> QED BY <1>1, <1>2, FreshInvariant

\* A round of one of the walks that are one loop.
LEMMA RoundInvariant ==
  ASSUME IInv, at = "rows", NEW limit \in Nat, NEW rows, QueryRows(rows, after, limit),
         page' = Lines(rows), after' = (IF rows = <<>> THEN after ELSE Last(rows)),
         UNCHANGED <<bucket, walk, next, pages>>, at' \in {"rows", "end"},
         walk = "lsLimited" => Len(page.keys) + Len(rows) <= Limit,
         walk = "lsLimited" /\ at' = "rows" => Len(page'.keys) < Limit,
         at' = "end" => Len(rows) < limit \/ (walk = "lsLimited" /\ Len(page'.keys) = Limit)
  PROVE  IInv'
<1> USE SizesAssumption
<1>1. /\ TypeOK /\ pages = <<>> /\ ListedUpTo(page, after) /\ walk # "pages" /\ next = 0 /\ after \in Nat
      /\ walk = "lsLimited" => page.prefixes = <<>>
      /\ present' = present /\ steady' = steady /\ writes' = writes /\ walk' = walk
      /\ next' = next /\ pages' = pages
      /\ page.keys \in Seq(Keys)
  BY DEF IInv, TypeOK, PlaceOK, LimitOK, bucket, Page
<1>2. /\ ListedUpTo(page', after')
      /\ walk = "lsLimited" => page'.prefixes = <<>> /\ Len(page'.keys) = Len(page.keys) + Len(rows)
  <2>1. after' = IF rows = <<>> THEN after ELSE rows[Len(rows)]
    BY <1>1, RowsLast
  <2> QED BY <1>1, <2>1, LinesListed
<1>3. ListedUpTo(page, after)'
  BY <1>1, <1>2, ListedKept
<1>4. page' \in Page /\ after' \in 0..KeyCount
  BY <1>2 DEF ListedUpTo
<1>5. TypeOK'
  BY <1>1, <1>4 DEF TypeOK
<1>6. PlaceOK'
  BY <1>1 DEF IInv, PlaceOK
<1>7. AheadOK'
  <2>1. Len(rows) < limit => \A k \in present : k <= after'
    BY <1>1, RowsExhaust, RowsLast
  <2>2. Len(rows) < limit => Exhausted'
    BY <1>1, <2>1 DEF Exhausted, TypeOK
  <2> QED BY <1>1, <2>2 DEF AheadOK
<1>8. LimitOK'
  <2>1. walk = "lsLimited" => Emitted(page') <= Limit /\ (at' = "rows" => Emitted(page') < Limit)
    <3> SUFFICES ASSUME walk = "lsLimited"
                 PROVE  Emitted(page') <= Limit /\ (at' = "rows" => Emitted(page') < Limit)
      OBVIOUS
    <3>1. Len(page'.prefixes) = 0 /\ Len(page'.keys) \in Nat
      BY <1>2, <1>4 DEF Page
    <3>2. Emitted(page') = Len(page'.keys)
      BY <3>1 DEF Emitted
    <3> QED BY <1>2, <3>2
  <2>2. DOMAIN pages' = {}
    BY <1>1
  <2> QED BY <1>1, <1>2, <2>1, <2>2 DEF LimitOK
<1>9. PassedOK'
  BY <1>1 DEF PassedOK
<1> QED BY <1>3, <1>5, <1>6, <1>7, <1>8, <1>9 DEF IInv

\* A round of ls lists the rows it finds, and those it finds are all there are unless it is full.
LEMMA LsInvariant == IInv /\ Ls => IInv'
<1> SUFFICES ASSUME IInv, Ls PROVE IInv'
  OBVIOUS
<1> USE SizesAssumption
<1> DEFINE wanted == Limit - Len(page.keys)
           limit == IF walk = "lsLimited" /\ wanted < PageSize THEN wanted ELSE PageSize
           rows == Query(after, limit)
<1>1. /\ at = "rows" /\ walk \in {"ls", "lsLimited"}
      /\ page' = Lines(rows) /\ after' = (IF rows = <<>> THEN after ELSE Last(rows))
      /\ at' = IF \/ Len(rows) < limit
                  \/ walk = "lsLimited" /\ Len(page'.keys) >= Limit
               THEN "end" ELSE "rows"
      /\ UNCHANGED <<bucket, walk, next, pages>>
  BY DEF Ls
<1>2. /\ TypeOK /\ pages = <<>> /\ ListedUpTo(page, after) /\ present \in SUBSET Keys /\ after \in Nat
      /\ page.keys \in Seq(Keys) /\ Len(page.keys) \in Nat
      /\ walk = "lsLimited" => page.prefixes = <<>> /\ Emitted(page) < Limit
  BY <1>1 DEF IInv, TypeOK, PlaceOK, LimitOK, Page
<1>3. walk = "lsLimited" => wanted \in Nat /\ Len(page.keys) + wanted = Limit
  <2> SUFFICES ASSUME walk = "lsLimited" PROVE wanted \in Nat /\ Len(page.keys) + wanted = Limit
    OBVIOUS
  <2>1. Emitted(page) = Len(page.keys)
    <3>1. Len(page.prefixes) = 0
      BY <1>2
    <3> QED BY <1>2, <3>1 DEF Emitted
  <2> QED BY <1>2, <2>1
<1>4. limit \in Nat /\ (walk = "lsLimited" => limit <= wanted)
  <2> HIDE DEF wanted
  <2>1. CASE walk = "lsLimited"
    BY <1>3, <2>1
  <2>2. CASE walk # "lsLimited"
    BY <2>2
  <2> QED BY <2>1, <2>2
<1> HIDE DEF limit, wanted
<1>5. QueryRows(rows, after, limit)
  BY <1>2, <1>4, QueryOK
<1> HIDE DEF rows
<1>6. Len(rows) \in Nat /\ Len(rows) <= limit
  BY <1>5 DEF QueryRows
<1>7. walk = "lsLimited" => Len(page.keys) + Len(rows) <= Limit
  <2> SUFFICES ASSUME walk = "lsLimited" PROVE Len(page.keys) + Len(rows) <= Limit
    OBVIOUS
  <2>1. wanted \in Nat /\ Len(page.keys) + wanted = Limit /\ limit <= wanted
    BY <1>3, <1>4
  <2> QED BY <1>2, <1>4, <1>6, <2>1
<1>8. /\ Len(page'.keys) = Len(page.keys) + Len(rows)
  BY <1>1, <1>2, <1>4, <1>5, LinesListed
<1>9. walk = "lsLimited" /\ at' = "rows" => Len(page'.keys) < Limit
  BY <1>1, <1>2, <1>6, <1>8
<1>10. at' = "end" => Len(rows) < limit \/ (walk = "lsLimited" /\ Len(page'.keys) = Limit)
  BY <1>1, <1>2, <1>6, <1>7, <1>8
<1> QED BY <1>1, <1>4, <1>5, <1>7, <1>9, <1>10, RoundInvariant

\* A round of lsd lists the prefixes of the rows it finds.
LEMMA LsdInvariant == IInv /\ Lsd => IInv'
<1> SUFFICES ASSUME IInv, Lsd PROVE IInv'
  OBVIOUS
<1> DEFINE rows == Query(after, PageSize)
<1>1. /\ at = "rows" /\ walk = "lsd"
      /\ page' = Lines(rows) /\ after' = (IF rows = <<>> THEN after ELSE Last(rows))
      /\ at' = IF Len(rows) < PageSize THEN "end" ELSE "rows"
      /\ UNCHANGED <<bucket, walk, next, pages>>
  BY DEF Lsd
<1>2. PageSize \in Nat /\ QueryRows(rows, after, PageSize)
  BY SizesAssumption, QueryOK DEF IInv, TypeOK
<1> HIDE DEF rows
<1>3. at' \in {"rows", "end"} /\ (at' = "end" => Len(rows) < PageSize)
  BY <1>1
<1> QED BY <1>1, <1>2, <1>3, RoundInvariant

\* A round of ListAllObjects ends the walk only when no row is left.
LEMMA ListAllInvariant == IInv /\ ListAll => IInv'
<1> SUFFICES ASSUME IInv, ListAll PROVE IInv'
  OBVIOUS
<1> DEFINE rows == Query(after, PageSize)
<1>1. /\ at = "rows" /\ walk = "children"
      /\ page' = Lines(rows) /\ after' = (IF rows = <<>> THEN after ELSE Last(rows))
      /\ at' = IF rows = <<>> THEN "end" ELSE "rows"
      /\ UNCHANGED <<bucket, walk, next, pages>>
  BY DEF ListAll
<1>2. PageSize \in Nat /\ PageSize > 0 /\ QueryRows(rows, after, PageSize)
  BY SizesAssumption, QueryOK DEF IInv, TypeOK
<1> HIDE DEF rows
<1>3. at' \in {"rows", "end"} /\ (at' = "end" => Len(rows) < PageSize)
  BY <1>1, <1>2
<1> QED BY <1>1, <1>2, <1>3, RoundInvariant

\* A round of the loop lists every row up to the continuation it leaves.
LEMMA ScanInvariant == IInv /\ Scan => IInv'
<1> SUFFICES ASSUME IInv, Scan PROVE IInv'
  OBVIOUS
<1> USE SizesAssumption
<1> DEFINE limit == QueryLimit
           rows == Query(after, limit)
           acc0 == [page |-> page, next |-> next, full |-> FALSE, past |-> None]
           acc == Rolled(acc0, rows)
           cursor == IF rows = <<>> THEN after ELSE rows[Len(rows)]
<1>1. /\ at = "scan"
      /\ page' = acc.page /\ next' = acc.next
      /\ after' = IF rows = <<>> THEN after ELSE acc.next
      /\ at' = IF acc.past # None THEN "advance"
               ELSE IF acc.full \/ Len(rows) < limit THEN "probe" ELSE "scan"
      /\ UNCHANGED <<bucket, walk, pages>>
  BY DEF Scan
<1>2. /\ TypeOK /\ walk = "pages" /\ ListedUpTo(page, after) /\ Emitted(page) < Limit
      /\ present' = present /\ steady' = steady /\ writes' = writes /\ walk' = walk /\ pages' = pages
      /\ after \in Nat /\ (next = 0 \/ next = after) /\ present \in SUBSET Keys
      /\ page \in Page /\ next \in 0..KeyCount
      /\ writes = 0 => Passed(OldPrefixes)
  BY <1>1 DEF IInv, TypeOK, PlaceOK, LimitOK, PassedOK, bucket
<1>3. Emitted(page) \in Nat
  <2>1. page.keys \in Seq(Keys) /\ page.prefixes \in Seq(Names)
    BY <1>2 DEF Page
  <2>2. Len(page.keys) \in Nat /\ Len(page.prefixes) \in Nat
    BY <2>1
  <2>3. \A a, b \in Nat : a + b \in Nat
    OBVIOUS
  <2> QED BY <2>2, <2>3, Zenon DEF Emitted
<1>4. limit \in Nat
  <2>1. Limit - Emitted(page) \in Nat
    BY <1>2, <1>3
  <2>2. \A a, b \in Nat : a * b + 1 \in Nat
    OBVIOUS
  <2> QED BY <2>1, <2>2 DEF QueryLimit
<1> HIDE DEF limit
<1>5. QueryRows(rows, after, limit)
  BY <1>2, <1>4, QueryOK
<1> HIDE DEF rows
<1>6. AccOK(acc0, after)
  <2>1. acc0.page = page /\ acc0.next = next /\ acc0.full = FALSE /\ acc0.past = None /\ acc0 \in Acc
    BY <1>2 DEF Acc
  <2> HIDE DEF acc0
  <2>2. Cursor(acc0) = after /\ ~Stopped(acc0)
    BY <1>2, <2>1 DEF Cursor, Stopped
  <2> QED BY <1>2, <1>3, <2>1, <2>2 DEF AccOK
<1>7. AccOK(acc, cursor) /\ IF rows = <<>> THEN acc = acc0 ELSE acc.next # 0
  <2> HIDE DEF acc0
  <2> QED BY <1>2, <1>4, <1>5, <1>6, RolledOK
<1>8. rows = <<>> => acc.page = page /\ acc.next = next /\ acc.full = FALSE /\ acc.past = None
  BY <1>7
<1> HIDE DEF acc, acc0
<1>9. acc \in Acc /\ acc.page \in Page /\ acc.next \in 0..KeyCount
  BY <1>7 DEF AccOK, Acc
<1>10. Cursor(acc) = after' /\ (next' = 0 \/ next' = after')
  BY <1>1, <1>2, <1>7, <1>8 DEF Cursor
<1>11. /\ ListedUpTo(page', after') /\ after <= after' /\ Emitted(page') <= Limit
       /\ ~Stopped(acc) => Emitted(page') < Limit /\ after' = cursor
       /\ acc.past # None =>
            /\ next' # 0 /\ page'.prefixes # <<>>
            /\ Group[next'] = page'.prefixes[Len(page'.prefixes)]
       /\ acc.full => next' # 0 /\ Group[next'] = None /\ acc.past = None
  BY <1>1, <1>7, <1>10 DEF AccOK
<1>12. after' \in 0..KeyCount
  BY <1>11 DEF ListedUpTo
<1>13. ListedUpTo(page, after)'
  BY <1>2, <1>11, ListedKept
<1>14. TypeOK'
  BY <1>1, <1>2, <1>9, <1>12 DEF TypeOK
<1>15. PlaceOK'
  <2>1. at' \in {"scan", "advance", "probe"}
    BY <1>1
  <2>2. at' = "advance" => next' # 0
    BY <1>1, <1>11
  <2>3. writes' = 0 => steady' = present'
    BY <1>1, <1>2 DEF IInv, PlaceOK
  <2> QED BY <1>2, <1>10, <2>1, <2>2, <2>3 DEF PlaceOK
<1>16. at' = "probe" => Exhausted' \/ (next' # 0 /\ Group[next'] = None)
  <2>1. CASE acc.full
    BY <1>11, <2>1
  <2>2. CASE ~acc.full /\ at' = "probe"
    <3>1. ~Stopped(acc) /\ Len(rows) < limit
      BY <1>1, <2>2 DEF Stopped
    <3>2. \A k \in present : k <= cursor
      BY <1>2, <1>4, <1>5, <3>1, RowsExhaust
    <3> HIDE DEF cursor
    <3>3. Exhausted'
      BY <1>2, <1>11, <3>1, <3>2 DEF Exhausted, TypeOK
    <3> QED BY <3>3
  <2> QED BY <2>1, <2>2
<1>17. AheadOK'
  <2>1. at' # "end"
    BY <1>1
  <2> QED BY <1>16, <2>1 DEF AheadOK
<1>18. LimitOK'
  <2>1. at' = "scan" => Emitted(page') < Limit
    BY <1>1, <1>11 DEF Stopped
  <2>2. walk' = "pages"
    BY <1>2
  <2>3. \A i \in DOMAIN pages' : Emitted(pages'[i]) <= Limit /\ IsInjective(pages'[i].prefixes)
    BY <1>2 DEF IInv, LimitOK
  <2> QED BY <1>11, <2>1, <2>2, <2>3 DEF LimitOK
<1>19. PassedOK'
  <2>1. at' = "advance" => page'.prefixes # <<>> /\ Group[next'] = page'.prefixes[Len(page'.prefixes)]
    BY <1>1, <1>11
  <2>2. writes' = 0 => Passed(OldPrefixes)'
    <3>1. OldPrefixes' = OldPrefixes
      BY <1>2 DEF OldPrefixes
    <3> QED BY <1>2, <1>11, <1>12, <3>1, PassedKept DEF Passed
  <2>3. at' # "page"
    BY <1>1
  <2> QED BY <1>16, <2>1, <2>2, <2>3 DEF PassedOK
<1> QED BY <1>13, <1>14, <1>15, <1>17, <1>18, <1>19 DEF IInv

\* A page returned is one of the pages from then on.
LEMMA PageTurned ==
  ASSUME TypeOK, ListedUpTo(page, after), pages' = Append(pages, page), page' = NewPage, after' = after,
         UNCHANGED <<steady, writes, walk>>
  PROVE  /\ ListedUpTo(page, after)' /\ OldPrefixes' = PrefixesWith(page)
         /\ pages' \in Seq(Page) /\ page' \in Page /\ Emitted(page') = 0 /\ page'.prefixes = <<>>
         /\ LimitOK /\ Emitted(page) <= Limit =>
              \A i \in DOMAIN pages' : Emitted(pages'[i]) <= Limit /\ IsInjective(pages'[i].prefixes)
<1> USE SizesAssumption
<1>1. pages \in Seq(Page) /\ page \in Page
  BY DEF TypeOK
<1>2. OldKeys' = KeysWith(page) /\ OldPrefixes' = PrefixesWith(page)
  BY <1>1, PagesGrow DEF OldKeys, OldPrefixes
<1>3. page'.keys = <<>> /\ page'.prefixes = <<>> /\ page' \in Page
  BY DEF NewPage, Page
<1>4. KeysWith(page) \in Seq(Keys) /\ PrefixesWith(page) \in Seq(Names)
  <2>1. page.keys \in Seq(Keys) /\ page.prefixes \in Seq(Names) /\ OldKeys \in Seq(Keys) /\ OldPrefixes \in Seq(Names)
    BY <1>1, OldTypes DEF Page
  <2> QED BY <2>1, ConcatProperties DEF KeysWith, PrefixesWith
<1>5. KeysWith(page)' = KeysWith(page) /\ PrefixesWith(page)' = PrefixesWith(page)
  <2> DEFINE ks == KeysWith(page)
             gs == PrefixesWith(page)
  <2> HIDE DEF ks, gs
  <2>1. ks \o <<>> = ks /\ gs \o <<>> = gs
    BY <1>4, ConcatEmptySeq DEF ks, gs
  <2>2. OldKeys' \o page'.keys = ks /\ OldPrefixes' \o page'.prefixes = gs
    BY <1>2, <1>3, <2>1, Zenon DEF ks, gs
  <2> QED BY <2>2, Zenon DEF KeysWith, PrefixesWith, ks, gs
<1>6. ToSet(page'.prefixes) = {} /\ IsInjective(page'.prefixes)
  BY <1>3 DEF ToSet, IsInjective
<1>7. Ascends(KeysWith(page), after)'
  BY <1>5 DEF ListedUpTo, Ascends
<1>8. \A k \in steady' : k <= after' => Listed(page, k)'
  BY <1>5 DEF ListedUpTo, Listed
<1>9. writes' = 0 => IsInjective(PrefixesWith(page))'
  BY <1>5 DEF ListedUpTo, IsInjective
<1>10. after' \in 0..KeyCount
  BY DEF ListedUpTo
<1>11. /\ pages' \in Seq(Page) /\ DOMAIN pages' = 1..(Len(pages) + 1) /\ Len(pages) \in Nat
       /\ DOMAIN pages = 1..Len(pages)
       /\ \A i \in 1..Len(pages) : pages'[i] = pages[i]
       /\ pages'[Len(pages) + 1] = page
  <2>1. /\ pages' \in Seq(Page) /\ Len(pages') = Len(pages) + 1
        /\ \A i \in 1..Len(pages) : pages'[i] = pages[i]
        /\ pages'[Len(pages) + 1] = page
    BY <1>1, AppendProperties
  <2> QED BY <1>1, <2>1
<1>12. ASSUME LimitOK, Emitted(page) <= Limit, NEW i \in DOMAIN pages'
       PROVE  Emitted(pages'[i]) <= Limit /\ IsInjective(pages'[i].prefixes)
  <2>1. CASE i \in 1..Len(pages)
    BY <1>11, <1>12, <2>1 DEF LimitOK
  <2>2. CASE i = Len(pages) + 1
    <3>1. pages'[i] = page
      BY <1>11, <2>2
    <3>2. IsInjective(page.prefixes)
      BY DEF ListedUpTo
    <3> QED BY <1>12, <3>1, <3>2
  <2> QED BY <1>11, <2>1, <2>2
<1>13. Emitted(page') = 0
  <2> Len(<<>>) = 0
    OBVIOUS
  <2> QED BY <1>3 DEF Emitted
<1>14. ListedUpTo(page, after)'
  BY <1>3, <1>6, <1>7, <1>8, <1>9, <1>10 DEF ListedUpTo
<1> QED BY <1>2, <1>3, <1>11, <1>12, <1>13, <1>14

\* The next page goes on where the last one stopped.
LEMMA ContinueInvariant == IInv /\ Continue => IInv'
<1> SUFFICES ASSUME IInv, Continue PROVE IInv'
  OBVIOUS
<1> USE SizesAssumption
<1>1. /\ at = "page" /\ pages' = Append(pages, page) /\ page' = NewPage /\ after' = next /\ next' = 0
      /\ at' = "scan" /\ present' = present /\ steady' = steady /\ writes' = writes /\ walk' = walk
  BY DEF Continue, bucket
<1>2. /\ TypeOK /\ walk = "pages" /\ after' = after /\ ListedUpTo(page, after) /\ after \in 0..KeyCount
      /\ pages \in Seq(Page) /\ page \in Page
  BY <1>1 DEF IInv, TypeOK, PlaceOK
<1>3. /\ ListedUpTo(page, after)' /\ OldPrefixes' = PrefixesWith(page)
      /\ pages' \in Seq(Page) /\ page' \in Page /\ Emitted(page') = 0 /\ page'.prefixes = <<>>
  BY <1>1, <1>2, PageTurned
<1>4. TypeOK' /\ PlaceOK' /\ AheadOK'
  BY <1>1, <1>2, <1>3 DEF IInv, TypeOK, PlaceOK, AheadOK
<1>5. LimitOK'
  <2>1. LimitOK /\ Emitted(page) <= Limit
    BY <1>2 DEF IInv, LimitOK
  <2>2. \A i \in DOMAIN pages' : Emitted(pages'[i]) <= Limit /\ IsInjective(pages'[i].prefixes)
    BY <1>1, <1>2, <2>1, PageTurned
  <2> QED BY <1>1, <1>2, <1>3, <2>2 DEF LimitOK
<1>6. PassedOK'
  <2>1. ToSet(PrefixesWith(page)) = ToSet(OldPrefixes) \cup ToSet(page.prefixes)
    <3>1. page.prefixes \in Seq(Names) /\ OldPrefixes \in Seq(Names)
      BY <1>2, OldTypes DEF Page
    <3> QED BY <3>1, ConcatSet DEF PrefixesWith
  <2>2. writes = 0 => Passed(OldPrefixes) /\ Passed(page.prefixes)
    BY <1>1, <1>2 DEF IInv, PassedOK
  <2>3. writes' = 0 => Passed(OldPrefixes)'
    BY <1>1, <1>2, <1>3, <2>1, <2>2 DEF Passed
  <2> QED BY <1>1, <2>3 DEF PassedOK
<1> QED BY <1>3, <1>4, <1>5, <1>6 DEF IInv

\* Between the keys of a common prefix there are no others: a key that follows the
\* last entry of a page, and is not of its prefix, ends every prefix on the page.
LEMMA PrefixesEnd ==
  ASSUME TypeOK, ListedUpTo(page, after), NEW barrier \in Keys, after <= barrier,
         NEW k \in Keys, barrier < k, Group[k] \in ToSet(page.prefixes)
  PROVE  Group[barrier] = Group[k]
<1> USE SizesAssumption
<1>1. PICK j \in Keys : j <= after /\ Group[j] = Group[k]
  BY DEF ListedUpTo
<1>2. Group[k] # None
  BY DEF ListedUpTo
<1>3. j \in Nat /\ barrier \in Nat /\ k \in Nat /\ after \in Nat
  BY DEF Keys, TypeOK
<1>4. CASE j = barrier
  BY <1>1, <1>4
<1>5. CASE j < barrier
  BY <1>1, <1>2, <1>5, GroupAssumption
<1> QED BY <1>1, <1>3, <1>4, <1>5

\* No row behind the continuation: everything is behind the cursor.
LEMMA ProbeInvariant == IInv /\ Probe => IInv'
<1> SUFFICES ASSUME IInv, Probe PROVE IInv'
  OBVIOUS
<1> USE SizesAssumption
<1> DEFINE rows == Query(next, 1)
<1>1. /\ at = "probe" /\ at' = IF next # 0 /\ rows # <<>> THEN "page" ELSE "end"
      /\ IF at' = "end" THEN page' = NewPage /\ pages' = Append(pages, page) ELSE page' = page /\ pages' = pages
      /\ present' = present /\ steady' = steady /\ writes' = writes /\ walk' = walk
      /\ after' = after /\ next' = next
  BY DEF Probe, bucket
<1>2. /\ TypeOK /\ walk = "pages" /\ ListedUpTo(page, after) /\ after \in 0..KeyCount /\ present \in SUBSET Keys
      /\ pages \in Seq(Page) /\ page \in Page /\ (next = 0 \/ next = after) /\ next \in Nat
      /\ (next = 0 => Exhausted)
      /\ LimitOK /\ Emitted(page) <= Limit
      /\ (writes = 0 => steady = present)
      /\ (writes = 0 => Exhausted \/ (next # 0 /\ Group[next] = None))
      /\ (writes = 0 => Passed(OldPrefixes))
  BY <1>1 DEF IInv, TypeOK, PlaceOK, AheadOK, LimitOK, PassedOK
<1>3. QueryRows(rows, next, 1)
  BY <1>2, QueryOK
<1> HIDE DEF rows
<1>4. CASE next # 0 /\ rows # <<>>
  <2>1. at' = "page" /\ page' = page /\ pages' = pages
    BY <1>1, <1>4
  <2>2. ListedUpTo(page, after)'
    BY <1>1, <1>2, <2>1, ListedKept
  <2>3. TypeOK' /\ PlaceOK' /\ AheadOK'
    BY <1>1, <1>2, <1>4, <2>1 DEF TypeOK, PlaceOK, AheadOK
  <2>4. LimitOK'
    BY <1>1, <1>2, <2>1 DEF LimitOK, Emitted
  <2>5. ASSUME writes = 0 PROVE Passed(page.prefixes)
    <3>1. SUFFICES ASSUME NEW k \in present, k > after, Group[k] \in ToSet(page.prefixes) PROVE FALSE
      BY DEF Passed
    <3>2. CASE Exhausted
      BY <1>2, <2>5, <3>1, <3>2 DEF Exhausted, Keys
    <3>3. CASE next # 0 /\ Group[next] = None
      <4>1. next \in Keys /\ next = after /\ k \in Keys
        BY <1>2, <3>3 DEF Keys
      <4>2. next < k
        BY <3>1, <4>1 DEF Keys
      <4>3. Group[next] = Group[k]
        BY <1>2, <3>1, <4>1, <4>2, PrefixesEnd
      <4>4. Group[k] # None
        BY <1>2, <3>1 DEF ListedUpTo
      <4> QED BY <3>3, <4>3, <4>4
    <3> QED BY <1>2, <2>5, <3>2, <3>3
  <2>6. PassedOK'
    <3>1. OldPrefixes' = OldPrefixes
      BY <2>1 DEF OldPrefixes
    <3>2. writes' = 0 => Passed(OldPrefixes)' /\ Passed(page.prefixes)'
      BY <1>1, <1>2, <2>1, <2>5, <3>1 DEF Passed
    <3> QED BY <1>1, <2>1, <3>2 DEF PassedOK
  <2> QED BY <2>2, <2>3, <2>4, <2>6 DEF IInv
<1>5. CASE ~(next # 0 /\ rows # <<>>)
  <2>1. at' = "end" /\ page' = NewPage /\ pages' = Append(pages, page)
    BY <1>1, <1>5
  <2>2. /\ ListedUpTo(page, after)'
        /\ pages' \in Seq(Page) /\ page' \in Page /\ Emitted(page') = 0 /\ page'.prefixes = <<>>
        /\ \A i \in DOMAIN pages' : Emitted(pages'[i]) <= Limit /\ IsInjective(pages'[i].prefixes)
    BY <1>1, <1>2, <2>1, PageTurned
  <2>3. TypeOK' /\ PlaceOK'
    BY <1>1, <1>2, <2>1, <2>2 DEF TypeOK, PlaceOK
  <2>4. Exhausted
    <3>1. CASE next = 0
      BY <1>2, <3>1
    <3>2. CASE next # 0
      <4>1. rows = <<>> /\ Len(rows) < 1 /\ next = after
        BY <1>2, <1>5, <3>2
      <4>2. \A k \in present : k <= after
        BY <1>2, <1>3, <4>1, RowsExhaust
      <4> QED BY <1>2, <4>2 DEF Exhausted, TypeOK
    <3> QED BY <3>1, <3>2
  <2>5. AheadOK'
    BY <1>1, <2>1, <2>4 DEF AheadOK, Exhausted
  <2>6. LimitOK'
    BY <1>1, <1>2, <2>1, <2>2 DEF LimitOK
  <2>7. PassedOK'
    BY <2>1 DEF PassedOK
  <2> QED BY <2>2, <2>3, <2>5, <2>6, <2>7 DEF IInv
<1> QED BY <1>4, <1>5

\* The rows of a prefix that a query starts with are a beginning of its rows.
LEMMA OwnRows ==
  ASSUME NEW rows \in Seq(Keys), NEW g, NEW cursor
  PROVE  \E m \in 0..Len(rows) :
           /\ LastOfGroup(rows, g, cursor) = IF m = 0 THEN cursor ELSE rows[m]
           /\ \A i \in 1..m : Group[rows[i]] = g
           /\ m < Len(rows) => Group[rows[m + 1]] # g
<1> DEFINE n == Len(rows)
           others == {i \in 1..n : Group[rows[i]] # g}
           own == {i \in DOMAIN rows : \A j \in 1..i : Group[rows[j]] = g}
<1>1. n \in Nat /\ DOMAIN rows = 1..n
  OBVIOUS
<1>2. PICK m \in 0..n : (\A i \in 1..m : Group[rows[i]] = g) /\ (m < n => Group[rows[m + 1]] # g)
  <2>1. CASE others = {}
    BY <1>1, <2>1
  <2>2. CASE others # {}
    <3>1. others \in SUBSET Nat
      BY <1>1
    <3>2. PICK b \in others : \A i \in others : b <= i
      BY <2>2, <3>1, LeastNatural
    <3>3. b \in 1..n /\ Group[rows[b]] # g /\ b - 1 \in 0..n /\ (b - 1) + 1 = b
      BY <1>1, <3>2
    <3>4. \A i \in 1..(b - 1) : Group[rows[i]] = g
      BY <1>1, <3>2, <3>3
    <3> QED BY <3>3, <3>4
  <2> QED BY <2>1, <2>2
<1>3. own = 1..m
  <2>1. ASSUME NEW i \in own PROVE i \in 1..m
    <3>1. CASE m < n /\ m < i
      <4>1. m + 1 \in 1..i
        BY <1>1, <2>1, <3>1
      <4> QED BY <1>2, <2>1, <3>1, <4>1
    <3>2. CASE ~(m < n /\ m < i)
      BY <1>1, <1>2, <2>1, <3>2
    <3> QED BY <3>1, <3>2
  <2>2. ASSUME NEW i \in 1..m PROVE i \in own
    <3>1. i \in 1..n /\ \A j \in 1..i : j \in 1..m
      BY <1>1, <1>2
    <3> QED BY <1>1, <1>2, <3>1
  <2> QED BY <2>1, <2>2
<1>4. LastOfGroup(rows, g, cursor) = IF own = {} THEN cursor ELSE rows[CHOOSE i \in own : \A j \in own : j <= i]
  BY DEF LastOfGroup
<1> HIDE DEF own, others, n
<1>5. CASE m = 0
  BY <1>2, <1>3, <1>4, <1>5 DEF n
<1>6. CASE m # 0
  <2>1. own # {} /\ m \in own /\ \A j \in own : j <= m
    BY <1>1, <1>2, <1>3, <1>6
  <2>2. \A i \in own : (\A j \in own : j <= i) => i = m
    BY <1>1, <1>2, <1>3, <2>1
  <2>3. (CHOOSE i \in own : \A j \in own : j <= i) = m
    BY <2>1, <2>2
  <2> QED BY <1>2, <1>4, <1>6, <2>1, <2>3 DEF n
<1> QED BY <1>5, <1>6

\* Past a prefix: the rows skipped are all of a prefix that is on the page.
LEMMA AdvanceInvariant == IInv /\ Advance => IInv'
<1> SUFFICES ASSUME IInv, Advance PROVE IInv'
  OBVIOUS
<1> USE SizesAssumption
<1> DEFINE g == page.prefixes[Len(page.prefixes)]
           rows == Query(next, Batch)
           n == Len(rows)
<1>1. /\ at = "advance" /\ next' = LastOfGroup(rows, g, next) /\ after' = next'
      /\ at' = IF \E i \in DOMAIN rows : Group[rows[i]] # g THEN "page"
               ELSE IF n < Batch THEN "probe" ELSE "advance"
      /\ present' = present /\ steady' = steady /\ writes' = writes /\ walk' = walk
      /\ page' = page /\ pages' = pages
  BY DEF Advance, bucket
<1>2. /\ TypeOK /\ walk = "pages" /\ ListedUpTo(page, after) /\ after \in 0..KeyCount /\ present \in SUBSET Keys
      /\ pages \in Seq(Page) /\ page \in Page /\ next # 0 /\ next = after /\ next \in Keys
      /\ LimitOK /\ Emitted(page) <= Limit
      /\ (writes = 0 => steady = present)
      /\ (writes = 0 => Passed(OldPrefixes))
      /\ page.prefixes # <<>> /\ Group[next] = g
  BY <1>1 DEF IInv, TypeOK, PlaceOK, LimitOK, PassedOK, Keys
<1>3. next \in Nat /\ Batch \in Nat /\ QueryRows(rows, next, Batch)
  <2>1. next \in Nat /\ Batch \in Nat
    BY <1>2 DEF Keys
  <2> QED BY <1>2, <2>1, QueryOK
<1>4. g \in ToSet(page.prefixes)
  <2>1. page.prefixes \in Seq(Names)
    BY <1>2 DEF Page
  <2>2. Len(page.prefixes) \in DOMAIN page.prefixes
    BY <1>2, <2>1
  <2> QED BY <2>2 DEF ToSet
<1>5. g # None
  BY <1>2, <1>4 DEF ListedUpTo
<1> HIDE DEF g, rows
<1>6. /\ rows \in Seq(Keys) /\ n \in Nat /\ DOMAIN rows = 1..n
      /\ \A i \in 1..n : rows[i] \in present /\ rows[i] \in Keys /\ rows[i] \in Nat /\ next < rows[i]
      /\ \A i, j \in 1..n : i < j => rows[i] < rows[j]
  BY <1>3 DEF QueryRows, Ascending, Keys
<1>7. PICK m \in 0..n : /\ next' = IF m = 0 THEN next ELSE rows[m]
                        /\ \A i \in 1..m : Group[rows[i]] = g
                        /\ m < n => Group[rows[m + 1]] # g
  <2>1. rows \in Seq(Keys) /\ next' = LastOfGroup(rows, g, next)
    BY <1>1, <1>6
  <2> QED BY <2>1, OwnRows
<1> HIDE DEF n
<1>8. m \in Nat /\ m <= n /\ (m # 0 => m \in 1..n)
  BY <1>6, <1>7
<1>9. next' \in Keys /\ next <= next' /\ Group[next'] = g
  <2>1. CASE m = 0
    BY <1>2, <1>3, <1>7, <2>1
  <2>2. CASE m # 0
    <3>1. m \in 1..n /\ m \in 1..m
      BY <1>8, <2>2
    <3> QED BY <1>3, <1>6, <1>7, <2>2, <3>1
  <2> QED BY <2>1, <2>2
<1>10. ASSUME NEW k \in present, next < k, k <= next' PROVE Group[k] = g
  <2>1. k \in Nat
    BY <1>2 DEF Keys
  <2>2. m # 0 /\ next' = rows[m] /\ m \in 1..n
    BY <1>3, <1>7, <1>8, <1>10, <2>1
  <2>3. PICK i \in 1..n : rows[i] = k
    <3>1. ~(rows[m] < k)
      BY <1>6, <1>10, <2>1, <2>2
    <3> QED BY <1>3, <1>10, <2>2, <3>1 DEF QueryRows, n
  <2>4. ~(m < i)
    BY <1>6, <1>10, <2>1, <2>2, <2>3
  <2>5. i \in 1..m
    BY <1>6, <1>8, <2>4
  <2> QED BY <1>7, <2>3, <2>5
<1>11. ListedUpTo(page, next')
  <2>1. ASSUME NEW k \in steady, after < k, k <= next' PROVE Listed(page, k)
    <3>1. k \in present /\ Group[k] = g
      BY <1>2, <1>10, <2>1 DEF TypeOK
    <3>2. page.prefixes \in Seq(Names) /\ OldPrefixes \in Seq(Names)
      BY <1>2, OldTypes DEF Page
    <3>3. ToSet(page.prefixes) \subseteq ToSet(PrefixesWith(page))
      BY <3>2, ConcatSet DEF PrefixesWith
    <3> QED BY <1>4, <3>1, <3>3 DEF Listed
  <2>2. next' \in 0..KeyCount /\ after <= next'
    BY <1>2, <1>9 DEF Keys
  <2> QED BY <1>2, <2>1, <2>2, CursorMoves
<1>12. ListedUpTo(page, after)'
  BY <1>1, <1>11, ListedKept
<1>13. next' \in 0..KeyCount /\ next' \in Nat /\ next' # 0
  BY <1>9 DEF Keys
<1>14. TypeOK' /\ PlaceOK'
  BY <1>1, <1>2, <1>13 DEF TypeOK, PlaceOK
<1>15. AheadOK' /\ LimitOK'
  <2>1. at' \in {"page", "probe", "advance"}
    BY <1>1
  <2> QED BY <1>1, <1>2, <1>13, <2>1 DEF AheadOK, LimitOK, Emitted
<1>16. ASSUME \E i \in DOMAIN rows : Group[rows[i]] # g PROVE m < n
  BY <1>6, <1>7, <1>8, <1>16
<1>17. ASSUME writes = 0, at' = "probe" PROVE Exhausted'
  <2>1. n < Batch /\ ~\E i \in DOMAIN rows : Group[rows[i]] # g
    BY <1>1, <1>17
  <2>2. \A k \in present : k <= IF rows = <<>> THEN next ELSE rows[n]
    BY <1>2, <1>3, <2>1, RowsExhaust DEF n
  <2>3. m = n
    <3>1. m < n => m + 1 \in DOMAIN rows
      BY <1>6, <1>8
    <3> QED BY <1>7, <1>8, <1>6, <2>1, <3>1
  <2>4. next' = IF rows = <<>> THEN next ELSE rows[n]
    <3>1. rows = <<>> <=> n = 0
      BY <1>6 DEF n
    <3> QED BY <1>7, <2>3, <3>1
  <2> QED BY <1>1, <1>2, <2>2, <2>4 DEF Exhausted, TypeOK
<1>18. ASSUME at' = "page", NEW k \in present, k > next', Group[k] \in ToSet(page.prefixes) PROVE FALSE
  <2> DEFINE b == rows[m + 1]
  <2>1. m < n
    BY <1>1, <1>16, <1>18
  <2>2. m + 1 \in 1..n /\ Group[b] # g
    BY <1>6, <1>7, <1>8, <2>1
  <2>3. b \in Keys /\ b \in Nat /\ next < b /\ k \in Keys /\ k \in Nat
    BY <1>2, <1>6, <2>2 DEF Keys
  <2> HIDE DEF b
  <2>4. Group[next] = Group[k]
    BY <1>2, <1>9, <1>13, <1>18, <1>3, <2>3, PrefixesEnd
  <2>5. b <= k
    <3>1. \/ \E i \in 1..n : rows[i] = k
          \/ \A i \in 1..n : rows[i] < k
      <4>1. next < k
        BY <1>3, <1>9, <1>13, <1>18, <2>3
      <4> QED BY <1>3, <4>1 DEF QueryRows, n
    <3>2. CASE \A i \in 1..n : rows[i] < k
      BY <2>2, <2>3, <3>2 DEF b
    <3>3. CASE \E i \in 1..n : rows[i] = k
      <4>1. PICK i \in 1..n : rows[i] = k
        BY <3>3
      <4>2. ~(i < m) /\ i # m
        <5>1. m # 0 => next' = rows[m] /\ m \in 1..n
          BY <1>7, <1>8
        <5> QED BY <1>6, <1>8, <1>13, <1>18, <2>3, <4>1, <5>1
      <4>3. i = m + 1 \/ m + 1 < i
        BY <1>6, <1>8, <4>1, <4>2
      <4> QED BY <1>6, <2>2, <2>3, <4>1, <4>3 DEF b
    <3> QED BY <3>1, <3>2, <3>3
  <2>6. b # k
    BY <1>2, <2>2, <2>4
  <2>7. b < k
    BY <2>3, <2>5, <2>6
  <2>8. Group[b] = Group[next]
    BY <1>2, <1>5, <2>3, <2>4, <2>7, GroupAssumption
  <2> QED BY <1>2, <2>2, <2>8
<1>19. PassedOK'
  <2>1. at' = "advance" => page'.prefixes # <<>> /\ Group[next'] = page'.prefixes[Len(page'.prefixes)]
    BY <1>1, <1>2, <1>9 DEF g
  <2>2. writes' = 0 => Passed(OldPrefixes)'
    <3>1. OldPrefixes' = OldPrefixes
      BY <1>1 DEF OldPrefixes
    <3>2. after' \in Nat /\ after <= after'
      BY <1>1, <1>2, <1>9, <1>13
    <3> QED BY <1>1, <1>2, <3>1, <3>2, PassedKept DEF Passed
  <2>3. writes' = 0 /\ at' = "page" => Passed(page.prefixes)'
    BY <1>1, <1>18 DEF Passed
  <2> QED BY <1>1, <1>17, <2>1, <2>2, <2>3 DEF PassedOK
<1> QED BY <1>12, <1>14, <1>15, <1>19 DEF IInv

\* Every step keeps the invariant.
LEMMA NextInvariant == IInv /\ [Next]_vars => IInv'
<1> SUFFICES ASSUME IInv, [Next]_vars PROVE IInv'
  OBVIOUS
<1>1. CASE Start
  BY <1>1, StartInvariant
<1>2. CASE Walk
  BY <1>2, ScanInvariant, AdvanceInvariant, ProbeInvariant, ContinueInvariant, LsInvariant,
     LsdInvariant, ListAllInvariant DEF Walk
<1>3. CASE Forget
  BY <1>3, ForgetInvariant
<1>4. CASE \E k \in Keys : Put(k) \/ Delete(k)
  BY <1>4, PutInvariant, DeleteInvariant
<1>5. CASE UNCHANGED vars
  <2>1. /\ present' = present /\ steady' = steady /\ writes' = writes /\ walk' = walk /\ at' = at
        /\ after' = after /\ next' = next /\ page' = page /\ pages' = pages
    BY <1>5 DEF vars
  <2>2. ListedUpTo(page, after)'
    BY <2>1, ListedKept DEF IInv
  <2> QED BY <2>1, <2>2 DEF IInv, TypeOK, PlaceOK, AheadOK, Exhausted, LimitOK, Emitted, PassedOK,
                            Passed, OldPrefixes
<1> QED BY <1>1, <1>2, <1>3, <1>4, <1>5 DEF Next

\* The invariant holds in every state of the walks.
THEOREM Invariance == Spec => []IInv
BY InitInvariant, NextInvariant, PTL DEF Spec
--------------------------------------------------------------------------------
(* What the client relies on *)

\* What all pages have listed is what the invariant speaks of.
LEMMA AllListed ==
  ASSUME TypeOK
  PROVE  /\ KeysListed = KeysWith(page) /\ PrefixesListed = PrefixesWith(page)
         /\ KeysListed \in Seq(Keys)
<1>1. pages \in Seq(Page) /\ page \in Page /\ AllPages = Append(pages, page)
  BY DEF TypeOK, AllPages
<1>2. KeysListed = KeysWith(page) /\ PrefixesListed = PrefixesWith(page)
  BY <1>1, PagesGrow DEF KeysListed, PrefixesListed
<1>3. page.keys \in Seq(Keys) /\ OldKeys \in Seq(Keys)
  BY <1>1, OldTypes DEF Page
<1>4. KeysWith(page) \in Seq(Keys)
  BY <1>3, ConcatProperties DEF KeysWith
<1> QED BY <1>2, <1>4

\* At the end the cursor has passed every key that was there all the time.
LEMMA NothingMissedHolds == IInv => NothingMissed
<1> SUFFICES ASSUME IInv, at = "end", NEW k \in steady
             PROVE  \/ k \in ToSet(KeysListed) \/ Group[k] \in ToSet(PrefixesListed)
                    \/ walk = "lsd" /\ Group[k] = None
                    \/ walk = "children" /\ k = Marker
                    \/ walk = "lsLimited" /\ Len(KeysListed) = Limit
  BY DEF NothingMissed
<1>1. /\ TypeOK /\ ListedUpTo(page, after)
      /\ KeysListed = KeysWith(page) /\ PrefixesListed = PrefixesWith(page)
  BY AllListed DEF IInv
<1>2. CASE Exhausted
  BY <1>1, <1>2 DEF Exhausted, ListedUpTo, Listed
<1>3. CASE walk = "lsLimited" /\ Len(page.keys) = Limit
  <2>1. pages = <<>> /\ page.keys \in Seq(Keys)
    BY <1>3 DEF IInv, PlaceOK, TypeOK, Page
  <2>2. OldKeys = <<>>
    BY <2>1, NoOldPages
  <2>3. <<>> \o page.keys = page.keys
    BY <2>1, ConcatEmptySeq
  <2>4. KeysListed = page.keys
    BY <1>1, <2>2, <2>3, Zenon DEF KeysWith
  <2> QED BY <1>3, <2>4
<1> QED BY <1>2, <1>3 DEF IInv, AheadOK

\* The invariant keeps the keys listed in order.
LEMMA KeysAscendHolds == IInv => KeysAscend
<1> SUFFICES ASSUME IInv PROVE KeysAscend
  OBVIOUS
<1>1. KeysListed = KeysWith(page) /\ KeysListed \in Seq(Keys) /\ Ascends(KeysWith(page), after)
  BY AllListed DEF IInv, ListedUpTo
<1>2. DOMAIN KeysListed = 1..Len(KeysListed)
  BY <1>1
<1> QED BY <1>1, <1>2 DEF Ascends, KeysAscend

\* The invariant bounds every page.
LEMMA PagesWithinLimitHolds == IInv => PagesWithinLimit
<1> SUFFICES ASSUME IInv, NEW i \in DOMAIN AllPages
             PROVE  /\ walk \in {"pages", "lsLimited"} => Emitted(AllPages[i]) <= Limit
                    /\ IsInjective(AllPages[i].prefixes)
  BY DEF PagesWithinLimit
<1>1. /\ pages \in Seq(Page) /\ page \in Page /\ IsInjective(page.prefixes)
      /\ walk \in {"pages", "lsLimited"} => Emitted(page) <= Limit
      /\ \A j \in DOMAIN pages : Emitted(pages[j]) <= Limit /\ IsInjective(pages[j].prefixes)
  BY DEF IInv, TypeOK, ListedUpTo, LimitOK
<1>2. /\ DOMAIN AllPages = 1..(Len(pages) + 1) /\ DOMAIN pages = 1..Len(pages) /\ Len(pages) \in Nat
      /\ \A j \in 1..Len(pages) : AllPages[j] = pages[j]
      /\ AllPages[Len(pages) + 1] = page
  <2>1. /\ AllPages \in Seq(Page) /\ Len(AllPages) = Len(pages) + 1
        /\ \A j \in 1..Len(pages) : AllPages[j] = pages[j]
        /\ AllPages[Len(pages) + 1] = page
    BY <1>1, AppendProperties DEF AllPages
  <2> QED BY <1>1, <2>1
<1>3. CASE i \in 1..Len(pages)
  BY <1>1, <1>2, <1>3
<1>4. CASE i = Len(pages) + 1
  BY <1>1, <1>2, <1>4
<1> QED BY <1>2, <1>3, <1>4

\* The invariant keeps the prefixes of all pages apart, while nothing is written.
LEMMA PrefixesOnceHolds == IInv => PrefixesOnce
<1> SUFFICES ASSUME IInv, writes = 0 \/ walk # "pages" PROVE IsInjective(PrefixesListed)
  BY DEF PrefixesOnce
<1>1. /\ PrefixesListed = PrefixesWith(page) /\ ListedUpTo(page, after) /\ page \in Page
      /\ walk # "pages" => pages = <<>>
  BY AllListed DEF IInv, TypeOK, PlaceOK
<1>2. CASE writes = 0
  BY <1>1, <1>2 DEF ListedUpTo
<1>3. CASE walk # "pages"
  <2>1. OldPrefixes = <<>> /\ page.prefixes \in Seq(Names)
    BY <1>1, <1>3, NoOldPages DEF Page
  <2>2. <<>> \o page.prefixes = page.prefixes
    BY <2>1, ConcatEmptySeq
  <2>3. PrefixesListed = page.prefixes
    BY <1>1, <2>1, <2>2, Zenon DEF PrefixesWith
  <2> QED BY <1>1, <2>3 DEF ListedUpTo
<1> QED BY <1>2, <1>3

\* A walk that has ended has listed every object that was there all the time, for any
\* keys, prefixes, limits and sizes of a query, and any writes (store.go:580-713,
\* cmd/tgnas/main.go:252-289 and 434-467).
THEOREM WalksMissNothing == Spec => []NothingMissed
BY Invariance, NothingMissedHolds, PTL

\* Keys come in ascending order over all pages and queries.
THEOREM KeysInOrder == Spec => []KeysAscend
BY Invariance, KeysAscendHolds, PTL

\* No page of ListObjects has more entries than max-keys, `ls` prints no more lines than
\* its limit, and no page lists a prefix twice.
THEOREM LimitsKept == Spec => []PagesWithinLimit
BY Invariance, PagesWithinLimitHolds, PTL

\* No two pages list the same prefix unless the bucket is written during the walk: the
\* continuation is put behind all keys of a page's last prefix (store.go:687-713).
THEOREM PrefixesListedOnce == Spec => []PrefixesOnce
BY Invariance, PrefixesOnceHolds, PTL
================================================================================
