-------------------------- MODULE ObjectHandleProofs --------------------------
(***************************************************************************)
(* What a handle writes is what a reader gets, for any size of segments    *)
(* and of writes, any number of them and any clock, as long as Swift does  *)
(* what it is asked to; and no segment is too large even if one of its     *)
(* requests fails.                                                         *)
(***************************************************************************)
EXTENDS ObjectHandle, SequenceTheorems, WellFoundedInduction, TLAPS

USE HandleAssumption

-----------------------------------------------------------------------------
(* Induction, on a set of numbers: one that has 0, and the successor of    *)
(* each of its elements, has them all.                                     *)
LEMMA SetInduction ==
  ASSUME NEW S, 0 \in S, \A n \in Nat : n \in S => n + 1 \in S
  PROVE  Nat \subseteq S
<1> DEFINE T == Nat \ S
           R == {pair \in Nat \X Nat : pair[1] < pair[2]}
<1>1. SUFFICES ASSUME T # {} PROVE FALSE
  OBVIOUS
<1>2. IsWellFoundedOn(R, Nat)
  BY NatLessThanWellFounded DEF OpToRel
<1>3. PICK least \in T : \A n \in T : <<n, least>> \notin R
  <2> HIDE DEF R
  <2> QED
    BY <1>1, <1>2, WFMin
<1>4. least - 1 \in Nat /\ least = (least - 1) + 1 /\ <<least - 1, least>> \in R
  OBVIOUS
<1>5. least - 1 \notin T
  BY <1>3, <1>4
<1> QED
  BY <1>4, <1>5

(* Data, and (under a name of its own, which the provers leave alone) what *)
(* is joined of them.                                                      *)
Cat(s, t) == s \o t
LEMMA DataConcat ==
  /\ << >> \in Data
  /\ \A s, t \in Data : s \o t \in Data
  /\ \A s \in Data : s \o << >> = s /\ << >> \o s = s
BY EmptySeq, ConcatProperties, ConcatEmptySeq DEF Data

LEMMA EmptyData == << >> \in Data
BY DataConcat

LEMMA Associative ==
  ASSUME NEW s \in Data, NEW t \in Data, NEW u \in Data
  PROVE  Cat(Cat(s, t), u) = Cat(s, Cat(t, u))
BY ConcatAssociative DEF Cat, Data

(* The recursive function that joins parts is what its definition says.    *)
LEMMA JoinedIs ==
  ASSUME NEW parts \in [Nat -> Data]
  PROVE  /\ Joined(parts) \in [Nat -> Data] /\ Joined(parts)[0] = << >>
         /\ \A n \in Nat : Joined(parts)[n + 1] = Joined(parts)[n] \o parts[n + 1]
<1> DEFINE Good(f, m) == /\ f \in [0 .. m -> Data] /\ f[0] = << >>
                         /\ \A n \in 0 .. m - 1 : f[n + 1] = f[n] \o parts[n + 1]
           Some == {m \in Nat : \E f \in [0 .. m -> Data] : Good(f, m)}
           Same == {m \in Nat : \A k, l \in Nat : \A f, g :
                      m <= k /\ m <= l /\ Good(f, k) /\ Good(g, l) => f[m] = g[m]}
<1>1. Nat \subseteq Some
  <2>1. 0 \in Some
    <3> DEFINE f == [n \in 0 .. 0 |-> << >>]
    <3>1. f \in [0 .. 0 -> Data] /\ Good(f, 0)
      BY DataConcat
    <3> QED
      BY <3>1
  <2>2. ASSUME NEW m \in Nat, m \in Some PROVE m + 1 \in Some
    <3>1. PICK f \in [0 .. m -> Data] : Good(f, m)
      BY <2>2
    <3> DEFINE g == [n \in 0 .. m + 1 |-> IF n = m + 1 THEN f[m] \o parts[m + 1] ELSE f[n]]
    <3>2. f[m] \o parts[m + 1] \in Data
      <4>1. f[m] \in Data /\ parts[m + 1] \in Data
        OBVIOUS
      <4> QED
        BY <4>1, DataConcat
    <3>3. g \in [0 .. m + 1 -> Data]
      BY <3>2
    <3>4. ASSUME NEW n \in 0 .. m PROVE g[n + 1] = g[n] \o parts[n + 1]
      <4>1. CASE n = m
        <5>1. m \in 0 .. m + 1 /\ m + 1 \in 0 .. m + 1 /\ m # m + 1
          OBVIOUS
        <5>2. g[m] = f[m] /\ g[m + 1] = f[m] \o parts[m + 1]
          BY <5>1
        <5> HIDE DEF g
        <5> QED
          BY <4>1, <5>2
      <4>2. CASE n # m
        <5>1. n \in 0 .. m - 1 /\ g[n + 1] = f[n + 1] /\ g[n] = f[n]
          BY <4>2
        <5>2. f[n + 1] = f[n] \o parts[n + 1]
          BY <3>1, <5>1
        <5> HIDE DEF g
        <5> QED
          BY <5>1, <5>2
      <4> QED
        BY <4>1, <4>2
    <3>5. g[0] = << >>
      BY <3>1
    <3> HIDE DEF g
    <3>6. Good(g, m + 1)
      <4>1. (m + 1) - 1 = m
        OBVIOUS
      <4> QED
        BY <3>3, <3>4, <3>5, <4>1
    <3> HIDE DEF Good
    <3> QED
      BY <3>3, <3>6
  <2> HIDE DEF Some
  <2> QED
    BY <2>1, <2>2, SetInduction
<1>2. Nat \subseteq Same
  <2>1. 0 \in Same
    OBVIOUS
  <2>2. ASSUME NEW m \in Nat, m \in Same PROVE m + 1 \in Same
    <3>1. SUFFICES ASSUME NEW k \in Nat, NEW l \in Nat, NEW f, NEW g,
                          m + 1 <= k, m + 1 <= l, Good(f, k), Good(g, l)
                   PROVE  f[m + 1] = g[m + 1]
      <4> HIDE DEF Good
      <4> QED
        OBVIOUS
    <3>2. f[m] = g[m]
      <4> HIDE DEF Good
      <4> QED
        BY <2>2, <3>1
    <3>3. m \in 0 .. k - 1 /\ m \in 0 .. l - 1
      BY <3>1
    <3> QED
      BY <3>1, <3>2, <3>3
  <2> HIDE DEF Same
  <2> QED
    BY <2>1, <2>2, SetInduction
<1> DEFINE pick == [m \in Nat |-> CHOOSE f \in [0 .. m -> Data] : Good(f, m)]
           whole == [n \in Nat |-> pick[n][n]]
<1>3. ASSUME NEW m \in Nat PROVE pick[m] \in [0 .. m -> Data] /\ Good(pick[m], m)
  BY <1>1
<1> HIDE DEF pick
<1>4. \A n \in Nat : pick[n][n] \in Data
  <2> TAKE n \in Nat
  <2> HIDE DEF Good
  <2>1. pick[n] \in [0 .. n -> Data] /\ n \in 0 .. n
    BY <1>3
  <2> QED
    BY <2>1
<1>5. ASSUME NEW n \in Nat PROVE pick[n + 1][n + 1] = pick[n][n] \o parts[n + 1]
  <2>1. n + 1 \in Nat /\ n \in 0 .. (n + 1) - 1
    OBVIOUS
  <2>2. pick[n + 1][n] = pick[n][n]
    <3> HIDE DEF Good
    <3>1. n \in Same /\ n <= n + 1 /\ n <= n
      <4> HIDE DEF Same
      <4> QED
        BY <1>2
    <3>2. Good(pick[n + 1], n + 1) /\ Good(pick[n], n)
      BY <1>3, <2>1
    <3> QED
      BY <2>1, <3>1, <3>2
  <2>3. pick[n + 1][n + 1] = pick[n + 1][n] \o parts[n + 1]
    BY <1>3, <2>1
  <2> QED
    BY <2>2, <2>3
<1>6. whole = [n \in Nat |-> IF n = 0 THEN << >> ELSE whole[n - 1] \o parts[n]]
  <2>1. whole[0] = << >>
    BY <1>3
  <2>2. ASSUME NEW n \in Nat, n # 0 PROVE whole[n] = whole[n - 1] \o parts[n]
    <3>1. n - 1 \in Nat /\ (n - 1) + 1 = n
      BY <2>2
    <3>2. pick[n][n] = pick[n - 1][n - 1] \o parts[n]
      BY <1>5, <3>1
    <3> QED
      BY <3>1, <3>2
  <2>3. whole = [n \in Nat |-> whole[n]]
    OBVIOUS
  <2> HIDE DEF whole
  <2> QED
    BY <2>1, <2>2, <2>3
<1> DEFINE joined == CHOOSE f : f = [n \in Nat |-> IF n = 0 THEN << >> ELSE f[n - 1] \o parts[n]]
<1>7. Joined(parts) = joined
  BY DEF Joined
<1> HIDE DEF whole
<1>8. joined = [n \in Nat |-> IF n = 0 THEN << >> ELSE joined[n - 1] \o parts[n]]
  BY <1>6
<1> HIDE DEF joined, Good, Some, Same, pick
<1>9. joined[0] = << >> /\ \A n \in Nat : joined[n + 1] = joined[n] \o parts[n + 1]
  <2>1. \A n \in Nat : joined[n] = IF n = 0 THEN << >> ELSE joined[n - 1] \o parts[n]
    BY <1>8
  <2>2. ASSUME NEW n \in Nat PROVE n + 1 \in Nat /\ n + 1 # 0 /\ (n + 1) - 1 = n
    OBVIOUS
  <2> QED
    BY <2>1, <2>2
<1>10. DOMAIN joined = Nat /\ joined = [n \in Nat |-> joined[n]]
  BY <1>8
<1> DEFINE Typed == {n \in Nat : joined[n] \in Data}
<1>11. Nat \subseteq Typed
  <2>1. 0 \in Typed
    BY <1>9, DataConcat
  <2>2. ASSUME NEW n \in Nat, n \in Typed PROVE n + 1 \in Typed
    <3>1. joined[n] \in Data /\ parts[n + 1] \in Data
      BY <2>2
    <3>2. joined[n] \o parts[n + 1] \in Data
      BY <3>1, DataConcat
    <3>3. joined[n + 1] \in Data
      BY <1>9, <3>2, Zenon
    <3> QED
      BY <3>3
  <2> HIDE DEF Typed
  <2> QED
    BY <2>1, <2>2, SetInduction
<1>12. joined \in [Nat -> Data]
  BY <1>10, <1>11
<1> QED
  BY <1>7, <1>9, <1>12

(* Parts that are the same, or empty, make no difference.                  *)
LEMMA JoinSame ==
  ASSUME NEW f \in [Nat -> Data], NEW g \in [Nat -> Data], NEW n \in Nat,
         \A i \in 1 .. n : f[i] = g[i]
  PROVE  Joined(f)[n] = Joined(g)[n]
<1> DEFINE Same == {m \in Nat : m <= n => Joined(f)[m] = Joined(g)[m]}
<1>1. 0 \in Same
  BY JoinedIs
<1>2. ASSUME NEW m \in Nat, m \in Same PROVE m + 1 \in Same
  <2>1. SUFFICES ASSUME m + 1 <= n PROVE Joined(f)[m + 1] = Joined(g)[m + 1]
    OBVIOUS
  <2>2. Joined(f)[m] = Joined(g)[m] /\ f[m + 1] = g[m + 1]
    BY <1>2, <2>1
  <2>3. /\ Joined(f)[m + 1] = Joined(f)[m] \o f[m + 1]
        /\ Joined(g)[m + 1] = Joined(g)[m] \o g[m + 1]
    BY JoinedIs
  <2> QED
    BY <2>2, <2>3
<1>3. n \in Same
  <2> HIDE DEF Same
  <2> QED
    BY <1>1, <1>2, SetInduction
<1> QED
  BY <1>3

LEMMA JoinNone ==
  ASSUME NEW f \in [Nat -> Data], NEW n \in Nat, \A i \in 1 .. n : f[i] = << >>
  PROVE  Joined(f)[n] = << >>
<1> DEFINE None == {m \in Nat : m <= n => Joined(f)[m] = << >>}
<1>1. 0 \in None
  BY JoinedIs
<1>2. ASSUME NEW m \in Nat, m \in None PROVE m + 1 \in None
  <2>1. SUFFICES ASSUME m + 1 <= n PROVE Joined(f)[m + 1] = << >>
    OBVIOUS
  <2>2. Joined(f)[m] = << >> /\ f[m + 1] = << >>
    BY <1>2, <2>1
  <2>3. Joined(f)[m + 1] = Joined(f)[m] \o f[m + 1]
    BY JoinedIs
  <2> QED
    BY <2>2, <2>3, DataConcat
<1>3. n \in None
  <2> HIDE DEF None
  <2> QED
    BY <1>1, <1>2, SetInduction
<1> QED
  BY <1>3

LEMMA JoinStops ==
  ASSUME NEW f \in [Nat -> Data], NEW k \in Nat, NEW n \in Nat, k <= n,
         \A i \in Nat : i > k => f[i] = << >>
  PROVE  Joined(f)[n] = Joined(f)[k]
<1> DEFINE Stop == {d \in Nat : Joined(f)[k + d] = Joined(f)[k]}
<1>1. 0 \in Stop
  OBVIOUS
<1>2. ASSUME NEW d \in Nat, d \in Stop PROVE d + 1 \in Stop
  <2>1. /\ Joined(f)[k + d] = Joined(f)[k] /\ f[(k + d) + 1] = << >>
        /\ k + (d + 1) = (k + d) + 1 /\ k + d \in Nat
    BY <1>2
  <2>2. Joined(f)[(k + d) + 1] = Joined(f)[k + d] \o f[(k + d) + 1]
    BY <2>1, JoinedIs
  <2>3. Joined(f)[k] \in Data
    BY JoinedIs
  <2>4. Joined(f)[(k + d) + 1] = Joined(f)[k]
    BY <2>1, <2>2, <2>3, DataConcat
  <2> QED
    BY <2>1, <2>4
<1>3. n - k \in Nat /\ k + (n - k) = n
  OBVIOUS
<1>4. n - k \in Stop
  <2> HIDE DEF Stop
  <2> QED
    BY <1>1, <1>2, <1>3, SetInduction
<1> QED
  BY <1>3, <1>4

(* A part that comes after the others is added at the end, and one that is *)
(* taken away before the others leaves the rest.                           *)
EmptyFrom(f, id) == \A i \in Nat : i >= id => f[i] = << >>
SameBut(f, g, id) == \A i \in Nat : i # id => g[i] = f[i]
LEMMA JoinAdds ==
  ASSUME NEW f \in [Nat -> Data], NEW n \in Nat, NEW id \in 1 .. n,
         EmptyFrom(f, id), NEW g \in [Nat -> Data], SameBut(f, g, id)
  PROVE  Joined(g)[n] = Joined(f)[n] \o g[id]
<1>1. /\ \A i \in 1 .. id - 1 : f[i] = g[i]
      /\ \A i \in Nat : i > id => g[i] = << >>
      /\ \A i \in Nat : i > id - 1 => f[i] = << >>
      /\ id \in Nat /\ id - 1 \in Nat /\ (id - 1) + 1 = id /\ id <= n /\ id - 1 <= n
  BY DEF EmptyFrom, SameBut
<1>2. Joined(g)[n] = Joined(g)[id] /\ Joined(f)[n] = Joined(f)[id - 1]
  BY <1>1, JoinStops
<1>3. Joined(f)[id - 1] = Joined(g)[id - 1]
  <2> DEFINE last == id - 1
  <2>1. last \in Nat /\ \A i \in 1 .. last : f[i] = g[i]
    BY <1>1
  <2> HIDE DEF last
  <2>2. Joined(f)[last] = Joined(g)[last]
    <3>1. f \in [Nat -> Data] /\ g \in [Nat -> Data]
      BY <1>1
    <3> QED
      BY <2>1, <3>1, JoinSame, Zenon
  <2> QED
    BY <2>2 DEF last
<1>4. Joined(g)[(id - 1) + 1] = Joined(g)[id - 1] \o g[(id - 1) + 1]
  BY <1>1, JoinedIs
<1> QED
  BY <1>1, <1>2, <1>3, <1>4

LEMMA JoinDrops ==
  ASSUME NEW f \in [Nat -> Data], NEW n \in Nat, NEW id \in 1 .. n,
         \A i \in 1 .. id - 1 : f[i] = << >>
  PROVE  Joined(f)[n] = f[id] \o Joined([f EXCEPT ![id] = << >>])[n]
<1> DEFINE g == [f EXCEPT ![id] = << >>]
           Drop == {d \in Nat : Joined(f)[id + d] = f[id] \o Joined(g)[id + d]}
<1>1. /\ g \in [Nat -> Data] /\ f[id] \in Data
      /\ \A i \in 1 .. id : g[i] = << >>
      /\ \A i \in Nat : i > id => g[i] = f[i]
      /\ id \in Nat /\ id - 1 \in Nat /\ (id - 1) + 1 = id
  BY DataConcat
<1> HIDE DEF g
<1>2. 0 \in Drop
  <2>1. Joined(g)[id] = << >> /\ Joined(f)[id - 1] = << >>
    BY <1>1, JoinNone
  <2>2. Joined(f)[(id - 1) + 1] = Joined(f)[id - 1] \o f[(id - 1) + 1]
    BY <1>1, JoinedIs
  <2>3. Joined(f)[id] = f[id]
    BY <1>1, <2>1, <2>2, DataConcat
  <2>4. f[id] \o << >> = f[id]
    BY <1>1, DataConcat
  <2>5. id + 0 = id
    BY <1>1
  <2> QED
    BY <2>1, <2>3, <2>4, <2>5
<1>3. ASSUME NEW d \in Nat, d \in Drop PROVE d + 1 \in Drop
  <2> DEFINE k == id + d
  <2>1. k \in Nat /\ k + 1 \in Nat /\ k + 1 > id /\ id + (d + 1) = k + 1
    BY <1>1
  <2>2. Joined(f)[k] = f[id] \o Joined(g)[k]
    BY <1>3
  <2> HIDE DEF k
  <2>3. /\ Joined(f)[k + 1] = Joined(f)[k] \o f[k + 1]
        /\ Joined(g)[k + 1] = Joined(g)[k] \o g[k + 1]
        /\ g[k + 1] = f[k + 1]
        /\ Joined(g)[k] \in Data /\ f[k + 1] \in Data
    <3>1. /\ Joined(f)[k + 1] = Joined(f)[k] \o f[k + 1]
          /\ Joined(g)[k + 1] = Joined(g)[k] \o g[k + 1]
      BY <1>1, <2>1, JoinedIs
    <3>2. Joined(g) \in [Nat -> Data]
      BY <1>1, JoinedIs
    <3>3. g[k + 1] = f[k + 1]
      BY <1>1, <2>1
    <3> QED
      BY <2>1, <3>1, <3>2, <3>3
  <2>4. f[id] \in Data /\ Joined(g)[k] \in Data /\ f[k + 1] \in Data
    BY <1>1, <2>3
  <2>5. Joined(f)[k + 1] = f[id] \o Joined(g)[k + 1]
    <3>1. /\ Joined(f)[k] = Cat(f[id], Joined(g)[k])
          /\ Joined(f)[k + 1] = Cat(Joined(f)[k], f[k + 1])
          /\ Joined(g)[k + 1] = Cat(Joined(g)[k], f[k + 1])
      BY <2>2, <2>3 DEF Cat
    <3>2. Cat(Cat(f[id], Joined(g)[k]), f[k + 1]) = Cat(f[id], Cat(Joined(g)[k], f[k + 1]))
      BY <2>4, Associative
    <3>3. Joined(f)[k + 1] = Cat(f[id], Joined(g)[k + 1])
      BY <3>1, <3>2, Zenon
    <3> QED
      BY <3>3 DEF Cat
  <2>6. Joined(f)[id + (d + 1)] = f[id] \o Joined(g)[id + (d + 1)]
    <3>1. id + (d + 1) = k + 1
      BY <2>1
    <3> QED
      BY <2>5, <3>1, Zenon
  <2>7. d + 1 \in Nat
    OBVIOUS
  <2> QED
    BY <2>6, <2>7, Zenon
<1>4. n - id \in Drop /\ id + (n - id) = n
  <2>1. n - id \in Nat /\ id + (n - id) = n
    OBVIOUS
  <2> HIDE DEF Drop
  <2> QED
    BY <1>2, <1>3, <2>1, SetInduction
<1> QED
  BY <1>4 DEF g

-----------------------------------------------------------------------------
(* The parts of the whole at either end.                                   *)
LEMMA PrefixOfConcat ==
  ASSUME NEW D, NEW s \in Seq(D), NEW t \in Seq(D)
  PROVE  IsPrefix(s, s \o t)
<1>1. /\ Len(s) \in Nat /\ Len(t) \in Nat /\ Len(s \o t) = Len(s) + Len(t)
      /\ \A i \in 1 .. Len(s) : (s \o t)[i] = s[i]
  BY ConcatProperties, LenProperties
<1>2. SubSeq(s, 1, Len(s)) = SubSeq(s \o t, 1, Len(s))
  BY <1>1
<1> QED
  BY <1>1, <1>2 DEF IsPrefix

LEMMA ReverseOf ==
  ASSUME NEW D, NEW s \in Seq(D)
  PROVE  /\ Reverse(s) \in Seq(D) /\ Len(Reverse(s)) = Len(s)
         /\ \A i \in 1 .. Len(s) : Reverse(s)[i] = s[(Len(s) - i) + 1]
<1>1. Len(s) \in Nat /\ s \in [1 .. Len(s) -> D]
  BY LenProperties
<1>2. \A i \in 1 .. Len(s) : (Len(s) - i) + 1 \in 1 .. Len(s)
  BY <1>1
<1>3. Reverse(s) \in [1 .. Len(s) -> D]
  BY <1>1, <1>2 DEF Reverse
<1>4. Reverse(s) \in Seq(D)
  BY <1>1, <1>3, SeqDef
<1>5. DOMAIN Reverse(s) = 1 .. Len(s) /\ DOMAIN Reverse(s) = 1 .. Len(Reverse(s))
  BY <1>3, <1>4, LenProperties
<1>6. Len(Reverse(s)) = Len(s)
  BY <1>1, <1>4, <1>5, LenProperties
<1> QED
  BY <1>4, <1>6 DEF Reverse

(* A suffix is what has the same elements at the end.                      *)
LEMMA SuffixPoints ==
  ASSUME NEW D, NEW s \in Seq(D), NEW t \in Seq(D)
  PROVE  IsSuffix(s, t) <=>
           /\ Len(s) <= Len(t)
           /\ \A i \in 1 .. Len(s) : s[(Len(s) - i) + 1] = t[(Len(t) - i) + 1]
<1>1. Len(s) \in Nat /\ Len(t) \in Nat
  BY LenProperties
<1>2. /\ Reverse(s) \in Seq(D) /\ Len(Reverse(s)) = Len(s)
      /\ Reverse(t) \in Seq(D) /\ Len(Reverse(t)) = Len(t)
      /\ \A i \in 1 .. Len(s) : Reverse(s)[i] = s[(Len(s) - i) + 1]
      /\ \A i \in 1 .. Len(t) : Reverse(t)[i] = t[(Len(t) - i) + 1]
  BY ReverseOf
<1>3. ASSUME Len(s) <= Len(t)
      PROVE  SubSeq(Reverse(s), 1, Len(s)) = SubSeq(Reverse(t), 1, Len(s)) <=>
               \A i \in 1 .. Len(s) : Reverse(s)[i] = Reverse(t)[i]
  <2>1. /\ \A i \in 1 .. Len(s) : Reverse(s)[i] \in D
        /\ \A i \in 1 .. Len(s) : Reverse(t)[i] \in D
    BY <1>1, <1>2, <1>3, ElementOfSeq
  <2> DEFINE a == SubSeq(Reverse(s), 1, Len(s))
             b == SubSeq(Reverse(t), 1, Len(s))
  <2>2. /\ a \in Seq(D) /\ Len(a) = Len(s)
        /\ \A i \in 1 .. Len(s) : a[i] = Reverse(s)[i]
    BY <1>1, <2>1, SubSeqProperties
  <2>3. /\ b \in Seq(D) /\ Len(b) = Len(s)
        /\ \A i \in 1 .. Len(s) : b[i] = Reverse(t)[i]
    BY <1>1, <2>1, SubSeqProperties
  <2> HIDE DEF a, b
  <2>4. a = b <=> \A i \in 1 .. Len(s) : a[i] = b[i]
    BY <2>2, <2>3, SeqEqual
  <2> QED
    BY <2>2, <2>3, <2>4 DEF a, b
<1>4. ASSUME Len(s) <= Len(t)
      PROVE  (\A i \in 1 .. Len(s) : Reverse(s)[i] = Reverse(t)[i]) <=>
             (\A i \in 1 .. Len(s) : s[(Len(s) - i) + 1] = t[(Len(t) - i) + 1])
  <2>1. \A i \in 1 .. Len(s) : i \in 1 .. Len(t)
    BY <1>1, <1>4
  <2> QED
    BY <1>2, <2>1
<1> QED
  BY <1>2, <1>3, <1>4 DEF IsSuffix, IsPrefix

LEMMA SuffixOfConcat ==
  ASSUME NEW D, NEW s \in Seq(D), NEW t \in Seq(D), NEW u \in Seq(D), IsSuffix(s \o t, u)
  PROVE  IsSuffix(t, u)
<1> DEFINE w == s \o t
<1>1. /\ Len(s) \in Nat /\ Len(t) \in Nat /\ Len(u) \in Nat
      /\ w \in Seq(D) /\ Len(w) = Len(s) + Len(t)
      /\ \A i \in 1 .. Len(s) + Len(t) : w[i] = IF i <= Len(s) THEN s[i] ELSE t[i - Len(s)]
  BY ConcatProperties, LenProperties
<1>2. IsSuffix(w, u)
  OBVIOUS
<1> HIDE DEF w
<1>3. /\ Len(w) <= Len(u)
      /\ \A i \in 1 .. Len(w) : w[(Len(w) - i) + 1] = u[(Len(u) - i) + 1]
  <2>1. w \in Seq(D) /\ u \in Seq(D)
    BY <1>1
  <2>2. \A a, b \in Seq(D) : IsSuffix(a, b) =>
          /\ Len(a) <= Len(b)
          /\ \A i \in 1 .. Len(a) : a[(Len(a) - i) + 1] = b[(Len(b) - i) + 1]
    BY SuffixPoints
  <2> QED
    BY <1>2, <2>1, <2>2, Zenon
<1>4. ASSUME NEW i \in 1 .. Len(t) PROVE t[(Len(t) - i) + 1] = u[(Len(u) - i) + 1]
  <2> DEFINE j == (Len(w) - i) + 1
  <2>1. /\ i \in 1 .. Len(w) /\ j \in 1 .. Len(s) + Len(t) /\ ~(j <= Len(s))
        /\ j - Len(s) = (Len(t) - i) + 1
    BY <1>1
  <2>2. w[j] = u[(Len(u) - i) + 1]
    BY <1>3, <2>1
  <2> HIDE DEF j
  <2>3. w[j] = t[j - Len(s)]
    BY <1>1, <2>1
  <2> QED
    BY <2>1, <2>2, <2>3
<1>5. Len(t) <= Len(u)
  BY <1>1, <1>3
<1> QED
  BY <1>4, <1>5, SuffixPoints

LEMMA SuffixSelf ==
  ASSUME NEW D, NEW s \in Seq(D)
  PROVE  IsSuffix(s, s) /\ IsSuffix(<< >>, s)
<1>1. Len(s) \in Nat /\ << >> \in Seq(D) /\ Len(<< >>) = 0
  BY LenProperties, EmptySeq
<1>2. IsSuffix(s, s)
  BY <1>1, SuffixPoints
<1> DEFINE none == << >>
<1> HIDE DEF none
<1>3. none \in Seq(D) /\ Len(none) = 0
  BY <1>1 DEF none
<1>4. IsSuffix(none, s)
  <2>1. Len(none) <= Len(s) /\ 1 .. Len(none) = {}
    BY <1>1, <1>3
  <2>2. \A i \in 1 .. Len(none) : none[(Len(none) - i) + 1] = s[(Len(s) - i) + 1]
    BY <2>1
  <2> QED
    BY <1>3, <2>1, <2>2, SuffixPoints, Zenon
<1> QED
  BY <1>2, <1>4 DEF none

-----------------------------------------------------------------------------
(* The contents, as a function of what is in Swift.                        *)
SegmentsOK(segs) ==
  /\ DOMAIN segs \subseteq Times \X Ids
  /\ \A key \in DOMAIN segs : segs[key] \in Data
PartsIn(segs, t) ==
  [id \in Nat |-> IF id \in Ids /\ <<t, id>> \in DOMAIN segs THEN segs[<<t, id>>] ELSE << >>]
Stored(b, segs) ==
  IF b.kind = "manifest" THEN Joined(PartsIn(segs, b.time))[MaxUnits + 1] ELSE b.data

LEMMA ContentsStored ==
  Contents = Stored(base, segments) /\ Contents' = Stored(base', segments')
<1>1. \A t : /\ Parts(t) = PartsIn(segments, t)
             /\ Parts(t)' = PartsIn(segments', t)
  BY DEF Parts, PartsIn, IdsOf
<1> QED
  BY <1>1 DEF Contents, Stored

LEMMA PartsType ==
  ASSUME NEW segs, SegmentsOK(segs), NEW t
  PROVE  PartsIn(segs, t) \in [Nat -> Data]
<1>1. << >> \in Data
  BY EmptySeq DEF Data
<1> QED
  BY <1>1 DEF PartsIn, SegmentsOK

LEMMA StoredType ==
  ASSUME NEW b, NEW segs, SegmentsOK(segs), b.data \in Data
  PROVE  Stored(b, segs) \in Data
<1>1. CASE b.kind = "manifest"
  <2>1. PartsIn(segs, b.time) \in [Nat -> Data]
    BY PartsType
  <2>2. Joined(PartsIn(segs, b.time)) \in [Nat -> Data]
    BY <2>1, JoinedIs
  <2> QED
    BY <1>1, <2>2 DEF Stored, Data
<1> QED
  BY <1>1 DEF Stored

LEMMA StoredNone ==
  ASSUME NEW segs, SegmentsOK(segs), NEW t, \A id \in Ids : <<t, id>> \notin DOMAIN segs
  PROVE  Stored(Manifest(t), segs) = << >>
<1>1. PartsIn(segs, t) \in [Nat -> Data]
  BY PartsType
<1>2. \A id \in 1 .. MaxUnits + 1 : PartsIn(segs, t)[id] = << >>
  BY DEF PartsIn
<1>3. MaxUnits + 1 \in Nat
  OBVIOUS
<1>4. Joined(PartsIn(segs, t))[MaxUnits + 1] = << >>
  BY <1>1, <1>2, <1>3, JoinNone
<1> QED
  BY <1>4 DEF Stored, Manifest

(* A segment that is stored after the others adds its data at the end, and *)
(* one that is deleted before the others takes its own away.               *)
Added(segs, more, t, id, data) ==
  /\ \A i \in Ids : i >= id => <<t, i>> \notin DOMAIN segs
  /\ DOMAIN more = DOMAIN segs \cup {<<t, id>>} /\ more[<<t, id>>] = data
  /\ \A key \in DOMAIN segs : more[key] = segs[key]
Dropped(segs, left, t, id, data) ==
  /\ <<t, id>> \in DOMAIN segs /\ segs[<<t, id>>] = data
  /\ \A i \in Ids : i < id => <<t, i>> \notin DOMAIN segs
  /\ DOMAIN left = DOMAIN segs \ {<<t, id>>}
  /\ \A key \in DOMAIN left : left[key] = segs[key]
LEMMA StoredAdds ==
  ASSUME NEW segs, SegmentsOK(segs), NEW t, NEW id \in Ids, NEW data \in Data,
         NEW more, Added(segs, more, t, id, data)
  PROVE  Stored(Manifest(t), more) = Stored(Manifest(t), segs) \o data
<1> DEFINE f == PartsIn(segs, t)
           g == [f EXCEPT ![id] = data]
<1>1. f \in [Nat -> Data]
  BY PartsType
<1>2. EmptyFrom(f, id)
  BY DEF PartsIn, EmptyFrom, Added
<1>3. PartsIn(more, t) = g
  BY DEF PartsIn, Ids, Added
<1>4. MaxUnits + 1 \in Nat /\ id \in 1 .. MaxUnits + 1
  BY DEF Ids
<1> HIDE DEF f
<1>5. g \in [Nat -> Data] /\ g[id] = data /\ SameBut(f, g, id)
  BY <1>1, <1>4 DEF Data, SameBut
<1> HIDE DEF g
<1>6. Joined(g)[MaxUnits + 1] = Joined(f)[MaxUnits + 1] \o g[id]
  BY <1>1, <1>2, <1>4, <1>5, JoinAdds
<1> QED
  BY <1>3, <1>5, <1>6 DEF Stored, Manifest, f

LEMMA StoredDrops ==
  ASSUME NEW segs, SegmentsOK(segs), NEW t, NEW id \in Ids, NEW data \in Data,
         NEW left, Dropped(segs, left, t, id, data)
  PROVE  Stored(Manifest(t), segs) = data \o Stored(Manifest(t), left)
<1> DEFINE f == PartsIn(segs, t)
           g == [f EXCEPT ![id] = << >>]
<1>1. f \in [Nat -> Data]
  BY PartsType
<1>2. \A i \in 1 .. id - 1 : f[i] = << >>
  BY DEF PartsIn, Ids, Dropped
<1>3. PartsIn(left, t) = g
  BY DEF PartsIn, Ids, Dropped
<1>4. MaxUnits + 1 \in Nat /\ id \in 1 .. MaxUnits + 1
  BY DEF Ids
<1>5. f[id] = data
  BY DEF PartsIn, Ids, Dropped
<1> HIDE DEF f
<1>6. Joined(f)[MaxUnits + 1] = f[id] \o Joined(g)[MaxUnits + 1]
  BY <1>1, <1>2, <1>4, JoinDrops
<1> QED
  BY <1>3, <1>5, <1>6 DEF Stored, Manifest, f

LEMMA DataEnds ==
  /\ \A s \in Data : Len(s) \in Nat /\ (Len(s) = 0 <=> s = << >>)
  /\ \A s, t \in Data : Len(s \o t) = Len(s) + Len(t)
  /\ \A s, t \in Data : IsPrefix(s, s \o t)
  /\ \A s, t, u \in Data : IsSuffix(s \o t, u) => IsSuffix(t, u)
  /\ \A s \in Data : IsSuffix(s, s) /\ IsSuffix(<< >>, s)
<1>1. \A s \in Data : Len(s) \in Nat /\ (Len(s) = 0 <=> s = << >>)
  BY EmptySeq, LenProperties DEF Data
<1>2. \A s, t \in Data : Len(s \o t) = Len(s) + Len(t)
  BY ConcatProperties DEF Data
<1>3. \A s, t \in Data : IsPrefix(s, s \o t)
  BY PrefixOfConcat DEF Data
<1>4. \A s, t, u \in Data : IsSuffix(s \o t, u) => IsSuffix(t, u)
  BY SuffixOfConcat DEF Data
<1>5. \A s \in Data : IsSuffix(s, s) /\ IsSuffix(<< >>, s)
  BY SuffixSelf DEF Data
<1> QED
  BY <1>1, <1>2, <1>3, <1>4, <1>5

LEMMA StoreEffect ==
  ASSUME SegmentsOK(segments), NEW t \in Times, NEW id \in Ids, NEW data \in Data
  PROVE  /\ SegmentsOK(StoreSegment(t, id, data))
         /\ DOMAIN StoreSegment(t, id, data) = DOMAIN segments \cup {<<t, id>>}
         /\ StoreSegment(t, id, data)[<<t, id>>] = data
         /\ \A key \in DOMAIN segments :
              key # <<t, id>> => StoreSegment(t, id, data)[key] = segments[key]
BY DEF SegmentsOK, StoreSegment

-----------------------------------------------------------------------------
(* What holds whatever fails: types, and where the data of a handle go.    *)
Kept == TypeOK /\ WriterInPlace /\ Counted /\ BaseShape

(* TypeOK, by what a step changes together.                                *)
Bases == [kind : {"none", "plain", "manifest"}, data : Data, time : Times \cup {NoTime}]
Nodes == [bytes : Nat, header : Times \cup {NoTime}, segmented : BOOLEAN, writing : BOOLEAN]
Handles == [create : BOOLEAN, truncated : BOOLEAN, wroteSegment : BOOLEAN,
            segmentID : {0} \cup Ids, uploaded : 0 .. MaxUnits,
            segmentPrefix : Times \cup {NoTime}]
Writers == [to : {"none", "spent", "base", "segment"}, id : {0} \cup Ids, data : Data]
SwiftOK == base \in Bases /\ SegmentsOK(segments) /\ faults \in 0 .. MaxFaults
HandleOK == fh \in Handles /\ wd \in Writers /\ chunk \in Data
ControlOK ==
  /\ pc \in {"closed", "open", "failed", "list", "delete", "head", "deletebase", "write",
             "close", "copy", "movedelete", "manifest", "segment"}
  /\ after \in {"none", "truncate", "cut", "cutopen", "remove"}
  /\ victims \subseteq Ids /\ clock \in Times
HistoryOK ==
  /\ written \in Data /\ expected \in Data /\ units \in 0 .. MaxUnits
  /\ cut \in BOOLEAN /\ reported \in BOOLEAN

LEMMA TypeParts ==
  /\ TypeOK <=> SwiftOK /\ node \in Nodes /\ HandleOK /\ ControlOK /\ HistoryOK
  /\ TypeOK' <=> SwiftOK' /\ node' \in Nodes /\ HandleOK' /\ ControlOK' /\ HistoryOK'
BY DEF TypeOK, SwiftOK, HandleOK, ControlOK, HistoryOK, SegmentsOK, Bases, Nodes, Handles, Writers

LEMMA Records ==
  /\ Nothing \in Bases /\ NoWriter \in Writers /\ Spent \in Writers
  /\ \A data \in Data : Plain(data) \in Bases
  /\ \A t \in Times : Manifest(t) \in Bases
  /\ \A size \in Nat, t \in Times \cup {NoTime} : Node(size, t) \in Nodes
  /\ \A c \in BOOLEAN : Handle(c) \in Handles
  /\ \A to \in {"base", "segment"}, id \in {0} \cup Ids, data \in Data : Writer(to, id, data) \in Writers
<1>1. /\ Nothing \in Bases /\ NoWriter \in Writers /\ Spent \in Writers
      /\ \A data \in Data : Plain(data) \in Bases
      /\ \A t \in Times : Manifest(t) \in Bases
  BY DataConcat DEF Nothing, Plain, Manifest, NoWriter, Spent, Bases, Writers
<1>2. \A size \in Nat, t \in Times \cup {NoTime} : Node(size, t) \in Nodes
  BY DEF Node, Nodes
<1>3. \A c \in BOOLEAN : Handle(c) \in Handles
  BY DEF Handle, Handles
<1>4. \A to \in {"base", "segment"}, id \in {0} \cup Ids, data \in Data : Writer(to, id, data) \in Writers
  BY DEF Writer, Writers
<1> QED
  BY <1>1, <1>2, <1>3, <1>4

LEMMA KeptContents == Kept => SegmentsOK(segments) /\ Contents \in Data
<1> SUFFICES ASSUME Kept PROVE SegmentsOK(segments) /\ Contents \in Data
  OBVIOUS
<1>1. SegmentsOK(segments) /\ base.data \in Data
  BY DEF Kept, TypeOK, SegmentsOK
<1> QED
  BY <1>1, StoredType, ContentsStored

LEMMA InitKept == Init => Kept
<1> SUFFICES ASSUME Init PROVE Kept
  OBVIOUS
<1>1. SwiftOK /\ node \in Nodes
  BY Records, DataConcat DEF Init, SwiftOK, SegmentsOK
<1>2. HandleOK
  BY Records, EmptyData DEF Init, HandleOK
<1>3. ControlOK /\ HistoryOK
  <2>1. ControlOK /\ units \in 0 .. MaxUnits
    BY DEF Init, ControlOK, Times
  <2>2. cut \in BOOLEAN /\ reported \in BOOLEAN /\ written \in Data /\ expected \in Data
    BY EmptyData, Zenon DEF Init
  <2> QED
    BY <2>1, <2>2 DEF HistoryOK
<1>4. WriterInPlace
  BY DEF Init, WriterInPlace, Nothing, Node, Handle, NoWriter, Times, NoTime, Ids, Fresh, Moving
<1>5. Counted
  BY DEF Init, Counted, Pending, Nothing, Node, Handle, NoWriter
<1>6. BaseShape
  BY DEF Init, BaseShape, Nothing
<1> QED
  BY <1>1, <1>2, <1>3, <1>4, <1>5, <1>6, TypeParts DEF Kept

(* The requests that close a writer leave the object, or the segment, with *)
(* the data of the writer, or as it was.                                   *)
LEMMA CloseWriterEffect ==
  ASSUME Kept, CloseWriter
  PROVE  /\ base' = base \/ (wd.to = "base" /\ base' = Plain(wd.data))
         /\ \/ segments' = segments
            \/ wd.to = "segment" /\ segments' = StoreSegment(fh.segmentPrefix, wd.id, wd.data)
         /\ SegmentsOK(segments')
         /\ base' \in Bases
         /\ faults' \in 0 .. MaxFaults
         /\ BaseShape'
         /\ base'.kind = "plain" => Len(base'.data) <= SegmentSize
<1>1. base' = base \/ (wd.to = "base" /\ base' = Plain(wd.data))
  BY DEF CloseWriter, Put
<1>2. \/ segments' = segments
      \/ wd.to = "segment" /\ segments' = StoreSegment(fh.segmentPrefix, wd.id, wd.data)
  BY DEF CloseWriter, Put
<1>3. faults' \in 0 .. MaxFaults
  BY DEF CloseWriter, Fails, Succeeds, Kept, TypeOK
<1>4. wd.data \in Data /\ base \in Bases
  BY TypeParts DEF Kept, SwiftOK, HandleOK, Writers
<1>5. SegmentsOK(segments')
  <2>1. SegmentsOK(segments)
    BY KeptContents
  <2>2. ASSUME wd.to = "segment" PROVE SegmentsOK(StoreSegment(fh.segmentPrefix, wd.id, wd.data))
    <3>1. fh.segmentPrefix \in Times /\ wd.id \in Ids
      BY <2>2 DEF Kept, TypeOK, WriterInPlace, NoTime
    <3> QED
      BY <1>4, <2>1, <3>1, StoreEffect
  <2> QED
    BY <1>2, <2>1, <2>2
<1>6. base' \in Bases
  BY <1>1, <1>4, Records
<1>7. BaseShape'
  BY <1>1 DEF Kept, BaseShape, Plain, Nothing, Manifest
<1>8. base'.kind = "plain" => Len(base'.data) <= SegmentSize
  BY <1>1 DEF Kept, Counted, Plain
<1> QED
  BY <1>1, <1>2, <1>3, <1>5, <1>6, <1>7, <1>8

(* Before a handle writes, there is no writer.                             *)
LEMMA Idle ==
  Kept /\ pc \in {"closed", "head", "list", "delete", "deletebase"} => wd = NoWriter /\ ~node.writing
BY TypeParts DEF Kept, WriterInPlace, Moving, HandleOK, Writers

LEMMA Requests == Kept /\ (Fails \/ Succeeds) => faults' \in 0 .. MaxFaults
BY TypeParts DEF Kept, SwiftOK, Fails, Succeeds

LEMMA CreateKept == ASSUME Kept, Create PROVE Kept'
<1>1. /\ base' \in {Nothing, Plain(<< >>)} /\ node' = Node(0, NoTime)
      /\ (pc' = "open" /\ fh' = Handle(TRUE)) \/ (pc' = "closed" /\ fh' = fh)
      /\ UNCHANGED <<segments, wd, chunk, units>>
  BY DEF Create, Report
<1>2. SwiftOK'
  <2>1. faults' \in 0 .. MaxFaults
    BY Requests, Zenon DEF Create
  <2> QED
    BY <1>1, <2>1, Records, EmptyData, TypeParts DEF Kept, SwiftOK
<1>3. node' \in Nodes /\ HandleOK'
  BY <1>1, Records, TypeParts DEF Kept, HandleOK
<1>4. ControlOK' /\ HistoryOK'
  BY EmptyData, TypeParts DEF Kept, ControlOK, HistoryOK, Create, Report, deleteVars
<1>5. pc = "closed" /\ wd' = NoWriter
  BY <1>1, Idle DEF Create
<1>6. WriterInPlace'
  BY <1>1, <1>5 DEF Kept, WriterInPlace, Fresh, Moving, Node, Handle, NoWriter
<1>7. Counted'
  BY <1>1, <1>5, TypeParts DEF Kept, HandleOK, HistoryOK, Counted, Pending, Handle, NoWriter,
     Plain, Nothing
<1>8. BaseShape'
  BY <1>1 DEF BaseShape, Plain, Nothing, Manifest
<1> QED
  BY <1>2, <1>3, <1>4, <1>6, <1>7, <1>8, TypeParts DEF Kept

LEMMA OpenKept == ASSUME Kept, Open PROVE Kept'
<1>1. /\ fh' = Handle(FALSE) /\ pc = "closed" /\ pc' = "open"
      /\ UNCHANGED <<base, segments, faults, node, wd, chunk, units>>
  BY DEF Open, swiftVars, history
<1>2. SwiftOK' /\ node' \in Nodes /\ HandleOK'
  BY <1>1, Records, TypeParts DEF Kept, SwiftOK, HandleOK
<1>3. ControlOK' /\ HistoryOK'
  BY TypeParts DEF Kept, ControlOK, HistoryOK, Open, deleteVars, history
<1>4. wd' = NoWriter
  BY <1>1, Idle
<1>5. WriterInPlace'
  BY <1>1, <1>4, Idle DEF Kept, WriterInPlace, Fresh, Moving, Handle, NoWriter
<1>6. Counted'
  BY <1>1, <1>4, TypeParts DEF Kept, HistoryOK, Counted, Pending, Handle, NoWriter
<1>7. BaseShape'
  BY <1>1 DEF Kept, BaseShape
<1> QED
  BY <1>2, <1>3, <1>5, <1>6, <1>7, TypeParts DEF Kept

LEMMA RelistKept == ASSUME Kept, Relist PROVE Kept'
<1>1. /\ node' = Node(Len(Contents), base.time) /\ pc = "closed"
      /\ UNCHANGED <<base, segments, faults, fh, wd, chunk, pc, after, victims, clock, units>>
  BY DEF Relist, swiftVars, handleVars, deleteVars, history
<1>2. Len(Contents) \in Nat /\ base.time \in Times \cup {NoTime}
  BY KeptContents, DataEnds, TypeParts DEF Kept, SwiftOK, Bases
<1>3. SwiftOK' /\ node' \in Nodes /\ HandleOK' /\ ControlOK' /\ HistoryOK'
  BY <1>1, <1>2, Records, TypeParts DEF Kept, SwiftOK, HandleOK, ControlOK, HistoryOK, Relist, history
<1>4. WriterInPlace'
  BY <1>1, Idle DEF Kept, WriterInPlace, Fresh, Moving, Node, NoWriter
<1>5. Counted' /\ BaseShape'
  BY <1>1 DEF Kept, Counted, Pending, BaseShape
<1> QED
  BY <1>3, <1>4, <1>5, TypeParts DEF Kept

LEMMA WriteKept == ASSUME Kept, Write PROVE Kept'
<1>1. PICK size \in 1 .. MaxChunk :
        /\ units + size <= MaxUnits /\ units' = units + size
        /\ chunk' = [i \in 1 .. size |-> units + i]
  BY DEF Write
<1>2. /\ pc = "open"
      /\ UNCHANGED <<base, segments, faults, victims, clock, written, expected, cut, reported>>
      /\ \/ pc' = "list" /\ after' = "truncate" /\ UNCHANGED <<node, fh, wd>> /\ MustTruncate
         \/ pc' = "write" /\ UNCHANGED after /\ MustTruncate /\ Reopen(node)
         \/ /\ pc' = "write" /\ UNCHANGED <<after, fh, wd>> /\ ~MustTruncate
            /\ node' = [node EXCEPT !.writing = TRUE]
  BY DEF Write, swiftVars
<1>3. chunk' \in Data /\ Len(chunk') = size /\ units' \in 0 .. MaxUnits
  <2>1. units \in Nat /\ MaxChunk \in Nat
    BY TypeParts DEF Kept, HistoryOK
  <2>2. size \in Nat /\ chunk' \in [1 .. size -> 1 .. MaxUnits]
    BY <1>1, <2>1
  <2>3. chunk' \in Seq(1 .. MaxUnits)
    BY <2>2, SeqDef
  <2>4. DOMAIN chunk' = 1 .. Len(chunk') /\ DOMAIN chunk' = 1 .. size /\ Len(chunk') \in Nat
    BY <2>2, <2>3, LenProperties
  <2> QED
    BY <1>1, <2>1, <2>2, <2>3, <2>4 DEF Data
<1>4. SwiftOK' /\ ControlOK' /\ HistoryOK'
  BY <1>2, <1>3, TypeParts DEF Kept, SwiftOK, ControlOK, HistoryOK
<1>5. node' \in Nodes /\ HandleOK'
  <2>1. node \in Nodes /\ fh \in Handles /\ wd \in Writers
    BY TypeParts DEF Kept, HandleOK
  <2>2. node' \in Nodes
    <3>1. \/ node' = node \/ node' = [node EXCEPT !.writing = TRUE]
          \/ node' = [node EXCEPT !.bytes = 0, !.writing = TRUE]
      BY <1>2 DEF Reopen
    <3>2. [node EXCEPT !.writing = TRUE] \in Nodes
      BY <2>1 DEF Nodes
    <3>3. [node EXCEPT !.bytes = 0, !.writing = TRUE] \in Nodes
      BY <2>1 DEF Nodes
    <3> QED
      BY <2>1, <3>1, <3>2, <3>3
  <2>3. fh' \in Handles
    BY <1>2, <2>1 DEF Reopen, Handles
  <2>4. Writer("base", 0, << >>) \in Writers
    BY Records, EmptyData
  <2>5. wd' \in Writers
    BY <1>2, <2>1, <2>4 DEF Reopen
  <2> QED
    BY <1>3, <2>2, <2>3, <2>5 DEF HandleOK
<1>6. WriterInPlace'
  <2>1. CASE MustTruncate
    <3>1. wd = NoWriter /\ ~node.writing /\ fh = Handle(fh.create)
      BY <1>2, <2>1, TypeParts DEF Kept, WriterInPlace, MustTruncate, Moving, Fresh, HandleOK, Writers
    <3>2. CASE pc' = "list"
      BY <1>2, <2>1, <3>1, <3>2 DEF Kept, WriterInPlace, Fresh, Moving, Reopen
    <3>3. CASE pc' = "write"
      <4>1. /\ wd' = Writer("base", 0, << >>) /\ node' = [node EXCEPT !.bytes = 0, !.writing = TRUE]
            /\ fh' = [Handle(fh.create) EXCEPT !.truncated = TRUE] /\ node \in Nodes
        BY <1>2, <2>1, <3>1, <3>3, TypeParts DEF Kept, Reopen
      <4>2. /\ wd'.to = "base" /\ node'.writing /\ fh'.truncated
            /\ ~fh'.wroteSegment /\ fh'.segmentID = 0
        BY <4>1 DEF Writer, Handle, Nodes
      <4> QED
        BY <3>3, <4>2 DEF WriterInPlace, Moving
    <3> QED
      BY <1>2, <3>2, <3>3
  <2>2. CASE ~MustTruncate
    <3>1. wd.to # "none"
      BY <1>2, <2>2, TypeParts DEF Kept, WriterInPlace, MustTruncate, Fresh, Handle
    <3> QED
      BY <1>2, <2>2, <3>1, TypeParts DEF Kept, WriterInPlace, Fresh, Moving, Nodes
  <2> QED
    BY <2>1, <2>2
<1>7. Counted'
  <2>1. /\ units \in Nat /\ fh.segmentID <= units + 1 /\ fh.segmentID \in Nat
        /\ fh.uploaded <= units /\ fh.uploaded \in Nat /\ fh \in Handles
    BY <1>2, TypeParts DEF Kept, HandleOK, HistoryOK, Counted, Pending, Handles, Ids
  <2>2. /\ fh'.segmentID = fh.segmentID /\ fh'.uploaded = fh.uploaded
    BY <1>2, <2>1 DEF Reopen, Handles
  <2>3. wd' = wd \/ (wd' = Writer("base", 0, << >>) /\ MustTruncate)
    BY <1>2 DEF Reopen
  <2>4. MustTruncate => wd.to = "none" /\ fh.uploaded = 0
    BY <1>2, TypeParts DEF Kept, WriterInPlace, MustTruncate, Moving, Fresh, HandleOK, Writers, Handle
  <2>5. /\ wd'.to \in {"base", "segment"} => fh'.uploaded = Len(wd'.data)
        /\ wd'.to = "base" => fh'.uploaded <= SegmentSize
        /\ wd'.to = "segment" => fh'.uploaded <= SegmentLimit
    BY <2>2, <2>3, <2>4 DEF Kept, Counted, Writer
  <2> QED
    BY <1>1, <1>2, <1>3, <2>1, <2>2, <2>5 DEF Kept, Counted, Pending
<1>8. BaseShape'
  BY <1>2 DEF Kept, BaseShape
<1> QED
  BY <1>4, <1>5, <1>6, <1>7, <1>8, TypeParts DEF Kept

LEMMA WriteDataKept == ASSUME Kept, WriteData PROVE Kept'
<1>1. /\ pc = "write" /\ UNCHANGED <<base, segments, chunk, after, victims, clock, units>>
      /\ \/ /\ fh.uploaded + Len(chunk) <= SegmentSize /\ Succeeds
            /\ wd' = [wd EXCEPT !.data = @ \o chunk]
            /\ fh' = [fh EXCEPT !.uploaded = @ + Len(chunk)]
            /\ node' = [node EXCEPT !.bytes = @ + Len(chunk)]
            /\ written' = written \o chunk /\ pc' = "open"
            /\ UNCHANGED <<expected, cut, reported>>
         \/ /\ Fails /\ wd' = Spent /\ pc' = "failed" /\ reported' = TRUE
            /\ UNCHANGED <<node, fh, written, expected, cut>>
         \/ /\ pc' = "close" /\ Succeeds
            /\ UNCHANGED <<wd, fh, node, written, expected, cut, reported>>
  BY DEF WriteData, Report, history, deleteVars, Succeeds
<1>2. /\ Len(chunk) \in 1 .. MaxChunk /\ fh.uploaded \in Nat /\ fh.uploaded + Len(chunk) <= units
      /\ units \in 0 .. MaxUnits /\ fh.segmentID \in Nat
      /\ fh.uploaded + Len(chunk) \in 0 .. MaxUnits /\ node.bytes + Len(chunk) \in Nat
  BY <1>1, TypeParts DEF Kept, Counted, Pending, HandleOK, HistoryOK, Handles, Ids, Nodes
<1>3. /\ wd.data \in Data /\ chunk \in Data /\ written \in Data
      /\ wd.data \o chunk \in Data /\ written \o chunk \in Data
      /\ Len(wd.data \o chunk) = Len(wd.data) + Len(chunk)
  BY DataConcat, DataEnds, TypeParts DEF Kept, HandleOK, HistoryOK, Writers
<1>4. SwiftOK' /\ ControlOK'
  <2>1. faults' \in 0 .. MaxFaults
    BY <1>1, Requests
  <2> QED
    BY <1>1, <2>1, TypeParts DEF Kept, SwiftOK, ControlOK
<1>5. HistoryOK'
  BY <1>1, <1>3, TypeParts DEF Kept, HistoryOK
<1>6. node \in Nodes /\ fh \in Handles /\ wd \in Writers
  BY TypeParts DEF Kept, HandleOK
<1>7. node' \in Nodes /\ HandleOK'
  <2>1. node' \in Nodes
    <3>1. node' = node \/ node' = [node EXCEPT !.bytes = node.bytes + Len(chunk)]
      BY <1>1
    <3> QED
      BY <1>2, <1>6, <3>1 DEF Nodes
  <2>2. fh' \in Handles
    <3>1. fh' = fh \/ fh' = [fh EXCEPT !.uploaded = fh.uploaded + Len(chunk)]
      BY <1>1
    <3> QED
      BY <1>2, <1>6, <3>1 DEF Handles
  <2>3. wd' \in Writers
    BY <1>1, <1>3, <1>6, Records DEF Writers
  <2> QED
    BY <1>1, <1>3, <2>1, <2>2, <2>3 DEF HandleOK
<1>8. /\ \/ /\ pc' = "open" /\ wd'.to = wd.to /\ wd'.data = wd.data \o chunk
            /\ fh'.uploaded = fh.uploaded + Len(chunk) /\ fh'.uploaded <= SegmentSize
         \/ pc' = "failed" /\ wd' = Spent /\ fh' = fh
         \/ pc' = "close" /\ wd' = wd /\ fh' = fh
      /\ wd'.id = wd.id \/ wd' = Spent
      /\ fh'.segmentID = fh.segmentID /\ fh'.wroteSegment = fh.wroteSegment
      /\ fh'.segmentPrefix = fh.segmentPrefix /\ fh'.truncated = fh.truncated
      /\ node'.writing = node.writing
  BY <1>1, <1>2, <1>6 DEF Nodes, Handles, Writers, Spent
<1>9. wd.to \in {"base", "segment"}
  BY <1>1, <1>6 DEF Kept, WriterInPlace, Moving, Writers
<1>10. WriterInPlace'
  BY <1>1, <1>8, <1>9 DEF Kept, WriterInPlace, Fresh, Moving, Spent
<1>11. Counted'
  <2>1. wd'.to \in {"base", "segment"} => fh'.uploaded = Len(wd'.data)
    <3>1. fh.uploaded = Len(wd.data) /\ Spent.to = "spent"
      BY <1>9 DEF Kept, Counted, Spent
    <3> QED
      BY <1>3, <1>8, <3>1
  <2>2. /\ wd'.to = "base" => fh'.uploaded <= SegmentSize
        /\ wd'.to = "segment" => fh'.uploaded <= SegmentLimit
    BY <1>8, <1>9 DEF Kept, Counted, SegmentLimit, Spent
  <2> QED
    <3>1. /\ Len(chunk') = Len(chunk) /\ units' = units
          /\ fh.segmentID <= units /\ base' = base
          /\ base.kind = "plain" => Len(base.data) <= SegmentSize
          /\ Pending' => pc' = "close" /\ fh' = fh
      BY <1>1, <1>8 DEF Kept, Counted, Pending
    <3>2. fh'.uploaded + (IF Pending' THEN Len(chunk) ELSE 0) <= units
      BY <1>2, <1>8, <3>1
    <3>3. fh'.segmentID <= units /\ fh'.segmentID <= units + 1
      BY <1>2, <1>8, <3>1
    <3> QED
      BY <1>2, <2>1, <2>2, <3>1, <3>2, <3>3 DEF Counted
<1>12. BaseShape'
  BY <1>1 DEF Kept, BaseShape
<1> QED
  BY <1>4, <1>5, <1>7, <1>10, <1>11, <1>12, TypeParts DEF Kept

LEMMA CloseSegmentKept == ASSUME Kept, CloseSegment PROVE Kept'
<1>1. /\ pc = "close" /\ CloseWriter /\ wd' = Spent
      /\ \/ fh.wroteSegment /\ pc' = "segment" /\ UNCHANGED fh
         \/ /\ ~fh.wroteSegment /\ pc' = "copy"
            /\ fh' = [fh EXCEPT !.segmentPrefix = clock, !.segmentID = @ + 1]
      /\ UNCHANGED <<node, chunk, after, victims, clock, units, written, expected, cut, reported>>
  BY DEF CloseSegment, Silent, deleteVars
<1>2. SwiftOK' /\ BaseShape'
  BY <1>1, CloseWriterEffect DEF SwiftOK
<1>3. /\ wd.to \in {"base", "segment"} /\ clock \in Times /\ clock # NoTime
      /\ ~fh.wroteSegment => fh.segmentID = 0
  BY <1>1, TypeParts DEF Kept, WriterInPlace, Moving, HandleOK, Writers, ControlOK, Times, NoTime
<1>4. fh \in Handles /\ chunk \in Data
  BY TypeParts DEF Kept, HandleOK
<1>5. /\ fh' \in Handles /\ fh'.segmentID \in Nat
      /\ fh'.wroteSegment = fh.wroteSegment /\ fh'.uploaded = fh.uploaded /\ fh'.truncated = fh.truncated
      /\ ~fh.wroteSegment => fh'.segmentID = 1 /\ fh'.segmentPrefix = clock
  <2>1. CASE fh.wroteSegment
    <3>1. fh' = fh
      BY <1>1, <2>1
    <3>2. fh.segmentID \in Nat
      BY <1>4 DEF Handles, Ids
    <3> QED
      BY <1>4, <2>1, <3>1, <3>2
  <2>2. CASE ~fh.wroteSegment
    <3>1. fh' = [fh EXCEPT !.segmentPrefix = clock, !.segmentID = 1] /\ 1 \in Ids
      <4>1. fh' = [fh EXCEPT !.segmentPrefix = clock, !.segmentID = fh.segmentID + 1]
        BY <1>1, <2>2
      <4>2. fh.segmentID + 1 = 1
        BY <1>3, <2>2
      <4>3. 1 \in Ids
        BY DEF Ids
      <4> QED
        BY <4>1, <4>2, <4>3
    <3> QED
      BY <1>3, <1>4, <2>2, <3>1 DEF Handles
  <2> QED
    BY <2>1, <2>2
<1>6. HandleOK' /\ node' \in Nodes /\ ControlOK' /\ HistoryOK'
  BY <1>1, <1>4, <1>5, Records, TypeParts DEF Kept, HandleOK, ControlOK, HistoryOK
<1>7. WriterInPlace'
  BY <1>1, <1>3, <1>5 DEF Kept, WriterInPlace, Fresh, Moving, Spent
<1>8. Counted'
  <2>1. base'.kind = "plain" => Len(base'.data) <= SegmentSize
    BY <1>1, CloseWriterEffect
  <2>2. 1 <= units /\ units \in Nat
    BY <1>1, <1>4, TypeParts DEF Kept, Counted, Pending, HistoryOK, Handles
  <2> QED
    BY <1>1, <1>5, <2>1, <2>2 DEF Kept, Counted, Pending, Spent
<1> QED
  BY <1>2, <1>6, <1>7, <1>8, TypeParts DEF Kept

LEMMA MoveCopyKept == ASSUME Kept, MoveCopy PROVE Kept'
<1> DEFINE copied == StoreSegment(fh.segmentPrefix, fh.segmentID, Contents)
<1>1. /\ pc = "copy" /\ pc' \in {"movedelete", "failed"} /\ segments' \in {segments, copied}
      /\ UNCHANGED <<base, node, fh, wd, chunk, after, victims, clock, units, written, expected, cut>>
      /\ Fails \/ Succeeds
      /\ reported' = reported \/ reported' = TRUE
  BY DEF MoveCopy, Silent, Report, handleVars, deleteVars
<1>2. /\ fh.segmentPrefix \in Times /\ fh.segmentID \in Ids /\ fh.segmentID = 1
      /\ ~fh.wroteSegment /\ wd = Spent
  BY <1>1, TypeParts DEF Kept, WriterInPlace, Moving, HandleOK, Handles, Writers
<1>3. SwiftOK'
  <2>1. SegmentsOK(segments) /\ SegmentsOK(copied)
    BY <1>2, KeptContents, StoreEffect
  <2>2. faults' \in 0 .. MaxFaults
    BY <1>1, Requests
  <2> HIDE DEF copied
  <2> QED
    BY <1>1, <2>1, <2>2, TypeParts DEF Kept, SwiftOK
<1>4. node' \in Nodes /\ HandleOK' /\ ControlOK' /\ HistoryOK'
  BY <1>1, TypeParts DEF Kept, HandleOK, ControlOK, HistoryOK
<1>5. WriterInPlace'
  BY <1>1, <1>2 DEF Kept, WriterInPlace, Fresh, Moving, Spent
<1>6. Counted' /\ BaseShape'
  BY <1>1, <1>2, TypeParts DEF Kept, Counted, Pending, BaseShape, Spent, HistoryOK, HandleOK, Handles
<1> QED
  BY <1>3, <1>4, <1>5, <1>6, TypeParts DEF Kept

LEMMA MoveDeleteKept == ASSUME Kept, MoveDelete PROVE Kept'
<1>1. /\ pc = "movedelete" /\ pc' \in {"manifest", "failed"} /\ base' \in {base, Nothing}
      /\ UNCHANGED <<segments, node, fh, wd, chunk, after, victims, clock, units, written, expected, cut>>
      /\ Fails \/ Succeeds
      /\ reported' = reported \/ reported' = TRUE
  BY DEF MoveDelete, Silent, Report, handleVars, deleteVars
<1>2. SwiftOK' /\ node' \in Nodes /\ HandleOK' /\ ControlOK' /\ HistoryOK'
  BY <1>1, Requests, Records, TypeParts DEF Kept, SwiftOK, HandleOK, ControlOK, HistoryOK
<1>3. ~fh.wroteSegment /\ fh.segmentID = 1 /\ wd = Spent
  BY <1>1, TypeParts DEF Kept, WriterInPlace, Moving, HandleOK, Writers
<1>4. WriterInPlace'
  BY <1>1, <1>3 DEF Kept, WriterInPlace, Fresh, Moving, Spent
<1>5. Counted'
  BY <1>1, <1>3, TypeParts
     DEF Kept, Counted, Pending, Spent, Nothing, HistoryOK, HandleOK, Handles
<1>6. BaseShape'
  BY <1>1 DEF Kept, BaseShape, Nothing, Plain, Manifest
<1> QED
  BY <1>2, <1>4, <1>5, <1>6, TypeParts DEF Kept

LEMMA CreateManifestKept == ASSUME Kept, CreateManifest PROVE Kept'
<1>1. /\ pc = "manifest" /\ pc' = "segment" /\ base' \in {base, Manifest(fh.segmentPrefix)}
      /\ node' = [node EXCEPT !.header = fh.segmentPrefix, !.segmented = TRUE]
      /\ fh' = [fh EXCEPT !.wroteSegment = TRUE]
      /\ UNCHANGED <<segments, wd, chunk, after, victims, clock, units, written, expected, cut, reported>>
      /\ Fails \/ Succeeds
  BY DEF CreateManifest, Silent, deleteVars
<1>2. /\ fh.segmentPrefix \in Times /\ fh.segmentPrefix # NoTime /\ fh.segmentID = 1 /\ wd = Spent
      /\ fh \in Handles /\ node \in Nodes
  BY <1>1, TypeParts DEF Kept, WriterInPlace, Moving, HandleOK, Handles, Writers
<1>3. /\ node' \in Nodes /\ node'.writing = node.writing
  BY <1>1, <1>2 DEF Nodes
<1>4. /\ fh' \in Handles /\ fh'.wroteSegment /\ fh'.segmentID = 1 /\ fh'.truncated = fh.truncated
      /\ fh'.segmentPrefix = fh.segmentPrefix /\ fh'.uploaded = fh.uploaded
  BY <1>1, <1>2 DEF Handles
<1>5. SwiftOK' /\ HandleOK' /\ ControlOK' /\ HistoryOK'
  BY <1>1, <1>2, <1>4, Requests, Records, TypeParts DEF Kept, SwiftOK, HandleOK, ControlOK, HistoryOK
<1>6. WriterInPlace'
  BY <1>1, <1>2, <1>3, <1>4 DEF Kept, WriterInPlace, Fresh, Moving, Spent
<1>7. Counted'
  BY <1>1, <1>2, <1>4 DEF Kept, Counted, Pending, Spent, Manifest
<1>8. BaseShape'
  BY <1>1, <1>2 DEF Kept, BaseShape, Nothing, Plain, Manifest
<1> QED
  BY <1>3, <1>5, <1>6, <1>7, <1>8, TypeParts DEF Kept

LEMMA InitSegmentKept == ASSUME Kept, InitSegment PROVE Kept'
<1> DEFINE id == fh.segmentID + 1
<1>1. /\ pc = "segment" /\ UNCHANGED <<base, segments, chunk, after, victims, clock, units, expected, cut>>
      /\ fh' = [fh EXCEPT !.segmentID = id, !.uploaded = Len(chunk)]
      /\ node' = [node EXCEPT !.bytes = node.bytes + Len(chunk)]
      /\ \/ /\ Succeeds /\ wd' = Writer("segment", id, chunk)
            /\ written' = written \o chunk /\ pc' = "open" /\ reported' = reported
         \/ Fails /\ wd' = Spent /\ pc' = "failed" /\ written' = written /\ reported' = TRUE
  BY DEF InitSegment, Report, deleteVars
<1>2. /\ fh \in Handles /\ node \in Nodes /\ chunk \in Data /\ written \in Data
      /\ fh.wroteSegment /\ wd = Spent
  BY <1>1, TypeParts DEF Kept, WriterInPlace, Moving, HandleOK, HistoryOK, Writers
<1>3. /\ Len(chunk) \in 1 .. MaxChunk /\ units \in 0 .. MaxUnits /\ fh.segmentID \in Nat
      /\ fh.segmentID <= units /\ fh.uploaded \in Nat /\ fh.uploaded + Len(chunk) <= units
  BY <1>1, <1>2, TypeParts DEF Kept, Counted, Pending, HistoryOK, Handles, Ids
<1>4. id \in Ids /\ Len(chunk) \in 0 .. MaxUnits /\ node.bytes + Len(chunk) \in Nat
  BY <1>2, <1>3 DEF Ids, Nodes
<1> HIDE DEF id
<1>5. node' \in Nodes /\ node'.writing = node.writing
  BY <1>1, <1>2, <1>4 DEF Nodes
<1>6. /\ fh' \in Handles /\ fh'.wroteSegment /\ fh'.segmentID = id /\ fh'.truncated = fh.truncated
      /\ fh'.segmentPrefix = fh.segmentPrefix /\ fh'.uploaded = Len(chunk)
  BY <1>1, <1>2, <1>4 DEF Handles
<1>7. HandleOK'
  BY <1>1, <1>2, <1>4, <1>6, Records DEF HandleOK
<1>8. SwiftOK' /\ ControlOK'
  BY <1>1, Requests, TypeParts DEF Kept, SwiftOK, ControlOK
<1>9. HistoryOK'
  BY <1>1, <1>2, DataConcat, TypeParts DEF Kept, HistoryOK
<1>10. WriterInPlace'
  <2>1. node.writing /\ fh.truncated /\ fh.segmentPrefix # NoTime /\ id > 0
    BY <1>1, <1>2, <1>4 DEF Kept, WriterInPlace, Spent, Ids
  <2>2. \/ wd' = Writer("segment", id, chunk) /\ pc' = "open"
        \/ wd' = Spent /\ pc' = "failed"
    BY <1>1
  <2> QED
    BY <1>2, <1>5, <1>6, <2>1, <2>2 DEF WriterInPlace, Fresh, Moving, Spent, Writer
<1>11. Counted'
  <2>1. id <= units + 1 /\ Len(chunk) <= units /\ Len(chunk) <= SegmentLimit
    BY <1>3 DEF id, SegmentLimit
  <2> QED
    BY <1>1, <1>3, <1>6, <2>1 DEF Kept, Counted, Pending, Spent, Writer
<1>12. BaseShape'
  BY <1>1 DEF Kept, BaseShape
<1> QED
  BY <1>5, <1>7, <1>8, <1>9, <1>10, <1>11, <1>12, TypeParts DEF Kept

LEMMA ReleaseKept == ASSUME Kept, Release PROVE Kept'
<1>1. /\ pc \in {"open", "failed"} /\ pc' = "closed" /\ CloseWriter
      /\ node' = [node EXCEPT !.writing = node.writing /\ wd.to = "none"]
      /\ wd' = NoWriter /\ chunk' = << >> /\ written' = << >>
      /\ expected' \in {expected, written} /\ cut' = (cut /\ written = << >>)
      /\ UNCHANGED <<fh, after, victims, clock, units, reported>>
  BY DEF Release, deleteVars
<1>2. /\ SwiftOK' /\ BaseShape'
      /\ base'.kind = "plain" => Len(base'.data) <= SegmentSize
  BY <1>1, CloseWriterEffect DEF SwiftOK
<1>3. /\ node \in Nodes /\ node' \in Nodes /\ ~node'.writing
  <2>1. node \in Nodes /\ (node.writing => wd.to # "none")
    BY TypeParts DEF Kept, WriterInPlace, NoWriter
  <2>2. node' = [node EXCEPT !.writing = FALSE]
    BY <1>1, <2>1
  <2> QED
    BY <2>1, <2>2 DEF Nodes
<1>4. HandleOK' /\ ControlOK'
  BY <1>1, Records, EmptyData, TypeParts DEF Kept, HandleOK, ControlOK
<1>5. HistoryOK'
  BY <1>1, EmptyData, TypeParts DEF Kept, HistoryOK
<1>6. WriterInPlace'
  BY <1>1, <1>3 DEF Kept, WriterInPlace, Fresh, Moving, NoWriter
<1>7. Counted'
  BY <1>1, <1>2, TypeParts DEF Kept, Counted, Pending, NoWriter, HandleOK, Handles, HistoryOK, Ids
<1> QED
  BY <1>2, <1>3, <1>4, <1>5, <1>6, <1>7, TypeParts DEF Kept

LEMMA CutToZeroKept == ASSUME Kept, CutToZero PROVE Kept'
<1>1. /\ (pc = "closed" /\ pc' \in {"closed", "list"}) \/ (pc = "open" /\ wd = NoWriter /\ pc' \in {"open", "list"})
      /\ pc' = "list" => after' = IF pc = "open" THEN "cutopen" ELSE "cut"
      /\ after' \in {after, "cut", "cutopen"}
      /\ node' = [node EXCEPT !.bytes = 0, !.segmented = FALSE]
      /\ cut' \in {cut, TRUE} /\ expected' \in {expected, << >>}
      /\ UNCHANGED <<base, segments, faults, fh, wd, chunk, victims, clock, units, written, reported>>
  BY DEF CutToZero, swiftVars, handleVars
<1>2. node \in Nodes /\ wd = NoWriter
  BY <1>1, Idle, TypeParts DEF Kept
<1>3. node' \in Nodes /\ node'.writing = node.writing
  BY <1>1, <1>2 DEF Nodes
<1>4. SwiftOK' /\ HandleOK' /\ ControlOK'
  BY <1>1, TypeParts DEF Kept, SwiftOK, HandleOK, ControlOK
<1>5. HistoryOK'
  BY <1>1, EmptyData, TypeParts DEF Kept, HistoryOK
<1>6. WriterInPlace'
  BY <1>1, <1>2, <1>3 DEF Kept, WriterInPlace, Fresh, Moving, NoWriter
<1>7. Counted' /\ BaseShape'
  BY <1>1 DEF Kept, Counted, Pending, BaseShape
<1> QED
  BY <1>3, <1>4, <1>5, <1>6, <1>7, TypeParts DEF Kept

LEMMA RemoveObjectKept == ASSUME Kept, RemoveObject PROVE Kept'
<1>1. /\ pc = "closed" /\ pc' \in {"head", "deletebase"}
      /\ UNCHANGED <<swiftVars, node, handleVars, deleteVars, clock, history>>
  BY DEF RemoveObject
<1>2. TypeOK'
  BY <1>1, TypeParts
     DEF Kept, SwiftOK, HandleOK, ControlOK, HistoryOK, swiftVars, handleVars, deleteVars, history
<1>3. WriterInPlace' /\ Counted' /\ BaseShape'
  BY <1>1 DEF Kept, WriterInPlace, Fresh, Moving, Counted, Pending, BaseShape,
     swiftVars, handleVars, deleteVars, history
<1> QED
  BY <1>2, <1>3 DEF Kept

LEMMA HeadManifestKept == ASSUME Kept, HeadManifest PROVE Kept'
<1>1. /\ pc = "head"
      /\ (pc' = "list" /\ after' = "remove") \/ (pc' = "closed" /\ after' = after)
      /\ Fails \/ Succeeds
      /\ UNCHANGED <<base, segments, node, fh, wd, chunk, victims, clock, units, written, expected, cut>>
      /\ reported' = reported \/ reported' = TRUE
  BY DEF HeadManifest, Silent, Report, handleVars
<1>2. SwiftOK' /\ node' \in Nodes /\ HandleOK' /\ ControlOK' /\ HistoryOK'
  BY <1>1, Requests, TypeParts DEF Kept, SwiftOK, HandleOK, ControlOK, HistoryOK
<1>3. WriterInPlace'
  BY <1>1 DEF Kept, WriterInPlace, Fresh, Moving
<1>4. Counted' /\ BaseShape'
  BY <1>1 DEF Kept, Counted, Pending, BaseShape
<1> QED
  BY <1>2, <1>3, <1>4, TypeParts DEF Kept

LEMMA DeleteBaseKept == ASSUME Kept, DeleteBase PROVE Kept'
<1>1. /\ pc = "deletebase" /\ pc' = "closed" /\ base' \in {base, Nothing}
      /\ Fails \/ Succeeds
      /\ node' = Node(Len(Contents'), base'.time) /\ expected' = << >>
      /\ UNCHANGED <<segments, fh, wd, chunk, after, victims, clock, units, written, cut, reported>>
  BY DEF DeleteBase, handleVars, deleteVars
<1>2. SwiftOK' /\ HandleOK' /\ ControlOK' /\ HistoryOK'
  BY <1>1, Requests, Records, EmptyData, TypeParts DEF Kept, SwiftOK, HandleOK, ControlOK, HistoryOK
<1>3. node' \in Nodes /\ ~node'.writing
  <2>1. base'.data \in Data /\ base'.time \in Times \cup {NoTime} /\ SegmentsOK(segments')
    BY <1>2 DEF SwiftOK, Bases
  <2>2. Len(Contents') \in Nat
    BY <2>1, StoredType, ContentsStored, DataEnds
  <2>3. node' \in Nodes
    BY <1>1, <2>1, <2>2, Records
  <2> QED
    BY <1>1, <2>3 DEF Node
<1>4. WriterInPlace'
  BY <1>1, <1>3, Idle DEF Kept, WriterInPlace, Fresh, Moving, NoWriter
<1>5. Counted' /\ BaseShape'
  BY <1>1 DEF Kept, Counted, Pending, BaseShape, Nothing, Plain, Manifest
<1> QED
  BY <1>2, <1>3, <1>4, <1>5, TypeParts DEF Kept

LEMMA ListSegmentsKept == ASSUME Kept, ListSegments PROVE Kept'
<1>1. /\ pc = "list"
      /\ Fails \/ Succeeds
      /\ \/ pc' = "delete" /\ victims' = IdsOf(Doomed)
         \/ pc' = AfterError /\ victims' = victims
      /\ UNCHANGED <<base, segments, node, fh, wd, chunk, after, clock, units, written, expected, cut>>
      /\ reported' = reported \/ reported' = TRUE
  BY DEF ListSegments, Silent, Report, handleVars
<1>2. /\ AfterError \in {"failed", "open", "closed"}
      /\ AfterError = "failed" <=> after = "truncate"
      /\ AfterError = "open" <=> after = "cutopen"
  BY DEF AfterError
<1>3. SwiftOK' /\ node' \in Nodes /\ HandleOK' /\ HistoryOK'
  BY <1>1, Requests, TypeParts DEF Kept, SwiftOK, HandleOK, HistoryOK
<1>4. ControlOK'
  BY <1>1, <1>2, TypeParts DEF Kept, ControlOK, IdsOf
<1>5. WriterInPlace'
  BY <1>1, <1>2, Idle DEF Kept, WriterInPlace, Fresh, Moving, NoWriter
<1>6. Counted' /\ BaseShape'
  <2>1. Pending' => Pending
    BY <1>1, <1>2 DEF Pending
  <2> QED
    BY <1>1, <1>2, <2>1, TypeParts
       DEF Kept, Counted, BaseShape, HandleOK, Handles, HistoryOK, Ids, Pending
<1> QED
  BY <1>3, <1>4, <1>5, <1>6, TypeParts DEF Kept

LEMMA DeleteSegmentKept == ASSUME Kept, DeleteSegment PROVE Kept'
<1>1. PICK id \in victims :
        /\ pc = "delete"
        /\ Fails \/ Succeeds
        /\ segments' \in {segments, [key \in DOMAIN segments \ {<<Doomed, id>>} |-> segments[key]]}
        /\ \/ pc' = "delete" /\ victims' = victims \ {id}
           \/ pc' = AfterError /\ victims' = {}
        /\ UNCHANGED <<base, node, fh, wd, chunk, after, clock, units, written, expected, cut>>
        /\ reported' = reported \/ reported' = TRUE
  BY DEF DeleteSegment, Silent, Report, handleVars
<1>2. /\ AfterError \in {"failed", "open", "closed"}
      /\ AfterError = "failed" <=> after = "truncate"
      /\ AfterError = "open" <=> after = "cutopen"
  BY DEF AfterError
<1>3. SwiftOK'
  <2>1. faults' \in 0 .. MaxFaults
    BY <1>1, Requests
  <2>2. SegmentsOK(segments')
    BY <1>1, KeptContents DEF SegmentsOK
  <2> QED
    BY <1>1, <2>1, <2>2, TypeParts DEF Kept, SwiftOK
<1>4. node' \in Nodes /\ HandleOK' /\ HistoryOK'
  BY <1>1, TypeParts DEF Kept, HandleOK, HistoryOK
<1>5. ControlOK'
  BY <1>1, <1>2, TypeParts DEF Kept, ControlOK
<1>6. WriterInPlace'
  BY <1>1, <1>2, Idle DEF Kept, WriterInPlace, Fresh, Moving, NoWriter
<1>7. Counted' /\ BaseShape'
  <2>1. Pending' => Pending
    BY <1>1, <1>2 DEF Pending
  <2> QED
    BY <1>1, <1>2, <2>1, TypeParts
       DEF Kept, Counted, BaseShape, HandleOK, Handles, HistoryOK, Ids, Pending
<1> QED
  BY <1>3, <1>4, <1>5, <1>6, <1>7, TypeParts DEF Kept

LEMMA SegmentsDeletedKept == ASSUME Kept, SegmentsDeleted PROVE Kept'
<1>1. /\ pc = "delete" /\ after' = "none"
      /\ UNCHANGED <<base, segments, faults, chunk, victims, clock, units, written, cut, reported>>
      /\ \/ /\ after = "truncate" /\ pc' = "write" /\ expected' = expected
            /\ node' = [node EXCEPT !.header = NoTime, !.segmented = FALSE, !.bytes = 0, !.writing = TRUE]
            /\ fh' = [fh EXCEPT !.truncated = TRUE] /\ wd' = Writer("base", 0, << >>)
         \/ /\ after = "remove" /\ pc' = "deletebase" /\ UNCHANGED <<node, fh, wd, expected>>
         \/ /\ (after = "cut" /\ pc' = "closed") \/ (after = "cutopen" /\ pc' = "open")
            /\ node' = [node EXCEPT !.header = NoTime] /\ expected' = << >> /\ UNCHANGED <<fh, wd>>
  BY DEF SegmentsDeleted, swiftVars, Reopen
<1>2. /\ node \in Nodes /\ fh \in Handles /\ wd = NoWriter /\ ~node.writing
      /\ after \in {"truncate", "cutopen"} => fh = Handle(fh.create)
  BY <1>1, Idle, TypeParts DEF Kept, HandleOK, WriterInPlace, NoWriter, Fresh
<1>3. SwiftOK' /\ ControlOK' /\ HistoryOK'
  BY <1>1, EmptyData, TypeParts DEF Kept, SwiftOK, ControlOK, HistoryOK
<1>4. node' \in Nodes /\ (node'.writing <=> pc' = "write")
  <2>1. CASE after = "truncate"
    <3>1. node' = [node EXCEPT !.header = NoTime, !.segmented = FALSE, !.bytes = 0, !.writing = TRUE]
      BY <1>1, <2>1
    <3> QED
      BY <1>1, <1>2, <2>1, <3>1 DEF Nodes
  <2>2. CASE after # "truncate"
    <3>1. (node' = node \/ node' = [node EXCEPT !.header = NoTime]) /\ pc' # "write"
      BY <1>1, <2>2
    <3> QED
      BY <1>2, <3>1 DEF Nodes
  <2> QED
    BY <2>1, <2>2
<1>5. fh' \in Handles /\ (fh' = fh \/ fh' = [fh EXCEPT !.truncated = TRUE])
  BY <1>1, <1>2 DEF Handles
<1>6. HandleOK'
  <2>1. Writer("base", 0, << >>) \in Writers
    BY Records, EmptyData
  <2> QED
    BY <1>1, <1>5, <2>1, TypeParts DEF Kept, HandleOK
<1>7. WriterInPlace'
  <2>1. CASE after = "truncate"
    <3>1. /\ fh' = [Handle(fh.create) EXCEPT !.truncated = TRUE]
          /\ wd' = Writer("base", 0, << >>) /\ pc' = "write" /\ node'.writing
      BY <1>1, <1>2, <1>4, <2>1
    <3> QED
      BY <3>1 DEF WriterInPlace, Moving, Handle, Writer
  <2>2. CASE after # "truncate"
    BY <1>1, <1>2, <1>4, <2>2 DEF Kept, WriterInPlace, Fresh, Moving, NoWriter
  <2> QED
    BY <2>1, <2>2
<1>8. Counted'
  <2>1. CASE after = "truncate"
    <3>1. /\ fh'.segmentID = 0 /\ fh'.uploaded = 0 /\ wd' = Writer("base", 0, << >>) /\ pc' = "write"
      BY <1>1, <1>2, <2>1 DEF Handle
    <3> QED
      BY <1>1, <2>1, <3>1, TypeParts
         DEF Kept, Counted, Pending, Writer, HistoryOK, HandleOK, Handles
  <2>2. CASE after # "truncate"
    BY <1>1, <1>2, <2>2 DEF Kept, Counted, Pending, NoWriter
  <2> QED
    BY <2>1, <2>2
<1>9. BaseShape'
  BY <1>1 DEF Kept, BaseShape
<1> QED
  BY <1>3, <1>4, <1>6, <1>7, <1>8, <1>9, TypeParts DEF Kept

LEMMA TimePassesKept == ASSUME Kept, TimePasses PROVE Kept'
<1>1. /\ clock' = clock + 1 /\ clock' <= MaxTime
      /\ UNCHANGED <<swiftVars, node, handleVars, pc, deleteVars, history>>
  BY TypeParts DEF Kept, ControlOK, Times, TimePasses
<1>2. SwiftOK' /\ node' \in Nodes /\ HandleOK' /\ HistoryOK'
  BY <1>1, TypeParts
     DEF Kept, SwiftOK, HandleOK, HistoryOK, swiftVars, handleVars, history
<1>3. ControlOK'
  BY <1>1, TypeParts DEF Kept, ControlOK, Times, deleteVars
<1>4. WriterInPlace' /\ Counted' /\ BaseShape'
  BY <1>1 DEF Kept, WriterInPlace, Fresh, Moving, Counted, Pending, BaseShape,
     swiftVars, handleVars, deleteVars, history
<1> QED
  BY <1>2, <1>3, <1>4, TypeParts DEF Kept

LEMMA StutterKept == ASSUME Kept, UNCHANGED vars PROVE Kept'
<1>1. TypeOK'
  BY TypeParts
     DEF Kept, SwiftOK, HandleOK, ControlOK, HistoryOK, vars, swiftVars, handleVars, deleteVars, history
<1>2. WriterInPlace' /\ Counted' /\ BaseShape'
  BY DEF Kept, WriterInPlace, Fresh, Moving, Counted, Pending, BaseShape,
     vars, swiftVars, handleVars, deleteVars, history
<1> QED
  BY <1>1, <1>2 DEF Kept

LEMMA NextKept == ASSUME Kept, [Next]_vars PROVE Kept'
<1>1. CASE UNCHANGED vars
  BY <1>1, StutterKept
<1>2. CASE Next
  BY <1>2, CreateKept, OpenKept, RelistKept, WriteKept, WriteDataKept, CloseSegmentKept, MoveCopyKept,
     MoveDeleteKept, CreateManifestKept, InitSegmentKept, ReleaseKept, CutToZeroKept, RemoveObjectKept,
     HeadManifestKept, DeleteBaseKept, ListSegmentsKept, DeleteSegmentKept, SegmentsDeletedKept,
     TimePassesKept DEF Next
<1> QED
  BY <1>1, <1>2

LEMMA KeptHolds == Spec => []Kept
BY InitKept, NextKept, PTL DEF Spec

(* Every reachable state is of the declared types, whatever fails: the     *)
(* segment numbers stay within their bound, the name of a segment is known *)
(* when it is written, and what is read back is a sequence of units.       *)
THEOREM HandleTypeCorrect == Spec => []TypeOK
<1>1. Kept => TypeOK
  BY DEF Kept
<1> QED
  BY <1>1, KeptHolds, PTL

-----------------------------------------------------------------------------
(* What holds as long as nothing failed, step by step.                     *)
Right == Settled /\ WritesBase /\ MovesToSegment /\ WritesSegment

LEMMA ContentsSame == UNCHANGED <<base, segments>> => Contents' = Contents
BY ContentsStored

LEMMA ContentsOf ==
  /\ base.kind # "manifest" => Contents = base.data
  /\ Kept /\ base.kind = "manifest" /\ DOMAIN segments = {} => Contents = << >>
  /\ base'.kind # "manifest" => Contents' = base'.data
<1>1. base.kind # "manifest" => Contents = base.data
  BY DEF Contents
<1>2. base'.kind # "manifest" => Contents' = base'.data
  BY ContentsStored DEF Stored
<1>3. ASSUME Kept, base.kind = "manifest", DOMAIN segments = {} PROVE Contents = << >>
  <2>1. SegmentsOK(segments) /\ base = Manifest(base.time)
    BY <1>3, KeptContents DEF Kept, BaseShape, Nothing, Plain, Manifest
  <2> QED
    BY <1>3, <2>1, StoredNone, ContentsStored
<1> QED
  BY <1>1, <1>2, <1>3

LEMMA NoFailure == Kept /\ Succeeds => ~Fails
BY TypeParts DEF Kept, SwiftOK, Succeeds, Fails

(* While the node is idle only Settled says anything.                      *)
LEMMA OnlySettled == Settled' /\ wd'.to = "none" => Right'
BY DEF Right, WritesBase, MovesToSegment, WritesSegment

LEMMA CreateRight == ASSUME Kept, Right, Create, Succeeds PROVE Right'
<1>1. wd = NoWriter /\ Settled
  BY Idle DEF Create, Right
<1>2. DOMAIN segments = {} /\ written = << >>
  BY <1>1 DEF Create, Settled, NoWriter, Nothing
<1>3. /\ base' = Plain(<< >>) /\ node' = Node(0, NoTime) /\ pc' = "open" /\ expected' = << >>
      /\ UNCHANGED <<segments, wd, written>>
  BY NoFailure DEF Create
<1>4. Contents' = << >> /\ Len(<< >>) = 0
  BY <1>3, ContentsOf DEF Plain
<1>5. Settled'
  BY <1>1, <1>2, <1>3, <1>4 DEF Settled, Plain, Nothing, Node, NoWriter
<1> QED
  BY <1>1, <1>3, <1>5, OnlySettled DEF NoWriter

LEMMA OpenRight == ASSUME Kept, Right, Open, Succeeds PROVE Right'
<1>1. wd = NoWriter /\ Settled
  BY Idle DEF Open, Right
<1>2. /\ pc = "closed" /\ base # Nothing /\ pc' = "open"
      /\ UNCHANGED <<base, segments, node, wd, written, expected, cut>>
  BY DEF Open, swiftVars, history
<1>3. Contents' = Contents
  BY <1>2, ContentsSame
<1>4. Settled'
  BY <1>1, <1>2, <1>3 DEF Settled, NoWriter
<1> QED
  BY <1>1, <1>2, <1>4, OnlySettled DEF NoWriter

LEMMA RelistRight == ASSUME Kept, Right, Relist, Succeeds PROVE Right'
<1>1. wd = NoWriter /\ Settled
  BY Idle DEF Relist, Right
<1>2. /\ pc = "closed" /\ base # Nothing /\ node' = Node(Len(Contents), base.time)
      /\ UNCHANGED <<base, segments, pc, wd, written, expected, cut>>
  BY DEF Relist, swiftVars, handleVars, history
<1>3. Contents' = Contents
  BY <1>2, ContentsSame
<1>4. IF base.time = NoTime THEN base.kind # "manifest" ELSE base = Manifest(base.time)
  BY DEF Kept, BaseShape, Nothing, Plain, Manifest
<1>5. /\ node'.segmented = (base.time # NoTime) /\ node'.header = base.time
      /\ node'.bytes = Len(Contents)
  BY <1>2 DEF Node
<1>6. node'.segmented => base' = Manifest(node'.header)
  BY <1>2, <1>4, <1>5
<1>7. node'.segmented \/ DOMAIN segments = {}
  BY <1>1, <1>4, <1>5 DEF Settled, NoWriter
<1>8. Settled'
  BY <1>1, <1>2, <1>3, <1>5, <1>6, <1>7 DEF Settled, NoWriter
<1> QED
  BY <1>1, <1>2, <1>8, OnlySettled DEF NoWriter

LEMMA MustTruncateIdle == Kept /\ pc = "open" => (MustTruncate <=> wd.to = "none")
BY TypeParts DEF Kept, WriterInPlace, MustTruncate, Fresh, Handle, HandleOK, Handles

LEMMA WriteRight == ASSUME Kept, Right, Write, Succeeds PROVE Right'
<1>1. /\ pc = "open" /\ UNCHANGED <<base, segments, written, expected, cut>>
      /\ MustTruncate <=> wd.to = "none"
  BY MustTruncateIdle DEF Write, swiftVars
<1>2. Contents' = Contents
  BY <1>1, ContentsSame
<1>3. CASE wd.to = "none" /\ node.segmented
  <2>1. pc' = "list" /\ after' = "truncate" /\ UNCHANGED <<node, fh, wd>>
    BY <1>1, <1>3 DEF Write
  <2>2. IsSuffix(expected, expected)
    BY DataEnds, TypeParts DEF Kept, HistoryOK
  <2>3. base.kind = "manifest" /\ node.header = base.time
    BY <1>3 DEF Right, Settled, Manifest
  <2>4. Settled'
    BY <1>1, <1>2, <1>3, <2>1, <2>2, <2>3 DEF Right, Settled, Doomed
  <2> QED
    BY <1>3, <2>1, <2>4, OnlySettled
<1>4. CASE wd.to = "none" /\ ~node.segmented
  <2>1. /\ pc' = "write" /\ node' = [node EXCEPT !.bytes = 0, !.writing = TRUE]
        /\ wd' = Writer("base", 0, << >>) /\ node \in Nodes
    BY <1>1, <1>4, TypeParts DEF Write, Reopen, Kept
  <2>2. node'.bytes = 0 /\ ~node'.segmented
    BY <1>4, <2>1 DEF Nodes
  <2>3. IsSuffix(expected, expected)
    BY DataEnds, TypeParts DEF Kept, HistoryOK
  <2>4. WritesBase'
    BY <1>1, <1>2, <1>4, <2>1, <2>2, <2>3 DEF Right, Settled, WritesBase, Writer
  <2> QED
    BY <2>1, <2>4 DEF Right, Settled, MovesToSegment, WritesSegment, Writer
<1>5. CASE wd.to # "none"
  <2>1. /\ pc' = "write" /\ UNCHANGED <<fh, wd>> /\ node' = [node EXCEPT !.writing = TRUE]
        /\ node \in Nodes
    BY <1>1, <1>5, TypeParts DEF Write, Kept
  <2>2. node'.bytes = node.bytes /\ node'.segmented = node.segmented /\ node'.header = node.header
    BY <2>1 DEF Nodes
  <2>3. WritesBase'
    BY <1>1, <1>2, <2>1, <2>2 DEF Right, WritesBase
  <2>4. WritesSegment'
    BY <1>1, <1>2, <2>1, <2>2 DEF Right, WritesSegment, Segmented
  <2>5. wd'.to \in {"base", "segment"}
    BY <1>1, <1>5, <2>1, TypeParts DEF Kept, WriterInPlace, Moving, HandleOK, Writers
  <2> QED
    BY <2>3, <2>4, <2>5 DEF Right, Settled, MovesToSegment
<1> QED
  BY <1>3, <1>4, <1>5

LEMMA WriteDataRight == ASSUME Kept, Right, WriteData, Succeeds PROVE Right'
<1>1. /\ pc = "write" /\ UNCHANGED <<base, segments, chunk, expected, cut>>
      /\ \/ /\ wd' = [wd EXCEPT !.data = wd.data \o chunk]
            /\ fh' = [fh EXCEPT !.uploaded = fh.uploaded + Len(chunk)]
            /\ node' = [node EXCEPT !.bytes = node.bytes + Len(chunk)]
            /\ written' = written \o chunk /\ pc' = "open"
         \/ pc' = "close" /\ UNCHANGED <<wd, fh, node, written>>
  BY NoFailure DEF WriteData, history
<1>2. /\ node \in Nodes /\ fh \in Handles /\ wd \in Writers /\ wd.to \in {"base", "segment"}
      /\ Len(chunk) \in 1 .. MaxChunk
  BY <1>1, TypeParts DEF Kept, HandleOK, WriterInPlace, Moving, Writers, Counted, Pending
<1>3. /\ written \in Data /\ chunk \in Data /\ wd.data \in Data /\ Contents \in Data
      /\ Len(written) \in Nat /\ Len(written \o chunk) = Len(written) + Len(chunk)
      /\ written \o chunk \in Data
  BY <1>2, KeptContents, DataConcat, DataEnds, TypeParts DEF Kept, HistoryOK, HandleOK, Writers
<1>4. Contents' = Contents
  BY <1>1, ContentsSame
<1>5. /\ wd'.to = wd.to /\ fh'.segmentID = fh.segmentID /\ fh'.segmentPrefix = fh.segmentPrefix
      /\ node'.segmented = node.segmented /\ node'.header = node.header
      /\ node.bytes = Len(written) => node'.bytes = Len(written')
  BY <1>1, <1>2, <1>3 DEF Nodes, Handles, Writers
<1>6. pc' = "open" => written' # << >>
  <2>1. CASE pc' = "open"
    <3>1. written' = written \o chunk /\ Len(written') # 0
      BY <1>1, <1>2, <1>3, <2>1
    <3> QED
      BY <1>3, <3>1, DataEnds
  <2> QED
    BY <2>1
<1>7. WritesBase'
  <2>1. wd.data = written => wd'.data = written'
    BY <1>1, <1>2 DEF Writers
  <2> QED
    BY <1>1, <1>4, <1>5, <1>6, <2>1 DEF Right, WritesBase
<1>8. WritesSegment'
  <2>1. Segmented(fh.segmentID - 1) => Segmented(fh.segmentID - 1)'
    BY <1>1, <1>5 DEF Segmented
  <2>2. ASSUME written = Cat(Contents, wd.data) PROVE written' = Cat(Contents', wd'.data)
    <3>1. CASE pc' = "open"
      <4>1. wd'.data = Cat(wd.data, chunk) /\ written' = Cat(written, chunk)
        BY <1>1, <1>2, <3>1 DEF Writers, Cat
      <4>2. Cat(Cat(Contents, wd.data), chunk) = Cat(Contents, Cat(wd.data, chunk))
        BY <1>3, Associative
      <4> QED
        BY <1>4, <2>2, <4>1, <4>2
    <3>2. CASE pc' = "close"
      BY <1>1, <1>4, <2>2, <3>2
    <3> QED
      BY <1>1, <3>1, <3>2
  <2> QED
    BY <1>5, <1>6, <2>1, <2>2 DEF Right, WritesSegment, Cat
<1> QED
  BY <1>2, <1>5, <1>7, <1>8 DEF Right, Settled, MovesToSegment

(* A writer on a segment that is closed adds its data to what is stored.   *)
LEMMA ClosedSegment ==
  ASSUME Kept, Right, wd.to = "segment", Put(wd)
  PROVE  /\ base' = base /\ Contents' = written
         /\ DOMAIN segments' = {fh.segmentPrefix} \X (1 .. fh.segmentID)
<1> DEFINE t == fh.segmentPrefix
           id == fh.segmentID
<1>1. /\ base' = base /\ segments' = StoreSegment(t, wd.id, wd.data) /\ base = Manifest(t)
      /\ DOMAIN segments = {t} \X (1 .. id - 1) /\ written = Contents \o wd.data
  BY DEF Put, Right, WritesSegment, Segmented
<1>2. /\ wd.id = id /\ id \in Ids /\ id \in Nat \ {0} /\ t \in Times
      /\ wd.data \in Data /\ SegmentsOK(segments)
  BY KeptContents, TypeParts DEF Kept, WriterInPlace, HandleOK, Handles, Writers, Ids
<1>3. segments' = StoreSegment(t, id, wd.data)
  BY <1>1, <1>2
<1> HIDE DEF t, id
<1>4. /\ DOMAIN segments' = DOMAIN segments \cup {<<t, id>>} /\ segments'[<<t, id>>] = wd.data
      /\ \A key \in DOMAIN segments : key # <<t, id>> => segments'[key] = segments[key]
  BY <1>2, <1>3, StoreEffect
<1>5. \A i \in Ids : i >= id => <<t, i>> \notin DOMAIN segments
  BY <1>1, <1>2 DEF Ids
<1>6. Added(segments, segments', t, id, wd.data)
  BY <1>2, <1>4, <1>5 DEF Added
<1>7. Stored(Manifest(t), segments') = Stored(Manifest(t), segments) \o wd.data
  BY <1>2, <1>6, StoredAdds
<1>8. Contents' = written
  BY <1>1, <1>7, ContentsStored
<1>9. DOMAIN segments' = {t} \X (1 .. id)
  <2>1. 1 .. id = (1 .. id - 1) \cup {id}
    BY <1>2
  <2> QED
    BY <1>1, <1>4, <2>1
<1> QED
  BY <1>1, <1>8, <1>9 DEF t, id

LEMMA CloseSegmentRight == ASSUME Kept, Right, CloseSegment, Succeeds PROVE Right'
<1>1. /\ pc = "close" /\ Put(wd) /\ wd' = Spent
      /\ \/ fh.wroteSegment /\ pc' = "segment" /\ UNCHANGED fh
         \/ ~fh.wroteSegment /\ pc' = "copy"
      /\ UNCHANGED <<node, written, expected, cut>>
  BY NoFailure DEF CloseSegment, CloseWriter, Silent
<1>2. wd.to \in {"base", "segment"}
  BY <1>1, TypeParts DEF Kept, HandleOK, WriterInPlace, Moving, Writers
<1>3. MovesToSegment'
  <2>1. CASE wd.to = "base"
    <3>1. pc' = "copy" /\ base' = Plain(wd.data) /\ segments' = segments
      BY <1>1, <2>1 DEF Kept, WriterInPlace, Put
    <3> QED
      BY <1>1, <2>1, <3>1 DEF Right, WritesBase, MovesToSegment
  <2>2. CASE wd.to = "segment"
    <3>1. pc' = "segment" /\ fh' = fh
      BY <1>1, <2>2 DEF Kept, WriterInPlace
    <3>2. /\ base' = base /\ Contents' = written
          /\ DOMAIN segments' = {fh.segmentPrefix} \X (1 .. fh.segmentID)
      BY <1>1, <2>2, ClosedSegment
    <3>3. Segmented(fh.segmentID)'
      BY <1>1, <2>2, <3>1, <3>2 DEF Right, WritesSegment, Segmented
    <3> QED
      BY <1>1, <2>2, <3>1, <3>2, <3>3 DEF Right, WritesSegment, MovesToSegment
  <2> QED
    BY <1>2, <2>1, <2>2
<1> QED
  BY <1>1, <1>3 DEF Right, Settled, WritesBase, WritesSegment, Spent

LEMMA MoveCopyRight == ASSUME Kept, Right, MoveCopy, Succeeds PROVE Right'
<1>1. pc = "copy" /\ wd = Spent /\ fh.segmentID = 1 /\ fh.segmentPrefix \in Times
  BY TypeParts DEF MoveCopy, Kept, WriterInPlace, Moving, HandleOK, Handles, Writers
<1>2. base = Plain(written) /\ DOMAIN segments = {} /\ node.bytes = Len(written)
  BY <1>1 DEF Right, MovesToSegment, Spent
<1>3. /\ segments' = StoreSegment(fh.segmentPrefix, 1, Contents) /\ pc' = "movedelete"
      /\ UNCHANGED <<base, node, fh, wd, written>>
  BY <1>1, <1>2, NoFailure DEF MoveCopy, Silent, handleVars, Plain, Nothing
<1>4. Contents = written
  BY <1>2, ContentsOf DEF Plain
<1>5. /\ DOMAIN segments' = {<<fh.segmentPrefix, 1>>}
      /\ segments'[<<fh.segmentPrefix, 1>>] = written
  BY <1>2, <1>3, <1>4 DEF StoreSegment
<1>6. MovesToSegment'
  BY <1>1, <1>2, <1>3, <1>5 DEF MovesToSegment
<1> QED
  BY <1>1, <1>3, <1>6 DEF Right, Settled, WritesBase, WritesSegment, Spent

LEMMA MoveDeleteRight == ASSUME Kept, Right, MoveDelete, Succeeds PROVE Right'
<1>1. /\ pc = "movedelete" /\ wd = Spent /\ base' = Nothing /\ pc' = "manifest"
      /\ UNCHANGED <<segments, node, fh, wd, written>>
  BY NoFailure, TypeParts
     DEF MoveDelete, Silent, handleVars, Kept, WriterInPlace, Moving, HandleOK, Writers
<1>2. MovesToSegment'
  BY <1>1 DEF Right, MovesToSegment, Spent
<1> QED
  BY <1>1, <1>2 DEF Right, Settled, WritesBase, WritesSegment, Spent

LEMMA CreateManifestRight == ASSUME Kept, Right, CreateManifest, Succeeds PROVE Right'
<1>1. /\ pc = "manifest" /\ pc' = "segment" /\ base' = Manifest(fh.segmentPrefix)
      /\ node' = [node EXCEPT !.header = fh.segmentPrefix, !.segmented = TRUE]
      /\ fh' = [fh EXCEPT !.wroteSegment = TRUE]
      /\ UNCHANGED <<segments, wd, written>>
  BY NoFailure DEF CreateManifest, Silent
<1>2. /\ wd = Spent /\ fh.segmentID = 1 /\ fh \in Handles /\ node \in Nodes
  BY <1>1, TypeParts DEF Kept, WriterInPlace, Moving, HandleOK, Writers
<1>3. /\ node'.bytes = node.bytes /\ node'.segmented /\ node'.header = fh.segmentPrefix
      /\ fh'.segmentPrefix = fh.segmentPrefix /\ fh'.segmentID = 1
  BY <1>1, <1>2 DEF Nodes, Handles
<1>4. /\ DOMAIN segments = {<<fh.segmentPrefix, 1>>} /\ segments[<<fh.segmentPrefix, 1>>] = written
      /\ node.bytes = Len(written)
  BY <1>1, <1>2 DEF Right, MovesToSegment, Spent
<1>5. Contents' = written
  <2> DEFINE none == [key \in {} |-> << >>]
             t == fh.segmentPrefix
             id == 1
  <2>1. /\ SegmentsOK(none) /\ DOMAIN none = {} /\ id \in Ids /\ written \in Data
        /\ base' = Manifest(t) /\ segments' = segments
        /\ DOMAIN segments = {<<t, id>>} /\ segments[<<t, id>>] = written
    BY <1>1, <1>4, TypeParts DEF SegmentsOK, Ids, Kept, HistoryOK
  <2> HIDE DEF none, t, id
  <2>2. Stored(Manifest(t), none) = << >>
    BY <2>1, StoredNone
  <2>3. Added(none, segments, t, id, written)
    BY <2>1 DEF Added
  <2>4. Stored(Manifest(t), segments) = Stored(Manifest(t), none) \o written
    BY <2>1, <2>3, StoredAdds
  <2>5. << >> \o written = written
    BY <2>1, DataConcat
  <2> QED
    BY <2>1, <2>2, <2>4, <2>5, ContentsStored
<1>6. Segmented(1)'
  BY <1>1, <1>3, <1>4 DEF Segmented
<1>7. MovesToSegment'
  BY <1>1, <1>2, <1>3, <1>4, <1>5, <1>6 DEF MovesToSegment
<1> QED
  BY <1>1, <1>2, <1>7 DEF Right, Settled, WritesBase, WritesSegment, Spent

LEMMA InitSegmentRight == ASSUME Kept, Right, InitSegment, Succeeds PROVE Right'
<1> DEFINE id == fh.segmentID + 1
<1>1. /\ pc = "segment" /\ UNCHANGED <<base, segments, chunk>>
      /\ fh' = [fh EXCEPT !.segmentID = id, !.uploaded = Len(chunk)]
      /\ node' = [node EXCEPT !.bytes = node.bytes + Len(chunk)]
      /\ wd' = Writer("segment", id, chunk) /\ written' = written \o chunk /\ pc' = "open"
  BY NoFailure DEF InitSegment
<1>2. /\ wd = Spent /\ fh \in Handles /\ node \in Nodes /\ chunk \in Data /\ written \in Data
      /\ Len(chunk) \in 1 .. MaxChunk /\ fh.segmentID \in Nat
  BY <1>1, TypeParts
     DEF Kept, WriterInPlace, Moving, HandleOK, Writers, HistoryOK, Counted, Pending, Handles, Ids
<1>3. Segmented(fh.segmentID) /\ Contents = written /\ node.bytes = Len(written)
  BY <1>1, <1>2 DEF Right, MovesToSegment, Spent
<1>4. /\ fh'.segmentID - 1 = fh.segmentID /\ fh'.segmentPrefix = fh.segmentPrefix
      /\ node'.bytes = node.bytes + Len(chunk)
      /\ node'.segmented = node.segmented /\ node'.header = node.header
  BY <1>1, <1>2 DEF Handles, Nodes
<1>5. Contents' = Contents
  BY <1>1, ContentsSame
<1>6. Len(written') = Len(written) + Len(chunk) /\ Len(written) \in Nat /\ written' # << >>
  <2>1. written' \in Data /\ Len(written') = Len(written) + Len(chunk) /\ Len(written) \in Nat
    BY <1>1, <1>2, DataConcat, DataEnds
  <2> QED
    BY <1>2, <2>1, DataEnds
<1>7. WritesSegment'
  <2>1. DOMAIN segments' = {fh'.segmentPrefix} \X (1 .. fh'.segmentID - 1)
    BY <1>1, <1>3, <1>4 DEF Segmented
  <2>2. Segmented(fh.segmentID - 1)'
    BY <1>1, <1>3, <1>4, <2>1 DEF Segmented
  <2>3. wd'.data = chunk
    BY <1>1 DEF Writer
  <2> QED
    BY <1>1, <1>3, <1>4, <1>5, <1>6, <2>2, <2>3 DEF WritesSegment
<1> QED
  BY <1>1, <1>7 DEF Right, Settled, WritesBase, MovesToSegment, Writer

LEMMA ReleaseRight == ASSUME Kept, Right, Release, Succeeds PROVE Right'
<1>1. /\ pc \in {"open", "failed"} /\ pc' = "closed" /\ Put(wd)
      /\ node' = [node EXCEPT !.writing = node.writing /\ wd.to = "none"]
      /\ wd' = NoWriter /\ written' = << >>
      /\ expected' = IF written = << >> THEN expected ELSE written
      /\ cut' = (cut /\ written = << >>)
  BY NoFailure DEF Release, CloseWriter
<1>2. node \in Nodes /\ wd.to \in {"none", "spent", "base", "segment"} /\ written \in Data
  BY TypeParts DEF Kept, HandleOK, Writers, HistoryOK
<1>3. /\ node'.bytes = node.bytes /\ node'.segmented = node.segmented /\ node'.header = node.header
  BY <1>1, <1>2 DEF Nodes
<1>4. CASE wd.to = "none"
  <2>1. Settled /\ UNCHANGED <<base, segments>> /\ written = << >> /\ pc = "open"
    BY <1>1, <1>4 DEF Right, Put, Settled
  <2>2. Contents' = Contents
    BY <2>1, ContentsSame
  <2>3. expected' = expected /\ (cut' <=> cut)
    BY <1>1, <2>1
  <2> QED
    BY <1>1, <1>3, <1>4, <2>1, <2>2, <2>3, OnlySettled DEF Settled, NoWriter
<1>5. CASE wd.to = "base"
  <2>1. /\ pc = "open" /\ base' = Plain(wd.data) /\ segments' = segments /\ DOMAIN segments = {}
        /\ ~node.segmented /\ wd.data = written /\ node.bytes = Len(written) /\ written # << >>
    BY <1>1, <1>5 DEF Kept, WriterInPlace, Right, WritesBase, Put
  <2>2. Contents' = written
    BY <2>1, ContentsOf DEF Plain
  <2>3. expected' = written
    BY <1>1, <2>1
  <2>4. Settled'
    BY <1>1, <1>3, <2>1, <2>2, <2>3 DEF Settled, Plain, Nothing
  <2> QED
    BY <1>1, <2>4, OnlySettled DEF NoWriter
<1>6. CASE wd.to = "segment"
  <2>1. /\ pc = "open" /\ written # << >> /\ node.bytes = Len(written) /\ node.segmented
        /\ base = Manifest(fh.segmentPrefix) /\ node.header = fh.segmentPrefix
    BY <1>1, <1>6 DEF Kept, WriterInPlace, Right, WritesSegment, Segmented
  <2>2. /\ base' = base /\ Contents' = written
        /\ DOMAIN segments' = {fh.segmentPrefix} \X (1 .. fh.segmentID)
    BY <1>1, <1>6, ClosedSegment
  <2>3. expected' = written
    BY <1>1, <2>1
  <2>4. \A key \in DOMAIN segments' : base'.kind = "manifest" /\ key[1] = base'.time
    BY <2>1, <2>2 DEF Manifest
  <2>5. Settled'
    BY <1>1, <1>3, <2>1, <2>2, <2>3, <2>4 DEF Settled
  <2> QED
    BY <1>1, <2>5, OnlySettled DEF NoWriter
<1>7. CASE wd.to = "spent"
  BY <1>1, <1>7 DEF Kept, WriterInPlace, Moving, Right, MovesToSegment
<1> QED
  BY <1>2, <1>4, <1>5, <1>6, <1>7
LEMMA CutToZeroRight == ASSUME Kept, Right, CutToZero, Succeeds PROVE Right'
<1>1. /\ pc \in {"closed", "open"} /\ wd = NoWriter /\ node \in Nodes
      /\ node' = [node EXCEPT !.bytes = 0, !.segmented = FALSE]
      /\ UNCHANGED <<base, segments, wd, written>>
  BY Idle, TypeParts DEF CutToZero, swiftVars, handleVars, Kept
<1>2. node'.bytes = 0 /\ ~node'.segmented /\ node'.header = node.header
  BY <1>1 DEF Nodes
<1>3. Contents' = Contents
  BY <1>1, ContentsSame
<1>4. Settled /\ IsSuffix(expected, expected)
  BY DataEnds, TypeParts DEF Right, Kept, HistoryOK
<1>5. CASE node.segmented
  <2>1. pc' = "list" /\ after' \in {"cut", "cutopen"} /\ UNCHANGED <<cut, expected>>
    BY <1>5 DEF CutToZero
  <2>2. base.kind = "manifest" /\ node.header = base.time /\ base # Nothing
    BY <1>1, <1>4, <1>5 DEF Settled, Manifest, Nothing, NoWriter
  <2>3. Settled'
    BY <1>1, <1>2, <1>3, <1>4, <2>1, <2>2 DEF Settled, Doomed, NoWriter
  <2> QED
    BY <1>1, <2>3, OnlySettled DEF NoWriter
<1>6. CASE ~node.segmented
  <2>1. cut' = TRUE /\ pc' = pc
    BY <1>6 DEF CutToZero
  <2>2. Settled'
    BY <1>1, <1>2, <1>4, <1>6, <2>1 DEF Settled, NoWriter
  <2> QED
    BY <1>1, <2>2, OnlySettled DEF NoWriter
<1> QED
  BY <1>5, <1>6

LEMMA RemoveObjectRight == ASSUME Kept, Right, RemoveObject, Succeeds PROVE Right'
<1>1. /\ pc = "closed" /\ base # Nothing /\ wd = NoWriter
      /\ pc' = IF node.segmented THEN "head" ELSE "deletebase"
      /\ UNCHANGED <<base, segments, node, wd, written, expected, cut>>
  BY Idle DEF RemoveObject, swiftVars, handleVars, history
<1>2. Contents' = Contents
  BY <1>1, ContentsSame
<1>3. Settled /\ IsSuffix(expected, expected)
  BY DataEnds, TypeParts DEF Right, Kept, HistoryOK
<1>4. Settled'
  BY <1>1, <1>2, <1>3 DEF Settled, NoWriter
<1> QED
  BY <1>1, <1>4, OnlySettled DEF NoWriter

LEMMA HeadManifestRight == ASSUME Kept, Right, HeadManifest, Succeeds PROVE Right'
<1>1. pc = "head" /\ wd = NoWriter /\ Settled /\ base.kind = "manifest" /\ base # Nothing
  BY Idle DEF HeadManifest, Right, Settled, Manifest, Nothing, NoWriter
<1>2. /\ pc' = "list" /\ after' = "remove"
      /\ UNCHANGED <<base, segments, node, wd, written, expected, cut>>
  BY <1>1, NoFailure DEF HeadManifest, Silent, handleVars
<1>3. Contents' = Contents /\ IsSuffix(expected, expected)
  BY <1>2, ContentsSame, DataEnds, TypeParts DEF Kept, HistoryOK
<1>4. Settled'
  BY <1>1, <1>2, <1>3 DEF Settled, Doomed, NoWriter
<1> QED
  BY <1>1, <1>2, <1>4, OnlySettled DEF NoWriter

LEMMA DeleteBaseRight == ASSUME Kept, Right, DeleteBase, Succeeds PROVE Right'
<1>1. pc = "deletebase" /\ wd = NoWriter /\ DOMAIN segments = {} /\ written = << >>
  BY Idle DEF DeleteBase, Right, Settled, NoWriter
<1>2. /\ base' = Nothing /\ node' = Node(Len(Contents'), base'.time)
      /\ pc' = "closed" /\ expected' = << >>
      /\ UNCHANGED <<segments, wd, written, cut>>
  BY NoFailure DEF DeleteBase, handleVars
<1>3. Contents' = << >> /\ ~node'.segmented
  BY <1>2, ContentsOf DEF Nothing, Node
<1>4. Settled'
  BY <1>1, <1>2, <1>3 DEF Settled
<1> QED
  BY <1>1, <1>2, <1>4, OnlySettled DEF NoWriter

LEMMA ListSegmentsRight == ASSUME Kept, Right, ListSegments, Succeeds PROVE Right'
<1>1. /\ pc = "list" /\ pc' = "delete" /\ victims' = IdsOf(Doomed) /\ wd = NoWriter
      /\ UNCHANGED <<base, segments, node, wd, after, written, expected, cut>>
  BY NoFailure, Idle DEF ListSegments, Silent, handleVars
<1>2. Settled /\ Contents' = Contents
  BY <1>1, ContentsSame DEF Right
<1>3. base.kind = "manifest" /\ Doomed = base.time /\ Doomed' = Doomed
  BY <1>1, <1>2 DEF Settled, NoWriter, Doomed
<1>4. \A key \in DOMAIN segments : key[2] \in victims'
  <2>1. SUFFICES ASSUME NEW key \in DOMAIN segments PROVE key[2] \in IdsOf(Doomed)
    BY <1>1
  <2>2. key \in Times \X Ids /\ key[1] = base.time
    BY <1>1, <1>2, KeptContents DEF SegmentsOK, Settled, NoWriter
  <2>3. key = <<key[1], key[2]>> /\ key[2] \in Ids
    BY <2>2
  <2> QED
    BY <1>3, <2>2, <2>3 DEF IdsOf
<1>5. Settled'
  BY <1>1, <1>2, <1>3, <1>4 DEF Settled, NoWriter
<1> QED
  BY <1>1, <1>5, OnlySettled DEF NoWriter

LEMMA DeleteSegmentRight == ASSUME Kept, Right, DeleteSegment, Succeeds PROVE Right'
<1>1. PICK id \in victims :
        /\ pc = "delete" /\ \A other \in victims : id <= other
        /\ segments' = [key \in DOMAIN segments \ {<<Doomed, id>>} |-> segments[key]]
        /\ victims' = victims \ {id} /\ pc' = pc
        /\ UNCHANGED <<base, node, wd, after, written, expected, cut>>
  BY NoFailure DEF DeleteSegment, Silent, handleVars
<1>2. wd = NoWriter /\ Settled /\ SegmentsOK(segments) /\ id \in Ids /\ victims \subseteq Ids
  BY <1>1, Idle, KeptContents, TypeParts DEF Right, Kept, ControlOK
<1>3. /\ base.kind = "manifest" /\ Doomed = base.time /\ Doomed' = Doomed
      /\ \A key \in DOMAIN segments : key[1] = Doomed /\ key[2] \in victims
  BY <1>1, <1>2 DEF Settled, NoWriter, Doomed
<1>4. base = Manifest(Doomed)
  BY <1>3 DEF Kept, BaseShape, Nothing, Plain, Manifest
<1>5. /\ DOMAIN segments' = DOMAIN segments \ {<<Doomed, id>>}
      /\ \A key \in DOMAIN segments' : segments'[key] = segments[key]
  BY <1>1
<1>6. SegmentsOK(segments') /\ Contents \in Data /\ Contents' \in Data
  <2>1. SegmentsOK(segments')
    BY <1>2, <1>5 DEF SegmentsOK
  <2>2. base'.data \in Data
    BY <1>1, TypeParts DEF Kept, SwiftOK, Bases
  <2> QED
    BY <2>1, <2>2, KeptContents, StoredType, ContentsStored
<1>7. IsSuffix(Contents, expected) => IsSuffix(Contents', expected)
  <2>1. CASE <<Doomed, id>> \in DOMAIN segments
    <3>1. Dropped(segments, segments', Doomed, id, segments[<<Doomed, id>>])
      <4>1. \A i \in Ids : i < id => <<Doomed, i>> \notin DOMAIN segments
        <5>1. SUFFICES ASSUME NEW i \in Ids, i < id, <<Doomed, i>> \in DOMAIN segments PROVE FALSE
          OBVIOUS
        <5>2. i \in victims
          BY <1>3, <5>1
        <5>3. id <= i
          BY <1>1, <5>2
        <5> QED
          BY <1>2, <5>1, <5>3 DEF Ids
      <4> QED
        BY <1>5, <2>1, <4>1 DEF Dropped
    <3>2. segments[<<Doomed, id>>] \in Data /\ expected \in Data
      BY <1>2, <2>1, TypeParts DEF SegmentsOK, Kept, HistoryOK
    <3>3. Contents = segments[<<Doomed, id>>] \o Contents'
      <4> DEFINE t == Doomed
                 data == segments[<<Doomed, id>>]
      <4>1. /\ Dropped(segments, segments', t, id, data) /\ base = Manifest(t) /\ base' = base
            /\ SegmentsOK(segments) /\ id \in Ids /\ data \in Data
        BY <1>1, <1>2, <1>4, <3>1, <3>2
      <4> HIDE DEF t, data
      <4>2. \A segs, left, u : \A i \in Ids : \A d \in Data :
              SegmentsOK(segs) /\ Dropped(segs, left, u, i, d) =>
                Stored(Manifest(u), segs) = d \o Stored(Manifest(u), left)
        BY StoredDrops
      <4>3. Stored(Manifest(t), segments) = data \o Stored(Manifest(t), segments')
        BY <4>1, <4>2
      <4> QED
        BY <4>1, <4>3, ContentsStored DEF data
    <3> QED
      BY <1>6, <3>2, <3>3, DataEnds
  <2>2. CASE <<Doomed, id>> \notin DOMAIN segments
    <3>1. DOMAIN segments' = DOMAIN segments
      BY <1>5, <2>2
    <3>2. PartsIn(segments', base.time) = PartsIn(segments, base.time)
      BY <1>5, <3>1 DEF PartsIn
    <3>3. Contents' = Contents
      BY <1>1, <3>2, ContentsStored DEF Stored
    <3> QED
      BY <3>3
  <2> QED
    BY <2>1, <2>2
<1>8. \A key \in DOMAIN segments' : key \in DOMAIN segments /\ key[1] = Doomed /\ key[2] \in victims'
  <2>1. SUFFICES ASSUME NEW key \in DOMAIN segments'
                 PROVE  key \in DOMAIN segments /\ key[1] = Doomed /\ key[2] \in victims'
    OBVIOUS
  <2>2. key \in DOMAIN segments /\ key # <<Doomed, id>>
    BY <1>5
  <2>3. key = <<key[1], key[2]>> /\ key[1] = Doomed /\ key[2] \in victims
    BY <1>2, <1>3, <2>2 DEF SegmentsOK
  <2> QED
    BY <1>1, <2>2, <2>3
<1>9. Settled'
  <2>1. written = << >> /\ base # Nothing /\ (node.segmented => base = Manifest(node.header))
    BY <1>1, <1>2 DEF Settled, NoWriter
  <2>2. after \in {"cut", "cutopen"} => ~node.segmented /\ node.bytes = 0
    BY <1>1, <1>2 DEF Settled, NoWriter
  <2>3. ~cut => IsSuffix(Contents', expected)
    BY <1>1, <1>2, <1>7 DEF Settled, NoWriter
  <2> QED
    BY <1>1, <1>3, <1>8, <2>1, <2>2, <2>3 DEF Settled
<1> QED
  BY <1>1, <1>2, <1>9, OnlySettled DEF NoWriter

LEMMA SegmentsDeletedRight == ASSUME Kept, Right, SegmentsDeleted, Succeeds PROVE Right'
<1>1. /\ pc = "delete" /\ victims = {} /\ wd = NoWriter /\ node \in Nodes
      /\ UNCHANGED <<base, segments, written, cut>>
  BY Idle, TypeParts DEF SegmentsDeleted, swiftVars, Kept
<1>2. /\ Settled /\ DOMAIN segments = {} /\ base.kind = "manifest" /\ written = << >>
      /\ base # Nothing /\ (~cut => IsSuffix(Contents, expected))
  BY <1>1 DEF Right, Settled, NoWriter
<1>3. Contents = << >> /\ Contents' = << >> /\ Len(<< >>) = 0
  BY <1>1, <1>2, ContentsOf, ContentsSame
<1>4. CASE after = "truncate"
  <2>1. /\ node' = [node EXCEPT !.header = NoTime, !.segmented = FALSE, !.bytes = 0, !.writing = TRUE]
        /\ wd' = Writer("base", 0, << >>) /\ expected' = expected /\ pc' = "write"
    BY <1>4 DEF SegmentsDeleted, Reopen
  <2>2. node'.bytes = 0 /\ ~node'.segmented
    BY <1>1, <2>1 DEF Nodes
  <2>3. WritesBase'
    BY <1>1, <1>2, <1>3, <2>1, <2>2 DEF WritesBase, Writer
  <2> QED
    BY <2>1, <2>3 DEF Right, Settled, MovesToSegment, WritesSegment, Writer
<1>5. CASE after = "remove"
  <2>1. pc' = "deletebase" /\ UNCHANGED <<node, wd, expected>>
    BY <1>5 DEF SegmentsDeleted
  <2>2. Settled'
    BY <1>1, <1>2, <1>3, <2>1 DEF Settled, NoWriter
  <2> QED
    BY <1>1, <2>1, <2>2, OnlySettled DEF NoWriter
<1>6. CASE after \in {"cut", "cutopen"}
  <2>1. /\ pc' \in {"closed", "open"} /\ node' = [node EXCEPT !.header = NoTime]
        /\ expected' = << >> /\ wd' = wd
    BY <1>6 DEF SegmentsDeleted
  <2>2. node'.bytes = 0 /\ ~node'.segmented
    BY <1>1, <1>2, <1>6, <2>1 DEF Settled, NoWriter, Nodes
  <2>3. Settled'
    BY <1>1, <1>2, <1>3, <2>1, <2>2 DEF Settled
  <2> QED
    BY <1>1, <2>1, <2>3, OnlySettled DEF NoWriter
<1> QED
  BY <1>4, <1>5, <1>6 DEF SegmentsDeleted

LEMMA SameRight ==
  ASSUME Right, UNCHANGED <<base, segments, node, fh, wd, pc, after, victims, written, expected, cut>>
  PROVE  Right'
<1>1. Contents' = Contents
  BY ContentsSame
<1>2. Settled'
  BY <1>1 DEF Right, Settled, Doomed
<1>3. WritesBase' /\ MovesToSegment' /\ WritesSegment'
  BY <1>1 DEF Right, WritesBase, MovesToSegment, WritesSegment, Segmented
<1> QED
  BY <1>2, <1>3 DEF Right

LEMMA InitRight == Init => Right
<1> SUFFICES ASSUME Init PROVE Right
  OBVIOUS
<1>1. Contents = << >> /\ Len(<< >>) = 0
  BY ContentsOf DEF Init, Nothing
<1>2. ~node.segmented /\ base = Nothing /\ pc = "closed"
  BY DEF Init, Node
<1>3. Settled
  <2>1. DOMAIN segments = {}
    BY DEF Init
  <2> QED
    BY <1>1, <1>2, <2>1 DEF Init, Settled
<1> QED
  BY <1>3 DEF Init, Right, WritesBase, MovesToSegment, WritesSegment, NoWriter

LEMMA EveryRequest == Next => Fails \/ Succeeds
BY DEF Next, Create, Open, Relist, Write, WriteData, CloseSegment, CloseWriter, MoveCopy, MoveDelete,
   CreateManifest, InitSegment, Release, CutToZero, RemoveObject, HeadManifest, DeleteBase,
   ListSegments, DeleteSegment, SegmentsDeleted, TimePasses, Succeeds, swiftVars

LEMMA NextRight ==
  ASSUME Kept, Right, Next, Succeeds
  PROVE  Right'
<1>1. TimePasses => Right'
  BY SameRight DEF TimePasses, swiftVars, handleVars, deleteVars, history
<1> QED
  BY <1>1, CreateRight, OpenRight, RelistRight, WriteRight, WriteDataRight, CloseSegmentRight,
     MoveCopyRight, MoveDeleteRight, CreateManifestRight, InitSegmentRight, ReleaseRight,
     CutToZeroRight, RemoveObjectRight, HeadManifestRight, DeleteBaseRight, ListSegmentsRight,
     DeleteSegmentRight, SegmentsDeletedRight DEF Next
-----------------------------------------------------------------------------
(* How large a segment is, when at most one request failed.                *)
Bounded == SegmentsBounded /\ MoveBounded

LEMMA SegmentsKept ==
  ASSUME Bounded, Kept, faults' \in {faults, faults + 1},
         DOMAIN segments' \subseteq DOMAIN segments,
         \A key \in DOMAIN segments' : segments'[key] = segments[key],
         pc' = "copy" => pc = "copy" /\ UNCHANGED <<base, segments>>
  PROVE  Bounded'
<1>1. faults \in Nat /\ (faults' <= 1 => faults <= 1)
  BY TypeParts DEF Kept, SwiftOK
<1>2. SegmentsBounded'
  BY <1>1 DEF Bounded, SegmentsBounded
<1>3. MoveBounded'
  BY <1>1, ContentsSame DEF Bounded, MoveBounded
<1> QED
  BY <1>2, <1>3 DEF Bounded

LEMMA SegmentStored ==
  ASSUME Bounded, Kept, faults' \in {faults, faults + 1}, faults' <= 1,
         NEW t \in Times, NEW id \in Ids, NEW data \in Data, Len(data) <= SegmentLimit,
         segments' = StoreSegment(t, id, data)
  PROVE  SegmentsBounded'
<1>1. faults \in Nat /\ faults <= 1
  BY TypeParts DEF Kept, SwiftOK
<1>2. /\ DOMAIN segments' = DOMAIN segments \cup {<<t, id>>} /\ segments'[<<t, id>>] = data
      /\ \A key \in DOMAIN segments : key # <<t, id>> => segments'[key] = segments[key]
  BY KeptContents, StoreEffect
<1>3. \A key \in DOMAIN segments : Len(segments[key]) <= SegmentLimit
  BY <1>1 DEF Bounded, SegmentsBounded
<1>4. ASSUME NEW key \in DOMAIN segments' PROVE Len(segments'[key]) <= SegmentLimit
  <2>1. CASE key = <<t, id>>
    BY <1>2, <2>1
  <2>2. CASE key # <<t, id>>
    BY <1>2, <1>3, <2>2
  <2> QED
    BY <2>1, <2>2
<1>5. SegmentLimit' = SegmentLimit
  BY DEF SegmentLimit
<1> QED
  BY <1>4, <1>5 DEF SegmentsBounded

(* A writer that is closed stores no more than a segment.                  *)
LEMMA ClosedBounded ==
  ASSUME Bounded, Kept, CloseWriter, faults' <= 1
  PROVE  SegmentsBounded' /\ faults' \in {faults, faults + 1}
<1>1. faults' \in {faults, faults + 1}
  BY DEF CloseWriter, Fails, Succeeds
<1>2. CASE segments' = segments
  <2>1. faults \in Nat /\ faults <= 1
    BY <1>1, TypeParts DEF Kept, SwiftOK
  <2> QED
    BY <1>1, <1>2, <2>1 DEF Bounded, SegmentsBounded
<1>3. CASE wd.to = "segment" /\ segments' = StoreSegment(fh.segmentPrefix, wd.id, wd.data)
  <2>1. /\ fh.segmentPrefix \in Times /\ wd.id \in Ids /\ wd.data \in Data
        /\ Len(wd.data) <= SegmentLimit
    BY <1>3, TypeParts
       DEF Kept, HandleOK, Handles, Writers, WriterInPlace, Counted, NoTime, Ids
  <2> DEFINE t == fh.segmentPrefix
             id == wd.id
             data == wd.data
  <2>2. t \in Times /\ id \in Ids /\ data \in Data /\ Len(data) <= SegmentLimit
        /\ segments' = StoreSegment(t, id, data)
    BY <1>3, <2>1
  <2> HIDE DEF t, id, data
  <2> QED
    BY <1>1, <2>2, SegmentStored
<1> QED
  BY <1>1, <1>2, <1>3, CloseWriterEffect

LEMMA LimitFits == SegmentSize <= SegmentLimit /\ SegmentLimit \in Nat
BY DEF SegmentLimit

LEMMA CloseSegmentBounded ==
  ASSUME Bounded, Kept, faults = 0 => Right, CloseSegment
  PROVE  Bounded'
<1>1. pc = "close" /\ CloseWriter
  BY DEF CloseSegment
<1> SUFFICES ASSUME faults' <= 1 PROVE Bounded'
  BY DEF Bounded, SegmentsBounded, MoveBounded
<1>2. SegmentsBounded'
  BY <1>1, ClosedBounded
<1>3. ASSUME pc' = "copy" PROVE Len(Contents') <= SegmentLimit
  <2>1. ~fh.wroteSegment
    BY <1>3 DEF CloseSegment
  <2>2. wd.to = "base"
    BY <1>1, <2>1, TypeParts DEF Kept, HandleOK, WriterInPlace, Moving, Writers
  <2>3. Len(wd.data) <= SegmentSize /\ Len(<< >>) = 0
    BY <2>2 DEF Kept, Counted
  <2>4. CASE Put(wd)
    <3>1. Contents' = wd.data
      BY <2>2, <2>4, ContentsOf DEF Put, Plain
    <3>2. Len(wd.data) \in Nat
      BY DataEnds, TypeParts DEF Kept, HandleOK, Writers
    <3> QED
      BY <2>3, <3>1, <3>2, LimitFits
  <2>5. CASE Fails /\ UNCHANGED <<base, segments>>
    <3>1. faults = 0
      BY <2>5, TypeParts DEF Kept, SwiftOK, Fails
    <3>2. DOMAIN segments = {}
      BY <2>2, <3>1 DEF Right, WritesBase
    <3>3. Contents' = Contents
      BY <2>5, ContentsSame
    <3>4. Contents = << >> \/ (base.kind = "plain" /\ Contents = base.data)
      BY <3>2, ContentsOf DEF Kept, BaseShape, Nothing, Plain, Manifest
    <3>5. base.data \in Data /\ (base.kind = "plain" => Len(base.data) <= SegmentSize)
      BY TypeParts DEF Kept, SwiftOK, Bases, Counted
    <3>6. Len(Contents) <= SegmentLimit
      <4>1. CASE Contents = << >>
        BY <2>3, <4>1, LimitFits
      <4>2. CASE base.kind = "plain" /\ Contents = base.data
        <5>1. Len(base.data) \in Nat
          BY <3>5, DataEnds
        <5> QED
          BY <3>5, <4>2, <5>1, LimitFits
      <4> QED
        BY <3>4, <4>1, <4>2
    <3> QED
      BY <3>3, <3>6
  <2> QED
    BY <1>1, <2>4, <2>5 DEF CloseWriter
<1>4. MoveBounded'
  BY <1>3 DEF MoveBounded, SegmentLimit
<1> QED
  BY <1>2, <1>4 DEF Bounded

LEMMA MoveCopyBounded == ASSUME Bounded, Kept, MoveCopy PROVE Bounded'
<1>1. /\ pc = "copy" /\ pc' # "copy" /\ faults' \in {faults, faults + 1}
      /\ segments' = segments \/ segments' = StoreSegment(fh.segmentPrefix, fh.segmentID, Contents)
  BY DEF MoveCopy, Silent, Report, Fails, Succeeds
<1> SUFFICES ASSUME faults' <= 1 PROVE SegmentsBounded'
  BY <1>1 DEF Bounded, SegmentsBounded, MoveBounded
<1>2. CASE segments' = segments
  BY <1>1, <1>2, SegmentsKept DEF Bounded
<1>3. CASE segments' = StoreSegment(fh.segmentPrefix, fh.segmentID, Contents)
  <2> DEFINE t == fh.segmentPrefix
             id == fh.segmentID
             data == Contents
  <2>1. t \in Times /\ id \in Ids
    BY <1>1, TypeParts DEF Kept, HandleOK, Handles, WriterInPlace, Moving, NoTime, Ids
  <2>2. faults <= 1 /\ data \in Data /\ segments' = StoreSegment(t, id, data)
    BY <1>1, <1>3, KeptContents, TypeParts DEF Kept, SwiftOK
  <2>3. Len(data) <= SegmentLimit
    BY <1>1, <2>2 DEF Bounded, MoveBounded
  <2> HIDE DEF t, id, data
  <2> QED
    BY <1>1, <2>1, <2>2, <2>3, SegmentStored
<1> QED
  BY <1>1, <1>2, <1>3

LEMMA ReleaseBounded == ASSUME Bounded, Kept, Release PROVE Bounded'
<1>1. CloseWriter /\ pc' = "closed"
  BY DEF Release
<1> SUFFICES ASSUME faults' <= 1 PROVE SegmentsBounded'
  BY <1>1 DEF Bounded, SegmentsBounded, MoveBounded
<1> QED
  BY <1>1, ClosedBounded

LEMMA DeleteSegmentBounded == ASSUME Bounded, Kept, DeleteSegment PROVE Bounded'
<1>1. PICK id \in victims :
        /\ pc = "delete" /\ (pc' = pc \/ pc' = AfterError)
        /\ faults' \in {faults, faults + 1}
        /\ segments' \in {segments, [key \in DOMAIN segments \ {<<Doomed, id>>} |-> segments[key]]}
  BY DEF DeleteSegment, Fails, Succeeds, Report
<1>2. pc' # "copy"
  BY <1>1 DEF AfterError
<1>3. /\ DOMAIN segments' \subseteq DOMAIN segments
      /\ \A key \in DOMAIN segments' : segments'[key] = segments[key]
  BY <1>1
<1> QED
  BY <1>1, <1>2, <1>3, SegmentsKept

(* The other steps leave the segments alone, and do not start a move.      *)
LEMMA OthersBounded ==
  ASSUME Kept, [Next]_vars,
         ~CloseSegment, ~MoveCopy, ~Release, ~DeleteSegment
  PROVE  /\ segments' = segments
         /\ pc' = "copy" => pc = "copy" /\ base' = base
<1>1. Create \/ Open \/ Relist \/ Write => segments' = segments /\ pc' # "copy"
  BY DEF Create, Open, Relist, Write, swiftVars, handleVars, Report
<1>2. WriteData \/ MoveDelete \/ CreateManifest \/ InitSegment => segments' = segments /\ pc' # "copy"
  BY DEF WriteData, MoveDelete, CreateManifest, InitSegment, Report
<1>3. CutToZero \/ RemoveObject \/ HeadManifest \/ DeleteBase => segments' = segments /\ pc' # "copy"
  BY DEF CutToZero, RemoveObject, HeadManifest, DeleteBase, swiftVars, Report
<1>4. ListSegments => segments' = segments /\ pc' # "copy"
  BY DEF ListSegments, AfterError, Report
<1>5. SegmentsDeleted => segments' = segments /\ pc' # "copy"
  BY DEF SegmentsDeleted, swiftVars
<1>6. TimePasses \/ UNCHANGED vars => segments' = segments /\ pc' = pc /\ base' = base
  BY DEF TimePasses, swiftVars, vars
<1> QED
  BY <1>1, <1>2, <1>3, <1>4, <1>5, <1>6 DEF Next

LEMMA NextBounded ==
  ASSUME Bounded, Kept, faults = 0 => Right, [Next]_vars
  PROVE  Bounded'
<1>1. CASE CloseSegment \/ MoveCopy \/ Release \/ DeleteSegment
  BY <1>1, CloseSegmentBounded, MoveCopyBounded, ReleaseBounded, DeleteSegmentBounded
<1>2. CASE ~CloseSegment /\ ~MoveCopy /\ ~Release /\ ~DeleteSegment
  <2>1. segments' = segments /\ (pc' = "copy" => pc = "copy" /\ base' = base)
    BY <1>2, OthersBounded
  <2>2. faults' \in {faults, faults + 1}
    BY EveryRequest DEF Fails, Succeeds, vars, swiftVars
  <2> QED
    BY <2>1, <2>2, SegmentsKept
<1> QED
  BY <1>1, <1>2

-----------------------------------------------------------------------------
(* The invariant.                                                          *)
LEMMA InvariantParts ==
  /\ Kept /\ (faults = 0 => Right) /\ Bounded => HandleInvariant
  /\ Kept /\ HandleInvariant => (faults = 0 => Right) /\ Bounded
BY DEF HandleInvariant, Kept, Right, Bounded

LEMMA NextInvariant ==
  ASSUME Kept, faults = 0 => Right, Bounded, [Next]_vars
  PROVE  Kept' /\ (faults' = 0 => Right') /\ Bounded'
<1>1. Kept' /\ Bounded'
  BY NextKept, NextBounded
<1>2. ASSUME faults' = 0 PROVE Right'
  <2>1. CASE UNCHANGED vars
    BY <1>2, <2>1, SameRight DEF vars, swiftVars, handleVars, deleteVars, history
  <2>2. CASE Next
    <3>1. faults = 0 /\ Succeeds
      BY <1>2, <2>2, EveryRequest, TypeParts DEF Kept, SwiftOK, Fails, Succeeds
    <3> QED
      BY <2>2, <3>1, NextRight
  <2> QED
    BY <2>1, <2>2
<1> QED
  BY <1>1, <1>2

LEMMA AllHolds == Spec => [](Kept /\ HandleInvariant)
<1> DEFINE I == Kept /\ (faults = 0 => Right) /\ Bounded
<1>1. Init => I
  <2> SUFFICES ASSUME Init PROVE I
    OBVIOUS
  <2>1. DOMAIN segments = {} /\ pc = "closed"
    BY DEF Init
  <2>2. Bounded
    BY <2>1 DEF Bounded, SegmentsBounded, MoveBounded
  <2> QED
    BY <2>2, InitKept, InitRight
<1>2. I /\ [Next]_vars => I'
  BY NextInvariant
<1>3. I => Kept /\ HandleInvariant
  BY InvariantParts
<1> HIDE DEF I
<1> QED
  BY <1>1, <1>2, <1>3, PTL DEF Spec

(* The inductive invariant: where the data of a handle go, whatever fails; *)
(* what is stored at each step of a write, a truncation and a removal if   *)
(* nothing failed; and the size of what is moved into a segment.           *)
THEOREM HandleInvariantHolds == Spec => []HandleInvariant
<1>1. Kept /\ HandleInvariant => HandleInvariant
  OBVIOUS
<1> QED
  BY <1>1, AllHolds, PTL

(* A file that is closed holds what was last written to it, over however   *)
(* many segments, and nothing else.                                        *)
THEOREM ReadBackHolds == Spec => []ReadBack
<1>1. Kept /\ HandleInvariant => ReadBack
  BY Idle, InvariantParts DEF ReadBack, Closed, Right, Settled, NoWriter
<1> QED
  BY <1>1, AllHolds, PTL

(* No segments are left behind in the segment container.                   *)
THEOREM NoOrphansHolds == Spec => []NoOrphans
<1>1. Kept /\ HandleInvariant => NoOrphans
  BY Idle, InvariantParts DEF NoOrphans, Right, Settled, NoWriter
<1> QED
  BY <1>1, AllHolds, PTL

(* The size that Attr reports is the size of what is stored.               *)
THEOREM SizeIsStoredHolds == Spec => []SizeIsStored
<1>1. Kept /\ HandleInvariant => SizeIsStored
  BY Idle, InvariantParts DEF SizeIsStored, Closed, Right, Settled, NoWriter
<1> QED
  BY <1>1, AllHolds, PTL

(* Whenever svfs is killed, a reader finds an end of the old contents or a *)
(* beginning of the new ones, and never a mixture.                         *)
THEOREM CrashLeavesOneVersionHolds == Spec => []CrashLeavesOneVersion
<1>1. ASSUME Kept, HandleInvariant, ~cut, faults = 0
      PROVE  IsSuffix(Contents, expected) \/ IsPrefix(Contents, written)
  <2>1. Right /\ wd.to \in {"none", "spent", "base", "segment"}
    BY <1>1, InvariantParts, TypeParts DEF Kept, HandleOK, Writers
  <2>2. /\ Contents \in Data /\ written \in Data /\ expected \in Data /\ wd.data \in Data
        /\ IsSuffix(expected, expected) /\ IsSuffix(<< >>, expected)
    BY <1>1, KeptContents, DataEnds, TypeParts DEF Kept, HistoryOK, HandleOK, Writers
  <2>3. IsPrefix(written, written)
    <3>1. written \o << >> = written /\ << >> \in Data
      BY <2>2, DataConcat
    <3>2. IsPrefix(written, written \o << >>)
      BY <2>2, <3>1, DataEnds
    <3> QED
      BY <3>1, <3>2
  <2>4. CASE wd.to = "none"
    BY <1>1, <2>1, <2>2, <2>4 DEF Right, Settled
  <2>5. CASE wd.to = "base"
    BY <1>1, <2>1, <2>5 DEF Right, WritesBase
  <2>6. CASE wd.to = "spent"
    <3>1. pc \in {"copy", "movedelete", "manifest", "segment"}
      BY <1>1, <2>1, <2>6 DEF Right, MovesToSegment, Kept, WriterInPlace, Moving
    <3>2. Contents = written \/ Contents = << >>
      BY <2>1, <2>6, <3>1, ContentsOf DEF Right, MovesToSegment, Plain, Nothing
    <3> QED
      BY <2>2, <2>3, <3>2
  <2>7. CASE wd.to = "segment"
    <3>1. written = Contents \o wd.data
      BY <2>1, <2>7 DEF Right, WritesSegment
    <3>2. IsPrefix(Contents, Contents \o wd.data)
      BY <2>2, DataEnds
    <3> QED
      BY <3>1, <3>2
  <2> QED
    BY <2>1, <2>4, <2>5, <2>6, <2>7
<1>2. Kept /\ HandleInvariant => CrashLeavesOneVersion
  BY <1>1 DEF CrashLeavesOneVersion
<1> QED
  BY <1>2, AllHolds, PTL

(* No segment is larger than the segment size, or the one write in it,     *)
(* unless two requests have failed.                                        *)
THEOREM SegmentsBoundedHolds == Spec => []SegmentsBounded
<1>1. Kept /\ HandleInvariant => SegmentsBounded
  BY DEF HandleInvariant
<1> QED
  BY <1>1, AllHolds, PTL
=============================================================================
