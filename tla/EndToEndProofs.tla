--------------------------- MODULE EndToEndProofs ---------------------------
(***************************************************************************)
(* What EndToEnd does when a fragment is added, or a fragment grows.       *)
(*                                                                         *)
(* The places of the units of a file are a finite set, and each fragment   *)
(* starts where the one before it ends (Starts); so every number up to the *)
(* number of units is that of exactly one place (Positions), and EndToEnd  *)
(* is the sequence of all the units (EndToEndUnits).  A copy under way is  *)
(* described by Placed: every unit it has is where it is in the source.    *)
(***************************************************************************)
EXTENDS EndToEnd, FiniteSetTheorems, TLAPS

-----------------------------------------------------------------------------
(* Fragments, end to end. *)

\* The interval up to n has n elements, and so has one fragment of n units.
LEMMA IntervalSize == \A n \in Nat : IsFiniteSet(1 .. n) /\ Cardinality(1 .. n) = n
<1>1. TAKE n \in Nat
<1>2. IsFiniteSet(1 .. n) /\ Cardinality(1 .. n) = IF 1 > n THEN 0 ELSE n - 1 + 1
  BY FS_Interval
<1>3. QED BY <1>2

\* The places of one fragment are as many as its units.
LEMMA OneFragment ==
  ASSUME NEW S, NEW s \in Seq(S), NEW k
  PROVE  IsFiniteSet({k} \X DOMAIN s) /\ Cardinality({k} \X DOMAIN s) = Len(s)
<1>1. DOMAIN s = 1 .. Len(s) /\ Len(s) \in Nat
  OBVIOUS
<1>2. IsFiniteSet(DOMAIN s) /\ Cardinality(DOMAIN s) = Len(s)
  BY <1>1, IntervalSize
<1>3. IsFiniteSet({k}) /\ Cardinality({k}) = 1
  BY FS_Singleton
<1>4. IsFiniteSet({k} \X DOMAIN s) /\ Cardinality({k} \X DOMAIN s) = 1 * Len(s)
  BY <1>2, <1>3, FS_Product
<1>5. \A n \in Nat : 1 * n = n
  OBVIOUS
<1>6. QED BY <1>1, <1>4, <1>5, Zenon

\* What is below a number is below or at the number before it.
LEMMA NextAtMost == \A a, b \in Int : a < b => a + 1 \in Int /\ a + 1 <= b
  OBVIOUS

\* A file of fragments has finitely many units.
LEMMA PlacesFinite ==
  ASSUME NEW S, NEW ss \in Seq(Seq(S))
  PROVE  /\ IsFiniteSet(Places(ss)) /\ Cardinality(Places(ss)) \in Nat
         /\ \A p : p \in Places(ss) <=>
               \E k \in DOMAIN ss : \E i \in DOMAIN ss[k] : p = <<k, i>>
<1>1. IsFiniteSet(DOMAIN ss)
  <2>1. DOMAIN ss = 1 .. Len(ss) /\ Len(ss) \in Nat
    OBVIOUS
  <2>2. QED BY <2>1, IntervalSize
<1>2. \A k \in DOMAIN ss : IsFiniteSet({k} \X DOMAIN ss[k])
  <2>1. \A k \in DOMAIN ss : ss[k] \in Seq(S)
    OBVIOUS
  <2>2. QED BY <2>1, OneFragment
<1> DEFINE T == {{k} \X DOMAIN ss[k] : k \in DOMAIN ss}
<1>3. IsFiniteSet(T)
  <2> DEFINE f == [k \in DOMAIN ss |-> {k} \X DOMAIN ss[k]]
  <2>1. f \in Surjection(DOMAIN ss, T)
    BY DEF Surjection
  <2>2. QED BY <1>1, <2>1, FS_Surjection
<1>4. IsFiniteSet(UNION T)
  BY <1>2, <1>3, FS_UNION
<1>5. \A p : p \in Places(ss) <=> \E k \in DOMAIN ss : \E i \in DOMAIN ss[k] : p = <<k, i>>
  BY DEF Places
<1>6. QED BY <1>4, <1>5, FS_CardinalityType DEF Places

\* Where each fragment starts: after the one before it.
LEMMA Starts ==
  ASSUME NEW S, NEW ss \in Seq(Seq(S))
  PROVE  /\ \A k : StartOf(ss, k) \in Nat
         /\ StartOf(ss, 1) = 0 /\ StartOf(ss, Len(ss) + 1) = Cardinality(Places(ss))
         /\ \A k \in DOMAIN ss : StartOf(ss, k + 1) = StartOf(ss, k) + Len(ss[k])
         /\ \A j, k \in Int : j <= k => StartOf(ss, j) <= StartOf(ss, k)
         /\ \A k : StartOf(ss, k) <= Cardinality(Places(ss))
<1> DEFINE Before(k) == {p \in Places(ss) : p[1] < k}
<1>1. \A k : /\ Before(k) \subseteq Places(ss) /\ IsFiniteSet(Before(k))
             /\ Cardinality(Before(k)) \in Nat
             /\ Cardinality(Before(k)) <= Cardinality(Places(ss))
  <2>1. TAKE k
  <2>2. Before(k) \in SUBSET Places(ss)
    OBVIOUS
  <2> HIDE DEF Before
  <2>3. QED BY <2>2, PlacesFinite, FS_Subset, FS_CardinalityType
<1>2. \A p \in Places(ss) : p[1] \in 1 .. Len(ss)
  BY PlacesFinite
<1>3. Before(1) = {} /\ Before(Len(ss) + 1) = Places(ss)
  BY <1>2
<1>4. ASSUME NEW k \in DOMAIN ss
      PROVE  Cardinality(Before(k + 1)) = Cardinality(Before(k)) + Len(ss[k])
  <2> DEFINE A == {k} \X DOMAIN ss[k]
  <2>1. k \in Int /\ ss[k] \in Seq(S)
    OBVIOUS
  <2>2. IsFiniteSet(A) /\ Cardinality(A) = Len(ss[k])
    BY <2>1, OneFragment
  <2>3. Before(k + 1) = Before(k) \cup A
    <3>1. \A p \in Places(ss) : p[1] < k + 1 <=> p[1] < k \/ p[1] = k
      BY <1>2, <2>1
    <3>2. \A p : p \in Places(ss) /\ p[1] = k <=> p \in A
      BY PlacesFinite
    <3>3. QED BY <3>1, <3>2
  <2>4. Before(k) \cap A = {}
    BY <2>1
  <2>5. Before(k) \subseteq Places(ss) /\ IsFiniteSet(Before(k))
        /\ Cardinality(Before(k)) \in Nat
    BY <1>1
  <2> HIDE DEF Before, A
  <2>6. Cardinality(Before(k) \cup A)
           = Cardinality(Before(k)) + Cardinality(A) - Cardinality(Before(k) \cap A)
    BY <2>2, <2>5, FS_Union
  <2>7. Cardinality(Before(k) \cap A) = 0
    BY <2>4, FS_EmptySet
  <2>8. Len(ss[k]) \in Nat
    BY <2>1
  <2>9. Cardinality(Before(k + 1)) = Cardinality(Before(k) \cup A)
    BY <2>3, Zenon
  <2>10. Cardinality(Before(k) \cup A) = Cardinality(Before(k)) + Len(ss[k])
    BY <2>2, <2>5, <2>6, <2>7, <2>8
  <2>11. QED BY <2>9, <2>10, Zenon
<1>5. ASSUME NEW j \in Int, NEW k \in Int, j <= k
      PROVE  Cardinality(Before(j)) <= Cardinality(Before(k))
  <2>1. Before(j) \in SUBSET Before(k)
    BY <1>2, <1>5
  <2>2. IsFiniteSet(Before(k))
    BY <1>1
  <2> HIDE DEF Before
  <2>3. QED BY <2>1, <2>2, FS_Subset
<1>6. \A k : StartOf(ss, k) = Cardinality(Before(k))
  BY DEF StartOf
<1>7. StartOf(ss, 1) = 0 /\ StartOf(ss, Len(ss) + 1) = Cardinality(Places(ss))
  BY <1>3, <1>6, FS_EmptySet
<1>8. (\A k : StartOf(ss, k) \in Nat) /\ \A k : StartOf(ss, k) <= Cardinality(Places(ss))
  BY <1>1, <1>6
<1> HIDE DEF Before
<1>9. \A k \in DOMAIN ss : StartOf(ss, k + 1) = StartOf(ss, k) + Len(ss[k])
  BY <1>4, <1>6
<1>10. \A j, k \in Int : j <= k => StartOf(ss, j) <= StartOf(ss, k)
  BY <1>5, <1>6
<1>11. QED BY <1>7, <1>8, <1>9, <1>10

\* Each number up to the length of the file is the position of one unit.
LEMMA Positions ==
  ASSUME NEW S, NEW ss \in Seq(Seq(S))
  PROVE  /\ \A k \in DOMAIN ss : \A i \in DOMAIN ss[k] :
               /\ <<k, i>> \in Places(ss)
               /\ StartOf(ss, k) + i \in 1 .. Cardinality(Places(ss))
         /\ \A p, q \in Places(ss) : StartOf(ss, p[1]) + p[2] = StartOf(ss, q[1]) + q[2] => p = q
         /\ \A n \in 1 .. Cardinality(Places(ss)) :
               \E p \in Places(ss) : StartOf(ss, p[1]) + p[2] = n
<1>1. ASSUME NEW k \in DOMAIN ss, NEW i \in DOMAIN ss[k]
      PROVE  /\ k \in Int /\ i \in Int /\ i >= 1 /\ StartOf(ss, k) \in Nat
             /\ StartOf(ss, k) + i <= StartOf(ss, k + 1)
             /\ StartOf(ss, k) + i \in 1 .. Cardinality(Places(ss))
             /\ <<k, i>> \in Places(ss)
  <2>1. ss[k] \in Seq(S) /\ i \in 1 .. Len(ss[k]) /\ Len(ss[k]) \in Nat /\ k \in Int
    OBVIOUS
  <2>2. /\ StartOf(ss, k) \in Nat /\ StartOf(ss, k + 1) = StartOf(ss, k) + Len(ss[k])
        /\ StartOf(ss, k + 1) <= Cardinality(Places(ss)) /\ Cardinality(Places(ss)) \in Nat
    BY Starts, PlacesFinite
  <2>3. <<k, i>> \in Places(ss)
    BY PlacesFinite
  <2>4. QED BY <2>1, <2>2, <2>3
<1>2. ASSUME NEW p \in Places(ss), NEW q \in Places(ss),
             StartOf(ss, p[1]) + p[2] = StartOf(ss, q[1]) + q[2]
      PROVE  p = q
  <2>1. PICK k \in DOMAIN ss : \E i \in DOMAIN ss[k] : p = <<k, i>>
    BY PlacesFinite
  <2>2. PICK l \in DOMAIN ss : \E j \in DOMAIN ss[l] : q = <<l, j>>
    BY PlacesFinite
  <2>i. PICK i \in DOMAIN ss[k] : p = <<k, i>>
    BY <2>1
  <2>j. PICK j \in DOMAIN ss[l] : q = <<l, j>>
    BY <2>2
  <2>3. StartOf(ss, k) + i = StartOf(ss, l) + j
    BY <1>2, <2>i, <2>j
  <2>4. /\ k \in Int /\ i \in Int /\ i >= 1 /\ StartOf(ss, k) \in Nat
        /\ StartOf(ss, k) + i <= StartOf(ss, k + 1)
    BY <1>1
  <2>5. /\ l \in Int /\ j \in Int /\ j >= 1 /\ StartOf(ss, l) \in Nat
        /\ StartOf(ss, l) + j <= StartOf(ss, l + 1)
    BY <1>1
  <2>6. StartOf(ss, k + 1) \in Nat /\ StartOf(ss, l + 1) \in Nat
    BY Starts
  <2>7. ~(k < l)
    <3>1. SUFFICES ASSUME k < l PROVE FALSE
      OBVIOUS
    <3>2. k + 1 \in Int /\ k + 1 <= l /\ l \in Int
      BY <2>4, <2>5, <3>1, NextAtMost
    <3>3. StartOf(ss, k + 1) <= StartOf(ss, l)
      BY <3>2, Starts
    <3> DEFINE u == StartOf(ss, k + 1)
    <3>4. u \in Nat /\ StartOf(ss, k) + i <= u /\ u <= StartOf(ss, l)
      BY <2>4, <2>5, <2>6, <3>3
    <3> HIDE DEF u
    <3>5. QED BY <2>3, <2>4, <2>5, <3>4
  <2>8. ~(l < k)
    <3>1. SUFFICES ASSUME l < k PROVE FALSE
      OBVIOUS
    <3>2. l + 1 \in Int /\ l + 1 <= k /\ k \in Int
      BY <2>4, <2>5, <3>1, NextAtMost
    <3>3. StartOf(ss, l + 1) <= StartOf(ss, k)
      BY <3>2, Starts
    <3> DEFINE u == StartOf(ss, l + 1)
    <3>4. u \in Nat /\ StartOf(ss, l) + j <= u /\ u <= StartOf(ss, k)
      BY <2>4, <2>5, <2>6, <3>3
    <3> HIDE DEF u
    <3>5. QED BY <2>3, <2>4, <2>5, <3>4
  <2>9. k = l
    BY <2>4, <2>5, <2>7, <2>8
  <2>10. i = j
    BY <2>3, <2>4, <2>5, <2>9
  <2>11. QED BY <2>i, <2>j, <2>9, <2>10
<1>3. ASSUME NEW n \in 1 .. Cardinality(Places(ss))
      PROVE  \E p \in Places(ss) : StartOf(ss, p[1]) + p[2] = n
  <2> DEFINE T == 1 .. Cardinality(Places(ss))
             f == [p \in Places(ss) |-> StartOf(ss, p[1]) + p[2]]
  <2>1. f \in Injection(Places(ss), T)
    <3>1. \A p \in Places(ss) : f[p] \in T
      BY <1>1, PlacesFinite
    <3>2. \A p, q \in Places(ss) : f[p] = f[q] => p = q
      BY <1>2
    <3>3. QED BY <3>1, <3>2 DEF Injection, IsInjective
  <2>2. IsFiniteSet(T) /\ Cardinality(T) = Cardinality(Places(ss))
    BY PlacesFinite, FS_Interval
  <2> HIDE DEF f, T
  <2>3. f \in Surjection(Places(ss), T)
    BY <2>1, <2>2, FS_Injection
  <2>4. n \in T
    BY DEF T
  <2>5. PICK p \in Places(ss) : f[p] = n
    BY <2>3, <2>4 DEF Surjection
  <2>6. QED BY <2>5 DEF f
<1>4. QED BY <1>1, <1>2, <1>3

\* The units of a file of fragments, end to end.
LEMMA EndToEndUnits ==
  ASSUME NEW S, NEW ss \in Seq(Seq(S))
  PROVE  /\ EndToEnd(ss) \in Seq(S) /\ Len(EndToEnd(ss)) = Cardinality(Places(ss))
         /\ \A k \in DOMAIN ss : \A i \in DOMAIN ss[k] :
               EndToEnd(ss)[StartOf(ss, k) + i] = ss[k][i]
         /\ \A n \in 1 .. Len(EndToEnd(ss)) :
               \E p \in Places(ss) :
                   StartOf(ss, p[1]) + p[2] = n /\ EndToEnd(ss)[n] = ss[p[1]][p[2]]
<1> DEFINE At(n) == CHOOSE p \in Places(ss) : StartOf(ss, p[1]) + p[2] = n
           c == Cardinality(Places(ss))
<1>1. c \in Nat
  BY PlacesFinite
<1>2. \A n \in 1 .. c : At(n) \in Places(ss) /\ StartOf(ss, At(n)[1]) + At(n)[2] = n
  BY Positions
<1>3. EndToEnd(ss) = [n \in 1 .. c |-> ss[At(n)[1]][At(n)[2]]]
  BY DEF EndToEnd
<1>4. \A p \in Places(ss) : p[1] \in DOMAIN ss /\ p[2] \in DOMAIN ss[p[1]]
  BY PlacesFinite
<1>5. \A p \in Places(ss) : ss[p[1]][p[2]] \in S
  <2>1. TAKE p \in Places(ss)
  <2>2. ss[p[1]] \in Seq(S)
    BY <1>4
  <2>3. QED BY <1>4, <2>2
<1>6. ASSUME NEW k \in DOMAIN ss, NEW i \in DOMAIN ss[k]
      PROVE  EndToEnd(ss)[StartOf(ss, k) + i] = ss[k][i]
  <2>1. StartOf(ss, k) + i \in 1 .. c /\ <<k, i>> \in Places(ss)
    BY Positions
  <2>2. At(StartOf(ss, k) + i) = <<k, i>>
    <3>1. StartOf(ss, At(StartOf(ss, k) + i)[1]) + At(StartOf(ss, k) + i)[2] = StartOf(ss, k) + i
          /\ At(StartOf(ss, k) + i) \in Places(ss)
      BY <1>2, <2>1
    <3>2. <<k, i>>[1] = k /\ <<k, i>>[2] = i
      OBVIOUS
    <3> HIDE DEF At
    <3>3. QED BY <2>1, <3>1, <3>2, Positions
  <2> HIDE DEF At, c
  <2>3. QED BY <1>3, <2>1, <2>2
<1> HIDE DEF At, c
<1>7. EndToEnd(ss) \in [1 .. c -> S]
  BY <1>2, <1>3, <1>5
<1>8. EndToEnd(ss) \in Seq(S) /\ Len(EndToEnd(ss)) = c
  BY <1>1, <1>7
<1>9. \A n \in 1 .. c : /\ At(n) \in Places(ss) /\ StartOf(ss, At(n)[1]) + At(n)[2] = n
                        /\ EndToEnd(ss)[n] = ss[At(n)[1]][At(n)[2]]
  BY <1>2, <1>3
<1>10. QED BY <1>6, <1>8, <1>9 DEF c

\* Without fragments there is no content.
LEMMA NoFragments == EndToEnd(<< >>) = << >>
<1>1. << >> \in Seq(Seq(Int))
  OBVIOUS
<1>2. EndToEnd(<< >>) \in Seq(Int) /\ Len(EndToEnd(<< >>)) = Cardinality(Places(<< >>))
  BY <1>1, EndToEndUnits
<1>3. Cardinality(Places(<< >>)) = 0
  <2>1. Places(<< >>) = {} /\ Cardinality({}) = 0
    BY FS_EmptySet DEF Places
  <2>2. QED BY <2>1
<1>4. QED BY <1>2, <1>3

\* Two files that agree on all but the last fragment of the first, which the second
\* has too, have each of those fragments at the same place.
LEMMA StartsAgree ==
  ASSUME NEW S, NEW ss \in Seq(Seq(S)), NEW tt \in Seq(Seq(S)),
         NEW m \in Nat, m <= Len(ss), m <= Len(tt), \A k \in 1 .. m : Len(ss[k]) = Len(tt[k])
  PROVE  \A k \in 1 .. m + 1 : StartOf(tt, k) = StartOf(ss, k)
<1>1. TAKE k \in 1 .. m + 1
<1>2. \A j \in Int : j < k => (j \in DOMAIN ss <=> j \in DOMAIN tt)
                              /\ (j \in DOMAIN ss => DOMAIN ss[j] = DOMAIN tt[j])
  <2>1. \A j \in 1 .. m : ss[j] \in Seq(S) /\ tt[j] \in Seq(S)
    OBVIOUS
  <2>2. QED BY <2>1
<1>3. \A p : p \in Places(ss) /\ p[1] < k <=> p \in Places(tt) /\ p[1] < k
  <2>1. ASSUME NEW p, p \in Places(ss), p[1] < k PROVE p \in Places(tt)
    BY <1>2, <2>1, PlacesFinite
  <2>2. ASSUME NEW p, p \in Places(tt), p[1] < k PROVE p \in Places(ss)
    BY <1>2, <2>2, PlacesFinite
  <2>3. QED BY <2>1, <2>2
<1>4. QED BY <1>3 DEF StartOf

\* An empty fragment at the end adds nothing.
LEMMA EmptyFragment ==
  ASSUME NEW S, NEW ss \in Seq(Seq(S))
  PROVE  /\ Places(Append(ss, << >>)) = Places(ss)
         /\ \A k : StartOf(Append(ss, << >>), k) = StartOf(ss, k)
         /\ \A p \in Places(ss) : Append(ss, << >>)[p[1]] = ss[p[1]]
<1> DEFINE tt == Append(ss, << >>)
<1>1. << >> \in Seq(S) /\ DOMAIN << >> = {}
  OBVIOUS
<1>2. /\ tt \in Seq(Seq(S)) /\ DOMAIN tt = DOMAIN ss \cup {Len(ss) + 1}
      /\ tt[Len(ss) + 1] = << >> /\ \A k \in DOMAIN ss : tt[k] = ss[k]
  BY <1>1
<1> HIDE DEF tt
<1>3. \A p : p \in Places(tt) <=> p \in Places(ss)
  <2>1. TAKE p
  <2>2. p \in Places(tt) <=> \E k \in DOMAIN tt : \E i \in DOMAIN tt[k] : p = <<k, i>>
    BY <1>2, PlacesFinite
  <2>3. p \in Places(ss) <=> \E k \in DOMAIN ss : \E i \in DOMAIN ss[k] : p = <<k, i>>
    BY PlacesFinite
  <2>4. QED BY <1>1, <1>2, <2>2, <2>3
<1>4. Places(tt) = Places(ss)
  BY <1>3
<1>5. \A p \in Places(ss) : p[1] \in DOMAIN ss
  BY PlacesFinite
<1>6. QED BY <1>2, <1>4, <1>5 DEF StartOf, tt

\* out is a beginning of the source src: as many units as it holds, in their places.
Placed(src, out) ==
    /\ Cardinality(Places(out)) <= Len(src)
    /\ \A p \in Places(out) : out[p[1]][p[2]] = src[StartOf(out, p[1]) + p[2]]

\* A file that is in place is, end to end, the beginning of its source.
LEMMA PlacedPrefix ==
  ASSUME NEW S, NEW T, NEW src \in Seq(T), NEW out \in Seq(Seq(S)), Placed(src, out)
  PROVE  EndToEnd(out) = SubSeq(src, 1, Cardinality(Places(out)))
<1> DEFINE c == Cardinality(Places(out))
<1>1. /\ EndToEnd(out) \in Seq(S) /\ Len(EndToEnd(out)) = c /\ c \in Nat
      /\ \A n \in 1 .. c : \E p \in Places(out) :
             StartOf(out, p[1]) + p[2] = n /\ EndToEnd(out)[n] = out[p[1]][p[2]]
  BY EndToEndUnits, PlacesFinite
<1>2. c <= Len(src) /\ Len(src) \in Nat
  BY DEF Placed
<1>3. \A n \in 1 .. c : EndToEnd(out)[n] = src[n]
  BY <1>1 DEF Placed
<1> HIDE DEF c
<1>4. /\ SubSeq(src, 1, c) \in Seq(T) /\ Len(SubSeq(src, 1, c)) = c
      /\ \A n \in 1 .. c : SubSeq(src, 1, c)[n] = src[n]
  BY <1>1, <1>2
<1>5. EndToEnd(out) = [n \in 1 .. c |-> src[n]]
  BY <1>1, <1>3
<1>6. SubSeq(src, 1, c) = [n \in 1 .. c |-> src[n]]
  BY <1>1, <1>4
<1>7. QED BY <1>5, <1>6 DEF c

\* Nothing is in place, and an empty fragment more leaves what is in place there.
LEMMA PlacedEmpty ==
  ASSUME NEW T, NEW src \in Seq(T)
  PROVE  /\ Places(<< >>) = {} /\ Cardinality(Places(<< >>)) = 0 /\ Placed(src, << >>)
         /\ \A S : \A out \in Seq(Seq(S)) : Placed(src, out) => Placed(src, Append(out, << >>))
<1>1. Places(<< >>) = {}
  BY DEF Places
<1>2. Placed(src, << >>) /\ Cardinality(Places(<< >>)) = 0
  <2>1. Cardinality(Places(<< >>)) = 0
    BY <1>1, FS_EmptySet, Zenon
  <2>2. 0 <= Len(src)
    OBVIOUS
  <2>3. QED BY <1>1, <2>1, <2>2 DEF Placed
<1>3. ASSUME NEW S, NEW out \in Seq(Seq(S)), Placed(src, out)
      PROVE  Placed(src, Append(out, << >>))
  <2>1. /\ Places(Append(out, << >>)) = Places(out)
        /\ \A k : StartOf(Append(out, << >>), k) = StartOf(out, k)
        /\ \A p \in Places(out) : Append(out, << >>)[p[1]] = out[p[1]]
    BY EmptyFragment
  <2>2. QED BY <1>3, <2>1 DEF Placed
<1>4. QED BY <1>1, <1>2, <1>3

\* new is out with n units more in fragment m, those that follow in src.  The fragments
\* after it are empty.
Extends(src, out, new, m, n) ==
    /\ m \in DOMAIN out /\ Len(new) = Len(out)
    /\ \A k \in DOMAIN out : k # m => new[k] = out[k]
    /\ \A k \in DOMAIN out : k > m => out[k] = << >>
    /\ Len(new[m]) = Len(out[m]) + n
    /\ \A i \in 1 .. Len(out[m]) : new[m][i] = out[m][i]
    /\ \A i \in 1 .. n : new[m][Len(out[m]) + i] = src[Cardinality(Places(out)) + i]
    /\ Cardinality(Places(out)) + n <= Len(src)

\* Where empty fragments start, all units are counted.
LEMMA EmptyAfter ==
  ASSUME NEW S, NEW ss \in Seq(Seq(S)), NEW m \in DOMAIN ss,
         \A k \in DOMAIN ss : k > m => ss[k] = << >>
  PROVE  Cardinality(Places(ss)) = StartOf(ss, m) + Len(ss[m])
<1>1. m \in Int /\ DOMAIN ss \subseteq Int
  OBVIOUS
<1>2. ASSUME NEW p \in Places(ss) PROVE p[1] < m + 1
  <2>1. PICK k \in DOMAIN ss : \E i \in DOMAIN ss[k] : p = <<k, i>>
    BY PlacesFinite
  <2>2. ss[k] # << >>
    BY <2>1
  <2>3. k \in Int /\ ~(k > m)
    BY <1>1, <2>2
  <2>4. QED BY <1>1, <2>1, <2>3
<1>3. {p \in Places(ss) : p[1] < m + 1} = Places(ss)
  BY <1>2
<1>4. StartOf(ss, m + 1) = Cardinality(Places(ss))
  BY <1>3 DEF StartOf
<1>5. StartOf(ss, m + 1) = StartOf(ss, m) + Len(ss[m])
  BY Starts
<1>6. QED BY <1>4, <1>5

\* The units that follow in the source, added behind all that is there, are in place.
LEMMA PlacedMore ==
  ASSUME NEW S, NEW T, NEW src \in Seq(T), NEW out \in Seq(Seq(S)), NEW new \in Seq(Seq(S)),
         NEW m \in Nat, NEW n \in Nat, Placed(src, out), Extends(src, out, new, m, n)
  PROVE  /\ Placed(src, new)
         /\ Cardinality(Places(new)) = Cardinality(Places(out)) + n
<1> SUFFICES ASSUME m \in DOMAIN out, Len(new) = Len(out),
                    \A k \in DOMAIN out : k # m => new[k] = out[k],
                    \A k \in DOMAIN out : k > m => out[k] = << >>,
                    Len(new[m]) = Len(out[m]) + n,
                    \A i \in 1 .. Len(out[m]) : new[m][i] = out[m][i],
                    \A i \in 1 .. n : new[m][Len(out[m]) + i] = src[Cardinality(Places(out)) + i],
                    Cardinality(Places(out)) + n <= Len(src)
             PROVE  /\ Placed(src, new)
                    /\ Cardinality(Places(new)) = Cardinality(Places(out)) + n
  BY DEF Extends
<1> DEFINE c == Cardinality(Places(out))  l == Len(out[m])
<1>1. /\ DOMAIN new = DOMAIN out /\ m \in DOMAIN new /\ out[m] \in Seq(S) /\ new[m] \in Seq(S)
      /\ l \in Nat /\ m - 1 \in Nat /\ m - 1 <= Len(out) /\ m - 1 <= Len(new)
      /\ (m - 1) + 1 = m
  OBVIOUS
<1>2. \A k \in 1 .. m : StartOf(new, k) = StartOf(out, k)
  <2>1. \A k \in 1 .. m - 1 : Len(out[k]) = Len(new[k])
    <3>1. \A k \in 1 .. m - 1 : k \in DOMAIN out /\ k # m
      BY <1>1
    <3>2. QED BY <3>1
  <2>2. \A k \in 1 .. (m - 1) + 1 : StartOf(new, k) = StartOf(out, k)
    BY <1>1, <2>1, StartsAgree
  <2>3. QED BY <1>1, <2>2
<1>3. /\ StartOf(out, m) \in Nat /\ c = StartOf(out, m) + l
      /\ Cardinality(Places(new)) = StartOf(new, m) + Len(new[m])
  <2>1. \A k \in DOMAIN new : k > m => new[k] = << >>
    BY <1>1
  <2>2. StartOf(out, m) \in Nat
    BY Starts
  <2>3. c = StartOf(out, m) + l
    BY EmptyAfter
  <2>4. Cardinality(Places(new)) = StartOf(new, m) + Len(new[m])
    BY <1>1, <2>1, EmptyAfter
  <2>5. QED BY <2>2, <2>3, <2>4
<1>4. Cardinality(Places(new)) = c + n
  <2>1. StartOf(new, m) = StartOf(out, m)
    BY <1>1, <1>2
  <2>2. QED BY <1>1, <1>3, <2>1
<1>5. ASSUME NEW p \in Places(new)
      PROVE  new[p[1]][p[2]] = src[StartOf(new, p[1]) + p[2]]
  <2>1. PICK k \in DOMAIN new : \E i \in DOMAIN new[k] : p = <<k, i>>
    BY PlacesFinite
  <2>2. PICK i \in DOMAIN new[k] : p = <<k, i>>
    BY <2>1
  <2>3. k \in 1 .. m /\ i \in 1 .. Len(new[k]) /\ StartOf(new, k) = StartOf(out, k)
        /\ p[1] = k /\ p[2] = i
    <3>1. new[k] \in Seq(S) /\ k \in Int /\ k >= 1
      OBVIOUS
    <3>2. ~(k > m)
      <4>1. SUFFICES ASSUME k > m PROVE FALSE
        OBVIOUS
      <4>2. new[k] = << >>
        BY <1>1, <4>1
      <4>3. QED BY <2>2, <4>2
    <3>3. k \in 1 .. m
      BY <1>1, <3>1, <3>2
    <3>4. QED BY <1>2, <2>2, <3>1, <3>3
  <2>4. CASE k \in DOMAIN out /\ i \in DOMAIN out[k] /\ new[k][i] = out[k][i]
    <3>1. <<k, i>> \in Places(out)
      BY <2>4, PlacesFinite
    <3>2. out[k][i] = src[StartOf(out, k) + i]
      BY <3>1 DEF Placed
    <3>3. QED BY <2>3, <2>4, <3>2
  <2>5. CASE k = m /\ i \notin 1 .. l
    <3>1. i \in Int /\ i - l \in 1 .. n /\ l + (i - l) = i
      BY <1>1, <2>3, <2>5
    <3>2. new[m][l + (i - l)] = src[c + (i - l)]
      BY <3>1
    <3>3. c + (i - l) = StartOf(out, m) + i
      BY <1>1, <1>3, <3>1
    <3>4. QED BY <2>3, <2>5, <3>1, <3>2, <3>3
  <2>6. CASE k = m /\ i \in 1 .. l
    <3>1. i \in DOMAIN out[m] /\ new[m][i] = out[m][i]
      BY <1>1, <2>6
    <3>2. QED BY <1>1, <2>4, <2>6, <3>1
  <2>7. CASE k \in 1 .. m - 1
    <3>1. k \in DOMAIN out /\ new[k] = out[k]
      BY <1>1, <2>7
    <3>2. QED BY <2>4, <3>1
  <2>8. QED BY <1>1, <2>3, <2>5, <2>6, <2>7
<1>6. QED BY <1>4, <1>5 DEF Placed

\* The fragments of a file that is all there, and the file.
LEMMA NumberedUnits ==
  ASSUME NEW fs \in Seq(Nat)
  PROVE  /\ Numbered(fs) \in Seq(Seq(Int \X Int)) /\ EndToEnd(Numbered(fs)) \in Seq(Int \X Int)
         /\ \A g : StartOf(Numbered(fs), g) \in Nat
         /\ \A g : StartOf(Numbered(fs), g) <= Len(EndToEnd(Numbered(fs)))
         /\ StartOf(Numbered(fs), 1) = 0
         /\ Len(EndToEnd(Numbered(fs))) = StartOf(Numbered(fs), Len(fs) + 1)
         /\ \A g \in DOMAIN fs :
               StartOf(Numbered(fs), g + 1) = StartOf(Numbered(fs), g) + fs[g]
         /\ \A g \in DOMAIN fs : \A o \in 1 .. fs[g] :
               EndToEnd(Numbered(fs))[StartOf(Numbered(fs), g) + o] = <<g - 1, o - 1>>
<1> DEFINE ss == Numbered(fs)
<1>1. Len(fs) \in Nat /\ DOMAIN fs = 1 .. Len(fs)
  OBVIOUS
<1>2. \A g \in DOMAIN fs : /\ fs[g] \in Nat
                           /\ [o \in 1 .. fs[g] |-> <<g - 1, o - 1>>] \in Seq(Int \X Int)
                           /\ Len([o \in 1 .. fs[g] |-> <<g - 1, o - 1>>]) = fs[g]
  <2>1. TAKE g \in DOMAIN fs
  <2>2. g \in Int /\ fs[g] \in Nat
    OBVIOUS
  <2>3. \A o \in 1 .. fs[g] : <<g - 1, o - 1>> \in Int \X Int
    BY <2>2
  <2>4. PICK l \in Nat : l = fs[g]
    BY <2>2
  <2>5. PICK h \in [1 .. l -> Int \X Int] : h = [o \in 1 .. fs[g] |-> <<g - 1, o - 1>>]
    BY <2>3, <2>4
  <2>6. h \in Seq(Int \X Int) /\ Len(h) = l
    OBVIOUS
  <2>7. QED BY <2>4, <2>5, <2>6
<1>3. /\ ss \in Seq(Seq(Int \X Int)) /\ Len(ss) = Len(fs) /\ DOMAIN ss = DOMAIN fs
      /\ \A g \in DOMAIN fs : ss[g] = [o \in 1 .. fs[g] |-> <<g - 1, o - 1>>]
  <2>1. ss = [g \in 1 .. Len(fs) |-> [o \in 1 .. fs[g] |-> <<g - 1, o - 1>>]]
    BY <1>1 DEF Numbered
  <2> HIDE DEF ss
  <2>2. ss \in [1 .. Len(fs) -> Seq(Int \X Int)]
    BY <1>1, <1>2, <2>1
  <2>3. ss \in Seq(Seq(Int \X Int)) /\ Len(ss) = Len(fs)
    BY <1>1, <2>2
  <2>4. QED BY <1>1, <2>1, <2>3
<1> HIDE DEF ss
<1>4. /\ \A g : StartOf(ss, g) \in Nat
      /\ StartOf(ss, 1) = 0
      /\ StartOf(ss, Len(fs) + 1) = Cardinality(Places(ss))
      /\ \A g \in DOMAIN fs : StartOf(ss, g + 1) = StartOf(ss, g) + Len(ss[g])
      /\ \A g : StartOf(ss, g) <= Cardinality(Places(ss))
  BY <1>3, Starts
<1>5. \A g \in DOMAIN fs : StartOf(ss, g + 1) = StartOf(ss, g) + fs[g]
  BY <1>2, <1>3, <1>4
<1>6. /\ EndToEnd(ss) \in Seq(Int \X Int) /\ Len(EndToEnd(ss)) = Cardinality(Places(ss))
      /\ \A g \in DOMAIN fs : \A o \in DOMAIN ss[g] :
            EndToEnd(ss)[StartOf(ss, g) + o] = ss[g][o]
  <2>1. PICK tt \in Seq(Seq(Int \X Int)) : tt = ss
    BY <1>3
  <2>2. EndToEnd(tt) \in Seq(Int \X Int) /\ Len(EndToEnd(tt)) = Cardinality(Places(tt))
    BY EndToEndUnits
  <2>3. \A g \in DOMAIN tt : \A o \in DOMAIN tt[g] :
            EndToEnd(tt)[StartOf(tt, g) + o] = tt[g][o]
    BY EndToEndUnits
  <2>4. QED BY <1>3, <2>1, <2>2, <2>3, Zenon
<1>7. \A g \in DOMAIN fs : \A o \in 1 .. fs[g] : o \in DOMAIN ss[g] /\ ss[g][o] = <<g - 1, o - 1>>
  BY <1>3
<1>8. \A g \in DOMAIN fs : \A o \in 1 .. fs[g] :
         EndToEnd(ss)[StartOf(ss, g) + o] = <<g - 1, o - 1>>
  BY <1>6, <1>7
<1>9. QED BY <1>3, <1>4, <1>5, <1>6, <1>8 DEF ss

=============================================================================
