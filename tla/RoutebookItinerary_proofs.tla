----------------------- MODULE RoutebookItinerary_proofs ----------------------
(***************************************************************************)
(* Proofs about RoutebookItinerary, for any places, distances, answers of  *)
(* the providers and intents, and any number of plans and edits.  The      *)
(* first part says what each loop of the code does with the places it goes *)
(* through; IInv, after it, is inductive.                                  *)
(***************************************************************************)
EXTENDS RoutebookItinerary, FiniteSetTheorems, NaturalsInduction, TLAPS

(* Numbers.                                                                *)

\* Every set of natural numbers that has an element has a least one.
LEMMA LeastNumber ==
  ASSUME NEW T \in SUBSET Nat, T # {}
  PROVE  \E m \in T : \A n \in T : m <= n
<1> DEFINE R == OpToRel(<, Nat)
<1>1. IsWellFoundedOn(R, Nat)  BY NatLessThanWellFounded
<1>2. \A m, n \in Nat : m < n => <<m, n>> \in R  BY DEF OpToRel
<1> HIDE DEF R
<1>3. PICK m \in T : \A n \in T : ~(<<n, m>> \in R)  BY <1>1, WFMin
<1>4. ASSUME NEW n \in T PROVE m <= n
  <2>1. m \in Nat /\ n \in Nat /\ ~(<<n, m>> \in R)  BY <1>3
  <2> QED  BY <1>2, <2>1
<1> QED  BY <1>4

\* ... and so has every set of numbers up to n a greatest one.
LEMMA GreatestNumber ==
  ASSUME NEW n \in Nat, NEW T \in SUBSET (1..n), T # {}
  PROVE  Max(T) \in T /\ \A y \in T : y <= Max(T)
<1> DEFINE below == { n - x : x \in T }
<1>0. \A x \in T : x \in 1..n
  OBVIOUS
<1>1. below \in SUBSET Nat /\ below # {}
  <2>1. \A x \in 1..n : n - x \in Nat  OBVIOUS
  <2> QED  BY <1>0, <2>1
<1>2. PICK least \in below : \A y \in below : least <= y
  <2> HIDE DEF below
  <2> QED  BY <1>1, LeastNumber
<1>3. PICK x \in T : least = n - x
  OBVIOUS
<1>4. ASSUME NEW y \in T PROVE x >= y
  <2>1. n - x <= n - y  BY <1>2, <1>3
  <2>2. x \in 1..n /\ y \in 1..n  BY <1>0
  <2> QED  BY <2>1, <2>2
<1>5. \E z \in T : \A y \in T : z >= y
  BY <1>4
<1>6. Max(T) \in T /\ \A y \in T : Max(T) >= y
  BY <1>5 DEF Max
<1>7. Max(T) \in 1..n  BY <1>0, <1>6
<1> QED  BY <1>0, <1>6, <1>7

\* What holds of 0 and, with a number, of the next one, holds up to n.
LEMMA Upwards ==
  ASSUME NEW n \in Nat, NEW P, 0 \in P, \A k \in 1..n : k - 1 \in P => k \in P
  PROVE  n \in P
<1> DEFINE missing == { k \in 0..n : k \notin P }
<1>1. ASSUME NEW k \in missing, \A j \in missing : k <= j
      PROVE  FALSE
  <2>1. k \in 1..n /\ k - 1 \in 0..n /\ ~(k <= k - 1)  OBVIOUS
  <2>2. k - 1 \notin missing  BY <1>1, <2>1
  <2> QED  BY <2>1, <2>2
<1>2. missing \in SUBSET Nat  OBVIOUS
<1>3. missing = {}
  <2> HIDE DEF missing
  <2> QED  BY <1>1, <1>2, LeastNumber
<1> QED  BY <1>3

\* Of numbers that are ordered somehow there is a best one.
LEMMA BestNumber ==
  ASSUME NEW n \in Nat, NEW T \in SUBSET (1..n), T # {}, NEW R,
         \A i, j \in T : <<i, j>> \in R \/ <<j, i>> \in R,
         \A i, j, k \in T : <<i, j>> \in R /\ <<j, k>> \in R => <<i, k>> \in R
  PROVE  \E i \in T : \A j \in T : <<i, j>> \in R
<1> DEFINE Upto(k) == { i \in T : i <= k }
           good == { k \in 0..n : Upto(k) # {} => \E i \in Upto(k) : \A j \in Upto(k) : <<i, j>> \in R }
<1>1. \A i \in T : i \in 1..n /\ i \in Nat  OBVIOUS
<1>2. 0 \in good
  <2>1. \A i \in T : ~(i <= 0)  BY <1>1
  <2>2. Upto(0) = {}  BY <2>1
  <2>3. 0 \in 0..n  OBVIOUS
  <2> HIDE DEF Upto
  <2> QED  BY <2>2, <2>3
<1>3. ASSUME NEW k \in 1..n, k - 1 \in good
      PROVE  k \in good
  <2>1. CASE k \notin T
    <3>1. Upto(k) = Upto(k - 1)
      <4>1. \A i \in T : i <= k <=> i <= k - 1  BY <1>1, <2>1
      <4> QED  BY <4>1
    <3> HIDE DEF Upto
    <3> QED  BY <1>3, <3>1
  <2>2. CASE k \in T
    <3>1. Upto(k) = Upto(k - 1) \cup {k}
      <4>1. \A i \in T : i <= k <=> i <= k - 1 \/ i = k  BY <1>1
      <4> QED  BY <2>2, <4>1
    <3>2. Upto(k - 1) \subseteq T /\ <<k, k>> \in R  BY <2>2
    <3> HIDE DEF Upto
    <3>3. CASE Upto(k - 1) = {}  BY <3>1, <3>2, <3>3
    <3>4. CASE Upto(k - 1) # {}
      <4>1. PICK i \in Upto(k - 1) : \A j \in Upto(k - 1) : <<i, j>> \in R  BY <1>3, <3>4
      <4>2. CASE <<i, k>> \in R  BY <3>1, <4>1, <4>2
      <4>3. CASE <<k, i>> \in R
        <5>1. \A j \in Upto(k - 1) : <<k, j>> \in R  BY <2>2, <3>2, <4>1, <4>3
        <5> QED  BY <3>1, <3>2, <5>1
      <4> QED  BY <2>2, <3>2, <4>1, <4>2, <4>3
    <3> QED  BY <3>3, <3>4
  <2> QED  BY <2>1, <2>2
<1>4. n \in good
  <2> HIDE DEF good
  <2> QED  BY <1>2, <1>3, Upwards
<1>5. Upto(n) = T
  <2>1. \A i \in T : i <= n  BY <1>1
  <2> QED  BY <2>1
<1> HIDE DEF Upto
<1> QED  BY <1>4, <1>5

-----------------------------------------------------------------------------
(* Loops.  A loop over n things is a fold; FoldRule is the rule by which    *)
(* what it computes is shown: P relates the things done to the result so   *)
(* far.                                                                    *)

\* A function of sets of numbers up to m that folds their elements, the greatest last.
IsFold(iter, S, b, m, F) ==
  /\ iter \in [SUBSET (1..m) -> S]
  /\ \A s \in SUBSET (1..m) :
       iter[s] = IF s = {} THEN b ELSE F[<<iter[s \ {Max(s)}], Max(s)>>]

\* It exists, for one m after the other.
LEMMA FoldExists ==
  ASSUME NEW S, NEW b \in S, NEW n \in Nat, NEW F \in [S \X (1..n) -> S]
  PROVE  \E iter : IsFold(iter, S, b, n, F)
<1> DEFINE Folds(iter, m) ==
             /\ iter \in [SUBSET (1..m) -> S]
             /\ \A s \in SUBSET (1..m) :
                  iter[s] = IF s = {} THEN b ELSE F[<<iter[s \ {Max(s)}], Max(s)>>]
           missing == { m \in 0..n : ~ \E iter : Folds(iter, m) }
<1>1. ASSUME NEW m \in missing, \A k \in missing : m <= k
      PROVE  FALSE
  <2>1. CASE m = 0
    <3> DEFINE none == [s \in SUBSET (1..0) |-> b]
    <3>1. Folds(none, 0)
      <4>1. \A s \in SUBSET (1..0) : s = {}  OBVIOUS
      <4>2. none \in [SUBSET (1..0) -> S]  OBVIOUS
      <4>3. \A s \in SUBSET (1..0) : none[s] = b  OBVIOUS
      <4> HIDE DEF none
      <4> QED  BY <4>1, <4>2, <4>3
    <3> HIDE DEF none, Folds
    <3> QED  BY <1>1, <2>1, <3>1
  <2>2. CASE m > 0
    <3> DEFINE l == m - 1
    <3>1. l \in 0..n /\ l \in Nat /\ m \in 1..n /\ l < m /\ m = l + 1  BY <2>2
    <3>2. PICK iter : Folds(iter, l)
      <4>1. ~(m <= l)  BY <3>1
      <4>2. l \notin missing  BY <1>1, <4>1
      <4> HIDE DEF Folds, l
      <4> QED  BY <3>1, <4>2
    <3> DEFINE more == [s \in SUBSET (1..m) |-> IF m \in s THEN F[<<iter[s \ {m}], m>>] ELSE iter[s]]
    <3>3. \A s \in SUBSET (1..m) : s \ {m} \in SUBSET (1..l)  BY <3>1
    <3>4. \A s \in SUBSET (1..m) : m \notin s => s \in SUBSET (1..l)  BY <3>1
    <3>5. \A s \in SUBSET (1..m) : more[s] \in S
      BY <3>1, <3>2, <3>3, <3>4
    <3>6. ASSUME NEW s \in SUBSET (1..m)
          PROVE  more[s] = IF s = {} THEN b ELSE F[<<more[s \ {Max(s)}], Max(s)>>]
      <4>1. CASE m \in s
        <5>1. m \in Nat /\ s # {}  BY <3>1, <4>1
        <5>2. Max(s) \in s /\ m <= Max(s)  BY <4>1, <5>1, GreatestNumber
        <5>3. Max(s) \in 1..m  BY <5>2
        <5>4. Max(s) = m  BY <3>1, <5>2, <5>3
        <5>5. s \ {m} \in SUBSET (1..m) /\ more[s \ {m}] = iter[s \ {m}]  OBVIOUS
        <5> QED  BY <4>1, <5>1, <5>4, <5>5
      <4>2. CASE m \notin s
        <5>1. s \in SUBSET (1..l) /\ s \ {Max(s)} \in SUBSET (1..m) /\ m \notin s \ {Max(s)}
          BY <3>4, <4>2
        <5>2. more[s] = iter[s] /\ more[s \ {Max(s)}] = iter[s \ {Max(s)}]
          BY <4>2, <5>1
        <5> QED  BY <3>2, <5>1, <5>2
      <4> QED  BY <4>1, <4>2
    <3> HIDE DEF l
    <3>7. more \in [SUBSET (1..m) -> S]  BY <3>5
    <3> HIDE DEF more
    <3>8. Folds(more, m)  BY <3>6, <3>7
    <3> QED  BY <1>1, <3>8
  <2> QED  BY <1>1, <2>1, <2>2
<1>2. missing = {}
  <2>1. missing \in SUBSET Nat  OBVIOUS
  <2> HIDE DEF missing
  <2> QED  BY <1>1, <2>1, LeastNumber
<1>3. \E iter : Folds(iter, n)
  <2> HIDE DEF Folds
  <2>1. n \in 0..n  OBVIOUS
  <2>2. \A m \in 0..n : \E iter : Folds(iter, m)  BY <1>2
  <2> QED  BY <2>1, <2>2
<1> QED  BY <1>3 DEF IsFold

\* A function that follows the same recursion as long as it stays in S.
Solves(iter, S, b, n, F) ==
  /\ iter[{}] = b
  /\ \A s \in SUBSET (1..n) :
       s # {} /\ iter[s \ {Max(s)}] \in S => iter[s] = F[<<iter[s \ {Max(s)}], Max(s)>>]

\* P holds at the start and is carried on by every step.
Carried(P, S, b, n, F) ==
  /\ <<0, b>> \in P
  /\ \A k \in 1..n, s \in S : <<k - 1, s>> \in P => <<k, F[<<s, k>>]>> \in P

LEMMA FoldRule ==
  ASSUME NEW S, NEW b \in S, NEW n \in Nat, NEW F \in [S \X (1..n) -> S], NEW iter, NEW P,
         Solves(iter, S, b, n, F), Carried(P, S, b, n, F)
  PROVE  iter[1..n] \in S /\ <<n, iter[1..n]>> \in P
<1> DEFINE good == { k \in 0..n : iter[1..k] \in S /\ <<k, iter[1..k]>> \in P }
<1>1. 0 \in good
  <2>1. 1..0 = {} /\ 0 \in 0..n  OBVIOUS
  <2> QED  BY <2>1 DEF Solves, Carried
<1>2. ASSUME NEW k \in 1..n, k - 1 \in good
      PROVE  k \in good
  <2>1. k \in 0..n /\ k \in Nat /\ k \in 1..k  OBVIOUS
  <2>2. 1..k \in SUBSET (1..n) /\ 1..k # {} /\ (1..k) \ {k} = 1..(k - 1)
    <3>1. \A j \in Nat : j \in 1..k => j \in 1..n  BY <2>1
    <3>2. \A j \in Nat : j \in (1..k) \ {k} <=> j \in 1..(k - 1)  BY <2>1
    <3>3. 1..k \in SUBSET Nat /\ 1..(k - 1) \in SUBSET Nat  BY <2>1
    <3> QED  BY <2>1, <3>1, <3>2, <3>3
  <2>3. Max(1..k) \in 1..k /\ k <= Max(1..k)  BY <2>1, <2>2, GreatestNumber
  <2>4. Max(1..k) = k  BY <2>1, <2>3
  <2>5. iter[1..(k - 1)] \in S /\ <<k - 1, iter[1..(k - 1)]>> \in P  BY <1>2
  <2>6. iter[1..k] = F[<<iter[1..(k - 1)], k>>]
    BY <2>2, <2>4, <2>5 DEF Solves
  <2>7. iter[1..k] \in S /\ <<k, iter[1..k]>> \in P
    BY <2>5, <2>6 DEF Carried
  <2> QED  BY <2>1, <2>7
<1>3. n \in good
  <2> HIDE DEF good
  <2> QED  BY <1>1, <1>2, Upwards
<1> QED  BY <1>3

\* What every step keeps holds in the end.
LEMMA FoldStays ==
  ASSUME NEW S, NEW b \in S, NEW n \in Nat, NEW F \in [S \X (1..n) -> S], NEW iter,
         Solves(iter, S, b, n, F)
  PROVE  iter[1..n] \in S
<1> DEFINE P == (0..n) \X S
<1>1. Carried(P, S, b, n, F)  BY DEF Carried
<1> HIDE DEF P
<1> QED  BY <1>1, FoldRule

-----------------------------------------------------------------------------
(* Sequences of places: what is in them, and whether anything is in them    *)
(* twice.                                                                   *)
LEMMA Appended ==
  ASSUME NEW s \in Seq(Places), NEW x \in Places
  PROVE  /\ Append(s, x) \in Seq(Places) /\ Len(Append(s, x)) = Len(s) + 1
         /\ ToSet(Append(s, x)) = ToSet(s) \cup {x}
         /\ IsInjective(s) /\ x \notin ToSet(s) => IsInjective(Append(s, x))
<1> DEFINE n == Len(s)
           t == Append(s, x)
<1>1. /\ n \in Nat /\ DOMAIN s = 1..n /\ t \in Seq(Places) /\ DOMAIN t = 1..n + 1 /\ Len(t) = n + 1
      /\ t[n + 1] = x /\ \A i \in 1..n : t[i] = s[i]
  OBVIOUS
<1>2. \A i \in 1..n + 1 : i \in 1..n \/ i = n + 1  BY <1>1
<1>3. \A i \in 1..n : i \in 1..n + 1  BY <1>1
<1> HIDE DEF n, t
<1>4. n + 1 \in 1..n + 1  BY <1>1
<1>5. ToSet(t) = ToSet(s) \cup {x}
  BY <1>1, <1>2, <1>3, <1>4 DEF ToSet
<1>6. ASSUME IsInjective(s), x \notin ToSet(s) PROVE IsInjective(t)
  <2>1. \A i \in 1..n : s[i] # x  BY <1>1, <1>6 DEF ToSet
  <2>2. \A i, j \in 1..n : s[i] = s[j] => i = j  BY <1>1, <1>6 DEF IsInjective
  <2>3. \A i, j \in 1..n + 1 : t[i] = t[j] => i = j  BY <1>1, <1>2, <2>1, <2>2
  <2> QED  BY <1>1, <2>3 DEF IsInjective
<1> QED  BY <1>1, <1>5, <1>6 DEF n, t

LEMMA Concatenated ==
  ASSUME NEW s \in Seq(Places), NEW t \in Seq(Places)
  PROVE  /\ s \o t \in Seq(Places) /\ Len(s \o t) = Len(s) + Len(t)
         /\ \A i \in 1..Len(s) + Len(t) : (s \o t)[i] = IF i <= Len(s) THEN s[i] ELSE t[i - Len(s)]
OBVIOUS

LEMMA Joined ==
  ASSUME NEW s \in Seq(Places), NEW t \in Seq(Places)
  PROVE  /\ s \o t \in Seq(Places) /\ ToSet(s \o t) = ToSet(s) \cup ToSet(t)
         /\ IsInjective(s) /\ IsInjective(t) /\ ToSet(s) \cap ToSet(t) = {} => IsInjective(s \o t)
<1> DEFINE n == Len(s)
           m == Len(t)
           u == s \o t
<1>1. /\ n \in Nat /\ m \in Nat /\ DOMAIN s = 1..n /\ DOMAIN t = 1..m
      /\ u \in Seq(Places) /\ DOMAIN u = 1..n + m
      /\ \A i \in 1..n + m : u[i] = IF i <= n THEN s[i] ELSE t[i - n]
  OBVIOUS
<1> HIDE DEF n, m, u
<1>2. \A i \in 1..n + m : IF i <= n THEN i \in 1..n ELSE i - n \in 1..m  BY <1>1
<1>3. \A i \in 1..n : i \in 1..n + m /\ u[i] = s[i]  BY <1>1
<1>4. \A i \in 1..m : n + i \in 1..n + m /\ u[n + i] = t[i]  BY <1>1
<1>5. ToSet(u) = ToSet(s) \cup ToSet(t)
  <2>1. ASSUME NEW i \in 1..n + m PROVE u[i] \in ToSet(s) \cup ToSet(t)
    BY <1>1, <1>2 DEF ToSet
  <2>2. ASSUME NEW i \in 1..n PROVE s[i] \in ToSet(u)
    BY <1>1, <1>3 DEF ToSet
  <2>3. ASSUME NEW i \in 1..m PROVE t[i] \in ToSet(u)
    <3>1. n + i \in DOMAIN u /\ u[n + i] = t[i]  BY <1>1, <1>4
    <3> QED  BY <3>1 DEF ToSet
  <2> QED  BY <1>1, <2>1, <2>2, <2>3 DEF ToSet
<1>6. ASSUME IsInjective(s), IsInjective(t), ToSet(s) \cap ToSet(t) = {} PROVE IsInjective(u)
  <2>1. \A i \in 1..n, j \in 1..m : s[i] # t[j]  BY <1>1, <1>6 DEF ToSet
  <2>2. \A i, j \in 1..n : s[i] = s[j] => i = j  BY <1>1, <1>6 DEF IsInjective
  <2>3. \A i, j \in 1..m : t[i] = t[j] => i = j  BY <1>1, <1>6 DEF IsInjective
  <2>4. ASSUME NEW i \in 1..n + m, NEW j \in 1..n + m, u[i] = u[j] PROVE i = j
    <3>1. CASE i <= n /\ j <= n  BY <1>1, <1>2, <2>2, <2>4, <3>1
    <3>2. CASE i > n /\ j > n
      <4>1. i - n = j - n  BY <1>1, <1>2, <2>3, <2>4, <3>2
      <4> QED  BY <1>1, <4>1
    <3>3. CASE i <= n /\ j > n  BY <1>1, <1>2, <2>1, <2>4, <3>3
    <3>4. CASE i > n /\ j <= n  BY <1>1, <1>2, <2>1, <2>4, <3>4
    <3> QED  BY <1>1, <3>1, <3>2, <3>3, <3>4
  <2> QED  BY <1>1, <2>4 DEF IsInjective
<1> QED  BY <1>1, <1>5, <1>6 DEF u

LEMMA Removed ==
  ASSUME NEW s \in Seq(Places), NEW k \in 1..Len(s)
  PROVE  /\ RemoveAt(s, k) \in Seq(Places) /\ Len(RemoveAt(s, k)) = Len(s) - 1
         /\ ToSet(s) = ToSet(RemoveAt(s, k)) \cup {s[k]}
         /\ IsInjective(s) => IsInjective(RemoveAt(s, k)) /\ s[k] \notin ToSet(RemoveAt(s, k))
<1> DEFINE n == Len(s)
           t == RemoveAt(s, k)
<1>1. /\ n \in Nat /\ DOMAIN s = 1..n /\ k \in 1..n /\ n - 1 \in Nat
      /\ t \in Seq(Places) /\ Len(t) = n - 1 /\ DOMAIN t = 1..n - 1
      /\ \A i \in 1..n - 1 : t[i] = IF i < k THEN s[i] ELSE s[i + 1]
  <2>1. SubSeq(s, 1, k - 1) \in Seq(Places) /\ Len(SubSeq(s, 1, k - 1)) = k - 1
        /\ \A i \in 1..k - 1 : SubSeq(s, 1, k - 1)[i] = s[i]
    OBVIOUS
  <2>2. SubSeq(s, k + 1, n) \in Seq(Places) /\ Len(SubSeq(s, k + 1, n)) = n - k
        /\ \A i \in 1..n - k : SubSeq(s, k + 1, n)[i] = s[k + i]
    OBVIOUS
  <2>3. n \in Nat /\ DOMAIN s = 1..n /\ k \in 1..n /\ n - 1 \in Nat  OBVIOUS
  <2>4. t = SubSeq(s, 1, k - 1) \o SubSeq(s, k + 1, n)  BY DEF RemoveAt
  <2> DEFINE a == SubSeq(s, 1, k - 1)
             b == SubSeq(s, k + 1, n)
  <2> HIDE DEF a, b, n, t
  <2>5. t = a \o b  BY <2>4 DEF a, b
  <2>6. a \in Seq(Places) /\ b \in Seq(Places) /\ Len(a) = k - 1 /\ Len(b) = n - k
    BY <2>1, <2>2 DEF a, b
  <2>7. t \in Seq(Places) /\ Len(t) = n - 1 /\ DOMAIN t = 1..n - 1
    <3>1. t \in Seq(Places) /\ Len(t) = Len(a) + Len(b)  BY <2>5, <2>6, Concatenated
    <3>2. (k - 1) + (n - k) = n - 1  BY <2>3
    <3> QED  BY <2>6, <3>1, <3>2
  <2>8. ASSUME NEW i \in 1..n - 1 PROVE t[i] = IF i < k THEN s[i] ELSE s[i + 1]
    <3>1. CASE i < k
      <4>1. i \in 1..k - 1 /\ t[i] = a[i]  BY <2>3, <2>5, <2>6, <3>1
      <4> QED  BY <2>1, <3>1, <4>1 DEF a
    <3>2. CASE ~(i < k)
      <4>1. t[i] = b[i - (k - 1)] /\ i - (k - 1) \in 1..n - k  BY <2>3, <2>5, <2>6, <3>2
      <4>2. k + (i - (k - 1)) = i + 1  BY <2>3
      <4> QED  BY <2>2, <3>2, <4>1, <4>2 DEF b
    <3> QED  BY <3>1, <3>2
  <2> QED  BY <2>3, <2>7, <2>8
<1> HIDE DEF n, t
<1>2. \A i \in 1..n - 1 : IF i < k THEN i \in 1..n ELSE i + 1 \in 1..n  BY <1>1
<1>3. \A i \in 1..n : IF i < k THEN i \in 1..n - 1 /\ t[i] = s[i]
                      ELSE i # k => i - 1 \in 1..n - 1 /\ t[i - 1] = s[i]
  BY <1>1
<1>4. ToSet(s) = ToSet(t) \cup {s[k]}
  <2>1. ASSUME NEW i \in 1..n PROVE s[i] \in ToSet(t) \cup {s[k]}
    BY <1>1, <1>3 DEF ToSet
  <2>2. ASSUME NEW i \in 1..n - 1 PROVE t[i] \in ToSet(s)
    BY <1>1, <1>2 DEF ToSet
  <2> QED  BY <1>1, <2>1, <2>2 DEF ToSet
<1>5. ASSUME IsInjective(s) PROVE IsInjective(t) /\ s[k] \notin ToSet(t)
  <2>1. \A i, j \in 1..n : s[i] = s[j] => i = j  BY <1>1, <1>5 DEF IsInjective
  <2>2. ASSUME NEW i \in 1..n - 1, NEW j \in 1..n - 1, t[i] = t[j] PROVE i = j
    <3> DEFINE f(y) == IF y < k THEN y ELSE y + 1
    <3>1. f(i) \in 1..n /\ f(j) \in 1..n /\ t[i] = s[f(i)] /\ t[j] = s[f(j)]  BY <1>1, <1>2
    <3>2. f(i) = f(j)
      <4> HIDE DEF f
      <4> QED  BY <2>1, <2>2, <3>1
    <3> QED  BY <1>1, <3>2
  <2>3. ASSUME NEW i \in 1..n - 1 PROVE t[i] # s[k]
    <3> DEFINE f(y) == IF y < k THEN y ELSE y + 1
    <3>1. f(i) \in 1..n /\ t[i] = s[f(i)] /\ f(i) # k  BY <1>1, <1>2
    <3> HIDE DEF f
    <3> QED  BY <1>1, <2>1, <3>1
  <2> QED  BY <1>1, <2>2, <2>3 DEF IsInjective, ToSet
<1> QED  BY <1>1, <1>4, <1>5 DEF n, t

\* A stretch travelled backwards, away from the first place.
LEMMA Turned ==
  ASSUME NEW s \in Seq(Places), NEW a \in 2..Len(s), NEW z \in a..Len(s)
  PROVE  /\ Reversed(s, a, z) \in Seq(Places) /\ Len(Reversed(s, a, z)) = Len(s)
         /\ ToSet(Reversed(s, a, z)) = ToSet(s) /\ Reversed(s, a, z)[1] = s[1]
         /\ IsInjective(s) => IsInjective(Reversed(s, a, z))
<1> DEFINE n == Len(s)
           t == Reversed(s, a, z)
           f(i) == IF i \in a..z THEN a + z - i ELSE i
<1>1. n \in Nat /\ DOMAIN s = 1..n /\ a \in 2..n /\ z \in a..n  OBVIOUS
<1>2. t \in Seq(Places) /\ Len(t) = n /\ \A i \in 1..n : t[i] = s[f(i)]
  <2> DEFINE p == SubSeq(s, 1, a - 1)
             q == SubSeq(s, a, z)
             r == SubSeq(s, z + 1, n)
             v == Reverse(q)
  <2>1. p \in Seq(Places) /\ Len(p) = a - 1 /\ \A i \in 1..a - 1 : p[i] = s[i]
    OBVIOUS
  <2>2. q \in Seq(Places) /\ Len(q) = z - a + 1 /\ \A i \in 1..z - a + 1 : q[i] = s[a + i - 1]
    OBVIOUS
  <2>3. r \in Seq(Places) /\ Len(r) = n - z /\ \A i \in 1..n - z : r[i] = s[z + i]
    OBVIOUS
  <2>4. t = p \o v \o r  BY DEF Reversed
  <2> HIDE DEF p, q, r, t
  <2>5. v \in Seq(Places) /\ Len(v) = z - a + 1
        /\ \A i \in 1..z - a + 1 : v[i] = s[z - i + 1]
    <3>1. z - a + 1 \in Nat /\ v = [i \in 1..z - a + 1 |-> q[(z - a + 1) - i + 1]]
      BY <1>1, <2>2 DEF Reverse
    <3>2. \A i \in 1..z - a + 1 : (z - a + 1) - i + 1 \in 1..z - a + 1
      BY <1>1
    <3>3. \A i \in 1..z - a + 1 : q[i] \in Places  BY <2>2
    <3>4. \A i \in 1..z - a + 1 : v[i] = q[(z - a + 1) - i + 1] /\ v[i] \in Places
      BY <3>1, <3>2, <3>3
    <3>5. \A i \in 1..z - a + 1 : a + ((z - a + 1) - i + 1) - 1 = z - i + 1
      BY <1>1
    <3>6. v \in Seq(Places) /\ Len(v) = z - a + 1
      BY <3>1, <3>4
    <3> QED  BY <2>2, <3>2, <3>4, <3>5, <3>6
  <2> HIDE DEF v
  <2>6. t \in Seq(Places) /\ Len(t) = n
    <3>1. p \o v \in Seq(Places) /\ Len(p \o v) = Len(p) + Len(v)  BY <2>1, <2>5, Concatenated
    <3>2. t \in Seq(Places) /\ Len(t) = Len(p) + Len(v) + Len(r)  BY <2>3, <2>4, <3>1, Concatenated
    <3>3. (a - 1) + (z - a + 1) + (n - z) = n  BY <1>1
    <3> QED  BY <2>1, <2>3, <2>5, <3>2, <3>3
  <2>7. ASSUME NEW i \in 1..n PROVE t[i] = s[f(i)]
    <3>1. CASE i < a
      <4>1. i \in 1..a - 1 /\ t[i] = p[i]  BY <1>1, <2>1, <2>3, <2>4, <2>5, <3>1
      <4> QED  BY <1>1, <2>1, <3>1, <4>1
    <3>2. CASE i \in a..z
      <4>1. i - (a - 1) \in 1..z - a + 1 /\ t[i] = v[i - (a - 1)]
        BY <1>1, <2>1, <2>3, <2>4, <2>5, <3>2
      <4>2. z - (i - (a - 1)) + 1 = a + z - i  BY <1>1
      <4> QED  BY <1>1, <2>5, <3>2, <4>1, <4>2
    <3>3. CASE i > z
      <4>1. i - z \in 1..n - z /\ t[i] = r[i - z]
        <5>1. p \o v \in Seq(Places) /\ Len(p \o v) = z
          <6>1. Len(p \o v) = Len(p) + Len(v)  BY <2>1, <2>5, Concatenated
          <6>2. (a - 1) + (z - a + 1) = z  BY <1>1
          <6> QED  BY <2>1, <2>5, <6>1, <6>2, Concatenated
        <5>2. i \in 1..Len(p \o v) + Len(r) /\ ~(i <= Len(p \o v))
          BY <1>1, <2>3, <3>3, <5>1
        <5>3. t[i] = r[i - Len(p \o v)]
          <6> DEFINE l == p \o v
          <6>1. l \in Seq(Places) /\ i \in 1..Len(l) + Len(r) /\ ~(i <= Len(l)) /\ t = l \o r
            BY <2>4, <5>1, <5>2
          <6> HIDE DEF l
          <6>2. t[i] = r[i - Len(l)]  BY <2>3, <6>1, Concatenated
          <6> QED  BY <6>2 DEF l
        <5> QED  BY <1>1, <3>3, <5>1, <5>3
      <4>2. z + (i - z) = i  BY <1>1
      <4>3. f(i) = i  BY <1>1, <3>3
      <4>4. r[i - z] = s[z + (i - z)]  BY <2>3, <4>1
      <4> QED  BY <4>1, <4>2, <4>3, <4>4
    <3> QED  BY <1>1, <3>1, <3>2, <3>3
  <2> QED  BY <2>6, <2>7
<1> HIDE DEF n, t
<1>3. \A i \in 1..n : f(i) \in 1..n /\ f(f(i)) = i  BY <1>1
<1>4. DOMAIN t = 1..n  BY <1>2
<1>5. ToSet(t) = ToSet(s)
  <2>1. \A i \in 1..n : t[i] = s[f(i)] /\ s[i] = t[f(i)] /\ f(i) \in 1..n
    <3> HIDE DEF f
    <3> QED  BY <1>2, <1>3
  <2> HIDE DEF f
  <2> QED  BY <1>1, <1>4, <2>1 DEF ToSet
<1>6. t[1] = s[1]  BY <1>1, <1>2
<1>7. ASSUME IsInjective(s) PROVE IsInjective(t)
  <2>1. \A i, j \in 1..n : s[i] = s[j] => i = j  BY <1>1, <1>7 DEF IsInjective
  <2>2. ASSUME NEW i \in 1..n, NEW j \in 1..n, t[i] = t[j] PROVE i = j
    <3> HIDE DEF f
    <3>1. f(i) = f(j)  BY <1>2, <1>3, <2>1, <2>2
    <3> QED  BY <1>3, <3>1
  <2> QED  BY <1>4, <2>2 DEF IsInjective
<1> QED  BY <1>2, <1>5, <1>6, <1>7 DEF n, t

-----------------------------------------------------------------------------
(* The places of a list that are in a set.                                  *)
LEMMA FilterRule ==
  ASSUME NEW seq \in Seq(Places), NEW members, NEW P,
         <<0, <<>>>> \in P,
         \A k \in 1..Len(seq), kept \in Seq(Places) : <<k - 1, kept>> \in P =>
           <<k, IF seq[k] \in members THEN Append(kept, seq[k]) ELSE kept>> \in P
  PROVE  Filter(seq, members) \in Seq(Places) /\ <<Len(seq), Filter(seq, members)>> \in P
<1> DEFINE n == Len(seq)
           S == Seq(Places)
           Then(x, k) == IF seq[k] \in members THEN Append(x, seq[k]) ELSE x
           F == [x \in S \X (1..n) |-> Then(x[1], x[2])]
           Folds(iter) == iter = [s \in SUBSET (1..n) |->
                                    IF s = {} THEN <<>> ELSE Then(iter[s \ {Max(s)}], Max(s))]
<1>1. n \in Nat /\ DOMAIN seq = 1..n /\ <<>> \in S /\ \A x \in S, k \in 1..n : Then(x, k) \in S
  <2>1. \A k \in 1..n : seq[k] \in Places  OBVIOUS
  <2> QED  BY <2>1
<1>2. Filter(seq, members) = (CHOOSE iter : Folds(iter))[1..n]
  BY <1>1 DEF Filter, FoldLeft, MapThenFoldSet
<1> HIDE DEF n, S, Then
<1>3. F \in [S \X (1..n) -> S] /\ \A x \in S, k \in 1..n : F[<<x, k>>] = Then(x, k)
  BY <1>1
<1> HIDE DEF F
<1>4. \E iter : Folds(iter)
  <2>1. PICK iter : IsFold(iter, S, <<>>, n, F)  BY <1>1, <1>3, FoldExists
  <2>2. ASSUME NEW s \in SUBSET (1..n), s # {}
        PROVE  iter[s] = Then(iter[s \ {Max(s)}], Max(s))
    <3>1. Max(s) \in 1..n  BY <1>1, <2>2, GreatestNumber
    <3> QED  BY <1>3, <2>1, <2>2, <3>1 DEF IsFold
  <2> QED  BY <2>1, <2>2 DEF IsFold
<1>5. PICK iter : Folds(iter) /\ Filter(seq, members) = iter[1..n]
  <2> HIDE DEF Folds
  <2> QED  BY <1>2, <1>4
<1>6. Solves(iter, S, <<>>, n, F)
  <2>1. ASSUME NEW s \in SUBSET (1..n), s # {}, iter[s \ {Max(s)}] \in S
        PROVE  iter[s] = F[<<iter[s \ {Max(s)}], Max(s)>>]
    <3>1. Max(s) \in 1..n  BY <1>1, <2>1, GreatestNumber
    <3> QED  BY <1>3, <1>5, <2>1, <3>1
  <2>2. iter[{}] = <<>>  BY <1>5
  <2> QED  BY <2>1, <2>2 DEF Solves
<1>7. Carried(P, S, <<>>, n, F)
  <2>1. \A k \in 1..n, x \in S : <<k - 1, x>> \in P => <<k, Then(x, k)>> \in P
    BY DEF n, S, Then
  <2> QED  BY <1>3, <2>1 DEF Carried
<1>8. iter[1..n] \in S /\ <<n, iter[1..n]>> \in P
  <2> HIDE DEF Folds
  <2> QED  BY <1>1, <1>3, <1>6, <1>7, FoldRule
<1> QED  BY <1>5, <1>8 DEF n, S

LEMMA Filtered ==
  ASSUME NEW seq \in Seq(Places), NEW members
  PROVE  /\ Filter(seq, members) \in Seq(Places)
         /\ ToSet(Filter(seq, members)) = ToSet(seq) \cap members
         /\ IsInjective(seq) => IsInjective(Filter(seq, members))
<1> DEFINE n == Len(seq)
           Done(k) == { seq[i] : i \in 1..k }
           P == { x \in (0..n) \X Seq(Places) :
                    /\ ToSet(x[2]) = Done(x[1]) \cap members
                    /\ IsInjective(seq) => IsInjective(x[2]) }
<1>1. n \in Nat /\ DOMAIN seq = 1..n /\ \A k \in 1..n : seq[k] \in Places
  OBVIOUS
<1>2. <<0, <<>>>> \in P
  <2>1. Done(0) = {}  OBVIOUS
  <2>3. ToSet(<<>>) = Done(0) \cap members /\ IsInjective(<<>>)  BY <2>1 DEF ToSet, IsInjective
  <2>2. <<0, <<>>>> \in (0..n) \X Seq(Places)
    <3>1. 0 \in 0..n  BY <1>1
    <3>2. <<>> \in Seq(Places)  OBVIOUS
    <3> QED  BY <3>1, <3>2
  <2> HIDE DEF Done, n
  <2> QED  BY <2>2, <2>3
<1>3. ASSUME NEW k \in 1..n, NEW kept \in Seq(Places), <<k - 1, kept>> \in P
      PROVE  <<k, IF seq[k] \in members THEN Append(kept, seq[k]) ELSE kept>> \in P
  <2>1. ToSet(kept) = Done(k - 1) \cap members /\ (IsInjective(seq) => IsInjective(kept))
    BY <1>3
  <2>2. Done(k) = Done(k - 1) \cup {seq[k]}
    <3>1. \A i \in 1..k : i \in 1..k - 1 \/ i = k  OBVIOUS
    <3>2. k \in 1..k /\ \A i \in 1..k - 1 : i \in 1..k  OBVIOUS
    <3> QED  BY <3>1, <3>2
  <2>3. k \in 0..n  BY <1>1
  <2>4. CASE seq[k] \in members
    <3>1. Append(kept, seq[k]) \in Seq(Places)
          /\ ToSet(Append(kept, seq[k])) = ToSet(kept) \cup {seq[k]}
          /\ (IsInjective(kept) /\ seq[k] \notin ToSet(kept) => IsInjective(Append(kept, seq[k])))
      BY <1>1, Appended
    <3>2. ASSUME IsInjective(seq) PROVE seq[k] \notin ToSet(kept)
      <4>1. ASSUME NEW i \in 1..k - 1 PROVE seq[i] # seq[k]
        <5>1. i \in DOMAIN seq /\ k \in DOMAIN seq /\ i # k  BY <1>1
        <5> QED  BY <3>2, <5>1 DEF IsInjective
      <4> QED  BY <2>1, <4>1
    <3>3. ToSet(Append(kept, seq[k])) = Done(k) \cap members
      <4> HIDE DEF Done
      <4> QED  BY <2>1, <2>2, <2>4, <3>1
    <3> HIDE DEF Done
    <3> QED  BY <2>1, <2>3, <2>4, <3>1, <3>2, <3>3
  <2>5. CASE seq[k] \notin members
    <3>1. ToSet(kept) = Done(k) \cap members
      <4> HIDE DEF Done
      <4> QED  BY <2>1, <2>2, <2>5
    <3> HIDE DEF Done
    <3> QED  BY <2>1, <2>3, <2>5, <3>1
  <2> QED  BY <2>4, <2>5
<1>4. Done(n) = ToSet(seq)  BY <1>1 DEF ToSet
<1>5. Filter(seq, members) \in Seq(Places) /\ <<n, Filter(seq, members)>> \in P
  <2> HIDE DEF P, Done
  <2> QED  BY <1>2, <1>3, FilterRule
<1> HIDE DEF Done
<1> QED  BY <1>4, <1>5

-----------------------------------------------------------------------------
(* A tour from the first place to the nearest ones.                         *)
LEMMA NearestThere ==
  ASSUME NEW p \in Places, NEW remaining \in Seq(Places), remaining # <<>>
  PROVE  NearestIndex(p, remaining) \in 1..Len(remaining)
<1> DEFINE n == Len(remaining)
           M(i) == Metres(p, remaining[i])
           R == { x \in (1..n) \X (1..n) : M(x[1]) < M(x[2]) \/ (M(x[1]) = M(x[2]) /\ x[1] <= x[2]) }
<1>1. n \in Nat /\ DOMAIN remaining = 1..n /\ 1..n # {} /\ \A i \in 1..n : M(i) \in Nat
  <2>1. n \in Nat /\ DOMAIN remaining = 1..n /\ 1..n # {} /\ \A i \in 1..n : remaining[i] \in Places
    OBVIOUS
  <2> QED  BY <2>1, DistanceAssumption DEF Metres
<1>2. \A i, j \in 1..n : <<i, j>> \in R <=> M(i) < M(j) \/ (M(i) = M(j) /\ i <= j)
  OBVIOUS
<1> HIDE DEF n, M, R
<1>3. ASSUME NEW i \in 1..n, NEW j \in 1..n PROVE <<i, j>> \in R \/ <<j, i>> \in R
  <2>1. M(i) \in Nat /\ M(j) \in Nat /\ i \in Nat /\ j \in Nat  BY <1>1
  <2>2. M(i) < M(j) \/ M(j) < M(i) \/ (M(i) = M(j) /\ (i <= j \/ j <= i))  BY <2>1
  <2> QED  BY <1>2, <2>2
<1>4. ASSUME NEW i \in 1..n, NEW j \in 1..n, NEW k \in 1..n, <<i, j>> \in R, <<j, k>> \in R
      PROVE  <<i, k>> \in R
  <2>1. /\ M(i) \in Nat /\ M(j) \in Nat /\ M(k) \in Nat /\ i \in Nat /\ j \in Nat /\ k \in Nat
    BY <1>1
  <2>2. M(i) < M(j) \/ (M(i) = M(j) /\ i <= j)  BY <1>2, <1>4
  <2>3. M(j) < M(k) \/ (M(j) = M(k) /\ j <= k)  BY <1>2, <1>4
  <2>4. M(i) < M(k) \/ (M(i) = M(k) /\ i <= k)  BY <2>1, <2>2, <2>3
  <2> QED  BY <1>2, <2>4
<1>5. \E i \in 1..n : \A j \in 1..n : <<i, j>> \in R
  <2>1. 1..n \in SUBSET (1..n)  OBVIOUS
  <2> QED  BY <1>1, <1>3, <1>4, <2>1, BestNumber
<1>6. \E i \in 1..n : \A j \in 1..n : M(i) < M(j) \/ (M(i) = M(j) /\ i <= j)
  BY <1>2, <1>5
<1>7. NearestIndex(p, remaining) =
        CHOOSE i \in 1..n : \A j \in 1..n : M(i) < M(j) \/ (M(i) = M(j) /\ i <= j)
  BY <1>1 DEF NearestIndex, M
<1> QED  BY <1>6, <1>7 DEF n

Tours == { t \in [ordered : Seq(Places), remaining : Seq(Places)] : t.ordered # <<>> }

\* A visit moves one place that remains to the end of the tour.
LEMMA VisitMoves ==
  ASSUME NEW t \in Tours
  PROVE  /\ Visit(t) \in Tours
         /\ t.remaining # <<>> =>
              \E i \in 1..Len(t.remaining) :
                Visit(t) = [ordered |-> Append(t.ordered, t.remaining[i]),
                            remaining |-> RemoveAt(t.remaining, i)]
<1>1. t.ordered \in Seq(Places) /\ t.remaining \in Seq(Places) /\ t.ordered # <<>>  BY DEF Tours
<1>2. CASE t.remaining = <<>>  BY <1>2 DEF Visit
<1>3. CASE t.remaining # <<>>
  <2> DEFINE i == NearestIndex(Last(t.ordered), t.remaining)
  <2>1. Last(t.ordered) \in Places  BY <1>1 DEF Last
  <2>2. i \in 1..Len(t.remaining)  BY <1>1, <1>3, <2>1, NearestThere
  <2>3. Visit(t) = [ordered |-> Append(t.ordered, t.remaining[i]), remaining |-> RemoveAt(t.remaining, i)]
    BY <1>3 DEF Visit
  <2> HIDE DEF i
  <2>4. t.remaining[i] \in Places  BY <1>1, <2>2
  <2>5. Append(t.ordered, t.remaining[i]) \in Seq(Places) /\ Append(t.ordered, t.remaining[i]) # <<>>
    BY <1>1, <2>4
  <2>6. RemoveAt(t.remaining, i) \in Seq(Places)  BY <1>1, <2>2, Removed
  <2> DEFINE o == Append(t.ordered, t.remaining[i])
             l == RemoveAt(t.remaining, i)
  <2>7. Visit(t) = [ordered |-> o, remaining |-> l] /\ o \in Seq(Places) /\ o # <<>> /\ l \in Seq(Places)
    BY <2>3, <2>5, <2>6
  <2> HIDE DEF o, l
  <2>8. Visit(t) \in Tours  BY <2>7 DEF Tours
  <2> QED  BY <2>2, <2>3, <2>8
<1> QED  BY <1>2, <1>3

TourBegin(places) == [ordered |-> <<Head(places)>>, remaining |-> Tail(places)]
TourEnd(places) == FoldLeft(LAMBDA tour, p : Visit(tour), TourBegin(places), Tail(places))

LEMMA VisitsRule ==
  ASSUME NEW places \in Seq(Places), ~(Len(places) < 2), NEW P,
         <<0, TourBegin(places)>> \in P,
         \A k \in 1..Len(places) - 1, t \in Tours : <<k - 1, t>> \in P => <<k, Visit(t)>> \in P
  PROVE  TourEnd(places) \in Tours /\ <<Len(places) - 1, TourEnd(places)>> \in P
<1> DEFINE n == Len(places) - 1
           S == Tours
           Then(x, k) == Visit(x)
           F == [x \in S \X (1..n) |-> Then(x[1], x[2])]
           Folds(iter) == iter = [s \in SUBSET (1..n) |->
                                    IF s = {} THEN TourBegin(places) ELSE Then(iter[s \ {Max(s)}], Max(s))]
<1>1. n \in Nat /\ DOMAIN Tail(places) = 1..n /\ TourBegin(places) \in S /\ \A x \in S, k \in 1..n : Then(x, k) \in S
  <2>1. Head(places) \in Places /\ Tail(places) \in Seq(Places)  OBVIOUS
  <2>2. TourBegin(places) \in Tours
    <3> DEFINE h == <<Head(places)>>
               l == Tail(places)
    <3>1. h \in Seq(Places) /\ h # <<>> /\ l \in Seq(Places)  BY <2>1
    <3>2. TourBegin(places) = [ordered |-> h, remaining |-> l]  BY DEF TourBegin
    <3> HIDE DEF h, l
    <3> QED  BY <3>1, <3>2 DEF Tours
  <2> QED  BY <2>2, VisitMoves
<1>2. TourEnd(places) = (CHOOSE iter : Folds(iter))[1..n]
  BY <1>1 DEF TourEnd, FoldLeft, MapThenFoldSet
<1> HIDE DEF n, S, Then
<1>3. F \in [S \X (1..n) -> S] /\ \A x \in S, k \in 1..n : F[<<x, k>>] = Then(x, k)
  BY <1>1
<1> HIDE DEF F
<1>4. \E iter : Folds(iter)
  <2>1. PICK iter : IsFold(iter, S, TourBegin(places), n, F)  BY <1>1, <1>3, FoldExists
  <2>2. ASSUME NEW s \in SUBSET (1..n), s # {}
        PROVE  iter[s] = Then(iter[s \ {Max(s)}], Max(s))
    <3>1. Max(s) \in 1..n  BY <1>1, <2>2, GreatestNumber
    <3> QED  BY <1>3, <2>1, <2>2, <3>1 DEF IsFold
  <2> QED  BY <2>1, <2>2 DEF IsFold
<1>5. PICK iter : Folds(iter) /\ TourEnd(places) = iter[1..n]
  <2> HIDE DEF Folds
  <2> QED  BY <1>2, <1>4
<1>6. Solves(iter, S, TourBegin(places), n, F)
  <2>1. ASSUME NEW s \in SUBSET (1..n), s # {}, iter[s \ {Max(s)}] \in S
        PROVE  iter[s] = F[<<iter[s \ {Max(s)}], Max(s)>>]
    <3>1. Max(s) \in 1..n  BY <1>1, <2>1, GreatestNumber
    <3> QED  BY <1>3, <1>5, <2>1, <3>1
  <2>2. iter[{}] = TourBegin(places)  BY <1>5
  <2> QED  BY <2>1, <2>2 DEF Solves
<1>7. Carried(P, S, TourBegin(places), n, F)
  <2>1. \A k \in 1..n, x \in S : <<k - 1, x>> \in P => <<k, Then(x, k)>> \in P
    BY DEF n, S, Then
  <2> QED  BY <1>3, <2>1 DEF Carried
<1>8. iter[1..n] \in S /\ <<n, iter[1..n]>> \in P
  <2> HIDE DEF Folds
  <2> QED  BY <1>1, <1>3, <1>6, <1>7, FoldRule
<1> QED  BY <1>5, <1>8 DEF n, S

LEMMA NearestNeighborKeeps ==
  ASSUME NEW places \in Seq(Places)
  PROVE  /\ nearest_neighbor(places) \in Seq(Places) /\ Len(nearest_neighbor(places)) = Len(places)
         /\ ToSet(nearest_neighbor(places)) = ToSet(places)
         /\ places # <<>> => nearest_neighbor(places)[1] = places[1]
         /\ IsInjective(places) => IsInjective(nearest_neighbor(places))
<1>1. CASE Len(places) < 2  BY <1>1 DEF nearest_neighbor
<1>2. CASE ~(Len(places) < 2)
  <2> DEFINE n == Len(places) - 1
             Apart(s, t) == IsInjective(s) /\ IsInjective(t) /\ ToSet(s) \cap ToSet(t) = {}
             P == { x \in (0..n) \X Tours :
                      /\ Len(x[2].ordered) = x[1] + 1 /\ Len(x[2].remaining) = n - x[1]
                      /\ ToSet(x[2].ordered) \cup ToSet(x[2].remaining) = ToSet(places)
                      /\ x[2].ordered[1] = places[1]
                      /\ IsInjective(places) => Apart(x[2].ordered, x[2].remaining) }
  <2>1. n \in Nat /\ n > 0 /\ DOMAIN places = 1..n + 1 /\ Head(places) \in Places /\ Head(places) = places[1]
        /\ Tail(places) \in Seq(Places) /\ Len(Tail(places)) = n
        /\ \A i \in 1..n : Tail(places)[i] = places[i + 1]
    BY <1>2
  <2>2. nearest_neighbor(places) = TourEnd(places).ordered
    BY <1>2 DEF nearest_neighbor, TourEnd, TourBegin
  <2>3. <<0, TourBegin(places)>> \in P
    <3> DEFINE h == <<Head(places)>>
               l == Tail(places)
    <3>1. h \in Seq(Places) /\ Len(h) = 1 /\ h[1] = places[1] /\ DOMAIN h = 1..1 /\ h # <<>>  BY <2>1
    <3>2. l \in Seq(Places) /\ Len(l) = n /\ DOMAIN l = 1..n /\ \A i \in 1..n : l[i] = places[i + 1]
      BY <2>1
    <3>3. TourBegin(places) = [ordered |-> h, remaining |-> l]  BY DEF TourBegin
    <3> HIDE DEF h, l, n
    <3>4. ToSet(h) = {places[1]}
      <4>1. \A i \in 1..1 : i = 1  OBVIOUS
      <4>2. 1 \in 1..1  OBVIOUS
      <4> QED  BY <3>1, <4>1, <4>2 DEF ToSet
    <3>5. ToSet(h) \cup ToSet(l) = ToSet(places)
      <4>1. ASSUME NEW i \in 1..n PROVE l[i] \in ToSet(places)
        <5>1. i + 1 \in DOMAIN places /\ l[i] = places[i + 1]  BY <2>1, <3>2
        <5> QED  BY <5>1 DEF ToSet
      <4>2. ASSUME NEW i \in 1..n + 1 PROVE places[i] \in {places[1]} \cup ToSet(l)
        <5>1. CASE i = 1  BY <5>1
        <5>2. CASE i # 1
          <6>1. i - 1 \in DOMAIN l /\ l[i - 1] = places[(i - 1) + 1] /\ (i - 1) + 1 = i  BY <2>1, <3>2, <5>2
          <6> QED  BY <6>1 DEF ToSet
        <5> QED  BY <5>1, <5>2
      <4>3. 1 \in DOMAIN places  BY <2>1
      <4>4. places[1] \in ToSet(places)  BY <4>3 DEF ToSet
      <4>5. ToSet(l) \subseteq ToSet(places)  BY <3>2, <4>1 DEF ToSet
      <4>6. ToSet(places) \subseteq {places[1]} \cup ToSet(l)  BY <2>1, <4>2 DEF ToSet
      <4> QED  BY <3>4, <4>4, <4>5, <4>6
    <3>6. ASSUME IsInjective(places) PROVE Apart(h, l)
      <4>1. \A i, j \in 1..n + 1 : places[i] = places[j] => i = j  BY <2>1, <3>6 DEF IsInjective
      <4>2. IsInjective(h)
        <5>1. \A i \in 1..1 : i = 1  OBVIOUS
        <5> QED  BY <3>1, <5>1 DEF IsInjective
      <4>3. IsInjective(l)
        <5>1. ASSUME NEW i \in 1..n, NEW j \in 1..n, l[i] = l[j] PROVE i = j
          <6>1. i + 1 \in 1..n + 1 /\ j + 1 \in 1..n + 1 /\ places[i + 1] = places[j + 1]
            BY <2>1, <3>2, <5>1
          <6>2. i + 1 = j + 1  BY <4>1, <6>1
          <6> QED  BY <6>2
        <5> QED  BY <3>2, <5>1 DEF IsInjective
      <4>4. ASSUME NEW i \in 1..n PROVE l[i] # places[1]
        <5>1. i + 1 \in 1..n + 1 /\ 1 \in 1..n + 1 /\ i + 1 # 1 /\ l[i] = places[i + 1]  BY <2>1, <3>2
        <5> QED  BY <4>1, <5>1
      <4>5. ToSet(h) \cap ToSet(l) = {}  BY <3>2, <3>4, <4>4 DEF ToSet
      <4> QED  BY <4>2, <4>3, <4>5
    <3>7. TourBegin(places) \in Tours /\ TourBegin(places).ordered = h /\ TourBegin(places).remaining = l
      BY <3>1, <3>2, <3>3 DEF Tours
    <3>8. <<0, TourBegin(places)>> \in (0..n) \X Tours  BY <2>1, <3>7
    <3>9. Len(h) = 0 + 1 /\ Len(l) = n - 0  BY <2>1, <3>1, <3>2
    <3> HIDE DEF Apart
    <3> QED  BY <3>1, <3>5, <3>6, <3>7, <3>8, <3>9
  <2>4. ASSUME NEW k \in 1..n, NEW t \in Tours, <<k - 1, t>> \in P
        PROVE  <<k, Visit(t)>> \in P
    <3>1. t.ordered \in Seq(Places) /\ t.remaining \in Seq(Places) /\ t.ordered # <<>>  BY DEF Tours
    <3>2. /\ Len(t.ordered) = k /\ Len(t.remaining) = n - (k - 1)
          /\ ToSet(t.ordered) \cup ToSet(t.remaining) = ToSet(places) /\ t.ordered[1] = places[1]
          /\ IsInjective(places) => Apart(t.ordered, t.remaining)
      <4>1. /\ Len(t.ordered) = (k - 1) + 1 /\ Len(t.remaining) = n - (k - 1)
            /\ ToSet(t.ordered) \cup ToSet(t.remaining) = ToSet(places) /\ t.ordered[1] = places[1]
            /\ IsInjective(places) => Apart(t.ordered, t.remaining)
        <5> HIDE DEF Apart, n
        <5> QED  BY <2>4
      <4>2. (k - 1) + 1 = k  OBVIOUS
      <4> QED  BY <4>1, <4>2
    <3>3. t.remaining # <<>>
      <4>1. k \in Int /\ n \in Int /\ k <= n  BY <2>1
      <4>2. n - (k - 1) > 0
        <5> HIDE DEF n
        <5> QED  BY <4>1
      <4>3. Len(t.remaining) > 0
        <5> HIDE DEF n
        <5> QED  BY <3>2, <4>2
      <4> QED  BY <3>1, <4>3
    <3>4. PICK i \in 1..Len(t.remaining) :
            Visit(t) = [ordered |-> Append(t.ordered, t.remaining[i]), remaining |-> RemoveAt(t.remaining, i)]
      BY <3>3, VisitMoves
    <3> DEFINE p == t.remaining[i]
               o == Append(t.ordered, p)
               r == RemoveAt(t.remaining, i)
    <3>5. p \in Places  BY <3>1, <3>4
    <3>6. /\ o \in Seq(Places) /\ Len(o) = k + 1 /\ ToSet(o) = ToSet(t.ordered) \cup {p}
          /\ IsInjective(t.ordered) /\ p \notin ToSet(t.ordered) => IsInjective(o)
      BY <3>1, <3>2, <3>5, Appended
    <3>7. /\ r \in Seq(Places) /\ Len(r) = (n - (k - 1)) - 1 /\ ToSet(t.remaining) = ToSet(r) \cup {p}
          /\ IsInjective(t.remaining) => IsInjective(r) /\ p \notin ToSet(r)
      <4> DEFINE u == t.remaining
      <4>1. u \in Seq(Places) /\ i \in 1..Len(u) /\ Len(u) = n - (k - 1) /\ p = u[i] /\ r = RemoveAt(u, i)
        BY <3>1, <3>2, <3>4
      <4> HIDE DEF n, p, r, u
      <4>2. r \in Seq(Places) /\ Len(r) = Len(u) - 1 /\ ToSet(u) = ToSet(r) \cup {p}
            /\ (IsInjective(u) => IsInjective(r) /\ p \notin ToSet(r))
        BY <4>1, Removed
      <4> QED  BY <4>1, <4>2 DEF u
    <3>8. o[1] = places[1]
      <4>1. 1 \in 1..Len(t.ordered)  BY <3>2
      <4> QED  BY <3>1, <3>2, <3>5, <4>1
    <3>9. Visit(t) \in Tours /\ Visit(t) = [ordered |-> o, remaining |-> r]  BY <3>4, VisitMoves
    <3> HIDE DEF o, r, p, n
    <3>10. Len(r) = n - k /\ k \in 0..n  BY <2>1, <3>7
    <3>11. IsInjective(places) => Apart(o, r)  BY <3>2, <3>6, <3>7
    <3>12. ToSet(o) \cup ToSet(r) = ToSet(places)  BY <3>2, <3>6, <3>7
    <3>13. <<k, Visit(t)>> \in (0..n) \X Tours  BY <3>9, <3>10
    <3> HIDE DEF Apart
    <3> QED  BY <3>6, <3>8, <3>9, <3>10, <3>11, <3>12, <3>13
  <2>5. TourEnd(places) \in Tours /\ <<n, TourEnd(places)>> \in P
    <3> HIDE DEF P
    <3> QED  BY <1>2, <2>3, <2>4, VisitsRule
  <2> DEFINE e == TourEnd(places)
  <2>6. e.ordered \in Seq(Places) /\ e.remaining \in Seq(Places)  BY <2>5 DEF Tours
  <2>7. Len(e.ordered) = n + 1 /\ Len(e.remaining) = 0
        /\ ToSet(e.ordered) \cup ToSet(e.remaining) = ToSet(places) /\ e.ordered[1] = places[1]
        /\ (IsInjective(places) => IsInjective(e.ordered))
    <3>1. Len(e.remaining) = n - n  BY <2>5
    <3>2. n - n = 0  BY <2>1
    <3> QED  BY <2>5, <3>1, <3>2
  <2> HIDE DEF e
  <2>8. ToSet(e.remaining) = {}  BY <2>6, <2>7 DEF ToSet
  <2>9. n + 1 = Len(places)  BY <1>2
  <2> HIDE DEF n
  <2> QED  BY <2>2, <2>6, <2>7, <2>8, <2>9 DEF e
<1> QED  BY <1>1, <1>2

-----------------------------------------------------------------------------
(* Improving a tour.                                                        *)
LEMMA HopsOf ==
  ASSUME NEW route \in Seq(Places)
  PROVE  /\ Hops(route) \in Seq(Places \X Places)
         /\ Len(Hops(route)) = IF route = <<>> THEN 0 ELSE Len(route) - 1
         /\ \A i \in 1..Len(Hops(route)) : Hops(route)[i] = <<route[i], route[i + 1]>>
<1>1. CASE route = <<>>  BY <1>1 DEF Hops
<1>2. CASE route # <<>>
  <2> DEFINE n == Len(route) - 1
             h == [i \in 1..n |-> <<route[i], route[i + 1]>>]
  <2>1. n \in Nat /\ \A i \in 1..n : route[i] \in Places /\ route[i + 1] \in Places  BY <1>2
  <2>2. Hops(route) = h  BY <1>2 DEF Hops
  <2>3. h \in [1..n -> Places \X Places]  BY <2>1
  <2>4. h \in Seq(Places \X Places) /\ Len(h) = n /\ \A i \in 1..n : h[i] = <<route[i], route[i + 1]>>
    <3> HIDE DEF n
    <3> QED  BY <2>1, <2>3
  <2> HIDE DEF h
  <2> QED  BY <1>2, <2>2, <2>4
<1> QED  BY <1>1, <1>2

LEMMA LengthIsNumber ==
  ASSUME NEW route \in Seq(Places)
  PROVE  route_length(route) \in Int
<1> DEFINE n == Len(Hops(route))
           S == Int
           Then(x, k) == x + Metres(Hops(route)[k][1], Hops(route)[k][2])
           F == [x \in S \X (1..n) |-> Then(x[1], x[2])]
           Folds(iter) == iter = [s \in SUBSET (1..n) |->
                                    IF s = {} THEN 0 ELSE Then(iter[s \ {Max(s)}], Max(s))]
<1>1. n \in Nat /\ DOMAIN Hops(route) = 1..n /\ 0 \in S /\ \A x \in S, k \in 1..n : Then(x, k) \in S
  <2>1. \A hop \in Places \X Places : Metres(hop[1], hop[2]) \in Nat
    BY DistanceAssumption DEF Metres
  <2>2. Hops(route) \in Seq(Places \X Places)  BY HopsOf
  <2>3. n \in Nat /\ DOMAIN Hops(route) = 1..n /\ \A k \in 1..n : Hops(route)[k] \in Places \X Places
    BY <2>2
  <2> QED  BY <2>1, <2>3
<1>2. route_length(route) = (CHOOSE iter : Folds(iter))[1..n]
  BY <1>1 DEF route_length, Total, FoldLeft, MapThenFoldSet
<1> HIDE DEF n, S, Then
<1>3. F \in [S \X (1..n) -> S] /\ \A x \in S, k \in 1..n : F[<<x, k>>] = Then(x, k)
  BY <1>1
<1> HIDE DEF F
<1>4. \E iter : Folds(iter)
  <2>1. PICK iter : IsFold(iter, S, 0, n, F)  BY <1>1, <1>3, FoldExists
  <2>2. ASSUME NEW s \in SUBSET (1..n), s # {}
        PROVE  iter[s] = Then(iter[s \ {Max(s)}], Max(s))
    <3>1. Max(s) \in 1..n  BY <1>1, <2>2, GreatestNumber
    <3> QED  BY <1>3, <2>1, <2>2, <3>1 DEF IsFold
  <2> QED  BY <2>1, <2>2 DEF IsFold
<1>5. PICK iter : Folds(iter) /\ route_length(route) = iter[1..n]
  <2> HIDE DEF Folds
  <2> QED  BY <1>2, <1>4
<1>6. Solves(iter, S, 0, n, F)
  <2>1. ASSUME NEW s \in SUBSET (1..n), s # {}, iter[s \ {Max(s)}] \in S
        PROVE  iter[s] = F[<<iter[s \ {Max(s)}], Max(s)>>]
    <3>1. Max(s) \in 1..n  BY <1>1, <2>1, GreatestNumber
    <3> QED  BY <1>3, <1>5, <2>1, <3>1
  <2>2. iter[{}] = 0  BY <1>5
  <2> QED  BY <2>1, <2>2 DEF Solves
<1>7. iter[1..n] \in S
  <2> HIDE DEF Folds
  <2> QED  BY <1>1, <1>3, <1>6, FoldStays
<1> QED  BY <1>5, <1>7 DEF S

\* The same places from the same first one, on a way that is shorter by more than
\* a metre, or the very same way.
Improved(route) ==
  { r \in Seq(Places) :
      /\ Len(r) = Len(route) /\ ToSet(r) = ToSet(route)
      /\ route # <<>> => r[1] = route[1]
      /\ IsInjective(route) => IsInjective(r)
      /\ r = route \/ route_length(r) + 1 < route_length(route) }

LEMMA ItselfImproved == ASSUME NEW route \in Seq(Places) PROVE route \in Improved(route)
BY DEF Improved

LEMMA ImprovedFurther ==
  ASSUME NEW route \in Seq(Places), NEW r \in Improved(route), NEW q \in Improved(r)
  PROVE  q \in Improved(route)
<1>1. r \in Seq(Places) /\ q \in Seq(Places)  BY DEF Improved
<1>2. route_length(route) \in Int /\ route_length(r) \in Int /\ route_length(q) \in Int
  BY <1>1, LengthIsNumber
<1>3. /\ q = r \/ route_length(q) + 1 < route_length(r)
      /\ r = route \/ route_length(r) + 1 < route_length(route)
  BY DEF Improved
<1>4. q = route \/ route_length(q) + 1 < route_length(route)
  <2>1. CASE q = r  BY <1>3, <2>1
  <2>2. CASE r = route  BY <1>3, <2>2
  <2>3. CASE route_length(q) + 1 < route_length(r) /\ route_length(r) + 1 < route_length(route)
    BY <1>2, <2>3
  <2> QED  BY <1>3, <2>1, <2>2, <2>3
<1>5. route # <<>> => r # <<>> /\ r[1] = route[1]  BY <1>1 DEF Improved
<1> QED  BY <1>1, <1>4, <1>5 DEF Improved

LEMMA TryImproves ==
  ASSUME NEW route \in Seq(Places), NEW a \in 2..Len(route), NEW z \in a..Len(route)
  PROVE  Try(route, a, z) \in Improved(route)
<1> DEFINE r == Reversed(route, a, z)
<1>1. /\ r \in Seq(Places) /\ Len(r) = Len(route) /\ ToSet(r) = ToSet(route) /\ r[1] = route[1]
      /\ IsInjective(route) => IsInjective(r)
  BY Turned
<1>2. Try(route, a, z) = IF route_length(r) + 1 < route_length(route) THEN r ELSE route
  BY DEF Try
<1> HIDE DEF r
<1>3. route_length(route) \in Int /\ route_length(r) \in Int  BY <1>1, LengthIsNumber
<1>4. CASE route_length(r) + 1 < route_length(route)
  <2>1. r \in Improved(route)  BY <1>1, <1>4 DEF Improved
  <2> QED  BY <1>2, <1>4, <2>1
<1>5. CASE ~(route_length(r) + 1 < route_length(route))  BY <1>2, <1>5, ItselfImproved
<1> QED  BY <1>4, <1>5

LEMMA TryEndsImproves ==
  ASSUME NEW route \in Seq(Places), NEW first \in 2..Len(route)
  PROVE  TryEnds(route, first) \in Improved(route)
<1> DEFINE n == Len(route) - first
           S == Improved(route)
           Then(x, k) == Try(x, first, Ends(first, Len(route))[k])
           F == [x \in S \X (1..n) |-> Then(x[1], x[2])]
           Folds(iter) == iter = [s \in SUBSET (1..n) |->
                                    IF s = {} THEN route ELSE Then(iter[s \ {Max(s)}], Max(s))]
<1>1. n \in Nat /\ DOMAIN Ends(first, Len(route)) = 1..n /\ route \in S /\ \A x \in S, k \in 1..n : Then(x, k) \in S
  <2>1. n \in Nat /\ DOMAIN Ends(first, Len(route)) = 1..n  BY DEF Ends
  <2>2. ASSUME NEW x \in Improved(route), NEW k \in 1..n
        PROVE  Try(x, first, Ends(first, Len(route))[k]) \in Improved(route)
    <3>1. x \in Seq(Places) /\ Len(x) = Len(route)  BY DEF Improved
    <3>2. Ends(first, Len(route))[k] = first + k  BY DEF Ends
    <3>3. first + k \in first..Len(route)  BY <2>1
    <3>4. Try(x, first, first + k) \in Improved(x)  BY <3>1, <3>3, TryImproves
    <3> QED  BY <3>2, <3>4, ImprovedFurther
  <2> QED  BY <2>1, <2>2, ItselfImproved
<1>2. TryEnds(route, first) = (CHOOSE iter : Folds(iter))[1..n]
  BY <1>1 DEF TryEnds, FoldLeft, MapThenFoldSet
<1> HIDE DEF n, S, Then
<1>3. F \in [S \X (1..n) -> S] /\ \A x \in S, k \in 1..n : F[<<x, k>>] = Then(x, k)
  BY <1>1
<1> HIDE DEF F
<1>4. \E iter : Folds(iter)
  <2>1. PICK iter : IsFold(iter, S, route, n, F)  BY <1>1, <1>3, FoldExists
  <2>2. ASSUME NEW s \in SUBSET (1..n), s # {}
        PROVE  iter[s] = Then(iter[s \ {Max(s)}], Max(s))
    <3>1. Max(s) \in 1..n  BY <1>1, <2>2, GreatestNumber
    <3> QED  BY <1>3, <2>1, <2>2, <3>1 DEF IsFold
  <2> QED  BY <2>1, <2>2 DEF IsFold
<1>5. PICK iter : Folds(iter) /\ TryEnds(route, first) = iter[1..n]
  <2> HIDE DEF Folds
  <2> QED  BY <1>2, <1>4
<1>6. Solves(iter, S, route, n, F)
  <2>1. ASSUME NEW s \in SUBSET (1..n), s # {}, iter[s \ {Max(s)}] \in S
        PROVE  iter[s] = F[<<iter[s \ {Max(s)}], Max(s)>>]
    <3>1. Max(s) \in 1..n  BY <1>1, <2>1, GreatestNumber
    <3> QED  BY <1>3, <1>5, <2>1, <3>1
  <2>2. iter[{}] = route  BY <1>5
  <2> QED  BY <2>1, <2>2 DEF Solves
<1>7. iter[1..n] \in S
  <2> HIDE DEF Folds
  <2> QED  BY <1>1, <1>3, <1>6, FoldStays
<1> QED  BY <1>5, <1>7 DEF S

LEMMA PassImproves ==
  ASSUME NEW route \in Seq(Places)
  PROVE  Pass(route) \in Improved(route)
<1> DEFINE n == IF Len(route) < 3 THEN 0 ELSE Len(route) - 2
           S == Improved(route)
           Then(x, k) == TryEnds(x, Starts(Len(route))[k])
           F == [x \in S \X (1..n) |-> Then(x[1], x[2])]
           Folds(iter) == iter = [s \in SUBSET (1..n) |->
                                    IF s = {} THEN route ELSE Then(iter[s \ {Max(s)}], Max(s))]
<1>1. n \in Nat /\ DOMAIN Starts(Len(route)) = 1..n /\ route \in S /\ \A x \in S, k \in 1..n : Then(x, k) \in S
  <2>1. n \in Nat  OBVIOUS
  <2>2. DOMAIN Starts(Len(route)) = 1..n  BY DEF Starts
  <2>3. ASSUME NEW x \in Improved(route), NEW k \in 1..n
        PROVE  TryEnds(x, Starts(Len(route))[k]) \in Improved(route)
    <3>1. x \in Seq(Places) /\ Len(x) = Len(route)  BY DEF Improved
    <3>2. Starts(Len(route))[k] = k + 1 /\ k + 1 \in 2..Len(route)  BY <2>2 DEF Starts
    <3>3. TryEnds(x, k + 1) \in Improved(x)  BY <3>1, <3>2, TryEndsImproves
    <3> QED  BY <3>2, <3>3, ImprovedFurther
  <2> QED  BY <2>1, <2>2, <2>3, ItselfImproved
<1>2. Pass(route) = (CHOOSE iter : Folds(iter))[1..n]
  BY <1>1 DEF Pass, FoldLeft, MapThenFoldSet
<1> HIDE DEF n, S, Then
<1>3. F \in [S \X (1..n) -> S] /\ \A x \in S, k \in 1..n : F[<<x, k>>] = Then(x, k)
  BY <1>1
<1> HIDE DEF F
<1>4. \E iter : Folds(iter)
  <2>1. PICK iter : IsFold(iter, S, route, n, F)  BY <1>1, <1>3, FoldExists
  <2>2. ASSUME NEW s \in SUBSET (1..n), s # {}
        PROVE  iter[s] = Then(iter[s \ {Max(s)}], Max(s))
    <3>1. Max(s) \in 1..n  BY <1>1, <2>2, GreatestNumber
    <3> QED  BY <1>3, <2>1, <2>2, <3>1 DEF IsFold
  <2> QED  BY <2>1, <2>2 DEF IsFold
<1>5. PICK iter : Folds(iter) /\ Pass(route) = iter[1..n]
  <2> HIDE DEF Folds
  <2> QED  BY <1>2, <1>4
<1>6. Solves(iter, S, route, n, F)
  <2>1. ASSUME NEW s \in SUBSET (1..n), s # {}, iter[s \ {Max(s)}] \in S
        PROVE  iter[s] = F[<<iter[s \ {Max(s)}], Max(s)>>]
    <3>1. Max(s) \in 1..n  BY <1>1, <2>1, GreatestNumber
    <3> QED  BY <1>3, <1>5, <2>1, <3>1
  <2>2. iter[{}] = route  BY <1>5
  <2> QED  BY <2>1, <2>2 DEF Solves
<1>7. iter[1..n] \in S
  <2> HIDE DEF Folds
  <2> QED  BY <1>1, <1>3, <1>6, FoldStays
<1> QED  BY <1>5, <1>7 DEF S

LEMMA TwoOptImproves ==
  ASSUME NEW places \in Seq(Places)
  PROVE  LET r == limited_two_opt(places)
         IN  /\ r \in Improved(places)
             /\ Pass(r) = r \/ route_length(r) + 2 * Passes <= route_length(places)
<1> DEFINE n == Passes
           S == Improved(places)
           Then(x, k) == Pass(x)
           P == { x \in (0..n) \X S :
                    Pass(x[2]) = x[2] \/ route_length(x[2]) + 2 * x[1] <= route_length(places) }
           F == [x \in S \X (1..n) |-> Then(x[1], x[2])]
           Folds(iter) == iter = [s \in SUBSET (1..n) |->
                                    IF s = {} THEN places ELSE Then(iter[s \ {Max(s)}], Max(s))]
<1>1. n \in Nat /\ DOMAIN [k \in 1..Passes |-> k] = 1..n /\ places \in S /\ \A x \in S, k \in 1..n : Then(x, k) \in S
  <2>1. n \in Nat  BY DEF Passes
  <2>2. ASSUME NEW x \in Improved(places) PROVE Pass(x) \in Improved(places)
    <3>1. x \in Seq(Places)  BY DEF Improved
    <3> QED  BY <3>1, PassImproves, ImprovedFurther
  <2> QED  BY <2>1, <2>2, ItselfImproved
<1>2. limited_two_opt(places) = (CHOOSE iter : Folds(iter))[1..n]
  BY <1>1 DEF limited_two_opt, FoldLeft, MapThenFoldSet
<1>3. ASSUME NEW k \in 1..n, NEW x \in S, <<k - 1, x>> \in P
      PROVE  <<k, Pass(x)>> \in P
  <2>1. x \in Seq(Places) /\ Pass(x) \in S /\ Pass(x) \in Improved(x) /\ Pass(x) \in Seq(Places)
    BY <1>1, PassImproves DEF Improved
  <2>2. /\ route_length(x) \in Int /\ route_length(Pass(x)) \in Int /\ route_length(places) \in Int
        /\ k \in Nat /\ k \in 0..n
    BY <1>1, <2>1, LengthIsNumber
  <2>3. Pass(x) = x \/ route_length(x) + 2 * (k - 1) <= route_length(places)  BY <1>3
  <2>4. Pass(x) = x \/ route_length(Pass(x)) + 1 < route_length(x)  BY <2>1 DEF Improved
  <2>5. CASE Pass(x) = x
    <3>1. Pass(Pass(x)) = Pass(x)  BY <2>5
    <3> QED  BY <2>1, <2>2, <3>1
  <2>6. CASE Pass(x) # x
    <3>1. route_length(Pass(x)) + 2 * k <= route_length(places)
      <4> DEFINE l == route_length(places)
                 lx == route_length(x)
                 lp == route_length(Pass(x))
      <4>1. lx + 2 * (k - 1) <= l /\ lp + 1 < lx /\ l \in Int /\ lx \in Int /\ lp \in Int
        BY <2>2, <2>3, <2>4, <2>6
      <4> HIDE DEF l, lx, lp
      <4>2. lp + 2 * k <= l  BY <2>2, <4>1
      <4> QED  BY <4>2 DEF l, lp
    <3> QED  BY <2>1, <2>2, <3>1
  <2> QED  BY <2>5, <2>6
<1>4. <<0, places>> \in P
  <2>1. route_length(places) \in Int  BY LengthIsNumber
  <2>2. route_length(places) + 2 * 0 <= route_length(places)  BY <2>1
  <2>3. 0 \in 0..n  BY <1>1
  <2> QED  BY <1>1, <2>2, <2>3
<1>5. ASSUME NEW r \in S, <<n, r>> \in P
      PROVE  Pass(r) = r \/ route_length(r) + 2 * Passes <= route_length(places)
  BY <1>5
<1>6. \A x, k : Then(x, k) = Pass(x)  OBVIOUS
<1> HIDE DEF n, S, Then, P
<1>7. F \in [S \X (1..n) -> S] /\ \A x \in S, k \in 1..n : F[<<x, k>>] = Then(x, k)
  BY <1>1
<1> HIDE DEF F
<1>8. \E iter : Folds(iter)
  <2>1. PICK iter : IsFold(iter, S, places, n, F)  BY <1>1, <1>7, FoldExists
  <2>2. ASSUME NEW s \in SUBSET (1..n), s # {}
        PROVE  iter[s] = Then(iter[s \ {Max(s)}], Max(s))
    <3>1. Max(s) \in 1..n  BY <1>1, <2>2, GreatestNumber
    <3> QED  BY <1>7, <2>1, <2>2, <3>1 DEF IsFold
  <2> QED  BY <2>1, <2>2 DEF IsFold
<1>9. PICK iter : Folds(iter) /\ limited_two_opt(places) = iter[1..n]
  <2> HIDE DEF Folds
  <2> QED  BY <1>2, <1>8
<1>10. Solves(iter, S, places, n, F)
  <2>1. ASSUME NEW s \in SUBSET (1..n), s # {}, iter[s \ {Max(s)}] \in S
        PROVE  iter[s] = F[<<iter[s \ {Max(s)}], Max(s)>>]
    <3>1. Max(s) \in 1..n  BY <1>1, <2>1, GreatestNumber
    <3> QED  BY <1>7, <1>9, <2>1, <3>1
  <2>2. iter[{}] = places  BY <1>9
  <2> QED  BY <2>1, <2>2 DEF Solves
<1>11. Carried(P, S, places, n, F)
  <2>1. ASSUME NEW k \in 1..n, NEW x \in S, <<k - 1, x>> \in P
        PROVE  <<k, F[<<x, k>>]>> \in P
    BY <1>3, <1>7, <1>6, <2>1
  <2> QED  BY <1>4, <2>1 DEF Carried
<1>12. iter[1..n] \in S /\ <<n, iter[1..n]>> \in P
  <2> HIDE DEF Folds
  <2> QED  BY <1>1, <1>7, <1>10, <1>11, FoldRule
<1> QED  BY <1>9, <1>12, <1>5 DEF S

\* The order of a day keeps its places and its first one.
LEMMA OrderedKeeps ==
  ASSUME NEW day \in Seq(Places)
  PROVE  /\ Ordered(day) \in Seq(Places) /\ Len(Ordered(day)) = Len(day) /\ ToSet(Ordered(day)) = ToSet(day)
         /\ day # <<>> => Ordered(day)[1] = day[1]
         /\ IsInjective(day) => IsInjective(Ordered(day))
         /\ route_length(Ordered(day)) <= route_length(nearest_neighbor(day))
         /\ \/ Pass(Ordered(day)) = Ordered(day)
            \/ route_length(Ordered(day)) + 2 * Passes <= route_length(nearest_neighbor(day))
<1> DEFINE r == nearest_neighbor(day)
<1>1. /\ r \in Seq(Places) /\ Len(r) = Len(day) /\ ToSet(r) = ToSet(day)
      /\ (day # <<>> => r[1] = day[1]) /\ (IsInjective(day) => IsInjective(r))
  BY NearestNeighborKeeps
<1>2. Ordered(day) = limited_two_opt(r)  BY DEF Ordered
<1> HIDE DEF r
<1> DEFINE o == Ordered(day)
<1>3. o \in Improved(r) /\ (Pass(o) = o \/ route_length(o) + 2 * Passes <= route_length(r))
  BY <1>1, <1>2, TwoOptImproves
<1>4. day # <<>> => r # <<>>  BY <1>1
<1> HIDE DEF o
<1>5. route_length(o) <= route_length(r)
  <2>1. o \in Seq(Places) /\ (o = r \/ route_length(o) + 1 < route_length(r))  BY <1>3 DEF Improved
  <2>2. route_length(o) \in Int /\ route_length(r) \in Int  BY <1>1, <2>1, LengthIsNumber
  <2> QED  BY <2>1, <2>2
<1>6. /\ o \in Seq(Places) /\ Len(o) = Len(day) /\ ToSet(o) = ToSet(day)
      /\ (day # <<>> => o[1] = day[1]) /\ (IsInjective(day) => IsInjective(o))
  BY <1>1, <1>3, <1>4 DEF Improved
<1> QED  BY <1>3, <1>5, <1>6 DEF o, r

-----------------------------------------------------------------------------
(* Arranging the places: district by district, over the days.               *)
Sorted(places, must) == Filter(places, must) \o Filter(places, Places \ must)
Groups(sorted) == FoldLeft(LAMBDA grouped, p : WithGroup(grouped, p, sorted), <<>>, sorted)

LEMMA SortedKeeps ==
  ASSUME NEW places \in Seq(Places), NEW must
  PROVE  /\ Sorted(places, must) \in Seq(Places) /\ ToSet(Sorted(places, must)) = ToSet(places)
         /\ IsInjective(places) => IsInjective(Sorted(places, must))
<1> DEFINE a == Filter(places, must)
           b == Filter(places, Places \ must)
<1>1. /\ a \in Seq(Places) /\ ToSet(a) = ToSet(places) \cap must
      /\ b \in Seq(Places) /\ ToSet(b) = ToSet(places) \cap (Places \ must)
      /\ IsInjective(places) => IsInjective(a) /\ IsInjective(b)
  BY Filtered
<1>2. ToSet(places) \subseteq Places  BY DEF ToSet
<1>3. Sorted(places, must) = a \o b  BY DEF Sorted
<1> HIDE DEF a, b
<1>4. ToSet(a) \cap ToSet(b) = {} /\ ToSet(a) \cup ToSet(b) = ToSet(places)  BY <1>1, <1>2
<1>5. a \o b \in Seq(Places) /\ ToSet(a \o b) = ToSet(a) \cup ToSet(b)
  BY <1>1, Joined
<1>6. ASSUME IsInjective(places) PROVE IsInjective(a \o b)
  <2>1. IsInjective(a) /\ IsInjective(b)  BY <1>1, <1>6
  <2> QED  BY <1>1, <1>4, <2>1, Joined
<1> QED  BY <1>3, <1>4, <1>5, <1>6

LEMMA GroupAdded ==
  ASSUME NEW sorted \in Seq(Places), NEW grouped \in Seq(Places), NEW p
  PROVE  WithGroup(grouped, p, sorted) \in Seq(Places)
<1>1. Filter(sorted, { q \in Places : District[q] = District[p] }) \in Seq(Places)  BY Filtered
<1> QED  BY <1>1, Joined DEF WithGroup

LEMMA GroupsRule ==
  ASSUME NEW sorted \in Seq(Places), NEW P,
         <<0, <<>>>> \in P,
         \A k \in 1..Len(sorted), grouped \in Seq(Places) : <<k - 1, grouped>> \in P =>
           <<k, WithGroup(grouped, sorted[k], sorted)>> \in P
  PROVE  Groups(sorted) \in Seq(Places) /\ <<Len(sorted), Groups(sorted)>> \in P
<1> DEFINE n == Len(sorted)
           S == Seq(Places)
           Then(x, k) == WithGroup(x, sorted[k], sorted)
           F == [x \in S \X (1..n) |-> Then(x[1], x[2])]
           Folds(iter) == iter = [s \in SUBSET (1..n) |->
                                    IF s = {} THEN <<>> ELSE Then(iter[s \ {Max(s)}], Max(s))]
<1>1. n \in Nat /\ DOMAIN sorted = 1..n /\ <<>> \in S /\ \A x \in S, k \in 1..n : Then(x, k) \in S
  BY GroupAdded
<1>2. Groups(sorted) = (CHOOSE iter : Folds(iter))[1..n]
  BY <1>1 DEF Groups, FoldLeft, MapThenFoldSet
<1> HIDE DEF n, S, Then
<1>3. F \in [S \X (1..n) -> S] /\ \A x \in S, k \in 1..n : F[<<x, k>>] = Then(x, k)
  BY <1>1
<1> HIDE DEF F
<1>4. \E iter : Folds(iter)
  <2>1. PICK iter : IsFold(iter, S, <<>>, n, F)  BY <1>1, <1>3, FoldExists
  <2>2. ASSUME NEW s \in SUBSET (1..n), s # {}
        PROVE  iter[s] = Then(iter[s \ {Max(s)}], Max(s))
    <3>1. Max(s) \in 1..n  BY <1>1, <2>2, GreatestNumber
    <3> QED  BY <1>3, <2>1, <2>2, <3>1 DEF IsFold
  <2> QED  BY <2>1, <2>2 DEF IsFold
<1>5. PICK iter : Folds(iter) /\ Groups(sorted) = iter[1..n]
  <2> HIDE DEF Folds
  <2> QED  BY <1>2, <1>4
<1>6. Solves(iter, S, <<>>, n, F)
  <2>1. ASSUME NEW s \in SUBSET (1..n), s # {}, iter[s \ {Max(s)}] \in S
        PROVE  iter[s] = F[<<iter[s \ {Max(s)}], Max(s)>>]
    <3>1. Max(s) \in 1..n  BY <1>1, <2>1, GreatestNumber
    <3> QED  BY <1>3, <1>5, <2>1, <3>1
  <2>2. iter[{}] = <<>>  BY <1>5
  <2> QED  BY <2>1, <2>2 DEF Solves
<1>7. Carried(P, S, <<>>, n, F)
  <2>1. \A k \in 1..n, x \in S : <<k - 1, x>> \in P => <<k, Then(x, k)>> \in P
    BY DEF n, S, Then
  <2> QED  BY <1>3, <2>1 DEF Carried
<1>8. iter[1..n] \in S /\ <<n, iter[1..n]>> \in P
  <2> HIDE DEF Folds
  <2> QED  BY <1>1, <1>3, <1>6, <1>7, FoldRule
<1> QED  BY <1>5, <1>8 DEF n, S

LEMMA GroupsKeep ==
  ASSUME NEW sorted \in Seq(Places)
  PROVE  /\ Groups(sorted) \in Seq(Places) /\ ToSet(Groups(sorted)) = ToSet(sorted)
         /\ IsInjective(sorted) => IsInjective(Groups(sorted))
<1> DEFINE n == Len(sorted)
           Done(k) == { q \in ToSet(sorted) : \E i \in 1..k : District[q] = District[sorted[i]] }
           P == { x \in (0..n) \X Seq(Places) :
                    ToSet(x[2]) = Done(x[1]) /\ (IsInjective(sorted) => IsInjective(x[2])) }
<1>1. n \in Nat /\ DOMAIN sorted = 1..n /\ \A k \in 1..n : sorted[k] \in Places /\ sorted[k] \in ToSet(sorted)
  BY DEF ToSet
<1>2. <<0, <<>>>> \in P
  <2>1. Done(0) = {}  OBVIOUS
  <2>2. ToSet(<<>>) = {} /\ IsInjective(<<>>)  BY DEF ToSet, IsInjective
  <2>3. <<0, <<>>>> \in (0..n) \X Seq(Places)
    <3>1. 0 \in 0..n  BY <1>1
    <3>2. <<>> \in Seq(Places)  OBVIOUS
    <3> QED  BY <3>1, <3>2
  <2> HIDE DEF Done, n
  <2> QED  BY <2>1, <2>2, <2>3
<1>3. ASSUME NEW k \in 1..n, NEW g \in Seq(Places), <<k - 1, g>> \in P
      PROVE  <<k, WithGroup(g, sorted[k], sorted)>> \in P
  <2> DEFINE p == sorted[k]
             same == { q \in Places : District[q] = District[p] }
             more == Filter(sorted, same)
             next == WithGroup(g, p, sorted)
  <2>1. ToSet(g) = Done(k - 1) /\ (IsInjective(sorted) => IsInjective(g))
    <3> HIDE DEF Done, n
    <3> QED  BY <1>3
  <2>2. p \in Places /\ p \in ToSet(sorted) /\ ToSet(sorted) \subseteq Places  BY <1>1 DEF ToSet
  <2>3. Done(k) = Done(k - 1) \cup (ToSet(sorted) \cap same)
    <3>1. k \in 1..k /\ \A i \in 1..k - 1 : i \in 1..k  OBVIOUS
    <3>2. \A i \in 1..k : i \in 1..k - 1 \/ i = k  OBVIOUS
    <3> QED  BY <2>2, <3>1, <3>2
  <2>4. k \in 0..n  BY <1>1
  <2>5. next \in Seq(Places) /\ next = WithGroup(g, sorted[k], sorted)  BY GroupAdded
  <2>6. CASE p \in ToSet(g)
    <3>1. next = g  BY <2>6 DEF WithGroup
    <3>2. ToSet(sorted) \cap same \subseteq Done(k - 1)
      <4>1. PICK i \in 1..k - 1 : District[p] = District[sorted[i]]  BY <2>1, <2>6
      <4> QED  BY <4>1
    <3>3. Done(k) = ToSet(g)
      <4> HIDE DEF Done, same
      <4> QED  BY <2>1, <2>3, <3>2
    <3> HIDE DEF Done, same, n, next, p
    <3> QED  BY <2>1, <2>4, <2>5, <3>1, <3>3
  <2>7. CASE p \notin ToSet(g)
    <3>1. next = g \o more  BY <2>7 DEF WithGroup
    <3>2. /\ more \in Seq(Places) /\ ToSet(more) = ToSet(sorted) \cap same
          /\ IsInjective(sorted) => IsInjective(more)
      BY Filtered
    <3>3. ToSet(g) \cap ToSet(more) = {}
      <4>1. ASSUME NEW q \in ToSet(g), q \in same PROVE FALSE
        <5>1. PICK i \in 1..k - 1 : District[q] = District[sorted[i]]  BY <2>1, <4>1
        <5>2. District[p] = District[sorted[i]]  BY <4>1, <5>1
        <5>3. p \in Done(k - 1)  BY <2>2, <5>2
        <5> QED  BY <2>1, <2>7, <5>3
      <4> HIDE DEF more, same
      <4> QED  BY <3>2, <4>1
    <3> HIDE DEF Done, same, n, next, more, p
    <3>4. ToSet(next) = ToSet(g) \cup ToSet(more) /\ (IsInjective(sorted) => IsInjective(next))
      BY <2>1, <3>1, <3>2, <3>3, Joined
    <3>5. ToSet(next) = Done(k)  BY <2>1, <2>3, <3>2, <3>4
    <3> QED  BY <2>4, <2>5, <3>4, <3>5
  <2> QED  BY <2>6, <2>7
<1>4. Done(n) = ToSet(sorted)  BY <1>1 DEF ToSet
<1>5. Groups(sorted) \in Seq(Places) /\ <<n, Groups(sorted)>> \in P
  <2> HIDE DEF P, Done
  <2> QED  BY <1>2, <1>3, GroupsRule
<1> HIDE DEF Done
<1> QED  BY <1>4, <1>5

LEMMA GroupedKeeps ==
  ASSUME NEW places \in Seq(Places), NEW must
  PROVE  /\ Grouped(places, must) \in Seq(Places) /\ ToSet(Grouped(places, must)) = ToSet(places)
         /\ IsInjective(places) => IsInjective(Grouped(places, must))
<1>1. Grouped(places, must) = Groups(Sorted(places, must))  BY DEF Grouped, Groups, Sorted
<1> QED  BY <1>1, SortedKeeps, GroupsKeep

Days(m) == [1..m -> Seq(Places)]
All(days) == UNION { ToSet(days[d]) : d \in DOMAIN days }

\* A place more on one of the days.
LEMMA OnePlaceMore ==
  ASSUME NEW m \in Nat, NEW days \in Days(m), NEW d \in 1..m, NEW p \in Places, NEW new \in Days(m),
         new[d] = Append(days[d], p), \A e \in 1..m : e # d => new[e] = days[e]
  PROVE  /\ All(new) = All(days) \cup {p}
         /\ NoneTwice(days) /\ p \notin All(days) => NoneTwice(new)
<1>1. DOMAIN days = 1..m /\ DOMAIN new = 1..m /\ \A e \in 1..m : days[e] \in Seq(Places)  BY DEF Days
<1>2. /\ ToSet(new[d]) = ToSet(days[d]) \cup {p}
      /\ IsInjective(days[d]) /\ p \notin ToSet(days[d]) => IsInjective(new[d])
  BY <1>1, Appended
<1>3. \A e \in 1..m : ToSet(new[e]) = IF e = d THEN ToSet(days[e]) \cup {p} ELSE ToSet(days[e])
  BY <1>2
<1>4. All(new) = All(days) \cup {p}
  BY <1>1, <1>3 DEF All
<1>5. ASSUME NoneTwice(days), p \notin All(days) PROVE NoneTwice(new)
  <2>1. \A e \in 1..m : p \notin ToSet(days[e])  BY <1>1, <1>5 DEF All
  <2>2. \A e \in 1..m : IsInjective(new[e])
    BY <1>1, <1>2, <1>5, <2>1 DEF NoneTwice
  <2>3. ASSUME NEW e \in 1..m, NEW g \in 1..m, e # g PROVE ToSet(new[e]) \cap ToSet(new[g]) = {}
    <3>1. ToSet(days[e]) \cap ToSet(days[g]) = {}  BY <1>1, <1>5, <2>3 DEF NoneTwice
    <3> QED  BY <1>3, <2>1, <2>3, <3>1
  <2> QED  BY <1>1, <2>2, <2>3 DEF NoneTwice
<1> QED  BY <1>4, <1>5

States(m) == [days : Days(m), turn : Nat]

\* A day with room that is better than the others for a place, or as good.
LEMMA BestDay ==
  ASSUME NEW m \in Nat, NEW days \in Days(m), NEW forecast, NEW p, NEW room \in SUBSET (1..m), room # {}
  PROVE  \E d \in room : \A e \in room : Better(days, forecast, p, d, e)
<1> DEFINE pen(k) == IF forecast[k] # {} /\ p \notin forecast[k] THEN 1 ELSE 0
           len(k) == Len(days[k])
           Less(i, j) == \/ pen(i) < pen(j)
                         \/ pen(i) = pen(j) /\ len(i) < len(j)
                         \/ pen(i) = pen(j) /\ len(i) = len(j) /\ i <= j
           R == { x \in (1..m) \X (1..m) : Better(days, forecast, p, x[1], x[2]) }
<1>1. \A k \in 1..m : pen(k) \in Nat /\ len(k) \in Nat /\ k \in Nat  BY DEF Days
<1>2. \A i, j \in 1..m : Better(days, forecast, p, i, j) <=> Less(i, j)
  BY DEF Better
<1>3. \A i, j \in 1..m : <<i, j>> \in R <=> Less(i, j)
  BY <1>2
<1>0. \A i, j \in 1..m : <<i, j>> \in R => Better(days, forecast, p, i, j)  OBVIOUS
<1> HIDE DEF pen, len, R, Less
<1>4. ASSUME NEW i \in room, NEW j \in room PROVE <<i, j>> \in R \/ <<j, i>> \in R
  <2>1. i \in 1..m /\ j \in 1..m  OBVIOUS
  <2>2. pen(i) \in Nat /\ pen(j) \in Nat /\ len(i) \in Nat /\ len(j) \in Nat /\ i \in Nat /\ j \in Nat
    BY <1>1, <2>1
  <2>3. Less(i, j) \/ Less(j, i)  BY <2>2 DEF Less
  <2> QED  BY <1>3, <2>1, <2>3
<1>5. ASSUME NEW i \in room, NEW j \in room, NEW k \in room, <<i, j>> \in R, <<j, k>> \in R
      PROVE  <<i, k>> \in R
  <2>1. i \in 1..m /\ j \in 1..m /\ k \in 1..m  OBVIOUS
  <2>2. /\ pen(i) \in Nat /\ pen(j) \in Nat /\ pen(k) \in Nat /\ i \in Nat /\ j \in Nat /\ k \in Nat
        /\ len(i) \in Nat /\ len(j) \in Nat /\ len(k) \in Nat
    BY <1>1, <2>1
  <2>3. Less(i, j) /\ Less(j, k)  BY <1>3, <1>5, <2>1
  <2>4. Less(i, k)  BY <2>2, <2>3 DEF Less
  <2> QED  BY <1>3, <2>1, <2>4
<1>6. \E d \in room : \A e \in room : <<d, e>> \in R
  BY <1>4, <1>5, BestNumber
<1>7. \A i \in room : i \in 1..m  OBVIOUS
<1> QED  BY <1>0, <1>6, <1>7

\* A place goes to one of the days.
LEMMA PlaceOneKeeps ==
  ASSUME NEW m \in Nat, m > 0, NEW state \in States(m), NEW p \in Places, NEW forecast
  PROVE  /\ PlaceOne(state, p, forecast) \in States(m)
         /\ \E d \in 1..m : PlaceOne(state, p, forecast).days = [state.days EXCEPT ![d] = Append(@, p)]
<1> DEFINE days == state.days
           room == { d \in DOMAIN days : Len(days[d]) < Capacity.places }
           turn == (state.turn % Len(days)) + 1
           best == CHOOSE d \in room : \A e \in room : Better(days, forecast, p, d, e)
           new(d) == [days EXCEPT ![d] = Append(@, p)]
<1>1. days \in Days(m) /\ state.turn \in Nat /\ DOMAIN days = 1..m /\ Len(days) = m  BY DEF States, Days
<1>2. state = [days |-> days, turn |-> state.turn]  BY DEF States
<1>3. ASSUME NEW d \in 1..m PROVE new(d) \in Days(m)
  <2>1. days[d] \in Seq(Places)  BY <1>1 DEF Days
  <2>2. Append(days[d], p) \in Seq(Places)  BY <2>1
  <2> HIDE DEF days
  <2> QED  BY <1>1, <2>2 DEF Days
<1>4. CASE room = {}
  <2>1. PlaceOne(state, p, forecast) = [days |-> new(turn), turn |-> state.turn + 1]
    BY <1>4 DEF PlaceOne
  <2>2. turn \in 1..m
    <3>1. state.turn % m \in 0..m - 1  BY <1>1
    <3>2. turn = (state.turn % m) + 1  BY <1>1
    <3> HIDE DEF turn, days
    <3> QED  BY <3>1, <3>2
  <2>3. new(turn) \in Days(m) /\ state.turn + 1 \in Nat
    <3>1. state.turn + 1 \in Nat  BY <1>1
    <3> HIDE DEF new, turn, days
    <3> QED  BY <1>3, <2>2, <3>1
  <2>4. PlaceOne(state, p, forecast) \in States(m)
    <3> HIDE DEF new, turn, days
    <3> QED  BY <2>1, <2>3 DEF States
  <2>5. PlaceOne(state, p, forecast).days = [state.days EXCEPT ![turn] = Append(@, p)]  BY <2>1
  <2> HIDE DEF turn
  <2> QED  BY <2>2, <2>4, <2>5
<1>5. CASE room # {}
  <2>1. PlaceOne(state, p, forecast) = [state EXCEPT !.days[best] = Append(@, p)]
    BY <1>5 DEF PlaceOne
  <2>2. best \in room
    <3>1. room \in SUBSET (1..m)  BY <1>1
    <3> HIDE DEF room, days
    <3>2. \E d \in room : \A e \in room : Better(days, forecast, p, d, e)
      BY <1>1, <1>5, <3>1, BestDay
    <3> QED  BY <3>2
  <2>3. best \in 1..m  BY <1>1, <2>2
  <2> HIDE DEF best
  <2>4. PlaceOne(state, p, forecast) = [days |-> new(best), turn |-> state.turn]
    BY <1>2, <2>1
  <2>5. new(best) \in Days(m)  BY <1>3, <2>3
  <2>6. PlaceOne(state, p, forecast) \in States(m)
    <3> HIDE DEF new, days
    <3> QED  BY <1>1, <2>4, <2>5 DEF States
  <2>7. PlaceOne(state, p, forecast).days = [state.days EXCEPT ![best] = Append(@, p)]  BY <2>4
  <2> QED  BY <2>3, <2>6, <2>7
<1> QED  BY <1>4, <1>5

Nowhere(m) == [days |-> [d \in 1..m |-> <<>>], turn |-> 0]
Spread(grouped, m, forecast) == FoldLeft(LAMBDA s, p : PlaceOne(s, p, forecast), Nowhere(m), grouped)

LEMMA SpreadRule ==
  ASSUME NEW grouped \in Seq(Places), NEW m \in Nat, m > 0, NEW forecast, NEW P,
         <<0, Nowhere(m)>> \in P,
         \A k \in 1..Len(grouped), state \in States(m) : <<k - 1, state>> \in P =>
           <<k, PlaceOne(state, grouped[k], forecast)>> \in P
  PROVE  Spread(grouped, m, forecast) \in States(m) /\ <<Len(grouped), Spread(grouped, m, forecast)>> \in P
<1> DEFINE n == Len(grouped)
           S == States(m)
           Then(x, k) == PlaceOne(x, grouped[k], forecast)
           F == [x \in S \X (1..n) |-> Then(x[1], x[2])]
           Folds(iter) == iter = [s \in SUBSET (1..n) |->
                                    IF s = {} THEN Nowhere(m) ELSE Then(iter[s \ {Max(s)}], Max(s))]
<1>1. n \in Nat /\ DOMAIN grouped = 1..n /\ Nowhere(m) \in S /\ \A x \in S, k \in 1..n : Then(x, k) \in S
  <2>1. Nowhere(m) \in States(m)
    <3>1. <<>> \in Seq(Places)  OBVIOUS
    <3> QED  BY <3>1 DEF Nowhere, States, Days
  <2>2. n \in Nat /\ DOMAIN grouped = 1..n /\ \A k \in 1..n : grouped[k] \in Places  OBVIOUS
  <2> QED  BY <2>1, <2>2, PlaceOneKeeps
<1>2. Spread(grouped, m, forecast) = (CHOOSE iter : Folds(iter))[1..n]
  BY <1>1 DEF Spread, FoldLeft, MapThenFoldSet
<1> HIDE DEF n, S, Then
<1>3. F \in [S \X (1..n) -> S] /\ \A x \in S, k \in 1..n : F[<<x, k>>] = Then(x, k)
  BY <1>1
<1> HIDE DEF F
<1>4. \E iter : Folds(iter)
  <2>1. PICK iter : IsFold(iter, S, Nowhere(m), n, F)  BY <1>1, <1>3, FoldExists
  <2>2. ASSUME NEW s \in SUBSET (1..n), s # {}
        PROVE  iter[s] = Then(iter[s \ {Max(s)}], Max(s))
    <3>1. Max(s) \in 1..n  BY <1>1, <2>2, GreatestNumber
    <3> QED  BY <1>3, <2>1, <2>2, <3>1 DEF IsFold
  <2> QED  BY <2>1, <2>2 DEF IsFold
<1>5. PICK iter : Folds(iter) /\ Spread(grouped, m, forecast) = iter[1..n]
  <2> HIDE DEF Folds
  <2> QED  BY <1>2, <1>4
<1>6. Solves(iter, S, Nowhere(m), n, F)
  <2>1. ASSUME NEW s \in SUBSET (1..n), s # {}, iter[s \ {Max(s)}] \in S
        PROVE  iter[s] = F[<<iter[s \ {Max(s)}], Max(s)>>]
    <3>1. Max(s) \in 1..n  BY <1>1, <2>1, GreatestNumber
    <3> QED  BY <1>3, <1>5, <2>1, <3>1
  <2>2. iter[{}] = Nowhere(m)  BY <1>5
  <2> QED  BY <2>1, <2>2 DEF Solves
<1>7. Carried(P, S, Nowhere(m), n, F)
  <2>1. \A k \in 1..n, x \in S : <<k - 1, x>> \in P => <<k, Then(x, k)>> \in P
    BY DEF n, S, Then
  <2> QED  BY <1>3, <2>1 DEF Carried
<1>8. iter[1..n] \in S /\ <<n, iter[1..n]>> \in P
  <2> HIDE DEF Folds
  <2> QED  BY <1>1, <1>3, <1>6, <1>7, FoldRule
<1> QED  BY <1>5, <1>8 DEF n, S

LEMMA SpreadKeeps ==
  ASSUME NEW grouped \in Seq(Places), NEW m \in Nat, m > 0, NEW forecast
  PROVE  LET days == Spread(grouped, m, forecast).days
         IN  /\ days \in Days(m) /\ All(days) = ToSet(grouped)
             /\ IsInjective(grouped) => NoneTwice(days)
<1> DEFINE n == Len(grouped)
           Done(k) == { grouped[i] : i \in 1..k }
           P == { x \in (0..n) \X States(m) :
                    All(x[2].days) = Done(x[1]) /\ (IsInjective(grouped) => NoneTwice(x[2].days)) }
           spread == Spread(grouped, m, forecast)
<1>1. n \in Nat /\ DOMAIN grouped = 1..n /\ \A k \in 1..n : grouped[k] \in Places
  OBVIOUS
<1>2. <<0, Nowhere(m)>> \in P
  <2> DEFINE days == [d \in 1..m |-> <<>>]
  <2>1. <<>> \in Seq(Places)  OBVIOUS
  <2>2. Nowhere(m) = [days |-> days, turn |-> 0] /\ days \in Days(m)  BY <2>1 DEF Nowhere, Days
  <2>3. Done(0) = {} /\ 0 \in 0..n  BY <1>1
  <2>4. \A d \in DOMAIN days : days[d] = <<>>  OBVIOUS
  <2>5. ToSet(<<>>) = {} /\ IsInjective(<<>>)  BY DEF ToSet, IsInjective
  <2> HIDE DEF days, Done, n
  <2>6. All(days) = {} /\ NoneTwice(days)  BY <2>4, <2>5 DEF All, NoneTwice
  <2>7. Nowhere(m) \in States(m) /\ Nowhere(m).days = days  BY <2>2 DEF States
  <2> QED  BY <2>3, <2>6, <2>7
<1>3. ASSUME NEW k \in 1..n, NEW state \in States(m), <<k - 1, state>> \in P
      PROVE  <<k, PlaceOne(state, grouped[k], forecast)>> \in P
  <2> DEFINE p == grouped[k]
             next == PlaceOne(state, p, forecast)
             days == state.days
  <2>1. All(days) = Done(k - 1) /\ (IsInjective(grouped) => NoneTwice(days))
    <3> HIDE DEF Done, n
    <3> QED  BY <1>3
  <2>2. days \in Days(m)  BY DEF States
  <2>3. p \in Places  BY <1>1
  <2>4. next \in States(m) /\ \E d \in 1..m : next.days = [days EXCEPT ![d] = Append(@, p)]
    BY <2>3, PlaceOneKeeps
  <2>5. All(next.days) = All(days) \cup {p} /\ (NoneTwice(days) /\ p \notin All(days) => NoneTwice(next.days))
    <3> HIDE DEF p, next, days
    <3>1. PICK d \in 1..m : next.days = [days EXCEPT ![d] = Append(@, p)]  BY <2>4
    <3>2. next.days \in Days(m)  BY <2>4 DEF States
    <3>3. next.days[d] = Append(days[d], p) /\ \A e \in 1..m : e # d => next.days[e] = days[e]
      BY <2>2, <3>1 DEF Days
    <3> QED  BY <2>2, <2>3, <3>2, <3>3, OnePlaceMore
  <2>6. Done(k) = Done(k - 1) \cup {p}
    <3>1. \A i \in 1..k : i \in 1..k - 1 \/ i = k  OBVIOUS
    <3>2. k \in 1..k /\ \A i \in 1..k - 1 : i \in 1..k  OBVIOUS
    <3> QED  BY <3>1, <3>2
  <2>7. ASSUME IsInjective(grouped) PROVE p \notin Done(k - 1)
    <3>1. ASSUME NEW i \in 1..k - 1 PROVE grouped[i] # grouped[k]
      <4>1. i \in DOMAIN grouped /\ k \in DOMAIN grouped /\ i # k  BY <1>1
      <4> QED  BY <2>7, <4>1 DEF IsInjective
    <3> QED  BY <3>1
  <2>8. k \in 0..n /\ next = PlaceOne(state, grouped[k], forecast)  BY <1>1
  <2> HIDE DEF p, next, days, Done, n
  <2>9. All(next.days) = Done(k) /\ (IsInjective(grouped) => NoneTwice(next.days))
    BY <2>1, <2>5, <2>6, <2>7
  <2> QED  BY <2>4, <2>8, <2>9
<1>4. Done(n) = ToSet(grouped)  BY <1>1 DEF ToSet
<1>5. spread \in States(m) /\ <<n, spread>> \in P
  <2> HIDE DEF P, Done
  <2> QED  BY <1>2, <1>3, SpreadRule
<1> HIDE DEF Done, spread, n
<1>6. spread.days \in Days(m)  BY <1>5 DEF States
<1> QED  BY <1>4, <1>5, <1>6 DEF spread

\* A list without its last place.
LEMMA FrontAndLast ==
  ASSUME NEW s \in Seq(Places), s # <<>>
  PROVE  /\ Front(s) \in Seq(Places) /\ Last(s) \in Places /\ ToSet(s) = ToSet(Front(s)) \cup {Last(s)}
         /\ IsInjective(s) => IsInjective(Front(s)) /\ Last(s) \notin ToSet(Front(s))
<1> DEFINE n == Len(s)
           t == Front(s)
<1>1. /\ n \in Nat /\ n > 0 /\ DOMAIN s = 1..n /\ t \in Seq(Places) /\ DOMAIN t = 1..n - 1
      /\ Last(s) = s[n] /\ s[n] \in Places /\ \A i \in 1..n - 1 : t[i] = s[i]
  <2>1. n \in Nat /\ n > 0 /\ DOMAIN s = 1..n  OBVIOUS
  <2>2. n \in 1..n /\ 1..n - 1 \subseteq 1..n /\ n - 1 \in Nat  BY <2>1
  <2>3. s[n] \in Places  BY <2>1, <2>2
  <2>4. Last(s) = s[n]  BY DEF Last
  <2>5. t = SubSeq(s, 1, n - 1)  BY DEF Front
  <2>6. t \in Seq(Places) /\ Len(t) = n - 1 /\ \A i \in 1..n - 1 : t[i] = s[i]
    BY <2>1, <2>5
  <2>7. DOMAIN t = 1..n - 1  BY <2>6
  <2> QED  BY <2>1, <2>3, <2>4, <2>6, <2>7
<1> HIDE DEF n, t
<1>2. \A i \in 1..n : i \in 1..n - 1 \/ i = n  BY <1>1
<1>3. n \in 1..n /\ \A i \in 1..n - 1 : i \in 1..n /\ i # n  BY <1>1
<1>4. ToSet(s) = ToSet(t) \cup {s[n]}  BY <1>1, <1>2, <1>3 DEF ToSet
<1>5. ASSUME IsInjective(s) PROVE IsInjective(t) /\ s[n] \notin ToSet(t)
  <2>1. \A i, j \in 1..n : s[i] = s[j] => i = j  BY <1>1, <1>5 DEF IsInjective
  <2> QED  BY <1>1, <1>3, <2>1 DEF IsInjective, ToSet
<1> QED  BY <1>1, <1>4, <1>5 DEF t

\* The last place of one day moves to an empty one.
LEMMA OnePlaceMoved ==
  ASSUME NEW m \in Nat, NEW days \in Days(m), NEW d \in 1..m, NEW g \in 1..m, NEW new,
         days[d] = <<>>, days[g] # <<>>,
         DOMAIN new = 1..m, new[d] = <<Last(days[g])>>, new[g] = Front(days[g]),
         \A e \in 1..m : e # d /\ e # g => new[e] = days[e], new = [e \in 1..m |-> new[e]]
  PROVE  new \in Days(m) /\ All(new) = All(days) /\ (NoneTwice(days) => NoneTwice(new))
<1> DEFINE p == Last(days[g])
           f == Front(days[g])
<1>1. DOMAIN days = 1..m /\ d # g /\ days[g] \in Seq(Places)  BY DEF Days
<1>2. /\ f \in Seq(Places) /\ p \in Places /\ ToSet(days[g]) = ToSet(f) \cup {p}
      /\ IsInjective(days[g]) => IsInjective(f) /\ p \notin ToSet(f)
  BY <1>1, FrontAndLast
<1>3. <<p>> \in Seq(Places) /\ ToSet(<<p>>) = {p} /\ IsInjective(<<p>>) /\ ToSet(<<>>) = {}
  BY <1>2 DEF ToSet, IsInjective
<1>4. /\ new \in Days(m) /\ DOMAIN new = 1..m /\ new[d] = <<p>> /\ new[g] = f
      /\ \A e \in 1..m : e # d /\ e # g => new[e] = days[e]
  <2>1. new[d] = <<p>> /\ new[g] = f  OBVIOUS
  <2> HIDE DEF p, f
  <2>2. \A e \in 1..m : new[e] \in Seq(Places)
    <3>1. ASSUME NEW e \in 1..m PROVE new[e] \in Seq(Places)
      <4>1. days[e] \in Seq(Places)  BY DEF Days
      <4> QED  BY <1>2, <1>3, <2>1, <4>1
    <3> QED  BY <3>1
  <2>3. new \in Days(m)  BY <2>2 DEF Days
  <2> QED  BY <2>1, <2>3
<1> HIDE DEF p, f
<1>5. \A e \in 1..m : ToSet(new[e]) = IF e = d THEN {p} ELSE IF e = g THEN ToSet(f) ELSE ToSet(days[e])
  BY <1>3, <1>4
<1>6. All(new) = All(days)
  <2>1. \A e \in 1..m : ToSet(new[e]) \subseteq All(days)
    BY <1>1, <1>2, <1>5 DEF All
  <2>2. \A e \in 1..m : ToSet(days[e]) \subseteq All(new)
    <3>1. ToSet(days[d]) = {}  BY <1>3
    <3>2. ToSet(days[g]) = ToSet(new[g]) \cup ToSet(new[d])  BY <1>1, <1>2, <1>5
    <3>3. \A e \in 1..m : ToSet(new[e]) \subseteq All(new)  BY <1>4 DEF All
    <3>4. ToSet(days[g]) \subseteq All(new) /\ ToSet(days[d]) \subseteq All(new)  BY <3>1, <3>2, <3>3
    <3>5. ASSUME NEW e \in 1..m, e # d, e # g PROVE ToSet(days[e]) \subseteq All(new)
      BY <1>5, <3>3, <3>5
    <3> QED  BY <3>4, <3>5
  <2>3. All(new) = UNION { ToSet(new[e]) : e \in 1..m } /\ All(days) = UNION { ToSet(days[e]) : e \in 1..m }
    BY <1>1, <1>4 DEF All
  <2>4. All(new) \subseteq All(days)  BY <2>1, <2>3
  <2>5. All(days) \subseteq All(new)  BY <2>2, <2>3
  <2> QED  BY <2>4, <2>5
<1>7. ASSUME NoneTwice(days) PROVE NoneTwice(new)
  <2>1. /\ \A e \in 1..m : IsInjective(days[e])
        /\ \A e, h \in 1..m : e # h => ToSet(days[e]) \cap ToSet(days[h]) = {}
    BY <1>1, <1>7 DEF NoneTwice
  <2>2. \A e \in 1..m : IsInjective(new[e])  BY <1>2, <1>3, <1>4, <2>1
  <2>3. p \notin ToSet(f) /\ p \in ToSet(days[g]) /\ ToSet(f) \subseteq ToSet(days[g])  BY <1>2, <2>1
  <2>4. ASSUME NEW e \in 1..m, NEW h \in 1..m, e # h PROVE ToSet(new[e]) \cap ToSet(new[h]) = {}
    <3>1. ToSet(days[e]) \cap ToSet(days[h]) = {}  BY <2>1, <2>4
    <3>2. \A x \in 1..m : x # g => p \notin ToSet(days[x])  BY <2>1, <2>3
    <3>3. \A x \in 1..m : x # d => ToSet(new[x]) \subseteq ToSet(days[x]) /\ p \notin ToSet(new[x])
      BY <1>5, <2>3, <3>2
    <3>4. ToSet(new[d]) = {p}  BY <1>5
    <3>5. CASE e # d /\ h # d  BY <3>1, <3>3, <3>5
    <3>6. CASE e = d  BY <2>4, <3>3, <3>4, <3>6
    <3>7. CASE h = d  BY <2>4, <3>3, <3>4, <3>7
    <3> QED  BY <3>5, <3>6, <3>7
  <2> QED  BY <1>4, <2>2, <2>4 DEF NoneTwice
<1> QED  BY <1>4, <1>6, <1>7

\* The fullest day, the first of them.
Donates(days, k) ==
  \A j \in DOMAIN days :
    \/ Len(days[k]) > Len(days[j])
    \/ Len(days[k]) = Len(days[j]) /\ k <= j

LEMMA DonorThere ==
  ASSUME NEW m \in Nat, m > 0, NEW days \in Days(m)
  PROVE  \E k \in DOMAIN days : Donates(days, k)
<1> DEFINE len(k) == Len(days[k])
           Less(i, j) == len(i) > len(j) \/ (len(i) = len(j) /\ i <= j)
           R == { x \in (1..m) \X (1..m) : Less(x[1], x[2]) }
<1>1. DOMAIN days = 1..m /\ \A k \in 1..m : len(k) \in Nat /\ k \in Nat  BY DEF Days
<1>2. \A i, j \in 1..m : <<i, j>> \in R <=> Less(i, j)  OBVIOUS
<1> HIDE DEF len, R
<1>3. \A i, j \in 1..m : Less(i, j) \/ Less(j, i)  BY <1>1
<1>4. \A i, j, k \in 1..m : Less(i, j) /\ Less(j, k) => Less(i, k)  BY <1>1
<1> HIDE DEF Less
<1>5. 1..m # {}
  <2>1. 1 \in 1..m  OBVIOUS
  <2> QED  BY <2>1
<1>6. \E i \in 1..m : \A j \in 1..m : <<i, j>> \in R
  <2> DEFINE T == 1..m
  <2>1. T \in SUBSET (1..m) /\ T # {}  BY <1>5
  <2>2. \A i, j \in T : <<i, j>> \in R \/ <<j, i>> \in R  BY <1>2, <1>3
  <2>3. \A i, j, k \in T : <<i, j>> \in R /\ <<j, k>> \in R => <<i, k>> \in R  BY <1>2, <1>4
  <2> HIDE DEF T
  <2>4. \E i \in T : \A j \in T : <<i, j>> \in R  BY <2>1, <2>2, <2>3, BestNumber
  <2> QED  BY <2>4 DEF T
<1>7. PICK i \in 1..m : \A j \in 1..m : Less(i, j)  BY <1>2, <1>6
<1>8. Donates(days, i)  BY <1>1, <1>7 DEF Donates, Less, len
<1> QED  BY <1>1, <1>8

\* Days with the same places.
Same(days0, m) ==
  { days \in Days(m) : All(days) = All(days0) /\ (NoneTwice(days0) => NoneTwice(days)) }

LEMMA FillDayKeeps ==
  ASSUME NEW m \in Nat, m > 0, NEW days0, NEW days \in Same(days0, m), NEW d \in 1..m
  PROVE  FillDay(days, d) \in Same(days0, m)
<1> DEFINE donor == CHOOSE k \in DOMAIN days : Donates(days, k)
           new == [days EXCEPT ![d] = <<Last(days[donor])>>, ![donor] = Front(@)]
<1>1. FillDay(days, d) = IF days[d] # <<>> \/ Len(days[donor]) < 2 THEN days ELSE new
  BY DEF FillDay, Donates
<1>2. days \in Days(m) /\ DOMAIN days = 1..m /\ donor \in DOMAIN days
  <2>1. days \in Days(m) /\ DOMAIN days = 1..m  BY DEF Same, Days
  <2>2. \E k \in DOMAIN days : Donates(days, k)  BY <2>1, DonorThere
  <2> QED  BY <2>1, <2>2
<1>3. CASE days[d] = <<>> /\ ~(Len(days[donor]) < 2)
  <2> HIDE DEF donor
  <2>1. days[donor] # <<>>  BY <1>3
  <2>2. new \in Days(m) /\ All(new) = All(days) /\ (NoneTwice(days) => NoneTwice(new))
    <3>1. donor \in 1..m /\ donor # d  BY <1>2, <1>3, <2>1
    <3>2. /\ DOMAIN new = 1..m /\ new[d] = <<Last(days[donor])>> /\ new[donor] = Front(days[donor])
          /\ \A e \in 1..m : e # d /\ e # donor => new[e] = days[e]
          /\ new = [e \in 1..m |-> new[e]]
      BY <1>2, <3>1
    <3> HIDE DEF new
    <3> QED  BY <1>2, <1>3, <2>1, <3>1, <3>2, OnePlaceMoved
  <2>3. new \in Same(days0, m)
    <3> HIDE DEF new
    <3> QED  BY <2>2 DEF Same
  <2> QED  BY <1>1, <1>3, <2>3
<1>4. CASE ~(days[d] = <<>> /\ ~(Len(days[donor]) < 2))  BY <1>1, <1>4
<1> QED  BY <1>3, <1>4

Filled(days0, m) == FoldLeft(LAMBDA days, d : FillDay(days, d), days0, [d \in 1..m |-> d])

LEMMA FilledKeeps ==
  ASSUME NEW m \in Nat, m > 0, NEW days0 \in Days(m)
  PROVE  Filled(days0, m) \in Same(days0, m)
<1> DEFINE n == m
           S == Same(days0, m)
           Then(x, k) == FillDay(x, [d \in 1..m |-> d][k])
           F == [x \in S \X (1..n) |-> Then(x[1], x[2])]
           Folds(iter) == iter = [s \in SUBSET (1..n) |->
                                    IF s = {} THEN days0 ELSE Then(iter[s \ {Max(s)}], Max(s))]
<1>1. n \in Nat /\ DOMAIN [d \in 1..m |-> d] = 1..n /\ days0 \in S /\ \A x \in S, k \in 1..n : Then(x, k) \in S
  <2>1. days0 \in Same(days0, m)  BY DEF Same
  <2> QED  BY <2>1, FillDayKeeps
<1>2. Filled(days0, m) = (CHOOSE iter : Folds(iter))[1..n]
  BY <1>1 DEF Filled, FoldLeft, MapThenFoldSet
<1> HIDE DEF n, S, Then
<1>3. F \in [S \X (1..n) -> S] /\ \A x \in S, k \in 1..n : F[<<x, k>>] = Then(x, k)
  BY <1>1
<1> HIDE DEF F
<1>4. \E iter : Folds(iter)
  <2>1. PICK iter : IsFold(iter, S, days0, n, F)  BY <1>1, <1>3, FoldExists
  <2>2. ASSUME NEW s \in SUBSET (1..n), s # {}
        PROVE  iter[s] = Then(iter[s \ {Max(s)}], Max(s))
    <3>1. Max(s) \in 1..n  BY <1>1, <2>2, GreatestNumber
    <3> QED  BY <1>3, <2>1, <2>2, <3>1 DEF IsFold
  <2> QED  BY <2>1, <2>2 DEF IsFold
<1>5. PICK iter : Folds(iter) /\ Filled(days0, m) = iter[1..n]
  <2> HIDE DEF Folds
  <2> QED  BY <1>2, <1>4
<1>6. Solves(iter, S, days0, n, F)
  <2>1. ASSUME NEW s \in SUBSET (1..n), s # {}, iter[s \ {Max(s)}] \in S
        PROVE  iter[s] = F[<<iter[s \ {Max(s)}], Max(s)>>]
    <3>1. Max(s) \in 1..n  BY <1>1, <2>1, GreatestNumber
    <3> QED  BY <1>3, <1>5, <2>1, <3>1
  <2>2. iter[{}] = days0  BY <1>5
  <2> QED  BY <2>1, <2>2 DEF Solves
<1>7. iter[1..n] \in S
  <2> HIDE DEF Folds
  <2> QED  BY <1>1, <1>3, <1>6, FoldStays
<1> QED  BY <1>5, <1>7 DEF S

\* The days of a plan: on them all places, and none twice.
LEMMA ArrangedKeeps ==
  ASSUME NEW places \in Seq(Places), NEW req, req.days \in Nat, req.days > 0, NEW forecast
  PROVE  LET days == Arranged(places, req, forecast)
         IN  /\ days \in Days(req.days) /\ All(days) = ToSet(places)
             /\ IsInjective(places) => NoneTwice(days)
<1> DEFINE m == req.days
           grouped == Grouped(places, req.must)
           spread == Spread(grouped, m, forecast).days
<1>1. Arranged(places, req, forecast) = IF Len(places) < m THEN spread ELSE Filled(spread, m)
  BY DEF Arranged, Spread, Nowhere, Filled
<1>2. grouped \in Seq(Places) /\ ToSet(grouped) = ToSet(places) /\ (IsInjective(places) => IsInjective(grouped))
  BY GroupedKeeps
<1> HIDE DEF grouped, m
<1>3. m \in Nat /\ m > 0  BY DEF m
<1>4. spread \in Days(m) /\ All(spread) = ToSet(grouped) /\ (IsInjective(grouped) => NoneTwice(spread))
  BY <1>2, <1>3, SpreadKeeps
<1> HIDE DEF spread
<1>5. Filled(spread, m) \in Same(spread, m)  BY <1>3, <1>4, FilledKeeps
<1>6. /\ Filled(spread, m) \in Days(m) /\ All(Filled(spread, m)) = All(spread)
      /\ NoneTwice(spread) => NoneTwice(Filled(spread, m))
  BY <1>5 DEF Same
<1>7. /\ Arranged(places, req, forecast) \in Days(m) /\ All(Arranged(places, req, forecast)) = ToSet(places)
      /\ IsInjective(places) => NoneTwice(Arranged(places, req, forecast))
  BY <1>1, <1>2, <1>4, <1>6
<1> QED  BY <1>7 DEF m

-----------------------------------------------------------------------------
(* Ordering and repairing the days.                                         *)

\* What a repair leaves of a day: all that was asked for.
Thinned(places, must) ==
  { r \in Seq(Places) :
      /\ ToSet(r) \subseteq ToSet(places) /\ ToSet(places) \cap must \subseteq ToSet(r)
      /\ IsInjective(places) => IsInjective(r) }

LEMMA DropAcceptedKeeps ==
  ASSUME NEW places, NEW must, NEW r \in Thinned(places, must)
  PROVE  DropAccepted(r, must) \in Thinned(places, must)
<1> DEFINE extra == { i \in DOMAIN r : r[i] \notin must }
           k == CHOOSE i \in extra : \A j \in extra : j <= i
<1>1. r \in Seq(Places) /\ DOMAIN r = 1..Len(r) /\ Len(r) \in Nat  BY DEF Thinned
<1>2. DropAccepted(r, must) = IF extra = {} THEN r ELSE RemoveAt(r, k)  BY DEF DropAccepted
<1>3. CASE extra = {}  BY <1>2, <1>3
<1>4. CASE extra # {}
  <2>1. k \in extra
    <3>1. extra \in SUBSET (1..Len(r))  BY <1>1
    <3> HIDE DEF extra
    <3>2. \E i \in extra : \A j \in extra : j <= i  BY <1>1, <1>4, <3>1, GreatestNumber
    <3> QED  BY <3>2
  <2>2. k \in 1..Len(r) /\ r[k] \notin must  BY <1>1, <2>1
  <2> HIDE DEF k
  <2>3. /\ RemoveAt(r, k) \in Seq(Places) /\ ToSet(r) = ToSet(RemoveAt(r, k)) \cup {r[k]}
        /\ IsInjective(r) => IsInjective(RemoveAt(r, k))
    BY <1>1, <2>2, Removed
  <2>4. RemoveAt(r, k) \in Thinned(places, must)
    BY <2>2, <2>3 DEF Thinned
  <2> QED  BY <1>2, <1>4, <2>4
<1> QED  BY <1>3, <1>4

LEMMA RepairedKeeps ==
  ASSUME NEW places \in Seq(Places), NEW conflicts, IsFiniteSet(conflicts), NEW must
  PROVE  Repaired(places, conflicts, must) \in Thinned(places, must)
<1> DEFINE n == Cardinality(conflicts)
           S == Thinned(places, must)
           Then(x, k) == DropAccepted(x, must)
           F == [x \in S \X (1..n) |-> Then(x[1], x[2])]
           Folds(iter) == iter = [s \in SUBSET (1..n) |->
                                    IF s = {} THEN places ELSE Then(iter[s \ {Max(s)}], Max(s))]
<1>1. n \in Nat /\ DOMAIN [j \in 1..Cardinality(conflicts) |-> j] = 1..n /\ places \in S /\ \A x \in S, k \in 1..n : Then(x, k) \in S
  <2>1. places \in Thinned(places, must)  BY DEF Thinned
  <2>2. n \in Nat  BY FS_CardinalityType
  <2> QED  BY <2>1, <2>2, DropAcceptedKeeps
<1>2. Repaired(places, conflicts, must) = (CHOOSE iter : Folds(iter))[1..n]
  BY <1>1 DEF Repaired, FoldLeft, MapThenFoldSet
<1> HIDE DEF n, S, Then
<1>3. F \in [S \X (1..n) -> S] /\ \A x \in S, k \in 1..n : F[<<x, k>>] = Then(x, k)
  BY <1>1
<1> HIDE DEF F
<1>4. \E iter : Folds(iter)
  <2>1. PICK iter : IsFold(iter, S, places, n, F)  BY <1>1, <1>3, FoldExists
  <2>2. ASSUME NEW s \in SUBSET (1..n), s # {}
        PROVE  iter[s] = Then(iter[s \ {Max(s)}], Max(s))
    <3>1. Max(s) \in 1..n  BY <1>1, <2>2, GreatestNumber
    <3> QED  BY <1>3, <2>1, <2>2, <3>1 DEF IsFold
  <2> QED  BY <2>1, <2>2 DEF IsFold
<1>5. PICK iter : Folds(iter) /\ Repaired(places, conflicts, must) = iter[1..n]
  <2> HIDE DEF Folds
  <2> QED  BY <1>2, <1>4
<1>6. Solves(iter, S, places, n, F)
  <2>1. ASSUME NEW s \in SUBSET (1..n), s # {}, iter[s \ {Max(s)}] \in S
        PROVE  iter[s] = F[<<iter[s \ {Max(s)}], Max(s)>>]
    <3>1. Max(s) \in 1..n  BY <1>1, <2>1, GreatestNumber
    <3> QED  BY <1>3, <1>5, <2>1, <3>1
  <2>2. iter[{}] = places  BY <1>5
  <2> QED  BY <2>1, <2>2 DEF Solves
<1>7. iter[1..n] \in S
  <2> HIDE DEF Folds
  <2> QED  BY <1>1, <1>3, <1>6, FoldStays
<1> QED  BY <1>5, <1>7 DEF S

\* The codes of a day's conflicts are finitely many.
LEMMA ConflictsAreFinite ==
  ASSUME NEW route, NEW legs
  PROVE  IsFiniteSet(DayConflicts(route, legs))
<1> DEFINE Codes == {"capacity_exceeded", "route_limit_exceeded", "cross_district_excess",
                     "suburban_mixed", "category_repetition"}
           Two == {"capacity_exceeded"} \cup {"route_limit_exceeded"}
           Three == Two \cup {"cross_district_excess"}
           Four == Three \cup {"suburban_mixed"}
<1>1. IsFiniteSet(Two)  BY FS_Singleton, FS_AddElement
<1>2. IsFiniteSet(Four)
  <2> HIDE DEF Two
  <2>1. IsFiniteSet(Three)  BY <1>1, FS_AddElement
  <2> HIDE DEF Three
  <2> QED  BY <2>1, FS_AddElement
<1>3. IsFiniteSet(Codes)
  <2>1. Codes = Four \cup {"category_repetition"}  OBVIOUS
  <2> HIDE DEF Four, Codes
  <2> QED  BY <1>2, <2>1, FS_AddElement
<1>4. DayConflicts(route, legs) \subseteq Codes  BY DEF DayConflicts
<1> QED  BY <1>3, <1>4, FS_Subset

\* Days whose places are those of others, or some of them with all of must.
LEMMA DaysChanged ==
  ASSUME NEW m, NEW days \in Days(m), NEW new, DOMAIN new = 1..m, NEW must,
         \A d \in 1..m : new[d] \in Thinned(days[d], must), new = [d \in 1..m |-> new[d]]
  PROVE  /\ new \in Days(m) /\ All(new) \subseteq All(days) /\ All(days) \cap must \subseteq All(new)
         /\ NoneTwice(days) => NoneTwice(new)
<1>1. /\ DOMAIN days = 1..m
      /\ \A d \in 1..m : /\ new[d] \in Seq(Places) /\ ToSet(new[d]) \subseteq ToSet(days[d])
                         /\ ToSet(days[d]) \cap must \subseteq ToSet(new[d])
                         /\ IsInjective(days[d]) => IsInjective(new[d])
  BY DEF Days, Thinned
<1>2. new \in Days(m)  BY <1>1 DEF Days
<1>3. All(new) = UNION { ToSet(new[d]) : d \in 1..m } /\ All(days) = UNION { ToSet(days[d]) : d \in 1..m }
  BY <1>1 DEF All
<1>4. All(new) \subseteq All(days)  BY <1>1, <1>3
<1>5. All(days) \cap must \subseteq All(new)
  <2>1. ASSUME NEW p \in All(days), p \in must PROVE p \in All(new)
    <3>1. PICK d \in 1..m : p \in ToSet(days[d])  BY <1>3
    <3>2. p \in ToSet(new[d])  BY <1>1, <2>1, <3>1
    <3> QED  BY <1>3, <3>2
  <2> QED  BY <2>1
<1>6. ASSUME NoneTwice(days) PROVE NoneTwice(new)
  <2>1. \A d \in 1..m : IsInjective(new[d])  BY <1>1, <1>6 DEF NoneTwice
  <2>2. \A d, e \in 1..m : d # e => ToSet(days[d]) \cap ToSet(days[e]) = {}  BY <1>1, <1>6 DEF NoneTwice
  <2>3. \A d, e \in 1..m : d # e => ToSet(new[d]) \cap ToSet(new[e]) = {}  BY <1>1, <2>2
  <2> QED  BY <2>1, <2>3 DEF NoneTwice
<1> QED  BY <1>2, <1>4, <1>5, <1>6

LEMMA RepairsKeep ==
  ASSUME NEW m, NEW days \in Days(m), NEW conflicts, \A d \in 1..m : IsFiniteSet(conflicts[d]), NEW must
  PROVE  LET new == Repairs(days, conflicts, must)
         IN  /\ new \in Days(m) /\ All(new) \subseteq All(days) /\ All(days) \cap must \subseteq All(new)
             /\ NoneTwice(days) => NoneTwice(new)
<1> DEFINE new == Repairs(days, conflicts, must)
<1>1. DOMAIN days = 1..m /\ \A d \in 1..m : days[d] \in Seq(Places)  BY DEF Days
<1>2. new = [d \in 1..m |-> Repaired(days[d], conflicts[d], must)]  BY <1>1 DEF Repairs
<1> HIDE DEF new
<1>3. \A d \in 1..m : new[d] \in Thinned(days[d], must)  BY <1>1, <1>2, RepairedKeeps
<1>4. DOMAIN new = 1..m /\ new = [d \in 1..m |-> new[d]]  BY <1>2
<1>5. /\ new \in Days(m) /\ All(new) \subseteq All(days) /\ All(days) \cap must \subseteq All(new)
      /\ NoneTwice(days) => NoneTwice(new)
  BY <1>3, <1>4, DaysChanged
<1> QED  BY <1>5 DEF new

Routes(days) == [d \in DOMAIN days |-> Ordered(days[d])]

LEMMA RoutesKeep ==
  ASSUME NEW m, NEW days \in Days(m)
  PROVE  /\ Routes(days) \in Days(m) /\ All(Routes(days)) = All(days)
         /\ NoneTwice(days) => NoneTwice(Routes(days))
<1> DEFINE new == Routes(days)
<1>1. DOMAIN days = 1..m /\ \A d \in 1..m : days[d] \in Seq(Places)  BY DEF Days
<1>2. new = [d \in 1..m |-> Ordered(days[d])]  BY <1>1 DEF Routes
<1> HIDE DEF new
<1>3. \A d \in 1..m : new[d] \in Thinned(days[d], Places)
  BY <1>1, <1>2, OrderedKeeps DEF Thinned
<1>4. DOMAIN new = 1..m /\ new = [d \in 1..m |-> new[d]]  BY <1>2
<1>5. /\ new \in Days(m) /\ All(new) \subseteq All(days) /\ All(days) \cap Places \subseteq All(new)
      /\ NoneTwice(days) => NoneTwice(new)
  BY <1>3, <1>4, DaysChanged
<1>6. All(days) \subseteq Places  BY <1>1 DEF All, ToSet
<1> QED  BY <1>5, <1>6 DEF new

-----------------------------------------------------------------------------
(* The inductive invariant.                                                 *)

\* A snapshot with days that hold sequences of places.
Shape(s) ==
  /\ s = [req |-> s.req, places |-> s.places, days |-> s.days, segments |-> s.segments, weather |-> s.weather]
  /\ s.req \in Wishes
  /\ Len(s.days) \in Nat /\ DOMAIN s.days = 1..Len(s.days)
  /\ \A d \in DOMAIN s.days :
       LET day == s.days[d]
       IN  day = DayRecord(day.places, day.segments, day.weather, day.dated) /\ day.places \in Seq(Places)

\* Its days are connected, by segments that bear the number of their day.
Sound(s) ==
  /\ Shape(s) /\ Connected(s)
  /\ \A d \in DOMAIN s.days : \A id \in ToSet(s.days[d].segments) : id[2] = d

\* The planner x has loaded places that are in ok, has made days of them.
Loaded(x, ok) ==
  /\ x = [pc |-> x.pc, base |-> x.base, snapshot |-> x.snapshot, places |-> x.places]
  /\ Shape(x.snapshot)
  /\ x.places \in Seq(Places) /\ IsInjective(x.places) /\ ToSet(x.places) \subseteq ok

Drafted(x, ok) ==
  /\ x = [pc |-> x.pc, base |-> x.base, snapshot |-> x.snapshot, days |-> x.days, attempts |-> x.attempts]
  /\ Shape(x.snapshot) /\ x.snapshot.req.texts = {}
  /\ x.snapshot.req.days \in 1..7 /\ x.days \in Days(x.snapshot.req.days)
  /\ NoneTwice(x.days)
  /\ x.snapshot.req.must \subseteq All(x.days) /\ All(x.days) \subseteq ok
  /\ x.attempts \in 0..MaxRepairs

PlannerOn(x, ok) ==
  /\ x.pc = "loaded" => Loaded(x, ok)
  /\ x.pc \in {"arranged", "fits"} => Drafted(x, ok)
  /\ x.pc = "fits" => \A d \in DOMAIN x.days : Len(x.days[d]) <= Capacity.places

\* What an edit x was planned on, and what it makes of it, at version v with snapshot s.
WithinScope(x) == validate_unchanged_days(x.snapshot, x.preview, x.affected)
EditOn(x, v, s) ==
  /\ x.base \in Nat /\ x.base <= v /\ (x.base = v => x.snapshot = s)
  /\ WithinScope(x) => Sound(x.preview)

IInv ==
  /\ accepted \subseteq Places /\ version \in Nat /\ Sound(current)
  /\ PlannerOn(planner, accepted)
  /\ editor # Nothing => EditOn(editor, version, current)
  /\ proposal # Nothing => EditOn(proposal, version, current) /\ WithinScope(proposal)

-----------------------------------------------------------------------------
(* The segments of a day.                                                   *)
LEMMA DayJoined ==
  ASSUME NEW st, NEW d, NEW route \in Seq(Places)
  PROVE  LET ids == DaySegments(st, d, route)
         IN  /\ DOMAIN ids = DOMAIN Hops(route) /\ IsInjective(ids)
             /\ \A i \in DOMAIN Hops(route) : ids[i] = <<st, d, i>>
             /\ ToSet(ids) = { <<st, d, i>> : i \in DOMAIN Hops(route) }
<1> DEFINE ids == DaySegments(st, d, route)
           D == DOMAIN Hops(route)
<1>1. DOMAIN ids = D /\ \A i \in D : ids[i] = <<st, d, i>>  BY DEF DaySegments
<1> HIDE DEF ids, D
<1>2. \A i, j \in D : <<st, d, i>> = <<st, d, j>> => i = j  OBVIOUS
<1>3. IsInjective(ids)
  <2>1. \A i, j \in D : ids[i] = ids[j] => i = j  BY <1>1, <1>2
  <2> QED  BY <1>1, <2>1 DEF IsInjective
<1>4. ToSet(ids) = { <<st, d, i>> : i \in D }
  <2>1. ToSet(ids) = { ids[i] : i \in D }  BY <1>1 DEF ToSet
  <2> QED  BY <1>1, <2>1
<1> QED  BY <1>1, <1>3, <1>4 DEF ids, D

\* The facts of new segments are there for the segments of the days they are
\* made for, in their order, and for no others.
Joins(facts, st, days, on) ==
  LET ids(d) == DaySegments(st, d, days[d].places)
  IN  /\ \A id : id \in DOMAIN facts <=> \E d \in on : id \in ToSet(ids(d))
      /\ \A d \in on : \A i \in DOMAIN ids(d) : facts[ids(d)[i]] = Hops(days[d].places)[i]

LEMMA FactsJoin ==
  ASSUME NEW st, NEW days, NEW on \in SUBSET DOMAIN days, \A d \in on : days[d].places \in Seq(Places)
  PROVE  Joins(SegmentFacts(st, days, on), st, days, on)
<1> DEFINE facts == SegmentFacts(st, days, on)
           new(d) == { <<st, d, i>> : i \in DOMAIN Hops(days[d].places) }
           ids(d) == DaySegments(st, d, days[d].places)
<1>1. /\ DOMAIN facts = UNION { new(d) : d \in on }
      /\ \A id \in UNION { new(d) : d \in on } : facts[id] = Hops(days[id[2]].places)[id[3]]
  BY DEF SegmentFacts
<1>2. \A d \in on : /\ ToSet(ids(d)) = new(d) /\ DOMAIN ids(d) = DOMAIN Hops(days[d].places)
                    /\ \A i \in DOMAIN Hops(days[d].places) : ids(d)[i] = <<st, d, i>>
  BY DayJoined
<1>3. DOMAIN facts = UNION { ToSet(ids(d)) : d \in on }
  <2> HIDE DEF facts, new, ids
  <2> QED  BY <1>1, <1>2
<1>4. ASSUME NEW d \in on, NEW i \in DOMAIN ids(d) PROVE facts[ids(d)[i]] = Hops(days[d].places)[i]
  <2>1. ids(d)[i] = <<st, d, i>> /\ i \in DOMAIN Hops(days[d].places)  BY <1>2, <1>4
  <2>2. <<st, d, i>> \in new(d)  BY <2>1
  <2>3. <<st, d, i>> \in UNION { new(e) : e \in on }
    <3> HIDE DEF new
    <3> QED  BY <2>2
  <2> HIDE DEF facts, new, ids
  <2>4. facts[<<st, d, i>>] = Hops(days[d].places)[i]
    <3>1. <<st, d, i>>[2] = d /\ <<st, d, i>>[3] = i  OBVIOUS
    <3> QED  BY <1>1, <2>3, <3>1
  <2> QED  BY <2>1, <2>4
<1> QED  BY <1>3, <1>4 DEF Joins

\* A day with these segments, in a snapshot with these facts, is shown as it is.
Looked(segments, ids) == [i \in DOMAIN ids |-> segments[ids[i]]]

LEMMA JoinedIsShown ==
  ASSUME NEW st, NEW d, NEW route \in Seq(Places), NEW segments,
         \A i \in DOMAIN DaySegments(st, d, route) : segments[DaySegments(st, d, route)[i]] = Hops(route)[i]
  PROVE  Looked(segments, DaySegments(st, d, route)) = Hops(route)
<1> DEFINE h == Hops(route)
           ids == DaySegments(st, d, route)
<1>1. DOMAIN ids = DOMAIN h  BY DEF DaySegments
<1>2. h = [i \in DOMAIN h |-> h[i]]
  <2>1. h \in Seq(Places \X Places)  BY HopsOf
  <2> HIDE DEF h
  <2> QED  BY <2>1
<1> HIDE DEF h, ids
<1>3. \A i \in DOMAIN h : segments[ids[i]] = h[i]  BY <1>1 DEF ids, h
<1>4. [i \in DOMAIN ids |-> segments[ids[i]]] = [i \in DOMAIN h |-> h[i]]  BY <1>1, <1>3
<1> QED  BY <1>2, <1>4 DEF Looked, ids, h

\* What Connected says of one day.
DayShown(s, d) ==
  LET day == s.days[d]
  IN  /\ Looked(s.segments, day.segments) = Hops(day.places)
      /\ day.weather = Anchors(day, d) /\ day.weather \subseteq s.weather

\* ... and of the segments of all of them.
Linked(s) ==
  /\ \A d \in DOMAIN s.days : IsInjective(s.days[d].segments)
  /\ \A d, e \in DOMAIN s.days : d # e => ToSet(s.days[d].segments) \cap ToSet(s.days[e].segments) = {}
  /\ \A d \in DOMAIN s.days : ToSet(s.days[d].segments) \subseteq DOMAIN s.segments
  /\ \A id \in DOMAIN s.segments : \E d \in DOMAIN s.days : id \in ToSet(s.days[d].segments)

LEMMA ConnectedParts ==
  ASSUME NEW s
  PROVE  Connected(s) <=> Planned(s) \subseteq s.places /\ Linked(s) /\ \A d \in DOMAIN s.days : DayShown(s, d)
<1> DEFINE lists == [d \in DOMAIN s.days |-> s.days[d].segments]
           all == UNION { ToSet(lists[d]) : d \in DOMAIN lists }
<1>1. DOMAIN lists = DOMAIN s.days /\ \A d \in DOMAIN s.days : lists[d] = s.days[d].segments  OBVIOUS
<1>2. Connected(s) <=>
        /\ Planned(s) \subseteq s.places /\ NoneTwice(lists) /\ all = DOMAIN s.segments
        /\ \A d \in DOMAIN s.days : DayShown(s, d)
  BY DEF Connected, DayShown, Looked
<1> HIDE DEF lists
<1>3. all = DOMAIN s.segments <=>
        /\ \A d \in DOMAIN s.days : ToSet(s.days[d].segments) \subseteq DOMAIN s.segments
        /\ \A id \in DOMAIN s.segments : \E d \in DOMAIN s.days : id \in ToSet(s.days[d].segments)
  BY <1>1
<1>4. NoneTwice(lists) <=>
        /\ \A d \in DOMAIN s.days : IsInjective(s.days[d].segments)
        /\ \A d, e \in DOMAIN s.days : d # e => ToSet(s.days[d].segments) \cap ToSet(s.days[e].segments) = {}
  BY <1>1 DEF NoneTwice
<1> HIDE DEF all
<1> QED  BY <1>2, <1>3, <1>4 DEF Linked

-----------------------------------------------------------------------------
(* The snapshot of a plan.                                                  *)
LEMMA PlannedSound ==
  ASSUME NEW base, Shape(base), NEW m \in Nat, NEW routes \in Days(m), NoneTwice(routes)
  PROVE  LET new == PlannedSnapshot(base, routes)
         IN  /\ Sound(new) /\ new.req = base.req /\ DOMAIN new.days = 1..m /\ Len(new.days) = m
             /\ \A d \in 1..m : new.days[d].places = routes[d]
             /\ Planned(new) = All(routes)
<1> DEFINE st == Stamp(base)
           made == [d \in DOMAIN routes |-> DayRecord(routes[d], DaySegments(st, d, routes[d]), {}, base.req.dated)]
           facts == UNION { Anchors(made[d], d) : d \in DOMAIN made }
           own(d) == { f \in facts : f[1] \in ToSet(routes[d]) }
           ids(d) == DaySegments(st, d, routes[d])
           days == [d \in DOMAIN made |-> [made[d] EXCEPT !.weather = own(d)]]
           new == PlannedSnapshot(base, routes)
           joins == SegmentFacts(st, made, DOMAIN made)
<1>1. DOMAIN routes = 1..m /\ \A d \in 1..m : routes[d] \in Seq(Places)  BY DEF Days
<1>2. DOMAIN made = 1..m /\ \A d \in 1..m : made[d] = DayRecord(routes[d], ids(d), {}, base.req.dated)
  BY <1>1
<1>3. new = [req |-> base.req, places |-> All(routes), days |-> days, segments |-> joins, weather |-> facts]
  <2>1. new = [base EXCEPT !.places = UNION { ToSet(routes[d]) : d \in DOMAIN routes },
                           !.days = days, !.segments = joins, !.weather = facts]
    BY DEF PlannedSnapshot
  <2>2. base = [req |-> base.req, places |-> base.places, days |-> base.days,
                segments |-> base.segments, weather |-> base.weather]
    BY DEF Shape
  <2> HIDE DEF new, days, joins, facts
  <2> QED  BY <2>1, <2>2 DEF All
<1> HIDE DEF new, joins, made, st
<1>4. DOMAIN days = 1..m /\ \A d \in 1..m : days[d] = DayRecord(routes[d], ids(d), own(d), base.req.dated)
  <2> HIDE DEF own, ids
  <2>1. DOMAIN days = 1..m /\ \A d \in 1..m : days[d] = [made[d] EXCEPT !.weather = own(d)]  BY <1>2
  <2> HIDE DEF days
  <2> QED  BY <1>2, <2>1 DEF DayRecord
<1>5. Len(days) = m
  <2> HIDE DEF own
  <2> QED  BY <1>2
<1> HIDE DEF days
<1>6. \A d \in 1..m : /\ made[d].places = routes[d] /\ made[d].dated = base.req.dated
                      /\ days[d].places = routes[d] /\ days[d].dated = base.req.dated
                      /\ days[d].segments = ids(d) /\ days[d].weather = own(d)
  BY <1>2, <1>4 DEF DayRecord
<1> HIDE DEF own, ids
<1>7. /\ new.req = base.req /\ new.places = All(routes) /\ new.days = days
      /\ new.segments = joins /\ new.weather = facts
  BY <1>3
<1> HIDE DEF facts
<1>8. Shape(new)
  <2>1. \A d \in 1..m : /\ days[d] = DayRecord(days[d].places, days[d].segments, days[d].weather, days[d].dated)
                        /\ days[d].places \in Seq(Places)
    BY <1>1, <1>4, <1>6
  <2>2. new = [req |-> new.req, places |-> new.places, days |-> new.days, segments |-> new.segments, weather |-> new.weather]
    BY <1>3, <1>7
  <2>3. new.req \in Wishes  BY <1>7 DEF Shape
  <2> QED  BY <1>4, <1>5, <1>7, <2>1, <2>2, <2>3 DEF Shape
<1>9. Planned(new) = All(routes)
  <2>1. \A d \in 1..m : On(new, d) = ToSet(routes[d])  BY <1>6, <1>7 DEF On
  <2>2. DOMAIN new.days = 1..m  BY <1>4, <1>7
  <2> QED  BY <1>1, <2>1, <2>2 DEF Planned, All
<1>10. \A d \in 1..m : /\ DOMAIN ids(d) = DOMAIN Hops(routes[d]) /\ IsInjective(ids(d))
                       /\ \A i \in DOMAIN Hops(routes[d]) : ids(d)[i] = <<st, d, i>>
                       /\ ToSet(ids(d)) = { <<st, d, i>> : i \in DOMAIN Hops(routes[d]) }
  BY <1>1, DayJoined DEF ids
<1>11. /\ \A id : id \in DOMAIN joins <=> \E d \in 1..m : id \in ToSet(ids(d))
       /\ \A d \in 1..m : \A i \in DOMAIN ids(d) : joins[ids(d)[i]] = Hops(routes[d])[i]
  <2> DEFINE on == DOMAIN made
  <2>1. on \in SUBSET DOMAIN made /\ \A d \in on : made[d].places \in Seq(Places)  BY <1>1, <1>2, <1>6
  <2>2. on = 1..m /\ joins = SegmentFacts(st, made, on)  BY <1>2 DEF joins
  <2> HIDE DEF on
  <2> DEFINE its(d) == DaySegments(st, d, made[d].places)
  <2>0. Joins(SegmentFacts(st, made, on), st, made, on)  BY <2>1, FactsJoin
  <2>3. /\ \A id : id \in DOMAIN SegmentFacts(st, made, on) <=> \E d \in on : id \in ToSet(its(d))
        /\ \A d \in on : \A i \in DOMAIN its(d) :
             SegmentFacts(st, made, on)[its(d)[i]] = Hops(made[d].places)[i]
    BY <2>0 DEF Joins
  <2>4. \A d \in on : made[d].places = routes[d] /\ its(d) = ids(d)
    BY <1>6, <2>2 DEF ids
  <2> HIDE DEF its
  <2> QED  BY <2>2, <2>3, <2>4
<1> HIDE DEF st
<1>12. \A d \in 1..m : \A id \in ToSet(ids(d)) : id[2] = d
  BY <1>10
<1>13. Linked(new)
  <2>1. \A d, e \in 1..m : d # e => ToSet(ids(d)) \cap ToSet(ids(e)) = {}
    BY <1>12
  <2>2. DOMAIN new.days = 1..m /\ \A d \in 1..m : new.days[d].segments = ids(d)  BY <1>4, <1>6, <1>7
  <2>3. \A d \in 1..m : ToSet(ids(d)) \subseteq DOMAIN new.segments  BY <1>7, <1>11
  <2>4. \A id \in DOMAIN new.segments : \E d \in 1..m : id \in ToSet(ids(d))  BY <1>7, <1>11
  <2>5. \A d \in 1..m : IsInjective(ids(d))  BY <1>10
  <2> QED  BY <2>1, <2>2, <2>3, <2>4, <2>5 DEF Linked
<1>14. ASSUME NEW d \in 1..m PROVE DayShown(new, d)
  <2>1. Looked(joins, ids(d)) = Hops(routes[d])
    BY <1>1, <1>11, JoinedIsShown DEF ids
  <2>2. own(d) = Anchors(days[d], d)
    <3>1. \A e \in 1..m : Anchors(made[e], e) =
            IF routes[e] # <<>> /\ base.req.dated THEN { <<Head(routes[e]), e>> } ELSE {}
      BY <1>6 DEF Anchors
    <3>2. Anchors(days[d], d) = IF routes[d] # <<>> /\ base.req.dated THEN { <<Head(routes[d]), d>> } ELSE {}
      BY <1>6 DEF Anchors
    <3>3. \A e \in 1..m : routes[e] # <<>> => Head(routes[e]) \in ToSet(routes[e])
      <4>1. ASSUME NEW e \in 1..m, routes[e] # <<>> PROVE Head(routes[e]) \in ToSet(routes[e])
        <5>1. routes[e] \in Seq(Places)  BY <1>1
        <5>2. 1 \in DOMAIN routes[e] /\ Head(routes[e]) = routes[e][1]  BY <4>1, <5>1
        <5> QED  BY <5>2 DEF ToSet
      <4> QED  BY <4>1
    <3>4. \A e \in 1..m : e # d => ToSet(routes[e]) \cap ToSet(routes[d]) = {}
      BY <1>1 DEF NoneTwice
    <3>5. ASSUME NEW f \in own(d) PROVE f \in Anchors(days[d], d)
      <4>1. f \in facts /\ f[1] \in ToSet(routes[d])  BY <3>5 DEF own
      <4>2. PICK e \in 1..m : f \in Anchors(made[e], e)  BY <1>2, <4>1 DEF facts
      <4>3. routes[e] # <<>> /\ f = <<Head(routes[e]), e>> /\ base.req.dated  BY <3>1, <4>2
      <4>4. e = d  BY <3>3, <3>4, <4>1, <4>3
      <4> QED  BY <3>2, <4>3, <4>4
    <3>6. ASSUME NEW f \in Anchors(days[d], d) PROVE f \in own(d)
      <4>1. f \in Anchors(made[d], d) /\ routes[d] # <<>> /\ f = <<Head(routes[d]), d>>  BY <3>1, <3>2, <3>6
      <4>2. f \in facts  BY <1>2, <4>1 DEF facts
      <4>3. f[1] \in ToSet(routes[d])  BY <3>3, <4>1
      <4> QED  BY <4>2, <4>3 DEF own
    <3> QED  BY <3>5, <3>6
  <2>3. own(d) \subseteq facts  BY DEF own
  <2> QED  BY <1>6, <1>7, <2>1, <2>2, <2>3 DEF DayShown
<1>15. Connected(new)
  BY <1>4, <1>7, <1>9, <1>13, <1>14, ConnectedParts
<1>16. Sound(new)  BY <1>4, <1>6, <1>7, <1>8, <1>12, <1>15 DEF Sound
<1>17. Len(new.days) = m /\ DOMAIN new.days = 1..m  BY <1>4, <1>5, <1>7
<1> QED  BY <1>6, <1>7, <1>9, <1>16, <1>17 DEF new

-----------------------------------------------------------------------------
(* The days of an edited snapshot.                                          *)

\* An edit moves places about on a day, and only such as its snapshot will know.
LEMMA RouteEdited ==
  ASSUME NEW s, Shape(s), NEW i \in Intents, WellFormed(i), NEW d \in DOMAIN s.days
  PROVE  /\ EditedRoute(s, i, d) \in Seq(Places)
         /\ i.op # "change_days" /\ ToSet(s.days[d].places) \subseteq s.places =>
              ToSet(EditedRoute(s, i, d)) \subseteq EditedPlaces(s, i)
<1> DEFINE route == s.days[d].places
           kept == Filter(route, Places \ {i.place})
           added == IF d = TargetDay(s, i) THEN <<i.new>> ELSE <<>>
           ordered == NearestOrder(route)
<1>1. route \in Seq(Places) /\ i.op \in {"add_place", "remove_place", "replace_place", "edit_day", "change_days"}
  BY IntentsAssumption DEF Shape
<1>2. kept \in Seq(Places) /\ ToSet(kept) = ToSet(route) \cap (Places \ {i.place})  BY <1>1, Filtered
<1>3. i.op \in {"add_place", "replace_place"} => i.new \in Places
  BY IntentsAssumption DEF WellFormed
<1>4. i.op \in {"add_place", "replace_place"} => added \in Seq(Places) /\ ToSet(added) \subseteq {i.new}
  <2>1. ToSet(<<>>) = {} /\ ToSet(<<i.new>>) = {i.new} /\ <<>> \in Seq(Places)  BY DEF ToSet
  <2> QED  BY <1>3, <2>1
<1>5. ordered \in Seq(Places) /\ ToSet(ordered) = ToSet(route)
  BY <1>1, NearestNeighborKeeps DEF NearestOrder
<1>6. CASE i.op = "add_place"
  <2>1. EditedRoute(s, i, d) = route \o added /\ EditedPlaces(s, i) = s.places \cup {i.new}
    BY <1>6 DEF EditedRoute, EditedPlaces
  <2> HIDE DEF route, added, kept, ordered
  <2>2. route \o added \in Seq(Places) /\ ToSet(route \o added) = ToSet(route) \cup ToSet(added)
    BY <1>1, <1>4, <1>6, Joined
  <2>3. ToSet(route) \subseteq s.places => ToSet(route \o added) \subseteq s.places \cup {i.new}
    BY <1>4, <1>6, <2>2
  <2> QED  BY <2>1, <2>2, <2>3 DEF route
<1>7. CASE i.op = "remove_place"
  <2>1. EditedRoute(s, i, d) = kept /\ EditedPlaces(s, i) = s.places \ {i.place}
    BY <1>7 DEF EditedRoute, EditedPlaces
  <2> HIDE DEF kept
  <2> QED  BY <1>2, <2>1
<1>8. CASE i.op = "replace_place"
  <2>1. EditedRoute(s, i, d) = kept \o added /\ EditedPlaces(s, i) = (s.places \ {i.place}) \cup {i.new}
    BY <1>8 DEF EditedRoute, EditedPlaces
  <2> HIDE DEF route, added, kept, ordered
  <2>2. kept \o added \in Seq(Places) /\ ToSet(kept \o added) = ToSet(kept) \cup ToSet(added)
    BY <1>2, <1>4, <1>8, Joined
  <2>3. ToSet(route) \subseteq s.places => ToSet(kept \o added) \subseteq (s.places \ {i.place}) \cup {i.new}
    BY <1>2, <1>4, <1>8, <2>2
  <2> QED  BY <2>1, <2>2, <2>3 DEF route
<1>9. CASE i.op \in {"edit_day", "change_days"}
  <2>1. EditedRoute(s, i, d) \in {ordered, route} /\ EditedPlaces(s, i) = s.places
    BY <1>9 DEF EditedRoute, EditedPlaces
  <2> HIDE DEF route, added, kept, ordered
  <2>2. EditedRoute(s, i, d) \in Seq(Places) /\ ToSet(EditedRoute(s, i, d)) = ToSet(route)
    BY <1>1, <1>5, <2>1
  <2> QED  BY <2>1, <2>2 DEF route
<1> QED  BY <1>1, <1>6, <1>7, <1>8, <1>9

\* The greater of two numbers.
LEMMA MaxOfTwo ==
  ASSUME NEW m \in Nat, NEW n \in Nat
  PROVE  Max({m, n}) \in Nat /\ m <= Max({m, n}) /\ n <= Max({m, n})
<1>1. \E x \in {m, n} : \A y \in {m, n} : x >= y
  <2>1. CASE m <= n  BY <2>1
  <2>2. CASE n <= m  BY <2>2
  <2> QED  BY <2>1, <2>2
<1>2. Max({m, n}) \in {m, n} /\ \A y \in {m, n} : Max({m, n}) >= y  BY <1>1 DEF Max
<1> QED  BY <1>2

\* Days of a snapshot: as many as k.
Lists(days, k) ==
  /\ k \in Nat /\ Len(days) = k /\ DOMAIN days = 1..k
  /\ \A d \in 1..k :
       /\ days[d] = DayRecord(days[d].places, days[d].segments, days[d].weather, days[d].dated)
       /\ days[d].places \in Seq(Places)

\* Either no day comes or goes, or all days are affected.
LEMMA DaysEdited ==
  ASSUME NEW s, Shape(s), NEW i \in Intents, WellFormed(i), Planned(s) \subseteq s.places
  PROVE  \E k \in Nat :
           /\ Lists(EditedDays(s, i), k)
           /\ \A d \in 1..k : ToSet(EditedDays(s, i)[d].places) \subseteq EditedPlaces(s, i)
           /\ \/ i.op # "change_days" /\ DOMAIN s.days = 1..k
              \/ /\ i.op = "change_days" /\ k = i.target /\ k \in 1..MaxDays
                 /\ 1..k \subseteq AffectedDays(s, i) /\ DOMAIN s.days \subseteq AffectedDays(s, i)
<1> DEFINE n == Len(s.days)
           new == EditedDays(s, i)
<1>1. n \in Nat /\ DOMAIN s.days = 1..n  BY DEF Shape
<1>2. \A d \in 1..n : /\ s.days[d] = DayRecord(s.days[d].places, s.days[d].segments, s.days[d].weather, s.days[d].dated)
                      /\ s.days[d].places \in Seq(Places)
  BY <1>1 DEF Shape
<1>3. \A d \in 1..n : ToSet(s.days[d].places) \subseteq s.places
  BY <1>1 DEF Planned, On
<1> HIDE DEF n
<1>4. CASE i.op # "change_days"
  <2>1. new = [d \in 1..n |-> [s.days[d] EXCEPT !.places = EditedRoute(s, i, d)]]
    BY <1>1, <1>4 DEF EditedDays
  <2>2. DOMAIN new = 1..n /\ Len(new) = n  BY <1>1, <2>1
  <2>3. \A d \in 1..n : new[d] = DayRecord(EditedRoute(s, i, d), s.days[d].segments, s.days[d].weather, s.days[d].dated)
    <3>1. \A d \in 1..n : new[d] = [s.days[d] EXCEPT !.places = EditedRoute(s, i, d)]  BY <2>1
    <3> HIDE DEF new
    <3> QED  BY <1>2, <3>1 DEF DayRecord
  <2> HIDE DEF new
  <2>4. \A d \in 1..n : /\ EditedRoute(s, i, d) \in Seq(Places)
                        /\ ToSet(EditedRoute(s, i, d)) \subseteq EditedPlaces(s, i)
    BY <1>1, <1>3, <1>4, RouteEdited
  <2>5. \A d \in 1..n : /\ new[d].places = EditedRoute(s, i, d)
                        /\ new[d] = DayRecord(new[d].places, new[d].segments, new[d].weather, new[d].dated)
    <3>1. \A x, y, z, u : LET r == DayRecord(x, y, z, u) IN r.places = x /\ r.segments = y /\ r.weather = z /\ r.dated = u
      BY DEF DayRecord
    <3>2. \A d \in 1..n : /\ new[d].places = EditedRoute(s, i, d) /\ new[d].segments = s.days[d].segments
                          /\ new[d].weather = s.days[d].weather /\ new[d].dated = s.days[d].dated
      BY <2>3, <3>1
    <3> QED  BY <2>3, <3>2
  <2>6. Lists(new, n)  BY <1>1, <2>2, <2>4, <2>5 DEF Lists
  <2> QED  BY <1>1, <1>4, <2>4, <2>5, <2>6 DEF new
<1>5. CASE i.op = "change_days"
  <2> DEFINE k == i.target
             blank == DayRecord(<<>>, <<>>, {}, FALSE)
  <2>1. k \in Nat /\ k \in 1..MaxDays  BY <1>5, MaxDaysAssumption, IntentsAssumption DEF WellFormed
  <2>2. new = [d \in 1..k |-> IF d \in 1..n THEN s.days[d] ELSE blank]
    BY <1>1, <1>5 DEF EditedDays
  <2> HIDE DEF k
  <2>3. DOMAIN new = 1..k /\ Len(new) = k /\ \A d \in 1..k : new[d] = IF d \in 1..n THEN s.days[d] ELSE blank
    BY <2>1, <2>2
  <2>4. /\ blank.places = <<>> /\ <<>> \in Seq(Places) /\ ToSet(<<>>) = {}
        /\ blank = DayRecord(blank.places, blank.segments, blank.weather, blank.dated)
    BY DEF DayRecord, ToSet
  <2> HIDE DEF new, blank
  <2>5. Lists(new, k)
    <3>1. ASSUME NEW d \in 1..k
          PROVE  /\ new[d] = DayRecord(new[d].places, new[d].segments, new[d].weather, new[d].dated)
                 /\ new[d].places \in Seq(Places)
      <4>1. CASE d \in 1..n  BY <1>2, <2>3, <4>1
      <4>2. CASE d \notin 1..n  BY <2>3, <2>4, <4>2
      <4> QED  BY <4>1, <4>2
    <3> QED  BY <2>1, <2>3, <3>1 DEF Lists
  <2>6. EditedPlaces(s, i) = s.places  BY <1>5 DEF EditedPlaces
  <2>7. \A d \in 1..k : ToSet(new[d].places) \subseteq EditedPlaces(s, i)
    BY <1>3, <2>3, <2>4, <2>6
  <2>8. 1..k \subseteq AffectedDays(s, i) /\ 1..n \subseteq AffectedDays(s, i)
    <3>1. AffectedDays(s, i) = 1..Max({n, k})  BY <1>5 DEF AffectedDays, n, k
    <3>2. Max({n, k}) \in Nat /\ n <= Max({n, k}) /\ k <= Max({n, k})  BY <1>1, <2>1, MaxOfTwo
    <3> DEFINE z == Max({n, k})
    <3>3. AffectedDays(s, i) = 1..z /\ z \in Nat /\ n <= z /\ k <= z  BY <3>1, <3>2
    <3> HIDE DEF z
    <3>4. \A x \in Nat : (x \in 1..k => x \in 1..z) /\ (x \in 1..n => x \in 1..z)  BY <1>1, <2>1, <3>3
    <3>5. 1..k \subseteq Nat /\ 1..n \subseteq Nat  BY <1>1, <2>1
    <3> QED  BY <3>3, <3>4, <3>5
  <2> QED  BY <1>1, <1>5, <2>1, <2>5, <2>7, <2>8 DEF k, new
<1> QED  BY <1>4, <1>5

\* A snapshot with all its fields and k days.
Snapshot(s, k) ==
  /\ s = [req |-> s.req, places |-> s.places, days |-> s.days, segments |-> s.segments, weather |-> s.weather]
  /\ s.req \in Wishes /\ Lists(s.days, k)

\* The fields of a day.
LEMMA DayFields ==
  ASSUME NEW x, NEW y, NEW z, NEW u
  PROVE  LET day == DayRecord(x, y, z, u)
         IN  day.places = x /\ day.segments = y /\ day.weather = z /\ day.dated = u
BY DEF DayRecord

\* A day without its segments and its weather.
LEMMA Cleared ==
  ASSUME NEW day, day = DayRecord(day.places, day.segments, day.weather, day.dated)
  PROVE  [day EXCEPT !.segments = <<>>, !.weather = {}] = DayRecord(day.places, <<>>, {}, day.dated)
<1> DEFINE x == day.places
           y == day.segments
           z == day.weather
           u == day.dated
<1>1. day = [places |-> x, segments |-> y, weather |-> z, dated |-> u]  BY DEF DayRecord
<1> HIDE DEF x, y, z, u
<1> DEFINE r == [day EXCEPT !.segments = <<>>]
<1>3. r = [places |-> x, segments |-> <<>>, weather |-> z, dated |-> u]  BY <1>1
<1>4. [day EXCEPT !.segments = <<>>, !.weather = {}] = [r EXCEPT !.weather = {}]  OBVIOUS
<1> HIDE DEF r
<1>2. [r EXCEPT !.weather = {}] = [places |-> x, segments |-> <<>>, weather |-> {}, dated |-> u]  BY <1>3
<1> QED  BY <1>2, <1>4 DEF DayRecord, x, u

\* The preview: the affected days have lost their segments.
LEMMA Previewed ==
  ASSUME NEW s, Shape(s), NEW i \in Intents, WellFormed(i), NEW k \in Nat, Lists(EditedDays(s, i), k),
         i.op = "change_days" => i.target \in 1..MaxDays
  PROVE  LET p == Preview(s, i)
         IN  /\ Snapshot(p, k) /\ p.places = EditedPlaces(s, i)
             /\ \A d \in 1..k : p.days[d].places = EditedDays(s, i)[d].places
             /\ \A d \in 1..k : d \in AffectedDays(s, i) => p.days[d].segments = <<>>
             /\ DOMAIN p.segments = DOMAIN s.segments \ AffectedSegments(s, i)
<1> DEFINE E == EditedDays(s, i)
           on == AffectedDays(s, i) \cap DOMAIN E
           there == UNION { ToSet(E[d].places) : d \in on }
           days == [d \in DOMAIN E |-> IF d \in on THEN [E[d] EXCEPT !.segments = <<>>, !.weather = {}] ELSE E[d]]
           segments == [id \in DOMAIN s.segments \ AffectedSegments(s, i) |-> s.segments[id]]
           weather == { fact \in s.weather : fact[1] \notin there }
           req == [s.req EXCEPT !.days = IF i.op = "change_days" THEN i.target ELSE @]
           p == Preview(s, i)
<1>1. /\ s = [req |-> s.req, places |-> s.places, days |-> s.days, segments |-> s.segments, weather |-> s.weather]
      /\ s.req \in Wishes
  BY DEF Shape
<1>2. p = [s EXCEPT !.req.days = IF i.op = "change_days" THEN i.target ELSE @, !.places = EditedPlaces(s, i),
                    !.days = days, !.segments = segments, !.weather = weather]
  BY DEF Preview
<1>3. p = [req |-> req, places |-> EditedPlaces(s, i), days |-> days, segments |-> segments, weather |-> weather]
  <2> HIDE DEF p, days, segments, weather
  <2> QED  BY <1>1, <1>2
<1>4. DOMAIN segments = DOMAIN s.segments \ AffectedSegments(s, i)  OBVIOUS
<1>5. req \in Wishes
  <2>1. s.req.days \in 1..MaxDays  BY <1>1 DEF Wishes
  <2> QED  BY <1>1, <2>1 DEF Wishes
<1> HIDE DEF p, segments, weather, req
<1>6. /\ DOMAIN E = 1..k
      /\ \A d \in 1..k : E[d] = DayRecord(E[d].places, E[d].segments, E[d].weather, E[d].dated) /\ E[d].places \in Seq(Places)
  BY DEF Lists
<1>7. DOMAIN days = 1..k /\ Len(days) = k
  <2> HIDE DEF on, E
  <2> QED  BY <1>6
<1>8. \A d \in 1..k : days[d] = IF d \in AffectedDays(s, i) THEN [E[d] EXCEPT !.segments = <<>>, !.weather = {}] ELSE E[d]
  <2> HIDE DEF E
  <2> QED  BY <1>6
<1> HIDE DEF days, E
<1>9. ASSUME NEW d \in 1..k
      PROVE  /\ days[d] = DayRecord(days[d].places, days[d].segments, days[d].weather, days[d].dated)
             /\ days[d].places = E[d].places /\ days[d].places \in Seq(Places)
             /\ d \in AffectedDays(s, i) => days[d].segments = <<>>
  <2>1. CASE d \in AffectedDays(s, i)
    <3>1. days[d] = DayRecord(E[d].places, <<>>, {}, E[d].dated)
      <4>1. days[d] = [E[d] EXCEPT !.segments = <<>>, !.weather = {}]  BY <1>8, <2>1
      <4>2. E[d] = DayRecord(E[d].places, E[d].segments, E[d].weather, E[d].dated)  BY <1>6
      <4>3. [E[d] EXCEPT !.segments = <<>>, !.weather = {}] = DayRecord(E[d].places, <<>>, {}, E[d].dated)
        BY <4>2, Cleared
      <4> QED  BY <4>1, <4>3
    <3>2. days[d].places = E[d].places /\ days[d].segments = <<>> /\ days[d].weather = {} /\ days[d].dated = E[d].dated
      BY <3>1, DayFields
    <3> QED  BY <1>6, <3>1, <3>2
  <2>2. CASE d \notin AffectedDays(s, i)  BY <1>6, <1>8, <2>2
  <2> QED  BY <2>1, <2>2
<1>10. Lists(days, k)  BY <1>7, <1>9 DEF Lists
<1>11. /\ p.req = req /\ p.places = EditedPlaces(s, i) /\ p.days = days /\ p.segments = segments /\ p.weather = weather
  BY <1>3
<1>12. Snapshot(p, k)  BY <1>3, <1>5, <1>10, <1>11 DEF Snapshot
<1> QED  BY <1>4, <1>9, <1>11, <1>12 DEF p, E

\* The affected days get new segments and weather; the others stay.
RefreshedTo(p, k, affected, q) ==
  LET new(d) == DaySegments(Stamp(p), d, p.days[d].places)
  IN  /\ Snapshot(q, k) /\ q.req = p.req /\ q.places = p.places
      /\ \A d \in 1..k : q.days[d].places = p.days[d].places
      /\ \A d \in affected \cap 1..k :
           q.days[d] = DayRecord(p.days[d].places, new(d), Anchors(p.days[d], d), p.days[d].dated)
      /\ \A d \in affected \cap 1..k : Anchors(p.days[d], d) \subseteq q.weather
      /\ \A d \in (1..k) \ affected : q.days[d] = p.days[d]
      /\ \A id : id \in DOMAIN q.segments <=>
           \/ \E d \in affected \cap 1..k : id \in ToSet(new(d))
           \/ /\ id \in DOMAIN p.segments
              /\ \A d \in affected \cap 1..k : id \notin ToSet(p.days[d].segments)
      /\ \A d \in affected \cap 1..k : \A j \in DOMAIN new(d) :
           q.segments[new(d)[j]] = Hops(p.days[d].places)[j]

LEMMA Refreshed ==
  ASSUME NEW p, NEW k \in Nat, Snapshot(p, k), NEW affected
  PROVE  RefreshedTo(p, k, affected, Recomputed(p, affected))
<1> DEFINE st == Stamp(p)
           on == affected \cap DOMAIN p.days
           stale == UNION { ToSet(p.days[d].segments) : d \in on }
           old == UNION { p.days[d].weather : d \in on }
           new(d) == DaySegments(st, d, p.days[d].places)
           days == [d \in DOMAIN p.days |->
                      IF d \notin on THEN p.days[d]
                      ELSE DayRecord(p.days[d].places, new(d), Anchors(p.days[d], d), p.days[d].dated)]
           facts == SegmentFacts(st, p.days, on)
           rest == [id \in DOMAIN p.segments \ stale |-> p.segments[id]]
           segments == Merged(facts, rest)
           weather == (p.weather \ old) \cup UNION { Anchors(p.days[d], d) : d \in on }
           q == Recomputed(p, affected)
<1>1. /\ p = [req |-> p.req, places |-> p.places, days |-> p.days, segments |-> p.segments, weather |-> p.weather]
      /\ p.req \in Wishes /\ DOMAIN p.days = 1..k /\ Len(p.days) = k
      /\ \A d \in 1..k : p.days[d] = DayRecord(p.days[d].places, p.days[d].segments, p.days[d].weather, p.days[d].dated)
      /\ \A d \in 1..k : p.days[d].places \in Seq(Places)
  BY DEF Snapshot, Lists
<1>2. on = affected \cap 1..k  BY <1>1
<1>3. q = [p EXCEPT !.days = days, !.segments = segments, !.weather = weather]
  BY DEF Recomputed
<1>4. q = [req |-> p.req, places |-> p.places, days |-> days, segments |-> segments, weather |-> weather]
  <2> HIDE DEF q, days, segments, weather
  <2> QED  BY <1>1, <1>3
<1> HIDE DEF q
<1>5. Joins(facts, st, p.days, on)
  <2>1. on \in SUBSET DOMAIN p.days /\ \A d \in on : p.days[d].places \in Seq(Places)  BY <1>1
  <2> HIDE DEF on, st
  <2> QED  BY <2>1, FactsJoin
<1>6. /\ \A id : id \in DOMAIN segments <=> id \in DOMAIN facts \/ id \in DOMAIN rest
      /\ \A id \in DOMAIN facts : segments[id] = facts[id]
  <2> HIDE DEF facts, rest
  <2> QED  BY DEF Merged
<1>7. \A id : id \in DOMAIN rest <=> id \in DOMAIN p.segments /\ \A d \in on : id \notin ToSet(p.days[d].segments)
  <2>1. DOMAIN rest = DOMAIN p.segments \ stale  OBVIOUS
  <2>2. \A id : id \in stale <=> \E d \in on : id \in ToSet(p.days[d].segments)
    <3> HIDE DEF on
    <3> QED  OBVIOUS
  <2> HIDE DEF rest, stale, on
  <2> QED  BY <2>1, <2>2
<1>8. \A d \in on : Anchors(p.days[d], d) \subseteq weather
  <2> HIDE DEF on, old
  <2> QED  OBVIOUS
<1>9. DOMAIN days = 1..k /\ Len(days) = k
  <2> HIDE DEF new, on
  <2> QED  BY <1>1
<1>10. /\ \A d \in on : days[d] = DayRecord(p.days[d].places, new(d), Anchors(p.days[d], d), p.days[d].dated)
       /\ \A d \in 1..k : d \notin on => days[d] = p.days[d]
  <2> HIDE DEF new
  <2> QED  BY <1>1
<1> HIDE DEF st, facts, rest, segments, weather, days
<1>11. /\ \A id : id \in DOMAIN facts <=> \E d \in on : id \in ToSet(new(d))
       /\ \A d \in on : \A j \in DOMAIN new(d) : facts[new(d)[j]] = Hops(p.days[d].places)[j]
  BY <1>5 DEF Joins
<1> HIDE DEF new, on
<1>12. \A d \in on : \A j \in DOMAIN new(d) : segments[new(d)[j]] = Hops(p.days[d].places)[j]
  <2>1. \A d \in on : \A j \in DOMAIN new(d) : new(d)[j] \in ToSet(new(d))  BY DEF ToSet
  <2> QED  BY <1>6, <1>11, <2>1
<1>13. /\ q.req = p.req /\ q.places = p.places /\ q.days = days /\ q.segments = segments /\ q.weather = weather
  BY <1>4
<1>14. ASSUME NEW d \in 1..k
       PROVE  /\ days[d] = DayRecord(days[d].places, days[d].segments, days[d].weather, days[d].dated)
              /\ days[d].places = p.days[d].places
  <2>1. CASE d \in on
    <3>1. days[d] = DayRecord(p.days[d].places, new(d), Anchors(p.days[d], d), p.days[d].dated)  BY <1>10, <2>1
    <3> QED  BY <3>1, DayFields
  <2>2. CASE d \notin on  BY <1>1, <1>10, <2>2
  <2> QED  BY <2>1, <2>2
<1>15. Lists(days, k)  BY <1>1, <1>9, <1>14 DEF Lists
<1>16. Snapshot(q, k)  BY <1>1, <1>4, <1>13, <1>15 DEF Snapshot
<1>17. \A id : id \in DOMAIN q.segments <=>
          \/ \E d \in on : id \in ToSet(new(d))
          \/ id \in DOMAIN p.segments /\ \A d \in on : id \notin ToSet(p.days[d].segments)
  BY <1>6, <1>7, <1>11, <1>13
<1>18. \A d \in (1..k) \ affected : q.days[d] = p.days[d]  BY <1>2, <1>10, <1>13
<1>19. \A d \in on : q.days[d] = DayRecord(p.days[d].places, new(d), Anchors(p.days[d], d), p.days[d].dated)
  BY <1>10, <1>13
<1>20. \A d \in 1..k : q.days[d].places = p.days[d].places  BY <1>13, <1>14
<1>21. /\ \A d \in on : Anchors(p.days[d], d) \subseteq q.weather
       /\ \A d \in on : \A j \in DOMAIN new(d) : q.segments[new(d)[j]] = Hops(p.days[d].places)[j]
  BY <1>8, <1>12, <1>13
<1> QED  BY <1>2, <1>13, <1>16, <1>17, <1>18, <1>19, <1>20, <1>21 DEF RefreshedTo, new, st, q

\* Days with the same hash are the same, with the same facts behind them.
LEMMA SameHash ==
  ASSUME NEW s, NEW q, NEW d \in DOMAIN s.days, d \in DOMAIN q.days, day_hash(s, d) = day_hash(q, d)
  PROVE  /\ q.days[d] = s.days[d]
         /\ s.days[d].weather \cap s.weather = q.days[d].weather \cap q.weather
         /\ \A id \in ToSet(s.days[d].segments) \cap DOMAIN s.segments :
              id \in DOMAIN q.segments /\ q.segments[id] = s.segments[id]
<1> DEFINE behind(x) == { <<id, x.segments[id]>> : id \in ToSet(x.days[d].segments) \cap DOMAIN x.segments }
           w(x) == x.days[d].weather \cap x.weather
           full(x) == [day |-> x.days[d], weather |-> w(x), segments |-> behind(x)]
<1>1. day_hash(s, d) = {full(s)} /\ day_hash(q, d) = {full(q)}  BY DEF day_hash
<1>2. full(s) = full(q)
  <2> HIDE DEF full
  <2> QED  BY <1>1
<1>3. s.days[d] = q.days[d] /\ w(s) = w(q) /\ behind(s) = behind(q)
  <2> HIDE DEF w, behind
  <2>1. full(s).day = s.days[d] /\ full(s).weather = w(s) /\ full(s).segments = behind(s)  OBVIOUS
  <2>2. full(q).day = q.days[d] /\ full(q).weather = w(q) /\ full(q).segments = behind(q)  OBVIOUS
  <2> HIDE DEF full
  <2> QED  BY <1>2, <2>1, <2>2
<1>4. ASSUME NEW id \in ToSet(s.days[d].segments) \cap DOMAIN s.segments
      PROVE  id \in DOMAIN q.segments /\ q.segments[id] = s.segments[id]
  <2>1. <<id, s.segments[id]>> \in behind(s)  OBVIOUS
  <2>2. <<id, s.segments[id]>> \in behind(q)
    <3> HIDE DEF behind
    <3> QED  BY <1>3, <2>1
  <2>3. PICK j \in DOMAIN q.segments : <<id, s.segments[id]>> = <<j, q.segments[j]>>  BY <2>2
  <2> QED  BY <2>3
<1> QED  BY <1>3, <1>4

\* An edit that stays in its scope leaves a snapshot whose days are connected.
LEMMA EditSound ==
  ASSUME NEW s, Sound(s), NEW i \in Intents, WellFormed(i), NEW A, A = AffectedDays(s, i),
         NEW q, q = Recomputed(Preview(s, i), A), validate_unchanged_days(s, q, A)
  PROVE  Sound(q)
<1> DEFINE p == Preview(s, i)
           st == Stamp(p)
           new(d) == DaySegments(st, d, p.days[d].places)
<1>1. /\ Shape(s) /\ Planned(s) \subseteq s.places /\ Linked(s) /\ \A d \in DOMAIN s.days : DayShown(s, d)
      /\ \A d \in DOMAIN s.days : \A id \in ToSet(s.days[d].segments) : id[2] = d
  BY ConnectedParts DEF Sound
<1>2. PICK k \in Nat :
        /\ Lists(EditedDays(s, i), k)
        /\ \A d \in 1..k : ToSet(EditedDays(s, i)[d].places) \subseteq EditedPlaces(s, i)
        /\ \/ i.op # "change_days" /\ DOMAIN s.days = 1..k
           \/ /\ i.op = "change_days" /\ k = i.target /\ k \in 1..MaxDays
              /\ 1..k \subseteq A /\ DOMAIN s.days \subseteq A
  BY <1>1, DaysEdited
<1>3. /\ Snapshot(p, k) /\ p.places = EditedPlaces(s, i)
      /\ \A d \in 1..k : p.days[d].places = EditedDays(s, i)[d].places
      /\ DOMAIN p.segments = DOMAIN s.segments \ AffectedSegments(s, i)
  <2>1. i.op = "change_days" => i.target \in 1..MaxDays  BY <1>2
  <2> QED  BY <1>1, <1>2, <2>1, Previewed
<1> HIDE DEF p
<1>4. /\ Snapshot(q, k) /\ q.places = p.places
      /\ \A d \in 1..k : q.days[d].places = p.days[d].places
      /\ \A d \in A \cap 1..k : q.days[d] = DayRecord(p.days[d].places, new(d), Anchors(p.days[d], d), p.days[d].dated)
      /\ \A d \in A \cap 1..k : Anchors(p.days[d], d) \subseteq q.weather
      /\ \A id : id \in DOMAIN q.segments <=>
            \/ \E d \in A \cap 1..k : id \in ToSet(new(d))
            \/ id \in DOMAIN p.segments /\ \A d \in A \cap 1..k : id \notin ToSet(p.days[d].segments)
      /\ \A d \in A \cap 1..k : \A j \in DOMAIN new(d) : q.segments[new(d)[j]] = Hops(p.days[d].places)[j]
  <2>1. q = Recomputed(p, A)  BY DEF p
  <2>2. RefreshedTo(p, k, A, q)  BY <1>3, <2>1, Refreshed
  <2> QED  BY <2>2 DEF RefreshedTo
<1>5. \A d \in 1..k : p.days[d].places \in Seq(Places)  BY <1>3 DEF Snapshot, Lists
<1>6. \A d \in 1..k : /\ IsInjective(new(d)) /\ \A id \in ToSet(new(d)) : id[2] = d
  <2>1. ASSUME NEW d \in 1..k PROVE IsInjective(new(d)) /\ \A id \in ToSet(new(d)) : id[2] = d
    <3>1. IsInjective(new(d)) /\ ToSet(new(d)) = { <<st, d, j>> : j \in DOMAIN Hops(p.days[d].places) }
      BY <1>5, DayJoined
    <3> HIDE DEF new, st
    <3>2. ASSUME NEW id \in ToSet(new(d)) PROVE id[2] = d
      <4>1. PICK j \in DOMAIN Hops(p.days[d].places) : id = <<st, d, j>>  BY <3>1
      <4> QED  BY <4>1
    <3> QED  BY <3>1, <3>2
  <2> QED  BY <2>1
<1>7. ASSUME NEW d \in 1..k, d \in A PROVE Looked(q.segments, new(d)) = Hops(p.days[d].places)
  <2>1. \A j \in DOMAIN DaySegments(st, d, p.days[d].places) :
          q.segments[DaySegments(st, d, p.days[d].places)[j]] = Hops(p.days[d].places)[j]
    BY <1>4, <1>7
  <2> HIDE DEF st
  <2> QED  BY <1>5, <2>1, JoinedIsShown
<1> HIDE DEF new, st
<1>8. DOMAIN q.days = 1..k  BY <1>4 DEF Snapshot, Lists
<1>9. ASSUME NEW d \in 1..k, d \in A
      PROVE  /\ q.days[d].segments = new(d) /\ q.days[d].weather = Anchors(q.days[d], d)
             /\ q.days[d].weather \subseteq q.weather /\ ToSet(new(d)) \subseteq DOMAIN q.segments
  <2>1. q.days[d] = DayRecord(p.days[d].places, new(d), Anchors(p.days[d], d), p.days[d].dated)  BY <1>4, <1>9
  <2>2. /\ q.days[d].places = p.days[d].places /\ q.days[d].segments = new(d)
        /\ q.days[d].weather = Anchors(p.days[d], d) /\ q.days[d].dated = p.days[d].dated
    BY <2>1, DayFields
  <2>3. Anchors(q.days[d], d) = Anchors(p.days[d], d)  BY <2>2 DEF Anchors
  <2>4. Anchors(p.days[d], d) \subseteq q.weather /\ ToSet(new(d)) \subseteq DOMAIN q.segments  BY <1>4, <1>9
  <2> QED  BY <2>2, <2>3, <2>4
<1>10. ASSUME NEW d \in 1..k, d \notin A
       PROVE  /\ d \in DOMAIN s.days /\ q.days[d] = s.days[d] /\ s.days[d].weather \subseteq q.weather
              /\ \A id \in ToSet(s.days[d].segments) : id \in DOMAIN q.segments /\ q.segments[id] = s.segments[id]
  <2>1. d \in DOMAIN s.days  BY <1>2, <1>10
  <2>2. day_hash(s, d) = day_hash(q, d)  BY <1>8, <1>10, <2>1 DEF validate_unchanged_days
  <2>3. /\ q.days[d] = s.days[d] /\ s.days[d].weather \cap s.weather = q.days[d].weather \cap q.weather
        /\ \A id \in ToSet(s.days[d].segments) \cap DOMAIN s.segments :
             id \in DOMAIN q.segments /\ q.segments[id] = s.segments[id]
    BY <1>8, <2>1, <2>2, SameHash
  <2>4. ToSet(s.days[d].segments) \subseteq DOMAIN s.segments /\ s.days[d].weather \subseteq s.weather
    BY <1>1, <2>1 DEF Linked, DayShown
  <2> QED  BY <2>1, <2>3, <2>4
<1>11. \A d \in 1..k : \A id \in ToSet(q.days[d].segments) : id[2] = d
  <2>1. ASSUME NEW d \in 1..k PROVE \A id \in ToSet(q.days[d].segments) : id[2] = d
    <3>1. CASE d \in A  BY <1>6, <1>9, <3>1
    <3>2. CASE d \notin A  BY <1>1, <1>10, <3>2
    <3> QED  BY <3>1, <3>2
  <2> QED  BY <2>1
<1>12. Linked(q)
  <2>1. ASSUME NEW d \in 1..k PROVE IsInjective(q.days[d].segments) /\ ToSet(q.days[d].segments) \subseteq DOMAIN q.segments
    <3>1. CASE d \in A  BY <1>6, <1>9, <3>1
    <3>2. CASE d \notin A
      <4>1. IsInjective(s.days[d].segments)  BY <1>1, <1>10, <3>2 DEF Linked
      <4> QED  BY <1>10, <3>2, <4>1
    <3> QED  BY <3>1, <3>2
  <2>2. \A d, e \in 1..k : d # e => ToSet(q.days[d].segments) \cap ToSet(q.days[e].segments) = {}
    BY <1>11
  <2>3. ASSUME NEW id \in DOMAIN q.segments PROVE \E d \in 1..k : id \in ToSet(q.days[d].segments)
    <3>1. CASE \E d \in A \cap 1..k : id \in ToSet(new(d))
      <4>1. PICK d \in A \cap 1..k : id \in ToSet(new(d))  BY <3>1
      <4> QED  BY <1>9, <4>1
    <3>2. CASE id \in DOMAIN s.segments \ AffectedSegments(s, i)
      <4>1. PICK d \in DOMAIN s.days : id \in ToSet(s.days[d].segments)  BY <1>1, <3>2 DEF Linked
      <4>2. d \notin A
        <5>1. ASSUME d \in A PROVE id \in AffectedSegments(s, i)
          <6>1. d \in AffectedDays(s, i) \cap DOMAIN s.days  BY <4>1, <5>1
          <6> QED  BY <4>1, <6>1 DEF AffectedSegments
        <5> QED  BY <3>2, <5>1
      <4>3. d \in 1..k  BY <1>2, <4>2
      <4> QED  BY <1>10, <4>1, <4>2, <4>3
    <3> QED  BY <1>3, <1>4, <3>1, <3>2
  <2> QED  BY <1>8, <2>1, <2>2, <2>3 DEF Linked
<1>13. ASSUME NEW d \in 1..k PROVE DayShown(q, d)
  <2>1. CASE d \in A
    <3>1. Looked(q.segments, q.days[d].segments) = Hops(q.days[d].places)  BY <1>4, <1>7, <1>9, <2>1
    <3> QED  BY <1>9, <2>1, <3>1 DEF DayShown
  <2>2. CASE d \notin A
    <3> DEFINE ids == s.days[d].segments
    <3>1. \A j \in DOMAIN ids : ids[j] \in ToSet(ids)  BY DEF ToSet
    <3>2. Looked(q.segments, ids) = Looked(s.segments, ids)
      <4> HIDE DEF ids
      <4>1. \A id \in ToSet(ids) : q.segments[id] = s.segments[id]  BY <1>10, <2>2 DEF ids
      <4>2. \A j \in DOMAIN ids : q.segments[ids[j]] = s.segments[ids[j]]  BY <3>1, <4>1
      <4> QED  BY <4>2 DEF Looked
    <3>3. Looked(s.segments, ids) = Hops(s.days[d].places) /\ s.days[d].weather = Anchors(s.days[d], d)
      BY <1>1, <1>10, <2>2 DEF DayShown
    <3> QED  BY <1>10, <2>2, <3>2, <3>3 DEF DayShown
  <2> QED  BY <2>1, <2>2
<1>14. Planned(q) \subseteq q.places
  <2>1. \A d \in 1..k : ToSet(q.days[d].places) \subseteq q.places  BY <1>2, <1>3, <1>4
  <2> QED  BY <1>8, <2>1 DEF Planned, On
<1>15. Connected(q)  BY <1>8, <1>12, <1>13, <1>14, ConnectedParts
<1>16. Shape(q)  BY <1>4, <1>8 DEF Snapshot, Lists, Shape
<1> QED  BY <1>8, <1>11, <1>15, <1>16 DEF Sound

-----------------------------------------------------------------------------
(* The steps of the planner.                                                *)
LEMMA ResolvedWishes ==
  ASSUME NEW req \in Wishes, accepted \subseteq Places
  PROVE  Resolved(req) \in Wishes
<1> DEFINE met == { u \in req.texts : Matching(u) # <<>> }
           found == { Head(Matching(t)) : t \in met }
           left == { t \in req.texts : Matching(t) = <<>> }
           must == req.must \cup found
           new == Resolved(req)
<1>1. /\ req = [must |-> req.must, texts |-> req.texts, days |-> req.days, dated |-> req.dated]
      /\ req.must \subseteq Places /\ req.texts \subseteq Texts /\ req.days \in 1..MaxDays /\ req.dated \in BOOLEAN
  BY DEF Wishes
<1>2. \A t \in met : Head(Matching(t)) \in Places
  <2>1. ASSUME NEW t \in met PROVE Head(Matching(t)) \in Places
    <3>1. Named[t] \in Seq(Places)  BY <1>1, OfferedAssumption
    <3>2. Matching(t) \in Seq(Places) /\ Matching(t) # <<>>  BY <3>1, Filtered DEF Matching
    <3> QED  BY <3>2
  <2> QED  BY <2>1
<1>3. must \subseteq Places /\ left \subseteq Texts  BY <1>1, <1>2
<1>4. new = [req EXCEPT !.must = must, !.texts = left]  BY DEF Resolved
<1> HIDE DEF new, must, left
<1>5. new = [must |-> must, texts |-> left, days |-> req.days, dated |-> req.dated]  BY <1>1, <1>4
<1>6. new \in Wishes  BY <1>1, <1>3, <1>5 DEF Wishes
<1> QED  BY <1>6 DEF new

LEMMA LoadInputKeeps ==
  ASSUME Shape(current), accepted \subseteq Places, LoadInput
  PROVE  PlannerOn(planner', accepted) /\ UNCHANGED <<accepted, current, version>>
<1> DEFINE s == [current EXCEPT !.req = Resolved(@)]
           places == Filter(Offered, accepted)
<1>1. planner' = [pc |-> "loaded", base |-> version, snapshot |-> s, places |-> places]
      /\ UNCHANGED <<accepted, current, version>>
  BY DEF LoadInput
<1>2. Shape(s)
  <2>1. /\ current = [req |-> current.req, places |-> current.places, days |-> current.days,
                     segments |-> current.segments, weather |-> current.weather]
        /\ current.req \in Wishes
    BY DEF Shape
  <2>2. s = [req |-> Resolved(current.req), places |-> current.places, days |-> current.days,
             segments |-> current.segments, weather |-> current.weather]
    BY <2>1
  <2>3. Resolved(current.req) \in Wishes  BY <2>1, ResolvedWishes
  <2> HIDE DEF s
  <2>4. /\ s.req = Resolved(current.req) /\ s.places = current.places /\ s.days = current.days
        /\ s.segments = current.segments /\ s.weather = current.weather
    BY <2>2
  <2> QED  BY <2>2, <2>3, <2>4 DEF Shape
<1>3. places \in Seq(Places) /\ IsInjective(places) /\ ToSet(places) \subseteq accepted
  BY OfferedAssumption, Filtered
<1> HIDE DEF s, places
<1>4. /\ planner'.pc = "loaded" /\ planner'.base = version /\ planner'.snapshot = s /\ planner'.places = places
      /\ planner' = [pc |-> planner'.pc, base |-> planner'.base, snapshot |-> planner'.snapshot, places |-> planner'.places]
  BY <1>1
<1>5. Loaded(planner', accepted)  BY <1>2, <1>3, <1>4 DEF Loaded
<1> QED  BY <1>1, <1>4, <1>5 DEF PlannerOn

\* Nothing is said of a planner that has ended.
LEMMA EndedKeeps ==
  ASSUME NEW x, x.pc \in {"idle", "saved", "infeasible", "outdated"}, NEW ok
  PROVE  PlannerOn(x, ok)
BY DEF PlannerOn

LEMMA ArrangeKeeps ==
  ASSUME PlannerOn(planner, accepted), Arrange
  PROVE  PlannerOn(planner', accepted) /\ UNCHANGED <<accepted, current, version>>
<1> DEFINE s == planner.snapshot
           places == planner.places
<1>1. Loaded(planner, accepted)  BY DEF PlannerOn, Arrange
<1>2. /\ Shape(s) /\ places \in Seq(Places) /\ IsInjective(places) /\ ToSet(places) \subseteq accepted
  BY <1>1 DEF Loaded
<1>3. PreflightConflicts(s.req, places) = {}  BY DEF Arrange
<1>4. PICK forecast \in Forecasts :
        planner' = [pc |-> "arranged", base |-> planner.base, snapshot |-> s,
                    days |-> Arranged(places, s.req, forecast), attempts |-> 0]
  BY DEF Arrange
<1> DEFINE days == Arranged(places, s.req, forecast)
<1>5. s.req.texts = {} /\ s.req.days \in 1..7 /\ s.req.must \subseteq ToSet(places)
  <2> HIDE DEF s, places
  <2>1. /\ "unresolved_must_visit" \notin PreflightConflicts(s.req, places)
        /\ "place_count_out_of_range" \notin PreflightConflicts(s.req, places)
        /\ "must_visit_missing" \notin PreflightConflicts(s.req, places)
    BY <1>3
  <2> QED  BY <2>1 DEF PreflightConflicts
<1>6. days \in Days(s.req.days) /\ All(days) = ToSet(places) /\ NoneTwice(days)
  <2>1. s.req.days \in Nat /\ s.req.days > 0  BY <1>5
  <2> HIDE DEF s, places
  <2> QED  BY <1>2, <2>1, ArrangedKeeps
<1> HIDE DEF s, places, days
<1>7. /\ planner'.pc = "arranged" /\ planner'.snapshot = s /\ planner'.days = days /\ planner'.attempts = 0
      /\ planner' = [pc |-> planner'.pc, base |-> planner'.base, snapshot |-> planner'.snapshot,
                     days |-> planner'.days, attempts |-> planner'.attempts]
  BY <1>4 DEF days
<1>8. Drafted(planner', accepted)
  <2>1. 0 \in 0..MaxRepairs  BY DEF MaxRepairs
  <2> QED  BY <1>2, <1>5, <1>6, <1>7, <2>1 DEF Drafted
<1>9. UNCHANGED <<accepted, current, version>>  BY DEF Arrange
<1> QED  BY <1>7, <1>8, <1>9 DEF PlannerOn

\* A draft with two of its fields changed.
LEMMA DraftUpdated ==
  ASSUME NEW x, x = [pc |-> x.pc, base |-> x.base, snapshot |-> x.snapshot, days |-> x.days, attempts |-> x.attempts],
         NEW days
  PROVE  /\ [x EXCEPT !.pc = "fits", !.days = days] =
              [pc |-> "fits", base |-> x.base, snapshot |-> x.snapshot, days |-> days, attempts |-> x.attempts]
         /\ [x EXCEPT !.days = days, !.attempts = @ + 1] =
              [pc |-> x.pc, base |-> x.base, snapshot |-> x.snapshot, days |-> days, attempts |-> x.attempts + 1]
<1> DEFINE a == x.pc
           b == x.base
           c == x.snapshot
           d == x.days
           e == x.attempts
           y == [x EXCEPT !.pc = "fits"]
           z == [x EXCEPT !.days = days]
<1>1. x = [pc |-> a, base |-> b, snapshot |-> c, days |-> d, attempts |-> e]  OBVIOUS
<1> HIDE DEF a, b, c, d, e
<1>2. y = [pc |-> "fits", base |-> b, snapshot |-> c, days |-> d, attempts |-> e]  BY <1>1
<1>3. z = [pc |-> a, base |-> b, snapshot |-> c, days |-> days, attempts |-> e]  BY <1>1
<1>4. [x EXCEPT !.pc = "fits", !.days = days] = [y EXCEPT !.days = days]  OBVIOUS
<1>5. [x EXCEPT !.days = days, !.attempts = @ + 1] = [z EXCEPT !.attempts = @ + 1]  OBVIOUS
<1> HIDE DEF y, z
<1>6. [y EXCEPT !.days = days] = [pc |-> "fits", base |-> b, snapshot |-> c, days |-> days, attempts |-> e]  BY <1>2
<1>7. z.attempts = e  BY <1>3
<1>8. [z EXCEPT !.attempts = @ + 1] = [pc |-> a, base |-> b, snapshot |-> c, days |-> days, attempts |-> e + 1]
  BY <1>3, <1>7
<1> QED  BY <1>4, <1>5, <1>6, <1>8 DEF a, b, c, e

LEMMA RoundKeeps ==
  ASSUME PlannerOn(planner, accepted), Round
  PROVE  PlannerOn(planner', accepted) /\ UNCHANGED <<accepted, current, version>>
<1> DEFINE s == planner.snapshot
           m == s.req.days
           must == s.req.must
           days == planner.days
           routes == Routes(days)
           possible == [d \in DOMAIN routes |-> Possible(routes[d])]
           lost == must \ UNION { ToSet(routes[d]) : d \in DOMAIN routes }
<1>1. planner.pc = "arranged" /\ Drafted(planner, accepted)  BY DEF PlannerOn, Round
<1>2. /\ planner = [pc |-> planner.pc, base |-> planner.base, snapshot |-> s, days |-> days, attempts |-> planner.attempts]
      /\ Shape(s) /\ s.req.texts = {} /\ m \in 1..7 /\ days \in Days(m) /\ NoneTwice(days)
      /\ must \subseteq All(days) /\ All(days) \subseteq accepted /\ planner.attempts \in 0..MaxRepairs
  BY <1>1 DEF Drafted
<1>3. PICK conflicts \in [DOMAIN routes -> UNION { possible[d] : d \in DOMAIN routes }] :
        /\ \A d \in DOMAIN routes : conflicts[d] \in possible[d]
        /\ planner' = Outcome(routes, conflicts)
  BY DEF Round, Routes
<1>4. DOMAIN days = 1..m /\ DOMAIN routes = 1..m  BY <1>2 DEF Days, Routes
<1>5. \A d \in 1..m : conflicts[d] \in Possible(routes[d])  BY <1>3, <1>4
<1>6. \A d \in 1..m : \E legs : conflicts[d] = DayConflicts(routes[d], legs)
  <2> HIDE DEF routes
  <2> QED  BY <1>5 DEF Possible
<1>7. routes \in Days(m) /\ All(routes) = All(days) /\ NoneTwice(routes)
  <2> HIDE DEF days, m
  <2> QED  BY <1>2, RoutesKeep
<1> DEFINE hit == { d \in DOMAIN routes : conflicts[d] # {} }
           fits == [planner EXCEPT !.pc = "fits", !.days = routes]
           repaired == [planner EXCEPT !.days = Repairs(@, conflicts, must), !.attempts = @ + 1]
<1> HIDE DEF routes, possible
<1>8. \/ hit = {} /\ lost = {} /\ planner' = fits
      \/ planner' = [pc |-> "infeasible"]
      \/ planner.attempts # MaxRepairs /\ planner' = repaired
  <2>1. planner' = CASE hit = {} /\ lost = {} -> fits
                     [] lost # {} \/ planner.attempts = MaxRepairs
                          \/ \E d \in hit : ~ Repairable(routes[d], must) -> [pc |-> "infeasible"]
                     [] OTHER -> repaired
    BY <1>3 DEF Outcome
  <2> HIDE DEF hit, lost, fits, repaired, must
  <2> QED  BY <2>1
<1>9. UNCHANGED <<accepted, current, version>>  BY DEF Round
<1>10. CASE planner' = [pc |-> "infeasible"]
  <2>1. planner'.pc = "infeasible"  BY <1>10
  <2> QED  BY <1>9, <2>1, EndedKeeps
<1>11. CASE hit = {} /\ planner' = fits
  <2>1. planner' = [pc |-> "fits", base |-> planner.base, snapshot |-> s, days |-> routes, attempts |-> planner.attempts]
    BY <1>2, <1>11, DraftUpdated
  <2> HIDE DEF s, days, m, must
  <2>2. /\ planner'.pc = "fits" /\ planner'.snapshot = s /\ planner'.days = routes
        /\ planner'.attempts = planner.attempts
        /\ planner' = [pc |-> planner'.pc, base |-> planner'.base, snapshot |-> planner'.snapshot,
                       days |-> planner'.days, attempts |-> planner'.attempts]
    BY <2>1
  <2>3. Drafted(planner', accepted)  BY <1>2, <1>7, <2>2 DEF Drafted, m, must
  <2>4. ASSUME NEW d \in 1..m PROVE Len(routes[d]) <= Capacity.places
    <3>1. PICK legs : conflicts[d] = DayConflicts(routes[d], legs)  BY <1>6
    <3>2. "capacity_exceeded" \notin DayConflicts(routes[d], legs)  BY <1>4, <1>11, <3>1
    <3>3. ~(Len(routes[d]) > Capacity.places)
      <4>1. "capacity_exceeded" \in {"capacity_exceeded", "route_limit_exceeded", "cross_district_excess",
                                     "suburban_mixed", "category_repetition"}
        OBVIOUS
      <4> QED  BY <3>2, <4>1 DEF DayConflicts
    <3>4. Capacity.places \in Nat  BY IntensityAssumption DEF Capacity
    <3>5. Len(routes[d]) \in Nat  BY <1>7 DEF Days
    <3> QED  BY <3>3, <3>4, <3>5
  <2> QED  BY <1>4, <1>9, <2>2, <2>3, <2>4 DEF PlannerOn
<1>12. CASE planner.attempts # MaxRepairs /\ planner' = repaired
  <2> DEFINE new == Repairs(days, conflicts, must)
  <2>1. planner' = [pc |-> planner.pc, base |-> planner.base, snapshot |-> s, days |-> new, attempts |-> planner.attempts + 1]
    <3> HIDE DEF new, s, must
    <3>1. planner' = [planner EXCEPT !.days = new, !.attempts = @ + 1]  BY <1>12 DEF new
    <3>2. planner' = [pc |-> planner.pc, base |-> planner.base, snapshot |-> planner.snapshot, days |-> new,
                      attempts |-> planner.attempts + 1]
      BY <1>2, <3>1, DraftUpdated DEF s
    <3> QED  BY <3>2 DEF s
  <2>2. /\ new \in Days(m) /\ All(new) \subseteq All(days) /\ All(days) \cap must \subseteq All(new)
        /\ NoneTwice(days) => NoneTwice(new)
    <3>1. \A d \in 1..m : IsFiniteSet(conflicts[d])  BY <1>6, ConflictsAreFinite
    <3> HIDE DEF days, m, must
    <3> QED  BY <1>2, <3>1, RepairsKeep
  <2>3. planner.attempts + 1 \in 0..MaxRepairs  BY <1>2, <1>12 DEF MaxRepairs
  <2> HIDE DEF s, days, m, must, new
  <2>4. /\ planner'.pc = "arranged" /\ planner'.snapshot = s /\ planner'.days = new
        /\ planner'.attempts = planner.attempts + 1
        /\ planner' = [pc |-> planner'.pc, base |-> planner'.base, snapshot |-> planner'.snapshot,
                       days |-> planner'.days, attempts |-> planner'.attempts]
    BY <1>1, <2>1
  <2>5. Drafted(planner', accepted)
    <3>1. must \subseteq All(new) /\ All(new) \subseteq accepted /\ NoneTwice(new)  BY <1>2, <2>2
    <3> QED  BY <1>2, <2>2, <2>3, <2>4, <3>1 DEF Drafted, m, must
  <2> QED  BY <1>9, <2>4, <2>5 DEF PlannerOn
<1> QED  BY <1>8, <1>10, <1>11, <1>12

\* A saved plan is the next version: its days are connected.
LEMMA SavePlanKeeps ==
  ASSUME PlannerOn(planner, accepted), version \in Nat, SavePlan
  PROVE  /\ PlannerOn(planner', accepted) /\ accepted' = accepted
         /\ planner.base = version /\ version' = version + 1 /\ Sound(current')
<1>1. Drafted(planner, accepted)  BY DEF PlannerOn, SavePlan
<1>2. /\ Shape(planner.snapshot) /\ planner.snapshot.req.days \in Nat /\ NoneTwice(planner.days)
      /\ planner.days \in Days(planner.snapshot.req.days)
  BY <1>1 DEF Drafted
<1>3. /\ accepted' = accepted /\ planner.base = version /\ version' = version + 1
      /\ current' = PlannedSnapshot(planner.snapshot, planner.days) /\ planner' = [pc |-> "saved"]
  BY DEF SavePlan, Commit
<1>4. Sound(current')  BY <1>2, <1>3, PlannedSound
<1>5. planner'.pc = "saved"  BY <1>3
<1> QED  BY <1>3, <1>4, <1>5, EndedKeeps

\* What a step does to the version: nothing, or it saves the next one.
Moves == UNCHANGED <<current, version>> \/ version' = version + 1

LEMMA PlanKeeps ==
  ASSUME IInv, Plan
  PROVE  /\ accepted' = accepted /\ PlannerOn(planner', accepted')
         /\ Moves /\ version' \in Nat /\ Sound(current')
<1>1. accepted \subseteq Places /\ version \in Nat /\ Sound(current) /\ Shape(current) /\ PlannerOn(planner, accepted)
  BY DEF IInv, Sound
<1>2. CASE LoadInput  BY <1>1, <1>2, LoadInputKeeps DEF Moves
<1>3. CASE Preflight
  <2>1. planner'.pc = "infeasible" /\ UNCHANGED <<accepted, current, version>>  BY <1>3 DEF Preflight
  <2> QED  BY <1>1, <2>1, EndedKeeps DEF Moves
<1>4. CASE Arrange  BY <1>1, <1>4, ArrangeKeeps DEF Moves
<1>5. CASE Round  BY <1>1, <1>5, RoundKeeps DEF Moves
<1>6. CASE SavePlan  BY <1>1, <1>6, SavePlanKeeps DEF Moves
<1>7. CASE PlanIsOutdated
  <2>1. planner'.pc = "outdated" /\ UNCHANGED <<accepted, current, version>>  BY <1>7 DEF PlanIsOutdated
  <2> QED  BY <1>1, <2>1, EndedKeeps DEF Moves
<1> QED  BY <1>2, <1>3, <1>4, <1>5, <1>6, <1>7 DEF Plan

-----------------------------------------------------------------------------
(* The steps of edits and proposals.                                        *)

\* What was planned on a version that is current, or on an earlier one, still is.
LEMMA EditStays ==
  ASSUME NEW x, NEW v \in Nat, NEW s, EditOn(x, v, s), NEW w, NEW t, (w = v /\ t = s) \/ w = v + 1
  PROVE  EditOn(x, w, t)
<1>1. x.base \in Nat /\ x.base <= v  BY DEF EditOn
<1>2. CASE w = v + 1
  <2>1. x.base <= w /\ x.base # w  BY <1>1, <1>2
  <2> QED  BY <1>1, <2>1 DEF EditOn
<1>3. CASE w = v /\ t = s  BY <1>3
<1> QED  BY <1>2, <1>3

LEMMA PlanEditKeeps ==
  ASSUME Sound(current), version \in Nat, PlanEdit
  PROVE  EditOn(editor', version, current) /\ UNCHANGED <<proposal, current, version>>
<1>1. PICK i \in Intents :
        /\ WellFormed(i)
        /\ editor' = [pc |-> "planned", base |-> version, snapshot |-> current,
                      affected |-> AffectedDays(current, i), risks |-> Risks(current, i),
                      preview |-> Recomputed(Preview(current, i), AffectedDays(current, i))]
  BY DEF PlanEdit
<1>2. /\ editor'.base = version /\ editor'.snapshot = current /\ editor'.affected = AffectedDays(current, i)
      /\ editor'.preview = Recomputed(Preview(current, i), AffectedDays(current, i))
  BY <1>1
<1>3. WithinScope(editor') => Sound(editor'.preview)
  BY <1>1, <1>2, EditSound DEF WithinScope
<1>4. UNCHANGED <<proposal, current, version>>  BY DEF PlanEdit
<1>5. version <= version  OBVIOUS
<1> QED  BY <1>2, <1>3, <1>4, <1>5 DEF EditOn

\* What holds of the edit that was planned, of the proposal that waits.
EditorOn(x, v, s)   == x # Nothing => EditOn(x, v, s)
ProposalOn(x, v, s) == x # Nothing => EditOn(x, v, s) /\ WithinScope(x)

LEMMA EditKeeps ==
  ASSUME IInv, Edit
  PROVE  /\ Moves /\ version' \in Nat /\ Sound(current')
         /\ EditorOn(editor', version', current') /\ ProposalOn(proposal', version', current')
<1>1. /\ version \in Nat /\ Sound(current)
      /\ EditorOn(editor, version, current) /\ ProposalOn(proposal, version, current)
  BY DEF IInv, EditorOn, ProposalOn
<1>2. InScope <=> WithinScope(editor)  BY DEF InScope, WithinScope
<1>3. CASE PlanEdit
  <2>1. EditOn(editor', version, current) /\ UNCHANGED <<proposal, current, version>>
    BY <1>1, <1>3, PlanEditKeeps
  <2>2. version' = version /\ current' = current /\ proposal' = proposal  BY <2>1
  <2> QED  BY <1>1, <2>1, <2>2 DEF Moves, EditorOn, ProposalOn
<1>4. CASE RefuseEdit
  <2>1. editor' = Nothing /\ proposal' = proposal /\ version' = version /\ current' = current
    BY <1>4 DEF RefuseEdit
  <2> QED  BY <1>1, <2>1 DEF Moves, EditorOn, ProposalOn
<1>5. CASE SaveEdit
  <2>1. /\ editor # Nothing /\ WithinScope(editor) /\ version' = version + 1 /\ current' = editor.preview
        /\ editor' = Nothing /\ proposal' = proposal
    BY <1>2, <1>5 DEF SaveEdit, Commit
  <2>2. Sound(current')  BY <1>1, <2>1 DEF EditorOn, EditOn
  <2>3. ProposalOn(proposal', version', current')  BY <1>1, <2>1, EditStays DEF ProposalOn
  <2>4. version' \in Nat  BY <1>1, <2>1
  <2> QED  BY <2>1, <2>2, <2>3, <2>4 DEF Moves, EditorOn
<1>6. CASE ProposeEdit
  <2>1. /\ editor # Nothing /\ WithinScope(editor) /\ proposal' = editor /\ editor' = Nothing
        /\ version' = version /\ current' = current
    BY <1>2, <1>6 DEF ProposeEdit
  <2> QED  BY <1>1, <2>1 DEF Moves, EditorOn, ProposalOn
<1>7. CASE AcceptProposal
  <2>1. /\ proposal # Nothing /\ version' = version + 1 /\ current' = proposal.preview
        /\ proposal' = Nothing /\ editor' = editor
    BY <1>7 DEF AcceptProposal, Commit
  <2>2. Sound(current')  BY <1>1, <2>1 DEF ProposalOn, EditOn
  <2>3. EditorOn(editor', version', current')  BY <1>1, <2>1, EditStays DEF EditorOn
  <2>4. version' \in Nat  BY <1>1, <2>1
  <2> QED  BY <2>1, <2>2, <2>3, <2>4 DEF Moves, ProposalOn
<1>8. CASE DropProposal
  <2>1. proposal' = Nothing /\ editor' = editor /\ version' = version /\ current' = current
    BY <1>8 DEF DropProposal
  <2> QED  BY <1>1, <2>1 DEF Moves, EditorOn, ProposalOn
<1> QED  BY <1>3, <1>4, <1>5, <1>6, <1>7, <1>8 DEF Edit

-----------------------------------------------------------------------------
(* The theorems.                                                            *)

\* The first version has no days: nothing in it is out of place.
LEMMA UnplannedSound ==
  ASSUME NEW req \in Wishes
  PROVE  Sound(Unplanned(req))
<1> DEFINE s == Unplanned(req)
<1>1. s = [req |-> req, places |-> {}, days |-> <<>>, segments |-> <<>>, weather |-> {}]  BY DEF Unplanned
<1> HIDE DEF s
<1>2. s.req = req /\ s.places = {} /\ s.days = <<>> /\ s.segments = <<>> /\ s.weather = {}  BY <1>1
<1>3. Len(s.days) = 0 /\ DOMAIN s.days = {} /\ DOMAIN s.segments = {} /\ 1..0 = {}  BY <1>2
<1>4. Shape(s)  BY <1>1, <1>2, <1>3 DEF Shape
<1>5. Planned(s) = {}  BY <1>3 DEF Planned
<1>6. Linked(s)  BY <1>3 DEF Linked
<1>7. Connected(s)  BY <1>3, <1>5, <1>6, ConnectedParts
<1> QED  BY <1>3, <1>4, <1>7 DEF Sound, s

LEMMA Initially == Init => IInv
<1> SUFFICES ASSUME Init PROVE IInv
  OBVIOUS
<1>1. PICK req \in Confirmed : current = Unplanned(req)  BY DEF Init
<1>2. Sound(current)
  <2>1. req \in Wishes  BY ConfirmedAssumption
  <2> QED  BY <1>1, <2>1, UnplannedSound
<1>3. planner.pc = "idle" /\ version = 1 /\ editor = Nothing /\ proposal = Nothing  BY DEF Init, Idle
<1>4. accepted \subseteq Places  BY ConfirmedAssumption DEF Init
<1>5. PlannerOn(planner, accepted)  BY <1>3, EndedKeeps
<1>6. version \in Nat  BY <1>3
<1> QED  BY <1>2, <1>3, <1>4, <1>5, <1>6 DEF IInv

LEMMA Inductively == IInv /\ [Next]_vars => IInv'
<1> SUFFICES ASSUME IInv, [Next]_vars PROVE IInv'
  OBVIOUS
<1>1. /\ accepted \subseteq Places /\ version \in Nat /\ Sound(current) /\ PlannerOn(planner, accepted)
      /\ EditorOn(editor, version, current) /\ ProposalOn(proposal, version, current)
  BY DEF IInv, EditorOn, ProposalOn
<1>2. IInv' <=>
        /\ accepted' \subseteq Places /\ version' \in Nat /\ Sound(current') /\ PlannerOn(planner', accepted')
        /\ EditorOn(editor', version', current') /\ ProposalOn(proposal', version', current')
  BY DEF IInv, EditorOn, ProposalOn
<1>3. CASE Plan /\ UNCHANGED editing
  <2>1. accepted' = accepted /\ PlannerOn(planner', accepted') /\ Moves /\ version' \in Nat /\ Sound(current')
    BY <1>3, PlanKeeps
  <2>2. editor' = editor /\ proposal' = proposal  BY <1>3 DEF editing
  <2>3. EditorOn(editor', version', current') /\ ProposalOn(proposal', version', current')
    BY <1>1, <2>1, <2>2, EditStays DEF EditorOn, ProposalOn, Moves
  <2> QED  BY <1>1, <1>2, <2>1, <2>3
<1>4. CASE Edit /\ UNCHANGED planning
  <2>1. accepted' = accepted /\ planner' = planner  BY <1>4 DEF planning
  <2> QED  BY <1>1, <1>2, <1>4, <2>1, EditKeeps
<1>5. CASE UNCHANGED vars
  <2>1. /\ accepted' = accepted /\ planner' = planner /\ version' = version /\ current' = current
        /\ editor' = editor /\ proposal' = proposal
    BY <1>5 DEF vars, planning, editing
  <2> QED  BY <1>1, <1>2, <2>1
<1> QED  BY <1>3, <1>4, <1>5 DEF Next

\* In every reachable state snapshots have their shape, the planner holds what it
\* loaded and arranged, and edits are known by the version they were planned on.
THEOREM Invariance == Spec => []IInv
<1> QED  BY Initially, Inductively, PTL DEF Spec

\* Every version and every proposal shows days that are connected (validate of
\* planning and editing, recompute): for any places, distances, intents and answers.
THEOREM DaysStayConnected == Spec => []DaysAreConnected
<1>1. IInv => DaysAreConnected
  <2> SUFFICES ASSUME IInv PROVE DaysAreConnected
    OBVIOUS
  <2>1. Connected(current)  BY DEF IInv, Sound
  <2>2. ASSUME proposal # Nothing PROVE Connected(proposal.preview)
    BY <2>2 DEF IInv, EditOn, Sound
  <2> QED  BY <2>1, <2>2 DEF DaysAreConnected
<1> QED  BY <1>1, Invariance, PTL

\* A draft holds loaded places only, none twice, and all that were asked for,
\* after any arranging, ordering and repairing (_arrange, _route_day, _repair).
THEOREM DraftsKeepMustVisits == Spec => []DraftKeepsMustVisits
<1>1. IInv => DraftKeepsMustVisits
  <2> SUFFICES ASSUME IInv, planner.pc \in {"arranged", "fits"}
               PROVE  /\ planner.snapshot.req.must \subseteq All(planner.days) /\ All(planner.days) \subseteq accepted
                      /\ NoneTwice(planner.days) /\ planner.attempts <= MaxRepairs
    BY DEF DraftKeepsMustVisits, All
  <2>1. Drafted(planner, accepted)  BY DEF IInv, PlannerOn
  <2>2. planner.attempts <= MaxRepairs  BY <2>1 DEF Drafted, MaxRepairs
  <2> QED  BY <2>1, <2>2 DEF Drafted
<1> QED  BY <1>1, Invariance, PTL

\* Ordering a day keeps its places and its first one, and never makes its way longer
\* than that of the nearest-neighbour tour; another pass would save nothing, or every
\* pass has saved more than a metre (optimizer.py), whatever the distances.
THEOREM OrderingNeverLengthens == Spec => []OrderingShortens
<1>1. IInv => OrderingShortens
  <2> SUFFICES ASSUME IInv, planner.pc = "arranged", NEW d \in DOMAIN planner.days
               PROVE  LET day == planner.days[d]
                          route == Ordered(day)
                      IN  /\ ToSet(route) = ToSet(day) /\ Len(route) = Len(day)
                          /\ day # <<>> => Head(route) = Head(day)
                          /\ route_length(route) <= route_length(nearest_neighbor(day))
                          /\ \/ Pass(route) = route
                             \/ route_length(route) + 2 * Passes <= route_length(nearest_neighbor(day))
    BY DEF OrderingShortens
  <2> DEFINE day == planner.days[d]
             route == Ordered(day)
  <2>1. day \in Seq(Places)  BY DEF IInv, PlannerOn, Drafted, Days
  <2> HIDE DEF day
  <2>2. /\ route \in Seq(Places) /\ Len(route) = Len(day) /\ ToSet(route) = ToSet(day)
        /\ day # <<>> => route[1] = day[1]
        /\ route_length(route) <= route_length(nearest_neighbor(day))
        /\ Pass(route) = route \/ route_length(route) + 2 * Passes <= route_length(nearest_neighbor(day))
    BY <2>1, OrderedKeeps
  <2> HIDE DEF route
  <2>3. day # <<>> => Head(route) = Head(day)  BY <2>1, <2>2
  <2> QED  BY <2>2, <2>3 DEF day, route
<1> QED  BY <1>1, Invariance, PTL

\* A plan that is saved passes validate_final_snapshot, leaves nothing that was
\* asked for unresolved, and keeps to the number of places of a day.
THEOREM PlansPassTheFinalChecks == Spec => PlansCanBePublished
<1> DEFINE Good == /\ FinalIssues(current') = {} /\ current'.req.texts = {}
                   /\ \A d \in DOMAIN current'.days : Len(current'.days[d].places) <= Capacity.places
<1>1. ASSUME IInv, [Next]_vars, planner.pc = "fits", planner'.pc = "saved"
      PROVE  Good
  <2>1. SavePlan
    <3>1. planner' # planner  BY <1>1
    <3>2. Plan  BY <1>1, <3>1 DEF Next, vars, planning
    <3>3. ~LoadInput /\ ~Preflight /\ ~Arrange /\ ~Round /\ ~PlanIsOutdated
      BY <1>1 DEF LoadInput, Preflight, Arrange, Round, PlanIsOutdated
    <3> QED  BY <3>2, <3>3 DEF Plan
  <2> DEFINE base == planner.snapshot
             routes == planner.days
             m == base.req.days
             new == current'
  <2>2. /\ Shape(base) /\ base.req.texts = {} /\ m \in 1..7 /\ routes \in Days(m) /\ NoneTwice(routes)
        /\ base.req.must \subseteq All(routes)
        /\ \A d \in DOMAIN routes : Len(routes[d]) <= Capacity.places
    BY <1>1 DEF IInv, PlannerOn, Drafted
  <2>3. new = PlannedSnapshot(base, routes)  BY <2>1 DEF SavePlan, Commit
  <2> HIDE DEF base, routes, m, new
  <2>4. /\ Sound(new) /\ new.req = base.req /\ DOMAIN new.days = 1..m /\ Len(new.days) = m
        /\ \A d \in 1..m : new.days[d].places = routes[d]
        /\ Planned(new) = All(routes)
    <3>1. m \in Nat  BY <2>2
    <3> QED  BY <2>2, <2>3, <3>1, PlannedSound
  <2>5. Planned(new) \subseteq new.places /\ Linked(new)  BY <2>4, ConnectedParts DEF Sound
  <2>6. new.days # <<>>  BY <2>2, <2>4
  <2>7. Len(new.days) = new.req.days  BY <2>4 DEF m
  <2>8. \A d \in DOMAIN new.days : ToSet(new.days[d].segments) \subseteq DOMAIN new.segments
    BY <2>5 DEF Linked
  <2>9. new.req.must \subseteq Planned(new)  BY <2>2, <2>4
  <2>10. FinalIssues(new) = {}  BY <2>5, <2>6, <2>7, <2>8, <2>9 DEF FinalIssues
  <2>11. new.req.texts = {}  BY <2>2, <2>4
  <2>12. \A d \in DOMAIN new.days : Len(new.days[d].places) <= Capacity.places
    <3>1. DOMAIN routes = 1..m  BY <2>2 DEF Days
    <3> QED  BY <2>2, <2>4, <3>1
  <2> QED  BY <2>10, <2>11, <2>12 DEF new
<1>2. IInv /\ [Next]_vars => [planner.pc = "fits" /\ planner'.pc = "saved" => Good]_<<current, planner>>
  <2> HIDE DEF Good
  <2> QED  BY <1>1
<1> QED  BY <1>2, Invariance, PTL DEF Spec, PlansCanBePublished

\* A proposal that is accepted changes no day but those it was said to affect
\* (validate_unchanged_days before it is made, the version check on accepting it).
THEOREM EditsStayInScope == Spec => AcceptedEditsStayInScope
<1> DEFINE Good == ChangedDays(current, current') \subseteq proposal.affected
<1>1. ASSUME IInv, [Next]_vars, proposal # Nothing, proposal' = Nothing, current' # current
      PROVE  Good
  <2>1. AcceptProposal
    <3>1. Edit  BY <1>1 DEF Next, vars, editing
    <3>2. ~PlanEdit /\ ~RefuseEdit /\ ~SaveEdit /\ ~ProposeEdit /\ ~DropProposal
      BY <1>1 DEF PlanEdit, RefuseEdit, SaveEdit, ProposeEdit, DropProposal
    <3> QED  BY <3>1, <3>2 DEF Edit
  <2>2. version = proposal.base /\ current' = proposal.preview  BY <2>1 DEF AcceptProposal, Commit
  <2>3. proposal.snapshot = current /\ WithinScope(proposal)  BY <1>1, <2>2 DEF IInv, EditOn
  <2>4. validate_unchanged_days(current, current', proposal.affected)  BY <2>2, <2>3 DEF WithinScope
  <2> QED  BY <2>4 DEF validate_unchanged_days, ChangedDays
<1>2. IInv /\ [Next]_vars =>
        [proposal # Nothing /\ proposal' = Nothing /\ current' # current => Good]_<<current, proposal>>
  <2> HIDE DEF Good
  <2> QED  BY <1>1
<1> QED  BY <1>2, Invariance, PTL DEF Spec, AcceptedEditsStayInScope

=============================================================================
