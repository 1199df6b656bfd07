--------------------------- MODULE ThrottleProof ---------------------------
(***************************************************************************)
(* Proofs about Throttle.                                                  *)
(***************************************************************************)
EXTENDS Throttle, FiniteSetTheorems, SequenceTheorems, WellFoundedInduction, TLAPS

(* The storage: stamps are kept from the oldest to the youngest, none has  *)
(* more left than its window, and once the expired ones are dropped they   *)
(* are the tokens the bucket has given within its window.                  *)
Kept(s, g, b) ==
    /\ \A i \in DOMAIN s : s[i] <= Window[b]
    /\ \A i, k \in DOMAIN s : i <= k => s[i] <= s[k]
    /\ g = InWindow(s)
    /\ Len(g) <= Limit[b]

StorageInv == \A b \in Bucket : Kept(stamps[b], granted[b], b)

(* The pass under way: its calls are distinct, each is queued or was       *)
(* withdrawn during the pass, by its signal or unnoticed, and only the one *)
(* it awaits may have its token.                                           *)
PassInv ==
    /\ IsInjective(pass.order)
    /\ ~pass.busy => pass.kind = "none"
    /\ \A j \in ToSet(pass.order) :
          /\ outcome[j] \in {"queued", "rejected", "cancelled"}
          /\ outcome[j] # "queued" => j \in late \/ j \in aborted
          /\ tokens[j] > 0 => pass.kind = "ok" /\ Head(pass.order) = j

(* The calls: a new one has no token; a signal withdraws its call. *)
CallInv ==
    \A j \in Jobs :
        /\ outcome[j] = "new" => tokens[j] = 0
        /\ j \in aborted => outcome[j] = "cancelled"

IInv == TypeOK /\ StorageInv /\ PassInv /\ CallInv /\ SettledOnce

---------------------------------------------------------------------------
(* Finite sets *)

(* A finite set that a relation orders has a first element. *)
LEMMA FirstOfFinite ==
    ASSUME NEW S, IsFiniteSet(S), S # {}, NEW R,
           \A x, y \in S : x # y => <<x, y>> \in R \/ <<y, x>> \in R,
           \A x, y, z \in S : <<x, y>> \in R /\ <<y, z>> \in R => <<x, z>> \in R
    PROVE  \E x \in S : \A y \in S \ {x} : <<x, y>> \in R
  <1> DEFINE First(X, x) == \A y \in X \ {x} : <<x, y>> \in R
             Bad == {X \in SUBSET S : X # {} /\ \A x \in X : ~First(X, x)}
             O == StrictSubsetOrdering(S)
  <1>1. SUFFICES ASSUME Bad # {}  PROVE FALSE
    OBVIOUS
  <1>2. PICK X \in Bad : \A Y \in Bad : ~(<<Y, X>> \in O)
    <2>1. IsWellFoundedOn(O, SUBSET S)
      BY FS_StrictSubsetOrderingWellFounded, FS_FiniteSubsetsOfFinite
    <2>2. Bad \subseteq SUBSET S
      OBVIOUS
    <2> HIDE DEF Bad, O
    <2> QED BY <1>1, <2>1, <2>2, WFMin
  <1>3. PICK x \in X : TRUE
    OBVIOUS
  <1>4. X \ {x} \notin Bad
    <2>1. <<X \ {x}, X>> \in O
      BY <1>3 DEF StrictSubsetOrdering
    <2> HIDE DEF Bad, O
    <2> QED BY <1>2, <2>1
  <1>5. CASE X = {x}
    BY <1>2, <1>5
  <1>6. CASE X # {x}
    <2>1. PICK m \in X \ {x} : First(X \ {x}, m)
      BY <1>3, <1>4, <1>6
    <2>2. m \in S /\ x \in S /\ m # x /\ X \subseteq S
      BY <2>1, <1>3
    <2>3. CASE <<m, x>> \in R
      <3>1. First(X, m)
        BY <2>1, <2>3
      <3> QED BY <3>1, <2>1, <1>2
    <2>4. CASE <<x, m>> \in R
      <3>1. ASSUME NEW y \in X \ {x}  PROVE <<x, y>> \in R
        <4>1. CASE y = m
          BY <4>1, <2>4
        <4>2. CASE y # m
          <5>1. <<m, y>> \in R
            BY <4>2, <2>1
          <5>2. y \in S
            BY <2>2
          <5> QED BY <5>1, <5>2, <2>2, <2>4
        <4> QED BY <4>1, <4>2
      <3>2. First(X, x)
        BY <3>1
      <3> QED BY <3>2, <1>3, <1>2
    <2> QED BY <2>2, <2>3, <2>4
  <1> QED BY <1>5, <1>6

LEMMA MaxOfNats ==
    ASSUME NEW S \in SUBSET Nat, IsFiniteSet(S), S # {}
    PROVE  Max(S) \in S /\ \A y \in S : Max(S) >= y
  <1> DEFINE R == {p \in Nat \X Nat : p[1] > p[2]}
  <1>1. \A x, y \in S : <<x, y>> \in R <=> x > y
    OBVIOUS
  <1> HIDE DEF R
  <1>2. \A x, y \in S : x # y => <<x, y>> \in R \/ <<y, x>> \in R
    BY <1>1
  <1>3. \A x, y, z \in S : <<x, y>> \in R /\ <<y, z>> \in R => <<x, z>> \in R
    BY <1>1
  <1>4. ASSUME NEW T, T = S
        PROVE  \E x \in T : \A y \in T \ {x} : <<x, y>> \in R
    <2>1. IsFiniteSet(T) /\ T # {}
      BY <1>4
    <2>2. /\ \A x, y \in T : x # y => <<x, y>> \in R \/ <<y, x>> \in R
          /\ \A x, y, z \in T : <<x, y>> \in R /\ <<y, z>> \in R => <<x, z>> \in R
      BY <1>2, <1>3, <1>4
    <2> QED BY <2>1, <2>2, FirstOfFinite
  <1>5. PICK x \in S : \A y \in S \ {x} : <<x, y>> \in R
    BY <1>4
  <1>6. \A y \in S \ {x} : x > y
    BY <1>1, <1>5
  <1>7. \A y \in S : x >= y
    BY <1>6
  <1> QED BY <1>7 DEF Max

LEMMA MinOfTwo ==
    ASSUME NEW a \in Nat, NEW b \in Nat
    PROVE  Min({a, b}) \in Nat
  <1>1. CASE a <= b
    BY <1>1 DEF Min
  <1>2. CASE b <= a
    BY <1>2 DEF Min
  <1> QED BY <1>1, <1>2

---------------------------------------------------------------------------
(* The stamps of a bucket *)

(* A count that divides the stamps this way *)
Divides(n, s, left) ==
    /\ n \in 0..Len(s)
    /\ \A i \in 1..n : s[i] <= left
    /\ n < Len(s) => s[n + 1] > left

LEMMA ExpiredDivides ==
    ASSUME NEW s \in Seq(Nat), NEW left \in Nat
    PROVE  Divides(Expired(s, left), s, left)
  <1> DEFINE N == {n \in 0..Len(s) : \A i \in 1..n : s[i] <= left}
  <1>1. N \in SUBSET Nat /\ IsFiniteSet(N) /\ 0 \in N
    <2>1. IsFiniteSet(0..Len(s))
      BY FS_Interval
    <2> QED BY <2>1, FS_Subset
  <1>2. PICK n \in N : \A m \in N : n >= m
    BY <1>1, MaxOfNats
  <1>3. n < Len(s) => s[n + 1] > left
    <2>1. SUFFICES ASSUME n < Len(s), ~(s[n + 1] > left)  PROVE FALSE
      OBVIOUS
    <2>2. n + 1 \in N
      BY <2>1, <1>2
    <2> QED BY <2>2, <1>2
  <1> QED BY <1>2, <1>3 DEF Expired, Divides

LEMMA DividesOnce ==
    ASSUME NEW s \in Seq(Nat), NEW left \in Nat, NEW n, Divides(n, s, left)
    PROVE  Expired(s, left) = n
  <1>1. Divides(Expired(s, left), s, left)
    BY ExpiredDivides
  <1> DEFINE m == Expired(s, left)
  <1>2. Divides(m, s, left)
    BY <1>1
  <1> HIDE DEF m
  <1>3. n \in Nat /\ m \in Nat /\ n <= Len(s) /\ m <= Len(s)
    BY <1>2 DEF Divides
  <1>4. ~(n < m)
    BY <1>2, <1>3 DEF Divides
  <1>5. ~(m < n)
    BY <1>2, <1>3 DEF Divides
  <1>6. m = n
    BY <1>3, <1>4, <1>5
  <1> QED BY <1>6 DEF m

LEMMA InWindowShape ==
    ASSUME NEW s \in Seq(Nat)
    PROVE  /\ InWindow(s) \in Seq(Nat)
           /\ Expired(s, 0) \in 0..Len(s)
           /\ Len(InWindow(s)) = Len(s) - Expired(s, 0)
           /\ \A i \in 1..Len(InWindow(s)) : InWindow(s)[i] = s[i + Expired(s, 0)]
           /\ Len(InWindow(s)) > 0 => InWindow(s)[1] > 0
  <1>1. Divides(Expired(s, 0), s, 0)
    BY ExpiredDivides
  <1> DEFINE n == Expired(s, 0)
  <1>2. n \in 0..Len(s) /\ (n < Len(s) => s[n + 1] > 0)
    BY <1>1 DEF Divides
  <1>3. InWindow(s) = SubSeq(s, n + 1, Len(s))
    BY DEF InWindow
  <1> HIDE DEF n
  <1>4. /\ InWindow(s) \in Seq(Nat)
        /\ Len(InWindow(s)) = Len(s) - n
        /\ \A i \in 1..Len(InWindow(s)) : InWindow(s)[i] = s[i + n]
    BY <1>2, <1>3
  <1>5. Len(InWindow(s)) > 0 => InWindow(s)[1] > 0
    BY <1>2, <1>4
  <1> QED BY <1>2, <1>4, <1>5 DEF n

(* Nothing more expires of a sequence whose first stamp is in its window. *)
LEMMA InWindowKeeps ==
    ASSUME NEW s \in Seq(Nat), Len(s) > 0 => s[1] > 0
    PROVE  InWindow(s) = s
  <1>1. Divides(0, s, 0)
    BY DEF Divides
  <1>2. Expired(s, 0) = 0
    BY <1>1, DividesOnce
  <1>3. InWindow(s) = SubSeq(s, 1, Len(s))
    BY <1>2 DEF InWindow
  <1> QED BY <1>3

LEMMA AgedShape ==
    ASSUME NEW s \in Seq(Nat)
    PROVE  /\ Aged(s) \in Seq(Nat)
           /\ Len(Aged(s)) = Len(s)
           /\ \A i \in 1..Len(s) : Aged(s)[i] = Less(s[i])
  BY DEF Aged, Less

(* Whether the expired stamps are dropped before the clock ticks or only   *)
(* after it makes no difference.                                           *)
LEMMA AgedInWindow ==
    ASSUME NEW s \in Seq(Nat)
    PROVE  InWindow(Aged(InWindow(s))) = InWindow(Aged(s))
  <1> DEFINE n == Expired(s, 0)
             a == Aged(s)
             m == Expired(a, 0)
             w == InWindow(s)
             aw == Aged(w)
  <1>1. Divides(n, s, 0)
    BY ExpiredDivides
  <1>2. a \in Seq(Nat) /\ Len(a) = Len(s) /\ \A i \in 1..Len(s) : a[i] = Less(s[i])
    BY AgedShape
  <1>3. Divides(m, a, 0)
    BY <1>2, ExpiredDivides
  <1>4. /\ w \in Seq(Nat) /\ Len(w) = Len(s) - n
        /\ \A i \in 1..Len(w) : w[i] = s[i + n]
    BY InWindowShape
  <1>5. aw \in Seq(Nat) /\ Len(aw) = Len(w) /\ \A i \in 1..Len(w) : aw[i] = Less(w[i])
    BY <1>4, AgedShape
  <1>6. InWindow(a) = SubSeq(a, m + 1, Len(a))
    BY DEF InWindow
  <1>7. InWindow(aw) = SubSeq(aw, Expired(aw, 0) + 1, Len(aw))
    BY DEF InWindow
  <1> HIDE DEF n, a, m, w, aw
  <1>8. n \in 0..Len(s) /\ m \in 0..Len(s)
    BY <1>1, <1>2, <1>3 DEF Divides
  <1>9. n <= m
    <2>1. SUFFICES ASSUME m < n  PROVE FALSE
      BY <1>8
    <2>2. m + 1 \in 1..n /\ m + 1 \in 1..Len(s)
      BY <2>1, <1>8
    <2>3. s[m + 1] <= 0
      BY <2>2, <1>1 DEF Divides
    <2>4. a[m + 1] > 0
      BY <2>1, <1>2, <1>3, <1>8 DEF Divides
    <2> QED BY <2>2, <2>3, <2>4, <1>2 DEF Less
  <1>10. Divides(m - n, aw, 0)
    <2>1. m - n \in 0..Len(aw)
      BY <1>4, <1>5, <1>8, <1>9
    <2>2. \A i \in 1..Len(aw) : aw[i] = a[i + n] /\ i + n \in 1..Len(s)
      BY <1>2, <1>4, <1>5, <1>8
    <2>3. ASSUME NEW i \in 1..(m - n)  PROVE aw[i] <= 0
      <3>1. i \in 1..Len(aw) /\ i + n \in 1..m
        BY <2>1, <1>8, <1>9
      <3> QED BY <3>1, <2>2, <1>3 DEF Divides
    <2>4. ASSUME m - n < Len(aw)  PROVE aw[m - n + 1] > 0
      <3>1. m - n + 1 \in 1..Len(aw) /\ m < Len(a) /\ m - n + 1 + n = m + 1
        BY <2>1, <2>4, <1>2, <1>4, <1>5, <1>8, <1>9
      <3>2. a[m + 1] > 0
        BY <3>1, <1>3 DEF Divides
      <3> QED BY <3>1, <3>2, <2>2
    <2> QED BY <2>1, <2>3, <2>4 DEF Divides
  <1>11. Expired(aw, 0) = m - n
    BY <1>5, <1>10, DividesOnce
  <1>12. SubSeq(aw, m - n + 1, Len(aw)) = SubSeq(a, m + 1, Len(a))
    <2> DEFINE x == SubSeq(aw, m - n + 1, Len(aw))
               y == SubSeq(a, m + 1, Len(a))
    <2>1. x \in Seq(Nat) /\ Len(x) = Len(s) - m
      <3> DEFINE k == m - n
      <3>1. k \in 0..Len(aw) /\ Len(aw) - k = Len(s) - m
        BY <1>4, <1>5, <1>8, <1>9
      <3>2. x = SubSeq(aw, k + 1, Len(aw))
        OBVIOUS
      <3> HIDE DEF k, x
      <3> QED BY <3>1, <3>2, <1>5
    <2>2. y \in Seq(Nat) /\ Len(y) = Len(s) - m
      BY <1>2, <1>8
    <2>3. \A i \in 1..(Len(s) - m) : x[i] = aw[m - n + i] /\ y[i] = a[m + i]
      BY <1>2, <1>4, <1>5, <1>8, <1>9
    <2>4. \A i \in 1..(Len(s) - m) : aw[m - n + i] = a[m + i]
      <3>1. SUFFICES ASSUME NEW i \in 1..(Len(s) - m)
                     PROVE  aw[m - n + i] = a[m + i]
        OBVIOUS
      <3>2. m - n + i \in 1..Len(w) /\ m + i \in 1..Len(s) /\ m - n + i + n = m + i
        BY <1>4, <1>8, <1>9
      <3> QED BY <3>2, <1>2, <1>4, <1>5
    <2> HIDE DEF x, y
    <2>5. x = y
      BY <2>1, <2>2, <2>3, <2>4, SeqEqual
    <2> QED BY <2>5 DEF x, y
  <1> QED BY <1>6, <1>7, <1>11, <1>12 DEF a, w, aw

LEMMA KeptWhenPruned ==
    ASSUME NEW b \in Bucket, NEW s \in Seq(Nat), NEW g, Kept(s, g, b)
    PROVE  Pruned(s) = g /\ g \in Seq(Nat) /\ Kept(g, g, b)
  <1>1. Pruned(s) = g
    BY DEF Pruned, Kept, InWindow
  <1>2. /\ g \in Seq(Nat)
        /\ Expired(s, 0) \in 0..Len(s)
        /\ Len(g) = Len(s) - Expired(s, 0)
        /\ \A i \in 1..Len(g) : g[i] = s[i + Expired(s, 0)]
        /\ Len(g) > 0 => g[1] > 0
    BY InWindowShape DEF Kept
  <1>3. InWindow(g) = g
    BY <1>2, InWindowKeeps
  <1> DEFINE n == Expired(s, 0)
  <1>4. n \in Nat /\ \A i \in DOMAIN g : i + n \in DOMAIN s /\ g[i] = s[i + n]
    BY <1>2
  <1> HIDE DEF n
  <1>5. \A i \in DOMAIN g : g[i] <= Window[b]
    BY <1>4 DEF Kept
  <1>6. \A i, k \in DOMAIN g : i <= k => g[i] <= g[k]
    <2>1. SUFFICES ASSUME NEW i \in DOMAIN g, NEW k \in DOMAIN g, i <= k
                   PROVE  g[i] <= g[k]
      OBVIOUS
    <2>2. i + n <= k + n
      BY <2>1, <1>2, <1>4
    <2> QED BY <2>2, <1>4 DEF Kept
  <1> QED BY <1>1, <1>2, <1>3, <1>5, <1>6 DEF Kept

(* A token is given only if the bucket has room for it in its window. *)
LEMMA KeptWhenStamped ==
    ASSUME NEW b \in Bucket, NEW s \in Seq(Nat), NEW g, Kept(s, g, b),
           \/ Len(Pruned(s)) < Limit[b]
           \/ Pruned(s)[Len(Pruned(s)) - Limit[b] + 1] = 0
    PROVE  /\ Stamped(s, b) \in Seq(Nat) /\ Append(g, Window[b]) \in Seq(Nat)
           /\ Kept(Stamped(s, b), Append(g, Window[b]), b)
  <1>1. Pruned(s) = g /\ g \in Seq(Nat) /\ Kept(g, g, b)
    BY KeptWhenPruned
  <1>2. Window[b] \in Nat \ {0} /\ Limit[b] \in Nat \ {0}
    BY ThrottleAssumption
  <1> DEFINE h == Append(g, Window[b])
  <1>3. Stamped(s, b) = h
    BY <1>1 DEF Stamped
  <1>4. /\ h \in Seq(Nat) /\ Len(h) = Len(g) + 1 /\ h[Len(g) + 1] = Window[b]
        /\ \A i \in 1..Len(g) : h[i] = g[i]
    BY <1>1, <1>2
  <1>5. Len(g) > 0 => g[1] > 0
    BY <1>1, InWindowShape DEF Kept
  <1>6. ASSUME NEW i \in 1..Len(g)  PROVE g[i] > 0
    <2>1. 1 \in DOMAIN g /\ i \in DOMAIN g /\ 1 <= i
      BY <1>1
    <2>2. g[1] <= g[i]
      BY <2>1, <1>1 DEF Kept
    <2> QED BY <2>1, <2>2, <1>1, <1>5
  <1>7. Len(g) < Limit[b]
    <2>1. Len(g) <= Limit[b] /\ Len(g) \in Nat
      BY <1>1 DEF Kept
    <2>2. SUFFICES ASSUME g[Len(g) - Limit[b] + 1] = 0, Len(g) = Limit[b]  PROVE FALSE
      BY <1>1, <1>2, <2>1
    <2>3. g[1] = 0 /\ 1 \in 1..Len(g)
      BY <2>2, <1>2
    <2> QED BY <2>3, <1>6
  <1>8. \A i \in 1..Len(g) : g[i] <= Window[b]
    BY <1>1 DEF Kept
  <1>9. \A i, k \in 1..Len(g) : i <= k => g[i] <= g[k]
    BY <1>1 DEF Kept
  <1>10. InWindow(h) = h
    <2>1. h[1] > 0
      <3>1. CASE Len(g) = 0
        BY <3>1, <1>2, <1>4
      <3>2. CASE Len(g) > 0
        BY <3>2, <1>1, <1>4, <1>5
      <3> QED BY <3>1, <3>2, <1>1
    <2> HIDE DEF h
    <2> QED BY <2>1, <1>4, InWindowKeeps
  <1> HIDE DEF h
  <1>11. \A i \in DOMAIN h : i \in 1..Len(g) \/ i = Len(g) + 1
    BY <1>1, <1>4
  <1>12. \A i \in DOMAIN h : h[i] <= Window[b]
    BY <1>11, <1>2, <1>4, <1>8
  <1>13. ASSUME NEW i \in DOMAIN h, NEW k \in DOMAIN h, i <= k
         PROVE  h[i] <= h[k]
    <2>1. CASE k = Len(g) + 1
      BY <2>1, <1>4, <1>12
    <2>2. CASE k \in 1..Len(g)
      <3>1. i \in 1..Len(g)
        BY <2>2, <1>1, <1>11, <1>13
      <3> QED BY <3>1, <2>2, <1>4, <1>9, <1>13
    <2> QED BY <2>1, <2>2, <1>11
  <1>14. Kept(h, h, b)
    BY <1>1, <1>2, <1>4, <1>7, <1>10, <1>12, <1>13 DEF Kept
  <1> QED BY <1>3, <1>4, <1>14 DEF h

LEMMA KeptWhenAged ==
    ASSUME NEW b \in Bucket, NEW s \in Seq(Nat), NEW g, Kept(s, g, b)
    PROVE  /\ Aged(s) \in Seq(Nat) /\ InWindow(Aged(g)) \in Seq(Nat)
           /\ Kept(Aged(s), InWindow(Aged(g)), b)
  <1>1. g = InWindow(s) /\ g \in Seq(Nat) /\ Len(g) <= Limit[b]
    BY InWindowShape DEF Kept
  <1>2. /\ Aged(s) \in Seq(Nat) /\ Len(Aged(s)) = Len(s)
        /\ \A i \in 1..Len(s) : Aged(s)[i] = Less(s[i])
    BY AgedShape
  <1>3. /\ Aged(g) \in Seq(Nat) /\ Len(Aged(g)) = Len(g)
    BY <1>1, AgedShape
  <1>4. InWindow(Aged(g)) = InWindow(Aged(s))
    BY <1>1, AgedInWindow
  <1>5. /\ InWindow(Aged(g)) \in Seq(Nat)
        /\ Len(InWindow(Aged(g))) = Len(Aged(g)) - Expired(Aged(g), 0)
        /\ Expired(Aged(g), 0) \in Nat
    BY <1>3, InWindowShape
  <1>6. Limit[b] \in Nat /\ Window[b] \in Nat
    BY ThrottleAssumption
  <1>7. Len(InWindow(Aged(g))) <= Limit[b]
    BY <1>1, <1>3, <1>5, <1>6
  <1>8. /\ DOMAIN Aged(s) = 1..Len(s) /\ DOMAIN s = 1..Len(s)
        /\ \A i \in 1..Len(s) : s[i] \in Nat
    BY <1>2
  <1>9. \A i \in DOMAIN Aged(s) : Aged(s)[i] <= Window[b]
    BY <1>2, <1>6, <1>8 DEF Kept, Less
  <1>10. ASSUME NEW i \in DOMAIN Aged(s), NEW k \in DOMAIN Aged(s), i <= k
         PROVE  Aged(s)[i] <= Aged(s)[k]
    <2>1. s[i] <= s[k]
      BY <1>8, <1>10 DEF Kept
    <2>2. Less(s[i]) <= Less(s[k])
      BY <2>1, <1>8 DEF Less
    <2> QED BY <2>2, <1>2, <1>8
  <1> QED BY <1>2, <1>4, <1>5, <1>7, <1>9, <1>10 DEF Kept

---------------------------------------------------------------------------
(* The queue *)

(* #removeJob() takes out the job and nothing else. *)
LEMMA WithdrawnIs ==
    ASSUME NEW q \in Seq(Jobs), IsInjective(q), NEW j
    PROVE  /\ Withdrawn(q, j) \in Seq(Jobs) /\ IsInjective(Withdrawn(q, j))
           /\ ToSet(Withdrawn(q, j)) = ToSet(q) \ {j}
  <1>1. CASE j \notin ToSet(q)
    BY <1>1 DEF Withdrawn
  <1>2. CASE j \in ToSet(q)
    <2> DEFINE n == Position(q, j)
               r == RemoveAt(q, n)
    <2>1. n \in 1..Len(q) /\ q[n] = j
      BY <1>2 DEF Position, ToSet
    <2>2. Withdrawn(q, j) = r
      BY <1>2 DEF Withdrawn
    <2> HIDE DEF n
    <2>3. /\ r \in Seq(Jobs) /\ Len(r) = Len(q) - 1
          /\ \A i \in 1..Len(r) : r[i] = IF i < n THEN q[i] ELSE q[i + 1]
      <3> DEFINE u == SubSeq(q, 1, n - 1)
                 v == SubSeq(q, n + 1, Len(q))
      <3>1. u \in Seq(Jobs) /\ Len(u) = n - 1 /\ \A i \in 1..(n - 1) : u[i] = q[i]
        BY <2>1
      <3>2. /\ v \in Seq(Jobs) /\ Len(v) = Len(q) - n
            /\ \A i \in 1..(Len(q) - n) : v[i] = q[i + n]
        BY <2>1
      <3>3. r = u \o v
        BY DEF RemoveAt
      <3> HIDE DEF r, u, v
      <3>4. /\ r \in Seq(Jobs) /\ Len(r) = Len(q) - 1
            /\ \A i \in 1..Len(r) : r[i] = IF i < n THEN u[i] ELSE v[i - n + 1]
        <4>1. /\ r \in Seq(Jobs) /\ Len(r) = Len(u) + Len(v)
              /\ \A i \in 1..(Len(u) + Len(v)) :
                    r[i] = IF i <= Len(u) THEN u[i] ELSE v[i - Len(u)]
          BY <3>1, <3>2, <3>3, ConcatProperties
        <4>2. Len(u) + Len(v) = Len(q) - 1
          BY <2>1, <3>1, <3>2
        <4>3. \A i \in 1..Len(r) : i <= Len(u) <=> i < n
          BY <2>1, <3>1, <4>1, <4>2
        <4>4. \A i \in 1..Len(r) : i - Len(u) = i - n + 1
          BY <2>1, <3>1, <4>1, <4>2
        <4> QED BY <4>1, <4>2, <4>3, <4>4
      <3>5. ASSUME NEW i \in 1..Len(r), ~(i < n)  PROVE v[i - n + 1] = q[i + 1]
        <4>1. i - n + 1 \in 1..(Len(q) - n) /\ i - n + 1 + n = i + 1
          BY <2>1, <3>4, <3>5
        <4> QED BY <4>1, <3>2
      <3>6. ASSUME NEW i \in 1..Len(r), i < n  PROVE u[i] = q[i]
        BY <2>1, <3>1, <3>4, <3>6
      <3> QED BY <3>4, <3>5, <3>6
    <2> HIDE DEF r
    <2>4. ASSUME NEW i \in DOMAIN r, NEW k \in DOMAIN r, r[i] = r[k]  PROVE i = k
      <3>1. i \in 1..(Len(q) - 1) /\ k \in 1..(Len(q) - 1)
        BY <2>1, <2>3
      <3>2. \A x, y \in 1..Len(q) : q[x] = q[y] => x = y
        BY DEF IsInjective
      <3>3. PICK x \in 1..Len(q) : r[i] = q[x] /\ x = (IF i < n THEN i ELSE i + 1)
        BY <2>1, <2>3, <3>1
      <3>4. PICK y \in 1..Len(q) : r[k] = q[y] /\ y = (IF k < n THEN k ELSE k + 1)
        BY <2>1, <2>3, <3>1
      <3>5. x = y
        BY <2>4, <3>2, <3>3, <3>4
      <3> QED BY <2>1, <3>1, <3>3, <3>4, <3>5
    <2>5. ASSUME NEW k \in ToSet(r)  PROVE k \in ToSet(q) \ {j}
      <3>1. PICK i \in 1..Len(r) : k = r[i]
        BY <2>3 DEF ToSet
      <3> QED BY <3>1, <2>1, <2>3 DEF IsInjective, ToSet
    <2>6. ASSUME NEW k \in ToSet(q) \ {j}  PROVE k \in ToSet(r)
      <3>1. PICK i \in 1..Len(q) : k = q[i]
        BY DEF ToSet
      <3>2. CASE i < n
        BY <3>1, <3>2, <2>1, <2>3 DEF ToSet
      <3>3. CASE i > n
        <4>1. i - 1 \in 1..Len(r) /\ r[i - 1] = q[i]
          BY <3>1, <3>3, <2>1, <2>3
        <4> QED BY <3>1, <4>1, <2>3 DEF ToSet
      <3> QED BY <3>1, <3>2, <3>3, <2>1
    <2> QED BY <2>2, <2>3, <2>4, <2>5, <2>6 DEF IsInjective
  <1> QED BY <1>1, <1>2

(* Before() orders the calls of a queue. *)
LEMMA BeforeOrders ==
    ASSUME NEW q \in Seq(Jobs), IsInjective(q)
    PROVE  /\ ToSet(q) \subseteq Jobs /\ IsFiniteSet(ToSet(q))
           /\ Cardinality(ToSet(q)) = Len(q)
           /\ \A j, k \in ToSet(q) : j # k => Before(q, j, k) \/ Before(q, k, j)
           /\ \A j, k \in ToSet(q) : Before(q, j, k) => ~Before(q, k, j)
           /\ \A j, k, l \in ToSet(q) :
                 Before(q, j, k) /\ Before(q, k, l) => Before(q, j, l)
  <1>1. ToSet(q) \subseteq Jobs
    BY DEF ToSet
  <1>2. \A j \in ToSet(q) : /\ Position(q, j) \in 1..Len(q) /\ q[Position(q, j)] = j
                            /\ Priority[j] \in Nat
    BY <1>1, ThrottleAssumption DEF Position, ToSet
  <1>3. \A j, k \in ToSet(q) : j # k => Position(q, j) # Position(q, k)
    BY <1>2
  <1>4. IsFiniteSet(ToSet(q)) /\ Cardinality(ToSet(q)) = Len(q)
    <2>1. IsFiniteSet(1..Len(q)) /\ Cardinality(1..Len(q)) = Len(q)
      <3>1. Len(q) \in Nat
        OBVIOUS
      <3> QED BY <3>1, FS_Interval
    <2>2. q \in Bijection(1..Len(q), ToSet(q))
      BY DEF ToSet, IsInjective, Bijection, Injection, Surjection
    <2>3. ExistsBijection(1..Len(q), ToSet(q))
      BY <2>2 DEF ExistsBijection
    <2> QED BY <2>1, <2>3, FS_Bijection
  <1>5. /\ \A j, k \in ToSet(q) : j # k => Before(q, j, k) \/ Before(q, k, j)
        /\ \A j, k \in ToSet(q) : Before(q, j, k) => ~Before(q, k, j)
    BY <1>2, <1>3 DEF Before
  <1>6. ASSUME NEW j \in ToSet(q), NEW k \in ToSet(q), NEW l \in ToSet(q),
               Before(q, j, k), Before(q, k, l)
        PROVE  Before(q, j, l)
    BY <1>2, <1>6 DEF Before
  <1> QED BY <1>1, <1>4, <1>5, <1>6

(* A pass asks for every queued call once. *)
LEMMA OrderedIs ==
    ASSUME NEW q \in Seq(Jobs), IsInjective(q)
    PROVE  /\ Ordered(q) \in Seq(Jobs) /\ IsInjective(Ordered(q))
           /\ ToSet(Ordered(q)) \subseteq ToSet(q)
           /\ Ordered(q) = <<>> <=> q = <<>>
  <1> DEFINE S == ToSet(q)
             n == Len(q)
             Ahead(j) == {k \in S : Before(q, k, j)}
             rank == [j \in S |-> Cardinality(Ahead(j)) + 1]
  <1>1. /\ S \subseteq Jobs /\ IsFiniteSet(S) /\ Cardinality(S) = n
        /\ \A j, k \in S : j # k => Before(q, j, k) \/ Before(q, k, j)
        /\ \A j, k \in S : Before(q, j, k) => ~Before(q, k, j)
        /\ \A j, k, l \in S : Before(q, j, k) /\ Before(q, k, l) => Before(q, j, l)
    BY BeforeOrders
  <1>2. n \in Nat /\ DOMAIN q = 1..n
    OBVIOUS
  <1> HIDE DEF S, n
  <1>3. ASSUME NEW j \in S
        PROVE  IsFiniteSet(Ahead(j)) /\ Cardinality(Ahead(j)) \in Nat
               /\ Cardinality(Ahead(j)) < n
    <2>1. Ahead(j) \subseteq S /\ j \notin Ahead(j)
      BY <1>1, <1>3
    <2> HIDE DEF Ahead
    <2>2. /\ IsFiniteSet(Ahead(j)) /\ Cardinality(Ahead(j)) <= Cardinality(S)
          /\ Cardinality(S) # Cardinality(Ahead(j))
      BY <2>1, <1>1, <1>3, FS_Subset
    <2>3. Cardinality(Ahead(j)) \in Nat
      BY <2>2, FS_CardinalityType
    <2> QED BY <2>2, <2>3, <1>1, <1>2
  <1>4. ASSUME NEW j \in S, NEW k \in S, Before(q, j, k)
        PROVE  Cardinality(Ahead(j)) # Cardinality(Ahead(k))
    <2>1. Ahead(j) \subseteq Ahead(k) /\ Ahead(j) # Ahead(k)
      BY <1>1, <1>4
    <2>2. IsFiniteSet(Ahead(k))
      BY <1>3
    <2> HIDE DEF Ahead
    <2> QED BY <2>1, <2>2, FS_Subset
  <1>5. rank \in [S -> 1..n]
    <2>1. ASSUME NEW j \in S  PROVE Cardinality(Ahead(j)) + 1 \in 1..n
      <3> HIDE DEF Ahead
      <3> QED BY <1>2, <1>3
    <2> QED BY <2>1
  <1>6. ASSUME NEW j \in S, NEW k \in S, j # k  PROVE rank[j] # rank[k]
    <2>1. Cardinality(Ahead(j)) # Cardinality(Ahead(k))
      BY <1>1, <1>4, <1>6
    <2>2. Cardinality(Ahead(j)) \in Nat /\ Cardinality(Ahead(k)) \in Nat
      BY <1>3
    <2> HIDE DEF Ahead
    <2> QED BY <2>1, <2>2
  <1>7. rank \in Surjection(S, 1..n)
    <2>1. rank \in Injection(S, 1..n)
      <3> HIDE DEF rank
      <3> QED BY <1>5, <1>6 DEF Injection, IsInjective
    <2>2. IsFiniteSet(1..n) /\ Cardinality(1..n) = n
      BY <1>2, FS_Interval
    <2> HIDE DEF rank
    <2> QED BY <2>1, <2>2, <1>1, FS_Injection
  <1>8. ASSUME NEW r \in 1..n
        PROVE  Ordered(q)[r] \in S /\ Cardinality(Ahead(Ordered(q)[r])) = r - 1
    <2>1. PICK j \in S : rank[j] = r
      <3> HIDE DEF rank
      <3> QED BY <1>7 DEF Surjection
    <2>2. Cardinality(Ahead(j)) = r - 1
      <3>1. Cardinality(Ahead(j)) \in Nat /\ Cardinality(Ahead(j)) + 1 = r
        BY <1>3, <2>1
      <3> HIDE DEF Ahead
      <3> QED BY <3>1
    <2>3. Ordered(q)[r] = CHOOSE x \in S : Cardinality(Ahead(x)) = r - 1
      BY <1>2 DEF Ordered, S
    <2> HIDE DEF Ahead
    <2> QED BY <2>2, <2>3
  <1>9. DOMAIN Ordered(q) = 1..n
    BY <1>2 DEF Ordered
  <1>10. Ordered(q) \in [1..n -> S]
    BY <1>2, <1>8 DEF Ordered
  <1>11. /\ Ordered(q) \in Seq(Jobs) /\ Len(Ordered(q)) = n
         /\ ToSet(Ordered(q)) \subseteq S
    BY <1>1, <1>2, <1>9, <1>10 DEF ToSet
  <1>12. ASSUME NEW r \in 1..n, NEW s \in 1..n, Ordered(q)[r] = Ordered(q)[s]
         PROVE  r = s
    <2> HIDE DEF Ahead
    <2>1. r - 1 = s - 1
      BY <1>8, <1>12
    <2> QED BY <2>1
  <1>13. IsInjective(Ordered(q))
    BY <1>9, <1>12 DEF IsInjective
  <1>14. q = <<>> <=> n = 0
    BY DEF n
  <1>15. Ordered(q) = <<>> <=> n = 0
    BY <1>11
  <1> QED BY <1>11, <1>13, <1>14, <1>15 DEF S

(* #dropOldest() finds a job whenever the queue holds one. *)
LEMMA OldestIs ==
    ASSUME queue \in Seq(Jobs), IsInjective(queue), queue # <<>>
    PROVE  Oldest \in ToSet(queue)
  <1> DEFINE S == ToSet(queue)
             Ahead(j, k) == \/ Priority[j] < Priority[k]
                            \/ /\ Priority[j] = Priority[k]
                               /\ Position(queue, j) < Position(queue, k)
             R == {p \in S \X S : Ahead(p[1], p[2])}
  <1>1. \A j \in S : /\ Position(queue, j) \in 1..Len(queue)
                     /\ queue[Position(queue, j)] = j /\ Priority[j] \in Nat
    BY ThrottleAssumption DEF Position, ToSet
  <1>2. \A j, k \in S : j # k => Position(queue, j) # Position(queue, k)
    BY <1>1
  <1>3. \A j, k \in S : j # k => Ahead(j, k) \/ Ahead(k, j)
    BY <1>1, <1>2
  <1>4. \A j, k, l \in S : Ahead(j, k) /\ Ahead(k, l) => Ahead(j, l)
    BY <1>1
  <1>5. IsFiniteSet(S) /\ S # {}
    <2>1. IsFiniteSet(S)
      BY BeforeOrders
    <2>2. queue[1] \in S
      BY DEF ToSet
    <2> QED BY <2>1, <2>2
  <1>6. Oldest = CHOOSE j \in S : \A k \in S \ {j} : Ahead(j, k)
    BY DEF Oldest
  <1> HIDE DEF S, Ahead
  <1>7. \A j, k \in S : <<j, k>> \in R <=> Ahead(j, k)
    OBVIOUS
  <1> HIDE DEF R
  <1>8. /\ \A x, y \in S : x # y => <<x, y>> \in R \/ <<y, x>> \in R
        /\ \A x, y, z \in S : <<x, y>> \in R /\ <<y, z>> \in R => <<x, z>> \in R
    BY <1>3, <1>4, <1>7
  <1>9. PICK j \in S : \A k \in S \ {j} : <<j, k>> \in R
    <2> HIDE <1>7
    <2> QED BY <1>5, <1>8, FirstOfFinite
  <1>10. \A k \in S \ {j} : Ahead(j, k)
    BY <1>7, <1>9
  <1> QED BY <1>6, <1>10 DEF S

---------------------------------------------------------------------------
(* take() *)

StorageTyped ==
    /\ stamps \in [Bucket -> Seq(Nat)]
    /\ frozen \in [Bucket -> Nat]
    /\ granted \in [Bucket -> Seq(Nat)]
    /\ tokens \in [Jobs -> Nat]

LEMMA WaitForIs ==
    ASSUME StorageTyped, StorageInv, NEW b \in Bucket
    PROVE  /\ WaitFor(b) \in Nat
           /\ WaitFor(b) = 0 => \/ Len(Pruned(stamps[b])) < Limit[b]
                                \/ Pruned(stamps[b])[Len(Pruned(stamps[b])) - Limit[b] + 1] = 0
  <1> DEFINE s == Pruned(stamps[b])
  <1>1. s \in Seq(Nat)
    BY KeptWhenPruned DEF StorageTyped, StorageInv
  <1>2. Limit[b] \in Nat \ {0} /\ frozen[b] \in Nat
    BY ThrottleAssumption DEF StorageTyped
  <1>3. WaitFor(b) = IF frozen[b] > 0 THEN frozen[b]
                     ELSE IF Len(s) >= Limit[b] THEN s[Len(s) - Limit[b] + 1] ELSE 0
    BY DEF WaitFor
  <1> HIDE DEF s
  <1>4. Len(s) >= Limit[b] => Len(s) - Limit[b] + 1 \in 1..Len(s)
    BY <1>1, <1>2
  <1>5. WaitFor(b) \in Nat
    BY <1>1, <1>2, <1>3, <1>4
  <1>6. WaitFor(b) = 0 => Len(s) < Limit[b] \/ s[Len(s) - Limit[b] + 1] = 0
    BY <1>1, <1>2, <1>3
  <1> QED BY <1>5, <1>6 DEF s

LEMMA WaitOfIs ==
    ASSUME StorageTyped, StorageInv, NEW j \in Jobs
    PROVE  /\ WaitOf(j) \in Nat
           /\ WaitOf(j) = 0 => \A b \in BucketsOf[j] : WaitFor(b) = 0
  <1> DEFINE B == BucketsOf[j]
             W == {WaitFor(b) : b \in B}
             f == [b \in B |-> WaitFor(b)]
  <1>1. B \subseteq Bucket /\ B # {} /\ IsFiniteSet(B)
    BY ThrottleAssumption, FS_Subset
  <1>2. \A b \in B : WaitFor(b) \in Nat
    BY <1>1, WaitForIs
  <1>3. IsFiniteSet(W)
    <2>1. f \in Surjection(B, W)
      BY DEF Surjection
    <2> HIDE DEF f, W, B
    <2> QED BY <2>1, <1>1, FS_Surjection
  <1>4. W \in SUBSET Nat /\ W # {}
    BY <1>1, <1>2
  <1>5. WaitOf(j) = Max(W)
    BY DEF WaitOf
  <1>6. \A b \in B : WaitFor(b) \in W
    OBVIOUS
  <1> HIDE DEF W, B
  <1>7. WaitOf(j) \in W /\ \A w \in W : WaitOf(j) >= w
    BY <1>3, <1>4, <1>5, MaxOfNats
  <1>8. WaitOf(j) = 0 => \A b \in B : WaitFor(b) = 0
    BY <1>2, <1>6, <1>7
  <1> QED BY <1>4, <1>7, <1>8 DEF B

(* The storage as a step of the pass leaves it: well kept, and with at most *)
(* one token more, that of the job it asked for.                            *)
LEMMA TakeKeeps ==
    ASSUME StorageTyped, StorageInv, NEW j \in Jobs, Take(j)
    PROVE  /\ stamps' \in [Bucket -> Seq(Nat)] /\ granted' \in [Bucket -> Seq(Nat)]
           /\ StorageInv'
           /\ tokens' = IF WaitOf(j) = 0 THEN [tokens EXCEPT ![j] = @ + 1] ELSE tokens
  <1>1. CASE WaitOf(j) = 0
    <2>1. /\ stamps' = [b \in Bucket |-> IF b \in BucketsOf[j] THEN Stamped(stamps[b], b)
                                          ELSE stamps[b]]
          /\ granted' = [b \in Bucket |-> IF b \in BucketsOf[j]
                                           THEN Append(granted[b], Window[b])
                                           ELSE granted[b]]
          /\ tokens' = [tokens EXCEPT ![j] = @ + 1]
      BY <1>1 DEF Take
    <2>2. ASSUME NEW b \in Bucket
          PROVE  /\ stamps'[b] \in Seq(Nat) /\ granted'[b] \in Seq(Nat)
                 /\ Kept(stamps'[b], granted'[b], b)
      <3>1. /\ stamps[b] \in Seq(Nat) /\ granted[b] \in Seq(Nat)
            /\ Kept(stamps[b], granted[b], b)
        BY DEF StorageTyped, StorageInv
      <3>2. CASE b \in BucketsOf[j]
        <4>1. WaitFor(b) = 0
          BY <1>1, <3>2, WaitOfIs
        <4>2. \/ Len(Pruned(stamps[b])) < Limit[b]
              \/ Pruned(stamps[b])[Len(Pruned(stamps[b])) - Limit[b] + 1] = 0
          BY <4>1, WaitForIs
        <4>3. /\ Stamped(stamps[b], b) \in Seq(Nat)
              /\ Append(granted[b], Window[b]) \in Seq(Nat)
              /\ Kept(Stamped(stamps[b], b), Append(granted[b], Window[b]), b)
          BY <3>1, <4>2, KeptWhenStamped
        <4> QED BY <2>1, <3>2, <4>3
      <3>3. CASE b \notin BucketsOf[j]
        BY <2>1, <3>1, <3>3
      <3> QED BY <3>2, <3>3
    <2>3. /\ stamps' \in [Bucket -> Seq(Nat)] /\ granted' \in [Bucket -> Seq(Nat)]
      BY <2>1, <2>2
    <2> QED BY <1>1, <2>1, <2>2, <2>3 DEF StorageInv
  <1>2. CASE WaitOf(j) # 0
    <2>1. /\ stamps' = [b \in Bucket |-> IF b \in BucketsOf[j] /\ frozen[b] = 0
                                          THEN Pruned(stamps[b]) ELSE stamps[b]]
          /\ UNCHANGED <<tokens, granted>>
      BY <1>2 DEF Take
    <2>2. ASSUME NEW b \in Bucket
          PROVE  stamps'[b] \in Seq(Nat) /\ Kept(stamps'[b], granted[b], b)
      <3>1. stamps[b] \in Seq(Nat) /\ Kept(stamps[b], granted[b], b)
        BY DEF StorageTyped, StorageInv
      <3>2. Pruned(stamps[b]) \in Seq(Nat) /\ Kept(Pruned(stamps[b]), granted[b], b)
        BY <3>1, KeptWhenPruned
      <3> QED BY <2>1, <3>1, <3>2
    <2>3. stamps' \in [Bucket -> Seq(Nat)]
      BY <2>1, <2>2
    <2> QED BY <1>2, <2>1, <2>2, <2>3 DEF StorageInv, StorageTyped
  <1> QED BY <1>1, <1>2

---------------------------------------------------------------------------
(* The pass *)

CallsTyped ==
    /\ queue \in Seq(Jobs) /\ IsInjective(queue)
    /\ outcome \in [Jobs -> {"new", "queued", "acquired", "rejected", "cancelled"}]
    /\ \A j \in Jobs : outcome[j] = "queued" <=> j \in ToSet(queue)
    /\ aborted \in SUBSET Jobs
    /\ late \in SUBSET Jobs

Passes == [busy : BOOLEAN, order : Seq(Jobs), minWait : Nat,
           kind : {"none", "ok", "refused", "error"}, wait : Nat]

PassTyped ==
    /\ pass \in Passes
    /\ pass.busy <=> pass.order # <<>>
    /\ runAgain \in BOOLEAN
    /\ timer \in [armed : BOOLEAN, left : Nat]

RestTyped ==
    /\ mode \in Modes
    /\ note \in [buckets : SUBSET Bucket, left : Nat]
    /\ freezes \in 0..MaxFreezes

LEMMA TypeParts == TypeOK <=> CallsTyped /\ PassTyped /\ StorageTyped /\ RestTyped
  BY DEF TypeOK, CallsTyped, PassTyped, Passes, StorageTyped, RestTyped, ToSet

LEMMA TypePartsNext ==
    TypeOK' <=> CallsTyped' /\ PassTyped' /\ StorageTyped' /\ RestTyped'
  BY DEF TypeOK, CallsTyped, PassTyped, Passes, StorageTyped, RestTyped, ToSet

LEMMA ArmedTyped ==
    ASSUME NEW t \in [armed : BOOLEAN, left : Nat], NEW n \in Nat
    PROVE  /\ Armed(t, n) \in [armed : BOOLEAN, left : Nat]
           /\ Sleeping(t, n) \in [armed : BOOLEAN, left : Nat]
  BY DEF Armed, Sleeping

(* The pass goes on: it ends, or awaits a take(), of the next call of its   *)
(* order or of a queued one, which may have charged its token.              *)
LEMMA PassSteps ==
    ASSUME StorageTyped, StorageInv, runAgain \in BOOLEAN,
           NEW q \in Seq(Jobs), IsInjective(q),
           NEW order \in Seq(Jobs), IsInjective(order),
           NEW least \in Nat, NEW t \in [armed : BOOLEAN, left : Nat],
           PassGoesOn(q, order, least, t), UNCHANGED frozen
    PROVE  /\ PassTyped' /\ StorageTyped' /\ StorageInv'
           /\ IsInjective(pass'.order)
           /\ ~pass'.busy => pass'.kind = "none"
           /\ \/ ToSet(pass'.order) \subseteq ToSet(q)
              \/ pass'.order = order /\ Head(order) \notin aborted
           /\ \/ tokens' = tokens
              \/ /\ pass'.kind = "ok" /\ pass'.order # <<>>
                 /\ tokens' = [tokens EXCEPT ![Head(pass'.order)] = @ + 1]
  <1> DEFINE over == StartsOver(order)
             todo == IF over THEN Ordered(q) ELSE order
             min == IF over THEN 0 ELSE least
             slept == Sleeping(t, min)
             serve == runAgain /\ q # <<>>
             Timers == [armed : BOOLEAN, left : Nat]
             asked(kind, wait) == [busy |-> TRUE, order |-> todo, minWait |-> min,
                                   kind |-> kind, wait |-> wait]
  <1>1. /\ todo \in Seq(Jobs) /\ IsInjective(todo)
        /\ ToSet(todo) \subseteq ToSet(q) \/ (todo = order /\ ~over)
    BY OrderedIs
  <1>2. min \in Nat /\ slept \in Timers /\ Armed(slept, 0) \in Timers
    BY ArmedTyped
  <1>3. CASE todo = <<>>
    <2>1. /\ pass' = NoPass
          /\ timer' = IF serve THEN Armed(slept, 0) ELSE slept
          /\ runAgain' = (runAgain /\ ~serve)
          /\ UNCHANGED <<stamps, tokens, granted>>
      BY <1>3, Zenon DEF PassGoesOn
    <2>2. pass' \in Passes /\ pass'.order = <<>> /\ pass'.busy = FALSE
          /\ pass'.kind = "none"
      BY <2>1 DEF NoPass, Passes
    <2>3. timer' \in Timers
      <3> HIDE DEF slept, serve
      <3> QED BY <2>1, <1>2
    <2>4. runAgain' \in BOOLEAN
      BY <2>1, Zenon
    <2>5. StorageTyped' /\ StorageInv'
      BY <2>1 DEF StorageTyped, StorageInv
    <2>6. PassTyped'
      BY <2>2, <2>3, <2>4 DEF PassTyped, Passes
    <2>7. ToSet(pass'.order) = {} /\ IsInjective(pass'.order)
      BY <2>2 DEF ToSet, IsInjective
    <2> QED BY <2>1, <2>2, <2>5, <2>6, <2>7
  <1>4. CASE todo # <<>>
    <2> DEFINE j == Head(todo)
               kind == IF WaitOf(j) = 0 THEN "ok" ELSE "refused"
    <2>1. /\ \/ Take(j) /\ pass' = asked(kind, WaitOf(j))
             \/ pass' = asked("error", 0) /\ UNCHANGED <<stamps, tokens, granted>>
          /\ timer' = t
          /\ UNCHANGED runAgain
      BY <1>4, Zenon DEF PassGoesOn
    <2>2. j \in Jobs
      BY <1>1, <1>4
    <2>3. WaitOf(j) \in Nat
      BY <2>2, WaitOfIs
    <2> HIDE DEF j, todo, min
    <2>4. pass' \in Passes /\ pass'.busy = TRUE /\ pass'.order = todo
      <3>1. \A k \in {"ok", "refused", "error"}, w \in Nat :
               /\ asked(k, w) \in Passes /\ asked(k, w).busy = TRUE
               /\ asked(k, w).order = todo
        BY <1>1, <1>2 DEF Passes
      <3>2. \E k \in {"ok", "refused", "error"}, w \in Nat : pass' = asked(k, w)
        BY <2>1, <2>3
      <3> HIDE DEF asked
      <3> QED BY <3>1, <3>2
    <2>5. /\ stamps' \in [Bucket -> Seq(Nat)] /\ granted' \in [Bucket -> Seq(Nat)]
          /\ StorageInv'
          /\ \/ tokens' = tokens
             \/ pass'.kind = "ok" /\ tokens' = [tokens EXCEPT ![j] = @ + 1]
      <3>1. CASE Take(j) /\ pass' = asked(kind, WaitOf(j))
        <4>1. pass'.kind = kind
          BY <3>1
        <4>2. /\ stamps' \in [Bucket -> Seq(Nat)] /\ granted' \in [Bucket -> Seq(Nat)]
              /\ StorageInv'
              /\ tokens' = IF WaitOf(j) = 0 THEN [tokens EXCEPT ![j] = @ + 1] ELSE tokens
          BY <3>1, <2>2, TakeKeeps
        <4>3. \/ tokens' = tokens
              \/ pass'.kind = "ok" /\ tokens' = [tokens EXCEPT ![j] = @ + 1]
          BY <4>1, <4>2
        <4> QED BY <4>2, <4>3
      <3>2. CASE UNCHANGED <<stamps, tokens, granted>>
        <4>1. stamps' = stamps /\ granted' = granted /\ tokens' = tokens
          BY <3>2
        <4>2. StorageInv'
          BY <4>1 DEF StorageInv
        <4> QED BY <4>1, <4>2 DEF StorageTyped
      <3> QED BY <2>1, <3>1, <3>2
    <2>6. StorageTyped'
      <3>1. tokens' \in [Jobs -> Nat]
        <4>1. tokens \in [Jobs -> Nat] /\ tokens[j] \in Nat
          BY <2>2 DEF StorageTyped
        <4>2. [tokens EXCEPT ![j] = @ + 1] \in [Jobs -> Nat]
          BY <4>1, <2>2
        <4> QED BY <4>1, <4>2, <2>5, Zenon
      <3>2. frozen' \in [Bucket -> Nat]
        BY DEF StorageTyped
      <3> QED BY <2>5, <3>1, <3>2 DEF StorageTyped
    <2>7. PassTyped'
      BY <2>1, <2>4, <1>4 DEF PassTyped, Passes
    <2>8. ~over => Head(order) \notin aborted
      BY <1>4 DEF StartsOver, todo
    <2> QED BY <2>4, <2>5, <2>6, <2>7, <2>8, <1>1, <1>4 DEF j
  <1> QED BY <1>3, <1>4

(* What a pass may rely on when it goes on with the calls of an order: no  *)
(* queued call has its token, and a call of the order that is not queued   *)
(* any more has left it unnoticed or by its signal.                        *)
Settled(q, order) ==
    /\ \A j \in Jobs :
          /\ tokens[j] <= 1
          /\ outcome'[j] \in {"new", "queued"} => tokens[j] = 0
          /\ tokens[j] = 1 /\ outcome'[j] \in {"rejected", "cancelled"} => j \in late
          /\ j \in aborted => outcome'[j] = "cancelled"
    /\ \A j \in ToSet(q) : j \in Jobs /\ outcome'[j] = "queued"
    /\ \A j \in ToSet(order) :
          /\ j \in Jobs /\ tokens[j] = 0
          /\ outcome'[j] \in {"queued", "rejected", "cancelled"}
          /\ outcome'[j] # "queued" => j \in late \/ j \in aborted

LEMMA PassKeeps ==
    ASSUME StorageTyped, StorageInv, runAgain \in BOOLEAN,
           NEW q \in Seq(Jobs), IsInjective(q),
           NEW order \in Seq(Jobs), IsInjective(order),
           NEW least \in Nat, NEW t \in [armed : BOOLEAN, left : Nat],
           PassGoesOn(q, order, least, t), UNCHANGED <<frozen, aborted, late>>,
           Settled(q, order)
    PROVE  PassInv' /\ CallInv' /\ SettledOnce'
  <1>1. /\ PassTyped' /\ StorageTyped' /\ StorageInv'
        /\ IsInjective(pass'.order)
        /\ ~pass'.busy => pass'.kind = "none"
        /\ \/ ToSet(pass'.order) \subseteq ToSet(q)
           \/ pass'.order = order /\ Head(order) \notin aborted
        /\ \/ tokens' = tokens
           \/ /\ pass'.kind = "ok" /\ pass'.order # <<>>
              /\ tokens' = [tokens EXCEPT ![Head(pass'.order)] = @ + 1]
    BY PassSteps
  <1> DEFINE h == Head(pass'.order)
  <1>2. tokens \in [Jobs -> Nat] /\ aborted' = aborted /\ late' = late
    BY DEF StorageTyped
  <1>3. \A j \in ToSet(pass'.order) :
          /\ j \in Jobs /\ tokens[j] = 0
          /\ outcome'[j] \in {"queued", "rejected", "cancelled"}
          /\ outcome'[j] # "queued" => j \in late \/ j \in aborted
    BY <1>1 DEF Settled
  <1>4. pass'.order # <<>> =>
          /\ h \in ToSet(pass'.order)
          /\ outcome'[h] # "queued" => h \in late
    <2>1. SUFFICES ASSUME pass'.order # <<>>
                   PROVE  /\ h \in ToSet(pass'.order)
                          /\ outcome'[h] # "queued" => h \in late
      OBVIOUS
    <2>2. h \in ToSet(pass'.order)
      <3>1. pass'.order \in Seq(Jobs)
        BY <1>1 DEF PassTyped, Passes
      <3>2. 1 \in DOMAIN pass'.order /\ h = pass'.order[1]
        BY <2>1, <3>1
      <3> QED BY <3>2 DEF ToSet
    <2>3. outcome'[h] = "queued" \/ h \notin aborted
      <3>1. CASE ToSet(pass'.order) \subseteq ToSet(q)
        BY <3>1, <2>2 DEF Settled
      <3>2. CASE pass'.order = order /\ Head(order) \notin aborted
        BY <3>2
      <3> QED BY <1>1, <3>1, <3>2
    <2> QED BY <2>2, <2>3, <1>3
  <1> HIDE DEF h
  <1>5. ASSUME NEW j \in Jobs
        PROVE  /\ tokens'[j] = tokens[j] \/ (tokens'[j] = 1 /\ tokens[j] = 0 /\ j = h)
               /\ tokens'[j] # tokens[j] => pass'.order # <<>> /\ pass'.kind = "ok"
    <2>1. CASE tokens' = tokens
      BY <2>1
    <2>2. CASE /\ pass'.kind = "ok" /\ pass'.order # <<>>
               /\ tokens' = [tokens EXCEPT ![h] = @ + 1]
      BY <2>2, <1>2, <1>3, <1>4
    <2> QED BY <2>1, <2>2, <1>1 DEF h
  <1>6. PassInv'
    <2>1. ASSUME NEW j \in ToSet(pass'.order)
          PROVE  /\ outcome'[j] \in {"queued", "rejected", "cancelled"}
                 /\ outcome'[j] # "queued" => j \in late' \/ j \in aborted'
                 /\ tokens'[j] > 0 => pass'.kind = "ok" /\ h = j
      BY <2>1, <1>2, <1>3, <1>5
    <2> QED BY <2>1, <1>1 DEF PassInv, h
  <1>7. CallInv'
    <2>1. ASSUME NEW j \in Jobs
          PROVE  /\ outcome'[j] = "new" => tokens'[j] = 0
                 /\ j \in aborted' => outcome'[j] = "cancelled"
      BY <1>2, <1>3, <1>4, <1>5 DEF Settled
    <2> QED BY <2>1 DEF CallInv
  <1>8. SettledOnce'
    <2>1. ASSUME NEW j \in Jobs
          PROVE  /\ tokens'[j] <= 1
                 /\ tokens'[j] = 1 /\ outcome'[j] \in {"rejected", "cancelled"} => j \in late'
                 /\ tokens'[j] = 1 /\ outcome'[j] = "queued" => pass'.kind = "ok" /\ h = j
      BY <1>2, <1>3, <1>4, <1>5 DEF Settled
    <2> QED BY <2>1 DEF SettledOnce, h
  <1> QED BY <1>6, <1>7, <1>8

---------------------------------------------------------------------------
(* The specification *)

LEMMA InitHolds == Init => IInv
  <1> SUFFICES ASSUME Init  PROVE IInv
    OBVIOUS
  <1>1. TypeOK
    <2>1. /\ queue = <<>> /\ pass = NoPass /\ stamps = [b \in Bucket |-> <<>>]
          /\ granted = [b \in Bucket |-> <<>>]
      BY DEF Init
    <2>2. CallsTyped
      BY DEF Init, CallsTyped, IsInjective, ToSet
    <2>3. PassTyped
      <3>1. NoPass \in Passes /\ NoPass.busy = FALSE /\ NoPass.order = <<>>
        BY DEF NoPass, Passes
      <3> QED BY <2>1, <3>1 DEF Init, PassTyped
    <2>4. StorageTyped
      BY DEF Init, StorageTyped
    <2>5. RestTyped
      BY ThrottleAssumption DEF Init, RestTyped
    <2> QED BY <2>2, <2>3, <2>4, <2>5, TypeParts
  <1>2. StorageInv
    <2>1. SUFFICES ASSUME NEW b \in Bucket  PROVE Kept(<<>>, <<>>, b)
      BY DEF Init, StorageInv
    <2>2. InWindow(<<>>) = <<>>
      <3>1. <<>> \in Seq(Nat) /\ ~(Len(<<>>) > 0)
        OBVIOUS
      <3> QED BY <3>1, InWindowKeeps
    <2>3. Limit[b] \in Nat
      BY ThrottleAssumption
    <2> QED BY <2>2, <2>3 DEF Kept
  <1>3. PassInv
    BY DEF Init, PassInv, NoPass, IsInjective, ToSet
  <1>4. CallInv /\ SettledOnce
    BY DEF Init, CallInv, SettledOnce
  <1> QED BY <1>1, <1>2, <1>3, <1>4 DEF IInv

(* From the calls to the pass that goes on with all of them *)
LEMMA StartsAnew ==
    ASSUME NEW q \in Seq(Jobs), IsInjective(q), Settled(q, <<>>)
    PROVE  /\ Ordered(q) \in Seq(Jobs) /\ IsInjective(Ordered(q))
           /\ Settled(q, Ordered(q))
  <1>1. /\ Ordered(q) \in Seq(Jobs) /\ IsInjective(Ordered(q))
        /\ ToSet(Ordered(q)) \subseteq ToSet(q)
    BY OrderedIs
  <1>2. \A j \in ToSet(Ordered(q)) : j \in Jobs /\ tokens[j] = 0 /\ outcome'[j] = "queued"
    BY <1>1 DEF Settled
  <1> QED BY <1>1, <1>2 DEF Settled

LEMMA TimerFiresKeeps ==
    ASSUME IInv, TimerFires  PROVE IInv'
  <1>1. CallsTyped /\ PassTyped /\ StorageTyped /\ RestTyped /\ StorageInv /\ PassInv
        /\ CallInv /\ SettledOnce
    BY TypeParts DEF IInv
  <1>2. UNCHANGED <<mode, queue, outcome, aborted, late, frozen, note, freezes>>
    BY DEF TimerFires, waitVars, noteVars
  <1>3. CallsTyped' /\ RestTyped'
    BY <1>1, <1>2 DEF CallsTyped, RestTyped, IsInjective, ToSet
  <1>4. CASE pass.busy
    <2>1. /\ runAgain' = TRUE /\ timer' = [armed |-> FALSE, left |-> 0]
          /\ UNCHANGED <<pass, stamps, tokens, granted>>
      BY <1>4 DEF TimerFires
    <2>2. PassTyped' /\ StorageTyped' /\ StorageInv'
      BY <1>1, <1>2, <2>1 DEF PassTyped, StorageTyped, StorageInv
    <2>3. PassInv' /\ CallInv' /\ SettledOnce'
      BY <1>1, <1>2, <2>1 DEF PassInv, CallInv, SettledOnce
    <2> QED BY <1>3, <2>2, <2>3, TypePartsNext DEF IInv
  <1>5. CASE ~pass.busy
    <2> DEFINE off == [armed |-> FALSE, left |-> 0]
    <2>1. PassGoesOn(queue, Ordered(queue), 0, off)
      BY <1>5 DEF TimerFires
    <2>2. Settled(queue, <<>>)
      <3>1. pass.kind = "none"
        BY <1>1, <1>5 DEF PassInv
      <3>2. \A j \in ToSet(queue) : j \in Jobs /\ outcome[j] = "queued"
        BY <1>1 DEF CallsTyped, ToSet
      <3>3. \A j \in Jobs : /\ tokens[j] \in Nat /\ tokens[j] <= 1
                            /\ outcome[j] \in {"new", "queued"} => tokens[j] = 0
                            /\ tokens[j] = 1 /\ outcome[j] \in {"rejected", "cancelled"} => j \in late
                            /\ j \in aborted => outcome[j] = "cancelled"
        BY <1>1, <3>1 DEF StorageTyped, SettledOnce, CallInv
      <3> QED BY <1>2, <3>2, <3>3 DEF Settled, ToSet
    <2>3. queue \in Seq(Jobs) /\ IsInjective(queue) /\ runAgain \in BOOLEAN
      BY <1>1 DEF CallsTyped, PassTyped
    <2>4. off \in [armed : BOOLEAN, left : Nat] /\ 0 \in Nat
      OBVIOUS
    <2>5. UNCHANGED <<frozen, aborted, late>> /\ UNCHANGED frozen
      BY <1>2
    <2> HIDE DEF off
    <2>6. /\ Ordered(queue) \in Seq(Jobs) /\ IsInjective(Ordered(queue))
          /\ Settled(queue, Ordered(queue))
      BY <2>2, <2>3, StartsAnew
    <2>7. PassTyped' /\ StorageTyped' /\ StorageInv'
      BY <1>1, <2>1, <2>3, <2>4, <2>5, <2>6, PassSteps
    <2>8. PassInv' /\ CallInv' /\ SettledOnce'
      BY <1>1, <2>1, <2>3, <2>4, <2>5, <2>6, PassKeeps
    <2> QED BY <1>3, <2>7, <2>8, TypePartsNext DEF IInv
  <1> QED BY <1>4, <1>5

(* The answer of take(), or what it threw, settles the job that is awaited *)
(* if it is still queued.                                                  *)
LEMMA AnswerKeeps ==
    ASSUME IInv, pass.kind \in {"ok", "error"},
           NEW verdict, verdict = (IF pass.kind = "ok" THEN "acquired" ELSE "rejected"),
           NEW j, j = Head(pass.order),
           NEW q, q = Withdrawn(queue, j), queue' = q,
           outcome' = IF Queued(j) THEN [outcome EXCEPT ![j] = verdict] ELSE outcome,
           PassGoesOn(q, Ordered(q), 0, timer),
           UNCHANGED <<mode, frozen, noteVars, aborted, late>>
    PROVE  IInv'
  <1>1. CallsTyped /\ PassTyped /\ StorageTyped /\ RestTyped /\ StorageInv /\ PassInv
        /\ CallInv /\ SettledOnce
    BY TypeParts DEF IInv
  <1>2. /\ queue \in Seq(Jobs) /\ IsInjective(queue)
        /\ runAgain \in BOOLEAN /\ timer \in [armed : BOOLEAN, left : Nat]
    BY <1>1 DEF CallsTyped, PassTyped
  <1>3. /\ q \in Seq(Jobs) /\ IsInjective(q) /\ ToSet(q) = ToSet(queue) \ {j}
    BY <1>2, WithdrawnIs
  <1>4. /\ outcome \in [Jobs -> {"new", "queued", "acquired", "rejected", "cancelled"}]
        /\ \A k \in Jobs : outcome[k] = "queued" <=> k \in ToSet(queue)
        /\ ToSet(queue) \subseteq Jobs
    BY <1>1 DEF CallsTyped, ToSet
  <1>5. j \in Jobs
    <2>1. pass.order \in Seq(Jobs) /\ pass.order # <<>>
      BY <1>1 DEF PassTyped, Passes, PassInv
    <2> QED BY <2>1
  <1>6. ASSUME NEW k \in Jobs
        PROVE  outcome'[k] = IF k = j /\ outcome[j] = "queued" THEN verdict ELSE outcome[k]
    BY <1>4, <1>5 DEF Queued
  <1>7. CallsTyped'
    <2>1. outcome' \in [Jobs -> {"new", "queued", "acquired", "rejected", "cancelled"}]
      BY <1>4, <1>5
    <2>2. \A k \in Jobs : outcome'[k] = "queued" <=> k \in ToSet(q)
      BY <1>3, <1>4, <1>6
    <2>3. aborted' \in SUBSET Jobs /\ late' \in SUBSET Jobs
      BY <1>1 DEF CallsTyped
    <2> QED BY <2>1, <2>2, <2>3, <1>3 DEF CallsTyped
  <1>8. RestTyped'
    BY <1>1 DEF RestTyped, noteVars
  <1>9. Settled(q, <<>>)
    <2>1. pass.kind = "error" => \A k \in Jobs : outcome[k] = "queued" => tokens[k] # 1
      BY <1>1 DEF SettledOnce
    <2>2. pass.kind = "ok" => \A k \in Jobs : outcome[k] = "queued" /\ k # j => tokens[k] # 1
      BY <1>1 DEF SettledOnce
    <2>3. ASSUME NEW k \in Jobs
          PROVE  /\ tokens[k] <= 1
                 /\ outcome'[k] \in {"new", "queued"} => tokens[k] = 0
                 /\ tokens[k] = 1 /\ outcome'[k] \in {"rejected", "cancelled"} => k \in late
                 /\ k \in aborted => outcome'[k] = "cancelled"
      <3>1. /\ tokens[k] \in Nat /\ tokens[k] <= 1
            /\ outcome[k] = "new" => tokens[k] = 0
            /\ tokens[k] = 1 /\ outcome[k] \in {"rejected", "cancelled"} => k \in late
            /\ k \in aborted => outcome[k] = "cancelled"
        BY <1>1 DEF StorageTyped, SettledOnce, CallInv
      <3> QED BY <3>1, <2>1, <2>2, <1>6
    <2>4. \A k \in ToSet(q) : k \in Jobs /\ outcome'[k] = "queued"
      BY <1>3, <1>4, <1>6
    <2> QED BY <2>3, <2>4 DEF Settled, ToSet
  <1>10. /\ Ordered(q) \in Seq(Jobs) /\ IsInjective(Ordered(q)) /\ Settled(q, Ordered(q))
    BY <1>3, <1>9, StartsAnew
  <1>11. UNCHANGED <<frozen, aborted, late>> /\ UNCHANGED frozen /\ 0 \in Nat
    OBVIOUS
  <1>12. PassTyped' /\ StorageTyped' /\ StorageInv'
    BY <1>1, <1>2, <1>3, <1>10, <1>11, PassSteps
  <1>13. PassInv' /\ CallInv' /\ SettledOnce'
    BY <1>1, <1>2, <1>3, <1>10, <1>11, PassKeeps
  <1> QED BY <1>7, <1>8, <1>12, <1>13, TypePartsNext DEF IInv

LEMMA RefusedKeeps ==
    ASSUME IInv, Refused  PROVE IInv'
  <1>1. CallsTyped /\ PassTyped /\ StorageTyped /\ RestTyped /\ StorageInv /\ PassInv
        /\ CallInv /\ SettledOnce
    BY TypeParts DEF IInv
  <1> DEFINE least == IF pass.minWait = 0 THEN pass.wait ELSE Min({pass.minWait, pass.wait})
             rest == Tail(pass.order)
  <1>2. /\ pass.kind = "refused" /\ PassGoesOn(queue, rest, least, timer)
        /\ UNCHANGED <<mode, queue, outcome, aborted, late, frozen, note, freezes>>
    BY DEF Refused, waitVars, noteVars
  <1>3. CallsTyped' /\ RestTyped'
    BY <1>1, <1>2 DEF CallsTyped, RestTyped, IsInjective, ToSet
  <1>4. /\ queue \in Seq(Jobs) /\ IsInjective(queue)
        /\ runAgain \in BOOLEAN /\ timer \in [armed : BOOLEAN, left : Nat]
        /\ pass.order \in Seq(Jobs) /\ pass.order # <<>>
        /\ pass.minWait \in Nat /\ pass.wait \in Nat
    BY <1>1, <1>2 DEF CallsTyped, PassTyped, Passes, PassInv
  <1>5. least \in Nat
    BY <1>4, MinOfTwo
  <1>6. /\ rest \in Seq(Jobs) /\ Len(rest) = Len(pass.order) - 1
        /\ \A i \in 1..Len(rest) : rest[i] = pass.order[i + 1]
    BY <1>4
  <1>7. IsInjective(rest) /\ ToSet(rest) \subseteq ToSet(pass.order)
    <2> HIDE DEF rest
    <2>1. \A x, y \in 1..Len(pass.order) : pass.order[x] = pass.order[y] => x = y
      BY <1>1, <1>4 DEF PassInv, IsInjective
    <2>2. DOMAIN rest = 1..(Len(pass.order) - 1) /\ Len(pass.order) \in Nat
      BY <1>4, <1>6
    <2>3. \A i \in DOMAIN rest : /\ i \in Nat /\ i + 1 \in 1..Len(pass.order)
                                 /\ rest[i] = pass.order[i + 1]
      BY <2>2, <1>6
    <2>4. ASSUME NEW i \in DOMAIN rest, NEW k \in DOMAIN rest, rest[i] = rest[k]
          PROVE  i = k
      <3>1. i + 1 = k + 1
        BY <2>1, <2>3, <2>4
      <3> QED BY <3>1, <2>3
    <2>5. DOMAIN pass.order = 1..Len(pass.order)
      BY <1>4
    <2> QED BY <2>3, <2>4, <2>5 DEF IsInjective, ToSet
  <1>8. Settled(queue, rest)
    <2>1. ASSUME NEW k \in Jobs
          PROVE  /\ tokens[k] <= 1
                 /\ outcome'[k] \in {"new", "queued"} => tokens[k] = 0
                 /\ tokens[k] = 1 /\ outcome'[k] \in {"rejected", "cancelled"} => k \in late
                 /\ k \in aborted => outcome'[k] = "cancelled"
      <3>1. tokens[k] \in Nat /\ outcome' = outcome
        BY <1>1, <1>2 DEF StorageTyped
      <3> QED BY <3>1, <1>1, <1>2 DEF SettledOnce, CallInv
    <2>2. \A k \in ToSet(queue) : k \in Jobs /\ outcome'[k] = "queued"
      BY <1>1, <1>2 DEF CallsTyped, ToSet
    <2>3. ASSUME NEW k \in ToSet(rest)
          PROVE  /\ k \in Jobs /\ tokens[k] = 0
                 /\ outcome'[k] \in {"queued", "rejected", "cancelled"}
                 /\ outcome'[k] # "queued" => k \in late \/ k \in aborted
      <3>1. k \in ToSet(pass.order) /\ k \in Jobs
        BY <1>4, <1>6, <1>7 DEF ToSet
      <3>2. tokens[k] \in Nat /\ outcome' = outcome
        BY <1>1, <1>2, <3>1 DEF StorageTyped
      <3> HIDE DEF rest
      <3> QED BY <3>1, <3>2, <1>1, <1>2 DEF PassInv
    <2> HIDE DEF rest
    <2> QED BY <2>1, <2>2, <2>3 DEF Settled
  <1> HIDE DEF least, rest
  <1>9. UNCHANGED <<frozen, aborted, late>> /\ UNCHANGED frozen
    BY <1>2
  <1>10. PassTyped' /\ StorageTyped' /\ StorageInv'
    BY <1>1, <1>2, <1>4, <1>5, <1>6, <1>7, <1>9, PassSteps
  <1>11. PassInv' /\ CallInv' /\ SettledOnce'
    BY <1>1, <1>2, <1>4, <1>5, <1>6, <1>7, <1>8, <1>9, PassKeeps
  <1> QED BY <1>3, <1>10, <1>11, TypePartsNext DEF IInv

(* A step that leaves the pass and the storage alone *)
LEMMA ElsewhereKeeps ==
    ASSUME IInv, UNCHANGED <<pass, storeVars>>,
           CallsTyped', RestTyped', runAgain' \in BOOLEAN,
           timer' \in [armed : BOOLEAN, left : Nat],
           PassInv', CallInv', SettledOnce'
    PROVE  IInv'
  <1>1. PassTyped /\ StorageTyped /\ StorageInv
    BY TypeParts DEF IInv
  <1>2. PassTyped' /\ StorageTyped' /\ StorageInv'
    BY <1>1 DEF PassTyped, StorageTyped, StorageInv, storeVars
  <1> QED BY <1>2, TypePartsNext DEF IInv

LEMMA RequestPumpTyped ==
    ASSUME PassTyped, RequestPump
    PROVE  runAgain' \in BOOLEAN /\ timer' \in [armed : BOOLEAN, left : Nat]
  <1>1. CASE pass.busy
    BY <1>1 DEF RequestPump, PassTyped
  <1>2. CASE ~pass.busy
    BY <1>2, ArmedTyped DEF RequestPump, PassTyped
  <1> QED BY <1>1, <1>2

(* The tail of the queue *)
LEMMA AppendedIs ==
    ASSUME NEW q \in Seq(Jobs), IsInjective(q), NEW j \in Jobs, j \notin ToSet(q)
    PROVE  /\ Append(q, j) \in Seq(Jobs) /\ IsInjective(Append(q, j))
           /\ ToSet(Append(q, j)) = ToSet(q) \cup {j}
  <1> DEFINE r == Append(q, j)
  <1>1. /\ r \in Seq(Jobs) /\ DOMAIN r = 1..(Len(q) + 1) /\ Len(q) \in Nat
        /\ DOMAIN q = 1..Len(q)
        /\ \A i \in 1..(Len(q) + 1) : r[i] = IF i <= Len(q) THEN q[i] ELSE j
    OBVIOUS
  <1> HIDE DEF r
  <1>2. ASSUME NEW i \in DOMAIN r, NEW k \in DOMAIN r, r[i] = r[k]  PROVE i = k
    BY <1>1, <1>2 DEF IsInjective, ToSet
  <1>3. ToSet(r) = ToSet(q) \cup {j}
    <2>1. ASSUME NEW x \in ToSet(r)  PROVE x \in ToSet(q) \cup {j}
      BY <1>1, <2>1 DEF ToSet
    <2>2. ASSUME NEW x \in ToSet(q)  PROVE x \in ToSet(r)
      BY <1>1, <2>2 DEF ToSet
    <2>3. j \in ToSet(r)
      BY <1>1 DEF ToSet
    <2> QED BY <2>1, <2>2, <2>3
  <1> QED BY <1>1, <1>2, <1>3 DEF IsInjective, r

(* A call that is withdrawn while its token is on its way, or from the     *)
(* order of the pass, is late or has its signal; whoever left the queue by *)
(* its signal is cancelled.                                                *)
LEMMA WithdrawalKeeps ==
    ASSUME CallsTyped, PassTyped, StorageTyped, PassInv, CallInv, SettledOnce,
           NEW j \in ToSet(queue), NEW bySignal \in BOOLEAN,
           NEW verdict \in {"rejected", "cancelled"}, bySignal => verdict = "cancelled",
           NEW others \in SUBSET Jobs, \A k \in others : outcome[k] = "new",
           outcome' \in [Jobs -> {"new", "queued", "acquired", "rejected", "cancelled"}],
           outcome'[j] = verdict,
           \A k \in others : outcome'[k] = "queued",
           \A k \in Jobs \ (others \cup {j}) : outcome'[k] = outcome[k],
           aborted' = IF bySignal THEN aborted \cup {j} ELSE aborted,
           late' = IF Exposed(j, bySignal) THEN late \cup {j} ELSE late,
           UNCHANGED <<pass, tokens>>
    PROVE  PassInv' /\ CallInv' /\ SettledOnce'
  <1>1. /\ j \in Jobs /\ outcome[j] = "queued" /\ j \notin others
        /\ tokens \in [Jobs -> Nat]
    BY DEF CallsTyped, StorageTyped, ToSet
  <1>2. /\ pass.order \in Seq(Jobs) /\ (pass.busy <=> pass.order # <<>>)
        /\ pass' = pass /\ tokens' = tokens
    BY DEF PassTyped, Passes
  <1>3. late \subseteq late' /\ aborted \subseteq aborted'
    OBVIOUS
  <1>4. tokens[j] = 1 => pass.kind = "ok" /\ Head(pass.order) = j
    BY <1>1 DEF SettledOnce
  <1>5. pass.kind = "ok" => pass.busy
    BY DEF PassInv
  <1>6. pass.busy => Head(pass.order) \in ToSet(pass.order)
    BY <1>2 DEF ToSet
  <1>7. tokens[j] = 1 => j \in late'
    BY <1>4, <1>5, <1>6 DEF Exposed
  <1>8. j \in ToSet(pass.order) => j \in late' \/ j \in aborted'
    <2>1. j \in ToSet(pass.order) => pass.busy
      BY <1>2 DEF ToSet
    <2> QED BY <2>1 DEF Exposed
  <1>9. \A k \in aborted' : k \in aborted \/ (k = j /\ verdict = "cancelled")
    OBVIOUS
  <1>10. \A k \in Jobs : \/ k = j
                         \/ k \in others /\ outcome[k] = "new" /\ outcome'[k] = "queued"
                         \/ k # j /\ outcome'[k] = outcome[k]
    OBVIOUS
  <1>11. PassInv'
    <2>1. ASSUME NEW k \in ToSet(pass.order)
          PROVE  /\ outcome'[k] \in {"queued", "rejected", "cancelled"}
                 /\ outcome'[k] # "queued" => k \in late' \/ k \in aborted'
                 /\ tokens[k] > 0 => pass.kind = "ok" /\ Head(pass.order) = k
      <3>1. /\ k \in Jobs
            /\ outcome[k] \in {"queued", "rejected", "cancelled"}
            /\ outcome[k] # "queued" => k \in late \/ k \in aborted
            /\ tokens[k] > 0 => pass.kind = "ok" /\ Head(pass.order) = k
        BY <1>2, <2>1 DEF PassInv, ToSet
      <3>2. CASE k = j
        BY <3>1, <3>2, <1>8
      <3>3. CASE k # j
        BY <3>1, <3>3, <1>3, <1>10
      <3> QED BY <3>2, <3>3
    <2> QED BY <2>1, <1>2 DEF PassInv
  <1>12. CallInv'
    <2>1. ASSUME NEW k \in Jobs
          PROVE  /\ outcome'[k] = "new" => tokens[k] = 0
                 /\ k \in aborted' => outcome'[k] = "cancelled"
      <3>1. /\ outcome[k] = "new" => tokens[k] = 0
            /\ k \in aborted => outcome[k] = "cancelled"
        BY DEF CallInv
      <3> QED BY <3>1, <1>1, <1>9, <1>10
    <2> QED BY <2>1, <1>2 DEF CallInv
  <1>13. SettledOnce'
    <2>1. ASSUME NEW k \in Jobs
          PROVE  /\ tokens[k] <= 1
                 /\ tokens[k] = 1 /\ outcome'[k] \in {"rejected", "cancelled"} => k \in late'
                 /\ tokens[k] = 1 /\ outcome'[k] = "queued"
                       => pass.kind = "ok" /\ Head(pass.order) = k
      <3>1. /\ tokens[k] <= 1
            /\ tokens[k] = 1 /\ outcome[k] \in {"rejected", "cancelled"} => k \in late
            /\ tokens[k] = 1 /\ outcome[k] = "queued"
                  => pass.kind = "ok" /\ Head(pass.order) = k
            /\ outcome[k] = "new" => tokens[k] = 0
        BY DEF SettledOnce, CallInv
      <3>2. CASE k = j
        BY <3>1, <3>2, <1>7
      <3>3. CASE k # j
        BY <3>1, <3>3, <1>3, <1>10
      <3> QED BY <3>2, <3>3
    <2> QED BY <2>1, <1>2 DEF SettledOnce
  <1> QED BY <1>11, <1>12, <1>13

(* There is no overflow as long as nothing is queued. *)
LEMMA OverflowNeedsQueue ==
    ASSUME NEW j \in Jobs, queue \in Seq(Jobs), Overflow(j)
    PROVE  queue # <<>>
  <1> SUFFICES ASSUME queue = <<>>  PROVE FALSE
    OBVIOUS
  <1>1. MaxQueueSize \in Nat \ {0} /\ MaxQueueDepth \in Nat \ {0}
    BY ThrottleAssumption
  <1>2. ~(Len(queue) >= MaxQueueSize)
    BY <1>1
  <1>3. PICK b \in BucketsOf[j] : Depth(b) >= MaxQueueDepth
    BY <1>2 DEF Overflow
  <1>4. {k \in Jobs : Queued(k) /\ b \in BucketsOf[k]} = {}
    BY DEF Queued, ToSet
  <1>5. Depth(b) = 0
    BY <1>4, FS_EmptySet DEF Depth
  <1> QED BY <1>1, <1>3, <1>5

LEMMA AcquireKeeps ==
    ASSUME IInv, NEW j \in Jobs, Acquire(j)  PROVE IInv'
  <1>1. CallsTyped /\ PassTyped /\ StorageTyped /\ RestTyped /\ StorageInv /\ PassInv
        /\ CallInv /\ SettledOnce
    BY TypeParts DEF IInv
  <1>2. /\ outcome[j] = "new"
        /\ UNCHANGED <<mode, pass, storeVars, noteVars, aborted>>
    BY DEF Acquire
  <1>3. RestTyped'
    BY <1>1, <1>2 DEF RestTyped, noteVars
  <1>4. /\ queue \in Seq(Jobs) /\ IsInjective(queue) /\ ToSet(queue) \subseteq Jobs
        /\ outcome \in [Jobs -> {"new", "queued", "acquired", "rejected", "cancelled"}]
        /\ \A k \in Jobs : outcome[k] = "queued" <=> k \in ToSet(queue)
        /\ aborted \in SUBSET Jobs /\ late \in SUBSET Jobs
        /\ tokens \in [Jobs -> Nat]
    BY <1>1 DEF CallsTyped, StorageTyped, ToSet
  <1>5. j \notin ToSet(queue) /\ j \notin ToSet(pass.order) /\ tokens[j] = 0 /\ j \notin aborted
    BY <1>1, <1>2, <1>4 DEF PassInv, CallInv
  <1>6. tokens' = tokens /\ pass' = pass /\ aborted' = aborted
    BY <1>2 DEF storeVars
  <1>7. CASE Overflow(j) /\ outcome' = [outcome EXCEPT ![j] = "rejected"]
             /\ UNCHANGED <<queue, late, timer, runAgain>>
    <2>1. \A k \in Jobs : outcome'[k] = IF k = j THEN "rejected" ELSE outcome[k]
      BY <1>4, <1>7
    <2>2. CallsTyped'
      <3>1. outcome' \in [Jobs -> {"new", "queued", "acquired", "rejected", "cancelled"}]
        BY <1>4, <1>7
      <3>2. \A k \in Jobs : outcome'[k] = "queued" <=> k \in ToSet(queue)
        BY <1>2, <1>4, <2>1
      <3> QED BY <3>1, <3>2, <1>4, <1>6, <1>7 DEF CallsTyped
    <2>3. runAgain' \in BOOLEAN /\ timer' \in [armed : BOOLEAN, left : Nat]
      BY <1>1, <1>7 DEF PassTyped
    <2>4. PassInv'
      <3>1. \A k \in ToSet(pass.order) : k \in Jobs /\ k # j
        BY <1>1, <1>5 DEF PassTyped, Passes, ToSet
      <3> QED BY <3>1, <2>1, <1>1, <1>6, <1>7 DEF PassInv
    <2>5. CallInv' /\ SettledOnce'
      BY <2>1, <1>1, <1>5, <1>6, <1>7 DEF CallInv, SettledOnce
    <2> QED BY <2>2, <2>3, <2>4, <2>5, <1>2, <1>3, ElsewhereKeeps
  <1>8. CASE /\ Overflow(j)
             /\ queue' = Append(Withdrawn(queue, Oldest), j)
             /\ outcome' = [outcome EXCEPT ![j] = "queued", ![Oldest] = "rejected"]
             /\ late' = IF Exposed(Oldest, FALSE) THEN late \cup {Oldest} ELSE late
             /\ RequestPump
    <2>1. Oldest \in ToSet(queue)
      BY <1>4, <1>8, OverflowNeedsQueue, OldestIs
    <2> DEFINE old == Oldest
               q == Withdrawn(queue, old)
    <2>2. /\ old \in ToSet(queue) /\ old \in Jobs /\ old # j /\ queue' = Append(q, j)
          /\ outcome' = [outcome EXCEPT ![j] = "queued", ![old] = "rejected"]
          /\ late' = IF Exposed(old, FALSE) THEN late \cup {old} ELSE late
      BY <2>1, <1>4, <1>5, <1>8
    <2>3. q \in Seq(Jobs) /\ IsInjective(q) /\ ToSet(q) = ToSet(queue) \ {old}
      BY <1>4, WithdrawnIs
    <2> HIDE DEF old, q
    <2>4. /\ queue' \in Seq(Jobs) /\ IsInjective(queue')
          /\ ToSet(queue') = ToSet(q) \cup {j}
      BY <2>2, <2>3, <1>5, AppendedIs
    <2>5. /\ outcome' \in [Jobs -> {"new", "queued", "acquired", "rejected", "cancelled"}]
          /\ outcome'[old] = "rejected" /\ outcome'[j] = "queued"
          /\ \A k \in Jobs \ {j, old} : outcome'[k] = outcome[k]
      BY <2>2, <1>4
    <2>6. CallsTyped'
      <3>1. \A k \in Jobs : outcome'[k] = "queued" <=> k \in ToSet(queue')
        BY <2>2, <2>3, <2>4, <2>5, <1>4
      <3>2. late' \in SUBSET Jobs
        BY <2>2, <1>4
      <3> QED BY <3>1, <3>2, <2>4, <2>5, <1>4, <1>6 DEF CallsTyped
    <2>7. runAgain' \in BOOLEAN /\ timer' \in [armed : BOOLEAN, left : Nat]
      BY <1>1, <1>8, RequestPumpTyped
    <2>8. PassInv' /\ CallInv' /\ SettledOnce'
      <3> DEFINE others == {j}
                 bySignal == FALSE
      <3>1. /\ others \in SUBSET Jobs /\ \A k \in others : outcome[k] = "new"
            /\ \A k \in others : outcome'[k] = "queued"
            /\ \A k \in Jobs \ (others \cup {old}) : outcome'[k] = outcome[k]
        BY <2>5, <1>2
      <3>2. /\ bySignal \in BOOLEAN /\ (bySignal => "rejected" = "cancelled")
            /\ aborted' = IF bySignal THEN aborted \cup {old} ELSE aborted
            /\ late' = IF Exposed(old, bySignal) THEN late \cup {old} ELSE late
        BY <2>2, <1>6
      <3>3. "rejected" \in {"rejected", "cancelled"}
        OBVIOUS
      <3>4. UNCHANGED <<pass, tokens>>
        BY <1>6
      <3> HIDE DEF others, bySignal
      <3> QED BY <3>1, <3>2, <3>3, <3>4, <2>2, <2>5, <1>1, WithdrawalKeeps
    <2> QED BY <2>6, <2>7, <2>8, <1>2, <1>3, ElsewhereKeeps
  <1>9. CASE /\ queue' = Append(queue, j)
             /\ outcome' = [outcome EXCEPT ![j] = "queued"]
             /\ RequestPump /\ UNCHANGED late
    <2>1. /\ queue' \in Seq(Jobs) /\ IsInjective(queue')
          /\ ToSet(queue') = ToSet(queue) \cup {j}
      BY <1>4, <1>5, <1>9, AppendedIs
    <2>2. \A k \in Jobs : outcome'[k] = IF k = j THEN "queued" ELSE outcome[k]
      BY <1>4, <1>9
    <2>3. CallsTyped'
      <3>1. outcome' \in [Jobs -> {"new", "queued", "acquired", "rejected", "cancelled"}]
        BY <1>4, <1>9
      <3>2. \A k \in Jobs : outcome'[k] = "queued" <=> k \in ToSet(queue')
        BY <1>4, <2>1, <2>2
      <3> QED BY <3>1, <3>2, <2>1, <1>4, <1>6, <1>9 DEF CallsTyped
    <2>4. runAgain' \in BOOLEAN /\ timer' \in [armed : BOOLEAN, left : Nat]
      BY <1>1, <1>9, RequestPumpTyped
    <2>5. PassInv'
      <3>1. \A k \in ToSet(pass.order) : k \in Jobs /\ k # j
        BY <1>1, <1>5 DEF PassTyped, Passes, ToSet
      <3> QED BY <3>1, <2>2, <1>1, <1>6, <1>9 DEF PassInv
    <2>6. CallInv' /\ SettledOnce'
      BY <2>2, <1>1, <1>5, <1>6, <1>9 DEF CallInv, SettledOnce
    <2> QED BY <2>3, <2>4, <2>5, <2>6, <1>2, <1>3, ElsewhereKeeps
  <1> QED BY <1>7, <1>8, <1>9 DEF Acquire

LEMMA CancelKeeps ==
    ASSUME IInv, NEW j \in Jobs, NEW bySignal \in BOOLEAN, Cancel(j, bySignal)
    PROVE  IInv'
  <1>1. CallsTyped /\ PassTyped /\ StorageTyped /\ RestTyped /\ StorageInv /\ PassInv
        /\ CallInv /\ SettledOnce
    BY TypeParts DEF IInv
  <1>2. /\ j \in ToSet(queue)
        /\ queue' = Withdrawn(queue, j)
        /\ outcome' = [outcome EXCEPT ![j] = "cancelled"]
        /\ aborted' = IF bySignal THEN aborted \cup {j} ELSE aborted
        /\ late' = IF Exposed(j, bySignal) THEN late \cup {j} ELSE late
        /\ UNCHANGED <<mode, passVars, storeVars, noteVars>>
    BY DEF Cancel, Queued
  <1>3. RestTyped'
    BY <1>1, <1>2 DEF RestTyped, noteVars
  <1>4. /\ queue \in Seq(Jobs) /\ IsInjective(queue)
        /\ outcome \in [Jobs -> {"new", "queued", "acquired", "rejected", "cancelled"}]
        /\ \A k \in Jobs : outcome[k] = "queued" <=> k \in ToSet(queue)
        /\ aborted \in SUBSET Jobs /\ late \in SUBSET Jobs
    BY <1>1 DEF CallsTyped
  <1>5. /\ queue' \in Seq(Jobs) /\ IsInjective(queue') /\ ToSet(queue') = ToSet(queue) \ {j}
    BY <1>2, <1>4, WithdrawnIs
  <1>6. /\ outcome' \in [Jobs -> {"new", "queued", "acquired", "rejected", "cancelled"}]
        /\ outcome'[j] = "cancelled"
        /\ \A k \in Jobs \ {j} : outcome'[k] = outcome[k]
    BY <1>2, <1>4
  <1>7. CallsTyped'
    <2>1. \A k \in Jobs : outcome'[k] = "queued" <=> k \in ToSet(queue')
      BY <1>4, <1>5, <1>6
    <2>2. late' \in SUBSET Jobs /\ aborted' \in SUBSET Jobs
      BY <1>2, <1>4
    <2> QED BY <2>1, <2>2, <1>5, <1>6 DEF CallsTyped
  <1>8. /\ runAgain' \in BOOLEAN /\ timer' \in [armed : BOOLEAN, left : Nat]
        /\ UNCHANGED <<pass, storeVars>> /\ UNCHANGED <<pass, tokens>>
    BY <1>1, <1>2 DEF PassTyped, passVars, storeVars
  <1>9. PassInv' /\ CallInv' /\ SettledOnce'
    <2> DEFINE others == {}
    <2>1. /\ others \in SUBSET Jobs /\ \A k \in others : outcome[k] = "new"
          /\ \A k \in others : outcome'[k] = "queued"
          /\ \A k \in Jobs \ (others \cup {j}) : outcome'[k] = outcome[k]
      BY <1>6
    <2>2. "cancelled" \in {"rejected", "cancelled"} /\ (bySignal => "cancelled" = "cancelled")
      OBVIOUS
    <2> HIDE DEF others
    <2> QED BY <2>1, <2>2, <1>1, <1>2, <1>6, <1>8, WithdrawalKeeps
  <1> QED BY <1>3, <1>7, <1>8, <1>9, ElsewhereKeeps

(* The steps that touch neither the calls nor the order of the pass *)
LEMMA CallsUntouched ==
    ASSUME CallsTyped, PassInv, CallInv, SettledOnce, UNCHANGED <<waitVars, pass, tokens>>
    PROVE  CallsTyped' /\ PassInv' /\ CallInv' /\ SettledOnce'
  <1>1. CallsTyped'
    BY DEF CallsTyped, waitVars, ToSet, IsInjective
  <1>2. PassInv' /\ CallInv' /\ SettledOnce'
    BY DEF PassInv, CallInv, SettledOnce, waitVars
  <1> QED BY <1>1, <1>2

LEMMA NoteRetryAfterKeeps ==
    ASSUME IInv, NEW j \in Jobs, NoteRetryAfter(j)  PROVE IInv'
  <1>1. CallsTyped /\ PassTyped /\ StorageTyped /\ RestTyped /\ StorageInv /\ PassInv
        /\ CallInv /\ SettledOnce
    BY TypeParts DEF IInv
  <1>2. /\ note' = [buckets |-> BucketsOf[j], left |-> RetryAfter]
        /\ freezes < MaxFreezes /\ freezes' = freezes + 1
        /\ UNCHANGED <<mode, waitVars, passVars, storeVars>>
    BY DEF NoteRetryAfter
  <1>3. RestTyped'
    <2>1. note' \in [buckets : SUBSET Bucket, left : Nat] /\ MaxFreezes \in Nat
      BY <1>2, ThrottleAssumption
    <2> QED BY <2>1, <1>1, <1>2 DEF RestTyped
  <1>4. CallsTyped' /\ PassInv' /\ CallInv' /\ SettledOnce'
    BY <1>1, <1>2, CallsUntouched DEF passVars, storeVars
  <1>5. /\ runAgain' \in BOOLEAN /\ timer' \in [armed : BOOLEAN, left : Nat]
        /\ UNCHANGED <<pass, storeVars>>
    BY <1>1, <1>2 DEF PassTyped, passVars
  <1> QED BY <1>3, <1>4, <1>5, ElsewhereKeeps

LEMMA FreezeKeeps ==
    ASSUME IInv, NEW b \in Bucket, Freeze(b)  PROVE IInv'
  <1>1. CallsTyped /\ PassTyped /\ StorageTyped /\ RestTyped /\ StorageInv /\ PassInv
        /\ CallInv /\ SettledOnce
    BY TypeParts DEF IInv
  <1>2. /\ b \in note.buckets
        /\ frozen' = [frozen EXCEPT ![b] = Max({@, note.left})]
        /\ UNCHANGED <<mode, waitVars, pass, runAgain, stamps, tokens, granted, freezes>>
    BY DEF Freeze
  <1>3. /\ note' \in [buckets : SUBSET Bucket, left : Nat]
        /\ timer' \in [armed : BOOLEAN, left : Nat]
    <2>1. /\ note \in [buckets : SUBSET Bucket, left : Nat]
          /\ timer \in [armed : BOOLEAN, left : Nat] /\ RetryAfter \in Nat
      BY <1>1, ThrottleAssumption DEF RestTyped, PassTyped
    <2>2. CASE note.buckets = {b}
      BY <2>1, <2>2, ArmedTyped DEF Freeze
    <2>3. CASE note.buckets # {b}
      BY <2>1, <2>3 DEF Freeze
    <2> QED BY <2>2, <2>3
  <1>4. frozen' \in [Bucket -> Nat]
    <2>1. frozen \in [Bucket -> Nat] /\ frozen[b] \in Nat /\ note.left \in Nat
      BY <1>1 DEF StorageTyped, RestTyped
    <2>2. Max({frozen[b], note.left}) \in Nat
      <3>1. {frozen[b], note.left} \in SUBSET Nat
        BY <2>1
      <3>2. IsFiniteSet({frozen[b], note.left})
        <4>1. IsFiniteSet({frozen[b]}) /\ IsFiniteSet({note.left})
          BY FS_Singleton
        <4>2. {frozen[b], note.left} = {frozen[b]} \cup {note.left}
          OBVIOUS
        <4> QED BY <4>1, <4>2, FS_Union
      <3> QED BY <3>1, <3>2, MaxOfNats
    <2> QED BY <1>2, <2>1, <2>2
  <1>5. StorageTyped' /\ StorageInv'
    BY <1>1, <1>2, <1>4 DEF StorageTyped, StorageInv
  <1>6. PassTyped'
    BY <1>1, <1>2, <1>3 DEF PassTyped
  <1>7. RestTyped'
    BY <1>1, <1>2, <1>3 DEF RestTyped
  <1>8. CallsTyped' /\ PassInv' /\ CallInv' /\ SettledOnce'
    BY <1>1, <1>2, CallsUntouched
  <1> QED BY <1>5, <1>6, <1>7, <1>8, TypePartsNext DEF IInv

LEMMA TickKeeps ==
    ASSUME IInv, Tick  PROVE IInv'
  <1>1. CallsTyped /\ PassTyped /\ StorageTyped /\ RestTyped /\ StorageInv /\ PassInv
        /\ CallInv /\ SettledOnce
    BY TypeParts DEF IInv
  <1>2. /\ stamps' = [b \in Bucket |-> Aged(stamps[b])]
        /\ granted' = [b \in Bucket |-> InWindow(Aged(granted[b]))]
        /\ frozen' = [b \in Bucket |-> Less(frozen[b])]
        /\ timer' = [timer EXCEPT !.left = Less(@)]
        /\ note' = [note EXCEPT !.left = Less(@)]
        /\ UNCHANGED <<mode, waitVars, pass, runAgain, freezes, tokens>>
    BY DEF Tick
  <1>3. \A n \in Nat : Less(n) \in Nat
    BY DEF Less
  <1>4. ASSUME NEW b \in Bucket
        PROVE  /\ stamps'[b] \in Seq(Nat) /\ granted'[b] \in Seq(Nat)
               /\ Kept(stamps'[b], granted'[b], b)
    <2>1. stamps[b] \in Seq(Nat) /\ Kept(stamps[b], granted[b], b)
      BY <1>1 DEF StorageTyped, StorageInv
    <2>2. /\ Aged(stamps[b]) \in Seq(Nat) /\ InWindow(Aged(granted[b])) \in Seq(Nat)
          /\ Kept(Aged(stamps[b]), InWindow(Aged(granted[b])), b)
      BY <2>1, KeptWhenAged
    <2> QED BY <2>2, <1>2
  <1>5. /\ stamps' \in [Bucket -> Seq(Nat)] /\ granted' \in [Bucket -> Seq(Nat)]
    BY <1>2, <1>4
  <1>6. frozen' \in [Bucket -> Nat]
    BY <1>1, <1>2, <1>3 DEF StorageTyped
  <1>7. StorageTyped' /\ StorageInv'
    BY <1>1, <1>2, <1>4, <1>5, <1>6 DEF StorageTyped, StorageInv
  <1>8. timer' \in [armed : BOOLEAN, left : Nat]
    BY <1>1, <1>2, <1>3 DEF PassTyped
  <1>9. note' \in [buckets : SUBSET Bucket, left : Nat]
    BY <1>1, <1>2, <1>3 DEF RestTyped
  <1>10. PassTyped' /\ RestTyped'
    BY <1>1, <1>2, <1>8, <1>9 DEF PassTyped, RestTyped
  <1>11. CallsTyped' /\ PassInv' /\ CallInv' /\ SettledOnce'
    BY <1>1, <1>2, CallsUntouched
  <1> QED BY <1>7, <1>10, <1>11, TypePartsNext DEF IInv

LEMMA NextKeeps == IInv /\ [Next]_vars => IInv'
  <1> SUFFICES ASSUME IInv, [Next]_vars  PROVE IInv'
    OBVIOUS
  <1>1. ASSUME NEW j \in Jobs, Acquire(j)  PROVE IInv'
    BY <1>1, AcquireKeeps
  <1>2. ASSUME NEW j \in Jobs, NoteRetryAfter(j)  PROVE IInv'
    BY <1>2, NoteRetryAfterKeeps
  <1>3. ASSUME NEW j \in Jobs, NEW bySignal \in BOOLEAN, Cancel(j, bySignal)
        PROVE  IInv'
    BY <1>3, CancelKeeps
  <1>4. ASSUME NEW b \in Bucket, Freeze(b)  PROVE IInv'
    BY <1>4, FreezeKeeps
  <1>5. CASE TimerFires
    BY <1>5, TimerFiresKeeps
  <1>6. CASE Granted
    <2> DEFINE j == Head(pass.order)
               q == Withdrawn(queue, j)
               verdict == "acquired"
    <2>1. /\ pass.kind = "ok" /\ queue' = q
          /\ outcome' = IF Queued(j) THEN [outcome EXCEPT ![j] = verdict] ELSE outcome
          /\ PassGoesOn(q, Ordered(q), 0, timer)
          /\ UNCHANGED <<mode, frozen, noteVars, aborted, late>>
      BY <1>6 DEF Granted
    <2>2. /\ verdict = (IF pass.kind = "ok" THEN "acquired" ELSE "rejected")
          /\ pass.kind \in {"ok", "error"}
      BY <2>1
    <2> HIDE DEF verdict
    <2> QED BY <2>1, <2>2, AnswerKeeps
  <1>7. CASE TakeFailed
    <2> DEFINE j == Head(pass.order)
               q == Withdrawn(queue, j)
               verdict == "rejected"
    <2>1. /\ pass.kind = "error" /\ queue' = q
          /\ outcome' = IF Queued(j) THEN [outcome EXCEPT ![j] = verdict] ELSE outcome
          /\ PassGoesOn(q, Ordered(q), 0, timer)
          /\ UNCHANGED <<mode, frozen, noteVars, aborted, late>>
      BY <1>7 DEF TakeFailed
    <2>2. /\ verdict = (IF pass.kind = "ok" THEN "acquired" ELSE "rejected")
          /\ pass.kind \in {"ok", "error"}
      BY <2>1
    <2> HIDE DEF verdict
    <2> QED BY <2>1, <2>2, AnswerKeeps
  <1>8. CASE Refused
    BY <1>8, RefusedKeeps
  <1>9. CASE Tick
    BY <1>9, TickKeeps
  <1>10. CASE UNCHANGED vars
    <2>1. CallsTyped /\ PassTyped /\ StorageTyped /\ RestTyped /\ StorageInv /\ PassInv
          /\ CallInv /\ SettledOnce
      BY TypeParts DEF IInv
    <2>2. UNCHANGED <<mode, waitVars, passVars, storeVars, noteVars>>
      BY <1>10 DEF vars, waitVars, passVars, storeVars, noteVars
    <2>3. CallsTyped' /\ PassInv' /\ CallInv' /\ SettledOnce'
      BY <2>1, <2>2, CallsUntouched DEF passVars, storeVars
    <2>4. RestTyped'
      BY <2>1, <2>2 DEF RestTyped, noteVars
    <2>5. runAgain' \in BOOLEAN /\ timer' \in [armed : BOOLEAN, left : Nat]
      BY <2>1, <2>2 DEF PassTyped, passVars
    <2>6. UNCHANGED <<pass, storeVars>>
      BY <2>2 DEF passVars
    <2> QED BY <2>3, <2>4, <2>5, <2>6, ElsewhereKeeps
  <1> QED BY <1>1, <1>2, <1>3, <1>4, <1>5, <1>6, <1>7, <1>8, <1>9, <1>10 DEF Next

LEMMA Invariant == Spec => []IInv
  BY InitHolds, NextKeeps, PTL DEF Spec

---------------------------------------------------------------------------
(* The controller and its storage keep their types, whatever the buckets,  *)
(* limits, priorities and the overflow option: in particular the queue     *)
(* holds the queued calls, each once, and a pass is under way exactly when *)
(* it has calls to ask for.                                                *)
THEOREM TypeCorrect == Spec => []TypeOK
  <1>1. IInv => TypeOK
    BY DEF IInv
  <1> QED BY <1>1, Invariant, PTL

(* No bucket gives more than its limit of tokens within any window: take() *)
(* prunes lazily, but never a stamp that still counts, and asks all the    *)
(* buckets of a call before it charges one.                                *)
THEOREM LimitHolds == Spec => []WindowBound
  <1>1. IInv => WindowBound
    BY DEF IInv, StorageInv, Kept, WindowBound
  <1> QED BY <1>1, Invariant, PTL

(* However passes, cancellations, overflows and answers of the storage     *)
(* interleave, a call gets one token at most, a queued call has one only   *)
(* while it is on its way, and a rejected one only if the pass could not   *)
(* know.                                                                   *)
THEOREM OneTokenEach == Spec => []SettledOnce
  <1>1. IInv => SettledOnce
    BY DEF IInv
  <1> QED BY <1>1, Invariant, PTL

=============================================================================
