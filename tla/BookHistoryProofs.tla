-------------------------- MODULE BookHistoryProofs --------------------------
(***************************************************************************)
(* The book the bank starts from, proved for every number of customers,    *)
(* any days, amounts, terms and interest: what a loan's schedule repays,   *)
(* what the ledger holds of the movements that were posted, and that the   *)
(* finished book passes its own checks.                                    *)
(***************************************************************************)
EXTENDS BookHistory, FiniteSetTheorems, WellFoundedInduction, TLAPS

-----------------------------------------------------------------------------
(***************************************************************************)
(* Induction, for a set of finite sets or of naturals.                     *)
(***************************************************************************)
(* A set of naturals that is not empty has a least member. *)
LEMMA LeastNatural ==
  ASSUME NEW S, S \subseteq Nat, S # {}
  PROVE  \E i \in S : \A j \in S : i <= j
<1>1. PICK i \in S : \A j \in S : ~ (<<j, i>> \in OpToRel(<, Nat))
  BY NatLessThanWellFounded, WFMin, Zenon
<1>2. \A j \in S : ~ (j < i)
  BY <1>1 DEF OpToRel
<1> QED BY <1>2

(* Induction over a finite set: a set of its subsets that a subset belongs *)
(* to as soon as it does without any one member.                           *)
LEMMA FiniteInduction ==
  ASSUME NEW S, IsFiniteSet(S), NEW G, {} \in G,
         \A T \in SUBSET S : T # {} /\ (\A x \in T : T \ {x} \in G) => T \in G
  PROVE  S \in G
<1> DEFINE Sizes == {n \in Nat : \E T \in SUBSET S : Cardinality(T) = n /\ T \notin G}
<1>1. SUFFICES ASSUME S \notin G PROVE FALSE
  OBVIOUS
<1>2. Cardinality(S) \in Sizes
  BY <1>1, FS_CardinalityType
<1>3. PICK n \in Sizes : \A m \in Sizes : n <= m
  BY <1>2, LeastNatural
<1>4. PICK T \in SUBSET S : Cardinality(T) = n /\ T \notin G
  BY <1>3
<1>5. IsFiniteSet(T) /\ T # {}
  BY <1>4, FS_Subset
<1>6. ASSUME NEW x \in T PROVE T \ {x} \in G
  <2>1. IsFiniteSet(T \ {x}) /\ Cardinality(T \ {x}) = n - 1
    BY <1>4, <1>5, FS_RemoveElement
  <2>2. n - 1 \in Nat /\ T \ {x} \in SUBSET S
    BY <2>1, FS_CardinalityType
  <2>3. n - 1 \notin Sizes
    BY <1>3
  <2> QED BY <2>1, <2>2, <2>3
<1> QED BY <1>4, <1>5, <1>6

(* Induction over the naturals. *)
LEMMA CountingUp ==
  ASSUME NEW G, 0 \in G, \A n \in Nat : n \in G => n + 1 \in G
  PROVE  Nat \subseteq G
<1>1. SUFFICES ASSUME Nat \ G # {} PROVE FALSE
  OBVIOUS
<1>2. PICK n \in Nat \ G : \A m \in Nat \ G : n <= m
  BY <1>1, LeastNatural
<1>3. n # 0 /\ n - 1 \in Nat
  BY <1>2
<1>4. n - 1 \in G
  BY <1>2, <1>3
<1>5. (n - 1) + 1 \in G
  BY <1>3, <1>4
<1> QED BY <1>2, <1>5

-----------------------------------------------------------------------------
(***************************************************************************)
(* Sums.                                                                   *)
(***************************************************************************)
(* g is the table of the sums of f over the subsets of S, each of them      *)
(* taken apart at the member the recursion of the library chooses.          *)
First(s) == CHOOSE x \in s : TRUE
Solves(g, f, S) ==
  \A s \in SUBSET S : g[s] = IF s = {} THEN 0 ELSE f[First(s)] + g[s \ {First(s)}]

(* Over a finite set, such a table of sums exists. *)
LEMMA SumsExist ==
  ASSUME NEW S, IsFiniteSet(S), NEW f, \A i \in S : f[i] \in Int
  PROVE  \E g \in [SUBSET S -> Int] : Solves(g, f, S)
<1> DEFINE Small(n) == {s \in SUBSET S : Cardinality(s) <= n}
           Fits(g, n) == \A s \in Small(n) :
                  g[s] = IF s = {} THEN 0 ELSE f[First(s)] + g[s \ {First(s)}]
           G == {n \in Nat : \E g \in [Small(n) -> Int] : Fits(g, n)}
<1>1. 0 \in G
  <2>1. \A s \in Small(0) : s = {}
    <3>1. \A s \in Small(0) : IsFiniteSet(s) /\ Cardinality(s) \in Nat /\ Cardinality(s) <= 0
      BY FS_Subset, FS_CardinalityType
    <3> QED BY <3>1, FS_EmptySet
  <2>2. [s \in Small(0) |-> 0] \in [Small(0) -> Int] /\ Fits([s \in Small(0) |-> 0], 0)
    BY <2>1
  <2> QED BY <2>2
<1>2. ASSUME NEW n \in Nat, n \in G PROVE n + 1 \in G
  <2>1. PICK g \in [Small(n) -> Int] : Fits(g, n)
    BY <1>2
  <2> DEFINE h == [s \in Small(n + 1) |-> IF s = {} THEN 0 ELSE f[First(s)] + g[s \ {First(s)}]]
  <2>2. ASSUME NEW s \in Small(n + 1), s # {}
        PROVE  s \ {First(s)} \in Small(n) /\ First(s) \in S
    <3>1. First(s) \in s
      BY <2>2 DEF First
    <3>2. IsFiniteSet(s) /\ Cardinality(s) \in Nat
      BY FS_Subset, FS_CardinalityType
    <3>3. Cardinality(s \ {First(s)}) = Cardinality(s) - 1
      BY <3>1, <3>2, FS_RemoveElement
    <3> QED BY <3>1, <3>2, <3>3
  <2>3. h \in [Small(n + 1) -> Int]
    BY <2>2
  <2>4. \A s \in Small(n) : s \in Small(n + 1) /\ h[s] = g[s]
    <3>1. \A s \in Small(n) : s \in Small(n + 1)
      <4>1. \A s \in Small(n) : Cardinality(s) \in Nat
        BY FS_Subset, FS_CardinalityType
      <4> QED BY <4>1
    <3> QED BY <2>1, <3>1
  <2>5. Fits(h, n + 1)
    BY <2>2, <2>4
  <2> HIDE DEF h, Fits
  <2>6. \E r \in [Small(n + 1) -> Int] : Fits(r, n + 1)
    BY <2>3, <2>5
  <2>7. n + 1 \in Nat
    OBVIOUS
  <2> QED BY <2>6, <2>7
<1> HIDE DEF G
<1>3. Cardinality(S) \in G
  <2>1. Nat \subseteq G
    BY <1>1, <1>2, CountingUp
  <2> QED BY <2>1, FS_CardinalityType
<1>4. PICK g \in [Small(Cardinality(S)) -> Int] : Fits(g, Cardinality(S))
  BY <1>3 DEF G
<1>5. Small(Cardinality(S)) = SUBSET S
  BY FS_Subset
<1> QED BY <1>4, <1>5 DEF Solves

(* There is only one. *)
LEMMA SumsAgree ==
  ASSUME NEW S, IsFiniteSet(S), NEW f, NEW g, NEW h, Solves(g, f, S), Solves(h, f, S)
  PROVE  g[S] = h[S]
<1> DEFINE G == {T \in SUBSET S : g[T] = h[T]}
<1>1. {} \in G
  BY DEF Solves
<1>2. ASSUME NEW T \in SUBSET S, T # {}, \A x \in T : T \ {x} \in G
      PROVE  T \in G
  <2>1. First(T) \in T
    BY <1>2 DEF First
  <2>2. g[T \ {First(T)}] = h[T \ {First(T)}]
    BY <2>1, <1>2
  <2> QED BY <2>2, <1>2 DEF Solves
<1> HIDE DEF G
<1>3. S \in G
  BY <1>1, <1>2, FiniteInduction
<1> QED BY <1>3 DEF G

(* It is what a sum over the set looks up, whatever set it is asked for. *)
Sum(f, S) == MapThenSumSet(LAMBDA x : f[x], S)

LEMMA SumSolves ==
  ASSUME NEW S, IsFiniteSet(S), NEW f, NEW g, Solves(g, f, S), NEW T \in SUBSET S
  PROVE  Sum(f, T) = g[T]
<1> DEFINE Eqn(h) == h = [s \in SUBSET T |-> IF s = {} THEN 0
                             ELSE f[CHOOSE x \in s : TRUE] + h[s \ {CHOOSE x \in s : TRUE}]]
           k == [s \in SUBSET T |-> g[s]]
           h == CHOOSE h : Eqn(h)
<1>1. Eqn(k)
  <2>1. \A s \in SUBSET T : s \ {CHOOSE x \in s : TRUE} \in SUBSET T
    OBVIOUS
  <2> QED BY <2>1 DEF Solves, First
<1>2. Eqn(h)
  BY <1>1
<1>3. Sum(f, T) = h[T]
  BY DEF Sum, MapThenSumSet, MapThenFoldSet
<1>4. Solves(h, f, T)
  <2> HIDE DEF h
  <2> QED BY <1>2 DEF Solves, First
<1>5. Solves(g, f, T)
  BY DEF Solves
<1>6. IsFiniteSet(T)
  BY FS_Subset
<1>7. h[T] = g[T]
  <2> HIDE DEF h
  <2> QED BY <1>4, <1>5, <1>6, SumsAgree
<1> HIDE DEF h
<1> QED BY <1>3, <1>7

(* A sum can be taken apart at any member, not only at the chosen one.     *)
LEMMA SumTakesAny ==
  ASSUME NEW S, IsFiniteSet(S), NEW f, \A i \in S : f[i] \in Int
  PROVE  /\ Sum(f, S) \in Int /\ Sum(f, {}) = 0
         /\ \A x \in S : Sum(f, S) = f[x] + Sum(f, S \ {x})
<1>0. PICK g \in [SUBSET S -> Int] : Solves(g, f, S)
  BY SumsExist
<1>1. \A T \in SUBSET S : Sum(f, T) = g[T]
  BY <1>0, SumSolves
<1> DEFINE G == {T \in SUBSET S : \A x \in T : g[T] = f[x] + g[T \ {x}]}
<1>2. {} \in G
  OBVIOUS
<1>3. ASSUME NEW T \in SUBSET S, T # {}, \A x \in T : T \ {x} \in G
      PROVE  T \in G
  <2> DEFINE c == First(T)
  <2>1. c \in T
    BY <1>3 DEF First
  <2>2. g[T] = f[c] + g[T \ {c}]
    BY <1>0, <1>3 DEF Solves
  <2> HIDE DEF c
  <2>3. ASSUME NEW x \in T, x # c PROVE g[T] = f[x] + g[T \ {x}]
    <3>1. g[T \ {c}] = f[x] + g[(T \ {c}) \ {x}]
      BY <1>3, <2>1, <2>3
    <3>2. g[T \ {x}] = f[c] + g[(T \ {x}) \ {c}]
      BY <1>3, <2>1, <2>3
    <3>3. (T \ {c}) \ {x} = (T \ {x}) \ {c}
      OBVIOUS
    <3>4. f[x] \in Int /\ f[c] \in Int /\ g[(T \ {x}) \ {c}] \in Int
      BY <1>0, <2>1
    <3>5. \A i, j, k \in Int : i + (j + k) = j + (i + k)
      OBVIOUS
    <3>6. f[x] + (f[c] + g[(T \ {x}) \ {c}]) = f[c] + (f[x] + g[(T \ {x}) \ {c}])
      BY <3>4, <3>5
    <3>7. g[T] = f[c] + (f[x] + g[(T \ {x}) \ {c}])
      BY <2>2, <3>1, <3>3
    <3> HIDE DEF G
    <3> QED BY <3>2, <3>6, <3>7
  <2> QED BY <2>2, <2>3
<1> HIDE DEF G
<1>4. S \in G
  BY <1>2, <1>3, FiniteInduction
<1>5. g[{}] = 0 /\ g[S] \in Int
  BY <1>0 DEF Solves
<1>6. \A x \in S : g[S] = f[x] + g[S \ {x}] /\ S \ {x} \in SUBSET S
  BY <1>4 DEF G
<1>7. {} \in SUBSET S /\ S \in SUBSET S
  OBVIOUS
<1> QED BY <1>1, <1>5, <1>6, <1>7

(* A sum depends only on what is held at the members of its set. *)
LEMMA SumAgrees ==
  ASSUME NEW S, IsFiniteSet(S), NEW f, NEW h, \A i \in S : f[i] = h[i] /\ f[i] \in Int
  PROVE  Sum(f, S) = Sum(h, S)
<1> DEFINE G == {T \in SUBSET S : Sum(f, T) = Sum(h, T)}
<1>1. {} \in G
  BY SumTakesAny, FS_EmptySet
<1>2. ASSUME NEW T \in SUBSET S, T # {}, \A x \in T : T \ {x} \in G
      PROVE  T \in G
  <2>1. PICK x \in T : TRUE
    BY <1>2
  <2>2. IsFiniteSet(T) /\ \A i \in T : f[i] \in Int /\ h[i] \in Int
    BY FS_Subset
  <2>3. Sum(f, T) = f[x] + Sum(f, T \ {x})
    BY <2>2, SumTakesAny
  <2>4. Sum(h, T) = h[x] + Sum(h, T \ {x})
    BY <2>2, SumTakesAny
  <2>5. Sum(f, T \ {x}) = Sum(h, T \ {x}) /\ f[x] = h[x]
    BY <1>2
  <2> QED BY <2>3, <2>4, <2>5
<1> HIDE DEF G
<1>3. S \in G
  BY <1>1, <1>2, FiniteInduction
<1> QED BY <1>3 DEF G


(* Total, one member more. *)
LEMMA TotalGrows ==
  ASSUME NEW f, NEW h, NEW x, IsFiniteSet(DOMAIN f), x \notin DOMAIN f,
         DOMAIN h = DOMAIN f \cup {x}, h[x] \in Int,
         \A i \in DOMAIN f : f[i] \in Int /\ h[i] = f[i]
  PROVE  Total(f) \in Int /\ Total(h) = Total(f) + h[x]
<1> DEFINE D == DOMAIN f
<1>1. IsFiniteSet(D \cup {x}) /\ \A i \in D \cup {x} : h[i] \in Int
  BY FS_AddElement
<1>2. Sum(h, D \cup {x}) = h[x] + Sum(h, (D \cup {x}) \ {x})
  BY <1>1, SumTakesAny
<1>3. (D \cup {x}) \ {x} = D
  OBVIOUS
<1>4. Sum(h, D) = Sum(f, D) /\ Sum(f, D) \in Int
  BY SumAgrees, SumTakesAny
<1>5. Total(f) = Sum(f, D) /\ Total(h) = Sum(h, D \cup {x})
  BY DEF Total, Sum
<1> QED BY <1>2, <1>3, <1>4, <1>5

(* The sum of nothing, and of nothing but zeros. *)
LEMMA TotalOfZeros ==
  ASSUME NEW f, IsFiniteSet(DOMAIN f), \A i \in DOMAIN f : f[i] = 0
  PROVE  Total(f) = 0
<1> DEFINE D == DOMAIN f
           G == {T \in SUBSET D : Sum(f, T) = 0}
<1>1. {} \in G
  BY SumTakesAny, FS_EmptySet
<1>2. ASSUME NEW T \in SUBSET D, T # {}, \A x \in T : T \ {x} \in G
      PROVE  T \in G
  <2>1. PICK x \in T : TRUE
    BY <1>2
  <2>2. IsFiniteSet(T) /\ \A i \in T : f[i] \in Int
    BY FS_Subset
  <2>3. Sum(f, T) = f[x] + Sum(f, T \ {x})
    BY <2>2, SumTakesAny
  <2> QED BY <2>3, <1>2
<1> HIDE DEF G
<1>3. D \in G
  BY <1>1, <1>2, FiniteInduction
<1> QED BY <1>3 DEF G, Total, Sum

(* The same members, held alike. *)
LEMMA TotalAgrees ==
  ASSUME NEW f, NEW h, IsFiniteSet(DOMAIN f), DOMAIN h = DOMAIN f,
         \A i \in DOMAIN f : h[i] = f[i] /\ f[i] \in Int
  PROVE  Total(h) = Total(f) /\ Total(f) \in Int
<1>1. Sum(f, DOMAIN f) = Sum(h, DOMAIN f) /\ Sum(f, DOMAIN f) \in Int
  BY SumAgrees, SumTakesAny
<1> QED BY <1>1 DEF Total, Sum

-----------------------------------------------------------------------------
(***************************************************************************)
(* Rounding, and what is compounded.                                       *)
(***************************************************************************)
LEMMA Products ==
  /\ \A k, x \in Nat : k * x \in Nat
  /\ \A k, x, y \in Int : k >= 0 /\ x <= y => k * x <= k * y
  /\ \A k, x, y \in Int : k > 0 /\ x < y => k * x < k * y
<1>1. \A k, x \in Nat : k * x \in Nat
  OBVIOUS
<1>2. ASSUME NEW k \in Int, NEW x \in Int, NEW y \in Int, k >= 0, x <= y PROVE k * x <= k * y
  <2>1. k * (y - x) >= 0
    BY <1>2
  <2>2. k * (y - x) = k * y - k * x
    OBVIOUS
  <2> QED BY <2>1, <2>2
<1>3. ASSUME NEW k \in Int, NEW x \in Int, NEW y \in Int, k > 0, x < y PROVE k * x < k * y
  <2>1. k * (y - x) > 0
    BY <1>3
  <2>2. k * (y - x) = k * y - k * x
    OBVIOUS
  <2> QED BY <2>1, <2>2
<1> QED BY <1>1, <1>2, <1>3

(* What cents returns is the greatest number that is not above its half. *)
LEMMA CentsRounds ==
  ASSUME NEW a \in Nat, NEW b \in Nat \ {0}
  PROVE  /\ Cents(a, b) \in Nat
         /\ b * (2 * Cents(a, b)) <= 2 * a + b
         /\ \A q \in Int : b * (2 * q) <= 2 * a + b => q <= Cents(a, b)
<1> DEFINE n == 2 * a + b
           m == 2 * b
           c == n \div m
<1>1. n \in Nat /\ m \in Nat \ {0}
  OBVIOUS
<1>2. c \in Int /\ n = m * c + (n % m) /\ n % m \in 0 .. m - 1
  <2> HIDE DEF n, m
  <2> QED BY <1>1
<1>3. c \in Nat
  <2>1. ASSUME c < 0 PROVE FALSE
    <3>1. m * c <= m * (-1)
      BY <1>1, <1>2, <2>1, Products
    <3> HIDE DEF n, m, c
    <3> QED BY <3>1, <1>1, <1>2
  <2> HIDE DEF c
  <2> QED BY <2>1, <1>2
<1>4. m * c = b * (2 * c)
  <2> HIDE DEF c
  <2> QED BY <1>3
<1>5. ASSUME NEW q \in Int, b * (2 * q) <= n PROVE q <= c
  <2>1. SUFFICES ASSUME c + 1 <= q PROVE FALSE
    <3> HIDE DEF c
    <3> QED BY <1>3
  <2>2. m * (c + 1) <= m * q
    <3> HIDE DEF c, m
    <3> QED BY <1>1, <1>3, <2>1, Products
  <2>3. m * (c + 1) = m * c + m
    <3> HIDE DEF c, m
    <3> QED BY <1>1, <1>3
  <2>4. m * q = b * (2 * q)
    OBVIOUS
  <2> HIDE DEF c, m, n
  <2> QED BY <2>2, <2>3, <2>4, <1>1, <1>2, <1>3, <1>5
<1>6. Cents(a, b) = c
  BY DEF Cents
<1> HIDE DEF c
<1> QED BY <1>2, <1>3, <1>4, <1>5, <1>6

(* The greater fraction is not rounded to less. *)
LEMMA CentsKeepOrder ==
  ASSUME NEW a \in Nat, NEW b \in Nat \ {0}, NEW c \in Nat, NEW d \in Nat \ {0}, a * d <= c * b
  PROVE  Cents(a, b) <= Cents(c, d)
<1> DEFINE q == Cents(a, b)
<1>1. q \in Nat /\ b * (2 * q) <= 2 * a + b
  BY CentsRounds
<1> HIDE DEF q
<1>2. d * (b * (2 * q)) <= d * (2 * a + b)
  BY <1>1, Products
<1>3. d * (2 * a + b) <= b * (2 * c + d)
  <2>1. d * (2 * a + b) = 2 * (a * d) + b * d
    OBVIOUS
  <2>2. b * (2 * c + d) = 2 * (c * b) + b * d
    OBVIOUS
  <2>3. a * d \in Int /\ c * b \in Int /\ b * d \in Int
    OBVIOUS
  <2> QED BY <2>1, <2>2, <2>3
<1>4. d * (b * (2 * q)) = b * (d * (2 * q))
  BY <1>1
<1>5. d * (2 * q) <= 2 * c + d
  <2>1. SUFFICES ASSUME 2 * c + d < d * (2 * q) PROVE FALSE
    BY <1>1
  <2>2. b * (2 * c + d) < b * (d * (2 * q))
    BY <2>1, <1>1, Products
  <2>3. b * (2 * c + d) \in Int /\ b * (d * (2 * q)) \in Int /\ d * (2 * a + b) \in Int
    BY <1>1
  <2> QED BY <2>2, <2>3, <1>2, <1>3, <1>4
<1>6. q <= Cents(c, d)
  BY <1>1, <1>5, CentsRounds
<1> QED BY <1>6 DEF q

(* The recursion of Compounded has a solution. *)
LEMMA CompoundingExists ==
  ASSUME NEW base \in Nat, NEW term \in Nat
  PROVE  \E g : /\ g = [n \in 0 .. term |-> IF n = 0 THEN 1 ELSE base * g[n - 1]]
                /\ Compounded(base, term) = g[term]
<1> DEFINE Eqn(g, t) == g = [n \in 0 .. t |-> IF n = 0 THEN 1 ELSE base * g[n - 1]]
           G == {t \in Nat : \E g : Eqn(g, t)}
<1>1. 0 \in G
  <2>1. Eqn([n \in 0 .. 0 |-> 1], 0)
    OBVIOUS
  <2> QED BY <2>1
<1>2. ASSUME NEW t \in Nat, t \in G PROVE t + 1 \in G
  <2>1. PICK g : Eqn(g, t)
    BY <1>2
  <2> DEFINE h == [n \in 0 .. t + 1 |-> IF n = 0 THEN 1 ELSE base * g[n - 1]]
  <2>2. \A n \in 0 .. t : h[n] = g[n]
    <3>1. \A n \in 0 .. t : g[n] = IF n = 0 THEN 1 ELSE base * g[n - 1]
      BY <2>1
    <3> QED BY <3>1
  <2>3. \A n \in 0 .. t + 1 : n # 0 => n - 1 \in 0 .. t
    OBVIOUS
  <2>4. Eqn(h, t + 1)
    BY <2>2, <2>3
  <2> HIDE DEF Eqn
  <2> QED BY <2>4
<1> HIDE DEF G
<1>3. term \in G
  BY <1>1, <1>2, CountingUp
<1>4. \E g : Eqn(g, term)
  BY <1>3 DEF G
<1> DEFINE c == CHOOSE g : Eqn(g, term)
<1>5. Eqn(c, term)
  BY <1>4
<1>6. Compounded(base, term) = c[term]
  BY DEF Compounded
<1> HIDE DEF c
<1> QED BY <1>5, <1>6

(* A base that is not zero compounds to more than nothing, a greater base  *)
(* to more.                                                                *)
LEMMA CompoundedGrows ==
  ASSUME NEW base \in Nat \ {0}, NEW rate \in Nat, NEW term \in Nat
  PROVE  /\ Compounded(base, term) \in Nat \ {0} /\ Compounded(base + rate, term) \in Nat \ {0}
         /\ rate > 0 /\ term > 0 => Compounded(base, term) < Compounded(base + rate, term)
<1>1. PICK g : /\ g = [n \in 0 .. term |-> IF n = 0 THEN 1 ELSE base * g[n - 1]]
               /\ Compounded(base, term) = g[term]
  BY CompoundingExists
<1>2. PICK h : /\ h = [n \in 0 .. term |-> IF n = 0 THEN 1 ELSE (base + rate) * h[n - 1]]
               /\ Compounded(base + rate, term) = h[term]
  <2>1. base + rate \in Nat
    OBVIOUS
  <2> QED BY <2>1, CompoundingExists
<1> DEFINE Above(n) == /\ g[n] \in Nat \ {0} /\ h[n] \in Nat \ {0} /\ g[n] <= h[n]
                       /\ rate > 0 /\ n > 0 => g[n] < h[n]
           G == {n \in Nat : n <= term => Above(n)}
<1>3. 0 \in G
  <2>1. g[0] = 1 /\ h[0] = 1
    BY <1>1, <1>2
  <2> QED BY <2>1
<1>4. ASSUME NEW n \in Nat, n \in G PROVE n + 1 \in G
  <2>1. SUFFICES ASSUME n + 1 <= term PROVE Above(n + 1)
    OBVIOUS
  <2>2. PICK x \in Nat, y \in Nat : x = g[n] /\ y = h[n] /\ x > 0 /\ y > 0 /\ x <= y
    BY <1>4, <2>1
  <2>3. g[n + 1] = base * x
    BY <1>1, <2>1, <2>2
  <2>4. h[n + 1] = (base + rate) * y
    BY <1>2, <2>1, <2>2
  <2>5. base * x \in Nat /\ base * y \in Nat /\ rate * y \in Nat
    BY <2>2, Products
  <2>6. base * x > 0
    <3>1. base * 0 < base * x
      BY <2>2, Products
    <3> QED BY <3>1, <2>5
  <2>7. base * x <= base * y
    BY <2>2, Products
  <2>8. (base + rate) * y = base * y + rate * y
    BY <2>2
  <2>9. ASSUME rate > 0 PROVE rate * y > 0
    <3>1. rate * 0 < rate * y
      BY <2>2, <2>9, Products
    <3> QED BY <3>1, <2>5
  <2>10. PICK i \in Nat, j \in Nat, k \in Nat : i = base * x /\ j = base * y /\ k = rate * y
    BY <2>5
  <2>11. g[n + 1] = i /\ h[n + 1] = j + k /\ i > 0 /\ i <= j /\ (rate > 0 => k > 0)
    BY <2>3, <2>4, <2>6, <2>7, <2>8, <2>9, <2>10
  <2> QED BY <2>11
<1> HIDE DEF G
<1>5. term \in G
  BY <1>3, <1>4, CountingUp
<1> QED BY <1>1, <1>2, <1>5 DEF G

-----------------------------------------------------------------------------
(***************************************************************************)
(* A loan's schedule.                                                      *)
(***************************************************************************)
Owed(open) == Cents(open * Interest[1], Interest[2])

(* The interest of a month is rounded from what is open, and is more the   *)
(* more is open.                                                           *)
LEMMA OwedGrows ==
  ASSUME NEW open \in Nat, NEW more \in Nat, open <= more
  PROVE  Owed(open) \in Nat /\ Owed(open) <= Owed(more)
<1> DEFINE r == Interest[1]
           w == Interest[2]
<1>1. r \in Nat /\ w \in Nat \ {0}
  BY BookAssumption
<1> HIDE DEF r, w
<1>2. open * r \in Nat /\ more * r \in Nat
  BY <1>1, Products
<1>3. (open * r) * w <= (more * r) * w
  <2>1. r * open <= r * more
    BY <1>1, Products
  <2>2. open * r <= more * r
    BY <2>1, <1>1
  <2>3. w * (open * r) <= w * (more * r)
    BY <2>2, <1>1, <1>2, Products
  <2>4. \A i, j \in Int : i * j = j * i
    OBVIOUS
  <2> QED BY <2>3, <2>4, <1>1, <1>2
<1>4. Cents(open * r, w) \in Nat /\ Cents(open * r, w) <= Cents(more * r, w)
  BY <1>1, <1>2, <1>3, CentsRounds, CentsKeepOrder
<1> QED BY <1>4 DEF Owed, r, w

(* The level payment covers the interest on all that was lent.             *)
LEMMA PaymentCoversInterest ==
  ASSUME NEW principal \in Nat \ {0}, NEW term \in Nat \ {0}
  PROVE  Payment(principal, term) \in Nat /\ Owed(principal) <= Payment(principal, term)
<1> DEFINE r == Interest[1]
           w == Interest[2]
           f == Compounded(w, term)
           g == Compounded(r + w, term)
<1>1. r \in Nat /\ w \in Nat \ {0}
  BY BookAssumption
<1> HIDE DEF r, w
<1>2. CASE r = 0
  <2>1. Owed(principal) = 0
    <3>1. principal * r = 0
      BY <1>2
    <3>2. Cents(0, w) \in Nat /\ w * (2 * Cents(0, w)) <= w
      BY <1>1, CentsRounds
    <3>3. PICK q \in Nat : q = Cents(0, w)
      BY <3>2
    <3>4. ASSUME q > 0 PROVE FALSE
      <4>1. w * 1 < w * (2 * q)
        BY <1>1, <3>4, Products
      <4>2. w * (2 * q) \in Int
        BY <1>1
      <4> QED BY <4>1, <4>2, <3>2, <3>3, <1>1
    <3> QED BY <3>1, <3>3, <3>4 DEF Owed, r, w
  <2>2. Payment(principal, term) = Cents(principal, term)
    BY <1>2 DEF Payment, r
  <2>3. Cents(principal, term) \in Nat
    BY CentsRounds
  <2> QED BY <2>1, <2>2, <2>3
<1>3. CASE r > 0
  <2>1. f \in Nat \ {0} /\ g \in Nat \ {0} /\ f < g
    <3>1. r + w = w + r
      BY <1>1
    <3>2. /\ Compounded(w, term) \in Nat \ {0} /\ Compounded(w + r, term) \in Nat \ {0}
          /\ Compounded(w, term) < Compounded(w + r, term)
      <4>1. term \in Nat /\ term > 0
        OBVIOUS
      <4> QED BY <4>1, <1>1, <1>3, CompoundedGrows
    <3> QED BY <3>1, <3>2
  <2> DEFINE d == g - f
  <2>2. Payment(principal, term) = Cents(principal * r * g, w * d)
    BY <1>3 DEF Payment, r, w
  <2> HIDE DEF f, g
  <2>3. d \in Nat \ {0} /\ d <= g
    BY <2>1
  <2> HIDE DEF d
  <2> DEFINE p == principal * r
  <2>4. p \in Nat
    BY <1>1, Products
  <2> HIDE DEF p
  <2>5. p * g \in Nat /\ w * d \in Nat \ {0}
    <3>1. w * 0 < w * d
      BY <1>1, <2>3, Products
    <3>2. w * d \in Nat /\ p * g \in Nat
      BY <1>1, <2>1, <2>3, <2>4, Products
    <3> QED BY <3>1, <3>2, <1>1
  <2>6. p * (w * d) <= (p * g) * w
    <3>1. (p * w) * d <= (p * w) * g
      <4>1. p * w \in Nat
        BY <1>1, <2>4, Products
      <4> QED BY <4>1, <2>1, <2>3, Products
    <3>2. (p * w) * d = p * (w * d)
      BY <1>1, <2>3, <2>4
    <3>3. (p * w) * g = (p * g) * w
      BY <1>1, <2>1, <2>4
    <3> QED BY <3>1, <3>2, <3>3
  <2>7. Cents(p, w) <= Cents(p * g, w * d) /\ Cents(p * g, w * d) \in Nat
    BY <1>1, <2>4, <2>5, <2>6, CentsKeepOrder, CentsRounds
  <2> QED BY <2>2, <2>7 DEF Owed, p, r, w
<1> QED BY <1>1, <1>2, <1>3

(* Min and Max of two numbers. *)
LEMMA LeastOfTwo ==
  ASSUME NEW a \in Int, NEW b \in Int
  PROVE  /\ Min({a, b}) = (IF a <= b THEN a ELSE b)
         /\ Max({a, b}) = (IF a <= b THEN b ELSE a)
<1>1. ASSUME NEW x \in {a, b}, \A y \in {a, b} : x <= y PROVE x = Min({a, b})
  BY <1>1 DEF Min
<1>2. ASSUME NEW x \in {a, b}, \A y \in {a, b} : x >= y PROVE x = Max({a, b})
  BY <1>2 DEF Max
<1> QED BY <1>1, <1>2

(* What the schedule does with one installment. *)
Repays(plan, n, principal, term) ==
  LET open == plan[n - 1].open
      level == Min({Payment(principal, term) - Owed(open), open})
      part == IF n = term THEN LastPart(open, level) ELSE level
  IN  [open |-> open - part, part |-> part, due |-> part + Owed(open)]

(* The recursion of the schedule has a solution, which is the schedule. *)
LEMMA ScheduleRepeats ==
  ASSUME NEW principal, NEW term \in Nat
  PROVE  LET plan == Schedule(principal, term)
         IN  plan = [n \in 0 .. term |-> IF n = 0 THEN [open |-> principal, part |-> 0, due |-> 0]
                                         ELSE Repays(plan, n, principal, term)]
<1> DEFINE First0 == [open |-> principal, part |-> 0, due |-> 0]
           Eqn(g, t) == g = [n \in 0 .. t |-> IF n = 0 THEN First0 ELSE Repays(g, n, principal, term)]
           G == {t \in Nat : \E g : Eqn(g, t)}
<1>1. 0 \in G
  <2>1. Eqn([n \in 0 .. 0 |-> First0], 0)
    OBVIOUS
  <2> QED BY <2>1
<1>2. ASSUME NEW t \in Nat, t \in G PROVE t + 1 \in G
  <2>1. PICK g : Eqn(g, t)
    BY <1>2
  <2> DEFINE h == [n \in 0 .. t + 1 |-> IF n = 0 THEN First0 ELSE Repays(g, n, principal, term)]
  <2>2. \A n \in 0 .. t : h[n] = g[n]
    <3> HIDE DEF First0
    <3>1. \A n \in 0 .. t : g[n] = IF n = 0 THEN First0 ELSE Repays(g, n, principal, term)
      BY <2>1
    <3> QED BY <3>1
  <2>3. ASSUME NEW n \in 0 .. t + 1, n # 0 PROVE Repays(h, n, principal, term) = Repays(g, n, principal, term)
    <3>1. h[n - 1] = g[n - 1]
      <4>1. n - 1 \in 0 .. t
        BY <2>3
      <4> HIDE DEF h
      <4> QED BY <4>1, <2>2
    <3> HIDE DEF h
    <3> QED BY <3>1 DEF Repays
  <2>4. Eqn(h, t + 1)
    <3> HIDE DEF First0
    <3> QED BY <2>3
  <2> HIDE DEF Eqn
  <2> QED BY <2>4
<1> HIDE DEF G
<1>3. term \in G
  BY <1>1, <1>2, CountingUp
<1>4. \E g : Eqn(g, term)
  BY <1>3 DEF G
<1> DEFINE c == CHOOSE g : Eqn(g, term)
<1>5. Eqn(c, term)
  BY <1>4
<1>6. Schedule(principal, term) = c
  BY DEF Schedule, Repays, Owed
<1> HIDE DEF c
<1> QED BY <1>5, <1>6

(* What stays open never grows and never falls below zero, and the last     *)
(* installment repays all of it.                                           *)
LEMMA ScheduleIsSound ==
  ASSUME NEW principal \in Nat \ {0}, NEW term \in Nat \ {0}
  PROVE  LET plan == Schedule(principal, term)
         IN  /\ \A n \in 1 .. term : /\ plan[n].part \in Nat /\ plan[n].due \in Nat
                                     /\ plan[n - 1].open \in Nat /\ plan[n].open \in Nat
                                     /\ plan[n].due >= plan[n - 1].open - plan[n].open
             /\ plan[0].open = principal /\ plan[term].open = 0
<1> DEFINE plan == Schedule(principal, term)
           pay == Payment(principal, term)
<1>1. plan = [n \in 0 .. term |-> IF n = 0 THEN [open |-> principal, part |-> 0, due |-> 0]
                                  ELSE Repays(plan, n, principal, term)]
  BY ScheduleRepeats
<1> HIDE DEF plan
<1>2. plan[0] = [open |-> principal, part |-> 0, due |-> 0]
  BY <1>1
<1>3. \A n \in 1 .. term : plan[n] = Repays(plan, n, principal, term)
  BY <1>1
<1>4. pay \in Nat /\ Owed(principal) <= pay
  BY PaymentCoversInterest
<1> HIDE DEF pay
<1> DEFINE Sound(n) == plan[n].open \in Nat /\ plan[n].open <= principal
           G == {n \in Nat : n <= term => Sound(n)}
<1>5. ASSUME NEW n \in 1 .. term, Sound(n - 1)
      PROVE  /\ Sound(n) /\ plan[n].part \in Nat /\ plan[n].due \in Nat
             /\ plan[n - 1].open \in Nat /\ plan[n].due >= plan[n - 1].open - plan[n].open
             /\ n = term => plan[n].open = 0
  <2> DEFINE open == plan[n - 1].open
             level == Min({pay - Owed(open), open})
             part == IF n = term THEN open ELSE level
  <2>1. open \in Nat /\ open <= principal
    BY <1>5
  <2>2. plan[n] = [open |-> open - part, part |-> part, due |-> part + Owed(open)]
    BY <1>3 DEF Repays, LastPart, pay
  <2> HIDE DEF open
  <2>3. Owed(open) \in Nat /\ Owed(open) <= pay
    <3>1. Owed(open) \in Nat /\ Owed(principal) \in Nat /\ Owed(open) <= Owed(principal)
      BY <2>1, OwedGrows
    <3> QED BY <3>1, <1>4
  <2>4. level \in Nat /\ level <= open
    <3>1. pay - Owed(open) \in Nat
      BY <2>3, <1>4
    <3>2. level = IF pay - Owed(open) <= open THEN pay - Owed(open) ELSE open
      BY <3>1, <2>1, LeastOfTwo
    <3> HIDE DEF level
    <3> QED BY <3>1, <3>2, <2>1
  <2> HIDE DEF level
  <2>5. part \in Nat /\ part <= open /\ (n = term => part = open)
    BY <2>1, <2>4
  <2> HIDE DEF part
  <2>6. plan[n].open = open - part /\ plan[n].part = part /\ plan[n].due = part + Owed(open)
    BY <2>2
  <2>7. plan[n - 1].open = open
    BY DEF open
  <2> QED BY <2>1, <2>3, <2>5, <2>6, <2>7
<1>6. 0 \in G
  BY <1>2
<1>7. ASSUME NEW n \in Nat, n \in G PROVE n + 1 \in G
  <2>1. SUFFICES ASSUME n + 1 <= term PROVE Sound(n + 1)
    OBVIOUS
  <2>2. n + 1 \in 1 .. term /\ (n + 1) - 1 = n /\ Sound(n)
    BY <1>7, <2>1
  <2> HIDE DEF Sound
  <2>3. PICK m \in 1 .. term : m = n + 1 /\ m - 1 = n
    BY <2>2
  <2>4. Sound(m - 1)
    BY <2>2, <2>3
  <2>5. Sound(m)
    BY <2>4, <1>5
  <2> QED BY <2>3, <2>5
<1> HIDE DEF G
<1>8. Nat \subseteq G
  BY <1>6, <1>7, CountingUp
<1>9. ASSUME NEW n \in 1 .. term PROVE Sound(n - 1)
  BY <1>8 DEF G
<1>10. term \in 1 .. term
  OBVIOUS
<1>11. \A n \in 1 .. term : /\ plan[n].part \in Nat /\ plan[n].due \in Nat /\ plan[n - 1].open \in Nat
                            /\ plan[n].open \in Nat /\ plan[n].due >= plan[n - 1].open - plan[n].open
                            /\ n = term => plan[n].open = 0
  BY <1>5, <1>9
<1> QED BY <1>2, <1>10, <1>11 DEF plan

-----------------------------------------------------------------------------
(***************************************************************************)
(* What the book is made of.                                               *)
(***************************************************************************)
Passes0 == {"deposits", "lending", "attrition", "drawing", "folding", "done", "checked"}

AccountType ==
  [opened : History .. Anchor, closed : Int, status : {"active", "dormant", "frozen", "closed"},
   limit : Limits, opening : Openings, salary : Salaries, balance : Int]

(* A movement of one of the accounts A.  Only an installment is a loan's    *)
(* debit, and a fee is a debit.                                            *)
IsMovement(e, A) ==
  /\ e.when \in Int /\ e.place \in Int /\ e.account \in A
  /\ e.amount \in Nat /\ e.repaid \in Nat /\ e.debit \in BOOLEAN
  /\ e.installment \in Nat /\ (e.installment > 0 <=> e.kind = "loan" /\ e.debit)
  /\ e.kind = "fee" => e.debit

IsLoan(loan) ==
  /\ loan.disbursed \in Int /\ loan.principal \in Principals /\ loan.term \in Terms
  /\ loan.paid \in [1 .. loan.term -> History .. Never]

BookTypes ==
  /\ at \in Passes0 /\ turn \in Nat \ {0} /\ month \in Nat
  /\ accounts \in [DOMAIN accounts -> AccountType] /\ DOMAIN accounts \subseteq 1 .. N
  /\ \A a \in DOMAIN accounts : accounts[a].status = "closed" => accounts[a].closed # Never
  /\ DOMAIN loans \subseteq DOMAIN accounts /\ \A a \in DOMAIN loans : IsLoan(loans[a])
  /\ IsFiniteSet(events) /\ \A e \in events : IsMovement(e, DOMAIN accounts)

LEMMA BookTypesInit == Init => BookTypes
<1> SUFFICES ASSUME Init PROVE BookTypes
  OBVIOUS
<1>1. DOMAIN accounts = {} /\ DOMAIN loans = {}
  <2>1. DOMAIN <<>> = {}
    OBVIOUS
  <2> QED BY <2>1 DEF Init
<1>2. accounts \in [DOMAIN accounts -> AccountType]
  <2>1. <<>> = [i \in {} |-> 0]
    OBVIOUS
  <2> QED BY <2>1, <1>1 DEF Init
<1>3. IsFiniteSet(events) /\ events = {}
  BY FS_EmptySet DEF Init
<1> QED BY <1>1, <1>2, <1>3 DEF Init, BookTypes, Passes0

(* The image of a finite set is finite. *)
LEMMA FiniteImage ==
  ASSUME NEW f, IsFiniteSet(DOMAIN f)
  PROVE  IsFiniteSet({f[x] : x \in DOMAIN f})
<1> DEFINE T == {f[x] : x \in DOMAIN f}
           h == [x \in DOMAIN f |-> f[x]]
<1>1. h \in Surjection(DOMAIN f, T)
  BY DEF Surjection
<1> HIDE DEF h, T
<1>2. IsFiniteSet(T)
  BY <1>1, FS_Surjection
<1> QED BY <1>2 DEF T

(* Opening an account adds one, and leaves the others. *)
LEMMA OpenAccountTypes ==
  ASSUME BookTypes, OpenAccount
  PROVE  BookTypes' /\ DOMAIN accounts \subseteq DOMAIN accounts'
<1>1. /\ at' = at /\ turn' = turn + 1 /\ month' = month /\ turn =< N
      /\ UNCHANGED <<loans, events>>
  BY DEF OpenAccount, InTurn, Passes
<1>2. CASE UNCHANGED accounts
  BY <1>1, <1>2 DEF BookTypes
<1>3. ASSUME NEW opened \in History .. Anchor, NEW limit \in Limits, NEW deposit \in Openings, NEW salary \in Salaries,
             accounts' = With(accounts, turn,
               [opened |-> opened, closed |-> Never, status |-> "active", limit |-> limit,
                opening |-> deposit, salary |-> salary, balance |-> 0])
      PROVE  BookTypes' /\ DOMAIN accounts \subseteq DOMAIN accounts'
  <2> DEFINE new == [opened |-> opened, closed |-> Never, status |-> "active", limit |-> limit,
                     opening |-> deposit, salary |-> salary, balance |-> 0]
  <2>1. new \in AccountType
    BY BookAssumption DEF AccountType, Never
  <2> HIDE DEF new
  <2>2. accounts' = [i \in DOMAIN accounts \cup {turn} |-> IF i = turn THEN new ELSE accounts[i]]
    BY <1>3 DEF With, new
  <2>3. DOMAIN accounts' = DOMAIN accounts \cup {turn} /\ turn \in 1 .. N
    BY <2>2, <1>1 DEF BookTypes
  <2>4. accounts' \in [DOMAIN accounts' -> AccountType]
    BY <2>1, <2>2, <2>3 DEF BookTypes
  <2>5. IsFiniteSet(events') /\ \A e \in events' : IsMovement(e, DOMAIN accounts')
    BY <1>1, <2>3 DEF BookTypes, IsMovement
  <2>6. DOMAIN loans' \subseteq DOMAIN accounts' /\ \A a \in DOMAIN loans' : IsLoan(loans'[a])
    BY <1>1, <2>3 DEF BookTypes
  <2>7. at' \in Passes0 /\ turn' \in Nat \ {0} /\ month' \in Nat /\ DOMAIN accounts' \subseteq 1 .. N
    BY <1>1, <2>3 DEF BookTypes
  <2>8. \A a \in DOMAIN accounts' : accounts'[a].status = "closed" => accounts'[a].closed # Never
    <3>1. new.status = "active"
      BY DEF new
    <3> QED BY <2>2, <2>3, <3>1 DEF BookTypes
  <2> QED BY <2>3, <2>4, <2>5, <2>6, <2>7, <2>8 DEF BookTypes
<1> QED BY <1>2, <1>3 DEF OpenAccount

(* What is lent is a loan of an account there is. *)
LEMMA LendTypes ==
  ASSUME BookTypes, Lend
  PROVE  BookTypes'
<1>1. /\ at' = at /\ turn' = turn + 1 /\ month' = month /\ UNCHANGED <<accounts, events>>
  BY DEF Lend, InTurn, Passes
<1>2. CASE UNCHANGED loans
  BY <1>1, <1>2 DEF BookTypes
<1>3. ASSUME turn \in DOMAIN accounts,
             NEW approved \in Principals, NEW applied \in History .. Anchor, NEW decision \in Lags, NEW lag \in Lags,
             NEW term \in Terms, NEW paid \in [1 .. term -> History .. Never],
             loans' = With(loans, turn,
               [disbursed |-> Max({applied + decision + lag, accounts[turn].opened}), principal |-> approved,
                term |-> term, paid |-> paid])
      PROVE  BookTypes'
  <2> DEFINE disbursed == Max({applied + decision + lag, accounts[turn].opened})
             new == [disbursed |-> disbursed, principal |-> approved, term |-> term, paid |-> paid]
  <2>1. disbursed \in Int
    <3>1. accounts[turn].opened \in Int
      BY <1>3, BookAssumption DEF BookTypes, AccountType
    <3>2. applied + decision + lag \in Int
      BY BookAssumption
    <3>3. disbursed = applied + decision + lag \/ disbursed = accounts[turn].opened
      BY <3>1, <3>2, LeastOfTwo
    <3> HIDE DEF disbursed
    <3> QED BY <3>1, <3>2, <3>3
  <2> HIDE DEF disbursed
  <2>2. IsLoan(new)
    BY <2>1 DEF IsLoan
  <2>3. loans' = [i \in DOMAIN loans \cup {turn} |-> IF i = turn THEN new ELSE loans[i]]
    BY <1>3 DEF With, disbursed
  <2> HIDE DEF new
  <2>4. DOMAIN loans' = DOMAIN loans \cup {turn} /\ \A a \in DOMAIN loans' : IsLoan(loans'[a])
    BY <2>2, <2>3 DEF BookTypes
  <2> QED BY <1>1, <1>3, <2>4 DEF BookTypes
<1> QED BY <1>2, <1>3, ZenonT(40) DEF Lend

(* The days of a month. *)
LEMMA DaysOfTheMonth ==
  ASSUME month \in Nat
  PROVE  /\ FirstDay \in Nat /\ FirstDay >= month * MonthDays /\ FirstDay >= History
         /\ LastDay \in Int /\ LastDay < (month + 1) * MonthDays /\ LastDay =< Anchor
         /\ LastDay = Anchor \/ LastDay = (month + 1) * MonthDays - 1
         /\ FirstDay = History \/ FirstDay = month * MonthDays
<1>1. month * MonthDays \in Nat /\ (month + 1) * MonthDays \in Nat
  BY BookAssumption, Products
<1>2. PICK i \in Nat, j \in Nat : i = month * MonthDays /\ j = (month + 1) * MonthDays
  BY <1>1
<1>3. FirstDay = IF i <= History THEN History ELSE i
  <2>1. History \in Int
    BY BookAssumption
  <2>2. Max({i, History}) = IF i <= History THEN History ELSE i
    BY <2>1, LeastOfTwo
  <2> QED BY <2>2, <1>2 DEF FirstDay
<1>4. LastDay = IF j - 1 <= Anchor THEN j - 1 ELSE Anchor
  <2>1. Anchor \in Int /\ j - 1 \in Int
    BY BookAssumption
  <2>2. Min({j - 1, Anchor}) = IF j - 1 <= Anchor THEN j - 1 ELSE Anchor
    BY <2>1, LeastOfTwo
  <2> QED BY <2>2, <1>2 DEF LastDay
<1> QED BY <1>2, <1>3, <1>4, BookAssumption

(* An account changes its status and may close; nothing else of it moves. *)
LEMMA AttritionDoes ==
  ASSUME BookTypes, Attrition
  PROVE  /\ DOMAIN accounts' = DOMAIN accounts /\ accounts' \in [DOMAIN accounts -> AccountType]
         /\ \A a \in DOMAIN accounts :
              /\ accounts'[a].balance = accounts[a].balance /\ accounts'[a].opened = accounts[a].opened
              /\ \/ accounts'[a].closed = accounts[a].closed /\ accounts'[a].status # "closed"
                 \/ accounts'[a] = accounts[a]
                 \/ /\ accounts[a].closed = Never /\ accounts'[a].closed \in FirstDay .. LastDay
                    /\ MayClose(a, accounts'[a].closed)
         /\ UNCHANGED <<at, month, cards, loans, events, book>> /\ turn' = turn + 1
<1>1. UNCHANGED <<at, month, cards, loans, events, book>> /\ turn' = turn + 1
  BY DEF Attrition, Passes
<1>2. CASE UNCHANGED accounts
  BY <1>1, <1>2 DEF BookTypes
<1>3. ASSUME IsActive(turn), accounts[turn].closed = Never,
             NEW status \in NextStatus[accounts[turn].status],
             accounts' = [accounts EXCEPT ![turn].status = status]
      PROVE  /\ DOMAIN accounts' = DOMAIN accounts /\ accounts' \in [DOMAIN accounts -> AccountType]
             /\ \A a \in DOMAIN accounts :
                  /\ accounts'[a].balance = accounts[a].balance /\ accounts'[a].opened = accounts[a].opened
                  /\ \/ accounts'[a].closed = accounts[a].closed /\ accounts'[a].status # "closed"
                     \/ accounts'[a] = accounts[a]
  <2>1. accounts \in [DOMAIN accounts -> AccountType] /\ turn \in DOMAIN accounts
        /\ accounts[turn].status # "closed"
    BY <1>3 DEF BookTypes, IsActive
  <2>2. accounts[turn].status \in {"active", "dormant", "frozen"}
    BY <2>1 DEF AccountType
  <2>3. status \in {"active", "dormant", "frozen"}
    BY <2>2, <1>3 DEF NextStatus
  <2> QED BY <2>1, <2>3, <1>3 DEF AccountType
<1>4. ASSUME IsActive(turn), accounts[turn].closed = Never, NEW day \in FirstDay .. LastDay, MayClose(turn, day),
             accounts' = [accounts EXCEPT ![turn].status = "closed", ![turn].closed = day]
      PROVE  /\ DOMAIN accounts' = DOMAIN accounts /\ accounts' \in [DOMAIN accounts -> AccountType]
             /\ \A a \in DOMAIN accounts :
                  /\ accounts'[a].balance = accounts[a].balance /\ accounts'[a].opened = accounts[a].opened
                  /\ \/ accounts'[a] = accounts[a]
                     \/ /\ accounts[a].closed = Never /\ accounts'[a].closed \in FirstDay .. LastDay
                        /\ MayClose(a, accounts'[a].closed)
  <2>1. accounts \in [DOMAIN accounts -> AccountType] /\ turn \in DOMAIN accounts
    BY <1>4 DEF BookTypes, IsActive
  <2>2. day \in Int
    BY <1>4
  <2>3. accounts'[turn].closed = day /\ \A a \in DOMAIN accounts : a # turn => accounts'[a] = accounts[a]
    BY <2>1, <1>4 DEF AccountType
  <2>4. DOMAIN accounts' = DOMAIN accounts /\ accounts' \in [DOMAIN accounts -> AccountType]
    BY <2>1, <2>2, <1>4 DEF AccountType
  <2>5. accounts'[turn].balance = accounts[turn].balance /\ accounts'[turn].opened = accounts[turn].opened
    BY <2>1, <1>4 DEF AccountType
  <2> QED BY <2>1, <2>3, <2>4, <2>5, <1>4
<1> QED BY <1>1, <1>2, <1>3, <1>4 DEF Attrition

LEMMA AttritionTypes ==
  ASSUME BookTypes, Attrition
  PROVE  BookTypes'
<1>1. \A a \in DOMAIN accounts' : accounts'[a].status = "closed" => accounts'[a].closed # Never
  <2>1. \A day \in FirstDay .. LastDay : day # Never
    BY DaysOfTheMonth, BookAssumption DEF BookTypes, Never
  <2> QED BY <2>1, AttritionDoes DEF BookTypes
<1>2. at' = at /\ turn' = turn + 1 /\ month' = month /\ loans' = loans /\ events' = events
      /\ DOMAIN accounts' = DOMAIN accounts /\ accounts' \in [DOMAIN accounts' -> AccountType]
  BY AttritionDoes
<1>3. IsFiniteSet(events') /\ \A e \in events' : IsMovement(e, DOMAIN accounts')
  BY <1>2 DEF BookTypes
<1>4. DOMAIN loans' \subseteq DOMAIN accounts' /\ \A a \in DOMAIN loans' : IsLoan(loans'[a])
  BY <1>2 DEF BookTypes
<1> QED BY <1>1, <1>2, <1>3, <1>4 DEF BookTypes

(* A quotient, by the stretch of numbers it is the quotient of. *)
LEMMA QuotientIs ==
  ASSUME NEW x \in Int, NEW m \in Nat \ {0}
  PROVE  x \div m \in Int /\ (x \div m) * m <= x /\ x < ((x \div m) + 1) * m
<1>1. x \div m \in Int /\ x = m * (x \div m) + (x % m) /\ x % m \in 0 .. m - 1
  OBVIOUS
<1>2. PICK q \in Int, r \in Int : q = x \div m /\ r = x % m
  BY <1>1
<1>3. x = m * q + r /\ 0 <= r /\ r < m
  BY <1>1, <1>2
<1>4. (q + 1) * m = m * q + m /\ q * m = m * q /\ m * q \in Int
  OBVIOUS
<1>5. q * m <= x /\ x < (q + 1) * m
  BY <1>3, <1>4
<1> QED BY <1>2, <1>5

(* The days a month draws movements for, and such a movement. *)
DrawnDays == Max({FirstDay, accounts[turn].opened}) .. Min({LastDay, accounts[turn].closed})

Drawn(e) ==
  /\ at = "drawing" /\ e.account = turn /\ turn \in DOMAIN accounts /\ e.day \in DrawnDays
  /\ e.when \in Int /\ e.place \in Int /\ e.amount \in Nat /\ e.debit \in BOOLEAN
  /\ e.installment = 0 /\ e.repaid = 0 /\ e.kind \in {"card", "transfer", "fee", "payment"}
  /\ e.kind = "card" => Usable(turn, e.day)
  /\ e.kind = "fee" => e.debit

LEMMA MovementIsDrawn ==
  ASSUME at = "drawing", turn \in DOMAIN accounts, NEW day \in DrawnDays, NEW when \in Int, NEW place \in Int,
         NEW kind \in {"card", "transfer", "fee", "payment"}, NEW debit \in BOOLEAN, NEW amount \in Nat,
         NEW status, kind = "card" => Usable(turn, day), kind = "fee" => debit
  PROVE  Drawn(Movement(turn, when, day, place, kind, debit, amount, status))
BY DEF Drawn, Movement

LEMMA InstantsAreNumbers ==
  ASSUME NEW day \in Int, NEW slot \in Int
  PROVE  At(day, slot) \in Int /\ DayOf(day) \in Int /\ AnchorEnd \in Nat
<1>1. Slots \in Nat \ {0} /\ Anchor \in Nat
  BY BookAssumption
<1>2. \A i, j \in Int : i * j \in Int
  OBVIOUS
<1>3. Slots * Anchor \in Nat
  BY <1>1, Products
<1> QED BY <1>1, <1>2, <1>3 DEF At, DayOf, AnchorEnd

(* A month adds finitely many movements, all of them drawn for the account  *)
(* in turn.                                                                *)
LEMMA DrawMonthDoes ==
  ASSUME BookTypes, DrawMonth
  PROVE  /\ IsFiniteSet(events') /\ events \subseteq events'
         /\ \A e \in events' : e \in events \/ Drawn(e)
         /\ UNCHANGED <<at, month, accounts, cards, loans, book>> /\ turn' = turn + 1
<1>1. UNCHANGED <<at, month, accounts, cards, loans, book>> /\ turn' = turn + 1 /\ at = "drawing"
  BY DEF DrawMonth, InTurn, Passes
<1>2. CASE UNCHANGED events
  BY <1>1, <1>2 DEF BookTypes
<1> DEFINE days == DrawnDays
           regular == IF days = {} THEN {} ELSE OpeningDeposit(turn) \cup Salary(turn, days)
<1>3. ASSUME IsActive(turn), NEW drawn \in {{}} \cup {{e} : e \in Drawable(turn, days)} \cup Bursts(turn, days),
             events' = events \cup regular \cup drawn
      PROVE  /\ IsFiniteSet(events') /\ events \subseteq events'
             /\ \A e \in events' : e \in events \/ Drawn(e)
  <2>1. turn \in DOMAIN accounts /\ accounts[turn] \in AccountType
    BY <1>3 DEF IsActive, BookTypes
  <2>2. /\ accounts[turn].opened \in Nat /\ accounts[turn].opening \in Nat /\ accounts[turn].salary \in Nat
        /\ accounts[turn].opened >= History
    BY <2>1, BookAssumption DEF AccountType
  <2>3. days \subseteq Int
    BY DEF DrawnDays
  <2>4. month \in Nat
    BY DEF BookTypes
  <2>5. IsFiniteSet(OpeningDeposit(turn)) /\ \A e \in OpeningDeposit(turn) : days # {} => Drawn(e)
    <3>1. CASE OpeningDeposit(turn) = {}
      BY <3>1, FS_EmptySet
    <3>2. CASE OpeningDeposit(turn) # {}
      <4> DEFINE o == accounts[turn].opened
                 e == Movement(turn, At(o, Slots - 1), o, 1, "transfer", FALSE, accounts[turn].opening, "posted")
      <4>1. o \div MonthDays = month /\ OpeningDeposit(turn) = {e}
        BY <3>2 DEF OpeningDeposit
      <4>2. At(o, Slots - 1) \in Int
        <5>1. o \in Int /\ Slots - 1 \in Int
          BY <2>2, BookAssumption
        <5> HIDE DEF o
        <5> QED BY <5>1, InstantsAreNumbers
      <4>3. ASSUME days # {} PROVE o \in days
        <5>0. PICK first \in Int, last \in Int, closed \in Int :
                first = FirstDay /\ last = LastDay /\ closed = accounts[turn].closed /\ first >= month * MonthDays
                /\ (first = History \/ first = month * MonthDays)
          BY <2>1, <2>4, DaysOfTheMonth DEF AccountType
        <5>1. o \in Int /\ o >= first
          <6>1. (o \div MonthDays) * MonthDays <= o
            BY <2>2, BookAssumption, QuotientIs
          <6> HIDE DEF o
          <6> QED BY <6>1, <4>1, <2>2, <5>0 DEF o
        <5>2. Max({first, o}) = o
          <6> HIDE DEF o
          <6> QED BY <5>1, LeastOfTwo
        <5>3. Min({last, closed}) \in Int
          BY LeastOfTwo
        <5>4. days = o .. Min({last, closed})
          BY <5>0, <5>2 DEF DrawnDays
        <5> HIDE DEF o, days
        <5>5. PICK x : x \in days
          BY <4>3
        <5>6. PICK least \in Int : least = Min({last, closed})
          BY <5>3
        <5>7. days = o .. least
          BY <5>4, <5>6
        <5> QED BY <5>1, <5>5, <5>7
      <4>4. ASSUME days # {} PROVE Drawn(e)
        <5> HIDE DEF o
        <5>1. o \in DrawnDays
          BY <4>3, <4>4
        <5> QED BY <5>1, <4>2, <1>1, <2>1, <2>2 DEF Drawn, Movement
      <4> QED BY <4>1, <4>4, FS_Singleton
    <3> QED BY <3>1, <3>2
  <2>6. IsFiniteSet(Salary(turn, days)) /\ \A e \in Salary(turn, days) : Drawn(e)
    <3>1. CASE Salary(turn, days) = {}
      BY <3>1, FS_EmptySet
    <3>2. CASE Salary(turn, days) # {}
      <4> DEFINE p == (month + 1) * MonthDays - 1
                 e == Movement(turn, At(p, 0), p, 3, "transfer", FALSE, accounts[turn].salary, "posted")
      <4>1. p \in days /\ Salary(turn, days) = {e}
        BY <3>2 DEF Salary
      <4>2. At(p, 0) \in Int
        <5>1. p \in Int
          <6> HIDE DEF p, days
          <6> QED BY <4>1, <2>3
        <5> QED BY <5>1, InstantsAreNumbers
      <4> HIDE DEF p
      <4>3. Drawn(e)
        <5>1. p \in DrawnDays
          BY <4>1
        <5> QED BY <5>1, <4>2, <1>1, <2>1, <2>2 DEF Drawn, Movement
      <4> QED BY <4>1, <4>3, FS_Singleton
    <3> QED BY <3>1, <3>2
  <2>7. \A day \in days, slot \in 0 .. Slots - 1 : At(day, slot) \in Int /\ At(day, 0) \in Int
    <3>1. \A slot \in 0 .. Slots - 1 : slot \in Int
      OBVIOUS
    <3> QED BY <2>3, <3>1, InstantsAreNumbers
  <2>8. \A e \in Drawable(turn, days) : Drawn(e)
    <3>1. Amounts \subseteq Nat
      BY BookAssumption
    <3>0. 0 \in 0 .. Slots - 1
      BY BookAssumption
    <3> HIDE DEF days
    <3>2. ASSUME NEW e \in Draw(turn, days), OnUsableCard(e) PROVE Drawn(e)
      <4>1. PICK day \in days, slot \in 0 .. Slots - 1, kind \in {"card", "transfer"}, debit \in BOOLEAN,
                 amount \in Amounts, status \in {"posted", "pending"} :
              e = Movement(turn, At(day, slot), day, 2, kind, debit, amount, status)
        BY <3>2 DEF Draw
      <4>2. kind = "card" => Usable(turn, day)
        BY <3>2, <4>1 DEF OnUsableCard, Movement
      <4> QED BY <4>1, <4>2, <3>1, <2>1, <2>7, <1>1, MovementIsDrawn DEF days
    <3>3. ASSUME NEW e \in Mandates(turn, days), OnUsableCard(e) PROVE Drawn(e)
      <4>1. PICK day \in days, amount \in Amounts : e = Movement(turn, At(day, 0), day, 4, "card", TRUE, amount, "posted")
        BY <3>3 DEF Mandates, Movement
      <4>2. Usable(turn, day)
        BY <3>3, <4>1 DEF OnUsableCard, Movement
      <4>3. day \in DrawnDays /\ At(day, 0) \in Int /\ amount \in Nat
        BY <3>0, <3>1, <2>7 DEF days
      <4> QED BY <4>1, <4>2, <4>3, <2>1, <1>1 DEF Drawn, Movement
    <3>4. ASSUME NEW e \in Fees(turn, days) PROVE Drawn(e)
      <4>1. PICK day \in days, amount \in Amounts : e = Movement(turn, At(day, 0), day, 6, "fee", TRUE, amount, "posted")
        BY <3>4 DEF Fees, Movement
      <4>3. day \in DrawnDays /\ At(day, 0) \in Int /\ amount \in Nat
        BY <3>0, <3>1, <2>7 DEF days
      <4> QED BY <4>1, <4>3, <2>1, <1>1 DEF Drawn, Movement
    <3>5. ASSUME NEW e \in Payments(turn, days) PROVE Drawn(e)
      <4>1. PICK day \in days, slot \in 0 .. Slots - 1, debit \in BOOLEAN, amount \in Amounts,
                 status \in {"initiated", "booked", "settled"} :
              e = Movement(turn, At(day, slot), day, 7, "payment", debit, amount, status)
        BY <3>5 DEF Payments
      <4> QED BY <4>1, <3>1, <2>1, <2>7, <1>1, MovementIsDrawn DEF days
    <3> QED BY <3>2, <3>3, <3>4, <3>5 DEF Drawable
  <2>9. ASSUME NEW burst \in Bursts(turn, days)
        PROVE  IsFiniteSet(burst) /\ \A e \in burst : Drawn(e)
    <3>1. PICK start \in At(0, 0) .. AnchorEnd, late \in [1 .. BurstLength -> {0, 1}] :
            /\ DayOf(start) \in days /\ Usable(turn, DayOf(start))
            /\ burst = {Movement(turn, start + late[i], DayOf(start), 5 + i, "card", TRUE, Min(Amounts), "posted") :
                          i \in 1 .. BurstLength}
      <4> DEFINE Starts == {i \in At(0, 0) .. AnchorEnd : DayOf(i) \in days /\ Usable(turn, DayOf(i))}
      <4> HIDE DEF days
      <4>1. PICK start \in Starts, late \in [1 .. BurstLength -> {0, 1}] : burst = Burst(turn, start, late)
        BY <2>9 DEF Bursts
      <4> QED BY <4>1 DEF Burst
    <3> DEFINE f == [i \in 1 .. BurstLength |->
                  Movement(turn, start + late[i], DayOf(start), 5 + i, "card", TRUE, Min(Amounts), "posted")]
    <3>2. burst = {f[i] : i \in DOMAIN f} /\ DOMAIN f = 1 .. BurstLength
      BY <3>1
    <3>3. IsFiniteSet(1 .. BurstLength)
      BY BookAssumption, FS_Interval
    <3>4. IsFiniteSet({f[i] : i \in DOMAIN f})
      <4> HIDE DEF f
      <4> QED BY <3>2, <3>3, FiniteImage
    <3>5. Min(Amounts) \in Nat
      <4>1. PICK m \in Amounts : \A x \in Amounts : m <= x
        BY BookAssumption, LeastNatural
      <4>2. Min(Amounts) \in Amounts
        BY <4>1 DEF Min
      <4> QED BY <4>2, BookAssumption
    <3>6. ASSUME NEW i \in 1 .. BurstLength PROVE Drawn(f[i])
      <4>1. start + late[i] \in Int
        BY <3>1
      <4>2. f[i] = Movement(turn, start + late[i], DayOf(start), 5 + i, "card", TRUE, Min(Amounts), "posted")
        OBVIOUS
      <4> HIDE DEF f, days
      <4>3. 5 + i \in Int /\ DayOf(start) \in DrawnDays
        BY <3>1 DEF days
      <4> QED BY <4>1, <4>2, <4>3, <3>1, <3>5, <2>1, <1>1, MovementIsDrawn
    <3> QED BY <3>2, <3>4, <3>6
  <2>10. IsFiniteSet(drawn) /\ \A e \in drawn : Drawn(e)
    <3> HIDE DEF days
    <3>1. CASE drawn = {}
      BY <3>1, FS_EmptySet
    <3>2. ASSUME NEW e \in Drawable(turn, days), drawn = {e} PROVE IsFiniteSet(drawn) /\ \A x \in drawn : Drawn(x)
      BY <3>2, <2>8, FS_Singleton
    <3> QED BY <1>3, <3>1, <3>2, <2>9
  <2>11. IsFiniteSet(regular) /\ \A e \in regular : Drawn(e)
    <3> HIDE DEF days
    <3>1. CASE days = {}
      BY <3>1, FS_EmptySet
    <3>2. CASE days # {}
      BY <3>2, <2>5, <2>6, FS_Union
    <3> QED BY <3>1, <3>2
  <2>12. IsFiniteSet(events)
    BY DEF BookTypes
  <2> HIDE DEF regular
  <2>13. IsFiniteSet(events \cup regular)
    BY <2>11, <2>12, FS_Union
  <2>14. IsFiniteSet((events \cup regular) \cup drawn)
    BY <2>10, <2>13, FS_Union
  <2> QED BY <1>3, <2>10, <2>11, <2>14
<1>4. CASE IsActive(turn) /\ accounts[turn].status # "dormant"
  <2>1. \E drawn \in {{}} \cup {{e} : e \in Drawable(turn, days)} \cup Bursts(turn, days) :
          events' = events \cup regular \cup drawn
    BY <1>4, Zenon DEF DrawMonth, DrawnDays
  <2> QED BY <1>1, <1>3, <1>4, <2>1
<1>5. CASE ~ (IsActive(turn) /\ accounts[turn].status # "dormant")
  <2>1. UNCHANGED events
    BY <1>5 DEF DrawMonth
  <2> QED BY <1>2, <2>1
<1> QED BY <1>4, <1>5

LEMMA DrawMonthTypes ==
  ASSUME BookTypes, DrawMonth
  PROVE  BookTypes'
<1>1. IsFiniteSet(events') /\ \A e \in events' : IsMovement(e, DOMAIN accounts')
  BY DrawMonthDoes DEF BookTypes, IsMovement, Drawn
<1>2. at' = at /\ month' = month /\ accounts' = accounts /\ loans' = loans /\ turn' = turn + 1
  BY DrawMonthDoes
<1> QED BY <1>1, <1>2 DEF BookTypes

-----------------------------------------------------------------------------
(***************************************************************************)
(* The cash of the loans, and the fold.                                    *)
(***************************************************************************)
LEMMA LoanCashIs ==
  ASSUME BookTypes, NEW a \in DOMAIN loans
  PROVE  /\ IsFiniteSet(LoanCash(a))
         /\ \A e \in LoanCash(a) :
              /\ IsMovement(e, DOMAIN accounts) /\ e.account = a /\ e.kind = "loan" /\ e.status = "posted"
              /\ \/ e.day = loans[a].disbursed
                 \/ \E n \in 1 .. loans[a].term : e.day = loans[a].paid[n] /\ e.day # Never
<1> DEFINE loan == loans[a]
           plan == Schedule(loan.principal, loan.term)
           paid == {i \in 1 .. loan.term : loan.paid[i] # Never}
           first == Cash(a, loan.disbursed, FALSE, loan.principal, 0, loan.principal)
           f == [n \in paid |-> Cash(a, loan.paid[n], TRUE, plan[n].due, n, plan[n].part)]
<1>1. /\ loan.disbursed \in Int /\ loan.principal \in Nat \ {0} /\ loan.term \in Nat \ {0}
      /\ loan.paid \in [1 .. loan.term -> History .. Never] /\ a \in DOMAIN accounts
  BY BookAssumption DEF BookTypes, IsLoan
<1>2. \A n \in 1 .. loan.term : plan[n].due \in Nat /\ plan[n].part \in Nat
  BY <1>1, ScheduleIsSound
<1> HIDE DEF plan
<1>3. LoanCash(a) = {first} \cup {f[n] : n \in DOMAIN f}
  BY DEF LoanCash, plan
<1>4. IsFiniteSet(LoanCash(a))
  <2>1. IsFiniteSet(paid)
    <3>1. IsFiniteSet(1 .. loan.term)
      <4>1. loan.term \in Int /\ 1 \in Int
        BY <1>1
      <4> HIDE DEF loan
      <4> QED BY <4>1, FS_Interval
    <3> QED BY <3>1, FS_Subset
  <2>2. DOMAIN f = paid
    OBVIOUS
  <2> HIDE DEF f, paid, first
  <2>3. IsFiniteSet({f[n] : n \in DOMAIN f})
    BY <2>1, <2>2, FiniteImage
  <2>4. IsFiniteSet({first})
    BY FS_Singleton
  <2>5. IsFiniteSet({first} \cup {f[n] : n \in DOMAIN f})
    BY <2>3, <2>4, FS_Union
  <2> QED BY <1>3, <2>5
<1>5. \A day \in Int : At(day, Slots - 1) \in Int
  <2>1. Slots - 1 \in Int
    BY BookAssumption
  <2> QED BY <2>1, InstantsAreNumbers
<1>6. /\ IsMovement(first, DOMAIN accounts) /\ first.account = a /\ first.kind = "loan" /\ first.status = "posted"
      /\ first.day = loan.disbursed
  BY <1>1, <1>5 DEF IsMovement, Cash, Movement
<1>7. ASSUME NEW n \in paid
      PROVE  /\ IsMovement(f[n], DOMAIN accounts) /\ f[n].account = a /\ f[n].kind = "loan" /\ f[n].status = "posted"
             /\ f[n].day = loan.paid[n] /\ f[n].day # Never /\ n \in 1 .. loan.term
  <2>1. n \in 1 .. loan.term /\ loan.paid[n] \in Int /\ loan.paid[n] # Never
    BY <1>1
  <2>2. PICK day \in Int, due \in Nat, part \in Nat : day = loan.paid[n] /\ due = plan[n].due /\ part = plan[n].part
    BY <1>2, <2>1
  <2>3. f[n] = [Movement(a, At(day, Slots - 1), day, 0, "loan", TRUE, due, "posted")
                  EXCEPT !.installment = n, !.repaid = part]
    BY <2>2 DEF Cash
  <2>4. At(day, Slots - 1) \in Int
    BY <1>5
  <2> HIDE DEF f
  <2> QED BY <1>1, <2>1, <2>2, <2>3, <2>4 DEF IsMovement, Movement
<1> HIDE DEF first, f, paid
<1>8. DOMAIN f = paid
  BY DEF f
<1> QED BY <1>3, <1>4, <1>6, <1>7, <1>8

LEMMA EndDrawingDoes ==
  ASSUME BookTypes, EndDrawing
  PROVE  /\ IsFiniteSet(events') /\ events \subseteq events'
         /\ \A e \in events' : \/ e \in events
                               \/ \E a \in DOMAIN loans : e \in LoanCash(a) /\ e.day \in FirstDay .. LastDay
         /\ UNCHANGED <<month, accounts, cards, loans, book>> /\ at' = "folding" /\ turn' = 1
<1> DEFINE L == [a \in DOMAIN loans |-> LoanCash(a)]
           All == {L[a] : a \in DOMAIN L}
           New == {e \in UNION {LoanCash(a) : a \in DOMAIN loans} : e.day \in FirstDay .. LastDay}
<1>1. events' = events \cup New /\ UNCHANGED <<month, accounts, cards, loans, book>> /\ at' = "folding" /\ turn' = 1
  BY DEF EndDrawing, After
<1>2. All = {LoanCash(a) : a \in DOMAIN loans} /\ DOMAIN L = DOMAIN loans
  OBVIOUS
<1>3. IsFiniteSet(DOMAIN loans)
  <2>1. DOMAIN loans \subseteq 1 .. N
    BY DEF BookTypes
  <2>2. IsFiniteSet(1 .. N)
    BY BookAssumption, FS_Interval
  <2> QED BY <2>1, <2>2, FS_Subset
<1>4. \A T \in All : IsFiniteSet(T)
  BY <1>2, LoanCashIs
<1>5. IsFiniteSet(All)
  <2> HIDE DEF L
  <2> QED BY <1>2, <1>3, FiniteImage
<1> HIDE DEF L
<1>6. IsFiniteSet(UNION All)
  <2> HIDE DEF All
  <2> QED BY <1>4, <1>5, FS_UNION
<1>7. New \subseteq UNION All
  BY <1>2
<1>8. IsFiniteSet(New)
  <2> HIDE DEF New, All
  <2> QED BY <1>6, <1>7, FS_Subset
<1>9. \A e \in New : \E a \in DOMAIN loans : e \in LoanCash(a) /\ e.day \in FirstDay .. LastDay
  OBVIOUS
<1> HIDE DEF New
<1>10. IsFiniteSet(events \cup New)
  BY <1>8, FS_Union DEF BookTypes
<1> QED BY <1>1, <1>9, <1>10

LEMMA EndDrawingTypes ==
  ASSUME BookTypes, EndDrawing
  PROVE  BookTypes'
<1>1. \A e \in events' : IsMovement(e, DOMAIN accounts')
  BY EndDrawingDoes, LoanCashIs DEF BookTypes
<1>2. IsFiniteSet(events') /\ at' \in Passes0 /\ turn' \in Nat \ {0} /\ month' = month /\ accounts' = accounts /\ loans' = loans
  BY EndDrawingDoes DEF Passes0
<1> QED BY <1>1, <1>2 DEF BookTypes

(* The fold takes a movement that comes before all others. *)
LEMMA EarliestIs ==
  ASSUME BookTypes, events # {}
  PROVE  Earliest \in events
<1> DEFINE G == {T \in SUBSET events : T = {} \/ \E e \in T : \A f \in T : Before(e, f)}
<1>1. {} \in G
  OBVIOUS
<1>2. ASSUME NEW T \in SUBSET events, T # {}, \A x \in T : T \ {x} \in G
      PROVE  T \in G
  <2>1. PICK x \in T : TRUE
    BY <1>2
  <2>2. \A e \in events : e.when \in Int /\ e.account \in Int /\ e.place \in Int
    BY DEF BookTypes, IsMovement
  <2>3. \A e \in events : Before(e, e)
    BY <2>2 DEF Before
  <2>4. CASE T \ {x} = {}
    BY <2>1, <2>3, <2>4
  <2>5. ASSUME NEW m \in T \ {x}, \A f \in T \ {x} : Before(m, f) PROVE T \in G
    <3>1. CASE Before(m, x)
      BY <2>5, <3>1
    <3>2. CASE ~ Before(m, x)
      <4>1. ASSUME NEW f \in T \ {x} PROVE Before(x, f)
        BY <2>1, <2>2, <2>5, <3>2, <4>1 DEF Before
      <4> QED BY <2>1, <2>3, <4>1
    <3> QED BY <3>1, <3>2
  <2> QED BY <1>2, <2>1, <2>4, <2>5
<1> HIDE DEF G
<1>3. events \in G
  BY <1>1, <1>2, FiniteInduction DEF BookTypes
<1> QED BY <1>3 DEF G, Earliest

(* What the fold of a movement does. *)
LEMMA EmitDoes ==
  ASSUME BookTypes, Emit
  PROVE  /\ Earliest \in events /\ events' = events \ {Earliest} /\ at = "folding"
         /\ UNCHANGED <<at, turn, month, cards, loans, report, left>>
         /\ \E status, booked, settled : Write(Earliest, status, booked, settled)
<1>1. Earliest \in events
  BY EarliestIs DEF Emit
<1>2. \E status, booked, settled : Write(Earliest, status, booked, settled)
  <2>1. CASE EmitTransaction(Earliest)
    BY <2>1 DEF EmitTransaction
  <2>2. CASE EmitPayment(Earliest)
    BY <2>2 DEF EmitPayment
  <2> QED BY <2>1, <2>2 DEF Emit
<1> QED BY <1>1, <1>2 DEF Emit

LEMMA EmitTypes ==
  ASSUME BookTypes, Emit
  PROVE  /\ BookTypes' /\ DOMAIN accounts' = DOMAIN accounts
         /\ \A a \in DOMAIN accounts : /\ accounts'[a].closed = accounts[a].closed
                                       /\ accounts'[a].opened = accounts[a].opened
<1> DEFINE e == Earliest
<1>1. /\ e \in events /\ events' = events \ {e} /\ UNCHANGED <<at, turn, month, loans>>
  BY EmitDoes
<1>2. PICK status, booked, settled : Write(e, status, booked, settled)
  BY EmitDoes
<1> HIDE DEF e
<1>3. e.account \in DOMAIN accounts /\ Signed(e) \in Int
  BY <1>1 DEF BookTypes, IsMovement, Signed
<1>4. /\ DOMAIN accounts' = DOMAIN accounts /\ accounts' \in [DOMAIN accounts' -> AccountType]
      /\ \A a \in DOMAIN accounts : /\ accounts'[a].closed = accounts[a].closed
                                    /\ accounts'[a].opened = accounts[a].opened
                                    /\ accounts'[a].status = accounts[a].status
  <2>1. CASE UNCHANGED accounts
    BY <2>1 DEF BookTypes
  <2>2. CASE accounts' = [accounts EXCEPT ![e.account].balance = @ + Signed(e)]
    <3>1. accounts \in [DOMAIN accounts -> AccountType]
      BY DEF BookTypes
    <3> QED BY <1>3, <2>2, <3>1 DEF AccountType
  <2> QED BY <1>2, <2>1, <2>2 DEF Write
<1>5. IsFiniteSet(events') /\ \A f \in events' : IsMovement(f, DOMAIN accounts')
  BY <1>1, <1>4, FS_RemoveElement DEF BookTypes
<1>6. \A a \in DOMAIN accounts' : accounts'[a].status = "closed" => accounts'[a].closed # Never
  BY <1>4 DEF BookTypes
<1> QED BY <1>1, <1>4, <1>5, <1>6 DEF BookTypes

LEMMA OtherTypes ==
  ASSUME BookTypes, EndDeposits \/ EndLending \/ EndAttrition \/ EndMonth \/ Check \/ UNCHANGED vars
  PROVE  BookTypes' /\ UNCHANGED <<accounts, cards, loans, events, rows, ledger, alerts>>
<1>1. UNCHANGED <<accounts, cards, loans, events, rows, ledger, alerts>>
  BY DEF EndDeposits, EndLending, EndAttrition, EndMonth, Check, After, book, vars
<1>2. at' \in Passes0 /\ turn' \in Nat \ {0} /\ month' \in Nat
  <2>1. CASE EndMonth
    BY <2>1 DEF EndMonth, BookTypes, Passes0
  <2> QED BY <2>1 DEF EndDeposits, EndLending, EndAttrition, Check, After, vars, BookTypes, Passes0
<1> QED BY <1>1, <1>2 DEF BookTypes

LEMMA TypesKept ==
  ASSUME BookTypes, [Next]_vars
  PROVE  BookTypes'
BY OpenAccountTypes, LendTypes, AttritionTypes, DrawMonthTypes, EndDrawingTypes, EmitTypes, OtherTypes DEF Next

(* Every part of the book keeps its type.                                  *)
THEOREM BookTypesCorrect == Spec => []BookTypes
<1>1. BookTypes /\ [Next]_vars => BookTypes'
  BY TypesKept
<1> QED BY BookTypesInit, <1>1, PTL DEF Spec

(* A loan is repaid by its schedule to the last unit, and no installment    *)
(* takes back principal, for every principal, term and interest (schedule,  *)
(* annuity_payment in realism/lending).                                    *)
THEOREM ScheduleRepaysCorrect == Spec => []ScheduleRepays
<1>1. BookTypes => ScheduleRepays
  <2> SUFFICES ASSUME BookTypes, NEW a \in DOMAIN loans
               PROVE  LET plan == Schedule(loans[a].principal, loans[a].term)
                      IN  /\ plan[loans[a].term].open = 0
                          /\ \A n \in 1 .. loans[a].term : plan[n].part >= 0
    BY DEF ScheduleRepays
  <2>1. loans[a].principal \in Nat \ {0} /\ loans[a].term \in Nat \ {0}
    BY BookAssumption DEF BookTypes, IsLoan
  <2> QED BY <2>1, ScheduleIsSound
<1> QED BY <1>1, BookTypesCorrect, PTL

-----------------------------------------------------------------------------
(***************************************************************************)
(* The ledger.                                                             *)
(***************************************************************************)
Leg(p, g) == IF g \in DOMAIN p.others THEN p.others[g] ELSE 0
Paid == {r \in Posted : r.installment > 0}
Lent == {r \in Posted : r.kind = "loan"} \ Paid

(* What a set of postings, and a set of rows, adds up to. *)
Legs(L, g) == Total([p \in L |-> Leg(p, g)])
Deposits(L) == Total([p \in L |-> p.deposits])
AmountsOf(R) == Total([r \in R |-> r.amount])
RepaidBy(R) == Total([r \in R |-> r.repaid])
CostOf(R) == Total([r \in R |-> r.amount + r.repaid])

(* What the sums are taken over. *)
LedgerTypes ==
  /\ IsFiniteSet(rows) /\ IsFiniteSet(ledger)
  /\ \A r \in rows : /\ r.id \in Nat /\ r.id <= Cardinality(rows) /\ r.amount \in Int /\ r.repaid \in Int
                     /\ r.installment \in Nat
  /\ \A p \in ledger : /\ p.source \in Nat /\ p.source <= Cardinality(rows) /\ p.deposits \in Int
                       /\ Leg(p, "loans") \in Int /\ Leg(p, "interest") \in Int
                       /\ p.deposits + Total(p.others) = 0
  /\ at = "deposits" => rows = {} /\ ledger = {}

BooksHeld ==
  /\ Legs(ledger, "loans") = AmountsOf(Lent) - RepaidBy(Paid)
  /\ Legs(ledger, "interest") = CostOf(Paid)
  /\ \A a \in DOMAIN accounts : Deposits({p \in ledger : p.account = a}) = - accounts[a].balance

(* What the source checks of balances and of the ledger. *)
BooksAdd ==
  /\ \A a \in DOMAIN accounts : AmountsOf({r \in Posted : r.account = a}) = accounts[a].balance
  /\ \A r \in Posted : \E p \in ledger : p.source = r.id

LedgerInv == LedgerTypes /\ BooksHeld /\ BooksAdd

LEMMA BooksAreHeld == BooksHeld => LedgerHoldsTheBooks
BY DEF BooksHeld, LedgerHoldsTheBooks, Legs, Deposits, AmountsOf, RepaidBy, CostOf, Leg, Paid, Lent

(* The row and the posting of a movement that is folded. *)
NewRow(e, status, booked, settled) ==
  [id |-> Cardinality(rows) + 1, account |-> e.account, kind |-> e.kind, day |-> e.day,
   at |-> e.when, booked |-> booked, settled |-> settled, status |-> status,
   amount |-> Signed(e), installment |-> e.installment, repaid |-> e.repaid]
NewPosting(e, booked) == Posting(e, Cardinality(rows) + 1, booked)

(* What one leg adds up to. *)
LEMMA OneLeg ==
  ASSUME NEW f, NEW g, NEW amount \in Int, DOMAIN f = {g}, f[g] = amount
  PROVE  Total(f) = amount
<1> DEFINE D == DOMAIN f
<1>1. IsFiniteSet(D) /\ \A i \in D : f[i] \in Int
  BY FS_Singleton
<1>2. g \in D /\ D \ {g} = {}
  OBVIOUS
<1>3. Sum(f, D) = f[g] + Sum(f, D \ {g}) /\ Sum(f, {}) = 0
  BY <1>1, <1>2, SumTakesAny
<1>4. Total(f) = Sum(f, D)
  BY DEF Total, Sum
<1> QED BY <1>2, <1>3, <1>4

(* A posting balances, and its legs are the row's amount. *)
LEMMA PostingBalances ==
  ASSUME NEW e, IsMovement(e, DOMAIN accounts), NEW booked, NEW p, p = NewPosting(e, booked)
  PROVE  /\ p.deposits = - Signed(e) /\ Signed(e) \in Int /\ p.account = e.account
         /\ p.source = Cardinality(rows) + 1
         /\ p.deposits + Total(p.others) = 0
         /\ Leg(p, "loans") = IF e.kind # "loan" THEN 0 ELSE IF e.debit THEN - e.repaid ELSE Signed(e)
         /\ Leg(p, "interest") = IF e.kind = "loan" /\ e.debit THEN Signed(e) + e.repaid ELSE 0
<1>1. e.amount \in Nat /\ e.repaid \in Nat /\ e.debit \in BOOLEAN /\ (e.kind = "fee" => e.debit)
  BY DEF IsMovement
<1>2. Signed(e) = (IF e.debit THEN - e.amount ELSE e.amount) /\ Signed(e) \in Int
  BY <1>1 DEF Signed
<1>3. p.deposits = - Signed(e) /\ p.account = e.account /\ p.source = Cardinality(rows) + 1 /\ p.others = Contra(e)
  BY DEF NewPosting, Posting
<1>4. PICK amount \in Int : amount = Signed(e)
  BY <1>2
<1>5. ASSUME NEW g, g \notin {"loans", "interest"}, DOMAIN p.others = {g}, p.others[g] = amount
      PROVE  Total(p.others) = amount /\ Leg(p, "loans") = 0 /\ Leg(p, "interest") = 0
  BY <1>5, OneLeg DEF Leg
<1>6. CASE e.kind = "fee"
  <2>1. DOMAIN Contra(e) = {"fees"} /\ Contra(e)["fees"] = amount
    BY <1>1, <1>2, <1>4, <1>6 DEF Contra
  <2>2. Total(p.others) = amount /\ Leg(p, "loans") = 0 /\ Leg(p, "interest") = 0
    BY <1>3, <1>5, <2>1
  <2> QED BY <1>2, <1>3, <1>4, <1>6, <2>2
<1>7. CASE e.kind = "loan" /\ e.debit
  <2> DEFINE f == [g \in {"loans"} |-> - e.repaid]
             h == Contra(e)
  <2>1. h = [loans |-> - e.repaid, interest |-> e.repaid - e.amount]
    BY <1>7 DEF Contra
  <2>2. DOMAIN f = {"loans"} /\ f["loans"] = - e.repaid
    OBVIOUS
  <2>3. DOMAIN h = {"loans"} \cup {"interest"} /\ h["loans"] = - e.repaid /\ h["interest"] = e.repaid - e.amount
    BY <2>1
  <2> HIDE DEF f, h
  <2>4. PICK back \in Int, above \in Int : back = - e.repaid /\ above = e.repaid - e.amount
    BY <1>1
  <2>5. Total(f) = back
    BY <2>2, <2>4, OneLeg
  <2>6. Total(h) = Total(f) + h["interest"]
    <3>1. IsFiniteSet(DOMAIN f) /\ "interest" \notin DOMAIN f
      BY <2>2, FS_Singleton
    <3>2. h["interest"] \in Int /\ \A i \in DOMAIN f : f[i] \in Int /\ h[i] = f[i]
      BY <2>2, <2>3, <2>4
    <3>3. DOMAIN h = DOMAIN f \cup {"interest"}
      BY <2>2, <2>3
    <3> QED BY <3>1, <3>2, <3>3, TotalGrows
  <2>7. Total(p.others) = back + above
    BY <1>3, <2>3, <2>4, <2>5, <2>6 DEF h
  <2>8. Leg(p, "loans") = - e.repaid /\ Leg(p, "interest") = e.repaid - e.amount
    BY <1>3, <2>3 DEF Leg, h
  <2>9. p.deposits + Total(p.others) = 0
    BY <1>1, <1>2, <1>3, <1>7, <2>4, <2>7
  <2>10. Leg(p, "interest") = Signed(e) + e.repaid
    BY <1>1, <1>2, <1>7, <2>8
  <2> QED BY <1>2, <1>3, <1>7, <2>8, <2>9, <2>10
<1>8. CASE e.kind = "loan" /\ ~ e.debit
  <2>1. DOMAIN Contra(e) = {"loans"} /\ Contra(e)["loans"] = amount
    BY <1>1, <1>2, <1>4, <1>8 DEF Contra
  <2>2. Total(p.others) = amount
    BY <1>3, <2>1, OneLeg
  <2>3. Leg(p, "loans") = amount /\ Leg(p, "interest") = 0
    BY <1>3, <2>1 DEF Leg
  <2> QED BY <1>2, <1>3, <1>4, <1>8, <2>2, <2>3
<1>9. CASE e.kind \notin {"fee", "loan"}
  <2>1. DOMAIN Contra(e) = {"cash"} /\ Contra(e)["cash"] = amount
    <3>1. Contra(e) = [cash |-> amount]
      BY <1>4, <1>9 DEF Contra
    <3> QED BY <3>1
  <2>2. Total(p.others) = amount /\ Leg(p, "loans") = 0 /\ Leg(p, "interest") = 0
    BY <1>3, <1>5, <2>1
  <2> QED BY <1>2, <1>3, <1>4, <1>9, <2>2
<1> QED BY <1>6, <1>7, <1>8, <1>9

(* What a movement changes: a row with the next identity and, if it is      *)
(* posted, the balance and the ledger.                                     *)
LEMMA WriteDoes ==
  ASSUME BookTypes, LedgerTypes, NEW e \in events, NEW status, NEW booked, NEW settled,
         Write(e, status, booked, settled),
         NEW row, row = NewRow(e, status, booked, settled), NEW posting, posting = NewPosting(e, booked)
  PROVE  /\ rows' = rows \cup {row} /\ row \notin rows /\ posting \notin ledger
         /\ IF IsPosted(status)
            THEN /\ Posted' = Posted \cup {row} /\ ledger' = ledger \cup {posting}
                 /\ accounts' = [accounts EXCEPT ![e.account].balance = @ + Signed(e)]
            ELSE Posted' = Posted /\ UNCHANGED <<accounts, ledger>>
<1>1. Cardinality(rows) \in Nat
  BY FS_CardinalityType DEF LedgerTypes
<1>2. row \notin rows
  <2>1. row.id = Cardinality(rows) + 1
    BY DEF NewRow
  <2> QED BY <1>1, <2>1 DEF LedgerTypes
<1>3. posting \notin ledger
  <2>1. posting.source = Cardinality(rows) + 1
    BY DEF NewPosting, Posting
  <2> QED BY <1>1, <2>1 DEF LedgerTypes
<1>4. rows' = rows \cup {row}
  BY DEF Write, NewRow
<1>5. row.status = status
  BY DEF NewRow
<1>6. IF IsPosted(status)
      THEN /\ ledger' = ledger \cup {posting}
           /\ accounts' = [accounts EXCEPT ![e.account].balance = @ + Signed(e)]
      ELSE UNCHANGED <<accounts, ledger>>
  BY DEF Write, NewPosting
<1>7. Posted' = IF IsPosted(status) THEN Posted \cup {row} ELSE Posted
  BY <1>4, <1>5 DEF Posted
<1> QED BY <1>2, <1>3, <1>4, <1>6, <1>7

(* One more in a set adds what it counts for. *)
LEMMA LegsGrow ==
  ASSUME NEW L, IsFiniteSet(L), NEW g, NEW p, p \notin L, \A i \in L \cup {p} : Leg(i, g) \in Int
  PROVE  Legs(L, g) \in Int /\ Legs(L \cup {p}, g) = Legs(L, g) + Leg(p, g)
<1> DEFINE f == [i \in L |-> Leg(i, g)]
           h == [i \in L \cup {p} |-> Leg(i, g)]
<1>1. /\ DOMAIN f = L /\ DOMAIN h = L \cup {p} /\ h[p] = Leg(p, g) /\ h[p] \in Int
      /\ \A i \in L : f[i] \in Int /\ h[i] = f[i]
  OBVIOUS
<1> HIDE DEF f, h
<1>2. Total(f) \in Int /\ Total(h) = Total(f) + h[p]
  BY <1>1, TotalGrows
<1> QED BY <1>1, <1>2 DEF Legs, f, h

LEMMA DepositsGrow ==
  ASSUME NEW L, IsFiniteSet(L), NEW p, p \notin L, \A i \in L \cup {p} : i.deposits \in Int
  PROVE  Deposits(L) \in Int /\ Deposits(L \cup {p}) = Deposits(L) + p.deposits
<1> DEFINE f == [i \in L |-> i.deposits]
           h == [i \in L \cup {p} |-> i.deposits]
<1>1. /\ DOMAIN f = L /\ DOMAIN h = L \cup {p} /\ h[p] = p.deposits /\ h[p] \in Int
      /\ \A i \in L : f[i] \in Int /\ h[i] = f[i]
  OBVIOUS
<1> HIDE DEF f, h
<1>2. Total(f) \in Int /\ Total(h) = Total(f) + h[p]
  BY <1>1, TotalGrows
<1> QED BY <1>1, <1>2 DEF Deposits, f, h

LEMMA AmountsGrow ==
  ASSUME NEW R, IsFiniteSet(R), NEW r, r \notin R, \A i \in R \cup {r} : i.amount \in Int
  PROVE  AmountsOf(R) \in Int /\ AmountsOf(R \cup {r}) = AmountsOf(R) + r.amount
<1> DEFINE f == [i \in R |-> i.amount]
           h == [i \in R \cup {r} |-> i.amount]
<1>1. /\ DOMAIN f = R /\ DOMAIN h = R \cup {r} /\ h[r] = r.amount /\ h[r] \in Int
      /\ \A i \in R : f[i] \in Int /\ h[i] = f[i]
  OBVIOUS
<1> HIDE DEF f, h
<1>2. Total(f) \in Int /\ Total(h) = Total(f) + h[r]
  BY <1>1, TotalGrows
<1> QED BY <1>1, <1>2 DEF AmountsOf, f, h

LEMMA RepaidGrows ==
  ASSUME NEW R, IsFiniteSet(R), NEW r, r \notin R, \A i \in R \cup {r} : i.repaid \in Int
  PROVE  RepaidBy(R) \in Int /\ RepaidBy(R \cup {r}) = RepaidBy(R) + r.repaid
<1> DEFINE f == [i \in R |-> i.repaid]
           h == [i \in R \cup {r} |-> i.repaid]
<1>1. /\ DOMAIN f = R /\ DOMAIN h = R \cup {r} /\ h[r] = r.repaid /\ h[r] \in Int
      /\ \A i \in R : f[i] \in Int /\ h[i] = f[i]
  OBVIOUS
<1> HIDE DEF f, h
<1>2. Total(f) \in Int /\ Total(h) = Total(f) + h[r]
  BY <1>1, TotalGrows
<1> QED BY <1>1, <1>2 DEF RepaidBy, f, h

LEMMA CostGrows ==
  ASSUME NEW R, IsFiniteSet(R), NEW r, r \notin R, \A i \in R \cup {r} : i.amount + i.repaid \in Int
  PROVE  CostOf(R) \in Int /\ CostOf(R \cup {r}) = CostOf(R) + (r.amount + r.repaid)
<1> DEFINE f == [i \in R |-> i.amount + i.repaid]
           h == [i \in R \cup {r} |-> i.amount + i.repaid]
<1>1. /\ DOMAIN f = R /\ DOMAIN h = R \cup {r} /\ h[r] = r.amount + r.repaid /\ h[r] \in Int
      /\ \A i \in R : f[i] \in Int /\ h[i] = f[i]
  OBVIOUS
<1> HIDE DEF f, h
<1>2. Total(f) \in Int /\ Total(h) = Total(f) + h[r]
  BY <1>1, TotalGrows
<1> QED BY <1>1, <1>2 DEF CostOf, f, h

(* Nothing adds up to nothing. *)
LEMMA NothingAddsUp ==
  /\ Deposits({}) = 0 /\ AmountsOf({}) = 0 /\ RepaidBy({}) = 0 /\ CostOf({}) = 0
  /\ \A g : Legs({}, g) = 0
<1>1. ASSUME NEW f, DOMAIN f = {} PROVE Total(f) = 0
  BY <1>1, TotalOfZeros, FS_EmptySet
<1> QED BY <1>1 DEF Legs, Deposits, AmountsOf, RepaidBy, CostOf

(* A row more keeps the types of the ledger. *)
LEMMA RowTypes ==
  ASSUME BookTypes, LedgerTypes, at' # "deposits", NEW e \in events, NEW status, NEW booked, NEW settled,
         NEW row, row = NewRow(e, status, booked, settled), rows' = rows \cup {row}, row \notin rows,
         NEW posting, posting = NewPosting(e, booked),
         ledger' = ledger \/ ledger' = ledger \cup {posting}
  PROVE  LedgerTypes'
<1>1. IsMovement(e, DOMAIN accounts)
  BY DEF BookTypes
<1>2. /\ IsFiniteSet(rows') /\ Cardinality(rows) \in Nat /\ Cardinality(rows') = Cardinality(rows) + 1
  BY FS_AddElement, FS_CardinalityType DEF LedgerTypes
<1>3. row.id = Cardinality(rows) + 1 /\ row.amount = Signed(e) /\ row.repaid = e.repaid /\ row.installment = e.installment
  BY DEF NewRow
<1>4. Signed(e) \in Int /\ e.repaid \in Int /\ e.installment \in Nat
  BY <1>1 DEF IsMovement, Signed
<1>5. \A r \in rows' : /\ r.id \in Nat /\ r.id <= Cardinality(rows') /\ r.amount \in Int /\ r.repaid \in Int
                       /\ r.installment \in Nat
  BY <1>2, <1>3, <1>4 DEF LedgerTypes
<1>6. /\ posting.source = Cardinality(rows) + 1 /\ posting.deposits \in Int
      /\ Leg(posting, "loans") \in Int /\ Leg(posting, "interest") \in Int
      /\ posting.deposits + Total(posting.others) = 0
  <2>1. posting.source = Cardinality(rows) + 1 /\ posting.deposits = - Signed(e) /\ posting.deposits + Total(posting.others) = 0
    BY <1>1, PostingBalances
  <2>2. Leg(posting, "loans") = (IF e.kind # "loan" THEN 0 ELSE IF e.debit THEN - e.repaid ELSE Signed(e))
    BY <1>1, PostingBalances
  <2>3. Leg(posting, "interest") = (IF e.kind = "loan" /\ e.debit THEN Signed(e) + e.repaid ELSE 0)
    BY <1>1, PostingBalances
  <2> QED BY <1>4, <2>1, <2>2, <2>3
<1>7. IsFiniteSet(ledger')
  <2>1. IsFiniteSet(ledger) /\ IsFiniteSet(ledger \cup {posting})
    BY FS_AddElement DEF LedgerTypes
  <2> QED BY <2>1
<1>8. \A p \in ledger' : /\ p.source \in Nat /\ p.source <= Cardinality(rows') /\ p.deposits \in Int
                         /\ Leg(p, "loans") \in Int /\ Leg(p, "interest") \in Int
                         /\ p.deposits + Total(p.others) = 0
  BY <1>2, <1>6 DEF LedgerTypes
<1> QED BY <1>2, <1>5, <1>7, <1>8 DEF LedgerTypes

(* What a movement posts moves the sums of the rows and of the ledger       *)
(* together.                                                               *)
LEMMA PostedKeepsBooks ==
  ASSUME BookTypes, LedgerInv, NEW e \in events, NEW status, NEW booked, NEW settled,
         NEW row, row = NewRow(e, status, booked, settled), row \notin rows,
         NEW posting, posting = NewPosting(e, booked), posting \notin ledger,
         Posted' = Posted \cup {row}, ledger' = ledger \cup {posting},
         accounts' = [accounts EXCEPT ![e.account].balance = @ + Signed(e)]
  PROVE  BooksHeld' /\ BooksAdd'
<1>1. IsMovement(e, DOMAIN accounts)
  BY DEF BookTypes
<1>2. /\ row.id = Cardinality(rows) + 1 /\ row.amount = Signed(e) /\ row.repaid = e.repaid
      /\ row.installment = e.installment /\ row.kind = e.kind /\ row.account = e.account
  BY DEF NewRow
<1>3. PICK amount \in Int, repaid \in Nat : amount = Signed(e) /\ repaid = e.repaid
  BY <1>1 DEF IsMovement, Signed
<1>4. posting.deposits = - amount /\ posting.account = e.account /\ posting.source = Cardinality(rows) + 1
  BY <1>1, <1>3, PostingBalances
<1>5. Leg(posting, "loans") = (IF e.kind # "loan" THEN 0 ELSE IF e.debit THEN - repaid ELSE amount)
  BY <1>1, <1>3, PostingBalances
<1>6. Leg(posting, "interest") = (IF e.kind = "loan" /\ e.debit THEN amount + repaid ELSE 0)
  BY <1>1, <1>3, PostingBalances
<1>7. e.installment \in Nat /\ (e.installment > 0 <=> e.kind = "loan" /\ e.debit) /\ e.debit \in BOOLEAN
  BY <1>1 DEF IsMovement
<1>8. /\ IsFiniteSet(Posted) /\ row \notin Posted
      /\ \A r \in Posted \cup {row} : r.amount \in Int /\ r.repaid \in Int /\ r.installment \in Nat
  <2>1. Posted \subseteq rows
    BY DEF Posted
  <2>2. IsFiniteSet(Posted)
    BY <2>1, FS_Subset DEF LedgerInv, LedgerTypes
  <2> QED BY <1>2, <1>3, <1>7, <2>1, <2>2 DEF LedgerInv, LedgerTypes
<1>9. IsFiniteSet(Lent) /\ IsFiniteSet(Paid) /\ Lent \subseteq Posted /\ Paid \subseteq Posted
  <2>1. Lent \subseteq Posted /\ Paid \subseteq Posted
    BY DEF Lent, Paid
  <2> QED BY <1>8, <2>1, FS_Subset
<1>10. Legs(ledger, "loans") \in Int /\ Legs(ledger', "loans") = Legs(ledger, "loans") + Leg(posting, "loans")
  <2>1. \A p \in ledger \cup {posting} : Leg(p, "loans") \in Int
    BY <1>3, <1>5 DEF LedgerInv, LedgerTypes
  <2> QED BY <2>1, LegsGrow DEF LedgerInv, LedgerTypes
<1>11. Legs(ledger, "interest") \in Int /\ Legs(ledger', "interest") = Legs(ledger, "interest") + Leg(posting, "interest")
  <2>1. \A p \in ledger \cup {posting} : Leg(p, "interest") \in Int
    BY <1>3, <1>6 DEF LedgerInv, LedgerTypes
  <2> QED BY <2>1, LegsGrow DEF LedgerInv, LedgerTypes
<1>12. AmountsOf(Lent) \in Int /\ RepaidBy(Paid) \in Int /\ CostOf(Paid) \in Int
  <2>1. \A r \in Lent \cup {row} : r.amount \in Int
    BY <1>8, <1>9
  <2>2. \A r \in Paid \cup {row} : r.repaid \in Int /\ r.amount + r.repaid \in Int
    BY <1>8, <1>9
  <2>3. row \notin Lent /\ row \notin Paid
    BY <1>8, <1>9
  <2> QED BY <1>9, <2>1, <2>2, <2>3, AmountsGrow, RepaidGrows, CostGrows
<1>13. /\ Legs(ledger', "loans") = AmountsOf(Lent') - RepaidBy(Paid')
       /\ Legs(ledger', "interest") = CostOf(Paid')
  <2>0. /\ Legs(ledger, "loans") = AmountsOf(Lent) - RepaidBy(Paid)
        /\ Legs(ledger, "interest") = CostOf(Paid)
    BY DEF LedgerInv, BooksHeld
  <2>1. CASE e.kind = "loan" /\ e.debit
    <3>1. row.installment > 0
      BY <1>2, <1>7, <2>1
    <3>2. Paid' = Paid \cup {row} /\ Lent' = Lent
      BY <1>8, <3>1 DEF Paid, Lent
    <3>3. row \notin Paid /\ \A r \in Paid \cup {row} : r.repaid \in Int /\ r.amount + r.repaid \in Int
      BY <1>8, <1>9
    <3>4. RepaidBy(Paid') = RepaidBy(Paid) + row.repaid
      BY <1>9, <3>2, <3>3, RepaidGrows
    <3>5. CostOf(Paid') = CostOf(Paid) + (row.amount + row.repaid)
      BY <1>9, <3>2, <3>3, CostGrows
    <3>6. row.amount = amount /\ row.repaid = repaid
      BY <1>2, <1>3
    <3> QED BY <1>5, <1>6, <1>10, <1>11, <1>12, <2>0, <2>1, <3>2, <3>4, <3>5, <3>6
  <2>2. CASE e.kind = "loan" /\ ~ e.debit
    <3>1. ~ (row.installment > 0) /\ row.kind = "loan"
      BY <1>2, <1>7, <2>2
    <3>2. Paid' = Paid /\ Lent' = Lent \cup {row}
      BY <1>8, <3>1 DEF Paid, Lent
    <3>3. row \notin Lent /\ \A r \in Lent \cup {row} : r.amount \in Int
      BY <1>8, <1>9
    <3>4. AmountsOf(Lent') = AmountsOf(Lent) + row.amount
      BY <1>9, <3>2, <3>3, AmountsGrow
    <3> QED BY <1>2, <1>3, <1>5, <1>6, <1>10, <1>11, <1>12, <2>0, <2>2, <3>2, <3>4
  <2>3. CASE e.kind # "loan"
    <3>1. ~ (row.installment > 0) /\ row.kind # "loan"
      BY <1>2, <1>7, <2>3
    <3>2. Paid' = Paid /\ Lent' = Lent
      BY <3>1 DEF Paid, Lent
    <3> QED BY <1>5, <1>6, <1>10, <1>11, <1>12, <2>0, <2>3, <3>2
  <2> QED BY <2>1, <2>2, <2>3
<1>14. ASSUME NEW a \in DOMAIN accounts
       PROVE  /\ Deposits({p \in ledger' : p.account = a}) = - accounts'[a].balance
              /\ AmountsOf({r \in Posted' : r.account = a}) = accounts'[a].balance
  <2> DEFINE L == {p \in ledger : p.account = a}
             R == {r \in Posted : r.account = a}
  <2>0. PICK balance \in Int : balance = accounts[a].balance
    BY DEF BookTypes, AccountType
  <2>1. Deposits(L) = - balance /\ AmountsOf(R) = balance
    BY <2>0 DEF LedgerInv, BooksHeld, BooksAdd
  <2>2. CASE a = e.account
    <3>1. accounts'[a].balance = balance + amount
      <4>1. accounts \in [DOMAIN accounts -> AccountType]
        BY DEF BookTypes
      <4> QED BY <1>3, <2>0, <2>2, <4>1 DEF AccountType
    <3>2. {p \in ledger' : p.account = a} = L \cup {posting} /\ {r \in Posted' : r.account = a} = R \cup {row}
      BY <1>2, <1>4, <2>2
    <3>3. IsFiniteSet(L) /\ posting \notin L /\ \A p \in L \cup {posting} : p.deposits \in Int
      BY <1>4, FS_Subset DEF LedgerInv, LedgerTypes
    <3>4. IsFiniteSet(R) /\ row \notin R /\ \A r \in R \cup {row} : r.amount \in Int
      BY <1>8, FS_Subset
    <3> HIDE DEF L, R
    <3>5. Deposits(L \cup {posting}) = Deposits(L) + posting.deposits
      BY <3>3, DepositsGrow
    <3>6. AmountsOf(R \cup {row}) = AmountsOf(R) + row.amount
      BY <3>4, AmountsGrow
    <3>7. row.amount = amount
      BY <1>2, <1>3
    <3>8. Deposits(L) + posting.deposits = - accounts'[a].balance /\ AmountsOf(R) + row.amount = accounts'[a].balance
      BY <1>4, <2>1, <3>1, <3>7
    <3>9. Deposits({p \in ledger' : p.account = a}) = - accounts'[a].balance
      BY <3>2, <3>5, <3>8
    <3> QED BY <3>2, <3>6, <3>8, <3>9
  <2>3. CASE a # e.account
    <3>1. accounts'[a] = accounts[a]
      BY <2>3 DEF BookTypes
    <3>2. {p \in ledger' : p.account = a} = L /\ {r \in Posted' : r.account = a} = R
      BY <1>2, <1>4, <2>3
    <3> QED BY <2>0, <2>1, <3>1, <3>2
  <2> QED BY <2>2, <2>3
<1>15. DOMAIN accounts' = DOMAIN accounts
  BY DEF BookTypes
<1>16. \A r \in Posted' : \E p \in ledger' : p.source = r.id
  BY <1>2, <1>4 DEF LedgerInv, BooksAdd
<1>17. BooksHeld'
  BY <1>13, <1>14, <1>15 DEF BooksHeld
<1>18. BooksAdd'
  BY <1>14, <1>15, <1>16 DEF BooksAdd
<1> QED BY <1>17, <1>18

LEMMA EmitLedger ==
  ASSUME BookTypes, LedgerInv, Emit
  PROVE  LedgerInv'
<1>0. PICK e \in events : \E status, booked, settled : Write(e, status, booked, settled)
  BY EmitDoes
<1>1. PICK status, booked, settled : Write(e, status, booked, settled)
  BY <1>0
<1>2. at' # "deposits"
  BY EmitDoes
<1>3. PICK row, posting : row = NewRow(e, status, booked, settled) /\ posting = NewPosting(e, booked)
  OBVIOUS
<1>4. /\ rows' = rows \cup {row} /\ row \notin rows /\ posting \notin ledger
      /\ IF IsPosted(status)
         THEN /\ Posted' = Posted \cup {row} /\ ledger' = ledger \cup {posting}
              /\ accounts' = [accounts EXCEPT ![e.account].balance = @ + Signed(e)]
         ELSE Posted' = Posted /\ UNCHANGED <<accounts, ledger>>
  BY <1>1, <1>3, WriteDoes DEF LedgerInv
<1>5. LedgerTypes'
  <2>1. ledger' = ledger \/ ledger' = ledger \cup {posting}
    BY <1>4
  <2>2. LedgerTypes /\ rows' = rows \cup {row} /\ row \notin rows
    BY <1>4 DEF LedgerInv
  <2> QED BY <1>2, <1>3, <2>1, <2>2, RowTypes
<1>6. CASE IsPosted(status)
  <2>1. /\ row \notin rows /\ posting \notin ledger /\ Posted' = Posted \cup {row} /\ ledger' = ledger \cup {posting}
        /\ accounts' = [accounts EXCEPT ![e.account].balance = @ + Signed(e)]
    BY <1>4, <1>6
  <2>2. BooksHeld' /\ BooksAdd'
    BY <1>3, <2>1, PostedKeepsBooks
  <2> QED BY <1>5, <2>2 DEF LedgerInv
<1>7. CASE ~ IsPosted(status)
  <2>1. Posted' = Posted /\ accounts' = accounts /\ ledger' = ledger
    BY <1>4, <1>7
  <2>2. Paid' = Paid /\ Lent' = Lent
    BY <2>1 DEF Paid, Lent
  <2>3. BooksHeld' /\ BooksAdd'
    BY <2>1, <2>2 DEF LedgerInv, BooksHeld, BooksAdd
  <2> QED BY <1>5, <2>3 DEF LedgerInv
<1> QED BY <1>6, <1>7

(* An account opens while nothing is posted yet, with nothing on it. *)
LEMMA OpenAccountLedger ==
  ASSUME BookTypes, LedgerInv, OpenAccount
  PROVE  LedgerInv'
<1>1. at = "deposits" /\ at' = at /\ rows' = rows /\ ledger' = ledger
  BY DEF OpenAccount, InTurn, Passes, book
<1>2. rows = {} /\ ledger = {}
  BY <1>1 DEF LedgerInv, LedgerTypes
<1>3. Posted' = {} /\ Posted = {}
  BY <1>1, <1>2 DEF Posted
<1>4. Paid' = {} /\ Lent' = {} /\ Paid = {} /\ Lent = {}
  BY <1>3 DEF Paid, Lent
<1>5. \A a \in DOMAIN accounts' : accounts'[a].balance = 0
  <2>1. \A a \in DOMAIN accounts : accounts[a].balance = 0
    <3>1. \A a \in DOMAIN accounts : accounts[a].balance \in Int
      BY DEF BookTypes, AccountType
    <3>2. \A a : {p \in {} : p.account = a} = {}
      OBVIOUS
    <3>3. \A a \in DOMAIN accounts : AmountsOf({r \in Posted : r.account = a}) = 0
      BY <1>3, <3>2, NothingAddsUp
    <3> QED BY <3>3 DEF LedgerInv, BooksAdd
  <2>2. CASE UNCHANGED accounts
    BY <2>1, <2>2
  <2>3. ASSUME NEW opened, NEW limit, NEW deposit, NEW salary,
               accounts' = With(accounts, turn,
                 [opened |-> opened, closed |-> Never, status |-> "active", limit |-> limit,
                  opening |-> deposit, salary |-> salary, balance |-> 0])
        PROVE  \A a \in DOMAIN accounts' : accounts'[a].balance = 0
    <3> DEFINE new == [opened |-> opened, closed |-> Never, status |-> "active", limit |-> limit,
                       opening |-> deposit, salary |-> salary, balance |-> 0]
    <3>1. new.balance = 0
      OBVIOUS
    <3>2. accounts' = With(accounts, turn, new)
      BY <2>3
    <3> HIDE DEF new
    <3> QED BY <2>1, <3>1, <3>2 DEF With
  <2> QED BY <2>2, <2>3 DEF OpenAccount
<1>6. LedgerTypes'
  BY <1>1, <1>2 DEF LedgerInv, LedgerTypes
<1>7. BooksHeld'
  <2>1. \A a : {p \in ledger' : p.account = a} = {}
    BY <1>1, <1>2
  <2> QED BY <1>1, <1>2, <1>4, <1>5, <2>1, NothingAddsUp DEF BooksHeld
<1>8. BooksAdd'
  <2>1. \A a : {r \in Posted' : r.account = a} = {}
    BY <1>3
  <2> QED BY <1>3, <1>5, <2>1, NothingAddsUp DEF BooksAdd
<1> QED BY <1>6, <1>7, <1>8 DEF LedgerInv

LEMMA OtherLedger ==
  ASSUME LedgerInv, UNCHANGED <<rows, ledger>>, at' = "deposits" => at = "deposits",
         DOMAIN accounts' = DOMAIN accounts, \A a \in DOMAIN accounts : accounts'[a].balance = accounts[a].balance
  PROVE  LedgerInv'
<1>1. Posted' = Posted
  BY DEF Posted
<1>2. Paid' = Paid /\ Lent' = Lent
  BY <1>1 DEF Paid, Lent
<1>3. LedgerTypes'
  BY DEF LedgerInv, LedgerTypes
<1>4. BooksHeld'
  BY <1>2 DEF LedgerInv, BooksHeld
<1>5. BooksAdd'
  BY <1>1 DEF LedgerInv, BooksAdd
<1> QED BY <1>3, <1>4, <1>5 DEF LedgerInv

LEMMA LedgerKept ==
  ASSUME BookTypes, LedgerInv, [Next]_vars
  PROVE  LedgerInv'
<1>1. CASE OpenAccount
  BY <1>1, OpenAccountLedger
<1>2. CASE Emit
  BY <1>2, EmitLedger
<1>3. CASE Attrition
  <2>1. UNCHANGED <<at, book>> /\ DOMAIN accounts' = DOMAIN accounts
        /\ \A a \in DOMAIN accounts : accounts'[a].balance = accounts[a].balance
    BY <1>3, AttritionDoes
  <2> QED BY <2>1, OtherLedger DEF book
<1>4. CASE Lend \/ DrawMonth \/ EndDrawing
  <2>1. UNCHANGED <<rows, ledger, accounts>> /\ (at' = "deposits" => at = "deposits")
    BY <1>4 DEF Lend, DrawMonth, EndDrawing, InTurn, Passes, After, book
  <2> QED BY <2>1, OtherLedger
<1>5. CASE EndDeposits \/ EndLending \/ EndAttrition \/ EndMonth \/ Check \/ UNCHANGED vars
  <2>1. UNCHANGED <<rows, ledger, accounts>>
    BY <1>5, OtherTypes
  <2>2. at' = "deposits" => at = "deposits"
    BY <1>5 DEF EndDeposits, EndLending, EndAttrition, EndMonth, Check, After, vars
  <2> QED BY <2>1, <2>2, OtherLedger
<1> QED BY <1>1, <1>2, <1>3, <1>4, <1>5 DEF Next

LEMMA LedgerInit == Init => LedgerInv
<1> SUFFICES ASSUME Init PROVE LedgerInv
  OBVIOUS
<1>1. rows = {} /\ ledger = {} /\ DOMAIN accounts = {}
  <2>1. DOMAIN <<>> = {}
    OBVIOUS
  <2> QED BY <2>1 DEF Init
<1>2. Posted = {}
  BY <1>1 DEF Posted
<1>3. Paid = {} /\ Lent = {}
  BY <1>2 DEF Paid, Lent
<1>4. LedgerTypes
  BY <1>1, FS_EmptySet DEF LedgerTypes
<1>5. BooksHeld /\ BooksAdd
  BY <1>1, <1>2, <1>3, NothingAddsUp DEF BooksHeld, BooksAdd
<1> QED BY <1>4, <1>5 DEF LedgerInv

THEOREM LedgerInvCorrect == Spec => []LedgerInv
<1>1. BookTypes /\ LedgerInv /\ [Next]_vars => LedgerInv'
  BY LedgerKept
<1> QED BY LedgerInit, <1>1, BookTypesCorrect, PTL DEF Spec

(* The loans the ledger holds are the principal that moved, the interest is *)
(* what was paid above it, and the customers' deposits are their balances   *)
(* (BalanceFold and LedgerBuilder in entities/movements).                   *)
THEOREM LedgerHoldsTheBooksCorrect == Spec => []LedgerHoldsTheBooks
<1>1. LedgerInv => LedgerHoldsTheBooks
  BY BooksAreHeld DEF LedgerInv
<1> QED BY <1>1, LedgerInvCorrect, PTL

-----------------------------------------------------------------------------
(***************************************************************************)
(* The checks.                                                             *)
(***************************************************************************)
(* A finite set of numbers has a greatest. *)
LEMMA FiniteMax ==
  ASSUME NEW S, IsFiniteSet(S), S # {}, S \subseteq Int
  PROVE  Max(S) \in S /\ \A x \in S : x <= Max(S)
<1> DEFINE G == {T \in SUBSET S : T = {} \/ \E m \in T : \A x \in T : x <= m}
<1>1. {} \in G
  OBVIOUS
<1>2. ASSUME NEW T \in SUBSET S, T # {}, \A x \in T : T \ {x} \in G
      PROVE  T \in G
  <2>1. PICK x \in T : TRUE
    BY <1>2
  <2>2. CASE T \ {x} = {}
    <3>1. \A y \in T : y <= x
      BY <2>1, <2>2
    <3> QED BY <2>1, <3>1
  <2>3. ASSUME NEW m \in T \ {x}, \A y \in T \ {x} : y <= m PROVE T \in G
    <3>1. CASE x <= m
      BY <2>3, <3>1
    <3>2. CASE ~ (x <= m)
      <4>1. \A y \in T : y <= x
        BY <2>1, <2>3, <3>2
      <4> QED BY <2>1, <4>1
    <3> QED BY <3>1, <3>2
  <2> QED BY <1>2, <2>1, <2>2, <2>3
<1> HIDE DEF G
<1>3. S \in G
  BY <1>1, <1>2, FiniteInduction
<1>4. PICK m \in S : \A x \in S : x <= m
  BY <1>3 DEF G
<1>5. m \in S /\ \A x \in S : m >= x
  BY <1>4
<1> QED BY <1>5 DEF Max

(* The installments of a loan add up to the loan at least. *)
LEMMA InstallmentsAddUp ==
  ASSUME NEW principal \in Nat \ {0}, NEW term \in Nat \ {0}
  PROVE  LET plan == Schedule(principal, term)
         IN  Total([n \in 1 .. term |-> plan[n].due]) \in Int /\ Total([n \in 1 .. term |-> plan[n].due]) >= principal
<1> DEFINE plan == Schedule(principal, term)
           Dues(k) == [n \in 1 .. k |-> plan[n].due]
           Fits(k) == Total(Dues(k)) \in Int /\ Total(Dues(k)) >= principal - plan[k].open
           G == {k \in Nat : k <= term => Fits(k)}
<1>1. \A n \in 1 .. term : /\ plan[n].due \in Nat /\ plan[n - 1].open \in Nat /\ plan[n].open \in Nat
                           /\ plan[n].due >= plan[n - 1].open - plan[n].open
  BY ScheduleIsSound
<1>2. plan[0].open = principal /\ plan[term].open = 0
  BY ScheduleIsSound
<1> HIDE DEF plan
<1>3. 0 \in G
  <2>1. DOMAIN Dues(0) = {} /\ IsFiniteSet({})
    BY FS_EmptySet
  <2> HIDE DEF Dues
  <2>2. Total(Dues(0)) = 0
    BY <2>1, TotalOfZeros
  <2> QED BY <1>2, <2>2
<1>4. ASSUME NEW k \in Nat, k \in G PROVE k + 1 \in G
  <2>1. SUFFICES ASSUME k + 1 <= term PROVE Fits(k + 1)
    OBVIOUS
  <2>2. k <= term /\ k + 1 \in 1 .. term /\ (k + 1) - 1 = k
    BY <2>1
  <2>3. Fits(k)
    BY <1>4, <2>2
  <2>4. PICK before \in Nat, after \in Nat, due \in Nat :
          before = plan[k].open /\ after = plan[k + 1].open /\ due = plan[k + 1].due /\ due >= before - after
    BY <1>1, <2>2
  <2>5. /\ DOMAIN Dues(k) = 1 .. k /\ DOMAIN Dues(k + 1) = (1 .. k) \cup {k + 1} /\ Dues(k + 1)[k + 1] = due
        /\ \A i \in 1 .. k : Dues(k)[i] \in Int /\ Dues(k + 1)[i] = Dues(k)[i]
    BY <1>1, <2>2, <2>4
  <2>6. IsFiniteSet(1 .. k) /\ k + 1 \notin 1 .. k
    BY FS_Interval
  <2> HIDE DEF Dues
  <2>7. PICK f, h : f = Dues(k) /\ h = Dues(k + 1)
    OBVIOUS
  <2>8. Total(h) = Total(f) + due
    <3>1. /\ IsFiniteSet(DOMAIN f) /\ k + 1 \notin DOMAIN f /\ DOMAIN h = DOMAIN f \cup {k + 1} /\ h[k + 1] = due
          /\ h[k + 1] \in Int /\ \A i \in DOMAIN f : f[i] \in Int /\ h[i] = f[i]
      BY <2>4, <2>5, <2>6, <2>7
    <3>2. PICK x : x = k + 1
      OBVIOUS
    <3>3. Total(h) = Total(f) + h[x]
      BY <3>1, <3>2, TotalGrows
    <3> QED BY <3>1, <3>2, <3>3
  <2>9. Total(Dues(k + 1)) = Total(Dues(k)) + due
    BY <2>7, <2>8
  <2> QED BY <2>3, <2>4, <2>9
<1> HIDE DEF G
<1>5. Nat \subseteq G
  BY <1>3, <1>4, CountingUp
<1>6. Fits(term)
  BY <1>5 DEF G
<1> QED BY <1>2, <1>6 DEF plan

(* A movement or a row lies in the window of its account, in the months     *)
(* that are written and, made with a card, in the validity of the card.     *)
InTheWindow(x) ==
  /\ x.account \in DOMAIN accounts /\ x.day \in Int
  /\ accounts[x.account].opened =< x.day /\ x.day =< accounts[x.account].closed
  /\ x.day =< Anchor /\ x.day < (month + 1) * MonthDays
  /\ x.kind = "card" => /\ x.account \in DOMAIN cards
                        /\ cards[x.account].issued =< x.day /\ x.day < cards[x.account].expiry

AccountsStay ==
  /\ \A a \in DOMAIN accounts :
       /\ accounts[a].closed =< Never
       /\ accounts[a].closed = Never \/ MayClose(a, accounts[a].closed)
  /\ at = "deposits" => \A a \in DOMAIN accounts : a < turn
  /\ at \in {"deposits", "lending"} => \A a \in DOMAIN accounts : accounts[a].closed = Never

CardsCome ==
  \A a \in DOMAIN cards :
    /\ a \in DOMAIN accounts
    /\ cards[a].issued \in Int /\ cards[a].expiry \in Int /\ cards[a].until \in Int
    /\ cards[a].until =< cards[a].expiry /\ cards[a].issued =< Anchor
    /\ accounts[a].opened =< cards[a].issued /\ cards[a].issued =< accounts[a].opened + CoolingOff

LoansLast ==
  \A a \in DOMAIN loans :
    /\ accounts[a].opened =< loans[a].disbursed /\ loans[a].disbursed =< Anchor
    /\ \A n \in 1 .. loans[a].term : loans[a].disbursed =< loans[a].paid[n]

RowsInTime ==
  /\ \A e \in events : InTheWindow(e)
  /\ \A r \in rows :
       /\ InTheWindow(r) /\ r.at \in Int
       /\ r.booked \in Int /\ (r.booked =< AnchorEnd \/ r.booked = NotYet \/ r.booked = r.at)
       /\ r.settled \in Int /\ (r.settled =< AnchorEnd \/ r.settled = NotYet)
  /\ at \in {"deposits", "lending", "attrition"} => events = {}
  /\ at \in {"deposits", "lending"} => rows = {}
  /\ at = "attrition" => \A r \in rows : r.day < month * MonthDays

AlertsFollow ==
  \A f \in alerts :
    /\ f.at \in Int /\ f.at =< AnchorEnd
    /\ f.closed \in Int /\ (f.closed = NotYet \/ f.closed =< AnchorEnd)
    /\ \E r \in rows : r.id = f.source /\ r.kind = "card" /\ (r.at =< AnchorEnd => r.at =< f.at)

CheckInv == AccountsStay /\ CardsCome /\ LoansLast /\ RowsInTime /\ AlertsFollow

(* No cash of a loan comes later than its account is held for. *)
LEMMA HoldCovers ==
  ASSUME BookTypes, NEW a \in DOMAIN loans
  PROVE  /\ Hold(a) \in Int /\ loans[a].disbursed =< Hold(a)
         /\ \A n \in 1 .. loans[a].term : loans[a].paid[n] # Never => loans[a].paid[n] =< Hold(a)
<1> DEFINE loan == loans[a]
           f == [n \in 1 .. loan.term |-> loan.paid[n]]
           S == {loan.disbursed} \cup ({f[n] : n \in DOMAIN f} \ {Never})
<1>1. /\ loan.disbursed \in Int /\ loan.term \in Nat /\ loan.paid \in [1 .. loan.term -> History .. Never]
  BY BookAssumption DEF BookTypes, IsLoan
<1>2. DOMAIN f = 1 .. loan.term /\ \A n \in 1 .. loan.term : f[n] = loan.paid[n] /\ f[n] \in Int
  BY <1>1
<1>3. Hold(a) = Max(S)
  <2>1. {f[n] : n \in DOMAIN f} = {loan.paid[n] : n \in 1 .. loan.term}
    BY <1>2
  <2> QED BY <2>1 DEF Hold
<1>4. IsFiniteSet(DOMAIN f)
  <2>1. loan.term \in Int /\ 1 \in Int
    BY <1>1
  <2> HIDE DEF loan, f
  <2> QED BY <1>2, <2>1, FS_Interval
<1> HIDE DEF f
<1>5. IsFiniteSet({f[n] : n \in DOMAIN f})
  BY <1>4, FiniteImage
<1>6. IsFiniteSet({f[n] : n \in DOMAIN f} \ {Never}) /\ IsFiniteSet({loan.disbursed})
  BY <1>5, FS_Subset, FS_Singleton
<1>7. IsFiniteSet(S)
  BY <1>6, FS_Union
<1>8. S # {} /\ S \subseteq Int
  BY <1>1, <1>2
<1>9. loan.disbursed \in S /\ \A n \in 1 .. loan.term : loan.paid[n] # Never => loan.paid[n] \in S
  BY <1>2
<1> HIDE DEF S
<1>10. Max(S) \in S /\ \A x \in S : x <= Max(S)
  BY <1>7, <1>8, FiniteMax
<1> QED BY <1>3, <1>8, <1>9, <1>10

LEMMA ChecksInit == Init => CheckInv
<1> SUFFICES ASSUME Init PROVE CheckInv
  OBVIOUS
<1>1. DOMAIN accounts = {} /\ DOMAIN cards = {} /\ DOMAIN loans = {}
  <2>1. DOMAIN <<>> = {}
    OBVIOUS
  <2> QED BY <2>1 DEF Init
<1>2. events = {} /\ rows = {} /\ alerts = {}
  BY DEF Init
<1> QED BY <1>1, <1>2 DEF CheckInv, AccountsStay, CardsCome, LoansLast, RowsInTime, AlertsFollow

(* The card of an account is issued while the account cools off. *)
LEMMA CardIsInTime ==
  ASSUME CardsComeInTime, NEW opened \in History .. Anchor, NEW issued \in {opened + d : d \in Lags} \cap 0 .. Anchor,
         NEW until \in UsableUntil(issued), NEW card, card = Card(issued, until)
  PROVE  /\ card.issued \in Int /\ card.expiry \in Int /\ card.until \in Int
         /\ card.until =< card.expiry /\ card.issued =< Anchor
         /\ opened =< card.issued /\ card.issued =< opened + CoolingOff
<1>1. card.issued = issued /\ card.expiry = issued + Validity /\ card.until = until
  BY DEF Card
<1>2. PICK d \in Lags : issued = opened + d /\ issued =< Anchor
  OBVIOUS
<1>3. d \in Nat /\ d =< CoolingOff /\ Validity \in Int /\ opened \in Int /\ issued \in Int
  BY <1>2, BookAssumption DEF CardsComeInTime
<1>4. until \in Int /\ until =< issued + Validity
  <2>1. PICK x \in {Never + Validity} \cup (IF issued < Anchor THEN issued + 1 .. Anchor ELSE {issued}) :
          until = Min({x, issued + Validity})
    BY DEF UsableUntil
  <2>2. x \in Int
    <3>1. Never + Validity \in Int
      BY <1>3, BookAssumption DEF Never
    <3> QED BY <1>3, <2>1, <3>1
  <2>3. until = IF x <= issued + Validity THEN x ELSE issued + Validity
    <3>1. issued + Validity \in Int
      BY <1>3
    <3> QED BY <2>1, <2>2, <3>1, LeastOfTwo
  <2> QED BY <1>3, <2>2, <2>3
<1> QED BY <1>1, <1>2, <1>3, <1>4, BookAssumption

LEMMA OpenAccountChecks ==
  ASSUME CardsComeInTime, BookTypes, CheckInv, OpenAccount
  PROVE  CheckInv'
<1> DEFINE Opened ==
             /\ DOMAIN accounts \subseteq DOMAIN accounts'
             /\ \A a \in DOMAIN accounts : accounts'[a] = accounts[a]
             /\ \A a \in DOMAIN accounts' : accounts'[a].closed = Never /\ (a \in DOMAIN accounts \/ a = turn)
             /\ \A a \in DOMAIN cards' :
                  IF a = turn
                  THEN /\ a \in DOMAIN accounts'
                       /\ cards'[a].issued \in Int /\ cards'[a].expiry \in Int /\ cards'[a].until \in Int
                       /\ cards'[a].until =< cards'[a].expiry /\ cards'[a].issued =< Anchor
                       /\ accounts'[a].opened =< cards'[a].issued /\ cards'[a].issued =< accounts'[a].opened + CoolingOff
                  ELSE a \in DOMAIN cards /\ cards'[a] = cards[a]
<1>1. /\ at = "deposits" /\ at' = at /\ turn' = turn + 1 /\ month' = month
      /\ UNCHANGED <<loans, events, rows, ledger, alerts>>
  BY DEF OpenAccount, InTurn, Passes, book
<1>2. /\ events = {} /\ rows = {} /\ turn \notin DOMAIN accounts /\ turn \notin DOMAIN cards /\ turn \in Int
      /\ \A a \in DOMAIN accounts : a < turn /\ a \in Int /\ accounts[a].closed = Never
  BY <1>1 DEF CheckInv, RowsInTime, AccountsStay, CardsCome, BookTypes
<1>3. Opened
  <2>1. CASE UNCHANGED <<accounts, cards>>
    BY <1>2, <2>1
  <2>2. ASSUME NEW opened \in History .. Anchor, NEW limit, NEW deposit, NEW salary,
               accounts' = With(accounts, turn,
                 [opened |-> opened, closed |-> Never, status |-> "active", limit |-> limit,
                  opening |-> deposit, salary |-> salary, balance |-> 0]),
               \/ UNCHANGED cards
               \/ \E issued \in {opened + d : d \in Lags} \cap 0 .. Anchor :
                    \E until \in UsableUntil(issued) : cards' = With(cards, turn, Card(issued, until))
        PROVE  Opened
    <3> DEFINE new == [opened |-> opened, closed |-> Never, status |-> "active", limit |-> limit,
                       opening |-> deposit, salary |-> salary, balance |-> 0]
    <3>1. new.opened = opened /\ new.closed = Never
      OBVIOUS
    <3>2. accounts' = With(accounts, turn, new)
      BY <2>2
    <3> HIDE DEF new
    <3>3. /\ DOMAIN accounts' = DOMAIN accounts \cup {turn} /\ accounts'[turn] = new
          /\ \A a \in DOMAIN accounts : accounts'[a] = accounts[a]
      BY <1>2, <3>2 DEF With
    <3>4. CASE UNCHANGED cards
      BY <1>2, <3>1, <3>3, <3>4
    <3>5. ASSUME NEW issued \in {opened + d : d \in Lags} \cap 0 .. Anchor, NEW until \in UsableUntil(issued),
                 cards' = With(cards, turn, Card(issued, until))
          PROVE  Opened
      <4>1. PICK card : card = Card(issued, until)
        OBVIOUS
      <4>2. /\ card.issued \in Int /\ card.expiry \in Int /\ card.until \in Int
            /\ card.until =< card.expiry /\ card.issued =< Anchor
            /\ opened =< card.issued /\ card.issued =< opened + CoolingOff
        BY <4>1, CardIsInTime
      <4>3. DOMAIN cards' = DOMAIN cards \cup {turn} /\ cards'[turn] = card /\ \A a \in DOMAIN cards : cards'[a] = cards[a]
        BY <1>2, <3>5, <4>1 DEF With
      <4> QED BY <1>2, <3>1, <3>3, <4>2, <4>3
    <3> QED BY <2>2, <3>4, <3>5
  <2> QED BY <2>1, <2>2 DEF OpenAccount
<1>4. AccountsStay'
  BY <1>1, <1>2, <1>3, BookAssumption DEF AccountsStay, Never
<1>5. CardsCome'
  <2>1. ASSUME NEW a \in DOMAIN cards', a # turn
        PROVE  /\ a \in DOMAIN accounts'
               /\ cards'[a].issued \in Int /\ cards'[a].expiry \in Int /\ cards'[a].until \in Int
               /\ cards'[a].until =< cards'[a].expiry /\ cards'[a].issued =< Anchor
               /\ accounts'[a].opened =< cards'[a].issued /\ cards'[a].issued =< accounts'[a].opened + CoolingOff
    <3>1. a \in DOMAIN cards /\ cards'[a] = cards[a]
      BY <1>3, <2>1
    <3>2. a \in DOMAIN accounts /\ accounts'[a] = accounts[a] /\ a \in DOMAIN accounts'
      BY <1>3, <3>1 DEF CheckInv, CardsCome
    <3> QED BY <3>1, <3>2 DEF CheckInv, CardsCome
  <2> QED BY <1>3, <2>1 DEF CardsCome
<1>6. LoansLast'
  BY <1>1, <1>3 DEF CheckInv, LoansLast, BookTypes
<1>7. RowsInTime'
  BY <1>1, <1>2 DEF RowsInTime
<1>8. AlertsFollow'
  BY <1>1 DEF CheckInv, AlertsFollow
<1> QED BY <1>4, <1>5, <1>6, <1>7, <1>8 DEF CheckInv

(* An installment is not paid before its loan is lent. *)
LEMMA PaidAfterLent ==
  ASSUME EarlyWithinAMonth, NEW disbursed \in Int, disbursed =< Anchor, NEW n \in Nat \ {0}, NEW stopped,
         NEW day \in PaidDays(Due(disbursed, n), stopped)
  PROVE  disbursed =< day
<1>1. PICK due \in Int : due = Due(disbursed, n) /\ due >= disbursed + MonthDays
  <2>1. n * MonthDays \in Int /\ n * MonthDays >= MonthDays
    <3>1. MonthDays * 1 <= MonthDays * n
      BY BookAssumption, Products
    <3> QED BY <3>1, BookAssumption
  <2>2. PICK k \in Int : k = n * MonthDays /\ k >= MonthDays
    BY <2>1
  <2> QED BY <2>2, BookAssumption DEF Due
<1>2. CASE due > Anchor
  BY <1>1, <1>2, BookAssumption DEF PaidDays, Never
<1>3. CASE ~ (due > Anchor)
  <2>1. PICK d \in IF stopped THEN {Never} \cup {due + d : d \in CureDays}
                   ELSE {due - d : d \in EarlyDays} \cup {due + d : d \in LateDays} : day = Min({d, Never})
    BY <1>1, <1>3 DEF PaidDays
  <2>2. d \in Int /\ disbursed =< d
    <3>1. CASE stopped
      <4>1. d = Never \/ \E c \in CureDays : d = due + c
        BY <2>1, <3>1
      <4> QED BY <1>1, <4>1, BookAssumption DEF Never
    <3>2. CASE ~ stopped
      <4>1. (\E e \in EarlyDays : d = due - e) \/ (\E l \in LateDays : d = due + l)
        BY <2>1, <3>2
      <4>2. \A e \in EarlyDays : e \in Nat /\ e =< MonthDays
        BY BookAssumption DEF EarlyWithinAMonth
      <4>3. \A l \in LateDays : l \in Nat
        BY BookAssumption
      <4> QED BY <1>1, <4>1, <4>2, <4>3, BookAssumption
    <3> QED BY <3>1, <3>2
  <2>3. Never \in Int /\ disbursed =< Never
    BY BookAssumption DEF Never
  <2>4. day = d \/ day = Never
    BY <2>1, <2>2, <2>3, LeastOfTwo
  <2> QED BY <2>2, <2>3, <2>4
<1> QED BY <1>2, <1>3

LEMMA LendChecks ==
  ASSUME EarlyWithinAMonth, BookTypes, CheckInv, Lend
  PROVE  CheckInv'
<1>1. /\ at = "lending" /\ at' = at /\ month' = month
      /\ UNCHANGED <<accounts, cards, events, rows, ledger, alerts>>
  BY DEF Lend, InTurn, Passes, book
<1>2. \A a \in DOMAIN accounts : accounts[a].closed = Never
  BY <1>1 DEF CheckInv, AccountsStay
<1>3. AccountsStay'
  <2>1. Never =< Never
    BY BookAssumption DEF Never
  <2> QED BY <1>1, <1>2, <2>1 DEF AccountsStay
<1>4. CardsCome'
  BY <1>1 DEF CheckInv, CardsCome
<1>5. LoansLast'
  <2>1. CASE UNCHANGED loans
    BY <1>1, <2>1 DEF CheckInv, LoansLast
  <2>2. CASE ~ UNCHANGED loans
    <3>a. /\ turn \in DOMAIN accounts
          /\ \E approved \in Principals, applied \in History .. Anchor, decision \in Lags, lag \in Lags, term \in Terms :
               \E stop \in 1 .. term + 1, paid \in [1 .. term -> History .. Never] :
                 /\ applied + decision + lag =< Anchor
                 /\ \A n \in 1 .. term :
                      paid[n] \in PaidDays(Due(Max({applied + decision + lag, accounts[turn].opened}), n), n >= stop)
                 /\ loans' = With(loans, turn,
                      [disbursed |-> Max({applied + decision + lag, accounts[turn].opened}), principal |-> approved,
                       term |-> term, paid |-> paid])
      BY <2>2 DEF Lend
    <3>b. PICK approved \in Principals, applied \in History .. Anchor, decision \in Lags, lag \in Lags, term \in Terms :
             \E stop \in 1 .. term + 1, paid \in [1 .. term -> History .. Never] :
               /\ applied + decision + lag =< Anchor
               /\ \A n \in 1 .. term :
                    paid[n] \in PaidDays(Due(Max({applied + decision + lag, accounts[turn].opened}), n), n >= stop)
               /\ loans' = With(loans, turn,
                    [disbursed |-> Max({applied + decision + lag, accounts[turn].opened}), principal |-> approved,
                     term |-> term, paid |-> paid])
      BY <3>a
    <3>c. PICK stop \in 1 .. term + 1, paid \in [1 .. term -> History .. Never] :
             /\ applied + decision + lag =< Anchor
             /\ \A n \in 1 .. term :
                  paid[n] \in PaidDays(Due(Max({applied + decision + lag, accounts[turn].opened}), n), n >= stop)
             /\ loans' = With(loans, turn,
                  [disbursed |-> Max({applied + decision + lag, accounts[turn].opened}), principal |-> approved,
                   term |-> term, paid |-> paid])
      BY <3>b
    <3> DEFINE disbursed == Max({applied + decision + lag, accounts[turn].opened})
               new == [disbursed |-> disbursed, principal |-> approved, term |-> term, paid |-> paid]
    <3>1. accounts[turn].opened \in Int /\ accounts[turn].opened =< Anchor
      BY <3>a, BookAssumption DEF BookTypes, AccountType
    <3>2. disbursed \in Int /\ accounts[turn].opened =< disbursed /\ disbursed =< Anchor
      <4>1. applied + decision + lag \in Int
        BY BookAssumption
      <4>2. disbursed = IF applied + decision + lag <= accounts[turn].opened THEN accounts[turn].opened
                        ELSE applied + decision + lag
        BY <3>1, <4>1, LeastOfTwo
      <4> HIDE DEF disbursed
      <4> QED BY <3>c, <3>1, <4>1, <4>2, BookAssumption, SMTT(40)
    <3>3. /\ \A n \in 1 .. term : paid[n] \in PaidDays(Due(disbursed, n), n >= stop)
          /\ loans' = With(loans, turn, new)
      BY <3>c
    <3> HIDE DEF disbursed
    <3>4. \A n \in 1 .. term : disbursed =< paid[n]
      <4>1. \A n \in 1 .. term : n \in Nat \ {0}
        OBVIOUS
      <4> QED BY <3>2, <3>3, <4>1, PaidAfterLent
    <3>5. new.disbursed = disbursed /\ new.term = term /\ new.paid = paid
      OBVIOUS
    <3> HIDE DEF new
    <3>6. \A a \in DOMAIN loans' : loans'[a] = IF a = turn THEN new ELSE loans[a]
      BY <3>3 DEF With
    <3>7. \A a \in DOMAIN loans' : a = turn \/ a \in DOMAIN loans
      BY <3>3 DEF With
    <3> QED BY <1>1, <3>2, <3>4, <3>5, <3>6, <3>7 DEF CheckInv, LoansLast
  <2> QED BY <2>1, <2>2
<1>6. RowsInTime'
  BY <1>1 DEF CheckInv, RowsInTime, InTheWindow
<1>7. AlertsFollow'
  BY <1>1 DEF CheckInv, AlertsFollow
<1> QED BY <1>3, <1>4, <1>5, <1>6, <1>7 DEF CheckInv

LEMMA AttritionChecks ==
  ASSUME BookTypes, CheckInv, Attrition
  PROVE  CheckInv'
<1>1. /\ at = "attrition" /\ at' = at /\ month' = month
      /\ UNCHANGED <<cards, loans, events, rows, ledger, alerts>>
  BY AttritionDoes DEF Attrition, InTurn, book
<1>2. \A a : Hold(a)' = Hold(a)
  BY <1>1 DEF Hold
<1>3. /\ DOMAIN accounts' = DOMAIN accounts
      /\ \A a \in DOMAIN accounts :
           /\ accounts'[a].opened = accounts[a].opened
           /\ \/ accounts'[a].closed = accounts[a].closed
              \/ /\ accounts[a].closed = Never /\ accounts'[a].closed \in FirstDay .. LastDay
                 /\ MayClose(a, accounts'[a].closed)
  BY AttritionDoes
<1>4. FirstDay \in Nat /\ FirstDay >= month * MonthDays /\ LastDay \in Int /\ LastDay =< Anchor
  BY DaysOfTheMonth DEF BookTypes
<1>5. AccountsStay'
  <2>1. ASSUME NEW a \in DOMAIN accounts
        PROVE  /\ accounts'[a].closed =< Never
               /\ \/ accounts'[a].closed = Never
                  \/ accounts'[a].closed > Hold(a) /\ accounts'[a].closed >= accounts'[a].opened + CoolingOff
    <3>1. /\ accounts[a].closed =< Never
          /\ \/ accounts[a].closed = Never
             \/ accounts[a].closed > Hold(a) /\ accounts[a].closed >= accounts[a].opened + CoolingOff
      BY <2>1 DEF CheckInv, AccountsStay, MayClose
    <3>2. CASE accounts'[a].closed = accounts[a].closed
      BY <1>3, <2>1, <3>1, <3>2
    <3>3. CASE accounts'[a].closed \in FirstDay .. LastDay /\ MayClose(a, accounts'[a].closed)
      BY <1>3, <1>4, <2>1, <3>3, BookAssumption DEF MayClose, Never
    <3> QED BY <1>3, <2>1, <3>2, <3>3
  <2> QED BY <1>1, <1>2, <1>3, <2>1 DEF AccountsStay, MayClose
<1>6. CardsCome'
  BY <1>1, <1>3 DEF CheckInv, CardsCome
<1>7. LoansLast'
  BY <1>1, <1>3 DEF CheckInv, LoansLast, BookTypes
<1>8. RowsInTime'
  <2>1. ASSUME NEW r \in rows PROVE InTheWindow(r)'
    <3>1. InTheWindow(r) /\ r.day < month * MonthDays
      BY <1>1, <2>1 DEF CheckInv, RowsInTime
    <3>2. PICK start \in Int : start = month * MonthDays
      BY BookAssumption DEF BookTypes
    <3>3. r.account \in DOMAIN accounts /\ r.day \in Int /\ r.day =< accounts'[r.account].closed
      BY <1>3, <1>4, <3>1, <3>2 DEF InTheWindow
    <3> QED BY <1>1, <1>3, <3>1, <3>3 DEF InTheWindow
  <2> QED BY <1>1, <2>1 DEF CheckInv, RowsInTime
<1>9. AlertsFollow'
  BY <1>1 DEF CheckInv, AlertsFollow
<1> QED BY <1>5, <1>6, <1>7, <1>8, <1>9 DEF CheckInv

(* A movement that is drawn, and the cash of a loan, lie in the window. *)
LEMMA DrawnInTheWindow ==
  ASSUME BookTypes, CheckInv, NEW e, Drawn(e)
  PROVE  InTheWindow(e)
<1>1. /\ e.account = turn /\ turn \in DOMAIN accounts /\ accounts[turn] \in AccountType
      /\ e.kind = "card" => Usable(turn, e.day)
  BY DEF Drawn, BookTypes
<1>2. PICK first \in Int, last \in Int, opened \in Int, closed \in Int, after \in Int :
        /\ first = FirstDay /\ last = LastDay /\ opened = accounts[turn].opened /\ closed = accounts[turn].closed
        /\ after = (month + 1) * MonthDays /\ last < after /\ last =< Anchor
  <2>1. FirstDay \in Int /\ LastDay \in Int /\ LastDay < (month + 1) * MonthDays /\ LastDay =< Anchor
    BY DaysOfTheMonth DEF BookTypes
  <2>2. accounts[turn].opened \in Int /\ accounts[turn].closed \in Int
    BY <1>1, BookAssumption DEF AccountType
  <2>3. (month + 1) * MonthDays \in Int
    <3>1. month + 1 \in Int /\ MonthDays \in Int
      BY BookAssumption DEF BookTypes
    <3> QED BY <3>1
  <2> QED BY <2>1, <2>2, <2>3
<1>3. /\ Max({first, opened}) = (IF first <= opened THEN opened ELSE first)
      /\ Min({last, closed}) = (IF last <= closed THEN last ELSE closed)
  BY LeastOfTwo
<1>4. e.day \in Max({first, opened}) .. Min({last, closed})
  BY <1>2 DEF Drawn, DrawnDays
<1>5. PICK from \in Int, to \in Int : from = Max({first, opened}) /\ to = Min({last, closed})
  BY <1>3
<1>6. e.day \in from .. to
  BY <1>4, <1>5
<1>7. e.day \in Int /\ opened =< e.day /\ e.day =< closed /\ e.day =< Anchor /\ e.day < after
  BY <1>2, <1>3, <1>5, <1>6, BookAssumption
<1>8. ASSUME e.kind = "card"
      PROVE  e.account \in DOMAIN cards /\ cards[e.account].issued =< e.day /\ e.day < cards[e.account].expiry
  <2>1. turn \in DOMAIN cards /\ cards[turn].issued =< e.day /\ e.day < cards[turn].until
    BY <1>1, <1>8 DEF Usable
  <2> QED BY <1>1, <1>7, <2>1 DEF CheckInv, CardsCome
<1> QED BY <1>1, <1>2, <1>7, <1>8 DEF InTheWindow

LEMMA CashInTheWindow ==
  ASSUME BookTypes, CheckInv, NEW a \in DOMAIN loans, NEW e \in LoanCash(a), e.day \in FirstDay .. LastDay
  PROVE  InTheWindow(e)
<1>1. e.account = a /\ e.kind = "loan" /\ a \in DOMAIN accounts
  BY LoanCashIs DEF BookTypes
<1>2. \/ e.day = loans[a].disbursed
      \/ \E n \in 1 .. loans[a].term : e.day = loans[a].paid[n] /\ e.day # Never
  BY LoanCashIs
<1>3. PICK last \in Int, after \in Int, hold \in Int, opened \in Int, closed \in Int :
        /\ last = LastDay /\ after = (month + 1) * MonthDays /\ last < after /\ last =< Anchor
        /\ hold = Hold(a) /\ opened = accounts[a].opened /\ closed = accounts[a].closed
  <2>1. LastDay \in Int /\ LastDay < (month + 1) * MonthDays /\ LastDay =< Anchor
    BY DaysOfTheMonth DEF BookTypes
  <2>2. accounts[a].opened \in Int /\ accounts[a].closed \in Int
    BY <1>1, BookAssumption DEF BookTypes, AccountType
  <2>3. (month + 1) * MonthDays \in Int
    <3>1. month + 1 \in Int /\ MonthDays \in Int
      BY BookAssumption DEF BookTypes
    <3> QED BY <3>1
  <2> QED BY <2>1, <2>2, <2>3, HoldCovers
<1>4. e.day \in Int /\ e.day =< last
  <2>1. FirstDay \in Int
    BY DaysOfTheMonth DEF BookTypes
  <2> QED BY <1>3, <2>1
<1>5. e.day =< hold /\ opened =< e.day
  <2>1. loans[a].disbursed \in Int /\ opened =< loans[a].disbursed
    BY <1>3 DEF CheckInv, LoansLast, BookTypes, IsLoan
  <2>2. CASE e.day = loans[a].disbursed
    BY <1>3, <2>1, <2>2, HoldCovers
  <2>3. ASSUME NEW n \in 1 .. loans[a].term, e.day = loans[a].paid[n], e.day # Never PROVE e.day =< hold /\ opened =< e.day
    <3>1. loans[a].paid[n] =< Hold(a)
      BY <2>3, HoldCovers
    <3>2. loans[a].disbursed =< loans[a].paid[n]
      BY <2>3 DEF CheckInv, LoansLast
    <3> QED BY <1>3, <1>4, <2>1, <2>3, <3>1, <3>2
  <2> QED BY <1>2, <2>2, <2>3
<1>6. e.day =< closed
  <2>1. closed = Never \/ closed > hold
    BY <1>1, <1>3 DEF CheckInv, AccountsStay, MayClose
  <2> QED BY <1>3, <1>4, <1>5, <2>1, BookAssumption DEF Never
<1> QED BY <1>1, <1>3, <1>4, <1>5, <1>6, BookAssumption DEF InTheWindow

LEMMA DrawChecks ==
  ASSUME BookTypes, CheckInv, DrawMonth \/ EndDrawing
  PROVE  CheckInv'
<1>1. UNCHANGED <<month, accounts, cards, loans, rows, ledger, alerts>> /\ at' \notin {"deposits", "lending", "attrition"}
  <2>1. CASE DrawMonth
    BY <2>1, DrawMonthDoes DEF DrawMonth, InTurn, book
  <2>2. CASE EndDrawing
    BY <2>2, EndDrawingDoes DEF book
  <2> QED BY <2>1, <2>2
<1>2. \A e \in events' : InTheWindow(e)
  <2>1. \A e \in events : InTheWindow(e)
    BY DEF CheckInv, RowsInTime
  <2>2. CASE DrawMonth
    BY <2>1, <2>2, DrawMonthDoes, DrawnInTheWindow
  <2>3. CASE EndDrawing
    BY <2>1, <2>3, EndDrawingDoes, CashInTheWindow
  <2> QED BY <2>2, <2>3
<1>3. \A x : InTheWindow(x)' <=> InTheWindow(x)
  BY <1>1 DEF InTheWindow
<1>4. AccountsStay'
  BY <1>1 DEF CheckInv, AccountsStay, MayClose, Hold
<1>5. CardsCome' /\ LoansLast' /\ AlertsFollow'
  BY <1>1 DEF CheckInv, CardsCome, LoansLast, AlertsFollow
<1>6. RowsInTime'
  BY <1>1, <1>2, <1>3 DEF CheckInv, RowsInTime
<1> QED BY <1>4, <1>5, <1>6 DEF CheckInv

(* When a movement is folded it was booked and settled by the anchor, if it *)
(* was at all, and the alert it raises is not later than the anchor.        *)
Timed(e, booked, settled) ==
  /\ booked \in Int /\ (booked =< AnchorEnd \/ booked = NotYet \/ booked = e.when)
  /\ settled \in Int /\ (settled =< AnchorEnd \/ settled = NotYet)

Alerted(e) ==
  \/ UNCHANGED alerts
  \/ /\ e.kind = "card"
     /\ \E raised \in Int, closed \in Int :
          /\ raised =< AnchorEnd /\ (e.when =< AnchorEnd => e.when =< raised)
          /\ closed = NotYet \/ closed =< AnchorEnd
          /\ alerts' = alerts \cup {[source |-> Cardinality(rows) + 1, at |-> raised, closed |-> closed]}

LEMMA ConsiderAlerts ==
  ASSUME NEW e, e.when \in Int, Consider(e)
  PROVE  Alerted(e)
<1>1. CASE UNCHANGED alerts
  BY <1>1 DEF Alerted
<1>2. ASSUME e.kind = "card", NEW delay \in Delays, NEW closed \in Dispositions(Clamped(e.when + delay)),
             alerts' = alerts \cup {[source |-> Cardinality(rows) + 1, at |-> Clamped(e.when + delay), closed |-> closed]}
      PROVE  Alerted(e)
  <2>1. AnchorEnd \in Int /\ delay \in Nat
    <3>1. AnchorEnd \in Nat
      <4>1. 0 \in Int
        OBVIOUS
      <4> QED BY <4>1, InstantsAreNumbers
    <3> QED BY <3>1, BookAssumption
  <2>2. PICK raised : raised = Clamped(e.when + delay)
    OBVIOUS
  <2>3. raised = IF e.when + delay <= AnchorEnd THEN e.when + delay ELSE AnchorEnd
    <3>1. e.when + delay \in Int
      BY <1>2, <2>1
    <3> QED BY <2>1, <2>2, <3>1, LeastOfTwo DEF Clamped
  <2>4. raised \in Int /\ raised =< AnchorEnd /\ (e.when =< AnchorEnd => e.when =< raised)
    BY <1>2, <2>1, <2>3
  <2>5. closed = NotYet \/ (closed \in {raised + Slots * lag : lag \in Lags} /\ closed =< AnchorEnd)
    BY <1>2, <2>2 DEF Dispositions
  <2>6. closed \in Int
    <3>1. \A lag \in Lags : Slots * lag \in Int
      BY BookAssumption
    <3>2. NotYet \in Int
      BY <2>1 DEF NotYet
    <3> QED BY <2>4, <2>5, <3>1, <3>2
  <2> QED BY <1>2, <2>2, <2>4, <2>5, <2>6 DEF Alerted
<1> QED BY <1>1, <1>2 DEF Consider

LEMMA EmitTimes ==
  ASSUME BookTypes, Emit
  PROVE  /\ Alerted(Earliest)
         /\ \E status, booked, settled :
              Write(Earliest, status, booked, settled) /\ Timed(Earliest, booked, settled)
<1> DEFINE e == Earliest
<1>1. e \in events /\ e.when \in Int
  BY EmitDoes DEF BookTypes, IsMovement
<1>2. AnchorEnd \in Int /\ NotYet \in Int /\ NotYet = AnchorEnd + 1
  <2>1. AnchorEnd \in Nat
    <3>1. 0 \in Int
      OBVIOUS
    <3> QED BY <3>1, InstantsAreNumbers
  <2> QED BY <2>1 DEF NotYet
<1>3. EmitTransaction(e) \/ EmitPayment(e)
  BY DEF Emit
<1> HIDE DEF e
<1>4. CASE EmitTransaction(e)
  <2>1. \E status : Write(e, status, e.when, NotYet)
    BY <1>4 DEF EmitTransaction
  <2>2. Timed(e, e.when, NotYet)
    BY <1>1, <1>2 DEF Timed
  <2>3. Alerted(e)
    BY <1>1, <1>4, ConsiderAlerts DEF EmitTransaction
  <2> QED BY <2>1, <2>2, <2>3 DEF e
<1>5. CASE EmitPayment(e)
  <2>1. Alerted(e)
    BY <1>5 DEF EmitPayment, Alerted
  <2>2. CASE ~ IsPosted(e.status)
    <3>1. Write(e, e.status, NotYet, NotYet)
      BY <1>5, <2>2 DEF EmitPayment
    <3>2. Timed(e, NotYet, NotYet)
      BY <1>2 DEF Timed
    <3> QED BY <2>1, <3>1, <3>2 DEF e
  <2>3. ASSUME IsPosted(e.status), NEW minutes \in {0, 1}, NEW lag \in Lags, NEW booked, NEW settled, NEW stage, NEW status,
               booked = e.when + minutes, settled = booked + Slots * lag,
               stage = StageReached(e.status, booked, settled),
               status = IF IsPosted(stage) /\ IsDeclined(e) THEN "rejected" ELSE stage
        PROVE  Timed(e, IF IsPosted(status) THEN booked ELSE NotYet, IF status = "settled" THEN settled ELSE NotYet)
    <3>1. booked \in Int /\ settled \in Int
      <4>1. Slots * lag \in Int
        BY BookAssumption
      <4>2. booked \in Int
        BY <1>1, <2>3
      <4> QED BY <2>3, <4>1, <4>2
    <3>2. IsPosted(status) => booked =< AnchorEnd
      <4>1. ~ IsPosted("rejected") /\ ~ IsPosted("pending")
        BY DEF IsPosted
      <4>2. booked > AnchorEnd => stage = "pending"
        BY <1>2, <2>3, <3>1 DEF StageReached
      <4> QED BY <1>2, <2>3, <3>1, <4>1, <4>2
    <3>3. status = "settled" => settled =< AnchorEnd
      <4>1. booked > AnchorEnd => stage = "pending"
        BY <1>2, <2>3, <3>1 DEF StageReached
      <4>2. booked =< AnchorEnd /\ e.status = "settled" /\ settled > AnchorEnd => stage = "booked"
        BY <1>2, <3>1, <2>3 DEF StageReached
      <4>3. booked =< AnchorEnd /\ e.status # "settled" => stage # "settled"
        BY <1>2, <3>1, <2>3 DEF StageReached
      <4> QED BY <1>2, <2>3, <3>1, <4>1, <4>2, <4>3
    <3> QED BY <1>2, <3>1, <3>2, <3>3 DEF Timed
  <2>4. CASE IsPosted(e.status)
    <3>1. PICK minutes \in {0, 1}, lag \in Lags :
            LET booked == e.when + minutes
                settled == booked + Slots * lag
                stage == StageReached(e.status, booked, settled)
                status == IF IsPosted(stage) /\ IsDeclined(e) THEN "rejected" ELSE stage
            IN  Write(e, status, IF IsPosted(status) THEN booked ELSE NotYet,
                      IF status = "settled" THEN settled ELSE NotYet)
      BY <1>5, <2>4 DEF EmitPayment
    <3>2. PICK booked, settled : booked = e.when + minutes /\ settled = booked + Slots * lag
      OBVIOUS
    <3>3. PICK stage : stage = StageReached(e.status, booked, settled)
      OBVIOUS
    <3>4. PICK status : status = IF IsPosted(stage) /\ IsDeclined(e) THEN "rejected" ELSE stage
      OBVIOUS
    <3>5. Write(e, status, IF IsPosted(status) THEN booked ELSE NotYet, IF status = "settled" THEN settled ELSE NotYet)
      BY <3>1, <3>2, <3>3, <3>4
    <3>6. Timed(e, IF IsPosted(status) THEN booked ELSE NotYet, IF status = "settled" THEN settled ELSE NotYet)
      BY <2>3, <2>4, <3>2, <3>3, <3>4
    <3> QED BY <2>1, <3>5, <3>6 DEF e
  <2> QED BY <2>2, <2>4
<1> QED BY <1>3, <1>4, <1>5

LEMMA EmitChecks ==
  ASSUME BookTypes, LedgerTypes, CheckInv, Emit
  PROVE  CheckInv'
<1>1. /\ Earliest \in events /\ events' = events \ {Earliest} /\ at = "folding"
      /\ UNCHANGED <<at, turn, month, cards, loans, report, left>>
  BY EmitDoes
<1>2. PICK e \in events : /\ Alerted(e)
                          /\ \E status, booked, settled : Write(e, status, booked, settled) /\ Timed(e, booked, settled)
  BY <1>1, EmitTimes
<1>3. PICK status, booked, settled : Write(e, status, booked, settled) /\ Timed(e, booked, settled)
  BY <1>2
<1>4. PICK row, posting : row = NewRow(e, status, booked, settled) /\ posting = NewPosting(e, booked)
  OBVIOUS
<1>5. rows' = rows \cup {row} /\ row \notin rows
  BY <1>3, <1>4, WriteDoes
<1>6. /\ row.id = Cardinality(rows) + 1 /\ row.account = e.account /\ row.kind = e.kind /\ row.day = e.day
      /\ row.at = e.when /\ row.booked = booked /\ row.settled = settled
  BY <1>4 DEF NewRow
<1>7. /\ DOMAIN accounts' = DOMAIN accounts
      /\ \A a \in DOMAIN accounts : /\ accounts'[a].closed = accounts[a].closed
                                    /\ accounts'[a].opened = accounts[a].opened
  BY EmitTypes
<1>8. \A x : InTheWindow(x) => InTheWindow(x)'
  BY <1>1, <1>7 DEF InTheWindow
<1>9. AccountsStay'
  BY <1>1, <1>7 DEF CheckInv, AccountsStay, MayClose, Hold
<1>10. CardsCome' /\ LoansLast'
  BY <1>1, <1>7 DEF CheckInv, CardsCome, LoansLast, BookTypes
<1>11. RowsInTime'
  <2>1. InTheWindow(row)'
    <3>1. InTheWindow(e)
      BY DEF CheckInv, RowsInTime
    <3>2. InTheWindow(row)
      BY <1>6, <3>1 DEF InTheWindow
    <3> QED BY <1>8, <3>2
  <2>2. /\ row.at \in Int /\ row.booked \in Int /\ row.settled \in Int
        /\ row.booked =< AnchorEnd \/ row.booked = NotYet \/ row.booked = row.at
        /\ row.settled =< AnchorEnd \/ row.settled = NotYet
    BY <1>3, <1>6 DEF Timed, BookTypes, IsMovement
  <2>3. \A x \in events' : InTheWindow(x)'
    BY <1>1, <1>8 DEF CheckInv, RowsInTime
  <2> QED BY <1>1, <1>5, <1>8, <2>1, <2>2, <2>3 DEF CheckInv, RowsInTime
<1>12. AlertsFollow'
  <2>1. ASSUME NEW f \in alerts
        PROVE  /\ f.at \in Int /\ f.at =< AnchorEnd /\ f.closed \in Int /\ (f.closed = NotYet \/ f.closed =< AnchorEnd)
               /\ \E r \in rows' : r.id = f.source /\ r.kind = "card" /\ (r.at =< AnchorEnd => r.at =< f.at)
    BY <1>5 DEF CheckInv, AlertsFollow
  <2>2. CASE UNCHANGED alerts
    BY <2>1, <2>2 DEF AlertsFollow
  <2>3. CASE ~ UNCHANGED alerts
    <3>1. PICK raised \in Int, closed \in Int :
            /\ raised =< AnchorEnd /\ (e.when =< AnchorEnd => e.when =< raised)
            /\ closed = NotYet \/ closed =< AnchorEnd
            /\ alerts' = alerts \cup {[source |-> Cardinality(rows) + 1, at |-> raised, closed |-> closed]}
      BY <1>2, <2>3 DEF Alerted
    <3>2. e.kind = "card"
      BY <1>2, <2>3 DEF Alerted
    <3>3. PICK f : f = [source |-> Cardinality(rows) + 1, at |-> raised, closed |-> closed]
      OBVIOUS
    <3>4. alerts' = alerts \cup {f}
      BY <3>1, <3>3
    <3>5. f.source = row.id /\ f.at = raised /\ f.closed = closed
      BY <1>6, <3>3
    <3>6. row \in rows' /\ row.id = f.source /\ row.kind = "card" /\ (row.at =< AnchorEnd => row.at =< f.at)
      BY <1>5, <1>6, <3>1, <3>2, <3>5
    <3> QED BY <2>1, <3>1, <3>4, <3>5, <3>6 DEF AlertsFollow
  <2> QED BY <2>2, <2>3
<1> QED BY <1>9, <1>10, <1>11, <1>12 DEF CheckInv

LEMMA EndMonthChecks ==
  ASSUME BookTypes, CheckInv, EndMonth
  PROVE  CheckInv'
<1>1. /\ at = "folding" /\ events = {} /\ at' \notin {"deposits", "lending"} /\ month' \in {month, month + 1}
      /\ at' = "attrition" => month' = month + 1
      /\ UNCHANGED <<accounts, cards, loans, events, rows, ledger, alerts>>
  BY DEF EndMonth, book
<1>2. PICK after \in Int, next \in Int :
        after = (month + 1) * MonthDays /\ next = ((month + 1) + 1) * MonthDays /\ after < next
  <2>1. month + 1 \in Int /\ MonthDays \in Int /\ MonthDays > 0
    BY BookAssumption DEF BookTypes
  <2>2. PICK k \in Int : k = month + 1
    BY <2>1
  <2>3. k * MonthDays \in Int /\ (k + 1) * MonthDays = k * MonthDays + MonthDays
    BY <2>1
  <2>4. PICK after \in Int : after = k * MonthDays
    BY <2>3
  <2>5. (k + 1) * MonthDays = after + MonthDays
    BY <2>3, <2>4
  <2> QED BY <2>1, <2>2, <2>4, <2>5
<1>3. \A r \in rows : InTheWindow(r)' /\ r.day < after
  BY <1>1, <1>2 DEF CheckInv, RowsInTime, InTheWindow
<1>4. AccountsStay'
  BY <1>1 DEF CheckInv, AccountsStay, MayClose, Hold
<1>5. CardsCome' /\ LoansLast' /\ AlertsFollow'
  BY <1>1 DEF CheckInv, CardsCome, LoansLast, AlertsFollow
<1>6. RowsInTime'
  BY <1>1, <1>2, <1>3 DEF CheckInv, RowsInTime
<1> QED BY <1>4, <1>5, <1>6 DEF CheckInv

LEMMA OtherChecks ==
  ASSUME BookTypes, CheckInv, EndDeposits \/ EndLending \/ EndAttrition \/ Check \/ UNCHANGED vars
  PROVE  CheckInv'
<1>1. /\ UNCHANGED <<month, accounts, cards, loans, events, rows, ledger, alerts>>
      /\ \/ at' = at /\ turn' = turn
         \/ at = "deposits" /\ at' = "lending"
         \/ at = "lending" /\ at' = "attrition"
         \/ at' \notin {"deposits", "lending", "attrition"}
  BY DEF EndDeposits, EndLending, EndAttrition, Check, After, vars, book
<1>2. \A x : InTheWindow(x)' <=> InTheWindow(x)
  BY <1>1 DEF InTheWindow
<1>3. AccountsStay'
  <2>1. \A a \in DOMAIN accounts :
          /\ accounts[a].closed =< Never
          /\ accounts[a].closed = Never \/ MayClose(a, accounts[a].closed)
    BY DEF CheckInv, AccountsStay
  <2>2. /\ at' = "deposits" => \A a \in DOMAIN accounts : a < turn'
        /\ at' \in {"deposits", "lending"} => \A a \in DOMAIN accounts : accounts[a].closed = Never
    BY <1>1 DEF CheckInv, AccountsStay
  <2> QED BY <1>1, <2>1, <2>2 DEF AccountsStay, MayClose, Hold
<1>4. CardsCome' /\ LoansLast' /\ AlertsFollow'
  BY <1>1 DEF CheckInv, CardsCome, LoansLast, AlertsFollow
<1>5. RowsInTime'
  BY <1>1, <1>2 DEF CheckInv, RowsInTime
<1> QED BY <1>3, <1>4, <1>5 DEF CheckInv

LEMMA ChecksKept ==
  ASSUME CardsComeInTime, EarlyWithinAMonth, BookTypes, LedgerInv, CheckInv, [Next]_vars
  PROVE  CheckInv'
<1>1. LedgerTypes
  BY DEF LedgerInv
<1> QED BY <1>1, OpenAccountChecks, LendChecks, AttritionChecks, DrawChecks, EmitChecks, EndMonthChecks, OtherChecks DEF Next

(* What each check of a book finds of which no row is late: nothing. *)
LEMMA WindowsHold ==
  ASSUME BookTypes, CheckInv, \A r \in rows : ~ Late(r)
  PROVE  OutsideTheWindow = {} /\ CardsOutside = {} /\ OffTheCard = {}
<1>1. \A r \in rows : InTheWindow(r) /\ DayOf(r.at) = r.day
  BY DEF CheckInv, RowsInTime, Late
<1>2. OutsideTheWindow = {}
  <2>1. ASSUME NEW r \in rows PROVE DayOf(r.at) \in accounts[r.account].opened .. accounts[r.account].closed
    <3>1. accounts[r.account].opened \in Int /\ accounts[r.account].closed \in Int
      BY <1>1, <2>1, BookAssumption DEF InTheWindow, BookTypes, AccountType
    <3> QED BY <1>1, <2>1, <3>1 DEF InTheWindow
  <2> QED BY <2>1 DEF OutsideTheWindow
<1>3. OffTheCard = {}
  <2>1. ASSUME NEW r \in rows, r.kind = "card"
        PROVE  DayOf(r.at) \in cards[r.account].issued .. cards[r.account].expiry - 1
    <3>1. cards[r.account].issued \in Int /\ cards[r.account].expiry \in Int
      BY <1>1, <2>1 DEF InTheWindow, CheckInv, CardsCome
    <3> QED BY <1>1, <2>1, <3>1 DEF InTheWindow
  <2> QED BY <2>1 DEF OffTheCard
<1>4. CardsOutside = {}
  <2>1. ASSUME NEW a \in DOMAIN cards
        PROVE  cards[a].issued \in accounts[a].opened .. accounts[a].closed
    <3>1. /\ a \in DOMAIN accounts /\ cards[a].issued \in Int /\ cards[a].issued =< Anchor
          /\ accounts[a].opened =< cards[a].issued /\ cards[a].issued =< accounts[a].opened + CoolingOff
      BY <2>1 DEF CheckInv, CardsCome
    <3>2. accounts[a].opened \in Int /\ accounts[a].closed \in Int
      BY <3>1, BookAssumption DEF BookTypes, AccountType
    <3>3. accounts[a].closed = Never \/ accounts[a].closed >= accounts[a].opened + CoolingOff
      BY <3>1 DEF CheckInv, AccountsStay, MayClose
    <3> QED BY <3>1, <3>2, <3>3, BookAssumption DEF Never
  <2> QED BY <2>1 DEF CardsOutside
<1> QED BY <1>2, <1>3, <1>4

LEMMA BooksBalance ==
  ASSUME BookTypes, LedgerInv
  PROVE  BalancesOff = {} /\ DaysOff = {} /\ Unledgered = {}
<1>1. BalancesOff = {}
  BY DEF LedgerInv, BooksAdd, BalancesOff, AmountsOf
<1>2. DaysOff = {}
  <2>1. ASSUME NEW d PROVE Total([p \in {p \in ledger : p.day = d} |-> p.deposits + Total(p.others)]) = 0
    <3> DEFINE L == {p \in ledger : p.day = d}
               f == [p \in L |-> p.deposits + Total(p.others)]
    <3>1. IsFiniteSet(L)
      BY FS_Subset DEF LedgerInv, LedgerTypes
    <3>2. DOMAIN f = L /\ \A p \in L : f[p] = 0
      BY DEF LedgerInv, LedgerTypes
    <3> HIDE DEF L, f
    <3>3. Total(f) = 0
      BY <3>1, <3>2, TotalOfZeros
    <3> QED BY <3>3 DEF f, L
  <2> QED BY <2>1 DEF DaysOff
<1>3. Unledgered = {}
  BY DEF LedgerInv, BooksAdd, Unledgered
<1> QED BY <1>1, <1>2, <1>3

LEMMA SchedulesHold ==
  ASSUME InterestAddsUp, BookTypes, CheckInv
  PROVE  SchedulesOff = {}
<1> SUFFICES ASSUME NEW a \in DOMAIN loans, a \in SchedulesOff PROVE FALSE
  BY DEF SchedulesOff
<1> DEFINE principal == loans[a].principal
           term == loans[a].term
           plan == Schedule(principal, term)
           total == Total([n \in 1 .. term |-> plan[n].due])
<1>1. principal \in Principals /\ term \in Terms /\ principal \in Nat \ {0} /\ term \in Nat \ {0} /\ loans[a].disbursed \in Int
  BY BookAssumption DEF BookTypes, IsLoan
<1>2. total \in Int /\ total >= principal
  BY <1>1, InstallmentsAddUp
<1>3. (total - principal - 1) * Interest[2] =< principal * Interest[1] * term
  BY <1>1 DEF InterestAddsUp
<1>4. \A n \in 1 .. term : loans[a].disbursed =< loans[a].paid[n]
  BY DEF CheckInv, LoansLast
<1>5. \A n \in 1 .. term : loans[a].paid[n] \in Int
  <2>1. loans[a].paid \in [1 .. term -> History .. Never]
    BY DEF BookTypes, IsLoan
  <2>2. History .. Never \subseteq Int
    BY BookAssumption DEF Never
  <2> HIDE DEF term
  <2> QED BY <2>1, <2>2
<1>6. ASSUME NEW n \in 1 .. term PROVE Due(loans[a].disbursed, n) \in Int /\ loans[a].disbursed =< Due(loans[a].disbursed, n)
  <2>1. n \in Nat /\ MonthDays \in Nat
    BY <1>1, BookAssumption
  <2>2. n * MonthDays \in Nat
    BY <2>1, Products
  <2>3. PICK k \in Nat : k = n * MonthDays
    BY <2>2
  <2> QED BY <1>1, <2>3 DEF Due
<1>7. \/ total < principal
      \/ (total - principal - 1) * Interest[2] > principal * Interest[1] * term
      \/ \E n \in 1 .. term : loans[a].paid[n] < loans[a].disbursed \/ Due(loans[a].disbursed, n) < loans[a].disbursed
  BY DEF SchedulesOff
<1> HIDE DEF total, plan
<1>8. ~ (total < principal)
  BY <1>1, <1>2
<1>9. ~ ((total - principal - 1) * Interest[2] > principal * Interest[1] * term)
  <2>1. (total - principal - 1) * Interest[2] \in Int /\ principal * Interest[1] * term \in Int
    <3>1. total - principal - 1 \in Int /\ principal \in Int /\ term \in Int
      BY <1>1, <1>2
    <3> HIDE DEF principal, term
    <3> QED BY <3>1, BookAssumption
  <2>2. PICK i \in Int, j \in Int : i = (total - principal - 1) * Interest[2] /\ j = principal * Interest[1] * term
    BY <2>1
  <2>3. i =< j
    BY <1>3, <2>2
  <2> QED BY <2>2, <2>3
<1>10. \A n \in 1 .. term : ~ (loans[a].paid[n] < loans[a].disbursed) /\ ~ (Due(loans[a].disbursed, n) < loans[a].disbursed)
  BY <1>1, <1>4, <1>5, <1>6
<1> QED BY <1>7, <1>8, <1>9, <1>10

LEMMA NothingIsLate ==
  ASSUME BookTypes, CheckInv, \A r \in rows : ~ Late(r)
  PROVE  AlertsOff = {} /\ PastThePresent = {}
<1>1. AnchorEnd \in Int /\ NotYet = AnchorEnd + 1 /\ Slots \in Nat \ {0} /\ Anchor \in Nat
  <2>1. AnchorEnd \in Nat
    <3>1. 0 \in Int
      OBVIOUS
    <3> QED BY <3>1, InstantsAreNumbers
  <2> QED BY <2>1, BookAssumption DEF NotYet
<1>2. ASSUME NEW r \in rows PROVE r.at \in Int /\ r.at =< AnchorEnd
  <2>1. r.at \in Int /\ r.at \div Slots = r.day /\ r.day \in Int /\ r.day =< Anchor
    BY <1>2 DEF CheckInv, RowsInTime, InTheWindow, Late, DayOf
  <2>2. PICK q \in Int : q = r.at \div Slots /\ q =< Anchor
    BY <2>1
  <2>3. r.at < (q + 1) * Slots
    BY <1>1, <2>1, <2>2, QuotientIs
  <2>4. PICK x \in Int, y \in Int : x = (q + 1) * Slots /\ y = Slots * Anchor /\ x =< y + Slots
    <3>1. Slots * q <= Slots * Anchor
      BY <1>1, <2>2, Products
    <3>2. (q + 1) * Slots = Slots * q + Slots /\ (q + 1) * Slots \in Int /\ Slots * Anchor \in Int /\ Slots * q \in Int
      BY <1>1
    <3>3. PICK w \in Int, y \in Int : w = Slots * q /\ y = Slots * Anchor
      BY <3>2
    <3>4. w =< y /\ (q + 1) * Slots = w + Slots
      BY <3>1, <3>2, <3>3
    <3> QED BY <1>1, <3>2, <3>3, <3>4
  <2>5. AnchorEnd = y + Slots - 1
    BY <2>4 DEF AnchorEnd
  <2> QED BY <1>1, <2>1, <2>3, <2>4, <2>5
<1>3. AlertsOff = {}
  <2>1. ASSUME NEW f \in alerts PROVE \E r \in rows : r.id = f.source /\ ~ (r.kind # "card" \/ f.at < r.at)
    <3>1. PICK r \in rows : r.id = f.source /\ r.kind = "card" /\ (r.at =< AnchorEnd => r.at =< f.at)
      BY <2>1 DEF CheckInv, AlertsFollow
    <3>2. f.at \in Int /\ r.at \in Int /\ r.at =< f.at
      BY <1>2, <2>1, <3>1 DEF CheckInv, AlertsFollow
    <3> QED BY <3>1, <3>2
  <2> QED BY <2>1 DEF AlertsOff
<1>4. ASSUME NEW r \in rows PROVE ~ (r.at > AnchorEnd \/ LastTouched(r) > AnchorEnd)
  <2> DEFINE S == {r.at} \cup ({r.booked, r.settled} \ {NotYet})
  <2>1. /\ r.booked \in Int /\ (r.booked =< AnchorEnd \/ r.booked = NotYet \/ r.booked = r.at)
        /\ r.settled \in Int /\ (r.settled =< AnchorEnd \/ r.settled = NotYet)
    BY <1>4 DEF CheckInv, RowsInTime
  <2>2. S # {} /\ S \subseteq Int /\ \A x \in S : x =< AnchorEnd
    BY <1>2, <1>4, <2>1
  <2>3. IsFiniteSet(S)
    <3>0. IsFiniteSet({r.at}) /\ IsFiniteSet({r.booked}) /\ IsFiniteSet({r.settled})
      BY FS_Singleton
    <3>1. IsFiniteSet({r.booked, r.settled})
      <4>1. {r.booked, r.settled} = {r.booked} \cup {r.settled}
        OBVIOUS
      <4>2. IsFiniteSet({r.booked} \cup {r.settled})
        BY <3>0, FS_Union
      <4> QED BY <4>1, <4>2
    <3>2. IsFiniteSet({r.booked, r.settled} \ {NotYet})
      BY <3>1, FS_Subset
    <3> QED BY <3>0, <3>2, FS_Union
  <2>4. LastTouched(r) = Max(S)
    BY DEF LastTouched
  <2> HIDE DEF S
  <2>5. Max(S) \in S
    BY <2>2, <2>3, FiniteMax
  <2>6. LastTouched(r) \in Int /\ LastTouched(r) =< AnchorEnd
    BY <2>2, <2>4, <2>5
  <2> QED BY <1>1, <1>2, <1>4, <2>6
<1>5. ASSUME NEW f \in alerts PROVE ~ (f.at > AnchorEnd \/ (f.closed # NotYet /\ f.closed > AnchorEnd))
  BY <1>1, <1>5 DEF CheckInv, AlertsFollow
<1>6. PastThePresent = {}
  BY <1>4, <1>5 DEF PastThePresent
<1> QED BY <1>3, <1>6

LEMMA CheckReports ==
  ASSUME InterestAddsUp, BookTypes, LedgerInv, CheckInv, Check
  PROVE  ChecksPass'
<1>1. rows' = rows
  BY DEF Check
<1>2. SUFFICES ASSUME \A r \in rows : ~ Late(r) PROVE report' = {}
  BY <1>1 DEF ChecksPass
<1>3. OutsideTheWindow \cup CardsOutside = {} /\ OffTheCard = {}
  BY <1>2, WindowsHold
<1>4. BalancesOff = {} /\ DaysOff = {} /\ Unledgered = {}
  BY BooksBalance
<1>5. SchedulesOff = {}
  BY SchedulesHold
<1>6. AlertsOff = {} /\ PastThePresent = {}
  BY <1>2, NothingIsLate
<1> QED BY <1>3, <1>4, <1>5, <1>6 DEF Check

LEMMA ChecksPassKept ==
  ASSUME InterestAddsUp, BookTypes, LedgerInv, CheckInv, ChecksPass, [Next]_vars
  PROVE  ChecksPass'
<1>1. CASE Check
  BY <1>1, CheckReports
<1>2. CASE UNCHANGED vars
  BY <1>2 DEF ChecksPass, Late, vars
<1>3. CASE OpenAccount \/ Lend \/ Attrition \/ DrawMonth \/ Emit
  <2>1. at' # "checked"
    BY <1>3 DEF OpenAccount, Lend, Attrition, DrawMonth, Emit, InTurn, Passes
  <2> QED BY <2>1 DEF ChecksPass
<1>4. CASE EndDeposits \/ EndLending \/ EndAttrition \/ EndDrawing \/ EndMonth
  <2>1. at' # "checked"
    BY <1>4 DEF EndDeposits, EndLending, EndAttrition, EndDrawing, EndMonth, After
  <2> QED BY <2>1 DEF ChecksPass
<1> QED BY <1>1, <1>2, <1>3, <1>4 DEF Next

(* A book without a purchase that a burst carried past midnight passes all  *)
(* of its checks, whatever was drawn and whenever accounts closed, where    *)
(* lags end before an account can close and the plans' rounding stays in    *)
(* the bound of check 7 (entities/movements against invariants).            *)
THEOREM ChecksPassCorrect ==
  CardsComeInTime /\ EarlyWithinAMonth /\ InterestAddsUp => (Spec => []ChecksPass)
<1> SUFFICES ASSUME CardsComeInTime /\ EarlyWithinAMonth /\ InterestAddsUp PROVE Spec => []ChecksPass
  OBVIOUS
<1>1. Init => CheckInv /\ ChecksPass
  BY ChecksInit DEF Init, ChecksPass
<1>2. BookTypes /\ LedgerInv /\ CheckInv /\ ChecksPass /\ [Next]_vars => CheckInv' /\ ChecksPass'
  BY ChecksKept, ChecksPassKept
<1> QED BY <1>1, <1>2, BookTypesCorrect, LedgerInvCorrect, PTL DEF Spec
=============================================================================
