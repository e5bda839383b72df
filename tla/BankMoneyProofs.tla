-------------------------- MODULE BankMoneyProofs --------------------------
(***************************************************************************)
(* The money of the core bank, proved for every number of accounts, every  *)
(* seeded history, any amounts, and any number of ticks and movements.     *)
(*                                                                         *)
(* A balance is a sum over the rows of two tables, so the proofs begin     *)
(* with sums: what the library's recursion over a finite set returns does  *)
(* not depend on the order it takes the members in.  The induction that    *)
(* shows it takes a set of subsets for its predicate.                      *)
(***************************************************************************)
EXTENDS BankMoney, FiniteSetTheorems, SequenceTheorems, WellFoundedInduction, TLAPS

-----------------------------------------------------------------------------
(***************************************************************************)
(* Induction, for a set of finite sets or of naturals.                     *)
(***************************************************************************)
(* A set of naturals that is not empty has a least member. *)
LEMMA LeastNatural ==
  ASSUME NEW S, S \subseteq Nat, S # {}
  PROVE  \E i \in S : \A j \in S : i <= j
<1>1. PICK i \in S : \A j \in S : ~ (<<j, i>> \in OpToRel(<, Nat))
  BY NatLessThanWellFounded, WFMin, Zenon
<1>2. \A j \in S : ~ (j < i)
  BY <1>1 DEF OpToRel
<1> QED BY <1>2

(* Induction over a finite set: a set of its subsets that a subset belongs *)
(* to as soon as it does without any one member.                           *)
LEMMA FiniteInduction ==
  ASSUME NEW S, IsFiniteSet(S), NEW G, {} \in G,
         \A T \in SUBSET S : T # {} /\ (\A x \in T : T \ {x} \in G) => T \in G
  PROVE  S \in G
<1> DEFINE Sizes == {n \in Nat : \E T \in SUBSET S : Cardinality(T) = n /\ T \notin G}
<1>1. SUFFICES ASSUME S \notin G PROVE FALSE
  OBVIOUS
<1>2. Cardinality(S) \in Sizes
  BY <1>1, FS_CardinalityType
<1>3. PICK n \in Sizes : \A m \in Sizes : n <= m
  BY <1>2, LeastNatural
<1>4. PICK T \in SUBSET S : Cardinality(T) = n /\ T \notin G
  BY <1>3
<1>5. IsFiniteSet(T) /\ T # {}
  BY <1>4, FS_Subset
<1>6. ASSUME NEW x \in T PROVE T \ {x} \in G
  <2>1. IsFiniteSet(T \ {x}) /\ Cardinality(T \ {x}) = n - 1
    BY <1>4, <1>5, FS_RemoveElement
  <2>2. n - 1 \in Nat /\ T \ {x} \in SUBSET S
    BY <2>1, FS_CardinalityType
  <2>3. n - 1 \notin Sizes
    BY <1>3
  <2> QED BY <2>1, <2>2, <2>3
<1> QED BY <1>4, <1>5, <1>6

(* Induction over the naturals. *)
LEMMA CountingUp ==
  ASSUME NEW G, 0 \in G, \A n \in Nat : n \in G => n + 1 \in G
  PROVE  Nat \subseteq G
<1>1. SUFFICES ASSUME Nat \ G # {} PROVE FALSE
  OBVIOUS
<1>2. PICK n \in Nat \ G : \A m \in Nat \ G : n <= m
  BY <1>1, LeastNatural
<1>3. n # 0 /\ n - 1 \in Nat
  BY <1>2
<1>4. n - 1 \in G
  BY <1>2, <1>3
<1>5. (n - 1) + 1 \in G
  BY <1>3, <1>4
<1> QED BY <1>2, <1>5

-----------------------------------------------------------------------------
(***************************************************************************)
(* Sums.                                                                   *)
(***************************************************************************)
(* g is the table of the sums of f over the subsets of S, each of them      *)
(* taken apart at the member the recursion of the library chooses.          *)
First(s) == CHOOSE x \in s : TRUE
Solves(g, f, S) ==
  \A s \in SUBSET S : g[s] = IF s = {} THEN 0 ELSE f[First(s)] + g[s \ {First(s)}]

(* Over a finite set, such a table of sums exists. *)
LEMMA SumsExist ==
  ASSUME NEW S, IsFiniteSet(S), NEW f, \A i \in S : f[i] \in Int
  PROVE  \E g \in [SUBSET S -> Int] : Solves(g, f, S)
<1> DEFINE Small(n) == {s \in SUBSET S : Cardinality(s) <= n}
           Fits(g, n) == \A s \in Small(n) :
                  g[s] = IF s = {} THEN 0 ELSE f[First(s)] + g[s \ {First(s)}]
           G == {n \in Nat : \E g \in [Small(n) -> Int] : Fits(g, n)}
<1>1. 0 \in G
  <2>1. \A s \in Small(0) : s = {}
    <3>1. \A s \in Small(0) : IsFiniteSet(s) /\ Cardinality(s) \in Nat /\ Cardinality(s) <= 0
      BY FS_Subset, FS_CardinalityType
    <3> QED BY <3>1, FS_EmptySet
  <2>2. [s \in Small(0) |-> 0] \in [Small(0) -> Int] /\ Fits([s \in Small(0) |-> 0], 0)
    BY <2>1
  <2> QED BY <2>2
<1>2. ASSUME NEW n \in Nat, n \in G PROVE n + 1 \in G
  <2>1. PICK g \in [Small(n) -> Int] : Fits(g, n)
    BY <1>2
  <2> DEFINE h == [s \in Small(n + 1) |-> IF s = {} THEN 0 ELSE f[First(s)] + g[s \ {First(s)}]]
  <2>2. ASSUME NEW s \in Small(n + 1), s # {}
        PROVE  s \ {First(s)} \in Small(n) /\ First(s) \in S
    <3>1. First(s) \in s
      BY <2>2 DEF First
    <3>2. IsFiniteSet(s) /\ Cardinality(s) \in Nat
      BY FS_Subset, FS_CardinalityType
    <3>3. Cardinality(s \ {First(s)}) = Cardinality(s) - 1
      BY <3>1, <3>2, FS_RemoveElement
    <3> QED BY <3>1, <3>2, <3>3
  <2>3. h \in [Small(n + 1) -> Int]
    BY <2>2
  <2>4. \A s \in Small(n) : s \in Small(n + 1) /\ h[s] = g[s]
    <3>1. \A s \in Small(n) : s \in Small(n + 1)
      <4>1. \A s \in Small(n) : Cardinality(s) \in Nat
        BY FS_Subset, FS_CardinalityType
      <4> QED BY <4>1
    <3> QED BY <2>1, <3>1
  <2>5. Fits(h, n + 1)
    BY <2>2, <2>4
  <2> HIDE DEF h, Fits
  <2>6. \E r \in [Small(n + 1) -> Int] : Fits(r, n + 1)
    BY <2>3, <2>5
  <2>7. n + 1 \in Nat
    OBVIOUS
  <2> QED BY <2>6, <2>7
<1> HIDE DEF G
<1>3. Cardinality(S) \in G
  <2>1. Nat \subseteq G
    BY <1>1, <1>2, CountingUp
  <2> QED BY <2>1, FS_CardinalityType
<1>4. PICK g \in [Small(Cardinality(S)) -> Int] : Fits(g, Cardinality(S))
  BY <1>3 DEF G
<1>5. Small(Cardinality(S)) = SUBSET S
  BY FS_Subset
<1> QED BY <1>4, <1>5 DEF Solves

(* There is only one. *)
LEMMA SumsAgree ==
  ASSUME NEW S, IsFiniteSet(S), NEW f, NEW g, NEW h, Solves(g, f, S), Solves(h, f, S)
  PROVE  g[S] = h[S]
<1> DEFINE G == {T \in SUBSET S : g[T] = h[T]}
<1>1. {} \in G
  BY DEF Solves
<1>2. ASSUME NEW T \in SUBSET S, T # {}, \A x \in T : T \ {x} \in G
      PROVE  T \in G
  <2>1. First(T) \in T
    BY <1>2 DEF First
  <2>2. g[T \ {First(T)}] = h[T \ {First(T)}]
    BY <2>1, <1>2
  <2> QED BY <2>2, <1>2 DEF Solves
<1> HIDE DEF G
<1>3. S \in G
  BY <1>1, <1>2, FiniteInduction
<1> QED BY <1>3 DEF G

(* It is what Total looks up, whatever set it is asked for. *)
LEMMA TotalSolves ==
  ASSUME NEW S, IsFiniteSet(S), NEW f, NEW g, Solves(g, f, S), NEW T \in SUBSET S
  PROVE  Total(f, T) = g[T]
<1> DEFINE Eqn(h) == h = [s \in SUBSET T |-> IF s = {} THEN 0
                             ELSE f[CHOOSE x \in s : TRUE] + h[s \ {CHOOSE x \in s : TRUE}]]
           k == [s \in SUBSET T |-> g[s]]
           h == CHOOSE h : Eqn(h)
<1>1. Eqn(k)
  <2>1. \A s \in SUBSET T : s \ {CHOOSE x \in s : TRUE} \in SUBSET T
    OBVIOUS
  <2> QED BY <2>1 DEF Solves, First
<1>2. Eqn(h)
  BY <1>1
<1>3. Total(f, T) = h[T]
  BY DEF Total, MapThenSumSet, MapThenFoldSet
<1>4. Solves(h, f, T)
  <2> HIDE DEF h
  <2> QED BY <1>2 DEF Solves, First
<1>5. Solves(g, f, T)
  BY DEF Solves
<1>6. IsFiniteSet(T)
  BY FS_Subset
<1>7. h[T] = g[T]
  <2> HIDE DEF h
  <2> QED BY <1>4, <1>5, <1>6, SumsAgree
<1> HIDE DEF h
<1> QED BY <1>3, <1>7

(* A sum can be taken apart at any member, not only at the chosen one.     *)
LEMMA TotalTakesAny ==
  ASSUME NEW S, IsFiniteSet(S), NEW f, \A i \in S : f[i] \in Int
  PROVE  /\ Total(f, S) \in Int /\ Total(f, {}) = 0
         /\ \A x \in S : Total(f, S) = f[x] + Total(f, S \ {x})
<1>0. PICK g \in [SUBSET S -> Int] : Solves(g, f, S)
  BY SumsExist
<1>1. \A T \in SUBSET S : Total(f, T) = g[T]
  BY <1>0, TotalSolves
<1> DEFINE G == {T \in SUBSET S : \A x \in T : g[T] = f[x] + g[T \ {x}]}
<1>2. {} \in G
  OBVIOUS
<1>3. ASSUME NEW T \in SUBSET S, T # {}, \A x \in T : T \ {x} \in G
      PROVE  T \in G
  <2> DEFINE c == First(T)
  <2>1. c \in T
    BY <1>3 DEF First
  <2>2. g[T] = f[c] + g[T \ {c}]
    BY <1>0, <1>3 DEF Solves
  <2> HIDE DEF c
  <2>3. ASSUME NEW x \in T, x # c PROVE g[T] = f[x] + g[T \ {x}]
    <3>1. g[T \ {c}] = f[x] + g[(T \ {c}) \ {x}]
      BY <1>3, <2>1, <2>3
    <3>2. g[T \ {x}] = f[c] + g[(T \ {x}) \ {c}]
      BY <1>3, <2>1, <2>3
    <3>3. (T \ {c}) \ {x} = (T \ {x}) \ {c}
      OBVIOUS
    <3>4. f[x] \in Int /\ f[c] \in Int /\ g[(T \ {x}) \ {c}] \in Int
      BY <1>0, <2>1
    <3>5. \A i, j, k \in Int : i + (j + k) = j + (i + k)
      OBVIOUS
    <3>6. f[x] + (f[c] + g[(T \ {x}) \ {c}]) = f[c] + (f[x] + g[(T \ {x}) \ {c}])
      BY <3>4, <3>5
    <3>7. g[T] = f[c] + (f[x] + g[(T \ {x}) \ {c}])
      BY <2>2, <3>1, <3>3
    <3> HIDE DEF G
    <3> QED BY <3>2, <3>6, <3>7
  <2> QED BY <2>2, <2>3
<1> HIDE DEF G
<1>4. S \in G
  BY <1>2, <1>3, FiniteInduction
<1>5. g[{}] = 0 /\ g[S] \in Int
  BY <1>0 DEF Solves
<1>6. \A x \in S : g[S] = f[x] + g[S \ {x}] /\ S \ {x} \in SUBSET S
  BY <1>4 DEF G
<1>7. {} \in SUBSET S /\ S \in SUBSET S
  OBVIOUS
<1> QED BY <1>1, <1>5, <1>6, <1>7

(* A sum depends only on what is held at the members of its set. *)
LEMMA TotalAgrees ==
  ASSUME NEW S, IsFiniteSet(S), NEW f, NEW h, \A i \in S : f[i] = h[i] /\ f[i] \in Int
  PROVE  Total(f, S) = Total(h, S)
<1> DEFINE G == {T \in SUBSET S : Total(f, T) = Total(h, T)}
<1>1. {} \in G
  BY TotalTakesAny, FS_EmptySet
<1>2. ASSUME NEW T \in SUBSET S, T # {}, \A x \in T : T \ {x} \in G
      PROVE  T \in G
  <2>1. PICK x \in T : TRUE
    BY <1>2
  <2>2. IsFiniteSet(T) /\ \A i \in T : f[i] \in Int /\ h[i] \in Int
    BY FS_Subset
  <2>3. Total(f, T) = f[x] + Total(f, T \ {x})
    BY <2>2, TotalTakesAny
  <2>4. Total(h, T) = h[x] + Total(h, T \ {x})
    BY <2>2, TotalTakesAny
  <2>5. Total(f, T \ {x}) = Total(h, T \ {x}) /\ f[x] = h[x]
    BY <1>2
  <2> QED BY <2>3, <2>4, <2>5
<1> HIDE DEF G
<1>3. S \in G
  BY <1>1, <1>2, FiniteInduction
<1> QED BY <1>3 DEF G

(* The sum over two sets that share nothing is the sum of the two sums. *)
LEMMA TotalJoins ==
  ASSUME NEW S, IsFiniteSet(S), NEW T, IsFiniteSet(T), S \cap T = {},
         NEW f, \A i \in S \cup T : f[i] \in Int
  PROVE  Total(f, S \cup T) = Total(f, S) + Total(f, T)
<1> DEFINE G == {U \in SUBSET T : Total(f, S \cup U) = Total(f, S) + Total(f, U)}
<1>0. Total(f, S) \in Int
  BY TotalTakesAny
<1>1. {} \in G
  <2>1. Total(f, {}) = 0 /\ S \cup {} = S
    BY TotalTakesAny
  <2> QED BY <1>0, <2>1
<1>2. ASSUME NEW U \in SUBSET T, U # {}, \A x \in U : U \ {x} \in G
      PROVE  U \in G
  <2>1. PICK x \in U : TRUE
    BY <1>2
  <2>2. IsFiniteSet(U) /\ IsFiniteSet(S \cup U) /\ x \in S \cup U
    BY FS_Subset, FS_Union
  <2>3. \A i \in S \cup U : f[i] \in Int
    OBVIOUS
  <2>4. (S \cup U) \ {x} = S \cup (U \ {x})
    OBVIOUS
  <2>5. Total(f, S \cup U) = f[x] + Total(f, S \cup (U \ {x}))
    BY <2>2, <2>3, <2>4, TotalTakesAny
  <2>6. Total(f, U) = f[x] + Total(f, U \ {x})
    BY <2>2, TotalTakesAny
  <2>7. Total(f, S \cup (U \ {x})) = Total(f, S) + Total(f, U \ {x})
    BY <1>2
  <2>8. f[x] \in Int /\ Total(f, U \ {x}) \in Int
    <3>1. IsFiniteSet(U \ {x}) /\ \A i \in U \ {x} : f[i] \in Int
      BY <2>2, FS_Subset
    <3> QED BY <2>3, <3>1, TotalTakesAny
  <2>9. Total(f, S \cup U) = Total(f, S) + Total(f, U)
    BY <1>0, <2>5, <2>6, <2>7, <2>8
  <2> QED BY <2>9
<1> HIDE DEF G
<1>3. T \in G
  BY <1>1, <1>2, FiniteInduction
<1> QED BY <1>3 DEF G

(* The sum over one member is what is held there. *)
LEMMA TotalOfOne ==
  ASSUME NEW f, NEW x, f[x] \in Int
  PROVE  Total(f, {x}) = f[x]
<1>1. IsFiniteSet({x}) /\ {x} \ {x} = {}
  BY FS_Singleton
<1>2. Total(f, {x}) = f[x] + Total(f, {x} \ {x}) /\ Total(f, {}) = 0
  BY <1>1, TotalTakesAny
<1> QED BY <1>1, <1>2

(* The sum over a stretch further on. *)
LEMMA TotalShifts ==
  ASSUME NEW n \in Nat, NEW K \in SUBSET Nat, IsFiniteSet(K), NEW f, NEW h,
         \A k \in K : f[n + k] = h[k] /\ h[k] \in Int
  PROVE  Total(f, {n + k : k \in K}) = Total(h, K) /\ IsFiniteSet({n + k : k \in K})
<1> DEFINE At(U) == {n + k : k \in U}
           G == {U \in SUBSET K : Total(f, At(U)) = Total(h, U) /\ IsFiniteSet(At(U))}
<1>1. {} \in G
  <2>1. Total(f, {}) = 0 /\ Total(h, {}) = 0 /\ At({}) = {} /\ IsFiniteSet({})
    BY TotalTakesAny, FS_EmptySet
  <2> QED BY <2>1
<1>2. ASSUME NEW U \in SUBSET K, U # {}, \A x \in U : U \ {x} \in G
      PROVE  U \in G
  <2>1. PICK x \in U : TRUE
    BY <1>2
  <2>2. Total(f, At(U \ {x})) = Total(h, U \ {x}) /\ IsFiniteSet(At(U \ {x}))
    BY <1>2, <2>1
  <2>3. At(U) = At(U \ {x}) \cup {n + x} /\ n + x \notin At(U \ {x})
    OBVIOUS
  <2>4. \A i \in At(U) : f[i] \in Int
    OBVIOUS
  <2>5. PICK V, W : V = At(U) /\ W = At(U \ {x})
    OBVIOUS
  <2> HIDE DEF At
  <2>6. IsFiniteSet(W) /\ V = W \cup {n + x} /\ V \ {n + x} = W
    BY <2>2, <2>3, <2>5
  <2>7. IsFiniteSet(V) /\ n + x \in V /\ \A i \in V : f[i] \in Int
    <3>1. IsFiniteSet(W \cup {n + x})
      BY <2>6, FS_AddElement
    <3> QED BY <3>1, <2>4, <2>5, <2>6
  <2>8. Total(f, V) = f[n + x] + Total(f, V \ {n + x})
    BY <2>7, TotalTakesAny
  <2>9. Total(h, U) = h[x] + Total(h, U \ {x})
    <3>1. IsFiniteSet(U) /\ \A k \in U : h[k] \in Int
      BY FS_Subset
    <3> QED BY <2>1, <3>1, TotalTakesAny
  <2>10. f[n + x] = h[x]
    BY <2>1
  <2> QED BY <2>2, <2>5, <2>6, <2>7, <2>8, <2>9, <2>10
<1> HIDE DEF G
<1>3. K \in G
  BY <1>1, <1>2, FiniteInduction
<1> QED BY <1>3 DEF G

-----------------------------------------------------------------------------
(***************************************************************************)
(* Sets in order.                                                          *)
(***************************************************************************)
LEMMA MaximumExists ==
  ASSUME NEW T \in SUBSET Nat, IsFiniteSet(T), T # {}
  PROVE  \E m \in T : \A j \in T : j =< m
<1> DEFINE G == {U \in SUBSET T : U = {} \/ \E m \in U : \A j \in U : j =< m}
<1>1. {} \in G
  OBVIOUS
<1>2. ASSUME NEW U \in SUBSET T, U # {}, \A x \in U : U \ {x} \in G
      PROVE  U \in G
  <2>1. PICK x \in U : TRUE
    BY <1>2
  <2>2. CASE U \ {x} = {}
    BY <2>2
  <2>3. CASE U \ {x} # {}
    <3>1. PICK m \in U \ {x} : \A j \in U \ {x} : j =< m
      BY <1>2, <2>3
    <3>2. m \in Nat /\ x \in Nat
      OBVIOUS
    <3>3. CASE x =< m
      BY <3>1, <3>3
    <3>4. CASE m =< x
      <4>1. \A j \in U : j =< x
        BY <3>1, <3>2, <3>4
      <4> QED BY <4>1
    <3> QED BY <3>2, <3>3, <3>4
  <2> QED BY <2>2, <2>3
<1> HIDE DEF G
<1>3. T \in G
  BY <1>1, <1>2, FiniteInduction
<1> QED BY <1>3 DEF G

UpTo(S, i) == {j \in S : j =< i}

(* The members up to one lie among those up to a later one. *)
LEMMA UpToGrows ==
  ASSUME NEW S \in SUBSET Nat, NEW t \in S, NEW i \in S, t =< i
  PROVE  UpTo(S, t) \subseteq UpTo(S, i)
<1>1. \A j \in S : j =< t => j =< i
  OBVIOUS
<1> QED BY <1>1 DEF UpTo

(* A finite set of naturals has a member of every rank.                     *)
LEMMA RanksExist ==
  ASSUME NEW S \in SUBSET Nat, IsFiniteSet(S)
  PROVE  \A k \in 1 .. Cardinality(S) : \E i \in S : Cardinality(UpTo(S, i)) = k
<1> DEFINE G == {T \in SUBSET S :
                   \A k \in 1 .. Cardinality(T) : \E i \in T : Cardinality(UpTo(T, i)) = k}
<1>1. {} \in G
  BY FS_EmptySet
<1>2. ASSUME NEW T \in SUBSET S, T # {}, \A x \in T : T \ {x} \in G
      PROVE  T \in G
  <2>1. IsFiniteSet(T) /\ Cardinality(T) \in Nat
    BY FS_Subset, FS_CardinalityType
  <2>2. PICK m \in T : \A j \in T : j =< m
    BY <1>2, <2>1, MaximumExists
  <2>3. UpTo(T, m) = T
    BY <2>2 DEF UpTo
  <2>4. Cardinality(T \ {m}) = Cardinality(T) - 1
    BY <2>1, FS_RemoveElement
  <2>5. ASSUME NEW i \in T \ {m} PROVE UpTo(T, i) = UpTo(T \ {m}, i)
    <3>1. i < m
      BY <2>2
    <3> QED BY <3>1 DEF UpTo
  <2>6. ASSUME NEW k \in 1 .. Cardinality(T) PROVE \E i \in T : Cardinality(UpTo(T, i)) = k
    <3>1. CASE k = Cardinality(T)
      BY <2>3, <3>1
    <3>2. CASE k # Cardinality(T)
      <4>1. k \in 1 .. Cardinality(T \ {m})
        BY <2>1, <2>4, <3>2
      <4>2. PICK i \in T \ {m} : Cardinality(UpTo(T \ {m}, i)) = k
        BY <1>2, <4>1
      <4> QED BY <2>5, <4>2
    <3> QED BY <3>1, <3>2
  <2> QED BY <2>6
<1> HIDE DEF G
<1>3. S \in G
  BY <1>1, <1>2, FiniteInduction
<1> QED BY <1>3 DEF G

(* InOrder lists a set of ids without repetition. *)
LEMMA InOrderLists ==
  ASSUME NEW S \in SUBSET Nat, IsFiniteSet(S)
  PROVE  /\ Cardinality(S) \in Nat
         /\ InOrder(S) \in [1 .. Cardinality(S) -> S]
         /\ InOrder(S) \in Seq(S) /\ Len(InOrder(S)) = Cardinality(S)
         /\ \A i \in S : \E k \in 1 .. Cardinality(S) : InOrder(S)[k] = i
         /\ \A k, l \in 1 .. Cardinality(S) : InOrder(S)[k] = InOrder(S)[l] => k = l
<1>1. Cardinality(S) \in Nat
  BY FS_CardinalityType
<1>2. ASSUME NEW k \in 1 .. Cardinality(S)
      PROVE  InOrder(S)[k] \in S /\ Cardinality(UpTo(S, InOrder(S)[k])) = k
  <2>1. \E i \in S : Cardinality({j \in S : j =< i}) = k
    BY RanksExist DEF UpTo
  <2>2. InOrder(S)[k] = CHOOSE i \in S : Cardinality({j \in S : j =< i}) = k
    BY DEF InOrder
  <2> QED BY <2>1, <2>2 DEF UpTo
<1>3. InOrder(S) \in [1 .. Cardinality(S) -> S]
  <2> DEFINE r(k) == CHOOSE i \in S : Cardinality({j \in S : j =< i}) = k
  <2>1. InOrder(S) = [k \in 1 .. Cardinality(S) |-> r(k)]
    BY DEF InOrder
  <2> HIDE DEF r
  <2>2. \A k \in 1 .. Cardinality(S) : r(k) \in S
    BY <1>2, <2>1
  <2> QED BY <2>1, <2>2
<1>4. ASSUME NEW i \in S PROVE \E k \in 1 .. Cardinality(S) : InOrder(S)[k] = i
  <2> DEFINE k == Cardinality(UpTo(S, i))
  <2>1. UpTo(S, i) \in SUBSET S /\ i \in UpTo(S, i)
    BY DEF UpTo
  <2>2. k \in Nat /\ k =< Cardinality(S) /\ k # 0
    BY <2>1, FS_Subset, FS_CardinalityType, FS_EmptySet
  <2>3. k \in 1 .. Cardinality(S)
    BY <1>1, <2>2
  <2>4. PICK t \in S : t = InOrder(S)[k] /\ Cardinality(UpTo(S, t)) = k
    BY <1>2, <2>3
  <2>5. UpTo(S, t) = UpTo(S, i)
    <3>1. UpTo(S, t) \subseteq UpTo(S, i) \/ UpTo(S, i) \subseteq UpTo(S, t)
      <4>1. t \in Nat /\ i \in Nat
        OBVIOUS
      <4>2. CASE t =< i
        BY <4>2, UpToGrows
      <4>3. CASE i =< t
        BY <4>3, UpToGrows
      <4> QED BY <4>1, <4>2, <4>3
    <3>2. IsFiniteSet(UpTo(S, i)) /\ IsFiniteSet(UpTo(S, t))
      <4>1. UpTo(S, t) \in SUBSET S
        BY DEF UpTo
      <4> QED BY <2>1, <4>1, FS_Subset
    <3> QED BY <2>4, <3>1, <3>2, FS_Subset
  <2>6. t = i
    <3>1. t \in UpTo(S, t) /\ i \in UpTo(S, i)
      BY DEF UpTo
    <3>2. t =< i /\ i =< t
      BY <2>5, <3>1 DEF UpTo
    <3> QED BY <3>2
  <2> QED BY <2>3, <2>4, <2>6
<1>5. ASSUME NEW k \in 1 .. Cardinality(S), NEW l \in 1 .. Cardinality(S),
             InOrder(S)[k] = InOrder(S)[l]
      PROVE  k = l
  BY <1>2, <1>5
<1>6. InOrder(S) \in Seq(S) /\ Len(InOrder(S)) = Cardinality(S)
  BY <1>1, <1>3
<1> QED BY <1>1, <1>3, <1>4, <1>5, <1>6

(* Listed lists any finite set without repetition. *)
LEMMA ListedLists ==
  ASSUME NEW S, IsFiniteSet(S)
  PROVE  /\ Cardinality(S) \in Nat
         /\ Listed(S) \in [1 .. Cardinality(S) -> S]
         /\ Listed(S) \in Seq(S) /\ Len(Listed(S)) = Cardinality(S)
         /\ \A i \in S : \E k \in 1 .. Cardinality(S) : Listed(S)[k] = i
         /\ \A k, l \in 1 .. Cardinality(S) : Listed(S)[k] = Listed(S)[l] => k = l
<1>1. Cardinality(S) \in Nat /\ ExistsBijection(1 .. Cardinality(S), S)
  BY FS_CardinalityType
<1>2. PICK f \in [1 .. Cardinality(S) -> S] : \A s \in S : \E k \in 1 .. Cardinality(S) : f[k] = s
  BY <1>1 DEF ExistsBijection, Bijection, Surjection
<1>3. \A s \in S : \E k \in DOMAIN f : f[k] = s
  BY <1>2
<1>4. /\ Listed(S) \in [1 .. Cardinality(S) -> S]
      /\ \A s \in S : \E k \in DOMAIN Listed(S) : Listed(S)[k] = s
  BY <1>3 DEF Listed
<1>5. Listed(S) \in Surjection(1 .. Cardinality(S), S)
  BY <1>4 DEF Surjection
<1>6. IsFiniteSet(1 .. Cardinality(S)) /\ Cardinality(1 .. Cardinality(S)) = Cardinality(S)
  BY <1>1, FS_Interval
<1>7. Listed(S) \in Injection(1 .. Cardinality(S), S)
  BY <1>5, <1>6, FS_SurjSameCardinalityImpliesInj
<1>8. \A k, l \in 1 .. Cardinality(S) : Listed(S)[k] = Listed(S)[l] => k = l
  BY <1>4, <1>7 DEF Injection, IsInjective
<1>9. \A i \in S : \E k \in 1 .. Cardinality(S) : Listed(S)[k] = i
  BY <1>5 DEF Surjection
<1>10. Listed(S) \in Seq(S) /\ Len(Listed(S)) = Cardinality(S)
  BY <1>1, <1>4
<1> QED BY <1>1, <1>4, <1>8, <1>9, <1>10

-----------------------------------------------------------------------------
(***************************************************************************)
(* What is posted on an account, table by table.                           *)
(***************************************************************************)
PostedIn(rows, St, a) == {i \in DOMAIN rows : rows[i].acct = a /\ rows[i].status \in St}
Held(rows, St, a) == Total(AmountsOf(rows), PostedIn(rows, St, a))
OnAccount(rows, S, a) == {i \in S : rows[i].acct = a}

(* What is posted on an account is held by transactions or by payments,     *)
(* before a step and after it.                                              *)
LEMMA PostedSumSplits ==
  ASSUME NEW a
  PROVE  /\ PostedSum(a) = Held(txns, {"posted"}, a) + Held(payments, PostedPayment, a)
         /\ PostedSum(a)' = Held(txns', {"posted"}, a) + Held(payments', PostedPayment, a)
BY DEF PostedSum, PostedTxns, PostedPayments, Held, PostedIn

(* Rows with amounts, and their positions. *)
LEMMA RowsHaveAmounts ==
  ASSUME NEW R, \A r \in R : r.amt \in Int, NEW rows \in Seq(R)
  PROVE  /\ Len(rows) \in Nat /\ DOMAIN rows = 1 .. Len(rows) /\ IsFiniteSet(DOMAIN rows)
         /\ DOMAIN AmountsOf(rows) = DOMAIN rows
         /\ \A i \in DOMAIN rows :
              rows[i] \in R /\ AmountsOf(rows)[i] = rows[i].amt /\ AmountsOf(rows)[i] \in Int
<1>1. Len(rows) \in Nat /\ DOMAIN rows = 1 .. Len(rows)
  OBVIOUS
<1>2. IsFiniteSet(DOMAIN rows)
  BY <1>1, FS_Interval
<1> QED BY <1>1, <1>2 DEF AmountsOf

(* What a table of integer amounts holds is an integer. *)
LEMMA HeldType ==
  ASSUME NEW R, \A r \in R : r.amt \in Int, NEW rows \in Seq(R), NEW St, NEW a
  PROVE  Held(rows, St, a) \in Int
<1>1. IsFiniteSet(PostedIn(rows, St, a))
  BY RowsHaveAmounts, FS_Subset DEF PostedIn
<1>2. \A i \in PostedIn(rows, St, a) : AmountsOf(rows)[i] \in Int
  BY RowsHaveAmounts DEF PostedIn
<1> QED BY <1>1, <1>2, TotalTakesAny DEF Held

(* Rows that reach a posted status add what they hold.                      *)
Reach(rows, next, St, S) ==
  /\ DOMAIN next = DOMAIN rows
  /\ \A i \in DOMAIN rows :
       /\ next[i].acct = rows[i].acct /\ next[i].amt = rows[i].amt
       /\ next[i].status \in St <=> (rows[i].status \in St \/ i \in S)
       /\ i \in S => rows[i].status \notin St

(* What reaches a posted status adds its amount. *)
LEMMA HeldMoves ==
  ASSUME NEW R, \A r \in R : r.amt \in Int, NEW rows \in Seq(R), NEW next,
         NEW St, NEW a, NEW S \in SUBSET DOMAIN rows, Reach(rows, next, St, S)
  PROVE  Held(next, St, a) = Held(rows, St, a) + Total(AmountsOf(rows), OnAccount(rows, S, a))
<1>1. AmountsOf(next) = AmountsOf(rows)
  BY DEF AmountsOf, Reach
<1>2. PostedIn(next, St, a) = PostedIn(rows, St, a) \cup OnAccount(rows, S, a)
  BY DEF PostedIn, OnAccount, Reach
<1>3. PostedIn(rows, St, a) \cap OnAccount(rows, S, a) = {}
  BY DEF PostedIn, OnAccount, Reach
<1>4. IsFiniteSet(PostedIn(rows, St, a)) /\ IsFiniteSet(OnAccount(rows, S, a))
  BY RowsHaveAmounts, FS_Subset DEF PostedIn, OnAccount
<1>5. \A i \in PostedIn(rows, St, a) \cup OnAccount(rows, S, a) : AmountsOf(rows)[i] \in Int
  BY RowsHaveAmounts DEF PostedIn, OnAccount
<1> QED BY <1>1, <1>2, <1>3, <1>4, <1>5, TotalJoins DEF Held

(* Rows that change neither their account, their amount nor whether they    *)
(* are posted leave it as it is.                                            *)
LEMMA HeldStays ==
  ASSUME NEW rows, NEW next, NEW St, NEW a, DOMAIN next = DOMAIN rows,
         \A i \in DOMAIN rows :
           /\ next[i].acct = rows[i].acct /\ next[i].amt = rows[i].amt
           /\ next[i].status \in St <=> rows[i].status \in St
  PROVE  Held(next, St, a) = Held(rows, St, a)
<1>1. AmountsOf(next) = AmountsOf(rows)
  BY DEF AmountsOf
<1>2. PostedIn(next, St, a) = PostedIn(rows, St, a)
  BY DEF PostedIn
<1> QED BY <1>1, <1>2 DEF Held

(* New rows add what those of them hold that are posted.                    *)
LEMMA HeldGrows ==
  ASSUME NEW R, \A r \in R : r.amt \in Int, NEW rows \in Seq(R), NEW new \in Seq(R),
         NEW St, NEW a
  PROVE  Held(rows \o new, St, a) = Held(rows, St, a) + Held(new, St, a)
<1> DEFINE n == Len(rows)
           P == PostedIn(rows, St, a)
           K == PostedIn(new, St, a)
           all == rows \o new
           later == {n + k : k \in K}
<1>1. n \in Nat /\ all \in Seq(R) /\ Len(all) = n + Len(new) /\ Len(new) \in Nat
      /\ DOMAIN rows = 1 .. n /\ DOMAIN new = 1 .. Len(new) /\ DOMAIN all = 1 .. Len(all)
  OBVIOUS
<1>2. /\ \A i \in DOMAIN rows : i \in DOMAIN all /\ all[i] = rows[i]
      /\ \A k \in DOMAIN new : n + k \in DOMAIN all /\ all[n + k] = new[k]
  BY <1>1
<1>3. \A i \in DOMAIN all : i \in DOMAIN rows \/ \E k \in DOMAIN new : i = n + k
  <2>1. ASSUME NEW i \in DOMAIN all, i \notin DOMAIN rows PROVE \E k \in DOMAIN new : i = n + k
    <3>1. i - n \in DOMAIN new /\ i = n + (i - n)
      BY <1>1, <2>1
    <3> QED BY <3>1
  <2> QED BY <2>1
<1> HIDE DEF n, all
<1>4. PostedIn(all, St, a) = P \cup later /\ P \cap later = {}
  <2>1. PostedIn(all, St, a) \subseteq P \cup later
    BY <1>2, <1>3 DEF PostedIn
  <2>2. P \cup later \subseteq PostedIn(all, St, a)
    BY <1>2 DEF PostedIn
  <2>3. P \cap later = {}
    BY <1>1 DEF PostedIn
  <2> QED BY <2>1, <2>2, <2>3
<1>5. IsFiniteSet(P) /\ IsFiniteSet(K) /\ K \in SUBSET Nat
  BY <1>1, RowsHaveAmounts, FS_Subset DEF PostedIn
<1>6. \A k \in K : AmountsOf(all)[n + k] = AmountsOf(new)[k] /\ AmountsOf(new)[k] \in Int
  <2>1. ASSUME NEW k \in DOMAIN new
        PROVE  AmountsOf(all)[n + k] = AmountsOf(new)[k] /\ AmountsOf(new)[k] \in Int
    <3>1. AmountsOf(all)[n + k] = all[n + k].amt
      BY <1>1, <1>2, RowsHaveAmounts
    <3>2. AmountsOf(new)[k] = new[k].amt /\ AmountsOf(new)[k] \in Int
      BY RowsHaveAmounts
    <3> QED BY <1>2, <3>1, <3>2
  <2> QED BY <2>1 DEF PostedIn
<1>7. \A i \in P : AmountsOf(rows)[i] = AmountsOf(all)[i] /\ AmountsOf(rows)[i] \in Int
  BY <1>1, <1>2, RowsHaveAmounts DEF PostedIn
<1> HIDE DEF P, K
<1>8. Total(AmountsOf(all), later) = Total(AmountsOf(new), K) /\ IsFiniteSet(later)
  BY <1>1, <1>5, <1>6, TotalShifts
<1>9. Total(AmountsOf(rows), P) = Total(AmountsOf(all), P)
  BY <1>5, <1>7, TotalAgrees
<1>10. \A i \in P \cup later : AmountsOf(all)[i] \in Int
  BY <1>6, <1>7
<1> HIDE DEF later
<1>11. Total(AmountsOf(all), P \cup later)
         = Total(AmountsOf(all), P) + Total(AmountsOf(all), later)
  BY <1>4, <1>5, <1>8, <1>10, TotalJoins
<1> QED BY <1>4, <1>8, <1>9, <1>11 DEF Held, P, K, all

(* A single row. *)
LEMMA HeldOfOne ==
  ASSUME NEW R, \A r \in R : r.amt \in Int, NEW row \in R, NEW St, NEW a
  PROVE  Held(<<row>>, St, a) = IF row.acct = a /\ row.status \in St THEN row.amt ELSE 0
<1>1. DOMAIN <<row>> = {1} /\ <<row>>[1] = row
  OBVIOUS
<1>2. AmountsOf(<<row>>)[1] = row.amt
  BY <1>1 DEF AmountsOf
<1>3. CASE row.acct = a /\ row.status \in St
  <2>1. PostedIn(<<row>>, St, a) = {1}
    BY <1>1, <1>3 DEF PostedIn
  <2>2. Total(AmountsOf(<<row>>), {1}) = row.amt
    BY <1>2, TotalOfOne
  <2> QED BY <1>3, <2>1, <2>2 DEF Held
<1>4. CASE ~ (row.acct = a /\ row.status \in St)
  <2>1. PostedIn(<<row>>, St, a) = {}
    BY <1>1, <1>4 DEF PostedIn
  <2>2. Total(AmountsOf(<<row>>), {}) = 0
    BY TotalTakesAny, FS_EmptySet
  <2> QED BY <1>4, <2>1, <2>2 DEF Held
<1> QED BY <1>3, <1>4

-----------------------------------------------------------------------------
(***************************************************************************)
(* The invariant.                                                          *)
(***************************************************************************)
Steps ==
  {"idle", "accounts", "decide", "disburse", "loans", "onboard", "apply", "deferred",
   "payments", "late", "reversals", "loan cash", "day", "void", "clear", "guard"}
Folding == step \in {"payments", "late", "reversals", "loan cash", "day"}

SeenRow ==
  [status : {"active", "dormant", "frozen"}, opened : Nat, limit : Nat, balance : Int]
CashEvent ==
  [acct : Accounts, amt : Int, kind : {"disbursement", "collection"}, of : Nat]
BatchRow ==
  [of : {"transaction", "payment"} \X Nat, acct : Accounts, day : Nat, legs : Seq(Int)]

LogType == [Tables -> [inserted : Nat, updated : SUBSET Nat]]

MoneyTypes ==
  /\ day \in Nat /\ step \in Steps /\ budget \in Nat
  /\ accounts \in [Accounts -> AccountRow]
  /\ txns \in Seq(TxnRow) /\ payments \in Seq(PaymentRow) /\ ledger \in Seq(BatchRow)
  /\ applications \in Seq(ApplicationRow) /\ Len(applications) =< MaxApplications
  /\ loans \in Seq(LoanRow) /\ installments \in Seq(InstallmentRow)
  /\ DOMAIN snap \subseteq Accounts /\ snap \in [DOMAIN snap -> SeenRow]
  /\ cash \in Seq(CashEvent) /\ fold \in [Accounts -> Int] /\ touched \subseteq Accounts
  /\ log \in LogType

(* What the tick decides against is open, and has the opening day and, as   *)
(* long as no balance was written, the balance of its row.                  *)
SnapInv ==
  \A a \in DOMAIN snap :
    /\ step # "idle" /\ Open(accounts[a]) /\ snap[a].opened = accounts[a].opened
    /\ ~ Folded => snap[a].balance = accounts[a].balance

(* An account that is open has not closed, one that is absent never moved,  *)
(* and no movement lies ahead.                                              *)
LifeInv ==
  /\ \A a \in Accounts :
       /\ accounts[a].opened =< day
       /\ Open(accounts[a]) => accounts[a].closed = 0
  /\ \A i \in DOMAIN txns :
       txns[i].booked =< day /\ accounts[txns[i].acct].status # "none"
  /\ \A i \in DOMAIN payments :
       payments[i].initiated =< day /\ accounts[payments[i].acct].status # "none"
  /\ NoMovementOutsideLife

(* What is posted is in the stored balance, or in the fold of the day.      *)
BalanceInv ==
  /\ Folding => \A a \in DOMAIN snap : fold[a] = PostedSum(a)
  /\ \A a \in Accounts :
       ~ (Folding /\ a \in DOMAIN snap) => accounts[a].balance = PostedSum(a)

MoneyInv == MoneyTypes /\ SnapInv /\ LifeInv /\ BalanceInv /\ LoanHasAnAccount

(* The amounts of both tables are integers. *)
LEMMA AmountsAreIntegers ==
  /\ \A r \in TxnRow : r.amt \in Int
  /\ \A r \in PaymentRow : r.amt \in Int
BY DEF TxnRow, PaymentRow

(* So what either table holds for an account is an integer. *)
LEMMA HeldIsInteger ==
  ASSUME NEW St, NEW a
  PROVE  /\ \A rows \in Seq(TxnRow) : Held(rows, St, a) \in Int
         /\ \A rows \in Seq(PaymentRow) : Held(rows, St, a) \in Int
<1>1. ASSUME NEW rows \in Seq(TxnRow) PROVE Held(rows, St, a) \in Int
  BY AmountsAreIntegers, HeldType
<1>2. ASSUME NEW rows \in Seq(PaymentRow) PROVE Held(rows, St, a) \in Int
  BY AmountsAreIntegers, HeldType
<1> QED BY <1>1, <1>2

(* And so is the sum the guard compares with a balance. *)
LEMMA PostedSumType ==
  ASSUME txns \in Seq(TxnRow), payments \in Seq(PaymentRow), NEW a
  PROVE  PostedSum(a) \in Int
<1>1. PostedSum(a) = Held(txns, {"posted"}, a) + Held(payments, PostedPayment, a)
  BY PostedSumSplits
<1> QED BY <1>1, HeldIsInteger

(* A function on the positions up to n is a table of n rows. *)
LEMMA RowsMakeASequence ==
  ASSUME NEW R, NEW n \in Nat, NEW f \in [1 .. n -> R]
  PROVE  f \in Seq(R) /\ Len(f) = n /\ DOMAIN f = 1 .. n
OBVIOUS

(* The batches of a set of rows: one for each, that moves what the row says. *)
LEMMA PostingPosts ==
  ASSUME NEW kind \in {"transaction", "payment"}, day \in Nat, NEW R,
         \A r \in R : r.acct \in Accounts /\ r.amt \in Int,
         NEW rows \in Seq(R), NEW S \in SUBSET DOMAIN rows
  PROVE  LET new == Posting(kind, rows, S) IN
         /\ new \in Seq(BatchRow) /\ Len(new) = Cardinality(S) /\ DOMAIN new = DOMAIN InOrder(S)
         /\ \A k \in DOMAIN new :
              /\ InOrder(S)[k] \in S
              /\ new[k] = Batch(kind, InOrder(S)[k], rows[InOrder(S)[k]].acct,
                                rows[InOrder(S)[k]].amt)
<1> DEFINE new == Posting(kind, rows, S)
<1>1. S \in SUBSET Nat /\ IsFiniteSet(S)
  <2>1. DOMAIN rows \subseteq Nat /\ IsFiniteSet(DOMAIN rows)
    BY RowsHaveAmounts
  <2> QED BY <2>1, FS_Subset
<1>2. InOrder(S) \in [1 .. Cardinality(S) -> S] /\ Cardinality(S) \in Nat
  BY <1>1, InOrderLists
<1>3. new = [k \in 1 .. Cardinality(S) |->
               Batch(kind, InOrder(S)[k], rows[InOrder(S)[k]].acct, rows[InOrder(S)[k]].amt)]
  BY <1>2 DEF Posting
<1>4. ASSUME NEW k \in 1 .. Cardinality(S)
      PROVE  Batch(kind, InOrder(S)[k], rows[InOrder(S)[k]].acct, rows[InOrder(S)[k]].amt)
               \in BatchRow
  <2>1. PICK i \in S : i = InOrder(S)[k]
    BY <1>2
  <2>2. i \in Nat /\ rows[i].acct \in Accounts /\ rows[i].amt \in Int
    BY <1>1
  <2>3. <<0 - rows[i].amt, rows[i].amt>> \in Seq(Int)
    BY <2>2
  <2> QED BY <2>1, <2>2, <2>3 DEF Batch, BatchRow
<1>5. new \in [1 .. Cardinality(S) -> BatchRow]
  BY <1>3, <1>4
<1> HIDE DEF new
<1>6. new \in Seq(BatchRow) /\ Len(new) = Cardinality(S) /\ DOMAIN new = 1 .. Cardinality(S)
  BY <1>2, <1>5, RowsMakeASequence
<1> QED BY <1>2, <1>3, <1>6 DEF new

(* A row of either table names an account and an integer amount. *)
LEMMA RowsHaveAccounts ==
  /\ \A r \in TxnRow : r.acct \in Accounts /\ r.amt \in Int
  /\ \A r \in PaymentRow : r.acct \in Accounts /\ r.amt \in Int
BY DEF TxnRow, PaymentRow

(* The batches of rows of either table are rows of the ledger. *)
LEMMA PostingTypes ==
  ASSUME day \in Nat, NEW S
  PROVE  /\ \A rows \in Seq(TxnRow) : S \subseteq DOMAIN rows =>
              Posting("transaction", rows, S) \in Seq(BatchRow)
         /\ \A rows \in Seq(PaymentRow) : S \subseteq DOMAIN rows =>
              Posting("payment", rows, S) \in Seq(BatchRow)
<1>1. ASSUME NEW rows \in Seq(TxnRow), S \subseteq DOMAIN rows
      PROVE  Posting("transaction", rows, S) \in Seq(BatchRow)
  BY <1>1, RowsHaveAccounts, PostingPosts
<1>2. ASSUME NEW rows \in Seq(PaymentRow), S \subseteq DOMAIN rows
      PROVE  Posting("payment", rows, S) \in Seq(BatchRow)
  BY <1>2, RowsHaveAccounts, PostingPosts
<1> QED BY <1>1, <1>2

(* A seeded source has the types. *)
LEMMA TypesInit == Init => MoneyTypes
<1> SUFFICES ASSUME Init PROVE MoneyTypes
  OBVIOUS
<1> DEFINE posted(rows) ==
             {i \in DOMAIN rows : rows[i].status \in {"posted"} \cup PostedPayment}
<1>1. PICK h \in Histories, limit \in Limits :
       /\ txns = h.txns /\ payments = h.payments /\ applications = h.applications
       /\ loans = h.loans /\ installments = h.installments
       /\ ledger = Posting("transaction", txns, posted(txns))
                   \o Posting("payment", payments, posted(payments))
       /\ accounts = [a \in Accounts |->
              IF a \in Newcomers THEN Absent
              ELSE [status |-> "active", opened |-> 0, closed |-> 0, limit |-> limit,
                    balance |-> PostedSum(a), at |-> 0]]
  BY DEF Init
<1>2. Seeded(h)
  BY HistoryAssumption
<1>3. /\ txns \in Seq(TxnRow) /\ payments \in Seq(PaymentRow)
      /\ applications \in Seq(ApplicationRow) /\ Len(applications) =< MaxApplications
      /\ loans \in Seq(LoanRow) /\ installments \in Seq(InstallmentRow)
  BY <1>1, <1>2 DEF Seeded
<1>4. \A a \in Accounts : PostedSum(a) \in Int
  BY <1>3, PostedSumType
<1>5. accounts \in [Accounts -> AccountRow]
  <2>1. Absent \in AccountRow
    BY DEF AccountRow, Absent
  <2>2. ASSUME NEW a \in Accounts
        PROVE  [status |-> "active", opened |-> 0, closed |-> 0, limit |-> limit,
                balance |-> PostedSum(a), at |-> 0] \in AccountRow
    BY <1>4, MoneyAssumption DEF AccountRow
  <2> QED BY <1>1, <2>1, <2>2
<1>6. day = 0 /\ step = "idle" /\ budget = Budget /\ snap = [a \in {} |-> 0] /\ cash = <<>>
      /\ fold = NoBalance /\ touched = {} /\ log = Quiet
  BY DEF Init
<1>7. ledger \in Seq(BatchRow)
  <2>1. posted(txns) \subseteq DOMAIN txns /\ posted(payments) \subseteq DOMAIN payments
    OBVIOUS
  <2> HIDE DEF posted
  <2>2. Posting("transaction", txns, posted(txns)) \in Seq(BatchRow)
    BY <1>3, <1>6, <2>1, PostingTypes
  <2>3. Posting("payment", payments, posted(payments)) \in Seq(BatchRow)
    BY <1>3, <1>6, <2>1, PostingTypes
  <2> QED BY <1>1, <2>2, <2>3
<1>8. log \in LogType
  BY <1>6 DEF Quiet, LogType
<1>9. /\ day \in Nat /\ step \in Steps /\ budget \in Nat
      /\ DOMAIN snap \subseteq Accounts /\ snap \in [DOMAIN snap -> SeenRow]
      /\ cash \in Seq(CashEvent) /\ touched \subseteq Accounts
  BY <1>6, MoneyAssumption DEF Steps
<1>10. fold \in [Accounts -> Int]
  BY <1>6 DEF NoBalance
<1> QED BY <1>3, <1>5, <1>7, <1>8, <1>9, <1>10 DEF MoneyTypes

-----------------------------------------------------------------------------
(***************************************************************************)
(* Types.                                                                  *)
(***************************************************************************)
LEMMA LogKeeps ==
  ASSUME NEW l \in LogType, NEW t \in Tables, NEW n \in Nat, NEW S \in SUBSET Nat
  PROVE  Inserted(l, t, n) \in LogType /\ Updated(l, t, S) \in LogType
BY DEF LogType, Inserted, Updated

(* Positions of a table are finitely many naturals. *)
LEMMA PositionsAreFinite ==
  ASSUME NEW R, NEW rows \in Seq(R), NEW S \in SUBSET DOMAIN rows
  PROVE  S \in SUBSET Nat /\ IsFiniteSet(S) /\ Cardinality(S) \in Nat
<1>1. DOMAIN rows \subseteq Nat /\ IsFiniteSet(DOMAIN rows)
  <2>1. DOMAIN rows = 1 .. Len(rows) /\ Len(rows) \in Nat
    OBVIOUS
  <2> QED BY <2>1, FS_Interval
<1> QED BY <1>1, FS_Subset, FS_CardinalityType

(* And so are accounts. *)
LEMMA AccountsAreFinite ==
  ASSUME NEW S \in SUBSET Accounts
  PROVE  S \in SUBSET Nat /\ IsFiniteSet(S) /\ Cardinality(S) \in Nat
BY MoneyAssumption, FS_Subset, FS_CardinalityType

(* What is left of the budget is a natural. *)
LEMMA SpendKeeps ==
  ASSUME budget \in Nat, NEW n \in Nat, Spend(n)
  PROVE  budget' \in Nat
BY DEF Spend

(* What some rows of a table hold for an account is an integer. *)
LEMMA PartsAreIntegers ==
  ASSUME NEW a, NEW S
  PROVE  /\ \A rows \in Seq(TxnRow) :
              S \subseteq DOMAIN rows => Total(AmountsOf(rows), OnAccount(rows, S, a)) \in Int
         /\ \A rows \in Seq(PaymentRow) :
              S \subseteq DOMAIN rows => Total(AmountsOf(rows), OnAccount(rows, S, a)) \in Int
<1>1. ASSUME NEW R, \A r \in R : r.amt \in Int, NEW rows \in Seq(R), S \subseteq DOMAIN rows
      PROVE  Total(AmountsOf(rows), OnAccount(rows, S, a)) \in Int
  <2>1. OnAccount(rows, S, a) \subseteq DOMAIN rows
    BY <1>1 DEF OnAccount
  <2>2. IsFiniteSet(OnAccount(rows, S, a))
    BY <2>1, PositionsAreFinite
  <2>3. \A i \in OnAccount(rows, S, a) : AmountsOf(rows)[i] \in Int
    BY <1>1, <2>1, RowsHaveAmounts
  <2> QED BY <2>2, <2>3, TotalTakesAny
<1>2. ASSUME NEW rows \in Seq(TxnRow), S \subseteq DOMAIN rows
      PROVE  Total(AmountsOf(rows), OnAccount(rows, S, a)) \in Int
  BY <1>1, <1>2, AmountsAreIntegers
<1>3. ASSUME NEW rows \in Seq(PaymentRow), S \subseteq DOMAIN rows
      PROVE  Total(AmountsOf(rows), OnAccount(rows, S, a)) \in Int
  BY <1>1, <1>3, AmountsAreIntegers
<1> QED BY <1>2, <1>3

(* Fold.apply adds, account by account, what the rows hold for it. *)
LEMMA MovedAdds ==
  ASSUME NEW R, \A r \in R : r.amt \in Int, NEW rows \in Seq(R), NEW S \in SUBSET DOMAIN rows,
         NEW balance \in [Accounts -> Int]
  PROVE  /\ Moved(balance, rows, S) \in [Accounts -> Int]
         /\ \A a \in Accounts :
              Moved(balance, rows, S)[a] = balance[a] + Total(AmountsOf(rows), OnAccount(rows, S, a))
<1>1. ASSUME NEW a \in Accounts PROVE Total(AmountsOf(rows), OnAccount(rows, S, a)) \in Int
  <2>1. OnAccount(rows, S, a) \subseteq DOMAIN rows
    BY DEF OnAccount
  <2>2. IsFiniteSet(OnAccount(rows, S, a))
    BY <2>1, PositionsAreFinite
  <2>3. \A i \in OnAccount(rows, S, a) : AmountsOf(rows)[i] \in Int
    BY <2>1, RowsHaveAmounts
  <2> QED BY <2>2, <2>3, TotalTakesAny
<1> QED BY <1>1 DEF Moved, OnAccount

(* The snapshot is typed when it is read. *)
LEMMA BeginTickTypes == MoneyTypes /\ BeginTick => MoneyTypes'
<1> SUFFICES ASSUME MoneyTypes, BeginTick PROVE MoneyTypes'
  OBVIOUS
<1> DEFINE open == {a \in Accounts : Open(accounts[a])}
<1>1. step' = "accounts" /\ day' = day + 1 /\ snap' = [a \in open |-> Seen(accounts[a])]
      /\ log' = Quiet
  BY DEF BeginTick, Goes
<1>2. ASSUME NEW a \in open PROVE Seen(accounts[a]) \in SeenRow
  BY SMTT(40) DEF MoneyTypes, AccountRow, Open, Seen, SeenRow
<1>3. DOMAIN snap' = open /\ snap' \in [open -> SeenRow]
  BY <1>1, <1>2
<1>4. log' \in LogType
  BY <1>1 DEF Quiet, LogType
<1>5. step' \in Steps /\ day' \in Nat
  <2>1. day \in Nat
    BY DEF MoneyTypes
  <2> QED BY <1>1, <2>1 DEF Steps
<1> QED BY <1>3, <1>4, <1>5 DEF BeginTick, book, MoneyTypes

(* The overnight sweep keeps the types. *)
LEMMA SweepTypes == MoneyTypes /\ SweepAccounts => MoneyTypes'
<1> SUFFICES ASSUME MoneyTypes, SweepAccounts PROVE MoneyTypes'
  OBVIOUS
<1>1. PICK change \in [DOMAIN snap -> {"keep", "limit", "dormant", "frozen", "active", "closed"}],
           limit \in Limits :
       LET changed == {a \in DOMAIN snap : change[a] # "keep"}
           moved == {a \in changed : change[a] # "limit"}
           closed == {a \in changed : change[a] = "closed"}
       IN  /\ \A a \in changed : MayChange(a, change[a])
           /\ Spend(Cardinality(changed))
           /\ accounts' = [a \in Accounts |->
                IF a \in moved
                THEN [accounts[a] EXCEPT !.status = change[a], !.at = day,
                                         !.closed = IF a \in closed THEN day ELSE @]
                ELSE IF a \in changed THEN [accounts[a] EXCEPT !.limit = limit, !.at = day]
                ELSE accounts[a]]
           /\ snap' = [a \in DOMAIN snap \ closed |->
                IF a \in moved THEN [snap[a] EXCEPT !.status = change[a]] ELSE snap[a]]
           /\ log' = Updated(log, "accounts", changed)
  BY Zenon DEF SweepAccounts
<1> DEFINE changed == {a \in DOMAIN snap : change[a] # "keep"}
           moved == {a \in changed : change[a] # "limit"}
           closed == {a \in changed : change[a] = "closed"}
<1>2. changed \in SUBSET Nat /\ Cardinality(changed) \in Nat
  BY AccountsAreFinite DEF MoneyTypes
<1>3. budget' \in Nat
  <2>1. Spend(Cardinality(changed)) /\ budget \in Nat
    BY <1>1 DEF MoneyTypes
  <2> HIDE DEF changed
  <2> QED BY <1>2, <2>1, SpendKeeps
<1>4. accounts' \in [Accounts -> AccountRow]
  <2>1. limit \in Nat /\ day \in Nat
    BY MoneyAssumption DEF MoneyTypes
  <2>2. ASSUME NEW a \in Accounts PROVE accounts'[a] \in AccountRow
    <3>1. accounts[a] \in AccountRow
      BY DEF MoneyTypes
    <3>2. CASE a \in moved
      <4>1. change[a] \in {"dormant", "frozen", "active", "closed"}
        BY <3>2
      <4> QED BY <1>1, <2>1, <3>1, <3>2, <4>1 DEF AccountRow
    <3>3. CASE a \notin moved
      BY <1>1, <2>1, <3>1, <3>3 DEF AccountRow
    <3> QED BY <3>2, <3>3
  <2> QED BY <1>1, <2>2
<1>5. DOMAIN snap' \subseteq Accounts /\ snap' \in [DOMAIN snap' -> SeenRow]
  <2>1. ASSUME NEW a \in DOMAIN snap \ closed
        PROVE  (IF a \in moved THEN [snap[a] EXCEPT !.status = change[a]] ELSE snap[a]) \in SeenRow
    <3>1. snap[a] \in SeenRow
      BY DEF MoneyTypes
    <3>2. CASE a \in moved
      <4>1. change[a] \in {"dormant", "frozen", "active"}
        BY <2>1, <3>2
      <4> QED BY <3>1, <3>2, <4>1 DEF SeenRow
    <3> QED BY <3>1, <3>2
  <2>2. snap' = [a \in DOMAIN snap \ closed |->
                   IF a \in moved THEN [snap[a] EXCEPT !.status = change[a]] ELSE snap[a]]
    BY <1>1
  <2> HIDE DEF closed, moved, changed
  <2> QED BY <2>1, <2>2 DEF MoneyTypes
<1>6. log' \in LogType
  <2>1. log' = Updated(log, "accounts", changed) /\ log \in LogType /\ "accounts" \in Tables
    BY <1>1 DEF MoneyTypes, Tables
  <2> QED BY <1>2, <2>1, LogKeeps
<1>7. step' \in Steps
  BY DEF SweepAccounts, Goes, Steps
<1> QED BY <1>3, <1>4, <1>5, <1>6, <1>7 DEF SweepAccounts, MoneyTypes

(* A decided application is an application. *)
LEMMA DecidedRow ==
  ASSUME NEW x \in ApplicationRow, NEW d \in Nat,
         NEW s \in Undecided \cup {"approved", "rejected"}
  PROVE  [x EXCEPT !.decided = d, !.at = d, !.status = s] \in ApplicationRow
<1> DEFINE B == BOOLEAN
           U == Undecided \cup {"approved", "rejected"}
<1>1. ApplicationRow = [cust : Nat, status : U, applied : Int, decided : Int, deleted : B,
                        at : Int]
  BY DEF ApplicationRow
<1>2. s \in U /\ d \in Int
  OBVIOUS
<1> HIDE DEF B, U
<1> QED BY <1>1, <1>2

(* Deciding keeps the types. *)
LEMMA DecideTypes == MoneyTypes /\ DecideApplications => MoneyTypes'
<1> SUFFICES ASSUME MoneyTypes, DecideApplications PROVE MoneyTypes'
  OBVIOUS
<1> DEFINE ready == {i \in DOMAIN applications :
                       /\ applications[i].status \in Undecided /\ ~ applications[i].deleted
                       /\ applications[i].applied + Draws[i].decides =< day}
           judged == {i \in ready : Draws[i].roll = "judged"}
<1>1. PICK approved \in SUBSET judged :
        applications' = [i \in DOMAIN applications |->
                IF i \notin ready THEN applications[i]
                ELSE [applications[i] EXCEPT !.decided = day, !.at = day,
                        !.status = IF i \in approved THEN "approved"
                                   ELSE IF i \in judged THEN "rejected" ELSE Draws[i].roll]]
  BY DEF DecideApplications
<1>2. log' = Updated(log, "loan_applications", ready)
  BY DEF DecideApplications
<1>3. DOMAIN applications = 1 .. Len(applications) /\ Len(applications) \in Nat
      /\ Len(applications) =< MaxApplications
  BY DEF MoneyTypes
<1>4. ASSUME NEW i \in DOMAIN applications PROVE applications'[i] \in ApplicationRow
  <2>1. applications[i] \in ApplicationRow /\ day \in Nat
    BY DEF MoneyTypes
  <2>2. Draws[i] \in [decides : Nat, roll : {"judged", "withdrawn", "expired"}, drawn : BOOLEAN,
                      disburses : Nat]
    BY <1>3, MoneyAssumption
  <2>3. CASE i \in ready
    <3> DEFINE s == IF i \in approved THEN "approved"
                    ELSE IF i \in judged THEN "rejected" ELSE Draws[i].roll
    <3>1. s \in Undecided \cup {"approved", "rejected"}
      BY <2>2, <2>3 DEF Undecided
    <3> HIDE DEF s
    <3>2. applications'[i] = [applications[i] EXCEPT !.decided = day, !.at = day, !.status = s]
      BY <1>1, <2>3 DEF s
    <3> HIDE DEF ready, judged
    <3>3. PICK x \in ApplicationRow, d \in Nat : x = applications[i] /\ d = day
      BY <2>1
    <3>4. [x EXCEPT !.decided = d, !.at = d, !.status = s] \in ApplicationRow
      BY <3>1, DecidedRow
    <3> QED BY <3>2, <3>3, <3>4, Zenon
  <2>4. CASE i \notin ready
    BY <1>1, <2>1, <2>4
  <2> QED BY <2>3, <2>4
<1>5. applications' \in Seq(ApplicationRow) /\ Len(applications') = Len(applications)
  <2>1. applications' \in [1 .. Len(applications) -> ApplicationRow]
    BY <1>1, <1>3, <1>4
  <2> QED BY <1>3, <2>1, RowsMakeASequence
<1>6. log' \in LogType
  <2>1. ready \in SUBSET DOMAIN applications /\ applications \in Seq(ApplicationRow)
    BY DEF MoneyTypes
  <2>2. ready \in SUBSET Nat
    BY <2>1, PositionsAreFinite
  <2>3. log \in LogType /\ "loan_applications" \in Tables
    BY DEF MoneyTypes, Tables
  <2> QED BY <1>2, <2>2, <2>3, LogKeeps
<1>7. step' \in Steps
  BY DEF DecideApplications, Goes, Steps
<1> QED BY <1>3, <1>5, <1>6, <1>7 DEF DecideApplications, MoneyTypes

-----------------------------------------------------------------------------
(***************************************************************************)
(* Rows that a handler writes.                                             *)
(***************************************************************************)
TxnStatus == {"pending", "posted", "declined"}
TxnKind == {"drawn", "deposit", "late", "reversal", "disbursement", "collection"}

(* A transaction that is posted keeps its account, amount and business day. *)
LEMMA PostedTxn ==
  ASSUME NEW x \in TxnRow, NEW d \in Nat
  PROVE  LET r == [x EXCEPT !.status = "posted", !.at = d] IN
         /\ r \in TxnRow /\ r.acct = x.acct /\ r.amt = x.amt /\ r.booked = x.booked
         /\ r.status = "posted"
<1> DEFINE B == BOOLEAN
<1>1. TxnRow = [acct : Accounts, amt : Int, status : TxnStatus, booked : Int, made : Int,
                at : Int, kind : TxnKind, of : Nat, deleted : B]
  BY DEF TxnRow, TxnStatus, TxnKind
<1>2. "posted" \in TxnStatus /\ d \in Int
  BY DEF TxnStatus
<1> HIDE DEF B
<1> QED BY <1>1, <1>2

(* A voided transaction keeps those and its status. *)
LEMMA VoidedTxn ==
  ASSUME NEW x \in TxnRow, NEW d \in Nat
  PROVE  LET r == [x EXCEPT !.deleted = TRUE, !.at = d] IN
         /\ r \in TxnRow /\ r.acct = x.acct /\ r.amt = x.amt /\ r.booked = x.booked
         /\ r.status = x.status
<1> DEFINE B == BOOLEAN
           yes == TRUE
<1>1. TxnRow = [acct : Accounts, amt : Int, status : TxnStatus, booked : Int, made : Int,
                at : Int, kind : TxnKind, of : Nat, deleted : B]
  BY DEF TxnRow, TxnStatus, TxnKind
<1>2. yes \in B /\ d \in Int
  OBVIOUS
<1> HIDE DEF B, yes
<1>3. [x EXCEPT !.deleted = yes, !.at = d] \in TxnRow
  BY <1>1, <1>2
<1>4. LET r == [x EXCEPT !.deleted = yes, !.at = d] IN
      /\ r.acct = x.acct /\ r.amt = x.amt /\ r.booked = x.booked /\ r.status = x.status
  BY <1>1
<1> HIDE DEF TxnRow
<1> QED BY <1>3, <1>4 DEF yes

(* What the tick writes as a transaction is one. *)
LEMMA NewTxn ==
  ASSUME NEW a \in Accounts, NEW amount \in Int, NEW status \in TxnStatus, NEW booked \in Int,
         NEW kind \in TxnKind, NEW of \in Nat, day \in Nat
  PROVE  LET r == Txn(a, amount, status, booked, kind, of) IN
         /\ r \in TxnRow /\ r.acct = a /\ r.amt = amount /\ r.status = status
         /\ r.booked = booked
BY DEF Txn, TxnRow, TxnStatus, TxnKind

(* A payment that is booked or settled keeps its account, amount and day. *)
LEMMA WrittenPayment ==
  ASSUME NEW x \in PaymentRow, NEW d \in Nat
  PROVE  /\ LET r == [x EXCEPT !.status = "booked", !.booked = d, !.at = d] IN
            /\ r \in PaymentRow /\ r.acct = x.acct /\ r.amt = x.amt
            /\ r.initiated = x.initiated /\ r.status = "booked"
         /\ LET r == [x EXCEPT !.status = "settled", !.at = d] IN
            /\ r \in PaymentRow /\ r.acct = x.acct /\ r.amt = x.amt
            /\ r.initiated = x.initiated /\ r.status = "settled"
<1> DEFINE U == PostedPayment \cup {"pending", "rejected"}
<1>1. PaymentRow = [acct : Accounts, amt : Int, status : U, initiated : Int, booked : Int,
                    at : Int]
  BY DEF PaymentRow
<1>2. "booked" \in U /\ "settled" \in U /\ d \in Int
  BY DEF PostedPayment
<1> HIDE DEF U
<1> QED BY <1>1, <1>2

(* A cleared application is an application. *)
LEMMA ClearedApplication ==
  ASSUME NEW x \in ApplicationRow, NEW d \in Nat
  PROVE  [x EXCEPT !.deleted = TRUE, !.at = d] \in ApplicationRow
<1> DEFINE B == BOOLEAN
           U == Undecided \cup {"approved", "rejected"}
           yes == TRUE
<1>1. ApplicationRow = [cust : Nat, status : U, applied : Int, decided : Int, deleted : B,
                        at : Int]
  BY DEF ApplicationRow
<1>2. yes \in B /\ d \in Int
  OBVIOUS
<1> HIDE DEF B, U, yes
<1>3. [x EXCEPT !.deleted = yes, !.at = d] \in ApplicationRow
  BY <1>1, <1>2
<1> QED BY <1>3 DEF yes

(* An application names a customer. *)
LEMMA ApplicationHasCustomer == \A x \in ApplicationRow : x.cust \in Nat
<1> DEFINE B == BOOLEAN
           U == Undecided \cup {"approved", "rejected"}
<1>1. ApplicationRow = [cust : Nat, status : U, applied : Int, decided : Int, deleted : B,
                        at : Int]
  BY DEF ApplicationRow
<1> HIDE DEF B, U
<1> QED BY <1>1

(* A loan that closes or falls into arrears keeps its borrower. *)
LEMMA WrittenLoan ==
  ASSUME NEW x \in LoanRow, NEW d \in Nat, NEW s \in {"closed", "arrears"}
  PROVE  LET r == [x EXCEPT !.status = s, !.at = d] IN
         r \in LoanRow /\ r.cust = x.cust /\ r.status = s
<1> DEFINE U == Servicing \cup {"closed"}
<1>1. LoanRow = [app : Nat, cust : Nat, status : U, disbursed : Int, at : Int]
  BY DEF LoanRow
<1>2. s \in U /\ d \in Int
  BY DEF Servicing
<1> HIDE DEF U
<1> QED BY <1>1, <1>2

(* A paid installment is an installment. *)
LEMMA WrittenInstallment ==
  ASSUME NEW x \in InstallmentRow, NEW d \in Nat
  PROVE  x.loan \in Nat /\ [x EXCEPT !.paid = d, !.at = d] \in InstallmentRow
<1>1. x.loan \in Nat
  BY DEF InstallmentRow
<1>2. d \in Int
  OBVIOUS
<1>3. [x EXCEPT !.paid = d, !.at = d] \in InstallmentRow
  BY <1>2 DEF InstallmentRow
<1> QED BY <1>1, <1>3

(* What InsertPosted does to the types. *)
LEMMA InsertTypes ==
  ASSUME MoneyTypes, NEW new \in Seq(TxnRow), NEW batches \in Seq(BatchRow),
         InsertPosted(new, batches)
  PROVE  /\ txns' \in Seq(TxnRow) /\ ledger' \in Seq(BatchRow)
         /\ fold' \in [Accounts -> Int] /\ touched' \subseteq Accounts /\ log' \in LogType
<1>1. txns' = txns \o new /\ ledger' = ledger \o batches /\ fold' = Moved(fold, new, DOMAIN new)
      /\ touched' = touched \cup AccountsOf(new, DOMAIN new)
      /\ log' = Inserted(log, "transactions", Len(new))
  BY DEF InsertPosted
<1>2. txns' \in Seq(TxnRow) /\ ledger' \in Seq(BatchRow)
  BY <1>1 DEF MoneyTypes
<1>3. fold \in [Accounts -> Int] /\ log \in LogType /\ "transactions" \in Tables
  BY DEF MoneyTypes, Tables
<1>4. fold' \in [Accounts -> Int]
  BY <1>1, <1>3, AmountsAreIntegers, MovedAdds
<1>5. touched' \subseteq Accounts
  <2>1. \A i \in DOMAIN new : new[i] \in TxnRow
    OBVIOUS
  <2> QED BY <1>1, <2>1, RowsHaveAccounts DEF AccountsOf, MoneyTypes
<1>6. log' \in LogType
  <2>1. Len(new) \in Nat
    OBVIOUS
  <2> QED BY <1>1, <1>3, <2>1, LogKeeps
<1> QED BY <1>2, <1>4, <1>5, <1>6

(* The batches of new transactions. *)
LEMMA BatchesOfTypes ==
  ASSUME day \in Nat, txns \in Seq(TxnRow), NEW new \in Seq(TxnRow)
  PROVE  /\ BatchesOf(new) \in Seq(BatchRow) /\ Len(BatchesOf(new)) = Len(new)
         /\ DOMAIN BatchesOf(new) = DOMAIN new
<1>1. DOMAIN new = 1 .. Len(new) /\ Len(new) \in Nat /\ Len(txns) \in Nat
  OBVIOUS
<1>2. ASSUME NEW k \in DOMAIN new
      PROVE  Batch("transaction", Len(txns) + k, new[k].acct, new[k].amt) \in BatchRow
  <2>1. new[k].acct \in Accounts /\ new[k].amt \in Int /\ Len(txns) + k \in Nat
    BY <1>1, RowsHaveAccounts
  <2>2. <<0 - new[k].amt, new[k].amt>> \in Seq(Int)
    BY <2>1
  <2> QED BY <2>1, <2>2 DEF Batch, BatchRow
<1>3. BatchesOf(new) \in [1 .. Len(new) -> BatchRow]
  BY <1>1, <1>2 DEF BatchesOf
<1> QED BY <1>1, <1>3, RowsMakeASequence

-----------------------------------------------------------------------------
(***************************************************************************)
(* What a handler does, as far as the invariant is concerned: types, and    *)
(* the rows of the tables it writes.                                       *)
(***************************************************************************)
LEMMA Products == \A i, j \in Nat : i * j \in Nat
OBVIOUS

(* Quotient and remainder, which place an installment in the schedule of    *)
(* its loan.                                                                *)
LEMMA Divides ==
  ASSUME NEW i \in Nat, NEW t \in Nat \ {0}
  PROVE  i \div t \in Nat /\ i % t \in Nat
OBVIOUS

(* Pairs of an item and an account, listed. *)
LEMMA PairsListed ==
  ASSUME NEW I \in SUBSET Nat, IsFiniteSet(I), NEW pairs \in SUBSET (I \X Accounts)
  PROVE  /\ Cardinality(pairs) \in Nat /\ Len(Listed(pairs)) = Cardinality(pairs)
         /\ DOMAIN Listed(pairs) = 1 .. Cardinality(pairs)
         /\ \A k \in DOMAIN Listed(pairs) :
              /\ Listed(pairs)[k] \in pairs
              /\ Listed(pairs)[k][1] \in I /\ Listed(pairs)[k][2] \in Accounts
<1>1. IsFiniteSet(pairs)
  BY MoneyAssumption, FS_Product, FS_Subset
<1>2. Cardinality(pairs) \in Nat /\ Listed(pairs) \in [1 .. Cardinality(pairs) -> pairs]
      /\ Len(Listed(pairs)) = Cardinality(pairs)
  BY <1>1, ListedLists
<1> QED BY <1>2

(* Disbursing keeps the types, and every new loan has an open account of    *)
(* its borrower.                                                            *)
LEMMA DisburseDoes ==
  ASSUME MoneyTypes, DisburseApproved
  PROVE  /\ MoneyTypes'
         /\ \A l \in DOMAIN loans' :
              \/ l \in DOMAIN loans /\ loans'[l] = loans[l]
              \/ Primary(loans'[l].cust) # {}
<1> DEFINE drawable == {j \in DOMAIN applications : Drawable(j)}
           pairs == UNION {{<<i, a>> : a \in Primary(applications[i].cust)} : i \in drawable}
           rows == Listed(pairs)
           first == Len(loans)
           lent == [k \in DOMAIN rows |->
              [app |-> rows[k][1], cust |-> applications[rows[k][1]].cust,
               status |-> "current", disbursed |-> day, at |-> day]]
           schedule == [n \in 1 .. Len(rows) * Term |->
              [loan |-> first + 1 + ((n - 1) \div Term),
               due |-> day + Month * (1 + ((n - 1) % Term)), paid |-> 0, made |-> day, at |-> day]]
           events == [k \in DOMAIN rows |->
              [acct |-> rows[k][2], amt |-> Principal * Term, kind |-> "disbursement",
               of |-> first + k]]
<1>1. /\ loans' = loans \o lent /\ installments' = installments \o schedule
      /\ cash' = cash \o events
      /\ log' = Inserted(Inserted(log, "loans", Len(rows)), "loan_installments", Len(rows) * Term)
      /\ step' = "loans"
      /\ UNCHANGED <<day, accounts, txns, payments, ledger, applications, snap, fold, touched,
                     budget>>
  BY DEF DisburseApproved, Goes
<1>2. drawable \in SUBSET DOMAIN applications /\ applications \in Seq(ApplicationRow)
      /\ first \in Nat /\ day \in Nat /\ Term \in Nat \ {0} /\ Month \in Nat /\ Principal \in Nat
  BY MoneyAssumption DEF MoneyTypes
<1>3. drawable \in SUBSET Nat /\ IsFiniteSet(drawable)
  BY <1>2, PositionsAreFinite
<1>4. pairs \in SUBSET (drawable \X Accounts)
  BY DEF Primary
<1>5. \A p \in pairs : p[1] \in drawable /\ p[2] \in Primary(applications[p[1]].cust)
  OBVIOUS
<1> DEFINE N == Cardinality(pairs)
<1>6. /\ N \in Nat /\ Len(rows) = N /\ DOMAIN rows = 1 .. N
      /\ \A k \in 1 .. N : rows[k] \in pairs /\ rows[k][1] \in drawable /\ rows[k][2] \in Accounts
  <2> HIDE DEF pairs, drawable
  <2> QED BY <1>3, <1>4, PairsListed
<1> HIDE DEF pairs, rows, N
<1>7. lent \in Seq(LoanRow) /\ DOMAIN lent = 1 .. N /\ Len(lent) = N
  <2>1. ASSUME NEW k \in 1 .. N PROVE lent[k] \in LoanRow
    <3>1. rows[k][1] \in DOMAIN applications /\ rows[k][1] \in Nat
      BY <1>3, <1>6
    <3>2. applications[rows[k][1]].cust \in Nat
      BY <1>2, <3>1, ApplicationHasCustomer
    <3> QED BY <1>2, <1>6, <3>1, <3>2 DEF LoanRow, Servicing
  <2>2. lent \in [1 .. N -> LoanRow]
    BY <1>6, <2>1
  <2> HIDE DEF lent
  <2> QED BY <1>6, <2>2, RowsMakeASequence
<1>8. schedule \in Seq(InstallmentRow)
  <2>1. N * Term \in Nat
    BY <1>2, <1>6, Products
  <2>2. ASSUME NEW n \in 1 .. N * Term PROVE schedule[n] \in InstallmentRow
    <3>1. (n - 1) \div Term \in Nat /\ (n - 1) % Term \in Nat
      <4>1. n - 1 \in Nat
        BY <2>1
      <4> QED BY <1>2, <4>1, Divides
    <3>2. PICK q \in Nat, r \in Nat : q = (n - 1) \div Term /\ r = (n - 1) % Term
      BY <3>1
    <3>3. Month * (1 + r) \in Nat
      BY <1>2, Products
    <3>4. schedule[n] = [loan |-> first + 1 + q, due |-> day + Month * (1 + r), paid |-> 0,
                         made |-> day, at |-> day]
      BY <1>6, <3>2
    <3>5. first + 1 + q \in Nat /\ day + Month * (1 + r) \in Int
      BY <1>2, <3>3
    <3> QED BY <1>2, <3>4, <3>5 DEF InstallmentRow
  <2>3. schedule \in [1 .. N * Term -> InstallmentRow]
    BY <1>6, <2>2
  <2> QED BY <2>1, <2>3, RowsMakeASequence
<1>9. events \in Seq(CashEvent)
  <2>1. Principal * Term \in Int
    BY <1>2, Products
  <2>2. ASSUME NEW k \in 1 .. N PROVE events[k] \in CashEvent
    BY <1>2, <1>6, <2>1 DEF CashEvent
  <2>3. events \in [1 .. N -> CashEvent]
    BY <1>6, <2>2
  <2> QED BY <1>6, <2>3, RowsMakeASequence
<1>10. log' \in LogType
  <2>1. log \in LogType /\ "loans" \in Tables /\ "loan_installments" \in Tables
    BY DEF MoneyTypes, Tables
  <2>2. N * Term \in Nat
    BY <1>2, <1>6, Products
  <2>3. Inserted(log, "loans", N) \in LogType
    BY <1>6, <2>1, LogKeeps
  <2> QED BY <1>1, <1>6, <2>1, <2>2, <2>3, LogKeeps
<1> HIDE DEF lent, schedule, events
<1>11. MoneyTypes'
  <2>1. loans' \in Seq(LoanRow) /\ installments' \in Seq(InstallmentRow) /\ cash' \in Seq(CashEvent)
    BY <1>1, <1>7, <1>8, <1>9 DEF MoneyTypes
  <2>2. step' \in Steps
    BY <1>1 DEF Steps
  <2> QED BY <1>1, <1>10, <2>1, <2>2 DEF MoneyTypes
<1>12. ASSUME NEW l \in DOMAIN loans', ~ (l \in DOMAIN loans /\ loans'[l] = loans[l])
       PROVE  Primary(loans'[l].cust) # {}
  <2>1. loans \in Seq(LoanRow)
    BY DEF MoneyTypes
  <2>2. l - first \in 1 .. N /\ loans'[l] = lent[l - first]
    BY <1>1, <1>6, <1>7, <1>12, <2>1
  <2>3. loans'[l].cust = applications[rows[l - first][1]].cust
    BY <1>6, <2>2 DEF lent
  <2> QED BY <1>5, <1>6, <2>2, <2>3
<1> QED BY <1>11, <1>12

(* Collecting keeps the types, changes no borrower, and reopens no loan. *)
LEMMA CollectDoes ==
  ASSUME MoneyTypes, CollectInstallments
  PROVE  /\ MoneyTypes' /\ DOMAIN loans' = DOMAIN loans
         /\ \A l \in DOMAIN loans :
              /\ loans'[l].cust = loans[l].cust
              /\ loans'[l].status \in Servicing => loans[l].status \in Servicing
<1> DEFINE borrower(i) == loans[installments[i].loan].cust
           due == {i \in DOMAIN installments :
                   /\ installments[i].paid = 0 /\ installments[i].due =< day
                   /\ loans[installments[i].loan].status \in Servicing
                   /\ Primary(borrower(i)) # {}}
           overdue(i) == day - installments[i].due
           stuck == {installments[i].loan : i \in {j \in due : overdue(j) > Grace}}
           pairs(paid) == UNION {{<<i, a>> : a \in Primary(borrower(i))} : i \in paid}
           settled(paid) == {l \in DOMAIN loans :
                    /\ loans[l].status \in Servicing /\ loans[l].disbursed < day
                    /\ \A i \in DOMAIN installments :
                         installments[i].loan = l => installments'[i].paid # 0}
           fallen == {l \in stuck : loans[l].status # "arrears"}
           events(rows) == [k \in DOMAIN rows |->
                       [acct |-> rows[k][2], amt |-> 0 - (Principal + Interest),
                        kind |-> "collection", of |-> rows[k][1]]]
<1>1. PICK paid \in SUBSET due :
        /\ installments' = [i \in DOMAIN installments |->
                IF i \in paid THEN [installments[i] EXCEPT !.paid = day, !.at = day]
                ELSE installments[i]]
        /\ cash' = cash \o events(Listed(pairs(paid)))
        /\ loans' = [l \in DOMAIN loans |->
                       IF l \in settled(paid) THEN [loans[l] EXCEPT !.status = "closed", !.at = day]
                       ELSE IF l \in fallen THEN [loans[l] EXCEPT !.status = "arrears", !.at = day]
                       ELSE loans[l]]
        /\ log' = Updated(Updated(log, "loan_installments", paid),
                          "loans", settled(paid) \cup fallen)
  BY DEF CollectInstallments
<1>2. step' = "onboard"
      /\ UNCHANGED <<day, accounts, txns, payments, ledger, applications, snap, fold, touched,
                     budget>>
  BY DEF CollectInstallments, Goes
<1>3. paid \in SUBSET DOMAIN installments /\ installments \in Seq(InstallmentRow)
      /\ loans \in Seq(LoanRow) /\ day \in Nat
  BY DEF MoneyTypes
<1>4. paid \in SUBSET Nat /\ IsFiniteSet(paid)
  BY <1>3, PositionsAreFinite
<1> DEFINE P == pairs(paid)
           N == Cardinality(P)
<1>5. /\ N \in Nat /\ DOMAIN Listed(P) = 1 .. N
      /\ \A k \in 1 .. N : Listed(P)[k][1] \in paid /\ Listed(P)[k][2] \in Accounts
  <2>1. P \in SUBSET (paid \X Accounts)
    BY DEF Primary
  <2> HIDE DEF P
  <2> QED BY <1>4, <2>1, PairsListed
<1>6. cash' \in Seq(CashEvent)
  <2> DEFINE new == events(Listed(P))
  <2>1. cash' = cash \o new
    BY <1>1
  <2> HIDE DEF P, N
  <2>2. ASSUME NEW k \in 1 .. N PROVE new[k] \in CashEvent
    <3>1. Listed(P)[k][1] \in Nat /\ Listed(P)[k][2] \in Accounts
      BY <1>4, <1>5
    <3>2. 0 - (Principal + Interest) \in Int
      BY MoneyAssumption
    <3> QED BY <1>5, <3>1, <3>2 DEF CashEvent
  <2>3. new \in [1 .. N -> CashEvent]
    BY <1>5, <2>2
  <2>4. new \in Seq(CashEvent)
    BY <1>5, <2>3, RowsMakeASequence
  <2> QED BY <2>1, <2>4 DEF MoneyTypes
<1> HIDE DEF P, N
<1>7. installments' \in Seq(InstallmentRow)
  <2>1. ASSUME NEW i \in DOMAIN installments PROVE installments'[i] \in InstallmentRow
    <3>1. installments[i] \in InstallmentRow
      BY <1>3
    <3>2. [installments[i] EXCEPT !.paid = day, !.at = day] \in InstallmentRow
      BY <1>3, <3>1, WrittenInstallment
    <3> HIDE DEF due
    <3> QED BY <1>1, <3>1, <3>2
  <2>2. DOMAIN installments = 1 .. Len(installments) /\ Len(installments) \in Nat
    BY <1>3
  <2>3. installments' \in [1 .. Len(installments) -> InstallmentRow]
    BY <1>1, <2>1, <2>2
  <2> QED BY <2>2, <2>3, RowsMakeASequence
<1>8. \A l \in fallen : loans[l].status \in Servicing
  OBVIOUS
<1>9. fallen \in SUBSET Nat /\ settled(paid) \in SUBSET Nat
  <2>1. DOMAIN loans \subseteq Nat
    BY <1>3
  <2>2. \A i \in due : installments[i].loan \in Nat
    <3>1. \A i \in DOMAIN installments : installments[i] \in InstallmentRow
      BY <1>3
    <3> QED BY <3>1, WrittenInstallment
  <2> QED BY <2>1, <2>2
<1>10. log' \in LogType
  <2>1. log \in LogType /\ "loans" \in Tables /\ "loan_installments" \in Tables
    BY DEF MoneyTypes, Tables
  <2>2. Updated(log, "loan_installments", paid) \in LogType
    BY <1>4, <2>1, LogKeeps
  <2>3. settled(paid) \cup fallen \in SUBSET Nat
    BY <1>9
  <2> QED BY <1>1, <2>1, <2>2, <2>3, LogKeeps
<1> HIDE DEF fallen
<1>11. ASSUME NEW l \in DOMAIN loans
       PROVE  /\ loans'[l] \in LoanRow /\ loans'[l].cust = loans[l].cust
              /\ loans'[l].status \in Servicing => loans[l].status \in Servicing
  <2>1. loans[l] \in LoanRow
    BY <1>3
  <2>2. CASE l \in settled(paid)
    <3>1. loans'[l] = [loans[l] EXCEPT !.status = "closed", !.at = day]
      BY <1>1, <2>2
    <3>2. "closed" \notin Servicing
      BY DEF Servicing
    <3>3. LET r == [loans[l] EXCEPT !.status = "closed", !.at = day] IN
          r \in LoanRow /\ r.cust = loans[l].cust /\ r.status = "closed"
      BY <1>3, <2>1, WrittenLoan, Zenon
    <3> HIDE DEF settled, due
    <3> QED BY <3>1, <3>2, <3>3
  <2>3. CASE l \notin settled(paid) /\ l \in fallen
    <3>1. loans'[l] = [loans[l] EXCEPT !.status = "arrears", !.at = day]
      BY <1>1, <2>3
    <3>2. LET r == [loans[l] EXCEPT !.status = "arrears", !.at = day] IN
          r \in LoanRow /\ r.cust = loans[l].cust
      BY <1>3, <2>1, WrittenLoan, Zenon
    <3> HIDE DEF settled, due
    <3> QED BY <1>8, <2>3, <3>1, <3>2
  <2>4. CASE l \notin settled(paid) /\ l \notin fallen
    BY <1>1, <2>1, <2>4
  <2> QED BY <2>2, <2>3, <2>4
<1>12. DOMAIN loans' = DOMAIN loans /\ loans' \in Seq(LoanRow)
  <2>1. DOMAIN loans = 1 .. Len(loans) /\ Len(loans) \in Nat
    BY <1>3
  <2>2. loans' \in [1 .. Len(loans) -> LoanRow]
    BY <1>1, <1>11, <2>1
  <2> QED BY <2>1, <2>2, RowsMakeASequence
<1>13. MoneyTypes'
  <2>1. step' \in Steps
    BY <1>2 DEF Steps
  <2> QED BY <1>2, <1>6, <1>7, <1>10, <1>12, <2>1 DEF MoneyTypes
<1> QED BY <1>11, <1>12, <1>13

(* A batch stands for a row: it moves the account by what the row says, and *)
(* balances.                                                               *)
StandsFor(batch, kind, id, row) ==
  /\ batch.of = <<kind, id>> /\ batch.acct = row.acct
  /\ batch.legs[1] = 0 - row.amt /\ Total(batch.legs, DOMAIN batch.legs) = 0

(* The sum of the two legs of a movement. *)
LEMMA TwoLegs ==
  ASSUME NEW x \in Int, NEW y \in Int
  PROVE  Total(<<x, y>>, DOMAIN <<x, y>>) = x + y
<1>1. DOMAIN <<x, y>> = {1, 2} /\ <<x, y>>[1] = x /\ <<x, y>>[2] = y
  OBVIOUS
<1>2. PICK f : f = <<x, y>>
  OBVIOUS
<1>3. IsFiniteSet({1, 2}) /\ {1, 2} \ {1} = {2}
  <2>1. IsFiniteSet(1 .. 2) /\ 1 .. 2 = {1, 2}
    <3>1. IsFiniteSet(1 .. 2)
      BY 1 \in Int, 2 \in Int, FS_Interval
    <3> QED BY <3>1
  <2> QED BY <2>1
<1>4. Total(f, {1, 2}) = f[1] + Total(f, {1, 2} \ {1})
  BY <1>1, <1>2, <1>3, TotalTakesAny
<1>5. Total(f, {2}) = f[2]
  BY <1>1, <1>2, TotalOfOne
<1> QED BY <1>1, <1>2, <1>3, <1>4, <1>5

(* The sum of the three legs of a collection. *)
LEMMA ThreeLegs ==
  ASSUME NEW x \in Int, NEW y \in Int, NEW z \in Int
  PROVE  Total(<<x, y, z>>, DOMAIN <<x, y, z>>) = x + y + z
<1>1. DOMAIN <<x, y, z>> = {1, 2, 3}
      /\ <<x, y, z>>[1] = x /\ <<x, y, z>>[2] = y /\ <<x, y, z>>[3] = z
  OBVIOUS
<1>2. PICK f : f = <<x, y, z>>
  OBVIOUS
<1>3. IsFiniteSet({1, 2, 3}) /\ IsFiniteSet({2, 3})
      /\ {1, 2, 3} \ {1} = {2, 3} /\ {2, 3} \ {2} = {3}
  <2>1. IsFiniteSet(1 .. 3) /\ 1 .. 3 = {1, 2, 3}
    <3>1. IsFiniteSet(1 .. 3)
      BY 1 \in Int, 3 \in Int, FS_Interval
    <3> QED BY <3>1
  <2>2. IsFiniteSet(2 .. 3) /\ 2 .. 3 = {2, 3}
    <3>1. IsFiniteSet(2 .. 3)
      BY 2 \in Int, 3 \in Int, FS_Interval
    <3> QED BY <3>1
  <2> QED BY <2>1, <2>2
<1>4. Total(f, {1, 2, 3}) = f[1] + Total(f, {1, 2, 3} \ {1})
  <2>1. PICK T : T = {1, 2, 3}
    OBVIOUS
  <2>2. IsFiniteSet(T) /\ 1 \in T /\ \A i \in T : f[i] \in Int
    BY <1>1, <1>2, <1>3, <2>1
  <2> QED BY <2>1, <2>2, TotalTakesAny
<1>5. Total(f, {2, 3}) = f[2] + Total(f, {2, 3} \ {2})
  BY <1>1, <1>2, <1>3, TotalTakesAny
<1>6. Total(f, {3}) = f[3]
  BY <1>1, <1>2, TotalOfOne
<1> QED BY <1>1, <1>2, <1>3, <1>4, <1>5, <1>6

(* A batch of two legs stands for the row it was made from. *)
LEMMA BatchStandsFor ==
  ASSUME NEW kind, NEW id, NEW row, row.amt \in Int
  PROVE  StandsFor(Batch(kind, id, row.acct, row.amt), kind, id, row)
<1>1. PICK x \in Int : x = row.amt
  OBVIOUS
<1>2. Total(<<0 - x, x>>, DOMAIN <<0 - x, x>>) = (0 - x) + x
  BY TwoLegs
<1>3. Total(<<0 - x, x>>, DOMAIN <<0 - x, x>>) = 0
  BY <1>2
<1> QED BY <1>1, <1>3 DEF StandsFor, Batch

(* And so does the batch that separates principal from interest. *)
LEMMA LoanBatchStandsFor ==
  ASSUME NEW id \in Nat, NEW e \in CashEvent, day \in Nat, NEW row,
         row.acct = e.acct, row.amt = e.amt
  PROVE  StandsFor(LoanBatch(id, e), "transaction", id, row) /\ LoanBatch(id, e) \in BatchRow
<1>1. PICK x \in Int : x = e.amt
  BY DEF CashEvent
<1>2. Principal \in Int /\ e.acct \in Accounts
  BY MoneyAssumption DEF CashEvent
<1>3. CASE e.amt > 0 \/ Interest = 0
  <2>1. Total(<<0 - x, x>>, DOMAIN <<0 - x, x>>) = (0 - x) + x
    BY TwoLegs
  <2>2. LoanBatch(id, e).legs = <<0 - x, x>>
    BY <1>1, <1>3 DEF LoanBatch
  <2>3. <<0 - x, x>> \in Seq(Int) /\ <<0 - x, x>>[1] = 0 - x /\ (0 - x) + x = 0
    OBVIOUS
  <2> QED BY <1>1, <1>2, <2>1, <2>2, <2>3 DEF StandsFor, LoanBatch, BatchRow
<1>4. CASE ~ (e.amt > 0 \/ Interest = 0)
  <2>1. Total(<<0 - x, 0 - Principal, x + Principal>>, DOMAIN <<0 - x, 0 - Principal, x + Principal>>)
          = (0 - x) + (0 - Principal) + (x + Principal)
    BY <1>2, ThreeLegs
  <2>2. LoanBatch(id, e).legs = <<0 - x, 0 - Principal, x + Principal>>
    BY <1>1, <1>4 DEF LoanBatch
  <2>3. <<0 - x, 0 - Principal, x + Principal>> \in Seq(Int)
        /\ <<0 - x, 0 - Principal, x + Principal>>[1] = 0 - x
        /\ (0 - x) + (0 - Principal) + (x + Principal) = 0
    BY <1>2
  <2> QED BY <1>1, <1>2, <2>1, <2>2, <2>3 DEF StandsFor, LoanBatch, BatchRow
<1> QED BY <1>3, <1>4

(* Rows the clearing cycle inserts: posted, of accounts the tick decides     *)
(* against, and not before they opened.                                    *)
PostsNew(new, batches) ==
  /\ new \in Seq(TxnRow) /\ batches \in Seq(BatchRow) /\ Len(batches) = Len(new)
  /\ \A k \in DOMAIN new :
       /\ new[k].acct \in DOMAIN snap /\ new[k].status = "posted" /\ new[k].booked =< day
       /\ new[k].booked = day \/ snap[new[k].acct].opened =< new[k].booked
       /\ StandsFor(batches[k], "transaction", Len(txns) + k, new[k])
  /\ InsertPosted(new, batches)
  /\ UNCHANGED <<day, accounts, payments, applications, loans, installments, snap>>

(* The batches of new transactions stand for them, one by one. *)
LEMMA BatchesOfStandFor ==
  ASSUME day \in Nat, txns \in Seq(TxnRow), NEW new \in Seq(TxnRow)
  PROVE  \A k \in DOMAIN new :
           StandsFor(BatchesOf(new)[k], "transaction", Len(txns) + k, new[k])
<1>1. ASSUME NEW k \in DOMAIN new
      PROVE  StandsFor(BatchesOf(new)[k], "transaction", Len(txns) + k, new[k])
  <2>1. BatchesOf(new)[k] = Batch("transaction", Len(txns) + k, new[k].acct, new[k].amt)
    BY DEF BatchesOf
  <2>2. new[k].amt \in Int
    BY RowsHaveAccounts
  <2> QED BY <2>1, <2>2, BatchStandsFor
<1> QED BY <1>1

(* Inserting posted rows keeps the types. *)
LEMMA PostsNewTypes ==
  ASSUME MoneyTypes, NEW new, NEW batches, PostsNew(new, batches),
         budget' \in Nat, step' \in Steps, cash' \in Seq(CashEvent)
  PROVE  MoneyTypes'
<1>1. /\ txns' \in Seq(TxnRow) /\ ledger' \in Seq(BatchRow)
      /\ fold' \in [Accounts -> Int] /\ touched' \subseteq Accounts /\ log' \in LogType
  BY InsertTypes DEF PostsNew
<1> QED BY <1>1 DEF PostsNew, MoneyTypes

(* Late arrivals are inserted as posted rows of admissible days. *)
LEMMA LateDoes ==
  ASSUME MoneyTypes, ClearLateArrivals
  PROVE  /\ MoneyTypes' /\ step = "late" /\ step' = "reversals"
         /\ \E new, batches : PostsNew(new, batches)
<1>1. PICK S \in SUBSET {p \in (DOMAIN snap) \X Lags : Admissible(p[1], p[2])} :
        /\ Spend(Cardinality(S))
        /\ LET new == [k \in DOMAIN Listed(S) |->
                         Txn(Listed(S)[k][1], -1, "posted", day - Listed(S)[k][2], "late", 0)]
           IN  InsertPosted(new, BatchesOf(new))
  BY DEF ClearLateArrivals
<1> DEFINE new == [k \in DOMAIN Listed(S) |->
                     Txn(Listed(S)[k][1], -1, "posted", day - Listed(S)[k][2], "late", 0)]
<1>2. IsFiniteSet(S)
  <2>1. IsFiniteSet(DOMAIN snap) /\ IsFiniteSet(Lags)
    BY MoneyAssumption, AccountsAreFinite DEF MoneyTypes
  <2>2. S \in SUBSET ((DOMAIN snap) \X Lags)
    OBVIOUS
  <2> QED BY <2>1, <2>2, FS_Product, FS_Subset
<1>3. Cardinality(S) \in Nat /\ DOMAIN Listed(S) = 1 .. Cardinality(S)
      /\ \A k \in 1 .. Cardinality(S) : Listed(S)[k] \in S
  BY <1>2, ListedLists
<1>4. ASSUME NEW k \in 1 .. Cardinality(S)
      PROVE  /\ new[k] \in TxnRow
             /\ new[k].acct \in DOMAIN snap /\ new[k].status = "posted" /\ new[k].booked =< day
             /\ snap[new[k].acct].opened =< new[k].booked
  <2>1. PICK a \in DOMAIN snap, lag \in Lags : Listed(S)[k] = <<a, lag>> /\ Admissible(a, lag)
    BY <1>3
  <2>2. a \in Accounts /\ lag \in Nat /\ day \in Nat /\ day - lag \in Int
    <3>1. lag \in Nat /\ day \in Nat
      BY MoneyAssumption DEF MoneyTypes
    <3>2. a \in Accounts
      BY DEF MoneyTypes
    <3> QED BY <3>1, <3>2
  <2>3. new[k] = Txn(a, -1, "posted", day - lag, "late", 0)
    BY <1>3, <2>1
  <2>4. new[k] \in TxnRow /\ new[k].acct = a /\ new[k].status = "posted"
        /\ new[k].booked = day - lag
    <3>1. "posted" \in TxnStatus /\ "late" \in TxnKind /\ -1 \in Int /\ 0 \in Nat
      BY DEF TxnStatus, TxnKind
    <3> HIDE DEF new
    <3> QED BY <2>2, <2>3, <3>1, NewTxn
  <2>5. snap[a].opened =< day - lag
    BY <2>1 DEF Admissible
  <2> HIDE DEF new
  <2> QED BY <2>2, <2>4, <2>5
<1>5. new \in Seq(TxnRow) /\ DOMAIN new = 1 .. Cardinality(S)
  <2>1. new \in [1 .. Cardinality(S) -> TxnRow]
    BY <1>3, <1>4
  <2> HIDE DEF new
  <2> QED BY <1>3, <2>1, RowsMakeASequence
<1> HIDE DEF new
<1>6. PostsNew(new, BatchesOf(new))
  <2>1. InsertPosted(new, BatchesOf(new))
    BY <1>1 DEF new
  <2>2. UNCHANGED <<day, accounts, payments, applications, loans, installments, snap>>
    BY DEF ClearLateArrivals
  <2>3. day \in Nat /\ txns \in Seq(TxnRow)
    BY DEF MoneyTypes
  <2> QED BY <1>4, <1>5, <2>1, <2>2, <2>3, BatchesOfTypes, BatchesOfStandFor DEF PostsNew
<1>7. MoneyTypes'
  <2>1. budget' \in Nat
    BY <1>1, <1>3, SpendKeeps DEF MoneyTypes
  <2>2. step' \in Steps /\ cash' \in Seq(CashEvent)
    BY DEF ClearLateArrivals, Goes, Steps, MoneyTypes
  <2> QED BY <1>6, <2>1, <2>2, PostsNewTypes
<1> QED BY <1>6, <1>7 DEF ClearLateArrivals, Goes

(* Reversals are inserted as posted rows of the day. *)
LEMMA ReverseDoes ==
  ASSUME MoneyTypes, ReverseRecentPostings
  PROVE  /\ MoneyTypes' /\ step = "reversals" /\ step' = "loan cash"
         /\ \E new, batches : PostsNew(new, batches)
<1>1. PICK S \in SUBSET {i \in DOMAIN txns : Reversible(i)} :
        /\ Spend(Cardinality(S))
        /\ LET rows == InOrder(S)
               new == [k \in DOMAIN rows |->
                     Txn(txns[rows[k]].acct, 0 - txns[rows[k]].amt, "posted", day,
                         "reversal", rows[k])]
           IN  InsertPosted(new, BatchesOf(new))
  BY DEF ReverseRecentPostings
<1> DEFINE rows == InOrder(S)
           new == [k \in DOMAIN rows |->
                     Txn(txns[rows[k]].acct, 0 - txns[rows[k]].amt, "posted", day,
                         "reversal", rows[k])]
<1>2. S \in SUBSET DOMAIN txns /\ txns \in Seq(TxnRow) /\ day \in Nat
  BY DEF MoneyTypes
<1>3. S \in SUBSET Nat /\ IsFiniteSet(S) /\ Cardinality(S) \in Nat
  BY <1>2, PositionsAreFinite
<1>4. DOMAIN rows = 1 .. Cardinality(S) /\ \A k \in 1 .. Cardinality(S) : rows[k] \in S
  BY <1>3, InOrderLists
<1>5. ASSUME NEW k \in 1 .. Cardinality(S)
      PROVE  /\ new[k] \in TxnRow
             /\ new[k].acct \in DOMAIN snap /\ new[k].status = "posted" /\ new[k].booked = day
  <2>1. PICK i \in S : rows[k] = i
    BY <1>4
  <2>2. txns[i] \in TxnRow /\ i \in Nat /\ txns[i].acct \in DOMAIN snap
    BY <1>2, <1>3 DEF Reversible
  <2>3. txns[i].acct \in Accounts /\ 0 - txns[i].amt \in Int
    <3>1. txns[i].acct \in Accounts /\ txns[i].amt \in Int
      BY <2>2, RowsHaveAccounts
    <3> QED BY <3>1
  <2>4. new[k] = Txn(txns[i].acct, 0 - txns[i].amt, "posted", day, "reversal", i)
    BY <1>4, <2>1
  <2>5. "posted" \in TxnStatus /\ "reversal" \in TxnKind /\ day \in Int
    BY <1>2 DEF TxnStatus, TxnKind
  <2> HIDE DEF new, rows
  <2> QED BY <1>2, <2>2, <2>3, <2>4, <2>5, NewTxn
<1>6. new \in Seq(TxnRow) /\ DOMAIN new = 1 .. Cardinality(S)
  <2> HIDE DEF rows
  <2>1. new \in [1 .. Cardinality(S) -> TxnRow]
    BY <1>4, <1>5
  <2> HIDE DEF new
  <2> QED BY <1>3, <2>1, RowsMakeASequence
<1> HIDE DEF new
<1>7. PostsNew(new, BatchesOf(new))
  <2>1. InsertPosted(new, BatchesOf(new))
    BY <1>1 DEF new
  <2>2. UNCHANGED <<day, accounts, payments, applications, loans, installments, snap>>
    BY DEF ReverseRecentPostings
  <2>3. \A k \in DOMAIN new :
          /\ new[k].acct \in DOMAIN snap /\ new[k].status = "posted" /\ new[k].booked =< day
          /\ new[k].booked = day
    BY <1>2, <1>5, <1>6
  <2> QED BY <1>2, <1>6, <2>1, <2>2, <2>3, BatchesOfTypes, BatchesOfStandFor DEF PostsNew
<1>8. MoneyTypes'
  <2>1. budget' \in Nat
    BY <1>1, <1>3, SpendKeeps DEF MoneyTypes
  <2>2. step' \in Steps /\ cash' \in Seq(CashEvent)
    BY DEF ReverseRecentPostings, Goes, Steps, MoneyTypes
  <2> QED BY <1>7, <2>1, <2>2, PostsNewTypes
<1> QED BY <1>7, <1>8 DEF ReverseRecentPostings, Goes

(* Loan cash is inserted as posted rows of the day, of accounts still open. *)
LEMMA CashDoes ==
  ASSUME MoneyTypes, CollectLoanCash
  PROVE  /\ MoneyTypes' /\ step = "loan cash" /\ step' = "day"
         /\ \E new, batches : PostsNew(new, batches)
<1> DEFINE K == {n \in DOMAIN cash : cash[n].acct \in DOMAIN snap}
           kept == InOrder(K)
           new == [k \in DOMAIN kept |->
                     LET e == cash[kept[k]]
                     IN  Txn(e.acct, e.amt, "posted", day, e.kind, e.of)]
           batches == [k \in DOMAIN new |-> LoanBatch(Len(txns) + k, cash[kept[k]])]
           N == Cardinality(K)
<1>1. InsertPosted(new, batches)
  BY DEF CollectLoanCash
<1>2. day \in Nat /\ Len(txns) \in Nat /\ cash \in Seq(CashEvent)
  BY DEF MoneyTypes
<1>3. K \in SUBSET DOMAIN cash /\ \A n \in K : cash[n].acct \in DOMAIN snap
  OBVIOUS
<1> HIDE DEF K, N
<1>4. N \in Nat /\ DOMAIN kept = 1 .. N /\ \A k \in 1 .. N : kept[k] \in K
  <2>1. K \in SUBSET Nat /\ IsFiniteSet(K)
    BY <1>2, <1>3, PositionsAreFinite
  <2> QED BY <2>1, InOrderLists DEF N
<1> HIDE DEF kept
<1>5. ASSUME NEW k \in 1 .. N
      PROVE  /\ new[k] \in TxnRow
             /\ new[k].acct = cash[kept[k]].acct /\ new[k].amt = cash[kept[k]].amt
             /\ new[k].acct \in DOMAIN snap /\ new[k].status = "posted" /\ new[k].booked = day
  <2>1. PICK e \in CashEvent : e = cash[kept[k]] /\ e.acct \in DOMAIN snap
    BY <1>2, <1>3, <1>4
  <2>2. e.acct \in Accounts /\ e.amt \in Int /\ e.kind \in TxnKind /\ e.of \in Nat
    BY DEF CashEvent, TxnKind
  <2>3. "posted" \in TxnStatus /\ day \in Int
    BY <1>2 DEF TxnStatus
  <2>4. new[k] = Txn(e.acct, e.amt, "posted", day, e.kind, e.of)
    BY <1>4, <2>1
  <2> HIDE DEF new
  <2>5. LET r == Txn(e.acct, e.amt, "posted", day, e.kind, e.of) IN
          /\ r \in TxnRow /\ r.acct = e.acct /\ r.amt = e.amt /\ r.status = "posted"
          /\ r.booked = day
    <3>1. PICK a \in Accounts, amount \in Int, kind \in TxnKind, of \in Nat :
            a = e.acct /\ amount = e.amt /\ kind = e.kind /\ of = e.of
      BY <2>2
    <3>2. LET r == Txn(a, amount, "posted", day, kind, of) IN
            /\ r \in TxnRow /\ r.acct = a /\ r.amt = amount /\ r.status = "posted"
            /\ r.booked = day
      BY <1>2, <2>3, NewTxn
    <3> QED BY <3>1, <3>2
  <2> QED BY <2>1, <2>4, <2>5
<1>6. new \in Seq(TxnRow) /\ DOMAIN new = 1 .. N /\ Len(new) = N
  <2>1. new \in [1 .. N -> TxnRow]
    BY <1>4, <1>5
  <2> HIDE DEF new
  <2> QED BY <1>4, <2>1, RowsMakeASequence
<1> HIDE DEF new
<1>7. ASSUME NEW k \in 1 .. N
      PROVE  batches[k] \in BatchRow /\ StandsFor(batches[k], "transaction", Len(txns) + k, new[k])
  <2>1. cash[kept[k]] \in CashEvent /\ Len(txns) + k \in Nat
    BY <1>2, <1>3, <1>4
  <2>2. batches[k] = LoanBatch(Len(txns) + k, cash[kept[k]])
    BY <1>6
  <2> HIDE DEF batches
  <2> QED BY <1>2, <1>5, <2>1, <2>2, LoanBatchStandsFor
<1>8. batches \in Seq(BatchRow) /\ Len(batches) = Len(new)
  <2>1. batches \in [1 .. N -> BatchRow]
    BY <1>6, <1>7
  <2> HIDE DEF batches
  <2> QED BY <1>4, <1>6, <2>1, RowsMakeASequence
<1>9. PostsNew(new, batches)
  <2>1. UNCHANGED <<day, accounts, payments, applications, loans, installments, snap>>
    BY DEF CollectLoanCash
  <2> HIDE DEF batches
  <2> QED BY <1>1, <1>2, <1>5, <1>6, <1>7, <1>8, <2>1 DEF PostsNew
<1>10. MoneyTypes'
  <2>1. budget' \in Nat /\ step' \in Steps
    BY DEF CollectLoanCash, Goes, Steps, MoneyTypes
  <2>2. cash' \in Seq(CashEvent)
    <3>1. cash' = << >>
      BY DEF CollectLoanCash
    <3> QED BY <3>1
  <2> QED BY <1>9, <2>1, <2>2, PostsNewTypes
<1> QED BY <1>9, <1>10 DEF CollectLoanCash, Goes

(* Transactions that were pending are posted. *)
PostsPending(S) ==
  /\ S \subseteq DOMAIN txns
  /\ \A i \in S : txns[i].status = "pending" /\ txns[i].acct \in DOMAIN snap
  /\ DOMAIN txns' = DOMAIN txns
  /\ \A i \in DOMAIN txns :
       /\ txns'[i].acct = txns[i].acct /\ txns'[i].amt = txns[i].amt
       /\ txns'[i].booked = txns[i].booked
       /\ txns'[i].status = IF i \in S THEN "posted" ELSE txns[i].status
  /\ ledger' = ledger \o Posting("transaction", txns, S)
  /\ fold' = Moved(Opening, txns, S)
  /\ UNCHANGED <<day, accounts, payments, applications, loans, installments, snap>>

(* The balances the fold starts from are integers. *)
LEMMA OpeningType ==
  ASSUME MoneyTypes PROVE Opening \in [Accounts -> Int]
BY DEF MoneyTypes, Opening, SeenRow

(* Of the transactions, the deferred ones that post are those that move. *)
LEMMA DeferredDoes ==
  ASSUME MoneyTypes, PostDeferred
  PROVE  MoneyTypes' /\ step = "deferred" /\ step' = "payments" /\ \E S : PostsPending(S)
<1>1. PICK S \in SUBSET {i \in DOMAIN txns :
            /\ txns[i].status = "pending" /\ ~ txns[i].deleted /\ Recent(txns[i].booked)
            /\ Open(accounts[txns[i].acct]) /\ txns[i].acct \in DOMAIN snap} :
         /\ txns' = [i \in DOMAIN txns |->
              IF i \in S THEN [txns[i] EXCEPT !.status = "posted", !.at = day] ELSE txns[i]]
         /\ ledger' = ledger \o Posting("transaction", txns, S)
         /\ fold' = Moved(Opening, txns, S)
         /\ touched' = touched \cup AccountsOf(txns, S)
         /\ log' = Updated(log, "transactions", S)
  BY DEF PostDeferred
<1>2. step = "deferred" /\ step' = "payments"
      /\ UNCHANGED <<day, accounts, payments, applications, loans, installments, snap, cash, budget>>
  BY DEF PostDeferred, Goes
<1>3. S \subseteq DOMAIN txns /\ txns \in Seq(TxnRow) /\ day \in Nat
      /\ \A i \in S : txns[i].status = "pending" /\ txns[i].acct \in DOMAIN snap
  BY DEF MoneyTypes
<1>4. ASSUME NEW i \in DOMAIN txns
      PROVE  /\ txns'[i] \in TxnRow
             /\ txns'[i].acct = txns[i].acct /\ txns'[i].amt = txns[i].amt
             /\ txns'[i].booked = txns[i].booked
             /\ txns'[i].status = IF i \in S THEN "posted" ELSE txns[i].status
  <2>1. txns[i] \in TxnRow
    BY <1>3
  <2>2. CASE i \in S
    <3>1. txns'[i] = [txns[i] EXCEPT !.status = "posted", !.at = day]
      BY <1>1, <2>2
    <3>2. LET r == [txns[i] EXCEPT !.status = "posted", !.at = day] IN
            /\ r \in TxnRow /\ r.acct = txns[i].acct /\ r.amt = txns[i].amt
            /\ r.booked = txns[i].booked /\ r.status = "posted"
      <4>1. PICK x \in TxnRow, d \in Nat : x = txns[i] /\ d = day
        BY <1>3, <2>1
      <4>2. LET r == [x EXCEPT !.status = "posted", !.at = d] IN
              /\ r \in TxnRow /\ r.acct = x.acct /\ r.amt = x.amt
              /\ r.booked = x.booked /\ r.status = "posted"
        BY PostedTxn
      <4> QED BY <4>1, <4>2
    <3> QED BY <2>2, <3>1, <3>2
  <2>3. CASE i \notin S
    BY <1>1, <2>1, <2>3
  <2> QED BY <2>2, <2>3
<1>5. DOMAIN txns' = DOMAIN txns /\ txns' \in Seq(TxnRow)
  <2>1. DOMAIN txns = 1 .. Len(txns) /\ Len(txns) \in Nat
    BY <1>3
  <2>2. txns' \in [1 .. Len(txns) -> TxnRow]
    BY <1>1, <1>4, <2>1
  <2> QED BY <2>1, <2>2, RowsMakeASequence
<1>6. PostsPending(S)
  BY <1>1, <1>2, <1>3, <1>4, <1>5 DEF PostsPending
<1>7. MoneyTypes'
  <2>1. ledger' \in Seq(BatchRow)
    <3>1. PICK new \in Seq(BatchRow) : new = Posting("transaction", txns, S)
      BY <1>3, PostingTypes
    <3>2. ledger \in Seq(BatchRow) /\ ledger' = ledger \o new
      BY <1>1, <3>1 DEF MoneyTypes
    <3> QED BY <3>2
  <2>2. fold' \in [Accounts -> Int]
    BY <1>1, <1>3, OpeningType, AmountsAreIntegers, MovedAdds
  <2>3. touched' \subseteq Accounts
    BY <1>1, <1>3, RowsHaveAccounts DEF AccountsOf, MoneyTypes
  <2>4. log' \in LogType
    <3>1. S \in SUBSET Nat
      BY <1>3, PositionsAreFinite
    <3>2. log \in LogType /\ "transactions" \in Tables
      BY DEF MoneyTypes, Tables
    <3> QED BY <1>1, <3>1, <3>2, LogKeeps
  <2>5. step' \in Steps
    BY <1>2 DEF Steps
  <2> QED BY <1>2, <1>5, <2>1, <2>2, <2>3, <2>4, <2>5 DEF MoneyTypes
<1> QED BY <1>2, <1>6, <1>7

(* Payments that were pending are booked, booked ones settle. *)
BooksPending(B) ==
  /\ B \subseteq DOMAIN payments
  /\ \A i \in B : payments[i].status = "pending" /\ payments[i].acct \in DOMAIN snap
  /\ DOMAIN payments' = DOMAIN payments
  /\ \A i \in DOMAIN payments :
       /\ payments'[i].acct = payments[i].acct /\ payments'[i].amt = payments[i].amt
       /\ payments'[i].initiated = payments[i].initiated
       /\ payments'[i].status \in PostedPayment
            <=> (payments[i].status \in PostedPayment \/ i \in B)
  /\ ledger' = ledger \o Posting("payment", payments, B)
  /\ fold' = Moved(fold, payments, B)
  /\ UNCHANGED <<day, accounts, txns, applications, loans, installments, snap>>

(* Of the payments, only those that are booked move; settling moves         *)
(* nothing.                                                                 *)
LEMMA PaymentsDo ==
  ASSUME MoneyTypes, AdvancePayments
  PROVE  MoneyTypes' /\ step = "payments" /\ step' = "late" /\ \E B : BooksPending(B)
<1>1. PICK B \in SUBSET {i \in DOMAIN payments :
              /\ Open(accounts[payments[i].acct]) /\ payments[i].acct \in DOMAIN snap
              /\ payments[i].status = "pending"},
           S \in SUBSET {i \in DOMAIN payments :
              /\ payments[i].status = "booked" /\ payments[i].acct \in DOMAIN snap} :
         /\ payments' = [i \in DOMAIN payments |->
                    IF i \in B
                    THEN [payments[i] EXCEPT !.status = "booked", !.booked = day, !.at = day]
                    ELSE IF i \in S
                    THEN [payments[i] EXCEPT !.status = "settled", !.at = day]
                    ELSE payments[i]]
         /\ ledger' = ledger \o Posting("payment", payments, B)
         /\ fold' = Moved(fold, payments, B)
         /\ touched' = touched \cup AccountsOf(payments, B)
         /\ log' = Updated(log, "payments", B \cup S)
  BY DEF AdvancePayments, Crossing
<1>2. step = "payments" /\ step' = "late"
      /\ UNCHANGED <<day, accounts, txns, applications, loans, installments, snap, cash, budget>>
  BY DEF AdvancePayments, Goes
<1>3. B \subseteq DOMAIN payments /\ S \subseteq DOMAIN payments
      /\ payments \in Seq(PaymentRow) /\ day \in Nat
      /\ (\A i \in B : payments[i].status = "pending" /\ payments[i].acct \in DOMAIN snap)
      /\ (\A i \in S : payments[i].status = "booked")
  BY DEF MoneyTypes
<1>4. ASSUME NEW i \in DOMAIN payments
      PROVE  /\ payments'[i] \in PaymentRow
             /\ payments'[i].acct = payments[i].acct /\ payments'[i].amt = payments[i].amt
             /\ payments'[i].initiated = payments[i].initiated
             /\ payments'[i].status \in PostedPayment
                  <=> (payments[i].status \in PostedPayment \/ i \in B)
  <2>1. PICK x \in PaymentRow, d \in Nat : x = payments[i] /\ d = day
    BY <1>3
  <2>2. CASE i \in B
    <3>1. payments'[i] = [x EXCEPT !.status = "booked", !.booked = d, !.at = d]
      BY <1>1, <2>1, <2>2
    <3>2. LET r == [x EXCEPT !.status = "booked", !.booked = d, !.at = d] IN
            /\ r \in PaymentRow /\ r.acct = x.acct /\ r.amt = x.amt
            /\ r.initiated = x.initiated /\ r.status = "booked"
      BY WrittenPayment, ZenonT(40)
    <3>3. /\ payments'[i] \in PaymentRow /\ payments'[i].acct = x.acct
          /\ payments'[i].amt = x.amt /\ payments'[i].initiated = x.initiated
          /\ payments'[i].status = "booked"
      BY <3>1, <3>2
    <3>4. "booked" \in PostedPayment
      BY DEF PostedPayment
    <3> QED BY <2>1, <2>2, <3>3, <3>4
  <2>3. CASE i \notin B /\ i \in S
    <3>1. payments'[i] = [x EXCEPT !.status = "settled", !.at = d]
      BY <1>1, <2>1, <2>3
    <3>2. LET r == [x EXCEPT !.status = "settled", !.at = d] IN
            /\ r \in PaymentRow /\ r.acct = x.acct /\ r.amt = x.amt
            /\ r.initiated = x.initiated /\ r.status = "settled"
      BY WrittenPayment, ZenonT(40)
    <3>3. /\ payments'[i] \in PaymentRow /\ payments'[i].acct = x.acct
          /\ payments'[i].amt = x.amt /\ payments'[i].initiated = x.initiated
          /\ payments'[i].status = "settled"
      BY <3>1, <3>2
    <3>4. "settled" \in PostedPayment /\ payments[i].status \in PostedPayment
      BY <1>3, <2>3 DEF PostedPayment
    <3> QED BY <2>1, <3>3, <3>4
  <2>4. CASE i \notin B /\ i \notin S
    BY <1>1, <2>1, <2>4
  <2> QED BY <2>2, <2>3, <2>4
<1>5. DOMAIN payments' = DOMAIN payments /\ payments' \in Seq(PaymentRow)
  <2>1. DOMAIN payments = 1 .. Len(payments) /\ Len(payments) \in Nat
    BY <1>3
  <2>2. payments' \in [1 .. Len(payments) -> PaymentRow]
    BY <1>1, <1>4, <2>1
  <2> QED BY <2>1, <2>2, RowsMakeASequence
<1>6. BooksPending(B)
  BY <1>1, <1>2, <1>3, <1>4, <1>5 DEF BooksPending
<1>7. MoneyTypes'
  <2>1. ledger' \in Seq(BatchRow)
    <3>1. PICK new \in Seq(BatchRow) : new = Posting("payment", payments, B)
      BY <1>3, PostingTypes
    <3>2. ledger \in Seq(BatchRow) /\ ledger' = ledger \o new
      BY <1>1, <3>1 DEF MoneyTypes
    <3> QED BY <3>2
  <2>2. fold' \in [Accounts -> Int]
    <3>1. fold \in [Accounts -> Int]
      BY DEF MoneyTypes
    <3> QED BY <1>1, <1>3, <3>1, AmountsAreIntegers, MovedAdds
  <2>3. touched' \subseteq Accounts
    BY <1>1, <1>3, RowsHaveAccounts DEF AccountsOf, MoneyTypes
  <2>4. log' \in LogType
    <3>1. B \cup S \in SUBSET Nat
      BY <1>3, PositionsAreFinite
    <3>2. log \in LogType /\ "payments" \in Tables
      BY DEF MoneyTypes, Tables
    <3> QED BY <1>1, <3>1, <3>2, LogKeeps
  <2>5. step' \in Steps
    BY <1>2 DEF Steps
  <2> QED BY <1>2, <1>5, <2>1, <2>2, <2>3, <2>4, <2>5 DEF MoneyTypes
<1> QED BY <1>2, <1>6, <1>7

(* A movement of the day. *)
DrawsTxn(row) ==
  /\ row \in TxnRow /\ row.acct \in DOMAIN snap /\ row.booked = day
  /\ txns' = txns \o <<row>>
  /\ IF row.status = "posted"
     THEN /\ ledger' = ledger \o <<Batch("transaction", Len(txns) + 1, row.acct, row.amt)>>
          /\ fold' = [fold EXCEPT ![row.acct] = @ + row.amt]
     ELSE ledger' = ledger /\ fold' = fold
  /\ UNCHANGED <<day, accounts, payments, applications, loans, installments, snap>>

DrawsPayment(row) ==
  /\ row \in PaymentRow /\ row.acct \in DOMAIN snap /\ row.initiated = day
  /\ payments' = payments \o <<row>>
  /\ IF row.status \in PostedPayment
     THEN /\ ledger' = ledger \o <<Batch("payment", Len(payments) + 1, row.acct, row.amt)>>
          /\ fold' = [fold EXCEPT ![row.acct] = @ + row.amt]
     ELSE ledger' = ledger /\ fold' = fold
  /\ UNCHANGED <<day, accounts, txns, applications, loans, installments, snap>>

(* A batch appended to the ledger leaves it a ledger. *)
LEMMA OneBatch ==
  ASSUME MoneyTypes, NEW kind \in {"transaction", "payment"}, NEW id \in Nat,
         NEW a \in Accounts, NEW amount \in Int
  PROVE  /\ ledger \o <<Batch(kind, id, a, amount)>> \in Seq(BatchRow)
         /\ Append(ledger, Batch(kind, id, a, amount)) = ledger \o <<Batch(kind, id, a, amount)>>
<1>1. ledger \in Seq(BatchRow) /\ day \in Nat
  BY DEF MoneyTypes
<1>2. PICK b \in BatchRow : b = Batch(kind, id, a, amount)
  <2>1. <<0 - amount, amount>> \in Seq(Int)
    OBVIOUS
  <2> QED BY <1>1, <2>1 DEF Batch, BatchRow
<1> QED BY <1>1, <1>2

(* A drawn transaction enters the fold and the ledger exactly if it is      *)
(* posted in the end.                                                       *)
LEMMA EmitTransactionDoes ==
  ASSUME MoneyTypes, NEW a \in Accounts, NEW m \in Drawn \cup Scheduled,
         EmitTransaction(a, m[1], m[2])
  PROVE  MoneyTypes' /\ step = "day" /\ step' = "day" /\ \E row : DrawsTxn(row)
<1>1. PICK amount \in Int, drawn \in TxnStatus : m[1] = amount /\ m[2] = drawn
  BY MoneyAssumption DEF Drawn, Scheduled, TxnStatus
<1> DEFINE s == IF drawn = "posted" /\ Breaches(a, amount) THEN "declined" ELSE drawn
<1>2. s \in TxnStatus
  BY DEF TxnStatus
<1>3. (Ledgered(drawn, s)) <=> (s = "posted")
  BY <1>2 DEF Ledgered, PostedPayment, TxnStatus
<1>4. EmitTransaction(a, amount, drawn)
  BY <1>1
<1> HIDE DEF s
<1>5. step = "day" /\ a \in DOMAIN snap /\ Spend(1)
      /\ log' = Inserted(log, "transactions", 1)
      /\ UNCHANGED <<day, step, accounts, payments, applications, loans, installments, snap, cash>>
  BY <1>4 DEF EmitTransaction, Active
<1>6. /\ txns' = Append(txns, Txn(a, amount, s, day, "drawn", 0))
      /\ ledger' = IF s = "posted"
                   THEN Append(ledger, Batch("transaction", Len(txns) + 1, a, amount))
                   ELSE ledger
      /\ fold' = IF s = "posted" THEN [fold EXCEPT ![a] = @ + amount] ELSE fold
      /\ touched' = IF s = "posted" THEN touched \cup {a} ELSE touched
  BY <1>3, <1>4 DEF EmitTransaction, s
<1>7. PICK row \in TxnRow :
        /\ row = Txn(a, amount, s, day, "drawn", 0)
        /\ row.acct = a /\ row.amt = amount /\ row.status = s /\ row.booked = day
  <2>1. "drawn" \in TxnKind /\ 0 \in Nat /\ day \in Nat /\ day \in Int
    BY DEF TxnKind, MoneyTypes
  <2> QED BY <1>2, <2>1, NewTxn
<1>8. txns \in Seq(TxnRow) /\ Len(txns) + 1 \in Nat
  BY DEF MoneyTypes
<1>9. txns' = txns \o <<row>> /\ txns' \in Seq(TxnRow)
  BY <1>6, <1>7, <1>8
<1>10. /\ ledger \o <<Batch("transaction", Len(txns) + 1, a, amount)>> \in Seq(BatchRow)
       /\ Append(ledger, Batch("transaction", Len(txns) + 1, a, amount))
            = ledger \o <<Batch("transaction", Len(txns) + 1, a, amount)>>
  BY <1>8, OneBatch
<1>11. DrawsTxn(row)
  BY <1>5, <1>6, <1>7, <1>9, <1>10 DEF DrawsTxn
<1>12. MoneyTypes'
  <2>1. ledger' \in Seq(BatchRow)
    BY <1>6, <1>10 DEF MoneyTypes
  <2>2. fold' \in [Accounts -> Int] /\ touched' \subseteq Accounts
    BY <1>6 DEF MoneyTypes
  <2>3. log' \in LogType
    <3>1. log \in LogType /\ "transactions" \in Tables
      BY DEF MoneyTypes, Tables
    <3> QED BY <1>5, <3>1, LogKeeps
  <2>4. budget' \in Nat
    BY <1>5, SpendKeeps DEF MoneyTypes
  <2> QED BY <1>5, <1>9, <2>1, <2>2, <2>3, <2>4 DEF MoneyTypes
<1> QED BY <1>5, <1>11, <1>12

(* And so does a drawn payment. *)
LEMMA EmitPaymentDoes ==
  ASSUME MoneyTypes, NEW a \in Accounts, NEW m \in Instructions, EmitPayment(a, m[1], m[2])
  PROVE  MoneyTypes' /\ step = "day" /\ step' = "day" /\ \E row : DrawsPayment(row)
<1> DEFINE U == PostedPayment \cup {"pending", "rejected"}
<1>1. PICK amount \in Int, drawn \in U : m[1] = amount /\ m[2] = drawn
  BY MoneyAssumption DEF Instructions, PostedPayment
<1> DEFINE s == IF drawn \in PostedPayment /\ Breaches(a, amount) THEN "rejected" ELSE drawn
<1>2. s \in U
  OBVIOUS
<1>3. (Ledgered(drawn, s)) <=> (s \in PostedPayment)
  BY <1>2 DEF Ledgered, PostedPayment
<1>4. EmitPayment(a, amount, drawn)
  BY <1>1
<1> HIDE DEF s
<1>5. step = "day" /\ a \in DOMAIN snap /\ Spend(1)
      /\ log' = Inserted(log, "payments", 1)
      /\ UNCHANGED <<day, step, accounts, txns, applications, loans, installments, snap, cash>>
  BY <1>4 DEF EmitPayment, Active
<1> DEFINE d == IF s \in PostedPayment THEN day ELSE 0
           new == [acct |-> a, amt |-> amount, status |-> s, initiated |-> day,
                   booked |-> d, at |-> day]
<1>6. /\ payments' = Append(payments, new)
      /\ ledger' = IF s \in PostedPayment
                   THEN Append(ledger, Batch("payment", Len(payments) + 1, a, amount))
                   ELSE ledger
      /\ fold' = IF s \in PostedPayment THEN [fold EXCEPT ![a] = @ + amount] ELSE fold
      /\ touched' = IF s \in PostedPayment THEN touched \cup {a} ELSE touched
  BY <1>3, <1>4 DEF EmitPayment, s
<1>7. PICK row \in PaymentRow :
        /\ row = new
        /\ row.acct = a /\ row.amt = amount /\ row.status = s /\ row.initiated = day
  <2>1. day \in Int /\ d \in Int
    BY DEF MoneyTypes
  <2>2. PaymentRow = [acct : Accounts, amt : Int, status : U, initiated : Int, booked : Int,
                      at : Int]
    BY DEF PaymentRow
  <2> HIDE DEF U, d
  <2>3. new \in PaymentRow
    BY <1>2, <2>1, <2>2
  <2>4. new.acct = a /\ new.amt = amount /\ new.status = s /\ new.initiated = day
    OBVIOUS
  <2> QED BY <2>3, <2>4
<1>8. payments \in Seq(PaymentRow) /\ Len(payments) + 1 \in Nat
  BY DEF MoneyTypes
<1> HIDE DEF new
<1>9. payments' = payments \o <<row>> /\ payments' \in Seq(PaymentRow)
  BY <1>6, <1>7, <1>8
<1>10. /\ ledger \o <<Batch("payment", Len(payments) + 1, a, amount)>> \in Seq(BatchRow)
       /\ Append(ledger, Batch("payment", Len(payments) + 1, a, amount))
            = ledger \o <<Batch("payment", Len(payments) + 1, a, amount)>>
  BY <1>8, OneBatch
<1>11. DrawsPayment(row)
  BY <1>5, <1>6, <1>7, <1>9, <1>10 DEF DrawsPayment
<1>12. MoneyTypes'
  <2>1. ledger' \in Seq(BatchRow)
    BY <1>6, <1>10 DEF MoneyTypes
  <2>2. fold' \in [Accounts -> Int] /\ touched' \subseteq Accounts
    BY <1>6 DEF MoneyTypes
  <2>3. log' \in LogType
    <3>1. log \in LogType /\ "payments" \in Tables
      BY DEF MoneyTypes, Tables
    <3> QED BY <1>5, <3>1, LogKeeps
  <2>4. budget' \in Nat
    BY <1>5, SpendKeeps DEF MoneyTypes
  <2> QED BY <1>5, <1>9, <2>1, <2>2, <2>3, <2>4 DEF MoneyTypes
<1> QED BY <1>5, <1>11, <1>12

(* A table with nothing posted on an account holds nothing for it. *)
LEMMA HeldOfNone ==
  ASSUME NEW rows, NEW St, NEW a, PostedIn(rows, St, a) = {}
  PROVE  Held(rows, St, a) = 0
BY TotalTakesAny, FS_EmptySet DEF Held

(* A table with one posted row of an account holds what that row says. *)
LEMMA HeldOfTheOne ==
  ASSUME NEW rows, NEW St, NEW a, NEW k \in DOMAIN rows, PostedIn(rows, St, a) = {k},
         rows[k].amt \in Int
  PROVE  Held(rows, St, a) = rows[k].amt
<1>1. AmountsOf(rows)[k] = rows[k].amt
  BY DEF AmountsOf
<1>2. Total(AmountsOf(rows), {k}) = rows[k].amt
  BY <1>1, TotalOfOne
<1> QED BY <1>2 DEF Held

(* First accounts, with the deposits that explain what is on them. *)
OpensBook(S, deposit, rows) ==
  /\ S \subseteq Accounts /\ (\A a \in S : accounts[a] = Absent) /\ deposit \in Int
  /\ DOMAIN accounts' = Accounts
  /\ \A a \in Accounts :
       IF a \in S
       THEN /\ accounts'[a].status = "active" /\ accounts'[a].opened = day
            /\ accounts'[a].closed = 0 /\ accounts'[a].balance = deposit
            /\ snap'[a].opened = day /\ snap'[a].balance = deposit
       ELSE accounts'[a] = accounts[a] /\ (a \in DOMAIN snap => snap'[a] = snap[a])
  /\ DOMAIN snap' = DOMAIN snap \cup S
  /\ rows \in Seq(TxnRow) /\ txns' = txns \o rows /\ ledger' = ledger \o BatchesOf(rows)
  /\ \A k \in DOMAIN rows :
       rows[k].acct \in S /\ rows[k].status = "posted" /\ rows[k].booked = day
  /\ \A a \in Accounts : Held(rows, {"posted"}, a) = IF a \in S THEN deposit ELSE 0
  /\ UNCHANGED <<day, payments, applications, loans, installments, cash, fold>>

(* The opening deposits hold, for every new account, its balance. *)
LEMMA DepositsAreHeld ==
  ASSUME day \in Nat, NEW S \in SUBSET Accounts, NEW deposit \in Nat
  PROVE  LET rows == OpeningDeposits(S, deposit) IN
         /\ rows \in Seq(TxnRow)
         /\ \A k \in DOMAIN rows :
              rows[k].acct \in S /\ rows[k].status = "posted" /\ rows[k].booked = day
         /\ \A a \in Accounts : Held(rows, {"posted"}, a) = IF a \in S THEN deposit ELSE 0
<1> DEFINE rows == OpeningDeposits(S, deposit)
           ids == InOrder(S)
           N == Cardinality(S)
<1>1. S \in SUBSET Nat /\ IsFiniteSet(S) /\ N \in Nat
  BY AccountsAreFinite
<1>2. /\ ids \in [1 .. N -> S]
      /\ \A i \in S : \E k \in 1 .. N : ids[k] = i
      /\ \A k, l \in 1 .. N : ids[k] = ids[l] => k = l
  BY <1>1, InOrderLists
<1> HIDE DEF ids, N
<1>3. CASE deposit = 0
  <2>1. rows = << >>
    BY <1>3 DEF OpeningDeposits
  <2>2. rows \in Seq(TxnRow) /\ DOMAIN rows = {}
    BY <2>1
  <2> HIDE DEF rows
  <2>3. \A a \in Accounts : PostedIn(rows, {"posted"}, a) = {}
    BY <2>2 DEF PostedIn
  <2>4. \A a \in Accounts : Held(rows, {"posted"}, a) = 0
    BY <2>3, HeldOfNone
  <2> QED BY <1>3, <2>2, <2>4 DEF rows
<1>4. CASE deposit > 0
  <2>1. rows = [k \in 1 .. N |-> Txn(ids[k], deposit, "posted", day, "deposit", 0)]
    BY <1>2, <1>4 DEF OpeningDeposits, ids
  <2> HIDE DEF rows
  <2>2. ASSUME NEW k \in 1 .. N
        PROVE  /\ rows[k] \in TxnRow /\ rows[k].acct = ids[k] /\ rows[k].amt = deposit
               /\ rows[k].status = "posted" /\ rows[k].booked = day /\ ids[k] \in S
    <3>1. PICK a \in Accounts : a = ids[k] /\ a \in S
      BY <1>2
    <3>2. "posted" \in TxnStatus /\ "deposit" \in TxnKind /\ deposit \in Int /\ day \in Int
          /\ 0 \in Nat
      BY DEF TxnStatus, TxnKind
    <3>3. LET r == Txn(a, deposit, "posted", day, "deposit", 0) IN
            /\ r \in TxnRow /\ r.acct = a /\ r.amt = deposit /\ r.status = "posted"
            /\ r.booked = day
      BY <3>2, NewTxn
    <3> QED BY <2>1, <3>1, <3>3
  <2>3. rows \in Seq(TxnRow) /\ DOMAIN rows = 1 .. N
    <3>1. rows \in [1 .. N -> TxnRow]
      BY <2>1, <2>2
    <3> QED BY <1>1, <3>1, RowsMakeASequence
  <2>4. ASSUME NEW a \in S PROVE Held(rows, {"posted"}, a) = deposit
    <3>1. PICK k \in 1 .. N : ids[k] = a
      BY <1>2
    <3>2. PostedIn(rows, {"posted"}, a) = {k}
      BY <1>2, <2>2, <2>3, <3>1 DEF PostedIn
    <3>3. k \in DOMAIN rows /\ rows[k].amt \in Int /\ rows[k].amt = deposit
      BY <2>2, <2>3
    <3>4. Held(rows, {"posted"}, a) = rows[k].amt
      BY <3>2, <3>3, HeldOfTheOne
    <3> QED BY <3>3, <3>4
  <2>5. ASSUME NEW a \in Accounts \ S PROVE Held(rows, {"posted"}, a) = 0
    <3>1. PostedIn(rows, {"posted"}, a) = {}
      BY <2>2, <2>3 DEF PostedIn
    <3> QED BY <3>1, HeldOfNone
  <2> QED BY <2>2, <2>3, <2>4, <2>5 DEF rows
<1> QED BY <1>3, <1>4

(* Onboarding opens accounts with the movements that explain their          *)
(* balances.                                                                *)
LEMMA OnboardDoes ==
  ASSUME MoneyTypes, Onboard
  PROVE  /\ MoneyTypes' /\ step = "onboard" /\ step' = "apply"
         /\ \E S, deposit, rows : OpensBook(S, deposit, rows)
<1>1. PICK S \in SUBSET {a \in Newcomers : accounts[a] = Absent},
           limit \in Limits, deposit \in Deposits :
       LET new == NewAccount(limit, deposit)
           rows == OpeningDeposits(S, deposit)
       IN  /\ Spend(Cardinality(S))
           /\ accounts' = [a \in Accounts |-> IF a \in S THEN new ELSE accounts[a]]
           /\ snap' = [a \in DOMAIN snap \cup S |-> IF a \in S THEN Seen(new) ELSE snap[a]]
           /\ txns' = txns \o rows
           /\ ledger' = ledger \o BatchesOf(rows)
           /\ touched' = touched \cup S
           /\ log' = Inserted(Inserted(log, "accounts", Cardinality(S)),
                              "transactions", Len(rows))
  BY DEF Onboard
<1> DEFINE new == NewAccount(limit, deposit)
           rows == OpeningDeposits(S, deposit)
<1>2. S \in SUBSET Accounts /\ (\A a \in S : accounts[a] = Absent)
  BY MoneyAssumption
<1>3. limit \in Nat /\ deposit \in Nat /\ day \in Nat
  BY MoneyAssumption DEF MoneyTypes
<1>4. /\ new \in AccountRow /\ new.status = "active" /\ new.opened = day /\ new.closed = 0
      /\ new.balance = deposit
      /\ Seen(new) \in SeenRow /\ Seen(new).opened = day /\ Seen(new).balance = deposit
  BY <1>3 DEF NewAccount, AccountRow, Seen, SeenRow
<1>5. /\ rows \in Seq(TxnRow)
      /\ \A k \in DOMAIN rows :
           rows[k].acct \in S /\ rows[k].status = "posted" /\ rows[k].booked = day
      /\ \A a \in Accounts : Held(rows, {"posted"}, a) = IF a \in S THEN deposit ELSE 0
  BY <1>2, <1>3, DepositsAreHeld, ZenonT(40)
<1>6. /\ Spend(Cardinality(S))
      /\ accounts' = [a \in Accounts |-> IF a \in S THEN new ELSE accounts[a]]
      /\ snap' = [a \in DOMAIN snap \cup S |-> IF a \in S THEN Seen(new) ELSE snap[a]]
      /\ txns' = txns \o rows
      /\ ledger' = ledger \o BatchesOf(rows)
      /\ touched' = touched \cup S
      /\ log' = Inserted(Inserted(log, "accounts", Cardinality(S)), "transactions", Len(rows))
  BY <1>1
<1>7. UNCHANGED <<day, payments, applications, loans, installments, cash, fold>>
      /\ step = "onboard" /\ step' = "apply"
  BY DEF Onboard, Goes
<1> HIDE DEF new, rows
<1>8. DOMAIN snap \subseteq Accounts
  BY DEF MoneyTypes
<1>9. OpensBook(S, deposit, rows)
  <2>1. ASSUME NEW a \in Accounts
        PROVE  IF a \in S
               THEN /\ accounts'[a].status = "active" /\ accounts'[a].opened = day
                    /\ accounts'[a].closed = 0 /\ accounts'[a].balance = deposit
                    /\ snap'[a].opened = day /\ snap'[a].balance = deposit
               ELSE accounts'[a] = accounts[a] /\ (a \in DOMAIN snap => snap'[a] = snap[a])
    <3>1. CASE a \in S
      <4>1. accounts'[a] = new /\ snap'[a] = Seen(new)
        BY <1>6, <3>1
      <4> QED BY <1>4, <3>1, <4>1
    <3>2. CASE a \notin S
      BY <1>6, <3>2
    <3> QED BY <3>1, <3>2
  <2>2. DOMAIN accounts' = Accounts /\ DOMAIN snap' = DOMAIN snap \cup S
    BY <1>6
  <2>3. S \subseteq Accounts /\ (\A a \in S : accounts[a] = Absent) /\ deposit \in Int
    BY <1>2, <1>3
  <2>4. txns' = txns \o rows /\ ledger' = ledger \o BatchesOf(rows)
    BY <1>6
  <2> QED BY <1>5, <1>7, <2>1, <2>2, <2>3, <2>4, Zenon DEF OpensBook
<1>10. MoneyTypes'
  <2>1. accounts' \in [Accounts -> AccountRow]
    BY <1>4, <1>6 DEF MoneyTypes
  <2>2. DOMAIN snap' \subseteq Accounts /\ snap' \in [DOMAIN snap' -> SeenRow]
    BY <1>2, <1>4, <1>6 DEF MoneyTypes
  <2>3. txns' \in Seq(TxnRow)
    BY <1>5, <1>6 DEF MoneyTypes
  <2>4. ledger' \in Seq(BatchRow)
    <3>1. PICK b \in Seq(BatchRow) : b = BatchesOf(rows)
      BY <1>3, <1>5, BatchesOfTypes DEF MoneyTypes
    <3>2. ledger \in Seq(BatchRow) /\ ledger' = ledger \o b
      BY <1>6, <3>1 DEF MoneyTypes
    <3> QED BY <3>2
  <2>5. touched' \subseteq Accounts
    BY <1>2, <1>6 DEF MoneyTypes
  <2>6. budget' \in Nat /\ log' \in LogType
    <3>1. Cardinality(S) \in Nat /\ Len(rows) \in Nat
      BY <1>2, <1>5, AccountsAreFinite
    <3>2. log \in LogType /\ "transactions" \in Tables /\ "accounts" \in Tables
          /\ budget \in Nat
      BY DEF MoneyTypes, Tables
    <3>3. Inserted(log, "accounts", Cardinality(S)) \in LogType
      BY <3>1, <3>2, LogKeeps
    <3> QED BY <1>6, <3>1, <3>2, <3>3, LogKeeps, SpendKeeps
  <2>7. step' \in Steps
    BY <1>7 DEF Steps
  <2> QED BY <1>7, <2>1, <2>2, <2>3, <2>4, <2>5, <2>6, <2>7 DEF MoneyTypes
<1> QED BY <1>7, <1>9, <1>10

(* Two tables of rows, one after the other. *)
LEMMA RowsJoin ==
  ASSUME NEW R, NEW s \in Seq(R), NEW t \in Seq(R)
  PROVE  s \o t \in Seq(R) /\ Len(s \o t) = Len(s) + Len(t)
OBVIOUS

(* New applications keep the types. *)
LEMMA ApplyTypes == MoneyTypes /\ Apply => MoneyTypes'
<1> SUFFICES ASSUME MoneyTypes, Apply PROVE MoneyTypes'
  OBVIOUS
<1>1. PICK S \in SUBSET {HolderOf[a] : a \in Accounts} :
       LET pairs == UNION {{<<c, a>> : a \in {b \in Primary(c) : accounts[b].opened < day}} :
                            c \in S}
           rows == Listed(pairs)
       IN  /\ Spend(Cardinality(S)) /\ \A c \in S : \E p \in pairs : p[1] = c
           /\ Len(applications) + Len(rows) =< MaxApplications
           /\ applications' = applications \o [k \in DOMAIN rows |->
                [cust |-> rows[k][1], status |-> "scoring", applied |-> day, decided |-> 0,
                 deleted |-> FALSE, at |-> day]]
           /\ log' = Inserted(log, "loan_applications", Len(rows))
  BY DEF Apply
<1> DEFINE pairs == UNION {{<<c, a>> : a \in {b \in Primary(c) : accounts[b].opened < day}} :
                            c \in S}
           rows == Listed(pairs)
           row(c) == [cust |-> c, status |-> "scoring", applied |-> day, decided |-> 0,
                      deleted |-> FALSE, at |-> day]
           new == [k \in DOMAIN rows |-> row(rows[k][1])]
<1>2. IsFiniteSet(S) /\ S \in SUBSET Nat
  <2>1. HolderOf \in [Accounts -> Nat] /\ IsFiniteSet(Accounts)
    BY MoneyAssumption
  <2>2. IsFiniteSet({HolderOf[a] : a \in Accounts})
    <3>1. PICK T : T = {HolderOf[a] : a \in Accounts}
      OBVIOUS
    <3>2. HolderOf \in Surjection(Accounts, T)
      BY <2>1, <3>1 DEF Surjection
    <3>3. IsFiniteSet(T)
      BY <2>1, <3>2, FS_Surjection
    <3> QED BY <3>1, <3>3
  <2> QED BY <2>1, <2>2, FS_Subset
<1>3. pairs \in SUBSET (S \X Accounts)
  BY DEF Primary
<1>4. /\ Cardinality(pairs) \in Nat /\ Len(rows) = Cardinality(pairs)
      /\ DOMAIN rows = 1 .. Cardinality(pairs)
      /\ \A k \in DOMAIN rows : rows[k][1] \in S
  <2> HIDE DEF pairs
  <2> QED BY <1>2, <1>3, PairsListed
<1>5. /\ Spend(Cardinality(S)) /\ Len(applications) + Len(rows) =< MaxApplications
      /\ applications' = applications \o new
      /\ log' = Inserted(log, "loan_applications", Len(rows))
  BY <1>1
<1> HIDE DEF pairs, rows, row
<1>6. \A c \in Nat : row(c) \in ApplicationRow
  <2> DEFINE B == BOOLEAN
             no == FALSE
             U == Undecided \cup {"approved", "rejected"}
  <2>1. ApplicationRow = [cust : Nat, status : U, applied : Int, decided : Int, deleted : B,
                          at : Int]
    BY DEF ApplicationRow
  <2>2. \A c : row(c) = [cust |-> c, status |-> "scoring", applied |-> day, decided |-> 0,
                         deleted |-> no, at |-> day]
    BY DEF row
  <2>3. no \in B /\ "scoring" \in U /\ day \in Int /\ 0 \in Int
    BY DEF Undecided, MoneyTypes
  <2> HIDE DEF B, no, U
  <2> QED BY <2>1, <2>2, <2>3
<1>7. new \in Seq(ApplicationRow) /\ Len(new) = Len(rows)
  <2>1. new \in [1 .. Cardinality(pairs) -> ApplicationRow]
    BY <1>2, <1>4, <1>6
  <2> HIDE DEF new
  <2> QED BY <1>4, <2>1, RowsMakeASequence
<1> HIDE DEF new
<1>8. applications' \in Seq(ApplicationRow) /\ Len(applications') =< MaxApplications
  <2>1. applications \in Seq(ApplicationRow)
    BY DEF MoneyTypes
  <2>2. PICK as \in Seq(ApplicationRow), ns \in Seq(ApplicationRow) :
          as = applications /\ ns = new
    BY <1>7, <2>1
  <2>3. as \o ns \in Seq(ApplicationRow) /\ Len(as \o ns) = Len(as) + Len(ns)
    BY RowsJoin
  <2> QED BY <1>5, <1>7, <2>2, <2>3
<1>9. budget' \in Nat /\ log' \in LogType
  <2>1. Cardinality(S) \in Nat /\ Len(rows) \in Nat
    BY <1>2, <1>4, FS_CardinalityType
  <2>2. log \in LogType /\ "loan_applications" \in Tables /\ budget \in Nat
    BY DEF MoneyTypes, Tables
  <2> QED BY <1>5, <2>1, <2>2, LogKeeps, SpendKeeps
<1>10. step' \in Steps
  BY DEF Apply, Goes, Steps
<1> QED BY <1>8, <1>9, <1>10 DEF Apply, MoneyTypes

(* A new balance changes nothing else of an account. *)
LEMMA BalancedAccount ==
  ASSUME NEW x \in AccountRow, NEW z \in Int, NEW d \in Nat
  PROVE  LET r == [x EXCEPT !.balance = z, !.at = d] IN
         /\ r \in AccountRow /\ r.status = x.status /\ r.opened = x.opened
         /\ r.closed = x.closed /\ r.balance = z
<1> DEFINE U == {"none", "active", "dormant", "frozen", "closed"}
<1>1. AccountRow = [status : U, opened : Nat, closed : Nat, limit : Nat, balance : Int, at : Nat]
  BY DEF AccountRow
<1> HIDE DEF U
<1> QED BY <1>1

(* The write of the fold: a balance that moved is moved. *)
LEMMA WriteFoldDoes ==
  ASSUME MoneyTypes, WriteFold
  PROVE  /\ MoneyTypes' /\ step = "day" /\ step' = "void"
         /\ UNCHANGED <<day, txns, payments, ledger, applications, loans, installments, snap>>
         /\ \A a \in Accounts :
              /\ accounts'[a].status = accounts[a].status
              /\ accounts'[a].opened = accounts[a].opened
              /\ accounts'[a].closed = accounts[a].closed
              /\ a \in DOMAIN snap =>
                   accounts'[a].balance = accounts[a].balance + (fold[a] - snap[a].balance)
              /\ a \notin DOMAIN snap => accounts'[a].balance = accounts[a].balance
<1> DEFINE moved == {a \in DOMAIN snap : fold[a] # snap[a].balance}
<1>1. /\ accounts' = [a \in Accounts |->
              IF a \in moved
              THEN [accounts[a] EXCEPT !.balance = @ + (fold[a] - snap[a].balance), !.at = day]
              ELSE accounts[a]]
      /\ log' = Updated(log, "accounts", moved)
      /\ fold' = NoBalance /\ step = "day" /\ step' = "void"
      /\ UNCHANGED <<day, txns, payments, ledger, applications, loans, installments, snap, cash,
                     touched, budget>>
  BY DEF WriteFold, Goes
<1>2. DOMAIN snap \subseteq Accounts /\ snap \in [DOMAIN snap -> SeenRow]
      /\ fold \in [Accounts -> Int] /\ accounts \in [Accounts -> AccountRow] /\ day \in Nat
  BY DEF MoneyTypes
<1>3. ASSUME NEW a \in Accounts
      PROVE  /\ accounts'[a] \in AccountRow
             /\ accounts'[a].status = accounts[a].status
             /\ accounts'[a].opened = accounts[a].opened
             /\ accounts'[a].closed = accounts[a].closed
             /\ a \in DOMAIN snap =>
                  accounts'[a].balance = accounts[a].balance + (fold[a] - snap[a].balance)
             /\ a \notin DOMAIN snap => accounts'[a].balance = accounts[a].balance
  <2>1. PICK x \in AccountRow, d \in Nat : x = accounts[a] /\ d = day
    BY <1>2
  <2>2. x.balance \in Int
    BY DEF AccountRow
  <2>3. CASE a \in moved
    <3>1. snap[a] \in SeenRow /\ a \in DOMAIN snap
      BY <1>2, <2>3
    <3>2. PICK y \in Int : y = fold[a] - snap[a].balance
      <4>1. snap[a].balance \in Int /\ fold[a] \in Int
        BY <1>2, <3>1 DEF SeenRow
      <4> QED BY <4>1
    <3>3. PICK z \in Int : z = x.balance + y
      BY <2>2
    <3>4. accounts'[a] = [x EXCEPT !.balance = z, !.at = d]
      BY <1>1, <2>1, <2>3, <3>2, <3>3
    <3>5. LET r == [x EXCEPT !.balance = z, !.at = d] IN
            /\ r \in AccountRow /\ r.status = x.status /\ r.opened = x.opened
            /\ r.closed = x.closed /\ r.balance = z
      BY BalancedAccount
    <3> QED BY <2>1, <3>1, <3>2, <3>3, <3>4, <3>5
  <2>4. CASE a \notin moved
    <3>1. accounts'[a] = x
      BY <1>1, <2>1, <2>4
    <3>2. a \in DOMAIN snap => x.balance = x.balance + (fold[a] - snap[a].balance)
      <4>1. a \in DOMAIN snap => fold[a] = snap[a].balance /\ fold[a] \in Int
        BY <1>2, <2>4
      <4> QED BY <2>2, <4>1
    <3> QED BY <2>1, <3>1, <3>2
  <2> QED BY <2>3, <2>4
<1>4. accounts' \in [Accounts -> AccountRow]
  BY <1>1, <1>3
<1>5. log' \in LogType
  <2>1. moved \in SUBSET Nat
    BY <1>2, AccountsAreFinite
  <2>2. log \in LogType /\ "accounts" \in Tables
    BY DEF MoneyTypes, Tables
  <2> QED BY <1>1, <2>1, <2>2, LogKeeps
<1> HIDE DEF moved
<1>6. fold' \in [Accounts -> Int] /\ step' \in Steps
  <2>1. NoBalance \in [Accounts -> Int]
    BY DEF NoBalance
  <2>2. "void" \in Steps
    BY DEF Steps
  <2> QED BY <1>1, <2>1, <2>2
<1>7. MoneyTypes'
  BY <1>1, <1>4, <1>5, <1>6 DEF MoneyTypes
<1> QED BY <1>1, <1>3, <1>7

(* Voided transactions keep their status: they were never posted. *)
LEMMA VoidDoes ==
  ASSUME MoneyTypes, VoidTransactions
  PROVE  /\ MoneyTypes' /\ step = "void" /\ step' = "clear"
         /\ UNCHANGED <<day, accounts, payments, ledger, applications, loans, installments, snap,
                        fold>>
         /\ DOMAIN txns' = DOMAIN txns
         /\ \A i \in DOMAIN txns :
              /\ txns'[i].acct = txns[i].acct /\ txns'[i].amt = txns[i].amt
              /\ txns'[i].booked = txns[i].booked /\ txns'[i].status = txns[i].status
<1>1. PICK S \in SUBSET {i \in DOMAIN txns : Voidable(i)} :
       /\ txns' = [i \in DOMAIN txns |->
            IF i \in S THEN [txns[i] EXCEPT !.deleted = TRUE, !.at = day] ELSE txns[i]]
       /\ log' = Updated(log, "transactions", S)
  BY DEF VoidTransactions
<1>2. step = "void" /\ step' = "clear"
      /\ UNCHANGED <<day, accounts, payments, ledger, applications, loans, installments, snap,
                     cash, fold, touched, budget>>
  BY DEF VoidTransactions, Goes
<1>3. S \subseteq DOMAIN txns /\ txns \in Seq(TxnRow) /\ day \in Nat
  BY DEF MoneyTypes
<1>4. ASSUME NEW i \in DOMAIN txns
      PROVE  /\ txns'[i] \in TxnRow
             /\ txns'[i].acct = txns[i].acct /\ txns'[i].amt = txns[i].amt
             /\ txns'[i].booked = txns[i].booked /\ txns'[i].status = txns[i].status
  <2>1. PICK x \in TxnRow, d \in Nat : x = txns[i] /\ d = day
    BY <1>3
  <2>2. CASE i \in S
    <3>1. txns'[i] = [x EXCEPT !.deleted = TRUE, !.at = d]
      BY <1>1, <2>1, <2>2, Zenon
    <3>2. LET r == [x EXCEPT !.deleted = TRUE, !.at = d] IN
            /\ r \in TxnRow /\ r.acct = x.acct /\ r.amt = x.amt /\ r.booked = x.booked
            /\ r.status = x.status
      BY VoidedTxn
    <3> QED BY <2>1, <3>1, <3>2, Zenon
  <2>3. CASE i \notin S
    BY <1>1, <2>1, <2>3
  <2> QED BY <2>2, <2>3
<1>5. DOMAIN txns' = DOMAIN txns /\ txns' \in Seq(TxnRow)
  <2>1. DOMAIN txns = 1 .. Len(txns) /\ Len(txns) \in Nat
    BY <1>3
  <2>2. txns' \in [1 .. Len(txns) -> TxnRow]
    <3>1. DOMAIN txns' = DOMAIN txns /\ txns' = [i \in DOMAIN txns |-> txns'[i]]
      BY <1>1, Zenon
    <3> QED BY <1>4, <2>1, <3>1
  <2> QED BY <2>1, <2>2, RowsMakeASequence
<1>6. log' \in LogType
  <2>1. S \in SUBSET Nat
    BY <1>3, PositionsAreFinite
  <2>2. log \in LogType /\ "transactions" \in Tables
    BY DEF MoneyTypes, Tables
  <2> QED BY <1>1, <2>1, <2>2, LogKeeps
<1>7. MoneyTypes'
  <2>1. step' \in Steps
    BY <1>2 DEF Steps
  <2> QED BY <1>2, <1>5, <1>6, <2>1 DEF MoneyTypes
<1> QED BY <1>2, <1>4, <1>5, <1>7

(* Clearing applications keeps the types. *)
LEMMA ClearTypes == MoneyTypes /\ ClearApplications => MoneyTypes'
<1> SUFFICES ASSUME MoneyTypes, ClearApplications PROVE MoneyTypes'
  OBVIOUS
<1>1. PICK S \in SUBSET DOMAIN applications :
       /\ applications' = [i \in DOMAIN applications |->
            IF i \in S THEN [applications[i] EXCEPT !.deleted = TRUE, !.at = day]
            ELSE applications[i]]
       /\ log' = Updated(log, "loan_applications", S)
  BY DEF ClearApplications
<1>2. DOMAIN applications = 1 .. Len(applications) /\ Len(applications) \in Nat
      /\ Len(applications) =< MaxApplications /\ applications \in Seq(ApplicationRow)
      /\ day \in Nat
  BY DEF MoneyTypes
<1>3. ASSUME NEW i \in DOMAIN applications PROVE applications'[i] \in ApplicationRow
  <2>1. PICK x \in ApplicationRow, d \in Nat : x = applications[i] /\ d = day
    BY <1>2
  <2>2. CASE i \in S
    <3>1. applications'[i] = [x EXCEPT !.deleted = TRUE, !.at = d]
      BY <1>1, <2>1, <2>2, Zenon
    <3>2. [x EXCEPT !.deleted = TRUE, !.at = d] \in ApplicationRow
      BY ClearedApplication
    <3> QED BY <3>1, <3>2, Zenon
  <2>3. CASE i \notin S
    BY <1>1, <2>1, <2>3
  <2> QED BY <2>2, <2>3
<1>4. applications' \in Seq(ApplicationRow) /\ Len(applications') = Len(applications)
  <2>1. DOMAIN applications' = DOMAIN applications
        /\ applications' = [i \in DOMAIN applications |-> applications'[i]]
    BY <1>1, Zenon
  <2>2. applications' \in [1 .. Len(applications) -> ApplicationRow]
    BY <1>2, <1>3, <2>1
  <2> QED BY <1>2, <2>2, RowsMakeASequence
<1>5. log' \in LogType
  <2>1. S \in SUBSET Nat
    BY <1>2, PositionsAreFinite
  <2>2. log \in LogType /\ "loan_applications" \in Tables
    BY DEF MoneyTypes, Tables
  <2> QED BY <1>1, <2>1, <2>2, LogKeeps
<1>6. step' \in Steps
  BY DEF ClearApplications, Goes, Steps
<1> QED BY <1>2, <1>4, <1>5, <1>6 DEF ClearApplications, MoneyTypes

(* The commit keeps the types. *)
LEMMA CommitTypes == MoneyTypes /\ Commit => MoneyTypes'
<1> SUFFICES ASSUME MoneyTypes, Commit PROVE MoneyTypes'
  OBVIOUS
<1>1. step' = "idle" /\ touched' = {} /\ snap' = [a \in {} |-> 0]
      /\ UNCHANGED <<day, book, cash, fold, log, budget>>
  BY DEF Commit, Goes
<1>2. DOMAIN snap' = {} /\ snap' \in [{} -> SeenRow]
  BY <1>1
<1>3. DOMAIN snap' \subseteq Accounts /\ snap' \in [DOMAIN snap' -> SeenRow]
  BY <1>2
<1> QED BY <1>1, <1>3 DEF book, MoneyTypes, Steps

-----------------------------------------------------------------------------
(***************************************************************************)
(* What the handlers keep.                                                 *)
(***************************************************************************)
Cleared == SnapInv /\ LifeInv /\ BalanceInv

(* Without a new or changed movement the sums stay. *)
LEMMA SumsStay ==
  ASSUME txns' = txns, payments' = payments
  PROVE  \A a : PostedSum(a)' = PostedSum(a)
BY DEF PostedSum, PostedTxns, PostedPayments

(* A handler that leaves accounts and movements alone. *)
LEMMA NothingMoves ==
  ASSUME Cleared, UNCHANGED <<day, accounts, txns, payments, snap, fold>>,
         Folding' <=> Folding, Folded' <=> Folded, step' # "idle"
  PROVE  Cleared'
<1>1. SnapInv'
  BY DEF Cleared, SnapInv
<1>2. LifeInv'
  BY DEF Cleared, LifeInv, NoMovementOutsideLife, WithinLife
<1>3. BalanceInv'
  BY SumsStay DEF Cleared, BalanceInv
<1> QED BY <1>1, <1>2, <1>3 DEF Cleared

(* As long as no account closes, the loans keep their accounts. *)
LEMMA AccountsStayOpen ==
  ASSUME LoanHasAnAccount, loans' = loans,
         \A a \in Accounts : Open(accounts[a]) => Open(accounts'[a])
  PROVE  LoanHasAnAccount'
<1>1. \A c : Primary(c) # {} => Primary(c)' # {}
  BY DEF Primary, Open
<1> QED BY <1>1 DEF LoanHasAnAccount

(* The positions of a table that grew. *)
LEMMA RowsOfBoth ==
  ASSUME NEW R, NEW s \in Seq(R), NEW t \in Seq(R)
  PROVE  \A i \in DOMAIN (s \o t) :
           \/ i \in DOMAIN s /\ (s \o t)[i] = s[i]
           \/ \E k \in DOMAIN t : i = Len(s) + k /\ (s \o t)[i] = t[k]
<1>1. ASSUME NEW i \in DOMAIN (s \o t), i \notin DOMAIN s
      PROVE  \E k \in DOMAIN t : i = Len(s) + k /\ (s \o t)[i] = t[k]
  <2>1. i - Len(s) \in DOMAIN t /\ i = Len(s) + (i - Len(s)) /\ (s \o t)[i] = t[i - Len(s)]
    BY <1>1
  <2> QED BY <2>1
<1>2. \A i \in DOMAIN (s \o t) : i \in DOMAIN s => (s \o t)[i] = s[i]
  OBVIOUS
<1> QED BY <1>1, <1>2

(* A movement of today, or of a day the account was already open on.        *)
Timely(a, d) == a \in DOMAIN snap /\ d =< day /\ accounts[a].opened =< d

(* A handler that adds or changes transactions, each of them timely, keeps  *)
(* them in the life of their accounts.                                      *)
LEMMA TransactionsInLife ==
  ASSUME MoneyTypes, SnapInv, LifeInv, UNCHANGED <<day, accounts, payments>>,
         \A i \in DOMAIN txns' :
           \/ /\ i \in DOMAIN txns
              /\ txns'[i].acct = txns[i].acct /\ txns'[i].booked = txns[i].booked
           \/ Timely(txns'[i].acct, txns'[i].booked)
  PROVE  LifeInv'
<1>1. ASSUME NEW i \in DOMAIN txns'
      PROVE  /\ txns'[i].booked =< day /\ accounts[txns'[i].acct].status # "none"
             /\ WithinLife(txns'[i].acct, txns'[i].booked)
  <2>1. CASE i \in DOMAIN txns /\ txns'[i].acct = txns[i].acct /\ txns'[i].booked = txns[i].booked
    BY <2>1 DEF LifeInv, NoMovementOutsideLife
  <2>2. CASE Timely(txns'[i].acct, txns'[i].booked)
    <3>1. PICK a \in DOMAIN snap : a = txns'[i].acct
      BY <2>2 DEF Timely
    <3>2. Open(accounts[a]) /\ accounts[a].closed = 0
      BY DEF SnapInv, LifeInv, MoneyTypes
    <3> QED BY <2>2, <3>1, <3>2 DEF Timely, WithinLife, Open
  <2> QED BY <1>1, <2>1, <2>2
<1> QED BY <1>1 DEF LifeInv, NoMovementOutsideLife, WithinLife

(* The same for payments. *)
LEMMA PaymentsInLife ==
  ASSUME MoneyTypes, SnapInv, LifeInv, UNCHANGED <<day, accounts, txns>>,
         \A i \in DOMAIN payments' :
           \/ /\ i \in DOMAIN payments
              /\ payments'[i].acct = payments[i].acct
              /\ payments'[i].initiated = payments[i].initiated
           \/ Timely(payments'[i].acct, payments'[i].initiated)
  PROVE  LifeInv'
<1>1. ASSUME NEW i \in DOMAIN payments'
      PROVE  /\ payments'[i].initiated =< day /\ accounts[payments'[i].acct].status # "none"
             /\ WithinLife(payments'[i].acct, payments'[i].initiated)
  <2>1. CASE /\ i \in DOMAIN payments /\ payments'[i].acct = payments[i].acct
             /\ payments'[i].initiated = payments[i].initiated
    BY <2>1 DEF LifeInv, NoMovementOutsideLife
  <2>2. CASE Timely(payments'[i].acct, payments'[i].initiated)
    <3>1. PICK a \in DOMAIN snap : a = payments'[i].acct
      BY <2>2 DEF Timely
    <3>2. Open(accounts[a]) /\ accounts[a].closed = 0
      BY DEF SnapInv, LifeInv, MoneyTypes
    <3> QED BY <2>2, <3>1, <3>2 DEF Timely, WithinLife, Open
  <2> QED BY <1>1, <2>1, <2>2
<1> QED BY <1>1 DEF LifeInv, NoMovementOutsideLife, WithinLife

(* Every movement has an account and a business day. *)
LEMMA MovementsHaveDates ==
  ASSUME MoneyTypes
  PROVE  /\ \A i \in DOMAIN txns : txns[i].acct \in Accounts /\ txns[i].booked \in Int
         /\ \A i \in DOMAIN payments :
              payments[i].acct \in Accounts /\ payments[i].initiated \in Int
<1>1. txns \in Seq(TxnRow) /\ payments \in Seq(PaymentRow)
  BY DEF MoneyTypes
<1>2. \A r \in TxnRow : r.acct \in Accounts /\ r.booked \in Int
  BY DEF TxnRow
<1>3. \A r \in PaymentRow : r.acct \in Accounts /\ r.initiated \in Int
  BY DEF PaymentRow
<1> QED BY <1>1, <1>2, <1>3

(* A snapshot read at the start of the day follows the accounts. *)
LEMMA BeginTickKeeps ==
  ASSUME MoneyTypes, Cleared, LoanHasAnAccount, BeginTick
  PROVE  Cleared' /\ LoanHasAnAccount'
<1>1. step = "idle" /\ step' = "accounts" /\ day' = day + 1
      /\ UNCHANGED <<accounts, txns, payments, loans, fold>>
  BY DEF BeginTick, Goes, book
<1>2. DOMAIN snap' = {a \in Accounts : Open(accounts[a])}
      /\ \A a \in DOMAIN snap' : snap'[a] = Seen(accounts[a])
  BY DEF BeginTick
<1>3. SnapInv'
  <2>1. ~ Folded' /\ step' # "idle"
    BY <1>1 DEF Folded
  <2>2. ASSUME NEW a \in DOMAIN snap'
        PROVE  /\ Open(accounts[a]) /\ snap'[a].opened = accounts[a].opened
               /\ snap'[a].balance = accounts[a].balance
    BY <1>2 DEF Seen
  <2> QED BY <1>1, <2>1, <2>2 DEF SnapInv, Open
<1>4. LifeInv'
  <2>1. day \in Nat /\ \A a \in Accounts : accounts[a].opened \in Nat
    BY DEF MoneyTypes, AccountRow
  <2>2. \A i \in DOMAIN txns : txns[i].booked \in Int
    BY MovementsHaveDates
  <2>3. \A i \in DOMAIN payments : payments[i].initiated \in Int
    BY MovementsHaveDates
  <2> QED BY <1>1, <2>1, <2>2, <2>3
        DEF Cleared, LifeInv, NoMovementOutsideLife, WithinLife, Open
<1>5. BalanceInv'
  BY <1>1, SumsStay DEF Cleared, BalanceInv, Folding
<1>6. LoanHasAnAccount'
  BY <1>1, AccountsStayOpen
<1> QED BY <1>3, <1>4, <1>5, <1>6 DEF Cleared

(* The sweep: what closes leaves the snapshot, closes no earlier than       *)
(* today, and is no account a loan is collected from.                       *)
LEMMA SweepKeeps ==
  ASSUME MoneyTypes, Cleared, LoanHasAnAccount, SweepAccounts
  PROVE  Cleared' /\ LoanHasAnAccount'
<1>1. PICK change \in [DOMAIN snap -> {"keep", "limit", "dormant", "frozen", "active", "closed"}],
           limit \in Limits :
       LET changed == {a \in DOMAIN snap : change[a] # "keep"}
           moved == {a \in changed : change[a] # "limit"}
           closed == {a \in changed : change[a] = "closed"}
       IN  /\ \A a \in changed : MayChange(a, change[a])
           /\ accounts' = [a \in Accounts |->
                IF a \in moved
                THEN [accounts[a] EXCEPT !.status = change[a], !.at = day,
                                         !.closed = IF a \in closed THEN day ELSE @]
                ELSE IF a \in changed THEN [accounts[a] EXCEPT !.limit = limit, !.at = day]
                ELSE accounts[a]]
           /\ snap' = [a \in DOMAIN snap \ closed |->
                IF a \in moved THEN [snap[a] EXCEPT !.status = change[a]] ELSE snap[a]]
  BY Zenon DEF SweepAccounts
<1> DEFINE changed == {a \in DOMAIN snap : change[a] # "keep"}
           moved == {a \in changed : change[a] # "limit"}
           closed == {a \in changed : change[a] = "closed"}
<1>2. step = "accounts" /\ step' = "decide"
      /\ UNCHANGED <<day, txns, payments, loans, fold>>
  BY DEF SweepAccounts, Goes
<1>3. DOMAIN snap \subseteq Accounts /\ day \in Nat
      /\ accounts \in [Accounts -> AccountRow] /\ snap \in [DOMAIN snap -> SeenRow]
  BY DEF MoneyTypes
<1>4. ASSUME NEW a \in Accounts
      PROVE  /\ accounts'[a].opened = accounts[a].opened
             /\ accounts'[a].balance = accounts[a].balance
             /\ a \in closed => /\ accounts'[a].status = "closed" /\ accounts'[a].closed = day
                                /\ a \notin Collecting
             /\ a \in DOMAIN snap \ closed =>
                  accounts'[a].closed = accounts[a].closed /\ Open(accounts'[a])
             /\ a \notin DOMAIN snap => accounts'[a] = accounts[a]
  <2>1. PICK x \in AccountRow : x = accounts[a]
    BY <1>3
  <2>2. CASE a \in closed
    <3>1. accounts'[a] = [x EXCEPT !.status = "closed", !.at = day, !.closed = day]
      BY <1>1, <2>1, <2>2
    <3>2. a \notin Collecting
      BY <1>1, <2>2 DEF MayChange, Closable
    <3> QED BY <2>1, <2>2, <3>1, <3>2 DEF AccountRow
  <2>3. CASE a \in moved /\ a \notin closed
    <3>1. accounts'[a] = [x EXCEPT !.status = change[a], !.at = day, !.closed = x.closed]
      BY <1>1, <2>1, <2>3
    <3>2. change[a] \in {"dormant", "frozen", "active"}
      BY <2>3
    <3> QED BY <2>1, <2>3, <3>1, <3>2 DEF AccountRow, Open
  <2>4. CASE a \in changed /\ a \notin moved
    <3>1. accounts'[a] = [x EXCEPT !.limit = limit, !.at = day]
      BY <1>1, <2>1, <2>4
    <3>2. a \in DOMAIN snap /\ Open(x)
      BY <2>1, <2>4 DEF Cleared, SnapInv
    <3> QED BY <2>1, <2>4, <3>1, <3>2 DEF AccountRow, Open
  <2>5. CASE a \notin changed
    <3>1. accounts'[a] = accounts[a] /\ a \notin closed
      BY <1>1, <2>5
    <3>2. a \in DOMAIN snap => Open(accounts[a])
      BY DEF Cleared, SnapInv
    <3> QED BY <3>1, <3>2 DEF Open
  <2> QED BY <2>2, <2>3, <2>4, <2>5
<1>5. DOMAIN snap' = DOMAIN snap \ closed
      /\ \A a \in DOMAIN snap' :
           snap'[a].opened = snap[a].opened /\ snap'[a].balance = snap[a].balance
  <2>1. ASSUME NEW a \in DOMAIN snap \ closed
        PROVE  snap'[a].opened = snap[a].opened /\ snap'[a].balance = snap[a].balance
    <3>1. snap[a] \in SeenRow
      BY <1>3
    <3>2. snap'[a] = [snap[a] EXCEPT !.status = change[a]] \/ snap'[a] = snap[a]
      BY <1>1
    <3> QED BY <3>1, <3>2 DEF SeenRow
  <2> QED BY <1>1, <2>1
<1> HIDE DEF changed, moved, closed
<1>6. SnapInv'
  BY <1>2, <1>3, <1>4, <1>5 DEF Cleared, SnapInv, Folded
<1>7. LifeInv'
  <2>1. ASSUME NEW a \in Accounts
        PROVE  /\ accounts'[a].opened =< day
               /\ Open(accounts'[a]) => accounts'[a].closed = 0
               /\ accounts[a].status # "none" => accounts'[a].status # "none"
               /\ \A d \in Int : d =< day /\ WithinLife(a, d) => WithinLife(a, d)'
    <3>1. accounts[a].opened =< day /\ (Open(accounts[a]) => accounts[a].closed = 0)
      BY DEF Cleared, LifeInv
    <3>2. CASE a \in closed
      BY <1>2, <1>3, <1>4, <3>1, <3>2 DEF Open, WithinLife
    <3>3. CASE a \in DOMAIN snap \ closed
      BY <1>3, <1>4, <3>1, <3>3 DEF Open, WithinLife, Cleared, SnapInv
    <3>4. CASE a \notin DOMAIN snap /\ a \notin closed
      BY <1>4, <3>1, <3>4 DEF Open, WithinLife
    <3> QED BY <3>2, <3>3, <3>4
  <2>2. ASSUME NEW i \in DOMAIN txns
        PROVE  /\ txns[i].booked =< day /\ accounts'[txns[i].acct].status # "none"
               /\ WithinLife(txns[i].acct, txns[i].booked)'
    <3>1. PICK a \in Accounts, d \in Int : a = txns[i].acct /\ d = txns[i].booked
      BY MovementsHaveDates
    <3>2. d =< day /\ accounts[a].status # "none" /\ WithinLife(a, d)
      BY <3>1 DEF Cleared, LifeInv, NoMovementOutsideLife
    <3>3. accounts'[a].status # "none" /\ WithinLife(a, d)'
      BY <2>1, <3>2
    <3> QED BY <1>2, <3>1, <3>2, <3>3 DEF WithinLife
  <2>3. ASSUME NEW i \in DOMAIN payments
        PROVE  /\ payments[i].initiated =< day /\ accounts'[payments[i].acct].status # "none"
               /\ WithinLife(payments[i].acct, payments[i].initiated)'
    <3>1. PICK a \in Accounts, d \in Int : a = payments[i].acct /\ d = payments[i].initiated
      BY MovementsHaveDates
    <3>2. d =< day /\ accounts[a].status # "none" /\ WithinLife(a, d)
      BY <3>1 DEF Cleared, LifeInv, NoMovementOutsideLife
    <3>3. accounts'[a].status # "none" /\ WithinLife(a, d)'
      BY <2>1, <3>2
    <3> QED BY <1>2, <3>1, <3>2, <3>3 DEF WithinLife
  <2> QED BY <1>2, <2>1, <2>2, <2>3 DEF LifeInv, NoMovementOutsideLife, WithinLife
<1>8. BalanceInv'
  <2>1. \A a \in Accounts : accounts'[a].balance = PostedSum(a)
    BY <1>2, <1>4 DEF Cleared, BalanceInv, Folding
  <2> QED BY <1>2, <2>1, SumsStay DEF BalanceInv, Folding
<1>9. LoanHasAnAccount'
  <2>1. ASSUME NEW l \in DOMAIN loans, loans[l].status \in Servicing
        PROVE  \E a \in Accounts : HolderOf[a] = loans[l].cust /\ Open(accounts'[a])
    <3>1. PICK a \in Accounts : HolderOf[a] = loans[l].cust /\ Open(accounts[a])
      BY <2>1 DEF LoanHasAnAccount, Primary
    <3>2. a \in Collecting
      BY <2>1, <3>1 DEF Collecting
    <3>3. a \notin closed
      BY <1>4, <3>2
    <3>4. Open(accounts'[a])
      BY <1>4, <3>1, <3>3
    <3> QED BY <3>1, <3>4
  <2> QED BY <1>2, <2>1 DEF LoanHasAnAccount, Primary, Open
<1> QED BY <1>6, <1>7, <1>8, <1>9 DEF Cleared

(* HeldMoves for transactions. *)
LEMMA TxnsMove ==
  ASSUME NEW rows \in Seq(TxnRow), NEW next, NEW St, NEW a,
         NEW S \in SUBSET DOMAIN rows, Reach(rows, next, St, S)
  PROVE  Held(next, St, a) = Held(rows, St, a) + Total(AmountsOf(rows), OnAccount(rows, S, a))
<1>1. \A r \in TxnRow : r.amt \in Int
  BY AmountsAreIntegers
<1> QED BY <1>1, HeldMoves

(* HeldGrows for transactions. *)
LEMMA TxnsGrow ==
  ASSUME NEW rows \in Seq(TxnRow), NEW new \in Seq(TxnRow), NEW St, NEW a
  PROVE  /\ Held(rows \o new, St, a) = Held(rows, St, a) + Held(new, St, a)
         /\ Held(rows, St, a) \in Int /\ Held(new, St, a) \in Int
<1>1. \A r \in TxnRow : r.amt \in Int
  BY AmountsAreIntegers
<1> QED BY <1>1, HeldGrows, HeldIsInteger

(* HeldMoves for payments. *)
LEMMA PaymentsMove ==
  ASSUME NEW rows \in Seq(PaymentRow), NEW next, NEW St, NEW a,
         NEW S \in SUBSET DOMAIN rows, Reach(rows, next, St, S)
  PROVE  Held(next, St, a) = Held(rows, St, a) + Total(AmountsOf(rows), OnAccount(rows, S, a))
<1>1. \A r \in PaymentRow : r.amt \in Int
  BY AmountsAreIntegers
<1> QED BY <1>1, HeldMoves

(* HeldGrows for payments. *)
LEMMA PaymentsGrow ==
  ASSUME NEW rows \in Seq(PaymentRow), NEW new \in Seq(PaymentRow), NEW St, NEW a
  PROVE  /\ Held(rows \o new, St, a) = Held(rows, St, a) + Held(new, St, a)
         /\ Held(rows, St, a) \in Int /\ Held(new, St, a) \in Int
<1>1. \A r \in PaymentRow : r.amt \in Int
  BY AmountsAreIntegers
<1> QED BY <1>1, HeldGrows, HeldIsInteger

(* The servicing of loans moves no money before its cash is collected. *)
LEMMA LoansKeep ==
  ASSUME MoneyTypes, Cleared, LoanHasAnAccount, DisburseApproved \/ CollectInstallments
  PROVE  Cleared' /\ LoanHasAnAccount'
<1>1. UNCHANGED <<day, accounts, txns, payments, snap, fold>>
  BY DEF DisburseApproved, CollectInstallments
<1>2. (Folding' <=> Folding) /\ (Folded' <=> Folded) /\ step' # "idle"
  BY DEF DisburseApproved, CollectInstallments, Goes, Folding, Folded
<1>3. Cleared'
  BY <1>1, <1>2, NothingMoves
<1>4. \A c : Primary(c)' = Primary(c)
  BY <1>1 DEF Primary, Open
<1>5. ASSUME DisburseApproved PROVE LoanHasAnAccount'
  <2>1. \A l \in DOMAIN loans' :
          \/ l \in DOMAIN loans /\ loans'[l] = loans[l]
          \/ Primary(loans'[l].cust) # {}
    BY <1>5, DisburseDoes
  <2> QED BY <1>4, <2>1 DEF LoanHasAnAccount
<1>6. ASSUME CollectInstallments PROVE LoanHasAnAccount'
  <2>1. DOMAIN loans' = DOMAIN loans
        /\ \A l \in DOMAIN loans :
             /\ loans'[l].cust = loans[l].cust
             /\ loans'[l].status \in Servicing => loans[l].status \in Servicing
    BY <1>6, CollectDoes
  <2> QED BY <1>4, <2>1 DEF LoanHasAnAccount
<1> QED BY <1>3, <1>5, <1>6

(* The funnel moves no money. *)
LEMMA ApplicationsKeep ==
  ASSUME MoneyTypes, Cleared, LoanHasAnAccount, DecideApplications \/ Apply \/ ClearApplications
  PROVE  Cleared' /\ LoanHasAnAccount'
<1>1. UNCHANGED <<day, accounts, txns, payments, loans, snap, fold>>
  BY DEF DecideApplications, Apply, ClearApplications
<1>2. (Folding' <=> Folding) /\ (Folded' <=> Folded) /\ step' # "idle"
  BY DEF DecideApplications, Apply, ClearApplications, Goes, Folding, Folded
<1>3. Cleared'
  BY <1>1, <1>2, NothingMoves
<1>4. LoanHasAnAccount'
  BY <1>1, AccountsStayOpen
<1> QED BY <1>3, <1>4

(* New accounts enter the snapshot with what was deposited. *)
LEMMA OnboardKeeps ==
  ASSUME MoneyTypes, Cleared, LoanHasAnAccount, Onboard
  PROVE  Cleared' /\ LoanHasAnAccount'
<1>1. PICK S, deposit, rows : OpensBook(S, deposit, rows)
  BY OnboardDoes
<1>2. step = "onboard" /\ step' = "apply"
      /\ UNCHANGED <<day, payments, loans, fold>>
  BY <1>1, OnboardDoes DEF OpensBook
<1>3. /\ S \subseteq Accounts
      /\ \A a \in S : accounts[a].status = "none" /\ ~ Open(accounts[a])
  BY <1>1 DEF OpensBook, Absent, Open
<1>4. S \cap DOMAIN snap = {}
  BY <1>3 DEF Cleared, SnapInv
<1>5. day \in Nat /\ DOMAIN snap \subseteq Accounts
  BY DEF MoneyTypes
<1>6. SnapInv'
  <2>1. ASSUME NEW a \in DOMAIN snap'
        PROVE  /\ Open(accounts'[a]) /\ snap'[a].opened = accounts'[a].opened
               /\ snap'[a].balance = accounts'[a].balance
    <3>1. CASE a \in S
      BY <1>1, <1>3, <3>1 DEF OpensBook, Open
    <3>2. CASE a \notin S
      <4>1. a \in DOMAIN snap /\ a \in Accounts
        BY <1>1, <1>5, <2>1, <3>2 DEF OpensBook
      <4>2. accounts'[a] = accounts[a] /\ snap'[a] = snap[a]
        BY <1>1, <3>2, <4>1 DEF OpensBook
      <4>3. Open(accounts[a]) /\ snap[a].opened = accounts[a].opened
            /\ snap[a].balance = accounts[a].balance
        BY <1>2, <4>1 DEF Cleared, SnapInv, Folded
      <4> QED BY <4>2, <4>3
    <3> QED BY <3>1, <3>2
  <2>2. step' # "idle"
    BY <1>2
  <2> QED BY <2>1, <2>2 DEF SnapInv, Open
<1>7. LifeInv'
  <2>1. ASSUME NEW a \in Accounts
        PROVE  /\ accounts'[a].opened =< day
               /\ Open(accounts'[a]) => accounts'[a].closed = 0
               /\ a \notin S => accounts'[a] = accounts[a]
               /\ a \in S => WithinLife(a, day)' /\ accounts'[a].status = "active"
    BY <1>1, <1>2, <1>5 DEF OpensBook, Cleared, LifeInv, WithinLife
  <2>2. ASSUME NEW a \in Accounts, NEW d, WithinLife(a, d), accounts[a].status # "none"
        PROVE  WithinLife(a, d)' /\ accounts'[a].status # "none"
    BY <1>3, <2>1, <2>2 DEF WithinLife
  <2>3. ASSUME NEW i \in DOMAIN txns'
        PROVE  /\ txns'[i].booked =< day /\ accounts'[txns'[i].acct].status # "none"
               /\ WithinLife(txns[i].acct, txns[i].booked)'
    <3>1. txns \in Seq(TxnRow) /\ rows \in Seq(TxnRow) /\ txns' = txns \o rows
      BY <1>1 DEF OpensBook, MoneyTypes
    <3>2. \/ i \in DOMAIN txns /\ txns'[i] = txns[i]
          \/ \E k \in DOMAIN rows : txns'[i] = rows[k]
      BY <3>1, RowsOfBoth
    <3>3. CASE i \in DOMAIN txns /\ txns'[i] = txns[i]
      <4>1. PICK a \in Accounts, d \in Int : a = txns[i].acct /\ d = txns[i].booked
        BY <3>3, MovementsHaveDates
      <4>2. d =< day /\ accounts[a].status # "none" /\ WithinLife(a, d)
        BY <3>3, <4>1 DEF Cleared, LifeInv, NoMovementOutsideLife
      <4>3. accounts'[a].status # "none" /\ WithinLife(a, d)'
        BY <2>2, <4>2
      <4> QED BY <3>3, <4>1, <4>2, <4>3 DEF WithinLife
    <3>4. CASE \E k \in DOMAIN rows : txns'[i] = rows[k]
      <4>1. PICK a \in S : txns'[i].acct = a /\ txns'[i].booked = day
        BY <1>1, <3>4 DEF OpensBook
      <4>2. accounts'[a].status = "active" /\ WithinLife(a, day)'
        BY <1>3, <2>1, <4>1
      <4> QED BY <1>2, <1>5, <4>1, <4>2 DEF WithinLife
    <3> QED BY <3>2, <3>3, <3>4
  <2>4. ASSUME NEW i \in DOMAIN payments
        PROVE  /\ payments[i].initiated =< day /\ accounts'[payments[i].acct].status # "none"
               /\ WithinLife(payments[i].acct, payments[i].initiated)'
    <3>1. PICK a \in Accounts, d \in Int : a = payments[i].acct /\ d = payments[i].initiated
      BY MovementsHaveDates
    <3>2. d =< day /\ accounts[a].status # "none" /\ WithinLife(a, d)
      BY <3>1 DEF Cleared, LifeInv, NoMovementOutsideLife
    <3>3. accounts'[a].status # "none" /\ WithinLife(a, d)'
      BY <2>2, <3>2
    <3> QED BY <1>2, <3>1, <3>2, <3>3 DEF WithinLife
  <2> QED BY <1>2, <2>1, <2>3, <2>4 DEF LifeInv, NoMovementOutsideLife, WithinLife
<1>8. BalanceInv'
  <2>1. ~ Folding' /\ ~ Folding
    BY <1>2 DEF Folding
  <2>2. ASSUME NEW a \in Accounts PROVE accounts'[a].balance = PostedSum(a)'
    <3>1. PostedSum(a)' = PostedSum(a) + Held(rows, {"posted"}, a)
      <4>1. txns \in Seq(TxnRow) /\ rows \in Seq(TxnRow) /\ txns' = txns \o rows
            /\ payments \in Seq(PaymentRow) /\ payments' = payments
        BY <1>1, <1>2 DEF OpensBook, MoneyTypes
      <4>2. Held(txns', {"posted"}, a) = Held(txns, {"posted"}, a) + Held(rows, {"posted"}, a)
        BY <4>1, AmountsAreIntegers, HeldGrows
      <4>3. Held(txns, {"posted"}, a) \in Int /\ Held(rows, {"posted"}, a) \in Int
            /\ Held(payments, PostedPayment, a) \in Int
        BY <4>1, HeldIsInteger
      <4> QED BY <4>1, <4>2, <4>3, PostedSumSplits
    <3>2. accounts[a].balance = PostedSum(a)
      BY <2>1 DEF Cleared, BalanceInv
    <3>3. CASE a \in S
      <4>1. accounts[a].balance = 0
        BY <1>1, <3>3 DEF OpensBook, Absent
      <4>2. accounts'[a].balance = deposit /\ Held(rows, {"posted"}, a) = deposit /\ deposit \in Int
        BY <1>1, <3>3 DEF OpensBook
      <4> QED BY <3>1, <3>2, <4>1, <4>2
    <3>4. CASE a \notin S
      <4>1. accounts'[a] = accounts[a] /\ Held(rows, {"posted"}, a) = 0
        BY <1>1, <3>4 DEF OpensBook
      <4>2. accounts[a].balance \in Int
        BY DEF MoneyTypes, AccountRow
      <4> QED BY <3>1, <3>2, <4>1, <4>2
    <3> QED BY <3>3, <3>4
  <2> QED BY <2>1, <2>2 DEF BalanceInv
<1>9. LoanHasAnAccount'
  <2>1. \A a \in Accounts : Open(accounts[a]) => Open(accounts'[a])
    BY <1>1, <1>3 DEF OpensBook
  <2> QED BY <1>2, <2>1, AccountsStayOpen
<1> QED BY <1>6, <1>7, <1>8, <1>9 DEF Cleared

-----------------------------------------------------------------------------
(***************************************************************************)
(* The movements of the day, and the fold that follows them.               *)
(***************************************************************************)
LEMMA DeferredKeeps ==
  ASSUME MoneyTypes, MoneyTypes', Cleared, LoanHasAnAccount, PostDeferred
  PROVE  Cleared' /\ LoanHasAnAccount'
<1>1. step = "deferred" /\ step' = "payments"
  BY DeferredDoes
<1>2. PICK S : PostsPending(S)
  BY DeferredDoes
<1>3. UNCHANGED <<day, accounts, payments, applications, loans, installments, snap>>
  BY <1>2 DEF PostsPending
<1>4. SnapInv'
  BY <1>1, <1>3 DEF Cleared, SnapInv, Folded
<1>5. LifeInv'
  <2>1. \A i \in DOMAIN txns' : i \in DOMAIN txns
          /\ txns'[i].acct = txns[i].acct /\ txns'[i].booked = txns[i].booked
    BY <1>2 DEF PostsPending
  <2> QED BY <1>3, <2>1, TransactionsInLife DEF Cleared
<1>6. BalanceInv'
  <2>1. txns \in Seq(TxnRow) /\ txns' \in Seq(TxnRow) /\ payments \in Seq(PaymentRow)
        /\ S \in SUBSET DOMAIN txns
    BY <1>2 DEF PostsPending, MoneyTypes
  <2>2. ASSUME NEW a
        PROVE  PostedSum(a)' = PostedSum(a) + Total(AmountsOf(txns), OnAccount(txns, S, a))
    <3>1. Held(txns', {"posted"}, a)
            = Held(txns, {"posted"}, a) + Total(AmountsOf(txns), OnAccount(txns, S, a))
      <4>1. Reach(txns, txns', {"posted"}, S)
        BY <1>2 DEF PostsPending, Reach
      <4> QED BY <2>1, <4>1, TxnsMove
    <3>2. Held(txns, {"posted"}, a) \in Int /\ Held(payments, PostedPayment, a) \in Int
          /\ Held(txns', {"posted"}, a) \in Int
      BY <2>1, HeldIsInteger
    <3>3. PostedSum(a)' = Held(txns', {"posted"}, a) + Held(payments, PostedPayment, a)
          /\ PostedSum(a) = Held(txns, {"posted"}, a) + Held(payments, PostedPayment, a)
      BY <1>3, PostedSumSplits
    <3>4. Total(AmountsOf(txns), OnAccount(txns, S, a)) \in Int
      BY <2>1, PartsAreIntegers
    <3> QED BY <3>1, <3>2, <3>3, <3>4
  <2>3. ASSUME NEW a \in DOMAIN snap PROVE fold'[a] = PostedSum(a)'
    <3>1. a \in Accounts
      BY DEF MoneyTypes
    <3>2. fold'[a] = Opening[a] + Total(AmountsOf(txns), OnAccount(txns, S, a))
      BY <1>2, <2>1, <3>1, OpeningType, AmountsAreIntegers, MovedAdds DEF PostsPending
    <3>3. Opening[a] = snap[a].balance
      BY <3>1 DEF Opening
    <3>4. snap[a].balance = accounts[a].balance /\ accounts[a].balance = PostedSum(a)
      BY <1>1, <3>1 DEF Cleared, SnapInv, BalanceInv, Folded, Folding
    <3> QED BY <2>2, <3>2, <3>3, <3>4
  <2>4. ASSUME NEW a \in Accounts, a \notin DOMAIN snap
        PROVE  accounts[a].balance = PostedSum(a)'
    <3>1. accounts[a].balance = PostedSum(a) /\ PostedSum(a) \in Int
      BY <1>1, <2>1, PostedSumType DEF Cleared, BalanceInv, Folding
    <3>2. OnAccount(txns, S, a) = {}
      BY <1>2, <2>4 DEF OnAccount, PostsPending
    <3>3. Total(AmountsOf(txns), OnAccount(txns, S, a)) = 0
      BY <3>2, TotalTakesAny, FS_EmptySet
    <3> QED BY <2>2, <3>1, <3>3
  <2>5. Folding'
    BY <1>1 DEF Folding
  <2> QED BY <1>3, <2>3, <2>4, <2>5 DEF BalanceInv
<1>7. LoanHasAnAccount'
  BY <1>3, AccountsStayOpen
<1> QED BY <1>4, <1>5, <1>6, <1>7 DEF Cleared

(* Payments that are booked enter the fold; the others were in it or stay   *)
(* out.                                                                     *)
LEMMA PaymentsKeep ==
  ASSUME MoneyTypes, MoneyTypes', Cleared, LoanHasAnAccount, AdvancePayments
  PROVE  Cleared' /\ LoanHasAnAccount'
<1>1. step = "payments" /\ step' = "late"
  BY PaymentsDo
<1>2. PICK S : BooksPending(S)
  BY PaymentsDo
<1>3. UNCHANGED <<day, accounts, txns, applications, loans, installments, snap>>
  BY <1>2 DEF BooksPending
<1>4. SnapInv'
  BY <1>1, <1>3 DEF Cleared, SnapInv, Folded
<1>5. LifeInv'
  <2>1. \A i \in DOMAIN payments' : i \in DOMAIN payments
          /\ payments'[i].acct = payments[i].acct /\ payments'[i].initiated = payments[i].initiated
    BY <1>2 DEF BooksPending
  <2> QED BY <1>3, <2>1, PaymentsInLife DEF Cleared
<1>6. BalanceInv'
  <2>1. payments \in Seq(PaymentRow) /\ payments' \in Seq(PaymentRow) /\ txns \in Seq(TxnRow)
        /\ S \in SUBSET DOMAIN payments /\ fold \in [Accounts -> Int]
    BY <1>2 DEF BooksPending, MoneyTypes
  <2>2. ASSUME NEW a
        PROVE  PostedSum(a)' = PostedSum(a) + Total(AmountsOf(payments), OnAccount(payments, S, a))
    <3>1. Held(payments', PostedPayment, a)
            = Held(payments, PostedPayment, a)
                + Total(AmountsOf(payments), OnAccount(payments, S, a))
      <4>1. Reach(payments, payments', PostedPayment, S)
        BY <1>2 DEF BooksPending, Reach, PostedPayment
      <4> QED BY <2>1, <4>1, PaymentsMove
    <3>2. Held(txns, {"posted"}, a) \in Int /\ Held(payments, PostedPayment, a) \in Int
          /\ Held(payments', PostedPayment, a) \in Int
      BY <2>1, HeldIsInteger
    <3>3. PostedSum(a)' = Held(txns, {"posted"}, a) + Held(payments', PostedPayment, a)
          /\ PostedSum(a) = Held(txns, {"posted"}, a) + Held(payments, PostedPayment, a)
      BY <1>3, PostedSumSplits
    <3>4. Total(AmountsOf(payments), OnAccount(payments, S, a)) \in Int
      BY <2>1, PartsAreIntegers
    <3> QED BY <3>1, <3>2, <3>3, <3>4
  <2>3. ASSUME NEW a \in DOMAIN snap PROVE fold'[a] = PostedSum(a)'
    <3>1. a \in Accounts
      BY DEF MoneyTypes
    <3>2. fold'[a] = fold[a] + Total(AmountsOf(payments), OnAccount(payments, S, a))
      BY <1>2, <2>1, <3>1, AmountsAreIntegers, MovedAdds DEF BooksPending
    <3>3. fold[a] = PostedSum(a)
      BY <1>1 DEF Cleared, BalanceInv, Folding
    <3> QED BY <2>2, <3>2, <3>3
  <2>4. ASSUME NEW a \in Accounts, a \notin DOMAIN snap
        PROVE  accounts[a].balance = PostedSum(a)'
    <3>1. accounts[a].balance = PostedSum(a) /\ PostedSum(a) \in Int
      BY <2>1, <2>4, PostedSumType DEF Cleared, BalanceInv
    <3>2. OnAccount(payments, S, a) = {}
      BY <1>2, <2>4 DEF OnAccount, BooksPending
    <3>3. Total(AmountsOf(payments), OnAccount(payments, S, a)) = 0
      BY <3>2, TotalTakesAny, FS_EmptySet
    <3> QED BY <2>2, <3>1, <3>3
  <2>5. Folding'
    BY <1>1 DEF Folding
  <2> QED BY <1>3, <2>3, <2>4, <2>5 DEF BalanceInv
<1>7. LoanHasAnAccount'
  BY <1>3, AccountsStayOpen
<1> QED BY <1>4, <1>5, <1>6, <1>7 DEF Cleared

(* New transactions, all or none of them posted, that the fold follows.     *)
LEMMA NewTransactionsKeep ==
  ASSUME MoneyTypes, MoneyTypes', Cleared, LoanHasAnAccount, Folding, Folding',
         UNCHANGED <<day, accounts, payments, loans, snap>>,
         NEW new \in Seq(TxnRow), txns' = txns \o new,
         \A k \in DOMAIN new : Timely(new[k].acct, new[k].booked),
         \A a \in Accounts : fold'[a] = fold[a] + Held(new, {"posted"}, a)
  PROVE  Cleared' /\ LoanHasAnAccount'
<1>1. txns \in Seq(TxnRow) /\ payments \in Seq(PaymentRow) /\ DOMAIN snap \subseteq Accounts
      /\ fold \in [Accounts -> Int]
  BY DEF MoneyTypes
<1>2. SnapInv'
  <2>1. step' # "idle" /\ (Folded' <=> Folded)
    BY DEF Folding, Folded
  <2> QED BY <2>1 DEF Cleared, SnapInv
<1>3. LifeInv'
  <2>1. \A i \in DOMAIN txns' :
          \/ /\ i \in DOMAIN txns
             /\ txns'[i].acct = txns[i].acct /\ txns'[i].booked = txns[i].booked
          \/ Timely(txns'[i].acct, txns'[i].booked)
    <3>1. ASSUME NEW i \in DOMAIN txns'
          PROVE  \/ i \in DOMAIN txns /\ txns'[i] = txns[i]
                 \/ \E k \in DOMAIN new : txns'[i] = new[k]
      BY <1>1, RowsOfBoth
    <3> QED BY <3>1
  <2> QED BY <2>1, TransactionsInLife DEF Cleared
<1>4. ASSUME NEW a PROVE PostedSum(a)' = PostedSum(a) + Held(new, {"posted"}, a)
  <2>1. Held(txns', {"posted"}, a) = Held(txns, {"posted"}, a) + Held(new, {"posted"}, a)
    BY <1>1, TxnsGrow
  <2>2. Held(txns, {"posted"}, a) \in Int /\ Held(new, {"posted"}, a) \in Int
        /\ Held(payments, PostedPayment, a) \in Int
    BY <1>1, HeldIsInteger
  <2> QED BY <2>1, <2>2, PostedSumSplits
<1>5. BalanceInv'
  <2>1. ASSUME NEW a \in DOMAIN snap PROVE fold'[a] = PostedSum(a)'
    <3>1. fold[a] = PostedSum(a) /\ a \in Accounts
      BY <1>1 DEF Cleared, BalanceInv
    <3> QED BY <1>4, <3>1
  <2>2. ASSUME NEW a \in Accounts, a \notin DOMAIN snap
        PROVE  accounts[a].balance = PostedSum(a)'
    <3>1. accounts[a].balance = PostedSum(a) /\ PostedSum(a) \in Int
      BY <1>1, <2>2, PostedSumType DEF Cleared, BalanceInv
    <3>2. PostedIn(new, {"posted"}, a) = {}
      BY <2>2 DEF PostedIn, Timely
    <3>3. Held(new, {"posted"}, a) = 0
      BY <3>2, HeldOfNone
    <3> QED BY <1>4, <3>1, <3>3
  <2> QED BY <2>1, <2>2 DEF BalanceInv
<1>6. LoanHasAnAccount'
  BY AccountsStayOpen
<1> QED BY <1>2, <1>3, <1>5, <1>6 DEF Cleared

(* New payments that the fold follows. *)
LEMMA NewPaymentsKeep ==
  ASSUME MoneyTypes, MoneyTypes', Cleared, LoanHasAnAccount, Folding, Folding',
         UNCHANGED <<day, accounts, txns, loans, snap>>,
         NEW new \in Seq(PaymentRow), payments' = payments \o new,
         \A k \in DOMAIN new : Timely(new[k].acct, new[k].initiated),
         \A a \in Accounts : fold'[a] = fold[a] + Held(new, PostedPayment, a)
  PROVE  Cleared' /\ LoanHasAnAccount'
<1>1. txns \in Seq(TxnRow) /\ payments \in Seq(PaymentRow) /\ DOMAIN snap \subseteq Accounts
      /\ fold \in [Accounts -> Int]
  BY DEF MoneyTypes
<1>2. SnapInv'
  <2>1. step' # "idle" /\ (Folded' <=> Folded)
    BY DEF Folding, Folded
  <2> QED BY <2>1 DEF Cleared, SnapInv
<1>3. LifeInv'
  <2>1. \A i \in DOMAIN payments' :
          \/ /\ i \in DOMAIN payments
             /\ payments'[i].acct = payments[i].acct
             /\ payments'[i].initiated = payments[i].initiated
          \/ Timely(payments'[i].acct, payments'[i].initiated)
    <3>1. ASSUME NEW i \in DOMAIN payments'
          PROVE  \/ i \in DOMAIN payments /\ payments'[i] = payments[i]
                 \/ \E k \in DOMAIN new : payments'[i] = new[k]
      BY <1>1, RowsOfBoth
    <3> QED BY <3>1
  <2> QED BY <2>1, PaymentsInLife DEF Cleared
<1>4. ASSUME NEW a PROVE PostedSum(a)' = PostedSum(a) + Held(new, PostedPayment, a)
  <2>1. Held(payments', PostedPayment, a)
          = Held(payments, PostedPayment, a) + Held(new, PostedPayment, a)
    BY <1>1, PaymentsGrow
  <2>2. Held(txns, {"posted"}, a) \in Int /\ Held(new, PostedPayment, a) \in Int
        /\ Held(payments, PostedPayment, a) \in Int
    BY <1>1, HeldIsInteger
  <2> QED BY <2>1, <2>2, PostedSumSplits
<1>5. BalanceInv'
  <2>1. ASSUME NEW a \in DOMAIN snap PROVE fold'[a] = PostedSum(a)'
    <3>1. fold[a] = PostedSum(a) /\ a \in Accounts
      BY <1>1 DEF Cleared, BalanceInv
    <3> QED BY <1>4, <3>1
  <2>2. ASSUME NEW a \in Accounts, a \notin DOMAIN snap
        PROVE  accounts[a].balance = PostedSum(a)'
    <3>1. accounts[a].balance = PostedSum(a) /\ PostedSum(a) \in Int
      BY <1>1, <2>2, PostedSumType DEF Cleared, BalanceInv
    <3>2. PostedIn(new, PostedPayment, a) = {}
      BY <2>2 DEF PostedIn, Timely
    <3>3. Held(new, PostedPayment, a) = 0
      BY <3>2, HeldOfNone
    <3> QED BY <1>4, <3>1, <3>3
  <2> QED BY <2>1, <2>2 DEF BalanceInv
<1>6. LoanHasAnAccount'
  BY AccountsStayOpen
<1> QED BY <1>2, <1>3, <1>5, <1>6 DEF Cleared

(* Inserted rows of the clearing cycle. *)
LEMMA InsertedKeep ==
  ASSUME MoneyTypes, MoneyTypes', Cleared, LoanHasAnAccount, Folding, Folding',
         NEW new, NEW batches, PostsNew(new, batches)
  PROVE  Cleared' /\ LoanHasAnAccount'
<1>1. new \in Seq(TxnRow) /\ txns' = txns \o new /\ fold' = Moved(fold, new, DOMAIN new)
      /\ UNCHANGED <<day, accounts, payments, loans, snap>>
      /\ \A k \in DOMAIN new :
           /\ new[k].acct \in DOMAIN snap /\ new[k].status = "posted" /\ new[k].booked =< day
           /\ new[k].booked = day \/ snap[new[k].acct].opened =< new[k].booked
  BY DEF PostsNew, InsertPosted
<1>2. \A k \in DOMAIN new : Timely(new[k].acct, new[k].booked)
  <2>1. ASSUME NEW k \in DOMAIN new PROVE Timely(new[k].acct, new[k].booked)
    <3>1. PICK a \in DOMAIN snap : a = new[k].acct
      BY <1>1
    <3>2. a \in Accounts /\ snap[a].opened = accounts[a].opened /\ accounts[a].opened =< day
      BY DEF MoneyTypes, Cleared, SnapInv, LifeInv
    <3> QED BY <1>1, <3>1, <3>2 DEF Timely
  <2> QED BY <2>1
<1>3. ASSUME NEW a \in Accounts PROVE fold'[a] = fold[a] + Held(new, {"posted"}, a)
  <2>1. fold \in [Accounts -> Int] /\ DOMAIN new \in SUBSET DOMAIN new
    BY DEF MoneyTypes
  <2>2. Moved(fold, new, DOMAIN new)[a]
          = fold[a] + Total(AmountsOf(new), OnAccount(new, DOMAIN new, a))
    BY <1>1, <2>1, AmountsAreIntegers, MovedAdds
  <2>3. PostedIn(new, {"posted"}, a) = OnAccount(new, DOMAIN new, a)
    BY <1>1 DEF PostedIn, OnAccount
  <2> QED BY <1>1, <2>2, <2>3 DEF Held
<1> QED BY <1>1, <1>2, <1>3, NewTransactionsKeep

(* A movement of today is timely for every account in the snapshot. *)
LEMMA TodayIsTimely ==
  ASSUME MoneyTypes, Cleared, NEW a \in DOMAIN snap
  PROVE  Timely(a, day)
<1>1. a \in Accounts /\ day \in Nat /\ accounts[a].opened =< day
  BY DEF MoneyTypes, Cleared, LifeInv
<1> QED BY <1>1 DEF Timely

(* A table of one row. *)
LEMMA OneRow ==
  ASSUME NEW R, NEW row \in R
  PROVE  <<row>> \in Seq(R) /\ DOMAIN <<row>> = {1} /\ <<row>>[1] = row
OBVIOUS

(* A drawn transaction moves the fold exactly if it is posted. *)
LEMMA DrawnTransactionKeeps ==
  ASSUME MoneyTypes, MoneyTypes', Cleared, LoanHasAnAccount, Folding, Folding',
         NEW row, DrawsTxn(row)
  PROVE  Cleared' /\ LoanHasAnAccount'
<1>1. row \in TxnRow /\ row.acct \in DOMAIN snap /\ row.booked = day /\ txns' = txns \o <<row>>
      /\ UNCHANGED <<day, accounts, payments, loans, snap>>
      /\ fold' = IF row.status = "posted" THEN [fold EXCEPT ![row.acct] = @ + row.amt] ELSE fold
  BY DEF DrawsTxn
<1>2. PICK new : new = <<row>>
  OBVIOUS
<1>3. new \in Seq(TxnRow) /\ DOMAIN new = {1} /\ new[1] = row
  BY <1>1, <1>2, OneRow
<1>4. \A k \in DOMAIN new : Timely(new[k].acct, new[k].booked)
  BY <1>1, <1>3, TodayIsTimely
<1>5. ASSUME NEW a \in Accounts PROVE fold'[a] = fold[a] + Held(new, {"posted"}, a)
  <2>1. Held(new, {"posted"}, a) = IF row.acct = a /\ row.status \in {"posted"} THEN row.amt ELSE 0
    BY <1>1, <1>2, AmountsAreIntegers, HeldOfOne
  <2>2. fold \in [Accounts -> Int] /\ fold[a] \in Int
    BY DEF MoneyTypes
  <2> QED BY <1>1, <2>1, <2>2
<1> QED BY <1>1, <1>2, <1>3, <1>4, <1>5, NewTransactionsKeep

(* And so does a drawn payment. *)
LEMMA DrawnPaymentKeeps ==
  ASSUME MoneyTypes, MoneyTypes', Cleared, LoanHasAnAccount, Folding, Folding',
         NEW row, DrawsPayment(row)
  PROVE  Cleared' /\ LoanHasAnAccount'
<1>1. row \in PaymentRow /\ row.acct \in DOMAIN snap /\ row.initiated = day
      /\ payments' = payments \o <<row>>
      /\ UNCHANGED <<day, accounts, txns, loans, snap>>
      /\ fold' = IF row.status \in PostedPayment
                 THEN [fold EXCEPT ![row.acct] = @ + row.amt] ELSE fold
  BY DEF DrawsPayment
<1>2. PICK new : new = <<row>>
  OBVIOUS
<1>3. new \in Seq(PaymentRow) /\ DOMAIN new = {1} /\ new[1] = row
  BY <1>1, <1>2, OneRow
<1>4. \A k \in DOMAIN new : Timely(new[k].acct, new[k].initiated)
  BY <1>1, <1>3, TodayIsTimely
<1>5. ASSUME NEW a \in Accounts PROVE fold'[a] = fold[a] + Held(new, PostedPayment, a)
  <2>1. Held(new, PostedPayment, a)
          = IF row.acct = a /\ row.status \in PostedPayment THEN row.amt ELSE 0
    BY <1>1, <1>2, AmountsAreIntegers, HeldOfOne
  <2>2. fold \in [Accounts -> Int] /\ fold[a] \in Int
    BY DEF MoneyTypes
  <2> QED BY <1>1, <2>1, <2>2
<1> QED BY <1>1, <1>2, <1>3, <1>4, <1>5, NewPaymentsKeep

(* The write of the fold: the difference to the snapshot, added to the row, *)
(* is what is posted.                                                       *)
LEMMA WriteFoldKeeps ==
  ASSUME MoneyTypes, Cleared, LoanHasAnAccount, WriteFold
  PROVE  Cleared' /\ LoanHasAnAccount'
<1>1. /\ step = "day" /\ step' = "void"
      /\ UNCHANGED <<day, txns, payments, loans, snap>>
      /\ \A a \in Accounts :
              /\ accounts'[a].status = accounts[a].status
              /\ accounts'[a].opened = accounts[a].opened
              /\ accounts'[a].closed = accounts[a].closed
              /\ a \in DOMAIN snap =>
                   accounts'[a].balance = accounts[a].balance + (fold[a] - snap[a].balance)
              /\ a \notin DOMAIN snap => accounts'[a].balance = accounts[a].balance
  BY WriteFoldDoes
<1>2. DOMAIN snap \subseteq Accounts /\ fold \in [Accounts -> Int]
      /\ \A a \in Accounts : accounts[a].balance \in Int
  BY DEF MoneyTypes, AccountRow
<1>3. SnapInv'
  BY <1>1, <1>2 DEF Cleared, SnapInv, Open, Folded
<1>4. LifeInv'
  <2>1. \A i \in DOMAIN txns : txns[i].acct \in Accounts
    BY MovementsHaveDates
  <2>2. \A i \in DOMAIN payments : payments[i].acct \in Accounts
    BY MovementsHaveDates
  <2> QED BY <1>1, <2>1, <2>2 DEF Cleared, LifeInv, NoMovementOutsideLife, WithinLife, Open
<1>5. BalanceInv'
  <2>1. ~ Folding' /\ Folding /\ ~ Folded
    BY <1>1 DEF Folding, Folded
  <2>2. ASSUME NEW a \in Accounts PROVE accounts'[a].balance = PostedSum(a)
    <3>1. CASE a \in DOMAIN snap
      <4>1. fold[a] = PostedSum(a) /\ snap[a].balance = accounts[a].balance
        BY <2>1, <3>1 DEF Cleared, BalanceInv, SnapInv
      <4> QED BY <1>1, <1>2, <3>1, <4>1
    <3>2. CASE a \notin DOMAIN snap
      BY <1>1, <2>1, <3>2 DEF Cleared, BalanceInv
    <3> QED BY <3>1, <3>2
  <2> QED BY <1>1, <2>1, <2>2, SumsStay DEF BalanceInv
<1>6. LoanHasAnAccount'
  <2>1. \A a \in Accounts : Open(accounts[a]) => Open(accounts'[a])
    BY <1>1 DEF Open
  <2> QED BY <1>1, <2>1, AccountsStayOpen
<1> QED BY <1>3, <1>4, <1>5, <1>6 DEF Cleared

(* Voiding moves nothing, because what is voided was never posted. *)
LEMMA VoidKeeps ==
  ASSUME MoneyTypes, Cleared, LoanHasAnAccount, VoidTransactions
  PROVE  Cleared' /\ LoanHasAnAccount'
<1>1. /\ step = "void" /\ step' = "clear"
      /\ UNCHANGED <<day, accounts, payments, loans, snap, fold>>
      /\ DOMAIN txns' = DOMAIN txns
      /\ \A i \in DOMAIN txns :
              /\ txns'[i].acct = txns[i].acct /\ txns'[i].amt = txns[i].amt
              /\ txns'[i].booked = txns[i].booked /\ txns'[i].status = txns[i].status
  BY VoidDoes
<1>2. SnapInv'
  BY <1>1 DEF Cleared, SnapInv, Folded
<1>3. LifeInv'
  BY <1>1, TransactionsInLife DEF Cleared
<1>4. BalanceInv'
  <2>1. ASSUME NEW a PROVE PostedSum(a)' = PostedSum(a)
    <3>1. Held(txns', {"posted"}, a) = Held(txns, {"posted"}, a)
      BY <1>1, HeldStays
    <3> QED BY <1>1, <3>1, PostedSumSplits
  <2> QED BY <1>1, <2>1 DEF Cleared, BalanceInv, Folding
<1>5. LoanHasAnAccount'
  BY <1>1, AccountsStayOpen
<1> QED BY <1>2, <1>3, <1>4, <1>5 DEF Cleared

(* The commit closes the snapshot. *)
LEMMA CommitKeeps ==
  ASSUME Cleared, LoanHasAnAccount, Commit
  PROVE  Cleared' /\ LoanHasAnAccount'
<1>1. step = "guard" /\ step' = "idle" /\ DOMAIN snap' = {}
      /\ UNCHANGED <<day, accounts, txns, payments, loans, fold>>
  BY DEF Commit, Goes, book
<1>2. SnapInv'
  BY <1>1 DEF SnapInv
<1>3. LifeInv'
  BY <1>1 DEF Cleared, LifeInv, NoMovementOutsideLife, WithinLife
<1>4. BalanceInv'
  BY <1>1, SumsStay DEF Cleared, BalanceInv, Folding
<1>5. LoanHasAnAccount'
  BY <1>1, AccountsStayOpen
<1> QED BY <1>2, <1>3, <1>4, <1>5 DEF Cleared

-----------------------------------------------------------------------------
(***************************************************************************)
(* The ledger.  A batch is known by the event it stands for: no two stand  *)
(* for the same, and those of a table are those of its posted rows.        *)
(***************************************************************************)
Unique(led) == \A b, c \in DOMAIN led : led[b].of = led[c].of => b = c

Posted(rows, St, i) == i \in DOMAIN rows /\ rows[i].status \in St

Kept(led, kind, rows, St) ==
  /\ \A b \in DOMAIN led, i \in Nat : led[b].of = <<kind, i>> =>
       Posted(rows, St, i) /\ StandsFor(led[b], kind, i, rows[i])
  /\ \A i \in DOMAIN rows : rows[i].status \in St =>
       \E b \in DOMAIN led : led[b].of = <<kind, i>>

LedgerKept ==
  /\ Unique(ledger)
  /\ Kept(ledger, "transaction", txns, {"posted"})
  /\ Kept(ledger, "payment", payments, PostedPayment)

(* The batches that are appended stand for the rows that become posted.     *)
Enters(kind, rows, next, St, batches, ids) ==
  /\ \A k \in DOMAIN batches :
       /\ ids[k] \in Nat /\ Posted(next, St, ids[k]) /\ ~ Posted(rows, St, ids[k])
       /\ StandsFor(batches[k], kind, ids[k], next[ids[k]])
  /\ \A k, l \in DOMAIN batches : ids[k] = ids[l] => k = l
  /\ \A i \in DOMAIN next : next[i].status \in St =>
       Posted(rows, St, i) \/ \E k \in DOMAIN batches : ids[k] = i
  /\ \A i \in DOMAIN rows : rows[i].status \in St =>
       Posted(next, St, i) /\ next[i].acct = rows[i].acct /\ next[i].amt = rows[i].amt

(* Two references agree only if they name the same event. *)
LEMMA EventsDiffer ==
  \A kind, other, i, j : <<kind, i>> = <<other, j>> => kind = other /\ i = j
OBVIOUS

(* A ledger grows by the batches of what enters one table, and still keeps  *)
(* the other.                                                               *)
LEMMA LedgerGrows ==
  ASSUME NEW led \in Seq(BatchRow), NEW batches \in Seq(BatchRow), Unique(led),
         NEW kind, NEW other, kind # other, NEW rows, NEW next, NEW St, NEW ids,
         Kept(led, kind, rows, St), Enters(kind, rows, next, St, batches, ids),
         DOMAIN rows \subseteq Nat, DOMAIN next \subseteq Nat,
         NEW kin, NEW Su, Kept(led, other, kin, Su)
  PROVE  /\ Unique(led \o batches)
         /\ Kept(led \o batches, kind, next, St)
         /\ Kept(led \o batches, other, kin, Su)
<1> DEFINE n == Len(led)
           all == led \o batches
<1>1. /\ n \in Nat /\ DOMAIN led = 1 .. n
      /\ \A b \in DOMAIN led : b \in DOMAIN all /\ all[b] = led[b]
      /\ \A k \in DOMAIN batches : n + k \in DOMAIN all /\ all[n + k] = batches[k]
  OBVIOUS
<1>2. \A b \in DOMAIN all :
        \/ b \in DOMAIN led /\ all[b] = led[b]
        \/ \E k \in DOMAIN batches : b = n + k /\ all[b] = batches[k]
  BY RowsOfBoth
<1> HIDE DEF n, all
<1>3. ASSUME NEW k \in DOMAIN batches
      PROVE  /\ batches[k].of = <<kind, ids[k]>> /\ ids[k] \in Nat
             /\ \A b \in DOMAIN led : led[b].of # batches[k].of
  <2>1. batches[k].of = <<kind, ids[k]>> /\ ids[k] \in Nat /\ ~ Posted(rows, St, ids[k])
    BY DEF Enters, StandsFor
  <2> QED BY <2>1 DEF Kept
<1>4. ASSUME NEW k \in DOMAIN batches, NEW l \in DOMAIN batches, batches[k].of = batches[l].of
      PROVE  k = l
  <2>1. ids[k] = ids[l]
    BY <1>3, <1>4, EventsDiffer
  <2> QED BY <2>1 DEF Enters
<1>5. Unique(all)
  <2>1. ASSUME NEW b \in DOMAIN all, NEW c \in DOMAIN all, all[b].of = all[c].of PROVE b = c
    <3>1. CASE all[b] = led[b] /\ b \in DOMAIN led /\ all[c] = led[c] /\ c \in DOMAIN led
      BY <2>1, <3>1 DEF Unique
    <3>2. CASE all[b] = led[b] /\ b \in DOMAIN led
               /\ \E k \in DOMAIN batches : c = n + k /\ all[c] = batches[k]
      BY <1>3, <2>1, <3>2
    <3>3. CASE all[c] = led[c] /\ c \in DOMAIN led
               /\ \E k \in DOMAIN batches : b = n + k /\ all[b] = batches[k]
      BY <1>3, <2>1, <3>3
    <3>4. CASE /\ \E k \in DOMAIN batches : b = n + k /\ all[b] = batches[k]
               /\ \E k \in DOMAIN batches : c = n + k /\ all[c] = batches[k]
      <4>1. PICK k \in DOMAIN batches : b = n + k /\ all[b] = batches[k]
        BY <3>4
      <4>2. PICK l \in DOMAIN batches : c = n + l /\ all[c] = batches[l]
        BY <3>4
      <4> QED BY <1>4, <2>1, <4>1, <4>2
    <3> QED BY <1>2, <3>1, <3>2, <3>3, <3>4
  <2> QED BY <2>1 DEF Unique
<1>6. Kept(all, kind, next, St)
  <2>1. ASSUME NEW b \in DOMAIN all, NEW i \in Nat, all[b].of = <<kind, i>>
        PROVE  Posted(next, St, i) /\ StandsFor(all[b], kind, i, next[i])
    <3>1. CASE b \in DOMAIN led /\ all[b] = led[b]
      <4>1. Posted(rows, St, i) /\ StandsFor(led[b], kind, i, rows[i])
        BY <2>1, <3>1 DEF Kept
      <4>2. Posted(next, St, i) /\ next[i].acct = rows[i].acct /\ next[i].amt = rows[i].amt
        BY <4>1 DEF Enters, Posted
      <4> QED BY <3>1, <4>1, <4>2 DEF StandsFor
    <3>2. CASE \E k \in DOMAIN batches : b = n + k /\ all[b] = batches[k]
      <4>1. PICK k \in DOMAIN batches : all[b] = batches[k]
        BY <3>2
      <4>2. ids[k] = i
        BY <1>3, <2>1, <4>1, EventsDiffer
      <4>3. Posted(next, St, i) /\ StandsFor(batches[k], kind, i, next[i])
        BY <4>2 DEF Enters
      <4> QED BY <4>1, <4>3
    <3> QED BY <1>2, <3>1, <3>2
  <2>2. ASSUME NEW i \in DOMAIN next, next[i].status \in St
        PROVE  \E b \in DOMAIN all : all[b].of = <<kind, i>>
    <3>1. CASE Posted(rows, St, i)
      <4>1. PICK b \in DOMAIN led : led[b].of = <<kind, i>>
        BY <3>1 DEF Posted, Kept
      <4> QED BY <1>1, <4>1
    <3>2. CASE \E k \in DOMAIN batches : ids[k] = i
      <4>1. PICK k \in DOMAIN batches : ids[k] = i
        BY <3>2
      <4>2. batches[k].of = <<kind, i>>
        BY <1>3, <4>1
      <4> QED BY <1>1, <4>2
    <3> QED BY <2>2, <3>1, <3>2 DEF Enters
  <2> QED BY <2>1, <2>2 DEF Kept
<1>7. Kept(all, other, kin, Su)
  <2>1. ASSUME NEW b \in DOMAIN all, NEW i \in Nat, all[b].of = <<other, i>>
        PROVE  Posted(kin, Su, i) /\ StandsFor(all[b], other, i, kin[i])
    <3>1. CASE b \in DOMAIN led /\ all[b] = led[b]
      BY <2>1, <3>1 DEF Kept
    <3>2. CASE \E k \in DOMAIN batches : b = n + k /\ all[b] = batches[k]
      BY <1>3, <2>1, <3>2, EventsDiffer
    <3> QED BY <1>2, <3>1, <3>2
  <2>2. ASSUME NEW i \in DOMAIN kin, kin[i].status \in Su
        PROVE  \E b \in DOMAIN all : all[b].of = <<other, i>>
    <3>1. PICK b \in DOMAIN led : led[b].of = <<other, i>>
      BY <2>2 DEF Kept
    <3> QED BY <1>1, <3>1
  <2> QED BY <2>1, <2>2 DEF Kept
<1> QED BY <1>5, <1>6, <1>7 DEF all

(* A handler whose batches are those of the transactions that become        *)
(* posted.                                                                  *)
LEMMA TransactionsEnter ==
  ASSUME MoneyTypes, MoneyTypes', LedgerKept, UNCHANGED payments,
         NEW batches \in Seq(BatchRow), NEW ids, ledger' = ledger \o batches,
         Enters("transaction", txns, txns', {"posted"}, batches, ids)
  PROVE  LedgerKept'
<1>1. ledger \in Seq(BatchRow) /\ DOMAIN txns \subseteq Nat /\ DOMAIN txns' \subseteq Nat
  <2>1. txns \in Seq(TxnRow) /\ txns' \in Seq(TxnRow) /\ ledger \in Seq(BatchRow)
    BY DEF MoneyTypes
  <2> QED BY <2>1
<1>2. "transaction" # "payment"
  OBVIOUS
<1>3. /\ Unique(ledger \o batches)
      /\ Kept(ledger \o batches, "transaction", txns', {"posted"})
      /\ Kept(ledger \o batches, "payment", payments, PostedPayment)
  BY <1>1, <1>2, LedgerGrows DEF LedgerKept
<1> QED BY <1>3 DEF LedgerKept, Unique, Kept, Posted

(* A handler whose batches are those of the payments that become posted. *)
LEMMA PaymentsEnter ==
  ASSUME MoneyTypes, MoneyTypes', LedgerKept, UNCHANGED txns,
         NEW batches \in Seq(BatchRow), NEW ids, ledger' = ledger \o batches,
         Enters("payment", payments, payments', PostedPayment, batches, ids)
  PROVE  LedgerKept'
<1>1. ledger \in Seq(BatchRow) /\ DOMAIN payments \subseteq Nat /\ DOMAIN payments' \subseteq Nat
  <2>1. payments \in Seq(PaymentRow) /\ payments' \in Seq(PaymentRow) /\ ledger \in Seq(BatchRow)
    BY DEF MoneyTypes
  <2> QED BY <2>1
<1>2. "transaction" # "payment"
  OBVIOUS
<1>3. /\ Unique(ledger \o batches)
      /\ Kept(ledger \o batches, "payment", payments', PostedPayment)
      /\ Kept(ledger \o batches, "transaction", txns, {"posted"})
  BY <1>1, <1>2, LedgerGrows DEF LedgerKept
<1> QED BY <1>3 DEF LedgerKept, Unique, Kept, Posted

(* Rows that reach a posted status enter with the batches of their          *)
(* positions.                                                               *)
LEMMA PostingEnters ==
  ASSUME NEW kind \in {"transaction", "payment"}, day \in Nat, NEW R,
         \A r \in R : r.acct \in Accounts /\ r.amt \in Int,
         NEW rows \in Seq(R), NEW next, NEW S \in SUBSET DOMAIN rows, NEW St,
         Reach(rows, next, St, S)
  PROVE  Enters(kind, rows, next, St, Posting(kind, rows, S), InOrder(S))
<1> DEFINE new == Posting(kind, rows, S)
           ids == InOrder(S)
<1>1. S \in SUBSET Nat /\ IsFiniteSet(S)
  BY PositionsAreFinite
<1>2. /\ DOMAIN new = DOMAIN ids
      /\ \A k \in DOMAIN new :
           ids[k] \in S /\ new[k] = Batch(kind, ids[k], rows[ids[k]].acct, rows[ids[k]].amt)
  BY PostingPosts
<1>3. /\ DOMAIN ids = 1 .. Cardinality(S)
      /\ \A i \in S : \E k \in 1 .. Cardinality(S) : ids[k] = i
      /\ \A k, l \in 1 .. Cardinality(S) : ids[k] = ids[l] => k = l
  BY <1>1, InOrderLists
<1> HIDE DEF new, ids
<1>4. ASSUME NEW k \in DOMAIN new
      PROVE  /\ ids[k] \in Nat /\ Posted(next, St, ids[k]) /\ ~ Posted(rows, St, ids[k])
             /\ StandsFor(new[k], kind, ids[k], next[ids[k]])
  <2>1. PICK i \in S : i = ids[k] /\ new[k] = Batch(kind, i, rows[i].acct, rows[i].amt)
    BY <1>2
  <2>2. i \in DOMAIN rows /\ i \in Nat /\ rows[i].amt \in Int
    BY <1>1
  <2>3. next[i].acct = rows[i].acct /\ next[i].amt = rows[i].amt /\ next[i].status \in St
        /\ rows[i].status \notin St /\ i \in DOMAIN next
    BY <2>2 DEF Reach
  <2>4. StandsFor(Batch(kind, i, rows[i].acct, rows[i].amt), kind, i, rows[i])
    BY <2>2, BatchStandsFor
  <2>5. StandsFor(new[k], kind, i, next[i])
    BY <2>1, <2>3, <2>4 DEF StandsFor
  <2> QED BY <2>1, <2>2, <2>3, <2>5 DEF Posted
<1>5. \A k, l \in DOMAIN new : ids[k] = ids[l] => k = l
  BY <1>2, <1>3
<1>6. \A i \in DOMAIN next : next[i].status \in St =>
        Posted(rows, St, i) \/ \E k \in DOMAIN new : ids[k] = i
  BY <1>2, <1>3 DEF Reach, Posted
<1>7. \A i \in DOMAIN rows : rows[i].status \in St =>
        Posted(next, St, i) /\ next[i].acct = rows[i].acct /\ next[i].amt = rows[i].amt
  BY DEF Reach, Posted
<1> QED BY <1>4, <1>5, <1>6, <1>7 DEF Enters, new, ids

(* New posted rows enter with a batch each. *)
LEMMA NewRowsEnter ==
  ASSUME NEW kind, NEW R, NEW rows \in Seq(R), NEW new \in Seq(R), NEW St,
         NEW batches \in Seq(BatchRow), Len(batches) = Len(new),
         \A k \in DOMAIN new :
           new[k].status \in St /\ StandsFor(batches[k], kind, Len(rows) + k, new[k])
  PROVE  Enters(kind, rows, rows \o new, St, batches, [k \in DOMAIN new |-> Len(rows) + k])
<1> DEFINE n == Len(rows)
           next == rows \o new
           ids == [k \in DOMAIN new |-> n + k]
<1>1. /\ n \in Nat /\ DOMAIN rows = 1 .. n /\ DOMAIN batches = DOMAIN new
      /\ DOMAIN new \subseteq Nat \ {0}
      /\ \A i \in DOMAIN rows : i \in DOMAIN next /\ next[i] = rows[i]
      /\ \A k \in DOMAIN new : n + k \in DOMAIN next /\ next[n + k] = new[k]
  OBVIOUS
<1>2. \A i \in DOMAIN next :
        \/ i \in DOMAIN rows /\ next[i] = rows[i]
        \/ \E k \in DOMAIN new : i = n + k /\ next[i] = new[k]
  BY RowsOfBoth
<1>3. \A k \in DOMAIN new : StandsFor(batches[k], kind, n + k, new[k]) /\ new[k].status \in St
  OBVIOUS
<1>4. \A k \in DOMAIN new : ids[k] = n + k
  OBVIOUS
<1> HIDE DEF n, next, ids
<1>5. ASSUME NEW k \in DOMAIN batches
      PROVE  /\ ids[k] \in Nat /\ Posted(next, St, ids[k]) /\ ~ Posted(rows, St, ids[k])
             /\ StandsFor(batches[k], kind, ids[k], next[ids[k]])
  <2>1. PICK i \in Nat : i = n + k /\ i = ids[k]
    BY <1>1, <1>4
  <2>2. i \in DOMAIN next /\ next[i] = new[k] /\ i \notin DOMAIN rows
    BY <1>1, <2>1
  <2>3. StandsFor(batches[k], kind, i, new[k]) /\ new[k].status \in St
    BY <1>1, <1>3, <2>1
  <2> QED BY <2>1, <2>2, <2>3 DEF Posted
<1>6. \A k, l \in DOMAIN batches : ids[k] = ids[l] => k = l
  BY <1>1, <1>4
<1>7. \A i \in DOMAIN next : next[i].status \in St =>
        Posted(rows, St, i) \/ \E k \in DOMAIN batches : ids[k] = i
  BY <1>1, <1>2, <1>4 DEF Posted
<1>8. \A i \in DOMAIN rows : rows[i].status \in St =>
        Posted(next, St, i) /\ next[i].acct = rows[i].acct /\ next[i].amt = rows[i].amt
  BY <1>1 DEF Posted
<1>9. Enters(kind, rows, next, St, batches, ids)
  BY <1>5, <1>6, <1>7, <1>8 DEF Enters
<1> QED BY <1>9 DEF n, next, ids

(* Rows that change without reaching or leaving a posted status.            *)
LEMMA NothingEnters ==
  ASSUME NEW kind, NEW rows, NEW next, NEW St, NEW ids,
         \A i \in DOMAIN next : next[i].status \in St => Posted(rows, St, i),
         \A i \in DOMAIN rows : rows[i].status \in St =>
           Posted(next, St, i) /\ next[i].acct = rows[i].acct /\ next[i].amt = rows[i].amt
  PROVE  Enters(kind, rows, next, St, << >>, ids)
<1>1. DOMAIN << >> = {}
  OBVIOUS
<1> QED BY <1>1 DEF Enters

(* A ledger without new batches. *)
LEMMA EmptyAppends ==
  ASSUME ledger \in Seq(BatchRow)
  PROVE  << >> \in Seq(BatchRow) /\ ledger = ledger \o << >>
OBVIOUS

(* The deferred transactions that post. *)
LEMMA DeferredLedger ==
  ASSUME MoneyTypes, MoneyTypes', LedgerKept, PostDeferred PROVE LedgerKept'
<1>1. PICK S : PostsPending(S)
  BY DeferredDoes
<1>2. S \in SUBSET DOMAIN txns /\ txns \in Seq(TxnRow) /\ day \in Nat
      /\ ledger' = ledger \o Posting("transaction", txns, S) /\ UNCHANGED payments
  BY <1>1 DEF PostsPending, MoneyTypes
<1>3. Reach(txns, txns', {"posted"}, S)
  BY <1>1 DEF PostsPending, Reach
<1>4. Enters("transaction", txns, txns', {"posted"}, Posting("transaction", txns, S), InOrder(S))
  BY <1>2, <1>3, RowsHaveAccounts, PostingEnters
<1>5. Posting("transaction", txns, S) \in Seq(BatchRow)
  BY <1>2, PostingTypes
<1> QED BY <1>2, <1>4, <1>5, TransactionsEnter

(* Payments that are booked. *)
LEMMA PaymentsLedger ==
  ASSUME MoneyTypes, MoneyTypes', LedgerKept, AdvancePayments PROVE LedgerKept'
<1>1. PICK S : BooksPending(S)
  BY PaymentsDo
<1>2. S \in SUBSET DOMAIN payments /\ payments \in Seq(PaymentRow) /\ day \in Nat
      /\ ledger' = ledger \o Posting("payment", payments, S) /\ UNCHANGED txns
  BY <1>1 DEF BooksPending, MoneyTypes
<1>3. Reach(payments, payments', PostedPayment, S)
  BY <1>1 DEF BooksPending, Reach, PostedPayment
<1>4. Enters("payment", payments, payments', PostedPayment, Posting("payment", payments, S),
             InOrder(S))
  BY <1>2, <1>3, RowsHaveAccounts, PostingEnters
<1>5. Posting("payment", payments, S) \in Seq(BatchRow)
  BY <1>2, PostingTypes
<1> QED BY <1>2, <1>4, <1>5, PaymentsEnter

(* Rows the clearing cycle inserts. *)
LEMMA InsertedLedger ==
  ASSUME MoneyTypes, MoneyTypes', LedgerKept, NEW new, NEW batches, PostsNew(new, batches)
  PROVE  LedgerKept'
<1>1. /\ new \in Seq(TxnRow) /\ batches \in Seq(BatchRow) /\ Len(batches) = Len(new)
      /\ txns' = txns \o new /\ ledger' = ledger \o batches /\ UNCHANGED payments
      /\ \A k \in DOMAIN new : new[k].status \in {"posted"}
           /\ StandsFor(batches[k], "transaction", Len(txns) + k, new[k])
  BY DEF PostsNew, InsertPosted
<1>2. txns \in Seq(TxnRow)
  BY DEF MoneyTypes
<1>3. Enters("transaction", txns, txns', {"posted"}, batches,
             [k \in DOMAIN new |-> Len(txns) + k])
  BY <1>1, <1>2, NewRowsEnter
<1> QED BY <1>1, <1>3, TransactionsEnter

(* Opening deposits. *)
LEMMA OnboardLedger ==
  ASSUME MoneyTypes, MoneyTypes', LedgerKept, Onboard PROVE LedgerKept'
<1>1. PICK S, deposit, rows : OpensBook(S, deposit, rows)
  BY OnboardDoes
<1>2. /\ rows \in Seq(TxnRow) /\ txns' = txns \o rows /\ ledger' = ledger \o BatchesOf(rows)
      /\ UNCHANGED payments /\ \A k \in DOMAIN rows : rows[k].status \in {"posted"}
  BY <1>1 DEF OpensBook
<1>3. txns \in Seq(TxnRow) /\ day \in Nat
  BY DEF MoneyTypes
<1>4. PICK batches : batches = BatchesOf(rows)
  OBVIOUS
<1>5. batches \in Seq(BatchRow) /\ Len(batches) = Len(rows)
  BY <1>2, <1>3, <1>4, BatchesOfTypes
<1>6. \A k \in DOMAIN rows : StandsFor(batches[k], "transaction", Len(txns) + k, rows[k])
  BY <1>2, <1>3, <1>4, BatchesOfStandFor
<1>7. Enters("transaction", txns, txns', {"posted"}, batches,
             [k \in DOMAIN rows |-> Len(txns) + k])
  BY <1>2, <1>3, <1>5, <1>6, NewRowsEnter
<1> QED BY <1>2, <1>4, <1>5, <1>7, TransactionsEnter

(* Handlers that post nothing: a voided row had no batch and gets none. *)
LEMMA RestLedger ==
  ASSUME MoneyTypes, MoneyTypes', LedgerKept, UNCHANGED <<payments, ledger>>,
         DOMAIN txns' = DOMAIN txns,
         \A i \in DOMAIN txns :
           /\ txns'[i].acct = txns[i].acct /\ txns'[i].amt = txns[i].amt
           /\ txns'[i].status = txns[i].status
  PROVE  LedgerKept'
<1>1. ledger \in Seq(BatchRow)
  BY DEF MoneyTypes
<1>2. Enters("transaction", txns, txns', {"posted"}, << >>, << >>)
  BY NothingEnters DEF Posted
<1>3. << >> \in Seq(BatchRow) /\ ledger' = ledger \o << >>
  BY <1>1, EmptyAppends
<1> QED BY <1>2, <1>3, TransactionsEnter

(* A transaction of the day; one that is declined for its balance has no    *)
(* batch.                                                                   *)
LEMMA DrawnTransactionLedger ==
  ASSUME MoneyTypes, MoneyTypes', LedgerKept, NEW row, DrawsTxn(row) PROVE LedgerKept'
<1>1. row \in TxnRow /\ txns' = txns \o <<row>> /\ UNCHANGED payments
  BY DEF DrawsTxn
<1>2. txns \in Seq(TxnRow) /\ ledger \in Seq(BatchRow) /\ Len(txns) + 1 \in Nat
  BY DEF MoneyTypes
<1>3. PICK new : new = <<row>>
  OBVIOUS
<1>4. new \in Seq(TxnRow) /\ DOMAIN new = {1} /\ new[1] = row /\ Len(new) = 1
  BY <1>1, <1>3
<1>5. CASE row.status = "posted"
  <2>1. PICK b : b = Batch("transaction", Len(txns) + 1, row.acct, row.amt)
    OBVIOUS
  <2>2. row.acct \in Accounts /\ row.amt \in Int
    BY <1>1, RowsHaveAccounts
  <2>3. ledger' = ledger \o <<b>>
    BY <1>5, <2>1 DEF DrawsTxn
  <2>4. b \in BatchRow
    <3>1. <<0 - row.amt, row.amt>> \in Seq(Int)
      BY <2>2
    <3>2. day \in Nat
      BY DEF MoneyTypes
    <3> QED BY <1>2, <2>1, <2>2, <3>1, <3>2 DEF Batch, BatchRow
  <2>5. StandsFor(b, "transaction", Len(txns) + 1, row)
    BY <2>1, <2>2, BatchStandsFor
  <2>6. PICK batches : batches = <<b>>
    OBVIOUS
  <2>7. batches \in Seq(BatchRow) /\ Len(batches) = 1 /\ batches[1] = b
    BY <2>4, <2>6
  <2>8. \A k \in DOMAIN new : new[k].status \in {"posted"}
          /\ StandsFor(batches[k], "transaction", Len(txns) + k, new[k])
    BY <1>4, <1>5, <2>5, <2>7
  <2>9. Enters("transaction", txns, txns', {"posted"}, batches,
               [k \in DOMAIN new |-> Len(txns) + k])
    BY <1>1, <1>2, <1>3, <1>4, <2>7, <2>8, NewRowsEnter
  <2> QED BY <1>1, <2>3, <2>6, <2>7, <2>9, TransactionsEnter
<1>6. CASE row.status # "posted"
  <2>1. ledger' = ledger
    BY <1>6 DEF DrawsTxn
  <2>2. \A i \in DOMAIN txns : i \in DOMAIN txns' /\ txns'[i] = txns[i]
    BY <1>1, <1>2, <1>3, <1>4
  <2>3. \A i \in DOMAIN txns' :
          (i \in DOMAIN txns /\ txns'[i] = txns[i]) \/ txns'[i] = row
    <3>1. \A i \in DOMAIN txns' :
            \/ i \in DOMAIN txns /\ txns'[i] = txns[i]
            \/ \E k \in DOMAIN new : txns'[i] = new[k]
      BY <1>1, <1>2, <1>3, <1>4, RowsOfBoth
    <3> QED BY <1>4, <3>1
  <2>4. Enters("transaction", txns, txns', {"posted"}, << >>, << >>)
    <3>1. \A i \in DOMAIN txns' : txns'[i].status \in {"posted"} => Posted(txns, {"posted"}, i)
      BY <1>6, <2>3 DEF Posted
    <3>2. \A i \in DOMAIN txns : txns[i].status \in {"posted"} =>
            Posted(txns', {"posted"}, i) /\ txns'[i].acct = txns[i].acct
            /\ txns'[i].amt = txns[i].amt
      BY <2>2 DEF Posted
    <3> QED BY <3>1, <3>2, NothingEnters
  <2>5. << >> \in Seq(BatchRow) /\ ledger' = ledger \o << >>
    BY <1>2, <2>1, EmptyAppends
  <2> QED BY <1>1, <2>4, <2>5, TransactionsEnter
<1> QED BY <1>5, <1>6

(* A payment of the day. *)
LEMMA DrawnPaymentLedger ==
  ASSUME MoneyTypes, MoneyTypes', LedgerKept, NEW row, DrawsPayment(row) PROVE LedgerKept'
<1>1. row \in PaymentRow /\ payments' = payments \o <<row>> /\ UNCHANGED txns
  BY DEF DrawsPayment
<1>2. payments \in Seq(PaymentRow) /\ ledger \in Seq(BatchRow) /\ Len(payments) + 1 \in Nat
  BY DEF MoneyTypes
<1>3. PICK new : new = <<row>>
  OBVIOUS
<1>4. new \in Seq(PaymentRow) /\ DOMAIN new = {1} /\ new[1] = row /\ Len(new) = 1
  BY <1>1, <1>3
<1>5. CASE row.status \in PostedPayment
  <2>1. PICK b : b = Batch("payment", Len(payments) + 1, row.acct, row.amt)
    OBVIOUS
  <2>2. row.acct \in Accounts /\ row.amt \in Int
    BY <1>1, RowsHaveAccounts
  <2>3. ledger' = ledger \o <<b>>
    BY <1>5, <2>1 DEF DrawsPayment
  <2>4. b \in BatchRow
    <3>1. <<0 - row.amt, row.amt>> \in Seq(Int)
      BY <2>2
    <3>2. day \in Nat
      BY DEF MoneyTypes
    <3> QED BY <1>2, <2>1, <2>2, <3>1, <3>2 DEF Batch, BatchRow
  <2>5. StandsFor(b, "payment", Len(payments) + 1, row)
    BY <2>1, <2>2, BatchStandsFor
  <2>6. PICK batches : batches = <<b>>
    OBVIOUS
  <2>7. batches \in Seq(BatchRow) /\ Len(batches) = 1 /\ batches[1] = b
    BY <2>4, <2>6
  <2>8. \A k \in DOMAIN new : new[k].status \in PostedPayment
          /\ StandsFor(batches[k], "payment", Len(payments) + k, new[k])
    BY <1>4, <1>5, <2>5, <2>7
  <2>9. Enters("payment", payments, payments', PostedPayment, batches,
               [k \in DOMAIN new |-> Len(payments) + k])
    BY <1>1, <1>2, <1>3, <1>4, <2>7, <2>8, NewRowsEnter
  <2> QED BY <1>1, <2>3, <2>6, <2>7, <2>9, PaymentsEnter
<1>6. CASE row.status \notin PostedPayment
  <2>1. ledger' = ledger
    BY <1>6 DEF DrawsPayment
  <2>2. \A i \in DOMAIN payments : i \in DOMAIN payments' /\ payments'[i] = payments[i]
    BY <1>1, <1>2, <1>3, <1>4
  <2>3. \A i \in DOMAIN payments' :
          (i \in DOMAIN payments /\ payments'[i] = payments[i]) \/ payments'[i] = row
    <3>1. \A i \in DOMAIN payments' :
            \/ i \in DOMAIN payments /\ payments'[i] = payments[i]
            \/ \E k \in DOMAIN new : payments'[i] = new[k]
      BY <1>1, <1>2, <1>3, <1>4, RowsOfBoth
    <3> QED BY <1>4, <3>1
  <2>4. Enters("payment", payments, payments', PostedPayment, << >>, << >>)
    <3>1. \A i \in DOMAIN payments' : payments'[i].status \in PostedPayment
            => Posted(payments, PostedPayment, i)
      BY <1>6, <2>3 DEF Posted
    <3>2. \A i \in DOMAIN payments : payments[i].status \in PostedPayment =>
            Posted(payments', PostedPayment, i) /\ payments'[i].acct = payments[i].acct
            /\ payments'[i].amt = payments[i].amt
      BY <2>2 DEF Posted
    <3> QED BY <3>1, <3>2, NothingEnters
  <2>5. << >> \in Seq(BatchRow) /\ ledger' = ledger \o << >>
    BY <1>2, <2>1, EmptyAppends
  <2> QED BY <1>1, <2>4, <2>5, PaymentsEnter
<1> QED BY <1>5, <1>6

(* A seeded book has entered a ledger that was empty. *)
LEMMA SeededEnters ==
  ASSUME NEW kind \in {"transaction", "payment"}, day \in Nat, NEW R,
         \A r \in R : r.acct \in Accounts /\ r.amt \in Int,
         NEW rows \in Seq(R), NEW St, NEW S,
         S = {i \in DOMAIN rows : rows[i].status \in St}
  PROVE  Enters(kind, << >>, rows, St, Posting(kind, rows, S), InOrder(S))
<1> DEFINE new == Posting(kind, rows, S)
           ids == InOrder(S)
<1>0. S \in SUBSET DOMAIN rows
  OBVIOUS
<1>1. S \in SUBSET Nat /\ IsFiniteSet(S)
  BY <1>0, PositionsAreFinite
<1>2. /\ DOMAIN new = DOMAIN ids
      /\ \A k \in DOMAIN new :
           ids[k] \in S /\ new[k] = Batch(kind, ids[k], rows[ids[k]].acct, rows[ids[k]].amt)
  BY <1>0, PostingPosts
<1>3. /\ DOMAIN ids = 1 .. Cardinality(S)
      /\ \A i \in S : \E k \in 1 .. Cardinality(S) : ids[k] = i
      /\ \A k, l \in 1 .. Cardinality(S) : ids[k] = ids[l] => k = l
  BY <1>1, InOrderLists
<1> HIDE DEF new, ids
<1>4. \A i : ~ Posted(<< >>, St, i)
  <2>1. DOMAIN << >> = {}
    OBVIOUS
  <2> QED BY <2>1 DEF Posted
<1>5. ASSUME NEW k \in DOMAIN new
      PROVE  /\ ids[k] \in Nat /\ Posted(rows, St, ids[k])
             /\ StandsFor(new[k], kind, ids[k], rows[ids[k]])
  <2>1. PICK i \in S : i = ids[k] /\ new[k] = Batch(kind, i, rows[i].acct, rows[i].amt)
    BY <1>2
  <2>2. i \in DOMAIN rows /\ i \in Nat /\ rows[i].amt \in Int /\ rows[i].status \in St
    BY <1>0, <1>1
  <2>3. StandsFor(new[k], kind, i, rows[i])
    BY <2>1, <2>2, BatchStandsFor
  <2> QED BY <2>1, <2>2, <2>3 DEF Posted
<1>6. \A k, l \in DOMAIN new : ids[k] = ids[l] => k = l
  BY <1>2, <1>3
<1>7. \A i \in DOMAIN rows : rows[i].status \in St => \E k \in DOMAIN new : ids[k] = i
  BY <1>2, <1>3
<1>8. DOMAIN << >> = {}
  OBVIOUS
<1> QED BY <1>4, <1>5, <1>6, <1>7, <1>8 DEF Enters, new, ids

(* A transaction is pending, posted or declined; a payment is never         *)
(* "posted".                                                                *)
LEMMA StatusOfRow ==
  /\ \A r \in TxnRow : r.status \in {"pending", "posted", "declined"}
  /\ \A r \in PaymentRow : r.status # "posted"
BY DEF TxnRow, PaymentRow, PostedPayment

(* The ledger a seeding leaves: the batches of transactions, then of        *)
(* payments.                                                                *)
LEMMA LedgerInit == Init => LedgerKept
<1> SUFFICES ASSUME Init PROVE LedgerKept
  OBVIOUS
<1>1. MoneyTypes
  BY TypesInit
<1> DEFINE S == {i \in DOMAIN txns : txns[i].status \in {"posted"} \cup PostedPayment}
           P == {i \in DOMAIN payments : payments[i].status \in {"posted"} \cup PostedPayment}
           first == Posting("transaction", txns, S)
           second == Posting("payment", payments, P)
<1>2. ledger = first \o second
  BY DEF Init
<1>3. txns \in Seq(TxnRow) /\ payments \in Seq(PaymentRow) /\ day \in Nat
  BY <1>1 DEF MoneyTypes
<1>4. S = {i \in DOMAIN txns : txns[i].status \in {"posted"}}
  <2>1. \A i \in DOMAIN txns : txns[i].status \in {"pending", "posted", "declined"}
    <3>1. \A i \in DOMAIN txns : txns[i] \in TxnRow
      BY <1>3
    <3> QED BY <3>1, StatusOfRow
  <2> QED BY <2>1 DEF PostedPayment
<1>5. P = {i \in DOMAIN payments : payments[i].status \in PostedPayment}
  <2>1. \A i \in DOMAIN payments : payments[i].status # "posted"
    <3>1. \A i \in DOMAIN payments : payments[i] \in PaymentRow
      BY <1>3
    <3> QED BY <3>1, StatusOfRow
  <2> QED BY <2>1
<1>6. first \in Seq(BatchRow) /\ second \in Seq(BatchRow)
  BY <1>3, PostingTypes
<1>7. Enters("transaction", << >>, txns, {"posted"}, first, InOrder(S))
  BY <1>3, <1>4, RowsHaveAccounts, SeededEnters
<1>8. Enters("payment", << >>, payments, PostedPayment, second, InOrder(P))
  BY <1>3, <1>5, RowsHaveAccounts, SeededEnters
<1> HIDE DEF S, P, first, second
<1>9. /\ << >> \in Seq(BatchRow) /\ << >> \o first = first
      /\ DOMAIN << >> = {} /\ DOMAIN txns \subseteq Nat /\ DOMAIN payments \subseteq Nat
  BY <1>3, <1>6
<1>10. /\ Unique(<< >>) /\ Kept(<< >>, "transaction", << >>, {"posted"})
       /\ Kept(<< >>, "payment", << >>, PostedPayment)
  BY <1>9 DEF Unique, Kept
<1>11. "transaction" # "payment"
  OBVIOUS
<1>12. /\ Unique(<< >> \o first) /\ Kept(<< >> \o first, "transaction", txns, {"posted"})
       /\ Kept(<< >> \o first, "payment", << >>, PostedPayment)
  BY <1>6, <1>7, <1>9, <1>10, <1>11, LedgerGrows
<1>13. /\ Unique(first) /\ Kept(first, "transaction", txns, {"posted"})
       /\ Kept(first, "payment", << >>, PostedPayment)
  BY <1>9, <1>12
<1>14. /\ Unique(first \o second) /\ Kept(first \o second, "payment", payments, PostedPayment)
       /\ Kept(first \o second, "transaction", txns, {"posted"})
  BY <1>6, <1>8, <1>9, <1>11, <1>13, LedgerGrows
<1> QED BY <1>2, <1>14 DEF LedgerKept

(* Every handler keeps the ledger. *)
LEMMA LedgerNext == MoneyTypes /\ MoneyTypes' /\ LedgerKept /\ [Next]_vars => LedgerKept'
<1> SUFFICES ASSUME MoneyTypes, MoneyTypes', LedgerKept, [Next]_vars PROVE LedgerKept'
  OBVIOUS
<1>1. ASSUME UNCHANGED <<txns, payments, ledger>> PROVE LedgerKept'
  BY <1>1, RestLedger
<1>2. CASE BeginTick \/ Lifecycle \/ Apply \/ ClearApplications \/ Commit \/ UNCHANGED vars
  <2>1. UNCHANGED <<txns, payments, ledger>>
    BY <1>2 DEF BeginTick, Lifecycle, SweepAccounts, DecideApplications, DisburseApproved,
                CollectInstallments, Apply, ClearApplications, Commit, vars, book
  <2> QED BY <1>1, <2>1
<1>3. CASE Onboard
  BY <1>3, OnboardLedger
<1>4. CASE PostDeferred
  BY <1>4, DeferredLedger
<1>5. CASE AdvancePayments
  BY <1>5, PaymentsLedger
<1>6. CASE ClearLateArrivals
  BY <1>6, LateDoes, InsertedLedger
<1>7. CASE ReverseRecentPostings
  BY <1>7, ReverseDoes, InsertedLedger
<1>8. CASE CollectLoanCash
  BY <1>8, CashDoes, InsertedLedger
<1>9. ASSUME NEW a \in Accounts, EmitDay(a) PROVE LedgerKept'
  <2>1. CASE \E m \in Drawn \cup Scheduled : EmitTransaction(a, m[1], m[2])
    BY <2>1, EmitTransactionDoes, DrawnTransactionLedger
  <2>2. CASE \E m \in Instructions : EmitPayment(a, m[1], m[2])
    BY <2>2, EmitPaymentDoes, DrawnPaymentLedger
  <2> QED BY <1>9, <2>1, <2>2 DEF EmitDay
<1>10. CASE WriteFold
  BY <1>1, <1>10 DEF WriteFold
<1>11. CASE VoidTransactions
  BY <1>11, VoidDoes, RestLedger
<1> QED BY <1>2, <1>3, <1>4, <1>5, <1>6, <1>7, <1>8, <1>9, <1>10, <1>11
        DEF Next, Acquisition, Movements, Deletes

-----------------------------------------------------------------------------
(***************************************************************************)
(* The theorems.                                                           *)
(***************************************************************************)
LEMMA MoneyInit == Init => MoneyInv
<1> SUFFICES ASSUME Init PROVE MoneyInv
  OBVIOUS
<1>1. MoneyTypes
  BY TypesInit
<1>2. PICK h \in Histories, limit \in Limits :
       /\ txns = h.txns /\ payments = h.payments /\ loans = h.loans
       /\ accounts = [a \in Accounts |->
              IF a \in Newcomers THEN Absent
              ELSE [status |-> "active", opened |-> 0, closed |-> 0, limit |-> limit,
                    balance |-> PostedSum(a), at |-> 0]]
  BY DEF Init
<1>3. day = 0 /\ step = "idle" /\ DOMAIN snap = {}
  BY DEF Init
<1>4. /\ \A i \in DOMAIN txns : txns[i].acct \notin Newcomers /\ txns[i].booked = 0
      /\ \A i \in DOMAIN payments : payments[i].acct \notin Newcomers /\ payments[i].initiated = 0
      /\ \A l \in DOMAIN loans : loans[l].status \in Servicing =>
           \E a \in Accounts \ Newcomers : HolderOf[a] = loans[l].cust
  BY <1>2, HistoryAssumption DEF Seeded
<1>5. ASSUME NEW a \in Accounts
      PROVE  /\ accounts[a].opened = 0 /\ accounts[a].closed = 0
             /\ a \notin Newcomers => accounts[a].status = "active" /\ Open(accounts[a])
             /\ accounts[a].balance = PostedSum(a)
  <2>1. CASE a \in Newcomers
    <3>1. accounts[a] = Absent
      BY <1>2, <2>1
    <3>2. PostedIn(txns, {"posted"}, a) = {} /\ PostedIn(payments, PostedPayment, a) = {}
      BY <1>4, <2>1 DEF PostedIn
    <3>3. Held(txns, {"posted"}, a) = 0 /\ Held(payments, PostedPayment, a) = 0
      BY <3>2, HeldOfNone
    <3>4. PostedSum(a) = 0
      BY <3>3, PostedSumSplits
    <3> QED BY <2>1, <3>1, <3>4 DEF Absent
  <2>2. CASE a \notin Newcomers
    <3>1. PICK s : s = PostedSum(a)
      OBVIOUS
    <3>2. accounts[a] = [status |-> "active", opened |-> 0, closed |-> 0, limit |-> limit,
                         balance |-> s, at |-> 0]
      BY <1>2, <2>2, <3>1
    <3> QED BY <3>1, <3>2 DEF Open
  <2> QED BY <2>1, <2>2
<1>6. SnapInv
  BY <1>3 DEF SnapInv
<1>7. LifeInv
  <2>1. \A i \in DOMAIN txns : txns[i].acct \in Accounts
    BY <1>1, MovementsHaveDates
  <2>2. \A i \in DOMAIN payments : payments[i].acct \in Accounts
    BY <1>1, MovementsHaveDates
  <2> QED BY <1>3, <1>4, <1>5, <2>1, <2>2 DEF LifeInv, NoMovementOutsideLife, WithinLife
<1>8. BalanceInv
  BY <1>3, <1>5 DEF BalanceInv, Folding
<1>9. LoanHasAnAccount
  BY <1>4, <1>5 DEF LoanHasAnAccount, Primary
<1> QED BY <1>1, <1>6, <1>7, <1>8, <1>9 DEF MoneyInv

(* Every handler keeps the invariant, whatever the earlier ones of its tick *)
(* did.                                                                     *)
LEMMA MoneyNext == MoneyInv /\ [Next]_vars => MoneyInv'
<1> SUFFICES ASSUME MoneyInv, [Next]_vars PROVE MoneyInv'
  OBVIOUS
<1>0. MoneyTypes /\ Cleared /\ LoanHasAnAccount
  BY DEF MoneyInv, Cleared
<1> SUFFICES MoneyTypes' /\ Cleared' /\ LoanHasAnAccount'
  BY DEF MoneyInv, Cleared
<1>1. CASE BeginTick
  BY <1>0, <1>1, BeginTickTypes, BeginTickKeeps
<1>2. CASE SweepAccounts
  BY <1>0, <1>2, SweepTypes, SweepKeeps
<1>3. CASE DecideApplications
  BY <1>0, <1>3, DecideTypes, ApplicationsKeep
<1>4. CASE DisburseApproved
  BY <1>0, <1>4, DisburseDoes, LoansKeep
<1>5. CASE CollectInstallments
  BY <1>0, <1>5, CollectDoes, LoansKeep
<1>6. CASE Onboard
  BY <1>0, <1>6, OnboardDoes, OnboardKeeps
<1>7. CASE Apply
  BY <1>0, <1>7, ApplyTypes, ApplicationsKeep
<1>8. CASE PostDeferred
  BY <1>0, <1>8, DeferredDoes, DeferredKeeps
<1>9. CASE AdvancePayments
  BY <1>0, <1>9, PaymentsDo, PaymentsKeep
<1>10. CASE ClearLateArrivals
  <2>1. MoneyTypes' /\ step = "late" /\ step' = "reversals"
        /\ \E new, batches : PostsNew(new, batches)
    BY <1>0, <1>10, LateDoes
  <2>2. Folding /\ Folding'
    BY <2>1 DEF Folding
  <2> QED BY <1>0, <2>1, <2>2, InsertedKeep
<1>11. CASE ReverseRecentPostings
  <2>1. MoneyTypes' /\ step = "reversals" /\ step' = "loan cash"
        /\ \E new, batches : PostsNew(new, batches)
    BY <1>0, <1>11, ReverseDoes
  <2>2. Folding /\ Folding'
    BY <2>1 DEF Folding
  <2> QED BY <1>0, <2>1, <2>2, InsertedKeep
<1>12. CASE CollectLoanCash
  <2>1. MoneyTypes' /\ step = "loan cash" /\ step' = "day"
        /\ \E new, batches : PostsNew(new, batches)
    BY <1>0, <1>12, CashDoes
  <2>2. Folding /\ Folding'
    BY <2>1 DEF Folding
  <2> QED BY <1>0, <2>1, <2>2, InsertedKeep
<1>13. ASSUME NEW a \in Accounts, EmitDay(a) PROVE MoneyTypes' /\ Cleared' /\ LoanHasAnAccount'
  <2>1. CASE \E m \in Drawn \cup Scheduled : EmitTransaction(a, m[1], m[2])
    <3>1. MoneyTypes' /\ step = "day" /\ step' = "day" /\ \E row : DrawsTxn(row)
      BY <1>0, <2>1, EmitTransactionDoes
    <3>2. Folding /\ Folding'
      BY <3>1 DEF Folding
    <3> QED BY <1>0, <3>1, <3>2, DrawnTransactionKeeps
  <2>2. CASE \E m \in Instructions : EmitPayment(a, m[1], m[2])
    <3>1. MoneyTypes' /\ step = "day" /\ step' = "day" /\ \E row : DrawsPayment(row)
      BY <1>0, <2>2, EmitPaymentDoes
    <3>2. Folding /\ Folding'
      BY <3>1 DEF Folding
    <3> QED BY <1>0, <3>1, <3>2, DrawnPaymentKeeps
  <2> QED BY <1>13, <2>1, <2>2 DEF EmitDay
<1>14. CASE WriteFold
  BY <1>0, <1>14, WriteFoldDoes, WriteFoldKeeps
<1>15. CASE VoidTransactions
  BY <1>0, <1>15, VoidDoes, VoidKeeps
<1>16. CASE ClearApplications
  BY <1>0, <1>16, ClearTypes, ApplicationsKeep
<1>17. CASE Commit
  BY <1>0, <1>17, CommitTypes, CommitKeeps
<1>18. CASE UNCHANGED vars
  <2>1. MoneyTypes'
    BY <1>0, <1>18 DEF vars, book, MoneyTypes
  <2>2. UNCHANGED <<day, step, accounts, txns, payments, loans, snap, fold>>
    BY <1>18 DEF vars, book
  <2>3. SnapInv'
    BY <1>0, <2>2 DEF Cleared, SnapInv, Folded
  <2>4. LifeInv'
    BY <1>0, <2>2 DEF Cleared, LifeInv, NoMovementOutsideLife, WithinLife
  <2>5. BalanceInv'
    BY <1>0, <2>2, SumsStay DEF Cleared, BalanceInv, Folding
  <2>6. LoanHasAnAccount'
    BY <1>0, <2>2, AccountsStayOpen
  <2> QED BY <2>1, <2>3, <2>4, <2>5, <2>6 DEF Cleared
<1> QED BY <1>1, <1>2, <1>3, <1>4, <1>5, <1>6, <1>7, <1>8, <1>9, <1>10, <1>11, <1>12, <1>13,
           <1>14, <1>15, <1>16, <1>17, <1>18 DEF Next, Lifecycle, Acquisition, Movements, Deletes

(* The invariant of a day of the bank: what the handlers pass each other    *)
(* fits the tables, the snapshot the tick decides against follows the       *)
(* accounts, and what is posted is in the balances or in the fold.          *)
THEOREM MoneyInvariant == Spec => []MoneyInv
<1> QED BY MoneyInit, MoneyNext, PTL DEF Spec

(* Invariant 4 of the generator, for any accounts, draws and histories:     *)
(* once the fold is written every stored balance is what is posted.         *)
THEOREM BalanceIsPostedCorrect == Spec => []BalanceIsPosted
<1>1. MoneyInv => BalanceIsPosted
  BY DEF MoneyInv, BalanceInv, BalanceIsPosted, Folding, Folded
<1> QED BY <1>1, MoneyInvariant, PTL

(* Invariant 1: however late a movement is presented, its business day lies *)
(* in the life of its account.                                              *)
THEOREM NoMovementOutsideLifeCorrect == Spec => []NoMovementOutsideLife
<1>1. MoneyInv => NoMovementOutsideLife
  BY DEF MoneyInv, LifeInv
<1> QED BY <1>1, MoneyInvariant, PTL

(* No sweep closes the account a loan is collected from.                    *)
THEOREM LoanHasAnAccountCorrect == Spec => []LoanHasAnAccount
<1>1. MoneyInv => LoanHasAnAccount
  BY DEF MoneyInv
<1> QED BY <1>1, MoneyInvariant, PTL

(* What the ledger keeps says which batches an event has. *)
LEMMA KeptIsLedgered ==
  ASSUME NEW kind \in {"transaction", "payment"}, NEW R, NEW rows \in Seq(R), NEW St,
         Unique(ledger), Kept(ledger, kind, rows, St)
  PROVE  \A i \in DOMAIN rows :
           IF rows[i].status \in St
           THEN \E b \in DOMAIN ledger : BatchesFor(kind, i) = {b} /\ Mirrors(b, rows[i])
           ELSE BatchesFor(kind, i) = {}
<1>1. SUFFICES ASSUME NEW i \in DOMAIN rows
               PROVE  IF rows[i].status \in St
                      THEN \E b \in DOMAIN ledger :
                             BatchesFor(kind, i) = {b} /\ Mirrors(b, rows[i])
                      ELSE BatchesFor(kind, i) = {}
  OBVIOUS
<1>2. i \in Nat
  OBVIOUS
<1>3. CASE rows[i].status \in St
  <2>1. PICK b \in DOMAIN ledger : ledger[b].of = <<kind, i>>
    BY <1>3 DEF Kept
  <2>2. BatchesFor(kind, i) = {b}
    BY <2>1 DEF BatchesFor, Unique
  <2>3. Mirrors(b, rows[i])
    BY <1>2, <2>1 DEF Kept, StandsFor, Mirrors
  <2> QED BY <1>3, <2>2, <2>3
<1>4. CASE rows[i].status \notin St
  BY <1>2, <1>4 DEF Kept, Posted, BatchesFor
<1> QED BY <1>3, <1>4

(* Invariants 5 and 6 of the generator: what is posted has one batch, which *)
(* balances and moves its account by the amount; what is not has none.      *)
THEOREM PostedIsLedgeredCorrect == Spec => []PostedIsLedgered
<1>1. MoneyInv => MoneyTypes
  BY DEF MoneyInv
<1>2. Init => LedgerKept
  BY LedgerInit
<1>3. MoneyInv /\ MoneyInv' /\ LedgerKept /\ [Next]_vars => LedgerKept'
  BY LedgerNext DEF MoneyInv
<1>4. MoneyInv /\ LedgerKept => PostedIsLedgered
  <2> SUFFICES ASSUME MoneyInv, LedgerKept PROVE PostedIsLedgered
    OBVIOUS
  <2>1. txns \in Seq(TxnRow) /\ payments \in Seq(PaymentRow)
    BY DEF MoneyInv, MoneyTypes
  <2>2. \A i \in DOMAIN txns :
          IF txns[i].status \in {"posted"}
          THEN \E b \in DOMAIN ledger :
                 BatchesFor("transaction", i) = {b} /\ Mirrors(b, txns[i])
          ELSE BatchesFor("transaction", i) = {}
    BY <2>1, KeptIsLedgered DEF LedgerKept
  <2>3. \A i \in DOMAIN payments :
          IF payments[i].status \in PostedPayment
          THEN \E b \in DOMAIN ledger : BatchesFor("payment", i) = {b} /\ Mirrors(b, payments[i])
          ELSE BatchesFor("payment", i) = {}
    BY <2>1, KeptIsLedgered DEF LedgerKept
  <2>4. \A i \in DOMAIN txns : txns[i].status = "posted" <=> txns[i].status \in {"posted"}
    OBVIOUS
  <2> QED BY <2>2, <2>3, <2>4 DEF PostedIsLedgered
<1> QED BY <1>2, <1>3, <1>4, MoneyInvariant, PTL DEF Spec

-----------------------------------------------------------------------------
(***************************************************************************)
(* The money of loans.  A fact of a loan is that it was disbursed, or that *)
(* an installment of it was paid.  What tells of it is a cash event until  *)
(* the cash is collected, and a transaction from then on; there is always  *)
(* one of the two.                                                         *)
(***************************************************************************)
LoanCash == {"disbursement", "collection"}

(* No customer is the primary holder of two open accounts. *)
OneOpenAccount ==
  \A a, b \in Accounts :
    HolderOf[a] = HolderOf[b] /\ Open(accounts[a]) /\ Open(accounts[b]) => a = b

Happened ==
  ({"collection"} \X {i \in DOMAIN installments : installments[i].paid > 0})
  \cup ({"disbursement"} \X {l \in DOMAIN loans : loans[l].disbursed > 0})

(* The facts that rows or events tell of, and whether each is told once.    *)
Fact(x) == <<x.kind, x.of>>
Told(rows) == {n \in DOMAIN rows : rows[n].kind \in LoanCash}
Facts(rows) == {Fact(rows[n]) : n \in Told(rows)}
Single(rows) == \A n, m \in Told(rows) : Fact(rows[n]) = Fact(rows[m]) => n = m

TellsOnce(rows, events, H) ==
  /\ Single(rows) /\ Single(events)
  /\ Facts(rows) \cap Facts(events) = {} /\ Facts(rows) \cup Facts(events) = H

CashSteps ==
  {"loans", "onboard", "apply", "deferred", "payments", "late", "reversals", "loan cash"}

(* The cash is of accounts the tick decides against, which are all that are *)
(* open, and none is left when the day itself begins.                       *)
CashInv ==
  /\ \A n \in DOMAIN cash : cash[n].acct \in DOMAIN snap
  /\ cash # << >> => step \in CashSteps
  /\ step # "idle" => day > 0 /\ \A a \in Accounts : Open(accounts[a]) => a \in DOMAIN snap

OneLoanEach == \A l, m \in DOMAIN loans : loans[l].app = loans[m].app => l = m

OnceInv == TellsOnce(txns, cash, Happened) /\ OneLoanEach /\ CashInv

(* A function on the first numbers is a sequence of its values. *)
LEMMA ValuesMakeASequence ==
  ASSUME NEW n \in Nat, NEW t, t = [k \in 1 .. n |-> t[k]]
  PROVE  t \in Seq({t[k] : k \in 1 .. n}) /\ DOMAIN t = 1 .. n /\ Len(t) = n
<1> DEFINE R == {t[k] : k \in 1 .. n}
<1>1. \A k \in 1 .. n : t[k] \in R
  OBVIOUS
<1> HIDE DEF R
<1>2. t \in [1 .. n -> R]
  BY <1>1
<1>3. t \in Seq(R) /\ Len(t) = n /\ DOMAIN t = 1 .. n
  BY <1>2, RowsMakeASequence
<1> QED BY <1>3 DEF R

(* Rows whose kinds are not of loan cash tell of nothing. *)
LEMMA NothingTold ==
  ASSUME NEW rows, \A n \in DOMAIN rows : rows[n].kind \notin LoanCash
  PROVE  Facts(rows) = {} /\ Single(rows)
<1>1. Told(rows) = {}
  BY DEF Told
<1> QED BY <1>1 DEF Facts, Single

(* What keeps the kinds and what they are of tells of the same. *)
LEMMA TellsTheSame ==
  ASSUME NEW s, NEW t, DOMAIN t = DOMAIN s,
         \A n \in DOMAIN s : t[n].kind = s[n].kind /\ t[n].of = s[n].of
  PROVE  Facts(t) = Facts(s) /\ (Single(s) => Single(t))
<1>1. Told(t) = Told(s)
  BY DEF Told
<1>2. \A n \in Told(s) : Fact(t[n]) = Fact(s[n])
  BY DEF Told, Fact
<1> QED BY <1>1, <1>2 DEF Facts, Single

(* Two stretches tell of what each tells of. *)
LEMMA FactsJoin ==
  ASSUME NEW R, NEW s \in Seq(R), NEW Q, NEW t \in Seq(Q)
  PROVE  /\ Facts(s \o t) = Facts(s) \cup Facts(t)
         /\ Single(s) /\ Single(t) /\ Facts(s) \cap Facts(t) = {} => Single(s \o t)
<1> DEFINE u == s \o t
           U == R \cup Q
<1>0. s \in Seq(U) /\ t \in Seq(U)
  OBVIOUS
<1>1. \A i \in DOMAIN u :
        \/ i \in DOMAIN s /\ u[i] = s[i]
        \/ \E k \in DOMAIN t : i = Len(s) + k /\ u[i] = t[k]
  <2> HIDE DEF U
  <2> QED BY <1>0, RowsOfBoth
<1>2. /\ \A i \in DOMAIN s : i \in DOMAIN u /\ u[i] = s[i]
      /\ \A k \in DOMAIN t : Len(s) + k \in DOMAIN u /\ u[Len(s) + k] = t[k]
  OBVIOUS
<1> HIDE DEF u, U
<1>3. /\ \A i \in Told(u) : \/ i \in Told(s) /\ u[i] = s[i]
                            \/ \E k \in Told(t) : i = Len(s) + k /\ u[i] = t[k]
      /\ \A i \in Told(s) : i \in Told(u) /\ u[i] = s[i]
      /\ \A k \in Told(t) : Len(s) + k \in Told(u) /\ u[Len(s) + k] = t[k]
  BY <1>1, <1>2, Zenon DEF Told
<1>4. Facts(u) = Facts(s) \cup Facts(t)
  <2>1. Facts(u) \subseteq Facts(s) \cup Facts(t)
    BY <1>3 DEF Facts
  <2>2. Facts(s) \subseteq Facts(u)
    BY <1>3 DEF Facts
  <2>3. Facts(t) \subseteq Facts(u)
    BY <1>3 DEF Facts
  <2> QED BY <2>1, <2>2, <2>3
<1>5. ASSUME Single(s), Single(t), Facts(s) \cap Facts(t) = {} PROVE Single(u)
  <2>1. SUFFICES ASSUME NEW i \in Told(u), NEW j \in Told(u), Fact(u[i]) = Fact(u[j])
                 PROVE  i = j
    BY DEF Single
  <2>2. ASSUME NEW n \in Told(s), NEW k \in Told(t) PROVE Fact(s[n]) # Fact(t[k])
    BY <1>5 DEF Facts
  <2>3. CASE i \in Told(s) /\ u[i] = s[i] /\ j \in Told(s) /\ u[j] = s[j]
    BY <1>5, <2>1, <2>3 DEF Single
  <2>4. ASSUME NEW k \in Told(t), NEW m \in Told(t), i = Len(s) + k, u[i] = t[k],
               j = Len(s) + m, u[j] = t[m]
        PROVE  i = j
    BY <1>5, <2>1, <2>4 DEF Single
  <2>5. CASE \/ i \in Told(s) /\ u[i] = s[i] /\ \E k \in Told(t) : u[j] = t[k]
             \/ j \in Told(s) /\ u[j] = s[j] /\ \E k \in Told(t) : u[i] = t[k]
    BY <2>1, <2>2, <2>5
  <2> QED BY <1>3, <2>3, <2>4, <2>5
<1> QED BY <1>4, <1>5 DEF u

(* Rows that tell of nothing leave what is told. *)
LEMMA QuietRows ==
  ASSUME NEW R, NEW rows \in Seq(R), NEW events, NEW H, TellsOnce(rows, events, H),
         NEW n \in Nat, NEW new, new = [k \in 1 .. n |-> new[k]],
         \A k \in 1 .. n : new[k].kind \notin LoanCash
  PROVE  TellsOnce(rows \o new, events, H)
<1>1. new \in Seq({new[k] : k \in 1 .. n}) /\ DOMAIN new = 1 .. n
  BY ValuesMakeASequence
<1>2. Facts(new) = {} /\ Single(new)
  BY <1>1, NothingTold
<1>3. Facts(rows \o new) = Facts(rows) /\ Single(rows \o new)
  BY <1>1, <1>2, FactsJoin DEF TellsOnce
<1> QED BY <1>3 DEF TellsOnce

(* New events that tell of what was not yet told. *)
LEMMA NewEvents ==
  ASSUME NEW R, NEW events \in Seq(R), NEW Q, NEW new \in Seq(Q), NEW rows, NEW H,
         TellsOnce(rows, events, H), Single(new), Facts(new) \cap H = {}
  PROVE  TellsOnce(rows, events \o new, H \cup Facts(new))
<1>1. Facts(events) \cap Facts(new) = {} /\ Facts(rows) \cap Facts(new) = {}
  BY DEF TellsOnce
<1>2. Facts(events \o new) = Facts(events) \cup Facts(new) /\ Single(events \o new)
  BY <1>1, FactsJoin DEF TellsOnce
<1> QED BY <1>1, <1>2 DEF TellsOnce

(* Events that become rows. *)
LEMMA EventsBecomeRows ==
  ASSUME NEW R, NEW rows \in Seq(R), NEW Q, NEW new \in Seq(Q), NEW events, NEW H,
         TellsOnce(rows, events, H), Single(new), Facts(new) = Facts(events)
  PROVE  TellsOnce(rows \o new, << >>, H)
<1>1. Facts(rows \o new) = Facts(rows) \cup Facts(new) /\ Single(rows \o new)
  BY FactsJoin DEF TellsOnce
<1>2. Facts(<< >>) = {} /\ Single(<< >>)
  BY NothingTold
<1> QED BY <1>1, <1>2 DEF TellsOnce

(* The facts follow the rows of loans and installments. *)
LEMMA HappenedStays ==
  ASSUME DOMAIN loans' = DOMAIN loans, installments' = installments,
         \A l \in DOMAIN loans : loans'[l].disbursed = loans[l].disbursed
  PROVE  Happened' = Happened
BY DEF Happened

(* The invariant's first parts stay where neither cash, nor the kinds of    *)
(* transactions, nor loans and installments change.                         *)
LEMMA NothingHappens ==
  ASSUME TellsOnce(txns, cash, Happened), OneLoanEach,
         DOMAIN txns' = DOMAIN txns,
         \A i \in DOMAIN txns : txns'[i].kind = txns[i].kind /\ txns'[i].of = txns[i].of,
         UNCHANGED <<cash, loans, installments>>
  PROVE  TellsOnce(txns, cash, Happened)' /\ OneLoanEach'
<1>1. Facts(txns') = Facts(txns) /\ Single(txns')
  BY TellsTheSame DEF TellsOnce
<1>2. Happened' = Happened
  BY HappenedStays
<1>3. TellsOnce(txns', cash', Happened')
  BY <1>1, <1>2 DEF TellsOnce
<1>4. TellsOnce(txns, cash, Happened)'
  BY <1>3
<1> QED BY <1>4 DEF OneLoanEach

(* Nor where transactions of other kinds are added.                         *)
LEMMA OtherRowsAdded ==
  ASSUME MoneyTypes, TellsOnce(txns, cash, Happened), OneLoanEach,
         NEW n \in Nat, NEW new, new = [k \in 1 .. n |-> new[k]], txns' = txns \o new,
         \A k \in 1 .. n : new[k].kind \notin LoanCash,
         UNCHANGED <<cash, loans, installments>>
  PROVE  TellsOnce(txns, cash, Happened)' /\ OneLoanEach'
<1>1. txns \in Seq(TxnRow)
  BY DEF MoneyTypes
<1>2. TellsOnce(txns \o new, cash, Happened)
  BY <1>1, QuietRows
<1>3. Happened' = Happened
  BY HappenedStays
<1>4. TellsOnce(txns', cash', Happened')
  BY <1>2, <1>3
<1> QED BY <1>4 DEF OneLoanEach

(* The cash of a tick that only goes on.                                    *)
LEMMA CashStays ==
  ASSUME MoneyTypes, CashInv, UNCHANGED <<day, cash>>, DOMAIN snap' = DOMAIN snap,
         step # "idle", step' \in CashSteps \/ step \notin CashSteps,
         \A a \in Accounts : Open(accounts'[a]) => Open(accounts[a])
  PROVE  CashInv'
<1>1. day > 0
  BY DEF CashInv
<1> QED BY <1>1 DEF CashInv

(* A transaction keeps its kind and what it is of when it is posted, and    *)
(* when it is voided.                                                       *)
LEMMA KindStays ==
  ASSUME NEW x \in TxnRow, NEW d \in Nat
  PROVE  /\ [x EXCEPT !.status = "posted", !.at = d].kind = x.kind
         /\ [x EXCEPT !.status = "posted", !.at = d].of = x.of
         /\ [x EXCEPT !.deleted = TRUE, !.at = d].kind = x.kind
         /\ [x EXCEPT !.deleted = TRUE, !.at = d].of = x.of
<1> DEFINE yes == TRUE
           B == BOOLEAN
<1>1. TxnRow = [acct : Accounts, amt : Int, status : TxnStatus, booked : Int, made : Int,
                at : Int, kind : TxnKind, of : Nat, deleted : B]
  BY DEF TxnRow, TxnStatus, TxnKind
<1> HIDE DEF yes, B
<1>2. /\ [x EXCEPT !.status = "posted", !.at = d].kind = x.kind
      /\ [x EXCEPT !.status = "posted", !.at = d].of = x.of
      /\ [x EXCEPT !.deleted = yes, !.at = d].kind = x.kind
      /\ [x EXCEPT !.deleted = yes, !.at = d].of = x.of
  BY <1>1
<1> QED BY <1>2 DEF yes

LEMMA OnceInit == Init => OnceInv
<1> SUFFICES ASSUME Init PROVE OnceInv
  OBVIOUS
<1>1. PICK h \in Histories : txns = h.txns /\ loans = h.loans /\ installments = h.installments
  BY DEF Init
<1>2. /\ OneLoanEach
      /\ \A l \in DOMAIN loans : loans[l].disbursed =< 0
      /\ \A i \in DOMAIN installments : installments[i].paid =< 0
      /\ \A i \in DOMAIN txns : txns[i].kind \notin LoanCash
  BY <1>1, HistoryAssumption DEF Seeded, OneLoanEach, LoanCash
<1>3. loans \in Seq(LoanRow) /\ installments \in Seq(InstallmentRow)
  BY <1>1, HistoryAssumption DEF Seeded
<1>4. Happened = {}
  <2>1. \A l \in DOMAIN loans : loans[l].disbursed \in Int
    <3>1. \A l \in DOMAIN loans : loans[l] \in LoanRow
      BY <1>3
    <3> QED BY <3>1 DEF LoanRow
  <2>2. \A i \in DOMAIN installments : installments[i].paid \in Int
    <3>1. \A i \in DOMAIN installments : installments[i] \in InstallmentRow
      BY <1>3
    <3> QED BY <3>1 DEF InstallmentRow
  <2>3. /\ {i \in DOMAIN installments : installments[i].paid > 0} = {}
        /\ {l \in DOMAIN loans : loans[l].disbursed > 0} = {}
    BY <1>2, <2>1, <2>2
  <2> QED BY <2>3 DEF Happened
<1>5. cash = << >> /\ step = "idle"
  BY DEF Init
<1>6. Facts(txns) = {} /\ Single(txns)
  BY <1>2, NothingTold
<1>7. Facts(cash) = {} /\ Single(cash)
  BY <1>5, NothingTold
<1>8. TellsOnce(txns, cash, Happened)
  BY <1>4, <1>6, <1>7 DEF TellsOnce
<1>9. CashInv
  BY <1>5 DEF CashInv
<1> QED BY <1>2, <1>8, <1>9 DEF OnceInv

LEMMA BeginTickOnce == MoneyTypes /\ OnceInv /\ BeginTick => OnceInv'
<1> SUFFICES ASSUME MoneyTypes, OnceInv, BeginTick PROVE OnceInv'
  OBVIOUS
<1>1. /\ step = "idle" /\ step' = "accounts" /\ day' = day + 1 /\ day \in Nat
      /\ UNCHANGED <<accounts, txns, loans, installments, cash>>
      /\ DOMAIN snap' = {a \in Accounts : Open(accounts[a])}
  BY DEF BeginTick, Goes, book, MoneyTypes
<1>2. TellsOnce(txns, cash, Happened)' /\ OneLoanEach'
  BY <1>1, NothingHappens DEF OnceInv
<1>3. cash = << >>
  BY <1>1 DEF OnceInv, CashInv, CashSteps
<1>4. CashInv'
  BY <1>1, <1>3 DEF CashInv, Open
<1> QED BY <1>2, <1>4 DEF OnceInv

LEMMA SweepOnce == MoneyTypes /\ OnceInv /\ SweepAccounts => OnceInv'
<1> SUFFICES ASSUME MoneyTypes, OnceInv, SweepAccounts PROVE OnceInv'
  OBVIOUS
<1>1. PICK change \in [DOMAIN snap -> {"keep", "limit", "dormant", "frozen", "active", "closed"}],
           limit \in Limits :
       LET changed == {a \in DOMAIN snap : change[a] # "keep"}
           moved == {a \in changed : change[a] # "limit"}
           closed == {a \in changed : change[a] = "closed"}
       IN  /\ accounts' = [a \in Accounts |->
                IF a \in moved
                THEN [accounts[a] EXCEPT !.status = change[a], !.at = day,
                                         !.closed = IF a \in closed THEN day ELSE @]
                ELSE IF a \in changed THEN [accounts[a] EXCEPT !.limit = limit, !.at = day]
                ELSE accounts[a]]
           /\ snap' = [a \in DOMAIN snap \ closed |->
                IF a \in moved THEN [snap[a] EXCEPT !.status = change[a]] ELSE snap[a]]
  BY DEF SweepAccounts
<1>2. /\ step = "accounts" /\ step' = "decide"
      /\ UNCHANGED <<day, txns, loans, installments, cash>>
  BY DEF SweepAccounts, Goes
<1> DEFINE changed == {a \in DOMAIN snap : change[a] # "keep"}
           moved == {a \in changed : change[a] # "limit"}
           closed == {a \in changed : change[a] = "closed"}
<1>3. cash = << >> /\ day > 0
  BY <1>2 DEF OnceInv, CashInv, CashSteps
<1>4. ASSUME NEW a \in Accounts, Open(accounts'[a]) PROVE a \in DOMAIN snap'
  <2>1. accounts[a] \in AccountRow
    BY DEF MoneyTypes
  <2>2. CASE a \in closed
    <3>1. accounts'[a] = [accounts[a] EXCEPT !.status = "closed", !.at = day, !.closed = day]
      BY <1>1, <2>2
    <3>2. accounts'[a].status = "closed"
      BY <2>1, <3>1 DEF AccountRow
    <3> QED BY <1>4, <3>2 DEF Open
  <2>3. CASE a \in DOMAIN snap /\ a \notin closed
    BY <1>1, <2>3
  <2>4. CASE a \notin DOMAIN snap
    <3>1. accounts'[a] = accounts[a]
      BY <1>1, <2>4
    <3>2. a \in DOMAIN snap
      BY <1>2, <1>4, <3>1 DEF OnceInv, CashInv
    <3> QED BY <2>4, <3>2
  <2> QED BY <2>2, <2>3, <2>4
<1>5. CashInv'
  BY <1>2, <1>3, <1>4 DEF CashInv
<1>6. TellsOnce(txns, cash, Happened)' /\ OneLoanEach'
  BY <1>2, NothingHappens DEF OnceInv
<1> QED BY <1>5, <1>6 DEF OnceInv

(* The handlers that touch neither loans nor transactions.                  *)
LEMMA OthersOnce ==
  ASSUME MoneyTypes, OnceInv,
         DecideApplications \/ Apply \/ AdvancePayments \/ WriteFold \/ ClearApplications
           \/ \E a \in Accounts : \E m \in Instructions : EmitPayment(a, m[1], m[2])
  PROVE  OnceInv'
<1>1. /\ step # "idle" /\ step' # "idle" /\ (step' \in CashSteps \/ step \notin CashSteps)
      /\ UNCHANGED <<day, txns, loans, installments, cash, snap>>
  BY DEF DecideApplications, Apply, AdvancePayments, WriteFold, ClearApplications, EmitPayment,
         Goes, CashSteps
<1>2. \A a \in Accounts : Open(accounts'[a]) => Open(accounts[a])
  <2>1. CASE WriteFold
    BY <2>1, WriteFoldDoes DEF Open
  <2>2. CASE ~ WriteFold
    BY <2>2 DEF DecideApplications, Apply, AdvancePayments, ClearApplications, EmitPayment
  <2> QED BY <2>1, <2>2
<1>3. CashInv'
  BY <1>1, <1>2, CashStays DEF OnceInv
<1>4. TellsOnce(txns, cash, Happened)' /\ OneLoanEach'
  BY <1>1, NothingHappens DEF OnceInv
<1> QED BY <1>3, <1>4 DEF OnceInv

LEMMA CommitOnce == MoneyTypes /\ OnceInv /\ Commit => OnceInv'
<1> SUFFICES ASSUME MoneyTypes, OnceInv, Commit PROVE OnceInv'
  OBVIOUS
<1>1. /\ step = "guard" /\ step' = "idle"
      /\ UNCHANGED <<txns, loans, installments, cash>>
  BY DEF Commit, Goes, book
<1>2. TellsOnce(txns, cash, Happened)' /\ OneLoanEach'
  BY <1>1, NothingHappens DEF OnceInv
<1>3. cash = << >>
  BY <1>1 DEF OnceInv, CashInv, CashSteps
<1>4. CashInv'
  BY <1>1, <1>3 DEF CashInv
<1> QED BY <1>2, <1>4 DEF OnceInv

(* The handlers that change transactions.                                   *)
LEMMA ChangedOnce ==
  ASSUME MoneyTypes, OnceInv, PostDeferred \/ VoidTransactions
  PROVE  OnceInv'
<1>1. /\ step # "idle" /\ step' # "idle" /\ (step' \in CashSteps \/ step \notin CashSteps)
      /\ UNCHANGED <<day, accounts, loans, installments, cash, snap>>
  BY DEF PostDeferred, VoidTransactions, Goes, CashSteps
<1>2. txns \in Seq(TxnRow) /\ day \in Nat
  BY DEF MoneyTypes
<1>3. /\ DOMAIN txns' = DOMAIN txns
      /\ \A i \in DOMAIN txns :
           \/ txns'[i] = txns[i]
           \/ txns'[i] = [txns[i] EXCEPT !.status = "posted", !.at = day]
           \/ txns'[i] = [txns[i] EXCEPT !.deleted = TRUE, !.at = day]
  <2>1. CASE PostDeferred
    <3>1. PICK S : txns' = [i \in DOMAIN txns |->
              IF i \in S THEN [txns[i] EXCEPT !.status = "posted", !.at = day] ELSE txns[i]]
      BY <2>1 DEF PostDeferred
    <3> QED BY <3>1
  <2>2. CASE VoidTransactions
    <3>1. PICK S : txns' = [i \in DOMAIN txns |->
              IF i \in S THEN [txns[i] EXCEPT !.deleted = TRUE, !.at = day] ELSE txns[i]]
      BY <2>2 DEF VoidTransactions
    <3> QED BY <3>1
  <2> QED BY <2>1, <2>2
<1>4. \A i \in DOMAIN txns : txns'[i].kind = txns[i].kind /\ txns'[i].of = txns[i].of
  <2>1. SUFFICES ASSUME NEW i \in DOMAIN txns
                 PROVE  txns'[i].kind = txns[i].kind /\ txns'[i].of = txns[i].of
    OBVIOUS
  <2>2. PICK x \in TxnRow : x = txns[i]
    BY <1>2
  <2>3. /\ [x EXCEPT !.status = "posted", !.at = day].kind = x.kind
        /\ [x EXCEPT !.status = "posted", !.at = day].of = x.of
        /\ [x EXCEPT !.deleted = TRUE, !.at = day].kind = x.kind
        /\ [x EXCEPT !.deleted = TRUE, !.at = day].of = x.of
    BY <1>2, KindStays
  <2> QED BY <1>3, <2>2, <2>3, Zenon
<1>5. TellsOnce(txns, cash, Happened)' /\ OneLoanEach'
  BY <1>1, <1>3, <1>4, NothingHappens DEF OnceInv
<1>6. CashInv'
  BY <1>1, CashStays DEF OnceInv
<1> QED BY <1>5, <1>6 DEF OnceInv

(* The handlers that add transactions of other kinds.                       *)
LEMMA AddedOnce ==
  ASSUME MoneyTypes, OnceInv,
         ClearLateArrivals \/ ReverseRecentPostings
           \/ \E a \in Accounts : \E m \in Drawn \cup Scheduled : EmitTransaction(a, m[1], m[2])
  PROVE  OnceInv'
<1>1. /\ step # "idle" /\ step' # "idle" /\ (step' \in CashSteps \/ step \notin CashSteps)
      /\ UNCHANGED <<day, accounts, loans, installments, cash, snap>>
  BY DEF ClearLateArrivals, ReverseRecentPostings, EmitTransaction, Goes, CashSteps
<1>2. txns \in Seq(TxnRow) /\ day \in Nat
  BY DEF MoneyTypes
<1>3. \E n \in Nat : \E new :
        /\ new = [k \in 1 .. n |-> new[k]] /\ txns' = txns \o new
        /\ \A k \in 1 .. n : new[k].kind \notin LoanCash
  <2>1. CASE ClearLateArrivals
    <3>1. PICK S \in SUBSET {p \in (DOMAIN snap) \X Lags : Admissible(p[1], p[2])} :
            txns' = txns \o [k \in DOMAIN Listed(S) |->
                     Txn(Listed(S)[k][1], -1, "posted", day - Listed(S)[k][2], "late", 0)]
      BY <2>1 DEF ClearLateArrivals, InsertPosted
    <3>2. IsFiniteSet(S)
      <4>1. IsFiniteSet(DOMAIN snap) /\ IsFiniteSet(Lags)
        BY MoneyAssumption, AccountsAreFinite DEF MoneyTypes
      <4>2. S \in SUBSET ((DOMAIN snap) \X Lags)
        OBVIOUS
      <4> QED BY <4>1, <4>2, FS_Product, FS_Subset
    <3>3. Cardinality(S) \in Nat /\ DOMAIN Listed(S) = 1 .. Cardinality(S)
      BY <3>2, ListedLists
    <3> DEFINE new == [k \in DOMAIN Listed(S) |->
                     Txn(Listed(S)[k][1], -1, "posted", day - Listed(S)[k][2], "late", 0)]
    <3>4. \A k \in 1 .. Cardinality(S) : new[k].kind = "late"
      BY <3>3 DEF Txn
    <3>5. new = [k \in 1 .. Cardinality(S) |-> new[k]]
      BY <3>3
    <3>6. txns' = txns \o new
      BY <3>1
    <3> HIDE DEF new
    <3> QED BY <3>3, <3>4, <3>5, <3>6 DEF LoanCash
  <2>2. CASE ReverseRecentPostings
    <3>1. PICK S \in SUBSET {i \in DOMAIN txns : Reversible(i)} :
            txns' = txns \o [k \in DOMAIN InOrder(S) |->
                     Txn(txns[InOrder(S)[k]].acct, 0 - txns[InOrder(S)[k]].amt, "posted", day,
                         "reversal", InOrder(S)[k])]
      BY <2>2 DEF ReverseRecentPostings, InsertPosted
    <3>2. S \in SUBSET Nat /\ IsFiniteSet(S)
      <4>1. S \in SUBSET DOMAIN txns
        OBVIOUS
      <4> QED BY <1>2, <4>1, PositionsAreFinite
    <3>3. Cardinality(S) \in Nat /\ DOMAIN InOrder(S) = 1 .. Cardinality(S)
      BY <3>2, InOrderLists
    <3> DEFINE new == [k \in DOMAIN InOrder(S) |->
                     Txn(txns[InOrder(S)[k]].acct, 0 - txns[InOrder(S)[k]].amt, "posted", day,
                         "reversal", InOrder(S)[k])]
    <3>4. \A k \in 1 .. Cardinality(S) : new[k].kind = "reversal"
      BY <3>3 DEF Txn
    <3>5. new = [k \in 1 .. Cardinality(S) |-> new[k]]
      BY <3>3
    <3>6. txns' = txns \o new
      BY <3>1
    <3> HIDE DEF new
    <3> QED BY <3>3, <3>4, <3>5, <3>6 DEF LoanCash
  <2>3. CASE \E a \in Accounts : \E m \in Drawn \cup Scheduled : EmitTransaction(a, m[1], m[2])
    <3>1. PICK a, amount, status : txns' = Append(txns, Txn(a, amount, status, day, "drawn", 0))
      BY <2>3 DEF EmitTransaction
    <3>2. PICK row : row = Txn(a, amount, status, day, "drawn", 0)
      OBVIOUS
    <3>3. row.kind = "drawn"
      BY <3>2 DEF Txn
    <3>4. txns' = txns \o <<row>>
      BY <1>2, <3>1, <3>2
    <3>5. <<row>> = [k \in 1 .. 1 |-> <<row>>[k]] /\ \A k \in 1 .. 1 : <<row>>[k].kind = "drawn"
      BY <3>3
    <3>6. 1 \in Nat /\ "drawn" \notin LoanCash
      BY DEF LoanCash
    <3> QED BY <3>4, <3>5, <3>6, Zenon
  <2> QED BY <2>1, <2>2, <2>3
<1>4. TellsOnce(txns, cash, Happened)' /\ OneLoanEach'
  BY <1>1, <1>3, OtherRowsAdded DEF OnceInv
<1>5. CashInv'
  BY <1>1, CashStays DEF OnceInv
<1> QED BY <1>4, <1>5 DEF OnceInv

LEMMA OnboardOnce == MoneyTypes /\ OnceInv /\ Onboard => OnceInv'
<1> SUFFICES ASSUME MoneyTypes, OnceInv, Onboard PROVE OnceInv'
  OBVIOUS
<1>1. PICK S \in SUBSET Newcomers, deposit \in Deposits, limit \in Limits :
        /\ accounts' = [a \in Accounts |->
             IF a \in S THEN NewAccount(limit, deposit) ELSE accounts[a]]
        /\ DOMAIN snap' = DOMAIN snap \cup S
        /\ txns' = txns \o OpeningDeposits(S, deposit)
  BY DEF Onboard
<1>2. /\ step = "onboard" /\ step' = "apply"
      /\ UNCHANGED <<day, loans, installments, cash>>
  BY DEF Onboard, Goes
<1>3. S \in SUBSET Accounts /\ deposit \in Nat /\ day \in Nat
  BY MoneyAssumption DEF MoneyTypes
<1> DEFINE rows == OpeningDeposits(S, deposit)
<1>4. rows \in Seq(TxnRow)
  BY <1>3, DepositsAreHeld
<1>5. \A k \in DOMAIN rows : rows[k].kind = "deposit"
  BY DEF OpeningDeposits, Txn
<1>6. txns' = txns \o rows
  BY <1>1
<1> HIDE DEF rows
<1>7. Len(rows) \in Nat /\ rows = [k \in 1 .. Len(rows) |-> rows[k]]
      /\ \A k \in 1 .. Len(rows) : rows[k].kind \notin LoanCash
  <2>1. /\ Len(rows) \in Nat /\ DOMAIN rows = 1 .. Len(rows)
        /\ rows = [k \in 1 .. Len(rows) |-> rows[k]]
    BY <1>4
  <2> QED BY <1>5, <2>1 DEF LoanCash
<1>8. TellsOnce(txns, cash, Happened)' /\ OneLoanEach'
  BY <1>2, <1>6, <1>7, OtherRowsAdded DEF OnceInv
<1>9. CashInv'
  <2>1. day > 0 /\ \A n \in DOMAIN cash : cash[n].acct \in DOMAIN snap
    BY <1>2 DEF OnceInv, CashInv
  <2>2. \A a \in Accounts : Open(accounts[a]) => a \in DOMAIN snap
    BY <1>2 DEF OnceInv, CashInv
  <2>3. \A a \in Accounts : a \notin S => accounts'[a] = accounts[a]
    BY <1>1
  <2>4. \A a \in Accounts : Open(accounts'[a]) => a \in DOMAIN snap'
    BY <1>1, <2>2, <2>3
  <2> QED BY <1>1, <1>2, <2>1, <2>4 DEF CashInv, CashSteps
<1> QED BY <1>8, <1>9 DEF OnceInv

(* Collecting turns all cash into transactions.                             *)
LEMMA CashOnce == MoneyTypes /\ OnceInv /\ CollectLoanCash => OnceInv'
<1> SUFFICES ASSUME MoneyTypes, OnceInv, CollectLoanCash PROVE OnceInv'
  OBVIOUS
<1> DEFINE K == {n \in DOMAIN cash : cash[n].acct \in DOMAIN snap}
           kept == InOrder(K)
           new == [k \in DOMAIN kept |->
                     LET e == cash[kept[k]]
                     IN  Txn(e.acct, e.amt, "posted", day, e.kind, e.of)]
           N == Cardinality(K)
<1>1. /\ txns' = txns \o new /\ cash' = << >> /\ step = "loan cash" /\ step' = "day"
      /\ UNCHANGED <<day, accounts, loans, installments, snap>>
  BY DEF CollectLoanCash, InsertPosted, Goes
<1>2. cash \in Seq(CashEvent) /\ txns \in Seq(TxnRow)
  BY DEF MoneyTypes
<1>3. K = DOMAIN cash
  BY DEF OnceInv, CashInv
<1> HIDE DEF K
<1>4. /\ N \in Nat /\ DOMAIN kept = 1 .. N
      /\ \A k \in 1 .. N : kept[k] \in DOMAIN cash
      /\ \A i \in DOMAIN cash : \E k \in 1 .. N : kept[k] = i
      /\ \A k, m \in 1 .. N : kept[k] = kept[m] => k = m
  <2>1. K \in SUBSET Nat /\ IsFiniteSet(K)
    BY <1>2, <1>3, PositionsAreFinite
  <2> QED BY <1>3, <2>1, InOrderLists
<1> HIDE DEF kept, N
<1>5. /\ new = [k \in 1 .. N |-> new[k]] /\ DOMAIN new = 1 .. N
      /\ \A k \in 1 .. N : new[k].kind = cash[kept[k]].kind /\ new[k].of = cash[kept[k]].of
  BY <1>4 DEF Txn
<1> HIDE DEF new
<1>6. new \in Seq({new[k] : k \in 1 .. N})
  BY <1>4, <1>5, ValuesMakeASequence
<1>7. \A k \in 1 .. N : Fact(new[k]) = Fact(cash[kept[k]])
                        /\ (k \in Told(new) <=> kept[k] \in Told(cash))
  BY <1>4, <1>5 DEF Fact, Told
<1>8. Facts(new) = Facts(cash)
  <2>1. Facts(new) \subseteq Facts(cash)
    BY <1>5, <1>7 DEF Facts, Told
  <2>2. ASSUME NEW i \in Told(cash) PROVE Fact(cash[i]) \in Facts(new)
    <3>1. PICK k \in 1 .. N : kept[k] = i
      BY <1>4 DEF Told
    <3> QED BY <1>7, <3>1 DEF Facts
  <2> QED BY <2>1, <2>2 DEF Facts
<1>9. Single(new)
  <2>1. SUFFICES ASSUME NEW k \in Told(new), NEW m \in Told(new), Fact(new[k]) = Fact(new[m])
                 PROVE  k = m
    BY DEF Single
  <2>2. k \in 1 .. N /\ m \in 1 .. N
    BY <1>5 DEF Told
  <2>3. kept[k] = kept[m]
    BY <1>7, <2>1, <2>2 DEF OnceInv, TellsOnce, Single
  <2> QED BY <1>4, <2>2, <2>3
<1>10. TellsOnce(txns \o new, << >>, Happened)
  BY <1>2, <1>6, <1>8, <1>9, EventsBecomeRows DEF OnceInv
<1>11. Happened' = Happened
  BY <1>1, HappenedStays
<1>12. TellsOnce(txns, cash, Happened)'
  BY <1>1, <1>10, <1>11
<1>13. CashInv'
  <2>1. day > 0 /\ \A a \in Accounts : Open(accounts[a]) => a \in DOMAIN snap
    BY <1>1 DEF OnceInv, CashInv
  <2>2. \A a \in Accounts : Open(accounts'[a]) => a \in DOMAIN snap'
    BY <1>1, <2>1
  <2>3. cash' = << >>
    BY <1>1
  <2>4. \A n \in DOMAIN cash' : cash'[n].acct \in DOMAIN snap'
    BY <2>3
  <2> QED BY <1>1, <2>1, <2>2, <2>3, <2>4 DEF CashInv
<1>14. OneLoanEach'
  BY <1>1 DEF OnceInv, OneLoanEach
<1> QED BY <1>12, <1>13, <1>14 DEF OnceInv

(* What a list of pairs gives: a row for each pair, in some order.          *)
LEMMA PairsListedOnce ==
  ASSUME NEW I \in SUBSET Nat, IsFiniteSet(I), NEW pairs \in SUBSET (I \X Accounts)
  PROVE  /\ \A p \in pairs : \E k \in 1 .. Cardinality(pairs) : Listed(pairs)[k] = p
         /\ \A k, m \in 1 .. Cardinality(pairs) : Listed(pairs)[k] = Listed(pairs)[m] => k = m
<1>1. IsFiniteSet(pairs)
  BY MoneyAssumption, FS_Product, FS_Subset
<1> QED BY <1>1, ListedLists

(* A loan for every application that is drawn, as its borrower has one      *)
(* account; the cash of each tells of it.                                   *)
LEMMA DisburseOnce ==
  ASSUME MoneyTypes, MoneyTypes', OnceInv, OneOpenAccount, DisburseApproved
  PROVE  OnceInv'
<1> DEFINE drawable == {j \in DOMAIN applications : Drawable(j)}
           pairs == UNION {{<<i, a>> : a \in Primary(applications[i].cust)} : i \in drawable}
           rows == Listed(pairs)
           first == Len(loans)
           N == Cardinality(pairs)
           lent == [k \in DOMAIN rows |->
              [app |-> rows[k][1], cust |-> applications[rows[k][1]].cust,
               status |-> "current", disbursed |-> day, at |-> day]]
           schedule == [n \in 1 .. Len(rows) * Term |->
              [loan |-> first + 1 + ((n - 1) \div Term),
               due |-> day + Month * (1 + ((n - 1) % Term)), paid |-> 0, made |-> day, at |-> day]]
           events == [k \in DOMAIN rows |->
              [acct |-> rows[k][2], amt |-> Principal * Term, kind |-> "disbursement",
               of |-> first + k]]
<1>1. /\ loans' = loans \o lent /\ installments' = installments \o schedule
      /\ cash' = cash \o events
      /\ step = "disburse" /\ step' = "loans"
      /\ UNCHANGED <<day, accounts, txns, applications, snap>>
  BY DEF DisburseApproved, Goes
<1>2. /\ loans \in Seq(LoanRow) /\ installments \in Seq(InstallmentRow)
      /\ cash \in Seq(CashEvent) /\ txns \in Seq(TxnRow) /\ first \in Nat /\ day \in Nat
      /\ Term \in Nat
  BY MoneyAssumption DEF MoneyTypes
<1>3. drawable \in SUBSET Nat /\ IsFiniteSet(drawable)
  <2>1. drawable \in SUBSET DOMAIN applications /\ applications \in Seq(ApplicationRow)
    BY DEF MoneyTypes
  <2> QED BY <2>1, PositionsAreFinite
<1>4. pairs \in SUBSET (drawable \X Accounts)
  BY DEF Primary
<1>5. \A p \in pairs : /\ p = <<p[1], p[2]>> /\ p[2] \in Primary(applications[p[1]].cust)
                       /\ Drawable(p[1])
  OBVIOUS
<1>6. /\ N \in Nat /\ Len(rows) = N /\ DOMAIN rows = 1 .. N
      /\ \A k \in 1 .. N : rows[k] \in pairs /\ rows[k][2] \in Accounts
      /\ \A k, m \in 1 .. N : rows[k] = rows[m] => k = m
  <2> HIDE DEF pairs, drawable
  <2> QED BY <1>3, <1>4, PairsListed, PairsListedOnce
<1> HIDE DEF pairs, rows, N, drawable
<1>7. ASSUME NEW k \in 1 .. N, NEW m \in 1 .. N, rows[k][1] = rows[m][1] PROVE k = m
  <2>1. /\ rows[k] = <<rows[k][1], rows[k][2]>> /\ rows[m] = <<rows[m][1], rows[m][2]>>
        /\ rows[k][2] \in Primary(applications[rows[k][1]].cust)
        /\ rows[m][2] \in Primary(applications[rows[k][1]].cust)
    BY <1>5, <1>6, <1>7
  <2>2. rows[k][2] = rows[m][2]
    BY <2>1 DEF OneOpenAccount, Primary
  <2> QED BY <1>6, <1>7, <2>1, <2>2
<1>8. /\ lent = [k \in 1 .. N |-> lent[k]] /\ DOMAIN lent = 1 .. N
      /\ \A k \in 1 .. N : lent[k].app = rows[k][1] /\ lent[k].disbursed = day
  BY <1>6
<1>9. /\ events = [k \in 1 .. N |-> events[k]] /\ DOMAIN events = 1 .. N
      /\ \A k \in 1 .. N : /\ events[k].kind = "disbursement" /\ events[k].of = first + k
                           /\ events[k].acct = rows[k][2]
  BY <1>6
<1>10. PICK z \in Nat : z = N * Term
  BY <1>2, <1>6, Products
<1>11. /\ schedule = [n \in 1 .. z |-> schedule[n]] /\ DOMAIN schedule = 1 .. z
       /\ \A n \in 1 .. z : schedule[n].paid = 0
  BY <1>6, <1>10
<1> HIDE DEF lent, schedule, events
<1>12. /\ lent \in Seq({lent[k] : k \in 1 .. N})
       /\ events \in Seq({events[k] : k \in 1 .. N})
       /\ schedule \in Seq({schedule[n] : n \in 1 .. z})
  <2>1. lent \in Seq({lent[k] : k \in 1 .. N})
    BY <1>6, <1>8, ValuesMakeASequence
  <2>2. events \in Seq({events[k] : k \in 1 .. N})
    BY <1>6, <1>9, ValuesMakeASequence
  <2>3. schedule \in Seq({schedule[n] : n \in 1 .. z})
    BY <1>11, ValuesMakeASequence
  <2> QED BY <2>1, <2>2, <2>3
<1>13. day > 0 /\ cash = << >> /\ \A a \in Accounts : Open(accounts[a]) => a \in DOMAIN snap
  BY <1>1 DEF OnceInv, CashInv, CashSteps
<1>14. /\ DOMAIN loans = 1 .. first /\ DOMAIN loans' = 1 .. first + N
       /\ \A l \in 1 .. first : loans'[l] = loans[l]
       /\ \A k \in 1 .. N : loans'[first + k] = lent[k]
  <2>1. Len(lent) = N
    BY <1>6, <1>8, <1>12
  <2> QED BY <1>1, <1>2, <1>12, <2>1
<1>15. /\ DOMAIN installments \subseteq DOMAIN installments'
       /\ \A i \in DOMAIN installments : installments'[i] = installments[i]
       /\ \A i \in DOMAIN installments' \ DOMAIN installments : installments'[i].paid = 0
  <2>1. Len(schedule) = z
    BY <1>10, <1>11, <1>12
  <2>2. /\ DOMAIN installments = 1 .. Len(installments) /\ Len(installments) \in Nat
        /\ DOMAIN installments' = 1 .. Len(installments) + z
        /\ \A i \in DOMAIN installments : installments'[i] = installments[i]
        /\ \A i \in DOMAIN installments' \ DOMAIN installments :
             installments'[i] = schedule[i - Len(installments)]
    BY <1>1, <1>2, <1>10, <1>12, <2>1
  <2>3. \A i \in DOMAIN installments' \ DOMAIN installments : i - Len(installments) \in 1 .. z
    BY <1>10, <2>2
  <2>4. \A i \in DOMAIN installments' \ DOMAIN installments : installments'[i].paid = 0
    BY <1>11, <2>2, <2>3
  <2>5. DOMAIN installments \subseteq DOMAIN installments'
    BY <1>10, <2>2
  <2> QED BY <2>2, <2>4, <2>5
<1>16. Facts(events) = {<<"disbursement", l>> : l \in DOMAIN loans' \ DOMAIN loans}
  <2>1. Told(events) = 1 .. N
    BY <1>9 DEF Told, LoanCash
  <2>2. \A k \in 1 .. N : Fact(events[k]) = <<"disbursement", first + k>>
    BY <1>9 DEF Fact
  <2>3. Facts(events) = {<<"disbursement", first + k>> : k \in 1 .. N}
    BY <2>1, <2>2 DEF Facts
  <2>4. \A l \in DOMAIN loans' \ DOMAIN loans : l - first \in 1 .. N /\ l = first + (l - first)
    BY <1>2, <1>6, <1>14
  <2>5. \A k \in 1 .. N : first + k \in DOMAIN loans' \ DOMAIN loans
    BY <1>2, <1>6, <1>14
  <2> QED BY <2>3, <2>4, <2>5
<1>17. Single(events)
  <2>1. SUFFICES ASSUME NEW k \in Told(events), NEW m \in Told(events),
                        Fact(events[k]) = Fact(events[m])
                 PROVE  k = m
    BY DEF Single
  <2>2. k \in 1 .. N /\ m \in 1 .. N
    BY <1>9 DEF Told
  <2>3. first + k = first + m
    BY <1>9, <2>1, <2>2 DEF Fact
  <2> QED BY <1>2, <1>6, <2>2, <2>3
<1>18. Facts(events) \cap Happened = {}
  BY <1>16 DEF Happened
<1>19. Happened' = Happened \cup Facts(events)
  <2>1. {i \in DOMAIN installments' : installments'[i].paid > 0}
          = {i \in DOMAIN installments : installments[i].paid > 0}
    <3>1. ~ (0 > 0)
      OBVIOUS
    <3> QED BY <1>15, <3>1
  <2>2. {l \in DOMAIN loans' : loans'[l].disbursed > 0}
          = {l \in DOMAIN loans : loans[l].disbursed > 0} \cup (DOMAIN loans' \ DOMAIN loans)
    <3>1. \A l \in DOMAIN loans' \ DOMAIN loans : loans'[l].disbursed > 0
      <4>1. \A l \in DOMAIN loans' \ DOMAIN loans : l - first \in 1 .. N /\ l = first + (l - first)
        BY <1>2, <1>6, <1>14
      <4> QED BY <1>8, <1>13, <1>14, <4>1
    <3>2. DOMAIN loans \subseteq DOMAIN loans' /\ \A l \in DOMAIN loans : loans'[l] = loans[l]
      BY <1>2, <1>6, <1>14
    <3> QED BY <3>1, <3>2
  <2>3. Happened' = ({"collection"} \X {i \in DOMAIN installments' : installments'[i].paid > 0})
                    \cup ({"disbursement"} \X {l \in DOMAIN loans' : loans'[l].disbursed > 0})
    BY DEF Happened
  <2> QED BY <1>16, <2>1, <2>2, <2>3 DEF Happened
<1>20. TellsOnce(txns, cash, Happened)'
  <2>1. TellsOnce(txns, cash \o events, Happened \cup Facts(events))
    BY <1>2, <1>12, <1>17, <1>18, NewEvents DEF OnceInv
  <2> QED BY <1>1, <1>19, <2>1
<1>21. OneLoanEach'
  <2>1. SUFFICES ASSUME NEW l \in DOMAIN loans', NEW m \in DOMAIN loans',
                        loans'[l].app = loans'[m].app
                 PROVE  l = m
    BY DEF OneLoanEach
  <2>2. CASE l \in 1 .. first /\ m \in 1 .. first
    BY <1>14, <2>1, <2>2 DEF OnceInv, OneLoanEach
  <2>3. ASSUME NEW j \in 1 .. first, NEW k \in 1 .. N PROVE loans'[j].app # loans'[first + k].app
    <3>1. Drawable(rows[k][1])
      BY <1>5, <1>6
    <3>2. loans[j].app # rows[k][1]
      BY <1>14, <3>1 DEF Drawable
    <3> QED BY <1>8, <1>14, <3>2
  <2>4. \A j \in DOMAIN loans' : j \in 1 .. first \/ \E k \in 1 .. N : j = first + k
    <3>1. \A j \in DOMAIN loans' :
            j \in 1 .. first \/ (j - first \in 1 .. N /\ j = first + (j - first))
      BY <1>2, <1>6, <1>14
    <3> QED BY <3>1
  <2>5. ASSUME NEW j \in 1 .. N, NEW k \in 1 .. N, l = first + j, m = first + k PROVE l = m
    BY <1>7, <1>8, <1>14, <2>1, <2>5
  <2> QED BY <2>1, <2>2, <2>3, <2>4, <2>5
<1>22. CashInv'
  <2>1. \A k \in 1 .. N : events[k].acct \in DOMAIN snap
    <3>1. \A k \in 1 .. N : rows[k][2] \in Accounts /\ Open(accounts[rows[k][2]])
      BY <1>5, <1>6 DEF Primary
    <3> QED BY <1>9, <1>13, <3>1
  <2>2. cash' = events
    BY <1>1, <1>12, <1>13
  <2> QED BY <1>1, <1>9, <1>13, <2>1, <2>2 DEF CashInv, CashSteps
<1> QED BY <1>20, <1>21, <1>22 DEF OnceInv

(* An event for every installment that is paid, as its borrower has one     *)
(* account to pay from.                                                     *)
LEMMA CollectOnce ==
  ASSUME MoneyTypes, MoneyTypes', OnceInv, OneOpenAccount, CollectInstallments
  PROVE  OnceInv'
<1> DEFINE borrower(i) == loans[installments[i].loan].cust
           due == {i \in DOMAIN installments :
                   /\ installments[i].paid = 0 /\ installments[i].due =< day
                   /\ loans[installments[i].loan].status \in Servicing
                   /\ Primary(borrower(i)) # {}}
           overdue(i) == day - installments[i].due
           stuck == {installments[i].loan : i \in {j \in due : overdue(j) > Grace}}
           pairs(paid) == UNION {{<<i, a>> : a \in Primary(borrower(i))} : i \in paid}
           settled(paid) == {l \in DOMAIN loans :
                    /\ loans[l].status \in Servicing /\ loans[l].disbursed < day
                    /\ \A i \in DOMAIN installments :
                         installments[i].loan = l => installments'[i].paid # 0}
           fallen == {l \in stuck : loans[l].status # "arrears"}
           events(rows) == [k \in DOMAIN rows |->
                       [acct |-> rows[k][2], amt |-> 0 - (Principal + Interest),
                        kind |-> "collection", of |-> rows[k][1]]]
<1>1. PICK paid \in SUBSET due :
        /\ installments' = [i \in DOMAIN installments |->
                IF i \in paid THEN [installments[i] EXCEPT !.paid = day, !.at = day]
                ELSE installments[i]]
        /\ cash' = cash \o events(Listed(pairs(paid)))
        /\ loans' = [l \in DOMAIN loans |->
                       IF l \in settled(paid) THEN [loans[l] EXCEPT !.status = "closed", !.at = day]
                       ELSE IF l \in fallen THEN [loans[l] EXCEPT !.status = "arrears", !.at = day]
                       ELSE loans[l]]
  BY DEF CollectInstallments
<1>2. /\ step = "loans" /\ step' = "onboard"
      /\ UNCHANGED <<day, accounts, txns, applications, snap>>
  BY DEF CollectInstallments, Goes
<1>3. /\ paid \in SUBSET DOMAIN installments /\ \A i \in paid : installments[i].paid = 0
      /\ \A i \in paid : Primary(borrower(i)) # {}
  OBVIOUS
<1> DEFINE done == settled(paid)
           P == pairs(paid)
           rows == Listed(P)
           new == events(rows)
           N == Cardinality(P)
<1>4. /\ cash' = cash \o new
      /\ loans' = [l \in DOMAIN loans |->
                       IF l \in done THEN [loans[l] EXCEPT !.status = "closed", !.at = day]
                       ELSE IF l \in fallen THEN [loans[l] EXCEPT !.status = "arrears", !.at = day]
                       ELSE loans[l]]
  BY <1>1
<1> HIDE DEF done, fallen, due, settled
<1>5. /\ loans \in Seq(LoanRow) /\ installments \in Seq(InstallmentRow)
      /\ cash \in Seq(CashEvent) /\ txns \in Seq(TxnRow) /\ day \in Nat
  BY DEF MoneyTypes
<1>6. paid \in SUBSET Nat /\ IsFiniteSet(paid)
  BY <1>3, <1>5, PositionsAreFinite
<1>7. P \in SUBSET (paid \X Accounts)
  BY DEF Primary
<1>8. /\ \A p \in P : p = <<p[1], p[2]>> /\ p[1] \in paid /\ p[2] \in Primary(borrower(p[1]))
      /\ \A i \in paid : \A a \in Primary(borrower(i)) : <<i, a>> \in P
  OBVIOUS
<1>9. /\ N \in Nat /\ DOMAIN rows = 1 .. N
      /\ \A k \in 1 .. N : rows[k] \in P
      /\ \A p \in P : \E k \in 1 .. N : rows[k] = p
      /\ \A k, m \in 1 .. N : rows[k] = rows[m] => k = m
  <2> HIDE DEF P
  <2> QED BY <1>6, <1>7, PairsListed, PairsListedOnce
<1> HIDE DEF P, rows, N
<1>10. ASSUME NEW k \in 1 .. N, NEW m \in 1 .. N, rows[k][1] = rows[m][1] PROVE k = m
  <2>1. /\ rows[k] = <<rows[k][1], rows[k][2]>> /\ rows[m] = <<rows[m][1], rows[m][2]>>
        /\ rows[k][2] \in Primary(borrower(rows[k][1]))
        /\ rows[m][2] \in Primary(borrower(rows[k][1]))
    BY <1>8, <1>9, <1>10
  <2>2. rows[k][2] = rows[m][2]
    BY <2>1 DEF OneOpenAccount, Primary
  <2> QED BY <1>9, <1>10, <2>1, <2>2
<1>11. /\ new = [k \in 1 .. N |-> new[k]] /\ DOMAIN new = 1 .. N
       /\ \A k \in 1 .. N : /\ new[k].kind = "collection" /\ new[k].of = rows[k][1]
                            /\ new[k].acct = rows[k][2]
  BY <1>9
<1> HIDE DEF new, events
<1>12. new \in Seq({new[k] : k \in 1 .. N})
  BY <1>9, <1>11, ValuesMakeASequence
<1>13. day > 0 /\ \A a \in Accounts : Open(accounts[a]) => a \in DOMAIN snap
  BY <1>2 DEF OnceInv, CashInv
<1>14. Facts(new) = {<<"collection", i>> : i \in paid}
  <2>1. Told(new) = 1 .. N
    BY <1>11 DEF Told, LoanCash
  <2>2. \A k \in 1 .. N : Fact(new[k]) = <<"collection", rows[k][1]>>
    BY <1>11 DEF Fact
  <2>3. Facts(new) = {<<"collection", rows[k][1]>> : k \in 1 .. N}
    BY <2>1, <2>2 DEF Facts
  <2>4. \A k \in 1 .. N : rows[k][1] \in paid
    BY <1>8, <1>9
  <2>5. ASSUME NEW i \in paid PROVE \E k \in 1 .. N : rows[k][1] = i
    <3>1. PICK a \in Primary(borrower(i)) : <<i, a>> \in P
      BY <1>3, <1>8
    <3>2. PICK k \in 1 .. N : rows[k] = <<i, a>>
      BY <1>9, <3>1
    <3> QED BY <3>2
  <2> QED BY <2>3, <2>4, <2>5
<1>15. Single(new)
  <2>1. SUFFICES ASSUME NEW k \in Told(new), NEW m \in Told(new), Fact(new[k]) = Fact(new[m])
                 PROVE  k = m
    BY DEF Single
  <2>2. k \in 1 .. N /\ m \in 1 .. N
    BY <1>11 DEF Told
  <2> QED BY <1>10, <1>11, <2>1, <2>2 DEF Fact
<1>16. Facts(new) \cap Happened = {}
  <2>1. ~ (0 > 0)
    OBVIOUS
  <2> QED BY <1>3, <1>14, <2>1 DEF Happened
<1>17. /\ DOMAIN installments' = DOMAIN installments
       /\ \A i \in DOMAIN installments :
            installments'[i].paid = IF i \in paid THEN day ELSE installments[i].paid
  <2>1. SUFFICES ASSUME NEW i \in DOMAIN installments
                 PROVE  installments'[i].paid = IF i \in paid THEN day ELSE installments[i].paid
    BY <1>1
  <2>2. PICK x \in InstallmentRow : x = installments[i]
    BY <1>5
  <2>3. [x EXCEPT !.paid = day, !.at = day].paid = day
    BY <2>2 DEF InstallmentRow
  <2> QED BY <1>1, <2>2, <2>3
<1>18. /\ DOMAIN loans' = DOMAIN loans
       /\ \A l \in DOMAIN loans :
            loans'[l].disbursed = loans[l].disbursed /\ loans'[l].app = loans[l].app
  <2>1. SUFFICES ASSUME NEW l \in DOMAIN loans
                 PROVE  loans'[l].disbursed = loans[l].disbursed /\ loans'[l].app = loans[l].app
    BY <1>4
  <2> DEFINE U == Servicing \cup {"closed"}
  <2>2. LoanRow = [app : Nat, cust : Nat, status : U, disbursed : Int, at : Int]
    BY DEF LoanRow
  <2>3. PICK x \in LoanRow : x = loans[l]
    BY <1>5
  <2> HIDE DEF U
  <2>4. /\ [x EXCEPT !.status = "closed", !.at = day].disbursed = x.disbursed
        /\ [x EXCEPT !.status = "closed", !.at = day].app = x.app
        /\ [x EXCEPT !.status = "arrears", !.at = day].disbursed = x.disbursed
        /\ [x EXCEPT !.status = "arrears", !.at = day].app = x.app
    BY <2>2, <2>3
  <2> QED BY <1>4, <2>3, <2>4
<1>19. Happened' = Happened \cup Facts(new)
  <2>1. {i \in DOMAIN installments' : installments'[i].paid > 0}
          = {i \in DOMAIN installments : installments[i].paid > 0} \cup paid
    BY <1>3, <1>13, <1>17
  <2>2. {l \in DOMAIN loans' : loans'[l].disbursed > 0}
          = {l \in DOMAIN loans : loans[l].disbursed > 0}
    BY <1>18
  <2>3. Happened' = ({"collection"} \X {i \in DOMAIN installments' : installments'[i].paid > 0})
                    \cup ({"disbursement"} \X {l \in DOMAIN loans' : loans'[l].disbursed > 0})
    BY DEF Happened
  <2> QED BY <1>14, <2>1, <2>2, <2>3 DEF Happened
<1>20. TellsOnce(txns, cash, Happened)'
  <2>1. TellsOnce(txns, cash \o new, Happened \cup Facts(new))
    BY <1>5, <1>12, <1>15, <1>16, NewEvents DEF OnceInv
  <2> QED BY <1>2, <1>4, <1>19, <2>1
<1>21. OneLoanEach'
  BY <1>18 DEF OnceInv, OneLoanEach
<1>22. CashInv'
  <2>1. \A k \in 1 .. N : new[k].acct \in DOMAIN snap
    <3>1. \A k \in 1 .. N : rows[k][2] \in Accounts /\ Open(accounts[rows[k][2]])
      BY <1>8, <1>9 DEF Primary
    <3> QED BY <1>11, <1>13, <3>1
  <2>2. \A n \in DOMAIN cash' : \/ n \in DOMAIN cash /\ cash'[n] = cash[n]
                                \/ \E k \in 1 .. N : cash'[n] = new[k]
    <3> DEFINE R == {new[k] : k \in 1 .. N}
               U == CashEvent \cup R
    <3>1. cash \in Seq(U) /\ new \in Seq(U)
      BY <1>5, <1>12
    <3> HIDE DEF U, R
    <3>2. \A n \in DOMAIN (cash \o new) :
            \/ n \in DOMAIN cash /\ (cash \o new)[n] = cash[n]
            \/ \E k \in DOMAIN new : n = Len(cash) + k /\ (cash \o new)[n] = new[k]
      BY <3>1, RowsOfBoth
    <3>3. DOMAIN new = 1 .. N
      BY <1>11
    <3>4. PICK c : c = cash \o new
      OBVIOUS
    <3>5. \A n \in DOMAIN c :
            (n \in DOMAIN cash /\ c[n] = cash[n]) \/ \E k \in 1 .. N : c[n] = new[k]
      BY <3>2, <3>3, <3>4, Zenon
    <3> QED BY <1>4, <3>4, <3>5, Zenon
  <2>3. \A n \in DOMAIN cash' : cash'[n].acct \in DOMAIN snap
    BY <2>1, <2>2 DEF OnceInv, CashInv
  <2> QED BY <1>2, <1>13, <2>3 DEF CashInv, CashSteps
<1> QED BY <1>20, <1>21, <1>22 DEF OnceInv

(* Every handler keeps each fact of a loan told once.                       *)
LEMMA OnceNext ==
  MoneyInv /\ MoneyInv' /\ OneOpenAccount /\ OnceInv /\ [Next]_vars => OnceInv'
<1> SUFFICES ASSUME MoneyTypes, MoneyTypes', OneOpenAccount, OnceInv, [Next]_vars PROVE OnceInv'
  BY DEF MoneyInv
<1>1. CASE BeginTick
  BY <1>1, BeginTickOnce
<1>2. CASE SweepAccounts
  BY <1>2, SweepOnce
<1>3. CASE DisburseApproved
  BY <1>3, DisburseOnce
<1>4. CASE CollectInstallments
  BY <1>4, CollectOnce
<1>5. CASE Onboard
  BY <1>5, OnboardOnce
<1>6. CASE PostDeferred \/ VoidTransactions
  BY <1>6, ChangedOnce
<1>7. CASE ClearLateArrivals \/ ReverseRecentPostings
  BY <1>7, AddedOnce
<1>8. CASE CollectLoanCash
  BY <1>8, CashOnce
<1>9. CASE DecideApplications \/ Apply \/ AdvancePayments \/ WriteFold \/ ClearApplications
  BY <1>9, OthersOnce
<1>10. CASE \E a \in Accounts : EmitDay(a)
  BY <1>10, AddedOnce, OthersOnce DEF EmitDay
<1>11. CASE Commit
  BY <1>11, CommitOnce
<1>12. CASE UNCHANGED vars
  <2>1. UNCHANGED <<day, step, accounts, txns, loans, installments, snap, cash>>
    BY <1>12 DEF vars, book
  <2>2. TellsOnce(txns, cash, Happened)' /\ OneLoanEach'
    BY <2>1, NothingHappens DEF OnceInv
  <2>3. CashInv'
    BY <2>1 DEF OnceInv, CashInv, Open
  <2> QED BY <2>2, <2>3 DEF OnceInv
<1> QED BY <1>1, <1>2, <1>3, <1>4, <1>5, <1>6, <1>7, <1>8, <1>9, <1>10, <1>11, <1>12
        DEF Next, Lifecycle, Acquisition, Movements, Deletes

(* What is told once, by transactions alone, is moved once.                 *)
LEMMA OnceMoves ==
  ASSUME MoneyTypes, OnceInv PROVE LoanMoneyMovesOnce
<1> SUFFICES ASSUME CashDone
             PROVE  /\ \A i \in DOMAIN installments :
                         Cardinality(MovementsOf("collection", i))
                           = IF installments[i].paid > 0 THEN 1 ELSE 0
                    /\ \A l \in DOMAIN loans : loans[l].disbursed > 0 =>
                         Cardinality(MovementsOf("disbursement", l)) = 1
                    /\ \A l, m \in DOMAIN loans : loans[l].app = loans[m].app => l = m
  BY DEF LoanMoneyMovesOnce
<1>1. cash = << >>
  BY DEF OnceInv, CashInv, CashDone, Folded, CashSteps
<1>2. Single(txns) /\ Facts(txns) = Happened
  <2>1. Facts(<< >>) = {}
    BY NothingTold
  <2> QED BY <1>1, <2>1 DEF OnceInv, TellsOnce
<1>3. ASSUME NEW kind \in LoanCash, NEW id
      PROVE  /\ <<kind, id>> \in Happened => Cardinality(MovementsOf(kind, id)) = 1
             /\ <<kind, id>> \notin Happened => Cardinality(MovementsOf(kind, id)) = 0
  <2>1. MovementsOf(kind, id) = {n \in Told(txns) : Fact(txns[n]) = <<kind, id>>}
    BY DEF MovementsOf, Told, Fact
  <2>2. CASE <<kind, id>> \in Happened
    <3>1. PICK n \in Told(txns) : Fact(txns[n]) = <<kind, id>>
      BY <1>2, <2>2 DEF Facts
    <3>2. MovementsOf(kind, id) = {n}
      BY <1>2, <2>1, <3>1 DEF Single
    <3> QED BY <2>2, <3>2, FS_Singleton
  <2>3. CASE <<kind, id>> \notin Happened
    <3>1. MovementsOf(kind, id) = {}
      BY <1>2, <2>1, <2>3 DEF Facts
    <3> QED BY <2>3, <3>1, FS_EmptySet
  <2> QED BY <2>2, <2>3
<1>4. ASSUME NEW i \in DOMAIN installments
      PROVE  Cardinality(MovementsOf("collection", i)) = IF installments[i].paid > 0 THEN 1 ELSE 0
  <2>1. <<"collection", i>> \in Happened <=> installments[i].paid > 0
    BY DEF Happened
  <2>2. "collection" \in LoanCash
    BY DEF LoanCash
  <2> QED BY <1>3, <2>1, <2>2
<1>5. ASSUME NEW l \in DOMAIN loans, loans[l].disbursed > 0
      PROVE  Cardinality(MovementsOf("disbursement", l)) = 1
  <2>1. <<"disbursement", l>> \in Happened
    BY <1>5 DEF Happened
  <2>2. "disbursement" \in LoanCash
    BY DEF LoanCash
  <2> QED BY <1>3, <2>1, <2>2
<1>6. \A l, m \in DOMAIN loans : loans[l].app = loans[m].app => l = m
  BY DEF OnceInv, OneLoanEach
<1> QED BY <1>4, <1>5, <1>6

(* The two phases of loan money agree as long as no customer is the primary *)
(* holder of two open accounts: a paid installment left an account once, a  *)
(* loan reached one once, and an application became one loan.               *)
THEOREM LoanMoneyMovesOnceCorrect == Spec /\ []OneOpenAccount => []LoanMoneyMovesOnce
<1>1. MoneyInv /\ OnceInv => LoanMoneyMovesOnce
  BY OnceMoves DEF MoneyInv
<1> QED BY <1>1, OnceInit, OnceNext, MoneyInvariant, PTL DEF Spec

=============================================================================
