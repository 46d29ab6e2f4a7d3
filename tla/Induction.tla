------------------------------ MODULE Induction ------------------------------
(***************************************************************************)
(* Induction on natural numbers and finite sets, stated with sets in place *)
(* of predicates, and what it gives for functions defined by recursion and *)
(* for sums over finite sets.                                              *)
(***************************************************************************)
EXTENDS Integers, FiniteSets, TLAPS, WellFoundedInduction, FiniteSetTheorems

(* A set that has 0, and with each number the next one, has them all: the  *)
(* least number it has not would be the next one of a number it has.       *)
LEMMA SetInduction ==
    ASSUME NEW S, 0 \in S, \A n \in Nat : n \in S => n + 1 \in S
    PROVE  \A n \in Nat : n \in S
<1> SUFFICES ASSUME Nat \ S # {} PROVE FALSE
  OBVIOUS
<1> DEFINE R == OpToRel(<, Nat)
<1>1. IsWellFoundedOn(R, Nat)
  BY NatLessThanWellFounded
<1>2. \A m, n \in Nat : m < n => <<m, n>> \in R
  BY DEF OpToRel
<1> HIDE DEF R
<1>3. PICK x \in Nat \ S : \A y \in Nat \ S : ~ (<<y, x>> \in R)
  BY <1>1, WFMin
<1>4. x # 0 /\ x - 1 \in Nat /\ x - 1 < x
  BY <1>3
<1>5. x - 1 \in S
  BY <1>2, <1>3, <1>4
<1> QED BY <1>3, <1>4, <1>5

(* The same up to a bound. *)
LEMMA BoundedInduction ==
    ASSUME NEW k \in Nat, NEW S, 0 \in S,
           \A n \in 0..(k - 1) : n \in S => n + 1 \in S
    PROVE  \A n \in 0..k : n \in S
<1> DEFINE T == {n \in Nat : n <= k => n \in S}
<1>1. 0 \in T
  OBVIOUS
<1>2. \A n \in Nat : n \in T => n + 1 \in T
  OBVIOUS
<1> HIDE DEF T
<1>3. \A n \in Nat : n \in T
  BY <1>1, <1>2, SetInduction
<1> QED BY <1>3 DEF T

(* Step i of an iteration is to apply F[i]: there is a function that has   *)
(* what every step leads to.  So a recursive definition of this form,      *)
(* which stands for some function that satisfies its equation, has one.    *)
LEMMA IterationExists ==
    ASSUME NEW D, NEW x \in D, NEW k \in Nat, NEW F \in [1..k -> [D -> D]]
    PROVE  \E f \in [0..k -> D] :
               f[0] = x /\ \A i \in 1..k : f[i] = F[i][f[i - 1]]
<1> DEFINE Upto(f, n) ==
               f[0] = x /\ \A i \in 1..n : f[i] = F[i][f[i - 1]]
           S == {n \in 0..k : \E f \in [0..n -> D] : Upto(f, n)}
<1>1. 0 \in S
  <2> DEFINE g == [i \in 0..0 |-> x]
  <2>1. g \in [0..0 -> D] /\ Upto(g, 0) /\ 0 \in 0..k
    OBVIOUS
  <2> HIDE DEF g, Upto
  <2> QED BY <2>1
<1>2. ASSUME NEW n \in 0..(k - 1), n \in S
      PROVE  n + 1 \in S
  <2>1. PICK f \in [0..n -> D] : Upto(f, n)
    BY <1>2
  <2> DEFINE y == F[n + 1][f[n]]
             g == [i \in 0..(n + 1) |-> IF i <= n THEN f[i] ELSE y]
  <2>2. n \in 0..n /\ n + 1 \in 1..k /\ n + 1 \in 0..k
    OBVIOUS
  <2>3. y \in D
    <3>1. f[n] \in D /\ F[n + 1] \in [D -> D]
      BY <2>2
    <3> QED BY <3>1
  <2> HIDE DEF y
  <2>4. g \in [0..(n + 1) -> D] /\ g[0] = x /\ g[n + 1] = y
        /\ \A i \in 0..n : g[i] = f[i]
    BY <2>1, <2>3
  <2> HIDE DEF g
  <2>5. ASSUME NEW i \in 1..(n + 1)
        PROVE  g[i] = F[i][g[i - 1]]
    <3>1. CASE i = n + 1
      <4>1. g[i - 1] = f[n]
        BY <2>2, <2>4, <3>1
      <4> QED BY <2>4, <3>1, <4>1 DEF y
    <3>2. CASE i # n + 1
      <4>1. i \in 1..n /\ i \in 0..n /\ i - 1 \in 0..n
        BY <3>2
      <4>2. f[i] = F[i][f[i - 1]]
        BY <2>1, <4>1
      <4> QED BY <2>4, <4>1, <4>2
    <3> QED BY <3>1, <3>2
  <2>6. Upto(g, n + 1)
    BY <2>4, <2>5
  <2> HIDE DEF Upto
  <2> QED BY <2>2, <2>4, <2>6
<1> HIDE DEF S
<1>3. \A n \in 0..(k - 1) : n \in S => n + 1 \in S
  BY <1>2
<1>4. \A n \in 0..k : n \in S
  BY <1>1, <1>3, BoundedInduction
<1>5. k \in S
  BY <1>4
<1> QED BY <1>5 DEF S

-----------------------------------------------------------------------------
(* Finite sets *)

(* What holds of the empty set, and of a set when it holds of the set      *)
(* without any one of its elements, holds of every finite set.             *)
LEMMA SubsetInduction ==
    ASSUME NEW S, IsFiniteSet(S), NEW Q, {} \in Q,
           \A s \in SUBSET S : s # {} /\ (\A x \in s : s \ {x} \in Q) => s \in Q
    PROVE  \A s \in SUBSET S : s \in Q
<1> DEFINE T == {n \in Nat : \A s \in SUBSET S : Cardinality(s) = n => s \in Q}
<1>1. \A s \in SUBSET S : IsFiniteSet(s) /\ Cardinality(s) \in Nat
  BY FS_Subset, FS_CardinalityType
<1>2. 0 \in T
  <2>1. \A s \in SUBSET S : Cardinality(s) = 0 => s = {}
    BY <1>1, FS_EmptySet
  <2> QED BY <2>1
<1>3. ASSUME NEW n \in Nat, n \in T
      PROVE  n + 1 \in T
  <2> SUFFICES ASSUME NEW s \in SUBSET S, Cardinality(s) = n + 1
               PROVE  s \in Q
    OBVIOUS
  <2>1. s # {}
    <3>1. Cardinality({}) = 0 /\ n + 1 # 0
      BY FS_EmptySet
    <3> QED BY <3>1
  <2>2. ASSUME NEW x \in s PROVE s \ {x} \in Q
    <3>1. Cardinality(s \ {x}) = n
      BY <1>1, FS_RemoveElement
    <3> QED BY <1>3, <3>1
  <2> QED BY <2>1, <2>2
<1>4. \A n \in Nat : n \in T => n + 1 \in T
  BY <1>3
<1> HIDE DEF T
<1>5. \A n \in Nat : n \in T
  BY <1>2, <1>4, SetInduction
<1> QED BY <1>1, <1>5 DEF T

(* The element that a sum over s takes first. *)
First(s) == CHOOSE x \in s : TRUE

(* f has the sums of g over the sets of elements of S. *)
IsSum(f, S, g) ==
    /\ IsFiniteSet(S) /\ g \in [S -> Nat]
    /\ f \in [SUBSET S -> Nat]
    /\ \A s \in SUBSET S :
          f[s] = IF s = {} THEN 0 ELSE g[First(s)] + f[s \ {First(s)}]

(* A set that has elements has a first one. *)
LEMMA FirstIn == \A s : s # {} => First(s) \in s
BY DEF First

(* The order in which a sum takes the elements is irrelevant. *)
LEMMA SumTakes ==
    ASSUME NEW S, NEW g, NEW f, IsSum(f, S, g)
    PROVE  \A s \in SUBSET S : \A x \in s : f[s] = g[x] + f[s \ {x}]
<1> DEFINE Q == {s \in SUBSET S : \A x \in s : f[s] = g[x] + f[s \ {x}]}
<1>1. {} \in Q
  OBVIOUS
<1>2. ASSUME NEW s \in SUBSET S, s # {}, \A x \in s : s \ {x} \in Q
      PROVE  s \in Q
  <2> SUFFICES ASSUME NEW x \in s PROVE f[s] = g[x] + f[s \ {x}]
    OBVIOUS
  <2> DEFINE y == First(s)
  <2>1. y \in s /\ f[s] = g[y] + f[s \ {y}]
    BY <1>2, FirstIn DEF IsSum
  <2> HIDE DEF y
  <2>2. CASE x = y
    BY <2>1, <2>2
  <2>3. CASE x # y
    <3>1. f[s \ {y}] = g[x] + f[(s \ {y}) \ {x}]
      BY <1>2, <2>1, <2>3
    <3>2. f[s \ {x}] = g[y] + f[(s \ {x}) \ {y}]
      BY <1>2, <2>1, <2>3
    <3>3. (s \ {y}) \ {x} = (s \ {x}) \ {y}
      OBVIOUS
    <3>4. g[x] \in Nat /\ g[y] \in Nat /\ f[(s \ {x}) \ {y}] \in Nat
      BY <2>1 DEF IsSum
    <3>5. \A a, b, c \in Nat : b + (a + c) = a + (b + c)
      OBVIOUS
    <3>6. f[s] = g[y] + (g[x] + f[(s \ {x}) \ {y}])
      BY <2>1, <3>1, <3>3
    <3>7. f[s] = g[x] + (g[y] + f[(s \ {x}) \ {y}])
      BY <3>4, <3>5, <3>6
    <3> QED BY <3>2, <3>7
  <2> QED BY <2>2, <2>3
<1>3. \A s \in SUBSET S : s # {} /\ (\A x \in s : s \ {x} \in Q) => s \in Q
  BY <1>2
<1> HIDE DEF Q
<1>4. \A s \in SUBSET S : s \in Q
  BY <1>1, <1>3, SubsetInduction DEF IsSum
<1> QED BY <1>4 DEF Q

(* The equation of a sum has at most one solution. *)
LEMMA SumUnique ==
    ASSUME NEW S, NEW g, NEW f, IsSum(f, S, g), NEW e,
           \A s \in SUBSET S :
               e[s] = IF s = {} THEN 0 ELSE g[First(s)] + e[s \ {First(s)}]
    PROVE  \A s \in SUBSET S : e[s] = f[s]
<1> DEFINE Q == {s \in SUBSET S : e[s] = f[s]}
<1>1. {} \in Q
  BY DEF IsSum
<1>2. ASSUME NEW s \in SUBSET S, s # {}, \A x \in s : s \ {x} \in Q
      PROVE  s \in Q
  <2>1. First(s) \in s
    BY <1>2, FirstIn
  <2>2. e[s \ {First(s)}] = f[s \ {First(s)}]
    BY <1>2, <2>1
  <2>3. e[s] = f[s]
    BY <1>2, <2>2 DEF IsSum
  <2> QED BY <2>3
<1>3. \A s \in SUBSET S : s # {} /\ (\A x \in s : s \ {x} \in Q) => s \in Q
  BY <1>2
<1> HIDE DEF Q
<1>4. \A s \in SUBSET S : s \in Q
  BY <1>1, <1>3, SubsetInduction DEF IsSum
<1> QED BY <1>4 DEF Q

(* Equal terms in another order: h takes the elements of S to different    *)
(* elements of T that have the same value.                                 *)
LEMMA SumMapped ==
    ASSUME NEW S, NEW g, NEW f, IsSum(f, S, g), NEW T, NEW k, NEW e, IsSum(e, T, k),
           NEW h \in [S -> T], \A x \in S : k[h[x]] = g[x],
           \A x, y \in S : h[x] = h[y] => x = y
    PROVE  \A s \in SUBSET S : f[s] = e[{h[x] : x \in s}]
<1> DEFINE Q == {s \in SUBSET S : f[s] = e[{h[x] : x \in s}]}
<1>0. ASSUME NEW s \in SUBSET T, NEW x \in s PROVE e[s] = k[x] + e[s \ {x}]
  BY SumTakes
<1>1. {} \in Q
  <2>1. {h[x] : x \in {}} = {}
    OBVIOUS
  <2> QED BY <2>1 DEF IsSum
<1>2. ASSUME NEW s \in SUBSET S, s # {}, \A x \in s : s \ {x} \in Q
      PROVE  s \in Q
  <2> DEFINE H(r) == {h[x] : x \in r}
  <2>1. PICK x \in s : TRUE
    BY <1>2
  <2>2. f[s] = g[x] + f[s \ {x}]
    BY SumTakes
  <2>3. H(s) \in SUBSET T /\ h[x] \in H(s)
    OBVIOUS
  <2>4. H(s) \ {h[x]} = H(s \ {x})
    OBVIOUS
  <2>5. e[H(s)] = k[h[x]] + e[H(s) \ {h[x]}]
    BY <1>0, <2>3
  <2>6. f[s \ {x}] = e[H(s \ {x})]
    BY <1>2
  <2>7. k[h[x]] = g[x]
    OBVIOUS
  <2> QED BY <2>2, <2>4, <2>5, <2>6, <2>7
<1>3. \A s \in SUBSET S : s # {} /\ (\A x \in s : s \ {x} \in Q) => s \in Q
  BY <1>2
<1> HIDE DEF Q
<1>4. \A s \in SUBSET S : s \in Q
  BY <1>1, <1>3, SubsetInduction DEF IsSum
<1> QED BY <1>4 DEF Q

(* There are sums: step i of an iteration gets those of i elements right.  *)
LEMMA SumExists ==
    ASSUME NEW S, IsFiniteSet(S), NEW g \in [S -> Nat]
    PROVE  \E f : IsSum(f, S, g)
<1> DEFINE k == Cardinality(S)
           D == [SUBSET S -> Nat]
           Add(f) == [s \in SUBSET S |->
                        IF s = {} THEN 0 ELSE g[First(s)] + f[s \ {First(s)}]]
           F == [i \in 1..k |-> [f \in D |-> Add(f)]]
           zero == [s \in SUBSET S |-> 0]
<1>1. k \in Nat
  BY FS_CardinalityType
<1>0. zero \in D
  OBVIOUS
<1>2. ASSUME NEW f \in D PROVE Add(f) \in D
  <2> SUFFICES ASSUME NEW s \in SUBSET S
               PROVE  (IF s = {} THEN 0 ELSE g[First(s)] + f[s \ {First(s)}]) \in Nat
    OBVIOUS
  <2>1. s # {} => First(s) \in S /\ s \ {First(s)} \in SUBSET S
    BY FirstIn
  <2> QED BY <2>1
<1>3. F \in [1..k -> [D -> D]]
  BY <1>2
<1>4. \A i \in 1..k, f \in D : F[i][f] = Add(f)
  OBVIOUS
<1> HIDE DEF k, F, zero, D, Add
<1>5. PICK e \in [0..k -> D] : e[0] = zero /\ \A i \in 1..k : e[i] = F[i][e[i - 1]]
  BY ONLY <1>1, <1>3, <1>0, IterationExists
<1>6. ASSUME NEW i \in 1..k
      PROVE  e[i] = Add(e[i - 1]) /\ i - 1 \in 0..k
  <2>1. i - 1 \in 0..k
    BY <1>1
  <2>2. e[i - 1] \in D
    BY <1>5, <2>1
  <2> QED BY <1>4, <1>5, <2>1, <2>2
<1>7. ASSUME NEW i \in 0..k PROVE e[i][{}] = 0
  <2>1. CASE i = 0
    BY <1>5, <2>1 DEF zero
  <2>2. CASE i # 0
    <3>1. i \in 1..k
      BY <1>1, <2>2
    <3> QED BY <1>6, <3>1 DEF Add
  <2> QED BY <2>1, <2>2
<1>8. \A i \in 1..k, s \in SUBSET S :
          s # {} => e[i][s] = g[First(s)] + e[i - 1][s \ {First(s)}]
  BY <1>6 DEF Add
<1> DEFINE Q == {s \in SUBSET S : \A i, j \in Cardinality(s)..k : e[i][s] = e[j][s]}
<1>9. {} \in Q
  BY <1>7, FS_EmptySet
<1>10. ASSUME NEW s \in SUBSET S, s # {}, \A x \in s : s \ {x} \in Q
       PROVE  s \in Q
  <2> DEFINE r == s \ {First(s)}
  <2>1. First(s) \in s /\ IsFiniteSet(s)
    BY <1>10, FirstIn, FS_Subset
  <2>2. Cardinality(s) \in Nat /\ Cardinality(r) \in Nat /\ Cardinality(r) = Cardinality(s) - 1
    BY <2>1, FS_RemoveElement, FS_CardinalityType
  <2>3. r \in Q
    BY <1>10, <2>1
  <2> HIDE DEF r
  <2>4. ASSUME NEW i \in Cardinality(s)..k, NEW j \in Cardinality(s)..k
        PROVE  e[i][s] = e[j][s]
    <3>1. i \in 1..k /\ j \in 1..k
          /\ i - 1 \in Cardinality(r)..k /\ j - 1 \in Cardinality(r)..k
      BY <1>1, <2>2
    <3>2. e[i - 1][r] = e[j - 1][r]
      BY <2>3, <3>1
    <3>3. e[i][s] = g[First(s)] + e[i - 1][r] /\ e[j][s] = g[First(s)] + e[j - 1][r]
      BY <1>8, <1>10, <3>1 DEF r
    <3> QED BY <3>2, <3>3
  <2> QED BY <2>4
<1>11. \A s \in SUBSET S : s # {} /\ (\A x \in s : s \ {x} \in Q) => s \in Q
  BY <1>10
<1> HIDE DEF Q
<1>12. \A s \in SUBSET S : s \in Q
  BY <1>9, <1>11, SubsetInduction
<1>13. e[k] \in [SUBSET S -> Nat]
  <2>1. k \in 0..k
    BY <1>1
  <2>2. e[k] \in D
    BY <1>5, <2>1
  <2> QED BY <2>2 DEF D
<1>14. ASSUME NEW s \in SUBSET S, s # {}
       PROVE  e[k][s] = g[First(s)] + e[k][s \ {First(s)}]
  <2> DEFINE r == s \ {First(s)}
  <2>1. First(s) \in s /\ IsFiniteSet(s) /\ Cardinality(s) <= k
    BY <1>14, FirstIn, FS_Subset DEF k
  <2>2. Cardinality(s) \in Nat /\ Cardinality(r) \in Nat /\ Cardinality(r) = Cardinality(s) - 1
    BY <2>1, FS_RemoveElement, FS_CardinalityType
  <2> HIDE DEF r
  <2>3. k \in 1..k /\ k \in Cardinality(r)..k /\ k - 1 \in Cardinality(r)..k
    BY <1>1, <2>1, <2>2
  <2>4. e[k - 1][r] = e[k][r]
    BY <1>12, <2>3 DEF Q, r
  <2> QED BY <1>8, <1>14, <2>3, <2>4 DEF r
<1>15. IsSum(e[k], S, g)
  <2>1. e[k][{}] = 0
    BY <1>1, <1>7
  <2>2. ASSUME NEW s \in SUBSET S
        PROVE  e[k][s] = IF s = {} THEN 0 ELSE g[First(s)] + e[k][s \ {First(s)}]
    BY <1>14, <2>1
  <2> QED BY <1>13, <2>2 DEF IsSum
<1> QED BY <1>15

-----------------------------------------------------------------------------
(* Orders *)

(* Numbers have a least one among them. *)
LEMMA LeastExists ==
    ASSUME NEW S, S \subseteq Nat, S # {}
    PROVE  \E m \in S : \A n \in S : m <= n
<1> DEFINE R == OpToRel(<, Nat)
<1>1. IsWellFoundedOn(R, Nat)
  BY NatLessThanWellFounded
<1>2. \A m, n \in Nat : m < n => <<m, n>> \in R
  BY DEF OpToRel
<1> HIDE DEF R
<1>3. PICK m \in S : \A n \in S : ~ (<<n, m>> \in R)
  BY <1>1, WFMin
<1>4. ASSUME NEW n \in S PROVE m <= n
  <2>1. m \in Nat /\ n \in Nat
    OBVIOUS
  <2>2. ~ (n < m)
    BY <1>2, <1>3, <2>1
  <2> QED BY <2>1, <2>2
<1> QED BY <1>4

(* R orders S: any two elements one way, and with transitivity. *)
Orders(R, S) ==
    /\ \A x, y \in S : x # y => <<x, y>> \in R \/ <<y, x>> \in R
    /\ \A x, y, z \in S : <<x, y>> \in R /\ <<y, z>> \in R => <<x, z>> \in R

(* s lists the elements of S in the order R. *)
Lists(s, S, R) ==
    /\ s \in [1..Cardinality(S) -> S]
    /\ \A x \in S : \E i \in 1..Cardinality(S) : s[i] = x
    /\ \A i, j \in 1..Cardinality(S) : i < j => <<s[i], s[j]>> \in R

(* One more element that comes after all of a list. *)
LEMMA ListsMore ==
    ASSUME NEW S, IsFiniteSet(S), NEW R, NEW m \in S, NEW s, Lists(s, S \ {m}, R),
           \A x \in S \ {m} : <<x, m>> \in R
    PROVE  \E t : Lists(t, S, R)
<1> DEFINE k == Cardinality(S \ {m})
           t == [i \in 1..(k + 1) |-> IF i = k + 1 THEN m ELSE s[i]]
<1>1. k \in Nat /\ Cardinality(S) = k + 1
  <2>1. IsFiniteSet(S \ {m}) /\ Cardinality(S \ {m}) = Cardinality(S) - 1
    BY FS_RemoveElement
  <2>2. Cardinality(S) \in Nat /\ Cardinality(S \ {m}) \in Nat
    BY <2>1, FS_CardinalityType
  <2> QED BY <2>1, <2>2
<1>2. /\ s \in [1..k -> S \ {m}]
      /\ \A x \in S \ {m} : \E i \in 1..k : s[i] = x
      /\ \A i, j \in 1..k : i < j => <<s[i], s[j]>> \in R
  BY DEF Lists
<1> HIDE DEF k
<1>3. /\ t \in [1..(k + 1) -> S] /\ t[k + 1] = m
      /\ \A i \in 1..k : t[i] = s[i]
  BY <1>1, <1>2
<1> HIDE DEF t
<1>4. ASSUME NEW x \in S PROVE \E i \in 1..(k + 1) : t[i] = x
  BY <1>1, <1>2, <1>3
<1>5. ASSUME NEW i \in 1..(k + 1), NEW j \in 1..(k + 1), i < j
      PROVE  <<t[i], t[j]>> \in R
  <2>1. i \in 1..k
    BY <1>1, <1>5
  <2>2. CASE j = k + 1
    <3>1. t[i] \in S \ {m} /\ t[j] = m
      BY <1>2, <1>3, <2>1, <2>2
    <3> QED BY <3>1
  <2>3. CASE j # k + 1
    <3>1. j \in 1..k
      BY <1>1, <2>3
    <3> QED BY <1>2, <1>3, <1>5, <2>1, <3>1
  <2> QED BY <2>2, <2>3
<1>6. Lists(t, S, R)
  BY <1>1, <1>3, <1>4, <1>5 DEF Lists
<1> QED BY <1>6

(* A finite set can be listed in any order of its elements: the last of    *)
(* the list is the last of a shorter list or the element left out of it.   *)
LEMMA ListExists ==
    ASSUME NEW S, IsFiniteSet(S), NEW R, Orders(R, S)
    PROVE  \E s : Lists(s, S, R)
<1> DEFINE Q == {T \in SUBSET S : \E s : Lists(s, T, R)}
<1>1. {} \in Q
  <2> DEFINE e == [i \in 1..0 |-> i]
  <2>1. Cardinality({}) = 0
    BY FS_EmptySet
  <2>2. e \in [1..0 -> {}]
    OBVIOUS
  <2>3. Lists(e, {}, R)
    BY <2>1, <2>2 DEF Lists
  <2> QED BY <2>3
<1>2. ASSUME NEW T \in SUBSET S, T # {}, \A x \in T : T \ {x} \in Q
      PROVE  T \in Q
  <2>1. IsFiniteSet(T)
    BY FS_Subset
  <2>2. PICK x \in T : TRUE
    BY <1>2
  <2>3. PICK s : Lists(s, T \ {x}, R)
    BY <1>2
  <2> DEFINE k == Cardinality(T \ {x})
  <2>4. k \in Nat
    BY <2>1, FS_Subset, FS_CardinalityType
  <2>5. \E m \in T : \A y \in T \ {m} : <<y, m>> \in R
    <3>1. /\ s \in [1..k -> T \ {x}]
          /\ \A y \in T \ {x} : \E i \in 1..k : s[i] = y
          /\ \A i, j \in 1..k : i < j => <<s[i], s[j]>> \in R
      BY <2>3 DEF Lists
    <3> HIDE DEF k
    <3>2. CASE k = 0
      <4>1. T \ {x} = {}
        BY <3>1, <3>2
      <4> QED BY <4>1
    <3>3. CASE k # 0
      <4> DEFINE l == s[k]
      <4>1. k \in 1..k /\ l \in T \ {x}
        BY <2>4, <3>1, <3>3
      <4> HIDE DEF l
      <4>2. ASSUME NEW y \in T \ {x}, y # l PROVE <<y, l>> \in R
        <5>1. PICK i \in 1..k : s[i] = y
          BY <3>1
        <5>2. i # k
          BY <4>2, <5>1 DEF l
        <5>3. i < k
          BY <2>4, <5>2
        <5> QED BY <3>1, <4>1, <5>1, <5>3 DEF l
      <4>3. CASE <<l, x>> \in R
        <5>1. ASSUME NEW y \in T \ {x} PROVE <<y, x>> \in R
          <6>1. CASE y = l
            BY <4>3, <6>1
          <6>2. CASE y # l
            <7>1. <<y, l>> \in R
              BY <4>2, <6>2
            <7> QED BY <4>1, <4>3, <7>1 DEF Orders
          <6> QED BY <6>1, <6>2
        <5> QED BY <5>1
      <4>4. CASE ~ (<<l, x>> \in R)
        <5>1. <<x, l>> \in R
          BY <4>1, <4>4 DEF Orders
        <5>2. \A y \in T \ {l} : <<y, l>> \in R
          BY <4>2, <5>1
        <5> QED BY <4>1, <5>2
      <4> QED BY <4>3, <4>4
    <3> QED BY <3>2, <3>3
  <2>6. PICK m \in T : \A y \in T \ {m} : <<y, m>> \in R
    BY <2>5
  <2>7. PICK r : Lists(r, T \ {m}, R)
    BY <1>2
  <2>8. \E t : Lists(t, T, R)
    BY <2>1, <2>6, <2>7, ListsMore
  <2> QED BY <2>8
<1>3. \A T \in SUBSET S : T # {} /\ (\A x \in T : T \ {x} \in Q) => T \in Q
  BY <1>2
<1> HIDE DEF Q
<1>4. \A T \in SUBSET S : T \in Q
  BY <1>1, <1>3, SubsetInduction
<1>5. S \in Q
  BY <1>4
<1> QED BY <1>5 DEF Q
=============================================================================
