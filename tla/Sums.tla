-------------------------------- MODULE Sums --------------------------------
(***************************************************************************)
(* Sums over finite sets and along sequences, as the community modules     *)
(* define them.  An induction is a least counterexample: the provers find  *)
(* the least element of a set, where they cannot instantiate a predicate.  *)
(***************************************************************************)
EXTENDS Integers, Sequences, FiniteSets, Functions, FiniteSetTheorems, TLAPS

-----------------------------------------------------------------------------
(* Least elements.                                                         *)

\* A set of subsets of a finite set has a least one.
LEMMA LeastSubset ==
  ASSUME NEW S, IsFiniteSet(S), NEW C, C \subseteq SUBSET S, C # {}
  PROVE  \E s \in C : \A t \in C : ~(t \subseteq s /\ t # s)
<1>1. C \subseteq FiniteSubsetsOf(S)
  BY FS_Subset DEF FiniteSubsetsOf
<1>2. IsWellFoundedOn(StrictSubsetOrdering(S), FiniteSubsetsOf(S))
  BY FS_StrictSubsetOrderingWellFounded
<1>3. PICK s \in C : \A t \in C : ~(<<t, s>> \in StrictSubsetOrdering(S))
  BY <1>1, <1>2, WFMin
<1> QED
  BY <1>3, Zenon DEF StrictSubsetOrdering

\* A set of natural numbers has a least one.
LEMMA LeastNumber ==
  ASSUME NEW K \in SUBSET Nat, K # {}
  PROVE  \E k \in K : \A j \in K : k <= j
<1>1. PICK m \in K : TRUE
  BY Zenon
<1> DEFINE upto == 0 .. m
           C == {s \in SUBSET upto : \E k \in K : s = 0 .. k}
<1>2. IsFiniteSet(upto)
  BY FS_Interval
<1>3. upto \in C
  OBVIOUS
<1>4. C \subseteq SUBSET upto /\ C # {}
  BY <1>3
<1>5. PICK s \in C : \A t \in C : ~(t \subseteq s /\ t # s)
  <2> HIDE DEF C, upto
  <2> QED
    BY <1>2, <1>4, LeastSubset
<1>6. PICK k \in K : s = 0 .. k
  OBVIOUS
<1>7. k <= m
  BY <1>6
<1> SUFFICES ASSUME NEW j \in K, j < k PROVE FALSE
  OBVIOUS
<1>8. 0 .. j \in C
  BY <1>7
<1>9. 0 .. j \subseteq s /\ k \in s /\ k \notin 0 .. j
  BY <1>6
<1> QED
  BY <1>5, <1>8, <1>9, Zenon

-----------------------------------------------------------------------------
(* Sums over finite sets.                                                  *)

chosen(s) == CHOOSE x \in s : TRUE

\* it is the function that the recursion of MapThenFoldSet defines.
Adds(f, S, it) ==
  it = [s \in SUBSET S |-> IF s = {} THEN 0 ELSE f[chosen(s)] + it[s \ {chosen(s)}]]

\* The sum is the value that recursion gives the whole set.
LEMMA SumUnfolds ==
  ASSUME NEW f, NEW S
  PROVE  SumFunctionOnSet(f, S) = (CHOOSE it : Adds(f, S, it))[S]
BY Zenon DEF SumFunctionOnSet, FoldFunctionOnSet, MapThenFoldSet, Adds, chosen

\* What a nonempty set leaves once its chosen element is taken out.
LEMMA Chosen ==
  ASSUME NEW s, s # {}
  PROVE  chosen(s) \in s /\ s \ {chosen(s)} \subseteq s /\ s \ {chosen(s)} # s
<1>1. chosen(s) \in s
  BY DEF chosen
<1> QED
  BY <1>1

\* The recursion gives a set the same value whatever set it is a subset of, and
\* the value depends on nothing but the function's values there.
LEMMA AddsAgree ==
  ASSUME NEW S, IsFiniteSet(S), NEW T \in SUBSET S, NEW f, NEW g, \A x \in T : f[x] = g[x],
         NEW i, Adds(f, S, i), NEW j, Adds(g, T, j)
  PROVE  i[T] = j[T]
<1> DEFINE C == {s \in SUBSET T : i[s] # j[s]}
<1> SUFFICES ASSUME C # {} PROVE FALSE
  OBVIOUS
<1>1. PICK s \in C : \A t \in C : ~(t \subseteq s /\ t # s)
  <2>1. IsFiniteSet(T) /\ C \subseteq SUBSET T
    BY FS_Subset
  <2> HIDE DEF C
  <2> QED
    BY <2>1, LeastSubset
<1>2. /\ i[s] = IF s = {} THEN 0 ELSE f[chosen(s)] + i[s \ {chosen(s)}]
      /\ j[s] = IF s = {} THEN 0 ELSE g[chosen(s)] + j[s \ {chosen(s)}]
  BY Zenon DEF Adds
<1>3. CASE s = {}
  BY <1>2, <1>3
<1>4. CASE s # {}
  <2> DEFINE t == s \ {chosen(s)}
  <2>1. chosen(s) \in s /\ t \subseteq s /\ t # s
    BY <1>4, Chosen
  <2>2. f[chosen(s)] = g[chosen(s)] /\ t \in SUBSET T
    BY <2>1
  <2>3. i[t] = j[t]
    BY <1>1, <2>1, <2>2
  <2> QED
    BY <1>2, <1>4, <2>2, <2>3
<1> QED
  BY <1>3, <1>4

\* The recursion defines a function on the subsets of a finite set.
LEMMA AddsExists ==
  ASSUME NEW S, IsFiniteSet(S), NEW f
  PROVE  \E it : Adds(f, S, it)
<1> DEFINE C == {s \in SUBSET S : ~\E it : Adds(f, s, it)}
<1> SUFFICES ASSUME C # {} PROVE FALSE
  OBVIOUS
<1>1. PICK s \in C : \A t \in C : ~(t \subseteq s /\ t # s)
  <2>1. C \subseteq SUBSET S
    OBVIOUS
  <2> HIDE DEF C
  <2> QED
    BY <2>1, LeastSubset
<1> DEFINE the(t) == CHOOSE it : Adds(f, t, it)
           it == [t \in SUBSET s |->
                    IF t = {} THEN 0 ELSE f[chosen(t)] + the(t \ {chosen(t)})[t \ {chosen(t)}]]
<1>2. ASSUME NEW t \in SUBSET s, t # s PROVE Adds(f, t, the(t)) /\ IsFiniteSet(t)
  <2>1. t \in SUBSET S
    OBVIOUS
  <2>2. \E i : Adds(f, t, i)
    BY <1>1, <1>2, <2>1
  <2> QED
    BY <2>1, <2>2, FS_Subset
<1>3. ASSUME NEW t \in SUBSET s, t # s PROVE it[t] = the(t)[t]
  <2>1. the(t)[t] = IF t = {} THEN 0 ELSE f[chosen(t)] + the(t)[t \ {chosen(t)}]
    <3>1. Adds(f, t, the(t))
      BY <1>2, <1>3
    <3> HIDE DEF the
    <3> QED
      BY <3>1, Zenon DEF Adds
  <2>2. ASSUME t # {} PROVE the(t)[t \ {chosen(t)}] = the(t \ {chosen(t)})[t \ {chosen(t)}]
    <3> DEFINE u == t \ {chosen(t)}
    <3>1. u \in SUBSET t /\ u \in SUBSET s /\ u # s
      BY <2>2, Chosen
    <3>2. Adds(f, t, the(t)) /\ Adds(f, u, the(u)) /\ IsFiniteSet(t)
      BY <1>2, <1>3, <3>1, Zenon
    <3> HIDE DEF u, the
    <3>3. the(t)[u] = the(u)[u]
      BY <3>1, <3>2, AddsAgree
    <3> QED
      BY <3>3 DEF u
  <2> QED
    BY <2>1, <2>2
<1>4. ASSUME NEW t \in SUBSET s, t # {} PROVE it[t] = f[chosen(t)] + it[t \ {chosen(t)}]
  <2>1. t \ {chosen(t)} \in SUBSET s /\ t \ {chosen(t)} # s
    BY <1>4, Chosen
  <2>2. it[t \ {chosen(t)}] = the(t \ {chosen(t)})[t \ {chosen(t)}]
    BY <1>3, <2>1, Zenon
  <2> QED
    BY <1>4, <2>2
<1>5. it[{}] = 0
  OBVIOUS
<1>6. it = [t \in SUBSET s |-> it[t]]
  OBVIOUS
<1> HIDE DEF it
<1>7. \A t \in SUBSET s : it[t] = IF t = {} THEN 0 ELSE f[chosen(t)] + it[t \ {chosen(t)}]
  BY <1>4, <1>5, Zenon
<1>8. Adds(f, s, it)
  BY <1>6, <1>7, Zenon DEF Adds
<1> QED
  BY <1>8

\* Nothing sums to 0.
LEMMA SumEmpty ==
  ASSUME NEW f
  PROVE  SumFunctionOnSet(f, {}) = 0
<1> DEFINE it == CHOOSE i : Adds(f, {}, i)
<1>1. Adds(f, {}, it)
  BY AddsExists, FS_EmptySet
<1>2. it[{}] = 0
  <2> HIDE DEF it
  <2> QED
    BY <1>1 DEF Adds
<1> QED
  BY <1>2, SumUnfolds

\* The sum depends on nothing but the function's values on the set.
LEMMA SumAgree ==
  ASSUME NEW S, IsFiniteSet(S), NEW f, NEW g, \A x \in S : f[x] = g[x]
  PROVE  SumFunctionOnSet(f, S) = SumFunctionOnSet(g, S)
<1> DEFINE i == CHOOSE it : Adds(f, S, it)
           j == CHOOSE it : Adds(g, S, it)
<1>1. Adds(f, S, i) /\ Adds(g, S, j)
  BY AddsExists
<1>2. SumFunctionOnSet(f, S) = i[S] /\ SumFunctionOnSet(g, S) = j[S]
  BY SumUnfolds
<1> HIDE DEF i, j
<1> QED
  BY <1>1, <1>2, AddsAgree

\* The element the recursion chooses can be taken out of a sum.
LEMMA SumChosen ==
  ASSUME NEW S, IsFiniteSet(S), S # {}, NEW f
  PROVE  SumFunctionOnSet(f, S) = f[chosen(S)] + SumFunctionOnSet(f, S \ {chosen(S)})
<1> DEFINE T == S \ {chosen(S)}
           i == CHOOSE it : Adds(f, S, it)
           j == CHOOSE it : Adds(f, T, it)
<1>1. IsFiniteSet(T) /\ T \in SUBSET S
  BY FS_Subset
<1>2. Adds(f, S, i) /\ Adds(f, T, j)
  BY <1>1, AddsExists
<1>3. SumFunctionOnSet(f, S) = i[S] /\ SumFunctionOnSet(f, T) = j[T]
  BY SumUnfolds
<1> HIDE DEF i, j
<1>4. i[S] = f[chosen(S)] + i[T]
  BY <1>2, Zenon DEF Adds
<1>5. i[T] = j[T]
  <2> HIDE DEF T
  <2> QED
    BY <1>1, <1>2, AddsAgree
<1> QED
  BY <1>3, <1>4, <1>5

\* A sum of integers is an integer.
LEMMA SumInt ==
  ASSUME NEW S, IsFiniteSet(S), NEW f, \A x \in S : f[x] \in Int
  PROVE  SumFunctionOnSet(f, S) \in Int
<1> DEFINE C == {s \in SUBSET S : SumFunctionOnSet(f, s) \notin Int}
<1> SUFFICES ASSUME C # {} PROVE FALSE
  OBVIOUS
<1>1. PICK s \in C : \A t \in C : ~(t \subseteq s /\ t # s)
  <2>1. C \subseteq SUBSET S
    OBVIOUS
  <2> HIDE DEF C
  <2> QED
    BY <2>1, LeastSubset
<1>2. s # {}
  BY SumEmpty
<1> DEFINE t == s \ {chosen(s)}
<1>3. chosen(s) \in s /\ t \subseteq s /\ t # s
  BY <1>2, Chosen
<1>4. SumFunctionOnSet(f, t) \in Int /\ f[chosen(s)] \in Int
  BY <1>1, <1>3
<1>5. SumFunctionOnSet(f, s) = f[chosen(s)] + SumFunctionOnSet(f, t)
  <2>1. IsFiniteSet(s)
    BY FS_Subset
  <2> QED
    BY <1>2, <2>1, SumChosen, Zenon
<1> QED
  BY <1>4, <1>5

\* Any element can be taken out of a sum.
LEMMA SumRemove ==
  ASSUME NEW S, IsFiniteSet(S), NEW x \in S, NEW f, \A y \in S : f[y] \in Int
  PROVE  SumFunctionOnSet(f, S) = f[x] + SumFunctionOnSet(f, S \ {x})
<1> DEFINE bad(s) == \E y \in s : SumFunctionOnSet(f, s) # f[y] + SumFunctionOnSet(f, s \ {y})
           C == {s \in SUBSET S : bad(s)}
<1> SUFFICES ASSUME C # {} PROVE FALSE
  BY Zenon
<1>1. PICK s \in C : \A t \in C : ~(t \subseteq s /\ t # s)
  <2>1. C \subseteq SUBSET S
    OBVIOUS
  <2> HIDE DEF C
  <2> QED
    BY <2>1, LeastSubset
<1>2. PICK y \in s : SumFunctionOnSet(f, s) # f[y] + SumFunctionOnSet(f, s \ {y})
  BY <1>1
<1> DEFINE c == chosen(s)
<1>3. c \in s /\ s \ {c} \subseteq s /\ s \ {c} # s /\ s \ {y} \subseteq s /\ s \ {y} # s
  BY <1>2, Chosen
<1>4. SumFunctionOnSet(f, s) = f[c] + SumFunctionOnSet(f, s \ {c})
  <2>1. IsFiniteSet(s)
    BY FS_Subset
  <2> QED
    BY <1>2, <2>1, SumChosen, Zenon
<1> HIDE DEF c
<1>5. c # y
  BY <1>2, <1>4
<1>6. ASSUME NEW t, t \subseteq s, t # s, NEW z \in t
      PROVE  SumFunctionOnSet(f, t) = f[z] + SumFunctionOnSet(f, t \ {z})
  <2>1. t \in SUBSET S /\ t \notin C
    BY <1>1, <1>6, Zenon
  <2> QED
    BY <2>1, Zenon
<1> DEFINE rest == (s \ {c}) \ {y}
<1>7. rest = (s \ {y}) \ {c} /\ IsFiniteSet(rest) /\ \A z \in rest : f[z] \in Int
  BY FS_Subset
<1>8. SumFunctionOnSet(f, s \ {c}) = f[y] + SumFunctionOnSet(f, rest)
  BY <1>3, <1>5, <1>6
<1>9. SumFunctionOnSet(f, s \ {y}) = f[c] + SumFunctionOnSet(f, rest)
  <2>1. SumFunctionOnSet(f, s \ {y}) = f[c] + SumFunctionOnSet(f, (s \ {y}) \ {c})
    BY <1>3, <1>5, <1>6
  <2> HIDE DEF rest
  <2> QED
    BY <1>7, <2>1, Zenon
<1> HIDE DEF rest
<1>10. f[c] \in Int /\ f[y] \in Int /\ SumFunctionOnSet(f, rest) \in Int
  BY <1>3, <1>7, SumInt
<1> QED
  BY <1>2, <1>4, <1>8, <1>9, <1>10

\* One more element.
LEMMA SumAdd ==
  ASSUME NEW S, IsFiniteSet(S), NEW x, x \notin S, NEW f, \A y \in S \cup {x} : f[y] \in Int
  PROVE  SumFunctionOnSet(f, S \cup {x}) = SumFunctionOnSet(f, S) + f[x]
<1> DEFINE more == S \cup {x}
<1>1. IsFiniteSet(more) /\ x \in more /\ more \ {x} = S /\ \A y \in more : f[y] \in Int
  BY FS_AddElement
<1>2. SumFunctionOnSet(f, S) \in Int /\ f[x] \in Int
  BY SumInt
<1> HIDE DEF more
<1>3. SumFunctionOnSet(f, more) = f[x] + SumFunctionOnSet(f, more \ {x})
  BY <1>1, SumRemove
<1>4. SumFunctionOnSet(f, more) = f[x] + SumFunctionOnSet(f, S)
  BY <1>1, <1>3, Zenon
<1>5. SumFunctionOnSet(f, more) = SumFunctionOnSet(f, S) + f[x]
  BY <1>2, <1>4
<1> QED
  BY <1>5 DEF more

\* The sum of part of a set of natural numbers is natural and at most that of all.
LEMMA SumPart ==
  ASSUME NEW S, IsFiniteSet(S), NEW T \in SUBSET S, NEW f, \A x \in S : f[x] \in Nat
  PROVE  /\ SumFunctionOnSet(f, T) \in Nat /\ SumFunctionOnSet(f, S) \in Nat
         /\ SumFunctionOnSet(f, T) <= SumFunctionOnSet(f, S)
<1> DEFINE bad(s) == ~(SumFunctionOnSet(f, s) \in Nat /\
                        \A t \in SUBSET s : SumFunctionOnSet(f, t) <= SumFunctionOnSet(f, s))
           C == {s \in SUBSET S : bad(s)}
<1>1. ASSUME C # {} PROVE FALSE
  <2>1. PICK s \in C : \A t \in C : ~(t \subseteq s /\ t # s)
    <3>1. C \subseteq SUBSET S
      OBVIOUS
    <3> HIDE DEF C
    <3> QED
      BY <1>1, <3>1, LeastSubset
  <2>2. IsFiniteSet(s) /\ \A x \in s : f[x] \in Nat
    BY FS_Subset
  <2>3. ASSUME NEW x \in s
        PROVE  /\ SumFunctionOnSet(f, s) = f[x] + SumFunctionOnSet(f, s \ {x})
               /\ SumFunctionOnSet(f, s \ {x}) \in Nat
               /\ \A t \in SUBSET (s \ {x}) : SumFunctionOnSet(f, t) <= SumFunctionOnSet(f, s \ {x})
    <3>1. SumFunctionOnSet(f, s) = f[x] + SumFunctionOnSet(f, s \ {x})
      BY <2>2, SumRemove
    <3>2. s \ {x} \in SUBSET S /\ s \ {x} \notin C
      BY <2>1
    <3> QED
      BY <3>1, <3>2, Zenon
  <2>4. SumFunctionOnSet(f, s) \in Nat
    <3>1. CASE s = {}
      BY <3>1, SumEmpty
    <3>2. CASE s # {}
      <4>1. PICK x \in s : f[x] \in Nat
        BY <2>2, <3>2
      <4>2. /\ SumFunctionOnSet(f, s) = f[x] + SumFunctionOnSet(f, s \ {x})
            /\ SumFunctionOnSet(f, s \ {x}) \in Nat
        BY <2>3, Zenon
      <4> QED
        BY <4>1, <4>2
    <3> QED
      BY <3>1, <3>2
  <2>5. ASSUME NEW t \in SUBSET s PROVE SumFunctionOnSet(f, t) <= SumFunctionOnSet(f, s)
    <3>1. CASE t = s
      BY <2>4, <3>1
    <3>2. CASE t # s
      <4>1. PICK x \in s : t \in SUBSET (s \ {x})
        BY <3>2
      <4>2. SumFunctionOnSet(f, t) <= SumFunctionOnSet(f, s \ {x}) /\ f[x] \in Nat
        BY <2>2, <2>3, <4>1, Zenon
      <4>3. IsFiniteSet(t) /\ \A y \in t : f[y] \in Int
        BY <2>2, FS_Subset
      <4>4. SumFunctionOnSet(f, t) \in Int
        BY <4>3, SumInt
      <4>5. /\ SumFunctionOnSet(f, s) = f[x] + SumFunctionOnSet(f, s \ {x})
            /\ SumFunctionOnSet(f, s \ {x}) \in Nat
        BY <2>3, Zenon
      <4> QED
        BY <4>2, <4>4, <4>5
    <3> QED
      BY <3>1, <3>2
  <2> QED
    BY <2>1, <2>4, <2>5
<1>2. ~bad(S) /\ ~bad(T)
  BY <1>1
<1> QED
  BY <1>2

-----------------------------------------------------------------------------
(* Sums along sequences.                                                   *)

\* A function without arguments sums to 0.
LEMMA SumOfNone ==
  ASSUME NEW f, DOMAIN f = {}
  PROVE  SumFunction(f) = 0
BY SumEmpty DEF SumFunction

\* A sum of natural numbers is a natural number.
LEMMA SumNat ==
  ASSUME NEW n \in Nat, NEW f \in [1 .. n -> Nat]
  PROVE  SumFunction(f) \in Nat
<1> DEFINE D == 1 .. n
<1>0. IsFiniteSet(D)
  BY FS_Interval
<1>1. DOMAIN f = D /\ \A i \in D : f[i] \in Nat
  OBVIOUS
<1> HIDE DEF D
<1> QED
  BY <1>0, <1>1, SumPart DEF SumFunction

\* Appending a number adds it to the sum.
LEMMA SumAppend ==
  ASSUME NEW n \in Nat, NEW f \in [1 .. n -> Int], NEW g \in [1 .. n + 1 -> Int],
         \A i \in 1 .. n : g[i] = f[i]
  PROVE  SumFunction(g) = SumFunction(f) + g[n + 1]
<1> DEFINE D == 1 .. n
           last == n + 1
<1>0. IsFiniteSet(D)
  BY FS_Interval
<1>1. /\ DOMAIN f = D /\ DOMAIN g = D \cup {last} /\ last \notin D
      /\ \A i \in D \cup {last} : g[i] \in Int
  OBVIOUS
<1>2. \A i \in D : f[i] = g[i]
  OBVIOUS
<1> HIDE DEF D, last
<1>3. SumFunctionOnSet(f, D) = SumFunctionOnSet(g, D)
  BY <1>0, <1>2, SumAgree
<1>4. SumFunctionOnSet(g, D \cup {last}) = SumFunctionOnSet(g, D) + g[last]
  BY <1>0, <1>1, SumAdd
<1>5. SumFunction(g) = SumFunction(f) + g[last]
  BY <1>1, <1>3, <1>4, Zenon DEF SumFunction
<1> QED
  BY <1>5 DEF last

\* The sum of the tail is the sum but for the head.
LEMMA SumTail ==
  ASSUME NEW n \in Nat, NEW f \in [1 .. n + 1 -> Int], NEW g \in [1 .. n -> Int],
         \A i \in 1 .. n : g[i] = f[i + 1]
  PROVE  SumFunction(f) = f[1] + SumFunction(g)
<1> DEFINE tail(k) == SumFunctionOnSet(f, 2 .. k + 1) = SumFunctionOnSet(g, 1 .. k)
           K == {k \in 0 .. n : ~tail(k)}
<1>1. ASSUME K # {} PROVE FALSE
  <2>1. PICK k \in K : \A j \in K : k <= j
    <3>1. K \subseteq Nat
      OBVIOUS
    <3> HIDE DEF K
    <3> QED
      BY <1>1, <3>1, LeastNumber
  <2>2. CASE k = 0
    <3>1. 2 .. k + 1 = {} /\ 1 .. k = {}
      BY <2>2
    <3>2. SumFunctionOnSet(f, 2 .. k + 1) = SumFunctionOnSet(g, 1 .. k)
      BY <3>1, SumEmpty, Zenon
    <3> QED
      BY <3>2
  <2>3. CASE k # 0
    <3>1. k \in 1 .. n /\ k - 1 \in 0 .. n
      BY <2>3
    <3>2. SumFunctionOnSet(f, 2 .. (k - 1) + 1) = SumFunctionOnSet(g, 1 .. k - 1)
      BY <2>1, <3>1
    <3> DEFINE P == 2 .. (k - 1) + 1
               Q == 1 .. k - 1
               last == k + 1
    <3>0. IsFiniteSet(P) /\ IsFiniteSet(Q)
      BY <3>1, FS_Interval
    <3>3. /\ last \notin P /\ \A i \in P \cup {last} : f[i] \in Int
          /\ k \notin Q /\ \A i \in Q \cup {k} : g[i] \in Int
      BY <3>1
    <3>4. 2 .. k + 1 = P \cup {last} /\ 1 .. k = Q \cup {k} /\ f[last] = g[k]
      BY <3>1
    <3> HIDE DEF P, Q, last
    <3>5. SumFunctionOnSet(f, P \cup {last}) = SumFunctionOnSet(f, P) + f[last]
      BY <3>0, <3>3, SumAdd, Zenon
    <3>6. SumFunctionOnSet(g, Q \cup {k}) = SumFunctionOnSet(g, Q) + g[k]
      BY <3>0, <3>3, SumAdd, Zenon
    <3>7. SumFunctionOnSet(f, P) = SumFunctionOnSet(g, Q)
      BY <3>2 DEF P, Q
    <3>8. tail(k)
      BY <3>4, <3>5, <3>6, <3>7, Zenon
    <3> QED
      BY <3>8
  <2> QED
    BY <2>2, <2>3
<1>2. tail(n)
  <2>1. n \in 0 .. n
    OBVIOUS
  <2>2. n \notin K
    <3> HIDE DEF K
    <3> QED
      BY <1>1
  <2> QED
    BY <2>1, <2>2, Zenon
<1> DEFINE D == 1 .. n + 1
<1>0. IsFiniteSet(D)
  BY FS_Interval
<1>3. /\ 1 \in D /\ D \ {1} = 2 .. n + 1 /\ \A i \in D : f[i] \in Int
      /\ DOMAIN f = D /\ DOMAIN g = 1 .. n
  OBVIOUS
<1> HIDE DEF D
<1>4. SumFunctionOnSet(f, D) = f[1] + SumFunctionOnSet(f, D \ {1})
  BY <1>0, <1>3, SumRemove
<1> QED
  BY <1>2, <1>3, <1>4, Zenon DEF SumFunction

\* The sum of a prefix is at most the sum.
LEMMA SumPrefix ==
  ASSUME NEW n \in Nat, NEW k \in 0 .. n, NEW f \in [1 .. n -> Nat], NEW g \in [1 .. k -> Nat],
         \A i \in 1 .. k : g[i] = f[i]
  PROVE  SumFunction(g) <= SumFunction(f)
<1> DEFINE D == 1 .. n
           P == 1 .. k
<1>0. IsFiniteSet(D) /\ IsFiniteSet(P)
  BY FS_Interval
<1>1. /\ P \in SUBSET D /\ DOMAIN f = D /\ DOMAIN g = P
      /\ \A i \in D : f[i] \in Nat
  OBVIOUS
<1>2. \A i \in P : g[i] = f[i]
  OBVIOUS
<1> HIDE DEF D, P
<1>3. SumFunctionOnSet(g, P) = SumFunctionOnSet(f, P)
  BY <1>0, <1>2, SumAgree
<1>4. SumFunctionOnSet(f, P) <= SumFunctionOnSet(f, D)
  BY <1>0, <1>1, SumPart
<1> QED
  BY <1>1, <1>3, <1>4, Zenon DEF SumFunction
=============================================================================
