------------------------------ MODULE SumFacts ------------------------------
(***************************************************************************)
(* Facts about SumFunctionOnSet (module Functions): the sum of a function  *)
(* over a finite set, by which balances and quantities are added up.  Each *)
(* is proved for every function and every finite set.  Induction takes the *)
(* form of a least counterexample: every non-empty set of naturals has a   *)
(* least element, and sets are measured by their cardinality.              *)
(***************************************************************************)
EXTENDS Integers, Sequences, Functions, FiniteSetTheorems, WellFoundedInduction, TLAPS

\* Every non-empty set of naturals has a least element.
LEMMA LeastNat ==
  ASSUME NEW B \in SUBSET Nat, B # {}
  PROVE  \E m \in B : \A k \in B : m <= k
<1> DEFINE R == OpToRel(<, Nat)
<1>1. IsWellFoundedOn(R, Nat)
  BY NatLessThanWellFounded
<1>2. \A x, y \in Nat : <<y, x>> \in R <=> y < x
  BY DEF OpToRel
<1> HIDE DEF R
<1>3. \E x \in B : \A y \in B : ~ (<<y, x>> \in R)
  BY <1>1, WFMin
<1>4. PICK x \in B : \A y \in B : ~ (<<y, x>> \in R)
  BY <1>3
<1>5. \A y \in B : ~(y < x)
  BY <1>2, <1>4
<1>6. \A y \in B : x <= y
  BY <1>5
<1> QED BY <1>6

-----------------------------------------------------------------------------
(* The recursion that a sum is defined by. *)

\* The element a fold takes out of a set.
FoldPick(s) == CHOOSE x \in s : TRUE

\* f sums g over every set of the family F.
FoldAdds(f, g, F) ==
    f = [s \in F |-> IF s = {} THEN 0 ELSE g[FoldPick(s)] + f[s \ {FoldPick(s)}]]

LEMMA SumIsAdds ==
  ASSUME NEW g, NEW S
  PROVE  SumFunctionOnSet(g, S) = (CHOOSE f : FoldAdds(f, g, SUBSET S))[S]
BY DEF SumFunctionOnSet, FoldFunctionOnSet, MapThenFoldSet, FoldAdds, FoldPick

LEMMA FirstIsIn == ASSUME NEW s, s # {} PROVE FoldPick(s) \in s
BY DEF FoldPick

\* The subsets of S with at most n elements.
SubsetsUpTo(S, n) == {s \in SUBSET S : Cardinality(s) <= n}

LEMMA AddsExists ==
  ASSUME NEW g, NEW S, IsFiniteSet(S)
  PROVE  \E f : FoldAdds(f, g, SUBSET S)
<1> DEFINE B == {n \in Nat : ~ \E f : FoldAdds(f, g, SubsetsUpTo(S, n))}
<1>c. \A s \in SUBSET S : IsFiniteSet(s) /\ Cardinality(s) \in Nat /\ Cardinality(s) <= Cardinality(S)
  BY FS_Subset, FS_CardinalityType
<1>1. B = {}
  <2> SUFFICES ASSUME B # {} PROVE FALSE
    OBVIOUS
  <2>1. PICK n \in B : \A k \in B : n <= k
    <3>1. B \in SUBSET Nat
      OBVIOUS
    <3> HIDE DEF B
    <3> QED BY <3>1, LeastNat
  <2>2. CASE n = 0
    <3> DEFINE f == [s \in SubsetsUpTo(S, 0) |-> 0]
    <3>1. \A s \in SubsetsUpTo(S, 0) : s = {}
      <4> TAKE s \in SubsetsUpTo(S, 0)
      <4>1. IsFiniteSet(s) /\ Cardinality(s) = 0
        BY <1>c DEF SubsetsUpTo
      <4> QED BY <4>1, FS_EmptySet
    <3>2. FoldAdds(f, g, SubsetsUpTo(S, 0))
      BY <3>1 DEF FoldAdds
    <3> HIDE DEF f
    <3> QED BY <2>2, <3>2
  <2>3. CASE n # 0
    <3>1. n - 1 \in Nat /\ n - 1 \notin B
      BY <2>1, <2>3
    <3>2. PICK f : FoldAdds(f, g, SubsetsUpTo(S, n - 1))
      BY <3>1
    <3> DEFINE h == [s \in SubsetsUpTo(S, n) |-> IF s = {} THEN 0 ELSE g[FoldPick(s)] + f[s \ {FoldPick(s)}]]
    <3>3. \A s \in SubsetsUpTo(S, n) : s # {} => s \ {FoldPick(s)} \in SubsetsUpTo(S, n - 1)
      <4> SUFFICES ASSUME NEW s \in SubsetsUpTo(S, n), s # {} PROVE s \ {FoldPick(s)} \in SubsetsUpTo(S, n - 1)
        OBVIOUS
      <4>1. IsFiniteSet(s) /\ Cardinality(s) \in Nat /\ Cardinality(s) <= n
        BY <1>c DEF SubsetsUpTo
      <4>2. Cardinality(s \ {FoldPick(s)}) = Cardinality(s) - 1
        BY <4>1, FirstIsIn, FS_RemoveElement
      <4> QED BY <4>1, <4>2 DEF SubsetsUpTo
    <3>4. SubsetsUpTo(S, n - 1) \subseteq SubsetsUpTo(S, n)
      BY <1>c, <2>1 DEF SubsetsUpTo
    <3>5. \A u \in SubsetsUpTo(S, n - 1) : h[u] = f[u]
      BY <3>2, <3>4 DEF FoldAdds
    <3>6. \A s \in SubsetsUpTo(S, n) : h[s] = IF s = {} THEN 0 ELSE g[FoldPick(s)] + h[s \ {FoldPick(s)}]
      BY <3>3, <3>5
    <3>7. FoldAdds(h, g, SubsetsUpTo(S, n))
      BY <3>6, Zenon DEF FoldAdds
    <3> HIDE DEF h
    <3> QED BY <2>1, <3>7
  <2> QED BY <2>2, <2>3
<1>2. Cardinality(S) \in Nat /\ SubsetsUpTo(S, Cardinality(S)) = SUBSET S
  BY <1>c, FS_CardinalityType DEF SubsetsUpTo
<1>3. \E f : FoldAdds(f, g, SubsetsUpTo(S, Cardinality(S)))
  BY <1>1, <1>2
<1> QED BY <1>2, <1>3

\* Two such functions agree wherever both are defined.
LEMMA AddsUnique ==
  ASSUME NEW g, NEW S, NEW T, NEW f, NEW h, IsFiniteSet(S),
         FoldAdds(f, g, SUBSET S), FoldAdds(h, g, SUBSET T), T \subseteq S
  PROVE  f[T] = h[T]
<1> DEFINE B == {n \in Nat : \E s \in SUBSET T : Cardinality(s) = n /\ f[s] # h[s]}
<1>c. \A s \in SUBSET T : IsFiniteSet(s) /\ Cardinality(s) \in Nat
  BY FS_Subset, FS_CardinalityType
<1>1. B = {}
  <2> SUFFICES ASSUME B # {} PROVE FALSE
    OBVIOUS
  <2>1. PICK n \in B : \A k \in B : n <= k
    <3>1. B \in SUBSET Nat
      OBVIOUS
    <3> HIDE DEF B
    <3> QED BY <3>1, LeastNat
  <2>2. PICK s \in SUBSET T : Cardinality(s) = n /\ f[s] # h[s]
    BY <2>1
  <2>3. /\ f[s] = IF s = {} THEN 0 ELSE g[FoldPick(s)] + f[s \ {FoldPick(s)}]
        /\ h[s] = IF s = {} THEN 0 ELSE g[FoldPick(s)] + h[s \ {FoldPick(s)}]
    BY DEF FoldAdds
  <2>4. s # {}
    BY <2>2, <2>3
  <2>5. Cardinality(s \ {FoldPick(s)}) = n - 1 /\ s \ {FoldPick(s)} \in SUBSET T
    BY <1>c, <2>2, <2>4, FirstIsIn, FS_RemoveElement
  <2>6. f[s \ {FoldPick(s)}] = h[s \ {FoldPick(s)}]
    <3>1. n - 1 \in Nat
      BY <1>c, <2>5
    <3> QED BY <2>1, <2>5, <3>1
  <2> QED BY <2>2, <2>3, <2>4, <2>6
<1> QED BY <1>1, <1>c

-----------------------------------------------------------------------------
(* Sums over finite sets. *)

LEMMA SumEmpty == ASSUME NEW g PROVE SumFunctionOnSet(g, {}) = 0
<1> DEFINE f == CHOOSE f : FoldAdds(f, g, SUBSET {})
<1>1. FoldAdds(f, g, SUBSET {})
  BY AddsExists, FS_EmptySet
<1>2. f[{}] = 0
  <2> HIDE DEF f
  <2> QED BY <1>1 DEF FoldAdds
<1> QED BY <1>2, SumIsAdds

LEMMA SumFirst ==
  ASSUME NEW g, NEW S, IsFiniteSet(S), S # {}
  PROVE  SumFunctionOnSet(g, S) = g[FoldPick(S)] + SumFunctionOnSet(g, S \ {FoldPick(S)})
<1> DEFINE T == S \ {FoldPick(S)}
           f == CHOOSE f : FoldAdds(f, g, SUBSET S)
           h == CHOOSE h : FoldAdds(h, g, SUBSET T)
<1>1. IsFiniteSet(T) /\ T \subseteq S /\ T # S
  BY FS_RemoveElement, FirstIsIn
<1>2. FoldAdds(f, g, SUBSET S) /\ FoldAdds(h, g, SUBSET T)
  BY <1>1, AddsExists
<1>3. SumFunctionOnSet(g, S) = f[S] /\ SumFunctionOnSet(g, T) = h[T]
  BY SumIsAdds
<1>6. T = S \ {FoldPick(S)}
  OBVIOUS
<1> HIDE DEF f, h, T
<1>4. f[T] = h[T]
  BY <1>1, <1>2, AddsUnique
<1>5. f[S] = g[FoldPick(S)] + f[T]
  BY <1>2, <1>6 DEF FoldAdds
<1> QED BY <1>3, <1>4, <1>5, <1>6

LEMMA SumInt ==
  ASSUME NEW g, NEW S, IsFiniteSet(S), \A x \in S : g[x] \in Int
  PROVE  SumFunctionOnSet(g, S) \in Int
<1> DEFINE B == {n \in Nat : \E s \in SUBSET S : Cardinality(s) = n /\ SumFunctionOnSet(g, s) \notin Int}
<1>c. \A s \in SUBSET S : IsFiniteSet(s) /\ Cardinality(s) \in Nat
  BY FS_Subset, FS_CardinalityType
<1>1. B = {}
  <2> SUFFICES ASSUME B # {} PROVE FALSE
    OBVIOUS
  <2>1. PICK n \in B : \A k \in B : n <= k
    <3>1. B \in SUBSET Nat
      OBVIOUS
    <3> HIDE DEF B
    <3> QED BY <3>1, LeastNat
  <2>2. PICK s \in SUBSET S : Cardinality(s) = n /\ SumFunctionOnSet(g, s) \notin Int
    BY <2>1
  <2>3. s # {}
    BY <2>2, SumEmpty
  <2>4. /\ FoldPick(s) \in S /\ s \ {FoldPick(s)} \in SUBSET S
        /\ Cardinality(s \ {FoldPick(s)}) = n - 1 /\ n - 1 \in Nat
    <3>1. FoldPick(s) \in s /\ IsFiniteSet(s)
      BY <1>c, <2>3, FirstIsIn
    <3>2. Cardinality(s \ {FoldPick(s)}) = n - 1
      BY <2>2, <3>1, FS_RemoveElement
    <3>3. s \ {FoldPick(s)} \in SUBSET S
      OBVIOUS
    <3> QED BY <1>c, <3>1, <3>2, <3>3
  <2>5. SumFunctionOnSet(g, s \ {FoldPick(s)}) \in Int
    BY <2>1, <2>4
  <2>6. SumFunctionOnSet(g, s) = g[FoldPick(s)] + SumFunctionOnSet(g, s \ {FoldPick(s)})
    BY <1>c, <2>3, SumFirst
  <2> QED BY <2>2, <2>4, <2>5, <2>6
<1>2. Cardinality(S) \in Nat /\ S \in SUBSET S
  BY <1>c
<1> QED BY <1>1, <1>2

\* Any element may be taken out first.
LEMMA SumRemove ==
  ASSUME NEW g, NEW S, IsFiniteSet(S), \A x \in S : g[x] \in Int, NEW a \in S
  PROVE  SumFunctionOnSet(g, S) = g[a] + SumFunctionOnSet(g, S \ {a})
<1> DEFINE Fails(s) == \E x \in s : SumFunctionOnSet(g, s) # g[x] + SumFunctionOnSet(g, s \ {x})
           B == {n \in Nat : \E s \in SUBSET S : Cardinality(s) = n /\ Fails(s)}
<1>c. \A s \in SUBSET S : IsFiniteSet(s) /\ Cardinality(s) \in Nat /\ SumFunctionOnSet(g, s) \in Int
  BY FS_Subset, FS_CardinalityType, SumInt
<1>1. B = {}
  <2> SUFFICES ASSUME B # {} PROVE FALSE
    OBVIOUS
  <2>1. PICK n \in B : \A k \in B : n <= k
    <3>1. B \in SUBSET Nat
      OBVIOUS
    <3> HIDE DEF B
    <3> QED BY <3>1, LeastNat
  <2>2. PICK s \in SUBSET S : Cardinality(s) = n /\ Fails(s)
    BY <2>1
  <2>3. PICK x \in s : SumFunctionOnSet(g, s) # g[x] + SumFunctionOnSet(g, s \ {x})
    BY <2>2
  <2> DEFINE c == FoldPick(s)
  <2>4. c \in s /\ SumFunctionOnSet(g, s) = g[c] + SumFunctionOnSet(g, s \ {c})
    BY <1>c, <2>3, FirstIsIn, SumFirst
  <2> HIDE DEF c
  <2>5. x # c
    BY <2>3, <2>4
  <2>6. /\ Cardinality(s \ {c}) = n - 1 /\ Cardinality(s \ {x}) = n - 1 /\ n - 1 \in Nat
        /\ s \ {c} \in SUBSET S /\ s \ {x} \in SUBSET S
    BY <1>c, <2>2, <2>4, FS_RemoveElement
  <2>7. ~Fails(s \ {c}) /\ ~Fails(s \ {x})
    <3>1. ASSUME NEW u \in SUBSET S, Cardinality(u) = n - 1
          PROVE  ~Fails(u)
      <4>1. n - 1 \notin B
        BY <2>1, <2>6
      <4> QED BY <2>6, <3>1, <4>1
    <3> QED BY <2>6, <3>1
  <2>8. /\ SumFunctionOnSet(g, s \ {c}) = g[x] + SumFunctionOnSet(g, (s \ {c}) \ {x})
        /\ SumFunctionOnSet(g, s \ {x}) = g[c] + SumFunctionOnSet(g, (s \ {x}) \ {c})
    BY <2>4, <2>5, <2>7
  <2>9. (s \ {c}) \ {x} = (s \ {x}) \ {c} /\ (s \ {x}) \ {c} \in SUBSET S
    OBVIOUS
  <2>10. /\ g[x] \in Int /\ g[c] \in Int
         /\ SumFunctionOnSet(g, (s \ {x}) \ {c}) \in Int
    BY <1>c, <2>4, <2>9
  <2> DEFINE rest == SumFunctionOnSet(g, (s \ {x}) \ {c})
  <2>11. SumFunctionOnSet(g, s) = g[c] + (g[x] + rest)
    BY <2>4, <2>8, <2>9
  <2>12. g[x] + SumFunctionOnSet(g, s \ {x}) = g[x] + (g[c] + rest)
    BY <2>8
  <2> HIDE DEF rest
  <2>13. g[c] + (g[x] + rest) = g[x] + (g[c] + rest)
    BY <2>10 DEF rest
  <2> QED BY <2>3, <2>11, <2>12, <2>13
<1>2. Cardinality(S) \in Nat /\ S \in SUBSET S
  BY <1>c
<1>3. ~Fails(S)
  BY <1>1, <1>2
<1> QED BY <1>3

LEMMA SumAdd ==
  ASSUME NEW g, NEW S, IsFiniteSet(S), NEW a, a \notin S, \A x \in S \cup {a} : g[x] \in Int
  PROVE  SumFunctionOnSet(g, S \cup {a}) = g[a] + SumFunctionOnSet(g, S)
<1>1. IsFiniteSet(S \cup {a}) /\ (S \cup {a}) \ {a} = S /\ a \in S \cup {a}
  BY FS_AddElement
<1>2. SumFunctionOnSet(g, S \cup {a}) = g[a] + SumFunctionOnSet(g, (S \cup {a}) \ {a})
  BY <1>1, SumRemove
<1> QED BY <1>1, <1>2

LEMMA TimesSum ==
  ASSUME NEW c \in Int, NEW m \in Int, NEW n \in Int
  PROVE  c * (m + n) = c * m + c * n /\ c * m \in Int /\ c * n \in Int
OBVIOUS

\* A multiple and what is added to it are summed apart.
LEMMA SumLinear ==
  ASSUME NEW c \in Int, NEW f, NEW g, NEW h, NEW S, IsFiniteSet(S),
         \A x \in S : f[x] \in Int /\ h[x] \in Int /\ g[x] = c * f[x] + h[x]
  PROVE  SumFunctionOnSet(g, S) = c * SumFunctionOnSet(f, S) + SumFunctionOnSet(h, S)
<1> DEFINE Fails(s) == SumFunctionOnSet(g, s) # c * SumFunctionOnSet(f, s) + SumFunctionOnSet(h, s)
           B == {n \in Nat : \E s \in SUBSET S : Cardinality(s) = n /\ Fails(s)}
<1>0. \A x \in S : g[x] \in Int
  BY TimesSum
<1>c. \A s \in SUBSET S : /\ IsFiniteSet(s) /\ Cardinality(s) \in Nat
                          /\ SumFunctionOnSet(f, s) \in Int /\ SumFunctionOnSet(h, s) \in Int
  BY FS_Subset, FS_CardinalityType, SumInt
<1>1. B = {}
  <2> SUFFICES ASSUME B # {} PROVE FALSE
    OBVIOUS
  <2>1. PICK n \in B : \A k \in B : n <= k
    <3>1. B \in SUBSET Nat
      OBVIOUS
    <3> HIDE DEF B
    <3> QED BY <3>1, LeastNat
  <2>2. PICK s \in SUBSET S : Cardinality(s) = n /\ Fails(s)
    BY <2>1
  <2>3. s # {}
    <3>1. c * 0 + 0 = 0
      OBVIOUS
    <3> QED BY <2>2, <3>1, SumEmpty
  <2> DEFINE a == FoldPick(s)
             rest == s \ {a}
  <2>4. /\ a \in s
        /\ SumFunctionOnSet(f, s) = f[a] + SumFunctionOnSet(f, rest)
        /\ SumFunctionOnSet(g, s) = g[a] + SumFunctionOnSet(g, rest)
        /\ SumFunctionOnSet(h, s) = h[a] + SumFunctionOnSet(h, rest)
    BY <1>c, <2>3, FirstIsIn, SumFirst
  <2> HIDE DEF a
  <2>5. Cardinality(rest) = n - 1 /\ n - 1 \in Nat /\ rest \in SUBSET S
    <3>1. IsFiniteSet(s) /\ Cardinality(s) = n /\ a \in s /\ s \in SUBSET S
      BY <1>c, <2>2, <2>4
    <3>2. IsFiniteSet(rest) /\ Cardinality(rest) = n - 1 /\ rest \in SUBSET S
      BY <3>1, FS_RemoveElement
    <3> QED BY <1>c, <3>2
  <2>6. SumFunctionOnSet(g, rest) = c * SumFunctionOnSet(f, rest) + SumFunctionOnSet(h, rest)
    BY <2>1, <2>5
  <2>7. /\ SumFunctionOnSet(f, rest) \in Int /\ SumFunctionOnSet(h, rest) \in Int
        /\ f[a] \in Int /\ h[a] \in Int /\ g[a] = c * f[a] + h[a]
    BY <1>c, <2>4, <2>5
  <2> HIDE DEF rest
  <2>8. /\ c * SumFunctionOnSet(f, s) = c * f[a] + c * SumFunctionOnSet(f, rest)
        /\ c * f[a] \in Int /\ c * SumFunctionOnSet(f, rest) \in Int
    BY <2>4, <2>7, TimesSum
  <2> QED BY <2>2, <2>4, <2>6, <2>7, <2>8
<1>2. Cardinality(S) \in Nat /\ S \in SUBSET S
  BY <1>c
<1> QED BY <1>1, <1>2

\* The sum of what is no less is no less.
LEMMA SumMonotone ==
  ASSUME NEW g, NEW h, NEW S, IsFiniteSet(S),
         \A x \in S : g[x] \in Int /\ h[x] \in Int /\ g[x] <= h[x]
  PROVE  SumFunctionOnSet(g, S) <= SumFunctionOnSet(h, S)
<1> DEFINE Fails(s) == ~ (SumFunctionOnSet(g, s) <= SumFunctionOnSet(h, s))
           B == {n \in Nat : \E s \in SUBSET S : Cardinality(s) = n /\ Fails(s)}
<1>c. \A s \in SUBSET S : /\ IsFiniteSet(s) /\ Cardinality(s) \in Nat
                          /\ SumFunctionOnSet(g, s) \in Int /\ SumFunctionOnSet(h, s) \in Int
  BY FS_Subset, FS_CardinalityType, SumInt
<1>1. B = {}
  <2> SUFFICES ASSUME B # {} PROVE FALSE
    OBVIOUS
  <2>1. PICK n \in B : \A k \in B : n <= k
    <3>1. B \in SUBSET Nat
      OBVIOUS
    <3> HIDE DEF B
    <3> QED BY <3>1, LeastNat
  <2>2. PICK s \in SUBSET S : Cardinality(s) = n /\ Fails(s)
    BY <2>1
  <2>3. s # {}
    BY <2>2, SumEmpty
  <2> DEFINE c == FoldPick(s)
  <2>4. /\ c \in s
        /\ SumFunctionOnSet(g, s) = g[c] + SumFunctionOnSet(g, s \ {c})
        /\ SumFunctionOnSet(h, s) = h[c] + SumFunctionOnSet(h, s \ {c})
    BY <1>c, <2>3, FirstIsIn, SumFirst
  <2> HIDE DEF c
  <2>5. Cardinality(s \ {c}) = n - 1 /\ n - 1 \in Nat /\ s \ {c} \in SUBSET S
    BY <1>c, <2>2, <2>4, FS_RemoveElement
  <2>6. ~Fails(s \ {c})
    BY <2>1, <2>5
  <2>7. /\ SumFunctionOnSet(g, s \ {c}) \in Int /\ SumFunctionOnSet(h, s \ {c}) \in Int
        /\ g[c] \in Int /\ h[c] \in Int /\ g[c] <= h[c]
    BY <1>c, <2>4, <2>5
  <2> QED BY <2>2, <2>4, <2>6, <2>7
<1>2. Cardinality(S) \in Nat /\ S \in SUBSET S
  BY <1>c
<1> QED BY <1>1, <1>2

\* Only what is summed counts.
LEMMA SumSame ==
  ASSUME NEW g, NEW h, NEW S, IsFiniteSet(S), \A x \in S : g[x] \in Int /\ h[x] = g[x]
  PROVE  SumFunctionOnSet(h, S) = SumFunctionOnSet(g, S)
<1>1. SumFunctionOnSet(g, S) <= SumFunctionOnSet(h, S) /\ SumFunctionOnSet(h, S) <= SumFunctionOnSet(g, S)
  <2>1. \A x \in S : g[x] <= h[x] /\ h[x] <= g[x] /\ h[x] \in Int
    OBVIOUS
  <2> QED BY <2>1, SumMonotone
<1>2. SumFunctionOnSet(g, S) \in Int /\ SumFunctionOnSet(h, S) \in Int
  BY SumInt
<1> QED BY <1>1, <1>2

\* One value changes.
LEMMA SumChange ==
  ASSUME NEW g, NEW h, NEW S, IsFiniteSet(S), NEW a \in S,
         \A x \in S : g[x] \in Int /\ h[x] \in Int,
         \A x \in S \ {a} : h[x] = g[x]
  PROVE  /\ SumFunctionOnSet(h, S) = SumFunctionOnSet(g, S) + h[a] - g[a]
         /\ SumFunctionOnSet(g, S) \in Int /\ SumFunctionOnSet(h, S) \in Int
<1> DEFINE T == S \ {a}
<1>1. IsFiniteSet(T)
  BY FS_RemoveElement
<1>2. SumFunctionOnSet(h, T) = SumFunctionOnSet(g, T)
  BY <1>1, SumSame
<1>3. /\ SumFunctionOnSet(g, S) = g[a] + SumFunctionOnSet(g, T)
      /\ SumFunctionOnSet(h, S) = h[a] + SumFunctionOnSet(h, T)
  BY SumRemove
<1>4. SumFunctionOnSet(g, T) \in Int /\ SumFunctionOnSet(g, S) \in Int /\ SumFunctionOnSet(h, S) \in Int
  BY <1>1, SumInt
<1> QED BY <1>2, <1>3, <1>4

LEMMA SumZero ==
  ASSUME NEW g, NEW S, IsFiniteSet(S), \A x \in S : g[x] = 0
  PROVE  SumFunctionOnSet(g, S) = 0
<1> DEFINE B == {n \in Nat : \E s \in SUBSET S : Cardinality(s) = n /\ SumFunctionOnSet(g, s) # 0}
<1>c. \A s \in SUBSET S : IsFiniteSet(s) /\ Cardinality(s) \in Nat
  BY FS_Subset, FS_CardinalityType
<1>1. B = {}
  <2> SUFFICES ASSUME B # {} PROVE FALSE
    OBVIOUS
  <2>1. PICK n \in B : \A k \in B : n <= k
    <3>1. B \in SUBSET Nat
      OBVIOUS
    <3> HIDE DEF B
    <3> QED BY <3>1, LeastNat
  <2>2. PICK s \in SUBSET S : Cardinality(s) = n /\ SumFunctionOnSet(g, s) # 0
    BY <2>1
  <2>3. s # {}
    BY <2>2, SumEmpty
  <2>4. /\ FoldPick(s) \in S /\ s \ {FoldPick(s)} \in SUBSET S
        /\ Cardinality(s \ {FoldPick(s)}) = n - 1 /\ n - 1 \in Nat
    <3>1. FoldPick(s) \in s /\ IsFiniteSet(s)
      BY <1>c, <2>3, FirstIsIn
    <3>2. Cardinality(s \ {FoldPick(s)}) = n - 1
      BY <2>2, <3>1, FS_RemoveElement
    <3>3. s \ {FoldPick(s)} \in SUBSET S
      OBVIOUS
    <3> QED BY <1>c, <3>1, <3>2, <3>3
  <2>5. SumFunctionOnSet(g, s \ {FoldPick(s)}) = 0
    BY <2>1, <2>4
  <2>6. SumFunctionOnSet(g, s) = g[FoldPick(s)] + SumFunctionOnSet(g, s \ {FoldPick(s)})
    BY <1>c, <2>3, SumFirst
  <2> QED BY <2>2, <2>4, <2>5, <2>6
<1>2. Cardinality(S) \in Nat /\ S \in SUBSET S
  BY <1>c
<1> QED BY <1>1, <1>2

\* A sum of natural numbers is one, and no smaller than any of them.
LEMMA SumNat ==
  ASSUME NEW g, NEW S, IsFiniteSet(S), \A x \in S : g[x] \in Nat
  PROVE  /\ SumFunctionOnSet(g, S) \in Nat
         /\ \A a \in S : g[a] <= SumFunctionOnSet(g, S)
<1> DEFINE zero == [x \in S |-> 0]
<1>1. ASSUME NEW T \in SUBSET S
      PROVE  SumFunctionOnSet(g, T) \in Nat
  <2>1. IsFiniteSet(T) /\ \A x \in T : g[x] \in Int
    BY FS_Subset
  <2>2. SumFunctionOnSet(zero, T) = 0
    <3>1. \A x \in T : zero[x] = 0
      OBVIOUS
    <3> HIDE DEF zero
    <3> QED BY <2>1, <3>1, SumZero
  <2>3. SumFunctionOnSet(zero, T) <= SumFunctionOnSet(g, T)
    <3>1. \A x \in T : zero[x] \in Int /\ g[x] \in Int /\ zero[x] <= g[x]
      OBVIOUS
    <3> HIDE DEF zero
    <3> QED BY <2>1, <3>1, SumMonotone
  <2>4. SumFunctionOnSet(g, T) \in Int
    BY <2>1, SumInt
  <2> QED BY <2>2, <2>3, <2>4
<1>2. ASSUME NEW a \in S
      PROVE  g[a] <= SumFunctionOnSet(g, S)
  <2>1. SumFunctionOnSet(g, S) = g[a] + SumFunctionOnSet(g, S \ {a})
    BY SumRemove
  <2>2. SumFunctionOnSet(g, S \ {a}) \in Nat
    BY <1>1
  <2> QED BY <2>1, <2>2
<1> QED BY <1>1, <1>2

\* What is summed may be renamed.
LEMMA SumImage ==
  ASSUME NEW g, NEW h, NEW f, NEW S, NEW T, IsFiniteSet(S),
         \A x \in S : f[x] \in T,
         \A y \in T : \E x \in S : y = f[x],
         \A x, y \in S : f[x] = f[y] => x = y,
         \A x \in S : g[f[x]] \in Int /\ h[x] = g[f[x]]
  PROVE  SumFunctionOnSet(g, T) = SumFunctionOnSet(h, S)
<1> DEFINE To(s) == {f[x] : x \in s}
           Fails(s) == SumFunctionOnSet(g, To(s)) # SumFunctionOnSet(h, s)
           B == {n \in Nat : \E s \in SUBSET S : Cardinality(s) = n /\ Fails(s)}
<1>c. \A s \in SUBSET S : IsFiniteSet(s) /\ Cardinality(s) \in Nat
  BY FS_Subset, FS_CardinalityType
<1>d. ASSUME NEW s \in SUBSET S PROVE IsFiniteSet(To(s))
  <2>1. [x \in s |-> f[x]] \in Surjection(s, To(s))
    BY DEF Surjection
  <2> QED BY <1>c, <2>1, FS_Surjection
<1>1. B = {}
  <2> SUFFICES ASSUME B # {} PROVE FALSE
    OBVIOUS
  <2>1. PICK n \in B : \A k \in B : n <= k
    <3>1. B \in SUBSET Nat
      OBVIOUS
    <3> HIDE DEF B
    <3> QED BY <3>1, LeastNat
  <2>2. PICK s \in SUBSET S : Cardinality(s) = n /\ Fails(s)
    BY <2>1
  <2>3. s # {}
    <3>1. To({}) = {}
      OBVIOUS
    <3> QED BY <2>2, <3>1, SumEmpty
  <2> DEFINE c == FoldPick(s)
             r == s \ {c}
  <2>4. c \in s /\ SumFunctionOnSet(h, s) = h[c] + SumFunctionOnSet(h, r)
    BY <1>c, <2>3, FirstIsIn, SumFirst
  <2> HIDE DEF c
  <2>5. Cardinality(r) = n - 1 /\ n - 1 \in Nat /\ r \in SUBSET S
    <3> HIDE DEF Fails
    <3> QED BY <1>c, <2>2, <2>4, FS_RemoveElement
  <2>6. ~Fails(r)
    <3> HIDE DEF Fails, r
    <3> QED BY <2>1, <2>5
  <2>7. To(s) = To(r) \cup {f[c]} /\ f[c] \notin To(r)
    BY <2>4
  <2>8. \A y \in To(r) \cup {f[c]} : g[y] \in Int
    BY <2>4
  <2>9. SumFunctionOnSet(g, To(r) \cup {f[c]}) = g[f[c]] + SumFunctionOnSet(g, To(r))
    <3>1. IsFiniteSet(To(r))
      BY <1>d, <2>5
    <3> HIDE DEF To, r
    <3> QED BY <2>7, <2>8, <3>1, SumAdd
  <2>10. h[c] = g[f[c]]
    BY <2>4
  <2> QED BY <2>2, <2>4, <2>6, <2>7, <2>9, <2>10
<1>2. Cardinality(S) \in Nat /\ S \in SUBSET S
  BY <1>c
<1>3. ~Fails(S)
  <2> HIDE DEF Fails
  <2> QED BY <1>1, <1>2
<1>4. To(S) = T
  OBVIOUS
<1> QED BY <1>3, <1>4

-----------------------------------------------------------------------------
(* Sums of sequences. *)

SumOfSeq(s) == SumFunctionOnSet(s, DOMAIN s)

LEMMA SumOfAppend ==
  ASSUME NEW s \in Seq(Int), NEW x \in Int
  PROVE  SumOfSeq(Append(s, x)) = SumOfSeq(s) + x /\ SumOfSeq(s) \in Int
<1> DEFINE n == Len(s)
           t == Append(s, x)
<1>1. /\ n \in Nat /\ DOMAIN s = 1..n /\ DOMAIN t = (1..n) \cup {n + 1} /\ n + 1 \notin 1..n
      /\ \A i \in 1..n : t[i] = s[i] /\ s[i] \in Int
      /\ t[n + 1] = x
  OBVIOUS
<1>2. IsFiniteSet(1..n)
  BY <1>1, FS_Interval
<1> HIDE DEF n, t
<1>3. SumFunctionOnSet(t, (1..n) \cup {n + 1}) = t[n + 1] + SumFunctionOnSet(t, 1..n)
  <2>1. \A i \in (1..n) \cup {n + 1} : t[i] \in Int
    BY <1>1
  <2> QED BY <1>1, <1>2, <2>1, SumAdd
<1>4. SumFunctionOnSet(t, 1..n) = SumFunctionOnSet(s, 1..n)
  BY <1>1, <1>2, SumSame
<1>5. SumFunctionOnSet(s, 1..n) \in Int
  BY <1>1, <1>2, SumInt
<1> QED BY <1>1, <1>3, <1>4, <1>5 DEF SumOfSeq, t

LEMMA SumOfTail ==
  ASSUME NEW s \in Seq(Int), s # << >>
  PROVE  SumOfSeq(s) = Head(s) + SumOfSeq(Tail(s)) /\ SumOfSeq(Tail(s)) \in Int
<1> DEFINE n == Len(s)
           t == Tail(s)
           f == [i \in 1..(n - 1) |-> i + 1]
<1>1. /\ n \in Nat \ {0} /\ DOMAIN s = 1..n /\ DOMAIN t = 1..(n - 1) /\ Head(s) = s[1]
      /\ \A i \in 1..n : s[i] \in Int
      /\ \A i \in 1..(n - 1) : t[i] = s[i + 1]
  OBVIOUS
<1>2. /\ \A i \in 1..(n - 1) : f[i] = i + 1 /\ f[i] \in 1..n
      /\ \A k \in (1..n) \ {1} : \E i \in 1..(n - 1) : k = f[i]
  <2>1. \A k \in (1..n) \ {1} : k - 1 \in 1..(n - 1) /\ f[k - 1] = k
    BY <1>1
  <2> QED BY <1>1, <2>1
<1>3. IsFiniteSet(1..n) /\ IsFiniteSet(1..(n - 1))
  BY <1>1, FS_Interval
<1> HIDE DEF t, f
<1> DEFINE K == 1..n
           I == 1..(n - 1)
           J == K \ {1}
<1>4. SumFunctionOnSet(s, J) = SumFunctionOnSet(t, I)
  <2>1. \A i \in I : f[i] \in J
    BY <1>1, <1>2
  <2>2. \A k \in J : \E i \in I : k = f[i]
    BY <1>2
  <2>3. \A i, j \in I : f[i] = f[j] => i = j
    BY <1>1, <1>2
  <2>4. \A i \in I : s[f[i]] \in Int /\ t[i] = s[f[i]]
    BY <1>1, <1>2
  <2>5. IsFiniteSet(I)
    BY <1>3
  <2> HIDE DEF n, I, J, K
  <2> QED BY <1>3, <2>1, <2>2, <2>3, <2>4, <2>5, SumImage
<1>5. SumFunctionOnSet(s, K) = s[1] + SumFunctionOnSet(s, J)
  <2>1. 1 \in K /\ \A i \in K : s[i] \in Int
    BY <1>1
  <2>2. IsFiniteSet(K)
    BY <1>3
  <2> HIDE DEF n, K
  <2> QED BY <2>1, <2>2, SumRemove
<1> HIDE DEF n, t, f
<1>6. SumFunctionOnSet(t, 1..(n - 1)) \in Int
  <2>1. \A i \in 1..(n - 1) : t[i] \in Int
    BY <1>1
  <2> QED BY <1>3, <2>1, SumInt
<1> QED BY <1>1, <1>2, <1>4, <1>5, <1>6 DEF SumOfSeq, t

\* A summand more, others unchanged.
LEMMA SumGrow ==
  ASSUME NEW g, NEW h, NEW S, IsFiniteSet(S), NEW a, a \notin S,
         \A x \in S \cup {a} : h[x] \in Int, \A x \in S : g[x] = h[x]
  PROVE  SumFunctionOnSet(h, S \cup {a}) = SumFunctionOnSet(g, S) + h[a]
<1>1. SumFunctionOnSet(h, S \cup {a}) = h[a] + SumFunctionOnSet(h, S)
  BY SumAdd
<1>2. SumFunctionOnSet(g, S) = SumFunctionOnSet(h, S)
  BY SumSame
<1>3. SumFunctionOnSet(h, S) \in Int
  BY SumInt
<1> QED BY <1>1, <1>2, <1>3

\* Leaving out summands that are not negative makes no sum larger.
LEMMA SumSubset ==
  ASSUME NEW g, NEW S, NEW T, IsFiniteSet(S), T \subseteq S, \A x \in S : g[x] \in Nat
  PROVE  SumFunctionOnSet(g, T) <= SumFunctionOnSet(g, S)
<1> DEFINE h == [x \in S |-> IF x \in T THEN g[x] ELSE 0]
<1> DEFINE Fails(s) == SumFunctionOnSet(g, T \cap s) > SumFunctionOnSet(g, s)
           B == {n \in Nat : \E s \in SUBSET S : Cardinality(s) = n /\ Fails(s)}
<1>c. \A s \in SUBSET S : /\ IsFiniteSet(s) /\ Cardinality(s) \in Nat
                          /\ SumFunctionOnSet(g, s) \in Int
  BY FS_Subset, FS_CardinalityType, SumInt
<1>1. B = {}
  <2> SUFFICES ASSUME B # {} PROVE FALSE
    OBVIOUS
  <2>1. PICK n \in B : \A k \in B : n <= k
    <3>1. B \in SUBSET Nat
      OBVIOUS
    <3> HIDE DEF B
    <3> QED BY <3>1, LeastNat
  <2>2. PICK s \in SUBSET S : Cardinality(s) = n /\ Fails(s)
    BY <2>1
  <2>3. s # {}
    <3>1. T \cap {} = {} /\ SumFunctionOnSet(g, {}) = 0
      BY SumEmpty
    <3> QED BY <2>2, <3>1
  <2>4. PICK c \in s : TRUE
    BY <2>3
  <2>5. PICK r : r = s \ {c}
    OBVIOUS
  <2>6. Cardinality(r) = n - 1 /\ n - 1 \in Nat /\ r \in SUBSET S
    <3> HIDE DEF Fails
    <3>1. r \in SUBSET S /\ Cardinality(s) \in Nat /\ IsFiniteSet(s) /\ Cardinality(r) \in Nat
      BY <1>c, <2>5
    <3>2. Cardinality(r) = Cardinality(s) - 1
      BY <2>4, <2>5, <3>1, FS_RemoveElement
    <3> QED BY <2>2, <3>1, <3>2
  <2>7. ~Fails(r)
    <3> HIDE DEF Fails
    <3> QED BY <2>1, <2>6
  <2>8. SumFunctionOnSet(g, s) = g[c] + SumFunctionOnSet(g, r)
    <3>1. \A x \in s : g[x] \in Int
      OBVIOUS
    <3> QED BY <1>c, <2>4, <2>5, <3>1, SumRemove
  <2>9. /\ SumFunctionOnSet(g, r) \in Int /\ SumFunctionOnSet(g, T \cap r) \in Int /\ g[c] \in Nat
        /\ SumFunctionOnSet(g, T \cap s) \in Int
    BY <1>c, <2>4, <2>6
  <2>10. CASE c \in T
    <3>1. T \cap r = (T \cap s) \ {c} /\ c \in T \cap s /\ IsFiniteSet(T \cap s)
      BY <1>c, <2>4, <2>5, <2>10
    <3>2. \A x \in T \cap s : g[x] \in Int
      OBVIOUS
    <3>3. SumFunctionOnSet(g, T \cap s) = g[c] + SumFunctionOnSet(g, T \cap r)
      BY <3>1, <3>2, SumRemove
    <3> QED BY <2>2, <2>7, <2>8, <2>9, <3>3
  <2>11. CASE c \notin T
    <3>1. T \cap r = T \cap s
      BY <2>5, <2>11
    <3>2. SumFunctionOnSet(g, T \cap r) = SumFunctionOnSet(g, T \cap s)
      BY <3>1
    <3>3. PICK i \in Int, j \in Int, k \in Int :
             i = SumFunctionOnSet(g, T \cap s) /\ j = SumFunctionOnSet(g, r) /\ k = SumFunctionOnSet(g, s)
      BY <1>c, <2>9
    <3>4. i > k /\ ~(i > j) /\ k >= j
      BY <2>2, <2>7, <2>8, <2>9, <3>2, <3>3
    <3> QED BY <3>4
  <2> QED BY <2>10, <2>11
<1>2. Cardinality(S) \in Nat /\ T \cap S = T
  BY FS_CardinalityType
<1>3. SumFunctionOnSet(g, T) \in Int /\ SumFunctionOnSet(g, S) \in Int
  BY <1>c
<1>4. ~Fails(S)
  <2> HIDE DEF Fails
  <2> QED BY <1>1, <1>2
<1>5. ~(SumFunctionOnSet(g, T) > SumFunctionOnSet(g, S))
  BY <1>2, <1>4
<1> QED BY <1>3, <1>5
=============================================================================
