------------------------------ MODULE Folding -------------------------------
(***************************************************************************)
(* Facts about the folds of the community modules that the proofs about    *)
(* the models need, for any operator: an operator is a parameter of this   *)
(* module, so that a proof takes the facts from an instance of it.         *)
(***************************************************************************)
EXTENDS Integers, SequencesExt, FiniteSetTheorems, SequenceTheorems, WellFoundedInduction, TLAPS

CONSTANT op(_, _)

-----------------------------------------------------------------------------
(* Induction, on sets of numbers.                                          *)

\* A set of natural numbers has a least element.
LEMMA Least ==
    ASSUME NEW T \in SUBSET Nat, T # {}
    PROVE  \E n \in T : \A m \in T : n <= m
<1> DEFINE R == OpToRel(<, Nat)
<1>1. PICK n \in T : \A m \in T : ~(<<m, n>> \in R)
  <2>1. IsWellFoundedOn(R, Nat)
    BY NatLessThanWellFounded
  <2> HIDE DEF R
  <2> QED BY <2>1, WFMin
<1>2. ASSUME NEW m \in T PROVE n <= m
  <2>1. m < n => <<m, n>> \in R
    BY DEF OpToRel
  <2>2. ~(m < n)
    <3> HIDE DEF R
    <3> QED BY <1>1, <2>1
  <2> QED BY <2>2
<1> QED BY <1>2

\* A set that holds 0 and with a number the next one holds all numbers.
LEMMA NatSet ==
    ASSUME NEW S, 0 \in S, \A n \in Nat : n \in S => n + 1 \in S
    PROVE  \A n \in Nat : n \in S
<1> SUFFICES ASSUME Nat \ S # {} PROVE FALSE
  OBVIOUS
<1>1. PICK n \in Nat \ S : \A m \in Nat \ S : n <= m
  BY Least
<1>2. n # 0 /\ n - 1 \in Nat
  OBVIOUS
<1>3. n - 1 \in Nat \ S
  BY <1>2
<1> QED BY <1>1, <1>3

-----------------------------------------------------------------------------
(* The function that a fold is the value of.                               *)

\* g gives the fold of f over every subset of S, taking elements out of a set
\* in the order of C.
Folds(base, g, S, C, f) ==
    g = [s \in SUBSET S |-> IF s = {} THEN base ELSE op(g[s \ {C[s]}], f[C[s]])]

Picks(C, S) == \A s \in SUBSET S : s # {} => C[s] \in s

\* There is such a function for a finite set.
LEMMA FoldsExist ==
    ASSUME NEW base, NEW S, IsFiniteSet(S), NEW C, Picks(C, S), NEW f
    PROVE  \E g : Folds(base, g, S, C, f)
<1> DEFINE Small(n) == {s \in SUBSET S : Cardinality(s) <= n}
           FoldsTo(g, n) ==
               g = [s \in Small(n) |-> IF s = {} THEN base ELSE op(g[s \ {C[s]}], f[C[s]])]
           Good == {n \in Nat : \E g : FoldsTo(g, n)}
<1>1. \A s \in SUBSET S : IsFiniteSet(s) /\ Cardinality(s) \in Nat
  BY FS_Subset, FS_CardinalityType
<1>2. \A s \in SUBSET S : Cardinality(s) = 0 <=> s = {}
  BY <1>1, FS_EmptySet
<1>3. 0 \in Good
  <2>1. FoldsTo([s \in Small(0) |-> base], 0)
    BY <1>1, <1>2
  <2> QED BY <2>1
<1>4. ASSUME NEW n \in Nat, n \in Good PROVE n + 1 \in Good
  <2>1. PICK g : FoldsTo(g, n)
    BY <1>4
  <2> DEFINE h == [s \in Small(n + 1) |-> IF s = {} THEN base ELSE op(g[s \ {C[s]}], f[C[s]])]
  <2>2. ASSUME NEW t \in Small(n) PROVE h[t] = g[t]
    <3>1. t \in Small(n + 1)
      BY <1>1
    <3>2. h[t] = IF t = {} THEN base ELSE op(g[t \ {C[t]}], f[C[t]])
      <4> HIDE DEF Small
      <4> QED BY <3>1
    <3>3. g[t] = IF t = {} THEN base ELSE op(g[t \ {C[t]}], f[C[t]])
      <4> HIDE DEF Small
      <4> QED BY <2>1
    <3> QED BY <3>2, <3>3
  <2>3. ASSUME NEW s \in Small(n + 1), s # {} PROVE s \ {C[s]} \in Small(n)
    <3>1. C[s] \in s
      BY <2>3 DEF Picks
    <3>2. Cardinality(s \ {C[s]}) = Cardinality(s) - 1
      BY <1>1, <3>1, FS_RemoveElement
    <3> QED BY <1>1, <3>2
  <2>4. h = [s \in Small(n + 1) |-> IF s = {} THEN base ELSE op(h[s \ {C[s]}], f[C[s]])]
    <3>1. \A s \in Small(n + 1) :
            (IF s = {} THEN base ELSE op(g[s \ {C[s]}], f[C[s]]))
              = (IF s = {} THEN base ELSE op(h[s \ {C[s]}], f[C[s]]))
      BY <2>2, <2>3
    <3> HIDE DEF Small
    <3> QED BY <3>1
  <2>5. FoldsTo(h, n + 1)
    BY <2>4
  <2> HIDE DEF h, FoldsTo
  <2> QED BY <2>5
<1>5. Cardinality(S) \in Good
  <2> HIDE DEF Good
  <2> QED BY <1>1, <1>3, <1>4, NatSet
<1>6. PICK g : FoldsTo(g, Cardinality(S))
  BY <1>5
<1>7. Small(Cardinality(S)) = SUBSET S
  BY FS_Subset
<1>8. Folds(base, g, S, C, f)
  <2> HIDE DEF Small
  <2> QED BY <1>6, <1>7 DEF Folds
<1> QED BY <1>8

\* Two such functions agree on the sets for which they are given the same
\* values in the same order.
LEMMA FoldsAgree ==
    ASSUME NEW base, NEW S, NEW C, NEW f, NEW g, Folds(base, g, S, C, f), Picks(C, S),
           NEW U, NEW D, NEW e, NEW h, Folds(base, h, U, D, e),
           NEW T, IsFiniteSet(T), T \subseteq S, T \subseteq U,
           \A s \in SUBSET T : s # {} => C[s] = D[s],
           \A x \in T : f[x] = e[x]
    PROVE  g[T] = h[T]
<1> DEFINE Good == {n \in Nat : \A s \in SUBSET T : Cardinality(s) = n => g[s] = h[s]}
<1>1. \A s \in SUBSET T : IsFiniteSet(s) /\ Cardinality(s) \in Nat
  BY FS_Subset, FS_CardinalityType
<1>2. \A s \in SUBSET T : Cardinality(s) = 0 <=> s = {}
  BY <1>1, FS_EmptySet
<1>3. \A s \in SUBSET T :
        /\ g[s] = IF s = {} THEN base ELSE op(g[s \ {C[s]}], f[C[s]])
        /\ h[s] = IF s = {} THEN base ELSE op(h[s \ {D[s]}], e[D[s]])
  BY DEF Folds
<1>4. 0 \in Good
  BY <1>2, <1>3
<1>5. ASSUME NEW n \in Nat, n \in Good PROVE n + 1 \in Good
  <2> SUFFICES ASSUME NEW s \in SUBSET T, Cardinality(s) = n + 1
               PROVE  g[s] = h[s]
    OBVIOUS
  <2>1. s # {} /\ C[s] \in s /\ C[s] = D[s]
    BY <1>1, <1>2 DEF Picks
  <2>2. Cardinality(s \ {C[s]}) = n
    <3>1. IsFiniteSet(s)
      BY <1>1
    <3>2. Cardinality(s \ {C[s]}) = Cardinality(s) - 1
      BY <2>1, <3>1, FS_RemoveElement
    <3> QED BY <3>2
  <2>3. s \ {C[s]} \in SUBSET T /\ C[s] \in T
    BY <2>1
  <2>4. g[s \ {C[s]}] = h[s \ {C[s]}]
    BY <1>5, <2>2, <2>3
  <2>5. f[C[s]] = e[C[s]]
    BY <2>3
  <2> QED BY <1>3, <2>1, <2>4, <2>5
<1>6. Cardinality(T) \in Good
  <2> HIDE DEF Good
  <2> QED BY <1>1, <1>4, <1>5, NatSet
<1> QED BY <1>6

\* The fold stays in Typ, and its order does not matter.
Closed(base, Typ, S, f) == base \in Typ /\ \A v \in Typ, x \in S : op(v, f[x]) \in Typ
Commutes(Typ, S, f) ==
    \A v \in Typ, x, y \in S : op(op(v, f[x]), f[y]) = op(op(v, f[y]), f[x])

FoldsFreely(base, Typ, g, S, C, f) ==
    /\ IsFiniteSet(S) /\ Picks(C, S) /\ Folds(base, g, S, C, f)
    /\ Closed(base, Typ, S, f) /\ Commutes(Typ, S, f)

\* When the order does not matter, any element can be the one taken out first.
LEMMA FoldsAnyOrder ==
    ASSUME NEW base, NEW Typ, NEW g, NEW S, NEW C, NEW f, FoldsFreely(base, Typ, g, S, C, f)
    PROVE  \A T \in SUBSET S : /\ g[T] \in Typ
                               /\ \A e \in T : g[T] = op(g[T \ {e}], f[e])
<1> DEFINE Right(T) == g[T] \in Typ /\ \A e \in T : g[T] = op(g[T \ {e}], f[e])
           Good == {n \in Nat : \A T \in SUBSET S : Cardinality(T) <= n => Right(T)}
<1>0. /\ IsFiniteSet(S) /\ Picks(C, S) /\ Folds(base, g, S, C, f)
      /\ Closed(base, Typ, S, f) /\ Commutes(Typ, S, f)
  BY DEF FoldsFreely
<1>1. \A s \in SUBSET S : IsFiniteSet(s) /\ Cardinality(s) \in Nat
  BY <1>0, FS_Subset, FS_CardinalityType
<1>2. \A s \in SUBSET S : Cardinality(s) = 0 <=> s = {}
  BY <1>1, FS_EmptySet
<1>3. \A s \in SUBSET S : g[s] = IF s = {} THEN base ELSE op(g[s \ {C[s]}], f[C[s]])
  BY <1>0 DEF Folds
<1>4. \A s \in SUBSET S, e \in S : e \in s => Cardinality(s \ {e}) = Cardinality(s) - 1
  BY <1>1, FS_RemoveElement
<1>5. 0 \in Good
  <2>1. ASSUME NEW T \in SUBSET S, Cardinality(T) <= 0 PROVE Right(T)
    <3>1. T = {}
      BY <1>1, <1>2, <2>1
    <3> QED BY <1>0, <1>3, <3>1 DEF Closed
  <2> QED BY <2>1
<1>6. ASSUME NEW n \in Nat, n \in Good PROVE n + 1 \in Good
  <2> SUFFICES ASSUME NEW T \in SUBSET S, Cardinality(T) <= n + 1 PROVE Right(T)
    OBVIOUS
  <2>1. ASSUME NEW U \in SUBSET S, NEW e \in U, Cardinality(U) <= n + 1
        PROVE  U \ {e} \in SUBSET S /\ Cardinality(U \ {e}) <= n /\ Right(U \ {e})
    <3>1. U \ {e} \in SUBSET S /\ e \in S
      OBVIOUS
    <3>2. Cardinality(U \ {e}) = Cardinality(U) - 1
      BY <1>4, <3>1
    <3>3. Cardinality(U \ {e}) <= n
      BY <1>1, <2>1, <3>2
    <3> HIDE DEF Right
    <3> QED BY <1>6, <3>1, <3>3
  <2>2. CASE T = {}
    BY <1>0, <1>3, <2>2 DEF Closed
  <2>3. CASE T # {}
    <3> DEFINE c == C[T]
    <3>1. c \in T /\ c \in S
      BY <1>0, <2>3 DEF Picks
    <3>2. g[T] = op(g[T \ {c}], f[c])
      BY <1>3, <2>3
    <3> HIDE DEF c
    <3>3. g[T \ {c}] \in Typ
      BY <2>1, <3>1
    <3>4. g[T] \in Typ
      BY <1>0, <3>1, <3>2, <3>3 DEF Closed
    <3>5. ASSUME NEW e \in T, e # c PROVE g[T] = op(g[T \ {e}], f[e])
      <4> DEFINE R == (T \ {c}) \ {e}
      <4>1. e \in T \ {c} /\ c \in T \ {e} /\ e \in S
        BY <3>1, <3>5
      <4>2. R = (T \ {e}) \ {c} /\ R = (T \ {c}) \ {e}
        OBVIOUS
      <4> HIDE DEF R
      <4>3. g[T \ {c}] = op(g[R], f[e])
        <5>1. Right(T \ {c})
          <6> HIDE DEF Right
          <6> QED BY <2>1, <3>1
        <5>2. \A d \in T \ {c} : g[T \ {c}] = op(g[(T \ {c}) \ {d}], f[d])
          BY <5>1
        <5> QED BY <4>1, <4>2, <5>2
      <4>4. g[T \ {e}] = op(g[R], f[c])
        <5>1. Right(T \ {e})
          <6> HIDE DEF Right
          <6> QED BY <2>1
        <5>2. \A d \in T \ {e} : g[T \ {e}] = op(g[(T \ {e}) \ {d}], f[d])
          BY <5>1
        <5> QED BY <4>1, <4>2, <5>2
      <4>5. g[R] \in Typ
        <5>1. T \ {c} \in SUBSET S /\ Cardinality(T \ {c}) <= n
          BY <2>1, <3>1
        <5>2. Cardinality(T \ {c}) <= n + 1
          BY <1>1, <5>1
        <5> QED BY <2>1, <4>1, <4>2, <5>1, <5>2
      <4> QED BY <1>0, <3>1, <3>2, <4>1, <4>3, <4>4, <4>5 DEF Commutes
    <3> QED BY <3>2, <3>4, <3>5
  <2> QED BY <2>2, <2>3
<1>7. ASSUME NEW T \in SUBSET S PROVE Right(T)
  <2>1. Cardinality(T) \in Good /\ Cardinality(T) \in Nat
    <3> HIDE DEF Good
    <3> QED BY <1>1, <1>5, <1>6, NatSet
  <2> QED BY <2>1
<1> QED BY <1>7

-----------------------------------------------------------------------------
(* Folding a sequence from left to right.                                  *)

Latest(S) == [s \in SUBSET S |-> Max(s)]

\* Max finds the latest of a set of positions.
LEMMA LatestPicks ==
    ASSUME NEW n \in Nat, NEW s \in SUBSET (1..n), s # {}
    PROVE  Max(s) \in s /\ \A x \in s : x <= Max(s)
<1> DEFINE T == {n - x : x \in s}
<1>0. \A x \in s : x \in Int /\ n - x \in Nat
  <2>1. ASSUME NEW x \in s PROVE x \in Int /\ n - x \in Nat
    <3>1. x \in 1..n
      OBVIOUS
    <3> QED BY <3>1
  <2> QED BY <2>1
<1>1. PICK m \in T : \A k \in T : m <= k
  <2>1. T \subseteq Nat
    BY <1>0
  <2>2. T # {}
    OBVIOUS
  <2> HIDE DEF T
  <2> QED BY <2>1, <2>2, Least
<1>2. PICK x \in s : m = n - x
  OBVIOUS
<1>3. ASSUME NEW y \in s PROVE x >= y
  <2>1. n - y \in T
    OBVIOUS
  <2>2. n - x <= n - y
    <3> HIDE DEF T
    <3> QED BY <1>1, <1>2, <2>1
  <2>3. x \in Int /\ y \in Int
    <3> HIDE DEF T
    <3> QED BY <1>0
  <2> HIDE DEF T
  <2> QED BY <2>2, <2>3
<1>4. Max(s) \in s /\ \A y \in s : Max(s) >= y
  BY <1>3 DEF Max
<1> QED BY <1>4

\* The fold of a sequence is that of its positions, the latest last.
LEMMA FoldLeftFolds ==
    ASSUME NEW base, NEW s, NEW n \in Nat, DOMAIN s = 1..n
    PROVE  \E g : Folds(base, g, 1..n, Latest(1..n), s) /\ FoldLeft(op, base, s) = g[1..n]
<1> DEFINE E(g) == [t \in SUBSET (1..n) |->
                      IF t = {} THEN base ELSE op(g[t \ {Max(t)}], s[Max(t)])]
           it == CHOOSE g : g = E(g)
<1>1. \A g : Folds(base, g, 1..n, Latest(1..n), s) <=> g = E(g)
  BY DEF Folds, Latest
<1>2. \E g : g = E(g)
  <2>1. Picks(Latest(1..n), 1..n) /\ IsFiniteSet(1..n)
    <3>1. \A t \in SUBSET (1..n) : t # {} => Max(t) \in t
      BY LatestPicks
    <3>2. Picks(Latest(1..n), 1..n)
      BY <3>1 DEF Picks, Latest
    <3>3. IsFiniteSet(1..n)
      BY FS_Interval
    <3> QED BY <3>2, <3>3
  <2>2. \E g : Folds(base, g, 1..n, Latest(1..n), s)
    BY <2>1, FoldsExist
  <2> QED BY <1>1, <2>2
<1>3. it = E(it)
  <2> HIDE DEF E
  <2> QED BY <1>2
<1>4. FoldLeft(op, base, s) = it[1..n]
  BY DEF FoldLeft, MapThenFoldSet
<1>5. Folds(base, it, 1..n, Latest(1..n), s)
  <2> HIDE DEF it
  <2> QED BY <1>1, <1>3
<1> QED BY <1>4, <1>5

\* The empty sequence folds to the base.
LEMMA FoldLeftEmpty == \A base : FoldLeft(op, base, <<>>) = base
<1> TAKE base
<1>1. DOMAIN <<>> = 1..0
  OBVIOUS
<1>2. PICK g : Folds(base, g, 1..0, Latest(1..0), <<>>) /\ FoldLeft(op, base, <<>>) = g[1..0]
  BY <1>1, FoldLeftFolds
<1>3. 1..0 = {}
  OBVIOUS
<1> QED BY <1>2, <1>3 DEF Folds

\* The positions up to a number and the next one.
LEMMA UpTo ==
    ASSUME NEW n \in Nat
    PROVE  /\ IsFiniteSet(1..n)
           /\ n + 1 \in 1..(n + 1)
           /\ (1..(n + 1)) \ {n + 1} = 1..n
           /\ 1..n \subseteq 1..(n + 1)
           /\ Max(1..(n + 1)) = n + 1
<1>1. IsFiniteSet(1..n)
  BY FS_Interval
<1>2. n + 1 \in 1..(n + 1) /\ n + 1 \in Nat
  OBVIOUS
<1>3. Max(1..(n + 1)) \in 1..(n + 1) /\ \A x \in 1..(n + 1) : x <= Max(1..(n + 1))
  <2> DEFINE T == 1..(n + 1)
  <2>1. T \in SUBSET (1..(n + 1)) /\ T # {}
    BY <1>2
  <2> HIDE DEF T
  <2>2. Max(T) \in T /\ \A x \in T : x <= Max(T)
    BY <1>2, <2>1, LatestPicks
  <2> QED BY <2>2 DEF T
<1>4. Max(1..(n + 1)) = n + 1
  BY <1>2, <1>3
<1> QED BY <1>1, <1>2, <1>4

\* t goes from the base to the fold of s, an element at a time.
Traces(base, t, s, n) == t[0] = base /\ \A i \in 1..n : t[i] = op(t[i - 1], s[i])

\* The values a fold goes through.
LEMMA FoldLeftTrace ==
    ASSUME NEW base, NEW s, NEW n \in Nat, DOMAIN s = 1..n
    PROVE  \E t : Traces(base, t, s, n) /\ FoldLeft(op, base, s) = t[n]
<1>1. PICK g : Folds(base, g, 1..n, Latest(1..n), s) /\ FoldLeft(op, base, s) = g[1..n]
  BY FoldLeftFolds
<1> DEFINE t == [i \in 0..n |-> g[1..i]]
<1>2. t[n] = g[1..n]
  OBVIOUS
<1>3. t[0] = base
  <2>1. 1..0 = {} /\ {} \in SUBSET (1..n) /\ t[0] = g[1..0]
    OBVIOUS
  <2> QED BY <1>1, <2>1 DEF Folds
<1>4. ASSUME NEW i \in 1..n PROVE t[i] = op(t[i - 1], s[i])
  <2>1. /\ i - 1 \in Nat /\ (i - 1) + 1 = i
        /\ 1..i \in SUBSET (1..n)
        /\ t[i] = g[1..i] /\ t[i - 1] = g[1..(i - 1)]
    OBVIOUS
  <2>2. i \in 1..i /\ Max(1..i) = i /\ (1..i) \ {i} = 1..(i - 1)
    <3>1. /\ (i - 1) + 1 \in 1..((i - 1) + 1)
          /\ Max(1..((i - 1) + 1)) = (i - 1) + 1
          /\ (1..((i - 1) + 1)) \ {(i - 1) + 1} = 1..(i - 1)
      BY ONLY <2>1, UpTo
    <3> QED BY ONLY <2>1, <3>1
  <2>3. g[1..i] = op(g[(1..i) \ {Max(1..i)}], s[Max(1..i)])
    BY ONLY <1>1, <2>1, <2>2 DEF Folds, Latest
  <2> QED BY ONLY <2>1, <2>2, <2>3
<1> HIDE DEF t
<1> QED BY <1>1, <1>2, <1>3, <1>4 DEF Traces

\* t is s, of length n, with one more element.
OneMore(s, t, n) ==
    /\ n \in Nat /\ DOMAIN s = 1..n /\ DOMAIN t = 1..(n + 1)
    /\ \A i \in 1..n : s[i] = t[i]

Folded(base, s) == FoldLeft(op, base, s)

\* The last element is folded last.
LEMMA FoldLeftLast ==
    ASSUME NEW base, NEW s, NEW t, NEW n, OneMore(s, t, n)
    PROVE  Folded(base, t) = op(Folded(base, s), t[n + 1])
<1>0. /\ n \in Nat /\ DOMAIN s = 1..n /\ DOMAIN t = 1..(n + 1)
      /\ \A i \in 1..n : s[i] = t[i]
  BY DEF OneMore
<1>1. PICK g : Folds(base, g, 1..n, Latest(1..n), s) /\ FoldLeft(op, base, s) = g[1..n]
  BY <1>0, FoldLeftFolds
<1>2. PICK h : /\ Folds(base, h, 1..(n + 1), Latest(1..(n + 1)), t)
               /\ FoldLeft(op, base, t) = h[1..(n + 1)]
  BY <1>0, FoldLeftFolds
<1>3. /\ n + 1 \in 1..(n + 1) /\ Max(1..(n + 1)) = n + 1
      /\ (1..(n + 1)) \ {n + 1} = 1..n
  BY <1>0, UpTo
<1>4. h[1..(n + 1)] = op(h[1..n], t[n + 1])
  <2>1. 1..(n + 1) # {}
    BY <1>3
  <2>2. h[1..(n + 1)] = op(h[(1..(n + 1)) \ {Max(1..(n + 1))}], t[Max(1..(n + 1))])
    BY <1>2, <2>1 DEF Folds, Latest
  <2> QED BY <1>3, <2>2
<1>5. g[1..n] = h[1..n]
  <2> DEFINE T == 1..n
             U == 1..(n + 1)
  <2>1. IsFiniteSet(T)
    BY <1>0, UpTo
  <2>2. T \subseteq U
    BY <1>0, UpTo
  <2>3. Picks(Latest(T), T)
    <3>1. \A r \in SUBSET T : r # {} => Max(r) \in r
      BY <1>0, LatestPicks
    <3> QED BY <3>1 DEF Picks, Latest
  <2>4. \A r \in SUBSET T : r # {} => Latest(T)[r] = Latest(U)[r]
    BY <2>2 DEF Latest
  <2>5. Folds(base, g, T, Latest(T), s) /\ Folds(base, h, U, Latest(U), t) /\ \A i \in T : s[i] = t[i]
    BY <1>0, <1>1, <1>2
  <2> HIDE DEF T, U
  <2>6. g[T] = h[T]
    BY <2>1, <2>2, <2>3, <2>4, <2>5, FoldsAgree
  <2> QED BY <2>6 DEF T
<1> QED BY <1>1, <1>2, <1>4, <1>5 DEF Folded

\* The same for an element appended to a sequence.
LEMMA FoldLeftAppend ==
    ASSUME NEW base, NEW S, NEW s \in Seq(S), NEW e \in S
    PROVE  Folded(base, Append(s, e)) = op(Folded(base, s), e)
<1>1. PICK n : n = Len(s)
  OBVIOUS
<1>2. PICK t : t = Append(s, e)
  OBVIOUS
<1>3. OneMore(s, t, n)
  <2>1. /\ n \in Nat /\ DOMAIN s = 1..n /\ DOMAIN t = 1..(n + 1)
        /\ \A i \in 1..n : s[i] = t[i]
    BY <1>1, <1>2
  <2> QED BY <2>1 DEF OneMore
<1>4. t[n + 1] = e
  BY <1>1, <1>2
<1>5. Folded(base, t) = op(Folded(base, s), t[n + 1])
  BY <1>3, FoldLeftLast
<1>6. op(Folded(base, s), t[n + 1]) = op(Folded(base, s), e)
  BY <1>4
<1>7. Folded(base, Append(s, e)) = Folded(base, t)
  BY <1>2
<1> QED BY <1>5, <1>6, <1>7
\* t is s, of length n + 1, without its first element.
OneLess(s, t, n) ==
    /\ n \in Nat /\ DOMAIN s = 1..(n + 1) /\ DOMAIN t = 1..n
    /\ \A i \in 1..n : t[i] = s[i + 1]

\* The first element is folded first.
LEMMA FoldLeftFirst ==
    ASSUME NEW base, NEW s, NEW t, NEW n, OneLess(s, t, n)
    PROVE  Folded(base, s) = Folded(op(base, s[1]), t)
<1>0. n \in Nat /\ n + 1 \in Nat /\ DOMAIN s = 1..(n + 1) /\ DOMAIN t = 1..n
  BY DEF OneLess
<1>1. PICK g : Traces(base, g, s, n + 1) /\ FoldLeft(op, base, s) = g[n + 1]
  BY <1>0, FoldLeftTrace
<1>2. PICK h : Traces(op(base, s[1]), h, t, n) /\ FoldLeft(op, op(base, s[1]), t) = h[n]
  BY <1>0, FoldLeftTrace
<1> DEFINE S == {i \in Nat : i \in 0..n => h[i] = g[i + 1]}
<1>3. 0 \in S
  <2>1. 1 \in 1..(n + 1) /\ 1 - 1 = 0 /\ 0 + 1 = 1
    BY <1>0
  <2>2. g[1] = op(base, s[1]) /\ h[0] = op(base, s[1])
    BY <1>1, <1>2, <2>1 DEF Traces
  <2> QED BY <2>1, <2>2
<1>4. ASSUME NEW i \in Nat, i \in S PROVE i + 1 \in S
  <2> SUFFICES ASSUME i + 1 \in 0..n PROVE h[i + 1] = g[(i + 1) + 1]
    OBVIOUS
  <2>1. /\ i + 1 \in 1..n /\ (i + 1) - 1 = i /\ i \in 0..n
        /\ (i + 1) + 1 \in 1..(n + 1) /\ ((i + 1) + 1) - 1 = i + 1
    BY <1>0
  <2>2. h[i + 1] = op(h[i], t[i + 1])
    BY <1>2, <2>1 DEF Traces
  <2>3. g[(i + 1) + 1] = op(g[i + 1], s[(i + 1) + 1])
    BY <1>1, <2>1 DEF Traces
  <2>4. h[i] = g[i + 1] /\ t[i + 1] = s[(i + 1) + 1]
    BY <1>4, <2>1 DEF OneLess
  <2> QED BY <2>2, <2>3, <2>4
<1> HIDE DEF S
<1>5. n \in S
  BY <1>0, <1>3, <1>4, NatSet
<1>6. h[n] = g[n + 1]
  BY <1>0, <1>5 DEF S
<1> QED BY <1>1, <1>2, <1>6 DEF Folded

\* The same for the head and the tail of a sequence.
LEMMA FoldLeftHead ==
    ASSUME NEW base, NEW S, NEW s \in Seq(S), s # <<>>
    PROVE  Folded(base, s) = Folded(op(base, Head(s)), Tail(s))
<1>1. PICK n : n = Len(s) - 1
  OBVIOUS
<1>2. PICK t : t = Tail(s)
  OBVIOUS
<1>3. OneLess(s, t, n)
  <2>1. /\ n \in Nat /\ DOMAIN s = 1..(n + 1) /\ DOMAIN t = 1..n
        /\ \A i \in 1..n : t[i] = s[i + 1]
    BY <1>1, <1>2
  <2> QED BY <2>1 DEF OneLess
<1>4. Folded(base, s) = Folded(op(base, s[1]), t)
  BY <1>3, FoldLeftFirst
<1>5. s[1] = Head(s)
  OBVIOUS
<1> QED BY <1>2, <1>4, <1>5
=============================================================================
