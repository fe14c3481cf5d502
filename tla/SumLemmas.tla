------------------------------ MODULE SumLemmas ------------------------------
(***************************************************************************)
(* What a sum over the domain of a function is worth: the facts about      *)
(* FoldFunction(+, 0, f) that the proofs about accounts cite.  A sum is a  *)
(* fold over a finite set, so each rests on induction on the size of the   *)
(* set, in the form of SetInduction.                                       *)
(***************************************************************************)
EXTENDS Integers, Sequences, FiniteSets, FiniteSetsExt, Functions, FiniteSetTheorems, FunctionTheorems, TLAPS

-----------------------------------------------------------------------------
(***************************************************************************)
(* Induction.                                                              *)
(***************************************************************************)

\* A set of naturals that has 0 and the successor of each of its elements
\* has every natural.
LEMMA SetInduction ==
  ASSUME NEW S \in SUBSET Nat, 0 \in S, \A n \in S : n + 1 \in S
  PROVE  S = Nat
<1>1. SUFFICES ASSUME NEW n \in Nat, n \notin S PROVE FALSE
  OBVIOUS
<1> DEFINE T == (0 .. n) \ S
           f == [x \in T |-> x - 1]
<1>2. IsFiniteSet(T)
  <2>1. IsFiniteSet(0 .. n)
    BY FS_Interval
  <2>2. T \in SUBSET (0 .. n)
    OBVIOUS
  <2>. QED BY <2>1, <2>2, FS_Subset
<1>3. n \in T
  BY <1>1
<1>4. IsFiniteSet(T \ {n}) /\ Cardinality(T \ {n}) = Cardinality(T) - 1
  BY <1>2, <1>3, FS_RemoveElement
<1>5. f \in Injection(T, T \ {n})
  <2>1. ASSUME NEW x \in T PROVE x - 1 \in T \ {n}
    <3>1. x \in Int /\ x # 0 /\ 0 <= x /\ x <= n
      BY <2>1
    <3>2. x - 1 \in 0 .. n /\ x - 1 # n
      BY <3>1
    <3>3. (x - 1) + 1 = x
      BY <3>1
    <3>4. x - 1 \notin S
      BY <3>3, <2>1
    <3>. QED BY <3>2, <3>4
  <2>2. f \in [T -> T \ {n}]
    BY <2>1
  <2>3. \A a, b \in T : f[a] = f[b] => a = b
    OBVIOUS
  <2>. QED BY <2>2, <2>3 DEF Injection, IsInjective
<1>6. Cardinality(T) <= Cardinality(T \ {n})
  BY <1>4, <1>5, FS_Injection
<1>7. Cardinality(T) \in Nat
  BY <1>2, FS_CardinalityType
<1>. QED BY <1>4, <1>6, <1>7

\* A set of finite sets that has the empty set, and every subset of D that
\* is one element more than one of its members, has every subset of D.
LEMMA SubsetInduction ==
  ASSUME NEW D, IsFiniteSet(D), NEW Q \in SUBSET SUBSET D,
         \A t \in SUBSET D : (\A x \in t : t \ {x} \in Q) => t \in Q
  PROVE  Q = SUBSET D
<1> DEFINE N == {n \in Nat : \A t \in SUBSET D : Cardinality(t) = n => t \in Q}
<1>1. ASSUME NEW t \in SUBSET D
      PROVE  IsFiniteSet(t) /\ Cardinality(t) \in Nat
  BY FS_Subset, FS_CardinalityType
<1>2. 0 \in N
  <2>1. ASSUME NEW t \in SUBSET D, Cardinality(t) = 0 PROVE t \in Q
    <3>1. t = {}
      BY <1>1, <2>1, FS_EmptySet
    <3>. QED BY <3>1
  <2>. QED BY <2>1
<1>3. ASSUME NEW n \in N PROVE n + 1 \in N
  <2>1. ASSUME NEW t \in SUBSET D, Cardinality(t) = n + 1 PROVE t \in Q
    <3>1. ASSUME NEW x \in t PROVE t \ {x} \in Q
      <4>1. IsFiniteSet(t) /\ n \in Nat
        BY <1>1, <1>3
      <4>2. Cardinality(t \ {x}) = Cardinality(t) - 1
        BY <4>1, FS_RemoveElement
      <4>3. Cardinality(t \ {x}) = n
        BY <4>1, <4>2, <2>1
      <4>. QED BY <4>3, <1>3
    <3>. QED BY <3>1
  <2>. QED BY <2>1, <1>3
<1> HIDE DEF N
<1>4. N \in SUBSET Nat
  BY DEF N
<1>5. N = Nat
  BY <1>2, <1>3, <1>4, SetInduction
<1>. QED BY <1>1, <1>5 DEF N

\* A finite set of naturals that is not empty has its greatest.
LEMMA MaxOfNats ==
  ASSUME NEW S \in SUBSET Nat, IsFiniteSet(S), S # {}
  PROVE  Max(S) \in S
<1> DEFINE HasMax(t) == \E x \in t : \A y \in t : x >= y
           Q == {t \in SUBSET S : t = {} \/ HasMax(t)}
<1>1. ASSUME NEW t \in SUBSET S, \A x \in t : t \ {x} \in Q PROVE t \in Q
  <2>1. CASE t = {}
    BY <2>1
  <2>2. CASE t # {}
    <3>1. PICK x \in t : TRUE
      BY <2>2
    <3>2. CASE t \ {x} = {}
      <4>1. \A y \in t : x >= y
        BY <3>1, <3>2
      <4>. QED BY <3>1, <4>1
    <3>3. CASE t \ {x} # {}
      <4>1. PICK m \in t \ {x} : \A y \in t \ {x} : m >= y
        BY <1>1, <3>1, <3>3
      <4>2. m \in t /\ m \in Nat /\ x \in Nat
        BY <4>1, <3>1
      <4>3. CASE m >= x
        <5>1. \A y \in t : m >= y
          BY <4>1, <4>3
        <5>. QED BY <4>2, <5>1
      <4>4. CASE ~(m >= x)
        <5>1. \A y \in t : x >= y
          BY <4>1, <4>2, <4>4
        <5>. QED BY <3>1, <5>1
      <4>. QED BY <4>3, <4>4
    <3>. QED BY <3>2, <3>3
  <2>. QED BY <2>1, <2>2
<1>2. Q \in SUBSET SUBSET S
  OBVIOUS
<1> HIDE DEF Q
<1>3. Q = SUBSET S
  BY <1>1, <1>2, SubsetInduction
<1>4. S \in Q
  BY <1>3
<1>5. HasMax(S)
  BY <1>4 DEF Q
<1>. QED BY <1>5 DEF Max

-----------------------------------------------------------------------------
(***************************************************************************)
(* The table a fold over a set fills: the sum over each subset of the      *)
(* domain of f.                                                            *)
(***************************************************************************)

Pick(s) == CHOOSE x \in s : TRUE

Row(f, g, s) == IF s = {} THEN 0 ELSE f[Pick(s)] + g[s \ {Pick(s)}]

IsTable(f, g) == g = [s \in SUBSET DOMAIN f |-> Row(f, g, s)]

Table(f) == CHOOSE g : IsTable(f, g)

LEMMA SumIsTable == ASSUME NEW f PROVE SumFunction(f) = Table(f)[DOMAIN f]
BY DEF SumFunction, SumFunctionOnSet, FoldFunctionOnSet, MapThenFoldSet, Table, IsTable, Row, Pick

\* The fold is well defined: over a finite domain there is such a table.
LEMMA TableExists ==
  ASSUME NEW f, IsFiniteSet(DOMAIN f)
  PROVE  IsTable(f, Table(f))
<1> DEFINE D == DOMAIN f
           Small(n) == {s \in SUBSET D : Cardinality(s) <= n}
           Upto(n, g) == g = [s \in Small(n) |-> Row(f, g, s)]
           N == {n \in Nat : \E g : Upto(n, g)}
<1>1. ASSUME NEW s \in SUBSET D
      PROVE  /\ IsFiniteSet(s) /\ Cardinality(s) \in Nat
             /\ s # {} => /\ Pick(s) \in s
                          /\ s \ {Pick(s)} \in SUBSET D
                          /\ Cardinality(s \ {Pick(s)}) = Cardinality(s) - 1
  <2>1. IsFiniteSet(s) /\ Cardinality(s) \in Nat
    BY FS_Subset, FS_CardinalityType
  <2>2. ASSUME s # {} PROVE Pick(s) \in s
    BY <2>2 DEF Pick
  <2>3. ASSUME s # {} PROVE Cardinality(s \ {Pick(s)}) = Cardinality(s) - 1
    BY <2>1, <2>2, <2>3, FS_RemoveElement
  <2>. QED BY <2>1, <2>2, <2>3
<1>2. 0 \in N
  <2> DEFINE g == [s \in Small(0) |-> 0]
  <2>1. ASSUME NEW s \in Small(0) PROVE s = {}
    <3>1. s \in SUBSET D /\ Cardinality(s) <= 0
      OBVIOUS
    <3>2. IsFiniteSet(s) /\ Cardinality(s) = 0
      <4>1. IsFiniteSet(s) /\ Cardinality(s) \in Nat
        BY <1>1, <3>1
      <4>. QED BY <4>1, <3>1
    <3>. QED BY <3>2, FS_EmptySet
  <2>2. Upto(0, g)
    BY <2>1 DEF Row
  <2>. QED BY <2>2
<1>3. ASSUME NEW n \in N PROVE n + 1 \in N
  <2>1. n \in Nat
    OBVIOUS
  <2>2. PICK g : Upto(n, g)
    OBVIOUS
  <2> DEFINE h == [s \in Small(n + 1) |-> Row(f, g, s)]
  <2>3. ASSUME NEW s \in Small(n) PROVE s \in Small(n + 1) /\ h[s] = g[s]
    <3>1. s \in SUBSET D /\ Cardinality(s) <= n
      OBVIOUS
    <3>2. Cardinality(s) <= n + 1
      <4>1. Cardinality(s) \in Nat
        BY <1>1, <3>1
      <4>. QED BY <4>1, <2>1, <3>1
    <3>3. s \in Small(n + 1)
      BY <3>1, <3>2
    <3>. QED BY <3>3, <2>2
  <2>4. ASSUME NEW s \in Small(n + 1) PROVE Row(f, h, s) = Row(f, g, s)
    <3>1. CASE s = {}
      BY <3>1 DEF Row
    <3>2. CASE s # {}
      <4>1. s \ {Pick(s)} \in Small(n)
        BY <1>1, <2>1, <3>2
      <4>2. h[s \ {Pick(s)}] = g[s \ {Pick(s)}]
        BY <4>1, <2>3
      <4>. QED BY <4>2, <3>2 DEF Row
    <3>. QED BY <3>1, <3>2
  <2>5. Upto(n + 1, h)
    BY <2>4
  <2>6. \E q : Upto(n + 1, q)
    BY <2>5
  <2> HIDE DEF Upto
  <2>. QED BY <2>1, <2>6
<1>4. N = Nat
  <2>1. N \in SUBSET Nat
    OBVIOUS
  <2> HIDE DEF N
  <2>. QED BY <1>2, <1>3, <2>1, SetInduction
<1>5. Cardinality(D) \in N
  BY <1>4, FS_CardinalityType
<1>6. PICK g : Upto(Cardinality(D), g)
  BY <1>5
<1>7. Small(Cardinality(D)) = SUBSET D
  <2>1. ASSUME NEW s \in SUBSET D PROVE Cardinality(s) <= Cardinality(D)
    BY FS_Subset
  <2>. QED BY <2>1
<1>8. IsTable(f, g)
  BY <1>6, <1>7 DEF IsTable
<1>. QED BY <1>8 DEF Table

LEMMA TableRow ==
  ASSUME NEW f, IsFiniteSet(DOMAIN f), NEW s \in SUBSET DOMAIN f
  PROVE  Table(f)[s] = Row(f, Table(f), s)
<1> DEFINE T == Table(f)
<1>1. T = [t \in SUBSET DOMAIN f |-> Row(f, T, t)]
  BY TableExists DEF IsTable
<1> HIDE DEF T
<1>2. T[s] = Row(f, T, s)
  BY <1>1
<1>. QED BY <1>2 DEF T

\* A set that is not empty has the element its row takes.
LEMMA PickIsIn == ASSUME NEW s, s # {} PROVE Pick(s) \in s
BY DEF Pick

\* Two functions that agree on a set have the same sum over it.
LEMMA TableLocal ==
  ASSUME NEW f, NEW g, IsFiniteSet(DOMAIN f), IsFiniteSet(DOMAIN g),
         NEW D \in SUBSET (DOMAIN f \cap DOMAIN g), \A x \in D : f[x] = g[x]
  PROVE  Table(f)[D] = Table(g)[D]
<1> DEFINE Q == {s \in SUBSET D : Table(f)[s] = Table(g)[s]}
<1>1. IsFiniteSet(D)
  BY FS_Subset
<1>2. ASSUME NEW t \in SUBSET D, \A x \in t : t \ {x} \in Q PROVE t \in Q
  <2>1. Table(f)[t] = Row(f, Table(f), t) /\ Table(g)[t] = Row(g, Table(g), t)
    BY TableRow
  <2>2. CASE t = {}
    BY <2>1, <2>2 DEF Row
  <2>3. CASE t # {}
    <3>1. Pick(t) \in t
      BY <2>3, PickIsIn
    <3>2. f[Pick(t)] = g[Pick(t)]
      BY <3>1
    <3>3. Table(f)[t \ {Pick(t)}] = Table(g)[t \ {Pick(t)}]
      BY <1>2, <3>1
    <3>4. Row(f, Table(f), t) = Row(g, Table(g), t)
      BY <2>3, <3>2, <3>3 DEF Row
    <3>. QED BY <2>1, <3>4
  <2>. QED BY <2>2, <2>3
<1>3. Q = SUBSET D
  <2>1. Q \in SUBSET SUBSET D
    OBVIOUS
  <2> HIDE DEF Q
  <2>. QED BY <1>1, <1>2, <2>1, SubsetInduction
<1>. QED BY <1>3

\* Naturals add up to a natural.
LEMMA TableIsNat ==
  ASSUME NEW f, IsFiniteSet(DOMAIN f), \A x \in DOMAIN f : f[x] \in Nat,
         NEW s \in SUBSET DOMAIN f
  PROVE  Table(f)[s] \in Nat
<1> DEFINE Q == {t \in SUBSET DOMAIN f : Table(f)[t] \in Nat}
<1>1. ASSUME NEW t \in SUBSET DOMAIN f, \A x \in t : t \ {x} \in Q PROVE t \in Q
  <2>1. Table(f)[t] = Row(f, Table(f), t)
    BY TableRow
  <2>2. CASE t = {}
    BY <2>1, <2>2 DEF Row
  <2>3. CASE t # {}
    <3>1. Pick(t) \in t
      BY <2>3, PickIsIn
    <3>2. f[Pick(t)] \in Nat /\ Table(f)[t \ {Pick(t)}] \in Nat
      BY <1>1, <3>1
    <3>. QED BY <2>1, <2>3, <3>2 DEF Row
  <2>. QED BY <2>2, <2>3
<1>2. Q = SUBSET DOMAIN f
  <2>1. Q \in SUBSET SUBSET DOMAIN f
    OBVIOUS
  <2> HIDE DEF Q
  <2>. QED BY <1>1, <2>1, SubsetInduction
<1>. QED BY <1>2

\* Any element may be taken out first, not only the one the fold picks.
LEMMA TableSplit ==
  ASSUME NEW f, IsFiniteSet(DOMAIN f), \A x \in DOMAIN f : f[x] \in Nat,
         NEW s \in SUBSET DOMAIN f, NEW a \in s
  PROVE  Table(f)[s] = f[a] + Table(f)[s \ {a}]
<1> DEFINE T == Table(f)
           Q == {t \in SUBSET DOMAIN f : \A x \in t : T[t] = f[x] + T[t \ {x}]}
<1>1. ASSUME NEW t \in SUBSET DOMAIN f, t # {}
      PROVE  /\ Pick(t) \in t
             /\ T[t] = f[Pick(t)] + T[t \ {Pick(t)}]
  <2>1. T[t] = Row(f, T, t)
    BY TableRow
  <2>. QED BY <1>1, <2>1, PickIsIn DEF Row
<1>2. ASSUME NEW t \in SUBSET DOMAIN f PROVE T[t] \in Nat
  BY TableIsNat
<1> HIDE DEF T
<1>3. ASSUME NEW t \in SUBSET DOMAIN f, \A x \in t : t \ {x} \in Q PROVE t \in Q
  <2>1. ASSUME NEW x \in t PROVE T[t] = f[x] + T[t \ {x}]
    <3> DEFINE y == Pick(t)
    <3>1. y \in t /\ T[t] = f[y] + T[t \ {y}]
      BY <1>1
    <3> HIDE DEF y
    <3>2. CASE x = y
      BY <3>1, <3>2
    <3>3. CASE x # y
      <4>1. T[t \ {y}] = f[x] + T[(t \ {y}) \ {x}]
        BY <1>3, <3>1, <3>3
      <4>2. T[t \ {x}] = f[y] + T[(t \ {x}) \ {y}]
        BY <1>3, <3>1, <3>3
      <4>3. (t \ {y}) \ {x} = (t \ {x}) \ {y}
        OBVIOUS
      <4>4. f[x] \in Nat /\ f[y] \in Nat /\ T[(t \ {x}) \ {y}] \in Nat
        BY <1>2, <3>1
      <4> DEFINE r == T[(t \ {x}) \ {y}]
      <4>5. T[t] = f[y] + (f[x] + r) /\ T[t \ {x}] = f[y] + r
        BY <3>1, <4>1, <4>2, <4>3
      <4> HIDE DEF r
      <4>6. f[x] \in Nat /\ f[y] \in Nat /\ r \in Nat
        BY <4>4 DEF r
      <4>7. f[y] + (f[x] + r) = f[x] + (f[y] + r)
        BY <4>6
      <4>. QED BY <4>5, <4>7
    <3>. QED BY <3>2, <3>3
  <2>. QED BY <2>1
<1>4. Q = SUBSET DOMAIN f
  <2>1. Q \in SUBSET SUBSET DOMAIN f
    OBVIOUS
  <2> HIDE DEF Q
  <2>. QED BY <1>3, <2>1, SubsetInduction
<1>5. s \in Q
  BY <1>4
<1>. QED BY <1>5 DEF T

-----------------------------------------------------------------------------
(***************************************************************************)
(* What the proofs cite.                                                   *)
(***************************************************************************)

\* Nothing adds up to nothing.
LEMMA SumOfNothing == ASSUME NEW f, DOMAIN f = {} PROVE SumFunction(f) = 0
<1>1. IsFiniteSet(DOMAIN f)
  BY FS_EmptySet
<1>2. Table(f)[DOMAIN f] = Row(f, Table(f), DOMAIN f)
  BY <1>1, TableRow
<1>. QED BY <1>2, SumIsTable DEF Row

\* Zeros add up to zero.
LEMMA SumOfZeros ==
  ASSUME NEW f, IsFiniteSet(DOMAIN f), \A x \in DOMAIN f : f[x] = 0
  PROVE  SumFunction(f) = 0
<1> DEFINE Q == {s \in SUBSET DOMAIN f : Table(f)[s] = 0}
<1>1. ASSUME NEW s \in SUBSET DOMAIN f, \A x \in s : s \ {x} \in Q PROVE s \in Q
  <2>1. Table(f)[s] = Row(f, Table(f), s)
    BY TableRow
  <2>2. CASE s = {}
    BY <2>1, <2>2 DEF Row
  <2>3. CASE s # {}
    <3>1. Pick(s) \in s
      BY <2>3, PickIsIn
    <3>2. f[Pick(s)] = 0 /\ Table(f)[s \ {Pick(s)}] = 0
      BY <1>1, <3>1
    <3> QED BY <2>1, <2>3, <3>2 DEF Row
  <2> QED BY <2>2, <2>3
<1>2. Q = SUBSET DOMAIN f
  <2>1. Q \in SUBSET SUBSET DOMAIN f
    OBVIOUS
  <2> HIDE DEF Q
  <2> QED BY <1>1, <2>1, SubsetInduction
<1> QED BY <1>2, SumIsTable

\* Naturals over a finite set add up to a natural.
LEMMA SumIsNat ==
  ASSUME NEW f, IsFiniteSet(DOMAIN f), \A x \in DOMAIN f : f[x] \in Nat
  PROVE  SumFunction(f) \in Nat
BY TableIsNat, SumIsTable

\* The sum is one element of it and the sum of the rest.
LEMMA SumSplit ==
  ASSUME NEW f, IsFiniteSet(DOMAIN f), \A x \in DOMAIN f : f[x] \in Nat,
         NEW g, NEW a \in DOMAIN f, DOMAIN g = DOMAIN f \ {a},
         \A x \in DOMAIN g : g[x] = f[x]
  PROVE  SumFunction(f) = f[a] + SumFunction(g)
<1> DEFINE rest == DOMAIN f \ {a}
<1>1. Table(f)[DOMAIN f] = f[a] + Table(f)[rest]
  BY TableSplit
<1>2. Table(f)[rest] = Table(g)[rest]
  <2>1. IsFiniteSet(DOMAIN g) /\ rest \in SUBSET (DOMAIN f \cap DOMAIN g)
    BY FS_Subset
  <2>. QED BY <2>1, TableLocal
<1>. QED BY <1>1, <1>2, SumIsTable

\* One element changes.
LEMMA SumExcept ==
  ASSUME NEW f, IsFiniteSet(DOMAIN f), \A x \in DOMAIN f : f[x] \in Nat,
         NEW a \in DOMAIN f, NEW g, DOMAIN g = DOMAIN f, g[a] \in Nat,
         \A x \in DOMAIN f \ {a} : g[x] = f[x]
  PROVE  SumFunction(g) = SumFunction(f) + g[a] - f[a]
<1> DEFINE rest == [x \in DOMAIN f \ {a} |-> f[x]]
<1>1. DOMAIN rest = DOMAIN f \ {a} /\ \A x \in DOMAIN rest : rest[x] = f[x] /\ rest[x] = g[x]
  OBVIOUS
<1> HIDE DEF rest
<1>2. SumFunction(f) = f[a] + SumFunction(rest)
  BY <1>1, SumSplit
<1>3. \A x \in DOMAIN g : g[x] \in Nat
  OBVIOUS
<1>4. SumFunction(g) = g[a] + SumFunction(rest)
  BY <1>1, <1>3, SumSplit
<1>5. SumFunction(rest) \in Nat
  BY <1>1, FS_Subset, SumIsNat
<1> QED BY <1>2, <1>4, <1>5

-----------------------------------------------------------------------------
(***************************************************************************)
(* Sequences as functions.                                                 *)
(***************************************************************************)

Firsts(s, n) == [i \in 1 .. n |-> s[i]]
Drop(s, n, j) == [i \in 1 .. n - 1 |-> IF i < j THEN s[i] ELSE s[i + 1]]
Push(s, n, x) == [i \in 1 .. n + 1 |-> IF i = 1 THEN x ELSE s[i - 1]]

LEMMA SeqOfFunction ==
  ASSUME NEW S, NEW n \in Nat, NEW s \in [1 .. n -> S]
  PROVE  s \in Seq(S) /\ Len(s) = n /\ DOMAIN s = 1 .. n
OBVIOUS

\* A sequence is the function of its elements.
LEMMA SeqIs ==
  ASSUME NEW S, NEW p \in Seq(S), NEW n, n = Len(p)
  PROVE  p = [i \in 1 .. n |-> p[i]]
OBVIOUS

LEMMA PrefixIs ==
  ASSUME NEW S, NEW s \in Seq(S), NEW n \in 0 .. Len(s)
  PROVE  SubSeq(s, 1, n) = Firsts(s, n)
BY DEF Firsts

LEMMA PushIs ==
  ASSUME NEW S, NEW s \in Seq(S), NEW x
  PROVE  <<x>> \o s = Push(s, Len(s), x)
<1> DEFINE T == S \cup {x}
           p == <<x>> \o s
<1>1. <<x>> \in Seq(T) /\ s \in Seq(T) /\ Len(<<x>>) = 1 /\ <<x>>[1] = x
  OBVIOUS
<1>2. p \in Seq(T) /\ Len(p) = Len(s) + 1
  BY <1>1
<1>3. \A i \in 1 .. Len(s) + 1 : p[i] = IF i = 1 THEN x ELSE s[i - 1]
  BY <1>1
<1> HIDE DEF p, T
<1>4. p = [i \in 1 .. Len(s) + 1 |-> p[i]]
  BY <1>2, SeqIs
<1>5. p = Push(s, Len(s), x)
  BY <1>3, <1>4 DEF Push
<1>. QED BY <1>5 DEF p

LEMMA DropIs ==
  ASSUME NEW S, NEW s \in Seq(S), NEW j \in 1 .. Len(s)
  PROVE  SubSeq(s, 1, j - 1) \o SubSeq(s, j + 1, Len(s)) = Drop(s, Len(s), j)
<1> DEFINE a == SubSeq(s, 1, j - 1)
           b == SubSeq(s, j + 1, Len(s))
           p == a \o b
<1>1. a \in Seq(S) /\ Len(a) = j - 1 /\ \A i \in 1 .. j - 1 : a[i] = s[i]
  OBVIOUS
<1>2. b \in Seq(S) /\ Len(b) = Len(s) - j /\ \A i \in 1 .. Len(s) - j : b[i] = s[j + i]
  OBVIOUS
<1> HIDE DEF a, b
<1>3. p \in Seq(S) /\ Len(p) = Len(a) + Len(b)
  <2>1. a \in Seq(S) /\ b \in Seq(S)
    BY <1>1, <1>2
  <2>. QED BY <2>1
<1>4. ASSUME NEW i \in 1 .. Len(s) - 1 PROVE p[i] = IF i < j THEN s[i] ELSE s[i + 1]
  <2>1. CASE i < j
    BY <1>1, <1>2, <2>1
  <2>2. CASE ~(i < j)
    <3>1. p[i] = b[i - Len(a)]
      BY <1>1, <1>2, <2>2
    <3>2. i - Len(a) \in 1 .. Len(s) - j /\ j + (i - Len(a)) = i + 1
      BY <1>1, <2>2
    <3>. QED BY <1>2, <2>2, <3>1, <3>2
  <2>. QED BY <2>1, <2>2
<1> HIDE DEF p
<1>5. Len(p) = Len(s) - 1
  BY <1>1, <1>2, <1>3
<1>6. p = [i \in 1 .. Len(s) - 1 |-> p[i]]
  BY <1>3, <1>5, SeqIs
<1>7. p = Drop(s, Len(s), j)
  BY <1>4, <1>6 DEF Drop
<1>. QED BY <1>7 DEF a, b, p
=============================================================================
