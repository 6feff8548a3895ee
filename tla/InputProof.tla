----------------------------- MODULE InputProof -----------------------------
(***************************************************************************)
(* Proofs about how data gets into the system and from job to job: size    *)
(* triggers count every byte once (SizeTriggers), no head of a git         *)
(* repository is overlooked (GitInput), pipelines that share repositories  *)
(* and ports keep them apart (Admission), and what a job publishes is of   *)
(* its own input (DatumMemory).  They rest on facts about sums and         *)
(* sequences, stated first, where induction takes the form of a least      *)
(* counterexample: a set is a value, where an induction rule would take    *)
(* the formula to prove as its parameter.                                  *)
(***************************************************************************)
EXTENDS MCFlow, Selection, FiniteSetTheorems, SequenceTheorems, TLAPS

----------------------------------------------------------------------------
(* Induction.                                                              *)

(* A set of numbers has a least one.                                       *)
LEMMA LeastNumber ==
  ASSUME NEW T \in SUBSET Nat, T # {}
  PROVE  \E n \in T : \A m \in T : n <= m
<1> DEFINE R == OpToRel(<, Nat)
<1>1. \A m, n \in Nat : m < n => <<m, n>> \in R
  <2> SUFFICES ASSUME NEW m \in Nat, NEW n \in Nat, m < n PROVE <<m, n>> \in R
    OBVIOUS
  <2>1. <<m, n>> \in Nat \X Nat /\ <<m, n>>[1] = m /\ <<m, n>>[2] = n
    OBVIOUS
  <2> QED BY <2>1 DEF OpToRel
<1>2. IsWellFoundedOn(R, Nat)
  BY NatLessThanWellFounded
<1> HIDE DEF R
<1>3. PICK n \in T : \A m \in T : ~(<<m, n>> \in R)
  BY <1>2, WFMin
<1>4. ASSUME NEW m \in T PROVE n <= m
  <2>1. n \in Nat /\ m \in Nat
    OBVIOUS
  <2>2. ~(m < n)
    BY <1>1, <1>3, <2>1, Zenon
  <2> QED BY <2>1, <2>2, SMT
<1> QED BY <1>4, Zenon

(* A set with 0 and the successor of each of its numbers has them all.     *)
LEMMA AllNumbers ==
  ASSUME NEW T, 0 \in T, \A n \in Nat : n \in T => n + 1 \in T
  PROVE  Nat \subseteq T
<1>1. SUFFICES ASSUME Nat \ T # {} PROVE FALSE
  OBVIOUS
<1>2. PICK n \in Nat \ T : \A m \in Nat \ T : n <= m
  BY <1>1, LeastNumber
<1>3. n # 0 /\ n - 1 \in Nat /\ n - 1 \in T
  BY <1>2
<1> QED BY <1>2, <1>3

(* A set of subsets of a finite set has a smallest one.                    *)
LEMMA SmallestSubset ==
  ASSUME NEW S, IsFiniteSet(S), NEW T \in SUBSET SUBSET S, T # {}
  PROVE  \E s \in T : \A t \in T : IsFiniteSet(s) /\ Cardinality(s) <= Cardinality(t)
<1>1. \A s \in SUBSET S : IsFiniteSet(s) /\ Cardinality(s) \in Nat
  BY FS_Subset, FS_CardinalityType
<1> DEFINE sizes == {Cardinality(s) : s \in T}
<1>2. sizes \in SUBSET Nat /\ sizes # {}
  BY <1>1
<1>3. PICK n \in sizes : \A m \in sizes : n <= m
  BY <1>2, LeastNumber
<1> QED BY <1>1, <1>3

----------------------------------------------------------------------------
(* Folds.  MapThenFoldSet, and what is defined by it, is the value at S of *)
(* a function on the subsets of S that takes one element off after the     *)
(* other; there is such a function, whatever is folded.                    *)

LEMMA Without ==
  ASSUME NEW S, IsFiniteSet(S), NEW s \in SUBSET S, NEW x \in s
  PROVE  /\ s \ {x} \in SUBSET S /\ IsFiniteSet(s) /\ IsFiniteSet(s \ {x})
         /\ Cardinality(s \ {x}) = Cardinality(s) - 1
         /\ Cardinality(s) \in Nat /\ Cardinality(s \ {x}) \in Nat
<1>1. IsFiniteSet(s) /\ Cardinality(s) \in Nat
  BY FS_Subset, FS_CardinalityType
<1>2. IsFiniteSet(s \ {x}) /\ Cardinality(s \ {x}) = Cardinality(s) - 1
  BY <1>1, FS_RemoveElement
<1>3. Cardinality(s \ {x}) \in Nat
  BY <1>2, FS_CardinalityType
<1> QED BY <1>1, <1>2, <1>3

(* pick says which element of a subset is taken, and step what is made of  *)
(* it and of the rest.                                                     *)
Folded(it, S, base, step, pick) ==
  \A s \in SUBSET S : it[s] = IF s = {} THEN base ELSE step[<<pick[s], it[s \ {pick[s]}]>>]

Picks(pick, S) == \A s \in SUBSET S : s # {} => pick[s] \in s

LEMMA FoldExists ==
  ASSUME NEW S, IsFiniteSet(S), NEW V, NEW base \in V, NEW step \in [S \X V -> V],
         NEW pick, Picks(pick, S)
  PROVE  \E it \in [SUBSET S -> V] : Folded(it, S, base, step, pick)
<1> DEFINE P(n) == {s \in SUBSET S : Cardinality(s) <= n}
           Step(it, s) == IF s = {} THEN base ELSE step[<<pick[s], it[s \ {pick[s]}]>>]
           T == {n \in Nat : \E it \in [P(n) -> V] : \A s \in P(n) : it[s] = Step(it, s)}
<1>1. \A s \in SUBSET S : /\ IsFiniteSet(s) /\ Cardinality(s) \in Nat
                          /\ Cardinality(s) = 0 <=> s = {}
  BY FS_Subset, FS_CardinalityType, FS_EmptySet
<1>2. \A s \in SUBSET S : s # {} =>
        /\ pick[s] \in S /\ s \ {pick[s]} \in SUBSET S
        /\ Cardinality(s \ {pick[s]}) = Cardinality(s) - 1
  BY Without DEF Picks
<1>3. 0 \in T
  <2> DEFINE it == [s \in P(0) |-> base]
  <2>1. \A s \in P(0) : s = {}
    BY <1>1
  <2>2. it \in [P(0) -> V] /\ \A s \in P(0) : it[s] = Step(it, s)
    BY <2>1
  <2> HIDE DEF it
  <2>3. \E f \in [P(0) -> V] : \A s \in P(0) : f[s] = Step(f, s)
    BY <2>2
  <2> QED BY <2>3
<1>4. ASSUME NEW n \in Nat, n \in T PROVE n + 1 \in T
  <2>1. PICK it \in [P(n) -> V] : \A s \in P(n) : it[s] = Step(it, s)
    BY <1>4
  <2> DEFINE jt == [s \in P(n + 1) |-> IF s \in P(n) THEN it[s] ELSE Step(it, s)]
  <2>2. \A s \in P(n + 1) : s # {} => s \ {pick[s]} \in P(n)
    BY <1>1, <1>2
  <2>3. jt \in [P(n + 1) -> V]
    BY <1>2, <2>2
  <2>4. \A s \in P(n + 1) : jt[s] = Step(jt, s)
    <3> SUFFICES ASSUME NEW s \in P(n + 1) PROVE jt[s] = Step(jt, s)
      OBVIOUS
    <3>1. P(n) \subseteq P(n + 1)
      BY <1>1
    <3>2. s # {} => jt[s \ {pick[s]}] = it[s \ {pick[s]}]
      BY <2>2, <3>1
    <3>3. jt[s] = Step(it, s)
      BY <2>1
    <3> QED BY <3>2, <3>3
  <2> HIDE DEF jt
  <2>5. \E f \in [P(n + 1) -> V] : \A s \in P(n + 1) : f[s] = Step(f, s)
    BY <2>3, <2>4
  <2> HIDE DEF P, Step
  <2>6. n + 1 \in Nat
    OBVIOUS
  <2> QED BY <2>5, <2>6
<1>5. Nat \subseteq T
  BY <1>3, <1>4, AllNumbers
<1>6. Cardinality(S) \in T /\ P(Cardinality(S)) = SUBSET S
  <2>1. Cardinality(S) \in Nat
    BY <1>1
  <2>2. \A s \in SUBSET S : Cardinality(s) <= Cardinality(S)
    BY FS_Subset
  <2> QED BY <1>5, <2>1, <2>2
<1>7. PICK it \in [SUBSET S -> V] : \A s \in SUBSET S : it[s] = Step(it, s)
  BY <1>6
<1> QED BY <1>7 DEF Folded

----------------------------------------------------------------------------
(* Sums.                                                                   *)

(* The partial sums that SumFunctionOnSet is defined by.                   *)
Picked(s) == CHOOSE x \in s : TRUE
PartialSums(it, g, S) ==
  it = [s \in SUBSET S |-> IF s = {} THEN 0 ELSE g[Picked(s)] + it[s \ {Picked(s)}]]

LEMMA WithoutPicked ==
  ASSUME NEW S, IsFiniteSet(S), NEW s \in SUBSET S, s # {}
  PROVE  /\ Picked(s) \in s /\ s \ {Picked(s)} \in SUBSET S
         /\ IsFiniteSet(s) /\ Cardinality(s \ {Picked(s)}) = Cardinality(s) - 1
         /\ Cardinality(s) \in Nat /\ Cardinality(s) > 0
<1>1. Picked(s) \in s
  BY DEF Picked
<1>2. Cardinality(s) # 0
  BY FS_Subset, FS_EmptySet
<1>3. /\ s \ {Picked(s)} \in SUBSET S /\ IsFiniteSet(s)
      /\ Cardinality(s \ {Picked(s)}) = Cardinality(s) - 1 /\ Cardinality(s) \in Nat
  BY <1>1, Without
<1> QED BY <1>1, <1>2, <1>3

LEMMA PartialSumsExist ==
  ASSUME NEW S, IsFiniteSet(S), NEW g \in [S -> Int]
  PROVE  \E it \in [SUBSET S -> Int] : PartialSums(it, g, S)
<1> DEFINE step == [p \in S \X Int |-> g[p[1]] + p[2]]
           pick == [s \in SUBSET S |-> Picked(s)]
           V == Int
<1>0. 0 \in V /\ step \in [S \X V -> V]
  OBVIOUS
<1>1. Picks(pick, S)
  BY WithoutPicked DEF Picks
<1>2. \A x \in S, v \in Int : step[<<x, v>>] = g[x] + v
  OBVIOUS
<1>3. \A s \in SUBSET S : pick[s] = Picked(s)
  OBVIOUS
<1> HIDE DEF step, pick, V
<1>4. PICK it \in [SUBSET S -> V] : Folded(it, S, 0, step, pick)
  BY <1>0, <1>1, FoldExists
<1>5. /\ it \in [SUBSET S -> Int]
      /\ \A s \in SUBSET S : s # {} => Picked(s) \in S /\ it[s \ {Picked(s)}] \in Int
  BY <1>4, WithoutPicked DEF V
<1>6. \A s \in SUBSET S :
        it[s] = IF s = {} THEN 0 ELSE g[Picked(s)] + it[s \ {Picked(s)}]
  BY <1>2, <1>3, <1>4, <1>5 DEF Folded
<1> QED BY <1>5, <1>6 DEF PartialSums

(* Partial sums over a set are those over a larger one, for terms that are *)
(* the same.                                                               *)
LEMMA PartialSumsAgree ==
  ASSUME NEW S, IsFiniteSet(S), NEW U \in SUBSET S, NEW f, NEW g,
         \A x \in U : f[x] = g[x],
         NEW it, PartialSums(it, f, U), NEW jt, PartialSums(jt, g, S)
  PROVE  \A s \in SUBSET U : it[s] = jt[s]
<1> DEFINE Bad == {s \in SUBSET U : it[s] # jt[s]}
<1>1. SUFFICES ASSUME Bad # {} PROVE FALSE
  OBVIOUS
<1>2. IsFiniteSet(U)
  BY FS_Subset
<1>3. PICK s \in Bad : \A t \in Bad : Cardinality(s) <= Cardinality(t)
  BY <1>1, <1>2, SmallestSubset
<1>4. s # {}
  BY DEF PartialSums
<1>5. /\ Picked(s) \in s /\ s \ {Picked(s)} \in SUBSET U
      /\ Cardinality(s \ {Picked(s)}) = Cardinality(s) - 1 /\ Cardinality(s) \in Nat
  BY <1>2, <1>4, WithoutPicked
<1>6. it[s \ {Picked(s)}] = jt[s \ {Picked(s)}]
  BY <1>3, <1>5
<1>7. it[s] = f[Picked(s)] + it[s \ {Picked(s)}] /\ jt[s] = g[Picked(s)] + jt[s \ {Picked(s)}]
  BY <1>4 DEF PartialSums
<1> QED BY <1>5, <1>6, <1>7

(* What a sum is, over any part of a set.                                  *)
LEMMA SumOfPart ==
  ASSUME NEW S, IsFiniteSet(S), NEW g \in [S -> Int], NEW U \in SUBSET S,
         NEW it, PartialSums(it, g, S)
  PROVE  SumFunctionOnSet(g, U) = it[U]
<1> DEFINE h == [x \in U |-> g[x]]
           sums == CHOOSE jt : PartialSums(jt, g, U)
<1>1. IsFiniteSet(U) /\ h \in [U -> Int]
  BY FS_Subset
<1>2. PICK kt : PartialSums(kt, h, U)
  BY <1>1, PartialSumsExist
<1>3. PartialSums(kt, g, U)
  BY <1>1, <1>2, WithoutPicked DEF PartialSums
<1>4. PartialSums(sums, g, U)
  BY <1>3
<1>5. SumFunctionOnSet(g, U) = sums[U]
  BY DEF SumFunctionOnSet, FoldFunctionOnSet, MapThenFoldSet, PartialSums, Picked
<1> HIDE DEF sums
<1> QED BY <1>4, <1>5, PartialSumsAgree

(* A sum is a number, and one term plus the sum of the others.             *)
LEMMA SumOfNumbers ==
  ASSUME NEW S, IsFiniteSet(S), NEW g \in [S -> Int]
  PROVE  /\ SumFunctionOnSet(g, {}) = 0
         /\ \A U \in SUBSET S : SumFunctionOnSet(g, U) \in Int
         /\ \A U \in SUBSET S : U # {} =>
              SumFunctionOnSet(g, U) = g[Picked(U)] + SumFunctionOnSet(g, U \ {Picked(U)})
<1>1. PICK it \in [SUBSET S -> Int] : PartialSums(it, g, S)
  BY PartialSumsExist
<1>2. \A U \in SUBSET S : SumFunctionOnSet(g, U) = it[U]
  BY <1>1, SumOfPart
<1>3. \A U \in SUBSET S : U # {} => U \ {Picked(U)} \in SUBSET S
  OBVIOUS
<1> QED BY <1>1, <1>2, <1>3 DEF PartialSums

LEMMA SumWithout ==
  ASSUME NEW S, IsFiniteSet(S), NEW g \in [S -> Int], NEW U \in SUBSET S, NEW x \in U
  PROVE  SumFunctionOnSet(g, U) = g[x] + SumFunctionOnSet(g, U \ {x})
<1> DEFINE Sum(V) == SumFunctionOnSet(g, V)
           Bad == {V \in SUBSET S : \E y \in V : Sum(V) # g[y] + Sum(V \ {y})}
<1>1. SUFFICES ASSUME Bad # {} PROVE FALSE
  OBVIOUS
<1>2. PICK V \in Bad : \A W \in Bad : Cardinality(V) <= Cardinality(W)
  BY <1>1, SmallestSubset
<1>3. PICK y \in V : Sum(V) # g[y] + Sum(V \ {y})
  OBVIOUS
<1> DEFINE z == Picked(V)
<1>4. /\ z \in V /\ y \in S /\ z \in S /\ V \ {z} \in SUBSET S /\ V \ {y} \in SUBSET S
      /\ (V \ {z}) \ {y} \in SUBSET S
  BY <1>3, WithoutPicked
<1>5. /\ Sum(V) = g[z] + Sum(V \ {z}) /\ Sum(V \ {y}) \in Int /\ Sum(V \ {z}) \in Int
      /\ Sum((V \ {z}) \ {y}) \in Int /\ g[y] \in Int /\ g[z] \in Int
  BY <1>3, <1>4, SumOfNumbers
<1>6. z # y
  BY <1>3, <1>5
<1>7. Cardinality(V \ {z}) < Cardinality(V) /\ Cardinality(V \ {y}) < Cardinality(V)
      /\ Cardinality(V) \in Nat /\ Cardinality(V \ {z}) \in Nat /\ Cardinality(V \ {y}) \in Nat
  <2>1. IsFiniteSet(V) /\ Cardinality(V) \in Nat
    BY FS_Subset, FS_CardinalityType
  <2>2. Cardinality(V \ {z}) = Cardinality(V) - 1 /\ IsFiniteSet(V \ {z})
    BY <1>4, <2>1, FS_RemoveElement
  <2>3. Cardinality(V \ {y}) = Cardinality(V) - 1 /\ IsFiniteSet(V \ {y})
    BY <1>3, <2>1, FS_RemoveElement
  <2>4. Cardinality(V \ {z}) \in Nat /\ Cardinality(V \ {y}) \in Nat
    BY <2>2, <2>3, FS_CardinalityType
  <2> QED BY <2>1, <2>2, <2>3, <2>4
<1>8. V \ {z} \notin Bad /\ V \ {y} \notin Bad
  <2> HIDE DEF Bad, z
  <2> QED BY <1>2, <1>7
<1>9. Sum(V \ {z}) = g[y] + Sum((V \ {z}) \ {y})
  BY <1>3, <1>4, <1>6, <1>8
<1>10. Sum(V \ {y}) = g[z] + Sum((V \ {y}) \ {z})
  BY <1>3, <1>4, <1>6, <1>8
<1>11. (V \ {y}) \ {z} = (V \ {z}) \ {y}
  OBVIOUS
<1>12. Sum((V \ {y}) \ {z}) = Sum((V \ {z}) \ {y})
  BY <1>11
<1> HIDE DEF Sum, z, Bad
<1> QED BY <1>3, <1>5, <1>9, <1>10, <1>12

(* Sums of the same terms are the same.                                    *)
LEMMA SumOfSame ==
  ASSUME NEW U, IsFiniteSet(U), NEW S, IsFiniteSet(S), NEW T, IsFiniteSet(T),
         NEW f \in [S -> Int], NEW g \in [T -> Int], U \subseteq S, U \subseteq T,
         \A x \in U : f[x] = g[x]
  PROVE  SumFunctionOnSet(f, U) = SumFunctionOnSet(g, U)
<1>1. PICK it \in [SUBSET S -> Int] : PartialSums(it, f, S)
  BY PartialSumsExist
<1> DEFINE h == [x \in U |-> f[x]]
<1>2. h \in [U -> Int]
  OBVIOUS
<1>3. PICK kt \in [SUBSET U -> Int] : PartialSums(kt, h, U)
  BY <1>2, PartialSumsExist
<1>4. PICK jt \in [SUBSET T -> Int] : PartialSums(jt, g, T)
  BY PartialSumsExist
<1>5. SumFunctionOnSet(f, U) = it[U] /\ SumFunctionOnSet(g, U) = jt[U]
  BY <1>1, <1>4, SumOfPart
<1>6. kt[U] = it[U]
  BY <1>1, <1>3, PartialSumsAgree
<1>7. kt[U] = jt[U]
  BY <1>3, <1>4, PartialSumsAgree
<1> QED BY <1>5, <1>6, <1>7

(* One term changes, or is new.                                            *)
OneChanged(U, f, x, g) ==
  /\ IsFiniteSet(U) /\ f \in [U -> Int] /\ g \in [U \cup {x} -> Int]
  /\ \A y \in U \ {x} : g[y] = f[y]

LEMMA SumWithOneChanged ==
  ASSUME NEW U, NEW f, NEW x, NEW g, OneChanged(U, f, x, g)
  PROVE  /\ SumFunction(g) = SumFunction(f) + g[x] - (IF x \in U THEN f[x] ELSE 0)
         /\ SumFunction(g) \in Int /\ SumFunction(f) \in Int
<1> DEFINE W == U \cup {x}
           R == U \ {x}
<1>0. /\ IsFiniteSet(U) /\ f \in [U -> Int] /\ g \in [U \cup {x} -> Int]
      /\ \A y \in U \ {x} : g[y] = f[y]
  BY DEF OneChanged
<1>1. IsFiniteSet(W) /\ IsFiniteSet(R) /\ R \subseteq U /\ R \subseteq W /\ x \in W
      /\ W \ {x} = R /\ DOMAIN f = U /\ DOMAIN g = W
  BY <1>0, FS_AddElement, FS_Subset
<1>2. SumFunctionOnSet(f, R) = SumFunctionOnSet(g, R)
  BY <1>0, <1>1, SumOfSame
<1>3. SumFunctionOnSet(g, W) = g[x] + SumFunctionOnSet(g, R)
  BY <1>0, <1>1, SumWithout
<1>4. x \in U => SumFunctionOnSet(f, U) = f[x] + SumFunctionOnSet(f, R)
  BY <1>0, <1>1, SumWithout
<1>5. x \notin U => R = U
  OBVIOUS
<1>6. SumFunctionOnSet(f, R) \in Int /\ SumFunctionOnSet(f, U) \in Int
      /\ SumFunctionOnSet(g, W) \in Int /\ g[x] \in Int /\ (x \in U => f[x] \in Int)
  BY <1>0, <1>1, SumOfNumbers
<1>7. SumFunction(g) = SumFunctionOnSet(g, W) /\ SumFunction(f) = SumFunctionOnSet(f, U)
  BY <1>1 DEF SumFunction
<1> HIDE DEF W, R
<1> QED BY <1>2, <1>3, <1>4, <1>5, <1>6, <1>7

----------------------------------------------------------------------------
(* Selections from a sequence.                                             *)

(* The greatest of some numbers up to a bound.                             *)
LEMMA Greatest ==
  ASSUME NEW n \in Nat, NEW T \in SUBSET (1 .. n), T # {}
  PROVE  Max(T) \in T /\ \A m \in T : m <= Max(T)
<1> DEFINE U == {n - m : m \in T}
<1>1. U \in SUBSET Nat /\ U # {}
  <2>1. \A m \in T : m \in 1 .. n /\ n - m \in Nat
    OBVIOUS
  <2> QED BY <2>1
<1>2. PICK k \in U : \A l \in U : k <= l
  BY <1>1, LeastNumber
<1>3. PICK m \in T : k = n - m
  OBVIOUS
<1>4. \A l \in T : m >= l
  BY <1>2, <1>3
<1>5. \E x \in T : \A y \in T : x >= y
  BY <1>4
<1>6. Max(T) \in T /\ \A y \in T : Max(T) >= y
  BY <1>5 DEF Max
<1> QED BY <1>6

(* A fold from the left as the sequence of its intermediate values.        *)
Selecting(v, s, P) ==
  /\ v[0] = <<>> /\ Selected(s, P) = v[Len(s)]
  /\ \A k \in 1 .. Len(s) :
       v[k] = IF s[k] \in P THEN Append(v[k - 1], s[k]) ELSE v[k - 1]

LEMMA SelectedSteps ==
  ASSUME NEW A, NEW P, NEW s \in Seq(A)
  PROVE  \E v \in [0 .. Len(s) -> Seq(A)] : Selecting(v, s, P)
<1> DEFINE D == 1 .. Len(s)
           V == Seq(A)
           step == [p \in D \X V |-> IF s[p[1]] \in P THEN Append(p[2], s[p[1]]) ELSE p[2]]
           pick == [t \in SUBSET D |-> Max(t)]
<1>0. IsFiniteSet(D)
  BY FS_Interval
<1>1. D = DOMAIN s /\ IsFiniteSet(D) /\ Len(s) \in Nat
  BY <1>0
<1>2. <<>> \in V /\ \A k \in D : s[k] \in A
  OBVIOUS
<1>3. \A k \in D, v \in V : (IF s[k] \in P THEN Append(v, s[k]) ELSE v) \in V
  BY <1>2
<1>4. step \in [D \X V -> V]
  BY <1>3
<1>5. \A t \in SUBSET D : t # {} => Max(t) \in t
  BY <1>1, Greatest
<1>6. Picks(pick, D)
  BY <1>5 DEF Picks
<1>7. \A k \in D, v \in V : step[<<k, v>>] = IF s[k] \in P THEN Append(v, s[k]) ELSE v
  OBVIOUS
<1>8. \A t \in SUBSET D : pick[t] = Max(t)
  OBVIOUS
<1> HIDE DEF step, pick, V
<1>9. PICK it \in [SUBSET D -> V] : Folded(it, D, <<>>, step, pick)
  BY <1>1, <1>2, <1>4, <1>6, FoldExists
<1> DEFINE Eqn(f) == f = [t \in SUBSET DOMAIN s |-> IF t = {} THEN <<>>
                            ELSE IF s[Max(t)] \in P THEN Append(f[t \ {Max(t)}], s[Max(t)])
                                 ELSE f[t \ {Max(t)}]]
           jt == CHOOSE f : Eqn(f)
<1>10. Eqn(it)
  <2>1. \A t \in SUBSET D : t # {} => Max(t) \in D /\ t \ {Max(t)} \in SUBSET D
    BY <1>5
  <2>2. \A t \in SUBSET D :
          it[t] = IF t = {} THEN <<>>
                  ELSE IF s[Max(t)] \in P THEN Append(it[t \ {Max(t)}], s[Max(t)])
                       ELSE it[t \ {Max(t)}]
    <3> SUFFICES ASSUME NEW t \in SUBSET D, t # {}
                 PROVE  it[t] = IF s[Max(t)] \in P THEN Append(it[t \ {Max(t)}], s[Max(t)])
                                ELSE it[t \ {Max(t)}]
      BY <1>9 DEF Folded
    <3>1. it[t] = step[<<Max(t), it[t \ {Max(t)}]>>]
      BY <1>8, <1>9 DEF Folded
    <3>2. Max(t) \in D /\ it[t \ {Max(t)}] \in V
      BY <1>9, <2>1
    <3> QED BY <1>7, <3>1, <3>2
  <2> QED BY <1>1, <2>2
<1>11. Eqn(jt)
  BY <1>10
<1>12. Selected(s, P) = jt[D]
  BY <1>1 DEF Selected, FoldLeft, MapThenFoldSet
<1> HIDE DEF jt
<1>13. \A t \in SUBSET D : jt[t] = it[t]
  <2> DEFINE Bad == {t \in SUBSET D : jt[t] # it[t]}
  <2>1. SUFFICES ASSUME Bad # {} PROVE FALSE
    OBVIOUS
  <2>2. PICK t \in Bad : \A u \in Bad : Cardinality(t) <= Cardinality(u)
    <3>1. Bad \in SUBSET SUBSET D
      OBVIOUS
    <3> HIDE DEF Bad, D
    <3> QED BY <1>0, <2>1, <3>1, SmallestSubset
  <2>3. t # {}
    BY <1>1, <1>10, <1>11
  <2>4. Max(t) \in t
    BY <1>5, <2>3
  <2>5. /\ t \ {Max(t)} \in SUBSET D /\ Cardinality(t \ {Max(t)}) = Cardinality(t) - 1
        /\ Cardinality(t \ {Max(t)}) \in Nat /\ Cardinality(t) \in Nat
    <3>1. t \in SUBSET D
      OBVIOUS
    <3> HIDE DEF Bad, D
    <3> QED BY <1>0, <2>4, <3>1, Without
  <2>7. jt[t \ {Max(t)}] = it[t \ {Max(t)}]
    BY <2>2, <2>5
  <2> QED BY <1>1, <1>10, <1>11, <2>3, <2>7
<1> DEFINE v == [k \in 0 .. Len(s) |-> it[1 .. k]]
<1>14. v \in [0 .. Len(s) -> Seq(A)] /\ v[0] = <<>> /\ Selected(s, P) = v[Len(s)]
  <2>1. \A k \in 0 .. Len(s) : 1 .. k \in SUBSET D
    BY <1>1
  <2>2. it[{}] = <<>> /\ 1 .. 0 = {}
    <3>1. {} \in SUBSET D
      OBVIOUS
    <3>2. it[{}] = <<>>
      <4> HIDE DEF D, v
      <4> QED BY <1>9, <3>1 DEF Folded
    <3>3. 1 .. 0 = {}
      OBVIOUS
    <3> QED BY <3>2, <3>3
  <2> QED BY <1>1, <1>9, <1>12, <1>13, <2>1, <2>2 DEF V
<1>15. ASSUME NEW k \in 1 .. Len(s)
       PROVE  v[k] = IF s[k] \in P THEN Append(v[k - 1], s[k]) ELSE v[k - 1]
  <2>1. 1 .. k \in SUBSET D /\ 1 .. k # {} /\ k - 1 \in 0 .. Len(s) /\ k \in Nat
    BY <1>1
  <2>2. Max(1 .. k) = k
    <3>1. Max(1 .. k) \in 1 .. k /\ \A m \in 1 .. k : m <= Max(1 .. k)
      BY <2>1, Greatest
    <3> QED BY <2>1, <3>1
  <2>3. (1 .. k) \ {k} = 1 .. (k - 1)
    BY <2>1
  <2> HIDE DEF D
  <2>4. it[1 .. k] = IF s[k] \in P THEN Append(it[1 .. (k - 1)], s[k]) ELSE it[1 .. (k - 1)]
    BY <1>1, <1>10, <2>1, <2>2, <2>3
  <2> QED BY <2>1, <2>4
<1> HIDE DEF v
<1>16. Selecting(v, s, P)
  BY <1>14, <1>15 DEF Selecting
<1> QED BY <1>14, <1>16

(* The members that are selected, and where they stood.                    *)
SelectionOf(q, A, P, s) ==
  /\ q \in Seq(A \cap P)
  /\ \A k \in DOMAIN s : s[k] \in P => \E m \in DOMAIN q : q[m] = s[k]
  /\ \E at \in [DOMAIN q -> DOMAIN s] : /\ \A m \in DOMAIN q : q[m] = s[at[m]]
                                       /\ \A l, m \in DOMAIN q : l < m => at[l] < at[m]

LEMMA SelectedAre ==
  ASSUME NEW A, NEW P, NEW s \in Seq(A)
  PROVE  SelectionOf(Selected(s, P), A, P, s)
<1>0. PICK v \in [0 .. Len(s) -> Seq(A)] : Selecting(v, s, P)
  BY SelectedSteps
<1>1. /\ v[0] = <<>> /\ Selected(s, P) = v[Len(s)]
      /\ \A k \in 1 .. Len(s) :
           v[k] = IF s[k] \in P THEN Append(v[k - 1], s[k]) ELSE v[k - 1]
  BY <1>0 DEF Selecting
<1> DEFINE Right(k, q) ==
             /\ q \in Seq(A \cap P)
             /\ \A i \in 1 .. k : s[i] \in P => \E m \in DOMAIN q : q[m] = s[i]
             /\ \E at \in [DOMAIN q -> 1 .. k] :
                  /\ \A m \in DOMAIN q : q[m] = s[at[m]]
                  /\ \A l, m \in DOMAIN q : l < m => at[l] < at[m]
           T == {k \in Nat : k <= Len(s) => Right(k, v[k])}
<1>2. 0 \in T
  <2>1. v[0] = <<>> /\ DOMAIN v[0] = {}
    BY <1>1
  <2>2. \E at : at \in [DOMAIN v[0] -> 1 .. 0]
    BY <2>1
  <2> QED BY <2>1, <2>2
<1>3. ASSUME NEW k \in Nat, k \in T PROVE k + 1 \in T
  <2>1. SUFFICES ASSUME k + 1 <= Len(s) PROVE Right(k + 1, v[k + 1])
    <3> HIDE DEF Right
    <3> QED OBVIOUS
  <2>2. Len(s) \in Nat /\ k + 1 \in 1 .. Len(s) /\ k + 1 \in DOMAIN s /\ (k + 1) - 1 = k
    BY <2>1
  <2>3. Right(k, v[k])
    <3> HIDE DEF Right
    <3> QED BY <1>3, <2>1, <2>2
  <2>4. v[k + 1] = IF s[k + 1] \in P THEN Append(v[k], s[k + 1]) ELSE v[k]
    BY <1>1, <2>2
  <2>5. PICK at \in [DOMAIN v[k] -> 1 .. k] :
          /\ \A m \in DOMAIN v[k] : v[k][m] = s[at[m]]
          /\ \A l, m \in DOMAIN v[k] : l < m => at[l] < at[m]
    BY <2>3
  <2>6. CASE s[k + 1] \notin P
    <3>1. v[k + 1] = v[k] /\ at \in [DOMAIN v[k] -> 1 .. (k + 1)]
      BY <2>4, <2>6
    <3>2. \A i \in 1 .. (k + 1) : i = k + 1 \/ i \in 1 .. k
      OBVIOUS
    <3> QED BY <2>3, <2>5, <2>6, <3>1, <3>2
  <2>7. CASE s[k + 1] \in P
    <3> DEFINE q == v[k]
               n == Len(q) + 1
               bt == [m \in 1 .. n |-> IF m = n THEN k + 1 ELSE at[m]]
    <3>1. q \in Seq(A \cap P) /\ DOMAIN q = 1 .. Len(q) /\ Len(q) \in Nat
      BY <2>3
    <3>2. s[k + 1] \in A \cap P
      BY <2>2, <2>7
    <3>3. v[k + 1] = Append(q, s[k + 1])
      BY <2>4, <2>7
    <3> HIDE DEF q
    <3>4. /\ v[k + 1] \in Seq(A \cap P) /\ DOMAIN v[k + 1] = 1 .. n /\ v[k + 1][n] = s[k + 1]
          /\ \A m \in 1 .. Len(q) : v[k + 1][m] = q[m]
      BY <3>1, <3>2, <3>3, AppendProperties
    <3>5. at \in [1 .. Len(q) -> 1 .. k]
      BY <2>5, <3>1 DEF q
    <3>6. bt \in [1 .. n -> 1 .. (k + 1)]
      BY <3>1, <3>5
    <3>7. \A m \in 1 .. n : v[k + 1][m] = s[bt[m]]
      <4> SUFFICES ASSUME NEW m \in 1 .. n PROVE v[k + 1][m] = s[bt[m]]
        OBVIOUS
      <4>1. CASE m = n
        BY <3>4, <4>1
      <4>2. CASE m # n
        <5> HIDE DEF bt
        <5>0. m \in 1 .. Len(q) /\ m \in DOMAIN q
          BY <3>1, <4>2
        <5>1. m \in 1 .. Len(q) /\ m \in DOMAIN q /\ bt[m] = at[m]
          BY <4>2, <5>0 DEF bt
        <5>2. q[m] = s[at[m]]
          BY <2>5, <5>1 DEF q
        <5> QED BY <3>4, <5>1, <5>2
      <4> QED BY <4>1, <4>2
    <3>8. \A l, m \in 1 .. n : l < m => bt[l] < bt[m]
      <4> SUFFICES ASSUME NEW l \in 1 .. n, NEW m \in 1 .. n, l < m PROVE bt[l] < bt[m]
        OBVIOUS
      <4>1. l \in 1 .. Len(q) /\ l \in DOMAIN q /\ bt[l] = at[l] /\ at[l] \in 1 .. k
        BY <3>1, <3>5
      <4>2. CASE m = n
        BY <4>1, <4>2
      <4>3. CASE m # n
        <5>1. m \in DOMAIN q /\ bt[m] = at[m]
          BY <3>1, <4>3
        <5> QED BY <2>5, <4>1, <5>1 DEF q
      <4> QED BY <4>2, <4>3
    <3>9. \A i \in 1 .. (k + 1) : s[i] \in P => \E m \in 1 .. n : v[k + 1][m] = s[i]
      <4> SUFFICES ASSUME NEW i \in 1 .. (k + 1), s[i] \in P
                   PROVE  \E m \in 1 .. n : v[k + 1][m] = s[i]
        OBVIOUS
      <4>1. CASE i = k + 1
        BY <3>1, <3>4, <4>1
      <4>2. CASE i # k + 1
        <5>1. i \in 1 .. k
          BY <4>2
        <5>2. PICK m \in DOMAIN q : q[m] = s[i]
          BY <2>3, <5>1 DEF q
        <5>3. m \in 1 .. Len(q) /\ m \in 1 .. n
          BY <3>1, <5>2
        <5>4. v[k + 1][m] = s[i]
          BY <3>4, <5>2, <5>3
        <5> QED BY <5>3, <5>4
      <4> QED BY <4>1, <4>2
    <3> HIDE DEF bt, n
    <3> QED BY <3>4, <3>6, <3>7, <3>8, <3>9
  <2> QED BY <2>6, <2>7
<1>4. Len(s) \in T
  <2> HIDE DEF T
  <2>1. Nat \subseteq T
    BY <1>2, <1>3, AllNumbers
  <2> QED BY <2>1
<1>5. Right(Len(s), Selected(s, P))
  BY <1>1, <1>4
<1>6. DOMAIN s = 1 .. Len(s)
  OBVIOUS
<1> QED BY <1>5, <1>6 DEF SelectionOf
----------------------------------------------------------------------------
(* Size triggers.                                                          *)

Requests == [step : {"finished", "firing", "over"}, fires : Nat]

(* A request whose bytes are not counted yet owes no firing.               *)
SizeTypes ==
  /\ size \in Seq(Sizes) /\ request \in Seq(Requests) /\ Len(request) = Len(size)
  /\ ledger \in 0 .. SizeBytes - 1 /\ fired \in Seq(Nat)
  /\ \A c \in DOMAIN size : request[c].step = "finished" => request[c].fires = 0

SizeInv ==
  /\ SizeTypes
  /\ lost = {} => Triggers!Accumulated = SizeBytes * (Len(fired) + Triggers!Owed) + ledger

(* What the sums are of.                                                   *)
Fires(c) == request[c].fires
Delta(c) == Triggers!commitDelta(c)

LEMMA SizeSums ==
  ASSUME SizeTypes
  PROVE  /\ DOMAIN size = 1 .. Len(size) /\ Len(size) \in Nat
         /\ IsFiniteSet(DOMAIN size) /\ IsFiniteSet(Triggers!Counted)
         /\ Triggers!Counted \subseteq DOMAIN size
         /\ \A c \in DOMAIN size : Delta(c) \in Nat /\ request[c] \in Requests
<1>1. DOMAIN size = 1 .. Len(size) /\ Len(size) \in Nat /\ Triggers!Counted \subseteq DOMAIN size
  BY DEF SizeTypes, Triggers!Counted, Triggers!Commits
<1>2. IsFiniteSet(DOMAIN size)
  BY <1>1, FS_Interval
<1>3. IsFiniteSet(Triggers!Counted)
  BY <1>1, <1>2, FS_Subset
<1>4. ASSUME NEW c \in DOMAIN size PROVE size[c] \in Nat
  <2>1. size \in Seq(Sizes) /\ c \in 1 .. Len(size)
    BY <1>1 DEF SizeTypes
  <2>2. size[c] \in Sizes
    BY <2>1, ElementOfSeq
  <2> QED BY <2>2, SizeAssumption
<1>5. ASSUME NEW c \in DOMAIN size PROVE Delta(c) \in Nat
  <2> DEFINE parent == IF c = 1 THEN 0 ELSE size[c - 1]
  <2>1. parent \in Nat
    BY <1>1, <1>4
  <2>2. size[c] \in Nat
    BY <1>4
  <2>3. Delta(c) = IF size[c] > parent THEN size[c] - parent ELSE 0
    BY DEF Delta, Triggers!commitDelta
  <2> HIDE DEF parent
  <2> QED BY <2>1, <2>2, <2>3
<1> QED BY <1>1, <1>2, <1>3, <1>5 DEF SizeTypes

LEMMA SizeSum == ASSUME NEW f PROVE Triggers!SumFunction(f) = SumFunction(f)
BY DEF Triggers!SumFunction, Triggers!SumFunctionOnSet, Triggers!FoldFunctionOnSet,
       Triggers!MapThenFoldSet, SumFunction, SumFunctionOnSet, FoldFunctionOnSet, MapThenFoldSet

LEMMA SizeInitial == ASSUME Triggers!Init PROVE SizeInv
<1>1. size = <<>> /\ request = <<>> /\ ledger = 0 /\ fired = <<>> /\ lost = {}
  BY DEF Triggers!Init
<1>2. SizeTypes
  BY <1>1, SizeAssumption DEF SizeTypes
<1> DEFINE f == [c \in {} |-> 0]
<1>3. SumFunction(f) = 0
  <2>1. f \in [{} -> Int] /\ IsFiniteSet({})
    BY FS_EmptySet
  <2>2. SumFunctionOnSet(f, {}) = 0
    <3> HIDE DEF f
    <3> QED BY <2>1, SumOfNumbers
  <2> QED BY <2>2 DEF SumFunction
<1>4. Triggers!Owed = SumFunction(f) /\ Triggers!Accumulated = SumFunction(f)
  <2>1. DOMAIN size = {} /\ Triggers!Counted = {}
    BY <1>1 DEF Triggers!Counted, Triggers!Commits
  <2>2. [c \in Triggers!Commits |-> request[c].fires] = f
    BY <2>1 DEF Triggers!Commits
  <2>3. [c \in Triggers!Counted |-> Triggers!commitDelta(c)] = f
    BY <2>1
  <2> HIDE DEF f
  <2> QED BY <2>2, <2>3, SizeSum DEF Triggers!Owed, Triggers!Accumulated
<1> QED BY <1>1, <1>2, <1>3, <1>4, SizeAssumption DEF SizeInv

(* One request's debt changes.                                             *)
LEMMA OwedChanges ==
  ASSUME SizeTypes, SizeTypes', NEW x \in DOMAIN size', DOMAIN size' = DOMAIN size \cup {x},
         \A c \in DOMAIN size \ {x} : request'[c].fires = request[c].fires
  PROVE  /\ Triggers!Owed' = Triggers!Owed + request'[x].fires
                               - (IF x \in DOMAIN size THEN request[x].fires ELSE 0)
         /\ Triggers!Owed \in Int /\ Triggers!Owed' \in Int
<1> DEFINE U == DOMAIN size
           f == [c \in U |-> request[c].fires]
           g == [c \in U \cup {x} |-> request'[c].fires]
<1>1. IsFiniteSet(U) /\ \A c \in U : request[c] \in Requests
  BY SizeSums
<1>2. \A c \in U \cup {x} : request'[c] \in Requests
  <2>1. \A c \in DOMAIN size' : request'[c] \in Requests
    BY DEF SizeTypes
  <2> QED BY <2>1
<1>3. f \in [U -> Int] /\ g \in [U \cup {x} -> Int]
  BY <1>1, <1>2 DEF Requests
<1>4. OneChanged(U, f, x, g)
  <2>1. \A c \in U \ {x} : g[c] = f[c]
    OBVIOUS
  <2> HIDE DEF f, g, U
  <2> QED BY <1>1, <1>3, <2>1 DEF OneChanged
<1>5. Triggers!Owed = SumFunction(f) /\ Triggers!Owed' = SumFunction(g)
  BY SizeSum DEF Triggers!Owed, Triggers!Commits
<1>6. g[x] = request'[x].fires /\ (x \in U => f[x] = request[x].fires)
  OBVIOUS
<1> HIDE DEF f, g, U
<1>7. /\ SumFunction(g) = SumFunction(f) + g[x] - (IF x \in U THEN f[x] ELSE 0)
      /\ SumFunction(g) \in Int /\ SumFunction(f) \in Int
  BY <1>4, SumWithOneChanged
<1> QED BY <1>5, <1>6, <1>7 DEF U

(* The bytes of one more commit are counted, or of none.                   *)
LEMMA CountedChanges ==
  ASSUME SizeTypes, SizeTypes', NEW x,
         \A c \in Triggers!Counted : Delta(c)' = Delta(c)
  PROVE  /\ Triggers!Accumulated \in Int
         /\ Triggers!Counted' = Triggers!Counted => Triggers!Accumulated' = Triggers!Accumulated
         /\ ( /\ Triggers!Counted' = Triggers!Counted \cup {x} /\ x \notin Triggers!Counted
              /\ Delta(x)' \in Nat )
              => Triggers!Accumulated' = Triggers!Accumulated + Delta(x)'
<1> DEFINE U == Triggers!Counted
           f == [c \in U |-> Delta(c)]
           g == [c \in U \cup {x} |-> Delta(c)']
<1>1. Triggers!Accumulated = SumFunction(f)
  BY SizeSum DEF Triggers!Accumulated, Delta
<1>2. U' = U => Triggers!Accumulated' = SumFunction(f)
  BY SizeSum DEF Triggers!Accumulated, Delta
<1>3. U' = U \cup {x} => Triggers!Accumulated' = SumFunction(g)
  BY SizeSum DEF Triggers!Accumulated, Delta
<1>4. IsFiniteSet(U) /\ f \in [U -> Int]
  BY SizeSums
<1>5. U' = U \cup {x} /\ Delta(x)' \in Nat => g \in [U \cup {x} -> Int] /\ g[x] = Delta(x)'
  <2>0. \A c \in U : c \in DOMAIN size /\ Delta(c) \in Nat
    BY SizeSums
  <2>1. Delta(x)' \in Nat => \A c \in U \cup {x} : Delta(c)' \in Nat
    BY <2>0
  <2> QED BY <2>1
<1>6. \A c \in U \ {x} : g[c] = f[c]
  OBVIOUS
<1>7. SumFunction(f) \in Int
  <2>1. SumFunctionOnSet(f, U) \in Int
    <3> HIDE DEF f, U
    <3> QED BY <1>4, SumOfNumbers
  <2> QED BY <2>1 DEF SumFunction
<1>8. U' = U \cup {x} /\ x \notin U /\ Delta(x)' \in Nat => SumFunction(g) = SumFunction(f) + g[x] /\ g[x] \in Int
  <2> SUFFICES ASSUME U' = U \cup {x}, x \notin U, Delta(x)' \in Nat
               PROVE  SumFunction(g) = SumFunction(f) + g[x] /\ g[x] \in Int
    OBVIOUS
  <2>1. g \in [U \cup {x} -> Int]
    BY <1>5
  <2> HIDE DEF f, g, U
  <2>2. OneChanged(U, f, x, g)
    BY <1>4, <1>6, <2>1 DEF OneChanged
  <2>3. SumFunction(g) = SumFunction(f) + g[x] - (IF x \in U THEN f[x] ELSE 0)
    BY <2>2, SumWithOneChanged
  <2> QED BY <1>7, <2>1, <2>3
<1> QED BY <1>1, <1>2, <1>3, <1>5, <1>7, <1>8

(* The requests do not change the commits, so no commit's bytes change.    *)
LEMMA SizeSteady ==
  ASSUME SizeTypes, UNCHANGED size
  PROVE  \A c \in DOMAIN size : Delta(c)' = Delta(c)
BY DEF Delta, Triggers!commitDelta

LEMMA SizeFinish ==
  ASSUME SizeInv, NEW bytes \in Sizes, Triggers!FinishCommit(bytes)
  PROVE  SizeInv'
<1> DEFINE x == Len(size) + 1
<1>1. /\ size' = Append(size, bytes)
      /\ request' = Append(request, [step |-> "finished", fires |-> 0])
      /\ UNCHANGED <<ledger, fired, lost>>
  BY DEF Triggers!FinishCommit
<1>2. SizeTypes /\ DOMAIN size = 1 .. Len(size) /\ Len(size) \in Nat
  BY SizeSums DEF SizeInv
<1>3. /\ size' \in Seq(Sizes) /\ DOMAIN size' = DOMAIN size \cup {x} /\ Len(size') = x
      /\ \A c \in DOMAIN size : size'[c] = size[c]
  <2>1. size \in Seq(Sizes)
    BY <1>2 DEF SizeTypes
  <2>2. /\ size' \in Seq(Sizes) /\ Len(size') = x /\ DOMAIN size' = 1 .. x
        /\ \A c \in 1 .. Len(size) : size'[c] = size[c]
    BY <1>1, <1>2, <2>1, AppendProperties
  <2> QED BY <1>2, <2>2
<1>4. /\ request' \in Seq(Requests) /\ Len(request') = x
      /\ \A c \in DOMAIN size : request'[c] = request[c]
      /\ request'[x] = [step |-> "finished", fires |-> 0]
  <2>1. /\ request \in Seq(Requests) /\ Len(request) = Len(size)
        /\ [step |-> "finished", fires |-> 0] \in Requests
    BY <1>2 DEF SizeTypes, Requests
  <2> QED BY <1>1, <1>2, <2>1, AppendProperties
<1>5. SizeTypes'
  BY <1>1, <1>2, <1>3, <1>4 DEF SizeTypes
<1>6. \A c \in DOMAIN size : Delta(c)' = Delta(c)
  BY <1>2, <1>3 DEF Delta, Triggers!commitDelta
<1>7. Triggers!Counted' = Triggers!Counted /\ Triggers!Counted \subseteq DOMAIN size
  BY <1>2, <1>3, <1>4 DEF Triggers!Counted, Triggers!Commits
<1>8. Triggers!Accumulated' = Triggers!Accumulated
  BY <1>2, <1>5, <1>6, <1>7, CountedChanges
<1>9. Triggers!Owed' = Triggers!Owed
  <2>1. x \in DOMAIN size' /\ x \notin DOMAIN size /\ request'[x].fires = 0
    BY <1>2, <1>3, <1>4
  <2>2. \A c \in DOMAIN size \ {x} : request'[c].fires = request[c].fires
    BY <1>4
  <2> HIDE DEF x
  <2>3. Triggers!Owed' = Triggers!Owed + 0 - 0 /\ Triggers!Owed \in Int
    BY <1>2, <1>3, <1>5, <2>1, <2>2, OwedChanges
  <2> QED BY <2>3
<1> QED BY <1>1, <1>5, <1>8, <1>9 DEF SizeInv

(* The request of commit c moves on.                                       *)
LEMMA SizeRequest ==
  ASSUME SizeTypes, NEW c \in DOMAIN size, NEW q \in Requests, q.step # "finished",
         request' = [request EXCEPT ![c] = q], UNCHANGED <<size, lost>>,
         ledger' \in 0 .. SizeBytes - 1, fired' \in Seq(Nat)
  PROVE  /\ SizeTypes'
         /\ Triggers!Owed' = Triggers!Owed + q.fires - request[c].fires
         /\ Triggers!Owed \in Int /\ Triggers!Accumulated \in Int /\ Delta(c) \in Nat
         /\ Triggers!Accumulated' =
              Triggers!Accumulated + IF request[c].step = "finished" THEN Delta(c) ELSE 0
<1>1. /\ request \in Seq(Requests) /\ Len(request) = Len(size) /\ DOMAIN request = DOMAIN size
      /\ request[c] \in Requests /\ Delta(c) \in Nat
  BY SizeSums DEF SizeTypes
<1>2. /\ request' \in Seq(Requests) /\ Len(request') = Len(size) /\ request'[c] = q
      /\ \A k \in DOMAIN size \ {c} : request'[k] = request[k]
  BY <1>1, ExceptSeq
<1>3. SizeTypes'
  BY <1>1, <1>2 DEF SizeTypes
<1>4. \A k \in DOMAIN size : Delta(k)' = Delta(k)
  BY SizeSteady
<1>5. Triggers!Counted' = Triggers!Counted \cup {c} /\ Triggers!Counted \subseteq DOMAIN size
  BY <1>1, <1>2 DEF Triggers!Counted, Triggers!Commits
<1>6. c \in Triggers!Counted <=> request[c].step # "finished"
  BY DEF Triggers!Counted, Triggers!Commits
<1>7. Triggers!Owed' = Triggers!Owed + q.fires - request[c].fires /\ Triggers!Owed \in Int
  <2>1. /\ c \in DOMAIN size' /\ DOMAIN size' = DOMAIN size \cup {c}
        /\ \A k \in DOMAIN size \ {c} : request'[k].fires = request[k].fires
    BY <1>2
  <2> QED BY <1>2, <1>3, <2>1, OwedChanges
<1>8. /\ Triggers!Accumulated \in Int
      /\ Triggers!Accumulated' =
           Triggers!Accumulated + IF request[c].step = "finished" THEN Delta(c) ELSE 0
  <2>1. \A k \in Triggers!Counted : Delta(k)' = Delta(k)
    BY <1>4, <1>5
  <2>2. Delta(c)' = Delta(c)
    BY <1>4
  <2>3. /\ Triggers!Accumulated \in Int
        /\ Triggers!Counted' = Triggers!Counted => Triggers!Accumulated' = Triggers!Accumulated
        /\ ( /\ Triggers!Counted' = Triggers!Counted \cup {c} /\ c \notin Triggers!Counted
             /\ Delta(c)' \in Nat )
             => Triggers!Accumulated' = Triggers!Accumulated + Delta(c)'
    BY <1>3, <2>1, CountedChanges
  <2>4. CASE c \in Triggers!Counted
    <3>1. Triggers!Counted' = Triggers!Counted
      BY <1>5, <2>4
    <3> QED BY <1>6, <2>3, <2>4, <3>1
  <2>5. CASE c \notin Triggers!Counted
    BY <1>1, <1>5, <1>6, <2>2, <2>3, <2>5
  <2> QED BY <2>4, <2>5
<1> QED BY <1>1, <1>3, <1>7, <1>8

LEMMA SizeStep ==
  ASSUME SizeInv, [Triggers!Next]_sizeVars
  PROVE  SizeInv'
<1>0. SizeTypes /\ DOMAIN size = 1 .. Len(size) /\ Len(fired) \in Nat /\ SizeBytes \in Nat \ {0}
      /\ Triggers!Commits = DOMAIN size /\ \A k \in DOMAIN size : request[k] \in Requests
  BY SizeSums, SizeAssumption DEF SizeInv, SizeTypes, Triggers!Commits
<1>d. DOMAIN request = DOMAIN size
  BY <1>0 DEF SizeTypes
<1>i. lost = {} => Triggers!Accumulated = SizeBytes * (Len(fired) + Triggers!Owed) + ledger
  BY DEF SizeInv
<1>1. CASE UNCHANGED sizeVars
  BY <1>1 DEF sizeVars, SizeInv, SizeTypes, Triggers!Accumulated, Triggers!Owed,
              Triggers!Counted, Triggers!Commits, Triggers!commitDelta
<1>2. ASSUME NEW bytes \in Sizes, Triggers!FinishCommit(bytes) PROVE SizeInv'
  BY <1>2, SizeFinish
<1>3. ASSUME NEW c \in DOMAIN size, Triggers!fireTrigger(c) PROVE SizeInv'
  <2> DEFINE accum == ledger + Delta(c)
             q == [step |-> "firing", fires |-> accum \div SizeBytes]
  <2>1. /\ request' = [request EXCEPT ![c] = q] /\ request[c].step = "finished"
        /\ ledger' = accum % SizeBytes /\ UNCHANGED <<size, fired, lost>>
    BY <1>3 DEF Triggers!fireTrigger, Triggers!Fires, Delta
  <2>2. request[c].fires = 0 /\ Delta(c) \in Nat /\ ledger \in Nat
    BY <1>0, <2>1, SizeSums DEF SizeTypes
  <2>3. accum \in Nat
    BY <2>2
  <2> HIDE DEF accum
  <2>4. /\ accum \div SizeBytes \in Nat /\ accum % SizeBytes \in 0 .. SizeBytes - 1
        /\ accum = SizeBytes * (accum \div SizeBytes) + (accum % SizeBytes)
    BY <1>0, <2>3
  <2>5. q \in Requests /\ q.step # "finished" /\ q.fires = accum \div SizeBytes
    BY <2>4 DEF Requests
  <2>6. fired' \in Seq(Nat) /\ ledger' \in 0 .. SizeBytes - 1
    BY <1>0, <2>1, <2>4 DEF SizeTypes
  <2> HIDE DEF q
  <2>7. /\ SizeTypes'
        /\ Triggers!Owed' = Triggers!Owed + q.fires - request[c].fires
        /\ Triggers!Owed \in Int /\ Triggers!Accumulated \in Int
        /\ Triggers!Accumulated' =
             Triggers!Accumulated + IF request[c].step = "finished" THEN Delta(c) ELSE 0
    BY <1>0, <2>1, <2>5, <2>6, SizeRequest
  <2>8. /\ Triggers!Owed' = Triggers!Owed + (accum \div SizeBytes)
        /\ Triggers!Accumulated' = Triggers!Accumulated + Delta(c)
    BY <2>1, <2>2, <2>4, <2>5, <2>7
  <2>9. \A n, o, k \in Int : SizeBytes * (n + (o + k)) = SizeBytes * (n + o) + SizeBytes * k
    BY <1>0
  <2>10. ASSUME lost' = {}
         PROVE  Triggers!Accumulated' = SizeBytes * (Len(fired)' + Triggers!Owed') + ledger'
    <3> DEFINE n == Len(fired)  o == Triggers!Owed  k == accum \div SizeBytes
    <3>1. n \in Int /\ o \in Int /\ k \in Int
      BY <1>0, <2>4, <2>7
    <3>2. SizeBytes * (n + (o + k)) = SizeBytes * (n + o) + SizeBytes * k
      BY <2>9, <3>1
    <3>3. /\ Triggers!Accumulated = SizeBytes * (n + o) + ledger
          /\ Triggers!Accumulated' = SizeBytes * (n + o) + ledger + Delta(c)
      BY <1>i, <2>1, <2>8, <2>10
    <3>4. SizeBytes * (n + o) \in Int /\ SizeBytes * k \in Int /\ accum = ledger + Delta(c)
      BY <1>0, <3>1 DEF accum
    <3>5. Triggers!Accumulated' = SizeBytes * (n + (o + k)) + ledger'
      <4> HIDE DEF n, o, k
      <4> DEFINE y == SizeBytes * (n + o)  z == SizeBytes * k  w == SizeBytes * (n + (o + k))
      <4>1. accum = z + ledger'
        BY <2>1, <2>4 DEF k
      <4>2. /\ y \in Int /\ z \in Int /\ ledger' \in Int /\ ledger \in Int /\ Delta(c) \in Int
            /\ w = y + z
            /\ Triggers!Accumulated' = y + ledger + Delta(c) /\ accum = ledger + Delta(c)
        BY <2>1, <2>2, <2>4, <3>2, <3>3, <3>4
      <4> HIDE DEF y, z, w, accum
      <4>3. \A u, v, k1, k2, k3 \in Int : k1 + k2 = v + k3 => u + k1 + k2 = (u + v) + k3
        OBVIOUS
      <4>4. ledger + Delta(c) = z + ledger'
        BY <4>1, <4>2
      <4>5. y + ledger + Delta(c) = (y + z) + ledger'
        BY <4>2, <4>3, <4>4
      <4>6. Triggers!Accumulated' = w + ledger'
        BY <4>2, <4>5
      <4> QED BY <4>6 DEF w
    <3> QED BY <2>1, <2>8, <3>5
  <2> QED BY <2>7, <2>10 DEF SizeInv
<1>4. ASSUME NEW c \in DOMAIN size, Triggers!fireOnce(c) PROVE SizeInv'
  <2> DEFINE q == [request[c] EXCEPT !.fires = @ - 1]
  <2>1. /\ request' = [request EXCEPT ![c] = q] /\ request[c].step = "firing"
        /\ request[c].fires > 0 /\ fired' = Append(fired, c) /\ UNCHANGED <<size, ledger, lost>>
    BY <1>4, <1>d DEF Triggers!fireOnce
  <2>2. q \in Requests /\ q.step # "finished" /\ q.fires = request[c].fires - 1
    BY <1>0, <2>1 DEF Requests
  <2>3. /\ fired' \in Seq(Nat) /\ Len(fired') = Len(fired) + 1 /\ ledger' \in 0 .. SizeBytes - 1
    BY <1>0, <2>1 DEF SizeTypes
  <2>4. request[c].fires \in Nat
    BY <1>0 DEF Requests
  <2> HIDE DEF q
  <2>5. /\ SizeTypes'
        /\ Triggers!Owed' = Triggers!Owed + q.fires - request[c].fires
        /\ Triggers!Owed \in Int /\ Triggers!Accumulated \in Int
        /\ Triggers!Accumulated' =
             Triggers!Accumulated + IF request[c].step = "finished" THEN Delta(c) ELSE 0
    BY <1>0, <2>1, <2>2, <2>3, SizeRequest
  <2>6. Triggers!Accumulated' = Triggers!Accumulated
    BY <2>1, <2>5
  <2>7. Triggers!Owed' = Triggers!Owed - 1
    BY <2>2, <2>4, <2>5
  <2>8. Len(fired') + Triggers!Owed' = Len(fired) + Triggers!Owed
    <3> DEFINE o == Triggers!Owed
    <3>1. o \in Int
      BY <2>5
    <3> HIDE DEF o
    <3>2. (Len(fired) + 1) + (o - 1) = Len(fired) + o
      BY <1>0, <3>1
    <3> QED BY <2>3, <2>7, <3>2 DEF o
  <2> QED BY <1>i, <2>1, <2>5, <2>6, <2>8 DEF SizeInv
<1>5. ASSUME NEW c \in DOMAIN size, Triggers!Done(c) PROVE SizeInv'
  <2> DEFINE q == [request[c] EXCEPT !.step = "over"]
  <2>1. /\ request' = [request EXCEPT ![c] = q] /\ request[c].step = "firing"
        /\ UNCHANGED <<size, ledger, lost, fired>>
    BY <1>5, <1>d DEF Triggers!Done
  <2>2. q \in Requests /\ q.step # "finished" /\ q.fires = request[c].fires
    BY <1>0, <2>1 DEF Requests
  <2>3. fired' \in Seq(Nat) /\ ledger' \in 0 .. SizeBytes - 1 /\ request[c].fires \in Nat
    BY <1>0, <2>1 DEF SizeTypes, Requests
  <2> HIDE DEF q
  <2>5. /\ SizeTypes'
        /\ Triggers!Owed' = Triggers!Owed + q.fires - request[c].fires
        /\ Triggers!Owed \in Int /\ Triggers!Accumulated \in Int
        /\ Triggers!Accumulated' =
             Triggers!Accumulated + IF request[c].step = "finished" THEN Delta(c) ELSE 0
    BY <1>0, <2>1, <2>2, <2>3, SizeRequest
  <2>6. Triggers!Accumulated' = Triggers!Accumulated /\ Triggers!Owed' = Triggers!Owed
    BY <2>1, <2>2, <2>3, <2>5
  <2> QED BY <1>i, <2>1, <2>5, <2>6 DEF SizeInv
<1>6. CASE Triggers!Restart
  <2>1. /\ lost' # {} /\ UNCHANGED <<size, ledger, fired>>
        /\ request' = [c \in DOMAIN size |-> [step |-> "over", fires |-> 0]]
    BY <1>0, <1>6 DEF Triggers!Restart
  <2>2. request' \in Seq(Requests) /\ Len(request') = Len(size)
    <3>1. Len(size) \in Nat /\ [step |-> "over", fires |-> 0] \in Requests
      BY <1>0 DEF SizeTypes, Requests
    <3> QED BY <1>0, <2>1, <3>1
  <2>3. SizeTypes'
    BY <1>0, <2>1, <2>2 DEF SizeTypes
  <2> QED BY <2>1, <2>3 DEF SizeInv
<1> QED BY <1>0, <1>1, <1>2, <1>3, <1>4, <1>5, <1>6 DEF Triggers!Next

LEMMA SizeConserved == SizeInv => Triggers!BytesConserved
<1> SUFFICES ASSUME SizeInv PROVE Triggers!BytesConserved
  OBVIOUS
<1>1. ledger < SizeBytes
  BY SizeAssumption DEF SizeInv, SizeTypes
<1> QED BY <1>1 DEF SizeInv, Triggers!BytesConserved

----------------------------------------------------------------------------
(* Git deliveries.                                                         *)

Members(s) == {s[k] : k \in 1 .. Len(s)}

LEMMA HeadAndTail ==
  ASSUME NEW S, NEW s \in Seq(S), s # <<>>
  PROVE  /\ Head(s) \in S /\ Tail(s) \in Seq(S)
         /\ Members(s) = {Head(s)} \cup Members(Tail(s))
         /\ Tail(s) = <<>> => Members(Tail(s)) = {}
<1>1. /\ Head(s) \in S /\ Tail(s) \in Seq(S) /\ Head(s) = s[1]
      /\ Len(s) \in Nat \ {0} /\ Len(Tail(s)) = Len(s) - 1
      /\ \A k \in 1 .. Len(s) - 1 : Tail(s)[k] = s[k + 1]
  BY HeadTailProperties, EmptySeq
<1>2. \A k \in 1 .. Len(s) : s[k] \in {Head(s)} \cup Members(Tail(s))
  <2> SUFFICES ASSUME NEW k \in 1 .. Len(s), k # 1 PROVE s[k] \in Members(Tail(s))
    BY <1>1
  <2>1. k - 1 \in 1 .. Len(Tail(s)) /\ Tail(s)[k - 1] = s[k]
    BY <1>1
  <2> QED BY <2>1 DEF Members
<1>3. \A k \in 1 .. Len(Tail(s)) : Tail(s)[k] \in Members(s)
  <2> SUFFICES ASSUME NEW k \in 1 .. Len(Tail(s)) PROVE Tail(s)[k] \in Members(s)
    OBVIOUS
  <2>1. k + 1 \in 1 .. Len(s) /\ Tail(s)[k] = s[k + 1]
    BY <1>1
  <2> QED BY <2>1 DEF Members
<1>4. Head(s) \in Members(s)
  BY <1>1 DEF Members
<1>5. Members(s) \subseteq {Head(s)} \cup Members(Tail(s))
  BY <1>2 DEF Members
<1>6. Members(Tail(s)) \subseteq Members(s)
  BY <1>3 DEF Members
<1>7. Tail(s) = <<>> => Members(Tail(s)) = {}
  <2>1. Members(<<>>) = {}
    BY DEF Members
  <2> QED BY <2>1
<1> QED BY <1>1, <1>4, <1>5, <1>6, <1>7

LEMMA GitSelected == ASSUME NEW s, NEW P PROVE Git!Selected(s, P) = Selected(s, P)
BY DEF Git!Selected, Git!FoldLeft, Git!MapThenFoldSet, Git!Max,
       Selected, FoldLeft, MapThenFoldSet, Max

(* A delivery goes to the repository of every pipeline that it binds.      *)
LEMMA GitBoundRepos ==
  /\ Git!BoundRepos \in Seq(Git!Repos)
  /\ \A p \in Git!Bound : GitOf[p].repo \in Members(Git!BoundRepos)
  /\ Git!Bound # {} => Git!BoundRepos # <<>>
<1> DEFINE P == {r \in Git!Repos : Git!BoundTo(r) # {}}
           q == Selected(RepoOrder, P)
<1>1. Git!BoundRepos = q
  BY GitSelected DEF Git!BoundRepos
<1>2. RepoOrder \in Seq(Range(RepoOrder)) /\ Range(RepoOrder) = Git!Repos
  BY GitAssumption DEF Range, Git!Repos
<1> HIDE DEF P
<1>3. /\ q \in Seq(Git!Repos \cap P)
      /\ \A k \in DOMAIN RepoOrder : RepoOrder[k] \in P => \E m \in DOMAIN q : q[m] = RepoOrder[k]
  <2>1. SelectionOf(q, Git!Repos, P, RepoOrder)
    BY <1>2, SelectedAre
  <2> HIDE DEF q
  <2> QED BY <2>1 DEF SelectionOf
<1> HIDE DEF q
<1>4. q \in Seq(Git!Repos)
  <2>1. \A n \in 1 .. Len(q) : q[n] \in Git!Repos \cap P
    BY <1>3, ElementOfSeq
  <2>2. q = [n \in 1 .. Len(q) |-> q[n]] /\ Len(q) \in Nat
    BY <1>3
  <2> QED BY <2>1, <2>2
<1>5. ASSUME NEW p \in Git!Bound PROVE GitOf[p].repo \in Members(q)
  <2>1. p \in GitPipes /\ GitOf[p].repo \in Git!Repos
    BY <1>2, GitAssumption DEF Git!Bound
  <2>2. p \in Git!BoundTo(GitOf[p].repo)
    BY DEF Git!BoundTo
  <2>3. GitOf[p].repo \in P
    BY <2>1, <2>2 DEF P
  <2>4. PICK k \in DOMAIN RepoOrder : RepoOrder[k] = GitOf[p].repo
    BY <2>1 DEF Git!Repos
  <2>5. PICK m \in DOMAIN q : q[m] = GitOf[p].repo
    BY <1>3, <2>3, <2>4
  <2>6. m \in 1 .. Len(q)
    BY <1>4, <2>5
  <2> QED BY <2>5, <2>6 DEF Members
<1>6. Git!Bound # {} => q # <<>>
  <2> SUFFICES ASSUME NEW p \in Git!Bound, q = <<>> PROVE FALSE
    OBVIOUS
  <2>1. Members(q) = {}
    BY DEF Members
  <2> QED BY <1>5, <2>1
<1> QED BY <1>1, <1>4, <1>5, <1>6

RequestFields == {"step", "kind", "base", "files", "deleted", "todo", "commit"}
GitRequest(q) ==
  /\ DOMAIN q = RequestFields /\ q.step \in Git!Steps /\ q.todo \in Seq(Git!Repos)
  /\ q.step \notin {"idle", "over"} => q.todo # <<>>

GitTypes ==
  /\ DOMAIN gitHead = Git!Repos /\ DOMAIN pipe = GitPipes /\ DOMAIN triggered = GitPipes
  /\ \A p \in GitPipes : p \notin Git!Bound => pipe[p] = "running"
  /\ DOMAIN req = Deliveries /\ \A d \in Deliveries : GitRequest(req[d])

(* How request q is going to trigger p for its repository's head h: it is  *)
(* the request that made this head, or a delivery whose own commit in that *)
(* repository is still to come.                                            *)
Announces(q, p, h) ==
  q.step = "trigger" /\ Head(q.todo) = GitOf[p].repo /\ q.commit = h
Brings(q, p) ==
  /\ p \in Git!Bound
  /\ \/ q.step \in {"check", "clear", "start", "write"} /\ GitOf[p].repo \in Members(q.todo)
     \/ q.step = "trigger" /\ GitOf[p].repo \in Members(Tail(q.todo))
HeadOf(p) == gitHead[GitOf[p].repo]
Told(p) == HeadOf(p) = 0 \/ HeadOf(p) \in triggered[p]

(* No head is overlooked: of a pipeline that is not failed, or no longer.  *)
GitInv ==
  /\ GitTypes
  /\ ~abandoned => \A p \in GitPipes : pipe[p] = "running" =>
       Told(p) \/ \E d \in Deliveries : Announces(req[d], p, HeadOf(p)) \/ Brings(req[d], p)

LEMMA GitInitial == ASSUME Git!Init PROVE GitInv
<1>1. /\ gitHead = [r \in Git!Repos |-> 0] /\ pipe = [p \in GitPipes |-> "running"]
      /\ triggered = [p \in GitPipes |-> {}]
      /\ req = [d \in Deliveries |-> Git!NoRequest]
  BY DEF Git!Init
<1>2. \A p \in GitPipes : GitOf[p].repo \in Git!Repos
  BY GitAssumption DEF Range, Git!Repos
<1>3. GitRequest(Git!NoRequest)
  BY DEF GitRequest, Git!NoRequest, RequestFields, Git!Steps
<1>4. \A p \in GitPipes : Told(p)
  BY <1>1, <1>2 DEF Told, HeadOf
<1> QED BY <1>1, <1>3, <1>4 DEF GitInv, GitTypes

LEMMA GitNotSilenced == GitInv => Git!NotSilenced
<1> SUFFICES ASSUME GitInv, Git!Idle, ~abandoned, NEW p \in GitPipes, pipe[p] = "running"
             PROVE  HeadOf(p) # 0 => HeadOf(p) \in triggered[p]
  BY DEF Git!NotSilenced, HeadOf
<1>1. \A d \in Deliveries : req[d].step \in {"idle", "over"}
  BY DEF Git!Idle
<1>2. Told(p)
  BY <1>1 DEF GitInv, Announces, Brings
<1> QED BY <1>2 DEF Told

(* Request d becomes q.  A pipeline that was told of its head, or is about *)
(* to be by another request, stays so; the others are up to q.             *)
CarriesOn(d, q) ==
  \A p \in GitPipes : pipe'[p] = "running" /\ ~abandoned' =>
    \/ Told(p)' \/ Announces(q, p, HeadOf(p)') \/ Brings(q, p)
    \/ /\ pipe[p] = "running" /\ ~abandoned /\ HeadOf(p)' = HeadOf(p)
       /\ triggered[p] \subseteq triggered'[p]
       /\ ~Announces(req[d], p, HeadOf(p)) /\ ~Brings(req[d], p)

LEMMA GitMoves ==
  ASSUME GitInv, NEW d \in Deliveries, NEW q, GitRequest(q), req' = [req EXCEPT ![d] = q],
         DOMAIN gitHead' = Git!Repos, DOMAIN pipe' = GitPipes, DOMAIN triggered' = GitPipes,
         \A p \in GitPipes : p \notin Git!Bound => pipe'[p] = "running",
         CarriesOn(d, q)
  PROVE  GitInv'
<1>1. /\ DOMAIN req' = Deliveries /\ req'[d] = q
      /\ \A e \in Deliveries \ {d} : req'[e] = req[e]
  BY DEF GitInv, GitTypes
<1>2. GitTypes'
  BY <1>1 DEF GitInv, GitTypes
<1>3. ASSUME NEW p \in GitPipes, pipe'[p] = "running", ~abandoned'
      PROVE  \/ Told(p)'
             \/ \E e \in Deliveries : Announces(req'[e], p, HeadOf(p)') \/ Brings(req'[e], p)
  <2>1. CASE Told(p)' \/ Announces(q, p, HeadOf(p)') \/ Brings(q, p)
    BY <1>1, <2>1
  <2>2. CASE /\ pipe[p] = "running" /\ ~abandoned /\ HeadOf(p)' = HeadOf(p)
             /\ triggered[p] \subseteq triggered'[p]
             /\ ~Announces(req[d], p, HeadOf(p)) /\ ~Brings(req[d], p)
    <3>1. CASE Told(p)
      BY <2>2, <3>1 DEF Told
    <3>2. CASE \E e \in Deliveries : Announces(req[e], p, HeadOf(p)) \/ Brings(req[e], p)
      <4>1. PICK e \in Deliveries : Announces(req[e], p, HeadOf(p)) \/ Brings(req[e], p)
        BY <3>2
      <4>2. e # d /\ req'[e] = req[e]
        BY <1>1, <2>2, <4>1
      <4> QED BY <2>2, <4>1, <4>2
    <3> QED BY <2>2, <3>1, <3>2 DEF GitInv
  <2> QED BY <1>3, <2>1, <2>2 DEF CarriesOn
<1>4. \A e \in Deliveries, p \in GitPipes : Brings(req[e], p)' <=> Brings(req'[e], p)
  BY DEF Brings
<1>5. \A e \in Deliveries, p \in GitPipes :
        Announces(req[e], p, HeadOf(p))' <=> Announces(req'[e], p, HeadOf(p)')
  BY DEF Announces
<1> QED BY <1>2, <1>3, <1>4, <1>5 DEF GitInv

(* A request turns to its next repository.                                 *)
LEMMA GitTurns ==
  ASSUME GitInv, NEW d \in Deliveries, req[d].step \notin {"idle", "over"},
         NEW q, q = [req[d] EXCEPT !.step = Git!After(d), !.todo = Tail(@)]
  PROVE  /\ GitRequest(q) /\ GitRequest(req[d])
         /\ Members(req[d].todo) = {Git!Repo(d)} \cup Members(Tail(req[d].todo))
         /\ \A p \in Git!Bound : GitOf[p].repo \in Members(Tail(req[d].todo)) => Brings(q, p)
<1>1. GitRequest(req[d]) /\ req[d].todo # <<>> /\ req[d].todo \in Seq(Git!Repos)
  BY DEF GitInv, GitTypes, GitRequest
<1>2. /\ Tail(req[d].todo) \in Seq(Git!Repos)
      /\ Members(req[d].todo) = {Head(req[d].todo)} \cup Members(Tail(req[d].todo))
      /\ Tail(req[d].todo) = <<>> => Members(Tail(req[d].todo)) = {}
  BY <1>1, HeadAndTail
<1>3. /\ Git!After(d) \in {"over", "check", "start"}
      /\ Git!After(d) = "over" <=> Tail(req[d].todo) = <<>>
  BY DEF Git!After
<1>4. /\ DOMAIN q = RequestFields /\ q.step = Git!After(d) /\ q.todo = Tail(req[d].todo)
  BY <1>1 DEF GitRequest, RequestFields
<1>5. GitRequest(q)
  BY <1>2, <1>3, <1>4 DEF GitRequest, Git!Steps
<1>6. \A p \in Git!Bound : GitOf[p].repo \in Members(Tail(req[d].todo)) => Brings(q, p)
  BY <1>2, <1>3, <1>4 DEF Brings
<1> QED BY <1>1, <1>2, <1>5, <1>6 DEF Git!Repo

(* A request that is not over changes its step, and covers what it did.    *)
LEMMA GitSteps ==
  ASSUME GitInv, NEW d \in Deliveries, req[d].step \in {"check", "clear", "start"},
         NEW st \in {"clear", "start", "write"},
         NEW q, DOMAIN q = RequestFields, q.step = st, q.todo = req[d].todo
  PROVE  /\ GitRequest(q) /\ \A h : \A p \in GitPipes : ~Announces(req[d], p, h)
         /\ \A p \in GitPipes : Brings(req[d], p) => Brings(q, p)
         /\ \A p \in Git!Bound : GitOf[p].repo = Git!Repo(d) => Brings(q, p)
<1>1. GitRequest(req[d]) /\ req[d].todo # <<>> /\ req[d].todo \in Seq(Git!Repos)
  BY DEF GitInv, GitTypes, GitRequest
<1>2. Git!Repo(d) \in Members(req[d].todo)
  BY <1>1, HeadAndTail DEF Git!Repo
<1> QED BY <1>1, <1>2 DEF GitRequest, Git!Steps, Announces, Brings

(* The requests that begin.                                                *)
LEMMA GitBegins ==
  ASSUME GitInv, NEW d \in Deliveries, Git!DeliverPrivate(d) \/ Git!Deliver(d) \/ Git!Author(d)
  PROVE  GitInv'
<1>1. /\ req[d].step = "idle" /\ UNCHANGED <<gitHead, triggered, abandoned>>
      /\ DOMAIN req = Deliveries /\ GitRequest(req[d])
  BY DEF Git!DeliverPrivate, Git!Deliver, Git!Author, GitInv, GitTypes
<1>2. /\ DOMAIN gitHead' = Git!Repos /\ DOMAIN triggered' = GitPipes
      /\ \A p \in GitPipes : HeadOf(p)' = HeadOf(p) /\ triggered[p] \subseteq triggered'[p]
      /\ \A p \in GitPipes : ~Announces(req[d], p, HeadOf(p)) /\ ~Brings(req[d], p)
  BY <1>1 DEF GitInv, GitTypes, HeadOf, Announces, Brings
<1>b. Git!Bound \subseteq GitPipes
  BY DEF Git!Bound
<1>3. CASE Git!DeliverPrivate(d)
  <2> DEFINE q == [req[d] EXCEPT !.step = "over"]
  <2>1. /\ req' = [req EXCEPT ![d] = q]
        /\ pipe' = [p \in GitPipes |-> IF p \in Git!Bound THEN "clone" ELSE pipe[p]]
    BY <1>1, <1>3 DEF Git!DeliverPrivate, Git!markPipelineFailed
  <2>2. GitRequest(q)
    BY <1>1 DEF GitRequest, RequestFields, Git!Steps
  <2>3. /\ DOMAIN pipe' = GitPipes
        /\ \A p \in GitPipes : p \notin Git!Bound => pipe'[p] = "running"
        /\ \A p \in GitPipes : pipe'[p] = "running" => pipe[p] = "running"
    BY <2>1 DEF GitInv, GitTypes
  <2> HIDE DEF q
  <2>9. CarriesOn(d, q)
    BY <1>1, <1>2, <2>1, <2>2, <2>3 DEF CarriesOn
  <2> QED BY <1>1, <1>2, <2>1, <2>2, <2>3, <2>9, GitMoves
<1>4. CASE Git!Deliver(d)
  <2>1. PICK q : /\ req' = [req EXCEPT ![d] = q] /\ DOMAIN q = RequestFields
                 /\ q.step \in {"start", "check"} /\ q.todo = Git!BoundRepos
    <3>1. PICK kind, edit, base :
            req' = [req EXCEPT ![d] =
              [step |-> IF kind = "push" THEN "start" ELSE "check", kind |-> kind,
               base |-> base, files |-> edit.files, deleted |-> edit.deleted,
               todo |-> Git!BoundRepos, commit |-> 0]]
      BY <1>4 DEF Git!Deliver
    <3> DEFINE q == [step |-> IF kind = "push" THEN "start" ELSE "check", kind |-> kind,
                     base |-> base, files |-> edit.files, deleted |-> edit.deleted,
                     todo |-> Git!BoundRepos, commit |-> 0]
    <3>2. /\ DOMAIN q = RequestFields
          /\ q.step \in {"start", "check"} /\ q.todo = Git!BoundRepos
      BY DEF RequestFields
    <3> QED BY <3>1, <3>2
  <2>2. /\ Git!Bound # {}
        /\ pipe' = [p \in GitPipes |-> IF p \in Git!Bound /\ pipe[p] = "clone" THEN "running"
                                       ELSE pipe[p]]
    BY <1>4 DEF Git!Deliver, Git!clearPipelineFailure
  <2>3. GitRequest(q) /\ \A p \in Git!Bound : Brings(q, p)
    BY <2>1, <2>2, GitBoundRepos DEF GitRequest, Git!Steps, Brings
  <2>4. /\ DOMAIN pipe' = GitPipes
        /\ \A p \in GitPipes : p \notin Git!Bound => pipe'[p] = "running" /\ pipe[p] = "running"
    BY <2>2 DEF GitInv, GitTypes
  <2>9. CarriesOn(d, q)
    BY <1>1, <1>2, <2>1, <2>3, <2>4 DEF CarriesOn
  <2> QED BY <1>1, <1>2, <2>1, <2>3, <2>4, <2>9, GitMoves
<1>5. CASE Git!Author(d)
  <2>1. \E r \in Git!Repos : \E q : /\ req' = [req EXCEPT ![d] = q] /\ DOMAIN q = RequestFields
                                     /\ q.step = "start" /\ q.todo = <<r>>
    <3>1. PICK r \in Git!Repos, edit \in Edits :
            req' = [req EXCEPT ![d] =
              [Git!NoRequest EXCEPT !.step = "start", !.kind = "author", !.todo = <<r>>,
                                    !.files = edit.files, !.deleted = edit.deleted]]
      BY <1>5 DEF Git!Author
    <3> DEFINE q == [Git!NoRequest EXCEPT !.step = "start", !.kind = "author", !.todo = <<r>>,
                                          !.files = edit.files, !.deleted = edit.deleted]
    <3>2. DOMAIN q = RequestFields /\ q.step = "start" /\ q.todo = <<r>>
      BY DEF RequestFields, Git!NoRequest
    <3> QED BY <3>1, <3>2
  <2>2. PICK q : req' = [req EXCEPT ![d] = q] /\ GitRequest(q)
    <3>1. PICK r \in Git!Repos : \E q : /\ req' = [req EXCEPT ![d] = q] /\ DOMAIN q = RequestFields
                                       /\ q.step = "start" /\ q.todo = <<r>>
      BY <2>1
    <3>2. <<r>> \in Seq(Git!Repos) /\ <<r>> # <<>>
      OBVIOUS
    <3> QED BY <3>1, <3>2 DEF GitRequest, Git!Steps
  <2>3. /\ DOMAIN pipe' = GitPipes
        /\ \A p \in GitPipes : p \notin Git!Bound => pipe'[p] = "running"
    BY <1>5 DEF Git!Author, GitInv, GitTypes
  <2>4. pipe' = pipe
    BY <1>5 DEF Git!Author
  <2>9. CarriesOn(d, q)
    BY <1>1, <1>2, <2>4 DEF CarriesOn
  <2> QED BY <1>1, <1>2, <2>2, <2>3, <2>9, GitMoves
<1> QED BY <1>3, <1>4, <1>5

(* The check of the base, and the start of a commit.                       *)
LEMMA GitChecks ==
  ASSUME GitInv, NEW d \in Deliveries,
         Git!CheckBase(d) \/ Git!RefuseBase(d) \/ Git!LiftBase(d) \/ Git!StartCommit(d)
  PROVE  GitInv'
<1>1. /\ req[d].step \in {"check", "clear", "start"} /\ UNCHANGED <<gitHead, triggered, abandoned>>
      /\ DOMAIN req = Deliveries /\ GitRequest(req[d])
  BY DEF Git!CheckBase, Git!RefuseBase, Git!LiftBase, Git!StartCommit, GitInv, GitTypes
<1>2. /\ DOMAIN gitHead' = Git!Repos /\ DOMAIN triggered' = GitPipes /\ DOMAIN pipe = GitPipes
      /\ \A p \in GitPipes : HeadOf(p)' = HeadOf(p) /\ triggered[p] \subseteq triggered'[p]
      /\ \A p \in GitPipes : ~Announces(req[d], p, HeadOf(p))
      /\ \A p \in GitPipes : p \notin Git!Bound => pipe[p] = "running"
  BY <1>1 DEF GitInv, GitTypes, HeadOf, Announces
<1>3. CASE Git!CheckBase(d) \/ Git!StartCommit(d)
  <2>1. PICK q : /\ req' = [req EXCEPT ![d] = q] /\ DOMAIN q = RequestFields
                 /\ q.step \in {"clear", "write"} /\ q.todo = req[d].todo
    <3>1. CASE Git!CheckBase(d)
      <4> DEFINE q == [req[d] EXCEPT !.step = "clear"]
      <4>1. req' = [req EXCEPT ![d] = q]
        BY <1>1, <3>1 DEF Git!CheckBase
      <4>2. DOMAIN q = RequestFields /\ q.step = "clear" /\ q.todo = req[d].todo
        BY <1>1 DEF GitRequest, RequestFields
      <4> QED BY <4>1, <4>2
    <3>2. CASE Git!StartCommit(d)
      <4> DEFINE q == [req[d] EXCEPT !.step = "write", !.commit = Len(commit) + 1]
      <4>1. req' = [req EXCEPT ![d] = q]
        BY <1>1, <3>2 DEF Git!StartCommit
      <4>2. DOMAIN q = RequestFields /\ q.step = "write" /\ q.todo = req[d].todo
        BY <1>1 DEF GitRequest, RequestFields
      <4> QED BY <4>1, <4>2
    <3> QED BY <1>3, <3>1, <3>2
  <2>2. pipe' = pipe
    BY <1>3 DEF Git!CheckBase, Git!StartCommit
  <2>3. GitRequest(q) /\ \A p \in GitPipes : Brings(req[d], p) => Brings(q, p)
    BY <1>1, <2>1, GitSteps
  <2>9. CarriesOn(d, q)
    BY <1>1, <1>2, <2>1, <2>2, <2>3 DEF CarriesOn
  <2> QED BY <1>1, <1>2, <2>1, <2>2, <2>3, <2>9, GitMoves
<1>4. CASE Git!LiftBase(d)
  <2> DEFINE q == [req[d] EXCEPT !.step = "start"]
  <2>1. /\ req' = [req EXCEPT ![d] = q] /\ DOMAIN q = RequestFields
        /\ q.step = "start" /\ q.todo = req[d].todo
        /\ pipe' = [p \in GitPipes |->
             IF p \in Git!BoundTo(Git!Repo(d)) /\ pipe[p] = "base" THEN "running" ELSE pipe[p]]
    BY <1>1, <1>4 DEF Git!LiftBase, Git!clearPipelineFailure, GitRequest, RequestFields
  <2> HIDE DEF q
  <2>2. /\ GitRequest(q) /\ \A p \in GitPipes : Brings(req[d], p) => Brings(q, p)
        /\ \A p \in Git!Bound : GitOf[p].repo = Git!Repo(d) => Brings(q, p)
    BY <1>1, <2>1, GitSteps
  <2>3. /\ DOMAIN pipe' = GitPipes
        /\ \A p \in GitPipes : p \notin Git!Bound => pipe'[p] = "running"
        /\ \A p \in GitPipes : pipe'[p] = "running" => pipe[p] = "running" \/ Brings(q, p)
    BY <1>2, <2>1, <2>2 DEF Git!BoundTo
  <2>9. CarriesOn(d, q)
    BY <1>1, <1>2, <2>1, <2>2, <2>3 DEF CarriesOn
  <2> QED BY <1>1, <1>2, <2>1, <2>2, <2>3, <2>9, GitMoves
<1>5. CASE Git!RefuseBase(d)
  <2> DEFINE q == [req[d] EXCEPT !.step = Git!After(d), !.todo = Tail(@)]
  <2>1. /\ req' = [req EXCEPT ![d] = q] /\ req[d].step = "check"
        /\ pipe' = [p \in GitPipes |-> IF p \in Git!BoundTo(Git!Repo(d)) THEN "base" ELSE pipe[p]]
    BY <1>1, <1>5 DEF Git!RefuseBase, Git!markPipelineFailed
  <2>2. /\ GitRequest(q)
        /\ Members(req[d].todo) = {Git!Repo(d)} \cup Members(Tail(req[d].todo))
        /\ \A p \in Git!Bound : GitOf[p].repo \in Members(Tail(req[d].todo)) => Brings(q, p)
    BY <2>1, GitTurns
  <2> HIDE DEF q
  <2>3. /\ DOMAIN pipe' = GitPipes
        /\ \A p \in GitPipes : p \notin Git!Bound => pipe'[p] = "running"
        /\ \A p \in GitPipes : pipe'[p] = "running" =>
             pipe[p] = "running" /\ (p \in Git!Bound => GitOf[p].repo # Git!Repo(d))
    BY <1>2, <2>1 DEF Git!BoundTo
  <2>4. \A p \in GitPipes : pipe'[p] = "running" /\ Brings(req[d], p) => Brings(q, p)
    BY <2>1, <2>2, <2>3 DEF Brings
  <2>9. CarriesOn(d, q)
    BY <1>1, <1>2, <2>1, <2>2, <2>3, <2>4 DEF CarriesOn
  <2> QED BY <1>1, <1>2, <2>1, <2>2, <2>3, <2>4, <2>9, GitMoves
<1> QED BY <1>3, <1>4, <1>5

(* The end of a commit, and its trigger.                                   *)
LEMMA GitCommits ==
  ASSUME GitInv, NEW d \in Deliveries,
         Git!FinishCommit(d) \/ Git!Abandon(d) \/ Git!triggerForCommit(d)
  PROVE  GitInv'
<1>1. /\ req[d].step \in {"write", "trigger"} /\ pipe' = pipe
      /\ DOMAIN req = Deliveries /\ GitRequest(req[d])
  BY DEF Git!FinishCommit, Git!Abandon, Git!triggerForCommit, GitInv, GitTypes
<1>2. /\ DOMAIN gitHead = Git!Repos /\ DOMAIN triggered = GitPipes
      /\ DOMAIN pipe' = GitPipes
      /\ \A p \in GitPipes : p \notin Git!Bound => pipe'[p] = "running"
      /\ \A p \in GitPipes : GitOf[p].repo \in Git!Repos
  BY <1>1, GitAssumption DEF GitInv, GitTypes, Range, Git!Repos
<1>3. /\ Members(req[d].todo) = {Git!Repo(d)} \cup Members(Tail(req[d].todo))
      /\ Git!Repo(d) = Head(req[d].todo) /\ Git!Repo(d) \in Git!Repos
  <2>1. req[d].todo # <<>> /\ req[d].todo \in Seq(Git!Repos)
    BY <1>1 DEF GitRequest
  <2> QED BY <2>1, HeadAndTail DEF Git!Repo
<1>4. CASE Git!FinishCommit(d)
  <2> DEFINE q == [req[d] EXCEPT !.step = "trigger"]
  <2>1. /\ req' = [req EXCEPT ![d] = q] /\ req[d].step = "write"
        /\ gitHead' = [gitHead EXCEPT ![Git!Repo(d)] = req[d].commit]
        /\ UNCHANGED <<triggered, abandoned>>
    BY <1>1, <1>4 DEF Git!FinishCommit
  <2>2. /\ DOMAIN q = RequestFields /\ q.step = "trigger" /\ q.todo = req[d].todo
        /\ q.commit = req[d].commit
    BY <1>1 DEF GitRequest, RequestFields
  <2> HIDE DEF q
  <2>3. GitRequest(q) /\ DOMAIN gitHead' = Git!Repos /\ DOMAIN triggered' = GitPipes
    BY <1>1, <1>2, <2>1, <2>2 DEF GitRequest, Git!Steps
  <2>4. ASSUME NEW p \in GitPipes, GitOf[p].repo = Git!Repo(d)
        PROVE  Announces(q, p, HeadOf(p)')
    BY <1>2, <1>3, <2>1, <2>2, <2>4 DEF Announces, HeadOf
  <2>5. ASSUME NEW p \in GitPipes, GitOf[p].repo # Git!Repo(d)
        PROVE  /\ HeadOf(p)' = HeadOf(p) /\ ~Announces(req[d], p, HeadOf(p))
               /\ Brings(req[d], p) => Brings(q, p)
    BY <1>2, <1>3, <2>1, <2>2, <2>5 DEF Announces, HeadOf, Brings
  <2>9. CarriesOn(d, q)
    BY <1>1, <2>1, <2>4, <2>5 DEF CarriesOn
  <2> QED BY <1>2, <2>1, <2>3, <2>9, GitMoves
<1>5. CASE Git!Abandon(d)
  <2> DEFINE q == [req[d] EXCEPT !.step = Git!After(d), !.todo = Tail(@)]
  <2>1. req' = [req EXCEPT ![d] = q] /\ abandoned' /\ UNCHANGED <<gitHead, triggered>>
    BY <1>1, <1>5 DEF Git!Abandon
  <2>2. GitRequest(q)
    BY <1>1, GitTurns
  <2> HIDE DEF q
  <2>3. DOMAIN gitHead' = Git!Repos /\ DOMAIN triggered' = GitPipes
    BY <1>2, <2>1
  <2>9. CarriesOn(d, q)
    BY <2>1 DEF CarriesOn
  <2> QED BY <1>2, <2>1, <2>2, <2>3, <2>9, GitMoves
<1>6. CASE Git!triggerForCommit(d)
  <2> DEFINE q == [req[d] EXCEPT !.step = Git!After(d), !.todo = Tail(@)]
  <2>1. /\ req' = [req EXCEPT ![d] = q] /\ UNCHANGED <<gitHead, abandoned>>
        /\ req[d].step = "trigger"
        /\ triggered' = [p \in GitPipes |->
             IF GitOf[p].repo = Git!Repo(d) /\ pipe[p] = "running"
               THEN triggered[p] \cup {req[d].commit} ELSE triggered[p]]
    BY <1>1, <1>6 DEF Git!triggerForCommit
  <2>2. /\ GitRequest(q)
        /\ \A p \in Git!Bound : GitOf[p].repo \in Members(Tail(req[d].todo)) => Brings(q, p)
    BY <1>1, <2>1, GitTurns
  <2> HIDE DEF q
  <2>3. /\ DOMAIN gitHead' = Git!Repos /\ DOMAIN triggered' = GitPipes
        /\ \A p \in GitPipes : HeadOf(p)' = HeadOf(p) /\ triggered[p] \subseteq triggered'[p]
    BY <1>2, <2>1 DEF HeadOf
  <2>4. ASSUME NEW p \in GitPipes, Announces(req[d], p, HeadOf(p)), pipe[p] = "running"
        PROVE  Told(p)'
    BY <1>3, <2>1, <2>3, <2>4 DEF Announces, Told, HeadOf
  <2>5. \A p \in GitPipes : Brings(req[d], p) => Brings(q, p)
    BY <2>1, <2>2 DEF Brings
  <2>9. CarriesOn(d, q)
    BY <1>1, <2>1, <2>3, <2>4, <2>5 DEF CarriesOn
  <2> QED BY <1>2, <2>1, <2>2, <2>3, <2>9, GitMoves
<1> QED BY <1>4, <1>5, <1>6

LEMMA GitStep ==
  ASSUME GitInv, [Git!Next]_gitVars
  PROVE  GitInv'
<1>1. CASE UNCHANGED gitVars
  BY <1>1 DEF gitVars, GitInv, GitTypes, Told, HeadOf, Announces, Brings
<1>2. CASE Git!Next
  BY <1>2, GitBegins, GitChecks, GitCommits DEF Git!Next
<1> QED BY <1>1, <1>2

----------------------------------------------------------------------------
(* Datum records.                                                          *)

Jobs == [state : {"none", "running"}, view : [Memory!Datums -> MemContents \cup {Absent}],
         version : 0 .. MemVersions, dedup : [Memory!Datums -> Memory!Records],
         skipped : SUBSET Memory!Datums, todo : SUBSET Memory!Datums,
         active : SUBSET Memory!Datums, killed : BOOLEAN]

MemoryTypes ==
  table \in [Memory!Datums -> Memory!Records] /\ version \in Memory!Versions /\ memJob \in Jobs

(* A record of a success holds the files of its content, and which         *)
(* transform made them.                                                    *)
RecordSound(record, d) ==
  record.outcome = "success" => /\ record.hash \in MemContents /\ record.transform # 0
                                /\ record.files = <<d, record.hash, record.transform>>
Produced(j, d) == /\ j.dedup[d].files = <<d, j.view[d], j.version>>
                  /\ j.dedup[d].transform = j.version

(* A job skips what succeeded before with this content, and what it has    *)
(* done itself is of this content and its transform.                       *)
JobGood(j) ==
  /\ j.version \in Memory!Versions
  /\ j.todo \cap j.skipped = {} /\ j.todo \cup j.skipped = Memory!Input(j) /\ j.active \subseteq j.todo
  /\ \A d \in Memory!Datums : RecordSound(j.dedup[d], d)
  /\ \A d \in j.skipped : j.dedup[d].outcome = "success" /\ j.dedup[d].hash = j.view[d]
  /\ \A d \in j.active : j.dedup[d].outcome \in {"success", "recovered"} => Produced(j, d)

MemoryInv ==
  /\ MemoryTypes
  /\ \A d \in Memory!Datums : RecordSound(table[d], d)
  /\ Memory!Running => JobGood(memJob)
  /\ Memory!OutputCurrent

LEMMA MemoryBlank ==
  /\ Memory!NoRecord \in Memory!Records /\ Memory!NoRecord.outcome = ""
  /\ Memory!NotSpawned \in Jobs /\ Memory!NotSpawned.state = "none" /\ Memory!NotSpawned.active = {}
<1>1. Memory!NoRecord \in Memory!Records /\ Memory!NoRecord.outcome = ""
  BY MemoryAssumption DEF Memory!NoRecord, Memory!Records
<1>2. [d \in Memory!Datums |-> Memory!NoRecord] \in [Memory!Datums -> Memory!Records]
  BY <1>1
<1>3. Memory!NotSpawned \in Jobs
  BY <1>2, MemoryAssumption DEF Memory!NotSpawned, Jobs
<1>4. Memory!NotSpawned.state = "none" /\ Memory!NotSpawned.active = {}
  BY DEF Memory!NotSpawned
<1> QED BY <1>1, <1>3, <1>4

LEMMA MemoryInitial == ASSUME Memory!Init PROVE MemoryInv
<1>1. /\ table = [d \in Memory!Datums |-> Memory!NoRecord] /\ version = 1
      /\ memJob = Memory!NotSpawned /\ last = Memory!Settled(Memory!NotSpawned, "none")
  BY DEF Memory!Init
<1>2. /\ Memory!NoRecord \in Memory!Records /\ Memory!NoRecord.outcome = ""
      /\ Memory!NotSpawned \in Jobs /\ Memory!NotSpawned.state = "none"
  BY MemoryBlank
<1>4. MemoryTypes
  <2>1. table \in [Memory!Datums -> Memory!Records] /\ memJob \in Jobs
    BY <1>1, <1>2
  <2>2. version \in Memory!Versions
    BY <1>1, MemoryAssumption DEF Memory!Versions
  <2> QED BY <2>1, <2>2 DEF MemoryTypes
<1>5. Memory!OutputCurrent
  BY <1>1 DEF Memory!OutputCurrent, Memory!Settled
<1> QED BY <1>1, <1>2, <1>4, <1>5 DEF MemoryInv, RecordSound, Memory!Running

LEMMA MemoryIsSound == MemoryInv => Memory!OutputCurrent /\ Memory!SkipsAreEarned
BY DEF MemoryInv, RecordSound, Memory!SkipsAreEarned

(* What a job publishes when every datum of its input is there.            *)
LEMMA MemorySelected == ASSUME NEW s, NEW P PROVE Memory!Selected(s, P) = Selected(s, P)
BY DEF Memory!Selected, Memory!FoldLeft, Memory!MapThenFoldSet, Memory!Max,
       Selected, FoldLeft, MapThenFoldSet, Max

(* out is what the datums of D have, in their order.                       *)
InDatumOrder(out, D, j) ==
  \E order \in [DOMAIN out -> D] :
    /\ \A n \in DOMAIN out : out[n] = j.dedup[order[n]].files
    /\ \A n, m \in DOMAIN out : n < m => order[n] < order[m]
    /\ \A d \in D : \E n \in DOMAIN out : order[n] = d

Contributors(j, p) == {d \in Memory!Datums : MemPathOf[d] = p /\ Memory!Contributes(j, d)}

LEMMA MergedInOrder ==
  ASSUME NEW j, NEW p \in Memory!Paths
  PROVE  InDatumOrder(Memory!mergeOutputs(j)[p], Contributors(j, p), j)
<1> DEFINE s == [d \in Memory!Datums |-> d]
           D == Contributors(j, p)
           q == Selected(s, D)
           out == [n \in DOMAIN q |-> j.dedup[q[n]].files]
<1>1. Memory!mergeOutputs(j)[p] = out
  BY MemorySelected DEF Memory!mergeOutputs, Contributors
<1>2. s \in Seq(Nat) /\ DOMAIN s = Memory!Datums /\ \A d \in Memory!Datums : s[d] = d /\ d \in Nat
  BY MemoryAssumption DEF Memory!Datums
<1>3. D \subseteq Memory!Datums
  BY DEF Contributors
<1> HIDE DEF D, s
<1>4. SelectionOf(q, Nat, D, s)
  BY <1>2, SelectedAre
<1> HIDE DEF q
<1>5. /\ q \in Seq(Nat \cap D)
      /\ \A k \in DOMAIN s : s[k] \in D => \E m \in DOMAIN q : q[m] = s[k]
  BY <1>4 DEF SelectionOf
<1>6. PICK at \in [DOMAIN q -> DOMAIN s] :
        /\ \A m \in DOMAIN q : q[m] = s[at[m]]
        /\ \A l, m \in DOMAIN q : l < m => at[l] < at[m]
  BY <1>4 DEF SelectionOf
<1>7. q \in [DOMAIN q -> D] /\ DOMAIN out = DOMAIN q
  <2>1. \A n \in 1 .. Len(q) : q[n] \in Nat \cap D
    BY <1>5, ElementOfSeq
  <2> QED BY <1>5, <2>1
<1>8. \A n, m \in DOMAIN q : n < m => q[n] < q[m]
  BY <1>2, <1>6
<1>9. \A d \in D : \E n \in DOMAIN q : q[n] = d
  BY <1>2, <1>3, <1>5
<1>10. \A n \in DOMAIN q : out[n] = j.dedup[q[n]].files
  OBVIOUS
<1> HIDE DEF out
<1>11. InDatumOrder(out, D, j)
  BY <1>7, <1>8, <1>9, <1>10 DEF InDatumOrder
<1> QED BY <1>1, <1>11 DEF D

(* What each datum brings to the output of a job that is done.             *)
LEMMA Contributed ==
  ASSUME MemoryInv, Memory!Done, NEW p \in Memory!Paths, NEW d \in Contributors(memJob, p)
  PROVE  /\ d \in Memory!Datums /\ MemPathOf[d] = p
         /\ memJob.dedup[d].files[1] = d /\ memJob.dedup[d].files[2] = memJob.view[d]
         /\ p \in Memory!FreshPaths(memJob) => memJob.dedup[d].files[3] = memJob.version
         /\ Memory!Ran(memJob, d) => memJob.dedup[d].files[3] = memJob.version
<1>1. /\ JobGood(memJob) /\ memJob \in Jobs /\ memJob.todo = memJob.active
      /\ d \in Memory!Datums /\ MemPathOf[d] = p /\ Memory!Contributes(memJob, d)
  BY DEF MemoryInv, MemoryTypes, Memory!Done, Contributors
<1>2. CASE Memory!Ran(memJob, d)
  <2>1. memJob.dedup[d].files = <<d, memJob.view[d], memJob.version>>
    BY <1>1, <1>2 DEF JobGood, Memory!Ran, Produced
  <2> QED BY <1>1, <2>1
<1>3. CASE ~Memory!Ran(memJob, d)
  <2>1. /\ d \in memJob.skipped
        /\ p \in Memory!FreshPaths(memJob) => memJob.dedup[d].transform \in {0, memJob.version}
    BY <1>1, <1>3 DEF Memory!Contributes, Memory!Stale
  <2>2. /\ memJob.dedup[d].files = <<d, memJob.view[d], memJob.dedup[d].transform>>
        /\ memJob.dedup[d].transform # 0
    BY <1>1, <2>1 DEF JobGood, RecordSound
  <2> QED BY <1>1, <1>3, <2>1, <2>2
<1> QED BY <1>2, <1>3

LEMMA MergedIsCurrent ==
  ASSUME MemoryInv, Memory!Done, NEW state \in {"success", "failure"},
         state = "success" => ~Memory!FailedAny(memJob),
         Memory!Finish(state, Memory!mergeOutputs(memJob))
  PROVE  Memory!OutputCurrent'
<1>1. /\ Memory!Done /\ output' = Memory!mergeOutputs(memJob)
      /\ last' = Memory!Settled(memJob, state) /\ last'.state = state
  BY DEF Memory!Finish, Memory!Settled
<1>2. /\ JobGood(memJob) /\ memJob \in Jobs
  BY <1>1 DEF MemoryInv, MemoryTypes, Memory!Done
<1>3. /\ last'.view = memJob.view /\ last'.version = memJob.version
      /\ last'.ran = {d \in memJob.todo : Memory!Ran(memJob, d)}
  BY <1>1 DEF Memory!Settled, Memory!Ran
<1>4. ASSUME state = "success", NEW d \in memJob.todo PROVE Memory!Ran(memJob, d)
  <2>1. memJob.dedup[d] \in Memory!Records
    BY <1>2 DEF Jobs
  <2>2. memJob.dedup[d].outcome # "" /\ memJob.dedup[d].outcome # "failed"
    BY <1>1, <1>4 DEF Memory!Done, Memory!FailedAny
  <2> QED BY <1>4, <2>1, <2>2 DEF Memory!Ran, Memory!Records
<1>5. ASSUME NEW p \in Memory!Paths
      PROVE  /\ \A n \in DOMAIN output'[p] : output'[p][n][2] = last'.view[output'[p][n][1]]
             /\ \A n, m \in DOMAIN output'[p] : n < m => output'[p][n][1] < output'[p][m][1]
             /\ Memory!At(p) \cap last'.ran # {} =>
                  \A n \in DOMAIN output'[p] : output'[p][n][3] = last'.version
             /\ state = "success" => \A d \in Memory!At(p) \cap Memory!Input(last') :
                  Memory!From(p, d)' = {} =>
                    \E n \in DOMAIN output'[p] : output'[p][n][3] = last'.version
             /\ \A d \in Memory!At(p) \cap last'.ran : Memory!From(p, d)' # {}
  <2> DEFINE out == output'[p]
             D == Contributors(memJob, p)
  <2>1. InDatumOrder(out, D, memJob)
    BY <1>1, MergedInOrder
  <2>2. PICK order \in [DOMAIN out -> D] :
          /\ \A n \in DOMAIN out : out[n] = memJob.dedup[order[n]].files
          /\ \A n, m \in DOMAIN out : n < m => order[n] < order[m]
          /\ \A d \in D : \E n \in DOMAIN out : order[n] = d
    <3> HIDE DEF out, D
    <3> QED BY <2>1 DEF InDatumOrder
  <2>3. \A d \in D :
          /\ d \in Memory!Datums /\ MemPathOf[d] = p
          /\ memJob.dedup[d].files[1] = d /\ memJob.dedup[d].files[2] = memJob.view[d]
          /\ p \in Memory!FreshPaths(memJob) => memJob.dedup[d].files[3] = memJob.version
          /\ Memory!Ran(memJob, d) => memJob.dedup[d].files[3] = memJob.version
    BY <1>1, Contributed
  <2> HIDE DEF out
  <2>4. \A n \in DOMAIN out :
          /\ out[n][1] = order[n] /\ out[n][2] = memJob.view[order[n]]
          /\ p \in Memory!FreshPaths(memJob) => out[n][3] = memJob.version
          /\ Memory!Ran(memJob, order[n]) => out[n][3] = memJob.version
    BY <2>2, <2>3
  <2>5. ASSUME NEW d \in Memory!Datums, MemPathOf[d] = p, Memory!Ran(memJob, d)
        PROVE  /\ p \in Memory!FreshPaths(memJob) /\ d \in D
               /\ \E n \in DOMAIN out : out[n][3] = memJob.version
    <3>1. d \in memJob.todo /\ p \in Memory!FreshPaths(memJob)
      BY <2>5 DEF Memory!FreshPaths, Memory!Ran
    <3>2. d \in D
      BY <2>5 DEF Contributors, Memory!Contributes
    <3> QED BY <2>2, <2>4, <2>5, <3>1, <3>2
  <2>6. ASSUME state = "success", NEW d \in Memory!At(p) \cap Memory!Input(last'), Memory!From(p, d)' = {}
        PROVE  \E n \in DOMAIN out : out[n][3] = last'.version
    <3>1. d \in Memory!Datums /\ MemPathOf[d] = p /\ d \in Memory!Input(memJob)
      BY <1>3 DEF Memory!At, Memory!Input
    <3>2. \A n \in DOMAIN out : out[n][1] # d
      BY <2>6 DEF Memory!From, out
    <3>3. d \notin D
      BY <2>2, <2>4, <3>2
    <3>4. ~Memory!Ran(memJob, d) /\ d \in memJob.skipped
      BY <1>2, <1>4, <2>6, <3>1, <3>3 DEF Contributors, Memory!Contributes, JobGood
    <3>5. memJob.dedup[d].files # <<>>
      <4>1. memJob.dedup[d].files = <<d, memJob.dedup[d].hash, memJob.dedup[d].transform>>
        BY <1>2, <3>1, <3>4 DEF JobGood, RecordSound
      <4> QED BY <4>1
    <3>6. p \in Memory!FreshPaths(memJob)
      BY <3>1, <3>3, <3>4, <3>5 DEF Contributors, Memory!Contributes
    <3>7. PICK e \in memJob.todo : MemPathOf[e] = p /\ Memory!Ran(memJob, e)
      BY <3>6 DEF Memory!FreshPaths
    <3>8. e \in Memory!Datums
      BY <1>2, <3>7 DEF Jobs
    <3> QED BY <1>3, <2>5, <3>7, <3>8
  <2>7. ASSUME Memory!At(p) \cap last'.ran # {}, NEW n \in DOMAIN out
        PROVE  out[n][3] = last'.version
    <3>1. PICK d \in Memory!At(p) : d \in last'.ran
      BY <2>7
    <3>2. d \in Memory!Datums /\ MemPathOf[d] = p /\ Memory!Ran(memJob, d)
      BY <1>3, <3>1 DEF Memory!At
    <3> QED BY <1>3, <2>4, <2>5, <3>2
  <2>8. \A n \in DOMAIN out : out[n][2] = last'.view[out[n][1]]
    BY <1>3, <2>4
  <2>9. \A n, m \in DOMAIN out : n < m => out[n][1] < out[m][1]
    BY <2>2, <2>4
  <2>10. ASSUME NEW d \in Memory!At(p) \cap last'.ran PROVE Memory!From(p, d)' # {}
    <3>1. d \in Memory!Datums /\ MemPathOf[d] = p /\ Memory!Ran(memJob, d)
      BY <1>3, <2>10 DEF Memory!At
    <3>2. d \in D
      BY <2>5, <3>1
    <3>3. PICK n \in DOMAIN out : out[n][1] = d
      BY <2>2, <2>4, <3>2
    <3> QED BY <3>3 DEF Memory!From, out
  <2> QED BY <2>6, <2>7, <2>8, <2>9, <2>10 DEF out
<1>6. ASSUME NEW d \in last'.ran PROVE Memory!From(MemPathOf[d], d)' # {}
  <2>1. d \in Memory!Datums
    BY <1>2, <1>3, <1>6 DEF Jobs
  <2>2. MemPathOf[d] \in Memory!Paths /\ d \in Memory!At(MemPathOf[d])
    BY <2>1 DEF Memory!Paths, Memory!At
  <2> QED BY <1>5, <1>6, <2>2
<1>7. last'.state \in {"success", "failure"}
  BY <1>1
<1> QED BY <1>1, <1>5, <1>6, <1>7 DEF Memory!OutputCurrent, Memory!At, Memory!Input

(* A record of a running job changes.                                      *)
LEMMA MemorySet ==
  ASSUME MemoryInv, Memory!Running, NEW d \in memJob.todo, NEW record \in Memory!Records,
         NEW act, act \in {memJob.active, memJob.active \cup {d}},
         Memory!SetDatum(d, record, act), RecordSound(record, d),
         record.outcome \in {"success", "recovered"} =>
           /\ record.files = <<d, memJob.view[d], memJob.version>>
           /\ record.transform = memJob.version
  PROVE  MemoryInv'
<1> DEFINE j == [memJob EXCEPT !.dedup = [memJob.dedup EXCEPT ![d] = record], !.active = act]
<1>1. /\ memJob \in Jobs /\ JobGood(memJob) /\ version \in Memory!Versions /\ d \in Memory!Datums
      /\ table' = [memJob.dedup EXCEPT ![d] = record] /\ UNCHANGED <<version, output, last>>
  BY DEF MemoryInv, MemoryTypes, Memory!SetDatum, Jobs
<1>2. memJob' = j
  BY <1>1 DEF Memory!SetDatum, Jobs
<1>3. [memJob.dedup EXCEPT ![d] = record] \in [Memory!Datums -> Memory!Records]
  BY <1>1 DEF Jobs
<1>4. /\ j \in Jobs /\ j.dedup = [memJob.dedup EXCEPT ![d] = record] /\ j.active = act
      /\ j.view = memJob.view /\ j.version = memJob.version
      /\ j.todo = memJob.todo /\ j.skipped = memJob.skipped
  BY <1>1, <1>3 DEF Jobs, JobGood
<1> HIDE DEF j
<1>5. /\ j.dedup[d] = record
      /\ \A e \in Memory!Datums : e # d => j.dedup[e] = memJob.dedup[e]
  BY <1>1, <1>4 DEF Jobs
<1>6. \A e \in Memory!Datums : RecordSound(j.dedup[e], e)
  BY <1>1, <1>5 DEF JobGood
<1>7. \A e \in j.skipped : j.dedup[e].outcome = "success" /\ j.dedup[e].hash = j.view[e]
  <2> SUFFICES ASSUME NEW e \in j.skipped
               PROVE  j.dedup[e].outcome = "success" /\ j.dedup[e].hash = j.view[e]
    OBVIOUS
  <2>1. e # d /\ e \in Memory!Datums
    BY <1>1, <1>4 DEF JobGood, Jobs
  <2> QED BY <1>1, <1>4, <1>5, <2>1 DEF JobGood
<1>8. \A e \in j.active : j.dedup[e].outcome \in {"success", "recovered"} => Produced(j, e)
  <2> SUFFICES ASSUME NEW e \in j.active, j.dedup[e].outcome \in {"success", "recovered"}
               PROVE  Produced(j, e)
    OBVIOUS
  <2>1. CASE e = d
    BY <1>4, <1>5, <2>1 DEF Produced
  <2>2. CASE e # d
    <3>1. e \in memJob.active /\ e \in Memory!Datums
      BY <1>1, <1>4, <2>2 DEF Jobs
    <3> QED BY <1>1, <1>4, <1>5, <2>2, <3>1 DEF JobGood, Produced
  <2> QED BY <2>1, <2>2
<1>9. JobGood(j)
  <2>1. j.active \subseteq j.todo /\ Memory!Input(j) = Memory!Input(memJob)
    BY <1>1, <1>4 DEF JobGood, Memory!Input
  <2> QED BY <1>1, <1>4, <1>6, <1>7, <1>8, <2>1 DEF JobGood
<1>10. \A e \in Memory!Datums : RecordSound(table'[e], e)
  BY <1>1, <1>4, <1>6
<1>11. MemoryTypes'
  BY <1>1, <1>2, <1>3, <1>4 DEF MemoryTypes
<1>12. Memory!OutputCurrent'
  BY <1>1 DEF MemoryInv, Memory!OutputCurrent, Memory!At, Memory!Input, Memory!From
<1>13. (Memory!Running => JobGood(memJob))'
  BY <1>2, <1>9
<1> QED BY <1>10, <1>11, <1>12, <1>13 DEF MemoryInv, RecordSound

LEMMA MemoryStart ==
  ASSUME MemoryInv, NEW view \in [Memory!Datums -> MemContents \cup {Absent}],
         Memory!StartJob(view)
  PROVE  MemoryInv'
<1> DEFINE input == {d \in Memory!Datums : view[d] # Absent}
           skipped == {d \in input : Memory!CanSkip(table[d], view[d])}
           dedup == [d \in Memory!Datums |->
                       IF d \in input \ skipped /\ table[d] = Memory!NoRecord
                         THEN [Memory!NoRecord EXCEPT !.hash = view[d]] ELSE table[d]]
           j == [Memory!NotSpawned EXCEPT !.state = "running", !.view = view, !.version = version,
                                          !.skipped = skipped, !.todo = input \ skipped,
                                          !.dedup = dedup]
<1>1. memJob' = j /\ UNCHANGED <<table, version, output, last>>
  BY DEF Memory!StartJob
<1>2. /\ table \in [Memory!Datums -> Memory!Records] /\ version \in Memory!Versions
      /\ \A d \in Memory!Datums : RecordSound(table[d], d)
  BY DEF MemoryInv, MemoryTypes
<1>3. dedup \in [Memory!Datums -> Memory!Records]
  <2>1. ASSUME NEW d \in Memory!Datums
        PROVE  [Memory!NoRecord EXCEPT !.hash = view[d]] \in Memory!Records
    <3>1. view[d] \in MemContents \cup {Absent}
      OBVIOUS
    <3> QED BY <3>1, MemoryBlank DEF Memory!Records
  <2> QED BY <1>2, <2>1
<1>4. \A d \in Memory!Datums : RecordSound(dedup[d], d)
  BY <1>2 DEF RecordSound, Memory!NoRecord
<1>5. \A d \in skipped : dedup[d] = table[d]
  OBVIOUS
<1>6. \A d \in skipped : table[d].outcome = "success" /\ table[d].hash = view[d]
  BY DEF Memory!CanSkip
<1> HIDE DEF dedup
<1>7. /\ j \in Jobs /\ j.dedup = dedup /\ j.active = {} /\ j.view = view /\ j.version = version
      /\ j.todo = input \ skipped /\ j.skipped = skipped
  <2>1. version \in 0 .. MemVersions
    BY <1>2, MemoryAssumption DEF Memory!Versions
  <2>2. input \subseteq Memory!Datums /\ skipped \subseteq Memory!Datums
    OBVIOUS
  <2> HIDE DEF input, skipped
  <2> QED BY <1>3, <2>1, <2>2, MemoryBlank DEF Jobs
<1>8. Memory!Input(j) = input /\ skipped \subseteq input /\ input \subseteq Memory!Datums
  BY <1>7 DEF Memory!Input
<1> HIDE DEF j, skipped, input
<1>9. JobGood(j)
  <2>1. /\ j.todo \cap j.skipped = {} /\ j.todo \cup j.skipped = Memory!Input(j)
        /\ j.active \subseteq j.todo /\ j.version \in Memory!Versions
    BY <1>2, <1>7, <1>8
  <2>2. /\ \A d \in Memory!Datums : RecordSound(j.dedup[d], d)
        /\ \A d \in j.skipped : j.dedup[d].outcome = "success" /\ j.dedup[d].hash = j.view[d]
    <3>1. \A d \in Memory!Datums : RecordSound(j.dedup[d], d)
      <4>1. j.dedup = dedup
        BY <1>7
      <4> QED BY ONLY <1>4, <4>1
    <3>2. ASSUME NEW d \in skipped
          PROVE  dedup[d].outcome = "success" /\ dedup[d].hash = view[d]
      BY <1>6, <1>5
    <3> QED BY <1>7, <3>1, <3>2
  <2>3. \A d \in j.active : FALSE
    BY <1>7
  <2> QED BY <2>1, <2>2, <2>3 DEF JobGood
<1>10. Memory!OutputCurrent'
  BY <1>1 DEF MemoryInv, Memory!OutputCurrent, Memory!At, Memory!Input, Memory!From
<1> QED BY <1>1, <1>2, <1>7, <1>9, <1>10 DEF MemoryInv, MemoryTypes, RecordSound

LEMMA MemoryStep ==
  ASSUME MemoryInv, [Memory!Next]_memVars
  PROVE  MemoryInv'
<1>1. /\ table \in [Memory!Datums -> Memory!Records] /\ version \in Memory!Versions
      /\ memJob \in Jobs /\ \A d \in Memory!Datums : RecordSound(table[d], d)
      /\ Memory!Running => JobGood(memJob)
  BY DEF MemoryInv, MemoryTypes
<1>2. ASSUME UNCHANGED <<output, last>> PROVE Memory!OutputCurrent'
  BY <1>2 DEF MemoryInv, Memory!OutputCurrent, Memory!At, Memory!Input, Memory!From
<1>3. CASE UNCHANGED memVars
  BY <1>1, <1>2, <1>3 DEF memVars, MemoryInv, MemoryTypes, Memory!Running
<1>4. ASSUME NEW d \in Memory!Datums, Memory!PickUp(d) PROVE MemoryInv'
  <2> DEFINE record == [Memory!NoRecord EXCEPT !.hash = memJob.view[d]]
  <2>1. /\ Memory!Running /\ d \in memJob.todo
        /\ Memory!SetDatum(d, record, memJob.active \cup {d})
    BY <1>4 DEF Memory!PickUp
  <2>2. record \in Memory!Records /\ record.outcome = ""
    BY <1>1, MemoryBlank DEF Memory!Records, Jobs
  <2> HIDE DEF record
  <2> QED BY <2>1, <2>2, MemorySet DEF RecordSound
<1>5. ASSUME NEW d \in Memory!Datums, NEW o \in {"success", "recovered", "failed"},
             Memory!Settle(d, o)
      PROVE  MemoryInv'
  <2> DEFINE record == IF o = "failed" THEN [memJob.dedup[d] EXCEPT !.outcome = "failed"]
                       ELSE [hash |-> memJob.view[d], outcome |-> o,
                             files |-> <<d, memJob.view[d], memJob.version>>,
                             transform |-> memJob.version]
  <2>1. /\ Memory!Running /\ d \in memJob.todo /\ JobGood(memJob)
        /\ Memory!SetDatum(d, record, memJob.active)
    BY <1>1, <1>5 DEF Memory!Settle
  <2>2. memJob.version \in Memory!Versions /\ memJob.view[d] \in MemContents
    BY <1>1, <2>1 DEF JobGood, Memory!Input, Jobs
  <2>3. record \in Memory!Records
    <3>1. memJob.dedup[d] \in Memory!Records
      BY <1>1 DEF Jobs
    <3>2. <<d, memJob.view[d], memJob.version>> \in Memory!Contributions
      BY <2>2 DEF Memory!Contributions
    <3>3. memJob.version \in 0 .. MemVersions
      BY <1>1 DEF Jobs
    <3> QED BY <2>2, <3>1, <3>2, <3>3 DEF Memory!Records
  <2>4. /\ record.outcome = "success" => o # "failed"
        /\ record.outcome \in {"success", "recovered"} =>
             /\ record.files = <<d, memJob.view[d], memJob.version>>
             /\ record.transform = memJob.version
             /\ record.hash = memJob.view[d]
    <3>1. memJob.dedup[d] \in Memory!Records
      BY <1>1 DEF Jobs
    <3> QED BY <3>1 DEF Memory!Records
  <2>5. RecordSound(record, d)
    BY <2>2, <2>4, MemoryAssumption DEF RecordSound, Memory!Versions
  <2> HIDE DEF record
  <2> QED BY <2>1, <2>3, <2>4, <2>5, MemorySet
<1>6. CASE Memory!Kill
  <2> DEFINE j == [memJob EXCEPT !.killed = TRUE]
  <2>1. memJob' = j /\ UNCHANGED <<table, version, output, last>> /\ Memory!Running
    BY <1>6 DEF Memory!Kill
  <2>2. /\ j \in Jobs /\ j.dedup = memJob.dedup /\ j.active = memJob.active
        /\ j.view = memJob.view /\ j.version = memJob.version
        /\ j.todo = memJob.todo /\ j.skipped = memJob.skipped
    BY <1>1 DEF Jobs
  <2> HIDE DEF j
  <2>3. JobGood(j)
    BY <1>1, <2>1, <2>2 DEF JobGood, Memory!Input, Produced
  <2> QED BY <1>1, <1>2, <2>1, <2>2, <2>3 DEF MemoryInv, MemoryTypes, RecordSound
<1>7. CASE Memory!Restart
  BY <1>1, <1>2, <1>7, MemoryBlank
  DEF Memory!Restart, MemoryInv, MemoryTypes, Memory!Running, RecordSound
<1>8. ASSUME NEW state, NEW out, Memory!Done, Memory!Finish(state, out), Memory!OutputCurrent'
      PROVE  MemoryInv'
  <2>1. /\ table' = memJob.dedup /\ version' = version /\ memJob' = Memory!NotSpawned
        /\ JobGood(memJob)
    BY <1>1, <1>8 DEF Memory!Finish, Memory!Done
  <2>2. memJob.dedup \in [Memory!Datums -> Memory!Records]
    BY <1>1 DEF Jobs
  <2>3. \A d \in Memory!Datums : RecordSound(memJob.dedup[d], d)
    BY <2>1 DEF JobGood
  <2> QED BY <1>1, <1>8, <2>1, <2>2, <2>3, MemoryBlank
          DEF MemoryInv, MemoryTypes, Memory!Running, RecordSound
<1>9. CASE Memory!FinishSuccess \/ Memory!FinishPartial \/ Memory!EgressFails
  <2>1. PICK state \in {"success", "failure"} :
          /\ Memory!Done /\ (state = "success" => ~Memory!FailedAny(memJob))
          /\ Memory!Finish(state, Memory!mergeOutputs(memJob))
    BY <1>9 DEF Memory!FinishSuccess, Memory!FinishPartial, Memory!EgressFails
  <2> QED BY <1>8, <2>1, MergedIsCurrent
<1>10. CASE Memory!FinishKilled \/ Memory!MergeFails
  <2>1. PICK state \in {"failure", "killed"} :
          Memory!Done /\ Memory!Finish(state, Memory!Nothing)
    BY <1>10 DEF Memory!FinishKilled, Memory!MergeFails
  <2>2. last'.state # "success" /\ output' = Memory!Nothing
    BY <2>1 DEF Memory!Finish, Memory!Settled
  <2>3. \A p \in Memory!Paths : DOMAIN output'[p] = {}
    BY <2>2 DEF Memory!Nothing
  <2>4. Memory!OutputCurrent'
    BY <2>2, <2>3 DEF Memory!OutputCurrent
  <2> QED BY <1>8, <2>1, <2>4
<1>11. ASSUME NEW newInput \in BOOLEAN, Memory!applyUpdate(newInput) PROVE MemoryInv'
  <2>1. /\ UNCHANGED <<memJob, output, last>> /\ version' = version + 1 /\ version < MemVersions
        /\ table' = IF newInput THEN [d \in Memory!Datums |-> Memory!NoRecord] ELSE table
    BY <1>11 DEF Memory!applyUpdate
  <2>2. version' \in Memory!Versions
    BY <1>1, <2>1, MemoryAssumption DEF Memory!Versions
  <2>3. /\ table' \in [Memory!Datums -> Memory!Records]
        /\ \A d \in Memory!Datums : RecordSound(table'[d], d)
    BY <1>1, <2>1, MemoryBlank DEF RecordSound
  <2>4. Memory!Running' => JobGood(memJob)'
    BY <1>1, <2>1 DEF Memory!Running
  <2> QED BY <1>1, <1>2, <2>1, <2>2, <2>3, <2>4 DEF MemoryInv, MemoryTypes, RecordSound
<1> QED BY <1>3, <1>4, <1>5, <1>6, <1>7, <1>9, <1>10, <1>11, MemoryStart DEF Memory!Next

----------------------------------------------------------------------------
(* Declarations and the repositories of pipelines.                         *)

(* A side that is no union has no sides, and a union's members are no      *)
(* unions.  The names are in use: a union is a member of a cross or alone  *)
(* (a join's unions are not told apart), and no unnamed git side of a      *)
(* cross is of a repository called like a union beside it.                 *)
Plain == [kind : {"file", "git", "cron"}, name : STRING, repo : STRING, sides : {<<>>}]
United == [kind : {"union"}, name : STRING, repo : {""}, sides : Seq(Plain)]
Declaration ==
  [name : STRING, kind : SUBSET STRING, port : Int, standby : BOOLEAN, workers : Int,
   input : [shape : STRING, sides : Seq(Plain \cup United)]]
DeclaredWell ==
  /\ AdmSpecs \subseteq Declaration /\ "" \notin Identifiers
  /\ \A s \in AdmSpecs : LET side == s.input.sides
       IN /\ s.input.shape = "one" => Len(side) <= 1
          /\ s.input.shape \in {"join", "group"} => \A i \in DOMAIN side : side[i].kind # "union"
          /\ \A i, j \in DOMAIN side :
               (side[i].kind = "union" /\ side[j].kind = "git" /\ side[j].name = "")
                 => side[j].repo # side[i].name

StoredInput(s) == Adm!materializeInputDefaults(s.input, s.name)

(* No git or cron repository is called like a pipeline, whose output a     *)
(* forced deletion would take although the pipelines that read it stay.    *)
DerivedApart == \A s \in AdmSpecs : Adm!SideRepos(StoredInput(s)) \cap Adm!Names = {}

(* Administrators act one at a time: a declaration is checked some steps   *)
(* before it takes effect.                                                 *)
AdminsInTurn == \A x, y \in AdmAdmins : x = y

ValidSpec(s) == Adm!validatePipelineSpec(s) /\ Adm!validateSpout(s)
PortFree(s) == "service" \in s.kind => ~Adm!externalPortTaken(s.port, s.name)
Records(n) == {[s EXCEPT !.input = StoredInput(s)] : s \in {t \in AdmSpecs : t.name = n /\ ValidSpec(t)}}

Hands == {Adm!Idle} \cup [at : {"load", "apply"}, spec : AdmSpecs, update : BOOLEAN]
           \cup [at : {"remove", "output", "sides"}, name : Adm!Names,
                 input : {StoredInput(s) : s \in AdmSpecs}, keep : BOOLEAN]

AdmTypes ==
  /\ pipes \in [Adm!Names -> {Adm!NoRecord} \cup UNION {Records(n) : n \in Adm!Names}]
  /\ \A n \in Adm!Names : Adm!Exists(n) => pipes[n] \in Records(n)
  /\ admins \in [AdmAdmins -> Hands]

(* What an administrator holds was checked, and still is right.            *)
InHand(x) ==
  /\ admins[x].at \in {"load", "apply"} => ValidSpec(admins[x].spec) /\ PortFree(admins[x].spec)
  /\ admins[x].at \in {"output", "sides"} => ~Adm!Exists(admins[x].name)

AdmInv == /\ AdmTypes /\ Adm!PortsApart /\ Adm!SideReposKept
          /\ \A x \in AdmAdmins : InHand(x)

(* How the sides of an input are stored.                                   *)
LEMMA StoredSides ==
  ASSUME DeclaredWell, NEW s \in AdmSpecs
  PROVE  LET in == s.input
             m == StoredInput(s)
             side(u) == Adm!StoredSide(u, s.name)
         IN /\ DOMAIN m.sides = DOMAIN in.sides
            /\ \A i \in DOMAIN in.sides :
                 /\ in.sides[i] \in Plain \cup United
                 /\ m.sides[i].kind = in.sides[i].kind
                 /\ m.sides[i].name = side(in.sides[i]).name
                 /\ m.sides[i].repo = side(in.sides[i]).repo
                 /\ m.sides[i].sides = [j \in DOMAIN in.sides[i].sides |-> side(in.sides[i].sides[j])]
<1>1. s \in Declaration
  BY DEF DeclaredWell
<1>2. s.input \in [shape : STRING, sides : Seq(Plain \cup United)]
  BY <1>1 DEF Declaration
<1> DEFINE side(u) == Adm!StoredSide(u, s.name)
           full(u) == [side(u) EXCEPT !.sides = [j \in DOMAIN u.sides |-> side(u.sides[j])]]
<1>3. /\ StoredInput(s).sides = [i \in DOMAIN s.input.sides |-> full(s.input.sides[i])]
      /\ DOMAIN s.input.sides = 1 .. Len(s.input.sides)
      /\ \A i \in DOMAIN s.input.sides : s.input.sides[i] \in Plain \cup United
  BY <1>2 DEF StoredInput, Adm!materializeInputDefaults
<1>4. ASSUME NEW u \in Plain \cup United
      PROVE  /\ full(u).kind = u.kind /\ full(u).name = side(u).name /\ full(u).repo = side(u).repo
             /\ full(u).sides = [j \in DOMAIN u.sides |-> side(u.sides[j])]
  BY DEF Adm!StoredSide, Plain, United
<1> QED BY <1>3, <1>4

(* The name a side is stored under is the one that was validated.          *)
LEMMA StoredName ==
  ASSUME NEW u \in Plain \cup United, NEW p
  PROVE  Adm!StoredSide(u, p).name = Adm!NameOf(u) /\ Adm!StoredSide(u, p).kind = u.kind
<1>1. CASE u \in Plain
  BY <1>1 DEF Adm!StoredSide, Adm!NameOf, EnvName, Plain
<1>2. CASE u \in United
  BY <1>2 DEF Adm!StoredSide, Adm!NameOf, EnvName, United
<1> QED BY <1>1, <1>2

LEMMA StoredNamesApart ==
  ASSUME DeclaredWell, NEW s \in AdmSpecs, ValidSpec(s),
         NEW i \in DOMAIN s.input.sides, NEW k \in DOMAIN s.input.sides, i # k
  PROVE  StoredInput(s).sides[i].name # StoredInput(s).sides[k].name
<1> DEFINE side == s.input.sides
<1>1. /\ side[i] \in Plain \cup United /\ side[k] \in Plain \cup United
      /\ StoredInput(s).sides[i].name = Adm!NameOf(side[i])
      /\ StoredInput(s).sides[k].name = Adm!NameOf(side[k])
  <2>1. \A j \in DOMAIN side :
          /\ side[j] \in Plain \cup United
          /\ StoredInput(s).sides[j].name = Adm!StoredSide(side[j], s.name).name
    BY StoredSides
  <2> QED BY <2>1, StoredName
<1>2. s \in Declaration /\ side \in Seq(Plain \cup United)
  BY DEF DeclaredWell, Declaration
<1>3. side # <<>>
  BY <1>2
<1>4. Adm!validateInputSides(s.input, s.name)
  BY <1>3 DEF ValidSpec, Adm!validatePipelineSpec, Adm!validateSpout, Adm!sidesOf
<1>5. /\ \A j \in DOMAIN side : side[j] \in Adm!Range(side)
      /\ \A j \in DOMAIN side : Adm!NameOf(side[j]) \in Identifiers
  BY <1>4 DEF Adm!validateInputSides, Adm!ValidSide, Adm!sidesOf, Adm!Range
<1>6. ASSUME NEW j \in DOMAIN side, NEW l \in DOMAIN side, j # l,
             side[j].kind # "union", side[l].kind # "union"
      PROVE  Adm!NameOf(side[j]) # Adm!NameOf(side[l])
  BY <1>4, <1>6 DEF Adm!validateInputSides, Adm!IsInjective, Adm!sidesOf
<1>7. ASSUME NEW j \in DOMAIN side, NEW l \in DOMAIN side, j # l, side[j].kind = "union"
      PROVE  Adm!NameOf(side[j]) # Adm!NameOf(side[l])
  <2>1. side[j] \in Plain \cup United /\ side[l] \in Plain \cup United
    BY <1>2
  <2>2. Len(side) > 1
    BY <1>2, <1>7
  <2>3. s.input.shape = "cross"
    <3>1. s.input.shape \in {"one", "cross", "join", "group"}
      BY <1>4 DEF Adm!validateInputSides
    <3>2. s.input.shape \notin {"join", "group"}
      BY <1>7 DEF DeclaredWell
    <3>3. s.input.shape # "one"
      <4>1. s.input.shape = "one" => Len(side) <= 1
        BY DEF DeclaredWell
      <4> QED BY <1>2, <2>2, <4>1
    <3> QED BY <3>1, <3>2, <3>3
  <2>4. Adm!Namespace(side[j]) # Adm!Namespace(side[l])
    BY <1>4, <1>7, <2>3 DEF Adm!validateInputSides, Adm!IsInjective, Adm!sidesOf
  <2>5. side[j] \in United
    BY <1>7, <2>1 DEF Plain
  <2>6. side[j].name # "" /\ Adm!NameOf(side[j]) = side[j].name /\ Adm!Namespace(side[j]) = side[j].name
    BY <1>5, <2>5 DEF Adm!NameOf, Adm!Namespace, United, DeclaredWell
  <2>7. side[l].kind \in {"file", "git", "cron", "union"}
    BY <2>1 DEF Plain, United
  <2>8. CASE side[l].name # ""
    BY <2>4, <2>6, <2>8 DEF Adm!NameOf, Adm!Namespace
  <2>9. CASE side[l].name = "" /\ side[l].kind = "file"
    BY <2>4, <2>6, <2>9 DEF Adm!NameOf, Adm!Namespace, EnvName
  <2>10. CASE side[l].name = "" /\ side[l].kind = "git"
    BY <1>7, <2>6, <2>10 DEF Adm!NameOf, EnvName, DeclaredWell
  <2>11. CASE side[l].name = "" /\ side[l].kind \in {"cron", "union"}
    BY <2>6, <2>11 DEF Adm!NameOf
  <2> QED BY <2>7, <2>8, <2>9, <2>10, <2>11
<1>8. Adm!NameOf(side[i]) # Adm!NameOf(side[k])
  BY <1>6, <1>7
<1> QED BY <1>1, <1>8

(* What a pipeline reads at any depth was validated.                       *)
LEMMA StoredLeaf ==
  ASSUME DeclaredWell, NEW s \in AdmSpecs, ValidSpec(s), NEW t \in Adm!Leaves(StoredInput(s))
  PROVE  /\ t.kind \in {"file", "cron"} => t.name # "out"
         /\ t.kind = "file" => t.repo # s.name
<1> DEFINE side == s.input.sides
           good(u) == /\ u.kind \in {"file", "cron"} => Adm!StoredSide(u, s.name).name # "out"
                      /\ u.kind = "file" => Adm!StoredSide(u, s.name).repo # s.name
<1>1. s \in Declaration /\ side \in Seq(Plain \cup United)
  BY DEF DeclaredWell, Declaration
<1>2. ASSUME NEW u \in Plain, Adm!ValidSide(u, s.name) PROVE good(u)
  <2>1. Adm!StoredSide(u, s.name).name = Adm!NameOf(u)
    BY StoredName
  <2>2. u.kind = "file" => Adm!StoredSide(u, s.name).repo = u.repo
    BY DEF Adm!StoredSide, Adm!DerivedRepo, Plain
  <2> QED BY <1>2, <2>1, <2>2 DEF Adm!ValidSide
<1>3. /\ DOMAIN StoredInput(s).sides = DOMAIN side
      /\ \A i \in DOMAIN side :
           /\ StoredInput(s).sides[i].kind = side[i].kind
           /\ StoredInput(s).sides[i].name = Adm!StoredSide(side[i], s.name).name
           /\ StoredInput(s).sides[i].repo = Adm!StoredSide(side[i], s.name).repo
           /\ StoredInput(s).sides[i].sides =
                [j \in DOMAIN side[i].sides |-> Adm!StoredSide(side[i].sides[j], s.name)]
  BY StoredSides
<1>4. PICK i \in DOMAIN side :
        \/ t = StoredInput(s).sides[i] /\ t.kind # "union"
        \/ t \in Adm!Range(StoredInput(s).sides[i].sides) /\ side[i].kind = "union"
  <2> DEFINE m == StoredInput(s)
  <2> HIDE DEF m
  <2>1. PICK x \in Adm!Range(m.sides) : t \in IF x.kind = "union" THEN Adm!Range(x.sides) ELSE {x}
    BY Zenon DEF Adm!Leaves, Adm!sidesOf, m
  <2>2. PICK i \in DOMAIN m.sides : x = m.sides[i]
    BY <2>1 DEF Adm!Range
  <2>3. i \in DOMAIN side /\ x.kind = side[i].kind
    BY <1>3, <2>2 DEF m
  <2>4. CASE x.kind = "union"
    BY <2>1, <2>2, <2>3, <2>4, Zenon DEF m
  <2>5. CASE x.kind # "union"
    <3>1. t = m.sides[i] /\ t.kind # "union"
      BY <2>1, <2>2, <2>5
    <3> QED BY <2>3, <3>1 DEF m
  <2> QED BY <2>4, <2>5
<1>5. side # <<>> /\ side[i] \in Plain \cup United
  BY <1>1
<1>6. Adm!validateInputSides(s.input, s.name)
  BY <1>5 DEF ValidSpec, Adm!validatePipelineSpec, Adm!validateSpout, Adm!sidesOf
<1>7. CASE t = StoredInput(s).sides[i] /\ t.kind # "union"
  <2>1. /\ t.kind = side[i].kind /\ t.name = Adm!StoredSide(side[i], s.name).name
        /\ t.repo = Adm!StoredSide(side[i], s.name).repo
    BY <1>3, <1>7
  <2>2. side[i] \in Plain /\ Adm!ValidSide(side[i], s.name)
    BY <1>5, <1>6, <1>7, <2>1 DEF United, Adm!validateInputSides, Adm!sidesOf, Adm!Range
  <2> QED BY <1>2, <2>1, <2>2
<1>8. CASE t \in Adm!Range(StoredInput(s).sides[i].sides) /\ side[i].kind = "union"
  <2>1. side[i].sides \in Seq(Plain)
    BY <1>5, <1>8 DEF Plain, United
  <2>2. PICK j \in DOMAIN side[i].sides : t = Adm!StoredSide(side[i].sides[j], s.name)
    <3> DEFINE stored == [j \in DOMAIN side[i].sides |-> Adm!StoredSide(side[i].sides[j], s.name)]
    <3>1. StoredInput(s).sides[i].sides = stored
      BY <1>3
    <3>2. t \in Adm!Range(stored)
      BY <1>8, <3>1
    <3> QED BY <3>2 DEF Adm!Range
  <2>3. side[i].sides[j] \in Plain
    BY <2>1, <2>2
  <2>4. Adm!ValidSide(side[i].sides[j], s.name)
    BY <1>6, <2>2 DEF Adm!validateInputSides, Adm!sidesOf, Adm!Range
  <2>5. t.kind = side[i].sides[j].kind
    BY <2>2, <2>3, StoredName
  <2> QED BY <1>2, <2>2, <2>3, <2>4, <2>5
<1> QED BY <1>4, <1>7, <1>8

(* What a record says of its declaration.                                  *)
LEMMA RecordOf ==
  ASSUME DeclaredWell, NEW s \in AdmSpecs
  PROVE  LET r == [s EXCEPT !.input = StoredInput(s)]
         IN /\ r.input = StoredInput(s) /\ r.kind = s.kind /\ r.port = s.port /\ r.name = s.name
            /\ r # Adm!NoRecord
<1>1. s \in Declaration
  BY DEF DeclaredWell
<1>2. DOMAIN Adm!NoRecord = {"kind"}
  BY DEF Adm!NoRecord
<1> QED BY <1>1, <1>2 DEF Declaration

LEMMA StoredInputOf ==
  ASSUME DeclaredWell, NEW n \in Adm!Names, pipes[n] \in Records(n)
  PROVE  \E s \in AdmSpecs : pipes[n].input = StoredInput(s)
<1>1. PICK s \in AdmSpecs : pipes[n] = [s EXCEPT !.input = StoredInput(s)]
  BY DEF Records
<1> QED BY <1>1, RecordOf

LEMMA AdmInitial == ASSUME Adm!Init PROVE AdmInv
BY DEF Adm!Init, AdmInv, AdmTypes, InHand, Hands, Adm!Exists, Adm!PortsApart, Adm!SideReposKept,
       Adm!Idle

LEMMA AdmSidesApart == ASSUME DeclaredWell, AdmInv PROVE Adm!SidesApart
<1> SUFFICES ASSUME NEW n \in Adm!Names, Adm!Exists(n)
    PROVE  /\ \A i, k \in DOMAIN pipes[n].input.sides :
                i # k => pipes[n].input.sides[i].name # pipes[n].input.sides[k].name
           /\ \A t \in Adm!Leaves(pipes[n].input) :
                /\ t.kind \in {"file", "cron"} => t.name # "out"
                /\ t.kind = "file" => t.repo # n
  BY Zenon DEF Adm!SidesApart, Adm!IsInjective, Adm!sidesOf
<1>1. PICK s \in AdmSpecs : /\ s.name = n /\ ValidSpec(s)
                            /\ pipes[n] = [s EXCEPT !.input = StoredInput(s)]
  BY DEF AdmInv, AdmTypes, Records
<1>2. pipes[n].input = StoredInput(s)
  BY <1>1, RecordOf
<1>3. DOMAIN StoredInput(s).sides = DOMAIN s.input.sides
  BY StoredSides
<1>4. \A i, k \in DOMAIN s.input.sides :
        i # k => StoredInput(s).sides[i].name # StoredInput(s).sides[k].name
  BY <1>1, StoredNamesApart
<1>5. \A t \in Adm!Leaves(StoredInput(s)) : /\ t.kind \in {"file", "cron"} => t.name # "out"
                                            /\ t.kind = "file" => t.repo # n
  BY <1>1, StoredLeaf
<1> QED BY <1>2, <1>3, <1>4, <1>5

LEMMA AdmStep ==
  ASSUME DeclaredWell, DerivedApart, AdminsInTurn, AdmInv, [Adm!Next]_admVars
  PROVE  AdmInv'
<1>1. /\ pipes \in [Adm!Names -> {Adm!NoRecord} \cup UNION {Records(n) : n \in Adm!Names}]
      /\ \A n \in Adm!Names : Adm!Exists(n) => pipes[n] \in Records(n)
      /\ admins \in [AdmAdmins -> Hands] /\ Adm!PortsApart /\ Adm!SideReposKept
      /\ \A x \in AdmAdmins : InHand(x)
  BY DEF AdmInv, AdmTypes
<1>2. \A s \in AdmSpecs : s.name \in Adm!Names
  BY DEF Adm!Names
<1>3. CASE UNCHANGED admVars
  BY <1>1, <1>3 DEF admVars, AdmInv, AdmTypes, InHand, PortFree, Adm!externalPortTaken,
     Adm!Exists, Adm!PortsApart, Adm!SideReposKept
<1>4. ASSUME UNCHANGED pipes
      PROVE  /\ \A n \in Adm!Names : Adm!Exists(n)' <=> Adm!Exists(n)
             /\ Adm!PortsApart' /\ \A s \in AdmSpecs : PortFree(s)' <=> PortFree(s)
             /\ UNCHANGED repos => Adm!SideReposKept'
             /\ \A x \in AdmAdmins : admins'[x] = admins[x] => InHand(x)'
  BY <1>1, <1>4 DEF InHand, PortFree, Adm!externalPortTaken, Adm!Exists, Adm!PortsApart,
     Adm!SideReposKept
<1>5. ASSUME NEW x \in AdmAdmins, NEW s \in AdmSpecs, NEW u \in BOOLEAN, Adm!Submit(x, s, u)
      PROVE  AdmInv'
  <2> DEFINE h == [at |-> "load", spec |-> s, update |-> u]
  <2>1. admins' = [admins EXCEPT ![x] = h] /\ UNCHANGED <<pipes, repos>> /\ h \in Hands
    BY <1>5 DEF Adm!Submit, Hands
  <2>2. ValidSpec(s) /\ PortFree(s)
    BY <1>5 DEF Adm!Submit, Adm!Admitted, ValidSpec, PortFree
  <2>3. InHand(x)'
    BY <1>1, <1>4, <2>1, <2>2 DEF InHand
  <2>4. \A y \in AdmAdmins : InHand(y)'
    BY <1>1, <1>4, <2>1, <2>3
  <2> HIDE DEF h
  <2> QED BY <1>1, <1>4, <2>1, <2>4 DEF AdmInv, AdmTypes
<1>6. ASSUME NEW x \in AdmAdmins, Adm!LoadExisting(x) PROVE AdmInv'
  <2> DEFINE h == IF Adm!Exists(admins[x].spec.name) /\ ~admins[x].update THEN Adm!Idle
                  ELSE [admins[x] EXCEPT !.at = "apply"]
  <2>1. admins' = [admins EXCEPT ![x] = h] /\ UNCHANGED <<pipes, repos>> /\ admins[x].at = "load"
    BY <1>6 DEF Adm!LoadExisting
  <2>2. admins[x] \in [at : {"load", "apply"}, spec : AdmSpecs, update : BOOLEAN]
    BY <1>1, <2>1 DEF Hands, Adm!Idle
  <2>3. h \in Hands /\ (h.at = "apply" => h.spec = admins[x].spec) /\ h.at \in {"idle", "apply"}
    BY <2>2 DEF Hands, Adm!Idle
  <2> HIDE DEF h
  <2>4. InHand(x)'
    BY <1>1, <1>4, <2>1, <2>2, <2>3 DEF InHand
  <2>5. \A y \in AdmAdmins : InHand(y)'
    BY <1>1, <1>4, <2>1, <2>4
  <2> QED BY <1>1, <1>4, <2>1, <2>3, <2>5 DEF AdmInv, AdmTypes
<1>7. ASSUME NEW x \in AdmAdmins, Adm!Apply(x) PROVE AdmInv'
  <2> DEFINE s == admins[x].spec
             r == [s EXCEPT !.input = StoredInput(s)]
  <2>1. /\ admins' = [admins EXCEPT ![x] = Adm!Idle] /\ pipes' = [pipes EXCEPT ![s.name] = r]
        /\ repos' = repos \cup Adm!SideRepos(StoredInput(s)) \cup {s.name}
        /\ admins[x].at = "apply"
    BY <1>7 DEF Adm!Apply, StoredInput
  <2>2. s \in AdmSpecs /\ ValidSpec(s) /\ PortFree(s)
    BY <1>1, <2>1 DEF Hands, Adm!Idle, InHand
  <2>3. /\ r \in Records(s.name) /\ s.name \in Adm!Names /\ r # Adm!NoRecord
        /\ r.input = StoredInput(s) /\ r.kind = s.kind /\ r.port = s.port
    BY <1>2, <2>2, RecordOf DEF Records
  <2> HIDE DEF s, r
  <2>4. /\ pipes' \in [Adm!Names -> {Adm!NoRecord} \cup UNION {Records(n) : n \in Adm!Names}]
        /\ \A n \in Adm!Names : Adm!Exists(n)' => pipes'[n] \in Records(n)
    BY <1>1, <2>1, <2>3 DEF Adm!Exists
  <2>5. Adm!PortsApart'
    <3>1. ASSUME NEW n \in Adm!Names, n # s.name, Adm!Exists(n), "service" \in pipes[n].kind \cap s.kind
          PROVE  pipes[n].port # s.port
      BY <2>2, <3>1 DEF PortFree, Adm!externalPortTaken
    <3> QED BY <1>1, <2>1, <2>3, <3>1 DEF Adm!PortsApart, Adm!Exists
  <2>6. Adm!SideReposKept'
    BY <1>1, <2>1, <2>3 DEF Adm!SideReposKept, Adm!Exists
  <2>7. \A y \in AdmAdmins : admins'[y] = Adm!Idle
    BY <1>1, <2>1 DEF AdminsInTurn
  <2> QED BY <1>1, <2>1, <2>4, <2>5, <2>6, <2>7 DEF AdmInv, AdmTypes, InHand, Hands, Adm!Idle
<1>8. ASSUME NEW x \in AdmAdmins, NEW n \in Adm!Names, NEW force \in BOOLEAN, NEW keep \in BOOLEAN,
             Adm!DeletePipeline(x, n, force, keep)
      PROVE  AdmInv'
  <2> DEFINE h == [at |-> "remove", name |-> n, input |-> pipes[n].input, keep |-> keep]
  <2>1. admins' = [admins EXCEPT ![x] = h] /\ UNCHANGED <<pipes, repos>> /\ Adm!Exists(n)
    BY <1>8 DEF Adm!DeletePipeline
  <2>2. PICK s \in AdmSpecs : pipes[n].input = StoredInput(s)
    BY <1>1, <2>1, StoredInputOf
  <2>3. h \in Hands /\ h.at = "remove"
    BY <2>2 DEF Hands
  <2> HIDE DEF h
  <2>4. InHand(x)'
    BY <1>1, <2>1, <2>3 DEF InHand
  <2>5. \A y \in AdmAdmins : InHand(y)'
    BY <1>1, <1>4, <2>1, <2>4
  <2> QED BY <1>1, <1>4, <2>1, <2>3, <2>5 DEF AdmInv, AdmTypes
<1>9. ASSUME NEW x \in AdmAdmins, admins[x].at \in {"remove", "output", "sides"}
      PROVE  /\ admins[x] \in [at : {"remove", "output", "sides"}, name : Adm!Names,
                               input : {StoredInput(s) : s \in AdmSpecs}, keep : BOOLEAN]
             /\ [admins[x] EXCEPT !.at = "output"] \in Hands
             /\ [admins[x] EXCEPT !.at = "sides"] \in Hands
             /\ admins[x].name \in Adm!Names
  BY <1>1, <1>9 DEF Hands, Adm!Idle
<1>10. ASSUME NEW x \in AdmAdmins, Adm!RemoveRecord(x) PROVE AdmInv'
  <2> DEFINE h == IF admins[x].keep THEN Adm!Idle ELSE [admins[x] EXCEPT !.at = "output"]
  <2>1. /\ admins' = [admins EXCEPT ![x] = h] /\ UNCHANGED repos /\ admins[x].at = "remove"
        /\ pipes' = [pipes EXCEPT ![admins[x].name] = Adm!NoRecord]
    BY <1>10 DEF Adm!RemoveRecord
  <2>2. /\ h \in Hands /\ admins[x].name \in Adm!Names /\ h.at \in {"idle", "output"}
        /\ h.at = "output" => h.name = admins[x].name
    BY <1>9, <2>1 DEF Hands, Adm!Idle
  <2> HIDE DEF h
  <2>3. \A n \in Adm!Names : Adm!Exists(n)' => Adm!Exists(n) /\ pipes'[n] = pipes[n]
    BY <1>1, <2>1, <2>2 DEF Adm!Exists
  <2>4. Adm!PortsApart' /\ Adm!SideReposKept'
    BY <1>1, <2>1, <2>3 DEF Adm!PortsApart, Adm!SideReposKept
  <2>5. \A y \in AdmAdmins : InHand(y)'
    BY <1>1, <2>1, <2>2 DEF AdminsInTurn, InHand, Adm!Exists
  <2> QED BY <1>1, <2>1, <2>2, <2>3, <2>4, <2>5 DEF AdmInv, AdmTypes, Adm!Exists
<1>11. ASSUME NEW x \in AdmAdmins, Adm!RemoveOutput(x) PROVE AdmInv'
  <2> DEFINE h == [admins[x] EXCEPT !.at = "sides"]
  <2>1. /\ admins' = [admins EXCEPT ![x] = h] /\ UNCHANGED pipes /\ admins[x].at = "output"
        /\ repos' = repos \ {admins[x].name}
    BY <1>1, <1>11 DEF Adm!RemoveOutput
  <2>2. /\ h \in Hands /\ admins[x].name \in Adm!Names /\ h.at = "sides" /\ h.name = admins[x].name
    BY <1>9, <2>1
  <2> HIDE DEF h
  <2>3. ASSUME NEW n \in Adm!Names, Adm!Exists(n) PROVE admins[x].name \notin Adm!SideRepos(pipes[n].input)
    <3>1. PICK s \in AdmSpecs : pipes[n].input = StoredInput(s)
      BY <1>1, <2>3, StoredInputOf
    <3> QED BY <2>2, <3>1 DEF DerivedApart
  <2>4. Adm!SideReposKept'
    BY <1>1, <1>4, <2>1, <2>3 DEF Adm!SideReposKept
  <2>5. InHand(x)'
    BY <1>1, <1>4, <2>1, <2>2 DEF InHand
  <2>6. \A y \in AdmAdmins : InHand(y)'
    BY <1>1, <1>4, <2>1, <2>5
  <2> QED BY <1>1, <1>4, <2>1, <2>2, <2>4, <2>6 DEF AdmInv, AdmTypes
<1>12. ASSUME NEW x \in AdmAdmins, Adm!RemoveSides(x) PROVE AdmInv'
  <2> DEFINE gone == {r \in Adm!SideRepos(admins[x].input) :
                        r # admins[x].name /\ ~Adm!repoReferencedByOther(r, admins[x].name)}
  <2>1. /\ admins' = [admins EXCEPT ![x] = Adm!Idle] /\ UNCHANGED pipes /\ repos' = repos \ gone
        /\ admins[x].at = "sides"
    BY <1>12 DEF Adm!RemoveSides
  <2>2. ~Adm!Exists(admins[x].name) /\ Adm!Idle \in Hands /\ Adm!Idle.at = "idle"
    BY <1>1, <2>1 DEF InHand, Hands, Adm!Idle
  <2>3. ASSUME NEW n \in Adm!Names, Adm!Exists(n), NEW r \in Adm!SideRepos(pipes[n].input)
        PROVE  r \notin gone
    <3>1. n # admins[x].name
      BY <2>2, <2>3
    <3>2. Adm!inputConsumesRepo(pipes[n].input, r)
      BY DEF Adm!SideRepos, Adm!inputConsumesRepo
    <3> QED BY <2>3, <3>1, <3>2 DEF Adm!repoReferencedByOther
  <2> HIDE DEF gone
  <2>4. Adm!SideReposKept'
    BY <1>1, <1>4, <2>1, <2>3 DEF Adm!SideReposKept
  <2>5. InHand(x)'
    BY <1>1, <2>1, <2>2 DEF InHand
  <2>6. \A y \in AdmAdmins : InHand(y)'
    BY <1>1, <1>4, <2>1, <2>5
  <2> QED BY <1>1, <1>4, <2>1, <2>2, <2>4, <2>6 DEF AdmInv, AdmTypes
<1> QED BY <1>3, <1>5, <1>6, <1>7, <1>8, <1>10, <1>11, <1>12 DEF Adm!Next

----------------------------------------------------------------------------
(* The parts of the composition.                                           *)

(* A step of the composition is one of at most one part, and no part's     *)
(* variables change in the steps of another.                               *)
LEMMA InputSteps ==
  ASSUME [FlowNext]_flowVars
  PROVE  /\ [Memory!Next]_memVars /\ [Triggers!Next]_sizeVars
         /\ [Git!Next]_gitVars /\ [Adm!Next]_admVars
<1>1. CASE UNCHANGED flowVars
  BY <1>1 DEF flowVars
<1>2. CASE FlowNext
  BY <1>2, Zenon DEF FlowNext
<1> QED BY <1>1, <1>2

(* What a job publishes is made of the datums of its own input, by its own *)
(* version of the transform, and a datum is skipped only on a record that  *)
(* holds its files (datum_engine.go, startJob and finishJob).              *)
THEOREM PublishedIsCurrent == FlowSpec => []MemorySound
<1>1. FlowInit => MemoryInv
  BY MemoryInitial DEF FlowInit
<1>2. MemoryInv /\ [FlowNext]_flowVars => MemoryInv'
  BY InputSteps, MemoryStep
<1>3. MemoryInv => MemorySound
  BY MemoryIsSound DEF MemorySound
<1> QED BY <1>1, <1>2, <1>3, PTL DEF FlowSpec

(* Every byte that arrives is counted towards one firing of a size trigger *)
(* (trigger.go), a pipeline that is not failed was triggered for the head  *)
(* of its git repository (git.go), and pipelines that live side by side    *)
(* keep the names of their sides, their ports and their derived            *)
(* repositories apart (pipeline.go), when administrators act in turn.      *)
THEOREM InputsKept ==
  ASSUME DeclaredWell, DerivedApart, AdminsInTurn
  PROVE  FlowSpec => []InputsSound
<1> DEFINE Inv == SizeInv /\ GitInv /\ AdmInv
<1>1. FlowInit => Inv
  BY SizeInitial, GitInitial, AdmInitial DEF FlowInit
<1>2. Inv /\ [FlowNext]_flowVars => Inv'
  BY InputSteps, SizeStep, GitStep, AdmStep
<1>3. Inv => InputsSound
  BY SizeConserved, GitNotSilenced, AdmSidesApart DEF InputsSound, AdmInv
<1> QED BY <1>1, <1>2, <1>3, PTL DEF FlowSpec
=============================================================================
