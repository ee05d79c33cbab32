--------------------------- MODULE CallGraphProofs ---------------------------
(***************************************************************************)
(* A call graph that is updated in place is the graph of a full rebuild:   *)
(* for every program, any number of TUs, registrations, removals, absorbed *)
(* shards, compactions and restarts, in any order.                         *)
(***************************************************************************)
EXTENDS CallGraphIndex, FiniteSetTheorems, FunctionTheorems, SequenceTheorems, TLAPS

(* Positions: ranks in a set of numbers.                                     *)

\* Ranks number the elements of a finite set of numbers in their order.
LEMMA RankFacts ==
  ASSUME NEW S, S \subseteq Nat, IsFiniteSet(S)
  PROVE  /\ Cardinality(S) \in Nat
         /\ \A i \in S : Rank(S, i) \in 1 .. Cardinality(S)
         /\ \A i, j \in S : i < j => Rank(S, i) < Rank(S, j)
<1>1. Cardinality(S) \in Nat
  BY FS_CardinalityType, Zenon
<1>2. ASSUME NEW i \in S
      PROVE  Rank(S, i) \in 1 .. Cardinality(S)
  <2> DEFINE R == {j \in S : j <= i}
  <2>1. R \in SUBSET S /\ i \in R
    BY SMT
  <2>2. IsFiniteSet(R) /\ Cardinality(R) <= Cardinality(S)
    BY <2>1, FS_Subset, Zenon
  <2>3. Cardinality(R) \in Nat /\ Cardinality(R) # 0
    BY <2>1, <2>2, FS_CardinalityType, FS_EmptySet, Zenon
  <2>4. Rank(S, i) = Cardinality(R)
    BY DEF Rank
  <2> HIDE DEF R
  <2> QED BY <1>1, <2>2, <2>3, <2>4, SMT
<1>3. ASSUME NEW i \in S, NEW j \in S, i < j
      PROVE  Rank(S, i) < Rank(S, j)
  <2> DEFINE Q == {k \in S : k <= i}
             R == {k \in S : k <= j}
  <2>0. \A k \in Q : k \in R
    <3> SUFFICES ASSUME NEW k \in S, k <= i PROVE k <= j
      OBVIOUS
    <3>1. i \in Nat /\ j \in Nat /\ k \in Nat
      OBVIOUS
    <3> QED BY <1>3, <3>1, SMT
  <2>01. ~(j <= i) /\ j <= j
    <3>1. i \in Nat /\ j \in Nat
      OBVIOUS
    <3> QED BY <1>3, <3>1, SMT
  <2>1. R \in SUBSET S /\ Q \in SUBSET R /\ j \in R /\ j \notin Q
    BY <2>0, <2>01
  <2>2. IsFiniteSet(R)
    BY <2>1, FS_Subset, Zenon
  <2>3. IsFiniteSet(Q) /\ Cardinality(Q) <= Cardinality(R) /\ Cardinality(Q) # Cardinality(R)
    BY <2>1, <2>2, FS_Subset, Zenon
  <2>4. Cardinality(Q) \in Nat /\ Cardinality(R) \in Nat
    BY <2>2, <2>3, FS_CardinalityType, Zenon
  <2>5. Rank(S, i) = Cardinality(Q) /\ Rank(S, j) = Cardinality(R)
    BY DEF Rank
  <2> HIDE DEF Q, R
  <2> QED BY <2>3, <2>4, <2>5, SMT
<1> QED BY <1>1, <1>2, <1>3

\* Different elements have different ranks, and every rank is taken.
LEMMA NthFacts ==
  ASSUME NEW S, S \subseteq Nat, IsFiniteSet(S)
  PROVE  /\ \A i, j \in S : Rank(S, i) = Rank(S, j) => i = j
         /\ \A n \in 1 .. Cardinality(S) : Nth(S, n) \in S /\ Rank(S, Nth(S, n)) = n
         /\ \A i \in S : Nth(S, Rank(S, i)) = i
<1>1. ASSUME NEW i \in S, NEW j \in S, Rank(S, i) = Rank(S, j)
      PROVE  i = j
  <2>1. Rank(S, i) \in 1 .. Cardinality(S) /\ i \in Nat /\ j \in Nat
    BY RankFacts, Zenon
  <2>2. ~(i < j)
    <3> SUFFICES ASSUME i < j PROVE FALSE
      OBVIOUS
    <3>1. Rank(S, i) < Rank(S, j)
      BY RankFacts, Zenon
    <3> QED BY <1>1, <2>1, <3>1
  <2>3. ~(j < i)
    <3> SUFFICES ASSUME j < i PROVE FALSE
      OBVIOUS
    <3>1. Rank(S, j) < Rank(S, i)
      BY RankFacts, Zenon
    <3> QED BY <1>1, <2>1, <3>1
  <2> QED BY <2>1, <2>2, <2>3
<1> DEFINE N == 1 .. Cardinality(S)
           F == [i \in S |-> Rank(S, i)]
<1>2. IsFiniteSet(N) /\ Cardinality(N) = Cardinality(S)
  <2>1. Cardinality(S) \in Nat
    BY RankFacts, Zenon
  <2> QED BY <2>1, FS_Interval
<1>3. F \in Injection(S, N)
  <2>1. F \in [S -> N]
    BY RankFacts
  <2>2. \A a, b \in S : F[a] = F[b] => a = b
    BY <1>1
  <2> HIDE DEF F, N
  <2> QED BY <2>1, <2>2, Fun_IsInj
<1>4. F \in Surjection(S, N)
  <2> HIDE DEF F, N
  <2> QED BY <1>2, <1>3, FS_Injection, Zenon
<1>5. ASSUME NEW n \in 1 .. Cardinality(S)
      PROVE  Nth(S, n) \in S /\ Rank(S, Nth(S, n)) = n
  <2>1. \E i \in S : F[i] = n
    <3>1. n \in N
      OBVIOUS
    <3> HIDE DEF F, N
    <3>2. \A m \in N : \E i \in S : F[i] = m
      BY <1>4, Fun_SurjectionProperties
    <3> QED BY <3>1, <3>2
  <2>2. \E i \in S : Rank(S, i) = n
    BY <2>1
  <2> QED BY <2>2, Zenon DEF Nth
<1>6. ASSUME NEW i \in S
      PROVE  Nth(S, Rank(S, i)) = i
  <2>1. Nth(S, Rank(S, i)) \in S /\ Rank(S, Nth(S, Rank(S, i))) = Rank(S, i)
    BY <1>5, RankFacts, Zenon
  <2> QED BY <1>1, <2>1, Zenon
<1> QED BY <1>1, <1>5, <1>6

-----------------------------------------------------------------------------
(* Bags that hold everything once.                                           *)

\* What an addition to, a deletion from and a union of such bags give.
LEMMA OnceFacts ==
  ASSUME NEW S, NEW T, NEW x
  PROVE  /\ DOMAIN SetToBag(S) = S
         /\ EmptyBag = SetToBag({})
         /\ x \notin S => Push(SetToBag(S), x) = SetToBag(S \cup {x})
         /\ Without(SetToBag(S), T) = SetToBag(S \ T)
         /\ S \cap T = {} => SetToBag(S) (+) SetToBag(T) = SetToBag(S \cup T)
<1>1. ASSUME NEW U, S \cap U = {}
      PROVE  SetToBag(S) (+) SetToBag(U) = SetToBag(S \cup U)
  BY <1>1 DEF SetToBag, (+)
<1>2. x \notin S => Push(SetToBag(S), x) = SetToBag(S \cup {x})
  BY <1>1 DEF Push
<1>3. Without(SetToBag(S), T) = SetToBag(S \ T)
  BY DEF SetToBag, Without
<1> QED BY <1>1, <1>2, <1>3 DEF SetToBag, EmptyBag

-----------------------------------------------------------------------------
(* Registrations, counted per TU.                                            *)

\* c[t] registrations of each TU t of S, each an element of its own.
Rows(c, S) == UNION {{t} \X (1 .. c[t]) : t \in S}

\* How many there are is a number.
LEMMA RowsFinite ==
  ASSUME NEW c \in [TUs -> Nat], NEW S \in SUBSET TUs
  PROVE  /\ IsFiniteSet(Rows(c, S))
         /\ Cardinality(Rows(c, S)) \in Nat
         /\ Cardinality(Rows(c, S)) = 0 <=> \A t \in S : c[t] = 0
<1> DEFINE F == [t \in S |-> {t} \X (1 .. c[t])]
           U == {{t} \X (1 .. c[t]) : t \in S}
<1>1. IsFiniteSet(S)
  BY TUsAssumption, FS_Subset
<1>2. F \in Surjection(S, U)
  <2>1. F \in [S -> U] /\ \A u \in U : \E t \in S : F[t] = u
    OBVIOUS
  <2> HIDE DEF F, U
  <2> QED BY <2>1, Fun_IsSurj
<1>3. IsFiniteSet(U)
  <2> HIDE DEF F, U
  <2> QED BY <1>1, <1>2, FS_Surjection
<1>4. ASSUME NEW u \in U
      PROVE  IsFiniteSet(u)
  <2>1. PICK t \in S : u = {t} \X (1 .. c[t])
    OBVIOUS
  <2>2. IsFiniteSet({t}) /\ IsFiniteSet(1 .. c[t])
    <3>1. c[t] \in Int /\ 1 \in Int
      OBVIOUS
    <3> QED BY <3>1, FS_Singleton, FS_Interval, Zenon
  <2> QED BY <2>1, <2>2, FS_Product
<1>5. IsFiniteSet(UNION U)
  <2> HIDE DEF U
  <2> QED BY <1>3, <1>4, FS_UNION
<1>6. Rows(c, S) = UNION U
  BY DEF Rows
<1>7. Rows(c, S) = {} <=> \A t \in S : c[t] = 0
  <2>1. ASSUME NEW t \in S, c[t] # 0
        PROVE  <<t, 1>> \in Rows(c, S)
    <3>1. 1 \in 1 .. c[t]
      BY <2>1
    <3> QED BY <3>1 DEF Rows
  <2>2. ASSUME NEW x \in Rows(c, S)
        PROVE  \E t \in S : c[t] # 0
    <3>1. PICK t \in S : x \in {t} \X (1 .. c[t])
      BY DEF Rows
    <3>2. c[t] \in Nat /\ 1 .. c[t] # {}
      BY <3>1
    <3> QED BY <3>2
  <2> QED BY <2>1, <2>2
<1> QED BY <1>5, <1>6, <1>7, FS_CardinalityType, FS_EmptySet

\* Those of all TUs.
LEMMA AllRowsFinite ==
  ASSUME NEW c \in [TUs -> Nat]
  PROVE  IsFiniteSet(Rows(c, TUs)) /\ Cardinality(Rows(c, TUs)) \in Nat
<1>1. TUs \in SUBSET TUs
  OBVIOUS
<1>2. PICK S \in SUBSET TUs : S = TUs
  BY <1>1
<1>3. IsFiniteSet(Rows(c, S)) /\ Cardinality(Rows(c, S)) \in Nat
  BY RowsFinite
<1> QED BY <1>2, <1>3

\* One registration more.
LEMMA RowsAdd ==
  ASSUME NEW c \in [TUs -> Nat], NEW t \in TUs, NEW d, d = [c EXCEPT ![t] = @ + 1]
  PROVE  d \in [TUs -> Nat] /\ Cardinality(Rows(d, TUs)) = Cardinality(Rows(c, TUs)) + 1
<1>1. d \in [TUs -> Nat] /\ d[t] = c[t] + 1 /\ \A u \in TUs : u # t => d[u] = c[u]
  OBVIOUS
<1>2. 1 .. c[t] + 1 = 1 .. c[t] \cup {c[t] + 1} /\ c[t] + 1 \notin 1 .. c[t]
  OBVIOUS
<1>3. Rows(d, TUs) = Rows(c, TUs) \cup {<<t, c[t] + 1>>}
  <2>1. ASSUME NEW x \in Rows(d, TUs)
        PROVE  x \in Rows(c, TUs) \cup {<<t, c[t] + 1>>}
    <3>1. PICK u \in TUs : x \in {u} \X (1 .. d[u])
      BY DEF Rows
    <3>2. CASE u # t
      BY <1>1, <3>1, <3>2 DEF Rows
    <3>3. CASE u = t
      <4>1. x \in {t} \X (1 .. c[t]) \/ x = <<t, c[t] + 1>>
        BY <1>1, <1>2, <3>1, <3>3
      <4> QED BY <4>1 DEF Rows
    <3> QED BY <3>2, <3>3
  <2>2. ASSUME NEW x \in Rows(c, TUs)
        PROVE  x \in Rows(d, TUs)
    <3>1. PICK u \in TUs : x \in {u} \X (1 .. c[u])
      BY DEF Rows
    <3>2. x \in {u} \X (1 .. d[u])
      BY <1>1, <1>2, <3>1
    <3> QED BY <3>2 DEF Rows
  <2>3. <<t, c[t] + 1>> \in Rows(d, TUs)
    <3>1. <<t, c[t] + 1>> \in {t} \X (1 .. d[t])
      BY <1>1, <1>2
    <3> QED BY <3>1 DEF Rows
  <2> QED BY <2>1, <2>2, <2>3
<1>4. <<t, c[t] + 1>> \notin Rows(c, TUs)
  <2> SUFFICES ASSUME <<t, c[t] + 1>> \in Rows(c, TUs) PROVE FALSE
    OBVIOUS
  <2>1. PICK u \in TUs : <<t, c[t] + 1>> \in {u} \X (1 .. c[u])
    BY DEF Rows
  <2>2. u = t /\ c[t] + 1 \in 1 .. c[t]
    BY <2>1
  <2> QED BY <1>2, <2>2
<1>5. IsFiniteSet(Rows(c, TUs))
  BY AllRowsFinite
<1>6. Cardinality(Rows(d, TUs)) = Cardinality(Rows(c, TUs)) + 1
  <2>1. PICK A, x : A = Rows(c, TUs) /\ x = <<t, c[t] + 1>>
    OBVIOUS
  <2>2. Cardinality(A \cup {x}) = Cardinality(A) + 1
    BY <1>4, <1>5, <2>1, FS_AddElement
  <2> QED BY <1>3, <2>1, <2>2, Zenon
<1> QED BY <1>1, <1>6

\* The registrations of two graphs together.
LEMMA RowsSum ==
  ASSUME NEW c \in [TUs -> Nat], NEW p \in [TUs -> Nat],
         NEW d, d = [t \in TUs |-> c[t] + p[t]]
  PROVE  /\ d \in [TUs -> Nat]
         /\ Cardinality(Rows(d, TUs)) = Cardinality(Rows(c, TUs)) + Cardinality(Rows(p, TUs))
<1> DEFINE B == UNION {{t} \X (c[t] + 1 .. c[t] + p[t]) : t \in TUs}
           F == [x \in Rows(p, TUs) |-> <<x[1], c[x[1]] + x[2]>>]
<1>1. d \in [TUs -> Nat] /\ \A t \in TUs : d[t] = c[t] + p[t] /\ c[t] \in Nat /\ p[t] \in Nat
  OBVIOUS
<1>2. ASSUME NEW t \in TUs
      PROVE  /\ 1 .. d[t] = (1 .. c[t]) \cup (c[t] + 1 .. c[t] + p[t])
             /\ (1 .. c[t]) \cap (c[t] + 1 .. c[t] + p[t]) = {}
  BY <1>1
<1>3. Rows(d, TUs) = Rows(c, TUs) \cup B
  <2>1. ASSUME NEW x \in Rows(d, TUs)
        PROVE  x \in Rows(c, TUs) \cup B
    <3>1. PICK t \in TUs : x \in {t} \X (1 .. d[t])
      BY DEF Rows
    <3>2. x \in {t} \X (1 .. c[t]) \/ x \in {t} \X (c[t] + 1 .. c[t] + p[t])
      BY <1>2, <3>1
    <3> QED BY <3>2 DEF Rows
  <2>2. ASSUME NEW x \in Rows(c, TUs)
        PROVE  x \in Rows(d, TUs)
    <3>1. PICK t \in TUs : x \in {t} \X (1 .. c[t])
      BY DEF Rows
    <3>2. x \in {t} \X (1 .. d[t])
      BY <1>2, <3>1
    <3> QED BY <3>2 DEF Rows
  <2>3. ASSUME NEW x \in B
        PROVE  x \in Rows(d, TUs)
    <3>1. PICK t \in TUs : x \in {t} \X (c[t] + 1 .. c[t] + p[t])
      OBVIOUS
    <3>2. x \in {t} \X (1 .. d[t])
      BY <1>2, <3>1
    <3> QED BY <3>2 DEF Rows
  <2> HIDE DEF B
  <2> QED BY <2>1, <2>2, <2>3
<1>4. Rows(c, TUs) \cap B = {}
  <2> SUFFICES ASSUME NEW x \in Rows(c, TUs), x \in B PROVE FALSE
    OBVIOUS
  <2>1. PICK t \in TUs : x \in {t} \X (1 .. c[t])
    BY DEF Rows
  <2>2. PICK u \in TUs : x \in {u} \X (c[u] + 1 .. c[u] + p[u])
    OBVIOUS
  <2>3. x[1] = t /\ x[2] \in 1 .. c[t] /\ x[1] = u /\ x[2] \in c[u] + 1 .. c[u] + p[u]
    BY <2>1, <2>2
  <2> QED BY <1>2, <2>3
<1>5. ASSUME NEW x \in Rows(p, TUs)
      PROVE  x = <<x[1], x[2]>> /\ x[1] \in TUs /\ x[2] \in 1 .. p[x[1]]
  <2>1. PICK t \in TUs : x \in {t} \X (1 .. p[t])
    BY DEF Rows
  <2> QED BY <2>1
<1>6. F \in [Rows(p, TUs) -> B]
  <2> SUFFICES ASSUME NEW x \in Rows(p, TUs)
               PROVE  <<x[1], c[x[1]] + x[2]>> \in B
    OBVIOUS
  <2>1. x[1] \in TUs /\ x[2] \in 1 .. p[x[1]]
    BY <1>5
  <2>2. PICK t \in TUs : t = x[1]
    BY <2>1
  <2>3. c[t] + x[2] \in c[t] + 1 .. c[t] + p[t]
    BY <1>1, <2>1, <2>2
  <2> QED BY <2>2, <2>3
<1>7. \A x, y \in Rows(p, TUs) : F[x] = F[y] => x = y
  <2> SUFFICES ASSUME NEW x \in Rows(p, TUs), NEW y \in Rows(p, TUs),
                      <<x[1], c[x[1]] + x[2]>> = <<y[1], c[y[1]] + y[2]>>
               PROVE  x = y
    OBVIOUS
  <2>1. x[1] = y[1] /\ c[x[1]] + x[2] = c[x[1]] + y[2]
    OBVIOUS
  <2>2. c[x[1]] \in Nat /\ x[2] \in Nat /\ y[2] \in Nat
    BY <1>1, <1>5
  <2>3. x[2] = y[2]
    BY <2>1, <2>2
  <2> QED BY <1>5, <2>1, <2>3
<1>8. \A b \in B : \E x \in Rows(p, TUs) : F[x] = b
  <2> SUFFICES ASSUME NEW b \in B PROVE \E x \in Rows(p, TUs) : <<x[1], c[x[1]] + x[2]>> = b
    OBVIOUS
  <2>1. PICK t \in TUs : b \in {t} \X (c[t] + 1 .. c[t] + p[t])
    OBVIOUS
  <2>2. PICK n : n = b[2] - c[t]
    OBVIOUS
  <2>3. n \in 1 .. p[t] /\ c[t] + n = b[2] /\ b = <<t, b[2]>>
    BY <1>1, <2>1, <2>2
  <2>4. PICK x : x = <<t, n>>
    OBVIOUS
  <2>5. x \in Rows(p, TUs)
    BY <2>3, <2>4 DEF Rows
  <2>6. <<x[1], c[x[1]] + x[2]>> = b
    BY <2>3, <2>4
  <2> QED BY <2>5, <2>6
<1>9. IsFiniteSet(B) /\ Cardinality(B) = Cardinality(Rows(p, TUs))
  <2>1. F \in Bijection(Rows(p, TUs), B)
    <3> HIDE DEF F, B
    <3> QED BY <1>6, <1>7, <1>8, Fun_IsBij
  <2>2. ExistsBijection(Rows(p, TUs), B)
    <3> HIDE DEF F, B
    <3> QED BY <2>1 DEF ExistsBijection
  <2> HIDE DEF F, B
  <2>3. IsFiniteSet(Rows(p, TUs))
    BY AllRowsFinite
  <2> QED BY <2>2, <2>3, FS_Bijection
<1> HIDE DEF B, F
<1>10. /\ IsFiniteSet(Rows(c, TUs)) /\ Cardinality(Rows(c, TUs)) \in Nat
       /\ Cardinality(Rows(p, TUs)) \in Nat
  BY AllRowsFinite
<1>11. Cardinality(Rows(c, TUs) \cup B) = Cardinality(Rows(c, TUs)) + Cardinality(B) - Cardinality({})
  <2>1. PICK A : A = Rows(c, TUs)
    OBVIOUS
  <2>2. Cardinality(A \cup B) = Cardinality(A) + Cardinality(B) - Cardinality(A \cap B)
    BY <1>9, <1>10, <2>1, FS_Union
  <2>3. A \cap B = {}
    BY <1>4, <2>1
  <2> QED BY <2>1, <2>2, <2>3
<1>12. Cardinality({}) = 0
  BY FS_EmptySet, Zenon
<1>13. Cardinality(Rows(d, TUs)) = Cardinality(Rows(c, TUs)) + Cardinality(Rows(p, TUs))
  <2>1. PICK a, b, e : /\ a = Cardinality(Rows(c, TUs)) /\ b = Cardinality(Rows(p, TUs))
                       /\ e = Cardinality(Rows(d, TUs)) /\ e = a + b - 0
    BY <1>3, <1>9, <1>11, <1>12, Zenon
  <2>2. a \in Nat /\ b \in Nat
    BY <1>10, <2>1
  <2>3. e = a + b
    BY <2>1, <2>2
  <2> QED BY <2>1, <2>3, Zenon
<1> QED BY <1>1, <1>13

\* Without the registrations of the TUs of S.
LEMMA RowsDrop ==
  ASSUME NEW c \in [TUs -> Nat], NEW S \in SUBSET TUs,
         NEW d, d = [t \in TUs |-> IF t \in S THEN 0 ELSE c[t]]
  PROVE  /\ d \in [TUs -> Nat]
         /\ Cardinality(Rows(d, TUs)) = Cardinality(Rows(c, TUs)) - Cardinality(Rows(c, S))
<1>1. d \in [TUs -> Nat] /\ \A t \in TUs : d[t] = IF t \in S THEN 0 ELSE c[t]
  OBVIOUS
<1>2. Rows(d, TUs) = Rows(c, TUs) \ Rows(c, S)
  <2>1. ASSUME NEW x \in Rows(d, TUs)
        PROVE  x \in Rows(c, TUs) /\ x \notin Rows(c, S)
    <3>1. PICK t \in TUs : x \in {t} \X (1 .. d[t])
      BY DEF Rows
    <3>2. t \notin S
      <4> SUFFICES ASSUME t \in S PROVE FALSE
        OBVIOUS
      <4>1. x[2] \in 1 .. 0
        BY <1>1, <3>1
      <4> QED BY <4>1
    <3>3. x \in {t} \X (1 .. c[t])
      BY <1>1, <3>1, <3>2
    <3>4. x \notin Rows(c, S)
      <4> SUFFICES ASSUME x \in Rows(c, S) PROVE FALSE
        OBVIOUS
      <4>1. PICK u \in S : x \in {u} \X (1 .. c[u])
        BY DEF Rows
      <4>2. x[1] = u /\ x[1] = t
        BY <3>1, <4>1
      <4> QED BY <3>2, <4>2
    <3> QED BY <3>3, <3>4 DEF Rows
  <2>2. ASSUME NEW x \in Rows(c, TUs), x \notin Rows(c, S)
        PROVE  x \in Rows(d, TUs)
    <3>1. PICK t \in TUs : x \in {t} \X (1 .. c[t])
      BY DEF Rows
    <3>2. t \notin S
      BY <2>2, <3>1 DEF Rows
    <3>3. x \in {t} \X (1 .. d[t])
      BY <1>1, <3>1, <3>2
    <3> QED BY <3>3 DEF Rows
  <2> QED BY <2>1, <2>2
<1>3. Rows(c, TUs) \cap Rows(c, S) = Rows(c, S)
  BY DEF Rows
<1>4. IsFiniteSet(Rows(c, TUs))
  BY AllRowsFinite
<1>5. PICK A, B : A = Rows(c, TUs) /\ B = Rows(c, S)
  OBVIOUS
<1>6. Cardinality(A \ B) = Cardinality(A) - Cardinality(A \cap B)
  BY <1>4, <1>5, FS_Difference, Zenon
<1> QED BY <1>1, <1>2, <1>3, <1>5, <1>6, Zenon

-----------------------------------------------------------------------------
(* The graph of a multiset of registrations.                                 *)

Fields == {"nodes", "byName", "edges", "edgeIndex", "out", "in", "tuEdges",
           "contributors", "tuNodes", "live", "overrides", "bases", "returns", "returnedBy"}

\* All registrations of what a TU t registers c[t] times.
Total(c) == Cardinality(Rows(c, TUs))

\* The positions of the live edges at a caller, and at a callee.
LiveOut(g, f) == {i \in LiveIdx(g) : g.edges[i].key.caller = f}
LiveIn(g, f)  == {i \in LiveIdx(g) : g.edges[i].key.callee = f}

\* What is stored of an edge.
Edges == [key : EdgeKeys, refs : Nat]

\* Index, adjacency and count are those of the edges.
Indexed(g) ==
  /\ g.edges \in Seq(Edges)
  /\ g.live = Cardinality(LiveIdx(g))
  /\ DOMAIN g.edgeIndex = LiveKeys(g)
  /\ \A i \in LiveIdx(g) : g.edgeIndex[g.edges[i].key] = i
  /\ g.out = [f \in Fns |-> SetToBag(LiveOut(g, f))]
  /\ g.in = [f \in Fns |-> SetToBag(LiveIn(g, f))]

\* The live edges a TU has registered, with how often.
Held(g, e, t) ==
  [i \in {j \in LiveIdx(g) : e[g.edges[j].key][t] > 0} |-> e[g.edges[i].key][t]]

\* The edges are those of the registrations e[k][t].
EdgesOK(g, e) ==
  /\ LiveKeys(g) = {k \in EdgeKeys : \E t \in TUs : e[k][t] > 0}
  /\ \A i \in LiveIdx(g) : g.edges[i].refs = Total(e[g.edges[i].key])
  /\ g.tuEdges = [t \in TUs |-> Held(g, e, t)]

EdgeCounts == [EdgeKeys -> [TUs -> Nat]]

\* Edges and their registrations.
LEMMA EdgeRecords ==
  /\ \A x \in Edges : x.key \in EdgeKeys /\ x.refs \in Nat
  /\ \A x \in Edges, n \in Nat : LET y == [x EXCEPT !.refs = n]
                                IN y \in Edges /\ y.key = x.key /\ y.refs = n
  /\ \A k \in EdgeKeys, n \in Nat : [key |-> k, refs |-> n] \in Edges
BY DEF Edges

\* What is at a position.
LEMMA EdgeFacts ==
  ASSUME NEW g, Indexed(g)
  PROVE  /\ Len(g.edges) \in Nat /\ DOMAIN g.edges = 1 .. Len(g.edges)
         /\ \A i \in DOMAIN g.edges : /\ g.edges[i] \in Edges
                                      /\ g.edges[i].key \in EdgeKeys
                                      /\ g.edges[i].refs \in Nat
         /\ \A i \in LiveIdx(g) : i \in DOMAIN g.edges /\ g.edges[i].key \in LiveKeys(g)
         /\ \A i, j \in LiveIdx(g) : g.edges[i].key = g.edges[j].key => i = j
         /\ IsFiniteSet(LiveIdx(g)) /\ Cardinality(LiveIdx(g)) \in Nat
         /\ LiveIdx(g) \subseteq Nat
<1>1. /\ Len(g.edges) \in Nat /\ DOMAIN g.edges = 1 .. Len(g.edges)
      /\ \A i \in DOMAIN g.edges : /\ g.edges[i] \in Edges
                                   /\ g.edges[i].key \in EdgeKeys
                                   /\ g.edges[i].refs \in Nat
  <2>1. g.edges \in Seq(Edges)
    BY DEF Indexed
  <2>2. \A i \in DOMAIN g.edges : g.edges[i] \in Edges
    BY <2>1
  <2> QED BY <2>1, <2>2, EdgeRecords
<1>2. \A i \in LiveIdx(g) : i \in DOMAIN g.edges /\ g.edges[i].key \in LiveKeys(g)
  BY DEF LiveIdx, LiveKeys
<1>3. \A i, j \in LiveIdx(g) : g.edges[i].key = g.edges[j].key => i = j
  BY DEF Indexed
<1>4. IsFiniteSet(1 .. Len(g.edges)) /\ LiveIdx(g) \in SUBSET (1 .. Len(g.edges))
  <2>1. 1 \in Int /\ Len(g.edges) \in Int
    BY <1>1
  <2> QED BY <1>1, <1>2, <2>1, FS_Interval
<1>5. IsFiniteSet(LiveIdx(g)) /\ Cardinality(LiveIdx(g)) \in Nat
  BY <1>4, FS_Subset, FS_CardinalityType
<1> QED BY <1>1, <1>2, <1>3, <1>4, <1>5

\* Another registration of an edge that is stored.
LEMMA EdgeAgain ==
  ASSUME NEW g, DOMAIN g = Fields, Indexed(g), NEW e \in EdgeCounts, EdgesOK(g, e),
         NEW k \in EdgeKeys, NEW t \in TUs, k \in DOMAIN g.edgeIndex,
         NEW h, h = AddEdge(g, k, t),
         NEW d \in EdgeCounts, d[k] = [e[k] EXCEPT ![t] = @ + 1],
         \A x \in EdgeKeys : x # k => d[x] = e[x]
  PROVE  Indexed(h) /\ EdgesOK(h, d)
<1>1. PICK i : i = g.edgeIndex[k]
  OBVIOUS
<1>2. i \in LiveIdx(g) /\ g.edges[i].key = k
  <2>1. PICK j \in LiveIdx(g) : g.edges[j].key = k
    BY DEF Indexed, LiveKeys
  <2> QED BY <1>1, <2>1 DEF Indexed
<1>3. /\ h.edges = [g.edges EXCEPT ![i].refs = @ + 1]
      /\ h.tuEdges = [g.tuEdges EXCEPT ![t] = Push(@, i)]
      /\ h.live = g.live /\ h.edgeIndex = g.edgeIndex /\ h.out = g.out /\ h.in = g.in
  BY <1>1 DEF AddEdge, Fields
<1>4. /\ DOMAIN h.edges = DOMAIN g.edges
      /\ \A j \in DOMAIN g.edges : /\ h.edges[j].key = g.edges[j].key
                                   /\ h.edges[j].refs = IF j = i THEN g.edges[j].refs + 1
                                                        ELSE g.edges[j].refs
      /\ h.edges \in Seq(Edges)
  <2>1. i \in DOMAIN g.edges /\ g.edges[i] \in Edges /\ g.edges[i].refs \in Nat
    BY <1>2, EdgeFacts
  <2>2. PICK y : y = [g.edges[i] EXCEPT !.refs = g.edges[i].refs + 1]
    OBVIOUS
  <2>3. y \in Edges /\ y.key = g.edges[i].key /\ y.refs = g.edges[i].refs + 1
    BY <2>1, <2>2, EdgeRecords
  <2>4. h.edges = [g.edges EXCEPT ![i] = y] /\ g.edges \in Seq(Edges)
    BY <1>3, <2>2 DEF Indexed
  <2>5. h.edges \in Seq(Edges) /\ DOMAIN h.edges = DOMAIN g.edges
    BY <2>1, <2>3, <2>4
  <2>6. \A j \in DOMAIN g.edges : h.edges[j] = IF j = i THEN y ELSE g.edges[j]
    BY <2>1, <2>4
  <2>7. ASSUME NEW j \in DOMAIN g.edges
        PROVE  /\ h.edges[j].key = g.edges[j].key
               /\ h.edges[j].refs = IF j = i THEN g.edges[j].refs + 1 ELSE g.edges[j].refs
    BY <2>3, <2>6
  <2> QED BY <2>5, <2>7
<1>5. LiveIdx(h) = LiveIdx(g)
  <2>1. \A j \in DOMAIN g.edges : h.edges[j].refs > 0 <=> g.edges[j].refs > 0
    <3>1. \A j \in DOMAIN g.edges : g.edges[j].refs \in Nat
      BY EdgeFacts
    <3>2. g.edges[i].refs > 0
      BY <1>2 DEF LiveIdx
    <3> QED BY <1>4, <3>1, <3>2
  <2> QED BY <1>4, <2>1 DEF LiveIdx
<1>6. /\ LiveKeys(h) = LiveKeys(g)
      /\ \A f : LiveOut(h, f) = LiveOut(g, f) /\ LiveIn(h, f) = LiveIn(g, f)
  <2>1. \A j \in LiveIdx(g) : h.edges[j].key = g.edges[j].key
    BY <1>4, EdgeFacts
  <2>2. LiveKeys(h) = LiveKeys(g)
    BY <1>5, <2>1 DEF LiveKeys
  <2>3. \A f : LiveOut(h, f) = LiveOut(g, f)
    BY <1>5, <2>1 DEF LiveOut
  <2>4. \A f : LiveIn(h, f) = LiveIn(g, f)
    BY <1>5, <2>1 DEF LiveIn
  <2> QED BY <2>2, <2>3, <2>4
<1>7. Indexed(h)
  BY <1>3, <1>4, <1>5, <1>6, EdgeFacts DEF Indexed
<1>8. \A x \in EdgeKeys : (\E u \in TUs : d[x][u] > 0) <=> (\E u \in TUs : e[x][u] > 0)
  <2>1. e[k] \in [TUs -> Nat] /\ d[k][t] > 0
    BY DEF EdgeCounts
  <2>2. \E u \in TUs : e[k][u] > 0
    BY DEF EdgesOK, Indexed
  <2> QED BY <2>1, <2>2
<1>9. ASSUME NEW j \in LiveIdx(h)
      PROVE  h.edges[j].refs = Total(d[h.edges[j].key])
  <2>1. j \in LiveIdx(g) /\ g.edges[j].refs = Total(e[g.edges[j].key])
    BY <1>5 DEF EdgesOK
  <2>2. CASE j = i
    <3>1. Total(d[k]) = Total(e[k]) + 1
      <4>1. e[k] \in [TUs -> Nat]
        BY DEF EdgeCounts
      <4> QED BY <4>1, RowsAdd DEF Total
    <3> QED BY <1>2, <1>4, <2>1, <2>2, <3>1, EdgeFacts
  <2>3. CASE j # i
    <3>1. g.edges[j].key # k /\ g.edges[j].key \in EdgeKeys
      BY <1>2, <2>1, <2>3, EdgeFacts
    <3> QED BY <1>4, <2>1, <2>3, <3>1, EdgeFacts
  <2> QED BY <2>2, <2>3
<1>10. ASSUME NEW u \in TUs
       PROVE  h.tuEdges[u] = Held(h, d, u)
  <2>1. g.tuEdges[u] = Held(g, e, u)
    BY DEF EdgesOK
  <2>2. CASE u # t
    <3>1. \A j \in LiveIdx(g) : d[g.edges[j].key][u] = e[g.edges[j].key][u]
      <4>1. e[k] \in [TUs -> Nat]
        BY DEF EdgeCounts
      <4>2. d[k][u] = e[k][u]
        BY <2>2, <4>1
      <4>3. \A j \in LiveIdx(g) : g.edges[j].key \in EdgeKeys
        BY EdgeFacts
      <4> QED BY <4>2, <4>3
    <3>2. h.tuEdges[u] = g.tuEdges[u]
      BY <1>3, <2>2 DEF EdgesOK
    <3>3. \A j \in LiveIdx(g) : h.edges[j].key = g.edges[j].key
      BY <1>4, EdgeFacts
    <3> QED BY <1>5, <2>1, <3>1, <3>2, <3>3 DEF Held
  <2>3. CASE u = t
    <3>1. \A j \in LiveIdx(g) : /\ e[g.edges[j].key][t] \in Nat
                                /\ d[g.edges[j].key][t] = IF j = i THEN e[g.edges[j].key][t] + 1
                                                           ELSE e[g.edges[j].key][t]
      <4>1. \A j \in LiveIdx(g) : g.edges[j].key \in EdgeKeys /\ (g.edges[j].key = k <=> j = i)
        BY <1>2, EdgeFacts
      <4>2. e[k] \in [TUs -> Nat] /\ \A x \in EdgeKeys : e[x][t] \in Nat
        BY DEF EdgeCounts
      <4> QED BY <4>1, <4>2
    <3>2. h.tuEdges[t] = Push(Held(g, e, t), i)
      BY <1>3, <2>1, <2>3 DEF EdgesOK
    <3>3. \A j \in LiveIdx(g) : h.edges[j].key = g.edges[j].key
      BY <1>4, EdgeFacts
    <3> DEFINE D == {j \in LiveIdx(g) : e[g.edges[j].key][t] > 0}
    <3>4. {j \in LiveIdx(h) : d[h.edges[j].key][t] > 0} = D \cup {i}
      BY <1>2, <1>5, <3>1, <3>3
    <3>5. Held(h, d, t) = [j \in D \cup {i} |-> d[g.edges[j].key][t]]
      BY <1>2, <1>5, <3>3, <3>4 DEF Held
    <3>6. Push(Held(g, e, t), i) =
            [j \in D \cup {i} |-> (IF j \in D THEN e[g.edges[j].key][t] ELSE 0)
                                 + (IF j \in {i} THEN 1 ELSE 0)]
      BY DEF Held, Push, SetToBag, (+)
    <3>7. \A j \in D \cup {i} : d[g.edges[j].key][t] =
            (IF j \in D THEN e[g.edges[j].key][t] ELSE 0) + (IF j \in {i} THEN 1 ELSE 0)
      BY <1>2, <3>1
    <3> HIDE DEF D
    <3> QED BY <2>3, <3>2, <3>5, <3>6, <3>7
  <2> QED BY <2>2, <2>3
<1>11. h.tuEdges = [u \in TUs |-> Held(h, d, u)]
  BY <1>3, <1>10 DEF EdgesOK
<1> QED BY <1>6, <1>7, <1>8, <1>9, <1>11 DEF EdgesOK

\* The first registration of an edge.
LEMMA EdgeFirst ==
  ASSUME NEW g, DOMAIN g = Fields, Indexed(g), NEW e \in EdgeCounts, EdgesOK(g, e),
         NEW k \in EdgeKeys, NEW t \in TUs, k \notin DOMAIN g.edgeIndex,
         NEW h, h = AddEdge(g, k, t),
         NEW d \in EdgeCounts, d[k] = [e[k] EXCEPT ![t] = @ + 1],
         \A x \in EdgeKeys : x # k => d[x] = e[x]
  PROVE  Indexed(h) /\ EdgesOK(h, d)
<1>1. PICK i : i = Len(g.edges) + 1
  OBVIOUS
<1>2. PICK y : y = [key |-> k, refs |-> 1]
  OBVIOUS
<1>3. y \in Edges /\ y.key = k /\ y.refs = 1
  BY <1>2, EdgeRecords
<1>4. /\ h.edges = Append(g.edges, y) /\ h.live = g.live + 1
      /\ h.edgeIndex = [x \in DOMAIN g.edgeIndex \cup {k} |-> IF x = k THEN i ELSE g.edgeIndex[x]]
      /\ h.out = [g.out EXCEPT ![k.caller] = Push(@, i)]
      /\ h.in = [g.in EXCEPT ![k.callee] = Push(@, i)]
      /\ h.tuEdges = [g.tuEdges EXCEPT ![t] = Push(@, i)]
  BY <1>1, <1>2 DEF AddEdge, Fields
<1>5. /\ h.edges \in Seq(Edges) /\ DOMAIN h.edges = DOMAIN g.edges \cup {i}
      /\ i \notin DOMAIN g.edges /\ h.edges[i] = y
      /\ \A j \in DOMAIN g.edges : h.edges[j] = g.edges[j]
  <2>1. g.edges \in Seq(Edges)
    BY DEF Indexed
  <2> QED BY <1>1, <1>3, <1>4, <2>1
<1>6. LiveIdx(h) = LiveIdx(g) \cup {i} /\ i \notin LiveIdx(g)
  BY <1>3, <1>5 DEF LiveIdx
<1>7. /\ h.edges[i].key = k
      /\ \A j \in LiveIdx(g) : /\ h.edges[j].key = g.edges[j].key
                               /\ g.edges[j].key # k /\ g.edges[j].key \in EdgeKeys
  <2>1. \A j \in LiveIdx(g) : j \in DOMAIN g.edges /\ g.edges[j].key \in LiveKeys(g)
                              /\ g.edges[j].key \in EdgeKeys
    BY EdgeFacts
  <2>2. k \notin LiveKeys(g)
    BY DEF Indexed
  <2> QED BY <1>3, <1>5, <2>1, <2>2
<1>8. LiveKeys(h) = LiveKeys(g) \cup {k}
  BY <1>6, <1>7 DEF LiveKeys
<1>9. \A u \in TUs : e[k][u] = 0 /\ d[k][u] = (IF u = t THEN 1 ELSE 0)
  <2>1. e[k] \in [TUs -> Nat]
    BY DEF EdgeCounts
  <2>2. \A u \in TUs : ~(e[k][u] > 0)
    BY DEF EdgesOK, Indexed
  <2> QED BY <2>1, <2>2
<1>10. Indexed(h)
  <2>1. h.live = Cardinality(LiveIdx(h))
    <3>1. IsFiniteSet(LiveIdx(g)) /\ g.live = Cardinality(LiveIdx(g))
      BY EdgeFacts DEF Indexed
    <3>2. Cardinality(LiveIdx(g) \cup {i}) = Cardinality(LiveIdx(g)) + 1
      BY <1>6, <3>1, FS_AddElement, Zenon
    <3> QED BY <1>4, <1>6, <3>1, <3>2
  <2>2. DOMAIN h.edgeIndex = LiveKeys(h)
    BY <1>4, <1>8 DEF Indexed
  <2>3. \A j \in LiveIdx(h) : h.edgeIndex[h.edges[j].key] = j
    <3>1. \A j \in LiveIdx(g) : /\ g.edges[j].key \in DOMAIN g.edgeIndex
                                /\ g.edgeIndex[g.edges[j].key] = j
      BY EdgeFacts DEF Indexed
    <3>2. /\ h.edgeIndex[k] = i
          /\ \A x \in DOMAIN g.edgeIndex : x # k => h.edgeIndex[x] = g.edgeIndex[x]
      BY <1>4
    <3>3. \A j \in LiveIdx(g) : h.edgeIndex[h.edges[j].key] = j
      BY <1>7, <3>1, <3>2
    <3> QED BY <1>6, <1>7, <3>2, <3>3
  <2>4. ASSUME NEW f \in Fns
        PROVE  h.out[f] = SetToBag(LiveOut(h, f))
    <3>1. LiveOut(h, f) = LiveOut(g, f) \cup (IF f = k.caller THEN {i} ELSE {})
      BY <1>6, <1>7 DEF LiveOut
    <3>2. i \notin LiveOut(g, f) /\ g.out = [x \in Fns |-> SetToBag(LiveOut(g, x))]
      BY <1>6 DEF LiveOut, Indexed
    <3>3. h.out[f] = IF f = k.caller THEN Push(SetToBag(LiveOut(g, f)), i)
                     ELSE SetToBag(LiveOut(g, f))
      BY <1>4, <3>2
    <3>4. Push(SetToBag(LiveOut(g, f)), i) = SetToBag(LiveOut(g, f) \cup {i})
      BY <3>2, OnceFacts, Zenon
    <3> QED BY <3>1, <3>3, <3>4
  <2>5. ASSUME NEW f \in Fns
        PROVE  h.in[f] = SetToBag(LiveIn(h, f))
    <3>1. LiveIn(h, f) = LiveIn(g, f) \cup (IF f = k.callee THEN {i} ELSE {})
      BY <1>6, <1>7 DEF LiveIn
    <3>2. i \notin LiveIn(g, f) /\ g.in = [x \in Fns |-> SetToBag(LiveIn(g, x))]
      BY <1>6 DEF LiveIn, Indexed
    <3>3. h.in[f] = IF f = k.callee THEN Push(SetToBag(LiveIn(g, f)), i)
                    ELSE SetToBag(LiveIn(g, f))
      BY <1>4, <3>2
    <3>4. Push(SetToBag(LiveIn(g, f)), i) = SetToBag(LiveIn(g, f) \cup {i})
      BY <3>2, OnceFacts, Zenon
    <3> QED BY <3>1, <3>3, <3>4
  <2>6. /\ h.out = [f \in Fns |-> SetToBag(LiveOut(h, f))]
        /\ h.in = [f \in Fns |-> SetToBag(LiveIn(h, f))]
    <3>1. /\ h.out = [f \in Fns |-> h.out[f]]
          /\ h.in = [f \in Fns |-> h.in[f]]
      BY <1>4 DEF Indexed
    <3> QED BY <2>4, <2>5, <3>1
  <2> QED BY <1>5, <2>1, <2>2, <2>3, <2>6 DEF Indexed
<1>11. LiveKeys(h) = {x \in EdgeKeys : \E u \in TUs : d[x][u] > 0}
  BY <1>8, <1>9 DEF EdgesOK
<1>12. ASSUME NEW j \in LiveIdx(h)
       PROVE  h.edges[j].refs = Total(d[h.edges[j].key])
  <2>1. CASE j = i
    <3>1. e[k] \in [TUs -> Nat]
      BY DEF EdgeCounts
    <3>2. Total(d[k]) = Total(e[k]) + 1
      BY <3>1, RowsAdd DEF Total
    <3>3. Total(e[k]) = 0
      <4>1. TUs \in SUBSET TUs /\ \A u \in TUs : e[k][u] = 0
        BY <1>9
      <4> QED BY <3>1, <4>1, RowsFinite DEF Total
    <3> QED BY <1>3, <1>5, <2>1, <3>2, <3>3
  <2>2. CASE j # i
    <3>1. j \in LiveIdx(g) /\ g.edges[j].refs = Total(e[g.edges[j].key])
      BY <1>6, <2>2 DEF EdgesOK
    <3>2. h.edges[j] = g.edges[j]
      BY <1>5, <3>1, EdgeFacts
    <3> QED BY <1>7, <3>1, <3>2
  <2> QED BY <2>1, <2>2
<1>13. ASSUME NEW u \in TUs
       PROVE  h.tuEdges[u] = Held(h, d, u)
  <2>1. g.tuEdges[u] = Held(g, e, u)
    BY DEF EdgesOK
  <2> DEFINE D == {j \in LiveIdx(g) : e[g.edges[j].key][u] > 0}
  <2>2. \A j \in LiveIdx(g) : /\ h.edges[j].key = g.edges[j].key
                              /\ d[g.edges[j].key] = e[g.edges[j].key]
    BY <1>7
  <2>3. {j \in LiveIdx(h) : d[h.edges[j].key][u] > 0} = D \cup (IF u = t THEN {i} ELSE {})
    <3>1. h.edges[i].key = k /\ (d[k][u] > 0 <=> u = t)
      BY <1>7, <1>9
    <3>2. {j \in LiveIdx(h) : d[h.edges[j].key][u] > 0} =
            {j \in LiveIdx(g) : d[h.edges[j].key][u] > 0}
              \cup {j \in {i} : d[h.edges[j].key][u] > 0}
      BY <1>6
    <3>3. {j \in LiveIdx(g) : d[h.edges[j].key][u] > 0} = D
      BY <2>2
    <3> QED BY <3>1, <3>2, <3>3
  <2>4. CASE u # t
    <3>1. h.tuEdges[u] = g.tuEdges[u]
      BY <1>4, <2>4 DEF EdgesOK
    <3>2. {j \in LiveIdx(h) : d[h.edges[j].key][u] > 0} = D
      BY <2>3, <2>4
    <3>3. Held(h, d, u) = [j \in D |-> d[h.edges[j].key][u]]
      BY <3>2, Zenon DEF Held
    <3>4. Held(g, e, u) = [j \in D |-> e[g.edges[j].key][u]]
      BY Zenon DEF Held
    <3>5. \A j \in D : d[h.edges[j].key][u] = e[g.edges[j].key][u]
      BY <2>2
    <3> HIDE DEF D
    <3>6. Held(h, d, u) = Held(g, e, u)
      BY <3>3, <3>4, <3>5
    <3> QED BY <2>1, <3>1, <3>6
  <2>5. CASE u = t
    <3>1. h.tuEdges[t] = Push(Held(g, e, t), i)
      BY <1>4, <2>1, <2>5 DEF EdgesOK
    <3>2. Held(h, d, t) = [j \in D \cup {i} |-> d[h.edges[j].key][t]]
      BY <2>3, <2>5 DEF Held
    <3>3. Push(Held(g, e, t), i) =
            [j \in D \cup {i} |-> (IF j \in D THEN e[g.edges[j].key][t] ELSE 0)
                                 + (IF j \in {i} THEN 1 ELSE 0)]
      BY <2>5 DEF Held, Push, SetToBag, (+)
    <3>4. \A j \in D \cup {i} : d[h.edges[j].key][t] =
            (IF j \in D THEN e[g.edges[j].key][t] ELSE 0) + (IF j \in {i} THEN 1 ELSE 0)
      <4>1. \A x \in EdgeKeys : e[x][t] \in Nat
        BY DEF EdgeCounts
      <4>2. i \notin D /\ d[h.edges[i].key][t] = 1
        BY <1>6, <1>7, <1>9
      <4>3. \A j \in D : d[h.edges[j].key][t] = e[g.edges[j].key][t] /\ e[g.edges[j].key][t] \in Nat
        BY <1>7, <2>2, <4>1
      <4> QED BY <4>2, <4>3
    <3> HIDE DEF D
    <3> QED BY <2>5, <3>1, <3>2, <3>3, <3>4
  <2> QED BY <2>4, <2>5
<1>14. h.tuEdges = [u \in TUs |-> Held(h, d, u)]
  BY <1>4, <1>13 DEF EdgesOK
<1> QED BY <1>10, <1>11, <1>12, <1>14 DEF EdgesOK

\* A sum of registrations is 0 only if there are none.
LEMMA TotalFacts ==
  ASSUME NEW c \in [TUs -> Nat]
  PROVE  Total(c) \in Nat /\ (Total(c) > 0 <=> \E t \in TUs : c[t] > 0)
<1>1. TUs \in SUBSET TUs
  OBVIOUS
<1>2. PICK S \in SUBSET TUs : S = TUs
  BY <1>1
<1>3. /\ Cardinality(Rows(c, S)) \in Nat
      /\ Cardinality(Rows(c, S)) = 0 <=> \A t \in S : c[t] = 0
  BY RowsFinite
<1>4. Total(c) \in Nat /\ (Total(c) = 0 <=> \A t \in TUs : c[t] = 0)
  BY <1>2, <1>3 DEF Total
<1>5. \A t \in TUs : c[t] > 0 <=> c[t] # 0
  OBVIOUS
<1> QED BY <1>4, <1>5

\* How many registrations of a live edge go with the TUs of S.
LEMMA ReleasedIs ==
  ASSUME NEW g, Indexed(g), NEW e \in EdgeCounts, EdgesOK(g, e), NEW S \in SUBSET TUs
  PROVE  /\ \A i \in LiveIdx(g) : Released(g, S, i) = Cardinality(Rows(e[g.edges[i].key], S))
         /\ \A i \in DOMAIN g.edges \ LiveIdx(g) : g.edges[i].refs = 0 /\ Released(g, S, i) = 0
<1>1. ASSUME NEW i \in LiveIdx(g)
      PROVE  Released(g, S, i) = Cardinality(Rows(e[g.edges[i].key], S))
  <2>1. PICK c : c = e[g.edges[i].key]
    OBVIOUS
  <2>2. c \in [TUs -> Nat]
    BY <2>1, EdgeFacts DEF EdgeCounts
  <2>3. \A t \in S : Copies(i, g.tuEdges[t]) = c[t]
    <3>1. \A t \in S : g.tuEdges[t] = Held(g, e, t)
      BY DEF EdgesOK
    <3>2. ASSUME NEW t \in S
          PROVE  Copies(i, Held(g, e, t)) = c[t]
      <4>1. DOMAIN Held(g, e, t) = {j \in LiveIdx(g) : e[g.edges[j].key][t] > 0}
        BY DEF Held
      <4>2. c[t] > 0 => Held(g, e, t)[i] = c[t]
        BY <2>1 DEF Held
      <4>3. i \in DOMAIN Held(g, e, t) <=> c[t] > 0
        BY <2>1, <4>1
      <4>4. c[t] \in Nat
        BY <2>2
      <4> QED BY <4>2, <4>3, <4>4 DEF Copies
    <3> QED BY <3>1, <3>2
  <2>4. Registrations(g, S, i) = Rows(c, S)
    BY <2>3 DEF Registrations, Rows
  <2> QED BY <2>1, <2>4 DEF Released
<1>2. ASSUME NEW i \in DOMAIN g.edges \ LiveIdx(g)
      PROVE  g.edges[i].refs = 0 /\ Released(g, S, i) = 0
  <2>1. g.edges[i].refs \in Nat /\ ~(g.edges[i].refs > 0)
    BY EdgeFacts DEF LiveIdx
  <2>2. \A t \in S : Copies(i, g.tuEdges[t]) = 0
    <3>1. \A t \in S : g.tuEdges[t] = Held(g, e, t)
      BY DEF EdgesOK
    <3> QED BY <3>1 DEF Copies, Held
  <2>3. Registrations(g, S, i) = {}
    <3> SUFFICES ASSUME NEW x \in Registrations(g, S, i) PROVE FALSE
      OBVIOUS
    <3>1. PICK t \in S : x \in {t} \X (1 .. Copies(i, g.tuEdges[t]))
      BY DEF Registrations
    <3>2. x \in {t} \X (1 .. 0)
      BY <2>2, <3>1
    <3>3. 1 .. 0 = {}
      OBVIOUS
    <3> QED BY <3>2, <3>3
  <2>4. Released(g, S, i) = 0
    BY <2>3, FS_EmptySet, Zenon DEF Released
  <2> QED BY <2>1, <2>4
<1> QED BY <1>1, <1>2

\* d counts as e does, without the TUs S.
Forgets(d, e, S) ==
  \A k \in EdgeKeys : d[k] = [t \in TUs |-> IF t \in S THEN 0 ELSE e[k][t]]

\* The registrations of the TUs of S go, and the edges nobody else registered.
LEMMA EdgesReleased ==
  ASSUME NEW g, DOMAIN g = Fields, Indexed(g), NEW e \in EdgeCounts, EdgesOK(g, e),
         NEW S \in SUBSET TUs, NEW h, h = ReleaseEdges(g, S),
         NEW d \in EdgeCounts, Forgets(d, e, S)
  PROVE  Indexed(h) /\ EdgesOK(h, d)
<1> USE DEF Forgets
<1>1. PICK dead : dead = Dying(g, S)
  OBVIOUS
<1>2. /\ h.edges = [i \in DOMAIN g.edges |-> Left(g, S, i)]
      /\ h.edgeIndex = [k \in DOMAIN g.edgeIndex \ {g.edges[i].key : i \in dead} |->
                          g.edgeIndex[k]]
      /\ h.out = ScrubbedOut(g, dead) /\ h.in = ScrubbedIn(g, dead)
      /\ h.live = g.live - Cardinality(dead)
      /\ h.tuEdges = [t \in TUs |-> IF t \in S THEN EmptyBag ELSE g.tuEdges[t]]
  BY <1>1 DEF ReleaseEdges, Fields
<1>3. ASSUME NEW i \in LiveIdx(g)
      PROVE  /\ Total(d[g.edges[i].key]) \in Nat
             /\ Total(d[g.edges[i].key]) = g.edges[i].refs - Released(g, S, i)
             /\ i \in dead <=> Total(d[g.edges[i].key]) = 0
  <2>1. PICK k : k = g.edges[i].key
    OBVIOUS
  <2>2. k \in EdgeKeys /\ e[k] \in [TUs -> Nat] /\ d[k] \in [TUs -> Nat]
    BY <2>1, EdgeFacts DEF EdgeCounts
  <2>3. Total(d[k]) = Total(e[k]) - Cardinality(Rows(e[k], S))
    BY <2>2, RowsDrop DEF Total
  <2>4. g.edges[i].refs = Total(e[k]) /\ Released(g, S, i) = Cardinality(Rows(e[k], S))
    BY <2>1, ReleasedIs DEF EdgesOK
  <2>5. Total(d[k]) \in Nat /\ Total(e[k]) \in Nat /\ Cardinality(Rows(e[k], S)) \in Nat
    BY <2>2, TotalFacts, RowsFinite
  <2>6. i \in dead <=> Cardinality(Rows(e[k], S)) >= Total(e[k])
    BY <1>1, <2>4 DEF Dying
  <2> QED BY <2>1, <2>3, <2>4, <2>5, <2>6
<1>4. /\ h.edges \in Seq(Edges) /\ DOMAIN h.edges = DOMAIN g.edges
      /\ \A i \in DOMAIN g.edges : /\ h.edges[i].key = g.edges[i].key
                                   /\ i \in LiveIdx(g) => h.edges[i].refs = Total(d[g.edges[i].key])
                                   /\ i \notin LiveIdx(g) => h.edges[i].refs = 0
  <2>1. ASSUME NEW i \in DOMAIN g.edges
        PROVE  /\ h.edges[i] \in Edges /\ h.edges[i].key = g.edges[i].key
               /\ i \in LiveIdx(g) => h.edges[i].refs = Total(d[g.edges[i].key])
               /\ i \notin LiveIdx(g) => h.edges[i].refs = 0
    <3>1. PICK n : n = IF i \in dead THEN 0 ELSE g.edges[i].refs - Released(g, S, i)
      OBVIOUS
    <3>2. h.edges[i] = [g.edges[i] EXCEPT !.refs = n]
      BY <1>1, <1>2, <3>1 DEF Left
    <3>3. /\ n \in Nat
          /\ i \in LiveIdx(g) => n = Total(d[g.edges[i].key])
          /\ i \notin LiveIdx(g) => n = 0
      BY <1>3, <3>1, ReleasedIs
    <3>4. g.edges[i] \in Edges
      BY EdgeFacts
    <3>5. PICK x : x = g.edges[i]
      OBVIOUS
    <3>6. PICK y : y = [x EXCEPT !.refs = n]
      OBVIOUS
    <3>7. y \in Edges /\ y.key = x.key /\ y.refs = n
      BY <3>3, <3>4, <3>5, <3>6, EdgeRecords
    <3> QED BY <3>2, <3>3, <3>5, <3>6, <3>7
  <2>2. DOMAIN h.edges = DOMAIN g.edges /\ DOMAIN g.edges = 1 .. Len(g.edges) /\ Len(g.edges) \in Nat
    BY <1>2, EdgeFacts
  <2>3. h.edges \in [1 .. Len(g.edges) -> Edges]
    BY <1>2, <2>1, <2>2
  <2>4. h.edges \in Seq(Edges)
    BY <2>2, <2>3, SeqDef
  <2> QED BY <2>1, <2>2, <2>4
<1>5. LiveIdx(h) = LiveIdx(g) \ dead /\ dead \subseteq LiveIdx(g)
  <2>1. dead \subseteq LiveIdx(g)
    BY <1>1 DEF Dying
  <2>2. \A i \in LiveIdx(g) : h.edges[i].refs > 0 <=> i \notin dead
    BY <1>3, <1>4, EdgeFacts
  <2>3. \A i \in DOMAIN g.edges \ LiveIdx(g) : ~(h.edges[i].refs > 0)
    BY <1>4
  <2>4. LiveIdx(g) \subseteq DOMAIN g.edges
    BY EdgeFacts
  <2>5. LiveIdx(h) = {i \in DOMAIN g.edges : h.edges[i].refs > 0}
    BY <1>4 DEF LiveIdx
  <2> QED BY <2>1, <2>2, <2>3, <2>4, <2>5
<1>6. \A i \in LiveIdx(g) : i \in DOMAIN g.edges /\ h.edges[i].key = g.edges[i].key
  BY <1>4, EdgeFacts
<1>7. LiveKeys(h) = LiveKeys(g) \ {g.edges[i].key : i \in dead}
  <2>1. LiveKeys(h) = {g.edges[i].key : i \in LiveIdx(g) \ dead}
    BY <1>5, <1>6 DEF LiveKeys
  <2>2. \A i, j \in LiveIdx(g) : g.edges[i].key = g.edges[j].key => i = j
    BY EdgeFacts
  <2>3. LiveKeys(g) = {g.edges[i].key : i \in LiveIdx(g)}
    BY DEF LiveKeys
  <2>4. ASSUME NEW k
        PROVE  k \in LiveKeys(h) <=> k \in LiveKeys(g) /\ k \notin {g.edges[i].key : i \in dead}
    BY <1>5, <2>1, <2>2, <2>3
  <2> QED BY <2>4
<1>8. Indexed(h)
  <2>1. h.live = Cardinality(LiveIdx(h))
    <3>1. IsFiniteSet(LiveIdx(g)) /\ g.live = Cardinality(LiveIdx(g))
      BY EdgeFacts DEF Indexed
    <3>2. Cardinality(LiveIdx(g) \ dead) = Cardinality(LiveIdx(g)) - Cardinality(LiveIdx(g) \cap dead)
      BY <3>1, FS_Difference, Zenon
    <3>3. LiveIdx(g) \cap dead = dead
      BY <1>5
    <3> QED BY <1>2, <1>5, <3>1, <3>2, <3>3
  <2>2. DOMAIN h.edgeIndex = LiveKeys(h)
    BY <1>2, <1>7 DEF Indexed
  <2>3. \A i \in LiveIdx(h) : h.edgeIndex[h.edges[i].key] = i
    <3>1. \A i \in LiveIdx(h) : h.edges[i].key = g.edges[i].key /\ i \in LiveIdx(g)
      BY <1>5, <1>6
    <3>2. \A i \in LiveIdx(h) : h.edges[i].key \in DOMAIN h.edgeIndex
      BY <2>2 DEF LiveKeys
    <3>3. \A x \in DOMAIN h.edgeIndex : h.edgeIndex[x] = g.edgeIndex[x]
      BY <1>2
    <3> QED BY <3>1, <3>2, <3>3 DEF Indexed
  <2>4. h.out = [f \in Fns |-> SetToBag(LiveOut(h, f))]
    <3>1. \A f \in Fns : LiveOut(h, f) = LiveOut(g, f) \ dead
      BY <1>5, <1>6 DEF LiveOut
    <3>2. \A f \in Fns : Without(SetToBag(LiveOut(g, f)), dead) = SetToBag(LiveOut(g, f) \ dead)
      BY OnceFacts, Zenon
    <3>3. h.out = [f \in Fns |-> Without(SetToBag(LiveOut(g, f)), dead)]
      BY <1>2 DEF ScrubbedOut, Indexed
    <3> QED BY <3>1, <3>2, <3>3
  <2>5. h.in = [f \in Fns |-> SetToBag(LiveIn(h, f))]
    <3>1. \A f \in Fns : LiveIn(h, f) = LiveIn(g, f) \ dead
      BY <1>5, <1>6 DEF LiveIn
    <3>2. \A f \in Fns : Without(SetToBag(LiveIn(g, f)), dead) = SetToBag(LiveIn(g, f) \ dead)
      BY OnceFacts, Zenon
    <3>3. h.in = [f \in Fns |-> Without(SetToBag(LiveIn(g, f)), dead)]
      BY <1>2 DEF ScrubbedIn, Indexed
    <3> QED BY <3>1, <3>2, <3>3
  <2> QED BY <1>4, <2>1, <2>2, <2>3, <2>4, <2>5 DEF Indexed
<1>9. \A i \in LiveIdx(g) : i \in dead <=> ~(\E t \in TUs : d[g.edges[i].key][t] > 0)
  <2> SUFFICES ASSUME NEW i \in LiveIdx(g)
               PROVE  i \in dead <=> ~(\E t \in TUs : d[g.edges[i].key][t] > 0)
    OBVIOUS
  <2>1. d[g.edges[i].key] \in [TUs -> Nat]
    BY EdgeFacts DEF EdgeCounts
  <2>2. PICK c \in [TUs -> Nat] : c = d[g.edges[i].key]
    BY <2>1
  <2>3. Total(c) \in Nat /\ (Total(c) > 0 <=> \E t \in TUs : c[t] > 0)
    BY TotalFacts
  <2>4. i \in dead <=> Total(c) = 0
    BY <1>3, <2>2
  <2> QED BY <2>2, <2>3, <2>4
<1>10. \A k \in EdgeKeys, t \in TUs : /\ d[k][t] = IF t \in S THEN 0 ELSE e[k][t]
                                      /\ e[k][t] \in Nat
  BY DEF EdgeCounts
<1>11. LiveKeys(h) = {k \in EdgeKeys : \E t \in TUs : d[k][t] > 0}
  <2>1. \A k \in EdgeKeys : (\E t \in TUs : d[k][t] > 0) => k \in LiveKeys(g)
    BY <1>10 DEF EdgesOK
  <2>2. \A i \in LiveIdx(g) : g.edges[i].key \in EdgeKeys
    BY EdgeFacts
  <2>3. \A k \in LiveKeys(h) : k \in EdgeKeys /\ \E t \in TUs : d[k][t] > 0
    BY <1>5, <1>6, <1>9, <2>2 DEF LiveKeys
  <2>4. \A k \in EdgeKeys : (\E t \in TUs : d[k][t] > 0) => k \in LiveKeys(h)
    BY <1>5, <1>6, <1>9, <2>1 DEF LiveKeys
  <2> QED BY <2>3, <2>4
<1>12. \A i \in LiveIdx(h) : h.edges[i].refs = Total(d[h.edges[i].key])
  BY <1>4, <1>5, <1>6
<1>13. ASSUME NEW t \in TUs
       PROVE  h.tuEdges[t] = Held(h, d, t)
  <2>1. \A j \in LiveIdx(g) : h.edges[j].key = g.edges[j].key /\ g.edges[j].key \in EdgeKeys
    BY <1>6, EdgeFacts
  <2>2. CASE t \in S
    <3>1. {j \in LiveIdx(h) : d[h.edges[j].key][t] > 0} = {}
      BY <1>5, <1>10, <2>1, <2>2
    <3>2. h.tuEdges[t] = [j \in {} |-> 1]
      BY <1>2, <2>2 DEF EmptyBag, SetToBag
    <3> QED BY <3>1, <3>2 DEF Held
  <2>3. CASE t \notin S
    <3>1. h.tuEdges[t] = Held(g, e, t)
      BY <1>2, <2>3 DEF EdgesOK
    <3>2. \A j \in LiveIdx(g) : d[h.edges[j].key][t] = e[g.edges[j].key][t]
      BY <1>10, <2>1, <2>3
    <3>3. {j \in LiveIdx(h) : d[h.edges[j].key][t] > 0} =
            {j \in LiveIdx(g) : e[g.edges[j].key][t] > 0}
      BY <1>5, <1>9, <2>1, <3>2
    <3> QED BY <3>1, <3>2, <3>3 DEF Held
  <2> QED BY <2>2, <2>3
<1>14. h.tuEdges = [t \in TUs |-> Held(h, d, t)]
  BY <1>2, <1>13
<1> QED BY <1>8, <1>11, <1>12, <1>14 DEF EdgesOK

\* The edges of h are the live ones of g, at the positions L and in their order,
\* under new numbers; the maps of h are built anew from x, and from e.
Repacked(h, x, g, e, L, N) ==
  /\ L = LiveIdx(g) /\ N = Cardinality(L)
  /\ h.edges \in Seq(Edges) /\ DOMAIN h.edges = 1 .. N /\ h.live = N
  /\ \A n \in 1 .. N : h.edges[n] = g.edges[Nth(L, n)]
  /\ DOMAIN x = 1 .. N /\ \A n \in 1 .. N : x[n].key = h.edges[n].key
  /\ h.edgeIndex = IndexOf(x) /\ h.out = OutLists(x) /\ h.in = InLists(x)
  /\ h.tuEdges = [t \in TUs |->
                    [n \in {m \in 1 .. N : e[h.edges[m].key][t] > 0} |->
                       e[h.edges[n].key][t]]]

\* Such a graph is as good as g.
LEMMA EdgesRenumbered ==
  ASSUME NEW g, Indexed(g), NEW e \in EdgeCounts, EdgesOK(g, e),
         NEW L, NEW N, NEW h, NEW x, Repacked(h, x, g, e, L, N)
  PROVE  Indexed(h) /\ EdgesOK(h, e)
<1>0. /\ L = LiveIdx(g) /\ N = Cardinality(L)
      /\ h.edges \in Seq(Edges) /\ DOMAIN h.edges = 1 .. N /\ h.live = N
      /\ \A n \in 1 .. N : h.edges[n] = g.edges[Nth(L, n)]
      /\ DOMAIN x = 1 .. N /\ \A n \in 1 .. N : x[n].key = h.edges[n].key
      /\ h.edgeIndex = IndexOf(x) /\ h.out = OutLists(x) /\ h.in = InLists(x)
      /\ h.tuEdges = [t \in TUs |->
                        [n \in {m \in 1 .. N : e[h.edges[m].key][t] > 0} |->
                           e[h.edges[n].key][t]]]
  BY Zenon DEF Repacked
<1>1. N \in Nat /\ L \subseteq Nat /\ IsFiniteSet(L)
  BY <1>0, EdgeFacts
<1>2. /\ \A n \in 1 .. N : Nth(L, n) \in L /\ Rank(L, Nth(L, n)) = n
      /\ \A i \in L : Nth(L, Rank(L, i)) = i /\ Rank(L, i) \in 1 .. N
  BY <1>0, <1>1, NthFacts, RankFacts
<1>3. LiveIdx(h) = 1 .. N
  <2>1. \A n \in 1 .. N : h.edges[n].refs > 0
    BY <1>0, <1>2 DEF LiveIdx
  <2> QED BY <1>0, <2>1 DEF LiveIdx
<1>4. LiveKeys(h) = LiveKeys(g)
  <2>1. LiveKeys(h) = {h.edges[n].key : n \in 1 .. N} /\ LiveKeys(g) = {g.edges[i].key : i \in L}
    BY <1>0, <1>3 DEF LiveKeys
  <2>2. \A n \in 1 .. N : \E i \in L : h.edges[n].key = g.edges[i].key
    BY <1>0, <1>2
  <2>3. \A i \in L : \E n \in 1 .. N : h.edges[n].key = g.edges[i].key
    BY <1>0, <1>2
  <2>4. \A x1 \in LiveKeys(h) : x1 \in LiveKeys(g)
    BY <2>1, <2>2
  <2>5. \A x1 \in LiveKeys(g) : x1 \in LiveKeys(h)
    BY <2>1, <2>3
  <2> QED BY <2>4, <2>5
<1>5. \A m, n \in 1 .. N : h.edges[m].key = h.edges[n].key => m = n
  <2> SUFFICES ASSUME NEW m \in 1 .. N, NEW n \in 1 .. N, h.edges[m].key = h.edges[n].key
               PROVE  m = n
    OBVIOUS
  <2>1. Nth(L, m) = Nth(L, n)
    BY <1>0, <1>2, EdgeFacts
  <2> QED BY <1>0, <1>2, <2>1
<1>6. Indexed(h)
  <2>1. h.live = Cardinality(LiveIdx(h))
    BY <1>0, <1>1, <1>3, FS_Interval
  <2>2. /\ DOMAIN IndexOf(x) = {x[n].key : n \in 1 .. N}
        /\ \A n \in 1 .. N : IndexOf(x)[x[n].key] = CHOOSE i \in 1 .. N : x[i].key = x[n].key
    BY <1>0 DEF IndexOf
  <2>3. DOMAIN h.edgeIndex = LiveKeys(h)
    BY <1>0, <1>3, <2>2 DEF LiveKeys
  <2>4. \A n \in LiveIdx(h) : h.edgeIndex[h.edges[n].key] = n
    <3> SUFFICES ASSUME NEW n \in 1 .. N PROVE h.edgeIndex[x[n].key] = n
      BY <1>0, <1>3
    <3>1. PICK m : m = CHOOSE i \in 1 .. N : x[i].key = x[n].key
      OBVIOUS
    <3>2. m \in 1 .. N /\ x[m].key = x[n].key
      BY <1>0, <3>1
    <3>3. m = n
      BY <1>0, <1>5, <3>2
    <3> QED BY <1>0, <2>2, <3>1, <3>3
  <2>5. \A f \in Fns : SetToBag(LiveOut(h, f)) = SetToBag({n \in DOMAIN x : x[n].key.caller = f})
    BY <1>0, <1>3 DEF LiveOut
  <2>6. h.out = [f \in Fns |-> SetToBag(LiveOut(h, f))]
    BY <1>0, <2>5, Zenon DEF OutLists
  <2>7. \A f \in Fns : SetToBag(LiveIn(h, f)) = SetToBag({n \in DOMAIN x : x[n].key.callee = f})
    BY <1>0, <1>3 DEF LiveIn
  <2>8. h.in = [f \in Fns |-> SetToBag(LiveIn(h, f))]
    BY <1>0, <2>7, Zenon DEF InLists
  <2> QED BY <1>0, <2>1, <2>3, <2>4, <2>6, <2>8 DEF Indexed
<1>7. \A n \in LiveIdx(h) : h.edges[n].refs = Total(e[h.edges[n].key])
  BY <1>0, <1>2, <1>3 DEF EdgesOK
<1>8. h.tuEdges = [t \in TUs |-> Held(h, e, t)]
  BY <1>0, <1>3 DEF Held
<1> QED BY <1>0, <1>4, <1>6, <1>7, <1>8 DEF EdgesOK

\* Compaction drops the tombstones only.
LEMMA EdgesCompacted ==
  ASSUME NEW g, DOMAIN g = Fields, Indexed(g), NEW e \in EdgeCounts, EdgesOK(g, e),
         NEW h, h = Compact(g)
  PROVE  Indexed(h) /\ EdgesOK(h, e)
<1>1. PICK L, N : L = LiveIdx(g) /\ N = Cardinality(L)
  OBVIOUS
<1>2. PICK x : x = Picked(g.edges, L)
  OBVIOUS
<1>3. /\ h.edges = x /\ h.edgeIndex = IndexOf(x) /\ h.out = OutLists(x) /\ h.in = InLists(x)
      /\ h.tuEdges = [t \in TUs |-> Renumbered(g.tuEdges[t], L)] /\ h.live = N
  BY <1>1, <1>2 DEF Compact, Kept, Fields, Indexed
<1>4. N \in Nat /\ L \subseteq Nat /\ IsFiniteSet(L) /\ L \subseteq DOMAIN g.edges
  BY <1>1, EdgeFacts
<1>5. /\ \A n \in 1 .. N : Nth(L, n) \in L /\ Rank(L, Nth(L, n)) = n
      /\ \A i \in L : Nth(L, Rank(L, i)) = i /\ Rank(L, i) \in 1 .. N
  BY <1>1, <1>4, NthFacts, RankFacts
<1>6. x = [n \in 1 .. N |-> g.edges[Nth(L, n)]]
  BY <1>1, <1>2 DEF Picked
<1>7. x \in Seq(Edges)
  <2>1. \A n \in 1 .. N : g.edges[Nth(L, n)] \in Edges
    BY <1>4, <1>5, EdgeFacts
  <2>2. x \in [1 .. N -> Edges]
    BY <1>6, <2>1
  <2> QED BY <1>4, <2>2, SeqDef
<1>8. ASSUME NEW t \in TUs
      PROVE  Renumbered(g.tuEdges[t], L) =
               [n \in {m \in 1 .. N : e[x[m].key][t] > 0} |-> e[x[n].key][t]]
  <2>1. PICK b : b = Held(g, e, t)
    OBVIOUS
  <2>2. g.tuEdges[t] = b
    BY <2>1 DEF EdgesOK
  <2>3. /\ DOMAIN b = {i \in L : e[g.edges[i].key][t] > 0}
        /\ \A i \in DOMAIN b : b[i] = e[g.edges[i].key][t]
    BY <1>1, <2>1 DEF Held
  <2>4. {Rank(L, i) : i \in DOMAIN b \cap L} = {m \in 1 .. N : e[x[m].key][t] > 0}
    <3>1. \A i \in DOMAIN b \cap L : Rank(L, i) \in 1 .. N /\ e[x[Rank(L, i)].key][t] > 0
      BY <1>5, <1>6, <2>3
    <3>2. \A m \in 1 .. N : e[x[m].key][t] > 0 =>
                              Nth(L, m) \in DOMAIN b \cap L /\ Rank(L, Nth(L, m)) = m
      BY <1>5, <1>6, <2>3
    <3> QED BY <3>1, <3>2
  <2>5. \A n \in 1 .. N : e[x[n].key][t] > 0 => b[Nth(L, n)] = e[x[n].key][t]
    BY <1>5, <1>6, <2>3
  <2> QED BY <2>2, <2>4, <2>5 DEF Renumbered
<1>9. h.tuEdges = [t \in TUs |->
                     [n \in {m \in 1 .. N : e[h.edges[m].key][t] > 0} |-> e[h.edges[n].key][t]]]
  BY <1>3, <1>8
<1>10. /\ DOMAIN x = 1 .. N /\ \A n \in 1 .. N : x[n].key = h.edges[n].key
       /\ \A n \in 1 .. N : h.edges[n] = g.edges[Nth(L, n)]
  BY <1>3, <1>6
<1>11. h.edges \in Seq(Edges) /\ DOMAIN h.edges = 1 .. N
  BY <1>3, <1>7, <1>10
<1>12. Repacked(h, x, g, e, L, N)
  BY <1>1, <1>3, <1>9, <1>10, <1>11, Zenon DEF Repacked
<1> QED BY <1>12, EdgesRenumbered, Zenon

\* A load of what was saved drops the tombstones only.
LEMMA EdgesReloaded ==
  ASSUME NEW g, Indexed(g), NEW e \in EdgeCounts, EdgesOK(g, e),
         NEW h, h = LoadGraph(SaveGraph(g))
  PROVE  Indexed(h) /\ EdgesOK(h, e)
<1>1. PICK L, N : L = LiveIdx(g) /\ N = Cardinality(L)
  OBVIOUS
<1> DEFINE saved == [i \in DOMAIN g.edges |->
                       [key |-> g.edges[i].key, refs |-> g.edges[i].refs,
                        tus |-> [t \in TUs |-> Copies(i, g.tuEdges[t])]]]
<1>2. PICK x : x = Picked(saved, L)
  OBVIOUS
<1>3. SaveGraph(g).edges = x
  BY <1>1, <1>2 DEF SaveGraph
<1>4. N \in Nat /\ L \subseteq Nat /\ IsFiniteSet(L) /\ L \subseteq DOMAIN g.edges
  BY <1>1, EdgeFacts
<1>5. \A n \in 1 .. N : Nth(L, n) \in L /\ Rank(L, Nth(L, n)) = n
  BY <1>1, <1>4, NthFacts
<1>6. /\ DOMAIN x = 1 .. N /\ x = [n \in 1 .. N |-> saved[Nth(L, n)]]
  BY <1>1, <1>2 DEF Picked
<1>7. ASSUME NEW n \in 1 .. N
      PROVE  /\ x[n].key = g.edges[Nth(L, n)].key /\ x[n].refs = g.edges[Nth(L, n)].refs
             /\ x[n].tus = [t \in TUs |-> Copies(Nth(L, n), g.tuEdges[t])]
  <2>1. Nth(L, n) \in DOMAIN g.edges
    BY <1>4, <1>5
  <2>2. x[n] = [key |-> g.edges[Nth(L, n)].key, refs |-> g.edges[Nth(L, n)].refs,
                tus |-> [t \in TUs |-> Copies(Nth(L, n), g.tuEdges[t])]]
    BY <1>6, <2>1
  <2> QED BY <2>2
<1> HIDE DEF saved
<1>8. /\ h.edges = [n \in DOMAIN x |-> [key |-> x[n].key, refs |-> x[n].refs]]
      /\ h.edgeIndex = IndexOf(x) /\ h.out = OutLists(x) /\ h.in = InLists(x)
      /\ h.tuEdges = [t \in TUs |-> Provenance(x, t)] /\ h.live = Len(x)
  BY <1>3 DEF LoadGraph
<1>9. Len(x) = N
  BY <1>4, <1>6
<1>10. \A n \in 1 .. N : h.edges[n] = g.edges[Nth(L, n)] /\ h.edges[n] \in Edges
  <2> SUFFICES ASSUME NEW n \in 1 .. N
               PROVE  h.edges[n] = g.edges[Nth(L, n)] /\ h.edges[n] \in Edges
    OBVIOUS
  <2>1. PICK y : y = g.edges[Nth(L, n)]
    OBVIOUS
  <2>2. y \in Edges
    BY <1>4, <1>5, <2>1, EdgeFacts
  <2>3. y = [key |-> y.key, refs |-> y.refs]
    BY <2>2 DEF Edges
  <2>4. h.edges[n] = [key |-> x[n].key, refs |-> x[n].refs]
    BY <1>6, <1>8
  <2> QED BY <1>7, <2>1, <2>2, <2>3, <2>4
<1>11. h.edges \in Seq(Edges) /\ DOMAIN h.edges = 1 .. N
  <2>1. h.edges \in [1 .. N -> Edges]
    BY <1>6, <1>8, <1>10
  <2> QED BY <1>4, <2>1, SeqDef
<1>12. ASSUME NEW t \in TUs
       PROVE  Provenance(x, t) =
                [n \in {m \in 1 .. N : e[h.edges[m].key][t] > 0} |-> e[h.edges[n].key][t]]
  <2>1. ASSUME NEW n \in 1 .. N
        PROVE  x[n].tus[t] = e[h.edges[n].key][t]
    <3>1. PICK i \in L : i = Nth(L, n)
      BY <1>5
    <3>2. x[n].tus[t] = Copies(i, g.tuEdges[t])
      BY <1>7, <3>1
    <3>3. g.tuEdges[t] = Held(g, e, t)
      BY DEF EdgesOK
    <3>4. PICK c : c = e[g.edges[i].key][t]
      OBVIOUS
    <3>5. c \in Nat
      BY <1>1, <3>4, EdgeFacts DEF EdgeCounts
    <3>6. DOMAIN Held(g, e, t) = {j \in LiveIdx(g) : e[g.edges[j].key][t] > 0}
      BY DEF Held
    <3>7. c > 0 => Held(g, e, t)[i] = c
      BY <1>1, <3>4 DEF Held
    <3>8. Copies(i, Held(g, e, t)) = c
      BY <1>1, <3>4, <3>5, <3>6, <3>7 DEF Copies
    <3> QED BY <1>10, <3>1, <3>2, <3>3, <3>4, <3>8
  <2>2. {m \in 1 .. N : x[m].tus[t] > 0} = {m \in 1 .. N : e[h.edges[m].key][t] > 0}
    BY <2>1
  <2> QED BY <1>6, <2>1, <2>2 DEF Provenance
<1>13. h.tuEdges = [t \in TUs |->
                      [n \in {m \in 1 .. N : e[h.edges[m].key][t] > 0} |-> e[h.edges[n].key][t]]]
  BY <1>8, <1>12
<1>14. \A n \in 1 .. N : x[n].key = h.edges[n].key /\ h.edges[n] = g.edges[Nth(L, n)]
  BY <1>7, <1>10
<1>15. h.live = N
  BY <1>8, <1>9
<1>16. Repacked(h, x, g, e, L, N)
  BY <1>1, <1>6, <1>8, <1>11, <1>13, <1>14, <1>15, Zenon DEF Repacked
<1> QED BY <1>16, EdgesRenumbered, Zenon

\* Copies of a live edge's position among what a TU holds.
HeldAsCounted(g, e, t) ==
  /\ \A i \in LiveIdx(g) : Copies(i, Held(g, e, t)) = e[g.edges[i].key][t]
  /\ DOMAIN Held(g, e, t) = {i \in LiveIdx(g) : e[g.edges[i].key][t] > 0}

\* They are as many as were registered.
LEMMA HeldCopies ==
  ASSUME NEW g, Indexed(g), NEW e \in EdgeCounts, NEW t \in TUs
  PROVE  HeldAsCounted(g, e, t)
<1>1. \A i \in LiveIdx(g) : e[g.edges[i].key][t] \in Nat
  BY EdgeFacts DEF EdgeCounts
<1>2. DOMAIN Held(g, e, t) = {i \in LiveIdx(g) : e[g.edges[i].key][t] > 0}
  BY DEF Held
<1>3. ASSUME NEW i \in LiveIdx(g)
      PROVE  Copies(i, Held(g, e, t)) = e[g.edges[i].key][t]
  <2>1. PICK c : c = e[g.edges[i].key][t]
    OBVIOUS
  <2>2. c > 0 => Held(g, e, t)[i] = c
    BY <2>1 DEF Held
  <2> QED BY <1>1, <1>2, <2>1, <2>2 DEF Copies
<1> QED BY <1>2, <1>3 DEF HeldAsCounted

\* Where a shard's live edges go: to the edges with their keys, some of them new.
Merging(g, s, h, r, new) ==
  /\ DOMAIN g.edges \subseteq DOMAIN h.edges
  /\ DOMAIN r = LiveIdx(s) /\ new = Incoming(g, s) /\ new \subseteq LiveIdx(s)
  /\ \A i \in LiveIdx(s) : /\ r[i] \in LiveIdx(h)
                           /\ h.edges[r[i]].key = s.edges[i].key
                           /\ i \notin new => r[i] \in LiveIdx(g)
                           /\ i \in new => r[i] \notin LiveIdx(g)
                           /\ i \in new <=> s.edges[i].key \notin LiveKeys(g)
  /\ \A i \in new : h.edges[r[i]] = s.edges[i]
  /\ \A j \in DOMAIN g.edges : h.edges[j] = Joined(g, s, j)
  /\ \A j \in DOMAIN g.edges : h.edges[j].key = g.edges[j].key
  /\ LiveIdx(h) = LiveIdx(g) \cup {r[i] : i \in new}

\* The edges of a merged graph.
LEMMA EdgesMerge ==
  ASSUME NEW g, DOMAIN g = Fields, Indexed(g), NEW s, Indexed(s),
         NEW h, h = AbsorbEdges(g, s), NEW r, r = EdgeRemap(g, s), NEW new, new = Incoming(g, s)
  PROVE  /\ h.edges \in Seq(Edges) /\ Merging(g, s, h, r, new)
         /\ h.live = Cardinality(LiveIdx(h))
<1>1. PICK n, m : n = Len(g.edges) /\ m = Cardinality(new)
  OBVIOUS
<1>2. /\ n \in Nat /\ DOMAIN g.edges = 1 .. n /\ DOMAIN g.edgeIndex = LiveKeys(g)
      /\ LiveIdx(g) \subseteq 1 .. n
  BY <1>1, EdgeFacts DEF Indexed
<1>3. new \subseteq LiveIdx(s) /\ new \subseteq Nat /\ IsFiniteSet(new) /\ m \in Nat
  <2>1. new \in SUBSET LiveIdx(s) /\ LiveIdx(s) \subseteq Nat /\ IsFiniteSet(LiveIdx(s))
    BY EdgeFacts DEF Incoming
  <2> QED BY <1>1, <2>1, FS_Subset, FS_CardinalityType
<1>4. /\ \A a \in 1 .. m : Nth(new, a) \in new /\ Rank(new, Nth(new, a)) = a
      /\ \A i \in new : Nth(new, Rank(new, i)) = i /\ Rank(new, i) \in 1 .. m
  BY <1>1, <1>3, NthFacts, RankFacts
<1>5. PICK x, y : x = [j \in 1 .. n |-> Joined(g, s, j)] /\ y = Picked(s.edges, new)
  OBVIOUS
<1>6. h.edges = x \o y /\ h.live = g.live + m
  BY <1>1, <1>2, <1>5 DEF AbsorbEdges, Fields
<1>7. ASSUME NEW j \in 1 .. n
      PROVE  /\ x[j] \in Edges /\ x[j].key = g.edges[j].key
             /\ x[j].refs > 0 <=> g.edges[j].refs > 0
  <2>1. PICK z, q : z = g.edges[j] /\ q = RefsIn(s, z.key)
    OBVIOUS
  <2>2. z \in Edges /\ z.refs \in Nat
    BY <1>2, <2>1, EdgeFacts
  <2>3. q \in Nat
    <3>1. CASE z.key \notin DOMAIN s.edgeIndex
      BY <2>1, <3>1 DEF RefsIn
    <3>2. CASE z.key \in DOMAIN s.edgeIndex
      <4>1. PICK i \in LiveIdx(s) : s.edges[i].key = z.key
        BY <3>2 DEF Indexed, LiveKeys
      <4>2. s.edgeIndex[z.key] = i /\ s.edges[i].refs \in Nat
        BY <4>1, EdgeFacts DEF Indexed
      <4> QED BY <2>1, <3>2, <4>2 DEF RefsIn
    <3> QED BY <3>1, <3>2
  <2>4. PICK w : w = [z EXCEPT !.refs = z.refs + q]
    OBVIOUS
  <2>5. w \in Edges /\ w.key = z.key /\ w.refs = z.refs + q
    <3>1. z.refs + q \in Nat
      BY <2>2, <2>3
    <3> QED BY <2>2, <2>4, <3>1, EdgeRecords
  <2>6. x[j] = IF z.refs = 0 THEN z ELSE w
    BY <1>5, <2>1, <2>4 DEF Joined
  <2> QED BY <2>1, <2>2, <2>3, <2>5, <2>6
<1>8. x \in Seq(Edges) /\ Len(x) = n
  <2>1. x \in [1 .. n -> Edges]
    BY <1>5, <1>7
  <2> QED BY <1>2, <2>1, SeqDef
<1>9. \A a \in 1 .. m : y[a] = s.edges[Nth(new, a)] /\ y[a] \in Edges /\ y[a].refs > 0
  <2>1. \A i \in LiveIdx(s) : s.edges[i] \in Edges /\ s.edges[i].refs > 0
    BY EdgeFacts DEF LiveIdx
  <2>2. \A a \in 1 .. m : y[a] = s.edges[Nth(new, a)]
    BY <1>1, <1>5 DEF Picked
  <2> QED BY <1>3, <1>4, <2>1, <2>2
<1>10. y \in Seq(Edges) /\ Len(y) = m
  <2>1. y \in [1 .. m -> Edges]
    BY <1>1, <1>5, <1>9 DEF Picked
  <2> QED BY <1>3, <2>1, SeqDef
<1>11. /\ h.edges \in Seq(Edges) /\ DOMAIN h.edges = 1 .. n + m
       /\ \A j \in 1 .. n : h.edges[j] = x[j]
       /\ \A a \in 1 .. m : h.edges[n + a] = y[a]
  <2>1. /\ h.edges \in Seq(Edges) /\ Len(h.edges) = n + m
        /\ \A j \in 1 .. n + m : h.edges[j] = IF j <= n THEN x[j] ELSE y[j - n]
    <3>1. /\ x \o y \in Seq(Edges) /\ Len(x \o y) = Len(x) + Len(y)
          /\ \A j \in 1 .. Len(x) + Len(y) :
               (x \o y)[j] = IF j <= Len(x) THEN x[j] ELSE y[j - Len(x)]
      BY <1>8, <1>10, ConcatProperties, Zenon
    <3> QED BY <1>6, <1>8, <1>10, <3>1, Zenon
  <2>2. ASSUME NEW a \in 1 .. m
        PROVE  n + a \in 1 .. n + m /\ ~(n + a <= n) /\ (n + a) - n = a
    BY <1>2, <1>3
  <2>3. \A a \in 1 .. m : h.edges[n + a] = y[a]
    BY <2>1, <2>2
  <2>4. \A j \in 1 .. n : j \in 1 .. n + m /\ j <= n
    BY <1>2, <1>3
  <2> QED BY <2>1, <2>3, <2>4
<1>12. /\ DOMAIN r = LiveIdx(s)
       /\ \A i \in LiveIdx(s) : r[i] = IF i \in new THEN n + Rank(new, i)
                                       ELSE g.edgeIndex[s.edges[i].key]
  BY <1>1 DEF EdgeRemap
<1>13. \A i \in LiveIdx(s) : i \in new <=> s.edges[i].key \notin LiveKeys(g)
  BY <1>2 DEF Incoming
<1>14. ASSUME NEW i \in new
       PROVE  h.edges[r[i]] = s.edges[i] /\ r[i] \in n + 1 .. n + m
  <2>1. PICK a \in 1 .. m : a = Rank(new, i) /\ Nth(new, a) = i
    BY <1>4
  <2>2. r[i] = n + a
    BY <1>3, <1>12, <2>1
  <2> QED BY <1>2, <1>3, <1>9, <1>11, <2>1, <2>2
<1>15. ASSUME NEW i \in LiveIdx(s) \ new
       PROVE  r[i] \in LiveIdx(g) /\ g.edges[r[i]].key = s.edges[i].key
  <2>1. PICK j \in LiveIdx(g) : g.edges[j].key = s.edges[i].key
    BY <1>13 DEF LiveKeys
  <2>2. r[i] = j
    BY <1>12, <2>1 DEF Indexed
  <2> QED BY <2>1, <2>2
<1>16. LiveIdx(h) = LiveIdx(g) \cup (n + 1 .. n + m)
  <2>1. \A j \in 1 .. n : j \in LiveIdx(h) <=> j \in LiveIdx(g)
    BY <1>2, <1>3, <1>7, <1>11 DEF LiveIdx
  <2>2. ASSUME NEW j \in n + 1 .. n + m
        PROVE  j \in LiveIdx(h)
    <3>1. PICK a \in 1 .. m : j = n + a
      <4>1. j - n \in 1 .. m /\ j = n + (j - n)
        BY <1>2, <1>3
      <4> QED BY <4>1
    <3>2. h.edges[j].refs > 0
      BY <1>9, <1>11, <3>1
    <3>3. j \in DOMAIN h.edges
      BY <1>2, <1>3, <1>11, <3>1
    <3> QED BY <3>2, <3>3 DEF LiveIdx
  <2>3. 1 .. n + m = (1 .. n) \cup (n + 1 .. n + m)
    BY <1>2, <1>3
  <2>4. LiveIdx(h) \subseteq 1 .. n + m
    BY <1>11 DEF LiveIdx
  <2> QED BY <1>2, <2>1, <2>2, <2>3, <2>4
<1>17. n + 1 .. n + m = {r[i] : i \in new}
  <2>1. ASSUME NEW j \in n + 1 .. n + m
        PROVE  \E i \in new : j = r[i]
    <3>1. PICK a \in 1 .. m : j = n + a
      <4>1. j - n \in 1 .. m /\ j = n + (j - n)
        BY <1>2, <1>3
      <4> QED BY <4>1
    <3>2. Nth(new, a) \in new /\ Rank(new, Nth(new, a)) = a
      BY <1>4
    <3>3. r[Nth(new, a)] = n + a
      BY <1>3, <1>12, <3>2
    <3> QED BY <3>1, <3>2, <3>3
  <2> QED BY <1>14, <2>1
<1>18. \A j \in n + 1 .. n + m : j \notin LiveIdx(g)
  BY <1>2, <1>3
<1>19. Merging(g, s, h, r, new)
  <2>1. DOMAIN g.edges \subseteq DOMAIN h.edges
    BY <1>2, <1>3, <1>11
  <2>2. /\ \A j \in DOMAIN g.edges : h.edges[j] = Joined(g, s, j)
        /\ \A j \in DOMAIN g.edges : h.edges[j].key = g.edges[j].key
    BY <1>2, <1>5, <1>7, <1>11
  <2>3. ASSUME NEW i \in LiveIdx(s)
        PROVE  /\ r[i] \in LiveIdx(h)
               /\ h.edges[r[i]].key = s.edges[i].key
               /\ i \notin new => r[i] \in LiveIdx(g)
               /\ i \in new => r[i] \notin LiveIdx(g)
    <3>1. CASE i \in new
      BY <1>14, <1>16, <1>18, <3>1
    <3>2. CASE i \notin new
      BY <1>2, <1>15, <1>16, <2>2, <3>2
    <3> QED BY <3>1, <3>2
  <2> QED BY <1>3, <1>12, <1>13, <1>14, <1>16, <1>17, <2>1, <2>2, <2>3 DEF Merging
<1>20. h.live = Cardinality(LiveIdx(h))
  <2>1. n + 1 \in Int /\ n + m \in Int
    BY <1>2, <1>3
  <2>2. IsFiniteSet(n + 1 .. n + m) /\ Cardinality(n + 1 .. n + m) = m
    <3>1. Cardinality(n + 1 .. n + m) = IF n + 1 > n + m THEN 0 ELSE (n + m) - (n + 1) + 1
      BY <2>1, FS_Interval, Zenon
    <3> QED BY <1>2, <1>3, <2>1, <3>1, FS_Interval
  <2>3. PICK Q : Q = n + 1 .. n + m
    OBVIOUS
  <2>4. IsFiniteSet(LiveIdx(g)) /\ Cardinality(LiveIdx(g)) \in Nat
    BY EdgeFacts
  <2>5. LiveIdx(g) \cap Q = {} /\ Cardinality({}) = 0
    BY <1>18, <2>3, FS_EmptySet
  <2>6. Cardinality(LiveIdx(g) \cup Q) = Cardinality(LiveIdx(g)) + Cardinality(Q)
                                          - Cardinality(LiveIdx(g) \cap Q)
    BY <2>2, <2>3, <2>4, FS_Union, Zenon
  <2>7. PICK c : c = Cardinality(LiveIdx(g))
    OBVIOUS
  <2>8. Cardinality(LiveIdx(h)) = c + m - 0 /\ h.live = c + m
    BY <1>6, <1>16, <2>2, <2>3, <2>5, <2>6, <2>7 DEF Indexed
  <2> QED BY <1>3, <2>4, <2>7, <2>8
<1> QED BY <1>11, <1>19, <1>20

\* Index, adjacency and count of a merged graph are those of its edges.
LEMMA MergeIndexed ==
  ASSUME NEW g, DOMAIN g = Fields, Indexed(g), NEW s, Indexed(s),
         NEW h, h = AbsorbEdges(g, s), NEW r, r = EdgeRemap(g, s), NEW new, new = Incoming(g, s)
  PROVE  Indexed(h) /\ LiveKeys(h) = LiveKeys(g) \cup LiveKeys(s)
<1>1. h.edges \in Seq(Edges) /\ h.live = Cardinality(LiveIdx(h)) /\ Merging(g, s, h, r, new)
  BY EdgesMerge, Zenon
<1>2. /\ \A j \in LiveIdx(g) : j \in DOMAIN g.edges /\ h.edges[j].key = g.edges[j].key
      /\ DOMAIN g.edgeIndex = LiveKeys(g)
      /\ \A j \in LiveIdx(g) : g.edgeIndex[g.edges[j].key] = j
  BY <1>1, EdgeFacts DEF Merging, Indexed
<1>3. /\ new \subseteq LiveIdx(s) /\ LiveIdx(h) = LiveIdx(g) \cup {r[i] : i \in new}
      /\ \A i \in LiveIdx(s) : /\ r[i] \in LiveIdx(h) /\ h.edges[r[i]].key = s.edges[i].key
                               /\ i \in new => r[i] \notin LiveIdx(g)
                               /\ i \in new <=> s.edges[i].key \notin LiveKeys(g)
  BY <1>1 DEF Merging
<1>4. LiveKeys(h) = LiveKeys(g) \cup {s.edges[i].key : i \in new}
  BY <1>2, <1>3 DEF LiveKeys
<1>5. LiveKeys(h) = LiveKeys(g) \cup LiveKeys(s)
  <2>1. LiveKeys(s) = {s.edges[i].key : i \in LiveIdx(s)}
    BY DEF LiveKeys
  <2> QED BY <1>3, <1>4, <2>1
<1>6. /\ h.edgeIndex = [k \in DOMAIN g.edgeIndex \cup {s.edges[i].key : i \in new} |->
                          IF k \in DOMAIN g.edgeIndex THEN g.edgeIndex[k] ELSE r[s.edgeIndex[k]]]
      /\ h.out = [f \in Fns |-> g.out[f] (+) SetToBag({r[i] : i \in {x \in new : s.edges[x].key.caller = f}})]
      /\ h.in = [f \in Fns |-> g.in[f] (+) SetToBag({r[i] : i \in {x \in new : s.edges[x].key.callee = f}})]
  BY DEF AbsorbEdges, Fields
<1>7. DOMAIN h.edgeIndex = LiveKeys(h)
  BY <1>2, <1>4, <1>6
<1>8. ASSUME NEW j \in LiveIdx(h)
      PROVE  h.edgeIndex[h.edges[j].key] = j
  <2>1. \A k \in LiveKeys(h) : h.edgeIndex[k] = IF k \in LiveKeys(g) THEN g.edgeIndex[k]
                                                ELSE r[s.edgeIndex[k]]
    BY <1>2, <1>6, <1>7
  <2>2. CASE j \in LiveIdx(g)
    <3>1. h.edges[j].key \in LiveKeys(g) /\ g.edgeIndex[h.edges[j].key] = j
      BY <1>2, <2>2 DEF LiveKeys
    <3> QED BY <1>5, <2>1, <3>1
  <2>3. CASE j \notin LiveIdx(g)
    <3>1. PICK i \in new : j = r[i]
      BY <1>3, <2>3
    <3>2. h.edges[j].key = s.edges[i].key /\ s.edges[i].key \notin LiveKeys(g)
      BY <1>3, <3>1
    <3>3. s.edgeIndex[s.edges[i].key] = i /\ h.edges[j].key \in LiveKeys(h)
      BY <1>3, <3>1 DEF Indexed, LiveKeys
    <3> QED BY <2>1, <3>1, <3>2, <3>3
  <2> QED BY <2>2, <2>3
<1>9. ASSUME NEW f \in Fns
      PROVE  h.out[f] = SetToBag(LiveOut(h, f))
  <2>1. PICK A, B : A = LiveOut(g, f) /\ B = {r[i] : i \in {x \in new : s.edges[x].key.caller = f}}
    OBVIOUS
  <2>2. h.out[f] = SetToBag(A) (+) SetToBag(B)
    BY <1>6, <2>1 DEF Indexed
  <2>3. \A j \in A : j \in LiveIdx(g)
    BY <2>1 DEF LiveOut
  <2>4. A \cap B = {}
    BY <1>3, <2>1, <2>3
  <2>5. LiveOut(h, f) = A \cup B
    BY <1>2, <1>3, <2>1 DEF LiveOut
  <2>6. SetToBag(A) (+) SetToBag(B) = SetToBag(A \cup B)
    BY <2>4, OnceFacts, Zenon
  <2> QED BY <2>2, <2>5, <2>6
<1>10. ASSUME NEW f \in Fns
       PROVE  h.in[f] = SetToBag(LiveIn(h, f))
  <2>1. PICK A, B : A = LiveIn(g, f) /\ B = {r[i] : i \in {x \in new : s.edges[x].key.callee = f}}
    OBVIOUS
  <2>2. h.in[f] = SetToBag(A) (+) SetToBag(B)
    BY <1>6, <2>1 DEF Indexed
  <2>3. \A j \in A : j \in LiveIdx(g)
    BY <2>1 DEF LiveIn
  <2>4. A \cap B = {}
    BY <1>3, <2>1, <2>3
  <2>5. LiveIn(h, f) = A \cup B
    BY <1>2, <1>3, <2>1 DEF LiveIn
  <2>6. SetToBag(A) (+) SetToBag(B) = SetToBag(A \cup B)
    BY <2>4, OnceFacts, Zenon
  <2> QED BY <2>2, <2>5, <2>6
<1>11. /\ h.out = [f \in Fns |-> SetToBag(LiveOut(h, f))]
       /\ h.in = [f \in Fns |-> SetToBag(LiveIn(h, f))]
  <2>1. h.out = [f \in Fns |-> h.out[f]] /\ h.in = [f \in Fns |-> h.in[f]]
    BY <1>6
  <2> QED BY <1>9, <1>10, <2>1
<1> QED BY <1>1, <1>5, <1>7, <1>8, <1>11 DEF Indexed

\* d counts what e and p count together.
Adds(d, e, p) == \A k \in EdgeKeys : d[k] = [t \in TUs |-> e[k][t] + p[k][t]]

\* A merged graph holds the registrations of both.
LEMMA EdgesAbsorbed ==
  ASSUME NEW g, DOMAIN g = Fields, Indexed(g), NEW e \in EdgeCounts, EdgesOK(g, e),
         NEW s, Indexed(s), NEW p \in EdgeCounts, EdgesOK(s, p),
         NEW h, h = AbsorbEdges(g, s),
         NEW d \in EdgeCounts, Adds(d, e, p)
  PROVE  Indexed(h) /\ EdgesOK(h, d)
<1> USE DEF Adds
<1>1. PICK r, new : r = EdgeRemap(g, s) /\ new = Incoming(g, s)
  OBVIOUS
<1>2. Merging(g, s, h, r, new) /\ Indexed(h) /\ LiveKeys(h) = LiveKeys(g) \cup LiveKeys(s)
  BY <1>1, EdgesMerge, MergeIndexed, Zenon
<1>3. \A k \in EdgeKeys, t \in TUs : /\ e[k][t] \in Nat /\ p[k][t] \in Nat /\ d[k][t] \in Nat
                                     /\ d[k][t] = e[k][t] + p[k][t]
  BY DEF EdgeCounts
<1>4. LiveKeys(h) = {k \in EdgeKeys : \E t \in TUs : d[k][t] > 0}
  <2>1. \A k \in EdgeKeys : (\E t \in TUs : d[k][t] > 0) <=>
                              \/ \E t \in TUs : e[k][t] > 0
                              \/ \E t \in TUs : p[k][t] > 0
    BY <1>3
  <2> QED BY <1>2, <2>1 DEF EdgesOK
<1>5. \A k \in EdgeKeys : /\ k \notin LiveKeys(g) => \A t \in TUs : e[k][t] = 0
                          /\ k \notin LiveKeys(s) => \A t \in TUs : p[k][t] = 0
  BY <1>3 DEF EdgesOK
<1>6. \A k \in EdgeKeys : /\ Total(e[k]) \in Nat /\ Total(p[k]) \in Nat
                          /\ Total(d[k]) = Total(e[k]) + Total(p[k])
                          /\ k \notin LiveKeys(g) => Total(e[k]) = 0
                          /\ k \notin LiveKeys(s) => Total(p[k]) = 0
  <2> SUFFICES ASSUME NEW k \in EdgeKeys
               PROVE  /\ Total(e[k]) \in Nat /\ Total(p[k]) \in Nat
                      /\ Total(d[k]) = Total(e[k]) + Total(p[k])
                      /\ k \notin LiveKeys(g) => Total(e[k]) = 0
                      /\ k \notin LiveKeys(s) => Total(p[k]) = 0
    OBVIOUS
  <2>1. PICK a \in [TUs -> Nat], b \in [TUs -> Nat] : a = e[k] /\ b = p[k]
    BY DEF EdgeCounts
  <2>2. d[k] = [t \in TUs |-> a[t] + b[t]]
    BY <2>1
  <2>3. Total(d[k]) = Total(a) + Total(b)
    BY <2>2, RowsSum, Zenon DEF Total
  <2>4. /\ Total(a) \in Nat /\ (Total(a) > 0 <=> \E t \in TUs : a[t] > 0)
        /\ Total(b) \in Nat /\ (Total(b) > 0 <=> \E t \in TUs : b[t] > 0)
    BY TotalFacts
  <2>5. k \notin LiveKeys(g) => ~(Total(a) > 0)
    BY <1>5, <2>1, <2>4
  <2>6. k \notin LiveKeys(s) => ~(Total(b) > 0)
    BY <1>5, <2>1, <2>4
  <2> QED BY <2>1, <2>3, <2>4, <2>5, <2>6
<1>7. ASSUME NEW j \in LiveIdx(h)
      PROVE  h.edges[j].refs = Total(d[h.edges[j].key])
  <2>1. PICK k \in EdgeKeys : k = h.edges[j].key
    BY <1>2, EdgeFacts
  <2>2. CASE j \in LiveIdx(g)
    <3>1. j \in DOMAIN g.edges /\ g.edges[j].key = k /\ k \in LiveKeys(g) /\ g.edges[j] \in Edges
      BY <1>2, <2>1, <2>2, EdgeFacts DEF Merging
    <3>2. h.edges[j] = Joined(g, s, j)
      BY <1>2, <3>1 DEF Merging
    <3>3. g.edges[j].refs = Total(e[k]) /\ g.edges[j].refs > 0
      BY <2>2, <3>1 DEF EdgesOK, LiveIdx
    <3>4. RefsIn(s, k) = Total(p[k])
      <4>1. CASE k \in LiveKeys(s)
        <5>1. PICK i \in LiveIdx(s) : s.edges[i].key = k
          BY <4>1 DEF LiveKeys
        <5>2. s.edgeIndex[k] = i /\ k \in DOMAIN s.edgeIndex /\ s.edges[i].refs = Total(p[k])
          BY <4>1, <5>1 DEF Indexed, EdgesOK
        <5> QED BY <5>2 DEF RefsIn
      <4>2. CASE k \notin LiveKeys(s)
        BY <1>6, <4>2 DEF RefsIn, Indexed
      <4> QED BY <4>1, <4>2
    <3>5. PICK z : z = g.edges[j]
      OBVIOUS
    <3>6. Total(e[k]) + Total(p[k]) \in Nat /\ z.refs # 0
      BY <1>6, <3>3, <3>5
    <3>7. h.edges[j] = [z EXCEPT !.refs = Total(e[k]) + Total(p[k])]
      BY <3>1, <3>2, <3>3, <3>4, <3>5, <3>6 DEF Joined
    <3>8. h.edges[j].refs = Total(e[k]) + Total(p[k])
      BY <3>1, <3>5, <3>6, <3>7, EdgeRecords
    <3> QED BY <1>6, <2>1, <3>8
  <2>3. CASE j \notin LiveIdx(g)
    <3>1. PICK i \in new : j = r[i]
      BY <1>2, <2>3 DEF Merging
    <3>2. /\ i \in LiveIdx(s) /\ h.edges[j] = s.edges[i] /\ s.edges[i].key = k
          /\ k \notin LiveKeys(g)
      BY <1>2, <2>1, <3>1 DEF Merging
    <3>3. s.edges[i].refs = Total(p[k])
      BY <3>2 DEF EdgesOK
    <3> QED BY <1>6, <2>1, <3>2, <3>3
  <2> QED BY <2>2, <2>3
<1>8. ASSUME NEW t \in TUs
      PROVE  h.tuEdges[t] = Held(h, d, t)
  <2>1. PICK b, q : b = Held(g, e, t) /\ q = Held(s, p, t)
    OBVIOUS
  <2>2. PICK c : c = Repointed(q, r)
    OBVIOUS
  <2>3. h.tuEdges[t] = b (+) c
    <3>1. h.tuEdges[t] = g.tuEdges[t] (+) Repointed(s.tuEdges[t], r)
      BY <1>1 DEF AbsorbEdges, Fields
    <3>2. g.tuEdges[t] = b /\ s.tuEdges[t] = q
      BY <2>1 DEF EdgesOK
    <3> QED BY <2>2, <3>1, <3>2
  <2>4. /\ \A i \in LiveIdx(s) : Copies(i, q) = p[s.edges[i].key][t]
        /\ DOMAIN q = {i \in LiveIdx(s) : p[s.edges[i].key][t] > 0}
        /\ \A i \in LiveIdx(g) : Copies(i, b) = e[g.edges[i].key][t]
        /\ DOMAIN b = {i \in LiveIdx(g) : e[g.edges[i].key][t] > 0}
    <3>1. HeldAsCounted(s, p, t) /\ HeldAsCounted(g, e, t)
      BY HeldCopies
    <3> QED BY <2>1, <3>1 DEF HeldAsCounted
  <2>5. /\ DOMAIN r = LiveIdx(s)
        /\ \A i \in LiveIdx(s) : r[i] \in LiveIdx(h) /\ h.edges[r[i]].key = s.edges[i].key
        /\ \A i, j \in LiveIdx(s) : r[i] = r[j] => i = j
    <3>1. \A i \in LiveIdx(s) : r[i] \in LiveIdx(h) /\ h.edges[r[i]].key = s.edges[i].key
      BY <1>2 DEF Merging
    <3>2. \A i, j \in LiveIdx(s) : s.edges[i].key = s.edges[j].key => i = j
      BY EdgeFacts
    <3> QED BY <1>2, <3>1, <3>2 DEF Merging
  <2>6. DOMAIN c = {r[i] : i \in DOMAIN q}
    BY <2>2, <2>4, <2>5 DEF Repointed
  <2>7. ASSUME NEW i \in DOMAIN q
        PROVE  c[r[i]] = p[s.edges[i].key][t]
    <3>1. PICK i2 : i2 = CHOOSE x \in DOMAIN q \cap DOMAIN r : r[x] = r[i]
      OBVIOUS
    <3>2. i2 \in DOMAIN q \cap DOMAIN r /\ r[i2] = r[i]
      BY <2>4, <2>5, <3>1
    <3>3. i2 = i
      BY <2>4, <2>5, <3>2
    <3>4. c[r[i]] = q[i]
      BY <2>2, <2>4, <2>5, <3>1, <3>3 DEF Repointed
    <3>5. Copies(i, q) = p[s.edges[i].key][t]
      BY <2>4
    <3> QED BY <3>4, <3>5 DEF Copies
  <2>8. ASSUME NEW j \in LiveIdx(h)
        PROVE  /\ Copies(j, b) = e[h.edges[j].key][t] /\ Copies(j, c) = p[h.edges[j].key][t]
               /\ j \in DOMAIN b <=> e[h.edges[j].key][t] > 0
               /\ j \in DOMAIN c <=> p[h.edges[j].key][t] > 0
    <3>1. PICK k \in EdgeKeys : k = h.edges[j].key
      BY <1>2, EdgeFacts
    <3>2. /\ Copies(j, b) = e[k][t]
          /\ j \in DOMAIN b <=> e[k][t] > 0
      <4>1. CASE j \in LiveIdx(g)
        <5>1. g.edges[j].key = k
          BY <1>2, <3>1, <4>1, EdgeFacts DEF Merging
        <5> QED BY <2>4, <4>1, <5>1
      <4>2. CASE j \notin LiveIdx(g)
        <5>1. PICK i \in new : j = r[i]
          BY <1>2, <4>2 DEF Merging
        <5>2. k \notin LiveKeys(g)
          BY <1>2, <3>1, <5>1 DEF Merging
        <5>3. e[k][t] = 0 /\ j \notin DOMAIN b
          BY <1>5, <2>4, <4>2, <5>2
        <5> QED BY <5>3 DEF Copies
      <4> QED BY <4>1, <4>2
    <3>3. /\ Copies(j, c) = p[k][t]
          /\ j \in DOMAIN c <=> p[k][t] > 0
      <4>1. CASE k \in LiveKeys(s)
        <5>1. PICK i \in LiveIdx(s) : s.edges[i].key = k
          BY <4>1 DEF LiveKeys
        <5>2. r[i] = j
          BY <1>2, <2>5, <3>1, <5>1, EdgeFacts
        <5>3. j \in DOMAIN c <=> i \in DOMAIN q
          BY <2>4, <2>5, <2>6, <5>1, <5>2
        <5>4. j \in DOMAIN c <=> p[k][t] > 0
          BY <2>4, <5>1, <5>3
        <5>5. j \in DOMAIN c => c[j] = p[k][t]
          BY <2>7, <5>1, <5>2, <5>3
        <5>6. p[k][t] \in Nat
          BY <1>3
        <5> QED BY <5>4, <5>5, <5>6 DEF Copies
      <4>2. CASE k \notin LiveKeys(s)
        <5>1. p[k][t] = 0
          BY <1>5, <4>2
        <5>2. j \notin DOMAIN c
          <6> SUFFICES ASSUME j \in DOMAIN c PROVE FALSE
            OBVIOUS
          <6>1. PICK i \in DOMAIN q : j = r[i]
            BY <2>6
          <6>2. i \in LiveIdx(s) /\ s.edges[i].key = k
            BY <2>4, <2>5, <3>1, <6>1
          <6> QED BY <4>2, <6>2 DEF LiveKeys
        <5> QED BY <5>1, <5>2 DEF Copies
      <4> QED BY <4>1, <4>2
    <3> QED BY <3>1, <3>2, <3>3
  <2>9. DOMAIN b \subseteq LiveIdx(h) /\ DOMAIN c \subseteq LiveIdx(h)
    <3>1. LiveIdx(g) \subseteq LiveIdx(h)
      BY <1>2 DEF Merging
    <3>2. DOMAIN b \subseteq LiveIdx(h)
      BY <2>4, <3>1
    <3>3. \A i \in DOMAIN q : r[i] \in LiveIdx(h)
      BY <2>4, <2>5
    <3> QED BY <2>6, <3>2, <3>3
  <2>10. \A j \in LiveIdx(h) : h.edges[j].key \in EdgeKeys
    BY <1>2, EdgeFacts
  <2>11. {j \in LiveIdx(h) : d[h.edges[j].key][t] > 0} = DOMAIN b \cup DOMAIN c
    <3>1. \A j \in LiveIdx(h) : d[h.edges[j].key][t] > 0 <=> \/ e[h.edges[j].key][t] > 0
                                                             \/ p[h.edges[j].key][t] > 0
      BY <1>3, <2>10
    <3> QED BY <2>8, <2>9, <3>1
  <2>12. b (+) c = [j \in DOMAIN b \cup DOMAIN c |-> Copies(j, b) + Copies(j, c)]
    BY DEF (+), Copies
  <2>13. \A j \in DOMAIN b \cup DOMAIN c :
           Copies(j, b) + Copies(j, c) = d[h.edges[j].key][t]
    BY <1>3, <2>8, <2>9, <2>10
  <2> QED BY <2>3, <2>11, <2>12, <2>13 DEF Held
<1>9. h.tuEdges = [t \in TUs |-> Held(h, d, t)]
  <2>1. h.tuEdges = [t \in TUs |-> h.tuEdges[t]]
    BY DEF AbsorbEdges, Fields
  <2> QED BY <1>8, <2>1
<1> QED BY <1>2, <1>4, <1>7, <1>9 DEF EdgesOK

-----------------------------------------------------------------------------
(* Nodes and relations.                                                      *)

\* The nodes a TU names, with counts c.
Tagged(c, t) == {f \in Declared : c[t][<<"node", f>>] > 0}

\* The nodes, their names and their contributors are those of n[t], the nodes
\* that TU t names; other nodes are constructors that were never named.
NodesOK(g, n) ==
  /\ g.nodes \subseteq Fns
  /\ g.byName = [x \in Names |-> SetToBag({f \in g.nodes : display[f] = x})]
  /\ g.contributors = [f \in Fns |-> {t \in TUs : f \in n[t]}]
  /\ g.tuNodes = [t \in TUs |-> n[t]]
  /\ \A t \in TUs : n[t] \subseteq g.nodes
  /\ \A f \in g.nodes : f \in Untagged \/ \E t \in TUs : f \in n[t]

NodeSets == [TUs -> SUBSET Declared]

\* Each relation and its reverse.
RelationsOK(g) ==
  /\ g.overrides \subseteq Fns \X Fns /\ g.bases = Reversed(g.overrides)
  /\ g.returns \subseteq Fns \X Fns /\ g.returnedBy = Reversed(g.returns)

\* m is n with f named by tu.
NamedOnce(m, n, f, tu) == \A t \in TUs : m[t] = IF t = tu THEN n[t] \cup {f} ELSE n[t]

\* A node, with or without a contributor.
LEMMA NodeAdded ==
  ASSUME NEW g, DOMAIN g = Fields, NEW n \in NodeSets, NodesOK(g, n),
         NEW f \in Fns, NEW tu, \/ tu \in TUs /\ f \in Declared
                                \/ tu = NoTU /\ f \in Untagged,
         NEW h, h = AddNode(g, f, tu),
         NEW m \in NodeSets, NamedOnce(m, n, f, tu)
  PROVE  /\ DOMAIN h = Fields /\ NodesOK(h, m)
         /\ \A x \in Fields \ {"nodes", "byName", "contributors", "tuNodes"} : h[x] = g[x]
<1> USE DEF NamedOnce
<1>1. PICK k : k = NewNode(g, f)
  OBVIOUS
<1>2. /\ DOMAIN k = Fields /\ k.nodes = g.nodes \cup {f}
      /\ \A x \in Fields \ {"nodes", "byName"} : k[x] = g[x]
      /\ k.byName = [x \in Names |-> SetToBag({y \in k.nodes : display[y] = x})]
  <2>1. CASE f \in g.nodes
    <3>1. k = g /\ g.nodes \cup {f} = g.nodes
      BY <1>1, <2>1 DEF NewNode
    <3> QED BY <3>1 DEF NodesOK
  <2>2. CASE f \notin g.nodes
    <3>1. PICK a : a = display[f]
      OBVIOUS
    <3>2. a \in Names
      BY <3>1 DEF Names
    <3>3. PICK b, c : b = g.byName[a] /\ c = [g.byName EXCEPT ![a] = IF f \in DOMAIN b THEN b ELSE Push(b, f)]
      OBVIOUS
    <3>4. k = [g EXCEPT !.nodes = g.nodes \cup {f}, !.byName = c]
      BY <1>1, <2>2, <3>1, <3>3 DEF NewNode
    <3>5. /\ DOMAIN k = Fields /\ k.nodes = g.nodes \cup {f} /\ k.byName = c
          /\ \A x \in Fields \ {"nodes", "byName"} : k[x] = g[x]
      BY <3>4 DEF Fields
    <3>6. PICK A : A = {y \in g.nodes : display[y] = a}
      OBVIOUS
    <3>7. b = SetToBag(A) /\ DOMAIN b = A /\ f \notin A
      <4>1. b = SetToBag(A)
        BY <3>2, <3>3, <3>6 DEF NodesOK
      <4> QED BY <2>2, <3>6, <4>1 DEF SetToBag
    <3>8. Push(b, f) = SetToBag(A \cup {f})
      BY <3>7, OnceFacts, Zenon
    <3>9. ASSUME NEW x \in Names
          PROVE  c[x] = SetToBag({y \in k.nodes : display[y] = x})
      <4>1. CASE x = a
        <5>1. {y \in k.nodes : display[y] = x} = A \cup {f}
          BY <3>1, <3>5, <3>6, <4>1
        <5>2. c[x] = Push(b, f)
          BY <3>2, <3>3, <3>7, <4>1 DEF NodesOK
        <5> QED BY <3>8, <5>1, <5>2
      <4>2. CASE x # a
        <5>1. {y \in k.nodes : display[y] = x} = {y \in g.nodes : display[y] = x}
          BY <3>1, <3>5, <4>2
        <5>2. c[x] = g.byName[x]
          BY <3>3, <4>2 DEF NodesOK
        <5> QED BY <5>1, <5>2 DEF NodesOK
      <4> QED BY <4>1, <4>2
    <3>10. DOMAIN c = Names /\ c = [x \in Names |-> c[x]]
      BY <3>3 DEF NodesOK
    <3> QED BY <3>5, <3>9, <3>10
  <2> QED BY <2>1, <2>2
<1>3. k.contributors = g.contributors /\ k.tuNodes = g.tuNodes
  BY <1>2 DEF Fields
<1>4. h = Contribute(k, f, tu)
  BY <1>1 DEF AddNode
<1>5. f \in k.nodes /\ k.nodes \subseteq Fns /\ \A t \in TUs : n[t] \subseteq k.nodes
  BY <1>2 DEF NodesOK
<1>6. CASE tu = NoTU \/ tu \in k.contributors[f]
  <2>1. h = k
    BY <1>4, <1>6 DEF Contribute
  <2>2. \A t \in TUs : m[t] = n[t]
    <3>1. CASE tu = NoTU
      BY <3>1, ProgramAssumption
    <3>2. CASE tu \in k.contributors[f]
      <4>1. tu \in TUs /\ f \in n[tu]
        BY <1>3, <3>2 DEF NodesOK
      <4>2. n[tu] \cup {f} = n[tu]
        BY <4>1
      <4> QED BY <4>2
    <3> QED BY <1>6, <3>1, <3>2
  <2>3. \A y \in k.nodes : y \in Untagged \/ \E t \in TUs : y \in n[t]
    <3>1. f \in Untagged \/ \E t \in TUs : f \in n[t]
      BY <1>3, <1>6, ProgramAssumption DEF NodesOK
    <3> QED BY <1>2, <3>1 DEF NodesOK
  <2>4. /\ [y \in Fns |-> {t \in TUs : y \in n[t]}] = [y \in Fns |-> {t \in TUs : y \in m[t]}]
        /\ [t \in TUs |-> n[t]] = [t \in TUs |-> m[t]]
    BY <2>2
  <2>5. NodesOK(k, m)
    <3>1. /\ k.contributors = [y \in Fns |-> {t \in TUs : y \in m[t]}]
          /\ k.tuNodes = [t \in TUs |-> m[t]]
      BY <1>3, <2>4 DEF NodesOK
    <3>2. \A y \in k.nodes : y \in Untagged \/ \E t \in TUs : y \in m[t]
      BY <2>2, <2>3
    <3>3. \A t \in TUs : m[t] \subseteq k.nodes
      BY <1>5, <2>2
    <3> QED BY <1>2, <1>5, <3>1, <3>2, <3>3 DEF NodesOK
  <2> QED BY <1>2, <2>1, <2>5 DEF Fields
<1>7. CASE tu # NoTU /\ tu \notin k.contributors[f]
  <2>1. tu \in TUs /\ f \in Declared
    BY <1>7
  <2>2. h = [k EXCEPT !.contributors[f] = @ \cup {tu}, !.tuNodes[tu] = @ \cup {f}]
    BY <1>4, <1>7 DEF Contribute
  <2>3. /\ DOMAIN h = Fields
        /\ h.contributors = [g.contributors EXCEPT ![f] = @ \cup {tu}]
        /\ h.tuNodes = [g.tuNodes EXCEPT ![tu] = @ \cup {f}]
        /\ \A x \in Fields \ {"contributors", "tuNodes"} : h[x] = k[x]
    <3>0. DOMAIN k = Fields /\ k.contributors = g.contributors /\ k.tuNodes = g.tuNodes
      BY <1>2, <1>3
    <3>1. DOMAIN h = Fields
      BY <2>2, <3>0
    <3>2. /\ h.contributors = [k.contributors EXCEPT ![f] = @ \cup {tu}]
          /\ h.tuNodes = [k.tuNodes EXCEPT ![tu] = @ \cup {f}]
      BY <2>2, <3>0 DEF Fields
    <3>3. \A x \in Fields \ {"contributors", "tuNodes"} : h[x] = k[x]
      BY <2>2, <3>0
    <3> QED BY <3>0, <3>1, <3>2, <3>3
  <2>4. h.nodes = k.nodes /\ h.byName = k.byName
    BY <2>3 DEF Fields
  <2>5. h.tuNodes = [t \in TUs |-> m[t]]
    <3>1. g.tuNodes = [t \in TUs |-> n[t]]
      BY DEF NodesOK
    <3>2. \A t \in TUs : h.tuNodes[t] = IF t = tu THEN n[t] \cup {f} ELSE n[t]
      BY <2>1, <2>3, <3>1
    <3>3. h.tuNodes = [t \in TUs |-> h.tuNodes[t]]
      BY <2>3, <3>1
    <3> QED BY <3>2, <3>3
  <2>6. h.contributors = [y \in Fns |-> {t \in TUs : y \in m[t]}]
    <3>1. g.contributors = [y \in Fns |-> {t \in TUs : y \in n[t]}]
      BY DEF NodesOK
    <3>2. ASSUME NEW y \in Fns
          PROVE  {t \in TUs : y \in m[t]} = {t \in TUs : y \in n[t]} \cup (IF y = f THEN {tu} ELSE {})
      <4>1. \A t \in TUs : y \in m[t] <=> y \in n[t] \/ (y = f /\ t = tu)
        OBVIOUS
      <4> QED BY <2>1, <4>1
    <3>3. \A y \in Fns : h.contributors[y] =
                           g.contributors[y] \cup (IF y = f THEN {tu} ELSE {})
      BY <2>3, <3>1
    <3>4. h.contributors = [y \in Fns |-> h.contributors[y]]
      BY <2>3, <3>1
    <3> QED BY <3>1, <3>2, <3>3, <3>4
  <2>7. \A t \in TUs : m[t] \subseteq k.nodes
    BY <1>5
  <2>8. \A y \in k.nodes : y \in Untagged \/ \E t \in TUs : y \in m[t]
    <3>1. \A y \in g.nodes : y \in Untagged \/ \E t \in TUs : y \in m[t]
      BY DEF NodesOK
    <3> QED BY <1>2, <2>1, <3>1
  <2>9. NodesOK(h, m)
    BY <1>2, <1>5, <2>4, <2>5, <2>6, <2>7, <2>8 DEF NodesOK
  <2> QED BY <1>2, <2>3, <2>9
<1> QED BY <1>6, <1>7

\* The TUs of S name nothing any more; nodes that only they named go.
LEMMA NodesReleased ==
  ASSUME NEW g, DOMAIN g = Fields, NEW n \in NodeSets, NodesOK(g, n),
         NEW S \in SUBSET TUs, NEW h, h = ReleaseNodes(g, S),
         NEW m \in NodeSets, \A t \in TUs : m[t] = IF t \in S THEN {} ELSE n[t]
  PROVE  /\ DOMAIN h = Fields /\ NodesOK(h, m)
         /\ \A x \in Fields \ {"nodes", "byName", "contributors", "tuNodes"} : h[x] = g[x]
<1>1. PICK gone : gone = Orphans(g, S)
  OBVIOUS
<1>2. /\ DOMAIN h = Fields /\ h.nodes = g.nodes \ gone
      /\ h.byName = [x \in Names |-> Without(g.byName[x], gone)]
      /\ h.contributors = [f \in Fns |-> g.contributors[f] \ S]
      /\ h.tuNodes = [t \in TUs |-> IF t \in S THEN {} ELSE g.tuNodes[t]]
      /\ \A x \in Fields \ {"nodes", "byName", "contributors", "tuNodes"} : h[x] = g[x]
  BY <1>1 DEF ReleaseNodes, Fields
<1>3. /\ g.contributors = [f \in Fns |-> {t \in TUs : f \in n[t]}]
      /\ g.tuNodes = [t \in TUs |-> n[t]] /\ g.nodes \subseteq Fns
      /\ \A t \in TUs : n[t] \subseteq g.nodes
  BY DEF NodesOK
<1>4. \A f : f \in gone <=> /\ \E t \in S : f \in n[t]
                            /\ \A t \in TUs : f \in n[t] => t \in S
  <2>1. \A f : f \in gone <=> /\ \E t \in S : f \in g.tuNodes[t]
                              /\ g.contributors[f] # {} /\ g.contributors[f] \subseteq S
    BY <1>1 DEF Orphans
  <2> SUFFICES ASSUME NEW f
               PROVE  f \in gone <=> /\ \E t \in S : f \in n[t]
                                     /\ \A t \in TUs : f \in n[t] => t \in S
    OBVIOUS
  <2>2. (\E t \in S : f \in g.tuNodes[t]) <=> \E t \in S : f \in n[t]
    BY <1>3
  <2>3. (\E t \in S : f \in n[t]) => f \in Fns
    BY <1>3
  <2>4. f \in Fns => g.contributors[f] = {t \in TUs : f \in n[t]}
    BY <1>3
  <2> QED BY <2>1, <2>2, <2>3, <2>4
<1>5. h.byName = [x \in Names |-> SetToBag({f \in h.nodes : display[f] = x})]
  <2> SUFFICES ASSUME NEW x \in Names
               PROVE  Without(g.byName[x], gone) = SetToBag({f \in h.nodes : display[f] = x})
    BY <1>2
  <2>1. PICK A : A = {f \in g.nodes : display[f] = x}
    OBVIOUS
  <2>2. g.byName[x] = SetToBag(A)
    BY <2>1 DEF NodesOK
  <2>3. Without(SetToBag(A), gone) = SetToBag(A \ gone)
    BY OnceFacts, Zenon
  <2>4. A \ gone = {f \in h.nodes : display[f] = x}
    BY <1>2, <2>1
  <2> QED BY <2>2, <2>3, <2>4
<1>6. h.contributors = [f \in Fns |-> {t \in TUs : f \in m[t]}]
  <2>1. \A f \in Fns : g.contributors[f] \ S = {t \in TUs : f \in m[t]}
    BY <1>3
  <2> QED BY <1>2, <2>1
<1>7. h.tuNodes = [t \in TUs |-> m[t]]
  BY <1>2, <1>3
<1>8. \A t \in TUs : m[t] \subseteq h.nodes
  <2> SUFFICES ASSUME NEW t \in TUs, NEW f \in m[t] PROVE f \in h.nodes
    OBVIOUS
  <2>1. t \notin S /\ f \in n[t]
    OBVIOUS
  <2> QED BY <1>2, <1>3, <1>4, <2>1
<1>9. \A f \in h.nodes : f \in Untagged \/ \E t \in TUs : f \in m[t]
  <2> SUFFICES ASSUME NEW f \in h.nodes, f \notin Untagged PROVE \E t \in TUs : f \in m[t]
    OBVIOUS
  <2>1. f \in g.nodes /\ f \notin gone
    BY <1>2
  <2>2. PICK t \in TUs : f \in n[t]
    BY <2>1 DEF NodesOK
  <2>3. PICK u \in TUs : f \in n[u] /\ u \notin S
    BY <1>4, <2>1, <2>2
  <2> QED BY <2>3
<1> QED BY <1>2, <1>3, <1>5, <1>6, <1>7, <1>8, <1>9 DEF NodesOK

\* The nodes of both, each with the contributors of both.
LEMMA NodesAbsorbed ==
  ASSUME NEW g, DOMAIN g = Fields, NEW n \in NodeSets, NodesOK(g, n),
         NEW s, NEW o \in NodeSets, NodesOK(s, o),
         NEW h, h = AbsorbNodes(g, s),
         NEW m \in NodeSets, \A t \in TUs : m[t] = n[t] \cup o[t]
  PROVE  /\ DOMAIN h = Fields /\ NodesOK(h, m)
         /\ \A x \in Fields \ {"nodes", "byName", "contributors", "tuNodes"} : h[x] = g[x]
<1>1. /\ DOMAIN h = Fields /\ h.nodes = g.nodes \cup s.nodes
      /\ h.byName = [x \in Names |-> g.byName[x] (+) SetToBag(NewlyNamed(g, s, x))]
      /\ h.contributors = [f \in Fns |-> g.contributors[f] \cup s.contributors[f]]
      /\ h.tuNodes = [t \in TUs |-> g.tuNodes[t] \cup s.tuNodes[t]]
      /\ \A x \in Fields \ {"nodes", "byName", "contributors", "tuNodes"} : h[x] = g[x]
  BY DEF AbsorbNodes, Contributors, Fields
<1>2. h.byName = [x \in Names |-> SetToBag({f \in h.nodes : display[f] = x})]
  <2> SUFFICES ASSUME NEW x \in Names
               PROVE  g.byName[x] (+) SetToBag(NewlyNamed(g, s, x))
                        = SetToBag({f \in h.nodes : display[f] = x})
    BY <1>1
  <2>1. PICK A, C : A = {f \in g.nodes : display[f] = x} /\ C = NewlyNamed(g, s, x)
    OBVIOUS
  <2>2. g.byName[x] = SetToBag(A)
    BY <2>1 DEF NodesOK
  <2>3. DOMAIN SetToBag(A) = A
    BY DEF SetToBag
  <2>4. C = {f \in s.nodes \ g.nodes : display[f] = x}
    BY <2>1, <2>2, <2>3 DEF NewlyNamed
  <2>5. A \cap C = {} /\ A \cup C = {f \in h.nodes : display[f] = x}
    BY <1>1, <2>1, <2>4
  <2>6. SetToBag(A) (+) SetToBag(C) = SetToBag(A \cup C)
    BY <2>5, OnceFacts, Zenon
  <2> QED BY <2>1, <2>2, <2>5, <2>6
<1>3. h.contributors = [f \in Fns |-> {t \in TUs : f \in m[t]}]
  <2>1. \A f \in Fns : g.contributors[f] \cup s.contributors[f] = {t \in TUs : f \in m[t]}
    BY DEF NodesOK
  <2> QED BY <1>1, <2>1
<1>4. h.tuNodes = [t \in TUs |-> m[t]]
  BY <1>1 DEF NodesOK
<1>5. h.nodes \subseteq Fns /\ \A t \in TUs : m[t] \subseteq h.nodes
  BY <1>1 DEF NodesOK
<1>6. \A f \in h.nodes : f \in Untagged \/ \E t \in TUs : f \in m[t]
  <2>1. \A f \in g.nodes : f \in Untagged \/ \E t \in TUs : f \in m[t]
    BY DEF NodesOK
  <2>2. \A f \in s.nodes : f \in Untagged \/ \E t \in TUs : f \in m[t]
    BY DEF NodesOK
  <2> QED BY <1>1, <2>1, <2>2
<1> QED BY <1>1, <1>2, <1>3, <1>4, <1>5, <1>6 DEF NodesOK

\* A load gives the nodes that were saved.
LEMMA NodesReloaded ==
  ASSUME NEW g, NEW n \in NodeSets, NodesOK(g, n), NEW h, h = LoadGraph(SaveGraph(g))
  PROVE  DOMAIN h = Fields /\ NodesOK(h, n)
<1>1. PICK F : F = [f \in g.nodes |-> g.contributors[f]]
  OBVIOUS
<1>2. SaveGraph(g).nodes = F
  BY <1>1 DEF SaveGraph
<1>3. /\ DOMAIN h = Fields /\ h.nodes = DOMAIN F
      /\ h.byName = [x \in Names |-> SetToBag({f \in DOMAIN F : display[f] = x})]
      /\ h.contributors = [f \in Fns |-> IF f \in DOMAIN F THEN F[f] ELSE {}]
      /\ h.tuNodes = [t \in TUs |-> {f \in DOMAIN F : t \in F[f]}]
  BY <1>2 DEF LoadGraph, Fields
<1>4. DOMAIN F = g.nodes /\ \A f \in g.nodes : F[f] = {t \in TUs : f \in n[t]}
  BY <1>1 DEF NodesOK
<1>5. \A t \in TUs : n[t] \subseteq g.nodes
  BY DEF NodesOK
<1>6. h.contributors = [f \in Fns |-> {t \in TUs : f \in n[t]}]
  <2>1. \A f \in Fns : (IF f \in DOMAIN F THEN F[f] ELSE {}) = {t \in TUs : f \in n[t]}
    BY <1>4, <1>5
  <2> QED BY <1>3, <2>1
<1>7. h.tuNodes = [t \in TUs |-> n[t]]
  <2>1. \A t \in TUs : {f \in DOMAIN F : t \in F[f]} = n[t]
    BY <1>4, <1>5
  <2> QED BY <1>3, <2>1
<1> QED BY <1>3, <1>4, <1>6, <1>7 DEF NodesOK

-----------------------------------------------------------------------------
(* A graph and the counts of what was registered in it.                      *)

IsCounts(c)   == c \in [TUs -> [Items -> Nat]]
EdgeCount(c)  == [k \in EdgeKeys |-> [t \in TUs |-> c[t][<<"edge", k>>]]]
NodeSet(c)    == [t \in TUs |-> Tagged(c, t)]

\* The graph is that of the counts.
Valid(g, c) ==
  /\ DOMAIN g = Fields
  /\ Indexed(g) /\ EdgesOK(g, EdgeCount(c))
  /\ NodesOK(g, NodeSet(c))
  /\ RelationsOK(g)

EdgeFields == {"edges", "edgeIndex", "out", "in", "tuEdges", "live"}
NodeFields == {"nodes", "byName", "contributors", "tuNodes"}
RelFields  == {"overrides", "bases", "returns", "returnedBy"}

\* The counts of edges and the names of nodes, apart.
LEMMA CountFacts ==
  ASSUME NEW c, IsCounts(c)
  PROVE  EdgeCount(c) \in EdgeCounts /\ NodeSet(c) \in NodeSets
<1>1. \A k \in EdgeKeys, t \in TUs : c[t][<<"edge", k>>] \in Nat
  BY DEF IsCounts, Items
<1>2. EdgeCount(c) \in EdgeCounts
  BY <1>1 DEF EdgeCount, EdgeCounts
<1>3. NodeSet(c) \in NodeSets
  BY DEF NodeSet, NodeSets, Tagged
<1> QED BY <1>2, <1>3

\* Graphs with the same edges.
LEMMA SameEdges ==
  ASSUME NEW g, NEW h, NEW e, \A x \in EdgeFields : h[x] = g[x], Indexed(g), EdgesOK(g, e)
  PROVE  Indexed(h) /\ EdgesOK(h, e)
<1>1. /\ h.edges = g.edges /\ h.edgeIndex = g.edgeIndex /\ h.out = g.out /\ h.in = g.in
      /\ h.tuEdges = g.tuEdges /\ h.live = g.live
  BY DEF EdgeFields
<1>2. LiveIdx(h) = LiveIdx(g)
  BY <1>1 DEF LiveIdx
<1>3. LiveKeys(h) = LiveKeys(g)
  BY <1>1, <1>2 DEF LiveKeys
<1>4. \A f : LiveOut(h, f) = LiveOut(g, f) /\ LiveIn(h, f) = LiveIn(g, f)
  BY <1>1, <1>2 DEF LiveOut, LiveIn
<1>5. Indexed(h)
  BY <1>1, <1>2, <1>3, <1>4 DEF Indexed
<1>6. \A t \in TUs : Held(h, e, t) = Held(g, e, t)
  BY <1>1, <1>2 DEF Held
<1> QED BY <1>1, <1>2, <1>3, <1>5, <1>6 DEF EdgesOK

\* Graphs with the same nodes.
LEMMA SameNodes ==
  ASSUME NEW g, NEW h, NEW n, \A x \in NodeFields : h[x] = g[x], NodesOK(g, n)
  PROVE  NodesOK(h, n)
BY DEF NodeFields, NodesOK

\* Graphs with the same relations.
LEMMA SameRelations ==
  ASSUME NEW g, NEW h, \A x \in RelFields : h[x] = g[x], RelationsOK(g)
  PROVE  RelationsOK(h)
BY DEF RelFields, RelationsOK

\* At first there is nothing.
LEMMA ValidEmpty == Valid(EmptyGraph, None) /\ IsCounts(None)
<1> DEFINE g == EmptyGraph
<1>1. /\ DOMAIN g = Fields /\ g.nodes = {} /\ g.edges = <<>> /\ g.edgeIndex = <<>> /\ g.live = 0
      /\ g.byName = [n \in Names |-> EmptyBag]
      /\ g.out = [f \in Fns |-> EmptyBag] /\ g.in = [f \in Fns |-> EmptyBag]
      /\ g.tuEdges = [t \in TUs |-> EmptyBag]
      /\ g.contributors = [f \in Fns |-> {}] /\ g.tuNodes = [t \in TUs |-> {}]
      /\ g.overrides = {} /\ g.bases = {} /\ g.returns = {} /\ g.returnedBy = {}
  BY DEF EmptyGraph, Fields
<1> HIDE DEF g
<1>2. IsCounts(None)
  BY DEF IsCounts, None
<1>3. \A x \in Items, t \in TUs : None[t][x] = 0
  BY DEF None
<1>4. LiveIdx(g) = {} /\ LiveKeys(g) = {}
  BY <1>1 DEF LiveIdx, LiveKeys
<1>5. \A f : LiveOut(g, f) = {} /\ LiveIn(g, f) = {}
  BY <1>4 DEF LiveOut, LiveIn
<1>6. Indexed(g)
  <2>1. g.live = Cardinality(LiveIdx(g))
    BY <1>1, <1>4, FS_EmptySet
  <2>2. DOMAIN g.edgeIndex = LiveKeys(g)
    BY <1>1, <1>4
  <2>3. /\ g.out = [f \in Fns |-> SetToBag(LiveOut(g, f))]
        /\ g.in = [f \in Fns |-> SetToBag(LiveIn(g, f))]
    <3>1. \A f : SetToBag(LiveOut(g, f)) = EmptyBag /\ SetToBag(LiveIn(g, f)) = EmptyBag
      BY <1>5 DEF EmptyBag
    <3> QED BY <1>1, <3>1
  <2> QED BY <1>1, <1>4, <2>1, <2>2, <2>3 DEF Indexed
<1>7. \A k \in EdgeKeys, t \in TUs : EdgeCount(None)[k][t] = 0
  BY <1>3 DEF EdgeCount, Items
<1>8. EdgesOK(g, EdgeCount(None))
  <2>1. LiveKeys(g) = {k \in EdgeKeys : \E t \in TUs : EdgeCount(None)[k][t] > 0}
    BY <1>4, <1>7
  <2>2. \A t \in TUs : Held(g, EdgeCount(None), t) = EmptyBag
    BY <1>4 DEF Held, EmptyBag, SetToBag
  <2> QED BY <1>1, <1>4, <2>1, <2>2 DEF EdgesOK
<1>9. \A t \in TUs : NodeSet(None)[t] = {}
  BY <1>3 DEF NodeSet, Tagged, Items
<1>10. NodesOK(g, NodeSet(None))
  BY <1>1, <1>9 DEF NodesOK, EmptyBag, NodeSet
<1>11. RelationsOK(g)
  BY <1>1 DEF RelationsOK, Reversed
<1> QED BY <1>1, <1>2, <1>6, <1>8, <1>10, <1>11 DEF Valid, g

\* d counts one registration more than c.
OneMore(c, d, tu, item) ==
  /\ IsCounts(d)
  /\ \A t \in TUs, x \in Items :
       d[t][x] = IF t = tu /\ x = item THEN c[t][x] + 1 ELSE c[t][x]

\* That is how Bake counts (Bake, BakeInWorker).
LEMMA CountOne ==
  ASSUME NEW c, IsCounts(c), NEW tu \in TUs, NEW item \in Items
  PROVE  OneMore(c, [c EXCEPT ![tu][item] = @ + 1], tu, item)
BY DEF IsCounts, OneMore

\* An edge is registered.
LEMMA RegisterEdge ==
  ASSUME NEW g, NEW c, IsCounts(c), Valid(g, c), NEW tu \in TUs, NEW k \in EdgeKeys,
         NEW d, OneMore(c, d, tu, <<"edge", k>>),
         NEW h, h = AddEdge(g, k, tu)
  PROVE  Valid(h, d)
<1>1. PICK e, e2, n, n2 : /\ e = EdgeCount(c) /\ e2 = EdgeCount(d)
                          /\ n = NodeSet(c) /\ n2 = NodeSet(d)
  OBVIOUS
<1>2. <<"edge", k>> \in Items /\ \A x \in EdgeKeys : <<"edge", x>> \in Items
  BY DEF Items
<1>3. \A f \in Declared : <<"node", f>> \in Items /\ <<"node", f>> # <<"edge", k>>
  BY DEF Items
<1>4. /\ IsCounts(d)
      /\ \A t \in TUs, x \in Items : d[t][x] = IF t = tu /\ x = <<"edge", k>> THEN c[t][x] + 1 ELSE c[t][x]
  BY DEF OneMore
<1>5. e \in EdgeCounts /\ e2 \in EdgeCounts /\ n \in NodeSets /\ n2 \in NodeSets
  BY <1>1, <1>4, CountFacts
<1>6. \A x \in EdgeKeys, t \in TUs : e2[x][t] = IF t = tu /\ x = k THEN e[x][t] + 1 ELSE e[x][t]
  <2>1. \A x \in EdgeKeys, t \in TUs : e2[x][t] = d[t][<<"edge", x>>] /\ e[x][t] = c[t][<<"edge", x>>]
    BY <1>1 DEF EdgeCount
  <2> SUFFICES ASSUME NEW x \in EdgeKeys, NEW t \in TUs
               PROVE  e2[x][t] = IF t = tu /\ x = k THEN e[x][t] + 1 ELSE e[x][t]
    OBVIOUS
  <2>2. <<"edge", x>> = <<"edge", k>> <=> x = k
    OBVIOUS
  <2>3. d[t][<<"edge", x>>] = IF t = tu /\ x = k THEN c[t][<<"edge", x>>] + 1 ELSE c[t][<<"edge", x>>]
    BY <1>2, <1>4, <2>2
  <2> QED BY <2>1, <2>3
<1>7. e2[k] = [e[k] EXCEPT ![tu] = @ + 1] /\ \A x \in EdgeKeys : x # k => e2[x] = e[x]
  BY <1>5, <1>6 DEF EdgeCounts
<1>8. n2 = n
  <2>1. \A t \in TUs : Tagged(d, t) = Tagged(c, t)
    BY <1>3, <1>4 DEF Tagged
  <2> QED BY <1>1, <2>1 DEF NodeSet
<1>9. Indexed(h) /\ EdgesOK(h, e2)
  <2>1. DOMAIN g = Fields /\ Indexed(g) /\ EdgesOK(g, e)
    BY <1>1 DEF Valid
  <2>2. CASE k \in DOMAIN g.edgeIndex
    BY <1>5, <1>7, <2>1, <2>2, EdgeAgain
  <2>3. CASE k \notin DOMAIN g.edgeIndex
    BY <1>5, <1>7, <2>1, <2>3, EdgeFirst
  <2> QED BY <2>2, <2>3
<1>10. DOMAIN h = Fields /\ \A x \in NodeFields \cup RelFields : h[x] = g[x]
  <2>1. DOMAIN g = Fields
    BY DEF Valid
  <2>2. CASE k \in DOMAIN g.edgeIndex
    BY <2>1, <2>2 DEF AddEdge, Fields, NodeFields, RelFields
  <2>3. CASE k \notin DOMAIN g.edgeIndex
    BY <2>1, <2>3 DEF AddEdge, Fields, NodeFields, RelFields
  <2> QED BY <2>2, <2>3
<1>11. NodesOK(h, n2) /\ RelationsOK(h)
  <2>1. NodesOK(g, n2) /\ RelationsOK(g)
    BY <1>1, <1>8 DEF Valid
  <2> QED BY <1>10, <2>1, SameNodes, SameRelations
<1> QED BY <1>1, <1>9, <1>10, <1>11 DEF Valid

\* A node is registered, with the TU or without.
LEMMA RegisterNode ==
  ASSUME NEW g, NEW c, IsCounts(c), Valid(g, c), NEW tu \in TUs, NEW f, NEW item,
         NEW by, \/ f \in Declared /\ item = <<"node", f>> /\ by = tu
                 \/ f \in Untagged /\ item = <<"maker", f>> /\ by = NoTU,
         NEW d, OneMore(c, d, tu, item),
         NEW h, h = AddNode(g, f, by)
  PROVE  Valid(h, d)
<1>1. PICK e, e2, n, n2 : /\ e = EdgeCount(c) /\ e2 = EdgeCount(d)
                          /\ n = NodeSet(c) /\ n2 = NodeSet(d)
  OBVIOUS
<1>2. item \in Items /\ f \in Fns
  BY ProgramAssumption DEF Items
<1>3. /\ IsCounts(d)
      /\ \A t \in TUs, x \in Items : d[t][x] = IF t = tu /\ x = item THEN c[t][x] + 1 ELSE c[t][x]
  BY DEF OneMore
<1>4. e2 = e
  <2>1. \A k \in EdgeKeys : <<"edge", k>> \in Items /\ <<"edge", k>> # item
    BY DEF Items
  <2>2. \A k \in EdgeKeys, t \in TUs : d[t][<<"edge", k>>] = c[t][<<"edge", k>>]
    BY <1>3, <2>1
  <2> QED BY <1>1, <2>2 DEF EdgeCount
<1>5. n \in NodeSets /\ n2 \in NodeSets
  BY <1>1, <1>3, CountFacts
<1>6. NamedOnce(n2, n, f, by)
  <2> SUFFICES ASSUME NEW t \in TUs
               PROVE  Tagged(d, t) = IF t = by THEN Tagged(c, t) \cup {f} ELSE Tagged(c, t)
    BY <1>1 DEF NodeSet, NamedOnce
  <2>0. \A y \in Declared : <<"node", y>> \in Items
    BY DEF Items
  <2>01. \A y \in Declared : c[t][<<"node", y>>] \in Nat
    <3>1. c[t] \in [Items -> Nat]
      BY DEF IsCounts
    <3> QED BY <2>0, <3>1
  <2>1. \A y \in Declared : d[t][<<"node", y>>] = IF t = tu /\ <<"node", y>> = item
                                                  THEN c[t][<<"node", y>>] + 1
                                                  ELSE c[t][<<"node", y>>]
    BY <1>3, <2>0
  <2>2. CASE f \in Declared /\ item = <<"node", f>> /\ by = tu
    <3>1. \A y \in Declared : <<"node", y>> = item <=> y = f
      BY <2>2
    <3>2. \A y \in Declared : d[t][<<"node", y>>] > 0 <=> \/ c[t][<<"node", y>>] > 0
                                                          \/ t = tu /\ y = f
      <4> SUFFICES ASSUME NEW y \in Declared
                   PROVE  d[t][<<"node", y>>] > 0 <=> \/ c[t][<<"node", y>>] > 0
                                                      \/ t = tu /\ y = f
        OBVIOUS
      <4>1. PICK a, b : a = c[t][<<"node", y>>] /\ b = d[t][<<"node", y>>]
        OBVIOUS
      <4>2. a \in Nat /\ b = IF t = tu /\ y = f THEN a + 1 ELSE a
        BY <2>01, <2>1, <3>1, <4>1
      <4>3. b > 0 <=> \/ a > 0
                      \/ t = tu /\ y = f
        BY <4>2
      <4> QED BY <4>1, <4>3
    <3> QED BY <2>2, <3>2 DEF Tagged
  <2>3. CASE item = <<"maker", f>> /\ by = NoTU
    <3>1. \A y \in Declared : <<"node", y>> # item
      BY <2>3
    <3>2. t # by
      BY <2>3, ProgramAssumption
    <3> QED BY <2>1, <3>1, <3>2 DEF Tagged
  <2> QED BY <2>2, <2>3
<1>7. DOMAIN g = Fields /\ NodesOK(g, n) /\ Indexed(g) /\ EdgesOK(g, e) /\ RelationsOK(g)
  BY <1>1 DEF Valid
<1>8. /\ DOMAIN h = Fields /\ NodesOK(h, n2)
      /\ \A x \in Fields \ {"nodes", "byName", "contributors", "tuNodes"} : h[x] = g[x]
  <2>1. \/ by \in TUs /\ f \in Declared
        \/ by = NoTU /\ f \in Untagged
    OBVIOUS
  <2>2. h = AddNode(g, f, by) /\ f \in Fns
    BY <1>2
  <2> QED BY <1>5, <1>6, <1>7, <2>1, <2>2, NodeAdded
<1>9. /\ \A x \in EdgeFields : h[x] = g[x]
      /\ \A x \in RelFields : h[x] = g[x]
  BY <1>8 DEF Fields, EdgeFields, RelFields
<1>10. Indexed(h) /\ EdgesOK(h, e2)
  BY <1>4, <1>7, <1>9, SameEdges
<1>11. RelationsOK(h)
  BY <1>7, <1>9, SameRelations
<1> QED BY <1>1, <1>8, <1>10, <1>11 DEF Valid

\* A relation is registered; it counts for no edge and no node.
LEMMA RegisterRelation ==
  ASSUME NEW g, NEW c, IsCounts(c), Valid(g, c), NEW tu \in TUs,
         NEW p \in Fns \X Fns, NEW item \in Items,
         NEW d, OneMore(c, d, tu, item),
         NEW h, \/ item = <<"override", p>> /\ h = AddOverride(g, p[1], p[2])
                \/ item = <<"return", p>> /\ h = AddReturn(g, p[1], p[2])
  PROVE  Valid(h, d)
<1>1. DOMAIN g = Fields /\ RelationsOK(g)
  BY DEF Valid
<1>2. EdgeCount(d) = EdgeCount(c)
  <2>1. \A k \in EdgeKeys : <<"edge", k>> \in Items /\ <<"edge", k>> # item
    BY DEF Items
  <2>2. \A k \in EdgeKeys, t \in TUs : d[t][<<"edge", k>>] = c[t][<<"edge", k>>]
    BY <2>1 DEF OneMore
  <2> QED BY <2>2 DEF EdgeCount
<1>3. NodeSet(d) = NodeSet(c)
  <2>1. \A y \in Declared : <<"node", y>> \in Items /\ <<"node", y>> # item
    BY DEF Items
  <2>2. \A t \in TUs : Tagged(d, t) = Tagged(c, t)
    BY <2>1 DEF Tagged, OneMore
  <2> QED BY <2>2 DEF NodeSet
<1>4. /\ DOMAIN h = Fields
      /\ \A x \in EdgeFields \cup NodeFields : h[x] = g[x]
  BY <1>1 DEF AddOverride, AddReturn, Fields, EdgeFields, NodeFields
<1>5. PICK a, b : a \in Fns /\ b \in Fns /\ p = <<a, b>> /\ p[1] = a /\ p[2] = b
  OBVIOUS
<1>6. ASSUME NEW R PROVE Reversed(R \cup {<<a, b>>}) = Reversed(R) \cup {<<b, a>>}
  <2>1. \A x : x \in Reversed(R \cup {<<a, b>>}) <=> \/ x \in Reversed(R)
                                                     \/ x = <<b, a>>
    <3>1. \A Q, x : x \in Reversed(Q) <=> \E q \in Q : x = <<q[2], q[1]>>
      BY DEF Reversed
    <3>11. PICK u : u = <<a, b>>
      OBVIOUS
    <3>12. PICK v : v = <<b, a>>
      OBVIOUS
    <3>13. u[1] = a /\ u[2] = b
      BY <3>11
    <3>2. u = <<a, b>> /\ v = <<b, a>> /\ <<u[2], u[1]>> = v
      BY <3>11, <3>12, <3>13
    <3>3. \A x : x \in Reversed(R \cup {u}) <=> \/ x \in Reversed(R)
                                                \/ x = v
      BY <3>1, <3>2
    <3> QED BY <3>2, <3>3
  <2> QED BY <2>1
<1>7. RelationsOK(h)
  <2>1. CASE h = AddOverride(g, p[1], p[2])
    <3>1. /\ h.overrides = g.overrides \cup {<<a, b>>} /\ h.bases = g.bases \cup {<<b, a>>}
          /\ h.returns = g.returns /\ h.returnedBy = g.returnedBy
      BY <1>1, <1>5, <2>1 DEF AddOverride, Fields
    <3> QED BY <1>1, <1>5, <1>6, <3>1 DEF RelationsOK
  <2>2. CASE h = AddReturn(g, p[1], p[2])
    <3>1. /\ h.returns = g.returns \cup {<<a, b>>} /\ h.returnedBy = g.returnedBy \cup {<<b, a>>}
          /\ h.overrides = g.overrides /\ h.bases = g.bases
      BY <1>1, <1>5, <2>2 DEF AddReturn, Fields
    <3> QED BY <1>1, <1>5, <1>6, <3>1 DEF RelationsOK
  <2> QED BY <2>1, <2>2
<1>8. Indexed(h) /\ EdgesOK(h, EdgeCount(d))
  BY <1>2, <1>4, SameEdges DEF Valid
<1>9. NodesOK(h, NodeSet(d))
  BY <1>3, <1>4, SameNodes DEF Valid
<1> QED BY <1>4, <1>7, <1>8, <1>9 DEF Valid

\* Whatever a visitor registers, the graph stays that of the counts (Register).
LEMMA ValidRegister ==
  ASSUME NEW g, NEW c, IsCounts(c), Valid(g, c), NEW tu \in TUs, NEW item \in Items,
         NEW d, OneMore(c, d, tu, item)
  PROVE  Valid(Register(g, tu, item), d)
<1>1. CASE item \in {<<"node", f>> : f \in Declared}
  <2>1. PICK f \in Declared : item = <<"node", f>>
    BY <1>1
  <2>2. Register(g, tu, item) = AddNode(g, f, tu)
    BY <2>1 DEF Register
  <2> QED BY <2>1, <2>2, RegisterNode
<1>2. CASE item \in {<<"maker", f>> : f \in Untagged}
  <2>1. PICK f \in Untagged : item = <<"maker", f>>
    BY <1>2
  <2>2. Register(g, tu, item) = AddNode(g, f, NoTU)
    BY <2>1 DEF Register
  <2> QED BY <2>1, <2>2, RegisterNode
<1>3. CASE item \in {<<"edge", k>> : k \in EdgeKeys}
  <2>1. PICK k \in EdgeKeys : item = <<"edge", k>>
    BY <1>3
  <2>2. Register(g, tu, item) = AddEdge(g, k, tu)
    BY <2>1 DEF Register
  <2> QED BY <2>1, <2>2, RegisterEdge
<1>4. CASE item \in {<<"override", p>> : p \in Overrides}
  <2>1. PICK p \in Overrides : item = <<"override", p>>
    BY <1>4
  <2>2. Register(g, tu, item) = AddOverride(g, p[1], p[2])
    BY <2>1 DEF Register
  <2>3. p \in Fns \X Fns
    BY ProgramAssumption
  <2> QED BY <2>1, <2>2, <2>3, RegisterRelation
<1>5. CASE item \in {<<"return", p>> : p \in Returns}
  <2>1. PICK p \in Returns : item = <<"return", p>>
    BY <1>5
  <2>2. Register(g, tu, item) = AddReturn(g, p[1], p[2])
    BY <2>1 DEF Register
  <2>3. p \in Fns \X Fns
    BY ProgramAssumption
  <2> QED BY <2>1, <2>2, <2>3, RegisterRelation
<1> QED BY <1>1, <1>2, <1>3, <1>4, <1>5 DEF Items

\* TUs are removed, and their counts forgotten (removeTUs).
LEMMA ValidRemove ==
  ASSUME NEW g, NEW c, IsCounts(c), Valid(g, c), NEW S \in SUBSET TUs,
         NEW d, d = [t \in TUs |-> IF t \in S THEN None[t] ELSE c[t]]
  PROVE  IsCounts(d) /\ Valid(RemoveTUs(g, S), d)
<1>1. PICK e, n, e2, n2 : /\ e = EdgeCount(c) /\ n = NodeSet(c)
                          /\ e2 = EdgeCount(d) /\ n2 = NodeSet(d)
  OBVIOUS
<1>2. IsCounts(d)
  BY DEF IsCounts, None
<1>3. e \in EdgeCounts /\ n \in NodeSets /\ e2 \in EdgeCounts /\ n2 \in NodeSets
  BY <1>1, <1>2, CountFacts
<1>4. \A t \in TUs, x \in Items : d[t][x] = IF t \in S THEN 0 ELSE c[t][x]
  BY DEF None
<1>5. Forgets(e2, e, S)
  <2>1. \A k \in EdgeKeys : <<"edge", k>> \in Items
    BY DEF Items
  <2>2. \A k \in EdgeKeys, t \in TUs : d[t][<<"edge", k>>] = IF t \in S THEN 0 ELSE c[t][<<"edge", k>>]
    BY <1>4, <2>1
  <2> QED BY <1>1, <2>2 DEF EdgeCount, Forgets
<1>6. \A t \in TUs : n2[t] = IF t \in S THEN {} ELSE n[t]
  <2>1. \A y \in Declared : <<"node", y>> \in Items
    BY DEF Items
  <2>2. \A t \in TUs : Tagged(d, t) = IF t \in S THEN {} ELSE Tagged(c, t)
    BY <1>4, <2>1 DEF Tagged
  <2> QED BY <1>1, <2>2 DEF NodeSet
<1>7. PICK m, h : m = ReleaseEdges(g, S) /\ h = ReleaseNodes(m, S)
  OBVIOUS
<1>8. /\ DOMAIN g = Fields /\ Indexed(g) /\ EdgesOK(g, e) /\ NodesOK(g, n) /\ RelationsOK(g)
  BY <1>1 DEF Valid
<1>9. /\ DOMAIN m = Fields
      /\ \A x \in NodeFields \cup RelFields : m[x] = g[x]
  BY <1>7, <1>8 DEF ReleaseEdges, Fields, NodeFields, RelFields
<1>10. Indexed(m) /\ EdgesOK(m, e2)
  <2>1. m = ReleaseEdges(g, S)
    BY <1>7
  <2> QED BY <1>3, <1>5, <1>8, <2>1, EdgesReleased, Zenon
<1>11. NodesOK(m, n) /\ RelationsOK(m)
  BY <1>8, <1>9, SameNodes, SameRelations
<1>12. /\ DOMAIN h = Fields /\ NodesOK(h, n2)
       /\ \A x \in Fields \ {"nodes", "byName", "contributors", "tuNodes"} : h[x] = m[x]
  BY <1>3, <1>6, <1>7, <1>9, <1>11, NodesReleased
<1>13. /\ \A x \in EdgeFields : h[x] = m[x]
       /\ \A x \in RelFields : h[x] = m[x]
  BY <1>12 DEF Fields, EdgeFields, RelFields
<1>14. Indexed(h) /\ EdgesOK(h, e2) /\ RelationsOK(h)
  BY <1>10, <1>11, <1>13, SameEdges, SameRelations
<1>15. Valid(h, d)
  BY <1>1, <1>12, <1>14 DEF Valid
<1> QED BY <1>2, <1>7, <1>15 DEF RemoveTUs

\* Compaction: no registration comes or goes.
LEMMA ValidCompact ==
  ASSUME NEW g, NEW c, IsCounts(c), Valid(g, c)
  PROVE  Valid(Compact(g), c)
<1>1. PICK h, e : h = Compact(g) /\ e = EdgeCount(c)
  OBVIOUS
<1>2. /\ DOMAIN g = Fields /\ Indexed(g) /\ EdgesOK(g, e) /\ NodesOK(g, NodeSet(c)) /\ RelationsOK(g)
      /\ e \in EdgeCounts
  BY <1>1, CountFacts DEF Valid
<1>3. /\ DOMAIN h = Fields
      /\ \A x \in NodeFields \cup RelFields : h[x] = g[x]
  BY <1>1, <1>2 DEF Compact, Fields, NodeFields, RelFields
<1>4. Indexed(h) /\ EdgesOK(h, e)
  BY <1>1, <1>2, EdgesCompacted
<1>5. NodesOK(h, NodeSet(c)) /\ RelationsOK(h)
  BY <1>2, <1>3, SameNodes, SameRelations
<1> QED BY <1>1, <1>3, <1>4, <1>5 DEF Valid

\* A shard is absorbed: its registrations join those of the graph (absorb).
LEMMA ValidAbsorb ==
  ASSUME NEW g, NEW c, IsCounts(c), Valid(g, c),
         NEW s, NEW q, IsCounts(q), Valid(s, q),
         NEW d, d = [t \in TUs |-> [x \in Items |-> c[t][x] + q[t][x]]]
  PROVE  IsCounts(d) /\ Valid(Absorb(g, s), d)
<1>1. PICK e, n, e2, n2, p, o : /\ e = EdgeCount(c) /\ n = NodeSet(c)
                                /\ e2 = EdgeCount(d) /\ n2 = NodeSet(d)
                                /\ p = EdgeCount(q) /\ o = NodeSet(q)
  OBVIOUS
<1>2. \A t \in TUs, x \in Items : c[t][x] \in Nat /\ q[t][x] \in Nat /\ d[t][x] = c[t][x] + q[t][x]
  BY DEF IsCounts
<1>3. IsCounts(d)
  BY <1>2 DEF IsCounts
<1>4. /\ e \in EdgeCounts /\ n \in NodeSets /\ e2 \in EdgeCounts /\ n2 \in NodeSets
      /\ p \in EdgeCounts /\ o \in NodeSets
  BY <1>1, <1>3, CountFacts
<1>5. Adds(e2, e, p)
  <2>1. \A k \in EdgeKeys : <<"edge", k>> \in Items
    BY DEF Items
  <2>2. \A k \in EdgeKeys, t \in TUs : d[t][<<"edge", k>>] = c[t][<<"edge", k>>] + q[t][<<"edge", k>>]
    BY <1>2, <2>1
  <2> QED BY <1>1, <2>2 DEF EdgeCount, Adds
<1>6. \A t \in TUs : n2[t] = n[t] \cup o[t]
  <2> SUFFICES ASSUME NEW t \in TUs PROVE Tagged(d, t) = Tagged(c, t) \cup Tagged(q, t)
    BY <1>1 DEF NodeSet
  <2>1. ASSUME NEW y \in Declared
        PROVE  d[t][<<"node", y>>] > 0 <=> \/ c[t][<<"node", y>>] > 0
                                           \/ q[t][<<"node", y>>] > 0
    <3>1. <<"node", y>> \in Items
      BY DEF Items
    <3>2. PICK a \in Nat, b \in Nat : /\ a = c[t][<<"node", y>>] /\ b = q[t][<<"node", y>>]
                                      /\ d[t][<<"node", y>>] = a + b
      BY <1>2, <3>1
    <3>3. a + b > 0 <=> \/ a > 0
                        \/ b > 0
      OBVIOUS
    <3> QED BY <3>2, <3>3
  <2> QED BY <2>1 DEF Tagged
<1>7. PICK m, k, h : m = AbsorbNodes(g, s) /\ k = AbsorbEdges(m, s) /\ h = AbsorbRelations(k, s)
  OBVIOUS
<1>8. /\ DOMAIN g = Fields /\ Indexed(g) /\ EdgesOK(g, e) /\ NodesOK(g, n) /\ RelationsOK(g)
      /\ Indexed(s) /\ EdgesOK(s, p) /\ NodesOK(s, o) /\ RelationsOK(s)
  BY <1>1 DEF Valid
<1>9. /\ DOMAIN m = Fields /\ NodesOK(m, n2)
      /\ \A x \in Fields \ {"nodes", "byName", "contributors", "tuNodes"} : m[x] = g[x]
  <2>1. m = AbsorbNodes(g, s)
    BY <1>7
  <2> QED BY <1>4, <1>6, <1>8, <2>1, NodesAbsorbed
<1>10. /\ \A x \in EdgeFields : m[x] = g[x]
       /\ \A x \in RelFields : m[x] = g[x]
  BY <1>9 DEF Fields, EdgeFields, RelFields
<1>11. Indexed(m) /\ EdgesOK(m, e) /\ RelationsOK(m)
  BY <1>8, <1>10, SameEdges, SameRelations
<1>12. Indexed(k) /\ EdgesOK(k, e2)
  <2>1. k = AbsorbEdges(m, s)
    BY <1>7
  <2> QED BY <1>4, <1>5, <1>8, <1>9, <1>11, <2>1, EdgesAbsorbed, Zenon
<1>13. /\ DOMAIN k = Fields
       /\ \A x \in NodeFields \cup RelFields : k[x] = m[x]
  BY <1>7, <1>9 DEF AbsorbEdges, Fields, NodeFields, RelFields
<1>14. NodesOK(k, n2) /\ RelationsOK(k)
  BY <1>9, <1>11, <1>13, SameNodes, SameRelations
<1>15. /\ DOMAIN h = Fields
       /\ \A x \in EdgeFields \cup NodeFields : h[x] = k[x]
       /\ h.overrides = k.overrides \cup s.overrides /\ h.bases = k.bases \cup s.bases
       /\ h.returns = k.returns \cup s.returns /\ h.returnedBy = k.returnedBy \cup s.returnedBy
  BY <1>7, <1>13 DEF AbsorbRelations, Fields, NodeFields, EdgeFields
<1>16. RelationsOK(h)
  <2>1. \A P, R : Reversed(P \cup R) = Reversed(P) \cup Reversed(R)
    BY DEF Reversed
  <2>2. /\ h.bases = Reversed(h.overrides) /\ h.returnedBy = Reversed(h.returns)
    <3>1. /\ k.bases = Reversed(k.overrides) /\ k.returnedBy = Reversed(k.returns)
          /\ s.bases = Reversed(s.overrides) /\ s.returnedBy = Reversed(s.returns)
      BY <1>8, <1>14 DEF RelationsOK
    <3>2. /\ Reversed(k.overrides \cup s.overrides) = k.bases \cup s.bases
          /\ Reversed(k.returns \cup s.returns) = k.returnedBy \cup s.returnedBy
      BY <2>1, <3>1
    <3> QED BY <1>15, <3>2
  <2>3. h.overrides \subseteq Fns \X Fns /\ h.returns \subseteq Fns \X Fns
    <3>1. /\ k.overrides \subseteq Fns \X Fns /\ k.returns \subseteq Fns \X Fns
          /\ s.overrides \subseteq Fns \X Fns /\ s.returns \subseteq Fns \X Fns
      BY <1>8, <1>14 DEF RelationsOK
    <3> QED BY <1>15, <3>1
  <2> QED BY <2>2, <2>3 DEF RelationsOK
<1>17. Indexed(h) /\ EdgesOK(h, e2) /\ NodesOK(h, n2)
  BY <1>12, <1>14, <1>15, SameEdges, SameNodes
<1>18. Valid(h, d)
  BY <1>1, <1>15, <1>16, <1>17 DEF Valid
<1> QED BY <1>3, <1>7, <1>18 DEF Absorb

\* A restart: what the snapshot keeps is enough (SaveGraph, LoadGraph).
LEMMA ValidReload ==
  ASSUME NEW g, NEW c, IsCounts(c), Valid(g, c)
  PROVE  Valid(LoadGraph(SaveGraph(g)), c)
<1>1. PICK h, e, n : h = LoadGraph(SaveGraph(g)) /\ e = EdgeCount(c) /\ n = NodeSet(c)
  OBVIOUS
<1>2. /\ Indexed(g) /\ EdgesOK(g, e) /\ NodesOK(g, n) /\ RelationsOK(g)
      /\ e \in EdgeCounts /\ n \in NodeSets
  BY <1>1, CountFacts DEF Valid
<1>3. Indexed(h) /\ EdgesOK(h, e)
  <2>1. h = LoadGraph(SaveGraph(g))
    BY <1>1
  <2> QED BY <1>2, <2>1, EdgesReloaded, Zenon
<1>4. DOMAIN h = Fields /\ NodesOK(h, n)
  <2>1. h = LoadGraph(SaveGraph(g))
    BY <1>1
  <2> QED BY <1>2, <2>1, NodesReloaded, Zenon
<1>5. /\ h.overrides = g.overrides /\ h.bases = Reversed(g.overrides)
      /\ h.returns = g.returns /\ h.returnedBy = Reversed(g.returns)
  BY <1>1 DEF LoadGraph, SaveGraph
<1>6. RelationsOK(h)
  BY <1>2, <1>5 DEF RelationsOK
<1> QED BY <1>1, <1>3, <1>4, <1>6 DEF Valid
-----------------------------------------------------------------------------
(* The inductive invariant and its proof.                                    *)

\* The graph is that of what was registered in it, and so is the shard.
Inv ==
  /\ IsCounts(contrib) /\ Valid(graph, contrib)
  /\ IsCounts(pending) /\ Valid(shard, pending)

\* Nothing is registered at first.
LEMMA InvInit == Init => Inv
BY ValidEmpty DEF Init, Inv

\* Every step keeps the graph, and the shard, those of their registrations.
LEMMA InvNext == Inv /\ [Next]_vars => Inv'
<1> SUFFICES ASSUME Inv, [Next]_vars PROVE Inv'
  OBVIOUS
<1>0. /\ IsCounts(contrib) /\ Valid(graph, contrib)
      /\ IsCounts(pending) /\ Valid(shard, pending)
  BY DEF Inv
<1>1. ASSUME NEW tu \in TUs, NEW item \in Items, Bake(tu, item)
      PROVE  Inv'
  <2>1. /\ graph' = Register(graph, tu, item) /\ shard' = shard /\ pending' = pending
        /\ contrib' = [contrib EXCEPT ![tu][item] = @ + 1]
    BY <1>1 DEF Bake
  <2>2. OneMore(contrib, contrib', tu, item)
    BY <1>0, <2>1, CountOne
  <2>3. Valid(graph', contrib')
    BY <1>0, <2>1, <2>2, ValidRegister
  <2>4. IsCounts(contrib')
    BY <2>2 DEF OneMore
  <2> QED BY <1>0, <2>1, <2>3, <2>4 DEF Inv
<1>2. ASSUME NEW tu \in TUs, NEW item \in Items, BakeInWorker(tu, item)
      PROVE  Inv'
  <2>1. /\ shard' = Register(shard, tu, item) /\ graph' = graph /\ contrib' = contrib
        /\ pending' = [pending EXCEPT ![tu][item] = @ + 1]
    BY <1>2 DEF BakeInWorker
  <2>2. OneMore(pending, pending', tu, item)
    BY <1>0, <2>1, CountOne
  <2>3. Valid(shard', pending')
    BY <1>0, <2>1, <2>2, ValidRegister
  <2>4. IsCounts(pending')
    BY <2>2 DEF OneMore
  <2> QED BY <1>0, <2>1, <2>3, <2>4 DEF Inv
<1>3. CASE AbsorbShard
  <2>1. /\ graph' = Absorb(graph, shard) /\ shard' = EmptyGraph /\ pending' = None
        /\ contrib' = [t \in TUs |-> [x \in Items |-> contrib[t][x] + pending[t][x]]]
    BY <1>3 DEF AbsorbShard
  <2>2. IsCounts(contrib') /\ Valid(graph', contrib')
    BY <1>0, <2>1, ValidAbsorb
  <2> QED BY <2>1, <2>2, ValidEmpty DEF Inv
<1>4. ASSUME NEW S \in SUBSET TUs, Remove(S)
      PROVE  Inv'
  <2>1. /\ graph' = RemoveTUs(graph, S) /\ shard' = shard /\ pending' = pending
        /\ contrib' = [t \in TUs |-> IF t \in S THEN None[t] ELSE contrib[t]]
    BY <1>4 DEF Remove
  <2>2. IsCounts(contrib') /\ Valid(graph', contrib')
    BY <1>0, <2>1, ValidRemove
  <2> QED BY <1>0, <2>1, <2>2 DEF Inv
<1>5. CASE CompactGraph
  <2>1. graph' = Compact(graph) /\ shard' = shard /\ contrib' = contrib /\ pending' = pending
    BY <1>5 DEF CompactGraph
  <2>2. Valid(graph', contrib')
    BY <1>0, <2>1, ValidCompact
  <2> QED BY <1>0, <2>1, <2>2 DEF Inv
<1>6. CASE Restart
  <2>1. /\ graph' = LoadGraph(SaveGraph(graph)) /\ contrib' = contrib
        /\ shard' = EmptyGraph /\ pending' = None
    BY <1>6 DEF Restart
  <2>2. Valid(graph', contrib')
    BY <1>0, <2>1, ValidReload
  <2> QED BY <1>0, <2>1, <2>2, ValidEmpty DEF Inv
<1>7. CASE UNCHANGED vars
  BY <1>0, <1>7 DEF vars, Inv
<1> QED BY <1>1, <1>2, <1>3, <1>4, <1>5, <1>6, <1>7 DEF Next

\* The graph is at all times that of the registrations, whatever order they,
\* removals, absorbed shards, compactions and restarts come in (CallGraph.cpp).
THEOREM GraphOfRegistrations == Spec => []Inv
<1>1. Init => Inv
  BY InvInit
<1>2. Inv /\ [Next]_vars => Inv'
  BY InvNext
<1> QED BY <1>1, <1>2, PTL DEF Spec
-----------------------------------------------------------------------------
(* What follows for a full rebuild.                                          *)

\* The stored edges are those of a full rebuild, with as many registrations
\* (addEdge, removeTUs, absorb).
THEOREM EdgesCorrect == Spec => []EdgesMatchRebuild
<1>1. ASSUME Inv PROVE EdgesMatchRebuild
  <2>1. PICK e : e = EdgeCount(contrib)
    OBVIOUS
  <2>2. Indexed(graph) /\ EdgesOK(graph, e)
    BY <1>1, <2>1 DEF Inv, Valid
  <2>3. \A k \in EdgeKeys : e[k] = [t \in TUs |-> contrib[t][<<"edge", k>>]]
    BY <2>1 DEF EdgeCount
  <2>4. LiveKeys(graph) = RebuiltEdges
    <3>1. \A k \in EdgeKeys, t \in TUs : e[k][t] = contrib[t][<<"edge", k>>]
      BY <2>3
    <3> QED BY <2>2, <3>1 DEF EdgesOK, RebuiltEdges
  <2>5. \A k \in EdgeKeys : Total(e[k]) = Times(<<"edge", k>>)
    BY <2>3 DEF Total, Times, Rows
  <2>6. \A i \in LiveIdx(graph) : graph.edges[i].key \in EdgeKeys
    <3>1. \A i \in LiveIdx(graph) : graph.edges[i].key \in LiveKeys(graph)
      BY DEF LiveKeys
    <3> QED BY <2>4, <3>1 DEF RebuiltEdges
  <2>7. \A i \in LiveIdx(graph) : graph.edges[i].refs = Total(e[graph.edges[i].key])
    BY <2>2 DEF EdgesOK
  <2> QED BY <2>4, <2>5, <2>6, <2>7 DEF EdgesMatchRebuild
<1> QED BY <1>1, GraphOfRegistrations, PTL

\* The nodes that TUs name are those of a full rebuild, each under its display
\* name once (addNode, removeTUs, absorb, the load of the node section).
THEOREM NodesCorrect == Spec => []TaggedNodesMatchRebuild
<1>1. ASSUME Inv PROVE TaggedNodesMatchRebuild
  <2>1. PICK n : n = NodeSet(contrib)
    OBVIOUS
  <2>2. NodesOK(graph, n)
    BY <1>1, <2>1 DEF Inv, Valid
  <2>3. \A f : (\E t \in TUs : f \in n[t]) <=> f \in RebuiltNodes
    BY <2>1 DEF NodeSet, Tagged, RebuiltNodes
  <2>4. graph.nodes \ Untagged = RebuiltNodes \ Untagged
    BY <2>2, <2>3 DEF NodesOK
  <2>5. \A x \in Names : graph.byName[x] = SetToBag({f \in graph.nodes : display[f] = x})
    BY <2>2 DEF NodesOK
  <2> QED BY <2>4, <2>5 DEF TaggedNodesMatchRebuild
<1> QED BY <1>1, GraphOfRegistrations, PTL
-----------------------------------------------------------------------------
(* Queries from both sides.                                                  *)

\* A set that the successors of its elements do not leave.
ClosedUnder(S, rel) == \A p \in rel : p[1] \in S => p[2] \in S

\* What reaches what: the least closed set of a relation and that of its
\* reverse say the same, for the complement of a set closed under one is
\* closed under the other (transitiveClosure over methodOverrides_ and over
\* overrideBases_).
LEMMA ClosureReversed ==
  ASSUME NEW rel, rel \subseteq Fns \X Fns, NEW a \in Fns, NEW b \in Fns, b \in Closure(rel, a)
  PROVE  a \in Closure(Reversed(rel), b)
<1>1. b # a /\ \A S \in SUBSET Fns : (a \in S /\ ClosedUnder(S, rel)) => b \in S
  BY DEF Closure, ClosedUnder
<1> SUFFICES ASSUME NEW S \in SUBSET Fns, b \in S, a \notin S, ClosedUnder(S, Reversed(rel))
             PROVE  FALSE
  BY <1>1 DEF Closure, ClosedUnder
<1>2. PICK T \in SUBSET Fns : T = Fns \ S
  OBVIOUS
<1>3. ClosedUnder(T, rel)
  <2> SUFFICES ASSUME NEW p \in rel, p[1] \in T, p[2] \notin T
               PROVE  FALSE
    BY DEF ClosedUnder
  <2>1. p[1] \in Fns /\ p[2] \in Fns
    OBVIOUS
  <2>2. <<p[2], p[1]>> \in Reversed(rel)
    BY DEF Reversed
  <2>3. PICK q : q = <<p[2], p[1]>>
    OBVIOUS
  <2>4. q \in Reversed(rel) /\ q[1] = p[2] /\ q[2] = p[1]
    BY <2>2, <2>3
  <2> QED BY <1>2, <2>1, <2>4 DEF ClosedUnder
<1>4. a \in T /\ b \notin T
  BY <1>2
<1> QED BY <1>1, <1>3, <1>4

\* The reverse of the reverse.
LEMMA ReversedTwice ==
  ASSUME NEW rel, rel \subseteq Fns \X Fns
  PROVE  /\ Reversed(rel) \subseteq Fns \X Fns /\ Reversed(Reversed(rel)) = rel
         /\ \A x, y : y \in Image(rel, x) <=> x \in Image(Reversed(rel), y)
<1>1. \A p \in rel : p[1] \in Fns /\ p[2] \in Fns /\ p = <<p[1], p[2]>>
  OBVIOUS
<1>2. \A x, y : <<x, y>> \in rel <=> <<y, x>> \in Reversed(rel)
  <2>1. ASSUME NEW x, NEW y, <<x, y>> \in rel PROVE <<y, x>> \in Reversed(rel)
    BY <2>1 DEF Reversed
  <2>2. ASSUME NEW x, NEW y, <<y, x>> \in Reversed(rel) PROVE <<x, y>> \in rel
    <3>1. PICK p \in rel : <<y, x>> = <<p[2], p[1]>>
      BY <2>2 DEF Reversed
    <3>2. y = p[2] /\ x = p[1]
      BY <3>1
    <3> QED BY <1>1, <3>2
  <2> QED BY <2>1, <2>2
<1>3. Reversed(rel) \subseteq Fns \X Fns
  BY <1>1 DEF Reversed
<1>4. ASSUME NEW R, R \subseteq Fns \X Fns
      PROVE  \A x, y : y \in Image(R, x) <=> <<x, y>> \in R
  <2>1. \A p \in R : p = <<p[1], p[2]>>
    BY <1>4
  <2>2. ASSUME NEW x, NEW y, y \in Image(R, x) PROVE <<x, y>> \in R
    <3>1. PICK p \in R : p[1] = x /\ y = p[2]
      BY <2>2 DEF Image
    <3> QED BY <2>1, <3>1
  <2>3. ASSUME NEW x, NEW y, <<x, y>> \in R PROVE y \in Image(R, x)
    <3>1. PICK p : p = <<x, y>>
      OBVIOUS
    <3>2. p \in R /\ p[1] = x /\ p[2] = y
      BY <2>3, <3>1
    <3> QED BY <3>2 DEF Image
  <2> QED BY <2>2, <2>3
<1>5. Reversed(Reversed(rel)) = rel
  <2>1. ASSUME NEW x \in rel PROVE x \in Reversed(Reversed(rel))
    <3>1. PICK p \in Reversed(rel) : p = <<x[2], x[1]>>
      BY DEF Reversed
    <3>2. p[1] = x[2] /\ p[2] = x[1]
      BY <3>1
    <3>3. <<p[2], p[1]>> = x
      BY <1>1, <3>2
    <3> QED BY <3>3 DEF Reversed
  <2>2. ASSUME NEW x \in Reversed(Reversed(rel)) PROVE x \in rel
    <3>1. PICK p \in Reversed(rel) : x = <<p[2], p[1]>>
      BY DEF Reversed
    <3>2. PICK q \in rel : p = <<q[2], q[1]>>
      BY <3>1 DEF Reversed
    <3>3. p[2] = q[1] /\ p[1] = q[2]
      BY <3>2
    <3> QED BY <1>1, <3>1, <3>3
  <2> QED BY <2>1, <2>2
<1> QED BY <1>2, <1>3, <1>4, <1>5

\* The two ends of an answer: k leads to o, as stored, through an override of
\* its virtual callee, or through what its deferred callee returns.
Leads(g, k, o) ==
  \/ k.kind # "return" /\ o = k.callee
  \/ Expandable(k) /\ o \in Closure(g.overrides, k.callee)
  \/ k.kind = "return" /\ o \in Image(g.returns, k.callee)

\* An edge at the caller, or at the callee, found in its adjacency list.
LEMMA KeysListed ==
  ASSUME NEW g, Indexed(g), NEW f \in Fns
  PROVE  /\ KeysAt(g, g.out[f]) = {k \in LiveKeys(g) : k.caller = f}
         /\ KeysAt(g, g.in[f]) = {k \in LiveKeys(g) : k.callee = f}
<1>1. DOMAIN g.out[f] = LiveOut(g, f) /\ DOMAIN g.in[f] = LiveIn(g, f)
  BY DEF Indexed, SetToBag
<1> QED BY <1>1 DEF KeysAt, LiveKeys, LiveOut, LiveIn

\* What an edge leads to is a function, found again from the other end.
LEMMA LeadsBack ==
  ASSUME NEW g, RelationsOK(g), NEW k \in EdgeKeys, NEW o
  PROVE  /\ Leads(g, k, o) => o \in Fns
         /\ o \in Fns => (/\ o \in Closure(g.overrides, k.callee) <=> k.callee \in Closure(g.bases, o)
                          /\ o \in Image(g.returns, k.callee) <=> k.callee \in Image(g.returnedBy, o))
<1>1. /\ g.overrides \subseteq Fns \X Fns /\ g.bases = Reversed(g.overrides)
      /\ g.returns \subseteq Fns \X Fns /\ g.returnedBy = Reversed(g.returns)
  BY DEF RelationsOK
<1>2. PICK c \in Fns : c = k.callee
  BY KeysAssumption
<1>3. o \in Image(g.returns, c) => o \in Fns
  BY <1>1 DEF Image
<1>4. Leads(g, k, o) => o \in Fns
  BY <1>2, <1>3 DEF Leads, Closure
<1>5. /\ g.bases \subseteq Fns \X Fns /\ Reversed(g.bases) = g.overrides
      /\ o \in Image(g.returns, c) <=> c \in Image(g.returnedBy, o)
  BY <1>1, ReversedTwice
<1>6. o \in Fns => (o \in Closure(g.overrides, c) <=> c \in Closure(g.bases, o))
  BY <1>1, <1>5, ClosureReversed
<1> QED BY <1>2, <1>4, <1>5, <1>6

\* The answer from the caller's side.
LEMMA CalleeAnswer ==
  ASSUME NEW g, Indexed(g), NEW f \in Fns, NEW r
  PROVE  r \in CalleeRows(g, f) <=>
           \E k \in LiveKeys(g) : k.caller = f /\ \E o : Leads(g, k, o) /\ r = <<f, o, k.site>>
<1>1. KeysAt(g, g.out[f]) = {k \in LiveKeys(g) : k.caller = f}
  BY KeysListed
<1> DEFINE out == {k \in LiveKeys(g) : k.caller = f}
           direct == {Row(f, k.callee, k.site) : k \in {k \in out : k.kind # "return"}}
           virtual == UNION {{Row(f, o, k.site) : o \in Closure(g.overrides, k.callee)} :
                               k \in {k \in out : Expandable(k)}}
           deferred == UNION {{Row(f, o, k.site) : o \in Image(g.returns, k.callee)} :
                                k \in {k \in out : k.kind = "return"}}
<1>2. CalleeRows(g, f) = (direct \cup virtual) \cup deferred
  BY <1>1, Zenon DEF CalleeRows
<1>3. r \in direct <=> \E k \in LiveKeys(g) : /\ k.caller = f /\ k.kind # "return"
                                              /\ r = <<f, k.callee, k.site>>
  BY DEF Row
<1>4. r \in virtual <=> \E k \in LiveKeys(g) : /\ k.caller = f /\ Expandable(k)
                                               /\ \E o : /\ o \in Closure(g.overrides, k.callee)
                                                         /\ r = <<f, o, k.site>>
  BY DEF Row
<1>5. r \in deferred <=> \E k \in LiveKeys(g) : /\ k.caller = f /\ k.kind = "return"
                                                /\ \E o : /\ o \in Image(g.returns, k.callee)
                                                          /\ r = <<f, o, k.site>>
  BY DEF Row
<1>6. r \in CalleeRows(g, f) <=> \/ r \in direct
                                 \/ r \in virtual
                                 \/ r \in deferred
  BY <1>2
<1> HIDE DEF direct, virtual, deferred
<1> QED BY <1>3, <1>4, <1>5, <1>6 DEF Leads

\* The answer from the callee's side.
LEMMA CallerAnswer ==
  ASSUME NEW g, Indexed(g), RelationsOK(g), LiveKeys(g) \subseteq EdgeKeys, NEW f \in Fns, NEW r
  PROVE  r \in CallerRows(g, f) <=>
           \E k \in LiveKeys(g) : Leads(g, k, f) /\ r = <<k.caller, f, k.site>>
<1>1. \A b \in Fns : KeysAt(g, g.in[b]) = {k \in LiveKeys(g) : k.callee = b}
  BY KeysListed
<1>2. Closure(g.bases, f) \subseteq Fns
  BY DEF Closure
<1>3. Image(g.returnedBy, f) \subseteq Fns
  BY DEF Image, RelationsOK, Reversed
<1>4. \A k \in LiveKeys(g) : /\ k.callee \in Fns
                             /\ f \in Closure(g.overrides, k.callee) <=> k.callee \in Closure(g.bases, f)
                             /\ f \in Image(g.returns, k.callee) <=> k.callee \in Image(g.returnedBy, f)
  BY LeadsBack, KeysAssumption, Zenon
<1> DEFINE direct == {Row(k.caller, f, k.site) : k \in {k \in KeysAt(g, g.in[f]) : k.kind # "return"}}
           virtual == UNION {{Row(k.caller, f, k.site) :
                                k \in {k \in KeysAt(g, g.in[b]) : Expandable(k)}} :
                              b \in Closure(g.bases, f)}
           deferred == UNION {{Row(k.caller, f, k.site) :
                                 k \in {k \in KeysAt(g, g.in[b]) : k.kind = "return"}} :
                               b \in Image(g.returnedBy, f)}
<1>5. CallerRows(g, f) = (direct \cup virtual) \cup deferred
  BY Zenon DEF CallerRows
<1>6. r \in direct <=> \E k \in LiveKeys(g) : /\ k.kind # "return" /\ k.callee = f
                                              /\ r = <<k.caller, f, k.site>>
  BY <1>1 DEF Row
<1>7. r \in virtual <=> \E k \in LiveKeys(g) : /\ Expandable(k) /\ k.callee \in Closure(g.bases, f)
                                               /\ r = <<k.caller, f, k.site>>
  BY <1>1, <1>2 DEF Row
<1>8. r \in deferred <=> \E k \in LiveKeys(g) : /\ k.kind = "return"
                                                /\ k.callee \in Image(g.returnedBy, f)
                                                /\ r = <<k.caller, f, k.site>>
  BY <1>1, <1>3 DEF Row
<1> HIDE DEF direct, virtual, deferred
<1> QED BY <1>4, <1>5, <1>6, <1>7, <1>8 DEF Leads

\* The edges of a graph are among all edges.
LEMMA ValidKeys ==
  ASSUME NEW g, NEW c, Valid(g, c)
  PROVE  LiveKeys(g) = {k \in EdgeKeys : \E t \in TUs : EdgeCount(c)[k][t] > 0}
BY DEF Valid, EdgesOK

\* The index and the adjacency lists name each live edge once, and callersOf
\* and callees_of never disagree (addEdge, removeTUs, compact, absorb,
\* calleeRefsOf, callerRefsOf).
THEOREM AdjacencyCorrect == Spec => []AdjacencyExact
<1>1. ASSUME Inv PROVE AdjacencyExact
  <2>1. Indexed(graph) /\ RelationsOK(graph) /\ Valid(graph, contrib)
    BY <1>1 DEF Inv, Valid
  <2>2. LiveKeys(graph) \subseteq EdgeKeys
    BY <2>1, ValidKeys
  <2>3. EdgeListsExact
    BY <2>1 DEF EdgeListsExact, Indexed, LiveOut, LiveIn
  <2>4. ASSUME NEW f \in Fns, NEW r \in CalleeRows(graph, f)
        PROVE  r \in CallerRows(graph, r[2])
    <3>0. PICK k \in LiveKeys(graph) : k.caller = f /\ \E o : /\ Leads(graph, k, o)
                                                              /\ r = <<f, o, k.site>>
      BY <2>1, <2>4, CalleeAnswer
    <3>1. PICK o : k.caller = f /\ Leads(graph, k, o) /\ r = <<f, o, k.site>>
      BY <3>0
    <3>2. r[2] = o /\ o \in Fns
      BY <2>1, <2>2, <3>1, LeadsBack
    <3> QED BY <2>1, <2>2, <3>1, <3>2, CallerAnswer
  <2>5. ASSUME NEW f \in Fns, NEW r \in CallerRows(graph, f)
        PROVE  r \in CalleeRows(graph, r[1])
    <3>1. PICK k \in LiveKeys(graph) : Leads(graph, k, f) /\ r = <<k.caller, f, k.site>>
      BY <2>1, <2>2, <2>5, CallerAnswer
    <3>2. r[1] = k.caller /\ k.caller \in Fns
      BY <2>2, <3>1, KeysAssumption
    <3> QED BY <2>1, <3>1, <3>2, CalleeAnswer
  <2> QED BY <2>3, <2>4, <2>5 DEF AdjacencyExact, QueriesAgree
<1> QED BY <1>1, GraphOfRegistrations, PTL

\* Graphs with the same live edges and the same relations answer alike.
LEMMA SameAnswers ==
  ASSUME NEW g, NEW h, NEW c, Valid(g, c), Valid(h, c),
         h.overrides = g.overrides, h.returns = g.returns
  PROVE  Answers(h) = Answers(g)
<1>1. Indexed(g) /\ Indexed(h) /\ LiveKeys(h) = LiveKeys(g)
  BY ValidKeys DEF Valid
<1>2. \A k, o : Leads(h, k, o) <=> Leads(g, k, o)
  BY DEF Leads
<1>3. ASSUME NEW f \in Fns PROVE CalleeRows(h, f) = CalleeRows(g, f)
  <2>1. \A r : r \in CalleeRows(h, f) <=> r \in CalleeRows(g, f)
    BY <1>1, <1>2, CalleeAnswer
  <2> DEFINE A == CalleeRows(h, f)
             B == CalleeRows(g, f)
  <2>2. \A r : r \in A <=> r \in B
    BY <2>1
  <2> HIDE DEF A, B
  <2>3. A = B
    BY <2>2
  <2> QED BY <2>3 DEF A, B
<1> QED BY <1>3 DEF Answers

\* A step that registers or absorbs something changes the counts.
LEMMA CountsChange ==
  /\ \A tu \in TUs, item \in Items :
       (IsCounts(contrib) /\ Bake(tu, item)) => contrib' # contrib
  /\ (IsCounts(contrib) /\ IsCounts(pending) /\ AbsorbShard) => contrib' # contrib
<1>1. ASSUME NEW tu \in TUs, NEW item \in Items, IsCounts(contrib), Bake(tu, item)
      PROVE  contrib' # contrib
  <2>1. contrib' = [contrib EXCEPT ![tu][item] = @ + 1]
    BY <1>1 DEF Bake
  <2>2. OneMore(contrib, contrib', tu, item)
    BY <1>1, <2>1, CountOne
  <2>3. PICK n \in Nat : n = contrib[tu][item]
    BY <1>1 DEF IsCounts
  <2>4. contrib'[tu][item] = n + 1
    BY <2>2, <2>3 DEF OneMore
  <2>5. n + 1 # n
    OBVIOUS
  <2> QED BY <2>3, <2>4, <2>5
<1>2. ASSUME IsCounts(contrib), IsCounts(pending), AbsorbShard
      PROVE  contrib' # contrib
  <2>1. /\ pending # None
        /\ contrib' = [t \in TUs |-> [x \in Items |-> contrib[t][x] + pending[t][x]]]
    BY <1>2 DEF AbsorbShard
  <2>2. PICK t \in TUs, x \in Items : pending[t][x] # 0
    BY <1>2, <2>1 DEF IsCounts, None
  <2>3. PICK n \in Nat, m \in Nat : n = contrib[t][x] /\ m = pending[t][x]
    BY <1>2 DEF IsCounts
  <2>4. contrib'[t][x] = n + m /\ m # 0
    BY <2>1, <2>2, <2>3
  <2>5. n + m # n
    BY <2>4
  <2> QED BY <2>3, <2>4, <2>5
<1> QED BY <1>1, <1>2

\* Compaction, a restart from the snapshot and the removal of a TU that has
\* registered nothing change no answer (compact, SaveGraph, LoadGraph).
THEOREM MaintenanceCorrect == Spec => MaintenanceKeepsAnswers
<1>1. ASSUME Inv, Inv', [Next]_vars, contrib' = contrib
      PROVE  Answers(graph') = Answers(graph)
  <2>0. /\ IsCounts(contrib) /\ IsCounts(pending)
        /\ Valid(graph, contrib) /\ Valid(graph', contrib)
    BY <1>1 DEF Inv
  <2>1. \A tu \in TUs, item \in Items : ~Bake(tu, item)
    BY <1>1, <2>0, CountsChange
  <2>2. ~AbsorbShard
    BY <1>1, <2>0, CountsChange
  <2>3. ASSUME graph' = graph PROVE Answers(graph') = Answers(graph)
    BY <2>3
  <2>4. ASSUME graph'.overrides = graph.overrides, graph'.returns = graph.returns
        PROVE  Answers(graph') = Answers(graph)
    BY <2>0, <2>4, SameAnswers
  <2>5. DOMAIN graph = Fields
    BY <2>0 DEF Valid
  <2>6. ASSUME NEW tu \in TUs, NEW item \in Items, BakeInWorker(tu, item)
        PROVE  Answers(graph') = Answers(graph)
    BY <2>3, <2>6 DEF BakeInWorker
  <2>7. ASSUME NEW S, Remove(S) PROVE Answers(graph') = Answers(graph)
    <3>1. graph' = RemoveTUs(graph, S)
      BY <2>7 DEF Remove
    <3>2. graph'.overrides = graph.overrides /\ graph'.returns = graph.returns
      BY <2>5, <3>1 DEF RemoveTUs, ReleaseEdges, ReleaseNodes, Fields
    <3> QED BY <2>4, <3>2
  <2>8. CASE CompactGraph
    <3>1. graph' = Compact(graph)
      BY <2>8 DEF CompactGraph
    <3>2. graph'.overrides = graph.overrides /\ graph'.returns = graph.returns
      BY <2>5, <3>1 DEF Compact, Fields
    <3> QED BY <2>4, <3>2
  <2>9. CASE Restart
    <3>1. graph' = LoadGraph(SaveGraph(graph))
      BY <2>9 DEF Restart
    <3>2. graph'.overrides = graph.overrides /\ graph'.returns = graph.returns
      BY <3>1 DEF LoadGraph, SaveGraph
    <3> QED BY <2>4, <3>2
  <2>10. CASE UNCHANGED vars
    BY <2>3, <2>10 DEF vars
  <2> QED BY <1>1, <2>1, <2>2, <2>6, <2>7, <2>8, <2>9, <2>10 DEF Next
<1>2. (Inv /\ Inv' /\ [Next]_vars) =>
        [contrib' = contrib => Answers(graph') = Answers(graph)]_vars
  BY <1>1
<1> QED BY <1>2, GraphOfRegistrations, PTL DEF Spec, MaintenanceKeepsAnswers
=============================================================================
