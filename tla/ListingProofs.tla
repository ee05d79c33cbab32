---------------------------- MODULE ListingProofs ----------------------------
(***************************************************************************)
(* Lemmas about what is taken from a sequence, and about sequences of      *)
(* sequences joined: what the proofs about TuVisitors and SiteIndexes need *)
(* of the operators they are written with.                                 *)
(***************************************************************************)
EXTENDS Listing, SequencesExt, SequenceTheorems, FiniteSetTheorems, WellFoundedInduction, TLAPS

-----------------------------------------------------------------------------
(* Induction, over a set of numbers.                                         *)

Below == {ss \in Nat \X Nat : ss[1] < ss[2]}

LEMMA BelowWellFounded == IsWellFoundedOn(Below, Nat)
  BY NatLessThanWellFounded DEF Below, OpToRel

\* A set of numbers that is not empty has a least member.
LEMMA LeastNat ==
  ASSUME NEW T \in SUBSET Nat, T # {}
  PROVE  \E x \in T : \A y \in T : x <= y
<1>1. PICK x \in T : \A y \in T : <<y, x>> \notin Below
  <2>1. \E x \in T : \A y \in T : ~ (<<y, x>> \in Below)
    BY BelowWellFounded, WFMin, Zenon
  <2> QED BY <2>1
<1>2. \A y \in Nat : y < x => <<y, x>> \in Below
  BY DEF Below
<1>3. \A y \in T : ~ (y < x)
  BY <1>1, <1>2
<1> QED BY <1>3

\* What holds of 0 and passes from each number to the next holds of all.
LEMMA SetInduction ==
  ASSUME NEW T, 0 \in T, \A n \in Nat : n \in T => n + 1 \in T
  PROVE  \A n \in Nat : n \in T
<1> DEFINE C == {n \in Nat : n \notin T}
<1>1. SUFFICES ASSUME C # {} PROVE FALSE
  OBVIOUS
<1>2. PICK x \in C : \A y \in C : x <= y
  BY <1>1, LeastNat
<1>3. x # 0 /\ x - 1 \in Nat /\ x - 1 \notin C
  BY <1>2
<1> QED BY <1>2, <1>3

-----------------------------------------------------------------------------
(* Numbers in order, and the elements at their places.                       *)

\* f is what InOrder computes for the numbers up to n.
Picks(f, I, n) ==
  f = [m \in 0..n |->
         IF m = 0 THEN << >> ELSE IF m \in I THEN Append(f[m-1], m) ELSE f[m-1]]

LEMMA PicksExists ==
  ASSUME NEW I
  PROVE  \A n \in Nat : \E f : Picks(f, I, n)
<1> DEFINE T == {n \in Nat : \E f : Picks(f, I, n)}
<1>1. 0 \in T
  <2>1. Picks([m \in 0..0 |-> << >>], I, 0)
    BY DEF Picks
  <2> QED BY <2>1
<1>2. ASSUME NEW n \in Nat, n \in T PROVE n + 1 \in T
  <2>1. PICK f : Picks(f, I, n)
    BY <1>2
  <2> DEFINE g == [m \in 0..n+1 |->
                     IF m = n + 1 THEN IF m \in I THEN Append(f[n], m) ELSE f[n] ELSE f[m]]
  <2>2. \A m \in 0..n : f[m] = IF m = 0 THEN << >>
                               ELSE IF m \in I THEN Append(f[m-1], m) ELSE f[m-1]
    BY <2>1 DEF Picks
  <2>3. \A m \in 0..n+1 : g[m] = IF m = 0 THEN << >>
                                 ELSE IF m \in I THEN Append(g[m-1], m) ELSE g[m-1]
    BY <2>2
  <2>4. Picks(g, I, n + 1)
    BY <2>3 DEF Picks
  <2> QED BY <2>4
<1>3. \A n \in Nat : n \in T
  <2> HIDE DEF T
  <2> QED BY <1>1, <1>2, SetInduction
<1> QED BY <1>3

LEMMA PicksAgree ==
  ASSUME NEW I, NEW J, NEW n \in Nat, NEW k \in Nat, NEW f, NEW g,
         Picks(f, I, n), Picks(g, J, k),
         \A m \in 1..n : m <= k => (m \in I <=> m \in J)
  PROVE  \A m \in 0..n : m <= k => f[m] = g[m]
<1> DEFINE T == {m \in Nat : m <= n /\ m <= k => f[m] = g[m]}
<1>1. /\ \A m \in 0..n : f[m] = IF m = 0 THEN << >>
                                ELSE IF m \in I THEN Append(f[m-1], m) ELSE f[m-1]
      /\ \A m \in 0..k : g[m] = IF m = 0 THEN << >>
                                ELSE IF m \in J THEN Append(g[m-1], m) ELSE g[m-1]
  BY DEF Picks
<1>2. 0 \in T
  BY <1>1
<1>3. ASSUME NEW m \in Nat, m \in T PROVE m + 1 \in T
  BY <1>1, <1>3
<1>4. \A m \in Nat : m \in T
  <2> HIDE DEF T
  <2> QED BY <1>2, <1>3, SetInduction
<1> QED BY <1>4

LEMMA InOrderPicks ==
  ASSUME NEW I, NEW n \in Nat, NEW f, Picks(f, I, n)
  PROVE  InOrder(I, n) = f[n]
<1> DEFINE c == CHOOSE g : Picks(g, I, n)
<1>1. InOrder(I, n) = c[n]
  BY DEF InOrder, Picks
<1>2. Picks(c, I, n)
  BY Zenon
<1>3. c[n] = f[n]
  <2> HIDE DEF c
  <2> QED BY <1>2, PicksAgree
<1> QED BY <1>1, <1>3

\* The recursion InOrder follows, and the only numbers it looks at.
LEMMA InOrderSteps ==
  ASSUME NEW I, NEW n \in Nat
  PROVE  /\ InOrder(I, 0) = << >>
         /\ InOrder(I, n + 1) = IF n + 1 \in I THEN Append(InOrder(I, n), n + 1)
                                ELSE InOrder(I, n)
<1>1. PICK f : Picks(f, I, n + 1)
  BY PicksExists
<1>2. PICK g : Picks(g, I, n)
  BY PicksExists
<1>3. PICK h : Picks(h, I, 0)
  BY PicksExists
<1>4. f[n] = g[n]
  BY <1>1, <1>2, PicksAgree
<1>5. f[n + 1] = IF n + 1 \in I THEN Append(f[n], n + 1) ELSE f[n]
  <2>1. \A m \in 0..n+1 : f[m] = IF m = 0 THEN << >>
                                 ELSE IF m \in I THEN Append(f[m-1], m) ELSE f[m-1]
    BY <1>1 DEF Picks
  <2>2. n + 1 \in 0..n+1 /\ n + 1 # 0 /\ (n + 1) - 1 = n
    OBVIOUS
  <2> QED BY <2>1, <2>2
<1>6. h[0] = << >>
  BY <1>3 DEF Picks
<1>7. InOrder(I, n + 1) = f[n + 1] /\ InOrder(I, n) = g[n] /\ InOrder(I, 0) = h[0]
  BY <1>1, <1>2, <1>3, InOrderPicks
<1> QED BY <1>4, <1>5, <1>6, <1>7

LEMMA InOrderSame ==
  ASSUME NEW I, NEW J, NEW n \in Nat, \A m \in 1..n : m \in I <=> m \in J
  PROVE  InOrder(I, n) = InOrder(J, n)
<1>1. PICK f : Picks(f, I, n)
  BY PicksExists
<1>2. PICK g : Picks(g, J, n)
  BY PicksExists
<1>3. f[n] = g[n]
  BY <1>1, <1>2, PicksAgree
<1> QED BY <1>1, <1>2, <1>3, InOrderPicks

LEMMA InOrderType ==
  ASSUME NEW I
  PROVE  \A n \in Nat : /\ InOrder(I, n) \in Seq(Nat)
                        /\ \A k \in DOMAIN InOrder(I, n) : InOrder(I, n)[k] \in 1..n /\ InOrder(I, n)[k] \in I
<1> DEFINE T == {n \in Nat : /\ InOrder(I, n) \in Seq(Nat)
                             /\ \A k \in DOMAIN InOrder(I, n) :
                                  InOrder(I, n)[k] \in 1..n /\ InOrder(I, n)[k] \in I}
<1>1. 0 \in T
  <2>1. InOrder(I, 0) = << >>
    BY InOrderSteps
  <2>2. << >> \in Seq(Nat) /\ DOMAIN << >> = {}
    OBVIOUS
  <2> QED BY <2>1, <2>2
<1>2. ASSUME NEW n \in Nat, n \in T PROVE n + 1 \in T
  <2> DEFINE s == InOrder(I, n)
             t == InOrder(I, n + 1)
  <2>1. t = IF n + 1 \in I THEN Append(s, n + 1) ELSE s
    BY InOrderSteps
  <2>2. /\ s \in Seq(Nat)
        /\ \A k \in DOMAIN s : s[k] \in 1..n /\ s[k] \in I
    BY <1>2
  <2>3. /\ t \in Seq(Nat)
        /\ \A k \in DOMAIN t : t[k] \in 1..n+1 /\ t[k] \in I
    <3> HIDE DEF s, t
    <3> QED BY <2>1, <2>2
  <2> QED BY <2>3
<1>3. \A n \in Nat : n \in T
  <2> HIDE DEF T
  <2> QED BY <1>1, <1>2, SetInduction
<1> QED BY <1>3

\* Listed step by step: an element more at the end, and what does not count.
LEMMA ListedType ==
  ASSUME NEW S, NEW s \in Seq(S), NEW I
  PROVE  /\ Listed(s, I) \in Seq(S)
         /\ Len(Listed(s, I)) = Len(InOrder(I, Len(s)))
<1> DEFINE at == InOrder(I, Len(s))
<1>1. /\ at \in Seq(Nat)
      /\ \A k \in DOMAIN at : at[k] \in 1..Len(s)
  BY InOrderType
<1>2. Listed(s, I) = [k \in DOMAIN at |-> s[at[k]]]
  BY DEF Listed
<1> HIDE DEF at
<1>3. DOMAIN at = 1..Len(at) /\ Len(at) \in Nat
  BY <1>1
<1>4. [k \in 1..Len(at) |-> s[at[k]]] \in Seq(S)
  BY <1>1, <1>3
<1>5. Len([k \in 1..Len(at) |-> s[at[k]]]) = Len(at)
  BY <1>3
<1> QED BY <1>2, <1>3, <1>4, <1>5 DEF at

LEMMA ListedEmpty ==
  ASSUME NEW I
  PROVE  Listed(<< >>, I) = << >>
<1>1. InOrder(I, 0) = << >>
  BY InOrderSteps
<1>2. Len(<< >>) = 0
  OBVIOUS
<1> QED BY <1>1, <1>2 DEF Listed

LEMMA ListedSame ==
  ASSUME NEW S, NEW s \in Seq(S), NEW I, NEW J, \A m \in 1..Len(s) : m \in I <=> m \in J
  PROVE  Listed(s, I) = Listed(s, J)
<1>1. InOrder(I, Len(s)) = InOrder(J, Len(s))
  BY InOrderSame
<1> QED BY <1>1 DEF Listed

LEMMA ListedAppend ==
  ASSUME NEW S, NEW s \in Seq(S), NEW x \in S, NEW I
  PROVE  Listed(Append(s, x), I) = IF Len(s) + 1 \in I THEN Append(Listed(s, I), x)
                                   ELSE Listed(s, I)
<1> DEFINE n  == Len(s)
           r  == Append(s, x)
           at == InOrder(I, n)
           to == InOrder(I, n + 1)
<1>1. /\ n \in Nat /\ r \in Seq(S) /\ Len(r) = n + 1
      /\ \A i \in 1..n : r[i] = s[i]
      /\ r[n + 1] = x
  OBVIOUS
<1>2. to = IF n + 1 \in I THEN Append(at, n + 1) ELSE at
  BY InOrderSteps
<1>3. /\ at \in Seq(Nat)
      /\ \A k \in DOMAIN at : at[k] \in 1..n
  BY InOrderType
<1>4. /\ Listed(s, I) = [k \in DOMAIN at |-> s[at[k]]]
      /\ Listed(r, I) = [k \in DOMAIN to |-> r[to[k]]]
  BY <1>1 DEF Listed
<1> HIDE DEF n, r, at, to
<1>5. CASE n + 1 \notin I
  <2>1. [k \in DOMAIN at |-> r[at[k]]] = [k \in DOMAIN at |-> s[at[k]]]
    BY <1>1, <1>3
  <2> QED BY <1>2, <1>4, <1>5, <2>1 DEF r, n
<1>6. CASE n + 1 \in I
  <2>1. to = Append(at, n + 1) /\ DOMAIN at = 1..Len(at) /\ Len(at) \in Nat
    BY <1>2, <1>3, <1>6
  <2>2. DOMAIN to = 1..Len(at)+1 /\ to[Len(at)+1] = n + 1 /\ \A k \in 1..Len(at) : to[k] = at[k]
    BY <2>1, <1>3, <1>1
  <2> DEFINE f == [k \in 1..Len(at) |-> s[at[k]]]
  <2>3. f \in Seq(S) /\ Len(f) = Len(at)
    <3>1. \A k \in 1..Len(at) : s[at[k]] \in S
      BY <1>3, <2>1 DEF n
    <3> QED BY <2>1, <3>1
  <2>4. Append(f, x) = [k \in 1..Len(at)+1 |-> IF k = Len(at)+1 THEN x ELSE f[k]]
    BY <2>3, <2>1
  <2>5. [k \in 1..Len(at)+1 |-> r[to[k]]] = [k \in 1..Len(at)+1 |-> IF k = Len(at)+1 THEN x ELSE f[k]]
    <3>1. ASSUME NEW k \in 1..Len(at)+1
          PROVE  r[to[k]] = IF k = Len(at)+1 THEN x ELSE f[k]
      <4>1. CASE k = Len(at) + 1
        BY <4>1, <2>2, <1>1
      <4>2. CASE k # Len(at) + 1
        <5>1. k \in 1..Len(at) /\ to[k] = at[k]
          BY <4>2, <2>1, <2>2
        <5>2. at[k] \in 1..n
          BY <5>1, <2>1, <1>3
        <5>3. r[at[k]] = s[at[k]]
          BY <5>2, <1>1
        <5> QED BY <5>1, <5>3, <4>2
      <4> QED BY <4>1, <4>2
    <3> HIDE DEF f
    <3> QED BY <3>1
  <2> HIDE DEF f
  <2>6. Listed(r, I) = Append(f, x)
    BY <1>4, <2>2, <2>4, <2>5
  <2>7. Listed(s, I) = f
    BY <1>4, <2>1 DEF f
  <2> QED BY <2>6, <2>7, <1>6 DEF r, n
<1> QED BY <1>5, <1>6

-----------------------------------------------------------------------------
(* FlattenSeq.                                                               *)

\* f is what FlattenSeq computes for the first n sequences of ss.
Flattens(f, ss, n) ==
  f = [i \in 1..n |-> IF i = 1 THEN ss[i] ELSE f[i-1] \o ss[i]]

\* s and t have the same elements as far as n and k both reach.
Alike(s, t, n, k) == \A m \in 1..n : m <= k => s[m] = t[m]

LEMMA FlattensExists ==
  ASSUME NEW ss
  PROVE  \A n \in Nat : \E f : Flattens(f, ss, n)
<1> DEFINE T == {n \in Nat : \E f : Flattens(f, ss, n)}
<1>1. 0 \in T
  <2>1. Flattens([i \in 1..0 |-> << >>], ss, 0)
    BY DEF Flattens
  <2> QED BY <2>1
<1>2. ASSUME NEW n \in Nat, n \in T PROVE n + 1 \in T
  <2>1. PICK f : Flattens(f, ss, n)
    BY <1>2
  <2> DEFINE g == [i \in 1..n+1 |->
                     IF i = n + 1 THEN IF i = 1 THEN ss[i] ELSE f[n] \o ss[i] ELSE f[i]]
  <2>2. \A i \in 1..n : f[i] = IF i = 1 THEN ss[i] ELSE f[i-1] \o ss[i]
    BY <2>1 DEF Flattens
  <2>3. \A i \in 1..n+1 : g[i] = IF i = 1 THEN ss[i] ELSE g[i-1] \o ss[i]
    BY <2>2
  <2>4. Flattens(g, ss, n + 1)
    BY <2>3 DEF Flattens
  <2> QED BY <2>4
<1>3. \A n \in Nat : n \in T
  <2> HIDE DEF T
  <2> QED BY <1>1, <1>2, SetInduction
<1> QED BY <1>3

LEMMA FlattensAgree ==
  ASSUME NEW ss, NEW tt, NEW n \in Nat, NEW k \in Nat, NEW f, NEW g,
         Flattens(f, ss, n), Flattens(g, tt, k), Alike(ss, tt, n, k)
  PROVE  Alike(f, g, n, k)
<1> USE DEF Alike
<1> DEFINE T == {m \in Nat : m >= 1 /\ m <= n /\ m <= k => f[m] = g[m]}
<1>1. /\ \A i \in 1..n : f[i] = IF i = 1 THEN ss[i] ELSE f[i-1] \o ss[i]
      /\ \A i \in 1..k : g[i] = IF i = 1 THEN tt[i] ELSE g[i-1] \o tt[i]
  BY DEF Flattens
<1>2. 0 \in T
  OBVIOUS
<1>3. ASSUME NEW m \in Nat, m \in T PROVE m + 1 \in T
  BY <1>1, <1>3
<1>4. \A m \in Nat : m \in T
  <2> HIDE DEF T
  <2> QED BY <1>2, <1>3, SetInduction
<1> QED BY <1>4

LEMMA FlattenPicks ==
  ASSUME NEW ss, NEW f, Len(ss) \in Nat, Len(ss) # 0, Flattens(f, ss, Len(ss))
  PROVE  FlattenSeq(ss) = f[Len(ss)]
<1> DEFINE c == CHOOSE g : Flattens(g, ss, Len(ss))
<1>1. FlattenSeq(ss) = c[Len(ss)]
  BY DEF FlattenSeq, Flattens
<1>2. Flattens(c, ss, Len(ss))
  BY Zenon
<1>3. c[Len(ss)] = f[Len(ss)]
  <2> HIDE DEF c
  <2>1. Alike(ss, ss, Len(ss), Len(ss))
    BY DEF Alike
  <2>2. Alike(c, f, Len(ss), Len(ss))
    BY <1>2, <2>1, FlattensAgree
  <2>3. Len(ss) \in 1..Len(ss) /\ Len(ss) <= Len(ss)
    OBVIOUS
  <2> QED BY <2>2, <2>3 DEF Alike
<1> QED BY <1>1, <1>3

LEMMA FlattenAppend ==
  ASSUME NEW S, NEW ss \in Seq(Seq(S)), NEW t \in Seq(S)
  PROVE  /\ FlattenSeq(<< >>) = << >>
         /\ FlattenSeq(Append(ss, t)) = FlattenSeq(ss) \o t
<1> DEFINE n  == Len(ss)
           tt == Append(ss, t)
<1>1. FlattenSeq(<< >>) = << >>
  BY DEF FlattenSeq
<1>2. /\ n \in Nat /\ Len(tt) = n + 1
      /\ \A i \in 1..n : tt[i] = ss[i]
      /\ tt[n + 1] = t
  OBVIOUS
<1> HIDE DEF n, tt
<1>0. n \in Nat /\ n + 1 \in Nat
  BY <1>2
<1>3. PICK f : Flattens(f, tt, n + 1)
  BY FlattensExists, <1>0, Zenon
<1>4. PICK g : Flattens(g, ss, n)
  BY FlattensExists, <1>0, Zenon
<1>5. FlattenSeq(tt) = f[n + 1]
  <2>1. Len(tt) \in Nat /\ Len(tt) # 0 /\ Flattens(f, tt, Len(tt))
    BY <1>2, <1>3
  <2> QED BY <2>1, <1>2, FlattenPicks
<1>6. f[n + 1] = IF n + 1 = 1 THEN tt[n + 1] ELSE f[n] \o tt[n + 1]
  <2>1. \A i \in 1..n+1 : f[i] = IF i = 1 THEN tt[i] ELSE f[i-1] \o tt[i]
    BY <1>3 DEF Flattens
  <2>2. n + 1 \in 1..n+1 /\ (n + 1) - 1 = n
    BY <1>2
  <2> QED BY <2>1, <2>2
<1>7. CASE n = 0
  <2>1. ss = << >>
    BY <1>7 DEF n
  <2> QED BY <1>1, <1>2, <1>5, <1>6, <1>7, <2>1 DEF tt
<1>8. CASE n # 0
  <2>1. FlattenSeq(ss) = g[n]
    BY <1>4, <1>8, <1>2, FlattenPicks DEF n
  <2>2. f[n] = g[n]
    <3>1. \A m \in 1..n+1 : m <= n => tt[m] = ss[m]
      BY <1>2
    <3>2. Alike(tt, ss, n + 1, n)
      BY <3>1 DEF Alike
    <3>3. Alike(f, g, n + 1, n)
      BY <3>2, <1>0, <1>3, <1>4, FlattensAgree, Zenon
    <3>4. n \in 1..n+1 /\ n <= n
      BY <1>0, <1>8
    <3> QED BY <3>3, <3>4 DEF Alike
  <2> QED BY <1>1, <1>2, <1>5, <1>6, <1>8, <2>1, <2>2 DEF tt
<1> QED BY <1>2, <1>7, <1>8

LEMMA FrontLast ==
  ASSUME NEW S, NEW s \in Seq(S), s # << >>
  PROVE  /\ Front(s) \in Seq(S) /\ Last(s) \in S
         /\ s = Append(Front(s), Last(s))
         /\ Len(Front(s)) = Len(s) - 1
<1>1. Len(s) \in Nat /\ Len(s) # 0
  OBVIOUS
<1>2. /\ Front(s) \in Seq(S) /\ Len(Front(s)) = Len(s) - 1
      /\ \A i \in 1..Len(s)-1 : Front(s)[i] = s[i]
  <2> DEFINE n == Len(s) - 1
  <2>1. n \in Int /\ 1 \in Int /\ \A i \in 1..n : s[i] \in S
    BY <1>1
  <2>2. n - 1 + 1 = n /\ \A i \in 1..n : 1 + i - 1 = i
    BY <1>1
  <2>3. /\ SubSeq(s, 1, n) \in Seq(S)
        /\ Len(SubSeq(s, 1, n)) = IF 1 <= n THEN n - 1 + 1 ELSE 0
        /\ \A i \in 1..n-1+1 : SubSeq(s, 1, n)[i] = s[1+i-1]
    <3> HIDE DEF n
    <3> QED BY <2>1, SubSeqProperties
  <2> QED BY <1>1, <2>2, <2>3 DEF Front
<1>3. Last(s) = s[Len(s)] /\ s[Len(s)] \in S
  BY <1>1 DEF Last
<1>4. s = Append(Front(s), Last(s))
  BY <1>1, <1>2, <1>3
<1> QED BY <1>2, <1>3, <1>4

LEMMA FrontAppend ==
  ASSUME NEW S, NEW s \in Seq(S), NEW x \in S
  PROVE  Front(Append(s, x)) = s /\ Last(Append(s, x)) = x /\ Append(s, x) # << >>
<1> DEFINE t == Append(s, x)
<1>1. t \in Seq(S) /\ Len(t) = Len(s) + 1 /\ t[Len(t)] = x /\ t # << >>
  OBVIOUS
<1>2. \A i \in 1..Len(s) : t[i] = s[i]
  OBVIOUS
<1> HIDE DEF t
<1>3. /\ Front(t) \in Seq(S) /\ Len(Front(t)) = Len(s)
      /\ \A i \in 1..Len(s) : Front(t)[i] = t[i]
  BY <1>1 DEF Front
<1>4. Front(t) = s
  BY <1>2, <1>3
<1> QED BY <1>1, <1>4 DEF Last, t

LEMMA ReplaceLast ==
  ASSUME NEW S, NEW s \in Seq(S), s # << >>, NEW x \in S
  PROVE  [s EXCEPT ![Len(s)] = x] = Append(Front(s), x)
<1> DEFINE a == [s EXCEPT ![Len(s)] = x]
           b == Append(Front(s), x)
<1>1. /\ Len(s) \in Nat /\ Len(s) # 0
      /\ s = Append(Front(s), Last(s)) /\ Front(s) \in Seq(S) /\ Last(s) \in S
      /\ Len(Front(s)) = Len(s) - 1
  BY FrontLast
<1>2. \A i \in 1..Len(s)-1 : s[i] = Front(s)[i]
  <2> DEFINE f == Front(s)
  <2> HIDE DEF f
  <2> QED BY <1>1 DEF f
<1>3. /\ b \in Seq(S) /\ Len(b) = Len(s) /\ b[Len(s)] = x
      /\ \A i \in 1..Len(s)-1 : b[i] = s[i]
  <2> DEFINE f == Front(s)
  <2>1. f \in Seq(S) /\ Len(f) = Len(s) - 1 /\ \A i \in 1..Len(s)-1 : s[i] = f[i]
    BY <1>1, <1>2
  <2> HIDE DEF f
  <2> QED BY <1>1, <2>1 DEF f
<1>4. /\ a \in Seq(S) /\ Len(a) = Len(s) /\ a[Len(s)] = x
      /\ \A i \in 1..Len(s)-1 : a[i] = s[i]
  BY <1>1
<1>5. \A i \in 1..Len(a) : a[i] = b[i]
  BY <1>1, <1>3, <1>4
<1> HIDE DEF a, b
<1>6. a = b
  BY <1>3, <1>4, <1>5, SeqEqual
<1> QED BY <1>6 DEF a, b

LEMMA FlattenType ==
  ASSUME NEW S
  PROVE  \A ss \in Seq(Seq(S)) : FlattenSeq(ss) \in Seq(S)
<1> DEFINE T == {n \in Nat : \A ss \in Seq(Seq(S)) : Len(ss) = n => FlattenSeq(ss) \in Seq(S)}
<1>1. 0 \in T
  <2>1. \A ss \in Seq(Seq(S)) : Len(ss) = 0 => ss = << >>
    OBVIOUS
  <2>2. FlattenSeq(<< >>) \in Seq(S)
    BY DEF FlattenSeq
  <2> QED BY <2>1, <2>2
<1>2. ASSUME NEW n \in Nat, n \in T PROVE n + 1 \in T
  <2>1. SUFFICES ASSUME NEW ss \in Seq(Seq(S)), Len(ss) = n + 1
                 PROVE  FlattenSeq(ss) \in Seq(S)
    OBVIOUS
  <2>2. /\ Front(ss) \in Seq(Seq(S)) /\ Last(ss) \in Seq(S)
        /\ ss = Append(Front(ss), Last(ss))
        /\ Len(Front(ss)) = n
    <3>1. ss # << >>
      BY <2>1
    <3>2. (n + 1) - 1 = n
      OBVIOUS
    <3> QED BY <3>1, <3>2, <2>1, FrontLast
  <2>3. FlattenSeq(ss) = FlattenSeq(Front(ss)) \o Last(ss)
    BY <2>2, FlattenAppend
  <2>4. FlattenSeq(Front(ss)) \in Seq(S)
    BY <1>2, <2>2
  <2> QED BY <2>2, <2>3, <2>4
<1>3. \A n \in Nat : n \in T
  <2> HIDE DEF T
  <2> QED BY <1>1, <1>2, SetInduction
<1> QED BY <1>3

-----------------------------------------------------------------------------
(* What is listed, and how often.                                            *)

\* A function on 1..n is a sequence of its values.
LEMMA AsSeq ==
  ASSUME NEW n \in Nat, NEW s, s = [i \in 1..n |-> s[i]], NEW S, \A i \in 1..n : s[i] \in S
  PROVE  s \in Seq(S) /\ Len(s) = n /\ DOMAIN s = 1..n
<1> DEFINE t == [i \in 1..n |-> s[i]]
<1>1. t \in Seq(S) /\ Len(t) = n /\ DOMAIN t = 1..n
  OBVIOUS
<1>2. s = t
  OBVIOUS
<1> HIDE DEF t
<1> QED BY <1>1, <1>2

\* Induction over the sequences of a set.
LEMMA SeqInduction ==
  ASSUME NEW S, NEW T, << >> \in T,
         \A s \in Seq(S) : \A x \in S : s \in T => Append(s, x) \in T
  PROVE  \A s \in Seq(S) : s \in T
<1> DEFINE G == {n \in Nat : \A s \in Seq(S) : Len(s) = n => s \in T}
<1>1. 0 \in G
  <2>1. \A s \in Seq(S) : Len(s) = 0 => s = << >>
    OBVIOUS
  <2> QED BY <2>1
<1>2. ASSUME NEW n \in Nat, n \in G PROVE n + 1 \in G
  <2>1. SUFFICES ASSUME NEW s \in Seq(S), Len(s) = n + 1
                 PROVE  s \in T
    OBVIOUS
  <2>2. s # << >>
    BY <2>1
  <2>3. /\ Front(s) \in Seq(S) /\ Last(s) \in S /\ s = Append(Front(s), Last(s))
        /\ Len(Front(s)) = Len(s) - 1
    BY <2>2, FrontLast
  <2>4. Len(Front(s)) = n
    BY <2>1, <2>3
  <2>5. Front(s) \in T
    BY <1>2, <2>3, <2>4
  <2> QED BY <2>3, <2>5
<1>3. \A n \in Nat : n \in G
  <2> HIDE DEF G
  <2> QED BY <1>1, <1>2, SetInduction
<1>4. \A s \in Seq(S) : Len(s) \in Nat
  OBVIOUS
<1> QED BY <1>3, <1>4

\* The places of a sequence are finitely many, and one more at the end is one
\* more in the count.
LEMMA PlacesFinite ==
  ASSUME NEW S, NEW s \in Seq(S), NEW Q, Q \subseteq DOMAIN s
  PROVE  IsFiniteSet(Q) /\ Cardinality(Q) \in Nat
<1>1. IsFiniteSet(DOMAIN s)
  <2>1. DOMAIN s = 1..Len(s) /\ Len(s) \in Nat
    OBVIOUS
  <2> QED BY <2>1, FS_Interval
<1> QED BY <1>1, FS_Subset, FS_CardinalityType

LEMMA TimesSteps ==
  ASSUME NEW S, NEW s \in Seq(S), NEW x, NEW y \in S
  PROVE  /\ Times(x, s) \in Nat
         /\ Times(x, << >>) = 0
         /\ Times(x, Append(s, y)) = Times(x, s) + IF x = y THEN 1 ELSE 0
<1> DEFINE Q == {i \in DOMAIN s : s[i] = x}
           t == Append(s, y)
           R == {i \in DOMAIN t : t[i] = x}
           n == Len(s)
<1>1. /\ n \in Nat /\ DOMAIN s = 1..n /\ DOMAIN t = 1..n+1
      /\ \A i \in 1..n : t[i] = s[i]
      /\ t[n+1] = y
  OBVIOUS
<1>2. IsFiniteSet(Q) /\ Cardinality(Q) \in Nat
  BY PlacesFinite
<1>3. R = IF x = y THEN Q \cup {n+1} ELSE Q
  <2> HIDE DEF t, n
  <2> QED BY <1>1
<1>4. n+1 \notin Q
  BY <1>1
<1>5. Cardinality(R) = Cardinality(Q) + IF x = y THEN 1 ELSE 0
  <2>1. Cardinality(Q \cup {n+1}) = Cardinality(Q) + 1
    <3> HIDE DEF Q, n
    <3> QED BY <1>2, <1>4, FS_AddElement
  <2> HIDE DEF Q, R, n
  <2> QED BY <1>2, <1>3, <2>1
<1>6. Times(x, << >>) = 0
  <2>1. {i \in DOMAIN << >> : << >>[i] = x} = {}
    OBVIOUS
  <2> QED BY <2>1, FS_EmptySet DEF Times
<1> QED BY <1>2, <1>5, <1>6 DEF Times

\* What a concatenation holds, its parts hold.
LEMMA TimesConcat ==
  ASSUME NEW S, NEW s \in Seq(S), NEW t \in Seq(S), NEW x
  PROVE  Times(x, s \o t) = Times(x, s) + Times(x, t)
<1> DEFINE T == {r \in Seq(S) : Times(x, s \o r) = Times(x, s) + Times(x, r)}
<1>0. Times(x, s) \in Nat /\ Times(x, << >>) = 0
  <2>1. CASE S = {}
    <3>1. s = << >>
      BY <2>1
    <3>2. {i \in DOMAIN << >> : << >>[i] = x} = {}
      OBVIOUS
    <3>3. Times(x, << >>) = 0
      BY <3>2, FS_EmptySet DEF Times
    <3> QED BY <3>1, <3>3
  <2>2. CASE S # {}
    <3>1. PICK y \in S : TRUE
      BY <2>2
    <3> QED BY <3>1, TimesSteps
  <2> QED BY <2>1, <2>2
<1>1. << >> \in T
  <2>1. s \o << >> = s
    OBVIOUS
  <2> QED BY <1>0, <2>1
<1>2. ASSUME NEW r \in Seq(S), NEW y \in S, r \in T PROVE Append(r, y) \in T
  <2>1. s \o Append(r, y) = Append(s \o r, y) /\ s \o r \in Seq(S) /\ Append(r, y) \in Seq(S)
    OBVIOUS
  <2>2. Times(x, Append(s \o r, y)) = Times(x, s \o r) + IF x = y THEN 1 ELSE 0
    <3> DEFINE p == s \o r
    <3>1. p \in Seq(S)
      BY <2>1
    <3> HIDE DEF p
    <3>2. Times(x, Append(p, y)) = Times(x, p) + IF x = y THEN 1 ELSE 0
      BY <3>1, TimesSteps
    <3> QED BY <3>2 DEF p
  <2>3. /\ Times(x, Append(r, y)) = Times(x, r) + IF x = y THEN 1 ELSE 0
        /\ Times(x, r) \in Nat
    BY TimesSteps
  <2>4. Times(x, s \o r) = Times(x, s) + Times(x, r)
    BY <1>2
  <2>5. Times(x, s \o Append(r, y)) = Times(x, s) + Times(x, Append(r, y))
    BY <1>0, <2>1, <2>2, <2>3, <2>4
  <2> QED BY <2>1, <2>5
<1>3. \A r \in Seq(S) : r \in T
  <2> HIDE DEF T
  <2> QED BY <1>1, <1>2, SeqInduction
<1> QED BY <1>3

\* The places that are listed are those of the set, each once and in order.
LEMMA InOrderPlaces ==
  ASSUME NEW I
  PROVE  \A n \in Nat : \A i : (\E k \in DOMAIN InOrder(I, n) : InOrder(I, n)[k] = i) <=> i \in I /\ i \in 1..n
<1> DEFINE Holds(i, n) == \E k \in DOMAIN InOrder(I, n) : InOrder(I, n)[k] = i
           T == {n \in Nat : \A i : Holds(i, n) <=> i \in I /\ i \in 1..n}
<1>1. 0 \in T
  <2>1. InOrder(I, 0) = << >>
    BY InOrderSteps
  <2>2. DOMAIN << >> = {}
    OBVIOUS
  <2> QED BY <2>1, <2>2
<1>2. ASSUME NEW n \in Nat, n \in T PROVE n + 1 \in T
  <2> DEFINE s == InOrder(I, n)
             t == InOrder(I, n + 1)
  <2>1. t = IF n + 1 \in I THEN Append(s, n + 1) ELSE s
    BY InOrderSteps
  <2>2. s \in Seq(Nat)
    BY InOrderType
  <2>3. \A i : (\E k \in DOMAIN s : s[k] = i) <=> i \in I /\ i \in 1..n
    BY <1>2
  <2>4. ASSUME NEW i
        PROVE  (\E k \in DOMAIN t : t[k] = i) <=> i \in I /\ i \in 1..n+1
    <3> HIDE DEF s, t
    <3>1. CASE n + 1 \notin I
      <4>1. t = s
        BY <2>1, <3>1
      <4>2. i \in I => (i \in 1..n <=> i \in 1..n+1)
        BY <3>1
      <4> QED BY <4>1, <4>2, <2>3
    <3>2. CASE n + 1 \in I
      <4>1. t = Append(s, n + 1)
        BY <2>1, <3>2
      <4>2. /\ DOMAIN s = 1..Len(s) /\ Len(s) \in Nat /\ DOMAIN t = 1..Len(s)+1
            /\ t[Len(s)+1] = n + 1
            /\ \A k \in 1..Len(s) : t[k] = s[k]
        BY <4>1, <2>2
      <4>3. (\E k \in DOMAIN t : t[k] = i) <=> (\E k \in DOMAIN s : s[k] = i) \/ i = n + 1
        BY <4>2
      <4>4. i \in I /\ i \in 1..n+1 <=> (i \in I /\ i \in 1..n) \/ i = n + 1
        BY <3>2
      <4> QED BY <4>3, <4>4, <2>3
    <3> QED BY <3>1, <3>2
  <2> QED BY <2>4
<1>3. \A n \in Nat : n \in T
  <2> HIDE DEF T
  <2> QED BY <1>1, <1>2, SetInduction
<1> QED BY <1>3

\* How often something is listed, and that what is listed of a list is listed of
\* the whole.
LEMMA TimesListed ==
  ASSUME NEW S, NEW x, NEW I
  PROVE  \A s \in Seq(S) : Times(x, Listed(s, I)) = Cardinality({i \in DOMAIN s : i \in I /\ s[i] = x})
<1> DEFINE At(s) == {i \in DOMAIN s : i \in I /\ s[i] = x}
           T == {s \in Seq(S) : Times(x, Listed(s, I)) = Cardinality(At(s))}
<1>1. << >> \in T
  <2>1. Listed(<< >>, I) = << >>
    BY ListedEmpty
  <2>2. At(<< >>) = {} /\ {i \in DOMAIN << >> : << >>[i] = x} = {}
    OBVIOUS
  <2> HIDE DEF At
  <2>3. << >> \in Seq(S)
    OBVIOUS
  <2> QED BY <2>1, <2>2, <2>3 DEF Times
<1>2. ASSUME NEW s \in Seq(S), NEW y \in S, s \in T PROVE Append(s, y) \in T
  <2> DEFINE n == Len(s)
             t == Append(s, y)
             l == Listed(s, I)
  <2>1. /\ n \in Nat /\ DOMAIN s = 1..n /\ DOMAIN t = 1..n+1 /\ t \in Seq(S)
        /\ \A i \in 1..n : t[i] = s[i]
        /\ t[n+1] = y
    OBVIOUS
  <2>2. Listed(t, I) = IF n + 1 \in I THEN Append(l, y) ELSE l
    BY ListedAppend
  <2>3. l \in Seq(S)
    BY ListedType
  <2>4. Times(x, l) = Cardinality(At(s))
    BY <1>2
  <2>5. /\ Times(x, Append(l, y)) = Times(x, l) + IF x = y THEN 1 ELSE 0
    <3> HIDE DEF l
    <3> QED BY <2>3, TimesSteps
  <2>6. IsFiniteSet(At(s)) /\ Cardinality(At(s)) \in Nat
    BY PlacesFinite
  <2>7. At(t) = IF n + 1 \in I /\ x = y THEN At(s) \cup {n+1} ELSE At(s)
    <3> HIDE DEF t, n
    <3> QED BY <2>1
  <2>8. n + 1 \notin At(s)
    BY <2>1
  <2>9. Cardinality(At(s) \cup {n+1}) = Cardinality(At(s)) + 1
    <3> HIDE DEF At, n
    <3> QED BY <2>6, <2>8, FS_AddElement
  <2> HIDE DEF At, n, t, l
  <2>10. Times(x, Listed(t, I)) = Cardinality(At(t))
    BY <2>2, <2>4, <2>5, <2>6, <2>7, <2>9
  <2> QED BY <2>1, <2>10 DEF t
<1>3. \A s \in Seq(S) : s \in T
  <2> HIDE DEF T
  <2> QED BY <1>1, <1>2, SeqInduction
<1> QED BY <1>3

(* The places of s that hold an element of P.                                *)
Where(s, P) == {k \in DOMAIN s : s[k] \in P}

LEMMA ListedTwice ==
  ASSUME NEW S, NEW I, NEW P
  PROVE  \A s \in Seq(S) : Listed(Listed(s, I), Where(Listed(s, I), P)) = Listed(s, I \cap Where(s, P))
<1> DEFINE K(s) == {k \in DOMAIN s : s[k] \in P}
           J(s) == {i \in DOMAIN s : i \in I /\ s[i] \in P}
           T == {s \in Seq(S) : Listed(Listed(s, I), K(Listed(s, I))) = Listed(s, J(s))}
<1>1. << >> \in T
  <2>1. << >> \in Seq(S)
    OBVIOUS
  <2> HIDE DEF K, J
  <2> QED BY <2>1, ListedEmpty
<1>2. ASSUME NEW s \in Seq(S), NEW y \in S, s \in T PROVE Append(s, y) \in T
  <2> DEFINE n == Len(s)
             t == Append(s, y)
             l == Listed(s, I)
             m == Len(l)
  <2>1. /\ n \in Nat /\ DOMAIN s = 1..n /\ DOMAIN t = 1..n+1 /\ t \in Seq(S)
        /\ \A i \in 1..n : t[i] = s[i]
        /\ t[n+1] = y
    OBVIOUS
  <2>2. Listed(t, I) = IF n + 1 \in I THEN Append(l, y) ELSE l
    BY ListedAppend
  <2>3. l \in Seq(S)
    BY ListedType
  <2>4. Listed(l, K(l)) = Listed(s, J(s))
    BY <1>2
  <2>5. Listed(t, J(t)) = IF n + 1 \in J(t) THEN Append(Listed(s, J(t)), y) ELSE Listed(s, J(t))
    <3> HIDE DEF J
    <3> QED BY <2>1, ListedAppend
  <2>6. Listed(s, J(t)) = Listed(s, J(s))
    <3>1. \A i \in 1..n : i \in J(t) <=> i \in J(s)
      <4> HIDE DEF t, n
      <4> QED BY <2>1
    <3> HIDE DEF J
    <3> QED BY <3>1, ListedSame
  <2>7. n + 1 \in J(t) <=> n + 1 \in I /\ y \in P
    <3> HIDE DEF t, n
    <3> QED BY <2>1
  <2>8. CASE n + 1 \notin I
    <3>1. Listed(t, I) = l
      BY <2>2, <2>8
    <3> HIDE DEF J, K, l, t
    <3>2. Listed(Listed(t, I), K(Listed(t, I))) = Listed(t, J(t))
      BY <3>1, <2>4, <2>5, <2>6, <2>7, <2>8
    <3> QED BY <2>1, <3>2 DEF t
  <2>9. CASE n + 1 \in I
    <3> DEFINE q == Append(l, y)
    <3>1. Listed(t, I) = q
      BY <2>2, <2>9
    <3> HIDE DEF l
    <3>2. /\ m \in Nat /\ DOMAIN l = 1..m /\ DOMAIN q = 1..m+1
          /\ \A i \in 1..m : q[i] = l[i]
          /\ q[m+1] = y
      BY <2>3
    <3>3. Listed(q, K(q)) = IF m + 1 \in K(q) THEN Append(Listed(l, K(q)), y) ELSE Listed(l, K(q))
      <4> HIDE DEF K
      <4> QED BY <2>3, ListedAppend
    <3> HIDE DEF q, m
    <3>4. \A i \in 1..m : i \in K(q) <=> i \in K(l)
      BY <3>2
    <3>5. Listed(l, K(q)) = Listed(l, K(l))
      <4> HIDE DEF K
      <4> QED BY <2>3, <3>4, ListedSame DEF m
    <3>6. m + 1 \in K(q) <=> y \in P
      BY <3>2
    <3> HIDE DEF J, K, t
    <3>7. Listed(Listed(t, I), K(Listed(t, I))) = Listed(t, J(t))
      BY <3>1, <3>3, <3>5, <3>6, <2>4, <2>5, <2>6, <2>7, <2>9
    <3> QED BY <2>1, <3>7 DEF t
  <2> QED BY <2>8, <2>9
<1>3. \A s \in Seq(S) : s \in T
  <2> HIDE DEF T
  <2> QED BY <1>1, <1>2, SeqInduction
<1>4. \A s : K(s) = Where(s, P)
  BY DEF Where
<1>5. \A s : J(s) = I \cap Where(s, P)
  BY DEF Where
<1>6. \A s \in Seq(S) : Listed(Listed(s, I), K(Listed(s, I))) = Listed(s, J(s))
  BY <1>3
<1> HIDE DEF K, J
<1> QED BY <1>4, <1>5, <1>6

\* The places of a set, listed, and those of them in another set.
LEMMA InOrderOnly ==
  ASSUME NEW I, NEW J
  PROVE  \A n \in Nat :
           Listed(InOrder(I, n), Where(InOrder(I, n), J)) = InOrder(I \cap J, n)
<1> DEFINE K(s) == {k \in DOMAIN s : s[k] \in J}
           T == {n \in Nat : Listed(InOrder(I, n), K(InOrder(I, n))) = InOrder(I \cap J, n)}
<1>1. 0 \in T
  <2>1. InOrder(I, 0) = << >> /\ InOrder(I \cap J, 0) = << >>
    BY InOrderSteps
  <2>2. Listed(<< >>, K(<< >>)) = << >>
    <3> HIDE DEF K
    <3> QED BY ListedEmpty
  <2> HIDE DEF K
  <2> QED BY <2>1, <2>2
<1>2. ASSUME NEW n \in Nat, n \in T PROVE n + 1 \in T
  <2> DEFINE l == InOrder(I, n)
             t == InOrder(I, n + 1)
             m == Len(l)
  <2>1. t = IF n + 1 \in I THEN Append(l, n + 1) ELSE l
    BY InOrderSteps
  <2>2. InOrder(I \cap J, n + 1) = IF n + 1 \in I \cap J THEN Append(InOrder(I \cap J, n), n + 1)
                                   ELSE InOrder(I \cap J, n)
    BY InOrderSteps
  <2>3. l \in Seq(Nat)
    BY InOrderType
  <2>4. Listed(l, K(l)) = InOrder(I \cap J, n)
    BY <1>2
  <2>5. CASE n + 1 \notin I
    <3>1. t = l
      BY <2>1, <2>5
    <3> HIDE DEF K, l, t
    <3>2. Listed(t, K(t)) = InOrder(I \cap J, n + 1)
      BY <3>1, <2>2, <2>4, <2>5
    <3> QED BY <3>2 DEF t
  <2>6. CASE n + 1 \in I
    <3> DEFINE q == Append(l, n + 1)
    <3>1. t = q
      BY <2>1, <2>6
    <3> HIDE DEF l
    <3>2. /\ m \in Nat /\ DOMAIN l = 1..m /\ DOMAIN q = 1..m+1
          /\ \A i \in 1..m : q[i] = l[i]
          /\ q[m+1] = n + 1
      BY <2>3
    <3>3. Listed(q, K(q)) = IF m + 1 \in K(q) THEN Append(Listed(l, K(q)), n + 1) ELSE Listed(l, K(q))
      <4>1. n + 1 \in Nat
        OBVIOUS
      <4> DEFINE z == n + 1
      <4> HIDE DEF K, z
      <4>2. \A A : Listed(Append(l, z), A) = IF m + 1 \in A THEN Append(Listed(l, A), z) ELSE Listed(l, A)
        BY <2>3, <4>1, ListedAppend DEF z
      <4> QED BY <4>2 DEF z
    <3> HIDE DEF q, m
    <3>4. \A i \in 1..m : i \in K(q) <=> i \in K(l)
      BY <3>2
    <3>5. Listed(l, K(q)) = Listed(l, K(l))
      <4> HIDE DEF K
      <4> QED BY <2>3, <3>4, ListedSame DEF m
    <3>6. m + 1 \in K(q) <=> n + 1 \in J
      BY <3>2
    <3> HIDE DEF K, t
    <3>7. Listed(t, K(t)) = InOrder(I \cap J, n + 1)
      BY <3>1, <3>3, <3>5, <3>6, <2>2, <2>4, <2>6
    <3> QED BY <3>7 DEF t
  <2> QED BY <2>5, <2>6
<1>3. \A n \in Nat : n \in T
  <2> HIDE DEF T
  <2> QED BY <1>1, <1>2, SetInduction
<1>4. \A s : K(s) = Where(s, J)
  BY DEF Where
<1>5. \A n \in Nat : Listed(InOrder(I, n), K(InOrder(I, n))) = InOrder(I \cap J, n)
  BY <1>3
<1> HIDE DEF K
<1> QED BY <1>4, <1>5

LEMMA InOrderEmpty ==
  ASSUME NEW n \in Nat, NEW I, \A m \in 1..n : m \notin I
  PROVE  InOrder(I, n) = << >>
<1>1. InOrder(I, n) \in Seq(Nat) /\ DOMAIN InOrder(I, n) = {}
  BY InOrderPlaces, InOrderType
<1> QED BY <1>1

\* One element more, place by place.
LEMMA AppendIs ==
  ASSUME NEW S, NEW s \in Seq(S), NEW y \in S
  PROVE  Append(s, y) = [i \in 1..Len(s)+1 |-> IF i = Len(s)+1 THEN y ELSE s[i]]
<1> DEFINE t == Append(s, y)
           n == Len(s)
<1>1. /\ n \in Nat /\ t \in Seq(S) /\ Len(t) = n + 1
      /\ \A i \in 1..n : t[i] = s[i]
      /\ t[n+1] = y
  OBVIOUS
<1> HIDE DEF t, n
<1>2. t = [i \in 1..n+1 |-> t[i]]
  BY <1>1
<1>3. \A i \in 1..n+1 : t[i] = IF i = n+1 THEN y ELSE s[i]
  BY <1>1
<1>4. t = [i \in 1..n+1 |-> IF i = n+1 THEN y ELSE s[i]]
  BY <1>2, <1>3
<1> QED BY <1>4 DEF t, n

LEMMA SeqWider ==
  ASSUME NEW P, NEW Q, P \subseteq Q, NEW s \in Seq(P)
  PROVE  /\ s \in Seq(Q) /\ DOMAIN s = 1..Len(s) /\ Len(s) \in Nat
         /\ \A m \in DOMAIN s : s[m] \in P
OBVIOUS

\* A prefix, one element longer, behind a sequence.
LEMMA ConcatStep ==
  ASSUME NEW S, NEW s \in Seq(S), NEW n \in Nat, NEW v, \A m \in 1..n+1 : v[m] \in S
  PROVE  /\ s \o [m \in 1..n+1 |-> v[m]] = Append(s \o [m \in 1..n |-> v[m]], v[n+1])
         /\ s \o [m \in 1..0 |-> v[m]] = s
<1> DEFINE a == [m \in 1..n |-> v[m]]
           b == [m \in 1..n+1 |-> v[m]]
           x == v[n+1]
<1>1. a \in Seq(S) /\ Len(a) = n /\ DOMAIN a = 1..n
  <2>1. a = [m \in 1..n |-> a[m]] /\ \A m \in 1..n : a[m] \in S
    OBVIOUS
  <2> HIDE DEF a
  <2> QED BY <2>1, AsSeq
<1>2. b \in Seq(S) /\ Len(b) = n + 1 /\ DOMAIN b = 1..n+1
  <2>1. b = [m \in 1..n+1 |-> b[m]] /\ \A m \in 1..n+1 : b[m] \in S
    OBVIOUS
  <2> HIDE DEF b
  <2> QED BY <2>1, AsSeq
<1>3. x \in S /\ b[n+1] = x /\ \A m \in 1..n : b[m] = a[m]
  OBVIOUS
<1>4. [m \in 1..0 |-> v[m]] = << >>
  OBVIOUS
<1> HIDE DEF a, b, x
<1>5. s \o << >> = s
  OBVIOUS
<1> DEFINE p == s \o a
           q == s \o b
           r == Append(p, x)
           k == Len(s)
<1>6. /\ k \in Nat /\ p \in Seq(S) /\ Len(p) = k + n
      /\ \A i \in 1..k : p[i] = s[i]
      /\ \A i \in k+1..k+n : p[i] = a[i-k]
  BY <1>1
<1>7. /\ q \in Seq(S) /\ Len(q) = k + n + 1
      /\ \A i \in 1..k : q[i] = s[i]
      /\ \A i \in k+1..k+n+1 : q[i] = b[i-k]
  BY <1>2
<1> HIDE DEF p, q
<1>8. /\ r \in Seq(S) /\ Len(r) = k + n + 1
      /\ \A i \in 1..k+n : r[i] = p[i]
      /\ r[k+n+1] = x
  BY <1>3, <1>6
<1> HIDE DEF r, k
<1>9. \A i \in 1..k+n+1 : q[i] = r[i]
  <2>1. ASSUME NEW i \in 1..k+n+1
        PROVE  q[i] = r[i]
    <3>1. CASE i \in 1..k
      <4>1. i \in 1..k+n
        BY <1>6, <3>1
      <4> QED BY <1>6, <1>7, <1>8, <3>1, <4>1
    <3>2. CASE i \in k+1..k+n
      <4>1. i \in 1..k+n /\ i \in k+1..k+n+1 /\ i-k \in 1..n
        BY <1>6, <3>2
      <4> QED BY <1>3, <1>6, <1>7, <1>8, <3>2, <4>1
    <3>3. CASE i = k+n+1
      <4>1. i-k = n+1 /\ i \in k+1..k+n+1
        BY <1>6, <3>3
      <4> QED BY <1>3, <1>7, <1>8, <3>3, <4>1
    <3>4. i \in 1..k \/ i \in k+1..k+n \/ i = k+n+1
      BY <1>6, <2>1
    <3> QED BY <3>1, <3>2, <3>3, <3>4
  <2> QED BY <2>1
<1>10. q = r
  BY <1>6, <1>7, <1>8, <1>9
<1> QED BY <1>4, <1>5, <1>10 DEF p, q, r, a, b, x

(* x is an element of s.                                                     *)
In(x, s) == \E i \in DOMAIN s : s[i] = x

\* The elements listed are those that stand at the places.
LEMMA ListedPlaces ==
  ASSUME NEW S, NEW s \in Seq(S), NEW I, NEW x
  PROVE  In(x, Listed(s, I)) <=> \E m \in DOMAIN s : m \in I /\ s[m] = x
<1> DEFINE n == Len(s)
           at == InOrder(I, n)
<1>1. n \in Nat /\ DOMAIN s = 1..n
  OBVIOUS
<1>2. Listed(s, I) = [k \in DOMAIN at |-> s[at[k]]]
  BY DEF Listed
<1>3. \A i : (\E k \in DOMAIN at : at[k] = i) <=> i \in I /\ i \in 1..n
  BY <1>1, InOrderPlaces
<1> HIDE DEF at, n
<1>4. (\E k \in DOMAIN at : s[at[k]] = x) <=> \E m \in 1..n : m \in I /\ s[m] = x
  BY <1>3
<1> QED BY <1>1, <1>2, <1>4 DEF In

-----------------------------------------------------------------------------
(* How often something stands in several lists.                              *)

Pairs(x, f, S) == {r \in UNION {{t} \X DOMAIN f[t] : t \in S} : f[r[1]][r[2]] = x}

LEMMA OccurrencesAre ==
  ASSUME NEW x, NEW f, NEW S
  PROVE  Occurrences(x, f, S) = Cardinality(Pairs(x, f, S))
BY DEF Occurrences, Pairs

LEMMA PairsAre ==
  ASSUME NEW x, NEW f, NEW S, NEW r
  PROVE  r \in Pairs(x, f, S) <=> \E t \in S : \E m \in DOMAIN f[t] : r = <<t, m>> /\ f[t][m] = x
<1>1. ASSUME NEW t \in S, NEW m \in DOMAIN f[t], r = <<t, m>>, f[t][m] = x
      PROVE  r \in Pairs(x, f, S)
  <2>1. r \in {t} \X DOMAIN f[t] /\ r[1] = t /\ r[2] = m
    BY <1>1
  <2> QED BY <1>1, <2>1 DEF Pairs
<1>2. ASSUME r \in Pairs(x, f, S)
      PROVE  \E t \in S : \E m \in DOMAIN f[t] : r = <<t, m>> /\ f[t][m] = x
  <2>1. PICK t \in S : r \in {t} \X DOMAIN f[t]
    BY <1>2 DEF Pairs
  <2>2. PICK m \in DOMAIN f[t] : r = <<t, m>>
    BY <2>1
  <2>3. f[t][m] = x
    BY <1>2, <2>2 DEF Pairs
  <2> QED BY <2>2, <2>3
<1> QED BY <1>1, <1>2

(* Lists of Q, one for each key of S.                                        *)
AreLists(f, S, Q) == \A t \in S : f[t] \in Seq(Q)

LEMMA OccurrencesOne ==
  ASSUME NEW x, NEW f, NEW t, NEW Q, f[t] \in Seq(Q)
  PROVE  /\ Occurrences(x, f, {t}) = Times(x, f[t]) /\ Times(x, f[t]) \in Nat
         /\ IsFiniteSet(Pairs(x, f, {t}))
<1> DEFINE A == {m \in DOMAIN f[t] : f[t][m] = x}
           P == Pairs(x, f, {t})
           b == [m \in A |-> <<t, m>>]
<1>1. IsFiniteSet(A) /\ Cardinality(A) \in Nat
  <2> DEFINE s == f[t]
  <2>1. s \in Seq(Q) /\ A \subseteq DOMAIN s
    OBVIOUS
  <2> HIDE DEF A, s
  <2> QED BY <2>1, PlacesFinite
<1>2. ASSUME NEW m \in A PROVE <<t, m>> \in P
  <2>1. m \in DOMAIN f[t] /\ f[t][m] = x
    OBVIOUS
  <2> HIDE DEF P, A
  <2> QED BY <2>1, PairsAre DEF P
<1>3. ASSUME NEW r \in P PROVE \E m \in A : r = <<t, m>>
  <2>1. \E u \in {t} : \E m \in DOMAIN f[u] : r = <<u, m>> /\ f[u][m] = x
    BY PairsAre
  <2> QED BY <2>1
<1> HIDE DEF A, P
<1>4. b \in Bijection(A, P)
  <2>1. b \in [A -> P]
    BY <1>2
  <2>2. \A m, k \in A : b[m] = b[k] => m = k
    OBVIOUS
  <2>3. \A r \in P : \E m \in A : b[m] = r
    BY <1>3
  <2> HIDE DEF b
  <2>4. b \in Injection(A, P)
    <3>1. \A m, k \in A : m # k => b[m] # b[k]
      BY <2>2
    <3> QED BY <2>1, <3>1 DEF Injection, IsInjective
  <2>5. b \in Surjection(A, P)
    BY <2>1, <2>3 DEF Surjection
  <2> QED BY <2>4, <2>5 DEF Bijection
<1>5. ExistsBijection(A, P)
  BY <1>4 DEF ExistsBijection
<1>6. IsFiniteSet(P) /\ Cardinality(P) = Cardinality(A)
  BY <1>1, <1>5, FS_Bijection
<1> QED BY <1>1, <1>6, OccurrencesAre DEF A, P, Times

LEMMA PairsTogether ==
  ASSUME NEW x, NEW f, NEW S, NEW U
  PROVE  /\ Pairs(x, f, S \cup U) = Pairs(x, f, S) \cup Pairs(x, f, U)
         /\ Pairs(x, f, {}) = {}
         /\ S \cap U = {} => Pairs(x, f, S) \cap Pairs(x, f, U) = {}
<1>1. \A r : r \in Pairs(x, f, S \cup U) <=> r \in Pairs(x, f, S) \/ r \in Pairs(x, f, U)
  BY PairsAre
<1>2. \A r : r \notin Pairs(x, f, {})
  BY PairsAre
<1>3. ASSUME S \cap U = {}, NEW r, r \in Pairs(x, f, S), r \in Pairs(x, f, U)
      PROVE  FALSE
  <2>1. PICK t \in S : \E m \in DOMAIN f[t] : r = <<t, m>>
    BY <1>3, PairsAre
  <2>2. PICK u \in U : \E m \in DOMAIN f[u] : r = <<u, m>>
    BY <1>3, PairsAre
  <2> QED BY <1>3, <2>1, <2>2
<1> QED BY <1>1, <1>2, <1>3

(* What holds of no key and passes to one key more holds of finitely many.   *)
LEMMA KeysInduction ==
  ASSUME NEW K, IsFiniteSet(K), NEW T, {} \in T,
         \A S \in SUBSET K : \A t \in K : S \in T /\ t \notin S => S \cup {t} \in T
  PROVE  \A S \in SUBSET K : S \in T
<1> DEFINE N == {n \in Nat : \A S \in SUBSET K : Cardinality(S) = n => S \in T}
<1>1. \A S \in SUBSET K : IsFiniteSet(S) /\ Cardinality(S) \in Nat
  BY FS_Subset, FS_CardinalityType
<1>2. 0 \in N
  <2>1. \A S \in SUBSET K : Cardinality(S) = 0 => S = {}
    BY <1>1, FS_EmptySet
  <2> QED BY <2>1
<1>3. ASSUME NEW n \in Nat, n \in N PROVE n + 1 \in N
  <2> SUFFICES ASSUME NEW S \in SUBSET K, Cardinality(S) = n + 1 PROVE S \in T
    OBVIOUS
  <2>1. S # {}
    <3>1. n + 1 # 0
      OBVIOUS
    <3>2. Cardinality({}) = 0
      BY FS_EmptySet
    <3> QED BY <3>1, <3>2
  <2>2. PICK t \in S : TRUE
    BY <2>1
  <2> DEFINE U == S \ {t}
  <2>3. U \in SUBSET K /\ S = U \cup {t} /\ t \in K /\ t \notin U
    OBVIOUS
  <2>4. Cardinality(U) = n
    <3>1. Cardinality(U) = Cardinality(S) - 1
      BY <1>1, <2>2, FS_RemoveElement
    <3> QED BY <3>1
  <2>5. U \in T
    BY <1>3, <2>3, <2>4
  <2> HIDE DEF U
  <2> QED BY <2>3, <2>5
<1>4. \A n \in Nat : n \in N
  <2> HIDE DEF N
  <2> QED BY <1>2, <1>3, SetInduction
<1> QED BY <1>1, <1>4

LEMMA OccurrencesFinite ==
  ASSUME NEW K, IsFiniteSet(K), NEW f, NEW Q, AreLists(f, K, Q), NEW x, NEW S, S \subseteq K
  PROVE  IsFiniteSet(Pairs(x, f, S)) /\ Occurrences(x, f, S) \in Nat
<1> DEFINE T == {U \in SUBSET K : IsFiniteSet(Pairs(x, f, U))}
<1>1. {} \in T
  BY PairsTogether, FS_EmptySet
<1>2. ASSUME NEW U \in SUBSET K, NEW t \in K, U \in T, t \notin U PROVE U \cup {t} \in T
  <2>1. Pairs(x, f, U \cup {t}) = Pairs(x, f, U) \cup Pairs(x, f, {t})
    BY PairsTogether
  <2>2. IsFiniteSet(Pairs(x, f, {t})) /\ IsFiniteSet(Pairs(x, f, U))
    BY <1>2, OccurrencesOne DEF AreLists
  <2>3. IsFiniteSet(Pairs(x, f, U) \cup Pairs(x, f, {t}))
    BY <2>2, FS_Union
  <2> QED BY <2>1, <2>3
<1>3. \A U \in SUBSET K : U \in T
  <2> HIDE DEF T
  <2> QED BY <1>1, <1>2, KeysInduction
<1>4. IsFiniteSet(Pairs(x, f, S))
  BY <1>3
<1> QED BY <1>4, FS_CardinalityType, OccurrencesAre

\* The lists of two sets of keys that have none in common.
LEMMA OccurrencesTogether ==
  ASSUME NEW K, IsFiniteSet(K), NEW f, NEW Q, AreLists(f, K, Q), NEW x,
         NEW S, S \subseteq K, NEW U, U \subseteq K, S \cap U = {}
  PROVE  Occurrences(x, f, S \cup U) = Occurrences(x, f, S) + Occurrences(x, f, U)
<1>1. IsFiniteSet(Pairs(x, f, S)) /\ IsFiniteSet(Pairs(x, f, U))
  BY OccurrencesFinite
<1>2. /\ Pairs(x, f, S \cup U) = Pairs(x, f, S) \cup Pairs(x, f, U)
      /\ Pairs(x, f, S) \cap Pairs(x, f, U) = {}
  BY PairsTogether
<1>3. Cardinality(Pairs(x, f, S) \cup Pairs(x, f, U))
        = Cardinality(Pairs(x, f, S)) + Cardinality(Pairs(x, f, U))
  <2>1. PICK A, B : A = Pairs(x, f, S) /\ B = Pairs(x, f, U)
    OBVIOUS
  <2>2. Cardinality(A \cup B) = Cardinality(A) + Cardinality(B) - Cardinality(A \cap B)
    BY <1>1, <2>1, FS_Union
  <2>3. Cardinality(A \cap B) = 0
    BY <1>2, <2>1, FS_EmptySet
  <2>4. Cardinality(A) \in Nat /\ Cardinality(B) \in Nat
    BY <1>1, <2>1, FS_CardinalityType
  <2> QED BY <2>1, <2>2, <2>3, <2>4
<1> QED BY <1>2, <1>3, OccurrencesAre

\* Lists that hold x as often, key by key, as others hold y.
LEMMA OccurrencesSame ==
  ASSUME NEW K, IsFiniteSet(K), NEW f, NEW Q, AreLists(f, K, Q), NEW g, NEW R, AreLists(g, K, R),
         NEW x, NEW y, NEW S, S \subseteq K, \A t \in S : Times(x, f[t]) = Times(y, g[t])
  PROVE  Occurrences(x, f, S) = Occurrences(y, g, S)
<1>0. \A t \in K : /\ Occurrences(x, f, {t}) = Times(x, f[t])
                  /\ Occurrences(y, g, {t}) = Times(y, g[t])
  <2>1. \A t \in K : Occurrences(x, f, {t}) = Times(x, f[t])
    BY OccurrencesOne DEF AreLists
  <2>2. \A t \in K : Occurrences(y, g, {t}) = Times(y, g[t])
    BY OccurrencesOne DEF AreLists
  <2> QED BY <2>1, <2>2
<1> DEFINE T == {U \in SUBSET K : U \subseteq S => Occurrences(x, f, U) = Occurrences(y, g, U)}
<1>1. {} \in T
  <2>1. Occurrences(x, f, {}) = Occurrences(y, g, {})
    BY PairsTogether, OccurrencesAre
  <2> QED BY <2>1
<1>2. ASSUME NEW U \in SUBSET K, NEW t \in K, U \in T, t \notin U PROVE U \cup {t} \in T
  <2> SUFFICES ASSUME U \cup {t} \subseteq S
               PROVE  Occurrences(x, f, U \cup {t}) = Occurrences(y, g, U \cup {t})
    OBVIOUS
  <2>1. U \cap {t} = {} /\ {t} \subseteq K /\ U \subseteq K
    BY <1>2
  <2>2. Occurrences(x, f, U \cup {t}) = Occurrences(x, f, U) + Occurrences(x, f, {t})
    BY <2>1, OccurrencesTogether
  <2>3. Occurrences(y, g, U \cup {t}) = Occurrences(y, g, U) + Occurrences(y, g, {t})
    BY <2>1, OccurrencesTogether
  <2>4. Occurrences(x, f, {t}) = Times(x, f[t]) /\ Occurrences(y, g, {t}) = Times(y, g[t])
    BY <1>0
  <2> QED BY <1>2, <2>2, <2>3, <2>4
<1>3. \A U \in SUBSET K : U \in T
  <2> HIDE DEF T
  <2> QED BY <1>1, <1>2, KeysInduction
<1> QED BY <1>3

\* Lists of which only that of u holds x more often, by d.
LEMMA OccurrencesMore ==
  ASSUME NEW K, IsFiniteSet(K), NEW f, NEW Q, AreLists(f, K, Q), NEW g, NEW R, AreLists(g, K, R),
         NEW x, NEW u \in K, NEW d \in Nat,
         \A t \in K : Times(x, g[t]) = Times(x, f[t]) + IF t = u THEN d ELSE 0
  PROVE  Occurrences(x, g, K) = Occurrences(x, f, K) + d
<1> DEFINE V == K \ {u}
<1>1. V \subseteq K /\ {u} \subseteq K /\ V \cap {u} = {} /\ V \cup {u} = K
  OBVIOUS
<1>2. \A t \in K : Times(x, f[t]) \in Nat /\ Times(x, g[t]) \in Nat
  <2>1. \A t \in K : Times(x, f[t]) \in Nat
    BY OccurrencesOne DEF AreLists
  <2>2. \A t \in K : Times(x, g[t]) \in Nat
    BY OccurrencesOne DEF AreLists
  <2> QED BY <2>1, <2>2
<1>3. \A t \in V : Times(x, f[t]) = Times(x, g[t])
  BY <1>2
<1> HIDE DEF V
<1>4. Occurrences(x, f, V) = Occurrences(x, g, V)
  BY <1>1, <1>3, OccurrencesSame
<1>5. Occurrences(x, f, V \cup {u}) = Occurrences(x, f, V) + Occurrences(x, f, {u})
  BY <1>1, OccurrencesTogether
<1>6. Occurrences(x, g, V \cup {u}) = Occurrences(x, g, V) + Occurrences(x, g, {u})
  BY <1>1, OccurrencesTogether
<1>7. Occurrences(x, f, {u}) = Times(x, f[u]) /\ Occurrences(x, g, {u}) = Times(x, g[u])
  <2>1. \A t \in K : Occurrences(x, f, {t}) = Times(x, f[t])
    BY OccurrencesOne DEF AreLists
  <2>2. \A t \in K : Occurrences(x, g, {t}) = Times(x, g[t])
    BY OccurrencesOne DEF AreLists
  <2> QED BY <2>1, <2>2
<1>8. Occurrences(x, f, V) \in Nat
  BY <1>1, OccurrencesFinite
<1> QED BY <1>1, <1>2, <1>4, <1>5, <1>6, <1>7, <1>8

LEMMA OccurrencesNone ==
  ASSUME NEW K, IsFiniteSet(K), NEW f, NEW Q, AreLists(f, K, Q), NEW x, NEW S, S \subseteq K
  PROVE  Occurrences(x, f, S) = 0 <=> \A t \in S : Times(x, f[t]) = 0
<1>1. \A t \in K : Times(x, f[t]) \in Nat /\ Occurrences(x, f, {t}) = Times(x, f[t])
  BY OccurrencesOne DEF AreLists
<1>2. ASSUME \A t \in S : Times(x, f[t]) = 0 PROVE Occurrences(x, f, S) = 0
  <2> DEFINE g == [t \in K |-> << >>]
  <2>1. AreLists(g, K, {}) /\ \A t \in S : Times(x, f[t]) = Times(x, g[t])
    <3>1. Times(x, << >>) = 0
      <4>1. << >> \in Seq(Nat) /\ 0 \in Nat
        OBVIOUS
      <4> QED BY <4>1, TimesSteps
    <3>2. \A t \in K : g[t] = << >> /\ g[t] \in Seq({})
      OBVIOUS
    <3> HIDE DEF g
    <3> QED BY <1>2, <3>1, <3>2 DEF AreLists
  <2>2. Pairs(x, g, S) = {}
    <3>1. \A t \in S : DOMAIN g[t] = {}
      OBVIOUS
    <3> HIDE DEF g
    <3> QED BY <3>1, PairsAre
  <2> HIDE DEF g
  <2>3. Occurrences(x, f, S) = Occurrences(x, g, S)
    BY <2>1, OccurrencesSame
  <2> QED BY <2>2, <2>3, OccurrencesAre, FS_EmptySet
<1>3. ASSUME Occurrences(x, f, S) = 0, NEW t \in S PROVE Times(x, f[t]) = 0
  <2> DEFINE V == S \ {t}
  <2>1. V \subseteq K /\ {t} \subseteq K /\ V \cap {t} = {} /\ V \cup {t} = S /\ t \in K
    OBVIOUS
  <2> HIDE DEF V
  <2>2. Occurrences(x, f, V \cup {t}) = Occurrences(x, f, V) + Occurrences(x, f, {t})
    BY <2>1, OccurrencesTogether
  <2>3. Occurrences(x, f, V) \in Nat
    BY <2>1, OccurrencesFinite
  <2> QED BY <1>1, <1>3, <2>1, <2>2, <2>3
<1> QED BY <1>2, <1>3

LEMMA InOrderLen ==
  ASSUME NEW I
  PROVE  \A n \in Nat : Len(InOrder(I, n)) = Cardinality(I \cap 1..n)
<1> DEFINE A(n) == I \cap 1..n
           T == {n \in Nat : Len(InOrder(I, n)) = Cardinality(A(n))}
<1>1. 0 \in T
  <2>1. InOrder(I, 0) = << >> /\ A(0) = {}
    BY InOrderSteps
  <2> QED BY <2>1, FS_EmptySet
<1>2. ASSUME NEW n \in Nat, n \in T PROVE n + 1 \in T
  <2> DEFINE s == InOrder(I, n)
  <2>1. InOrder(I, n + 1) = IF n + 1 \in I THEN Append(s, n + 1) ELSE s
    BY InOrderSteps
  <2>2. s \in Seq(Nat) /\ Len(s) = Cardinality(A(n))
    BY <1>2, InOrderType
  <2>3. IsFiniteSet(A(n))
    <3>1. IsFiniteSet(1..n) /\ A(n) \in SUBSET (1..n)
      BY FS_Interval
    <3> QED BY <3>1, FS_Subset
  <2>4. A(n+1) = IF n + 1 \in I THEN A(n) \cup {n+1} ELSE A(n)
    OBVIOUS
  <2>5. n + 1 \notin A(n)
    OBVIOUS
  <2> HIDE DEF s, A
  <2>6. Cardinality(A(n) \cup {n+1}) = Cardinality(A(n)) + 1
    BY <2>3, <2>5, FS_AddElement
  <2>7. Len(Append(s, n + 1)) = Len(s) + 1
    BY <2>2
  <2>8. Len(InOrder(I, n + 1)) = Cardinality(A(n+1))
    BY <2>1, <2>2, <2>4, <2>6, <2>7
  <2> QED BY <2>8
<1>3. \A n \in Nat : n \in T
  <2> HIDE DEF T
  <2> QED BY <1>1, <1>2, SetInduction
<1> QED BY <1>3

Ascending(s) == \A i, j \in DOMAIN s : i < j => s[i] < s[j]

LEMMA InOrderAscending ==
  ASSUME NEW I
  PROVE  \A n \in Nat : Ascending(InOrder(I, n))
<1> DEFINE T == {n \in Nat : Ascending(InOrder(I, n))}
<1>1. 0 \in T
  BY InOrderSteps DEF Ascending
<1>2. ASSUME NEW n \in Nat, n \in T PROVE n + 1 \in T
  <2> DEFINE s == InOrder(I, n)
  <2>1. InOrder(I, n + 1) = IF n + 1 \in I THEN Append(s, n + 1) ELSE s
    BY InOrderSteps
  <2>2. s \in Seq(Nat) /\ Ascending(s) /\ \A k \in DOMAIN s : s[k] \in 1..n
    BY <1>2, InOrderType
  <2> HIDE DEF s
  <2>3. Ascending(Append(s, n + 1))
    BY <2>2 DEF Ascending
  <2>4. Ascending(InOrder(I, n + 1))
    BY <2>1, <2>2, <2>3
  <2> QED BY <2>4
<1>3. \A n \in Nat : n \in T
  <2> HIDE DEF T
  <2> QED BY <1>1, <1>2, SetInduction
<1> QED BY <1>3

Enumerates(s, I, n) == \A i : (\E k \in DOMAIN s : s[k] = i) <=> i \in I /\ i \in 1..n

\* Only one ascending sequence has the numbers up to n that are in I.
LEMMA AscendingIs ==
  ASSUME NEW n \in Nat, NEW I, NEW s \in Seq(Nat), Ascending(s), Enumerates(s, I, n)
  PROVE  s = InOrder(I, n)
<1> DEFINE T == {k \in Nat : \A t \in Seq(Nat) : Ascending(t) /\ Enumerates(t, I, k) => t = InOrder(I, k)}
<1>1. 0 \in T
  <2>1. ASSUME NEW t \in Seq(Nat), Enumerates(t, I, 0) PROVE t = << >>
    <3>1. \A i : ~ \E k \in DOMAIN t : t[k] = i
      BY <2>1 DEF Enumerates
    <3>2. DOMAIN t = {}
      BY <3>1
    <3> QED BY <3>2
  <2> QED BY <2>1, InOrderSteps
<1>2. ASSUME NEW k \in Nat, k \in T PROVE k + 1 \in T
  <2> SUFFICES ASSUME NEW t \in Seq(Nat), Ascending(t), Enumerates(t, I, k + 1)
               PROVE  t = InOrder(I, k + 1)
    OBVIOUS
  <2>1. InOrder(I, k + 1) = IF k + 1 \in I THEN Append(InOrder(I, k), k + 1) ELSE InOrder(I, k)
    BY InOrderSteps
  <2>2. CASE k + 1 \notin I
    <3>1. Enumerates(t, I, k)
      <4>1. \A i : i \in I /\ i \in 1..k+1 <=> i \in I /\ i \in 1..k
        BY <2>2
      <4> QED BY <4>1 DEF Enumerates
    <3> QED BY <1>2, <2>1, <2>2, <3>1
  <2>3. CASE k + 1 \in I
    <3> DEFINE f == Front(t)
               x == Last(t)
               m == Len(t)
    <3>1. \E j \in DOMAIN t : t[j] = k + 1
      BY <2>3 DEF Enumerates
    <3>2. t # << >>
      BY <3>1
    <3>3. f \in Seq(Nat) /\ x \in Nat /\ t = Append(f, x) /\ Len(f) = m - 1
      BY <3>2, FrontLast
    <3> HIDE DEF f, x
    <3>4. /\ m \in Nat \ {0} /\ DOMAIN t = 1..m /\ DOMAIN f = 1..m-1
          /\ \A i \in 1..m-1 : t[i] = f[i]
          /\ t[m] = x
      <4>1. Len(Append(f, x)) = Len(f) + 1 /\ Len(f) \in Nat
        BY <3>3
      <4>2. \A i \in 1..Len(f) : Append(f, x)[i] = f[i]
        BY <3>3
      <4>3. Append(f, x)[Len(f) + 1] = x
        BY <3>3
      <4> QED BY <3>3, <4>1, <4>2, <4>3
    <3> HIDE DEF m
    <3>40. \A i, j \in 1..m : i < j => t[i] < t[j]
      BY <3>4 DEF Ascending
    <3>5. \A i \in 1..m-1 : t[i] < x
      <4>1. ASSUME NEW i \in 1..m-1 PROVE t[i] < t[m]
        <5>1. i \in 1..m /\ m \in 1..m /\ i < m
          BY <3>4
        <5> QED BY <3>40, <5>1
      <4> QED BY <3>4, <4>1
    <3>6. x = k + 1
      <4>1. PICK j \in 1..m : t[j] = k + 1
        BY <3>1, <3>4
      <4>2. x \in 1..k+1
        <5>1. m \in DOMAIN t
          BY <3>4
        <5> QED BY <3>4, <5>1 DEF Enumerates
      <4> QED BY <3>3, <3>4, <3>5, <4>1, <4>2
    <3>7. Ascending(f)
      <4>1. ASSUME NEW i \in 1..m-1, NEW j \in 1..m-1, i < j PROVE f[i] < f[j]
        <5>1. i \in 1..m /\ j \in 1..m
          BY <3>4
        <5>2. t[i] < t[j] /\ t[i] = f[i] /\ t[j] = f[j]
          BY <3>4, <3>40, <4>1, <5>1
        <5> QED BY <5>2
      <4> QED BY <3>4, <4>1 DEF Ascending
    <3>8. Enumerates(f, I, k)
      <4>1. ASSUME NEW i, i \in I, i \in 1..k
            PROVE  \E j \in DOMAIN f : f[j] = i
        <5>1. PICK j \in 1..m : t[j] = i
          BY <3>4, <4>1, SMTT(20) DEF Enumerates
        <5>2. j # m
          BY <3>4, <3>6, <4>1, <5>1
        <5> QED BY <3>4, <5>1, <5>2, SMTT(20)
      <4>2. ASSUME NEW j \in DOMAIN f
            PROVE  f[j] \in I /\ f[j] \in 1..k
        <5>1. j \in DOMAIN t /\ t[j] = f[j] /\ t[j] < k + 1
          BY <3>4, <3>5, <3>6
        <5>2. t[j] \in I /\ t[j] \in 1..k+1
          BY <5>1 DEF Enumerates
        <5> QED BY <5>1, <5>2
      <4> QED BY <4>1, <4>2 DEF Enumerates
    <3>9. f = InOrder(I, k)
      BY <1>2, <3>3, <3>7, <3>8
    <3> QED BY <2>1, <2>3, <3>3, <3>6, <3>9
  <2> QED BY <2>2, <2>3
<1>3. \A k \in Nat : k \in T
  <2> HIDE DEF T
  <2> QED BY <1>1, <1>2, SetInduction
<1> QED BY <1>3

\* Nothing is left out of a list whose places are all in the set.
LEMMA ListedAll ==
  ASSUME NEW S
  PROVE  \A s \in Seq(S) : Listed(s, DOMAIN s) = s
<1> DEFINE T == {s \in Seq(S) : Listed(s, DOMAIN s) = s}
<1>1. << >> \in T
  <2>1. << >> \in Seq(S) /\ Listed(<< >>, DOMAIN << >>) = << >>
    BY ListedEmpty
  <2> QED BY <2>1
<1>2. ASSUME NEW s \in Seq(S), NEW y \in S, s \in T PROVE Append(s, y) \in T
  <2> DEFINE n == Len(s)
             t == Append(s, y)
  <2>1. n \in Nat /\ DOMAIN s = 1..n /\ DOMAIN t = 1..n+1 /\ t \in Seq(S)
    OBVIOUS
  <2>2. Listed(t, DOMAIN t) = IF n + 1 \in DOMAIN t THEN Append(Listed(s, DOMAIN t), y) ELSE Listed(s, DOMAIN t)
    <3>1. PICK I : I = DOMAIN t
      OBVIOUS
    <3>2. Listed(Append(s, y), I) = IF Len(s) + 1 \in I THEN Append(Listed(s, I), y) ELSE Listed(s, I)
      BY ListedAppend
    <3> QED BY <3>1, <3>2
  <2>3. Listed(s, DOMAIN t) = Listed(s, DOMAIN s)
    <3>1. \A m \in 1..n : m \in DOMAIN t <=> m \in DOMAIN s
      BY <2>1
    <3> QED BY <3>1, ListedSame
  <2>4. Listed(s, DOMAIN s) = s /\ n + 1 \in DOMAIN t
    BY <1>2, <2>1
  <2> HIDE DEF n, t
  <2>5. Listed(t, DOMAIN t) = Append(s, y)
    BY <2>2, <2>3, <2>4
  <2> QED BY <2>1, <2>5 DEF t
<1>3. \A s \in Seq(S) : s \in T
  <2> HIDE DEF T
  <2> QED BY <1>1, <1>2, SeqInduction
<1> QED BY <1>3

(* The same element n times.                                                 *)
Run(y, n) == [m \in 1..n |-> y]

LEMMA RunFacts ==
  ASSUME NEW y, NEW n \in Nat
  PROVE  /\ Run(y, n) \in Seq({y}) /\ Len(Run(y, n)) = n
         /\ \A x : Times(x, Run(y, n)) = IF x = y THEN n ELSE 0
<1>1. Run(y, n) \in Seq({y}) /\ Len(Run(y, n)) = n
  BY DEF Run
<1>2. ASSUME NEW x PROVE Times(x, Run(y, n)) = IF x = y THEN n ELSE 0
  <2> DEFINE A == {i \in DOMAIN Run(y, n) : Run(y, n)[i] = x}
  <2>1. A = IF x = y THEN 1..n ELSE {}
    BY DEF Run
  <2>2. Cardinality(1..n) = n /\ Cardinality({}) = 0
    BY FS_Interval, FS_EmptySet
  <2>3. Times(x, Run(y, n)) = Cardinality(A)
    BY DEF Times
  <2> HIDE DEF A
  <2> QED BY <2>1, <2>2, <2>3
<1> QED BY <1>1, <1>2

\* An element added n times at the end.
LEMMA TimesRun ==
  ASSUME NEW Q, NEW s \in Seq(Q), NEW y \in Q, NEW n \in Nat
  PROVE  /\ s \o Run(y, n) \in Seq(Q)
         /\ \A x : Times(x, s \o Run(y, n)) = Times(x, s) + IF x = y THEN n ELSE 0
<1>1. Run(y, n) \in Seq(Q)
  <2>1. Run(y, n) \in Seq({y})
    BY RunFacts
  <2> QED BY <2>1, SeqWider
<1>2. \A x : Times(x, s \o Run(y, n)) = Times(x, s) + Times(x, Run(y, n))
  BY <1>1, TimesConcat
<1>3. \A x : Times(x, Run(y, n)) = IF x = y THEN n ELSE 0
  BY RunFacts
<1>4. \A r \in Seq(Q) : s \o r \in Seq(Q)
  OBVIOUS
<1> QED BY <1>1, <1>2, <1>3, <1>4

\* An element that stands somewhere in a list is counted.
LEMMA TimesIn ==
  ASSUME NEW Q, NEW s \in Seq(Q), NEW x
  PROVE  Times(x, s) > 0 <=> \E i \in DOMAIN s : s[i] = x
<1> DEFINE A == {i \in DOMAIN s : s[i] = x}
<1>1. IsFiniteSet(A) /\ Cardinality(A) \in Nat
  <2>1. A \subseteq DOMAIN s
    OBVIOUS
  <2> HIDE DEF A
  <2> QED BY <2>1, PlacesFinite
<1>2. Cardinality(A) = 0 <=> A = {}
  BY <1>1, FS_EmptySet
<1>3. Times(x, s) = Cardinality(A)
  BY DEF Times
<1>4. A = {} <=> ~ \E i \in DOMAIN s : s[i] = x
  OBVIOUS
<1> HIDE DEF A
<1> QED BY <1>1, <1>2, <1>3, <1>4

(* Each element of order as often as R says.                                 *)
Runs(order, R) == [n \in DOMAIN order |-> Run(order[n], R[order[n]])]
Distinct(s) == \A i, j \in DOMAIN s : i # j => s[i] # s[j]

LEMMA RunsFlat ==
  ASSUME NEW K, NEW R \in [K -> Nat]
  PROVE  \A order \in Seq(K) :
           /\ FlattenSeq(Runs(order, R)) \in Seq(K)
           /\ Distinct(order) =>
                \A t \in K : Times(t, FlattenSeq(Runs(order, R)))
                               = IF \E n \in DOMAIN order : order[n] = t THEN R[t] ELSE 0
<1> DEFINE F(o) == FlattenSeq(Runs(o, R))
           Has(o, t) == \E n \in DOMAIN o : o[n] = t
           T == {o \in Seq(K) : /\ F(o) \in Seq(K)
                                /\ Distinct(o) => \A t \in K : Times(t, F(o)) = IF Has(o, t) THEN R[t] ELSE 0}
<1>1. << >> \in T
  <2>1. Runs(<< >>, R) = << >>
    BY DEF Runs
  <2>2. FlattenSeq(<< >>) = << >>
    <3>1. << >> \in Seq(Seq(K)) /\ << >> \in Seq(K)
      OBVIOUS
    <3> QED BY <3>1, FlattenAppend
  <2>3. \A t : Times(t, << >>) = 0
    <3>1. << >> \in Seq(Nat) /\ 0 \in Nat
      OBVIOUS
    <3> QED BY <3>1, TimesSteps
  <2>4. << >> \in Seq(K) /\ \A t : ~ Has(<< >>, t)
    OBVIOUS
  <2> HIDE DEF Has
  <2>5. F(<< >>) = << >>
    BY <2>1, <2>2
  <2> HIDE DEF F
  <2> QED BY <2>3, <2>4, <2>5
<1>2. ASSUME NEW s \in Seq(K), NEW y \in K, s \in T PROVE Append(s, y) \in T
  <2> DEFINE n == Len(s)
             p == Append(s, y)
             r == Runs(s, R)
             w == Run(y, R[y])
  <2>1. /\ n \in Nat /\ DOMAIN s = 1..n /\ DOMAIN p = 1..n+1 /\ p \in Seq(K)
        /\ \A i \in 1..n : p[i] = s[i]
        /\ p[n+1] = y
    OBVIOUS
  <2>2. w \in Seq(K) /\ R[y] \in Nat
    <3>1. R[y] \in Nat
      OBVIOUS
    <3>2. w \in Seq({y})
      BY <3>1, RunFacts
    <3> HIDE DEF w
    <3> QED BY <3>1, <3>2, SeqWider
  <2>3. r \in Seq(Seq(K)) /\ Len(r) = n
    <3>1. \A i \in 1..n : r[i] \in Seq(K)
      <4>1. ASSUME NEW i \in 1..n PROVE r[i] \in Seq(K)
        <5>1. s[i] \in K /\ R[s[i]] \in Nat /\ r[i] = Run(s[i], R[s[i]])
          BY <2>1 DEF Runs
        <5>2. Run(s[i], R[s[i]]) \in Seq({s[i]})
          BY <5>1, RunFacts
        <5> QED BY <5>1, <5>2, SeqWider
      <4> QED BY <4>1
    <3>2. r = [i \in 1..n |-> r[i]]
      BY <2>1 DEF Runs
    <3> HIDE DEF r
    <3> QED BY <2>1, <3>1, <3>2, AsSeq
  <2>4. Runs(p, R) = Append(r, w)
    <3>1. Append(r, w) = [i \in 1..n+1 |-> IF i = n+1 THEN w ELSE r[i]]
      <4> DEFINE Q == Seq(K)
      <4>1. r \in Seq(Q) /\ w \in Q /\ Len(r) = n
        BY <2>2, <2>3
      <4> HIDE DEF Q, r, w
      <4> QED BY <4>1, AppendIs
    <3>2. Runs(p, R) = [i \in 1..n+1 |-> Run(p[i], R[p[i]])]
      BY <2>1 DEF Runs
    <3>3. \A i \in 1..n : r[i] = Run(s[i], R[s[i]])
      BY <2>1 DEF Runs
    <3>4. \A i \in 1..n+1 : Run(p[i], R[p[i]]) = IF i = n+1 THEN w ELSE r[i]
      <4> HIDE DEF p, r, n
      <4> QED BY <2>1, <3>3
    <3> HIDE DEF r, w, p
    <3> QED BY <3>1, <3>2, <3>4
  <2>5. F(p) = F(s) \o w
    <3> HIDE DEF r, w, p
    <3>1. FlattenSeq(Append(r, w)) = FlattenSeq(r) \o w
      BY <2>2, <2>3, FlattenAppend
    <3> QED BY <2>4, <3>1 DEF r
  <2> HIDE DEF F
  <2>6. F(s) \in Seq(K)
    BY <1>2
  <2>7. /\ F(p) \in Seq(K)
        /\ \A t \in K : Times(t, F(p)) = Times(t, F(s)) + IF t = y THEN R[y] ELSE 0
    <3>1. F(s) \o Run(y, R[y]) \in Seq(K)
      BY <2>2, <2>6, TimesRun
    <3>2. \A t : Times(t, F(s) \o Run(y, R[y])) = Times(t, F(s)) + IF t = y THEN R[y] ELSE 0
      BY <2>2, <2>6, TimesRun, SMTT(20)
    <3> QED BY <2>5, <3>1, <3>2
  <2>8. ASSUME Distinct(p), NEW t \in K
        PROVE  Times(t, F(p)) = IF Has(p, t) THEN R[t] ELSE 0
    <3>0. \A i, j \in 1..n+1 : i # j => p[i] # p[j]
      BY <2>1, <2>8 DEF Distinct
    <3>1. Distinct(s)
      <4> HIDE DEF p, n
      <4> QED BY <2>1, <3>0 DEF Distinct
    <3>2. ~ Has(s, y)
      <4> HIDE DEF p, n
      <4> QED BY <2>1, <3>0
    <3>3. Has(p, t) <=> Has(s, t) \/ t = y
      <4> HIDE DEF p, n
      <4>1. ASSUME Has(p, t) PROVE Has(s, t) \/ t = y
        <5>1. PICK i \in 1..n+1 : p[i] = t
          BY <2>1, <4>1
        <5>2. i \in 1..n \/ i = n+1
          BY <2>1
        <5> QED BY <2>1, <5>1, <5>2
      <4>2. ASSUME Has(s, t) PROVE Has(p, t)
        <5>1. PICK i \in 1..n : s[i] = t
          BY <2>1, <4>2
        <5>2. i \in 1..n+1 /\ p[i] = t
          BY <2>1, <5>1
        <5> QED BY <2>1, <5>2
      <4>3. y = p[n+1] /\ n+1 \in 1..n+1
        BY <2>1
      <4>4. t = y => Has(p, t)
        BY <2>1, <4>3
      <4> QED BY <4>1, <4>2, <4>4
    <3>4. Times(t, F(s)) = IF Has(s, t) THEN R[t] ELSE 0
      BY <1>2, <3>1
    <3>5. R[t] \in Nat
      OBVIOUS
    <3> HIDE DEF Has, p
    <3> QED BY <2>7, <3>2, <3>3, <3>4, <3>5
  <2> HIDE DEF Has
  <2> QED BY <2>1, <2>7, <2>8
<1>3. \A o \in Seq(K) : o \in T
  <2> HIDE DEF T
  <2> QED BY <1>1, <1>2, SeqInduction
<1> QED BY <1>3

\* An order of a finite set names each of its members once; the one SetToSeq takes is
\* an order.
LEMMA OrderFacts ==
  ASSUME NEW K, IsFiniteSet(K), NEW order \in SetToSeqs(K)
  PROVE  /\ order \in Seq(K) /\ Distinct(order)
         /\ \A t \in K : \E n \in DOMAIN order : order[n] = t
<1> DEFINE n == Cardinality(K)
           D == 1..n
<1>1. n \in Nat
  BY FS_CardinalityType
<1>2. order \in [D -> K] /\ \A i, j \in D : i # j => order[i] # order[j]
  BY DEF SetToSeqs
<1>3. order \in Injection(D, K)
  BY <1>2 DEF Injection, IsInjective
<1>4. IsFiniteSet(D) /\ Cardinality(D) = n
  BY <1>1, FS_Interval
<1>5. order \in Surjection(D, K)
  <2> HIDE DEF D
  <2> QED BY <1>3, <1>4, FS_Injection
<1>6. \A t \in K : \E i \in D : order[i] = t
  BY <1>5 DEF Surjection
<1>7. order \in Seq(K)
  <2> HIDE DEF n
  <2> QED BY <1>1, <1>2
<1> QED BY <1>2, <1>6, <1>7 DEF Distinct

LEMMA OneOrder ==
  ASSUME NEW K, IsFiniteSet(K)
  PROVE  SetToSeq(K) \in SetToSeqs(K)
<1> DEFINE n == Cardinality(K)
           D == 1..n
           P(f) == f \in [D -> K] /\ IsInjective(f)
<1>1. ExistsBijection(D, K)
  BY FS_CardinalityType
<1>2. PICK b : b \in Bijection(D, K)
  BY <1>1 DEF ExistsBijection
<1>3. P(b)
  BY <1>2 DEF Bijection, Injection
<1>4. SetToSeq(K) = CHOOSE f \in [D -> K] : IsInjective(f)
  BY DEF SetToSeq
<1>5. P(SetToSeq(K))
  <2> DEFINE c == CHOOSE f \in [D -> K] : IsInjective(f)
  <2>1. c \in [D -> K] /\ IsInjective(c)
    <3> HIDE DEF D
    <3> QED BY <1>3, Zenon
  <2> HIDE DEF c
  <2> QED BY <1>4, <2>1 DEF c
<1> QED BY <1>5 DEF SetToSeqs, IsInjective

LEMMA TimesType ==
  ASSUME NEW Q, NEW s \in Seq(Q), NEW x
  PROVE  Times(x, s) \in Nat
<1> DEFINE A == {i \in DOMAIN s : s[i] = x}
<1>1. A \subseteq DOMAIN s
  OBVIOUS
<1> HIDE DEF A
<1>2. Cardinality(A) \in Nat
  BY <1>1, PlacesFinite
<1> QED BY <1>2 DEF A, Times
=============================================================================
