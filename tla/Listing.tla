------------------------------- MODULE Listing -------------------------------
(***************************************************************************)
(* What is taken from a sequence, by the places it is taken from.          *)
(***************************************************************************)
EXTENDS Naturals, Sequences, FiniteSets

(* The numbers up to n that are in I, in ascending order, and the elements   *)
(* of s at those places.                                                     *)
InOrder(I, n) ==
  LET pick[m \in 0..n] ==
        IF m = 0 THEN <<>> ELSE IF m \in I THEN Append(pick[m-1], m) ELSE pick[m-1]
  IN pick[n]
Listed(s, I) == LET at == InOrder(I, Len(s)) IN [k \in DOMAIN at |-> s[at[k]]]

(* The elements of s that pass the test (SelectSeq, by places), and how      *)
(* often x is among the elements.                                            *)
Only(s, Test(_)) == Listed(s, {i \in DOMAIN s : Test(s[i])})
Times(x, s) == Cardinality({i \in DOMAIN s : s[i] = x})

(* How often x is among the elements of the lists of the keys S.             *)
Occurrences(x, lists, S) ==
  Cardinality({r \in UNION {{t} \X DOMAIN lists[t] : t \in S} : lists[r[1]][r[2]] = x})
=============================================================================
