------------------------------ MODULE GoSlices ------------------------------
(***************************************************************************)
(* The operations of Go's standard packages "slices" and "strings" that     *)
(* lilgraph.go and marshal.go call, on TLA+ sequences.  A nil slice and an  *)
(* empty slice are both << >>: no code in the repository tells them apart,  *)
(* except AttrsMap, for which module Attrs has a nil slice of its own.      *)
(*                                                                         *)
(* KeepAt and StableSort say where each index lands by counting the         *)
(* indices that come before it.  The recursive SelectSeq and SortSeq of the *)
(* libraries would serve TLC as well, but what a recursive definition       *)
(* computes for every input cannot be proved; of the closed forms it can    *)
(* (module OperatorProofs).                                                 *)
(***************************************************************************)
EXTENDS SequencesExt

(* What a strings.Builder holds to which the pieces have been written.      *)
Joined(pieces) ==
    LET upTo[n \in 0..Len(pieces)] == IF n = 0 THEN << >> ELSE upTo[n - 1] \o pieces[n]
    IN  upTo[Len(pieces)]

(* Mutant: deletes by moving the last element into the gap.                 *)
SwapDelete(s, e) ==
    LET gap == Min({i \in DOMAIN s : s[i] = e})
    IN  [i \in 1..Len(s) - 1 |-> IF i = gap THEN s[Len(s)] ELSE s[i]]

(* slices.Delete(s, i, i+1) with i == slices.Index(s, e): the first element *)
(* equal to e goes; the code never reaches it when e is not in s.           *)
DeleteFirst(s, e) ==
    LET gap == CHOOSE i \in DOMAIN s : s[i] = e /\ \A j \in 1..i - 1 : s[j] # e
    IN  [j \in 1..Len(s) - 1 |-> IF j < gap THEN s[j] ELSE s[j + 1]]

(* Mutant: stops at the first element to delete.                            *)
DeleteFuncOnce(s, e) == IF e \in ToSet(s) THEN DeleteFirst(s, e) ELSE s

(* The elements of s at the indices I, in their order.                      *)
KeepAt(s, I) ==
    LET lands(i) == Cardinality({j \in I : j <= i})
    IN  [k \in 1..Cardinality(I) |-> s[CHOOSE i \in I : lands(i) = k]]

(* slices.DeleteFunc(s, func(x) bool { return x == e }): every element      *)
(* equal to e goes, the others keep their order.                            *)
DeleteFunc(s, e) == KeepAt(s, {i \in DOMAIN s : s[i] # e})

(* Mutant: a sort that turns equal keys round.                              *)
StableSortReversing(s, key) ==
    LET before(j, i) == \/ key[s[j]] < key[s[i]]
                        \/ key[s[j]] = key[s[i]] /\ j >= i
        lands(i) == Cardinality({j \in DOMAIN s : before(j, i)})
    IN  [k \in DOMAIN s |-> s[CHOOSE i \in DOMAIN s : lands(i) = k]]

(* slices.SortStableFunc(s, cmp) where cmp compares key[x], a number: equal *)
(* keys keep their order.                                                   *)
StableSort(s, key) ==
    LET before(j, i) == \/ key[s[j]] < key[s[i]]
                        \/ key[s[j]] = key[s[i]] /\ j <= i
        lands(i) == Cardinality({j \in DOMAIN s : before(j, i)})
    IN  [k \in DOMAIN s |-> s[CHOOSE i \in DOMAIN s : lands(i) = k]]
=============================================================================
