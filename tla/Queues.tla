------------------------------- MODULE Queues -------------------------------
(***************************************************************************)
(* The deque idioms the scheduler and the block manager share, beyond      *)
(* those of SequencesExt.                                                  *)
(***************************************************************************)
EXTENDS Integers, Sequences, FiniteSets, SequencesExt

(* waiting.remove(s); waiting.appendleft(s), for the element at index i.   *)
MoveToFront(s, i) == <<s[i]>> \o RemoveAt(s, i)

(* [x for x in s if x in S].  SelectSeq over a set, written as a recursive *)
(* function because no prover here can expand that operator.               *)
Only(s, S) ==
  LET only[n \in 0..Len(s)] ==
        IF n = 0 THEN <<>>
        ELSE IF s[n] \in S THEN Append(only[n - 1], s[n]) ELSE only[n - 1]
  IN  only[Len(s)]

(* No element occurs twice.                                                *)
Distinct(s) == \A i, j \in 1..Len(s) : s[i] = s[j] => i = j
=============================================================================
