---------------------------------- MODULE Lists --------------------------------
(* What the menus and the conversions of queries do with lists.                 *)
EXTENDS Naturals, Sequences

(* Array.filter: the entries that are in S, in their order.  It is SelectSeq,   *)
(* written so that proofs can expand it.                                        *)
Filtered(list, S) ==
  LET upTo[i \in 0..Len(list)] ==
        IF i = 0 THEN <<>>
        ELSE IF list[i] \in S THEN Append(upTo[i - 1], list[i]) ELSE upTo[i - 1]
  IN  upTo[Len(list)]
================================================================================
