------------------------------ MODULE Filters ------------------------------
(***************************************************************************)
(* Array.prototype.filter, with the condition as the set of the elements   *)
(* that meet it; without a single element, which is in the list once, it   *)
(* is splice.  SelectSeq is the same, but its condition is an operator: a  *)
(* set can be the parameter of a lemma, an operator cannot.                *)
(***************************************************************************)
EXTENDS Integers, Sequences, SequencesExt

(* kept[i] is what is kept of the first i elements. *)
Filter(s, S) ==
    LET kept[i \in 0 .. Len(s)] ==
            IF i = 0 THEN <<>>
            ELSE IF s[i] \in S THEN Append(kept[i - 1], s[i])
            ELSE kept[i - 1]
    IN  kept[Len(s)]
=============================================================================
