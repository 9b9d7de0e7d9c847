-------------------------------- MODULE Loops --------------------------------
(***************************************************************************)
(* What the loops of the algorithms have in common.  A loop is a recursive  *)
(* function of the number of its turns: what holds after each turn can then *)
(* be proved by induction on that number.                                   *)
(***************************************************************************)
EXTENDS Naturals, Sequences, SequencesExt

IsList(list) == list \in Seq(ToSet(list))

\* The members of a list that are in a set, in the order of the list.
Kept(list, set) ==
  LET kept[n \in 0 .. Len(list)] ==
        IF n = 0 THEN << >>
        ELSE IF list[n] \in set THEN Append(kept[n - 1], list[n]) ELSE kept[n - 1]
  IN kept[Len(list)]
=============================================================================
