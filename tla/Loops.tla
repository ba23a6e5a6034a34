-------------------------------- MODULE Loops --------------------------------
(* Two loops that the code has in many places, with what they have made of *)
(* a list up to each of its positions.                                     *)
EXTENDS Integers, Sequences

(* The positions that a filter keeps, in their order.                      *)
Picked(n, wanted) ==
  LET picked[i \in 0..n] ==
        IF i = 0 THEN << >>
        ELSE IF i \in wanted THEN Append(picked[i - 1], i)
        ELSE picked[i - 1]
  IN  picked

InOrder(n, wanted) == Picked(n, wanted)[n]

(* The sums of the values at some positions.                               *)
Sums(values, positions) ==
  LET sums[i \in 0..Len(values)] ==
        IF i = 0 THEN 0
        ELSE IF i \in positions THEN sums[i - 1] + values[i]
        ELSE sums[i - 1]
  IN  sums

SumAt(values, positions) == Sums(values, positions)[Len(values)]
=============================================================================
