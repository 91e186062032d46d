-------------------------------- MODULE Sums --------------------------------
(***************************************************************************)
(* The loops over a list that the ledger is made of: adding numbers up,    *)
(* and keeping the elements at some positions.  They are functions of the  *)
(* position reached, so that proofs can follow the loop.                   *)
(***************************************************************************)
EXTENDS Integers, Sequences

(* What a loop over the numbers has added up at its end.                   *)
SumOf(nums) ==
  LET upto[n \in 0 .. Len(nums)] == IF n = 0 THEN 0 ELSE upto[n - 1] + nums[n]
  IN  upto[Len(nums)]

(* The elements at the positions in S, in their order.                     *)
Picked(seq, S) ==
  LET upto[n \in 0 .. Len(seq)] ==
        IF n = 0 THEN <<>>
        ELSE IF n \in S THEN Append(upto[n - 1], seq[n]) ELSE upto[n - 1]
  IN  upto[Len(seq)]
=============================================================================
