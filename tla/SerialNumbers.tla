--------------------------- MODULE SerialNumbers ---------------------------
(***************************************************************************)
(* What a caller of create_payment may assume of payment numbers: they are *)
(* issued one at a time, and those of each year are 1, 2, 3 ..., without a *)
(* gap or a repetition.                                                    *)
(***************************************************************************)
EXTENDS Integers

CONSTANT Years

VARIABLE issued

Init == issued = [y \in Years |-> {}]

\* The next number of year y is the successor of an issued one, or the first.
Issue(y) == \E n \in {1} \cup {m + 1 : m \in issued[y]} :
              /\ issued[y] = 1 .. (n - 1)
              /\ issued' = [issued EXCEPT ![y] = @ \cup {n}]

Spec == Init /\ [][\E y \in Years : Issue(y)]_issued
============================================================================
