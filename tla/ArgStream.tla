----------------------------- MODULE ArgStream ------------------------------
(***************************************************************************)
(* What the argument layer promises its callers (spec.md 8): the sender   *)
(* writes the items of arguments 1, 2 and 3 in that order, and the         *)
(* receiver gets, in order and each in its own argument, a prefix of what  *)
(* was written, however the items were cut into fragments.                 *)
(***************************************************************************)
EXTENDS Fragments

VARIABLES
    written,    \* items written, tagged with their argument
    received    \* items received, tagged with the argument they were read as

avars == <<written, received>>

LastArg == IF written = <<>> THEN 1 ELSE written[Len(written)].arg
Count(n) == Len(SelectSeq(written, LAMBDA i : i.arg = n))

Init == written = <<>> /\ received = <<>>

(* The sender writes the next item of the current or a later argument.     *)
Write ==
    \E n \in LastArg..3 :
        /\ Count(n) < MaxWrites
        /\ written' = Append(written, [arg |-> n, k |-> Count(n) + 1])
        /\ UNCHANGED received

(* The receiver gets the next item written, in the argument it belongs to. *)
Receive ==
    /\ Len(received) < Len(written)
    /\ received' = Append(received, written[Len(received) + 1])
    /\ UNCHANGED written

Next == Write \/ Receive

Spec == Init /\ [][Next]_avars
====
