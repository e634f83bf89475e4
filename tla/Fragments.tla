----------------------------- MODULE Fragments ------------------------------
(***************************************************************************)
(* What the writer and the reader of src/golang/reqres.go exchange.        *)
(* Argument bytes are abstracted to items: the k-th write on argument n    *)
(* carries [arg |-> n, k |-> k], and End stands for the finish of an       *)
(* argument's chunk, so a reader can reassemble arguments by position and  *)
(* a property can compare each item's tag with the slot it lands in.       *)
(***************************************************************************)
EXTENDS Naturals, Sequences, SequencesExt

CONSTANT MaxWrites   \* writes the caller makes on one argument at most

ASSUME MaxWrites \in Nat

NoError == "none"

End == [arg |-> 0, k |-> 0]
DataItems == {[arg |-> n, k |-> k] : n \in 1..3, k \in 1..MaxWrites}
Items == DataItems \cup {End}
IsData(i) == i # End
DataLen(items) == Len(SelectSeq(items, IsData))

(* The two messages of a direction: call (or call response) for the first *)
(* fragment and its continuation for the others.                           *)
MsgTypes == {"Call", "CallContinue"}

(* messageForFragment, as both directions configure it.                    *)
MessageForFragment(initial) == IF initial THEN "Call" ELSE "CallContinue"

(* A frame as the writer builds it: the pooled frame it is (numbered in    *)
(* the order the writer took them from the pool), message type, the        *)
(* hasMoreFragments flag and the argument items of its payload.            *)
Frames == [frame : Nat, msgType : MsgTypes, more : BOOLEAN, items : Seq(Items)]

(* reqResWriterState and reqResReaderState, in iota order.                 *)
ArgStates == <<"PreArg1", "PreArg2", "PreArg3", "Complete">>
====
