-------------------------------- MODULE Fifo --------------------------------
(***************************************************************************)
(* What a bounded queue promises: elements leave in the order in which     *)
(* they came, each once, and never more than Capacity of them are inside.  *)
(***************************************************************************)
EXTENDS Naturals, Sequences

CONSTANTS Elements, Capacity

VARIABLE contents

Init == contents = <<>>

Put == \E e \in Elements :
         /\ Len(contents) < Capacity
         /\ contents' = Append(contents, e)

Take == /\ contents # <<>>
        /\ contents' = Tail(contents)

Next == Put \/ Take

Spec == Init /\ [][Next]_contents
=============================================================================
