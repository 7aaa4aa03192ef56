----------------------------- MODULE MCCadence -----------------------------
(* Every rate up to twelve runs in three seconds, refused ones included. *)
EXTENDS Cadence

MCRequests == [n : 0 .. 12, d : 0 .. 3, off : 0 .. 6]
=============================================================================
