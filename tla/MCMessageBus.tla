---------------------------- MODULE MCMessageBus ----------------------------
(* A small bus for TLC.                                                    *)
EXTENDS MessageBus

CONSTANTS nav, gnc, x1, x2, x3, u, v

TwoComps == <<nav, gnc>>
OneComp == <<nav>>
AllForNav == [c \in External |-> nav]
OneEach == [c \in External |-> IF c = x1 THEN nav ELSE gnc]
HomeNav == [w \in Workers |-> nav]
=============================================================================
