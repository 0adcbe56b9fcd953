---------------------------- MODULE MCTemporalNode ----------------------------
(* A small instance of TemporalNode.                                         *)
EXTENDS TemporalNode

MCStamps == {0, 1, 3}
=============================================================================
