---------------------------- MODULE MCReasonerNode ----------------------------
(* Small instances of the reasoner node.                                     *)
EXTENDS ReasonerNode
=============================================================================
