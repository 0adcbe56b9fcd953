--------------------------- MODULE MCTrackedAdapter ---------------------------
(* A strip of unit height with boxes of two classes that overlap by some of  *)
(* their width.                                                              *)
EXTENDS TrackedAdapter

At(label, x, w) == [label |-> label, x |-> x, y |-> 0, w |-> w, h |-> 1]

StripBoxes == { At("cart", 0, 2), At("cart", 1, 2), At("person", 1, 2) }

Third == [num |-> 1, den |-> 3]
=============================================================================
