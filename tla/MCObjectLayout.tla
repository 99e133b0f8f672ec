---------------------------- MODULE MCObjectLayout ----------------------------
(* TLC instance of ObjectLayout: two instances of one class, so that one can  *)
(* be behind the other; one direct slot of each kind, so that two fields of a *)
(* kind need an extension array; one value of each kind with the same bits,   *)
(* so that reading a slot with the wrong type shows, and different from what  *)
(* a slot holds that was never written.                                       *)
EXTENDS ObjectLayout, TLC

MCValues == [kind : {"Integer", "Double", "Object"}, bits : {1}]
Symmetry == Permutations(Objects)
===============================================================================
