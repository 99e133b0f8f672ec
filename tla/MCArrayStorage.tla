---------------------------- MODULE MCArrayStorage ----------------------------
(* Integers, a double, both booleans, an object and nil; index 0 is the      *)
(* one a SOM program reaches the last element with.                          *)
EXTENDS ArrayStorage, TLC

KindOfModel == [v \in Values |->
                  CASE v \in {"zero", "one"} -> "long"
                    [] v = "zero.0" -> "double"
                    [] v \in {"true", "false"} -> "bool"
                    [] v = "nil" -> "nil"
                    [] OTHER -> "obj"]

(* The arrays are interchangeable.                                            *)
Symmetry == Permutations(Arrays)
===============================================================================
