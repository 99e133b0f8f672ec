--------------------------- MODULE MCNonLocalReturn ---------------------------
(* TLC instances of NonLocalReturn: the bytecode interpreter with methods of  *)
(* five arguments, the AST interpreter with four, and the bytecode interpreter *)
(* with four, where it fails.                                                 *)
EXTENDS NonLocalReturn
===============================================================================
