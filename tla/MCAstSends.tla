------------------------------ MODULE MCAstSends ------------------------------
(* TLC instance of AstSends.                                                 *)
EXTENDS AstSends, MCHierarchy
===============================================================================
