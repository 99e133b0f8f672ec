---------------------------- MODULE MCBytecodeSends ----------------------------
(* TLC instance of BytecodeSends.                                            *)
EXTENDS BytecodeSends, MCHierarchy
===============================================================================
