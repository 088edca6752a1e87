---------------------------- MODULE MCFileStore ----------------------------
(* Parts of two bytes, two to a circular file, and three operations on a file *)
EXTENDS FileStore, TLC
CONSTANT f1
MCOps  == f1 :> 3
MCData == {<<1, 2, 3>>, <<4>>}
=============================================================================
