------------------------------ MODULE MCCirBuf ------------------------------
(* The ring on a small instance: three slots, offers of up to two bytes, and  *)
(* a stream long enough to go twice round the ring.                           *)
EXTENDS CirBuf
=============================================================================
