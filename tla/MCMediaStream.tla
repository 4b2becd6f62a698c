---------------------------- MODULE MCMediaStream ---------------------------
(* Nonces over more than one cycle of four generations of two.             *)
EXTENDS MediaStream

MCNonce == 1 .. 10
=============================================================================
