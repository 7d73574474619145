------------------------------ MODULE MCRingLoops ------------------------------
(* A page of three bytes, and calls that are longer than the page *)
EXTENDS RingLoops
===============================================================================
