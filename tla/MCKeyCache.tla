------------------------------ MODULE MCKeyCache ------------------------------
(* Two keys, so one rotation.                                              *)
EXTENDS KeyCache

MCKeys == 1 .. 2
===============================================================================
