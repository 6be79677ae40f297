-------------------------- MODULE MCRdRegistration --------------------------
(* A step is five seconds: RD_LIFETIME is four of them, the minimum of the *)
(* directory twelve.                                                       *)
EXTENDS RdRegistration

MCDelay    == 0
MCLifetime == 4
MCTimeout  == 1
MCMinimum  == 12
=============================================================================
