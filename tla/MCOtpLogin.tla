---------------------------- MODULE MCOtpLogin ----------------------------
(* Instances of OtpLogin for TLC.  The requests are interchangeable: none is *)
(* named in the specification and every request starts idle.                *)
EXTENDS OtpLogin, TLC

RequestSymmetry == Permutations(Requests)
=============================================================================
