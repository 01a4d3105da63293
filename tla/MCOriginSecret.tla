---------------------------- MODULE MCOriginSecret ----------------------------
(* Instances of OriginSecret for TLC.                                         *)
EXTENDS OriginSecret
=============================================================================
