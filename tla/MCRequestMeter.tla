---------------------------- MODULE MCRequestMeter ----------------------------
(* Instances of RequestMeter for TLC.                                         *)
EXTENDS RequestMeter, TLC

\* One request a minute passes on the login tree.  The two other guards, which
\* differ in their buckets only, are switched off (a limit of 0).
Limits == [minute |-> 0, window |-> 0, auth |-> 1]
Refusing == {"minute", "auth"}

\* Containers differ in nothing but their memory.
Interchangeable == Permutations(Containers)
=============================================================================
