---------------------------- MODULE MCClientStream ----------------------------
(* A round of two managed calls that return together.                      *)
EXTENDS ClientStream
=============================================================================
