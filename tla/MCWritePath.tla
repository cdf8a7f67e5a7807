---------------------------- MODULE MCWritePath ----------------------------
(* WritePath on a small log, for TLC. *)
EXTENDS WritePath
=============================================================================
