--------------------------- MODULE MCVideoUpload ---------------------------
(* VideoUpload for TLC: two tabs at most, one file in one part. *)
EXTENDS VideoUpload

CONSTANTS t1, t2, u1
=============================================================================
