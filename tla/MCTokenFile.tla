---------------------------- MODULE MCTokenFile ----------------------------
(* The token in the file, the one in the backup, and one being saved.      *)
EXTENDS TokenFile
CONSTANTS t1, t2, t3
=============================================================================
