------------------------------ MODULE MCIngest ------------------------------
(* Instance of Ingest for TLC: the other constants are in the .cfg.         *)
EXTENDS Ingest

\* One document of two chunks.
MCTexts == {[len |-> 9, spaces |-> {2}]}
=============================================================================
