--------------------------- MODULE MCBatchIngest ---------------------------
(* Instances of BatchIngest for TLC.                                        *)
EXTENDS BatchIngest

=============================================================================
