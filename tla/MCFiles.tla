------------------------------ MODULE MCFiles -------------------------------
(* Values for model checking Files.                                        *)
EXTENDS Files

OneFileSystem == {"/fs"}
=============================================================================
