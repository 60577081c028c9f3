------------------------------ MODULE MCWriter ------------------------------
(* Values for the constants of Writer: lines of one and of two units.      *)
EXTENDS Writer

MCLineSize == <<1, 2, 1, 2, 1>>
MCDatabases == {"absent", "plain"}
=============================================================================
