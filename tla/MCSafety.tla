------------------------------ MODULE MCSafety ------------------------------
(***************************************************************************)
(* Small instances of Safety; the constants are given in the cfg files.    *)
(***************************************************************************)
EXTENDS Safety
=============================================================================
