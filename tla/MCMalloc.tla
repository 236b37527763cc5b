------------------------------ MODULE MCMalloc ------------------------------
(***************************************************************************)
(* An instance of MallocClient for TLC.                                    *)
(***************************************************************************)
EXTENDS MallocClient

MCOptions == {<<"M_MXFAST", 80>>, <<"M_TOP_PAD", pagesize>>,
              <<"M_TRIM_THRESHOLD", pagesize>>}
=============================================================================
