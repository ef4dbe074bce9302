------------------------------ MODULE MCSpinner ------------------------------
(* The threads of the instances: see the cfg files.                        *)
EXTENDS Spinner
=============================================================================
