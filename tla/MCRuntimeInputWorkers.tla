----------------------- MODULE MCRuntimeInputWorkers -----------------------
(* The input and NFC workers on small instances.                           *)
EXTENDS RuntimeInputWorkers
=============================================================================
