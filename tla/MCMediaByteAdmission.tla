------------------------ MODULE MCMediaByteAdmission ------------------------
(* MediaByteAdmission for TLC.  Its run checks liveness, so the callers are *)
(* not declared interchangeable.                                            *)
EXTENDS MediaByteAdmission
==============================================================================
