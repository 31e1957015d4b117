-------------------------- MODULE MCPayloadService --------------------------
(***************************************************************************)
(* Small instances of PayloadService.                                      *)
(***************************************************************************)
EXTENDS PayloadService

CONSTANTS r1, t1, t2

OneRuntime == [t \in Threads |-> r1]
=============================================================================
