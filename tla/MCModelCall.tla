---------------------------- MODULE MCModelCall ----------------------------
(***************************************************************************)
(* Small instances of ModelCall.                                           *)
(***************************************************************************)
EXTENDS ModelCall

\* The edges of the ranges the retry loop and the clients test.
MCStatuses == {199, 200, 299, 300, 404, 429, 499, 500}

\* No attempt, the shipped setting, and a retrying user of CurlClient.
MCRetries == {-1, 0, 2}
=============================================================================
