-------------------------- MODULE MCReferenceRetry --------------------------
(***************************************************************************)
(* Requests and workers of ReferenceRetry are interchangeable.             *)
(***************************************************************************)
EXTENDS ReferenceRetry

RetrySymmetry == Permutations(Requests) \cup Permutations(Workers)
=============================================================================
