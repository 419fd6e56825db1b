---------------------------- MODULE MCRetryBackoff ----------------------------
(* RetryBackoff with every base and cap of a small width. *)
EXTENDS RetryBackoff

Workers == [base: 0..MaxInt, max: 0..MaxInt, jitter: {0, 20, 100}]
=============================================================================
