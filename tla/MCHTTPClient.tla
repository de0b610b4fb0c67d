---------------------------- MODULE MCHTTPClient ----------------------------
(* Two callers of one client: a request with a limit and a decoder beside  *)
(* one that never retries, and beside one that retries indefinitely.       *)
EXTENDS HTTPClient

MCCalls == {1, 2}

Request(retry, max, decoders) == [retry |-> retry, maxElapsedTime |-> max, decoders |-> decoders]

MCReqs == {<<Request(TRUE, 2, {-1}), Request(FALSE, 0, {})>>,
           <<Request(TRUE, 2, {}), Request(TRUE, 0, {})>>}
=============================================================================
