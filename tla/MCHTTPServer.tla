---------------------------- MODULE MCHTTPServer ----------------------------
(* Three connections, two of them from the same host.                      *)
EXTENDS HTTPServer

MCConns == 1..3

MCHosts == {"h1", "h2"}

MCHostOf == [c \in MCConns |-> IF c = 3 THEN "h2" ELSE "h1"]
=============================================================================
