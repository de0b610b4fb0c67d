------------------------------ MODULE MCService ------------------------------
(* A program with a message queue, a database, an API server and a plain   *)
(* service. A request and the service share one publisher.                 *)
EXTENDS Service

MCPlan == <<"rabbit", "db", "httpserver", "service">>

MCHost == [c \in Callers |-> IF c = "request" THEN 3 ELSE 4]
==============================================================================
