---------------------------- MODULE MCHttpServer ----------------------------
(* The callback of tests/HttpServer_test.cc: a path that it does not know  *)
(* closes the connection, the others leave the flag alone.                 *)
EXTENDS HttpServer
TestCallback == [x \in Valid \X BOOLEAN |-> x[1] = "nowhere HTTP/1.1" \/ x[2]]
=============================================================================
