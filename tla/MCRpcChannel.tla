---------------------------- MODULE MCRpcChannel ----------------------------
(* Two concurrent calls, one answered by the service and one refused. *)
EXTENDS RpcChannel
CONSTANTS c1, c2
MCCalls == {c1, c2}
MCMethod == [c \in MCCalls |-> IF c = c1 THEN "ok" ELSE "NO_METHOD"]
MCServices == {[async |-> TRUE, drops |-> FALSE], [async |-> FALSE, drops |-> TRUE],
               [async |-> TRUE, drops |-> TRUE]}
LateAnswers == {[async |-> TRUE, drops |-> TRUE]}
MCForeign == {<<"client", "kInvalidLength">>, <<"client", "kUnknownMessageType">>,
              <<"server", "kCheckSumError">>, <<"server", "kParseError">>}
=============================================================================
