------------------------------ MODULE MCStreams ------------------------------
(***************************************************************************)
(* Model-checking instance of the two users of Buffer, RpcChannel and      *)
(* HttpServer.  They share no state: a behaviour is one of the RPC         *)
(* channels or one of the HTTP connection, and the other one stays as it   *)
(* was created.                                                            *)
(***************************************************************************)
EXTENDS MCRpcChannel, MCHttpServer

VARIABLE moves  \* which of the two this behaviour is about

MCInit == Init /\ HttpInit /\ moves \in {"rpc", "http"}

MCNext ==
  \/ moves = "rpc" /\ Next /\ UNCHANGED <<httpVars, moves>>
  \/ moves = "http" /\ HttpNext /\ UNCHANGED <<vars, moves>>

(* The fairness of RpcChannel's FairSpec, for its behaviours. *)
MCSpec ==
  /\ MCInit /\ [][MCNext]_<<vars, httpVars, moves>>
  /\ \A c \in Calls :
       WF_stateVars(moves = "rpc" /\ (Insert(c) \/ SendRequest(c)) /\ UNCHANGED use)
  /\ \A s \in Sides :
       /\ WF_stateVars(moves = "rpc" /\ Arrival(s) /\ UNCHANGED use)
       /\ WF_stateVars(moves = "rpc" /\ onMessage(s) /\ UNCHANGED use)
  /\ WF_stateVars(moves = "rpc" /\ doneCallback /\ UNCHANGED use)
=============================================================================
