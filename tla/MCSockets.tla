------------------------------ MODULE MCSockets ------------------------------
(***************************************************************************)
(* Model-checking instance of the two ends of connections: Acceptor, with  *)
(* the pollers and the descriptors of a server, and TcpClient with its     *)
(* Connector.  They share no state: a behaviour is one of the server or    *)
(* one of the client, and the other one stays as it was created.           *)
(***************************************************************************)
EXTENDS Acceptor, TcpClient

VARIABLE moves  \* which of the two this behaviour is about

MCInit == Init /\ ClientInit /\ moves \in {"server", "client"}

MCNext ==
  \/ moves = "server" /\ Next /\ UNCHANGED <<allClientVars, moves>>
  \/ moves = "client" /\ ClientNext /\ UNCHANGED <<vars, moves>>

(* The fairness of Acceptor's FairSpec, for its behaviours. *)
MCSpec ==
  /\ MCInit /\ [][MCNext]_<<vars, allClientVars, moves>>
  /\ WF_vars(moves = "server" /\ poller.ok /\ Loop)
=============================================================================
