--------------------------- MODULE MCTcpConnection ---------------------------
(***************************************************************************)
(* Model-checking instances of TcpConnection.                              *)
(***************************************************************************)
EXTENDS TcpConnection

Usage(in, out, same, dies) ==
  [inside |-> in, outside |-> out, late |-> FALSE, sameLoop |-> same,
   serverDies |-> dies]

(* Every call but those that stop reading; reading stopped and half close  *)
(* in one loop; reading stopped and the server destroyed in a functor or   *)
(* in a message callback.                                                  *)
MCUses ==
  {Usage({"send", "shutdown", "forceClose", "forceCloseWithDelay"}, {"send"},
         FALSE, "never"),
   Usage({"send", "shutdown", "startRead", "stopRead"}, {}, TRUE, "never"),
   Usage({"send", "startRead", "stopRead"}, {"send"}, TRUE, "own")}

(* The uses Disciplined leaves out, one at a time: reading is started on a *)
(* connection that is down;                                                *)
LateReader ==
  {[Usage({"startRead"}, {}, TRUE, "never") EXCEPT !.late = TRUE]}

(* the server is destroyed while the connection is half closed;            *)
HalfClosed == {Usage({"shutdown"}, {}, TRUE, "own")}

(* another thread closes the connection;                                   *)
OtherCloser == {Usage({}, {"forceClose"}, FALSE, "never")}

(* a connection of an I/O loop is kept from reading;                       *)
StoppedReader == {Usage({"stopRead"}, {}, FALSE, "never")}

(* the server is destroyed in the handler of another channel.              *)
OtherHandler == {Usage({}, {}, TRUE, "any")}
=============================================================================
