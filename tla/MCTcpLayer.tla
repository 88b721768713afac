----------------------------- MODULE MCTcpLayer -----------------------------
(* Instances of TcpLayer for TLC.                                          *)
EXTENDS TcpLayer

\* No definition tells one connection from another, so AcceptedAndClosed of
\* one of them is AcceptedAndClosed of each: a connection that is waiting is
\* accepted (StartLoop, SetupPeer), and one that has ended is closed
\* (ClosePeer), unless its registration failed.
OneAcceptedAndClosed == AcceptedAndClosed(CHOOSE c \in Conns : TRUE)
=============================================================================
