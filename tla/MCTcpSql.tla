------------------------------- MODULE MCTcpSql -------------------------------
(* A small instance of TcpSql for TLC. *)
EXTENDS TcpSql, TLC

CONSTANTS n1, n2, n3, p1, p2

\* Two accounts with different passwords, and a name without one.
Accounts == n1 :> p1 @@ n2 :> p2 @@ n3 :> NoPassword
===============================================================================
