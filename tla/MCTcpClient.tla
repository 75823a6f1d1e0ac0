----------------------------- MODULE MCTcpClient -----------------------------
(***************************************************************************)
(* TcpClient for TLC: two lines of two and three bytes and a queue limit   *)
(* of four bytes, so that a queue can overshoot its limit, a send can stop *)
(* inside a line, and a datagram can be too small for two lines.           *)
(***************************************************************************)
EXTENDS TcpClient

CONSTANTS short, long

MCLines == {short, long}
MCLineLen == [l \in MCLines |-> IF l = short THEN 2 ELSE 3]
=============================================================================
