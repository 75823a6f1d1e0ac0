------------------------------ MODULE MCBackend ------------------------------
(* Backend for TLC, with the two lines of MCTcpClient. *)
EXTENDS Backend

CONSTANTS short, long

MCLines == {short, long}
MCLineLen == [l \in MCLines |-> IF l = short THEN 2 ELSE 3]
=============================================================================
