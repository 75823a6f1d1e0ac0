------------------------------ MODULE LineQueue ------------------------------
(***************************************************************************)
(* What a backend is for stats_relay_line: a queue that takes a line of    *)
(* any length while it holds fewer bytes than its limit, refuses it at the *)
(* limit, and loses any number of bytes on its own.  Relay gives each of   *)
(* its backends such a queue; Backend implements one with its send queue,  *)
(* its connection and its retries.                                         *)
(***************************************************************************)
EXTENDS Integers

CONSTANTS Limit,   \* the bytes at which the queue is full
          Sizes,   \* the lengths of the lines
          Flaky    \* whether it may refuse a line before it is full

VARIABLES backlog,  \* bytes in the queue
          taken,    \* lines taken so far
          refused   \* lines refused so far

Init == backlog = 0 /\ taken = 0 /\ refused = 0

(* The whole line goes in, also where it is longer than the room left. *)
Take(n) ==
    /\ backlog < Limit
    /\ backlog' = backlog + n
    /\ taken' = taken + 1
    /\ UNCHANGED refused

Refuse ==
    /\ backlog >= Limit \/ Flaky
    /\ refused' = refused + 1
    /\ UNCHANGED <<backlog, taken>>

(* Bytes are sent, or thrown away with the queue. *)
Drain(n) ==
    /\ backlog' = backlog - n
    /\ UNCHANGED <<taken, refused>>

Next ==
    \/ \E n \in Sizes : Take(n)
    \/ Refuse
    \/ \E n \in 1..backlog : Drain(n)

Spec == Init /\ [][Next]_<<backlog, taken, refused>>
=============================================================================
