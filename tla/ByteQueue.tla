------------------------------ MODULE ByteQueue ------------------------------
(***************************************************************************)
(* What a buffer_t promises its users: a first-in first-out queue of       *)
(* bytes.  Whole chunks are added at the end, any number of bytes is taken *)
(* from the front, and destroying the buffer discards the rest.            *)
(***************************************************************************)
EXTENDS Integers, Sequences

CONSTANT Chunks      \* the byte sequences that can be added at once

VARIABLES q,         \* the bytes in the queue
          gone       \* TRUE once the queue has been destroyed

Init == q = <<>> /\ gone = FALSE

Put(c) ==
    /\ ~gone
    /\ q' = q \o c
    /\ UNCHANGED gone

Take(n) ==
    /\ ~gone
    /\ q' = SubSeq(q, n + 1, Len(q))
    /\ UNCHANGED gone

Destroy ==
    /\ ~gone
    /\ q' = <<>>
    /\ gone' = TRUE

Next ==
    \/ \E c \in Chunks : Put(c)
    \/ \E n \in 1..Len(q) : Take(n)
    \/ Destroy

Spec == Init /\ [][Next]_<<q, gone>>
=============================================================================
