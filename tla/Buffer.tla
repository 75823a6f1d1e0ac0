-------------------------------- MODULE Buffer --------------------------------
(***************************************************************************)
(* buffer_t (src/src/buffer.c) as its two users drive it: the send queue   *)
(* of a tcpclient_t, filled by tcpclient_sendall and emptied by            *)
(* tcpclient_write_event, and the input of a client session, filled by     *)
(* recv in stats_recv and emptied line by line by stats_process_lines.     *)
(*                                                                         *)
(* A buffer is a block of size bytes with two offsets, head and tail.      *)
(* Bytes malloc has not initialised are Junk.  The functions of buffer.c   *)
(* are operators on the buffer, so that a caller's sequence of calls is    *)
(* their composition.                                                      *)
(***************************************************************************)
EXTENDS Integers, Sequences

CONSTANTS
    Byte,         \* the bytes that are stored
    Junk,         \* the content of memory nobody has written
    Chunks,       \* what one call may add: lines, or what one recv returns
    InitialSize,  \* the size of the buffer when its user gets it
    MaxAlloc      \* the largest block malloc ever grants

ASSUME BufferAssumption ==
    /\ Junk \notin Byte
    /\ Chunks \subseteq Seq(Byte) \ {<<>>}
    /\ InitialSize \in Nat \ {0}
    /\ MaxAlloc \in Nat
    /\ InitialSize <= MaxAlloc

VARIABLES buf,    \* the buffer_t: mem, size, head and tail
          freed,  \* buffer_destroy was called
          user    \* whose buffer it is: "send_queue" or "session"

vars == <<buf, freed, user>>

buffer_datacount(b) == b.tail - b.head
buffer_spacecount(b) == b.size - b.tail

(* The bytes between head and tail. *)
Contents(b) == [i \in 1..buffer_datacount(b) |-> b.mem[b.head + i]]

(* buffer_newsize: a larger block with the old one copied to its front. *)
buffer_newsize(b, n) ==
    [mem  |-> [i \in 1..n |-> IF i <= b.size THEN b.mem[i] ELSE Junk],
     size |-> n,
     head |-> b.head,
     tail |-> b.tail]

(* Mutant of buffer_realign: its last two statements are switched. *)
RealignSwitched(b) ==
    [mem  |-> [i \in 1..b.size |->
                 IF i <= buffer_datacount(b) THEN b.mem[b.head + i] ELSE b.mem[i]],
     size |-> b.size,
     head |-> 0,
     tail |-> b.tail]

(* buffer_realign: memmove the data to the start of the block. *)
buffer_realign(b) ==
    [mem  |-> [i \in 1..b.size |->
                 IF i <= buffer_datacount(b) THEN b.mem[b.head + i] ELSE b.mem[i]],
     size |-> b.size,
     head |-> 0,
     tail |-> buffer_datacount(b)]

(* memcpy (or recv) of chunk c to the tail, then buffer_produced.  The copy *)
(* comes first, so the refusal of a chunk that does not fit would come too *)
(* late: here its tail would pass the end of the block, against TypeOK.    *)
buffer_produced(b, c) ==
    [mem  |-> [i \in 1..b.size |->
                 IF i \in (b.tail + 1)..(b.tail + Len(c)) THEN c[i - b.tail] ELSE b.mem[i]],
     size |-> b.size,
     head |-> b.head,
     tail |-> b.tail + Len(c)]

(* buffer_consume; it refuses to move head past tail. *)
buffer_consume(b, n) ==
    IF b.head + n > b.tail THEN b ELSE [b EXCEPT !.head = b.head + n]

-----------------------------------------------------------------------------
(* buffer_init for a session, buffer_init and buffer_newsize for a client. *)
Init ==
    /\ buf = [mem  |-> [i \in 1..InitialSize |-> Junk],
              size |-> InitialSize, head |-> 0, tail |-> 0]
    /\ freed = FALSE
    /\ user \in {"send_queue", "session"}

(* The sizes repeated buffer_expand reaches while malloc succeeds. *)
Doublings(n) == {m \in n..MaxAlloc : \E k \in 0..m : m = n * 2^k}

(* Mutant of GrownFor: at most one buffer_expand (an if for the while). *)
GrownOnce(b, len) ==
    {m \in Doublings(b.size) : m = b.size \/ m = 2 * b.size}

(* The size the expansion loop stops at when len more bytes must fit. *)
GrownFor(b, len) ==
    {m \in Doublings(b.size) :
        /\ m - b.tail >= len
        /\ \A o \in Doublings(b.size) : o - b.tail >= len => m <= o}

(* tcpclient_sendall realigns only when the chunk does not fit. *)
AlignedFor(len) ==
    IF buffer_spacecount(buf) < len THEN buffer_realign(buf) ELSE buf

SendallAppend(c) ==
    /\ user = "send_queue" /\ ~freed
    /\ LET b == AlignedFor(Len(c)) IN
         \E m \in GrownFor(b, Len(c)) :
            buf' = buffer_produced(buffer_newsize(b, m), c)
    /\ UNCHANGED <<freed, user>>

(* malloc fails in the loop: the chunk is dropped, earlier growth stays. *)
SendallNoMemory(c) ==
    /\ user = "send_queue" /\ ~freed
    /\ LET b == AlignedFor(Len(c)) IN
         \E m \in Doublings(b.size) :
            /\ m - b.tail < Len(c)
            /\ buf' = buffer_newsize(b, m)
    /\ UNCHANGED <<freed, user>>

(* Mutant of RoomToReceive: no realignment before doubling. *)
RoomWithoutRealign == buf

(* stats_recv makes room only when there is none, and then doubles once. *)
RoomToReceive ==
    IF buffer_spacecount(buf) = 0 THEN buffer_realign(buf) ELSE buf

Receive(c) ==
    /\ user = "session" /\ ~freed
    /\ LET b == RoomToReceive
           n == IF buffer_spacecount(b) = 0 THEN 2 * b.size ELSE b.size
       IN  /\ n <= MaxAlloc
           /\ Len(c) <= n - b.tail
           /\ buf' = buffer_produced(buffer_newsize(b, n), c)
    /\ UNCHANGED <<freed, user>>

Consume(n) ==
    /\ ~freed
    /\ n \in 1..buffer_datacount(buf)
    /\ buf' = buffer_consume(buf, n)
    /\ UNCHANGED <<freed, user>>

(* tcpclient_destroy, stats_session_destroy. *)
buffer_destroy ==
    /\ ~freed
    /\ freed' = TRUE /\ UNCHANGED user
    /\ buf' = [mem |-> [i \in 1..0 |-> Junk], size |-> 0, head |-> 0, tail |-> 0]

Finished == freed /\ UNCHANGED vars

Next ==
    \/ \E c \in Chunks : SendallAppend(c) \/ SendallNoMemory(c) \/ Receive(c)
    \/ \E n \in 1..buffer_datacount(buf) : Consume(n)
    \/ buffer_destroy
    \/ Finished

Spec == Init /\ [][Next]_vars

-----------------------------------------------------------------------------
(* head and tail stay inside the block, so that no copy runs over it. *)
IsBuffer(b) ==
    /\ b = [mem |-> b.mem, size |-> b.size, head |-> b.head, tail |-> b.tail]
    /\ b.size \in Nat
    /\ b.mem \in [1..b.size -> Byte \cup {Junk}]
    /\ b.head \in Nat /\ b.tail \in Nat
    /\ b.head <= b.tail /\ b.tail <= b.size

TypeOK ==
    /\ freed \in BOOLEAN
    /\ user \in {"send_queue", "session"}
    /\ IsBuffer(buf)

(***************************************************************************)
(* The buffer is a byte queue: whatever mix of realigning, doubling,       *)
(* failed allocation and partial consumption happens, its users read back  *)
(* exactly the bytes they stored, in order, and never uninitialised ones.  *)
(***************************************************************************)
Queue == INSTANCE ByteQueue WITH q <- Contents(buf), gone <- freed
IsByteQueue == Queue!Spec

(***************************************************************************)
(* A buffer that grows doubles, and a session's buffer doubles only when   *)
(* it is full of unread bytes: it never exceeds twice what the peer has    *)
(* sent and the relay has not yet consumed (or its first size).            *)
(***************************************************************************)
GrowsOnlyWhenFull ==
    [][buf'.size > buf.size /\ user = "session"
         => buffer_datacount(buf) = buf.size /\ buf'.size = 2 * buf.size]_vars
=============================================================================
