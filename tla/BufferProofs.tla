----------------------------- MODULE BufferProofs -----------------------------
(***************************************************************************)
(* buffer_t implements a first-in first-out byte queue, for every initial  *)
(* size, allocation limit and set of chunks; and a status report that is   *)
(* written into one reaches its client in whole lines.                     *)
(*                                                                         *)
(* One lemma per function of buffer.c says what it does to the bytes       *)
(* between head and tail; each action is a composition of them.            *)
(***************************************************************************)
EXTENDS StatusReport, SequenceTheorems, WellFoundedInduction, TLAPS

(* A buffer_t whose block holds elements of S. *)
IsBlock(b, S) ==
    /\ b = [mem |-> b.mem, size |-> b.size, head |-> b.head, tail |-> b.tail]
    /\ b.size \in Nat
    /\ b.mem \in [1..b.size -> S]
    /\ b.head \in Nat /\ b.tail \in Nat
    /\ b.head <= b.tail /\ b.tail <= b.size

(* The bytes between head and tail form a sequence. *)
LEMMA BlockContents ==
    ASSUME NEW S, NEW b, IsBlock(b, S)
    PROVE  /\ Contents(b) \in Seq(S)
           /\ Len(Contents(b)) = b.tail - b.head
           /\ \A i \in 1..(b.tail - b.head) : Contents(b)[i] = b.mem[b.head + i]
<1>1. b.tail - b.head \in Nat
  BY DEF IsBlock
<1>2. \A i \in 1..(b.tail - b.head) : b.mem[b.head + i] \in S
  BY DEF IsBlock
<1>3. Contents(b) \in Seq(S)
  BY <1>1, <1>2 DEF Contents, buffer_datacount
<1>4. Len(Contents(b)) = b.tail - b.head
  BY <1>1, <1>3 DEF Contents, buffer_datacount
<1> QED
  BY <1>1, <1>3, <1>4 DEF Contents, buffer_datacount

(* Storing a chunk that fits appends it. *)
LEMMA BlockProduced ==
    ASSUME NEW S, NEW b, IsBlock(b, S), NEW c \in Seq(S), Len(c) <= b.size - b.tail
    PROVE  /\ IsBlock(buffer_produced(b, c), S)
           /\ Contents(buffer_produced(b, c)) = Contents(b) \o c
<1> DEFINE r == buffer_produced(b, c)
           d == b.tail - b.head
<1>0. Len(c) \in Nat /\ \A i \in 1..Len(c) : c[i] \in S
  BY LenProperties, ElementOfSeq
<1>1. /\ r.size = b.size /\ r.head = b.head /\ r.tail = b.tail + Len(c)
      /\ r = [mem |-> r.mem, size |-> r.size, head |-> r.head, tail |-> r.tail]
      /\ r.mem = [i \in 1..b.size |->
                    IF i \in (b.tail + 1)..(b.tail + Len(c))
                      THEN c[i - b.tail] ELSE b.mem[i]]
  BY DEF buffer_produced
<1>2. /\ b.size \in Nat /\ b.head \in Nat /\ b.tail \in Nat
      /\ b.head <= b.tail /\ b.tail <= b.size
      /\ b.mem \in [1..b.size -> S]
  BY DEF IsBlock
<1>3. r.mem \in [1..r.size -> S]
  <2>1. ASSUME NEW i \in 1..b.size
        PROVE  r.mem[i] \in S
    <3>1. CASE i \in (b.tail + 1)..(b.tail + Len(c))
      <4>1. i - b.tail \in 1..Len(c) /\ r.mem[i] = c[i - b.tail]
        BY <3>1, <1>0, <1>1, <1>2
      <4> QED
        BY <4>1, <1>0
    <3>2. CASE i \notin (b.tail + 1)..(b.tail + Len(c))
      BY <3>2, <1>1, <1>2
    <3> QED
      BY <3>1, <3>2
  <2> QED
    BY <2>1, <1>1
<1>4. IsBlock(r, S)
  BY <1>0, <1>1, <1>2, <1>3 DEF IsBlock
<1>5. /\ Contents(r) \in Seq(S)
      /\ Len(Contents(r)) = d + Len(c)
      /\ \A i \in 1..(d + Len(c)) : Contents(r)[i] = r.mem[b.head + i]
  <2>1. r.tail - r.head = d + Len(c)
    BY <1>0, <1>1, <1>2
  <2>2. /\ Contents(r) \in Seq(S)
        /\ Len(Contents(r)) = r.tail - r.head
        /\ \A i \in 1..(r.tail - r.head) : Contents(r)[i] = r.mem[r.head + i]
    <3> HIDE DEF r
    <3> QED
      BY <1>4, BlockContents
  <2>3. r.head = b.head
    BY <1>1
  <2> QED
    BY <2>1, <2>2, <2>3
<1>6. /\ Contents(b) \in Seq(S) /\ Len(Contents(b)) = d
      /\ \A i \in 1..d : Contents(b)[i] = b.mem[b.head + i]
  BY BlockContents
<1>7. c \in Seq(S)
  OBVIOUS
<1>8. /\ Contents(b) \o c \in Seq(S)
      /\ Len(Contents(b) \o c) = d + Len(c)
      /\ \A i \in 1..(d + Len(c)) : (Contents(b) \o c)[i] =
           IF i <= d THEN Contents(b)[i] ELSE c[i - d]
  <2> DEFINE t == Contents(b)
  <2>1. t \in Seq(S) /\ Len(t) = d
    BY <1>6
  <2> HIDE DEF t
  <2>2. /\ t \o c \in Seq(S)
        /\ Len(t \o c) = Len(t) + Len(c)
        /\ \A i \in 1..(Len(t) + Len(c)) : (t \o c)[i] =
              IF i <= Len(t) THEN t[i] ELSE c[i - Len(t)]
    BY <2>1, <1>7, ConcatProperties
  <2>3. /\ t \o c \in Seq(S)
        /\ Len(t \o c) = d + Len(c)
        /\ \A i \in 1..(d + Len(c)) : (t \o c)[i] = IF i <= d THEN t[i] ELSE c[i - d]
    BY <2>1, <2>2
  <2> QED
    BY <2>3 DEF t
<1>9. ASSUME NEW i \in 1..(d + Len(c))
      PROVE  Contents(r)[i] = (Contents(b) \o c)[i]
  <2>0. d \in Nat
    BY <1>2
  <2>1. CASE i <= d
    <3>1. i \in 1..d /\ b.head + i \in 1..b.size
          /\ b.head + i \notin (b.tail + 1)..(b.tail + Len(c))
      <4>1. /\ b.head \in Nat /\ b.tail \in Nat /\ b.size \in Nat /\ Len(c) \in Nat
            /\ b.head <= b.tail /\ b.tail <= b.size
        BY <1>0, <1>2
      <4>2. i \in Nat /\ 1 <= i /\ i <= b.tail - b.head
        BY <4>1, <2>1
      <4> QED
        BY <4>1, <4>2
    <3>2. r.mem[b.head + i] = b.mem[b.head + i]
      BY <3>1, <1>1
    <3> QED
      BY <3>1, <3>2, <2>1, <1>5, <1>6, <1>8
  <2>2. CASE ~(i <= d)
    <3>1. /\ b.head + i \in 1..b.size
          /\ b.head + i \in (b.tail + 1)..(b.tail + Len(c))
          /\ b.head + i - b.tail = i - d
      <4>1. /\ b.head \in Nat /\ b.tail \in Nat /\ b.size \in Nat /\ Len(c) \in Nat
            /\ b.head <= b.tail /\ Len(c) <= b.size - b.tail
        BY <1>0, <1>2
      <4>2. i \in Nat /\ i > b.tail - b.head /\ i <= (b.tail - b.head) + Len(c)
        BY <4>1, <2>2
      <4> QED
        BY <4>1, <4>2
    <3>2. r.mem[b.head + i] = c[i - d]
      <4> DEFINE j == b.head + i
      <4>1. j \in 1..b.size /\ j \in (b.tail + 1)..(b.tail + Len(c))
        BY <3>1
      <4>2. j - b.tail = i - d
        BY <1>0, <1>2
      <4> HIDE DEF j
      <4>3. r.mem[j] = c[j - b.tail]
        <5> HIDE DEF r, d
        <5> QED
          BY <4>1, <1>1
      <4> QED
        BY <4>2, <4>3 DEF j
    <3> QED
      BY <3>1, <3>2, <2>2, <1>5, <1>8
  <2> QED
    BY <2>1, <2>2
<1>10. Contents(r) = Contents(b) \o c
  BY <1>5, <1>8, <1>9, SeqEqual
<1> QED
  BY <1>4, <1>10

(* Consuming n bytes removes the first n. *)
LEMMA BlockConsumed ==
    ASSUME NEW S, NEW b, IsBlock(b, S), NEW n \in 1..(b.tail - b.head)
    PROVE  /\ IsBlock(buffer_consume(b, n), S)
           /\ Contents(buffer_consume(b, n))
                = SubSeq(Contents(b), n + 1, Len(Contents(b)))
<1> DEFINE r == buffer_consume(b, n)
           s == Contents(b)
<1>1. /\ b.size \in Nat /\ b.head \in Nat /\ b.tail \in Nat
      /\ b.head <= b.tail /\ b.tail <= b.size
      /\ b.mem \in [1..b.size -> S]
      /\ b = [mem |-> b.mem, size |-> b.size, head |-> b.head, tail |-> b.tail]
  BY DEF IsBlock
<1>2. ~(b.head + n > b.tail)
  BY <1>1
<1>3. /\ r.mem = b.mem /\ r.size = b.size /\ r.head = b.head + n /\ r.tail = b.tail
      /\ r = [mem |-> r.mem, size |-> r.size, head |-> r.head, tail |-> r.tail]
  BY <1>1, <1>2 DEF buffer_consume
<1>4. IsBlock(r, S)
  BY <1>1, <1>2, <1>3 DEF IsBlock
<1>5. /\ s \in Seq(S) /\ Len(s) = b.tail - b.head
      /\ \A i \in 1..(b.tail - b.head) : s[i] = b.mem[b.head + i]
  BY BlockContents
<1>6. /\ SubSeq(s, n + 1, Len(s)) \in Seq(S)
      /\ Len(SubSeq(s, n + 1, Len(s))) = b.tail - b.head - n
      /\ \A i \in 1..(b.tail - b.head - n) : SubSeq(s, n + 1, Len(s))[i] = s[n + i]
  <2> DEFINE m == n + 1
             e == Len(s)
  <2>1. m \in Int /\ e \in Int /\ e = b.tail - b.head /\ n \in Nat /\ m \in 1..(e + 1)
    BY <1>1, <1>5
  <2>2. \A i \in m..e : s[i] \in S
    BY <1>5, <2>1, ElementOfSeq
  <2> HIDE DEF m, e, s
  <2>3. /\ SubSeq(s, m, e) \in Seq(S)
        /\ Len(SubSeq(s, m, e)) = IF m <= e THEN e - m + 1 ELSE 0
        /\ \A i \in 1..(e - m + 1) : SubSeq(s, m, e)[i] = s[m + i - 1]
    BY <2>1, <2>2, SubSeqProperties
  <2>4. e - m + 1 = b.tail - b.head - n /\ (~(m <= e) => e - m + 1 = 0)
    <3>1. /\ b.tail \in Nat /\ b.head \in Nat /\ e \in Int /\ n \in Nat
          /\ e = b.tail - b.head /\ n <= e
      BY <1>1, <2>1 DEF m
    <3> QED
      BY <3>1 DEF m
  <2>5. \A i \in 1..(b.tail - b.head - n) : m + i - 1 = n + i
    BY <1>1, <2>1 DEF m
  <2> QED
    BY <2>3, <2>4, <2>5 DEF m, e
<1>7. /\ Contents(r) \in Seq(S)
      /\ Len(Contents(r)) = b.tail - b.head - n
      /\ \A i \in 1..(b.tail - b.head - n) : Contents(r)[i] = b.mem[b.head + n + i]
  <2>1. r.tail - r.head = b.tail - b.head - n
    BY <1>1, <1>3
  <2> QED
    BY <1>4, <2>1, <1>3, BlockContents
<1>8. ASSUME NEW i \in 1..(b.tail - b.head - n)
      PROVE  Contents(r)[i] = SubSeq(s, n + 1, Len(s))[i]
  <2>1. n + i \in 1..(b.tail - b.head) /\ b.head + (n + i) = b.head + n + i
    BY <1>1
  <2> QED
    BY <2>1, <1>5, <1>6, <1>7
<1>9. Contents(r) = SubSeq(s, n + 1, Len(s))
  BY <1>6, <1>7, <1>8, SeqEqual
<1> QED
  BY <1>4, <1>9

-----------------------------------------------------------------------------
(* The same for the buffers of Buffer, with one lemma for each of the      *)
(* other functions of buffer.c.                                            *)
LEMMA ContentsSeq ==
    ASSUME NEW b, IsBuffer(b)
    PROVE  /\ Contents(b) \in Seq(Byte \cup {Junk})
           /\ Len(Contents(b)) = b.tail - b.head
           /\ \A i \in 1..(b.tail - b.head) : Contents(b)[i] = b.mem[b.head + i]
BY BlockContents DEF IsBuffer, IsBlock

LEMMA ProducedAppends ==
    ASSUME NEW b, IsBuffer(b), NEW c \in Seq(Byte), Len(c) <= b.size - b.tail
    PROVE  /\ IsBuffer(buffer_produced(b, c))
           /\ Contents(buffer_produced(b, c)) = Contents(b) \o c
<1>1. c \in Seq(Byte \cup {Junk})
  BY SeqMonotonic, LenProperties, ElementOfSeq
<1>2. IsBlock(b, Byte \cup {Junk})
  BY DEF IsBuffer, IsBlock
<1>3. /\ IsBlock(buffer_produced(b, c), Byte \cup {Junk})
      /\ Contents(buffer_produced(b, c)) = Contents(b) \o c
  BY <1>1, <1>2, BlockProduced
<1> QED
  BY <1>3 DEF IsBuffer, IsBlock

LEMMA ConsumeTakes ==
    ASSUME NEW b, IsBuffer(b), NEW n \in 1..(b.tail - b.head)
    PROVE  /\ IsBuffer(buffer_consume(b, n))
           /\ Contents(buffer_consume(b, n))
                = SubSeq(Contents(b), n + 1, Len(Contents(b)))
<1>1. IsBlock(b, Byte \cup {Junk})
  BY DEF IsBuffer, IsBlock
<1>2. /\ IsBlock(buffer_consume(b, n), Byte \cup {Junk})
      /\ Contents(buffer_consume(b, n)) = SubSeq(Contents(b), n + 1, Len(Contents(b)))
  BY <1>1, BlockConsumed
<1> QED
  BY <1>2 DEF IsBuffer, IsBlock

(* buffer_realign moves the data and keeps it. *)
LEMMA RealignKeeps ==
    ASSUME NEW b, IsBuffer(b)
    PROVE  /\ IsBuffer(buffer_realign(b))
           /\ Contents(buffer_realign(b)) = Contents(b)
           /\ buffer_realign(b).size = b.size
<1> DEFINE r == buffer_realign(b)
<1>1. /\ r.size = b.size /\ r.head = 0 /\ r.tail = b.tail - b.head
      /\ r = [mem |-> r.mem, size |-> r.size, head |-> r.head, tail |-> r.tail]
      /\ r.mem = [i \in 1..b.size |->
                    IF i <= b.tail - b.head THEN b.mem[b.head + i] ELSE b.mem[i]]
  BY DEF buffer_realign, buffer_datacount
<1>2. /\ b.size \in Nat /\ b.head \in Nat /\ b.tail \in Nat
      /\ b.head <= b.tail /\ b.tail <= b.size
      /\ b.mem \in [1..b.size -> Byte \cup {Junk}]
  BY DEF IsBuffer
<1>3. r.mem \in [1..r.size -> Byte \cup {Junk}]
  <2>1. \A i \in 1..b.size : i <= b.tail - b.head => b.head + i \in 1..b.size
    BY <1>2
  <2>2. \A i \in 1..b.size : r.mem[i] \in Byte \cup {Junk}
    BY <1>1, <1>2, <2>1
  <2> QED
    BY <1>1, <2>2
<1>4. IsBuffer(r)
  BY <1>1, <1>2, <1>3 DEF IsBuffer
<1>5. \A i \in 1..(b.tail - b.head) : r.mem[r.head + i] = b.mem[b.head + i]
  BY <1>1, <1>2
<1>6. Contents(r) = Contents(b)
  BY <1>1, <1>2, <1>5 DEF Contents, buffer_datacount
<1> QED
  BY <1>1, <1>4, <1>6

(* A larger block keeps the data. *)
LEMMA NewsizeKeeps ==
    ASSUME NEW b, IsBuffer(b), NEW n \in Nat, b.size <= n
    PROVE  /\ IsBuffer(buffer_newsize(b, n))
           /\ Contents(buffer_newsize(b, n)) = Contents(b)
           /\ buffer_newsize(b, n).size = n
           /\ buffer_newsize(b, n).tail = b.tail
<1> DEFINE r == buffer_newsize(b, n)
<1>1. /\ r.size = n /\ r.head = b.head /\ r.tail = b.tail
      /\ r = [mem |-> r.mem, size |-> r.size, head |-> r.head, tail |-> r.tail]
      /\ r.mem = [i \in 1..n |-> IF i <= b.size THEN b.mem[i] ELSE Junk]
  BY DEF buffer_newsize
<1>2. /\ b.size \in Nat /\ b.head \in Nat /\ b.tail \in Nat
      /\ b.head <= b.tail /\ b.tail <= b.size
      /\ b.mem \in [1..b.size -> Byte \cup {Junk}]
  BY DEF IsBuffer
<1>3. r.mem \in [1..r.size -> Byte \cup {Junk}]
  BY <1>1, <1>2
<1>4. IsBuffer(r)
  BY <1>1, <1>2, <1>3 DEF IsBuffer
<1>5. \A i \in 1..(b.tail - b.head) : r.mem[r.head + i] = b.mem[b.head + i]
  BY <1>1, <1>2
<1>6. Contents(r) = Contents(b)
  BY <1>1, <1>2, <1>5 DEF Contents, buffer_datacount
<1> QED
  BY <1>1, <1>4, <1>6

-----------------------------------------------------------------------------
(* tcpclient_sendall and stats_recv realign at most: a buffer with the     *)
(* same bytes and the same size.                                           *)
LEMMA AlignedKeeps ==
    ASSUME IsBuffer(buf), NEW b,
           b = buf \/ b = buffer_realign(buf)
    PROVE  IsBuffer(b) /\ Contents(b) = Contents(buf) /\ b.size = buf.size
BY RealignKeeps

(* Growing a buffer and storing a chunk that fits then is one Put. *)
LEMMA GrowAndAppend ==
    ASSUME NEW b, IsBuffer(b), NEW n \in Nat, b.size <= n,
           NEW c \in Seq(Byte), Len(c) <= n - b.tail
    PROVE  /\ IsBuffer(buffer_produced(buffer_newsize(b, n), c))
           /\ Contents(buffer_produced(buffer_newsize(b, n), c)) = Contents(b) \o c
<1> DEFINE g == buffer_newsize(b, n)
<1>1. IsBuffer(g) /\ Contents(g) = Contents(b) /\ g.size = n /\ g.tail = b.tail
  BY NewsizeKeeps
<1> HIDE DEF g
<1>2. Len(c) <= g.size - g.tail
  BY <1>1
<1>3. /\ IsBuffer(buffer_produced(g, c))
      /\ Contents(buffer_produced(g, c)) = Contents(g) \o c
  BY <1>1, <1>2, ProducedAppends
<1> QED
  BY <1>1, <1>3 DEF g

LEMMA DoublingsGrow ==
    ASSUME NEW b, IsBuffer(b), NEW m \in Doublings(b.size)
    PROVE  m \in Nat /\ b.size <= m
BY BufferAssumption DEF Doublings, IsBuffer

(* Every step keeps the offsets inside the block and is a step of the      *)
(* abstract queue, or leaves the queue as it is.                           *)
LEMMA QueueStep ==
    ASSUME TypeOK, [Next]_vars
    PROVE  /\ TypeOK'
           /\ [Queue!Next]_<<Contents(buf), freed>>
<1>0. IsBuffer(buf) /\ freed \in BOOLEAN /\ user \in {"send_queue", "session"}
  BY DEF TypeOK
<1>1. ASSUME NEW c \in Chunks, SendallAppend(c)
      PROVE  TypeOK' /\ Queue!Put(c)
  <2> DEFINE b == AlignedFor(Len(c))
  <2>1. IsBuffer(b) /\ Contents(b) = Contents(buf)
    BY <1>0, AlignedKeeps DEF AlignedFor
  <2>2. PICK m \in GrownFor(b, Len(c)) :
              buf' = buffer_produced(buffer_newsize(b, m), c)
    BY <1>1 DEF SendallAppend
  <2>3. ~freed /\ freed' = freed /\ user' = user /\ c \in Seq(Byte)
    BY <1>1, BufferAssumption DEF SendallAppend
  <2> HIDE DEF b
  <2>4. m \in Doublings(b.size) /\ m - b.tail >= Len(c)
    BY <2>2 DEF GrownFor
  <2>5. m \in Nat /\ b.size <= m
    BY <2>1, <2>4, DoublingsGrow
  <2>6. Len(c) <= m - b.tail
    BY <2>1, <2>3, <2>4, <2>5 DEF IsBuffer
  <2>7. IsBuffer(buf') /\ Contents(buf') = Contents(b) \o c
    BY <2>1, <2>2, <2>3, <2>5, <2>6, GrowAndAppend
  <2>8. TypeOK'
    BY <1>0, <2>3, <2>7 DEF TypeOK
  <2> QED
    BY <2>1, <2>3, <2>7, <2>8 DEF Queue!Put
<1>2. ASSUME NEW c \in Chunks, SendallNoMemory(c)
      PROVE  TypeOK' /\ UNCHANGED <<Contents(buf), freed>>
  <2> DEFINE b == AlignedFor(Len(c))
  <2>1. IsBuffer(b) /\ Contents(b) = Contents(buf)
    BY <1>0, AlignedKeeps DEF AlignedFor
  <2>2. PICK m \in Doublings(b.size) : buf' = buffer_newsize(b, m)
    BY <1>2 DEF SendallNoMemory
  <2>3. freed' = freed /\ user' = user
    BY <1>2 DEF SendallNoMemory
  <2> HIDE DEF b
  <2>4. m \in Nat /\ b.size <= m
    BY <2>1, <2>2, DoublingsGrow
  <2>5. IsBuffer(buf') /\ Contents(buf') = Contents(b)
    BY <2>1, <2>2, <2>4, NewsizeKeeps
  <2> QED
    BY <1>0, <2>1, <2>3, <2>5 DEF TypeOK
<1>3. ASSUME NEW c \in Chunks, Receive(c)
      PROVE  TypeOK' /\ Queue!Put(c)
  <2> DEFINE b == RoomToReceive
             n == IF buffer_spacecount(b) = 0 THEN 2 * b.size ELSE b.size
  <2>1. IsBuffer(b) /\ Contents(b) = Contents(buf)
    BY <1>0, AlignedKeeps DEF RoomToReceive
  <2>2. /\ Len(c) <= n - b.tail
        /\ buf' = buffer_produced(buffer_newsize(b, n), c)
    BY <1>3 DEF Receive
  <2>3. ~freed /\ freed' = freed /\ user' = user /\ c \in Seq(Byte)
    BY <1>3, BufferAssumption DEF Receive
  <2>4. n \in Nat /\ b.size <= n
    <3> HIDE DEF b
    <3> QED
      BY <2>1 DEF IsBuffer
  <2> HIDE DEF b, n
  <2>5. IsBuffer(buf') /\ Contents(buf') = Contents(b) \o c
    BY <2>1, <2>2, <2>3, <2>4, GrowAndAppend
  <2>6. TypeOK'
    BY <1>0, <2>3, <2>5 DEF TypeOK
  <2> QED
    BY <2>1, <2>3, <2>5, <2>6 DEF Queue!Put
<1>4. ASSUME NEW n \in 1..buffer_datacount(buf), Consume(n)
      PROVE  TypeOK' /\ Queue!Take(n) /\ n \in 1..Len(Contents(buf))
  <2>1. buf' = buffer_consume(buf, n) /\ ~freed /\ freed' = freed /\ user' = user
    BY <1>4 DEF Consume
  <2>2. n \in 1..(buf.tail - buf.head)
    BY DEF buffer_datacount
  <2>3. Len(Contents(buf)) = buf.tail - buf.head
    BY <1>0, ContentsSeq
  <2>4. IsBuffer(buf') /\ Contents(buf') = SubSeq(Contents(buf), n + 1, Len(Contents(buf)))
    BY <1>0, <2>1, <2>2, ConsumeTakes
  <2> QED
    BY <1>0, <2>1, <2>2, <2>3, <2>4 DEF TypeOK, Queue!Take
<1>5. ASSUME buffer_destroy
      PROVE  TypeOK' /\ Queue!Destroy
  <2>1. /\ ~freed /\ freed' = TRUE /\ user' = user
        /\ buf' = [mem |-> [i \in 1..0 |-> Junk], size |-> 0, head |-> 0, tail |-> 0]
    BY <1>5 DEF buffer_destroy
  <2>2. IsBuffer(buf')
    BY <2>1 DEF IsBuffer
  <2>3. Contents(buf') = <<>>
    <3>1. Contents(buf') \in Seq(Byte \cup {Junk}) /\ Len(Contents(buf')) = 0
      BY <2>1, <2>2, ContentsSeq
    <3> QED
      BY <3>1, EmptySeq
  <2>4. TypeOK'
    BY <1>0, <2>1, <2>2 DEF TypeOK
  <2> QED
    BY <2>1, <2>3, <2>4 DEF Queue!Destroy
<1>6. CASE Finished \/ UNCHANGED vars
  BY <1>0, <1>6 DEF Finished, vars, TypeOK
<1> QED
  BY <1>1, <1>2, <1>3, <1>4, <1>5, <1>6 DEF Next, Queue!Next

(***************************************************************************)
(* head and tail never leave the block: no copy into the buffer runs past  *)
(* its end and no read starts outside it.                                  *)
(***************************************************************************)
THEOREM BufferInBounds == Spec => []TypeOK
<1>1. Init => TypeOK
  <2>1. Init => IsBuffer(buf)
    BY BufferAssumption DEF Init, IsBuffer
  <2>2. Init => freed \in BOOLEAN /\ user \in {"send_queue", "session"}
    BY Zenon DEF Init
  <2> QED
    BY <2>1, <2>2 DEF TypeOK
<1>2. TypeOK /\ [Next]_vars => TypeOK'
  BY QueueStep
<1> QED
  BY <1>1, <1>2, PTL DEF Spec

(***************************************************************************)
(* The buffer implements the byte queue: no byte is lost, duplicated,      *)
(* reordered or invented by realigning, growing, failing to grow or        *)
(* consuming part of the data.                                             *)
(***************************************************************************)
THEOREM BufferRefinesQueue == Spec => IsByteQueue
<1>1. Init => Queue!Init
  <2> SUFFICES ASSUME Init
               PROVE  Contents(buf) = <<>> /\ freed = FALSE
    BY DEF Queue!Init
  <2>1. buf.head = 0 /\ buf.tail = 0 /\ IsBuffer(buf)
    BY BufferAssumption DEF Init, IsBuffer
  <2>2. Contents(buf) \in Seq(Byte \cup {Junk}) /\ Len(Contents(buf)) = 0
    BY <2>1, ContentsSeq
  <2> QED
    BY <2>2, EmptySeq DEF Init
<1>2. TypeOK /\ [Next]_vars => [Queue!Next]_<<Contents(buf), freed>>
  BY QueueStep
<1> QED
  BY <1>1, <1>2, BufferInBounds, PTL DEF Spec, IsByteQueue, Queue!Spec

(***************************************************************************)
(* A session's buffer doubles, and only when it is full of unread bytes.   *)
(***************************************************************************)
THEOREM BufferGrowth == Spec => GrowsOnlyWhenFull
<1> DEFINE Growth ==
       buf'.size > buf.size /\ user = "session"
         => buffer_datacount(buf) = buf.size /\ buf'.size = 2 * buf.size
<1>1. ASSUME TypeOK, Next
      PROVE  Growth
  <2>0. IsBuffer(buf)
    BY <1>1 DEF TypeOK
  <2>1. ASSUME NEW c \in Chunks, Receive(c)
        PROVE  Growth
    <3> DEFINE b == RoomToReceive
    <3>1. buf'.size = IF buffer_spacecount(b) = 0 THEN 2 * b.size ELSE b.size
      BY <2>1 DEF Receive, buffer_produced, buffer_newsize
    <3>2. CASE buffer_spacecount(buf) = 0
      <4>1. b.size = buf.size /\ b.tail = buffer_datacount(buf)
        BY <3>2 DEF RoomToReceive, buffer_realign
      <4>2. buf.size \in Nat /\ buffer_datacount(buf) \in Int
        BY <2>0 DEF IsBuffer, buffer_datacount
      <4> QED
        BY <3>1, <4>1, <4>2 DEF buffer_spacecount
    <3>3. CASE buffer_spacecount(buf) # 0
      <4>1. b = buf
        BY <3>3 DEF RoomToReceive
      <4> QED
        BY <2>0, <3>1, <3>3, <4>1 DEF IsBuffer
    <3> QED
      BY <3>2, <3>3
  <2>2. ASSUME NEW c \in Chunks, SendallAppend(c) \/ SendallNoMemory(c)
        PROVE  Growth
    BY <2>2 DEF SendallAppend, SendallNoMemory
  <2>3. ASSUME NEW n \in 1..buffer_datacount(buf), Consume(n)
        PROVE  Growth
    <3>1. buf'.size = buf.size
      BY <2>0, <2>3 DEF Consume, buffer_consume, IsBuffer
    <3> QED
      BY <2>0, <3>1 DEF IsBuffer
  <2>4. CASE buffer_destroy
    BY <2>0, <2>4 DEF buffer_destroy, IsBuffer
  <2>5. CASE Finished
    BY <2>0, <2>5 DEF Finished, vars, IsBuffer
  <2> QED
    BY <1>1, <2>1, <2>2, <2>3, <2>4, <2>5 DEF Next
<1>2. TypeOK /\ [Next]_vars => [Growth]_vars
  BY <1>1
<1> QED
  BY <1>2, BufferInBounds, PTL DEF Spec, GrowsOnlyWhenFull

-----------------------------------------------------------------------------
(***************************************************************************)
(* The status report.  While stats_send_statistics is at work the buffer   *)
(* of the session waits, so that everything said above of that buffer also *)
(* holds with the report beside it.                                        *)
(***************************************************************************)
LEMMA StatusStepIsBufferStep == [StatusNext]_allVars => [Next]_vars
BY DEF StatusNext, allVars, BufferStep, Ask, WriteLine, AllWritten, SendSome,
       SendFails, SendDone, delete_buffer

(* Making a status report in the middle of a session's work does not       *)
(* disturb the session's buffer: the relay with status reports is the      *)
(* buffer as its users drive it.                                           *)
THEOREM StatusRefinesBuffer == StatusSpec => Spec
<1>1. StatusInit => Init
  BY DEF StatusInit
<1>2. [StatusNext]_allVars => [Next]_vars
  BY StatusStepIsBufferStep
<1> QED
  BY <1>1, <1>2, PTL DEF StatusSpec, Spec

-----------------------------------------------------------------------------
(* Every set of numbers has a least one, ...                               *)
LEMMA LeastOfSet ==
    ASSUME NEW S, S \subseteq Nat, S # {}
    PROVE  \E n \in S : \A m \in S : n <= m
<1> DEFINE R == OpToRel(<, Nat)
<1>1. PICK n \in S : \A m \in S : ~(<<m, n>> \in R)
  <2>1. IsWellFoundedOn(R, Nat)
    BY NatLessThanWellFounded
  <2> HIDE DEF R
  <2> QED
    BY <2>1, WFMin
<1>2. \A m \in S : ~(m < n)
  BY <1>1 DEF OpToRel
<1> QED
  BY <1>2

(* ... hence induction, for the set of the numbers with a property.        *)
LEMMA SetInduction ==
    ASSUME NEW S, 0 \in S, \A n \in Nat : n \in S => n + 1 \in S
    PROVE  Nat \subseteq S
<1> SUFFICES ASSUME Nat \ S # {} PROVE FALSE
  OBVIOUS
<1>1. PICK n \in Nat \ S : \A m \in Nat \ S : n <= m
  BY LeastOfSet
<1>2. n - 1 \in Nat /\ n - 1 \in S
  BY <1>1
<1> QED
  BY <1>1, <1>2

(* The bytes of a report, the NUL included, and of the block they are in.  *)
ReportByte == Nat \X Nat
BlockByte == ReportByte \cup {Junk}

(* A line of a report has the length the report says and ends where it does. *)
LEMMA LineBytes ==
    ASSUME NEW r \in Seq(Nat \ {0}), NEW k \in 1..Len(r)
    PROVE  /\ r[k] \in Nat \ {0}
           /\ ReportLine(r, k) \in Seq(ReportByte)
           /\ Len(ReportLine(r, k)) = r[k]
           /\ \A j \in 1..r[k] : ReportLine(r, k)[j] = <<k, j>>
<1>1. r[k] \in Nat \ {0}
  BY ElementOfSeq
<1>2. k \in Nat
  BY LenProperties
<1>3. ReportLine(r, k) \in Seq(ReportByte)
  <2>1. \A j \in 1..r[k] : <<k, j>> \in ReportByte
    BY <1>1, <1>2 DEF ReportByte
  <2> QED
    BY <1>1, <2>1 DEF ReportLine
<1> QED
  BY <1>1, <1>3 DEF ReportLine

(* The equation that defines FirstLines at k has a solution.               *)
LineStep(r, w, k) == IF k = 0 THEN <<>> ELSE w[k - 1] \o ReportLine(r, k)

LEMMA FirstLinesExist ==
    ASSUME NEW r \in Seq(Nat \ {0})
    PROVE  \E w \in [0..Len(r) -> Seq(ReportByte)] :
              w = [k \in 0..Len(r) |-> LineStep(r, w, k)]
<1> DEFINE Good(n, w) == w = [k \in 0..n |-> LineStep(r, w, k)]
           P == {n \in Nat : n <= Len(r) => \E w \in [0..n -> Seq(ReportByte)] : Good(n, w)}
<1>1. 0 \in P
  <2> DEFINE w == [k \in 0..0 |-> <<>>]
  <2>1. w \in [0..0 -> Seq(ReportByte)]
    OBVIOUS
  <2>2. Good(0, w)
    BY DEF LineStep
  <2> QED
    BY <2>1, <2>2
<1>2. ASSUME NEW n \in Nat, n \in P PROVE n + 1 \in P
  <2> SUFFICES ASSUME n + 1 <= Len(r)
               PROVE  \E v \in [0..(n + 1) -> Seq(ReportByte)] : Good(n + 1, v)
    <3>1. n + 1 \in Nat
      OBVIOUS
    <3> HIDE DEF Good
    <3> QED
      BY <3>1, Zenon
  <2>0. n <= Len(r)
    BY LenProperties
  <2>1. PICK w \in [0..n -> Seq(ReportByte)] : Good(n, w)
    BY <1>2, <2>0
  <2> DEFINE v == [k \in 0..(n + 1) |-> IF k <= n THEN w[k] ELSE LineStep(r, w, n + 1)]
  <2>2. n + 1 \in 1..Len(r) /\ w[n] \in Seq(ReportByte)
    OBVIOUS
  <2>3. LineStep(r, w, n + 1) \in Seq(ReportByte)
    <3>1. ReportLine(r, n + 1) \in Seq(ReportByte)
      BY <2>2, LineBytes
    <3>2. w[n] \o ReportLine(r, n + 1) \in Seq(ReportByte)
      BY <2>2, <3>1, ConcatProperties
    <3>3. (n + 1) - 1 = n /\ n + 1 # 0
      OBVIOUS
    <3> QED
      BY <3>2, <3>3 DEF LineStep
  <2>4. v \in [0..(n + 1) -> Seq(ReportByte)]
    BY <2>3
  <2>5. ASSUME NEW k \in 0..(n + 1) PROVE v[k] = LineStep(r, v, k)
    <3>1. CASE k = 0
      BY <2>1, <3>1 DEF LineStep
    <3>2. CASE k \in 1..n
      <4>1. v[k] = w[k] /\ v[k - 1] = w[k - 1] /\ w[k] = LineStep(r, w, k)
        BY <2>1, <3>2
      <4> QED
        BY <3>2, <4>1 DEF LineStep
    <3>3. CASE k = n + 1
      <4>1. v[k] = LineStep(r, w, k) /\ v[k - 1] = w[k - 1]
        BY <3>3
      <4> QED
        BY <3>3, <4>1 DEF LineStep
    <3> QED
      BY <3>1, <3>2, <3>3
  <2>6. Good(n + 1, v)
    BY <2>4, <2>5
  <2> QED
    BY <2>4, <2>6
<1>3. Len(r) \in P
  <2> HIDE DEF P
  <2>1. Nat \subseteq P
    BY <1>1, <1>2, SetInduction
  <2>2. Len(r) \in Nat
    OBVIOUS
  <2> QED
    BY <2>1, <2>2
<1> QED
  BY <1>3

(* FirstLines takes the lines of the report one after the other.           *)
LEMMA FirstLinesDef ==
    ASSUME NEW r \in Seq(Nat \ {0})
    PROVE  /\ FirstLines(r)[0] = <<>>
           /\ \A k \in 0..Len(r) : FirstLines(r)[k] \in Seq(ReportByte)
           /\ \A k \in 1..Len(r) :
                 FirstLines(r)[k] = FirstLines(r)[k - 1] \o ReportLine(r, k)
<1>1. FirstLines(r) = CHOOSE w : w = [k \in 0..Len(r) |-> LineStep(r, w, k)]
  BY DEF FirstLines, LineStep
<1>2. FirstLines(r) = [k \in 0..Len(r) |-> LineStep(r, FirstLines(r), k)]
  BY <1>1, FirstLinesExist
<1> DEFINE w == FirstLines(r)
           P == {n \in Nat : n <= Len(r) => w[n] \in Seq(ReportByte)}
<1> HIDE DEF w
<1>3. w = [k \in 0..Len(r) |-> LineStep(r, w, k)] /\ Len(r) \in Nat
  BY <1>2 DEF w
<1>4. w[0] = <<>>
  BY <1>3 DEF LineStep
<1>5. ASSUME NEW k \in 1..Len(r) PROVE w[k] = w[k - 1] \o ReportLine(r, k)
  <2>1. k \in 0..Len(r) /\ k # 0
    BY <1>3
  <2>2. w[k] = LineStep(r, w, k)
    BY <1>3, <2>1
  <2> QED
    BY <2>1, <2>2 DEF LineStep
<1>6. 0 \in P
  <2>1. <<>> \in Seq(ReportByte)
    OBVIOUS
  <2> QED
    BY <1>4, <2>1
<1>7. ASSUME NEW n \in Nat, n \in P PROVE n + 1 \in P
  <2> SUFFICES ASSUME n + 1 <= Len(r) PROVE w[n + 1] \in Seq(ReportByte)
    OBVIOUS
  <2>1. n + 1 \in 1..Len(r) /\ w[n] \in Seq(ReportByte) /\ (n + 1) - 1 = n
    BY <1>3, <1>7
  <2>2. ReportLine(r, n + 1) \in Seq(ReportByte)
    BY <2>1, LineBytes
  <2>3. w[n] \o ReportLine(r, n + 1) \in Seq(ReportByte)
    BY <2>1, <2>2, ConcatProperties
  <2> QED
    BY <1>5, <2>1, <2>3
<1>8. Nat \subseteq P
  <2> HIDE DEF P
  <2> QED
    BY <1>6, <1>7, SetInduction
<1>9. \A k \in 0..Len(r) : w[k] \in Seq(ReportByte)
  BY <1>3, <1>8
<1> QED
  BY <1>4, <1>5, <1>9 DEF w

-----------------------------------------------------------------------------
(***************************************************************************)
(* WholeLines for an answer a to report r of which n lines are written:    *)
(* no byte of a later line is there, which is what the next line needs.    *)
(***************************************************************************)
Succeeds(r, x, y) ==
    \/ x[1] = y[1] /\ y[2] = x[2] + 1
    \/ x[1] < y[1] /\ x[2] = r[x[1]] /\ y[2] = 1

OfLines(r, n, x) == \E k \in 1..n : \E j \in 1..r[k] : x = <<k, j>>

Whole(a, r, n) ==
    /\ \A i \in 1..Len(a) : OfLines(r, n, a[i]) \/ (a[i] = NUL /\ i = ReportSize)
    /\ a # <<>> =>
         /\ a[1][2] = 1 \/ a[1] = NUL
         /\ \A i \in 1..(Len(a) - 1) : a[i + 1] # NUL => Succeeds(r, a[i], a[i + 1])
         /\ a[Len(a)] = NUL \/ a[Len(a)][2] = r[a[Len(a)][1]]

(* What snprintf leaves of line k: the line, or all of it but the newline. *)
IsLine(c, r, k) ==
    /\ c \in Seq(ReportByte) /\ Len(c) = r[k]
    /\ \A j \in 1..(r[k] - 1) : c[j] = <<k, j>>
    /\ c[r[k]] = <<k, r[k]>> \/ c[r[k]] = NUL

LEMMA AppendWhole ==
    ASSUME NEW r \in Seq(Nat \ {0}), NEW n \in 0..(Len(r) - 1),
           NEW a \in Seq(BlockByte), Whole(a, r, n),
           NEW c, IsLine(c, r, n + 1), Len(a) + r[n + 1] <= ReportSize,
           c[r[n + 1]] = NUL => Len(a) + r[n + 1] = ReportSize
    PROVE  Whole(a \o c, r, n + 1)
<1> DEFINE k == n + 1
           m == Len(a)
           l == r[k]
           s == a \o c
<1>1. n \in Nat /\ k \in 1..Len(r) /\ k \in Nat /\ m \in Nat /\ ReportSize \in Nat
  BY ReportAssumption, LenProperties
<1>2. l \in Nat \ {0}
  BY <1>1, ElementOfSeq
<1>3. Len(c) = l /\ c \in Seq(BlockByte)
  BY SeqMonotonic, LenProperties, ElementOfSeq DEF IsLine, BlockByte
<1>4. /\ s \in Seq(BlockByte) /\ Len(s) = m + l
      /\ \A i \in 1..(m + l) : s[i] = IF i <= m THEN a[i] ELSE c[i - m]
  <2>1. /\ a \o c \in Seq(BlockByte) /\ Len(a \o c) = Len(a) + Len(c)
        /\ \A i \in 1..(Len(a) + Len(c)) :
              (a \o c)[i] = IF i <= Len(a) THEN a[i] ELSE c[i - Len(a)]
    BY <1>3, ConcatProperties
  <2> QED
    BY <1>3, <2>1
<1>5. /\ \A j \in 1..(l - 1) : c[j] = <<k, j>>
      /\ c[l] = <<k, l>> \/ (c[l] = NUL /\ m + l = ReportSize)
  BY DEF IsLine
<1> HIDE DEF k, m, l, s
<1>6. /\ \A i \in 1..m : s[i] = a[i]
      /\ \A j \in 1..l : m + j \in 1..(m + l) /\ s[m + j] = c[j]
  <2>1. ASSUME NEW i \in 1..m PROVE s[i] = a[i]
    <3>1. i \in 1..(m + l) /\ i <= m
      BY <1>1, <1>2
    <3> QED
      BY <1>4, <3>1
  <2>2. ASSUME NEW j \in 1..l PROVE m + j \in 1..(m + l) /\ s[m + j] = c[j]
    <3>1. m + j \in 1..(m + l) /\ ~(m + j <= m) /\ (m + j) - m = j
      BY <1>1, <1>2
    <3> QED
      BY <1>4, <3>1
  <2> QED
    BY <2>1, <2>2
<1>7. \A j \in 1..l : \/ c[j] = <<k, j>>
                      \/ j = l /\ c[j] = NUL /\ m + l = ReportSize
  <2>1. \A j \in 1..l : j \in 1..(l - 1) \/ j = l
    BY <1>2
  <2> QED
    BY <1>5, <2>1
<1>8. \A i \in 1..(m + l) : i \in 1..m \/ \E j \in 1..l : i = m + j
  <2>1. \A i \in 1..(m + l) : i \notin 1..m => i - m \in 1..l /\ i = m + (i - m)
    BY <1>1, <1>2
  <2> QED
    BY <2>1
<1>9. \A i \in 1..m : OfLines(r, n, a[i]) \/ (a[i] = NUL /\ i = ReportSize)
  BY DEF Whole, m
<1>10. ASSUME NEW i \in 1..Len(s)
       PROVE  OfLines(r, k, s[i]) \/ (s[i] = NUL /\ i = ReportSize)
  <2>1. CASE i \in 1..m
    <3>1. OfLines(r, n, a[i]) => OfLines(r, k, a[i])
      <4>1. \A q \in 1..n : q \in 1..k
        BY <1>1 DEF k
      <4> QED
        BY <4>1 DEF OfLines
    <3> QED
      BY <1>6, <1>9, <2>1, <3>1
  <2>2. ASSUME NEW j \in 1..l, i = m + j
        PROVE  OfLines(r, k, s[i]) \/ (s[i] = NUL /\ i = ReportSize)
    <3>1. s[i] = c[j] /\ k \in 1..k
      BY <1>1, <1>6, <2>2
    <3>2. c[j] = <<k, j>> => OfLines(r, k, c[j])
      BY <3>1 DEF OfLines, l
    <3> QED
      BY <1>7, <2>2, <3>1, <3>2
  <2> QED
    BY <1>4, <1>8, <2>1, <2>2
<1>11. s[1][2] = 1 \/ s[1] = NUL
  <2>1. CASE m = 0
    <3>1. 1 \in 1..l /\ m + 1 = 1
      BY <1>2, <2>1
    <3>2. s[1] = c[1] /\ (c[1] = <<k, 1>> \/ c[1] = NUL)
      BY <1>6, <1>7, <3>1
    <3> QED
      BY <3>2
  <2>2. CASE m # 0
    <3>1. 1 \in 1..m /\ a # <<>>
      BY <1>1, <2>2 DEF m
    <3> QED
      BY <1>6, <3>1 DEF Whole
  <2> QED
    BY <2>1, <2>2
<1>12. ASSUME NEW i \in 1..(Len(s) - 1), s[i + 1] # NUL
       PROVE  Succeeds(r, s[i], s[i + 1])
  <2>1. CASE i + 1 \in 1..m
    <3>1. i \in 1..m /\ i \in 1..(m - 1) /\ a # <<>>
      BY <1>1, <1>2, <1>4, <2>1 DEF m
    <3>2. a[i + 1] # NUL => Succeeds(r, a[i], a[i + 1])
      BY <3>1 DEF Whole, m
    <3> QED
      BY <1>6, <1>12, <2>1, <3>1, <3>2
  <2>2. CASE i = m
    <3>1. 1 \in 1..l /\ m \in 1..m /\ m # 0 /\ a # <<>> /\ m # ReportSize
      <4>1. l \in Nat \ {0} /\ m + l <= ReportSize
        BY <1>2 DEF m, l, k
      <4>2. m # 0
        BY <2>2
      <4> QED
        BY <1>1, <4>1, <4>2 DEF m
    <3>2. s[i + 1] = <<k, 1>>
      BY <1>6, <1>7, <1>12, <2>2, <3>1
    <3>3. s[i] = a[m] /\ a[m] # NUL /\ OfLines(r, n, a[m])
      <4>1. OfLines(r, n, a[m])
        BY <1>9, <3>1
      <4>2. \A q \in 1..n : \A j \in 1..r[q] : <<q, j>> # <<0, 0>>
        BY <1>1
      <4> QED
        BY <1>6, <2>2, <3>1, <4>1, <4>2 DEF OfLines, NUL
    <3>4. a[m][2] = r[a[m][1]]
      BY <3>1, <3>3 DEF Whole, m
    <3>5. a[m][1] < k
      BY <1>1, <3>3 DEF OfLines, k
    <3>6. s[i + 1][1] = k /\ s[i + 1][2] = 1
      BY <3>2
    <3> QED
      BY <3>3, <3>4, <3>5, <3>6 DEF Succeeds
  <2>3. CASE i \in (m + 1)..(m + l - 1)
    <3>1. PICK j \in 1..(l - 1) : i = m + j
      <4>1. i - m \in 1..(l - 1) /\ i = m + (i - m)
        BY <1>1, <1>2, <2>3
      <4> QED
        BY <4>1
    <3>2. j \in 1..l /\ j # l /\ j + 1 \in 1..l /\ i + 1 = m + (j + 1)
      BY <1>1, <1>2, <3>1
    <3>3. s[i] = <<k, j>>
      BY <1>6, <1>7, <3>1, <3>2
    <3>4. s[i + 1] = <<k, j + 1>>
      BY <1>6, <1>7, <1>12, <3>2
    <3>5. /\ s[i][1] = k /\ s[i][2] = j
          /\ s[i + 1][1] = k /\ s[i + 1][2] = j + 1
      BY <3>3, <3>4
    <3> QED
      BY <3>5 DEF Succeeds
  <2> QED
    BY <1>1, <1>2, <1>4, <2>1, <2>2, <2>3
<1>13. s[Len(s)] = NUL \/ s[Len(s)][2] = r[s[Len(s)][1]]
  <2>1. l \in 1..l
    BY <1>2
  <2>2. s[Len(s)] = c[l] /\ (c[l] = <<k, l>> \/ c[l] = NUL)
    BY <1>4, <1>5, <1>6, <2>1
  <2>3. CASE c[l] = <<k, l>>
    <3>1. s[Len(s)][1] = k /\ s[Len(s)][2] = l
      BY <2>2, <2>3
    <3> QED
      BY <3>1 DEF l
  <2> QED
    BY <2>2, <2>3
<1>14. Whole(s, r, k)
  BY <1>10, <1>11, <1>12, <1>13 DEF Whole
<1> QED
  BY <1>14 DEF s, k

-----------------------------------------------------------------------------
(* The bytes written so far and not sent, after those sent: Answer for any *)
(* buffer b and reply y.                                                   *)
Pending(y, b) == y \o Contents(b)

StatusTypeOK ==
    /\ stage \in {"idle", "writing", "sending"}
    /\ lines \in Seq(Nat \ {0})
    /\ next \in 1..(Len(lines) + 1)
    /\ IsBlock(response, BlockByte)
    /\ reply \in Seq(BlockByte)

(* Nothing is sent before all lines are written. *)
Phases ==
    /\ stage # "sending" => reply = <<>>
    /\ stage = "writing" => response.head = 0 /\ response.size = ReportSize
    /\ stage = "sending" => next = Len(lines) + 1

(* All lines written so far are there, unless they exceed the buffer. *)
Complete(a, r, n) ==
    \/ a = FirstLines(r)[n]
    \/ Len(FirstLines(r)[n]) >= ReportSize

ReportInv ==
    /\ StatusTypeOK
    /\ Phases
    /\ Whole(Pending(reply, response), lines, next - 1)
    /\ Complete(Pending(reply, response), lines, next - 1)

(* Nothing is pending for an empty buffer. *)
LEMMA EmptyBlock ==
    ASSUME NEW n \in Nat
    PROVE  /\ IsBlock(create_buffer(n), BlockByte)
           /\ Contents(create_buffer(n)) = <<>>
           /\ create_buffer(n).head = 0 /\ create_buffer(n).tail = 0
           /\ create_buffer(n).size = n
           /\ Pending(<<>>, create_buffer(n)) = <<>>
<1> DEFINE b == create_buffer(n)
<1>1. /\ b = [mem |-> b.mem, size |-> b.size, head |-> b.head, tail |-> b.tail]
      /\ b.size = n /\ b.head = 0 /\ b.tail = 0
      /\ b.mem = [i \in 1..n |-> Junk]
  BY DEF create_buffer
<1>2. IsBlock(b, BlockByte)
  BY <1>1 DEF IsBlock, BlockByte
<1> HIDE DEF b
<1>3. Contents(b) \in Seq(BlockByte) /\ Len(Contents(b)) = 0
  BY <1>1, <1>2, BlockContents
<1>4. Contents(b) = <<>>
  BY <1>3, EmptySeq
<1>5. <<>> \o <<>> = <<>>
  OBVIOUS
<1> QED
  BY <1>1, <1>2, <1>4, <1>5 DEF b, Pending

(* An empty answer to a report no line of which is written. *)
LEMMA EmptyAnswer ==
    ASSUME NEW r \in Seq(Nat \ {0})
    PROVE  Whole(<<>>, r, 0) /\ Complete(<<>>, r, 0)
<1>1. Whole(<<>>, r, 0)
  BY DEF Whole
<1>2. Complete(<<>>, r, 0)
  BY FirstLinesDef DEF Complete
<1> QED
  BY <1>1, <1>2

(* send() moves bytes from the buffer to the reply: their sequence stays.  *)
LEMMA SendKeepsPending ==
    ASSUME NEW b, IsBlock(b, BlockByte), NEW y \in Seq(BlockByte),
           NEW n \in 1..(b.tail - b.head)
    PROVE  /\ y \o SubSeq(Contents(b), 1, n) \in Seq(BlockByte)
           /\ IsBlock(buffer_consume(b, n), BlockByte)
           /\ Pending(y \o SubSeq(Contents(b), 1, n), buffer_consume(b, n)) = Pending(y, b)
<1> DEFINE s == Contents(b)
           e == Len(s)
           d == buffer_consume(b, n)
           u == SubSeq(s, 1, n)
           v == SubSeq(s, n + 1, e)
<1>1. s \in Seq(BlockByte) /\ e = b.tail - b.head /\ e \in Nat /\ n \in Nat /\ n \in 1..e
  BY BlockContents, LenProperties
<1>2. IsBlock(d, BlockByte) /\ Contents(d) = v
  BY BlockConsumed
<1> HIDE DEF s, d
<1>3. /\ u \in Seq(BlockByte) /\ Len(u) = n
      /\ \A i \in 1..n : u[i] = s[i]
  BY <1>1
<1>4. /\ v \in Seq(BlockByte) /\ Len(v) = e - n
      /\ \A i \in 1..(e - n) : v[i] = s[n + i]
  BY <1>1
<1> HIDE DEF u, v, e
<1>5. /\ u \o v \in Seq(BlockByte) /\ Len(u \o v) = Len(u) + Len(v)
      /\ \A i \in 1..(Len(u) + Len(v)) : (u \o v)[i] = IF i <= Len(u) THEN u[i] ELSE v[i - Len(u)]
  BY <1>3, <1>4, ConcatProperties
<1>6. Len(u \o v) = e /\ Len(u) + Len(v) = e
  BY <1>1, <1>3, <1>4, <1>5
<1>7. ASSUME NEW i \in 1..e PROVE (u \o v)[i] = s[i]
  <2>1. CASE i <= n
    <3>1. i \in 1..n
      BY <1>1, <2>1
    <3> QED
      BY <1>3, <1>5, <1>6, <2>1, <3>1
  <2>2. CASE ~(i <= n)
    <3>1. i - n \in 1..(e - n) /\ n + (i - n) = i
      BY <1>1, <2>2
    <3>2. v[i - n] = s[i]
      BY <1>4, <3>1
    <3> QED
      BY <1>3, <1>5, <1>6, <2>2, <3>2
  <2> QED
    BY <2>1, <2>2
<1>8. u \o v = s
  BY <1>1, <1>5, <1>6, <1>7, SeqEqual DEF e
<1>9. y \o u \in Seq(BlockByte) /\ (y \o u) \o v = y \o (u \o v)
  BY <1>3, <1>4, ConcatProperties, ConcatAssociative
<1> QED
  BY <1>2, <1>8, <1>9 DEF Pending, s, u, v, d, e

(* A line that is added adds its length. *)
LengthsAdd(x, y) == Len(x) \in Nat /\ Len(x \o y) = Len(x) + Len(y)

LEMMA JoinedLength ==
    ASSUME NEW x \in Seq(ReportByte), NEW y \in Seq(ReportByte)
    PROVE  LengthsAdd(x, y)
BY ConcatProperties, LenProperties DEF LengthsAdd

(* snprintf and buffer_produced add the next line, or its start and a NUL  *)
(* if it just fills the block, or nothing if it does not fit.              *)
LEMMA LineAdded ==
    ASSUME NEW b, IsBlock(b, BlockByte), b.head = 0, b.size = ReportSize,
           NEW r \in Seq(Nat \ {0}), NEW n \in 0..(Len(r) - 1),
           Whole(Contents(b), r, n), Complete(Contents(b), r, n),
           NEW d, d = snprintf_produced(b, ReportLine(r, n + 1))
    PROVE  /\ IsBlock(d, BlockByte) /\ d.head = 0 /\ d.size = ReportSize
           /\ Whole(Contents(d), r, n + 1)
           /\ Complete(Contents(d), r, n + 1)
<1> DEFINE k == n + 1
           l == r[k]
           c == ReportLine(r, k)
           a == Contents(b)
           space == buffer_spacecount(b)
           f == FirstLines(r)
<1>1. n \in Nat /\ k \in 1..Len(r) /\ k \in 0..Len(r) /\ n \in 0..Len(r)
      /\ k - 1 = n /\ ReportSize \in Nat
  BY ReportAssumption, LenProperties
<1>2. l \in Nat \ {0} /\ c \in Seq(ReportByte) /\ Len(c) = l
      /\ \A j \in 1..l : c[j] = <<k, j>>
  BY <1>1, LineBytes
<1>3. a \in Seq(BlockByte) /\ Len(a) \in Nat /\ space = ReportSize - Len(a)
      /\ space = b.size - b.tail
  <2>1. a \in Seq(BlockByte) /\ Len(a) = b.tail - b.head
    BY BlockContents
  <2>2. b.tail \in Nat
    BY DEF IsBlock
  <2>3. Len(a) = b.tail
    BY <2>1, <2>2
  <2> QED
    BY <2>1, <2>2, <2>3 DEF buffer_spacecount
<1>4. /\ f[n] \in Seq(ReportByte) /\ f[k] \in Seq(ReportByte) /\ f[k] = f[n] \o c
  BY <1>1, FirstLinesDef
<1> HIDE DEF k, l, c, a, space, f
<1>5. Len(f[n]) \in Nat /\ Len(f[k]) = Len(f[n]) + l
  <2> DEFINE p == f[n]
  <2>1. p \in Seq(ReportByte) /\ f[k] = p \o c
    BY <1>4
  <2> HIDE DEF p
  <2>2. Len(p) \in Nat /\ Len(p \o c) = Len(p) + Len(c)
    <3>1. LengthsAdd(p, c)
      BY <1>2, <2>1, JoinedLength
    <3> QED
      BY <3>1 DEF LengthsAdd
  <2> QED
    BY <1>2, <2>1, <2>2 DEF p
<1>6. Len(f[n]) >= ReportSize => Len(f[k]) >= ReportSize
  BY <1>1, <1>2, <1>5
<1>7. a = f[n] \/ Len(f[n]) >= ReportSize
  BY DEF Complete, a, f
<1>8. d = CASE Len(c) < space -> buffer_produced(b, c)
            [] Len(c) = space -> buffer_produced(b, Append(SubSeq(c, 1, Len(c) - 1), NUL))
            [] Len(c) > space -> b
  BY DEF snprintf_produced, c, k, space
<1>9. ASSUME NEW g, IsLine(g, r, k), l <= space, g[l] = NUL => l = space,
             d = buffer_produced(b, g)
      PROVE  /\ IsBlock(d, BlockByte) /\ d.head = 0 /\ d.size = ReportSize
             /\ Contents(d) = a \o g
             /\ Whole(Contents(d), r, k)
  <2>1. g \in Seq(ReportByte) /\ Len(g) = l
    BY <1>9 DEF IsLine, l
  <2>2. g \in Seq(BlockByte)
    BY <2>1, SeqMonotonic, LenProperties, ElementOfSeq DEF BlockByte
  <2>3. Len(g) <= b.size - b.tail
    BY <1>3, <1>9, <2>1
  <2>4. IsBlock(d, BlockByte) /\ Contents(d) = a \o g
    BY <1>9, <2>2, <2>3, BlockProduced DEF a
  <2>5. d.head = 0 /\ d.size = ReportSize
    BY <1>9 DEF buffer_produced
  <2>6. Len(a) + l <= ReportSize /\ (g[l] = NUL => Len(a) + l = ReportSize)
    <3>1. l <= ReportSize - Len(a) /\ (g[l] = NUL => l = ReportSize - Len(a))
      BY <1>3, <1>9
    <3> QED
      BY <1>1, <1>2, <1>3, <3>1
  <2>7. Whole(a \o g, r, k)
    <3>1. Whole(a, r, n)
      BY DEF a
    <3> QED
      BY <1>3, <1>9, <2>6, <3>1, AppendWhole DEF k, l
  <2> QED
    BY <2>4, <2>5, <2>7
<1>10. CASE Len(c) < space
  <2>1. d = buffer_produced(b, c)
    <3>1. ~(Len(c) = space) /\ ~(Len(c) > space)
      BY <1>1, <1>2, <1>3, <1>10
    <3> QED
      BY <1>8, <1>10, <3>1
  <2>2. l \in 1..l /\ \A j \in 1..(l - 1) : j \in 1..l
    BY <1>2
  <2>3. c[l] = <<k, l>> /\ c[l] # NUL
    <3>1. c[l] = <<k, l>>
      BY <1>2, <2>2
    <3>2. k # 0
      BY <1>1
    <3> QED
      BY <3>1, <3>2 DEF NUL
  <2>4. IsLine(c, r, k)
    BY <1>2, <2>2, <2>3 DEF IsLine, l
  <2>5. l <= space
    BY <1>1, <1>2, <1>3, <1>10
  <2>6. /\ IsBlock(d, BlockByte) /\ d.head = 0 /\ d.size = ReportSize
        /\ Contents(d) = a \o c /\ Whole(Contents(d), r, k)
    BY <1>9, <2>1, <2>3, <2>4, <2>5
  <2>7. a \o c = f[k] \/ Len(f[k]) >= ReportSize
    BY <1>4, <1>6, <1>7
  <2> QED
    BY <2>6, <2>7 DEF Complete, f, k
<1>11. CASE ~(Len(c) < space)
  <2>1. Len(f[k]) >= ReportSize
    <3>1. a = f[n] => Len(f[k]) >= ReportSize
      BY <1>1, <1>2, <1>3, <1>5, <1>11
    <3> QED
      BY <1>6, <1>7, <3>1
  <2>2. Complete(Contents(d), r, k)
    BY <2>1 DEF Complete, f
  <2>3. CASE Len(c) = space
    <3> DEFINE h == SubSeq(c, 1, Len(c) - 1)
               g == Append(h, NUL)
    <3>1. h \in Seq(ReportByte) /\ Len(h) = l - 1 /\ \A j \in 1..(l - 1) : h[j] = c[j]
      BY <1>2
    <3> HIDE DEF h
    <3>2. NUL \in ReportByte
      BY DEF NUL, ReportByte
    <3>3. /\ g \in Seq(ReportByte) /\ Len(g) = l
          /\ \A j \in 1..(l - 1) : g[j] = h[j]
          /\ g[l] = NUL
      BY <1>2, <3>1, <3>2
    <3>4. \A j \in 1..(l - 1) : j \in 1..l
      BY <1>2
    <3>5. d = buffer_produced(b, g)
      <4>1. ~(Len(c) < space)
        BY <1>11
      <4> QED
        BY <1>2, <1>8, <2>3, <4>1 DEF h
    <3> HIDE DEF g
    <3>6. IsLine(g, r, k)
      BY <1>2, <3>1, <3>3, <3>4 DEF IsLine, l
    <3>7. l <= space /\ l = space
      BY <1>2, <2>3
    <3> QED
      BY <1>9, <2>2, <3>5, <3>6, <3>7 DEF k
  <2>4. CASE Len(c) > space
    <3>1. d = b
      BY <1>2, <1>3, <1>8, <1>11, <2>4
    <3>2. Whole(a, r, k)
      <4>1. \A q \in 1..n : q \in 1..k
        BY <1>1 DEF k
      <4>2. \A x : OfLines(r, n, x) => OfLines(r, k, x)
        BY <4>1 DEF OfLines
      <4>3. Whole(a, r, n)
        BY DEF a
      <4> QED
        BY <4>2, <4>3 DEF Whole
    <3> QED
      BY <2>2, <3>1, <3>2 DEF a, k
  <2>5. Len(c) = space \/ Len(c) > space
    <3>1. Len(c) \in Nat /\ space \in Int
      BY <1>1, <1>2, <1>3
    <3> QED
      BY <1>11, <3>1
  <2> QED
    BY <2>3, <2>4, <2>5
<1> QED
  BY <1>10, <1>11

(* Every step of stats_send_statistics keeps the invariant. *)
LEMMA ReportStep ==
    ASSUME ReportInv, [StatusNext]_allVars
    PROVE  ReportInv'
<1>0. /\ stage \in {"idle", "writing", "sending"} /\ lines \in Seq(Nat \ {0})
      /\ next \in 1..(Len(lines) + 1) /\ Len(lines) \in Nat
      /\ IsBlock(response, BlockByte) /\ reply \in Seq(BlockByte)
  BY LenProperties DEF ReportInv, StatusTypeOK
<1>1. ASSUME UNCHANGED statusVars
      PROVE  ReportInv'
  <2>1. /\ stage' = stage /\ lines' = lines /\ next' = next
        /\ response' = response /\ reply' = reply
    BY <1>1 DEF statusVars
  <2> QED
    BY <2>1 DEF ReportInv, StatusTypeOK, Phases
<1>2. ASSUME NEW r \in Reports, Ask(r)
      PROVE  ReportInv'
  <2>1. CASE UNCHANGED <<stage, lines, next, response>>
    BY <1>1, <1>2, <2>1 DEF Ask, statusVars
  <2>2. CASE /\ stage' = "writing" /\ lines' = r /\ next' = 1
             /\ response' = create_buffer(ReportSize)
    <3>1. r \in Seq(Nat \ {0}) /\ ReportSize \in Nat
      BY ReportAssumption
    <3>2. reply' = <<>>
      BY <1>2 DEF Ask, ReportInv, Phases
    <3>3. /\ IsBlock(response', BlockByte) /\ response'.head = 0
          /\ response'.size = ReportSize /\ Pending(reply', response') = <<>>
      BY <2>2, <3>1, <3>2, EmptyBlock
    <3>4. Whole(<<>>, r, 0) /\ Complete(<<>>, r, 0)
      BY <3>1, EmptyAnswer
    <3>5. next' - 1 = 0
      BY <2>2
    <3>6. StatusTypeOK'
      <4>1. next' \in 1..(Len(lines') + 1)
        BY <2>2, <3>1, LenProperties
      <4>2. reply' \in Seq(BlockByte)
        BY <3>2
      <4> QED
        BY <2>2, <3>1, <3>3, <4>1, <4>2 DEF StatusTypeOK
    <3>7. Phases'
      BY <2>2, <3>2, <3>3 DEF Phases
    <3> QED
      BY <2>2, <3>3, <3>4, <3>5, <3>6, <3>7 DEF ReportInv
  <2> QED
    BY <1>2, <2>1, <2>2 DEF Ask
<1>3. ASSUME WriteLine
      PROVE  ReportInv'
  <2>1. /\ stage = "writing" /\ stage' = stage /\ lines' = lines /\ reply' = reply
        /\ next <= Len(lines) /\ next' = next + 1
        /\ response' = snprintf_produced(response, ReportLine(lines, next))
    BY <1>3 DEF WriteLine
  <2>2. reply = <<>> /\ response.head = 0 /\ response.size = ReportSize
    BY <2>1 DEF ReportInv, Phases
  <2> DEFINE n == next - 1
  <2>3. n \in 0..(Len(lines) - 1) /\ n + 1 = next /\ next' - 1 = n + 1
        /\ next' \in 1..(Len(lines) + 1)
    BY <1>0, <2>1
  <2>4. \A b : IsBlock(b, BlockByte) => Pending(<<>>, b) = Contents(b)
    BY BlockContents, ConcatEmptySeq DEF Pending
  <2>5. Whole(Contents(response), lines, n) /\ Complete(Contents(response), lines, n)
    BY <1>0, <2>2, <2>4 DEF ReportInv
  <2> HIDE DEF n
  <2>6. /\ IsBlock(response', BlockByte) /\ response'.head = 0 /\ response'.size = ReportSize
        /\ Whole(Contents(response'), lines, n + 1)
        /\ Complete(Contents(response'), lines, n + 1)
    BY <1>0, <2>1, <2>2, <2>3, <2>5, LineAdded
  <2>7. StatusTypeOK'
    BY <1>0, <2>1, <2>3, <2>6 DEF StatusTypeOK
  <2>8. Phases'
    BY <2>1, <2>2, <2>6 DEF Phases
  <2>9. Pending(reply', response') = Contents(response')
    BY <2>1, <2>2, <2>4, <2>6
  <2> QED
    BY <2>1, <2>3, <2>6, <2>7, <2>8, <2>9 DEF ReportInv
<1>4. ASSUME AllWritten
      PROVE  ReportInv'
  <2>1. /\ stage = "writing" /\ stage' = "sending" /\ lines' = lines /\ next' = next
        /\ response' = response /\ reply' = reply /\ next > Len(lines)
    BY <1>4 DEF AllWritten
  <2>2. next = Len(lines) + 1
    BY <1>0, <2>1
  <2>3. StatusTypeOK' /\ Phases'
    BY <1>0, <2>1, <2>2 DEF StatusTypeOK, Phases
  <2> QED
    BY <2>1, <2>3 DEF ReportInv
<1>5. ASSUME NEW n \in 1..buffer_datacount(response), SendSome(n)
      PROVE  ReportInv'
  <2>1. /\ stage = "sending" /\ stage' = stage /\ lines' = lines /\ next' = next
        /\ reply' = reply \o SubSeq(Contents(response), 1, n)
        /\ response' = buffer_consume(response, n)
    BY <1>5 DEF SendSome
  <2>2. n \in 1..(response.tail - response.head)
    BY DEF buffer_datacount
  <2>3. /\ reply' \in Seq(BlockByte) /\ IsBlock(response', BlockByte)
        /\ Pending(reply', response') = Pending(reply, response)
    BY <1>0, <2>1, <2>2, SendKeepsPending
  <2>4. StatusTypeOK' /\ Phases'
    BY <1>0, <2>1, <2>3 DEF ReportInv, StatusTypeOK, Phases
  <2> QED
    BY <2>1, <2>3, <2>4 DEF ReportInv
<1>6. ASSUME delete_buffer
      PROVE  ReportInv'
  <2>1. /\ stage' = "idle" /\ lines' = <<>> /\ next' = 1 /\ reply' = <<>>
        /\ response' = create_buffer(0)
    BY <1>6 DEF delete_buffer, NoBuffer
  <2>2. IsBlock(response', BlockByte) /\ Pending(reply', response') = <<>>
    BY <2>1, EmptyBlock
  <2>3. <<>> \in Seq(Nat \ {0}) /\ <<>> \in Seq(BlockByte) /\ 1 \in 1..(Len(<<>>) + 1)
    OBVIOUS
  <2>4. Whole(<<>>, <<>>, 0) /\ Complete(<<>>, <<>>, 0)
    BY <2>3, EmptyAnswer
  <2>5. StatusTypeOK'
    BY <2>1, <2>2, <2>3 DEF StatusTypeOK
  <2>6. Phases'
    BY <2>1 DEF Phases
  <2>7. next' - 1 = 0
    BY <2>1
  <2> QED
    BY <2>1, <2>2, <2>4, <2>5, <2>6, <2>7 DEF ReportInv
<1> QED
  BY <1>1, <1>2, <1>3, <1>4, <1>5, <1>6
  DEF StatusNext, allVars, BufferStep, SendFails, SendDone

LEMMA ReportInvariant == StatusSpec => []ReportInv
<1>1. StatusInit => ReportInv
  <2> SUFFICES ASSUME StatusInit PROVE ReportInv
    OBVIOUS
  <2>1. /\ stage = "idle" /\ lines = <<>> /\ next = 1 /\ reply = <<>>
        /\ response = create_buffer(0)
    BY DEF StatusInit, NoBuffer
  <2>2. IsBlock(response, BlockByte) /\ Pending(reply, response) = <<>>
    BY <2>1, EmptyBlock
  <2>3. <<>> \in Seq(Nat \ {0}) /\ <<>> \in Seq(BlockByte) /\ 1 \in 1..(Len(<<>>) + 1)
    OBVIOUS
  <2>4. Whole(<<>>, <<>>, 0) /\ Complete(<<>>, <<>>, 0)
    BY <2>3, EmptyAnswer
  <2>5. StatusTypeOK /\ Phases
    BY <2>1, <2>2, <2>3 DEF StatusTypeOK, Phases
  <2>6. next - 1 = 0
    BY <2>1
  <2> QED
    BY <2>1, <2>2, <2>4, <2>5, <2>6 DEF ReportInv
<1>2. ReportInv /\ [StatusNext]_allVars => ReportInv'
  BY ReportStep
<1> QED
  BY <1>1, <1>2, PTL DEF StatusSpec

(***************************************************************************)
(* Whatever the lengths of the lines of a report and the size of its       *)
(* block, the client is sent whole lines in their order; a NUL takes the   *)
(* place of a newline only as the last byte of a full block.               *)
(***************************************************************************)
THEOREM ReportWhole == StatusSpec => []WholeLines
<1>1. ReportInv => WholeLines
  <2> SUFFICES ASSUME ReportInv PROVE WholeLines
    OBVIOUS
  <2> DEFINE a == Answer
  <2>1. a = Pending(reply, response)
    BY DEF Answer, Pending
  <2>2. Whole(a, lines, next - 1)
    BY <2>1 DEF ReportInv
  <2> HIDE DEF a
  <2>3. \A k \in 1..(next - 1) : k \in 1..Len(lines)
    BY LenProperties DEF ReportInv, StatusTypeOK
  <2>4. \A i \in 1..Len(a) :
          \/ \E k \in 1..Len(lines) : \E j \in 1..lines[k] : a[i] = <<k, j>>
          \/ a[i] = NUL /\ i = ReportSize
    BY <2>2, <2>3 DEF Whole, OfLines
  <2>5. a # <<>> =>
          /\ a[1][2] = 1 \/ a[1] = NUL
          /\ \A i \in 1..(Len(a) - 1) : a[i + 1] # NUL => Follows(a[i], a[i + 1])
          /\ a[Len(a)] = NUL \/ a[Len(a)][2] = lines[a[Len(a)][1]]
    BY <2>2 DEF Whole, Succeeds, Follows
  <2> QED
    BY <2>4, <2>5 DEF WholeLines, a
<1> QED
  BY <1>1, ReportInvariant, PTL

(***************************************************************************)
(* A report that is shorter than its block reaches the client as a whole,  *)
(* for every report and however send() divides it.                         *)
(***************************************************************************)
THEOREM ReportDelivered == StatusSpec => []ReportComplete
<1>1. ReportInv => ReportComplete
  <2> SUFFICES ASSUME ReportInv, stage = "sending", Len(Report) < ReportSize
               PROVE  Answer = Report
    BY DEF ReportComplete
  <2>1. /\ lines \in Seq(Nat \ {0}) /\ Len(lines) \in Nat /\ next = Len(lines) + 1
        /\ Complete(Answer, lines, next - 1)
    BY LenProperties DEF ReportInv, StatusTypeOK, Phases, Answer, Pending
  <2>2. next - 1 = Len(lines) /\ Len(lines) \in 0..Len(lines)
    BY <2>1
  <2>3. Answer = Report \/ Len(Report) >= ReportSize
    BY <2>1, <2>2 DEF Complete, Report
  <2>4. Len(Report) \in Nat /\ ReportSize \in Nat
    <3>1. Report \in Seq(ReportByte)
      BY <2>1, <2>2, FirstLinesDef DEF Report
    <3> QED
      BY <3>1, ReportAssumption, LenProperties
  <2> QED
    BY <2>3, <2>4
<1> QED
  BY <1>1, ReportInvariant, PTL
=============================================================================
