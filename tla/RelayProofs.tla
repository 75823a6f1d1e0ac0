------------------------------ MODULE RelayProofs ------------------------------
(***************************************************************************)
(* Proofs about Relay, for every number of sessions, lines and backends,   *)
(* every text, and every way recv may cut a stream.                        *)
(***************************************************************************)
EXTENDS Relay, LineFormatProofs

-----------------------------------------------------------------------------
(***************************************************************************)
(* Bytes of lines.                                                         *)
(***************************************************************************)
LEMMA BytesOfLine ==
    ASSUME NEW l \in Lines
    PROVE  /\ LineLen[l] \in Nat \ {0}
           /\ Bytes(l) \in Seq(Byte) /\ Len(Bytes(l)) = LineLen[l]
           /\ \A k \in 1..LineLen[l] : Bytes(l)[k] = <<l, k>>
           /\ \A k \in 1..LineLen[l] : IsNewline(Bytes(l)[k]) <=> k = LineLen[l]
<1>1. LineLen[l] \in Nat \ {0}
  BY RelayAssumption
<1>2. /\ Bytes(l) \in Seq(Byte) /\ Len(Bytes(l)) = LineLen[l]
      /\ \A k \in 1..LineLen[l] : Bytes(l)[k] = <<l, k>>
  BY <1>1 DEF Bytes, Byte
<1>3. \A k \in 1..LineLen[l] : IsNewline(<<l, k>>) <=> k = LineLen[l]
  BY DEF IsNewline
<1> QED
  BY <1>1, <1>2, <1>3

(* memchr finds the first newline when there is one. *)
LEMMA FirstNewline ==
    ASSUME NEW bs \in Seq(Byte), HasLine(bs)
    PROVE  /\ EndOfLine(bs) \in 1..Len(bs) /\ IsNewline(bs[EndOfLine(bs)])
           /\ \A j \in 1..(EndOfLine(bs) - 1) : ~IsNewline(bs[j])
<1> DEFINE S == {i \in 1..Len(bs) : IsNewline(bs[i])}
<1>1. S \subseteq Nat /\ S # {}
  BY DEF HasLine
<1>2. PICK n \in S : \A m \in S : n <= m
  <2> HIDE DEF S
  <2> QED
    BY <1>1, LeastNumber
<1>3. n \in 1..Len(bs) /\ IsNewline(bs[n]) /\ \A j \in 1..(n - 1) : ~IsNewline(bs[j])
  BY <1>2
<1>4. \E i \in 1..Len(bs) : IsNewline(bs[i]) /\ \A j \in 1..(i - 1) : ~IsNewline(bs[j])
  BY <1>3
<1> QED
  BY <1>4 DEF EndOfLine

(* Three sequences may be joined in either order. *)
Joins(S, x, y, z) ==
    /\ x \o y \in Seq(S) /\ y \o z \in Seq(S)
    /\ (x \o y) \o z = x \o (y \o z)

LEMMA Associative ==
    ASSUME NEW S, NEW x \in Seq(S), NEW y \in Seq(S), NEW z \in Seq(S)
    PROVE  Joins(S, x, y, z)
BY ConcatProperties, ConcatAssociative DEF Joins

(* Moving the first n elements of t to the end of s keeps the whole. *)
Moves(S, s, t, n) ==
    /\ SubSeq(t, 1, n) \in Seq(S) /\ SubSeq(t, n + 1, Len(t)) \in Seq(S)
    /\ (s \o SubSeq(t, 1, n)) \o SubSeq(t, n + 1, Len(t)) = s \o t

LEMMA MoveBytes ==
    ASSUME NEW S, NEW s \in Seq(S), NEW t \in Seq(S), NEW n \in 1..Len(t)
    PROVE  Moves(S, s, t, n)
<1>1. SubSeq(t, 1, n) \in Seq(S) /\ SubSeq(t, n + 1, Len(t)) \in Seq(S)
  OBVIOUS
<1>2. SubSeq(t, 1, n) \o SubSeq(t, n + 1, Len(t)) = t
  <2>1. /\ 1 \in 1..(Len(t) + 1) /\ n \in (1 - 1)..Len(t) /\ Len(t) \in n..Len(t)
    OBVIOUS
  <2>2. SubSeq(t, 1, n) \o SubSeq(t, n + 1, Len(t)) = SubSeq(t, 1, Len(t))
    BY <2>1, ConcatAdjacentSubSeq
  <2>3. SubSeq(t, 1, Len(t)) = t
    OBVIOUS
  <2> QED
    BY <2>2, <2>3
<1> DEFINE u == SubSeq(t, 1, n)
           v == SubSeq(t, n + 1, Len(t))
<1> HIDE DEF u, v
<1>3. (s \o u) \o v = s \o (u \o v)
  <2>1. u \in Seq(S) /\ v \in Seq(S)
    BY <1>1 DEF u, v
  <2>2. Joins(S, s, u, v)
    BY <2>1, Associative
  <2> QED
    BY <2>2 DEF Joins
<1> QED
  BY <1>1, <1>2, <1>3 DEF u, v, Moves

LEMMA DropFirst ==
    ASSUME NEW S, NEW c \in Seq(S), NEW n \in 1..Len(c)
    PROVE  /\ SubSeq(c, n + 1, Len(c)) \in Seq(S)
           /\ Len(SubSeq(c, n + 1, Len(c))) = Len(c) - n
           /\ \A i \in 1..(Len(c) - n) : SubSeq(c, n + 1, Len(c))[i] = c[n + i]
OBVIOUS

(* Bytes are dropped from the front of the buffer or of the whole stream. *)
LEMMA DropOfConcat ==
    ASSUME NEW S, NEW b \in Seq(S), NEW f \in Seq(S), NEW n \in 1..Len(b)
    PROVE  SubSeq(b, n + 1, Len(b)) \o f = SubSeq(b \o f, n + 1, Len(b \o f))
<1> DEFINE c == b \o f
           b2 == SubSeq(b, n + 1, Len(b))
           d == SubSeq(c, n + 1, Len(c))
           e == b2 \o f
<1>1. /\ c \in Seq(S) /\ Len(c) = Len(b) + Len(f) /\ Len(f) \in Nat /\ Len(b) \in Nat
      /\ \A i \in 1..Len(c) : c[i] = IF i <= Len(b) THEN b[i] ELSE f[i - Len(b)]
  BY ConcatProperties
<1>2. b2 \in Seq(S) /\ Len(b2) = Len(b) - n /\ \A i \in 1..(Len(b) - n) : b2[i] = b[n + i]
  BY DropFirst
<1> HIDE DEF b2, c
<1>3. /\ e \in Seq(S) /\ Len(e) = Len(b2) + Len(f)
      /\ \A i \in 1..(Len(b2) + Len(f)) : e[i] = IF i <= Len(b2) THEN b2[i] ELSE f[i - Len(b2)]
  BY <1>2, ConcatProperties
<1>4. n \in 1..Len(c)
  BY <1>1
<1>5. d \in Seq(S) /\ Len(d) = Len(c) - n /\ \A i \in 1..(Len(c) - n) : d[i] = c[n + i]
  BY <1>1, <1>4, DropFirst
<1> HIDE DEF d, e
<1>6. Len(d) = Len(e)
  BY <1>1, <1>2, <1>3, <1>5
<1>7. ASSUME NEW i \in 1..Len(d) PROVE d[i] = e[i]
  <2>1. i \in 1..(Len(c) - n) /\ n + i \in 1..Len(c) /\ i \in 1..(Len(b2) + Len(f))
    BY <1>1, <1>2, <1>3, <1>5, <1>6
  <2>2. d[i] = IF n + i <= Len(b) THEN b[n + i] ELSE f[(n + i) - Len(b)]
    BY <1>1, <1>5, <2>1
  <2>3. CASE i <= Len(b2)
    <3>1. i \in 1..(Len(b) - n) /\ n + i <= Len(b)
      BY <1>1, <1>2, <2>3
    <3> QED
      BY <1>2, <1>3, <2>1, <2>2, <2>3, <3>1
  <2>4. CASE ~(i <= Len(b2))
    <3>1. ~(n + i <= Len(b)) /\ (n + i) - Len(b) = i - Len(b2)
      BY <1>1, <1>2, <2>4
    <3> QED
      BY <1>3, <2>1, <2>2, <2>4, <3>1
  <2> QED
    BY <2>3, <2>4
<1>8. d = e
  BY <1>3, <1>5, <1>6, <1>7, SeqEqual
<1> QED
  BY <1>8 DEF d, e, b2, c

-----------------------------------------------------------------------------
(***************************************************************************)
(* A stream that starts with a line, and in which a line starts after      *)
(* every newline.                                                          *)
(***************************************************************************)
Framed(bs) ==
    /\ bs # <<>> => bs[1][2] = 1
    /\ \A i \in 1..(Len(bs) - 1) : IsNewline(bs[i]) => bs[i + 1][2] = 1

LEMMA FramedWrite ==
    ASSUME NEW bs \in Seq(Byte), NEW l \in Lines, Framed(bs)
    PROVE  Framed(bs \o Bytes(l))
<1> DEFINE c == bs \o Bytes(l)
<1>1. /\ LineLen[l] \in Nat \ {0} /\ Bytes(l) \in Seq(Byte) /\ Len(Bytes(l)) = LineLen[l]
      /\ Bytes(l)[1] = <<l, 1>>
      /\ \A k \in 1..LineLen[l] : IsNewline(Bytes(l)[k]) => k = LineLen[l]
  BY BytesOfLine
<1>2. /\ c \in Seq(Byte) /\ Len(c) = Len(bs) + LineLen[l]
      /\ \A i \in 1..Len(c) : c[i] = IF i <= Len(bs) THEN bs[i] ELSE Bytes(l)[i - Len(bs)]
  BY <1>1, ConcatProperties
<1> HIDE DEF c
<1> DEFINE m == Len(bs)
<1> HIDE DEF m
<1>0. /\ m \in Nat /\ Len(c) = m + LineLen[l] /\ Len(c) \in Nat
      /\ \A i \in 1..Len(c) : c[i] = IF i <= m THEN bs[i] ELSE Bytes(l)[i - m]
  BY <1>1, <1>2 DEF m
<1>3. c[1][2] = 1
  <2>1. CASE Len(bs) = 0
    BY <1>1, <1>2, <2>1
  <2>2. CASE Len(bs) > 0
    <3>1. bs # <<>> /\ 1 <= Len(bs) /\ 1 \in 1..Len(c)
      BY <1>1, <1>2, <2>2
    <3> QED
      BY <1>2, <3>1 DEF Framed
  <2> QED
    BY <2>1, <2>2
<1>4. ASSUME NEW i \in 1..(Len(c) - 1), IsNewline(c[i])
      PROVE  c[i + 1][2] = 1
  <2>0. i \in 1..Len(c) /\ i + 1 \in 1..Len(c)
    BY <1>0
  <2>1. CASE i < m
    <3>1. c[i] = bs[i] /\ c[i + 1] = bs[i + 1] /\ i \in 1..(m - 1)
      BY <1>0, <2>0, <2>1
    <3> QED
      BY <1>4, <3>1 DEF Framed, m
  <2>2. CASE i = m
    <3>1. c[i + 1] = Bytes(l)[1]
      BY <1>0, <2>0, <2>2
    <3> QED
      BY <1>1, <3>1
  <2>3. CASE i > m
    <3>1. c[i] = Bytes(l)[i - m] /\ i - m \in 1..LineLen[l] /\ i - m # LineLen[l]
      BY <1>0, <1>1, <2>0, <2>3
    <3> QED
      BY <1>1, <1>4, <3>1
  <2> QED
    BY <1>0, <2>0, <2>1, <2>2, <2>3
<1> QED
  BY <1>3, <1>4 DEF Framed, c

LEMMA FramedRest ==
    ASSUME NEW bs \in Seq(Byte), NEW n \in 1..Len(bs), Framed(bs), IsNewline(bs[n])
    PROVE  Framed(SubSeq(bs, n + 1, Len(bs)))
<1> DEFINE c == SubSeq(bs, n + 1, Len(bs))
<1>1. /\ c \in Seq(Byte) /\ Len(c) = Len(bs) - n
      /\ \A i \in 1..Len(c) : c[i] = bs[n + i]
  OBVIOUS
<1> HIDE DEF c
<1>2. c # <<>> => c[1][2] = 1
  <2> SUFFICES ASSUME c # <<>> PROVE c[1][2] = 1
    OBVIOUS
  <2>1. Len(c) > 0
    BY <1>1
  <2>2. c[1] = bs[n + 1] /\ n \in 1..(Len(bs) - 1)
    BY <1>1, <2>1
  <2> QED
    BY <2>2 DEF Framed
<1>3. ASSUME NEW i \in 1..(Len(c) - 1), IsNewline(c[i])
      PROVE  c[i + 1][2] = 1
  <2>1. c[i] = bs[n + i] /\ c[i + 1] = bs[(n + i) + 1] /\ n + i \in 1..(Len(bs) - 1)
    <3>1. Len(c) \in Nat /\ Len(bs) \in Nat /\ i \in 1..Len(c) /\ i + 1 \in 1..Len(c)
      BY <1>1
    <3>2. n + (i + 1) = (n + i) + 1
      BY <3>1
    <3> QED
      BY <1>1, <3>1, <3>2
  <2> QED
    BY <1>3, <2>1 DEF Framed
<1> QED
  BY <1>2, <1>3 DEF Framed, c

-----------------------------------------------------------------------------
(***************************************************************************)
(* The type invariant.                                                     *)
(***************************************************************************)
LEMMA ChoiceInRing ==
    ASSUME NEW l \in Lines
    PROVE  hashring_choose(l) \in Backends
<1>1. Ring \in Seq(Backends) /\ Len(Ring) \in Nat \ {0} /\ Hash[l] \in Nat
  BY RelayAssumption
<1>2. Hash[l] % Len(Ring) \in 0..(Len(Ring) - 1)
  BY <1>1
<1>3. (Hash[l] % Len(Ring)) + 1 \in 1..Len(Ring)
  BY <1>1, <1>2
<1> QED
  BY <1>1, <1>3 DEF hashring_choose

(* A datagram has finitely many bytes. *)
LEMMA DatagramCounted ==
    ASSUME NEW d \in Seq(Lines)
    PROVE  DatagramLen(d) \in Nat
<1> DEFINE Line(i) == {i} \X (1..LineLen[d[i]])
           First(n) == UNION {Line(i) : i \in 1..n}
           S == {n \in Nat : n <= Len(d) => IsFiniteSet(First(n))}
<1>1. 0 \in S
  <2>1. First(0) = {}
    OBVIOUS
  <2> QED
    BY <2>1, FS_EmptySet
<1>2. ASSUME NEW n \in Nat, n \in S PROVE n + 1 \in S
  <2> SUFFICES ASSUME n + 1 <= Len(d) PROVE IsFiniteSet(First(n + 1))
    OBVIOUS
  <2>1. IsFiniteSet(First(n))
    BY <1>2
  <2>2. IsFiniteSet(Line(n + 1))
    <3>1. d[n + 1] \in Lines
      OBVIOUS
    <3>2. IsFiniteSet(1..LineLen[d[n + 1]])
      <4>1. PICK k \in Nat : k = LineLen[d[n + 1]]
        BY <3>1, BytesOfLine
      <4>2. IsFiniteSet(1..k)
        BY FS_Interval
      <4> QED
        BY <4>1, <4>2
    <3>3. IsFiniteSet({n + 1})
      BY FS_Singleton
    <3> QED
      BY <3>2, <3>3, FS_Product
  <2>3. First(n + 1) = First(n) \cup Line(n + 1)
    <3>1. 1..(n + 1) = (1..n) \cup {n + 1}
      OBVIOUS
    <3> HIDE DEF Line
    <3> QED
      BY <3>1
  <2>4. ASSUME NEW A, NEW B, IsFiniteSet(A), IsFiniteSet(B) PROVE IsFiniteSet(A \cup B)
    BY <2>4, FS_Union
  <2> HIDE DEF First, Line
  <2> QED
    BY <2>1, <2>2, <2>3, <2>4
<1>3. Len(d) \in S
  <2>1. Nat \subseteq S
    <3> HIDE DEF S
    <3> QED
      BY <1>1, <1>2, Induction
  <2> QED
    BY <2>1
<1>4. IsFiniteSet(First(Len(d)))
  BY <1>3
<1>5. DatagramLen(d) = Cardinality(First(Len(d)))
  BY DEF DatagramLen
<1> HIDE DEF First
<1> QED
  BY <1>4, <1>5, FS_CardinalityType

(* n bytes are less than one line over the limit. *)
Within(n) == n > 0 => \E l \in Lines : n < Limit + LineLen[l]

SinkTyped ==
    /\ backlog \in [Backends -> Nat]
    /\ \A b \in Backends : Within(backlog[b])
    /\ dropped \in [Backends -> Nat]
    /\ malformed_lines \in Nat
    /\ relayed \in [Backends -> Seq((Sessions \cup {"udp"}) \X Lines)]

StreamTyped ==
    /\ conn \in [Sessions -> {"none", "open", "closed"}]
    /\ eof \in [Sessions -> BOOLEAN]
    /\ flight \in [Sessions -> Seq(Byte)]
    /\ buffer \in [Sessions -> Seq(Byte)]
    /\ written \in [Sessions -> Seq(Byte)]
    /\ handled \in [Sessions -> Seq(Byte)]

InputTyped ==
    /\ running \in Sessions \cup {"idle", "udp"}
    /\ dgram \in Seq(Lines)
    /\ received \in 0..MaxDatagrams
    /\ bytes_recv_tcp \in Nat /\ bytes_recv_udp \in Nat /\ total_connections \in Nat

LEMMA LineTyped ==
    ASSUME SinkTyped, NEW src \in Sessions \cup {"udp"}, NEW l \in Lines,
           LineRelayed(src, l) \/ LineRefused(l) \/ LineInvalid(l)
    PROVE  SinkTyped'
<1> DEFINE b == hashring_choose(l)
<1>1. b \in Backends /\ Limit \in Nat /\ LineLen[l] \in Nat
  BY ChoiceInRing, RelayAssumption
<1>2. CASE LineRelayed(src, l)
  <2>1. /\ backlog[b] < Limit /\ backlog' = [backlog EXCEPT ![b] = backlog[b] + LineLen[l]]
        /\ relayed' = [relayed EXCEPT ![b] = Append(@, <<src, l>>)]
        /\ UNCHANGED <<dropped, malformed_lines>>
    BY <1>2 DEF LineRelayed
  <2> HIDE DEF b
  <2>2. /\ backlog' \in [Backends -> Nat]
        /\ \A c \in Backends : Within(backlog'[c])
    <3>1. backlog[b] \in Nat /\ backlog[b] + LineLen[l] \in Nat
      BY <1>1 DEF SinkTyped
    <3>2. Within(backlog[b] + LineLen[l])
      BY <1>1, <2>1, <3>1 DEF Within
    <3>3. backlog' \in [Backends -> Nat] /\ backlog'[b] = backlog[b] + LineLen[l]
      BY <1>1, <2>1, <3>1 DEF SinkTyped
    <3>4. \A c \in Backends : c # b => backlog'[c] = backlog[c] /\ Within(backlog[c])
      BY <1>1, <2>1 DEF SinkTyped
    <3> HIDE DEF Within
    <3> QED
      BY <3>2, <3>3, <3>4
  <2>3. Append(relayed[b], <<src, l>>) \in Seq((Sessions \cup {"udp"}) \X Lines)
    BY <1>1 DEF SinkTyped
  <2>4. relayed' \in [Backends -> Seq((Sessions \cup {"udp"}) \X Lines)]
    BY <1>1, <2>1, <2>3 DEF SinkTyped
  <2> QED
    BY <2>1, <2>2, <2>4 DEF SinkTyped
<1>3. CASE LineRefused(l)
  <2>1. /\ dropped' = [dropped EXCEPT ![b] = @ + 1]
        /\ UNCHANGED <<backlog, relayed, malformed_lines>>
    BY <1>3 DEF LineRefused
  <2> HIDE DEF b
  <2> QED
    BY <1>1, <2>1 DEF SinkTyped
<1>4. CASE LineInvalid(l)
  BY <1>4 DEF LineInvalid, SinkTyped
<1> QED
  BY <1>2, <1>3, <1>4

LEMMA DestroyTyped ==
    ASSUME StreamTyped, NEW s \in Sessions, DestroySession(s),
           UNCHANGED <<eof, written, handled>>
    PROVE  StreamTyped'
<1>1. <<>> \in Seq(Byte)
  OBVIOUS
<1> QED
  BY <1>1 DEF StreamTyped, DestroySession

LEMMA ConsumeTyped ==
    ASSUME StreamTyped, NEW s \in Sessions, HasLine(buffer[s]), ConsumeLine(s)
    PROVE  StreamTyped'
<1> DEFINE n == EndOfLine(buffer[s])
<1>1. buffer[s] \in Seq(Byte) /\ handled[s] \in Seq(Byte) /\ n \in 1..Len(buffer[s])
  BY FirstNewline DEF StreamTyped
<1>2. /\ buffer' = [buffer EXCEPT ![s] = SubSeq(@, n + 1, Len(@))]
      /\ handled' = [handled EXCEPT ![s] = @ \o SubSeq(buffer[s], 1, n)]
      /\ UNCHANGED <<conn, eof, flight, written>>
  BY DEF ConsumeLine
<1> HIDE DEF n
<1>3. /\ SubSeq(buffer[s], n + 1, Len(buffer[s])) \in Seq(Byte)
      /\ SubSeq(buffer[s], 1, n) \in Seq(Byte)
  <2>1. Moves(Byte, handled[s], buffer[s], n)
    BY <1>1, MoveBytes
  <2> QED
    BY <2>1 DEF Moves
<1>4. handled[s] \o SubSeq(buffer[s], 1, n) \in Seq(Byte)
  BY <1>1, <1>3, ConcatProperties
<1> QED
  BY <1>2, <1>3, <1>4 DEF StreamTyped

LEMMA NextTyped ==
    ASSUME TypeOK, [Next]_vars
    PROVE  TypeOK'
<1> USE DEF sessVars, sinkVars, recvVars
<1> SUFFICES StreamTyped' /\ SinkTyped' /\ InputTyped'
  BY DEF TypeOK, StreamTyped, SinkTyped, InputTyped, Within
<1>0. StreamTyped /\ SinkTyped /\ InputTyped
  BY DEF TypeOK, StreamTyped, SinkTyped, InputTyped, Within
<1>1. ASSUME NEW s \in Sessions, Accept(s) \/ ClientCloses(s)
      PROVE  StreamTyped' /\ SinkTyped' /\ InputTyped'
  <2>1. StreamTyped'
    BY <1>0, <1>1 DEF Accept, ClientCloses, StreamTyped
  <2>2. SinkTyped' /\ InputTyped'
    BY <1>0, <1>1 DEF Accept, ClientCloses, SinkTyped, InputTyped
  <2> QED
    BY <2>1, <2>2
<1>2. ASSUME NEW s \in Sessions, NEW l \in Typed, ClientWrites(s, l)
      PROVE  StreamTyped' /\ SinkTyped' /\ InputTyped'
  <2>1. l \in Lines /\ Bytes(l) \in Seq(Byte)
    BY RelayAssumption, BytesOfLine
  <2>2. flight[s] \o Bytes(l) \in Seq(Byte) /\ written[s] \o Bytes(l) \in Seq(Byte)
    BY <1>0, <2>1, ConcatProperties DEF StreamTyped
  <2>3. StreamTyped'
    BY <1>0, <1>2, <2>2 DEF ClientWrites, StreamTyped
  <2> QED
    BY <1>0, <1>2, <2>3 DEF ClientWrites, SinkTyped, InputTyped
<1>3. ASSUME NEW s \in Sessions, RecvClosed(s) \/ RecvFails(s)
      PROVE  StreamTyped' /\ SinkTyped' /\ InputTyped'
  BY <1>0, <1>3, DestroyTyped DEF RecvClosed, RecvFails, SinkTyped, InputTyped
<1>4. ASSUME NEW s \in Sessions, NEW n \in 1..Len(flight[s]), RecvData(s, n)
      PROVE  StreamTyped' /\ SinkTyped' /\ InputTyped'
  <2>1. flight[s] \in Seq(Byte) /\ buffer[s] \in Seq(Byte)
    BY <1>0 DEF StreamTyped
  <2>2. SubSeq(flight[s], 1, n) \in Seq(Byte) /\ SubSeq(flight[s], n + 1, Len(flight[s])) \in Seq(Byte)
    <3>1. Moves(Byte, buffer[s], flight[s], n)
      BY <2>1, MoveBytes
    <3> QED
      BY <3>1 DEF Moves
  <2>3. buffer[s] \o SubSeq(flight[s], 1, n) \in Seq(Byte)
    BY <2>1, <2>2, ConcatProperties
  <2>4. StreamTyped'
    BY <1>0, <1>4, <2>2, <2>3 DEF RecvData, StreamTyped
  <2>5. SinkTyped' /\ InputTyped'
    BY <1>0, <1>4, <2>1 DEF RecvData, SinkTyped, InputTyped
  <2> QED
    BY <2>4, <2>5
<1>5. ASSUME NEW s \in Sessions, ProcessLine(s)
      PROVE  StreamTyped' /\ SinkTyped' /\ InputTyped'
  <2>1. PICK l \in Lines :
           \/ ConsumeLine(s) /\ UNCHANGED sinkVars
           \/ LineRelayed(s, l) /\ ConsumeLine(s)
           \/ /\ LineRefused(l) \/ LineInvalid(l)
              /\ DestroySession(s) /\ running' = "idle"
              /\ UNCHANGED <<eof, written, handled, dgram, recvVars>>
    BY <1>5 DEF ProcessLine
  <2>2. SinkTyped'
    <3>1. CASE UNCHANGED sinkVars
      BY <1>0, <3>1 DEF SinkTyped
    <3> QED
      BY <1>0, <2>1, <3>1, LineTyped
  <2>3. StreamTyped'
    BY <1>0, <1>5, <2>1, ConsumeTyped, DestroyTyped DEF ProcessLine
  <2>4. InputTyped'
    BY <1>0, <2>1 DEF ConsumeLine, InputTyped
  <2> QED
    BY <2>2, <2>3, <2>4
<1>6. ASSUME NEW s \in Sessions, LinesDone(s)
      PROVE  StreamTyped' /\ SinkTyped' /\ InputTyped'
  BY <1>0, <1>6 DEF LinesDone, StreamTyped, SinkTyped, InputTyped
<1>7. ASSUME NEW d \in Datagrams, UdpRecv(d)
      PROVE  StreamTyped' /\ SinkTyped' /\ InputTyped'
  <2>1. d \in Seq(Lines) /\ DatagramLen(d) \in Nat /\ MaxDatagrams \in Nat
    BY RelayAssumption, DatagramCounted
  <2>2. StreamTyped' /\ SinkTyped'
    BY <1>0, <1>7 DEF UdpRecv, StreamTyped, SinkTyped
  <2>3. InputTyped'
    BY <1>0, <1>7, <2>1 DEF UdpRecv, InputTyped
  <2> QED
    BY <2>2, <2>3
<1>8. CASE UdpLine
  <2>1. dgram \in Seq(Lines) /\ Head(dgram) \in Lines /\ Tail(dgram) \in Seq(Lines)
    BY <1>0, <1>8 DEF UdpLine, InputTyped
  <2>2. SinkTyped'
    BY <1>0, <1>8, <2>1, LineTyped DEF UdpLine
  <2>3. StreamTyped'
    BY <1>0, <1>8 DEF UdpLine, StreamTyped
  <2>4. <<>> \in Seq(Lines)
    OBVIOUS
  <2>5. InputTyped'
    BY <1>0, <1>8, <2>1, <2>4 DEF UdpLine, InputTyped
  <2> QED
    BY <2>2, <2>3, <2>5
<1>9. CASE UdpDone
  BY <1>0, <1>9 DEF UdpDone, StreamTyped, SinkTyped, InputTyped
<1>10. ASSUME NEW b \in Backends, NEW n \in 1..backlog[b], Drain(b, n)
       PROVE  StreamTyped' /\ SinkTyped' /\ InputTyped'
  <2>1. SinkTyped'
    <3>1. /\ backlog \in [Backends -> Nat] /\ \A c \in Backends : Within(backlog[c])
          /\ backlog' = [backlog EXCEPT ![b] = backlog[b] - n]
          /\ dropped' = dropped /\ malformed_lines' = malformed_lines /\ relayed' = relayed
      BY <1>0, <1>10 DEF Drain, SinkTyped
    <3>2. /\ backlog[b] \in Nat /\ backlog[b] - n \in Nat
          /\ backlog[b] - n < backlog[b] /\ Limit \in Nat
          /\ \A l \in Lines : LineLen[l] \in Nat
      BY <1>10, <3>1, RelayAssumption
    <3>3. Within(backlog[b] - n)
      BY <3>1, <3>2 DEF Within
    <3>4. backlog' \in [Backends -> Nat] /\ backlog'[b] = backlog[b] - n
      BY <3>1, <3>2
    <3>5. \A c \in Backends : c # b => backlog'[c] = backlog[c]
      BY <3>1
    <3> HIDE DEF Within
    <3>6. \A c \in Backends : Within(backlog'[c])
      BY <3>1, <3>3, <3>4, <3>5
    <3> QED
      BY <1>0, <3>1, <3>4, <3>6 DEF SinkTyped
  <2> QED
    BY <1>0, <1>10, <2>1 DEF Drain, StreamTyped, InputTyped
<1>11. CASE UNCHANGED vars
  BY <1>0, <1>11 DEF vars, StreamTyped, SinkTyped, InputTyped
<1> QED
  BY <1>1, <1>2, <1>3, <1>4, <1>5, <1>6, <1>7, <1>8, <1>9, <1>10, <1>11
  DEF Next, Handle, Recv

LEMMA InitTyped ==
    ASSUME Init
    PROVE  TypeOK
<1>1. <<>> \in Seq(Byte) /\ <<>> \in Seq((Sessions \cup {"udp"}) \X Lines) /\ <<>> \in Seq(Lines)
  OBVIOUS
<1>2. StreamTyped
  <2>1. eof \in [Sessions -> BOOLEAN]
    BY Zenon DEF Init
  <2> QED
    BY <1>1, <2>1 DEF Init, StreamTyped
<1>3. SinkTyped /\ InputTyped
  BY <1>1, RelayAssumption DEF Init, SinkTyped, InputTyped, Within
<1> QED
  BY <1>2, <1>3 DEF TypeOK, StreamTyped, SinkTyped, InputTyped, Within

(***************************************************************************)
(* No backend is ever given more lines than its queue may hold, no index   *)
(* leaves the ring or the buffer of a session, and no counter is lost.     *)
(***************************************************************************)
THEOREM RelayTypeCorrect == Spec => []TypeOK
BY InitTyped, NextTyped, PTL DEF Spec

-----------------------------------------------------------------------------
(***************************************************************************)
(* StreamIntact is inductive once it also says that a line starts after    *)
(* every newline that is still to be processed.                            *)
(***************************************************************************)
StreamInv(s) ==
    /\ conn[s] = "none" =>
          buffer[s] = <<>> /\ flight[s] = <<>> /\ written[s] = <<>> /\ handled[s] = <<>>
    /\ conn[s] = "open" =>
          /\ (handled[s] \o buffer[s]) \o flight[s] = written[s]
          /\ Framed(buffer[s] \o flight[s])
          /\ running # s => ~HasLine(buffer[s])

Streams == \A s \in Sessions : StreamInv(s)

(* What leaves the stream of a session alone and does not run its handler. *)
LEMMA StreamStill ==
    ASSUME NEW s \in Sessions, StreamInv(s),
           conn'[s] = conn[s], buffer'[s] = buffer[s], flight'[s] = flight[s],
           written'[s] = written[s], handled'[s] = handled[s],
           running = s => running' = s \/ ~HasLine(buffer[s])
    PROVE  StreamInv(s)'
BY DEF StreamInv

LEMMA AcceptStream ==
    ASSUME TypeOK, NEW s \in Sessions, StreamInv(s), Accept(s)
    PROVE  StreamInv(s)'
<1>1. /\ buffer'[s] = <<>> /\ flight'[s] = <<>> /\ written'[s] = <<>> /\ handled'[s] = <<>>
      /\ conn'[s] = "open"
  BY DEF TypeOK, StreamInv, Accept
<1>2. <<>> \in Seq(Byte) /\ Len(<<>>) = 0 /\ <<>> \o <<>> = <<>>
  OBVIOUS
<1>3. Framed(<<>>) /\ ~HasLine(<<>>)
  BY <1>2 DEF Framed, HasLine
<1> QED
  BY <1>1, <1>2, <1>3 DEF StreamInv

LEMMA WriteStream ==
    ASSUME TypeOK, NEW s \in Sessions, NEW l \in Lines, StreamInv(s), ClientWrites(s, l)
    PROVE  StreamInv(s)'
<1> DEFINE h == handled[s]  b == buffer[s]  f == flight[s]  w == written[s]
<1>1. /\ h \in Seq(Byte) /\ b \in Seq(Byte) /\ f \in Seq(Byte) /\ w \in Seq(Byte)
      /\ Bytes(l) \in Seq(Byte) /\ h \o b \in Seq(Byte) /\ b \o f \in Seq(Byte)
  <2>1. /\ h \in Seq(Byte) /\ b \in Seq(Byte) /\ f \in Seq(Byte) /\ w \in Seq(Byte)
        /\ Bytes(l) \in Seq(Byte)
    BY BytesOfLine DEF TypeOK
  <2> HIDE DEF h, b, f, w
  <2>2. Joins(Byte, h, b, f)
    BY <2>1, Associative
  <2> QED
    BY <2>1, <2>2 DEF Joins
<1>2. /\ conn'[s] = "open" /\ conn[s] = "open" /\ handled'[s] = h /\ buffer'[s] = b
      /\ flight'[s] = f \o Bytes(l) /\ written'[s] = w \o Bytes(l) /\ running' = running
  BY DEF TypeOK, ClientWrites
<1>3. (h \o b) \o f = w /\ Framed(b \o f) /\ (running # s => ~HasLine(b))
  BY <1>2 DEF StreamInv
<1> HIDE DEF h, b, f, w
<1>4. (h \o b) \o (f \o Bytes(l)) = w \o Bytes(l)
  <2>1. Joins(Byte, h \o b, f, Bytes(l))
    BY <1>1, Associative
  <2> QED
    BY <1>3, <2>1 DEF Joins
<1>5. Framed(b \o (f \o Bytes(l)))
  <2>1. Joins(Byte, b, f, Bytes(l))
    BY <1>1, Associative
  <2>2. Framed((b \o f) \o Bytes(l))
    BY <1>1, <1>3, FramedWrite
  <2> QED
    BY <2>1, <2>2 DEF Joins
<1> QED
  BY <1>2, <1>3, <1>4, <1>5 DEF StreamInv

LEMMA RecvStream ==
    ASSUME TypeOK, NEW s \in Sessions, NEW n \in 1..Len(flight[s]), StreamInv(s), RecvData(s, n)
    PROVE  StreamInv(s)'
<1> DEFINE h == handled[s]  b == buffer[s]  f == flight[s]
           f1 == SubSeq(f, 1, n)  f2 == SubSeq(f, n + 1, Len(f))
<1>1. h \in Seq(Byte) /\ b \in Seq(Byte) /\ f \in Seq(Byte) /\ n \in 1..Len(f)
  BY DEF TypeOK
<1>2. /\ conn'[s] = "open" /\ conn[s] = "open" /\ running' = s
      /\ handled'[s] = h /\ written'[s] = written[s]
      /\ buffer'[s] = b \o f1 /\ flight'[s] = f2
  BY DEF TypeOK, RecvData
<1>3. (h \o b) \o f = written[s] /\ Framed(b \o f)
  BY <1>2 DEF StreamInv
<1>4. f1 \in Seq(Byte) /\ f2 \in Seq(Byte) /\ (b \o f1) \o f2 = b \o f
  <2> HIDE DEF b, f
  <2>1. Moves(Byte, b, f, n)
    BY <1>1, MoveBytes
  <2> QED
    BY <2>1 DEF Moves
<1> HIDE DEF h, b, f, f1, f2
<1>5. b \o f1 \in Seq(Byte)
  <2>1. Joins(Byte, b, f1, f2)
    BY <1>1, <1>4, Associative
  <2> QED
    BY <2>1 DEF Joins
<1>6. (h \o (b \o f1)) \o f2 = written[s]
  <2>1. (h \o (b \o f1)) \o f2 = h \o ((b \o f1) \o f2)
    <3> DEFINE c == b \o f1
    <3> HIDE DEF c
    <3>1. h \in Seq(Byte) /\ c \in Seq(Byte) /\ f2 \in Seq(Byte)
      BY <1>1, <1>4, <1>5 DEF c
    <3>2. Joins(Byte, h, c, f2)
      BY <3>1, Associative
    <3> QED
      BY <3>2 DEF c, Joins
  <2>2. (h \o b) \o f = h \o (b \o f)
    <3>1. Joins(Byte, h, b, f)
      BY <1>1, Associative
    <3> QED
      BY <3>1 DEF Joins
  <2> QED
    BY <1>3, <1>4, <2>1, <2>2
<1> QED
  BY <1>2, <1>3, <1>4, <1>6 DEF StreamInv

LEMMA ConsumeStream ==
    ASSUME TypeOK, NEW s \in Sessions, StreamInv(s), conn[s] = "open", running = s,
           HasLine(buffer[s]), ConsumeLine(s)
    PROVE  StreamInv(s)'
<1> DEFINE h == handled[s]  b == buffer[s]  f == flight[s]  n == EndOfLine(b)
           b1 == SubSeq(b, 1, n)  b2 == SubSeq(b, n + 1, Len(b))
<1>1. /\ h \in Seq(Byte) /\ b \in Seq(Byte) /\ f \in Seq(Byte)
      /\ n \in 1..Len(b) /\ IsNewline(b[n])
  BY FirstNewline DEF TypeOK
<1>2. /\ conn'[s] = "open" /\ running' = s /\ written'[s] = written[s] /\ flight'[s] = f
      /\ handled'[s] = h \o b1 /\ buffer'[s] = b2
  BY DEF TypeOK, ConsumeLine
<1>3. (h \o b) \o f = written[s] /\ Framed(b \o f)
  BY DEF StreamInv
<1> HIDE DEF h, f, n
<1>4. b1 \in Seq(Byte) /\ b2 \in Seq(Byte) /\ (h \o b1) \o b2 = h \o b
  <2> HIDE DEF b
  <2>1. Moves(Byte, h, b, n)
    BY <1>1, MoveBytes
  <2> QED
    BY <2>1 DEF Moves
<1>5. Framed(b2 \o f)
  <2> DEFINE c == b \o f
  <2>1. c \in Seq(Byte) /\ n \in 1..Len(c) /\ c[n] = b[n]
    BY <1>1
  <2>2. b2 \o f = SubSeq(c, n + 1, Len(c))
    BY <1>1, DropOfConcat
  <2> HIDE DEF c, b2, b
  <2>3. Framed(SubSeq(c, n + 1, Len(c)))
    BY <1>1, <1>3, <2>1, FramedRest DEF c
  <2> QED
    BY <2>2, <2>3
<1> QED
  BY <1>2, <1>3, <1>4, <1>5 DEF StreamInv

LEMMA NextStreams ==
    ASSUME TypeOK, Streams, [Next]_vars
    PROVE  Streams'
<1> SUFFICES ASSUME NEW s \in Sessions
             PROVE  StreamInv(s)'
  BY DEF Streams
<1>0. StreamInv(s) /\ "udp" # s /\ "idle" # s
  BY RelayAssumption DEF Streams
<1>1. ASSUME NEW t \in Sessions, Accept(t)
      PROVE  StreamInv(s)'
  <2>1. CASE t = s
    BY <1>0, <1>1, <2>1, AcceptStream
  <2>2. CASE t # s
    BY <1>0, <1>1, <2>2, StreamStill DEF Accept, TypeOK
  <2> QED
    BY <2>1, <2>2
<1>2. ASSUME NEW t \in Sessions, NEW l \in Typed, ClientWrites(t, l)
      PROVE  StreamInv(s)'
  <2>1. CASE t = s
    BY <1>0, <1>2, <2>1, WriteStream, RelayAssumption
  <2>2. CASE t # s
    BY <1>0, <1>2, <2>2, StreamStill DEF ClientWrites, TypeOK
  <2> QED
    BY <2>1, <2>2
<1>3. ASSUME NEW t \in Sessions, ClientCloses(t)
      PROVE  StreamInv(s)'
  BY <1>0, <1>3, StreamStill DEF ClientCloses
<1>4. ASSUME NEW t \in Sessions, DestroySession(t), UNCHANGED <<written, handled>>,
             running' = "idle", running \in {"idle", t}
      PROVE  StreamInv(s)'
  <2>1. CASE t = s
    <3>1. conn'[s] = "closed"
      BY <1>4, <2>1 DEF DestroySession, TypeOK
    <3> QED
      BY <3>1 DEF StreamInv
  <2>2. CASE t # s
    BY <1>0, <1>4, <2>2, StreamStill DEF DestroySession, TypeOK
  <2> QED
    BY <2>1, <2>2
<1>5. ASSUME NEW t \in Sessions, RecvClosed(t) \/ RecvFails(t)
      PROVE  StreamInv(s)'
  BY <1>4, <1>5 DEF RecvClosed, RecvFails
<1>6. ASSUME NEW t \in Sessions, NEW n \in 1..Len(flight[t]), RecvData(t, n)
      PROVE  StreamInv(s)'
  <2>1. CASE t = s
    BY <1>0, <1>6, <2>1, RecvStream
  <2>2. CASE t # s
    BY <1>0, <1>6, <2>2, StreamStill DEF RecvData, TypeOK
  <2> QED
    BY <2>1, <2>2
<1>7. ASSUME NEW t \in Sessions, ProcessLine(t)
      PROVE  StreamInv(s)'
  <2>1. running = t /\ HasLine(buffer[t])
    BY <1>7 DEF ProcessLine
  <2>2. CASE ConsumeLine(t)
    <3>1. CASE t = s
      <4>1. CASE conn[s] = "open"
        BY <1>0, <2>1, <2>2, <3>1, <4>1, ConsumeStream
      <4>2. CASE conn[s] # "open"
        <5>1. buffer[s] \in Seq(Byte) /\ buffer[s] # <<>>
          BY <2>1, <3>1 DEF HasLine, TypeOK
        <5>2. conn[s] # "none"
          BY <1>0, <5>1 DEF StreamInv
        <5> QED
          BY <2>2, <4>2, <5>2 DEF ConsumeLine, StreamInv
      <4> QED
        BY <4>1, <4>2
    <3>2. CASE t # s
      BY <1>0, <2>1, <2>2, <3>2, StreamStill DEF ConsumeLine, TypeOK
    <3> QED
      BY <3>1, <3>2
  <2>3. CASE DestroySession(t) /\ running' = "idle" /\ UNCHANGED <<written, handled>>
    BY <1>4, <2>1, <2>3
  <2> QED
    BY <1>7, <2>2, <2>3 DEF ProcessLine
<1>8. ASSUME NEW t \in Sessions, LinesDone(t)
      PROVE  StreamInv(s)'
  BY <1>0, <1>8, StreamStill DEF LinesDone, sessVars
<1>9. CASE \/ \E d \in Datagrams : UdpRecv(d)
           \/ UdpLine \/ UdpDone
           \/ \E b \in Backends : \E n \in 1..backlog[b] : Drain(b, n)
           \/ UNCHANGED vars
  <2>1. UNCHANGED sessVars /\ (running = s => running' = s)
    BY <1>0, <1>9 DEF UdpRecv, UdpLine, UdpDone, Drain, vars
  <2> QED
    BY <1>0, <2>1, StreamStill DEF sessVars
<1> QED
  BY <1>1, <1>2, <1>3, <1>5, <1>6, <1>7, <1>8, <1>9 DEF Next, Handle, Recv

LEMMA InitStreams ==
    ASSUME Init
    PROVE  Streams
BY DEF Init, Streams, StreamInv

(***************************************************************************)
(* Whatever pieces recv delivers, what has been processed, what is in the  *)
(* buffer and what is under way are what the client wrote, in order, and   *)
(* the buffer starts at the start of a line.                               *)
(***************************************************************************)
THEOREM StreamCorrect == Spec => []StreamIntact
<1>1. ASSUME TypeOK, Streams PROVE StreamIntact
  <2> SUFFICES ASSUME NEW s \in Sessions, conn[s] = "open"
               PROVE  /\ handled[s] \o buffer[s] \o flight[s] = written[s]
                      /\ buffer[s] # <<>> => buffer[s][1][2] = 1
    BY DEF StreamIntact
  <2>1. (handled[s] \o buffer[s]) \o flight[s] = written[s] /\ Framed(buffer[s] \o flight[s])
    BY <1>1 DEF Streams, StreamInv
  <2>2. ASSUME buffer[s] # <<>> PROVE buffer[s][1][2] = 1
    <3> DEFINE b == buffer[s]  f == flight[s]
    <3>1. b \in Seq(Byte) /\ f \in Seq(Byte) /\ Len(b) > 0
      BY <1>1, <2>2 DEF TypeOK
    <3> HIDE DEF b, f
    <3>2. b \o f # <<>> /\ (b \o f)[1] = b[1]
      BY <3>1
    <3> QED
      BY <2>1, <3>2 DEF Framed, b, f
  <2> QED
    BY <2>1, <2>2
<1> QED
  BY <1>1, InitTyped, NextTyped, InitStreams, NextStreams, PTL DEF Spec

(***************************************************************************)
(* stats_recv leaves no complete line in the buffer of an open session.    *)
(***************************************************************************)
THEOREM LinesCorrect == Spec => []NoLineHeldBack
<1>1. Streams => NoLineHeldBack
  BY DEF Streams, StreamInv, NoLineHeldBack
<1> QED
  BY <1>1, InitTyped, NextTyped, InitStreams, NextStreams, PTL DEF Spec

-----------------------------------------------------------------------------
(***************************************************************************)
(* What the recursive Selection computes.                                  *)
(***************************************************************************)
Step(seq, S, w, i) ==
    IF i = 0 THEN <<>>
    ELSE IF seq[i] \in S THEN Append(w[i - 1], seq[i])
    ELSE w[i - 1]

LEMMA SelectionExists ==
    ASSUME NEW A, NEW s \in Seq(A), NEW S
    PROVE  \E w : w = [i \in 0..Len(s) |-> Step(s, S, w, i)]
<1> DEFINE Good(n, w) == w = [i \in 0..n |-> Step(s, S, w, i)]
           P == {n \in Nat : n <= Len(s) => \E w \in [0..n -> Seq(A)] : Good(n, w)}
<1>1. 0 \in P
  <2> DEFINE w == [i \in 0..0 |-> <<>>]
  <2>1. w \in [0..0 -> Seq(A)]
    OBVIOUS
  <2>2. Good(0, w)
    BY DEF Step
  <2> QED
    BY <2>1, <2>2
<1>2. ASSUME NEW n \in Nat, n \in P PROVE n + 1 \in P
  <2> SUFFICES ASSUME n + 1 <= Len(s)
               PROVE  \E v \in [0..(n + 1) -> Seq(A)] : Good(n + 1, v)
    OBVIOUS
  <2>1. PICK w \in [0..n -> Seq(A)] : Good(n, w)
    BY <1>2
  <2> DEFINE v == [i \in 0..(n + 1) |-> IF i <= n THEN w[i] ELSE Step(s, S, w, n + 1)]
  <2>2. s[n + 1] \in A /\ w[n] \in Seq(A)
    OBVIOUS
  <2>3. Step(s, S, w, n + 1) \in Seq(A)
    BY <2>2 DEF Step
  <2>4. v \in [0..(n + 1) -> Seq(A)]
    BY <2>3
  <2>5. ASSUME NEW i \in 0..(n + 1) PROVE v[i] = Step(s, S, v, i)
    <3>1. CASE i = 0
      BY <2>1, <3>1 DEF Step
    <3>2. CASE i \in 1..n
      <4>1. v[i] = w[i] /\ v[i - 1] = w[i - 1] /\ w[i] = Step(s, S, w, i)
        BY <2>1, <3>2
      <4> QED
        BY <3>2, <4>1 DEF Step
    <3>3. CASE i = n + 1
      <4>1. v[i] = Step(s, S, w, i) /\ v[i - 1] = w[i - 1]
        BY <3>3
      <4> QED
        BY <3>3, <4>1 DEF Step
    <3> QED
      BY <3>1, <3>2, <3>3
  <2>6. Good(n + 1, v)
    BY <2>4, <2>5
  <2> QED
    BY <2>4, <2>6
<1>3. Len(s) \in P
  <2> HIDE DEF P
  <2>1. Nat \subseteq P
    BY <1>1, <1>2, Induction
  <2>2. Len(s) \in Nat
    OBVIOUS
  <2> QED
    BY <2>1, <2>2
<1> QED
  BY <1>3

LEMMA SelectionDef ==
    ASSUME NEW A, NEW s \in Seq(A), NEW S
    PROVE  /\ DOMAIN Selection(s, S) = 0..Len(s)
           /\ Selection(s, S)[0] = <<>>
           /\ \A i \in 1..Len(s) :
                 Selection(s, S)[i] = IF s[i] \in S THEN Append(Selection(s, S)[i - 1], s[i])
                                      ELSE Selection(s, S)[i - 1]
<1>1. Selection(s, S) = CHOOSE w : w = [i \in 0..Len(s) |-> Step(s, S, w, i)]
  BY DEF Selection, Step
<1>2. Selection(s, S) = [i \in 0..Len(s) |-> Step(s, S, Selection(s, S), i)]
  BY <1>1, SelectionExists
<1> DEFINE w == Selection(s, S)
<1> HIDE DEF w
<1>3. w = [i \in 0..Len(s) |-> Step(s, S, w, i)] /\ Len(s) \in Nat
  BY <1>2 DEF w
<1>4. DOMAIN w = 0..Len(s)
  BY <1>3
<1>5. w[0] = <<>>
  <2>1. 0 \in 0..Len(s)
    BY <1>3
  <2>2. w[0] = Step(s, S, w, 0)
    BY <1>3, <2>1
  <2> QED
    BY <2>2 DEF Step
<1>6. ASSUME NEW i \in 1..Len(s)
      PROVE  w[i] = IF s[i] \in S THEN Append(w[i - 1], s[i]) ELSE w[i - 1]
  <2>1. i \in 0..Len(s) /\ i # 0
    BY <1>3
  <2>2. w[i] = Step(s, S, w, i)
    BY <1>3, <2>1
  <2> QED
    BY <2>1, <2>2 DEF Step
<1> QED
  BY <1>4, <1>5, <1>6 DEF w

(* It depends only on the elements it has passed. *)
LEMMA SelectionPrefix ==
    ASSUME NEW A, NEW s \in Seq(A), NEW t \in Seq(A), NEW S,
           NEW m \in Nat, m <= Len(s), m <= Len(t), \A i \in 1..m : s[i] = t[i]
    PROVE  Selection(s, S)[m] = Selection(t, S)[m]
<1> DEFINE v == Selection(s, S)  w == Selection(t, S)
           P == {n \in Nat : n <= m => v[n] = w[n]}
<1> HIDE DEF v, w
<1>1. /\ v[0] = <<>> /\ w[0] = <<>>
      /\ \A i \in 1..Len(s) : v[i] = IF s[i] \in S THEN Append(v[i - 1], s[i]) ELSE v[i - 1]
      /\ \A i \in 1..Len(t) : w[i] = IF t[i] \in S THEN Append(w[i - 1], t[i]) ELSE w[i - 1]
  BY SelectionDef DEF v, w
<1>2. 0 \in P
  BY <1>1
<1>3. ASSUME NEW n \in Nat, n \in P PROVE n + 1 \in P
  <2> SUFFICES ASSUME n + 1 <= m PROVE v[n + 1] = w[n + 1]
    OBVIOUS
  <2>1. /\ n + 1 \in 1..Len(s) /\ n + 1 \in 1..Len(t) /\ s[n + 1] = t[n + 1]
        /\ (n + 1) - 1 = n /\ v[n] = w[n]
    BY <1>3
  <2> QED
    BY <1>1, <2>1
<1>4. Nat \subseteq P
  <2> HIDE DEF P
  <2> QED
    BY <1>2, <1>3, Induction
<1> QED
  BY <1>4 DEF v, w

LEMMA SelectionTyped ==
    ASSUME NEW A, NEW s \in Seq(A), NEW S
    PROVE  \A i \in 0..Len(s) : Selection(s, S)[i] \in Seq(A)
<1> DEFINE v == Selection(s, S)
           P == {n \in Nat : n <= Len(s) => v[n] \in Seq(A)}
<1> HIDE DEF v
<1>1. /\ v[0] = <<>>
      /\ \A i \in 1..Len(s) : v[i] = IF s[i] \in S THEN Append(v[i - 1], s[i]) ELSE v[i - 1]
  BY SelectionDef DEF v
<1>2. 0 \in P
  <2>1. <<>> \in Seq(A)
    OBVIOUS
  <2> QED
    BY <1>1, <2>1
<1>3. ASSUME NEW n \in Nat, n \in P PROVE n + 1 \in P
  <2> SUFFICES ASSUME n + 1 <= Len(s) PROVE v[n + 1] \in Seq(A)
    OBVIOUS
  <2>1. n + 1 \in 1..Len(s) /\ s[n + 1] \in A /\ (n + 1) - 1 = n /\ v[n] \in Seq(A)
    BY <1>3
  <2>2. Append(v[n], s[n + 1]) \in Seq(A)
    BY <2>1
  <2>3. v[n + 1] = IF s[n + 1] \in S THEN Append(v[n], s[n + 1]) ELSE v[n]
    BY <1>1, <2>1
  <2> QED
    BY <2>1, <2>2, <2>3
<1>4. Nat \subseteq P
  <2> HIDE DEF P
  <2> QED
    BY <1>2, <1>3, Induction
<1> QED
  BY <1>4 DEF v

LEMMA SelectionStart ==
    ASSUME NEW A, NEW s \in Seq(A), NEW S
    PROVE  Selection(s, S)[0] = <<>>
BY SelectionDef, Zenon

LEMMA WhereEmpty ==
    ASSUME NEW A, NEW s \in Seq(A), NEW S, Len(s) = 0
    PROVE  Where(s, S) = <<>>
BY SelectionStart DEF Where

LEMMA WhereAppend ==
    ASSUME NEW A, NEW s \in Seq(A), NEW e \in A, NEW S
    PROVE  /\ Where(s, S) \in Seq(A)
           /\ Where(Append(s, e), S) = IF e \in S THEN Append(Where(s, S), e) ELSE Where(s, S)
<1> DEFINE t == Append(s, e)
<1>1. /\ t \in Seq(A) /\ Len(s) \in Nat /\ Len(t) = Len(s) + 1 /\ t[Len(s) + 1] = e
      /\ \A i \in 1..Len(s) : s[i] = t[i]
  OBVIOUS
<1> HIDE DEF t
<1>2. Selection(s, S)[Len(s)] = Selection(t, S)[Len(s)]
  BY <1>1, SelectionPrefix
<1>3. Len(t) \in 1..Len(t) /\ Len(t) - 1 = Len(s)
  BY <1>1
<1>4. Selection(t, S)[Len(t)] = IF e \in S THEN Append(Selection(t, S)[Len(s)], e)
                                ELSE Selection(t, S)[Len(s)]
  BY <1>1, <1>3, SelectionDef
<1>5. Where(s, S) \in Seq(A)
  BY <1>1, SelectionTyped DEF Where
<1> QED
  BY <1>2, <1>4, <1>5 DEF Where, t

(* Of the bytes of a line only its newline can be selected. *)
LEMMA WhereLine ==
    ASSUME NEW h \in Seq(Byte), NEW l \in Lines, NEW S,
           \A k \in 1..LineLen[l] : <<l, k>> \in S => k = LineLen[l]
    PROVE  /\ Where(h, S) \in Seq(Byte)
           /\ Where(h \o Bytes(l), S) =
                IF <<l, LineLen[l]>> \in S THEN Append(Where(h, S), <<l, LineLen[l]>>)
                ELSE Where(h, S)
<1> DEFINE c == h \o Bytes(l)
           n == Len(h)
           m == LineLen[l]
           w == Selection(c, S)
           P == {k \in Nat : k < m => w[n + k] = w[n]}
<1>1. m \in Nat \ {0} /\ Bytes(l) \in Seq(Byte) /\ Len(Bytes(l)) = m
  BY BytesOfLine
<1>2. \A k \in 1..m : Bytes(l)[k] = <<l, k>>
  BY BytesOfLine
<1>3. /\ c \in Seq(Byte) /\ Len(c) = n + m /\ n \in Nat
      /\ \A i \in 1..(n + m) : c[i] = IF i <= n THEN h[i] ELSE Bytes(l)[i - n]
  <2> DEFINE bs == Bytes(l)
  <2>1. bs \in Seq(Byte) /\ Len(bs) = LineLen[l] /\ LineLen[l] \in Nat /\ Len(h) \in Nat
    BY <1>1
  <2> HIDE DEF bs
  <2>2. /\ h \o bs \in Seq(Byte) /\ Len(h \o bs) = Len(h) + Len(bs)
        /\ \A i \in 1..(Len(h) + Len(bs)) : (h \o bs)[i] = IF i <= Len(h) THEN h[i] ELSE bs[i - Len(h)]
    BY <2>1
  <2>3. bs = Bytes(l)
    BY DEF bs
  <2> QED
    BY <2>1, <2>2, <2>3
<1> HIDE DEF c, n, m, w
<1>4. ASSUME NEW k \in 1..m PROVE n + k \in 1..Len(c) /\ c[n + k] = <<l, k>>
  <2>1. n + k \in 1..(n + m) /\ ~(n + k <= n) /\ (n + k) - n = k
    BY <1>1, <1>3
  <2> QED
    BY <1>2, <1>3, <2>1
<1>5. \A i \in 1..Len(c) : w[i] = IF c[i] \in S THEN Append(w[i - 1], c[i]) ELSE w[i - 1]
  BY <1>3, SelectionDef DEF w
<1>6. w[n] = Where(h, S)
  <2>1. \A i \in 1..n : h[i] = c[i]
    BY <1>1, <1>3
  <2>2. n <= Len(c) /\ n <= Len(h)
    BY <1>1, <1>3 DEF n
  <2> QED
    BY <1>3, <2>1, <2>2, SelectionPrefix DEF Where, n, w
<1>7. 0 \in P
  BY <1>1, <1>3
<1>8. ASSUME NEW k \in Nat, k \in P PROVE k + 1 \in P
  <2> SUFFICES ASSUME k + 1 < m PROVE w[n + (k + 1)] = w[n]
    OBVIOUS
  <2>1. k + 1 \in 1..m /\ k + 1 # m /\ (n + (k + 1)) - 1 = n + k /\ w[n + k] = w[n]
    BY <1>1, <1>3, <1>8
  <2>2. c[n + (k + 1)] \notin S /\ n + (k + 1) \in 1..Len(c)
    BY <1>4, <2>1 DEF m
  <2> QED
    BY <1>5, <2>1, <2>2
<1>9. w[n + (m - 1)] = w[n]
  <2>1. Nat \subseteq P
    <3> HIDE DEF P
    <3> QED
      BY <1>7, <1>8, Induction
  <2>2. m - 1 \in Nat /\ m - 1 < m
    BY <1>1
  <2> QED
    BY <2>1, <2>2
<1>10. w[n + m] = IF <<l, m>> \in S THEN Append(w[n], <<l, m>>) ELSE w[n]
  <2>1. m \in 1..m /\ (n + m) - 1 = n + (m - 1)
    BY <1>1, <1>3
  <2> QED
    BY <1>4, <1>5, <1>9, <2>1
<1>11. Where(h, S) \in Seq(Byte)
  <2>1. Len(h) \in 0..Len(h)
    OBVIOUS
  <2> QED
    BY <2>1, SelectionTyped DEF Where
<1>12. Where(c, S) = w[n + m]
  BY <1>3 DEF Where, w
<1> QED
  BY <1>6, <1>10, <1>11, <1>12 DEF c, m

-----------------------------------------------------------------------------
(***************************************************************************)
(* What a backend is given of a session and what the session has processed *)
(* for it, element by element.                                             *)
(***************************************************************************)
Match(F, G) == Len(F) = Len(G) /\ \A i \in 1..Len(F) : F[i][2] = G[i][1]
Newlines(b) == {<<l, LineLen[l]>> : l \in LinesFor(b)}
Source == Sessions \cup {"udp"}

LEMMA MatchAppend ==
    ASSUME NEW A, NEW B, NEW F \in Seq(A), NEW G \in Seq(B), NEW e \in A, NEW g \in B,
           Match(F, G), e[2] = g[1]
    PROVE  Match(Append(F, e), Append(G, g))
<1>1. Len(Append(F, e)) = Len(F) + 1 /\ Len(Append(G, g)) = Len(G) + 1 /\ Len(F) \in Nat /\ Len(F) = Len(G)
  BY DEF Match
<1>2. ASSUME NEW i \in 1..(Len(F) + 1)
      PROVE  Append(F, e)[i][2] = Append(G, g)[i][1]
  <2>1. CASE i = Len(F) + 1
    BY <1>1, <2>1
  <2>2. CASE i # Len(F) + 1
    <3>1. i \in 1..Len(F)
      BY <1>1, <2>2
    <3>2. Append(F, e)[i] = F[i] /\ Append(G, g)[i] = G[i]
      BY <1>1, <3>1
    <3> QED
      BY <3>1, <3>2 DEF Match
  <2> QED
    BY <2>1, <2>2
<1> QED
  BY <1>1, <1>2 DEF Match

(* Of the bytes of a line, its newline alone is looked at, by one backend. *)
LEMMA NewlineOfLine ==
    ASSUME NEW l \in Lines, NEW b
    PROVE  /\ \A k \in 1..LineLen[l] : <<l, k>> \in Newlines(b) => k = LineLen[l]
           /\ <<l, LineLen[l]>> \in Newlines(b) <=> l # StatusLine /\ hashring_choose(l) = b
BY DEF Newlines, LinesFor

(* A processed line extends the history of its session. *)
LEMMA ForBackendLine ==
    ASSUME TypeOK, NEW s \in Sessions, NEW l \in Lines, NEW b,
           handled' = [handled EXCEPT ![s] = @ \o Bytes(l)]
    PROVE  \A q \in Sessions :
              /\ ForBackend(q, b) \in Seq(Byte)
              /\ ForBackend(q, b)' =
                   IF q = s /\ l # StatusLine /\ hashring_choose(l) = b
                   THEN Append(ForBackend(q, b), <<l, LineLen[l]>>)
                   ELSE ForBackend(q, b)
<1> TAKE q \in Sessions
<1>1. handled \in [Sessions -> Seq(Byte)]
  BY DEF TypeOK
<1>2. \A r : ForBackend(r, b) = Where(handled[r], Newlines(b)) /\ ForBackend(r, b)' = Where(handled'[r], Newlines(b))
  BY DEF ForBackend, Newlines, LinesFor, hashring_choose
<1>3. \A r \in Sessions : Where(handled[r], Newlines(b)) \in Seq(Byte)
  BY <1>1, NewlineOfLine, WhereLine
<1>4. Where(handled[s] \o Bytes(l), Newlines(b)) =
        IF l # StatusLine /\ hashring_choose(l) = b THEN Append(Where(handled[s], Newlines(b)), <<l, LineLen[l]>>)
        ELSE Where(handled[s], Newlines(b))
  <2>1. handled[s] \in Seq(Byte)
    BY <1>1
  <2> QED
    BY <2>1, NewlineOfLine, WhereLine
<1>5. CASE q = s
  <2>1. handled'[s] = handled[s] \o Bytes(l)
    BY <1>1
  <2> QED
    BY <1>2, <1>3, <1>4, <1>5, <2>1
<1>6. CASE q # s
  <2>1. handled'[q] = handled[q]
    BY <1>1, <1>6
  <2> QED
    BY <1>2, <1>3, <1>6, <2>1
<1> QED
  BY <1>5, <1>6

LEMMA ForBackendStill ==
    ASSUME UNCHANGED handled, NEW s, NEW b
    PROVE  ForBackend(s, b)' = ForBackend(s, b)
BY DEF ForBackend, LinesFor, hashring_choose

LEMMA FromSessionStill ==
    ASSUME UNCHANGED relayed, NEW s, NEW b
    PROVE  FromSession(s, b)' = FromSession(s, b)
BY DEF FromSession

(* A line that is queued extends what its backend has from its source. *)
LEMMA FromSessionLine ==
    ASSUME TypeOK, NEW src \in Source, NEW l \in Lines, LineRelayed(src, l)
    PROVE  \A q \in Sessions, b \in Backends :
              /\ FromSession(q, b) \in Seq(Source \X Lines)
              /\ FromSession(q, b)' =
                   IF q = src /\ hashring_choose(l) = b
                   THEN Append(FromSession(q, b), <<src, l>>)
                   ELSE FromSession(q, b)
<1> TAKE q \in Sessions, b \in Backends
<1>1. relayed \in [Backends -> Seq(Source \X Lines)]
  BY DEF TypeOK, Source
<1>2. /\ FromSession(q, b) = Where(relayed[b], {q} \X Lines)
      /\ FromSession(q, b)' = Where(relayed'[b], {q} \X Lines)
  BY DEF FromSession
<1>3. relayed' = [relayed EXCEPT ![hashring_choose(l)] = Append(@, <<src, l>>)]
  BY DEF LineRelayed
<1>4. relayed[b] \in Seq(Source \X Lines) /\ <<src, l>> \in Source \X Lines
  BY <1>1
<1>5. /\ Where(relayed[b], {q} \X Lines) \in Seq(Source \X Lines)
      /\ Where(Append(relayed[b], <<src, l>>), {q} \X Lines) =
           IF <<src, l>> \in {q} \X Lines THEN Append(Where(relayed[b], {q} \X Lines), <<src, l>>)
           ELSE Where(relayed[b], {q} \X Lines)
  <2> DEFINE A == Source \X Lines  S == {q} \X Lines  r == relayed[b]  e == <<src, l>>
  <2>1. r \in Seq(A) /\ e \in A
    BY <1>4
  <2> HIDE DEF A, S, r, e
  <2>2. /\ Where(r, S) \in Seq(A)
        /\ Where(Append(r, e), S) = IF e \in S THEN Append(Where(r, S), e) ELSE Where(r, S)
    BY <2>1, WhereAppend
  <2> QED
    BY <2>2 DEF A, S, r, e
<1>6. <<src, l>> \in {q} \X Lines <=> q = src
  OBVIOUS
<1>7. CASE hashring_choose(l) = b
  <2>1. relayed'[b] = Append(relayed[b], <<src, l>>)
    BY <1>1, <1>3, <1>7
  <2> QED
    BY <1>2, <1>5, <1>6, <1>7, <2>1
<1>8. CASE hashring_choose(l) # b
  <2>1. relayed'[b] = relayed[b]
    BY <1>1, <1>3, <1>8
  <2> QED
    BY <1>2, <1>5, <1>8, <2>1
<1> QED
  BY <1>7, <1>8

LEMMA NextRouted ==
    ASSUME TypeOK, RoutedInOrder, [Next]_vars
    PROVE  RoutedInOrder'
<1> SUFFICES ASSUME NEW q \in Sessions, NEW c \in Backends
             PROVE  Match(FromSession(q, c)', ForBackend(q, c)')
  BY DEF RoutedInOrder, Match
<1>1. Match(FromSession(q, c), ForBackend(q, c))
  BY DEF RoutedInOrder, Match
<1>2. CASE UNCHANGED <<handled, relayed>>
  BY <1>1, <1>2, ForBackendStill, FromSessionStill
<1>3. ASSUME NEW s \in Sessions, ProcessLine(s)
      PROVE  Match(FromSession(q, c)', ForBackend(q, c)')
  <2> DEFINE n == EndOfLine(buffer[s])
  <2>1. PICK l \in Lines :
          /\ SubSeq(buffer[s], 1, n) = Bytes(l)
          /\ \/ /\ l = StatusLine
                /\ ConsumeLine(s)
                /\ UNCHANGED sinkVars
             \/ /\ LineRelayed(s, l)
                /\ ConsumeLine(s)
             \/ /\ UNCHANGED handled
                /\ LineRefused(l) \/ LineInvalid(l)
    BY <1>3 DEF ProcessLine
  <2>2. ASSUME ConsumeLine(s) PROVE handled' = [handled EXCEPT ![s] = @ \o Bytes(l)]
    BY <2>1, <2>2 DEF ConsumeLine
  <2>3. CASE l = StatusLine /\ ConsumeLine(s) /\ UNCHANGED sinkVars
    <3>1. ForBackend(q, c)' = ForBackend(q, c)
      BY <2>2, <2>3, ForBackendLine
    <3>2. FromSession(q, c)' = FromSession(q, c)
      BY <2>3, FromSessionStill DEF sinkVars
    <3> QED
      BY <1>1, <3>1, <3>2
  <2>4. CASE LineRelayed(s, l) /\ ConsumeLine(s)
    <3>1. l # StatusLine
      BY <2>4, RelayAssumption DEF LineRelayed
    <3>2. /\ ForBackend(q, c) \in Seq(Byte)
          /\ ForBackend(q, c)' = IF q = s /\ hashring_choose(l) = c
                                 THEN Append(ForBackend(q, c), <<l, LineLen[l]>>)
                                 ELSE ForBackend(q, c)
      <4>1. handled' = [handled EXCEPT ![s] = @ \o Bytes(l)]
        BY <2>2, <2>4
      <4>2. /\ ForBackend(q, c) \in Seq(Byte)
            /\ ForBackend(q, c)' = IF q = s /\ l # StatusLine /\ hashring_choose(l) = c
                                   THEN Append(ForBackend(q, c), <<l, LineLen[l]>>)
                                   ELSE ForBackend(q, c)
        BY <4>1, ForBackendLine
      <4> QED
        BY <3>1, <4>2, Zenon
    <3>3. /\ FromSession(q, c) \in Seq(Source \X Lines)
          /\ FromSession(q, c)' = IF q = s /\ hashring_choose(l) = c
                                  THEN Append(FromSession(q, c), <<s, l>>)
                                  ELSE FromSession(q, c)
      BY <2>4, FromSessionLine DEF Source
    <3>4. <<s, l>> \in Source \X Lines /\ <<l, LineLen[l]>> \in Byte
      BY RelayAssumption DEF Source, Byte
    <3>5. <<s, l>>[2] = <<l, LineLen[l]>>[1]
      OBVIOUS
    <3>6. CASE q = s /\ hashring_choose(l) = c
      <4>1. Match(Append(FromSession(q, c), <<s, l>>), Append(ForBackend(q, c), <<l, LineLen[l]>>))
        BY <1>1, <3>2, <3>3, <3>4, <3>5, MatchAppend
      <4> QED
        BY <3>2, <3>3, <3>6, <4>1
    <3> QED
      BY <1>1, <3>2, <3>3, <3>6
  <2>5. CASE UNCHANGED handled /\ (LineRefused(l) \/ LineInvalid(l))
    BY <1>2, <2>5 DEF LineRefused, LineInvalid
  <2> QED
    BY <2>1, <2>3, <2>4, <2>5
<1>4. ASSUME UdpLine PROVE Match(FromSession(q, c)', ForBackend(q, c)')
  <2>1. Head(dgram) \in Lines
    BY <1>4 DEF UdpLine, TypeOK
  <2>2. CASE LineRelayed("udp", Head(dgram))
    <3>1. ForBackend(q, c)' = ForBackend(q, c)
      BY <1>4, ForBackendStill DEF UdpLine, sessVars
    <3>2. FromSession(q, c)' = FromSession(q, c)
      <4>1. q # "udp" /\ "udp" \in Source
        BY RelayAssumption DEF Source
      <4> QED
        BY <2>1, <2>2, <4>1, FromSessionLine
    <3> QED
      BY <1>1, <3>1, <3>2
  <2>3. CASE LineRefused(Head(dgram)) \/ LineInvalid(Head(dgram))
    BY <1>2, <1>4, <2>3 DEF UdpLine, sessVars, LineRefused, LineInvalid
  <2> QED
    BY <1>4, <2>2, <2>3 DEF UdpLine
<1>5. CASE \E s \in Sessions : ProcessLine(s)
  BY <1>3, <1>5
<1>6. CASE UdpLine
  BY <1>4, <1>6
<1>7. CASE /\ [Next]_vars
           /\ ~\E s \in Sessions : ProcessLine(s)
           /\ ~UdpLine
  <2>1. UNCHANGED <<handled, relayed>>
    BY <1>7 DEF Next, Handle, Accept, ClientWrites, ClientCloses, Recv, RecvClosed, RecvFails,
             RecvData, LinesDone, UdpRecv, UdpDone, Drain, vars, sessVars, sinkVars
  <2> QED
    BY <1>2, <2>1
<1> QED
  BY <1>5, <1>6, <1>7

LEMMA InitRouted == Init => RoutedInOrder
<1> SUFFICES ASSUME Init, NEW s \in Sessions, NEW b \in Backends
             PROVE  Match(FromSession(s, b), ForBackend(s, b))
  BY DEF RoutedInOrder, Match
<1>1. relayed[b] = <<>> /\ handled[s] = <<>>
  BY DEF Init
<1>2. \A S : Where(<<>>, S) = <<>>
  <2> DEFINE e == <<>>
  <2>1. e \in Seq({}) /\ Len(e) = 0
    OBVIOUS
  <2> HIDE DEF e
  <2>2. \A S : Where(e, S) = <<>>
    BY <2>1, WhereEmpty
  <2> QED
    BY <2>2 DEF e
<1>3. FromSession(s, b) = <<>> /\ ForBackend(s, b) = <<>>
  BY <1>1, <1>2 DEF FromSession, ForBackend
<1>4. Match(<<>>, <<>>)
  BY DEF Match
<1> QED
  BY <1>3, <1>4

(***************************************************************************)
(* Every key keeps to one backend and every client's lines stay in order,  *)
(* whatever the ring, the hash, the lines and the limits of the queues:    *)
(* stats_relay_line gives a backend the lines of a session whose keys hash *)
(* to it, all of them that were processed, each once and in their order.   *)
(***************************************************************************)
THEOREM RoutingCorrect == Spec => []RoutedInOrder
<1>1. Init => RoutedInOrder
  BY InitRouted
<1>2. TypeOK /\ RoutedInOrder /\ [Next]_vars => RoutedInOrder'
  BY NextRouted
<1> QED
  BY <1>1, <1>2, RelayTypeCorrect, PTL DEF Spec

-----------------------------------------------------------------------------
(***************************************************************************)
(* The validators accept exactly the texts of their formats, whichever     *)
(* characters and lengths the texts that are looked at have.               *)
(***************************************************************************)
THEOREM ValidatorsCorrect == Spec => []ValidatorsExact
<1>1. ValidatorsExact
  BY ValidatorsRight, TextsAreTexts, Zenon DEF ValidatorsExact
<1> QED
  BY <1>1, PTL

(***************************************************************************)
(* Every one of those texts that validate_statsd accepts has a key.        *)
(***************************************************************************)
THEOREM ValidCorrect == Spec => []ValidHasKey
<1>1. ValidHasKey
  BY ValidTextHasKey, TextsAreTexts, Zenon DEF ValidHasKey
<1> QED
  BY <1>1, PTL

(* The counter of malformed lines, when the lines are validated. *)
NoneMalformed == Protocol = "statsd" /\ EnableValidation => malformed_lines = 0

(***************************************************************************)
(* A statsd server that validates never counts a line as malformed: the    *)
(* lines that stats_relay_line would find no key in are the ones the       *)
(* validator has refused before, and malformed_lines says nothing of them. *)
(***************************************************************************)
THEOREM NothingMalformed == Spec => []NoneMalformed
<1>1. ASSUME Protocol = "statsd", EnableValidation, NEW l \in Lines, PassesValidation(l) PROVE l \in Keyed
  <2>1. Text[l] \in Seq(STRING)
    BY RelayAssumption
  <2>2. validate_statsd(Text[l])
    BY <1>1, Zenon DEF PassesValidation, Valid, validator
  <2>3. protocol_parser_statsd(Text[l]) > 0
    BY <2>1, <2>2, ValidTextHasKey, Zenon
  <2> QED
    BY <1>1, <2>3, Zenon DEF Keyed, parser
<1>2. ASSUME Protocol = "statsd", EnableValidation, NEW l \in Lines, LineInvalid(l) PROVE UNCHANGED malformed_lines
  BY <1>1, <1>2, Zenon DEF LineInvalid
<1>3. Init => NoneMalformed
  BY DEF Init, NoneMalformed
<1>4. TypeOK /\ NoneMalformed /\ [Next]_vars => NoneMalformed'
  <2> SUFFICES ASSUME TypeOK, [Next]_vars, Protocol = "statsd", EnableValidation
               PROVE  UNCHANGED malformed_lines
    BY DEF NoneMalformed
  <2>1. ASSUME NEW s \in Sessions, ProcessLine(s) PROVE UNCHANGED malformed_lines
    BY <1>2, <2>1 DEF ProcessLine, LineRelayed, LineRefused, sinkVars
  <2>2. ASSUME UdpLine PROVE UNCHANGED malformed_lines
    <3>1. Head(dgram) \in Lines
      BY <2>2 DEF UdpLine, TypeOK
    <3> QED
      BY <1>2, <2>2, <3>1 DEF UdpLine, LineRelayed, LineRefused
  <2>3. CASE \E s \in Sessions : ProcessLine(s)
    BY <2>1, <2>3
  <2>4. CASE UdpLine
    BY <2>2, <2>4
  <2>5. CASE ~UdpLine /\ ~\E s \in Sessions : ProcessLine(s)
    BY <2>5 DEF Next, Handle, Accept, ClientWrites, ClientCloses, Recv, RecvClosed, RecvFails,
             RecvData, LinesDone, UdpRecv, UdpDone, Drain, vars, sinkVars
  <2> QED
    BY <2>3, <2>4, <2>5
<1> QED
  BY <1>3, <1>4, RelayTypeCorrect, PTL DEF Spec

-----------------------------------------------------------------------------
(* The loop over lines runs for a session only while the session exists. *)
ServesOpen == \A s \in Sessions : running = s => conn[s] = "open"

LEMMA NextServesOpen ==
    ASSUME TypeOK, ServesOpen, [Next]_vars
    PROVE  ServesOpen'
<1> SUFFICES ASSUME NEW s \in Sessions, running' = s
             PROVE  conn'[s] = "open"
  BY DEF ServesOpen
<1>0. "udp" # s /\ "idle" # s
  BY RelayAssumption
<1>1. ASSUME NEW t \in Sessions, NEW n \in 1..Len(flight[t]), RecvData(t, n)
      PROVE  conn'[s] = "open"
  BY <1>1 DEF RecvData
<1>2. ASSUME NEW t \in Sessions, ProcessLine(t)
      PROVE  conn'[s] = "open"
  BY <1>0, <1>2 DEF ProcessLine, ConsumeLine, ServesOpen
<1>3. ASSUME NEW t \in Sessions,
             \/ Accept(t) \/ \E l \in Typed : ClientWrites(t, l)
             \/ ClientCloses(t) \/ RecvClosed(t) \/ RecvFails(t) \/ LinesDone(t)
      PROVE  FALSE
  BY <1>0, <1>3 DEF Accept, ClientWrites, ClientCloses, RecvClosed, RecvFails, LinesDone
<1>4. CASE \/ \E d \in Datagrams : UdpRecv(d)
           \/ UdpLine \/ UdpDone
           \/ \E b \in Backends : \E n \in 1..backlog[b] : Drain(b, n)
           \/ UNCHANGED vars
  <2>1. conn' = conn /\ running = s
    BY <1>0, <1>4 DEF UdpRecv, UdpLine, UdpDone, Drain, vars, sessVars
  <2> QED
    BY <2>1 DEF ServesOpen
<1> QED
  BY <1>1, <1>2, <1>3, <1>4 DEF Next, Handle, Recv

(* session->buffer, as the interface of a buffer_t has it. *)
SessionBuffer(s) ==
    INSTANCE ByteQueue WITH Chunks <- Seq(Byte), q <- buffer[s], gone <- conn[s] = "closed"

(* A step changes one session's buffer, as a queue of bytes may change. *)
LEMMA BufferSteps ==
    ASSUME TypeOK, ServesOpen, [Next]_vars, NEW s \in Sessions
    PROVE  \/ buffer'[s] = buffer[s] /\ (conn'[s] = "closed" <=> conn[s] = "closed")
           \/ /\ conn[s] = "open" /\ conn'[s] = "open"
              /\ \E c \in Seq(Byte) : buffer'[s] = buffer[s] \o c
           \/ /\ conn[s] = "open" /\ conn'[s] = "open"
              /\ \E n \in 1..Len(buffer[s]) : buffer'[s] = SubSeq(buffer[s], n + 1, Len(buffer[s]))
           \/ conn[s] = "open" /\ conn'[s] = "closed" /\ buffer'[s] = <<>>
<1> USE DEF TypeOK
<1>1. ASSUME NEW t \in Sessions, Accept(t)
      PROVE  buffer'[s] = buffer[s] /\ (conn'[s] = "closed" <=> conn[s] = "closed")
  BY <1>1 DEF Accept
<1>2. ASSUME NEW t \in Sessions,
             \/ \E l \in Typed : ClientWrites(t, l)
             \/ ClientCloses(t) \/ LinesDone(t)
      PROVE  UNCHANGED <<buffer, conn>>
  BY <1>2 DEF ClientWrites, ClientCloses, LinesDone, sessVars
<1>3. ASSUME NEW t \in Sessions, conn[t] = "open", DestroySession(t)
      PROVE  \/ buffer'[s] = buffer[s] /\ conn'[s] = conn[s]
             \/ conn[s] = "open" /\ conn'[s] = "closed" /\ buffer'[s] = <<>>
  BY <1>3 DEF DestroySession
<1>4. ASSUME NEW t \in Sessions, RecvClosed(t) \/ RecvFails(t)
      PROVE  conn[t] = "open" /\ DestroySession(t)
  BY <1>4 DEF RecvClosed, RecvFails
<1>5. ASSUME NEW t \in Sessions, NEW n \in 1..Len(flight[t]), RecvData(t, n)
      PROVE  \/ buffer'[s] = buffer[s] /\ conn'[s] = conn[s]
             \/ /\ conn[s] = "open" /\ conn'[s] = "open"
                /\ \E c \in Seq(Byte) : buffer'[s] = buffer[s] \o c
  <2>1. SubSeq(flight[t], 1, n) \in Seq(Byte)
    BY <1>5
  <2>2. /\ buffer' = [buffer EXCEPT ![t] = buffer[t] \o SubSeq(flight[t], 1, n)]
        /\ conn' = conn /\ conn[t] = "open"
    BY <1>5 DEF RecvData
  <2>3. CASE t = s
    <3>1. buffer'[s] = buffer[s] \o SubSeq(flight[t], 1, n)
      BY <2>2, <2>3
    <3> QED
      BY <2>1, <2>2, <2>3, <3>1, Zenon
  <2>4. CASE t # s
    BY <2>2, <2>4
  <2> QED
    BY <2>3, <2>4
<1>6. ASSUME NEW t \in Sessions, HasLine(buffer[t]), conn[t] = "open", ConsumeLine(t)
      PROVE  \/ buffer'[s] = buffer[s] /\ conn'[s] = conn[s]
             \/ /\ conn[s] = "open" /\ conn'[s] = "open"
                /\ \E n \in 1..Len(buffer[s]) : buffer'[s] = SubSeq(buffer[s], n + 1, Len(buffer[s]))
  <2> DEFINE n == EndOfLine(buffer[t])
  <2>1. n \in 1..Len(buffer[t])
    BY <1>6, FirstNewline
  <2>2. /\ buffer' = [buffer EXCEPT ![t] = SubSeq(buffer[t], n + 1, Len(buffer[t]))]
        /\ conn' = conn
    BY <1>6 DEF ConsumeLine
  <2> HIDE DEF n
  <2>3. CASE t = s
    BY <1>6, <2>1, <2>2, <2>3
  <2>4. CASE t # s
    BY <2>2, <2>4
  <2> QED
    BY <2>3, <2>4
<1>7. ASSUME NEW t \in Sessions, ProcessLine(t)
      PROVE  conn[t] = "open" /\ HasLine(buffer[t]) /\ (ConsumeLine(t) \/ DestroySession(t))
  BY <1>7 DEF ProcessLine, ServesOpen
<1>8. CASE \/ \E d \in Datagrams : UdpRecv(d)
           \/ UdpLine \/ UdpDone
           \/ \E b \in Backends : \E n \in 1..backlog[b] : Drain(b, n)
           \/ UNCHANGED vars
  BY <1>8 DEF UdpRecv, UdpLine, UdpDone, Drain, vars, sessVars
<1> QED
  BY <1>1, <1>2, <1>3, <1>4, <1>5, <1>6, <1>7, <1>8 DEF Next, Handle, Recv

(***************************************************************************)
(* A session uses its buffer within what a buffer_t promises: it adds what *)
(* recv delivered, consumes from the front no more than is there, and      *)
(* never touches it once stats_session_destroy has freed it, also where a  *)
(* line in the middle of the buffer ends the session.                      *)
(***************************************************************************)
THEOREM SessionBufferUse ==
    ASSUME NEW s \in Sessions
    PROVE  Spec => SessionBuffer(s)!Spec
<1>1. Init => SessionBuffer(s)!Init
  BY DEF Init, SessionBuffer!Init
<1>2. ASSUME TypeOK, ServesOpen, [Next]_vars
      PROVE  [SessionBuffer(s)!Next]_<<buffer[s], conn[s] = "closed">>
  <2>1. CASE buffer'[s] = buffer[s] /\ (conn'[s] = "closed" <=> conn[s] = "closed")
    BY <2>1
  <2>2. CASE /\ conn[s] = "open" /\ conn'[s] = "open"
             /\ \E c \in Seq(Byte) : buffer'[s] = buffer[s] \o c
    BY <2>2 DEF SessionBuffer!Next, SessionBuffer!Put
  <2>3. CASE /\ conn[s] = "open" /\ conn'[s] = "open"
             /\ \E n \in 1..Len(buffer[s]) : buffer'[s] = SubSeq(buffer[s], n + 1, Len(buffer[s]))
    BY <2>3 DEF SessionBuffer!Next, SessionBuffer!Take
  <2>4. CASE conn[s] = "open" /\ conn'[s] = "closed" /\ buffer'[s] = <<>>
    BY <2>4 DEF SessionBuffer!Next, SessionBuffer!Destroy
  <2> QED
    BY <1>2, <2>1, <2>2, <2>3, <2>4, BufferSteps
<1>3. Init => ServesOpen
  BY RelayAssumption DEF Init, ServesOpen
<1> QED
  BY <1>1, <1>2, <1>3, NextServesOpen, RelayTypeCorrect, PTL DEF Spec, SessionBuffer!Spec

-----------------------------------------------------------------------------
(* All the lines of a datagram go to one backend. *)
OneBackend(d) == \A i, j \in 1..Len(d) : hashring_choose(d[i]) = hashring_choose(d[j])

LEMMA RestOneBackend ==
    ASSUME TypeOK, OneBackend(dgram), [Next]_vars, \A d \in Datagrams : OneBackend(d)
    PROVE  OneBackend(dgram)'
<1>0. OneBackend(<<>>)
  BY DEF OneBackend
<1>1. CASE \E d \in Datagrams : UdpRecv(d)
  BY <1>1 DEF UdpRecv
<1>2. CASE UdpLine
  <2>1. dgram' = <<>> \/ (dgram # <<>> /\ dgram' = Tail(dgram))
    BY <1>2 DEF UdpLine
  <2>2. ASSUME dgram # <<>>
        PROVE  OneBackend(Tail(dgram))
    <3>1. dgram \in Seq(Lines)
      BY DEF TypeOK
    <3>2. /\ Len(Tail(dgram)) = Len(dgram) - 1 /\ Len(dgram) \in Nat
          /\ \A i \in 1..Len(Tail(dgram)) : Tail(dgram)[i] = dgram[i + 1] /\ i + 1 \in 1..Len(dgram)
      BY <2>2, <3>1
    <3> QED
      BY <3>2 DEF OneBackend
  <2> QED
    BY <1>0, <2>1, <2>2
<1>3. CASE \/ \E s \in Sessions :
                \/ Accept(s) \/ \E l \in Typed : ClientWrites(s, l)
                \/ ClientCloses(s) \/ RecvClosed(s) \/ RecvFails(s)
                \/ \E n \in 1..Len(flight[s]) : RecvData(s, n)
                \/ ProcessLine(s) \/ LinesDone(s)
           \/ UdpDone
           \/ \E b \in Backends : \E n \in 1..backlog[b] : Drain(b, n)
           \/ UNCHANGED vars
  <2>1. dgram' = dgram
    BY <1>3 DEF Accept, ClientWrites, ClientCloses, RecvClosed, RecvFails, RecvData,
       ProcessLine, ConsumeLine, LinesDone, UdpDone, Drain, vars
  <2> QED
    BY <2>1
<1> QED
  BY <1>1, <1>2, <1>3 DEF Next, Handle, Recv

(***************************************************************************)
(* When BackendsIndependent holds: where the lines of each datagram go to  *)
(* one backend (a ring of one backend, or one line per datagram), and      *)
(* backends refuse lines only at their limit, a full queue costs no line   *)
(* of a datagram whose own backend has room.                               *)
(***************************************************************************)
THEOREM OneBackendIndependent ==
    ASSUME Flaky = {}, \A d \in Datagrams : OneBackend(d)
    PROVE  Spec => BackendsIndependent
<1> DEFINE Kept == running = "udp" /\ dropped' # dropped
                     => \A i \in 2..Len(dgram) :
                          PassesValidation(dgram[i]) /\ dgram[i] \in Keyed
                            => backlog[hashring_choose(dgram[i])] >= Limit
<1>1. Init => OneBackend(dgram)
  BY DEF Init, OneBackend
<1>2. ASSUME TypeOK, OneBackend(dgram), [Next]_vars, running = "udp", dropped' # dropped,
             NEW i \in 2..Len(dgram)
      PROVE  backlog[hashring_choose(dgram[i])] >= Limit
  <2>1. "udp" \notin Sessions
    BY RelayAssumption
  <2>2. UdpLine
    BY <1>2, <2>1 DEF Next, Handle, Accept, ClientWrites, ClientCloses, Recv, RecvClosed,
       RecvFails, RecvData, ProcessLine, LinesDone, UdpRecv, UdpDone, Drain, vars, sinkVars
  <2>3. LineRefused(Head(dgram))
    BY <1>2, <2>2 DEF UdpLine, LineRelayed, LineInvalid
  <2>4. backlog[hashring_choose(Head(dgram))] >= Limit
    BY <2>3 DEF LineRefused
  <2>5. dgram \in Seq(Lines) /\ i \in 1..Len(dgram) /\ 1 \in 1..Len(dgram) /\ Head(dgram) = dgram[1]
    BY <1>2 DEF TypeOK
  <2>6. hashring_choose(dgram[i]) = hashring_choose(dgram[1])
    BY <1>2, <2>5 DEF OneBackend
  <2> QED
    BY <2>4, <2>5, <2>6
<1>3. TypeOK /\ OneBackend(dgram) /\ [Next]_vars => [Kept]_vars
  BY <1>2
<1>4. TypeOK /\ OneBackend(dgram) /\ [Next]_vars => OneBackend(dgram)'
  BY RestOneBackend
<1> QED
  BY <1>1, <1>3, <1>4, RelayTypeCorrect, PTL DEF Spec, BackendsIndependent

-----------------------------------------------------------------------------
(* Backend b of the relay, as a queue of lines. *)
LinesOf(b) ==
    INSTANCE LineQueue WITH Flaky <- b \in Flaky, Sizes <- {LineLen[l] : l \in Lines},
                            backlog <- backlog[b],
                            taken <- Len(relayed[b]), refused <- dropped[b]

(* What stats_relay_line does to each backend. *)
LEMMA LineToQueue ==
    ASSUME TypeOK, NEW b \in Backends, NEW src \in Sessions \cup {"udp"}, NEW l \in Lines,
           LineRelayed(src, l) \/ LineRefused(l) \/ LineInvalid(l)
    PROVE  [LinesOf(b)!Next]_<<backlog[b], Len(relayed[b]), dropped[b]>>
<1> DEFINE h == hashring_choose(l)
<1>1. h \in Backends
  BY ChoiceInRing
<1>2. /\ backlog \in [Backends -> Nat] /\ dropped \in [Backends -> Nat]
      /\ relayed \in [Backends -> Seq((Sessions \cup {"udp"}) \X Lines)]
  BY DEF TypeOK
<1>3. CASE LineRelayed(src, l)
  <2>1. /\ backlog[h] < Limit /\ dropped' = dropped
        /\ backlog' = [backlog EXCEPT ![h] = backlog[h] + LineLen[l]]
        /\ relayed' = [relayed EXCEPT ![h] = Append(relayed[h], <<src, l>>)]
    BY <1>3 DEF LineRelayed
  <2> HIDE DEF h
  <2>2. CASE h = b
    <3>1. Len(Append(relayed[b], <<src, l>>)) = Len(relayed[b]) + 1
      BY <1>2
    <3>2. /\ backlog[b] < Limit /\ backlog'[b] = backlog[b] + LineLen[l]
          /\ Len(relayed'[b]) = Len(relayed[b]) + 1 /\ dropped'[b] = dropped[b]
      BY <1>2, <2>1, <2>2, <3>1
    <3>3. LinesOf(b)!Take(LineLen[l])
      BY <3>2 DEF LinesOf!Take
    <3> QED
      BY <3>3 DEF LinesOf!Next
  <2>3. CASE h # b
    BY <1>2, <2>1, <2>3
  <2> QED
    BY <2>2, <2>3
<1>4. CASE LineRefused(l)
  <2>1. /\ backlog[h] >= Limit \/ h \in Flaky
        /\ dropped' = [dropped EXCEPT ![h] = dropped[h] + 1]
        /\ UNCHANGED <<backlog, relayed>>
    BY <1>4 DEF LineRefused
  <2> HIDE DEF h
  <2>2. CASE h = b
    <3>1. (backlog[b] >= Limit \/ b \in Flaky) /\ dropped'[b] = dropped[b] + 1
      BY <1>2, <2>1, <2>2
    <3> QED
      BY <2>1, <3>1 DEF LinesOf!Next, LinesOf!Refuse
  <2>3. CASE h # b
    BY <1>2, <2>1, <2>3
  <2> QED
    BY <2>2, <2>3
<1>5. CASE LineInvalid(l)
  BY <1>5 DEF LineInvalid
<1> QED
  BY <1>3, <1>4, <1>5

(***************************************************************************)
(* Each backend of the relay is a queue of lines, whatever interleaving of *)
(* sessions and datagrams feeds it: the same queue that BackendIsLineQueue *)
(* shows Backend to implement.                                             *)
(***************************************************************************)
THEOREM BackendsAreLineQueues ==
    ASSUME NEW b \in Backends
    PROVE  Spec => LinesOf(b)!Spec
<1>1. Init => LinesOf(b)!Init
  BY DEF Init, LinesOf!Init
<1>2. ASSUME TypeOK, [Next]_vars
      PROVE  [LinesOf(b)!Next]_<<backlog[b], Len(relayed[b]), dropped[b]>>
  <2>1. ASSUME NEW s \in Sessions, ProcessLine(s)
        PROVE  [LinesOf(b)!Next]_<<backlog[b], Len(relayed[b]), dropped[b]>>
    <3>1. \/ UNCHANGED sinkVars
          \/ \E l \in Lines : LineRelayed(s, l) \/ LineRefused(l) \/ LineInvalid(l)
      BY <2>1 DEF ProcessLine
    <3>2. CASE UNCHANGED sinkVars
      BY <3>2 DEF sinkVars
    <3> QED
      BY <1>2, <3>1, <3>2, LineToQueue
  <2>2. CASE UdpLine
    <3>1. Head(dgram) \in Lines
      BY <1>2, <2>2 DEF UdpLine, TypeOK
    <3>2. \/ LineRelayed("udp", Head(dgram))
          \/ LineRefused(Head(dgram)) \/ LineInvalid(Head(dgram))
      BY <2>2 DEF UdpLine
    <3> QED
      BY <1>2, <3>1, <3>2, LineToQueue
  <2>3. ASSUME NEW c \in Backends, NEW n \in 1..backlog[c], Drain(c, n)
        PROVE  [LinesOf(b)!Next]_<<backlog[b], Len(relayed[b]), dropped[b]>>
    <3>1. /\ UNCHANGED <<relayed, dropped>>
          /\ backlog' = [backlog EXCEPT ![c] = backlog[c] - n]
      BY <2>3 DEF Drain
    <3>2. backlog \in [Backends -> Nat]
      BY <1>2 DEF TypeOK
    <3>3. CASE c = b
      <4>1. n \in 1..backlog[b] /\ backlog'[b] = backlog[b] - n
        BY <2>3, <3>1, <3>2, <3>3
      <4>2. LinesOf(b)!Drain(n)
        BY <3>1, <4>1 DEF LinesOf!Drain
      <4> QED
        BY <4>1, <4>2 DEF LinesOf!Next
    <3>4. CASE c # b
      BY <3>1, <3>2, <3>4
    <3> QED
      BY <3>3, <3>4
  <2>4. CASE \/ \E s \in Sessions :
                  \/ Accept(s) \/ \E l \in Typed : ClientWrites(s, l)
                  \/ ClientCloses(s) \/ RecvClosed(s) \/ RecvFails(s)
                  \/ \E n \in 1..Len(flight[s]) : RecvData(s, n)
                  \/ LinesDone(s)
             \/ \E d \in Datagrams : UdpRecv(d)
             \/ UdpDone
             \/ UNCHANGED vars
    <3>1. UNCHANGED <<backlog, relayed, dropped>>
      BY <2>4 DEF Accept, ClientWrites, ClientCloses, RecvClosed, RecvFails, RecvData,
         LinesDone, UdpRecv, UdpDone, vars, sinkVars
    <3> QED
      BY <3>1
  <2> QED
    BY <1>2, <2>1, <2>2, <2>3, <2>4 DEF Next, Handle, Recv
<1> QED
  BY <1>1, <1>2, RelayTypeCorrect, PTL DEF Spec, LinesOf!Spec
================================================================================
