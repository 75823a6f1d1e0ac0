---------------------------- MODULE BackendProofs ----------------------------
(***************************************************************************)
(* Proofs about Backend, for every value of the constants.  A backend is a *)
(* TcpClient with more variables, so it inherits the client's inductive    *)
(* invariant; BInv adds what the counters and the histories record.        *)
(***************************************************************************)
EXTENDS Backend, TcpClientProofs

BInv ==
    /\ BackendTypeOK
    /\ NothingLost
    /\ CountersAddUp
    /\ FailingReported

(* Every step of a backend is a step of its client. *)
LEMMA BackendStepIsClientStep ==
    ASSUME [BackendNext]_backendVars
    PROVE  [Next]_vars
<1>1. ASSUME NEW l \in Lines, RelayLine(l)
      PROVE  Traffic
  BY <1>1 DEF RelayLine, LineAccepted, LineDropped, Traffic
<1>2. CASE WriteEvent
  <2>1. tcpclient_write_event
    BY <1>2 DEF WriteEvent, BytesSent, tcpclient_write_event
  <2> QED
    BY <2>1 DEF Next
<1>3. CASE ClientEvent
  BY <1>3 DEF ClientEvent, Next
<1>4. CASE kill_backend
  BY <1>4 DEF kill_backend, Next
<1>5. CASE UNCHANGED backendVars
  BY <1>5 DEF backendVars
<1> QED
  BY <1>1, <1>2, <1>3, <1>4, <1>5 DEF BackendNext, Next

(***************************************************************************)
(* A backend implements its client: everything proved of TcpClient holds   *)
(* of it.                                                                  *)
(***************************************************************************)
THEOREM BackendRefinesClient == BackendSpec => Spec
<1>1. BackendInit => Init
  BY DEF BackendInit
<1> QED
  BY <1>1, BackendStepIsClientStep, PTL DEF BackendSpec, Spec

-----------------------------------------------------------------------------
(* Three sequences may be joined in either order. *)
Joins(x, y, z) == (x \o y) \o z = x \o (y \o z)

LEMMA Associative ==
    ASSUME NEW S, NEW x \in Seq(S), NEW y \in Seq(S), NEW z \in Seq(S)
    PROVE  Joins(x, y, z)
BY ConcatAssociative DEF Joins

(* The first n bytes of a queue s, moved behind t, and the rest of s. *)
LEMMA SplitQueue ==
    ASSUME NEW S, NEW s \in Seq(S), NEW n \in 1..Len(s), NEW t \in Seq(S)
    PROVE  /\ SubSeq(s, 1, n) \in Seq(S)
           /\ Len(SubSeq(s, 1, n)) = n
           /\ (t \o SubSeq(s, 1, n)) \o Drop(s, n) = t \o s
<1>1. Len(s) \in Nat /\ \A i \in 1..Len(s) : s[i] \in S
  BY LenProperties, ElementOfSeq
<1>2. SubSeq(s, 1, n) \in Seq(S) /\ Len(SubSeq(s, 1, n)) = n
  BY <1>1, SubSeqProperties
<1>3. SubSeq(s, 1, n) \o SubSeq(s, n + 1, Len(s)) = SubSeq(s, 1, Len(s))
  BY <1>1, ConcatAdjacentSubSeq
<1>4. SubSeq(s, 1, Len(s)) = s
  BY SubSeqFull
<1>5. Drop(s, n) \in Seq(S)
  BY DropType
<1> DEFINE f == SubSeq(s, 1, n)
           r == Drop(s, n)
<1>6. f \o r = s
  BY <1>3, <1>4 DEF Drop
<1>7. f \in Seq(S) /\ r \in Seq(S)
  BY <1>2, <1>5
<1> HIDE DEF f, r
<1>8. Joins(t, f, r)
  BY <1>7, Associative
<1>9. (t \o f) \o r = t \o s
  BY <1>6, <1>8 DEF Joins
<1> QED
  BY <1>2, <1>9 DEF f, r

LEMMA AcceptPreserves ==
    ASSUME IInv, BInv, NEW l \in Lines, LineAccepted(l)
    PROVE  BInv'
<1>1. /\ phase = "live" /\ phase' = phase
      /\ ~QueueFull
      /\ send_queue' = send_queue \o Bytes(l)
      /\ failing' = failing
  BY DEF LineAccepted, tcpclient_sendall, Enqueue
<1>2. /\ bytes_queued' = bytes_queued + LineLen[l]
      /\ accepted' = accepted \o Bytes(l)
      /\ relayed_lines' = relayed_lines + 1
      /\ backend_failing' = FALSE
      /\ UNCHANGED <<bytes_sent, dropped_lines, taken>>
  BY DEF LineAccepted
<1>3. /\ send_queue \in Seq(Byte) /\ Bytes(l) \in Seq(Byte)
      /\ accepted \in Seq(Byte) /\ taken \in Seq(Byte)
      /\ LineLen[l] \in Nat /\ Len(Bytes(l)) = LineLen[l]
      /\ bytes_queued \in Nat /\ bytes_sent \in Nat
  <2>1. LineLen[l] \in Nat
    BY LineAssumption
  <2>2. Bytes(l) \in Seq(Byte) /\ Len(Bytes(l)) = LineLen[l]
    BY BytesType
  <2> QED
    BY <2>1, <2>2 DEF IInv, QueueInv, BInv, BackendTypeOK
<1>4. ~failing
  BY <1>1 DEF IInv, QueueInv, QueueLimit
<1>5. accepted' = taken' \o send_queue'
  <2>1. accepted = taken \o send_queue
    BY <1>1 DEF BInv, NothingLost
  <2>2. (taken \o send_queue) \o Bytes(l) = taken \o (send_queue \o Bytes(l))
    <3>1. ASSUME NEW t \in Seq(Byte), NEW s \in Seq(Byte), NEW u \in Seq(Byte)
          PROVE  (t \o s) \o u = t \o (s \o u)
      BY ConcatAssociative, SMTT(30)
    <3>2. taken \in Seq(Byte) /\ send_queue \in Seq(Byte) /\ Bytes(l) \in Seq(Byte)
      BY <1>3
    <3> QED
      BY <3>1, <3>2
  <2>3. taken' = taken /\ accepted' = accepted \o Bytes(l)
    BY <1>2
  <2>4. send_queue' = send_queue \o Bytes(l)
    BY <1>1
  <2> QED
    BY <2>1, <2>2, <2>3, <2>4
<1>6. CountersAddUp'
  <2>1. Len(send_queue') = Len(send_queue) + LineLen[l] /\ Len(send_queue) \in Nat
    <3>1. Len(send_queue \o Bytes(l)) = Len(send_queue) + Len(Bytes(l))
      BY <1>3, ConcatProperties
    <3>2. Len(send_queue) \in Nat
      BY <1>3, LenProperties
    <3> QED
      BY <1>1, <1>3, <3>1, <3>2
  <2> QED
    <3>1. bytes_sent = Len(taken) /\ bytes_queued = bytes_sent + Len(send_queue)
      BY <1>1 DEF BInv, CountersAddUp
    <3>2. bytes_queued' = bytes_sent' + Len(send_queue')
      <4>1. /\ bytes_queued' = bytes_queued + LineLen[l] /\ bytes_sent' = bytes_sent
            /\ LineLen[l] \in Nat /\ bytes_queued \in Nat /\ bytes_sent \in Nat
        BY <1>2, <1>3
      <4>2. ASSUME NEW q \in Nat, NEW n \in Nat, NEW s \in Nat
            PROVE  (s + q) + n = s + (q + n)
        OBVIOUS
      <4>3. Len(send_queue) \in Nat /\ Len(send_queue') = Len(send_queue) + LineLen[l]
        BY <2>1
      <4>4. (bytes_sent + Len(send_queue)) + LineLen[l]
               = bytes_sent + (Len(send_queue) + LineLen[l])
        BY <4>1, <4>2, <4>3, Zenon
      <4> QED
        BY <4>1, <4>3, <4>4, <3>1, Zenon
    <3>3. bytes_sent' = Len(taken')
      BY <1>2, <3>1
    <3> QED
      BY <3>2, <3>3 DEF CountersAddUp
<1>7. accepted' \in Seq(Byte)
  BY <1>2, <1>3, ConcatProperties
<1>8. backend_failing' \in BOOLEAN
  BY <1>2, Zenon
<1>9. BackendTypeOK'
  BY <1>2, <1>3, <1>7, <1>8 DEF BInv, BackendTypeOK
<1> QED
  BY <1>1, <1>4, <1>5, <1>6, <1>9 DEF BInv, NothingLost, FailingReported

LEMMA DropPreserves ==
    ASSUME IInv, BInv, NEW l \in Lines, LineDropped(l)
    PROVE  BInv'
<1>1. UNCHANGED <<phase, send_queue>>
  BY DEF LineDropped, tcpclient_sendall
<1>2. /\ dropped_lines' = dropped_lines + 1
      /\ backend_failing' = TRUE
      /\ UNCHANGED <<bytes_queued, bytes_sent, relayed_lines, accepted, taken>>
  BY DEF LineDropped
<1>3. backend_failing' \in BOOLEAN
  BY <1>2, Zenon
<1> QED
  BY <1>1, <1>2, <1>3 DEF BInv, BackendTypeOK, NothingLost, CountersAddUp,
     FailingReported

LEMMA WritePreserves ==
    ASSUME IInv, BInv, WriteEvent
    PROVE  BInv'
<1>1. /\ phase = "live" /\ phase' = phase
      /\ UNCHANGED <<bytes_queued, relayed_lines, dropped_lines, backend_failing, accepted>>
  BY DEF WriteEvent, Fires
<1>2. /\ send_queue \in Seq(Byte) /\ Len(send_queue) \in Nat
      /\ accepted \in Seq(Byte) /\ taken \in Seq(Byte)
      /\ bytes_sent \in Nat /\ bytes_queued \in Nat
      /\ phase = "live" /\ phase' = phase
      /\ accepted = taken \o send_queue
      /\ bytes_sent = Len(taken)
      /\ bytes_queued = bytes_sent + Len(send_queue)
  BY <1>1, LenProperties DEF IInv, QueueInv, BInv, BackendTypeOK, NothingLost,
     CountersAddUp
<1>3. CASE UNCHANGED <<send_queue, failing, bytes_sent, taken>>
  BY <1>1, <1>2, <1>3 DEF BInv, BackendTypeOK, NothingLost, CountersAddUp,
     FailingReported
<1>4. ASSUME NEW n \in 1..Len(send_queue), BytesSent(n)
      PROVE  BInv'
  <2>1. send_queue' = Drop(send_queue, n) /\ (failing' => failing)
    BY <1>4 DEF BytesSent, SendOk
  <2>2. Len(send_queue') = Len(send_queue) - n /\ send_queue' \in Seq(Byte)
    BY <1>2, <2>1, DropType
  <2>4. /\ SubSeq(send_queue, 1, n) \in Seq(Byte)
        /\ Len(SubSeq(send_queue, 1, n)) = n
        /\ (taken \o SubSeq(send_queue, 1, n)) \o Drop(send_queue, n)
             = taken \o send_queue
    BY <1>2, SplitQueue
  <2>5. /\ taken' = taken \o SubSeq(send_queue, 1, n)
        /\ bytes_sent' = bytes_sent + n
    BY <1>4 DEF BytesSent, stats_sent
  <2>6. taken' \in Seq(Byte) /\ Len(taken') = Len(taken) + n
    <3>1. /\ taken \o SubSeq(send_queue, 1, n) \in Seq(Byte)
          /\ Len(taken \o SubSeq(send_queue, 1, n))
               = Len(taken) + Len(SubSeq(send_queue, 1, n))
      BY <1>2, <2>4, ConcatProperties
    <3> QED
      BY <2>4, <2>5, <3>1
  <2>7. accepted' = taken' \o send_queue'
    <3>1. accepted' = accepted /\ accepted = taken \o send_queue
      BY <1>1, <1>2
    <3> QED
      BY <2>1, <2>4, <2>5, <3>1
  <2>8. CountersAddUp'
    BY <1>1, <1>2, <2>2, <2>5, <2>6 DEF CountersAddUp
  <2>9. BackendTypeOK'
    BY <1>1, <1>2, <2>5, <2>6 DEF BInv, BackendTypeOK
  <2> QED
    BY <1>1, <2>1, <2>7, <2>8, <2>9 DEF BInv, NothingLost, FailingReported
<1> QED
  BY <1>3, <1>4 DEF WriteEvent, SendError, NothingToSend

LEMMA OtherPreserves ==
    ASSUME BInv, ClientEvent \/ kill_backend \/ UNCHANGED backendVars
    PROVE  BInv'
<1>1. /\ UNCHANGED counters /\ UNCHANGED failing
      /\ \/ phase' = "freed"
         \/ UNCHANGED send_queue /\ (phase = "freed" => phase' = "freed")
  BY DEF ClientEvent, kill_backend, backendVars, MakeBackend, tcpclient_connect_timeout,
     tcpclient_connected, tcpclient_read_event, Tick, Heal, Finished,
     tcpclient_destroy, vars
<1> QED
  BY <1>1 DEF counters, BInv, BackendTypeOK, NothingLost, CountersAddUp, FailingReported

(***************************************************************************)
(* The counters and histories are consistent in every reachable state.     *)
(***************************************************************************)
THEOREM BackendInductive == BackendSpec => []BInv
<1>1. BackendInit => BInv
  <2> SUFFICES ASSUME BackendInit
               PROVE  BInv
    OBVIOUS
  <2>1. /\ accepted = <<>> /\ taken = <<>> /\ send_queue = <<>> /\ ~failing
        /\ bytes_queued = 0 /\ bytes_sent = 0 /\ relayed_lines = 0
        /\ dropped_lines = 0
    BY DEF BackendInit, Init
  <2>2. <<>> \in Seq(Byte) /\ Len(<<>>) = 0 /\ <<>> \o <<>> = <<>>
    BY EmptySeq, ConcatEmptySeq
  <2>3. backend_failing \in BOOLEAN
    BY Zenon DEF BackendInit
  <2> QED
    BY <2>1, <2>2, <2>3 DEF BInv, BackendTypeOK, NothingLost, CountersAddUp,
       FailingReported
<1>2. IInv /\ BInv /\ [BackendNext]_backendVars => BInv'
  BY AcceptPreserves, DropPreserves, WritePreserves, OtherPreserves
     DEF BackendNext, RelayLine
<1> QED
  BY <1>1, <1>2, BackendRefinesClient, Inductive, PTL DEF BackendSpec

(***************************************************************************)
(* For every backend: what the kernel took, followed by the queue, is      *)
(* exactly what was accepted.                                              *)
(***************************************************************************)
THEOREM NeverLost == BackendSpec => []NothingLost
<1>1. BInv => NothingLost
  BY DEF BInv
<1> QED
  BY <1>1, BackendInductive, PTL

(***************************************************************************)
(* For every backend: bytes_queued = bytes_sent + the length of the queue. *)
(***************************************************************************)
THEOREM CountersCorrect == BackendSpec => []CountersAddUp
<1>1. BInv => CountersAddUp
  BY DEF BInv
<1> QED
  BY <1>1, BackendInductive, PTL

(***************************************************************************)
(* A client that refuses lines because its queue is full is reported as a  *)
(* failing backend.                                                        *)
(***************************************************************************)
THEOREM FailureReported == BackendSpec => []FailingReported
<1>1. BInv => FailingReported
  BY DEF BInv
<1> QED
  BY <1>1, BackendInductive, PTL

-----------------------------------------------------------------------------
(* A backend may refuse a line below its limit for one of two reasons. *)
MayRefuse == "nomem" \in Faults \/ MayLoseAddress

(* The backend as the relay sees it. *)
AsLineQueue ==
    INSTANCE LineQueue WITH Limit <- MaxSendQueue, Flaky <- MayRefuse,
                            Sizes <- {LineLen[l] : l \in Lines},
                            backlog <- Len(send_queue),
                            taken <- relayed_lines, refused <- dropped_lines

(***************************************************************************)
(* A backend is for stats_relay_line the queue that Relay takes it to be,  *)
(* for lines of all lengths and every max_send_queue: through partial      *)
(* sends, failed connections and retries it takes a line, and all of it,   *)
(* exactly while it holds fewer bytes than max_send_queue (or refuses it   *)
(* for want of memory or of an address).                                   *)
(***************************************************************************)
THEOREM BackendIsLineQueue == BackendSpec => AsLineQueue!Spec
<1>1. BackendInit => AsLineQueue!Init
  BY EmptySeq DEF BackendInit, Init, AsLineQueue!Init
<1>2. ASSUME IInv, Unresolved => MayLoseAddress, [BackendNext]_backendVars
      PROVE  [AsLineQueue!Next]_<<Len(send_queue), relayed_lines, dropped_lines>>
  <2> DEFINE x == Len(send_queue)
  <2>1. send_queue \in Seq(Byte) /\ x \in Nat /\ MaxSendQueue \in Nat
    BY <1>2, ConfigAssumption DEF IInv, QueueInv
  <2>3. ASSUME NEW l \in Lines, LineAccepted(l)
        PROVE  AsLineQueue!Take(LineLen[l])
    <3>1. /\ ~QueueFull /\ send_queue' = send_queue \o Bytes(l)
          /\ relayed_lines' = relayed_lines + 1 /\ dropped_lines' = dropped_lines
      BY <2>3 DEF LineAccepted, tcpclient_sendall, Enqueue
    <3>2. Bytes(l) \in Seq(Byte) /\ Len(Bytes(l)) = LineLen[l]
      BY BytesType
    <3>3. Len(send_queue') = x + LineLen[l]
      BY <2>1, <3>1, <3>2, ConcatProperties
    <3>4. x < MaxSendQueue
      BY <2>1, <3>1 DEF QueueFull
    <3> QED
      BY <3>1, <3>3, <3>4 DEF AsLineQueue!Take
  <2>4. ASSUME NEW l \in Lines, LineDropped(l)
        PROVE  AsLineQueue!Refuse
    <3>1. PICK rc \in 1..4 : tcpclient_sendall(l, rc)
      BY <2>4 DEF LineDropped
    <3>2. /\ UNCHANGED <<send_queue, relayed_lines>>
          /\ dropped_lines' = dropped_lines + 1
      BY <2>4, <3>1 DEF LineDropped, tcpclient_sendall
    <3>3. QueueFull \/ MayRefuse
      BY <1>2, <3>1 DEF tcpclient_sendall, Unresolved, MayFail, MayRefuse
    <3> QED
      BY <3>2, <3>3 DEF AsLineQueue!Refuse, QueueFull
  <2>5. ASSUME Len(send_queue') \in 0..x, UNCHANGED <<relayed_lines, dropped_lines>>
        PROVE  [AsLineQueue!Next]_<<Len(send_queue), relayed_lines, dropped_lines>>
    <3> DEFINE m == Len(send_queue')
    <3>1. CASE m = x
      BY <2>5, <3>1
    <3>2. CASE m # x
      <4>1. x - m \in 1..x /\ m = x - (x - m)
        <5> HIDE DEF x, m
        <5> QED
          BY <2>1, <2>5, <3>2 DEF m
      <4>2. AsLineQueue!Drain(x - m)
        BY <2>5, <4>1 DEF AsLineQueue!Drain
      <4> QED
        BY <4>1, <4>2 DEF AsLineQueue!Next
    <3> QED
      BY <3>1, <3>2
  <2>6. CASE WriteEvent
    <3>1. UNCHANGED <<relayed_lines, dropped_lines>>
      BY <2>6 DEF WriteEvent
    <3>2. \/ UNCHANGED send_queue
          \/ \E n \in 1..x : send_queue' = Drop(send_queue, n)
      BY <2>6 DEF WriteEvent, SendError, BytesSent, SendOk, NothingToSend
    <3>3. ASSUME NEW n \in 1..x, send_queue' = Drop(send_queue, n)
          PROVE  Len(send_queue') \in 0..x
      <4>1. Len(Drop(send_queue, n)) = x - n
        BY <2>1, DropType
      <4> QED
        BY <2>1, <3>3, <4>1
    <3>4. Len(send_queue') \in 0..x
      BY <2>1, <3>2, <3>3
    <3> QED
      BY <2>5, <3>1, <3>4
  <2>7. CASE ClientEvent \/ kill_backend \/ UNCHANGED backendVars
    <3>1. /\ UNCHANGED <<relayed_lines, dropped_lines>>
          /\ UNCHANGED send_queue \/ send_queue' = <<>>
      BY <2>7 DEF ClientEvent, kill_backend, backendVars, counters, MakeBackend,
         tcpclient_connect_timeout, tcpclient_connected, tcpclient_read_event, Tick, Heal,
         Finished, tcpclient_destroy, vars
    <3>2. Len(send_queue') \in 0..x
      BY <2>1, <3>1, EmptySeq
    <3> QED
      BY <2>5, <3>1, <3>2
  <2> QED
    BY <1>2, <2>3, <2>4, <2>6, <2>7 DEF BackendNext, RelayLine, AsLineQueue!Next
<1> QED
  BY <1>1, <1>2, BackendRefinesClient, Inductive, AddressKept, PTL
  DEF BackendSpec, AsLineQueue!Spec
=============================================================================
