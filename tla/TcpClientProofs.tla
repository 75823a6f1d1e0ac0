--------------------------- MODULE TcpClientProofs ---------------------------
(***************************************************************************)
(* Proofs about TcpClient, for every set of lines, every queue limit,      *)
(* retry timeout, datagram size and set of possible failures.              *)
(*                                                                         *)
(* None of the safety invariants is inductive alone: that a handler finds  *)
(* the state it was written for needs the watchers to match the state,     *)
(* that needs the started flags to cover the watchers (two handlers stop   *)
(* only what is flagged), and so on.  IInv is their conjunction.           *)
(***************************************************************************)
EXTENDS TcpClient, SequenceTheorems, TLAPS

(* The conjuncts that do not look at the queue. *)
ConnType ==
    /\ state \in States
    /\ sd \in {"none", "open", "closed"}
    /\ addr \in BOOLEAN
    /\ active \subseteq Watchers
    /\ started \subseteq IoWatchers
    /\ elapsed \in 0..ClockBound

ConnInv ==
    /\ ConnType
    /\ SocketMatchesState
    /\ WatchersMatchState
    /\ NoWatcherOfFreedClient

(* The conjuncts about the queue and the lifecycle. *)
QueueInv ==
    /\ send_queue \in Seq(Byte)
    /\ failing \in BOOLEAN
    /\ phase \in Phases
    /\ net \in {"faulty", "healthy"}
    /\ NoLostWakeup
    /\ QueueLimit

IInv == ConnInv /\ QueueInv

-----------------------------------------------------------------------------
(* The bytes of a line are bytes, and there are LineLen of them. *)
LEMMA BytesType ==
    ASSUME NEW l \in Lines
    PROVE  /\ Bytes(l) \in Seq(Byte)
           /\ Len(Bytes(l)) \in 1..MaxLine /\ Len(Bytes(l)) = LineLen[l]
<1>1. LineLen[l] \in 1..MaxLine /\ MaxLine \in Nat
  BY LineAssumption
<1>2. \A k \in 1..LineLen[l] : <<l, k>> \in Byte
  BY <1>1 DEF Byte
<1>3. Bytes(l) \in Seq(Byte)
  BY <1>1, <1>2 DEF Bytes
<1>4. Len(Bytes(l)) = LineLen[l]
  BY <1>1, <1>3 DEF Bytes
<1> QED
  BY <1>1, <1>3, <1>4

(* Dropping the first n bytes leaves a byte sequence n shorter. *)
LEMMA DropType ==
    ASSUME NEW S, NEW s \in Seq(S), NEW n \in 1..Len(s)
    PROVE  /\ Drop(s, n) \in Seq(S)
           /\ Len(Drop(s, n)) = Len(s) - n
<1>1. Len(s) \in Nat
  BY LenProperties
<1>2. \A i \in (n + 1)..Len(s) : s[i] \in S
  BY <1>1, ElementOfSeq
<1> QED
  BY <1>1, <1>2, SubSeqProperties DEF Drop

-----------------------------------------------------------------------------
(* Where tcpclient_connect starts a new attempt nothing is active. *)
LEMMA IdleHasNoWatcher ==
    ASSUME IInv, state \in {"INIT", "BACKOFF"}
    PROVE  active = {} /\ (phase # "freed" => sd # "open")
<1>1. active \subseteq Watchers /\ WatchersMatchState /\ SocketMatchesState
  BY DEF IInv, ConnInv, ConnType
<1>2. "connect" \notin active /\ "timeout" \notin active
  BY <1>1 DEF WatchersMatchState
<1>3. "read" \notin active /\ "write" \notin active
  BY <1>1 DEF WatchersMatchState
<1>4. phase # "freed" => sd # "open"
  BY <1>1 DEF SocketMatchesState
<1> QED
  BY <1>1, <1>2, <1>3, <1>4 DEF Watchers, IoWatchers

(* What a call of tcpclient_connect can do to the connection. *)
LEMMA ConnectOutcomes ==
    ASSUME IInv, NEW rc \in 0..6, tcpclient_connect(rc)
    PROVE  \/ /\ rc # 0
              /\ UNCHANGED connVars
           \/ /\ rc # 0
              /\ state' = "BACKOFF" /\ elapsed' = 0 /\ active' = {}
              /\ sd' = sd \/ sd' = "closed"
              /\ phase # "freed" => sd' # "open"
              /\ addr' \in BOOLEAN
              /\ started' = started \/ started' = started \cup {"connect"}
           \/ /\ rc = 0
              /\ state' = "CONNECTING" /\ elapsed' = elapsed /\ addr' = TRUE
              /\ sd' = "open"
              /\ active' = {"connect", "timeout"}
              /\ started' = started \cup {"connect"}
<1>1. CASE ConnectNotNow(rc)
  BY <1>1 DEF ConnectNotNow
<1>2. CASE state \in {"INIT", "BACKOFF"} /\ ConnectFails(rc)
  <2>1. active = {} /\ (phase # "freed" => sd # "open")
    BY <1>2, IdleHasNoWatcher
  <2> QED
    <3>1. state' = "BACKOFF" /\ elapsed' = 0
      BY <1>2 DEF ConnectFails, EnterBackoff
    <3>2. rc # 0
      BY <1>2 DEF ConnectFails
    <3>3. addr' \in BOOLEAN
      BY <1>2, Zenon DEF ConnectFails
    <3>4. active' = {}
      BY <1>2, <2>1 DEF ConnectFails, StopWatchers
    <3>5. /\ sd' = sd \/ sd' = "closed"
          /\ started' = started \/ started' = started \cup {"connect"}
      BY <1>2 DEF ConnectFails
    <3> QED
      BY <2>1, <3>1, <3>2, <3>3, <3>4, <3>5
<1>3. CASE state \in {"INIT", "BACKOFF"} /\ rc = 0 /\ ConnectStarts
  <2>1. active = {}
    BY <1>3, IdleHasNoWatcher
  <2> QED
    BY <1>3, <2>1 DEF ConnectStarts
<1> QED
  BY <1>1, <1>2, <1>3 DEF tcpclient_connect

(* A call of tcpclient_connect keeps the connection's invariant when the   *)
(* client is, and stays, in use, or is discarded because the call failed.  *)
LEMMA ConnectPreserves ==
    ASSUME IInv, NEW rc \in 0..6, tcpclient_connect(rc),
           \/ phase = "live" /\ phase' = "live"
           \/ phase = "made" /\ rc = 0 /\ phase' = "live"
           \/ phase = "made" /\ rc # 0 /\ phase' = "failed"
    PROVE  ConnInv'
<1>0. ConnInv
  BY DEF IInv
<1> USE ConfigAssumption, <1>0 DEF ConnInv, ConnType, SocketMatchesState,
        WatchersMatchState, NoWatcherOfFreedClient, connVars, States, Watchers,
        IoWatchers, ClockBound
<1>1. CASE rc # 0 /\ UNCHANGED connVars
  BY <1>1
<1>2. CASE /\ rc # 0
           /\ state' = "BACKOFF" /\ elapsed' = 0 /\ active' = {}
           /\ sd' = sd \/ sd' = "closed"
           /\ phase # "freed" => sd' # "open"
           /\ addr' \in BOOLEAN
           /\ started' = started \/ started' = started \cup {"connect"}
  <2>1. sd' \in {"none", "closed"}
    BY <1>2
  <2>2. started' \subseteq IoWatchers
    BY <1>2
  <2> QED
    BY <1>2, <2>1, <2>2
<1>3. CASE /\ rc = 0
           /\ state' = "CONNECTING" /\ elapsed' = elapsed /\ addr' = TRUE
           /\ sd' = "open"
           /\ active' = {"connect", "timeout"}
           /\ started' = started \cup {"connect"}
  BY <1>3
<1> QED
  BY <1>1, <1>2, <1>3, ConnectOutcomes

(* A line is queued, refused or dropped; the client reconnects first. *)
LEMMA SendallPreserves ==
    ASSUME IInv, NEW l \in Lines, NEW rc \in 0..4, tcpclient_sendall(l, rc)
    PROVE  IInv'
<1>0. /\ ConnInv /\ QueueInv
      /\ phase = "live" /\ phase' = phase /\ net' = net
  BY DEF IInv, tcpclient_sendall
<1>1. ASSUME Reconnect
      PROVE  /\ ConnInv'
             /\ state' = "CONNECTED" => UNCHANGED connVars
  <2>1. PICK c \in 0..6 : tcpclient_connect(c)
    BY <1>1 DEF Reconnect
  <2>2. ConnInv'
    BY <2>1, <1>0, ConnectPreserves
  <2> QED
    BY <2>1, <2>2, ConnectOutcomes
<1>2. CASE UNCHANGED <<connVars, send_queue, failing>>
  BY <1>0, <1>2 DEF IInv, ConnInv, ConnType, QueueInv, connVars,
     SocketMatchesState, WatchersMatchState, NoWatcherOfFreedClient, NoLostWakeup,
     QueueLimit, QueueFull
<1>3. CASE /\ Reconnect
           /\ UNCHANGED send_queue
           /\ failing' = failing \/ (failing' = TRUE /\ QueueFull)
  <2>1. QueueInv'
    <3>0. failing' \in BOOLEAN
      BY <1>0, <1>3, Zenon DEF QueueInv
    <3>1. QueueLimit'
      BY <1>0, <1>3 DEF QueueInv, QueueLimit, QueueFull
    <3>2. NoLostWakeup'
      BY <1>0, <1>1, <1>3 DEF QueueInv, NoLostWakeup, connVars
    <3> QED
      BY <1>0, <1>3, <3>0, <3>1, <3>2 DEF QueueInv
  <2> QED
    BY <2>1, <1>1, <1>3 DEF IInv
<1>4. CASE ~QueueFull /\ Enqueue(l)
  <2>1. /\ send_queue \in Seq(Byte) /\ Bytes(l) \in Seq(Byte)
        /\ Len(Bytes(l)) \in 1..MaxLine
        /\ Len(send_queue) \in Nat /\ Len(send_queue) < MaxSendQueue
        /\ MaxLine \in Nat /\ MaxSendQueue \in Nat
    BY <1>0, <1>4, BytesType, LineAssumption, ConfigAssumption
       DEF QueueInv, QueueFull
  <2>2. /\ send_queue' \in Seq(Byte)
        /\ Len(send_queue') = Len(send_queue) + Len(Bytes(l))
        /\ failing' = failing
    BY <2>1, <1>4, ConcatProperties DEF Enqueue
  <2>3. ~failing
    BY <1>0, <1>4 DEF QueueInv, QueueLimit
  <2>4. QueueLimit'
    BY <2>1, <2>2, <2>3 DEF QueueLimit
  <2>5. ConnInv' /\ NoLostWakeup'
    <3>1. CASE state = "CONNECTED"
      <4>1. /\ active' = active \cup {"write"}
            /\ started' = started \cup {"write"}
            /\ UNCHANGED <<state, sd, addr, elapsed>>
        BY <1>4, <3>1 DEF Enqueue
      <4> QED
        BY <4>1, <3>1, <1>0 DEF ConnInv, ConnType, SocketMatchesState,
           WatchersMatchState, NoWatcherOfFreedClient, NoLostWakeup, Watchers,
           IoWatchers
    <3>2. CASE state # "CONNECTED"
      <4>1. Reconnect
        BY <1>4, <3>2 DEF Enqueue
      <4> QED
        BY <4>1, <1>1, <3>2 DEF NoLostWakeup, connVars
    <3> QED
      BY <3>1, <3>2
  <2> QED
    BY <2>2, <2>4, <2>5, <1>0 DEF IInv, QueueInv
<1> QED
  BY <1>2, <1>3, <1>4 DEF tcpclient_sendall

(* The handlers of the connect watcher, its timer and the read watcher     *)
(* leave the queue alone and find the state they were written for.         *)
LEMMA ConnHandlersPreserve ==
    ASSUME IInv,
           \/ tcpclient_connect_timeout
           \/ tcpclient_connected
           \/ tcpclient_read_event
    PROVE  IInv'
<1>0. /\ ConnInv /\ QueueInv
      /\ phase = "live"
      /\ UNCHANGED <<addr, send_queue, failing, phase, net>>
  BY DEF IInv, tcpclient_connect_timeout, tcpclient_connected,
     tcpclient_read_event, Fires
<1>1. CASE tcpclient_connect_timeout
  <2>1. state = "CONNECTING" /\ "connect" \in active /\ "connect" \in started
    BY <1>0, <1>1 DEF tcpclient_connect_timeout, Fires, ConnInv, WatchersMatchState,
       NoWatcherOfFreedClient
  <2>2. active = {"connect", "timeout"}
    BY <1>0, <2>1 DEF ConnInv, ConnType, WatchersMatchState, Watchers, IoWatchers
  <2>3. /\ active' = {} /\ sd' = "closed" /\ state' = "BACKOFF" /\ elapsed' = 0
        /\ started' = started \ {"connect"}
    BY <1>1, <2>1, <2>2 DEF tcpclient_connect_timeout, StopWatchers, EnterBackoff
  <2>4. ConnInv'
    BY <1>0, <2>3, ConfigAssumption DEF ConnInv, ConnType, SocketMatchesState,
       WatchersMatchState, NoWatcherOfFreedClient, States, ClockBound
  <2>5. QueueInv'
    BY <1>0, <2>3 DEF QueueInv, NoLostWakeup, QueueLimit, QueueFull
  <2> QED
    BY <2>4, <2>5 DEF IInv
<1>2. CASE tcpclient_connected
  <2>1. state = "CONNECTING" /\ sd = "open"
    BY <1>0, <1>2 DEF tcpclient_connected, Fires, ConnInv, WatchersMatchState,
       SocketMatchesState
  <2>2. active = {"connect", "timeout"}
    BY <1>0, <1>2, <2>1 DEF tcpclient_connected, Fires, ConnInv, ConnType,
       WatchersMatchState, Watchers, IoWatchers
  <2>3. \/ /\ active' = {} /\ UNCHANGED <<state, sd, started, elapsed>>
        \/ /\ active' = {} /\ sd' = "closed" /\ UNCHANGED started
           /\ state' = "BACKOFF" /\ elapsed' = 0
        \/ /\ active' = {"read", "write"} /\ state' = "CONNECTED"
           /\ started' = started \cup {"read", "write"}
           /\ UNCHANGED <<sd, elapsed>>
    BY <1>2, <2>2 DEF tcpclient_connected, StopWatchers, EnterBackoff
  <2>4. ConnInv'
    <3>0. addr' \in BOOLEAN
      BY <1>0 DEF ConnInv, ConnType
    <3>1. /\ state' \in States /\ sd' \in {"none", "open", "closed"}
          /\ elapsed' \in 0..ClockBound
      BY <1>0, <2>1, <2>3, ConfigAssumption DEF ConnInv, ConnType, States, ClockBound
    <3>3. /\ active' \subseteq Watchers /\ started' \subseteq IoWatchers
          /\ active' \ {"timeout"} \subseteq started'
      BY <1>0, <2>3 DEF ConnInv, ConnType, Watchers, IoWatchers
    <3>2. SocketMatchesState' /\ WatchersMatchState'
      BY <1>0, <2>1, <2>3 DEF SocketMatchesState, WatchersMatchState
    <3> QED
      BY <1>0, <3>0, <3>1, <3>2, <3>3 DEF ConnInv, ConnType, NoWatcherOfFreedClient
  <2>5. QueueInv'
    BY <1>0, <2>1, <2>3 DEF QueueInv, NoLostWakeup, QueueLimit, QueueFull
  <2> QED
    BY <2>4, <2>5 DEF IInv
<1>3. CASE tcpclient_read_event
  <2>1. state = "CONNECTED" /\ "read" \in started
    BY <1>0, <1>3 DEF tcpclient_read_event, Fires, ConnInv, WatchersMatchState,
       NoWatcherOfFreedClient
  <2>2. active \subseteq {"read", "write"} /\ active \subseteq started
    BY <1>0, <2>1 DEF ConnInv, ConnType, WatchersMatchState, NoWatcherOfFreedClient,
       Watchers, IoWatchers
  <2>3. \/ UNCHANGED connVars
        \/ /\ active' = {} /\ sd' = "closed" /\ state' \in {"INIT", "BACKOFF"}
           /\ elapsed' = 0 /\ started' \subseteq started
    BY <1>3, <2>2 DEF tcpclient_read_event, StopWatchers, EnterBackoff
  <2>4. ConnInv'
    BY <1>0, <2>3, ConfigAssumption DEF ConnInv, ConnType, SocketMatchesState,
       WatchersMatchState, NoWatcherOfFreedClient, States, ClockBound, connVars
  <2>5. QueueInv'
    BY <1>0, <2>3 DEF QueueInv, NoLostWakeup, QueueLimit, QueueFull, connVars
  <2> QED
    BY <2>4, <2>5 DEF IInv
<1> QED
  BY <1>1, <1>2, <1>3

(* The write handler sends part of the queue, fails, or finds it empty. *)
LEMMA WriteEventPreserves ==
    ASSUME IInv, tcpclient_write_event
    PROVE  IInv'
<1>0. /\ ConnInv /\ QueueInv
      /\ phase = "live" /\ state = "CONNECTED" /\ sd = "open"
      /\ UNCHANGED <<addr, phase, net>>
  BY DEF IInv, tcpclient_write_event, Fires, ConnInv, WatchersMatchState,
     SocketMatchesState
<1>1. "read" \in active /\ active \subseteq {"read", "write"}
  BY <1>0 DEF tcpclient_write_event, Fires, ConnInv, ConnType, WatchersMatchState,
     Watchers, IoWatchers
<1>2. CASE SendError
  <2>1. /\ active' = {} /\ sd' = "closed" /\ state' = "BACKOFF" /\ elapsed' = 0
        /\ UNCHANGED <<started, send_queue, failing>>
    BY <1>1, <1>2 DEF SendError, StopWatchers, EnterBackoff
  <2>2. ConnInv'
    BY <1>0, <2>1, ConfigAssumption DEF ConnInv, ConnType, SocketMatchesState,
       WatchersMatchState, NoWatcherOfFreedClient, States, ClockBound
  <2>3. QueueInv'
    BY <1>0, <2>1 DEF QueueInv, NoLostWakeup, QueueLimit, QueueFull
  <2> QED
    BY <2>2, <2>3 DEF IInv
<1>3. ASSUME NEW n \in 1..Len(send_queue), SendOk(n)
      PROVE  IInv'
  <2>1. /\ send_queue \in Seq(Byte)
        /\ send_queue' = Drop(send_queue, n)
        /\ failing' = (failing /\ Len(send_queue') >= MaxSendQueue)
        /\ UNCHANGED <<state, sd, elapsed>>
    BY <1>0, <1>3 DEF SendOk, QueueInv
  <2>2. /\ send_queue' \in Seq(Byte)
        /\ Len(send_queue') = Len(send_queue) - n
    BY <2>1, DropType
  <2>3. send_queue # <<>>
    BY <1>3
  <2>4. "write" \in active
    BY <1>0, <2>3 DEF QueueInv, NoLostWakeup
  <2>5. \/ /\ send_queue' = <<>> /\ active' = active \ {"write"}
           /\ started' = started \ {"write"}
        \/ send_queue' # <<>> /\ UNCHANGED <<active, started>>
    BY <1>3 DEF SendOk, StopWatchers
  <2>6. ConnInv'
    BY <1>0, <1>1, <2>1, <2>5 DEF ConnInv, ConnType, SocketMatchesState,
       WatchersMatchState, NoWatcherOfFreedClient
  <2>7. NoLostWakeup'
    BY <2>4, <2>5 DEF NoLostWakeup
  <2>8. QueueLimit'
    <3>1. /\ Len(send_queue) \in Nat /\ Len(send_queue) < MaxSendQueue + MaxLine
          /\ MaxLine \in Nat /\ MaxSendQueue \in Nat
      BY <1>0, <2>1, LineAssumption, ConfigAssumption DEF QueueInv, QueueLimit
    <3>2. Len(send_queue') < MaxSendQueue + MaxLine
      BY <3>1, <2>2
    <3>3. failing' => Len(send_queue') >= MaxSendQueue
      BY <2>1
    <3> QED
      BY <3>2, <3>3 DEF QueueLimit, QueueFull
  <2>9. failing' \in BOOLEAN
    BY <2>1
  <2> QED
    BY <1>0, <2>2, <2>6, <2>7, <2>8, <2>9 DEF IInv, QueueInv
<1>4. CASE NothingToSend
  <2>1. /\ send_queue = <<>> /\ active' = active \ {"write"}
        /\ started' = started \ {"write"}
        /\ UNCHANGED <<state, sd, elapsed, send_queue, failing>>
    BY <1>4 DEF NothingToSend, StopWatchers
  <2>2. ConnInv'
    BY <1>0, <1>1, <2>1 DEF ConnInv, ConnType, SocketMatchesState,
       WatchersMatchState, NoWatcherOfFreedClient
  <2>3. QueueInv'
    BY <1>0, <2>1 DEF QueueInv, NoLostWakeup, QueueLimit, QueueFull
  <2> QED
    BY <2>2, <2>3 DEF IInv
<1> QED
  BY <1>2, <1>3, <1>4 DEF tcpclient_write_event

(* tcpclient_destroy leaves libev without a pointer to the client. *)
LEMMA DestroyPreserves ==
    ASSUME IInv, tcpclient_destroy
    PROVE  IInv'
<1>0. ConnInv /\ QueueInv
  BY DEF IInv
<1>1. /\ active' = {} /\ started' = {} /\ addr' = FALSE
      /\ sd' \in {"none", "closed"}
      /\ send_queue' = <<>> /\ phase' = "freed"
      /\ UNCHANGED <<state, failing, elapsed, net>>
  BY <1>0 DEF tcpclient_destroy, StopWatchers, ConnInv, ConnType,
     NoWatcherOfFreedClient
<1>2. ConnInv'
  BY <1>0, <1>1 DEF ConnInv, ConnType, SocketMatchesState, WatchersMatchState,
     NoWatcherOfFreedClient
<1>3. QueueInv'
  <2>1. Len(<<>>) = 0 /\ <<>> \in Seq(Byte)
    BY EmptySeq
  <2>2. QueueLimit'
    BY <2>1, <1>1, LineAssumption, ConfigAssumption DEF QueueLimit
  <2> QED
    BY <2>1, <2>2, <1>0, <1>1 DEF QueueInv, NoLostWakeup, Phases
<1> QED
  BY <1>2, <1>3 DEF IInv

-----------------------------------------------------------------------------
LEMMA InitIInv == Init => IInv
<1> SUFFICES ASSUME Init
             PROVE  IInv
  OBVIOUS
<1>1. Len(send_queue) = 0 /\ send_queue \in Seq(Byte)
  BY EmptySeq DEF Init
<1>2. ConnInv
  <2>1. addr \in BOOLEAN
    BY Zenon DEF Init
  <2>2. elapsed \in 0..ClockBound
    BY ConfigAssumption DEF Init, ClockBound
  <2> QED
    BY <2>1, <2>2 DEF Init, ConnInv, ConnType, SocketMatchesState,
       WatchersMatchState, NoWatcherOfFreedClient, States
<1>3. QueueLimit
  BY <1>1, LineAssumption, ConfigAssumption DEF Init, QueueLimit
<1> QED
  BY <1>1, <1>2, <1>3 DEF Init, IInv, QueueInv, NoLostWakeup, Phases

LEMMA NextIInv == IInv /\ [Next]_vars => IInv'
<1> SUFFICES ASSUME IInv, [Next]_vars
             PROVE  IInv'
  OBVIOUS
<1>0. ConnInv /\ QueueInv
  BY DEF IInv
<1>1. CASE MakeBackend
  <2>1. PICK rc \in 0..6 : /\ tcpclient_connect(rc)
                           /\ phase' = IF rc = 0 THEN "live" ELSE "failed"
    BY <1>1 DEF MakeBackend
  <2>2. phase = "made" /\ UNCHANGED <<send_queue, failing, net>>
    BY <1>1 DEF MakeBackend
  <2>3. ConnInv'
    BY <2>1, <2>2, ConnectPreserves
  <2>4. state # "CONNECTED"
    BY <1>0, <2>2 DEF ConnInv, WatchersMatchState, NoWatcherOfFreedClient
  <2>5. state' # "CONNECTED"
    BY <2>1, <2>4, ConnectOutcomes DEF connVars
  <2>6. QueueInv'
    BY <1>0, <2>1, <2>2, <2>5 DEF QueueInv, NoLostWakeup, QueueLimit, QueueFull, Phases
  <2> QED
    BY <2>3, <2>6 DEF IInv
<1>2. CASE Traffic
  BY <1>2, SendallPreserves DEF Traffic
<1>3. CASE tcpclient_connect_timeout \/ tcpclient_connected \/ tcpclient_read_event
  BY <1>3, ConnHandlersPreserve
<1>4. CASE tcpclient_write_event
  BY <1>4, WriteEventPreserves
<1>5. CASE tcpclient_destroy
  BY <1>5, DestroyPreserves
<1>6. CASE Tick
  <2>1. elapsed' \in 0..ClockBound
    BY <1>0, <1>6, ConfigAssumption DEF Tick, ConnInv, ConnType, ClockBound
  <2>2. UNCHANGED <<state, sd, addr, active, started, send_queue, failing, phase, net>>
    BY <1>6 DEF Tick
  <2> QED
    BY <1>0, <2>1, <2>2 DEF IInv, ConnInv, ConnType, QueueInv,
       SocketMatchesState, WatchersMatchState, NoWatcherOfFreedClient, NoLostWakeup,
       QueueLimit, QueueFull
<1>7. CASE Heal
  BY <1>0, <1>7 DEF Heal, IInv, ConnInv, ConnType, QueueInv, connVars,
     SocketMatchesState, WatchersMatchState, NoWatcherOfFreedClient, NoLostWakeup,
     QueueLimit, QueueFull
<1>8. CASE Finished \/ UNCHANGED vars
  BY <1>0, <1>8 DEF Finished, IInv, ConnInv, ConnType, QueueInv, vars,
     connVars, SocketMatchesState, WatchersMatchState, NoWatcherOfFreedClient,
     NoLostWakeup, QueueLimit, QueueFull
<1> QED
  BY <1>1, <1>2, <1>3, <1>4, <1>5, <1>6, <1>7, <1>8 DEF Next

(***************************************************************************)
(* Every behaviour of the client satisfies the inductive invariant.        *)
(***************************************************************************)
THEOREM Inductive == Spec => []IInv
BY InitIInv, NextIInv, PTL DEF Spec

(***************************************************************************)
(* Type correctness: in particular the state STATE_TERMINATED of the       *)
(* source is never entered.                                                *)
(***************************************************************************)
THEOREM TypeCorrect == Spec => []TypeOK
<1>1. IInv => TypeOK
  BY DEF IInv, ConnInv, ConnType, QueueInv, TypeOK
<1> QED
  BY <1>1, Inductive, PTL

(***************************************************************************)
(* No descriptor leak and no handler that closes a closed descriptor,      *)
(* whatever system calls fail in whatever order.                           *)
(***************************************************************************)
THEOREM SocketSafe == Spec => []SocketMatchesState
<1>1. IInv => SocketMatchesState
  BY DEF IInv, ConnInv
<1> QED
  BY <1>1, Inductive, PTL

(***************************************************************************)
(* The watchers libev has active always fit the state, so no handler runs  *)
(* in a state it was not written for.                                      *)
(***************************************************************************)
THEOREM WatchersSafe == Spec => []WatchersMatchState
<1>1. IInv => WatchersMatchState
  BY DEF IInv, ConnInv
<1> QED
  BY <1>1, Inductive, PTL

(***************************************************************************)
(* tcpclient_destroy leaves libev no watcher inside the freed client.      *)
(***************************************************************************)
THEOREM FreedClientUnwatched == Spec => []NoWatcherOfFreedClient
<1>1. IInv => NoWatcherOfFreedClient
  BY DEF IInv, ConnInv
<1> QED
  BY <1>1, Inductive, PTL

(***************************************************************************)
(* A connected client with queued bytes always waits for writability.      *)
(***************************************************************************)
THEOREM WakeupKept == Spec => []NoLostWakeup
<1>1. IInv => NoLostWakeup
  BY DEF IInv, QueueInv
<1> QED
  BY <1>1, Inductive, PTL

(***************************************************************************)
(* The send queue stays below max_send_queue plus one line, and failing is *)
(* set only while the queue is full.                                       *)
(***************************************************************************)
THEOREM QueueLimited == Spec => []QueueLimit
<1>1. IInv => QueueLimit
  BY DEF IInv, QueueInv
<1> QED
  BY <1>1, Inductive, PTL

(***************************************************************************)
(* Only a send on an established connection removes bytes from the queue,  *)
(* and only from its front: no failure, retry or refused line loses any.   *)
(***************************************************************************)
THEOREM QueueKept == Spec => QueuePersists
<1>1. ASSUME IInv, [Next]_vars
      PROVE  QueueStep
  <2>1. CASE Traffic
    <3>1. PICK l \in Lines, rc \in 0..4 : tcpclient_sendall(l, rc)
      BY <2>1 DEF Traffic
    <3> QED
      BY <3>1 DEF tcpclient_sendall, Enqueue, QueueStep
  <2>2. CASE tcpclient_write_event
    <3>1. state = "CONNECTED"
      BY <1>1, <2>2 DEF tcpclient_write_event, Fires, IInv, ConnInv, WatchersMatchState
    <3>2. CASE SendError
      BY <3>2 DEF SendError, QueueStep
    <3>3. CASE \E n \in 1..Len(send_queue) : SendOk(n)
      BY <3>1, <3>3 DEF SendOk, QueueStep
    <3>4. CASE NothingToSend
      BY <3>4 DEF NothingToSend, QueueStep
    <3> QED
      BY <2>2, <3>2, <3>3, <3>4 DEF tcpclient_write_event
  <2>3. CASE tcpclient_destroy
    BY <2>3 DEF tcpclient_destroy, QueueStep
  <2>4. CASE \/ MakeBackend \/ tcpclient_connect_timeout \/ tcpclient_connected
             \/ tcpclient_read_event \/ Tick \/ Heal \/ Finished \/ UNCHANGED vars
    BY <2>4 DEF MakeBackend, tcpclient_connect_timeout, tcpclient_connected,
       tcpclient_read_event, Tick, Heal, Finished, vars, QueueStep
  <2> QED
    BY <1>1, <2>1, <2>2, <2>3, <2>4 DEF Next
<1> QED
  BY <1>1, Inductive, PTL DEF Spec, QueuePersists

-----------------------------------------------------------------------------
(* What a udp client still has to send starts with the beginning of a line. *)
QueueStartsAtLine == send_queue # <<>> => Head(send_queue)[2] = 1

(* A line added to a queue leaves its first byte the first byte of a line. *)
LEMMA EnqueueStartsAtLine ==
    ASSUME QueueStartsAtLine, send_queue \in Seq(Byte), NEW l \in Lines,
           send_queue' = send_queue \o Bytes(l)
    PROVE  QueueStartsAtLine'
<1>1. Bytes(l) \in Seq(Byte) /\ Len(Bytes(l)) \in 1..MaxLine
  BY BytesType
<1>2. 1 \in 1..LineLen[l] /\ Bytes(l)[1] = <<l, 1>>
  BY LineAssumption DEF Bytes
<1>3. CASE send_queue = <<>>
  <2>1. send_queue' = Bytes(l)
    BY <1>1, <1>3, ConcatEmptySeq
  <2> QED
    BY <1>2, <2>1, HeadTailProperties DEF QueueStartsAtLine
<1>4. CASE send_queue # <<>>
  <2>1. Len(send_queue) \in Nat \ {0}
    BY <1>4, EmptySeq, LenProperties
  <2>2. Head(send_queue') = Head(send_queue)
    BY <1>1, <2>1, ConcatProperties
  <2> QED
    BY <1>4, <2>2 DEF QueueStartsAtLine
<1> QED
  BY <1>3, <1>4

(***************************************************************************)
(* A udp client never splits a line over two connections: one send() takes *)
(* the whole queue or nothing, so whatever fails, the next connection      *)
(* starts at the beginning of a line.  (For tcp the same property fails.)  *)
(***************************************************************************)
THEOREM UdpStartsAtLine ==
    ASSUME Protocol = "udp"
    PROVE  Spec => ConnectionStartsAtLine
<1>1. Init => QueueStartsAtLine
  BY DEF Init, QueueStartsAtLine
<1>2. ASSUME IInv, QueueStartsAtLine, [Next]_vars
      PROVE  QueueStartsAtLine'
  <2>0. send_queue \in Seq(Byte)
    BY <1>2 DEF IInv, QueueInv
  <2>1. CASE Traffic
    <3>1. PICK l \in Lines, rc \in 0..4 : tcpclient_sendall(l, rc)
      BY <2>1 DEF Traffic
    <3>2. \/ UNCHANGED send_queue
          \/ send_queue' = send_queue \o Bytes(l)
      BY <3>1 DEF tcpclient_sendall, Enqueue
    <3>3. CASE UNCHANGED send_queue
      BY <1>2, <3>3 DEF QueueStartsAtLine
    <3> QED
      BY <1>2, <2>0, <3>2, <3>3, EnqueueStartsAtLine
  <2>2. CASE tcpclient_write_event
    <3>1. ASSUME NEW n \in 1..Len(send_queue), SendOk(n)
          PROVE  send_queue' = <<>>
      <4>1. n = Len(send_queue) /\ send_queue' = Drop(send_queue, n)
        BY <3>1 DEF SendOk, SendSizes
      <4>2. Drop(send_queue, n) \in Seq(Byte) /\ Len(Drop(send_queue, n)) = 0
        BY <2>0, <4>1, DropType, LenProperties
      <4> QED
        BY <4>1, <4>2, EmptySeq
    <3>2. send_queue' = <<>> \/ UNCHANGED send_queue
      BY <2>2, <3>1 DEF tcpclient_write_event, SendError, NothingToSend
    <3> QED
      BY <1>2, <3>2 DEF QueueStartsAtLine
  <2>3. CASE tcpclient_destroy
    BY <2>3 DEF tcpclient_destroy, QueueStartsAtLine
  <2>4. CASE \/ MakeBackend \/ tcpclient_connect_timeout \/ tcpclient_connected
             \/ tcpclient_read_event \/ Tick \/ Heal \/ Finished \/ UNCHANGED vars
    <3>1. UNCHANGED send_queue
      BY <2>4 DEF MakeBackend, tcpclient_connect_timeout, tcpclient_connected,
         tcpclient_read_event, Tick, Heal, Finished, vars
    <3> QED
      BY <1>2, <3>1 DEF QueueStartsAtLine
  <2> QED
    BY <1>2, <2>1, <2>2, <2>3, <2>4 DEF Next
<1>3. QueueStartsAtLine /\ [Next]_vars
         => [state # "CONNECTED" /\ state' = "CONNECTED" /\ send_queue # <<>>
                => Head(send_queue)[2] = 1]_vars
  BY DEF QueueStartsAtLine
<1> QED
  BY <1>1, <1>2, <1>3, Inductive, PTL DEF Spec, ConnectionStartsAtLine

-----------------------------------------------------------------------------
(* The steps that leave the queue of bytes alone, and those that do not. *)
LEMMA QueueSteps ==
    ASSUME IInv, [Next]_vars
    PROVE  \/ UNCHANGED send_queue /\ (phase' = "freed" <=> phase = "freed")
           \/ /\ phase = "live" /\ phase' = "live"
              /\ \E l \in Lines : send_queue' = send_queue \o Bytes(l)
           \/ /\ phase = "live" /\ phase' = "live"
              /\ \E n \in SendSizes : send_queue' = Drop(send_queue, n)
           \/ phase = "live" /\ phase' = "freed" /\ send_queue' = <<>>
<1>1. CASE MakeBackend
  BY <1>1 DEF MakeBackend
<1>2. CASE Traffic
  <2>1. PICK l \in Lines, rc \in 0..4 : tcpclient_sendall(l, rc)
    BY <1>2 DEF Traffic
  <2> QED
    BY <2>1 DEF tcpclient_sendall, Enqueue
<1>3. CASE tcpclient_write_event
  <2>1. phase = "live" /\ phase' = "live"
    BY <1>3 DEF tcpclient_write_event, Fires
  <2>2. UNCHANGED send_queue \/ \E n \in SendSizes : send_queue' = Drop(send_queue, n)
    BY <1>3 DEF tcpclient_write_event, SendError, SendOk, NothingToSend
  <2> QED
    BY <2>1, <2>2
<1>4. CASE tcpclient_destroy
  BY <1>4 DEF tcpclient_destroy
<1>5. CASE \/ tcpclient_connect_timeout \/ tcpclient_connected \/ tcpclient_read_event
           \/ Tick \/ Heal \/ Finished \/ UNCHANGED vars
  BY <1>5 DEF tcpclient_connect_timeout, tcpclient_connected, tcpclient_read_event,
     Tick, Heal, Finished, vars
<1> QED
  BY <1>1, <1>2, <1>3, <1>4, <1>5 DEF Next

(* client->send_queue, as the interface of a buffer_t has it. *)
SendQueue ==
    INSTANCE ByteQueue WITH Chunks <- {Bytes(l) : l \in Lines},
                            q <- send_queue, gone <- phase = "freed"

(***************************************************************************)
(* The client uses its send queue within what a buffer_t promises: it adds *)
(* whole lines, takes from the front no more than the queue holds, and     *)
(* destroys it once and never touches it afterwards.  (Buffer implements   *)
(* the same interface in memory: BufferRefinesQueue.)                      *)
(***************************************************************************)
THEOREM SendQueueUse == Spec => SendQueue!Spec
<1>1. Init => SendQueue!Init
  BY DEF Init, SendQueue!Init
<1>2. ASSUME IInv, [Next]_vars
      PROVE  [SendQueue!Next]_<<send_queue, phase = "freed">>
  <2>1. CASE UNCHANGED send_queue /\ (phase' = "freed" <=> phase = "freed")
    BY <2>1
  <2>2. CASE /\ phase = "live" /\ phase' = "live"
             /\ \E l \in Lines : send_queue' = send_queue \o Bytes(l)
    <3>1. PICK l \in Lines : send_queue' = send_queue \o Bytes(l)
      BY <2>2
    <3>2. SendQueue!Put(Bytes(l))
      BY <2>2, <3>1 DEF SendQueue!Put
    <3> QED
      BY <3>2 DEF SendQueue!Next
  <2>3. CASE /\ phase = "live" /\ phase' = "live"
             /\ \E n \in SendSizes : send_queue' = Drop(send_queue, n)
    <3>1. PICK n \in SendSizes : send_queue' = Drop(send_queue, n)
      BY <2>3
    <3>2. send_queue \in Seq(Byte)
      BY <1>2 DEF IInv, QueueInv
    <3>3. n \in 1..Len(send_queue)
      BY <3>1, <3>2 DEF SendSizes
    <3>4. SendQueue!Take(n)
      BY <2>3, <3>1 DEF SendQueue!Take, Drop
    <3> QED
      BY <3>3, <3>4 DEF SendQueue!Next
  <2>4. CASE phase = "live" /\ phase' = "freed" /\ send_queue' = <<>>
    BY <2>4 DEF SendQueue!Next, SendQueue!Destroy
  <2> QED
    BY <1>2, <2>1, <2>2, <2>3, <2>4, QueueSteps
<1> QED
  BY <1>1, <1>2, Inductive, PTL DEF Spec, SendQueue!Spec

-----------------------------------------------------------------------------
(* A udp client whose queue no longer fits a datagram. *)
TooBig == Protocol = "udp" /\ Len(send_queue) > MaxDatagram

(***************************************************************************)
(* Why RecoversFromFullQueue fails for udp: send() is always called with   *)
(* the whole queue, so once that exceeds a datagram no byte of it is ever  *)
(* sent and it only grows, until the client is destroyed, however healthy  *)
(* the network is.                                                         *)
(***************************************************************************)
THEOREM TooBigForGood == Spec => [](TooBig => [](TooBig \/ phase = "freed"))
<1> DEFINE Stuck == TooBig \/ phase = "freed"
<1>1. ASSUME IInv, Stuck, [Next]_vars
      PROVE  Stuck'
  <2>0. send_queue \in Seq(Byte) /\ Len(send_queue) \in Nat /\ MaxDatagram \in Nat
    BY <1>1, ConfigAssumption DEF IInv, QueueInv
  <2>1. CASE UNCHANGED send_queue /\ (phase' = "freed" <=> phase = "freed")
    BY <1>1, <2>1 DEF TooBig
  <2>2. CASE /\ phase = "live" /\ phase' = "live"
             /\ \E l \in Lines : send_queue' = send_queue \o Bytes(l)
    <3>1. PICK l \in Lines : send_queue' = send_queue \o Bytes(l)
      BY <2>2
    <3>2. Len(send_queue') = Len(send_queue) + Len(Bytes(l)) /\ Len(Bytes(l)) \in Nat
      BY <2>0, <3>1, BytesType, ConcatProperties, LineAssumption
    <3>3. TooBig
      BY <1>1, <2>2
    <3> QED
      BY <2>0, <3>2, <3>3 DEF TooBig
  <2>3. CASE /\ phase = "live" /\ phase' = "live"
             /\ \E n \in SendSizes : send_queue' = Drop(send_queue, n)
    <3>1. TooBig
      BY <1>1, <2>3
    <3>2. SendSizes = {}
      BY <2>0, <3>1 DEF TooBig, SendSizes
    <3> QED
      BY <2>3, <3>2
  <2> QED
    BY <1>1, <2>1, <2>2, <2>3, QueueSteps
<1>2. TooBig => Stuck
  OBVIOUS
<1> QED
  BY <1>1, <1>2, Inductive, PTL DEF Spec

(***************************************************************************)
(* The condition on a configuration under which that cannot happen: the    *)
(* queue limit leaves room for one more line below the size of a datagram. *)
(***************************************************************************)
THEOREM NeverTooBig ==
    ASSUME MaxSendQueue + MaxLine <= MaxDatagram
    PROVE  Spec => []~TooBig
<1>1. ASSUME IInv
      PROVE  ~TooBig
  <2>1. /\ Len(send_queue) < MaxSendQueue + MaxLine
        /\ Len(send_queue) \in Nat
    BY <1>1 DEF IInv, QueueInv, QueueLimit
  <2>2. MaxSendQueue \in Nat /\ MaxLine \in Nat /\ MaxDatagram \in Nat
    BY LineAssumption, ConfigAssumption
  <2> QED
    BY <2>1, <2>2 DEF TooBig
<1> QED
  BY <1>1, Inductive, PTL

-----------------------------------------------------------------------------
(* A client in use whose address was freed and not found again. *)
Unresolved == phase = "live" /\ ~addr
Abandoned == phase \in {"live", "freed"} /\ ~addr /\ state = "BACKOFF"

(* No handler runs and no line reaches tcpclient_connect: what is left of  *)
(* such a client is to refuse lines and to be destroyed.                   *)
LEMMA StaysAbandoned ==
    ASSUME IInv, Abandoned, [Next]_vars
    PROVE  Abandoned'
<1>0. active = {}
  BY IdleHasNoWatcher DEF Abandoned
<1>1. CASE Traffic
  <2>1. PICK l \in Lines, rc \in 0..4 : tcpclient_sendall(l, rc)
    BY <1>1 DEF Traffic
  <2> QED
    BY <2>1 DEF tcpclient_sendall, Abandoned, connVars
<1>2. CASE \/ MakeBackend \/ tcpclient_connect_timeout \/ tcpclient_connected
           \/ tcpclient_read_event \/ tcpclient_write_event
  BY <1>0, <1>2 DEF MakeBackend, tcpclient_connect_timeout, tcpclient_connected,
     tcpclient_read_event, tcpclient_write_event, Fires, Abandoned
<1>3. CASE tcpclient_destroy
  BY <1>3 DEF tcpclient_destroy, Abandoned
<1>4. CASE Tick \/ Heal \/ Finished \/ UNCHANGED vars
  BY <1>4 DEF Tick, Heal, Finished, Abandoned, vars, connVars
<1> QED
  BY <1>1, <1>2, <1>3, <1>4 DEF Next

(* tcpclient_connect leaves a client without address only in BACKOFF. *)
LEMMA UnresolvedIsAbandoned ==
    ASSUME IInv, Unresolved => Abandoned, [Next]_vars
    PROVE  (Unresolved => Abandoned)'
<1>1. CASE MakeBackend
  BY <1>1 DEF MakeBackend, tcpclient_connect, ConnectNotNow, ConnectFails, ConnectStarts,
     EnterBackoff, Unresolved, Abandoned
<1>2. CASE Traffic
  <2>1. PICK l \in Lines, rc \in 0..4 : tcpclient_sendall(l, rc)
    BY <1>2 DEF Traffic
  <2>2. phase = "live" /\ phase' = "live"
    BY <2>1 DEF tcpclient_sendall
  <2>3. CASE addr /\ Reconnect
    BY <2>2, <2>3 DEF Reconnect, tcpclient_connect, ConnectNotNow, ConnectFails,
       ConnectStarts, EnterBackoff, connVars, Unresolved, Abandoned
  <2>4. CASE UNCHANGED <<addr, state>>
    BY <2>2, <2>4 DEF Unresolved, Abandoned
  <2> QED
    BY <2>1, <2>3, <2>4 DEF tcpclient_sendall, Enqueue, connVars
<1>3. CASE \/ tcpclient_connect_timeout \/ tcpclient_connected
           \/ tcpclient_read_event \/ tcpclient_write_event
  <2>1. phase = "live" /\ phase' = "live" /\ addr' = addr /\ active # {}
    BY <1>3 DEF tcpclient_connect_timeout, tcpclient_connected, tcpclient_read_event,
       tcpclient_write_event, Fires
  <2>2. state \notin {"INIT", "BACKOFF"}
    BY <2>1, IdleHasNoWatcher
  <2> QED
    BY <2>1, <2>2 DEF Unresolved, Abandoned
<1>4. CASE tcpclient_destroy
  BY <1>4 DEF tcpclient_destroy, Unresolved
<1>5. CASE Tick \/ Heal \/ Finished \/ UNCHANGED vars
  BY <1>5 DEF Tick, Heal, Finished, Unresolved, Abandoned, vars, connVars
<1> QED
  BY <1>1, <1>2, <1>3, <1>4, <1>5 DEF Next

(***************************************************************************)
(* Why Reconnects fails with always_resolve_dns: one failed getaddrinfo is *)
(* final.  tcpclient_sendall returns before it tries to reconnect when     *)
(* there is no address, so the client is in BACKOFF for the rest of its    *)
(* life, also when the name resolves again.                                *)
(***************************************************************************)
THEOREM UnresolvedForGood == Spec => [](Unresolved => [](~addr /\ state = "BACKOFF"))
<1>1. Init => (Unresolved => Abandoned)
  BY DEF Init, Unresolved
<1>2. Abandoned => ~addr /\ state = "BACKOFF"
  BY DEF Abandoned
<1>3. IInv /\ Abandoned /\ [Next]_vars => Abandoned'
  BY StaysAbandoned
<1>4. IInv /\ (Unresolved => Abandoned) /\ [Next]_vars => (Unresolved => Abandoned)'
  BY UnresolvedIsAbandoned
<1> QED
  BY <1>1, <1>2, <1>3, <1>4, Inductive, PTL DEF Spec

(* What it takes for a client in use to lose its address. *)
MayLoseAddress == AlwaysResolveDns /\ "resolve" \in Faults

(***************************************************************************)
(* Without always_resolve_dns it cannot happen: the address is resolved    *)
(* once, a client whose first attempt fails is never used, and no other    *)
(* failure makes a client in use forget its address.                       *)
(***************************************************************************)
THEOREM AddressKept == Spec => [](Unresolved => MayLoseAddress)
<1>1. Init => (Unresolved => MayLoseAddress)
  BY DEF Init, Unresolved
<1>2. ASSUME ~MayLoseAddress, ~Unresolved, [Next]_vars
      PROVE  ~Unresolved'
  <2>1. CASE MakeBackend
    BY <2>1 DEF MakeBackend, tcpclient_connect, ConnectNotNow, ConnectFails, ConnectStarts,
       Unresolved
  <2>2. CASE Traffic
    <3>1. PICK l \in Lines, rc \in 0..4 : tcpclient_sendall(l, rc)
      BY <2>2 DEF Traffic
    <3>2. phase = "live" /\ phase' = "live" /\ addr
      BY <1>2, <3>1 DEF tcpclient_sendall, Unresolved
    <3>3. ASSUME Reconnect PROVE addr'
      BY <1>2, <3>2, <3>3 DEF Reconnect, tcpclient_connect, ConnectNotNow, ConnectFails,
         ConnectStarts, MustResolve, MayFail, MayLoseAddress, connVars
    <3> QED
      BY <3>1, <3>2, <3>3 DEF tcpclient_sendall, Enqueue, Unresolved, connVars
  <2>3. CASE \/ tcpclient_connect_timeout \/ tcpclient_connected
             \/ tcpclient_read_event \/ tcpclient_write_event
             \/ Tick \/ Heal \/ Finished \/ UNCHANGED vars
    <3>1. UNCHANGED <<addr, phase>>
      BY <2>3 DEF tcpclient_connect_timeout, tcpclient_connected, tcpclient_read_event,
         tcpclient_write_event, Tick, Heal, Finished, vars, connVars
    <3> QED
      BY <1>2, <3>1 DEF Unresolved
  <2>4. CASE tcpclient_destroy
    BY <2>4 DEF tcpclient_destroy, Unresolved
  <2> QED
    BY <1>2, <2>1, <2>2, <2>3, <2>4 DEF Next
<1>3. (Unresolved => MayLoseAddress) /\ [Next]_vars => (Unresolved => MayLoseAddress)'
  BY <1>2 DEF MayLoseAddress
<1> QED
  BY <1>1, <1>3, PTL DEF Spec

-----------------------------------------------------------------------------
(***************************************************************************)
(* Why QueuedLinesRetried fails: nothing but a further line for the same   *)
(* backend ends a client's BACKOFF, neither a timer nor any watcher.       *)
(***************************************************************************)
THEOREM OnlyTrafficRetries ==
    Spec => [][state = "BACKOFF" /\ state' # "BACKOFF" /\ phase = "live" => Traffic]_vars
<1>1. ASSUME IInv, [Next]_vars, state = "BACKOFF", state' # "BACKOFF", phase = "live"
      PROVE  Traffic
  <2>1. active = {}
    BY <1>1, IdleHasNoWatcher
  <2>2. ~(\/ tcpclient_connect_timeout \/ tcpclient_connected
          \/ tcpclient_read_event \/ tcpclient_write_event)
    BY <2>1 DEF tcpclient_connect_timeout, tcpclient_connected, tcpclient_read_event,
       tcpclient_write_event, Fires
  <2>3. ~(MakeBackend \/ tcpclient_destroy \/ Tick \/ Heal \/ Finished \/ UNCHANGED vars)
    BY <1>1 DEF MakeBackend, tcpclient_destroy, Tick, Heal, Finished, vars, connVars
  <2> QED
    BY <1>1, <2>2, <2>3 DEF Next
<1> QED
  BY <1>1, Inductive, PTL DEF Spec
=============================================================================
