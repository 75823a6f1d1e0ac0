----------------------------- MODULE ServersProofs -----------------------------
(***************************************************************************)
(* Proofs about Servers: around the ring it is HashRing, whatever clients, *)
(* kernel and signals do, and its own invariants, for every number of      *)
(* clients, listeners, addresses and failures.                             *)
(***************************************************************************)
EXTENDS Servers, HashRingProofs

-----------------------------------------------------------------------------
(* A step of the composed program is a step of the ring or leaves it. *)
LEMMA StepOfRing ==
    ASSUME [ServersNext]_serverVars
    PROVE  [Next]_vars
<1>1. CASE LoadRing
  BY <1>1 DEF LoadRing, Next
<1>2. CASE \E n \in 0..MaxAddrs : ResolveTcp(n) \/ ResolveUdp(n)
  BY <1>2 DEF ResolveTcp, ResolveUdp, InConnectServer
<1>3. CASE tcpserver_bind \/ udpserver_bind \/ Connected
  BY <1>3 DEF tcpserver_bind, udpserver_bind, Connected, InConnectServer
<1>4. CASE StartLoop \/ Poll \/ IterationEnds
  BY <1>4 DEF StartLoop, Poll, IterationEnds
<1>5. CASE tcplistener_accept_callback \/ udplistener_recv_callback
  BY <1>5 DEF tcplistener_accept_callback, udplistener_recv_callback
<1>6. CASE \E c \in Clients : tcpsession_recv_callback(c)
  BY <1>6 DEF tcpsession_recv_callback
<1>7. CASE \E g \in Signals : SignalHandled(g)
  BY <1>7 DEF SignalHandled, Next
<1>8. CASE Return
  BY <1>8 DEF Return, Next
<1>9. CASE \E c \in Clients : ClientConnects(c) \/ ClientSends(c) \/ ClientCloses(c)
  BY <1>9 DEF ClientConnects, ClientSends, ClientCloses, Outside
<1>10. CASE DatagramArrives \/ \E g \in Signals : SignalArrives(g)
  BY <1>10 DEF DatagramArrives, SignalArrives, Outside
<1>11. CASE ReloadSignal \/ Over \/ UNCHANGED serverVars
  BY <1>11 DEF ReloadSignal, Over, serverVars
<1> QED
  BY <1>1, <1>2, <1>3, <1>4, <1>5, <1>6, <1>7, <1>8, <1>9, <1>10, <1>11
  DEF ServersNext, Program

(***************************************************************************)
(* The program with its listeners, clients and loop implements HashRing.   *)
(***************************************************************************)
THEOREM ServersImplementRing == ServersSpec => Spec
<1>1. ServersInit => Init
  BY DEF ServersInit
<1> QED
  BY <1>1, StepOfRing, PTL DEF ServersSpec, Spec

(***************************************************************************)
(* What is proved of the ring holds while clients, listeners and signals   *)
(* take their steps: no backend of a started process is shifted, doubled   *)
(* or released twice, and at its end only a backend that make_backend      *)
(* dropped is left.                                                        *)
(***************************************************************************)
THEOREM RingHoldsInServers ==
    ServersSpec => [](TypeOK /\ ShardsMatchConfig /\ OneClientPerBackend /\ ReleasedOnce)
BY ServersImplementRing, RingTypeCorrect, ShardsCorrect, ClientsShared, NoDoubleRelease, PTL

-----------------------------------------------------------------------------
(* What each listener and session holds is well typed, action by action. *)
LEMMA ConnectTyped ==
    ASSUME ServersTypeOK,
           \/ LoadRing
           \/ \E n \in 0..MaxAddrs : ResolveTcp(n) \/ ResolveUdp(n)
           \/ tcpserver_bind \/ udpserver_bind \/ Connected \/ StartLoop
    PROVE  ServersTypeOK'
<1> USE ServersAssumption
<1>1. CASE LoadRing
  BY <1>1 DEF LoadRing, bindVars, clientVars, sessionVars, ServersTypeOK
<1>2. CASE \E n \in 0..MaxAddrs : ResolveTcp(n) \/ ResolveUdp(n)
  BY <1>2
  DEF ResolveTcp, ResolveUdp, InConnectServer, clientVars, sessionVars, ServersTypeOK
<1>3. CASE tcpserver_bind \/ udpserver_bind
  <2>1. /\ binding' \in {"tcp", "udp", "failed"} /\ addrs' \in 0..MaxAddrs
    BY <1>3 DEF tcpserver_bind, udpserver_bind, TooMany, ServersTypeOK
  <2>2. listeners' \in [{"tcp", "udp"} -> 0..MaxListeners]
    BY <1>3
    DEF tcpserver_bind, udpserver_bind, TooMany, NoRoom, tcplistener_create,
        udplistener_create, ServersTypeOK
  <2>3. UNCHANGED <<loop, pending, raised, datagram, sock, unread, eof, watched, ctx,
                    orphans, failures, freedUse>>
    BY <1>3 DEF tcpserver_bind, udpserver_bind, InConnectServer, clientVars, sessionVars
  <2> QED
    BY <2>1, <2>2, <2>3 DEF ServersTypeOK
<1>4. CASE Connected
  BY <1>4 DEF Connected, InConnectServer, clientVars, sessionVars, ServersTypeOK
<1>5. CASE StartLoop
  BY <1>5 DEF StartLoop, clientVars, sessionVars, ServersTypeOK
<1> QED
  BY <1>1, <1>2, <1>3, <1>4, <1>5

LEMMA OutsideTyped ==
    ASSUME ServersTypeOK,
           \/ \E c \in Clients : ClientConnects(c) \/ ClientSends(c) \/ ClientCloses(c)
           \/ DatagramArrives
           \/ \E g \in Signals : SignalArrives(g)
    PROVE  ServersTypeOK'
<1>1. UNCHANGED <<binding, addrs, listeners, loop, pending, watched, ctx, orphans,
                  failures, freedUse>>
  BY DEF ClientConnects, ClientSends, ClientCloses, DatagramArrives, SignalArrives,
         Outside, bindVars, sessionVars
<1>2. /\ sock' \in [Clients -> {"none", "queued", "accepted", "closed"}]
      /\ raised' \subseteq Signals
  BY DEF ClientConnects, ClientSends, ClientCloses, DatagramArrives, SignalArrives,
         clientVars, ServersTypeOK
<1>3. unread' \in [Clients -> BOOLEAN] /\ eof' \in [Clients -> BOOLEAN] /\ datagram' \in BOOLEAN
  BY DEF ClientConnects, ClientSends, ClientCloses, DatagramArrives, SignalArrives,
         clientVars, ServersTypeOK
<1> QED
  BY <1>1, <1>2, <1>3 DEF ServersTypeOK

LEMMA LoopTyped ==
    ASSUME ServersTypeOK,
           \/ Poll \/ IterationEnds \/ tcplistener_accept_callback
           \/ udplistener_recv_callback
           \/ \E g \in Signals : SignalHandled(g)
    PROVE  ServersTypeOK'
<1> USE ServersAssumption
<1>1. CASE Poll
  <2>1. pending' \subseteq Watchers
    BY <1>1 DEF Poll, Ready, Watchers, ServersTypeOK
  <2> QED
    BY <1>1, <2>1 DEF Poll, bindVars, clientVars, sessionVars, ServersTypeOK
<1>2. CASE IterationEnds
  BY <1>2 DEF IterationEnds, bindVars, clientVars, sessionVars, ServersTypeOK
<1>3. CASE tcplistener_accept_callback
  <2>1. PICK c \in Clients : \/ Accepted(c) \/ SessionNotCreated(c) \/ AcceptFails(c)
                             \/ NonblockFails(c) \/ NoContext(c)
    BY <1>3 DEF tcplistener_accept_callback
  <2>2. /\ sock' \in [Clients -> {"none", "queued", "accepted", "closed"}]
        /\ watched' \subseteq Clients
        /\ ctx' \in [Clients -> {"null", "alive", "freed"}]
    BY <2>1
    DEF Accepted, SessionNotCreated, AcceptFails, NonblockFails, NoContext, ServersTypeOK
  <2>3. orphans' \in Nat /\ failures' \in 0..MaxFailures
    BY <2>1
    DEF Accepted, SessionNotCreated, AcceptFails, NonblockFails, NoContext, Fail, ServersTypeOK
  <2>4. pending' \subseteq Watchers
    BY <1>3 DEF tcplistener_accept_callback, ServersTypeOK
  <2> QED
    BY <1>3, <2>2, <2>3, <2>4 DEF tcplistener_accept_callback, bindVars, ServersTypeOK
<1>4. CASE udplistener_recv_callback
  <2>1. freedUse' \in BOOLEAN /\ datagram' \in BOOLEAN /\ pending' \subseteq Watchers
    BY <1>4 DEF udplistener_recv_callback, ServersTypeOK
  <2> QED
    BY <1>4, <2>1
    DEF udplistener_recv_callback, bindVars, clientVars, sessionVars, ServersTypeOK
<1>5. CASE \E g \in Signals : SignalHandled(g)
  <2>1. listeners' \in [{"tcp", "udp"} -> 0..MaxListeners]
    BY <1>5 DEF SignalHandled, StopListeners, tcpserver_destroy, udpserver_destroy,
                ServersTypeOK
  <2>2. pending' \subseteq Watchers /\ raised' \subseteq Signals
    BY <1>5 DEF SignalHandled, StopListeners, ServersTypeOK
  <2> QED
    BY <1>5, <2>1, <2>2 DEF SignalHandled, clientVars, sessionVars, ServersTypeOK
<1> QED
  BY <1>1, <1>2, <1>3, <1>4, <1>5

LEMMA RecvTyped ==
    ASSUME ServersTypeOK, NEW c \in Clients, tcpsession_recv_callback(c)
    PROVE  ServersTypeOK'
<1>1. ReceiveData(c) \/ ReceiveEnd(c) \/ Crash(c)
  BY DEF tcpsession_recv_callback
<1>2. /\ sock' \in [Clients -> {"none", "queued", "accepted", "closed"}]
      /\ watched' \subseteq Clients
      /\ ctx' \in [Clients -> {"null", "alive", "freed"}]
      /\ loop' \in {"off", "polling", "invoking", "ended", "crashed"}
  BY <1>1 DEF ReceiveData, ReceiveEnd, Crash, SessionEnds, clientVars, ServersTypeOK
<1>3. unread' \in [Clients -> BOOLEAN]
  BY <1>1 DEF ReceiveData, ReceiveEnd, Crash, clientVars, ServersTypeOK
<1>4. freedUse' \in BOOLEAN
  BY <1>1 DEF ReceiveData, ReceiveEnd, Crash, ServersTypeOK
<1>5. pending' \subseteq Watchers
  BY DEF tcpsession_recv_callback, ServersTypeOK
<1> QED
  BY <1>2, <1>3, <1>4, <1>5 DEF tcpsession_recv_callback, bindVars, ServersTypeOK

LEMMA NextTyped ==
    ASSUME ServersTypeOK, [ServersNext]_serverVars
    PROVE  ServersTypeOK'
<1>1. CASE Return \/ ReloadSignal \/ Over \/ UNCHANGED serverVars
  BY <1>1 DEF Return, ReloadSignal, Over, serverVars, bindVars, clientVars, sessionVars,
              ServersTypeOK
<1> QED
  BY <1>1, ConnectTyped, OutsideTyped, LoopTyped, RecvTyped DEF ServersNext, Program

LEMMA InitTyped ==
    ASSUME ServersInit
    PROVE  ServersTypeOK
<1>1. /\ sock \in [Clients -> {"none", "queued", "accepted", "closed"}]
      /\ ctx \in [Clients -> {"null", "alive", "freed"}]
      /\ listeners \in [{"tcp", "udp"} -> 0..MaxListeners]
      /\ addrs \in 0..MaxAddrs /\ failures \in 0..MaxFailures /\ orphans \in Nat
  BY ServersAssumption DEF ServersInit
<1>2. /\ unread \in [Clients -> BOOLEAN] /\ eof \in [Clients -> BOOLEAN]
      /\ datagram \in BOOLEAN /\ freedUse \in BOOLEAN
  BY Zenon DEF ServersInit
<1> QED
  BY <1>1, <1>2 DEF ServersInit, ServersTypeOK

(***************************************************************************)
(* No listener is stored past the end of its array, however many addresses *)
(* a bind finds, and libev is given no watcher but the program's own.      *)
(***************************************************************************)
THEOREM ServersTypeCorrect == ServersSpec => []ServersTypeOK
BY InitTyped, NextTyped, PTL DEF ServersSpec

-----------------------------------------------------------------------------
(* Connections accepted and forgotten. *)
Lost == {c \in Clients \ watched : sock[c] = "accepted"}

(***************************************************************************)
(* SessionsAccounted is inductive with two more facts: a context is freed  *)
(* only with its connection, so that no queued client has a freed one, and *)
(* the lost connections are finitely many, of however many clients.        *)
(***************************************************************************)
Sessions ==
    /\ \A c \in watched : sock[c] = "accepted" /\ ctx[c] # "freed"
    /\ \A c \in Clients : ctx[c] = "freed" => sock[c] = "closed"
    /\ pending \cap Clients \subseteq watched
    /\ IsFiniteSet(Lost)
    /\ orphans + Cardinality(Lost) <= failures

(* Steps that leave the sessions alone and add no event of a session. *)
LEMMA SessionsStill ==
    ASSUME Sessions, UNCHANGED <<sock, watched, ctx, orphans, failures>>,
           pending' \cap Clients \subseteq pending \cup watched
    PROVE  Sessions'
<1>1. Lost' = Lost
  BY DEF Lost
<1> QED
  BY <1>1 DEF Sessions

(* An accept: at most one connection is lost, and then a call has failed. *)
LEMMA AcceptSessions ==
    ASSUME ServersTypeOK, Sessions, tcplistener_accept_callback
    PROVE  Sessions'
<1>1. PICK c \in Clients :
         /\ sock[c] = "queued"
         /\ \/ Accepted(c) \/ SessionNotCreated(c) \/ AcceptFails(c)
            \/ NonblockFails(c) \/ NoContext(c)
  BY DEF tcplistener_accept_callback
<1>2. c \notin watched /\ c \notin Lost /\ ctx[c] # "freed" /\ pending' \subseteq pending
  BY <1>1 DEF Sessions, Lost, tcplistener_accept_callback
<1>3. /\ orphans \in Nat /\ failures \in Nat /\ Cardinality(Lost) \in Nat
      /\ orphans + Cardinality(Lost) <= failures
  BY FS_CardinalityType DEF ServersTypeOK, Sessions
<1>4. CASE Accepted(c) \/ NoContext(c)
  <2>1. /\ sock' = [sock EXCEPT ![c] = "accepted"] /\ watched' = watched \cup {c}
        /\ ctx' \in {ctx, [ctx EXCEPT ![c] = "alive"]}
        /\ orphans' = orphans
    BY <1>4 DEF Accepted, NoContext
  <2>2. failures' >= failures
    BY <1>3, <1>4 DEF Accepted, NoContext, Fail
  <2>3. Lost' = Lost
    BY <1>2, <2>1 DEF Lost, ServersTypeOK
  <2>4. \A d \in watched' : sock'[d] = "accepted" /\ ctx'[d] # "freed"
    BY <1>2, <2>1 DEF Sessions, ServersTypeOK
  <2>5. \A d \in Clients : ctx'[d] = "freed" => sock'[d] = "closed"
    BY <1>2, <2>1 DEF Sessions, ServersTypeOK
  <2>6. orphans' + Cardinality(Lost') <= failures'
    <3>1. failures' \in Nat
      BY <1>3, <1>4 DEF Accepted, NoContext, Fail
    <3> QED
      BY <1>3, <2>1, <2>2, <2>3, <3>1
  <2> QED
    BY <1>2, <2>1, <2>3, <2>4, <2>5, <2>6 DEF Sessions
<1>5. CASE SessionNotCreated(c) \/ AcceptFails(c)
  <2>1. /\ UNCHANGED <<sock, watched, ctx>>
        /\ failures' = failures + 1 /\ orphans' \in {orphans, orphans + 1}
    BY <1>5 DEF SessionNotCreated, AcceptFails, Fail
  <2>2. Lost' = Lost
    BY <2>1 DEF Lost
  <2>3. orphans' + Cardinality(Lost') <= failures'
    BY <1>3, <2>1, <2>2
  <2> QED
    BY <1>2, <2>1, <2>2, <2>3 DEF Sessions
<1>6. CASE NonblockFails(c)
  <2>1. /\ sock' = [sock EXCEPT ![c] = "accepted"]
        /\ UNCHANGED <<watched, ctx, orphans>> /\ failures' = failures + 1
    BY <1>6 DEF NonblockFails, Fail
  <2>2. Lost' = Lost \cup {c}
    BY <1>2, <2>1 DEF Lost, ServersTypeOK
  <2>3. IsFiniteSet(Lost') /\ Cardinality(Lost') = Cardinality(Lost) + 1
    BY <1>2, <2>2, FS_AddElement DEF Sessions
  <2>4. \A d \in watched' : sock'[d] = "accepted" /\ ctx'[d] # "freed"
    BY <1>2, <2>1 DEF Sessions, ServersTypeOK
  <2>5. \A d \in Clients : ctx'[d] = "freed" => sock'[d] = "closed"
    BY <1>2, <2>1 DEF Sessions, ServersTypeOK
  <2>6. orphans' + Cardinality(Lost') <= failures'
    BY <1>3, <2>1, <2>3
  <2> QED
    BY <1>2, <2>1, <2>3, <2>4, <2>5, <2>6 DEF Sessions
<1> QED
  BY <1>1, <1>4, <1>5, <1>6

(* A session ends with its watcher, its connection and its context. *)
LEMMA RecvSessions ==
    ASSUME ServersTypeOK, Sessions, NEW c \in Clients, tcpsession_recv_callback(c)
    PROVE  Sessions'
<1>1. /\ c \in watched /\ pending' = pending \ {c}
      /\ UNCHANGED <<orphans, failures>>
      /\ ReceiveData(c) \/ ReceiveEnd(c) \/ Crash(c)
  BY DEF tcpsession_recv_callback, Invoked, Sessions
<1>2. CASE UNCHANGED <<sock, watched, ctx>>
  BY <1>1, <1>2, SessionsStill
<1>3. CASE SessionEnds(c)
  <2>1. /\ ctx' = [ctx EXCEPT ![c] = "freed"] /\ sock' = [sock EXCEPT ![c] = "closed"]
        /\ watched' = watched \ {c}
    BY <1>3 DEF SessionEnds
  <2>2. Lost' = Lost
    BY <1>1, <2>1 DEF Lost, ServersTypeOK
  <2>3. \A d \in watched' : sock'[d] = "accepted" /\ ctx'[d] # "freed"
    BY <2>1 DEF Sessions, ServersTypeOK
  <2>4. \A d \in Clients : ctx'[d] = "freed" => sock'[d] = "closed"
    BY <2>1 DEF Sessions, ServersTypeOK
  <2>5. pending' \cap Clients \subseteq watched'
    BY <1>1, <2>1 DEF Sessions
  <2> QED
    BY <1>1, <2>2, <2>3, <2>4, <2>5 DEF Sessions
<1> QED
  BY <1>1, <1>2, <1>3 DEF ReceiveData, ReceiveEnd, Crash, clientVars

LEMMA NextSessions ==
    ASSUME ServersTypeOK, Sessions, [ServersNext]_serverVars
    PROVE  Sessions'
<1>1. CASE \/ LoadRing
           \/ \E n \in 0..MaxAddrs : ResolveTcp(n) \/ ResolveUdp(n)
           \/ tcpserver_bind \/ udpserver_bind \/ Connected \/ StartLoop
  <2>1. UNCHANGED <<sock, watched, ctx, orphans, failures, pending>>
    BY <1>1 DEF LoadRing, ResolveTcp, ResolveUdp, tcpserver_bind, udpserver_bind,
                Connected, StartLoop, InConnectServer, clientVars, sessionVars
  <2> QED
    BY <2>1, SessionsStill
<1>2. CASE \E c \in Clients : ClientConnects(c)
  <2>1. PICK c \in Clients : ClientConnects(c)
    BY <1>2
  <2>2. /\ sock[c] = "none" /\ sock' = [sock EXCEPT ![c] = "queued"]
        /\ UNCHANGED <<watched, ctx, orphans, failures, pending>>
    BY <2>1 DEF ClientConnects, Outside, sessionVars
  <2>3. Lost' = Lost
    BY <2>2 DEF Lost, ServersTypeOK
  <2>4. \A d \in watched' : sock'[d] = "accepted" /\ ctx'[d] # "freed"
    BY <2>2 DEF Sessions, ServersTypeOK
  <2>5. \A d \in Clients : ctx'[d] = "freed" => sock'[d] = "closed"
    BY <2>2 DEF Sessions, ServersTypeOK
  <2> QED
    BY <2>2, <2>3, <2>4, <2>5 DEF Sessions
<1>3. CASE \/ \E c \in Clients : ClientSends(c) \/ ClientCloses(c)
           \/ DatagramArrives
           \/ \E g \in Signals : SignalArrives(g)
  <2>1. UNCHANGED <<sock, watched, ctx, orphans, failures, pending>>
    BY <1>3 DEF ClientSends, ClientCloses, DatagramArrives, SignalArrives, Outside,
                clientVars, sessionVars
  <2> QED
    BY <2>1, SessionsStill
<1>4. CASE Poll
  <2>1. pending' \cap Clients \subseteq watched
    BY <1>4, ServersAssumption DEF Poll, Ready, ServersTypeOK
  <2> QED
    BY <1>4, <2>1, SessionsStill DEF Poll, clientVars, sessionVars
<1>5. CASE \/ IterationEnds \/ udplistener_recv_callback
           \/ \E g \in Signals : SignalHandled(g)
           \/ Return
  <2>1. UNCHANGED <<sock, watched, ctx, orphans, failures>> /\ pending' \subseteq pending
    BY <1>5 DEF IterationEnds, udplistener_recv_callback, SignalHandled, StopListeners,
                Return, clientVars, sessionVars
  <2> QED
    BY <2>1, SessionsStill
<1>6. CASE ReloadSignal \/ Over \/ UNCHANGED serverVars
  <2>1. UNCHANGED <<sock, watched, ctx, orphans, failures, pending>>
    BY <1>6 DEF ReloadSignal, Over, serverVars, clientVars, sessionVars
  <2> QED
    BY <2>1, SessionsStill
<1> QED
  BY <1>1, <1>2, <1>3, <1>4, <1>5, <1>6, AcceptSessions, RecvSessions
  DEF ServersNext, Program

(***************************************************************************)
(* Whatever order the handlers run in, libev never holds the watcher of a  *)
(* session that is closed or released, and each connection or session that *)
(* is forgotten was lost to a failed call of its own.                      *)
(***************************************************************************)
THEOREM SessionsCorrect == ServersSpec => []SessionsAccounted
<1>1. ASSUME ServersInit PROVE Sessions
  <2>1. Lost = {}
    BY <1>1 DEF ServersInit, Lost
  <2>2. IsFiniteSet(Lost) /\ Cardinality(Lost) = 0
    BY <2>1, FS_EmptySet
  <2> QED
    BY <1>1, <2>2 DEF ServersInit, Sessions
<1>2. Sessions => SessionsAccounted
  BY DEF Sessions, SessionsAccounted, Lost
<1> QED
  BY <1>1, <1>2, InitTyped, NextTyped, NextSessions, PTL DEF ServersSpec

-----------------------------------------------------------------------------
(***************************************************************************)
(* After its first signal the process is on its way out: it cannot poll    *)
(* again, and no event of a listener is left.                              *)
(***************************************************************************)
Stopping ==
    /\ stage = "stopping" => loop # "polling" /\ loop # "off" /\ pending \cap {"tcp", "udp"} = {}
    /\ stage = "exited" => loop \in {"off", "ended"}
    /\ initialized \/ stage \in {"stopping", "exited"}

LEMMA NextStopping ==
    ASSUME Stopping, [ServersNext]_serverVars
    PROVE  Stopping'
<1>1. CASE LoadRing
  <2>1. /\ stage' \in {"loading", "running"} /\ initialized' = initialized
        /\ stage = "loading"
    BY <1>1 DEF LoadRing, AddShard, AllocFails, ExpandFails, Loaded, Loading
  <2> QED
    BY <2>1 DEF Stopping
<1>2. CASE \/ \E n \in 0..MaxAddrs : ResolveTcp(n) \/ ResolveUdp(n)
           \/ tcpserver_bind \/ udpserver_bind \/ Connected \/ StartLoop
  <2>1. stage = "running" /\ stage' = stage /\ initialized' = initialized
    BY <1>2 DEF ResolveTcp, ResolveUdp, tcpserver_bind, udpserver_bind,
                Connected, StartLoop, InConnectServer, vars
  <2> QED
    BY <2>1 DEF Stopping
<1>3. CASE \/ \E c \in Clients : ClientConnects(c) \/ ClientSends(c) \/ ClientCloses(c)
           \/ DatagramArrives
           \/ \E g \in Signals : SignalArrives(g)
  <2>1. UNCHANGED <<stage, initialized, loop, pending>>
    BY <1>3 DEF ClientConnects, ClientSends, ClientCloses, DatagramArrives, SignalArrives,
                Outside, vars
  <2> QED
    BY <2>1 DEF Stopping
<1>4. CASE Poll \/ IterationEnds
  BY <1>4 DEF Poll, IterationEnds, vars, Stopping
<1>5. CASE tcplistener_accept_callback \/ udplistener_recv_callback
  <2>1. UNCHANGED <<stage, initialized, loop>> /\ pending' \subseteq pending
    BY <1>5 DEF tcplistener_accept_callback, udplistener_recv_callback, vars
  <2> QED
    BY <2>1 DEF Stopping
<1>6. CASE \E c \in Clients : tcpsession_recv_callback(c)
  <2>1. /\ UNCHANGED <<stage, initialized>> /\ pending' \subseteq pending
        /\ loop = "invoking" /\ loop' \in {"invoking", "crashed"}
    BY <1>6 DEF tcpsession_recv_callback, Invoked, ReceiveData, ReceiveEnd, Crash, vars
  <2> QED
    BY <2>1 DEF Stopping
<1>7. CASE \E g \in Signals : SignalHandled(g)
  <2>1. /\ stage' = "stopping" /\ loop = "invoking" /\ loop' = loop
        /\ pending' \cap {"tcp", "udp"} = {}
    BY <1>7 DEF SignalHandled, Invoked, StopListeners, graceful_shutdown,
                destroy_server_collection
  <2> QED
    BY <2>1 DEF Stopping
<1>8. CASE Return
  BY <1>8 DEF Return, MainReturns, Stopping
<1>9. CASE ReloadSignal \/ Over \/ UNCHANGED serverVars
  <2>1. UNCHANGED <<stage, initialized, loop, pending>>
    BY <1>9 DEF ReloadSignal, Over, serverVars, vars
  <2> QED
    BY <2>1 DEF Stopping
<1> QED
  BY <1>1, <1>2, <1>3, <1>4, <1>5, <1>6, <1>7, <1>8, <1>9 DEF ServersNext, Program

(***************************************************************************)
(* Once the handler of SIGINT or SIGTERM has run no event is added and no  *)
(* connection accepted: what was pending beside the signal is all that is  *)
(* still handled.                                                          *)
(***************************************************************************)
THEOREM SignalStopsInput == ServersSpec => NothingNewAfterSignal
<1> DEFINE NoNew == ~initialized /\ stage # "exited"
                       => /\ pending' \subseteq pending \ {"tcp", "udp"}
                          /\ watched' \subseteq watched
<1>1. ServersInit => Stopping
  BY DEF ServersInit, Init, Stopping
<1>2. ASSUME Stopping, [ServersNext]_serverVars, ~initialized, stage # "exited"
      PROVE  pending' \subseteq pending \ {"tcp", "udp"} /\ watched' \subseteq watched
  <2>1. /\ stage = "stopping" /\ loop # "polling" /\ loop # "off"
        /\ pending \cap {"tcp", "udp"} = {}
    BY <1>2 DEF Stopping
  <2>2. CASE \/ LoadRing
             \/ \E n \in 0..MaxAddrs : ResolveTcp(n) \/ ResolveUdp(n)
             \/ tcpserver_bind \/ udpserver_bind \/ Connected \/ StartLoop
             \/ Poll \/ tcplistener_accept_callback \/ ReloadSignal
    BY <2>1, <2>2
    DEF LoadRing, AddShard, AllocFails, ExpandFails, Loaded, Loading, ResolveTcp, ResolveUdp,
        tcpserver_bind, udpserver_bind, Connected, StartLoop, InConnectServer, Poll,
        tcplistener_accept_callback, Invoked, ReloadSignal, reload_config
  <2>3. CASE \/ \E c \in Clients : ClientConnects(c) \/ ClientSends(c) \/ ClientCloses(c)
             \/ DatagramArrives
             \/ \E g \in Signals : SignalArrives(g)
             \/ IterationEnds \/ Return \/ Over \/ UNCHANGED serverVars
    <3>1. UNCHANGED <<pending, watched>>
      BY <2>3 DEF ClientConnects, ClientSends, ClientCloses, DatagramArrives, SignalArrives,
                  Outside, IterationEnds, Return, Over, serverVars, sessionVars
    <3> QED
      BY <2>1, <3>1
  <2>4. CASE udplistener_recv_callback \/ \E g \in Signals : SignalHandled(g)
    <3>1. pending' \subseteq pending /\ watched' = watched
      BY <2>4 DEF udplistener_recv_callback, SignalHandled, StopListeners, sessionVars
    <3> QED
      BY <2>1, <3>1
  <2>5. CASE \E c \in Clients : tcpsession_recv_callback(c)
    <3>1. pending' \subseteq pending /\ watched' \subseteq watched
      BY <2>5 DEF tcpsession_recv_callback, ReceiveData, ReceiveEnd, Crash, SessionEnds
    <3> QED
      BY <2>1, <3>1
  <2> QED
    BY <1>2, <2>2, <2>3, <2>4, <2>5 DEF ServersNext, Program
<1>3. Stopping /\ [ServersNext]_serverVars => [NoNew]_serverVars
  BY <1>2
<1> QED
  BY <1>1, <1>3, NextStopping, PTL DEF ServersSpec, NothingNewAfterSignal

-----------------------------------------------------------------------------
(* The server is released, and no event of a session is left to handle. *)
Quiet == ~initialized /\ pending \cap Clients = {} /\ ~freedUse

LEMMA StaysQuiet ==
    ASSUME Stopping, Quiet, [ServersNext]_serverVars
    PROVE  Quiet'
<1>0. stage \in {"stopping", "exited"} /\ loop # "polling"
  BY DEF Stopping, Quiet
<1>1. CASE \/ LoadRing
           \/ \E n \in 0..MaxAddrs : ResolveTcp(n) \/ ResolveUdp(n)
           \/ tcpserver_bind \/ udpserver_bind \/ Connected \/ StartLoop
           \/ Poll \/ ReloadSignal
  BY <1>0, <1>1
  DEF LoadRing, AddShard, AllocFails, ExpandFails, Loaded, Loading, ResolveTcp, ResolveUdp,
      tcpserver_bind, udpserver_bind, Connected, StartLoop, InConnectServer, Poll,
      ReloadSignal, reload_config
<1>2. CASE tcplistener_accept_callback \/ udplistener_recv_callback
  BY <1>0, <1>2 DEF tcplistener_accept_callback, udplistener_recv_callback, Invoked, Stopping
<1>3. CASE \E c \in Clients : tcpsession_recv_callback(c)
  BY <1>3 DEF tcpsession_recv_callback, Invoked, Quiet
<1>4. CASE \/ \E c \in Clients : ClientConnects(c) \/ ClientSends(c) \/ ClientCloses(c)
           \/ DatagramArrives
           \/ \E g \in Signals : SignalArrives(g)
           \/ IterationEnds \/ Over \/ UNCHANGED serverVars
  <2>1. UNCHANGED <<initialized, pending, freedUse>>
    BY <1>4 DEF ClientConnects, ClientSends, ClientCloses, DatagramArrives, SignalArrives,
                Outside, IterationEnds, Over, serverVars, vars
  <2> QED
    BY <2>1 DEF Quiet
<1>5. CASE \E g \in Signals : SignalHandled(g)
  <2>1. initialized' = FALSE /\ pending' \subseteq pending /\ freedUse' = freedUse
    BY <1>5 DEF SignalHandled, StopListeners, graceful_shutdown,
                destroy_server_collection
  <2> QED
    BY <2>1 DEF Quiet
<1>6. CASE Return
  <2>1. initialized' = FALSE /\ UNCHANGED <<pending, freedUse>>
    BY <1>6 DEF Return, MainReturns, destroy_server_collection
  <2> QED
    BY <2>1 DEF Quiet
<1> QED
  BY <1>1, <1>2, <1>3, <1>4, <1>5, <1>6 DEF ServersNext, Program

(***************************************************************************)
(* When the freed stats_server_t is safe from its sessions: if no event of *)
(* a session is pending once the handler of the signal has run, or once    *)
(* the handlers of those that were have, nothing uses it any more,         *)
(* whatever the clients and further signals do until the process ends.     *)
(***************************************************************************)
THEOREM QuietShutdown == ServersSpec => [](Quiet => []NoUseAfterFree)
<1>1. ServersInit => Stopping
  BY DEF ServersInit, Init, Stopping
<1>2. Quiet => NoUseAfterFree
  BY DEF Quiet, NoUseAfterFree
<1> QED
  BY <1>1, <1>2, NextStopping, StaysQuiet, PTL DEF ServersSpec
=============================================================================
