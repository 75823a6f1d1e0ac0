-------------------------------- MODULE Servers --------------------------------
(***************************************************************************)
(* A server of the relay from its first bind to the end of the process:    *)
(* the listeners and sessions of tcpserver.c and udpserver.c, the          *)
(* connecting and destroying of server.c, and main.c with its libev loop,  *)
(* around the stats_server_t whose life HashRing describes.                *)
(*                                                                         *)
(* An iteration of the loop polls, which makes the watchers of all ready   *)
(* descriptors pending, and then calls the handlers of the pending ones,   *)
(* in any order here.  Stopping a watcher takes back its pending event;    *)
(* ev_break only keeps the loop from polling again.  No handler runs       *)
(* inside another.  The server of the other protocol is not modelled; it   *)
(* decides whether main goes on when this one cannot be bound.             *)
(***************************************************************************)
EXTENDS HashRing

CONSTANTS
    Clients,       \* each connects at most once
    Signals,       \* the signals that end the process
    MaxListeners,  \* MAX_TCP_HANDLERS, MAX_UDP_HANDLERS
    MaxAddrs,      \* bound: addresses getaddrinfo finds for a bind
    MaxFailures,   \* bound: calls that fail while connections are accepted
    BusyConfigs    \* bound: the shard maps with which traffic is explored

ASSUME ServersAssumption ==
    /\ MaxListeners \in Nat \ {0} /\ MaxAddrs \in Nat
    /\ MaxFailures \in Nat /\ BusyConfigs \subseteq Configs
    /\ Clients \cap (Signals \cup {"tcp", "udp"}) = {}
    /\ Signals \cap {"tcp", "udp"} = {}

VARIABLES
    binding,    \* "none", "tcp", "udp" (in tcpserver_bind, udpserver_bind), "bound", "failed"
    addrs,      \* the addresses it has still to bind
    listeners,  \* listeners_len of ts and us; their watchers are active
    loop,       \* "off", "polling", "invoking", "ended" or "crashed"
    pending,    \* watchers with a pending event
    raised,     \* signals that have arrived and are not handled
    datagram,   \* the udp socket is readable
    sock,       \* of each client, its connection: "none", "queued", "accepted" or "closed"
    unread,     \* it has sent bytes that were not received
    eof,        \* it has closed its side
    watched,    \* clients whose tcpsession_t has an active watcher
    ctx,        \* of each client its stats_session_t: "null", "alive" or "freed"
    orphans,    \* tcpsession_t objects without a connection that nobody frees
    failures,   \* history: the calls that failed so far
    freedUse    \* history: a handler has used the stats_server_t after its release

bindVars == <<binding, addrs, listeners>>
clientVars == <<sock, unread, eof>>
sessionVars == <<watched, ctx, orphans, failures>>
serverVars == <<vars, bindVars, loop, pending, raised, datagram, clientVars,
                sessionVars, freedUse>>

Watchers == Clients \cup Signals \cup {"tcp", "udp"}

ServersInit ==
    /\ Init
    /\ binding = "none"
    /\ addrs = 0
    /\ listeners = [p \in {"tcp", "udp"} |-> 0]
    /\ loop = "off"
    /\ pending = {}
    /\ raised = {}
    /\ datagram = FALSE
    /\ sock = [c \in Clients |-> "none"]
    /\ unread = [c \in Clients |-> FALSE]
    /\ eof = [c \in Clients |-> FALSE]
    /\ watched = {}
    /\ ctx = [c \in Clients |-> "null"]
    /\ orphans = 0
    /\ failures = 0
    /\ freedUse = FALSE

-----------------------------------------------------------------------------
(***************************************************************************)
(* connect_server: the ring is loaded, then both sockets are bound.        *)
(***************************************************************************)
LoadRing ==
    /\ AddShard \/ AllocFails \/ ExpandFails \/ Loaded
    /\ UNCHANGED <<bindVars, loop, pending, raised, datagram, clientVars,
                   sessionVars, freedUse>>

InConnectServer ==
    /\ stage = "running" /\ loop = "off"
    /\ UNCHANGED <<vars, loop, pending, raised, datagram, clientVars, sessionVars, freedUse>>

(* tcpserver_bind finds n addresses; none if there is no port or no such   *)
(* host, and the bind fails.                                               *)
ResolveTcp(n) ==
    /\ InConnectServer
    /\ server = "up" /\ binding = "none"
    /\ binding' = IF n = 0 THEN "failed" ELSE "tcp"
    /\ addrs' = n
    /\ UNCHANGED listeners

(* When it has returned 0, udpserver_bind does the same. *)
ResolveUdp(n) ==
    /\ InConnectServer
    /\ binding = "tcp" /\ addrs = 0
    /\ binding' = IF n = 0 THEN "failed" ELSE "udp"
    /\ addrs' = n
    /\ UNCHANGED listeners

(* Mutant of NoRoom: an off-by-one in the limit of the array. *)
NoRoomForTwo(p) == listeners[p] > MaxListeners

NoRoom(p) == listeners[p] >= MaxListeners

(* A listener, started, or NULL if a call fails on the way. *)
tcplistener_create ==
    \/ listeners' = [listeners EXCEPT !["tcp"] = @ + 1]
    \/ UNCHANGED listeners
udplistener_create ==
    \/ listeners' = [listeners EXCEPT !["udp"] = @ + 1]
    \/ UNCHANGED listeners

(* No room for one more listener ends the bind. *)
TooMany(p) ==
    /\ NoRoom(p)
    /\ binding' = "failed" /\ addrs' = 0
    /\ UNCHANGED listeners

(* An iteration of their loops over the addresses: a listener that cannot  *)
(* be created is passed over.                                              *)
tcpserver_bind ==
    /\ InConnectServer
    /\ binding = "tcp" /\ addrs > 0
    /\ \/ TooMany("tcp")
       \/ /\ ~NoRoom("tcp") /\ tcplistener_create
          /\ addrs' = addrs - 1 /\ UNCHANGED binding
udpserver_bind ==
    /\ InConnectServer
    /\ binding = "udp" /\ addrs > 0
    /\ \/ TooMany("udp")
       \/ /\ ~NoRoom("udp") /\ udplistener_create
          /\ addrs' = addrs - 1 /\ UNCHANGED binding

(* connect_server returns: true after the last address, even if none was   *)
(* bound, and false if there is no stats_server_t.                         *)
Connected ==
    /\ InConnectServer
    /\ \/ /\ binding = "udp" /\ addrs = 0
          /\ binding' = "bound"
       \/ /\ binding = "none" /\ server = "null"
          /\ binding' = "failed"
    /\ UNCHANGED <<addrs, listeners>>

(* ev_run, if this server or the one of the other protocol is connected. *)
StartLoop ==
    /\ stage = "running" /\ loop = "off"
    /\ binding \in {"bound", "failed"}
    /\ binding' = "none"                     \* main forgets the result
    /\ loop' = "polling"
    /\ UNCHANGED <<vars, addrs, listeners, pending, raised, datagram, clientVars,
                   sessionVars, freedUse>>

-----------------------------------------------------------------------------
(***************************************************************************)
(* External: the clients, the kernel and whoever sends signals.            *)
(***************************************************************************)
Outside ==
    /\ loop \in {"polling", "invoking"}
    /\ UNCHANGED <<vars, bindVars, loop, pending, sessionVars, freedUse>>

ClientConnects(c) ==
    /\ Outside
    /\ config \in BusyConfigs
    /\ listeners["tcp"] > 0 /\ sock[c] = "none"
    /\ sock' = [sock EXCEPT ![c] = "queued"]
    /\ UNCHANGED <<raised, datagram, unread, eof>>

ClientSends(c) ==
    /\ Outside
    /\ sock[c] \in {"queued", "accepted"} /\ ~eof[c]
    /\ unread' = [unread EXCEPT ![c] = TRUE]
    /\ UNCHANGED <<raised, datagram, sock, eof>>

ClientCloses(c) ==
    /\ Outside
    /\ sock[c] \in {"queued", "accepted"} /\ ~eof[c]
    /\ eof' = [eof EXCEPT ![c] = TRUE]
    /\ UNCHANGED <<raised, datagram, sock, unread>>

DatagramArrives ==
    /\ Outside
    /\ config \in BusyConfigs
    /\ listeners["udp"] > 0 /\ ~datagram
    /\ datagram' = TRUE
    /\ UNCHANGED <<raised, clientVars>>

SignalArrives(g) ==
    /\ Outside
    /\ g \notin raised
    /\ raised' = raised \cup {g}
    /\ UNCHANGED <<datagram, clientVars>>

-----------------------------------------------------------------------------
Ready ==
    {c \in watched : unread[c] \/ eof[c]}
    \cup raised
    \cup {p \in {"tcp"} : listeners[p] > 0 /\ \E c \in Clients : sock[c] = "queued"}
    \cup {p \in {"udp"} : listeners[p] > 0 /\ datagram}

Poll ==
    /\ loop = "polling"
    /\ Ready # {}
    /\ pending' = Ready
    /\ loop' = "invoking"
    /\ UNCHANGED <<vars, bindVars, raised, datagram, clientVars, sessionVars, freedUse>>

(* All pending handlers have run; ev_break was called by the signal's. *)
IterationEnds ==
    /\ loop = "invoking"
    /\ pending = {}
    /\ loop' = IF stage = "stopping" THEN "ended" ELSE "polling"
    /\ UNCHANGED <<vars, bindVars, pending, raised, datagram, clientVars,
                   sessionVars, freedUse>>

Invoked(w) ==
    /\ loop = "invoking"
    /\ w \in pending

Fail == failures < MaxFailures /\ failures' = failures + 1

(***************************************************************************)
(* tcplistener_accept_callback, for the connection of client c.            *)
(***************************************************************************)
Accepted(c) ==
    /\ sock' = [sock EXCEPT ![c] = "accepted"]
    /\ watched' = watched \cup {c}
    /\ ctx' = [ctx EXCEPT ![c] = "alive"]
    /\ UNCHANGED <<orphans, failures>>

(* No memory for the session: the connection stays where it is. *)
SessionNotCreated(c) ==
    /\ Fail
    /\ UNCHANGED <<sock, watched, ctx, orphans>>

(* accept fails, and the new session object is forgotten. *)
AcceptFails(c) ==
    /\ Fail
    /\ orphans' = orphans + 1
    /\ UNCHANGED <<sock, watched, ctx>>

(* fcntl fails: so are the object and its descriptor. *)
NonblockFails(c) ==
    /\ Fail
    /\ sock' = [sock EXCEPT ![c] = "accepted"]
    /\ UNCHANGED <<watched, ctx, orphans>>

(* stats_connection returns NULL, and the session is watched all the same. *)
NoContext(c) ==
    /\ Fail
    /\ sock' = [sock EXCEPT ![c] = "accepted"]
    /\ watched' = watched \cup {c}
    /\ UNCHANGED <<ctx, orphans>>

tcplistener_accept_callback ==
    /\ Invoked("tcp")
    /\ pending' = pending \ {"tcp"}
    /\ \E c \in Clients :
         /\ sock[c] = "queued"
         /\ \/ Accepted(c)
            \/ SessionNotCreated(c)
            \/ AcceptFails(c)
            \/ NonblockFails(c)
            \/ NoContext(c)
    /\ UNCHANGED <<vars, bindVars, loop, raised, datagram, unread, eof, freedUse>>

-----------------------------------------------------------------------------
(***************************************************************************)
(* tcpsession_recv_callback, by what stats_recv returns.                   *)
(***************************************************************************)
ServerFreed == server = "up" /\ ~initialized

(* Mutant of SessionEnds: the watcher is not stopped. *)
SessionEndsWatched(c) ==
    /\ ctx' = [ctx EXCEPT ![c] = "freed"]
    /\ sock' = [sock EXCEPT ![c] = "closed"]
    /\ UNCHANGED watched

(* stats_session_destroy and then tcpsession_destroy. *)
SessionEnds(c) ==
    /\ ctx' = [ctx EXCEPT ![c] = "freed"]
    /\ sock' = [sock EXCEPT ![c] = "closed"]
    /\ watched' = watched \ {c}

(* Bytes are received, counted in session->server and cut into lines. *)
ReceiveData(c) ==
    /\ ctx[c] = "alive" /\ unread[c]
    /\ unread' = [unread EXCEPT ![c] = FALSE]
    /\ freedUse' = (freedUse \/ ServerFreed)
    /\ \/ UNCHANGED <<sock, watched, ctx>>
       \/ SessionEnds(c)                      \* a line it cannot relay
    /\ UNCHANGED loop

(* Mutant of ReceiveEnd: an end of file is taken for nothing to read. *)
ReceiveEndIgnored(c) ==
    /\ ctx[c] = "alive"
    /\ UNCHANGED <<clientVars, watched, ctx, loop, freedUse>>

(* recv returns 0 or an error. *)
ReceiveEnd(c) ==
    /\ ctx[c] = "alive"
    /\ SessionEnds(c)
    /\ UNCHANGED <<unread, loop, freedUse>>

(* The context is NULL, or the released server does not look like one. *)
Crash(c) ==
    /\ ctx[c] = "null" \/ (unread[c] /\ ServerFreed)
    /\ loop' = "crashed"
    /\ freedUse' = (freedUse \/ ctx[c] # "null")
    /\ UNCHANGED <<clientVars, watched, ctx>>

tcpsession_recv_callback(c) ==
    /\ Invoked(c)
    /\ ReceiveData(c) \/ ReceiveEnd(c) \/ Crash(c)
    /\ pending' = pending \ {c}
    /\ UNCHANGED <<vars, bindVars, raised, datagram, eof, orphans, failures>>

(* udplistener_recv_callback: stats_udp_recv reads a datagram, or fails. *)
udplistener_recv_callback ==
    /\ Invoked("udp")
    /\ pending' = pending \ {"udp"}
    /\ datagram' = FALSE
    /\ freedUse' = (freedUse \/ ServerFreed)
    /\ UNCHANGED <<vars, bindVars, loop, raised, clientVars, sessionVars>>

(* Mutant of StopListeners: libev keeps the watchers of freed listeners. *)
ForgetListeners(g) ==
    /\ pending' = pending \ {g}
    /\ UNCHANGED listeners

(* Their listeners are stopped and freed; the descriptors stay open. *)
tcpserver_destroy(l) == [l EXCEPT !["tcp"] = 0]
udpserver_destroy(l) == [l EXCEPT !["udp"] = 0]

(* In the handler of signal g ev_io_stop takes back their pending events. *)
StopListeners(g) ==
    /\ pending' = pending \ {g, "tcp", "udp"}
    /\ listeners' = udpserver_destroy(tcpserver_destroy(listeners))

(* Mutant of SignalHandled: a signal is ignored while clients are there. *)
SignalIgnored(g) ==
    /\ Invoked(g)
    /\ raised' = raised \ {g}
    /\ IF watched # {} THEN pending' = pending \ {g} /\ UNCHANGED <<vars, listeners>>
                       ELSE graceful_shutdown /\ StopListeners(g)
    /\ UNCHANGED <<binding, addrs, loop, datagram, clientVars, sessionVars, freedUse>>

(* SIGINT or SIGTERM; the client sessions are left as they are. *)
SignalHandled(g) ==
    /\ Invoked(g)
    /\ graceful_shutdown
    /\ StopListeners(g)
    /\ raised' = raised \ {g}
    /\ UNCHANGED <<binding, addrs, loop, datagram, clientVars, sessionVars, freedUse>>

(* SIGHUP *)
ReloadSignal ==
    /\ loop = "invoking"
    /\ reload_config
    /\ UNCHANGED serverVars

(* The end of main, after the loop or because no server is connected. *)
Return ==
    /\ loop = "ended" \/ (loop = "off" /\ binding = "failed")
    /\ MainReturns
    /\ UNCHANGED <<bindVars, loop, pending, raised, datagram, clientVars,
                   sessionVars, freedUse>>

Over == (Exited \/ loop = "crashed") /\ UNCHANGED serverVars

Program ==
    \/ LoadRing
    \/ \E n \in 0..MaxAddrs : ResolveTcp(n) \/ ResolveUdp(n)
    \/ tcpserver_bind
    \/ udpserver_bind
    \/ Connected
    \/ StartLoop
    \/ Poll
    \/ IterationEnds
    \/ tcplistener_accept_callback
    \/ \E c \in Clients : tcpsession_recv_callback(c)
    \/ udplistener_recv_callback
    \/ \E g \in Signals : SignalHandled(g)
    \/ Return

ServersNext ==
    \/ Program
    \/ \E c \in Clients : ClientConnects(c) \/ ClientSends(c) \/ ClientCloses(c)
    \/ DatagramArrives
    \/ \E g \in Signals : SignalArrives(g)
    \/ ReloadSignal
    \/ Over

ServersSpec == ServersInit /\ [][ServersNext]_serverVars

(* The process is scheduled; clients and signals do as they like. *)
FairServersSpec == ServersSpec /\ WF_serverVars(Program)
-----------------------------------------------------------------------------
(* The arrays of listeners are never written past their end. *)
ServersTypeOK ==
    /\ binding \in {"none", "tcp", "udp", "bound", "failed"}
    /\ addrs \in 0..MaxAddrs
    /\ listeners \in [{"tcp", "udp"} -> 0..MaxListeners]
    /\ loop \in {"off", "polling", "invoking", "ended", "crashed"}
    /\ pending \subseteq Watchers
    /\ raised \subseteq Signals
    /\ datagram \in BOOLEAN
    /\ sock \in [Clients -> {"none", "queued", "accepted", "closed"}]
    /\ unread \in [Clients -> BOOLEAN] /\ eof \in [Clients -> BOOLEAN]
    /\ watched \subseteq Clients
    /\ ctx \in [Clients -> {"null", "alive", "freed"}]
    /\ orphans \in Nat /\ failures \in 0..MaxFailures
    /\ freedUse \in BOOLEAN

(***************************************************************************)
(* libev never holds the watcher of a session whose connection is closed   *)
(* or whose context is released, and what is accepted and not watched, or  *)
(* never accepted and not released, was lost to one failed call each: in   *)
(* a run without failures no descriptor and no session leaks.              *)
(***************************************************************************)
SessionsAccounted ==
    /\ \A c \in watched : sock[c] = "accepted" /\ ctx[c] # "freed"
    /\ pending \cap Clients \subseteq watched
    /\ orphans + Cardinality({c \in Clients \ watched : sock[c] = "accepted"}) <= failures

(***************************************************************************)
(* Once a signal has been handled no event is added and no connection is   *)
(* accepted: only what was pending beside the signal is still handled, and *)
(* of that nothing of the freed listeners.                                 *)
(***************************************************************************)
NothingNewAfterSignal ==
    [][~initialized /\ stage # "exited"
         => /\ pending' \subseteq pending \ {"tcp", "udp"}
            /\ watched' \subseteq watched]_serverVars

(***************************************************************************)
(* A connection does not wait in the listener's queue for ever, and the    *)
(* session of a client that has closed is ended, whatever the other        *)
(* clients do.                                                             *)
(***************************************************************************)
ProcessEnding == stage # "running" \/ loop = "crashed"

ClientsServed ==
    \A c \in Clients :
        /\ sock[c] = "queued" ~> sock[c] # "queued" \/ ProcessEnding
        /\ (c \in watched /\ eof[c]) ~> c \notin watched \/ ProcessEnding

(***************************************************************************)
(* SIGINT or SIGTERM ends the process, however busy its clients are.       *)
(***************************************************************************)
SignalsEndProcess == raised # {} ~> stage = "exited" \/ loop = "crashed"

(***************************************************************************)
(* The memory of the server is freed when nothing uses it any more.        *)
(***************************************************************************)
NoUseAfterFree == ~freedUse
=============================================================================
