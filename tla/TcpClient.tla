------------------------------ MODULE TcpClient ------------------------------
(***************************************************************************)
(* The connection of statsrelay to one backend: src/src/tcpclient.c.       *)
(*                                                                         *)
(* A tcpclient_t is driven from two sides.  The relay calls                *)
(* tcpclient_sendall for every line whose key hashes to the backend, and   *)
(* libev calls the handler of every watcher the client has active.  The    *)
(* handlers run one at a time in one thread, so each is one action here;   *)
(* what is nondeterministic is which event comes next and what the system  *)
(* calls inside the handler answer.                                        *)
(*                                                                         *)
(* Data is kept to what the properties tell apart: a byte is a pair        *)
(* <<line, position>>, a descriptor is "none", "open" or "closed" (the     *)
(* number of a closed descriptor stays in client->sd), the resolved        *)
(* address is a Boolean, and the clock is the time since last_error.       *)
(***************************************************************************)
EXTENDS Integers, Sequences

CONSTANTS
    Lines,            \* the lines the relay hands to this client
    LineLen,          \* bytes of each line, its newline included
    MaxLine,          \* no line is longer than this
    MaxSendQueue,     \* config->max_send_queue
    RetryTimeout,     \* TCPCLIENT_RETRY_TIMEOUT
    Protocol,         \* "tcp" or "udp"
    MaxDatagram,      \* the largest payload send() accepts on a udp socket
    AlwaysResolveDns, \* config->always_resolve_dns
    Faults            \* the failures that can happen while the network is faulty

FaultKinds ==
    {"resolve", "socket", "nonblock", "connect", "timeout", "sockopt",
     "refused", "recv", "eof", "send", "nomem"}

ASSUME LineAssumption ==
    /\ MaxLine \in Nat \ {0}
    /\ LineLen \in [Lines -> 1..MaxLine]
ASSUME ConfigAssumption ==
    /\ MaxSendQueue \in Nat
    /\ RetryTimeout \in Nat
    /\ Protocol \in {"tcp", "udp"}
    /\ MaxDatagram \in Nat
    /\ AlwaysResolveDns \in BOOLEAN
ASSUME FaultAssumption == Faults \subseteq FaultKinds

VARIABLES
    state,       \* client->state
    sd,          \* what client->sd refers to
    addr,        \* client->addr # NULL
    active,      \* the watchers libev has active
    started,     \* the io_watcher_t whose started flag is true
    send_queue,  \* the bytes of client->send_queue
    failing,     \* client->failing
    elapsed,     \* time(NULL) - client->last_error, up to ClockBound
    phase,       \* where make_backend and kill_backend have brought the client
    net          \* external: whether system calls may still fail

connVars == <<state, sd, addr, active, started, elapsed>>
vars == <<connVars, send_queue, failing, phase, net>>

States == {"INIT", "CONNECTING", "BACKOFF", "CONNECTED"}
IoWatchers == {"connect", "read", "write"}
Watchers == IoWatchers \cup {"timeout"}
Phases == {"made", "live", "failed", "freed"}
ClockBound == RetryTimeout + 1
Byte == Lines \X (1..MaxLine)

Bytes(l) == [k \in 1..LineLen[l] |-> <<l, k>>]
Drop(s, n) == SubSeq(s, n + 1, Len(s))
QueueFull == Len(send_queue) >= MaxSendQueue
MayFail(kind) == net = "faulty" /\ kind \in Faults

-----------------------------------------------------------------------------
(* tcpclient_init, once its allocations have succeeded. *)
Init ==
    /\ state = "INIT"
    /\ sd = "none"
    /\ addr = FALSE
    /\ active = {}
    /\ started = {}
    /\ send_queue = <<>>
    /\ failing = FALSE
    /\ elapsed = ClockBound
    /\ phase = "made"
    /\ net = "faulty"

(* last_error = time(NULL) and tcpclient_set_state(client, STATE_BACKOFF). *)
EnterBackoff ==
    /\ state' = "BACKOFF"
    /\ elapsed' = 0

StopWatchers(ws) == active' = active \ ws

-----------------------------------------------------------------------------
(***************************************************************************)
(* tcpclient_connect, one disjunct per return code.                        *)
(***************************************************************************)
BackoffExpired == elapsed > RetryTimeout

MustResolve == AlwaysResolveDns \/ ~addr

(* "Already connected, do nothing", or the backoff has not expired. *)
ConnectNotNow(rc) ==
    /\ \/ rc = 1 /\ state \in {"CONNECTED", "CONNECTING"}
       \/ rc = 2 /\ state = "BACKOFF" /\ ~BackoffExpired
    /\ UNCHANGED connVars

ConnectFails(rc) ==
    /\ EnterBackoff
    /\ \/ /\ rc = 3                        \* getaddrinfo
          /\ MustResolve /\ MayFail("resolve")
          /\ addr' = FALSE
          /\ UNCHANGED <<sd, active, started>>
       \/ /\ rc = 4                        \* socket
          /\ MayFail("socket")
          /\ addr' = TRUE
          /\ UNCHANGED <<sd, active, started>>
       \/ /\ rc = 5                        \* fcntl
          /\ MayFail("nonblock")
          /\ addr' = TRUE
          /\ sd' = "closed"
          /\ UNCHANGED <<active, started>>
       \/ /\ rc = 6                        \* connect, watchers already started
          /\ MayFail("connect")
          /\ addr' = TRUE
          /\ sd' = "closed"
          /\ started' = started \cup {"connect"}
          /\ StopWatchers({"connect", "timeout"})

ConnectStarts ==
    /\ state' = "CONNECTING"
    /\ addr' = TRUE
    /\ sd' = "open"
    /\ started' = started \cup {"connect"}
    /\ active' = active \cup {"connect", "timeout"}
    /\ UNCHANGED elapsed

tcpclient_connect(rc) ==
    \/ ConnectNotNow(rc)
    \/ /\ state = "INIT" \/ (state = "BACKOFF" /\ BackoffExpired)
       /\ ConnectFails(rc) \/ (rc = 0 /\ ConnectStarts)

-----------------------------------------------------------------------------
(* make_backend: a client whose first connect fails is never used. *)
MakeBackend ==
    /\ phase = "made"
    /\ \E rc \in 0..6 :
          /\ tcpclient_connect(rc)
          /\ phase' = IF rc = 0 THEN "live" ELSE "failed"
    /\ UNCHANGED <<send_queue, failing, net>>

(***************************************************************************)
(* tcpclient_sendall(l), one disjunct per return code.  It first tries to  *)
(* reconnect, which does nothing while the client is connected.            *)
(***************************************************************************)
Reconnect == \E rc \in 0..6 : tcpclient_connect(rc)

(* Mutants of Enqueue: the write watcher is not started again, or only its *)
(* flag is forgotten.                                                      *)
EnqueueNoStart(l) ==
    /\ send_queue' = send_queue \o Bytes(l)
    /\ IF state = "CONNECTED" THEN UNCHANGED connVars ELSE Reconnect
    /\ UNCHANGED failing

EnqueueNoFlag(l) ==
    /\ send_queue' = send_queue \o Bytes(l)
    /\ IF state = "CONNECTED"
         THEN /\ active' = active \cup {"write"}
              /\ UNCHANGED <<state, sd, addr, started, elapsed>>
         ELSE Reconnect
    /\ UNCHANGED failing

(* Line l is appended; a connected client waits for writability again. *)
Enqueue(l) ==
    /\ send_queue' = send_queue \o Bytes(l)
    /\ IF state = "CONNECTED"
         THEN /\ active' = active \cup {"write"}
              /\ started' = started \cup {"write"}
              /\ UNCHANGED <<state, sd, addr, elapsed>>
         ELSE Reconnect
    /\ UNCHANGED failing

(* Mutant of tcpclient_sendall: the full queue is noticed before the       *)
(* reconnect is tried.                                                     *)
SendallFullFirst(l, rc) ==
    /\ phase = "live"
    /\ \/ /\ rc = 1
          /\ ~addr
          /\ UNCHANGED <<connVars, send_queue, failing>>
       \/ /\ rc = 2
          /\ addr /\ QueueFull
          /\ failing' = TRUE
          /\ UNCHANGED <<connVars, send_queue>>
       \/ /\ rc = 0
          /\ addr /\ ~QueueFull
          /\ Enqueue(l)
    /\ UNCHANGED <<phase, net>>

tcpclient_sendall(l, rc) ==
    /\ phase = "live"
    /\ \/ /\ rc = 1
          /\ ~addr
          /\ UNCHANGED <<connVars, send_queue, failing>>
       \/ /\ rc = 2
          /\ addr /\ QueueFull
          /\ Reconnect
          /\ failing' = TRUE
          /\ UNCHANGED send_queue
       \/ /\ rc = 4
          /\ addr /\ ~QueueFull /\ MayFail("nomem")
          /\ Reconnect
          /\ UNCHANGED <<send_queue, failing>>
       \/ /\ rc = 0
          /\ addr /\ ~QueueFull
          /\ Enqueue(l)
    /\ UNCHANGED <<phase, net>>

-----------------------------------------------------------------------------
(***************************************************************************)
(* The libev handlers.  A handler runs only while its watcher is active:   *)
(* ev_io_stop and ev_timer_stop also clear an event that is pending.       *)
(***************************************************************************)
Fires(w) == phase = "live" /\ w \in active

(* Mutant of tcpclient_connect_timeout: the state is left CONNECTING. *)
TimeoutNoBackoff ==
    /\ Fires("timeout") /\ MayFail("timeout")
    /\ StopWatchers({"timeout"} \cup ({"connect"} \cap started))
    /\ started' = started \ {"connect"}
    /\ sd' = "closed"
    /\ elapsed' = 0
    /\ UNCHANGED <<state, addr, send_queue, failing, phase, net>>

(* The timer does not repeat, so libev has stopped it when this runs. *)
tcpclient_connect_timeout ==
    /\ Fires("timeout") /\ MayFail("timeout")
    /\ StopWatchers({"timeout"} \cup ({"connect"} \cap started))
    /\ started' = started \ {"connect"}
    /\ sd' = "closed"
    /\ EnterBackoff
    /\ UNCHANGED <<addr, send_queue, failing, phase, net>>

(* Mutant of tcpclient_connected: the timer is not stopped. *)
ConnectedKeepsTimer ==
    /\ Fires("connect")
    /\ state' = "CONNECTED"
    /\ active' = (active \ {"connect"}) \cup {"read", "write"}
    /\ started' = started \cup {"read", "write"}
    /\ UNCHANGED <<sd, addr, elapsed, send_queue, failing, phase, net>>

(* Both connect watchers stop first; the connect flag is left set. *)
tcpclient_connected ==
    /\ Fires("connect")
    /\ \/ /\ MayFail("sockopt")            \* getsockopt itself fails
          /\ StopWatchers({"connect", "timeout"})
          /\ UNCHANGED <<state, sd, started, elapsed>>
       \/ /\ MayFail("refused")            \* SO_ERROR or EV_ERROR
          /\ StopWatchers({"connect", "timeout"})
          /\ sd' = "closed"
          /\ EnterBackoff
          /\ UNCHANGED started
       \/ /\ state' = "CONNECTED"
          /\ active' = (active \ {"connect", "timeout"}) \cup {"read", "write"}
          /\ started' = started \cup {"read", "write"}
          /\ UNCHANGED <<sd, elapsed>>
    /\ UNCHANGED <<addr, send_queue, failing, phase, net>>

(* Mutant of tcpclient_read_event: an orderly close is final. *)
ReadEofTerminates ==
    /\ Fires("read") /\ MayFail("eof")
    /\ StopWatchers({"read", "write"})
    /\ sd' = "closed"
    /\ state' = "TERMINATED"
    /\ elapsed' = 0
    /\ UNCHANGED <<addr, started, send_queue, failing, phase, net>>

(* An orderly close goes to INIT, an error to BACKOFF; data is discarded. *)
tcpclient_read_event ==
    /\ Fires("read")
    /\ \/ /\ MayFail("recv")
          /\ StopWatchers({"read", "write"} \cap started)
          /\ started' = started \ {"read", "write"}
          /\ sd' = "closed"
          /\ EnterBackoff
       \/ /\ MayFail("eof")
          /\ StopWatchers({"read", "write"})
          /\ sd' = "closed"
          /\ state' = "INIT"
          /\ elapsed' = 0
          /\ UNCHANGED started
       \/ UNCHANGED connVars
    /\ UNCHANGED <<addr, send_queue, failing, phase, net>>

(* How many bytes one send() of the whole queue may take. *)
SendSizes ==
    IF Protocol = "tcp" THEN 1..Len(send_queue)
                        ELSE {Len(send_queue)} \cap (1..MaxDatagram)

(* Mutants of SendError: the descriptor is not closed, or the queue is     *)
(* emptied.                                                                *)
SendErrorNoClose ==
    /\ send_queue # <<>>
    /\ MayFail("send") \/ SendSizes = {}
    /\ StopWatchers({"read", "write"})
    /\ EnterBackoff
    /\ UNCHANGED <<sd, started, send_queue, failing>>

SendErrorDropsQueue ==
    /\ send_queue # <<>>
    /\ MayFail("send") \/ SendSizes = {}
    /\ StopWatchers({"read", "write"})
    /\ sd' = "closed"
    /\ EnterBackoff
    /\ send_queue' = <<>>
    /\ UNCHANGED <<started, failing>>

(* send() failed; the queue is kept. *)
SendError ==
    /\ send_queue # <<>>
    /\ MayFail("send") \/ SendSizes = {}
    /\ StopWatchers({"read", "write"})
    /\ sd' = "closed"
    /\ EnterBackoff
    /\ UNCHANGED <<started, send_queue, failing>>

(* Mutant of SendOk: failing is never reset. *)
SendOkStaysFailing(n) ==
    /\ n \in SendSizes
    /\ send_queue' = Drop(send_queue, n)
    /\ IF send_queue' = <<>>
         THEN /\ StopWatchers({"write"})
              /\ started' = started \ {"write"}
         ELSE UNCHANGED <<active, started>>
    /\ UNCHANGED <<state, sd, elapsed, failing>>

(* send() took the first n bytes. *)
SendOk(n) ==
    /\ n \in SendSizes
    /\ send_queue' = Drop(send_queue, n)
    /\ failing' = (failing /\ Len(send_queue') >= MaxSendQueue)
    /\ IF send_queue' = <<>>
         THEN /\ StopWatchers({"write"})
              /\ started' = started \ {"write"}
         ELSE UNCHANGED <<active, started>>
    /\ UNCHANGED <<state, sd, elapsed>>

(* Nothing to send: stop waiting for writability. *)
NothingToSend ==
    /\ send_queue = <<>>
    /\ StopWatchers({"write"})
    /\ started' = started \ {"write"}
    /\ UNCHANGED <<state, sd, elapsed, send_queue, failing>>

tcpclient_write_event ==
    /\ Fires("write")
    /\ \/ SendError
       \/ \E n \in 1..Len(send_queue) : SendOk(n)
       \/ NothingToSend
    /\ UNCHANGED <<addr, phase, net>>

-----------------------------------------------------------------------------
(* kill_backend calls this; only watchers whose flag is set are stopped.   *)
(* It closes sd whatever the state, also the number of a descriptor that   *)
(* was closed before (after an error or a timeout): sd says whether the    *)
(* client's own descriptor is open, not who may have that number by then.  *)
tcpclient_destroy ==
    /\ phase = "live"
    /\ StopWatchers({"timeout"} \cup started)
    /\ started' = {}
    /\ sd' = IF sd = "none" THEN "none" ELSE "closed"
    /\ addr' = FALSE
    /\ send_queue' = <<>>
    /\ phase' = "freed"
    /\ UNCHANGED <<state, failing, elapsed, net>>

(* External: a second of wall-clock time passes. *)
Tick ==
    /\ phase = "live"
    /\ elapsed < ClockBound
    /\ elapsed' = elapsed + 1
    /\ UNCHANGED <<state, sd, addr, active, started, send_queue, failing, phase, net>>

(* External: from here on no system call fails and the peer stays up. *)
Heal ==
    /\ net = "faulty"
    /\ net' = "healthy"
    /\ UNCHANGED <<connVars, send_queue, failing, phase>>

(* The client is gone: nothing is left to do. *)
Finished ==
    /\ phase \in {"failed", "freed"}
    /\ UNCHANGED vars

Traffic == \E l \in Lines, rc \in 0..4 : tcpclient_sendall(l, rc)

Next ==
    \/ MakeBackend
    \/ Traffic
    \/ tcpclient_connect_timeout
    \/ tcpclient_connected
    \/ tcpclient_read_event
    \/ tcpclient_write_event
    \/ tcpclient_destroy
    \/ Tick
    \/ Heal
    \/ Finished

Spec == Init /\ [][Next]_vars

(***************************************************************************)
(* Fairness.  libev reports every ready descriptor and every timer that    *)
(* runs out, and the clock advances.  Lines for the backend keep coming    *)
(* only where a property says so.                                          *)
(***************************************************************************)
LoopFairness ==
    /\ WF_vars(tcpclient_connect_timeout)
    /\ WF_vars(tcpclient_connected)
    /\ WF_vars(tcpclient_write_event)
    /\ WF_vars(Tick)

FairLoopSpec == Spec /\ LoopFairness
FairSpec == FairLoopSpec /\ WF_vars(Traffic)
-----------------------------------------------------------------------------
TypeOK ==
    /\ state \in States
    /\ sd \in {"none", "open", "closed"}
    /\ addr \in BOOLEAN
    /\ active \subseteq Watchers
    /\ started \subseteq IoWatchers
    /\ send_queue \in Seq(Byte)
    /\ failing \in BOOLEAN
    /\ elapsed \in 0..ClockBound
    /\ phase \in Phases
    /\ net \in {"faulty", "healthy"}

(***************************************************************************)
(* Every path that leaves CONNECTING or CONNECTED closes the descriptor    *)
(* and every path that keeps a descriptor open is in one of these states:  *)
(* reconnecting never overwrites an open client->sd (a leak), and no       *)
(* handler closes a number that was closed before (it may be another       *)
(* connection's by then).                                                  *)
(***************************************************************************)
SocketMatchesState ==
    phase # "freed" => (sd = "open" <=> state \in {"CONNECTING", "CONNECTED"})

(***************************************************************************)
(* libev watches the descriptor for exactly what the state is waiting for: *)
(* the connect watcher and its timer only while CONNECTING and always      *)
(* together, the read watcher whenever and only while CONNECTED.  So no    *)
(* handler ever runs in a state it was not written for, whatever error     *)
(* path was taken before.                                                  *)
(***************************************************************************)
WatchersMatchState ==
    /\ "connect" \in active <=> "timeout" \in active
    /\ "connect" \in active => state = "CONNECTING"
    /\ "write" \in active => "read" \in active
    /\ "read" \in active => state = "CONNECTED"
    /\ phase # "freed" /\ state = "CONNECTED" => "read" \in active

(***************************************************************************)
(* The started flags over-approximate the active watchers (several paths   *)
(* stop a watcher and leave its flag set), and so tcpclient_destroy, which *)
(* trusts the flags, never frees a client libev still points to.           *)
(***************************************************************************)
NoWatcherOfFreedClient ==
    /\ active \ {"timeout"} \subseteq started
    /\ phase \in {"made", "failed", "freed"} => active = {}

(***************************************************************************)
(* While connected, queued bytes always have a write watcher waiting to    *)
(* send them: stopping the watcher on an empty queue never loses the       *)
(* wake-up of a line that tcpclient_sendall adds.                          *)
(***************************************************************************)
NoLostWakeup ==
    phase = "live" /\ state = "CONNECTED" /\ send_queue # <<>> => "write" \in active

(***************************************************************************)
(* The queue exceeds max_send_queue by less than one line, and the failing *)
(* flag, which silences the log, is set only while the queue is at its     *)
(* limit.                                                                  *)
(***************************************************************************)
QueueLimit ==
    /\ Len(send_queue) < MaxSendQueue + MaxLine
    /\ failing /\ phase # "freed" => QueueFull

(***************************************************************************)
(* Every new connection starts at the first byte of a line: what a backend *)
(* receives is made of whole lines.                                        *)
(***************************************************************************)
ConnectionStartsAtLine ==
    [][state # "CONNECTED" /\ state' = "CONNECTED" /\ send_queue # <<>>
          => Head(send_queue)[2] = 1]_vars

(***************************************************************************)
(* Bytes leave the queue only through a connection, in order and from the  *)
(* front; a failed connection, a refused line and a retry leave them as    *)
(* they are (README: "the queue persists in memory").                      *)
(***************************************************************************)
QueueStep ==
    \/ UNCHANGED send_queue
    \/ \E l \in Lines : send_queue' = send_queue \o Bytes(l)
    \/ /\ state = "CONNECTED" /\ state' = "CONNECTED"
       /\ \E n \in 1..Len(send_queue) : send_queue' = Drop(send_queue, n)
    \/ phase' = "freed"

QueuePersists == [][QueueStep]_vars

(***************************************************************************)
(* Once the network heals, a client that keeps receiving lines gets        *)
(* connected for good, whatever failures came before.                      *)
(***************************************************************************)
Reconnects ==
    <>(net = "healthy") => <>[](state = "CONNECTED" \/ phase # "live")

(***************************************************************************)
(* Once the network heals, a full queue drains below its limit and the     *)
(* client stops dropping lines.                                            *)
(***************************************************************************)
RecoversFromFullQueue ==
    (net = "healthy" /\ phase = "live" /\ QueueFull)
        ~> (~QueueFull \/ phase # "live")

(***************************************************************************)
(* Queued lines do not wait in BACKOFF for ever.                           *)
(***************************************************************************)
QueuedLinesRetried ==
    (phase = "live" /\ state = "BACKOFF" /\ send_queue # <<>>)
        ~> (state # "BACKOFF" \/ phase # "live")
=============================================================================
