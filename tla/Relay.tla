-------------------------------- MODULE Relay --------------------------------
(***************************************************************************)
(* The receiving side of a stats_server_t (src/src/stats.c with the        *)
(* sessions of src/src/tcpserver.c): TCP sessions and UDP datagrams are    *)
(* cut into lines, and each line goes to the backend its key hashes to.    *)
(*                                                                         *)
(* A session is a byte stream that recv() delivers in pieces of any size.  *)
(* A byte is <<line, position>>, the last byte of a line is its newline.   *)
(* What validator and parser make of a line follows from its text, which   *)
(* has more characters than the model gives it bytes.  A backend is what   *)
(* Backend shows it to be for the relay: a queue of bytes that takes a     *)
(* line or, at its limit, refuses it.                                      *)
(*                                                                         *)
(* stats_recv and stats_udp_recv loop over the lines they hold.  Each      *)
(* iteration is a step, and no other handler runs while running # "idle".  *)
(***************************************************************************)
EXTENDS LineFormat

CONSTANTS
    Sessions,       \* the TCP clients
    Lines, Text,    \* the lines, and their texts
    LineLen,        \* and their bytes, the newline included
    Protocol,       \* of the server: "statsd" or "carbon"
    StatusLine,     \* the line "status"
    EnableValidation,
    Backends,
    Ring,           \* the hashring: a sequence of backends, repeats allowed
    Hash,           \* murmur3 of the key of each line
    Limit,          \* max_send_queue: bytes at which a backend refuses lines
    Flaky,          \* backends that may refuse a line before that (no address, no memory)
    Typed,          \* bound: the lines that TCP clients write
    MaxWritten,     \* bound: a client writes no line after this many bytes
    Datagrams,      \* the datagrams that can arrive, as sequences of lines
    MaxDatagrams    \* bound: datagrams received

(* The validator and the parser that connect_server_collection chooses. *)
validator(t) == IF Protocol = "statsd" THEN validate_statsd(t) ELSE validate_carbon(t)
parser(t) == IF Protocol = "statsd" THEN protocol_parser_statsd(t) ELSE protocol_parser_carbon(t)

Valid == {l \in Lines : validator(Text[l])}
Keyed == {l \in Lines : parser(Text[l]) > 0}

ASSUME RelayAssumption ==
    /\ LineLen \in [Lines -> Nat \ {0}]
    /\ Text \in [Lines -> Seq(STRING)]
    /\ Protocol \in {"statsd", "carbon"}
    /\ StatusLine \in Lines \ Keyed /\ Typed \subseteq Lines
    /\ EnableValidation \in BOOLEAN
    /\ Ring \in Seq(Backends) /\ Ring # <<>>
    /\ Hash \in [Lines -> Nat]
    /\ Limit \in Nat /\ Flaky \subseteq Backends
    /\ MaxWritten \in Nat /\ MaxDatagrams \in Nat
    /\ Datagrams \subseteq Seq(Lines)
    /\ "idle" \notin Sessions /\ "udp" \notin Sessions

VARIABLES
    conn,      \* of each session: "none", "open" or "closed"
    eof,       \* the client has closed its side
    flight,    \* bytes written by the client and not yet received
    buffer,    \* session->buffer
    running,   \* the handler that is running: a session, "udp" or "idle"
    dgram,     \* the lines of the datagram that are still to be processed
    backlog,   \* of each backend: bytes waiting in its send queue
    dropped,   \* of each backend: dropped_lines
    malformed_lines,
    bytes_recv_tcp, bytes_recv_udp, total_connections,
    received,  \* datagrams received so far
    written,   \* history: the bytes each client wrote
    handled,   \* history: the bytes of the lines processed of each session
    relayed    \* history: the lines queued for each backend, with their source

sessVars == <<conn, eof, flight, buffer, written, handled>>
sinkVars == <<backlog, relayed, dropped, malformed_lines>>
recvVars == <<bytes_recv_tcp, bytes_recv_udp, total_connections, received>>
vars == <<sessVars, sinkVars, recvVars, running, dgram>>

Byte == Lines \X Nat
Bytes(l) == [k \in 1..LineLen[l] |-> <<l, k>>]
IsNewline(byte) == byte[2] = LineLen[byte[1]]

(* memchr(head, '\n', datasize) *)
HasLine(bs) == \E i \in 1..Len(bs) : IsNewline(bs[i])
EndOfLine(bs) ==
    CHOOSE i \in 1..Len(bs) : IsNewline(bs[i]) /\ \A j \in 1..(i - 1) : ~IsNewline(bs[j])

hashring_choose(l) == Ring[(Hash[l] % Len(Ring)) + 1]

Init ==
    /\ conn = [s \in Sessions |-> "none"]
    /\ eof = [s \in Sessions |-> FALSE]
    /\ flight = [s \in Sessions |-> <<>>]
    /\ buffer = [s \in Sessions |-> <<>>]
    /\ running = "idle"
    /\ dgram = <<>>
    /\ backlog = [b \in Backends |-> 0]
    /\ relayed = [b \in Backends |-> <<>>]
    /\ dropped = [b \in Backends |-> 0]
    /\ malformed_lines = 0
    /\ written = [s \in Sessions |-> <<>>]
    /\ handled = [s \in Sessions |-> <<>>]
    /\ received = 0
    /\ bytes_recv_tcp = 0 /\ bytes_recv_udp = 0 /\ total_connections = 0

-----------------------------------------------------------------------------
(***************************************************************************)
(* stats_relay_line, by its result.                                        *)
(***************************************************************************)
PassesValidation(l) == EnableValidation => l \in Valid

(* Mutant of LineRelayed: a full queue takes one more line. *)
LineRelayedWhenFull(src, l) ==
    LET b == hashring_choose(l) IN
    /\ PassesValidation(l) /\ l \in Keyed
    /\ backlog[b] <= Limit
    /\ backlog' = [backlog EXCEPT ![b] = @ + LineLen[l]]
    /\ relayed' = [relayed EXCEPT ![b] = Append(@, <<src, l>>)]
    /\ UNCHANGED <<dropped, malformed_lines>>

(* Mutant of LineRelayed: the line goes before those that wait. *)
LineRelayedFirst(src, l) ==
    LET b == hashring_choose(l) IN
    /\ PassesValidation(l) /\ l \in Keyed
    /\ backlog[b] < Limit
    /\ backlog' = [backlog EXCEPT ![b] = @ + LineLen[l]]
    /\ relayed' = [relayed EXCEPT ![b] = <<<<src, l>>>> \o @]
    /\ UNCHANGED <<dropped, malformed_lines>>

(* Result 0: tcpclient_sendall queued the line. *)
LineRelayed(src, l) ==
    LET b == hashring_choose(l) IN
    /\ PassesValidation(l) /\ l \in Keyed
    /\ backlog[b] < Limit
    /\ backlog' = [backlog EXCEPT ![b] = @ + LineLen[l]]
    /\ relayed' = [relayed EXCEPT ![b] = Append(@, <<src, l>>)]
    /\ UNCHANGED <<dropped, malformed_lines>>

(* Result 2: the backend refused the line. *)
LineRefused(l) ==
    LET b == hashring_choose(l) IN
    /\ PassesValidation(l) /\ l \in Keyed
    /\ backlog[b] >= Limit \/ b \in Flaky
    /\ dropped' = [dropped EXCEPT ![b] = @ + 1]
    /\ UNCHANGED <<backlog, relayed, malformed_lines>>

(* Result 1: a line the validator refuses is not counted as malformed. *)
LineInvalid(l) ==
    /\ \/ /\ ~PassesValidation(l)
          /\ UNCHANGED malformed_lines
       \/ /\ PassesValidation(l) /\ l \notin Keyed
          /\ malformed_lines' = malformed_lines + 1
    /\ UNCHANGED <<backlog, relayed, dropped>>

-----------------------------------------------------------------------------
(* A client connects: tcplistener_accept_callback and stats_connection. *)
Accept(s) ==
    /\ running = "idle"
    /\ conn[s] = "none"
    /\ conn' = [conn EXCEPT ![s] = "open"]
    /\ total_connections' = total_connections + 1
    /\ UNCHANGED <<eof, flight, buffer, written, handled, sinkVars, running, dgram,
                   bytes_recv_tcp, bytes_recv_udp, received>>

(* External: the client writes line l. *)
ClientWrites(s, l) ==
    /\ running = "idle"
    /\ conn[s] = "open" /\ ~eof[s]
    /\ Len(written[s]) < MaxWritten
    /\ flight' = [flight EXCEPT ![s] = @ \o Bytes(l)]
    /\ written' = [written EXCEPT ![s] = @ \o Bytes(l)]
    /\ UNCHANGED <<conn, eof, buffer, handled, sinkVars, running, dgram, recvVars>>

(* External: the client closes; what it wrote can still be received. *)
ClientCloses(s) ==
    /\ running = "idle"
    /\ conn[s] = "open" /\ ~eof[s]
    /\ eof' = [eof EXCEPT ![s] = TRUE]
    /\ UNCHANGED <<conn, flight, buffer, written, handled, sinkVars, running, dgram, recvVars>>

(* stats_session_destroy and tcpsession_destroy: unread bytes are lost. *)
DestroySession(s) ==
    /\ conn' = [conn EXCEPT ![s] = "closed"]
    /\ buffer' = [buffer EXCEPT ![s] = <<>>]
    /\ flight' = [flight EXCEPT ![s] = <<>>]

(* stats_recv: recv returns 0. *)
RecvClosed(s) ==
    /\ running = "idle"
    /\ conn[s] = "open" /\ eof[s] /\ flight[s] = <<>>
    /\ DestroySession(s)
    /\ UNCHANGED <<eof, written, handled, sinkVars, running, dgram, recvVars>>

(* stats_recv: no memory for the buffer, or recv fails. *)
RecvFails(s) ==
    /\ running = "idle"
    /\ conn[s] = "open"
    /\ DestroySession(s)
    /\ UNCHANGED <<eof, written, handled, sinkVars, running, dgram, recvVars>>

(* stats_recv: recv returns the next n bytes; stats_process_lines starts. *)
RecvData(s, n) ==
    /\ running = "idle"
    /\ conn[s] = "open"
    /\ n \in 1..Len(flight[s])
    /\ buffer' = [buffer EXCEPT ![s] = @ \o SubSeq(flight[s], 1, n)]
    /\ flight' = [flight EXCEPT ![s] = SubSeq(@, n + 1, Len(@))]
    /\ bytes_recv_tcp' = bytes_recv_tcp + n
    /\ running' = s
    /\ UNCHANGED <<conn, eof, written, handled, sinkVars, dgram,
                   bytes_recv_udp, total_connections, received>>

(* Mutant of ConsumeLine: the newline is not consumed with its line. *)
ConsumeNoNewline(s) ==
    LET n == EndOfLine(buffer[s]) IN
    /\ buffer' = [buffer EXCEPT ![s] = SubSeq(@, n, Len(@))]
    /\ handled' = [handled EXCEPT ![s] = @ \o SubSeq(buffer[s], 1, n)]
    /\ UNCHANGED <<conn, eof, flight, written, running, dgram, recvVars>>

(* buffer_consume(&session->buffer, len + 1) *)
ConsumeLine(s) ==
    LET n == EndOfLine(buffer[s]) IN
    /\ buffer' = [buffer EXCEPT ![s] = SubSeq(@, n + 1, Len(@))]
    /\ handled' = [handled EXCEPT ![s] = @ \o SubSeq(buffer[s], 1, n)]
    /\ UNCHANGED <<conn, eof, flight, written, running, dgram, recvVars>>

(* One iteration of stats_process_lines. *)
ProcessLine(s) ==
    /\ running = s
    /\ HasLine(buffer[s])
    /\ \E l \in Lines :
         /\ SubSeq(buffer[s], 1, EndOfLine(buffer[s])) = Bytes(l)
         /\ \/ /\ l = StatusLine            \* stats_send_statistics
               /\ ConsumeLine(s)
               /\ UNCHANGED sinkVars
            \/ /\ LineRelayed(s, l)
               /\ ConsumeLine(s)
            \/ /\ l # StatusLine
               /\ LineRefused(l) \/ LineInvalid(l)
               /\ DestroySession(s)
               /\ running' = "idle"
               /\ UNCHANGED <<eof, written, handled, dgram, recvVars>>

(* Mutant of LinesDone: an if where the code has a loop. *)
LinesDoneEarly(s) ==
    /\ running = s
    /\ handled[s] # <<>> \/ ~HasLine(buffer[s])
    /\ running' = "idle"
    /\ UNCHANGED <<sessVars, sinkVars, dgram, recvVars>>

(* No newline is left in the buffer: stats_recv returns. *)
LinesDone(s) ==
    /\ running = s
    /\ ~HasLine(buffer[s])
    /\ running' = "idle"
    /\ UNCHANGED <<sessVars, sinkVars, dgram, recvVars>>

-----------------------------------------------------------------------------
(* What recvfrom returns: the number of bytes of all its lines. *)
DatagramLen(d) == Cardinality(UNION {{i} \X (1..LineLen[d[i]]) : i \in 1..Len(d)})

(* stats_udp_recv reads a datagram (a failed read changes nothing), *)
UdpRecv(d) ==
    /\ running = "idle"
    /\ received < MaxDatagrams
    /\ received' = received + 1
    /\ bytes_recv_udp' = bytes_recv_udp + DatagramLen(d)
    /\ running' = "udp"
    /\ dgram' = d
    /\ UNCHANGED <<sessVars, sinkVars, bytes_recv_tcp, total_connections>>

(* relays its lines one by one, and gives up at the first that fails. *)
UdpLine ==
    /\ running = "udp"
    /\ dgram # <<>>
    /\ \/ /\ LineRelayed("udp", Head(dgram))
          /\ dgram' = Tail(dgram)
          /\ UNCHANGED running
       \/ /\ LineRefused(Head(dgram)) \/ LineInvalid(Head(dgram))
          /\ dgram' = <<>>
          /\ running' = "idle"
    /\ UNCHANGED <<sessVars, recvVars>>

UdpDone ==
    /\ running = "udp"
    /\ dgram = <<>>
    /\ running' = "idle"
    /\ UNCHANGED <<sessVars, sinkVars, dgram, recvVars>>

(* External: a write event of backend b has sent n bytes. *)
Drain(b, n) ==
    /\ running = "idle"
    /\ backlog' = [backlog EXCEPT ![b] = @ - n]
    /\ UNCHANGED <<sessVars, relayed, dropped, malformed_lines, running, dgram, recvVars>>

Recv(s) == RecvClosed(s) \/ \E n \in 1..Len(flight[s]) : RecvData(s, n)

Handle ==
    \/ \E s \in Sessions : ProcessLine(s) \/ LinesDone(s)
    \/ UdpLine
    \/ UdpDone

Next ==
    \/ \E s \in Sessions :
          \/ Accept(s)
          \/ \E l \in Typed : ClientWrites(s, l)
          \/ ClientCloses(s)
          \/ Recv(s) \/ RecvFails(s)
    \/ \E d \in Datagrams : UdpRecv(d)
    \/ Handle
    \/ \E b \in Backends : \E n \in 1..backlog[b] : Drain(b, n)

Spec == Init /\ [][Next]_vars
-----------------------------------------------------------------------------
(* No queue is more than one line over its limit. *)
TypeOK ==
    /\ conn \in [Sessions -> {"none", "open", "closed"}]
    /\ eof \in [Sessions -> BOOLEAN]
    /\ flight \in [Sessions -> Seq(Byte)]
    /\ buffer \in [Sessions -> Seq(Byte)]
    /\ running \in Sessions \cup {"idle", "udp"}
    /\ dgram \in Seq(Lines)
    /\ backlog \in [Backends -> Nat]
    /\ \A b \in Backends : backlog[b] > 0 => \E l \in Lines : backlog[b] < Limit + LineLen[l]
    /\ dropped \in [Backends -> Nat]
    /\ malformed_lines \in Nat
    /\ received \in 0..MaxDatagrams
    /\ bytes_recv_tcp \in Nat /\ bytes_recv_udp \in Nat /\ total_connections \in Nat
    /\ written \in [Sessions -> Seq(Byte)]
    /\ handled \in [Sessions -> Seq(Byte)]
    /\ relayed \in [Backends -> Seq((Sessions \cup {"udp"}) \X Lines)]

(* The two invariants on texts are evaluated once, before any client came. *)
NothingReceived == total_connections = 0 /\ received = 0

(***************************************************************************)
(* The validators, which walk through a copy of the line with pointers and *)
(* remaining lengths, accept exactly the texts of the format, also at the  *)
(* edges: empty keys, values, types and rates, a line that ends at a       *)
(* separator, a type that is the beginning of another.                     *)
(***************************************************************************)
ValidatorsExact == NothingReceived => \A t \in Texts : Exact(t)

(***************************************************************************)
(* What the validator of statsd accepts has a key to be routed by, so that *)
(* with validation no line of statsd counts as malformed.  (A carbon line  *)
(* that starts with a space is valid and has no key.)                      *)
(***************************************************************************)
ValidHasKey ==
    NothingReceived =>
        \A t \in Texts : validate_statsd(t) => protocol_parser_statsd(t) > 0

(***************************************************************************)
(* However recv cuts the stream, the lines processed, the bytes buffered   *)
(* and the bytes still to be received are what the client wrote, and the   *)
(* buffer always starts with the first byte of a line: no line is split,   *)
(* joined with its neighbour, skipped or processed twice.                  *)
(***************************************************************************)
StreamIntact ==
    \A s \in Sessions : conn[s] = "open" =>
        /\ handled[s] \o buffer[s] \o flight[s] = written[s]
        /\ buffer[s] # <<>> => buffer[s][1][2] = 1

(***************************************************************************)
(* stats_recv never returns with a complete line in the buffer: a line is  *)
(* never held back until the client happens to send more.                  *)
(***************************************************************************)
NoLineHeldBack ==
    \A s \in Sessions : conn[s] = "open" /\ running # s => ~HasLine(buffer[s])

(***************************************************************************)
(* Every key keeps to one backend and every client's lines stay in order:  *)
(* what a backend is given from a session is exactly the session's         *)
(* processed lines whose key hashes to that backend, in their order.       *)
(***************************************************************************)
Selection(seq, S) ==
    LET w[i \in 0..Len(seq)] ==
          IF i = 0 THEN <<>>
          ELSE IF seq[i] \in S THEN Append(w[i - 1], seq[i])
          ELSE w[i - 1]
    IN  w
Where(seq, S) == Selection(seq, S)[Len(seq)]   \* its elements in S, in order

LinesFor(b) == {l \in Lines \ {StatusLine} : hashring_choose(l) = b}

FromSession(s, b) == Where(relayed[b], {s} \X Lines)
ForBackend(s, b) == Where(handled[s], {<<l, LineLen[l]>> : l \in LinesFor(b)})

RoutedInOrder ==
    \A s \in Sessions, b \in Backends :
        /\ Len(FromSession(s, b)) = Len(ForBackend(s, b))
        /\ \A i \in 1..Len(FromSession(s, b)) :
              FromSession(s, b)[i][2] = ForBackend(s, b)[i][1]

(***************************************************************************)
(* Each backend has its own send queue: when a full queue makes the relay  *)
(* drop a line of a datagram, no other line of it is lost whose own        *)
(* backend has room.                                                       *)
(***************************************************************************)
BackendsIndependent ==
    [][running = "udp" /\ dropped' # dropped
         => \A i \in 2..Len(dgram) :
              PassesValidation(dgram[i]) /\ dgram[i] \in Keyed
                => backlog[hashring_choose(dgram[i])] >= Limit]_vars
=============================================================================
