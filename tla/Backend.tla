------------------------------- MODULE Backend -------------------------------
(***************************************************************************)
(* A stats_backend_t (src/src/stats.c): a TcpClient with the counters that *)
(* the status report publishes.  stats_relay_line updates them around      *)
(* tcpclient_sendall and the stats_sent callback counts what each write    *)
(* event sent.  Two history variables record the byte streams the counters *)
(* are about: what was accepted from the relay and what the kernel took.   *)
(***************************************************************************)
EXTENDS TcpClient

CONSTANT MaxLines   \* bound: lines offered to the backend in one behaviour

ASSUME MaxLinesAssumption == MaxLines \in Nat

VARIABLES
    bytes_queued, bytes_sent, relayed_lines, dropped_lines,
    backend_failing,  \* backend->failing
    accepted,         \* history: the bytes of the lines accepted so far
    taken             \* history: the bytes send() took so far

counters == <<bytes_queued, bytes_sent, relayed_lines, dropped_lines,
              backend_failing, accepted, taken>>
backendVars == <<vars, counters>>

(* The counters make_backend sets once the first connect has succeeded. *)
BackendInit ==
    /\ Init
    /\ bytes_queued = 0
    /\ bytes_sent = 0
    /\ relayed_lines = 0
    /\ dropped_lines = 0
    /\ backend_failing = FALSE
    /\ accepted = <<>>
    /\ taken = <<>>

-----------------------------------------------------------------------------
(* The end of stats_relay_line when tcpclient_sendall returns 0. *)
LineAccepted(l) ==
    /\ tcpclient_sendall(l, 0)
    /\ backend_failing' = FALSE
    /\ bytes_queued' = bytes_queued + LineLen[l]
    /\ relayed_lines' = relayed_lines + 1
    /\ accepted' = accepted \o Bytes(l)
    /\ UNCHANGED <<bytes_sent, dropped_lines, taken>>

(* Mutant of LineDropped: backend->failing follows a later success only. *)
LineDroppedSilently(l) ==
    /\ \E rc \in 1..4 : tcpclient_sendall(l, rc)
    /\ dropped_lines' = dropped_lines + 1
    /\ UNCHANGED <<bytes_queued, bytes_sent, relayed_lines, backend_failing,
                   accepted, taken>>

(* The end of stats_relay_line when tcpclient_sendall fails. *)
LineDropped(l) ==
    /\ \E rc \in 1..4 : tcpclient_sendall(l, rc)
    /\ dropped_lines' = dropped_lines + 1
    /\ backend_failing' = TRUE
    /\ UNCHANGED <<bytes_queued, bytes_sent, relayed_lines, accepted, taken>>

RelayLine(l) ==
    /\ relayed_lines + dropped_lines < MaxLines
    /\ LineAccepted(l) \/ LineDropped(l)

(* Mutant of stats_sent: the length of the queue is added, not of the send. *)
SentWholeQueue(n) == bytes_sent' = bytes_sent + Len(send_queue)

(* callback_sent runs with the bytes the kernel took, before they are      *)
(* consumed from the queue.                                                *)
stats_sent(n) == bytes_sent' = bytes_sent + n

BytesSent(n) ==
    /\ SendOk(n)
    /\ stats_sent(n)
    /\ taken' = taken \o SubSeq(send_queue, 1, n)

(* tcpclient_write_event, which calls back only when send() took bytes. *)
WriteEvent ==
    /\ Fires("write")
    /\ \/ SendError /\ UNCHANGED <<bytes_sent, taken>>
       \/ \E n \in 1..Len(send_queue) : BytesSent(n)
       \/ NothingToSend /\ UNCHANGED <<bytes_sent, taken>>
    /\ UNCHANGED <<addr, phase, net>>
    /\ UNCHANGED <<bytes_queued, relayed_lines, dropped_lines, backend_failing,
                   accepted>>

(* The events of the client that reach no code of stats.c. *)
ClientEvent ==
    /\ \/ MakeBackend
       \/ tcpclient_connect_timeout
       \/ tcpclient_connected
       \/ tcpclient_read_event
       \/ Tick
       \/ Heal
       \/ Finished
    /\ UNCHANGED counters

kill_backend ==
    /\ tcpclient_destroy
    /\ UNCHANGED counters

BackendNext ==
    \/ \E l \in Lines : RelayLine(l)
    \/ WriteEvent
    \/ ClientEvent
    \/ kill_backend

BackendSpec == BackendInit /\ [][BackendNext]_backendVars

-----------------------------------------------------------------------------
BackendTypeOK ==
    /\ bytes_queued \in Nat /\ bytes_sent \in Nat
    /\ relayed_lines \in Nat /\ dropped_lines \in Nat
    /\ backend_failing \in BOOLEAN
    /\ accepted \in Seq(Byte) /\ taken \in Seq(Byte)

(***************************************************************************)
(* The backend is sent exactly what was accepted for it: across partial    *)
(* sends, failed connections and retries the bytes the kernel took,        *)
(* followed by the queue, are the accepted lines in order, with nothing    *)
(* lost, repeated or reordered.                                            *)
(***************************************************************************)
NothingLost == phase # "freed" => accepted = taken \o send_queue

(***************************************************************************)
(* The published counters add up: bytes_queued minus bytes_sent is what is *)
(* waiting in the queue, so that they are equal exactly when the queue has *)
(* drained (which the end-to-end tests wait for).                          *)
(***************************************************************************)
CountersAddUp ==
    /\ bytes_sent = Len(taken)
    /\ phase # "freed" => bytes_queued = bytes_sent + Len(send_queue)

(***************************************************************************)
(* The two failing flags, kept by two modules, agree in one direction: a   *)
(* client that gave up on a full queue is reported as failing until a line *)
(* is accepted again.                                                      *)
(***************************************************************************)
FailingReported == failing => backend_failing
=============================================================================
