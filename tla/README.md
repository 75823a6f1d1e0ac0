# A verification of statsrelay

statsrelay accepts metrics in the statsd and carbon line formats over TCP and
UDP, hashes the key of each line to a virtual shard, and relays the line to the
backend that owns the shard. It is one process with one thread: libev calls one
handler at a time, and everything that makes the program hard to test comes
from the order in which handlers run and from what system calls answer inside
them.

This directory holds TLA+ models of that program, TLC configurations that check
them on small instances, and TLAPS proofs for every instance. Paths below are
relative to the repository (`src/` here is the repository's root, so the C code
is in `src/src/`).

## 1. Inventory

| part | source | state | operations | talks to |
|---|---|---|---|---|
| backend connection | `tcpclient.c` | connection state, descriptor, resolved address, three io watchers with `started` flags, a timer, send queue, `failing`, `last_error` | connect, sendall, timeout, connected, read and write events, destroy | libev, sockets, DNS; called by `stats.c`; calls `stats_sent` back |
| backend object | `stats.c` | counters, `failing`, key | make, relay a line, sent callback, kill | owns a client; published by the status report |
| byte buffer | `buffer.c` | block, size, head, tail | init, newsize, expand, realign, produced, consume, destroy | send queue of a client, input of a session, status report |
| receiving side | `stats.c` | sessions and their buffers, global counters | connection, recv, process lines, relay line, udp recv | called by the listeners; calls validator, parser, ring, client |
| listeners | `tcpserver.c`, `udpserver.c` | listeners, sessions and their watchers | bind, accept, recv callbacks, destroy | libev; call `stats.c` |
| ring | `hashring.c`, `list.c` | list of backend pointers, one for each shard | load, add, choose, dealloc | `make_backend`, `kill_backend` |
| server lifecycle | `server.c`, `main.c` | the carbon and the statsd server, `initialized` | connect, destroy, signals, exit | all of the above |
| configuration | `yaml_config.c` | parser flags, two `proto_config` | parse, destroy | read at start-up by everything |
| line formats | `protocol.c`, `validate.c` | none | key of a line, validity of a line | called for every line |
| hash | `hashlib.c` | none | murmur3 modulo the ring size | called for every line |
| log, tools, sink | `log.c`, `stathasher.c`, `stresstest.c`, `py/carbonsink.py` | | | not part of the relaying |

What is hard, and what makes each part correct:

- **Connection.** Seven ways to lose a connection, each with its own list of
  watchers to stop and flags to reset. Correct means: the descriptor is open
  exactly while the state says so, libev watches exactly what the state waits
  for, a freed client is not watched, queued bytes always have somebody waiting
  to send them, and after an outage the client comes back.
- **Backend object.** Counters and a flag of their own beside the queue and the
  flag of the client. Correct means they agree with what was queued and sent,
  across partial sends, refusals and reconnects.
- **Buffer.** Pointers into a block that moves and grows, with allocations that
  fail half way. Correct means it is a byte queue.
- **Receiving side.** The byte stream is cut at arbitrary places, and lines are
  refused in the middle of a batch. Correct means lines are what the client
  wrote, in order, each on its backend.
- **Ring and lifecycle.** Shared objects, a load that fails half way, repeated
  destruction. Correct means shard *n* is line *n*, one object per backend,
  released once (which the code does not achieve for one object, see `HashRing`).
- **Listeners, sessions and the loop.** Each call on the way to a session may
  fail, and a signal destroys the servers between handlers that are already due.
  Correct means nothing is watched after its end or lost without a failure,
  clients are served, a signal ends the process, and nothing freed is used.
- **Status report.** A block that does not grow and a socket that does not
  block. Correct means whole lines, and all of them if they fit.
- **Configuration.** Flags carry the meaning of a key to a later event. Correct
  means a well-formed file is read as written and a wrong one refused.
- **Line formats.** Pointer arithmetic on texts of any shape. Correct means the
  validators accept their format and what is valid can be routed.

The hazards behind these properties are listed, line by line, under `hazards`
in `PROJECT.json`.

## 2. Modules

| module | models | proofs |
|---|---|---|
| `TcpClient` | `tcpclient.c`, one client | `TcpClientProofs` |
| `Backend` (extends `TcpClient`) | `stats_backend_t`: the counters around a client | `BackendProofs` |
| `Buffer`, with the abstract `ByteQueue` | `buffer.c`, as send queue and as session buffer | `BufferProofs` |
| `StatusReport` (extends `Buffer`) | `stats_send_statistics` | `BufferProofs` |
| `LineFormat` | `protocol.c`, `validate.c`, as operators on texts | `LineFormatProofs` |
| `Relay` (extends `LineFormat`) | the receiving side of `stats.c`, session callbacks | `RelayProofs` |
| `HashRing` | `hashring.c`, `list.c`, `make_backend`, the destruction in `server.c` | `HashRingProofs` |
| `Servers` (extends `HashRing`) | `tcpserver.c`, `udpserver.c`, `server.c`, the loop and the signals of `main.c` | `ServersProofs` |
| `YamlConfig` | `yaml_config.c` | `YamlConfigProofs` |
| `LineQueue` | abstract: what a backend is for `stats_relay_line` | `BackendProofs`, `RelayProofs` |
| `MC...` | the constants of the TLC runs | |

Definitions have the name of the function they model where there is one.
A definition whose comment starts with "Mutant of" is a deliberately wrong
variant of the definition that follows it; replacing the original by it must
break a property, which shows that the property is about that code. No
specification uses a mutant.

### TcpClient

`state`, `send_queue`, `failing` and `addr` are the fields of `tcpclient_t`.
`sd` says whether the descriptor of the client's last connection is open; `active` is libev's set of
active watchers and `started` the set of flags, which the code does not always
keep equal. `elapsed` is the time since `last_error`, up to the first value
that lets a retry happen. `phase` is where `make_backend` and `kill_backend`
have brought the object. `tcpclient_destroy` closes `client->sd` in every state
(`tcpclient.c:454`), also a number that an error path has closed before and that
the system may have given to somebody else since: descriptor numbers are not
modelled, so this second close is not visible, and `SocketMatchesState` is about
clients that are not destroyed yet. A byte is a pair of a line and a position, so that a
property can speak of the beginning of a line.

Each libev handler is one action whose guard is that its watcher is active
(`ev_io_stop` also clears a pending event). `tcpclient_connect(rc)` has a
disjunct per return code; `tcpclient_sendall(l, rc)` uses it the way the code
does, ignoring its result. A system call may fail only in a way that the
constant `Faults` allows and only while `net` is `"faulty"`; `Heal` ends that
for good, which is how the liveness properties say "once the network works".
A send on a udp socket takes the whole queue or fails if it is longer than
`MaxDatagram`.

### Backend

Superposes the counters of `stats_backend_t` on `TcpClient`, with two
histories: `accepted`, the bytes of the lines for which `tcpclient_sendall`
returned 0, and `taken`, the bytes `send()` took.

### Buffer and ByteQueue

The functions of `buffer.c` are operators on a record `[mem, size, head,
tail]`; offsets stand for pointers, `Junk` for memory nobody has written. The
actions are what `tcpclient_sendall` and `stats_recv` do with them; the variable
`user`, which never changes, says which of the two owns the buffer. The
refinement mapping to `ByteQueue` takes the queue to be the bytes between head
and tail.

### StatusReport

A third buffer, `response`, is filled line by line with `snprintf` and sent.
What the lines say is left out: a report is the sequence of their lengths.
`snprintf_produced` keeps what matters of the conversion: a line with room to
spare is stored, a line that just fits loses its newline to the terminating
NUL, and of a longer one nothing counts. A send takes any part of the rest, or
fails and ends the report. While a report is made the session's buffer, which
`Buffer` models, does not change: both are steps of one handler.

### LineFormat

A text is a sequence of characters. The validators follow the code's order of
searches; `IsStatsd` and `IsCarbon` are the formats, written as splits of the
text. `strtod` is external and reads an optional sign and point and a digit.

### Relay

Sessions are byte streams: `flight` is what the client wrote and `recv` has not
returned, `buffer` the session's buffer. Receiving takes any non-empty prefix of
`flight`. The loop over lines is one step per line; `running` names the handler
that is in its loop, and no other handler starts meanwhile. Each line has a
text, and what the validator and the parser of the server's protocol make of it
follows from `LineFormat`. The hash is any function. A backend is a queue of
bytes that takes a whole line while fewer bytes than `Limit` wait and refuses it
otherwise (what `BackendIsLineQueue` shows a client to be) or, if it is in
`Flaky`, for the other reasons of `tcpclient_sendall`. `written`, `handled` and
`relayed` are histories.

### HashRing

Loading is one step per shard. `made` and `frees` record each backend object
and how often `kill_backend` got it, `oom` whether a list ever failed to grow.
A `make_backend` that returns NULL has two forms: `NoObject` fails before there
is an object, `ObjectDropped` after it, in `tcpclient_init` or
`tcpclient_connect`. In the second case `make_err` (`stats.c:195`) frees the
strings only; the object is in no list and nobody releases it. `leaked` has these
objects. `ReleasedOnce` says that there is at most one, the last that was made,
that no server runs with it, and that all others are released exactly once by
the end of the process.
`reload_config` changes nothing because the global it tests is never assigned.
`graceful_shutdown` may run more than once.

`ShardsMatchConfig` is stated for all behaviours. `OneClientPerBackend` and
`ReleasedOnce` are stated for behaviours without `oom`: when a list cannot grow,
`make_backend` goes on with a backend the list does not hold, and
`hashring_dealloc` visits an element that was counted and never assigned. The
hazards list both.

### Servers

One server from `connect_server` to the end of `main`. Binding is one step per
address. The loop alternates between `Poll`, which makes the watchers of all
ready descriptors and signals `pending`, and the handlers of the pending ones,
in any order; stopping a watcher takes back its event, and `ev_break` (stage
`"stopping"`) only keeps the loop from polling again. For each client, `sock` is
its connection, `ctx` its `stats_session_t`, and it is in `watched` while its
`tcpsession_t` has an active watcher. The five outcomes of
`tcplistener_accept_callback` are actions of their own. What a session does with
its bytes is `Relay`'s subject; here it survives them or not. `freedUse` records
that a handler used the `stats_server_t` after its release.

Of the two servers one is modelled. The other one decides only whether `main`
goes on when this one is not connected, and both outcomes are possible.

### YamlConfig

The document is the environment's and grows by one event at a time; `path` is
where it is, `meant` what it has written down so far and `verdict` whether it is
`"plain"`, `"wrong"` or `"odd"` (the format says nothing). The parser's
variables are those of `parse_config`; `update` is the set of its `update_...`
flags. `ReadAsWritten` compares `config` with `meant` at every event of a plain
document. Odd are: an unknown option after `always_resolve_dns` (whose flag is
never reset), a `max_send_queue` that is no number (it becomes 0) or negative
(it is stored in an unsigned field and wraps, see `Setting`), a second
`shard_map` of a section, a scalar where a mapping belongs and the reverse.

## 3. Runs

| run | question | bounds |
|---|---|---|
| `backend` | do state, descriptor, watchers, flags and queue of a client fit together under all failures, and do counters and histories agree | two lines of 2 and 3 bytes, queue limit 4, six lines offered: the queue overshoots, sends stop inside a line |
| `tcpclient_live` | does a client come back, with its queue intact | all failures but two, see below |
| `buffer` | is the buffer a byte queue for both of its users, when does it grow, and what becomes of a status report that does not fit | blocks of 2, 4 and 8 bytes, chunks up to 5, so one append doubles twice; a report buffer of 6 bytes and four reports that fit, skip a line, or fill it exactly |
| `relay` | are lines cut and routed properly, and are the validators right | two clients with up to two lines each, of 2 and 3 bytes, two of them for one backend by different shards, one datagram of two lines, queue limits of 2 bytes; all texts of up to 5 of 9 characters, alone and after `x:1\|` |
| `servers` | is the ring built and released properly, are sessions accounted for, clients served and signals obeyed | shard maps of up to two shards over two addresses, up to four with repeated backends; two clients, two signals, one failing call while accepting, two addresses for one listener |
| `config` | is a file read as written or refused | documents of up to 16 events and 4 levels, with shards 0 and 1 and a negative number; 2^30 stands for 2^64 |

Bounds are in guards or constants and named: `MaxLines`, `MaxWritten`, `Typed`,
`MaxDatagrams`, `MaxAlloc`, `MaxText`, `MaxShards`, `MaxRepeated`, `MaxAddrs`,
`MaxFailures`, `BusyConfigs`, `MaxEvents`, `MaxNesting`, `ClockBound`. The queue
of `TcpClient` needs none: the limit of the code bounds it. Each bound lets the
interesting case happen at least once more than needed (a queue over its limit
with a second line refused, a block that doubles twice, three shards on one
backend and one on another, one address more than there is room for listeners).
`BusyConfigs` confines traffic to a server with one shard, since sessions never
look at the ring's shape. 16 events are enough for a section with two options, or
with a shard, and a second section with an option and its value or with a shard,
so that flags and shard numbers can leak from one into the other. The texts reach every branch of the
validators, the sample rate through the prefix. The two client sessions of
`relay` are symmetric: no definition tells them apart.

`CHECK_DEADLOCK FALSE` is set for `Relay`, whose clients may all have closed and
whose datagrams may be used up, and for `YamlConfig`, whose document may have
come to its end or its bound.

### Disagreements with the documentation

Six runs expect a violation. Each checks what the README or a comment says:

- `tcpclient_framing`: after a partial send and a reconnect the backend receives
  the end of a line as if it were a line. The theorem `UdpStartsAtLine` shows
  the same property to hold for udp.
- `tcpclient_no_traffic`: the connection is retried only when a further line for
  the backend arrives, not "after one second".
- `tcpclient_resolve`: with `always_resolve_dns`, one failed resolution is
  final, since `tcpclient_sendall` gives up before it reaches the reconnect.
- `tcpclient_big_datagram`: a udp queue that outgrows a datagram never drains.
- `relay_isolation`: a full backend costs other backends' lines of the same
  datagram.
- `servers_shutdown`: SIGINT and SIGTERM do not kill the client connections; a
  session whose bytes are due in the same iteration of the loop uses the server
  after it was freed.

Two more have no run. The end of the status output is not always "denoted by two
consecutive newlines" (README, line 89): a failed send drops the rest, and a
full buffer its last lines. And SIGHUP does nothing (`src/main.c:40` tests a global that
is never assigned), while the repository's README, line 80, says that the
configuration is reloaded and all backend connections are closed.

### Fairness

`LoopFairness` says that libev eventually reports a writable or connected
descriptor and an expired timer whose watcher stays active, and that time
passes: level-triggered polling guarantees this. `FairSpec` adds that lines for
the backend keep coming, which the program does not control; `Reconnects` and
`RecoversFromFullQueue` need it, and `tcpclient_no_traffic` shows what happens
without. `tcpclient_live` leaves out the failures `resolve` (it happens only at
start-up without `always_resolve_dns`) and `sockopt` (a failing `getsockopt`
leaves the client CONNECTING without watchers; see the hazards).
`FairServersSpec` says that the process goes on as long as one of its steps is
possible (weak fairness of `Program` as a whole): it is scheduled, and the loop
calls everything that is pending before it polls again, which is what makes
`ClientsServed` and `SignalsEndProcess` hold against busy clients. Nothing is
assumed of clients and signals.

## 4. Proofs

Every invariant and every safety action property that a run checks is also a
theorem. The theorems hold for every value of the constants that the named
assumptions of the modules allow: any set of lines of any length up to
`MaxLine`, any queue limit, any set of failures, any block size, any ring and
hash, any configuration and any document.

**TcpClientProofs.** The inductive invariant `IInv` has two parts. `ConnInv`
ties state, descriptor, watchers and flags together: besides the properties
themselves it says that outside CONNECTING and CONNECTED no watcher is active,
which is what makes the paths that stop only some watchers safe, and that an
active io watcher has its flag set, without which `tcpclient_destroy` could not
be shown to stop it. `QueueInv` bounds the queue and ties `failing` and the
write watcher to it. `InitIInv` and `NextIInv` (one step per action, the
outcomes of `tcpclient_connect` as lemmas of their own) give `Inductive`; the
seven listed theorems follow from it, `QueueKept` as an action property.
`UdpStartsAtLine` needs one more invariant: the queue of a udp client always
starts at the beginning of a line, because a send empties it or fails.

Three of the violations are explained by theorems, and bounded by others.
`TooBigForGood`: once the queue of a udp client exceeds a datagram it does so
until the client is destroyed (and `NeverTooBig`: not at all if the limit plus
one line is below that size). `UnresolvedForGood`: a client that has lost its
address is in BACKOFF for the rest of its life (and `AddressKept`: it can lose
it only with `always_resolve_dns` and a failed resolution). `OnlyTrafficRetries`:
nothing but a further line ends BACKOFF. The first two are stable predicates,
`[](P => []Q)`: their stability is proved step by step from `IInv`, and for the
second that a live client without address is in BACKOFF, where no watcher is
active and `tcpclient_sendall` returns before it reaches `tcpclient_connect`.

`SendQueueUse` shows that the client stays within the interface `ByteQueue`,
which `BufferRefinesQueue` shows `buffer.c` to implement: here a sequence of
bytes may stand for the buffer.

**BackendProofs.** `BackendRefinesClient` shows that adding the counters
restricts nothing: each step is a step of `TcpClient` or a stutter. So all
theorems about the client hold of a backend, and `NeverLost`, `CountersCorrect`
and `FailureReported` are proved on top of `Inductive`.

`BackendIsLineQueue` shows that a backend is what `Relay` takes it to be, a
`LineQueue`, for every `max_send_queue` and lines of any lengths. The mapping is
the length of the send queue and the two counters of lines. Every step of
`Backend` has to be one of the queue's: a line that is accepted goes in whole and
only below the limit, one that is refused changes nothing but its counter, and
all the ways a connection takes bytes or the client drops its queue are
`Drain`. That a refusal below the limit has one of the two causes `MayRefuse`
names uses `AddressKept`.

**BufferProofs.** `BufferInBounds` is inductive as it stands once every chunk
that is stored is known to fit, which follows from the definition of the
expansion loop. `BufferRefinesQueue` needs in addition that the bytes between
head and tail are never `Junk`. `BufferGrowth` shows that a session, which
realigns before it asks for more, doubles its buffer only when it is full.

The lemmas on single functions are stated for blocks over any set of bytes
(`IsBlock`), so that they serve the block of the status report too.
`StatusRefinesBuffer` says that making a report leaves the session's buffer
alone, which carries the three theorems above over to `StatusSpec`, the
specification the run checks. `ReportInv` is about the bytes sent followed by
those still in the block, a sequence that `send()` does not change. Its
strengthening over `WholeLines` is that no byte of an unwritten line is there
and that a NUL is only ever the last byte of a full block: after a NUL no later
line fits. Its strengthening over `ReportComplete` is that the written part is
the first `next - 1` lines, or these alone already exceed the block.
`ReportWhole` and `ReportDelivered` follow, for every report.

**HashRingProofs.** `ShardsCorrect` is proved for every configuration and every
failure. Its invariant says that, as long as loading goes on, the ring has one
element per configuration line handled so far, each pointing to an existing
object whose key is the one its line names, and that the elements of
`backend_list` point to existing objects, which is what makes a shared backend
the right one. `RingTypeCorrect` adds that the array is grown before an element
is stored past its end (`Accounts`). `ClientsShared` and `NoDoubleRelease` need
`Ledger`: until a list fails to grow, objects, elements of `backend_list` and
keys correspond one to one, a ring in use holds every object, and each object
has been released once exactly when the ring has been, by its first shard and
by no other (`FirstUse`). The objects in `leaked` are outside these accounts:
none exists while the ring is loading or in use, and the one that a failed load
leaves is the last that was made.

**ServersProofs.** `ServersImplementRing` is a refinement with the identity as
mapping: each step of the loop, a listener or a client is a step of `HashRing`
or leaves it alone. `RingHoldsInServers` carries the four theorems over.
`ServersTypeCorrect` includes that the bind loop never writes past the array of
listeners. `SessionsCorrect` rests on `Sessions`: pending events of sessions
belong to watched ones, and every forgotten session or connection is paid for by
a failed call. `SignalStopsInput` rests on `Stopping`: once `initialized` is
cleared the loop does not poll again and the events of the listeners are gone.
`QuietShutdown` says when the use after free of run `servers_shutdown` cannot
happen: from a state on in which the server is freed and no event of a session
is pending. Only sessions whose event is pending beside the signal's use the
freed server.

**LineFormatProofs.** `ValidatorsRight` says that for a text of any length over
any characters the validators accept exactly their format. It follows the code:
each `memchr` finds the first occurrence (`MemchrFirst`), each number read is
the part of the text the grammar says (`NumberOfPart`), and the position after
the type is the one the grammar splits at (`TypeFoundSound` and
`TypeFoundComplete`). `ValidTextHasKey` says that what the statsd validator
accepts the parser finds a key in.

**RelayProofs.** `StreamCorrect` and `LinesCorrect` come from `StreamInv`, one
for each session: processed bytes, buffer and flight are consecutive parts of
what was written, what is left of it starts at the start of a line, with another
one after each newline (`Framed`), and a buffer with a complete line belongs to
the handler that is running. `RoutingCorrect` adds, per
session and backend, that the selections of the two histories agree line by line
(`Match`); appending to a history appends at most one element to its selection
(`SelectionDef`). `RelayTypeCorrect` bounds the queues of the backends.
`ValidatorsCorrect` and `ValidCorrect` apply `LineFormatProofs` to the texts of
the run, and `NothingMalformed` shows a consequence for operators: with
validation on, a statsd server's counter of malformed lines stays 0, since the
validator refuses those lines earlier and counts them nowhere.

`SessionBufferUse` is for sessions what `SendQueueUse` is for clients; it needs
that the loop over lines never runs for a destroyed session (`ServesOpen`).
`BackendsAreLineQueues` is the other half of `BackendIsLineQueue`: each backend
of the relay is used as a `LineQueue`, whoever feeds it. `OneBackendIndependent` gives
a condition under which `BackendsIndependent`, which run `relay_isolation`
refutes, does hold: the lines of each datagram go to one backend, and backends
refuse lines only at their limit.

**YamlConfigProofs.** The invariant is `TypeOK`, `Nesting` (the parser's depth
and its key-or-value flag are those of the document's path), `WrongRejected`,
and, for a plain document, `Flags`: the pending `update_...` flags other than
the sticky one are exactly the option whose value is due, the section is the one
the path names, and `shard_count` is one less than the number of shards read,
except between a shard's key and its value. `ConfigAsWritten` and
`WrongConfigRejected` follow for documents of any length.

Where a recursive function or a search is involved, the induction is done over
the set of the numbers with the property in question (`Induction`,
`SetInduction`), from the well-foundedness of the natural numbers in the
library.

Only model-checked: the liveness properties `Reconnects`,
`RecoversFromFullQueue`, `ClientsServed` and `SignalsEndProcess`, because fairness and `ENABLED` are out of this prover's
reach; and the six violations, which are counterexamples.

## 5. Assumptions and what is not modelled

- `libev` handlers run one at a time; a stopped watcher delivers nothing.
- `send()` returns an error on a broken connection: SIGPIPE is not modelled.
- Counters do not wrap at 2^64.
- Texts have no NUL in them: `validate_stat` works on a `strndup` copy that would
  end there, with the length of the whole line.
- A descriptor number that is closed twice (see `TcpClient`).
- Lines and keys fit the fixed buffers of `stats.c`.
- `malloc` calls whose result the code does not look at succeed
  (`tcpserver_create`, the listeners, the header of the report's buffer).
- The carbon and the statsd server are not modelled side by side: they share
  the loop, the log and nothing else.
- Documents with mappings as keys.
- The command line options of `main`, with the check of a configuration alone.
- `hashlib.c`: `Relay` holds for every hash, and no property depends on which
  one it is. `log.c` has no state that another part reads; its hazard is
  listed. `stathasher.c`, `stresstest.c` and the Python sink are not part of
  relaying.

## 6. Plan

Done: `TcpClient`, `Backend`, `Buffer`, `Relay`, `HashRing`, `YamlConfig`,
`Servers`, `LineFormat` and `StatusReport`, each with proofs of all the
invariants and safety action properties its runs check.

Proved in addition: for each of the six violations why it happens, or a
condition under which it cannot, or both (section 4); and that the parts fit
together at their interfaces, `ByteQueue` between `Buffer` and its two users and
`LineQueue` between `Relay` and `Backend`.

Left: a module that composes `Relay` with one `Backend` for each of its backends
as one specification, rather than through the interface.
