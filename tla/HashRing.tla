------------------------------- MODULE HashRing -------------------------------
(***************************************************************************)
(* The life of one stats_server_t and its ring of backends, from the       *)
(* configuration to the end of the process: connect_server (server.c),     *)
(* hashring_load_from_config (hashring.c) with the growing list of list.c, *)
(* make_backend and kill_backend (stats.c), and the signals and the exit   *)
(* of main.c.                                                              *)
(*                                                                         *)
(* A shard of the configuration names an address and possibly a protocol,  *)
(* or cannot be parsed.  A backend object is the number of its allocation, *)
(* also when make_backend fails after it: made[b] is its key and frees[b]  *)
(* how often kill_backend was given it.                                    *)
(***************************************************************************)
EXTENDS Integers, Sequences, FiniteSets

CONSTANTS
    Addresses,   \* the "host:port" parts of shards
    Malformed,   \* a shard without a colon
    Configs,     \* the shard maps a configuration may have
    Faults       \* what may fail: "connect", "nomem"

Entries == [addr : Addresses, proto : {"none", "tcp", "udp"}] \cup {Malformed}

ASSUME RingAssumption ==
    /\ Configs \subseteq Seq(Entries)
    /\ Malformed \notin [addr : Addresses, proto : {"none", "tcp", "udp"}]
    /\ Faults \subseteq {"connect", "nomem"}

VARIABLES
    config,       \* config->ring, the shards in order
    ring,         \* ring->backends: the backend of each shard
    allocated,    \* its allocated_size
    backend_list, \* server->backend_list
    made, frees,  \* of each backend object: its key, its deallocations
    server,       \* server->server: "null" or "up"
    initialized,  \* servers.initialized
    leaked,       \* history: objects that make_backend allocated and then dropped
    oom,          \* history: a list could not grow
    stage         \* "loading", "running", "stopping" (signal handled) or "exited"

ringVars == <<ring, allocated, backend_list, made, frees, leaked>>
vars == <<config, ringVars, server, initialized, oom, stage>>

Garbage == 0      \* what an element nobody has assigned points to
Objects == 1..Len(made)

Init ==
    /\ config \in Configs
    /\ ring = <<>>
    /\ allocated = 0
    /\ backend_list = <<>>
    /\ made = <<>>
    /\ frees = <<>>
    /\ leaked = {}
    /\ server = "null"
    /\ initialized = TRUE
    /\ oom = FALSE
    /\ stage = "loading"

-----------------------------------------------------------------------------
(* Mutant of full_key: the key is the text of the shard. *)
KeyAsWritten(e) == <<e.addr, e.proto>>

(* make_backend: the key is normalised to host:port:protocol. *)
full_key(e) == <<e.addr, IF e.proto = "none" THEN "tcp" ELSE e.proto>>

(* Mutant of find_backend: the protocol is not compared. *)
FindByAddress(key) ==
    {b \in {backend_list[i] : i \in 1..Len(backend_list)} : made[b][1] = key[1]}

find_backend(key) ==
    {b \in {backend_list[i] : i \in 1..Len(backend_list)} : made[b] = key}

(* make_backend returns backend object b: the one with this key, or a new  *)
(* one.  A failure of add_backend is ignored.  (Where it returns NULL: see *)
(* NoObject and ObjectDropped.)                                            *)
make_backend(e, b) ==
    LET key == full_key(e) IN
    \/ /\ b \in find_backend(key)
       /\ UNCHANGED <<backend_list, made>>
    \/ /\ find_backend(key) = {}
       /\ b = Len(made) + 1
       /\ made' = Append(made, key)
       /\ \/ backend_list' = Append(backend_list, b)
          \/ "nomem" \in Faults /\ UNCHANGED backend_list

(* frees, with an entry for an object that make_backend has just made *)
FreesOf(b) == IF b > Len(frees) THEN Append(frees, 0) ELSE frees

(* Mutant of hashring_dealloc: the objects of repeated shards repeat. *)
DeallocEveryShard(r, f) ==
    [b \in DOMAIN f |-> f[b] + Cardinality({i \in DOMAIN r : r[i] = b})]

(* hashring_dealloc: dealloc each element that equals no earlier one. *)
hashring_dealloc(r, f) ==
    [b \in DOMAIN f |->
        f[b] + Cardinality({i \in DOMAIN r :
                               r[i] = b /\ \A j \in 1..(i - 1) : r[j] # r[i]})]

(* Mutant of AllocatedFor: the list never grows after its first element. *)
AllocatedOnce(size) == 1

(* statsrelay_list_expand: the size of the array that holds size elements. *)
AllocatedFor(size) ==
    IF allocated >= size THEN allocated
    ELSE IF allocated = 0 THEN 1 ELSE 2 * allocated

Loading == stage = "loading" /\ Len(ring) < Len(config)
Shard == config[Len(ring) + 1]

(* hashring_add succeeds. *)
AddShard ==
    /\ Loading /\ Shard # Malformed
    /\ \E b \in 1..(Len(made) + 1) :
         /\ make_backend(Shard, b)
         /\ ring' = Append(ring, b)
         /\ frees' = FreesOf(b)
    /\ allocated' = AllocatedFor(Len(ring) + 1)
    /\ oom' = (oom \/ (made' # made /\ backend_list' = backend_list))
    /\ UNCHANGED <<config, leaked, server, initialized, stage>>

(* make_backend returns NULL before it has an object: the shard cannot be  *)
(* parsed, or there is no memory for its parts, its key or the object.     *)
NoObject ==
    /\ Shard = Malformed \/ "nomem" \in Faults
    /\ frees' = hashring_dealloc(ring, frees)
    /\ UNCHANGED <<made, leaked>>

(* It returns NULL because tcpclient_init has no memory or                 *)
(* tcpclient_connect fails: make_err frees the strings but not the object, *)
(* which is in no list.                                                    *)
ObjectDropped ==
    /\ Shard # Malformed /\ find_backend(full_key(Shard)) = {}
    /\ "connect" \in Faults \/ "nomem" \in Faults
    /\ made' = Append(made, full_key(Shard))
    /\ frees' = Append(hashring_dealloc(ring, frees), 0)
    /\ leaked' = leaked \cup {Len(made')}

(* hashring_add fails for want of an object: the ring and then the server  *)
(* are released, and the process goes on if the other protocol's server    *)
(* was created.                                                            *)
AllocFails ==
    /\ Loading
    /\ NoObject \/ ObjectDropped
    /\ ring' = <<>>
    /\ stage' = "running"
    /\ UNCHANGED <<config, allocated, backend_list, server, initialized, oom>>

(* statsrelay_list_expand returns NULL, with size already incremented: the *)
(* object is released, and so is everything the longer list holds.         *)
ExpandFails ==
    /\ Loading /\ Shard # Malformed
    /\ "nomem" \in Faults /\ allocated < Len(ring) + 1
    /\ \E b \in 1..(Len(made) + 1) :
         /\ make_backend(Shard, b)
         /\ frees' = hashring_dealloc(Append(ring, Garbage),
                                      [FreesOf(b) EXCEPT ![b] = @ + 1])
    /\ ring' = <<>>
    /\ stage' = "running"
    /\ oom' = TRUE
    /\ UNCHANGED <<config, allocated, leaked, server, initialized>>

(* connect_server has created the stats_server, or skips an empty ring. *)
Loaded ==
    /\ stage = "loading"
    /\ Len(ring) = Len(config)
    /\ server' = IF config = <<>> THEN "null" ELSE "up"
    /\ stage' = "running"
    /\ UNCHANGED <<config, ringVars, initialized, oom>>

(* SIGHUP: reload_config tests a global that nothing ever assigns, and so  *)
(* does nothing.                                                           *)
reload_config ==
    /\ stage = "running"
    /\ UNCHANGED vars

(* destroy_server, stats_server_destroy: frees afterwards. *)
destroy_server == IF server = "up" THEN hashring_dealloc(ring, frees) ELSE frees

(* Mutant of destroy_server_collection: initialized is not tested. *)
DestroyAlways == initialized' = FALSE /\ frees' = destroy_server

(* It does nothing the second time. *)
destroy_server_collection ==
    /\ initialized' = FALSE
    /\ frees' = IF initialized THEN destroy_server ELSE frees

(* SIGINT or SIGTERM, of which more than one may be pending. *)
graceful_shutdown ==
    /\ stage \in {"running", "stopping"}
    /\ destroy_server_collection
    /\ stage' = "stopping"
    /\ UNCHANGED <<config, ring, allocated, backend_list, made, leaked, server, oom>>

(* main after ev_run, or at once when no server could be created or bound. *)
MainReturns ==
    /\ stage \in {"running", "stopping"}
    /\ destroy_server_collection
    /\ stage' = "exited"
    /\ UNCHANGED <<config, ring, allocated, backend_list, made, leaked, server, oom>>

Exited == stage = "exited" /\ UNCHANGED vars

Next ==
    \/ AddShard
    \/ AllocFails
    \/ ExpandFails
    \/ Loaded
    \/ reload_config
    \/ graceful_shutdown
    \/ MainReturns
    \/ Exited

Spec == Init /\ [][Next]_vars
-----------------------------------------------------------------------------
(* The array of the ring is as long as the list that is stored in it. *)
TypeOK ==
    /\ config \in Seq(Entries)
    /\ made \in Seq(Addresses \X {"tcp", "udp"})
    /\ frees \in Seq(Nat) /\ Len(frees) = Len(made)
    /\ leaked \subseteq Objects
    /\ backend_list \in Seq(Objects)
    /\ ring \in Seq(Objects)
    /\ allocated \in Nat /\ Len(ring) <= allocated
    /\ server \in {"null", "up"}
    /\ initialized \in BOOLEAN /\ oom \in BOOLEAN
    /\ stage \in {"loading", "running", "stopping", "exited"}

(***************************************************************************)
(* Virtual shard n of a running server is the backend that line n of the   *)
(* shard map names, tcp unless it says udp: no shard is skipped, shifted   *)
(* or sent to another backend with the same address, even when allocations *)
(* fail on the way.                                                        *)
(***************************************************************************)
Names(e, key) ==
    /\ key[1] = e.addr
    /\ key[2] = "udp" <=> e.proto = "udp"

ShardsMatchConfig ==
    server = "up" =>
        /\ Len(ring) = Len(config)
        /\ \A i \in 1..Len(config) : Names(config[i], made[ring[i]])

(***************************************************************************)
(* All shards of a backend share one object, however its protocol is       *)
(* written, and so one connection, one queue and one set of counters; and  *)
(* the status report lists exactly the backends of the ring.  (A list that *)
(* cannot grow for want of memory breaks this, and the next one.)          *)
(***************************************************************************)
OneClientPerBackend ==
    server = "up" /\ ~oom =>
        /\ \A i, j \in 1..Len(config) :
              (\E b \in Objects : Names(config[i], made[b]) /\ Names(config[j], made[b]))
                 => ring[i] = ring[j]
        /\ \A b \in Objects :
              /\ \E i \in 1..Len(ring) : ring[i] = b
              /\ Cardinality({i \in 1..Len(backend_list) : backend_list[i] = b}) = 1

(***************************************************************************)
(* No backend is released twice, though shards share it, two signals and   *)
(* the end of main all destroy the servers and a failed load releases a    *)
(* partial ring; and when the process ends each has been released.  The    *)
(* one exception is the backend whose own make_backend failed after        *)
(* allocating it: it is never released.  There is at most one, the last    *)
(* that was made, and there is no server then.                             *)
(***************************************************************************)
ReleasedOnce ==
  /\ \A b \in leaked : b = Len(made) /\ server = "null"
  /\ ~oom =>
       /\ \A b \in Objects : frees[b] <= IF b \in leaked THEN 0 ELSE 1
       /\ stage = "exited" => \A b \in Objects \ leaked : frees[b] = 1
=============================================================================
