------------------------------- MODULE MCServers -------------------------------
(***************************************************************************)
(* Servers for TLC: all shard maps of up to two shards on two addresses,   *)
(* with every way to write a protocol and shards that cannot be parsed,    *)
(* maps of up to four in which backends repeat, and two clients of a       *)
(* server with one shard.                                                  *)
(***************************************************************************)
EXTENDS Servers

CONSTANTS a1, a2, c1, c2, MaxShards, MaxRepeated

E(a, p) == [addr |-> a, proto |-> p]
Repeating == {E(a1, "none"), E(a1, "tcp"), E(a2, "udp")}
MCConfigs == UNION {[1..n -> Entries] : n \in 0..MaxShards}
                \cup UNION {[1..n -> Repeating] : n \in 0..MaxRepeated}
MCBusy == {<<E(a1, "none")>>}
=============================================================================
