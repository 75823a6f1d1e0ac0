----------------------------- MODULE MCYamlConfig -----------------------------
(***************************************************************************)
(* YamlConfig for TLC: the words of the format, an unknown option and the  *)
(* numbers of two shards as keys; as values the booleans, two numbers, one *)
(* of them negative, and a text that is neither but names a section.       *)
(***************************************************************************)
EXTENDS YamlConfig

MCKeys == Protos \cup Options \cup {"shard_map", "other", "0", "1"}
MCValues == {"true", "false", "1", "-1", "statsd"}
MCNumberOf == [s \in Scalars |-> CASE s = "1" -> 1 [] s = "-1" -> -1 [] OTHER -> 0]
=============================================================================
