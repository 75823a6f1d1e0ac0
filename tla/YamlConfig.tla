------------------------------ MODULE YamlConfig ------------------------------
(***************************************************************************)
(* parse_config (src/src/yaml_config.c): the configuration file, read as   *)
(* a stream of libyaml events by a loop that keeps a nesting depth and a   *)
(* few flags.                                                              *)
(*                                                                         *)
(* The document is the environment's.  It grows one event at a time, with  *)
(* the sequence of the keys its open mappings are at (path), the settings  *)
(* it writes down (meant) and a verdict on it: "plain" documents say what  *)
(* they mean, "wrong" ones break a rule of the format and on "odd" ones    *)
(* the format has nothing to say.  The parser sees the events only.        *)
(*                                                                         *)
(* Documents whose mapping keys are themselves mappings are left out.      *)
(***************************************************************************)
EXTENDS Integers, Sequences

CONSTANTS
    Keys, Values, \* the texts a document may have as keys and as values
    Numbers,      \* the ones strtol reads a number from
    NumberOf,     \* the number it reads, 0 for the others
    UintRange,    \* the values of a uint64_t: 2^64
    MaxEvents,    \* bound: events of a document
    MaxNesting    \* bound: depth of its mappings

Scalars == Keys \cup Values
Uint64 == 0..(UintRange - 1)
DefaultQueue == 134217728
Protos == {"carbon", "statsd"}
Booleans == {"validate", "tcp_cork", "always_resolve_dns"}
Options == {"bind", "max_send_queue"} \cup Booleans
NoKey == "-"      \* the pending key of a mapping that is about to have one

ASSUME YamlAssumption ==
    /\ NoKey \notin Scalars
    /\ Numbers \subseteq Scalars /\ NumberOf \in [Scalars -> Int]
    /\ \A s \in Scalars \ Numbers : NumberOf[s] = 0
    /\ UintRange \in Nat /\ DefaultQueue < UintRange
    /\ \A s \in Scalars : NumberOf[s] < UintRange
    /\ MaxEvents \in Nat /\ MaxNesting \in Nat

VARIABLES
    config,           \* what parse_config fills in, or NoConfig
    protoc,           \* the section it is in, "null" before the first
    map_nesting, is_key,
    update,           \* the options whose flag is set
    expect_shard_map, shard_count,
    stage,            \* "parsing", "done" or "failed"
    place,            \* of the document: "outside", "start", "inside" or "end"
    path, meant, verdict,
    resolveSeen,      \* the document has had the key always_resolve_dns
    events

flagVars == <<protoc, update, expect_shard_map, shard_count>>
parserVars == <<config, flagVars, map_nesting, is_key, stage>>
docVars == <<place, path, meant, verdict, resolveSeen, events>>
vars == <<parserVars, docVars>>

NoConfig == <<>>

(* init_proto_config *)
ProtoDefaults(bind) ==
    [initialized |-> FALSE, bind |-> bind, max_send_queue |-> DefaultQueue,
     validate |-> TRUE, tcp_cork |-> TRUE, always_resolve_dns |-> FALSE, ring |-> <<>>]

Defaults == [p \in Protos |->
                ProtoDefaults(IF p = "carbon" THEN "127.0.0.1:2003" ELSE "127.0.0.1:8125")]

Init ==
    /\ config = Defaults
    /\ protoc = "null"
    /\ map_nesting = 0
    /\ is_key = FALSE
    /\ update = {}
    /\ expect_shard_map = FALSE
    /\ shard_count = -1
    /\ stage = "parsing"
    /\ place = "outside"
    /\ path = <<>>
    /\ meant = Defaults
    /\ verdict = "plain"
    /\ resolveSeen = FALSE
    /\ events = 0

-----------------------------------------------------------------------------
(* Mutant of parse_err: the configuration read so far is returned. *)
ParseErrKeepsConfig == stage' = "failed" /\ UNCHANGED <<config, flagVars>>

(* parse_err: destroy_config and return NULL. *)
parse_err ==
    /\ stage' = "failed"
    /\ config' = NoConfig
    /\ UNCHANGED flagVars

(* set_boolean refuses every other text. *)
set_boolean(s) == s \in {"true", "false"}

(* What a setting becomes: a bool, a number (0 if the text is none, which  *)
(* is only logged; a long that is stored in a uint64_t, so that a negative *)
(* one wraps) or a copy of the text.                                       *)
Setting(option, s) ==
    IF option \in Booleans THEN s = "true"
    ELSE IF option = "max_send_queue" THEN NumberOf[s] % UintRange ELSE s

(* The flag that the chain of else-ifs finds. *)
Flagged ==
    CASE "bind" \in update           -> "bind"
      [] "max_send_queue" \in update -> "max_send_queue"
      [] "validate" \in update       -> "validate"
      [] "tcp_cork" \in update       -> "tcp_cork"
      [] OTHER                       -> "always_resolve_dns"

(* map_nesting 1: a section, whether the scalar is its key or not. *)
SectionScalar(s) ==
    \/ /\ s \in Protos
       /\ protoc' = s
       /\ config' = [config EXCEPT ![s].initialized = TRUE]
       /\ UNCHANGED <<update, expect_shard_map, shard_count, stage>>
    \/ s \notin Protos /\ parse_err

(* Mutant of OptionKey: the shards are not counted from 0 again. *)
OptionKeyNoReset(s) ==
    /\ update' = update \cup ({s} \cap Options)
    /\ expect_shard_map' = (expect_shard_map \/ s = "shard_map")
    /\ UNCHANGED <<config, protoc, shard_count, stage>>

(* map_nesting 2, a key: unknown ones are ignored. *)
OptionKey(s) ==
    /\ update' = update \cup ({s} \cap Options)
    /\ expect_shard_map' = (expect_shard_map \/ s = "shard_map")
    /\ shard_count' = IF s = "shard_map" THEN -1 ELSE shard_count
    /\ UNCHANGED <<config, protoc, stage>>

(* map_nesting 2, a value: the flag of always_resolve_dns stays set. *)
OptionValue(s) ==
    IF update = {} THEN UNCHANGED <<config, flagVars, stage>>
    ELSE \/ /\ Flagged \in Booleans => set_boolean(s)
            /\ config' = [config EXCEPT ![protoc][Flagged] = Setting(Flagged, s)]
            /\ update' = update \ ({Flagged} \ {"always_resolve_dns"})
            /\ UNCHANGED <<protoc, expect_shard_map, shard_count, stage>>
         \/ Flagged \in Booleans /\ ~set_boolean(s) /\ parse_err

(* Mutant of ShardKey: any number that is not smaller will do. *)
ShardKeyNotSmaller(s) ==
    \/ /\ s \in Numbers /\ NumberOf[s] >= shard_count + 1
       /\ shard_count' = shard_count + 1
       /\ UNCHANGED <<config, protoc, update, expect_shard_map, stage>>
    \/ /\ s \notin Numbers \/ NumberOf[s] < shard_count + 1
       /\ parse_err

(* map_nesting 3, a key: the number of the next shard. *)
ShardKey(s) ==
    \/ /\ s \in Numbers /\ NumberOf[s] = shard_count + 1
       /\ shard_count' = shard_count + 1
       /\ UNCHANGED <<config, protoc, update, expect_shard_map, stage>>
    \/ /\ s \notin Numbers \/ NumberOf[s] # shard_count + 1
       /\ parse_err

(* map_nesting 3, a value: statsrelay_list_expand and strdup. *)
ShardValue(s) ==
    /\ config' = [config EXCEPT ![protoc].ring = Append(@, s)]
    /\ UNCHANGED <<flagVars, stage>>

(* The switch on map_nesting; deeper scalars are ignored. *)
ReadByNesting(s) ==
    \/ map_nesting = 0 /\ parse_err
    \/ map_nesting = 1 /\ SectionScalar(s)
    \/ map_nesting = 2 /\ is_key /\ OptionKey(s)
    \/ map_nesting = 2 /\ ~is_key /\ OptionValue(s)
    \/ map_nesting = 3 /\ ~expect_shard_map /\ parse_err
    \/ map_nesting = 3 /\ expect_shard_map /\ is_key /\ ShardKey(s)
    \/ map_nesting = 3 /\ expect_shard_map /\ ~is_key /\ ShardValue(s)
    \/ /\ map_nesting > 3
       /\ UNCHANGED <<config, flagVars, stage>>

(* YAML_SCALAR_EVENT *)
ReadScalar(s) ==
    /\ ReadByNesting(s)
    /\ is_key' = ~is_key
    /\ UNCHANGED map_nesting

(* YAML_MAPPING_START_EVENT (n = 1) and YAML_MAPPING_END_EVENT (n = -1) *)
ReadMapping(n) ==
    /\ map_nesting' = map_nesting + n
    /\ is_key' = (is_key \/ n = 1)
    /\ UNCHANGED <<config, flagVars, stage>>

-----------------------------------------------------------------------------
(* The document, which is not the code's. *)
Depth == Len(path)
ExpectsKey == Depth > 0 /\ path[Depth] = NoKey
ExpectsValue == Depth > 0 /\ path[Depth] # NoKey
Section == meant[path[1]]

(* The verdict after one more thing, while it is still "plain". *)
Judge(v) == verdict' = IF verdict = "plain" THEN v ELSE verdict

(* External: a key. *)
DocKey(s) ==
    /\ ExpectsKey /\ s \in Keys
    /\ path' = [path EXCEPT ![Depth] = s]
    /\ Judge(CASE Depth = 1 -> IF s \in Protos THEN "plain" ELSE "wrong"
               [] Depth = 2 -> IF s = "shard_map" /\ Section.ring # <<>> THEN "odd" ELSE "plain"
               [] OTHER     -> IF s \in Numbers /\ NumberOf[s] = Len(Section.ring)
                               THEN "plain" ELSE "wrong")
    /\ meant' = IF Depth = 1 /\ verdict' = "plain"
                THEN [meant EXCEPT ![s].initialized = TRUE] ELSE meant
    /\ resolveSeen' = (resolveSeen \/ (Depth = 2 /\ s = "always_resolve_dns"))
    /\ UNCHANGED place

(* The verdict on a scalar s as the value of the option or shard at path. *)
ValueVerdict(s) ==
    LET key == path[2] IN
    IF Depth = 1 \/ (Depth = 2 /\ key = "shard_map") THEN "odd"
    ELSE IF Depth = 3 THEN "plain"
    ELSE IF key \in Booleans /\ s \notin {"true", "false"} THEN "wrong"
    ELSE IF key = "max_send_queue" /\ (s \notin Numbers \/ NumberOf[s] < 0) THEN "odd"
    ELSE IF key \notin Options /\ resolveSeen THEN "odd"
    ELSE "plain"

(* External: a scalar as a value. *)
DocValue(s) ==
    /\ ExpectsValue /\ s \in Values
    /\ path' = [path EXCEPT ![Depth] = NoKey]
    /\ Judge(ValueVerdict(s))
    /\ meant' =
         IF verdict' # "plain" THEN meant
         ELSE IF Depth = 3 THEN [meant EXCEPT ![path[1]].ring = Append(@, s)]
         ELSE IF path[2] = "bind" THEN [meant EXCEPT ![path[1]].bind = s]
         ELSE IF path[2] = "max_send_queue"
              THEN [meant EXCEPT ![path[1]].max_send_queue = NumberOf[s]]
         ELSE IF path[2] \in Booleans
              THEN [meant EXCEPT ![path[1]][path[2]] = (s = "true")]
         ELSE meant
    /\ UNCHANGED <<place, resolveSeen>>

(* External: a document that is just a scalar. *)
DocScalarOnly ==
    /\ place = "start"
    /\ place' = "end"
    /\ Judge("wrong")
    /\ UNCHANGED <<path, meant, resolveSeen>>

(* External: a mapping starts, as the document or as a value. *)
DocMappingStart ==
    /\ Depth < MaxNesting
    /\ place = "start" \/ ExpectsValue
    /\ place' = "inside"
    /\ path' = Append(path, NoKey)
    /\ Judge(IF Depth < 2 \/ (Depth = 2 /\ path[2] = "shard_map") THEN "plain" ELSE "odd")
    /\ UNCHANGED <<meant, resolveSeen>>

(* External: it ends, and with it the value it was. *)
DocMappingEnd ==
    /\ ExpectsKey
    /\ path' = IF Depth = 1 THEN <<>>
               ELSE [SubSeq(path, 1, Depth - 1) EXCEPT ![Depth - 1] = NoKey]
    /\ place' = IF Depth = 1 THEN "end" ELSE place
    /\ UNCHANGED <<meant, verdict, resolveSeen>>

-----------------------------------------------------------------------------
(* yaml_parser_parse returns the next event, and the loop handles it. *)
Event ==
    /\ stage = "parsing"
    /\ events < MaxEvents
    /\ events' = events + 1

Scalar(s) ==
    /\ Event
    /\ DocKey(s) \/ DocValue(s) \/ DocScalarOnly
    /\ ReadScalar(s)
MappingStart == Event /\ DocMappingStart /\ ReadMapping(1)
MappingEnd == Event /\ DocMappingEnd /\ ReadMapping(-1)

(* The documents of the stream; libyaml never nests them. *)
DocumentStart ==
    /\ Event
    /\ place = "outside" /\ place' = "start"
    /\ UNCHANGED <<parserVars, path, meant, verdict, resolveSeen>>
DocumentEnd ==
    /\ Event
    /\ place = "end" /\ place' = "outside"
    /\ UNCHANGED <<parserVars, path, meant, verdict, resolveSeen>>

(* A sequence or an alias where a value may be. *)
SequenceOrAlias ==
    /\ Event
    /\ place = "start" \/ ExpectsValue
    /\ parse_err
    /\ Judge("wrong")
    /\ UNCHANGED <<map_nesting, is_key, place, path, meant, resolveSeen>>

(* The file is not YAML or cannot be read, or memory runs out. *)
ReadFails ==
    /\ Event
    /\ parse_err
    /\ verdict' = "odd"
    /\ UNCHANGED <<map_nesting, is_key, place, path, meant, resolveSeen>>

StreamEnd ==
    /\ Event
    /\ place = "outside"
    /\ stage' = "done"
    /\ UNCHANGED <<config, flagVars, map_nesting, is_key, place, path, meant, verdict, resolveSeen>>

Next ==
    \/ \E s \in Scalars : Scalar(s)
    \/ MappingStart \/ MappingEnd
    \/ DocumentStart \/ DocumentEnd
    \/ SequenceOrAlias
    \/ ReadFails
    \/ StreamEnd

Spec == Init /\ [][Next]_vars
-----------------------------------------------------------------------------
ProtoConfigs ==
    [initialized : BOOLEAN, bind : Scalars \cup {"127.0.0.1:2003", "127.0.0.1:8125"},
     max_send_queue : Uint64, validate : BOOLEAN, tcp_cork : BOOLEAN,
     always_resolve_dns : BOOLEAN, ring : Seq(Scalars)]

TypeOK ==
    /\ config \in [Protos -> ProtoConfigs] \cup {NoConfig}
    /\ config = NoConfig <=> stage = "failed"
    /\ protoc \in Protos \cup {"null"}
    /\ map_nesting \in 0..MaxNesting
    /\ is_key \in BOOLEAN
    /\ update \subseteq Options
    /\ expect_shard_map \in BOOLEAN
    /\ shard_count \in Int
    /\ stage \in {"parsing", "done", "failed"}
    /\ place \in {"outside", "start", "inside", "end"}
    /\ path \in Seq(Scalars \cup {NoKey})
    /\ meant \in [Protos -> ProtoConfigs]
    /\ verdict \in {"plain", "odd", "wrong"}
    /\ resolveSeen \in BOOLEAN
    /\ events \in 0..MaxEvents

(***************************************************************************)
(* A plain document is not refused, and at every point of it the           *)
(* configuration has each setting in the section that wrote it, the last   *)
(* one where it was repeated, the shards in their order and the defaults   *)
(* for the rest: the flags that one event leaves for a later one are never *)
(* taken by the wrong scalar.  Unknown options are ignored, but only as    *)
(* long as always_resolve_dns has not been set before.                     *)
(***************************************************************************)
ReadAsWritten == verdict = "plain" => config = meant

(***************************************************************************)
(* A document with an unknown section, a sequence, a boolean other than    *)
(* true and false, or shards that are not numbered from 0 is not accepted: *)
(* a gap or a swap in a shard map does not move its shards in the ring.    *)
(* (A section with a second shard_map is "odd": the format says nothing.)  *)
(***************************************************************************)
WrongRejected == verdict = "wrong" => stage = "failed"
=============================================================================
