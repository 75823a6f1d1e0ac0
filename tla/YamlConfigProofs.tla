--------------------------- MODULE YamlConfigProofs ---------------------------
(***************************************************************************)
(* Proofs about YamlConfig, for documents of any length, depth, keys and   *)
(* values.                                                                 *)
(*                                                                         *)
(* The parser keeps a number and some flags where the document has a path. *)
(* Nesting ties the two together for every document; Flags says, for the   *)
(* plain ones, which flags stand for the key that waits for its value.     *)
(***************************************************************************)
EXTENDS YamlConfig, SequenceTheorems, TLAPS

(* Where the parser is, as long as it has not given up. *)
Nesting ==
    /\ map_nesting = Depth
    /\ Depth <= MaxNesting
    /\ place = "inside" <=> Depth > 0
    /\ \A i \in 1..Depth : i < Depth => path[i] # NoKey
    /\ stage # "failed" /\ Depth > 0 => (is_key <=> path[Depth] = NoKey)

Pending == IF Depth >= 2 THEN path[2] ELSE NoKey   \* the option that is being read
Sticky == "always_resolve_dns"                     \* its flag is never reset

Flags ==
    /\ stage # "failed" /\ config = meant
    /\ Depth <= 3
    /\ Depth >= 1 /\ path[1] # NoKey => path[1] \in Protos /\ protoc = path[1]
    /\ update \ {Sticky} = {Pending} \cap (Options \ {Sticky})
    /\ Sticky \in update => resolveSeen
    /\ Pending = Sticky => Sticky \in update
    /\ Depth = 3 => Pending = "shard_map"
    /\ Pending = "shard_map" =>
         /\ expect_shard_map
         /\ shard_count = Len(Section.ring) - (IF Depth = 3 /\ path[3] # NoKey THEN 0 ELSE 1)

IInv ==
    /\ TypeOK /\ Nesting
    /\ verdict = "plain" => Flags
    /\ WrongRejected

-----------------------------------------------------------------------------
Configs == [Protos -> ProtoConfigs]
Key == Scalars \cup {NoKey}

LEMMA NotNoConfig == \A c \in Configs : c # NoConfig
<1> SUFFICES ASSUME NEW c \in Configs, c = <<>> PROVE FALSE
  BY DEF NoConfig
<1>1. "carbon" \in DOMAIN c
  BY DEF Configs, Protos
<1>2. DOMAIN c = {}
  OBVIOUS
<1> QED
  BY <1>1, <1>2

LEMMA FieldsTyped ==
    ASSUME NEW c \in ProtoConfigs
    PROVE  /\ \A x \in BOOLEAN : /\ [c EXCEPT !.initialized = x] \in ProtoConfigs
                                /\ [c EXCEPT !["validate"] = x] \in ProtoConfigs
                                /\ [c EXCEPT !["tcp_cork"] = x] \in ProtoConfigs
                                /\ [c EXCEPT !["always_resolve_dns"] = x] \in ProtoConfigs
           /\ \A x \in Scalars : [c EXCEPT !["bind"] = x] \in ProtoConfigs
           /\ \A x \in Uint64 : [c EXCEPT !["max_send_queue"] = x] \in ProtoConfigs
           /\ c.ring \in Seq(Scalars)
           /\ \A x \in Seq(Scalars) : [c EXCEPT !.ring = x] \in ProtoConfigs
BY DEF ProtoConfigs

LEMMA ConfigTyped ==
    ASSUME NEW c \in Configs, NEW p, NEW x, p \in Protos => x \in ProtoConfigs
    PROVE  [c EXCEPT ![p] = x] \in Configs
BY DEF Configs

(* A number is stored in a uint64_t, unchanged unless it is negative. *)
LEMMA NumberStored ==
    ASSUME NEW s \in Scalars
    PROVE  /\ NumberOf[s] % UintRange \in Uint64
           /\ NumberOf[s] >= 0 => NumberOf[s] \in Uint64 /\ NumberOf[s] % UintRange = NumberOf[s]
<1>1. NumberOf[s] \in Int /\ UintRange \in Nat /\ 0 < UintRange /\ NumberOf[s] < UintRange
  BY YamlAssumption, SMT DEF DefaultQueue
<1>2. \A n \in Int, r \in Nat : 0 < r => n % r \in 0..(r - 1)
  OBVIOUS
<1>3. \A n, r \in Nat : n < r => n % r = n
  OBVIOUS
<1> QED
  BY <1>1, <1>2, <1>3 DEF Uint64

LEMMA SettingTyped ==
    ASSUME NEW c \in ProtoConfigs, NEW o \in Options, NEW s \in Scalars
    PROVE  [c EXCEPT ![o] = Setting(o, s)] \in ProtoConfigs
<1>1. o \in {"bind", "max_send_queue", "validate", "tcp_cork", "always_resolve_dns"}
  BY DEF Options, Booleans
<1>2. NumberOf[s] % UintRange \in Uint64
  BY NumberStored
<1>3. CASE o = "bind"
  <2>1. Setting(o, s) = s
    BY <1>3 DEF Setting, Booleans
  <2> QED
    BY <1>3, <2>1, FieldsTyped
<1>4. CASE o = "max_send_queue"
  <2>1. Setting(o, s) = NumberOf[s] % UintRange
    BY <1>4 DEF Setting, Booleans
  <2> QED
    BY <1>2, <1>4, <2>1, FieldsTyped
<1>5. CASE o \in Booleans
  <2>1. Setting(o, s) = (s = "true")
    BY <1>5 DEF Setting
  <2>2. Setting(o, s) \in BOOLEAN
    BY <2>1
  <2>3. o = "validate" \/ o = "tcp_cork" \/ o = "always_resolve_dns"
    BY <1>5 DEF Booleans
  <2> QED
    BY <2>2, <2>3, FieldsTyped
<1> QED
  BY <1>1, <1>3, <1>4, <1>5 DEF Booleans

LEMMA FlaggedOption == Flagged \in Options
BY DEF Flagged, Options, Booleans

(* What parse_config does to its own state keeps its types. *)
LEMMA ReadTyped ==
    ASSUME TypeOK, stage = "parsing", NEW s \in Scalars, ReadByNesting(s)
    PROVE  /\ config' \in Configs \cup {NoConfig}
           /\ config' = NoConfig <=> stage' = "failed"
           /\ protoc' \in Protos \cup {"null"} /\ update' \subseteq Options
           /\ expect_shard_map' \in BOOLEAN /\ shard_count' \in Int
           /\ stage' \in {"parsing", "done", "failed"}
<1>1. /\ config \in Configs /\ config # NoConfig /\ protoc \in Protos \cup {"null"} /\ update \subseteq Options
      /\ expect_shard_map \in BOOLEAN /\ shard_count \in Int
  BY NotNoConfig DEF TypeOK, Configs
<1>2. CASE parse_err
  BY <1>1, <1>2 DEF parse_err, flagVars
<1>3. CASE UNCHANGED <<config, flagVars, stage>>
  BY <1>1, <1>3 DEF flagVars
<1>4. ASSUME UNCHANGED stage, config' \in Configs
      PROVE  config' \in Configs \cup {NoConfig} /\ (config' = NoConfig <=> stage' = "failed")
             /\ stage' \in {"parsing", "done", "failed"}
  BY <1>4, NotNoConfig
<1>5. CASE SectionScalar(s) /\ ~parse_err
  <2>1. /\ s \in Protos /\ protoc' = s /\ config' = [config EXCEPT ![s].initialized = TRUE]
        /\ UNCHANGED <<update, expect_shard_map, shard_count, stage>>
    BY <1>5 DEF SectionScalar
  <2>2. config[s] \in ProtoConfigs
    BY <1>1, <2>1 DEF Configs
  <2>3. [config[s] EXCEPT !.initialized = TRUE] \in ProtoConfigs
    BY <2>2, FieldsTyped
  <2>4. config' \in Configs
    BY <1>1, <2>1, <2>3, ConfigTyped
  <2> QED
    BY <1>1, <1>4, <2>1, <2>4
<1>6. CASE OptionKey(s)
  <2>1. /\ update' = update \cup ({s} \cap Options)
        /\ expect_shard_map' = (expect_shard_map \/ s = "shard_map")
        /\ shard_count' = IF s = "shard_map" THEN -1 ELSE shard_count
        /\ UNCHANGED <<config, protoc, stage>>
    BY <1>6 DEF OptionKey
  <2>2. expect_shard_map' \in BOOLEAN
    BY <2>1
  <2> QED
    BY <1>1, <1>4, <2>1, <2>2
<1>7. CASE OptionValue(s) /\ ~parse_err /\ ~UNCHANGED <<config, flagVars, stage>>
  <2>1. /\ config' = [config EXCEPT ![protoc][Flagged] = Setting(Flagged, s)]
        /\ update' = update \ ({Flagged} \ {"always_resolve_dns"})
        /\ UNCHANGED <<protoc, expect_shard_map, shard_count, stage>>
    BY <1>7 DEF OptionValue
  <2>2. protoc \in Protos => [config[protoc] EXCEPT ![Flagged] = Setting(Flagged, s)] \in ProtoConfigs
    BY <1>1, FlaggedOption, SettingTyped DEF Configs
  <2>3. config' \in Configs
    BY <1>1, <2>1, <2>2, ConfigTyped
  <2> QED
    BY <1>1, <1>4, <2>1, <2>3
<1>8. CASE ShardKey(s) /\ ~parse_err
  BY <1>1, <1>4, <1>8 DEF ShardKey
<1>9. CASE ShardValue(s)
  <2>1. config' = [config EXCEPT ![protoc].ring = Append(@, s)] /\ UNCHANGED <<flagVars, stage>>
    BY <1>9 DEF ShardValue
  <2>2. protoc \in Protos => [config[protoc] EXCEPT !.ring = Append(@, s)] \in ProtoConfigs
    <3> HAVE protoc \in Protos
    <3>1. config[protoc] \in ProtoConfigs
      BY <1>1 DEF Configs
    <3>2. Append(config[protoc].ring, s) \in Seq(Scalars)
      BY <3>1, FieldsTyped
    <3> QED
      BY <3>1, <3>2, FieldsTyped
  <2>3. config' \in Configs
    BY <1>1, <2>1, <2>2, ConfigTyped
  <2> QED
    BY <1>1, <1>4, <2>1, <2>3 DEF flagVars
<1> QED
  BY <1>2, <1>3, <1>5, <1>6, <1>7, <1>8, <1>9 DEF ReadByNesting

-----------------------------------------------------------------------------
(* The keys of a path, as the document goes on. *)
LEMMA PathKey ==
    ASSUME NEW q \in Seq(Key), NEW k \in Key, Len(q) > 0
    PROVE  LET r == [q EXCEPT ![Len(q)] = k]
           IN  /\ r \in Seq(Key) /\ Len(r) = Len(q) /\ r[Len(q)] = k
               /\ \A i \in 1..Len(q) : i < Len(q) => r[i] = q[i]
<1> DEFINE r == [q EXCEPT ![Len(q)] = k]
<1>1. Len(q) \in Nat /\ Len(q) \in 1..Len(q)
  OBVIOUS
<1>2. r \in Seq(Key) /\ Len(r) = Len(q)
  OBVIOUS
<1>3. DOMAIN q = 1..Len(q)
  OBVIOUS
<1>4. r[Len(q)] = k /\ \A i \in 1..Len(q) : i < Len(q) => r[i] = q[i]
  <2> DEFINE n == Len(q)
  <2>1. n \in DOMAIN q /\ n \in Nat
    BY <1>1, <1>3
  <2>2. \A i \in 1..n : i \in DOMAIN q
    BY <1>3
  <2> HIDE DEF n
  <2>3. [q EXCEPT ![n] = k][n] = k
    BY <2>1
  <2>4. \A i \in 1..n : i < n => [q EXCEPT ![n] = k][i] = q[i]
    BY <2>1, <2>2
  <2> QED
    BY <2>3, <2>4 DEF n
<1> QED
  BY <1>2, <1>4

LEMMA PathStart ==
    ASSUME NEW q \in Seq(Key)
    PROVE  LET r == Append(q, NoKey)
           IN  /\ r \in Seq(Key) /\ Len(r) = Len(q) + 1 /\ r[Len(q) + 1] = NoKey
               /\ \A i \in 1..Len(q) : r[i] = q[i]
<1>1. NoKey \in Key
  BY DEF Key
<1> QED
  BY <1>1

LEMMA PathEnd ==
    ASSUME NEW q \in Seq(Key), Len(q) > 1
    PROVE  LET r == [SubSeq(q, 1, Len(q) - 1) EXCEPT ![Len(q) - 1] = NoKey]
           IN  /\ r \in Seq(Key) /\ Len(r) = Len(q) - 1 /\ r[Len(q) - 1] = NoKey
               /\ \A i \in 1..(Len(q) - 2) : r[i] = q[i]
<1> DEFINE u == SubSeq(q, 1, Len(q) - 1)
<1>1. Len(q) \in Nat
  OBVIOUS
<1>2. u \in Seq(Key) /\ Len(u) = Len(q) - 1 /\ \A i \in 1..(Len(q) - 1) : u[i] = q[i]
  <2>1. \A i \in 1..(Len(q) - 1) : q[i] \in Key
    OBVIOUS
  <2>2. 1 \in Int /\ Len(q) - 1 \in Int /\ 1 <= Len(q) - 1
    BY <1>1
  <2>3. /\ u \in Seq(Key)
        /\ Len(u) = IF 1 <= Len(q) - 1 THEN (Len(q) - 1) - 1 + 1 ELSE 0
        /\ \A i \in 1..((Len(q) - 1) - 1 + 1) : u[i] = q[1 + i - 1]
    BY <2>1, <2>2, SubSeqProperties
  <2> HIDE DEF u
  <2> QED
    BY <1>1, <2>2, <2>3
<1> HIDE DEF u
<1>3. NoKey \in Key /\ Len(u) > 0 /\ Len(u) - 1 = Len(q) - 2
  BY <1>1, <1>2 DEF Key
<1> DEFINE r == [u EXCEPT ![Len(u)] = NoKey]
<1>4. /\ r \in Seq(Key) /\ Len(r) = Len(u) /\ r[Len(u)] = NoKey
      /\ \A i \in 1..Len(u) : i < Len(u) => r[i] = u[i]
  BY <1>2, <1>3, PathKey
<1> HIDE DEF r
<1>5. /\ r \in Seq(Key) /\ Len(r) = Len(q) - 1 /\ r[Len(q) - 1] = NoKey
      /\ \A i \in 1..(Len(q) - 2) : r[i] = q[i]
  BY <1>1, <1>2, <1>4
<1> QED
  BY <1>2, <1>5 DEF r, u

(* What the document does to its own state keeps its types. *)
DocTyped ==
    /\ place \in {"outside", "start", "inside", "end"}
    /\ path \in Seq(Key) /\ meant \in Configs
    /\ verdict \in {"plain", "odd", "wrong"} /\ resolveSeen \in BOOLEAN

LEMMA DocKeyTyped ==
    ASSUME DocTyped, NEW s \in Scalars, DocKey(s)
    PROVE  DocTyped'
<1>1. Depth > 0 /\ Depth \in Nat /\ s \in Key /\ path \in Seq(Key)
  BY DEF DocKey, ExpectsKey, Depth, DocTyped, Key
<1>2. path' \in Seq(Key)
  BY <1>1, PathKey DEF DocKey, Depth
<1>3. verdict' \in {"plain", "odd", "wrong"}
  BY DEF DocKey, Judge, DocTyped
<1>4. CASE meant' = meant
  BY <1>2, <1>3, <1>4 DEF DocKey, DocTyped
<1>5. CASE meant' # meant
  <2>1. Depth = 1 /\ verdict' = "plain" /\ meant' = [meant EXCEPT ![s].initialized = TRUE]
    BY <1>5 DEF DocKey
  <2>2. s \in Protos
    BY <2>1 DEF DocKey, Judge
  <2>3. [meant[s] EXCEPT !.initialized = TRUE] \in ProtoConfigs
    BY <2>2, FieldsTyped DEF DocTyped, Configs
  <2>4. meant' \in Configs
    BY <2>1, <2>3, ConfigTyped DEF DocTyped
  <2> QED
    BY <1>2, <1>3, <2>4 DEF DocKey, DocTyped
<1> QED
  BY <1>4, <1>5

LEMMA DocValueTyped ==
    ASSUME DocTyped, NEW s \in Scalars, DocValue(s)
    PROVE  DocTyped'
<1>1. Depth > 0 /\ NoKey \in Key /\ path \in Seq(Key) /\ meant \in Configs
  BY DEF DocValue, ExpectsValue, Depth, DocTyped, Key
<1>2. path' \in Seq(Key)
  BY <1>1, PathKey DEF DocValue, Depth
<1>3. verdict' \in {"plain", "odd", "wrong"}
  BY DEF DocValue, Judge, ValueVerdict, DocTyped
<1> DEFINE p == path[1]  o == path[2]
<1>4. \/ meant' = meant
      \/ meant' = [meant EXCEPT ![p].ring = Append(@, s)]
      \/ o = "bind" /\ meant' = [meant EXCEPT ![p].bind = s]
      \/ /\ o = "max_send_queue" /\ NumberOf[s] >= 0
         /\ meant' = [meant EXCEPT ![p].max_send_queue = NumberOf[s]]
      \/ o \in Booleans /\ meant' = [meant EXCEPT ![p][o] = (s = "true")]
  <2>1. ASSUME verdict' = "plain", Depth # 3, o = "max_send_queue"
        PROVE  NumberOf[s] >= 0
    BY <2>1, YamlAssumption DEF DocValue, Judge, ValueVerdict, Booleans, DocTyped
  <2> QED
    BY <2>1 DEF DocValue
<1>5. p \in Protos => meant[p] \in ProtoConfigs
  BY <1>1 DEF Configs
<1> HIDE DEF p, o
<1>6. ASSUME meant' = [meant EXCEPT ![p].ring = Append(@, s)]
      PROVE  meant' \in Configs
  <2>1. p \in Protos => [meant[p] EXCEPT !.ring = Append(@, s)] \in ProtoConfigs
    <3> HAVE p \in Protos
    <3>1. Append(meant[p].ring, s) \in Seq(Scalars)
      BY <1>5, FieldsTyped
    <3> QED
      BY <1>5, <3>1, FieldsTyped
  <2> QED
    BY <1>1, <1>6, <2>1, ConfigTyped
<1>7. ASSUME o = "bind" /\ meant' = [meant EXCEPT ![p].bind = s]
      PROVE  meant' \in Configs
  <2>1. p \in Protos => [meant[p] EXCEPT !.bind = s] \in ProtoConfigs
    BY <1>5, FieldsTyped
  <2> QED
    BY <1>1, <1>7, <2>1, ConfigTyped
<1>8. ASSUME o = "max_send_queue", NumberOf[s] >= 0,
             meant' = [meant EXCEPT ![p].max_send_queue = NumberOf[s]]
      PROVE  meant' \in Configs
  <2>1. p \in Protos => [meant[p] EXCEPT !.max_send_queue = NumberOf[s]] \in ProtoConfigs
    BY <1>5, <1>8, FieldsTyped, NumberStored
  <2> QED
    BY <1>1, <1>8, <2>1, ConfigTyped
<1>9. ASSUME o \in Booleans /\ meant' = [meant EXCEPT ![p][o] = (s = "true")]
      PROVE  meant' \in Configs
  <2>1. Setting(o, s) = (s = "true") /\ o \in Options
    BY <1>9 DEF Setting, Options
  <2>2. p \in Protos => [meant[p] EXCEPT ![o] = Setting(o, s)] \in ProtoConfigs
    BY <1>5, <2>1, SettingTyped
  <2>3. meant' = [meant EXCEPT ![p][o] = Setting(o, s)]
    BY <1>9, <2>1
  <2> QED
    BY <1>1, <2>2, <2>3, ConfigTyped
<1>10. meant' \in Configs \/ meant' = meant
  BY <1>4, <1>6, <1>7, <1>8, <1>9
<1> QED
  BY <1>1, <1>2, <1>3, <1>10 DEF DocValue, DocTyped

LEMMA DocEndTyped ==
    ASSUME DocTyped, DocMappingEnd
    PROVE  DocTyped'
<1>1. Depth > 0 /\ Depth \in Nat /\ path \in Seq(Key)
  BY DEF DocMappingEnd, ExpectsKey, Depth, DocTyped
<1>2. CASE Depth = 1
  BY <1>2 DEF DocMappingEnd, DocTyped
<1>3. CASE Depth # 1
  <2>1. Len(path) > 1
    BY <1>1, <1>3 DEF Depth
  <2>2. path' = [SubSeq(path, 1, Len(path) - 1) EXCEPT ![Len(path) - 1] = NoKey]
    BY <1>3 DEF DocMappingEnd, Depth
  <2>3. path' \in Seq(Key)
    BY <1>1, <2>1, <2>2, PathEnd
  <2> QED
    BY <1>3, <2>3 DEF DocMappingEnd, DocTyped
<1> QED
  BY <1>2, <1>3

(* The part of TypeOK that is the parser's. *)
ParserTyped ==
    /\ config \in Configs \cup {NoConfig}
    /\ config = NoConfig <=> stage = "failed"
    /\ protoc \in Protos \cup {"null"} /\ update \subseteq Options
    /\ expect_shard_map \in BOOLEAN /\ shard_count \in Int
    /\ stage \in {"parsing", "done", "failed"}

LEMMA TypeParts ==
    TypeOK <=> /\ ParserTyped /\ DocTyped
               /\ map_nesting \in 0..MaxNesting /\ is_key \in BOOLEAN /\ events \in 0..MaxEvents
BY DEF TypeOK, ParserTyped, DocTyped, Configs, Key

LEMMA TypePartsPrime ==
    TypeOK' <=> /\ ParserTyped' /\ DocTyped'
                /\ map_nesting' \in 0..MaxNesting /\ is_key' \in BOOLEAN /\ events' \in 0..MaxEvents
BY DEF TypeOK, ParserTyped, DocTyped, Configs, Key

LEMMA ErrTyped ==
    ASSUME TypeOK, parse_err
    PROVE  ParserTyped'
<1>1. config' = NoConfig /\ stage' = "failed" /\ UNCHANGED <<protoc, update, expect_shard_map, shard_count>>
  BY DEF parse_err, flagVars
<1> QED
  BY <1>1 DEF TypeOK, ParserTyped

-----------------------------------------------------------------------------
(* A key takes the place of NoKey, and NoKey that of a key. *)
LEMMA ScalarNesting ==
    ASSUME TypeOK, Nesting, stage = "parsing", NEW k \in Key,
           Depth > 0, path' = [path EXCEPT ![Depth] = k], k = NoKey <=> path[Depth] # NoKey,
           UNCHANGED <<place, map_nesting>>, is_key' = ~is_key
    PROVE  Nesting'
<1>1. path \in Seq(Key) /\ Len(path) \in Nat /\ Len(path) > 0 /\ is_key \in BOOLEAN
  BY DEF TypeOK, Key, Depth
<1>2. /\ Len(path') = Len(path) /\ path'[Len(path)] = k
      /\ \A i \in 1..Len(path) : i < Len(path) => path'[i] = path[i]
  BY <1>1, PathKey DEF Depth
<1>3. \A i \in 1..Len(path') : i < Len(path') => path'[i] # NoKey
  BY <1>2 DEF Nesting, Depth
<1>4. is_key' <=> path'[Len(path')] = NoKey
  BY <1>1, <1>2 DEF Nesting, Depth
<1> QED
  BY <1>1, <1>2, <1>3, <1>4 DEF Nesting, Depth

LEMMA StartNesting ==
    ASSUME TypeOK, Nesting, stage = "parsing", DocMappingStart, ReadMapping(1)
    PROVE  Nesting'
<1>1. path \in Seq(Key) /\ Len(path) \in Nat
  BY DEF TypeOK, Key
<1>2. /\ Len(path') = Len(path) + 1 /\ path'[Len(path) + 1] = NoKey
      /\ \A i \in 1..Len(path) : path'[i] = path[i]
  BY <1>1, PathStart DEF DocMappingStart
<1>3. Len(path) > 0 => path[Len(path)] # NoKey
  BY DEF DocMappingStart, ExpectsValue, Nesting, Depth
<1>4. ASSUME NEW i \in 1..Len(path'), i < Len(path') PROVE path'[i] # NoKey
  <2>1. i \in 1..Len(path) /\ (i = Len(path) \/ i < Len(path)) /\ Len(path) > 0
    BY <1>1, <1>2, <1>4
  <2> QED
    BY <1>2, <1>3, <2>1 DEF Nesting, Depth
<1>5. is_key' /\ path'[Len(path')] = NoKey
  BY <1>2 DEF ReadMapping
<1>6. /\ map_nesting' = map_nesting + 1 /\ place' = "inside" /\ Len(path) < MaxNesting
      /\ map_nesting = Len(path) /\ MaxNesting \in Nat
  BY YamlAssumption DEF ReadMapping, DocMappingStart, Depth, Nesting
<1> QED
  BY <1>1, <1>2, <1>4, <1>5, <1>6 DEF Nesting, Depth

LEMMA EndNesting ==
    ASSUME TypeOK, Nesting, stage = "parsing", DocMappingEnd, NEW n, n = 0 - 1, ReadMapping(n)
    PROVE  Nesting'
<1>1. path \in Seq(Key) /\ Len(path) \in Nat /\ Len(path) > 0 /\ path[Len(path)] = NoKey
  BY DEF TypeOK, Key, DocMappingEnd, ExpectsKey, Depth
<1>5. is_key
  BY <1>1 DEF Nesting, Depth
<1>2. /\ map_nesting' = map_nesting + n /\ is_key'
      /\ map_nesting = Len(path) /\ Len(path) <= MaxNesting /\ place = "inside" /\ MaxNesting \in Nat
  BY <1>1, <1>5, YamlAssumption DEF ReadMapping, Nesting, Depth
<1>3. CASE Len(path) = 1
  <2>1. path' = <<>> /\ place' = "end"
    BY <1>3 DEF DocMappingEnd, Depth
  <2>2. Len(path') = 0
    BY <2>1
  <2> QED
    BY <1>2, <1>3, <2>1, <2>2 DEF Nesting, Depth
<1>4. CASE Len(path) # 1
  <2>1. path' = [SubSeq(path, 1, Len(path) - 1) EXCEPT ![Len(path) - 1] = NoKey] /\ UNCHANGED place
    BY <1>4 DEF DocMappingEnd, Depth
  <2>2. Len(path) > 1
    <3>1. \A m \in Nat : m > 0 /\ m # 1 => m > 1
      OBVIOUS
    <3> QED
      BY <1>1, <1>4, <3>1, Zenon
  <2>3. /\ Len(path') = Len(path) - 1 /\ path'[Len(path) - 1] = NoKey
        /\ \A i \in 1..(Len(path) - 2) : path'[i] = path[i]
    BY <1>1, <2>1, <2>2, PathEnd
  <2>4. ASSUME NEW i \in 1..Len(path'), i < Len(path') PROVE path'[i] # NoKey
    <3>1. i \in 1..(Len(path) - 2) /\ i \in 1..Len(path) /\ i < Len(path)
      BY <1>1, <2>2, <2>3, <2>4
    <3> QED
      BY <2>3, <3>1 DEF Nesting, Depth
  <2> QED
    BY <1>1, <1>2, <2>1, <2>2, <2>3, <2>4 DEF Nesting, Depth
<1> QED
  BY <1>3, <1>4

LEMMA NextNesting ==
    ASSUME TypeOK, Nesting, Next
    PROVE  Nesting'
<1>1. ASSUME NEW s \in Scalars, Scalar(s) PROVE Nesting'
  <2>1. stage = "parsing" /\ ReadByNesting(s) /\ is_key' = ~is_key /\ UNCHANGED map_nesting
    BY <1>1 DEF Scalar, Event, ReadScalar
  <2>2. s \in Key /\ NoKey \in Key /\ s # NoKey
    BY YamlAssumption DEF Key
  <2>3. CASE DocKey(s)
    <3>1. Depth > 0 /\ path[Depth] = NoKey /\ path' = [path EXCEPT ![Depth] = s] /\ UNCHANGED place
      BY <2>3 DEF DocKey, ExpectsKey
    <3> QED
      BY <2>1, <2>2, <3>1, ScalarNesting
  <2>4. CASE DocValue(s)
    <3>1. Depth > 0 /\ path[Depth] # NoKey /\ path' = [path EXCEPT ![Depth] = NoKey] /\ UNCHANGED place
      BY <2>4 DEF DocValue, ExpectsValue
    <3> QED
      BY <2>1, <2>2, <3>1, ScalarNesting
  <2>5. CASE DocScalarOnly
    <3>1. place = "start" /\ place' = "end" /\ UNCHANGED path
      BY <2>5 DEF DocScalarOnly
    <3> QED
      BY <2>1, <3>1 DEF Nesting, Depth, TypeOK
  <2> QED
    BY <1>1, <2>3, <2>4, <2>5 DEF Scalar
<1>2. CASE MappingStart
  BY <1>2, StartNesting DEF MappingStart, Event
<1>3. CASE MappingEnd
  BY <1>3, EndNesting DEF MappingEnd, Event
<1>4. CASE DocumentStart \/ DocumentEnd
  BY <1>4 DEF DocumentStart, DocumentEnd, Nesting, Depth, parserVars, TypeOK
<1>5. CASE SequenceOrAlias \/ ReadFails
  BY <1>5 DEF SequenceOrAlias, ReadFails, parse_err, Nesting, Depth
<1>6. CASE StreamEnd
  BY <1>6 DEF StreamEnd, Event, Nesting, Depth
<1> QED
  BY <1>1, <1>2, <1>3, <1>4, <1>5, <1>6 DEF Next

LEMMA NextTyped ==
    ASSUME TypeOK, Nesting, Next
    PROVE  TypeOK'
<1>1. /\ ParserTyped /\ DocTyped /\ map_nesting \in 0..MaxNesting /\ is_key \in BOOLEAN
      /\ events \in 0..MaxEvents
  BY TypeParts
<1>2. DocTyped'
  <2>1. CASE \E s \in Scalars : Scalar(s)
    <3>1. PICK s \in Scalars : DocKey(s) \/ DocValue(s) \/ DocScalarOnly
      BY <2>1 DEF Scalar
    <3>2. CASE DocScalarOnly
      BY <1>1, <3>2 DEF DocScalarOnly, Judge, DocTyped
    <3> QED
      BY <1>1, <3>1, <3>2, DocKeyTyped, DocValueTyped
  <2>2. CASE MappingStart
    <3>1. path' \in Seq(Key)
      BY <1>1, <2>2, PathStart DEF MappingStart, DocMappingStart, DocTyped
    <3>2. verdict' \in {"plain", "odd", "wrong"}
      BY <1>1, <2>2 DEF MappingStart, DocMappingStart, Judge, DocTyped
    <3> QED
      BY <1>1, <2>2, <3>1, <3>2 DEF MappingStart, DocMappingStart, DocTyped
  <2>3. CASE MappingEnd
    BY <1>1, <2>3, DocEndTyped DEF MappingEnd
  <2>4. CASE DocumentStart \/ DocumentEnd
    BY <1>1, <2>4 DEF DocumentStart, DocumentEnd, DocTyped
  <2>5. CASE SequenceOrAlias \/ ReadFails
    BY <1>1, <2>5 DEF SequenceOrAlias, ReadFails, Judge, DocTyped
  <2>6. CASE StreamEnd
    BY <1>1, <2>6 DEF StreamEnd, DocTyped
  <2> QED
    BY <2>1, <2>2, <2>3, <2>4, <2>5, <2>6 DEF Next
<1>3. map_nesting' \in 0..MaxNesting
  BY <1>2, NextNesting, YamlAssumption DEF DocTyped, Nesting, Depth
<1>4. ParserTyped' /\ is_key' \in BOOLEAN
  <2>1. CASE \E s \in Scalars : Scalar(s)
    <3>1. PICK s \in Scalars : stage = "parsing" /\ ReadByNesting(s) /\ is_key' = ~is_key
      BY <2>1 DEF Scalar, Event, ReadScalar
    <3>2. ParserTyped'
      BY <3>1, ReadTyped DEF ParserTyped
    <3> QED
      BY <3>1, <3>2
  <2>2. CASE MappingStart \/ MappingEnd
    <3>1. UNCHANGED <<config, protoc, update, expect_shard_map, shard_count, stage>>
      BY <2>2 DEF MappingStart, MappingEnd, ReadMapping, flagVars
    <3>2. is_key' = (is_key \/ 1 = 1) \/ is_key' = (is_key \/ -1 = 1)
      BY <2>2 DEF MappingStart, MappingEnd, ReadMapping
    <3>3. is_key' \in BOOLEAN
      BY <3>2
    <3> QED
      BY <1>1, <3>1, <3>3 DEF ParserTyped
  <2>3. CASE DocumentStart \/ DocumentEnd
    BY <1>1, <2>3 DEF DocumentStart, DocumentEnd, parserVars, flagVars, ParserTyped
  <2>4. CASE SequenceOrAlias \/ ReadFails
    BY <1>1, <2>4, ErrTyped DEF SequenceOrAlias, ReadFails
  <2>5. CASE StreamEnd
    BY <1>1, <2>5 DEF StreamEnd, Event, flagVars, ParserTyped
  <2> QED
    BY <2>1, <2>2, <2>3, <2>4, <2>5 DEF Next
<1>5. events' \in 0..MaxEvents
  <2>1. Event
    BY DEF Next, Scalar, MappingStart, MappingEnd, DocumentStart, DocumentEnd,
           SequenceOrAlias, ReadFails, StreamEnd
  <2> QED
    BY <1>1, <2>1, YamlAssumption DEF Event
<1> QED
  BY <1>2, <1>3, <1>4, <1>5, TypePartsPrime

-----------------------------------------------------------------------------
(* What an event may make of a plain document. *)
Outcome ==
    \/ verdict' = "plain" /\ Flags'
    \/ verdict' = "odd"
    \/ verdict' = "wrong" /\ stage' = "failed"

LEMMA NotAnOption ==
    /\ NoKey \notin Options /\ "shard_map" \notin Options /\ NoKey # "shard_map"
    /\ Sticky \in Options /\ Sticky \in Booleans /\ NoKey \notin Protos
BY DEF NoKey, Options, Booleans, Sticky, Protos

(* The flag that is found is the one of the key that waits for its value. *)
LEMMA PendingFlag ==
    ASSUME Flags, Pending \in Options
    PROVE  update # {} /\ Flagged = Pending
<1>1. CASE Pending = Sticky
  <2>1. update = {Sticky}
    BY <1>1 DEF Flags
  <2> QED
    BY <1>1, <2>1 DEF Flagged, Sticky
<1>2. CASE Pending # Sticky
  <2>1. update \ {Sticky} = {Pending}
    BY <1>2 DEF Flags
  <2>2. Pending \in {"bind", "max_send_queue", "validate", "tcp_cork"}
    BY <1>2 DEF Options, Booleans, Sticky
  <2>3. \A o \in {"bind", "max_send_queue", "validate", "tcp_cork"} : o \in update <=> o = Pending
    BY <2>1 DEF Sticky
  <2> QED
    BY <2>2, <2>3 DEF Flagged
<1> QED
  BY <1>1, <1>2

(* Without a key that waits, at most the sticky flag is set. *)
LEMMA NoPendingFlag ==
    ASSUME Flags, Pending \notin Options
    PROVE  update \subseteq {Sticky} /\ (~resolveSeen => update = {})
BY DEF Flags

-----------------------------------------------------------------------------
(* The key of a section, *)
LEMMA SectionKeyFlags ==
    ASSUME TypeOK, Nesting, Flags, verdict = "plain", stage = "parsing",
           NEW s \in Scalars, DocKey(s), ReadScalar(s), Depth = 1
    PROVE  Outcome
<1>1. /\ path \in Seq(Key) /\ Len(path) = 1 /\ s \in Key /\ map_nesting = 1 /\ path' = [path EXCEPT ![Len(path)] = s]
  BY DEF TypeOK, Nesting, DocKey, Depth, Key
<1>2. Len(path') = 1 /\ path'[1] = s
  <2>1. Len(path) > 0
    BY <1>1
  <2>2. Len(path') = Len(path) /\ path'[Len(path)] = s
    BY <1>1, <2>1, PathKey
  <2> QED
    BY <1>1, <2>2
<1>3. SectionScalar(s)
  BY <1>1 DEF ReadScalar, ReadByNesting
<1>4. CASE s \in Protos
  <2>1. /\ protoc' = s /\ config' = [config EXCEPT ![s].initialized = TRUE]
        /\ UNCHANGED <<update, expect_shard_map, shard_count, stage>>
    BY <1>3, <1>4 DEF SectionScalar
  <2>2. verdict' = "plain"
    BY <1>4 DEF DocKey, Judge
  <2>3. meant' = [meant EXCEPT ![s].initialized = TRUE] /\ resolveSeen' = resolveSeen
    BY <2>2 DEF DocKey, TypeOK
  <2>4. Pending = NoKey /\ Pending' = NoKey
    <3>1. ~(Len(path) >= 2) /\ ~(Len(path') >= 2)
      BY <1>1, <1>2
    <3> QED
      BY <3>1, Zenon DEF Pending, Depth
  <2>5. config' = meant'
    BY <2>1, <2>3 DEF Flags
  <2> QED
    BY <1>2, <1>4, <2>1, <2>2, <2>3, <2>4, <2>5, NotAnOption DEF Outcome, Flags, Depth
<1>5. CASE s \notin Protos
  <2>1. verdict' = "wrong"
    BY <1>5 DEF DocKey, Judge
  <2>2. stage' = "failed"
    BY <1>3, <1>5 DEF SectionScalar, parse_err
  <2> QED
    BY <2>1, <2>2 DEF Outcome
<1> QED
  BY <1>4, <1>5

(* of an option, *)
LEMMA OptionKeyFlags ==
    ASSUME TypeOK, Nesting, Flags, verdict = "plain", stage = "parsing",
           NEW s \in Scalars, DocKey(s), ReadScalar(s), Depth = 2
    PROVE  Outcome
<1>1. /\ path \in Seq(Key) /\ Len(path) = 2 /\ s \in Key /\ s # NoKey /\ map_nesting = 2
      /\ path' = [path EXCEPT ![Len(path)] = s] /\ path[2] = NoKey
  BY YamlAssumption DEF TypeOK, Nesting, DocKey, ExpectsKey, Depth, Key
<1>2. Len(path') = 2 /\ path'[2] = s /\ path'[1] = path[1]
  <2>1. Len(path) > 0
    BY <1>1
  <2>2. /\ Len(path') = Len(path) /\ path'[Len(path)] = s
        /\ \A i \in 1..Len(path) : i < Len(path) => path'[i] = path[i]
    BY <1>1, <2>1, PathKey
  <2> QED
    BY <1>1, <2>2
<1>3. is_key
  BY <1>1 DEF Nesting, Depth
<1>4. OptionKey(s)
  BY <1>1, <1>3 DEF ReadScalar, ReadByNesting
<1>5. /\ update' = update \cup ({s} \cap Options)
      /\ expect_shard_map' = (expect_shard_map \/ s = "shard_map")
      /\ shard_count' = IF s = "shard_map" THEN -1 ELSE shard_count
      /\ UNCHANGED <<config, protoc, stage>>
  BY <1>4 DEF OptionKey
<1>6. verdict' = IF s = "shard_map" /\ Section.ring # <<>> THEN "odd" ELSE "plain"
  BY DEF DocKey, Judge
<1>7. meant' = meant /\ resolveSeen' = (resolveSeen \/ s = Sticky)
  BY DEF DocKey, Sticky
<1>8. Pending = NoKey /\ Pending' = s
  <2>1. Len(path) >= 2 /\ Len(path') >= 2
    <3>1. 2 >= 2 /\ 3 >= 2
      OBVIOUS
    <3>2. Len(path) = Len(path') /\ (Len(path) = 2 \/ Len(path) = 3)
      BY <1>1, <1>2, Zenon
    <3> QED
      BY <3>1, <3>2, Zenon
  <2> QED
    BY <1>1, <1>2, <2>1, Zenon DEF Pending, Depth
<1>9. ASSUME verdict' = "plain" PROVE Flags'
  <2>1. Section' = Section
    BY <1>2, <1>7 DEF Section
  <2>2. path[1] \in Protos /\ protoc = path[1]
    <3>1. path[1] # NoKey
      BY <1>1 DEF Nesting, Depth
    <3> QED
      BY <1>1, <3>1 DEF Flags, Depth
  <2>3. update \ {Sticky} = {}
    BY <1>8, NotAnOption DEF Flags
  <2>4. update' \ {Sticky} = {s} \cap (Options \ {Sticky})
    BY <1>5, <2>3
  <2>5. Sticky \in update' => resolveSeen'
    BY <1>5, <1>7 DEF Flags
  <2>6. s = Sticky => Sticky \in update'
    BY <1>5, NotAnOption
  <2>7. s = "shard_map" => expect_shard_map' /\ shard_count' = Len(Section.ring) - 1
    <3> HAVE s = "shard_map"
    <3>1. Section.ring = <<>>
      BY <1>6, <1>9
    <3>2. Len(Section.ring) = 0
      BY <3>1
    <3>3. shard_count' = -1
      BY <1>5
    <3>4. expect_shard_map'
      BY <1>5
    <3> QED
      BY <3>2, <3>3, <3>4
  <2>8. stage' # "failed" /\ config' = meant'
    BY <1>5, <1>7 DEF Flags
  <2> QED
    BY <1>2, <1>5, <1>8, <2>1, <2>2, <2>4, <2>5, <2>6, <2>7, <2>8 DEF Flags, Depth
<1> QED
  BY <1>6, <1>9 DEF Outcome

(* and of a shard. *)
LEMMA ShardKeyFlags ==
    ASSUME TypeOK, Nesting, Flags, verdict = "plain", stage = "parsing",
           NEW s \in Scalars, DocKey(s), ReadScalar(s), Depth = 3
    PROVE  Outcome
<1>1. /\ path \in Seq(Key) /\ Len(path) = 3 /\ s \in Key /\ s # NoKey /\ map_nesting = 3
      /\ path' = [path EXCEPT ![Len(path)] = s] /\ path[3] = NoKey
  BY YamlAssumption DEF TypeOK, Nesting, DocKey, ExpectsKey, Depth, Key
<1>2. Len(path') = 3 /\ path'[3] = s /\ path'[1] = path[1] /\ path'[2] = path[2]
  <2>1. Len(path) > 0
    BY <1>1
  <2>2. /\ Len(path') = Len(path) /\ path'[Len(path)] = s
        /\ \A i \in 1..Len(path) : i < Len(path) => path'[i] = path[i]
    BY <1>1, <2>1, PathKey
  <2> QED
    BY <1>1, <2>2
<1>3. is_key
  BY <1>1 DEF Nesting, Depth
<1>4. Pending = "shard_map" /\ Pending' = "shard_map" /\ expect_shard_map /\ shard_count = Len(Section.ring) - 1
  <2>1. Pending = "shard_map"
    BY DEF Flags
  <2>2. Pending' = Pending
    BY <1>1, <1>2 DEF Pending, Depth
  <2> QED
    BY <1>1, <2>1, <2>2 DEF Flags
<1>5. ShardKey(s)
  BY <1>1, <1>3, <1>4 DEF ReadScalar, ReadByNesting
<1>6. path[1] \in Protos /\ protoc = path[1]
  <2>1. path[1] # NoKey
    BY <1>1 DEF Nesting, Depth
  <2> QED
    BY <1>1, <2>1 DEF Flags, Depth
<1>7. Len(Section.ring) \in Nat /\ shard_count \in Int
  <2>1. Section \in ProtoConfigs
    BY <1>6 DEF TypeOK, Section
  <2> QED
    BY <2>1, FieldsTyped DEF TypeOK
<1>8. shard_count + 1 = Len(Section.ring)
  BY <1>4, <1>7
<1>9. meant' = meant /\ resolveSeen' = resolveSeen
  BY DEF DocKey, TypeOK
<1>10. verdict' = IF s \in Numbers /\ NumberOf[s] = Len(Section.ring) THEN "plain" ELSE "wrong"
  BY DEF DocKey, Judge
<1>11. CASE s \in Numbers /\ NumberOf[s] = Len(Section.ring)
  <2>1. shard_count' = Len(Section.ring) /\ UNCHANGED <<config, protoc, update, expect_shard_map, stage>>
    BY <1>5, <1>8, <1>11 DEF ShardKey
  <2>2. Section' = Section
    BY <1>2, <1>9 DEF Section
  <2>3. shard_count' = Len(Section'.ring) - 0
    BY <1>7, <2>1, <2>2
  <2> QED
    BY <1>1, <1>2, <1>4, <1>6, <1>9, <1>10, <1>11, <2>1, <2>3 DEF Outcome, Flags, Depth
<1>12. CASE ~(s \in Numbers /\ NumberOf[s] = Len(Section.ring))
  <2>1. stage' = "failed"
    BY <1>5, <1>8, <1>12 DEF ShardKey, parse_err
  <2> QED
    BY <1>10, <1>12, <2>1 DEF Outcome
<1> QED
  BY <1>11, <1>12

-----------------------------------------------------------------------------
(* The value of an option: it is set by the flag of its own key. *)
LEMMA OptionValueFlags ==
    ASSUME TypeOK, Nesting, Flags, verdict = "plain", stage = "parsing",
           NEW s \in Scalars, DocValue(s), ReadScalar(s), Depth = 2
    PROVE  Outcome
<1> DEFINE key == path[2]  p == path[1]
<1>1. /\ path \in Seq(Key) /\ Len(path) = 2 /\ NoKey \in Key /\ map_nesting = 2
      /\ path' = [path EXCEPT ![Len(path)] = NoKey] /\ key # NoKey
  BY DEF TypeOK, Nesting, DocValue, ExpectsValue, Depth, Key
<1>2. Len(path') = 2 /\ path'[2] = NoKey /\ path'[1] = p
  <2>1. Len(path) > 0
    BY <1>1
  <2>2. /\ Len(path') = Len(path) /\ path'[Len(path)] = NoKey
        /\ \A i \in 1..Len(path) : i < Len(path) => path'[i] = path[i]
    BY <1>1, <2>1, PathKey
  <2> QED
    BY <1>1, <2>2
<1>3. ~is_key
  BY <1>1 DEF Nesting, Depth
<1>4. OptionValue(s)
  BY <1>1, <1>3 DEF ReadScalar, ReadByNesting
<1>5. Pending = key /\ Pending' = NoKey
  <2>1. Len(path) >= 2 /\ Len(path') >= 2
    <3>1. 2 >= 2 /\ 3 >= 2
      OBVIOUS
    <3>2. Len(path) = Len(path') /\ (Len(path) = 2 \/ Len(path) = 3)
      BY <1>1, <1>2, Zenon
    <3> QED
      BY <3>1, <3>2, Zenon
  <2> QED
    BY <1>1, <1>2, <2>1, Zenon DEF Pending, Depth
<1>6. p \in Protos /\ protoc = p
  <2>1. path[1] # NoKey
    BY <1>1 DEF Nesting, Depth
  <2> QED
    BY <1>1, <2>1 DEF Flags, Depth
<1>7. verdict' = IF key = "shard_map" THEN "odd"
                 ELSE IF key \in Booleans /\ s \notin {"true", "false"} THEN "wrong"
                 ELSE IF key = "max_send_queue" /\ (s \notin Numbers \/ NumberOf[s] < 0) THEN "odd"
                 ELSE IF key \notin Options /\ resolveSeen THEN "odd"
                 ELSE "plain"
  BY DEF DocValue, Judge, ValueVerdict
<1>8. resolveSeen' = resolveSeen
  BY DEF DocValue
<1>9. ASSUME verdict' = "plain"
      PROVE  meant' = IF key = "bind" THEN [meant EXCEPT ![p].bind = s]
                      ELSE IF key = "max_send_queue" THEN [meant EXCEPT ![p].max_send_queue = NumberOf[s]]
                      ELSE IF key \in Booleans THEN [meant EXCEPT ![p][key] = (s = "true")]
                      ELSE meant
  BY <1>9 DEF DocValue
<1> HIDE DEF key, p
<1>10. ASSUME config' = meant', verdict' = "plain", update' \subseteq {Sticky}, update' \subseteq update,
              UNCHANGED <<protoc, stage>>
       PROVE  Outcome
  <2>1. update' \ {Sticky} = {NoKey} \cap (Options \ {Sticky})
    BY <1>10, NotAnOption
  <2>2. Sticky \in update' => resolveSeen'
    BY <1>8, <1>10 DEF Flags
  <2>3. NoKey # Sticky
    BY NotAnOption
  <2>4. Flags'
    BY <1>2, <1>5, <1>6, <1>10, <2>1, <2>2, <2>3, NotAnOption DEF Flags, Depth
  <2> QED
    BY <1>10, <2>4 DEF Outcome
<1>11. CASE key \notin Options
  <2>1. verdict' = "odd" \/ (verdict' = "plain" /\ ~resolveSeen)
    BY <1>7, <1>11 DEF Options
  <2>2. CASE verdict' = "plain" /\ ~resolveSeen
    <3>1. update = {}
      BY <1>5, <1>11, <2>2, NoPendingFlag
    <3>2. UNCHANGED <<config, protoc, update, stage>>
      BY <1>4, <3>1 DEF OptionValue, flagVars
    <3>3. meant' = meant
      BY <1>9, <1>11, <2>2 DEF Options
    <3> QED
      BY <1>10, <2>2, <3>1, <3>2, <3>3 DEF Flags
  <2> QED
    BY <2>1, <2>2 DEF Outcome
<1>12. CASE key \in Options
  <2>1. update # {} /\ Flagged = key
    BY <1>5, <1>12, PendingFlag
  <2>2. key # "shard_map"
    BY <1>12, NotAnOption
  <2>3. CASE key \in Booleans /\ s \notin {"true", "false"}
    <3>1. verdict' = "wrong"
      BY <1>7, <2>2, <2>3
    <3>2. stage' = "failed"
      BY <1>4, <2>1, <2>3 DEF OptionValue, set_boolean, parse_err
    <3> QED
      BY <3>1, <3>2 DEF Outcome
  <2>4. CASE key \in Booleans => s \in {"true", "false"}
    <3>1. /\ config' = [config EXCEPT ![protoc][key] = Setting(key, s)]
          /\ update' = update \ ({key} \ {Sticky})
          /\ UNCHANGED <<protoc, stage>>
      BY <1>4, <2>1, <2>4 DEF OptionValue, set_boolean, Sticky
    <3>2. update' \subseteq {Sticky} /\ update' \subseteq update
      BY <1>5, <3>1 DEF Flags
    <3>3. ASSUME verdict' = "plain" PROVE config' = meant'
      <4>1. config' = [meant EXCEPT ![p][key] = Setting(key, s)]
        BY <1>6, <3>1 DEF Flags
      <4>2. CASE key = "bind"
        <5>1. Setting(key, s) = s
          BY <4>2 DEF Setting, Booleans
        <5>2. meant' = [meant EXCEPT ![p].bind = s]
          BY <1>9, <3>3, <4>2
        <5> QED
          BY <4>1, <4>2, <5>1, <5>2
      <4>3. CASE key = "max_send_queue"
        <5>1. Setting(key, s) = NumberOf[s]
          <6>1. NumberOf[s] >= 0
            BY <1>7, <2>2, <3>3, <4>3, YamlAssumption DEF Booleans
          <6> QED
            BY <4>3, <6>1, NumberStored DEF Setting, Booleans
        <5>2. meant' = [meant EXCEPT ![p].max_send_queue = NumberOf[s]]
          BY <1>9, <3>3, <4>3
        <5> QED
          BY <4>1, <4>3, <5>1, <5>2
      <4>4. CASE key \in Booleans
        <5>1. Setting(key, s) = (s = "true")
          BY <4>4 DEF Setting
        <5>2. meant' = [meant EXCEPT ![p][key] = (s = "true")]
          BY <1>9, <3>3, <4>4 DEF Booleans
        <5> QED
          BY <4>1, <5>1, <5>2
      <4> QED
        BY <1>12, <4>2, <4>3, <4>4 DEF Options
    <3>4. verdict' = "plain" \/ verdict' = "odd"
      BY <1>7, <2>4
    <3> QED
      BY <1>10, <3>1, <3>2, <3>3, <3>4 DEF Outcome
  <2> QED
    BY <2>3, <2>4
<1> QED
  BY <1>11, <1>12

(* The value of a shard. *)
LEMMA ShardValueFlags ==
    ASSUME TypeOK, Nesting, Flags, verdict = "plain", stage = "parsing",
           NEW s \in Scalars, DocValue(s), ReadScalar(s), Depth = 3
    PROVE  Outcome
<1> DEFINE p == path[1]
<1>1. /\ path \in Seq(Key) /\ Len(path) = 3 /\ NoKey \in Key /\ map_nesting = 3
      /\ path' = [path EXCEPT ![Len(path)] = NoKey] /\ path[3] # NoKey
  BY DEF TypeOK, Nesting, DocValue, ExpectsValue, Depth, Key
<1>2. Len(path') = 3 /\ path'[3] = NoKey /\ path'[1] = p /\ path'[2] = path[2]
  <2>1. Len(path) > 0
    BY <1>1
  <2>2. /\ Len(path') = Len(path) /\ path'[Len(path)] = NoKey
        /\ \A i \in 1..Len(path) : i < Len(path) => path'[i] = path[i]
    BY <1>1, <2>1, PathKey
  <2> QED
    BY <1>1, <2>2
<1>3. ~is_key
  BY <1>1 DEF Nesting, Depth
<1>4. Pending = "shard_map" /\ Pending' = "shard_map"
  <2>1. Pending = "shard_map"
    BY DEF Flags
  <2>2. Len(path) >= 2 /\ Len(path') >= 2
    <3>1. 2 >= 2 /\ 3 >= 2
      OBVIOUS
    <3>2. Len(path) = Len(path') /\ (Len(path) = 2 \/ Len(path) = 3)
      BY <1>1, <1>2, Zenon
    <3> QED
      BY <3>1, <3>2, Zenon
  <2>3. Pending' = Pending
    BY <1>2, <2>2, Zenon DEF Pending, Depth
  <2> QED
    BY <2>1, <2>3
<1>5. expect_shard_map /\ shard_count = Len(Section.ring) - 0
  BY <1>1, <1>4 DEF Flags
<1>6. ShardValue(s)
  BY <1>1, <1>3, <1>5 DEF ReadScalar, ReadByNesting
<1>7. p \in Protos /\ protoc = p
  <2>1. path[1] # NoKey
    BY <1>1 DEF Nesting, Depth
  <2> QED
    BY <1>1, <2>1 DEF Flags, Depth
<1>8. verdict' = "plain" /\ resolveSeen' = resolveSeen
  BY DEF DocValue, Judge, ValueVerdict
<1>9. meant' = [meant EXCEPT ![p].ring = Append(@, s)]
  BY <1>8 DEF DocValue
<1>10. config' = [config EXCEPT ![p].ring = Append(@, s)] /\ UNCHANGED <<flagVars, stage>>
  BY <1>6, <1>7 DEF ShardValue
<1>11. config' = meant'
  BY <1>9, <1>10 DEF Flags
<1>12. shard_count' = Len(Section'.ring) - 1
  <2>1. Section \in ProtoConfigs /\ Section = meant[p] /\ Section' = meant'[p] /\ meant \in [Protos -> ProtoConfigs]
    BY <1>2, <1>7 DEF TypeOK, Section
  <2>2. Section.ring \in Seq(Scalars)
    BY <2>1, FieldsTyped
  <2>3. meant'[p] = [meant[p] EXCEPT !.ring = Append(@, s)]
    BY <1>7, <1>9, <2>1
  <2>4. Section'.ring = Append(Section.ring, s)
    BY <2>1, <2>3 DEF ProtoConfigs
  <2>5. Len(Section'.ring) = Len(Section.ring) + 1 /\ Len(Section.ring) \in Nat
    BY <2>2, <2>4
  <2>6. shard_count' = shard_count
    BY <1>10 DEF flagVars
  <2> QED
    BY <1>5, <2>5, <2>6
<1> QED
  BY <1>1, <1>2, <1>4, <1>5, <1>7, <1>8, <1>10, <1>11, <1>12 DEF Outcome, Flags, Depth, flagVars

-----------------------------------------------------------------------------
(* Flags looks at the first keys of the path only. *)
LEMMA FlagsFrom ==
    ASSUME stage' # "failed", config' = meant',
           UNCHANGED <<protoc, update, expect_shard_map, shard_count, meant, resolveSeen>>,
           Flags, Depth' <= 3,
           Depth' >= 1 /\ path'[1] # NoKey => path'[1] = path[1] /\ Depth >= 1,
           Pending' \notin Options, Pending \notin Options, Depth' = 3 => Pending' = "shard_map",
           Pending' = "shard_map" => Pending = "shard_map" /\ path'[1] = path[1],
           Pending' = "shard_map" =>
               (Depth = 3 /\ path[3] # NoKey <=> Depth' = 3 /\ path'[3] # NoKey)
    PROVE  Flags'
<1>1. update' \ {Sticky} = {Pending'} \cap (Options \ {Sticky})
  BY DEF Flags
<1>2. Pending' # Sticky
  BY NotAnOption
<1>3. Pending' = "shard_map" => Section' = Section
  BY DEF Section
<1>4. Pending' = "shard_map" =>
         /\ expect_shard_map'
         /\ shard_count' = Len(Section'.ring) - (IF Depth' = 3 /\ path'[3] # NoKey THEN 0 ELSE 1)
  BY <1>3 DEF Flags
<1>5. Depth' >= 1 /\ path'[1] # NoKey => path'[1] \in Protos /\ protoc' = path'[1]
  BY DEF Flags
<1>6. Sticky \in update' => resolveSeen'
  BY DEF Flags
<1> QED
  BY <1>1, <1>2, <1>4, <1>5, <1>6 DEF Flags

LEMMA StartFlags ==
    ASSUME TypeOK, Nesting, Flags, verdict = "plain", stage = "parsing", DocMappingStart, ReadMapping(1)
    PROVE  Outcome
<1>1. path \in Seq(Key) /\ Len(path) \in Nat /\ Len(path) <= 3
  BY DEF TypeOK, Key, Flags, Depth
<1>2. /\ Len(path') = Len(path) + 1 /\ path'[Len(path) + 1] = NoKey
      /\ \A i \in 1..Len(path) : path'[i] = path[i]
  BY <1>1, PathStart DEF DocMappingStart
<1>3. Len(path) > 0 => path[Len(path)] # NoKey
  BY DEF DocMappingStart, ExpectsValue, Nesting, Depth
<1>4. verdict' = IF Len(path) < 2 \/ (Len(path) = 2 /\ path[2] = "shard_map") THEN "plain" ELSE "odd"
  BY DEF DocMappingStart, Judge, Depth
<1>5. /\ UNCHANGED <<protoc, update, expect_shard_map, shard_count, meant, resolveSeen, stage, config>>
  BY DEF DocMappingStart, ReadMapping, flagVars
<1>6. CASE verdict' = "plain"
  <2>1. Len(path) \in {0, 1} \/ (Len(path) = 2 /\ path[2] = "shard_map")
    <3>1. \A m \in Nat : m < 2 => m \in {0, 1}
      OBVIOUS
    <3>2. "plain" # "odd"
      OBVIOUS
    <3> QED
      BY <1>1, <1>4, <1>6, <3>1, <3>2, Zenon
  <2>2. CASE Len(path) = 0
    <3>1. Len(path') = 1 /\ path'[1] = NoKey
      BY <1>2, <2>2
    <3>2. ~(0 >= 2) /\ ~(1 >= 2) /\ 1 <= 3 /\ 1 # 3
      OBVIOUS
    <3>3. Pending = NoKey /\ Pending' = NoKey
      BY <2>2, <3>1, <3>2, Zenon DEF Pending, Depth
    <3> QED
      BY <1>5, <1>6, <3>1, <3>2, <3>3, NotAnOption, FlagsFrom DEF Outcome, Flags, Depth
  <2>3. CASE Len(path) = 1
    <3>1. Len(path') = 2 /\ path'[2] = NoKey /\ path'[1] = path[1]
      BY <1>2, <2>3
    <3>2. ~(1 >= 2) /\ 2 >= 2 /\ 2 <= 3 /\ 2 # 3 /\ 1 >= 1
      OBVIOUS
    <3>3. Pending = NoKey /\ Pending' = NoKey
      BY <2>3, <3>1, <3>2, Zenon DEF Pending, Depth
    <3> QED
      BY <1>5, <1>6, <2>3, <3>1, <3>2, <3>3, NotAnOption, FlagsFrom DEF Outcome, Flags, Depth
  <2>4. CASE Len(path) = 2 /\ path[2] = "shard_map"
    <3>1. Len(path') = 3 /\ path'[3] = NoKey /\ path'[2] = path[2] /\ path'[1] = path[1]
      BY <1>2, <2>4
    <3>2. 2 >= 2 /\ 3 >= 2 /\ 3 <= 3 /\ 2 # 3 /\ 2 >= 1
      OBVIOUS
    <3>3. Pending = "shard_map" /\ Pending' = "shard_map"
      BY <2>4, <3>1, <3>2, Zenon DEF Pending, Depth
    <3> QED
      BY <1>5, <1>6, <2>4, <3>1, <3>2, <3>3, NotAnOption, FlagsFrom DEF Outcome, Flags, Depth
  <2> QED
    BY <2>1, <2>2, <2>3, <2>4
<1> QED
  BY <1>4, <1>6 DEF Outcome

LEMMA EndFlags ==
    ASSUME TypeOK, Nesting, Flags, verdict = "plain", stage = "parsing",
           DocMappingEnd, NEW n, ReadMapping(n)
    PROVE  Outcome
<1>1. path \in Seq(Key) /\ Len(path) \in {1, 2, 3}
  <2>1. path \in Seq(Key) /\ Len(path) \in Nat /\ Len(path) <= 3 /\ Len(path) > 0
    BY DEF TypeOK, Key, Flags, DocMappingEnd, ExpectsKey, Depth
  <2>2. \A m \in Nat : m <= 3 /\ m > 0 => m \in {1, 2, 3}
    OBVIOUS
  <2> QED
    BY <2>1, <2>2, Zenon
<1>2. path[Len(path)] = NoKey
  BY DEF DocMappingEnd, ExpectsKey, Depth
<1>3. UNCHANGED <<protoc, update, expect_shard_map, shard_count, meant, resolveSeen, stage, config, verdict>>
  BY DEF DocMappingEnd, ReadMapping, flagVars
<1>4. ASSUME Len(path) > 1
      PROVE  /\ Len(path') = Len(path) - 1 /\ path'[Len(path) - 1] = NoKey
             /\ \A i \in 1..(Len(path) - 2) : path'[i] = path[i]
  <2>1. path' = [SubSeq(path, 1, Len(path) - 1) EXCEPT ![Len(path) - 1] = NoKey]
    BY <1>1, <1>4 DEF DocMappingEnd, Depth
  <2> QED
    BY <1>1, <1>4, <2>1, PathEnd
<1>5. CASE Len(path) = 1
  <2>1. Len(path') = 0
    BY <1>5 DEF DocMappingEnd, Depth
  <2>2. ~(0 >= 2) /\ ~(1 >= 2) /\ 0 <= 3 /\ 0 # 3 /\ ~(0 >= 1)
    OBVIOUS
  <2>3. Pending = NoKey /\ Pending' = NoKey
    BY <1>5, <2>1, <2>2, Zenon DEF Pending, Depth
  <2> QED
    BY <1>3, <2>1, <2>2, <2>3, NotAnOption, FlagsFrom DEF Outcome, Flags, Depth
<1>6. CASE Len(path) = 2
  <2>1. Len(path') = 1 /\ path'[1] = NoKey
    BY <1>4, <1>6
  <2>2. 2 >= 2 /\ ~(1 >= 2) /\ 1 <= 3 /\ 1 # 3
    OBVIOUS
  <2>3. Pending = NoKey /\ Pending' = NoKey
    BY <1>2, <1>6, <2>1, <2>2, Zenon DEF Pending, Depth
  <2> QED
    BY <1>3, <2>1, <2>2, <2>3, NotAnOption, FlagsFrom DEF Outcome, Flags, Depth
<1>7. CASE Len(path) = 3
  <2>1. Len(path') = 2 /\ path'[2] = NoKey /\ path'[1] = path[1]
    BY <1>4, <1>7
  <2>2. 2 >= 2 /\ 2 <= 3 /\ 2 # 3 /\ 3 >= 1
    OBVIOUS
  <2>3. Pending = "shard_map" /\ Pending' = NoKey
    <3>1. Pending = "shard_map"
      BY <1>7 DEF Flags, Depth
    <3> QED
      BY <2>1, <2>2, <3>1, Zenon DEF Pending, Depth
  <2> QED
    BY <1>3, <1>7, <2>1, <2>2, <2>3, NotAnOption, FlagsFrom DEF Outcome, Flags, Depth
<1> QED
  BY <1>1, <1>5, <1>6, <1>7

-----------------------------------------------------------------------------
LEMMA NextFlags ==
    ASSUME TypeOK, Nesting, Flags, verdict = "plain", Next
    PROVE  Outcome
<1>1. ASSUME NEW s \in Scalars, Scalar(s) PROVE Outcome
  <2>1. stage = "parsing" /\ ReadScalar(s) /\ (DocKey(s) \/ DocValue(s) \/ DocScalarOnly)
    BY <1>1 DEF Scalar, Event
  <2>2. Depth \in {0, 1, 2, 3} /\ map_nesting = Depth
    <3>1. Depth \in Nat /\ Depth <= 3
      BY DEF Flags, Depth, TypeOK
    <3> QED
      BY <3>1 DEF Nesting
  <2>3. CASE DocKey(s)
    <3>1. Depth # 0
      BY <2>3 DEF DocKey, ExpectsKey
    <3> QED
      BY <2>1, <2>2, <2>3, <3>1, SectionKeyFlags, OptionKeyFlags, ShardKeyFlags
  <2>4. CASE DocValue(s)
    <3>1. Depth # 0
      BY <2>4 DEF DocValue, ExpectsValue
    <3>2. CASE Depth = 1
      BY <2>4, <3>2 DEF DocValue, Judge, ValueVerdict, Outcome
    <3> QED
      BY <2>1, <2>2, <2>4, <3>1, <3>2, OptionValueFlags, ShardValueFlags
  <2>5. CASE DocScalarOnly
    <3>1. Depth = 0
      BY <2>2, <2>5 DEF DocScalarOnly, Nesting
    <3>2. stage' = "failed"
      BY <2>1, <2>2, <3>1 DEF ReadScalar, ReadByNesting, parse_err
    <3>3. verdict' = "wrong"
      BY <2>5 DEF DocScalarOnly, Judge
    <3> QED
      BY <3>2, <3>3 DEF Outcome
  <2> QED
    BY <2>1, <2>3, <2>4, <2>5
<1>2. CASE MappingStart
  BY <1>2, StartFlags DEF MappingStart, Event
<1>3. CASE MappingEnd
  BY <1>3, EndFlags DEF MappingEnd, Event
<1>4. CASE DocumentStart \/ DocumentEnd \/ StreamEnd
  <2>1. /\ UNCHANGED <<config, protoc, update, expect_shard_map, shard_count, path, meant, verdict, resolveSeen>>
        /\ stage' # "failed"
    BY <1>4 DEF DocumentStart, DocumentEnd, StreamEnd, parserVars, flagVars, Event
  <2> QED
    BY <2>1 DEF Outcome, Flags, Pending, Depth, Section
<1>5. CASE SequenceOrAlias
  BY <1>5 DEF SequenceOrAlias, parse_err, Judge, Outcome
<1>6. CASE ReadFails
  BY <1>6 DEF ReadFails, Outcome
<1> QED
  BY <1>1, <1>2, <1>3, <1>4, <1>5, <1>6 DEF Next

LEMMA NextPreserves == IInv /\ [Next]_vars => IInv'
<1> SUFFICES ASSUME IInv, [Next]_vars PROVE IInv'
  OBVIOUS
<1>1. CASE UNCHANGED vars
  BY <1>1 DEF IInv, TypeOK, Nesting, Flags, Pending, Depth, Section, WrongRejected,
             vars, parserVars, flagVars, docVars
<1>2. CASE Next
  <2>1. TypeOK' /\ Nesting'
    BY <1>2, NextTyped, NextNesting DEF IInv
  <2>2. CASE verdict = "plain"
    <3>1. Outcome
      BY <1>2, <2>2, NextFlags DEF IInv
    <3> QED
      BY <2>1, <3>1 DEF IInv, Outcome, WrongRejected
  <2>3. CASE verdict # "plain"
    <3>1. stage = "parsing"
      BY <1>2 DEF Next, Scalar, MappingStart, MappingEnd, DocumentStart, DocumentEnd,
                  SequenceOrAlias, ReadFails, StreamEnd, Event
    <3>2. verdict = "odd"
      BY <2>3, <3>1 DEF IInv, TypeOK, WrongRejected
    <3>3. verdict' = "odd"
      BY <1>2, <3>2 DEF Next, Scalar, MappingStart, MappingEnd, DocumentStart, DocumentEnd,
                  SequenceOrAlias, ReadFails, StreamEnd, DocKey, DocValue, DocScalarOnly,
                  DocMappingStart, DocMappingEnd, Judge
    <3> QED
      BY <2>1, <3>3 DEF IInv, WrongRejected
  <2> QED
    BY <2>2, <2>3
<1> QED
  BY <1>1, <1>2

LEMMA InitIInv == Init => IInv
<1> SUFFICES ASSUME Init PROVE IInv
  OBVIOUS
<1>1. Defaults \in Configs
  <2>1. ProtoDefaults("127.0.0.1:2003") \in ProtoConfigs /\ ProtoDefaults("127.0.0.1:8125") \in ProtoConfigs
    <3>1. DefaultQueue \in Uint64
      BY YamlAssumption, SMT DEF Uint64, DefaultQueue
    <3> QED
      BY <3>1 DEF ProtoDefaults, ProtoConfigs
  <2> QED
    BY <2>1 DEF Defaults, Configs
<1>2. Defaults # NoConfig
  BY <1>1, NotNoConfig
<1>3. Depth = 0 /\ path = <<>> /\ path \in Seq(Key)
  BY DEF Init, Depth
<1>4. Pending = NoKey
  <2>1. ~(0 >= 2)
    OBVIOUS
  <2> QED
    BY <1>3, <2>1, Zenon DEF Pending
<1>5. ParserTyped /\ DocTyped
  <2>1. config = Defaults /\ protoc = "null" /\ update = {} /\ stage = "parsing" /\ shard_count = 0 - 1
    BY DEF Init
  <2>2. expect_shard_map \in BOOLEAN /\ resolveSeen \in BOOLEAN
    BY DEF Init
  <2>3. shard_count \in Int
    BY <2>1
  <2>4. ParserTyped
    BY <1>1, <1>2, <2>1, <2>2, <2>3 DEF ParserTyped
  <2> QED
    BY <1>1, <1>3, <2>2, <2>4 DEF Init, DocTyped
<1>6. TypeOK
  <2>1. map_nesting = 0 /\ events = 0 /\ MaxNesting \in Nat /\ MaxEvents \in Nat
    BY YamlAssumption DEF Init
  <2>2. map_nesting \in 0..MaxNesting /\ events \in 0..MaxEvents
    BY <2>1
  <2>3. is_key \in BOOLEAN
    BY DEF Init
  <2> QED
    BY <1>5, <2>2, <2>3, TypeParts
<1>7. Nesting
  BY <1>3, YamlAssumption DEF Init, Nesting
<1>8. Flags
  BY <1>3, <1>4, NotAnOption DEF Init, Flags
<1> QED
  BY <1>6, <1>7, <1>8 DEF Init, IInv, WrongRejected

LEMMA Invariant == Spec => []IInv
BY InitIInv, NextPreserves, PTL DEF Spec

(***************************************************************************)
(* The state of parse_config stays in its types, and the configuration is  *)
(* gone exactly when the parser has given up.                              *)
(***************************************************************************)
THEOREM ParserTypeCorrect == Spec => []TypeOK
<1>1. IInv => TypeOK
  BY DEF IInv
<1> QED
  BY <1>1, Invariant, PTL

(***************************************************************************)
(* A plain document of any length, with any texts, is not refused, and     *)
(* each of its settings is in the section that wrote it: the flag that a   *)
(* key leaves is taken by that key's value and by no other scalar.         *)
(***************************************************************************)
THEOREM ConfigAsWritten == Spec => []ReadAsWritten
<1>1. IInv => ReadAsWritten
  BY DEF IInv, Flags, ReadAsWritten
<1> QED
  BY <1>1, Invariant, PTL

(***************************************************************************)
(* A document that breaks a rule of the format is refused, wherever in it  *)
(* that happens: unknown sections, sequences, booleans that are none and   *)
(* shards that are not numbered in their order.                            *)
(***************************************************************************)
THEOREM WrongConfigRejected == Spec => []WrongRejected
<1>1. IInv => WrongRejected
  BY DEF IInv
<1> QED
  BY <1>1, Invariant, PTL
=============================================================================
