---------------------------- MODULE HashRingProofs ----------------------------
(***************************************************************************)
(* Proofs about HashRing, for every configuration and every failure.       *)
(***************************************************************************)
EXTENDS HashRing, SequenceTheorems, FiniteSetTheorems, TLAPS

Keys == Addresses \X {"tcp", "udp"}

(* The part of the state the shards are about is well typed. *)
RingType ==
    /\ config \in Seq(Entries)
    /\ made \in Seq(Keys)
    /\ backend_list \in Seq(Objects)
    /\ ring \in Seq(Objects)
    /\ server \in {"null", "up"}

(* The shards loaded so far are the first of the configuration, and a      *)
(* server that is up has all of them.                                      *)
Prefix ==
    /\ Len(ring) <= Len(config)
    /\ \A i \in 1..Len(ring) :
          config[i] # Malformed /\ Names(config[i], made[ring[i]])
    /\ server = "up" => Len(ring) = Len(config) /\ stage # "loading"

IInv == RingType /\ Prefix

(* Element i of the ring is the first that is object b. *)
FirstUse(b, i) == ring[i] = b /\ \A j \in 1..(i - 1) : ring[j] # b

(***************************************************************************)
(* As long as no list failed to grow, and while a ring is being loaded or  *)
(* served, the objects, the elements of backend_list and the keys          *)
(* correspond one to one and the ring holds every object.  Each has been   *)
(* released once exactly when the ring has been, but for an object that    *)
(* make_backend dropped, with which a load ends.                           *)
(***************************************************************************)
ListExact ==
    /\ \A i, j \in 1..Len(backend_list) : backend_list[i] = backend_list[j] => i = j
    /\ \A b \in Objects : \E i \in 1..Len(backend_list) : backend_list[i] = b
    /\ \A a, b \in Objects : made[a] = made[b] => a = b

InUse == stage = "loading" \/ (server = "up" /\ initialized)

RingCovers == \A b \in Objects : \E i \in 1..Len(ring) : FirstUse(b, i)

Held == stage = "loading" \/ server = "up"

Ledger ==
    /\ stage = "loading" => initialized /\ server = "null"
    /\ stage = "exited" => ~initialized
    /\ Held => leaked = {}
    /\ \A b \in leaked : b = Len(made)
    /\ ~oom => /\ Held => ListExact /\ RingCovers
               /\ \A b \in Objects : frees[b] = IF InUse \/ b \in leaked THEN 0 ELSE 1

-----------------------------------------------------------------------------
(* The key of a well-formed shard names that shard. *)
LEMMA KeyNames ==
    ASSUME NEW e \in Entries, e # Malformed
    PROVE  full_key(e) \in Keys /\ Names(e, full_key(e))
<1>1. e \in [addr : Addresses, proto : {"none", "tcp", "udp"}]
  BY DEF Entries
<1> QED
  BY <1>1 DEF full_key, Names, Keys

(* make_backend returns an object with the key of the shard, and every     *)
(* earlier object keeps its key.                                           *)
LEMMA MakeBackendKeys ==
    ASSUME RingType, NEW e \in Entries, e # Malformed,
           NEW b \in 1..(Len(made) + 1), make_backend(e, b)
    PROVE  /\ made' \in Seq(Keys) /\ backend_list' \in Seq(1..Len(made'))
           /\ Len(made) <= Len(made')
           /\ b \in 1..Len(made') /\ made'[b] = full_key(e)
           /\ \A o \in Objects : made'[o] = made[o]
<1> DEFINE key == full_key(e)
<1>1. key \in Keys
  BY KeyNames
<1>2. CASE b \in find_backend(key) /\ UNCHANGED <<backend_list, made>>
  <2>1. b \in Objects /\ made[b] = key
    BY <1>2 DEF find_backend, RingType
  <2> QED
    BY <1>2, <2>1 DEF RingType, Objects
<1>3. CASE /\ b = Len(made) + 1
           /\ made' = Append(made, key)
           /\ backend_list' = Append(backend_list, b) \/ UNCHANGED backend_list
  <2> HIDE DEF key
  <2>1. made \in Seq(Keys) /\ backend_list \in Seq(1..Len(made))
    BY DEF RingType, Objects
  <2>2. /\ made' \in Seq(Keys) /\ Len(made') = Len(made) + 1
        /\ made'[b] = key /\ \A o \in 1..Len(made) : made'[o] = made[o]
    BY <1>1, <1>3, <2>1
  <2>3. backend_list \in Seq(1..Len(made'))
    <3>1. Len(made) \in Nat
      BY <2>1
    <3>2. 1..Len(made) \subseteq 1..Len(made')
      BY <2>2, <3>1
    <3> QED
      BY <2>1, <3>2, SeqMonotonic
  <2>4. backend_list' \in Seq(1..Len(made'))
    <3>1. b \in 1..Len(made')
      BY <1>3, <2>1, <2>2
    <3>2. Append(backend_list, b) \in Seq(1..Len(made'))
      BY <2>3, <3>1
    <3> QED
      BY <1>3, <2>3, <3>2
  <2>5. Len(made) \in Nat
    BY <2>1
  <2> QED
    BY <1>3, <2>2, <2>4, <2>5 DEF key, Objects
<1> QED
  BY <1>2, <1>3 DEF make_backend

-----------------------------------------------------------------------------
(* A step of a started server or of the process leaves the ring alone. *)
LEMMA RestPreserves ==
    ASSUME IInv,
           UNCHANGED <<config, ring, backend_list, made, server>>,
           stage' = "loading" => stage = "loading"
    PROVE  IInv'
BY DEF IInv, RingType, Prefix, Objects, Names

LEMMA AddShardPreserves ==
    ASSUME IInv, AddShard
    PROVE  IInv'
<1>1. /\ RingType
      /\ Len(ring) \in Nat /\ Len(config) \in Nat /\ Len(made) \in Nat
      /\ Len(ring) < Len(config)
      /\ Shard \in Entries /\ Shard # Malformed
  BY DEF IInv, RingType, AddShard, Loading, Shard
<1>2. PICK b \in 1..(Len(made) + 1) : make_backend(Shard, b) /\ ring' = Append(ring, b)
  BY DEF AddShard
<1>3. /\ made' \in Seq(Keys) /\ backend_list' \in Seq(1..Len(made'))
      /\ Len(made) <= Len(made')
      /\ b \in 1..Len(made') /\ made'[b] = full_key(Shard)
      /\ \A o \in Objects : made'[o] = made[o]
  BY <1>1, <1>2, MakeBackendKeys
<1>4. UNCHANGED <<config, server, stage>> /\ stage = "loading"
  BY DEF AddShard, Loading
<1>5. ring \in Seq(1..Len(made))
  BY DEF IInv, RingType, Objects
<1>6. ring' \in Seq(1..Len(made'))
  <2>1. 1..Len(made) \subseteq 1..Len(made')
    BY <1>1, <1>3
  <2>2. ring \in Seq(1..Len(made'))
    BY <1>5, <2>1, SeqMonotonic
  <2> QED
    BY <1>2, <1>3, <2>2
<1>7. RingType'
  BY <1>1, <1>3, <1>4, <1>6 DEF RingType, Objects
<1>8. Len(ring') = Len(ring) + 1 /\ Len(ring') <= Len(config')
  BY <1>1, <1>2, <1>4, <1>5
<1>9. ASSUME NEW i \in 1..Len(ring')
      PROVE  config'[i] # Malformed /\ Names(config'[i], made'[ring'[i]])
  <2>1. CASE i \in 1..Len(ring)
    <3>1. ring'[i] = ring[i] /\ ring[i] \in 1..Len(made)
      BY <1>2, <1>5, <2>1
    <3>2. made'[ring'[i]] = made[ring[i]]
      BY <1>3, <3>1 DEF Objects
    <3> QED
      BY <1>4, <2>1, <3>2 DEF IInv, Prefix
  <2>2. CASE i = Len(ring) + 1
    <3>1. ring'[i] = b /\ config'[i] = Shard
      BY <1>2, <1>4, <1>5, <2>2 DEF Shard
    <3> QED
      BY <1>1, <1>3, <3>1, KeyNames
  <2> QED
    BY <1>1, <1>8, <2>1, <2>2
<1>10. server' # "up"
  BY <1>4 DEF IInv, Prefix
<1> QED
  BY <1>7, <1>8, <1>9, <1>10 DEF IInv, Prefix

(* A load that fails for want of an object leaves the list as it was, and  *)
(* at most one object more, which it drops.                                *)
LEMMA AllocFailsKeys ==
    ASSUME RingType, AllocFails
    PROVE  /\ made' \in Seq(Keys) /\ backend_list' \in Seq(1..Len(made'))
           /\ \/ /\ UNCHANGED <<made, leaked>>
                 /\ frees' = hashring_dealloc(ring, frees)
              \/ /\ Len(made') = Len(made) + 1 /\ leaked' = leaked \cup {Len(made')}
                 /\ frees' = Append(hashring_dealloc(ring, frees), 0)
<1>1. /\ made \in Seq(Keys) /\ backend_list \in Seq(1..Len(made)) /\ Len(made) \in Nat
      /\ backend_list' = backend_list
  BY DEF RingType, Objects, AllocFails
<1>2. CASE NoObject
  BY <1>1, <1>2 DEF NoObject
<1>3. CASE ObjectDropped
  <2> DEFINE key == full_key(Shard)
  <2>1. Shard \in Entries /\ Shard # Malformed
    BY <1>3 DEF RingType, AllocFails, Loading, Shard, ObjectDropped
  <2>2. key \in Keys /\ made' = Append(made, key)
    BY <1>3, <2>1, KeyNames DEF ObjectDropped
  <2> HIDE DEF key
  <2>3. made' \in Seq(Keys) /\ Len(made') = Len(made) + 1
    BY <1>1, <2>2
  <2>4. 1..Len(made) \subseteq 1..Len(made')
    BY <1>1, <2>3
  <2>5. backend_list' \in Seq(1..Len(made'))
    BY <1>1, <2>4, SeqMonotonic
  <2> QED
    BY <1>3, <2>3, <2>5 DEF ObjectDropped
<1> QED
  BY <1>2, <1>3 DEF AllocFails

(* After a failure there is no ring and no server. *)
LEMMA FailurePreserves ==
    ASSUME IInv, AllocFails \/ ExpandFails
    PROVE  IInv'
<1>1. server = "null" /\ server' = server /\ ring' = <<>> /\ config' = config
  BY DEF IInv, RingType, Prefix, AllocFails, ExpandFails, Loading
<1>2. made' \in Seq(Keys) /\ backend_list' \in Seq(1..Len(made'))
  <2>1. CASE AllocFails
    BY <2>1, AllocFailsKeys DEF IInv
  <2>2. CASE ExpandFails
    <3>1. RingType /\ Shard \in Entries /\ Shard # Malformed
      BY <2>2 DEF IInv, RingType, Prefix, ExpandFails, Loading, Shard
    <3>2. PICK b \in 1..(Len(made) + 1) : make_backend(Shard, b)
      BY <2>2 DEF ExpandFails
    <3> QED
      BY <3>1, <3>2, MakeBackendKeys
  <2> QED
    BY <2>1, <2>2
<1>3. ring' \in Seq(1..Len(made')) /\ Len(ring') = 0
  BY <1>1
<1>4. RingType'
  BY <1>1, <1>2, <1>3 DEF IInv, RingType, Objects
<1>5. Len(ring') <= Len(config')
  BY <1>3, <1>4 DEF RingType
<1> QED
  BY <1>1, <1>3, <1>4, <1>5 DEF IInv, Prefix

LEMMA LoadedPreserves ==
    ASSUME IInv, Loaded
    PROVE  IInv'
<1>1. /\ UNCHANGED <<config, ring, backend_list, made>>
      /\ server' \in {"null", "up"} /\ stage' = "running" /\ Len(ring) = Len(config)
  BY DEF Loaded, ringVars
<1>2. RingType'
  BY <1>1 DEF IInv, RingType, Objects
<1> QED
  BY <1>1, <1>2 DEF IInv, Prefix, Names

LEMMA NextPreserves ==
    ASSUME IInv, [Next]_vars
    PROVE  IInv'
<1>1. CASE AddShard
  BY <1>1, AddShardPreserves
<1>2. CASE AllocFails \/ ExpandFails
  BY <1>2, FailurePreserves
<1>3. CASE Loaded
  BY <1>3, LoadedPreserves
<1>4. CASE graceful_shutdown \/ MainReturns
  <2>1. /\ UNCHANGED <<config, ring, backend_list, made, server>>
        /\ stage' # "loading"
    BY <1>4 DEF graceful_shutdown, MainReturns
  <2> QED
    BY <2>1, RestPreserves
<1>5. CASE reload_config \/ Exited \/ UNCHANGED vars
  <2>1. UNCHANGED <<config, ring, backend_list, made, server, stage>>
    BY <1>5 DEF reload_config, Exited, vars, ringVars
  <2> QED
    BY <2>1, RestPreserves
<1> QED
  BY <1>1, <1>2, <1>3, <1>4, <1>5 DEF Next

LEMMA InitIInv ==
    ASSUME Init
    PROVE  IInv
BY RingAssumption DEF Init, IInv, RingType, Prefix, Objects

(***************************************************************************)
(* Virtual shard n is line n of the shard map on every server that starts, *)
(* for every configuration and wherever an allocation or a connection      *)
(* fails.                                                                  *)
(***************************************************************************)
THEOREM ShardsCorrect == Spec => []ShardsMatchConfig
<1>1. IInv => ShardsMatchConfig
  BY DEF IInv, RingType, Prefix, ShardsMatchConfig
<1> QED
  BY <1>1, InitIInv, NextPreserves, PTL DEF Spec

-----------------------------------------------------------------------------
(***************************************************************************)
(* hashring_dealloc releases once what the ring holds, and nothing else,   *)
(* however often it is in the ring.                                        *)
(***************************************************************************)
FirstUses(r, b) == {i \in DOMAIN r : r[i] = b /\ \A j \in 1..(i - 1) : r[j] # r[i]}

LEMMA DeallocCounts ==
    ASSUME NEW S, NEW r \in Seq(S), NEW f \in Seq(Nat)
    PROVE  /\ hashring_dealloc(r, f) \in Seq(Nat)
           /\ Len(hashring_dealloc(r, f)) = Len(f)
           /\ \A b \in 1..Len(f) :
                 /\ Cardinality(FirstUses(r, b)) \in Nat
                 /\ hashring_dealloc(r, f)[b] = f[b] + Cardinality(FirstUses(r, b))
<1>1. Len(r) \in Nat /\ DOMAIN r = 1..Len(r) /\ Len(f) \in Nat /\ DOMAIN f = 1..Len(f)
  OBVIOUS
<1>2. ASSUME NEW b PROVE Cardinality(FirstUses(r, b)) \in Nat
  <2>1. FirstUses(r, b) \in SUBSET (1..Len(r))
    BY <1>1 DEF FirstUses
  <2>2. IsFiniteSet(1..Len(r))
    BY <1>1, FS_Interval
  <2>3. IsFiniteSet(FirstUses(r, b))
    BY <2>1, <2>2, FS_Subset
  <2> QED
    BY <2>3, FS_CardinalityType
<1>3. hashring_dealloc(r, f) = [b \in 1..Len(f) |-> f[b] + Cardinality(FirstUses(r, b))]
  BY <1>1 DEF hashring_dealloc, FirstUses
<1> DEFINE g == [b \in 1..Len(f) |-> f[b] + Cardinality(FirstUses(r, b))]
<1>4. \A b \in 1..Len(f) : g[b] \in Nat
  BY <1>2
<1>5. g \in Seq(Nat) /\ Len(g) = Len(f)
  BY <1>1, <1>4
<1> QED
  BY <1>2, <1>3, <1>5

LEMMA DeallocOnce ==
    ASSUME NEW S, NEW r \in Seq(S), NEW b,
           NEW i \in 1..Len(r), r[i] = b, \A j \in 1..(i - 1) : r[j] # b
    PROVE  Cardinality(FirstUses(r, b)) = 1
<1>1. FirstUses(r, b) = {i}
  BY DEF FirstUses
<1> QED
  BY <1>1, FS_Singleton

(* An object that make_backend has just made has a count of zero. *)
LEMMA FreesExtended ==
    ASSUME RingType, frees \in Seq(Nat), Len(frees) = Len(made),
           NEW e \in Entries, e # Malformed,
           NEW b \in 1..(Len(made) + 1), make_backend(e, b)
    PROVE  /\ FreesOf(b) \in Seq(Nat) /\ Len(FreesOf(b)) = Len(made')
           /\ \A o \in Objects : FreesOf(b)[o] = frees[o]
           /\ b \notin Objects => Len(made') = Len(made) + 1 /\ FreesOf(b)[b] = 0
           /\ b \in Objects => made' = made
<1>1. Len(made) \in Nat
  BY DEF RingType
<1>2. CASE b \in find_backend(full_key(e)) /\ UNCHANGED <<backend_list, made>>
  <2>1. b \in 1..Len(made)
    BY <1>2 DEF find_backend, RingType, Objects
  <2>2. FreesOf(b) = frees
    BY <1>1, <2>1 DEF FreesOf
  <2> QED
    BY <1>2, <2>1, <2>2 DEF Objects
<1>3. CASE b = Len(made) + 1 /\ made' = Append(made, full_key(e))
  <2>1. FreesOf(b) = Append(frees, 0)
    BY <1>1, <1>3 DEF FreesOf
  <2>2. Len(made') = Len(made) + 1
    <3> DEFINE k == full_key(e)
    <3> HIDE DEF k
    <3>1. made' = Append(made, k) /\ made \in Seq(Keys)
      BY <1>3 DEF k, RingType
    <3> QED
      BY <3>1, AppendProperties, KeyNames DEF k
  <2>3. Append(frees, 0) \in Seq(Nat) /\ Len(Append(frees, 0)) = Len(made) + 1
    OBVIOUS
  <2>4. Append(frees, 0)[b] = 0 /\ b \notin 1..Len(made)
    BY <1>1, <1>3
  <2>5. \A o \in 1..Len(made) : Append(frees, 0)[o] = frees[o]
    BY <1>1
  <2> QED
    BY <2>1, <2>2, <2>3, <2>4, <2>5 DEF Objects
<1> QED
  BY <1>2, <1>3 DEF make_backend

(* A count that is incremented is still a count. *)
LEMMA IncrementCounts ==
    ASSUME NEW f \in Seq(Nat), NEW b \in 1..Len(f)
    PROVE  /\ [f EXCEPT ![b] = @ + 1] \in Seq(Nat)
           /\ Len([f EXCEPT ![b] = @ + 1]) = Len(f)
<1>1. f[b] + 1 \in Nat
  OBVIOUS
<1> QED
  BY <1>1, ExceptSeq

(* The rest of the type invariant. *)
Accounts ==
    /\ frees \in Seq(Nat) /\ Len(frees) = Len(made)
    /\ leaked \subseteq Objects
    /\ allocated \in Nat /\ Len(ring) <= allocated
    /\ initialized \in BOOLEAN /\ oom \in BOOLEAN
    /\ stage \in {"loading", "running", "stopping", "exited"}

(* The array is doubled before an element is stored past its end. *)
LEMMA ListGrows ==
    ASSUME allocated \in Nat, NEW n \in Nat, n <= allocated
    PROVE  AllocatedFor(n + 1) \in Nat /\ n + 1 <= AllocatedFor(n + 1)
BY DEF AllocatedFor

LEMMA NextAccounts ==
    ASSUME IInv, Accounts, [Next]_vars
    PROVE  Accounts'
<1>1. /\ RingType /\ ring \in Seq(1..Len(made)) /\ Len(ring) \in Nat /\ Len(made) \in Nat
      /\ frees \in Seq(Nat) /\ Len(frees) = Len(made)
  BY DEF IInv, RingType, Objects, Accounts
<1>2. /\ hashring_dealloc(ring, frees) \in Seq(Nat)
      /\ Len(hashring_dealloc(ring, frees)) = Len(made)
  BY <1>1, DeallocCounts
<1>3. CASE AddShard
  <2>1. PICK b \in 1..(Len(made) + 1) :
           make_backend(Shard, b) /\ ring' = Append(ring, b) /\ frees' = FreesOf(b)
    BY <1>3 DEF AddShard
  <2>2. Shard \in Entries /\ Shard # Malformed
    BY <1>1, <1>3 DEF RingType, AddShard, Loading, Shard
  <2>3. frees' \in Seq(Nat) /\ Len(frees') = Len(made')
    BY <1>1, <2>1, <2>2, FreesExtended
  <2>4. Len(ring') = Len(ring) + 1
    BY <1>1, <2>1
  <2>5. allocated' \in Nat /\ Len(ring') <= allocated'
    BY <1>1, <1>3, <2>4, ListGrows DEF Accounts, AddShard
  <2>6. oom' \in BOOLEAN
    BY <1>3 DEF AddShard, Accounts
  <2>7. leaked' \subseteq Objects'
    <3>1. Len(made) <= Len(made') /\ Len(made') \in Nat
      BY <1>1, <2>1, <2>2, MakeBackendKeys
    <3> QED
      BY <1>1, <1>3, <3>1 DEF AddShard, Accounts, Objects
  <2> QED
    BY <1>3, <2>3, <2>5, <2>6, <2>7 DEF Accounts, AddShard
<1>4. CASE AllocFails
  <2> DEFINE f == hashring_dealloc(ring, frees)
  <2>1. /\ f \in Seq(Nat) /\ Len(f) = Len(made)
        /\ Append(f, 0) \in Seq(Nat) /\ Len(Append(f, 0)) = Len(made) + 1
    <3>1. f \in Seq(Nat) /\ Len(f) = Len(made)
      BY <1>2
    <3> HIDE DEF f
    <3> QED
      BY <3>1
  <2>2. \/ made' = made /\ leaked' = leaked /\ frees' = f
        \/ /\ Len(made') = Len(made) + 1 /\ leaked' = leaked \cup {Len(made')}
           /\ frees' = Append(f, 0)
    BY <1>1, <1>4, AllocFailsKeys
  <2>3. frees' \in Seq(Nat) /\ Len(frees') = Len(made')
    <3> HIDE DEF f
    <3> QED
      BY <2>1, <2>2
  <2>4. leaked' \subseteq 1..Len(made')
    <3>1. leaked \subseteq 1..Len(made)
      BY DEF Accounts, Objects
    <3>2. CASE made' = made /\ leaked' = leaked
      BY <3>1, <3>2
    <3>3. CASE Len(made') = Len(made) + 1 /\ leaked' = leaked \cup {Len(made')}
      <4>1. 1..Len(made) \subseteq 1..Len(made') /\ Len(made') \in 1..Len(made')
        BY <1>1, <3>3
      <4> QED
        BY <3>1, <3>3, <4>1, Zenon
    <3> QED
      BY <2>2, <3>2, <3>3
  <2> QED
    BY <1>4, <2>3, <2>4 DEF AllocFails, Accounts, Objects
<1>5. CASE ExpandFails
  <2>1. PICK b \in 1..(Len(made) + 1) :
           /\ make_backend(Shard, b)
           /\ frees' = hashring_dealloc(Append(ring, Garbage), [FreesOf(b) EXCEPT ![b] = @ + 1])
    BY <1>5 DEF ExpandFails
  <2>2. Shard \in Entries /\ Shard # Malformed
    BY <1>1, <1>5 DEF RingType, ExpandFails, Loading, Shard
  <2>3. FreesOf(b) \in Seq(Nat) /\ Len(FreesOf(b)) = Len(made')
    BY <1>1, <2>1, <2>2, FreesExtended
  <2> DEFINE f == [FreesOf(b) EXCEPT ![b] = @ + 1]
  <2>4. f \in Seq(Nat) /\ Len(f) = Len(made')
    <3>1. b \in 1..Len(made')
      BY <1>1, <2>1, <2>2, MakeBackendKeys
    <3> QED
      BY <2>3, <3>1, IncrementCounts
  <2>5. Append(ring, Garbage) \in Seq(0..Len(made))
    <3>1. ring \in Seq(0..Len(made))
      BY <1>1, SeqMonotonic
    <3> QED
      BY <1>1, <3>1 DEF Garbage
  <2>6. frees' \in Seq(Nat) /\ Len(frees') = Len(made')
    BY <2>1, <2>4, <2>5, DeallocCounts
  <2>7. leaked' \subseteq Objects'
    <3>1. Len(made) <= Len(made') /\ Len(made') \in Nat
      BY <1>1, <2>1, <2>2, MakeBackendKeys
    <3> QED
      BY <1>1, <1>5, <3>1 DEF ExpandFails, Accounts, Objects
  <2> QED
    BY <1>5, <2>6, <2>7 DEF ExpandFails, Accounts
<1>6. CASE Loaded \/ reload_config \/ Exited \/ UNCHANGED vars
  BY <1>6 DEF Loaded, reload_config, Exited, vars, ringVars, Accounts, Objects
<1>7. CASE graceful_shutdown \/ MainReturns
  <2>1. frees' \in Seq(Nat) /\ Len(frees') = Len(made')
    BY <1>1, <1>2, <1>7
    DEF graceful_shutdown, MainReturns, destroy_server_collection, destroy_server
  <2> QED
    BY <1>7, <2>1
    DEF graceful_shutdown, MainReturns, destroy_server_collection, Accounts, Objects
<1> QED
  BY <1>3, <1>4, <1>5, <1>6, <1>7 DEF Next

LEMMA InitAccounts ==
    ASSUME Init
    PROVE  Accounts
<1>1. frees \in Seq(Nat) /\ Len(frees) = 0 /\ Len(made) = 0 /\ Len(ring) = 0
  BY DEF Init
<1>2. initialized \in BOOLEAN /\ oom \in BOOLEAN
  BY Zenon DEF Init
<1>3. allocated \in Nat /\ Len(ring) <= allocated /\ stage = "loading" /\ leaked = {}
  BY <1>1 DEF Init
<1> QED
  BY <1>1, <1>2, <1>3 DEF Accounts

(***************************************************************************)
(* The array of the ring always holds what hashring_add stores in it, and  *)
(* no element points to an object that was never made.                     *)
(***************************************************************************)
THEOREM RingTypeCorrect == Spec => []TypeOK
<1>1. IInv /\ Accounts => TypeOK
  BY DEF IInv, RingType, Accounts, TypeOK, Keys
<1> QED
  BY <1>1, InitIInv, InitAccounts, NextPreserves, NextAccounts, PTL DEF Spec

-----------------------------------------------------------------------------
(* Once loading is over the ring, the list and the keys never change, so   *)
(* that only the counts and the stage matter.                              *)
LEMMA LedgerStill ==
    ASSUME Ledger, UNCHANGED <<ring, backend_list, made, leaked, server, oom>>,
           stage' = "loading" => stage = "loading" /\ initialized',
           stage' = "exited" => ~initialized',
           ~oom => \A b \in Objects :
                      frees'[b] = IF InUse' \/ b \in leaked THEN 0 ELSE 1
    PROVE  Ledger'
<1>1. Held' => Held
  BY DEF Held
<1>2. ~oom /\ Held => ListExact' /\ RingCovers'
  BY DEF Ledger, ListExact, RingCovers, FirstUse, Objects
<1> QED
  BY <1>1, <1>2 DEF Ledger, Objects

(* A shard of a backend that is already there. *)
LEMMA AddKnownLedger ==
    ASSUME IInv, Accounts, Ledger, Loading, ~oom,
           NEW b \in Objects, ring' = Append(ring, b), frees' = frees,
           UNCHANGED <<backend_list, made, leaked, server, initialized, stage>>
    PROVE  Ledger'
<1>1. ring \in Seq(1..Len(made)) /\ Len(ring) \in Nat /\ stage = "loading"
  BY DEF IInv, RingType, Objects, Loading
<1>0. Held /\ leaked = {} /\ ListExact /\ RingCovers
  BY <1>1 DEF Ledger, Held
<1>2. /\ Len(ring') = Len(ring) + 1
      /\ \A i \in 1..Len(ring) : ring'[i] = ring[i]
  BY <1>1 DEF Objects
<1>3. ListExact'
  BY <1>0 DEF ListExact, Objects
<1>4. RingCovers'
  <2> SUFFICES ASSUME NEW o \in Objects
               PROVE  \E i \in 1..Len(ring') : FirstUse(o, i)'
    BY DEF RingCovers, Objects
  <2>1. PICK i \in 1..Len(ring) : FirstUse(o, i)
    BY <1>0 DEF RingCovers
  <2>2. i \in 1..Len(ring') /\ FirstUse(o, i)'
    BY <1>1, <1>2, <2>1 DEF FirstUse
  <2> QED
    BY <2>2
<1>5. \A o \in Objects' : frees'[o] = IF InUse' \/ o \in leaked' THEN 0 ELSE 1
  BY DEF Ledger, InUse, Objects
<1> QED
  BY <1>0, <1>1, <1>3, <1>4, <1>5 DEF Ledger

(* t is s with one more element. *)
IsAppended(s, e, t) ==
    /\ Len(t) = Len(s) + 1 /\ t[Len(s) + 1] = e
    /\ \A i \in 1..Len(s) : t[i] = s[i]

LEMMA AppendedLast ==
    ASSUME NEW s \in Seq(Nat), NEW e \in Nat, NEW t, t = Append(s, e)
    PROVE  IsAppended(s, e, t)
BY DEF IsAppended

(* A shard of a new backend: no object had its key. *)
LEMMA AddNewLedger ==
    ASSUME IInv, Accounts, Ledger, Loading, ~oom,
           NEW key \in Keys, find_backend(key) = {},
           NEW b, b = Len(made) + 1, ring' = Append(ring, b),
           made' = Append(made, key), backend_list' = Append(backend_list, b),
           frees' \in Seq(Nat), frees'[b] = 0,
           \A o \in Objects : frees'[o] = frees[o],
           UNCHANGED <<leaked, server, initialized, stage>>
    PROVE  Ledger'
<1>1. /\ ring \in Seq(1..Len(made)) /\ Len(ring) \in Nat
      /\ backend_list \in Seq(1..Len(made)) /\ Len(backend_list) \in Nat
      /\ made \in Seq(Keys) /\ Len(made) \in Nat
      /\ stage = "loading"
  BY DEF IInv, RingType, Objects, Loading
<1>2. /\ Len(ring') = Len(ring) + 1 /\ ring'[Len(ring) + 1] = b
      /\ \A i \in 1..Len(ring) : ring'[i] = ring[i] /\ ring[i] \in 1..Len(made)
  <2>1. ring \in Seq(Nat) /\ b \in Nat
    BY <1>1, SeqMonotonic
  <2>2. IsAppended(ring, b, ring')
    BY <2>1, AppendedLast
  <2>3. \A i \in 1..Len(ring) : ring[i] \in 1..Len(made)
    <3>1. ring \in Seq(1..Len(made))
      BY <1>1
    <3> QED
      BY <3>1, ElementOfSeq, Zenon
  <2> QED
    BY <2>2, <2>3 DEF IsAppended
<1>3. /\ Len(backend_list') = Len(backend_list) + 1
      /\ backend_list'[Len(backend_list) + 1] = b
      /\ \A i \in 1..Len(backend_list) :
            backend_list'[i] = backend_list[i] /\ backend_list[i] \in 1..Len(made)
  <2>1. backend_list \in Seq(Nat) /\ b \in Nat
    BY <1>1, SeqMonotonic
  <2>2. IsAppended(backend_list, b, backend_list')
    BY <2>1, AppendedLast
  <2>3. \A i \in 1..Len(backend_list) : backend_list[i] \in 1..Len(made)
    <3>1. backend_list \in Seq(1..Len(made))
      BY <1>1
    <3> QED
      BY <3>1, ElementOfSeq, Zenon
  <2> QED
    BY <2>2, <2>3 DEF IsAppended
<1>4. /\ Len(made') = b /\ made'[b] = key
      /\ \A o \in 1..Len(made) : made'[o] = made[o]
  BY <1>1
<1>5. b \notin 1..Len(made) /\ 1..Len(made') = (1..Len(made)) \cup {b}
  BY <1>1, <1>4
<1>6. leaked = {} /\ ListExact /\ RingCovers /\ \A o \in Objects : frees[o] = 0
  BY <1>1 DEF Ledger, InUse, Held
<1>7. \A o \in 1..Len(made) : made[o] # key
  <2> SUFFICES ASSUME NEW o \in 1..Len(made), made[o] = key PROVE FALSE
    OBVIOUS
  <2>1. PICK i \in 1..Len(backend_list) : backend_list[i] = o
    BY <1>6 DEF ListExact, Objects
  <2>2. o \in find_backend(key)
    BY <2>1 DEF find_backend
  <2> QED
    BY <2>2
<1>8. ListExact'
  <2>1. ASSUME NEW i \in 1..Len(backend_list'), NEW j \in 1..Len(backend_list'),
               backend_list'[i] = backend_list'[j]
        PROVE  i = j
    <3>1. \A k \in 1..Len(backend_list') :
             k \in 1..Len(backend_list) \/ k = Len(backend_list) + 1
      BY <1>1, <1>3
    <3>2. \A k, l \in 1..Len(backend_list) : backend_list[k] = backend_list[l] => k = l
      BY <1>6 DEF ListExact
    <3> QED
      BY <1>3, <1>5, <2>1, <3>1, <3>2
  <2>2. ASSUME NEW o \in 1..Len(made')
        PROVE  \E i \in 1..Len(backend_list') : backend_list'[i] = o
    <3>1. CASE o \in 1..Len(made)
      <4>1. PICK i \in 1..Len(backend_list) : backend_list[i] = o
        BY <1>6, <3>1 DEF ListExact, Objects
      <4> QED
        BY <1>1, <1>3, <4>1
    <3>2. CASE o = b
      <4>1. Len(backend_list) + 1 \in 1..Len(backend_list')
        BY <1>1, <1>3
      <4> QED
        BY <1>3, <3>2, <4>1
    <3> QED
      BY <1>5, <3>1, <3>2
  <2>3. ASSUME NEW o \in 1..Len(made'), NEW p \in 1..Len(made'), made'[o] = made'[p]
        PROVE  o = p
    <3>1. \A k, l \in 1..Len(made) : made[k] = made[l] => k = l
      BY <1>6 DEF ListExact, Objects
    <3> QED
      BY <1>4, <1>5, <1>7, <2>3, <3>1
  <2> QED
    BY <2>1, <2>2, <2>3 DEF ListExact, Objects
<1>9. RingCovers'
  <2> SUFFICES ASSUME NEW o \in 1..Len(made')
               PROVE  \E i \in 1..Len(ring') : FirstUse(o, i)'
    BY DEF RingCovers, Objects
  <2>1. CASE o \in 1..Len(made)
    <3>1. PICK i \in 1..Len(ring) : FirstUse(o, i)
      BY <1>1, <1>6, <2>1 DEF RingCovers, Objects
    <3>2. /\ i \in Nat /\ i >= 1 /\ i <= Len(ring) /\ Len(ring) \in Nat
          /\ Len(ring') = Len(ring) + 1 /\ ring'[i] = ring[i]
          /\ ring[i] = o /\ \A j \in 1..(i - 1) : ring[j] # o
      BY <1>1, <1>2, <3>1 DEF FirstUse
    <3>3. i \in 1..Len(ring') /\ \A j \in 1..(i - 1) : j \in 1..Len(ring)
      BY <3>2
    <3>4. \A j \in 1..(i - 1) : ring'[j] # o
      BY <1>2, <3>2, <3>3, Zenon
    <3>5. FirstUse(o, i)'
      BY <3>2, <3>4, Zenon DEF FirstUse
    <3> QED
      BY <3>3, <3>5, Zenon
  <2>2. CASE o = b
    <3>1. PICK n \in Nat : n = Len(ring) + 1
      BY <1>1
    <3>2. n \in 1..Len(ring') /\ ring'[n] = b /\ n - 1 = Len(ring)
      BY <1>1, <1>2, <3>1
    <3>3. \A j \in 1..(n - 1) : ring'[j] # b
      BY <1>2, <1>5, <3>2
    <3> QED
      BY <2>2, <3>2, <3>3 DEF FirstUse
  <2> QED
    BY <1>5, <2>1, <2>2
<1>10. \A o \in Objects' : frees'[o] = IF InUse' \/ o \in leaked' THEN 0 ELSE 1
  BY <1>1, <1>5, <1>6 DEF InUse, Objects
<1> QED
  BY <1>1, <1>6, <1>8, <1>9, <1>10 DEF Ledger

(* hashring_dealloc on a ring that covers the objects releases each once. *)
LEMMA DeallocCovered ==
    ASSUME IInv, Accounts, RingCovers,
           \A b \in Objects : frees[b] = 0
    PROVE  \A b \in Objects : hashring_dealloc(ring, frees)[b] = 1
<1>1. ring \in Seq(1..Len(made)) /\ frees \in Seq(Nat) /\ Len(frees) = Len(made)
  BY DEF IInv, RingType, Objects, Accounts
<1> SUFFICES ASSUME NEW b \in 1..Len(made)
             PROVE  hashring_dealloc(ring, frees)[b] = 1
  BY DEF Objects
<1>2. PICK i \in 1..Len(ring) : FirstUse(b, i)
  BY DEF RingCovers, Objects
<1>3. Cardinality(FirstUses(ring, b)) = 1
  BY <1>1, <1>2, DeallocOnce DEF FirstUse
<1>4. hashring_dealloc(ring, frees)[b] = frees[b] + Cardinality(FirstUses(ring, b))
  BY <1>1, DeallocCounts
<1> QED
  BY <1>3, <1>4 DEF Objects

LEMMA AddShardLedger ==
    ASSUME IInv, Accounts, Ledger, AddShard
    PROVE  Ledger'
<1>1. /\ Loading /\ stage = "loading" /\ stage' = stage
      /\ UNCHANGED <<leaked, server, initialized>>
      /\ oom' = (oom \/ (made' # made /\ backend_list' = backend_list))
      /\ Shard # Malformed
  BY DEF AddShard, Loading
<1>2. PICK b \in 1..(Len(made) + 1) :
         make_backend(Shard, b) /\ ring' = Append(ring, b) /\ frees' = FreesOf(b)
  BY DEF AddShard
<1>3. Shard \in Entries /\ RingType /\ Len(made) \in Nat
  BY <1>1 DEF IInv, RingType, Loading, Shard
<1>4. frees \in Seq(Nat) /\ Len(frees) = Len(made)
  BY DEF Accounts
<1>5. stage' = "loading" => initialized' /\ server' = "null"
  BY <1>1 DEF Ledger
<1>6. CASE oom'
  <2>1. leaked = {}
    BY <1>1 DEF Ledger, Held
  <2> QED
    BY <1>1, <1>5, <1>6, <2>1 DEF Ledger
<1>7. CASE ~oom' /\ b \in find_backend(full_key(Shard)) /\ UNCHANGED <<backend_list, made>>
  <2>1. b \in Objects
    BY <1>3, <1>7 DEF find_backend, RingType
  <2>2. frees' = frees
    BY <1>2, <1>3, <1>4, <2>1 DEF FreesOf, Objects
  <2>3. ~oom
    BY <1>1, <1>7
  <2> QED
    BY <1>1, <1>2, <1>7, <2>1, <2>2, <2>3, AddKnownLedger
<1>8. CASE /\ ~oom' /\ find_backend(full_key(Shard)) = {} /\ b = Len(made) + 1
           /\ made' = Append(made, full_key(Shard))
           /\ backend_list' = Append(backend_list, b) \/ UNCHANGED backend_list
  <2>1. full_key(Shard) \in Keys
    BY <1>1, <1>3, KeyNames
  <2>2. b \notin Objects
    BY <1>3, <1>8 DEF Objects
  <2>3. /\ frees' \in Seq(Nat) /\ frees'[b] = 0 /\ Len(made') = Len(made) + 1
        /\ \A o \in Objects : frees'[o] = frees[o]
    BY <1>1, <1>2, <1>3, <1>4, <2>2, FreesExtended
  <2>4. made' # made
    BY <1>3, <2>3
  <2>5. ~oom /\ backend_list' = Append(backend_list, b)
    BY <1>1, <1>8, <2>4
  <2> QED
    BY <1>1, <1>2, <1>8, <2>1, <2>3, <2>5, AddNewLedger
<1> QED
  BY <1>2, <1>6, <1>7, <1>8 DEF make_backend

LEMMA NextLedger ==
    ASSUME IInv, Accounts, Ledger, [Next]_vars
    PROVE  Ledger'
<1>1. CASE AddShard
  BY <1>1, AddShardLedger
<1>2. CASE AllocFails
  <2> DEFINE f == hashring_dealloc(ring, frees)
  <2>1. /\ stage = "loading" /\ stage' = "running" /\ server' = server
        /\ server = "null" /\ oom' = oom /\ leaked = {}
        /\ ~Held' /\ ~InUse'
    BY <1>2 DEF AllocFails, Loading, Ledger, Held, InUse
  <2>2. ASSUME ~oom PROVE \A b \in Objects : f[b] = 1
    BY <2>1, <2>2, DeallocCovered DEF Ledger, InUse, Held
  <2>3. RingType /\ Len(made) \in Nat /\ f \in Seq(Nat) /\ Len(f) = Len(made)
    <3>1. /\ RingType /\ Len(made) \in Nat /\ ring \in Seq(Objects)
          /\ frees \in Seq(Nat) /\ Len(frees) = Len(made)
      BY DEF IInv, RingType, Accounts
    <3> QED
      BY <3>1, DeallocCounts
  <2>4. CASE UNCHANGED <<made, leaked>> /\ frees' = f
    BY <2>1, <2>2, <2>4 DEF Ledger, Objects
  <2>5. CASE /\ Len(made') = Len(made) + 1 /\ leaked' = leaked \cup {Len(made')}
             /\ frees' = Append(f, 0)
    <3> HIDE DEF f
    <3>1. leaked' = {Len(made) + 1} /\ Len(made') = Len(made) + 1
      BY <2>1, <2>5
    <3>2. /\ \A b \in 1..Len(made) : frees'[b] = f[b]
          /\ frees'[Len(made) + 1] = 0
      BY <2>3, <2>5
    <3>3. ASSUME ~oom, NEW b \in 1..Len(made')
          PROVE  frees'[b] = IF b \in leaked' THEN 0 ELSE 1
      <4>1. b \in 1..Len(made) \/ b = Len(made) + 1
        BY <2>3, <3>1
      <4>2. \A o \in 1..Len(made) : o # Len(made) + 1
        BY <2>3
      <4> QED
        BY <2>2, <3>1, <3>2, <3>3, <4>1, <4>2 DEF Objects
    <3> QED
      BY <2>1, <3>1, <3>3 DEF Ledger, Objects
  <2> QED
    BY <1>2, <2>3, <2>4, <2>5, AllocFailsKeys
<1>3. CASE ExpandFails
  BY <1>3 DEF ExpandFails, Loading, Ledger, Held
<1>4. CASE Loaded
  <2>1. /\ stage = "loading" /\ stage' = "running" /\ Len(ring) = Len(config)
        /\ server' = IF config = <<>> THEN "null" ELSE "up"
        /\ UNCHANGED <<config, ring, backend_list, made, frees, leaked, initialized, oom>>
        /\ leaked = {}
    BY <1>4 DEF Loaded, ringVars, Ledger, Held
  <2>2. ASSUME ~oom
        PROVE  /\ ListExact' /\ \A b \in Objects : frees'[b] = 0
               /\ \A b \in Objects : \E i \in 1..Len(ring) : FirstUse(b, i)
               /\ initialized
    BY <2>1, <2>2 DEF Ledger, ListExact, RingCovers, InUse, Held, Objects
  <2>3. ASSUME ~oom PROVE RingCovers'
    BY <2>1, <2>2, <2>3 DEF RingCovers, FirstUse, Objects
  <2>4. ASSUME ~oom, config = <<>> PROVE Objects = {}
    BY <2>1, <2>2, <2>4
  <2>5. ASSUME ~oom
        PROVE  \A b \in Objects : frees'[b] = IF InUse' \/ b \in leaked' THEN 0 ELSE 1
    BY <2>1, <2>2, <2>4, <2>5 DEF InUse
  <2> QED
    BY <2>1, <2>2, <2>3, <2>5 DEF Ledger, Objects
<1>5. CASE graceful_shutdown \/ MainReturns
  <2>1. /\ UNCHANGED <<ring, backend_list, made, leaked, server, oom>>
        /\ stage' \in {"stopping", "exited"} /\ stage \in {"running", "stopping"}
        /\ ~initialized'
        /\ frees' = IF initialized /\ server = "up" THEN hashring_dealloc(ring, frees) ELSE frees
    BY <1>5 DEF graceful_shutdown, MainReturns, destroy_server_collection, destroy_server
  <2>2. ASSUME ~oom, initialized, server = "up"
        PROVE  leaked = {} /\ \A b \in Objects : frees'[b] = 1
    BY <2>1, <2>2, DeallocCovered DEF Ledger, InUse, Held
  <2>3. ASSUME ~oom, ~initialized \/ server # "up"
        PROVE  \A b \in Objects : frees'[b] = IF b \in leaked THEN 0 ELSE 1
    BY <2>1, <2>3 DEF Ledger, InUse
  <2>4. ~InUse'
    BY <2>1 DEF InUse
  <2> QED
    BY <2>1, <2>2, <2>3, <2>4, LedgerStill
<1>6. CASE reload_config \/ Exited \/ UNCHANGED vars
  <2>1. UNCHANGED <<ring, backend_list, made, frees, leaked, server, initialized, oom, stage>>
    BY <1>6 DEF reload_config, Exited, vars, ringVars
  <2>2. InUse' = InUse
    BY <2>1 DEF InUse
  <2> QED
    BY <2>1, <2>2, LedgerStill DEF Ledger
<1> QED
  BY <1>1, <1>2, <1>3, <1>4, <1>5, <1>6 DEF Next

LEMMA InitLedger ==
    ASSUME Init
    PROVE  Ledger
<1>1. Objects = {}
  BY DEF Init, Objects
<1>2. \A i, j \in 1..Len(backend_list) : backend_list[i] = backend_list[j] => i = j
  BY DEF Init
<1> QED
  BY <1>1, <1>2 DEF Init, Ledger, ListExact, RingCovers

-----------------------------------------------------------------------------
(* Names fixes the key: two objects that a shard names have the same one. *)
LEMMA NamesKey ==
    ASSUME NEW e, NEW k \in Keys, NEW l \in Keys, Names(e, k), Names(e, l)
    PROVE  k = l
BY DEF Names, Keys

(***************************************************************************)
(* Shards of one backend share one object, however the configuration       *)
(* writes its protocol, and the list of the status report has exactly the  *)
(* objects of the ring, unless a list could not grow.                      *)
(***************************************************************************)
THEOREM ClientsShared == Spec => []OneClientPerBackend
<1>1. ASSUME IInv, Accounts, Ledger
      PROVE  OneClientPerBackend
  <2> SUFFICES ASSUME server = "up", ~oom
               PROVE  OneClientPerBackend
    BY DEF OneClientPerBackend
  <2>1. /\ ring \in Seq(Objects) /\ made \in Seq(Keys) /\ backend_list \in Seq(Objects)
        /\ Len(ring) = Len(config)
        /\ \A i \in 1..Len(config) : Names(config[i], made[ring[i]])
        /\ ListExact /\ RingCovers
    BY <1>1 DEF IInv, RingType, Prefix, Ledger, Held
  <2>2. ASSUME NEW i \in 1..Len(config), NEW j \in 1..Len(config), NEW b \in Objects,
               Names(config[i], made[b]), Names(config[j], made[b])
        PROVE  ring[i] = ring[j]
    <3>1. ring[i] \in Objects /\ ring[j] \in Objects
      BY <2>1
    <3>2. made[b] \in Keys /\ made[ring[i]] \in Keys /\ made[ring[j]] \in Keys
      BY <2>1, <3>1 DEF Objects
    <3>3. made[ring[i]] = made[b] /\ made[ring[j]] = made[b]
      BY <2>1, <2>2, <3>2, NamesKey
    <3> QED
      BY <2>1, <3>1, <3>3 DEF ListExact
  <2>3. ASSUME NEW b \in Objects
        PROVE  /\ \E i \in 1..Len(ring) : ring[i] = b
               /\ Cardinality({i \in 1..Len(backend_list) : backend_list[i] = b}) = 1
    <3>1. \E i \in 1..Len(ring) : ring[i] = b
      BY <2>1 DEF RingCovers, FirstUse
    <3>2. PICK i \in 1..Len(backend_list) : backend_list[i] = b
      BY <2>1 DEF ListExact
    <3>3. {j \in 1..Len(backend_list) : backend_list[j] = b} = {i}
      <4>1. \A j \in 1..Len(backend_list) : backend_list[j] = b => j = i
        BY <2>1, <3>2 DEF ListExact
      <4> QED
        BY <3>2, <4>1, Zenon
    <3> QED
      BY <3>1, <3>3, FS_Singleton
  <2> QED
    BY <2>2, <2>3 DEF OneClientPerBackend
<1> QED
  BY <1>1, InitIInv, InitAccounts, InitLedger, NextPreserves, NextAccounts, NextLedger,
     PTL DEF Spec

(***************************************************************************)
(* No backend is released twice and each has been released when the        *)
(* process ends, wherever a load stops, however many signals come and      *)
(* however many shards share it, unless a list could not grow.  Only a     *)
(* backend that make_backend dropped is never released: the last one made, *)
(* of a load that failed.                                                  *)
(***************************************************************************)
THEOREM NoDoubleRelease == Spec => []ReleasedOnce
<1>1. ASSUME IInv, Accounts, Ledger
      PROVE  ReleasedOnce
  <2>1. \A b \in leaked : b = Len(made) /\ server = "null"
    BY <1>1 DEF IInv, RingType, Ledger, Held
  <2>2. ASSUME ~oom, NEW b \in Objects
        PROVE  /\ frees[b] <= IF b \in leaked THEN 0 ELSE 1
               /\ stage = "exited" /\ b \notin leaked => frees[b] = 1
    BY <1>1, <2>2 DEF Ledger, InUse
  <2> QED
    BY <2>1, <2>2 DEF ReleasedOnce
<1> QED
  BY <1>1, InitIInv, InitAccounts, InitLedger, NextPreserves, NextAccounts, NextLedger,
     PTL DEF Spec
=============================================================================
