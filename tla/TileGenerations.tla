--------------------------- MODULE TileGenerations ---------------------------
(***************************************************************************)
(* Write-reactive tile invalidation of one collection: the generation      *)
(* store each replica fills from the outbox (tellurion-core's              *)
(* invalidation.rs), the cache key a tile request builds from it, the      *)
(* layered cache it looks the key up in (cache.rs: an in-process L1 and an *)
(* optional L2 shared by the replicas), and the outbox retention task that *)
(* prunes what its process has drained (retention.rs and                   *)
(* retention_consumer.rs).                                                 *)
(*                                                                         *)
(* A rendered tile is abstracted to `asOf`, the highest sequence committed *)
(* when the source was read.  The generation of a tile is read, the tile   *)
(* looked up, rendered and stored in separate steps, so writes, drains,    *)
(* restarts and other requests come in between.  A write commits one       *)
(* mutation at a time.                                                     *)
(***************************************************************************)
EXTENDS OutboxLog

CONSTANTS
    Replicas,      \* server processes
    Clients,       \* requests in flight at the same time
    Buckets,       \* cells of the bucket grid
    BucketsOf,     \* the buckets each stored content's extent intersects
    Tiles,         \* tiles that are requested
    Covers,        \* the buckets each tile resolves to (ancestor or range)
    BatchSize,     \* tile_invalidation.batch_size
    SharedL2,      \* an L2 tier is connected
    Retention,     \* outbox_retention.enabled
    PruneBatch,    \* outbox_retention.prune_batch_size
    MaxRestarts    \* bound: restarts of a server process

ASSUME GridAssumption ==
    /\ BucketsOf \in [Stored -> SUBSET Buckets]
    /\ BucketsOf[Absent] = {}
    /\ Covers \in [Tiles -> SUBSET Buckets]
ASSUME TilesDeployment == SharedL2 \in BOOLEAN /\ Retention \in BOOLEAN
ASSUME TilesBounds ==
    /\ BatchSize \in Nat \ {0}
    /\ PruneBatch \in Nat \ {0}
    /\ MaxRestarts \in Nat

VARIABLES
    store,     \* each replica's CollectionGen: cursor, floor and buckets
    drain,     \* each replica's drain pass: the batch it has read
    retain,    \* each replica's retention pass: the floor it has computed
    l1,        \* each replica's in-process cache
    l2,        \* the shared cache
    request,   \* the tile requests in flight
    restarts,  \* restarts so far
    touched    \* history: the buckets the commit of each sequence touched

vars == <<rows, outbox, lastSeq, store, drain, retain, l1, l2, request, restarts, touched>>

NewStore == [cursor |-> 0, floor |-> 0, bucket |-> [b \in Buckets |-> 0]]

NotPruning == [on |-> FALSE, floor |-> 0]

NoRequest == [pc |-> "idle"]

Init ==
    /\ LogInit
    /\ store = [r \in Replicas |-> NewStore]
    /\ drain = [r \in Replicas |-> {}]
    /\ retain = [r \in Replicas |-> NotPruning]
    /\ l1 = [r \in Replicas |-> {}]
    /\ l2 = {}
    /\ request = [c \in Clients |-> NoRequest]
    /\ restarts = 0
    /\ touched = [n \in 1..MaxSeq |-> {}]

-----------------------------------------------------------------------------
(***************************************************************************)
(* A write commits: it changes the tiles of the buckets the feature was in *)
(* and of those it is in now.                                              *)
(***************************************************************************)
Write(m, rec, gap) ==
    /\ Commit(<<m>>, <<rec>>, gap)
    /\ touched' = [touched EXCEPT ![lastSeq'] = BucketsOf[rows[m.fid]] \cup BucketsOf[m.to]]
    /\ UNCHANGED <<store, drain, retain, l1, l2, request, restarts>>

-----------------------------------------------------------------------------
(* Faulty variant: the read starts one sequence too late.                  *)
ReadBatchLate(r) ==
    /\ drain[r] = {}
    /\ drain' = [drain EXCEPT ![r] = ReadAfter(store[r].cursor + 1, BatchSize)]
    /\ UNCHANGED <<rows, outbox, lastSeq, store, retain, l1, l2, request, restarts, touched>>

(***************************************************************************)
(* drain_once_for_generations: read the outbox after the store's cursor.   *)
(***************************************************************************)
ReadBatch(r) ==
    /\ drain[r] = {}
    /\ drain' = [drain EXCEPT ![r] = ReadAfter(store[r].cursor, BatchSize)]
    /\ UNCHANGED <<rows, outbox, lastSeq, store, retain, l1, l2, request, restarts, touched>>

Highest(batch) == Max({o.seq : o \in batch})

(* Faulty variant: only where each feature is now.                         *)
TouchedNow(batch) == UNION {BucketsOf[o.current] : o \in {p \in batch : p.recorded}}

(***************************************************************************)
(* The buckets the recorded extents of a batch intersect: where each       *)
(* feature was as well as where it is.                                     *)
(***************************************************************************)
TouchedBy(batch) ==
    UNION {BucketsOf[o.prior] \cup BucketsOf[o.current] : o \in {p \in batch : p.recorded}}

(***************************************************************************)
(* GenerationStore::apply_batch: every bucket the batch touches is raised  *)
(* to the batch's highest sequence, the floor too if any extent is         *)
(* unrecorded, and the cursor is stored last.                              *)
(***************************************************************************)
Advance(gen, batch) ==
    LET high == Highest(batch)
    IN  [cursor |-> high,
         floor  |-> IF \E o \in batch : ~o.recorded
                    THEN Max({gen.floor, high}) ELSE gen.floor,
         bucket |-> [b \in Buckets |-> IF b \in TouchedBy(batch)
                                       THEN Max({gen.bucket[b], high})
                                       ELSE gen.bucket[b]]]

ApplyBatch(r) ==
    /\ drain[r] # {}
    /\ store' = [store EXCEPT ![r] = Advance(store[r], drain[r])]
    /\ drain' = [drain EXCEPT ![r] = {}]
    /\ UNCHANGED <<rows, outbox, lastSeq, retain, l1, l2, request, restarts, touched>>

(***************************************************************************)
(* run_retention_consumer: the floor is the least cursor of the consumers  *)
(* registered in this process (here its generation consumer), and never    *)
(* past the high-water mark; then one bounded prune.                       *)
(***************************************************************************)
RegisteredCursors(r) == {store[r].cursor}

ComputeFloor(highWater, cursors) == Min(cursors \cup {highWater})

GatherCursors(r) ==
    /\ Retention /\ ~retain[r].on
    /\ retain' = [retain EXCEPT ![r] =
           [on |-> TRUE, floor |-> ComputeFloor(PrimaryHighWater, RegisteredCursors(r))]]
    /\ UNCHANGED <<rows, outbox, lastSeq, store, drain, l1, l2, request, restarts, touched>>

PruneBefore(r) ==
    /\ retain[r].on
    /\ Prune(retain[r].floor, PruneBatch)
    /\ retain' = [retain EXCEPT ![r] = NotPruning]
    /\ UNCHANGED <<store, drain, l1, l2, request, restarts, touched>>

-----------------------------------------------------------------------------
(***************************************************************************)
(* generation_for_tile: the highest effective generation of the buckets    *)
(* the tile resolves to.                                                   *)
(***************************************************************************)
Effective(gen, b) == Max({gen.floor, gen.bucket[b]})

GenerationForTile(gen, t) == Max({Effective(gen, b) : b \in Covers[t]} \cup {0})

(***************************************************************************)
(* A tile request builds its key before anything is looked up; `drained`   *)
(* remembers how far the replica's store was.                              *)
(***************************************************************************)
BuildKey(c, r, t) ==
    /\ request[c].pc = "idle"
    /\ request' = [request EXCEPT ![c] =
           [pc |-> "lookup", at |-> r, tile |-> t, asOf |-> 0,
            gen |-> GenerationForTile(store[r], t), drained |-> store[r].cursor]]
    /\ UNCHANGED <<rows, outbox, lastSeq, store, drain, retain, l1, l2, restarts, touched>>

KeyOf(q) == [tile |-> q.tile, gen |-> q.gen]

InFlight(c) ==
    \E d \in Clients \ {c} :
        /\ request[d].pc \in {"l2", "render", "fill"}
        /\ request[d].at = request[c].at
        /\ KeyOf(request[d]) = KeyOf(request[c])

Put(cache, key, asOf) ==
    {e \in cache : e.key # key} \cup {[key |-> key, asOf |-> asOf]}

Served(q, asOf) == [q EXCEPT !.asOf = asOf, !.pc = "put"]

(***************************************************************************)
(* MokaTileCache::try_get_with: a hit answers, a miss populates, and a     *)
(* request for a key being populated waits for that populate.              *)
(***************************************************************************)
LookupL1(c) ==
    LET q == request[c]
    IN  /\ q.pc = "lookup"
        /\ \/ \E e \in l1[q.at] :
                 /\ e.key = KeyOf(q)
                 /\ request' = [request EXCEPT ![c] = Served(q, e.asOf)]
           \/ /\ ~InFlight(c)
              /\ \A e \in l1[q.at] : e.key # KeyOf(q)
              /\ request' = [request EXCEPT ![c].pc = IF SharedL2 THEN "l2" ELSE "render"]
        /\ UNCHANGED <<rows, outbox, lastSeq, store, drain, retain, l1, l2, restarts, touched>>

(***************************************************************************)
(* The fallback LayeredCache hands to L1 tries L2 first.  A hit is stored  *)
(* in L1; a read error is a miss.                                          *)
(***************************************************************************)
LookupL2(c) ==
    LET q == request[c]
    IN  /\ q.pc = "l2"
        /\ \/ \E e \in l2 :
                 /\ e.key = KeyOf(q)
                 /\ l1' = [l1 EXCEPT ![q.at] = Put(@, e.key, e.asOf)]
                 /\ request' = [request EXCEPT ![c] = Served(q, e.asOf)]
           \/ request' = [request EXCEPT ![c].pc = "render"] /\ UNCHANGED l1
        /\ UNCHANGED <<rows, outbox, lastSeq, store, drain, retain, l2, restarts, touched>>

(***************************************************************************)
(* The tile source is read and rendered; the result enters L1 later.       *)
(***************************************************************************)
Render(c) ==
    /\ request[c].pc = "render"
    /\ request' = [request EXCEPT ![c].asOf = lastSeq, ![c].pc = "fill"]
    /\ UNCHANGED <<rows, outbox, lastSeq, store, drain, retain, l1, l2, restarts, touched>>

(* Faulty variant: the key is rebuilt from the store once rendered.        *)
FillL1Late(c) ==
    LET q == request[c]
        now == [q EXCEPT !.gen = GenerationForTile(store[q.at], q.tile)]
    IN  /\ q.pc = "fill"
        /\ l1' = [l1 EXCEPT ![q.at] = Put(@, KeyOf(now), q.asOf)]
        /\ request' = [request EXCEPT ![c] = Served(q, q.asOf)]
        /\ UNCHANGED <<rows, outbox, lastSeq, store, drain, retain, l2, restarts, touched>>

FillL1(c) ==
    LET q == request[c]
    IN  /\ q.pc = "fill"
        /\ l1' = [l1 EXCEPT ![q.at] = Put(@, KeyOf(q), q.asOf)]
        /\ request' = [request EXCEPT ![c] = Served(q, q.asOf)]
        /\ UNCHANGED <<rows, outbox, lastSeq, store, drain, retain, l2, restarts, touched>>

(***************************************************************************)
(* The render fails: nothing is cached and the request is answered with an *)
(* error.                                                                  *)
(***************************************************************************)
RenderFails(c) ==
    /\ request[c].pc = "render"
    /\ request' = [request EXCEPT ![c] = NoRequest]
    /\ UNCHANGED <<rows, outbox, lastSeq, store, drain, retain, l1, l2, restarts, touched>>

(***************************************************************************)
(* Every answer, an L1 hit included, is written through to L2 by a spawned *)
(* task: it lands at some later time, or fails and is only logged.         *)
(***************************************************************************)
PutL2(c) ==
    LET q == request[c]
    IN  /\ q.pc = "put"
        /\ \/ SharedL2 /\ l2' = Put(l2, KeyOf(q), q.asOf)
           \/ UNCHANGED l2
        /\ request' = [request EXCEPT ![c] = NoRequest]
        /\ UNCHANGED <<rows, outbox, lastSeq, store, drain, retain, l1, restarts, touched>>

(***************************************************************************)
(* L1 evicts over its byte budget; an L2 entry's TTL ends.                 *)
(***************************************************************************)
EvictL1(r) ==
    /\ \E e \in l1[r] : l1' = [l1 EXCEPT ![r] = @ \ {e}]
    /\ UNCHANGED <<rows, outbox, lastSeq, store, drain, retain, l2, request, restarts, touched>>

ExpireL2 ==
    /\ \E e \in l2 : l2' = l2 \ {e}
    /\ UNCHANGED <<rows, outbox, lastSeq, store, drain, retain, l1, request, restarts, touched>>

(***************************************************************************)
(* A server process restarts: a new GenerationStore starts at sequence 0,  *)
(* L1 is empty, its requests and passes are gone.  The outbox and L2 stay. *)
(***************************************************************************)
Restart(r) ==
    /\ restarts < MaxRestarts
    /\ restarts' = restarts + 1
    /\ store' = [store EXCEPT ![r] = NewStore]
    /\ drain' = [drain EXCEPT ![r] = {}]
    /\ retain' = [retain EXCEPT ![r] = NotPruning]
    /\ l1' = [l1 EXCEPT ![r] = {}]
    /\ request' = [c \in Clients |->
                     IF request[c].pc # "idle" /\ request[c].at = r
                     THEN NoRequest ELSE request[c]]
    /\ UNCHANGED <<rows, outbox, lastSeq, l2, touched>>

-----------------------------------------------------------------------------
Next ==
    \/ \E m \in Mutation, rec \in Recordings, gap \in 0..MaxGap : Write(m, rec, gap)
    \/ \E r \in Replicas :
          \/ ReadBatch(r)
          \/ ApplyBatch(r)
          \/ GatherCursors(r)
          \/ PruneBefore(r)
          \/ EvictL1(r)
          \/ Restart(r)
    \/ \E c \in Clients :
          \/ \E r \in Replicas, t \in Tiles : BuildKey(c, r, t)
          \/ LookupL1(c)
          \/ LookupL2(c)
          \/ Render(c)
          \/ FillL1(c)
          \/ RenderFails(c)
          \/ PutL2(c)
    \/ ExpireL2

Spec == Init /\ [][Next]_vars

(***************************************************************************)
(* run_generation_consumer ticks every poll interval and survives failed   *)
(* passes; restarts are finite (MaxRestarts).                              *)
(***************************************************************************)
FairSpec ==
    /\ Spec
    /\ \A r \in Replicas : WF_vars(ReadBatch(r)) /\ WF_vars(ApplyBatch(r))

-----------------------------------------------------------------------------
Key == [tile : Tiles, gen : Nat]
Entry == [key : Key, asOf : Nat]

(***************************************************************************)
(* Stores, caches and requests are well formed; a cursor is never ahead of *)
(* the log.                                                                *)
(***************************************************************************)
TypeOK ==
    /\ LogTypeOK
    /\ store \in [Replicas -> [cursor : Nat, floor : Nat, bucket : [Buckets -> Nat]]]
    /\ \A r \in Replicas : store[r].cursor <= lastSeq
    /\ drain \in [Replicas -> SUBSET Obligation]
    /\ retain \in [Replicas -> [on : BOOLEAN, floor : Nat]]
    /\ l1 \in [Replicas -> SUBSET Entry]
    /\ l2 \subseteq Entry
    /\ request \in [Clients -> {NoRequest} \cup
          [pc : {"lookup", "l2", "render", "fill", "put"}, at : Replicas, tile : Tiles,
           gen : Nat, drained : Nat, asOf : Nat]]
    /\ touched \in [1..MaxSeq -> SUBSET Buckets]
    /\ restarts \in 0..MaxRestarts

(***************************************************************************)
(* A tile that is answered, whichever cache it came from, shows every      *)
(* commit to its area that the answering replica had drained when it built *)
(* the key.                                                                *)
(***************************************************************************)
AnswersReflectDrainedCommits ==
    \A c \in Clients : request[c].pc = "put" =>
        \A n \in (request[c].asOf + 1)..request[c].drained :
            touched[n] \cap Covers[request[c].tile] = {}

(***************************************************************************)
(* Retention never removes an obligation that a running consumer has still *)
(* to drain.  ("Trimming that would orphan any one of them must be a       *)
(* named, logged decision, never a quiet data loss", retention.rs)         *)
(***************************************************************************)
PruningOrphansNobody ==
    [][\A o \in outbox \ outbox' : \A r \in Replicas : o.seq <= store[r].cursor]_vars

(***************************************************************************)
(* Once writes and restarts stop every replica has drained all that is     *)
(* left in the outbox, so no stale generation is used for good.            *)
(***************************************************************************)
StoresCatchUp == <>[](\A r \in Replicas, o \in outbox : o.seq <= store[r].cursor)

=============================================================================
