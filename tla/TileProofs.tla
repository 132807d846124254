----------------------------- MODULE TileProofs -----------------------------
(***************************************************************************)
(* Proofs about TileGenerations, for any number of replicas, requests,     *)
(* features, tiles and writes: a tile that is answered shows every commit  *)
(* to its area that its replica had drained, and retention orphans nobody. *)
(*                                                                         *)
(* Both are theorems about the deployments in which they hold              *)
(* (SafeDeployment): without outbox retention, or with a single replica    *)
(* whose restarts leave no L2 entry behind.  Elsewhere a prune takes an    *)
(* obligation that another replica, or this one after its restart, never   *)
(* drains, and the runs exhibit it.                                        *)
(***************************************************************************)
EXTENDS TileGenerations, OutboxLogProofs

OneReplica == \A r, s \in Replicas : r = s

SafeDeployment == Retention => OneReplica /\ (~SharedL2 \/ MaxRestarts = 0)

Sequenced == 1..MaxSeq

(***************************************************************************)
(* History and obligations agree: an obligation's extents are the buckets  *)
(* its commit touched, also while a drain pass holds it.                   *)
(***************************************************************************)
HistoryMatches ==
    /\ lastSeq <= MaxSeq
    /\ \A n \in Sequenced : n > lastSeq => touched[n] = {}
    /\ \A o : (o \in outbox \/ \E r \in Replicas : o \in drain[r]) =>
          /\ o \in Obligation /\ o.seq <= lastSeq
          /\ touched[o.seq] \subseteq BucketsOf[o.prior] \cup BucketsOf[o.current]

(***************************************************************************)
(* No generation is ahead of its store's cursor, no floor of a retention   *)
(* pass ahead of its replica's.                                            *)
(***************************************************************************)
StoresBounded ==
    \A r \in Replicas :
        /\ store[r].floor <= store[r].cursor
        /\ \A b \in Buckets : store[r].bucket[b] <= store[r].cursor
        /\ retain[r].on => Retention /\ retain[r].floor <= store[r].cursor

(***************************************************************************)
(* What a key was built for is older than what is stored under it.         *)
(***************************************************************************)
KeysAreOld ==
    /\ \A e : (e \in l2 \/ \E r \in Replicas : e \in l1[r]) => e.key.gen <= e.asOf
    /\ \A c \in Clients : request[c].pc # "idle" =>
          /\ request[c].gen <= lastSeq /\ request[c].drained <= lastSeq
          /\ request[c].pc \in {"fill", "put"} => request[c].gen <= request[c].asOf
          /\ request[c].pc = "l2" => SharedL2

(***************************************************************************)
(* Replica r has no tile any more that is older than commit n, and cannot  *)
(* get one from elsewhere: it may miss the obligation of n.                *)
(***************************************************************************)
Outlived(r, n) ==
    /\ Retention /\ ~SharedL2
    /\ \A e \in l1[r] : n <= e.asOf
    /\ \A c \in Clients :
          request[c].pc \in {"fill", "put"} /\ request[c].at = r => n <= request[c].asOf

Raised(r, n) ==
    \A b \in touched[n] : n <= store[r].floor \/ n <= store[r].bucket[b]

InOutbox(n) == \E o \in outbox : o.seq = n

(***************************************************************************)
(* Every commit is behind a replica's cursor and has raised the            *)
(* generations of its buckets, or is still to be drained, or cannot matter *)
(* to the replica.                                                         *)
(***************************************************************************)
NothingIsMissed ==
    /\ \A r \in Replicas, n \in Sequenced : touched[n] # {} =>
          /\ n <= store[r].cursor => Raised(r, n) \/ Outlived(r, n)
          /\ n > store[r].cursor => InOutbox(n) \/ Outlived(r, n)
    /\ ~Retention => \A n \in Sequenced : touched[n] # {} => InOutbox(n)

(***************************************************************************)
(* A drain pass steps over nothing.                                        *)
(***************************************************************************)
BatchesAreComplete ==
    \A r \in Replicas : \A o \in drain[r] :
        /\ o.seq > store[r].cursor
        /\ \A n \in Sequenced :
              touched[n] # {} /\ n > store[r].cursor /\ n <= o.seq =>
                 (\E p \in drain[r] : p.seq = n) \/ Outlived(r, n)

(***************************************************************************)
(* A request's generation is no older than any drained commit to its area  *)
(* that its replica could still serve a tile without.                      *)
(***************************************************************************)
RequestsCover ==
    \A c \in Clients, n \in Sequenced :
        /\ request[c].pc # "idle" /\ n <= request[c].drained
        /\ touched[n] \cap Covers[request[c].tile] # {}
        => n <= request[c].gen \/ Outlived(request[c].at, n)

TilesInv ==
    /\ TypeOK /\ SequencesDistinct
    /\ HistoryMatches
    /\ StoresBounded
    /\ KeysAreOld
    /\ NothingIsMissed
    /\ BatchesAreComplete
    /\ RequestsCover

-----------------------------------------------------------------------------
RequestType ==
    [pc : {"lookup", "l2", "render", "fill", "put"}, at : Replicas, tile : Tiles,
     gen : Nat, drained : Nat, asOf : Nat]

StoreType == [cursor : Nat, floor : Nat, bucket : [Buckets -> Nat]]

LEMMA StoreFacts ==
    ASSUME TypeOK, NEW r \in Replicas
    PROVE  /\ store[r] \in StoreType /\ store[r].cursor \in Nat /\ store[r].floor \in Nat
           /\ store[r].bucket \in [Buckets -> Nat]
           /\ \A b \in Buckets : store[r].bucket[b] \in Nat
           /\ store[r].cursor <= lastSeq /\ lastSeq \in Nat
  BY DEF TypeOK, LogTypeOK, StoreType

LEMMA RequestFacts ==
    ASSUME TypeOK, NEW c \in Clients, request[c].pc # "idle"
    PROVE  /\ request[c] \in RequestType
           /\ request[c].at \in Replicas /\ request[c].tile \in Tiles
           /\ request[c].gen \in Nat /\ request[c].drained \in Nat /\ request[c].asOf \in Nat
  BY DEF TypeOK, NoRequest, RequestType

(***************************************************************************)
(* Commits the log has; outside them touched is empty.                     *)
(***************************************************************************)
LEMMA TouchedIsCommitted ==
    ASSUME TilesInv, NEW n \in Sequenced, touched[n] # {}
    PROVE  n <= lastSeq /\ n \in Nat /\ n > 0
  BY BoundsAssumption DEF TilesInv, HistoryMatches, Sequenced, TypeOK, LogTypeOK

(***************************************************************************)
(* A step of the caches and requests alone, that loses no Outlived fact.   *)
(***************************************************************************)
LEMMA CacheStepKeeps ==
    ASSUME TilesInv, TypeOK', KeysAreOld', RequestsCover',
           UNCHANGED <<outbox, lastSeq, store, drain, retain, touched>>,
           \A r \in Replicas, n \in Sequenced :
              n <= lastSeq /\ Outlived(r, n) => Outlived(r, n)'
    PROVE  TilesInv'
<1>1. SequencesDistinct'
  BY DEF TilesInv, SequencesDistinct
<1>2. HistoryMatches'
  BY DEF TilesInv, HistoryMatches
<1>3. StoresBounded'
  BY DEF TilesInv, StoresBounded
<1>4. \A r \in Replicas, n \in Sequenced :
         touched[n] # {} /\ Outlived(r, n) => Outlived(r, n)'
  BY TouchedIsCommitted
<1>5. \A r, n : Raised(r, n)' = Raised(r, n) /\ InOutbox(n)' = InOutbox(n)
  BY DEF Raised, InOutbox
<1>6. NothingIsMissed'
  BY <1>4, <1>5 DEF TilesInv, NothingIsMissed
<1>7. BatchesAreComplete'
  BY <1>4 DEF TilesInv, BatchesAreComplete
<1> QED
  BY <1>1, <1>2, <1>3, <1>6, <1>7 DEF TilesInv

(***************************************************************************)
(* One request goes on to q, or ends; what it puts in a cache is as old as *)
(* its key or younger, and what it can put in its L1 or holds itself it    *)
(* has rendered now, held before or found in that L1, unless there is an   *)
(* L2.                                                                     *)
(***************************************************************************)
HeldBefore(c, asOf) ==
    \/ asOf = lastSeq
    \/ request[c].pc = "fill" /\ asOf = request[c].asOf
    \/ \E e \in l1[request[c].at] : asOf = e.asOf

GoesOnTo(c, q) ==
    /\ q \in RequestType
    /\ q.at = request[c].at /\ q.tile = request[c].tile
    /\ q.gen = request[c].gen /\ q.drained = request[c].drained
    /\ q.pc = "l2" => SharedL2
    /\ q.pc \in {"fill", "put"} => q.gen <= q.asOf /\ (SharedL2 \/ HeldBefore(c, q.asOf))

LEMMA RequestStepKeeps ==
    ASSUME TilesInv, NEW c \in Clients, request[c].pc # "idle", NEW q,
           q = NoRequest \/ GoesOnTo(c, q), request' = [request EXCEPT ![c] = q],
           l1' \in [Replicas -> SUBSET Entry], l2' \subseteq Entry,
           \A r \in Replicas : \A e \in l1'[r] :
              \/ e \in l1[r]
              \/ /\ r = request[c].at /\ e.key.gen <= e.asOf
                 /\ SharedL2 \/ HeldBefore(c, e.asOf),
           \A e \in l2' : e \in l2 \/ e.key.gen <= e.asOf,
           UNCHANGED <<rows, outbox, lastSeq, store, drain, retain, restarts, touched>>
    PROVE  TilesInv'
<1>1. TypeOK /\ KeysAreOld /\ RequestsCover
  BY DEF TilesInv
<1>2. /\ request \in [Clients -> {NoRequest} \cup RequestType]
      /\ request' \in [Clients -> {NoRequest} \cup RequestType]
      /\ request'[c] = q /\ \A d \in Clients : d # c => request'[d] = request[d]
  BY <1>1 DEF TypeOK, RequestType, GoesOnTo
<1>3. TypeOK'
  <2>1. LogTypeOK'
    BY <1>1 DEF TypeOK, LogTypeOK
  <2> QED
    BY <1>1, <1>2, <2>1 DEF TypeOK, RequestType
<1>4. NoRequest.pc = "idle"
  BY DEF NoRequest
<1>5. KeysAreOld'
  <2>1. \A e : (e \in l2' \/ \E r \in Replicas : e \in l1'[r]) => e.key.gen <= e.asOf
    BY <1>1 DEF KeysAreOld
  <2>2. ASSUME NEW d \in Clients, request'[d].pc # "idle"
        PROVE  /\ request'[d].gen <= lastSeq /\ request'[d].drained <= lastSeq
               /\ request'[d].pc \in {"fill", "put"} => request'[d].gen <= request'[d].asOf
               /\ request'[d].pc = "l2" => SharedL2
    <3>1. CASE d = c
      BY <1>1, <1>2, <1>4, <2>2, <3>1 DEF KeysAreOld, GoesOnTo
    <3>2. CASE d # c
      BY <1>1, <1>2, <2>2, <3>2 DEF KeysAreOld
    <3> QED
      BY <3>1, <3>2
  <2> QED
    BY <2>1, <2>2 DEF KeysAreOld
<1>6. ASSUME NEW r \in Replicas, NEW n \in Sequenced, n <= lastSeq, Outlived(r, n)
      PROVE  Outlived(r, n)'
  <2>1. Retention /\ ~SharedL2
    BY <1>6 DEF Outlived
  <2>2. ASSUME NEW a, HeldBefore(c, a), r = request[c].at PROVE n <= a
    BY <1>6, <2>2 DEF HeldBefore, Outlived
  <2>3. \A e \in l1'[r] : n <= e.asOf
    BY <1>6, <2>1, <2>2 DEF Outlived
  <2>4. ASSUME NEW d \in Clients, request'[d].pc \in {"fill", "put"}, request'[d].at = r
        PROVE  n <= request'[d].asOf
    <3>1. CASE d = c
      BY <1>2, <1>4, <2>1, <2>2, <2>4, <3>1 DEF GoesOnTo
    <3>2. CASE d # c
      BY <1>2, <1>6, <2>4, <3>2 DEF Outlived
    <3> QED
      BY <3>1, <3>2
  <2> QED
    BY <2>1, <2>3, <2>4 DEF Outlived
<1>7. RequestsCover'
  <2> SUFFICES ASSUME NEW d \in Clients, NEW n \in Sequenced, request'[d].pc # "idle",
                      n <= request'[d].drained,
                      touched[n] \cap Covers[request'[d].tile] # {}
               PROVE  n <= request'[d].gen \/ Outlived(request[d].at, n)'
    BY DEF RequestsCover
  <2>1. /\ request[d].pc # "idle" /\ request'[d].drained = request[d].drained
        /\ request'[d].gen = request[d].gen /\ request'[d].at = request[d].at
        /\ request'[d].tile = request[d].tile
    <3>1. CASE d = c
      BY <1>2, <1>4, <3>1 DEF GoesOnTo
    <3>2. CASE d # c
      BY <1>2, <3>2
    <3> QED
      BY <3>1, <3>2
  <2>2. n <= request[d].gen \/ Outlived(request[d].at, n)
    BY <1>1, <2>1 DEF RequestsCover
  <2>3. PICK r \in Replicas : r = request[d].at
    BY <1>1, <2>1, RequestFacts
  <2>4. touched[n] # {}
    OBVIOUS
  <2>5. Outlived(r, n) => Outlived(r, n)'
    BY <1>6, <2>4, TouchedIsCommitted
  <2>6. CASE Outlived(request[d].at, n)
    <3>1. Outlived(r, n)'
      BY <2>3, <2>5, <2>6
    <3> QED
      BY <2>1, <2>3, <3>1 DEF Outlived
  <2> QED
    BY <2>1, <2>2, <2>6
<1> QED
  BY <1>3, <1>5, <1>6, <1>7, CacheStepKeeps

-----------------------------------------------------------------------------
LEMMA LookupL1Keeps ==
    ASSUME TilesInv, NEW c \in Clients, LookupL1(c)
    PROVE  TilesInv'
<1>1. /\ request[c].pc = "lookup" /\ TypeOK /\ KeysAreOld
      /\ l1' = l1 /\ l2' = l2
      /\ UNCHANGED <<rows, outbox, lastSeq, store, drain, retain, restarts, touched>>
  BY DEF LookupL1, TilesInv
<1>2. /\ request[c] \in RequestType /\ request[c].at \in Replicas
      /\ l1 \in [Replicas -> SUBSET Entry] /\ l2 \subseteq Entry
  BY <1>1, RequestFacts DEF TypeOK
<1>3. ASSUME NEW e \in l1[request[c].at], e.key = KeyOf(request[c]),
             request' = [request EXCEPT ![c] = Served(request[c], e.asOf)]
      PROVE  TilesInv'
  <2>1. PICK q : q = Served(request[c], e.asOf)
    OBVIOUS
  <2>2. e.asOf \in Nat /\ e.key.gen = request[c].gen /\ e.key.gen <= e.asOf
    BY <1>1, <1>2, <1>3 DEF KeysAreOld, KeyOf, Entry
  <2>3. q = [request[c] EXCEPT !.asOf = e.asOf, !.pc = "put"]
    BY <2>1 DEF Served
  <2>4. /\ q \in RequestType /\ q.at = request[c].at /\ q.tile = request[c].tile
        /\ q.gen = request[c].gen /\ q.drained = request[c].drained
        /\ q.pc = "put" /\ q.asOf = e.asOf
    BY <1>2, <2>2, <2>3 DEF RequestType
  <2>5. GoesOnTo(c, q)
    BY <2>2, <2>4 DEF GoesOnTo, HeldBefore
  <2> QED
    BY <1>1, <1>2, <1>3, <2>1, <2>5, RequestStepKeeps
<1>4. ASSUME request' = [request EXCEPT ![c].pc = IF SharedL2 THEN "l2" ELSE "render"]
      PROVE  TilesInv'
  <2>1. PICK q : q = [request[c] EXCEPT !.pc = IF SharedL2 THEN "l2" ELSE "render"]
    OBVIOUS
  <2>2. /\ q \in RequestType /\ q.at = request[c].at /\ q.tile = request[c].tile
        /\ q.gen = request[c].gen /\ q.drained = request[c].drained
        /\ q.pc = IF SharedL2 THEN "l2" ELSE "render"
    BY <1>2, <2>1 DEF RequestType
  <2>3. GoesOnTo(c, q)
    BY <2>2 DEF GoesOnTo
  <2>4. request' = [request EXCEPT ![c] = q]
    BY <1>4, <2>1
  <2> QED
    BY <1>1, <1>2, <2>3, <2>4, RequestStepKeeps
<1> QED
  BY <1>3, <1>4 DEF LookupL1

LEMMA PutFacts ==
    ASSUME NEW cache \in SUBSET Entry, NEW q \in RequestType, NEW asOf \in Nat
    PROVE  /\ KeyOf(q) \in Key /\ KeyOf(q).gen = q.gen
           /\ Put(cache, KeyOf(q), asOf) \subseteq Entry
           /\ \A e \in Put(cache, KeyOf(q), asOf) :
                 e \in cache \/ (e.key = KeyOf(q) /\ e.asOf = asOf)
<1>1. KeyOf(q) \in Key /\ KeyOf(q).gen = q.gen
  BY DEF KeyOf, Key, RequestType
<1>2. [key |-> KeyOf(q), asOf |-> asOf] \in Entry
  BY <1>1 DEF Entry
<1> QED
  BY <1>1, <1>2 DEF Put

LEMMA LookupL2Keeps ==
    ASSUME TilesInv, NEW c \in Clients, LookupL2(c)
    PROVE  TilesInv'
<1>1. /\ request[c].pc = "l2" /\ TypeOK /\ KeysAreOld /\ l2' = l2
      /\ UNCHANGED <<rows, outbox, lastSeq, store, drain, retain, restarts, touched>>
  BY DEF LookupL2, TilesInv
<1>2. /\ request[c] \in RequestType /\ request[c].at \in Replicas /\ SharedL2
      /\ l1 \in [Replicas -> SUBSET Entry] /\ l2 \subseteq Entry
  BY <1>1, RequestFacts DEF TypeOK, KeysAreOld
<1>3. ASSUME NEW e \in l2, e.key = KeyOf(request[c]),
             l1' = [l1 EXCEPT ![request[c].at] = Put(@, e.key, e.asOf)],
             request' = [request EXCEPT ![c] = Served(request[c], e.asOf)]
      PROVE  TilesInv'
  <2>1. PICK q : q = Served(request[c], e.asOf)
    OBVIOUS
  <2>2. e.asOf \in Nat /\ e.key.gen = request[c].gen /\ e.key.gen <= e.asOf
    BY <1>1, <1>2, <1>3 DEF KeysAreOld, KeyOf, Entry
  <2>3. q = [request[c] EXCEPT !.asOf = e.asOf, !.pc = "put"]
    BY <2>1 DEF Served
  <2>4. /\ q \in RequestType /\ q.at = request[c].at /\ q.tile = request[c].tile
        /\ q.gen = request[c].gen /\ q.drained = request[c].drained
        /\ q.pc = "put" /\ q.asOf = e.asOf
    BY <1>2, <2>2, <2>3 DEF RequestType
  <2>5. GoesOnTo(c, q)
    BY <1>2, <2>2, <2>4 DEF GoesOnTo
  <2>6. PICK at \in Replicas : at = request[c].at
    BY <1>2
  <2>7. PICK filled : filled = Put(l1[at], KeyOf(request[c]), e.asOf)
    OBVIOUS
  <2>8. /\ filled \subseteq Entry
        /\ \A d \in filled : d \in l1[at] \/ (d.key = e.key /\ d.asOf = e.asOf)
    BY <1>2, <1>3, <2>2, <2>7, PutFacts
  <2>9. l1' = [l1 EXCEPT ![at] = filled]
    BY <1>3, <2>6, <2>7
  <2>10. l1' \in [Replicas -> SUBSET Entry]
    BY <1>2, <2>8, <2>9
  <2>11. \A r \in Replicas : \A d \in l1'[r] :
            d \in l1[r] \/ (r = request[c].at /\ d.key.gen <= d.asOf /\ SharedL2)
    BY <1>2, <2>2, <2>6, <2>8, <2>9
  <2> QED
    BY <1>1, <1>2, <1>3, <2>1, <2>5, <2>10, <2>11, RequestStepKeeps
<1>4. ASSUME request' = [request EXCEPT ![c].pc = "render"], l1' = l1
      PROVE  TilesInv'
  <2>1. PICK q : q = [request[c] EXCEPT !.pc = "render"]
    OBVIOUS
  <2>2. /\ q \in RequestType /\ q.at = request[c].at /\ q.tile = request[c].tile
        /\ q.gen = request[c].gen /\ q.drained = request[c].drained /\ q.pc = "render"
    BY <1>2, <2>1 DEF RequestType
  <2>3. GoesOnTo(c, q)
    BY <2>2 DEF GoesOnTo
  <2>4. request' = [request EXCEPT ![c] = q]
    BY <1>4, <2>1
  <2> QED
    BY <1>1, <1>2, <1>4, <2>3, <2>4, RequestStepKeeps
<1> QED
  BY <1>3, <1>4 DEF LookupL2

LEMMA RenderKeeps ==
    ASSUME TilesInv, NEW c \in Clients, Render(c) \/ RenderFails(c)
    PROVE  TilesInv'
<1>1. /\ request[c].pc = "render" /\ TypeOK /\ KeysAreOld /\ l1' = l1 /\ l2' = l2
      /\ UNCHANGED <<rows, outbox, lastSeq, store, drain, retain, restarts, touched>>
  BY DEF Render, RenderFails, TilesInv
<1>2. /\ request[c] \in RequestType /\ request[c].gen <= lastSeq /\ lastSeq \in Nat
      /\ l1 \in [Replicas -> SUBSET Entry] /\ l2 \subseteq Entry
  BY <1>1, RequestFacts DEF TypeOK, LogTypeOK, KeysAreOld
<1>3. CASE Render(c)
  <2>1. PICK q : q = [request[c] EXCEPT !.asOf = lastSeq, !.pc = "fill"]
    OBVIOUS
  <2>2. /\ q \in RequestType /\ q.at = request[c].at /\ q.tile = request[c].tile
        /\ q.gen = request[c].gen /\ q.drained = request[c].drained
        /\ q.pc = "fill" /\ q.asOf = lastSeq
    BY <1>2, <2>1 DEF RequestType
  <2>3. GoesOnTo(c, q)
    BY <1>2, <2>2 DEF GoesOnTo, HeldBefore
  <2>4. request' = [request EXCEPT ![c] = q]
    BY <1>3, <2>1 DEF Render
  <2> QED
    BY <1>1, <1>2, <2>3, <2>4, RequestStepKeeps
<1>4. CASE RenderFails(c)
  BY <1>1, <1>2, <1>4, RequestStepKeeps DEF RenderFails
<1> QED
  BY <1>3, <1>4

LEMMA FillKeeps ==
    ASSUME TilesInv, NEW c \in Clients, FillL1(c)
    PROVE  TilesInv'
<1>1. /\ request[c].pc = "fill" /\ TypeOK /\ KeysAreOld /\ l2' = l2
      /\ UNCHANGED <<rows, outbox, lastSeq, store, drain, retain, restarts, touched>>
      /\ l1' = [l1 EXCEPT ![request[c].at] = Put(@, KeyOf(request[c]), request[c].asOf)]
      /\ request' = [request EXCEPT ![c] = Served(request[c], request[c].asOf)]
  BY DEF FillL1, TilesInv
<1>2. /\ request[c] \in RequestType /\ request[c].at \in Replicas
      /\ request[c].asOf \in Nat /\ request[c].gen <= request[c].asOf
      /\ l1 \in [Replicas -> SUBSET Entry] /\ l2 \subseteq Entry
  BY <1>1, RequestFacts DEF TypeOK, KeysAreOld
<1>3. PICK q : q = Served(request[c], request[c].asOf)
  OBVIOUS
<1>4. q = [request[c] EXCEPT !.asOf = request[c].asOf, !.pc = "put"]
  BY <1>3 DEF Served
<1>5. /\ q \in RequestType /\ q.at = request[c].at /\ q.tile = request[c].tile
      /\ q.gen = request[c].gen /\ q.drained = request[c].drained
      /\ q.pc = "put" /\ q.asOf = request[c].asOf
  BY <1>2, <1>4 DEF RequestType
<1>6. GoesOnTo(c, q)
  BY <1>1, <1>2, <1>5 DEF GoesOnTo, HeldBefore
<1>7. PICK at \in Replicas : at = request[c].at
  BY <1>2
<1>8. PICK filled : filled = Put(l1[at], KeyOf(request[c]), request[c].asOf)
  OBVIOUS
<1>9. /\ filled \subseteq Entry /\ KeyOf(request[c]).gen = request[c].gen
      /\ \A d \in filled : d \in l1[at] \/ (d.key = KeyOf(request[c]) /\ d.asOf = request[c].asOf)
  BY <1>2, <1>8, PutFacts
<1>10. l1' = [l1 EXCEPT ![at] = filled]
  BY <1>1, <1>7, <1>8
<1>11. l1' \in [Replicas -> SUBSET Entry]
  BY <1>2, <1>9, <1>10
<1>12. \A r \in Replicas : \A d \in l1'[r] :
          d \in l1[r] \/ (r = request[c].at /\ d.key.gen <= d.asOf /\ d.asOf = request[c].asOf)
  BY <1>2, <1>7, <1>9, <1>10
<1>13. \A r \in Replicas : \A d \in l1'[r] :
          d \in l1[r] \/ (r = request[c].at /\ d.key.gen <= d.asOf /\ HeldBefore(c, d.asOf))
  BY <1>1, <1>12 DEF HeldBefore
<1> QED
  BY <1>1, <1>2, <1>3, <1>6, <1>11, <1>13, RequestStepKeeps

LEMMA PutL2Keeps ==
    ASSUME TilesInv, NEW c \in Clients, PutL2(c)
    PROVE  TilesInv'
<1>1. /\ request[c].pc = "put" /\ TypeOK /\ KeysAreOld /\ l1' = l1
      /\ UNCHANGED <<rows, outbox, lastSeq, store, drain, retain, restarts, touched>>
      /\ request' = [request EXCEPT ![c] = NoRequest]
      /\ l2' = l2 \/ l2' = Put(l2, KeyOf(request[c]), request[c].asOf)
  BY DEF PutL2, TilesInv
<1>2. /\ request[c] \in RequestType /\ request[c].asOf \in Nat
      /\ request[c].gen <= request[c].asOf
      /\ l1 \in [Replicas -> SUBSET Entry] /\ l2 \subseteq Entry
  BY <1>1, RequestFacts DEF TypeOK, KeysAreOld
<1>3. l2' \subseteq Entry /\ \A e \in l2' : e \in l2 \/ e.key.gen <= e.asOf
  BY <1>1, <1>2, PutFacts
<1> QED
  BY <1>1, <1>2, <1>3, RequestStepKeeps

(***************************************************************************)
(* Entries only go.                                                        *)
(***************************************************************************)
LEMMA EvictKeeps ==
    ASSUME TilesInv, ExpireL2 \/ \E r \in Replicas : EvictL1(r)
    PROVE  TilesInv'
<1>1. TypeOK /\ KeysAreOld /\ RequestsCover
  BY DEF TilesInv
<1>2. /\ UNCHANGED <<rows, outbox, lastSeq, store, drain, retain, request, restarts, touched>>
      /\ l1' \in [Replicas -> SUBSET Entry] /\ l2' \subseteq l2
      /\ \A r \in Replicas : l1'[r] \subseteq l1[r]
  <2>1. CASE ExpireL2
    BY <1>1, <2>1 DEF ExpireL2, TypeOK
  <2>2. ASSUME NEW r \in Replicas, EvictL1(r)
        PROVE  /\ UNCHANGED <<rows, outbox, lastSeq, store, drain, retain, request, restarts, touched>>
               /\ l1' \in [Replicas -> SUBSET Entry] /\ l2' \subseteq l2
               /\ \A s \in Replicas : l1'[s] \subseteq l1[s]
    BY <1>1, <2>2 DEF EvictL1, TypeOK
  <2> QED
    BY <2>1, <2>2
<1>3. TypeOK'
  BY <1>1, <1>2 DEF TypeOK, LogTypeOK
<1>4. KeysAreOld'
  BY <1>1, <1>2 DEF KeysAreOld
<1>5. \A r \in Replicas, n \in Sequenced : Outlived(r, n) => Outlived(r, n)'
  BY <1>2 DEF Outlived
<1>6. RequestsCover'
  <2> SUFFICES ASSUME NEW c \in Clients, NEW n \in Sequenced, request[c].pc # "idle",
                      n <= request[c].drained,
                      touched[n] \cap Covers[request[c].tile] # {}
               PROVE  n <= request[c].gen \/ Outlived(request[c].at, n)'
    BY <1>2 DEF RequestsCover
  <2>1. PICK r \in Replicas : r = request[c].at
    BY <1>1, RequestFacts
  <2>2. n <= request[c].gen \/ Outlived(r, n)
    BY <1>1, <2>1 DEF RequestsCover
  <2>3. CASE Outlived(r, n)'
    BY <1>2, <2>1, <2>3 DEF Outlived
  <2> QED
    BY <1>5, <2>2, <2>3
<1> QED
  BY <1>2, <1>3, <1>4, <1>5, <1>6, CacheStepKeeps

LEMMA BuildKeyKeeps ==
    ASSUME TilesInv, NEW c \in Clients, NEW r \in Replicas, NEW t \in Tiles, BuildKey(c, r, t)
    PROVE  TilesInv'
<1>1. TypeOK /\ KeysAreOld /\ RequestsCover /\ NothingIsMissed /\ StoresBounded
  BY DEF TilesInv
<1> DEFINE gens == {Effective(store[r], b) : b \in Covers[t]} \cup {0}
           q == [pc |-> "lookup", at |-> r, tile |-> t, asOf |-> 0,
                 gen |-> Max(gens), drained |-> store[r].cursor]
<1>2. /\ request' = [request EXCEPT ![c] = q] /\ request[c].pc = "idle"
      /\ UNCHANGED <<rows, outbox, lastSeq, store, drain, retain, l1, l2, restarts, touched>>
  BY DEF BuildKey, GenerationForTile
<1>3. /\ store[r].cursor \in Nat /\ store[r].cursor <= lastSeq /\ lastSeq \in Nat
      /\ store[r].floor \in Nat /\ store[r].floor <= store[r].cursor
      /\ \A b \in Buckets : store[r].bucket[b] \in Nat /\ store[r].bucket[b] <= store[r].cursor
  BY <1>1, StoreFacts DEF StoresBounded
<1>4. Covers[t] \subseteq Buckets
  BY GridAssumption
<1>5. ASSUME NEW b \in Buckets
      PROVE  /\ Effective(store[r], b) \in Nat /\ Effective(store[r], b) <= store[r].cursor
             /\ store[r].floor <= Effective(store[r], b)
             /\ store[r].bucket[b] <= Effective(store[r], b)
  <2>1. PICK T : T = {store[r].floor, store[r].bucket[b]}
    OBVIOUS
  <2>2. Max(T) \in T /\ \A k \in T : k <= Max(T)
    BY <1>3, <2>1, MaxOfBounded
  <2> QED
    BY <1>3, <2>1, <2>2 DEF Effective
<1>6. /\ gens # {}
      /\ \A g \in gens : g \in Nat /\ g <= store[r].cursor
      /\ \A b \in Covers[t] : Effective(store[r], b) \in gens
  BY <1>3, <1>4, <1>5
<1> HIDE DEF gens
<1>7. Max(gens) \in gens /\ \A g \in gens : g <= Max(gens)
  BY <1>3, <1>6, MaxOfBounded
<1>8. Max(gens) \in Nat /\ Max(gens) <= lastSeq
  BY <1>3, <1>6, <1>7
<1>9. /\ q \in RequestType /\ q.pc = "lookup" /\ q.at = r /\ q.tile = t
      /\ q.gen = Max(gens) /\ q.drained = store[r].cursor
  BY <1>3, <1>8 DEF RequestType
<1> HIDE DEF q
<1>10. /\ request' \in [Clients -> {NoRequest} \cup RequestType] /\ request'[c] = q
       /\ \A d \in Clients : d # c => request'[d] = request[d]
  BY <1>1, <1>2, <1>9 DEF TypeOK, RequestType
<1>11. TypeOK'
  BY <1>1, <1>2, <1>10 DEF TypeOK, LogTypeOK, RequestType
<1>12. KeysAreOld'
  <2>1. ASSUME NEW d \in Clients, request'[d].pc # "idle"
        PROVE  /\ request'[d].gen <= lastSeq /\ request'[d].drained <= lastSeq
               /\ request'[d].pc \in {"fill", "put"} => request'[d].gen <= request'[d].asOf
               /\ request'[d].pc = "l2" => SharedL2
    <3>1. CASE d = c
      BY <1>3, <1>8, <1>9, <1>10, <3>1
    <3>2. CASE d # c
      BY <1>1, <1>10, <2>1, <3>2 DEF KeysAreOld
    <3> QED
      BY <3>1, <3>2
  <2>2. \A e : (e \in l2 \/ \E s \in Replicas : e \in l1[s]) => e.key.gen <= e.asOf
    BY <1>1 DEF KeysAreOld
  <2> QED
    BY <1>2, <2>1, <2>2 DEF KeysAreOld
<1>13. ASSUME NEW s \in Replicas, NEW n \in Sequenced, Outlived(s, n) PROVE Outlived(s, n)'
  <2>1. \A d \in Clients : request'[d].pc \in {"fill", "put"} => request'[d] = request[d]
    BY <1>9, <1>10
  <2> QED
    BY <1>2, <1>13, <2>1 DEF Outlived
<1>14. RequestsCover'
  <2> SUFFICES ASSUME NEW d \in Clients, NEW n \in Sequenced, request'[d].pc # "idle",
                      n <= request'[d].drained,
                      touched[n] \cap Covers[request'[d].tile] # {}
               PROVE  n <= request'[d].gen \/ Outlived(request[d].at, n)'
    BY <1>2 DEF RequestsCover
  <2>1. PICK s \in Replicas : s = request'[d].at
    BY <1>9, <1>10, <1>1, RequestFacts
  <2>2. n <= request'[d].gen \/ Outlived(s, n)
    <3>1. CASE d = c
      <4>1. PICK b \in touched[n] : b \in Covers[t]
        BY <1>9, <1>10, <3>1
      <4>2. b \in Buckets /\ n \in Nat
        BY <1>4, <4>1, TouchedIsCommitted
      <4>3. CASE Raised(r, n)
        <5>1. n <= store[r].floor \/ n <= store[r].bucket[b]
          BY <4>1, <4>3 DEF Raised
        <5>2. Effective(store[r], b) \in gens
          BY <1>6, <4>1
        <5>3. n <= Effective(store[r], b)
          BY <1>3, <1>5, <4>2, <5>1
        <5>4. n <= Max(gens)
          BY <1>6, <1>7, <1>8, <4>2, <5>2, <5>3
        <5> QED
          BY <1>9, <1>10, <3>1, <5>4
      <4>4. n <= store[r].cursor
        BY <1>9, <1>10, <3>1
      <4>5. Raised(r, n) \/ Outlived(r, n)
        BY <1>1, <4>1, <4>4 DEF NothingIsMissed
      <4>6. s = r
        BY <1>9, <1>10, <2>1, <3>1
      <4> QED
        BY <4>3, <4>5, <4>6
    <3>2. CASE d # c
      <4>1. request'[d] = request[d]
        BY <1>10, <3>2
      <4> QED
        BY <1>1, <2>1, <4>1 DEF RequestsCover
    <3> QED
      BY <3>1, <3>2
  <2>3. CASE Outlived(s, n)'
    BY <2>1, <2>3 DEF Outlived
  <2> QED
    BY <1>13, <2>2, <2>3
<1> QED
  BY <1>2, <1>11, <1>12, <1>13, <1>14, CacheStepKeeps

-----------------------------------------------------------------------------
(***************************************************************************)
(* A step of the log, the stores and their passes: requests and caches     *)
(* stay, so what they have outlived does too.                              *)
(***************************************************************************)
LEMMA LogStepKeeps ==
    ASSUME TilesInv, TypeOK', SequencesDistinct', HistoryMatches', StoresBounded',
           NothingIsMissed', BatchesAreComplete', UNCHANGED <<l1, l2, request>>,
           lastSeq <= lastSeq',
           \A n \in Sequenced : n <= lastSeq => touched'[n] = touched[n]
    PROVE  TilesInv'
<1>1. TypeOK /\ KeysAreOld /\ RequestsCover /\ lastSeq \in Nat /\ lastSeq' \in Nat
  BY DEF TilesInv, TypeOK, LogTypeOK
<1>2. KeysAreOld'
  <2>1. ASSUME NEW c \in Clients, request[c].pc # "idle"
        PROVE  request[c].gen <= lastSeq' /\ request[c].drained <= lastSeq'
    <3>1. request[c].gen \in Nat /\ request[c].drained \in Nat
      BY <1>1, <2>1, RequestFacts
    <3>2. request[c].gen <= lastSeq /\ request[c].drained <= lastSeq
      BY <1>1, <2>1 DEF KeysAreOld
    <3> QED
      BY <1>1, <3>1, <3>2
  <2> QED
    BY <1>1, <2>1 DEF KeysAreOld
<1>3. RequestsCover'
  <2> SUFFICES ASSUME NEW c \in Clients, NEW n \in Sequenced, request[c].pc # "idle",
                      n <= request[c].drained,
                      touched'[n] \cap Covers[request[c].tile] # {}
               PROVE  n <= request[c].gen \/ Outlived(request[c].at, n)
    BY DEF RequestsCover, Outlived
  <2>1. request[c].drained \in Nat /\ request[c].drained <= lastSeq /\ n \in Nat
    BY <1>1, RequestFacts DEF KeysAreOld, Sequenced
  <2>2. touched'[n] = touched[n]
    BY <1>1, <2>1
  <2> QED
    BY <1>1, <2>2 DEF RequestsCover
<1> QED
  BY <1>2, <1>3 DEF TilesInv

LEMMA ReadBatchKeeps ==
    ASSUME TilesInv, NEW r \in Replicas, ReadBatch(r)
    PROVE  TilesInv'
<1>1. /\ TypeOK /\ LogTypeOK /\ SequencesDistinct /\ HistoryMatches /\ StoresBounded
      /\ NothingIsMissed /\ BatchesAreComplete
  BY DEF TilesInv, TypeOK
<1>2. PICK page : page = ReadAfter(store[r].cursor, BatchSize)
  OBVIOUS
<1>3. /\ drain' = [drain EXCEPT ![r] = page]
      /\ UNCHANGED <<rows, outbox, lastSeq, store, retain, l1, l2, request, restarts, touched>>
  BY <1>2 DEF ReadBatch
<1>4. store[r].cursor \in Nat /\ BatchSize \in Nat /\ lastSeq \in Nat
  BY <1>1, StoreFacts, TilesBounds
<1>5. page \subseteq outbox /\ \A o \in page : o.seq > store[r].cursor
  BY <1>2, ReadAfterSubset
<1>6. outbox \subseteq Obligation
  BY <1>1 DEF LogTypeOK
<1>7. /\ drain' \in [Replicas -> SUBSET Obligation] /\ drain'[r] = page
      /\ \A s \in Replicas : s # r => drain'[s] = drain[s]
  BY <1>1, <1>3, <1>5, <1>6 DEF TypeOK
<1>8. TypeOK'
  BY <1>1, <1>3, <1>7 DEF TypeOK, LogTypeOK
<1>9. SequencesDistinct'
  BY <1>1, <1>3 DEF SequencesDistinct
<1>10. HistoryMatches'
  <2>1. \A o : (o \in outbox' \/ \E s \in Replicas : o \in drain'[s]) =>
              (o \in outbox \/ \E s \in Replicas : o \in drain[s])
    BY <1>3, <1>5, <1>7
  <2> QED
    BY <1>1, <1>3, <2>1 DEF HistoryMatches
<1>11. StoresBounded'
  BY <1>1, <1>3 DEF StoresBounded
<1>12. NothingIsMissed'
  BY <1>1, <1>3 DEF NothingIsMissed, Raised, InOutbox, Outlived
<1>13. ASSUME NEW o \in page, NEW n \in Sequenced, touched[n] # {},
              n > store[r].cursor, n <= o.seq
       PROVE  (\E p \in page : p.seq = n) \/ Outlived(r, n)
  <2>1. CASE InOutbox(n)
    <3>1. PICK p \in outbox : p.seq = n
      BY <2>1 DEF InOutbox
    <3>2. o \in ReadAfter(store[r].cursor, BatchSize)
      BY <1>2
    <3>3. p \in ReadAfter(store[r].cursor, BatchSize)
      BY <1>1, <1>4, <1>13, <3>1, <3>2, ReadAfterSkipsNothing
    <3> QED
      BY <1>2, <3>1, <3>3
  <2> QED
    BY <1>1, <1>13, <2>1 DEF NothingIsMissed
<1>14. BatchesAreComplete'
  <2> SUFFICES ASSUME NEW s \in Replicas, NEW o \in drain'[s]
               PROVE  /\ o.seq > store[s].cursor
                      /\ \A n \in Sequenced :
                            touched[n] # {} /\ n > store[s].cursor /\ n <= o.seq =>
                               (\E p \in drain'[s] : p.seq = n) \/ Outlived(s, n)
    BY <1>3 DEF BatchesAreComplete, Outlived
  <2>1. CASE s = r
    BY <1>5, <1>7, <1>13, <2>1
  <2>2. CASE s # r
    BY <1>1, <1>7, <2>2 DEF BatchesAreComplete
  <2> QED
    BY <2>1, <2>2
<1> QED
  BY <1>3, <1>4, <1>8, <1>9, <1>10, <1>11, <1>12, <1>14, LogStepKeeps

LEMMA MaxOfTwo ==
    ASSUME NEW a \in Nat, NEW b \in Nat
    PROVE  /\ Max({a, b}) \in {a, b}
           /\ a <= Max({a, b}) /\ b <= Max({a, b}) /\ Max({a, b}) \in Nat
<1>1. PICK T : T = {a, b}
  OBVIOUS
<1>2. PICK m \in Nat : m \in T /\ \A t \in T : t <= m
  BY <1>1
<1>3. Max(T) \in T /\ \A t \in T : t <= Max(T)
  BY <1>1, <1>2, MaxOfBounded
<1> QED
  BY <1>1, <1>3

(***************************************************************************)
(* What apply_batch makes of a store.                                      *)
(***************************************************************************)
LEMMA AdvanceFacts ==
    ASSUME NEW gen \in StoreType, NEW batch \in SUBSET Obligation, batch # {},
           NEW b0 \in Nat, \A o \in batch : o.seq <= b0,
           gen.floor <= gen.cursor, \A b \in Buckets : gen.bucket[b] <= gen.cursor,
           \A o \in batch : o.seq > gen.cursor
    PROVE  LET now == Advance(gen, batch)
           IN  /\ now \in StoreType
               /\ now.cursor <= b0 /\ gen.cursor < now.cursor
               /\ \E o \in batch : now.cursor = o.seq
               /\ \A o \in batch : o.seq <= now.cursor
               /\ gen.floor <= now.floor /\ now.floor <= now.cursor
               /\ \A b \in Buckets : gen.bucket[b] <= now.bucket[b] /\ now.bucket[b] <= now.cursor
               /\ \A o \in batch : ~o.recorded => now.floor = now.cursor
               /\ \A o \in batch : o.recorded =>
                     \A b \in Buckets : b \in BucketsOf[o.prior] \cup BucketsOf[o.current] =>
                        now.bucket[b] = now.cursor
<1> DEFINE seqs == {o.seq : o \in batch}
           high == Highest(batch)
           touching == TouchedBy(batch)
<1>1. (\A n \in seqs : n \in Nat /\ n <= b0) /\ seqs # {}
  BY DEF Obligation
<1>2. high \in seqs /\ \A n \in seqs : n <= high
  <2>1. high = Max(seqs)
    BY DEF Highest
  <2> HIDE DEF seqs, high
  <2> QED
    BY <1>1, <2>1, MaxOfBounded
<1>3. /\ high \in Nat /\ high <= b0 /\ (\E o \in batch : high = o.seq)
      /\ (\A o \in batch : o.seq <= high) /\ gen.cursor < high
  BY <1>1, <1>2 DEF StoreType
<1>4. /\ gen.cursor \in Nat /\ gen.floor \in Nat /\ gen.bucket \in [Buckets -> Nat]
  BY DEF StoreType
<1>5. \A o \in batch : o.recorded =>
         \A b \in Buckets : b \in BucketsOf[o.prior] \cup BucketsOf[o.current] => b \in touching
  BY DEF TouchedBy
<1> HIDE DEF high, touching, seqs
<1>6. PICK floor : floor = IF \E o \in batch : ~o.recorded
                           THEN Max({gen.floor, high}) ELSE gen.floor
  OBVIOUS
<1>7. PICK bucket : bucket = [b \in Buckets |-> IF b \in touching
                                               THEN Max({gen.bucket[b], high})
                                               ELSE gen.bucket[b]]
  OBVIOUS
<1>8. PICK now : now = [cursor |-> high, floor |-> floor, bucket |-> bucket]
  OBVIOUS
<1>9. Advance(gen, batch) = now
  BY <1>6, <1>7, <1>8 DEF Advance, high, touching
<1>10. /\ floor \in Nat /\ gen.floor <= floor /\ floor <= high
       /\ (\E o \in batch : ~o.recorded) => floor = high
  <2>1. Max({gen.floor, high}) = high
    BY <1>3, <1>4, MaxOfTwo
  <2> QED
    BY <1>3, <1>4, <1>6, <2>1
<1>11. /\ bucket \in [Buckets -> Nat]
       /\ \A b \in Buckets : /\ gen.bucket[b] <= bucket[b] /\ bucket[b] <= high
                             /\ b \in touching => bucket[b] = high
  <2>1. ASSUME NEW b \in Buckets
        PROVE  /\ gen.bucket[b] \in Nat /\ gen.bucket[b] <= high
               /\ Max({gen.bucket[b], high}) = high
    <3>1. gen.bucket[b] \in Nat /\ gen.bucket[b] <= gen.cursor
      BY <1>4
    <3> QED
      BY <1>3, <1>4, <3>1, MaxOfTwo
  <2>2. ASSUME NEW b \in Buckets
        PROVE  /\ bucket[b] \in Nat /\ gen.bucket[b] <= bucket[b] /\ bucket[b] <= high
               /\ b \in touching => bucket[b] = high
    BY <1>3, <1>7, <2>1
  <2> QED
    BY <1>7, <2>2
<1>12. now \in StoreType
  BY <1>3, <1>8, <1>10, <1>11 DEF StoreType
<1>13. now.cursor = high /\ now.floor = floor /\ now.bucket = bucket
  BY <1>8
<1> QED
  BY <1>3, <1>5, <1>9, <1>10, <1>11, <1>12, <1>13

LEMMA ApplyBatchKeeps ==
    ASSUME TilesInv, NEW r \in Replicas, ApplyBatch(r)
    PROVE  TilesInv'
<1>1. /\ TypeOK /\ LogTypeOK /\ SequencesDistinct /\ HistoryMatches /\ StoresBounded
      /\ NothingIsMissed /\ BatchesAreComplete
  BY DEF TilesInv, TypeOK
<1>2. PICK now : now = Advance(store[r], drain[r])
  OBVIOUS
<1>3. /\ store' = [store EXCEPT ![r] = now] /\ drain' = [drain EXCEPT ![r] = {}]
      /\ drain[r] # {}
      /\ UNCHANGED <<rows, outbox, lastSeq, retain, l1, l2, request, restarts, touched>>
  BY <1>2 DEF ApplyBatch
<1>4. /\ store[r] \in StoreType /\ lastSeq \in Nat /\ store[r].cursor \in Nat
      /\ store[r].floor \in Nat /\ store[r].floor <= store[r].cursor
      /\ \A b \in Buckets : store[r].bucket[b] \in Nat /\ store[r].bucket[b] <= store[r].cursor
  BY <1>1, StoreFacts DEF StoresBounded
<1>5. /\ drain[r] \in SUBSET Obligation
      /\ \A o \in drain[r] : o.seq <= lastSeq /\ o.seq > store[r].cursor
  BY <1>1 DEF TypeOK, HistoryMatches, BatchesAreComplete
<1>6. /\ now \in StoreType
      /\ now.cursor <= lastSeq /\ store[r].cursor < now.cursor
      /\ \E o \in drain[r] : now.cursor = o.seq
      /\ \A o \in drain[r] : o.seq <= now.cursor
      /\ store[r].floor <= now.floor /\ now.floor <= now.cursor
      /\ \A b \in Buckets : store[r].bucket[b] <= now.bucket[b] /\ now.bucket[b] <= now.cursor
      /\ \A o \in drain[r] : ~o.recorded => now.floor = now.cursor
      /\ \A o \in drain[r] : o.recorded =>
            \A b \in Buckets : b \in BucketsOf[o.prior] \cup BucketsOf[o.current] =>
               now.bucket[b] = now.cursor
  BY <1>2, <1>3, <1>4, <1>5, AdvanceFacts
<1>7. /\ now.cursor \in Nat /\ now.floor \in Nat /\ \A b \in Buckets : now.bucket[b] \in Nat
  BY <1>6 DEF StoreType
<1>8. /\ store' \in [Replicas -> StoreType] /\ store'[r] = now
      /\ \A s \in Replicas : s # r => store'[s] = store[s]
      /\ drain' \in [Replicas -> SUBSET Obligation] /\ drain'[r] = {}
      /\ \A s \in Replicas : s # r => drain'[s] = drain[s]
  BY <1>1, <1>3, <1>6 DEF TypeOK, StoreType
<1>9. TypeOK'
  <2>1. \A s \in Replicas : store'[s].cursor <= lastSeq
    BY <1>1, <1>6, <1>8 DEF TypeOK
  <2> QED
    BY <1>1, <1>3, <1>8, <2>1 DEF TypeOK, LogTypeOK, StoreType
<1>10. SequencesDistinct'
  BY <1>1, <1>3 DEF SequencesDistinct
<1>11. HistoryMatches'
  <2>1. \A o : (o \in outbox' \/ \E s \in Replicas : o \in drain'[s]) =>
              (o \in outbox \/ \E s \in Replicas : o \in drain[s])
    BY <1>3, <1>8
  <2> QED
    BY <1>1, <1>3, <2>1 DEF HistoryMatches
<1>12. StoresBounded'
  <2> SUFFICES ASSUME NEW s \in Replicas
               PROVE  /\ store'[s].floor <= store'[s].cursor
                      /\ \A b \in Buckets : store'[s].bucket[b] <= store'[s].cursor
                      /\ retain[s].on => Retention /\ retain[s].floor <= store'[s].cursor
    BY <1>3 DEF StoresBounded
  <2>1. CASE s = r
    <3>1. retain[r].floor \in Nat
      BY <1>1 DEF TypeOK
    <3>2. retain[r].on => Retention /\ retain[r].floor <= store[r].cursor
      BY <1>1 DEF StoresBounded
    <3>3. retain[r].on => Retention /\ retain[r].floor <= now.cursor
      BY <1>4, <1>6, <1>7, <3>1, <3>2
    <3> QED
      BY <1>6, <1>8, <2>1, <3>3
  <2>2. CASE s # r
    BY <1>1, <1>8, <2>2 DEF StoresBounded
  <2> QED
    BY <2>1, <2>2
<1>13. \A s, n : Outlived(s, n)' = Outlived(s, n) /\ InOutbox(n)' = InOutbox(n)
  BY <1>3 DEF Outlived, InOutbox
<1>14. ASSUME NEW n \in Sequenced, touched[n] # {}, n <= now.cursor
       PROVE  Raised(r, n)' \/ Outlived(r, n)
  <2>1. n \in Nat /\ touched[n] \subseteq Buckets
    BY <1>1, <1>14, TouchedIsCommitted DEF TypeOK, Sequenced
  <2>2. CASE n <= store[r].cursor
    <3>1. Raised(r, n) \/ Outlived(r, n)
      BY <1>1, <1>14, <2>2 DEF NothingIsMissed
    <3>2. ASSUME Raised(r, n) PROVE Raised(r, n)'
      <4>1. ASSUME NEW b \in touched[n] PROVE n <= now.floor \/ n <= now.bucket[b]
        <5>1. b \in Buckets /\ (n <= store[r].floor \/ n <= store[r].bucket[b])
          BY <2>1, <3>2 DEF Raised
        <5> QED
          BY <1>4, <1>6, <1>7, <2>1, <5>1
      <4> QED
        BY <1>3, <1>8, <4>1 DEF Raised
    <3> QED
      BY <3>1, <3>2
  <2>3. CASE n > store[r].cursor
    <3>1. PICK o \in drain[r] : now.cursor = o.seq
      BY <1>6
    <3>2. (\E p \in drain[r] : p.seq = n) \/ Outlived(r, n)
      BY <1>1, <1>14, <2>3, <3>1 DEF BatchesAreComplete
    <3>3. ASSUME NEW p \in drain[r], p.seq = n PROVE Raised(r, n)'
      <4>1. touched[n] \subseteq BucketsOf[p.prior] \cup BucketsOf[p.current]
        BY <1>1, <3>3 DEF HistoryMatches
      <4>2. ASSUME NEW b \in touched[n] PROVE n <= now.floor \/ n <= now.bucket[b]
        <5>1. b \in Buckets /\ b \in BucketsOf[p.prior] \cup BucketsOf[p.current]
          BY <2>1, <4>1
        <5>2. CASE p.recorded
          BY <1>6, <1>14, <5>1, <5>2
        <5>3. CASE ~p.recorded
          BY <1>6, <1>14, <5>3
        <5> QED
          BY <5>2, <5>3
      <4> QED
        BY <1>3, <1>8, <4>2 DEF Raised
    <3> QED
      BY <3>2, <3>3
  <2> QED
    BY <1>4, <2>1, <2>2, <2>3
<1>15. NothingIsMissed'
  <2>1. ASSUME NEW s \in Replicas, NEW n \in Sequenced, touched[n] # {}
        PROVE  /\ n <= store'[s].cursor => Raised(s, n)' \/ Outlived(s, n)
               /\ n > store'[s].cursor => InOutbox(n) \/ Outlived(s, n)
    <3>1. CASE s = r
      <4>1. n \in Nat
        BY <2>1, TouchedIsCommitted
      <4>2. n > now.cursor => n > store[r].cursor
        BY <1>4, <1>6, <1>7, <4>1
      <4>3. n > now.cursor => InOutbox(n) \/ Outlived(r, n)
        BY <1>1, <2>1, <4>2 DEF NothingIsMissed
      <4> QED
        BY <1>8, <1>14, <2>1, <3>1, <4>3
    <3>2. CASE s # r
      <4>1. Raised(s, n)' = Raised(s, n)
        BY <1>3, <1>8, <3>2 DEF Raised
      <4> QED
        BY <1>1, <1>8, <2>1, <3>2, <4>1 DEF NothingIsMissed
    <3> QED
      BY <3>1, <3>2
  <2>2. ~Retention => \A n \in Sequenced : touched[n] # {} => InOutbox(n)
    BY <1>1 DEF NothingIsMissed
  <2> QED
    BY <1>3, <1>13, <2>1, <2>2 DEF NothingIsMissed
<1>16. BatchesAreComplete'
  <2> SUFFICES ASSUME NEW s \in Replicas, NEW o \in drain'[s]
               PROVE  /\ o.seq > store'[s].cursor
                      /\ \A n \in Sequenced :
                            touched[n] # {} /\ n > store'[s].cursor /\ n <= o.seq =>
                               (\E p \in drain'[s] : p.seq = n) \/ Outlived(s, n)
    BY <1>3, <1>13 DEF BatchesAreComplete
  <2>1. s # r /\ store'[s] = store[s] /\ drain'[s] = drain[s]
    BY <1>8
  <2> QED
    BY <1>1, <2>1 DEF BatchesAreComplete
<1> QED
  BY <1>3, <1>4, <1>9, <1>10, <1>11, <1>12, <1>15, <1>16, LogStepKeeps

-----------------------------------------------------------------------------
(***************************************************************************)
(* The floor is not above the consumer's own cursor, whatever the          *)
(* high-water mark is.                                                     *)
(***************************************************************************)
LEMMA FloorIsBelowCursor ==
    ASSUME LogTypeOK, NEW r \in Replicas, store[r].cursor \in Nat
    PROVE  LET floor == ComputeFloor(PrimaryHighWater, RegisteredCursors(r))
           IN  floor \in Nat /\ floor <= store[r].cursor
<1> DEFINE seqs == {o.seq : o \in outbox} \cup {0}
<1>1. PrimaryHighWater \in Nat
  <2>1. (\A n \in seqs : n \in Nat /\ n <= lastSeq) /\ seqs # {} /\ lastSeq \in Nat
    BY DEF LogTypeOK, Obligation
  <2>2. PrimaryHighWater = Max(seqs)
    BY DEF PrimaryHighWater
  <2> HIDE DEF seqs
  <2>3. Max(seqs) \in seqs
    BY <2>1, MaxOfBounded
  <2> QED
    BY <2>1, <2>2, <2>3
<1>2. PICK S : S = RegisteredCursors(r) \cup {PrimaryHighWater}
  OBVIOUS
<1>3. S = {store[r].cursor, PrimaryHighWater}
  BY <1>2 DEF RegisteredCursors
<1>4. \E m \in S : \A n \in S : m <= n
  BY <1>1, <1>3
<1>5. Min(S) \in S /\ \A n \in S : Min(S) <= n
  BY <1>4 DEF Min
<1> QED
  BY <1>1, <1>2, <1>3, <1>5 DEF ComputeFloor

LEMMA GatherKeeps ==
    ASSUME TilesInv, NEW r \in Replicas, GatherCursors(r)
    PROVE  TilesInv'
<1>1. /\ TypeOK /\ LogTypeOK /\ SequencesDistinct /\ HistoryMatches /\ StoresBounded
      /\ NothingIsMissed /\ BatchesAreComplete
  BY DEF TilesInv, TypeOK
<1>2. PICK floor : floor = ComputeFloor(PrimaryHighWater, RegisteredCursors(r))
  OBVIOUS
<1>3. /\ retain' = [retain EXCEPT ![r] = [on |-> TRUE, floor |-> floor]] /\ Retention
      /\ UNCHANGED <<rows, outbox, lastSeq, store, drain, l1, l2, request, restarts, touched>>
  BY <1>2 DEF GatherCursors
<1>4. floor \in Nat /\ floor <= store[r].cursor /\ lastSeq \in Nat
  BY <1>1, <1>2, StoreFacts, FloorIsBelowCursor
<1>5. /\ retain' \in [Replicas -> [on : BOOLEAN, floor : Nat]]
      /\ \A s \in Replicas : retain'[s] = IF s = r THEN [on |-> TRUE, floor |-> floor] ELSE retain[s]
  BY <1>1, <1>3, <1>4 DEF TypeOK
<1>6. TypeOK'
  BY <1>1, <1>3, <1>5 DEF TypeOK, LogTypeOK
<1>7. SequencesDistinct'
  BY <1>1, <1>3 DEF SequencesDistinct
<1>8. HistoryMatches'
  BY <1>1, <1>3 DEF HistoryMatches
<1>9. StoresBounded'
  BY <1>1, <1>3, <1>4, <1>5 DEF StoresBounded
<1>10. NothingIsMissed'
  BY <1>1, <1>3 DEF NothingIsMissed, Raised, InOutbox, Outlived
<1>11. BatchesAreComplete'
  BY <1>1, <1>3 DEF BatchesAreComplete, Outlived
<1> QED
  BY <1>3, <1>4, <1>6, <1>7, <1>8, <1>9, <1>10, <1>11, LogStepKeeps

(***************************************************************************)
(* What a prune takes is behind the cursor of the only replica.            *)
(***************************************************************************)
LEMMA PruneTakesDrained ==
    ASSUME TilesInv, SafeDeployment, NEW r \in Replicas, PruneBefore(r)
    PROVE  /\ outbox' \subseteq outbox /\ rows' = rows /\ lastSeq' = lastSeq /\ Retention
           /\ \A o \in outbox \ outbox', s \in Replicas : o.seq <= store[s].cursor
<1>1. /\ TypeOK /\ LogTypeOK /\ SequencesDistinct /\ StoresBounded
      /\ retain[r].on /\ Prune(retain[r].floor, PruneBatch)
  BY DEF TilesInv, TypeOK, PruneBefore
<1>2. retain[r].floor \in Nat /\ PruneBatch \in Nat
  BY <1>1, TilesBounds DEF TypeOK
<1>3. Retention /\ retain[r].floor <= store[r].cursor
  BY <1>1 DEF StoresBounded
<1>4. /\ outbox' \subseteq outbox /\ rows' = rows /\ lastSeq' = lastSeq
      /\ \A o \in outbox \ outbox' : o.seq <= retain[r].floor
  BY <1>1, <1>2, PruneRemovesAPrefix
<1>5. ASSUME NEW o \in outbox \ outbox', NEW s \in Replicas PROVE o.seq <= store[s].cursor
  <2>1. s = r
    BY <1>3 DEF SafeDeployment, OneReplica
  <2>2. o.seq \in Nat /\ store[r].cursor \in Nat
    BY <1>1, StoreFacts DEF LogTypeOK, Obligation
  <2> QED
    BY <1>2, <1>3, <1>4, <2>1, <2>2
<1> QED
  BY <1>3, <1>4, <1>5

LEMMA PruneKeeps ==
    ASSUME TilesInv, SafeDeployment, NEW r \in Replicas, PruneBefore(r)
    PROVE  TilesInv'
<1>1. /\ TypeOK /\ LogTypeOK /\ SequencesDistinct /\ HistoryMatches /\ StoresBounded
      /\ NothingIsMissed /\ BatchesAreComplete
  BY DEF TilesInv, TypeOK
<1>2. /\ outbox' \subseteq outbox /\ rows' = rows /\ lastSeq' = lastSeq /\ Retention
      /\ \A o \in outbox \ outbox', s \in Replicas : o.seq <= store[s].cursor
  BY PruneTakesDrained
<1>3. /\ retain' = [retain EXCEPT ![r] = NotPruning]
      /\ UNCHANGED <<store, drain, l1, l2, request, restarts, touched>>
  BY DEF PruneBefore
<1>4. /\ retain' \in [Replicas -> [on : BOOLEAN, floor : Nat]]
      /\ \A s \in Replicas : retain'[s].on => retain'[s] = retain[s]
  BY <1>1, <1>3 DEF TypeOK, NotPruning
<1>5. TypeOK'
  BY <1>1, <1>2, <1>3, <1>4 DEF TypeOK, LogTypeOK
<1>6. SequencesDistinct'
  BY <1>1, <1>2 DEF SequencesDistinct
<1>7. HistoryMatches'
  BY <1>1, <1>2, <1>3 DEF HistoryMatches
<1>8. StoresBounded'
  BY <1>1, <1>3, <1>4 DEF StoresBounded
<1>9. NothingIsMissed'
  <2>1. ASSUME NEW s \in Replicas, NEW n \in Sequenced, touched[n] # {}, n > store[s].cursor, InOutbox(n)
        PROVE  InOutbox(n)'
    <3>1. PICK o \in outbox : o.seq = n
      BY <2>1 DEF InOutbox
    <3>2. n \in Nat /\ store[s].cursor \in Nat
      BY <1>1, <2>1, TouchedIsCommitted, StoreFacts
    <3>3. o \in outbox'
      BY <1>2, <2>1, <3>1, <3>2
    <3> QED
      BY <3>1, <3>3 DEF InOutbox
  <2>2. \A s, n : Raised(s, n)' = Raised(s, n) /\ Outlived(s, n)' = Outlived(s, n)
    BY <1>3 DEF Raised, Outlived
  <2> QED
    BY <1>1, <1>2, <1>3, <2>1, <2>2 DEF NothingIsMissed
<1>10. BatchesAreComplete'
  BY <1>1, <1>3 DEF BatchesAreComplete, Outlived
<1>11. lastSeq \in Nat
  BY <1>1 DEF LogTypeOK
<1> QED
  BY <1>2, <1>3, <1>5, <1>6, <1>7, <1>8, <1>9, <1>10, <1>11, LogStepKeeps

LEMMA WriteKeeps ==
    ASSUME TilesInv, NEW m \in Mutation, NEW rec \in Recordings, NEW gap \in 0..MaxGap,
           Write(m, rec, gap)
    PROVE  TilesInv'
<1>1. /\ TypeOK /\ LogTypeOK /\ SequencesDistinct /\ HistoryMatches /\ StoresBounded
      /\ NothingIsMissed /\ BatchesAreComplete
  BY DEF TilesInv, TypeOK
<1>2. /\ rec \in BOOLEAN /\ gap \in Nat /\ MaxSeq \in Nat /\ lastSeq \in Nat
      /\ m.fid \in Features /\ m.to \in Stored /\ rows[m.fid] \in Stored
  BY <1>1, RecordingsAssumption, BoundsAssumption DEF Mutation, LogTypeOK
<1>3. PICK new : new = [seq |-> lastSeq', fid |-> m.fid, prior |-> rows[m.fid],
                        current |-> m.to, recorded |-> rec]
  OBVIOUS
<1>4. /\ lastSeq' = lastSeq + gap + 1 /\ outbox' = outbox \cup {new} /\ LogTypeOK'
  BY <1>1, <1>2, <1>3, CommitOne DEF Write
<1>5. lastSeq' <= MaxSeq
  <2>1. Len(<<m>>) = 1
    OBVIOUS
  <2> QED
    BY <1>2, <1>4, <2>1 DEF Write, Commit
<1>6. PICK area : area = BucketsOf[rows[m.fid]] \cup BucketsOf[m.to]
  OBVIOUS
<1>7. /\ touched' = [touched EXCEPT ![lastSeq'] = area]
      /\ UNCHANGED <<store, drain, retain, l1, l2, request, restarts>>
  BY <1>6 DEF Write
<1>8. lastSeq' \in Sequenced /\ lastSeq' > lastSeq /\ lastSeq' \in Nat /\ area \subseteq Buckets
  BY <1>2, <1>4, <1>5, <1>6, GridAssumption DEF Sequenced
<1>9. /\ touched' \in [Sequenced -> SUBSET Buckets] /\ touched'[lastSeq'] = area
      /\ \A n \in Sequenced : n # lastSeq' => touched'[n] = touched[n]
  BY <1>1, <1>7, <1>8 DEF TypeOK, Sequenced
<1>10. /\ new.seq = lastSeq' /\ new.prior = rows[m.fid] /\ new.current = m.to
       /\ new \in Obligation
  BY <1>2, <1>3, <1>4 DEF Obligation
<1>11. \A o \in outbox : o \in Obligation /\ o.seq \in Nat /\ o.seq > 0 /\ o.seq <= lastSeq
  BY <1>1 DEF LogTypeOK, Obligation
<1>12. TypeOK'
  <2>1. \A r \in Replicas : store[r].cursor <= lastSeq'
    BY <1>1, <1>2, <1>8, StoreFacts
  <2> QED
    BY <1>1, <1>4, <1>7, <1>9, <2>1 DEF TypeOK, Sequenced
<1>13. SequencesDistinct'
  BY <1>1, <1>2, <1>4, <1>8, <1>10, <1>11 DEF SequencesDistinct
<1>14. HistoryMatches'
  <2>1. ASSUME NEW n \in Sequenced, n > lastSeq' PROVE touched'[n] = {}
    <3>1. n \in Nat /\ n > lastSeq /\ n # lastSeq'
      BY <1>2, <1>8, <2>1 DEF Sequenced
    <3> QED
      BY <1>1, <1>9, <3>1 DEF HistoryMatches
  <2>2. ASSUME NEW o, o \in outbox \/ \E r \in Replicas : o \in drain[r]
        PROVE  /\ o \in Obligation /\ o.seq <= lastSeq'
               /\ touched'[o.seq] \subseteq BucketsOf[o.prior] \cup BucketsOf[o.current]
    <3>1. /\ o \in Obligation /\ o.seq <= lastSeq
          /\ touched[o.seq] \subseteq BucketsOf[o.prior] \cup BucketsOf[o.current]
      BY <1>1, <2>2 DEF HistoryMatches
    <3>2. o.seq \in Nat /\ o.seq > 0
      BY <3>1 DEF Obligation
    <3>3. o.seq \in Sequenced /\ o.seq # lastSeq' /\ o.seq <= lastSeq'
      BY <1>2, <1>5, <1>8, <3>1, <3>2 DEF Sequenced
    <3> QED
      BY <1>9, <3>1, <3>3
  <2>3. /\ new \in Obligation /\ new.seq <= lastSeq'
        /\ touched'[new.seq] \subseteq BucketsOf[new.prior] \cup BucketsOf[new.current]
    BY <1>6, <1>8, <1>9, <1>10
  <2> QED
    BY <1>4, <1>5, <1>7, <2>1, <2>2, <2>3 DEF HistoryMatches
<1>15. StoresBounded'
  BY <1>1, <1>7 DEF StoresBounded
<1>16. \A r, n : Outlived(r, n)' = Outlived(r, n)
  BY <1>7 DEF Outlived
<1>17. \A n : InOutbox(n) => InOutbox(n)'
  BY <1>4 DEF InOutbox
<1>19. ASSUME NEW r \in Replicas, NEW n \in Sequenced, touched'[n] # {}, n # lastSeq'
       PROVE  /\ touched[n] # {}
              /\ n <= store[r].cursor => Raised(r, n)' \/ Outlived(r, n)
              /\ n > store[r].cursor => InOutbox(n)' \/ Outlived(r, n)
  <2>1. touched'[n] = touched[n]
    BY <1>9, <1>19
  <2>2. Raised(r, n) => Raised(r, n)'
    BY <1>7, <2>1 DEF Raised
  <2> QED
    BY <1>1, <1>17, <1>19, <2>1, <2>2 DEF NothingIsMissed
<1>20. NothingIsMissed'
  <2>1. ASSUME NEW r \in Replicas
        PROVE  ~(lastSeq' <= store[r].cursor)
    BY <1>1, <1>2, <1>8, StoreFacts
  <2>2. ASSUME NEW n \in Sequenced, n = lastSeq' PROVE InOutbox(n)'
    BY <1>4, <1>10, <2>2 DEF InOutbox
  <2>3. ASSUME NEW n \in Sequenced, touched'[n] # {}, ~Retention PROVE InOutbox(n)'
    BY <1>1, <1>9, <1>17, <2>2, <2>3 DEF NothingIsMissed
  <2>4. ASSUME NEW r \in Replicas, NEW n \in Sequenced, touched'[n] # {}
        PROVE  /\ n <= store[r].cursor => Raised(r, n)' \/ Outlived(r, n)
               /\ n > store[r].cursor => InOutbox(n)' \/ Outlived(r, n)
    BY <1>19, <2>1, <2>2, <2>4
  <2> QED
    BY <1>7, <1>16, <2>3, <2>4 DEF NothingIsMissed
<1>21. BatchesAreComplete'
  <2> SUFFICES ASSUME NEW r \in Replicas, NEW o \in drain[r]
               PROVE  /\ o.seq > store[r].cursor
                      /\ \A n \in Sequenced :
                            touched'[n] # {} /\ n > store[r].cursor /\ n <= o.seq =>
                               (\E p \in drain[r] : p.seq = n) \/ Outlived(r, n)
    BY <1>7, <1>16 DEF BatchesAreComplete
  <2>1. o.seq \in Nat /\ o.seq <= lastSeq
    BY <1>1 DEF HistoryMatches, Obligation
  <2>2. \A n \in Sequenced : n <= o.seq => n # lastSeq'
    BY <1>2, <1>8, <2>1 DEF Sequenced
  <2> QED
    BY <1>1, <1>9, <2>2 DEF BatchesAreComplete
<1>22. \A n \in Sequenced : n <= lastSeq => touched'[n] = touched[n]
  BY <1>2, <1>8, <1>9 DEF Sequenced
<1>23. lastSeq <= lastSeq'
  BY <1>2, <1>8
<1> QED
  BY <1>7, <1>12, <1>13, <1>14, <1>15, <1>20, <1>21, <1>22, <1>23, LogStepKeeps

(***************************************************************************)
(* A restarted replica starts over at sequence 0.  What was pruned it will *)
(* never drain, but neither has it kept anything from before.              *)
(***************************************************************************)
LEMMA RestartKeeps ==
    ASSUME TilesInv, SafeDeployment, NEW r \in Replicas, Restart(r)
    PROVE  TilesInv'
<1>1. /\ TypeOK /\ LogTypeOK /\ SequencesDistinct /\ HistoryMatches /\ StoresBounded
      /\ KeysAreOld /\ NothingIsMissed /\ BatchesAreComplete /\ RequestsCover
  BY DEF TilesInv, TypeOK
<1>2. /\ restarts < MaxRestarts
      /\ store' = [store EXCEPT ![r] = NewStore] /\ drain' = [drain EXCEPT ![r] = {}]
      /\ retain' = [retain EXCEPT ![r] = NotPruning] /\ l1' = [l1 EXCEPT ![r] = {}]
      /\ request' = [c \in Clients |->
                       IF request[c].pc # "idle" /\ request[c].at = r
                       THEN NoRequest ELSE request[c]]
      /\ UNCHANGED <<rows, outbox, lastSeq, l2, touched>>
  BY DEF Restart
<1>3. /\ NewStore \in StoreType /\ NewStore.cursor = 0 /\ NewStore.floor = 0
      /\ \A b \in Buckets : NewStore.bucket[b] = 0
      /\ NotPruning \in [on : BOOLEAN, floor : Nat] /\ NotPruning.on = FALSE
      /\ NoRequest.pc = "idle" /\ lastSeq \in Nat
  BY <1>1 DEF NewStore, StoreType, NotPruning, NoRequest, LogTypeOK
<1>4. /\ store' \in [Replicas -> StoreType] /\ store'[r] = NewStore
      /\ \A s \in Replicas : s # r => store'[s] = store[s]
  BY <1>1, <1>2, <1>3 DEF TypeOK, StoreType
<1>5. /\ drain' \in [Replicas -> SUBSET Obligation] /\ drain'[r] = {}
      /\ \A s \in Replicas : s # r => drain'[s] = drain[s]
  BY <1>1, <1>2 DEF TypeOK
<1>6. /\ retain' \in [Replicas -> [on : BOOLEAN, floor : Nat]] /\ retain'[r] = NotPruning
      /\ \A s \in Replicas : s # r => retain'[s] = retain[s]
  BY <1>1, <1>2, <1>3 DEF TypeOK
<1>7. /\ l1' \in [Replicas -> SUBSET Entry] /\ l1'[r] = {}
      /\ \A s \in Replicas : s # r => l1'[s] = l1[s]
  BY <1>1, <1>2 DEF TypeOK
<1>8. /\ request' \in [Clients -> {NoRequest} \cup RequestType]
      /\ \A c \in Clients : request'[c].pc # "idle" => request'[c] = request[c] /\ request[c].at # r
  BY <1>1, <1>2, <1>3 DEF TypeOK, RequestType
<1>9. TypeOK'
  <2>1. ASSUME NEW s \in Replicas PROVE store'[s].cursor <= lastSeq'
    <3>1. CASE s = r
      BY <1>2, <1>3, <1>4, <3>1
    <3>2. CASE s # r
      BY <1>1, <1>2, <1>4, <3>2, StoreFacts
    <3> QED
      BY <3>1, <3>2
  <2>2. LogTypeOK'
    BY <1>1, <1>2 DEF LogTypeOK
  <2>3. restarts' \in 0..MaxRestarts
    BY <1>1, <1>2, TilesBounds DEF TypeOK, Restart
  <2>4. /\ store' \in [Replicas -> [cursor : Nat, floor : Nat, bucket : [Buckets -> Nat]]]
        /\ request' \in [Clients -> {NoRequest} \cup
             [pc : {"lookup", "l2", "render", "fill", "put"}, at : Replicas, tile : Tiles,
              gen : Nat, drained : Nat, asOf : Nat]]
    BY <1>4, <1>8 DEF StoreType, RequestType
  <2>5. l2' \subseteq Entry /\ touched' \in [1..MaxSeq -> SUBSET Buckets]
    BY <1>1, <1>2 DEF TypeOK
  <2> QED
    BY <1>5, <1>6, <1>7, <2>1, <2>2, <2>3, <2>4, <2>5 DEF TypeOK
<1>10. SequencesDistinct'
  BY <1>1, <1>2 DEF SequencesDistinct
<1>11. HistoryMatches'
  <2>1. \A o : (o \in outbox' \/ \E s \in Replicas : o \in drain'[s]) =>
              (o \in outbox \/ \E s \in Replicas : o \in drain[s])
    BY <1>2, <1>5
  <2> QED
    BY <1>1, <1>2, <2>1 DEF HistoryMatches
<1>12. StoresBounded'
  <2>1. ASSUME NEW s \in Replicas
        PROVE  /\ store'[s].floor <= store'[s].cursor
               /\ \A b \in Buckets : store'[s].bucket[b] <= store'[s].cursor
               /\ retain'[s].on => Retention /\ retain'[s].floor <= store'[s].cursor
    <3>1. CASE s = r
      BY <1>3, <1>4, <1>6, <3>1
    <3>2. CASE s # r
      BY <1>1, <1>4, <1>6, <3>2 DEF StoresBounded
    <3> QED
      BY <3>1, <3>2
  <2> QED
    BY <2>1 DEF StoresBounded
<1>13. KeysAreOld'
  <2>1. \A e : (e \in l2' \/ \E s \in Replicas : e \in l1'[s]) =>
              (e \in l2 \/ \E s \in Replicas : e \in l1[s])
    BY <1>2, <1>7
  <2> QED
    BY <1>1, <1>2, <1>8, <2>1 DEF KeysAreOld
<1>14. ASSUME NEW s \in Replicas, NEW n, s # r, Outlived(s, n) PROVE Outlived(s, n)'
  BY <1>7, <1>8, <1>14 DEF Outlived
<1>15. ASSUME Retention, NEW n PROVE Outlived(r, n)'
  <2>1. MaxRestarts # 0
    BY <1>1, <1>2 DEF TypeOK
  <2>2. ~SharedL2
    BY <1>15, <2>1 DEF SafeDeployment
  <2> QED
    BY <1>7, <1>8, <1>15, <2>2 DEF Outlived
<1>16. NothingIsMissed'
  <2>1. ASSUME NEW s \in Replicas, NEW n \in Sequenced, touched[n] # {}
        PROVE  /\ n <= store'[s].cursor => Raised(s, n)' \/ Outlived(s, n)'
               /\ n > store'[s].cursor => InOutbox(n)' \/ Outlived(s, n)'
    <3>1. InOutbox(n)' = InOutbox(n)
      BY <1>2 DEF InOutbox
    <3>2. CASE s = r
      <4>1. ~(n <= store'[r].cursor)
        BY <1>3, <1>4, <2>1, TouchedIsCommitted
      <4>2. ~Retention => InOutbox(n)
        BY <1>1, <2>1 DEF NothingIsMissed
      <4> QED
        BY <1>15, <3>1, <3>2, <4>1, <4>2
    <3>3. CASE s # r
      <4>1. Raised(s, n)' = Raised(s, n)
        BY <1>2, <1>4, <3>3 DEF Raised
      <4> QED
        BY <1>1, <1>4, <1>14, <2>1, <3>1, <3>3, <4>1 DEF NothingIsMissed
    <3> QED
      BY <3>2, <3>3
  <2>2. ~Retention => \A n \in Sequenced : touched[n] # {} => InOutbox(n)'
    BY <1>1, <1>2 DEF NothingIsMissed, InOutbox
  <2> QED
    BY <1>2, <2>1, <2>2 DEF NothingIsMissed
<1>17. BatchesAreComplete'
  <2>1. ASSUME NEW s \in Replicas, NEW o \in drain'[s]
        PROVE  /\ s # r /\ store'[s] = store[s] /\ drain'[s] = drain[s]
               /\ o.seq > store[s].cursor
               /\ \A n \in Sequenced :
                     touched[n] # {} /\ n > store[s].cursor /\ n <= o.seq =>
                        (\E p \in drain[s] : p.seq = n) \/ Outlived(s, n)'
    <3>1. s # r /\ store'[s] = store[s] /\ drain'[s] = drain[s]
      BY <1>4, <1>5, <2>1
    <3> QED
      BY <1>1, <1>14, <3>1 DEF BatchesAreComplete
  <2> QED
    BY <1>2, <2>1 DEF BatchesAreComplete
<1>18. RequestsCover'
  <2> SUFFICES ASSUME NEW c \in Clients, NEW n \in Sequenced, request'[c].pc # "idle",
                      n <= request'[c].drained,
                      touched[n] \cap Covers[request'[c].tile] # {}
               PROVE  n <= request'[c].gen \/ Outlived(request[c].at, n)'
    BY <1>2 DEF RequestsCover
  <2>1. request'[c] = request[c] /\ request[c].at # r
    BY <1>8
  <2>2. PICK s \in Replicas : s = request[c].at
    BY <1>1, <2>1, RequestFacts
  <2>3. n <= request[c].gen \/ Outlived(s, n)
    BY <1>1, <2>1, <2>2 DEF RequestsCover
  <2>4. CASE Outlived(s, n)'
    BY <2>1, <2>2, <2>4 DEF Outlived
  <2> QED
    BY <1>14, <2>1, <2>2, <2>3, <2>4
<1> QED
  BY <1>9, <1>10, <1>11, <1>12, <1>13, <1>16, <1>17, <1>18 DEF TilesInv

LEMMA TilesBegin == Init => TilesInv
<1> SUFFICES ASSUME Init PROVE TilesInv
  OBVIOUS
<1>1. /\ rows = [f \in Features |-> Absent] /\ outbox = {} /\ lastSeq = 0
      /\ store = [r \in Replicas |-> NewStore] /\ drain = [r \in Replicas |-> {}]
      /\ retain = [r \in Replicas |-> NotPruning] /\ l1 = [r \in Replicas |-> {}] /\ l2 = {}
      /\ request = [c \in Clients |-> NoRequest] /\ touched = [n \in Sequenced |-> {}]
      /\ restarts = 0
  BY DEF Init, LogInit, Sequenced
<1>2. /\ NewStore \in StoreType /\ NewStore.cursor = 0 /\ NewStore.floor = 0
      /\ \A b \in Buckets : NewStore.bucket[b] = 0
      /\ NotPruning \in [on : BOOLEAN, floor : Nat] /\ NotPruning.on = FALSE
      /\ NoRequest.pc = "idle"
  BY DEF NewStore, StoreType, NotPruning, NoRequest
<1>3. LogTypeOK
  BY <1>1 DEF LogTypeOK, Stored
<1>4. TypeOK
  <2>1. /\ store \in [Replicas -> [cursor : Nat, floor : Nat, bucket : [Buckets -> Nat]]]
        /\ \A r \in Replicas : store[r].cursor <= lastSeq
    BY <1>1, <1>2 DEF StoreType
  <2>2. /\ drain \in [Replicas -> SUBSET Obligation]
        /\ retain \in [Replicas -> [on : BOOLEAN, floor : Nat]]
        /\ l1 \in [Replicas -> SUBSET Entry] /\ l2 \subseteq Entry
    BY <1>1, <1>2
  <2>3. touched \in [1..MaxSeq -> SUBSET Buckets] /\ restarts \in 0..MaxRestarts
    BY <1>1, TilesBounds DEF Sequenced
  <2> QED
    BY <1>1, <1>3, <2>1, <2>2, <2>3 DEF TypeOK
<1>5. SequencesDistinct /\ HistoryMatches
  BY <1>1, BoundsAssumption DEF SequencesDistinct, HistoryMatches
<1>6. StoresBounded
  BY <1>1, <1>2 DEF StoresBounded
<1>7. KeysAreOld /\ RequestsCover
  BY <1>1, <1>2 DEF KeysAreOld, RequestsCover
<1>8. NothingIsMissed /\ BatchesAreComplete
  BY <1>1 DEF NothingIsMissed, BatchesAreComplete
<1> QED
  BY <1>4, <1>5, <1>6, <1>7, <1>8 DEF TilesInv

LEMMA TilesPreserved == SafeDeployment /\ TilesInv /\ [Next]_vars => TilesInv'
<1> SUFFICES ASSUME SafeDeployment, TilesInv, [Next]_vars PROVE TilesInv'
  OBVIOUS
<1>1. ASSUME NEW m \in Mutation, NEW rec \in Recordings, NEW gap \in 0..MaxGap, Write(m, rec, gap)
      PROVE  TilesInv'
  BY <1>1, WriteKeeps
<1>2. ASSUME NEW r \in Replicas,
             \/ ReadBatch(r) \/ ApplyBatch(r) \/ GatherCursors(r)
             \/ PruneBefore(r) \/ EvictL1(r) \/ Restart(r)
      PROVE  TilesInv'
  BY <1>2, ReadBatchKeeps, ApplyBatchKeeps, GatherKeeps, PruneKeeps, EvictKeeps, RestartKeeps
<1>3. ASSUME NEW c \in Clients,
             \/ \E r \in Replicas, t \in Tiles : BuildKey(c, r, t)
             \/ LookupL1(c) \/ LookupL2(c) \/ Render(c) \/ FillL1(c)
             \/ RenderFails(c) \/ PutL2(c)
      PROVE  TilesInv'
  BY <1>3, BuildKeyKeeps, LookupL1Keeps, LookupL2Keeps, RenderKeeps, FillKeeps, PutL2Keeps
<1>4. CASE ExpireL2
  BY <1>4, EvictKeeps
<1>5. CASE UNCHANGED vars
  <2>1. UNCHANGED <<rows, outbox, lastSeq, store, drain, retain, l1, l2, request, restarts, touched>>
    BY <1>5 DEF vars
  <2>2. TypeOK'
    BY <2>1 DEF TilesInv, TypeOK, LogTypeOK
  <2>3. KeysAreOld'
    BY <2>1 DEF TilesInv, KeysAreOld
  <2>4. RequestsCover'
    BY <2>1 DEF TilesInv, RequestsCover, Outlived
  <2> QED
    BY <2>1, <2>2, <2>3, <2>4, CacheStepKeeps DEF Outlived
<1> QED
  BY <1>1, <1>2, <1>3, <1>4, <1>5 DEF Next

-----------------------------------------------------------------------------
(***************************************************************************)
(* In a safe deployment every drained commit has raised the generations of *)
(* its buckets, or its replica has nothing older left and nowhere to get   *)
(* it from, through writes, drains, prunes, evictions and restarts.        *)
(***************************************************************************)
THEOREM TilesInvariance == SafeDeployment /\ Spec => [](SafeDeployment /\ TilesInv)
<1>1. SafeDeployment /\ Init => SafeDeployment /\ TilesInv
  BY TilesBegin
<1>2. SafeDeployment => SafeDeployment'
  BY DEF SafeDeployment, OneReplica
<1>3. (SafeDeployment /\ TilesInv) /\ [Next]_vars => (SafeDeployment /\ TilesInv)'
  BY <1>2, TilesPreserved
<1> QED
  BY <1>1, <1>3, PTL DEF Spec

(***************************************************************************)
(* The generation stores, caches and requests stay well formed, and no     *)
(* cursor is ever ahead of the log.                                        *)
(***************************************************************************)
THEOREM TilesTypeCorrect == SafeDeployment /\ Spec => []TypeOK
  BY TilesInvariance, PTL DEF TilesInv

(***************************************************************************)
(* A tile that is answered shows every commit to its area that its replica *)
(* had drained when it built the key, for any caches, batch sizes and      *)
(* interleavings of requests with drains and restarts.                     *)
(***************************************************************************)
THEOREM AnswersAreFresh == SafeDeployment /\ Spec => []AnswersReflectDrainedCommits
<1>1. TilesInv => AnswersReflectDrainedCommits
  <2> SUFFICES ASSUME TilesInv, NEW c \in Clients, request[c].pc = "put",
                      NEW n \in (request[c].asOf + 1)..request[c].drained
               PROVE  touched[n] \cap Covers[request[c].tile] = {}
    BY DEF AnswersReflectDrainedCommits
  <2>1. TypeOK /\ KeysAreOld /\ RequestsCover /\ lastSeq <= MaxSeq /\ lastSeq \in Nat /\ MaxSeq \in Nat
    BY BoundsAssumption DEF TilesInv, HistoryMatches, TypeOK, LogTypeOK
  <2>2. /\ request[c].gen \in Nat /\ request[c].drained \in Nat /\ request[c].asOf \in Nat
        /\ request[c].drained <= lastSeq /\ request[c].gen <= request[c].asOf
    BY <2>1, RequestFacts DEF KeysAreOld
  <2>3. n \in Sequenced /\ n \in Nat /\ n > request[c].asOf /\ n <= request[c].drained
    BY <2>1, <2>2 DEF Sequenced
  <2>4. ~Outlived(request[c].at, n) /\ ~(n <= request[c].gen)
    BY <2>2, <2>3 DEF Outlived
  <2> QED
    BY <2>1, <2>3, <2>4 DEF RequestsCover
<1> QED
  BY <1>1, TilesInvariance, PTL

(***************************************************************************)
(* Retention never removes an obligation that a running consumer has still *)
(* to drain, as long as its process is the only one.                       *)
(***************************************************************************)
THEOREM RetentionOrphansNobody == SafeDeployment /\ Spec => PruningOrphansNobody
<1> DEFINE Drained == \A o \in outbox \ outbox' : \A r \in Replicas : o.seq <= store[r].cursor
<1>1. SafeDeployment /\ TilesInv /\ [Next]_vars => [Drained]_vars
  <2> SUFFICES ASSUME SafeDeployment, TilesInv, Next PROVE outbox \subseteq outbox' \/ Drained
    OBVIOUS
  <2>1. ASSUME NEW r \in Replicas, PruneBefore(r) PROVE Drained
    BY <2>1, PruneTakesDrained
  <2>2. CASE \E r \in Replicas : PruneBefore(r)
    BY <2>1, <2>2
  <2>3. CASE ~\E r \in Replicas : PruneBefore(r)
    BY <2>3 DEF Next, Write, Commit, ReadBatch, ApplyBatch, GatherCursors, EvictL1, Restart,
       BuildKey, LookupL1, LookupL2, Render, FillL1, RenderFails, PutL2, ExpireL2
  <2> QED
    BY <2>2, <2>3
<1> QED
  BY <1>1, TilesInvariance, PTL DEF Spec, PruningOrphansNobody
=============================================================================
