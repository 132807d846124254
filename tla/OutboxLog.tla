------------------------------ MODULE OutboxLog ------------------------------
(***************************************************************************)
(* What one collection's transactional outbox promises to its consumers:   *)
(* the contract of the WriteSink and OutboxSource traits of                *)
(* tellurion-core/src/outbox.rs.  A commit changes the stored features and *)
(* appends one obligation per mutation in a single step, every obligation  *)
(* gets a sequence greater than all the earlier ones (gaps allowed), and   *)
(* the outbox loses obligations only to prune_before.                      *)
(*                                                                         *)
(* The drivers are modelled in GeopackageWrites and PostgisWrites; the     *)
(* consumers (IndexApplier, TileGenerations) are modelled on top of this   *)
(* module.                                                                 *)
(***************************************************************************)
EXTENDS Naturals, Sequences, FiniteSetsExt

CONSTANTS
    Features,    \* feature ids of the collection
    Contents,    \* what a stored feature can look like
    Absent,      \* no stored feature
    Recordings,  \* subset of BOOLEAN: does an obligation record its extent
    MaxSeq,      \* bound: highest sequence a behaviour commits
    MaxBatch,    \* bound: mutations per apply_batch chunk
    MaxGap       \* bound: sequences a driver may burn before a commit

ASSUME AbsentAssumption == Absent \notin Contents
ASSUME RecordingsAssumption == Recordings \subseteq BOOLEAN
ASSUME BoundsAssumption ==
    /\ MaxSeq \in Nat
    /\ MaxBatch \in Nat \ {0}
    /\ MaxGap \in Nat

VARIABLES
    rows,      \* the stored features, as any reader sees them
    outbox,    \* the obligations currently in the outbox table
    lastSeq    \* the highest sequence ever committed

logVars == <<rows, outbox, lastSeq>>

Stored == Contents \cup {Absent}

(***************************************************************************)
(* A mutation replaces a feature wholesale, or deletes it (to = Absent).   *)
(***************************************************************************)
Mutation == [fid : Features, to : Stored]

(***************************************************************************)
(* The obligation a committed mutation leaves behind.  `current` stands    *)
(* for both the payload and the current extent: Absent makes it a          *)
(* tombstone.  `recorded` is FALSE for ObligationExtent::Unrecorded.       *)
(***************************************************************************)
Obligation ==
    [seq : Nat \ {0}, fid : Features, prior : Stored, current : Stored,
     recorded : BOOLEAN]

Chunks == UNION {[1..n -> Mutation] : n \in 1..MaxBatch}

(***************************************************************************)
(* The content of feature f once the first n mutations of chunk ms are     *)
(* applied, in order, to the stored features base.                         *)
(***************************************************************************)
Touching(ms, n, f) == {j \in 1..n : ms[j].fid = f}

After(base, ms, n, f) ==
    IF Touching(ms, n, f) = {} THEN base[f] ELSE ms[Max(Touching(ms, n, f))].to

-----------------------------------------------------------------------------
(***************************************************************************)
(* read_after(after, limit), primary_high_water and the rows one call of   *)
(* prune_before(floor, batch_size) selects.                                *)
(***************************************************************************)
Preceding(obs, o) == {p \in obs : p.seq < o.seq}

FirstN(obs, n) == {o \in obs : Cardinality(Preceding(obs, o)) < n}

ReadAfter(after, limit) == FirstN({o \in outbox : o.seq > after}, limit)

PrimaryHighWater == Max({o.seq : o \in outbox} \cup {0})

PruneSelection(floor, batch) == FirstN({o \in outbox : o.seq <= floor}, batch)

-----------------------------------------------------------------------------
LogInit ==
    /\ rows = [f \in Features |-> Absent]
    /\ outbox = {}
    /\ lastSeq = 0

(***************************************************************************)
(* The obligations of a chunk, in order, above the sequence `first`.       *)
(***************************************************************************)
Appended(base, first, ms, rec) ==
    {[seq |-> first + i, fid |-> ms[i].fid,
      prior |-> After(base, ms, i - 1, ms[i].fid),
      current |-> ms[i].to, recorded |-> rec[i]] : i \in 1..Len(ms)}

(***************************************************************************)
(* WriteSink::apply, create and apply_batch: the data and the obligations  *)
(* of the whole chunk become visible together.                             *)
(***************************************************************************)
Commit(ms, rec, gap) ==
    /\ lastSeq + gap + Len(ms) <= MaxSeq
    /\ rows' = [f \in Features |-> After(rows, ms, Len(ms), f)]
    /\ outbox' = outbox \cup Appended(rows, lastSeq + gap, ms, rec)
    /\ lastSeq' = lastSeq + gap + Len(ms)

(***************************************************************************)
(* OutboxSource::prune_before: deletes the lowest sequences up to floor,   *)
(* at most batch of them.                                                  *)
(***************************************************************************)
Prune(floor, batch) ==
    /\ outbox' = outbox \ PruneSelection(floor, batch)
    /\ UNCHANGED <<rows, lastSeq>>

AnyCommit ==
    \E ms \in Chunks, gap \in 0..MaxGap :
        \E rec \in [1..Len(ms) -> Recordings] : Commit(ms, rec, gap)

AnyPrune == \E floor \in 0..MaxSeq, batch \in 1..MaxSeq : Prune(floor, batch)

LogNext == AnyCommit \/ AnyPrune

LogSpec == LogInit /\ [][LogNext]_logVars

-----------------------------------------------------------------------------
(***************************************************************************)
(* The stored features are features or absent and every obligation is well *)
(* formed, with a sequence no higher than the highest one committed.       *)
(***************************************************************************)
LogTypeOK ==
    /\ rows \in [Features -> Stored]
    /\ outbox \subseteq Obligation
    /\ lastSeq \in Nat
    /\ \A o \in outbox : o.seq <= lastSeq

(***************************************************************************)
(* No two obligations share a sequence, whatever was pruned in between.    *)
(***************************************************************************)
SequencesDistinct == \A o, p \in outbox : o.seq = p.seq => o = p

IsLatest(o) == \A p \in outbox : p.fid = o.fid => p.seq <= o.seq

(***************************************************************************)
(* The newest obligation of a feature describes the feature as stored, so  *)
(* a consumer that has applied it agrees with the source of truth.         *)
(***************************************************************************)
LatestAgreesWithRows == \A o \in outbox : IsLatest(o) => rows[o.fid] = o.current

(***************************************************************************)
(* Each obligation's prior state is the state its predecessor left: no     *)
(* move of a feature is missing from the chain of extents a consumer sees. *)
(***************************************************************************)
ExtentsChain ==
    \A o, p \in outbox :
        (/\ o.fid = p.fid
         /\ o.seq < p.seq
         /\ \A q \in outbox : q.fid = o.fid => q.seq <= o.seq \/ p.seq <= q.seq)
        => p.prior = o.current

(***************************************************************************)
(* An obligation only ever becomes visible above every obligation that was *)
(* visible before: a consumer that resumes from the highest sequence it    *)
(* has seen never skips one.  ("a later commit compares greater than an    *)
(* earlier one", outbox.rs)                                                *)
(***************************************************************************)
CommitsAppendAbove ==
    [][\A o \in outbox' \ outbox : o.seq > lastSeq]_logVars
=============================================================================
