--------------------------- MODULE OutboxLogProofs ---------------------------
(***************************************************************************)
(* Proofs about OutboxLog, for any number of features, any chunk size and  *)
(* any length of behaviour: the log stays well formed, a commit appends    *)
(* above everything committed before, the newest obligation of a feature   *)
(* describes the stored row, and the chain of prior states has no hole.    *)
(*                                                                         *)
(* The lemmas about FirstN and ReadAfter are used by the proofs about the  *)
(* consumers as well.                                                      *)
(***************************************************************************)
EXTENDS OutboxLog, FiniteSetTheorems, WellFoundedInduction, TLAPS

(***************************************************************************)
(* A nonempty set of naturals has a least element.                         *)
(***************************************************************************)
LEMMA LeastElement ==
    ASSUME NEW S, \A s \in S : s \in Nat, S # {}
    PROVE  \E m \in S : \A n \in S : m <= n
<1> DEFINE R == OpToRel(<, Nat)
<1>1. IsWellFoundedOn(R, Nat)
  BY NatLessThanWellFounded
<1>2. \A x, y \in Nat : x < y => <<x, y>> \in R
  BY DEF OpToRel
<1> HIDE DEF R
<1>3. PICK m \in S : \A y \in S : ~ (<<y, m>> \in R)
  BY <1>1, WFMin
<1>4. \A n \in S : ~ (n < m)
  BY <1>2, <1>3
<1> QED
  BY <1>4

(***************************************************************************)
(* A nonempty bounded set of naturals has a greatest element.              *)
(***************************************************************************)
LEMMA GreatestElement ==
    ASSUME NEW S, \A s \in S : s \in Nat, S # {},
           NEW b \in Nat, \A s \in S : s <= b
    PROVE  \E m \in S : \A k \in S : k <= m
<1> DEFINE D == {b - s : s \in S}
<1>1. (\A d \in D : d \in Nat) /\ D # {}
  OBVIOUS
<1>2. PICK d \in D : \A e \in D : d <= e
  <2> HIDE DEF D
  <2> QED
    BY <1>1, LeastElement
<1>3. PICK m \in S : d = b - m
  BY <1>2
<1>4. ASSUME NEW k \in S PROVE k <= m
  <2>1. d <= b - k
    BY <1>2
  <2> QED
    BY <2>1, <1>3
<1> QED
  BY <1>4

-----------------------------------------------------------------------------
(***************************************************************************)
(* The last mutation of a chunk that touches a feature.                    *)
(***************************************************************************)
LEMMA MaxTouching ==
    ASSUME NEW ms, NEW n \in Nat, NEW f, Touching(ms, n, f) # {}
    PROVE  /\ Max(Touching(ms, n, f)) \in Touching(ms, n, f)
           /\ \A k \in Touching(ms, n, f) : k <= Max(Touching(ms, n, f))
<1> DEFINE T == Touching(ms, n, f)
<1>1. T # {} /\ \A t \in T : t \in Nat /\ t <= n
  BY DEF Touching
<1>2. \E m \in T : \A k \in T : k <= m
  <2> HIDE DEF T
  <2> QED
    BY <1>1, GreatestElement
<1> QED
  BY <1>2 DEF Max

(***************************************************************************)
(* What After says, without its CHOOSE.                                    *)
(***************************************************************************)
LEMMA AfterUntouched ==
    ASSUME NEW base, NEW ms, NEW n \in Nat, NEW f,
           \A j \in 1..n : ms[j].fid # f
    PROVE  After(base, ms, n, f) = base[f]
BY DEF After, Touching

LEMMA MaxIs ==
    ASSUME NEW T, \A t \in T : t \in Nat, NEW i \in T, \A k \in T : k <= i
    PROVE  Max(T) = i
<1>1. Max(T) \in T /\ \A k \in T : Max(T) >= k
  BY DEF Max
<1> QED
  BY <1>1

LEMMA AfterType ==
    ASSUME NEW base \in [Features -> Stored], NEW n \in Nat, NEW ms,
           \A j \in 1..n : ms[j] \in Mutation, NEW f \in Features
    PROVE  After(base, ms, n, f) \in Stored
<1>1. CASE Touching(ms, n, f) = {}
  BY <1>1 DEF After
<1>2. CASE Touching(ms, n, f) # {}
  <2>1. Max(Touching(ms, n, f)) \in 1..n
    BY <1>2, MaxTouching DEF Touching
  <2> QED
    BY <1>2, <2>1 DEF After, Mutation
<1> QED
  BY <1>1, <1>2

LEMMA ChunkFacts ==
    ASSUME NEW ms \in Chunks
    PROVE  /\ Len(ms) \in 1..MaxBatch /\ Len(ms) \in Nat
           /\ \A j \in 1..Len(ms) : ms[j] \in Mutation
<1>1. PICK n \in 1..MaxBatch : ms \in [1..n -> Mutation]
  BY DEF Chunks
<1>2. n \in Nat
  BY <1>1, BoundsAssumption
<1>3. ms \in Seq(Mutation) /\ Len(ms) = n
  BY <1>1, <1>2
<1> QED
  BY <1>1, <1>2, <1>3

-----------------------------------------------------------------------------
(***************************************************************************)
(* Obligations with distinct sequences up to a bound are finitely many.    *)
(***************************************************************************)
LEMMA OutboxFinite ==
    ASSUME NEW obs, NEW n \in Nat,
           \A o \in obs : o.seq \in Nat /\ o.seq <= n,
           \A o, p \in obs : o.seq = p.seq => o = p
    PROVE  IsFiniteSet(obs)
<1> DEFINE g == [o \in obs |-> o.seq]
<1>1. g \in Injection(obs, 0..n)
  BY DEF Injection, IsInjective
<1>2. IsFiniteSet(0..n)
  BY FS_Interval
<1> QED
  <2> HIDE DEF g
  <2> QED
    BY <1>1, <1>2, FS_Injection

(***************************************************************************)
(* A page of the outbox has no hole: with an obligation it contains every  *)
(* obligation of a lower sequence.                                         *)
(***************************************************************************)
LEMMA FirstNHasNoHole ==
    ASSUME NEW obs, IsFiniteSet(obs), \A o \in obs : o.seq \in Nat,
           NEW n \in Nat, NEW o \in FirstN(obs, n), NEW p \in obs, p.seq <= o.seq
    PROVE  p \in FirstN(obs, n)
<1>1. o \in obs /\ Cardinality(Preceding(obs, o)) < n
  BY DEF FirstN
<1>2. Preceding(obs, p) \in SUBSET Preceding(obs, o) /\ Preceding(obs, o) \in SUBSET obs
  BY <1>1 DEF Preceding
<1>3. IsFiniteSet(Preceding(obs, o)) /\ IsFiniteSet(Preceding(obs, p))
  BY <1>2, FS_Subset
<1>4. /\ Cardinality(Preceding(obs, p)) <= Cardinality(Preceding(obs, o))
      /\ Cardinality(Preceding(obs, p)) \in Nat
      /\ Cardinality(Preceding(obs, o)) \in Nat
  BY <1>2, <1>3, FS_Subset, FS_CardinalityType
<1>5. Cardinality(Preceding(obs, p)) < n
  BY <1>1, <1>4
<1> QED
  BY <1>5 DEF FirstN

(***************************************************************************)
(* read_after never skips: an obligation above the cursor is either read   *)
(* or higher than everything that is.                                      *)
(***************************************************************************)
LEMMA ReadAfterSkipsNothing ==
    ASSUME LogTypeOK, SequencesDistinct, NEW after \in Nat, NEW limit \in Nat,
           NEW o \in ReadAfter(after, limit), NEW p \in outbox,
           p.seq > after, p.seq <= o.seq
    PROVE  p \in ReadAfter(after, limit)
<1> DEFINE obs == {q \in outbox : q.seq > after}
<1>1. /\ \A q \in obs : q.seq \in Nat /\ q.seq <= lastSeq
      /\ \A q, r \in obs : q.seq = r.seq => q = r
      /\ lastSeq \in Nat
      /\ p \in obs
  BY DEF LogTypeOK, Obligation, SequencesDistinct
<1>2. IsFiniteSet(obs)
  <2> HIDE DEF obs
  <2> QED
    BY <1>1, OutboxFinite
<1>3. o \in FirstN(obs, limit)
  BY DEF ReadAfter
<1>4. p \in FirstN(obs, limit)
  <2> HIDE DEF obs
  <2> QED
    BY <1>1, <1>2, <1>3, FirstNHasNoHole
<1> QED
  BY <1>4 DEF ReadAfter

LEMMA ReadAfterSubset ==
    ASSUME NEW after, NEW limit, NEW o \in ReadAfter(after, limit)
    PROVE  o \in outbox /\ o.seq > after
BY DEF ReadAfter, FirstN

(***************************************************************************)
(* prune_before removes a prefix of the outbox, at or below its floor.     *)
(***************************************************************************)
LEMMA PruneRemovesAPrefix ==
    ASSUME LogTypeOK, SequencesDistinct, NEW floor \in Nat, NEW batch \in Nat,
           Prune(floor, batch)
    PROVE  /\ outbox' \subseteq outbox
           /\ \A o \in outbox \ outbox' : o.seq <= floor
           /\ \A o \in outbox \ outbox', p \in outbox' : o.seq < p.seq
           /\ rows' = rows /\ lastSeq' = lastSeq
<1> DEFINE obs == {q \in outbox : q.seq <= floor}
<1>1. /\ \A q \in outbox : q.seq \in Nat /\ q.seq <= lastSeq
      /\ \A q, r \in outbox : q.seq = r.seq => q = r
      /\ lastSeq \in Nat
  BY DEF LogTypeOK, Obligation, SequencesDistinct
<1>2. IsFiniteSet(obs)
  <2>1. /\ \A q \in obs : q.seq \in Nat /\ q.seq <= lastSeq
        /\ \A q, r \in obs : q.seq = r.seq => q = r
    BY <1>1
  <2> HIDE DEF obs
  <2> QED
    BY <1>1, <2>1, OutboxFinite
<1>3. outbox' = outbox \ FirstN(obs, batch) /\ rows' = rows /\ lastSeq' = lastSeq
  BY DEF Prune, PruneSelection
<1>4. FirstN(obs, batch) \subseteq obs
  BY DEF FirstN
<1>5. ASSUME NEW o \in FirstN(obs, batch), NEW p \in outbox, p.seq <= o.seq
      PROVE  p \in FirstN(obs, batch)
  <2>1. p \in obs /\ \A q \in obs : q.seq \in Nat
    BY <1>1, <1>4, <1>5
  <2> HIDE DEF obs
  <2> QED
    BY <1>2, <1>5, <2>1, FirstNHasNoHole
<1>6. \A o \in outbox \ outbox' : o \in FirstN(obs, batch)
  BY <1>3
<1> QED
  BY <1>1, <1>3, <1>4, <1>5, <1>6

-----------------------------------------------------------------------------
(***************************************************************************)
(* The inductive invariant: the properties need each other.  That newest   *)
(* obligations describe the rows is what makes the next prior state chain  *)
(* on; distinct sequences are what makes pruning remove a prefix.          *)
(***************************************************************************)
LogInv == LogTypeOK /\ SequencesDistinct /\ LatestAgreesWithRows /\ ExtentsChain

LEMMA LogInitInv == LogInit => LogInv
BY DEF LogInit, LogInv, LogTypeOK, SequencesDistinct, LatestAgreesWithRows,
       ExtentsChain, Stored, IsLatest

LEMMA LogPruneInv ==
    ASSUME LogInv, NEW floor \in Nat, NEW batch \in Nat, Prune(floor, batch)
    PROVE  LogInv'
<1>1. /\ outbox' \subseteq outbox
      /\ \A o \in outbox \ outbox', p \in outbox' : o.seq < p.seq
      /\ rows' = rows /\ lastSeq' = lastSeq
  BY PruneRemovesAPrefix DEF LogInv
<1>2. \A o \in outbox : o.seq \in Nat
  BY DEF LogInv, LogTypeOK, Obligation
<1>3. LogTypeOK'
  BY <1>1 DEF LogInv, LogTypeOK
<1>4. SequencesDistinct'
  BY <1>1 DEF LogInv, SequencesDistinct
<1>5. LatestAgreesWithRows'
  <2> SUFFICES ASSUME NEW o \in outbox', \A p \in outbox' : p.fid = o.fid => p.seq <= o.seq
               PROVE  rows'[o.fid] = o.current
    BY DEF LatestAgreesWithRows, IsLatest
  <2>1. \A p \in outbox : p.fid = o.fid => p.seq <= o.seq
    BY <1>1, <1>2
  <2> QED
    BY <1>1, <2>1 DEF LogInv, LatestAgreesWithRows, IsLatest
<1>6. ExtentsChain'
  <2> SUFFICES ASSUME NEW o \in outbox', NEW p \in outbox', o.fid = p.fid, o.seq < p.seq,
                      \A q \in outbox' : q.fid = o.fid => q.seq <= o.seq \/ p.seq <= q.seq
               PROVE  p.prior = o.current
    BY DEF ExtentsChain
  <2>1. \A q \in outbox : q.fid = o.fid => q.seq <= o.seq \/ p.seq <= q.seq
    BY <1>1, <1>2
  <2> QED
    BY <1>1, <2>1 DEF LogInv, ExtentsChain
<1> QED
  BY <1>3, <1>4, <1>5, <1>6 DEF LogInv

(***************************************************************************)
(* The obligations a commit appends, one per mutation.                     *)
(***************************************************************************)
LEMMA AppendedFacts ==
    ASSUME LogTypeOK, NEW ms \in Chunks, NEW rec \in [1..Len(ms) -> BOOLEAN],
           NEW gap \in Nat
    PROVE  /\ Appended(rows, lastSeq + gap, ms, rec) \subseteq Obligation
           /\ \A o \in Appended(rows, lastSeq + gap, ms, rec) :
                 \E i \in 1..Len(ms) :
                    /\ o.seq = lastSeq + gap + i
                    /\ o.fid = ms[i].fid
                    /\ o.current = ms[i].to
                    /\ o.prior = After(rows, ms, i - 1, ms[i].fid)
           /\ \A i \in 1..Len(ms) :
                 \E o \in Appended(rows, lastSeq + gap, ms, rec) :
                    /\ o.seq = lastSeq + gap + i
                    /\ o.fid = ms[i].fid
<1>1. Len(ms) \in Nat /\ \A j \in 1..Len(ms) : ms[j] \in Mutation
  BY ChunkFacts
<1>2. lastSeq \in Nat /\ rows \in [Features -> Stored]
  BY DEF LogTypeOK
<1>3. ASSUME NEW i \in 1..Len(ms)
      PROVE  /\ After(rows, ms, i - 1, ms[i].fid) \in Stored
             /\ ms[i].fid \in Features /\ ms[i].to \in Stored
             /\ lastSeq + gap + i \in Nat \ {0}
  <2>1. ms[i].fid \in Features /\ ms[i].to \in Stored
    BY <1>1, <1>3 DEF Mutation
  <2>2. i - 1 \in Nat /\ \A j \in 1..(i - 1) : ms[j] \in Mutation
    BY <1>1, <1>3
  <2>3. After(rows, ms, i - 1, ms[i].fid) \in Stored
    BY <1>2, <2>1, <2>2, AfterType
  <2>4. lastSeq + gap + i \in Nat \ {0}
    BY <1>1, <1>2, <1>3
  <2> QED
    BY <2>1, <2>3, <2>4
<1>4. Appended(rows, lastSeq + gap, ms, rec) \subseteq Obligation
  <2> SUFFICES ASSUME NEW o \in Appended(rows, lastSeq + gap, ms, rec)
               PROVE  o \in Obligation
    OBVIOUS
  <2>1. PICK i \in 1..Len(ms) :
          o = [seq |-> lastSeq + gap + i, fid |-> ms[i].fid,
               prior |-> After(rows, ms, i - 1, ms[i].fid),
               current |-> ms[i].to, recorded |-> rec[i]]
    BY DEF Appended
  <2> QED
    BY <1>3, <2>1 DEF Obligation
<1> DEFINE Owed(i) == [seq |-> lastSeq + gap + i, fid |-> ms[i].fid,
                       prior |-> After(rows, ms, i - 1, ms[i].fid),
                       current |-> ms[i].to, recorded |-> rec[i]]
<1>5. \A o \in Appended(rows, lastSeq + gap, ms, rec) :
         \E i \in 1..Len(ms) : o = Owed(i)
  BY DEF Appended
<1>6. \A i \in 1..Len(ms) : Owed(i) \in Appended(rows, lastSeq + gap, ms, rec)
  BY DEF Appended
<1>7. \A i : /\ Owed(i).seq = lastSeq + gap + i
             /\ Owed(i).fid = ms[i].fid
             /\ Owed(i).current = ms[i].to
             /\ Owed(i).prior = After(rows, ms, i - 1, ms[i].fid)
  OBVIOUS
<1> HIDE DEF Owed
<1> QED
  BY <1>4, <1>5, <1>6, <1>7

LEMMA LogCommitInv ==
    ASSUME LogInv, NEW ms \in Chunks, NEW rec \in [1..Len(ms) -> BOOLEAN],
           NEW gap \in Nat, Commit(ms, rec, gap)
    PROVE  /\ LogInv'
           /\ \A o \in outbox' \ outbox : o.seq > lastSeq
<1> DEFINE new == Appended(rows, lastSeq + gap, ms, rec)
<1>1. /\ Len(ms) \in Nat /\ lastSeq \in Nat
      /\ rows \in [Features -> Stored]
      /\ \A j \in 1..Len(ms) : ms[j] \in Mutation
  BY ChunkFacts DEF LogInv, LogTypeOK
<1>2. /\ new \subseteq Obligation
      /\ \A o \in new : \E i \in 1..Len(ms) :
            /\ o.seq = lastSeq + gap + i /\ o.fid = ms[i].fid
            /\ o.current = ms[i].to
            /\ o.prior = After(rows, ms, i - 1, ms[i].fid)
      /\ \A i \in 1..Len(ms) : \E o \in new :
            o.seq = lastSeq + gap + i /\ o.fid = ms[i].fid
  BY AppendedFacts DEF LogInv
<1>3. /\ outbox' = outbox \cup new
      /\ lastSeq' = lastSeq + gap + Len(ms)
      /\ rows' = [f \in Features |-> After(rows, ms, Len(ms), f)]
  BY DEF Commit
<1>4. /\ \A o \in outbox : o.seq \in Nat /\ o.seq <= lastSeq /\ o.fid \in Features
      /\ outbox \subseteq Obligation
  BY DEF LogInv, LogTypeOK, Obligation
<1>5. \A o, p \in new : o.seq = p.seq => o = p
  BY <1>1 DEF Appended
<1> HIDE DEF new
<1>6. \A o \in new : o.seq \in Nat /\ o.seq > lastSeq /\ o.seq <= lastSeq' /\ o.fid \in Features
  BY <1>1, <1>2, <1>3 DEF Obligation
<1>7. LogTypeOK'
  <2>1. rows' \in [Features -> Stored]
    BY <1>1, <1>3, AfterType
  <2>2. lastSeq' \in Nat /\ lastSeq <= lastSeq'
    BY <1>1, <1>3
  <2> QED
    BY <1>1, <1>2, <1>3, <1>4, <1>6, <2>1, <2>2 DEF LogTypeOK
<1>8. SequencesDistinct'
  <2>1. \A o, p \in outbox : o.seq = p.seq => o = p
    BY DEF LogInv, SequencesDistinct
  <2>2. \A o \in outbox, p \in new : o.seq # p.seq
    BY <1>1, <1>4, <1>6
  <2> QED
    BY <1>3, <1>5, <2>1, <2>2 DEF SequencesDistinct
<1>9. LatestAgreesWithRows'
  <2> SUFFICES ASSUME NEW o \in outbox', \A p \in outbox' : p.fid = o.fid => p.seq <= o.seq
               PROVE  rows'[o.fid] = o.current
    BY DEF LatestAgreesWithRows, IsLatest
  <2>1. CASE o \in new
    <3>1. PICK i \in 1..Len(ms) : /\ o.seq = lastSeq + gap + i /\ o.fid = ms[i].fid
                                  /\ o.current = ms[i].to
      BY <1>2, <2>1
    <3>2. \A j \in 1..Len(ms) : ms[j].fid = o.fid => j <= i
      <4> SUFFICES ASSUME NEW j \in 1..Len(ms), ms[j].fid = o.fid PROVE j <= i
        OBVIOUS
      <4>1. PICK p \in new : p.seq = lastSeq + gap + j /\ p.fid = ms[j].fid
        BY <1>2
      <4>2. p.seq <= o.seq
        BY <1>3, <4>1
      <4> QED
        BY <1>1, <3>1, <4>1, <4>2
    <3>3. After(rows, ms, Len(ms), o.fid) = ms[i].to
      <4> DEFINE T == Touching(ms, Len(ms), o.fid)
      <4>1. i \in T /\ \A k \in T : k \in Nat /\ k <= i
        BY <1>1, <3>1, <3>2 DEF Touching
      <4>2. Max(T) = i
        <5> HIDE DEF T
        <5> QED
          BY <4>1, MaxIs
      <4> QED
        BY <4>1, <4>2 DEF After
    <3> QED
      BY <1>3, <1>6, <2>1, <3>1, <3>3
  <2>2. CASE o \in outbox
    <3>1. \A j \in 1..Len(ms) : ms[j].fid # o.fid
      <4> SUFFICES ASSUME NEW j \in 1..Len(ms), ms[j].fid = o.fid PROVE FALSE
        OBVIOUS
      <4>1. PICK p \in new : p.seq = lastSeq + gap + j /\ p.fid = ms[j].fid
        BY <1>2
      <4>2. p.seq <= o.seq
        BY <1>3, <4>1
      <4> QED
        BY <1>1, <1>4, <1>6, <2>2, <4>1, <4>2
    <3>2. After(rows, ms, Len(ms), o.fid) = rows[o.fid]
      BY <1>1, <3>1, AfterUntouched
    <3>3. rows[o.fid] = o.current
      BY <1>3, <2>2 DEF LogInv, LatestAgreesWithRows, IsLatest
    <3> QED
      BY <1>3, <1>4, <2>2, <3>2, <3>3
  <2> QED
    BY <1>3, <2>1, <2>2
<1>10. ExtentsChain'
  <2> SUFFICES ASSUME NEW o \in outbox', NEW p \in outbox', o.fid = p.fid, o.seq < p.seq,
                      \A q \in outbox' : q.fid = o.fid => q.seq <= o.seq \/ p.seq <= q.seq
               PROVE  p.prior = o.current
    BY DEF ExtentsChain
  <2>1. CASE p \in outbox
    <3>1. o \in outbox
      BY <1>1, <1>3, <1>4, <1>6, <2>1
    <3> QED
      BY <1>3, <2>1, <3>1 DEF LogInv, ExtentsChain
  <2>2. CASE p \in new
    <3>1. PICK j \in 1..Len(ms) : /\ p.seq = lastSeq + gap + j /\ p.fid = ms[j].fid
                                  /\ p.prior = After(rows, ms, j - 1, ms[j].fid)
      BY <1>2, <2>2
    <3>2. ASSUME NEW k \in 1..(j - 1), ms[k].fid = p.fid
          PROVE  \E q \in new : q.seq = lastSeq + gap + k /\ q.seq <= o.seq
      <4>1. k \in 1..Len(ms)
        BY <1>1, <3>1, <3>2
      <4>2. PICK q \in new : q.seq = lastSeq + gap + k /\ q.fid = ms[k].fid
        BY <1>2, <4>1
      <4>3. q.seq < p.seq
        BY <1>1, <3>1, <4>2
      <4> QED
        BY <1>1, <1>3, <1>6, <2>2, <3>2, <4>2, <4>3
    <3>3. CASE o \in new
      <4>1. PICK i \in 1..Len(ms) : /\ o.seq = lastSeq + gap + i /\ o.fid = ms[i].fid
                                    /\ o.current = ms[i].to
        BY <1>2, <3>3
      <4> DEFINE T == Touching(ms, j - 1, ms[j].fid)
      <4>2. i \in T
        BY <1>1, <3>1, <4>1 DEF Touching
      <4>3. \A k \in T : k \in Nat /\ k <= i
        BY <1>1, <3>1, <3>2, <4>1 DEF Touching
      <4>4. Max(T) = i
        <5> HIDE DEF T
        <5> QED
          BY <4>2, <4>3, MaxIs
      <4>5. After(rows, ms, j - 1, ms[j].fid) = ms[i].to
        BY <4>2, <4>4 DEF After
      <4> QED
        BY <3>1, <4>1, <4>5
    <3>4. CASE o \in outbox
      <4>1. \A k \in 1..(j - 1) : ms[k].fid # ms[j].fid
        BY <1>1, <1>4, <3>1, <3>2, <3>4
      <4>2. j - 1 \in Nat
        BY <1>1, <3>1
      <4>3. After(rows, ms, j - 1, ms[j].fid) = rows[ms[j].fid]
        BY <4>1, <4>2, AfterUntouched
      <4>4. \A q \in outbox : q.fid = o.fid => q.seq <= o.seq
        BY <1>1, <1>3, <1>4, <1>6, <2>2
      <4>5. rows[o.fid] = o.current
        BY <3>4, <4>4 DEF LogInv, LatestAgreesWithRows, IsLatest
      <4> QED
        BY <3>1, <4>3, <4>5
    <3> QED
      BY <1>3, <3>3, <3>4
  <2> QED
    BY <1>3, <2>1, <2>2
<1> QED
  BY <1>3, <1>6, <1>7, <1>8, <1>9, <1>10 DEF LogInv

-----------------------------------------------------------------------------
LEMMA LogNextInv == LogInv /\ [LogNext]_logVars => LogInv'
<1> SUFFICES ASSUME LogInv, [LogNext]_logVars PROVE LogInv'
  OBVIOUS
<1>1. CASE AnyCommit
  <2>1. PICK ms \in Chunks, gap \in 0..MaxGap :
          \E rec \in [1..Len(ms) -> Recordings] : Commit(ms, rec, gap)
    BY <1>1 DEF AnyCommit
  <2>2. PICK rec \in [1..Len(ms) -> Recordings] : Commit(ms, rec, gap)
    BY <2>1
  <2>3. gap \in Nat /\ rec \in [1..Len(ms) -> BOOLEAN]
    BY BoundsAssumption, RecordingsAssumption
  <2> QED
    BY <2>2, <2>3, LogCommitInv
<1>2. CASE AnyPrune
  <2>1. PICK floor \in 0..MaxSeq, batch \in 1..MaxSeq : Prune(floor, batch)
    BY <1>2 DEF AnyPrune
  <2>2. floor \in Nat /\ batch \in Nat
    BY BoundsAssumption
  <2> QED
    BY <2>1, <2>2, LogPruneInv
<1>3. CASE UNCHANGED logVars
  BY <1>3 DEF logVars, LogInv, LogTypeOK, SequencesDistinct, LatestAgreesWithRows,
              ExtentsChain, IsLatest
<1> QED
  BY <1>1, <1>2, <1>3 DEF LogNext

(***************************************************************************)
(* The log is well formed, its sequences distinct, and the newest          *)
(* obligation of every feature describes the stored row, in every state of *)
(* every behaviour, however chunks, gaps and prunes are interleaved.       *)
(***************************************************************************)
THEOREM LogInvariance == LogSpec => []LogInv
<1>1. LogInit => LogInv
  BY LogInitInv
<1>2. LogInv /\ [LogNext]_logVars => LogInv'
  BY LogNextInv
<1> QED
  BY <1>1, <1>2, PTL DEF LogSpec

(***************************************************************************)
(* LogTypeOK of the log, for every number of features and any bound.       *)
(***************************************************************************)
THEOREM LogTypeCorrect == LogSpec => []LogTypeOK
BY LogInvariance, PTL DEF LogInv

(***************************************************************************)
(* A consumer that has applied a feature's newest obligation agrees with   *)
(* the source of truth.                                                    *)
(***************************************************************************)
THEOREM NewestObligationDescribesRow == LogSpec => []LatestAgreesWithRows
BY LogInvariance, PTL DEF LogInv

(***************************************************************************)
(* No move of a feature is missing from the chain of extents.              *)
(***************************************************************************)
THEOREM ExtentsChainUnbroken == LogSpec => []ExtentsChain
BY LogInvariance, PTL DEF LogInv

(***************************************************************************)
(* An obligation only ever becomes visible above everything committed      *)
(* before, so a resume cursor never skips one.                             *)
(***************************************************************************)
THEOREM CommitsAppend == LogSpec => CommitsAppendAbove
<1> DEFINE Above == \A o \in outbox' \ outbox : o.seq > lastSeq
<1>1. LogInv /\ [LogNext]_logVars => [Above]_logVars
  <2> SUFFICES ASSUME LogInv, LogNext PROVE Above
    OBVIOUS
  <2>1. CASE AnyCommit
    <3>1. PICK ms \in Chunks, gap \in 0..MaxGap :
            \E rec \in [1..Len(ms) -> Recordings] : Commit(ms, rec, gap)
      BY <2>1 DEF AnyCommit
    <3>2. PICK rec \in [1..Len(ms) -> Recordings] : Commit(ms, rec, gap)
      BY <3>1
    <3>3. gap \in Nat /\ rec \in [1..Len(ms) -> BOOLEAN]
      BY BoundsAssumption, RecordingsAssumption
    <3> QED
      BY <3>2, <3>3, LogCommitInv
  <2>2. CASE AnyPrune
    BY <2>2 DEF AnyPrune, Prune
  <2> QED
    BY <2>1, <2>2 DEF LogNext
<1> QED
  BY <1>1, LogInvariance, PTL DEF LogSpec, CommitsAppendAbove

-----------------------------------------------------------------------------
(***************************************************************************)
(* Facts the proofs about the consumers use: what a commit of a single     *)
(* mutation does, and the greatest element of a bounded set.               *)
(***************************************************************************)
LEMMA CommitOne ==
    ASSUME LogTypeOK, NEW m \in Mutation, NEW rec \in BOOLEAN, NEW gap \in Nat,
           Commit(<<m>>, <<rec>>, gap)
    PROVE  /\ lastSeq' = lastSeq + gap + 1
           /\ rows' = [rows EXCEPT ![m.fid] = m.to]
           /\ outbox' = outbox \cup
                {[seq |-> lastSeq', fid |-> m.fid, prior |-> rows[m.fid],
                  current |-> m.to, recorded |-> rec]}
           /\ LogTypeOK'
<1>1. Len(<<m>>) = 1 /\ <<m>>[1] = m /\ <<rec>>[1] = rec /\ 1..1 = {1}
  OBVIOUS
<1>2. lastSeq \in Nat /\ rows \in [Features -> Stored] /\ m.fid \in Features /\ m.to \in Stored
  BY DEF LogTypeOK, Mutation
<1>3. lastSeq' = lastSeq + gap + 1
  BY <1>1 DEF Commit
<1>4. After(rows, <<m>>, 1 - 1, m.fid) = rows[m.fid]
  BY DEF After, Touching
<1>5. ASSUME NEW f \in Features
      PROVE  After(rows, <<m>>, 1, f) = IF f = m.fid THEN m.to ELSE rows[f]
  <2>1. CASE f = m.fid
    <3> DEFINE T == Touching(<<m>>, 1, f)
    <3>1. 1 \in T /\ \A k \in T : k \in Nat /\ k <= 1
      BY <1>1, <2>1 DEF Touching
    <3>2. Max(T) = 1
      <4> HIDE DEF T
      <4> QED
        BY <3>1, MaxIs
    <3> QED
      BY <1>1, <2>1, <3>1, <3>2 DEF After
  <2>2. CASE f # m.fid
    BY <1>1, <2>2 DEF After, Touching
  <2> QED
    BY <2>1, <2>2
<1>6. rows' = [rows EXCEPT ![m.fid] = m.to]
  <2>1. rows' = [f \in Features |-> After(rows, <<m>>, 1, f)]
    BY <1>1 DEF Commit
  <2> QED
    BY <1>2, <1>5, <2>1
<1>7. Appended(rows, lastSeq + gap, <<m>>, <<rec>>) =
        {[seq |-> lastSeq + gap + 1, fid |-> m.fid, prior |-> rows[m.fid],
          current |-> m.to, recorded |-> rec]}
  BY <1>1, <1>4 DEF Appended
<1>8. outbox' = outbox \cup
        {[seq |-> lastSeq', fid |-> m.fid, prior |-> rows[m.fid],
          current |-> m.to, recorded |-> rec]}
  BY <1>3, <1>7 DEF Commit
<1>9. LogTypeOK'
  <2>1. rows' \in [Features -> Stored]
    BY <1>2, <1>6
  <2>2. [seq |-> lastSeq', fid |-> m.fid, prior |-> rows[m.fid],
         current |-> m.to, recorded |-> rec] \in Obligation
    BY <1>2, <1>3 DEF Obligation
  <2>3. lastSeq' \in Nat /\ \A o \in outbox' : o.seq <= lastSeq'
    BY <1>2, <1>3, <1>8 DEF LogTypeOK, Obligation
  <2> QED
    BY <1>8, <2>1, <2>2, <2>3 DEF LogTypeOK
<1> QED
  BY <1>3, <1>6, <1>8, <1>9

LEMMA MaxOfBounded ==
    ASSUME NEW T, \A t \in T : t \in Nat, T # {}, NEW b \in Nat, \A t \in T : t <= b
    PROVE  Max(T) \in T /\ \A t \in T : t <= Max(T)
<1>1. \E m \in T : \A k \in T : k <= m
  BY GreatestElement
<1>2. Max(T) \in T /\ \A k \in T : Max(T) >= k
  BY <1>1 DEF Max
<1> QED
  BY <1>2
=============================================================================
