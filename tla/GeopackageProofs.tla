--------------------------- MODULE GeopackageProofs --------------------------
(***************************************************************************)
(* The GeoPackage write lane implements the outbox contract, for any       *)
(* number of features, any batch size and any refusals, rollbacks and      *)
(* prunes.  While a transaction is open its copy is the committed file     *)
(* with the mutations done so far appended (TxFollows), whichever items    *)
(* were refused in between; its commit is therefore one Commit of exactly  *)
(* those mutations, with no gap in the sequences.                          *)
(***************************************************************************)
EXTENDS GeopackageWrites, OutboxLogProofs

(***************************************************************************)
(* The contract's Recordings cover what the lane folds: the driver that    *)
(* knows every extent, or none of a feature that is there.                 *)
(***************************************************************************)
FoldsAreRecordings ==
    \A prior, current \in Stored : FoldExtent(prior, current) \in Recordings

Transaction ==
    [open : BOOLEAN, batch : BOOLEAN, strict : BOOLEAN, todo : Seq(Mutation),
     done : Seq(Mutation), recorded : Seq(Recordings), rows : [Features -> Stored],
     outbox : SUBSET Obligation, lastSeq : Nat]

TxFollows ==
    tx.open =>
        /\ Len(tx.recorded) = Len(tx.done)
        /\ Len(tx.done) + Len(tx.todo) <= MaxBatch
        /\ lastSeq + Len(tx.done) + Len(tx.todo) <= MaxSeq
        /\ tx.rows = [f \in Features |-> After(rows, tx.done, Len(tx.done), f)]
        /\ tx.outbox = outbox \cup Appended(rows, lastSeq, tx.done, tx.recorded)
        /\ tx.lastSeq = lastSeq + Len(tx.done)

IInv == LogInv /\ tx \in Transaction /\ TxFollows

-----------------------------------------------------------------------------
(***************************************************************************)
(* One more mutation at the end of a chunk.                                *)
(***************************************************************************)
LEMMA AfterPrefix ==
    ASSUME NEW base, NEW ms \in Seq(Mutation), NEW m \in Mutation, NEW n \in 0..Len(ms), NEW f
    PROVE  After(base, Append(ms, m), n, f) = After(base, ms, n, f)
<1>1. \A j \in 1..n : Append(ms, m)[j] = ms[j]
  OBVIOUS
<1>2. Touching(Append(ms, m), n, f) = Touching(ms, n, f)
  BY <1>1 DEF Touching
<1>3. CASE Touching(ms, n, f) = {}
  BY <1>2, <1>3 DEF After
<1>4. CASE Touching(ms, n, f) # {}
  <2>1. n \in Nat
    OBVIOUS
  <2>2. Max(Touching(ms, n, f)) \in 1..n
    BY <1>4, <2>1, MaxTouching DEF Touching
  <2> QED
    BY <1>1, <1>2, <1>4, <2>2 DEF After
<1> QED
  BY <1>3, <1>4

LEMMA AfterOneMore ==
    ASSUME NEW base, NEW ms \in Seq(Mutation), NEW m \in Mutation, NEW f
    PROVE  After(base, Append(ms, m), Len(ms) + 1, f) =
              IF m.fid = f THEN m.to ELSE After(base, ms, Len(ms), f)
<1> DEFINE n == Len(ms)
           more == Append(ms, m)
<1>1. n \in Nat /\ more[n + 1] = m
  OBVIOUS
<1>2. CASE m.fid = f
  <2>1. n + 1 \in Touching(more, n + 1, f)
    BY <1>1, <1>2 DEF Touching
  <2>2. \A k \in Touching(more, n + 1, f) : k \in Nat /\ k <= n + 1
    BY <1>1 DEF Touching
  <2>3. Max(Touching(more, n + 1, f)) = n + 1
    BY <1>1, <2>1, <2>2, MaxIs
  <2> QED
    BY <1>1, <1>2, <2>1, <2>3 DEF After
<1>3. CASE m.fid # f
  <2>1. Touching(more, n + 1, f) = Touching(more, n, f)
    BY <1>1, <1>3 DEF Touching
  <2>2. After(base, more, n + 1, f) = After(base, more, n, f)
    BY <2>1 DEF After
  <2>3. After(base, more, n, f) = After(base, ms, n, f)
    BY <1>1, AfterPrefix
  <2> QED
    BY <1>3, <2>2, <2>3
<1> QED
  BY <1>2, <1>3

LEMMA AppendedOneMore ==
    ASSUME NEW base, NEW first \in Nat, NEW ms \in Seq(Mutation), NEW m \in Mutation,
           NEW rec \in Seq(Recordings), Len(rec) = Len(ms), NEW known \in Recordings
    PROVE  Appended(base, first, Append(ms, m), Append(rec, known)) =
              Appended(base, first, ms, rec) \cup
                 {[seq |-> first + Len(ms) + 1, fid |-> m.fid,
                   prior |-> After(base, ms, Len(ms), m.fid),
                   current |-> m.to, recorded |-> known]}
<1> DEFINE n == Len(ms)
           more == Append(ms, m)
           flags == Append(rec, known)
           Owed(s, r, i) == [seq |-> first + i, fid |-> s[i].fid,
                             prior |-> After(base, s, i - 1, s[i].fid),
                             current |-> s[i].to, recorded |-> r[i]]
<1>1. /\ n \in Nat /\ Len(more) = n + 1
      /\ more[n + 1] = m /\ flags[n + 1] = known
      /\ \A i \in 1..n : more[i] = ms[i] /\ flags[i] = rec[i]
  OBVIOUS
<1>2. ASSUME NEW i \in 1..n PROVE Owed(more, flags, i) = Owed(ms, rec, i)
  <2>1. i - 1 \in 0..Len(ms) /\ more[i] = ms[i] /\ flags[i] = rec[i]
    BY <1>1
  <2>2. After(base, more, i - 1, ms[i].fid) = After(base, ms, i - 1, ms[i].fid)
    BY <2>1, AfterPrefix
  <2> QED
    BY <2>1, <2>2
<1>3. Owed(more, flags, n + 1) =
         [seq |-> first + n + 1, fid |-> m.fid, prior |-> After(base, ms, n, m.fid),
          current |-> m.to, recorded |-> known]
  <2>1. After(base, more, n, m.fid) = After(base, ms, n, m.fid)
    BY <1>1, AfterPrefix
  <2>2. (n + 1) - 1 = n /\ first + (n + 1) = first + n + 1
    BY <1>1
  <2> QED
    BY <1>1, <2>1, <2>2
<1>4. Appended(base, first, more, flags) = {Owed(more, flags, i) : i \in 1..(n + 1)}
  BY <1>1 DEF Appended
<1>5. Appended(base, first, ms, rec) = {Owed(ms, rec, i) : i \in 1..n}
  BY DEF Appended
<1>6. 1..(n + 1) = (1..n) \cup {n + 1}
  BY <1>1
<1> HIDE DEF Owed, more, flags, n
<1>7. {Owed(more, flags, i) : i \in 1..(n + 1)} =
         {Owed(ms, rec, i) : i \in 1..n} \cup {Owed(more, flags, n + 1)}
  BY <1>2, <1>6
<1> QED
  BY <1>3, <1>4, <1>5, <1>7 DEF more, flags, n

-----------------------------------------------------------------------------
(***************************************************************************)
(* The file as IInv has it, without Booleans next to the arithmetic.       *)
(***************************************************************************)
LEMMA FileFacts ==
    ASSUME IInv
    PROVE  /\ rows \in [Features -> Stored] /\ lastSeq \in Nat
           /\ outbox \subseteq Obligation
           /\ tx.todo \in Seq(Mutation) /\ tx.done \in Seq(Mutation)
           /\ tx.recorded \in Seq(Recordings)
           /\ tx.rows \in [Features -> Stored]
           /\ tx.outbox \subseteq Obligation
           /\ tx.lastSeq \in Nat
BY DEF IInv, LogInv, LogTypeOK, Transaction

(***************************************************************************)
(* An idle connection has nothing to follow.                               *)
(***************************************************************************)
LEMMA IdleFollows ==
    ASSUME tx' = IdleTx
    PROVE  tx' \in Transaction /\ TxFollows'
<1>1. IdleTx \in Transaction
  BY DEF IdleTx, Transaction, Stored
<1>2. ~ IdleTx.open
  BY DEF IdleTx
<1> QED
  BY <1>1, <1>2 DEF TxFollows

(***************************************************************************)
(* A transaction that has applied nothing yet is the file.                 *)
(***************************************************************************)
LEMMA BeginFollows ==
    ASSUME IInv, NEW ms \in Chunks, NEW batch \in BOOLEAN, NEW strict \in BOOLEAN,
           BeginTx(ms, batch, strict)
    PROVE  tx' \in Transaction /\ TxFollows'
<1>1. /\ tx' = [open |-> TRUE, batch |-> batch, strict |-> strict, todo |-> ms,
                done |-> <<>>, recorded |-> <<>>,
                rows |-> rows, outbox |-> outbox, lastSeq |-> lastSeq]
      /\ lastSeq + Len(ms) <= MaxSeq
      /\ rows' = rows /\ outbox' = outbox /\ lastSeq' = lastSeq
  BY DEF BeginTx, logVars
<1>2. /\ rows \in [Features -> Stored] /\ lastSeq \in Nat /\ outbox \subseteq Obligation
  BY FileFacts
<1>3. ms \in Seq(Mutation) /\ Len(ms) \in Nat /\ Len(ms) <= MaxBatch
  <2>1. PICK n \in 1..MaxBatch : ms \in [1..n -> Mutation]
    BY DEF Chunks
  <2>2. n \in Nat /\ n <= MaxBatch
    BY <2>1, BoundsAssumption
  <2> QED
    BY <2>1, <2>2
<1>4. tx' \in Transaction
  <2>1. <<>> \in Seq(Mutation) /\ <<>> \in Seq(Recordings)
    OBVIOUS
  <2> QED
    BY <1>1, <1>2, <1>3, <2>1 DEF Transaction
<1>5. /\ tx'.done = <<>> /\ tx'.recorded = <<>> /\ tx'.todo = ms
      /\ tx'.rows = rows /\ tx'.outbox = outbox /\ tx'.lastSeq = lastSeq
  BY <1>1
<1>6. \A f \in Features : After(rows, <<>>, 0, f) = rows[f]
  <2>1. \A f : Touching(<<>>, 0, f) = {}
    BY DEF Touching
  <2> QED
    BY <2>1 DEF After
<1>7. Appended(rows, lastSeq, <<>>, <<>>) = {}
  BY DEF Appended
<1>8. rows = [f \in Features |-> After(rows, <<>>, 0, f)]
  BY <1>2, <1>6
<1>9. Len(<<>>) = 0 /\ MaxBatch \in Nat /\ MaxSeq \in Nat
  BY BoundsAssumption
<1>10. /\ Len(tx'.recorded) = Len(tx'.done)
       /\ Len(tx'.done) + Len(tx'.todo) <= MaxBatch
       /\ lastSeq' + Len(tx'.done) + Len(tx'.todo) <= MaxSeq
       /\ tx'.lastSeq = lastSeq' + Len(tx'.done)
  BY <1>1, <1>2, <1>3, <1>5, <1>9
<1>11. /\ tx'.rows = [f \in Features |-> After(rows', tx'.done, Len(tx'.done), f)]
       /\ tx'.outbox = outbox' \cup Appended(rows', lastSeq', tx'.done, tx'.recorded)
  BY <1>1, <1>5, <1>7, <1>8, <1>9
<1> QED
  BY <1>4, <1>10, <1>11 DEF TxFollows

(***************************************************************************)
(* An applied item is one more mutation of the chunk, with the sequence    *)
(* after the last one drawn.                                               *)
(***************************************************************************)
LEMMA ApplyFollows ==
    ASSUME IInv, FoldsAreRecordings, ApplyItem
    PROVE  tx' \in Transaction /\ TxFollows'
<1> DEFINE m     == Head(tx.todo)
           prior == tx.rows[m.fid]
           known == FoldExtent(prior, m.to)
           owed  == [seq |-> tx.lastSeq + 1, fid |-> m.fid, prior |-> prior,
                     current |-> m.to, recorded |-> known]
<1>1. /\ tx.open /\ tx.todo # <<>>
      /\ tx' = [tx EXCEPT !.todo = Tail(@), !.done = Append(@, m),
                          !.recorded = Append(@, known), !.rows[m.fid] = m.to,
                          !.outbox = @ \cup {owed}, !.lastSeq = @ + 1]
      /\ rows' = rows /\ outbox' = outbox /\ lastSeq' = lastSeq
  BY DEF ApplyItem, StoredState, NextSequence, logVars
<1>2. /\ rows \in [Features -> Stored] /\ lastSeq \in Nat
      /\ tx.todo \in Seq(Mutation) /\ tx.done \in Seq(Mutation)
      /\ tx.recorded \in Seq(Recordings)
      /\ tx.rows \in [Features -> Stored]
      /\ tx.outbox \subseteq Obligation
      /\ tx.lastSeq \in Nat
  BY FileFacts
<1>3. m \in Mutation /\ Tail(tx.todo) \in Seq(Mutation) /\ Len(tx.todo) = Len(Tail(tx.todo)) + 1
  BY <1>1, <1>2
<1>4. m.fid \in Features /\ m.to \in Stored /\ prior \in Stored
  BY <1>2, <1>3 DEF Mutation
<1>5. known \in Recordings /\ known \in BOOLEAN
  BY <1>4, RecordingsAssumption DEF FoldsAreRecordings
<1> HIDE DEF m, prior, known
<1>6. owed \in Obligation
  BY <1>2, <1>4, <1>5 DEF Obligation
<1> HIDE DEF owed
<1>7. tx \in Transaction
  BY DEF IInv
<1>8. /\ tx'.open = tx.open /\ tx'.batch = tx.batch /\ tx'.strict = tx.strict
      /\ tx'.todo = Tail(tx.todo)
      /\ tx'.done = Append(tx.done, m)
      /\ tx'.recorded = Append(tx.recorded, known)
      /\ tx'.rows = [tx.rows EXCEPT ![m.fid] = m.to]
      /\ tx'.outbox = tx.outbox \cup {owed}
      /\ tx'.lastSeq = tx.lastSeq + 1
      /\ tx' = [open |-> tx'.open, batch |-> tx'.batch, strict |-> tx'.strict,
                todo |-> tx'.todo, done |-> tx'.done, recorded |-> tx'.recorded,
                rows |-> tx'.rows, outbox |-> tx'.outbox, lastSeq |-> tx'.lastSeq]
  BY <1>1, <1>7 DEF Transaction
<1>9. tx' \in Transaction
  <2>1. /\ Append(tx.done, m) \in Seq(Mutation)
        /\ Append(tx.recorded, known) \in Seq(Recordings)
    BY <1>2, <1>3, <1>5
  <2>2. [tx.rows EXCEPT ![m.fid] = m.to] \in [Features -> Stored]
    BY <1>2, <1>4
  <2>3. tx.outbox \cup {owed} \subseteq Obligation /\ tx.lastSeq + 1 \in Nat
    BY <1>2, <1>6
  <2>4. tx.open \in BOOLEAN /\ tx.batch \in BOOLEAN /\ tx.strict \in BOOLEAN
    BY <1>7 DEF Transaction
  <2> QED
    BY <1>3, <1>8, <2>1, <2>2, <2>3, <2>4 DEF Transaction
<1>10. /\ Len(tx.recorded) = Len(tx.done)
       /\ Len(tx.done) + Len(tx.todo) <= MaxBatch
       /\ lastSeq + Len(tx.done) + Len(tx.todo) <= MaxSeq
       /\ tx.rows = [f \in Features |-> After(rows, tx.done, Len(tx.done), f)]
       /\ tx.outbox = outbox \cup Appended(rows, lastSeq, tx.done, tx.recorded)
       /\ tx.lastSeq = lastSeq + Len(tx.done)
  BY <1>1 DEF IInv, TxFollows
<1>11. /\ Len(tx.done) \in Nat /\ Len(tx.todo) \in Nat
       /\ Len(tx'.done) = Len(tx.done) + 1
       /\ Len(tx'.recorded) = Len(tx.recorded) + 1
       /\ Len(tx'.todo) \in Nat /\ Len(tx.todo) = Len(tx'.todo) + 1
  BY <1>2, <1>3, <1>8
<1>12. /\ Len(tx'.recorded) = Len(tx'.done)
       /\ Len(tx'.done) + Len(tx'.todo) <= MaxBatch
       /\ lastSeq' + Len(tx'.done) + Len(tx'.todo) <= MaxSeq
       /\ tx'.lastSeq = lastSeq' + Len(tx'.done)
  <2> DEFINE d == Len(tx.done)    dd == Len(tx'.done)
             t == Len(tx.todo)    tt == Len(tx'.todo)
             l == tx.lastSeq      ll == tx'.lastSeq
  <2>1. /\ d \in Nat /\ tt \in Nat /\ dd = d + 1 /\ t = tt + 1
        /\ Len(tx'.recorded) = dd
    BY <1>10, <1>11
  <2>2. l \in Nat /\ ll = l + 1 /\ lastSeq \in Nat /\ lastSeq' = lastSeq
    BY <1>1, <1>2, <1>8
  <2>3. d + t <= MaxBatch /\ lastSeq + d + t <= MaxSeq /\ l = lastSeq + d
    BY <1>10
  <2>4. MaxBatch \in Nat /\ MaxSeq \in Nat
    BY BoundsAssumption
  <2> HIDE DEF d, dd, t, tt, l, ll
  <2>5. dd + tt <= MaxBatch /\ lastSeq' + dd + tt <= MaxSeq /\ ll = lastSeq' + dd
    BY <2>1, <2>2, <2>3, <2>4
  <2> QED
    BY <2>1, <2>5 DEF d, dd, t, tt, l, ll
<1>13. tx'.rows = [f \in Features |-> After(rows', tx'.done, Len(tx'.done), f)]
  <2>1. \A f \in Features :
           After(rows, Append(tx.done, m), Len(tx.done) + 1, f) =
              IF m.fid = f THEN m.to ELSE After(rows, tx.done, Len(tx.done), f)
    BY <1>2, <1>3, AfterOneMore
  <2>2. \A f \in Features :
           After(rows, tx'.done, Len(tx'.done), f) = IF m.fid = f THEN m.to ELSE tx.rows[f]
    BY <1>8, <1>10, <1>11, <2>1
  <2>3. rows' = rows /\ tx'.rows = [tx.rows EXCEPT ![m.fid] = m.to]
    BY <1>1, <1>8
  <2>4. tx'.rows = [f \in Features |-> IF m.fid = f THEN m.to ELSE tx.rows[f]]
    BY <1>2, <2>3
  <2> QED
    BY <2>2, <2>3, <2>4
<1>14. tx'.outbox = outbox' \cup Appended(rows', lastSeq', tx'.done, tx'.recorded)
  <2>1. prior = After(rows, tx.done, Len(tx.done), m.fid)
    BY <1>4, <1>10 DEF prior
  <2>2. owed = [seq |-> lastSeq + Len(tx.done) + 1, fid |-> m.fid,
                prior |-> After(rows, tx.done, Len(tx.done), m.fid),
                current |-> m.to, recorded |-> known]
    BY <1>10, <2>1 DEF owed
  <2>3. Appended(rows, lastSeq, tx'.done, tx'.recorded) =
           Appended(rows, lastSeq, tx.done, tx.recorded) \cup {owed}
    <3> DEFINE ds == tx.done   rs == tx.recorded
    <3>1. ds \in Seq(Mutation) /\ rs \in Seq(Recordings) /\ Len(rs) = Len(ds)
      BY <1>2, <1>10
    <3> HIDE DEF ds, rs
    <3>2. Appended(rows, lastSeq, Append(ds, m), Append(rs, known)) =
             Appended(rows, lastSeq, ds, rs) \cup
                {[seq |-> lastSeq + Len(ds) + 1, fid |-> m.fid,
                  prior |-> After(rows, ds, Len(ds), m.fid),
                  current |-> m.to, recorded |-> known]}
      BY <1>2, <1>3, <1>5, <3>1, AppendedOneMore
    <3>3. tx'.done = Append(tx.done, m) /\ tx'.recorded = Append(tx.recorded, known)
      BY <1>8
    <3> QED
      BY <2>2, <3>2, <3>3 DEF ds, rs
  <2> QED
    BY <1>1, <1>8, <1>10, <2>3
<1> QED
  BY <1>9, <1>12, <1>13, <1>14 DEF TxFollows

(***************************************************************************)
(* A refused item leaves nothing, and shortens what is left to do.         *)
(***************************************************************************)
LEMMA RefuseFollows ==
    ASSUME IInv, RefuseItem
    PROVE  tx' \in Transaction /\ TxFollows'
<1> DEFINE rest == IF tx.strict THEN <<>> ELSE Tail(tx.todo)
<1>1. /\ tx.open /\ tx.todo # <<>>
      /\ tx' = [tx EXCEPT !.todo = rest]
      /\ rows' = rows /\ outbox' = outbox /\ lastSeq' = lastSeq
  BY DEF RefuseItem, logVars
<1>2. lastSeq \in Nat /\ tx.todo \in Seq(Mutation) /\ tx.done \in Seq(Mutation)
  BY FileFacts
<1>3. rest \in Seq(Mutation)
  BY <1>1, <1>2
<1>4. Len(rest) \in Nat /\ Len(rest) <= Len(tx.todo)
  <2> DEFINE t == tx.todo
  <2>1. t \in Seq(Mutation) /\ t # <<>>
    BY <1>1, <1>2
  <2> HIDE DEF t
  <2>2. Len(Tail(t)) \in Nat /\ Len(Tail(t)) <= Len(t) /\ Len(<<>>) = 0 /\ Len(t) \in Nat
    BY <2>1
  <2>3. Len(IF tx.strict THEN <<>> ELSE Tail(t)) <= Len(t)
    BY <2>2
  <2> QED
    BY <1>3, <2>3 DEF t
<1> HIDE DEF rest
<1>5. tx \in Transaction
  BY DEF IInv
<1>6. tx' \in Transaction
  BY <1>1, <1>3, <1>5 DEF Transaction
<1>7. /\ tx'.todo = rest /\ tx'.done = tx.done /\ tx'.recorded = tx.recorded
      /\ tx'.rows = tx.rows /\ tx'.outbox = tx.outbox /\ tx'.lastSeq = tx.lastSeq
  BY <1>1, <1>5 DEF Transaction
<1>8. /\ Len(tx.recorded) = Len(tx.done)
      /\ Len(tx.done) + Len(tx.todo) <= MaxBatch
      /\ lastSeq + Len(tx.done) + Len(tx.todo) <= MaxSeq
      /\ tx.rows = [f \in Features |-> After(rows, tx.done, Len(tx.done), f)]
      /\ tx.outbox = outbox \cup Appended(rows, lastSeq, tx.done, tx.recorded)
      /\ tx.lastSeq = lastSeq + Len(tx.done)
  BY <1>1 DEF IInv, TxFollows
<1>9. Len(tx.done) + Len(rest) <= MaxBatch /\ lastSeq + Len(tx.done) + Len(rest) <= MaxSeq
  <2> DEFINE d == Len(tx.done)   t == Len(tx.todo)   u == Len(rest)
  <2>1. /\ d \in Nat /\ t \in Nat /\ u \in Nat /\ u <= t
        /\ d + t <= MaxBatch /\ lastSeq + d + t <= MaxSeq
    <3>1. d \in Nat /\ t \in Nat
      BY <1>2
    <3>2. u \in Nat /\ u <= t
      BY <1>4
    <3>3. d + t <= MaxBatch /\ lastSeq + d + t <= MaxSeq
      BY <1>8
    <3> QED
      BY <3>1, <3>2, <3>3
  <2>2. lastSeq \in Nat /\ MaxBatch \in Nat /\ MaxSeq \in Nat
    BY <1>2, BoundsAssumption
  <2> HIDE DEF d, t, u
  <2>3. d + u <= MaxBatch /\ lastSeq + d + u <= MaxSeq
    BY <2>1, <2>2
  <2> QED
    BY <2>3 DEF d, u
<1> QED
  BY <1>1, <1>6, <1>7, <1>8, <1>9 DEF TxFollows

(***************************************************************************)
(* The commit of a transaction in which nothing was applied changes        *)
(* nothing; any other is one Commit of the mutations applied.              *)
(***************************************************************************)
LEMMA CommitImplements ==
    ASSUME IInv, CommitTx
    PROVE  [LogNext]_logVars
<1>1. /\ tx.open /\ rows' = tx.rows /\ outbox' = tx.outbox /\ lastSeq' = tx.lastSeq
      /\ tx.todo = <<>>
  BY DEF CommitTx
<1>2. /\ rows \in [Features -> Stored] /\ lastSeq \in Nat
      /\ tx.done \in Seq(Mutation) /\ tx.recorded \in Seq(Recordings)
  BY FileFacts
<1> DEFINE ms == tx.done   rec == tx.recorded   n == Len(ms)
<1>3. /\ Len(rec) = n /\ n + Len(tx.todo) <= MaxBatch /\ lastSeq + n + Len(tx.todo) <= MaxSeq
      /\ rows' = [f \in Features |-> After(rows, ms, n, f)]
      /\ outbox' = outbox \cup Appended(rows, lastSeq, ms, rec)
      /\ lastSeq' = lastSeq + n
  BY <1>1 DEF IInv, TxFollows
<1>4. n \in Nat /\ Len(tx.todo) = 0 /\ ms \in Seq(Mutation) /\ rec \in Seq(Recordings)
  BY <1>1, <1>2
<1> HIDE DEF ms, rec
<1>5. CASE n = 0
  <2>1. \A f \in Features : After(rows, ms, n, f) = rows[f]
    BY <1>5 DEF After, Touching
  <2>2. Appended(rows, lastSeq, ms, rec) = {}
    BY <1>5 DEF Appended
  <2>3. rows' = rows
    BY <1>2, <1>3, <2>1
  <2>4. lastSeq' = lastSeq
    BY <1>2, <1>3, <1>5
  <2> QED
    BY <1>3, <2>2, <2>3, <2>4 DEF logVars
<1>6. CASE n # 0
  <2>1. /\ n \in 1..MaxBatch /\ lastSeq + 0 + n <= MaxSeq
        /\ lastSeq + 0 = lastSeq /\ 0 \in 0..MaxGap
    <3> HIDE DEF n
    <3> QED
      BY <1>2, <1>3, <1>4, <1>6, BoundsAssumption
  <2>2. ms \in [1..n -> Mutation] /\ rec \in [1..n -> Recordings]
    BY <1>3, <1>4
  <2>3. ms \in Chunks
    BY <2>1, <2>2 DEF Chunks
  <2>4. Commit(ms, rec, 0)
    BY <1>3, <2>1 DEF Commit
  <2>5. rec \in [1..Len(ms) -> Recordings]
    BY <2>2
  <2> QED
    BY <2>1, <2>3, <2>4, <2>5 DEF LogNext, AnyCommit
<1> QED
  BY <1>5, <1>6

(***************************************************************************)
(* Every step of the lane is a step of the contract or leaves the file as  *)
(* it is.                                                                  *)
(***************************************************************************)
LEMMA StepsAreLogSteps ==
    ASSUME IInv, [Next]_gpkgVars
    PROVE  [LogNext]_logVars
<1>1. CASE WriteApply \/ WriteApplyBatch \/ ApplyItem \/ RefuseItem \/ RollbackTx
  <2>1. UNCHANGED logVars
    BY <1>1 DEF WriteApply, WriteApplyBatch, BeginTx, ApplyItem, RefuseItem, RollbackTx
  <2> QED
    BY <2>1
<1>2. CASE CommitTx
  BY <1>2, CommitImplements
<1>3. CASE AnyPruneBefore
  BY <1>3 DEF AnyPruneBefore, PruneBefore, LogNext, AnyPrune
<1>4. CASE UNCHANGED gpkgVars
  BY <1>4 DEF gpkgVars, logVars
<1> QED
  BY <1>1, <1>2, <1>3, <1>4 DEF Next

LEMMA TxNextInv ==
    ASSUME IInv, FoldsAreRecordings, [Next]_gpkgVars
    PROVE  tx' \in Transaction /\ TxFollows'
<1>1. CASE WriteApply
  <2>1. PICK m \in Mutation : BeginTx(<<m>>, FALSE, FALSE)
    BY <1>1 DEF WriteApply
  <2>2. 1 \in 1..MaxBatch
    BY BoundsAssumption
  <2>3. <<m>> \in [1..1 -> Mutation]
    OBVIOUS
  <2>4. <<m>> \in Chunks
    BY <2>2, <2>3 DEF Chunks
  <2> QED
    BY <2>1, <2>4, BeginFollows
<1>2. CASE WriteApplyBatch
  BY <1>2, BeginFollows DEF WriteApplyBatch
<1>3. CASE ApplyItem
  BY <1>3, ApplyFollows
<1>4. CASE RefuseItem
  BY <1>4, RefuseFollows
<1>5. CASE CommitTx \/ RollbackTx
  BY <1>5, IdleFollows DEF CommitTx, RollbackTx
<1>6. CASE AnyPruneBefore
  <2>1. tx' = tx /\ ~ tx.open
    BY <1>6 DEF AnyPruneBefore, PruneBefore
  <2> QED
    BY <2>1 DEF IInv, TxFollows
<1>7. CASE UNCHANGED gpkgVars
  BY <1>7 DEF gpkgVars, IInv, TxFollows
<1> QED
  BY <1>1, <1>2, <1>3, <1>4, <1>5, <1>6, <1>7 DEF Next

-----------------------------------------------------------------------------
(***************************************************************************)
(* At every moment the open transaction is the committed file with the     *)
(* mutations applied so far, whatever was refused or rolled back.          *)
(***************************************************************************)
THEOREM FileInvariance ==
    ASSUME FoldsAreRecordings
    PROVE  Spec => []IInv
<1>1. Init => IInv
  <2> SUFFICES ASSUME Init PROVE IInv
    OBVIOUS
  <2>1. LogInv /\ tx = IdleTx
    BY LogInitInv DEF Init
  <2>2. IdleTx \in Transaction /\ ~ IdleTx.open
    BY DEF IdleTx, Transaction, Stored
  <2> QED
    BY <2>1, <2>2 DEF IInv, TxFollows
<1>2. IInv /\ [Next]_gpkgVars => IInv'
  <2> SUFFICES ASSUME IInv, [Next]_gpkgVars PROVE IInv'
    OBVIOUS
  <2>1. LogInv'
    BY StepsAreLogSteps, LogNextInv DEF IInv
  <2>2. tx' \in Transaction /\ TxFollows'
    BY TxNextInv
  <2> QED
    BY <2>1, <2>2 DEF IInv
<1> QED
  BY <1>1, <1>2, PTL DEF Spec

(***************************************************************************)
(* The committed file and the transaction in progress are well formed.     *)
(***************************************************************************)
THEOREM FileTypeCorrect ==
    ASSUME FoldsAreRecordings
    PROVE  Spec => []TypeOK
<1>1. IInv => TypeOK
  BY DEF IInv, LogInv, TypeOK, TxTypeOK, Transaction
<1> QED
  BY <1>1, FileInvariance, PTL

(***************************************************************************)
(* The driver keeps the outbox contract: every transaction of its writer   *)
(* connection is one Commit, a Prune or nothing at all.                    *)
(***************************************************************************)
THEOREM GeopackageImplementsOutbox ==
    ASSUME FoldsAreRecordings
    PROVE  Spec => LogSpec
<1>1. Init => LogInit
  BY DEF Init
<1>2. IInv /\ [Next]_gpkgVars => [LogNext]_logVars
  BY StepsAreLogSteps
<1> QED
  BY <1>1, <1>2, FileInvariance, PTL DEF Spec, LogSpec

(***************************************************************************)
(* What the contract gives, of the driver: the newest obligation of a      *)
(* feature describes the stored feature.                                   *)
(***************************************************************************)
THEOREM NewestGeopackageObligation ==
    ASSUME FoldsAreRecordings
    PROVE  Spec => []LatestAgreesWithRows
BY GeopackageImplementsOutbox, NewestObligationDescribesRow, PTL
=============================================================================
