-------------------------- MODULE GeopackageWrites ---------------------------
(***************************************************************************)
(* The GeoPackage driver's write lane: one SQLite file, many readers, one  *)
(* writer connection behind a mutex (tellurion-geopackage/src/pool.rs).    *)
(* A write opens a transaction on that connection, applies its mutations   *)
(* one by one (a batch: each behind its own savepoint), and commits; an    *)
(* error, a panic that poisons the mutex, or a crash drops the transaction *)
(* and rolls it back.                                                      *)
(*                                                                         *)
(* rows, outbox and lastSeq are the committed file: what the reader        *)
(* connections see in WAL mode, and sqlite_sequence's AUTOINCREMENT value. *)
(* The writer's uncommitted copy of the three is in `tx`.                  *)
(***************************************************************************)
EXTENDS OutboxLog

CONSTANTS
    CrsExpressible   \* can the driver express the collection's CRS in CRS84

ASSUME CrsAssumption == CrsExpressible \in BOOLEAN

VARIABLES
    tx    \* the writer connection: idle, or the transaction it runs

gpkgVars == <<rows, outbox, lastSeq, tx>>

(***************************************************************************)
(* todo: mutations not attempted yet; done: mutations applied, in order,   *)
(* with the extent flag of each; batch: apply_batch rather than apply.     *)
(***************************************************************************)
IdleTx ==
    [open |-> FALSE, batch |-> FALSE, strict |-> FALSE, todo |-> <<>>,
     done |-> <<>>, recorded |-> <<>>,
     rows |-> [f \in Features |-> Absent], outbox |-> {}, lastSeq |-> 0]

Init == LogInit /\ tx = IdleTx

(***************************************************************************)
(* with_writer: the mutex admits one transaction at a time.                *)
(***************************************************************************)
BeginTx(ms, batch, strict) ==
    /\ ~tx.open
    /\ lastSeq + Len(ms) <= MaxSeq
    /\ tx' = [open |-> TRUE, batch |-> batch, strict |-> strict, todo |-> ms,
              done |-> <<>>, recorded |-> <<>>,
              rows |-> rows, outbox |-> outbox, lastSeq |-> lastSeq]
    /\ UNCHANGED logVars

(***************************************************************************)
(* write_apply_inner: a single PUT or DELETE.                              *)
(***************************************************************************)
WriteApply == \E m \in Mutation : BeginTx(<<m>>, FALSE, FALSE)

(***************************************************************************)
(* write_apply_batch_inner: a chunk of a bulk load.                        *)
(***************************************************************************)
WriteApplyBatch ==
    \E ms \in Chunks, strict \in BOOLEAN : BeginTx(ms, TRUE, strict)

(***************************************************************************)
(* stored_crs84_extent and fold_extent: "not there" is an answer in any    *)
(* CRS; a geometry in a CRS the driver cannot express makes the whole      *)
(* obligation Unrecorded.                                                  *)
(***************************************************************************)
ExtentKnown(content) == content = Absent \/ CrsExpressible

FoldExtent(prior, current) == ExtentKnown(prior) /\ ExtentKnown(current)

(* Faulty variant: the sequence of a column without AUTOINCREMENT, which   *)
(* only looks at the obligations still there.                              *)
RowidSequence == Max({o.seq : o \in tx.outbox} \cup {0}) + 1

(***************************************************************************)
(* AUTOINCREMENT: one above the highest sequence ever committed.           *)
(***************************************************************************)
NextSequence == tx.lastSeq + 1

(***************************************************************************)
(* stored_crs84_extent: the feature as this transaction has it.            *)
(***************************************************************************)
StoredState(f) == tx.rows[f]

(***************************************************************************)
(* One mutation inside the transaction: read the stored feature, run the   *)
(* data statement, read the feature back, insert the outbox row.           *)
(***************************************************************************)
ApplyItem ==
    /\ tx.open /\ tx.todo # <<>>
    /\ LET m     == Head(tx.todo)
           prior == StoredState(m.fid)
           known == FoldExtent(prior, m.to)
           owed  == [seq |-> NextSequence, fid |-> m.fid, prior |-> prior,
                     current |-> m.to, recorded |-> known]
       IN  tx' = [tx EXCEPT !.todo = Tail(@),
                            !.done = Append(@, m),
                            !.recorded = Append(@, known),
                            !.rows[m.fid] = m.to,
                            !.outbox = @ \cup {owed},
                            !.lastSeq = @ + 1]
    /\ UNCHANGED logVars

(* Faulty variant: the refused item's data statement is not rolled back.   *)
RefuseWithoutSavepoint ==
    /\ tx.open /\ tx.batch /\ tx.todo # <<>>
    /\ tx' = [tx EXCEPT !.todo = IF tx.strict THEN <<>> ELSE Tail(@),
                        !.rows[Head(tx.todo).fid] = Head(tx.todo).to]
    /\ UNCHANGED logVars

(***************************************************************************)
(* A batch item refused before its outbox row is written (bad id, unknown  *)
(* property, constraint): its savepoint is rolled back, and a strict batch *)
(* attempts nothing further.                                               *)
(***************************************************************************)
RefuseItem ==
    /\ tx.open /\ tx.batch /\ tx.todo # <<>>
    /\ tx' = [tx EXCEPT !.todo = IF tx.strict THEN <<>> ELSE Tail(@)]
    /\ UNCHANGED logVars

(***************************************************************************)
(* tx.commit(): the file takes the transaction's state in one step.        *)
(***************************************************************************)
CommitTx ==
    /\ tx.open /\ tx.todo = <<>>
    /\ rows' = tx.rows
    /\ outbox' = tx.outbox
    /\ lastSeq' = tx.lastSeq
    /\ tx' = IdleTx

(***************************************************************************)
(* Any other error, a panic in the closure, or a crash of the process: the *)
(* transaction is dropped, the file is untouched and the next closure      *)
(* recovers the poisoned mutex.                                            *)
(***************************************************************************)
RollbackTx ==
    /\ tx.open
    /\ tx' = IdleTx
    /\ UNCHANGED logVars

(***************************************************************************)
(* prune_before_inner runs as one statement on the same writer connection. *)
(***************************************************************************)
PruneBefore(floor, batch) ==
    /\ ~tx.open
    /\ Prune(floor, batch)
    /\ UNCHANGED tx

AnyPruneBefore ==
    \E floor \in 0..MaxSeq, batch \in 1..MaxSeq : PruneBefore(floor, batch)

Next ==
    \/ WriteApply
    \/ WriteApplyBatch
    \/ ApplyItem
    \/ RefuseItem
    \/ CommitTx
    \/ RollbackTx
    \/ AnyPruneBefore

(***************************************************************************)
(* No fairness: what is promised of this lane is what a transaction may    *)
(* leave behind.                                                           *)
(***************************************************************************)
Spec == Init /\ [][Next]_gpkgVars

-----------------------------------------------------------------------------
(***************************************************************************)
(* The committed file and the transaction in progress are well formed.     *)
(***************************************************************************)
TxTypeOK ==
    /\ tx.open \in BOOLEAN
    /\ tx.batch \in BOOLEAN
    /\ tx.strict \in BOOLEAN
    /\ tx.todo \in Seq(Mutation)
    /\ tx.done \in Seq(Mutation)
    /\ tx.rows \in [Features -> Stored]
    /\ tx.outbox \subseteq Obligation
    /\ tx.lastSeq \in Nat

TypeOK == LogTypeOK /\ TxTypeOK
=============================================================================
