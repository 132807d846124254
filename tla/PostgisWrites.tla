---------------------------- MODULE PostgisWrites ----------------------------
(***************************************************************************)
(* The write lane of a PostGIS collection: the item handlers of            *)
(* tellurion-features (PUT, PATCH, DELETE, POST and the batch lane, with   *)
(* their If-Match / If-Unmodified-Since preconditions) down to the         *)
(* statements tellurion-postgis runs in one READ COMMITTED transaction.    *)
(*                                                                         *)
(* Every statement is a step of its own, so transactions of different      *)
(* writers interleave between statements.  A statement sees the committed  *)
(* rows plus its own transaction's writes; a write holds the row's lock    *)
(* until its transaction ends; the outbox sequence comes from a bigserial, *)
(* which is handed out at the INSERT and never given back.                 *)
(*                                                                         *)
(* Abstracted: request parsing, authorization, schema validation and CRS   *)
(* negotiation happen before the first step modelled here or refuse the    *)
(* request; the xmin of a row is a number unique to the commit that wrote  *)
(* it.                                                                     *)
(***************************************************************************)
EXTENDS Naturals, Sequences, FiniteSets

CONSTANTS
    Writers,      \* request handlers that can run at the same time
    Features,     \* feature ids
    Locs,         \* where a feature can be (its extent)
    Attrs,        \* the rest of a feature
    Requests,     \* the requests clients send
    MaxRequests   \* bound: requests submitted in one behaviour

Absent == [loc |-> "none", attr |-> "none"]

Content == [loc : Locs, attr : Attrs]

Stored == Content \cup {Absent}

(***************************************************************************)
(* A writer that has not touched a feature in its transaction.             *)
(***************************************************************************)
Untouched == [loc |-> "untouched", attr |-> "untouched"]

ASSUME SentinelAssumption == Absent \notin Content /\ Untouched \notin Content

(***************************************************************************)
(* What a PATCH names: the fields it overrides.                            *)
(***************************************************************************)
Patch ==
    {p \in UNION {[D -> Locs \cup Attrs] : D \in SUBSET {"loc", "attr"}} :
        /\ "loc" \in DOMAIN p => p["loc"] \in Locs
        /\ "attr" \in DOMAIN p => p["attr"] \in Attrs}

(***************************************************************************)
(* One mutation of a request.  upsert: INSERT ... ON CONFLICT DO UPDATE    *)
(* (an UPDATE when it is guarded); insert: the create lane's INSERT; both  *)
(* bring a whole feature.  merge: a PATCH, whose `set` overrides the       *)
(* fields it names.  A delete brings nothing.                              *)
(***************************************************************************)
Item ==
    [kind : {"upsert", "insert"}, fid : Features, set : Content]
        \cup [kind : {"delete", "merge"}, fid : Features, set : Patch]

(***************************************************************************)
(* The precondition headers: `ok` are the contents whose ETag If-Match     *)
(* lists (all of Content for a star), or whose stored timestamp meets      *)
(* If-Unmodified-Since.                                                    *)
(***************************************************************************)
Precondition == [kind : {"none", "ifMatch", "ifUnmodified"}, ok : SUBSET Content]

Request == [items : Seq(Item), pre : Precondition, batch : BOOLEAN, strict : BOOLEAN]

(***************************************************************************)
(* create_item reads no precondition headers, and a batch is made of       *)
(* upserts and deletes without any.                                        *)
(***************************************************************************)
ASSUME RequestsAssumption ==
    \A r \in Requests :
        /\ r \in Request
        /\ Len(r.items) >= 1
        /\ ~r.batch => Len(r.items) = 1
        /\ r.batch => /\ r.pre.kind = "none"
                      /\ \A i \in 1..Len(r.items) : r.items[i].kind \in {"upsert", "delete"}
        /\ r.pre.kind # "none" => r.items[1].kind # "insert"

VARIABLES
    rows,       \* committed rows: content and xmin
    outbox,     \* committed obligations
    nextSeq,    \* the bigserial's next value
    commits,    \* transactions committed so far: the source of fresh xmins
    submitted,  \* requests submitted so far
    req         \* what each writer is doing

vars == <<rows, outbox, nextSeq, commits, submitted, req>>

NoRow == [content |-> Absent, xmin |-> 0]

Fresh == [f \in Features |-> Untouched]

Idle == [pc |-> "idle", todo |-> <<>>, pre |-> [kind |-> "none", ok |-> {}],
         batch |-> FALSE, strict |-> FALSE, witness |-> 0, expected |-> 0,
         prior |-> Absent, current |-> Absent, writes |-> Fresh, owed |-> {}]

Init ==
    /\ rows = [f \in Features |-> NoRow]
    /\ outbox = {}
    /\ nextSeq = 1
    /\ commits = 0
    /\ submitted = 0
    /\ req = [w \in Writers |-> Idle]

-----------------------------------------------------------------------------
ItemOf(w) == Head(req[w].todo)

FidOf(w) == ItemOf(w).fid

(***************************************************************************)
(* What a statement of w's transaction sees of f under READ COMMITTED.     *)
(***************************************************************************)
Visible(w, f) ==
    IF req[w].writes[f] = Untouched THEN rows[f].content ELSE req[w].writes[f]

(* Faulty variant: a statement that does not wait for the row lock.        *)
NoRowLock(w, f) == TRUE

(***************************************************************************)
(* The row lock on f is free for w: no other open transaction wrote f.     *)
(***************************************************************************)
LockFree(w, f) == \A v \in Writers \ {w} : req[v].writes[f] = Untouched

(***************************************************************************)
(* apply_json_merge_patch: members of the patch replace, others stay.      *)
(***************************************************************************)
Merge(base, set) ==
    [loc  |-> IF "loc" \in DOMAIN set THEN set["loc"] ELSE base.loc,
     attr |-> IF "attr" \in DOMAIN set THEN set["attr"] ELSE base.attr]

(***************************************************************************)
(* Where a transaction goes for its next mutation: an upsert reads the     *)
(* prior extent first, a delete and an insert do not, and the last one is  *)
(* followed by the commit.                                                 *)
(***************************************************************************)
PcFor(todo) ==
    CASE todo = <<>> -> "commit"
      [] todo # <<>> /\ Head(todo).kind \in {"upsert", "merge"} -> "prior"
      [] OTHER -> "stmt"

Finish(w) == req' = [req EXCEPT ![w] = Idle]

-----------------------------------------------------------------------------
(***************************************************************************)
(* A request arrives.  A precondition is evaluated first; a PATCH always   *)
(* reads its target first; anything else opens its transaction.            *)
(***************************************************************************)
Submit(w, r) ==
    /\ req[w].pc = "idle"
    /\ submitted < MaxRequests
    /\ submitted' = submitted + 1
    /\ req' = [req EXCEPT ![w] =
                 [Idle EXCEPT !.todo = r.items, !.pre = r.pre,
                              !.batch = r.batch, !.strict = r.strict,
                              !.pc = IF r.pre.kind # "none" THEN "witness"
                                     ELSE IF Head(r.items).kind = "merge" THEN "check"
                                     ELSE PcFor(r.items)]]
    /\ UNCHANGED <<rows, outbox, nextSeq, commits>>

(***************************************************************************)
(* capture_row_version: the row's xmin, read before the representation     *)
(* that is compared.                                                       *)
(***************************************************************************)
CaptureRowVersion(w) ==
    /\ req[w].pc = "witness"
    /\ req' = [req EXCEPT ![w].witness = rows[FidOf(w)].xmin, ![w].pc = "check"]
    /\ UNCHANGED <<rows, outbox, nextSeq, commits, submitted>>

(***************************************************************************)
(* evaluate_write_preconditions_against: 412 for an If-Match on a missing  *)
(* target and for a validator that does not match; If-Unmodified-Since on  *)
(* a missing target enforces nothing.                                      *)
(***************************************************************************)
Refuses(pre, current) ==
    \/ pre.kind = "ifMatch" /\ current \notin pre.ok
    \/ pre.kind = "ifUnmodified" /\ current # Absent /\ current \notin pre.ok

Enforces(pre, current) == pre.kind # "none" /\ current # Absent

(***************************************************************************)
(* evaluate_write_preconditions and resolve_witness: one read of the       *)
(* target, its comparison, and the witness the write must re-verify.  A    *)
(* satisfied precondition without a witness means the target was created   *)
(* in between and is refused; a PATCH of a missing target is a 404.        *)
(***************************************************************************)
CheckPrecondition(w) ==
    /\ req[w].pc = "check"
    /\ LET r        == req[w]
           current  == rows[FidOf(w)].content
           missing  == ItemOf(w).kind = "merge" /\ current = Absent
           enforced == Enforces(r.pre, current)
       IN  IF missing \/ Refuses(r.pre, current) \/ (enforced /\ r.witness = 0)
           THEN Finish(w)
           ELSE req' = [req EXCEPT
                          ![w].expected = IF enforced THEN r.witness ELSE 0,
                          ![w].pc = IF ItemOf(w).kind = "merge" THEN "rebase"
                                    ELSE PcFor(r.todo)]
    /\ UNCHANGED <<rows, outbox, nextSeq, commits, submitted>>

(***************************************************************************)
(* patch_item's second read: the representation the patch is merged into.  *)
(***************************************************************************)
RebasePatch(w) ==
    /\ req[w].pc = "rebase"
    /\ LET base == rows[FidOf(w)].content
       IN  IF base = Absent THEN Finish(w)
           ELSE req' = [req EXCEPT ![w].current = Merge(base, ItemOf(w).set),
                                   ![w].pc = PcFor(req[w].todo)]
    /\ UNCHANGED <<rows, outbox, nextSeq, commits, submitted>>

(***************************************************************************)
(* run_write_transaction, first statement of an upsert: where the feature  *)
(* is before the statement that moves it.  A plain SELECT: no lock.        *)
(***************************************************************************)
ReadPriorExtent(w) ==
    /\ req[w].pc = "prior"
    /\ req' = [req EXCEPT ![w].prior = Visible(w, FidOf(w)), ![w].pc = "stmt"]
    /\ UNCHANGED <<rows, outbox, nextSeq, commits, submitted>>

(* Faulty variant: the write does not re-verify the witness.               *)
Unconditional(w, f) == TRUE

(***************************************************************************)
(* The guard of apply_conditional, evaluated by the database on the row it *)
(* is about to write.                                                      *)
(***************************************************************************)
VersionMatches(w, f) ==
    req[w].expected = 0 \/ (rows[f].content # Absent /\ rows[f].xmin = req[w].expected)

WriteRow(w, f, content, prior) ==
    req' = [req EXCEPT ![w].writes[f] = content, ![w].current = content,
                       ![w].prior = prior, ![w].pc = "outbox"]

(* Faulty variant: zero rows affected is not reported to the handler.      *)
UpsertIgnoringMismatch(w) ==
    /\ req[w].pc = "stmt" /\ ItemOf(w).kind \in {"upsert", "merge"}
    /\ LET f  == FidOf(w)
           to == IF ItemOf(w).kind = "merge" THEN req[w].current
                 ELSE Merge(Absent, ItemOf(w).set)
       IN  VersionMatches(w, f) /\ LockFree(w, f) /\ WriteRow(w, f, to, req[w].prior)
    /\ UNCHANGED <<rows, outbox, nextSeq, commits, submitted>>

(***************************************************************************)
(* The data statement of an upsert or a PATCH.  A guarded one that finds   *)
(* no row with the expected xmin rolls the transaction back (412).         *)
(***************************************************************************)
Upsert(w) ==
    /\ req[w].pc = "stmt" /\ ItemOf(w).kind \in {"upsert", "merge"}
    /\ LET f  == FidOf(w)
           to == IF ItemOf(w).kind = "merge" THEN req[w].current
                 ELSE Merge(Absent, ItemOf(w).set)
       IN  \/ ~VersionMatches(w, f) /\ Finish(w)
           \/ VersionMatches(w, f) /\ LockFree(w, f) /\ WriteRow(w, f, to, req[w].prior)
    /\ UNCHANGED <<rows, outbox, nextSeq, commits, submitted>>

(***************************************************************************)
(* The data statement of a delete; its RETURNING is the prior extent.  An  *)
(* unguarded delete that finds no row takes no lock and goes on.           *)
(***************************************************************************)
Delete(w) ==
    /\ req[w].pc = "stmt" /\ ItemOf(w).kind = "delete"
    /\ LET f == FidOf(w)
       IN  \/ ~VersionMatches(w, f) /\ Finish(w)
           \/ /\ VersionMatches(w, f) /\ Visible(w, f) # Absent /\ LockFree(w, f)
              /\ WriteRow(w, f, Absent, Visible(w, f))
           \/ /\ req[w].expected = 0 /\ Visible(w, f) = Absent
              /\ req' = [req EXCEPT ![w].prior = Absent, ![w].current = Absent,
                                    ![w].pc = "outbox"]
    /\ UNCHANGED <<rows, outbox, nextSeq, commits, submitted>>

(***************************************************************************)
(* run_create_transaction: the INSERT waits for a transaction that is      *)
(* writing the same key and fails on a key that is taken.                  *)
(***************************************************************************)
Insert(w) ==
    /\ req[w].pc = "stmt" /\ ItemOf(w).kind = "insert"
    /\ LockFree(w, FidOf(w))
    /\ IF Visible(w, FidOf(w)) = Absent
       THEN WriteRow(w, FidOf(w), Merge(Absent, ItemOf(w).set), Absent)
       ELSE Finish(w)
    /\ UNCHANGED <<rows, outbox, nextSeq, commits, submitted>>

(***************************************************************************)
(* The outbox INSERT ... RETURNING sequence.                               *)
(***************************************************************************)
InsertObligation(w) ==
    /\ req[w].pc = "outbox"
    /\ LET o == [seq |-> nextSeq, fid |-> FidOf(w), prior |-> req[w].prior,
                 current |-> req[w].current,
                 wrote |-> req[w].writes[FidOf(w)] # Untouched]
       IN  req' = [req EXCEPT ![w].owed = @ \cup {o}, ![w].todo = Tail(@),
                              ![w].pc = PcFor(Tail(req[w].todo))]
    /\ nextSeq' = nextSeq + 1
    /\ UNCHANGED <<rows, outbox, commits, submitted>>

(* Faulty variant: an item refused by its outbox INSERT keeps its row.     *)
RefuseWithoutSavepoint(w) ==
    /\ req[w].batch /\ req[w].pc \in {"prior", "stmt", "outbox"}
    /\ LET left == IF req[w].strict THEN <<>> ELSE Tail(req[w].todo)
       IN  req' = [req EXCEPT ![w].todo = left, ![w].pc = PcFor(left)]
    /\ UNCHANGED <<rows, outbox, nextSeq, commits, submitted>>

(***************************************************************************)
(* run_batch_transaction: an item refused by a deterministic error rolls   *)
(* back to its savepoint; a strict batch stops there and commits the rest. *)
(***************************************************************************)
RefuseItem(w) ==
    /\ req[w].batch /\ req[w].pc \in {"prior", "stmt"}
    /\ LET left == IF req[w].strict THEN <<>> ELSE Tail(req[w].todo)
       IN  req' = [req EXCEPT ![w].todo = left, ![w].pc = PcFor(left)]
    /\ UNCHANGED <<rows, outbox, nextSeq, commits, submitted>>

(***************************************************************************)
(* The row w's commit leaves behind: untouched, gone, or with a new xmin.  *)
(***************************************************************************)
Committed(w, f) ==
    CASE req[w].writes[f] = Untouched -> rows[f]
      [] req[w].writes[f] = Absent -> NoRow
      [] OTHER -> [content |-> req[w].writes[f], xmin |-> commits + 1]

(***************************************************************************)
(* tx.commit(): rows and obligations become visible together, the row      *)
(* locks are released.                                                     *)
(***************************************************************************)
Commit(w) ==
    /\ req[w].pc = "commit"
    /\ commits' = commits + 1
    /\ rows' = [f \in Features |-> Committed(w, f)]
    /\ outbox' = outbox \cup req[w].owed
    /\ Finish(w)
    /\ UNCHANGED <<nextSeq, submitted>>

InTransaction(w) == req[w].pc \in {"prior", "stmt", "outbox", "commit"}

(***************************************************************************)
(* Any other error, a lost connection or a crash of the server: the        *)
(* transaction rolls back; sequences it drew stay burnt.                   *)
(***************************************************************************)
Rollback(w) ==
    /\ InTransaction(w)
    /\ Finish(w)
    /\ UNCHANGED <<rows, outbox, nextSeq, commits, submitted>>

(***************************************************************************)
(* PostgreSQL's deadlock detector: when a set of transactions wait on each *)
(* other's row locks, one of them is made to fail.                         *)
(***************************************************************************)
WaitsFor(w, v) ==
    /\ req[w].pc = "stmt"
    /\ v # w /\ req[v].writes[FidOf(w)] # Untouched
    /\ ItemOf(w).kind = "delete" => Visible(w, FidOf(w)) # Absent

Deadlocked(w) ==
    \E S \in SUBSET Writers : w \in S /\ \A v \in S : \E u \in S : WaitsFor(v, u)

BreakDeadlock(w) ==
    /\ Deadlocked(w)
    /\ Finish(w)
    /\ UNCHANGED <<rows, outbox, nextSeq, commits, submitted>>

Step(w) ==
    \/ CaptureRowVersion(w)
    \/ CheckPrecondition(w)
    \/ RebasePatch(w)
    \/ ReadPriorExtent(w)
    \/ Upsert(w)
    \/ Delete(w)
    \/ Insert(w)
    \/ InsertObligation(w)
    \/ Commit(w)
    \/ BreakDeadlock(w)

Next ==
    \E w \in Writers :
        \/ \E r \in Requests : Submit(w, r)
        \/ Step(w)
        \/ RefuseItem(w)
        \/ Rollback(w)

Spec == Init /\ [][Next]_vars

(***************************************************************************)
(* Every statement that can run does run: the transaction is a spawned     *)
(* task that outlives its client, and PostgreSQL grants a free lock and    *)
(* breaks deadlocks.                                                       *)
(***************************************************************************)
FairSpec == Spec /\ \A w \in Writers : WF_vars(Step(w))

-----------------------------------------------------------------------------
Obligation ==
    [seq : Nat \ {0}, fid : Features, prior : Stored, current : Stored, wrote : BOOLEAN]

(***************************************************************************)
(* Rows, obligations and handlers are well formed, and no sequence or xmin *)
(* is ahead of its counter.                                                *)
(***************************************************************************)
TypeOK ==
    /\ \A f \in Features : /\ rows[f].content \in Stored
                           /\ rows[f].xmin \in 0..commits
                           /\ rows[f].xmin = 0 <=> rows[f].content = Absent
    /\ outbox \subseteq Obligation
    /\ \A o \in outbox : o.seq < nextSeq
    /\ \A w \in Writers :
          /\ req[w].pc \in {"idle", "witness", "check", "rebase", "prior", "stmt",
                            "outbox", "commit"}
          /\ req[w].writes \in [Features -> Stored \cup {Untouched}]
          /\ req[w].prior \in Stored /\ req[w].current \in Stored
          /\ req[w].witness \in 0..commits /\ req[w].expected \in {0, req[w].witness}
          /\ req[w].owed \subseteq Obligation

Commits(w) == req[w].pc = "commit" /\ req'[w].pc = "idle" /\ commits' # commits

(***************************************************************************)
(* Optimistic locking: a write whose precondition was enforced replaces    *)
(* the very content its validator was compared with, whatever other        *)
(* writers did between the check and the commit.                           *)
(***************************************************************************)
GuardedWriteReplacesWhatItChecked ==
    [][\A w \in Writers : Commits(w) /\ req[w].expected # 0 =>
          \A f \in Features : req[w].writes[f] # Untouched =>
              rows[f].content \in req[w].pre.ok]_vars

(***************************************************************************)
(* A guarded PATCH changes only the members the patch names: the merge     *)
(* base it read separately is still the stored row when it commits.        *)
(***************************************************************************)
GuardedPatchKeepsTheRest ==
    [][\A w \in Writers : Commits(w) /\ req[w].expected # 0 =>
          \A f \in Features : req[w].writes[f] \notin {Untouched, Absent} =>
              \E r \in Requests :
                 /\ r.pre = req[w].pre /\ r.items[1].fid = f
                 /\ req[w].writes[f] = Merge(rows[f].content, r.items[1].set)]_vars

(***************************************************************************)
(* The prior extent is read by a SELECT of its own, before the statement   *)
(* that moves the feature.  For a write whose precondition was enforced it *)
(* still is the extent that the commit replaces.                           *)
(***************************************************************************)
GuardedPriorIsWhatWasReplaced ==
    [][\A w \in Writers : Commits(w) /\ req[w].expected # 0 =>
          \A o \in req[w].owed : o.prior = rows[o.fid].content]_vars

(***************************************************************************)
(* The stored features, without their xmins, and the outbox are what the   *)
(* contract is about.                                                      *)
(***************************************************************************)
Contents == [f \in Features |-> rows[f].content]

Contract == INSTANCE ConcurrentOutbox WITH stored <- Contents

(***************************************************************************)
(* The lane keeps the contract of an outbox with concurrent writers: data  *)
(* and obligations commit together, every change is announced, by an       *)
(* obligation that says what the row became, no sequence is used twice,    *)
(* and one feature's obligations are in the order of its changes.          *)
(***************************************************************************)
ContractSpec == Contract!Spec

(***************************************************************************)
(* The sequence is drawn while the row lock is held, so for one feature    *)
(* sequence order is commit order: the newest obligation that wrote the    *)
(* row describes it.                                                       *)
(***************************************************************************)
LatestWriteAgreesWithRows ==
    \A o \in outbox :
        (o.wrote /\ \A p \in outbox : p.wrote /\ p.fid = o.fid => p.seq <= o.seq)
        => rows[o.fid].content = o.current

(***************************************************************************)
(* Every request is answered: no set of transactions waits forever.        *)
(***************************************************************************)
EveryRequestEnds == \A w \in Writers : req[w].pc # "idle" ~> req[w].pc = "idle"

-----------------------------------------------------------------------------
(***************************************************************************)
(* What outbox.rs says of Sequence and read_after: a later commit compares *)
(* greater than an earlier one, so a reader that resumes from the highest  *)
(* sequence it saw never skips an obligation.                              *)
(***************************************************************************)
CommitsAppendAbove ==
    [][\A o \in outbox' \ outbox, p \in outbox : o.seq > p.seq]_vars
=============================================================================
