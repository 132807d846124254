----------------------------- MODULE PostgisProofs -----------------------------
(***************************************************************************)
(* Proofs about PostgisWrites, for any number of writers, features and     *)
(* requests: optimistic locking holds, a row never changes without its     *)
(* obligation, for one feature the newest obligation describes the row,    *)
(* and the lane implements the contract ConcurrentOutbox.                  *)
(*                                                                         *)
(* What a handler knows of its row is only true as long as the row has the *)
(* xmin the handler has witnessed, so the invariant says it under that     *)
(* condition (Guarded).  The commits of others either leave the row alone  *)
(* or give it an xmin that no handler can have witnessed; and from the     *)
(* data statement on the row lock keeps the condition true.                *)
(***************************************************************************)
EXTENDS PostgisWrites, TLAPS

Pcs == {"idle", "witness", "check", "rebase", "prior", "stmt", "outbox", "commit"}

Handlers ==
    [pc : Pcs, todo : Seq(Item), pre : Precondition, batch : BOOLEAN, strict : BOOLEAN,
     witness : Nat, expected : Nat, prior : Stored, current : Stored,
     writes : [Features -> Stored \cup {Untouched}], owed : SUBSET Obligation]

(***************************************************************************)
(* Two transactions never hold the lock of the same row.                   *)
(***************************************************************************)
LocksExclude ==
    \A v, w \in Writers, f \in Features :
        v # w => req[v].writes[f] = Untouched \/ req[w].writes[f] = Untouched

RowsTyped ==
    /\ rows \in [Features -> [content : Stored, xmin : Nat]]
    /\ \A f \in Features :
          rows[f].xmin <= commits /\ (rows[f].xmin = 0 <=> rows[f].content = Absent)
    /\ commits \in Nat /\ nextSeq \in Nat \ {0}
    /\ outbox \subseteq Obligation
    /\ \A o \in outbox : o.seq < nextSeq

(***************************************************************************)
(* o is the newest obligation of its feature among obs that wrote the row. *)
(***************************************************************************)
IsLastWrite(obs, o) ==
    o.wrote /\ \A p \in obs : p.wrote /\ p.fid = o.fid /\ p # o => p.seq < o.seq

(***************************************************************************)
(* What the handler h owes for the rows it holds: each has a newest        *)
(* obligation that describes it, except the row of the item in progress,   *)
(* which is described by what the handler is about to insert.  While h     *)
(* holds the row nobody else's obligation for it can overtake.             *)
(***************************************************************************)
Writing(h, f) == h.pc = "outbox" /\ f = Head(h.todo).fid

Owes(h) ==
    /\ \A o \in h.owed : o.seq < nextSeq /\ (o.wrote => h.writes[o.fid] # Untouched)
    /\ \A o \in h.owed, p \in outbox :
          o.wrote /\ p.wrote /\ p.fid = o.fid => p.seq < o.seq
    /\ \A f \in Features : h.writes[f] # Untouched =>
          IF Writing(h, f) THEN h.current = h.writes[f]
          ELSE \E o \in h.owed : o.fid = f /\ o.current = h.writes[f] /\ IsLastWrite(h.owed, o)

(***************************************************************************)
(* Where h is in the request r it serves.                                  *)
(***************************************************************************)
Serves(h, r) ==
    /\ h.pre = r.pre /\ h.batch = r.batch
    /\ h.todo = <<>> <=> h.pc = "commit"
    /\ ~r.batch => h.todo \in {r.items, <<>>}
    /\ r.batch => h.expected = 0
                  /\ \A i \in 1..Len(h.todo) : h.todo[i].kind \in {"upsert", "delete"}
    /\ h.pc \in {"witness", "check", "rebase"} =>
          ~r.batch /\ h.writes = Fresh /\ h.owed = {}
    /\ h.pc \in {"witness", "check"} => h.expected = 0
    /\ h.pc = "prior" => Head(h.todo).kind \in {"upsert", "merge"}

(***************************************************************************)
(* What h knows of its row f, if the row still is as witnessed: its        *)
(* content meets the precondition, a PATCH is merged into it, and the      *)
(* prior extent is its own.                                                *)
(***************************************************************************)
Known(h, r, f) ==
    /\ rows[f].content \in r.pre.ok
    /\ r.items[1].kind = "merge" /\ h.pc # "rebase" =>
          h.current = Merge(rows[f].content, r.items[1].set)
    /\ h.pc = "outbox" \/ (h.pc = "stmt" /\ r.items[1].kind # "delete") =>
          h.prior = rows[f].content
    /\ \A o \in h.owed : o.prior = rows[f].content

(***************************************************************************)
(* What a request whose precondition is enforced may do and knows.         *)
(***************************************************************************)
Guarded(h, r) ==
    LET f == r.items[1].fid
    IN  /\ h.pc \notin {"witness", "check"}
        /\ r.items[1].kind # "insert"
        /\ \A g \in Features : h.writes[g] # Untouched =>
              /\ g = f /\ rows[f].xmin = h.expected
              /\ h.writes[f] = CASE r.items[1].kind = "upsert" -> Merge(Absent, r.items[1].set)
                                 [] r.items[1].kind = "merge" -> h.current
                                 [] r.items[1].kind = "delete" -> Absent
        /\ h.pc \in {"outbox", "commit"} => h.writes[f] # Untouched
        /\ h.pc # "commit" => h.owed = {}
        /\ \A o \in h.owed : o.fid = f
        /\ rows[f].xmin = h.expected => Known(h, r, f)

Sound(h) ==
    /\ h.witness <= commits /\ h.expected \in {0, h.witness}
    /\ h.pc = "idle" => h = Idle
    /\ Owes(h)
    /\ h.pc # "idle" => \E r \in Requests :
          Serves(h, r) /\ (h.expected # 0 => Guarded(h, r))

IInv ==
    /\ RowsTyped
    /\ req \in [Writers -> Handlers]
    /\ LocksExclude
    /\ \A w \in Writers : Sound(req[w])
    /\ LatestWriteAgreesWithRows

-----------------------------------------------------------------------------
(***************************************************************************)
(* The markers are no contents, and a merge of contents is one.            *)
(***************************************************************************)
LEMMA Sentinels ==
    /\ Untouched \notin Stored /\ Absent # Untouched
    /\ Absent \in Stored /\ Absent \notin Content
  BY SentinelAssumption DEF Stored, Absent, Untouched

LEMMA WholeFeature ==
    ASSUME NEW i \in Item, i.kind \in {"upsert", "insert"}
    PROVE  /\ Merge(Absent, i.set) \in Content
           /\ \A base : Merge(base, i.set) = Merge(Absent, i.set)
  BY DEF Item, Content, Merge

LEMMA MergeIsContent ==
    ASSUME NEW i \in Item, NEW base \in Content
    PROVE  Merge(base, i.set) \in Content
<1>1. CASE i.set \in Patch
  BY <1>1 DEF Patch, Content, Merge
<1>2. CASE i.set \in Content
  BY <1>2 DEF Content, Merge
<1> QED
  BY <1>1, <1>2 DEF Item

LEMMA ItemTyped ==
    ASSUME NEW i \in Item
    PROVE  i.fid \in Features /\ i.kind \in {"upsert", "insert", "delete", "merge"}
  BY DEF Item

LEMMA TodoTyped ==
    ASSUME NEW todo \in Seq(Item), todo # <<>>
    PROVE  /\ Head(todo) \in Item /\ Tail(todo) \in Seq(Item)
           /\ Head(todo) = todo[1] /\ Len(todo) >= 1
           /\ Len(Tail(todo)) = Len(todo) - 1
           /\ \A i \in 1..Len(Tail(todo)) : Tail(todo)[i] = todo[i + 1]
           /\ Len(todo) = 1 => Tail(todo) = <<>>
<1>1. ASSUME NEW s \in Seq(Item), Len(s) = 0
      PROVE  s = <<>>
  BY <1>1
<1>2. Tail(todo) \in Seq(Item) /\ Len(Tail(todo)) = Len(todo) - 1
  OBVIOUS
<1>3. ASSUME Len(todo) = 1
      PROVE  Tail(todo) = <<>>
  <2>1. PICK s : s = Tail(todo)
    OBVIOUS
  <2>2. s \in Seq(Item) /\ Len(s) = 0
    BY <1>2, <1>3, <2>1
  <2> QED
    BY <1>1, <2>1, <2>2
<1>4. Head(todo) \in Item /\ Head(todo) = todo[1] /\ Len(todo) >= 1
  OBVIOUS
<1>5. \A i \in 1..Len(Tail(todo)) : Tail(todo)[i] = todo[i + 1]
  OBVIOUS
<1> QED
  BY <1>2, <1>3, <1>4, <1>5

LEMMA NextPc ==
    ASSUME NEW todo \in Seq(Item)
    PROVE  /\ PcFor(todo) \in {"commit", "prior", "stmt"}
           /\ PcFor(todo) = "commit" <=> todo = <<>>
           /\ PcFor(todo) = "prior" => Head(todo).kind \in {"upsert", "merge"}
           /\ PcFor(todo) = "stmt" => Head(todo).kind \notin {"upsert", "merge"}
  BY DEF PcFor

LEMMA IdleIsSound ==
    ASSUME RowsTyped
    PROVE  Idle \in Handlers /\ Sound(Idle) /\ (\A f \in Features : Idle.writes[f] = Untouched)
<1>1. Fresh \in [Features -> Stored \cup {Untouched}] /\ \A f \in Features : Fresh[f] = Untouched
  BY DEF Fresh
<1>2. [kind |-> "none", ok |-> {}] \in Precondition /\ <<>> \in Seq(Item)
  BY DEF Precondition
<1>3. Idle \in Handlers
  BY <1>1, <1>2, Sentinels DEF Handlers, Idle, Pcs
<1>4. Owes(Idle)
  BY <1>1 DEF Owes, Idle
<1>5. Sound(Idle)
  BY <1>4 DEF Sound, Idle, RowsTyped
<1> QED
  BY <1>1, <1>3, <1>5 DEF Idle

LEMMA Initially == Init => IInv
<1> SUFFICES ASSUME Init PROVE IInv
  OBVIOUS
<1>1. RowsTyped
  BY Sentinels DEF Init, RowsTyped, NoRow
<1>2. Idle \in Handlers /\ Sound(Idle) /\ \A f \in Features : Idle.writes[f] = Untouched
  BY <1>1, IdleIsSound
<1>3. \A w \in Writers : req[w] = Idle
  BY DEF Init
<1>4. req \in [Writers -> Handlers]
  BY <1>2 DEF Init
<1>5. LatestWriteAgreesWithRows
  BY DEF Init, LatestWriteAgreesWithRows
<1> QED
  BY <1>1, <1>2, <1>3, <1>4, <1>5 DEF IInv, LocksExclude

-----------------------------------------------------------------------------
(***************************************************************************)
(* A handler stays as sound as it was while no transaction commits.        *)
(***************************************************************************)
LEMMA SoundStays ==
    ASSUME NEW g \in Handlers, Sound(g), RowsTyped, UNCHANGED <<rows, outbox, commits>>,
           nextSeq' \in Nat, nextSeq <= nextSeq'
    PROVE  Sound(g)'
<1>1. \A o \in g.owed : o.seq \in Nat
  BY DEF Handlers, Obligation
<1>2. Owes(g)'
  BY <1>1 DEF Sound, Owes, RowsTyped, Writing, IsLastWrite, Untouched
<1>3. ASSUME NEW r \in Requests, Serves(g, r), g.expected # 0 => Guarded(g, r)
      PROVE  (Serves(g, r) /\ (g.expected # 0 => Guarded(g, r)))'
  <2>1. Serves(g, r)'
    BY <1>3 DEF Serves, Fresh, Untouched
  <2>2. CASE g.expected # 0
    BY <1>3, <2>1, <2>2 DEF Guarded, Known, Merge, Untouched, Absent
  <2> QED
    BY <2>1, <2>2
<1>4. (g.pc = "idle" => g = Idle)'
  BY DEF Sound, Idle, Fresh, Untouched, Absent
<1> QED
  BY <1>2, <1>3, <1>4 DEF Sound

(***************************************************************************)
(* A step of one handler that commits nothing leaves the others as sound   *)
(* as they were; so it is enough to look at that handler.                  *)
(***************************************************************************)
LEMMA OwnStep ==
    ASSUME IInv, NEW w \in Writers, NEW h \in Handlers,
           req' = [req EXCEPT ![w] = h], UNCHANGED <<rows, outbox, commits>>,
           nextSeq' \in Nat, nextSeq <= nextSeq',
           \A f \in Features : h.writes[f] # Untouched =>
               req[w].writes[f] # Untouched \/ LockFree(w, f),
           Sound(h)'
    PROVE  IInv'
<1>1. /\ req' \in [Writers -> Handlers] /\ req'[w] = h
      /\ \A v \in Writers \ {w} : req'[v] = req[v]
  BY DEF IInv
<1>2. RowsTyped'
  <2>1. \A o \in outbox : o.seq \in Nat
    BY DEF IInv, RowsTyped, Obligation
  <2> QED
    BY <2>1 DEF IInv, RowsTyped, Obligation
<1>3. ASSUME NEW v \in Writers PROVE Sound(req[v])'
  <2>1. CASE v = w
    BY <1>1, <2>1
  <2>2. CASE v # w
    <3>1. req[v] \in Handlers /\ Sound(req[v]) /\ RowsTyped /\ req'[v] = req[v]
      BY <1>1, <2>2 DEF IInv
    <3>2. PICK g : g = req[v]
      OBVIOUS
    <3>3. Sound(g)'
      BY <3>1, <3>2, SoundStays
    <3> QED
      BY <3>1, <3>2, <3>3 DEF Sound
  <2> QED
    BY <2>1, <2>2
<1>4. LocksExclude'
  <2> SUFFICES ASSUME NEW u \in Writers, NEW v \in Writers, NEW f \in Features, u # v
               PROVE  req'[u].writes[f] = Untouched \/ req'[v].writes[f] = Untouched
    BY DEF LocksExclude
  <2> QED
    BY <1>1 DEF IInv, LocksExclude, LockFree
<1>5. LatestWriteAgreesWithRows'
  BY DEF IInv, LatestWriteAgreesWithRows
<1> QED
  BY <1>1, <1>2, <1>3, <1>4, <1>5 DEF IInv

(***************************************************************************)
(* The same for a step that draws no sequence and takes no lock.           *)
(***************************************************************************)
LEMMA QuietStep ==
    ASSUME IInv, NEW w \in Writers, NEW h \in Handlers, req' = [req EXCEPT ![w] = h],
           UNCHANGED <<rows, outbox, nextSeq, commits>>,
           \A f \in Features : h.writes[f] = Untouched \/ h.writes[f] = req[w].writes[f],
           Sound(h)'
    PROVE  IInv'
<1>1. nextSeq' \in Nat /\ nextSeq <= nextSeq'
  BY DEF IInv, RowsTyped
<1>2. UNCHANGED <<rows, outbox, commits>>
  OBVIOUS
<1>3. \A f \in Features : h.writes[f] # Untouched =>
          req[w].writes[f] # Untouched \/ LockFree(w, f)
  OBVIOUS
<1> QED
  BY <1>1, <1>2, <1>3, OwnStep

(***************************************************************************)
(* A handler that answers and gives up its transaction.                    *)
(***************************************************************************)
LEMMA Answers ==
    ASSUME IInv, NEW w \in Writers, Finish(w), UNCHANGED <<rows, outbox, nextSeq, commits>>
    PROVE  IInv'
<1>1. PICK h : h = Idle
  OBVIOUS
<1>2. RowsTyped /\ RowsTyped' /\ nextSeq \in Nat
  BY DEF IInv, RowsTyped
<1>3. h \in Handlers /\ \A f \in Features : h.writes[f] = Untouched
  BY <1>1, <1>2, IdleIsSound
<1>4. Sound(h)'
  <2>1. Owes(h)'
    BY <1>1, <1>3 DEF Owes, Idle
  <2> QED
    BY <1>1, <1>2, <2>1 DEF Sound, Idle, RowsTyped
<1>5. req' = [req EXCEPT ![w] = h]
  BY <1>1 DEF Finish
<1> QED
  BY <1>3, <1>4, <1>5, QuietStep

(***************************************************************************)
(* A step that leaves the handler's rows and obligations alone.            *)
(***************************************************************************)
LEMMA OwesKept ==
    ASSUME NEW g, NEW h, Owes(g), h.owed = g.owed, h.writes = g.writes,
           g.pc # "outbox", h.pc # "outbox", UNCHANGED <<outbox, nextSeq>>
    PROVE  Owes(h)'
  BY DEF Owes, Writing, IsLastWrite, Untouched

(***************************************************************************)
(* What is known of a handler at work: its item, and, while its            *)
(* precondition is enforced, that it is the only item of the request and   *)
(* that no row is held before the data statement.                          *)
(***************************************************************************)
LEMMA AtWork ==
    ASSUME IInv, NEW w \in Writers, req[w].pc # "idle"
    PROVE  /\ req[w] \in Handlers /\ Sound(req[w]) /\ Owes(req[w]) /\ RowsTyped
           /\ \E r \in Requests :
                 /\ Serves(req[w], r)
                 /\ req[w].expected # 0 => Guarded(req[w], r)
                 /\ r \in Request /\ Len(r.items) >= 1
                 /\ r.items[1] \in Item
                 /\ req[w].pc # "commit" =>
                       /\ req[w].todo # <<>> /\ ItemOf(w) \in Item
                       /\ ItemOf(w).fid \in Features
                       /\ ItemOf(w) = req[w].todo[1]
                       /\ ~r.batch => /\ req[w].todo = r.items
                                      /\ ItemOf(w) = r.items[1]
                                      /\ Tail(req[w].todo) = <<>>
                 /\ req[w].expected # 0 =>
                       /\ ~r.batch
                       /\ req[w].pc \in {"rebase", "prior", "stmt"} =>
                             \A f \in Features : req[w].writes[f] = Untouched
<1>1. req[w] \in Handlers /\ Sound(req[w]) /\ Owes(req[w]) /\ RowsTyped
  BY DEF IInv, Sound
<1>2. PICK r \in Requests : /\ Serves(req[w], r)
                            /\ req[w].expected # 0 => Guarded(req[w], r)
  BY <1>1 DEF Sound
<1>3. r \in Request /\ Len(r.items) >= 1 /\ (~r.batch => Len(r.items) = 1)
  BY <1>2, RequestsAssumption
<1>4. r.items[1] \in Item
  BY <1>3 DEF Request
<1>5. ASSUME req[w].pc # "commit"
      PROVE  /\ req[w].todo # <<>> /\ ItemOf(w) \in Item
             /\ ItemOf(w).fid \in Features
             /\ ItemOf(w) = req[w].todo[1]
             /\ ~r.batch => /\ req[w].todo = r.items
                            /\ ItemOf(w) = r.items[1]
                            /\ Tail(req[w].todo) = <<>>
  <2>1. req[w].todo # <<>> /\ req[w].todo \in Seq(Item)
    BY <1>1, <1>2, <1>5 DEF Serves, Handlers
  <2>2. ItemOf(w) \in Item /\ ItemOf(w) = req[w].todo[1]
    BY <2>1, TodoTyped DEF ItemOf
  <2>3. ItemOf(w).fid \in Features
    BY <2>2, ItemTyped
  <2>4. ASSUME ~r.batch
        PROVE  /\ req[w].todo = r.items /\ ItemOf(w) = r.items[1]
               /\ Tail(req[w].todo) = <<>>
    <3>1. req[w].todo = r.items
      BY <1>2, <2>1, <2>4 DEF Serves
    <3>2. Tail(req[w].todo) = <<>>
      BY <1>3, <2>1, <2>4, <3>1, TodoTyped
    <3> QED
      BY <2>2, <3>1, <3>2
  <2> QED
    BY <2>1, <2>2, <2>3, <2>4
<1>6. ASSUME req[w].expected # 0
      PROVE  /\ ~r.batch
             /\ req[w].pc \in {"rebase", "prior", "stmt"} =>
                   \A f \in Features : req[w].writes[f] = Untouched
  <2>1. ~r.batch
    BY <1>2, <1>6 DEF Serves
  <2>2. ASSUME req[w].pc \in {"rebase", "prior", "stmt"}, NEW f \in Features
        PROVE  req[w].writes[f] = Untouched
    BY <1>1, <1>2, <1>6, <2>2 DEF Owes, Guarded, Writing
  <2> QED
    BY <2>1, <2>2
<1> QED
  BY <1>1, <1>2, <1>3, <1>4, <1>5, <1>6

-----------------------------------------------------------------------------
LEMMA SubmitStep ==
    ASSUME IInv, NEW w \in Writers, NEW r \in Requests, Submit(w, r)
    PROVE  IInv'
<1>1. PICK h : h = [Idle EXCEPT !.todo = r.items, !.pre = r.pre,
                                !.batch = r.batch, !.strict = r.strict,
                                !.pc = IF r.pre.kind # "none" THEN "witness"
                                       ELSE IF Head(r.items).kind = "merge" THEN "check"
                                       ELSE PcFor(r.items)]
  OBVIOUS
<1>2. /\ r \in Request /\ Len(r.items) >= 1
      /\ ~r.batch => Len(r.items) = 1
      /\ r.batch => /\ r.pre.kind = "none"
                    /\ \A i \in 1..Len(r.items) : r.items[i].kind \in {"upsert", "delete"}
  BY RequestsAssumption
<1>3. /\ r.items \in Seq(Item) /\ r.items # <<>> /\ Head(r.items) = r.items[1]
      /\ r.pre \in Precondition /\ r.batch \in BOOLEAN /\ r.strict \in BOOLEAN
  BY <1>2 DEF Request
<1>4. /\ RowsTyped /\ Idle \in Handlers /\ Sound(Idle)
      /\ \A f \in Features : Idle.writes[f] = Untouched
  BY IdleIsSound DEF IInv
<1>5. /\ h.todo = r.items /\ h.pre = r.pre /\ h.batch = r.batch /\ h.strict = r.strict
      /\ h.witness = 0 /\ h.expected = 0 /\ h.writes = Fresh /\ h.owed = {}
      /\ h.prior = Idle.prior /\ h.current = Idle.current
      /\ h.pc = IF r.pre.kind # "none" THEN "witness"
                ELSE IF Head(r.items).kind = "merge" THEN "check" ELSE PcFor(r.items)
  BY <1>1 DEF Idle
<1>6. h.pc \in {"witness", "check", "prior", "stmt"} /\ (h.pc \in {"witness", "check"} => ~r.batch)
      /\ (h.pc = "prior" => Head(r.items).kind \in {"upsert", "merge"})
  BY <1>2, <1>3, <1>5, NextPc
<1>7. h \in Handlers
  BY <1>1, <1>3, <1>4, <1>6 DEF Handlers, Pcs, Idle
<1>8. Owes(h)'
  BY <1>5 DEF Owes, Fresh
<1>9. Serves(h, r)'
  BY <1>2, <1>3, <1>5, <1>6 DEF Serves
<1>10. commits' \in Nat /\ UNCHANGED <<rows, outbox, nextSeq, commits>> /\ nextSeq \in Nat
  BY <1>4 DEF Submit, RowsTyped
<1>11. Sound(h)'
  BY <1>5, <1>6, <1>8, <1>9, <1>10 DEF Sound
<1>12. req' = [req EXCEPT ![w] = h]
  BY <1>1 DEF Submit
<1>13. \A f \in Features : h.writes[f] = Untouched
  BY <1>5 DEF Fresh
<1> QED
  BY <1>7, <1>10, <1>11, <1>12, <1>13, QuietStep

LEMMA CaptureStep ==
    ASSUME IInv, NEW w \in Writers, CaptureRowVersion(w)
    PROVE  IInv'
<1>1. PICK g : g = req[w]
  OBVIOUS
<1>2. PICK h : h = [g EXCEPT !.witness = rows[FidOf(w)].xmin, !.pc = "check"]
  OBVIOUS
<1>3. g.pc = "witness" /\ g \in Handlers /\ Sound(g) /\ Owes(g) /\ RowsTyped
  BY <1>1, AtWork DEF CaptureRowVersion
<1>4. PICK r \in Requests : Serves(g, r) /\ FidOf(w) \in Features
  BY <1>1, <1>3, AtWork DEF FidOf
<1>5. rows[FidOf(w)].xmin \in Nat /\ rows[FidOf(w)].xmin <= commits
  BY <1>3, <1>4 DEF RowsTyped
<1>6. h \in Handlers
  BY <1>2, <1>3, <1>5 DEF Handlers, Pcs
<1>7. UNCHANGED <<rows, outbox, nextSeq, commits>> /\ nextSeq \in Nat
  BY <1>3 DEF CaptureRowVersion, RowsTyped
<1>8. /\ h.pc = "check" /\ h.witness = rows[FidOf(w)].xmin /\ h.expected = g.expected
      /\ h.writes = g.writes /\ h.owed = g.owed /\ h.todo = g.todo /\ h.pre = g.pre
      /\ h.batch = g.batch
  BY <1>2, <1>3 DEF Handlers
<1>9. Owes(h)'
  BY <1>3, <1>7, <1>8, OwesKept
<1>10. Serves(h, r)' /\ h.expected = 0
  BY <1>3, <1>4, <1>8 DEF Serves, Fresh, Untouched
<1>11. Sound(h)'
  BY <1>5, <1>7, <1>8, <1>9, <1>10 DEF Sound
<1>12. req' = [req EXCEPT ![w] = h]
  BY <1>1, <1>2, <1>3 DEF CaptureRowVersion, IInv, Handlers
<1>13. \A f \in Features : h.writes[f] = req[w].writes[f]
  BY <1>1, <1>8
<1> QED
  BY <1>6, <1>7, <1>11, <1>12, <1>13, QuietStep

LEMMA CheckStep ==
    ASSUME IInv, NEW w \in Writers, CheckPrecondition(w)
    PROVE  IInv'
<1>1. PICK g : g = req[w]
  OBVIOUS
<1>2. g.pc = "check" /\ g \in Handlers /\ Sound(g) /\ Owes(g) /\ RowsTyped
  BY <1>1, AtWork DEF CheckPrecondition
<1>3. UNCHANGED <<rows, outbox, nextSeq, commits>>
  BY DEF CheckPrecondition
<1>4. PICK c : c = rows[FidOf(w)].content
  OBVIOUS
<1>5. PICK e : e = IF Enforces(g.pre, c) THEN g.witness ELSE 0
  OBVIOUS
<1>6. PICK h : h = [g EXCEPT !.expected = e,
                             !.pc = IF ItemOf(w).kind = "merge" THEN "rebase" ELSE PcFor(g.todo)]
  OBVIOUS
<1>7. CASE Finish(w)
  BY <1>3, <1>7, Answers
<1>8. ASSUME ~(\/ ItemOf(w).kind = "merge" /\ c = Absent
               \/ Refuses(g.pre, c)
               \/ Enforces(g.pre, c) /\ g.witness = 0),
             req' = [req EXCEPT ![w] = h]
      PROVE  IInv'
  <2>1. PICK r \in Requests :
          /\ Serves(g, r) /\ r \in Request /\ r.items[1] \in Item
          /\ g.todo # <<>> /\ ItemOf(w) \in Item /\ ItemOf(w).fid \in Features
          /\ ~r.batch => ItemOf(w) = r.items[1]
          /\ r.pre.kind # "none" => r.items[1].kind # "insert"
    BY <1>1, <1>2, AtWork, RequestsAssumption
  <2>2. /\ h.expected = e /\ h.witness = g.witness /\ h.writes = g.writes
        /\ h.owed = g.owed /\ h.todo = g.todo /\ h.pre = g.pre /\ h.batch = g.batch
        /\ h.pc = IF ItemOf(w).kind = "merge" THEN "rebase" ELSE PcFor(g.todo)
    BY <1>2, <1>6 DEF Handlers
  <2>3. /\ ~r.batch /\ g.pre = r.pre /\ g.batch = r.batch
        /\ g.writes = Fresh /\ g.owed = {} /\ g.todo \in {r.items, <<>>}
        /\ g.todo \in Seq(Item) /\ ItemOf(w) = Head(g.todo)
    BY <1>1, <1>2, <2>1 DEF Serves, ItemOf, Handlers
  <2>4. /\ h.pc \in {"rebase", "prior", "stmt"}
        /\ h.pc = "rebase" <=> ItemOf(w).kind = "merge"
        /\ h.pc = "prior" => Head(g.todo).kind \in {"upsert", "merge"}
        /\ h.pc = "stmt" => Head(g.todo).kind \notin {"upsert", "merge"}
    BY <2>1, <2>2, <2>3, NextPc
  <2>5. g.witness \in Nat /\ g.witness <= commits
    BY <1>2 DEF Sound, Handlers
  <2>6. h \in Handlers /\ e \in {0, g.witness}
    BY <1>2, <1>5, <1>6, <2>2, <2>4, <2>5 DEF Handlers, Pcs
  <2>7. Owes(h)'
    BY <1>2, <1>3, <2>2, <2>4, OwesKept
  <2>8. Serves(h, r)'
    BY <2>1, <2>2, <2>3, <2>4 DEF Serves, Fresh, Untouched
  <2>9. ASSUME e # 0 PROVE Guarded(h, r)'
    <3>1. Enforces(g.pre, c) /\ ~Refuses(g.pre, c)
      BY <1>5, <1>8, <2>9
    <3>2. c \in r.pre.ok /\ r.pre.kind # "none"
      BY <1>2, <2>3, <3>1 DEF Enforces, Refuses, Handlers, Precondition
    <3>3. r.items[1].kind \notin {"insert"} /\ ItemOf(w) = r.items[1]
      BY <2>1, <2>3, <3>2
    <3>4. r.items[1].kind \in {"upsert", "insert", "delete", "merge"}
      BY <2>1, ItemTyped
    <3>5. h.pc = "stmt" => r.items[1].kind = "delete"
      BY <2>3, <2>4, <3>3, <3>4
    <3>6. rows' = rows /\ rows[r.items[1].fid].content = c
      BY <1>3, <1>4, <3>3 DEF FidOf
    <3>7. Known(h, r, r.items[1].fid)'
      BY <2>2, <2>3, <2>4, <3>2, <3>3, <3>5, <3>6 DEF Known
    <3>8. \A f \in Features : h.writes[f] = Untouched
      BY <2>2, <2>3 DEF Fresh
    <3> QED
      BY <2>2, <2>3, <2>4, <3>3, <3>7, <3>8 DEF Guarded, Untouched
  <2>10. Sound(h)'
    BY <1>3, <2>2, <2>4, <2>5, <2>6, <2>7, <2>8, <2>9 DEF Sound
  <2>11. \A f \in Features : h.writes[f] = req[w].writes[f]
    BY <1>1, <2>2
  <2> QED
    BY <1>3, <1>8, <2>6, <2>10, <2>11, QuietStep
<1> QED
  BY <1>1, <1>2, <1>4, <1>5, <1>6, <1>7, <1>8 DEF CheckPrecondition, IInv, Handlers

LEMMA RebaseStep ==
    ASSUME IInv, NEW w \in Writers, RebasePatch(w)
    PROVE  IInv'
<1>1. PICK g : g = req[w]
  OBVIOUS
<1>2. g.pc = "rebase" /\ g \in Handlers /\ Sound(g) /\ Owes(g) /\ RowsTyped
  BY <1>1, AtWork DEF RebasePatch
<1>3. UNCHANGED <<rows, outbox, nextSeq, commits>>
  BY DEF RebasePatch
<1>4. PICK c : c = rows[FidOf(w)].content
  OBVIOUS
<1>5. PICK h : h = [g EXCEPT !.current = Merge(c, ItemOf(w).set), !.pc = PcFor(g.todo)]
  OBVIOUS
<1>6. CASE Finish(w)
  BY <1>3, <1>6, Answers
<1>7. ASSUME c # Absent, req' = [req EXCEPT ![w] = h]
      PROVE  IInv'
  <2>1. PICK r \in Requests :
          /\ Serves(g, r) /\ (g.expected # 0 => Guarded(g, r))
          /\ g.todo # <<>> /\ ItemOf(w) \in Item /\ ItemOf(w).fid \in Features
          /\ ~r.batch => ItemOf(w) = r.items[1]
    BY <1>1, <1>2, AtWork
  <2>2. c \in Content
    BY <1>2, <1>4, <1>7, <2>1 DEF RowsTyped, FidOf, Stored
  <2>3. Merge(c, ItemOf(w).set) \in Stored
    BY <2>1, <2>2, MergeIsContent DEF Stored
  <2>4. /\ h.expected = g.expected /\ h.witness = g.witness /\ h.writes = g.writes
        /\ h.owed = g.owed /\ h.todo = g.todo /\ h.pre = g.pre /\ h.batch = g.batch
        /\ h.pc = PcFor(g.todo) /\ h.current = Merge(c, ItemOf(w).set)
    BY <1>2, <1>5 DEF Handlers
  <2>5. /\ ~r.batch /\ g.pre = r.pre /\ g.batch = r.batch
        /\ g.writes = Fresh /\ g.owed = {} /\ g.todo \in {r.items, <<>>}
        /\ g.todo \in Seq(Item) /\ ItemOf(w) = Head(g.todo)
    BY <1>1, <1>2, <2>1 DEF Serves, ItemOf, Handlers
  <2>6. /\ h.pc \in {"prior", "stmt"}
        /\ h.pc = "prior" => Head(g.todo).kind \in {"upsert", "merge"}
        /\ h.pc = "stmt" => Head(g.todo).kind \notin {"upsert", "merge"}
    BY <2>1, <2>4, <2>5, NextPc
  <2>7. h \in Handlers
    BY <1>2, <1>5, <2>3, <2>4, <2>6 DEF Handlers, Pcs
  <2>8. Owes(h)'
    BY <1>2, <1>3, <2>4, <2>6, OwesKept
  <2>9. Serves(h, r)'
    BY <2>1, <2>4, <2>5, <2>6 DEF Serves, Fresh, Untouched
  <2>10. ASSUME g.expected # 0 PROVE Guarded(h, r)'
    <3>1. Guarded(g, r) /\ ItemOf(w) = r.items[1]
      BY <2>1, <2>5, <2>10
    <3>2. r.items[1].kind \in {"upsert", "delete", "merge"}
      BY <2>1, <3>1, ItemTyped DEF Guarded
    <3>3. h.pc = "stmt" => r.items[1].kind = "delete"
      BY <2>5, <2>6, <3>1, <3>2
    <3>4. rows' = rows /\ rows[r.items[1].fid].content = c
      BY <1>3, <1>4, <3>1 DEF FidOf
    <3>5. Known(g, r, r.items[1].fid) => Known(h, r, r.items[1].fid)'
      BY <2>4, <2>5, <2>6, <3>1, <3>3, <3>4 DEF Known, Merge
    <3>6. \A f \in Features : h.writes[f] = Untouched
      BY <2>4, <2>5 DEF Fresh
    <3> QED
      BY <2>4, <2>5, <2>6, <3>1, <3>4, <3>5, <3>6 DEF Guarded, Untouched
  <2>11. Sound(h)'
    BY <1>2, <1>3, <2>4, <2>6, <2>1, <2>8, <2>9, <2>10 DEF Sound
  <2>12. \A f \in Features : h.writes[f] = req[w].writes[f]
    BY <1>1, <2>4
  <2> QED
    BY <1>3, <1>7, <2>7, <2>11, <2>12, QuietStep
<1> QED
  BY <1>1, <1>2, <1>4, <1>5, <1>6, <1>7 DEF RebasePatch, IInv, Handlers

LEMMA PriorStep ==
    ASSUME IInv, NEW w \in Writers, ReadPriorExtent(w)
    PROVE  IInv'
<1>1. PICK g : g = req[w]
  OBVIOUS
<1>2. g.pc = "prior" /\ g \in Handlers /\ Sound(g) /\ Owes(g) /\ RowsTyped
  BY <1>1, AtWork DEF ReadPriorExtent
<1>3. UNCHANGED <<rows, outbox, nextSeq, commits>>
  BY DEF ReadPriorExtent
<1>4. PICK h : h = [g EXCEPT !.prior = Visible(w, FidOf(w)), !.pc = "stmt"]
  OBVIOUS
<1>5. PICK r \in Requests :
        /\ Serves(g, r) /\ (g.expected # 0 => Guarded(g, r))
        /\ ItemOf(w).fid \in Features
        /\ ~r.batch => ItemOf(w) = r.items[1]
        /\ g.expected # 0 => ~r.batch /\ \A f \in Features : g.writes[f] = Untouched
  BY <1>1, <1>2, AtWork
<1>6. Visible(w, FidOf(w)) \in Stored
  BY <1>1, <1>2, <1>5 DEF Visible, FidOf, RowsTyped, Handlers
<1>7. /\ h.expected = g.expected /\ h.witness = g.witness /\ h.writes = g.writes
      /\ h.owed = g.owed /\ h.todo = g.todo /\ h.pre = g.pre /\ h.batch = g.batch
      /\ h.pc = "stmt" /\ h.current = g.current /\ h.prior = Visible(w, FidOf(w))
  BY <1>2, <1>4 DEF Handlers
<1>8. h \in Handlers
  BY <1>2, <1>4, <1>6 DEF Handlers, Pcs
<1>9. Owes(h)'
  BY <1>2, <1>3, <1>7, OwesKept
<1>10. Serves(h, r)'
  BY <1>2, <1>5, <1>7 DEF Serves
<1>11. ASSUME g.expected # 0 PROVE Guarded(h, r)'
  <2>1. /\ Guarded(g, r) /\ ItemOf(w) = r.items[1] /\ r.items[1].fid \in Features
        /\ \A f \in Features : g.writes[f] = Untouched
    BY <1>5, <1>11
  <2>2. h.prior = rows[r.items[1].fid].content /\ rows' = rows
    BY <1>1, <1>3, <1>7, <2>1 DEF Visible, FidOf
  <2>3. Known(g, r, r.items[1].fid) => Known(h, r, r.items[1].fid)'
    BY <1>2, <1>7, <2>2 DEF Known, Merge
  <2> QED
    BY <1>2, <1>7, <2>1, <2>2, <2>3 DEF Guarded, Untouched
<1>12. Sound(h)'
  BY <1>2, <1>3, <1>5, <1>7, <1>9, <1>10, <1>11 DEF Sound
<1>13. req' = [req EXCEPT ![w] = h]
  BY <1>1, <1>2, <1>4 DEF ReadPriorExtent, IInv, Handlers
<1>14. \A f \in Features : h.writes[f] = req[w].writes[f]
  BY <1>1, <1>7
<1> QED
  BY <1>3, <1>8, <1>12, <1>13, <1>14, QuietStep

(***************************************************************************)
(* A data statement that writes the row: the handler holds its lock, and   *)
(* what it is about to owe describes what it wrote.                        *)
(***************************************************************************)
LEMMA RowWritten ==
    ASSUME IInv, NEW w \in Writers, req[w].pc = "stmt",
           NEW to \in Stored, NEW was \in Stored,
           LockFree(w, FidOf(w)), WriteRow(w, FidOf(w), to, was),
           UNCHANGED <<rows, outbox, nextSeq, commits>>,
           req[w].expected # 0 =>
               /\ ItemOf(w).kind # "insert" /\ VersionMatches(w, FidOf(w))
               /\ ItemOf(w).kind = "upsert" => to = Merge(Absent, ItemOf(w).set)
               /\ ItemOf(w).kind = "merge" => to = req[w].current
               /\ ItemOf(w).kind = "delete" =>
                     to = Absent /\ was = Visible(w, FidOf(w))
               /\ ItemOf(w).kind # "delete" => was = req[w].prior
    PROVE  IInv'
<1>1. PICK g : g = req[w]
  OBVIOUS
<1>2. PICK k : k = FidOf(w)
  OBVIOUS
<1>3. g.pc = "stmt" /\ g \in Handlers /\ Sound(g) /\ Owes(g) /\ RowsTyped
  BY <1>1, AtWork
<1>4. PICK h : h = [g EXCEPT !.writes[k] = to, !.current = to, !.prior = was, !.pc = "outbox"]
  OBVIOUS
<1>5. PICK r \in Requests :
        /\ Serves(g, r) /\ (g.expected # 0 => Guarded(g, r))
        /\ k \in Features /\ ItemOf(w) \in Item /\ ItemOf(w) = Head(g.todo) /\ k = Head(g.todo).fid
        /\ ~r.batch => ItemOf(w) = r.items[1]
        /\ g.expected # 0 => ~r.batch /\ \A f \in Features : g.writes[f] = Untouched
  BY <1>1, <1>2, <1>3, AtWork DEF FidOf, ItemOf
<1>6. /\ h.expected = g.expected /\ h.witness = g.witness
      /\ h.writes = [g.writes EXCEPT ![k] = to]
      /\ h.owed = g.owed /\ h.todo = g.todo /\ h.pre = g.pre /\ h.batch = g.batch
      /\ h.pc = "outbox" /\ h.current = to /\ h.prior = was
  BY <1>3, <1>4 DEF Handlers
<1>7. /\ g.writes \in [Features -> Stored \cup {Untouched}] /\ to # Untouched
      /\ h.writes \in [Features -> Stored \cup {Untouched}]
      /\ h.writes[k] = to /\ \A f \in Features \ {k} : h.writes[f] = g.writes[f]
  BY <1>3, <1>5, <1>6, Sentinels DEF Handlers
<1>8. h \in Handlers
  BY <1>3, <1>4, <1>7 DEF Handlers, Pcs
<1>9. Owes(h)'
  <2>1. g.owed \subseteq Obligation /\ \A o \in g.owed : o.fid \in Features
    BY <1>3 DEF Handlers, Obligation
  <2>2. \A o \in h.owed : o.seq < nextSeq /\ (o.wrote => h.writes[o.fid] # Untouched)
    BY <1>3, <1>6, <1>7, <2>1 DEF Owes
  <2>3. \A f \in Features : Writing(h, f) <=> f = k
    BY <1>5, <1>6 DEF Writing
  <2>4. \A f \in Features : ~Writing(g, f)
    BY <1>3 DEF Writing
  <2>5. ASSUME NEW f \in Features, h.writes[f] # Untouched, f # k
        PROVE  \E o \in h.owed : o.fid = f /\ o.current = h.writes[f] /\ IsLastWrite(h.owed, o)
    BY <1>3, <1>6, <1>7, <2>4, <2>5 DEF Owes
  <2>6. nextSeq' = nextSeq /\ outbox' = outbox
    OBVIOUS
  <2> QED
    BY <1>3, <1>6, <1>7, <2>2, <2>3, <2>5, <2>6 DEF Owes, Writing, IsLastWrite, Untouched
<1>10. Serves(h, r)'
  BY <1>3, <1>5, <1>6 DEF Serves
<1>11. ASSUME g.expected # 0 PROVE Guarded(h, r)'
  <2>1. /\ Guarded(g, r) /\ ItemOf(w) = r.items[1] /\ r.items[1].fid = k
        /\ \A f \in Features : g.writes[f] = Untouched
    BY <1>5, <1>11
  <2>2. r.items[1].kind \in {"upsert", "delete", "merge"}
    BY <1>5, <2>1, ItemTyped DEF Guarded
  <2>3. rows' = rows /\ rows[k].xmin = g.expected
    BY <1>1, <1>2, <1>11 DEF VersionMatches
  <2>4. r.items[1].kind = "merge" => to = g.current
    BY <1>1, <1>11, <2>1
  <2>5. was = IF r.items[1].kind = "delete" THEN rows[k].content ELSE g.prior
    BY <1>1, <1>2, <1>5, <1>11, <2>1 DEF Visible
  <2>6. Known(g, r, k) => Known(h, r, k)'
    BY <1>3, <1>6, <2>3, <2>4, <2>5 DEF Known, Merge
  <2>7. h.writes[k] = CASE r.items[1].kind = "upsert" -> Merge(Absent, r.items[1].set)
                        [] r.items[1].kind = "merge" -> h.current
                        [] r.items[1].kind = "delete" -> Absent
    BY <1>1, <1>6, <1>7, <1>11, <2>1, <2>2
  <2>8. \A f \in Features : h.writes[f] # Untouched => f = k
    BY <1>7, <2>1
  <2>9. h.owed = {} /\ h.writes[k] # Untouched
    BY <1>3, <1>6, <1>7, <2>1 DEF Guarded
  <2>10. Known(g, r, k)
    BY <2>1, <2>3 DEF Guarded
  <2> QED
    BY <1>6, <2>1, <2>2, <2>3, <2>6, <2>7, <2>8, <2>9, <2>10 DEF Guarded, Untouched, Merge, Absent
<1>12. Sound(h)'
  BY <1>3, <1>5, <1>6, <1>9, <1>10, <1>11 DEF Sound
<1>13. req' = [req EXCEPT ![w] = h]
  BY <1>1, <1>2, <1>3, <1>4 DEF WriteRow, IInv, Handlers
<1>14. \A f \in Features : h.writes[f] # Untouched =>
           req[w].writes[f] # Untouched \/ LockFree(w, f)
  BY <1>1, <1>2, <1>7
<1>15. nextSeq' \in Nat /\ nextSeq <= nextSeq' /\ UNCHANGED <<rows, outbox, commits>>
  BY <1>3 DEF RowsTyped
<1> QED
  BY <1>8, <1>12, <1>13, <1>14, <1>15, OwnStep

LEMMA UpsertStep ==
    ASSUME IInv, NEW w \in Writers, Upsert(w)
    PROVE  IInv'
<1>1. PICK to : to = IF ItemOf(w).kind = "merge" THEN req[w].current
                     ELSE Merge(Absent, ItemOf(w).set)
  OBVIOUS
<1>2. /\ req[w].pc = "stmt" /\ ItemOf(w).kind \in {"upsert", "merge"}
      /\ UNCHANGED <<rows, outbox, nextSeq, commits>>
      /\ \/ Finish(w)
         \/ /\ VersionMatches(w, FidOf(w)) /\ LockFree(w, FidOf(w))
            /\ WriteRow(w, FidOf(w), to, req[w].prior)
  BY <1>1 DEF Upsert
<1>3. CASE Finish(w)
  BY <1>2, <1>3, Answers
<1>4. CASE /\ VersionMatches(w, FidOf(w)) /\ LockFree(w, FidOf(w))
           /\ WriteRow(w, FidOf(w), to, req[w].prior)
  <2>1. req[w] \in Handlers /\ ItemOf(w) \in Item
    BY <1>2, AtWork
  <2>2. to \in Stored /\ req[w].prior \in Stored
    BY <1>1, <1>2, <2>1, WholeFeature DEF Handlers, Stored
  <2>3. req[w].expected # 0 =>
               /\ ItemOf(w).kind # "insert" /\ VersionMatches(w, FidOf(w))
               /\ ItemOf(w).kind = "upsert" => to = Merge(Absent, ItemOf(w).set)
               /\ ItemOf(w).kind = "merge" => to = req[w].current
               /\ ItemOf(w).kind = "delete" =>
                     to = Absent /\ req[w].prior = Visible(w, FidOf(w))
               /\ ItemOf(w).kind # "delete" => req[w].prior = req[w].prior
    BY <1>1, <1>2, <1>4
  <2> QED
    BY <1>2, <1>4, <2>2, <2>3, RowWritten
<1> QED
  BY <1>2, <1>3, <1>4

LEMMA InsertStep ==
    ASSUME IInv, NEW w \in Writers, Insert(w)
    PROVE  IInv'
<1>1. PICK to : to = Merge(Absent, ItemOf(w).set)
  OBVIOUS
<1>2. /\ req[w].pc = "stmt" /\ ItemOf(w).kind = "insert" /\ LockFree(w, FidOf(w))
      /\ UNCHANGED <<rows, outbox, nextSeq, commits>>
      /\ Finish(w) \/ WriteRow(w, FidOf(w), to, Absent)
  BY <1>1 DEF Insert
<1>3. CASE Finish(w)
  BY <1>2, <1>3, Answers
<1>4. CASE WriteRow(w, FidOf(w), to, Absent)
  <2>1. PICK r \in Requests :
          /\ req[w] \in Handlers /\ ItemOf(w) \in Item
          /\ req[w].expected # 0 => Guarded(req[w], r) /\ ItemOf(w) = r.items[1]
    BY <1>2, AtWork
  <2>2. to \in Stored /\ Absent \in Stored
    BY <1>1, <1>2, <2>1, WholeFeature DEF Stored
  <2>3. req[w].expected = 0
    BY <1>2, <2>1 DEF Guarded
  <2> QED
    BY <1>2, <1>4, <2>2, <2>3, RowWritten
<1> QED
  BY <1>2, <1>3, <1>4

LEMMA DeleteStep ==
    ASSUME IInv, NEW w \in Writers, Delete(w)
    PROVE  IInv'
<1>1. PICK g : g = req[w]
  OBVIOUS
<1>2. PICK k : k = FidOf(w)
  OBVIOUS
<1>3. /\ g.pc = "stmt" /\ ItemOf(w).kind = "delete"
      /\ UNCHANGED <<rows, outbox, nextSeq, commits>>
  BY <1>1 DEF Delete
<1>4. g \in Handlers /\ Sound(g) /\ Owes(g) /\ RowsTyped
  BY <1>1, <1>3, AtWork
<1>5. PICK r \in Requests :
        /\ Serves(g, r)
        /\ k \in Features /\ k = Head(g.todo).fid
  BY <1>1, <1>2, <1>3, AtWork DEF FidOf, ItemOf
<1>6. Visible(w, k) \in Stored
  BY <1>1, <1>4, <1>5 DEF Visible, RowsTyped, Handlers
<1>7. CASE Finish(w)
  BY <1>3, <1>7, Answers
<1>8. CASE VersionMatches(w, k) /\ LockFree(w, k) /\ WriteRow(w, k, Absent, Visible(w, k))
  <2>1. Absent \in Stored
    BY DEF Stored
  <2>2. req[w].expected # 0 =>
               /\ ItemOf(w).kind # "insert" /\ VersionMatches(w, FidOf(w))
               /\ ItemOf(w).kind = "upsert" => Absent = Merge(Absent, ItemOf(w).set)
               /\ ItemOf(w).kind = "merge" => Absent = req[w].current
               /\ ItemOf(w).kind = "delete" =>
                     Absent = Absent /\ Visible(w, k) = Visible(w, FidOf(w))
               /\ ItemOf(w).kind # "delete" => Visible(w, k) = req[w].prior
    BY <1>2, <1>3, <1>8
  <2> QED
    BY <1>1, <1>2, <1>3, <1>6, <1>8, <2>1, <2>2, RowWritten
<1>9. ASSUME g.expected = 0, Visible(w, k) = Absent,
             req' = [req EXCEPT ![w].prior = Absent, ![w].current = Absent, ![w].pc = "outbox"]
      PROVE  IInv'
  <2>1. PICK h : h = [g EXCEPT !.prior = Absent, !.current = Absent, !.pc = "outbox"]
    OBVIOUS
  <2>2. /\ h.expected = 0 /\ h.witness = g.witness /\ h.writes = g.writes
        /\ h.owed = g.owed /\ h.todo = g.todo /\ h.pre = g.pre /\ h.batch = g.batch
        /\ h.pc = "outbox" /\ h.current = Absent
    BY <1>4, <1>9, <2>1 DEF Handlers
  <2>3. h \in Handlers
    BY <1>4, <2>1 DEF Handlers, Pcs, Stored
  <2>4. g.writes[k] \in {Untouched, Absent}
    BY <1>1, <1>9 DEF Visible
  <2>5. Owes(h)'
    <3>1. \A f \in Features : Writing(h, f) => h.writes[f] \in {Untouched, h.current}
      BY <1>5, <2>2, <2>4 DEF Writing
    <3>2. \A f \in Features : ~Writing(g, f)
      BY <1>3 DEF Writing
    <3>3. nextSeq' = nextSeq /\ outbox' = outbox
      BY <1>3
    <3> QED
      BY <1>4, <2>2, <3>1, <3>2, <3>3 DEF Owes, Writing, IsLastWrite, Untouched
  <2>6. Serves(h, r)'
    BY <1>3, <1>5, <2>2 DEF Serves
  <2>7. Sound(h)'
    BY <1>3, <1>4, <1>5, <2>2, <2>5, <2>6 DEF Sound
  <2>8. req' = [req EXCEPT ![w] = h]
    BY <1>1, <1>4, <1>9, <2>1 DEF IInv, Handlers
  <2>9. \A f \in Features : h.writes[f] = req[w].writes[f]
    BY <1>1, <2>2
  <2> QED
    BY <1>3, <2>3, <2>7, <2>8, <2>9, QuietStep
<1> QED
  BY <1>1, <1>2, <1>7, <1>8, <1>9 DEF Delete

LEMMA ObligationStep ==
    ASSUME IInv, NEW w \in Writers, InsertObligation(w)
    PROVE  IInv'
<1>1. PICK g : g = req[w]
  OBVIOUS
<1>2. PICK k : k = FidOf(w)
  OBVIOUS
<1>3. g.pc = "outbox" /\ g \in Handlers /\ Sound(g) /\ Owes(g) /\ RowsTyped
  BY <1>1, AtWork DEF InsertObligation
<1>4. PICK r \in Requests :
        /\ Serves(g, r) /\ (g.expected # 0 => Guarded(g, r))
        /\ g.todo # <<>> /\ k \in Features /\ k = Head(g.todo).fid
        /\ ~r.batch => Tail(g.todo) = <<>> /\ k = r.items[1].fid
        /\ g.expected # 0 => ~r.batch
  BY <1>1, <1>2, <1>3, AtWork DEF FidOf, ItemOf
<1>5. PICK o : o = [seq |-> nextSeq, fid |-> k, prior |-> g.prior, current |-> g.current,
                    wrote |-> g.writes[k] # Untouched]
  OBVIOUS
<1>6. PICK h : h = [g EXCEPT !.owed = g.owed \cup {o}, !.todo = Tail(g.todo),
                             !.pc = PcFor(Tail(g.todo))]
  OBVIOUS
<1>7. /\ h.expected = g.expected /\ h.witness = g.witness /\ h.writes = g.writes
      /\ h.owed = g.owed \cup {o} /\ h.todo = Tail(g.todo) /\ h.pre = g.pre
      /\ h.batch = g.batch /\ h.pc = PcFor(Tail(g.todo)) /\ h.current = g.current
  BY <1>3, <1>6 DEF Handlers
<1>8. /\ g.todo \in Seq(Item) /\ Tail(g.todo) \in Seq(Item)
      /\ Len(Tail(g.todo)) = Len(g.todo) - 1
      /\ \A i \in 1..Len(Tail(g.todo)) : Tail(g.todo)[i] = g.todo[i + 1]
      /\ Len(g.todo) >= 1 /\ Len(g.todo) \in Nat
  BY <1>3, <1>4, TodoTyped DEF Handlers
<1>9. /\ h.pc \in {"commit", "prior", "stmt"} /\ (h.pc = "commit" <=> h.todo = <<>>)
      /\ h.pc = "prior" => Head(h.todo).kind \in {"upsert", "merge"}
  BY <1>7, <1>8, NextPc
<1>10. o \in Obligation
  BY <1>3, <1>4, <1>5 DEF Obligation, RowsTyped, Handlers
<1>11. h \in Handlers
  BY <1>3, <1>6, <1>8, <1>9, <1>10 DEF Handlers, Pcs
<1>12. nextSeq' = nextSeq + 1 /\ outbox' = outbox /\ rows' = rows /\ commits' = commits
  BY DEF InsertObligation
<1>13. Owes(h)'
  <2>1. nextSeq \in Nat /\ \A p \in outbox : p.seq \in Nat /\ p.seq < nextSeq
    BY <1>3 DEF RowsTyped, Obligation
  <2>2. \A p \in g.owed : p.seq \in Nat /\ p.seq < nextSeq /\ (p.wrote => g.writes[p.fid] # Untouched)
    BY <1>3 DEF Handlers, Obligation, Owes
  <2>3. o.seq = nextSeq /\ o.fid = k /\ o.current = g.current /\ (o.wrote <=> g.writes[k] # Untouched)
    BY <1>5
  <2>4. ASSUME NEW p \in h.owed
        PROVE  p.seq < nextSeq + 1 /\ (p.wrote => h.writes[p.fid] # Untouched)
    <3>1. CASE p = o
      BY <1>7, <2>1, <2>3, <3>1
    <3>2. CASE p \in g.owed
      BY <1>7, <2>1, <2>2, <3>2
    <3> QED
      BY <1>7, <3>1, <3>2
  <2>5. \A p \in h.owed, q \in outbox :
            p.wrote /\ q.wrote /\ q.fid = p.fid => q.seq < p.seq
    BY <1>3, <1>7, <2>1, <2>3 DEF Owes
  <2>6. ASSUME NEW f \in Features, h.writes[f] # Untouched
        PROVE  \E p \in h.owed : p.fid = f /\ p.current = h.writes[f] /\ IsLastWrite(h.owed, p)
    <3>1. CASE f = k
      <4>1. Writing(g, k)
        BY <1>3, <1>4 DEF Writing
      <4>2. o.current = h.writes[f] /\ o.wrote /\ o.fid = f /\ o \in h.owed
        BY <1>3, <1>4, <1>7, <2>3, <2>6, <3>1, <4>1 DEF Owes
      <4>3. IsLastWrite(h.owed, o)
        BY <1>7, <2>2, <2>3, <4>2 DEF IsLastWrite
      <4> QED
        BY <4>2, <4>3
    <3>2. CASE f # k
      <4>1. ~Writing(g, f)
        BY <1>4, <3>2 DEF Writing
      <4>2. PICK p \in g.owed : p.fid = f /\ p.current = g.writes[f] /\ IsLastWrite(g.owed, p)
        BY <1>3, <1>7, <2>6, <4>1 DEF Owes
      <4>3. IsLastWrite(h.owed, p)
        BY <1>7, <2>3, <3>2, <4>2 DEF IsLastWrite
      <4> QED
        BY <1>7, <4>2, <4>3
    <3> QED
      BY <3>1, <3>2
  <2>7. \A f \in Features : ~Writing(h, f)
    BY <1>9 DEF Writing
  <2> QED
    BY <1>12, <2>4, <2>5, <2>6, <2>7 DEF Owes, Writing, IsLastWrite, Untouched
<1>14. Serves(h, r)'
  BY <1>4, <1>7, <1>8, <1>9 DEF Serves
<1>15. ASSUME g.expected # 0 PROVE Guarded(h, r)'
  <2>1. Guarded(g, r) /\ h.pc = "commit" /\ k = r.items[1].fid
    BY <1>4, <1>7, <1>9, <1>15
  <2>2. h.owed = {o} /\ o.fid = k /\ o.prior = g.prior
    BY <1>3, <1>5, <1>7, <2>1 DEF Guarded
  <2>3. Known(g, r, k) => Known(h, r, k)'
    BY <1>3, <1>7, <1>12, <2>1, <2>2 DEF Known, Merge
  <2> QED
    BY <1>3, <1>7, <1>12, <2>1, <2>2, <2>3 DEF Guarded, Untouched, Merge, Absent
<1>16. Sound(h)'
  BY <1>3, <1>4, <1>7, <1>9, <1>12, <1>13, <1>14, <1>15 DEF Sound
<1>17. req' = [req EXCEPT ![w] = h]
  BY <1>1, <1>2, <1>3, <1>5, <1>6 DEF InsertObligation, IInv, Handlers
<1>18. \A f \in Features : h.writes[f] # Untouched =>
           req[w].writes[f] # Untouched \/ LockFree(w, f)
  BY <1>1, <1>7
<1>19. nextSeq' \in Nat /\ nextSeq <= nextSeq' /\ UNCHANGED <<rows, outbox, commits>>
  BY <1>3, <1>12 DEF RowsTyped
<1> QED
  BY <1>11, <1>16, <1>17, <1>18, <1>19, OwnStep

LEMMA RefuseStep ==
    ASSUME IInv, NEW w \in Writers, RefuseItem(w)
    PROVE  IInv'
<1>1. PICK g : g = req[w]
  OBVIOUS
<1>2. /\ g.pc \in {"prior", "stmt"} /\ g.batch
      /\ UNCHANGED <<rows, outbox, nextSeq, commits>>
  BY <1>1 DEF RefuseItem
<1>3. g \in Handlers /\ Sound(g) /\ Owes(g) /\ RowsTyped
  BY <1>1, <1>2, AtWork
<1>4. PICK r \in Requests : Serves(g, r) /\ g.todo # <<>> /\ g.expected = 0 /\ r.batch
  BY <1>1, <1>2, AtWork DEF Serves
<1>5. PICK left : left = IF g.strict THEN <<>> ELSE Tail(g.todo)
  OBVIOUS
<1>6. PICK h : h = [g EXCEPT !.todo = left, !.pc = PcFor(left)]
  OBVIOUS
<1>7. /\ h.expected = 0 /\ h.witness = g.witness /\ h.writes = g.writes
      /\ h.owed = g.owed /\ h.todo = left /\ h.pre = g.pre
      /\ h.batch = g.batch /\ h.pc = PcFor(left)
  BY <1>3, <1>4, <1>6 DEF Handlers
<1>8. /\ g.todo \in Seq(Item) /\ Tail(g.todo) \in Seq(Item)
      /\ Len(Tail(g.todo)) = Len(g.todo) - 1
      /\ \A i \in 1..Len(Tail(g.todo)) : Tail(g.todo)[i] = g.todo[i + 1]
      /\ Len(g.todo) >= 1 /\ Len(g.todo) \in Nat
  BY <1>3, <1>4, TodoTyped DEF Handlers
<1>9. /\ left \in Seq(Item)
      /\ \A i \in 1..Len(left) : left[i].kind \in {"upsert", "delete"}
  <2>1. CASE g.strict
    BY <1>5, <2>1
  <2>2. CASE ~g.strict
    <3>1. \A i \in 1..Len(g.todo) : g.todo[i].kind \in {"upsert", "delete"}
      BY <1>4 DEF Serves
    <3>2. left = Tail(g.todo)
      BY <1>5, <2>2
    <3>3. \A i \in 1..Len(left) : i + 1 \in 1..Len(g.todo) /\ left[i] = g.todo[i + 1]
      BY <1>8, <3>2
    <3> QED
      BY <1>8, <3>1, <3>2, <3>3
  <2> QED
    BY <2>1, <2>2
<1>10. /\ h.pc \in {"commit", "prior", "stmt"} /\ (h.pc = "commit" <=> h.todo = <<>>)
       /\ h.pc = "prior" => Head(h.todo).kind \in {"upsert", "merge"}
  BY <1>7, <1>9, NextPc
<1>11. h \in Handlers
  BY <1>3, <1>6, <1>9, <1>10 DEF Handlers, Pcs
<1>12. Owes(h)'
  BY <1>2, <1>3, <1>7, <1>10, OwesKept
<1>13. Serves(h, r)'
  BY <1>4, <1>7, <1>9, <1>10 DEF Serves
<1>14. Sound(h)'
  BY <1>2, <1>3, <1>4, <1>7, <1>10, <1>12, <1>13 DEF Sound
<1>15. req' = [req EXCEPT ![w] = h]
  BY <1>1, <1>3, <1>5, <1>6 DEF RefuseItem, IInv, Handlers
<1>16. \A f \in Features : h.writes[f] = req[w].writes[f]
  BY <1>1, <1>7
<1> QED
  BY <1>2, <1>11, <1>14, <1>15, <1>16, QuietStep

-----------------------------------------------------------------------------
(***************************************************************************)
(* What a commit of g makes of the row f.                                  *)
(***************************************************************************)
LEMMA CommittedRow ==
    ASSUME IInv, NEW w \in Writers, Commit(w), NEW f \in Features
    PROVE  /\ req[w].writes[f] = Untouched => rows'[f] = rows[f]
           /\ req[w].writes[f] # Untouched =>
                 /\ rows'[f].content = req[w].writes[f]
                 /\ rows'[f].xmin \in {0, commits + 1}
                 /\ rows'[f].xmin = 0 <=> rows'[f].content = Absent
           /\ rows'[f] \in [content : Stored, xmin : Nat]
           /\ commits \in Nat /\ commits' = commits + 1
<1>1. PICK x : x = req[w].writes[f]
  OBVIOUS
<1>2. x \in Stored \cup {Untouched} /\ commits \in Nat /\ rows[f] \in [content : Stored, xmin : Nat]
  BY <1>1 DEF IInv, RowsTyped, Handlers
<1>3. rows'[f] = IF x = Untouched THEN rows[f]
                 ELSE IF x = Absent THEN NoRow ELSE [content |-> x, xmin |-> commits + 1]
  BY <1>1, Sentinels DEF Commit, Committed
<1>4. commits' = commits + 1
  BY DEF Commit
<1> QED
  BY <1>1, <1>2, <1>3, <1>4, Sentinels DEF NoRow

(***************************************************************************)
(* What a handler about to commit owes: a newest obligation for each row   *)
(* it wrote, newer than every committed one of that feature.               *)
(***************************************************************************)
LEMMA OwedAtCommit ==
    ASSUME IInv, NEW w \in Writers, req[w].pc = "commit", NEW f \in Features,
           req[w].writes[f] # Untouched
    PROVE  \E q \in req[w].owed :
             /\ q.fid = f /\ q.current = req[w].writes[f] /\ q.wrote
             /\ \A p \in req[w].owed : p.wrote /\ p.fid = f /\ p # q => p.seq < q.seq
             /\ \A p \in outbox : p.wrote /\ p.fid = f => p.seq < q.seq
             /\ q.seq \in Nat /\ q \notin outbox
<1>1. PICK g : g = req[w]
  OBVIOUS
<1>2. g \in Handlers /\ Owes(g) /\ g.pc = "commit" /\ g.writes[f] # Untouched
  BY <1>1, AtWork
<1>3. PICK q \in g.owed : q.fid = f /\ q.current = g.writes[f] /\ IsLastWrite(g.owed, q)
  BY <1>2 DEF Owes, Writing
<1>4. q.seq \in Nat
  BY <1>2, <1>3 DEF Handlers, Obligation
<1>5. \A p \in outbox : p.wrote /\ p.fid = f => p.seq < q.seq
  BY <1>2, <1>3 DEF Owes, IsLastWrite
<1>6. q \notin outbox
  BY <1>3, <1>4, <1>5 DEF IsLastWrite
<1> QED
  BY <1>1, <1>3, <1>4, <1>5, <1>6 DEF IsLastWrite

LEMMA CommitStep ==
    ASSUME IInv, NEW w \in Writers, Commit(w)
    PROVE  IInv'
<1>1. PICK g : g = req[w]
  OBVIOUS
<1>2. g.pc = "commit" /\ g \in Handlers /\ Owes(g) /\ RowsTyped
  BY <1>1, AtWork DEF Commit
<1>3. /\ commits \in Nat /\ commits' = commits + 1 /\ nextSeq' = nextSeq
      /\ outbox' = outbox \cup g.owed /\ req' = [req EXCEPT ![w] = Idle]
      /\ DOMAIN rows' = Features
  BY <1>1, <1>2 DEF Commit, Finish, RowsTyped
<1>4. \A f \in Features :
         /\ g.writes[f] = Untouched => rows'[f] = rows[f]
         /\ g.writes[f] # Untouched =>
               /\ rows'[f].content = g.writes[f]
               /\ rows'[f].xmin \in {0, commits + 1}
               /\ rows'[f].xmin = 0 <=> rows'[f].content = Absent
         /\ rows'[f] \in [content : Stored, xmin : Nat]
  BY <1>1, CommittedRow
<1>5. RowsTyped'
  <2>1. rows' \in [Features -> [content : Stored, xmin : Nat]]
    <3>1. rows' = [f \in Features |-> Committed(w, f)]
      BY DEF Commit
    <3>2. \A f \in Features : Committed(w, f) = rows'[f]
      BY <3>1
    <3> QED
      BY <1>4, <3>1, <3>2
  <2>2. ASSUME NEW f \in Features
        PROVE  rows'[f].xmin <= commits + 1 /\ (rows'[f].xmin = 0 <=> rows'[f].content = Absent)
    <3>1. rows[f].xmin \in Nat /\ rows[f].xmin <= commits
          /\ (rows[f].xmin = 0 <=> rows[f].content = Absent)
      BY <1>2 DEF RowsTyped
    <3>2. CASE g.writes[f] = Untouched
      BY <1>3, <1>4, <3>1, <3>2
    <3>3. CASE g.writes[f] # Untouched
      BY <1>3, <1>4, <3>3
    <3> QED
      BY <3>2, <3>3
  <2>3. outbox' \subseteq Obligation /\ \A o \in outbox' : o.seq < nextSeq'
    BY <1>2, <1>3 DEF RowsTyped, Owes, Handlers
  <2>4. commits' \in Nat /\ nextSeq' \in Nat \ {0}
    BY <1>2, <1>3 DEF RowsTyped
  <2>5. Obligation' = Obligation /\ Stored' = Stored /\ Absent' = Absent
    BY DEF Obligation, Stored, Absent, Content
  <2> QED
    BY <1>3, <2>1, <2>2, <2>3, <2>4, <2>5 DEF RowsTyped, Obligation, Stored, Absent, Content
<1>6. /\ Idle \in Handlers /\ Sound(Idle) /\ \A f \in Features : Idle.writes[f] = Untouched
  BY <1>2, IdleIsSound
<1>7. /\ req' \in [Writers -> Handlers] /\ req'[w] = Idle
      /\ \A v \in Writers \ {w} : req'[v] = req[v]
  BY <1>3, <1>6 DEF IInv
<1>8. LocksExclude'
  <2> SUFFICES ASSUME NEW u \in Writers, NEW v \in Writers, NEW f \in Features, u # v
               PROVE  req'[u].writes[f] = Untouched \/ req'[v].writes[f] = Untouched
    BY DEF LocksExclude, Untouched
  <2> QED
    BY <1>6, <1>7 DEF IInv, LocksExclude
<1>9. Sound(req[w])'
  <2>1. PICK h : h = Idle
    OBVIOUS
  <2>2. /\ h.pc = "idle" /\ h.owed = {} /\ h.witness = 0 /\ h.expected = 0
        /\ \A f \in Features : h.writes[f] = Untouched
    BY <1>6, <2>1 DEF Idle
  <2>3. Owes(h)'
    BY <2>2 DEF Owes, Untouched
  <2>4. (h.pc = "idle" => h = Idle)'
    BY <2>1 DEF Idle, Fresh, Untouched, Absent
  <2>5. Sound(h)'
    BY <1>3, <2>2, <2>3, <2>4 DEF Sound
  <2> QED
    BY <1>7, <2>1, <2>5 DEF Sound
<1>10. ASSUME NEW v \in Writers, v # w PROVE Sound(req[v])'
  <2>1. PICK u : u = req[v]
    OBVIOUS
  <2>2. u \in Handlers /\ Sound(u) /\ req'[v] = u
    BY <1>7, <1>10, <2>1 DEF IInv
  <2>3. \A f \in Features : u.writes[f] = Untouched \/ g.writes[f] = Untouched
    BY <1>1, <1>10, <2>1 DEF IInv, LocksExclude
  <2>4. Owes(u)'
    <3>1. Owes(u)
      BY <2>2 DEF Sound
    <3>2. \A p \in g.owed : p.fid \in Features /\ (p.wrote => g.writes[p.fid] # Untouched)
      BY <1>2 DEF Handlers, Obligation, Owes
    <3>3. \A o \in u.owed, p \in outbox' :
              o.wrote /\ p.wrote /\ p.fid = o.fid => p.seq < o.seq
      BY <1>3, <2>3, <3>1, <3>2 DEF Owes
    <3> QED
      BY <1>3, <3>1, <3>3 DEF Owes, Writing, IsLastWrite, Untouched
  <2>5. u.witness \in Nat /\ u.expected \in {0, u.witness} /\ u.witness <= commits
    BY <2>2 DEF Sound, Handlers
  <2>6. ASSUME NEW r \in Requests, Serves(u, r), u.expected # 0 => Guarded(u, r)
        PROVE  (Serves(u, r) /\ (u.expected # 0 => Guarded(u, r)))'
    <3>1. Serves(u, r)'
      BY <2>6 DEF Serves, Fresh, Untouched
    <3>2. ASSUME u.expected # 0 PROVE Guarded(u, r)'
      <4>1. PICK k : k = r.items[1].fid
        OBVIOUS
      <4>2. k \in Features
        <5>1. r \in Request /\ Len(r.items) >= 1
          BY RequestsAssumption
        <5>2. r.items[1] \in Item
          BY <5>1 DEF Request
        <5> QED
          BY <4>1, <5>2, ItemTyped
      <4>3. rows'[k].xmin = u.expected => rows'[k] = rows[k]
        BY <1>3, <1>4, <2>5, <3>2, <4>2
      <4>4. u.writes[k] # Untouched => rows'[k] = rows[k]
        BY <1>4, <2>3, <4>2
      <4>5. Guarded(u, r)
        BY <2>6, <3>2
      <4>6. rows'[k].xmin = u.expected => Known(u, r, k)'
        <5> SUFFICES ASSUME rows'[k].xmin = u.expected PROVE Known(u, r, k)'
          OBVIOUS
        <5>1. rows'[k] = rows[k] /\ Known(u, r, k)
          BY <4>1, <4>3, <4>5 DEF Guarded
        <5> QED
          BY <5>1 DEF Known, Merge
      <4> QED
        BY <4>1, <4>4, <4>5, <4>6 DEF Guarded, Untouched, Merge, Absent
    <3> QED
      BY <3>1, <3>2
  <2>7. (u.pc = "idle" => u = Idle)'
    BY <2>2 DEF Sound, Idle, Fresh, Untouched, Absent
  <2>8. Sound(u)'
    BY <1>3, <2>2, <2>4, <2>5, <2>6, <2>7 DEF Sound
  <2> QED
    BY <2>2, <2>8 DEF Sound
<1>11. LatestWriteAgreesWithRows'
  <2> SUFFICES ASSUME NEW o \in outbox', o.wrote,
                      \A p \in outbox' : p.wrote /\ p.fid = o.fid => p.seq <= o.seq
               PROVE  rows'[o.fid].content = o.current
    BY DEF LatestWriteAgreesWithRows
  <2>1. PICK f : f = o.fid
    OBVIOUS
  <2>2. o \in Obligation /\ f \in Features /\ o.seq \in Nat
    BY <1>5, <2>1 DEF RowsTyped, Obligation
  <2>3. CASE g.writes[f] = Untouched
    <3>1. o \in outbox
      BY <1>2, <1>3, <2>1, <2>3 DEF Owes
    <3>2. rows[f].content = o.current
      BY <1>3, <2>1, <3>1 DEF IInv, LatestWriteAgreesWithRows
    <3> QED
      BY <1>4, <2>1, <2>2, <2>3, <3>2
  <2>4. CASE g.writes[f] # Untouched
    <3>1. PICK q \in g.owed :
             /\ q.fid = f /\ q.current = g.writes[f] /\ q.wrote
             /\ \A p \in g.owed : p.wrote /\ p.fid = f /\ p # q => p.seq < q.seq
             /\ \A p \in outbox : p.wrote /\ p.fid = f => p.seq < q.seq
             /\ q.seq \in Nat
      BY <1>1, <1>2, <2>2, <2>4, OwedAtCommit
    <3>2. q.seq <= o.seq
      BY <1>3, <2>1, <3>1
    <3>3. o = q
      BY <1>3, <2>1, <2>2, <3>1, <3>2
    <3> QED
      BY <1>4, <2>1, <2>2, <2>4, <3>1, <3>3
  <2> QED
    BY <2>3, <2>4
<1> QED
  BY <1>5, <1>7, <1>8, <1>9, <1>10, <1>11 DEF IInv

-----------------------------------------------------------------------------
(***************************************************************************)
(* Every step of every handler keeps the invariant.                        *)
(***************************************************************************)
LEMMA Preserved == IInv /\ [Next]_vars => IInv'
<1> SUFFICES ASSUME IInv, [Next]_vars PROVE IInv'
  OBVIOUS
<1>1. CASE UNCHANGED vars
  <2>1. UNCHANGED <<rows, outbox, nextSeq, commits, req>>
    BY <1>1 DEF vars
  <2>2. RowsTyped /\ RowsTyped' /\ LatestWriteAgreesWithRows' /\ LocksExclude'
        /\ (req \in [Writers -> Handlers])'
    BY <2>1 DEF IInv, RowsTyped, LatestWriteAgreesWithRows, LocksExclude
  <2>3. ASSUME NEW w \in Writers PROVE Sound(req[w])'
    <3>1. PICK g : g = req[w]
      OBVIOUS
    <3>2. g \in Handlers /\ Sound(g) /\ nextSeq' \in Nat /\ nextSeq <= nextSeq'
      BY <2>1, <2>2, <3>1 DEF IInv, RowsTyped
    <3>3. UNCHANGED <<rows, outbox, commits>>
      BY <2>1
    <3>4. Sound(g)'
      BY <2>2, <3>2, <3>3, SoundStays
    <3> QED
      BY <2>1, <3>1, <3>4 DEF Sound
  <2> QED
    BY <2>2, <2>3 DEF IInv
<1>2. ASSUME NEW w \in Writers, NEW r \in Requests, Submit(w, r) PROVE IInv'
  BY <1>2, SubmitStep
<1>3. ASSUME NEW w \in Writers, Step(w) PROVE IInv'
  <2>1. CASE BreakDeadlock(w)
    BY <2>1, Answers DEF BreakDeadlock
  <2> QED
    BY <1>3, <2>1, CaptureStep, CheckStep, RebaseStep, PriorStep, UpsertStep, DeleteStep,
       InsertStep, ObligationStep, CommitStep DEF Step
<1>4. ASSUME NEW w \in Writers, RefuseItem(w) PROVE IInv'
  BY <1>4, RefuseStep
<1>5. ASSUME NEW w \in Writers, Rollback(w) PROVE IInv'
  BY <1>5, Answers DEF Rollback
<1> QED
  BY <1>1, <1>2, <1>3, <1>4, <1>5 DEF Next

(***************************************************************************)
(* The invariant of the write lane, however its transactions interleave.   *)
(***************************************************************************)
THEOREM PostgisInvariance == Spec => []IInv
  BY Initially, Preserved, PTL DEF Spec

(***************************************************************************)
(* Rows, obligations and handlers are well formed, no sequence or xmin is  *)
(* ahead of its counter, and only a missing row has no xmin.               *)
(***************************************************************************)
THEOREM TypeCorrect == Spec => []TypeOK
<1>1. IInv => TypeOK
  BY DEF IInv, RowsTyped, Handlers, Pcs, Sound, TypeOK
<1> QED
  BY <1>1, PostgisInvariance, PTL

(***************************************************************************)
(* For one feature sequence order is commit order, because the sequence is *)
(* drawn under the row lock: the newest obligation describes the row.      *)
(***************************************************************************)
THEOREM NewestObligationDescribesTheRow == Spec => []LatestWriteAgreesWithRows
<1>1. IInv => LatestWriteAgreesWithRows
  BY DEF IInv
<1> QED
  BY <1>1, PostgisInvariance, PTL

(***************************************************************************)
(* Only a commit changes rows.                                             *)
(***************************************************************************)
LEMMA OnlyCommitsChangeRows ==
    ASSUME [Next]_vars, rows' # rows
    PROVE  \E w \in Writers : Commit(w)
  BY DEF vars, Next, Step, Submit, CaptureRowVersion, CheckPrecondition, RebasePatch,
         ReadPriorExtent, Upsert, Delete, Insert, InsertObligation, RefuseItem, Rollback,
         BreakDeadlock

(***************************************************************************)
(* Data and obligation commit together: a row changes only in a step that  *)
(* also publishes an obligation for its new content, so that no reader of  *)
(* the outbox misses a change.                                             *)
(***************************************************************************)
EveryChangeIsOwed ==
    [][\A f \in Features : rows'[f] # rows[f] =>
          \E o \in outbox' \ outbox : o.fid = f /\ o.current = rows'[f].content]_vars

(***************************************************************************)
(* No change of a row goes without its obligation.                         *)
(***************************************************************************)
THEOREM NoChangeGoesUnowed == Spec => EveryChangeIsOwed
<1>1. ASSUME IInv, [Next]_vars, NEW f \in Features, rows'[f] # rows[f]
      PROVE  \E o \in outbox' \ outbox : o.fid = f /\ o.current = rows'[f].content
  <2>1. PICK w \in Writers : Commit(w)
    BY <1>1, OnlyCommitsChangeRows
  <2>2. req[w].writes[f] # Untouched /\ rows'[f].content = req[w].writes[f]
    BY <1>1, <2>1, CommittedRow
  <2>3. req[w].pc = "commit" /\ outbox' = outbox \cup req[w].owed
    BY <2>1 DEF Commit
  <2>4. PICK q \in req[w].owed : q.fid = f /\ q.current = req[w].writes[f] /\ q \notin outbox
    BY <1>1, <2>2, <2>3, OwedAtCommit
  <2> QED
    BY <2>2, <2>3, <2>4
<1>2. IInv /\ [Next]_vars =>
        [\A f \in Features : rows'[f] # rows[f] =>
            \E o \in outbox' \ outbox : o.fid = f /\ o.current = rows'[f].content]_vars
  BY <1>1
<1> QED
  BY <1>2, PostgisInvariance, PTL DEF Spec, EveryChangeIsOwed

(***************************************************************************)
(* A handler whose precondition was enforced and that is about to commit   *)
(* still knows the row it writes, because the row has the witnessed xmin   *)
(* and cannot lose it while the handler holds its lock.                    *)
(***************************************************************************)
LEMMA GuardedCommitKnows ==
    ASSUME IInv, NEW w \in Writers, req[w].pc = "commit", req[w].expected # 0
    PROVE  \E r \in Requests :
             /\ r.pre = req[w].pre /\ r.items[1] \in Item
             /\ Guarded(req[w], r) /\ Known(req[w], r, r.items[1].fid)
<1>1. PICK r \in Requests : /\ Serves(req[w], r) /\ Guarded(req[w], r)
                            /\ r.items[1] \in Item
  BY AtWork
<1>2. r.items[1].fid \in Features
  BY <1>1, ItemTyped
<1> QED
  BY <1>1, <1>2 DEF Serves, Guarded

(***************************************************************************)
(* Optimistic locking: an enforced precondition still holds for the row    *)
(* that the commit replaces.                                               *)
(***************************************************************************)
THEOREM OptimisticLocking == Spec => GuardedWriteReplacesWhatItChecked
<1>1. ASSUME IInv, NEW w \in Writers, Commits(w), req[w].expected # 0,
             NEW f \in Features, req[w].writes[f] # Untouched
      PROVE  rows[f].content \in req[w].pre.ok
  BY <1>1, GuardedCommitKnows DEF Commits, Guarded, Known
<1>2. IInv => [\A w \in Writers : Commits(w) /\ req[w].expected # 0 =>
                  \A f \in Features : req[w].writes[f] # Untouched =>
                      rows[f].content \in req[w].pre.ok]_vars
  BY <1>1
<1> QED
  BY <1>2, PostgisInvariance, PTL DEF GuardedWriteReplacesWhatItChecked

(***************************************************************************)
(* A guarded PATCH is the merge of its patch into the row it replaces,     *)
(* although base, check and write are three separate statements.           *)
(***************************************************************************)
THEOREM PatchKeepsTheRest == Spec => GuardedPatchKeepsTheRest
<1>1. ASSUME IInv, NEW w \in Writers, Commits(w), req[w].expected # 0,
             NEW f \in Features, req[w].writes[f] \notin {Untouched, Absent}
      PROVE  \E r \in Requests :
                /\ r.pre = req[w].pre /\ r.items[1].fid = f
                /\ req[w].writes[f] = Merge(rows[f].content, r.items[1].set)
  <2>1. req[w].pc = "commit"
    BY <1>1 DEF Commits
  <2>2. PICK r \in Requests :
             /\ r.pre = req[w].pre /\ r.items[1] \in Item
             /\ Guarded(req[w], r) /\ Known(req[w], r, r.items[1].fid)
    BY <1>1, <2>1, GuardedCommitKnows
  <2>3. /\ r.items[1].fid = f /\ r.items[1].kind # "insert"
        /\ r.items[1].kind = "upsert" => req[w].writes[f] = Merge(Absent, r.items[1].set)
        /\ r.items[1].kind = "merge" => req[w].writes[f] = req[w].current
        /\ r.items[1].kind = "delete" => req[w].writes[f] = Absent
    BY <1>1, <2>2 DEF Guarded
  <2>4. r.items[1].kind \in {"upsert", "merge"}
    BY <1>1, <2>2, <2>3, ItemTyped
  <2>5. CASE r.items[1].kind = "upsert"
    BY <2>2, <2>3, <2>5, WholeFeature
  <2>6. CASE r.items[1].kind = "merge"
    BY <2>1, <2>2, <2>3, <2>6 DEF Known
  <2> QED
    BY <2>4, <2>5, <2>6
<1>2. IInv => [\A w \in Writers : Commits(w) /\ req[w].expected # 0 =>
                  \A f \in Features : req[w].writes[f] \notin {Untouched, Absent} =>
                      \E r \in Requests :
                         /\ r.pre = req[w].pre /\ r.items[1].fid = f
                         /\ req[w].writes[f] = Merge(rows[f].content, r.items[1].set)]_vars
  BY <1>1
<1> QED
  BY <1>2, PostgisInvariance, PTL DEF GuardedPatchKeepsTheRest

(***************************************************************************)
(* The prior extent an enforced write owes to the tile cache is the extent *)
(* its commit replaces, although a SELECT of its own read it.              *)
(***************************************************************************)
THEOREM PriorIsWhatWasReplaced == Spec => GuardedPriorIsWhatWasReplaced
<1>1. ASSUME IInv, NEW w \in Writers, Commits(w), req[w].expected # 0, NEW o \in req[w].owed
      PROVE  o.prior = rows[o.fid].content
  BY <1>1, GuardedCommitKnows DEF Commits, Guarded, Known
<1>2. IInv => [\A w \in Writers : Commits(w) /\ req[w].expected # 0 =>
                  \A o \in req[w].owed : o.prior = rows[o.fid].content]_vars
  BY <1>1
<1> QED
  BY <1>2, PostgisInvariance, PTL DEF GuardedPriorIsWhatWasReplaced

-----------------------------------------------------------------------------
(***************************************************************************)
(* What the contract needs beyond IInv: a sequence is never drawn twice,   *)
(* be it by one transaction or by two, committed or not, and an obligation *)
(* that announces no change is the one of a delete that found nothing.     *)
(***************************************************************************)
DrawnOnce ==
    /\ \A o, p \in outbox : o.seq = p.seq => o = p
    /\ \A w \in Writers : \A o \in req[w].owed, p \in outbox : o.seq # p.seq
    /\ \A v, w \in Writers : \A o \in req[v].owed, p \in req[w].owed :
          o.seq = p.seq => v = w /\ o = p

IsTombstone(o) == o.wrote \/ o.current = Absent

OthersAreTombstones(h) ==
    /\ \A o \in h.owed : IsTombstone(o)
    /\ h.pc = "outbox" => h.writes[Head(h.todo).fid] # Untouched \/ h.current = Absent

CInv ==
    /\ IInv
    /\ DrawnOnce
    /\ \A w \in Writers : OthersAreTombstones(req[w])

(***************************************************************************)
(* A step that neither draws a sequence nor commits publishes nothing and  *)
(* owes nothing new; a handler it brings to its outbox INSERT has written  *)
(* the row of its item, or is deleting a feature that is not there.        *)
(***************************************************************************)
Unpublished(w) ==
    /\ UNCHANGED <<rows, outbox, nextSeq>>
    /\ req'[w].owed \subseteq req[w].owed
    /\ req'[w].pc = "outbox" =>
          \/ req'[w].writes[Head(req'[w].todo).fid] = req'[w].current
          \/ req'[w].current = Absent
    /\ \A v \in Writers \ {w} : req'[v] = req[v]

LEMMA Finishes ==
    ASSUME IInv, NEW w \in Writers, Finish(w), UNCHANGED <<rows, outbox, nextSeq>>
    PROVE  Unpublished(w)
<1>1. req'[w] = Idle /\ \A v \in Writers \ {w} : req'[v] = req[v]
  BY DEF IInv, Finish
<1> QED
  BY <1>1 DEF Unpublished, Idle

LEMMA Submits ==
    ASSUME IInv, NEW w \in Writers, NEW r \in Requests, Submit(w, r)
    PROVE  Unpublished(w)
<1>1. PICK h : h = req'[w]
  OBVIOUS
<1>2. h.owed = {} /\ h.pc \in {"witness", "check", PcFor(r.items)}
  BY <1>1 DEF Submit, IInv, Idle
<1>3. PcFor(r.items) # "outbox"
  BY DEF PcFor
<1> QED
  BY <1>1, <1>2, <1>3 DEF Submit, IInv, Unpublished

(***************************************************************************)
(* The steps before the data statement, and an item that is refused.       *)
(***************************************************************************)
LEMMA Preliminaries ==
    ASSUME IInv, NEW w \in Writers,
           \/ CaptureRowVersion(w) \/ CheckPrecondition(w) \/ RebasePatch(w)
           \/ ReadPriorExtent(w) \/ RefuseItem(w)
    PROVE  Unpublished(w)
<1>1. \A todo : PcFor(todo) # "outbox"
  BY DEF PcFor
<1>2. req[w] \in Handlers
  BY DEF IInv
<1>3. CASE CaptureRowVersion(w)
  BY <1>2, <1>3 DEF CaptureRowVersion, IInv, Handlers, Unpublished
<1>4. CASE CheckPrecondition(w)
  <2>1. CASE Finish(w)
    BY <1>4, <2>1, Finishes DEF CheckPrecondition
  <2>2. CASE ~Finish(w)
    <3>1. PICK x, pc : /\ req' = [req EXCEPT ![w].expected = x, ![w].pc = pc]
                       /\ pc \in {"rebase", PcFor(req[w].todo)}
      BY <1>4, <2>2 DEF CheckPrecondition
    <3>2. UNCHANGED <<rows, outbox, nextSeq>>
      BY <1>4 DEF CheckPrecondition
    <3>3. pc # "outbox"
      BY <1>1, <3>1
    <3>4. req'[w].owed = req[w].owed /\ req'[w].pc = pc
      BY <1>2, <3>1 DEF IInv, Handlers
    <3> QED
      BY <3>1, <3>2, <3>3, <3>4 DEF IInv, Unpublished
  <2> QED
    BY <2>1, <2>2
<1>5. CASE RebasePatch(w)
  <2>1. CASE Finish(w)
    BY <1>5, <2>1, Finishes DEF RebasePatch
  <2>2. CASE ~Finish(w)
    <3>1. PICK x : req' = [req EXCEPT ![w].current = x, ![w].pc = PcFor(req[w].todo)]
      BY <1>5, <2>2 DEF RebasePatch
    <3>2. UNCHANGED <<rows, outbox, nextSeq>>
      BY <1>5 DEF RebasePatch
    <3>3. req'[w].owed = req[w].owed /\ req'[w].pc = PcFor(req[w].todo)
      BY <1>2, <3>1 DEF IInv, Handlers
    <3> QED
      BY <1>1, <3>1, <3>2, <3>3 DEF IInv, Unpublished
  <2> QED
    BY <2>1, <2>2
<1>6. CASE ReadPriorExtent(w)
  BY <1>2, <1>6 DEF ReadPriorExtent, IInv, Handlers, Unpublished
<1>7. CASE RefuseItem(w)
  BY <1>1, <1>2, <1>7 DEF RefuseItem, IInv, Handlers, Unpublished
<1> QED
  BY <1>3, <1>4, <1>5, <1>6, <1>7

(***************************************************************************)
(* The data statements.                                                    *)
(***************************************************************************)
LEMMA WritesUnpublished ==
    ASSUME IInv, NEW w \in Writers, NEW to, NEW from, WriteRow(w, FidOf(w), to, from),
           FidOf(w) \in Features, UNCHANGED <<rows, outbox, nextSeq>>
    PROVE  Unpublished(w)
<1>1. PICK k \in Features : k = FidOf(w)
  OBVIOUS
<1>2. req[w] \in Handlers
  BY DEF IInv
<1>3. PICK h : h = [req[w] EXCEPT !.writes[k] = to, !.current = to, !.prior = from,
                                  !.pc = "outbox"]
  OBVIOUS
<1>4. /\ h.owed = req[w].owed /\ h.todo = req[w].todo /\ h.current = to
      /\ h.writes = [req[w].writes EXCEPT ![k] = to]
  BY <1>2, <1>3 DEF Handlers
<1>5. h.writes[k] = to
  BY <1>2, <1>4 DEF Handlers
<1>6. req'[w] = h /\ \A v \in Writers \ {w} : req'[v] = req[v]
  BY <1>1, <1>3 DEF WriteRow, IInv
<1>7. Head(h.todo).fid = k
  BY <1>1, <1>4 DEF FidOf, ItemOf
<1> QED
  BY <1>4, <1>5, <1>6, <1>7 DEF Unpublished

LEMMA DataStatements ==
    ASSUME IInv, NEW w \in Writers, Upsert(w) \/ Delete(w) \/ Insert(w)
    PROVE  Unpublished(w)
<1>1. req[w].pc = "stmt" /\ UNCHANGED <<rows, outbox, nextSeq>>
  BY DEF Upsert, Delete, Insert
<1>2. FidOf(w) \in Features /\ req[w] \in Handlers
  BY <1>1, AtWork DEF FidOf
<1>3. CASE Finish(w)
  BY <1>1, <1>3, Finishes
<1>4. CASE \E to, from : WriteRow(w, FidOf(w), to, from)
  BY <1>1, <1>2, <1>4, WritesUnpublished
<1>5. CASE req' = [req EXCEPT ![w].prior = Absent, ![w].current = Absent, ![w].pc = "outbox"]
  BY <1>1, <1>2, <1>5 DEF IInv, Handlers, Unpublished
<1>6. CASE Upsert(w)
  BY <1>3, <1>4, <1>6 DEF Upsert
<1>7. CASE Delete(w)
  BY <1>3, <1>4, <1>5, <1>7 DEF Delete
<1>8. CASE Insert(w)
  BY <1>3, <1>4, <1>8 DEF Insert
<1> QED
  BY <1>6, <1>7, <1>8

LEMMA StepKinds ==
    ASSUME IInv, Next
    PROVE  \E w \in Writers : Unpublished(w) \/ InsertObligation(w) \/ Commit(w)
<1>1. ASSUME NEW w \in Writers, NEW r \in Requests, Submit(w, r) PROVE Unpublished(w)
  BY <1>1, Submits
<1>2. ASSUME NEW w \in Writers, Step(w)
      PROVE  Unpublished(w) \/ InsertObligation(w) \/ Commit(w)
  <2>1. CASE BreakDeadlock(w)
    BY <2>1, Finishes DEF BreakDeadlock
  <2> QED
    BY <1>2, <2>1, Preliminaries, DataStatements DEF Step
<1>3. ASSUME NEW w \in Writers, RefuseItem(w) PROVE Unpublished(w)
  BY <1>3, Preliminaries
<1>4. ASSUME NEW w \in Writers, Rollback(w) PROVE Unpublished(w)
  BY <1>4, Finishes DEF Rollback
<1> QED
  BY <1>1, <1>2, <1>3, <1>4 DEF Next

-----------------------------------------------------------------------------
(***************************************************************************)
(* The sequence an outbox INSERT draws is above every one in use.          *)
(***************************************************************************)
LEMMA Drawn ==
    ASSUME IInv
    PROVE  /\ nextSeq \in Nat
           /\ \A o \in outbox : o.seq \in Nat /\ o.seq < nextSeq
           /\ \A w \in Writers : \A o \in req[w].owed : o.seq \in Nat /\ o.seq < nextSeq
<1>1. nextSeq \in Nat /\ \A o \in outbox : o.seq \in Nat /\ o.seq < nextSeq
  BY DEF IInv, RowsTyped, Obligation
<1>2. ASSUME NEW w \in Writers, NEW o \in req[w].owed PROVE o.seq \in Nat /\ o.seq < nextSeq
  BY <1>2 DEF IInv, Sound, Owes, Handlers, Obligation
<1> QED
  BY <1>1, <1>2

LEMMA UnpublishedKeeps ==
    ASSUME CInv, NEW w \in Writers, Unpublished(w), IInv'
    PROVE  CInv'
<1>1. \A v \in Writers : req'[v].owed \subseteq req[v].owed
  BY DEF Unpublished
<1>2. outbox' = outbox
  BY DEF Unpublished
<1>3. DrawnOnce'
  BY <1>1, <1>2 DEF CInv, DrawnOnce
<1>4. ASSUME NEW v \in Writers PROVE OthersAreTombstones(req[v])'
  <2>1. PICK h : h = req'[v]
    OBVIOUS
  <2>2. \A o \in h.owed : IsTombstone(o)
    BY <1>1, <2>1 DEF CInv, OthersAreTombstones
  <2>3. ASSUME h.pc = "outbox"
        PROVE  h.writes[Head(h.todo).fid] # Untouched \/ h.current = Absent
    <3>1. CASE v = w
      <4>1. h \in Handlers' /\ h.current \in Stored
        BY <2>1 DEF IInv, Handlers, Stored, Content, Absent
      <4>2. h.current # Untouched
        BY <4>1, Sentinels
      <4> QED
        BY <2>1, <2>3, <3>1, <4>2 DEF Unpublished
    <3>2. CASE v # w
      BY <2>1, <2>3, <3>2 DEF Unpublished, CInv, OthersAreTombstones
    <3> QED
      BY <3>1, <3>2
  <2> QED
    BY <2>1, <2>2, <2>3 DEF OthersAreTombstones, IsTombstone, Untouched, Absent
<1> QED
  BY <1>3, <1>4 DEF CInv

LEMMA DrawKeeps ==
    ASSUME CInv, NEW w \in Writers, InsertObligation(w), IInv'
    PROVE  CInv'
<1>1. req[w].pc = "outbox" /\ outbox' = outbox
  BY DEF InsertObligation
<1>2. req[w] \in Handlers /\ req[w].pc # "idle" /\ IInv
  BY <1>1 DEF CInv, IInv
<1>3. PICK o : o = [seq |-> nextSeq, fid |-> FidOf(w), prior |-> req[w].prior,
                    current |-> req[w].current,
                    wrote |-> req[w].writes[FidOf(w)] # Untouched]
  OBVIOUS
<1>4. /\ req'[w].owed = req[w].owed \cup {o} /\ req'[w].pc = PcFor(Tail(req[w].todo))
      /\ \A v \in Writers \ {w} : req'[v] = req[v]
  BY <1>2, <1>3 DEF InsertObligation, IInv, Handlers
<1>5. \A v \in Writers : req'[v].owed \subseteq req[v].owed \cup {o}
                         /\ (v # w => req'[v].owed = req[v].owed)
  BY <1>4
<1>6. o.seq = nextSeq
  BY <1>3
<1>7. DrawnOnce'
  <2>1. \A p, q \in outbox' : p.seq = q.seq => p = q
    BY <1>1 DEF CInv, DrawnOnce
  <2>2. ASSUME NEW v \in Writers, NEW p \in req'[v].owed, NEW q \in outbox'
        PROVE  p.seq # q.seq
    BY <1>1, <1>2, <1>5, <1>6, <2>2, Drawn DEF CInv, DrawnOnce
  <2>3. ASSUME NEW u \in Writers, NEW v \in Writers, NEW p \in req'[u].owed,
               NEW q \in req'[v].owed, p.seq = q.seq
        PROVE  u = v /\ p = q
    <3>1. CASE p = o /\ u = w
      <4>1. q \notin req[v].owed
        BY <1>2, <1>6, <2>3, <3>1, Drawn
      <4> QED
        BY <1>5, <2>3, <3>1, <4>1
    <3>2. CASE q = o /\ v = w
      <4>1. p \notin req[u].owed
        BY <1>2, <1>6, <2>3, <3>2, Drawn
      <4> QED
        BY <1>5, <2>3, <3>2, <4>1
    <3>3. CASE p \in req[u].owed /\ q \in req[v].owed
      BY <2>3, <3>3 DEF CInv, DrawnOnce
    <3> QED
      BY <1>4, <1>5, <2>3, <3>1, <3>2, <3>3
  <2> QED
    BY <2>1, <2>2, <2>3 DEF DrawnOnce
<1>8. ASSUME NEW v \in Writers PROVE OthersAreTombstones(req[v])'
  <2>1. PICK h : h = req'[v]
    OBVIOUS
  <2>2. IsTombstone(o)
    BY <1>1, <1>3 DEF CInv, OthersAreTombstones, IsTombstone, FidOf, ItemOf
  <2>3. \A p \in h.owed : IsTombstone(p)
    BY <1>5, <2>1, <2>2 DEF CInv, OthersAreTombstones
  <2>4. h.pc = "outbox" => h.writes[Head(h.todo).fid] # Untouched \/ h.current = Absent
    BY <1>4, <2>1 DEF CInv, OthersAreTombstones, PcFor
  <2> QED
    BY <2>1, <2>3, <2>4 DEF OthersAreTombstones, IsTombstone, Untouched, Absent
<1> QED
  BY <1>7, <1>8 DEF CInv

LEMMA PublishKeeps ==
    ASSUME CInv, NEW w \in Writers, Commit(w), IInv'
    PROVE  CInv'
<1>1. /\ outbox' = outbox \cup req[w].owed /\ req'[w] = Idle
      /\ \A v \in Writers \ {w} : req'[v] = req[v]
  BY DEF Commit, Finish, CInv, IInv
<1>2. Idle.owed = {} /\ Idle.pc = "idle"
  BY DEF Idle
<1>3. \A v \in Writers : req'[v].owed \subseteq req[v].owed /\ (v = w => req'[v].owed = {})
  BY <1>1, <1>2
<1>4. DrawnOnce'
  <2>1. ASSUME NEW p \in outbox', NEW q \in outbox', p.seq = q.seq PROVE p = q
    BY <1>1, <2>1 DEF CInv, DrawnOnce
  <2>2. ASSUME NEW v \in Writers, NEW p \in req'[v].owed, NEW q \in outbox' PROVE p.seq # q.seq
    BY <1>1, <1>3, <2>2 DEF CInv, DrawnOnce
  <2>3. ASSUME NEW u \in Writers, NEW v \in Writers, NEW p \in req'[u].owed,
               NEW q \in req'[v].owed, p.seq = q.seq
        PROVE  u = v /\ p = q
    BY <1>3, <2>3 DEF CInv, DrawnOnce
  <2> QED
    BY <2>1, <2>2, <2>3 DEF DrawnOnce
<1>5. ASSUME NEW v \in Writers PROVE OthersAreTombstones(req[v])'
  <2>1. PICK h : h = req'[v]
    OBVIOUS
  <2>2. /\ \A p \in h.owed : IsTombstone(p)
        /\ h.pc = "outbox" => h.writes[Head(h.todo).fid] # Untouched \/ h.current = Absent
    BY <1>1, <1>2, <2>1 DEF CInv, OthersAreTombstones
  <2> QED
    BY <2>1, <2>2 DEF OthersAreTombstones, IsTombstone, Untouched, Absent
<1> QED
  BY <1>4, <1>5 DEF CInv

LEMMA ContractInvariance == Spec => []CInv
<1>1. Init => CInv
  BY Initially DEF Init, CInv, DrawnOnce, OthersAreTombstones, Idle
<1>2. CInv /\ [Next]_vars => CInv'
  <2> SUFFICES ASSUME CInv, [Next]_vars PROVE CInv'
    OBVIOUS
  <2>1. IInv'
    BY Preserved DEF CInv
  <2>2. CASE Next
    <3>1. PICK w \in Writers : Unpublished(w) \/ InsertObligation(w) \/ Commit(w)
      BY <2>2, StepKinds DEF CInv
    <3> QED
      BY <2>1, <3>1, UnpublishedKeeps, DrawKeeps, PublishKeeps
  <2>3. CASE UNCHANGED vars
    <3>1. UNCHANGED <<outbox, req>>
      BY <2>3 DEF vars
    <3> QED
      BY <2>1, <3>1 DEF CInv, DrawnOnce, OthersAreTombstones, IsTombstone, Untouched, Absent
  <2> QED
    BY <2>2, <2>3
<1> QED
  BY <1>1, <1>2, PTL DEF Spec

(***************************************************************************)
(* A commit of the lane is a commit of the contract: its obligations have  *)
(* sequences of their own, follow their features' earlier ones and say     *)
(* what the rows became.                                                   *)
(***************************************************************************)
LEMMA CommitKeepsTheContract ==
    ASSUME CInv, NEW w \in Writers, Commit(w)
    PROVE  Contract!Next
<1> DEFINE new == outbox' \ outbox
<1>1. req[w].pc = "commit" /\ outbox' = outbox \cup req[w].owed /\ IInv
  BY DEF Commit, CInv
<1>2. Owes(req[w]) /\ req[w].owed \subseteq Obligation /\ outbox \subseteq Obligation
  BY <1>1, AtWork DEF Handlers, RowsTyped
<1>3. new = req[w].owed
  <2>1. \A o \in req[w].owed : o \notin outbox
    BY DEF CInv, DrawnOnce
  <2> QED
    BY <1>1, <2>1
<1>4. Contract!SequencesUnused(new)
  BY <1>3 DEF CInv, DrawnOnce, Contract!SequencesUnused
<1>5. Contract!InOrderPerFeature(new)
  BY <1>2, <1>3 DEF Owes, Contract!InOrderPerFeature, Contract!ChangesOf
<1>6. Contract!OthersAreTombstones(new)
  BY <1>3 DEF CInv, OthersAreTombstones, IsTombstone, Contract!OthersAreTombstones
<1>7. ASSUME NEW f \in Features PROVE Contract!After(new, f, Contents'[f])
  <2>1. Contents[f] = rows[f].content /\ Contents'[f] = rows'[f].content
    BY DEF Contents
  <2>2. CASE req[w].writes[f] = Untouched
    <3>1. Contract!ChangesOf(f, new) = {}
      BY <1>2, <1>3, <2>2 DEF Owes, Contract!ChangesOf
    <3>2. rows'[f] = rows[f]
      BY <1>1, <2>2, CommittedRow
    <3> QED
      BY <2>1, <3>1, <3>2 DEF Contract!After
  <2>3. CASE req[w].writes[f] # Untouched
    <3>1. PICK q \in req[w].owed :
             /\ q.fid = f /\ q.current = req[w].writes[f] /\ q.wrote
             /\ \A p \in req[w].owed : p.wrote /\ p.fid = f /\ p # q => p.seq < q.seq
      BY <1>1, <2>3, OwedAtCommit
    <3>2. rows'[f].content = q.current
      BY <1>1, <2>3, <3>1, CommittedRow
    <3> QED
      BY <1>3, <2>1, <3>1, <3>2 DEF Contract!After, Contract!ChangesOf
  <2> QED
    BY <2>2, <2>3
<1>8. DOMAIN Contents' = Features
  BY DEF Contents
<1>9. outbox' = outbox \cup new
  BY <1>1, <1>3
<1> QED
  BY <1>4, <1>5, <1>6, <1>7, <1>8, <1>9 DEF Contract!Next, Contract!Commit

(***************************************************************************)
(* The lane implements the outbox with concurrent writers, for any writers *)
(* and requests: its statements publish nothing, its commits keep the      *)
(* contract.                                                               *)
(***************************************************************************)
THEOREM ImplementsConcurrentOutbox == Spec => ContractSpec
<1>1. Init => Contract!Init
  BY DEF Init, Contract!Init, Contents, NoRow
<1>2. CInv /\ [Next]_vars => [Contract!Next]_Contract!contractVars
  <2> SUFFICES ASSUME CInv, [Next]_vars
               PROVE  Contract!Next \/ UNCHANGED Contract!contractVars
    OBVIOUS
  <2>1. ASSUME UNCHANGED <<rows, outbox>> PROVE UNCHANGED Contract!contractVars
    BY <2>1 DEF Contract!contractVars, Contents
  <2>2. CASE Next
    <3>1. PICK w \in Writers : Unpublished(w) \/ InsertObligation(w) \/ Commit(w)
      BY <2>2, StepKinds DEF CInv
    <3> QED
      BY <2>1, <3>1, CommitKeepsTheContract DEF Unpublished, InsertObligation
  <2> QED
    BY <2>1, <2>2 DEF vars
<1> QED
  BY <1>1, <1>2, ContractInvariance, PTL DEF Spec, ContractSpec, Contract!Spec
=============================================================================
