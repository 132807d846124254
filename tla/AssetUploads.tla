------------------------------ MODULE AssetUploads ------------------------------
(***************************************************************************)
(* One asset key of a collection: its record in the database and its bytes *)
(* in the object store, under direct, resumable and presigned uploads and  *)
(* deletes (tellurion-core's asset.rs and objectstore.rs, the statements   *)
(* of tellurion-postgis's asset_sql.rs).  An operation reads the record,   *)
(* calls the object store and writes the record in separate steps that     *)
(* nothing holds together.                                                 *)
(*                                                                         *)
(* Bytes are sequences of chunks, a chunk a content and its position in    *)
(* it; two contents differ in every chunk.  A registration mints a new id, *)
(* and the id is the object's key.  A request that is refused before it    *)
(* calls anything leaves nothing and is no step.                           *)
(***************************************************************************)
EXTENDS Naturals, Sequences, FiniteSets

CONSTANTS
    Slots,        \* requests that may be under way together
    Contents,     \* what a client may declare, or send
    Settings      \* the deployments, and uses of them, that are considered

(***************************************************************************)
(* A setting is the kind of object store, the operations clients send,     *)
(* whether they wait for one another and whether they go away before their *)
(* answer; the chunks of a content; and the bounds, on registrations and   *)
(* on failures: failed calls, restarts, clients gone.                      *)
(***************************************************************************)
ASSUME AssetAssumption ==
    Settings \subseteq
        [profile : {"fs", "s3"}, operations : SUBSET STRING, alone : BOOLEAN, cancels : BOOLEAN,
         size : Nat \ {0}, records : Nat, failures : Nat]

VARIABLES
    setting,      \* the setting, which no step changes
    registered,   \* what each id was declared to be, in the order minted
    record,       \* the key's record: none, or one
    object,       \* per id, the object under its key: none, or one
    upload,       \* per id, the resumable upload: none, or one
    urls,         \* the ids a presigned URL was given out for
    slot,         \* per slot, the request under way
    halved,       \* ids whose object a delete removed, and the record not
    failures      \* failed calls, restarts and clients gone so far

assetVars == <<setting, registered, record, object, upload, urls, slot, halved, failures>>

Profile == setting.profile
Operations == setting.operations
Size == setting.size
Ids == 1..setting.records

Content(c) == [i \in 1..Size |-> <<c, i>>]
Vacant == [at |-> "idle"]

(* The key's record is a managed one, in state "pending".                  *)
Pending == \E r \in record : r.kind = "managed" /\ r.state = "pending"
Id == (CHOOSE r \in record : TRUE).id

AssetInit ==
    /\ setting \in Settings
    /\ registered = <<>> /\ record = {} /\ urls = {} /\ halved = {} /\ failures = 0
    /\ object = [i \in Ids |-> {}] /\ upload = [i \in Ids |-> {}]
    /\ slot = [s \in Slots |-> Vacant]

(* The step of slot s, to what is next.                                    *)
To(s, next) == slot' = [slot EXCEPT ![s] = next]
Done(s) == To(s, Vacant)
Goes(s, at) == To(s, [slot[s] EXCEPT !.at = at])
Fault == failures < setting.failures /\ failures' = failures + 1
Quiet == UNCHANGED failures

(* A completion that ends releases the hold on the id it began with.       *)
Ends(s) == IF slot[s].began = 0 THEN Done(s) ELSE Goes(s, "release")

-----------------------------------------------------------------------------
(* Registration and deletion.                                              *)

(* register_managed, register_remote: no record yet, when it is read.      *)
ReadToRegister(s) ==
    /\ record = {} /\ \E k \in {"managed", "remote"} : To(s, [at |-> "register", kind |-> k])
    /\ UNCHANGED <<registered, record, object, upload, urls, halved, failures>>

(* INSERT, refused by the unique key when another one was first.           *)
Register(s) ==
    /\ slot[s].at = "register" /\ Done(s) /\ Len(registered) < setting.records
    /\ IF record # {} THEN UNCHANGED <<registered, record>>
       ELSE \E c \in Contents :
              /\ registered' = Append(registered, c)
              /\ record' = {[id |-> Len(registered) + 1, kind |-> slot[s].kind,
                             state |-> IF slot[s].kind = "managed" THEN "pending" ELSE "available"]}
    /\ UNCHANGED <<object, upload, urls, halved, failures>>

(* delete_asset: the object first, and then whatever record the key has.   *)
ReadToDelete(s) ==
    /\ \E r \in record :
         To(s, [at |-> IF r.kind = "managed" THEN "erase" ELSE "remove", id |-> r.id])
    /\ UNCHANGED <<registered, record, object, upload, urls, halved, failures>>

Erase(s) ==
    /\ slot[s].at = "erase"
    /\ \/ Quiet /\ object' = [object EXCEPT ![slot[s].id] = {}] /\ Goes(s, "remove")
       \/ Fault /\ Done(s) /\ object' \in {object, [object EXCEPT ![slot[s].id] = {}]}
    /\ halved' = IF slot'[s] = Vacant /\ object'[slot[s].id] = {} THEN halved \cup {slot[s].id} ELSE halved
    /\ UNCHANGED <<registered, record, upload, urls>>

Remove(s) ==
    /\ slot[s].at = "remove" /\ Done(s)
    /\ \/ Quiet /\ record' = {} /\ UNCHANGED halved
       \/ Fault /\ record' \in {{}, record} /\ halved' = halved \cup {slot[s].id}
    /\ UNCHANGED <<registered, object, upload, urls>>

-----------------------------------------------------------------------------
(* finish_upload, with the bytes in hand.                                  *)

(* complete_upload: the direct transport, with a body of the client's.     *)
PutData(s) ==
    /\ \E c \in Contents :
         To(s, [at |-> "read", bytes |-> Content(c), committed |-> FALSE, began |-> 0])
    /\ UNCHANGED <<registered, record, object, upload, urls, halved, failures>>

(* Faulty variant: the digest declared when the completion began.          *)
ReadButNotTheDigest(s) ==
    /\ slot[s].at = "read"
    /\ LET began == IF slot[s].began = 0 THEN Id ELSE slot[s].began
       IN  IF ~Pending THEN Ends(s)
           ELSE To(s, [at |-> IF slot[s].bytes # Content(registered[began]) THEN "cleanup"
                              ELSE IF slot[s].committed THEN "available" ELSE "store",
                       id |-> Id, bytes |-> slot[s].bytes, began |-> slot[s].began])
    /\ UNCHANGED <<registered, record, object, upload, urls, halved, failures>>

ReadRecord(s) ==
    /\ slot[s].at = "read"
    /\ IF ~Pending THEN Ends(s)
       ELSE To(s, [at |-> IF slot[s].bytes # Content(registered[Id]) THEN "cleanup"
                          ELSE IF slot[s].committed THEN "available" ELSE "store",
                   id |-> Id, bytes |-> slot[s].bytes, began |-> slot[s].began])
    /\ UNCHANGED <<registered, record, object, upload, urls, halved, failures>>

(* A mismatch: the object is deleted, and a failure of that is swallowed.  *)
CleanUp(s) ==
    /\ slot[s].at = "cleanup" /\ Goes(s, "failed")
    /\ \/ Quiet /\ object' = [object EXCEPT ![slot[s].id] = {}]
       \/ Fault /\ object' \in {object, [object EXCEPT ![slot[s].id] = {}]}
    /\ UNCHANGED <<registered, record, upload, urls, halved>>

(* What a write that fails leaves: fs truncates the file and fills it up,  *)
(* s3 replaces the object whole or not at all, and may have done so.       *)
CutShort(before, bytes) ==
    {before, {bytes}}
        \cup (IF Profile = "fs" THEN {{SubSeq(bytes, 1, n)} : n \in 0..(Size - 1)} ELSE {})

(* Faulty variant: available although the write failed.                    *)
StoreOrNot(s) ==
    /\ slot[s].at = "store" /\ Goes(s, "available")
    /\ LET i == slot[s].id
       IN  \/ Quiet /\ object' = [object EXCEPT ![i] = {slot[s].bytes}]
           \/ /\ Fault
              /\ \E left \in CutShort(object[i], slot[s].bytes) : object' = [object EXCEPT ![i] = left]
    /\ UNCHANGED <<registered, record, upload, urls, halved>>

StoreObject(s) ==
    /\ slot[s].at = "store"
    /\ LET i == slot[s].id
       IN  \/ Quiet /\ object' = [object EXCEPT ![i] = {slot[s].bytes}] /\ Goes(s, "available")
           \/ /\ Fault /\ Goes(s, "failed")
              /\ \E left \in CutShort(object[i], slot[s].bytes) : object' = [object EXCEPT ![i] = left]
    /\ UNCHANGED <<registered, record, upload, urls, halved>>

(* The UPDATE by key: not by id, and not only of a pending record.         *)
Finalize(s) ==
    /\ slot[s].at \in {"available", "failed"} /\ Ends(s)
    /\ LET updated == {[r EXCEPT !.state = slot[s].at] : r \in record}
       IN  \/ Quiet /\ record' = updated
           \/ Fault /\ record' \in {record, updated}
    /\ UNCHANGED <<registered, object, upload, urls, halved>>

(* release_verifying_upload: a hold of this key, whoever put it there.     *)
ReleaseHold(s) ==
    /\ slot[s].at = "release" /\ Done(s)
    /\ upload' = [upload EXCEPT ![slot[s].began] = {u \in @ : ~u.hold}]
    /\ UNCHANGED <<registered, record, object, urls, halved, failures>>

-----------------------------------------------------------------------------
(* The resumable transport.  An s3 upload lives in the process's memory,   *)
(* one of fs in a staging file; writing is what blocking threads have yet  *)
(* to write at the end of that file, and for which requests.               *)

Upload(bytes, hold) == {[bytes |-> bytes, hold |-> hold, writing |-> {}]}
SetUpload(i, u) == upload' = [upload EXCEPT ![i] = u]

(* The staging file made or truncated: whoever has it open goes on.        *)
Emptied(i) == {[bytes |-> <<>>, hold |-> FALSE, writing |-> UNION {u.writing : u \in upload[i]}]}

(* Faulty variant: the lock is not held across the write.                  *)
Unlocked == TRUE

(* The lock of the fs store, which a handler holds as long as it awaits    *)
(* its write, and which is free as soon as the handler is dropped.         *)
FilesFree == \A t \in Slots : slot[t].at # "flush"

(* require_pending_managed, the prelude of each of the resumable calls.    *)
Resumable(s) ==
    /\ Pending
    /\ \/ "create" \in Operations /\ To(s, [at |-> "probe", id |-> Id])
       \/ "abandon" \in Operations /\ To(s, [at |-> "abandon", id |-> Id])
       \/ "complete" \in Operations /\ To(s, [at |-> "take", id |-> Id, began |-> Id])
       \/ /\ "append" \in Operations
          /\ \E c \in Contents, o \in 0..(Size - 1) :
               To(s, [at |-> "append", id |-> Id, offset |-> o, chunk |-> <<c, o + 1>>])
    /\ UNCHANGED <<registered, record, object, upload, urls, halved, failures>>

(* create_resumable_upload: upload_offset, then create_upload, which       *)
(* overwrites; s3 has forgotten the old upload when its call fails.        *)
ProbeUpload(s) ==
    /\ slot[s].at = "probe" /\ FilesFree
    /\ IF upload[slot[s].id] # {} THEN Done(s) ELSE Goes(s, "create")
    /\ UNCHANGED <<registered, record, object, upload, urls, halved, failures>>

Create(s) ==
    /\ slot[s].at = "create" /\ FilesFree /\ Done(s)
    /\ \/ Quiet /\ SetUpload(slot[s].id, Emptied(slot[s].id))
       \/ Fault /\ IF Profile = "s3" THEN SetUpload(slot[s].id, {}) ELSE UNCHANGED upload
    /\ UNCHANGED <<registered, record, object, urls, halved>>

(* append_upload compares the offset and adds the chunk: s3 to what it has *)
(* in memory, fs by a write it hands to a blocking thread and awaits.  A   *)
(* slot has one write under way in a file: a bound on late ones.           *)
AppendChunk(s) ==
    /\ slot[s].at = "append" /\ FilesFree
    /\ LET i == slot[s].id
           matching == {u \in upload[i] : ~u.hold /\ Len(u.bytes) = slot[s].offset}
       IN  \/ matching = {} /\ Done(s) /\ UNCHANGED upload
           \/ /\ Profile = "s3" /\ Done(s)
              /\ \E u \in matching : SetUpload(i, {[u EXCEPT !.bytes = Append(@, slot[s].chunk)]})
           \/ /\ Profile = "fs" /\ Goes(s, "flush")
              /\ \E u \in matching :
                   /\ \A w \in u.writing : w[1] # s
                   /\ SetUpload(i, {[u EXCEPT !.writing = @ \cup {<<s, slot[s].chunk>>}]})
    /\ UNCHANGED <<registered, record, object, urls, halved, failures>>

(* A blocking thread's O_APPEND write, whatever became of who asked.       *)
WriteLands ==
    /\ \E i \in Ids : \E u \in upload[i] : \E w \in u.writing :
         SetUpload(i, {[u EXCEPT !.bytes = Append(@, w[2]), !.writing = @ \ {w}]})
    /\ UNCHANGED <<registered, record, object, urls, slot, halved, failures>>

(* The rest of append_upload: the write is done, or has failed.            *)
Flush(s) ==
    /\ slot[s].at = "flush" /\ Done(s)
    /\ LET i == slot[s].id
           own == <<s, slot[s].chunk>>
       IN  \/ Quiet /\ (\A u \in upload[i] : own \notin u.writing) /\ UNCHANGED upload
           \/ Fault /\ SetUpload(i, {[u EXCEPT !.writing = @ \ {own}] : u \in upload[i]})
    /\ UNCHANGED <<registered, record, object, urls, halved>>

(* take_upload: fs reads and removes the staging file; s3 takes the entry  *)
(* out of its map, and there is nothing for it in the meantime.  A held    *)
(* entry goes the same way, and its caller is told there was none.         *)
Take(s) ==
    /\ slot[s].at = "take" /\ FilesFree
    /\ LET i == slot[s].id
           taken == {u \in upload[i] : ~u.hold}
       IN  \/ Quiet /\ taken = {} /\ Done(s) /\ SetUpload(i, {})
           \/ /\ Quiet /\ SetUpload(i, {})
              /\ \E u \in taken :
                   To(s, IF Profile = "fs"
                         THEN [at |-> "read", bytes |-> u.bytes, committed |-> FALSE, began |-> i]
                         ELSE [at |-> "commit", id |-> i, bytes |-> u.bytes, began |-> i])
           \/ Fault /\ Profile = "fs" /\ taken # {} /\ Done(s) /\ UNCHANGED upload
    /\ UNCHANGED <<registered, record, object, urls, halved>>

(* CompleteMultipartUpload puts the bytes at the final key; a failure      *)
(* reinstates what was taken.                                              *)
CommitUpload(s) ==
    /\ slot[s].at = "commit"
    /\ LET i == slot[s].id
       IN  \/ /\ Quiet /\ object' = [object EXCEPT ![i] = {slot[s].bytes}]
              /\ UNCHANGED upload /\ Goes(s, "hold")
           \/ /\ Fault /\ SetUpload(i, Upload(slot[s].bytes, FALSE))
              /\ object' \in {object, [object EXCEPT ![i] = {slot[s].bytes}]}
              /\ Goes(s, "release")
    /\ UNCHANGED <<registered, record, urls, halved>>

HoldKey(s) ==
    /\ slot[s].at = "hold" /\ Goes(s, "fetch")
    /\ SetUpload(slot[s].id, Upload(slot[s].bytes, TRUE))
    /\ UNCHANGED <<registered, record, object, urls, halved, failures>>

(* Faulty variant: an error on the read-back is answered at once.          *)
FetchWithoutRelease(s) ==
    /\ slot[s].at = "fetch"
    /\ \/ Quiet /\ object[slot[s].id] = {} /\ Done(s)
       \/ /\ Quiet
          /\ \E b \in object[slot[s].id] :
               To(s, [at |-> "read", bytes |-> b, committed |-> TRUE, began |-> slot[s].began])
       \/ Fault /\ Done(s)
    /\ UNCHANGED <<registered, record, object, upload, urls, halved>>

(* The read-back.  An object that is gone ends the request there and then. *)
Fetch(s) ==
    /\ slot[s].at = "fetch"
    /\ \/ Quiet /\ object[slot[s].id] = {} /\ Done(s)
       \/ /\ Quiet
          /\ \E b \in object[slot[s].id] :
               To(s, [at |-> "read", bytes |-> b, committed |-> TRUE, began |-> slot[s].began])
       \/ Fault /\ Goes(s, "release")
    /\ UNCHANGED <<registered, record, object, upload, urls, halved>>

(* abandon_upload: a held key is left alone; s3 reinstates what it could   *)
(* not abort.                                                              *)
AbandonUpload(s) ==
    /\ slot[s].at = "abandon" /\ FilesFree
    /\ LET i == slot[s].id
           taken == {u \in upload[i] : ~u.hold}
       IN  /\ SetUpload(i, upload[i] \ taken)
           /\ IF Profile = "fs" \/ taken = {} THEN Done(s)
              ELSE \E u \in taken : To(s, [at |-> "abort", id |-> i, bytes |-> u.bytes])
    /\ UNCHANGED <<registered, record, object, urls, halved, failures>>

Abort(s) ==
    /\ slot[s].at = "abort" /\ Done(s)
    /\ \/ Quiet /\ UNCHANGED upload
       \/ Fault /\ SetUpload(slot[s].id, Upload(slot[s].bytes, FALSE))
    /\ UNCHANGED <<registered, record, object, urls, halved>>

-----------------------------------------------------------------------------
(* The presigned transport, of s3 only.                                    *)

(* presign_upload gives a URL out; its expiry is time the model leaves out. *)
Presign ==
    /\ "presign" \in Operations /\ Profile = "s3" /\ Pending
    /\ urls' = urls \cup {Id}
    /\ UNCHANGED <<registered, record, object, upload, slot, halved, failures>>

(* A client's PUT to the store itself.                                     *)
ClientPut ==
    /\ \E i \in urls, c \in Contents : object' = [object EXCEPT ![i] = {Content(c)}]
    /\ UNCHANGED <<registered, record, upload, urls, slot, halved, failures>>

(* finalize_presigned_upload: HEAD, which reports a digest or does not.    *)
ReadToFinalize(s) ==
    /\ Profile = "s3" /\ Pending /\ To(s, [at |-> "head", id |-> Id, began |-> 0])
    /\ UNCHANGED <<registered, record, object, upload, urls, halved, failures>>

HeadObject(s) ==
    /\ slot[s].at = "head"
    /\ LET i == slot[s].id
           right == object[i] = {Content(registered[i])}
           sized == \E b \in object[i] : Len(b) = Size
       IN  \/ Quiet /\ Goes(s, IF right THEN "available" ELSE "failed")
           \/ Quiet /\ sized /\ ~right /\ Goes(s, "available")
           \/ Fault /\ Done(s)
    /\ UNCHANGED <<registered, record, object, upload, urls, halved>>

-----------------------------------------------------------------------------

(* A request comes in, after the others where they wait for one another.   *)
Receive(s) ==
    /\ slot[s] = Vacant
    /\ setting.alone => \A t \in Slots : slot[t] = Vacant
    /\ \/ "register" \in Operations /\ ReadToRegister(s)
       \/ "delete" \in Operations /\ ReadToDelete(s)
       \/ "put" \in Operations /\ PutData(s)
       \/ "finalize" \in Operations /\ ReadToFinalize(s)
       \/ Resumable(s)

Continue(s) ==
    \/ Register(s) \/ Erase(s) \/ Remove(s)
    \/ ReadRecord(s) \/ CleanUp(s) \/ StoreObject(s) \/ Finalize(s) \/ ReleaseHold(s)
    \/ ProbeUpload(s) \/ Create(s) \/ AppendChunk(s) \/ Flush(s)
    \/ Take(s) \/ CommitUpload(s) \/ HoldKey(s) \/ Fetch(s)
    \/ AbandonUpload(s) \/ Abort(s) \/ HeadObject(s)

(* A delete that ends between its two steps.                               *)
Halved(S) == halved' = halved \cup {slot[s].id : s \in {t \in S : slot[t].at = "remove"}}

(* What goes on without its request, and the files an fs call may have     *)
(* handed over: made or truncated, or removed where there is one.          *)
Late == {"putting", "deleting", "creating", "removing"}
Files(s) ==
    CASE slot[s].at = "create" -> {"creating"}
      [] slot[s].at \in {"take", "abandon"} /\ upload[slot[s].id] # {} -> {"removing"}
      [] OTHER -> {}

(***************************************************************************)
(* The client goes away and its handler is dropped where it waits.  What   *)
(* it had asked of the object store may have been left undone, or goes on  *)
(* by itself: fs works on a thread of its own, s3 is another machine.  An  *)
(* append leaves its write behind, s3's create has removed the old entry.  *)
(***************************************************************************)
Cancel(s) ==
    /\ setting.cancels /\ slot[s].at \notin {"idle"} \cup Late /\ Fault /\ Halved({s})
    /\ \/ Done(s) /\ UNCHANGED upload
       \/ /\ slot[s].at \in {"store", "commit"} /\ UNCHANGED upload
          /\ To(s, [at |-> "putting", id |-> slot[s].id, bytes |-> slot[s].bytes])
       \/ /\ slot[s].at \in {"erase", "cleanup"} /\ UNCHANGED upload
          /\ To(s, [at |-> "deleting", id |-> slot[s].id])
       \/ /\ Profile = "fs" /\ FilesFree /\ UNCHANGED upload
          /\ \E late \in Files(s) : To(s, [at |-> late, id |-> slot[s].id])
       \/ Profile = "s3" /\ slot[s].at = "create" /\ Done(s) /\ SetUpload(slot[s].id, {})
    /\ UNCHANGED <<registered, record, object, urls>>

Lands(s) ==
    /\ slot[s].at \in Late /\ Done(s)
    /\ LET i == slot[s].id
       IN  \/ slot[s].at = "putting" /\ object' = [object EXCEPT ![i] = {slot[s].bytes}] /\ UNCHANGED upload
           \/ slot[s].at = "deleting" /\ object' = [object EXCEPT ![i] = {}] /\ UNCHANGED upload
           \/ slot[s].at = "creating" /\ SetUpload(i, Emptied(i)) /\ UNCHANGED object
           \/ slot[s].at = "removing" /\ SetUpload(i, {}) /\ UNCHANGED object
    /\ UNCHANGED <<registered, record, urls, halved, failures>>

(***************************************************************************)
(* The process ends and another takes over: a write under way is cut       *)
(* short, or not made, and the s3 uploads it kept in memory are gone.      *)
(***************************************************************************)
Reboot ==
    /\ Fault /\ Halved(Slots)
    /\ slot' = [s \in Slots |-> Vacant]
    /\ upload' = [i \in Ids |-> IF Profile = "s3" THEN {} ELSE {[u EXCEPT !.writing = {}] : u \in upload[i]}]
    /\ LET left(i) == UNION {CutShort(object[i], slot[s].bytes) :
                                s \in {t \in Slots : slot[t].at \in {"store", "putting"} /\ slot[t].id = i}}
       IN  object' \in [Ids -> UNION {left(i) \cup {object[i]} : i \in Ids}]
           /\ \A i \in Ids : object'[i] \in left(i) \cup {object[i]}
    /\ UNCHANGED <<registered, record, urls>>

AssetNext ==
    /\ UNCHANGED setting
    /\ \/ \E s \in Slots : Receive(s) \/ Continue(s) \/ Cancel(s) \/ Lands(s)
       \/ WriteLands \/ Presign \/ ClientPut \/ Reboot

AssetSpec == AssetInit /\ [][AssetNext]_assetVars

-----------------------------------------------------------------------------

Chunk == Contents \X (1..Size)
Bytes == Seq(Chunk)
UploadRecord == [bytes : Bytes, hold : BOOLEAN, writing : SUBSET (Slots \X Chunk)]

(* What a request carries from step to step.                               *)
Request ==
    [at : {"idle"}]
    \cup [at : {"register"}, kind : {"managed", "remote"}]
    \cup [at : {"erase", "remove", "deleting", "probe", "create", "creating", "abandon", "removing"}, id : Ids]
    \cup [at : {"append", "flush"}, id : Ids, offset : 0..(Size - 1), chunk : Chunk]
    \cup [at : {"take", "head", "available", "failed", "release"}, id : Ids,
          began : 0..setting.records]
    \cup [at : {"abort", "putting"}, id : Ids, bytes : Bytes]
    \cup [at : {"read", "release"}, bytes : Bytes, committed : BOOLEAN, began : 0..setting.records]
    \cup [at : {"cleanup", "store", "commit", "hold", "fetch", "available", "failed", "release"},
          id : Ids, bytes : Bytes, began : 0..setting.records]

AtMostOne(S) == \A x, y \in S : x = y

(* Type correctness; a key has at most one record, an id one object and    *)
(* one upload.                                                             *)
AssetTypeOK ==
    /\ setting \in Settings
    /\ registered \in Seq(Contents) /\ Len(registered) <= setting.records
    /\ AtMostOne(record)
    /\ record \subseteq [id : 1..Len(registered), kind : {"managed", "remote"},
                         state : {"pending", "available", "failed"}]
    /\ object \in [Ids -> SUBSET Bytes] /\ \A i \in Ids : AtMostOne(object[i])
    /\ upload \in [Ids -> SUBSET UploadRecord]
    /\ \A i \in Ids : AtMostOne(upload[i])
    /\ slot \in [Slots -> Request]
    /\ urls \subseteq Ids /\ halved \subseteq Ids /\ failures \in 0..setting.failures

(* Requests that wait for one another, of clients that wait for the answer; *)
(* stores where all bytes are compared with a registration before they     *)
(* reach its key, and keys that are written through the server only.       *)
OneAtATime == setting.alone /\ ~setting.cancels
ComparedFirst == Profile = "fs" \/ Operations \cap {"complete", "presign"} = {}
ThroughTheServer == Operations \cap {"presign", "finalize"} = {}

(* Appends whose write is awaited with the lock held, or made at once.     *)
WritesAreAwaited == Profile = "s3" \/ ~setting.cancels

(***************************************************************************)
(* Whatever requests race and whichever clients go away, the object of an  *)
(* id is what the id's own registration declared, or the beginning of it   *)
(* that a failed write left: a completion that takes the bytes of one      *)
(* registration and finds another checks them against the one whose key it *)
(* writes (finish_upload reads the record again).                          *)
(***************************************************************************)
ForeignBytesAreNeverStored ==
    ComparedFirst => \A i \in Ids : \A b \in object[i] :
        i <= Len(registered) /\ b = SubSeq(Content(registered[i]), 1, Len(b))

(***************************************************************************)
(* An upload's bytes are chunks in the places the clients cut them from:   *)
(* no append lands twice, none lands after one that is missing, over       *)
(* retries, rival appends, abandoned uploads and reinstated ones; on a     *)
(* filesystem as long as no handler is dropped while its write is under    *)
(* way (append_upload, a lock held from the comparison to the flush).      *)
(***************************************************************************)
EveryChunkIsInPlace ==
    \A i \in Ids : \A u \in upload[i] : \A n \in 1..Len(u.bytes) : u.bytes[n][2] = n
ChunksAreInPlace == WritesAreAwaited => EveryChunkIsInPlace

(***************************************************************************)
(* Once a managed asset is available or failed, that is what it stays      *)
(* until it is deleted (complete_upload and finalize_presigned_upload      *)
(* refuse an asset that is not pending).                                   *)
(***************************************************************************)
AssetVerdictKept ==
    \A r \in record : \A q \in record' :
        (q.id = r.id /\ r.state # "pending") => q.state = r.state
AssetVerdictIsFinal == [][AssetVerdictKept]_assetVars

(* No bytes stay behind that no record names: delete_asset removes the     *)
(* object first and the record second.                                     *)
NothingIsOrphaned ==
    (\A s \in Slots : slot[s] = Vacant) =>
        \A i \in Ids : object[i] # {} => \E r \in record : r.id = i

(***************************************************************************)
(* What reconcile.rs reports as broken, an available asset without its     *)
(* object, comes only of a delete that ended between its two steps.  With  *)
(* one request at a time, whatever fails and wherever it is cut off; and   *)
(* the object is the one declared, if no bytes bypass the server.          *)
(***************************************************************************)
Intact(r) ==
    /\ object[r.id] # {}
    /\ ThroughTheServer => object[r.id] = {Content(registered[r.id])}

BrokenOnlyByHalfDelete ==
    OneAtATime => \A r \in record :
        (r.kind = "managed" /\ r.state = "available" /\ r.id \notin halved)
            => Intact(r) \/ \E s \in Slots : slot[s].at = "remove"

(***************************************************************************)
(* A key is held only as long as a completion is there to release it: on a *)
(* filesystem nothing is held, and on s3 no failed call loses a hold.      *)
(***************************************************************************)
HoldHasItsCompletion ==
    Profile = "fs" \/ OneAtATime =>
        \A i \in Ids : (\E u \in upload[i] : u.hold) =>
            \E s \in Slots : "began" \in DOMAIN slot[s] /\ slot[s].began = i

(***************************************************************************)
(* As long as s3 bytes at a final key are unverified, the key counts as an *)
(* upload in progress and no second one is let in.                         *)
(***************************************************************************)
HoldCoversUnverifiedBytes ==
    \A s \in Slots :
        (Profile = "s3" /\ slot[s].at \in {"hold", "fetch", "cleanup"} /\ slot[s].began # 0)
            => upload[slot[s].id] # {}

(* The same, however requests race and clients go away.                    *)
RacingHoldHasItsCompletion ==
    \A i \in Ids : (\E u \in upload[i] : u.hold) =>
        \E s \in Slots : "began" \in DOMAIN slot[s] /\ slot[s].began = i

(* Bytes that do not match are not left behind: when no request is under   *)
(* way, an object is what its record declared.                             *)
MismatchLeavesNothing ==
    (\A s \in Slots : slot[s] = Vacant) =>
        \A r \in record : object[r.id] \subseteq {Content(registered[r.id])}
=============================================================================
