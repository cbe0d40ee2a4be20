----------------------------- MODULE MediaStore -----------------------------
(***************************************************************************)
(* MediaService: the images and videos of one product, a row of            *)
(* product_media and an object each (no operation reads another product's  *)
(* rows).  A row is named by its objectKey.  Between two awaits of a       *)
(* handler every other handler may run, and the process may stop.          *)
(***************************************************************************)
EXTENDS ObjectStore

CONSTANT MediaKeys \* the keys of the bucket of the media, under "product-media"

ASSUME MediaKeyAssumption == MediaKeys \subseteq ObjectKeys

VARIABLES
  rows,      \* the keys that have a row
  sortOrder, \* product_media.sortOrder
  job,       \* the handler in each slot
  \* Observed only
  torn,      \* rows whose own upload went on to delete their object: it was not
             \* told of its insert, or failed after it
  contended  \* since the last reordering that overlapped nothing, two uploads
             \* were at once between line 66 and their insert, or two
             \* reorderings between their check and their updates

media == <<rows, sortOrder, job, torn, contended>>

-----------------------------------------------------------------------------

NoRank == [k \in {} |-> 0]

\* A handler at step "at", with the key it works on, the sort order it will
\* insert and the order it will write.
Job(at, k, n, rank) == [pc |-> at, key |-> k, order |-> n, rank |-> rank]
IdleJob == Job("idle", Nil, 0, NoRank)

IsJob(j) ==
  /\ j = Job(j.pc, j.key, j.order, j.rank)
  /\ j.pc \in {"idle", "max", "insert", "sign", "cleanup", "delete_row", "delete_object", "reorder"}
  /\ IF j.pc \in {"idle", "reorder"} THEN j.key = Nil ELSE j.key \in issued
  /\ j.order \in Nat
  /\ DOMAIN j.rank \subseteq issued
  /\ j.rank \in [DOMAIN j.rank -> Nat]

Goto(h, j) == job' = [job EXCEPT ![h] = j]
Finish(h)  == Goto(h, IdleJob)
Advance(h, at) == Goto(h, Job(at, job[h].key, job[h].order, job[h].rank))

At(h, at) == job[h].pc = at

Others(h, at) == {g \in Handlers \ {h} : At(g, at)}

-----------------------------------------------------------------------------
(* upload                                                                  *)

\* The object goes first; a product that does not exist, or a file of the wrong
\* type or size, was refused before and changes nothing.
UploadPut(h, k) ==
  /\ At(h, "idle")
  /\ PutObject(k)
  /\ Goto(h, Job("max", k, 0, NoRank))
  /\ UNCHANGED <<rows, sortOrder, torn, contended>>

\* The put is outside the try block: no clean-up.
UploadPutFails(k) == PutFails(k) /\ UNCHANGED media

\* Mutant of UploadMax: the "+ 1" is missing.
UploadMaxItself(h) ==
  /\ At(h, "max")
  /\ \/ rows = {} /\ Goto(h, Job("insert", job[h].key, -1, NoRank))
     \/ \E last \in rows :
          /\ \A k \in rows : sortOrder[k] <= sortOrder[last]
          /\ Goto(h, Job("insert", job[h].key, sortOrder[last], NoRank))
  /\ contended' = (contended \/ Others(h, "insert") # {})
  /\ UNCHANGED <<store, rows, sortOrder, torn>>

\* The greatest sort order, and one more, or 0 for the first row.
UploadMax(h) ==
  /\ At(h, "max")
  /\ \/ rows = {} /\ Goto(h, Job("insert", job[h].key, 0, NoRank))
     \/ \E last \in rows :
          /\ \A k \in rows : sortOrder[k] <= sortOrder[last]
          /\ Goto(h, Job("insert", job[h].key, sortOrder[last] + 1, NoRank))
  /\ contended' = (contended \/ Others(h, "insert") # {})
  /\ UNCHANGED <<store, rows, sortOrder, torn>>

InsertRow(k, n) ==
  /\ rows' = rows \cup {k}
  /\ sortOrder' = [sortOrder EXCEPT ![k] = n]

UploadInsert(h) ==
  /\ At(h, "insert")
  /\ InsertRow(job[h].key, job[h].order)
  /\ Advance(h, "sign")
  /\ UNCHANGED <<store, torn, contended>>

\* The row is there, and the handler takes its insert for failed.
UploadInsertUnanswered(h) ==
  /\ At(h, "insert")
  /\ InsertRow(job[h].key, job[h].order)
  /\ torn' = torn \cup {job[h].key}
  /\ Advance(h, "cleanup")
  /\ UNCHANGED <<store, contended>>

\* The aggregate or the insert fails.
UploadFails(h) ==
  /\ At(h, "max") \/ At(h, "insert")
  /\ Advance(h, "cleanup")
  /\ UNCHANGED <<store, rows, sortOrder, torn, contended>>

UploadSign(h) ==
  /\ At(h, "sign")
  /\ Finish(h)
  /\ UNCHANGED <<store, rows, sortOrder, torn, contended>>

\* Signing the URL is inside the try block as well.
UploadSignFails(h) ==
  /\ At(h, "sign")
  /\ torn' = torn \cup {job[h].key}
  /\ Advance(h, "cleanup")
  /\ UNCHANGED <<store, rows, sortOrder, contended>>

\* Mutant of UploadCleanup: the error is passed on and the object left.
UploadCleanupNone(h) ==
  /\ At(h, "cleanup")
  /\ Finish(h)
  /\ UNCHANGED <<store, rows, sortOrder, torn, contended>>

\* The catch block.
UploadCleanup(h) ==
  /\ At(h, "cleanup")
  /\ DeleteObject(job[h].key) \/ DeleteFails(job[h].key)
  /\ Finish(h)
  /\ UNCHANGED <<rows, sortOrder, torn, contended>>

-----------------------------------------------------------------------------
(* remove                                                                  *)

RemoveFind(h, k) ==
  /\ At(h, "idle")
  /\ k \in rows
  /\ Goto(h, Job("delete_row", k, 0, NoRank))
  /\ UNCHANGED <<store, rows, sortOrder, torn, contended>>

\* Mutant of RemoveRow: the object goes first.
RemoveObjectFirst(h) ==
  /\ At(h, "delete_row")
  /\ job[h].key \in rows
  /\ DeleteObject(job[h].key) \/ DeleteFails(job[h].key)
  /\ Advance(h, "delete_object")
  /\ UNCHANGED <<rows, sortOrder, torn, contended>>

RemoveRow(h) ==
  /\ At(h, "delete_row")
  /\ job[h].key \in rows
  /\ rows' = rows \ {job[h].key}
  /\ sortOrder' = [sortOrder EXCEPT ![job[h].key] = 0]
  /\ Advance(h, "delete_object")
  /\ UNCHANGED <<store, torn, contended>>

\* The row has gone meanwhile, or the delete fails: P2025 or another error.
RemoveRowFails(h) ==
  /\ At(h, "delete_row")
  /\ Finish(h)
  /\ UNCHANGED <<store, rows, sortOrder, torn, contended>>

RemoveObject(h) ==
  /\ At(h, "delete_object")
  /\ DeleteObject(job[h].key) \/ DeleteFails(job[h].key)
  /\ Finish(h)
  /\ UNCHANGED <<rows, sortOrder, torn, contended>>

-----------------------------------------------------------------------------
(* reorder                                                                 *)

\* The ids are a permutation of those the first query returned, else refused.
ReorderCheck(h) ==
  /\ At(h, "idle")
  /\ \E rank \in [rows -> 0 .. Cardinality(rows) - 1] :
       /\ \A j, k \in rows : rank[j] = rank[k] => j = k
       /\ Goto(h, Job("reorder", Nil, 0, rank))
  /\ UNCHANGED <<store, rows, sortOrder, torn, contended>>

\* The updates of h put every row in order, beside no upload past its maximum.
Restores(h) == DOMAIN job[h].rank = rows /\ Others(h, "insert") = {}

\* Mutant of ReorderCommit: the positions are numbered from 1.
ReorderCommitFromOne(h) ==
  LET rank == job[h].rank IN
  /\ At(h, "reorder")
  /\ DOMAIN rank \subseteq rows
  /\ sortOrder' = [k \in ObjectKeys |-> IF k \in DOMAIN rank THEN rank[k] + 1 ELSE sortOrder[k]]
  /\ contended' = (Others(h, "reorder") # {} \/ (contended /\ ~Restores(h)))
  /\ Finish(h)
  /\ UNCHANGED <<store, rows, torn>>

\* One update per id, all or none: they fail if one of the rows has gone.
ReorderCommit(h) ==
  LET rank == job[h].rank IN
  /\ At(h, "reorder")
  /\ DOMAIN rank \subseteq rows
  /\ sortOrder' = [k \in ObjectKeys |-> IF k \in DOMAIN rank THEN rank[k] ELSE sortOrder[k]]
  /\ contended' = (Others(h, "reorder") # {} \/ (contended /\ ~Restores(h)))
  /\ Finish(h)
  /\ UNCHANGED <<store, rows, torn>>

ReorderFails(h) ==
  /\ At(h, "reorder")
  /\ Finish(h)
  /\ UNCHANGED <<store, rows, sortOrder, torn, contended>>

-----------------------------------------------------------------------------

\* The object of handler h's key has no row and waits for h.
Responsible(h) == job[h].pc \in {"max", "insert", "cleanup", "delete_object"}

\* The process stops, or its request is cut off, at any await.
Stop(h) ==
  /\ ~At(h, "idle")
  /\ IF Responsible(h) THEN Abandon(job[h].key) ELSE UNCHANGED store
  /\ Finish(h)
  /\ UNCHANGED <<rows, sortOrder, torn, contended>>

MediaInit ==
  /\ StoreInit
  /\ rows = {}
  /\ sortOrder = [k \in ObjectKeys |-> 0]
  /\ job = [h \in Handlers |-> IdleJob]
  /\ torn = {}
  /\ contended = FALSE

Upload(h) ==
  \/ \E k \in MediaKeys : UploadPut(h, k)
  \/ UploadMax(h) \/ UploadInsert(h) \/ UploadInsertUnanswered(h) \/ UploadFails(h)
  \/ UploadSign(h) \/ UploadSignFails(h) \/ UploadCleanup(h)

Remove(h) ==
  \/ \E k \in MediaKeys : RemoveFind(h, k)
  \/ RemoveRow(h) \/ RemoveRowFails(h) \/ RemoveObject(h)

Reorder(h) == ReorderCheck(h) \/ ReorderCommit(h) \/ ReorderFails(h)

MediaNext ==
  \/ \E h \in Handlers : Upload(h) \/ Remove(h) \/ Reorder(h) \/ Stop(h)
  \/ \E k \in MediaKeys : UploadPutFails(k)

MediaSpec == MediaInit /\ [][MediaNext]_<<store, media>>

-----------------------------------------------------------------------------
(* Properties                                                              *)

\* Every variable has its type.
MediaTypeOK ==
  /\ StoreTypeOK
  /\ rows \subseteq issued
  /\ sortOrder \in [ObjectKeys -> Nat]
  /\ DOMAIN job = Handlers
  /\ \A h \in Handlers : IsJob(job[h])
  /\ torn \subseteq issued
  /\ contended \in BOOLEAN

\* A row has its object, whatever fails or stops and in whatever order uploads
\* and removals run: upload puts the object before the row, and remove deletes
\* it after the row.  The exception is what the catch block of upload does to a
\* row it did not know of or did not mean (torn).
RowsHaveObjects == rows \ torn \subseteq objects

\* An object without a row is one that a handler is about to give a row or to
\* delete, or one whose handler was cut off or failed to delete it: no path of
\* the code by itself leaves an orphan.
OrphansExplained ==
  (objects \cap MediaKeys) \ (rows \cup lost) \subseteq {job[h].key : h \in {g \in Handlers : Responsible(g)}}

\* The rows have distinct sort orders, so the order shown and the primary image
\* are determinate, as long as no two uploads and no two reorderings overlap;
\* after they did, a reordering that overlaps none restores it.  An upload or a
\* removal may overlap a reordering without harm.
OrderedUnlessContended ==
  ~contended => \A j, k \in rows : sortOrder[j] = sortOrder[k] => j = k

\* A key between its put and its row is in no other hands.
UploadsFresh ==
  \A h \in Handlers : job[h].pc \in {"max", "insert"} =>
    /\ job[h].key \in objects \ rows
    /\ \A g \in Handlers \ {h} :
         job[g].key # job[h].key /\ job[h].key \notin DOMAIN job[g].rank

\* An object about to be deleted is no row's, or a torn one's.
DeletionsSafe ==
  \A h \in Handlers :
    /\ At(h, "delete_object") => job[h].key \notin rows
    /\ At(h, "cleanup") => job[h].key \notin rows \ torn

\* The ids to be reordered get the positions from 0.
RanksHold ==
  /\ IsFiniteSet(rows)
  /\ \A h \in Handlers :
       LET rank == job[h].rank IN
       /\ ~At(h, "reorder") => DOMAIN rank = {}
       /\ At(h, "reorder") =>
            /\ IsFiniteSet(DOMAIN rank)
            /\ \A k \in DOMAIN rank : rank[k] < Cardinality(DOMAIN rank)
            /\ \A j, k \in DOMAIN rank : rank[j] = rank[k] => j = k

\* Uncontended, an insert comes after every row, and the rows and the insert
\* that a reordering does not know of come after the positions it gives.
OrderHolds ==
  ~contended =>
    /\ \A h \in Handlers : At(h, "insert") =>
         /\ Others(h, "insert") = {}
         /\ \A k \in rows : sortOrder[k] < job[h].order
    /\ \A h \in Handlers : At(h, "reorder") /\ DOMAIN job[h].rank \subseteq rows =>
         LET n == Cardinality(DOMAIN job[h].rank) IN
         /\ \A k \in rows \ DOMAIN job[h].rank : n <= sortOrder[k]
         /\ \A g \in Handlers : At(g, "insert") => n <= job[g].order

\* What the proof that these are invariant rests on.
MediaInv ==
  /\ RowsHaveObjects
  /\ OrphansExplained
  /\ OrderedUnlessContended
  /\ UploadsFresh
  /\ DeletionsSafe
  /\ RanksHold
  /\ OrderHolds

=============================================================================
