--------------------------- MODULE Storage_proofs ---------------------------
(***************************************************************************)
(* MediaStore and Registration for any number of keys, handlers, emails    *)
(* and taxIds, and the two of them over one object store: their types and  *)
(* their safety invariants.                                                *)
(***************************************************************************)
EXTENDS Storage, FiniteSetTheorems, TLAPS

-----------------------------------------------------------------------------
(* MediaStore                                                              *)

\* Distinct numbers below n are at most n.
LEMMA Pigeonhole ==
  ASSUME NEW S, IsFiniteSet(S), NEW f, NEW n \in Nat,
         \A x \in S : f[x] \in Nat /\ f[x] < n,
         \A x, y \in S : f[x] = f[y] => x = y
  PROVE  Cardinality(S) <= n
<1> DEFINE g == [x \in S |-> f[x]]
<1>1. g \in Injection(S, 0 .. n - 1)
  BY DEF Injection, IsInjective
<1>2. IsFiniteSet(0 .. n - 1) /\ Cardinality(0 .. n - 1) = n
  <2>1. IsFiniteSet(0 .. n - 1)
    BY FS_Interval
  <2>2. CASE n = 0
    BY <2>1, <2>2, FS_Interval
  <2>3. CASE n # 0
    BY <2>1, <2>3, FS_Interval
  <2> QED
    BY <2>1, <2>2, <2>3
<1>3. Cardinality(S) <= Cardinality(0 .. n - 1)
  BY <1>1, <1>2, FS_Injection
<1> QED
  BY <1>2, <1>3

\* Every step keeps the types.
LEMMA MediaTypeStep ==
  ASSUME MediaTypeOK, [MediaNext]_<<store, media>>
  PROVE  MediaTypeOK'
<1> USE DEF MediaTypeOK, StoreTypeOK, At, store, media
<1>1. DOMAIN NoRank = {} /\ NoRank \in [{} -> Nat]
  BY DEF NoRank
<1>2. ASSUME NEW h \in Handlers, NEW at, NEW k \in issued', NEW n \in Nat,
             at \in {"max", "insert", "sign", "cleanup", "delete_row",
                     "delete_object"},
             Goto(h, Job(at, k, n, NoRank)), issued \subseteq issued'
      PROVE  DOMAIN job' = Handlers /\ \A g \in Handlers : IsJob(job[g])'
  BY <1>1, <1>2 DEF Goto, Job, IsJob
<1>3. ASSUME NEW h \in Handlers, Finish(h), issued \subseteq issued'
      PROVE  DOMAIN job' = Handlers /\ \A g \in Handlers : IsJob(job[g])'
  BY <1>1, <1>3 DEF Finish, IdleJob, Goto, Job, IsJob
<1>4. ASSUME NEW h \in Handlers, NEW at \in {"sign", "cleanup", "delete_object"},
             At(h, "max") \/ At(h, "insert") \/ At(h, "sign") \/ At(h, "delete_row"),
             Advance(h, at), issued' = issued
      PROVE  DOMAIN job' = Handlers /\ \A g \in Handlers : IsJob(job[g])'
  BY <1>4 DEF Advance, Goto, Job, IsJob
<1>5. ASSUME NEW h \in Handlers, NEW k \in ObjectKeys, UploadPut(h, k)
      PROVE  MediaTypeOK'
  <2>9. DOMAIN job' = Handlers /\ \A g \in Handlers : IsJob(job[g])'
    BY <1>2, <1>5 DEF UploadPut, PutObject
  <2> QED
    BY <2>9, <1>5 DEF UploadPut, PutObject
<1>6. ASSUME NEW h \in Handlers, UploadMax(h)
      PROVE  MediaTypeOK'
  <2>1. job[h].key \in issued /\ job[h].order \in Nat
    BY <1>6 DEF UploadMax, IsJob
  <2>2. issued' = issued
    BY <1>6 DEF UploadMax
  <2>3. PICK n \in Nat : Goto(h, Job("insert", job[h].key, n, NoRank))
    BY <1>6 DEF UploadMax
  <2>9. DOMAIN job' = Handlers /\ \A g \in Handlers : IsJob(job[g])'
    BY <2>1, <2>2, <2>3, <1>2, <1>6 DEF UploadMax
  <2> QED
    BY <2>9, <2>2, <1>6 DEF UploadMax
<1>7. ASSUME NEW h \in Handlers, UploadInsert(h)
      PROVE  MediaTypeOK'
  <2>1. job[h].key \in issued /\ job[h].order \in Nat
    BY <1>7 DEF UploadInsert, IsJob
  <2>9. DOMAIN job' = Handlers /\ \A g \in Handlers : IsJob(job[g])'
    BY <1>4, <1>7 DEF UploadInsert, InsertRow
  <2> QED
    BY <2>9, <2>1, <1>7 DEF UploadInsert, InsertRow
<1>8. ASSUME NEW h \in Handlers, UploadInsertUnanswered(h)
      PROVE  MediaTypeOK'
  <2>1. job[h].key \in issued /\ job[h].order \in Nat
    BY <1>8 DEF UploadInsertUnanswered, IsJob
  <2>9. DOMAIN job' = Handlers /\ \A g \in Handlers : IsJob(job[g])'
    BY <1>4, <1>8 DEF UploadInsertUnanswered, InsertRow
  <2> QED
    BY <2>9, <2>1, <1>8 DEF UploadInsertUnanswered, InsertRow
<1>9. ASSUME NEW h \in Handlers, UploadFails(h)
      PROVE  MediaTypeOK'
  <2>1. job[h].key \in issued /\ job[h].order \in Nat
    BY <1>9 DEF UploadFails, IsJob
  <2>9. DOMAIN job' = Handlers /\ \A g \in Handlers : IsJob(job[g])'
    BY <1>4, <1>9 DEF UploadFails
  <2> QED
    BY <2>9, <2>1, <1>9 DEF UploadFails
<1>10. ASSUME NEW h \in Handlers, UploadSign(h)
      PROVE  MediaTypeOK'
  <2>1. job[h].key \in issued /\ job[h].order \in Nat
    BY <1>10 DEF UploadSign, IsJob
  <2>9. DOMAIN job' = Handlers /\ \A g \in Handlers : IsJob(job[g])'
    BY <1>3, <1>10 DEF UploadSign
  <2> QED
    BY <2>9, <2>1, <1>10 DEF UploadSign
<1>11. ASSUME NEW h \in Handlers, UploadSignFails(h)
      PROVE  MediaTypeOK'
  <2>1. job[h].key \in issued /\ job[h].order \in Nat
    BY <1>11 DEF UploadSignFails, IsJob
  <2>9. DOMAIN job' = Handlers /\ \A g \in Handlers : IsJob(job[g])'
    BY <1>4, <1>11 DEF UploadSignFails
  <2> QED
    BY <2>9, <2>1, <1>11 DEF UploadSignFails
<1>12. ASSUME NEW h \in Handlers, UploadCleanup(h)
      PROVE  MediaTypeOK'
  <2>1. job[h].key \in issued /\ job[h].order \in Nat
    BY <1>12 DEF UploadCleanup, IsJob
  <2>9. DOMAIN job' = Handlers /\ \A g \in Handlers : IsJob(job[g])'
    BY <1>3, <1>12 DEF UploadCleanup, DeleteObject, DeleteFails
  <2> QED
    BY <2>9, <2>1, <1>12 DEF UploadCleanup, DeleteObject, DeleteFails
<1>13. ASSUME NEW h \in Handlers, NEW k \in ObjectKeys, RemoveFind(h, k)
      PROVE  MediaTypeOK'
  <2>9. DOMAIN job' = Handlers /\ \A g \in Handlers : IsJob(job[g])'
    BY <1>2, <1>13 DEF RemoveFind
  <2> QED
    BY <2>9, <1>13 DEF RemoveFind
<1>14. ASSUME NEW h \in Handlers, RemoveRow(h)
      PROVE  MediaTypeOK'
  <2>1. job[h].key \in issued /\ job[h].order \in Nat
    BY <1>14 DEF RemoveRow, IsJob
  <2>9. DOMAIN job' = Handlers /\ \A g \in Handlers : IsJob(job[g])'
    BY <1>4, <1>14 DEF RemoveRow
  <2> QED
    BY <2>9, <2>1, <1>14 DEF RemoveRow
<1>15. ASSUME NEW h \in Handlers, RemoveRowFails(h)
      PROVE  MediaTypeOK'
  <2>1. job[h].key \in issued /\ job[h].order \in Nat
    BY <1>15 DEF RemoveRowFails, IsJob
  <2>9. DOMAIN job' = Handlers /\ \A g \in Handlers : IsJob(job[g])'
    BY <1>3, <1>15 DEF RemoveRowFails
  <2> QED
    BY <2>9, <2>1, <1>15 DEF RemoveRowFails
<1>16. ASSUME NEW h \in Handlers, RemoveObject(h)
      PROVE  MediaTypeOK'
  <2>1. job[h].key \in issued /\ job[h].order \in Nat
    BY <1>16 DEF RemoveObject, IsJob
  <2>9. DOMAIN job' = Handlers /\ \A g \in Handlers : IsJob(job[g])'
    BY <1>3, <1>16 DEF RemoveObject, DeleteObject, DeleteFails
  <2> QED
    BY <2>9, <2>1, <1>16 DEF RemoveObject, DeleteObject, DeleteFails
<1>17. ASSUME NEW h \in Handlers, ReorderCheck(h)
      PROVE  MediaTypeOK'
  <2>9. DOMAIN job' = Handlers /\ \A g \in Handlers : IsJob(job[g])'
    BY <1>17 DEF ReorderCheck, Goto, Job, IsJob
  <2> QED
    BY <2>9, <1>17 DEF ReorderCheck
<1>18. ASSUME NEW h \in Handlers, ReorderCommit(h)
      PROVE  MediaTypeOK'
  <2>1. \A k \in DOMAIN job[h].rank : job[h].rank[k] \in Nat
    BY <1>18 DEF IsJob
  <2>9. DOMAIN job' = Handlers /\ \A g \in Handlers : IsJob(job[g])'
    BY <1>3, <1>18 DEF ReorderCommit
  <2> QED
    BY <2>9, <2>1, <1>18 DEF ReorderCommit, Restores, Others
<1>19. ASSUME NEW h \in Handlers, ReorderFails(h)
      PROVE  MediaTypeOK'
  <2>9. DOMAIN job' = Handlers /\ \A g \in Handlers : IsJob(job[g])'
    BY <1>3, <1>19 DEF ReorderFails
  <2> QED
    BY <2>9, <1>19 DEF ReorderFails
<1>20. ASSUME NEW h \in Handlers, Stop(h)
      PROVE  MediaTypeOK'
  <2>1. Responsible(h) => job[h].key \in issued
    BY DEF IsJob, Responsible
  <2>9. DOMAIN job' = Handlers /\ \A g \in Handlers : IsJob(job[g])'
    BY <1>3, <1>20 DEF Stop, Abandon
  <2> QED
    BY <2>9, <2>1, <1>20 DEF Stop, Abandon
<1>21. ASSUME NEW k \in ObjectKeys, UploadPutFails(k)
      PROVE  MediaTypeOK'
  BY <1>21 DEF UploadPutFails, PutFails, IsJob
<1>22. CASE UNCHANGED <<store, media>>
  BY <1>22 DEF IsJob
<1> QED
  BY <1>5, <1>6, <1>7, <1>8, <1>9, <1>10, <1>11, <1>12, <1>13, <1>14, <1>15, <1>16, <1>17,
        <1>18, <1>19, <1>20, <1>21, <1>22, MediaKeyAssumption DEF MediaNext, Upload, Remove, Reorder

\* A put: the new key is nobody else's, and its object is the handler's to place.
LEMMA UploadPutKeeps ==
  ASSUME MediaTypeOK, MediaInv, NEW h \in Handlers, NEW k \in ObjectKeys, UploadPut(h, k)
  PROVE  MediaInv'
<1> USE DEF MediaTypeOK, StoreTypeOK, MediaInv, store, At, Goto, Job, NoRank, UploadPut,
      PutObject
<1>1. RowsHaveObjects'
  BY DEF RowsHaveObjects, UploadsFresh, DeletionsSafe, IsJob
<1>2. OrphansExplained'
  BY DEF OrphansExplained, Responsible, IsJob
<1>3. OrderedUnlessContended'
  BY DEF OrderedUnlessContended, OrderHolds, Others
<1>4. UploadsFresh'
  BY KeyAssumption DEF UploadsFresh, IsJob, DeletionsSafe
<1>5. DeletionsSafe'
  BY DEF DeletionsSafe, UploadsFresh, RowsHaveObjects, IsJob
<1>6. RanksHold'
  BY DEF RanksHold
<1>7. OrderHolds'
  BY DEF OrderHolds, Others, UploadsFresh, RanksHold, OrderedUnlessContended
<1> QED
  BY <1>1, <1>2, <1>3, <1>4, <1>5, <1>6, <1>7

\* Reading the maximum: the order chosen is beyond every row, and beyond every
\* position a pending reordering gives.
LEMMA UploadMaxKeeps ==
  ASSUME MediaTypeOK, MediaInv, NEW h \in Handlers, UploadMax(h)
  PROVE  MediaInv'
<1> USE DEF MediaTypeOK, StoreTypeOK, MediaInv, store, At, Goto, Job, NoRank, UploadMax
<1>1. RowsHaveObjects'
  BY DEF RowsHaveObjects, UploadsFresh, DeletionsSafe, IsJob
<1>2. OrphansExplained'
  <2>1. Responsible(h) /\ Responsible(h)' /\ job'[h].key = job[h].key
    BY DEF Responsible
  <2> QED
    BY <2>1 DEF OrphansExplained, Responsible
<1>3. OrderedUnlessContended'
  BY DEF OrderedUnlessContended, OrderHolds, Others
<1>4. UploadsFresh'
  <2>1. PICK n \in Nat : job' = [job EXCEPT ![h] = Job("insert", job[h].key, n, NoRank)]
    OBVIOUS
  <2>2. /\ job'[h].key = job[h].key /\ DOMAIN job'[h].rank = {}
        /\ \A g \in Handlers \ {h} : job'[g] = job[g]
    BY <2>1
  <2> QED
    BY <2>2 DEF UploadsFresh
<1>5. DeletionsSafe'
  BY DEF DeletionsSafe, UploadsFresh, RowsHaveObjects, IsJob
<1>6. RanksHold'
  BY DEF RanksHold
<1>7. OrderHolds'
  <2>1. PICK n \in Nat :
          /\ \A k \in rows : sortOrder[k] < n
          /\ job' = [job EXCEPT ![h] = Job("insert", job[h].key, n, NoRank)]
    OBVIOUS
  <2>2. /\ job'[h].pc = "insert" /\ job'[h].order = n
        /\ \A g \in Handlers \ {h} : job'[g] = job[g]
    BY <2>1
  <2>3. ~contended => \A S \in SUBSET rows : Cardinality(S) <= n
    BY <2>1, FS_Subset, Pigeonhole DEF RanksHold, OrderedUnlessContended
  <2> QED
    BY <2>1, <2>2, <2>3 DEF OrderHolds, Others
<1> QED
  BY <1>1, <1>2, <1>3, <1>4, <1>5, <1>6, <1>7

\* An insert: the row has its object, and comes after every other.
LEMMA UploadInsertKeeps ==
  ASSUME MediaTypeOK, MediaInv, NEW h \in Handlers, UploadInsert(h)
  PROVE  MediaInv'
<1> USE DEF MediaTypeOK, StoreTypeOK, MediaInv, store, At, Goto, Job, NoRank, UploadInsert,
      InsertRow, Advance
<1>1. RowsHaveObjects'
  BY DEF RowsHaveObjects, UploadsFresh, DeletionsSafe, IsJob
<1>2. OrphansExplained'
  BY DEF OrphansExplained, Responsible, IsJob
<1>3. OrderedUnlessContended'
  <2>1. \A j \in rows' : sortOrder'[j] = IF j = job[h].key THEN job[h].order ELSE sortOrder[j]
    BY DEF IsJob
  <2>2. ~contended => \A j \in rows' \ {job[h].key} : sortOrder[j] < job[h].order
    BY DEF OrderHolds
  <2>3. job[h].order \in Nat /\ \A j \in rows : sortOrder[j] \in Nat
    BY DEF IsJob
  <2> QED
    BY <2>1, <2>2, <2>3 DEF OrderedUnlessContended
<1>4. UploadsFresh'
  BY DEF UploadsFresh, IsJob, DeletionsSafe
<1>5. DeletionsSafe'
  BY DEF DeletionsSafe, UploadsFresh, RowsHaveObjects, IsJob
<1>6. RanksHold'
  BY FS_AddElement DEF RanksHold
<1>7. OrderHolds'
  BY DEF OrderHolds, Others, UploadsFresh, RanksHold, OrderedUnlessContended
<1> QED
  BY <1>1, <1>2, <1>3, <1>4, <1>5, <1>6, <1>7

\* The same, for an insert the handler does not hear of.
LEMMA UploadInsertUnansweredKeeps ==
  ASSUME MediaTypeOK, MediaInv, NEW h \in Handlers, UploadInsertUnanswered(h)
  PROVE  MediaInv'
<1> USE DEF MediaTypeOK, StoreTypeOK, MediaInv, store, At, Goto, Job, NoRank,
      UploadInsertUnanswered, InsertRow, Advance
<1>1. RowsHaveObjects'
  BY DEF RowsHaveObjects, UploadsFresh, DeletionsSafe, IsJob
<1>2. OrphansExplained'
  BY DEF OrphansExplained, Responsible, IsJob
<1>3. OrderedUnlessContended'
  <2>1. \A j \in rows' : sortOrder'[j] = IF j = job[h].key THEN job[h].order ELSE sortOrder[j]
    BY DEF IsJob
  <2>2. ~contended => \A j \in rows' \ {job[h].key} : sortOrder[j] < job[h].order
    BY DEF OrderHolds
  <2>3. job[h].order \in Nat /\ \A j \in rows : sortOrder[j] \in Nat
    BY DEF IsJob
  <2> QED
    BY <2>1, <2>2, <2>3 DEF OrderedUnlessContended
<1>4. UploadsFresh'
  BY DEF UploadsFresh, IsJob, DeletionsSafe
<1>5. DeletionsSafe'
  BY DEF DeletionsSafe, UploadsFresh, RowsHaveObjects, IsJob
<1>6. RanksHold'
  BY FS_AddElement DEF RanksHold
<1>7. OrderHolds'
  BY DEF OrderHolds, Others, UploadsFresh, RanksHold, OrderedUnlessContended
<1> QED
  BY <1>1, <1>2, <1>3, <1>4, <1>5, <1>6, <1>7

\* A failed aggregate or insert.
LEMMA UploadFailsKeeps ==
  ASSUME MediaTypeOK, MediaInv, NEW h \in Handlers, UploadFails(h)
  PROVE  MediaInv'
<1> USE DEF MediaTypeOK, StoreTypeOK, MediaInv, store, At, Goto, Job, NoRank, UploadFails,
      Advance
<1>1. RowsHaveObjects'
  BY DEF RowsHaveObjects, UploadsFresh, DeletionsSafe, IsJob
<1>2. OrphansExplained'
  BY DEF OrphansExplained, Responsible, IsJob
<1>3. OrderedUnlessContended'
  BY DEF OrderedUnlessContended, OrderHolds, Others
<1>4. UploadsFresh'
  BY DEF UploadsFresh, IsJob, DeletionsSafe
<1>5. DeletionsSafe'
  BY DEF DeletionsSafe, UploadsFresh, RowsHaveObjects, IsJob
<1>6. RanksHold'
  BY DEF RanksHold
<1>7. OrderHolds'
  BY DEF OrderHolds, Others, UploadsFresh, RanksHold, OrderedUnlessContended
<1> QED
  BY <1>1, <1>2, <1>3, <1>4, <1>5, <1>6, <1>7

\* The end of an upload.
LEMMA UploadSignKeeps ==
  ASSUME MediaTypeOK, MediaInv, NEW h \in Handlers, UploadSign(h)
  PROVE  MediaInv'
<1> USE DEF MediaTypeOK, StoreTypeOK, MediaInv, store, At, Goto, Job, NoRank, UploadSign,
      Finish, IdleJob
<1>1. RowsHaveObjects'
  BY DEF RowsHaveObjects, UploadsFresh, DeletionsSafe, IsJob
<1>2. OrphansExplained'
  BY DEF OrphansExplained, Responsible, IsJob
<1>3. OrderedUnlessContended'
  BY DEF OrderedUnlessContended, OrderHolds, Others
<1>4. UploadsFresh'
  BY KeyAssumption DEF UploadsFresh, IsJob, DeletionsSafe
<1>5. DeletionsSafe'
  BY DEF DeletionsSafe, UploadsFresh, RowsHaveObjects, IsJob
<1>6. RanksHold'
  BY DEF RanksHold
<1>7. OrderHolds'
  BY DEF OrderHolds, Others, UploadsFresh, RanksHold, OrderedUnlessContended
<1> QED
  BY <1>1, <1>2, <1>3, <1>4, <1>5, <1>6, <1>7

\* A failed signature: the row is torn.
LEMMA UploadSignFailsKeeps ==
  ASSUME MediaTypeOK, MediaInv, NEW h \in Handlers, UploadSignFails(h)
  PROVE  MediaInv'
<1> USE DEF MediaTypeOK, StoreTypeOK, MediaInv, store, At, Goto, Job, NoRank, UploadSignFails,
      Advance
<1>1. RowsHaveObjects'
  BY DEF RowsHaveObjects, UploadsFresh, DeletionsSafe, IsJob
<1>2. OrphansExplained'
  BY DEF OrphansExplained, Responsible, IsJob
<1>3. OrderedUnlessContended'
  BY DEF OrderedUnlessContended, OrderHolds, Others
<1>4. UploadsFresh'
  BY DEF UploadsFresh, IsJob, DeletionsSafe
<1>5. DeletionsSafe'
  BY DEF DeletionsSafe, UploadsFresh, RowsHaveObjects, IsJob
<1>6. RanksHold'
  BY DEF RanksHold
<1>7. OrderHolds'
  BY DEF OrderHolds, Others, UploadsFresh, RanksHold, OrderedUnlessContended
<1> QED
  BY <1>1, <1>2, <1>3, <1>4, <1>5, <1>6, <1>7

\* The catch block deletes the object of no row but a torn one.
LEMMA UploadCleanupKeeps ==
  ASSUME MediaTypeOK, MediaInv, NEW h \in Handlers, UploadCleanup(h)
  PROVE  MediaInv'
<1> USE DEF MediaTypeOK, StoreTypeOK, MediaInv, store, At, Goto, Job, NoRank, UploadCleanup,
      DeleteObject, DeleteFails, Finish, IdleJob
<1>1. RowsHaveObjects'
  BY DEF RowsHaveObjects, UploadsFresh, DeletionsSafe, IsJob
<1>2. OrphansExplained'
  BY DEF OrphansExplained, Responsible, IsJob
<1>3. OrderedUnlessContended'
  BY DEF OrderedUnlessContended, OrderHolds, Others
<1>4. UploadsFresh'
  BY KeyAssumption DEF UploadsFresh, IsJob, DeletionsSafe
<1>5. DeletionsSafe'
  BY DEF DeletionsSafe, UploadsFresh, RowsHaveObjects, IsJob
<1>6. RanksHold'
  BY DEF RanksHold
<1>7. OrderHolds'
  BY DEF OrderHolds, Others, UploadsFresh, RanksHold, OrderedUnlessContended
<1> QED
  BY <1>1, <1>2, <1>3, <1>4, <1>5, <1>6, <1>7

\* A removal finds its row, which no upload is about to insert.
LEMMA RemoveFindKeeps ==
  ASSUME MediaTypeOK, MediaInv, NEW h \in Handlers, NEW k \in ObjectKeys, RemoveFind(h, k)
  PROVE  MediaInv'
<1> USE DEF MediaTypeOK, StoreTypeOK, MediaInv, store, At, Goto, Job, NoRank, RemoveFind
<1>1. RowsHaveObjects'
  BY DEF RowsHaveObjects, UploadsFresh, DeletionsSafe, IsJob
<1>2. OrphansExplained'
  BY DEF OrphansExplained, Responsible, IsJob
<1>3. OrderedUnlessContended'
  BY DEF OrderedUnlessContended, OrderHolds, Others
<1>4. UploadsFresh'
  BY DEF UploadsFresh, IsJob, DeletionsSafe
<1>5. DeletionsSafe'
  BY DEF DeletionsSafe, UploadsFresh, RowsHaveObjects, IsJob
<1>6. RanksHold'
  BY DEF RanksHold
<1>7. OrderHolds'
  BY DEF OrderHolds, Others, UploadsFresh, RanksHold, OrderedUnlessContended
<1> QED
  BY <1>1, <1>2, <1>3, <1>4, <1>5, <1>6, <1>7

\* A removal deletes its row and owes the object.
LEMMA RemoveRowKeeps ==
  ASSUME MediaTypeOK, MediaInv, NEW h \in Handlers, RemoveRow(h)
  PROVE  MediaInv'
<1> USE DEF MediaTypeOK, StoreTypeOK, MediaInv, store, At, Goto, Job, NoRank, RemoveRow, Advance
<1>1. RowsHaveObjects'
  BY DEF RowsHaveObjects, UploadsFresh, DeletionsSafe, IsJob
<1>2. OrphansExplained'
  BY DEF OrphansExplained, Responsible, IsJob
<1>3. OrderedUnlessContended'
  BY DEF OrderedUnlessContended, OrderHolds, Others
<1>4. UploadsFresh'
  BY DEF UploadsFresh, IsJob, DeletionsSafe
<1>5. DeletionsSafe'
  BY DEF DeletionsSafe, UploadsFresh, RowsHaveObjects, IsJob
<1>6. RanksHold'
  BY FS_RemoveElement DEF RanksHold
<1>7. OrderHolds'
  BY DEF OrderHolds, Others, UploadsFresh, RanksHold, OrderedUnlessContended
<1> QED
  BY <1>1, <1>2, <1>3, <1>4, <1>5, <1>6, <1>7

\* A removal whose row has gone.
LEMMA RemoveRowFailsKeeps ==
  ASSUME MediaTypeOK, MediaInv, NEW h \in Handlers, RemoveRowFails(h)
  PROVE  MediaInv'
<1> USE DEF MediaTypeOK, StoreTypeOK, MediaInv, store, At, Goto, Job, NoRank, RemoveRowFails,
      Finish, IdleJob
<1>1. RowsHaveObjects'
  BY DEF RowsHaveObjects, UploadsFresh, DeletionsSafe, IsJob
<1>2. OrphansExplained'
  BY DEF OrphansExplained, Responsible, IsJob
<1>3. OrderedUnlessContended'
  BY DEF OrderedUnlessContended, OrderHolds, Others
<1>4. UploadsFresh'
  BY KeyAssumption DEF UploadsFresh, IsJob, DeletionsSafe
<1>5. DeletionsSafe'
  BY DEF DeletionsSafe, UploadsFresh, RowsHaveObjects, IsJob
<1>6. RanksHold'
  BY DEF RanksHold
<1>7. OrderHolds'
  BY DEF OrderHolds, Others, UploadsFresh, RanksHold, OrderedUnlessContended
<1> QED
  BY <1>1, <1>2, <1>3, <1>4, <1>5, <1>6, <1>7

\* A removal deletes the object of no row.
LEMMA RemoveObjectKeeps ==
  ASSUME MediaTypeOK, MediaInv, NEW h \in Handlers, RemoveObject(h)
  PROVE  MediaInv'
<1> USE DEF MediaTypeOK, StoreTypeOK, MediaInv, store, At, Goto, Job, NoRank, RemoveObject,
      DeleteObject, DeleteFails, Finish, IdleJob
<1>1. RowsHaveObjects'
  BY DEF RowsHaveObjects, UploadsFresh, DeletionsSafe, IsJob
<1>2. OrphansExplained'
  BY DEF OrphansExplained, Responsible, IsJob
<1>3. OrderedUnlessContended'
  BY DEF OrderedUnlessContended, OrderHolds, Others
<1>4. UploadsFresh'
  BY KeyAssumption DEF UploadsFresh, IsJob, DeletionsSafe
<1>5. DeletionsSafe'
  BY DEF DeletionsSafe, UploadsFresh, RowsHaveObjects, IsJob
<1>6. RanksHold'
  BY DEF RanksHold
<1>7. OrderHolds'
  BY DEF OrderHolds, Others, UploadsFresh, RanksHold, OrderedUnlessContended
<1> QED
  BY <1>1, <1>2, <1>3, <1>4, <1>5, <1>6, <1>7

\* A reordering is checked: by the pigeonhole principle a pending insert comes
\* after all its positions.
LEMMA ReorderCheckKeeps ==
  ASSUME MediaTypeOK, MediaInv, NEW h \in Handlers, ReorderCheck(h)
  PROVE  MediaInv'
<1> USE DEF MediaTypeOK, StoreTypeOK, MediaInv, store, At, Goto, Job, NoRank, ReorderCheck
<1>1. RowsHaveObjects'
  BY DEF RowsHaveObjects, UploadsFresh, DeletionsSafe, IsJob
<1>2. OrphansExplained'
  BY DEF OrphansExplained, Responsible, IsJob
<1>3. OrderedUnlessContended'
  BY DEF OrderedUnlessContended, OrderHolds, Others
<1>4. UploadsFresh'
  BY DEF UploadsFresh, IsJob, DeletionsSafe
<1>5. DeletionsSafe'
  BY DEF DeletionsSafe, UploadsFresh, RowsHaveObjects, IsJob
<1>6. RanksHold'
  <2>1. PICK rank \in [rows -> 0 .. Cardinality(rows) - 1] :
          /\ \A j, k \in rows : rank[j] = rank[k] => j = k
          /\ job' = [job EXCEPT ![h] = Job("reorder", Nil, 0, rank)]
    OBVIOUS
  <2>2. \A k \in rows : rank[k] < Cardinality(rows)
    BY FS_CardinalityType DEF RanksHold
  <2> QED
    BY <2>1, <2>2 DEF RanksHold
<1>7. OrderHolds'
  <2>1. ~contended => \A g \in Handlers : At(g, "insert") => Cardinality(rows) <= job[g].order
    <3> SUFFICES ASSUME ~contended, NEW g \in Handlers, At(g, "insert")
                 PROVE  Cardinality(rows) <= job[g].order
      OBVIOUS
    <3>1. job[g].order \in Nat /\ \A k \in rows : sortOrder[k] \in Nat /\ sortOrder[k] < job[g].order
      BY DEF OrderHolds, IsJob
    <3> QED
      BY <3>1, Pigeonhole DEF RanksHold, OrderedUnlessContended
  <2>2. PICK rank \in [rows -> 0 .. Cardinality(rows) - 1] :
          job' = [job EXCEPT ![h] = Job("reorder", Nil, 0, rank)]
    OBVIOUS
  <2>3. /\ job'[h].pc = "reorder" /\ DOMAIN job'[h].rank = rows
        /\ \A g \in Handlers \ {h} : job'[g] = job[g]
    BY <2>2
  <2> QED
    BY <2>1, <2>3 DEF OrderHolds, Others
<1> QED
  BY <1>1, <1>2, <1>3, <1>4, <1>5, <1>6, <1>7

\* A reordering is committed: its rows get distinct positions below the others.
LEMMA ReorderCommitKeeps ==
  ASSUME MediaTypeOK, MediaInv, NEW h \in Handlers, ReorderCommit(h)
  PROVE  MediaInv'
<1> USE DEF MediaTypeOK, StoreTypeOK, MediaInv, store, At, Goto, Job, NoRank, ReorderCommit,
      Restores, Finish, IdleJob
<1>1. RowsHaveObjects'
  BY DEF RowsHaveObjects, UploadsFresh, DeletionsSafe, IsJob
<1>2. OrphansExplained'
  BY DEF OrphansExplained, Responsible, IsJob
<1>3. OrderedUnlessContended'
  <2> DEFINE rank == job[h].rank
             n    == Cardinality(DOMAIN rank)
  <2>1. /\ \A k \in DOMAIN rank : rank[k] \in Nat /\ rank[k] < n
        /\ \A j, k \in DOMAIN rank : rank[j] = rank[k] => j = k
        /\ n \in Nat
    BY FS_CardinalityType DEF RanksHold, IsJob
  <2>2. \A k \in rows : sortOrder'[k] = IF k \in DOMAIN rank THEN rank[k] ELSE sortOrder[k]
    OBVIOUS
  <2>3. ~contended => \A k \in rows \ DOMAIN rank : sortOrder[k] \in Nat /\ n <= sortOrder[k]
    BY DEF OrderHolds
  <2>4. ~contended' => ~contended \/ DOMAIN rank = rows
    OBVIOUS
  <2>5. /\ rows' = rows
        /\ ~contended => \A j, k \in rows : sortOrder[j] = sortOrder[k] => j = k
    BY DEF OrderedUnlessContended
  <2> HIDE DEF rank, n, ReorderCommit, MediaTypeOK, MediaInv, Restores, Goto, Finish
  <2> QED
    BY <2>1, <2>2, <2>3, <2>4, <2>5 DEF OrderedUnlessContended
<1>4. UploadsFresh'
  BY DEF UploadsFresh, IsJob, DeletionsSafe
<1>5. DeletionsSafe'
  BY DEF DeletionsSafe, UploadsFresh, RowsHaveObjects, IsJob
<1>6. RanksHold'
  BY DEF RanksHold
<1>7. OrderHolds'
  <2> DEFINE rank == job[h].rank
             n    == Cardinality(DOMAIN rank)
  <2>1. /\ \A k \in DOMAIN rank : rank[k] \in Nat /\ rank[k] < n
        /\ \A j, k \in DOMAIN rank : rank[j] = rank[k] => j = k
        /\ n \in Nat
    BY FS_CardinalityType DEF RanksHold, IsJob
  <2>2. \A k \in rows : sortOrder'[k] = IF k \in DOMAIN rank THEN rank[k] ELSE sortOrder[k]
    OBVIOUS
  <2>3. ~contended => \A k \in rows \ DOMAIN rank : sortOrder[k] \in Nat /\ n <= sortOrder[k]
    BY DEF OrderHolds
  <2>4. ~contended' => ~contended \/ DOMAIN rank = rows
    OBVIOUS
  <2>5. ~contended /\ DOMAIN rank \subseteq rows =>
          \A g \in Handlers : At(g, "insert") =>
            /\ n <= job[g].order /\ job[g].order \in Nat
            /\ Others(g, "insert") = {}
            /\ \A k \in rows : sortOrder[k] < job[g].order
    BY DEF OrderHolds, IsJob
  <2>6. /\ rows' = rows /\ DOMAIN rank \subseteq rows
        /\ ~contended' => \A g \in Handlers \ {h} : ~At(g, "reorder")
        /\ ~contended' /\ contended => \A g \in Handlers \ {h} : ~At(g, "insert")
        /\ job'[h].pc = "idle"
        /\ \A g \in Handlers \ {h} : job'[g] = job[g]
    BY DEF Others
  <2> HIDE DEF rank, n, ReorderCommit, MediaTypeOK, MediaInv, Restores, Goto, Finish
  <2> QED
    BY <2>1, <2>2, <2>3, <2>4, <2>5, <2>6 DEF OrderHolds, Others
<1> QED
  BY <1>1, <1>2, <1>3, <1>4, <1>5, <1>6, <1>7

\* A reordering fails.
LEMMA ReorderFailsKeeps ==
  ASSUME MediaTypeOK, MediaInv, NEW h \in Handlers, ReorderFails(h)
  PROVE  MediaInv'
<1> USE DEF MediaTypeOK, StoreTypeOK, MediaInv, store, At, Goto, Job, NoRank, ReorderFails,
      Finish, IdleJob
<1>1. RowsHaveObjects'
  BY DEF RowsHaveObjects, UploadsFresh, DeletionsSafe, IsJob
<1>2. OrphansExplained'
  BY DEF OrphansExplained, Responsible, IsJob
<1>3. OrderedUnlessContended'
  BY DEF OrderedUnlessContended, OrderHolds, Others
<1>4. UploadsFresh'
  BY DEF UploadsFresh, IsJob, DeletionsSafe
<1>5. DeletionsSafe'
  BY DEF DeletionsSafe, UploadsFresh, RowsHaveObjects, IsJob
<1>6. RanksHold'
  BY DEF RanksHold
<1>7. OrderHolds'
  BY DEF OrderHolds, Others, UploadsFresh, RanksHold, OrderedUnlessContended
<1> QED
  BY <1>1, <1>2, <1>3, <1>4, <1>5, <1>6, <1>7

\* A handler stops, and its object is given up as lost.
LEMMA StopKeeps ==
  ASSUME MediaTypeOK, MediaInv, NEW h \in Handlers, Stop(h)
  PROVE  MediaInv'
<1> USE DEF MediaTypeOK, StoreTypeOK, MediaInv, store, At, Goto, Job, NoRank, Stop, Abandon,
      Finish, IdleJob
<1>1. RowsHaveObjects'
  BY DEF RowsHaveObjects, UploadsFresh, DeletionsSafe, IsJob
<1>2. OrphansExplained'
  BY DEF OrphansExplained, Responsible, IsJob
<1>3. OrderedUnlessContended'
  BY DEF OrderedUnlessContended, OrderHolds, Others
<1>4. UploadsFresh'
  BY KeyAssumption DEF UploadsFresh, IsJob, DeletionsSafe
<1>5. DeletionsSafe'
  BY DEF DeletionsSafe, UploadsFresh, RowsHaveObjects, IsJob
<1>6. RanksHold'
  BY DEF RanksHold
<1>7. OrderHolds'
  BY DEF OrderHolds, Others, UploadsFresh, RanksHold, OrderedUnlessContended
<1> QED
  BY <1>1, <1>2, <1>3, <1>4, <1>5, <1>6, <1>7

\* A put fails.
LEMMA UploadPutFailsKeeps ==
  ASSUME MediaTypeOK, MediaInv, NEW k \in ObjectKeys, UploadPutFails(k)
  PROVE  MediaInv'
<1> USE DEF MediaTypeOK, StoreTypeOK, MediaInv, store, At, Goto, Job, NoRank, UploadPutFails,
      PutFails, media
<1>1. RowsHaveObjects'
  BY DEF RowsHaveObjects, UploadsFresh, DeletionsSafe, IsJob
<1>2. OrphansExplained'
  BY DEF OrphansExplained, Responsible, IsJob
<1>3. OrderedUnlessContended'
  BY DEF OrderedUnlessContended, OrderHolds, Others
<1>4. UploadsFresh'
  BY DEF UploadsFresh, IsJob, DeletionsSafe
<1>5. DeletionsSafe'
  BY DEF DeletionsSafe, UploadsFresh, RowsHaveObjects, IsJob
<1>6. RanksHold'
  BY DEF RanksHold
<1>7. OrderHolds'
  BY DEF OrderHolds, Others, UploadsFresh, RanksHold, OrderedUnlessContended
<1> QED
  BY <1>1, <1>2, <1>3, <1>4, <1>5, <1>6, <1>7

\* The types and the invariant together are inductive.
LEMMA MediaStep ==
  ASSUME MediaTypeOK, MediaInv, [MediaNext]_<<store, media>>
  PROVE  MediaTypeOK' /\ MediaInv'
<1>1. MediaTypeOK'
  BY MediaTypeStep
<1>2. CASE UNCHANGED <<store, media>>
  <2>1. RowsHaveObjects' /\ OrphansExplained' /\ OrderedUnlessContended'
    BY <1>2 DEF store, media, At, MediaInv, RowsHaveObjects, OrphansExplained,
                    OrderedUnlessContended, Responsible
  <2>2. UploadsFresh' /\ DeletionsSafe' /\ RanksHold'
    BY <1>2 DEF store, media, At, MediaInv, UploadsFresh, DeletionsSafe, RanksHold
  <2>3. OrderHolds'
    BY <1>2 DEF store, media, At, MediaInv, OrderHolds, Others
  <2> QED
    BY <1>1, <2>1, <2>2, <2>3 DEF MediaInv
<1>3. ASSUME NEW h \in Handlers, Upload(h)
      PROVE  MediaInv'
  BY <1>3, UploadPutKeeps, UploadMaxKeeps, UploadInsertKeeps, UploadInsertUnansweredKeeps,
        UploadFailsKeeps, UploadSignKeeps, UploadSignFailsKeeps, UploadCleanupKeeps,
        MediaKeyAssumption DEF Upload
<1>4. ASSUME NEW h \in Handlers, Remove(h) \/ Reorder(h) \/ Stop(h)
      PROVE  MediaInv'
  BY <1>4, RemoveFindKeeps, RemoveRowKeeps, RemoveRowFailsKeeps, RemoveObjectKeeps,
        ReorderCheckKeeps, ReorderCommitKeeps, ReorderFailsKeeps, StopKeeps,
        MediaKeyAssumption DEF Remove, Reorder
<1>5. ASSUME NEW k \in ObjectKeys, UploadPutFails(k)
      PROVE  MediaInv'
  BY <1>5, UploadPutFailsKeeps
<1> QED
  BY <1>1, <1>2, <1>3, <1>4, <1>5, MediaKeyAssumption DEF MediaNext

\* The product media start empty.
LEMMA MediaInitial == MediaInit => MediaTypeOK /\ MediaInv
<1> SUFFICES ASSUME MediaInit
             PROVE  MediaTypeOK /\ MediaInv
  OBVIOUS
<1> USE DEF MediaInit, StoreInit, IdleJob, NoRank, Job
<1>1. MediaTypeOK
  BY DEF MediaTypeOK, StoreTypeOK, IsJob
<1>2. RowsHaveObjects /\ OrphansExplained /\ OrderedUnlessContended
  BY DEF RowsHaveObjects, OrphansExplained, OrderedUnlessContended
<1>3. UploadsFresh /\ DeletionsSafe /\ OrderHolds
  BY DEF UploadsFresh, DeletionsSafe, OrderHolds, At
<1>4. RanksHold
  BY FS_EmptySet DEF RanksHold, At
<1> QED
  BY <1>1, <1>2, <1>3, <1>4 DEF MediaInv

\* The invariant of the media rows and their objects.
THEOREM MediaInvCorrect == MediaSpec => [](MediaTypeOK /\ MediaInv)
<1>1. (MediaTypeOK /\ MediaInv) /\ [MediaNext]_<<store, media>> => (MediaTypeOK /\ MediaInv)'
  BY MediaStep
<1> QED
  BY <1>1, MediaInitial, PTL DEF MediaSpec

\* Types.
THEOREM MediaTypeCorrect == MediaSpec => []MediaTypeOK
BY MediaInvCorrect, PTL

\* No row without its object, but the torn.
THEOREM RowsHaveObjectsCorrect == MediaSpec => []RowsHaveObjects
<1>1. MediaInv => RowsHaveObjects
  BY DEF MediaInv
<1> QED
  BY <1>1, MediaInvCorrect, PTL

\* No object without a row or somebody to answer for it.
THEOREM OrphansExplainedCorrect == MediaSpec => []OrphansExplained
<1>1. MediaInv => OrphansExplained
  BY DEF MediaInv
<1> QED
  BY <1>1, MediaInvCorrect, PTL

\* Distinct sort orders, unless uploads or reorderings contend.
THEOREM OrderedCorrect == MediaSpec => []OrderedUnlessContended
<1>1. MediaInv => OrderedUnlessContended
  BY DEF MediaInv
<1> QED
  BY <1>1, MediaInvCorrect, PTL

-----------------------------------------------------------------------------
(* Registration                                                            *)

\* A put: the licence is nobody else's.
LEMMA RegisterPutKeeps ==
  ASSUME RegistrationTypeOK, RegistrationInv,
         NEW h \in Handlers, NEW k \in ObjectKeys, NEW e \in Emails, NEW x \in TaxIds, RegisterPut(h, k, e, x)
  PROVE  RegistrationTypeOK' /\ RegistrationInv'
<1> USE KeyAssumption, TaxIdAssumption DEF RegistrationTypeOK, RegistrationInv, StoreTypeOK,
      store, GotoForm, Proceed,
      Refuse, IsBusiness, FormStates, Form, NoForm, RegisterPut, PutObject
<1>1. RegistrationTypeOK'
  BY DEF RegistrationsHold, HoldsLicence, NewAccount, NewCompany
<1>2. LicencesStored'
  BY DEF LicencesStored, RegistrationsHold, HoldsLicence, NewCompany
<1>3. LicencesAccountedFor'
  BY DEF LicencesAccountedFor, HoldsLicence, NewCompany
<1>4. RegistrationsWhole'
  BY DEF RegistrationsWhole, RegistrationsHold, NewAccount, NewCompany, UsedEmails, UsedTaxIds
<1>5. RefusalsTrue'
  BY DEF RefusalsTrue, UsedEmails, UsedTaxIds
<1>6. RegistrationsHold'
  <2>1. /\ form'[h] = Form("account", e, x, k, "none")
        /\ \A g \in Handlers \ {h} : form'[g] = form[g]
    OBVIOUS
  <2>2. \A g \in Handlers : form[g].licence # k
    OBVIOUS
  <2>3. \A c \in companies : c.licence # k
    OBVIOUS
  <2>4. k \in objects' /\ objects \subseteq objects' /\ issued \subseteq issued'
    OBVIOUS
  <2>5. \A g \in Handlers \ {h} : HeldEmails(g)' = HeldEmails(g) /\ HeldTaxIds(g)' = HeldTaxIds(g)
    BY <2>1 DEF HeldEmails, HeldTaxIds
  <2> QED
    BY <2>1, <2>2, <2>3, <2>4, <2>5 DEF RegistrationsHold, HoldsLicence, UsedEmails, UsedTaxIds
<1> QED
  BY <1>1, <1>2, <1>3, <1>4, <1>5, <1>6

\* A customer's registration begins.
LEMMA RegisterCustomerKeeps ==
  ASSUME RegistrationTypeOK, RegistrationInv,
         NEW h \in Handlers, NEW e \in Emails, RegisterCustomer(h, e)
  PROVE  RegistrationTypeOK' /\ RegistrationInv'
<1> USE KeyAssumption, TaxIdAssumption DEF RegistrationTypeOK, RegistrationInv, StoreTypeOK,
      store, GotoForm, Proceed,
      Refuse, IsBusiness, FormStates, Form, NoForm, RegisterCustomer
<1>1. RegistrationTypeOK'
  BY DEF RegistrationsHold, HoldsLicence, NewAccount, NewCompany
<1>2. LicencesStored'
  BY DEF LicencesStored, RegistrationsHold, HoldsLicence, NewCompany
<1>3. LicencesAccountedFor'
  BY DEF LicencesAccountedFor, HoldsLicence, NewCompany
<1>4. RegistrationsWhole'
  BY DEF RegistrationsWhole, RegistrationsHold, NewAccount, NewCompany, UsedEmails, UsedTaxIds
<1>5. RefusalsTrue'
  BY DEF RefusalsTrue, UsedEmails, UsedTaxIds
<1>6. RegistrationsHold'
  BY DEF RegistrationsHold, HoldsLicence, UsedEmails, UsedTaxIds, HeldEmails, HeldTaxIds,
        NewAccount, NewCompany, LicencesStored
<1> QED
  BY <1>1, <1>2, <1>3, <1>4, <1>5, <1>6

\* The account is inserted: no other transaction holds its email.
LEMMA InsertAccountKeeps ==
  ASSUME RegistrationTypeOK, RegistrationInv,
         NEW h \in Handlers, InsertAccount(h)
  PROVE  RegistrationTypeOK' /\ RegistrationInv'
<1> USE KeyAssumption, TaxIdAssumption DEF RegistrationTypeOK, RegistrationInv, StoreTypeOK,
      store, GotoForm, Proceed,
      Refuse, IsBusiness, FormStates, Form, NoForm, InsertAccount
<1>1. RegistrationTypeOK'
  BY DEF RegistrationsHold, HoldsLicence, NewAccount, NewCompany
<1>2. LicencesStored'
  BY DEF LicencesStored, RegistrationsHold, HoldsLicence, NewCompany
<1>3. LicencesAccountedFor'
  BY DEF LicencesAccountedFor, HoldsLicence, NewCompany
<1>4. RegistrationsWhole'
  BY DEF RegistrationsWhole, RegistrationsHold, NewAccount, NewCompany, UsedEmails, UsedTaxIds
<1>5. RefusalsTrue'
  BY DEF RefusalsTrue, UsedEmails, UsedTaxIds
<1>6. RegistrationsHold'
  <2>1. /\ form'[h].pc = IF IsBusiness(h) THEN "company" ELSE "commit"
        /\ form'[h].email = form[h].email /\ form'[h].taxId = form[h].taxId
        /\ form'[h].licence = form[h].licence
        /\ \A g \in Handlers \ {h} : form'[g] = form[g]
    OBVIOUS
  <2>2. form[h].email \notin UsedEmails \cup HeldEmails(h)
    OBVIOUS
  <2>3. HeldEmails(h)' = HeldEmails(h)
    BY <2>1 DEF HeldEmails
  <2>4. \A g \in Handlers \ {h} : form[g].pc \in {"company", "commit"} =>
          form[g].email \notin HeldEmails(g)'
    BY <2>1, <2>2 DEF HeldEmails, RegistrationsHold
  <2>5. \A g \in Handlers \ {h} : form[g].pc = "commit" /\ IsBusiness(g) =>
          form[g].taxId \notin HeldTaxIds(g)'
    BY <2>1, TaxIdAssumption DEF HeldTaxIds, RegistrationsHold
  <2> QED
    BY <2>1, <2>2, <2>3, <2>4, <2>5 DEF RegistrationsHold, HoldsLicence, UsedEmails, UsedTaxIds
<1> QED
  BY <1>1, <1>2, <1>3, <1>4, <1>5, <1>6

\* The email is an account's.
LEMMA EmailTakenKeeps ==
  ASSUME RegistrationTypeOK, RegistrationInv,
         NEW h \in Handlers, EmailTaken(h)
  PROVE  RegistrationTypeOK' /\ RegistrationInv'
<1> USE KeyAssumption, TaxIdAssumption DEF RegistrationTypeOK, RegistrationInv, StoreTypeOK,
      store, GotoForm, Proceed,
      Refuse, IsBusiness, FormStates, Form, NoForm, EmailTaken
<1>1. RegistrationTypeOK'
  BY DEF RegistrationsHold, HoldsLicence, NewAccount, NewCompany
<1>2. LicencesStored'
  BY DEF LicencesStored, RegistrationsHold, HoldsLicence, NewCompany
<1>3. LicencesAccountedFor'
  BY DEF LicencesAccountedFor, HoldsLicence, NewCompany
<1>4. RegistrationsWhole'
  BY DEF RegistrationsWhole, RegistrationsHold, NewAccount, NewCompany, UsedEmails, UsedTaxIds
<1>5. RefusalsTrue'
  BY DEF RefusalsTrue, UsedEmails, UsedTaxIds
<1>6. RegistrationsHold'
  BY DEF RegistrationsHold, HoldsLicence, UsedEmails, UsedTaxIds, HeldEmails, HeldTaxIds,
        NewAccount, NewCompany, LicencesStored
<1> QED
  BY <1>1, <1>2, <1>3, <1>4, <1>5, <1>6

\* The business account is inserted: no other transaction holds its taxId.
LEMMA InsertCompanyKeeps ==
  ASSUME RegistrationTypeOK, RegistrationInv,
         NEW h \in Handlers, InsertCompany(h)
  PROVE  RegistrationTypeOK' /\ RegistrationInv'
<1> USE KeyAssumption, TaxIdAssumption DEF RegistrationTypeOK, RegistrationInv, StoreTypeOK,
      store, GotoForm, Proceed,
      Refuse, IsBusiness, FormStates, Form, NoForm, InsertCompany
<1>1. RegistrationTypeOK'
  BY DEF RegistrationsHold, HoldsLicence, NewAccount, NewCompany
<1>2. LicencesStored'
  BY DEF LicencesStored, RegistrationsHold, HoldsLicence, NewCompany
<1>3. LicencesAccountedFor'
  BY DEF LicencesAccountedFor, HoldsLicence, NewCompany
<1>4. RegistrationsWhole'
  BY DEF RegistrationsWhole, RegistrationsHold, NewAccount, NewCompany, UsedEmails, UsedTaxIds
<1>5. RefusalsTrue'
  BY DEF RefusalsTrue, UsedEmails, UsedTaxIds
<1>6. RegistrationsHold'
  BY DEF RegistrationsHold, HoldsLicence, UsedEmails, UsedTaxIds, HeldEmails, HeldTaxIds,
        NewAccount, NewCompany, LicencesStored
<1> QED
  BY <1>1, <1>2, <1>3, <1>4, <1>5, <1>6

\* The taxId is a business account's.
LEMMA TaxIdTakenKeeps ==
  ASSUME RegistrationTypeOK, RegistrationInv,
         NEW h \in Handlers, TaxIdTaken(h)
  PROVE  RegistrationTypeOK' /\ RegistrationInv'
<1> USE KeyAssumption, TaxIdAssumption DEF RegistrationTypeOK, RegistrationInv, StoreTypeOK,
      store, GotoForm, Proceed,
      Refuse, IsBusiness, FormStates, Form, NoForm, TaxIdTaken
<1>1. RegistrationTypeOK'
  BY DEF RegistrationsHold, HoldsLicence, NewAccount, NewCompany
<1>2. LicencesStored'
  BY DEF LicencesStored, RegistrationsHold, HoldsLicence, NewCompany
<1>3. LicencesAccountedFor'
  BY DEF LicencesAccountedFor, HoldsLicence, NewCompany
<1>4. RegistrationsWhole'
  BY DEF RegistrationsWhole, RegistrationsHold, NewAccount, NewCompany, UsedEmails, UsedTaxIds
<1>5. RefusalsTrue'
  BY DEF RefusalsTrue, UsedEmails, UsedTaxIds
<1>6. RegistrationsHold'
  BY DEF RegistrationsHold, HoldsLicence, UsedEmails, UsedTaxIds, HeldEmails, HeldTaxIds,
        NewAccount, NewCompany, LicencesStored
<1> QED
  BY <1>1, <1>2, <1>3, <1>4, <1>5, <1>6

\* A commit: what was held is still free of committed rows.
LEMMA CommitKeeps ==
  ASSUME RegistrationTypeOK, RegistrationInv,
         NEW h \in Handlers, Commit(h)
  PROVE  RegistrationTypeOK' /\ RegistrationInv'
<1> USE KeyAssumption, TaxIdAssumption DEF RegistrationTypeOK, RegistrationInv, StoreTypeOK,
      store, GotoForm, Proceed,
      Refuse, IsBusiness, FormStates, Form, NoForm, Commit, CommitRows
<1>1. RegistrationTypeOK'
  <2>1. NewAccount(h) \in [email : Emails, business : BOOLEAN]
    BY DEF NewAccount, RegistrationsHold
  <2>2. IsBusiness(h) => NewCompany(h) \in [email : Emails, taxId : TaxIds, licence : issued]
    BY DEF NewCompany, RegistrationsHold, HoldsLicence
  <2>3. /\ accounts' = accounts \cup {NewAccount(h)}
        /\ companies' \subseteq companies \cup {NewCompany(h)}
        /\ ~IsBusiness(h) => companies' = companies
    OBVIOUS
  <2>4. form' \in [Handlers -> FormStates]
    OBVIOUS
  <2>5. StoreTypeOK' /\ issued' = issued /\ unheard' \subseteq issued
    BY DEF RegistrationsHold, HoldsLicence
  <2> QED
    BY <2>1, <2>2, <2>3, <2>4, <2>5
<1>2. LicencesStored'
  BY DEF LicencesStored, RegistrationsHold, HoldsLicence, NewCompany
<1>3. LicencesAccountedFor'
  <2>1. \A g \in Handlers \ {h} : form'[g] = form[g]
    OBVIOUS
  <2>2. IsBusiness(h) => form[h].licence \in {c.licence : c \in companies'}
    <3>1. NewCompany(h).licence = form[h].licence
      BY DEF NewCompany
    <3>2. IsBusiness(h) => NewCompany(h) \in companies'
      OBVIOUS
    <3> QED
      BY <3>1, <3>2
  <2>3. HoldsLicence(h) => IsBusiness(h)
    BY DEF HoldsLicence
  <2>4. \A g \in Handlers \ {h} : HoldsLicence(g) => HoldsLicence(g)'
    BY <2>1 DEF HoldsLicence
  <2>5. companies \subseteq companies'
    OBVIOUS
  <2> QED
    BY <2>1, <2>2, <2>3, <2>4, <2>5 DEF LicencesAccountedFor
<1>4. RegistrationsWhole'
  <2>1. /\ accounts' = accounts \cup {NewAccount(h)}
        /\ companies' = IF IsBusiness(h) THEN companies \cup {NewCompany(h)} ELSE companies
    OBVIOUS
  <2>2. /\ NewAccount(h).email = form[h].email /\ NewAccount(h).business = IsBusiness(h)
        /\ NewCompany(h).email = form[h].email /\ NewCompany(h).taxId = form[h].taxId
    BY DEF NewAccount, NewCompany
  <2>3. /\ \A a \in accounts : a.email # form[h].email
        /\ IsBusiness(h) => \A c \in companies : c.taxId # form[h].taxId
    BY DEF RegistrationsHold, UsedEmails, UsedTaxIds
  <2>4. /\ \A a, b \in accounts : a.email = b.email => a = b
        /\ \A c, d \in companies : c.taxId = d.taxId => c = d
        /\ {a.email : a \in {b \in accounts : b.business}} = {c.email : c \in companies}
    BY DEF RegistrationsWhole
  <2> HIDE DEF Commit, CommitUnanswered, CommitRows, RegistrationTypeOK, RegistrationInv, IsBusiness
  <2>5. \A a, b \in accounts' : a.email = b.email => a = b
    BY <2>1, <2>2, <2>3, <2>4
  <2>6. \A c, d \in companies' : c.taxId = d.taxId => c = d
    BY <2>1, <2>2, <2>3, <2>4
  <2>7. {a.email : a \in {b \in accounts' : b.business}} = {c.email : c \in companies'}
    <3>1. CASE IsBusiness(h)
      <4>1. {a.email : a \in {b \in accounts' : b.business}}
              = {a.email : a \in {b \in accounts : b.business}} \cup {form[h].email}
        BY <2>1, <2>2, <3>1
      <4>2. {c.email : c \in companies'} = {c.email : c \in companies} \cup {form[h].email}
        BY <2>1, <2>2, <3>1
      <4> QED
        BY <2>4, <4>1, <4>2
    <3>2. CASE ~IsBusiness(h)
      BY <2>1, <2>2, <2>4, <3>2
    <3> QED
      BY <3>1, <3>2
  <2> QED
    BY <2>5, <2>6, <2>7 DEF RegistrationsWhole
<1>5. RefusalsTrue'
  BY DEF RefusalsTrue, UsedEmails, UsedTaxIds
<1>6. RegistrationsHold'
  BY DEF RegistrationsHold, HoldsLicence, UsedEmails, UsedTaxIds, HeldEmails, HeldTaxIds,
        NewAccount, NewCompany, LicencesStored
<1> QED
  BY <1>1, <1>2, <1>3, <1>4, <1>5, <1>6

\* The same, unheard of.
LEMMA CommitUnansweredKeeps ==
  ASSUME RegistrationTypeOK, RegistrationInv,
         NEW h \in Handlers, CommitUnanswered(h)
  PROVE  RegistrationTypeOK' /\ RegistrationInv'
<1> USE KeyAssumption, TaxIdAssumption DEF RegistrationTypeOK, RegistrationInv, StoreTypeOK,
      store, GotoForm, Proceed,
      Refuse, IsBusiness, FormStates, Form, NoForm, CommitUnanswered, CommitRows
<1>1. RegistrationTypeOK'
  <2>1. NewAccount(h) \in [email : Emails, business : BOOLEAN]
    BY DEF NewAccount, RegistrationsHold
  <2>2. IsBusiness(h) => NewCompany(h) \in [email : Emails, taxId : TaxIds, licence : issued]
    BY DEF NewCompany, RegistrationsHold, HoldsLicence
  <2>3. /\ accounts' = accounts \cup {NewAccount(h)}
        /\ companies' \subseteq companies \cup {NewCompany(h)}
        /\ ~IsBusiness(h) => companies' = companies
    OBVIOUS
  <2>4. form' \in [Handlers -> FormStates]
    OBVIOUS
  <2>5. StoreTypeOK' /\ issued' = issued /\ unheard' \subseteq issued
    BY DEF RegistrationsHold, HoldsLicence
  <2> QED
    BY <2>1, <2>2, <2>3, <2>4, <2>5
<1>2. LicencesStored'
  BY DEF LicencesStored, RegistrationsHold, HoldsLicence, NewCompany
<1>3. LicencesAccountedFor'
  BY DEF LicencesAccountedFor, HoldsLicence, NewCompany
<1>4. RegistrationsWhole'
  <2>1. /\ accounts' = accounts \cup {NewAccount(h)}
        /\ companies' = IF IsBusiness(h) THEN companies \cup {NewCompany(h)} ELSE companies
    OBVIOUS
  <2>2. /\ NewAccount(h).email = form[h].email /\ NewAccount(h).business = IsBusiness(h)
        /\ NewCompany(h).email = form[h].email /\ NewCompany(h).taxId = form[h].taxId
    BY DEF NewAccount, NewCompany
  <2>3. /\ \A a \in accounts : a.email # form[h].email
        /\ IsBusiness(h) => \A c \in companies : c.taxId # form[h].taxId
    BY DEF RegistrationsHold, UsedEmails, UsedTaxIds
  <2>4. /\ \A a, b \in accounts : a.email = b.email => a = b
        /\ \A c, d \in companies : c.taxId = d.taxId => c = d
        /\ {a.email : a \in {b \in accounts : b.business}} = {c.email : c \in companies}
    BY DEF RegistrationsWhole
  <2> HIDE DEF Commit, CommitUnanswered, CommitRows, RegistrationTypeOK, RegistrationInv, IsBusiness
  <2>5. \A a, b \in accounts' : a.email = b.email => a = b
    BY <2>1, <2>2, <2>3, <2>4
  <2>6. \A c, d \in companies' : c.taxId = d.taxId => c = d
    BY <2>1, <2>2, <2>3, <2>4
  <2>7. {a.email : a \in {b \in accounts' : b.business}} = {c.email : c \in companies'}
    <3>1. CASE IsBusiness(h)
      <4>1. {a.email : a \in {b \in accounts' : b.business}}
              = {a.email : a \in {b \in accounts : b.business}} \cup {form[h].email}
        BY <2>1, <2>2, <3>1
      <4>2. {c.email : c \in companies'} = {c.email : c \in companies} \cup {form[h].email}
        BY <2>1, <2>2, <3>1
      <4> QED
        BY <2>4, <4>1, <4>2
    <3>2. CASE ~IsBusiness(h)
      BY <2>1, <2>2, <2>4, <3>2
    <3> QED
      BY <3>1, <3>2
  <2> QED
    BY <2>5, <2>6, <2>7 DEF RegistrationsWhole
<1>5. RefusalsTrue'
  BY DEF RefusalsTrue, UsedEmails, UsedTaxIds
<1>6. RegistrationsHold'
  BY DEF RegistrationsHold, HoldsLicence, UsedEmails, UsedTaxIds, HeldEmails, HeldTaxIds,
        NewAccount, NewCompany, LicencesStored
<1> QED
  BY <1>1, <1>2, <1>3, <1>4, <1>5, <1>6

\* A rollback.
LEMMA RollbackKeeps ==
  ASSUME RegistrationTypeOK, RegistrationInv,
         NEW h \in Handlers, Rollback(h)
  PROVE  RegistrationTypeOK' /\ RegistrationInv'
<1> USE KeyAssumption, TaxIdAssumption DEF RegistrationTypeOK, RegistrationInv, StoreTypeOK,
      store, GotoForm, Proceed,
      Refuse, IsBusiness, FormStates, Form, NoForm, Rollback
<1>1. RegistrationTypeOK'
  BY DEF RegistrationsHold, HoldsLicence, NewAccount, NewCompany
<1>2. LicencesStored'
  BY DEF LicencesStored, RegistrationsHold, HoldsLicence, NewCompany
<1>3. LicencesAccountedFor'
  BY DEF LicencesAccountedFor, HoldsLicence, NewCompany
<1>4. RegistrationsWhole'
  BY DEF RegistrationsWhole, RegistrationsHold, NewAccount, NewCompany, UsedEmails, UsedTaxIds
<1>5. RefusalsTrue'
  BY DEF RefusalsTrue, UsedEmails, UsedTaxIds
<1>6. RegistrationsHold'
  BY DEF RegistrationsHold, HoldsLicence, UsedEmails, UsedTaxIds, HeldEmails, HeldTaxIds,
        NewAccount, NewCompany, LicencesStored
<1> QED
  BY <1>1, <1>2, <1>3, <1>4, <1>5, <1>6

\* The catch block deletes no licence of a business account, but one unheard of.
LEMMA DiscardLicenceKeeps ==
  ASSUME RegistrationTypeOK, RegistrationInv,
         NEW h \in Handlers, DiscardLicence(h)
  PROVE  RegistrationTypeOK' /\ RegistrationInv'
<1> USE KeyAssumption, TaxIdAssumption DEF RegistrationTypeOK, RegistrationInv, StoreTypeOK,
      store, GotoForm, Proceed,
      Refuse, IsBusiness, FormStates, Form, NoForm, DiscardLicence, DeleteObject, DeleteFails
<1>1. RegistrationTypeOK'
  BY DEF RegistrationsHold, HoldsLicence, NewAccount, NewCompany
<1>2. LicencesStored'
  BY DEF LicencesStored, RegistrationsHold, HoldsLicence, NewCompany
<1>3. LicencesAccountedFor'
  BY DEF LicencesAccountedFor, HoldsLicence, NewCompany
<1>4. RegistrationsWhole'
  BY DEF RegistrationsWhole, RegistrationsHold, NewAccount, NewCompany, UsedEmails, UsedTaxIds
<1>5. RefusalsTrue'
  BY DEF RefusalsTrue, UsedEmails, UsedTaxIds
<1>6. RegistrationsHold'
  BY DEF RegistrationsHold, HoldsLicence, UsedEmails, UsedTaxIds, HeldEmails, HeldTaxIds,
        NewAccount, NewCompany, LicencesStored
<1> QED
  BY <1>1, <1>2, <1>3, <1>4, <1>5, <1>6

\* The answer.
LEMMA AnswerFormKeeps ==
  ASSUME RegistrationTypeOK, RegistrationInv,
         NEW h \in Handlers, AnswerForm(h)
  PROVE  RegistrationTypeOK' /\ RegistrationInv'
<1> USE KeyAssumption, TaxIdAssumption DEF RegistrationTypeOK, RegistrationInv, StoreTypeOK,
      store, GotoForm, Proceed,
      Refuse, IsBusiness, FormStates, Form, NoForm, AnswerForm
<1>1. RegistrationTypeOK'
  BY DEF RegistrationsHold, HoldsLicence, NewAccount, NewCompany
<1>2. LicencesStored'
  BY DEF LicencesStored, RegistrationsHold, HoldsLicence, NewCompany
<1>3. LicencesAccountedFor'
  BY DEF LicencesAccountedFor, HoldsLicence, NewCompany
<1>4. RegistrationsWhole'
  BY DEF RegistrationsWhole, RegistrationsHold, NewAccount, NewCompany, UsedEmails, UsedTaxIds
<1>5. RefusalsTrue'
  BY DEF RefusalsTrue, UsedEmails, UsedTaxIds
<1>6. RegistrationsHold'
  BY DEF RegistrationsHold, HoldsLicence, UsedEmails, UsedTaxIds, HeldEmails, HeldTaxIds,
        NewAccount, NewCompany, LicencesStored
<1> QED
  BY <1>1, <1>2, <1>3, <1>4, <1>5, <1>6

\* A stop: the licence is given up as lost.
LEMMA CrashKeeps ==
  ASSUME RegistrationTypeOK, RegistrationInv,
         NEW h \in Handlers, Crash(h)
  PROVE  RegistrationTypeOK' /\ RegistrationInv'
<1> USE KeyAssumption, TaxIdAssumption DEF RegistrationTypeOK, RegistrationInv, StoreTypeOK,
      store, GotoForm, Proceed,
      Refuse, IsBusiness, FormStates, Form, NoForm, Crash, Abandon
<1>1. RegistrationTypeOK'
  BY DEF RegistrationsHold, HoldsLicence, NewAccount, NewCompany
<1>2. LicencesStored'
  BY DEF LicencesStored, RegistrationsHold, HoldsLicence, NewCompany
<1>3. LicencesAccountedFor'
  BY DEF LicencesAccountedFor, HoldsLicence, NewCompany
<1>4. RegistrationsWhole'
  BY DEF RegistrationsWhole, RegistrationsHold, NewAccount, NewCompany, UsedEmails, UsedTaxIds
<1>5. RefusalsTrue'
  BY DEF RefusalsTrue, UsedEmails, UsedTaxIds
<1>6. RegistrationsHold'
  BY DEF RegistrationsHold, HoldsLicence, UsedEmails, UsedTaxIds, HeldEmails, HeldTaxIds,
        NewAccount, NewCompany, LicencesStored
<1> QED
  BY <1>1, <1>2, <1>3, <1>4, <1>5, <1>6

\* A put fails.
LEMMA RegisterPutFailsKeeps ==
  ASSUME RegistrationTypeOK, RegistrationInv,
         NEW k \in ObjectKeys, RegisterPutFails(k)
  PROVE  RegistrationTypeOK' /\ RegistrationInv'
<1> USE KeyAssumption, TaxIdAssumption DEF RegistrationTypeOK, RegistrationInv, StoreTypeOK,
      store, GotoForm, Proceed,
      Refuse, IsBusiness, FormStates, Form, NoForm, RegisterPutFails, PutFails, registry
<1>1. RegistrationTypeOK'
  BY DEF RegistrationsHold, HoldsLicence, NewAccount, NewCompany
<1>2. LicencesStored'
  BY DEF LicencesStored, RegistrationsHold, HoldsLicence, NewCompany
<1>3. LicencesAccountedFor'
  BY DEF LicencesAccountedFor, HoldsLicence, NewCompany
<1>4. RegistrationsWhole'
  BY DEF RegistrationsWhole, RegistrationsHold, NewAccount, NewCompany, UsedEmails, UsedTaxIds
<1>5. RefusalsTrue'
  BY DEF RefusalsTrue, UsedEmails, UsedTaxIds
<1>6. RegistrationsHold'
  BY DEF RegistrationsHold, HoldsLicence, UsedEmails, UsedTaxIds, HeldEmails, HeldTaxIds,
        NewAccount, NewCompany, LicencesStored
<1> QED
  BY <1>1, <1>2, <1>3, <1>4, <1>5, <1>6

\* The types and the invariant together are inductive.
LEMMA RegistrationStepKeeps ==
  ASSUME RegistrationTypeOK, RegistrationInv, [RegistrationNext]_<<store, registry>>
  PROVE  RegistrationTypeOK' /\ RegistrationInv'
<1>1. ASSUME NEW h \in Handlers, RegistrationStep(h)
      PROVE  RegistrationTypeOK' /\ RegistrationInv'
  BY <1>1, RegisterPutKeeps, RegisterCustomerKeeps, InsertAccountKeeps, EmailTakenKeeps,
        InsertCompanyKeeps, TaxIdTakenKeeps, CommitKeeps, CommitUnansweredKeeps,
        RollbackKeeps, DiscardLicenceKeeps, AnswerFormKeeps, CrashKeeps,
        LicenceKeyAssumption DEF RegistrationStep
<1>2. ASSUME NEW k \in ObjectKeys, RegisterPutFails(k)
      PROVE  RegistrationTypeOK' /\ RegistrationInv'
  BY <1>2, RegisterPutFailsKeeps
<1>3. CASE UNCHANGED <<store, registry>>
  <2>1. RegistrationTypeOK'
    BY <1>3 DEF RegistrationTypeOK, StoreTypeOK, FormStates, store, registry
  <2>2. LicencesStored' /\ LicencesAccountedFor'
    BY <1>3 DEF RegistrationInv, LicencesStored, LicencesAccountedFor, HoldsLicence, IsBusiness,
                store, registry
  <2>3. RegistrationsWhole' /\ RefusalsTrue'
    BY <1>3 DEF RegistrationInv, RegistrationsWhole, RefusalsTrue, UsedEmails, UsedTaxIds,
                store, registry
  <2>4. RegistrationsHold'
    BY <1>3 DEF RegistrationInv, RegistrationsHold, HoldsLicence, IsBusiness, UsedEmails,
                UsedTaxIds, HeldEmails, HeldTaxIds, store, registry
  <2> QED
    BY <2>1, <2>2, <2>3, <2>4 DEF RegistrationInv
<1> QED
  BY <1>1, <1>2, <1>3, LicenceKeyAssumption DEF RegistrationNext

\* No registration has begun.
LEMMA RegistrationInitial == RegistrationInit => RegistrationTypeOK /\ RegistrationInv
<1> SUFFICES ASSUME RegistrationInit
             PROVE  RegistrationTypeOK /\ RegistrationInv
  OBVIOUS
<1> USE DEF RegistrationInit, StoreInit, NoForm, Form
<1>1. RegistrationTypeOK
  BY DEF RegistrationTypeOK, StoreTypeOK, FormStates
<1>2. LicencesStored /\ LicencesAccountedFor /\ RefusalsTrue
  BY DEF LicencesStored, LicencesAccountedFor, RefusalsTrue
<1>3. RegistrationsWhole
  BY DEF RegistrationsWhole
<1>4. RegistrationsHold
  BY DEF RegistrationsHold, IsBusiness, HoldsLicence
<1> QED
  BY <1>1, <1>2, <1>3, <1>4 DEF RegistrationInv

\* The invariant of the registrations.
THEOREM RegistrationInvCorrect == RegistrationSpec => [](RegistrationTypeOK /\ RegistrationInv)
<1>1. (RegistrationTypeOK /\ RegistrationInv) /\ [RegistrationNext]_<<store, registry>>
        => (RegistrationTypeOK /\ RegistrationInv)'
  BY RegistrationStepKeeps
<1> QED
  BY <1>1, RegistrationInitial, PTL DEF RegistrationSpec

\* Types.
THEOREM RegistrationTypeCorrect == RegistrationSpec => []RegistrationTypeOK
BY RegistrationInvCorrect, PTL

\* No business account without its licence, but the unheard.
THEOREM LicencesStoredCorrect == RegistrationSpec => []LicencesStored
<1>1. RegistrationInv => LicencesStored
  BY DEF RegistrationInv
<1> QED
  BY <1>1, RegistrationInvCorrect, PTL

\* No licence without a business account or somebody to answer for it.
THEOREM LicencesAccountedForCorrect == RegistrationSpec => []LicencesAccountedFor
<1>1. RegistrationInv => LicencesAccountedFor
  BY DEF RegistrationInv
<1> QED
  BY <1>1, RegistrationInvCorrect, PTL

\* Accounts and business accounts exist together, once for each name.
THEOREM RegistrationsWholeCorrect == RegistrationSpec => []RegistrationsWhole
<1>1. RegistrationInv => RegistrationsWhole
  BY DEF RegistrationInv
<1> QED
  BY <1>1, RegistrationInvCorrect, PTL

\* A conflict is answered only where there is one.
THEOREM RefusalsTrueCorrect == RegistrationSpec => []RefusalsTrue
<1>1. RegistrationInv => RefusalsTrue
  BY DEF RegistrationInv
<1> QED
  BY <1>1, RegistrationInvCorrect, PTL

-----------------------------------------------------------------------------
(* Storage: both over one object store.                                    *)

\* The part that does not run stays as it began.
Unused ==
  /\ part = "media" => accounts = {} /\ companies = {} /\ form = [h \in Handlers |-> NoForm] /\ unheard = {}
  /\ part = "registration" =>
       /\ rows = {} /\ sortOrder = [k \in ObjectKeys |-> 0]
       /\ job = [h \in Handlers |-> IdleJob] /\ torn = {} /\ contended = FALSE

StorageInv ==
  /\ part \in {"media", "registration"}
  /\ part = "media" => MediaTypeOK /\ MediaInv
  /\ part = "registration" => RegistrationTypeOK /\ RegistrationInv
  /\ Unused

\* The invariants of the parts are one of their composition.
LEMMA StorageStepKeeps ==
  ASSUME StorageInv, [StorageNext]_<<part, store, registry, media>>
  PROVE  StorageInv'
<1>1. part' = part
  BY DEF StorageNext
<1>2. Unused'
  <2>1. part = "media" => UNCHANGED registry
    BY DEF StorageInv, StorageNext
  <2>2. part = "registration" => UNCHANGED media
    BY DEF StorageInv, StorageNext
  <2> QED
    BY <1>1, <2>1, <2>2 DEF StorageInv, Unused, registry, media
<1>3. CASE part = "media"
  <2>1. [MediaNext]_<<store, media>>
    BY <1>3 DEF StorageNext
  <2>2. MediaTypeOK' /\ MediaInv'
    BY <1>3, <2>1, MediaStep DEF StorageInv
  <2> QED
    BY <1>1, <1>2, <1>3, <2>2 DEF StorageInv
<1>4. CASE part = "registration"
  <2>1. [RegistrationNext]_<<store, registry>>
    BY <1>4 DEF StorageNext
  <2>2. RegistrationTypeOK' /\ RegistrationInv'
    BY <1>4, <2>1, RegistrationStepKeeps DEF StorageInv
  <2> QED
    BY <1>1, <1>2, <1>4, <2>2 DEF StorageInv
<1> QED
  BY <1>3, <1>4 DEF StorageInv

\* Whatever the part, both modules are well typed.
LEMMA StorageInvTyped == StorageInv => StorageTypesOK
<1> SUFFICES ASSUME StorageInv
             PROVE  StorageTypesOK
  OBVIOUS
<1>1. CASE part = "media"
  <2>1. RegistrationTypeOK
    BY <1>1 DEF StorageInv, Unused, RegistrationTypeOK, MediaTypeOK, FormStates, NoForm, Form
  <2> QED
    BY <1>1, <2>1 DEF StorageInv, StorageTypesOK
<1>2. CASE part = "registration"
  <2>1. IsJob(IdleJob)
    BY DEF IsJob, IdleJob, NoRank, Job
  <2>2. DOMAIN job = Handlers /\ \A h \in Handlers : IsJob(job[h])
    BY <1>2, <2>1 DEF StorageInv, Unused
  <2>3. StoreTypeOK /\ rows = {} /\ sortOrder = [k \in ObjectKeys |-> 0] /\ torn = {} /\ contended = FALSE
    BY <1>2 DEF StorageInv, Unused, RegistrationTypeOK
  <2>4. MediaTypeOK
    BY <2>2, <2>3 DEF MediaTypeOK
  <2> QED
    BY <1>2, <2>4 DEF StorageInv, StorageTypesOK
<1> QED
  BY <1>1, <1>2 DEF StorageInv

\* The invariant of the object store's users.
THEOREM StorageInvCorrect == StorageSpec => []StorageInv
<1>1. StorageInit => StorageInv
  BY MediaInitial, RegistrationInitial
  DEF StorageInit, StorageInv, Unused, MediaInit, RegistrationInit
<1>2. StorageInv /\ [StorageNext]_<<part, store, registry, media>> => StorageInv'
  BY StorageStepKeeps
<1> QED
  BY <1>1, <1>2, PTL DEF StorageSpec

\* Rows, documents, accounts and handlers are well typed in either part.
THEOREM StorageTypesCorrect == StorageSpec => []StorageTypesOK
BY StorageInvCorrect, StorageInvTyped, PTL

=============================================================================
