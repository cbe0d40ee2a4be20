---------------------------- MODULE ObjectStore ----------------------------
(***************************************************************************)
(* StorageService: the S3 object store as the API's handlers see it.  A    *)
(* key is a random UUID, so it is given out once.  A call may do its work  *)
(* and fail to say so.                                                     *)
(***************************************************************************)
EXTENDS Integers, FiniteSets

CONSTANTS ObjectKeys,     \* object keys (bound: as many uploads may be begun)
          Handlers, \* handlers in flight at once (bound)
          Nil      \* no key

ASSUME KeyAssumption == Nil \notin ObjectKeys

VARIABLES
  objects, \* the keys that have an object
  issued,   \* the keys buildKey has given out
  \* Observed only
  lost     \* the keys whose object may have nobody left to delete it: the call
           \* that put or deleted it was not answered, or its handler stopped

store == <<objects, issued, lost>>

\* Mutant of PutObject: the key is made from the name of the file.
PutObjectNamed(k) ==
  /\ objects' = objects \cup {k}
  /\ issued' = issued \cup {k}
  /\ UNCHANGED lost

\* buildKey and putObject.
PutObject(k) ==
  /\ k \notin issued
  /\ objects' = objects \cup {k}
  /\ issued' = issued \cup {k}
  /\ UNCHANGED lost

\* putObject fails: nothing is known of the object, and no caller deletes it.
PutFails(k) ==
  /\ k \notin issued
  /\ objects' \in {objects, objects \cup {k}}
  /\ issued' = issued \cup {k}
  /\ lost' = lost \cup {k}

\* deleteObject; that there was no object is no error.
DeleteObject(k) ==
  /\ objects' = objects \ {k}
  /\ UNCHANGED <<issued, lost>>

\* deleteObject fails, and its callers swallow that.
DeleteFails(k) ==
  /\ objects' \in {objects, objects \ {k}}
  /\ lost' = lost \cup {k}
  /\ UNCHANGED issued

\* The handler that would delete the object stops.
Abandon(k) ==
  /\ lost' = lost \cup {k}
  /\ UNCHANGED <<objects, issued>>

StoreInit == objects = {} /\ issued = {} /\ lost = {}

StoreTypeOK == objects \subseteq issued /\ issued \subseteq ObjectKeys /\ lost \subseteq issued

=============================================================================
