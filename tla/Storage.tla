------------------------------ MODULE Storage ------------------------------
(***************************************************************************)
(* Registrations and product media over one object store.  Their objects   *)
(* are in two buckets and no step of one reads or changes what the other   *)
(* owns, so a behaviour is of one of the two, which "part" names; the      *)
(* other stays as it began.                                                *)
(***************************************************************************)
EXTENDS MediaStore, Registration

VARIABLE part

StorageInit ==
  part \in {"media", "registration"} /\ MediaInit /\ RegistrationInit

StorageNext ==
  /\ UNCHANGED part
  /\ \/ part = "media" /\ MediaNext /\ UNCHANGED registry
     \/ part = "registration" /\ RegistrationNext /\ UNCHANGED media

StorageSpec == StorageInit /\ [][StorageNext]_<<part, store, registry, media>>

-----------------------------------------------------------------------------

\* Both modules' variables have their types.
StorageTypesOK == RegistrationTypeOK /\ MediaTypeOK

=============================================================================
