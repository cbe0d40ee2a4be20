----------------------------- MODULE PriceList -----------------------------
(***************************************************************************)
(* PricingAdminService: price tiers and the price list entries staff       *)
(* upsert and delete, one row per variant, tier and minimum quantity.      *)
(* Handlers of several members of staff run at once; each is split where   *)
(* it awaits the database.  The price itself is data no property tells     *)
(* apart, so updating a row changes nothing here.                          *)
(***************************************************************************)
EXTENDS Naturals, FiniteSets

CONSTANTS Variants,     \* product variants; a variant is never deleted
          Tiers,        \* price tier codes
          DefaultTier,  \* the seeded RETAIL tier
          MaxQty,       \* bound on minQty
          Ids,          \* ids the database may give to rows (bound)
          Staff,        \* admin handlers in flight at once (bound)
          None

ASSUME DefaultTierAssumption == DefaultTier \in Tiers
ASSUME MaxQtyAssumption == MaxQty \in Nat \ {0}

VARIABLES
  tiers,    \* the tiers that exist
  table,    \* price_list_entries, as a set of rows
  admin,    \* the handler in flight in each slot
  spent     \* ids already given to a row (ids are never reused)

priceList == <<tiers, table, admin, spent>>

-----------------------------------------------------------------------------

Row == [id : Ids, variant : Variants, tier : Tiers, minQty : 1 .. MaxQty]

ASSUME NoneIsNoRow == None \notin Row

SameKey(x, y) == /\ x.variant = y.variant
                 /\ x.tier = y.tier
                 /\ x.minQty = y.minQty

Retail(v) == {x \in table : x.variant = v /\ x.tier = DefaultTier}

\* A handler about to run step "at" on row x.  When it has counted the retail
\* rows of its variant, "counted" is what it counted, and "raced" tells
\* whether another handler has deleted one of them since.
Admin(at, x, counted, raced) ==
  [pc |-> at, row |-> x, counted |-> counted, raced |-> raced]

IdleAdmin == Admin("idle", None, {}, FALSE)

AdminStates ==
  [pc : {"idle", "upsert_tier", "upsert_create", "upsert_update",
         "delete_count", "delete_row"},
   row : Row \cup {None}, counted : SUBSET Row, raced : BOOLEAN]

GotoAdmin(s, h) == admin' = [admin EXCEPT ![s] = h]

-----------------------------------------------------------------------------
(* createTier: the new tier is never the default; a taken code is a 409.   *)

CreateTier(s, t) ==
  /\ admin[s].pc = "idle"
  /\ t \notin tiers
  /\ tiers' = tiers \cup {t}
  /\ UNCHANGED <<table, admin, spent>>

-----------------------------------------------------------------------------
(* upsertEntry                                                             *)

\* The variant is found and the tier read; an unknown tier is a 400.
UpsertTier(s, x) ==
  /\ admin[s].pc = "idle"
  /\ x.tier \in tiers
  /\ GotoAdmin(s, Admin("upsert_tier", x, {}, FALSE))
  /\ UNCHANGED <<tiers, table, spent>>

\* Prisma's upsert, which has a nested read to return, first selects the row
\* with the key ...
UpsertSelect(s) ==
  /\ admin[s].pc = "upsert_tier"
  /\ \/ \E y \in table :
          /\ SameKey(y, admin[s].row)
          /\ GotoAdmin(s, Admin("upsert_update", y, {}, FALSE))
     \/ /\ ~\E y \in table : SameKey(y, admin[s].row)
        /\ GotoAdmin(s, Admin("upsert_create", admin[s].row, {}, FALSE))
  /\ UNCHANGED <<tiers, table, spent>>

\* Mutant of UpsertCreate: the schema's unique constraint is missing.
UpsertCreateAgain(s, i) ==
  /\ admin[s].pc = "upsert_create"
  /\ i \notin spent
  /\ table' = table \cup {[admin[s].row EXCEPT !.id = i]}
  /\ spent' = spent \cup {i}
  /\ GotoAdmin(s, IdleAdmin)
  /\ UNCHANGED tiers

\* ... and then inserts one ...
UpsertCreate(s, i) ==
  /\ admin[s].pc = "upsert_create"
  /\ ~\E y \in table : SameKey(y, admin[s].row)
  /\ i \notin spent
  /\ table' = table \cup {[admin[s].row EXCEPT !.id = i]}
  /\ spent' = spent \cup {i}
  /\ GotoAdmin(s, IdleAdmin)
  /\ UNCHANGED tiers

\* ... failing, with an error nothing catches, when another handler has
\* inserted the key meanwhile ...
UpsertConflict(s) ==
  /\ admin[s].pc = "upsert_create"
  /\ \E y \in table : SameKey(y, admin[s].row)
  /\ GotoAdmin(s, IdleAdmin)
  /\ UNCHANGED <<tiers, table, spent>>

\* ... or updates its price; if the row is gone the request fails.
UpsertUpdate(s) ==
  /\ admin[s].pc = "upsert_update"
  /\ GotoAdmin(s, IdleAdmin)
  /\ UNCHANGED <<tiers, table, spent>>

-----------------------------------------------------------------------------
(* deleteEntry                                                             *)

\* The row is read with its tier; an unknown id is a 404.
DeleteFind(s, x) ==
  /\ admin[s].pc = "idle"
  /\ x \in table
  /\ GotoAdmin(s, Admin(IF x.tier = DefaultTier THEN "delete_count" ELSE "delete_row",
                        x, {}, FALSE))
  /\ UNCHANGED <<tiers, table, spent>>

\* Mutant of DeleteCount: off by one.
DeleteCountNone(s) ==
  LET rows == Retail(admin[s].row.variant) IN
  /\ admin[s].pc = "delete_count"
  /\ GotoAdmin(s, IF Cardinality(rows) < 1
                  THEN IdleAdmin
                  ELSE Admin("delete_row", admin[s].row, rows, FALSE))
  /\ UNCHANGED <<tiers, table, spent>>

\* The retail rows of the variant are counted; one or none is a 409.
DeleteCount(s) ==
  LET rows == Retail(admin[s].row.variant) IN
  /\ admin[s].pc = "delete_count"
  /\ GotoAdmin(s, IF Cardinality(rows) <= 1
                  THEN IdleAdmin
                  ELSE Admin("delete_row", admin[s].row, rows, FALSE))
  /\ UNCHANGED <<tiers, table, spent>>

\* The row is deleted by id; if it is gone the request fails.
DeleteRow(s) ==
  LET x == admin[s].row IN
  /\ admin[s].pc = "delete_row"
  /\ table' = table \ {x}
  /\ admin' = [r \in Staff |->
                 IF r = s THEN IdleAdmin
                 ELSE Admin(admin[r].pc, admin[r].row, admin[r].counted,
                            admin[r].raced \/ x \in admin[r].counted)]
  /\ UNCHANGED <<tiers, spent>>

-----------------------------------------------------------------------------

\* The process stops, the connection drops or a statement fails.
AbortAdmin(s) ==
  /\ admin[s].pc # "idle"
  /\ GotoAdmin(s, IdleAdmin)
  /\ UNCHANGED <<tiers, table, spent>>

\* A seeded database has the default tier; a variant has no price at first.
PriceListInit ==
  /\ tiers = {DefaultTier}
  /\ table = {}
  /\ admin = [s \in Staff |-> IdleAdmin]
  /\ spent = {}

\* The key a request body may carry; a row it creates gets its id later.
Keys == {x \in Row : x.id = CHOOSE i \in Ids : TRUE}

AdminStep(s) ==
  \/ \E t \in Tiers : CreateTier(s, t)
  \/ \E x \in Keys : UpsertTier(s, x)
  \/ UpsertSelect(s)
  \/ \E i \in Ids : UpsertCreate(s, i)
  \/ UpsertConflict(s)
  \/ UpsertUpdate(s)
  \/ \E x \in Row : DeleteFind(s, x)
  \/ DeleteCount(s)
  \/ DeleteRow(s)
  \/ AbortAdmin(s)

PriceListNext == \E s \in Staff : AdminStep(s)

PriceListSpec == PriceListInit /\ [][PriceListNext]_priceList

-----------------------------------------------------------------------------
(* Properties                                                              *)

\* Every variable has its type.
PriceListTypeOK ==
  /\ tiers \subseteq Tiers
  /\ table \subseteq Row
  /\ admin \in [Staff -> AdminStates]
  /\ spent \subseteq Ids

\* A variant, tier and minimum quantity have one row, whatever upserts and
\* deletes overlap, and a row's tier exists: what resolveUnitPrices relies on.
OneRowPerKey ==
  /\ \A x, y \in table : SameKey(x, y) \/ x.id = y.id => x = y
  /\ \A x \in table : x.tier \in tiers

\* A delete that no other delete overtakes between its count and its DELETE
\* leaves the variant a retail price.
LoneDeleteKeepsRetail ==
  [][\A s \in Staff : \A v \in Variants :
       /\ DeleteRow(s)
       /\ ~admin[s].raced
       /\ admin[s].row.tier = DefaultTier
       /\ admin[s].row.variant = v
       => Retail(v)' # {}]_priceList

\* What the proofs need to know of every handler and of the table.
AdminConsistent(s) ==
  LET h == admin[s] IN
  /\ h.pc \in {"upsert_tier", "upsert_create"} => h.row \in Row /\ h.row.tier \in tiers
  /\ h.pc = "delete_count" => h.row \in Row /\ h.row.tier = DefaultTier
  /\ h.pc = "delete_row" =>
       /\ h.row \in Row
       /\ h.row.tier = DefaultTier =>
            /\ \A y \in h.counted : y.variant = h.row.variant /\ y.tier = DefaultTier
            /\ \E y \in h.counted : y # h.row
            /\ ~h.raced => h.counted \subseteq table

PriceListInv ==
  /\ OneRowPerKey
  /\ \A x \in table : x.id \in spent
  /\ \A s \in Staff : AdminConsistent(s)

\* "A SKU must never be left with no retail price at all": a variant that has
\* a retail price keeps one.
RetailPriceRemains ==
  [][\A v \in Variants : Retail(v) # {} => Retail(v)' # {}]_priceList

=============================================================================
