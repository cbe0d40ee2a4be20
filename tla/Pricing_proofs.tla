---------------------------- MODULE Pricing_proofs ----------------------------
(***************************************************************************)
(* Proofs about PriceList and PriceResolution, for any sets of variants,   *)
(* tiers, rows, staff and readers and any quantities.                      *)
(***************************************************************************)
EXTENDS PriceResolution, Ranks

\* A set with more than one element has one that is not x.
LEMMA AnotherElement ==
  ASSUME NEW S, NEW x, ~(Cardinality(S) <= 1)
  PROVE  \E y \in S : y # x
<1> SUFFICES ASSUME \A y \in S : y = x PROVE FALSE
  OBVIOUS
<1>1. S = {} \/ S = {x}
  OBVIOUS
<1>2. Cardinality({}) = 0 /\ Cardinality({x}) = 1
  BY FS_EmptySet, FS_Singleton
<1> QED
  BY <1>1, <1>2

\* The initial state of the price list.
LEMMA PriceListInitOK == PriceListInit => PriceListTypeOK /\ PriceListInv
BY DefaultTierAssumption
   DEF PriceListInit, PriceListTypeOK, PriceListInv, OneRowPerKey, AdminConsistent,
       IdleAdmin, Admin, AdminStates

\* Every step keeps the type of the price list.
LEMMA PriceListTypeStep == PriceListTypeOK /\ PriceListInv /\ [PriceListNext]_priceList => PriceListTypeOK'
<1> SUFFICES ASSUME PriceListTypeOK, PriceListInv, [PriceListNext]_priceList PROVE PriceListTypeOK'
  OBVIOUS
<1> USE DefaultTierAssumption, MaxQtyAssumption
    DEF PriceListTypeOK, PriceListInv, AdminConsistent, AdminStates, Admin, IdleAdmin, GotoAdmin, Row
<1>1. ASSUME NEW s \in Staff, NEW t \in Tiers, CreateTier(s, t) PROVE PriceListTypeOK'
  BY <1>1 DEF CreateTier
<1>2. ASSUME NEW s \in Staff, NEW x \in Row, UpsertTier(s, x) PROVE PriceListTypeOK'
  BY <1>2 DEF UpsertTier
<1>3. ASSUME NEW s \in Staff, UpsertSelect(s) PROVE PriceListTypeOK'
  <2>1. ASSUME NEW y \in table, GotoAdmin(s, Admin("upsert_update", y, {}, FALSE))
        PROVE  admin' \in [Staff -> AdminStates]
    BY <2>1
  <2>2. ASSUME GotoAdmin(s, Admin("upsert_create", admin[s].row, {}, FALSE))
        PROVE  admin' \in [Staff -> AdminStates]
    BY <2>2
  <2> QED
    BY <1>3, <2>1, <2>2 DEF UpsertSelect
<1>4. ASSUME NEW s \in Staff, NEW i \in Ids, UpsertCreate(s, i) PROVE PriceListTypeOK'
  BY <1>4 DEF UpsertCreate
<1>5. ASSUME NEW s \in Staff, UpsertConflict(s) PROVE PriceListTypeOK'
  BY <1>5 DEF UpsertConflict
<1>6. ASSUME NEW s \in Staff, UpsertUpdate(s) PROVE PriceListTypeOK'
  BY <1>6 DEF UpsertUpdate
<1>7. ASSUME NEW s \in Staff, NEW x \in Row, DeleteFind(s, x) PROVE PriceListTypeOK'
  BY <1>7 DEF DeleteFind
<1>8. ASSUME NEW s \in Staff, DeleteCount(s) PROVE PriceListTypeOK'
  BY <1>8 DEF DeleteCount, Retail
<1>9. ASSUME NEW s \in Staff, DeleteRow(s) PROVE PriceListTypeOK'
  <2>1. admin' \in [Staff -> AdminStates]
    <3> SUFFICES ASSUME NEW q \in Staff
                 PROVE  (IF q = s THEN IdleAdmin
                         ELSE Admin(admin[q].pc, admin[q].row, admin[q].counted,
                                    admin[q].raced \/ admin[s].row \in admin[q].counted))
                        \in AdminStates
      BY <1>9 DEF DeleteRow
    <3>1. admin[q] \in AdminStates
      OBVIOUS
    <3>2. (admin[q].raced \/ admin[s].row \in admin[q].counted) \in BOOLEAN
      BY Zenon
    <3> QED
      BY <3>1, <3>2
  <2> QED
    BY <1>9, <2>1 DEF DeleteRow
<1>10. ASSUME NEW s \in Staff, AbortAdmin(s) PROVE PriceListTypeOK'
  BY <1>10 DEF AbortAdmin
<1>11. CASE UNCHANGED priceList
  BY <1>11 DEF priceList
<1> QED
  BY <1>1, <1>2, <1>3, <1>4, <1>5, <1>6, <1>7, <1>8, <1>9, <1>10, <1>11
     DEF PriceListNext, AdminStep, Keys

\* Every step keeps one row per key, and its tier.
LEMMA TableStep == PriceListTypeOK /\ PriceListInv /\ [PriceListNext]_priceList => (OneRowPerKey /\ \A y \in table : y.id \in spent)'
<1> SUFFICES ASSUME PriceListTypeOK, PriceListInv, [PriceListNext]_priceList PROVE (OneRowPerKey /\ \A y \in table : y.id \in spent)'
  OBVIOUS
<1> USE DefaultTierAssumption, MaxQtyAssumption
    DEF PriceListTypeOK, PriceListInv, OneRowPerKey, AdminConsistent, AdminStates, SameKey, Row
<1>1. ASSUME NEW s \in Staff, NEW t \in Tiers, CreateTier(s, t) PROVE (OneRowPerKey /\ \A y \in table : y.id \in spent)'
  BY <1>1 DEF CreateTier
<1>2. ASSUME NEW s \in Staff, NEW x \in Row, UpsertTier(s, x) PROVE (OneRowPerKey /\ \A y \in table : y.id \in spent)'
  BY <1>2 DEF UpsertTier
<1>3. ASSUME NEW s \in Staff, UpsertSelect(s) PROVE (OneRowPerKey /\ \A y \in table : y.id \in spent)'
  BY <1>3 DEF UpsertSelect
<1>4. ASSUME NEW s \in Staff, NEW i \in Ids, UpsertCreate(s, i) PROVE (OneRowPerKey /\ \A y \in table : y.id \in spent)'
  BY <1>4 DEF UpsertCreate
<1>5. ASSUME NEW s \in Staff, UpsertConflict(s) PROVE (OneRowPerKey /\ \A y \in table : y.id \in spent)'
  BY <1>5 DEF UpsertConflict
<1>6. ASSUME NEW s \in Staff, UpsertUpdate(s) PROVE (OneRowPerKey /\ \A y \in table : y.id \in spent)'
  BY <1>6 DEF UpsertUpdate
<1>7. ASSUME NEW s \in Staff, NEW x \in Row, DeleteFind(s, x) PROVE (OneRowPerKey /\ \A y \in table : y.id \in spent)'
  BY <1>7 DEF DeleteFind
<1>8. ASSUME NEW s \in Staff, DeleteCount(s) PROVE (OneRowPerKey /\ \A y \in table : y.id \in spent)'
  BY <1>8 DEF DeleteCount, Retail
<1>9. ASSUME NEW s \in Staff, DeleteRow(s) PROVE (OneRowPerKey /\ \A y \in table : y.id \in spent)'
  BY <1>9 DEF DeleteRow
<1>10. ASSUME NEW s \in Staff, AbortAdmin(s) PROVE (OneRowPerKey /\ \A y \in table : y.id \in spent)'
  BY <1>10 DEF AbortAdmin
<1>11. CASE UNCHANGED priceList
  BY <1>11 DEF priceList
<1> QED
  BY <1>1, <1>2, <1>3, <1>4, <1>5, <1>6, <1>7, <1>8, <1>9, <1>10, <1>11
     DEF PriceListNext, AdminStep, Keys

\* A count above one has found a retail row besides the one to delete.
LEMMA CountFindsAnother ==
  ASSUME NEW s, ~(Cardinality(Retail(admin[s].row.variant)) <= 1)
  PROVE  \E y \in Retail(admin[s].row.variant) : y # admin[s].row
BY AnotherElement

\* Every step keeps every handler consistent with the table.
LEMMA AdminStepOK == PriceListTypeOK /\ PriceListInv /\ [PriceListNext]_priceList => (\A q \in Staff : AdminConsistent(q))'
<1> SUFFICES ASSUME PriceListTypeOK, PriceListInv, [PriceListNext]_priceList PROVE (\A q \in Staff : AdminConsistent(q))'
  OBVIOUS
<1> USE DefaultTierAssumption, MaxQtyAssumption
    DEF PriceListTypeOK, PriceListInv, AdminConsistent, AdminStates, Admin, IdleAdmin, GotoAdmin
<1>1. ASSUME NEW s \in Staff, NEW t \in Tiers, CreateTier(s, t) PROVE (\A q \in Staff : AdminConsistent(q))'
  BY <1>1 DEF CreateTier
<1>2. ASSUME NEW s \in Staff, NEW x \in Row, UpsertTier(s, x) PROVE (\A q \in Staff : AdminConsistent(q))'
  BY <1>2 DEF UpsertTier
<1>3. ASSUME NEW s \in Staff, UpsertSelect(s) PROVE (\A q \in Staff : AdminConsistent(q))'
  BY <1>3 DEF UpsertSelect
<1>4. ASSUME NEW s \in Staff, NEW i \in Ids, UpsertCreate(s, i) PROVE (\A q \in Staff : AdminConsistent(q))'
  BY <1>4 DEF UpsertCreate
<1>5. ASSUME NEW s \in Staff, UpsertConflict(s) PROVE (\A q \in Staff : AdminConsistent(q))'
  BY <1>5 DEF UpsertConflict
<1>6. ASSUME NEW s \in Staff, UpsertUpdate(s) PROVE (\A q \in Staff : AdminConsistent(q))'
  BY <1>6 DEF UpsertUpdate
<1>7. ASSUME NEW s \in Staff, NEW x \in Row, DeleteFind(s, x) PROVE (\A q \in Staff : AdminConsistent(q))'
  BY <1>7 DEF DeleteFind
<1>8. ASSUME NEW s \in Staff, DeleteCount(s) PROVE (\A q \in Staff : AdminConsistent(q))'
  <2> DEFINE rows == Retail(admin[s].row.variant)
  <2>1. CASE Cardinality(rows) <= 1
    BY <1>8, <2>1 DEF DeleteCount
  <2>2. CASE ~(Cardinality(rows) <= 1)
    <3>1. \E y \in rows : y # admin[s].row
      BY <2>2, CountFindsAnother
    <3> HIDE DEF rows
    <3>2. GotoAdmin(s, Admin("delete_row", admin[s].row, rows, FALSE))
      BY <1>8, <2>2 DEF DeleteCount, rows
    <3>3. \A x \in rows : x \in table /\ x.variant = admin[s].row.variant /\ x.tier = DefaultTier
      BY DEF Retail, rows
    <3> QED
      BY <1>8, <3>1, <3>2, <3>3 DEF DeleteCount
  <2> QED
    BY <2>1, <2>2
<1>9. ASSUME NEW s \in Staff, DeleteRow(s) PROVE (\A q \in Staff : AdminConsistent(q))'
  <2> SUFFICES ASSUME NEW q \in Staff PROVE AdminConsistent(q)'
    OBVIOUS
  <2>1. CASE q = s
    BY <1>9, <2>1 DEF DeleteRow
  <2>2. CASE q # s
    <3>1. /\ admin'[q].pc = admin[q].pc
          /\ admin'[q].row = admin[q].row
          /\ admin'[q].counted = admin[q].counted
          /\ ~admin'[q].raced => ~admin[q].raced /\ admin[s].row \notin admin[q].counted
      BY <1>9, <2>2 DEF DeleteRow
    <3>2. AdminConsistent(q) /\ table' = table \ {admin[s].row} /\ tiers' = tiers
      BY <1>9 DEF DeleteRow
    <3> QED
      BY <3>1, <3>2
  <2> QED
    BY <2>1, <2>2
<1>10. ASSUME NEW s \in Staff, AbortAdmin(s) PROVE (\A q \in Staff : AdminConsistent(q))'
  BY <1>10 DEF AbortAdmin
<1>11. CASE UNCHANGED priceList
  BY <1>11 DEF priceList
<1> QED
  BY <1>1, <1>2, <1>3, <1>4, <1>5, <1>6, <1>7, <1>8, <1>9, <1>10, <1>11
     DEF PriceListNext, AdminStep, Keys

\* The inductive invariant of the price list.
THEOREM PriceListInvCorrect == PriceListSpec => [](PriceListTypeOK /\ PriceListInv)
<1>1. PriceListTypeOK /\ PriceListInv /\ [PriceListNext]_priceList
        => (PriceListTypeOK /\ PriceListInv)'
  BY PriceListTypeStep, TableStep, AdminStepOK DEF PriceListInv
<1> QED
  BY PriceListInitOK, <1>1, PTL DEF PriceListSpec

\* The price list has one row per variant, tier and minimum quantity.
THEOREM OneRowPerKeyCorrect == PriceListSpec => []OneRowPerKey
<1>1. PriceListInv => OneRowPerKey
  BY DEF PriceListInv
<1> QED
  BY PriceListInvCorrect, <1>1, PTL

\* A delete that no other delete overtakes leaves a retail price.
THEOREM LoneDeleteCorrect == PriceListSpec => LoneDeleteKeepsRetail
<1>1. ASSUME PriceListTypeOK, PriceListInv, NEW s \in Staff, NEW v \in Variants,
             DeleteRow(s), ~admin[s].raced, admin[s].row.tier = DefaultTier,
             admin[s].row.variant = v
      PROVE  Retail(v)' # {}
  <2>1. PICK y \in admin[s].counted : y # admin[s].row
    BY <1>1 DEF PriceListInv, AdminConsistent, DeleteRow
  <2>2. y \in table /\ y.variant = v /\ y.tier = DefaultTier
    BY <1>1, <2>1 DEF PriceListInv, AdminConsistent, DeleteRow
  <2> QED
    BY <1>1, <2>1, <2>2 DEF DeleteRow, Retail
<1>2. PriceListTypeOK /\ PriceListInv /\ [PriceListNext]_priceList =>
        [\A s \in Staff : \A v \in Variants :
           /\ DeleteRow(s)
           /\ ~admin[s].raced
           /\ admin[s].row.tier = DefaultTier
           /\ admin[s].row.variant = v
           => Retail(v)' # {}]_priceList
  BY <1>1
<1> QED
  BY PriceListInvCorrect, <1>2, PTL DEF PriceListSpec, LoneDeleteKeepsRetail

-----------------------------------------------------------------------------
(* PriceResolution                                                         *)

pricing == <<priceList, resolution>>

\* A resolution in flight has seen the tier the account holds now.
TierKnown == \A r \in Readers : reader[r].pc # "idle" => dealerTier \in reader[r].held

\* Only a single resolution reads one tier at a time, a batch finds no row
\* before it has read them, and its loop visits rows it has read.
SingleSteps ==
  \A r \in Readers : LET h == reader[r] IN
    /\ h.pc \in {"own", "fallback"} => ~h.batch
    /\ h.pc \in {"entries", "reduce"} => h.batch
    /\ h.pc \in {"tier", "entries"} => \A v \in Variants : h.best[v] = None
    /\ h.pending \subseteq h.rows

ResolutionInv == /\ TierIsCurrent
                 /\ TierKnown
                 /\ SingleSteps
                 /\ \A r \in Readers : BatchConsistent(reader[r])

\* The initial state.
LEMMA ResolutionInitOK ==
  ResolutionInit
    => PriceListTypeOK /\ PriceListInv /\ ResolutionTypeOK /\ ResolutionInv
BY PriceListInitOK, DefaultTierAssumption, MaxQtyAssumption
   DEF ResolutionInit, ResolutionTypeOK, ResolutionInv, TierIsCurrent, TierKnown, SingleSteps, BatchConsistent,
       ReaderStates, IdleReader, TierOrNone

\* Among rows with distinct keys, findFirst by descending minQty returns the
\* one row of the variant and tier that no other exceeds.
LEMMA FindBestIs ==
  ASSUME NEW rows, rows \subseteq Row, NEW v, NEW t, NEW x \in rows,
         \A y, z \in rows : SameKey(y, z) => y = z,
         x.variant = v, x.tier = t,
         \A y \in rows : y.variant = v /\ y.tier = t => y.minQty <= x.minQty
  PROVE  FindBest(rows, v, t) = x
<1> DEFINE mine == {y \in rows : y.variant = v /\ y.tier = t}
           z == CHOOSE y \in mine : \A w \in mine : w.minQty <= y.minQty
<1>1. x \in mine /\ \A w \in mine : w.minQty <= x.minQty
  OBVIOUS
<1>2. z \in mine /\ x.minQty <= z.minQty
  BY <1>1
<1>3. z.minQty <= x.minQty /\ z.minQty \in Nat /\ x.minQty \in Nat
  BY <1>1, <1>2, MaxQtyAssumption DEF Row
<1>4. SameKey(z, x)
  BY <1>2, <1>3 DEF SameKey
<1> QED
  BY <1>1, <1>2, <1>4 DEF FindBest

\* A batch that has visited all its rows agrees with resolveUnitPrice.
LEMMA BatchEnds ==
  ASSUME NEW h \in ReaderStates, BatchConsistent(h), h.batch, h.pc = "answer",
         NEW v \in Variants
  PROVE  h.best[v] = IF FindBest(h.rows, v, h.tier) # None
                     THEN FindBest(h.rows, v, h.tier)
                     ELSE FindBest(h.rows, v, DefaultTier)
<1>1. /\ h.rows \subseteq Row
      /\ h.pending = {}
      /\ \A y, z \in h.rows : SameKey(y, z) => y = z
      /\ \A y \in h.rows : y.tier \in {h.tier, DefaultTier} /\ y.minQty \in Nat
  BY MaxQtyAssumption DEF ReaderStates, BatchConsistent, Row
<1>2. CASE h.best[v] = None
  <2>1. \A y \in h.rows : y.variant # v
    BY <1>1, <1>2, NoneIsNoRow DEF BatchConsistent
  <2> QED
    BY <1>2, <2>1 DEF FindBest
<1>3. CASE h.best[v] # None
  <2> DEFINE x == h.best[v]
  <2>1. /\ x \in h.rows
        /\ x.variant = v
        /\ \A y \in h.rows : y.variant = v => ~Replaces(y, x, h.tier)
    BY <1>1, <1>3 DEF BatchConsistent
  <2> HIDE DEF x
  <2>2. x # None
    BY <2>1, <1>1, NoneIsNoRow
  <2>3. CASE x.tier = h.tier
    <3>1. \A y \in h.rows : y.variant = v /\ y.tier = h.tier => y.minQty <= x.minQty
      BY <1>1, <2>1, <2>3 DEF Replaces
    <3>2. FindBest(h.rows, v, h.tier) = x
      BY <1>1, <2>1, <2>3, <3>1, FindBestIs
    <3> QED
      BY <2>2, <3>2 DEF x
  <2>4. CASE x.tier # h.tier
    <3>1. \A y \in h.rows : y.variant = v => y.tier # h.tier /\ y.minQty <= x.minQty
      BY <1>1, <2>1, <2>4 DEF Replaces
    <3>2. FindBest(h.rows, v, h.tier) = None
      BY <3>1 DEF FindBest
    <3>3. x.tier = DefaultTier
      BY <1>1, <2>1, <2>4
    <3>4. FindBest(h.rows, v, DefaultTier) = x
      BY <1>1, <2>1, <3>1, <3>3, FindBestIs
    <3> QED
      BY <3>2, <3>4 DEF x
  <2> QED
    BY <2>3, <2>4
<1> QED
  BY <1>2, <1>3

\* FindBest returns a row or None.
LEMMA FindBestType ==
  ASSUME NEW rows, rows \subseteq Row, NEW v, NEW t
  PROVE  FindBest(rows, v, t) \in Row \cup {None}
<1> DEFINE mine == {y \in rows : y.variant = v /\ y.tier = t}
<1>1. CASE mine = {}
  BY <1>1 DEF FindBest
<1>2. CASE mine # {}
  <2> DEFINE T == {MaxQty - y.minQty : y \in mine}
  <2>1. \A y \in mine : y.minQty \in 1 .. MaxQty
    BY DEF Row
  <2>2. T \subseteq Nat /\ T # {}
    BY <1>2, <2>1, MaxQtyAssumption
  <2>3. PICK n \in T : \A m \in T : n <= m
    BY <2>2, NatHasLeast
  <2>4. \E x \in mine : \A y \in mine : y.minQty <= x.minQty
    <3>1. PICK x \in mine : n = MaxQty - x.minQty
      BY <2>3
    <3>2. \A y \in mine : MaxQty - x.minQty <= MaxQty - y.minQty
      BY <2>3, <3>1
    <3> QED
      BY <2>1, <3>1, <3>2, MaxQtyAssumption
  <2>5. FindBest(rows, v, t) \in mine
    BY <1>2, <2>4 DEF FindBest
  <2> QED
    BY <2>5
<1> QED
  BY <1>1, <1>2
\* The price list keeps its invariant beside the resolutions.
LEMMA PriceListKept ==
  PriceListTypeOK /\ PriceListInv /\ ResolutionTypeOK /\ ResolutionInv /\ [ResolutionNext]_pricing
    => (PriceListTypeOK /\ PriceListInv)'
<1> SUFFICES ASSUME PriceListTypeOK, PriceListInv, ResolutionTypeOK, ResolutionInv, [ResolutionNext]_pricing
             PROVE  (PriceListTypeOK /\ PriceListInv)'
  OBVIOUS
<1>1. [PriceListNext]_priceList
  BY DEF ResolutionNext, EditPrices, ReaderStep, Arrive, ReadTier, ReadOwn, ReadFallback,
         ReadEntries, ReduceOne, ReduceEnd, LeaveReader, UpdateApproval, IssueAccessToken, pricing
<1> QED
  BY <1>1, PriceListTypeStep, TableStep, AdminStepOK DEF PriceListInv

\* A resolution that has not begun, and one that has just arrived.
LEMMA IdleReaderType == DefaultTier \in Tiers /\ MaxQty \in Nat \ {0} => IdleReader \in ReaderStates
BY DEF IdleReader, ReaderStates, TierOrNone


ArrivedReader(b, d, vs, q, t) ==
  [IdleReader EXCEPT !.pc = "tier", !.batch = b, !.business = d,
                     !.wanted = vs, !.qty = q, !.held = {t}]

LEMMA ArriveFields ==
  \A b, d, vs, q, t :
    /\ ArrivedReader(b, d, vs, q, t).pc = "tier"
    /\ ArrivedReader(b, d, vs, q, t).pending = {}
    /\ ArrivedReader(b, d, vs, q, t).rows = {}
    /\ ArrivedReader(b, d, vs, q, t).held = {t}
    /\ \A v \in Variants : ArrivedReader(b, d, vs, q, t).best[v] = None
<1> SUFFICES ASSUME NEW b, NEW d, NEW vs, NEW q, NEW t
             PROVE  /\ ArrivedReader(b, d, vs, q, t).pc = "tier"
                    /\ ArrivedReader(b, d, vs, q, t).pending = {}
                    /\ ArrivedReader(b, d, vs, q, t).rows = {}
                    /\ ArrivedReader(b, d, vs, q, t).held = {t}
                    /\ \A v \in Variants : ArrivedReader(b, d, vs, q, t).best[v] = None
  OBVIOUS
<1> DEFINE g(h) == [h EXCEPT !.pc = "tier", !.batch = b, !.business = d,
                             !.wanted = vs, !.qty = q, !.held = {t}]
<1>1. ASSUME NEW h \in ReaderStates
      PROVE  /\ g(h).pc = "tier" /\ g(h).pending = h.pending /\ g(h).rows = h.rows
             /\ g(h).held = {t} /\ g(h).best = h.best
  BY DEF ReaderStates
<1>2. IdleReader \in ReaderStates
  BY IdleReaderType, DefaultTierAssumption, MaxQtyAssumption
<1>3. /\ IdleReader.pending = {} /\ IdleReader.rows = {}
      /\ \A v \in Variants : IdleReader.best[v] = None
  BY DEF IdleReader
<1> HIDE DEF g
<1>4. /\ g(IdleReader).pc = "tier" /\ g(IdleReader).pending = {}
      /\ g(IdleReader).rows = {} /\ g(IdleReader).held = {t}
      /\ \A v \in Variants : g(IdleReader).best[v] = None
  BY <1>1, <1>2, <1>3
<1> QED
  BY <1>4 DEF g, ArrivedReader

LEMMA ArriveType ==
  ASSUME NEW b \in BOOLEAN, NEW d \in BOOLEAN, NEW vs \in SUBSET Variants,
         NEW q \in 1 .. MaxQty, NEW t \in TierOrNone
  PROVE  ArrivedReader(b, d, vs, q, t) \in ReaderStates
<1>1. ASSUME NEW h \in ReaderStates
      PROVE  [h EXCEPT !.pc = "tier", !.batch = b, !.business = d,
                       !.wanted = vs, !.qty = q, !.held = {t}] \in ReaderStates
  BY DEF ReaderStates
<1>2. IdleReader \in ReaderStates
  BY IdleReaderType, DefaultTierAssumption, MaxQtyAssumption
<1> QED
  BY <1>1, <1>2 DEF ArrivedReader

\* Every step keeps the type of the resolutions.
LEMMA ResolutionTypeStep ==
  PriceListTypeOK /\ ResolutionTypeOK /\ [ResolutionNext]_pricing => ResolutionTypeOK'
<1> SUFFICES ASSUME PriceListTypeOK, ResolutionTypeOK, [ResolutionNext]_pricing
             PROVE  ResolutionTypeOK'
  OBVIOUS
<1> USE DefaultTierAssumption, MaxQtyAssumption DEF ResolutionTypeOK, GotoReader
<1>0. \A r \in Readers : reader[r] \in ReaderStates
  OBVIOUS
<1>1. ASSUME NEW r \in Readers, NEW b \in BOOLEAN, NEW d \in BOOLEAN, NEW vs \in SUBSET Variants,
             NEW q \in 1 .. MaxQty, Arrive(r, b, d, vs, q)
      PROVE  ResolutionTypeOK'
  BY <1>1, ArriveType DEF Arrive, ArrivedReader
<1>2. ASSUME NEW r \in Readers, ReadTier(r)
      PROVE  ResolutionTypeOK'
  <2> DEFINE h == reader[r]
             g == [h EXCEPT !.tier = ResolveTier(h.business),
                            !.pc = IF h.batch THEN "entries" ELSE "own"]
  <2>1. ResolveTier(h.business) \in TierOrNone
    BY DEF ResolveTier, TierOrNone
  <2>2. h \in ReaderStates
    BY <1>0
  <2> HIDE DEF h
  <2>3. g \in ReaderStates
    BY <2>1, <2>2 DEF ReaderStates
  <2> QED
    BY <1>2, <2>3 DEF ReadTier, h
<1>3. ASSUME NEW r \in Readers, ReadOwn(r)
      PROVE  ResolutionTypeOK'
  <2> DEFINE h == reader[r]
             g(rows) == [h EXCEPT !.pc = IF rows = {} /\ h.tier # DefaultTier
                                         THEN "fallback" ELSE "answer",
                                  !.best = [v \in Variants |-> FindBest(rows, v, h.tier)]]
  <2>1. PICK rows \in Qualifying(h.wanted, {h.tier}, h.qty) : reader' = [reader EXCEPT ![r] = g(rows)]
    BY <1>3 DEF ReadOwn
  <2>2. h \in ReaderStates /\ rows \subseteq Row
    BY <1>0, <2>1 DEF Qualifying, PriceListTypeOK
  <2>3. [v \in Variants |-> FindBest(rows, v, h.tier)] \in [Variants -> Row \cup {None}]
    BY <2>2, FindBestType
  <2> HIDE DEF h
  <2>4. g(rows) \in ReaderStates
    BY <2>2, <2>3 DEF ReaderStates
  <2> QED
    BY <1>3, <2>1, <2>4 DEF ReadOwn
<1>4. ASSUME NEW r \in Readers, ReadFallback(r)
      PROVE  ResolutionTypeOK'
  <2> DEFINE h == reader[r]
             g(rows) == [h EXCEPT !.pc = "answer",
                                  !.best = [v \in Variants |-> FindBest(rows, v, DefaultTier)]]
  <2>1. PICK rows \in Qualifying(h.wanted, {DefaultTier}, h.qty) : reader' = [reader EXCEPT ![r] = g(rows)]
    BY <1>4 DEF ReadFallback
  <2>2. h \in ReaderStates /\ rows \subseteq Row
    BY <1>0, <2>1 DEF Qualifying, PriceListTypeOK
  <2>3. [v \in Variants |-> FindBest(rows, v, DefaultTier)] \in [Variants -> Row \cup {None}]
    BY <2>2, FindBestType
  <2> HIDE DEF h
  <2>4. g(rows) \in ReaderStates
    BY <2>2, <2>3 DEF ReaderStates
  <2> QED
    BY <1>4, <2>1, <2>4 DEF ReadFallback
<1>5. ASSUME NEW r \in Readers, ReadEntries(r)
      PROVE  ResolutionTypeOK'
  <2> DEFINE h == reader[r]
             g(rows) == [h EXCEPT !.pc = "reduce", !.rows = rows, !.pending = rows]
  <2>1. PICK rows \in Qualifying(h.wanted, {h.tier, DefaultTier}, h.qty) : reader' = [reader EXCEPT ![r] = g(rows)]
    BY <1>5 DEF ReadEntries
  <2>2. h \in ReaderStates /\ rows \subseteq Row
    BY <1>0, <2>1 DEF Qualifying, PriceListTypeOK
  <2> HIDE DEF h
  <2>3. g(rows) \in ReaderStates
    BY <2>2 DEF ReaderStates
  <2> QED
    BY <1>5, <2>1, <2>3 DEF ReadEntries
<1>6. ASSUME NEW r \in Readers, NEW x \in Row, ReduceOne(r, x)
      PROVE  ResolutionTypeOK'
  <2> DEFINE h == reader[r]
             left == h.pending \ {x}
             best == IF Replaces(x, h.best[x.variant], h.tier)
                     THEN [h.best EXCEPT ![x.variant] = x] ELSE h.best
             g == [h EXCEPT !.pending = left, !.best = best]
  <2>1. reader' = [reader EXCEPT ![r] = g]
    BY <1>6 DEF ReduceOne
  <2>2. h \in ReaderStates
    BY <1>0
  <2> HIDE DEF h
  <2>3. left \in SUBSET Row /\ best \in [Variants -> Row \cup {None}]
    BY <2>2 DEF ReaderStates
  <2> HIDE DEF left, best
  <2>4. g \in ReaderStates
    BY <2>2, <2>3 DEF ReaderStates
  <2> QED
    BY <1>6, <2>1, <2>4 DEF ReduceOne
<1>7. ASSUME NEW r \in Readers, ReduceEnd(r)
      PROVE  ResolutionTypeOK'
  <2>1. ASSUME NEW h \in ReaderStates
        PROVE  [h EXCEPT !.pc = "answer"] \in ReaderStates
    BY DEF ReaderStates
  <2> QED
    BY <1>0, <1>7, <2>1 DEF ReduceEnd
<1>8. ASSUME NEW r \in Readers, LeaveReader(r)
      PROVE  ResolutionTypeOK'
  BY <1>8, IdleReaderType DEF LeaveReader
<1>9. ASSUME NEW t \in TierOrNone, UpdateApproval(t)
      PROVE  ResolutionTypeOK'
  <2>1. ASSUME NEW h \in ReaderStates
        PROVE  [h EXCEPT !.held = h.held \cup {t}] \in ReaderStates
    BY <1>9, <2>1 DEF ReaderStates
  <2>2. \A r \in Readers : [reader[r] EXCEPT !.held = @ \cup {t}] \in ReaderStates
    BY <2>1
  <2> QED
    BY <1>9, <2>2 DEF UpdateApproval
<1>10. ASSUME IssueAccessToken
      PROVE  ResolutionTypeOK'
  BY <1>10 DEF IssueAccessToken
<1>11. ASSUME EditPrices \/ UNCHANGED pricing
      PROVE  ResolutionTypeOK'
  BY <1>11 DEF EditPrices, resolution, pricing
<1> QED
  BY <1>1, <1>2, <1>3, <1>4, <1>5, <1>6, <1>7, <1>8, <1>9, <1>10, <1>11
     DEF ResolutionNext, ReaderStep

\* Every step keeps the resolved tiers current.
LEMMA TierStep ==
  PriceListTypeOK /\ PriceListInv /\ ResolutionTypeOK /\ ResolutionInv /\ [ResolutionNext]_pricing
    => (TierIsCurrent /\ TierKnown)'
<1> SUFFICES ASSUME PriceListTypeOK, PriceListInv, ResolutionTypeOK, ResolutionInv, [ResolutionNext]_pricing
             PROVE  (TierIsCurrent /\ TierKnown)'
  OBVIOUS
<1> USE DefaultTierAssumption, NoneIsNoTier, NoneIsNoRow, MaxQtyAssumption
    DEF ResolutionTypeOK, ResolutionInv, TierIsCurrent, TierKnown, ReaderStates, IdleReader, TierOrNone, GotoReader
<1>1. ASSUME NEW r \in Readers, NEW b \in BOOLEAN, NEW d \in BOOLEAN, NEW vs \in SUBSET Variants,
             NEW q \in 1 .. MaxQty, Arrive(r, b, d, vs, q)
      PROVE  (TierIsCurrent /\ TierKnown)'
  <2> DEFINE g == ArrivedReader(b, d, vs, q, dealerTier)
  <2> HIDE DEF IdleReader, ReaderStates, TierOrNone
  <2>1. g.pc = "tier" /\ g.held = {dealerTier}
    BY ArriveFields
  <2>2. reader' = [reader EXCEPT ![r] = g] /\ dealerTier' = dealerTier
    BY <1>1 DEF Arrive, ArrivedReader
  <2> HIDE DEF g
  <2> QED
    BY <2>1, <2>2
<1>2. ASSUME NEW r \in Readers, ReadTier(r)
      PROVE  (TierIsCurrent /\ TierKnown)'
  <2> DEFINE h == reader[r]
             g == [h EXCEPT !.tier = ResolveTier(h.business),
                            !.pc = IF h.batch THEN "entries" ELSE "own"]
  <2>1. h \in ReaderStates /\ h.pc = "tier" /\ dealerTier \in h.held
    BY <1>2 DEF ReadTier
  <2> HIDE DEF h
  <2>2. /\ g.tier = ResolveTier(h.business) /\ g.business = h.business /\ g.held = h.held
        /\ g.pc \in {"entries", "own"}
    BY <2>1
  <2> HIDE DEF g
  <2>3. reader' = [reader EXCEPT ![r] = g]
    BY <1>2 DEF ReadTier, g, h
  <2>4. g.business \in BOOLEAN
    BY <2>1, <2>2
  <2> QED
    BY <1>2, <2>1, <2>2, <2>3, <2>4 DEF ReadTier, ResolveTier
<1>3. ASSUME NEW r \in Readers, ReadOwn(r)
      PROVE  (TierIsCurrent /\ TierKnown)'
  BY <1>3 DEF ReadOwn, Qualifying
<1>4. ASSUME NEW r \in Readers, ReadFallback(r)
      PROVE  (TierIsCurrent /\ TierKnown)'
  BY <1>4 DEF ReadFallback, Qualifying
<1>5. ASSUME NEW r \in Readers, ReadEntries(r)
      PROVE  (TierIsCurrent /\ TierKnown)'
  BY <1>5 DEF ReadEntries, Qualifying
<1>6. ASSUME NEW r \in Readers, NEW x \in Row, ReduceOne(r, x)
      PROVE  (TierIsCurrent /\ TierKnown)'
  BY <1>6 DEF ReduceOne
<1>7. ASSUME NEW r \in Readers, ReduceEnd(r)
      PROVE  (TierIsCurrent /\ TierKnown)'
  BY <1>7 DEF ReduceEnd
<1>8. ASSUME NEW r \in Readers, LeaveReader(r)
      PROVE  (TierIsCurrent /\ TierKnown)'
  BY <1>8 DEF LeaveReader
<1>9. ASSUME NEW t \in TierOrNone, UpdateApproval(t)
      PROVE  (TierIsCurrent /\ TierKnown)'
  BY <1>9 DEF UpdateApproval
<1>10. ASSUME IssueAccessToken
      PROVE  (TierIsCurrent /\ TierKnown)'
  BY <1>10 DEF IssueAccessToken
<1>11. ASSUME EditPrices
      PROVE  (TierIsCurrent /\ TierKnown)'
  BY <1>11 DEF EditPrices, resolution
<1>12. CASE UNCHANGED pricing
  BY <1>12 DEF pricing, resolution
<1> HIDE DEF ResolutionTypeOK, ResolutionInv, TierIsCurrent, TierKnown, ReaderStates, IdleReader, GotoReader
<1> QED
  BY <1>1, <1>2, <1>3, <1>4, <1>5, <1>6, <1>7, <1>8, <1>9, <1>10, <1>11, <1>12
     DEF ResolutionNext, ReaderStep



\* Every step keeps every batch consistent.
LEMMA BatchStep ==
  PriceListTypeOK /\ PriceListInv /\ ResolutionTypeOK /\ ResolutionInv /\ [ResolutionNext]_pricing
    => (\A q \in Readers : BatchConsistent(reader[q]))'
<1> SUFFICES ASSUME PriceListTypeOK, PriceListInv, ResolutionTypeOK, ResolutionInv, [ResolutionNext]_pricing
             PROVE  \A q \in Readers : BatchConsistent(reader'[q])
  BY DEF BatchConsistent
<1>0. /\ \A q \in Readers : reader[q] \in ReaderStates /\ BatchConsistent(reader[q])
      /\ reader \in [Readers -> ReaderStates]
  BY DEF ResolutionTypeOK, ResolutionInv
<1> DEFINE Goal == \A q \in Readers : BatchConsistent(reader'[q])
<1>a. ASSUME NEW r \in Readers, NEW g, reader' = [reader EXCEPT ![r] = g], BatchConsistent(g)
      PROVE  Goal
  BY <1>0, <1>a
<1>1. ASSUME NEW r \in Readers, NEW b \in BOOLEAN, NEW d \in BOOLEAN, NEW vs \in SUBSET Variants,
             NEW q \in 1 .. MaxQty, Arrive(r, b, d, vs, q)
      PROVE  Goal
  <2> DEFINE g == ArrivedReader(b, d, vs, q, dealerTier)
  <2>1. g.pc = "tier"
    BY ArriveFields
  <2>2. BatchConsistent(g)
    BY <2>1 DEF BatchConsistent
  <2>3. reader' = [reader EXCEPT ![r] = g]
    BY <1>1 DEF Arrive, ArrivedReader, GotoReader
  <2> HIDE DEF g
  <2> QED
    BY <1>a, <2>2, <2>3
<1>2. ASSUME NEW r \in Readers, ReadTier(r)
      PROVE  Goal
  <2> DEFINE h == reader[r]
             g == [h EXCEPT !.tier = ResolveTier(h.business),
                            !.pc = IF h.batch THEN "entries" ELSE "own"]
  <2>1. h \in ReaderStates
    BY <1>0
  <2> HIDE DEF h
  <2>2. g.pc \in {"entries", "own"}
    BY <2>1 DEF ReaderStates
  <2>3. BatchConsistent(g)
    BY <2>2 DEF BatchConsistent
  <2>4. reader' = [reader EXCEPT ![r] = g]
    BY <1>2 DEF ReadTier, GotoReader, h
  <2> HIDE DEF g
  <2> QED
    BY <1>a, <2>3, <2>4
<1>3. ASSUME NEW r \in Readers, ReadOwn(r) \/ ReadFallback(r)
      PROVE  Goal
  <2> DEFINE h == reader[r]
             g(at, best) == [h EXCEPT !.pc = at, !.best = best]
  <2>1. PICK at, best : reader' = [reader EXCEPT ![r] = g(at, best)]
    BY <1>3 DEF ReadOwn, ReadFallback, GotoReader
  <2>2. h \in ReaderStates /\ ~h.batch
    BY <1>0, <1>3 DEF ReadOwn, ReadFallback, ResolutionInv, SingleSteps
  <2> HIDE DEF h
  <2>3. g(at, best).batch = h.batch
    BY <2>2 DEF ReaderStates
  <2> HIDE DEF g
  <2>4. BatchConsistent(g(at, best))
    BY <2>2, <2>3 DEF BatchConsistent
  <2> QED
    BY <1>a, <2>1, <2>4
<1>5. ASSUME NEW r \in Readers, ReadEntries(r)
      PROVE  Goal
  <2> DEFINE h == reader[r]
             g(rows) == [h EXCEPT !.pc = "reduce", !.rows = rows, !.pending = rows]
  <2>1. PICK rows \in Qualifying(h.wanted, {h.tier, DefaultTier}, h.qty) : reader' = [reader EXCEPT ![r] = g(rows)]
    BY <1>5 DEF ReadEntries, GotoReader
  <2>2. h \in ReaderStates /\ h.pc = "entries" /\ \A v \in Variants : h.best[v] = None
    BY <1>0, <1>5 DEF ReadEntries, ResolutionInv, SingleSteps
  <2>3. /\ \A x \in rows : x \in table /\ x.tier \in {h.tier, DefaultTier}
        /\ \A x, y \in rows : SameKey(x, y) => x = y
    BY <2>1 DEF Qualifying, PriceListInv, OneRowPerKey
  <2> HIDE DEF h
  <2>4. /\ g(rows).rows = rows /\ g(rows).pending = rows /\ g(rows).tier = h.tier
        /\ g(rows).best = h.best /\ g(rows).pc = "reduce"
    BY <2>2 DEF ReaderStates
  <2> HIDE DEF g
  <2>5. BatchConsistent(g(rows))
    BY <2>2, <2>3, <2>4 DEF BatchConsistent
  <2> QED
    BY <1>a, <2>1, <2>5
<1>6. ASSUME NEW r \in Readers, NEW x \in Row, ReduceOne(r, x)
      PROVE  Goal
  <2> DEFINE h == reader[r]
             left == h.pending \ {x}
             best == IF Replaces(x, h.best[x.variant], h.tier)
                     THEN [h.best EXCEPT ![x.variant] = x] ELSE h.best
             g == [h EXCEPT !.pending = left, !.best = best]
  <2>1. reader' = [reader EXCEPT ![r] = g]
    BY <1>6 DEF ReduceOne, GotoReader
  <2>2. h \in ReaderStates /\ h.pc = "reduce" /\ x \in h.pending /\ BatchConsistent(h)
        /\ h.pending \subseteq h.rows /\ h.batch
    BY <1>0, <1>6 DEF ReduceOne, ResolutionInv, SingleSteps
  <2> HIDE DEF h
  <2>3. h.best \in [Variants -> Row \cup {None}] /\ x.variant \in Variants /\ h.rows \subseteq Row
    BY <2>2 DEF ReaderStates, Row
  <2>4. /\ g.pc = h.pc /\ g.batch = h.batch /\ g.rows = h.rows /\ g.tier = h.tier
        /\ g.pending = left /\ g.best = best
    BY <2>2 DEF ReaderStates
  <2> HIDE DEF g
  <2>5. ASSUME NEW v \in Variants
        PROVE  \/ /\ best[v] = None
                  /\ \A y \in h.rows \ left : y.variant # v
               \/ /\ best[v] \in h.rows \ left
                  /\ best[v].variant = v
                  /\ \A y \in h.rows \ left : y.variant = v => ~Replaces(y, best[v], h.tier)
    <3>1. \A y \in h.rows \ left : y = x \/ y \in h.rows \ h.pending
      OBVIOUS
    <3>2. \A y, z \in Row : y.minQty \in Nat /\ z.minQty \in Nat
      BY MaxQtyAssumption DEF Row
    <3>3. CASE v # x.variant
      <4>1. best[v] = h.best[v]
        BY <2>3, <3>3
      <4> HIDE DEF best, left
      <4> QED
        BY <2>2, <3>1, <3>3, <4>1 DEF BatchConsistent, left
    <3>4. CASE v = x.variant /\ Replaces(x, h.best[v], h.tier)
      <4>1. best[v] = x
        BY <2>3, <3>4
      <4> HIDE DEF best
      <4>2. ASSUME NEW y \in h.rows \ left, y.variant = v
            PROVE  ~Replaces(y, x, h.tier)
        BY <2>2, <2>3, <3>1, <3>2, <3>4, <4>2, NoneIsNoRow DEF BatchConsistent, Replaces
      <4> QED
        BY <2>2, <3>4, <4>1, <4>2
    <3>5. CASE v = x.variant /\ ~Replaces(x, h.best[v], h.tier)
      <4>1. best[v] = h.best[v] /\ h.best[v] # None
        BY <2>3, <3>5 DEF Replaces
      <4> HIDE DEF best, left
      <4> QED
        BY <2>2, <3>1, <3>5, <4>1 DEF BatchConsistent, left
    <3> QED
      BY <3>3, <3>4, <3>5
  <2> HIDE DEF best, left
  <2>6. BatchConsistent(g)
    BY <2>2, <2>4, <2>5 DEF BatchConsistent
  <2> QED
    BY <1>a, <2>1, <2>6
<1>7. ASSUME NEW r \in Readers, ReduceEnd(r)
      PROVE  Goal
  <2> DEFINE h == reader[r]
             g == [h EXCEPT !.pc = "answer"]
  <2>1. /\ h \in ReaderStates /\ BatchConsistent(h) /\ h.pc = "reduce" /\ h.pending = {}
        /\ reader' = [reader EXCEPT ![r] = g]
    BY <1>0, <1>7 DEF ReduceEnd, GotoReader
  <2> HIDE DEF h
  <2>2. /\ g.batch = h.batch /\ g.rows = h.rows /\ g.tier = h.tier
        /\ g.pending = h.pending /\ g.best = h.best
    BY <2>1 DEF ReaderStates
  <2> HIDE DEF g
  <2>3. BatchConsistent(g)
    BY <2>1, <2>2 DEF BatchConsistent
  <2> QED
    BY <1>a, <2>1, <2>3
<1>8. ASSUME NEW r \in Readers, LeaveReader(r)
      PROVE  Goal
  <2>1. BatchConsistent(IdleReader)
    BY DEF BatchConsistent, IdleReader
  <2> QED
    BY <1>8, <1>a, <2>1 DEF LeaveReader, GotoReader
<1>9. ASSUME NEW t \in TierOrNone, UpdateApproval(t)
      PROVE  Goal
  <2>1. ASSUME NEW h \in ReaderStates, BatchConsistent(h)
        PROVE  BatchConsistent([h EXCEPT !.held = h.held \cup {t}])
    BY <2>1 DEF BatchConsistent, ReaderStates
  <2>2. \A r \in Readers : BatchConsistent([reader[r] EXCEPT !.held = @ \cup {t}])
    BY <1>0, <2>1
  <2> QED
    BY <1>0, <1>9, <2>2 DEF UpdateApproval
<1>10. ASSUME IssueAccessToken \/ EditPrices \/ UNCHANGED pricing
      PROVE  Goal
  BY <1>0, <1>10 DEF IssueAccessToken, EditPrices, resolution, pricing
<1> HIDE DEF Goal
<1>11. Goal
  BY <1>1, <1>2, <1>3, <1>5, <1>6, <1>7, <1>8, <1>9, <1>10 DEF ResolutionNext, ReaderStep
<1> QED
  BY <1>11 DEF Goal

\* Every step keeps the order of a resolution's own steps.
LEMMA SingleStepsStep ==
  ResolutionTypeOK /\ ResolutionInv /\ [ResolutionNext]_pricing => SingleSteps'
<1> SUFFICES ASSUME ResolutionTypeOK, ResolutionInv, [ResolutionNext]_pricing
             PROVE  SingleSteps'
  OBVIOUS
<1> DEFINE Fine(h) == /\ h.pc \in {"own", "fallback"} => ~h.batch
                      /\ h.pc \in {"entries", "reduce"} => h.batch
                      /\ h.pc \in {"tier", "entries"} => \A v \in Variants : h.best[v] = None
                      /\ h.pending \subseteq h.rows
           Goal == \A q \in Readers : Fine(reader'[q])
<1>0. /\ \A q \in Readers : reader[q] \in ReaderStates /\ Fine(reader[q])
      /\ reader \in [Readers -> ReaderStates]
  BY DEF ResolutionTypeOK, ResolutionInv, SingleSteps
<1>a. ASSUME NEW r \in Readers, NEW g, reader' = [reader EXCEPT ![r] = g], Fine(g)
      PROVE  Goal
  BY <1>0, <1>a
<1>1. ASSUME NEW r \in Readers, NEW b \in BOOLEAN, NEW d \in BOOLEAN, NEW vs \in SUBSET Variants,
             NEW q \in 1 .. MaxQty, Arrive(r, b, d, vs, q)
      PROVE  Goal
  <2>1. Fine(ArrivedReader(b, d, vs, q, dealerTier))
    BY ArriveFields
  <2> QED
    BY <1>1, <1>a, <2>1 DEF Arrive, ArrivedReader, GotoReader
<1>2. ASSUME NEW r \in Readers, ReadTier(r)
      PROVE  Goal
  <2> DEFINE h == reader[r]
             g(t) == [h EXCEPT !.tier = t, !.pc = IF h.batch THEN "entries" ELSE "own"]
  <2>1. h \in ReaderStates /\ h.pc = "tier" /\ Fine(h)
    BY <1>0, <1>2 DEF ReadTier
  <2>2. PICK t : reader' = [reader EXCEPT ![r] = g(t)]
    BY <1>2 DEF ReadTier, GotoReader
  <2> HIDE DEF h
  <2>3. Fine(g(t))
    BY <2>1 DEF ReaderStates
  <2> QED
    BY <1>a, <2>2, <2>3
<1>3. ASSUME NEW r \in Readers, ReadOwn(r) \/ ReadFallback(r)
      PROVE  Goal
  <2> DEFINE h == reader[r]
             g(at, best) == [h EXCEPT !.pc = at, !.best = best]
  <2>0. PICK at \in {"fallback", "answer"} :
               \E best : reader' = [reader EXCEPT ![r] = g(at, best)]
    BY <1>3 DEF ReadOwn, ReadFallback, GotoReader
  <2>1. PICK best : reader' = [reader EXCEPT ![r] = g(at, best)]
    BY <2>0
  <2>2. h \in ReaderStates /\ h.pc \in {"own", "fallback"} /\ Fine(h)
    BY <1>0, <1>3 DEF ReadOwn, ReadFallback
  <2> HIDE DEF h
  <2>3. Fine(g(at, best))
    BY <2>2 DEF ReaderStates
  <2> QED
    BY <1>a, <2>1, <2>3
<1>4. ASSUME NEW r \in Readers, ReadEntries(r)
      PROVE  Goal
  <2> DEFINE h == reader[r]
             g(rows) == [h EXCEPT !.pc = "reduce", !.rows = rows, !.pending = rows]
  <2>1. PICK rows : reader' = [reader EXCEPT ![r] = g(rows)]
    BY <1>4 DEF ReadEntries, GotoReader
  <2>2. h \in ReaderStates /\ h.pc = "entries" /\ Fine(h) /\ h.batch
    BY <1>0, <1>4 DEF ReadEntries
  <2> HIDE DEF h
  <2>3. Fine(g(rows))
    BY <2>2 DEF ReaderStates
  <2> QED
    BY <1>a, <2>1, <2>3
<1>5. ASSUME NEW r \in Readers, NEW x \in Row, ReduceOne(r, x)
      PROVE  Goal
  <2> DEFINE h == reader[r]
             left == h.pending \ {x}
             g(best) == [h EXCEPT !.pending = left, !.best = best]
  <2>1. PICK best : reader' = [reader EXCEPT ![r] = g(best)]
    BY <1>5 DEF ReduceOne, GotoReader
  <2>2. h \in ReaderStates /\ h.pc = "reduce" /\ Fine(h)
    BY <1>0, <1>5 DEF ReduceOne
  <2> HIDE DEF h
  <2>3. Fine(g(best))
    BY <2>2 DEF ReaderStates
  <2> QED
    BY <1>a, <2>1, <2>3
<1>6. ASSUME NEW r \in Readers, ReduceEnd(r)
      PROVE  Goal
  <2>1. ASSUME NEW h \in ReaderStates, Fine(h) PROVE Fine([h EXCEPT !.pc = "answer"])
    BY <2>1 DEF ReaderStates
  <2> QED
    BY <1>0, <1>6, <1>a, <2>1 DEF ReduceEnd, GotoReader
<1>7. ASSUME NEW r \in Readers, LeaveReader(r)
      PROVE  Goal
  <2>1. Fine(IdleReader)
    BY DEF IdleReader
  <2> QED
    BY <1>7, <1>a, <2>1 DEF LeaveReader, GotoReader
<1>8. ASSUME NEW t \in TierOrNone, UpdateApproval(t)
      PROVE  Goal
  <2>1. ASSUME NEW h \in ReaderStates, Fine(h) PROVE Fine([h EXCEPT !.held = h.held \cup {t}])
    BY <2>1 DEF ReaderStates
  <2>2. \A r \in Readers : Fine([reader[r] EXCEPT !.held = @ \cup {t}])
    BY <1>0, <2>1
  <2> QED
    BY <1>0, <1>8, <2>2 DEF UpdateApproval
<1>9. ASSUME IssueAccessToken \/ EditPrices \/ UNCHANGED pricing
      PROVE  Goal
  BY <1>0, <1>9 DEF IssueAccessToken, EditPrices, resolution, pricing
<1> HIDE DEF Goal
<1>10. Goal
  BY <1>1, <1>2, <1>3, <1>4, <1>5, <1>6, <1>7, <1>8, <1>9 DEF ResolutionNext, ReaderStep
<1> QED
  BY <1>10 DEF Goal, SingleSteps

\* The invariant of the resolutions.
LEMMA ResolutionInvCorrect ==
  ResolutionSpec => [](PriceListTypeOK /\ PriceListInv /\ ResolutionTypeOK /\ ResolutionInv)
<1>1. PriceListTypeOK /\ PriceListInv /\ ResolutionTypeOK /\ ResolutionInv /\ [ResolutionNext]_pricing
        => (PriceListTypeOK /\ PriceListInv /\ ResolutionTypeOK /\ ResolutionInv)'
  BY PriceListKept, ResolutionTypeStep, TierStep, SingleStepsStep, BatchStep DEF ResolutionInv
<1> QED
  BY ResolutionInitOK, <1>1, PTL DEF ResolutionSpec, pricing

\* Every variable of a resolution keeps its type.
THEOREM ResolutionTypeCorrect == ResolutionSpec => []ResolutionTypeOK
BY ResolutionInvCorrect, PTL

\* A page shows the very row a single resolution would pick, for any variants,
\* tiers, quantities and overlapping edits of the price list.
THEOREM BatchAgreesCorrect == ResolutionSpec => []BatchAgreesWithSingle
<1>1. ResolutionTypeOK /\ ResolutionInv => BatchAgreesWithSingle
  BY BatchEnds DEF ResolutionTypeOK, ResolutionInv, BatchAgreesWithSingle
<1> QED
  BY ResolutionInvCorrect, <1>1, PTL

\* A price is resolved in a tier the account held since the request arrived.
THEOREM TierIsCurrentCorrect == ResolutionSpec => []TierIsCurrent
<1>1. ResolutionInv => TierIsCurrent
  BY DEF ResolutionInv
<1> QED
  BY ResolutionInvCorrect, <1>1, PTL

=============================================================================
