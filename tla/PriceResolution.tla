-------------------------- MODULE PriceResolution --------------------------
(***************************************************************************)
(* PriceResolutionService: which price list entry a viewer pays, resolved  *)
(* for one variant (resolveUnitPrice) or for a page of them                *)
(* (resolveUnitPrices), while staff edit the price list of PriceList and   *)
(* the viewer's approval changes.  One business account is enough: a       *)
(* resolution reads no other.                                              *)
(***************************************************************************)
EXTENDS PriceList

CONSTANTS Readers       \* resolutions in flight at once (bound)

ASSUME NoneIsNoTier == None \notin Tiers

VARIABLES
  dealerTier, \* the account's priceTierId if it is APPROVED, else None
  jwtTier,    \* the priceTierId claim of the account's access token
  reader      \* the resolution in flight in each slot

resolution == <<dealerTier, jwtTier, reader>>

-----------------------------------------------------------------------------

TierOrNone == Tiers \cup {None}

IdleReader == [pc |-> "idle", batch |-> FALSE, business |-> FALSE, wanted |-> {},
               qty |-> 1, tier |-> None, rows |-> {}, pending |-> {},
               best |-> [v \in Variants |-> None], held |-> {}]

ReaderStates ==
  [pc : {"idle", "tier", "own", "fallback", "entries", "reduce", "answer"},
   batch    : BOOLEAN,             \* resolveUnitPrices, else resolveUnitPrice
   business : BOOLEAN,             \* the viewer is the business account
   wanted   : SUBSET Variants,
   qty      : 1 .. MaxQty,
   tier     : TierOrNone,          \* the resolved tier
   rows     : SUBSET Row,          \* what the one query of a batch returned
   pending  : SUBSET Row,          \* the rows its loop has still to visit
   best     : [Variants -> Row \cup {None}],
   held     : SUBSET TierOrNone]   \* values dealerTier had since it arrived

GotoReader(r, h) == reader' = [reader EXCEPT ![r] = h]

-----------------------------------------------------------------------------
(* The queries                                                             *)

\* What a query may return for quantity q: the rows of variants vs in tiers ts
\* whose validFrom and validTo include the moment, any of them.
Qualifying(vs, ts, q) ==
  SUBSET {x \in table : x.variant \in vs /\ x.tier \in ts /\ x.minQty <= q}

\* findFirst ordered by minQty descending, among rows.
FindBest(rows, v, t) ==
  LET mine == {x \in rows : x.variant = v /\ x.tier = t}
  IN IF mine = {} THEN None
     ELSE CHOOSE x \in mine : \A y \in mine : y.minQty <= x.minQty

\* Mutant of ResolveTier: the tier is taken from the access token.
TierOfToken(business) ==
  IF business /\ jwtTier # None THEN jwtTier ELSE DefaultTier

\* resolveTierId: the account is read afresh; anyone else, and an account
\* without approval, pays the default tier.
ResolveTier(business) ==
  IF business /\ dealerTier # None THEN dealerTier ELSE DefaultTier

-----------------------------------------------------------------------------
(* resolveUnitPrice and resolveUnitPrices                                  *)

\* A request for a page of variants, or for one; an empty page is answered at
\* once.
Arrive(r, batch, business, vs, q) ==
  /\ reader[r].pc = "idle"
  /\ IF batch THEN vs # {} ELSE \E v \in Variants : vs = {v}
  /\ GotoReader(r, [IdleReader EXCEPT !.pc = "tier", !.batch = batch, !.business = business,
                                      !.wanted = vs, !.qty = q, !.held = {dealerTier}])
  /\ UNCHANGED <<priceList, dealerTier, jwtTier>>

ReadTier(r) ==
  /\ reader[r].pc = "tier"
  /\ GotoReader(r, [reader[r] EXCEPT !.tier = ResolveTier(reader[r].business),
                                     !.pc = IF reader[r].batch THEN "entries" ELSE "own"])
  /\ UNCHANGED <<priceList, dealerTier, jwtTier>>

\* resolveUnitPrice looks in the resolved tier ...
ReadOwn(r) ==
  LET h == reader[r] IN
  \E rows \in Qualifying(h.wanted, {h.tier}, h.qty) :
     /\ h.pc = "own"
     /\ GotoReader(r, [h EXCEPT !.pc = IF rows = {} /\ h.tier # DefaultTier
                                       THEN "fallback" ELSE "answer",
                                !.best = [v \in Variants |-> FindBest(rows, v, h.tier)]])
     /\ UNCHANGED <<priceList, dealerTier, jwtTier>>

\* ... and, finding nothing, in the default tier; with nothing there either it
\* answers PRICE_NOT_CONFIGURED.
ReadFallback(r) ==
  LET h == reader[r] IN
  \E rows \in Qualifying(h.wanted, {DefaultTier}, h.qty) :
     /\ h.pc = "fallback"
     /\ GotoReader(r, [h EXCEPT !.pc = "answer",
                                !.best = [v \in Variants |-> FindBest(rows, v, DefaultTier)]])
     /\ UNCHANGED <<priceList, dealerTier, jwtTier>>

\* resolveUnitPrices reads the rows of both tiers in one query, unordered ...
ReadEntries(r) ==
  LET h == reader[r] IN
  \E rows \in Qualifying(h.wanted, {h.tier, DefaultTier}, h.qty) :
     /\ h.pc = "entries"
     /\ GotoReader(r, [h EXCEPT !.pc = "reduce", !.rows = rows, !.pending = rows])
     /\ UNCHANGED <<priceList, dealerTier, jwtTier>>

\* Mutant of Replaces: the greatest minQty wins in whichever tier.
ReplacesAnyTier(x, cur, tier) == cur = None \/ x.minQty > cur.minQty

\* The loop's test for replacing the best row so far, cur, by x.
Replaces(x, cur, tier) ==
  \/ cur = None
  \/ x.tier = tier /\ cur.tier # tier
  \/ (x.tier = tier) = (cur.tier = tier) /\ x.minQty > cur.minQty

\* ... and visits them in whatever order the database returned them.
ReduceOne(r, x) ==
  LET h == reader[r] IN
  /\ h.pc = "reduce"
  /\ x \in h.pending
  /\ GotoReader(r, [h EXCEPT !.pending = @ \ {x},
                             !.best = IF Replaces(x, @[x.variant], h.tier)
                                      THEN [@ EXCEPT ![x.variant] = x] ELSE @])
  /\ UNCHANGED <<priceList, dealerTier, jwtTier>>

ReduceEnd(r) ==
  /\ reader[r].pc = "reduce"
  /\ reader[r].pending = {}
  /\ GotoReader(r, [reader[r] EXCEPT !.pc = "answer"])
  /\ UNCHANGED <<priceList, dealerTier, jwtTier>>

\* The answer leaves; or the handler is lost before.
LeaveReader(r) ==
  /\ reader[r].pc # "idle"
  /\ GotoReader(r, IdleReader)
  /\ UNCHANGED <<priceList, dealerTier, jwtTier>>

-----------------------------------------------------------------------------
(* What goes on around a resolution                                        *)

\* updateApproval approves the account for a tier that exists and is not the
\* default, or rejects it.
UpdateApproval(t) ==
  /\ t \in (tiers \ {DefaultTier}) \cup {None}
  /\ dealerTier' = t
  /\ reader' = [r \in Readers |->
                  IF reader[r].pc = "idle" THEN reader[r]
                  ELSE [reader[r] EXCEPT !.held = @ \cup {t}]]
  /\ UNCHANGED <<priceList, jwtTier>>

\* A login or a refresh puts the tier of the moment in the access token.
IssueAccessToken ==
  /\ jwtTier' = dealerTier
  /\ UNCHANGED <<priceList, dealerTier, reader>>

-----------------------------------------------------------------------------

ResolutionInit ==
  /\ PriceListInit
  /\ dealerTier = None
  /\ jwtTier = None
  /\ reader = [r \in Readers |-> IdleReader]

ReaderStep(r) ==
  \/ \E batch, business \in BOOLEAN, vs \in SUBSET Variants, q \in 1 .. MaxQty :
       Arrive(r, batch, business, vs, q)
  \/ ReadTier(r) \/ ReadOwn(r) \/ ReadFallback(r) \/ ReadEntries(r)
  \/ \E x \in Row : ReduceOne(r, x)
  \/ ReduceEnd(r) \/ LeaveReader(r)

EditPrices == PriceListNext /\ UNCHANGED resolution

ResolutionNext ==
  \/ EditPrices
  \/ \E r \in Readers : ReaderStep(r)
  \/ \E t \in TierOrNone : UpdateApproval(t)
  \/ IssueAccessToken

ResolutionSpec == ResolutionInit /\ [][ResolutionNext]_<<priceList, resolution>>

-----------------------------------------------------------------------------
(* Properties                                                              *)

\* Every variable of this module has its type.
ResolutionTypeOK ==
  /\ dealerTier \in TierOrNone
  /\ jwtTier \in TierOrNone
  /\ reader \in [Readers -> ReaderStates]

\* A page shows for each variant the very row resolveUnitPrice would pick from
\* the same rows: the best of the resolved tier, the best of the default tier
\* only if that one has none, and no row only if both have none, in whatever
\* order the database returned them.
BatchAgreesWithSingle ==
  \A r \in Readers : LET h == reader[r] IN
    h.batch /\ h.pc = "answer" =>
      \A v \in Variants :
        h.best[v] = IF FindBest(h.rows, v, h.tier) # None
                    THEN FindBest(h.rows, v, h.tier)
                    ELSE FindBest(h.rows, v, DefaultTier)

\* The tier a price is resolved in is one the account held after the request
\* arrived, never the one its access token was issued with: a revoked approval
\* shows on the very next request.
TierIsCurrent ==
  \A r \in Readers : LET h == reader[r] IN
    h.pc \notin {"idle", "tier"} =>
      \/ h.tier = DefaultTier /\ (h.business => None \in h.held)
      \/ h.business /\ h.tier \in h.held \ {None}

\* What the proof needs to know of a batch: it works on rows with distinct
\* keys of the two tiers, and best[v] is the best of those it has visited.
BatchConsistent(h) ==
  h.batch /\ h.pc \in {"reduce", "answer"} =>
    /\ \A x, y \in h.rows : SameKey(x, y) => x = y
    /\ \A x \in h.rows : x.tier \in {h.tier, DefaultTier}
    /\ h.pc = "answer" => h.pending = {}
    /\ \A v \in Variants :
         \/ /\ h.best[v] = None
            /\ \A y \in h.rows \ h.pending : y.variant # v
         \/ /\ h.best[v] \in h.rows \ h.pending
            /\ h.best[v].variant = v
            /\ \A y \in h.rows \ h.pending :
                 y.variant = v => ~Replaces(y, h.best[v], h.tier)

=============================================================================
