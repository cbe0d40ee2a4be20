-------------------------------- MODULE Seed --------------------------------
(***************************************************************************)
(* The seed script: a row after a row, each an upsert of its own, with no  *)
(* transaction around them.  It may be run again, after a crash halfway or *)
(* on a shop that staff have worked in since; the sections are here with   *)
(* one product, its variant, and the two dealers.  A price or a            *)
(* certification that staff delete, which a run puts back, is left out,    *)
(* and so is a row of theirs that has the name of a seeded one: a run      *)
(* takes it for its own.                                                   *)
(***************************************************************************)
EXTENDS Integers, Sequences, FiniteSets

CONSTANTS RetailPrice,   \* of the variant, in VND
          MaxEdits,      \* edits by staff (bound)
          Null           \* no parent, no second unique column

\* The prices of the script are of six digits; below 2000, roundVnd could make
\* a dealer's price the retail price.
ASSUME SeedAssumption == RetailPrice \in Nat /\ RetailPrice >= 2000 /\ MaxEdits \in Nat

VARIABLES
  base,       \* the rows of each table
  line,       \* the statement the script is at, 0 when it is not running
  held,       \* the ids the run has got back, as its statements refer to rows
  outcome,    \* how the last run ended
  edited,     \* history: the edits by staff so far
  touched     \* history: there was an edit since the run began

seedVars == <<base, line, held, outcome, edited, touched>>

-----------------------------------------------------------------------------
(* The script                                                              *)

\* roundVnd of a share of the retail price in percent.
RoundVnd(share) == ((RetailPrice * share + 25000) \div 50000) * 500

TierPrices == [retail |-> RoundVnd(100), a1 |-> RoundVnd(75),
               a12 |-> RoundVnd(65), b1 |-> RoundVnd(70)]

\* upsert: the row of this key, and of this parent where the key is compound;
\* another unique column; what an update sets and what a creation adds.
Upsert(table, key, parent, alt, set, add) ==
  [table |-> table, key |-> key, parent |-> parent, alt |-> alt,
   set |-> set, add |-> add]

Of(table, key) == [table |-> table, key |-> key]
Plain(table, key, set) == Upsert(table, key, Null, Null, set, <<>>)

\* The rows that others refer to.
Referred == {Of("brand", "LEGO"), Of("category", "cat"),
             Of("product", "product"), Of("variant", "sku")}

ASSUME NullIsNoRow == Null \notin Referred

\* The tiers are upserted side by side, as the brands are: here, in one order.
TierSeeds == << Plain("tier", "RETAIL", [default |-> TRUE]),
                Plain("tier", "DEALER_A", [default |-> FALSE]),
                Plain("tier", "DEALER_B", [default |-> FALSE]) >>

StaffSeeds == << Plain("account", "admin", [type |-> "STAFF", active |-> TRUE]),
                 Plain("profile", "admin", [role |-> "SUPER_ADMIN"]) >>

CustomerSeeds ==
  << Plain("account", "customer", [type |-> "RETAIL_CUSTOMER", active |-> TRUE]),
     Plain("profile", "customer", <<>>) >>

\* Mutant of DealerSeeds: the second dealer has the taxId of the first.
DealerSeedsOneTaxId ==
  << Plain("account", "dealer", [type |-> "BUSINESS_ACCOUNT", active |-> TRUE]),
     Upsert("business", "dealer", Null, "tax1", [status |-> "APPROVED"], <<>>),
     Plain("account", "pending", [type |-> "BUSINESS_ACCOUNT", active |-> TRUE]),
     Upsert("business", "pending", Null, "tax1", [status |-> "PENDING"], <<>>) >>

DealerSeeds ==
  << Plain("account", "dealer", [type |-> "BUSINESS_ACCOUNT", active |-> TRUE]),
     Upsert("business", "dealer", Null, "tax1", [status |-> "APPROVED"], <<>>),
     Plain("account", "pending", [type |-> "BUSINESS_ACCOUNT", active |-> TRUE]),
     Upsert("business", "pending", Null, "tax2", [status |-> "PENDING"], <<>>) >>

BrandSeeds == << Plain("brand", "LEGO", [country |-> "DK"]) >>

CategorySeeds ==
  << Plain("category", "cat", <<>>),
     Upsert("text", "vi", Of("category", "cat"), "cat-slug", <<>>, <<>>) >>

\* A product that is there already keeps whether it is active.
ProductSeeds ==
  << Upsert("product", "product", Of("brand", "LEGO"), Null, [scope |-> "BOTH"],
            [active |-> TRUE]),
     Upsert("text", "vi", Of("product", "product"), "slug", <<>>, <<>>) >>

Priced(tier, amount) ==
  Upsert("price", tier, Of("variant", "sku"), Null, [amount |-> amount], <<>>)

VariantSeeds ==
  << Upsert("variant", "sku", Of("product", "product"), "barcode",
            [active |-> TRUE], <<>>),
     Upsert("cert", "cert-sku", Of("variant", "sku"), Null, <<>>, <<>>),
     Priced("RETAIL", TierPrices.retail), Priced("DEALER_A", TierPrices.a1),
     Priced("DEALER_A_12", TierPrices.a12), Priced("DEALER_B", TierPrices.b1),
     Upsert("stock", "stock", Of("variant", "sku"), Null, [quantity |-> 120], <<>>) >>

Script == TierSeeds \o StaffSeeds \o CustomerSeeds \o DealerSeeds \o BrandSeeds
            \o CategorySeeds \o ProductSeeds \o VariantSeeds

Tables == {Script[i].table : i \in DOMAIN Script}

-----------------------------------------------------------------------------
(* Rows                                                                    *)

Compound == {"text", "price", "stock"}    \* keyed by their parent as well

\* The id of the row a statement refers to, as it was when it was upserted.
ParentId(s) ==
  IF s.parent = Null THEN Null ELSE (CHOOSE h \in held : h.of = s.parent).id

Matches(s) ==
  {r \in base[s.table] :
     r.key = s.key /\ (s.table \in Compound => r.parent = ParentId(s))}

\* A new id: how many rows its table had before it, none of which is deleted.
NewId(s) == <<s.table, Cardinality(base[s.table])>>

Merge(data, cols) ==
  [c \in DOMAIN data \cup DOMAIN cols |->
     IF c \in DOMAIN cols THEN cols[c] ELSE data[c]]

\* The row a statement leaves, given the row it found, if it did.
Written(s, found) ==
  IF found = {}
    THEN [id |-> NewId(s), key |-> s.key, parent |-> ParentId(s), alt |-> s.alt,
          data |-> Merge(s.add, s.set)]
    ELSE LET r == CHOOSE x \in found : TRUE IN
         [id |-> r.id, key |-> s.key, parent |-> ParentId(s), alt |-> s.alt,
          data |-> Merge(r.data, s.set)]

\* A unique index refuses the row.
Collides(table, row) ==
  \E r \in base[table] :
     /\ r.id # row.id
     /\ \/ r.alt # Null /\ r.alt = row.alt
        \/ r.key = row.key /\ (table \in Compound => r.parent = row.parent)

-----------------------------------------------------------------------------
(* Runs                                                                    *)

Start ==
  /\ line = 0
  /\ line' = 1 /\ held' = {} /\ outcome' = "running" /\ touched' = FALSE
  /\ UNCHANGED <<base, edited>>

\* One statement; the first that fails ends the run.
Statement ==
  /\ line > 0
  /\ LET s == Script[line]
         row == Written(s, Matches(s)) IN
     \/ /\ Collides(s.table, row)
        /\ line' = 0 /\ outcome' = "failed" /\ UNCHANGED <<base, held>>
     \/ /\ ~Collides(s.table, row)
        /\ base' = [base EXCEPT ![s.table] = (@ \ Matches(s)) \cup {row}]
        /\ held' = held \cup {[of |-> Of(s.table, s.key), id |-> row.id]}
        /\ line' = IF line = Len(Script) THEN 0 ELSE line + 1
        /\ outcome' = IF line = Len(Script) THEN "complete" ELSE "running"
  /\ UNCHANGED <<edited, touched>>

Crash ==
  /\ line > 0
  /\ line' = 0 /\ outcome' = "crashed"
  /\ UNCHANGED <<base, held, edited, touched>>

-----------------------------------------------------------------------------
(* Staff, through the console and the API, at any time                     *)

Edit(kind, table, new) ==
  /\ Cardinality(edited) < MaxEdits /\ kind \notin edited
  /\ base' = [base EXCEPT ![table] = new]
  /\ edited' = edited \cup {kind}
  /\ touched' = TRUE
  /\ UNCHANGED <<line, held, outcome>>

With(r, key, alt, data) ==
  [id |-> r.id, key |-> key, parent |-> r.parent, alt |-> alt,
   data |-> Merge(r.data, data)]

\* A row that is not of the script has a unique value of it: a product or a
\* category a slug, a variant a barcode, an account that registered a taxId.
Other == <<"other", 0>>

Taker(s) ==
  [id |-> Other, key |-> IF s.table \in Compound THEN s.key ELSE "other",
   parent |-> Other, alt |-> s.alt, data |-> <<>>]

Takings == [text |-> "slugTaken", variant |-> "barcodeTaken", business |-> "taxIdTaken"]

\* It can while no row has the value: before the script first ran, or since staff
\* changed it.
Take(s) ==
  /\ s.alt # Null /\ \A r \in base[s.table] : r.alt # s.alt
  /\ Edit(Takings[s.table], s.table, base[s.table] \cup {Taker(s)})

StaffEdit ==
  \/ \E r \in base["brand"] :
       Edit("brandName", "brand",
            (base["brand"] \ {r}) \cup {With(r, "renamed", Null, <<>>)})
  \/ \E r \in base["variant"] :
       \/ Edit("sku", "variant",
               (base["variant"] \ {r}) \cup {With(r, "renamed", r.alt, <<>>)})
       \/ Edit("barcode", "variant",
               (base["variant"] \ {r}) \cup {With(r, r.key, "changed", <<>>)})
  \/ \E r \in base["product"] :
       Edit("retired", "product",
            (base["product"] \ {r})
               \cup {With(r, r.key, Null, [active |-> FALSE])})
  \/ \E r \in base["business"] :
       /\ r.key = "pending"
       /\ Edit("approval", "business",
               (base["business"] \ {r})
                  \cup {With(r, r.key, r.alt, [status |-> "APPROVED"])})
  \/ \E r \in base["price"] :
       Edit("price", "price",
            (base["price"] \ {r}) \cup {With(r, r.key, Null, [amount |-> 0])})
  \/ \E r \in base["text"] :
       Edit("slugChanged", "text",
            (base["text"] \ {r}) \cup {With(r, r.key, "changed", <<>>)})
  \/ \E i \in DOMAIN Script : Take(Script[i])

SeedInit ==
  /\ base = [t \in Tables |-> {}]
  /\ line = 0 /\ held = {} /\ outcome = "none" /\ edited = {} /\ touched = FALSE

SeedNext == Start \/ Statement \/ Crash \/ StaffEdit

SeedSpec == SeedInit /\ [][SeedNext]_seedVars

-----------------------------------------------------------------------------

\* Ids are unique, every row has the parent it refers to, and the script is
\* at a statement of its own.
SeedTypeOK ==
  /\ line \in 0 .. Len(Script)
  /\ outcome \in {"none", "running", "complete", "failed", "crashed"}
  /\ \A t \in Tables : \A r, o \in base[t] : r.id = o.id => r = o
  /\ \A r \in base["price"] : \E v \in base["variant"] : v.id = r.parent

\* The header of the script says that running it again must not error: it does
\* only if staff renamed a seeded sku, whose barcode its row still has, or if
\* another row has a seeded slug, barcode or taxId.  No crash alone makes a later
\* run fail.
SeedFailsOnlyAfterEdit ==
  outcome = "failed"
    => edited \cap {"sku", "slugTaken", "barcodeTaken", "taxIdTaken"} # {}

\* Nor must it duplicate rows: a table has more rows of the script than it seeds
\* only if staff renamed a row by the name it is looked up with.
SeedAddsNoRows ==
  \A t \in Tables :
     Cardinality({r \in base[t] : r.id # Other})
         > Cardinality({i \in DOMAIN Script : Script[i].table = t})
       => edited \cap {"brandName", "sku"} # {}

\* Wherever a run stopped, no dealer's price is there without the retail price
\* of the variant, nor above it unless staff set one of the two.
RetailPriceFirst ==
  \A r \in base["price"] :
     r.key # "RETAIL"
       => \E o \in base["price"] :
            /\ o.key = "RETAIL" /\ o.parent = r.parent
            /\ r.data.amount < o.data.amount \/ "price" \in edited

\* A run that completes undisturbed leaves every seeded row with what the
\* script sets, whatever crashed before it and whatever staff had edited.
CompleteRunRestores ==
  outcome = "complete" /\ ~touched
    => \A i \in DOMAIN Script :
         \E r \in Matches(Script[i]) :
            /\ r.alt = Script[i].alt
            /\ \A c \in DOMAIN Script[i].set : r.data[c] = Script[i].set[c]

\* A product that staff retired is not put on sale again by another run.
RetiredProductStaysRetired ==
  [][\A r \in base["product"] :
        ~r.data.active => \E n \in base'["product"] :
                             n.id = r.id /\ ~n.data.active]_seedVars

\* All of them: what whoever runs the script again may rely on.
SeedRerunnable ==
  /\ [](SeedFailsOnlyAfterEdit /\ SeedAddsNoRows
          /\ RetailPriceFirst /\ CompleteRunRestores)
  /\ RetiredProductStaysRetired

=============================================================================
