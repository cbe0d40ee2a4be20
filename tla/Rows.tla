-------------------------------- MODULE Rows --------------------------------
(***************************************************************************)
(* What the admin services share: rows and the partial bodies written over *)
(* them, translations in two locales, and the slots requests run in.       *)
(***************************************************************************)
EXTENDS Integers, Sequences, FiniteSets

CONSTANTS Requests,   \* handlers in flight at once (bound)
          Unknown,    \* an id no row has
          None

Locales == {"vi", "en"}

\* The columns a body leaves out keep their value.
Patched(row, patch) ==
  [c \in DOMAIN row |-> IF c \in DOMAIN patch THEN patch[c] ELSE row[c]]

\* assertBothLocales: one text of each locale, none twice.
BothLocales(list) == Len(list) = 2 /\ {list[i].locale : i \in 1 .. 2} = Locales

\* The texts after the upserts of the list, of which the last wins.
Translated(old, list) ==
  [l \in Locales |->
     LET of == {i \in DOMAIN list : list[i].locale = l} IN
     IF of = {} THEN old[l]
     ELSE list[CHOOSE i \in of : \A j \in of : j <= i].text]

\* The unique index on locale and slug refuses a text another row has.
SlugTaken(table, id, list) ==
  \E i \in DOMAIN list : \E other \in DOMAIN table \ {id} :
     table[other][list[i].locale] = list[i].text

=============================================================================
