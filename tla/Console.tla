------------------------------ MODULE Console ------------------------------
(***************************************************************************)
(* The product's own form in the console, over the handlers of Products.   *)
(* A desk is a tab: it shows a row as it was when rendered, the form sends *)
(* the whole of it back, and the answer comes some time after the commit,  *)
(* or never.  Names and slugs are kept by the form itself, as they were    *)
(* typed; its other fields go back to what was rendered with every answer. *)
(* A desk's request runs in the slot of its name; the console is the only  *)
(* client.                                                                 *)
(***************************************************************************)
EXTENDS Products, Access

CONSTANTS Changes,      \* what a user changes of a form before sending it (bound)
          NewIds        \* the ids the database gives to creations (bound)

\* The selects offer what there is, and ages are numbers from 0.
ASSUME ChangeAssumption ==
  /\ NewIds \subseteq Products /\ 0 \in Ages /\ Unknown \notin Categories
  /\ \A change \in Changes :
        /\ DOMAIN change.row \subseteq {"category", "brand", "min", "max"}
        /\ \A c \in DOMAIN change.row :
              change.row[c] \in CASE c = "category" -> Categories
                                  [] c = "brand" -> Brands \cup {None}
                                  [] OTHER -> Ages
        /\ DOMAIN change.text \subseteq Locales
        /\ \A l \in DOMAIN change.text : change.text[l] \in Texts \cup {None}
        /\ DOMAIN change.description \subseteq Locales
        /\ \A l \in DOMAIN change.description :
              change.description[l] \in Descriptions \cup {None}

VARIABLES desks         \* what each desk shows

consoleVars == <<visitor, desks, products, texts, descriptions, productJobs>>

Elsewhere == UNCHANGED <<visitor, products, texts, descriptions, productJobs>>

-----------------------------------------------------------------------------
(* Pages                                                                   *)

\* A form: a column per field, a text and a description per locale.
FormOf(p) == [row |-> products[p], text |-> texts[p], description |-> descriptions[p]]
NewForm   == [row |-> Blank, text |-> [l \in Locales |-> None],
              description |-> [l \in Locales |-> None]]

Desk(page, id, form) ==
  LET shown == IF RequireStaff(page) = "product" /\ products[id] = None
                 THEN "notFound" ELSE RequireStaff(page)
      held == IF shown \in {"new", "product"} THEN form ELSE NewForm IN
  [page |-> shown, id |-> IF shown = "product" THEN id ELSE 0, form |-> held,
   sent |-> NewForm, notice |-> ""]

\* A link followed while an answer is awaited is taken up after it is lost.
OpenProduct(q, p) ==
  /\ productJobs[q] = ProductIdle
  /\ desks' = [desks EXCEPT ![q] = Desk("product", p, FormOf(p))]
  /\ Elsewhere

OpenNew(q) ==
  /\ productJobs[q] = ProductIdle
  /\ desks' = [desks EXCEPT ![q] = Desk("new", 0, NewForm)]
  /\ Elsewhere

-----------------------------------------------------------------------------
(* What the form sends                                                     *)

\* A locale whose name and slug are left blank is no text, and its description
\* goes with it; a blank description is not sent, an empty choice of brand is no
\* column.
Filling(l, text) == IF text[l] = None THEN <<>> ELSE <<[locale |-> l, text |-> text[l]]>>

BuildTranslations(text) == Filling("vi", text) \o Filling("en", text)

DescriptionsSent(form) ==
  {l \in Locales : form.text[l] # None /\ form.description[l] # None}

ParseProductFields(form) ==
  [texts |-> BuildTranslations(form.text),
   descriptions |-> [l \in DescriptionsSent(form) |-> form.description[l]],
   patch |-> [c \in {"category", "min", "max"}
                      \cup (IF form.row.brand = None THEN {} ELSE {"brand"})
                |-> form.row[c]]]

\* The select of categories has no blank choice.
Filled(form, change) ==
  [row |-> Patched(form.row, change.row), text |-> Patched(form.text, change.text),
   description |-> Patched(form.description, change.description)]

\* The button is disabled while an answer is awaited.
Submit(q, page, form) ==
  /\ desks[q].page = page /\ productJobs[q] = ProductIdle
  /\ form.row.category # Unknown

Refuse(q, form, code) ==
  /\ desks' = [desks EXCEPT ![q].notice = MapError(code, "errUnknown"),
                            ![q].form.text = form.text]
  /\ Elsewhere

SubmitNew(q, p, change) ==
  LET form == Filled(desks[q].form, change) IN
  /\ Submit(q, "new", form)
  /\ \/ Gate(ProductRoles) # "ok" /\ Refuse(q, form, Gate(ProductRoles))
     \/ /\ Gate(ProductRoles) = "ok"
        /\ CreateProduct(q, p, ParseProductFields(form))
        /\ desks' = [desks EXCEPT ![q].sent = form, ![q].form.text = form.text,
                                   ![q].id = p]
        /\ UNCHANGED visitor

Save(q, change) ==
  LET form == Filled(desks[q].form, change) IN
  /\ Submit(q, "product", form)
  /\ \/ Gate(ProductRoles) # "ok" /\ Refuse(q, form, Gate(ProductRoles))
     \/ /\ Gate(ProductRoles) = "ok"
        /\ UpdateRead(q, desks[q].id, ParseProductFields(form))
        /\ desks' = [desks EXCEPT ![q].sent = form, ![q].form.text = form.text]
        /\ UNCHANGED visitor

\* The rest of the update, in the API.
Commit(q) == UpdateCommit(q) /\ UNCHANGED <<visitor, desks>>

\* Deactivate discards what its action answers.
Deactivate(q) ==
  /\ desks[q].page = "product" /\ productJobs[q] = ProductIdle
  /\ Gate(ProductRoles) = "ok"
  /\ SoftDelete(q, desks[q].id)
  /\ UNCHANGED <<visitor, desks>>

\* The desk with what its own form says: not of a deactivation, which sends none.
Noticed(desk, code) ==
  [desk EXCEPT !.sent = NewForm,
               !.notice = IF desk.sent = NewForm THEN @ ELSE MapError(code, "errUnknown")]

\* A success renders the product's page, to which a creation redirects; where it
\* was shown before, its form goes on with the names and slugs it has.
Rerendered(desk) ==
  LET fresh == Desk("product", desk.id, FormOf(desk.id)) IN
  IF desk.page = "product" /\ fresh.page = "product"
    THEN [fresh EXCEPT !.form.text = desk.form.text,
                       !.notice = IF desk.sent = NewForm THEN desk.notice ELSE ""]
  ELSE fresh

\* The answer.
Answer(q) ==
  /\ productJobs[q].pc = "done"
  /\ desks' = [desks EXCEPT ![q] =
       IF productJobs[q].code = "ok" THEN Rerendered(@)
       ELSE Noticed(@, productJobs[q].code)]
  /\ SetProductJob(q, ProductIdle)
  /\ UNCHANGED <<visitor, products, texts, descriptions>>

\* The answer is lost on the way: the form does not know what became of it.
AnswerLost(q) ==
  /\ productJobs[q].pc = "done"
  /\ desks' = [desks EXCEPT ![q] = Noticed(@, "lost")]
  /\ SetProductJob(q, ProductIdle)
  /\ UNCHANGED <<visitor, products, texts, descriptions>>

ConsoleSignIn(role) ==
  /\ visitor' = role
  /\ UNCHANGED <<desks, products, texts, descriptions, productJobs>>

ConsoleInit ==
  /\ ProductsInit
  /\ visitor = "anonymous"
  /\ desks = [q \in Requests |-> Desk("home", 0, NewForm)]

ConsoleNext ==
  \/ \E q \in Requests :
       \/ \E p \in NewIds : OpenProduct(q, p)
       \/ OpenNew(q)
       \/ \E change \in Changes :
            Save(q, change) \/ \E p \in NewIds : SubmitNew(q, p, change)
       \/ Commit(q) \/ Deactivate(q) \/ Answer(q) \/ AnswerLost(q)
  \/ \E role \in {"CONTENT", "SALES"} : ConsoleSignIn(role)

ConsoleSpec == ConsoleInit /\ [][ConsoleNext]_consoleVars

-----------------------------------------------------------------------------

\* A desk shows a page and a notice of the console, and the form of a product a
\* row, texts and descriptions of products.
ConsoleTypeOK ==
  \A q \in Requests :
     /\ desks[q].page \in DOMAIN PageRoles \cup {"login", "notFound"}
     /\ desks[q].notice \in {"", "errForbidden", "errUnknown", "errSlugTaken",
                             "errAgeRange", "errBothLocales"}
     /\ desks[q].page = "product" => desks[q].form.row \in ProductRow
     /\ \A l \in Locales : /\ desks[q].form.text[l] \in Texts \cup {None}
                          /\ desks[q].form.description[l] \in Descriptions \cup {None}

\* While the console is the only client, no stored age range is inverted: the
\* check is on a stale row, but the form sends both ages and so the body
\* overrides what was read.
ConsoleKeepsRange == \A p \in Products : Ordered(products[p])

\* A save that is accepted stores every field of the form as it was sent, but
\* for those sent blank: a brand, a description, and the name and slug of a
\* locale, whose description then goes with them.  These stay as they were.
AcceptedIsStored ==
  [][\A q \in Requests :
        /\ productJobs'[q] = ProductAnswer("ok")
        /\ \/ productJobs[q].pc = "checked" /\ desks[q].page = "product"
           \/ productJobs[q].pc = "idle" /\ desks[q].page = "new"
        => \A p \in {desks'[q].id}, sent \in {desks'[q].sent} :
             /\ \A c \in {"category", "brand", "min", "max"} :
                   products'[p][c] =
                     IF c = "brand" /\ sent.row[c] = None /\ products[p] # None
                       THEN products[p][c] ELSE sent.row[c]
             /\ \A l \in Locales :
                   /\ texts'[p][l] = IF sent.text[l] = None THEN texts[p][l]
                                     ELSE sent.text[l]
                   /\ descriptions'[p][l] =
                        IF None \in {sent.text[l], sent.description[l]}
                          THEN descriptions[p][l] ELSE sent.description[l]]_consoleVars

=============================================================================
