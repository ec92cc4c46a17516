------------------------------ MODULE Catalog ------------------------------
(***************************************************************************)
(* The catalog as an administrator edits it and a visitor reads it.  A     *)
(* request of an administrator is one transaction; a PATCH of a product    *)
(* reads the product first and writes at the end, and what it writes is    *)
(* what differs from what it read, so that other commits can come between. *)
(*                                                                         *)
(* A table is a function from the ids of its rows to the rows; texts are   *)
(* told apart by their slug, and a variant by its SKU.                     *)
(***************************************************************************)
EXTENDS Schema, Locales, TLC

CONSTANTS
    Sessions,     \* requests of administrators in service at a time
    ProductIds,   \* ids to draw for products, natural numbers
    CategoryIds,  \* ids to draw for categories, natural numbers
    Payloads,     \* what an administrator sends to create a product
    Patches,      \* what one sends to change a product
    Headings,     \* the texts of a category that one sends
    MaxRequests   \* bound on the requests of administrators

NoParent == 0
Unchanged == "unchanged"
Idle == [product |-> 0]

Statuses == {"draft", "published", "archived"}

ASSUME CatalogAssumption ==
    /\ NoParent \notin CategoryIds
    /\ \A payload \in Payloads : payload.status \in Statuses
    /\ \A patch \in Patches : patch.status \in Statuses \union {Unchanged}
    /\ MaxRequests \in Nat

VARIABLES
    db,        \* the committed database
    edit,      \* the PATCH that each session serves
    requests   \* requests of administrators so far

-----------------------------------------------------------------------------
(* The tables and their constraints.                                       *)

Without(table, id) == [other \in DOMAIN table \ {id} |-> table[other]]

With(table, id, row) ==
    [other \in DOMAIN table \union {id} |->
        IF other = id THEN row ELSE table[other]]

\* The texts in some languages, and the old ones in the others.
Over(new, old) ==
    [l \in DOMAIN new \union DOMAIN old |->
        IF l \in DOMAIN new THEN new[l] ELSE old[l]]

\* uuid4 draws an id that is not in use, and never runs out of them.
IdsLeft(ids, table) == ids \ DOMAIN table # {}

NewId(ids, table) == CHOOSE id \in ids \ DOMAIN table : TRUE

\* UNIQUE (locale, slug).
SlugsUnique(table) ==
    \A i, j \in DOMAIN table : i # j =>
        \A l \in DOMAIN table[i].text \intersect DOMAIN table[j].text :
            table[i].text[l] # table[j].text[l]

TextsHosted(d, table) ==
    \A i \in DOMAIN table : DOMAIN table[i].text \subseteq {l.code : l \in d.locale}

AllSkus(d) == UNION {d.product[p].skus : p \in DOMAIN d.product}

\* What PostgreSQL checks before a commit: the unique and the foreign keys.
Lawful(d) ==
    /\ SlugsUnique(d.product) /\ SlugsUnique(d.category)
    /\ TextsHosted(d, d.product) /\ TextsHosted(d, d.category)
    /\ \A p, q \in DOMAIN d.product :
          p # q => d.product[p].skus \intersect d.product[q].skus = {}
    /\ \A c \in DOMAIN d.category :
          d.category[c].parent \in DOMAIN d.category \union {NoParent}
    /\ d.link \subseteq (DOMAIN d.product) \X (DOMAIN d.category)
    /\ d.stocked \subseteq AllSkus(d)

-----------------------------------------------------------------------------
(* The writes of CatalogAdminService.                                      *)

\* A product without variants gets one, whose SKU is made of its id.
SkusOf(id, payload) == IF payload.skus = {} THEN {ToString(id)} ELSE payload.skus

NewProduct(id, payload) ==
    [status |-> payload.status, text |-> payload.text,
     skus |-> SkusOf(id, payload)]

MutantCreated(d, id, payload) ==
    [d EXCEPT
        !.product = With(@, id, NewProduct(id, payload)),
        !.stocked = @ \union payload.skus]

\* create_product and add_variant, with an inventory row for each variant.
Created(d, id, payload) ==
    [d EXCEPT
        !.product = With(@, id, NewProduct(id, payload)),
        !.stocked = @ \union SkusOf(id, payload)]

ProductSweep == SweptBy("product")

\* The mapper deletes the texts and the variants, the keys everything else.
Deleted(d, id) ==
    [d EXCEPT
        !.product = Without(@, id),
        !.link = IF "product_category" \in ProductSweep
                 THEN {l \in @ : l[1] # id} ELSE @,
        !.stocked = IF "inventory_item" \in ProductSweep
                    THEN @ \ d.product[id].skus ELSE @]

MutantPathTo(id, parent) == <<id>>

PathTo(id, parent) == IF parent = NoParent THEN <<id>> ELSE <<parent, id>>

WithCategory(d, id, text, parent) ==
    [d EXCEPT !.category =
        With(@, id, [parent |-> parent, path |-> PathTo(id, parent), text |-> text])]

\* upsert_category_translations: the languages sent, over those there are.
Retitled(d, id, text) ==
    [d EXCEPT !.category[id] =
        [parent |-> @.parent, path |-> @.path, text |-> Over(text, @.text)]]

\* The texts a PATCH writes: those that differ from what it has read.
NewTexts(e) ==
    {l \in DOMAIN e.patch.text :
        l \notin DOMAIN e.seen.text \/ e.seen.text[l] # e.patch.text[l]}

Inserted(e) == NewTexts(e) \ DOMAIN e.seen.text

NewStatus(e) == e.patch.status \notin {Unchanged, e.seen.status}

Writes(e) == NewStatus(e) \/ NewTexts(e) # {}

\* The row that a flush leaves of a row.
PatchedRow(e, row) ==
    [status |-> IF NewStatus(e) THEN e.patch.status ELSE row.status,
     text |-> Over([l \in NewTexts(e) |-> e.patch.text[l]], row.text),
     skus |-> row.skus]

MutantPatched(d, e) ==
    [d EXCEPT !.product = With(@, e.product, PatchedRow(e, e.seen))]

Patched(d, e) ==
    [d EXCEPT !.product[e.product] = PatchedRow(e, @)]

-----------------------------------------------------------------------------
(* The reads of CatalogService.                                            *)

Published(d) == {p \in DOMAIN d.product : d.product[p].status = "published"}

\* The slug on the card of a product in a listing; NoText when translate finds
\* no text, and the listing leaves the product out.
CardSlug(d, p, locale) == Translate(d.locale, d.product[p].text, locale)

FindProductBySlug(d, slug, locale) ==
    {p \in DOMAIN d.product :
        locale \in DOMAIN d.product[p].text /\ d.product[p].text[locale] = slug}

MutantOpenBySlug(d, slug, locale) ==
    FindProductBySlug(d, slug, locale) \intersect Published(d)

\* get_product_by_slug: the page of a product, or none.
OpenBySlug(d, slug, locale) ==
    LET here == FindProductBySlug(d, slug, locale)
        found == IF here # {} THEN here
                 ELSE FindProductBySlug(d, slug, DefaultLocale(d.locale))
    IN  found \intersect Published(d)

FindCategoryBySlug(d, slug, locale) ==
    {c \in DOMAIN d.category :
        locale \in DOMAIN d.category[c].text /\ d.category[c].text[locale] = slug}

-----------------------------------------------------------------------------
(* The requests of administrators.                                         *)

\* The ids that a session names are not drawn again.
FreeIds == ProductIds \ {edit[s].product : s \in Sessions}

MayRequest == requests < MaxRequests

\* An edit of the product is no longer alone.
Disturb(id) ==
    [s \in Sessions |->
        IF edit[s] # Idle /\ edit[s].product = id
        THEN [edit[s] EXCEPT !.disturbed = TRUE] ELSE edit[s]]

CreateProduct(payload) ==
    /\ MayRequest /\ IdsLeft(FreeIds, db.product)
    /\ LET created == Created(db, NewId(FreeIds, db.product), payload)
       IN  Lawful(created) /\ db' = created
    /\ requests' = requests + 1
    /\ UNCHANGED edit

DeleteProduct(id) ==
    /\ MayRequest
    /\ InTheWay("product") = {} /\ Lawful(Deleted(db, id))
    /\ db' = Deleted(db, id)
    /\ edit' = Disturb(id)
    /\ requests' = requests + 1

CreateCategory(text, parent) ==
    /\ MayRequest /\ IdsLeft(CategoryIds, db.category)
    /\ LET id == NewId(CategoryIds, db.category)
           created == WithCategory(db, id, text, parent)
       IN  Lawful(created) /\ db' = created
    /\ requests' = requests + 1
    /\ UNCHANGED edit

RetitleCategory(id, text) ==
    /\ MayRequest
    /\ Lawful(Retitled(db, id, text))
    /\ db' = Retitled(db, id, text)
    /\ requests' = requests + 1
    /\ UNCHANGED edit

\* update_product reads the product ...
BeginPatch(s, id, patch) ==
    /\ MayRequest /\ edit[s] = Idle
    /\ edit' = [edit EXCEPT ![s] =
                  [product |-> id, seen |-> db.product[id], patch |-> patch,
                   disturbed |-> FALSE]]
    /\ requests' = requests + 1
    /\ UNCHANGED db

MutantAccepted(s) ==
    Writes(edit[s]) => /\ edit[s].product \in DOMAIN db.product
                       /\ Inserted(edit[s]) \intersect
                             DOMAIN db.product[edit[s].product].text = {}

\* ... and flushes: an UPDATE needs its row and an INSERT its key.
Accepted(s) ==
    LET e == edit[s]
    IN  Writes(e) => /\ e.product \in DOMAIN db.product
                     /\ Inserted(e) \intersect DOMAIN db.product[e.product].text = {}
                     /\ Lawful(Patched(db, e))

CommitPatch(s) ==
    /\ edit[s] # Idle /\ Accepted(s)
    /\ db' = IF Writes(edit[s]) THEN Patched(db, edit[s]) ELSE db
    /\ LET others == IF Writes(edit[s]) THEN Disturb(edit[s].product) ELSE edit
       IN  edit' = [others EXCEPT ![s] = Idle]
    /\ UNCHANGED requests

RefusePatch(s) ==
    /\ edit[s] # Idle /\ ~Accepted(s)
    /\ edit' = [edit EXCEPT ![s] = Idle]
    /\ UNCHANGED <<db, requests>>

AdminStep ==
    \/ \E payload \in Payloads : CreateProduct(payload)
    \/ \E id \in DOMAIN db.product : DeleteProduct(id)
    \/ \E text \in Headings, parent \in DOMAIN db.category \union {NoParent} :
          CreateCategory(text, parent)
    \/ \E id \in DOMAIN db.category, text \in Headings : RetitleCategory(id, text)
    \/ \E s \in Sessions, id \in DOMAIN db.product, patch \in Patches :
          BeginPatch(s, id, patch)
    \/ \E s \in Sessions : CommitPatch(s) \/ RefusePatch(s)

-----------------------------------------------------------------------------
(* Properties.                                                             *)

\* The link on a product's card opens that product, in every language of the
\* shop.  When the product has no text in that language its card shows the slug
\* of the default one, and another product, even a draft, may have taken that
\* slug in the visitor's language: nothing else stands between card and page.
LinkOpensItsCard ==
    \A locale \in Codes(db.locale) : \A p \in Published(db) :
        LET slug == CardSlug(db, p, locale)
        IN  slug # NoText =>
                \/ OpenBySlug(db, slug, locale) = {p}
                \/ /\ locale \notin DOMAIN db.product[p].text
                   /\ FindProductBySlug(db, slug, locale) \ {p} # {}

\* Every product has a variant, and the inventory has a row for each variant
\* there is and for none that was deleted.
EveryVariantStocked ==
    /\ db.stocked = AllSkus(db)
    /\ \A p \in DOMAIN db.product : db.product[p].skus # {}

Children(c) == {x \in DOMAIN db.category : db.category[x].parent = c}

Subtree(root) ==
    {root} \union Children(root) \union UNION {Children(c) : c \in Children(root)}

NamedByPath(root) ==
    {c \in DOMAIN db.category :
        \E i \in DOMAIN db.category[c].path : db.category[c].path[i] = root}

\* The subtree of a root category is what its paths name, as long as nothing in
\* it is three deep: a path names the parent only, not all ancestors.
SubtreeByPath ==
    \A root \in DOMAIN db.category :
        (\A c \in Children(root) : Children(c) = {}) => NamedByPath(root) = Subtree(root)

\* A PATCH that is answered with success stands: it brings no deleted product
\* back, it leaves what it does not name as others have left it, and the product
\* reads as sent, unless another request changed it since it was read.
SavedStands ==
    [][\A s \in Sessions : CommitPatch(s) =>
          LET e == edit[s]
              now == db'.product[e.product]
              named == DOMAIN e.patch.text
          IN  /\ DOMAIN db'.product = DOMAIN db.product
              /\ e.product \in DOMAIN db.product =>
                    LET was == db.product[e.product]
                    IN  /\ e.patch.status = Unchanged => now.status = was.status
                        /\ \A l \in DOMAIN was.text \ named : now.text[l] = was.text[l]
              /\ e.disturbed \/
                    /\ e.patch.status \in {Unchanged, now.status}
                    /\ \A l \in named :
                          FindProductBySlug(db', e.patch.text[l], l) = {e.product}
      ]_<<db, edit, requests>>

=============================================================================
