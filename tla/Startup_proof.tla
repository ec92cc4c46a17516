---------------------------- MODULE Startup_proof ----------------------------
(***************************************************************************)
(* Theorems about Startup, for every value of its constants: what the seed *)
(* and the requests of administrators, overlapping and dying at any point, *)
(* leave of the database, and what a visitor then finds in it.             *)
(***************************************************************************)
EXTENDS Startup, TLAPS

-----------------------------------------------------------------------------
(* Tables and rows.                                                        *)

\* A database is a record of these tables.
IsDb(d) ==
    d = [tables |-> d.tables, locale |-> d.locale, currency |-> d.currency,
         region |-> d.region, admin |-> d.admin, rate |-> d.rate,
         product |-> d.product, category |-> d.category, link |-> d.link,
         stocked |-> d.stocked]

SameReference(d, e) ==
    /\ e.tables = d.tables /\ e.locale = d.locale
    /\ e.currency = d.currency /\ e.region = d.region
    /\ e.admin = d.admin /\ e.rate = d.rate

LEMMA WithRow ==
    ASSUME NEW table, NEW id, NEW row
    PROVE  /\ DOMAIN With(table, id, row) = DOMAIN table \union {id}
           /\ With(table, id, row)[id] = row
           /\ \A other \in DOMAIN table \ {id} :
                 With(table, id, row)[other] = table[other]
BY DEF With

LEMMA NewIdFree ==
    ASSUME NEW ids, NEW table, IdsLeft(ids, table)
    PROVE  NewId(ids, table) \in ids \ DOMAIN table
BY DEF NewId, IdsLeft

LEMMA EmptyTables ==
    /\ IsDb(EmptyDb)
    /\ EmptyDb.tables = {} /\ EmptyDb.locale = {} /\ EmptyDb.currency = {}
    /\ EmptyDb.region = {} /\ EmptyDb.admin = {} /\ EmptyDb.rate = {}
    /\ DOMAIN EmptyDb.product = {} /\ DOMAIN EmptyDb.category = {}
    /\ EmptyDb.link = {} /\ EmptyDb.stocked = {}
BY DEF EmptyDb, IsDb

\* One table replaced.
LEMMA SetProduct ==
    ASSUME NEW d, IsDb(d), NEW table
    PROVE  LET e == [d EXCEPT !.product = table]
           IN  /\ IsDb(e) /\ SameReference(d, e) /\ e.product = table
               /\ e.category = d.category /\ e.link = d.link
               /\ e.stocked = d.stocked
BY DEF IsDb, SameReference

LEMMA SetCategory ==
    ASSUME NEW d, IsDb(d), NEW table
    PROVE  LET e == [d EXCEPT !.category = table]
           IN  /\ IsDb(e) /\ SameReference(d, e) /\ e.category = table
               /\ e.product = d.product /\ e.link = d.link
               /\ e.stocked = d.stocked
BY DEF IsDb, SameReference

LEMMA SetLink ==
    ASSUME NEW d, IsDb(d), NEW table
    PROVE  LET e == [d EXCEPT !.link = table]
           IN  /\ IsDb(e) /\ SameReference(d, e) /\ e.link = table
               /\ e.product = d.product /\ e.category = d.category
               /\ e.stocked = d.stocked
BY DEF IsDb, SameReference

LEMMA SetStocked ==
    ASSUME NEW d, IsDb(d), NEW table
    PROVE  LET e == [d EXCEPT !.stocked = table]
           IN  /\ IsDb(e) /\ SameReference(d, e) /\ e.stocked = table
               /\ e.product = d.product /\ e.category = d.category
               /\ e.link = d.link
BY DEF IsDb, SameReference

\* What the writes of the administrators and of the seed do to each table.
LEMMA CreatedTables ==
    ASSUME NEW d, IsDb(d), NEW id, NEW payload
    PROVE  LET e == Created(d, id, payload)
           IN  /\ IsDb(e) /\ SameReference(d, e)
               /\ e.category = d.category /\ e.link = d.link
               /\ e.product = With(d.product, id, NewProduct(id, payload))
               /\ e.stocked = d.stocked \union SkusOf(id, payload)
<1> DEFINE table == With(d.product, id, NewProduct(id, payload))
           skus == d.stocked \union SkusOf(id, payload)
           f == [d EXCEPT !.product = table]
           e == [f EXCEPT !.stocked = skus]
<1>1. Created(d, id, payload) = e
  BY DEF Created
<1>2. /\ IsDb(f) /\ SameReference(d, f) /\ f.product = table
      /\ f.category = d.category /\ f.link = d.link
  BY SetProduct
<1>3. /\ IsDb(e) /\ SameReference(f, e) /\ e.stocked = skus
      /\ e.product = f.product /\ e.category = f.category /\ e.link = f.link
  <2> HIDE DEF f, skus
  <2> QED
    BY <1>2, SetStocked
<1> HIDE DEF e, f
<1> QED
  BY <1>1, <1>2, <1>3 DEF SameReference

LEMMA DeletedTables ==
    ASSUME NEW d, IsDb(d), NEW id
    PROVE  LET e == Deleted(d, id)
           IN  /\ IsDb(e) /\ SameReference(d, e)
               /\ e.category = d.category
               /\ e.product = Without(d.product, id)
               /\ e.stocked = IF "inventory_item" \in ProductSweep
                              THEN d.stocked \ d.product[id].skus
                              ELSE d.stocked
<1> DEFINE table == Without(d.product, id)
           links == IF "product_category" \in ProductSweep
                    THEN {l \in d.link : l[1] # id} ELSE d.link
           skus == IF "inventory_item" \in ProductSweep
                   THEN d.stocked \ d.product[id].skus ELSE d.stocked
           f == [d EXCEPT !.product = table]
           g == [f EXCEPT !.link = links]
           e == [g EXCEPT !.stocked = skus]
<1>1. Deleted(d, id) = e
  BY DEF Deleted
<1>2. /\ IsDb(f) /\ SameReference(d, f) /\ f.product = table
      /\ f.category = d.category
  BY SetProduct
<1>3. /\ IsDb(g) /\ SameReference(f, g) /\ g.product = f.product
      /\ g.category = f.category
  <2> HIDE DEF f, links
  <2> QED
    BY <1>2, SetLink
<1>4. /\ IsDb(e) /\ SameReference(g, e) /\ e.stocked = skus
      /\ e.product = g.product /\ e.category = g.category
  <2> HIDE DEF g, skus
  <2> QED
    BY <1>3, SetStocked
<1> HIDE DEF e, f, g
<1> QED
  BY <1>1, <1>2, <1>3, <1>4 DEF SameReference

LEMMA CategoryTables ==
    ASSUME NEW d, IsDb(d), NEW id, NEW text, NEW parent
    PROVE  LET e == WithCategory(d, id, text, parent)
           IN  /\ IsDb(e) /\ SameReference(d, e)
               /\ e.product = d.product /\ e.link = d.link
               /\ e.stocked = d.stocked
               /\ e.category = With(d.category, id,
                      [parent |-> parent, path |-> PathTo(id, parent),
                       text |-> text])
BY SetCategory DEF WithCategory

LEMMA RetitledTables ==
    ASSUME NEW d, IsDb(d), NEW id \in DOMAIN d.category, NEW text
    PROVE  LET e == Retitled(d, id, text)
           IN  /\ IsDb(e) /\ SameReference(d, e)
               /\ e.product = d.product /\ e.link = d.link
               /\ e.stocked = d.stocked
               /\ DOMAIN e.category = DOMAIN d.category
               /\ e.category[id].parent = d.category[id].parent
               /\ e.category[id].path = d.category[id].path
               /\ \A c \in DOMAIN d.category \ {id} :
                     e.category[c] = d.category[c]
<1> DEFINE row == [parent |-> d.category[id].parent,
                   path |-> d.category[id].path,
                   text |-> Over(text, d.category[id].text)]
           e == Retitled(d, id, text)
<1>1. e = [d EXCEPT !.category = [d.category EXCEPT ![id] = row]]
  BY DEF Retitled
<1>2. /\ IsDb(e) /\ SameReference(d, e)
      /\ e.product = d.product /\ e.link = d.link /\ e.stocked = d.stocked
      /\ e.category = [d.category EXCEPT ![id] = row]
  BY <1>1, SetCategory
<1>3. /\ DOMAIN e.category = DOMAIN d.category /\ e.category[id] = row
      /\ \A c \in DOMAIN d.category \ {id} : e.category[c] = d.category[c]
  BY <1>2
<1> QED
  BY <1>2, <1>3

LEMMA PatchedTables ==
    ASSUME NEW d, IsDb(d), NEW e, e.product \in DOMAIN d.product
    PROVE  LET new == Patched(d, e)
           IN  /\ IsDb(new) /\ SameReference(d, new)
               /\ new.category = d.category /\ new.link = d.link
               /\ new.stocked = d.stocked
               /\ DOMAIN new.product = DOMAIN d.product
               /\ new.product[e.product] =
                      PatchedRow(e, d.product[e.product])
               /\ \A p \in DOMAIN d.product \ {e.product} :
                     new.product[p] = d.product[p]
<1> DEFINE row == PatchedRow(e, d.product[e.product])
           new == Patched(d, e)
<1>1. new = [d EXCEPT !.product = [d.product EXCEPT ![e.product] = row]]
  BY DEF Patched
<1>2. /\ IsDb(new) /\ SameReference(d, new)
      /\ new.category = d.category /\ new.link = d.link
      /\ new.stocked = d.stocked
      /\ new.product = [d.product EXCEPT ![e.product] = row]
  BY <1>1, SetProduct
<1>3. /\ DOMAIN new.product = DOMAIN d.product
      /\ new.product[e.product] = row
      /\ \A p \in DOMAIN d.product \ {e.product} :
            new.product[p] = d.product[p]
  BY <1>2
<1> QED
  BY <1>2, <1>3


-----------------------------------------------------------------------------
(* The invariant of a database: of the committed one, and of the one that  *)
(* the transaction of the seed sees.                                       *)

ProductsInv(d) ==
    \A p \in DOMAIN d.product :
        /\ p \in ProductIds
        /\ d.product[p].status \in Statuses
        /\ d.product[p].skus # {}

PathsInv(d) ==
    /\ DOMAIN d.category \subseteq CategoryIds
    /\ \A c \in DOMAIN d.category :
          d.category[c].path = PathTo(c, d.category[c].parent)

DbInv(d) ==
    /\ IsDb(d) /\ d.tables \in {{}, MigratedTables}
    /\ Lawful(d) /\ ReferencesKept(d)
    /\ ProductsInv(d) /\ d.stocked = AllSkus(d)
    /\ PathsInv(d)

\* Nothing of the catalog is changed or lost.
Extends(d, e) ==
    /\ \A p \in DOMAIN d.product :
          p \in DOMAIN e.product /\ e.product[p] = d.product[p]
    /\ \A c \in DOMAIN d.category :
          c \in DOMAIN e.category /\ e.category[c] = d.category[c]
    /\ d.link \subseteq e.link /\ d.stocked \subseteq e.stocked

LEMMA ExtendsSteps ==
    ASSUME NEW d, NEW e, NEW f, Extends(d, e), Extends(e, f)
    PROVE  Extends(d, f)
BY DEF Extends

LEMMA EmptyInv == DbInv(EmptyDb)
<1>1. IsDb(EmptyDb) /\ EmptyDb.tables = {}
  BY EmptyTables
<1>2. Lawful(EmptyDb) /\ AllSkus(EmptyDb) = {}
  BY EmptyTables DEF Lawful, SlugsUnique, TextsHosted, AllSkus
<1>3. ReferencesKept(EmptyDb)
  BY EmptyTables DEF ReferencesKept
<1>4. ProductsInv(EmptyDb) /\ PathsInv(EmptyDb)
  BY EmptyTables DEF ProductsInv, PathsInv
<1> QED
  BY <1>1, <1>2, <1>3, <1>4, EmptyTables DEF DbInv

\* The rows that only the seed writes stay: so do the keys between them.
LEMMA ReferencesStay ==
    ASSUME NEW d, NEW e, SameReference(d, e), ReferencesKept(d)
    PROVE  ReferencesKept(e)
BY DEF SameReference, ReferencesKept

\* A new product, with an inventory row for each of its variants.
LEMMA CreatedInv ==
    ASSUME NEW d, DbInv(d), NEW id \in ProductIds \ DOMAIN d.product,
           NEW payload, payload.status \in Statuses,
           Lawful(Created(d, id, payload))
    PROVE  DbInv(Created(d, id, payload))
<1> DEFINE e == Created(d, id, payload)
           row == NewProduct(id, payload)
           skus == SkusOf(id, payload)
<1>1. /\ IsDb(e) /\ SameReference(d, e) /\ e.category = d.category
      /\ e.product = With(d.product, id, row)
      /\ e.stocked = d.stocked \union skus
  BY CreatedTables DEF DbInv
<1>2. row.status = payload.status /\ row.skus = skus /\ skus # {}
  BY DEF NewProduct, SkusOf
<1>3. /\ DOMAIN e.product = DOMAIN d.product \union {id}
      /\ e.product[id] = row
      /\ \A p \in DOMAIN d.product \ {id} : e.product[p] = d.product[p]
  <2> DEFINE table == With(d.product, id, row)
  <2>1. /\ DOMAIN table = DOMAIN d.product \union {id}
        /\ table[id] = row
        /\ \A other \in DOMAIN d.product \ {id} : table[other] = d.product[other]
    <3> HIDE DEF row
    <3> QED
      BY DEF With
  <2> HIDE DEF e, row, table
  <2>2. e.product = table
    BY <1>1 DEF table
  <2> QED
    BY <2>1, <2>2
<1> HIDE DEF e, row, skus
<1>4. ProductsInv(e)
  BY <1>2, <1>3 DEF ProductsInv, DbInv
<1>5. AllSkus(e) = AllSkus(d) \union skus
  BY <1>2, <1>3 DEF AllSkus
<1>6. PathsInv(e)
  BY <1>1 DEF PathsInv, DbInv
<1>7. ReferencesKept(e) /\ e.tables = d.tables
  BY <1>1, ReferencesStay DEF DbInv, SameReference
<1> QED
  BY <1>1, <1>4, <1>5, <1>6, <1>7 DEF DbInv, e

\* A deletion of a product takes the inventory rows of its variants along.
LEMMA VariantSwept == "inventory_item" \in ProductSweep
<1> DEFINE variant == [child |-> "product_variant", parent |-> "product",
                       ondelete |-> "CASCADE"]
           item == [child |-> "inventory_item", parent |-> "product_variant",
                    ondelete |-> "CASCADE"]
<1>1. variant \in MigratedKeys
  <2>1. 15 \in DOMAIN Creation
    BY DEF Creation, CreateReference, CreateCatalog, CreateShop, CreateLinks
  <2>2. Creation[15] = Table("product_variant", Cascade("product_variant", {"product"}))
    BY DEF Creation, CreateReference, CreateCatalog, CreateShop, CreateLinks
  <2>3. variant \in Creation[15].keys
    BY <2>2 DEF Table, Cascade
  <2> QED
    BY <2>1, <2>3 DEF MigratedKeys
<1>2. item \in MigratedKeys
  <2>1. 18 \in DOMAIN Creation
    BY DEF Creation, CreateReference, CreateCatalog, CreateShop, CreateLinks
  <2>2. Creation[18]
            = Table("inventory_item", Cascade("inventory_item", {"product_variant"}))
    BY DEF Creation, CreateReference, CreateCatalog, CreateShop, CreateLinks
  <2>3. item \in Creation[18].keys
    BY <2>2 DEF Table, Cascade
  <2> QED
    BY <2>1, <2>3 DEF MigratedKeys
<1>3. ASSUME NEW key \in MigratedKeys, NEW tables,
             key.ondelete = "CASCADE", key.parent \in tables
      PROVE  key.child \in Along(tables)
  BY <1>3 DEF Along
<1>4. ASSUME NEW tables  PROVE  tables \subseteq Along(tables)
  BY DEF Along
<1>5. "product_variant" \in Along({"product"})
  BY <1>1, <1>3
<1>6. "inventory_item" \in Along(Along({"product"}))
  BY <1>2, <1>3, <1>5
<1>7. "inventory_item" \in Along(Along(Along(Along({"product"}))))
  BY <1>4, <1>6
<1> QED
  BY <1>7 DEF ProductSweep, SweptBy

LEMMA DeletedInv ==
    ASSUME NEW d, DbInv(d), NEW id \in DOMAIN d.product, Lawful(Deleted(d, id))
    PROVE  DbInv(Deleted(d, id))
<1> DEFINE e == Deleted(d, id)
<1>1. /\ IsDb(e) /\ SameReference(d, e) /\ e.category = d.category
      /\ e.product = Without(d.product, id)
      /\ e.stocked = d.stocked \ d.product[id].skus
  BY DeletedTables, VariantSwept DEF DbInv
<1>2. /\ DOMAIN e.product = DOMAIN d.product \ {id}
      /\ \A p \in DOMAIN d.product \ {id} : e.product[p] = d.product[p]
  BY <1>1 DEF Without
<1> HIDE DEF e
<1>3. ProductsInv(e)
  BY <1>2 DEF ProductsInv, DbInv
<1>4. AllSkus(e) = AllSkus(d) \ d.product[id].skus
  <2>1. \A p \in DOMAIN d.product \ {id} :
            d.product[p].skus \intersect d.product[id].skus = {}
    BY DEF DbInv, Lawful
  <2> QED
    BY <1>2, <2>1 DEF AllSkus
<1>5. PathsInv(e)
  BY <1>1 DEF PathsInv, DbInv
<1>6. ReferencesKept(e) /\ e.tables = d.tables
  BY <1>1, ReferencesStay DEF DbInv, SameReference
<1> QED
  BY <1>1, <1>3, <1>4, <1>5, <1>6 DEF DbInv, e

LEMMA CategoryInv ==
    ASSUME NEW d, DbInv(d), NEW id \in CategoryIds \ DOMAIN d.category,
           NEW text, NEW parent, Lawful(WithCategory(d, id, text, parent))
    PROVE  DbInv(WithCategory(d, id, text, parent))
<1> DEFINE e == WithCategory(d, id, text, parent)
           row == [parent |-> parent, path |-> PathTo(id, parent), text |-> text]
<1>1. /\ IsDb(e) /\ SameReference(d, e) /\ e.product = d.product
      /\ e.stocked = d.stocked /\ e.category = With(d.category, id, row)
  BY CategoryTables DEF DbInv
<1>2. /\ DOMAIN e.category = DOMAIN d.category \union {id}
      /\ e.category[id] = row
      /\ \A c \in DOMAIN d.category \ {id} : e.category[c] = d.category[c]
  <2> DEFINE table == With(d.category, id, row)
  <2>1. /\ DOMAIN table = DOMAIN d.category \union {id}
        /\ table[id] = row
        /\ \A other \in DOMAIN d.category \ {id} : table[other] = d.category[other]
    <3> HIDE DEF row
    <3> QED
      BY DEF With
  <2> HIDE DEF e, row, table
  <2>2. e.category = table
    BY <1>1 DEF table
  <2> QED
    BY <2>1, <2>2
<1>3. row.path = PathTo(id, row.parent)
  OBVIOUS
<1> HIDE DEF e, row
<1>4. PathsInv(e)
  BY <1>2, <1>3 DEF PathsInv, DbInv
<1>5. ProductsInv(e) /\ e.stocked = AllSkus(e)
  BY <1>1 DEF ProductsInv, AllSkus, DbInv
<1>6. ReferencesKept(e) /\ e.tables = d.tables
  BY <1>1, ReferencesStay DEF DbInv, SameReference
<1> QED
  BY <1>1, <1>4, <1>5, <1>6 DEF DbInv, e

LEMMA RetitledInv ==
    ASSUME NEW d, DbInv(d), NEW id \in DOMAIN d.category, NEW text,
           Lawful(Retitled(d, id, text))
    PROVE  DbInv(Retitled(d, id, text))
<1> DEFINE e == Retitled(d, id, text)
<1>1. /\ IsDb(e) /\ SameReference(d, e)
      /\ e.product = d.product /\ e.stocked = d.stocked
      /\ DOMAIN e.category = DOMAIN d.category
      /\ e.category[id].parent = d.category[id].parent
      /\ e.category[id].path = d.category[id].path
      /\ \A c \in DOMAIN d.category \ {id} : e.category[c] = d.category[c]
  BY RetitledTables DEF DbInv
<1> HIDE DEF e
<1>2. PathsInv(e)
  BY <1>1 DEF PathsInv, DbInv
<1>3. ProductsInv(e) /\ e.stocked = AllSkus(e)
  BY <1>1 DEF ProductsInv, AllSkus, DbInv
<1>4. ReferencesKept(e) /\ e.tables = d.tables
  BY <1>1, ReferencesStay DEF DbInv, SameReference
<1> QED
  BY <1>1, <1>2, <1>3, <1>4 DEF DbInv, e

\* A flush of a PATCH leaves the variants alone.
LEMMA PatchedInv ==
    ASSUME NEW d, DbInv(d), NEW e, e.product \in DOMAIN d.product,
           e.patch \in Patches, Lawful(Patched(d, e))
    PROVE  DbInv(Patched(d, e))
<1> DEFINE new == Patched(d, e)
           row == PatchedRow(e, d.product[e.product])
<1>1. /\ IsDb(new) /\ SameReference(d, new)
      /\ new.category = d.category /\ new.stocked = d.stocked
      /\ DOMAIN new.product = DOMAIN d.product
      /\ new.product[e.product] = row
      /\ \A p \in DOMAIN d.product \ {e.product} :
            new.product[p] = d.product[p]
  BY PatchedTables DEF DbInv
<1>2. row.skus = d.product[e.product].skus /\ row.status \in Statuses
  <2>1. e.patch.status \in Statuses \union {Unchanged}
    BY CatalogAssumption
  <2> QED
    BY <2>1 DEF PatchedRow, NewStatus, DbInv, ProductsInv
<1> HIDE DEF new, row
<1>3. ProductsInv(new)
  BY <1>1, <1>2 DEF ProductsInv, DbInv
<1>4. AllSkus(new) = AllSkus(d)
  BY <1>1, <1>2 DEF AllSkus
<1>5. PathsInv(new)
  BY <1>1 DEF PathsInv, DbInv
<1>6. ReferencesKept(new) /\ new.tables = d.tables
  BY <1>1, ReferencesStay DEF DbInv, SameReference
<1> QED
  BY <1>1, <1>3, <1>4, <1>5, <1>6 DEF DbInv, new

-----------------------------------------------------------------------------
(* The steps of the seed.                                                  *)

\* The rates that a completed seed may have left.
RatesThere(rate) == Assured \subseteq rate /\ rate \subseteq FALLBACK_RATES

NoReference(d) ==
    /\ d.locale = {} /\ d.currency = {} /\ d.region = {}
    /\ d.admin = {} /\ d.rate = {}

FullReference(d) ==
    /\ d.locale = LOCALES /\ d.currency = CURRENCIES /\ d.region = REGIONS
    /\ d.admin = {"owner"} /\ RatesThere(d.rate)

\* The reference rows that the transaction sees before step n.
SeededUpTo(n, d, e) ==
    /\ e.locale = IF n > 1 THEN LOCALES ELSE d.locale
    /\ e.currency = IF n > 2 THEN CURRENCIES ELSE d.currency
    /\ e.region = IF n > 3 THEN REGIONS ELSE d.region
    /\ e.admin = IF n > 4 THEN {"owner"} ELSE d.admin
    /\ IF n > RatesStep THEN RatesThere(e.rate) ELSE e.rate = d.rate
    /\ n > 6 => DOMAIN e.category # {}

SameCatalog(d, e) ==
    /\ e.product = d.product /\ e.category = d.category
    /\ e.link = d.link /\ e.stocked = d.stocked

LEMMA SameCatalogInv ==
    ASSUME NEW d, DbInv(d), NEW e, IsDb(e), SameCatalog(d, e),
           e.tables \in {d.tables, {}, MigratedTables}, Lawful(e), ReferencesKept(e)
    PROVE  DbInv(e) /\ Extends(d, e)
BY DEF DbInv, SameCatalog, ProductsInv, PathsInv, AllSkus, Extends

LEMMA SetTables ==
    ASSUME NEW d, IsDb(d), NEW tables
    PROVE  LET e == [d EXCEPT !.tables = tables]
           IN  /\ IsDb(e) /\ SameCatalog(d, e) /\ e.tables = tables
               /\ e.locale = d.locale /\ e.currency = d.currency
               /\ e.region = d.region /\ e.admin = d.admin /\ e.rate = d.rate
BY DEF IsDb, SameCatalog

LEMMA LocaleTables ==
    ASSUME NEW d, IsDb(d)
    PROVE  LET e == SeedLocales(d)
           IN  /\ IsDb(e) /\ SameCatalog(d, e) /\ e.tables = d.tables
               /\ e.locale = d.locale \union Missing(LOCALES, d.locale)
               /\ e.currency = d.currency /\ e.region = d.region
               /\ e.admin = d.admin /\ e.rate = d.rate
BY DEF SeedLocales, IsDb, SameCatalog

LEMMA CurrencyTables ==
    ASSUME NEW d, IsDb(d)
    PROVE  LET e == SeedCurrencies(d)
           IN  /\ IsDb(e) /\ SameCatalog(d, e) /\ e.tables = d.tables
               /\ e.currency = d.currency \union CURRENCIES
               /\ e.locale = d.locale /\ e.region = d.region
               /\ e.admin = d.admin /\ e.rate = d.rate
BY DEF SeedCurrencies, IsDb, SameCatalog

LEMMA RegionTables ==
    ASSUME NEW d, IsDb(d)
    PROVE  LET e == SeedRegions(d)
           IN  /\ IsDb(e) /\ SameCatalog(d, e) /\ e.tables = d.tables
               /\ e.region = d.region \union Missing(REGIONS, d.region)
               /\ e.locale = d.locale /\ e.currency = d.currency
               /\ e.admin = d.admin /\ e.rate = d.rate
BY DEF SeedRegions, IsDb, SameCatalog

LEMMA AdminTables ==
    ASSUME NEW d, IsDb(d)
    PROVE  LET e == SeedAdmin(d)
           IN  /\ IsDb(e) /\ SameCatalog(d, e) /\ e.tables = d.tables
               /\ e.admin = {"owner"}
               /\ e.locale = d.locale /\ e.currency = d.currency
               /\ e.region = d.region /\ e.rate = d.rate
BY DEF SeedAdmin, IsDb, SameCatalog

LEMMA SetRates ==
    ASSUME NEW d, IsDb(d), NEW rates
    PROVE  LET e == [d EXCEPT !.rate = rates]
           IN  /\ IsDb(e) /\ SameCatalog(d, e) /\ e.tables = d.tables
               /\ e.rate = rates
               /\ e.locale = d.locale /\ e.currency = d.currency
               /\ e.region = d.region /\ e.admin = d.admin
BY DEF IsDb, SameCatalog

LEMMA RateTables ==
    ASSUME NEW d, IsDb(d), NEW answer
    PROVE  LET e == WithRates(d, answer)
           IN  /\ IsDb(e) /\ SameCatalog(d, e) /\ e.tables = d.tables
               /\ e.rate = d.rate \union (answer \intersect (d.currency \ {"USD"}))
               /\ e.locale = d.locale /\ e.currency = d.currency
               /\ e.region = d.region /\ e.admin = d.admin
<1>1. PICK rates : rates = d.rate \union (answer \intersect (d.currency \ {"USD"}))
  OBVIOUS
<1>2. WithRates(d, answer) = [d EXCEPT !.rate = rates]
  BY <1>1 DEF WithRates
<1> QED
  BY <1>1, <1>2, SetRates

\* An insert of what is missing completes a table that is empty or complete.
LEMMA MissingCompletes ==
    ASSUME NEW rows, NEW stored \in {{}, rows}
    PROVE  stored \union Missing(rows, stored) = rows
BY DEF Missing

LEMMA CategorySteps ==
    ASSUME NEW d, DbInv(d), NEW heading, IdsLeft(CategoryIds, d.category),
           LET e == SeedOneCategory(d, heading)
           IN  Lawful(e) /\ ReferencesKept(e)
    PROVE  LET e == SeedOneCategory(d, heading)
           IN  /\ DbInv(e) /\ SameReference(d, e) /\ Extends(d, e)
               /\ DOMAIN e.category # {}
<1> DEFINE e == SeedOneCategory(d, heading)
           slug == heading[ConfiguredLocale]
           id == NewId(CategoryIds, d.category)
<1>1. CASE SeededCategory(d, slug) # {}
  <2>1. e = d
    BY <1>1 DEF SeedOneCategory
  <2>2. SeededCategory(d, slug) \subseteq DOMAIN d.category
    <3>1. \A l : FindCategoryBySlug(d, slug, l) \subseteq DOMAIN d.category
      BY DEF FindCategoryBySlug
    <3> QED
      BY <3>1 DEF SeededCategory
  <2>3. SameReference(d, d) /\ Extends(d, d)
    BY DEF SameReference, Extends
  <2> HIDE DEF e
  <2> QED
    BY <1>1, <2>1, <2>2, <2>3 DEF e
<1>2. CASE SeededCategory(d, slug) = {}
  <2>1. e = WithCategory(d, id, heading, NoParent)
    BY <1>2 DEF SeedOneCategory
  <2>2. id \in CategoryIds \ DOMAIN d.category
    BY NewIdFree
  <2> HIDE DEF e, id
  <2>3. DbInv(e)
    BY <2>1, <2>2, CategoryInv DEF e
  <2>4. /\ SameReference(d, e)
        /\ e.product = d.product /\ e.link = d.link /\ e.stocked = d.stocked
        /\ e.category = With(d.category, id,
               [parent |-> NoParent, path |-> PathTo(id, NoParent),
                text |-> heading])
    BY <2>1, CategoryTables DEF DbInv
  <2>5. /\ DOMAIN e.category = DOMAIN d.category \union {id}
        /\ \A c \in DOMAIN d.category \ {id} : e.category[c] = d.category[c]
    BY <2>4 DEF With
  <2>6. Extends(d, e) /\ DOMAIN e.category # {}
    BY <2>2, <2>4, <2>5 DEF Extends
  <2> QED
    BY <2>3, <2>4, <2>6 DEF e
<1> QED
  BY <1>1, <1>2

LEMMA ProductSteps ==
    ASSUME NEW d, DbInv(d), NEW spec, spec.status \in Statuses,
           IdsLeft(ProductIds, d.product),
           LET e == SeedOneProduct(d, spec)
           IN  Lawful(e) /\ ReferencesKept(e)
    PROVE  LET e == SeedOneProduct(d, spec)
           IN  /\ DbInv(e) /\ SameReference(d, e) /\ Extends(d, e)
               /\ e.category = d.category
<1> DEFINE e == SeedOneProduct(d, spec)
           id == NewId(ProductIds, d.product)
           created == Created(d, id, spec)
           links == created.link \union ({id} \X SeededCategory(d, spec.category))
<1>1. CASE FindProductBySlug(d, spec.slug, ConfiguredLocale) # {}
  <2>1. e = d
    BY <1>1 DEF SeedOneProduct
  <2>2. SameReference(d, d) /\ Extends(d, d)
    BY DEF SameReference, Extends
  <2> HIDE DEF e
  <2> QED
    BY <2>1, <2>2 DEF e
<1>2. CASE FindProductBySlug(d, spec.slug, ConfiguredLocale) = {}
  <2>1. e = [created EXCEPT !.link = links]
    BY <1>2 DEF SeedOneProduct
  <2>2. id \in ProductIds \ DOMAIN d.product
    BY NewIdFree
  <2>3. /\ IsDb(created) /\ SameReference(d, created)
        /\ created.category = d.category /\ created.link = d.link
        /\ created.product = With(d.product, id, NewProduct(id, spec))
        /\ created.stocked = d.stocked \union SkusOf(id, spec)
    <3> HIDE DEF id
    <3> QED
      BY CreatedTables DEF DbInv
  <2>4. /\ DOMAIN created.product = DOMAIN d.product \union {id}
        /\ created.product[id] = NewProduct(id, spec)
        /\ \A p \in DOMAIN d.product \ {id} : created.product[p] = d.product[p]
    <3> HIDE DEF id, created
    <3> QED
      BY <2>3 DEF With
  <2> HIDE DEF created, links
  <2>5. /\ IsDb(e) /\ SameReference(created, e) /\ e.link = links
        /\ e.product = created.product /\ e.category = created.category
        /\ e.stocked = created.stocked
    BY <2>1, <2>3, SetLink
  <2>6. Lawful(e) /\ ReferencesKept(e)
    OBVIOUS
  <2> HIDE DEF e, id
  <2>7. ProductsInv(e)
    BY <2>2, <2>4, <2>5 DEF ProductsInv, DbInv, NewProduct, SkusOf
  <2>8. e.stocked = AllSkus(e)
    <3>1. AllSkus(e) = AllSkus(d) \union SkusOf(id, spec)
      BY <2>2, <2>4, <2>5 DEF AllSkus, NewProduct
    <3> QED
      BY <2>3, <2>5, <3>1 DEF DbInv
  <2>9. PathsInv(e) /\ SameReference(d, e)
    BY <2>3, <2>5 DEF PathsInv, DbInv, SameReference
  <2>10. DbInv(e)
    BY <2>5, <2>6, <2>7, <2>8, <2>9 DEF DbInv, SameReference
  <2>11. Extends(d, e)
    BY <2>2, <2>3, <2>4, <2>5 DEF Extends, links
  <2> QED
    BY <2>3, <2>5, <2>9, <2>10, <2>11 DEF e
<1> QED
  BY <1>1, <1>2

\* The step of the seed in turn, on what its transaction sees.
LEMMA SeedMoves ==
    ASSUME NEW n \in 1 .. LastStep, n # RatesStep, NEW d, NEW e, DbInv(d), DbInv(e),
           NoReference(d) \/ FullReference(d),
           SeededUpTo(n, d, e), Extends(d, e),
           IdsLeft(ProductIds, e.product), IdsLeft(CategoryIds, e.category),
           Lawful(SeedStep(e, n)), ReferencesKept(SeedStep(e, n))
    PROVE  LET next == SeedStep(e, n)
           IN  /\ DbInv(next) /\ Extends(d, next)
               /\ SeededUpTo(n + 1, d, next)
<1> DEFINE next == SeedStep(e, n)
           C == Len(SeedCategories)
           P == Len(SeedProducts)
<1>1. /\ C \in Nat \ {0} /\ P \in Nat
      /\ \A i \in 1 .. P : SeedProducts[i].status \in Statuses
  BY SeedAssumption
<1>2. /\ n \in Nat /\ LastStep = 5 + C + P
      /\ \/ n = 1 \/ n = 2 \/ n = 3 \/ n = 4
         \/ n \in 6 .. 5 + C
         \/ n \in 6 + C .. 5 + C + P
  <2>1. LastStep = 5 + C + P
    BY DEF LastStep
  <2> HIDE DEF C, P
  <2> QED
    BY <1>1, <2>1 DEF RatesStep
<1>3. IsDb(e) /\ e.tables \in {{}, MigratedTables}
  BY DEF DbInv
<1>4. SUFFICES /\ DbInv(next) /\ Extends(e, next)
               /\ SeededUpTo(n + 1, d, next)
  BY ExtendsSteps
<1>5. CASE n = 1
  <2>1. next = SeedLocales(e)
    BY <1>5 DEF SeedStep
  <2>2. /\ IsDb(next) /\ SameCatalog(e, next) /\ next.tables = e.tables
        /\ next.locale = e.locale \union Missing(LOCALES, e.locale)
        /\ next.currency = e.currency /\ next.region = e.region
        /\ next.admin = e.admin /\ next.rate = e.rate
    BY <1>3, <2>1, LocaleTables
  <2>3. e.locale \in {{}, LOCALES}
    BY <1>5 DEF SeededUpTo, NoReference, FullReference
  <2>4. next.locale = LOCALES
    BY <2>2, <2>3, MissingCompletes
  <2> HIDE DEF next
  <2>5. SeededUpTo(2, d, next)
    BY <1>5, <2>2, <2>4 DEF SeededUpTo, RatesStep
  <2> QED
    BY <1>5, <2>2, <2>5, SameCatalogInv DEF next
<1>6. CASE n = 2
  <2>1. next = SeedCurrencies(e)
    BY <1>6 DEF SeedStep
  <2>2. /\ IsDb(next) /\ SameCatalog(e, next) /\ next.tables = e.tables
        /\ next.currency = e.currency \union CURRENCIES
        /\ next.locale = e.locale /\ next.region = e.region
        /\ next.admin = e.admin /\ next.rate = e.rate
    BY <1>3, <2>1, CurrencyTables
  <2>3. e.currency \in {{}, CURRENCIES}
    BY <1>6 DEF SeededUpTo, NoReference, FullReference
  <2>4. next.currency = CURRENCIES
    BY <2>2, <2>3
  <2> HIDE DEF next
  <2>5. SeededUpTo(3, d, next)
    BY <1>6, <2>2, <2>4 DEF SeededUpTo, RatesStep
  <2> QED
    BY <1>6, <2>2, <2>5, SameCatalogInv DEF next
<1>7. CASE n = 3
  <2>1. next = SeedRegions(e)
    BY <1>7 DEF SeedStep
  <2>2. /\ IsDb(next) /\ SameCatalog(e, next) /\ next.tables = e.tables
        /\ next.region = e.region \union Missing(REGIONS, e.region)
        /\ next.locale = e.locale /\ next.currency = e.currency
        /\ next.admin = e.admin /\ next.rate = e.rate
    BY <1>3, <2>1, RegionTables
  <2>3. e.region \in {{}, REGIONS}
    BY <1>7 DEF SeededUpTo, NoReference, FullReference
  <2>4. next.region = REGIONS
    BY <2>2, <2>3, MissingCompletes
  <2> HIDE DEF next
  <2>5. SeededUpTo(4, d, next)
    BY <1>7, <2>2, <2>4 DEF SeededUpTo, RatesStep
  <2> QED
    BY <1>7, <2>2, <2>5, SameCatalogInv DEF next
<1>8. CASE n = 4
  <2>1. next = SeedAdmin(e)
    BY <1>8 DEF SeedStep
  <2>2. /\ IsDb(next) /\ SameCatalog(e, next) /\ next.tables = e.tables
        /\ next.admin = {"owner"}
        /\ next.locale = e.locale /\ next.currency = e.currency
        /\ next.region = e.region /\ next.rate = e.rate
    BY <1>3, <2>1, AdminTables
  <2> HIDE DEF next
  <2>3. SeededUpTo(5, d, next)
    BY <1>8, <2>2 DEF SeededUpTo, RatesStep
  <2> QED
    BY <1>8, <2>2, <2>3, SameCatalogInv DEF next
<1>10. CASE n \in 6 .. 5 + C
  <2>1. next = SeedOneCategory(e, SeedCategories[n - 5])
    <3>1. n \notin {1, 2, 3, 4, 5}
      BY <1>1, <1>10
    <3> QED
      BY <1>10, <3>1 DEF SeedStep
  <2>2. /\ DbInv(next) /\ SameReference(e, next) /\ Extends(e, next)
        /\ DOMAIN next.category # {}
    BY <2>1, CategorySteps
  <2>3. n > 5
    BY <1>1, <1>10
  <2> HIDE DEF next
  <2>4. SeededUpTo(n + 1, d, next)
    BY <1>2, <2>2, <2>3 DEF SeededUpTo, SameReference, RatesStep
  <2> QED
    BY <2>2, <2>4
<1>11. CASE n \in 6 + C .. 5 + C + P
  <2>1. n \notin {1, 2, 3, 4, 5} \union (6 .. 5 + C) /\ n > 6
    BY <1>1, <1>11
  <2>2. next = SeedOneProduct(e, SeedProducts[n - 5 - C])
    BY <1>2, <1>11, <2>1 DEF SeedStep
  <2>3. SeedProducts[n - 5 - C].status \in Statuses
    <3>1. n - 5 - C \in 1 .. P
      BY <1>1, <1>2, <1>11
    <3> QED
      BY <1>1, <3>1
  <2>4. /\ DbInv(next) /\ SameReference(e, next) /\ Extends(e, next)
        /\ next.category = e.category
    BY <2>2, <2>3, ProductSteps
  <2> HIDE DEF next
  <2>5. SeededUpTo(n + 1, d, next)
    BY <1>2, <2>1, <2>4 DEF SeededUpTo, SameReference, RatesStep
  <2> QED
    BY <2>4, <2>5
<1> QED
  BY <1>2, <1>5, <1>6, <1>7, <1>8, <1>10, <1>11

\* Every way the rates may be answered.
LEMMA SeedRatesMoves ==
    ASSUME NEW d, NEW e, NEW answer \in Answers \union {FALLBACK_RATES},
           DbInv(d), DbInv(e), NoReference(d) \/ FullReference(d),
           SeededUpTo(RatesStep, d, e), Extends(d, e)
    PROVE  LET next == WithRates(e, answer)
           IN  /\ DbInv(next) /\ Extends(d, next)
               /\ SeededUpTo(RatesStep + 1, d, next)
<1> DEFINE next == WithRates(e, answer)
<1>1. IsDb(e) /\ Lawful(e) /\ ReferencesKept(e)
  BY DEF DbInv
<1>2. /\ IsDb(next) /\ SameCatalog(e, next) /\ next.tables = e.tables
      /\ next.rate = e.rate \union (answer \intersect (e.currency \ {"USD"}))
      /\ next.locale = e.locale /\ next.currency = e.currency
      /\ next.region = e.region /\ next.admin = e.admin
  BY <1>1, RateTables
<1>3. /\ e.locale = LOCALES /\ e.currency = CURRENCIES /\ e.region = REGIONS
      /\ e.admin = {"owner"} /\ e.rate = d.rate
  BY DEF SeededUpTo, RatesStep
<1>4. RatesThere(next.rate)
  <2>1. d.rate \subseteq FALLBACK_RATES
    BY DEF NoReference, FullReference, RatesThere
  <2>2. CURRENCIES \ {"USD"} = FALLBACK_RATES
    BY DEF CURRENCIES, FALLBACK_RATES
  <2>3. Assured \subseteq answer /\ Assured \subseteq FALLBACK_RATES
    BY DEF Assured
  <2> HIDE DEF next
  <2> QED
    BY <1>2, <1>3, <2>1, <2>2, <2>3 DEF RatesThere
<1>5. Lawful(next) /\ ReferencesKept(next)
  <2> HIDE DEF next
  <2>1. Lawful(next)
    BY <1>1, <1>2 DEF Lawful, SlugsUnique, TextsHosted, AllSkus, SameCatalog
  <2>2. next.rate \subseteq next.currency
    BY <1>1, <1>2 DEF ReferencesKept
  <2> QED
    BY <1>1, <1>2, <2>1, <2>2 DEF ReferencesKept
<1> HIDE DEF next
<1>6. DbInv(next) /\ Extends(e, next)
  BY <1>2, <1>5, SameCatalogInv
<1>7. SeededUpTo(RatesStep + 1, d, next)
  BY <1>2, <1>3, <1>4 DEF SeededUpTo, RatesStep
<1>8. Extends(d, next)
  BY <1>6, ExtendsSteps
<1> QED
  BY <1>6, <1>7, <1>8 DEF next

-----------------------------------------------------------------------------
(* The inductive invariant.                                                *)

\* A PATCH in service knows the product it has read; while nobody disturbs
\* that product, what it has read is what the database holds.
IsEdit(e) ==
    e = [product |-> e.product, seen |-> e.seen, patch |-> e.patch,
         disturbed |-> e.disturbed]

EditInv(e, d) ==
    e # Idle =>
        /\ IsEdit(e) /\ e.patch \in Patches /\ e.disturbed \in BOOLEAN
        /\ e.disturbed = FALSE =>
              e.product \in DOMAIN d.product /\ e.seen = d.product[e.product]

EditsInv ==
    /\ edit = [s \in Sessions |-> edit[s]]
    /\ \A s \in Sessions : EditInv(edit[s], db)
    /\ phase # "serve" => \A s \in Sessions : edit[s] = Idle

\* How far the container is, and what of the reference rows there is.
PhaseInv ==
    /\ phase \in {"stopped", "seed", "serve"}
    /\ phase = "stopped" <=> ended # "running"
    /\ requests \in 0 .. MaxRequests
    /\ NoReference(db) \/ FullReference(db)
    /\ phase = "serve" => FullReference(db) /\ DOMAIN db.category # {}
    /\ phase # "seed" => view = db /\ step = 0
    /\ phase = "seed" =>
          /\ step \in 1 .. LastStep + 1
          /\ SeededUpTo(step, db, view) /\ Extends(db, view)

IInv == DbInv(db) /\ DbInv(view) /\ EditsInv /\ PhaseInv

LEMMA LastStepNat == LastStep \in Nat /\ LastStep > 5
<1> DEFINE C == Len(SeedCategories)
           P == Len(SeedProducts)
<1>1. C \in Nat \ {0} /\ P \in Nat
  BY SeedAssumption
<1>2. LastStep = 5 + C + P
  BY DEF LastStep
<1> HIDE DEF C, P
<1> QED
  BY <1>1, <1>2

LEMMA InitInv == Init => IInv
<1> SUFFICES ASSUME Init  PROVE IInv
  OBVIOUS
<1>1. DbInv(db) /\ DbInv(view)
  BY EmptyInv DEF Init
<1>2. EditsInv
  BY DEF Init, EditsInv, EditInv
<1>3. NoReference(db)
  BY EmptyTables DEF Init, NoReference
<1>4. requests \in 0 .. MaxRequests
  <2>1. MaxRequests \in Nat
    BY CatalogAssumption
  <2>2. requests = 0
    BY DEF Init
  <2> QED
    BY <2>1, <2>2
<1>5. phase = "stopped" /\ ended = "never ran" /\ view = db /\ step = 0
  BY DEF Init
<1>6. PhaseInv
  BY <1>3, <1>4, <1>5 DEF PhaseInv
<1> QED
  BY <1>1, <1>2, <1>6 DEF IInv

LEMMA NoEditsInv ==
    ASSUME edit' = [s \in Sessions |-> Idle]
    PROVE  EditsInv'
BY DEF EditsInv, EditInv

LEMMA UpgradeInv ==
    ASSUME IInv, Upgrade
    PROVE  IInv'
<1>1. IsDb(db) /\ DbInv(db) /\ view = db
  BY DEF IInv, DbInv, PhaseInv, Upgrade
<1>2. /\ IsDb(db') /\ SameCatalog(db, db') /\ db'.tables = MigratedTables
      /\ db'.locale = db.locale /\ db'.currency = db.currency
      /\ db'.region = db.region /\ db'.admin = db.admin /\ db'.rate = db.rate
  BY <1>1, SetTables DEF Upgrade
<1>3. Lawful(db')
  BY <1>1, <1>2
     DEF Lawful, DbInv, SlugsUnique, TextsHosted, AllSkus, SameCatalog
<1>4. ReferencesKept(db')
  BY <1>1, <1>2 DEF ReferencesKept, DbInv
<1>5. DbInv(db') /\ view' = db'
  BY <1>1, <1>2, <1>3, <1>4, SameCatalogInv DEF Upgrade
<1>6. EditsInv'
  <2>1. edit' = edit /\ \A s \in Sessions : edit[s] = Idle
    BY DEF Upgrade, IInv, EditsInv
  <2> QED
    BY <2>1 DEF EditsInv, EditInv, IInv
<1>7. PhaseInv'
  <2>1. NoReference(db') \/ FullReference(db')
    BY <1>2 DEF IInv, PhaseInv, NoReference, FullReference
  <2>2. SeededUpTo(1, db', view') /\ Extends(db', view')
    BY <1>5 DEF SeededUpTo, RatesStep, Extends
  <2>3. phase' = "seed" /\ step' = 1 /\ ended' = "running" /\ requests' = requests
    BY DEF Upgrade
  <2>4. 1 \in 1 .. LastStep + 1
    BY LastStepNat
  <2> QED
    BY <2>1, <2>2, <2>3, <2>4 DEF PhaseInv, IInv
<1> QED
  BY <1>5, <1>6, <1>7 DEF IInv

LEMMA DowngradeInv ==
    ASSUME IInv, Downgrade
    PROVE  IInv'
<1>1. DbInv(db') /\ DbInv(view')
  BY EmptyInv DEF Downgrade
<1>2. EditsInv'
  <2>1. edit' = edit /\ \A s \in Sessions : edit[s] = Idle
    BY DEF Downgrade, IInv, EditsInv
  <2> QED
    BY <2>1 DEF EditsInv, EditInv, IInv
<1>3. NoReference(db')
  BY EmptyTables DEF Downgrade, NoReference
<1>4. /\ phase' = "stopped" /\ view' = db' /\ step' = 0 /\ ended' # "running"
      /\ requests' = requests
  BY DEF Downgrade, IInv, PhaseInv
<1>5. PhaseInv'
  BY <1>3, <1>4 DEF PhaseInv, IInv
<1> QED
  BY <1>1, <1>2, <1>5 DEF IInv

LEMMA SeedInv ==
    ASSUME IInv, Seed
    PROVE  IInv'
<1>1. /\ step \in 1 .. LastStep /\ step # RatesStep /\ phase = "seed"
      /\ DbInv(db) /\ DbInv(view) /\ (NoReference(db) \/ FullReference(db))
      /\ SeededUpTo(step, db, view) /\ Extends(db, view)
  BY LastStepNat DEF IInv, PhaseInv, Seed
<1>2. /\ view' = SeedStep(view, step)
      /\ Lawful(view') /\ ReferencesKept(view')
      /\ IdsLeft(ProductIds, view.product) /\ IdsLeft(CategoryIds, view.category)
      /\ db' = db /\ edit' = edit /\ requests' = requests
      /\ phase' = phase /\ ended' = ended /\ step' = step + 1
  BY DEF Seed
<1>3. /\ DbInv(view') /\ Extends(db, view')
      /\ SeededUpTo(step + 1, db, view')
  <2>1. PICK n \in 1 .. LastStep : n = step
    BY <1>1
  <2>2. PICK d : d = db
    OBVIOUS
  <2>3. PICK e : e = view
    OBVIOUS
  <2>4. view' = SeedStep(e, n)
    BY <1>2, <2>1, <2>3
  <2>5. /\ DbInv(SeedStep(e, n)) /\ Extends(d, SeedStep(e, n))
        /\ SeededUpTo(n + 1, d, SeedStep(e, n))
    BY <1>1, <1>2, <2>1, <2>2, <2>3, <2>4, SeedMoves
  <2> QED
    BY <2>1, <2>2, <2>3, <2>4, <2>5
<1>4. EditsInv'
  BY <1>2 DEF IInv, EditsInv
<1>5. step' \in 1 .. LastStep + 1
  BY <1>1, <1>2, LastStepNat
<1>6. PhaseInv'
  BY <1>1, <1>2, <1>3, <1>5 DEF PhaseInv, IInv
<1> QED
  BY <1>1, <1>2, <1>3, <1>4, <1>6 DEF IInv

LEMMA SeedRatesInv ==
    ASSUME IInv, SeedRates
    PROVE  IInv'
<1>1. /\ step = RatesStep /\ phase = "seed"
      /\ DbInv(db) /\ DbInv(view) /\ (NoReference(db) \/ FullReference(db))
      /\ SeededUpTo(step, db, view) /\ Extends(db, view)
  BY DEF IInv, PhaseInv, SeedRates
<1>2. /\ db' = db /\ edit' = edit /\ requests' = requests
      /\ phase' = phase /\ ended' = ended /\ step' = step + 1
  BY DEF SeedRates
<1>3. /\ DbInv(view') /\ Extends(db, view')
      /\ SeededUpTo(RatesStep + 1, db, view')
  <2>1. PICK answer \in Answers \union {FALLBACK_RATES} : view' = WithRates(view, answer)
    BY DEF SeedRates
  <2>2. PICK d : d = db
    OBVIOUS
  <2>3. PICK e : e = view
    OBVIOUS
  <2>4. view' = WithRates(e, answer)
    BY <2>1, <2>3
  <2>5. /\ DbInv(WithRates(e, answer)) /\ Extends(d, WithRates(e, answer))
        /\ SeededUpTo(RatesStep + 1, d, WithRates(e, answer))
    BY <1>1, <2>2, <2>3, SeedRatesMoves
  <2> QED
    BY <2>2, <2>4, <2>5
<1>4. EditsInv'
  BY <1>2 DEF IInv, EditsInv
<1>5. step' \in 1 .. LastStep + 1 /\ step' = RatesStep + 1
  BY <1>1, <1>2, LastStepNat DEF RatesStep
<1>6. PhaseInv'
  BY <1>1, <1>2, <1>3, <1>5 DEF PhaseInv, IInv
<1> QED
  BY <1>1, <1>2, <1>3, <1>4, <1>6 DEF IInv

LEMMA ExitInv ==
    ASSUME IInv, NEW reason, reason # "running", Exit(reason)
    PROVE  IInv'
<1>1. /\ db' = db /\ view' = db /\ requests' = requests
      /\ phase' = "stopped" /\ step' = 0 /\ ended' # "running"
      /\ edit' = [s \in Sessions |-> Idle]
  BY DEF Exit
<1>2. EditsInv'
  BY <1>1, NoEditsInv
<1>3. PhaseInv'
  BY <1>1 DEF PhaseInv, IInv
<1> QED
  BY <1>1, <1>2, <1>3 DEF IInv

LEMMA CommitSeedInv ==
    ASSUME IInv, CommitSeed
    PROVE  IInv'
<1>1. /\ db' = view /\ view' = view /\ edit' = edit /\ requests' = requests
      /\ phase = "seed" /\ phase' = "serve" /\ ended' = ended
      /\ step' = 0 /\ step = LastStep + 1
  BY DEF CommitSeed
<1>2. DbInv(db') /\ DbInv(view')
  BY <1>1 DEF IInv
<1>3. EditsInv'
  BY <1>1 DEF EditsInv, EditInv, IInv
<1>4. step > 6
  BY <1>1, LastStepNat
<1>5. FullReference(db') /\ DOMAIN db'.category # {}
  <2>1. SeededUpTo(step, db, view) /\ step \in Nat
    BY <1>1, LastStepNat DEF IInv, PhaseInv
  <2> QED
    BY <1>1, <1>4, <2>1 DEF SeededUpTo, FullReference, RatesStep
<1>6. PhaseInv'
  BY <1>1, <1>5 DEF PhaseInv, IInv
<1> QED
  BY <1>2, <1>3, <1>6 DEF IInv

-----------------------------------------------------------------------------
(* The requests of administrators.                                         *)

\* Whoever holds what they have read of a row still does, when the row stays.
LEMMA EditStays ==
    ASSUME NEW e, NEW d, NEW f, EditInv(e, d),
           e # Idle /\ e.disturbed = FALSE /\ e.product \in DOMAIN d.product =>
              /\ e.product \in DOMAIN f.product
              /\ f.product[e.product] = d.product[e.product]
    PROVE  EditInv(e, f)
BY DEF EditInv

\* A disturbed edit keeps its patch, and claims nothing any more.
LEMMA SetDisturbed ==
    ASSUME NEW e, IsEdit(e), NEW yes
    PROVE  LET new == [e EXCEPT !.disturbed = yes]
           IN  IsEdit(new) /\ new.patch = e.patch /\ new.disturbed = yes
BY DEF IsEdit

LEMMA DisturbedEdit ==
    ASSUME NEW e, e # Idle, NEW d, NEW f, EditInv(e, d)
    PROVE  EditInv([e EXCEPT !.disturbed = TRUE], f)
<1> DEFINE new == [e EXCEPT !.disturbed = TRUE]
<1>1. IsEdit(e) /\ e.patch \in Patches
  BY DEF EditInv
<1>2. IsEdit(new) /\ new.patch = e.patch /\ new.disturbed = TRUE
  <2>1. PICK yes : yes = TRUE
    OBVIOUS
  <2> QED
    BY <1>1, <2>1, SetDisturbed
<1> HIDE DEF new
<1> QED
  BY <1>1, <1>2 DEF EditInv, new

\* After a write to a product, and to no other, no edit of it is alone.
LEMMA DisturbEdits ==
    ASSUME NEW id, NEW d, EditsInv,
           \A p \in DOMAIN db.product \ {id} :
              p \in DOMAIN d.product /\ d.product[p] = db.product[p]
    PROVE  /\ Disturb(id) = [s \in Sessions |-> Disturb(id)[s]]
           /\ \A s \in Sessions : EditInv(Disturb(id)[s], d)
<1> SUFFICES ASSUME NEW s \in Sessions  PROVE EditInv(Disturb(id)[s], d)
  BY DEF Disturb
<1>1. EditInv(edit[s], db)
  BY DEF EditsInv
<1>2. CASE edit[s] # Idle /\ edit[s].product = id
  <2>1. Disturb(id)[s] = [edit[s] EXCEPT !.disturbed = TRUE]
    BY <1>2 DEF Disturb
  <2> QED
    BY <1>1, <1>2, <2>1, DisturbedEdit
<1>3. CASE ~(edit[s] # Idle /\ edit[s].product = id)
  <2>1. Disturb(id)[s] = edit[s]
    BY <1>3 DEF Disturb
  <2>2. PICK e : e = edit[s]
    OBVIOUS
  <2>3. EditInv(e, d)
    BY <1>1, <1>3, <2>2, EditStays
  <2> QED
    BY <2>1, <2>2, <2>3
<1> QED
  BY <1>2, <1>3

\* A request that leaves the rows it found as they are disturbs nobody.
LEMMA EditsStay ==
    ASSUME NEW d, EditsInv,
           \A p \in DOMAIN db.product :
              p \in DOMAIN d.product /\ d.product[p] = db.product[p]
    PROVE  \A s \in Sessions : EditInv(edit[s], d)
<1> SUFFICES ASSUME NEW s \in Sessions  PROVE EditInv(edit[s], d)
  OBVIOUS
<1>1. PICK e : e = edit[s]
  OBVIOUS
<1>2. EditInv(e, db)
  BY <1>1 DEF EditsInv
<1>3. e.product \in DOMAIN db.product =>
          /\ e.product \in DOMAIN d.product
          /\ d.product[e.product] = db.product[e.product]
  OBVIOUS
<1>4. EditInv(e, d)
  BY <1>2, <1>3 DEF EditInv
<1> QED
  BY <1>1, <1>4

\* What a request leaves of the database and of the edits is enough.
LEMMA ServedInv ==
    ASSUME IInv, Serve, DbInv(db'), SameReference(db, db'),
           DOMAIN db.category \subseteq DOMAIN db'.category,
           edit' = [s \in Sessions |-> edit'[s]],
           \A s \in Sessions : EditInv(edit'[s], db'),
           requests' \in 0 .. MaxRequests
    PROVE  IInv'
<1>1. /\ phase = "serve" /\ phase' = "serve" /\ view' = db'
      /\ step' = step /\ ended' = ended
  BY DEF Serve
<1>2. EditsInv'
  BY <1>1 DEF EditsInv
<1>3. FullReference(db') /\ DOMAIN db'.category # {}
  BY <1>1 DEF IInv, PhaseInv, FullReference, SameReference
<1>4. PhaseInv'
  BY <1>1, <1>3 DEF PhaseInv, IInv
<1> QED
  BY <1>1, <1>2, <1>4 DEF IInv

LEMMA OneRequestMore ==
    ASSUME IInv, MayRequest
    PROVE  requests + 1 \in 0 .. MaxRequests
<1>1. MaxRequests \in Nat
  BY CatalogAssumption
<1> QED
  BY <1>1 DEF IInv, PhaseInv, MayRequest

LEMMA CreateProductInv ==
    ASSUME IInv, Serve, NEW payload \in Payloads, CreateProduct(payload)
    PROVE  IInv'
<1>1. PICK d : d = db
  OBVIOUS
<1>2. PICK id : id = NewId(FreeIds, db.product)
  OBVIOUS
<1>3. id \in ProductIds \ DOMAIN d.product
  BY <1>1, <1>2, NewIdFree DEF CreateProduct, FreeIds
<1>4. /\ db' = Created(d, id, payload) /\ Lawful(db')
      /\ edit' = edit /\ requests' = requests + 1
  BY <1>1, <1>2 DEF CreateProduct
<1>5. payload.status \in Statuses /\ DbInv(d)
  BY <1>1, CatalogAssumption DEF IInv
<1>6. DbInv(db')
  BY <1>3, <1>4, <1>5, CreatedInv
<1>7. /\ SameReference(d, db') /\ db'.category = d.category
      /\ db'.product = With(d.product, id, NewProduct(id, payload))
  BY <1>4, <1>5, CreatedTables DEF DbInv
<1>8. \A p \in DOMAIN d.product :
          p \in DOMAIN db'.product /\ db'.product[p] = d.product[p]
  BY <1>3, <1>7 DEF With
<1>9. \A s \in Sessions : EditInv(edit'[s], db')
  BY <1>1, <1>4, <1>8, EditsStay DEF IInv
<1>10. requests' \in 0 .. MaxRequests
  BY <1>4, OneRequestMore DEF CreateProduct
<1> QED
  BY <1>1, <1>4, <1>6, <1>7, <1>9, <1>10, ServedInv DEF IInv, EditsInv

LEMMA DeleteProductInv ==
    ASSUME IInv, Serve, NEW id \in DOMAIN db.product, DeleteProduct(id)
    PROVE  IInv'
<1>1. PICK d : d = db
  OBVIOUS
<1>2. /\ db' = Deleted(d, id) /\ Lawful(db')
      /\ edit' = Disturb(id) /\ requests' = requests + 1
  BY <1>1 DEF DeleteProduct
<1>3. DbInv(d) /\ id \in DOMAIN d.product
  BY <1>1 DEF IInv
<1>4. DbInv(db')
  BY <1>2, <1>3, DeletedInv
<1>5. /\ SameReference(d, db') /\ db'.category = d.category
      /\ db'.product = Without(d.product, id)
  BY <1>2, <1>3, DeletedTables DEF DbInv
<1>6. \A p \in DOMAIN d.product \ {id} :
          p \in DOMAIN db'.product /\ db'.product[p] = d.product[p]
  BY <1>5 DEF Without
<1>7. /\ edit' = [s \in Sessions |-> edit'[s]]
      /\ \A s \in Sessions : EditInv(edit'[s], db')
  BY <1>1, <1>2, <1>6, DisturbEdits DEF IInv
<1>8. requests' \in 0 .. MaxRequests
  BY <1>2, OneRequestMore DEF DeleteProduct
<1> QED
  BY <1>1, <1>4, <1>5, <1>7, <1>8, ServedInv

LEMMA CreateCategoryInv ==
    ASSUME IInv, Serve, NEW text, NEW parent, CreateCategory(text, parent)
    PROVE  IInv'
<1>1. PICK d : d = db
  OBVIOUS
<1>2. PICK id : id = NewId(CategoryIds, db.category)
  OBVIOUS
<1>3. id \in CategoryIds \ DOMAIN d.category
  BY <1>1, <1>2, NewIdFree DEF CreateCategory
<1>4. /\ db' = WithCategory(d, id, text, parent) /\ Lawful(db')
      /\ edit' = edit /\ requests' = requests + 1
  BY <1>1, <1>2 DEF CreateCategory
<1>5. DbInv(d)
  BY <1>1 DEF IInv
<1>6. DbInv(db')
  BY <1>3, <1>4, <1>5, CategoryInv
<1>7. /\ SameReference(d, db') /\ db'.product = d.product
      /\ db'.category = With(d.category, id,
             [parent |-> parent, path |-> PathTo(id, parent), text |-> text])
  BY <1>4, <1>5, CategoryTables DEF DbInv
<1>8. DOMAIN d.category \subseteq DOMAIN db'.category
  BY <1>7 DEF With
<1>9. \A s \in Sessions : EditInv(edit'[s], db')
  BY <1>1, <1>4, <1>7, EditsStay DEF IInv
<1>10. requests' \in 0 .. MaxRequests
  BY <1>4, OneRequestMore DEF CreateCategory
<1> QED
  BY <1>1, <1>4, <1>6, <1>7, <1>8, <1>9, <1>10, ServedInv DEF IInv, EditsInv

LEMMA RetitleCategoryInv ==
    ASSUME IInv, Serve, NEW id \in DOMAIN db.category, NEW text,
           RetitleCategory(id, text)
    PROVE  IInv'
<1>1. PICK d : d = db
  OBVIOUS
<1>2. /\ db' = Retitled(d, id, text) /\ Lawful(db')
      /\ edit' = edit /\ requests' = requests + 1
  BY <1>1 DEF RetitleCategory
<1>3. DbInv(d) /\ id \in DOMAIN d.category
  BY <1>1 DEF IInv
<1>4. DbInv(db')
  BY <1>2, <1>3, RetitledInv
<1>5. /\ SameReference(d, db') /\ db'.product = d.product
      /\ DOMAIN db'.category = DOMAIN d.category
  BY <1>2, <1>3, RetitledTables DEF DbInv
<1>6. \A s \in Sessions : EditInv(edit'[s], db')
  BY <1>1, <1>2, <1>5, EditsStay DEF IInv
<1>7. requests' \in 0 .. MaxRequests
  BY <1>2, OneRequestMore DEF RetitleCategory
<1> QED
  BY <1>1, <1>2, <1>4, <1>5, <1>6, <1>7, ServedInv DEF IInv, EditsInv

LEMMA BeginPatchInv ==
    ASSUME IInv, Serve, NEW s \in Sessions, NEW id \in DOMAIN db.product,
           NEW patch \in Patches, BeginPatch(s, id, patch)
    PROVE  IInv'
<1> DEFINE e == [product |-> id, seen |-> db.product[id], patch |-> patch,
                 disturbed |-> FALSE]
<1>1. /\ db' = db /\ edit' = [edit EXCEPT ![s] = e]
      /\ requests' = requests + 1
  BY DEF BeginPatch
<1>2. EditInv(e, db')
  BY <1>1 DEF EditInv, IsEdit
<1> HIDE DEF e
<1>3. /\ edit' = [t \in Sessions |-> edit'[t]] /\ edit'[s] = e
      /\ \A t \in Sessions \ {s} : edit'[t] = edit[t]
  BY <1>1 DEF IInv, EditsInv
<1>4. \A t \in Sessions : EditInv(edit'[t], db')
  BY <1>1, <1>2, <1>3 DEF IInv, EditsInv
<1>5. DbInv(db') /\ SameReference(db, db')
  BY <1>1 DEF IInv, SameReference
<1>6. requests' \in 0 .. MaxRequests
  BY <1>1, OneRequestMore DEF BeginPatch
<1> QED
  BY <1>1, <1>3, <1>4, <1>5, <1>6, ServedInv

\* What a flush that is not refused leaves.
LEMMA CommittedPatch ==
    ASSUME IInv, NEW s \in Sessions, CommitPatch(s), Writes(edit[s])
    PROVE  /\ edit[s].product \in DOMAIN db.product
           /\ db' = Patched(db, edit[s]) /\ Lawful(db') /\ DbInv(db')
           /\ SameReference(db, db') /\ db'.category = db.category
           /\ DOMAIN db'.product = DOMAIN db.product
           /\ db'.product[edit[s].product] =
                  PatchedRow(edit[s], db.product[edit[s].product])
           /\ \A p \in DOMAIN db.product \ {edit[s].product} :
                 db'.product[p] = db.product[p]
<1>1. PICK d : d = db
  OBVIOUS
<1>2. PICK e : e = edit[s]
  OBVIOUS
<1>3. /\ e # Idle /\ e.product \in DOMAIN d.product
      /\ db' = Patched(d, e) /\ Lawful(Patched(d, e))
  BY <1>1, <1>2 DEF CommitPatch, Accepted
<1>4. e.patch \in Patches /\ DbInv(d)
  BY <1>1, <1>2, <1>3 DEF IInv, EditsInv, EditInv
<1>5. DbInv(Patched(d, e))
  BY <1>3, <1>4, PatchedInv
<1>6. /\ SameReference(d, Patched(d, e))
      /\ Patched(d, e).category = d.category
      /\ DOMAIN Patched(d, e).product = DOMAIN d.product
      /\ Patched(d, e).product[e.product] = PatchedRow(e, d.product[e.product])
      /\ \A p \in DOMAIN d.product \ {e.product} :
            Patched(d, e).product[p] = d.product[p]
  BY <1>3, <1>4, PatchedTables DEF DbInv
<1>7. Patched(d, e) = Patched(db, edit[s])
  BY <1>1, <1>2
<1> QED
  BY <1>1, <1>2, <1>3, <1>5, <1>6, <1>7

LEMMA CommitPatchInv ==
    ASSUME IInv, Serve, NEW s \in Sessions, CommitPatch(s)
    PROVE  IInv'
<1> DEFINE others == IF Writes(edit[s]) THEN Disturb(edit[s].product) ELSE edit
<1>1. edit' = [others EXCEPT ![s] = Idle] /\ requests' = requests
  BY DEF CommitPatch
<1>2. /\ DbInv(db') /\ SameReference(db, db')
      /\ db'.category = db.category
      /\ others = [t \in Sessions |-> others[t]]
      /\ \A t \in Sessions : EditInv(others[t], db')
  <2>1. CASE Writes(edit[s])
    <3>1. /\ DbInv(db') /\ SameReference(db, db')
          /\ db'.category = db.category
          /\ DOMAIN db'.product = DOMAIN db.product
          /\ \A p \in DOMAIN db.product \ {edit[s].product} :
                db'.product[p] = db.product[p]
      BY <2>1, CommittedPatch
    <3>2. PICK id : id = edit[s].product
      OBVIOUS
    <3>3. /\ Disturb(id) = [t \in Sessions |-> Disturb(id)[t]]
          /\ \A t \in Sessions : EditInv(Disturb(id)[t], db')
      BY <3>1, <3>2, DisturbEdits DEF IInv
    <3>4. others = Disturb(id)
      BY <2>1, <3>2
    <3> HIDE DEF others
    <3> QED
      BY <3>1, <3>3, <3>4
  <2>2. CASE ~Writes(edit[s])
    <3>1. db' = db /\ others = edit
      BY <2>2 DEF CommitPatch
    <3> HIDE DEF others
    <3> QED
      BY <3>1 DEF IInv, EditsInv, SameReference
  <2> QED
    BY <2>1, <2>2
<1> HIDE DEF others
<1>3. /\ edit' = [t \in Sessions |-> edit'[t]]
      /\ edit'[s] = Idle
      /\ \A t \in Sessions \ {s} : edit'[t] = others[t]
  BY <1>1, <1>2
<1>4. \A t \in Sessions : EditInv(edit'[t], db')
  BY <1>2, <1>3 DEF EditInv
<1>5. requests' \in 0 .. MaxRequests
  BY <1>1 DEF IInv, PhaseInv
<1> QED
  BY <1>2, <1>3, <1>4, <1>5, ServedInv

LEMMA RefusePatchInv ==
    ASSUME IInv, Serve, NEW s \in Sessions, RefusePatch(s)
    PROVE  IInv'
<1>1. edit' = [edit EXCEPT ![s] = Idle] /\ requests' = requests /\ db' = db
  BY DEF RefusePatch
<1>2. /\ edit' = [t \in Sessions |-> edit'[t]] /\ edit'[s] = Idle
      /\ \A t \in Sessions \ {s} : edit'[t] = edit[t]
  BY <1>1 DEF IInv, EditsInv
<1>3. \A t \in Sessions : EditInv(edit'[t], db')
  BY <1>1, <1>2 DEF EditInv, EditsInv, IInv
<1>4. DbInv(db') /\ SameReference(db, db')
  BY <1>1 DEF IInv, SameReference
<1>5. requests' \in 0 .. MaxRequests
  BY <1>1 DEF IInv, PhaseInv
<1> QED
  BY <1>1, <1>2, <1>3, <1>4, <1>5, ServedInv

LEMMA NextInv == IInv /\ [Next]_vars => IInv'
<1> SUFFICES ASSUME IInv, [Next]_vars  PROVE IInv'
  OBVIOUS
<1>1. CASE Upgrade
  BY <1>1, UpgradeInv
<1>2. CASE Downgrade
  BY <1>2, DowngradeInv
<1>3. CASE Seed \/ SeedRates
  BY <1>3, SeedInv, SeedRatesInv
<1>4. CASE SeedFails
  BY <1>4, ExitInv DEF SeedFails
<1>5. CASE ProviderGarbled
  BY <1>5, ExitInv DEF ProviderGarbled
<1>6. CASE CommitSeed
  BY <1>6, CommitSeedInv
<1>7. CASE Crash
  BY <1>7, ExitInv DEF Crash
<1>8. CASE Serve
  <2>1. CASE \E payload \in Payloads : CreateProduct(payload)
    BY <1>8, <2>1, CreateProductInv
  <2>2. CASE \E id \in DOMAIN db.product : DeleteProduct(id)
    BY <1>8, <2>2, DeleteProductInv
  <2>3. CASE \E text \in Headings, parent \in DOMAIN db.category \union {NoParent} :
                CreateCategory(text, parent)
    BY <1>8, <2>3, CreateCategoryInv
  <2>4. CASE \E id \in DOMAIN db.category, text \in Headings :
                RetitleCategory(id, text)
    BY <1>8, <2>4, RetitleCategoryInv
  <2>5. CASE \E s \in Sessions, id \in DOMAIN db.product, patch \in Patches :
                BeginPatch(s, id, patch)
    BY <1>8, <2>5, BeginPatchInv
  <2>6. CASE \E s \in Sessions : CommitPatch(s) \/ RefusePatch(s)
    BY <1>8, <2>6, CommitPatchInv, RefusePatchInv
  <2> QED
    BY <1>8, <2>1, <2>2, <2>3, <2>4, <2>5, <2>6 DEF Serve, AdminStep
<1>9. CASE UNCHANGED vars
  BY <1>9 DEF vars, IInv, EditsInv, PhaseInv
<1> QED
  BY <1>1, <1>2, <1>3, <1>4, <1>5, <1>6, <1>7, <1>8, <1>9 DEF Next

THEOREM Invariance == Spec => []IInv
BY InitInv, NextInv, PTL DEF Spec

-----------------------------------------------------------------------------
(* What holds of the database at any time.                                 *)

\* The tables are all there or none is, every row has its ids, its status and
\* its keys, and no request outlives the process that serves it.
THEOREM TypeCorrect == Spec => []TypeOK
<1>1. IInv => TypeOK
  <2> SUFFICES ASSUME IInv  PROVE TypeOK
    OBVIOUS
  <2>1. DOMAIN db = DOMAIN EmptyDb /\ DOMAIN view = DOMAIN EmptyDb
    <3>1. ASSUME NEW d, IsDb(d)
          PROVE  DOMAIN d = {"tables", "locale", "currency", "region", "admin",
                             "rate", "product", "category", "link", "stocked"}
      BY <3>1, Zenon DEF IsDb
    <3>2. IsDb(db) /\ IsDb(view) /\ IsDb(EmptyDb)
      BY EmptyTables DEF IInv, DbInv
    <3> QED
      BY <3>1, <3>2
  <2>2. /\ db.tables \in {{}, MigratedTables}
        /\ Lawful(db) /\ ReferencesKept(db)
        /\ DOMAIN db.category \subseteq CategoryIds
        /\ \A p \in DOMAIN db.product :
              p \in ProductIds /\ db.product[p].status \in Statuses
    BY DEF IInv, DbInv, ProductsInv, PathsInv
  <2>3. step \in 0 .. LastStep + 1
    BY LastStepNat DEF IInv, PhaseInv
  <2> QED
    BY <2>1, <2>2, <2>3 DEF TypeOK, IInv, PhaseInv, EditsInv
<1> QED
  BY <1>1, Invariance, PTL

LEMMA SlugNamesOne ==
    ASSUME NEW d, SlugsUnique(d.product), NEW p \in DOMAIN d.product,
           NEW l \in DOMAIN d.product[p].text
    PROVE  FindProductBySlug(d, d.product[p].text[l], l) = {p}
BY DEF FindProductBySlug, SlugsUnique

\* The link on a card opens the product of the card, unless the card shows the
\* slug of the default language and that slug is another product's in the
\* visitor's: the uniqueness of slugs is all that find_product_by_slug and the
\* fallback of get_product_by_slug have, and it is enough.
THEOREM CardsOpenTheirProduct == Spec => []LinkOpensItsCard
<1>1. ASSUME NEW d, SlugsUnique(d.product), NEW locale,
             NEW p \in Published(d), CardSlug(d, p, locale) # NoText
      PROVE  LET slug == CardSlug(d, p, locale)
             IN  \/ OpenBySlug(d, slug, locale) = {p}
                 \/ /\ locale \notin DOMAIN d.product[p].text
                    /\ FindProductBySlug(d, slug, locale) \ {p} # {}
  <2> DEFINE slug == CardSlug(d, p, locale)
             text == d.product[p].text
             default == DefaultLocale(d.locale)
             here == FindProductBySlug(d, slug, locale)
             there == FindProductBySlug(d, slug, default)
  <2>1. p \in DOMAIN d.product /\ {p} \intersect Published(d) = {p}
    BY DEF Published
  <2>2. /\ here # {} => OpenBySlug(d, slug, locale) = here \intersect Published(d)
        /\ here = {} => OpenBySlug(d, slug, locale) = there \intersect Published(d)
    BY DEF OpenBySlug
  <2>3. CASE locale \in DOMAIN text
    <3>1. slug = text[locale]
      BY <2>3 DEF CardSlug, Translate
    <3>2. here = {p}
      BY <1>1, <2>1, <2>3, <3>1, SlugNamesOne
    <3> QED
      BY <2>1, <2>2, <3>2
  <2>4. CASE locale \notin DOMAIN text
    <3>1. default \in DOMAIN text /\ slug = text[default]
      BY <1>1, <2>4 DEF CardSlug, Translate
    <3>2. there = {p}
      BY <1>1, <2>1, <3>1, SlugNamesOne
    <3>3. p \notin here
      BY <2>4 DEF FindProductBySlug
    <3>4. CASE here = {}
      BY <2>1, <2>2, <3>2, <3>4
    <3>5. CASE here # {}
      BY <2>4, <3>3, <3>5
    <3> QED
      BY <3>4, <3>5
  <2> QED
    BY <2>3, <2>4
<1>2. IInv => LinkOpensItsCard
  <2> SUFFICES ASSUME IInv, NEW locale \in Codes(db.locale), NEW p \in Published(db),
                      CardSlug(db, p, locale) # NoText
               PROVE  LET slug == CardSlug(db, p, locale)
                      IN  \/ OpenBySlug(db, slug, locale) = {p}
                          \/ /\ locale \notin DOMAIN db.product[p].text
                             /\ FindProductBySlug(db, slug, locale) \ {p} # {}
    BY DEF LinkOpensItsCard
  <2>1. SlugsUnique(db.product)
    BY DEF IInv, DbInv, Lawful
  <2> QED
    BY <1>1, <2>1
<1> QED
  BY <1>2, Invariance, PTL

\* Every product has a variant, every variant its inventory row, and no
\* inventory row is left of a deleted one: by the cascade from the product over
\* the variant, and because no two products share a SKU.
THEOREM VariantsStayStocked == Spec => []EveryVariantStocked
<1>1. IInv => EveryVariantStocked
  BY DEF IInv, DbInv, ProductsInv, EveryVariantStocked
<1> QED
  BY <1>1, Invariance, PTL

\* The paths name the subtree of a root, down to the second level.
THEOREM PathsNameSubtree == Spec => []SubtreeByPath
<1>1. ASSUME IInv, NEW root \in DOMAIN db.category,
             \A c \in Children(root) : Children(c) = {}
      PROVE  NamedByPath(root) = Subtree(root)
  <2>1. Subtree(root) = {root} \union Children(root)
    BY <1>1 DEF Subtree
  <2>2. root # NoParent
    BY <1>1, CatalogAssumption DEF IInv, DbInv, PathsInv
  <2>3. ASSUME NEW c \in DOMAIN db.category
        PROVE  (\E i \in DOMAIN db.category[c].path : db.category[c].path[i] = root)
                   <=> c = root \/ db.category[c].parent = root
    <3>1. PICK parent : parent = db.category[c].parent
      OBVIOUS
    <3>2. db.category[c].path = PathTo(c, parent)
      BY <1>1, <3>1 DEF IInv, DbInv, PathsInv
    <3>3. CASE parent = NoParent
      BY <2>2, <3>1, <3>2, <3>3 DEF PathTo
    <3>4. CASE parent # NoParent
      BY <3>1, <3>2, <3>4 DEF PathTo
    <3> QED
      BY <3>3, <3>4
  <2>4. NamedByPath(root) = {root} \union Children(root)
    BY <2>3 DEF NamedByPath, Children
  <2> QED
    BY <2>1, <2>4
<1>2. IInv => SubtreeByPath
  BY <1>1 DEF SubtreeByPath
<1> QED
  BY <1>2, Invariance, PTL

\* The seed is one transaction: whatever stops the container where, all of its
\* reference rows are there or none is, with a rate for every currency that no
\* answer of the provider lacks; and an API that serves has all of them and a
\* category.
THEOREM SeedIsAtomic == Spec => []SeededAsOne
<1>1. IInv => SeededAsOne
  <2> SUFFICES ASSUME IInv  PROVE SeededAsOne
    OBVIOUS
  <2>1. phase = "serve" => FullReference(db) /\ db.category # <<>>
    BY DEF IInv, PhaseInv
  <2>2. CASE NoReference(db)
    BY <2>2 DEF NoReference, SeededAsOne
  <2>3. CASE FullReference(db)
    BY <2>1, <2>3 DEF FullReference, RatesThere, SeededAsOne
  <2> QED
    BY <2>2, <2>3 DEF IInv, PhaseInv
<1> QED
  BY <1>1, Invariance, PTL

-----------------------------------------------------------------------------
(* The language and the region of an answer.                               *)

LEMMA HostedCodes ==
    /\ Codes(LOCALES) = {"zh-CN", "en", "ja"}
    /\ DefaultLocale(LOCALES) = "zh-CN"
    /\ NoTag \notin Codes(LOCALES)
<1> DEFINE a == Locale("zh-CN", TRUE, 0)
           b == Locale("en", FALSE, 1)
           c == Locale("ja", FALSE, 2)
<1>1. LOCALES = {a, b, c}
  BY DEF LOCALES
<1>2. /\ a.code = "zh-CN" /\ b.code = "en" /\ c.code = "ja"
      /\ a.is_active /\ b.is_active /\ c.is_active
      /\ a.is_default /\ ~b.is_default /\ ~c.is_default
  BY DEF Locale
<1> HIDE DEF a, b, c
<1>3. Codes(LOCALES) = {"zh-CN", "en", "ja"}
  <2>1. {r \in LOCALES : r.is_active} = {a, b, c}
    BY <1>1, <1>2
  <2>2. {l.code : l \in {a, b, c}} = {"zh-CN", "en", "ja"}
    BY <1>2
  <2> QED
    BY <2>1, <2>2 DEF Codes
<1>4. DefaultLocale(LOCALES) = "zh-CN"
  <2>1. {l \in LOCALES : l.is_default} = {a}
    BY <1>1, <1>2
  <2>2. (CHOOSE l \in {a} : TRUE) = a
    OBVIOUS
  <2> QED
    BY <1>2, <2>1, <2>2 DEF DefaultLocale
<1> QED
  BY <1>3, <1>4 DEF NoTag

\* Some of the locales have a first one.
LEMMA FirstLocale ==
    ASSUME NEW rows, rows \subseteq LOCALES, rows # {}
    PROVE  First(rows) \in rows
<1> DEFINE a == Locale("zh-CN", TRUE, 0)
           b == Locale("en", FALSE, 1)
           c == Locale("ja", FALSE, 2)
<1>1. a.position = 0 /\ b.position = 1 /\ c.position = 2
  BY DEF Locale
<1>2. LOCALES = {a, b, c}
  BY DEF LOCALES
<1> HIDE DEF a, b, c
<1>3. \E r \in rows : \A other \in rows : r.position <= other.position
  <2>1. CASE a \in rows
    BY <1>1, <1>2, <2>1
  <2>2. CASE a \notin rows /\ b \in rows
    BY <1>1, <1>2, <2>2
  <2>3. CASE a \notin rows /\ b \notin rows
    BY <1>1, <1>2, <2>3
  <2> QED
    BY <2>1, <2>2, <2>3
<1> QED
  BY <1>3 DEF First

LEMMA PrefixHosted ==
    ASSUME NEW prefix, WithPrefix(LOCALES, prefix) # {}
    PROVE  First(WithPrefix(LOCALES, prefix)).code \in Codes(LOCALES)
<1>1. WithPrefix(LOCALES, prefix) \subseteq {r \in LOCALES : r.is_active}
  BY DEF WithPrefix
<1>2. First(WithPrefix(LOCALES, prefix)) \in WithPrefix(LOCALES, prefix)
  BY <1>1, FirstLocale
<1> QED
  BY <1>1, <1>2 DEF Codes

LEMMA ParameterHosted ==
    ASSUME NEW requested
    PROVE  /\ ResolveLocale(LOCALES, requested) \in Codes(LOCALES)
           /\ requested \in Codes(LOCALES) =>
                 ResolveLocale(LOCALES, requested) = requested
<1>1. CASE requested \in Codes(LOCALES)
  <2>1. requested # NoTag
    BY <1>1, HostedCodes
  <2>2. ResolveLocale(LOCALES, requested) = requested
    BY <1>1, <2>1 DEF ResolveLocale
  <2> QED
    BY <1>1, <2>2
<1>2. CASE requested \notin Codes(LOCALES)
  <2>1. DefaultLocale(LOCALES) \in Codes(LOCALES)
    BY HostedCodes
  <2> QED
    BY <1>2, <2>1, PrefixHosted DEF ResolveLocale
<1> QED
  BY <1>1, <1>2

LEMMA HeaderHosted ==
    ASSUME NEW n \in 0 .. 2, NEW tags \in [1 .. n -> Tags]
    PROVE  ResolveHeader(LOCALES, tags) \in Codes(LOCALES)
<1> DEFINE hits == {i \in DOMAIN tags : Hosted(LOCALES, tags[i])}
           i == CHOOSE k \in hits : \A j \in hits : k <= j
<1>1. CASE hits = {}
  <2>1. ResolveHeader(LOCALES, tags) = DefaultLocale(LOCALES)
    BY <1>1 DEF ResolveHeader
  <2> QED
    BY <2>1, HostedCodes
<1>2. CASE hits # {}
  <2>1. i \in hits
    <3>1. hits \subseteq {1, 2}
      OBVIOUS
    <3>2. \E k \in hits : \A j \in hits : k <= j
      <4> HIDE DEF hits
      <4>1. CASE 1 \in hits
        <5>1. \A j \in hits : 1 <= j
          BY <3>1
        <5> QED
          BY <4>1, <5>1
      <4>2. CASE 1 \notin hits
        <5>1. hits = {2}
          BY <1>2, <3>1, <4>2
        <5> QED
          BY <5>1
      <4> QED
        BY <4>1, <4>2
    <3> HIDE DEF hits
    <3> QED
      BY <3>2
  <2>2. Hosted(LOCALES, tags[i])
    <3> HIDE DEF i
    <3> QED
      BY <2>1
  <2>3. ResolveHeader(LOCALES, tags)
            = IF tags[i] \in Codes(LOCALES) THEN tags[i]
              ELSE First(WithPrefix(LOCALES, BaseOf[tags[i]])).code
    BY <1>2 DEF ResolveHeader
  <2> HIDE DEF i
  <2> QED
    BY <2>2, <2>3, PrefixHosted DEF Hosted
<1> QED
  BY <1>1, <1>2

\* The default region, when no code fits, is in the table: as is every other.
LEMMA RegionFound ==
    ASSUME NEW code
    PROVE  ResolveRegion(REGIONS, code) \in REGIONS
<1>1. {r \in REGIONS : r.is_default} # {}
  <2>1. Region("us", "USD", TRUE, 0, {"en", "zh-CN"}) \in REGIONS
    BY DEF REGIONS
  <2>2. Region("us", "USD", TRUE, 0, {"en", "zh-CN"}).is_default
    BY DEF Region
  <2> QED
    BY <2>1, <2>2
<1>2. CASE {r \in REGIONS : r.code = code} # {}
  BY <1>2 DEF ResolveRegion
<1>3. CASE {r \in REGIONS : r.code = code} = {}
  BY <1>1, <1>3 DEF ResolveRegion
<1> QED
  BY <1>2, <1>3

\* Whatever a client asks for, an API that serves answers it in a language that
\* the shop hosts, the one asked for when that is hosted, and with a region
\* whose currency it has.
THEOREM AlwaysAnswered == Spec => []AnsweredInHosted
<1>1. ASSUME NEW query, NEW header, NEW cookie
      PROVE  LET region == GetRegion(REGIONS, query, header, cookie)
             IN  region \in REGIONS /\ region.currency \in CURRENCIES
  <2>1. GetRegion(REGIONS, query, header, cookie) \in REGIONS
    BY RegionFound DEF GetRegion
  <2>2. \A region \in REGIONS : region.currency \in CURRENCIES
    BY DEF REGIONS, Region, CURRENCIES
  <2> QED
    BY <2>1, <2>2
<1>2. ASSUME NEW query, NEW n \in 0 .. 2, NEW header \in [1 .. n -> Tags]
      PROVE  LET locale == GetLocale(LOCALES, query, header)
             IN  /\ locale \in Codes(LOCALES)
                 /\ ResolveLocale(LOCALES, locale) = locale
                 /\ query \in Codes(LOCALES) => locale = query
  <2>1. GetLocale(LOCALES, query, header) \in Codes(LOCALES)
    BY ParameterHosted, HeaderHosted DEF GetLocale
  <2>2. query \in Codes(LOCALES) => GetLocale(LOCALES, query, header) = query
    BY ParameterHosted, HostedCodes DEF GetLocale
  <2> QED
    BY <2>1, <2>2, ParameterHosted
<1>3. IInv => AnsweredInHosted
  <2> SUFFICES ASSUME IInv, phase = "serve"  PROVE AnsweredInHosted
    BY DEF AnsweredInHosted
  <2>1. /\ db.locale = LOCALES /\ db.region = REGIONS
        /\ db.currency = CURRENCIES
    BY DEF IInv, PhaseInv, FullReference
  <2>2. ASSUME NEW query, NEW header, NEW cookie
        PROVE  LET region == GetRegion(db.region, query, header, cookie)
               IN  region \in db.region /\ region.currency \in db.currency
    BY <1>1, <2>1
  <2>3. ASSUME NEW query, NEW header \in UNION {[1 .. n -> Tags] : n \in 0 .. 2}
        PROVE  LET locale == GetLocale(db.locale, query, header)
               IN  /\ locale \in Codes(db.locale)
                   /\ ResolveLocale(db.locale, locale) = locale
                   /\ query \in Codes(db.locale) => locale = query
    <3>1. PICK n \in 0 .. 2 : header \in [1 .. n -> Tags]
      OBVIOUS
    <3>2. PICK locale : locale = GetLocale(LOCALES, query, header)
      OBVIOUS
    <3>3. /\ locale \in Codes(LOCALES)
          /\ ResolveLocale(LOCALES, locale) = locale
          /\ query \in Codes(LOCALES) => locale = query
      BY <1>2, <3>1, <3>2
    <3> QED
      BY <2>1, <3>2, <3>3
  <2> QED
    BY <2>2, <2>3 DEF AnsweredInHosted
<1> QED
  BY <1>3, Invariance, PTL

-----------------------------------------------------------------------------
(* What a step may never do.                                               *)

\* A PATCH that is answered with success stands.  While nobody disturbs the
\* product, what the request has read of it is what the database holds, so that
\* what it leaves unwritten, because it found it as sent, reads as sent; and a
\* product that somebody deleted has no row for the UPDATE to find.
THEOREM PatchesStand == Spec => SavedStands
<1>1. ASSUME IInv, NEW s \in Sessions, CommitPatch(s)
      PROVE  LET e == edit[s]
                 now == db'.product[e.product]
                 named == DOMAIN e.patch.text
             IN  /\ DOMAIN db'.product = DOMAIN db.product
                 /\ e.product \in DOMAIN db.product =>
                       LET was == db.product[e.product]
                       IN  /\ e.patch.status = Unchanged => now.status = was.status
                           /\ \A l \in DOMAIN was.text \ named :
                                 now.text[l] = was.text[l]
                 /\ e.disturbed \/
                       /\ e.patch.status \in {Unchanged, now.status}
                       /\ \A l \in named :
                             FindProductBySlug(db', e.patch.text[l], l) = {e.product}
  <2>1. PICK e : e = edit[s]
    OBVIOUS
  <2>2. PICK p : p = e.product
    OBVIOUS
  <2>3. PICK was : was = db.product[p]
    OBVIOUS
  <2>4. PICK now : now = db'.product[p]
    OBVIOUS
  <2>5. e # Idle /\ EditInv(e, db)
    BY <1>1, <2>1 DEF CommitPatch, IInv, EditsInv
  <2>6. /\ DOMAIN db'.product = DOMAIN db.product
        /\ Writes(e) => p \in DOMAIN db.product /\ now = PatchedRow(e, was)
        /\ ~Writes(e) => now = was
        /\ SlugsUnique(db'.product)
    <3>1. CASE Writes(edit[s])
      <4>1. /\ edit[s].product \in DOMAIN db.product
            /\ DOMAIN db'.product = DOMAIN db.product
            /\ db'.product[edit[s].product]
                   = PatchedRow(edit[s], db.product[edit[s].product])
            /\ DbInv(db')
        BY <1>1, <3>1, CommittedPatch
      <4>2. now = PatchedRow(e, was)
        BY <2>1, <2>2, <2>3, <2>4, <4>1
      <4> QED
        BY <2>1, <2>2, <3>1, <4>1, <4>2 DEF DbInv, Lawful
    <3>2. CASE ~Writes(edit[s])
      <4>1. db' = db
        BY <1>1, <3>2 DEF CommitPatch
      <4> QED
        BY <1>1, <2>1, <2>3, <2>4, <3>2, <4>1 DEF IInv, DbInv, Lawful
    <3> QED
      BY <3>1, <3>2
  <2>7. ASSUME e.patch.status = Unchanged
        PROVE  now.status = was.status
    <3>1. ~NewStatus(e)
      BY <2>7 DEF NewStatus
    <3> QED
      BY <2>6, <3>1 DEF PatchedRow
  <2>8. ASSUME NEW l \in DOMAIN was.text \ DOMAIN e.patch.text
        PROVE  now.text[l] = was.text[l]
    <3>1. l \notin NewTexts(e)
      BY <2>8 DEF NewTexts
    <3> QED
      BY <2>6, <3>1 DEF PatchedRow, Over
  <2>9. ASSUME e.disturbed = FALSE
        PROVE  /\ e.patch.status \in {Unchanged, now.status}
               /\ \A l \in DOMAIN e.patch.text :
                     FindProductBySlug(db', e.patch.text[l], l) = {p}
    <3>1. p \in DOMAIN db'.product /\ e.seen = was
      BY <2>2, <2>3, <2>5, <2>6, <2>9 DEF EditInv
    <3>2. e.patch.status \in {Unchanged, now.status}
      <4>1. CASE NewStatus(e)
        BY <2>6, <4>1 DEF Writes, PatchedRow
      <4>2. CASE ~NewStatus(e)
        BY <2>6, <3>1, <4>2 DEF NewStatus, PatchedRow
      <4> QED
        BY <4>1, <4>2
    <3>3. ASSUME NEW l \in DOMAIN e.patch.text
          PROVE  l \in DOMAIN now.text /\ now.text[l] = e.patch.text[l]
      <4>1. CASE l \in NewTexts(e)
        <5>1. now = PatchedRow(e, was)
          BY <2>6, <4>1 DEF Writes
        <5> QED
          BY <4>1, <5>1 DEF PatchedRow, Over
      <4>2. CASE l \notin NewTexts(e)
        <5>1. l \in DOMAIN was.text /\ was.text[l] = e.patch.text[l]
          BY <3>1, <3>3, <4>2 DEF NewTexts
        <5> QED
          BY <2>6, <4>2, <5>1 DEF PatchedRow, Over
      <4> QED
        BY <4>1, <4>2
    <3>4. ASSUME NEW l \in DOMAIN e.patch.text
          PROVE  FindProductBySlug(db', e.patch.text[l], l) = {p}
      <4>1. PICK d : d = db'
        OBVIOUS
      <4>2. d.product[p] = now /\ p \in DOMAIN d.product /\ SlugsUnique(d.product)
        BY <2>4, <2>6, <3>1, <4>1
      <4>3. FindProductBySlug(d, d.product[p].text[l], l) = {p}
        BY <3>3, <3>4, <4>2, SlugNamesOne
      <4>4. FindProductBySlug(d, e.patch.text[l], l) = {p}
        BY <3>3, <3>4, <4>2, <4>3
      <4> QED
        BY <4>1, <4>4
    <3> QED
      BY <3>2, <3>4
  <2>10. e.disturbed \in BOOLEAN
    BY <2>5 DEF EditInv
  <2> QED
    BY <2>1, <2>2, <2>3, <2>4, <2>6, <2>7, <2>8, <2>9, <2>10
<1>2. IInv /\ [Next]_vars =>
          [\A s \in Sessions : CommitPatch(s) =>
              LET e == edit[s]
                  now == db'.product[e.product]
                  named == DOMAIN e.patch.text
              IN  /\ DOMAIN db'.product = DOMAIN db.product
                  /\ e.product \in DOMAIN db.product =>
                        LET was == db.product[e.product]
                        IN  /\ e.patch.status = Unchanged => now.status = was.status
                            /\ \A l \in DOMAIN was.text \ named :
                                  now.text[l] = was.text[l]
                  /\ e.disturbed \/
                        /\ e.patch.status \in {Unchanged, now.status}
                        /\ \A l \in named :
                              FindProductBySlug(db', e.patch.text[l], l) = {e.product}
          ]_<<db, edit, requests>>
  BY <1>1
<1> QED
  BY <1>2, Invariance, PTL DEF Spec, SavedStands

\* A start leaves every row of the catalog as it found it: what the transaction
\* of the seed sees extends what is committed, step by step, and nothing else
\* commits while it runs.
THEOREM SeedKeepsTheCatalog == Spec => SeedOnlyAdds
<1>1. IInv /\ CommitSeed =>
          /\ \A p \in DOMAIN db.product :
                p \in DOMAIN db'.product /\ db'.product[p] = db.product[p]
          /\ \A c \in DOMAIN db.category :
                c \in DOMAIN db'.category /\ db'.category[c] = db.category[c]
          /\ db.link \subseteq db'.link /\ db.stocked \subseteq db'.stocked
  BY DEF IInv, PhaseInv, Extends, CommitSeed
<1> QED
  BY <1>1, Invariance, PTL DEF Spec, SeedOnlyAdds

-----------------------------------------------------------------------------
(* What the migration builds, against what the models declare.             *)

\* The members of a sequence.
Members(s) == {s[i] : i \in DOMAIN s}

\* Joined sequences have the members of both.
LEMMA MembersOfConcat ==
    ASSUME NEW S, NEW s \in Seq(S), NEW t \in Seq(S)
    PROVE  /\ s \o t \in Seq(S)
           /\ Members(s \o t) = Members(s) \union Members(t)
<1> DEFINE u == s \o t
<1>1. /\ u \in Seq(S) /\ Len(s) \in Nat /\ Len(t) \in Nat
      /\ Len(u) = Len(s) + Len(t)
      /\ DOMAIN u = 1 .. Len(u) /\ DOMAIN s = 1 .. Len(s) /\ DOMAIN t = 1 .. Len(t)
  OBVIOUS
<1>2. ASSUME NEW i \in DOMAIN s
      PROVE  i \in DOMAIN u /\ u[i] = s[i]
  BY <1>1
<1>3. ASSUME NEW i \in DOMAIN t
      PROVE  Len(s) + i \in DOMAIN u /\ u[Len(s) + i] = t[i]
  BY <1>1
<1>4. ASSUME NEW i \in DOMAIN u
      PROVE  \/ i \in DOMAIN s /\ u[i] = s[i]
             \/ i - Len(s) \in DOMAIN t /\ u[i] = t[i - Len(s)]
  BY <1>1
<1> HIDE DEF u
<1>5. Members(u) \subseteq Members(s) \union Members(t)
  BY <1>4 DEF Members
<1>6. Members(s) \union Members(t) \subseteq Members(u)
  BY <1>2, <1>3 DEF Members
<1> QED
  BY <1>1, <1>5, <1>6 DEF u

\* The four parts of the migration: the tables and the keys of each.
LEMMA CreateReferenceMembers ==
    /\ CreateReference \in Seq(Members(CreateReference))
    /\ {e.table : e \in Members(CreateReference)} =
           {"admin_user", "category", "currency", "locale", "media",
           "orders", "product", "category_translation", "exchange_rate"}
    /\ UNION {e.keys : e \in Members(CreateReference)} =
           SetNull("category", "category")
               \union Cascade("category_translation", {"category", "locale"})
               \union Cascade("exchange_rate", {"currency"})
<1>1. Members(CreateReference) =
          {Bare("admin_user"),
          Table("category", SetNull("category", "category")),
          Bare("currency"), Bare("locale"), Bare("media"), Bare("orders"),
          Bare("product"),
          Table("category_translation", Cascade("category_translation", {"category", "locale"})),
          Table("exchange_rate", Cascade("exchange_rate", {"currency"}))}
  BY DEF Members, CreateReference
<1>2. \A name, keys : Table(name, keys).table = name /\ Table(name, keys).keys = keys
  BY DEF Table
<1>3. CreateReference \in Seq(Members(CreateReference))
  BY <1>1 DEF CreateReference
<1> QED
  BY <1>1, <1>2, <1>3 DEF Bare

LEMMA CreateCatalogMembers ==
    /\ CreateCatalog \in Seq(Members(CreateCatalog))
    /\ {e.table : e \in Members(CreateCatalog)} =
           {"order_event", "order_line", "product_category",
           "product_option", "product_translation", "product_variant",
           "region"}
    /\ UNION {e.keys : e \in Members(CreateCatalog)} =
           Cascade("order_event", {"orders"})
               \union Cascade("order_line", {"orders"})
               \union Cascade("product_category", {"category", "product"})
               \union Cascade("product_option", {"product"})
               \union Cascade("product_translation", {"locale", "product"})
               \union Cascade("product_variant", {"product"})
               \union NoAction("region", {"currency"})
<1>1. Members(CreateCatalog) =
          {Table("order_event", Cascade("order_event", {"orders"})),
          Table("order_line", Cascade("order_line", {"orders"})),
          Table("product_category", Cascade("product_category", {"category", "product"})),
          Table("product_option", Cascade("product_option", {"product"})),
          Table("product_translation", Cascade("product_translation", {"locale", "product"})),
          Table("product_variant", Cascade("product_variant", {"product"})),
          Table("region", NoAction("region", {"currency"}))}
  BY DEF Members, CreateCatalog
<1>2. \A name, keys : Table(name, keys).table = name /\ Table(name, keys).keys = keys
  BY DEF Table
<1>3. CreateCatalog \in Seq(Members(CreateCatalog))
  BY <1>1 DEF CreateCatalog
<1> QED
  BY <1>1, <1>2, <1>3 DEF Bare

LEMMA CreateShopMembers ==
    /\ CreateShop \in Seq(Members(CreateShop))
    /\ {e.table : e \in Members(CreateShop)} =
           {"cart", "inventory_item", "option_value",
           "product_option_translation", "region_locale",
           "region_payment_method"}
    /\ UNION {e.keys : e \in Members(CreateShop)} =
           NoAction("cart", {"currency", "region"})
               \union Cascade("inventory_item", {"product_variant"})
               \union Cascade("option_value", {"product_option"})
               \union Cascade("product_option_translation", {"locale", "product_option"})
               \union Cascade("region_locale", {"locale", "region"})
               \union Cascade("region_payment_method", {"region"})
<1>1. Members(CreateShop) =
          {Table("cart", NoAction("cart", {"currency", "region"})),
          Table("inventory_item", Cascade("inventory_item", {"product_variant"})),
          Table("option_value", Cascade("option_value", {"product_option"})),
          Table("product_option_translation", Cascade("product_option_translation", {"locale", "product_option"})),
          Table("region_locale", Cascade("region_locale", {"locale", "region"})),
          Table("region_payment_method", Cascade("region_payment_method", {"region"}))}
  BY DEF Members, CreateShop
<1>2. \A name, keys : Table(name, keys).table = name /\ Table(name, keys).keys = keys
  BY DEF Table
<1>3. CreateShop \in Seq(Members(CreateShop))
  BY <1>1 DEF CreateShop
<1> QED
  BY <1>1, <1>2, <1>3 DEF Bare

LEMMA CreateLinksMembers ==
    /\ CreateLinks \in Seq(Members(CreateLinks))
    /\ {e.table : e \in Members(CreateLinks)} =
           {"stock_movement", "variant_price", "cart_line",
           "option_value_translation", "variant_option_value"}
    /\ UNION {e.keys : e \in Members(CreateLinks)} =
           Cascade("stock_movement", {"product_variant"})
               \union Cascade("variant_price", {"product_variant"}) \union NoAction("variant_price", {"currency"})
               \union Cascade("cart_line", {"cart", "product_variant"})
               \union Cascade("option_value_translation", {"locale", "option_value"})
               \union Cascade("variant_option_value", {"option_value", "product_variant"})
<1>1. Members(CreateLinks) =
          {Table("stock_movement", Cascade("stock_movement", {"product_variant"})),
          Table("variant_price", Cascade("variant_price", {"product_variant"}) \union NoAction("variant_price", {"currency"})),
          Table("cart_line", Cascade("cart_line", {"cart", "product_variant"})),
          Table("option_value_translation", Cascade("option_value_translation", {"locale", "option_value"})),
          Table("variant_option_value", Cascade("variant_option_value", {"option_value", "product_variant"}))}
  BY DEF Members, CreateLinks
<1>2. \A name, keys : Table(name, keys).table = name /\ Table(name, keys).keys = keys
  BY DEF Table
<1>3. CreateLinks \in Seq(Members(CreateLinks))
  BY <1>1 DEF CreateLinks
<1> QED
  BY <1>1, <1>2, <1>3 DEF Bare

\* The tables of the migration are those of its four parts.
LEMMA CreationMembers ==
    Members(Creation) = Members(CreateReference) \union Members(CreateCatalog)
        \union Members(CreateShop) \union Members(CreateLinks)
<1> DEFINE S == Members(CreateReference) \union Members(CreateCatalog)
                    \union Members(CreateShop) \union Members(CreateLinks)
<1>1. /\ CreateReference \in Seq(S) /\ CreateCatalog \in Seq(S)
      /\ CreateShop \in Seq(S) /\ CreateLinks \in Seq(S)
  <2>1. ASSUME NEW A, NEW s \in Seq(A), A \subseteq S
        PROVE  s \in Seq(S)
    <3> HIDE DEF S
    <3> QED
      BY <2>1
  <2> QED
    BY <2>1, CreateReferenceMembers, CreateCatalogMembers, CreateShopMembers,
       CreateLinksMembers
<1> HIDE DEF S
<1>2. LET rc == CreateReference \o CreateCatalog
      IN  /\ rc \in Seq(S)
          /\ Members(rc) = Members(CreateReference) \union Members(CreateCatalog)
  BY <1>1, MembersOfConcat
<1> DEFINE rc == CreateReference \o CreateCatalog
           rcs == rc \o CreateShop
<1>3. /\ rcs \in Seq(S)
      /\ Members(rcs) = Members(CreateReference) \union Members(CreateCatalog)
                            \union Members(CreateShop)
  <2>1. rc \in Seq(S)
    BY <1>2
  <2> HIDE DEF rc
  <2>2. /\ rcs \in Seq(S)
        /\ Members(rcs) = Members(rc) \union Members(CreateShop)
    BY <1>1, <2>1, MembersOfConcat
  <2> QED
    BY <1>2, <2>2 DEF rc
<1> HIDE DEF rcs
<1>4. Members(rcs \o CreateLinks) = Members(rcs) \union Members(CreateLinks)
  BY <1>1, <1>3, MembersOfConcat
<1>5. Creation = rcs \o CreateLinks
  BY DEF Creation, rcs
<1> QED
  BY <1>3, <1>4, <1>5

\* What the migration has built: every table, with the keys of the models.
LEMMA MigrationBuilds ==
    /\ MigratedTables =
           {"admin_user", "category", "currency", "locale", "media", "orders",
            "product", "category_translation", "exchange_rate", "order_event",
            "order_line", "product_category", "product_option",
            "product_translation", "product_variant", "region", "cart",
            "inventory_item", "option_value", "product_option_translation",
            "region_locale", "region_payment_method", "stock_movement",
            "variant_price", "cart_line", "option_value_translation",
            "variant_option_value"}
    /\ MigratedKeys = ModelKeys
<1>1. /\ MigratedTables = {e.table : e \in Members(Creation)}
      /\ MigratedKeys = UNION {e.keys : e \in Members(Creation)}
  BY DEF MigratedTables, MigratedKeys, Members
<1>2. MigratedTables =
          {e.table : e \in Members(CreateReference)}
              \union {e.table : e \in Members(CreateCatalog)}
              \union {e.table : e \in Members(CreateShop)}
              \union {e.table : e \in Members(CreateLinks)}
  BY <1>1, CreationMembers
<1>3. MigratedKeys =
          (UNION {e.keys : e \in Members(CreateReference)})
              \union (UNION {e.keys : e \in Members(CreateCatalog)})
              \union (UNION {e.keys : e \in Members(CreateShop)})
              \union (UNION {e.keys : e \in Members(CreateLinks)})
  BY <1>1, CreationMembers
<1>4. MigratedKeys = ModelKeys
  <2>1. /\ {"product", "locale"} = {"locale", "product"}
        /\ {"product_option", "locale"} = {"locale", "product_option"}
        /\ {"option_value", "locale"} = {"locale", "option_value"}
        /\ {"product_variant", "option_value"} = {"option_value", "product_variant"}
        /\ {"category", "locale"} = {"locale", "category"}
        /\ {"product", "category"} = {"category", "product"}
        /\ {"region", "currency"} = {"currency", "region"}
        /\ {"region", "locale"} = {"locale", "region"}
    OBVIOUS
  <2>2. ModelKeys = ProductKeys \union OptionKeys \union CategoryKeys \union
                        StockKeys \union CartKeys \union OrderKeys \union
                        RateKeys \union RegionKeys
    BY DEF ModelKeys
  <2>3. /\ ProductKeys \subseteq MigratedKeys
        /\ OptionKeys \subseteq MigratedKeys
    BY <1>3, <2>1, CreateReferenceMembers, CreateCatalogMembers,
       CreateShopMembers, CreateLinksMembers DEF ProductKeys, OptionKeys, Translation
  <2>4. /\ CategoryKeys \subseteq MigratedKeys
        /\ StockKeys \subseteq MigratedKeys
        /\ CartKeys \subseteq MigratedKeys
    BY <1>3, <2>1, CreateReferenceMembers, CreateCatalogMembers,
       CreateShopMembers, CreateLinksMembers
       DEF CategoryKeys, StockKeys, CartKeys, Translation
  <2>5. /\ OrderKeys \subseteq MigratedKeys
        /\ RateKeys \subseteq MigratedKeys
        /\ RegionKeys \subseteq MigratedKeys
    BY <1>3, <2>1, CreateReferenceMembers, CreateCatalogMembers,
       CreateShopMembers, CreateLinksMembers DEF OrderKeys, RateKeys, RegionKeys
  <2>6. /\ UNION {e.keys : e \in Members(CreateReference)} \subseteq ModelKeys
        /\ UNION {e.keys : e \in Members(CreateCatalog)} \subseteq ModelKeys
    BY <2>1, <2>2, CreateReferenceMembers, CreateCatalogMembers
       DEF ProductKeys, OptionKeys, CategoryKeys, OrderKeys, RateKeys,
           RegionKeys, Translation
  <2>7. /\ UNION {e.keys : e \in Members(CreateShop)} \subseteq ModelKeys
        /\ UNION {e.keys : e \in Members(CreateLinks)} \subseteq ModelKeys
    BY <2>1, <2>2, CreateShopMembers, CreateLinksMembers
       DEF ProductKeys, OptionKeys, StockKeys, CartKeys, RegionKeys, Translation
  <2> QED
    BY <1>3, <2>2, <2>3, <2>4, <2>5, <2>6, <2>7
<1> QED
  BY <1>2, <1>4, CreateReferenceMembers, CreateCatalogMembers,
     CreateShopMembers, CreateLinksMembers
\* A key of the models, group by group.
LEMMA KeyOfModel ==
    ASSUME NEW key \in MigratedKeys
    PROVE  \/ key \in ProductKeys \/ key \in OptionKeys \/ key \in CategoryKeys
           \/ key \in StockKeys \/ key \in CartKeys \/ key \in OrderKeys
           \/ key \in RateKeys \/ key \in RegionKeys
BY MigrationBuilds DEF ModelKeys

\* The ends of a key, and what becomes of the child.
LEMMA CascadeEnds ==
    ASSUME NEW child, NEW parents, NEW key \in Cascade(child, parents)
    PROVE  key.child = child /\ key.parent \in parents /\ key.ondelete = "CASCADE"
BY DEF Cascade

LEMMA NoActionEnds ==
    ASSUME NEW child, NEW parents, NEW key \in NoAction(child, parents)
    PROVE  key.child = child /\ key.parent \in parents /\ key.ondelete = "NO_ACTION"
BY DEF NoAction

LEMMA SetNullEnds ==
    ASSUME NEW child, NEW parent, NEW key \in SetNull(child, parent)
    PROVE  key.child = child /\ key.parent = parent /\ key.ondelete = "SET_NULL"
BY DEF SetNull

\* The keys of the models, spelled out: every child with its parents.
LEMMA KeysSpelled ==
    ASSUME NEW key \in MigratedKeys
    PROVE  \/ /\ key.ondelete = "CASCADE"
              /\ \/ /\ key.child = "product_translation"
                    /\ key.parent \in {"product", "locale"}
                 \/ /\ key.child = "product_variant"
                    /\ key.parent = "product"
                 \/ /\ key.child = "variant_price"
                    /\ key.parent = "product_variant"
                 \/ /\ key.child = "product_option"
                    /\ key.parent = "product"
                 \/ /\ key.child = "product_option_translation"
                    /\ key.parent \in {"product_option", "locale"}
                 \/ /\ key.child = "option_value"
                    /\ key.parent = "product_option"
                 \/ /\ key.child = "option_value_translation"
                    /\ key.parent \in {"option_value", "locale"}
                 \/ /\ key.child = "variant_option_value"
                    /\ key.parent \in {"product_variant", "option_value"}
                 \/ /\ key.child = "category_translation"
                    /\ key.parent \in {"category", "locale"}
                 \/ /\ key.child = "product_category"
                    /\ key.parent \in {"product", "category"}
                 \/ /\ key.child \in {"inventory_item", "stock_movement"}
                    /\ key.parent = "product_variant"
                 \/ /\ key.child = "cart_line"
                    /\ key.parent \in {"cart", "product_variant"}
                 \/ /\ key.child \in {"order_line", "order_event"}
                    /\ key.parent = "orders"
                 \/ /\ key.child = "exchange_rate"
                    /\ key.parent = "currency"
                 \/ /\ key.child = "region_locale"
                    /\ key.parent \in {"region", "locale"}
                 \/ /\ key.child = "region_payment_method"
                    /\ key.parent = "region"
           \/ /\ key.ondelete = "NO_ACTION"
              /\ \/ /\ key.child = "variant_price"
                    /\ key.parent = "currency"
                 \/ /\ key.child = "cart"
                    /\ key.parent \in {"region", "currency"}
                 \/ /\ key.child = "region"
                    /\ key.parent = "currency"
           \/ /\ key.ondelete = "SET_NULL"
              /\ key.child = "category"
              /\ key.parent = "category"
<1>1. CASE key \in ProductKeys
  BY <1>1, CascadeEnds, NoActionEnds, SetNullEnds
     DEF ProductKeys, Translation
<1>2. CASE key \in OptionKeys
  BY <1>2, CascadeEnds, NoActionEnds, SetNullEnds
     DEF OptionKeys, Translation
<1>3. CASE key \in CategoryKeys
  BY <1>3, CascadeEnds, NoActionEnds, SetNullEnds
     DEF CategoryKeys, Translation
<1>4. CASE key \in StockKeys
  BY <1>4, CascadeEnds, NoActionEnds, SetNullEnds
     DEF StockKeys
<1>5. CASE key \in CartKeys
  BY <1>5, CascadeEnds, NoActionEnds, SetNullEnds
     DEF CartKeys
<1>6. CASE key \in OrderKeys
  BY <1>6, CascadeEnds, NoActionEnds, SetNullEnds
     DEF OrderKeys
<1>7. CASE key \in RateKeys
  BY <1>7, CascadeEnds, NoActionEnds, SetNullEnds
     DEF RateKeys
<1>8. CASE key \in RegionKeys
  BY <1>8, CascadeEnds, NoActionEnds, SetNullEnds
     DEF RegionKeys
<1> QED
  BY KeyOfModel, <1>1, <1>2, <1>3, <1>4, <1>5, <1>6, <1>7, <1>8

\* Every key hangs on a table that the migration creates.
LEMMA KeysHaveTables ==
    {key \in MigratedKeys : key.child \in MigratedTables} = ModelKeys
<1>1. ASSUME NEW key \in MigratedKeys
      PROVE  key.child \in MigratedTables
  BY KeysSpelled, MigrationBuilds
<1> QED
  BY <1>1, MigrationBuilds

\* Cascading keys chain at most three deep: product, product_option,
\* option_value, and the translation or the link of a value.
LEMMA ChainsAreShort ==
    ASSUME NEW k1 \in MigratedKeys, NEW k2 \in MigratedKeys,
           NEW k3 \in MigratedKeys, NEW k4 \in MigratedKeys,
           k1.ondelete = "CASCADE", k2.ondelete = "CASCADE",
           k3.ondelete = "CASCADE", k4.ondelete = "CASCADE",
           k2.parent = k1.child, k3.parent = k2.child, k4.parent = k3.child
    PROVE  FALSE
<1> DEFINE Middle == {"product_variant", "product_option", "option_value"}
<1>1. ASSUME NEW k \in MigratedKeys, k.ondelete = "CASCADE"
      PROVE  /\ k.parent \in {"product", "locale", "product_variant",
                              "product_option", "option_value", "category",
                              "cart", "orders", "currency", "region"}
             /\ k.child \in {"product", "locale", "product_variant",
                             "product_option", "option_value", "category",
                             "cart", "orders", "currency", "region"}
                    => k.child \in Middle
             /\ k.parent \in Middle /\ k.child \in Middle
                    => k.parent # "option_value" /\ k.child = "option_value"
  BY <1>1, KeysSpelled
<1>2. /\ k1.child \in Middle /\ k2.child \in Middle /\ k3.child \in Middle
  BY <1>1
<1>3. k2.child = "option_value"
  BY <1>1, <1>2
<1>4. k3.parent # "option_value"
  BY <1>1, <1>2
<1> QED
  BY <1>3, <1>4

\* Four rounds along the cascading keys miss no table.
LEMMA AllSweepsAreWhole == SweepsAreWhole
<1> SUFFICES ASSUME NEW table \in MigratedTables
             PROVE  Along(SweptBy(table)) \subseteq SweptBy(table) \union {table}
  BY DEF SweepsAreWhole
<1> DEFINE A0 == {table}
           A1 == Along(A0)
           A2 == Along(A1)
           A3 == Along(A2)
           A4 == Along(A3)
<1>1. ASSUME NEW A, NEW a \in Along(A), a \notin A
      PROVE  \E k \in MigratedKeys : /\ k.ondelete = "CASCADE"
                                     /\ k.parent \in A
                                     /\ k.child = a
  BY <1>1 DEF Along
<1>2. ASSUME NEW A, NEW k \in MigratedKeys, k.ondelete = "CASCADE",
             k.parent \in A
      PROVE  k.child \in Along(A)
  BY <1>2 DEF Along
<1>3. SweptBy(table) = A4 \ {table}
  BY DEF SweptBy
<1>4. ASSUME NEW A
      PROVE  A \subseteq Along(A)
  BY DEF Along
<1>5. /\ A0 \subseteq A1 /\ A1 \subseteq A2 /\ A2 \subseteq A3 /\ A3 \subseteq A4
  BY <1>4
<1> SUFFICES ASSUME NEW a \in Along(SweptBy(table)), a \notin A4
             PROVE  FALSE
  BY <1>3
<1>6. PICK k4 \in MigratedKeys : /\ k4.ondelete = "CASCADE"
                                 /\ k4.parent \in A4
                                 /\ k4.child = a
  <2>1. a \notin SweptBy(table)
    BY <1>3
  <2> HIDE DEF A4
  <2> QED
    BY <2>1, <1>1, <1>3
<1>7. k4.parent \notin A3
  BY <1>2, <1>6
<1>8. PICK k3 \in MigratedKeys : /\ k3.ondelete = "CASCADE"
                                 /\ k3.parent \in A3
                                 /\ k3.child = k4.parent
  <2> HIDE DEF A3
  <2> QED
    BY <1>1, <1>6, <1>7
<1>9. k3.parent \notin A2
  <2> HIDE DEF A2
  <2> QED
    BY <1>2, <1>7, <1>8
<1>10. PICK k2 \in MigratedKeys : /\ k2.ondelete = "CASCADE"
                                  /\ k2.parent \in A2
                                  /\ k2.child = k3.parent
  <2> HIDE DEF A2
  <2> QED
    BY <1>1, <1>8, <1>9
<1>11. k2.parent \notin A1
  <2> HIDE DEF A1
  <2> QED
    BY <1>2, <1>9, <1>10
<1>12. PICK k1 \in MigratedKeys : /\ k1.ondelete = "CASCADE"
                                  /\ k1.parent \in A1
                                  /\ k1.child = k2.parent
  <2> HIDE DEF A1
  <2> QED
    BY <1>1, <1>10, <1>11
<1> QED
  BY <1>6, <1>8, <1>10, <1>12, ChainsAreShort

\* The migration's downgrade drops every table before its parents.
LEMMA DropsChildrenFirst == DropsInOrder
<1> DEFINE order == [i \in DOMAIN DropOrder |-> DropOrder[Len(DropOrder) + 1 - i]]
<1>1. /\ DOMAIN order = 1 .. 27
      /\ order[1] = "admin_user" /\ order[2] = "category"
      /\ order[3] = "currency" /\ order[4] = "locale" /\ order[5] = "media"
      /\ order[6] = "orders" /\ order[7] = "product"
      /\ order[8] = "category_translation" /\ order[9] = "exchange_rate"
      /\ order[10] = "order_event" /\ order[11] = "order_line"
      /\ order[12] = "product_category" /\ order[13] = "product_option"
      /\ order[14] = "product_translation" /\ order[15] = "product_variant"
      /\ order[16] = "region" /\ order[17] = "cart"
      /\ order[18] = "inventory_item" /\ order[19] = "option_value"
      /\ order[20] = "product_option_translation"
      /\ order[21] = "region_locale" /\ order[22] = "region_payment_method"
      /\ order[23] = "stock_movement" /\ order[24] = "variant_price"
      /\ order[25] = "cart_line" /\ order[26] = "option_value_translation"
      /\ order[27] = "variant_option_value"
  BY DEF DropOrder
<1> HIDE DEF order
<1>2. ASSUME NEW i \in 1 .. 27, NEW key \in MigratedKeys, key.child = order[i]
      PROVE  \E j \in 1 .. i : order[j] = key.parent
  <2>1. i \in 1 .. 7 \/ i \in 8 .. 14 \/ i \in 15 .. 21 \/ i \in 22 .. 27
    OBVIOUS
  <2>2. CASE i \in 1 .. 7
    <3>1. i \in {1, 2, 3, 4, 5, 6, 7}
      BY <2>2
    <3>2. key.child \in {"admin_user", "category", "currency", "locale", "media",
                         "orders", "product"}
      BY <3>1, <1>1, <1>2
    <3>3. key.child = "category" /\ key.parent = "category"
      BY <3>2, KeysSpelled
    <3> QED
      BY <3>3, <1>2
  <2>3. CASE i \in 8 .. 14
    <3>1. i \in {8, 9, 10, 11, 12, 13, 14}
      BY <2>3
    <3>2. CASE i = 8
      <4>1. key.child = "category_translation"
        BY <3>2, <1>1, <1>2
      <4>2. key.parent \in {"category", "locale"}
        BY <4>1, KeysSpelled
      <4> QED
        BY <3>2, <4>2, <1>1
    <3>3. CASE i = 9
      <4>1. key.child = "exchange_rate"
        BY <3>3, <1>1, <1>2
      <4>2. key.parent \in {"currency"}
        BY <4>1, KeysSpelled
      <4> QED
        BY <3>3, <4>2, <1>1
    <3>4. CASE i = 10
      <4>1. key.child = "order_event"
        BY <3>4, <1>1, <1>2
      <4>2. key.parent \in {"orders"}
        BY <4>1, KeysSpelled
      <4> QED
        BY <3>4, <4>2, <1>1
    <3>5. CASE i = 11
      <4>1. key.child = "order_line"
        BY <3>5, <1>1, <1>2
      <4>2. key.parent \in {"orders"}
        BY <4>1, KeysSpelled
      <4> QED
        BY <3>5, <4>2, <1>1
    <3>6. CASE i = 12
      <4>1. key.child = "product_category"
        BY <3>6, <1>1, <1>2
      <4>2. key.parent \in {"product", "category"}
        BY <4>1, KeysSpelled
      <4> QED
        BY <3>6, <4>2, <1>1
    <3>7. CASE i = 13
      <4>1. key.child = "product_option"
        BY <3>7, <1>1, <1>2
      <4>2. key.parent \in {"product"}
        BY <4>1, KeysSpelled
      <4> QED
        BY <3>7, <4>2, <1>1
    <3>8. CASE i = 14
      <4>1. key.child = "product_translation"
        BY <3>8, <1>1, <1>2
      <4>2. key.parent \in {"product", "locale"}
        BY <4>1, KeysSpelled
      <4> QED
        BY <3>8, <4>2, <1>1
    <3> QED
      BY <3>1, <3>2, <3>3, <3>4, <3>5, <3>6, <3>7, <3>8
  <2>4. CASE i \in 15 .. 21
    <3>1. i \in {15, 16, 17, 18, 19, 20, 21}
      BY <2>4
    <3>2. CASE i = 15
      <4>1. key.child = "product_variant"
        BY <3>2, <1>1, <1>2
      <4>2. key.parent \in {"product"}
        BY <4>1, KeysSpelled
      <4> QED
        BY <3>2, <4>2, <1>1
    <3>3. CASE i = 16
      <4>1. key.child = "region"
        BY <3>3, <1>1, <1>2
      <4>2. key.parent \in {"currency"}
        BY <4>1, KeysSpelled
      <4> QED
        BY <3>3, <4>2, <1>1
    <3>4. CASE i = 17
      <4>1. key.child = "cart"
        BY <3>4, <1>1, <1>2
      <4>2. key.parent \in {"region", "currency"}
        BY <4>1, KeysSpelled
      <4> QED
        BY <3>4, <4>2, <1>1
    <3>5. CASE i = 18
      <4>1. key.child = "inventory_item"
        BY <3>5, <1>1, <1>2
      <4>2. key.parent \in {"product_variant"}
        BY <4>1, KeysSpelled
      <4> QED
        BY <3>5, <4>2, <1>1
    <3>6. CASE i = 19
      <4>1. key.child = "option_value"
        BY <3>6, <1>1, <1>2
      <4>2. key.parent \in {"product_option"}
        BY <4>1, KeysSpelled
      <4> QED
        BY <3>6, <4>2, <1>1
    <3>7. CASE i = 20
      <4>1. key.child = "product_option_translation"
        BY <3>7, <1>1, <1>2
      <4>2. key.parent \in {"product_option", "locale"}
        BY <4>1, KeysSpelled
      <4> QED
        BY <3>7, <4>2, <1>1
    <3>8. CASE i = 21
      <4>1. key.child = "region_locale"
        BY <3>8, <1>1, <1>2
      <4>2. key.parent \in {"region", "locale"}
        BY <4>1, KeysSpelled
      <4> QED
        BY <3>8, <4>2, <1>1
    <3> QED
      BY <3>1, <3>2, <3>3, <3>4, <3>5, <3>6, <3>7, <3>8
  <2>5. CASE i \in 22 .. 27
    <3>1. i \in {22, 23, 24, 25, 26, 27}
      BY <2>5
    <3>2. CASE i = 22
      <4>1. key.child = "region_payment_method"
        BY <3>2, <1>1, <1>2
      <4>2. key.parent \in {"region"}
        BY <4>1, KeysSpelled
      <4> QED
        BY <3>2, <4>2, <1>1
    <3>3. CASE i = 23
      <4>1. key.child = "stock_movement"
        BY <3>3, <1>1, <1>2
      <4>2. key.parent \in {"product_variant"}
        BY <4>1, KeysSpelled
      <4> QED
        BY <3>3, <4>2, <1>1
    <3>4. CASE i = 24
      <4>1. key.child = "variant_price"
        BY <3>4, <1>1, <1>2
      <4>2. key.parent \in {"product_variant", "currency"}
        BY <4>1, KeysSpelled
      <4> QED
        BY <3>4, <4>2, <1>1
    <3>5. CASE i = 25
      <4>1. key.child = "cart_line"
        BY <3>5, <1>1, <1>2
      <4>2. key.parent \in {"cart", "product_variant"}
        BY <4>1, KeysSpelled
      <4> QED
        BY <3>5, <4>2, <1>1
    <3>6. CASE i = 26
      <4>1. key.child = "option_value_translation"
        BY <3>6, <1>1, <1>2
      <4>2. key.parent \in {"option_value", "locale"}
        BY <4>1, KeysSpelled
      <4> QED
        BY <3>6, <4>2, <1>1
    <3>7. CASE i = 27
      <4>1. key.child = "variant_option_value"
        BY <3>7, <1>1, <1>2
      <4>2. key.parent \in {"product_variant", "option_value"}
        BY <4>1, KeysSpelled
      <4> QED
        BY <3>7, <4>2, <1>1
    <3> QED
      BY <3>1, <3>2, <3>3, <3>4, <3>5, <3>6, <3>7
  <2> QED
    BY <2>1, <2>2, <2>3, <2>4, <2>5
<1> QED
  <2>1. DropsInOrder <=> ParentsFirst(order)
    BY DEF DropsInOrder, order
  <2>2. ParentsFirst(order) <=>
            \A i \in 1 .. 27 : \A key \in MigratedKeys :
                key.child = order[i] => \E j \in 1 .. i : order[j] = key.parent
    BY <1>1 DEF ParentsFirst
  <2> QED
    BY <2>1, <2>2, <1>2

\* What the migration builds is what the models declare, key for key; it can be
\* undone; and a deletion sweeps all that hangs below the row.
THEOREM MigrationIsTheModels == Spec => []SchemaAgrees
<1>1. IInv => SchemaAgrees
  <2>1. IInv => db.tables \in {{}, MigratedTables}
    BY DEF IInv, DbInv
  <2> QED
    BY <2>1, KeysHaveTables, DropsChildrenFirst, AllSweepsAreWhole DEF SchemaAgrees
<1> QED
  BY <1>1, Invariance, PTL

=============================================================================
