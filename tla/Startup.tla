------------------------------ MODULE Startup ------------------------------
(***************************************************************************)
(* A container of the API comes up, serves, and stops: it migrates the     *)
(* database, seeds it in one transaction, serves the administrators of     *)
(* Catalog, and is started again whenever it has stopped.  The exchange    *)
(* rates that a start writes are told apart in Rates; here a currency has  *)
(* one or not.                                                             *)
(***************************************************************************)
EXTENDS Catalog

CONSTANTS
    SeedCategories,  \* the categories that the seed looks for
    SeedProducts,    \* the products that the seed looks for
    Answers          \* the currencies of which an answer of the provider has a
                     \* rate that can be read: not always all that are asked for

ASSUME SeedAssumption ==
    /\ Len(SeedCategories) \in Nat \ {0} /\ Len(SeedProducts) \in Nat
    /\ \A i \in 1 .. Len(SeedProducts) : SeedProducts[i].status \in Statuses

VARIABLES
    phase,  \* what the container is doing
    step,   \* the step of the seed that is next
    view,   \* the database as the transaction of the seed sees it
    ended   \* how the last process ended, or "running"

vars == <<db, edit, requests, phase, step, view, ended>>

-----------------------------------------------------------------------------
(* The data of seed.py.                                                    *)

LOCALES == {Locale("zh-CN", TRUE, 0), Locale("en", FALSE, 1), Locale("ja", FALSE, 2)}

CURRENCIES == {"USD", "CNY", "EUR", "GBP", "JPY"}

FALLBACK_RATES == {"CNY", "EUR", "GBP", "JPY"}

Region(code, currency, is_default, position, locales) ==
    [code |-> code, currency |-> currency, is_default |-> is_default,
     position |-> position, locales |-> locales]

REGIONS ==
    {Region("us", "USD", TRUE, 0, {"en", "zh-CN"}),
     Region("cn", "CNY", FALSE, 1, {"zh-CN", "en"}),
     Region("eu", "EUR", FALSE, 2, {"en"}),
     Region("jp", "JPY", FALSE, 3, {"ja", "en"})}

InAll(languages, slug) == [l \in languages |-> slug]

\* A category has one slug in all its languages, and so has a product.
Heading(slug) == InAll({"zh-CN", "en", "ja"}, slug)

CATEGORIES == <<Heading("apparel"), Heading("footwear")>>

Product(slug, category, skus) ==
    [slug |-> slug, category |-> category, skus |-> skus,
     status |-> "published", text |-> InAll({"zh-CN", "en"}, slug)]

PRODUCTS ==
    <<Product("neon-tee", "apparel", {"NEON-TEE-S", "NEON-TEE-M"}),
      Product("aurora-hoodie", "apparel", {"AURORA-HOODIE-S", "AURORA-HOODIE-L"}),
      Product("pulse-sneakers", "footwear", {"PULSE-SNKR-41", "PULSE-SNKR-43"})>>

-----------------------------------------------------------------------------
(* The steps of the seed, each on the database as its transaction sees it. *)

EmptyDb ==
    [tables |-> {}, locale |-> {}, currency |-> {}, region |-> {}, admin |-> {},
     rate |-> {}, product |-> <<>>, category |-> <<>>, link |-> {}, stocked |-> {}]

\* The foreign keys of the rows that only the seed writes.
ReferencesKept(d) ==
    /\ d.rate \subseteq d.currency
    /\ \A r \in d.region :
          r.currency \in d.currency /\ r.locales \subseteq {l.code : l \in d.locale}

\* session.get by the primary key, and an insert when it finds nothing.
Missing(rows, stored) == {r \in rows : \A other \in stored : other.code # r.code}

SeedLocales(d) == [d EXCEPT !.locale = @ \union Missing(LOCALES, @)]

SeedCurrencies(d) == [d EXCEPT !.currency = @ \union CURRENCIES]

SeedRegions(d) == [d EXCEPT !.region = @ \union Missing(REGIONS, @)]

SeedAdmin(d) == [d EXCEPT !.admin = {"owner"}]

\* Every currency with a rate in answer gets one, unless it is the base or none
\* of the store.
WithRates(d, answer) ==
    [d EXCEPT !.rate = @ \union (answer \intersect (d.currency \ {"USD"}))]

LookedIn == <<ConfiguredLocale, "en", "ja">>

\* A category is looked for in the default locale, then in the others.
SeededCategory(d, slug) ==
    LET found(i) == FindCategoryBySlug(d, slug, LookedIn[i])
        hits == {i \in 1 .. 3 : found(i) # {}}
    IN  IF hits = {} THEN {} ELSE found(CHOOSE i \in hits : \A j \in hits : i <= j)

SeedOneCategory(d, heading) ==
    IF SeededCategory(d, heading[ConfiguredLocale]) # {} THEN d
    ELSE WithCategory(d, NewId(CategoryIds, d.category), heading, NoParent)

MutantSeedOneProduct(d, spec) ==
    LET found == FindProductBySlug(d, spec.slug, ConfiguredLocale)
        id == NewId(ProductIds, d.product)
    IN  IF found # {}
        THEN [d EXCEPT !.product[CHOOSE p \in found : TRUE].status = spec.status]
        ELSE [Created(d, id, spec) EXCEPT
                 !.link = @ \union ({id} \X SeededCategory(d, spec.category))]

\* A product is looked for by its slug in the default locale, and in no other.
SeedOneProduct(d, spec) ==
    LET id == NewId(ProductIds, d.product)
    IN  IF FindProductBySlug(d, spec.slug, ConfiguredLocale) # {} THEN d
        ELSE [Created(d, id, spec) EXCEPT
                 !.link = @ \union ({id} \X SeededCategory(d, spec.category))]

\* When the rates are looked up.
RatesStep == 5

\* The last flush, of the last product.
LastStep == 5 + Len(SeedCategories) + Len(SeedProducts)

MutantSeedStep(d, n) ==
    CASE n = 1 -> SeedRegions(d)
      [] n = 2 -> SeedLocales(d)
      [] n = 3 -> SeedCurrencies(d)
      [] n = 4 -> SeedAdmin(d)
      [] n \in 6 .. 5 + Len(SeedCategories) ->
             SeedOneCategory(d, SeedCategories[n - 5])
      [] n \in 6 + Len(SeedCategories) .. LastStep ->
             SeedOneProduct(d, SeedProducts[n - 5 - Len(SeedCategories)])

\* run_seed, in its order, but for the rates: the categories and the products
\* one by one.
SeedStep(d, n) ==
    CASE n = 1 -> SeedLocales(d)
      [] n = 2 -> SeedCurrencies(d)
      [] n = 3 -> SeedRegions(d)
      [] n = 4 -> SeedAdmin(d)
      [] n \in 6 .. 5 + Len(SeedCategories) ->
             SeedOneCategory(d, SeedCategories[n - 5])
      [] n \in 6 + Len(SeedCategories) .. LastStep ->
             SeedOneProduct(d, SeedProducts[n - 5 - Len(SeedCategories)])

-----------------------------------------------------------------------------
(* The container.                                                          *)

Init ==
    /\ db = EmptyDb /\ view = EmptyDb
    /\ edit = [s \in Sessions |-> Idle]
    /\ requests = 0
    /\ phase = "stopped" /\ step = 0
    /\ ended = "never ran"

\* alembic upgrade head, one transaction: every table or, when the tables are
\* there already, nothing.
Upgrade ==
    /\ phase = "stopped" /\ CreatesInOrder
    /\ db' = [db EXCEPT !.tables = MigratedTables]
    /\ view' = db'
    /\ phase' = "seed" /\ step' = 1
    /\ ended' = "running"
    /\ UNCHANGED <<edit, requests>>

\* alembic downgrade, by hand, while the API is down.
Downgrade ==
    /\ phase = "stopped" /\ db.tables # {} /\ DropsInOrder
    /\ db' = EmptyDb /\ view' = EmptyDb
    /\ ended' = "downgraded"
    /\ UNCHANGED <<edit, requests, phase, step>>

\* A step of the seed flushes what it inserts, against the constraints.
Seed ==
    /\ phase = "seed" /\ step <= LastStep /\ step # RatesStep
    /\ IdsLeft(ProductIds, view.product) /\ IdsLeft(CategoryIds, view.category)
    /\ LET next == SeedStep(view, step)
       IN  Lawful(next) /\ ReferencesKept(next) /\ view' = next
    /\ step' = step + 1
    /\ UNCHANGED <<db, edit, requests, phase, ended>>

\* The provider's rates or, when it has none, those of the table.  An answer
\* without some of the currencies is an answer: the table is not looked up.
SeedRates ==
    /\ phase = "seed" /\ step = RatesStep
    /\ \E answer \in Answers \union {FALLBACK_RATES} : view' = WithRates(view, answer)
    /\ step' = step + 1
    /\ UNCHANGED <<db, edit, requests, phase, ended>>

\* The process ends, and its transaction rolls back.
Exit(reason) ==
    /\ phase' = "stopped" /\ step' = 0
    /\ ended' = reason
    /\ view' = db
    /\ edit' = [s \in Sessions |-> Idle]
    /\ UNCHANGED <<db, requests>>

SeedFails ==
    /\ phase = "seed" /\ step <= LastStep /\ step # RatesStep
    /\ ~(Lawful(SeedStep(view, step)) /\ ReferencesKept(SeedStep(view, step)))
    /\ Exit("seed failed")

\* The provider answers, but not in JSON: nothing catches that.
ProviderGarbled == phase = "seed" /\ step = RatesStep /\ Exit("seed failed")

\* The one commit of run_seed; then uvicorn serves.
CommitSeed ==
    /\ phase = "seed" /\ step = LastStep + 1
    /\ db' = view
    /\ phase' = "serve" /\ step' = 0
    /\ UNCHANGED <<edit, requests, view, ended>>

MutantCrash ==
    /\ phase # "stopped"
    /\ phase' = "stopped" /\ step' = 0
    /\ ended' = "killed"
    /\ db' = view /\ UNCHANGED view
    /\ edit' = [s \in Sessions |-> Idle]
    /\ UNCHANGED requests

\* The process dies or is stopped, with the requests in service.
Crash == phase # "stopped" /\ Exit("killed")

Serve ==
    /\ phase = "serve"
    /\ AdminStep
    /\ view' = db'
    /\ UNCHANGED <<phase, step, ended>>

Next ==
    \/ Upgrade \/ Downgrade
    \/ Seed \/ SeedRates \/ SeedFails \/ ProviderGarbled \/ CommitSeed
    \/ Crash
    \/ Serve

\* restart: unless-stopped brings the container up again, and the provider does
\* not answer garbage every time.
Fairness ==
    /\ WF_vars(Upgrade)
    /\ WF_vars(Seed) /\ SF_vars(SeedRates)
    /\ WF_vars(SeedFails) /\ WF_vars(CommitSeed)

Spec == Init /\ [][Next]_vars

FairSpec == Spec /\ Fairness

-----------------------------------------------------------------------------
(* Properties.                                                             *)

\* Types of the variables.
TypeOK ==
    /\ DOMAIN db = DOMAIN EmptyDb /\ DOMAIN view = DOMAIN EmptyDb
    /\ db.tables \in {{}, MigratedTables}
    /\ \A p \in DOMAIN db.product :
          p \in ProductIds /\ db.product[p].status \in Statuses
    /\ DOMAIN db.category \subseteq CategoryIds
    /\ phase \in {"stopped", "seed", "serve"} /\ step \in 0 .. LastStep + 1
    /\ phase = "stopped" <=> ended # "running"
    /\ requests \in 0 .. MaxRequests
    /\ phase # "serve" => \A s \in Sessions : edit[s] = Idle
    /\ phase # "seed" => view = db
    /\ Lawful(db) /\ ReferencesKept(db)

\* What the migration builds is what the models declare: the same foreign keys,
\* with the same fate of the rows that hang on a deleted one; and the migration
\* can be undone, table by table; no cascade goes deeper than SweptBy follows it.
SchemaAgrees ==
    db.tables # {} =>
        /\ {key \in MigratedKeys : key.child \in db.tables} = ModelKeys
        /\ DropsInOrder /\ SweepsAreWhole

\* The currencies that have a rate whatever the provider answers.
Assured == {c \in FALLBACK_RATES : \A answer \in Answers : c \in answer}

\* The seed leaves all of its reference rows or none, whatever stops it where;
\* of the rates, all that no answer of the provider lacks.
SeededAsOne ==
    \/ <<db.locale, db.currency, db.region, db.admin, db.rate>> = <<{}, {}, {}, {}, {}>>
    \/ /\ db.locale = LOCALES /\ db.currency = CURRENCIES /\ db.region = REGIONS
       /\ db.admin # {} /\ Assured \subseteq db.rate /\ db.rate \subseteq FALLBACK_RATES
       /\ phase = "serve" => db.category # <<>>

\* A start never changes or removes a row of the catalog: it only adds what it
\* does not find.
SeedOnlyAdds ==
    [][CommitSeed =>
          /\ \A p \in DOMAIN db.product :
                p \in DOMAIN db'.product /\ db'.product[p] = db.product[p]
          /\ \A c \in DOMAIN db.category :
                c \in DOMAIN db'.category /\ db'.category[c] = db.category[c]
          /\ db.link \subseteq db'.link /\ db.stocked \subseteq db'.stocked]_vars

\* Every language a client may ask for, by parameter or by header, is answered
\* in one the shop hosts; the catalog service, which resolves the result once
\* more, does not change it; and a language that is hosted is never refused.
\* Every region asked for is answered with one that the shop can charge in.
AnsweredInHosted ==
    phase = "serve" =>
        /\ \A query, header, cookie \in {r.code : r \in REGIONS} \union {NoTag, "fr"} :
              LET region == GetRegion(db.region, query, header, cookie)
              IN  region \in db.region /\ region.currency \in db.currency
        /\ \A query \in Tags \union {NoTag}, header \in UNION {[1 .. n -> Tags] : n \in 0 .. 2} :
              LET locale == GetLocale(db.locale, query, header)
              IN  /\ locale \in Codes(db.locale)
                  /\ ResolveLocale(db.locale, locale) = locale
                  /\ query \in Codes(db.locale) => locale = query

\* The seed cannot succeed: a product that it does not find by its slug in the
\* default language has left its SKUs, or its slug in another language, taken.
Blocked ==
    \E i \in DOMAIN SeedProducts :
        LET spec == SeedProducts[i]
        IN  /\ FindProductBySlug(db, spec.slug, ConfiguredLocale) = {}
            /\ \/ spec.skus \intersect AllSkus(db) # {}
               \/ \E l \in DOMAIN spec.text :
                     FindProductBySlug(db, spec.text[l], l) # {}

Undisturbed == <>[](ended \notin {"killed", "downgraded"})

\* Once nothing interrupts it any more the API comes up, however often the
\* provider answered garbage, unless the catalog blocks the seed.
ServesInTheEnd == Undisturbed => []<>(phase = "serve" \/ Blocked)

\* Bootstrapping on every start is fine: the API comes up.
StartsInTheEnd == Undisturbed => []<>(phase = "serve")

=============================================================================
