------------------------------- MODULE Rates -------------------------------
(***************************************************************************)
(* The stored exchange rates against the base currency, and the jobs that  *)
(* write them: refreshes by the worker or an administrator, an             *)
(* administrator's override of one rate, and the seed, which runs at every *)
(* start of the API before it serves.  Every job is one transaction at     *)
(* READ COMMITTED that upserts row after row and then commits.             *)
(***************************************************************************)
EXTENDS Naturals, Sequences

CONSTANTS
    Quotes,         \* tracked currencies other than the base
    ProviderOrder,  \* the quotes the provider answers with, in that order
    FallbackOrder,  \* the quotes of FALLBACK_RATES, in that order
    Admins,         \* requests of administrators to the API
    Worker,         \* the job of the worker, one at a time
    Seeder,         \* the seed of a starting API
    NoJob,          \* the holder of a row that nobody has locked
    MaxEdition      \* bound on the rates the provider publishes

Listed(order) == {order[i] : i \in 1 .. Len(order)}

Api == Admins \union {Seeder}
Jobs == Api \union {Worker}

ASSUME RatesAssumption ==
    /\ ProviderOrder \in Seq(Quotes)
    /\ FallbackOrder \in Seq(Quotes)
    /\ Worker \notin Api
    /\ Seeder \notin Admins
    /\ NoJob \notin Jobs
    /\ MaxEdition \in Nat

VARIABLES
    edition,    \* the latest rates the provider has published
    rows,       \* committed row of each quote, or NoRow
    draft,      \* its version as the holder of its lock has flushed it
    lock,       \* holder of the row: who has updated or inserted it
    req,        \* what each job is doing
    serving,    \* has the API finished to start?
    seeded,     \* are the rows of the currencies committed?
    overlapped  \* have two jobs been in service at once? (history)

vars == <<edition, rows, draft, lock, req, serving, seeded, overlapped>>

-----------------------------------------------------------------------------

\* The rate is told apart by where it comes from.
Row(source, n) == [source |-> source, rate |-> <<source, n>>]

NoRow == Row("none", 0)
Manual == Row("manual", 0)
Fallback == Row("seed-fallback", 0)
Live(n) == Row("provider", n)

Sources == {"manual", "seed-fallback", "provider"}
Stored == [source : Sources, rate : Sources \X Nat]

\* todo are the quotes still to be upserted with row; seen is the first of
\* them as the job has loaded it; keep leaves alone those that are found.
At(phase, todo, row, seen, keep) ==
    [phase |-> phase, todo |-> todo, row |-> row, seen |-> seen, keep |-> keep]

Upsertion ==
    [phase : {"check", "look", "write"}, todo : Seq(Quotes), row : Stored,
     seen : Stored \union {NoRow}, keep : BOOLEAN]

\* The loop of the seed looks before upsert_rate does.
Upserting(todo, row, keep) ==
    At(IF row = Fallback THEN "check" ELSE "look", todo, row, NoRow, keep)

Idle == [phase |-> "idle"]
Fetching == [phase |-> "fetch"]

InService(j) == req[j] # Idle

Init ==
    /\ edition = 0
    /\ rows = [q \in Quotes |-> NoRow]
    /\ draft = rows
    /\ lock = [q \in Quotes |-> NoJob]
    /\ req = [j \in Jobs |-> Idle]
    /\ serving = FALSE
    /\ seeded = FALSE
    /\ overlapped = FALSE

-----------------------------------------------------------------------------
(* The provider.                                                           *)

Publish ==
    /\ edition < MaxEdition
    /\ edition' = edition + 1
    /\ UNCHANGED <<rows, draft, lock, req, serving, seeded, overlapped>>

-----------------------------------------------------------------------------
(* Jobs begin.                                                             *)

Begin(j, request) ==
    /\ ~InService(j)
    /\ req' = [req EXCEPT ![j] = request]
    /\ overlapped' = (overlapped \/ \E i \in Jobs \ {j} : InService(i))
    /\ UNCHANGED <<edition, rows, draft, lock, serving, seeded>>

\* The cron job, or POST /admin/settings/exchange-rates/refresh.
BeginRefresh(j) ==
    /\ j = Worker \/ (j \in Admins /\ serving)
    /\ Begin(j, Fetching)

\* PUT /admin/settings/exchange-rates.
BeginOverride(j, q) ==
    /\ j \in Admins /\ serving
    /\ Begin(j, Upserting(<<q>>, Manual, FALSE))

\* python -m app.seed.
BeginSeed == ~serving /\ Begin(Seeder, Fetching)

\* python -m app.seed --skip-rates.
BeginOfflineSeed ==
    /\ ~serving
    /\ Begin(Seeder, Upserting(FallbackOrder, Fallback, TRUE))

-----------------------------------------------------------------------------
(* The answer of the provider.                                             *)

\* (A mistaken form of each definition named Mutant... stands before it.)
MutantFetchCached(j) ==
    /\ req[j] = Fetching
    /\ \E n \in 0 .. edition :
          req' = [req EXCEPT ![j] =
                    Upserting(ProviderOrder, Live(n), FALSE)]
    /\ UNCHANGED <<edition, rows, draft, lock, serving, seeded, overlapped>>

Fetch(j) ==
    /\ req[j] = Fetching
    /\ req' = [req EXCEPT ![j] =
                  Upserting(ProviderOrder, Live(edition), FALSE)]
    /\ UNCHANGED <<edition, rows, draft, lock, serving, seeded, overlapped>>

Unlocked(j) == [q \in Quotes |-> IF lock[q] = j THEN NoJob ELSE lock[q]]

RollBack(j) ==
    /\ req' = [req EXCEPT ![j] = Idle]
    /\ lock' = Unlocked(j)
    /\ draft' = [q \in Quotes |-> IF lock[q] = j THEN rows[q] ELSE draft[q]]

MutantSeedGivesUp(j) ==
    /\ req[j] = Fetching
    /\ req' = [req EXCEPT ![j] =
                  IF j = Seeder
                  THEN Upserting(<<>>, Fallback, FALSE)
                  ELSE Idle]
    /\ UNCHANGED <<edition, rows, draft, lock, serving, seeded, overlapped>>

\* EXCHANGE_RATE_UNAVAILABLE: a refresh ends, the seed falls back.
FetchFails(j) ==
    /\ req[j] = Fetching
    /\ req' = [req EXCEPT ![j] =
                  IF j = Seeder
                  THEN Upserting(FallbackOrder, Fallback, FALSE)
                  ELSE Idle]
    /\ UNCHANGED <<edition, rows, draft, lock, serving, seeded, overlapped>>

-----------------------------------------------------------------------------
(* upsert_rate, row by row.                                                *)

\* What get_rate returns: the committed row, or the job's own version of it.
Seen(j) ==
    LET q == Head(req[j].todo) IN IF lock[q] = j THEN draft[q] ELSE rows[q]

Advance(j, phase, seen) ==
    /\ req' = [req EXCEPT ![j] = At(phase, @.todo, @.row, seen, @.keep)]
    /\ UNCHANGED <<edition, rows, draft, lock, serving, seeded, overlapped>>

NextQuote(j) == Upserting(Tail(req[j].todo), req[j].row, req[j].keep)

Pending(j, phase) == req[j].phase = phase /\ req[j].todo # <<>>

\* The look of seed_exchange_rates; upsert_rate looks again for a row that
\* was missing, and for one that is loaded finds the same object.
CheckMissing(j) == Pending(j, "check") /\ Seen(j) = NoRow /\ Advance(j, "look", NoRow)

CheckFound(j) ==
    /\ Pending(j, "check") /\ Seen(j) # NoRow /\ ~req[j].keep
    /\ Advance(j, "write", Seen(j))

Skip(j) ==
    /\ Pending(j, "check") /\ Seen(j) # NoRow /\ req[j].keep
    /\ req' = [req EXCEPT ![j] = NextQuote(j)]
    /\ UNCHANGED <<edition, rows, draft, lock, serving, seeded, overlapped>>

\* Only the seed inserts the currencies, and it alone finds those that it has
\* not committed.
Known(j) == seeded \/ j = Seeder

FromProvider(j) == req[j].row.source = "provider"

Look(j) ==
    /\ Pending(j, "look")
    /\ FromProvider(j) => Known(j)
    /\ Advance(j, "write", Seen(j))

\* A refresh passes over a quote that is no currency of the store.
SkipUnknown(j) ==
    /\ Pending(j, "look") /\ FromProvider(j) /\ ~Known(j)
    /\ req' = [req EXCEPT ![j] = NextQuote(j)]
    /\ UNCHANGED <<edition, rows, draft, lock, serving, seeded, overlapped>>

Writable(j) ==
    /\ req[j].phase = "write"
    /\ lock[Head(req[j].todo)] \in {NoJob, j}

\* The flush names only the columns that differ from what was loaded.
Flushed(old, seen, row) ==
    [source |-> IF row.source = seen.source THEN old.source ELSE row.source,
     rate |-> IF row.rate = seen.rate THEN old.rate ELSE row.rate]

Inserts(j) == req[j].seen = NoRow

MutantWriteThrough(j) ==
    /\ Writable(j)
    /\ LET q == Head(req[j].todo)
       IN  /\ rows' = [rows EXCEPT ![q] = req[j].row]
           /\ draft' = [draft EXCEPT ![q] = req[j].row]
    /\ req' = [req EXCEPT ![j] = NextQuote(j)]
    /\ UNCHANGED <<edition, lock, serving, seeded, overlapped>>

MutantWriteOn(j) ==
    /\ Writable(j)
    /\ LET q == Head(req[j].todo)
       IN  /\ lock' = [lock EXCEPT ![q] = j]
           /\ draft' = [draft EXCEPT ![q] = req[j].row]
    /\ req' = [req EXCEPT ![j].todo = Tail(@)]
    /\ UNCHANGED <<edition, rows, serving, seeded, overlapped>>

\* An UPDATE of the row that was found, or the INSERT of one.
Write(j) ==
    /\ Writable(j)
    /\ LET q == Head(req[j].todo)
       IN  /\ ~(Inserts(j) /\ draft[q] # NoRow)
           /\ lock' = [lock EXCEPT ![q] = j]
           /\ draft' = [draft EXCEPT ![q] = Flushed(@, req[j].seen, req[j].row)]
    /\ req' = [req EXCEPT ![j] = NextQuote(j)]
    /\ UNCHANGED <<edition, rows, serving, seeded, overlapped>>

\* Another job has inserted the row since: the INSERT violates the key.
KeyTaken(j) ==
    /\ Writable(j)
    /\ Inserts(j) /\ draft[Head(req[j].todo)] # NoRow
    /\ RollBack(j)
    /\ UNCHANGED <<edition, rows, serving, seeded, overlapped>>

-----------------------------------------------------------------------------
(* Jobs end.                                                               *)

Done(j) == req[j].phase \in {"check", "look"} /\ req[j].todo = <<>>

Commit(j) ==
    /\ Done(j)
    /\ rows' = [q \in Quotes |-> IF lock[q] = j THEN draft[q] ELSE rows[q]]
    /\ lock' = Unlocked(j)
    /\ req' = [req EXCEPT ![j] = Idle]
    /\ serving' = (serving \/ j = Seeder)
    /\ seeded' = (seeded \/ j = Seeder)
    /\ UNCHANGED <<edition, draft, overlapped>>

\* The job fails: its process stops, it is the victim of a deadlock, or the
\* answer of the provider is not JSON, which nothing catches.
Abandon(j) ==
    /\ InService(j)
    /\ RollBack(j)
    /\ UNCHANGED <<edition, rows, serving, seeded, overlapped>>

\* The API stops, with every request in it, and starts again.
Restart ==
    /\ serving
    /\ serving' = FALSE
    /\ req' = [j \in Jobs |-> IF j \in Api THEN Idle ELSE req[j]]
    /\ lock' = [q \in Quotes |-> IF lock[q] \in Api THEN NoJob ELSE lock[q]]
    /\ draft' = [q \in Quotes |-> IF lock[q] \in Api THEN rows[q] ELSE draft[q]]
    /\ UNCHANGED <<edition, rows, seeded, overlapped>>

Step(j) ==
    \/ BeginRefresh(j)
    \/ \E q \in Quotes : BeginOverride(j, q)
    \/ Fetch(j) \/ FetchFails(j)
    \/ CheckMissing(j) \/ CheckFound(j) \/ Skip(j)
    \/ Look(j) \/ SkipUnknown(j)
    \/ Write(j) \/ KeyTaken(j)
    \/ Commit(j) \/ Abandon(j)

Next ==
    \/ Publish
    \/ BeginSeed \/ BeginOfflineSeed
    \/ \E j \in Jobs : Step(j)
    \/ Restart

Spec == Init /\ [][Next]_vars

-----------------------------------------------------------------------------
(* Properties.                                                             *)

\* Types of the variables.
TypeOK ==
    /\ edition \in Nat
    /\ rows \in [Quotes -> Stored \union {NoRow}]
    /\ draft \in [Quotes -> Stored \union {NoRow}]
    /\ lock \in [Quotes -> Jobs \union {NoJob}]
    /\ req \in [Jobs -> {Idle, Fetching} \union Upsertion]
    /\ \A j \in Jobs : req[j].phase = "write" => req[j].todo # <<>>
    /\ serving \in BOOLEAN
    /\ seeded \in BOOLEAN
    /\ serving => seeded
    /\ overlapped \in BOOLEAN

\* As long as no two jobs have overlapped, the rates that came from the
\* provider came in one answer, whatever failed on the way: a conversion never
\* mixes two days.
OneEdition ==
    ~overlapped =>
        \A p, q \in Quotes :
            rows[p].source = "provider" /\ rows[q].source = "provider" =>
                rows[p] = rows[q]

\* The API serves with a rate for every currency that both the provider and
\* the fallback table know, whatever failed while it started.
ServedWithRates ==
    serving => \A q \in Listed(ProviderOrder) \intersect Listed(FallbackOrder) :
                  rows[q] # NoRow

\* As long as no two jobs have overlapped, a rate of the provider is never
\* replaced by an older one.
NewestStays ==
    [][\A q \in Quotes :
          ~overlapped /\ rows[q].source = "provider"
              /\ rows'[q].source = "provider" =>
              rows'[q].rate[2] >= rows[q].rate[2]]_vars

\* A rate entered by hand is not wiped by the next automatic refresh, which
\* began after it was entered.
ManualStands ==
    [][\A q \in Quotes :
          ~overlapped /\ Commit(Worker) /\ rows[q] = Manual => rows'[q] = Manual]_vars

\* When the provider is down the stored rates stay in place, though nothing
\* but the start of the API is under way.
StoredStaysPut ==
    [][\A q \in Quotes :
          ~overlapped /\ rows[q] # NoRow /\ rows'[q].source = "seed-fallback" =>
              rows'[q] = rows[q]]_vars

=============================================================================
