---------------------------- MODULE Rates_proof ----------------------------
(***************************************************************************)
(* Theorems of Rates, for any currencies, orders, administrators and       *)
(* editions.                                                               *)
(***************************************************************************)
EXTENDS Rates, TLAPS

Working(r) == r.phase \in {"check", "look", "write"}

\* A row that nobody holds has one version; who holds one is writing.
Locks ==
    \A q \in Quotes :
        /\ lock[q] = NoJob => draft[q] = rows[q]
        /\ lock[q] # NoJob => Working(req[lock[q]]) /\ draft[q] # NoRow

\* A row that was loaded is still there when it is written.
Loaded ==
    \A j \in Jobs :
        req[j].phase = "write" /\ req[j].seen # NoRow =>
            LET q == Head(req[j].todo) IN rows[q] # NoRow \/ lock[q] = j

Base == TypeOK /\ Locks /\ Loaded

-----------------------------------------------------------------------------
(* Sequences and records.                                                  *)

LEMMA ListedNext ==
    ASSUME NEW s \in Seq(Quotes), s # <<>>
    PROVE  /\ Head(s) \in Quotes
           /\ Tail(s) \in Seq(Quotes)
           /\ Listed(s) = {Head(s)} \union Listed(Tail(s))
<1>1. Head(s) \in Quotes /\ Tail(s) \in Seq(Quotes)
  OBVIOUS
<1>2. \A i \in 1 .. Len(s) : i = 1 \/ (i - 1 \in 1 .. Len(Tail(s)) /\ s[i] = Tail(s)[i - 1])
  OBVIOUS
<1>3. \A i \in 1 .. Len(Tail(s)) : i + 1 \in 1 .. Len(s) /\ Tail(s)[i] = s[i + 1]
  OBVIOUS
<1>4. 1 \in 1 .. Len(s) /\ s[1] = Head(s)
  OBVIOUS
<1>5. ASSUME NEW q \in Listed(s)
      PROVE  q \in {Head(s)} \union Listed(Tail(s))
  <2>1. PICK i \in 1 .. Len(s) : q = s[i]
    BY DEF Listed
  <2>2. CASE i = 1
    BY <2>1, <2>2, <1>4
  <2>3. CASE i # 1
    BY <2>1, <2>3, <1>2 DEF Listed
  <2>. QED  BY <2>2, <2>3
<1>6. Listed(Tail(s)) \subseteq Listed(s)
  BY <1>3 DEF Listed
<1>7. Head(s) \in Listed(s)
  BY <1>4 DEF Listed
<1>. QED  BY <1>1, <1>5, <1>6, <1>7

LEMMA ListedNone == Listed(<<>>) = {}
BY DEF Listed

LEMMA RowTypes ==
    /\ Manual \in Stored /\ Fallback \in Stored
    /\ \A n \in Nat : Live(n) \in Stored
    /\ NoRow \notin Stored
    /\ Manual.source = "manual" /\ Fallback.source = "seed-fallback"
    /\ NoRow.source = "none"
BY DEF Manual, Fallback, Live, Row, NoRow, Stored, Sources

\* What a flush leaves.
LEMMA FlushedType ==
    ASSUME NEW old, NEW seen, NEW row \in Stored,
           old \in Stored \/ (old = NoRow /\ seen = NoRow)
    PROVE  Flushed(old, seen, row) \in Stored
<1>1. row.source \in Sources /\ row.rate \in Sources \X Nat
  BY DEF Stored
<1>2. CASE old \in Stored
  BY <1>1, <1>2 DEF Stored, Flushed
<1>3. CASE old = NoRow /\ seen = NoRow
  <2>1. seen.source = "none" /\ seen.rate = <<"none", 0>>
    BY <1>3 DEF NoRow, Row
  <2>2. "none" \notin Sources
    BY DEF Sources
  <2>3. row.source # seen.source /\ row.rate # seen.rate
    BY <1>1, <2>1, <2>2
  <2>. QED  BY <1>1, <2>3 DEF Stored, Flushed
<1>. QED  BY <1>2, <1>3

LEMMA FlushedFresh ==
    ASSUME NEW old, NEW row \in Stored
    PROVE  Flushed(old, old, row) = row
BY DEF Flushed, Stored

LEMMA UpsertingType ==
    ASSUME NEW todo \in Seq(Quotes), NEW row \in Stored, NEW keep \in BOOLEAN
    PROVE  /\ Upserting(todo, row, keep) \in Upsertion
           /\ Upserting(todo, row, keep).todo = todo
           /\ Upserting(todo, row, keep).row = row
           /\ Upserting(todo, row, keep).phase \in {"check", "look"}
BY DEF Upserting, At, Upsertion

\* The fields of a job.
LEMMA JobType ==
    ASSUME TypeOK, NEW j \in Jobs
    PROVE  /\ req[j] = Idle \/ req[j] = Fetching \/ req[j] \in Upsertion
           /\ req[j] \in Upsertion <=> Working(req[j])
           /\ req[j] = Fetching => InService(j)
           /\ Working(req[j]) =>
                 /\ InService(j)
                 /\ req[j].todo \in Seq(Quotes) /\ req[j].row \in Stored
                 /\ req[j].seen \in Stored \union {NoRow}
                 /\ req[j].keep \in BOOLEAN
<1>1. req[j] \in {Idle, Fetching} \union Upsertion
  BY DEF TypeOK
<1>2. Idle.phase = "idle" /\ Fetching.phase = "fetch" /\ Idle # Fetching
  BY DEF Idle, Fetching
<1>3. req[j] \in Upsertion =>
          /\ Working(req[j])
          /\ req[j].todo \in Seq(Quotes) /\ req[j].row \in Stored
          /\ req[j].seen \in Stored \union {NoRow}
          /\ req[j].keep \in BOOLEAN
  BY DEF Upsertion, Working
<1>. QED  BY <1>1, <1>2, <1>3 DEF Working, InService

LEMMA JobNames ==
    /\ NoJob \notin Jobs
    /\ Seeder \in Jobs /\ Worker \in Jobs /\ Admins \subseteq Jobs
    /\ Seeder # Worker /\ Seeder \notin Admins
BY RatesAssumption DEF Jobs, Api

-----------------------------------------------------------------------------
(* The first invariant.                                                    *)

\* A step of one job that touches no row.
Turn(j, r) ==
    /\ req' = [req EXCEPT ![j] = r]
    /\ overlapped' \in BOOLEAN
    /\ UNCHANGED <<edition, rows, draft, lock, serving, seeded>>

LEMMA BaseTurn ==
    ASSUME Base, NEW j \in Jobs, NEW r \in {Idle, Fetching} \union Upsertion,
           Turn(j, r), Working(r) \/ ~Working(req[j]),
           r.phase = "write" =>
               /\ r.todo # <<>>
               /\ r.seen # NoRow => rows[Head(r.todo)] # NoRow \/ lock[Head(r.todo)] = j
    PROVE  Base'
<1>1. \A i \in Jobs : req'[i] = IF i = j THEN r ELSE req[i]
  BY DEF Turn, Base, TypeOK
<1>2. TypeOK'
  <2>1. req' \in [Jobs -> {Idle, Fetching} \union Upsertion]
    BY DEF Turn, Base, TypeOK
  <2>2. \A i \in Jobs : req'[i].phase = "write" => req'[i].todo # <<>>
    BY <1>1 DEF Base, TypeOK
  <2>. QED  BY <2>1, <2>2 DEF Turn, Base, TypeOK
<1>3. Locks'
  <2>1. \A q \in Quotes : lock[q] # NoJob => lock[q] \in Jobs
    BY DEF Base, TypeOK
  <2>. QED  BY <1>1, <2>1 DEF Turn, Base, Locks
<1>4. Loaded'
  BY <1>1 DEF Turn, Base, Loaded
<1>. QED  BY <1>2, <1>3, <1>4 DEF Base

\* What a job loads is there.
LEMMA SeenType ==
    ASSUME Base, NEW j \in Jobs, Working(req[j]), req[j].todo # <<>>
    PROVE  /\ Head(req[j].todo) \in Quotes
           /\ Seen(j) \in Stored \union {NoRow}
           /\ Seen(j) # NoRow =>
                 \/ rows[Head(req[j].todo)] # NoRow
                 \/ lock[Head(req[j].todo)] = j
<1>1. req[j].todo \in Seq(Quotes)
  BY JobType DEF Base
<1>2. Head(req[j].todo) \in Quotes
  BY <1>1, ListedNext
<1>. QED  BY <1>2 DEF Base, TypeOK, Seen

LEMMA BaseAdvance ==
    ASSUME Base, NEW j \in Jobs, Working(req[j]), req[j].todo # <<>>,
           NEW phase \in {"look", "write"}, NEW seen \in {Seen(j), NoRow},
           Advance(j, phase, seen)
    PROVE  Base'
<1>. DEFINE r == At(phase, req[j].todo, req[j].row, seen, req[j].keep)
<1>1. r \in Upsertion /\ r.todo = req[j].todo /\ r.seen = seen
  BY JobType, SeenType DEF At, Upsertion, Base
<1>2. Turn(j, r)
  BY DEF Advance, Turn, Base, TypeOK
<1>3. Working(r)
  BY DEF At, Working
<1>4. r.seen # NoRow => rows[Head(r.todo)] # NoRow \/ lock[Head(r.todo)] = j
  BY <1>1, SeenType
<1>. HIDE DEF r
<1>. QED  BY <1>1, <1>2, <1>3, <1>4, BaseTurn

\* A job starts, or passes on, to upsert todo.
LEMMA BaseUpserting ==
    ASSUME Base, NEW j \in Jobs, NEW todo \in Seq(Quotes), NEW row \in Stored,
           NEW keep \in BOOLEAN, Turn(j, Upserting(todo, row, keep))
    PROVE  Base'
BY UpsertingType, BaseTurn DEF Working

LEMMA BaseBegin ==
    ASSUME Base, NEW j \in Jobs, NEW r \in {Fetching} \union Upsertion,
           r.phase # "write", Begin(j, r)
    PROVE  Base'
<1>1. ~Working(req[j])
  BY DEF Begin, InService, Idle, Working
<1>2. Turn(j, r)
  BY DEF Begin, Turn, Base, TypeOK
<1>. QED  BY <1>1, <1>2, BaseTurn

LEMMA BaseWrite ==
    ASSUME Base, NEW j \in Jobs, Write(j)
    PROVE  Base'
<1>. DEFINE q == Head(req[j].todo)
<1>1. /\ Working(req[j]) /\ req[j].todo # <<>>
      /\ req[j].todo \in Seq(Quotes) /\ req[j].row \in Stored
      /\ req[j].seen \in Stored \union {NoRow} /\ req[j].keep \in BOOLEAN
  BY JobType DEF Write, Writable, Working, Base, TypeOK
<1>2. q \in Quotes /\ Tail(req[j].todo) \in Seq(Quotes)
  BY <1>1, ListedNext
<1>3. NextQuote(j) \in Upsertion /\ NextQuote(j).phase \in {"check", "look"}
  BY <1>1, <1>2, UpsertingType DEF NextQuote
<1>4. \A i \in Jobs : req'[i] = IF i = j THEN NextQuote(j) ELSE req[i]
  BY DEF Write, Base, TypeOK
<1>5. PICK new : new = Flushed(draft[q], req[j].seen, req[j].row)
  OBVIOUS
<1>6. /\ lock' = [lock EXCEPT ![q] = j]
      /\ draft' = [draft EXCEPT ![q] = new]
      /\ lock[q] \in {NoJob, j}
      /\ ~(req[j].seen = NoRow /\ draft[q] # NoRow)
      /\ UNCHANGED <<edition, rows, serving, seeded, overlapped>>
  BY <1>5 DEF Write, Writable, Inserts
<1>7. new \in Stored
  <2>1. draft[q] \in Stored \union {NoRow}
    BY <1>2 DEF Base, TypeOK
  <2>2. draft[q] = NoRow => req[j].seen = NoRow
    <3>1. req[j].phase = "write"
      BY DEF Write, Writable
    <3>2. req[j].seen # NoRow => rows[q] # NoRow \/ lock[q] = j
      BY <3>1 DEF Base, Loaded
    <3>. QED  BY <1>2, <1>6, <3>2, JobNames DEF Base, Locks
  <2>. QED  BY <1>1, <1>5, <2>1, <2>2, FlushedType
<1>8. \A p \in Quotes :
          /\ lock'[p] = IF p = q THEN j ELSE lock[p]
          /\ draft'[p] = IF p = q THEN new ELSE draft[p]
  <2>. HIDE DEF q
  <2>1. /\ lock \in [Quotes -> Jobs \union {NoJob}]
        /\ draft \in [Quotes -> Stored \union {NoRow}]
    BY DEF Base, TypeOK
  <2>. QED  BY <2>1, <1>2, <1>6
<1>. HIDE DEF q
<1>9. TypeOK'
  <2>1. req' \in [Jobs -> {Idle, Fetching} \union Upsertion]
    BY <1>3 DEF Write, Base, TypeOK
  <2>2. \A i \in Jobs : req'[i].phase = "write" => req'[i].todo # <<>>
    BY <1>3, <1>4 DEF Base, TypeOK
  <2>3. draft' \in [Quotes -> Stored \union {NoRow}]
    BY <1>6, <1>7 DEF Base, TypeOK
  <2>4. lock' \in [Quotes -> Jobs \union {NoJob}]
    BY <1>6 DEF Base, TypeOK
  <2>. QED  BY <1>6, <2>1, <2>2, <2>3, <2>4 DEF Base, TypeOK
<1>10. Locks'
  <2>. SUFFICES ASSUME NEW p \in Quotes
                PROVE  /\ lock'[p] = NoJob => draft'[p] = rows'[p]
                       /\ lock'[p] # NoJob => Working(req'[lock'[p]]) /\ draft'[p] # NoRow
    BY DEF Locks, Working
  <2>1. CASE p = q
    <3>1. lock'[p] = j /\ draft'[p] = new /\ j # NoJob
      BY <2>1, <1>8, JobNames
    <3>2. Working(req'[j])
      BY <1>3, <1>4 DEF Working
    <3>. QED  BY <3>1, <3>2, <1>7, RowTypes
  <2>2. CASE p # q
    <3>1. lock'[p] = lock[p] /\ draft'[p] = draft[p] /\ rows'[p] = rows[p]
      BY <2>2, <1>6, <1>8
    <3>2. lock[p] # NoJob => lock[p] \in Jobs
      BY DEF Base, TypeOK
    <3>3. lock[p] # NoJob => Working(req'[lock[p]])
      BY <3>2, <1>3, <1>4 DEF Base, Locks, Working
    <3>. QED  BY <3>1, <3>3 DEF Base, Locks
  <2>. QED  BY <2>1, <2>2
<1>11. Loaded'
  <2>. SUFFICES ASSUME NEW i \in Jobs, req'[i].phase = "write", req'[i].seen # NoRow
                PROVE  rows'[Head(req'[i].todo)] # NoRow \/ lock'[Head(req'[i].todo)] = i
    BY DEF Loaded
  <2>1. i # j /\ req'[i] = req[i]
    BY <1>3, <1>4
  <2>2. req[i].todo \in Seq(Quotes) /\ req[i].todo # <<>>
    BY <2>1, JobType DEF Working, Base, TypeOK
  <2>3. Head(req[i].todo) \in Quotes
    BY <2>2, ListedNext
  <2>4. rows[Head(req[i].todo)] # NoRow \/ lock[Head(req[i].todo)] = i
    BY <2>1 DEF Base, Loaded
  <2>. QED  BY <2>1, <2>3, <2>4, <1>6, <1>8, JobNames
<1>. QED  BY <1>9, <1>10, <1>11 DEF Base

\* The holder of rows lets go of them without a trace.
LEMMA BaseRollBack ==
    ASSUME Base, NEW j \in Jobs, RollBack(j),
           UNCHANGED <<edition, rows, serving, seeded, overlapped>>
    PROVE  Base'
<1>1. \A i \in Jobs : req'[i] = IF i = j THEN Idle ELSE req[i]
  BY DEF RollBack, Base, TypeOK
<1>2. \A q \in Quotes :
          /\ lock'[q] = IF lock[q] = j THEN NoJob ELSE lock[q]
          /\ draft'[q] = IF lock[q] = j THEN rows[q] ELSE draft[q]
  BY DEF RollBack, Unlocked
<1>3. TypeOK'
  <2>1. req' \in [Jobs -> {Idle, Fetching} \union Upsertion]
    BY DEF RollBack, Base, TypeOK
  <2>2. \A i \in Jobs : req'[i].phase = "write" => req'[i].todo # <<>>
    BY <1>1 DEF Idle, Base, TypeOK
  <2>3. draft' \in [Quotes -> Stored \union {NoRow}]
    BY DEF RollBack, Base, TypeOK
  <2>4. lock' \in [Quotes -> Jobs \union {NoJob}]
    BY DEF RollBack, Unlocked, Base, TypeOK
  <2>. QED  BY <2>1, <2>2, <2>3, <2>4 DEF Base, TypeOK
<1>4. Locks'
  <2>1. \A q \in Quotes : lock[q] # NoJob => lock[q] \in Jobs
    BY DEF Base, TypeOK
  <2>. QED  BY <1>1, <1>2, <2>1, JobNames DEF Base, Locks
<1>5. Loaded'
  <2>. SUFFICES ASSUME NEW i \in Jobs, req'[i].phase = "write", req'[i].seen # NoRow
                PROVE  rows'[Head(req'[i].todo)] # NoRow \/ lock'[Head(req'[i].todo)] = i
    BY DEF Loaded
  <2>1. i # j /\ req'[i] = req[i]
    BY <1>1 DEF Idle
  <2>2. req[i].todo \in Seq(Quotes) /\ req[i].todo # <<>>
    BY <2>1, JobType DEF Working, Base, TypeOK
  <2>3. Head(req[i].todo) \in Quotes
    BY <2>2, ListedNext
  <2>4. rows[Head(req[i].todo)] # NoRow \/ lock[Head(req[i].todo)] = i
    BY <2>1 DEF Base, Loaded
  <2>. QED  BY <2>1, <2>3, <2>4, <1>2
<1>. QED  BY <1>3, <1>4, <1>5 DEF Base

LEMMA BaseCommit ==
    ASSUME Base, NEW j \in Jobs, Commit(j)
    PROVE  /\ Base'
           /\ \A q \in Quotes : rows[q] # NoRow => rows'[q] # NoRow
<1>1. \A i \in Jobs : req'[i] = IF i = j THEN Idle ELSE req[i]
  BY DEF Commit, Base, TypeOK
<1>2. \A q \in Quotes :
          /\ lock'[q] = IF lock[q] = j THEN NoJob ELSE lock[q]
          /\ rows'[q] = IF lock[q] = j THEN draft[q] ELSE rows[q]
          /\ draft'[q] = draft[q]
  BY DEF Commit, Unlocked
<1>3. TypeOK'
  <2>1. req' \in [Jobs -> {Idle, Fetching} \union Upsertion]
    BY DEF Commit, Base, TypeOK
  <2>2. \A i \in Jobs : req'[i].phase = "write" => req'[i].todo # <<>>
    BY <1>1 DEF Idle, Base, TypeOK
  <2>3. rows' \in [Quotes -> Stored \union {NoRow}]
    BY DEF Commit, Base, TypeOK
  <2>4. lock' \in [Quotes -> Jobs \union {NoJob}]
    BY DEF Commit, Unlocked, Base, TypeOK
  <2>. QED  BY <2>1, <2>2, <2>3, <2>4 DEF Commit, Base, TypeOK
<1>4. Locks'
  <2>1. \A q \in Quotes : lock[q] # NoJob => lock[q] \in Jobs
    BY DEF Base, TypeOK
  <2>. QED  BY <1>1, <1>2, <2>1, JobNames DEF Base, Locks
<1>5. \A q \in Quotes : rows[q] # NoRow => rows'[q] # NoRow
  BY <1>2, JobNames DEF Base, Locks
<1>6. Loaded'
  <2>. SUFFICES ASSUME NEW i \in Jobs, req'[i].phase = "write", req'[i].seen # NoRow
                PROVE  rows'[Head(req'[i].todo)] # NoRow \/ lock'[Head(req'[i].todo)] = i
    BY DEF Loaded
  <2>1. i # j /\ req'[i] = req[i]
    BY <1>1 DEF Idle
  <2>2. req[i].todo \in Seq(Quotes) /\ req[i].todo # <<>>
    BY <2>1, JobType DEF Working, Base, TypeOK
  <2>3. Head(req[i].todo) \in Quotes
    BY <2>2, ListedNext
  <2>4. rows[Head(req[i].todo)] # NoRow \/ lock[Head(req[i].todo)] = i
    BY <2>1 DEF Base, Loaded
  <2>. QED  BY <2>1, <2>3, <2>4, <1>2, <1>5
<1>. QED  BY <1>3, <1>4, <1>5, <1>6 DEF Base

LEMMA BaseRestart ==
    ASSUME Base, Restart
    PROVE  Base'
<1>1. \A i \in Jobs : req'[i] = IF i \in Api THEN Idle ELSE req[i]
  BY DEF Restart
<1>2. \A q \in Quotes :
          /\ lock'[q] = IF lock[q] \in Api THEN NoJob ELSE lock[q]
          /\ draft'[q] = IF lock[q] \in Api THEN rows[q] ELSE draft[q]
  BY DEF Restart
<1>3. TypeOK'
  <2>1. req' \in [Jobs -> {Idle, Fetching} \union Upsertion]
    BY DEF Restart, Base, TypeOK
  <2>2. \A i \in Jobs : req'[i].phase = "write" => req'[i].todo # <<>>
    BY <1>1 DEF Idle, Base, TypeOK
  <2>3. draft' \in [Quotes -> Stored \union {NoRow}]
    BY DEF Restart, Base, TypeOK
  <2>4. lock' \in [Quotes -> Jobs \union {NoJob}]
    BY DEF Restart, Base, TypeOK
  <2>. QED  BY <2>1, <2>2, <2>3, <2>4 DEF Restart, Base, TypeOK
<1>4. Locks'
  <2>1. \A q \in Quotes : lock[q] # NoJob => lock[q] \in Jobs
    BY DEF Base, TypeOK
  <2>. QED  BY <1>1, <1>2, <2>1, JobNames DEF Restart, Base, Locks
<1>5. Loaded'
  <2>. SUFFICES ASSUME NEW i \in Jobs, req'[i].phase = "write", req'[i].seen # NoRow
                PROVE  rows'[Head(req'[i].todo)] # NoRow \/ lock'[Head(req'[i].todo)] = i
    BY DEF Loaded
  <2>1. i \notin Api /\ req'[i] = req[i]
    BY <1>1 DEF Idle
  <2>2. req[i].todo \in Seq(Quotes) /\ req[i].todo # <<>>
    BY <2>1, JobType DEF Working, Base, TypeOK
  <2>3. Head(req[i].todo) \in Quotes
    BY <2>2, ListedNext
  <2>4. rows[Head(req[i].todo)] # NoRow \/ lock[Head(req[i].todo)] = i
    BY <2>1 DEF Base, Loaded
  <2>. QED  BY <2>1, <2>3, <2>4, <1>2 DEF Restart
<1>. QED  BY <1>3, <1>4, <1>5 DEF Base

LEMMA BaseInit == Init => Base
<1>. SUFFICES ASSUME Init PROVE Base
  OBVIOUS
<1>1. \A j \in Jobs : req[j].phase = "idle"
  BY DEF Init, Idle
<1>2. TypeOK
  BY <1>1 DEF Init, TypeOK
<1>3. Locks
  BY DEF Init, Locks
<1>4. Loaded
  BY <1>1 DEF Loaded
<1>. QED  BY <1>2, <1>3, <1>4 DEF Base

\* The orders that jobs follow.
LEMMA OrderTypes ==
    /\ ProviderOrder \in Seq(Quotes) /\ FallbackOrder \in Seq(Quotes)
    /\ \A q \in Quotes : <<q>> \in Seq(Quotes)
BY RatesAssumption

\* Where the request of a job that reads or is answered goes next.
LEMMA TurnSteps ==
    ASSUME Base, NEW j \in Jobs
    PROVE  /\ Fetch(j) =>
                 /\ req[j] = Fetching /\ Live(edition) \in Stored
                 /\ Turn(j, Upserting(ProviderOrder, Live(edition), FALSE))
           /\ FetchFails(j) =>
                 /\ req[j] = Fetching
                 /\ j = Seeder => Turn(j, Upserting(FallbackOrder, Fallback, FALSE))
                 /\ j # Seeder => Turn(j, Idle)
           /\ CheckMissing(j) =>
                 Pending(j, "check") /\ Seen(j) = NoRow /\ Advance(j, "look", NoRow)
           /\ CheckFound(j) => Pending(j, "check") /\ Advance(j, "write", Seen(j))
           /\ Look(j) =>
                 /\ Pending(j, "look") /\ (FromProvider(j) => Known(j))
                 /\ Advance(j, "write", Seen(j))
           /\ SkipUnknown(j) =>
                 /\ Pending(j, "look") /\ FromProvider(j) /\ ~Known(j)
                 /\ Turn(j, NextQuote(j))
           /\ Skip(j) => Pending(j, "check") /\ Turn(j, NextQuote(j))
<1>1. overlapped \in BOOLEAN /\ edition \in Nat
  BY DEF Base, TypeOK
<1>2. Fetch(j) => Turn(j, Upserting(ProviderOrder, Live(edition), FALSE))
  BY <1>1 DEF Fetch, Turn
<1>3. FetchFails(j) =>
          /\ j = Seeder => Turn(j, Upserting(FallbackOrder, Fallback, FALSE))
          /\ j # Seeder => Turn(j, Idle)
  BY <1>1 DEF FetchFails, Turn
<1>4. Skip(j) => Pending(j, "check") /\ Turn(j, NextQuote(j))
  BY <1>1 DEF Skip, Turn
<1>5. SkipUnknown(j) => Turn(j, NextQuote(j))
  BY <1>1 DEF SkipUnknown, Turn
<1>. QED  BY <1>1, <1>2, <1>3, <1>4, <1>5, RowTypes
          DEF Fetch, FetchFails, CheckMissing, CheckFound, Look, SkipUnknown

LEMMA BaseJob ==
    ASSUME Base, NEW j \in Jobs, Step(j)
    PROVE  Base'
<1>1. ASSUME NEW phase \in {"check", "look"}, Pending(j, phase)
      PROVE  Working(req[j]) /\ req[j].todo # <<>>
  BY <1>1 DEF Pending, Working
<1>2. CASE BeginRefresh(j)
  BY <1>2, BaseBegin DEF BeginRefresh, Fetching
<1>3. ASSUME NEW q \in Quotes, BeginOverride(j, q)
      PROVE  Base'
  BY <1>3, BaseBegin, UpsertingType, OrderTypes, RowTypes DEF BeginOverride
<1>4. CASE Fetch(j)
  BY <1>4, TurnSteps, BaseUpserting, OrderTypes
<1>5. CASE FetchFails(j)
  <2>1. CASE j = Seeder
    BY <1>5, <2>1, TurnSteps, BaseUpserting, OrderTypes, RowTypes
  <2>2. CASE j # Seeder
    <3>1. Turn(j, Idle) /\ req[j] = Fetching
      BY <1>5, <2>2, TurnSteps
    <3>2. ~Working(req[j])
      BY <3>1 DEF Working, Fetching
    <3>3. Idle.phase # "write"
      BY DEF Idle
    <3>. QED  BY <3>1, <3>2, <3>3, BaseTurn
  <2>. QED  BY <2>1, <2>2
<1>6. CASE CheckMissing(j)
  BY <1>6, <1>1, TurnSteps, BaseAdvance
<1>7. CASE CheckFound(j)
  BY <1>7, <1>1, TurnSteps, BaseAdvance
<1>8. CASE Skip(j) \/ SkipUnknown(j)
  <2>1. /\ req[j].todo \in Seq(Quotes) /\ req[j].todo # <<>>
        /\ req[j].row \in Stored /\ req[j].keep \in BOOLEAN
    BY <1>8, <1>1, TurnSteps, JobType DEF Base
  <2>. QED  BY <1>8, <2>1, TurnSteps, BaseUpserting, ListedNext DEF NextQuote
<1>9. CASE Look(j)
  BY <1>9, <1>1, TurnSteps, BaseAdvance
<1>10. CASE Write(j)
  BY <1>10, BaseWrite
<1>11. CASE KeyTaken(j)
  BY <1>11, BaseRollBack DEF KeyTaken
<1>12. CASE Commit(j)
  BY <1>12, BaseCommit
<1>13. CASE Abandon(j)
  BY <1>13, BaseRollBack DEF Abandon
<1>. QED  BY <1>2, <1>3, <1>4, <1>5, <1>6, <1>7, <1>8, <1>9, <1>10, <1>11, <1>12,
             <1>13 DEF Step

LEMMA BaseStep ==
    ASSUME Base, [Next]_vars
    PROVE  Base'
<1>1. CASE UNCHANGED vars
  BY <1>1 DEF Base, TypeOK, Locks, Loaded, vars
<1>2. CASE Publish
  BY <1>2 DEF Publish, Base, TypeOK, Locks, Loaded
<1>3. CASE BeginSeed
  BY <1>3, BaseBegin, JobNames DEF BeginSeed, Fetching
<1>4. CASE BeginOfflineSeed
  BY <1>4, BaseBegin, UpsertingType, OrderTypes, RowTypes, JobNames DEF BeginOfflineSeed
<1>5. ASSUME NEW j \in Jobs, Step(j)
      PROVE  Base'
  BY <1>5, BaseJob
<1>6. CASE Restart
  BY <1>6, BaseRestart
<1>. QED  BY <1>1, <1>2, <1>3, <1>4, <1>5, <1>6 DEF Next

LEMMA BaseHolds == Spec => []Base
BY BaseInit, BaseStep, PTL DEF Spec

\* Types: what a job loads and writes is a stored row, however the columns of
\* upsert_rate mix.
THEOREM RatesTypeCorrect == Spec => []TypeOK
BY BaseHolds, PTL DEF Base

-----------------------------------------------------------------------------
(* The API never serves without a rate.                                    *)

Both == Listed(ProviderOrder) \intersect Listed(FallbackOrder)

\* The quotes of both orders are still to be walked by the seed, are stored,
\* or are its own.
Covers(r) ==
    \A q \in Both : q \in Listed(r.todo) \/ rows[q] # NoRow \/ lock[q] = Seeder

Covered == Working(req[Seeder]) => Covers(req[Seeder])

LEMMA BothQuotes == Both \subseteq Quotes
BY RatesAssumption DEF Both, Listed

\* A row that is stored stays, and the seed keeps its locks until it ends.
LEMMA RowsStay ==
    ASSUME Base, [Next]_vars
    PROVE  \A q \in Quotes : rows[q] # NoRow => rows'[q] # NoRow
<1>1. CASE \E j \in Jobs : Commit(j)
  BY <1>1, BaseCommit
<1>2. CASE ~\E j \in Jobs : Commit(j)
  BY <1>2 DEF Next, vars, Publish, BeginSeed, BeginOfflineSeed, Step, BeginRefresh,
              BeginOverride, Begin, Fetch, FetchFails, CheckMissing, CheckFound, Skip,
              Look, SkipUnknown, Advance, Write, KeyTaken, Abandon, Restart
<1>. QED  BY <1>1, <1>2

\* The steps of the other jobs leave the seed alone.
LEMMA SeederAlone ==
    ASSUME Base, NEW j \in Jobs, j # Seeder, Step(j)
    PROVE  /\ req'[Seeder] = req[Seeder]
           /\ \A q \in Quotes : lock[q] = Seeder => lock'[q] = Seeder
           /\ serving' = serving
<1>1. \A q \in Quotes : lock[q] = Seeder => Unlocked(j)[q] = Seeder
  BY DEF Unlocked
<1>2. req \in [Jobs -> {Idle, Fetching} \union Upsertion]
      /\ lock \in [Quotes -> Jobs \union {NoJob}]
  BY DEF Base, TypeOK
<1>3. CASE Write(j)
  BY <1>2, <1>3, JobNames DEF Write, Writable
<1>4. CASE Commit(j)
  <2>1. serving' = serving
    <3>1. serving \in BOOLEAN /\ serving' = (serving \/ j = Seeder)
      BY <1>4 DEF Commit, Base, TypeOK
    <3>. QED  BY <3>1
  <2>2. req'[Seeder] = req[Seeder] /\ lock' = Unlocked(j)
    BY <1>2, <1>4, JobNames DEF Commit
  <2>. QED  BY <1>1, <2>1, <2>2
<1>5. CASE KeyTaken(j) \/ Abandon(j)
  BY <1>1, <1>2, <1>5, JobNames DEF KeyTaken, Abandon, RollBack
<1>6. CASE ~(Write(j) \/ Commit(j) \/ KeyTaken(j) \/ Abandon(j))
  BY <1>2, <1>6, JobNames DEF Step, BeginRefresh, BeginOverride, Begin, Fetch,
     FetchFails, CheckMissing, CheckFound, Skip, Look, SkipUnknown, Advance
<1>. QED  BY <1>3, <1>4, <1>5, <1>6

\* The steps of the seed.
LEMMA SeederCovers ==
    ASSUME Base, Covered, Step(Seeder)
    PROVE  Covered'
<1>. SUFFICES ASSUME Working(req'[Seeder]) PROVE Covers(req[Seeder])'
  BY DEF Covered, Working
<1>1. Seeder \in Jobs
  BY JobNames
<1>2. req \in [Jobs -> {Idle, Fetching} \union Upsertion]
      /\ lock \in [Quotes -> Jobs \union {NoJob}]
  BY DEF Base, TypeOK
<1>3. Base' /\ \A q \in Quotes : rows[q] # NoRow => rows'[q] # NoRow
  BY <1>1, BaseJob, RowsStay DEF Next
<1>4. ASSUME NEW phase, NEW seen, Advance(Seeder, phase, seen), Working(req[Seeder])
      PROVE  Covers(req[Seeder])'
  <2>1. req'[Seeder].todo = req[Seeder].todo /\ lock' = lock /\ rows' = rows
    BY <1>1, <1>2, <1>4 DEF Advance, At
  <2>. QED  BY <2>1, <1>4 DEF Covered, Covers
<1>5. \A phase \in {"check", "look"} : Pending(Seeder, phase) => Working(req[Seeder])
  BY DEF Pending, Working
<1>6. ASSUME NEW order \in {ProviderOrder, FallbackOrder}, NEW row, NEW keep,
             Turn(Seeder, Upserting(order, row, keep))
      PROVE  Covers(req[Seeder])'
  <2>1. req'[Seeder].todo = order
    BY <1>1, <1>2, <1>6 DEF Turn, Upserting, At
  <2>. QED  BY <2>1 DEF Covers, Both
<1>7. CASE Fetch(Seeder)
  BY <1>1, <1>6, <1>7, TurnSteps
<1>8. CASE FetchFails(Seeder)
  BY <1>1, <1>6, <1>8, TurnSteps
<1>9. CASE CheckMissing(Seeder)
  BY <1>1, <1>4, <1>5, <1>9, TurnSteps
<1>10. CASE CheckFound(Seeder)
  BY <1>1, <1>4, <1>5, <1>10, TurnSteps
<1>11. CASE Look(Seeder)
  BY <1>1, <1>4, <1>5, <1>11, TurnSteps
<1>12. CASE Skip(Seeder)
  <2>1. Working(req[Seeder]) /\ Turn(Seeder, NextQuote(Seeder)) /\ req[Seeder].todo # <<>>
    BY <1>1, <1>5, <1>12, TurnSteps DEF Pending
  <2>2. req[Seeder].todo \in Seq(Quotes)
    BY <1>1, <2>1, JobType DEF Base
  <2>3. req'[Seeder].todo = Tail(req[Seeder].todo) /\ rows' = rows /\ lock' = lock
    BY <1>1, <1>2, <2>1 DEF Turn, NextQuote, Upserting, At
  <2>4. rows[Head(req[Seeder].todo)] # NoRow \/ lock[Head(req[Seeder].todo)] = Seeder
    BY <1>1, <1>12, <2>1, SeenType DEF Skip
  <2>5. Listed(req[Seeder].todo) = {Head(req[Seeder].todo)} \union Listed(Tail(req[Seeder].todo))
    BY <2>1, <2>2, ListedNext
  <2>. QED  BY <2>1, <2>3, <2>4, <2>5 DEF Covered, Covers
<1>13. CASE Write(Seeder)
  <2>1. Working(req[Seeder]) /\ req[Seeder].todo # <<>>
    BY <1>1, <1>13 DEF Write, Writable, Working, Base, TypeOK
  <2>2. req[Seeder].todo \in Seq(Quotes)
    BY <1>1, <2>1, JobType DEF Base
  <2>3. req'[Seeder].todo = Tail(req[Seeder].todo) /\ rows' = rows
    BY <1>1, <1>2, <1>13 DEF Write, NextQuote, Upserting, At
  <2>4. Head(req[Seeder].todo) \in Quotes
    BY <2>1, <2>2, ListedNext
  <2>5. lock'[Head(req[Seeder].todo)] = Seeder
        /\ \A q \in Quotes : lock[q] = Seeder => lock'[q] = Seeder
    BY <1>2, <1>13, <2>4 DEF Write
  <2>6. Listed(req[Seeder].todo) = {Head(req[Seeder].todo)} \union Listed(Tail(req[Seeder].todo))
    BY <2>1, <2>2, ListedNext
  <2>. QED  BY <2>1, <2>3, <2>5, <2>6, BothQuotes DEF Covered, Covers
<1>14. CASE Commit(Seeder) \/ KeyTaken(Seeder) \/ Abandon(Seeder)
  <2>1. req'[Seeder] = Idle
    BY <1>1, <1>2, <1>14 DEF Commit, KeyTaken, Abandon, RollBack
  <2>. QED  BY <2>1 DEF Working, Idle
<1>15. ~BeginRefresh(Seeder) /\ \A q \in Quotes : ~BeginOverride(Seeder, q)
  BY JobNames DEF BeginRefresh, BeginOverride
<1>16. ~SkipUnknown(Seeder)
  BY DEF SkipUnknown, Known
<1>. QED  BY <1>7, <1>8, <1>9, <1>10, <1>11, <1>12, <1>13, <1>14, <1>15, <1>16 DEF Step

LEMMA CoveredStep ==
    ASSUME Base, Covered, ServedWithRates, [Next]_vars
    PROVE  Covered' /\ ServedWithRates'
<1>1. \A q \in Both : q \in Quotes /\ (rows[q] # NoRow => rows'[q] # NoRow)
  BY RowsStay, BothQuotes
<1>2. req \in [Jobs -> {Idle, Fetching} \union Upsertion] /\ Seeder \in Jobs
  BY JobNames DEF Base, TypeOK
<1>3. ASSUME serving' => serving
      PROVE  ServedWithRates'
  BY <1>1, <1>3 DEF ServedWithRates, Both
<1>4. ASSUME req'[Seeder] = req[Seeder],
             \A q \in Quotes : lock[q] = Seeder => lock'[q] = Seeder
      PROVE  Covered'
  BY <1>1, <1>4 DEF Covered, Covers, Working
<1>5. CASE UNCHANGED vars
  BY <1>3, <1>4, <1>5 DEF vars
<1>6. CASE Publish
  BY <1>3, <1>4, <1>6 DEF Publish
<1>7. CASE BeginSeed
  <2>1. req'[Seeder] = Fetching /\ serving' = serving
    BY <1>2, <1>7 DEF BeginSeed, Begin
  <2>. QED  BY <1>3, <2>1 DEF Covered, Working, Fetching
<1>8. CASE BeginOfflineSeed
  <2>1. req'[Seeder].todo = FallbackOrder /\ serving' = serving
    BY <1>2, <1>8 DEF BeginOfflineSeed, Begin, Upserting, At
  <2>. QED  BY <1>3, <2>1 DEF Covered, Covers, Both
<1>9. ASSUME NEW j \in Jobs, j # Seeder, Step(j)
      PROVE  Covered' /\ ServedWithRates'
  BY <1>3, <1>4, <1>9, SeederAlone
<1>10. CASE Step(Seeder)
  <2>1. Covered'
    BY <1>10, SeederCovers
  <2>2. CASE Commit(Seeder)
    <3>1. Working(req[Seeder]) /\ req[Seeder].todo = <<>>
      BY <2>2 DEF Commit, Done, Working
    <3>2. \A q \in Both : rows[q] # NoRow \/ lock[q] = Seeder
      BY <3>1, ListedNone DEF Covered, Covers
    <3>3. \A q \in Both : rows'[q] # NoRow
      BY <1>1, <1>2, <2>2, <3>2, JobNames DEF Commit, Base, Locks
    <3>. QED  BY <2>1, <3>3 DEF ServedWithRates, Both
  <2>3. CASE ~Commit(Seeder)
    <3>1. serving' = serving
      BY <1>10, <2>3 DEF Step, BeginRefresh, BeginOverride, Begin, Fetch, FetchFails,
         CheckMissing, CheckFound, Skip, Look, SkipUnknown, Advance, Write, KeyTaken, Abandon
    <3>. QED  BY <1>3, <2>1, <3>1
  <2>. QED  BY <2>2, <2>3
<1>11. CASE Restart
  <2>1. req'[Seeder] = Idle /\ serving' = FALSE
    BY <1>2, <1>11 DEF Restart, Api
  <2>. QED  BY <1>3, <2>1 DEF Covered, Working, Idle
<1>. QED  BY <1>5, <1>6, <1>7, <1>8, <1>9, <1>10, <1>11 DEF Next

\* The API serves with a rate for every currency of both lists: what the seed
\* has not found it writes, and nothing removes it.
THEOREM NeverWithoutRates == Spec => []ServedWithRates
<1>1. Init => Covered /\ ServedWithRates
  BY JobNames DEF Init, Covered, Working, Idle, ServedWithRates
<1>2. Base /\ Covered /\ ServedWithRates /\ [Next]_vars => (Covered /\ ServedWithRates)'
  BY CoveredStep
<1>. QED  BY <1>1, <1>2, BaseHolds, PTL DEF Spec

-----------------------------------------------------------------------------
(* Until jobs overlap, the provider's rates come from one answer.          *)

\* What a job that has been alone since it began has done, when its rows are
\* the provider's: it holds every listed quote that it has still not to do, or
\* none as long as it knows no currency.
Faithful(j) ==
    LET r == req[j]
    IN  /\ r.phase = "check" => r.row = Fallback
        /\ r.phase = "write" => r.seen = draft[Head(r.todo)]
        /\ \A q \in Quotes : lock[q] = j => draft[q] = r.row
        /\ r.row.source = "provider" /\ Known(j) =>
              /\ \A q \in Listed(ProviderOrder) : q \in Listed(r.todo) \/ lock[q] = j
              /\ Listed(r.todo) \subseteq Listed(ProviderOrder)
              /\ \A q \in Quotes : lock[q] = j => q \in Listed(ProviderOrder)
        /\ r.row.source = "provider" /\ ~Known(j) =>
              r.phase # "write" /\ \A q \in Quotes : lock[q] # j

OneAnswer ==
    /\ \A p, q \in Quotes :
          rows[p].source = "provider" /\ rows[q].source = "provider" =>
              rows[p] = rows[q]
    /\ \A q \in Quotes : rows[q].source = "provider" => q \in Listed(ProviderOrder)

Solo ==
    ~overlapped =>
        /\ \A i, j \in Jobs : InService(i) /\ InService(j) => i = j
        /\ OneAnswer
        /\ \A j \in Jobs : Working(req[j]) => Faithful(j)

\* The steps of a job that is alone and stays so.
SoloJob(j) ==
    /\ ~overlapped
    /\ \A i \in Jobs : InService(i) => i = j
    /\ OneAnswer
    /\ Working(req[j]) => Faithful(j)

LEMMA SoloStart ==
    ASSUME Base, Solo, ~overlapped, NEW j \in Jobs, InService(j)
    PROVE  SoloJob(j)
BY DEF Solo, SoloJob

LEMMA SoloEnd ==
    ASSUME NEW j \in Jobs, \A i \in Jobs : InService(i)' => i = j, OneAnswer',
           Working(req[j])' => Faithful(j)', Base'
    PROVE  Solo'
<1>1. \A i \in Jobs : Working(req[i])' => InService(i)'
  BY DEF Working, InService, Idle
<1>. QED  BY <1>1 DEF Solo

\* A job that is alone holds every lock.
LEMMA SoloLocks ==
    ASSUME Base, NEW j \in Jobs, \A i \in Jobs : InService(i) => i = j
    PROVE  \A q \in Quotes : lock[q] \in {NoJob, j}
<1>1. \A i \in Jobs : Working(req[i]) => InService(i)
  BY DEF Working, InService, Idle
<1>2. \A q \in Quotes : lock[q] # NoJob => lock[q] \in Jobs /\ Working(req[lock[q]])
  BY DEF Base, Locks, TypeOK
<1>. QED  BY <1>1, <1>2

LEMMA SoloSeen ==
    ASSUME Base, NEW j \in Jobs, \A i \in Jobs : InService(i) => i = j,
           Working(req[j]), req[j].todo # <<>>
    PROVE  Seen(j) = draft[Head(req[j].todo)]
<1>1. Head(req[j].todo) \in Quotes
  BY SeenType
<1>. QED  BY <1>1, SoloLocks DEF Seen, Base, Locks

\* A job that holds nothing and starts to upsert an order, the provider's if
\* its rows are.
LEMMA FaithfulStart ==
    ASSUME Base, NEW j \in Jobs, ~Working(req[j]), UNCHANGED lock,
           NEW todo \in Seq(Quotes), NEW row \in Stored, NEW keep \in BOOLEAN,
           req'[j] = Upserting(todo, row, keep),
           row.source = "provider" => todo = ProviderOrder
    PROVE  Faithful(j)'
<1>1. \A q \in Quotes : lock'[q] # j
  BY JobNames DEF Base, Locks
<1>2. /\ req'[j].todo = todo /\ req'[j].row = row /\ req'[j].phase # "write"
      /\ req'[j].phase = "check" => row = Fallback
  BY DEF Upserting, At
<1>. QED  BY <1>1, <1>2 DEF Faithful

LEMMA FaithfulAdvance ==
    ASSUME Base, NEW j \in Jobs, Faithful(j),
           NEW phase \in {"look", "write"}, NEW seen, Advance(j, phase, seen),
           phase = "write" =>
               /\ seen = draft[Head(req[j].todo)]
               /\ req[j].row.source = "provider" => Known(j)
    PROVE  Faithful(j)'
<1>1. /\ req'[j].phase = phase /\ req'[j].seen = seen
      /\ req'[j].todo = req[j].todo /\ req'[j].row = req[j].row
      /\ lock' = lock /\ draft' = draft /\ seeded' = seeded
  BY DEF Advance, At, Base, TypeOK
<1>. QED  BY <1>1 DEF Faithful, Known

LEMMA FaithfulWrite ==
    ASSUME Base, NEW j \in Jobs, Faithful(j), Write(j)
    PROVE  Faithful(j)'
<1>1. /\ req[j].phase = "write" /\ req[j].todo # <<>>
      /\ req[j].todo \in Seq(Quotes) /\ req[j].row \in Stored
  BY JobType DEF Write, Writable, Working, Base, TypeOK
<1>2. PICK q : q = Head(req[j].todo)
  OBVIOUS
<1>3. /\ q \in Quotes
      /\ Listed(req[j].todo) = {q} \union Listed(Tail(req[j].todo))
  BY <1>1, <1>2, ListedNext
<1>4. Flushed(draft[q], req[j].seen, req[j].row) = req[j].row
  BY <1>1, <1>2, FlushedFresh DEF Faithful
<1>5. \A p \in Quotes :
          /\ lock'[p] = IF p = q THEN j ELSE lock[p]
          /\ draft'[p] = IF p = q THEN req[j].row ELSE draft[p]
  <2>1. lock' = [lock EXCEPT ![q] = j] /\ draft' = [draft EXCEPT ![q] = req[j].row]
    BY <1>2, <1>4 DEF Write
  <2>2. /\ lock \in [Quotes -> Jobs \union {NoJob}]
        /\ draft \in [Quotes -> Stored \union {NoRow}]
    BY DEF Base, TypeOK
  <2>. QED  BY <1>3, <2>1, <2>2
<1>6. /\ req'[j].todo = Tail(req[j].todo) /\ req'[j].row = req[j].row
      /\ req'[j].phase # "write"
      /\ req'[j].phase = "check" => req[j].row = Fallback
      /\ seeded' = seeded
  BY DEF Write, NextQuote, Upserting, At, Base, TypeOK
<1>7. \A p \in Quotes : lock'[p] = j => draft'[p] = req'[j].row
  BY <1>5, <1>6 DEF Faithful
<1>8. ASSUME req[j].row.source = "provider"
      PROVE  /\ Known(j)
             /\ \A p \in Listed(ProviderOrder) :
                   p \in Listed(Tail(req[j].todo)) \/ lock'[p] = j
             /\ Listed(Tail(req[j].todo)) \subseteq Listed(ProviderOrder)
             /\ \A p \in Quotes : lock'[p] = j => p \in Listed(ProviderOrder)
  <2>1. Listed(ProviderOrder) \subseteq Quotes
    BY RatesAssumption DEF Listed
  <2>2. Known(j)
    BY <1>1, <1>8 DEF Faithful
  <2>. QED  BY <1>3, <1>5, <1>8, <2>1, <2>2 DEF Faithful
<1>. QED  BY <1>6, <1>7, <1>8 DEF Faithful, Known

\* Skipping is for the table of fallbacks.
LEMMA FaithfulSkip ==
    ASSUME Base, NEW j \in Jobs, Faithful(j), Skip(j)
    PROVE  Faithful(j)'
<1>1. req[j].row = Fallback
  BY DEF Faithful, Skip, Pending
<1>2. /\ req'[j].row = Fallback /\ req'[j].phase = "check"
      /\ lock' = lock /\ draft' = draft
  BY <1>1 DEF Skip, NextQuote, Upserting, At, Base, TypeOK
<1>. QED  BY <1>1, <1>2, RowTypes DEF Faithful

\* A quote that is no currency is passed over by a job that holds none.
LEMMA FaithfulSkipUnknown ==
    ASSUME Base, NEW j \in Jobs, Faithful(j), SkipUnknown(j)
    PROVE  Faithful(j)'
<1>1. /\ req[j].row.source = "provider" /\ ~Known(j)
      /\ \A q \in Quotes : lock[q] # j
  BY DEF Faithful, SkipUnknown, FromProvider
<1>2. /\ req'[j].row = req[j].row /\ req'[j].phase # "write"
      /\ req'[j].phase = "check" => req[j].row = Fallback
      /\ lock' = lock /\ draft' = draft /\ seeded' = seeded
  BY DEF SkipUnknown, NextQuote, Upserting, At, Base, TypeOK
<1>. QED  BY <1>1, <1>2 DEF Faithful, Known

\* The commit of the provider's rows replaces all of them.
LEMMA OneAnswerCommit ==
    ASSUME Base, NEW j \in Jobs, SoloJob(j), Commit(j)
    PROVE  OneAnswer'
<1>1. Working(req[j]) /\ req[j].todo = <<>>
  BY DEF Commit, Done, Working
<1>2. Faithful(j) /\ OneAnswer
  BY <1>1 DEF SoloJob
<1>3. \A q \in Quotes : rows'[q] = IF lock[q] = j THEN req[j].row ELSE rows[q]
  BY <1>2 DEF Commit, Faithful
<1>4. CASE req[j].row.source = "provider" /\ ~Known(j)
  <2>1. \A q \in Quotes : rows'[q] = rows[q]
    BY <1>2, <1>3, <1>4 DEF Faithful
  <2>. QED  BY <1>2, <2>1 DEF OneAnswer
<1>6. CASE req[j].row.source = "provider" /\ Known(j)
  <2>1. \A q \in Quotes : lock[q] = j <=> q \in Listed(ProviderOrder)
    BY <1>1, <1>2, <1>6, ListedNone DEF Faithful
  <2>2. \A q \in Quotes : rows'[q].source = "provider" =>
            rows'[q] = req[j].row /\ q \in Listed(ProviderOrder)
    BY <1>2, <1>3, <2>1 DEF OneAnswer
  <2>. QED  BY <2>2 DEF OneAnswer
<1>5. CASE req[j].row.source # "provider"
  <2>1. \A q \in Quotes : rows'[q].source = "provider" => rows'[q] = rows[q]
    BY <1>3, <1>5
  <2>. QED  BY <1>2, <2>1 DEF OneAnswer
<1>. QED  BY <1>4, <1>5, <1>6

LEMMA SoloBegin ==
    ASSUME Base, Solo, ~overlapped', NEW j \in Jobs, NEW r, Begin(j, r),
           \/ r = Fetching
           \/ \E todo \in Seq(Quotes), row \in {Manual, Fallback}, keep \in BOOLEAN :
                 r = Upserting(todo, row, keep),
           Base'
    PROVE  Solo'
<1>1. /\ ~overlapped /\ \A i \in Jobs \ {j} : ~InService(i)
      /\ UNCHANGED <<rows, draft, lock>>
      /\ \A i \in Jobs : req'[i] = IF i = j THEN r ELSE req[i]
      /\ ~Working(req[j])
  <2>1. ~overlapped /\ \A i \in Jobs \ {j} : ~InService(i)
    BY DEF Begin
  <2>2. req \in [Jobs -> {Idle, Fetching} \union Upsertion]
    BY DEF Base, TypeOK
  <2>3. ~Working(req[j])
    BY DEF Begin, Working, InService, Idle
  <2>. QED  BY <2>1, <2>2, <2>3 DEF Begin
<1>2. \A i \in Jobs : InService(i)' => i = j
  BY <1>1 DEF InService
<1>3. OneAnswer'
  BY <1>1 DEF Solo, OneAnswer
<1>4. Working(req[j])' => Faithful(j)'
  <2>1. CASE r = Fetching
    BY <1>1, <2>1 DEF Working, Fetching
  <2>2. ASSUME NEW todo \in Seq(Quotes), NEW row \in {Manual, Fallback},
               NEW keep \in BOOLEAN, r = Upserting(todo, row, keep)
        PROVE  Faithful(j)'
    BY <1>1, <2>2, FaithfulStart, RowTypes
  <2>. QED  BY <2>1, <2>2
<1>. QED  BY <1>2, <1>3, <1>4, SoloEnd

\* A step of a job that has begun.
LEMMA StepAlone ==
    ASSUME Base, NEW j \in Jobs, Step(j), ~BeginRefresh(j),
           \A q \in Quotes : ~BeginOverride(j, q)
    PROVE  /\ InService(j) /\ overlapped' = overlapped
           /\ \A i \in Jobs : i # j => req'[i] = req[i]
<1>1. req \in [Jobs -> {Idle, Fetching} \union Upsertion]
  BY DEF Base, TypeOK
<1>2. /\ req[j] = Fetching => InService(j)
      /\ \A phase \in {"check", "look", "write"} : req[j].phase = phase => InService(j)
  BY DEF InService, Idle, Fetching
<1>3. CASE Fetch(j) \/ FetchFails(j)
  BY <1>1, <1>2, <1>3 DEF Fetch, FetchFails
<1>4. CASE CheckMissing(j) \/ CheckFound(j) \/ Skip(j) \/ Look(j) \/ SkipUnknown(j)
  BY <1>1, <1>2, <1>4 DEF CheckMissing, CheckFound, Skip, Look, SkipUnknown, Pending, Advance
<1>5. CASE Write(j)
  BY <1>1, <1>2, <1>5 DEF Write, Writable
<1>6. CASE KeyTaken(j)
  BY <1>1, <1>2, <1>6 DEF KeyTaken, Writable, RollBack
<1>7. CASE Commit(j)
  BY <1>1, <1>2, <1>7 DEF Commit, Done
<1>8. CASE Abandon(j)
  BY <1>1, <1>8 DEF Abandon, RollBack
<1>. QED  BY <1>3, <1>4, <1>5, <1>6, <1>7, <1>8 DEF Step

LEMMA SoloStep ==
    ASSUME Base, Solo, [Next]_vars, Base'
    PROVE  Solo'
<1>. SUFFICES ASSUME ~overlapped' PROVE Solo'
  BY DEF Solo
<1>1. CASE UNCHANGED vars
  BY <1>1 DEF Solo, OneAnswer, Faithful, Known, InService, Working, vars
<1>2. CASE Publish
  BY <1>2 DEF Publish, Solo, OneAnswer, Faithful, Known, InService, Working
<1>3. CASE BeginSeed
  BY <1>3, SoloBegin, JobNames DEF BeginSeed
<1>4. CASE BeginOfflineSeed
  BY <1>4, SoloBegin, OrderTypes, JobNames DEF BeginOfflineSeed
<1>5. ASSUME NEW j \in Jobs, Step(j)
      PROVE  Solo'
  <2>1. CASE BeginRefresh(j)
    BY <2>1, SoloBegin DEF BeginRefresh
  <2>2. ASSUME NEW q \in Quotes, BeginOverride(j, q)
        PROVE  Solo'
    BY <2>2, SoloBegin, OrderTypes DEF BeginOverride
  <2>3. CASE ~BeginRefresh(j) /\ \A q \in Quotes : ~BeginOverride(j, q)
    <3>1. /\ InService(j) /\ overlapped' = overlapped
          /\ \A i \in Jobs : i # j => req'[i] = req[i]
      BY <1>5, <2>3, StepAlone
    <3>2. SoloJob(j)
      BY <3>1, SoloStart
    <3>3. \A i \in Jobs : InService(i)' => i = j
      BY <3>1, <3>2 DEF SoloJob, InService
    <3>4. ASSUME rows' = rows
          PROVE  OneAnswer'
      BY <3>2, <3>4 DEF SoloJob, OneAnswer
    <3>5. CASE Fetch(j)
      <4>1. /\ ~Working(req[j]) /\ rows' = rows /\ lock' = lock /\ Live(edition) \in Stored
            /\ req'[j] = Upserting(ProviderOrder, Live(edition), FALSE)
        <5>1. /\ req[j] = Fetching /\ Live(edition) \in Stored
              /\ Turn(j, Upserting(ProviderOrder, Live(edition), FALSE))
          BY <3>5, TurnSteps
        <5>2. ~Working(req[j])
          BY <5>1 DEF Working, Fetching
        <5>3. req \in [Jobs -> {Idle, Fetching} \union Upsertion]
          BY DEF Base, TypeOK
        <5>. QED  BY <5>1, <5>2, <5>3 DEF Turn
      <4>. QED  BY <3>3, <3>4, <4>1, FaithfulStart, OrderTypes, SoloEnd
    <3>6. CASE FetchFails(j)
      <4>1. /\ ~Working(req[j]) /\ rows' = rows /\ lock' = lock
            /\ \/ req'[j] = Upserting(FallbackOrder, Fallback, FALSE)
               \/ req'[j] = Idle
        <5>1. ~Working(req[j])
          BY <3>6 DEF FetchFails, Working, Fetching
        <5>2. req \in [Jobs -> {Idle, Fetching} \union Upsertion]
          BY DEF Base, TypeOK
        <5>. QED  BY <3>6, <5>1, <5>2 DEF FetchFails
      <4>2. ~Working(Idle)
        BY DEF Working, Idle
      <4>3. Working(req[j])' => Faithful(j)'
        BY <4>1, <4>2, FaithfulStart, OrderTypes, RowTypes DEF Working
      <4>. QED  BY <3>3, <3>4, <4>1, <4>3, SoloEnd
    <3>7. ASSUME NEW phase \in {"check", "look"}, Pending(j, phase)
          PROVE  /\ Faithful(j)
                 /\ Seen(j) = draft[Head(req[j].todo)]
      BY <3>2, <3>7, SoloSeen DEF Pending, Working, SoloJob
    <3>8. CASE CheckMissing(j) \/ CheckFound(j) \/ Look(j)
      <4>3. ASSUME CheckMissing(j)
            PROVE  Faithful(j)'
        <5>1. Pending(j, "check") /\ Advance(j, "look", NoRow)
          BY <4>3, TurnSteps
        <5>2. Faithful(j)
          BY <3>7, <5>1
        <5>. QED  BY <5>1, <5>2, FaithfulAdvance
      <4>4. ASSUME CheckFound(j)
            PROVE  Faithful(j)'
        <5>1. Pending(j, "check") /\ Advance(j, "write", Seen(j))
          BY <4>4, TurnSteps
        <5>2. Faithful(j) /\ Seen(j) = draft[Head(req[j].todo)]
          BY <3>7, <5>1
        <5>3. req[j].row.source # "provider"
          <6>1. req[j].phase = "check"
            BY <5>1 DEF Pending
          <6>2. req[j].row = Fallback
            BY <5>2, <6>1 DEF Faithful
          <6>. QED  BY <6>2, RowTypes
        <5>. QED  BY <5>1, <5>2, <5>3, FaithfulAdvance
      <4>5. ASSUME Look(j)
            PROVE  Faithful(j)'
        <5>1. /\ Pending(j, "look") /\ Advance(j, "write", Seen(j))
              /\ req[j].row.source = "provider" => Known(j)
          BY <4>5, TurnSteps DEF FromProvider
        <5>2. Faithful(j) /\ Seen(j) = draft[Head(req[j].todo)]
          BY <3>7, <5>1
        <5>. QED  BY <5>1, <5>2, FaithfulAdvance
      <4>1. Faithful(j)'
        BY <3>8, <4>3, <4>4, <4>5
      <4>2. rows' = rows
        BY <3>8 DEF CheckMissing, CheckFound, Look, Advance
      <4>. QED  BY <3>3, <3>4, <4>1, <4>2, SoloEnd
    <3>9. CASE Skip(j)
      BY <3>3, <3>4, <3>7, <3>9, FaithfulSkip, SoloEnd DEF Skip
    <3>12. CASE SkipUnknown(j)
      BY <3>3, <3>4, <3>7, <3>12, FaithfulSkipUnknown, SoloEnd DEF SkipUnknown
    <3>10. CASE Write(j)
      <4>1. Faithful(j)
        BY <3>2, <3>10 DEF SoloJob, Write, Writable, Working
      <4>. QED  BY <3>3, <3>4, <3>10, <4>1, FaithfulWrite, SoloEnd DEF Write
    <3>11. CASE Commit(j) \/ KeyTaken(j) \/ Abandon(j)
      <4>1. ~Working(req[j])'
        BY <3>11 DEF Commit, KeyTaken, Abandon, RollBack, Working, Idle, Base, TypeOK
      <4>2. OneAnswer'
        BY <3>2, <3>4, <3>11, OneAnswerCommit DEF KeyTaken, Abandon
      <4>. QED  BY <3>3, <4>1, <4>2, SoloEnd
    <3>. QED  BY <1>5, <2>3, <3>5, <3>6, <3>8, <3>9, <3>10, <3>11, <3>12 DEF Step
  <2>. QED  BY <2>1, <2>2, <2>3
<1>6. CASE Restart
  <2>1. /\ ~overlapped /\ rows' = rows /\ seeded' = seeded
        /\ \A i \in Jobs : req'[i] = IF i \in Api THEN Idle ELSE req[i]
    BY <1>6 DEF Restart
  <2>2. \A i \in Jobs : InService(i)' => InService(i)
    BY <2>1 DEF InService
  <2>3. OneAnswer'
    BY <2>1 DEF Solo, OneAnswer
  <2>4. ASSUME NEW i \in Jobs, Working(req[i])'
        PROVE  Faithful(i)'
    <3>1. i \notin Api /\ req'[i] = req[i] /\ Faithful(i)
      BY <2>1, <2>4 DEF Solo, Working, Idle
    <3>2. \A q \in Quotes : lock'[q] = i <=> lock[q] = i
      BY <1>6, <3>1, JobNames DEF Restart
    <3>3. \A q \in Quotes : lock[q] \notin Api => draft'[q] = draft[q]
      BY <1>6 DEF Restart
    <3>4. req[i].phase = "write" =>
              Head(req[i].todo) \in Quotes /\ lock[Head(req[i].todo)] \notin Api
      <4>1. req[i].phase = "write" =>
                req[i].todo # <<>> /\ req[i].todo \in Seq(Quotes)
        BY <3>1, <2>4, JobType DEF Base, TypeOK, Working
      <4>2. \A k \in Jobs : InService(k) => k = i
        BY <2>1, <2>2, <2>4 DEF Solo, Working, InService, Idle
      <4>3. \A q \in Quotes : lock[q] \in {NoJob, i}
        BY <4>2, SoloLocks
      <4>4. i # NoJob /\ NoJob \notin Api
        BY JobNames DEF Jobs
      <4>5. \A q \in Quotes : lock[q] \notin Api
        BY <4>3, <4>4, <3>1
      <4>6. req[i].phase = "write" => Head(req[i].todo) \in Quotes
        BY <4>1, ListedNext
      <4>. QED  BY <4>5, <4>6
    <3>5. req'[i].phase = "write" => req'[i].seen = draft'[Head(req'[i].todo)]
      BY <3>1, <3>3, <3>4 DEF Faithful
    <3>6. \A q \in Quotes : lock'[q] = i => draft'[q] = req'[i].row
      BY <3>1, <3>2, <3>3 DEF Faithful
    <3>7. Listed(ProviderOrder) \subseteq Quotes
      BY RatesAssumption DEF Listed
    <3>. QED  BY <2>1, <3>1, <3>2, <3>5, <3>6, <3>7 DEF Faithful, Known
  <2>. QED  BY <2>1, <2>2, <2>3, <2>4 DEF Solo
<1>. QED  BY <1>1, <1>2, <1>3, <1>4, <1>5, <1>6 DEF Next

LEMMA SoloInit == Init => Solo
BY RowTypes DEF Init, Solo, InService, OneAnswer, Working, Idle

\* Until two jobs overlap, the stored rates of the provider came in one answer:
\* a refresh replaces all of them or none.
THEOREM RatesOfOneAnswer == Spec => []OneEdition
<1>1. Init => Solo
  BY SoloInit
<1>2. Base /\ Solo /\ [Next]_vars /\ Base' => Solo'
  BY SoloStep
<1>3. Solo => OneEdition
  BY DEF Solo, OneAnswer, OneEdition
<1>. QED  BY <1>1, <1>2, <1>3, BaseHolds, PTL DEF Spec

-----------------------------------------------------------------------------
(* Until jobs overlap, the provider's rates only get newer.                *)

Within(row, n) == row.source = "provider" => row.rate[2] <= n

\* Nothing that is stored or about to be is newer than what was published, and
\* a job that writes the provider's rates has none older than those stored.
Recent ==
    ~overlapped =>
        /\ \A q \in Quotes : Within(rows[q], edition)
        /\ \A j \in Jobs :
              Working(req[j]) /\ req[j].row.source = "provider" =>
                  /\ Within(req[j].row, edition)
                  /\ \A q \in Quotes : Within(rows[q], req[j].row.rate[2])

LEMMA RateTypes ==
    /\ \A row \in Stored : row.rate[2] \in Nat
    /\ \A n \in Nat : Live(n).source = "provider" /\ Live(n).rate[2] = n
BY DEF Stored, Live, Row

\* What was published once bounds the stored rates for good.
LEMMA WithinLater ==
    ASSUME Base, Publish
    PROVE  /\ edition \in Nat /\ edition' = edition + 1
           /\ \A row \in Stored \union {NoRow} : Within(row, edition) => Within(row, edition')
<1>1. edition \in Nat /\ edition' = edition + 1
  BY DEF Publish, Base, TypeOK
<1>2. NoRow.source # "provider"
  BY RowTypes
<1>. QED  BY <1>1, <1>2, RateTypes DEF Within

\* A job that is under way writes the rates it began with, unless the provider
\* has answered it just now.
LEMMA SameRow ==
    ASSUME Base, NEW j \in Jobs, Step(j), ~BeginRefresh(j),
           \A q \in Quotes : ~BeginOverride(j, q), ~Fetch(j),
           Working(req[j])', req'[j].row.source = "provider"
    PROVE  Working(req[j]) /\ req'[j].row = req[j].row
<1>1. req \in [Jobs -> {Idle, Fetching} \union Upsertion]
  BY DEF Base, TypeOK
<1>2. ~Working(Idle)
  BY DEF Working, Idle
<1>3. ~FetchFails(j)
  <2>1. Upserting(FallbackOrder, Fallback, FALSE).row.source # "provider"
    BY RowTypes DEF Upserting, At
  <2>. QED  BY <1>1, <1>2, <2>1 DEF FetchFails, Working
<1>4. ~KeyTaken(j) /\ ~Commit(j) /\ ~Abandon(j)
  BY <1>1, <1>2 DEF KeyTaken, Commit, Abandon, RollBack, Working
<1>5. CASE CheckMissing(j) \/ CheckFound(j) \/ Look(j)
  BY <1>1, <1>5 DEF CheckMissing, CheckFound, Look, Pending, Advance, At, Working
<1>6. CASE Skip(j)
  BY <1>1, <1>6 DEF Skip, Pending, NextQuote, Upserting, At, Working
<1>7. CASE SkipUnknown(j)
  BY <1>1, <1>7 DEF SkipUnknown, Pending, NextQuote, Upserting, At, Working
<1>8. CASE Write(j)
  BY <1>1, <1>8 DEF Write, Writable, NextQuote, Upserting, At, Working
<1>. QED  BY <1>3, <1>4, <1>5, <1>6, <1>7, <1>8 DEF Step

\* The jobs that begin bring no rate of the provider.
LEMMA RecentBegin ==
    ASSUME Base, Recent, NEW j \in Jobs, NEW r, Begin(j, r),
           Working(r) => r.row.source # "provider"
    PROVE  Recent'
<1>1. \A i \in Jobs : req'[i] = IF i = j THEN r ELSE req[i]
  BY DEF Begin, Base, TypeOK
<1>2. UNCHANGED <<edition, rows>> /\ (~overlapped' => ~overlapped)
  BY DEF Begin
<1>. QED  BY <1>1, <1>2 DEF Recent, Within, Working

\* Only a commit changes a stored rate; it leaves the rates of the provider
\* in place or puts the job's there.
LEMMA RowsAlone ==
    ASSUME Base, Solo, ~overlapped, NEW j \in Jobs, Step(j)
    PROVE  \/ rows' = rows
           \/ /\ Commit(j) /\ Working(req[j])
              /\ \A q \in Quotes : rows'[q] \in {rows[q], req[j].row}
<1>1. CASE ~Commit(j)
  BY <1>1 DEF Step, BeginRefresh, BeginOverride, Begin, Fetch, FetchFails, CheckMissing,
              CheckFound, Skip, Look, SkipUnknown, Advance, Write, KeyTaken, Abandon
<1>2. CASE Commit(j)
  <2>1. Working(req[j]) /\ InService(j)
    BY <1>2 DEF Commit, Done, Working, InService, Idle
  <2>2. Faithful(j)
    BY <2>1, SoloStart DEF SoloJob
  <2>. QED  BY <1>2, <2>1, <2>2 DEF Commit, Faithful
<1>. QED  BY <1>1, <1>2

LEMMA RecentStep ==
    ASSUME Base, Solo, Recent, [Next]_vars
    PROVE  Recent'
<1>1. CASE UNCHANGED vars
  BY <1>1 DEF vars, Recent, Within, Working
<1>2. CASE Publish
  <2>1. /\ edition \in Nat /\ edition' = edition + 1
        /\ \A row \in Stored \union {NoRow} : Within(row, edition) => Within(row, edition')
    BY <1>2, WithinLater
  <2>2. \A q \in Quotes : rows[q] \in Stored \union {NoRow}
    BY DEF Base, TypeOK
  <2>3. \A j \in Jobs : Working(req[j]) => req[j].row \in Stored
    BY JobType DEF Base
  <2>4. UNCHANGED <<rows, req, overlapped>>
    BY <1>2 DEF Publish
  <2>5. \A q \in Quotes : ~overlapped => Within(rows[q], edition')
    BY <2>1, <2>2 DEF Recent
  <2>6. \A j \in Jobs : ~overlapped /\ Working(req[j]) /\ req[j].row.source = "provider" =>
            Within(req[j].row, edition')
    BY <2>1, <2>3 DEF Recent
  <2>. QED  BY <2>4, <2>5, <2>6 DEF Recent, Within, Working
<1>3. ASSUME NEW order \in Seq(Quotes), NEW row \in {Manual, Fallback}, NEW keep
      PROVE  Upserting(order, row, keep).row.source # "provider"
  BY RowTypes DEF Upserting, At
<1>4. ~Working(Fetching)
  BY DEF Working, Fetching
<1>5. CASE BeginSeed
  BY <1>4, <1>5, RecentBegin, JobNames DEF BeginSeed
<1>6. CASE BeginOfflineSeed
  BY <1>3, <1>6, RecentBegin, OrderTypes, JobNames DEF BeginOfflineSeed
<1>7. CASE Restart
  <2>1. UNCHANGED <<edition, rows, overlapped>>
    BY <1>7 DEF Restart
  <2>2. \A i \in Jobs : req'[i] \in {Idle, req[i]}
    BY <1>7 DEF Restart
  <2>3. ~Working(Idle)
    BY DEF Working, Idle
  <2>. QED  BY <2>1, <2>2, <2>3 DEF Recent, Within, Working
<1>8. ASSUME NEW j \in Jobs, Step(j)
      PROVE  Recent'
  <2>1. CASE BeginRefresh(j)
    BY <1>4, <2>1, RecentBegin DEF BeginRefresh
  <2>2. ASSUME NEW q \in Quotes, BeginOverride(j, q)
        PROVE  Recent'
    BY <1>3, <2>2, RecentBegin, OrderTypes DEF BeginOverride
  <2>3. CASE ~BeginRefresh(j) /\ \A q \in Quotes : ~BeginOverride(j, q)
    <3>. SUFFICES ASSUME ~overlapped' PROVE Recent'
      BY DEF Recent
    <3>1. /\ InService(j) /\ ~overlapped
          /\ \A i \in Jobs : i # j => req'[i] = req[i]
      BY <1>8, <2>3, StepAlone
    <3>2. \A i \in Jobs : i # j => ~Working(req[i])'
      BY <3>1 DEF Solo, Working, InService, Idle
    <3>3. edition' = edition /\ edition \in Nat
      BY <1>8, <2>3 DEF Step, Fetch, FetchFails, CheckMissing, CheckFound, Skip, Look,
                        SkipUnknown, Advance, Write, KeyTaken, Commit, Abandon, Base, TypeOK
    <3>4. CASE Fetch(j)
      <4>1. rows' = rows /\ req'[j].row = Live(edition)
        BY <3>4 DEF Fetch, Upserting, At, Base, TypeOK
      <4>2. Within(Live(edition), edition)
        BY <3>3, RateTypes DEF Within
      <4>3. req'[j].row.rate[2] = edition
        BY <3>3, <4>1, RateTypes
      <4>. QED  BY <3>1, <3>2, <3>3, <4>1, <4>2, <4>3 DEF Recent
    <3>5. CASE Commit(j)
      <4>1. ~Working(req[j])'
        BY <3>5 DEF Commit, Working, Idle, Base, TypeOK
      <4>2. Working(req[j]) /\ \A q \in Quotes : rows'[q] \in {rows[q], req[j].row}
        BY <3>1, <1>8, <3>5, RowsAlone DEF Commit, Done, Working
      <4>3. \A q \in Quotes : Within(rows'[q], edition)
        BY <3>1, <4>2 DEF Recent, Within
      <4>. QED  BY <3>2, <3>3, <4>1, <4>3 DEF Recent
    <3>6. CASE ~Fetch(j) /\ ~Commit(j)
      <4>1. rows' = rows
        BY <3>1, <3>6, <1>8, RowsAlone
      <4>2. Working(req[j])' /\ req'[j].row.source = "provider" =>
                Working(req[j]) /\ req'[j].row = req[j].row
        BY <3>6, <1>8, <2>3, SameRow
      <4>. QED  BY <3>1, <3>2, <3>3, <4>1, <4>2 DEF Recent
    <3>. QED  BY <3>4, <3>5, <3>6
  <2>. QED  BY <2>1, <2>2, <2>3
<1>. QED  BY <1>1, <1>2, <1>5, <1>6, <1>7, <1>8 DEF Next

LEMMA RecentInit == Init => Recent
<1>. SUFFICES ASSUME Init PROVE Recent
  OBVIOUS
<1>1. \A q \in Quotes : rows[q].source # "provider"
  BY RowTypes DEF Init
<1>2. \A j \in Jobs : ~Working(req[j])
  BY DEF Init, Working, Idle
<1>. QED  BY <1>1, <1>2 DEF Recent, Within

LEMMA NewestStep ==
    ASSUME Base, Solo, Recent, [Next]_vars, NEW q \in Quotes, ~overlapped,
           rows[q].source = "provider", rows'[q].source = "provider"
    PROVE  rows'[q].rate[2] >= rows[q].rate[2]
<1>1. rows[q] \in Stored /\ rows[q].rate[2] \in Nat
  BY RowTypes, RateTypes DEF Base, TypeOK
<1>2. CASE rows' = rows
  BY <1>1, <1>2
<1>3. CASE rows' # rows
  <2>1. PICK j \in Jobs : Step(j)
    BY <1>3 DEF Next, vars, Publish, BeginSeed, BeginOfflineSeed, Begin, Restart
  <2>2. /\ Working(req[j])
        /\ rows'[q] \in {rows[q], req[j].row}
    BY <1>3, <2>1, RowsAlone
  <2>3. CASE rows'[q] = rows[q]
    BY <1>1, <2>3
  <2>4. CASE rows'[q] = req[j].row
    <3>1. Within(rows[q], req[j].row.rate[2])
      BY <2>2, <2>4 DEF Recent
    <3>2. req[j].row.rate[2] \in Nat
      BY <2>2, JobType, RateTypes DEF Base
    <3>. QED  BY <1>1, <2>4, <3>1, <3>2 DEF Within
  <2>. QED  BY <2>2, <2>3, <2>4
<1>. QED  BY <1>2, <1>3

\* Until two jobs overlap, a rate of the provider is never replaced by one that
\* was published before it.
THEOREM RatesGetNewer == Spec => NewestStays
<1>1. Init => Solo
  BY SoloInit
<1>2. Base /\ Solo /\ [Next]_vars /\ Base' => Solo'
  BY SoloStep
<1>3. Base /\ Solo /\ Recent /\ [Next]_vars => Recent'
  BY RecentStep
<1>4. Base /\ Solo /\ Recent /\ [Next]_vars =>
        [\A q \in Quotes :
            ~overlapped /\ rows[q].source = "provider"
                /\ rows'[q].source = "provider" =>
                rows'[q].rate[2] >= rows[q].rate[2]]_vars
  BY NewestStep
<1>. QED  BY <1>1, <1>2, <1>3, <1>4, RecentInit, BaseHolds, PTL DEF Spec, NewestStays

=============================================================================
