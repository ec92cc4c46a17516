--------------------------- MODULE StoreInvariant ---------------------------
(***************************************************************************)
(* The inductive invariant behind the theorems of StoreRequests_proof: what *)
(* a session holds and has read while it serves a request, and how far the *)
(* rows it is writing are from the committed orders.                       *)
(***************************************************************************)
EXTENDS StoreRequests

MovesStock(s) == req[s].target \in {"awaiting_payment", "paid", "cancelled"}

\* What a request believes of its order.  The status it read may be stale,
\* but an order it saw still exists, and one that had left awaiting_payment
\* has not come back to it.
KnowsOrder(s) ==
    /\ req[s].phase = "confirm" => req[s].target = "paid"
    /\ req[s].target = "awaiting_payment" =>
          req[s].phase = "stock" /\ req[s].snap = NoOrder
    /\ req[s].target # "awaiting_payment" =>
          /\ req[s].snap \notin {NoOrder, "draft"}
          /\ orderStatus[req[s].key] # NoOrder
          /\ req[s].phase # "confirm" => CanMove(req[s].snap, req[s].target)
          /\ req[s].snap # "awaiting_payment" =>
                orderStatus[req[s].key] # "awaiting_payment"

SnapshotInv ==
    /\ \A k \in Keys : orderStatus[k] # "draft"
    /\ \A s \in Sessions : InService(s) => KnowsOrder(s)

\* The lines that the request has walked over.
Done(s) == {req[s].walk[i] : i \in 1 .. (req[s].line - 1)}

\* Two-phase locking: until it ends, a request holds every row it wrote...
KeepsLocks(s) ==
    /\ req[s].phase # "stock" => req[s].line = 1
    /\ req[s].line - 1 <= LinesToDo(s)
    /\ \A i \in Done(s) : itemLock[Lines(req[s].key)[i].variant] = s
    /\ req[s].phase = "stock" /\ req[s].target # "awaiting_payment" =>
          orderLock[req[s].key] = s

\* ... only requests that move stock hold inventory rows, and a row nobody
\* holds has one version.
LockInv ==
    /\ \A v \in Variants : itemLock[v] = NoSession => draft[v] = stock[v]
    /\ \A v \in Variants, s \in Sessions : itemLock[v] = s =>
          InService(s) /\ req[s].phase = "stock" /\ MovesStock(s)
    /\ \A s \in Sessions : InService(s) => KeepsLocks(s)

\* The units of v in those lines.
Walked(s, v) == UnitsIn(req[s].key, v, Done(s))

\* A row under a checkout has at most the reservations of the unpaid orders
\* and of the lines walked.  A row under a payment or a cancellation has lost
\* at least the lines walked, unless another request settled or cancelled the
\* order first.
DraftInv ==
    \A v \in Variants, s \in Sessions : itemLock[v] = s =>
        IF req[s].target = "awaiting_payment"
        THEN draft[v].reserved <=
                 Cardinality(HeldUnits(v)) + Cardinality(Walked(s, v))
        ELSE IF req[s].key \in AwaitingPayment
        THEN draft[v].reserved + Cardinality(Walked(s, v)) <=
                 Cardinality(HeldUnits(v))
        ELSE draft[v].reserved <= Cardinality(HeldUnits(v))

\* Who was paid for: an order that a request saw settled, or is about to
\* settle, is one whose payment was confirmed.
ChargeInv ==
    \A s \in Sessions :
        /\ InService(s)
        /\ \/ req[s].snap \in Settled
           \/ req[s].target = "paid" /\ req[s].phase # "confirm"
        => req[s].key \in charged

\* As long as the requests of a cart take turns: no two are in service, what
\* each has read of its order is what is, a checkout has a cart that is not
\* sold, and a cart that has an order is.
TurnInv ==
    /\ \A s, t \in Sessions :
          s # t /\ InService(s) /\ InService(t) =>
              CartOf[req[s].key] # CartOf[req[t].key]
    /\ \A s \in Sessions : InService(s) =>
          /\ req[s].snap = orderStatus[req[s].key]
          /\ req[s].target = "awaiting_payment" =>
                cartStatus[CartOf[req[s].key]] = "active"
    /\ \A k \in Keys :
          orderStatus[k] # NoOrder => cartStatus[CartOf[k]] = "converted"
    /\ OneOrderPerCart

\* A row from which, or to which, a request has moved n units on the way of its
\* order to target: nothing is clamped.
Moved(item, target, n) ==
    CASE target = "awaiting_payment" ->
             [item EXCEPT !.reserved = @ + n, !.reserveLog = @ + n]
      [] target = "paid" ->
             [item EXCEPT !.reserved = @ - n, !.quantity = @ - n,
                          !.commitLog = @ + n]
      [] target = "cancelled" ->
             [item EXCEPT !.reserved = @ - n, !.releaseLog = @ + n]
      [] OTHER -> item

\* A row under lock is the committed one, moved by the lines walked over.
MovedInv ==
    \A v \in Variants, s \in Sessions : itemLock[v] = s =>
        draft[v] = Moved(stock[v], req[s].target, Cardinality(Walked(s, v)))

\* Whatever overlaps: the invariant behind NoStrandedStock.
StrandedInv ==
    TypeOK /\ SnapshotInv /\ LockInv /\ DraftInv /\ NoStrandedStock

\* A row is locked by the request that wrote it on its walk, an order by the
\* request that moves it.
HeldByWalk ==
    /\ \A v \in Variants, s \in Sessions : itemLock[v] = s =>
          \E i \in Done(s) : Lines(req[s].key)[i].variant = v
    /\ \A k \in Keys, s \in Sessions : orderLock[k] = s =>
          InService(s) /\ req[s].phase = "stock" /\ req[s].key = k

\* The logs of a row tell all of a move, and the clamps leave no less than it.
Booked(item, moved) ==
    /\ item.quantity >= moved.quantity /\ item.reserved >= moved.reserved
    /\ item.reserveLog = moved.reserveLog /\ item.releaseLog = moved.releaseLog
    /\ item.commitLog = moved.commitLog /\ item.manualLog = moved.manualLog

BookedInv ==
    \A v \in Variants, s \in Sessions : itemLock[v] = s =>
        Booked(draft[v],
               Moved(stock[v], req[s].target, Cardinality(Walked(s, v))))

\* Some orders, those among them that are settled and those that a request saw
\* settled, have their units booked as committed.
SettledBooked ==
    \E B \in SUBSET Keys :
        /\ SettledOrders \subseteq B
        /\ \A s \in Sessions :
              InService(s) /\ req[s].snap \in Settled => req[s].key \in B
        /\ \A v \in Variants : stock[v].commitLog >= Cardinality(UnitsOf(B, v))

\* Whatever overlaps: the invariant behind EveryMoveIsBooked and
\* DeadlockNeedsCrossing.
OverlapInv ==
    StrandedInv /\ HeldByWalk /\ BookedInv /\ SettledBooked /\ EveryMoveIsBooked

\* As long as the requests of a cart take turns, what a request has read is true
\* until it commits, and what it has written is exact: the invariant behind
\* ReservedIsHeld, SoldOnce, LedgerExplainsStock and ImplementsLedger.
ExactInv ==
    /\ TurnInv /\ MovedInv
    /\ ReservedIsHeld /\ SoldOnce /\ LedgerExplainsStock

=============================================================================
