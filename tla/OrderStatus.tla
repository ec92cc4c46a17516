---------------------------- MODULE OrderStatus ----------------------------
(***************************************************************************)
(* The order status machine of domain/order/state_machine.py: the statuses *)
(* of an order and the moves between them.  NoOrder stands for a key under *)
(* which no order row exists yet.                                          *)
(***************************************************************************)

NoOrder == "none"

OrderStatuses == {"draft", "awaiting_payment", "paid", "fulfilled",
                  "completed", "cancelled", "refunded"}

\* The table of the code, as the set of pairs <<current, target>> it allows.
ALLOWED_TRANSITIONS ==
    {<<"draft", "awaiting_payment">>, <<"draft", "cancelled">>,
     <<"awaiting_payment", "paid">>,  <<"awaiting_payment", "cancelled">>,
     <<"paid", "fulfilled">>,         <<"paid", "refunded">>,
     <<"fulfilled", "completed">>,    <<"fulfilled", "refunded">>,
     <<"completed", "refunded">>}

\* assert_transition: the move is refused with INVALID_STATUS_TRANSITION
\* unless this holds.
CanMove(current, target) == <<current, target>> \in ALLOWED_TRANSITIONS

\* The statuses an order can only have after its payment was confirmed.
Settled == {"paid", "fulfilled", "completed", "refunded"}

=============================================================================
