----------------------------- MODULE CartLines -----------------------------
(***************************************************************************)
(* The lines of one cart, edited by requests that may overlap with each    *)
(* other and with a checkout of the cart.  As in StoreRequests a request   *)
(* is a transaction at READ COMMITTED; it reads the cart with its lines    *)
(* once, writes at most one line, and looks at the status of the cart only *)
(* in that first read.                                                     *)
(***************************************************************************)
EXTENDS Naturals, FiniteSets

CONSTANTS
    Variants,
    LineIds,     \* primary keys of line rows, each drawn once (uuid4)
    Sessions,
    NoSession,   \* the holder of a row that nobody has locked
    MaxQuantity  \* bound on what an edit may ask for or lead to

ASSUME CartAssumption ==
    /\ NoSession \notin Sessions
    /\ IsFiniteSet(LineIds)
    /\ MaxQuantity \in Nat

VARIABLES
    status,     \* status of the cart
    lines,      \* committed row of each line, or NoLine
    lineLock,   \* holder of the row lock of each line
    req,        \* the request each session serves
    ordered,    \* the lines of the last order placed from the cart
    removed,    \* the lines that were deleted (history)
    overlapped  \* have two requests been in service at once? (history)

vars == <<status, lines, lineLock, req, ordered, removed, overlapped>>

-----------------------------------------------------------------------------

LineRow == [variant : Variants, quantity : Nat \ {0}]

NoLine == [quantity |-> 0]

NoLines == [id \in LineIds |-> NoLine]

Row(v, n) == [variant |-> v, quantity |-> n]

Live == {id \in LineIds : lines[id] # NoLine}

\* find_line: the rows of the cart for a variant.
LinesOf(v) == {id \in Live : lines[id].variant = v}

\* asked is the quantity in the request, row what it writes to line id, and
\* snap the lines that it read with the cart.
Finding ==
    [phase : {"find"}, variant : Variants, asked : Nat \ {0},
     snap : [LineIds -> LineRow \union {NoLine}]]

Editing ==
    [phase : {"keep", "insert", "update", "delete", "commit"},
     edit : {"add", "set"}, variant : Variants, asked : Nat, id : LineIds,
     row : LineRow \union {NoLine}]

CheckingOut ==
    [phase : {"checkout"}, snap : [LineIds -> LineRow \union {NoLine}]]

Request == Finding \union Editing \union CheckingOut

Idle == [phase |-> "idle"]

InService(s) == req[s] # Idle

\* Ids drawn by requests that have not committed.
Pending == {req[s].id : s \in {t \in Sessions : req[t].phase = "insert"}}

Fresh == LineIds \ (Live \union removed \union Pending)

Init ==
    /\ status = "active"
    /\ lines = NoLines
    /\ lineLock = [id \in LineIds |-> NoSession]
    /\ req = [s \in Sessions |-> Idle]
    /\ ordered = NoLines
    /\ removed = {}
    /\ overlapped = FALSE

-----------------------------------------------------------------------------
(* The first reads: get_by_token finds a live cart and loads its lines.    *)

\* (A mistaken form of each definition named Mutant... stands before it.)
MutantBeginAnyStatus(s, request) ==
    /\ ~InService(s)
    /\ req' = [req EXCEPT ![s] = request]
    /\ overlapped' = (overlapped \/ \E t \in Sessions \ {s} : InService(t))
    /\ UNCHANGED <<status, lines, lineLock, ordered, removed>>

Begin(s, request) ==
    /\ ~InService(s)
    /\ status = "active"
    /\ req' = [req EXCEPT ![s] = request]
    /\ overlapped' = (overlapped \/ \E t \in Sessions \ {s} : InService(t))
    /\ UNCHANGED <<status, lines, lineLock, ordered, removed>>

\* POST /store/carts/{token}/lines.
BeginAdd(s, v, n) ==
    /\ \A id \in LinesOf(v) : lines[id].quantity + n <= MaxQuantity
    /\ Begin(s, [phase |-> "find", variant |-> v, asked |-> n,
                 snap |-> lines])

Edit(phase, id, n, row) ==
    [phase |-> phase, edit |-> "set", variant |-> lines[id].variant,
     asked |-> n, id |-> id, row |-> row]

\* PATCH /store/carts/{token}/lines/{line_id}.  A quantity that is already
\* the one that was read makes no UPDATE.
BeginUpdate(s, id, n) ==
    /\ id \in Live
    /\ n \in 1 .. MaxQuantity
    /\ Begin(s, Edit(IF lines[id].quantity = n THEN "keep" ELSE "update",
                     id, n, Row(lines[id].variant, n)))

MutantRemoveAsZero(s, id) ==
    /\ id \in Live
    /\ Begin(s, Edit("update", id, 0, Row(lines[id].variant, 0)))

\* DELETE of the line, or PATCH with a quantity of zero.
BeginRemove(s, id) ==
    /\ id \in Live
    /\ Begin(s, Edit("delete", id, 0, NoLine))

\* POST /store/checkout.
BeginCheckout(s) ==
    /\ Live # {}
    /\ Begin(s, [phase |-> "checkout", snap |-> lines])

-----------------------------------------------------------------------------
(* add_line looks for the line of the variant, in a statement of its own.  *)

Adding(s, phase, id, n) ==
    [phase |-> phase, edit |-> "add", variant |-> req[s].variant,
     asked |-> req[s].asked, id |-> id, row |-> Row(req[s].variant, n)]

MutantInsertAnyway(s) ==
    /\ req[s].phase = "find"
    /\ \E id \in Fresh :
          req' = [req EXCEPT ![s] = Adding(s, "insert", id, req[s].asked)]
    /\ UNCHANGED <<status, lines, lineLock, ordered, removed, overlapped>>

FindNone(s) ==
    /\ req[s].phase = "find"
    /\ LinesOf(req[s].variant) = {}
    /\ \E id \in Fresh :
          req' = [req EXCEPT ![s] = Adding(s, "insert", id, req[s].asked)]
    /\ UNCHANGED <<status, lines, lineLock, ordered, removed, overlapped>>

\* What the session has loaded once it does not load again: a line that came
\* with the cart has the quantity it had then.
Known(s, id) == IF req[s].snap[id] # NoLine THEN req[s].snap[id] ELSE lines[id]

MutantSetInsteadOfAdd(s) ==
    /\ req[s].phase = "find"
    /\ \E id \in LineIds :
          /\ LinesOf(req[s].variant) = {id}
          /\ req' = [req EXCEPT ![s] = Adding(s, "update", id, req[s].asked)]
    /\ UNCHANGED <<status, lines, lineLock, ordered, removed, overlapped>>

FindOne(s) ==
    /\ req[s].phase = "find"
    /\ \E id \in LineIds :
          /\ LinesOf(req[s].variant) = {id}
          /\ req' = [req EXCEPT ![s] =
                        Adding(s, "update", id,
                               Known(s, id).quantity + req[s].asked)]
    /\ UNCHANGED <<status, lines, lineLock, ordered, removed, overlapped>>

End(s) ==
    /\ req' = [req EXCEPT ![s] = Idle]
    /\ lineLock' = [id \in LineIds |-> IF lineLock[id] = s THEN NoSession
                                       ELSE lineLock[id]]

\* scalar_one_or_none raises: the variant is on two lines.
FindMany(s) ==
    /\ req[s].phase = "find"
    /\ Cardinality(LinesOf(req[s].variant)) > 1
    /\ End(s)
    /\ UNCHANGED <<status, lines, ordered, removed, overlapped>>

-----------------------------------------------------------------------------
(* The flush, the commit, and the ways to end without effect.              *)

MutantLockMissing(s) ==
    /\ req[s].phase \in {"update", "delete"}
    /\ lineLock[req[s].id] = NoSession
    /\ lineLock' = [lineLock EXCEPT ![req[s].id] = s]
    /\ req' = [req EXCEPT ![s].phase = "commit"]
    /\ UNCHANGED <<status, lines, ordered, removed, overlapped>>

\* UPDATE or DELETE of the row, by its primary key.
LockLine(s) ==
    /\ req[s].phase \in {"update", "delete"}
    /\ lineLock[req[s].id] = NoSession
    /\ req[s].id \in Live
    /\ lineLock' = [lineLock EXCEPT ![req[s].id] = s]
    /\ req' = [req EXCEPT ![s].phase = "commit"]
    /\ UNCHANGED <<status, lines, ordered, removed, overlapped>>

\* The row was deleted by another request: an UPDATE that matches no row
\* raises StaleDataError, a DELETE has nothing left to do.
LineGone(s) ==
    /\ req[s].phase \in {"update", "delete"}
    /\ req[s].id \notin Live
    /\ End(s)
    /\ UNCHANGED <<status, lines, ordered, removed, overlapped>>

CommitEdit(s) ==
    /\ req[s].phase \in {"insert", "commit"}
    /\ lines' = [lines EXCEPT ![req[s].id] = req[s].row]
    /\ removed' = IF req[s].row = NoLine THEN removed \union {req[s].id}
                  ELSE removed
    /\ End(s)
    /\ UNCHANGED <<status, ordered, overlapped>>

\* The order copies the lines that were read; the cart keeps its own.
PlaceOrder(s) ==
    /\ req[s].phase = "checkout"
    /\ status' = "converted"
    /\ ordered' = req[s].snap
    /\ End(s)
    /\ UNCHANGED <<lines, removed, overlapped>>

\* The request ends without effect: there was nothing to change, the checkout
\* is refused, or its transaction is rolled back by a failure or a restart.
Abandon(s) ==
    /\ InService(s)
    /\ End(s)
    /\ UNCHANGED <<status, lines, ordered, removed, overlapped>>

-----------------------------------------------------------------------------

Next ==
    \E s \in Sessions :
        \/ \E v \in Variants, n \in 1 .. MaxQuantity : BeginAdd(s, v, n)
        \/ \E id \in LineIds, n \in 1 .. MaxQuantity : BeginUpdate(s, id, n)
        \/ \E id \in LineIds : BeginRemove(s, id)
        \/ BeginCheckout(s)
        \/ FindNone(s) \/ FindOne(s) \/ FindMany(s)
        \/ LockLine(s) \/ LineGone(s)
        \/ CommitEdit(s) \/ PlaceOrder(s) \/ Abandon(s)

Spec == Init /\ [][Next]_vars

-----------------------------------------------------------------------------
(* Properties.                                                             *)

\* Types of the variables; a line in the cart has a positive quantity.
TypeOK ==
    /\ status \in {"active", "converted"}
    /\ lines \in [LineIds -> LineRow \union {NoLine}]
    /\ lineLock \in [LineIds -> Sessions \union {NoSession}]
    /\ req \in [Sessions -> Request \union {Idle}]
    /\ ordered \in [LineIds -> LineRow \union {NoLine}]
    /\ removed \subseteq LineIds
    /\ overlapped \in BOOLEAN

\* Whatever overlaps, a line that was removed stays removed: no request that
\* had read it writes it back.
RemovedStaysRemoved == removed \intersect Live = {}

\* As long as requests of the cart have not overlapped, a variant is on one
\* line: adding it again merges.  find_line fails on a variant with two.
OneLinePerVariant ==
    ~overlapped => \A i, j \in Live : lines[i].variant = lines[j].variant => i = j

\* As long as requests have not overlapped, a cart that was sold is the cart
\* that was ordered, and stays so.
SoldIsFrozen == ~overlapped /\ status = "converted" => lines = ordered

InCart(v) ==
    Cardinality({unit \in LinesOf(v) \X (1 .. 2 * MaxQuantity) :
                    unit[2] <= lines[unit[1]].quantity})

\* As long as requests have not overlapped, every edit counts: an addition
\* adds what was asked, a change leaves what was asked, and neither touches
\* another variant.
EditsTakeEffect ==
    [][\A s \in Sessions :
          CommitEdit(s) /\ ~overlapped =>
              \A v \in Variants :
                  InCart(v)' = IF v # req[s].variant THEN InCart(v)
                               ELSE IF req[s].edit = "add"
                               THEN InCart(v) + req[s].asked
                               ELSE req[s].asked]_vars

=============================================================================
