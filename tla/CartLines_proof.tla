-------------------------- MODULE CartLines_proof --------------------------
(***************************************************************************)
(* Theorems of CartLines, for any variants, line ids and sessions.         *)
(***************************************************************************)
EXTENDS CartLines, FiniteSetTheorems, TLAPS

\* Writers keep apart: a session about to commit a write holds the row, and
\* it exists; an id that was drawn is drawn by one session and not in use.
WritersApart ==
    /\ \A s \in Sessions : req[s].phase = "commit" =>
          lineLock[req[s].id] = s /\ req[s].id \in Live
    /\ \A s \in Sessions : req[s].phase = "insert" =>
          /\ req[s].id \notin Live \union removed
          /\ req[s].row # NoLine
    /\ \A s, t \in Sessions :
          req[s].phase = "insert" /\ req[t].phase = "insert"
              /\ req[s].id = req[t].id => s = t

\* What a request that has been alone since it began knows is what is.
KnowsCart(r) ==
    /\ r.phase \in {"find", "checkout"} => r.snap = lines
    /\ r.phase = "insert" =>
          r.row.variant = r.variant /\ LinesOf(r.variant) = {}
    /\ r.phase \in {"update", "commit", "delete"} =>
          /\ r.id \in LinesOf(r.variant)
          /\ r.row # NoLine => r.row.variant = r.variant

Merged == \A i, j \in Live : lines[i].variant = lines[j].variant => i = j

Alone ==
    ~overlapped =>
        /\ \A s, t \in Sessions : InService(s) /\ InService(t) => s = t
        /\ \A s \in Sessions : InService(s) => status = "active" /\ KnowsCart(req[s])
        /\ Merged
        /\ status = "converted" => lines = ordered

-----------------------------------------------------------------------------
(* Records.                                                                *)

LEMMA RowType ==
    /\ NoLine \notin LineRow
    /\ \A v \in Variants, n \in Nat \ {0} : Row(v, n) \in LineRow
BY DEF NoLine, LineRow, Row

\* A session with a given phase has the fields of that phase.
LEMMA PhaseType ==
    ASSUME TypeOK, NEW s \in Sessions
    PROVE  /\ req[s].phase = "find" => req[s] \in Finding
           /\ req[s].phase = "checkout" => req[s] \in CheckingOut
           /\ req[s].phase \in {"keep", "insert", "update", "delete", "commit"}
                 => req[s] \in Editing
           /\ InService(s) <=> req[s].phase # "idle"
           /\ req[s].phase \in {"idle", "find", "keep", "insert", "update",
                                "delete", "commit", "checkout"}
<1>1. req[s] \in Finding \union Editing \union CheckingOut \union {Idle}
  BY DEF TypeOK, Request
<1>2. CASE req[s] \in Finding
  BY <1>2 DEF Finding, InService, Idle
<1>3. CASE req[s] \in Editing
  BY <1>3 DEF Editing, InService, Idle
<1>4. CASE req[s] \in CheckingOut
  BY <1>4 DEF CheckingOut, InService, Idle
<1>5. CASE req[s] = Idle
  BY <1>5 DEF InService, Idle
<1>. QED  BY <1>1, <1>2, <1>3, <1>4, <1>5

\* The end of a request.
LEMMA EndType ==
    ASSUME TypeOK, NEW s \in Sessions, End(s)
    PROVE  /\ req' \in [Sessions -> Request \union {Idle}]
           /\ lineLock' \in [LineIds -> Sessions \union {NoSession}]
           /\ \A t \in Sessions : req'[t] = IF t = s THEN Idle ELSE req[t]
           /\ \A id \in LineIds : lineLock[id] # s => lineLock'[id] = lineLock[id]
BY DEF TypeOK, End

-----------------------------------------------------------------------------
(* Types.                                                                  *)

LEMMA BeginType ==
    ASSUME TypeOK, NEW s \in Sessions, NEW request \in Request, Begin(s, request)
    PROVE  TypeOK'
BY DEF TypeOK, Begin

LEMMA EditType ==
    ASSUME TypeOK, NEW id \in Live, NEW n \in Nat,
           NEW row \in LineRow \union {NoLine},
           NEW phase \in {"keep", "insert", "update", "delete", "commit"}
    PROVE  Edit(phase, id, n, row) \in Request
<1>1. lines[id].variant \in Variants /\ id \in LineIds
  BY DEF TypeOK, Live, LineRow
<1>. QED  BY <1>1 DEF Edit, Editing, Request

\* The quantity of a line that a request has read.
LEMMA KnownType ==
    ASSUME TypeOK, NEW s \in Sessions, req[s].phase = "find", NEW id \in Live
    PROVE  Known(s, id) \in LineRow
<1>1. req[s] \in Finding
  BY PhaseType
<1>2. req[s].snap[id] \in LineRow \union {NoLine} /\ lines[id] \in LineRow
  BY <1>1 DEF TypeOK, Finding, Live
<1>. QED  BY <1>2 DEF Known

LEMMA AddingType ==
    ASSUME TypeOK, NEW s \in Sessions, req[s].phase = "find",
           NEW id \in LineIds, NEW n \in Nat \ {0},
           NEW phase \in {"insert", "update"}
    PROVE  Adding(s, phase, id, n) \in Request
<1>1. req[s] \in Finding
  BY PhaseType
<1>2. req[s].variant \in Variants /\ req[s].asked \in Nat
  BY <1>1 DEF Finding
<1>3. Row(req[s].variant, n) \in LineRow
  BY <1>2, RowType
<1>. QED  BY <1>2, <1>3 DEF Adding, Editing, Request

LEMMA TypeInit == Init => TypeOK
BY DEF Init, TypeOK, NoLines

LEMMA TypeStep == TypeOK /\ [Next]_vars => TypeOK'
<1>. SUFFICES ASSUME TypeOK, [Next]_vars PROVE TypeOK'
  OBVIOUS
<1>1. CASE UNCHANGED vars
  BY <1>1 DEF TypeOK, vars
<1>2. ASSUME NEW s \in Sessions, NEW v \in Variants,
             NEW n \in 1 .. MaxQuantity, BeginAdd(s, v, n)
      PROVE  TypeOK'
  <2>1. [phase |-> "find", variant |-> v, asked |-> n, snap |-> lines] \in Request
    BY CartAssumption DEF TypeOK, Finding, Request
  <2>. QED  BY <1>2, <2>1, BeginType DEF BeginAdd
<1>3. ASSUME NEW s \in Sessions, NEW id \in LineIds,
             NEW n \in 1 .. MaxQuantity, BeginUpdate(s, id, n)
      PROVE  TypeOK'
  <2>1. id \in Live /\ n \in Nat \ {0}
    BY <1>3, CartAssumption DEF BeginUpdate
  <2>2. Row(lines[id].variant, n) \in LineRow
    BY <2>1 DEF TypeOK, Live, LineRow, Row
  <2>3. Edit("keep", id, n, Row(lines[id].variant, n)) \in Request
    BY <2>1, <2>2, EditType
  <2>4. Edit("update", id, n, Row(lines[id].variant, n)) \in Request
    BY <2>1, <2>2, EditType
  <2>. QED  BY <1>3, <2>3, <2>4, BeginType DEF BeginUpdate
<1>4. ASSUME NEW s \in Sessions, NEW id \in LineIds, BeginRemove(s, id)
      PROVE  TypeOK'
  <2>1. Edit("delete", id, 0, NoLine) \in Request
    BY <1>4, EditType DEF BeginRemove
  <2>. QED  BY <1>4, <2>1, BeginType DEF BeginRemove
<1>5. ASSUME NEW s \in Sessions, BeginCheckout(s)
      PROVE  TypeOK'
  <2>1. [phase |-> "checkout", snap |-> lines] \in Request
    BY DEF TypeOK, CheckingOut, Request
  <2>. QED  BY <1>5, <2>1, BeginType DEF BeginCheckout
<1>6. ASSUME NEW s \in Sessions, FindNone(s)
      PROVE  TypeOK'
  <2>1. req[s].phase = "find" /\ req[s] \in Finding
    BY <1>6, PhaseType DEF FindNone
  <2>2. PICK id \in Fresh :
           req' = [req EXCEPT ![s] = Adding(s, "insert", id, req[s].asked)]
    BY <1>6 DEF FindNone
  <2>3. id \in LineIds /\ req[s].asked \in Nat \ {0}
    BY <2>1 DEF Fresh, Finding
  <2>4. Adding(s, "insert", id, req[s].asked) \in Request
    BY <2>1, <2>3, AddingType
  <2>. QED  BY <1>6, <2>2, <2>4 DEF FindNone, TypeOK
<1>7. ASSUME NEW s \in Sessions, FindOne(s)
      PROVE  TypeOK'
  <2>1. req[s].phase = "find" /\ req[s] \in Finding
    BY <1>7, PhaseType DEF FindOne
  <2>2. PICK id \in LineIds :
           /\ LinesOf(req[s].variant) = {id}
           /\ req' = [req EXCEPT ![s] =
                         Adding(s, "update", id,
                                Known(s, id).quantity + req[s].asked)]
    BY <1>7 DEF FindOne
  <2>3. Known(s, id) \in LineRow
    BY <2>1, <2>2, KnownType DEF LinesOf
  <2>4. Known(s, id).quantity + req[s].asked \in Nat \ {0}
    BY <2>1, <2>3 DEF LineRow, Finding
  <2>5. Adding(s, "update", id, Known(s, id).quantity + req[s].asked) \in Request
    BY <2>1, <2>4, AddingType
  <2>. QED  BY <1>7, <2>2, <2>5 DEF FindOne, TypeOK
<1>8. ASSUME NEW s \in Sessions, FindMany(s) \/ LineGone(s) \/ Abandon(s)
      PROVE  TypeOK'
  BY <1>8, EndType DEF FindMany, LineGone, Abandon, TypeOK
<1>9. ASSUME NEW s \in Sessions, LockLine(s)
      PROVE  TypeOK'
  <2>1. req[s] \in Editing
    BY <1>9, PhaseType DEF LockLine
  <2>2. [req[s] EXCEPT !.phase = "commit"] \in Request
    BY <2>1 DEF Editing, Request
  <2>. QED  BY <1>9, <2>1, <2>2 DEF LockLine, TypeOK, Editing
<1>10. ASSUME NEW s \in Sessions, CommitEdit(s)
       PROVE  TypeOK'
  <2>1. req[s] \in Editing
    BY <1>10, PhaseType DEF CommitEdit
  <2>2. lines' \in [LineIds -> LineRow \union {NoLine}] /\ removed' \subseteq LineIds
    BY <1>10, <2>1 DEF CommitEdit, TypeOK, Editing
  <2>. QED  BY <1>10, <2>2, EndType DEF CommitEdit, TypeOK
<1>11. ASSUME NEW s \in Sessions, PlaceOrder(s)
       PROVE  TypeOK'
  <2>1. req[s].snap \in [LineIds -> LineRow \union {NoLine}]
    BY <1>11, PhaseType DEF PlaceOrder, CheckingOut
  <2>. QED  BY <1>11, <2>1, EndType DEF PlaceOrder, TypeOK
<1>. QED
  BY <1>1, <1>2, <1>3, <1>4, <1>5, <1>6, <1>7, <1>8, <1>9, <1>10, <1>11 DEF Next

\* Every variable keeps its type: in particular no line of the cart is left
\* with a quantity of zero, however edits overlap.
THEOREM TypeCorrect == Spec => []TypeOK
BY TypeInit, TypeStep, PTL DEF Spec

-----------------------------------------------------------------------------
(* Writers keep apart, and removed lines stay removed.                     *)

Apart == WritersApart /\ RemovedStaysRemoved

LEMMA BeginApart ==
    ASSUME TypeOK, Apart, NEW s \in Sessions, NEW request \in Request,
           request.phase \notin {"insert", "commit"}, Begin(s, request)
    PROVE  Apart'
<1>1. /\ \A t \in Sessions : req'[t] = IF t = s THEN request ELSE req[t]
      /\ UNCHANGED <<lines, lineLock, removed>>
  BY DEF Begin, TypeOK
<1>2. Live' = Live
  BY <1>1 DEF Live
<1>. QED  BY <1>1, <1>2 DEF Apart, WritersApart, RemovedStaysRemoved

LEMMA EndApart ==
    ASSUME TypeOK, Apart, NEW s \in Sessions, End(s), UNCHANGED <<lines, removed>>
    PROVE  Apart'
<1>1. Live' = Live
  BY DEF Live
<1>2. \A t \in Sessions : req'[t].phase = "commit" =>
          t # s /\ req'[t] = req[t] /\ req[t].id \in LineIds
  BY EndType, PhaseType DEF Idle, Editing
<1>3. \A t \in Sessions : req'[t].phase = "insert" => t # s /\ req'[t] = req[t]
  BY EndType DEF Idle
<1>. QED  BY <1>1, <1>2, <1>3, EndType DEF Apart, WritersApart, RemovedStaysRemoved

LEMMA CommitApart ==
    ASSUME TypeOK, Apart, NEW s \in Sessions, CommitEdit(s)
    PROVE  Apart'
<1>. DEFINE id == req[s].id
            row == req[s].row
<1>1. id \in LineIds /\ row \in LineRow \union {NoLine}
  BY PhaseType DEF CommitEdit, Editing
<1>2. Live' = IF row = NoLine THEN Live \ {id} ELSE Live \union {id}
  BY <1>1 DEF CommitEdit, Live, TypeOK
<1>3. removed' = IF row = NoLine THEN removed \union {id} ELSE removed
  BY DEF CommitEdit
<1>4. id \notin removed
  BY DEF CommitEdit, Apart, WritersApart, RemovedStaysRemoved
<1>5. RemovedStaysRemoved'
  BY <1>2, <1>3, <1>4 DEF Apart, RemovedStaysRemoved
<1>6. End(s)
  BY DEF CommitEdit
<1>7. ASSUME NEW t \in Sessions, req'[t].phase \in {"commit", "insert"}
      PROVE  t # s /\ req'[t] = req[t] /\ req[t].id \in LineIds /\ req[t].id # id
  <2>1. t # s /\ req'[t] = req[t]
    BY <1>6, <1>7, EndType DEF Idle
  <2>2. req[t].id \in LineIds
    BY <1>7, <2>1, PhaseType DEF Editing
  <2>. QED  BY <1>7, <2>1, <2>2 DEF CommitEdit, Apart, WritersApart
<1>8. \A t \in Sessions : req'[t].phase = "commit" =>
          lineLock'[req'[t].id] = t /\ req'[t].id \in Live'
  BY <1>2, <1>6, <1>7, EndType DEF Apart, WritersApart
<1>9. \A t \in Sessions : req'[t].phase = "insert" =>
          req'[t].id \notin Live' \union removed' /\ req'[t].row # NoLine
  BY <1>2, <1>3, <1>7 DEF Apart, WritersApart
<1>10. \A t, u \in Sessions :
           req'[t].phase = "insert" /\ req'[u].phase = "insert"
               /\ req'[t].id = req'[u].id => t = u
  BY <1>7 DEF Apart, WritersApart
<1>. QED  BY <1>5, <1>8, <1>9, <1>10 DEF Apart, WritersApart

LEMMA ApartStep == TypeOK /\ Apart /\ [Next]_vars => Apart'
<1>. SUFFICES ASSUME TypeOK, Apart, [Next]_vars PROVE Apart'
  OBVIOUS
<1>1. CASE UNCHANGED vars
  BY <1>1 DEF vars, Apart, WritersApart, RemovedStaysRemoved, Live
<1>2. ASSUME NEW s \in Sessions, NEW v \in Variants,
             NEW n \in 1 .. MaxQuantity, BeginAdd(s, v, n)
      PROVE  Apart'
  <2>1. [phase |-> "find", variant |-> v, asked |-> n, snap |-> lines] \in Request
    BY CartAssumption DEF TypeOK, Finding, Request
  <2>. QED  BY <1>2, <2>1, BeginApart DEF BeginAdd
<1>3. ASSUME NEW s \in Sessions, NEW id \in LineIds,
             NEW n \in 1 .. MaxQuantity, BeginUpdate(s, id, n)
      PROVE  Apart'
  <2>1. id \in Live /\ n \in Nat \ {0}
    BY <1>3, CartAssumption DEF BeginUpdate
  <2>2. Row(lines[id].variant, n) \in LineRow
    BY <2>1 DEF TypeOK, Live, LineRow, Row
  <2>3. PICK phase \in {"keep", "update"} :
           Begin(s, Edit(phase, id, n, Row(lines[id].variant, n)))
    BY <1>3 DEF BeginUpdate
  <2>4. Edit(phase, id, n, Row(lines[id].variant, n)) \in Request
    BY <2>1, <2>2, EditType
  <2>5. Edit(phase, id, n, Row(lines[id].variant, n)).phase \notin {"insert", "commit"}
    BY DEF Edit
  <2>. QED  BY <2>3, <2>4, <2>5, BeginApart
<1>4. ASSUME NEW s \in Sessions, NEW id \in LineIds, BeginRemove(s, id)
      PROVE  Apart'
  <2>1. Edit("delete", id, 0, NoLine) \in Request
    BY <1>4, EditType DEF BeginRemove
  <2>2. Edit("delete", id, 0, NoLine).phase \notin {"insert", "commit"}
    BY DEF Edit
  <2>. QED  BY <1>4, <2>1, <2>2, BeginApart DEF BeginRemove
<1>5. ASSUME NEW s \in Sessions, BeginCheckout(s)
      PROVE  Apart'
  <2>1. [phase |-> "checkout", snap |-> lines] \in Request
    BY DEF TypeOK, CheckingOut, Request
  <2>. QED  BY <1>5, <2>1, BeginApart DEF BeginCheckout
<1>6. ASSUME NEW s \in Sessions, FindNone(s)
      PROVE  Apart'
  <2>1. PICK id \in Fresh :
           req' = [req EXCEPT ![s] = Adding(s, "insert", id, req[s].asked)]
    BY <1>6 DEF FindNone
  <2>2. \A t \in Sessions :
           req'[t] = IF t = s THEN Adding(s, "insert", id, req[s].asked) ELSE req[t]
    BY <2>1 DEF TypeOK
  <2>3. /\ id \notin Live \union removed
        /\ \A t \in Sessions : req[t].phase = "insert" => req[t].id # id
    BY DEF Fresh, Pending
  <2>4. UNCHANGED <<lineLock, removed>> /\ Live' = Live
    BY <1>6 DEF FindNone, Live
  <2>5. /\ Adding(s, "insert", id, req[s].asked).id = id
        /\ Adding(s, "insert", id, req[s].asked).phase = "insert"
        /\ Adding(s, "insert", id, req[s].asked).row # NoLine
    BY DEF Adding, Row, NoLine
  <2>. QED  BY <2>2, <2>3, <2>4, <2>5 DEF Apart, WritersApart, RemovedStaysRemoved
<1>7. ASSUME NEW s \in Sessions, FindOne(s)
      PROVE  Apart'
  <2>1. \A t \in Sessions : t # s => req'[t] = req[t]
    BY <1>7 DEF FindOne, TypeOK
  <2>2. req'[s].phase = "update"
    BY <1>7 DEF FindOne, TypeOK, Adding
  <2>3. UNCHANGED <<lineLock, removed>> /\ Live' = Live
    BY <1>7 DEF FindOne, Live
  <2>. QED  BY <2>1, <2>2, <2>3 DEF Apart, WritersApart, RemovedStaysRemoved
<1>8. ASSUME NEW s \in Sessions,
             FindMany(s) \/ LineGone(s) \/ Abandon(s) \/ PlaceOrder(s)
      PROVE  Apart'
  BY <1>8, EndApart DEF FindMany, LineGone, Abandon, PlaceOrder
<1>9. ASSUME NEW s \in Sessions, LockLine(s)
      PROVE  Apart'
  <2>1. req[s].id \in LineIds
    BY <1>9, PhaseType DEF LockLine, Editing
  <2>2. \A t \in Sessions :
           req'[t] = IF t = s THEN [req[s] EXCEPT !.phase = "commit"] ELSE req[t]
    BY <1>9 DEF LockLine, TypeOK
  <2>3. \A id \in LineIds :
           lineLock'[id] = IF id = req[s].id THEN s ELSE lineLock[id]
    BY <1>9 DEF LockLine, TypeOK
  <2>4. UNCHANGED removed /\ Live' = Live
    BY <1>9 DEF LockLine, Live
  <2>5. req'[s].id = req[s].id /\ req'[s].phase = "commit"
    BY <1>9, <2>2, PhaseType DEF LockLine, Editing
  <2>6. \A t \in Sessions : t # s /\ req[t].phase = "commit" => req[t].id # req[s].id
    BY <1>9, CartAssumption DEF LockLine, Apart, WritersApart
  <2>7. \A t \in Sessions : req[t].phase = "commit" => req[t].id \in LineIds
    BY PhaseType DEF Editing
  <2>. QED
    BY <1>9, <2>1, <2>2, <2>3, <2>4, <2>5, <2>6, <2>7
    DEF LockLine, Apart, WritersApart, RemovedStaysRemoved
<1>10. ASSUME NEW s \in Sessions, CommitEdit(s)
       PROVE  Apart'
  BY <1>10, CommitApart
<1>. QED
  BY <1>1, <1>2, <1>3, <1>4, <1>5, <1>6, <1>7, <1>8, <1>9, <1>10 DEF Next

LEMMA ApartInit == Init => Apart
BY DEF Init, Apart, WritersApart, RemovedStaysRemoved, Idle

\* However edits overlap, a line that was removed is never written back.
THEOREM NoResurrection == Spec => []RemovedStaysRemoved
<1>1. TypeOK /\ Apart => RemovedStaysRemoved
  BY DEF Apart
<1>. QED
  BY <1>1, TypeInit, TypeStep, ApartInit, ApartStep, PTL DEF Spec

-----------------------------------------------------------------------------
(* Requests that do not overlap.                                           *)

LEMMA BeginAlone ==
    ASSUME TypeOK, Alone, NEW s \in Sessions, NEW request \in Request,
           Begin(s, request), KnowsCart(request)
    PROVE  Alone'
<1>1. /\ \A t \in Sessions : req'[t] = IF t = s THEN request ELSE req[t]
      /\ UNCHANGED <<status, lines, ordered>> /\ status = "active"
  BY DEF Begin, TypeOK
<1>2. Live' = Live
  BY <1>1 DEF Live
<1>3. \A v \in Variants : LinesOf(v)' = LinesOf(v)
  BY <1>1, <1>2 DEF LinesOf
<1>4. SUFFICES ASSUME ~overlapped'
               PROVE  /\ \A t \in Sessions : InService(t)' =>
                            t = s /\ status' = "active" /\ KnowsCart(req[t])'
                      /\ Merged'
                      /\ status' = "converted" => lines' = ordered'
  BY DEF Alone
<1>5. ~overlapped /\ \A t \in Sessions : t # s => ~InService(t)
  BY <1>4 DEF Begin
<1>6. ASSUME NEW t \in Sessions, InService(t)'
      PROVE  t = s /\ status' = "active" /\ KnowsCart(req[t])'
  <2>1. t = s /\ req'[t] = request
    BY <1>1, <1>5, <1>6 DEF InService
  <2>2. KnowsCart(request)'
    BY <1>1, <1>2 DEF KnowsCart, LinesOf
  <2>. QED  BY <1>1, <2>1, <2>2 DEF KnowsCart, LinesOf
<1>. QED  BY <1>1, <1>2, <1>5, <1>6 DEF Alone, Merged

\* When a request that was alone ends, nobody is left in service.
LEMMA EndAlone ==
    ASSUME TypeOK, Alone, NEW s \in Sessions, InService(s), End(s),
           UNCHANGED overlapped,
           ~overlapped => Merged' /\ (status' = "converted" => lines' = ordered')
    PROVE  Alone'
<1>1. SUFFICES ASSUME ~overlapped
               PROVE  \A t \in Sessions : ~InService(t)'
  BY DEF Alone
<1>2. \A t \in Sessions : t # s => ~InService(t)
  BY <1>1 DEF Alone
<1>. QED  BY <1>2, EndType DEF InService

LEMMA CommitMerged ==
    ASSUME TypeOK, Merged, NEW s \in Sessions, CommitEdit(s), KnowsCart(req[s]),
           req[s].phase = "insert" => req[s].id \notin Live
    PROVE  Merged'
<1>. DEFINE id == req[s].id
            row == req[s].row
            v == req[s].variant
<1>1. id \in LineIds /\ row \in LineRow \union {NoLine} /\ v \in Variants
  BY PhaseType DEF CommitEdit, Editing
<1>2. \A i \in LineIds : lines'[i] = IF i = id THEN row ELSE lines[i]
  BY <1>1 DEF CommitEdit, TypeOK
<1>3. CASE row = NoLine
  BY <1>2, <1>3 DEF Merged, Live
<1>4. CASE row # NoLine /\ req[s].phase = "insert"
  <2>1. row.variant = v /\ \A i \in Live : lines[i].variant # v
    BY <1>4 DEF KnowsCart, LinesOf
  <2>. QED  BY <1>1, <1>2, <1>4, <2>1 DEF Merged, Live
<1>5. CASE row # NoLine /\ req[s].phase = "commit"
  <2>1. row.variant = v /\ id \in Live /\ lines[id].variant = v
    BY <1>5 DEF KnowsCart, LinesOf
  <2>. QED  BY <1>1, <1>2, <1>5, <2>1 DEF Merged, Live
<1>. QED  BY <1>3, <1>4, <1>5 DEF CommitEdit

\* A step of a request that was alone and goes on: it alone knows the cart.
LEMMA GoOnAlone ==
    ASSUME TypeOK, Alone, NEW s \in Sessions, InService(s),
           UNCHANGED <<status, lines, ordered, overlapped>>,
           \A t \in Sessions : t # s => req'[t] = req[t],
           ~overlapped => KnowsCart(req'[s])
    PROVE  Alone'
<1>1. Live' = Live
  BY DEF Live
<1>2. SUFFICES ASSUME ~overlapped
               PROVE  \A t \in Sessions : InService(t)' =>
                          t = s /\ status' = "active" /\ KnowsCart(req[t])'
  BY <1>1 DEF Alone, Merged
<1>3. \A t \in Sessions : t # s => ~InService(t)'
  BY <1>2 DEF Alone, InService
<1>4. status' = "active"
  BY <1>2 DEF Alone
<1>5. KnowsCart(req[s])'
  BY <1>1, <1>2 DEF KnowsCart, LinesOf
<1>. QED  BY <1>3, <1>4, <1>5

LEMMA AloneStep == TypeOK /\ Apart /\ Alone /\ [Next]_vars => Alone'
<1>. SUFFICES ASSUME TypeOK, Apart, Alone, [Next]_vars PROVE Alone'
  OBVIOUS
<1>1. CASE UNCHANGED vars
  BY <1>1 DEF vars, Alone, InService, KnowsCart, Merged, Live, LinesOf
<1>2. ASSUME NEW s \in Sessions, NEW v \in Variants,
             NEW n \in 1 .. MaxQuantity, BeginAdd(s, v, n)
      PROVE  Alone'
  <2>. DEFINE request == [phase |-> "find", variant |-> v, asked |-> n, snap |-> lines]
  <2>1. request \in Request
    BY CartAssumption DEF TypeOK, Finding, Request
  <2>2. KnowsCart(request)
    BY DEF KnowsCart
  <2>. QED  BY <1>2, <2>1, <2>2, BeginAlone DEF BeginAdd
<1>3. ASSUME NEW s \in Sessions, NEW id \in LineIds,
             NEW n \in 1 .. MaxQuantity, BeginUpdate(s, id, n)
      PROVE  Alone'
  <2>1. id \in Live /\ n \in Nat \ {0}
    BY <1>3, CartAssumption DEF BeginUpdate
  <2>2. Row(lines[id].variant, n) \in LineRow
    BY <2>1 DEF TypeOK, Live, LineRow, Row
  <2>3. PICK phase \in {"keep", "update"} :
           Begin(s, Edit(phase, id, n, Row(lines[id].variant, n)))
    BY <1>3 DEF BeginUpdate
  <2>4. Edit(phase, id, n, Row(lines[id].variant, n)) \in Request
    BY <2>1, <2>2, EditType
  <2>5. KnowsCart(Edit(phase, id, n, Row(lines[id].variant, n)))
    BY <2>1 DEF KnowsCart, Edit, LinesOf, Row
  <2>. QED  BY <2>3, <2>4, <2>5, BeginAlone
<1>4. ASSUME NEW s \in Sessions, NEW id \in LineIds, BeginRemove(s, id)
      PROVE  Alone'
  <2>1. Edit("delete", id, 0, NoLine) \in Request
    BY <1>4, EditType DEF BeginRemove
  <2>2. KnowsCart(Edit("delete", id, 0, NoLine))
    BY <1>4 DEF BeginRemove, KnowsCart, Edit, LinesOf
  <2>. QED  BY <1>4, <2>1, <2>2, BeginAlone DEF BeginRemove
<1>5. ASSUME NEW s \in Sessions, BeginCheckout(s)
      PROVE  Alone'
  <2>. DEFINE request == [phase |-> "checkout", snap |-> lines]
  <2>1. request \in Request
    BY DEF TypeOK, CheckingOut, Request
  <2>2. KnowsCart(request)
    BY DEF KnowsCart
  <2>. QED  BY <1>5, <2>1, <2>2, BeginAlone DEF BeginCheckout
<1>6. ASSUME NEW s \in Sessions, FindNone(s)
      PROVE  Alone'
  <2>1. PICK id \in Fresh :
           req' = [req EXCEPT ![s] = Adding(s, "insert", id, req[s].asked)]
    BY <1>6 DEF FindNone
  <2>2. KnowsCart(Adding(s, "insert", id, req[s].asked))
    BY <1>6 DEF FindNone, KnowsCart, Adding, Row
  <2>3. req'[s] = Adding(s, "insert", id, req[s].asked)
    BY <2>1 DEF TypeOK
  <2>4. \A t \in Sessions : t # s => req'[t] = req[t]
    BY <2>1 DEF TypeOK
  <2>5. InService(s)
    BY <1>6, PhaseType DEF FindNone
  <2>. QED  BY <1>6, <2>2, <2>3, <2>4, <2>5, GoOnAlone DEF FindNone
<1>7. ASSUME NEW s \in Sessions, FindOne(s)
      PROVE  Alone'
  <2>1. PICK id \in LineIds :
           /\ LinesOf(req[s].variant) = {id}
           /\ req' = [req EXCEPT ![s] =
                         Adding(s, "update", id,
                                Known(s, id).quantity + req[s].asked)]
    BY <1>7 DEF FindOne
  <2>2. KnowsCart(Adding(s, "update", id, Known(s, id).quantity + req[s].asked))
    BY <2>1 DEF KnowsCart, Adding, Row
  <2>3. req'[s] = Adding(s, "update", id, Known(s, id).quantity + req[s].asked)
    BY <2>1 DEF TypeOK
  <2>4. \A t \in Sessions : t # s => req'[t] = req[t]
    BY <2>1 DEF TypeOK
  <2>5. InService(s)
    BY <1>7, PhaseType DEF FindOne
  <2>. QED  BY <1>7, <2>2, <2>3, <2>4, <2>5, GoOnAlone DEF FindOne
<1>8. ASSUME NEW s \in Sessions, FindMany(s) \/ LineGone(s) \/ Abandon(s)
      PROVE  Alone'
  <2>1. InService(s) /\ End(s) /\ UNCHANGED <<status, lines, ordered, overlapped>>
    BY <1>8, PhaseType DEF FindMany, LineGone, Abandon
  <2>2. ~overlapped => Merged' /\ (status' = "converted" => lines' = ordered')
    BY <2>1 DEF Alone, Merged, Live
  <2>. QED  BY <2>1, <2>2, EndAlone
<1>9. ASSUME NEW s \in Sessions, LockLine(s)
      PROVE  Alone'
  <2>1. InService(s) /\ req[s] \in Editing
    BY <1>9, PhaseType DEF LockLine
  <2>2. req'[s] = [req[s] EXCEPT !.phase = "commit"]
    BY <1>9 DEF LockLine, TypeOK
  <2>3. \A t \in Sessions : t # s => req'[t] = req[t]
    BY <1>9 DEF LockLine, TypeOK
  <2>4. ~overlapped => KnowsCart(req'[s])
    BY <1>9, <2>1, <2>2 DEF LockLine, Alone, KnowsCart, Editing
  <2>. QED  BY <1>9, <2>1, <2>3, <2>4, GoOnAlone DEF LockLine
<1>10. ASSUME NEW s \in Sessions, CommitEdit(s)
       PROVE  Alone'
  <2>1. InService(s) /\ End(s) /\ UNCHANGED <<status, ordered, overlapped>>
    BY <1>10, PhaseType DEF CommitEdit
  <2>2. ~overlapped => Merged /\ status = "active" /\ KnowsCart(req[s])
    BY <2>1 DEF Alone
  <2>3. req[s].phase = "insert" => req[s].id \notin Live
    BY DEF Apart, WritersApart
  <2>4. ~overlapped => Merged'
    BY <1>10, <2>2, <2>3, CommitMerged
  <2>. QED  BY <2>1, <2>2, <2>4, EndAlone
<1>11. ASSUME NEW s \in Sessions, PlaceOrder(s)
       PROVE  Alone'
  <2>1. InService(s) /\ End(s) /\ UNCHANGED <<lines, overlapped>> /\ ordered' = req[s].snap
    BY <1>11, PhaseType DEF PlaceOrder
  <2>2. ~overlapped => Merged /\ req[s].snap = lines
    BY <1>11, <2>1 DEF PlaceOrder, Alone, KnowsCart
  <2>3. ~overlapped => Merged' /\ (status' = "converted" => lines' = ordered')
    BY <2>1, <2>2 DEF Merged, Live
  <2>. QED  BY <2>1, <2>3, EndAlone
<1>. QED
  BY <1>1, <1>2, <1>3, <1>4, <1>5, <1>6, <1>7, <1>8, <1>9, <1>10, <1>11 DEF Next

LEMMA AloneInit == Init => Alone
BY DEF Init, Alone, InService, Merged, Live, NoLines

LEMMA AloneHolds == Spec => []Alone
BY TypeInit, TypeStep, ApartInit, ApartStep, AloneInit, AloneStep, PTL DEF Spec

\* Edits that do not overlap keep every variant on one line.
THEOREM LinesMerge == Spec => []OneLinePerVariant
<1>1. Alone => OneLinePerVariant
  BY DEF Alone, Merged, OneLinePerVariant
<1>. QED  BY <1>1, AloneHolds, PTL

\* A cart whose requests did not overlap is, once sold, the cart that was
\* ordered.
THEOREM SoldCartFrozen == Spec => []SoldIsFrozen
<1>1. Alone => SoldIsFrozen
  BY DEF Alone, SoldIsFrozen
<1>. QED  BY <1>1, AloneHolds, PTL

-----------------------------------------------------------------------------
(* Every edit counts.                                                      *)

\* The units of a variant that is on one line, or on none.
LEMMA CountUnits ==
    ASSUME NEW id, NEW n \in Nat, NEW bound \in Nat, n <= bound
    PROVE  Cardinality({unit \in {id} \X (1 .. bound) : unit[2] <= n}) = n
<1>. DEFINE units == {unit \in {id} \X (1 .. bound) : unit[2] <= n}
            f == [k \in 1 .. n |-> <<id, k>>]
<1>1. \A k \in 1 .. n : k \in 1 .. bound /\ k <= n
  OBVIOUS
<1>2. f \in [1 .. n -> units]
  BY <1>1
<1>3. \A j, k \in 1 .. n : f[j] = f[k] => j = k
  OBVIOUS
<1>4. \A unit \in units : \E k \in 1 .. n : f[k] = unit
  <2>1. SUFFICES ASSUME NEW k \in 1 .. bound, k <= n
                 PROVE  \E j \in 1 .. n : f[j] = <<id, k>>
    OBVIOUS
  <2>2. k \in 1 .. n
    BY <2>1
  <2>. QED  BY <2>2
<1>5. ExistsBijection(1 .. n, units)
  <2>. HIDE DEF f, units
  <2>. QED
    BY <1>2, <1>3, <1>4
    DEF ExistsBijection, Bijection, Injection, Surjection, IsInjective
<1>6. IsFiniteSet(1 .. n) /\ Cardinality(1 .. n) = n
  BY FS_Interval
<1>. QED  BY <1>5, <1>6, FS_Bijection

Units(ids, table) ==
    Cardinality({unit \in ids \X (1 .. 2 * MaxQuantity) :
                    unit[2] <= table[unit[1]].quantity})

LEMMA UnitsOfVariant ==
    ASSUME NEW ids, NEW table
    PROVE  /\ ids = {} => Units(ids, table) = 0
           /\ \A id : ids = {id} /\ table[id].quantity \in 0 .. MaxQuantity =>
                  Units(ids, table) = table[id].quantity
<1>1. PICK bound \in Nat : bound = 2 * MaxQuantity /\ MaxQuantity <= bound
  BY CartAssumption
<1>2. Units(ids, table) = Cardinality({unit \in ids \X (1 .. bound) :
                                          unit[2] <= table[unit[1]].quantity})
  BY <1>1 DEF Units
<1>3. ASSUME ids = {}  PROVE Units(ids, table) = 0
  <2>1. {unit \in ids \X (1 .. bound) : unit[2] <= table[unit[1]].quantity} = {}
    BY <1>3
  <2>. QED  BY <1>2, <2>1, FS_EmptySet
<1>4. ASSUME NEW id, ids = {id}, table[id].quantity \in 0 .. MaxQuantity
      PROVE  Units(ids, table) = table[id].quantity
  <2>1. PICK n \in Nat : n = table[id].quantity /\ n <= bound
    BY <1>1, <1>4, CartAssumption
  <2>2. {unit \in ids \X (1 .. bound) : unit[2] <= table[unit[1]].quantity}
            = {unit \in {id} \X (1 .. bound) : unit[2] <= n}
    <3>1. \A unit \in {id} \X (1 .. bound) : table[unit[1]].quantity = n
      BY <2>1
    <3>2. {unit \in {id} \X (1 .. bound) : unit[2] <= table[unit[1]].quantity}
              = {unit \in {id} \X (1 .. bound) : unit[2] <= n}
      BY <3>1
    <3>. QED  BY <1>4, <3>2, Zenon
  <2>3. Cardinality({unit \in {id} \X (1 .. bound) : unit[2] <= n}) = n
    <3>1. bound \in Nat /\ n \in Nat /\ n <= bound
      BY <1>1, <2>1
    <3>. QED  BY <3>1, CountUnits, Zenon
  <2>. QED  BY <1>2, <2>1, <2>2, <2>3
<1>. QED  BY <1>3, <1>4

\* What the row that a request writes does to the units of its variant, when
\* the request has been alone since it began.
Counts(r) ==
    /\ r.phase = "find" =>
          /\ r.asked <= MaxQuantity
          /\ \A id \in LinesOf(r.variant) :
                lines[id].quantity + r.asked <= MaxQuantity
    /\ r.phase = "insert" => r.edit = "add" /\ r.row.quantity = r.asked
    /\ r.phase \in {"update", "commit", "delete"} =>
          r.row.quantity = IF r.edit = "add" THEN lines[r.id].quantity + r.asked
                           ELSE r.asked
    /\ r.phase \in {"insert", "update", "commit", "delete"} =>
          r.row.quantity <= MaxQuantity

Counted ==
    ~overlapped =>
        /\ \A id \in Live : lines[id].quantity <= MaxQuantity
        /\ \A s \in Sessions : InService(s) => Counts(req[s])

LEMMA BeginCounted ==
    ASSUME TypeOK, Alone, Counted, NEW s \in Sessions, NEW request,
           Begin(s, request), Counts(request)
    PROVE  Counted'
<1>1. /\ \A t \in Sessions : req'[t] = IF t = s THEN request ELSE req[t]
      /\ lines' = lines
  BY DEF Begin, TypeOK
<1>2. Live' = Live
  BY <1>1 DEF Live
<1>3. SUFFICES ASSUME ~overlapped'
               PROVE  /\ \A id \in Live : lines[id].quantity <= MaxQuantity
                      /\ \A t \in Sessions : InService(t)' => Counts(req[t])'
  BY <1>1, <1>2 DEF Counted
<1>4. ~overlapped /\ \A t \in Sessions : t # s => ~InService(t)
  BY <1>3 DEF Begin
<1>5. ASSUME NEW t \in Sessions, InService(t)'
      PROVE  Counts(req[t])'
  <2>1. req'[t] = request
    BY <1>1, <1>4, <1>5 DEF InService
  <2>. QED  BY <1>1, <1>2, <2>1 DEF Counts, LinesOf
<1>. QED  BY <1>4, <1>5 DEF Counted

LEMMA GoOnCounted ==
    ASSUME TypeOK, Alone, Counted, NEW s \in Sessions, InService(s),
           UNCHANGED <<lines, overlapped>>,
           \A t \in Sessions : t # s => req'[t] = req[t],
           ~overlapped => Counts(req'[s])
    PROVE  Counted'
<1>1. Live' = Live
  BY DEF Live
<1>2. SUFFICES ASSUME ~overlapped
               PROVE  \A t \in Sessions : InService(t)' => Counts(req[t])'
  BY <1>1 DEF Counted
<1>3. \A t \in Sessions : t # s => ~InService(t)'
  BY <1>2 DEF Alone, InService
<1>4. Counts(req[s])'
  BY <1>1, <1>2 DEF Counts, LinesOf
<1>. QED  BY <1>3, <1>4

LEMMA EndCounted ==
    ASSUME TypeOK, Alone, NEW s \in Sessions, InService(s), End(s),
           UNCHANGED overlapped,
           ~overlapped => \A id \in Live' : lines'[id].quantity <= MaxQuantity
    PROVE  Counted'
<1>1. SUFFICES ASSUME ~overlapped
               PROVE  \A t \in Sessions : ~InService(t)'
  BY DEF Counted
<1>2. \A t \in Sessions : t # s => ~InService(t)
  BY <1>1 DEF Alone
<1>. QED  BY <1>2, EndType DEF InService

LEMMA CountedStep == TypeOK /\ Alone /\ Counted /\ [Next]_vars => Counted'
<1>. SUFFICES ASSUME TypeOK, Alone, Counted, [Next]_vars PROVE Counted'
  OBVIOUS
<1>1. CASE UNCHANGED vars
  BY <1>1 DEF vars, Counted, InService, Counts, Live, LinesOf
<1>2. ASSUME NEW s \in Sessions, NEW v \in Variants,
             NEW n \in 1 .. MaxQuantity, BeginAdd(s, v, n)
      PROVE  Counted'
  <2>. DEFINE request == [phase |-> "find", variant |-> v, asked |-> n, snap |-> lines]
  <2>1. n <= MaxQuantity
    BY CartAssumption
  <2>2. Counts(request)
    BY <1>2, <2>1 DEF Counts, BeginAdd
  <2>. QED  BY <1>2, <2>2, BeginCounted DEF BeginAdd
<1>3. ASSUME NEW s \in Sessions, NEW id \in LineIds,
             NEW n \in 1 .. MaxQuantity, BeginUpdate(s, id, n)
      PROVE  Counted'
  <2>1. PICK phase \in {"keep", "update"} :
           Begin(s, Edit(phase, id, n, Row(lines[id].variant, n)))
    BY <1>3 DEF BeginUpdate
  <2>2. n <= MaxQuantity
    BY CartAssumption
  <2>3. Counts(Edit(phase, id, n, Row(lines[id].variant, n)))
    BY <2>2 DEF Counts, Edit, Row
  <2>. QED  BY <2>1, <2>3, BeginCounted
<1>4. ASSUME NEW s \in Sessions, NEW id \in LineIds, BeginRemove(s, id)
      PROVE  Counted'
  <2>1. 0 <= MaxQuantity
    BY CartAssumption
  <2>2. Counts(Edit("delete", id, 0, NoLine))
    BY <2>1 DEF Counts, Edit, NoLine
  <2>. QED  BY <1>4, <2>2, BeginCounted DEF BeginRemove
<1>5. ASSUME NEW s \in Sessions, BeginCheckout(s)
      PROVE  Counted'
  <2>1. Counts([phase |-> "checkout", snap |-> lines])
    BY DEF Counts
  <2>. QED  BY <1>5, <2>1, BeginCounted DEF BeginCheckout
<1>6. ASSUME NEW s \in Sessions, FindNone(s)
      PROVE  Counted'
  <2>1. PICK id \in Fresh :
           req' = [req EXCEPT ![s] = Adding(s, "insert", id, req[s].asked)]
    BY <1>6 DEF FindNone
  <2>2. /\ req'[s] = Adding(s, "insert", id, req[s].asked)
        /\ \A t \in Sessions : t # s => req'[t] = req[t]
    BY <2>1 DEF TypeOK
  <2>3. InService(s)
    BY <1>6, PhaseType DEF FindNone
  <2>4. ~overlapped => Counts(req'[s])
    BY <1>6, <2>2, <2>3 DEF FindNone, Counted, Counts, Adding, Row
  <2>. QED  BY <1>6, <2>2, <2>3, <2>4, GoOnCounted DEF FindNone
<1>7. ASSUME NEW s \in Sessions, FindOne(s)
      PROVE  Counted'
  <2>1. PICK id \in LineIds :
           /\ LinesOf(req[s].variant) = {id}
           /\ req' = [req EXCEPT ![s] =
                         Adding(s, "update", id,
                                Known(s, id).quantity + req[s].asked)]
    BY <1>7 DEF FindOne
  <2>2. /\ req'[s] = Adding(s, "update", id, Known(s, id).quantity + req[s].asked)
        /\ \A t \in Sessions : t # s => req'[t] = req[t]
    BY <2>1 DEF TypeOK
  <2>3. InService(s)
    BY <1>7, PhaseType DEF FindOne
  <2>4. ~overlapped => Known(s, id) = lines[id]
    BY <1>7, <2>3 DEF FindOne, Known, Alone, KnowsCart
  <2>5. ~overlapped => Counts(req'[s])
    <3>1. SUFFICES ASSUME ~overlapped  PROVE Counts(req'[s])
      OBVIOUS
    <3>2. lines[id].quantity + req[s].asked <= MaxQuantity
      BY <1>7, <2>1, <2>3, <3>1 DEF FindOne, Counted, Counts
    <3>. QED  BY <2>2, <2>4, <3>1, <3>2 DEF Counts, Adding, Row
  <2>. QED  BY <1>7, <2>2, <2>3, <2>5, GoOnCounted DEF FindOne
<1>8. ASSUME NEW s \in Sessions,
             FindMany(s) \/ LineGone(s) \/ Abandon(s) \/ PlaceOrder(s)
      PROVE  Counted'
  <2>1. InService(s) /\ End(s) /\ UNCHANGED <<lines, overlapped>>
    BY <1>8, PhaseType DEF FindMany, LineGone, Abandon, PlaceOrder
  <2>2. ~overlapped => \A id \in Live' : lines'[id].quantity <= MaxQuantity
    BY <2>1 DEF Counted, Live
  <2>. QED  BY <2>1, <2>2, EndCounted
<1>9. ASSUME NEW s \in Sessions, LockLine(s)
      PROVE  Counted'
  <2>1. InService(s) /\ req[s] \in Editing
    BY <1>9, PhaseType DEF LockLine
  <2>2. /\ req'[s] = [req[s] EXCEPT !.phase = "commit"]
        /\ \A t \in Sessions : t # s => req'[t] = req[t]
    BY <1>9 DEF LockLine, TypeOK
  <2>3. ~overlapped => Counts(req'[s])
    BY <1>9, <2>1, <2>2 DEF LockLine, Counted, Counts, Editing
  <2>. QED  BY <1>9, <2>1, <2>2, <2>3, GoOnCounted DEF LockLine
<1>10. ASSUME NEW s \in Sessions, CommitEdit(s)
       PROVE  Counted'
  <2>1. /\ InService(s) /\ End(s) /\ UNCHANGED overlapped
        /\ req[s].phase \in {"insert", "commit"} /\ req[s].id \in LineIds
    BY <1>10, PhaseType DEF CommitEdit, Editing
  <2>2. \A id \in LineIds :
            lines'[id] = IF id = req[s].id THEN req[s].row ELSE lines[id]
    BY <1>10, <2>1 DEF CommitEdit, TypeOK
  <2>3. ~overlapped => req[s].row.quantity <= MaxQuantity
    BY <2>1 DEF Counted, Counts
  <2>4. ~overlapped => \A id \in Live' : lines'[id].quantity <= MaxQuantity
    BY <2>2, <2>3 DEF Counted, Live
  <2>. QED  BY <2>1, <2>4, EndCounted
<1>. QED
  BY <1>1, <1>2, <1>3, <1>4, <1>5, <1>6, <1>7, <1>8, <1>9, <1>10 DEF Next

LEMMA CountedInit == Init => Counted
BY DEF Init, Counted, InService, Live, NoLines

LEMMA CountedHolds == Spec => []Counted
BY TypeInit, TypeStep, AloneHolds, CountedInit, CountedStep, PTL DEF Spec

LEMMA ApartHolds == Spec => [](TypeOK /\ Apart)
BY TypeInit, TypeStep, ApartInit, ApartStep, PTL DEF Spec

LEMMA EditCounts ==
    ASSUME TypeOK, Apart, Alone, Counted, ~overlapped,
           NEW s \in Sessions, CommitEdit(s), NEW v \in Variants
    PROVE  InCart(v)' = IF v # req[s].variant THEN InCart(v)
                        ELSE IF req[s].edit = "add" THEN InCart(v) + req[s].asked
                        ELSE req[s].asked
<1>. DEFINE id == req[s].id
            row == req[s].row
            w == req[s].variant
<1>1. /\ id \in LineIds /\ row \in LineRow \union {NoLine} /\ w \in Variants
      /\ req[s].asked \in Nat /\ req[s].phase \in {"insert", "commit"}
      /\ InService(s)
  BY PhaseType DEF CommitEdit, Editing
<1>2. lines' = [lines EXCEPT ![id] = row]
  BY DEF CommitEdit
<1>3. KnowsCart(req[s]) /\ Counts(req[s]) /\ Merged
  BY <1>1 DEF Alone, Counted
<1>4. /\ row.quantity \in 0 .. MaxQuantity
      /\ \A i \in Live : lines[i].quantity \in 0 .. MaxQuantity
  BY <1>1, <1>3, CartAssumption DEF Counts, Counted, TypeOK, LineRow, NoLine, Live
<1>5. /\ InCart(v) = Units(LinesOf(v), lines)
      /\ InCart(v)' = Units(LinesOf(v)', lines')
  BY DEF InCart, Units
<1>6. PICK old : old = lines
  OBVIOUS
<1>7. PICK new : new = lines'
  OBVIOUS
<1>8. PICK was : was = LinesOf(v)
  OBVIOUS
<1>9. PICK now : now = LinesOf(v)'
  OBVIOUS
<1>10. /\ InCart(v) = Units(was, old) /\ InCart(v)' = Units(now, new)
       /\ \A i \in LineIds : new[i] = IF i = id THEN row ELSE old[i]
       /\ was = {i \in LineIds : old[i] # NoLine /\ old[i].variant = v}
       /\ now = {i \in LineIds : new[i] # NoLine /\ new[i].variant = v}
       /\ \A i, j \in was : i = j
       /\ \A i \in was : old[i].quantity \in 0 .. MaxQuantity
  <2>1. \A i \in LineIds : new[i] = IF i = id THEN row ELSE old[i]
    BY <1>1, <1>2, <1>6, <1>7 DEF TypeOK
  <2>2. /\ was = {i \in LineIds : old[i] # NoLine /\ old[i].variant = v}
        /\ now = {i \in LineIds : new[i] # NoLine /\ new[i].variant = v}
    BY <1>6, <1>7, <1>8, <1>9 DEF LinesOf, Live
  <2>3. \A i, j \in was : i = j
    BY <1>3, <1>8 DEF Merged, LinesOf
  <2>4. \A i \in was : old[i].quantity \in 0 .. MaxQuantity
    BY <1>4, <1>6, <1>8 DEF LinesOf
  <2>. QED  BY <1>5, <1>6, <1>7, <1>8, <1>9, <2>1, <2>2, <2>3, <2>4
<1>11. CASE v # w
  <2>1. now = was /\ \A i \in was : new[i] = old[i]
    <3>1. CASE req[s].phase = "insert"
      <4>1. old[id] = NoLine /\ row.variant = w
        BY <1>1, <1>3, <1>6, <3>1 DEF Apart, WritersApart, KnowsCart, Live
      <4>. QED  BY <1>1, <1>10, <1>11, <4>1
    <3>2. CASE req[s].phase = "commit"
      <4>1. old[id].variant = w /\ (row # NoLine => row.variant = w)
        BY <1>3, <1>6, <3>2 DEF KnowsCart, LinesOf
      <4>2. id \notin was /\ id \notin now
        BY <1>1, <1>10, <1>11, <4>1
      <4>3. \A i \in LineIds \ {id} : new[i] = old[i]
        BY <1>10
      <4>4. \A i : i \in now <=> i \in was
        BY <1>10, <4>2, <4>3
      <4>. QED  BY <1>10, <4>2, <4>3, <4>4
    <3>. QED  BY <1>1, <3>1, <3>2
  <2>2. CASE was = {}
    BY <1>10, <1>11, <2>1, <2>2, UnitsOfVariant
  <2>3. CASE was # {}
    <3>1. PICK i \in was : was = {i}
      BY <1>10, <2>3
    <3>2. Units(was, old) = old[i].quantity /\ Units(was, new) = new[i].quantity
      BY <1>10, <2>1, <3>1, UnitsOfVariant
    <3>3. InCart(v) = Units(was, old) /\ InCart(v)' = Units(now, new)
      BY <1>10
    <3>4. now = was /\ new[i] = old[i]
      BY <2>1
    <3>. QED  BY <1>11, <3>2, <3>3, <3>4
  <2>. QED  BY <2>2, <2>3
<1>12. CASE v = w /\ req[s].phase = "insert"
  <2>1. /\ was = {} /\ row # NoLine /\ row.variant = v
        /\ req[s].edit = "add" /\ row.quantity = req[s].asked
    BY <1>3, <1>8, <1>12 DEF KnowsCart, Counts, Apart, WritersApart
  <2>2. now = {id} /\ new[id] = row
    BY <1>1, <1>10, <2>1
  <2>3. Units(was, old) = 0 /\ Units(now, new) = row.quantity
    BY <1>4, <2>1, <2>2, UnitsOfVariant
  <2>. QED  BY <1>1, <1>10, <1>12, <2>1, <2>3
<1>13. CASE v = w /\ req[s].phase = "commit"
  <2>1. /\ id \in was /\ (row # NoLine => row.variant = v)
        /\ row.quantity = IF req[s].edit = "add"
                          THEN old[id].quantity + req[s].asked ELSE req[s].asked
    BY <1>3, <1>6, <1>8, <1>13 DEF KnowsCart, Counts
  <2>2. was = {id}
    BY <1>10, <2>1
  <2>3. Units(was, old) = old[id].quantity
    BY <1>10, <2>2, UnitsOfVariant
  <2>4. Units(now, new) = row.quantity
    <3>1. CASE row = NoLine
      <4>1. now = {}
        BY <1>1, <1>10, <2>2, <3>1
      <4>. QED  BY <3>1, <4>1, UnitsOfVariant DEF NoLine
    <3>2. CASE row # NoLine
      <4>1. now = {id} /\ new[id] = row
        BY <1>1, <1>10, <2>1, <2>2, <3>2
      <4>. QED  BY <1>4, <4>1, UnitsOfVariant
    <3>. QED  BY <3>1, <3>2
  <2>. QED  BY <1>10, <1>13, <2>1, <2>3, <2>4
<1>. QED  BY <1>1, <1>11, <1>12, <1>13

\* Edits that do not overlap count: an addition adds what was asked, a change
\* leaves what was asked, and no other variant is touched.
THEOREM EditsCount == Spec => EditsTakeEffect
<1>1. TypeOK /\ Apart /\ Alone /\ Counted /\ [Next]_vars =>
          [\A s \in Sessions :
              CommitEdit(s) /\ ~overlapped =>
                  \A v \in Variants :
                      InCart(v)' = IF v # req[s].variant THEN InCart(v)
                                   ELSE IF req[s].edit = "add"
                                   THEN InCart(v) + req[s].asked
                                   ELSE req[s].asked]_vars
  BY EditCounts
<1>. QED
  BY <1>1, ApartHolds, AloneHolds, CountedHolds, PTL DEF Spec, EditsTakeEffect

=============================================================================
