-------------------------- MODULE SheetsSyncProofs --------------------------
(***************************************************************************)
(* The mirror keeps its rows apart while row_count is exact, makes few of  *)
(* them even when it is not, never sets one back to new and empties none   *)
(* of what it remembers, for any number of tickets, spare rows,            *)
(* redeliveries, errors, lost responses and restarts.                      *)
(***************************************************************************)
EXTENDS SheetsSync, SequenceTheorems, FiniteSetTheorems, TLAPS

-----------------------------------------------------------------------------
(* Types.                                                                  *)

\* _remember keeps the memory of a ticket well-formed.
LEMMA LearntType ==
  ASSUME TypeOK, NEW f \in Facts
  PROVE  Learnt(f) \in Remembered
<1>1. f.ticket \in Tickets /\ f.kind \in Kinds
  BY DEF Facts
<1>2. cache[f.ticket] \in Remembered
  BY <1>1 DEF TypeOK
<1> QED
  BY <1>1, <1>2 DEF Learnt, Remembered, Kinds

\* Every plan yields a row of the worksheet, of the ticket the event is about; it
\* shows what is remembered of the ticket from now on.
LEMMA RowForType ==
  ASSUME TypeOK, NEW f \in Facts
  PROVE  /\ RowFor(f) \in Rows
         /\ RowFor(f).ticket = f.ticket
         /\ RowFor(f).status = "new" => f.kind = "created"
         /\ RowFor(f).details => Learnt(f).details
         /\ RowFor(f).assignee => Learnt(f).assignee
         /\ f.kind # "created" => /\ RowFor(f).details = Learnt(f).details
                                  /\ RowFor(f).assignee = Learnt(f).assignee
<1>1. f.ticket \in Tickets /\ f.kind \in Kinds
  BY DEF Facts
<1>2. Learnt(f) \in Remembered /\ cache[f.ticket] \in Remembered
  BY <1>1, LearntType DEF TypeOK
<1>3. CASE f.kind = "created"
  <2>1. Learnt(f).details
    BY <1>2, <1>3 DEF Learnt, Remembered
  <2> QED
    BY <1>1, <1>3, <2>1 DEF RowFor, Rows
<1>4. CASE f.kind = "assigned"
  <2>1. Learnt(f).assignee = TRUE
    BY <1>2, <1>4 DEF Learnt, Remembered
  <2> QED
    BY <1>1, <1>2, <1>4, <2>1 DEF RowFor, Rows, Remembered
<1>5. CASE f.kind = "closed"
  BY <1>1, <1>2, <1>5 DEF RowFor, Rows, Remembered
<1> QED
  BY <1>1, <1>3, <1>4, <1>5 DEF Kinds

\* _remember forgets nothing.
LEMMA LearntKeeps ==
  ASSUME TypeOK, NEW f \in Facts
  PROVE  /\ cache[f.ticket].details => Learnt(f).details
         /\ cache[f.ticket].assignee => Learnt(f).assignee
<1>1. f.kind \in Kinds /\ cache[f.ticket] \in Remembered
  BY DEF Facts, TypeOK
<1> QED
  BY <1>1 DEF Learnt, Kinds, Remembered

\* Taking the next item leaves a queue of facts.
LEMMA NextItemType ==
  ASSUME TypeOK, NEW f \in Facts, NextItem(f)
  PROVE  queue' \in Seq(Facts)
BY DEF TypeOK, NextItem

\* What the worksheet looks like when it has taken a row: an appended one is new,
\* an update goes to its number.
LEMMA Filled ==
  ASSUME TypeOK, NEW w \in working, NEW n \in 1..(grid + 1), Fill(w, n)
  PROVE  /\ n # 0 /\ ~w.written
         /\ DOMAIN sheet' = DOMAIN sheet \cup {n} /\ sheet'[n] = w.row
         /\ \A i \in DOMAIN sheet : i # n => sheet'[i] = sheet[i]
         /\ w.at = 0 => n \notin DOMAIN sheet
         /\ w.at # 0 => n = w.at
         /\ grid' \in Nat /\ DOMAIN sheet' \subseteq 1..grid'
         /\ sheet' \in [DOMAIN sheet' -> Rows]
<1>1. /\ w.at \in Nat /\ w.row \in Rows /\ grid \in Nat
      /\ sheet \in [DOMAIN sheet -> Rows] /\ DOMAIN sheet \subseteq 1..grid
  BY DEF TypeOK
<1>2. sheet' = [i \in DOMAIN sheet \cup {n} |-> IF i = n THEN w.row ELSE sheet[i]]
  BY DEF Fill
<1>3. n # 0 /\ ~w.written /\ (w.at # 0 => n = w.at)
  BY <1>1 DEF Fill, Lands
<1>4. w.at = 0 => n \notin DOMAIN sheet
  <2> SUFFICES ASSUME w.at = 0, n \in DOMAIN sheet
               PROVE  FALSE
    OBVIOUS
  <2>1. n < n
    BY DEF Fill, Lands
  <2> QED
    BY <1>1, <2>1
<1>5. grid' \in Nat /\ DOMAIN sheet' \subseteq 1..grid'
  <2>1. grid' = IF n > grid THEN n ELSE grid
    BY DEF Fill
  <2>2. \A i \in 1..grid : i \in 1..grid'
    BY <1>1, <2>1
  <2>3. grid' \in Nat /\ n \in 1..grid'
    BY <1>1, <2>1
  <2> QED
    BY <1>1, <1>2, <2>2, <2>3
<1>6. sheet' \in [DOMAIN sheet' -> Rows]
  BY <1>1, <1>2
<1> QED
  BY <1>2, <1>3, <1>4, <1>5, <1>6

\* append_or_update leaves the rows of the worksheet rows.
LEMMA WriteType ==
  ASSUME TypeOK, NEW w \in working, Write(w)
  PROVE  TypeOK'
<1>1. PICK n \in 1..(grid + 1) : Fill(w, n)
  BY DEF Write
<1>2. /\ grid' \in Nat /\ DOMAIN sheet' \subseteq 1..grid'
      /\ sheet' \in [DOMAIN sheet' -> Rows]
  BY <1>1, Filled
<1>3. w \in [fact : Facts, row : Rows, at : Nat, written : BOOLEAN] /\ AppendedAt \in Nat
  BY DEF TypeOK, AppendedAt
<1>4. counted' \in Nat
  BY <1>3 DEF Write, TypeOK
<1>5. working' \subseteq [fact : Facts, row : Rows, at : Nat, written : BOOLEAN]
  <2> DEFINE at == IF w.at = 0 THEN AppendedAt ELSE w.at
  <2>1. at \in Nat
    BY <1>3
  <2>2. working' = {[w EXCEPT !.written = TRUE, !.at = at]}
    BY DEF Write
  <2> HIDE DEF at
  <2>3. [w EXCEPT !.written = TRUE, !.at = at] \in
          [fact : Facts, row : Rows, at : Nat, written : BOOLEAN]
    BY <1>3, <2>1
  <2> QED
    BY <2>2, <2>3
<1> QED
  BY <1>2, <1>4, <1>5 DEF Write, TypeOK

\* What a fault costs is counted and noted.
LEMMA FaultType ==
  ASSUME TypeOK, NEW what \in {"error", "unanswered", "restart"}, Fault(what)
  PROVE  /\ left' \in [redelivery : Nat, fault : Nat]
         /\ left'.fault = left.fault - 1
         /\ upsets' \subseteq {"spare", "error", "unanswered", "restart"}
<1>1. left \in [redelivery : Nat, fault : Nat]
  BY DEF TypeOK
<1> QED
  BY <1>1 DEF Fault, TypeOK

\* An item given up leaves the worker with nothing to do.
LEMMA GiveUpType ==
  ASSUME TypeOK, NEW w \in working, GiveUp(w)
  PROVE  working' = {} /\ dropped' \subseteq Facts
         /\ UNCHANGED <<published, streams, queue, cache, processed, rowOf>>
<1>1. w.fact \in Facts
  BY DEF TypeOK
<1> QED
  BY <1>1 DEF GiveUp, TypeOK

\* The initial state is well-typed.
LEMMA TypeInit == Init => TypeOK
<1> SUFFICES ASSUME Init
             PROVE  TypeOK
  OBVIOUS
<1>1. << >> \in Seq(Facts) /\ DOMAIN sheet = {} /\ sheet \in [DOMAIN sheet -> Rows]
  BY DEF Init
<1>2. grid \in Nat /\ counted \in Nat /\ upsets \subseteq {"spare", "error", "unanswered", "restart"}
  BY BoundsAssumption DEF Init
<1> QED
  BY <1>1, <1>2, BoundsAssumption DEF Init, TypeOK, Remembered, NothingKnown

\* Every step keeps the types.
LEMMA TypeStep == TypeOK /\ [Next]_vars => TypeOK'
<1> SUFFICES ASSUME TypeOK, [Next]_vars
             PROVE  TypeOK'
  OBVIOUS
<1>1. ASSUME NEW f \in Facts, Announce(f) PROVE TypeOK'
  BY <1>1 DEF Announce, TypeOK, worksheet
<1>2. ASSUME NEW f \in Facts, Enqueue(f) PROVE TypeOK'
  <2>1. queue' \in Seq(Facts)
    BY <1>2 DEF Enqueue, TypeOK
  <2>2. streams' \subseteq Facts /\ left' \in [redelivery : Nat, fault : Nat]
    BY <1>2 DEF Enqueue, TypeOK
  <2> QED
    BY <1>2, <2>1, <2>2 DEF Enqueue, TypeOK, worksheet
<1>3. ASSUME NEW f \in Facts, Skip(f) PROVE TypeOK'
  <2>1. f.ticket \in Tickets
    BY DEF Facts
  <2>2. cache' \in [Tickets -> Remembered]
    BY <1>3, <2>1, LearntType DEF Skip, TypeOK
  <2>3. queue' \in Seq(Facts)
    BY <1>3, NextItemType DEF Skip
  <2> QED
    BY <1>3, <2>2, <2>3 DEF Skip, TypeOK, worksheet
<1>4. ASSUME NEW f \in Facts, Plan(f) PROVE TypeOK'
  <2>1. f.ticket \in Tickets
    BY DEF Facts
  <2>2. cache' \in [Tickets -> Remembered]
    <3>1. Learnt(f) \in Remembered
      BY LearntType
    <3>2. cache' = [cache EXCEPT ![f.ticket] = Learnt(f)]
      BY <1>4 DEF Plan
    <3> QED
      BY <3>1, <3>2 DEF TypeOK
  <2>3. queue' \in Seq(Facts)
    BY <1>4, NextItemType DEF Plan
  <2>4. ExistingRow(f) \in Nat
    BY <2>1 DEF ExistingRow, TypeOK
  <2>5. RowFor(f) \in Rows
    BY RowForType
  <2>6. working' = {[fact |-> f, row |-> RowFor(f), at |-> ExistingRow(f), written |-> FALSE]}
    BY <1>4 DEF Plan
  <2>7. working' \subseteq [fact : Facts, row : Rows, at : Nat, written : BOOLEAN]
    BY <2>4, <2>5, <2>6
  <2> QED
    BY <1>4, <2>2, <2>3, <2>7 DEF Plan, TypeOK, worksheet
<1>5. ASSUME NEW w \in working, Write(w) PROVE TypeOK'
  BY <1>5, WriteType
<1>6. ASSUME NEW w \in working, Commit(w) PROVE TypeOK'
  <2>1. w.fact \in Facts /\ w.at \in Nat
    BY DEF TypeOK
  <2>2. rowOf' \in [Tickets -> Nat] /\ processed' \subseteq Facts /\ working' = {}
    BY <1>6, <2>1 DEF Commit, TypeOK
  <2> QED
    BY <1>6, <2>2 DEF Commit, TypeOK, worksheet
<1>7. ASSUME NEW w \in working, Refused(w) PROVE TypeOK'
  BY <1>7, GiveUpType DEF Refused, TypeOK, worksheet
<1>8. ASSUME NEW w \in working, WorkerFailure(w) PROVE TypeOK'
  BY <1>8, GiveUpType, FaultType DEF WorkerFailure, TypeOK, worksheet
<1>9. ASSUME NEW w \in working, Unanswered(w) PROVE TypeOK'
  <2>1. PICK n \in 1..(grid + 1) : Fill(w, n)
    BY <1>9 DEF Unanswered
  <2>2. /\ grid' \in Nat /\ DOMAIN sheet' \subseteq 1..grid'
        /\ sheet' \in [DOMAIN sheet' -> Rows]
    BY <2>1, Filled
  <2> QED
    BY <1>9, <2>2, GiveUpType, FaultType DEF Unanswered, TypeOK
<1>10. CASE Restart
  <2>1. queue' \in Seq(Facts) /\ working' = {} /\ counted' \in Nat
    BY <1>10 DEF Restart, TypeOK
  <2>2. cache' \in [Tickets -> Remembered]
    BY <1>10 DEF Restart, Remembered, NothingKnown
  <2>3. \A w \in working : w.fact \in Facts
    BY DEF TypeOK
  <2>4. \A i \in DOMAIN queue : queue[i] \in Facts
    BY DEF TypeOK
  <2>5. dropped' \subseteq Facts
    BY <1>10, <2>3, <2>4 DEF Restart, TypeOK
  <2> QED
    BY <1>10, <2>1, <2>2, <2>5, FaultType DEF Restart, TypeOK
<1>11. CASE UNCHANGED vars
  BY <1>11 DEF vars, TypeOK, worksheet
<1> QED
  BY <1>1, <1>2, <1>3, <1>4, <1>5, <1>6, <1>7, <1>8, <1>9, <1>10, <1>11 DEF Next, Progress

\* Every variable of sheets-sync keeps its type.
THEOREM TypeCorrect == Spec => []TypeOK
<1> QED
  BY TypeInit, TypeStep, PTL DEF Spec

-----------------------------------------------------------------------------
(* Counting the rows of a ticket.                                          *)

\* The rows of a ticket can be counted.
LEMMA RowsFinite ==
  ASSUME TypeOK, NEW t
  PROVE  /\ IsFiniteSet(RowsOf(t)) /\ IsFiniteSet(AppendedFor(t))
         /\ Cardinality(RowsOf(t)) \in Nat /\ Cardinality(AppendedFor(t)) \in Nat
<1>1. RowsOf(t) \subseteq 1..grid /\ AppendedFor(t) \subseteq 1..grid
  BY DEF TypeOK, RowsOf, AppendedFor
<1>2. IsFiniteSet(1..grid)
  BY FS_Interval DEF TypeOK
<1> QED
  BY <1>1, <1>2, FS_Subset, FS_CardinalityType

AccountOf(t) ==
  Cardinality(AppendedFor(t)) <= (IF Placed(t) THEN 1 ELSE 0) + (MaxFault - left.fault)

\* A step that appends no row for a ticket, and loses its number only by a fault.
LEMMA NoRowMade ==
  ASSUME TypeOK, TypeOK', NEW t \in Tickets, AccountOf(t),
         AppendedFor(t)' \subseteq AppendedFor(t),
         \/ left'.fault = left.fault /\ (Placed(t) => Placed(t)')
         \/ left'.fault = left.fault - 1
  PROVE  AccountOf(t)'
<1> DEFINE k == Cardinality(AppendedFor(t))
           l == Cardinality(AppendedFor(t)')
           p == IF Placed(t) THEN 1 ELSE 0
           q == IF Placed(t)' THEN 1 ELSE 0
<1>1. l \in Nat /\ k \in Nat /\ l <= k
  BY RowsFinite, FS_Subset, FS_CardinalityType
<1>2. MaxFault \in Nat /\ left.fault \in Nat /\ left'.fault \in Nat
  BY BoundsAssumption DEF TypeOK
<1>3. p \in 0..1 /\ q \in 0..1 /\ (Placed(t) => p = 1) /\ (~Placed(t) => p = 0)
      /\ (Placed(t)' => q = 1)
  OBVIOUS
<1>4. k <= p + (MaxFault - left.fault)
  BY DEF AccountOf
<1> HIDE DEF k, l, p, q
<1>5. l <= q + (MaxFault - left'.fault)
  <2>1. CASE left'.fault = left.fault /\ (Placed(t) => Placed(t)')
    BY <1>1, <1>2, <1>3, <1>4, <2>1
  <2>2. CASE left'.fault = left.fault - 1
    BY <1>1, <1>2, <1>3, <1>4, <2>2
  <2> QED
    BY <2>1, <2>2
<1> QED
  BY <1>5 DEF AccountOf, l, q

\* A step that appends a row for a ticket that had none placed, and places it or
\* is a fault.
LEMMA RowMade ==
  ASSUME TypeOK, TypeOK', NEW t \in Tickets, AccountOf(t), ~Placed(t),
         NEW n, AppendedFor(t)' \subseteq AppendedFor(t) \cup {n},
         \/ left'.fault = left.fault /\ Placed(t)'
         \/ left'.fault = left.fault - 1
  PROVE  AccountOf(t)'
<1> DEFINE k == Cardinality(AppendedFor(t))
           m == Cardinality(AppendedFor(t) \cup {n})
           l == Cardinality(AppendedFor(t)')
           q == IF Placed(t)' THEN 1 ELSE 0
<1>1. k \in Nat /\ IsFiniteSet(AppendedFor(t) \cup {n}) /\ (m = k \/ m = k + 1)
  BY RowsFinite, FS_AddElement
<1>2. l \in Nat /\ m \in Nat /\ l <= m
  BY <1>1, RowsFinite, FS_Subset, FS_CardinalityType
<1>3. MaxFault \in Nat /\ left.fault \in Nat /\ left'.fault \in Nat
  BY BoundsAssumption DEF TypeOK
<1>4. q \in 0..1 /\ (Placed(t)' => q = 1)
  OBVIOUS
<1>5. k <= MaxFault - left.fault
  BY <1>3 DEF AccountOf
<1> HIDE DEF k, l, m, q
<1>6. l <= q + (MaxFault - left'.fault)
  <2>1. CASE left'.fault = left.fault /\ Placed(t)'
    BY <1>1, <1>2, <1>3, <1>4, <1>5, <2>1
  <2>2. CASE left'.fault = left.fault - 1
    BY <1>1, <1>2, <1>3, <1>4, <1>5, <2>2
  <2> QED
    BY <2>1, <2>2
<1> QED
  BY <1>6 DEF AccountOf, l, q

-----------------------------------------------------------------------------
(* The worker.                                                             *)

\* What is at work: one item, typed.
LEMMA Item ==
  ASSUME IInv, NEW w \in working
  PROVE  /\ w \in [fact : Facts, row : Rows, at : Nat, written : BOOLEAN]
         /\ w.fact \in Facts /\ w.fact.ticket \in Tickets /\ w.fact.kind \in Kinds
         /\ w.fact = [kind |-> w.fact.kind, ticket |-> w.fact.ticket]
         /\ AtWork(w) /\ working = {w}
         /\ w.at = 0 => w.fact.kind = "created" /\ ~w.written
<1>1. w \in [fact : Facts, row : Rows, at : Nat, written : BOOLEAN]
  BY DEF IInv, TypeOK
<1>2. AtWork(w) /\ \A v \in working : v = w
  BY DEF IInv
<1>3. w.at = 0 => w.fact.kind = "created" /\ ~w.written
  BY <1>1, <1>2 DEF AtWork
<1> QED
  BY <1>1, <1>2, <1>3 DEF Facts

\* A step in which the worker does nothing.
LEMMA WorkRests ==
  ASSUME IInv, TypeOK', left'.fault = left.fault,
         UNCHANGED <<working, rowOf, worksheet, processed, cache, upsets>>
  PROVE  IInv'
<1>1. \A t \in Tickets : AccountOf(t)'
  <2> TAKE t \in Tickets
  <2>1. AppendedFor(t)' \subseteq AppendedFor(t) /\ (Placed(t) => Placed(t)')
    BY DEF AppendedFor, RowsOf, Exact, Placed, worksheet
  <2> QED
    BY <2>1, NoRowMade DEF IInv, Accounted, AccountOf
<1>2. \A w \in working : AtWork(w)'
  BY DEF IInv, AtWork
<1>3. RowFromCreated' /\ MemoryHolds' /\ WorkRemembered' /\ CountHolds'
  BY DEF IInv, RowFromCreated, MemoryHolds, WorkRemembered, CountHolds, OwnRow, Exact, worksheet
<1> QED
  BY <1>1, <1>2, <1>3 DEF IInv, Accounted, AccountOf

\* A step after which nothing is at work, with neither the worksheet nor a row
\* number changed: an item skipped, refused or failed, or a restart.
LEMMA WorkEnds ==
  ASSUME IInv, TypeOK', working' = {}, rowOf' = rowOf, sheet' = sheet, grid' = grid,
         processed \subseteq processed', upsets \subseteq upsets',
         Exact' = Exact, counted' \in {counted, grid},
         "restart" \notin upsets' =>
           \A t \in Tickets : /\ cache[t].details => cache'[t].details
                              /\ cache[t].assignee => cache'[t].assignee,
         \/ left'.fault = left.fault /\ \A w \in working : ~w.written
         \/ left'.fault = left.fault - 1
  PROVE  IInv'
<1>1. \A t \in Tickets : AccountOf(t)'
  <2> TAKE t \in Tickets
  <2>1. AppendedFor(t)' \subseteq AppendedFor(t)
    BY DEF AppendedFor, RowsOf
  <2>2. (\A w \in working : ~w.written) => (Placed(t) => Placed(t)')
    BY DEF Placed
  <2> QED
    BY <2>1, <2>2, NoRowMade DEF IInv, Accounted, AccountOf
<1>2. RowFromCreated'
  BY DEF IInv, RowFromCreated
<1>3. MemoryHolds' /\ WorkRemembered'
  <2>1. \A n \in DOMAIN sheet : sheet[n].ticket \in Tickets
    BY DEF IInv, TypeOK, Rows
  <2>2. WorkRemembered'
    BY DEF WorkRemembered
  <2>3. ASSUME "restart" \notin upsets' PROVE MemoryHolds'
    <3> SUFFICES ASSUME NEW n \in DOMAIN sheet
                 PROVE  /\ sheet[n].details => cache'[sheet[n].ticket].details
                        /\ sheet[n].assignee => cache'[sheet[n].ticket].assignee
      BY DEF MemoryHolds
    <3>1. MemoryHolds /\ "restart" \notin upsets /\ sheet[n].ticket \in Tickets
      BY <2>1, <2>3 DEF IInv
    <3>2. /\ sheet[n].details => cache[sheet[n].ticket].details
          /\ sheet[n].assignee => cache[sheet[n].ticket].assignee
      BY <3>1 DEF MemoryHolds
    <3>3. \A t \in Tickets : /\ cache[t].details => cache'[t].details
                             /\ cache[t].assignee => cache'[t].assignee
      BY <2>3
    <3> QED
      BY <3>1, <3>2, <3>3
  <2> QED
    BY <2>2, <2>3 DEF MemoryHolds
<1>4. CountHolds'
  BY DEF IInv, CountHolds, OwnRow
<1> QED
  BY <1>1, <1>2, <1>3, <1>4 DEF IInv, Accounted, AccountOf

\* A `created' not yet marked finds no row number of its ticket; any other item
\* is planned for the row its ticket has.
LEMMA PlanKeeps ==
  ASSUME IInv, TypeOK', NEW f \in Facts, Plan(f)
  PROVE  IInv'
<1> DEFINE new == [fact |-> f, row |-> RowFor(f), at |-> ExistingRow(f), written |-> FALSE]
<1>1. working' = {new} /\ working = {} /\ cache' = [cache EXCEPT ![f.ticket] = Learnt(f)]
      /\ UNCHANGED <<rowOf, worksheet, processed, upsets, left>>
  BY DEF Plan, NextItem
<1>2. f.ticket \in Tickets /\ f = [kind |-> f.kind, ticket |-> f.ticket]
  BY DEF Facts
<1>3. f \notin processed /\ (f.kind # "created" => rowOf[f.ticket] # 0)
  BY DEF Plan, Seen
<1>4. f.kind = "created" => rowOf[f.ticket] = 0
  BY <1>2, <1>3 DEF IInv, RowFromCreated
<1>5. /\ RowFor(f).ticket = f.ticket /\ (RowFor(f).status = "new" => f.kind = "created")
      /\ (RowFor(f).details => Learnt(f).details) /\ (RowFor(f).assignee => Learnt(f).assignee)
      /\ f.kind # "created" => /\ RowFor(f).details = Learnt(f).details
                               /\ RowFor(f).assignee = Learnt(f).assignee
  BY RowForType DEF IInv
<1>6. cache'[f.ticket] = Learnt(f) /\ \A t \in Tickets : t # f.ticket => cache'[t] = cache[t]
  BY <1>1, <1>2 DEF IInv, TypeOK
<1>7. \A t \in Tickets : /\ cache[t].details => cache'[t].details
                         /\ cache[t].assignee => cache'[t].assignee
  BY <1>2, <1>6, LearntKeeps DEF IInv
<1>8. ASSUME NEW v \in working' PROVE AtWork(v)'
  <2>1. v = new
    BY <1>1
  <2> QED
    BY <1>1, <1>3, <1>4, <1>5, <1>6, <2>1 DEF AtWork, ExistingRow
<1>9. RowFromCreated'
  BY <1>1 DEF IInv, RowFromCreated
<1>10. MemoryHolds'
  <2>1. \A n \in DOMAIN sheet : sheet[n].ticket \in Tickets
    BY DEF IInv, TypeOK, Rows
  <2> QED
    BY <1>1, <1>7, <2>1 DEF IInv, MemoryHolds, worksheet
<1>11. WorkRemembered'
  BY <1>1, <1>5, <1>6 DEF WorkRemembered
<1>12. CountHolds'
  <2>1. Exact' = Exact /\ OwnRow' = OwnRow
    BY <1>1 DEF Exact, OwnRow, worksheet
  <2>2. Exact /\ new.at # 0 => new.at \in DOMAIN sheet /\ sheet[new.at].ticket = new.fact.ticket
    BY <1>2 DEF IInv, CountHolds, OwnRow, ExistingRow
  <2> HIDE DEF new
  <2> QED
    BY <1>1, <2>1, <2>2 DEF IInv, CountHolds, worksheet
<1>13. \A t \in Tickets : AccountOf(t)'
  <2> TAKE t \in Tickets
  <2>1. AppendedFor(t)' \subseteq AppendedFor(t) /\ (Placed(t) => Placed(t)')
    BY <1>1 DEF AppendedFor, RowsOf, Exact, Placed, worksheet
  <2> QED
    BY <1>1, <2>1, NoRowMade DEF IInv, Accounted, AccountOf
<1>14. \A v, w \in working' : v = w
  BY <1>1
<1> QED
  BY <1>8, <1>9, <1>10, <1>11, <1>12, <1>13, <1>14 DEF IInv, Accounted, AccountOf

\* What a row taken by the worksheet does to the rows of a ticket: an appended one
\* is one more for its own ticket, an update goes to a row already counted.
LEMMA FilledRows ==
  ASSUME IInv, NEW w \in working, NEW n \in 1..(grid + 1), Fill(w, n),
         rowOf' = rowOf, upsets \subseteq upsets', NEW t \in Tickets
  PROVE  IF w.at = 0 /\ t = w.fact.ticket
         THEN ~Placed(t) /\ AppendedFor(t)' \subseteq AppendedFor(t) \cup {n}
         ELSE AppendedFor(t)' \subseteq AppendedFor(t)
<1>1. /\ w.fact.ticket \in Tickets /\ AtWork(w) /\ working = {w}
      /\ w.at = 0 => w.fact.kind = "created"
      /\ w.fact = [kind |-> w.fact.kind, ticket |-> w.fact.ticket]
  BY Item
<1>2. /\ n # 0 /\ ~w.written
      /\ DOMAIN sheet' = DOMAIN sheet \cup {n} /\ sheet'[n] = w.row
      /\ \A i \in DOMAIN sheet : i # n => sheet'[i] = sheet[i]
      /\ w.at # 0 => n = w.at
  BY Filled DEF IInv
<1>3. w.row.ticket = w.fact.ticket
  BY <1>1 DEF AtWork
<1>4. Exact' => Exact
  BY DEF Exact
<1>5. RowsOf(t)' \subseteq RowsOf(t) \cup {n} /\ (t # w.fact.ticket => RowsOf(t)' \subseteq RowsOf(t))
  BY <1>2, <1>3 DEF RowsOf
<1>6. CASE w.at = 0 /\ t = w.fact.ticket
  <2>1. rowOf[t] = 0
    BY <1>1, <1>6 DEF AtWork, IInv, RowFromCreated
  <2>2. ~Placed(t)
    BY <1>1, <1>2, <2>1 DEF Placed
  <2>3. 0 \notin RowsOf(t)
    BY DEF IInv, TypeOK, RowsOf
  <2> QED
    BY <1>5, <1>6, <2>1, <2>2, <2>3 DEF AppendedFor
<1>7. CASE t # w.fact.ticket
  BY <1>4, <1>5, <1>7 DEF AppendedFor
<1>8. CASE w.at # 0 /\ t = w.fact.ticket
  <2>1. n = rowOf[t]
    <3>1. w.fact.kind # "created" /\ w.at = rowOf[t]
      BY <1>1, <1>2, <1>8 DEF AtWork
    <3> QED
      BY <1>2, <1>8, <3>1
  <2>2. CASE Exact
    <3>1. n \in RowsOf(t)
      BY <1>1, <1>2, <1>8, <2>2 DEF IInv, CountHolds, RowsOf
    <3> QED
      BY <1>5, <1>8, <2>2, <3>1 DEF AppendedFor
  <2>3. CASE ~Exact
    BY <1>4, <1>5, <1>8, <2>1, <2>3 DEF AppendedFor
  <2> QED
    BY <2>2, <2>3
<1> QED
  BY <1>6, <1>7, <1>8

\* While the count is exact, a row goes to the end of the grid or to a row of its
\* own ticket.
LEMMA FilledExact ==
  ASSUME IInv, Exact, NEW w \in working, NEW n \in 1..(grid + 1), Fill(w, n)
  PROVE  /\ DOMAIN sheet' = 1..grid' /\ grid' \in Nat
         /\ w.at = 0 => n = AppendedAt /\ grid' = counted + 1
         /\ w.at # 0 => grid' = counted
         /\ \A i \in DOMAIN sheet : i \in DOMAIN sheet' /\ sheet'[i].ticket = sheet[i].ticket
         /\ n \in DOMAIN sheet' /\ sheet'[n].ticket = w.fact.ticket
<1>1. counted = grid /\ DOMAIN sheet = 1..grid /\ grid \in Nat
  BY DEF IInv, CountHolds, TypeOK
<1>2. /\ n # 0
      /\ DOMAIN sheet' = DOMAIN sheet \cup {n} /\ sheet'[n] = w.row
      /\ \A i \in DOMAIN sheet : i # n => sheet'[i] = sheet[i]
      /\ w.at = 0 => n \notin DOMAIN sheet
      /\ w.at # 0 => n = w.at
  BY Filled DEF IInv
<1>3. grid' = IF n > grid THEN n ELSE grid
  BY DEF Fill
<1>4. w.row.ticket = w.fact.ticket
  BY Item DEF AtWork
<1>5. CASE w.at = 0
  <2>1. n = grid + 1
    BY <1>1, <1>2, <1>5
  <2>2. grid' = grid + 1 /\ DOMAIN sheet' = 1..(grid + 1)
    BY <1>1, <1>2, <1>3, <2>1
  <2> QED
    BY <1>1, <1>2, <1>4, <1>5, <2>1, <2>2 DEF AppendedAt
<1>6. CASE w.at # 0
  <2>1. n \in DOMAIN sheet /\ sheet[n].ticket = w.fact.ticket
    BY <1>2, <1>6 DEF IInv, CountHolds
  <2>2. grid' = grid /\ DOMAIN sheet' = 1..grid
    BY <1>1, <1>2, <1>3, <2>1
  <2> QED
    BY <1>1, <1>2, <1>4, <1>6, <2>1, <2>2
<1> QED
  BY <1>5, <1>6

\* What a row taken shows is remembered.
LEMMA FilledMemory ==
  ASSUME IInv, NEW w \in working, NEW n \in 1..(grid + 1), Fill(w, n),
         cache' = cache, upsets \subseteq upsets'
  PROVE  MemoryHolds'
<1> SUFFICES ASSUME "restart" \notin upsets', NEW i \in DOMAIN sheet'
             PROVE  /\ sheet'[i].details => cache[sheet'[i].ticket].details
                    /\ sheet'[i].assignee => cache[sheet'[i].ticket].assignee
  BY DEF MemoryHolds
<1>1. /\ DOMAIN sheet' = DOMAIN sheet \cup {n} /\ sheet'[n] = w.row
      /\ \A j \in DOMAIN sheet : j # n => sheet'[j] = sheet[j]
  BY Filled DEF IInv
<1>2. "restart" \notin upsets /\ w.row.ticket = w.fact.ticket
  BY Item DEF AtWork
<1>3. CASE i = n
  BY <1>1, <1>2, <1>3 DEF IInv, WorkRemembered
<1>4. CASE i # n
  BY <1>1, <1>2, <1>4 DEF IInv, MemoryHolds
<1> QED
  BY <1>3, <1>4

\* The row written becomes the item's own, under the number counted.
LEMMA WriteKeeps ==
  ASSUME IInv, TypeOK', NEW w \in working, Write(w)
  PROVE  IInv'
<1> DEFINE at == IF w.at = 0 THEN AppendedAt ELSE w.at
           done == [w EXCEPT !.written = TRUE, !.at = at]
<1>1. PICK n \in 1..(grid + 1) : Fill(w, n)
  BY DEF Write
<1>2. /\ working' = {done} /\ counted' = IF w.at = 0 THEN AppendedAt ELSE counted
      /\ UNCHANGED <<processed, rowOf, cache, upsets, left>>
  BY DEF Write
<1>3. /\ w \in [fact : Facts, row : Rows, at : Nat, written : BOOLEAN]
      /\ w.fact.ticket \in Tickets /\ AtWork(w) /\ working = {w}
      /\ w.at = 0 => w.fact.kind = "created"
  BY Item
<1>4. at \in Nat /\ at # 0
  BY <1>3 DEF IInv, TypeOK, AppendedAt
<1> HIDE DEF at
<1>5. done.fact = w.fact /\ done.row = w.row /\ done.at = at /\ done.written = TRUE
  BY <1>3
<1>6. w.at # 0 => at = w.at
  BY DEF at
<1> HIDE DEF done
<1>7. ~w.written
  BY <1>1 DEF Fill
<1>8. ASSUME NEW v \in working' PROVE AtWork(v)'
  <2>1. v = done
    BY <1>2
  <2> QED
    BY <1>2, <1>3, <1>4, <1>5, <1>6, <1>7, <2>1 DEF AtWork
<1>9. RowFromCreated' /\ WorkRemembered'
  BY <1>2, <1>5 DEF IInv, RowFromCreated, WorkRemembered
<1>10. MemoryHolds'
  BY <1>1, <1>2, FilledMemory
<1>11. CountHolds'
  <2> SUFFICES ASSUME Exact'
               PROVE  /\ counted' = grid' /\ DOMAIN sheet' = 1..grid' /\ OwnRow'
                      /\ at \in DOMAIN sheet' /\ sheet'[at].ticket = w.fact.ticket
    BY <1>2, <1>5 DEF CountHolds
  <2>1. Exact
    BY <1>2 DEF Exact
  <2>2. /\ DOMAIN sheet' = 1..grid'
        /\ w.at = 0 => n = AppendedAt /\ grid' = counted + 1
        /\ w.at # 0 => grid' = counted
        /\ \A i \in DOMAIN sheet : i \in DOMAIN sheet' /\ sheet'[i].ticket = sheet[i].ticket
        /\ n \in DOMAIN sheet' /\ sheet'[n].ticket = w.fact.ticket
    BY <1>1, <2>1, FilledExact
  <2>3. n = at
    BY <1>1, <2>2, Filled DEF at, IInv
  <2>4. counted' = grid'
    BY <1>2, <2>2 DEF AppendedAt
  <2>5. OwnRow'
    BY <1>2, <2>1, <2>2 DEF IInv, CountHolds, OwnRow
  <2> QED
    BY <2>2, <2>3, <2>4, <2>5
<1>12. \A t \in Tickets : AccountOf(t)'
  <2> TAKE t \in Tickets
  <2>1. IF w.at = 0 /\ t = w.fact.ticket
        THEN ~Placed(t) /\ AppendedFor(t)' \subseteq AppendedFor(t) \cup {n}
        ELSE AppendedFor(t)' \subseteq AppendedFor(t)
    BY <1>1, <1>2, FilledRows
  <2>2. Placed(w.fact.ticket)'
    BY <1>2, <1>5 DEF Placed
  <2>3. Placed(t) => Placed(t)'
    BY <1>2, <1>3, <1>7 DEF Placed
  <2>4. AccountOf(t) /\ left'.fault = left.fault
    BY <1>2 DEF IInv, Accounted, AccountOf
  <2>5. CASE w.at = 0 /\ t = w.fact.ticket
    BY <2>1, <2>2, <2>4, <2>5, RowMade DEF IInv
  <2>6. CASE ~(w.at = 0 /\ t = w.fact.ticket)
    BY <2>1, <2>3, <2>4, <2>6, NoRowMade DEF IInv
  <2> QED
    BY <2>5, <2>6
<1>13. \A u, v \in working' : u = v
  BY <1>2
<1> QED
  BY <1>8, <1>9, <1>10, <1>11, <1>12, <1>13 DEF IInv, Accounted, AccountOf

\* A row whose response is lost makes the count inexact; nobody knows its number.
LEMMA UnansweredKeeps ==
  ASSUME IInv, TypeOK', NEW w \in working, Unanswered(w)
  PROVE  IInv'
<1>1. PICK n \in 1..(grid + 1) : Fill(w, n)
  BY DEF Unanswered
<1>2. /\ working' = {} /\ upsets' = upsets \cup {"unanswered"}
      /\ UNCHANGED <<processed, rowOf, cache>>
  BY DEF Unanswered, GiveUp, Fault
<1>3. left'.fault = left.fault - 1
  BY FaultType DEF Unanswered, IInv
<1>4. RowFromCreated' /\ WorkRemembered'
  BY <1>2 DEF IInv, RowFromCreated, WorkRemembered
<1>5. MemoryHolds'
  BY <1>1, <1>2, FilledMemory
<1>6. CountHolds'
  BY <1>2 DEF CountHolds, Exact
<1>7. \A t \in Tickets : AccountOf(t)'
  <2> TAKE t \in Tickets
  <2>1. IF w.at = 0 /\ t = w.fact.ticket
        THEN ~Placed(t) /\ AppendedFor(t)' \subseteq AppendedFor(t) \cup {n}
        ELSE AppendedFor(t)' \subseteq AppendedFor(t)
    BY <1>1, <1>2, FilledRows
  <2>2. AccountOf(t)
    BY DEF IInv, Accounted, AccountOf
  <2>3. CASE w.at = 0 /\ t = w.fact.ticket
    BY <1>3, <2>1, <2>2, <2>3, RowMade DEF IInv
  <2>4. CASE ~(w.at = 0 /\ t = w.fact.ticket)
    BY <1>3, <2>1, <2>2, <2>4, NoRowMade DEF IInv
  <2> QED
    BY <2>3, <2>4
<1> QED
  BY <1>2, <1>4, <1>5, <1>6, <1>7 DEF IInv, Accounted, AccountOf

\* The row number is stored together with the mark.
LEMMA CommitKeeps ==
  ASSUME IInv, TypeOK', NEW w \in working, Commit(w)
  PROVE  IInv'
<1>1. /\ w.written /\ working' = {}
      /\ rowOf' = [rowOf EXCEPT ![w.fact.ticket] = w.at]
      /\ processed' = processed \cup {w.fact}
      /\ UNCHANGED <<cache, worksheet, upsets, left>>
  BY DEF Commit
<1>2. /\ w.fact.ticket \in Tickets /\ AtWork(w) /\ working = {w}
      /\ w.fact = [kind |-> w.fact.kind, ticket |-> w.fact.ticket]
  BY Item
<1>3. w.at # 0
  BY <1>1, Item
<1>4. \A t \in Tickets : rowOf'[t] = IF t = w.fact.ticket THEN w.at ELSE rowOf[t]
  BY <1>1 DEF IInv, TypeOK
<1>5. RowFromCreated'
  <2> SUFFICES ASSUME NEW t \in Tickets, rowOf'[t] # 0
               PROVE  [kind |-> "created", ticket |-> t] \in processed'
    BY DEF RowFromCreated
  <2>1. CASE t # w.fact.ticket
    BY <1>1, <1>4, <2>1 DEF IInv, RowFromCreated
  <2>2. CASE t = w.fact.ticket /\ w.fact.kind = "created"
    BY <1>1, <1>2, <2>2
  <2>3. CASE t = w.fact.ticket /\ w.fact.kind # "created"
    <3>1. rowOf[t] # 0
      BY <1>2, <2>3 DEF AtWork
    <3> QED
      BY <1>1, <3>1 DEF IInv, RowFromCreated
  <2> QED
    BY <2>1, <2>2, <2>3
<1>6. MemoryHolds' /\ WorkRemembered'
  BY <1>1 DEF IInv, MemoryHolds, WorkRemembered, worksheet
<1>7. CountHolds'
  <2> SUFFICES ASSUME Exact
               PROVE  counted = grid /\ DOMAIN sheet = 1..grid /\ OwnRow'
    BY <1>1 DEF CountHolds, Exact, worksheet
  <2>1. w.at \in DOMAIN sheet /\ sheet[w.at].ticket = w.fact.ticket
    BY <1>3 DEF IInv, CountHolds
  <2> QED
    BY <1>1, <1>4, <2>1 DEF IInv, CountHolds, OwnRow, worksheet
<1>8. \A t \in Tickets : AccountOf(t)'
  <2> TAKE t \in Tickets
  <2>1. RowsOf(t)' = RowsOf(t) /\ Exact' = Exact
    BY <1>1 DEF RowsOf, Exact, worksheet
  <2>2. rowOf'[t] # rowOf[t] => rowOf[t] = 0
    BY <1>2, <1>4 DEF AtWork, IInv, RowFromCreated
  <2>3. 0 \notin RowsOf(t)
    BY DEF IInv, TypeOK, RowsOf
  <2>4. AppendedFor(t)' \subseteq AppendedFor(t)
    BY <2>1, <2>2, <2>3 DEF AppendedFor
  <2>5. Placed(t) => Placed(t)'
    BY <1>2, <1>3, <1>4 DEF Placed
  <2> QED
    BY <1>1, <2>4, <2>5, NoRowMade DEF IInv, Accounted, AccountOf
<1> QED
  BY <1>1, <1>5, <1>6, <1>7, <1>8 DEF IInv, Accounted, AccountOf

-----------------------------------------------------------------------------
(* The theorems.                                                           *)

\* Nothing is at work and no row number is stored at first.
LEMMA InvInit == Init => IInv
<1> SUFFICES ASSUME Init
             PROVE  IInv
  OBVIOUS
<1>1. TypeOK
  BY TypeInit
<1>2. DOMAIN sheet = {} /\ working = {} /\ counted = grid /\ \A t \in Tickets : rowOf[t] = 0
  BY DEF Init
<1>3. CountHolds
  <2>1. Exact => grid = 0
    BY DEF Init, Exact
  <2>2. 1..0 = {}
    OBVIOUS
  <2> QED
    BY <1>2, <2>1, <2>2 DEF CountHolds, OwnRow
<1>4. Accounted
  <2> SUFFICES ASSUME NEW t \in Tickets
               PROVE  AccountOf(t)
    BY DEF Accounted, AccountOf
  <2>1. AppendedFor(t) = {} /\ ~Placed(t)
    BY <1>2 DEF AppendedFor, RowsOf, Placed
  <2>2. left.fault = MaxFault /\ MaxFault \in Nat
    BY BoundsAssumption DEF Init
  <2>3. Cardinality(AppendedFor(t)) = 0
    BY <2>1, FS_EmptySet
  <2>4. (IF Placed(t) THEN 1 ELSE 0) + (MaxFault - left.fault) = 0
    BY <2>1, <2>2
  <2> QED
    BY <2>3, <2>4 DEF AccountOf
<1> QED
  BY <1>1, <1>2, <1>3, <1>4 DEF IInv, RowFromCreated, MemoryHolds, WorkRemembered

\* Every step keeps the invariant.
LEMMA InvStep == IInv /\ [Next]_vars => IInv'
<1> SUFFICES ASSUME IInv, [Next]_vars
             PROVE  IInv'
  OBVIOUS
<1>1. TypeOK'
  BY TypeStep DEF IInv
<1>2. ASSUME NEW f \in Facts, Announce(f) PROVE IInv'
  BY <1>1, <1>2, WorkRests DEF Announce
<1>3. ASSUME NEW f \in Facts, Enqueue(f) PROVE IInv'
  <2>1. left'.fault = left.fault
    BY <1>3 DEF Enqueue, IInv, TypeOK
  <2> QED
    BY <1>1, <1>3, <2>1, WorkRests DEF Enqueue
<1>4. ASSUME NEW f \in Facts, Skip(f) PROVE IInv'
  <2>1. /\ working = {} /\ cache' = IF Seen(f) THEN cache ELSE [cache EXCEPT ![f.ticket] = Learnt(f)]
        /\ processed' = processed \cup {f}
        /\ UNCHANGED <<rowOf, worksheet, working, upsets, left>>
    BY <1>4 DEF Skip, NextItem
  <2>2. \A t \in Tickets : /\ cache[t].details => cache'[t].details
                           /\ cache[t].assignee => cache'[t].assignee
    BY <2>1, LearntKeeps DEF IInv, TypeOK
  <2> QED
    BY <1>1, <2>1, <2>2, WorkEnds DEF worksheet, Exact
<1>5. ASSUME NEW f \in Facts, Plan(f) PROVE IInv'
  BY <1>1, <1>5, PlanKeeps
<1>6. ASSUME NEW w \in working, Write(w) PROVE IInv'
  BY <1>1, <1>6, WriteKeeps
<1>7. ASSUME NEW w \in working, Commit(w) PROVE IInv'
  BY <1>1, <1>7, CommitKeeps
<1>8. ASSUME NEW w \in working, Refused(w) PROVE IInv'
  <2>1. \A v \in working : ~v.written
    BY <1>8, Item DEF Refused
  <2> QED
    BY <1>1, <1>8, <2>1, WorkEnds DEF Refused, GiveUp, worksheet, Exact
<1>9. ASSUME NEW w \in working, WorkerFailure(w) PROVE IInv'
  <2>1. left'.fault = left.fault - 1
    BY <1>9, FaultType DEF WorkerFailure, IInv
  <2>2. upsets \subseteq upsets' /\ Exact' = Exact
    BY <1>9 DEF WorkerFailure, Fault, Exact
  <2> QED
    BY <1>1, <1>9, <2>1, <2>2, WorkEnds DEF WorkerFailure, GiveUp, worksheet
<1>10. ASSUME NEW w \in working, Unanswered(w) PROVE IInv'
  BY <1>1, <1>10, UnansweredKeeps
<1>11. CASE Restart
  <2>1. left'.fault = left.fault - 1
    BY <1>11, FaultType DEF Restart, IInv
  <2>2. upsets \subseteq upsets' /\ "restart" \in upsets' /\ Exact' = Exact
    BY <1>11 DEF Restart, Fault, Exact
  <2> QED
    BY <1>1, <1>11, <2>1, <2>2, WorkEnds DEF Restart
<1>12. CASE UNCHANGED vars
  BY <1>1, <1>12, WorkRests DEF vars, worksheet
<1> QED
  BY <1>2, <1>3, <1>4, <1>5, <1>6, <1>7, <1>8, <1>9, <1>10, <1>11, <1>12 DEF Next, Progress

\* What the worker is at is unmarked and, unless row_count was wrong before, for a
\* row of its own ticket; a row number exists only after the mark of `created'; and
\* every row was appended by a transaction or lost to a fault (sync_ticket.py,
\* sheets_client.py:141-160, ticket_events.py:83-119).
THEOREM Inductive == Spec => []IInv
<1> QED
  BY InvInit, InvStep, PTL DEF Spec

\* While the worksheet has no spare rows and every response arrives, the number
\* stored for a ticket is that of a row of the ticket, whatever else fails between
\* writing the worksheet and committing (ticket_events.py:112-119).
THEOREM OwnRowIfExactCorrect == Spec => []OwnRowIfExact
<1>1. IInv => OwnRowIfExact
  BY DEF IInv, CountHolds, OwnRowIfExact
<1> QED
  BY <1>1, Inductive, PTL

\* A ticket has one row and at most one more for every fault: a `created' whose
\* transaction was lost appends again; with spare rows or after a lost response a
\* wrong number makes no more than one besides (sheets_client.py:148).
THEOREM RowsPerTicketCorrect == Spec => []RowsPerTicket
<1>1. IInv => RowsPerTicket
  <2> SUFFICES ASSUME IInv, NEW t \in Tickets
               PROVE  Cardinality(RowsOf(t)) <= (IF Exact THEN 1 ELSE 2) + (MaxFault - left.fault)
    BY DEF RowsPerTicket
  <2> DEFINE k == Cardinality(AppendedFor(t))
             l == Cardinality(RowsOf(t))
             p == IF Placed(t) THEN 1 ELSE 0
  <2>1. /\ IsFiniteSet(AppendedFor(t)) /\ k \in Nat /\ l \in Nat
        /\ MaxFault \in Nat /\ left.fault \in Nat
    BY RowsFinite, BoundsAssumption DEF IInv, TypeOK
  <2>2. k <= p + (MaxFault - left.fault) /\ p \in 0..1
    BY DEF IInv, Accounted
  <2>3. CASE Exact
    <3>1. l = k
      BY <2>3 DEF AppendedFor
    <3> HIDE DEF k, l, p
    <3>2. l <= 1 + (MaxFault - left.fault)
      BY <2>1, <2>2, <3>1
    <3> QED
      BY <2>3, <3>2 DEF l
  <2>4. CASE ~Exact
    <3> DEFINE m == Cardinality(AppendedFor(t) \cup {rowOf[t]})
    <3>1. IsFiniteSet(AppendedFor(t) \cup {rowOf[t]}) /\ (m = k \/ m = k + 1)
      BY <2>1, FS_AddElement
    <3>2. RowsOf(t) \subseteq AppendedFor(t) \cup {rowOf[t]}
      BY <2>4 DEF AppendedFor
    <3>3. m \in Nat /\ l <= m
      BY <3>1, <3>2, FS_Subset, FS_CardinalityType
    <3> HIDE DEF k, l, m, p
    <3>4. l <= 2 + (MaxFault - left.fault)
      BY <2>1, <2>2, <3>1, <3>3
    <3> QED
      BY <2>4, <3>4 DEF l
  <2> QED
    BY <2>3, <2>4
<1> QED
  BY <1>1, Inductive, PTL

\* Only a row taken by Sheets changes the worksheet.
LEMMA SheetChanges ==
  ASSUME [Next]_vars, sheet' # sheet
  PROVE  \E w \in working : \E n \in 1..(grid + 1) : Fill(w, n)
BY DEF Next, Progress, vars, worksheet, Announce, Enqueue, Skip, Plan, Write, Commit, Refused,
   WorkerFailure, Unanswered, Restart

\* A row that shows its ticket as taken or closed is never set back to new, for
\* `created', the only item that writes "new", always appends (sync_ticket.py:93-105),
\* and Sheets appends below what is filled, whatever row_count says.
THEOREM NotNewAgainCorrect == Spec => NotNewAgain
<1>1. IInv /\ [Next]_vars => [\A n \in DOMAIN sheet :
                              sheet[n].status # "new" => sheet'[n].status # "new"]_sheet
  <2> SUFFICES ASSUME IInv, [Next]_vars, sheet' # sheet,
                      NEW i \in DOMAIN sheet, sheet[i].status # "new"
               PROVE  sheet'[i].status # "new"
    OBVIOUS
  <2>1. PICK w \in working, n \in 1..(grid + 1) : Fill(w, n)
    BY SheetChanges
  <2>2. AtWork(w)
    BY Item
  <2>3. /\ sheet'[n] = w.row /\ ~w.written
        /\ \A j \in DOMAIN sheet : j # n => sheet'[j] = sheet[j]
        /\ w.at = 0 => n \notin DOMAIN sheet
    BY <2>1, Filled DEF IInv
  <2>4. w.row.status = "new" => w.at = 0
    BY <2>2, <2>3 DEF AtWork
  <2> QED
    BY <2>3, <2>4
<1> QED
  BY <1>1, Inductive, PTL DEF Spec, NotNewAgain

\* As long as the service has not been restarted, an update leaves filled what the
\* memory holds of the ticket: customer, title, creation time and link, and the
\* executor (sync_ticket.py:61-66, 117-181).
THEOREM ColumnsKeptCorrect == Spec => ColumnsKept
<1>1. IInv /\ [Next]_vars =>
        [\A n \in DOMAIN sheet :
           "restart" \notin upsets /\ sheet'[n].ticket = sheet[n].ticket =>
             /\ sheet[n].details => sheet'[n].details
             /\ sheet[n].assignee => sheet'[n].assignee]_sheet
  <2> SUFFICES ASSUME IInv, [Next]_vars, sheet' # sheet, NEW i \in DOMAIN sheet,
                      "restart" \notin upsets, sheet'[i].ticket = sheet[i].ticket
               PROVE  /\ sheet[i].details => sheet'[i].details
                      /\ sheet[i].assignee => sheet'[i].assignee
    OBVIOUS
  <2>1. PICK w \in working, n \in 1..(grid + 1) : Fill(w, n)
    BY SheetChanges
  <2>2. AtWork(w) /\ w.row.ticket = w.fact.ticket
    BY Item DEF AtWork
  <2>3. /\ sheet'[n] = w.row /\ ~w.written
        /\ \A j \in DOMAIN sheet : j # n => sheet'[j] = sheet[j]
        /\ w.at = 0 => n \notin DOMAIN sheet
    BY <2>1, Filled DEF IInv
  <2>4. CASE i # n
    BY <2>3, <2>4
  <2>5. CASE i = n
    <3>1. w.fact.kind # "created"
      BY <2>2, <2>3, <2>5 DEF AtWork
    <3>2. w.row.details = cache[w.fact.ticket].details
          /\ w.row.assignee = cache[w.fact.ticket].assignee
      BY <2>2, <3>1 DEF AtWork
    <3>3. /\ sheet[i].details => cache[sheet[i].ticket].details
          /\ sheet[i].assignee => cache[sheet[i].ticket].assignee
      BY DEF IInv, MemoryHolds
    <3> QED
      BY <2>2, <2>3, <2>5, <3>2, <3>3
  <2> QED
    BY <2>4, <2>5
<1> QED
  BY <1>1, Inductive, PTL DEF Spec, ColumnsKept

=============================================================================
