----------------------------- MODULE SheetsSync -----------------------------
(***************************************************************************)
(* sheets-sync: the mirror of the tickets in a worksheet.                  *)
(*                                                                         *)
(* core announces what happens to a ticket in three streams, which three   *)
(* subscribers empty into one queue in memory; an entry is acknowledged as *)
(* soon as it is queued.  One worker takes the queue in order.  For each   *)
(* item it opens a transaction, plans a row from the event and from what   *)
(* it remembers of the ticket (_TicketCache, in memory), writes the row to *)
(* the worksheet, stores the number it is told and commits.                *)
(*                                                                         *)
(* Customer, title, creation time and link of a row come from the same     *)
(* event and count as one column, details; a column is blank or filled.    *)
(* The worksheet has grid rows, of which those in the domain of sheet have *)
(* something in them; its header row is left out.  Sheets puts an appended *)
(* row below the last one filled.  The number returned is row_count,       *)
(* which gspread reads when it opens the worksheet and increases by one    *)
(* whenever an append is answered.                                         *)
(***************************************************************************)
EXTENDS Naturals, Sequences, FiniteSets

CONSTANTS
  Tickets,
  MaxSpare,       \* blank rows the worksheet may have at first
  MaxQueue,       \* items in the queue (the code sets no limit)
  MaxRedelivery,  \* entries a stream hands out a second time
  MaxFault        \* errors, lost responses and restarts of sheets-sync

ASSUME BoundsAssumption ==
  MaxSpare \in Nat /\ MaxQueue \in Nat /\ MaxRedelivery \in Nat /\ MaxFault \in Nat

VARIABLES
  published,  \* facts core has announced
  streams,    \* those not yet taken
  queue,      \* the queue of the worker
  cache,      \* _TicketCache: what is remembered of each ticket
  processed,  \* sheets_sync_processed_events
  rowOf,      \* sheets_sync_state: the row of each ticket, 0 for none
  sheet,      \* the rows of the worksheet that are filled
  grid,       \* how many rows it has
  counted,    \* row_count, as gspread knows it
  working,    \* the item the worker is at (at most one)
  dropped,    \* items given up: caught by the worker, or lost at a restart
  upsets,     \* what has happened that row_count or the memory depends on
  left        \* what remains of each bound

vars == <<published, streams, queue, cache, processed, rowOf, sheet, grid, counted,
          working, dropped, upsets, left>>

worksheet == <<sheet, grid, counted>>

Kinds == {"created", "assigned", "closed"}
Facts == [kind : Kinds, ticket : Tickets]
Remembered == [details : BOOLEAN, assignee : BOOLEAN, started : BOOLEAN]
NothingKnown == [details |-> FALSE, assignee |-> FALSE, started |-> FALSE]
Rows == [ticket : Tickets, status : {"new", "in_progress", "closed"},
         details : BOOLEAN, assignee : BOOLEAN, started : BOOLEAN]

Init ==
  /\ published = {}
  /\ streams = {}
  /\ queue = << >>
  /\ cache = [t \in Tickets |-> NothingKnown]
  /\ processed = {}
  /\ rowOf = [t \in Tickets |-> 0]
  /\ sheet = << >>
  /\ grid \in 0..MaxSpare
  /\ counted = grid
  /\ working = {}
  /\ dropped = {}
  /\ upsets = IF grid = 0 THEN {} ELSE {"spare"}
  /\ left = [redelivery |-> MaxRedelivery, fault |-> MaxFault]

-----------------------------------------------------------------------------
(* core, and the way into the queue.                                       *)

\* A ticket is announced once; it is taken only through its card, which comes
\* after its announcement, and never after it was closed.
Announce(f) ==
  /\ f \notin published
  /\ f.kind = "assigned" =>
       /\ [f EXCEPT !.kind = "created"] \in published
       /\ [f EXCEPT !.kind = "closed"] \notin published
  /\ published' = published \cup {f}
  /\ streams' = streams \cup {f}
  /\ UNCHANGED <<queue, cache, processed, rowOf, worksheet, working, dropped, upsets, left>>

Enqueue(f) ==
  /\ f \in streams
  /\ Len(queue) < MaxQueue
  /\ queue' = Append(queue, f)
  /\ \/ streams' = streams \ {f} /\ UNCHANGED left
     \/ /\ left.redelivery > 0
        /\ left' = [left EXCEPT !.redelivery = @ - 1]
        /\ UNCHANGED streams
  /\ UNCHANGED <<published, cache, processed, rowOf, worksheet, working, dropped, upsets>>

-----------------------------------------------------------------------------
(* The worker.                                                             *)

Mut_Seen(f) == FALSE  \* no idempotency check
Seen(f) == f \in processed

Mut_RowMissing(f) == FALSE  \* waits for the row to appear
RowMissing(f) == f.kind # "created" /\ rowOf[f.ticket] = 0

NextItem(f) ==
  /\ working = {}
  /\ queue # << >>
  /\ f = Head(queue)
  /\ queue' = Tail(queue)

\* _remember: what the event tells, whether or not a row is written.
Mut_Learnt(f) ==  \* a new entry instead of an update of the old one
  CASE f.kind = "created" -> [NothingKnown EXCEPT !.details = TRUE]
    [] f.kind = "assigned" -> [NothingKnown EXCEPT !.assignee = TRUE]
    [] f.kind = "closed" -> cache[f.ticket]
Learnt(f) ==
  CASE f.kind = "created" -> [cache[f.ticket] EXCEPT !.details = TRUE]
    [] f.kind = "assigned" -> [cache[f.ticket] EXCEPT !.assignee = TRUE]
    [] f.kind = "closed" -> cache[f.ticket]

\* An item known already changes nothing; one whose row is missing is marked
\* as processed all the same.
Skip(f) ==
  /\ NextItem(f)
  /\ Seen(f) \/ RowMissing(f)
  /\ cache' = IF Seen(f) THEN cache ELSE [cache EXCEPT ![f.ticket] = Learnt(f)]
  /\ processed' = processed \cup {f}
  /\ UNCHANGED <<published, streams, rowOf, worksheet, working, dropped, upsets, left>>

\* The row an item leads to: `created' and `assigned' bring their own columns,
\* the rest is what is remembered.
RowFor(f) ==
  LET known == Learnt(f) IN
  CASE f.kind = "created" ->
         [ticket |-> f.ticket, status |-> "new", details |-> TRUE,
          assignee |-> FALSE, started |-> FALSE]
    [] f.kind = "assigned" ->
         [ticket |-> f.ticket, status |-> "in_progress", details |-> known.details,
          assignee |-> TRUE, started |-> TRUE]
    [] f.kind = "closed" ->
         [ticket |-> f.ticket, status |-> "closed", details |-> known.details,
          assignee |-> known.assignee, started |-> known.started]

Mut_ExistingRow(f) == 0  \* always appends
ExistingRow(f) == rowOf[f.ticket]

Plan(f) ==
  /\ NextItem(f)
  /\ ~Seen(f)
  /\ f.kind # "created" => rowOf[f.ticket] # 0
  /\ cache' = [cache EXCEPT ![f.ticket] = Learnt(f)]
  /\ working' = {[fact |-> f, row |-> RowFor(f), at |-> ExistingRow(f), written |-> FALSE]}
  /\ UNCHANGED <<published, streams, processed, rowOf, worksheet, dropped, upsets, left>>

Mut_AppendedAt == counted  \* the count from before the append
AppendedAt == counted + 1

\* Row n is where Sheets puts the row of w: below the last filled one when it
\* is appended, else where its number says, which has to be on the grid.
Lands(w, n) ==
  IF w.at = 0
  THEN /\ \A i \in DOMAIN sheet : i < n
       /\ n = 1 \/ n - 1 \in DOMAIN sheet
  ELSE n = w.at /\ n <= grid

\* Every column of the row is written; the grid grows if it has to.
Fill(w, n) ==
  /\ ~w.written
  /\ Lands(w, n)
  /\ sheet' = [i \in DOMAIN sheet \cup {n} |-> IF i = n THEN w.row ELSE sheet[i]]
  /\ grid' = IF n > grid THEN n ELSE grid

\* append_or_update: what comes back of an append is row_count.
Write(w) ==
  /\ \E n \in 1..(grid + 1) : Fill(w, n)
  /\ counted' = IF w.at = 0 THEN AppendedAt ELSE counted
  /\ working' = {[w EXCEPT !.written = TRUE, !.at = IF w.at = 0 THEN AppendedAt ELSE w.at]}
  /\ UNCHANGED <<published, streams, queue, cache, processed, rowOf, dropped, upsets, left>>

Commit(w) ==
  /\ w.written
  /\ rowOf' = [rowOf EXCEPT ![w.fact.ticket] = w.at]
  /\ processed' = processed \cup {w.fact}
  /\ working' = {}
  /\ UNCHANGED <<published, streams, queue, cache, worksheet, dropped, upsets, left>>

\* Any exception: the transaction is rolled back, the failure logged, and the
\* item is gone.
GiveUp(w) ==
  /\ working' = {}
  /\ dropped' = dropped \cup {w.fact}
  /\ UNCHANGED <<published, streams, queue, cache, processed, rowOf>>

\* A number beyond the grid: Sheets refuses the update.
Refused(w) ==
  /\ ~w.written
  /\ w.at > grid
  /\ GiveUp(w)
  /\ UNCHANGED <<worksheet, upsets, left>>

Fault(what) ==
  /\ left.fault > 0
  /\ left' = [left EXCEPT !.fault = @ - 1]
  /\ upsets' = upsets \cup {what}

\* An error before the request, of Sheets, or of the database afterwards.
WorkerFailure(w) ==
  /\ Fault("error")
  /\ GiveUp(w)
  /\ UNCHANGED worksheet

\* Sheets has taken the row, but the response is lost.
Unanswered(w) ==
  /\ Fault("unanswered")
  /\ \E n \in 1..(grid + 1) : Fill(w, n)
  /\ GiveUp(w)
  /\ UNCHANGED counted

\* The queue and the memory are empty; row_count is read anew.
Restart ==
  /\ Fault("restart")
  /\ queue' = << >>
  /\ cache' = [t \in Tickets |-> NothingKnown]
  /\ working' = {}
  /\ dropped' = dropped \cup {queue[i] : i \in DOMAIN queue} \cup {w.fact : w \in working}
  /\ counted' = grid
  /\ UNCHANGED <<published, streams, processed, rowOf, sheet, grid>>

-----------------------------------------------------------------------------

Progress ==
  \/ \E f \in Facts : Enqueue(f) \/ Skip(f) \/ Plan(f)
  \/ \E w \in working : Write(w) \/ Refused(w) \/ Commit(w)

Next ==
  \/ Progress
  \/ \E f \in Facts : Announce(f)
  \/ \E w \in working : WorkerFailure(w) \/ Unanswered(w)
  \/ Restart

Spec == Init /\ [][Next]_vars

\* The subscribers and the worker keep running; each of their steps uses
\* something up, so that none can be put off for ever.
FairSpec == Spec /\ WF_vars(Progress)

-----------------------------------------------------------------------------
(* Properties.                                                             *)

TypeOK ==
  /\ published \subseteq Facts
  /\ streams \subseteq Facts
  /\ queue \in Seq(Facts)
  /\ cache \in [Tickets -> Remembered]
  /\ processed \subseteq Facts
  /\ rowOf \in [Tickets -> Nat]
  /\ sheet \in [DOMAIN sheet -> Rows] /\ DOMAIN sheet \subseteq 1..grid
  /\ grid \in Nat /\ counted \in Nat
  /\ working \subseteq [fact : Facts, row : Rows, at : Nat, written : BOOLEAN]
  /\ dropped \subseteq Facts
  /\ upsets \subseteq {"spare", "error", "unanswered", "restart"}
  /\ left \in [redelivery : Nat, fault : Nat]

\* sheets_client.py: row_count after an append is the number of the new row; so
\* the row a ticket's number stands for is a row of that ticket.
OwnRow ==
  \A t \in Tickets : rowOf[t] # 0 => rowOf[t] \in DOMAIN sheet /\ sheet[rowOf[t]].ticket = t

\* When that is so: the worksheet had no spare rows and no response was lost.
\* Then nothing else, no error or restart between the worksheet and the commit
\* and no entry handed out again, makes the worker write over another's row.
Exact == {"spare", "unanswered"} \cap upsets = {}
OwnRowIfExact == Exact => OwnRow

\* A row that shows a ticket as taken or closed never shows one as new again,
\* although `created' may come again and writes "new" without looking.
NotNewAgain ==
  [][\A n \in DOMAIN sheet :
       sheet[n].status # "new" => sheet'[n].status # "new"]_sheet

\* A ticket has one row and at most one more for each fault.  If row numbers may
\* be wrong it has at most one besides: only `created' appends, and all updates
\* go to the one number stored.
RowsOf(t) == {n \in DOMAIN sheet : sheet[n].ticket = t}
RowsPerTicket == \A t \in Tickets :
  Cardinality(RowsOf(t)) <= (IF Exact THEN 1 ELSE 2) + (MaxFault - left.fault)

\* The memory is there to repeat what earlier events told: as long as the
\* service has not been restarted, an update of a row of the same ticket empties
\* neither customer, title, creation time and link nor the executor.
ColumnsKept ==
  [][\A n \in DOMAIN sheet :
       "restart" \notin upsets /\ sheet'[n].ticket = sheet[n].ticket =>
         /\ sheet[n].details => sheet'[n].details
         /\ sheet[n].assignee => sheet'[n].assignee]_sheet

\* Why all this holds.  The row number of a ticket is stored with the mark of
\* its `created', so a `created' not yet marked finds no row number; what the
\* worker is at is unmarked, of the ticket whose row it will touch, and shows
\* what is remembered.
AtWork(w) ==
  /\ w.fact \notin processed
  /\ w.row.ticket = w.fact.ticket
  /\ w.row.status = "new" => w.fact.kind = "created"
  /\ IF w.fact.kind = "created"
     THEN (w.at = 0) = ~w.written
     ELSE /\ w.at = rowOf[w.fact.ticket] /\ w.at # 0
          /\ w.row.details = cache[w.fact.ticket].details
          /\ w.row.assignee = cache[w.fact.ticket].assignee

RowFromCreated == \A t \in Tickets :
  rowOf[t] # 0 => [kind |-> "created", ticket |-> t] \in processed

\* What a row shows has been remembered since.
MemoryHolds == "restart" \notin upsets => \A n \in DOMAIN sheet :
  /\ sheet[n].details => cache[sheet[n].ticket].details
  /\ sheet[n].assignee => cache[sheet[n].ticket].assignee

\* While the count is exact, no row of the grid is blank, and a number about to
\* be stored is that of the ticket's own row.
CountHolds == Exact =>
  /\ counted = grid /\ DOMAIN sheet = 1..grid
  /\ OwnRow
  /\ \A w \in working : w.at # 0 => w.at \in DOMAIN sheet /\ sheet[w.at].ticket = w.fact.ticket

\* What an item shows is remembered from its planning on.
WorkRemembered == "restart" \notin upsets => \A w \in working :
  /\ w.row.details => cache[w.fact.ticket].details
  /\ w.row.assignee => cache[w.fact.ticket].assignee

\* The rows appended for a ticket: by the transaction that stored its number, or
\* is about to, and by those that were lost.  A number that may be wrong can make
\* one more row the ticket's.
Placed(t) == rowOf[t] # 0 \/ \E w \in working : w.written /\ w.fact.ticket = t
AppendedFor(t) == IF Exact THEN RowsOf(t) ELSE RowsOf(t) \ {rowOf[t]}
Accounted == \A t \in Tickets :
  Cardinality(AppendedFor(t)) <= (IF Placed(t) THEN 1 ELSE 0) + (MaxFault - left.fault)

IInv ==
  /\ TypeOK
  /\ \A v, w \in working : v = w
  /\ \A w \in working : AtWork(w)
  /\ RowFromCreated
  /\ MemoryHolds /\ WorkRemembered
  /\ CountHolds
  /\ Accounted

\* Every announcement is dealt with, out of order or not, unless it was itself
\* dropped: neither an item that must be skipped nor one that failed holds up
\* those behind it.
AllProcessed == <>[](published \subseteq processed \cup dropped)

=============================================================================
