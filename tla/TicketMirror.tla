---------------------------- MODULE TicketMirror ----------------------------
(***************************************************************************)
(* core, gateway-tg and sheets-sync together: what TicketLifecycle         *)
(* publishes about its tickets is what SheetsSync writes into the          *)
(* worksheet.  SheetsSync alone lets the facts come in any order its       *)
(* Announce admits; here they come as core publishes them.                 *)
(***************************************************************************)
EXTENDS TicketLifecycle

CONSTANTS
  MaxSpare,  \* blank rows the worksheet may have at first
  MaxQueue,  \* items in the queue of sheets-sync
  MaxFault   \* errors, lost responses and restarts of sheets-sync

ASSUME MirrorAssumption == MaxSpare \in Nat /\ MaxQueue \in Nat /\ MaxFault \in Nat

VARIABLES announced, streams, queue, cache, synced, rowOf, sheet, grid, counted, working,
          dropped, upsets, budget

Sheets == INSTANCE SheetsSync WITH published <- announced, processed <- synced, left <- budget

sync == <<queue, cache, synced, rowOf, sheet, grid, counted, working, dropped, upsets, budget>>
mirror == <<announced, streams, sync>>
all == <<vars, mirror>>

MirrorInit == Init /\ Sheets!Init

\* A message of core as sheets-sync takes it.
Fact(m) ==
  [kind |-> CASE m.type = "ticket_created" -> "created"
              [] m.type = "ticket_assigned" -> "assigned"
              [] m.type = "ticket_closed" -> "closed",
   ticket |-> m.ticket]

\* The facts this step of core publishes, none or one.
Published == {Fact(Head(todo[h])) : h \in {k \in Tasks : Publish(k) /\ Head(todo[k]).type \in Facts}}

\* core, gateway-tg or somebody in Telegram does something.
LifecycleStep ==
  /\ Next
  /\ announced' = announced \cup Published
  /\ streams' = streams \cup Published
  /\ UNCHANGED sync

\* sheets-sync does something; it announces nothing itself.
MirrorStep == Sheets!Next /\ UNCHANGED <<vars, announced>>

MirrorNext == LifecycleStep \/ MirrorStep

MirrorSpec == MirrorInit /\ [][MirrorNext]_all

\* The services keep running, whatever the others do.
FairMirrorSpec == MirrorSpec /\ WF_vars(Service) /\ WF_mirror(Sheets!Progress)

-----------------------------------------------------------------------------
(* Properties.                                                             *)

\* What SheetsSync assumes of core is what core does: each fact is published
\* once, a taking only after the ticket's announcement and never after its
\* closing, so every behaviour of the two services is one of SheetsSync.
FactsInOrder == Sheets!Spec

Stage(status) == CASE status = "none" -> 0 [] status = "new" -> 1
                   [] status = "in_progress" -> 2 [] status = "closed" -> 3

\* The worksheet never tells more than the database: no row shows a ticket as
\* taken or closed that is not, or not any more.
MirrorNotAhead == \A n \in DOMAIN sheet :
  Stage(sheet[n].status) <= Stage(db[sheet[n].ticket].status)

\* What makes FactsInOrder inductive.  core announces only what its row backs,
\* owes a fact once and in the task whose commit it is of, and has a card, or
\* a press on it, only of a ticket it has announced.
Announced(t, kind) == [kind |-> kind, ticket |-> t] \in announced

Backed(t) ==
  /\ Announced(t, "created") => clock[t]["ticket_created"] # 0
  /\ Announced(t, "assigned") => db[t].status \in {"in_progress", "closed"}
  /\ Announced(t, "closed") => db[t].status = "closed"

OwedBy(h, m) ==
  /\ AboutCard(m) /\ m.type # "ticket_created" => Announced(m.ticket, "created")
  /\ m.type \in Facts => /\ Fact(m) \notin announced
                         /\ h = IF m.type = "ticket_created" THEN "message_sent" ELSE "callback"
  /\ m.type = "ticket_created" => clock[m.ticket]["ticket_created"] # 0
  /\ m.type = "ticket_assigned" => /\ db[m.ticket].status = "in_progress"
                                   /\ Announced(m.ticket, "created")
  /\ m.type = "ticket_closed" => db[m.ticket].status = "closed"

SameFact(m, o) == m.type \in Facts /\ o.type = m.type /\ o.ticket = m.ticket

OwedOnce(h) == \A i \in DOMAIN todo[h] :
  /\ OwedBy(h, todo[h][i])
  /\ \A j \in DOMAIN todo[h] : SameFact(todo[h][i], todo[h][j]) => i = j

CardsAnnounced ==
  /\ \A m \in bus : AboutCard(m) => Announced(m.ticket, "created")
  /\ \A r \in reading : AboutCard(r.msg) => Announced(r.msg.ticket, "created")
  /\ \A p \in posts : p.view = "offer" => Announced(p.ticket, "created")

FactsTold ==
  /\ \A t \in Tickets : Backed(t)
  /\ \A h \in Tasks : OwedOnce(h)
  /\ CardsAnnounced

\* sheets-sync has what was announced and nothing else; the status it is about
\* to write is that of the fact it is at.
Shows == [created |-> "new", assigned |-> "in_progress", closed |-> "closed"]

OnlyAnnounced ==
  /\ streams \subseteq announced
  /\ \A i \in DOMAIN queue : queue[i] \in announced
  /\ \A w \in working : /\ w.fact \in announced
                       /\ w.row.ticket = w.fact.ticket
                       /\ w.row.status = Shows[w.fact.kind]

\* The inductive invariant of the three services.
MirrorInv ==
  /\ LifecycleInv
  /\ Sheets!TypeOK
  /\ FactsTold /\ OnlyAnnounced /\ MirrorNotAhead

\* When nothing is lost, every ticket gets its row in the worksheet, through
\* three services and in whatever order they run.
EveryTicketMirrored == \A t \in Tickets :
  db[t].status # "none" ~> \E n \in DOMAIN sheet : sheet[n].ticket = t

=============================================================================
