-------------------------- MODULE TicketLifecycle --------------------------
(***************************************************************************)
(* The life of a ticket across core, the Redis streams and gateway-tg:     *)
(* three-phase creation, the card in the team's inbox topic, assignment    *)
(* and closing.                                                            *)
(*                                                                         *)
(* core runs one consumer task per stream.  A task takes an entry, commits *)
(* one database transaction and then publishes what it owes, one message   *)
(* at a time (todo); a crash loses what is not published yet.  The         *)
(* callback task reads the row in one step and commits in another, so the  *)
(* other tasks run in between.  gateway-tg runs one consumer per command   *)
(* type: order is kept inside a command type and nowhere else.             *)
(*                                                                         *)
(* A message is numbered in its stream and ticket; a correlation_id, topic *)
(* or message id is a number fresh for its ticket; 0 stands for NULL.      *)
(***************************************************************************)
EXTENDS Naturals, Sequences

CONSTANTS
  Tickets,    \* rows the tickets table may hold
  Users,      \* members of the customer groups
  Executors,  \* persons a card has had a button for
  Active,     \* executors with is_active and a resolved telegram_user_id
  Nobody,     \* NULL of a person column
  TeamGroupConfigured,  \* executor_group_chat_id and the inbox topic are set
  MaxPress,       \* button presses
  MaxRedelivery,  \* entries core receives a second time
  MaxFail,        \* commands Telegram refuses, or acknowledgements lost
  MaxCrash        \* crashes of core

ASSUME PeopleAssumption ==
  /\ Active \subseteq Executors
  /\ Nobody \notin Users \cup Executors
ASSUME BoundsAssumption ==
  /\ TeamGroupConfigured \in BOOLEAN
  /\ MaxPress \in Nat /\ MaxRedelivery \in Nat
  /\ MaxFail \in Nat /\ MaxCrash \in Nat

VARIABLES
  db,         \* the tickets table
  log,        \* ticket_events: rows of each event_type per ticket
  processed,  \* core_processed_events
  clock,      \* per ticket: the last number used of each stream and kind of id
  bus,        \* entries of the streams not yet taken
  todo,       \* per task of core: committed, not yet published
  reading,    \* callback transaction that has read its row (at most one)
  topics,     \* Telegram: forum topics of the tickets
  posts,      \* Telegram: headers, cards and final messages
  left        \* what remains of each bound

vars == <<db, log, processed, clock, bus, todo, reading, topics, posts, left>>

Tasks == {"message", "callback", "topic_created", "message_sent",
          "ticket_created", "ticket_assigned"}
Acks == {"topic_created", "message_sent"}
Facts == {"ticket_created", "ticket_assigned", "ticket_closed"}
Commands == {"create_forum_topic", "send_message", "edit_message_text",
             "edit_forum_topic", "close_forum_topic"}
Ids == {"corr", "topic", "post"}
Sources == Tasks \cup Facts \cup Commands \cup Ids
Buttons == {"assign", "close", "close_cancel", "close_confirm"}
HeaderViews == {"new", "in_progress", "confirm", "closed"}
CardViews == {"offer", "taken"}
Views == HeaderViews \cup CardViews \cup {"thanks", "none"}

People == Users \cup Executors

NoRow == [status |-> "none", author |-> Nobody, assignee |-> Nobody,
          closer |-> Nobody, corr |-> 0, topic |-> 0, header |-> 0,
          inbox_corr |-> 0, inbox_msg |-> 0]

Row == [status : {"none", "new", "in_progress", "closed"},
        author : Users \cup {Nobody}, assignee : Executors \cup {Nobody},
        closer : Users \cup Executors \cup {Nobody},
        corr : Nat, topic : Nat, header : Nat, inbox_corr : Nat, inbox_msg : Nat]

\* Commands that are about a message or a topic that exists already.
Edits == {"edit_message_text", "edit_forum_topic", "close_forum_topic"}

Message ==
  [type : (Acks \cup Facts \cup Commands) \ Edits, ticket : Tickets, n : Nat,
   corr : Nat, id : Nat, view : Views]
    \cup
  [type : Edits, ticket : Tickets, n : Nat,
   corr : {0}, id : Nat \ {0}, view : Views]
Press == [type : {"callback"}, ticket : Tickets, n : Nat, user : People,
          data : Buttons, target : Executors \cup {Nobody}]

Fresh(t, s) == clock[t][s] + 1

\* The next message of its stream about t; id is the topic or message a command
\* is about, or that an event reports.
Msg(type, t, corr, id, view) ==
  [type |-> type, ticket |-> t, n |-> Fresh(t, type),
   corr |-> corr, id |-> id, view |-> view]

Init ==
  /\ db = [t \in Tickets |-> NoRow]
  /\ log = [t \in Tickets |-> [e \in {"created", "assigned", "closed"} |-> 0]]
  /\ processed = {}
  /\ clock = [t \in Tickets |-> [s \in Sources |-> 0]]
  /\ bus = {}
  /\ todo = [h \in Tasks |-> << >>]
  /\ reading = {}
  /\ topics = {}
  /\ posts = {}
  /\ left = [press |-> MaxPress, redelivery |-> MaxRedelivery,
             fail |-> MaxFail, crash |-> MaxCrash]

-----------------------------------------------------------------------------
(* The bus as core sees it.                                                *)

EventId(m) == <<m.type, m.ticket, m.n>>
Mut_Seen(m) == FALSE  \* no idempotency check
Seen(m) == EventId(m) \in processed

Mut_Free(h) == todo[h] = << >>  \* several workers for one stream
Free(h) == todo[h] = << >> /\ (h = "callback" => reading = {})

\* A free task takes an entry of its stream; the stream may hand it out again.
Receive(h, m) ==
  /\ m.type = h
  /\ Free(h)
  /\ \/ bus' = bus \ {m} /\ UNCHANGED left
     \/ /\ left.redelivery > 0
        /\ left' = [left EXCEPT !.redelivery = @ - 1]
        /\ UNCHANGED bus

Mark(m) == processed' = processed \cup {EventId(m)}
Owe(h, msgs) == todo' = [todo EXCEPT ![h] = msgs]
Tick(t, S) == clock' = [clock EXCEPT ![t] =
                          [s \in Sources |-> IF s \in S THEN @[s] + 1 ELSE @[s]]]
Record(t, e) == log' = [log EXCEPT ![t][e] = @ + 1]

telegram == <<topics, posts>>

\* try_mark found the event_id: the entry is dropped.
AlreadyProcessed(h, m) ==
  /\ Receive(h, m)
  /\ Seen(m)
  /\ UNCHANGED <<db, log, processed, clock, todo, reading, telegram>>

\* One message of what a committed handler owes.  Only sheets-sync reads
\* events.ticket.closed.
Publish(h) ==
  /\ todo[h] # << >>
  /\ bus' = bus \cup {m \in {Head(todo[h])} : m.type # "ticket_closed"}
  /\ todo' = [todo EXCEPT ![h] = Tail(@)]
  /\ UNCHANGED <<db, log, processed, clock, reading, telegram, left>>

\* core dies: open transactions roll back, unpublished messages are gone.
Crash ==
  /\ left.crash > 0
  /\ left' = [left EXCEPT !.crash = @ - 1]
  /\ todo' = [h \in Tasks |-> << >>]
  /\ reading' = {}
  /\ UNCHANGED <<db, log, processed, clock, bus, telegram>>

-----------------------------------------------------------------------------
(* Creation.                                                               *)

\* Phase 1, for a text the prompt of u was waiting for: the row, its audit
\* record, and the command that will create the topic.
CreateTicketPhase1(t, u) ==
  /\ Free("message")
  /\ db[t].status = "none"
  /\ LET corr == Fresh(t, "corr") IN
       /\ db' = [db EXCEPT ![t] =
                   [NoRow EXCEPT !.status = "new", !.author = u, !.corr = corr]]
       /\ Owe("message", <<Msg("create_forum_topic", t, corr, 0, "none")>>)
  /\ Tick(t, {"corr", "create_forum_topic"})
  /\ Record(t, "created")
  /\ UNCHANGED <<processed, bus, reading, telegram, left>>

Mut_Header(m) ==  \* the correlation is not handed on
  Msg("send_message", m.ticket, 0, m.id, "new")
Header(m) == Msg("send_message", m.ticket, m.corr, m.id, "new")

\* Phase 2: the topic is attached and the header sent under the same correlation.
HandleTopicCreated(m) ==
  LET t == m.ticket IN
  /\ Receive("topic_created", m)
  /\ ~Seen(m)
  /\ m.corr = db[t].corr
  /\ Mark(m)
  /\ db' = [db EXCEPT ![t].topic = m.id]
  /\ Owe("topic_created", <<Header(m)>>)
  /\ Tick(t, {"send_message"})
  /\ UNCHANGED <<log, reading, telegram>>

Mut_WithHeader(m) == db  \* the header's message id is not stored
WithHeader(m) == [db EXCEPT ![m.ticket].header = m.id]

\* Phase 3: the header is attached and the ticket announced, unless the topic
\* is still missing, in which case the event is spent for nothing.
HandleHeaderMessageSent(m) ==
  LET t == m.ticket IN
  /\ Receive("message_sent", m)
  /\ ~Seen(m)
  /\ m.corr = db[t].corr
  /\ Mark(m)
  /\ IF db[t].topic = 0
     THEN UNCHANGED <<db, todo, clock>>
     ELSE /\ db' = WithHeader(m)
          /\ Owe("message_sent", <<Msg("ticket_created", t, 0, 0, "none")>>)
          /\ Tick(t, {"ticket_created"})
  /\ UNCHANGED <<log, reading, telegram>>

-----------------------------------------------------------------------------
(* The card in the team's inbox topic.                                     *)

PublishIncomingCard(m) ==
  LET t == m.ticket
      corr == Fresh(t, "corr") IN
  /\ Receive("ticket_created", m)
  /\ ~Seen(m)
  /\ Mark(m)
  /\ IF TeamGroupConfigured /\ db[t].topic # 0
     THEN /\ db' = [db EXCEPT ![t].inbox_corr = corr]
          /\ Owe("ticket_created", <<Msg("send_message", t, corr, 0, "offer")>>)
          /\ Tick(t, {"corr", "send_message"})
     ELSE UNCHANGED <<db, todo, clock>>
  /\ UNCHANGED <<log, reading, telegram>>

\* A correlation that is neither the ticket's nor its card's marks nothing.
AttachIncomingMessageId(m) ==
  LET t == m.ticket IN
  /\ Receive("message_sent", m)
  /\ ~Seen(m)
  /\ m.corr # db[t].corr
  /\ IF m.corr = db[t].inbox_corr
     THEN /\ Mark(m)
          /\ db' = [db EXCEPT ![t].inbox_msg = m.id]
     ELSE UNCHANGED <<processed, db>>
  /\ UNCHANGED <<log, clock, todo, reading, telegram>>

CardKnown(row) == TeamGroupConfigured /\ row.inbox_msg # 0 /\ row.topic # 0

\* No retry when the card's message is not attached yet.
UpdateIncomingAfterAssign(m) ==
  LET t == m.ticket IN
  /\ Receive("ticket_assigned", m)
  /\ ~Seen(m)
  /\ Mark(m)
  /\ IF CardKnown(db[t])
     THEN /\ Owe("ticket_assigned",
                 <<Msg("edit_message_text", t, 0, db[t].inbox_msg, "taken")>>)
          /\ Tick(t, {"edit_message_text"})
     ELSE UNCHANGED <<todo, clock>>
  /\ UNCHANGED <<db, log, reading, telegram>>

-----------------------------------------------------------------------------
(* Buttons: the callback task reads the row, then decides and commits.     *)

CallbackRead(m) ==
  /\ Receive("callback", m)
  /\ ~Seen(m)
  /\ reading' = reading \cup {[msg |-> m, row |-> db[m.ticket]]}
  /\ UNCHANGED <<db, log, processed, clock, todo, telegram>>

\* The transaction of r commits and owes msgs.
CallbackCommit(r, msgs) ==
  /\ reading' = reading \ {r}
  /\ Mark(r.msg)
  /\ Owe("callback", msgs)
  /\ Tick(r.msg.ticket, {msgs[i].type : i \in DOMAIN msgs})
  /\ UNCHANGED <<bus, telegram, left>>

Mut_CanAssign_Taken(r) ==  \* takes a ticket that somebody has taken
  /\ {r.msg.user, r.msg.target} \subseteq Active
  /\ r.row.status \in {"new", "in_progress"}
Mut_CanAssign_Closed(r) ==  \* looks at the assignee only
  /\ {r.msg.user, r.msg.target} \subseteq Active
  /\ r.row.assignee = Nobody
CanAssign(r) ==
  /\ r.msg.user \in Active
  /\ r.msg.target \in Active
  /\ r.row.status = "new"
  /\ r.row.assignee = Nobody

Mut_CanClose(r) ==  \* does not wait for the header to be attached
  /\ r.msg.user = r.row.author
  /\ r.row.status \notin {"none", "closed"}
CanClose(r) ==
  /\ r.msg.user = r.row.author
  /\ r.row.status \notin {"none", "closed"}
  /\ r.row.topic # 0
  /\ r.row.header # 0

Refused(r) ==
  /\ IF r.msg.data = "assign" THEN ~CanAssign(r) ELSE ~CanClose(r)
  /\ CallbackCommit(r, << >>)
  /\ UNCHANGED <<db, log>>

AssignTicket(r) ==
  LET t == r.msg.ticket
      icon == IF r.row.topic = 0 THEN << >>
              ELSE <<Msg("edit_forum_topic", t, 0, r.row.topic, "in_progress")>>
      header == IF r.row.topic = 0 \/ r.row.header = 0 THEN << >>
                ELSE <<Msg("edit_message_text", t, 0, r.row.header, "in_progress")>>
      fact == Msg("ticket_assigned", t, 0, 0, "none") IN
  /\ r.msg.data = "assign"
  /\ CanAssign(r)
  /\ db' = [db EXCEPT ![t].assignee = r.msg.target, ![t].status = "in_progress"]
  /\ Record(t, "assigned")
  /\ CallbackCommit(r, icon \o header \o <<fact>>)

\* `close' asks, `close_cancel' puts the header back as the row has it.
ConfirmOrCancel(r) ==
  LET t == r.msg.ticket IN
  /\ r.msg.data \in {"close", "close_cancel"}
  /\ CanClose(r)
  /\ CallbackCommit(r, <<Msg("edit_message_text", t, 0, r.row.header,
                            IF r.msg.data = "close" THEN "confirm" ELSE r.row.status)>>)
  /\ UNCHANGED <<db, log>>

Mut_ClosingMessages(t, row) ==  \* the topic stays open
  <<Msg("edit_forum_topic", t, 0, row.topic, "closed"),
    Msg("send_message", t, 0, row.topic, "thanks"),
    Msg("edit_message_text", t, 0, row.header, "closed"),
    Msg("ticket_closed", t, 0, 0, "none")>>
ClosingMessages(t, row) ==
  <<Msg("edit_forum_topic", t, 0, row.topic, "closed"),
    Msg("send_message", t, 0, row.topic, "thanks"),
    Msg("edit_message_text", t, 0, row.header, "closed"),
    Msg("close_forum_topic", t, 0, row.topic, "none"),
    Msg("ticket_closed", t, 0, 0, "none")>>

CommitClose(r) ==
  LET t == r.msg.ticket IN
  /\ r.msg.data = "close_confirm"
  /\ CanClose(r)
  /\ db' = [db EXCEPT ![t].status = "closed", ![t].closer = r.msg.user]
  /\ Record(t, "closed")
  /\ CallbackCommit(r, ClosingMessages(t, r.row))

-----------------------------------------------------------------------------
(* gateway-tg: one consumer per command type, in order within a type.      *)

Mut_Oldest(m) == TRUE  \* several workers for one command type
Oldest(m) == \A o \in bus : o.type = m.type /\ o.ticket = m.ticket => m.n <= o.n

\* Telegram has carried m out: acks are published, or lost.
Executed(m, acks) ==
  \/ bus' = (bus \ {m}) \cup acks /\ UNCHANGED left
  \/ /\ left.fail > 0
     /\ bus' = bus \ {m}
     /\ left' = [left EXCEPT !.fail = @ - 1]

core == <<db, log, processed, todo, reading>>

\* TelegramBadRequest is logged; any other error leaves the entry unread.
TelegramRefuses(m) ==
  /\ m.type \in Commands
  /\ Oldest(m)
  /\ left.fail > 0
  /\ bus' = bus \ {m}
  /\ left' = [left EXCEPT !.fail = @ - 1]
  /\ UNCHANGED <<core, clock, telegram>>

CreateForumTopic(m) ==
  LET t == m.ticket
      id == Fresh(t, "topic") IN
  /\ m.type = "create_forum_topic"
  /\ Oldest(m)
  /\ topics' = topics \cup {[ticket |-> t, id |-> id, icon |-> "new", closed |-> FALSE]}
  /\ Tick(t, {"topic", "topic_created"})
  /\ Executed(m, {Msg("topic_created", t, m.corr, id, "none")})
  /\ UNCHANGED <<core, posts>>

SendMessage(m) ==
  LET t == m.ticket
      id == Fresh(t, "post")
      ack == Msg("message_sent", t, m.corr, id, "none") IN
  /\ m.type = "send_message"
  /\ Oldest(m)
  /\ posts' = posts \cup {[ticket |-> t, id |-> id, view |-> m.view]}
  /\ Tick(t, {"post"} \cup (IF m.corr = 0 THEN {} ELSE {"message_sent"}))
  /\ Executed(m, IF m.corr = 0 THEN {} ELSE {ack})
  /\ UNCHANGED <<core, topics>>

EditMessageText(m) ==
  /\ m.type = "edit_message_text"
  /\ Oldest(m)
  /\ posts' = {IF p.ticket = m.ticket /\ p.id = m.id
               THEN [p EXCEPT !.view = m.view] ELSE p : p \in posts}
  /\ Executed(m, {})
  /\ UNCHANGED <<core, clock, topics>>

EditForumTopic(m) ==
  /\ m.type = "edit_forum_topic"
  /\ Oldest(m)
  /\ topics' = {IF f.ticket = m.ticket /\ f.id = m.id
                THEN [f EXCEPT !.icon = m.view] ELSE f : f \in topics}
  /\ Executed(m, {})
  /\ UNCHANGED <<core, clock, posts>>

CloseForumTopic(m) ==
  /\ m.type = "close_forum_topic"
  /\ Oldest(m)
  /\ topics' = {IF f.ticket = m.ticket /\ f.id = m.id
                THEN [f EXCEPT !.closed = TRUE] ELSE f : f \in topics}
  /\ Executed(m, {})
  /\ UNCHANGED <<core, clock, posts>>

-----------------------------------------------------------------------------
(* People press the buttons they are shown; handling may come much later.  *)

Offered(view) ==
  CASE view \in {"new", "in_progress"} -> {"close"}
    [] view = "confirm" -> {"close_cancel", "close_confirm"}
    [] view = "offer" -> {"assign"}
    [] OTHER -> {}

\* A card has a button per executor, and stands in the team's group.
PressButton(p, b, user, target) ==
  /\ left.press > 0
  /\ b \in Offered(p.view)
  /\ IF b = "assign" THEN user \in Executors /\ target \in Executors
                     ELSE user \in Users /\ target = Nobody
  /\ bus' = bus \cup {[type |-> "callback", ticket |-> p.ticket,
                       n |-> Fresh(p.ticket, "callback"),
                       user |-> user, data |-> b, target |-> target]}
  /\ left' = [left EXCEPT !.press = @ - 1]
  /\ Tick(p.ticket, {"callback"})
  /\ UNCHANGED <<core, telegram>>

-----------------------------------------------------------------------------

CoreTakes(m) ==
  \/ HandleTopicCreated(m)
  \/ HandleHeaderMessageSent(m)
  \/ AttachIncomingMessageId(m)
  \/ PublishIncomingCard(m)
  \/ UpdateIncomingAfterAssign(m)
  \/ CallbackRead(m)
  \/ \E h \in Tasks : AlreadyProcessed(h, m)

Decide(r) == Refused(r) \/ AssignTicket(r) \/ ConfirmOrCancel(r) \/ CommitClose(r)

Carries(m) ==
  \/ CreateForumTopic(m)
  \/ SendMessage(m)
  \/ EditMessageText(m)
  \/ EditForumTopic(m)
  \/ CloseForumTopic(m)

Next ==
  \/ \E t \in Tickets, u \in Users : CreateTicketPhase1(t, u)
  \/ \E m \in bus : CoreTakes(m) \/ Carries(m) \/ TelegramRefuses(m)
  \/ \E r \in reading : Decide(r)
  \/ \E h \in Tasks : Publish(h)
  \/ \E p \in posts, b \in Buttons, user \in People,
        target \in Executors \cup {Nobody} :
       PressButton(p, b, user, target)
  \/ Crash

Spec == Init /\ [][Next]_vars

-----------------------------------------------------------------------------
(* Properties.                                                             *)

TypeOK ==
  /\ db \in [Tickets -> Row]
  /\ log \in [Tickets -> [{"created", "assigned", "closed"} -> Nat]]
  /\ processed \subseteq Tasks \X Tickets \X Nat
  /\ clock \in [Tickets -> [Sources -> Nat]]
  /\ bus \subseteq Message \cup Press
  /\ todo \in [Tasks -> Seq(Message)]
  /\ reading \subseteq [msg : Press, row : Row]
  /\ topics \subseteq [ticket : Tickets, id : Nat, icon : Views, closed : BOOLEAN]
  /\ posts \subseteq [ticket : Tickets, id : Nat, view : Views]
  /\ left \in [press : Nat, redelivery : Nat, fail : Nat, crash : Nat]

AtMostOne(S) == \A x, y \in S : x = y

\* The row a button's transaction has read still says, when it commits, what the
\* decision rests on; assign_ticket.py calls its unlocked read-check-write
\* race-safe, and it is for as long as one task handles the buttons.
SnapshotHolds ==
  /\ AtMostOne(reading)
  /\ \A r \in reading : LET row == db[r.msg.ticket] IN
       /\ row.status = r.row.status
       /\ row.author = r.row.author
       /\ row.assignee = r.row.assignee
       /\ r.row.topic # 0 => row.topic # 0
       /\ r.row.header # 0 => row.header # 0

\* The audit trail has exactly one record for every transition the row shows,
\* whatever is pressed twice, delivered twice or interrupted.
AuditTrail == \A t \in Tickets :
  /\ log[t]["created"] = IF db[t].status = "none" THEN 0 ELSE 1
  /\ log[t]["assigned"] = IF db[t].assignee = Nobody THEN 0 ELSE 1
  /\ log[t]["closed"] = IF db[t].status = "closed" THEN 1 ELSE 0

\* A ticket somebody works on or has closed has its topic and its header
\* attached, so assignment and closing never skip the edits of the topic.
WorkedOnIsAttached == \A t \in Tickets :
  db[t].status \in {"in_progress", "closed"} => db[t].topic # 0 /\ db[t].header # 0

\* What makes WorkedOnIsAttached inductive.  A card, and with it every press
\* that takes a ticket, exists only after the header of its ticket is attached;
\* nothing is ever about a ticket that has no row.
AboutCard(m) ==
  \/ m.type = "ticket_created"
  \/ m.type = "send_message" /\ m.view = "offer"
  \/ m.type = "callback" /\ m.data = "assign"

Grounded(m) ==
  /\ db[m.ticket].status # "none"
  /\ m.type \in Acks => m.id # 0
  /\ m.type = "edit_message_text" => m.view # "offer"
  /\ AboutCard(m) => db[m.ticket].header # 0

AllGrounded ==
  /\ \A m \in bus : Grounded(m)
  /\ \A h \in Tasks : \A i \in DOMAIN todo[h] : Grounded(todo[h][i])
  /\ \A r \in reading : Grounded(r.msg)
  /\ \A p \in posts :
       /\ db[p.ticket].status # "none"
       /\ p.view = "offer" => db[p.ticket].header # 0

InOrder == \A t \in Tickets :
  /\ db[t].status = "none" => db[t] = NoRow
  /\ db[t].header # 0 => db[t].topic # 0

\* Announcements, cards and presses come after the attachments they rest on.
RowInv == TypeOK /\ InOrder /\ AllGrounded /\ SnapshotHolds /\ AuditTrail /\ WorkedOnIsAttached

\* Entries that come a second time and crashes never give a ticket a second
\* topic, header, card or farewell.
OneOfEach == \A t \in Tickets :
  /\ AtMostOne({f \in topics : f.ticket = t})
  /\ \A V \in {HeaderViews, CardViews, {"thanks"}} :
       AtMostOne({p \in posts : p.ticket = t /\ p.view \in V})

\* A topic, header or card message once attached to a ticket is never replaced
\* by another one, although the handlers overwrite without looking.
AttachedForGood ==
  [][\A t \in Tickets :
       /\ db[t].topic # 0 => db'[t].topic = db[t].topic
       /\ db[t].header # 0 => db'[t].header = db[t].header
       /\ db[t].inbox_msg # 0 => db'[t].inbox_msg = db[t].inbox_msg]_db

\* What makes OneOfEach and AttachedForGood inductive.  A ticket owes four things
\* once: its topic, and the posts whose view is "new", "offer" and "thanks".
Kinds == {"topic", "new", "offer", "thanks"}

\* m is the command that carries out k.
IsOf(m, t, k) ==
  /\ m.ticket = t
  /\ \/ k = "topic" /\ m.type = "create_forum_topic"
     \/ k # "topic" /\ m.type = "send_message" /\ m.view = k

\* core has committed to k: by the row, or by the event it has marked.
Begun(t, k) ==
  \/ k = "topic"  /\ db[t].status # "none"
  \/ k = "new"    /\ <<"topic_created", t, 1>> \in processed
  \/ k = "offer"  /\ <<"ticket_created", t, 1>> \in processed
  \/ k = "thanks" /\ db[t].status = "closed"

Done(t, k) ==
  \/ k = "topic"  /\ clock[t]["topic"] # 0
  \/ k = "new"    /\ clock[t]["post"] # 0
  \/ k = "offer"  /\ clock[t]["message_sent"] > 1
  \/ k = "thanks" /\ \E p \in posts : p.ticket = t /\ p.view = "thanks"

\* Its command is in one place at most, and gone when it has been carried out.
OnePlace(t, k) ==
  /\ \A m \in bus : IsOf(m, t, k) =>
       /\ Begun(t, k) /\ ~Done(t, k)
       /\ \A o \in bus : IsOf(o, t, k) => m = o
  /\ \A h \in Tasks : \A i \in DOMAIN todo[h] : IsOf(todo[h][i], t, k) =>
       /\ Begun(t, k) /\ ~Done(t, k)
       /\ \A g \in Tasks : \A j \in DOMAIN todo[g] :
            IsOf(todo[g][j], t, k) => h = g /\ i = j
       /\ \A m \in bus : ~IsOf(m, t, k)
  /\ Done(t, k) => Begun(t, k)

CardPost(t, id) == \E p \in posts : p.ticket = t /\ p.id = id /\ p.view \in CardViews

\* The header is post 1 and the card is acknowledged second, so that neither
\* is ever taken, or edited, for the other.
Sound(m) ==
  LET row == db[m.ticket] IN
  /\ m.type \in {"topic_created", "ticket_created"} => m.n = 1
  /\ m.type = "message_sent" =>
       /\ clock[m.ticket]["post"] # 0
       /\ \/ m.n = 1 /\ m.corr = row.corr /\ m.id = 1
          \/ m.n = 2 /\ m.corr # row.corr /\ CardPost(m.ticket, m.id)
  /\ m.type = "send_message" =>
       \/ m.view = "new" /\ m.corr = row.corr
       \/ m.view = "offer" /\ m.corr \notin {0, row.corr}
       \/ m.view = "thanks" /\ m.corr = 0
  /\ m.type = "edit_message_text" =>
       \/ m.view \in HeaderViews /\ m.id = 1
       \/ m.view = "taken" /\ CardPost(m.ticket, m.id)

AllSound ==
  /\ \A m \in bus : Sound(m)
  /\ \A h \in Tasks : \A i \in DOMAIN todo[h] : Sound(todo[h][i])
  /\ \A r \in reading : r.row.header \in {0, 1}

\* What the row of t has attached, somebody has sent and core has marked.
Reached(t) ==
  /\ clock[t]["topic_created"] = clock[t]["topic"]
  /\ clock[t]["message_sent"] = 0 <=> clock[t]["post"] = 0
  /\ clock[t]["ticket_created"] # 0 => <<"message_sent", t, 1>> \in processed
  /\ db[t].status # "none" => db[t].corr \in 1..clock[t]["corr"]
  /\ db[t].topic # 0 => <<"topic_created", t, 1>> \in processed
  /\ db[t].header # 0 => /\ db[t].header = 1
                         /\ clock[t]["post"] # 0
                         /\ <<"message_sent", t, 1>> \in processed
  /\ db[t].inbox_msg # 0 => /\ <<"message_sent", t, 2>> \in processed
                            /\ CardPost(t, db[t].inbox_msg)

Shown(t) ==
  /\ \A f \in topics : f.ticket = t => clock[t]["topic"] # 0
  /\ \A f, g \in topics : f.ticket = t /\ g.ticket = t => f = g
  /\ \A p \in posts : p.ticket = t =>
       /\ p.id \in 1..clock[t]["post"]
       /\ p.id = 1 <=> p.view \in HeaderViews
       /\ p.view \in CardViews => clock[t]["message_sent"] > 1
  /\ \A p, q \in posts : p.ticket = t /\ q.ticket = t =>
       /\ p.id = q.id => p = q
       /\ p.view \in CardViews /\ q.view \in CardViews => p = q
       /\ p.view = "thanks" /\ q.view = "thanks" => p = q

Once ==
  /\ AllSound
  /\ \A t \in Tickets : Reached(t) /\ Shown(t) /\ \A k \in Kinds : OnePlace(t, k)

\* What is inductive whatever is lost: the rows are in order, and what core owes
\* Telegram is owed, sent and answered once.
IInv == RowInv /\ Once

\* Nothing about t is under way.
Settled(t) ==
  /\ \A m \in bus : m.ticket # t
  /\ \A h \in Tasks : \A i \in DOMAIN todo[h] : todo[h][i].ticket # t
  /\ \A r \in reading : r.msg.ticket # t

Undisturbed == left.fail = MaxFail /\ left.crash = MaxCrash

\* As long as nothing is lost, what the customer ends up seeing is the row: the
\* header shows its status or asks whether to close, the topic has its icon,
\* and it is closed, with a farewell, exactly when the ticket is.
CustomerSeesStatus == Undisturbed => \A t \in Tickets : Settled(t) /\ db[t].status # "none" =>
  /\ \E p \in posts : /\ p.ticket = t /\ p.id = db[t].header
                      /\ \/ p.view = db[t].status
                         \/ p.view = "confirm" /\ db[t].status # "closed"
  /\ \E f \in topics : /\ f.ticket = t /\ f.id = db[t].topic
                       /\ f.icon = db[t].status
                       /\ f.closed = (db[t].status = "closed")
  /\ (\E p \in posts : p.ticket = t /\ p.view = "thanks") <=> db[t].status = "closed"

\* What makes CustomerSeesStatus inductive.  Two things of a ticket are edited,
\* the header and the icon of its topic; m edits k.
Edited == {"header", "icon"}
EditOf(m, t, k) ==
  /\ m.ticket = t
  /\ \/ k = "header" /\ m.type = "edit_message_text" /\ m.view \in HeaderViews
     \/ k = "icon" /\ m.type = "edit_forum_topic"

Owed == UNION {{todo[h][i] : i \in DOMAIN todo[h]} : h \in Tasks}
Pending(t, k) == {m \in bus \cup Owed : EditOf(m, t, k)}

Fits(view, t, k) ==
  \/ view = db[t].status
  \/ k = "header" /\ view = "confirm" /\ db[t].status # "closed"

\* What is edited shows the row; while edits are pending, the last of them does.
FitsNow(t, k) ==
  \/ k = "header" /\ \E p \in posts : p.ticket = t /\ p.id = 1 /\ Fits(p.view, t, k)
  \/ k = "icon" /\ \E f \in topics : f.ticket = t /\ Fits(f.icon, t, k)
Made(t, k) ==
  \/ k = "header" /\ clock[t]["post"] # 0
  \/ k = "icon" /\ clock[t]["topic"] # 0
LastFits(t, k) ==
  /\ Made(t, k) /\ Pending(t, k) = {} => FitsNow(t, k)
  /\ \A m \in Pending(t, k) :
       (\A o \in Pending(t, k) : o.n <= m.n) => Fits(m.view, t, k)

\* One task edits, one commit at a time: what it owes is later than what is sent.
InTurn(t, k) ==
  /\ \A m \in Pending(t, k) : m.n <= clock[t][m.type]
  /\ \A h \in Tasks : \A i \in DOMAIN todo[h] : EditOf(todo[h][i], t, k) =>
       /\ h = "callback"
       /\ \A j \in DOMAIN todo[h] : EditOf(todo[h][j], t, k) => i = j
       /\ \A m \in bus : EditOf(m, t, k) => m.n < todo[h][i].n

\* Somebody still has to carry out the next phase of t.
Awaits(t, command, view, ack) == \E m \in bus \cup Owed :
  /\ m.ticket = t
  /\ \/ m.type = command /\ m.view = view
     \/ m.type = ack /\ m.n = 1

Completes(t) ==
  /\ db[t].status # "none" /\ db[t].topic = 0 =>
       Awaits(t, "create_forum_topic", "none", "topic_created")
  /\ db[t].topic # 0 /\ db[t].header = 0 => Awaits(t, "send_message", "new", "message_sent")
  /\ db[t].status = "closed" =>
       /\ \/ \E m \in bus \cup Owed : m.ticket = t /\ m.type = "send_message" /\ m.view = "thanks"
          \/ \E p \in posts : p.ticket = t /\ p.view = "thanks"
       /\ \/ \E m \in bus \cup Owed : m.ticket = t /\ m.type = "close_forum_topic"
          \/ \A f \in topics : f.ticket = t => f.closed

\* A phase is marked as processed only when it has attached what it is about,
\* and the one topic of a ticket is known by one id everywhere.
Attached(t) ==
  /\ <<"topic_created", t, 1>> \in processed => db[t].topic # 0
  /\ <<"message_sent", t, 1>> \in processed => db[t].header # 0
  /\ db[t].topic \in {0, 1} /\ (db[t].topic # 0 => clock[t]["topic"] # 0)
  /\ clock[t]["topic"] # 0 => \E f \in topics : f.ticket = t
  /\ clock[t]["post"] # 0 => \E p \in posts : p.ticket = t /\ p.id = 1
  /\ \A f \in topics : f.ticket = t => f.id = 1 /\ (f.closed => db[t].status = "closed")
TopicId(m) ==
  /\ m.type \in {"topic_created", "edit_forum_topic", "close_forum_topic"} => m.id = 1
  /\ m.type = "topic_created" => clock[m.ticket]["topic"] # 0
  /\ m.type = "close_forum_topic" => db[m.ticket].status = "closed"

Consistent ==
  /\ left.fail <= MaxFail /\ left.crash <= MaxCrash
  /\ \A t \in Tickets : Attached(t)
  /\ \A m \in bus \cup Owed : TopicId(m)
  /\ \A r \in reading : /\ todo["callback"] = << >>
                        /\ r.row.topic \in {0, 1}
                        /\ r.msg.data = "assign" => r.row.topic # 0 /\ r.row.header # 0

Faithful == Undisturbed =>
  \A t \in Tickets : Completes(t) /\ \A k \in Edited : LastFits(t, k) /\ InTurn(t, k)

\* The inductive invariant of the lifecycle, with what holds while nothing is lost.
LifecycleInv == IInv /\ Consistent /\ Faithful

\* SPEC 8.2 and spec 003: the inbox card of a taken ticket is edited to say so.
CardShowsTaker == \A t \in Tickets : Settled(t) /\ db[t].assignee # Nobody =>
  \E p \in posts : p.ticket = t /\ p.view = "taken"

\* The promise of TicketStatus, kept by the rows of core.
Part(row) == [status |-> row.status, author |-> row.author,
              assignee |-> row.assignee, closer |-> row.closer]
StatusView == [t \in Tickets |-> Part(db[t])]
Status == INSTANCE TicketStatus WITH ticket <- StatusView
KeepsStatus == Status!Spec

-----------------------------------------------------------------------------
(* Liveness: the services keep consuming and publishing; people need not   *)
(* press anything.                                                         *)

Service ==
  \/ \E m \in bus : CoreTakes(m) \/ Carries(m)
  \/ \E r \in reading : Decide(r)
  \/ \E h \in Tasks : Publish(h)

\* Each of these steps uses an entry up, so that none can be put off for ever.
FairSpec == Spec /\ WF_vars(Service)

\* When nothing is lost, every ticket gets its card in front of the team.
ReachesTeam == \A t \in Tickets :
  db[t].status # "none" ~> \E p \in posts : p.ticket = t /\ p.view \in CardViews

\* When nothing is lost, closing reaches the customer's topic for good.
ClosingReachesTopic == \A t \in Tickets :
  db[t].status = "closed" ~> [](\E f \in topics : f.ticket = t /\ f.closed /\ f.icon = "closed")

=============================================================================
