----------------------- MODULE TicketLifecycleProofs -----------------------
(***************************************************************************)
(* Theorems about TicketLifecycle, for every value of its constants.       *)
(*                                                                         *)
(* First the types.  Then the rows: a step touches the table in one of     *)
(* five ways (RowStep), whatever the message behind it, and the invariants *)
(* of rows, audit trail and snapshot, and the implementation of            *)
(* TicketStatus, follow from that; that every message in flight stays      *)
(* grounded is shown action by action.  Last, what exists once: what core  *)
(* has committed to (Begun) it commits to once, because an event it has    *)
(* marked is spent; the command of it is in one place at most (OnePlace);  *)
(* and the ids Telegram hands out tell the header from the card.           *)
(***************************************************************************)
EXTENDS TicketLifecycle, SequenceTheorems, TLAPS

-----------------------------------------------------------------------------
(* Types.                                                                  *)

LEMMA FreshType ==
  ASSUME TypeOK, NEW t \in Tickets, NEW s \in Sources
  PROVE  Fresh(t, s) \in Nat \ {0}
BY DEF TypeOK, Fresh

LEMMA MsgType ==
  ASSUME TypeOK, NEW t \in Tickets, NEW type \in (Acks \cup Facts \cup Commands) \ Edits,
         NEW corr \in Nat, NEW id \in Nat, NEW view \in Views
  PROVE  Msg(type, t, corr, id, view) \in Message
<1>1. type \in Sources
  BY DEF Sources, Acks, Tasks
<1>2. Fresh(t, type) \in Nat
  BY <1>1, FreshType
<1> QED
  BY <1>2 DEF Msg, Message

LEMMA EditType ==
  ASSUME TypeOK, NEW t \in Tickets, NEW type \in Edits, NEW id \in Nat \ {0},
         NEW view \in Views
  PROVE  Msg(type, t, 0, id, view) \in Message
<1>1. type \in Sources
  BY DEF Sources, Edits, Commands
<1>2. Fresh(t, type) \in Nat
  BY <1>1, FreshType
<1> QED
  BY <1>2 DEF Msg, Message

LEMMA TickType ==
  ASSUME TypeOK, NEW t \in Tickets, NEW S, Tick(t, S)
  PROVE  clock' \in [Tickets -> [Sources -> Nat]]
BY DEF Tick, TypeOK

\* Spending one of a bound.
LEMMA SpendType ==
  ASSUME NEW l \in [press : Nat, redelivery : Nat, fail : Nat, crash : Nat]
  PROVE  /\ l.press > 0 => [l EXCEPT !.press = @ - 1] \in
             [press : Nat, redelivery : Nat, fail : Nat, crash : Nat]
         /\ l.redelivery > 0 => [l EXCEPT !.redelivery = @ - 1] \in
             [press : Nat, redelivery : Nat, fail : Nat, crash : Nat]
         /\ l.fail > 0 => [l EXCEPT !.fail = @ - 1] \in
             [press : Nat, redelivery : Nat, fail : Nat, crash : Nat]
         /\ l.crash > 0 => [l EXCEPT !.crash = @ - 1] \in
             [press : Nat, redelivery : Nat, fail : Nat, crash : Nat]
OBVIOUS

LEMMA ReceiveType ==
  ASSUME TypeOK, NEW h, NEW m \in bus, Receive(h, m)
  PROVE  /\ bus' \subseteq bus
         /\ bus' \subseteq Message \cup Press
         /\ left' \in [press : Nat, redelivery : Nat, fail : Nat, crash : Nat]
BY SpendType DEF Receive, TypeOK

LEMMA MarkType ==
  ASSUME TypeOK, NEW m, m.type \in Tasks, m.ticket \in Tickets, m.n \in Nat, Mark(m)
  PROVE  processed' \subseteq Tasks \X Tickets \X Nat
BY DEF Mark, EventId, TypeOK

LEMMA RecordType ==
  ASSUME TypeOK, NEW t \in Tickets, NEW e \in {"created", "assigned", "closed"}, Record(t, e)
  PROVE  log' \in [Tickets -> [{"created", "assigned", "closed"} -> Nat]]
BY DEF Record, TypeOK

LEMMA OweType ==
  ASSUME TypeOK, NEW h \in Tasks, NEW msgs \in Seq(Message), Owe(h, msgs)
  PROVE  todo' \in [Tasks -> Seq(Message)]
BY DEF Owe, TypeOK

\* What an entry of the bus is made of.
LEMMA EntryType ==
  ASSUME TypeOK, NEW m \in bus
  PROVE  /\ m.ticket \in Tickets
         /\ m.n \in Nat
         /\ m.type = "callback" => m \in Press
         /\ m.type # "callback" => m \in Message
         /\ m \in Message => m.corr \in Nat /\ m.id \in Nat /\ m.view \in Views
BY DEF TypeOK, Message, Press, Acks, Facts, Commands, Edits

\* What the handlers make of a row.
LEMMA AttachType ==
  ASSUME NEW r \in Row, NEW x \in Nat
  PROVE  /\ [r EXCEPT !.topic = x] \in Row
         /\ [r EXCEPT !.header = x] \in Row
         /\ [r EXCEPT !.inbox_corr = x] \in Row
         /\ [r EXCEPT !.inbox_msg = x] \in Row
BY DEF Row

LEMMA TakenRowType ==
  ASSUME NEW r \in Row, NEW e \in Executors
  PROVE  [r EXCEPT !.assignee = e, !.status = "in_progress"] \in Row
BY DEF Row

LEMMA ClosedRowType ==
  ASSUME NEW r \in Row, NEW p \in People
  PROVE  [r EXCEPT !.status = "closed", !.closer = p] \in Row
BY DEF Row, People

LEMMA NewRowType ==
  ASSUME NEW u \in Users, NEW x \in Nat
  PROVE  /\ NoRow \in Row
         /\ [NoRow EXCEPT !.status = "new", !.author = u, !.corr = x] \in Row
BY DEF Row, NoRow

LEMMA DbType ==
  ASSUME TypeOK, NEW t \in Tickets, NEW r \in Row, db' = [db EXCEPT ![t] = r]
  PROVE  db' \in [Tickets -> Row]
BY DEF TypeOK

\* One message owed: the shape of every handler but the callback task's.
LEMMA OweOneType ==
  ASSUME TypeOK, NEW h \in Tasks, NEW m \in Message, Owe(h, <<m>>)
  PROVE  todo' \in [Tasks -> Seq(Message)]
<1>1. <<m>> \in Seq(Message)
  OBVIOUS
<1> QED
  BY <1>1, OweType

LEMMA TypeCreate ==
  ASSUME TypeOK, NEW t \in Tickets, NEW u \in Users, CreateTicketPhase1(t, u)
  PROVE  TypeOK'
<1>1. Fresh(t, "corr") \in Nat
  BY FreshType DEF Sources, Ids
<1>2. /\ "message" \in Tasks
      /\ "create_forum_topic" \in (Acks \cup Facts \cup Commands) \ Edits
      /\ "none" \in Views
  BY DEF Tasks, Acks, Facts, Commands, Edits, Views
<1>3. Msg("create_forum_topic", t, Fresh(t, "corr"), 0, "none") \in Message
  BY <1>1, <1>2, MsgType
<1>4. todo' \in [Tasks -> Seq(Message)]
  BY <1>2, <1>3, OweOneType DEF CreateTicketPhase1
<1>5. clock' \in [Tickets -> [Sources -> Nat]]
  BY TickType DEF CreateTicketPhase1
<1>6. db' \in [Tickets -> Row]
  BY <1>1, NewRowType, DbType DEF CreateTicketPhase1
<1>7. log' \in [Tickets -> [{"created", "assigned", "closed"} -> Nat]]
  BY RecordType DEF CreateTicketPhase1
<1> QED
  BY <1>4, <1>5, <1>6, <1>7 DEF CreateTicketPhase1, TypeOK, telegram

\* What a task of core that answers at once leaves well typed.
LEMMA TakenType ==
  ASSUME TypeOK, NEW h \in Tasks, NEW m \in bus, Receive(h, m)
  PROVE  /\ m.type \in Tasks /\ m.type = h
         /\ m.ticket \in Tickets /\ m.n \in Nat /\ db[m.ticket] \in Row
         /\ h # "callback" => m.corr \in Nat /\ m.id \in Nat
<1>1. m.type = h
  BY DEF Receive
<1>2. m.ticket \in Tickets
  BY EntryType
<1>3. db[m.ticket] \in Row
  BY <1>2 DEF TypeOK
<1> QED
  BY <1>1, <1>2, <1>3, EntryType

LEMMA TypeTopicCreated ==
  ASSUME TypeOK, NEW m \in bus, HandleTopicCreated(m)
  PROVE  TypeOK'
<1> DEFINE t == m.ticket
<1>1. "topic_created" \in Tasks /\ Receive("topic_created", m)
  BY DEF HandleTopicCreated, Tasks
<1>2. /\ m.type \in Tasks /\ t \in Tickets /\ m.n \in Nat /\ db[t] \in Row
      /\ m.corr \in Nat /\ m.id \in Nat
  BY <1>1, TakenType
<1>3. "send_message" \in (Acks \cup Facts \cup Commands) \ Edits /\ "new" \in Views
  BY DEF Commands, Edits, Views, HeaderViews
<1>4. Header(m) \in Message
  BY <1>2, <1>3, MsgType DEF Header
<1>5. todo' \in [Tasks -> Seq(Message)]
  BY <1>1, <1>4, OweOneType DEF HandleTopicCreated
<1>6. clock' \in [Tickets -> [Sources -> Nat]]
  BY <1>2, TickType DEF HandleTopicCreated
<1>7. processed' \subseteq Tasks \X Tickets \X Nat
  BY <1>2, MarkType DEF HandleTopicCreated
<1>8. db' \in [Tickets -> Row]
  <2>1. [db[t] EXCEPT !.topic = m.id] \in Row
    BY <1>2, AttachType
  <2>2. db' = [db EXCEPT ![t] = [db[t] EXCEPT !.topic = m.id]]
    BY DEF HandleTopicCreated
  <2> QED
    BY <1>2, <2>1, <2>2, DbType
<1> QED
  BY <1>1, <1>5, <1>6, <1>7, <1>8, ReceiveType DEF HandleTopicCreated, TypeOK, telegram

LEMMA TypeHeaderSent ==
  ASSUME TypeOK, NEW m \in bus, HandleHeaderMessageSent(m)
  PROVE  TypeOK'
<1> DEFINE t == m.ticket
<1>1. "message_sent" \in Tasks /\ Receive("message_sent", m)
  BY DEF HandleHeaderMessageSent, Tasks
<1>2. /\ m.type \in Tasks /\ t \in Tickets /\ m.n \in Nat /\ db[t] \in Row
      /\ m.corr \in Nat /\ m.id \in Nat
  BY <1>1, TakenType
<1>3. processed' \subseteq Tasks \X Tickets \X Nat
  BY <1>2, MarkType DEF HandleHeaderMessageSent
<1>4. CASE db[t].topic = 0
  BY <1>1, <1>3, <1>4, ReceiveType DEF HandleHeaderMessageSent, TypeOK, telegram
<1>5. CASE db[t].topic # 0
  <2>1. "ticket_created" \in (Acks \cup Facts \cup Commands) \ Edits /\ "none" \in Views
    BY DEF Facts, Edits, Views
  <2>2. Msg("ticket_created", t, 0, 0, "none") \in Message
    BY <1>2, <2>1, MsgType
  <2>3. todo' \in [Tasks -> Seq(Message)]
    BY <1>1, <1>5, <2>2, OweOneType DEF HandleHeaderMessageSent
  <2>4. clock' \in [Tickets -> [Sources -> Nat]]
    BY <1>2, <1>5, TickType DEF HandleHeaderMessageSent
  <2>5. [db[t] EXCEPT !.header = m.id] \in Row
    BY <1>2, AttachType
  <2>6. db' = [db EXCEPT ![t] = [db[t] EXCEPT !.header = m.id]]
    BY <1>5 DEF HandleHeaderMessageSent, WithHeader
  <2>7. db' \in [Tickets -> Row]
    BY <1>2, <2>5, <2>6, DbType
  <2> QED
    BY <1>1, <1>3, <2>3, <2>4, <2>7, ReceiveType
       DEF HandleHeaderMessageSent, TypeOK, telegram
<1> QED
  BY <1>4, <1>5

LEMMA TypeIncomingCard ==
  ASSUME TypeOK, NEW m \in bus, PublishIncomingCard(m)
  PROVE  TypeOK'
<1> DEFINE t == m.ticket
           corr == Fresh(t, "corr")
<1>1. "ticket_created" \in Tasks /\ Receive("ticket_created", m)
  BY DEF PublishIncomingCard, Tasks
<1>2. /\ m.type \in Tasks /\ t \in Tickets /\ m.n \in Nat /\ db[t] \in Row
      /\ m.corr \in Nat /\ m.id \in Nat
  BY <1>1, TakenType
<1>3. processed' \subseteq Tasks \X Tickets \X Nat
  BY <1>2, MarkType DEF PublishIncomingCard
<1>4. CASE ~(TeamGroupConfigured /\ db[t].topic # 0)
  BY <1>1, <1>3, <1>4, ReceiveType DEF PublishIncomingCard, TypeOK, telegram
<1>5. CASE TeamGroupConfigured /\ db[t].topic # 0
  <2>1. "send_message" \in (Acks \cup Facts \cup Commands) \ Edits /\ "offer" \in Views
    BY DEF Commands, Edits, Views, CardViews
  <2>2. corr \in Nat
    BY <1>2, FreshType DEF Sources, Ids
  <2>3. Msg("send_message", t, corr, 0, "offer") \in Message
    BY <1>2, <2>1, <2>2, MsgType
  <2>4. todo' \in [Tasks -> Seq(Message)]
    BY <1>1, <1>5, <2>3, OweOneType DEF PublishIncomingCard
  <2>5. clock' \in [Tickets -> [Sources -> Nat]]
    BY <1>2, <1>5, TickType DEF PublishIncomingCard
  <2>6. [db[t] EXCEPT !.inbox_corr = corr] \in Row
    BY <1>2, <2>2, AttachType
  <2>7. db' = [db EXCEPT ![t] = [db[t] EXCEPT !.inbox_corr = corr]]
    BY <1>5 DEF PublishIncomingCard
  <2>8. db' \in [Tickets -> Row]
    BY <1>2, <2>6, <2>7, DbType
  <2> QED
    BY <1>1, <1>3, <2>4, <2>5, <2>8, ReceiveType
       DEF PublishIncomingCard, TypeOK, telegram
<1> QED
  BY <1>4, <1>5

LEMMA TypeAttachCard ==
  ASSUME TypeOK, NEW m \in bus, AttachIncomingMessageId(m)
  PROVE  TypeOK'
<1> DEFINE t == m.ticket
<1>1. "message_sent" \in Tasks /\ Receive("message_sent", m)
  BY DEF AttachIncomingMessageId, Tasks
<1>2. /\ m.type \in Tasks /\ t \in Tickets /\ m.n \in Nat /\ db[t] \in Row
      /\ m.corr \in Nat /\ m.id \in Nat
  BY <1>1, TakenType
<1>3. CASE m.corr # db[t].inbox_corr
  BY <1>1, <1>3, ReceiveType DEF AttachIncomingMessageId, TypeOK, telegram
<1>4. CASE m.corr = db[t].inbox_corr
  <2>1. processed' \subseteq Tasks \X Tickets \X Nat
    BY <1>2, <1>4, MarkType DEF AttachIncomingMessageId
  <2>2. [db[t] EXCEPT !.inbox_msg = m.id] \in Row
    BY <1>2, AttachType
  <2>3. db' = [db EXCEPT ![t] = [db[t] EXCEPT !.inbox_msg = m.id]]
    BY <1>4 DEF AttachIncomingMessageId
  <2>4. db' \in [Tickets -> Row]
    BY <1>2, <2>2, <2>3, DbType
  <2> QED
    BY <1>1, <2>1, <2>4, ReceiveType DEF AttachIncomingMessageId, TypeOK, telegram
<1> QED
  BY <1>3, <1>4

LEMMA TypeUpdateCard ==
  ASSUME TypeOK, NEW m \in bus, UpdateIncomingAfterAssign(m)
  PROVE  TypeOK'
<1> DEFINE t == m.ticket
<1>1. "ticket_assigned" \in Tasks /\ Receive("ticket_assigned", m)
  BY DEF UpdateIncomingAfterAssign, Tasks
<1>2. m.type \in Tasks /\ t \in Tickets /\ m.n \in Nat /\ db[t] \in Row
  BY <1>1, TakenType
<1>3. processed' \subseteq Tasks \X Tickets \X Nat
  BY <1>2, MarkType DEF UpdateIncomingAfterAssign
<1>4. CASE ~CardKnown(db[t])
  BY <1>1, <1>3, <1>4, ReceiveType DEF UpdateIncomingAfterAssign, TypeOK, telegram
<1>5. CASE CardKnown(db[t])
  <2>1. db[t].inbox_msg \in Nat \ {0}
    BY <1>2, <1>5 DEF CardKnown, Row
  <2>2. "edit_message_text" \in Edits /\ "taken" \in Views
    BY DEF Edits, Views, CardViews
  <2>3. Msg("edit_message_text", t, 0, db[t].inbox_msg, "taken") \in Message
    BY <1>2, <2>1, <2>2, EditType
  <2>4. todo' \in [Tasks -> Seq(Message)]
    BY <1>1, <1>5, <2>3, OweOneType DEF UpdateIncomingAfterAssign
  <2>5. clock' \in [Tickets -> [Sources -> Nat]]
    BY <1>2, <1>5, TickType DEF UpdateIncomingAfterAssign
  <2> QED
    BY <1>1, <1>3, <2>4, <2>5, ReceiveType
       DEF UpdateIncomingAfterAssign, TypeOK, telegram
<1> QED
  BY <1>4, <1>5

LEMMA TypeCallbackRead ==
  ASSUME TypeOK, NEW m \in bus, CallbackRead(m)
  PROVE  TypeOK'
<1>1. "callback" \in Tasks /\ Receive("callback", m)
  BY DEF CallbackRead, Tasks
<1>2. m \in Press /\ db[m.ticket] \in Row
  BY <1>1, TakenType, EntryType
<1>3. reading' \subseteq [msg : Press, row : Row]
  BY <1>2 DEF CallbackRead, TypeOK
<1> QED
  BY <1>1, <1>3, ReceiveType DEF CallbackRead, TypeOK, telegram

LEMMA TypeSpent ==
  ASSUME TypeOK, NEW h \in Tasks, NEW m \in bus, AlreadyProcessed(h, m)
  PROVE  TypeOK'
BY ReceiveType DEF AlreadyProcessed, TypeOK, telegram

\* The callback task's second transaction, whatever it owes.
LEMMA CommitType ==
  ASSUME TypeOK, NEW r \in reading, NEW msgs \in Seq(Message), CallbackCommit(r, msgs)
  PROVE  /\ todo' \in [Tasks -> Seq(Message)]
         /\ clock' \in [Tickets -> [Sources -> Nat]]
         /\ processed' \subseteq Tasks \X Tickets \X Nat
         /\ reading' \subseteq [msg : Press, row : Row]
         /\ bus' = bus /\ left' = left /\ topics' = topics /\ posts' = posts
<1>1. /\ r.msg.type = "callback" /\ r.msg.type \in Tasks
      /\ r.msg.ticket \in Tickets /\ r.msg.n \in Nat
  BY DEF TypeOK, Press, Tasks
<1>2. todo' \in [Tasks -> Seq(Message)]
  BY <1>1, OweType DEF CallbackCommit
<1>3. clock' \in [Tickets -> [Sources -> Nat]]
  BY <1>1, TickType DEF CallbackCommit
<1>4. processed' \subseteq Tasks \X Tickets \X Nat
  BY <1>1, MarkType DEF CallbackCommit
<1>5. reading' \subseteq [msg : Press, row : Row]
  BY DEF CallbackCommit, TypeOK
<1> QED
  BY <1>2, <1>3, <1>4, <1>5 DEF CallbackCommit, telegram

LEMMA TypeRefused ==
  ASSUME TypeOK, NEW r \in reading, Refused(r)
  PROVE  TypeOK'
<1>1. << >> \in Seq(Message)
  OBVIOUS
<1> QED
  BY <1>1, CommitType DEF Refused, TypeOK

\* What a press and the row read for it are made of.
LEMMA ReadingType ==
  ASSUME TypeOK, NEW r \in reading
  PROVE  /\ r.msg.ticket \in Tickets
         /\ r.msg.user \in People
         /\ r.row \in Row
         /\ db[r.msg.ticket] \in Row
         /\ r.row.topic \in Nat /\ r.row.header \in Nat
         /\ r.row.status \in {"none", "new", "in_progress", "closed"}
BY DEF TypeOK, Press, Row

LEMMA TypeAssign ==
  ASSUME TypeOK, NEW r \in reading, AssignTicket(r)
  PROVE  TypeOK'
<1> DEFINE t == r.msg.ticket
           icon == IF r.row.topic = 0 THEN << >>
                   ELSE <<Msg("edit_forum_topic", t, 0, r.row.topic, "in_progress")>>
           header == IF r.row.topic = 0 \/ r.row.header = 0 THEN << >>
                     ELSE <<Msg("edit_message_text", t, 0, r.row.header, "in_progress")>>
           fact == Msg("ticket_assigned", t, 0, 0, "none")
<1>1. t \in Tickets /\ db[t] \in Row /\ r.row.topic \in Nat /\ r.row.header \in Nat
  BY ReadingType
<1>2. /\ "ticket_assigned" \in (Acks \cup Facts \cup Commands) \ Edits
      /\ {"edit_forum_topic", "edit_message_text"} \subseteq Edits
      /\ {"in_progress", "none"} \subseteq Views
  BY DEF Facts, Edits, Views, HeaderViews
<1>3. icon \in Seq(Message)
  <2>1. CASE r.row.topic = 0
    BY <2>1
  <2>2. CASE r.row.topic # 0
    <3>1. Msg("edit_forum_topic", t, 0, r.row.topic, "in_progress") \in Message
      BY <1>1, <1>2, <2>2, EditType
    <3> QED
      BY <2>2, <3>1
  <2> QED
    BY <2>1, <2>2
<1>4. header \in Seq(Message)
  <2>1. CASE r.row.topic = 0 \/ r.row.header = 0
    BY <2>1
  <2>2. CASE ~(r.row.topic = 0 \/ r.row.header = 0)
    <3>1. Msg("edit_message_text", t, 0, r.row.header, "in_progress") \in Message
      BY <1>1, <1>2, <2>2, EditType
    <3> QED
      BY <2>2, <3>1
  <2> QED
    BY <2>1, <2>2
<1>5. <<fact>> \in Seq(Message)
  <2>1. fact \in Message
    BY <1>1, <1>2, MsgType
  <2> QED
    BY <2>1
<1>6. icon \o header \o <<fact>> \in Seq(Message)
  BY <1>3, <1>4, <1>5, ConcatProperties
<1>7. CallbackCommit(r, icon \o header \o <<fact>>)
  BY DEF AssignTicket
<1>8. db' \in [Tickets -> Row]
  <2>1. r.msg.target \in Executors
    BY PeopleAssumption DEF AssignTicket, CanAssign
  <2>2. [db[t] EXCEPT !.assignee = r.msg.target, !.status = "in_progress"] \in Row
    BY <1>1, <2>1, TakenRowType
  <2>3. db' = [db EXCEPT ![t].assignee = r.msg.target, ![t].status = "in_progress"]
    BY DEF AssignTicket
  <2>4. db \in [Tickets -> Row]
    BY DEF TypeOK
  <2>5. db' = [db EXCEPT ![t] = [db[t] EXCEPT !.assignee = r.msg.target,
                                              !.status = "in_progress"]]
    BY <1>1, <2>3, <2>4
  <2> QED
    BY <1>1, <2>2, <2>5, DbType
<1>9. log' \in [Tickets -> [{"created", "assigned", "closed"} -> Nat]]
  BY <1>1, RecordType DEF AssignTicket
<1> HIDE DEF icon, header, fact
<1> QED
  BY <1>6, <1>7, <1>8, <1>9, CommitType DEF TypeOK

LEMMA TypeAskClose ==
  ASSUME TypeOK, NEW r \in reading, ConfirmOrCancel(r)
  PROVE  TypeOK'
<1> DEFINE t == r.msg.ticket
           view == IF r.msg.data = "close" THEN "confirm" ELSE r.row.status
<1>1. t \in Tickets /\ r.row.header \in Nat \ {0} /\ view \in Views
  BY ReadingType DEF ConfirmOrCancel, CanClose, Views, HeaderViews
<1>2. "edit_message_text" \in Edits
  BY DEF Edits
<1>3. Msg("edit_message_text", t, 0, r.row.header, view) \in Message
  BY <1>1, <1>2, EditType
<1>4. <<Msg("edit_message_text", t, 0, r.row.header, view)>> \in Seq(Message)
  BY <1>3
<1> QED
  BY <1>4, CommitType DEF ConfirmOrCancel, TypeOK

LEMMA TypeClose ==
  ASSUME TypeOK, NEW r \in reading, CommitClose(r)
  PROVE  TypeOK'
<1> DEFINE t == r.msg.ticket
<1>1. /\ t \in Tickets /\ db[t] \in Row
      /\ r.row.topic \in Nat \ {0} /\ r.row.header \in Nat \ {0}
  BY ReadingType DEF CommitClose, CanClose
<1>2. /\ {"send_message", "ticket_closed"} \subseteq (Acks \cup Facts \cup Commands) \ Edits
      /\ {"edit_forum_topic", "edit_message_text", "close_forum_topic"} \subseteq Edits
      /\ {"closed", "thanks", "none"} \subseteq Views
  BY DEF Facts, Commands, Edits, Views, HeaderViews
<1>3. /\ Msg("edit_forum_topic", t, 0, r.row.topic, "closed") \in Message
      /\ Msg("send_message", t, 0, r.row.topic, "thanks") \in Message
      /\ Msg("edit_message_text", t, 0, r.row.header, "closed") \in Message
      /\ Msg("close_forum_topic", t, 0, r.row.topic, "none") \in Message
      /\ Msg("ticket_closed", t, 0, 0, "none") \in Message
  BY <1>1, <1>2, MsgType, EditType
<1>4. ClosingMessages(t, r.row) \in Seq(Message)
  BY <1>3 DEF ClosingMessages
<1>5. db' \in [Tickets -> Row]
  <2>1. [db[t] EXCEPT !.status = "closed", !.closer = r.msg.user] \in Row
    BY <1>1, ReadingType, ClosedRowType
  <2>2. db' = [db EXCEPT ![t].status = "closed", ![t].closer = r.msg.user]
    BY DEF CommitClose
  <2>3. db \in [Tickets -> Row]
    BY DEF TypeOK
  <2>4. db' = [db EXCEPT ![t] = [db[t] EXCEPT !.status = "closed",
                                              !.closer = r.msg.user]]
    BY <1>1, <2>2, <2>3
  <2> QED
    BY <1>1, <2>1, <2>4, DbType
<1>6. log' \in [Tickets -> [{"created", "assigned", "closed"} -> Nat]]
  BY <1>1, RecordType DEF CommitClose
<1> QED
  BY <1>4, <1>5, <1>6, CommitType DEF CommitClose, TypeOK

LEMMA TypePublish ==
  ASSUME TypeOK, NEW h \in Tasks, Publish(h)
  PROVE  TypeOK'
<1>1. todo[h] \in Seq(Message) /\ todo[h] # << >>
  BY DEF TypeOK, Publish
<1>2. Head(todo[h]) \in Message /\ Tail(todo[h]) \in Seq(Message)
  BY <1>1, HeadTailProperties
<1>3. bus' \subseteq Message \cup Press
  BY <1>2 DEF Publish, TypeOK
<1>4. todo' \in [Tasks -> Seq(Message)]
  BY <1>2 DEF Publish, TypeOK
<1> QED
  BY <1>3, <1>4 DEF Publish, TypeOK, telegram

LEMMA TypeCrash == TypeOK /\ Crash => TypeOK'
<1> SUFFICES ASSUME TypeOK, Crash
             PROVE  TypeOK'
  OBVIOUS
<1>1. todo' \in [Tasks -> Seq(Message)]
  BY DEF Crash
<1>2. left' \in [press : Nat, redelivery : Nat, fail : Nat, crash : Nat]
  BY SpendType DEF Crash, TypeOK
<1> QED
  BY <1>1, <1>2 DEF Crash, TypeOK, telegram

\* gateway-tg: whatever becomes of a command, the bus and the bounds stay typed.
LEMMA ExecutedType ==
  ASSUME TypeOK, NEW m \in bus, NEW acks \in SUBSET Message, Executed(m, acks)
  PROVE  /\ bus' \subseteq Message \cup Press
         /\ left' \in [press : Nat, redelivery : Nat, fail : Nat, crash : Nat]
BY SpendType DEF Executed, TypeOK

LEMMA CommandType ==
  ASSUME TypeOK, NEW m \in bus, m.type \in Commands
  PROVE  m.ticket \in Tickets /\ m.corr \in Nat /\ m.id \in Nat /\ m.view \in Views
BY EntryType DEF Commands

LEMMA TypeRefuse ==
  ASSUME TypeOK, NEW m \in bus, TelegramRefuses(m)
  PROVE  TypeOK'
<1>1. left' \in [press : Nat, redelivery : Nat, fail : Nat, crash : Nat]
  BY SpendType DEF TelegramRefuses, TypeOK
<1>2. bus' \subseteq Message \cup Press
  BY DEF TelegramRefuses, TypeOK
<1> QED
  BY <1>1, <1>2 DEF TelegramRefuses, TypeOK, telegram, core

LEMMA TypeCreateTopic ==
  ASSUME TypeOK, NEW m \in bus, CreateForumTopic(m)
  PROVE  TypeOK'
<1> DEFINE t == m.ticket
           id == Fresh(t, "topic")
           ack == Msg("topic_created", t, m.corr, id, "none")
<1>1. m.type \in Commands
  BY DEF CreateForumTopic, Commands
<1>2. t \in Tickets /\ m.corr \in Nat
  BY <1>1, CommandType
<1>3. id \in Nat
  BY <1>2, FreshType DEF Sources, Ids
<1>4. "topic_created" \in (Acks \cup Facts \cup Commands) \ Edits /\ {"none", "new"} \subseteq Views
  BY DEF Acks, Edits, Views, HeaderViews
<1>5. ack \in Message
  BY <1>2, <1>3, <1>4, MsgType
<1>6. topics' \subseteq [ticket : Tickets, id : Nat, icon : Views, closed : BOOLEAN]
  <2>1. [ticket |-> t, id |-> id, icon |-> "new", closed |-> FALSE]
          \in [ticket : Tickets, id : Nat, icon : Views, closed : BOOLEAN]
    BY <1>2, <1>3, <1>4
  <2>2. topics' = topics \cup {[ticket |-> t, id |-> id, icon |-> "new", closed |-> FALSE]}
    BY DEF CreateForumTopic
  <2>3. topics \subseteq [ticket : Tickets, id : Nat, icon : Views, closed : BOOLEAN]
    BY DEF TypeOK
  <2> HIDE DEF id
  <2> QED
    BY <2>1, <2>2, <2>3
<1>7. clock' \in [Tickets -> [Sources -> Nat]]
  BY <1>2, TickType DEF CreateForumTopic
<1>8. /\ bus' \subseteq Message \cup Press
      /\ left' \in [press : Nat, redelivery : Nat, fail : Nat, crash : Nat]
  BY <1>5, ExecutedType DEF CreateForumTopic
<1> QED
  BY <1>6, <1>7, <1>8 DEF CreateForumTopic, TypeOK, core

LEMMA TypeSendMessage ==
  ASSUME TypeOK, NEW m \in bus, SendMessage(m)
  PROVE  TypeOK'
<1> DEFINE t == m.ticket
           id == Fresh(t, "post")
           ack == Msg("message_sent", t, m.corr, id, "none")
           acks == IF m.corr = 0 THEN {} ELSE {ack}
<1>1. m.type \in Commands
  BY DEF SendMessage, Commands
<1>2. t \in Tickets /\ m.corr \in Nat /\ m.view \in Views
  BY <1>1, CommandType
<1>3. id \in Nat
  BY <1>2, FreshType DEF Sources, Ids
<1>4. "message_sent" \in (Acks \cup Facts \cup Commands) \ Edits /\ "none" \in Views
  BY DEF Acks, Edits, Views
<1>5. ack \in Message
  BY <1>2, <1>3, <1>4, MsgType
<1>6. acks \subseteq Message
  BY <1>5
<1>7. posts' \subseteq [ticket : Tickets, id : Nat, view : Views]
  BY <1>2, <1>3 DEF SendMessage, TypeOK
<1>8. clock' \in [Tickets -> [Sources -> Nat]]
  BY <1>2, TickType DEF SendMessage
<1>9. Executed(m, acks)
  BY DEF SendMessage
<1>10. /\ bus' \subseteq Message \cup Press
       /\ left' \in [press : Nat, redelivery : Nat, fail : Nat, crash : Nat]
  BY <1>6, <1>9, ExecutedType
<1> QED
  BY <1>7, <1>8, <1>10 DEF SendMessage, TypeOK, core

LEMMA TypeEditMessage ==
  ASSUME TypeOK, NEW m \in bus, EditMessageText(m)
  PROVE  TypeOK'
<1>1. m.view \in Views
  BY CommandType DEF EditMessageText, Commands
<1>2. posts' \subseteq [ticket : Tickets, id : Nat, view : Views]
  BY <1>1 DEF EditMessageText, TypeOK
<1>3. /\ bus' \subseteq Message \cup Press
      /\ left' \in [press : Nat, redelivery : Nat, fail : Nat, crash : Nat]
  BY ExecutedType DEF EditMessageText
<1> QED
  BY <1>2, <1>3 DEF EditMessageText, TypeOK, core

LEMMA TypeEditTopic ==
  ASSUME TypeOK, NEW m \in bus, EditForumTopic(m)
  PROVE  TypeOK'
<1>1. m.view \in Views
  BY CommandType DEF EditForumTopic, Commands
<1>2. topics' \subseteq [ticket : Tickets, id : Nat, icon : Views, closed : BOOLEAN]
  BY <1>1 DEF EditForumTopic, TypeOK
<1>3. /\ bus' \subseteq Message \cup Press
      /\ left' \in [press : Nat, redelivery : Nat, fail : Nat, crash : Nat]
  BY ExecutedType DEF EditForumTopic
<1> QED
  BY <1>2, <1>3 DEF EditForumTopic, TypeOK, core

LEMMA TypeCloseTopic ==
  ASSUME TypeOK, NEW m \in bus, CloseForumTopic(m)
  PROVE  TypeOK'
<1>1. topics' \subseteq [ticket : Tickets, id : Nat, icon : Views, closed : BOOLEAN]
  BY DEF CloseForumTopic, TypeOK
<1>2. /\ bus' \subseteq Message \cup Press
      /\ left' \in [press : Nat, redelivery : Nat, fail : Nat, crash : Nat]
  BY ExecutedType DEF CloseForumTopic
<1> QED
  BY <1>1, <1>2 DEF CloseForumTopic, TypeOK, core

LEMMA TypePress ==
  ASSUME TypeOK, NEW p \in posts, NEW b \in Buttons, NEW user \in People,
         NEW target \in Executors \cup {Nobody}, PressButton(p, b, user, target)
  PROVE  TypeOK'
<1>1. p.ticket \in Tickets /\ "callback" \in Sources
  BY DEF TypeOK, Sources, Tasks
<1>2. Fresh(p.ticket, "callback") \in Nat
  BY <1>1, FreshType
<1>3. bus' \subseteq Message \cup Press
  BY <1>1, <1>2 DEF PressButton, TypeOK, Press
<1>4. clock' \in [Tickets -> [Sources -> Nat]]
  BY <1>1, TickType DEF PressButton
<1>5. left' \in [press : Nat, redelivery : Nat, fail : Nat, crash : Nat]
  BY SpendType DEF PressButton, TypeOK
<1> QED
  BY <1>3, <1>4, <1>5 DEF PressButton, TypeOK, core, telegram

LEMMA TypeInit == Init => TypeOK
<1> SUFFICES ASSUME Init
             PROVE  TypeOK
  OBVIOUS
<1>1. db \in [Tickets -> Row]
  BY DEF Init, NoRow, Row
<1>2. todo \in [Tasks -> Seq(Message)]
  BY DEF Init
<1> QED
  BY <1>1, <1>2, BoundsAssumption DEF Init, TypeOK

LEMMA TypeStep == TypeOK /\ [Next]_vars => TypeOK'
<1> SUFFICES ASSUME TypeOK, [Next]_vars
             PROVE  TypeOK'
  OBVIOUS
<1>1. ASSUME NEW t \in Tickets, NEW u \in Users, CreateTicketPhase1(t, u)
      PROVE  TypeOK'
  BY <1>1, TypeCreate
<1>2. ASSUME NEW m \in bus, CoreTakes(m)
      PROVE  TypeOK'
  BY <1>2, TypeTopicCreated, TypeHeaderSent, TypeAttachCard, TypeIncomingCard,
     TypeUpdateCard, TypeCallbackRead, TypeSpent DEF CoreTakes
<1>3. ASSUME NEW m \in bus, Carries(m)
      PROVE  TypeOK'
  BY <1>3, TypeCreateTopic, TypeSendMessage, TypeEditMessage, TypeEditTopic,
     TypeCloseTopic DEF Carries
<1>4. ASSUME NEW m \in bus, TelegramRefuses(m)
      PROVE  TypeOK'
  BY <1>4, TypeRefuse
<1>5. ASSUME NEW r \in reading, Decide(r)
      PROVE  TypeOK'
  BY <1>5, TypeRefused, TypeAssign, TypeAskClose, TypeClose DEF Decide
<1>6. ASSUME NEW h \in Tasks, Publish(h)
      PROVE  TypeOK'
  BY <1>6, TypePublish
<1>7. ASSUME NEW p \in posts, NEW b \in Buttons, NEW user \in People,
             NEW target \in Executors \cup {Nobody}, PressButton(p, b, user, target)
      PROVE  TypeOK'
  BY <1>7, TypePress
<1>8. CASE UNCHANGED vars
  BY <1>8 DEF vars, TypeOK
<1> QED
  BY <1>1, <1>2, <1>3, <1>4, <1>5, <1>6, <1>7, <1>8, TypeCrash DEF Next

\* Every reachable state of core, of the streams and of Telegram is well typed;
\* in particular no edit or closing command is ever about a message or a topic
\* that has not been attached (the guards of assign_ticket.py, close_ticket.py
\* and incoming_card.py).
THEOREM TypeCorrect == Spec => []TypeOK
<1>1. Init => TypeOK
  BY TypeInit
<1>2. TypeOK /\ [Next]_vars => TypeOK'
  BY TypeStep
<1> QED
  BY <1>1, <1>2, PTL DEF Spec

-----------------------------------------------------------------------------
(* THE ROWS                                                                *)

-----------------------------------------------------------------------------
(* The five ways.                                                          *)

Opens(t, u) ==
  /\ db[t].status = "none"
  /\ db' = [db EXCEPT ![t] =
              [NoRow EXCEPT !.status = "new", !.author = u, !.corr = Fresh(t, "corr")]]
  /\ Record(t, "created")
  /\ reading' = reading

\* An id is attached; nobody's part in the ticket changes.
Attaches(t, r) ==
  /\ db[t].status # "none"
  /\ db' = [db EXCEPT ![t] = r]
  /\ log' = log
  /\ reading' = reading
  /\ /\ r.status = db[t].status     /\ r.author = db[t].author
     /\ r.assignee = db[t].assignee /\ r.closer = db[t].closer
  /\ db[t].topic # 0 => r.topic # 0
  /\ db[t].header # 0 => r.header # 0
  /\ r.header # 0 => r.topic # 0

Takes(t, e) ==
  /\ db[t].status = "new" /\ db[t].assignee = Nobody
  /\ db[t].topic # 0 /\ db[t].header # 0
  /\ db' = [db EXCEPT ![t] = [db[t] EXCEPT !.assignee = e, !.status = "in_progress"]]
  /\ Record(t, "assigned")
  /\ reading' = {}

Closes(t) ==
  /\ db[t].status \in {"new", "in_progress"}
  /\ db[t].topic # 0 /\ db[t].header # 0
  /\ db' = [db EXCEPT ![t] = [db[t] EXCEPT !.status = "closed", !.closer = db[t].author]]
  /\ Record(t, "closed")
  /\ reading' = {}

Rests ==
  /\ db' = db
  /\ log' = log
  /\ \/ reading' \subseteq reading
     \/ /\ reading = {}
        /\ \E m \in bus : reading' = {[msg |-> m, row |-> db[m.ticket]]}

RowStep ==
  \/ \E t \in Tickets, u \in Users : Opens(t, u)
  \/ \E t \in Tickets, r \in Row : Attaches(t, r)
  \/ \E t \in Tickets, e \in Active : Takes(t, e)
  \/ \E t \in Tickets : Closes(t)
  \/ Rests

Kept == \A t \in Tickets :
  /\ db[t].status # "none" => db'[t].status # "none"
  /\ db[t].topic # 0 => db'[t].topic # 0
  /\ db[t].header # 0 => db'[t].header # 0

\* What a reading transaction knows, when the invariant holds.
LEMMA SnapshotFacts ==
  ASSUME RowInv, NEW r \in reading
  PROVE  LET row == db[r.msg.ticket] IN
         /\ r.msg.ticket \in Tickets /\ row \in Row /\ r.row \in Row
         /\ row.status = r.row.status /\ row.author = r.row.author
         /\ row.assignee = r.row.assignee
         /\ r.row.topic # 0 => row.topic # 0
         /\ r.row.header # 0 => row.header # 0
         /\ reading \ {r} = {}
         /\ r.msg.data = "assign" => row.header # 0 /\ row.topic # 0
<1>1. r.msg.ticket \in Tickets /\ db[r.msg.ticket] \in Row /\ r.row \in Row
  BY ReadingType DEF RowInv
<1>2. reading \ {r} = {}
  BY DEF RowInv, SnapshotHolds, AtMostOne
<1>3. r.msg.type = "callback"
  BY DEF RowInv, TypeOK, Press
<1>4. r.msg.data = "assign" => db[r.msg.ticket].header # 0
  BY <1>3 DEF RowInv, AllGrounded, Grounded, AboutCard
<1> QED
  BY <1>1, <1>2, <1>4 DEF RowInv, SnapshotHolds, InOrder

LEMMA StepCreate ==
  ASSUME RowInv, NEW t \in Tickets, NEW u \in Users, CreateTicketPhase1(t, u)
  PROVE  RowStep
<1>1. Opens(t, u)
  BY DEF CreateTicketPhase1, Opens
<1> QED
  BY <1>1 DEF RowStep

LEMMA StepTopicCreated ==
  ASSUME RowInv, NEW m \in bus, HandleTopicCreated(m)
  PROVE  RowStep
<1> DEFINE t == m.ticket
           r == [db[t] EXCEPT !.topic = m.id]
<1>1. t \in Tickets /\ db[t] \in Row /\ m.id \in Nat /\ m.type = "topic_created"
  BY TakenType DEF RowInv, HandleTopicCreated, Tasks
<1>2. r \in Row
  BY <1>1, AttachType
<1>3. db[t].status # "none" /\ m.id # 0
  BY <1>1 DEF RowInv, AllGrounded, Grounded, Acks
<1>4. r.topic = m.id /\ r.header = db[t].header /\ r.status = db[t].status
      /\ r.author = db[t].author /\ r.assignee = db[t].assignee
      /\ r.closer = db[t].closer
  BY <1>1 DEF Row
<1>5. Attaches(t, r)
  BY <1>3, <1>4 DEF HandleTopicCreated, Attaches
<1> QED
  BY <1>1, <1>2, <1>5 DEF RowStep

LEMMA StepHeaderSent ==
  ASSUME RowInv, NEW m \in bus, HandleHeaderMessageSent(m)
  PROVE  RowStep
<1> DEFINE t == m.ticket
           r == [db[t] EXCEPT !.header = m.id]
<1>1. t \in Tickets /\ db[t] \in Row /\ m.id \in Nat /\ m.type = "message_sent"
  BY TakenType DEF RowInv, HandleHeaderMessageSent, Tasks
<1>2. CASE db[t].topic = 0
  BY <1>2 DEF HandleHeaderMessageSent, RowStep, Rests
<1>3. CASE db[t].topic # 0
  <2>1. r \in Row
    BY <1>1, AttachType
  <2>2. db[t].status # "none" /\ m.id # 0
    BY <1>1 DEF RowInv, AllGrounded, Grounded, Acks
  <2>3. r.header = m.id /\ r.topic = db[t].topic /\ r.status = db[t].status
        /\ r.author = db[t].author /\ r.assignee = db[t].assignee
        /\ r.closer = db[t].closer
    BY <1>1 DEF Row
  <2>4. Attaches(t, r)
    BY <1>3, <2>2, <2>3 DEF HandleHeaderMessageSent, WithHeader, Attaches
  <2> QED
    BY <1>1, <2>1, <2>4 DEF RowStep
<1> QED
  BY <1>2, <1>3

LEMMA StepIncomingCard ==
  ASSUME RowInv, NEW m \in bus, PublishIncomingCard(m)
  PROVE  RowStep
<1> DEFINE t == m.ticket
           r == [db[t] EXCEPT !.inbox_corr = Fresh(t, "corr")]
<1>1. t \in Tickets /\ db[t] \in Row
  BY TakenType DEF RowInv, PublishIncomingCard, Tasks
<1>2. CASE ~(TeamGroupConfigured /\ db[t].topic # 0)
  BY <1>2 DEF PublishIncomingCard, RowStep, Rests
<1>3. CASE TeamGroupConfigured /\ db[t].topic # 0
  <2>1. Fresh(t, "corr") \in Nat
    BY <1>1, FreshType DEF RowInv, Sources, Ids
  <2>2. r \in Row
    BY <1>1, <2>1, AttachType
  <2>3. db[t].status # "none"
    BY DEF RowInv, AllGrounded, Grounded
  <2>4. r.header = db[t].header /\ r.topic = db[t].topic /\ r.status = db[t].status
        /\ r.author = db[t].author /\ r.assignee = db[t].assignee
        /\ r.closer = db[t].closer
    BY <1>1 DEF Row
  <2>5. Attaches(t, r)
    BY <1>3, <2>3, <2>4 DEF PublishIncomingCard, Attaches
  <2> QED
    BY <1>1, <2>2, <2>5 DEF RowStep
<1> QED
  BY <1>2, <1>3

LEMMA StepAttachCard ==
  ASSUME RowInv, NEW m \in bus, AttachIncomingMessageId(m)
  PROVE  RowStep
<1> DEFINE t == m.ticket
           r == [db[t] EXCEPT !.inbox_msg = m.id]
<1>1. t \in Tickets /\ db[t] \in Row /\ m.id \in Nat
  BY TakenType DEF RowInv, AttachIncomingMessageId, Tasks
<1>2. CASE m.corr # db[t].inbox_corr
  BY <1>2 DEF AttachIncomingMessageId, RowStep, Rests
<1>3. CASE m.corr = db[t].inbox_corr
  <2>1. r \in Row
    BY <1>1, AttachType
  <2>2. db[t].status # "none" /\ (db[t].header # 0 => db[t].topic # 0)
    BY <1>1 DEF RowInv, AllGrounded, Grounded, InOrder
  <2>3. r.header = db[t].header /\ r.topic = db[t].topic /\ r.status = db[t].status
        /\ r.author = db[t].author /\ r.assignee = db[t].assignee
        /\ r.closer = db[t].closer
    BY <1>1 DEF Row
  <2>4. Attaches(t, r)
    BY <1>3, <2>2, <2>3 DEF AttachIncomingMessageId, Attaches
  <2> QED
    BY <1>1, <2>1, <2>4 DEF RowStep
<1> QED
  BY <1>2, <1>3

LEMMA StepAssign ==
  ASSUME RowInv, NEW r \in reading, AssignTicket(r)
  PROVE  RowStep
<1> DEFINE t == r.msg.ticket
           e == r.msg.target
<1>1. /\ t \in Tickets /\ db[t] \in Row
      /\ db[t].status = r.row.status /\ db[t].assignee = r.row.assignee
      /\ reading \ {r} = {}
      /\ r.msg.data = "assign" => db[t].header # 0 /\ db[t].topic # 0
  BY SnapshotFacts
<1>2. /\ e \in Active /\ db[t].status = "new" /\ db[t].assignee = Nobody
      /\ db[t].header # 0 /\ db[t].topic # 0
  BY <1>1 DEF AssignTicket, CanAssign
<1>3. db' = [db EXCEPT ![t] = [db[t] EXCEPT !.assignee = e, !.status = "in_progress"]]
  <2>1. db \in [Tickets -> Row]
    BY DEF RowInv, TypeOK
  <2>2. db' = [db EXCEPT ![t].assignee = e, ![t].status = "in_progress"]
    BY DEF AssignTicket
  <2> QED
    BY <1>1, <2>1, <2>2
<1>4. reading' = {}
  BY <1>1 DEF AssignTicket, CallbackCommit
<1>5. Record(t, "assigned")
  BY DEF AssignTicket
<1>6. Takes(t, e)
  BY <1>2, <1>3, <1>4, <1>5 DEF Takes
<1> QED
  BY <1>1, <1>2, <1>6 DEF RowStep

LEMMA StepClose ==
  ASSUME RowInv, NEW r \in reading, CommitClose(r)
  PROVE  RowStep
<1> DEFINE t == r.msg.ticket
<1>1. /\ t \in Tickets /\ db[t] \in Row
      /\ db[t].status = r.row.status /\ db[t].author = r.row.author
      /\ r.row.topic # 0 => db[t].topic # 0
      /\ r.row.header # 0 => db[t].header # 0
      /\ reading \ {r} = {}
  BY SnapshotFacts
<1>2. /\ db[t].status \in {"new", "in_progress"}
      /\ r.msg.user = db[t].author
      /\ db[t].header # 0 /\ db[t].topic # 0
  BY <1>1 DEF CommitClose, CanClose, Row
<1>3. db' = [db EXCEPT ![t] = [db[t] EXCEPT !.status = "closed", !.closer = db[t].author]]
  <2>1. db \in [Tickets -> Row]
    BY DEF RowInv, TypeOK
  <2>2. db' = [db EXCEPT ![t].status = "closed", ![t].closer = db[t].author]
    BY <1>2 DEF CommitClose
  <2> QED
    BY <1>1, <2>1, <2>2
<1>4. reading' = {}
  BY <1>1 DEF CommitClose, CallbackCommit
<1>5. Record(t, "closed")
  BY DEF CommitClose
<1>6. Closes(t)
  BY <1>2, <1>3, <1>4, <1>5 DEF Closes
<1> QED
  BY <1>1, <1>6 DEF RowStep

LEMMA StepRests ==
  ASSUME RowInv
  PROVE  /\ \A m \in bus : UpdateIncomingAfterAssign(m) \/ CallbackRead(m) => Rests
         /\ \A m \in bus, h \in Tasks : AlreadyProcessed(h, m) => Rests
         /\ \A m \in bus : Carries(m) \/ TelegramRefuses(m) => Rests
         /\ \A r \in reading : Refused(r) \/ ConfirmOrCancel(r) => Rests
         /\ \A h \in Tasks : Publish(h) => Rests
         /\ \A p \in posts, b \in Buttons, user \in People,
               target \in Executors \cup {Nobody} :
              PressButton(p, b, user, target) => Rests
         /\ Crash => Rests
         /\ UNCHANGED vars => Rests
<1>1. ASSUME NEW m \in bus, UpdateIncomingAfterAssign(m) \/ CallbackRead(m)
      PROVE  Rests
  <2>1. CASE UpdateIncomingAfterAssign(m)
    BY <2>1 DEF UpdateIncomingAfterAssign, Rests
  <2>2. CASE CallbackRead(m)
    BY <2>2 DEF CallbackRead, Receive, Free, Rests
  <2> QED
    BY <1>1, <2>1, <2>2
<1>2. \A m \in bus, h \in Tasks : AlreadyProcessed(h, m) => Rests
  BY DEF AlreadyProcessed, Rests
<1>3. ASSUME NEW m \in bus, Carries(m) \/ TelegramRefuses(m)
      PROVE  Rests
  BY <1>3 DEF Carries, CreateForumTopic, SendMessage, EditMessageText, EditForumTopic,
     CloseForumTopic, TelegramRefuses, core, Rests
<1>4. \A r \in reading : Refused(r) \/ ConfirmOrCancel(r) => Rests
  BY DEF Refused, ConfirmOrCancel, CallbackCommit, Rests
<1>5. \A h \in Tasks : Publish(h) => Rests
  BY DEF Publish, Rests
<1>6. \A p \in posts, b \in Buttons, user \in People, target \in Executors \cup {Nobody} :
        PressButton(p, b, user, target) => Rests
  BY DEF PressButton, core, Rests
<1>7. Crash => Rests
  BY DEF Crash, Rests
<1>8. UNCHANGED vars => Rests
  BY DEF vars, Rests
<1> QED
  BY <1>1, <1>2, <1>3, <1>4, <1>5, <1>6, <1>7, <1>8

LEMMA EveryStep == RowInv /\ [Next]_vars => RowStep
<1> SUFFICES ASSUME RowInv, [Next]_vars
             PROVE  RowStep
  OBVIOUS
<1>1. ASSUME NEW m \in bus, CoreTakes(m)
      PROVE  RowStep
  BY <1>1, StepTopicCreated, StepHeaderSent, StepAttachCard, StepIncomingCard, StepRests
     DEF CoreTakes, RowStep
<1>2. ASSUME NEW r \in reading, Decide(r)
      PROVE  RowStep
  BY <1>2, StepAssign, StepClose, StepRests DEF Decide, RowStep
<1>3. ASSUME NEW t \in Tickets, NEW u \in Users, CreateTicketPhase1(t, u)
      PROVE  RowStep
  BY <1>3, StepCreate
<1>4. (\E m \in bus : Carries(m) \/ TelegramRefuses(m)) => RowStep
  BY StepRests DEF RowStep
<1>5. (\E h \in Tasks : Publish(h)) \/ Crash \/ UNCHANGED vars => RowStep
  BY StepRests DEF RowStep
<1>6. (\E p \in posts, b \in Buttons, user \in People, target \in Executors \cup {Nobody} :
         PressButton(p, b, user, target)) => RowStep
  BY StepRests DEF RowStep
<1> QED
  BY <1>1, <1>2, <1>3, <1>4, <1>5, <1>6 DEF Next

-----------------------------------------------------------------------------
(* What follows from the five ways.                                        *)

\* The rows and the audit records after each of them.
LEMMA OpensRow ==
  ASSUME RowInv, NEW t \in Tickets, NEW u \in Users, Opens(t, u)
  PROVE  /\ db[t] = NoRow /\ db[t].topic = 0 /\ db[t].header = 0
         /\ db[t].assignee = Nobody /\ db[t].author = Nobody /\ db[t].closer = Nobody
         /\ db'[t].status = "new" /\ db'[t].author = u
         /\ db'[t].assignee = Nobody /\ db'[t].closer = Nobody
         /\ db'[t].topic = 0 /\ db'[t].header = 0
         /\ \A x \in Tickets \ {t} : db'[x] = db[x] /\ log'[x] = log[x]
         /\ log'[t]["created"] = log[t]["created"] + 1
         /\ log'[t]["assigned"] = log[t]["assigned"]
         /\ log'[t]["closed"] = log[t]["closed"]
<1>1. db \in [Tickets -> Row]
  BY DEF RowInv, TypeOK
<1>2. log \in [Tickets -> [{"created", "assigned", "closed"} -> Nat]]
  BY DEF RowInv, TypeOK
<1>3. db[t] = NoRow
  BY DEF Opens, RowInv, InOrder
<1>4. /\ db[t].topic = 0 /\ db[t].header = 0
      /\ db[t].assignee = Nobody /\ db[t].author = Nobody /\ db[t].closer = Nobody
  BY <1>3 DEF NoRow
<1>5. /\ db'[t].status = "new" /\ db'[t].author = u
      /\ db'[t].assignee = Nobody /\ db'[t].closer = Nobody
      /\ db'[t].topic = 0 /\ db'[t].header = 0
      /\ \A x \in Tickets \ {t} : db'[x] = db[x]
  BY <1>1 DEF Opens, NoRow
<1>6. /\ \A x \in Tickets \ {t} : log'[x] = log[x]
      /\ log'[t]["created"] = log[t]["created"] + 1
      /\ log'[t]["assigned"] = log[t]["assigned"]
      /\ log'[t]["closed"] = log[t]["closed"]
  BY <1>2 DEF Opens, Record
<1> QED
  BY <1>3, <1>4, <1>5, <1>6

LEMMA TakesRow ==
  ASSUME RowInv, NEW t \in Tickets, NEW e \in Active, Takes(t, e)
  PROVE  /\ db'[t].status = "in_progress" /\ db'[t].assignee = e
         /\ db'[t].author = db[t].author /\ db'[t].closer = db[t].closer
         /\ db'[t].topic = db[t].topic /\ db'[t].header = db[t].header
         /\ \A x \in Tickets \ {t} : db'[x] = db[x] /\ log'[x] = log[x]
         /\ log'[t]["assigned"] = log[t]["assigned"] + 1
         /\ log'[t]["created"] = log[t]["created"]
         /\ log'[t]["closed"] = log[t]["closed"]
<1>1. db \in [Tickets -> Row]
  BY DEF RowInv, TypeOK
<1>2. log \in [Tickets -> [{"created", "assigned", "closed"} -> Nat]]
  BY DEF RowInv, TypeOK
<1>3. /\ db'[t] = [db[t] EXCEPT !.assignee = e, !.status = "in_progress"]
      /\ \A x \in Tickets \ {t} : db'[x] = db[x]
  BY <1>1 DEF Takes
<1>4. /\ db'[t].status = "in_progress" /\ db'[t].assignee = e
      /\ db'[t].author = db[t].author /\ db'[t].closer = db[t].closer
      /\ db'[t].topic = db[t].topic /\ db'[t].header = db[t].header
  BY <1>1, <1>3 DEF Row
<1>5. /\ \A x \in Tickets \ {t} : log'[x] = log[x]
      /\ log'[t]["assigned"] = log[t]["assigned"] + 1
      /\ log'[t]["created"] = log[t]["created"]
      /\ log'[t]["closed"] = log[t]["closed"]
  BY <1>2 DEF Takes, Record
<1> QED
  BY <1>3, <1>4, <1>5

LEMMA ClosesRow ==
  ASSUME RowInv, NEW t \in Tickets, Closes(t)
  PROVE  /\ db'[t].status = "closed" /\ db'[t].closer = db[t].author
         /\ db'[t].author = db[t].author /\ db'[t].assignee = db[t].assignee
         /\ db'[t].topic = db[t].topic /\ db'[t].header = db[t].header
         /\ \A x \in Tickets \ {t} : db'[x] = db[x] /\ log'[x] = log[x]
         /\ log'[t]["closed"] = log[t]["closed"] + 1
         /\ log'[t]["created"] = log[t]["created"]
         /\ log'[t]["assigned"] = log[t]["assigned"]
<1>1. db \in [Tickets -> Row]
  BY DEF RowInv, TypeOK
<1>2. log \in [Tickets -> [{"created", "assigned", "closed"} -> Nat]]
  BY DEF RowInv, TypeOK
<1>3. /\ db'[t] = [db[t] EXCEPT !.status = "closed", !.closer = db[t].author]
      /\ \A x \in Tickets \ {t} : db'[x] = db[x]
  BY <1>1 DEF Closes
<1>4. /\ db'[t].status = "closed" /\ db'[t].closer = db[t].author
      /\ db'[t].author = db[t].author /\ db'[t].assignee = db[t].assignee
      /\ db'[t].topic = db[t].topic /\ db'[t].header = db[t].header
  BY <1>1, <1>3 DEF Row
<1>5. /\ \A x \in Tickets \ {t} : log'[x] = log[x]
      /\ log'[t]["closed"] = log[t]["closed"] + 1
      /\ log'[t]["created"] = log[t]["created"]
      /\ log'[t]["assigned"] = log[t]["assigned"]
  BY <1>2 DEF Closes, Record
<1> QED
  BY <1>3, <1>4, <1>5

LEMMA AttachesRow ==
  ASSUME RowInv, NEW t \in Tickets, NEW r \in Row, Attaches(t, r)
  PROVE  /\ db'[t] = r
         /\ \A x \in Tickets \ {t} : db'[x] = db[x]
BY DEF RowInv, TypeOK, Attaches

LEMMA KeptStep == RowInv /\ RowStep => Kept
<1> SUFFICES ASSUME RowInv, RowStep
             PROVE  Kept
  OBVIOUS
<1>1. ASSUME NEW t \in Tickets, NEW u \in Users, Opens(t, u)
      PROVE  Kept
  BY <1>1, OpensRow DEF Opens, Kept
<1>2. ASSUME NEW t \in Tickets, NEW r \in Row, Attaches(t, r)
      PROVE  Kept
  BY <1>2, AttachesRow DEF Attaches, Kept
<1>3. ASSUME NEW t \in Tickets, NEW e \in Active, Takes(t, e)
      PROVE  Kept
  BY <1>3, TakesRow DEF Kept
<1>4. ASSUME NEW t \in Tickets, Closes(t)
      PROVE  Kept
  BY <1>4, ClosesRow DEF Kept
<1>5. CASE Rests
  BY <1>5 DEF Rests, Kept
<1> QED
  BY <1>1, <1>2, <1>3, <1>4, <1>5 DEF RowStep

LEMMA OrderStep == RowInv /\ RowStep => InOrder' /\ WorkedOnIsAttached'
<1> SUFFICES ASSUME RowInv, RowStep, NEW x \in Tickets
             PROVE  /\ db'[x].status = "none" => db'[x] = NoRow
                    /\ db'[x].header # 0 => db'[x].topic # 0
                    /\ db'[x].status \in {"in_progress", "closed"}
                         => db'[x].topic # 0 /\ db'[x].header # 0
  BY DEF InOrder, WorkedOnIsAttached
<1> DEFINE Goal == /\ db'[x].status = "none" => db'[x] = NoRow
                   /\ db'[x].header # 0 => db'[x].topic # 0
                   /\ db'[x].status \in {"in_progress", "closed"}
                        => db'[x].topic # 0 /\ db'[x].header # 0
<1>0. /\ db[x].status = "none" => db[x] = NoRow
      /\ db[x].header # 0 => db[x].topic # 0
      /\ db[x].status \in {"in_progress", "closed"}
           => db[x].topic # 0 /\ db[x].header # 0
  BY DEF RowInv, InOrder, WorkedOnIsAttached
<1>1. ASSUME NEW t \in Tickets, NEW u \in Users, Opens(t, u)
      PROVE  Goal
  <2>1. CASE x = t
    BY <1>1, <2>1, OpensRow
  <2>2. CASE x # t
    <3>1. db'[x] = db[x]
      BY <1>1, <2>2, OpensRow
    <3> QED
      BY <1>0, <3>1
  <2> QED
    BY <2>1, <2>2
<1>2. ASSUME NEW t \in Tickets, NEW r \in Row, Attaches(t, r)
      PROVE  Goal
  <2>1. CASE x = t
    BY <1>0, <1>2, <2>1, AttachesRow DEF Attaches
  <2>2. CASE x # t
    BY <1>0, <1>2, <2>2, AttachesRow
  <2> QED
    BY <2>1, <2>2
<1>3. ASSUME NEW t \in Tickets, NEW e \in Active, Takes(t, e)
      PROVE  Goal
  <2>1. CASE x = t
    <3>1. db[t].topic # 0 /\ db[t].header # 0
      BY <1>3 DEF Takes
    <3> QED
      BY <1>3, <2>1, <3>1, TakesRow
  <2>2. CASE x # t
    <3>1. db'[x] = db[x]
      BY <1>3, <2>2, TakesRow
    <3> QED
      BY <1>0, <3>1
  <2> QED
    BY <2>1, <2>2
<1>4. ASSUME NEW t \in Tickets, Closes(t)
      PROVE  Goal
  <2>1. CASE x = t
    <3>1. db[t].topic # 0 /\ db[t].header # 0
      BY <1>4 DEF Closes
    <3> QED
      BY <1>4, <2>1, <3>1, ClosesRow
  <2>2. CASE x # t
    <3>1. db'[x] = db[x]
      BY <1>4, <2>2, ClosesRow
    <3> QED
      BY <1>0, <3>1
  <2> QED
    BY <2>1, <2>2
<1>5. CASE Rests
  BY <1>0, <1>5 DEF Rests
<1> QED
  BY <1>1, <1>2, <1>3, <1>4, <1>5 DEF RowStep

LEMMA AuditStep == RowInv /\ RowStep => AuditTrail'
<1> SUFFICES ASSUME RowInv, RowStep, NEW x \in Tickets
             PROVE  /\ log'[x]["created"] = IF db'[x].status = "none" THEN 0 ELSE 1
                    /\ log'[x]["assigned"] = IF db'[x].assignee = Nobody THEN 0 ELSE 1
                    /\ log'[x]["closed"] = IF db'[x].status = "closed" THEN 1 ELSE 0
  BY DEF AuditTrail
<1> DEFINE Goal == /\ log'[x]["created"] = IF db'[x].status = "none" THEN 0 ELSE 1
                   /\ log'[x]["assigned"] = IF db'[x].assignee = Nobody THEN 0 ELSE 1
                   /\ log'[x]["closed"] = IF db'[x].status = "closed" THEN 1 ELSE 0
<1>0. /\ log[x]["created"] = IF db[x].status = "none" THEN 0 ELSE 1
      /\ log[x]["assigned"] = IF db[x].assignee = Nobody THEN 0 ELSE 1
      /\ log[x]["closed"] = IF db[x].status = "closed" THEN 1 ELSE 0
  BY DEF RowInv, AuditTrail
<1>1. ASSUME NEW t \in Tickets, NEW u \in Users, Opens(t, u)
      PROVE  Goal
  <2>1. CASE x = t
    <3>1. db[t].status = "none"
      BY <1>1 DEF Opens
    <3> QED
      BY <1>0, <1>1, <2>1, <3>1, OpensRow
  <2>2. CASE x # t
    <3>1. db'[x] = db[x] /\ log'[x] = log[x]
      BY <1>1, <2>2, OpensRow
    <3> QED
      BY <1>0, <3>1
  <2> QED
    BY <2>1, <2>2
<1>2. ASSUME NEW t \in Tickets, NEW r \in Row, Attaches(t, r)
      PROVE  Goal
  <2>1. CASE x = t
    BY <1>0, <1>2, <2>1, AttachesRow DEF Attaches
  <2>2. CASE x # t
    BY <1>0, <1>2, <2>2, AttachesRow DEF Attaches
  <2> QED
    BY <2>1, <2>2
<1>3. ASSUME NEW t \in Tickets, NEW e \in Active, Takes(t, e)
      PROVE  Goal
  <2>1. CASE x = t
    <3>1. db[t].status = "new" /\ db[t].assignee = Nobody /\ e # Nobody
      BY <1>3, PeopleAssumption DEF Takes
    <3> QED
      BY <1>0, <1>3, <2>1, <3>1, TakesRow
  <2>2. CASE x # t
    <3>1. db'[x] = db[x] /\ log'[x] = log[x]
      BY <1>3, <2>2, TakesRow
    <3> QED
      BY <1>0, <3>1
  <2> QED
    BY <2>1, <2>2
<1>4. ASSUME NEW t \in Tickets, Closes(t)
      PROVE  Goal
  <2>1. CASE x = t
    <3>1. db[t].status \in {"new", "in_progress"}
      BY <1>4 DEF Closes
    <3> QED
      BY <1>0, <1>4, <2>1, <3>1, ClosesRow
  <2>2. CASE x # t
    <3>1. db'[x] = db[x] /\ log'[x] = log[x]
      BY <1>4, <2>2, ClosesRow
    <3> QED
      BY <1>0, <3>1
  <2> QED
    BY <2>1, <2>2
<1>5. CASE Rests
  BY <1>0, <1>5 DEF Rests
<1> QED
  BY <1>1, <1>2, <1>3, <1>4, <1>5 DEF RowStep

LEMMA SnapshotStep == RowInv /\ RowStep => SnapshotHolds'
<1> SUFFICES ASSUME RowInv, RowStep
             PROVE  SnapshotHolds'
  OBVIOUS
<1>0. /\ SnapshotHolds
      /\ \A r \in reading : r.msg.ticket \in Tickets /\ db[r.msg.ticket].status # "none"
  BY ReadingType DEF RowInv, AllGrounded, Grounded
<1>1. ASSUME NEW t \in Tickets, NEW u \in Users, Opens(t, u)
      PROVE  SnapshotHolds'
  <2>1. reading' = reading /\ db[t].status = "none"
    BY <1>1 DEF Opens
  <2>2. \A r \in reading : db'[r.msg.ticket] = db[r.msg.ticket]
    BY <1>0, <1>1, <2>1, OpensRow
  <2> QED
    BY <1>0, <2>1, <2>2 DEF SnapshotHolds
<1>2. ASSUME NEW t \in Tickets, NEW a \in Row, Attaches(t, a)
      PROVE  SnapshotHolds'
  <2>1. /\ reading' = reading
        /\ a.status = db[t].status /\ a.author = db[t].author /\ a.assignee = db[t].assignee
        /\ db[t].topic # 0 => a.topic # 0
        /\ db[t].header # 0 => a.header # 0
    BY <1>2 DEF Attaches
  <2>2. /\ db'[t] = a
        /\ \A x \in Tickets \ {t} : db'[x] = db[x]
    BY <1>2, AttachesRow
  <2> QED
    BY <1>0, <2>1, <2>2 DEF SnapshotHolds
<1>3. ASSUME reading' = {}
      PROVE  SnapshotHolds'
  BY <1>3 DEF SnapshotHolds, AtMostOne
<1>4. CASE Rests
  <2>1. CASE reading' \subseteq reading
    BY <1>0, <1>4, <2>1 DEF Rests, SnapshotHolds, AtMostOne
  <2>2. ASSUME NEW m \in bus, reading' = {[msg |-> m, row |-> db[m.ticket]]}
        PROVE  SnapshotHolds'
    BY <1>4, <2>2 DEF Rests, SnapshotHolds, AtMostOne
  <2> QED
    BY <1>4, <2>1, <2>2 DEF Rests
<1>5. (\E t \in Tickets, e \in Active : Takes(t, e)) \/ (\E t \in Tickets : Closes(t))
        => reading' = {}
  BY DEF Takes, Closes
<1> QED
  BY <1>1, <1>2, <1>3, <1>4, <1>5 DEF RowStep

-----------------------------------------------------------------------------
(* Messages in flight stay grounded.                                       *)

\* Grounded, and its counterpart for posts, about the rows after the step.
NowGrounded(m) ==
  /\ db'[m.ticket].status # "none"
  /\ m.type \in Acks => m.id # 0
  /\ m.type = "edit_message_text" => m.view # "offer"
  /\ AboutCard(m) => db'[m.ticket].header # 0

NowPosted(p) ==
  /\ db'[p.ticket].status # "none"
  /\ p.view = "offer" => db'[p.ticket].header # 0

LEMMA OldGrounded ==
  ASSUME RowInv, Kept
  PROVE  /\ \A m \in bus : NowGrounded(m)
         /\ \A h \in Tasks : \A i \in DOMAIN todo[h] : NowGrounded(todo[h][i])
         /\ \A r \in reading : NowGrounded(r.msg)
         /\ \A p \in posts : NowPosted(p)
<1>1. ASSUME NEW m, m.ticket \in Tickets, Grounded(m)
      PROVE  NowGrounded(m)
  BY <1>1 DEF Kept, Grounded, NowGrounded
<1>2. \A m \in bus : NowGrounded(m)
  BY <1>1, EntryType DEF RowInv, AllGrounded
<1>3. ASSUME NEW h \in Tasks, NEW i \in DOMAIN todo[h]
      PROVE  NowGrounded(todo[h][i])
  <2>1. todo[h] \in Seq(Message)
    BY DEF RowInv, TypeOK
  <2>2. todo[h][i] \in Message
    BY <2>1
  <2>3. todo[h][i].ticket \in Tickets
    BY <2>2 DEF Message
  <2> QED
    BY <1>1, <2>3 DEF RowInv, AllGrounded
<1>4. \A r \in reading : NowGrounded(r.msg)
  BY <1>1, ReadingType DEF RowInv, AllGrounded
<1>5. \A p \in posts : NowPosted(p)
  <2>1. \A p \in posts : p.ticket \in Tickets
    BY DEF RowInv, TypeOK
  <2> QED
    BY <2>1 DEF RowInv, AllGrounded, Kept, NowPosted
<1> QED
  BY <1>2, <1>3, <1>4, <1>5

\* It is enough to look at what a step adds.
LEMMA NewGrounded ==
  ASSUME RowInv, Kept,
         \A m \in bus' \ bus : NowGrounded(m),
         \A h \in Tasks : \/ todo'[h] = todo[h]
                          \/ \A i \in DOMAIN todo'[h] : NowGrounded(todo'[h][i]),
         \A r \in reading' \ reading : NowGrounded(r.msg),
         \A p \in posts' \ posts : NowPosted(p)
  PROVE  AllGrounded'
<1>1. \A m \in bus' : NowGrounded(m)
  BY OldGrounded
<1>2. ASSUME NEW h \in Tasks, NEW i \in DOMAIN todo'[h]
      PROVE  NowGrounded(todo'[h][i])
  BY OldGrounded
<1>3. \A r \in reading' : NowGrounded(r.msg)
  BY OldGrounded
<1>4. \A p \in posts' : NowPosted(p)
  BY OldGrounded
<1> QED
  BY <1>1, <1>2, <1>3, <1>4 DEF AllGrounded, Grounded, NowGrounded, NowPosted

\* A task of core takes its entry and owes messages that are grounded.
LEMMA OwedGrounded ==
  ASSUME RowInv, Kept, NEW h \in Tasks, NEW msgs, \A i \in DOMAIN msgs : NowGrounded(msgs[i]),
         Owe(h, msgs), bus' \subseteq bus, reading' \subseteq reading, posts' = posts
  PROVE  AllGrounded'
<1>1. todo \in [Tasks -> Seq(Message)]
  BY DEF RowInv, TypeOK
<1>2. todo'[h] = msgs /\ \A x \in Tasks \ {h} : todo'[x] = todo[x]
  BY <1>1 DEF Owe
<1>3. \A x \in Tasks : \/ todo'[x] = todo[x]
                       \/ \A i \in DOMAIN todo'[x] : NowGrounded(todo'[x][i])
  BY <1>2
<1> QED
  BY <1>3, NewGrounded

LEMMA OwedOneGrounded ==
  ASSUME RowInv, Kept, NEW h \in Tasks, NEW m, NowGrounded(m), Owe(h, <<m>>),
         bus' \subseteq bus, reading' \subseteq reading, posts' = posts
  PROVE  AllGrounded'
<1>1. \A i \in DOMAIN <<m>> : NowGrounded(<<m>>[i])
  OBVIOUS
<1> QED
  BY <1>1, OwedGrounded

LEMMA TakenGrounded ==
  ASSUME RowInv, Kept, todo' = todo, bus' \subseteq bus, reading' \subseteq reading,
         posts' = posts
  PROVE  AllGrounded'
BY NewGrounded

LEMMA MsgGrounded ==
  ASSUME NEW t, NEW type, NEW corr, NEW id, NEW view,
         db'[t].status # "none", type # "callback",
         type \in Acks => id # 0,
         type = "edit_message_text" => view # "offer",
         type = "ticket_created" \/ (type = "send_message" /\ view = "offer")
           => db'[t].header # 0
  PROVE  NowGrounded(Msg(type, t, corr, id, view))
BY DEF Msg, NowGrounded, AboutCard

\* Entries taken from the bus are about rows that exist, before and after.
LEMMA EntryGrounded ==
  ASSUME RowInv, Kept, NEW m \in bus
  PROVE  /\ m.ticket \in Tickets /\ db'[m.ticket].status # "none"
         /\ m.type \in Acks => m.id # 0
         /\ m.type = "edit_message_text" => m.view # "offer"
         /\ AboutCard(m) => db'[m.ticket].header # 0
BY EntryType, OldGrounded DEF RowInv, NowGrounded

LEMMA GroundedCreate ==
  ASSUME RowInv, Kept, NEW t \in Tickets, NEW u \in Users, CreateTicketPhase1(t, u)
  PROVE  AllGrounded'
<1> DEFINE m == Msg("create_forum_topic", t, Fresh(t, "corr"), 0, "none")
<1>1. db'[t].status = "new"
  BY DEF CreateTicketPhase1, RowInv, TypeOK, NoRow
<1>2. NowGrounded(m)
  BY <1>1, MsgGrounded DEF Acks
<1>3. "message" \in Tasks /\ Owe("message", <<m>>)
  BY DEF CreateTicketPhase1, Tasks
<1> HIDE DEF m
<1> QED
  BY <1>2, <1>3, OwedOneGrounded DEF CreateTicketPhase1, telegram

LEMMA GroundedTopicCreated ==
  ASSUME RowInv, Kept, NEW m \in bus, HandleTopicCreated(m)
  PROVE  AllGrounded'
<1>1. bus' \subseteq bus /\ reading' = reading /\ posts' = posts
  BY ReceiveType DEF RowInv, HandleTopicCreated, telegram
<1>2. NowGrounded(Header(m))
  BY EntryGrounded, MsgGrounded DEF Header, Acks
<1>3. "topic_created" \in Tasks /\ Owe("topic_created", <<Header(m)>>)
  BY DEF HandleTopicCreated, Tasks
<1> QED
  BY <1>1, <1>2, <1>3, OwedOneGrounded

LEMMA GroundedHeaderSent ==
  ASSUME RowInv, Kept, NEW m \in bus, HandleHeaderMessageSent(m)
  PROVE  AllGrounded'
<1> DEFINE t == m.ticket
           n == Msg("ticket_created", t, 0, 0, "none")
<1>1. bus' \subseteq bus /\ reading' = reading /\ posts' = posts
  BY ReceiveType DEF RowInv, HandleHeaderMessageSent, telegram
<1>2. CASE db[t].topic = 0
  BY <1>1, <1>2, TakenGrounded DEF HandleHeaderMessageSent
<1>3. CASE db[t].topic # 0
  <2>1. t \in Tickets /\ db'[t].status # "none" /\ m.id # 0
    BY EntryGrounded DEF HandleHeaderMessageSent, Receive, Acks
  <2>2. db'[t].header = m.id
    <3>1. db \in [Tickets -> Row]
      BY DEF RowInv, TypeOK
    <3>2. db[t] \in Row
      BY <2>1, <3>1
    <3>3. db'[t] = [db[t] EXCEPT !.header = m.id]
      BY <1>3, <2>1, <3>1 DEF HandleHeaderMessageSent, WithHeader
    <3> QED
      BY <3>2, <3>3 DEF Row
  <2>3. NowGrounded(n)
    BY <2>1, <2>2, MsgGrounded DEF Acks
  <2>4. "message_sent" \in Tasks /\ Owe("message_sent", <<n>>)
    BY <1>3 DEF HandleHeaderMessageSent, Tasks
  <2> HIDE DEF n
  <2> QED
    BY <1>1, <2>3, <2>4, OwedOneGrounded
<1> QED
  BY <1>2, <1>3

LEMMA GroundedIncomingCard ==
  ASSUME RowInv, Kept, NEW m \in bus, PublishIncomingCard(m)
  PROVE  AllGrounded'
<1> DEFINE t == m.ticket
           n == Msg("send_message", t, Fresh(t, "corr"), 0, "offer")
<1>1. bus' \subseteq bus /\ reading' = reading /\ posts' = posts
  BY ReceiveType DEF RowInv, PublishIncomingCard, telegram
<1>2. CASE ~(TeamGroupConfigured /\ db[t].topic # 0)
  BY <1>1, <1>2, TakenGrounded DEF PublishIncomingCard
<1>3. CASE TeamGroupConfigured /\ db[t].topic # 0
  <2>1. db'[t].status # "none" /\ db'[t].header # 0
    BY EntryGrounded DEF PublishIncomingCard, Receive, AboutCard
  <2>2. NowGrounded(n)
    BY <2>1, MsgGrounded DEF Acks
  <2>3. "ticket_created" \in Tasks /\ Owe("ticket_created", <<n>>)
    BY <1>3 DEF PublishIncomingCard, Tasks
  <2> HIDE DEF n
  <2> QED
    BY <1>1, <2>2, <2>3, OwedOneGrounded
<1> QED
  BY <1>2, <1>3

LEMMA GroundedAttachCard ==
  ASSUME RowInv, Kept, NEW m \in bus, AttachIncomingMessageId(m)
  PROVE  AllGrounded'
BY ReceiveType, TakenGrounded DEF RowInv, AttachIncomingMessageId, telegram

LEMMA GroundedUpdateCard ==
  ASSUME RowInv, Kept, NEW m \in bus, UpdateIncomingAfterAssign(m)
  PROVE  AllGrounded'
<1> DEFINE t == m.ticket
           n == Msg("edit_message_text", t, 0, db[t].inbox_msg, "taken")
<1>1. bus' \subseteq bus /\ reading' = reading /\ posts' = posts
  BY ReceiveType DEF RowInv, UpdateIncomingAfterAssign, telegram
<1>2. CASE ~CardKnown(db[t])
  BY <1>1, <1>2, TakenGrounded DEF UpdateIncomingAfterAssign
<1>3. CASE CardKnown(db[t])
  <2>1. NowGrounded(n)
    BY EntryGrounded, MsgGrounded DEF Acks
  <2>2. "ticket_assigned" \in Tasks /\ Owe("ticket_assigned", <<n>>)
    BY <1>3 DEF UpdateIncomingAfterAssign, Tasks
  <2> HIDE DEF n
  <2> QED
    BY <1>1, <2>1, <2>2, OwedOneGrounded
<1> QED
  BY <1>2, <1>3

LEMMA GroundedCallbackRead ==
  ASSUME RowInv, Kept, NEW m \in bus, CallbackRead(m)
  PROVE  AllGrounded'
<1>1. bus' \subseteq bus /\ todo' = todo /\ posts' = posts
  BY ReceiveType DEF RowInv, CallbackRead, telegram
<1>2. \A r \in reading' \ reading : NowGrounded(r.msg)
  BY OldGrounded DEF CallbackRead
<1> QED
  BY <1>1, <1>2, NewGrounded

LEMMA GroundedSpent ==
  ASSUME RowInv, Kept, NEW h \in Tasks, NEW m \in bus, AlreadyProcessed(h, m)
  PROVE  AllGrounded'
BY ReceiveType, TakenGrounded DEF RowInv, AlreadyProcessed, telegram

\* The callback task's decisions, given that what they owe is grounded.
LEMMA CommitGrounded ==
  ASSUME RowInv, Kept, NEW r \in reading, NEW msgs, CallbackCommit(r, msgs),
         \A i \in DOMAIN msgs : NowGrounded(msgs[i])
  PROVE  AllGrounded'
<1>1. "callback" \in Tasks /\ Owe("callback", msgs)
  BY DEF CallbackCommit, Tasks
<1>2. bus' \subseteq bus /\ reading' \subseteq reading /\ posts' = posts
  BY DEF CallbackCommit, telegram
<1> QED
  BY <1>1, <1>2, OwedGrounded

LEMMA PressGrounded ==
  ASSUME RowInv, Kept, NEW r \in reading
  PROVE  db'[r.msg.ticket].status # "none"
BY OldGrounded DEF NowGrounded

LEMMA GroundedRefused ==
  ASSUME RowInv, Kept, NEW r \in reading, Refused(r)
  PROVE  AllGrounded'
<1>1. \A i \in DOMAIN << >> : NowGrounded(<< >>[i])
  OBVIOUS
<1> QED
  BY <1>1, CommitGrounded DEF Refused

LEMMA GroundedAssign ==
  ASSUME RowInv, Kept, NEW r \in reading, AssignTicket(r)
  PROVE  AllGrounded'
<1> DEFINE t == r.msg.ticket
           a == Msg("edit_forum_topic", t, 0, r.row.topic, "in_progress")
           b == Msg("edit_message_text", t, 0, r.row.header, "in_progress")
           c == Msg("ticket_assigned", t, 0, 0, "none")
           icon == IF r.row.topic = 0 THEN << >> ELSE <<a>>
           header == IF r.row.topic = 0 \/ r.row.header = 0 THEN << >> ELSE <<b>>
<1>1. NowGrounded(a) /\ NowGrounded(b) /\ NowGrounded(c)
  BY PressGrounded, MsgGrounded DEF Acks
<1>2. CallbackCommit(r, icon \o header \o <<c>>)
  BY DEF AssignTicket
<1> HIDE DEF a, b, c
<1>3. \A i \in DOMAIN (icon \o header \o <<c>>) : NowGrounded((icon \o header \o <<c>>)[i])
  BY <1>1
<1> HIDE DEF icon, header
<1> QED
  BY <1>2, <1>3, CommitGrounded

LEMMA GroundedAskClose ==
  ASSUME RowInv, Kept, NEW r \in reading, ConfirmOrCancel(r)
  PROVE  AllGrounded'
<1> DEFINE view == IF r.msg.data = "close" THEN "confirm" ELSE r.row.status
           m == Msg("edit_message_text", r.msg.ticket, 0, r.row.header, view)
<1>1. view # "offer"
  BY ReadingType DEF RowInv
<1>2. NowGrounded(m)
  BY <1>1, PressGrounded, MsgGrounded DEF Acks
<1>3. CallbackCommit(r, <<m>>)
  BY DEF ConfirmOrCancel
<1> HIDE DEF m
<1>4. \A i \in DOMAIN <<m>> : NowGrounded(<<m>>[i])
  BY <1>2
<1> QED
  BY <1>3, <1>4, CommitGrounded

LEMMA GroundedClose ==
  ASSUME RowInv, Kept, NEW r \in reading, CommitClose(r)
  PROVE  AllGrounded'
<1> DEFINE t == r.msg.ticket
           a == Msg("edit_forum_topic", t, 0, r.row.topic, "closed")
           b == Msg("send_message", t, 0, r.row.topic, "thanks")
           c == Msg("edit_message_text", t, 0, r.row.header, "closed")
           d == Msg("close_forum_topic", t, 0, r.row.topic, "none")
           e == Msg("ticket_closed", t, 0, 0, "none")
<1>1. /\ NowGrounded(a) /\ NowGrounded(b) /\ NowGrounded(c) /\ NowGrounded(d)
      /\ NowGrounded(e)
  BY PressGrounded, MsgGrounded DEF Acks
<1>2. CallbackCommit(r, <<a, b, c, d, e>>)
  BY DEF CommitClose, ClosingMessages
<1> HIDE DEF a, b, c, d, e
<1>3. \A i \in DOMAIN <<a, b, c, d, e>> : NowGrounded(<<a, b, c, d, e>>[i])
  BY <1>1
<1> QED
  BY <1>2, <1>3, CommitGrounded

LEMMA GroundedPublish ==
  ASSUME RowInv, Kept, NEW h \in Tasks, Publish(h)
  PROVE  AllGrounded'
<1> DEFINE s == todo[h]
<1>1. s \in Seq(Message) /\ s # << >> /\ todo \in [Tasks -> Seq(Message)]
  BY DEF RowInv, TypeOK, Publish
<1>2. \A i \in DOMAIN s : NowGrounded(s[i])
  BY OldGrounded
<1>3. /\ Head(s) = s[1] /\ 1 \in DOMAIN s
      /\ \A i \in DOMAIN Tail(s) : i + 1 \in DOMAIN s /\ Tail(s)[i] = s[i + 1]
  BY <1>1, HeadTailProperties
<1>4. NowGrounded(Head(s)) /\ \A i \in DOMAIN Tail(s) : NowGrounded(Tail(s)[i])
  BY <1>2, <1>3
<1>5. \A m \in bus' \ bus : NowGrounded(m)
  BY <1>4 DEF Publish
<1>6. todo'[h] = Tail(s) /\ \A x \in Tasks \ {h} : todo'[x] = todo[x]
  BY <1>1 DEF Publish
<1>7. \A x \in Tasks : \/ todo'[x] = todo[x]
                       \/ \A i \in DOMAIN todo'[x] : NowGrounded(todo'[x][i])
  BY <1>4, <1>6
<1>8. reading' = reading /\ posts' = posts
  BY DEF Publish, telegram
<1> HIDE DEF s
<1> QED
  BY <1>5, <1>7, <1>8, NewGrounded

LEMMA GroundedCrash ==
  ASSUME RowInv, Kept, Crash
  PROVE  AllGrounded'
<1>1. \A h \in Tasks : \A i \in DOMAIN todo'[h] : NowGrounded(todo'[h][i])
  BY DEF Crash
<1>2. bus' = bus /\ reading' = {} /\ posts' = posts
  BY DEF Crash, telegram
<1> QED
  BY <1>1, <1>2, NewGrounded

\* gateway-tg publishes an acknowledgement or nothing.
LEMMA CarriedGrounded ==
  ASSUME RowInv, Kept, \A n \in bus' : n \in bus \/ NowGrounded(n),
         todo' = todo, reading' = reading, \A p \in posts' \ posts : NowPosted(p)
  PROVE  AllGrounded'
BY NewGrounded

LEMMA ExecutedBus ==
  ASSUME NEW m, NEW acks, Executed(m, acks)
  PROVE  bus' \subseteq bus \cup acks
BY DEF Executed

LEMMA GroundedCreateTopic ==
  ASSUME RowInv, Kept, NEW m \in bus, CreateForumTopic(m)
  PROVE  AllGrounded'
<1> DEFINE t == m.ticket
           ack == Msg("topic_created", t, m.corr, Fresh(t, "topic"), "none")
<1>1. t \in Tickets /\ db'[t].status # "none"
  BY EntryGrounded
<1>2. Fresh(t, "topic") # 0
  BY <1>1, FreshType DEF RowInv, Sources, Ids
<1>3. NowGrounded(ack)
  BY <1>1, <1>2, MsgGrounded
<1>4. bus' \subseteq bus \cup {ack}
  BY ExecutedBus DEF CreateForumTopic
<1>5. posts' = posts /\ todo' = todo /\ reading' = reading
  BY DEF core, CreateForumTopic
<1> HIDE DEF ack
<1> QED
  BY <1>3, <1>4, <1>5, CarriedGrounded

LEMMA GroundedSendMessage ==
  ASSUME RowInv, Kept, NEW m \in bus, SendMessage(m)
  PROVE  AllGrounded'
<1> DEFINE t == m.ticket
           id == Fresh(t, "post")
           ack == Msg("message_sent", t, m.corr, id, "none")
<1>1. t \in Tickets /\ db'[t].status # "none"
  BY EntryGrounded
<1>2. id # 0
  BY <1>1, FreshType DEF RowInv, Sources, Ids
<1>3. NowGrounded(ack)
  BY <1>1, <1>2, MsgGrounded
<1>4. bus' \subseteq bus \cup {ack}
  BY ExecutedBus DEF SendMessage
<1>5. m.view = "offer" => db'[t].header # 0
  BY EntryGrounded DEF SendMessage, AboutCard
<1>6. \A p \in posts' \ posts : NowPosted(p)
  BY <1>1, <1>5 DEF SendMessage, NowPosted
<1>7. todo' = todo /\ reading' = reading
  BY DEF core, SendMessage
<1> HIDE DEF ack
<1> QED
  BY <1>3, <1>4, <1>6, <1>7, CarriedGrounded

LEMMA GroundedEditMessage ==
  ASSUME RowInv, Kept, NEW m \in bus, EditMessageText(m)
  PROVE  AllGrounded'
<1>1. m.view # "offer"
  BY EntryGrounded DEF EditMessageText
<1>2. \A p \in posts' \ posts : NowPosted(p)
  <2>1. SUFFICES ASSUME NEW p \in posts' \ posts
                 PROVE  NowPosted(p)
    OBVIOUS
  <2>2. PICK q \in posts : p = [q EXCEPT !.view = m.view]
    BY DEF EditMessageText
  <2>3. p.ticket = q.ticket /\ p.view = m.view
    BY <2>2 DEF RowInv, TypeOK
  <2> QED
    BY <1>1, <2>3, OldGrounded DEF NowPosted
<1>3. bus' \subseteq bus \cup {}
  BY ExecutedBus DEF EditMessageText
<1>4. todo' = todo /\ reading' = reading
  BY DEF core, EditMessageText
<1> QED
  BY <1>2, <1>3, <1>4, CarriedGrounded

LEMMA GroundedEditTopic ==
  ASSUME RowInv, Kept, NEW m \in bus, EditForumTopic(m) \/ CloseForumTopic(m)
  PROVE  AllGrounded'
<1>1. bus' \subseteq bus \cup {} /\ posts' = posts /\ todo' = todo /\ reading' = reading
  BY ExecutedBus DEF core, EditForumTopic, CloseForumTopic
<1> QED
  BY <1>1, CarriedGrounded

LEMMA GroundedRefuse ==
  ASSUME RowInv, Kept, NEW m \in bus, TelegramRefuses(m)
  PROVE  AllGrounded'
<1>1. bus' \subseteq bus \cup {} /\ posts' = posts /\ todo' = todo /\ reading' = reading
  BY DEF core, TelegramRefuses, telegram
<1> QED
  BY <1>1, CarriedGrounded

LEMMA GroundedPress ==
  ASSUME RowInv, Kept, NEW p \in posts, NEW b \in Buttons, NEW user \in People,
         NEW target \in Executors \cup {Nobody}, PressButton(p, b, user, target)
  PROVE  AllGrounded'
<1> DEFINE m == [type |-> "callback", ticket |-> p.ticket,
                 n |-> Fresh(p.ticket, "callback"),
                 user |-> user, data |-> b, target |-> target]
<1>1. NowPosted(p)
  BY OldGrounded
<1>2. b = "assign" => p.view = "offer"
  BY DEF PressButton, Offered
<1>3. NowGrounded(m)
  BY <1>1, <1>2 DEF NowGrounded, NowPosted, AboutCard, Acks
<1>4. bus' \subseteq bus \cup {m}
  BY DEF PressButton
<1>5. posts' = posts /\ todo' = todo /\ reading' = reading
  BY DEF core, PressButton, telegram
<1> HIDE DEF m
<1> QED
  BY <1>3, <1>4, <1>5, CarriedGrounded

LEMMA GroundedStep == RowInv /\ Kept /\ [Next]_vars => AllGrounded'
<1> SUFFICES ASSUME RowInv, Kept, [Next]_vars
             PROVE  AllGrounded'
  OBVIOUS
<1>1. ASSUME NEW m \in bus, CoreTakes(m)
      PROVE  AllGrounded'
  BY <1>1, GroundedTopicCreated, GroundedHeaderSent, GroundedAttachCard,
     GroundedIncomingCard, GroundedUpdateCard, GroundedCallbackRead, GroundedSpent
     DEF CoreTakes
<1>2. ASSUME NEW m \in bus, Carries(m)
      PROVE  AllGrounded'
  BY <1>2, GroundedCreateTopic, GroundedSendMessage, GroundedEditMessage,
     GroundedEditTopic DEF Carries
<1>3. ASSUME NEW r \in reading, Decide(r)
      PROVE  AllGrounded'
  BY <1>3, GroundedRefused, GroundedAssign, GroundedAskClose, GroundedClose DEF Decide
<1>4. (\E t \in Tickets, u \in Users : CreateTicketPhase1(t, u)) => AllGrounded'
  BY GroundedCreate
<1>5. (\E m \in bus : TelegramRefuses(m)) => AllGrounded'
  BY GroundedRefuse
<1>6. (\E h \in Tasks : Publish(h)) => AllGrounded'
  BY GroundedPublish
<1>7. (\E p \in posts, b \in Buttons, user \in People, target \in Executors \cup {Nobody} :
         PressButton(p, b, user, target)) => AllGrounded'
  BY GroundedPress
<1>8. CASE UNCHANGED vars
  BY <1>8, TakenGrounded DEF vars
<1> QED
  BY <1>1, <1>2, <1>3, <1>4, <1>5, <1>6, <1>7, <1>8, GroundedCrash DEF Next

-----------------------------------------------------------------------------
(* The theorems.                                                           *)

LEMMA InvInit == Init => RowInv
<1> SUFFICES ASSUME Init
             PROVE  RowInv
  OBVIOUS
<1>1. TypeOK
  BY TypeInit
<1>2. \A t \in Tickets :
        db[t] = NoRow /\ \A e \in {"created", "assigned", "closed"} : log[t][e] = 0
  BY DEF Init
<1>3. InOrder /\ AuditTrail /\ WorkedOnIsAttached
  BY <1>2 DEF InOrder, AuditTrail, WorkedOnIsAttached, NoRow
<1>4. AllGrounded
  BY DEF Init, AllGrounded
<1>5. SnapshotHolds
  BY DEF Init, SnapshotHolds, AtMostOne
<1> QED
  BY <1>1, <1>3, <1>4, <1>5 DEF RowInv

LEMMA InvStep == RowInv /\ [Next]_vars => RowInv'
<1> SUFFICES ASSUME RowInv, [Next]_vars
             PROVE  RowInv'
  OBVIOUS
<1>1. TypeOK'
  BY TypeStep DEF RowInv
<1>2. RowStep
  BY EveryStep
<1>3. Kept
  BY <1>2, KeptStep
<1>4. AllGrounded'
  BY <1>3, GroundedStep
<1> QED
  BY <1>1, <1>2, <1>4, OrderStep, AuditStep, SnapshotStep DEF RowInv

\* The inductive invariant holds: announcements, cards and presses come after
\* the attachments they rest on (create_ticket.py, incoming_card.py), and what a
\* button's transaction read stays true until it commits.
THEOREM RowsCorrect == Spec => []RowInv
<1>1. Init => RowInv
  BY InvInit
<1>2. RowInv /\ [Next]_vars => RowInv'
  BY InvStep
<1> QED
  BY <1>1, <1>2, PTL DEF Spec

\* ticket_events has exactly one record of every transition of the row, under
\* redelivery, repeated presses, refusals and crashes (ticket_events.add next to
\* each status change in create_ticket.py, assign_ticket.py, close_ticket.py).
THEOREM AuditTrailCorrect == Spec => []AuditTrail
<1>1. RowInv => AuditTrail
  BY DEF RowInv
<1> QED
  BY <1>1, RowsCorrect, PTL

\* A ticket that is taken or closed has its topic and its header attached, so no
\* edit of either is ever skipped (the guards of assign_ticket.py:162-188).
THEOREM WorkedOnCorrect == Spec => []WorkedOnIsAttached
<1>1. RowInv => WorkedOnIsAttached
  BY DEF RowInv
<1> QED
  BY <1>1, RowsCorrect, PTL

\* The unlocked read-check-write of assign_ticket.py and close_ticket.py decides
\* on a row nobody has changed in between.
THEOREM SnapshotCorrect == Spec => []SnapshotHolds
<1>1. RowInv => SnapshotHolds
  BY DEF RowInv
<1> QED
  BY <1>1, RowsCorrect, PTL

-----------------------------------------------------------------------------
(* The rows implement TicketStatus.                                        *)

\* A step that touches the row of t only changes the view at t only.
LEMMA ViewChanges ==
  ASSUME NEW t \in Tickets, \A x \in Tickets \ {t} : db'[x] = db[x]
  PROVE  StatusView' = [StatusView EXCEPT ![t] = Part(db'[t])]
BY DEF StatusView

LEMMA StatusInit == Init => Status!Init
BY DEF Init, Status!Init, Status!Row, StatusView, Part, NoRow

LEMMA OpensStatus ==
  ASSUME RowInv, NEW t \in Tickets, NEW u \in Users, Opens(t, u)
  PROVE  Status!Open(t, u)
<1>1. StatusView[t].status = "none"
  BY DEF Opens, StatusView, Part
<1>2. Part(db'[t]) = Status!Row("new", u, Nobody, Nobody)
  BY OpensRow DEF Part, Status!Row
<1>3. StatusView' = [StatusView EXCEPT ![t] = Part(db'[t])]
  BY OpensRow, ViewChanges
<1> QED
  BY <1>1, <1>2, <1>3 DEF Status!Open

LEMMA TakesStatus ==
  ASSUME RowInv, NEW t \in Tickets, NEW e \in Active, Takes(t, e)
  PROVE  Status!Take(t, e)
<1>1. /\ StatusView[t].author = db[t].author /\ StatusView[t].closer = db[t].closer
      /\ StatusView[t].status = "new"
  BY DEF Takes, StatusView, Part
<1>2. Part(db'[t]) = Status!Row("in_progress", db[t].author, e, db[t].closer)
  BY TakesRow DEF Part, Status!Row
<1>3. StatusView' = [StatusView EXCEPT ![t] = Part(db'[t])]
  BY TakesRow, ViewChanges
<1> QED
  BY <1>1, <1>2, <1>3 DEF Status!Take

LEMMA ClosesStatus ==
  ASSUME RowInv, NEW t \in Tickets, Closes(t)
  PROVE  Status!Close(t)
<1>1. /\ StatusView[t].author = db[t].author
      /\ StatusView[t].assignee = db[t].assignee
      /\ StatusView[t].status \in {"new", "in_progress"}
  BY DEF Closes, StatusView, Part
<1>2. Part(db'[t]) = Status!Row("closed", db[t].author, db[t].assignee, db[t].author)
  BY ClosesRow DEF Part, Status!Row
<1>3. StatusView' = [StatusView EXCEPT ![t] = Part(db'[t])]
  BY ClosesRow, ViewChanges
<1> QED
  BY <1>1, <1>2, <1>3 DEF Status!Close

LEMMA AttachesStatus ==
  ASSUME RowInv, NEW t \in Tickets, NEW r \in Row, Attaches(t, r)
  PROVE  StatusView' = StatusView
<1>1. \A x \in Tickets : Part(db'[x]) = Part(db[x])
  <2>1. Part(db'[t]) = Part(db[t])
    BY AttachesRow DEF Attaches, Part
  <2> QED
    BY <2>1, AttachesRow
<1> QED
  BY <1>1 DEF StatusView

LEMMA StatusStep == RowInv /\ [Next]_vars => [Status!Next]_StatusView
<1> SUFFICES ASSUME RowInv, [Next]_vars
             PROVE  [Status!Next]_StatusView
  OBVIOUS
<1>1. (\E t \in Tickets, u \in Users : Opens(t, u)) => Status!Next
  BY OpensStatus DEF Status!Next
<1>2. (\E t \in Tickets, e \in Active : Takes(t, e)) => Status!Next
  BY TakesStatus DEF Status!Next
<1>3. (\E t \in Tickets : Closes(t)) => Status!Next
  BY ClosesStatus DEF Status!Next
<1>4. (\E t \in Tickets, r \in Row : Attaches(t, r)) => StatusView' = StatusView
  BY AttachesStatus
<1>5. Rests => StatusView' = StatusView
  BY DEF Rests, StatusView
<1> QED
  BY <1>1, <1>2, <1>3, <1>4, <1>5, EveryStep DEF RowStep

\* The rows of core implement TicketStatus: a ticket is opened once, taken at
\* most once by an active executor, closed at most once and only by its author,
\* and keeps its assignee (assign_ticket.py, close_ticket.py), whatever is lost,
\* redelivered, run twice or pressed at the same time.
THEOREM ImplementsStatus == Spec => KeepsStatus
<1>1. Init => Status!Init
  BY StatusInit
<1>2. RowInv /\ [Next]_vars => [Status!Next]_StatusView
  BY StatusStep
<1> QED
  BY <1>1, <1>2, RowsCorrect, PTL DEF Spec, KeepsStatus, Status!Spec

-----------------------------------------------------------------------------
(* WHAT EXISTS ONCE                                                        *)

-----------------------------------------------------------------------------
(* What a step has to respect.                                             *)

\* NowSound and NowCard are Sound and CardPost about the state after a step.
NowCard(t, id) == \E p \in posts' : p.ticket = t /\ p.id = id /\ p.view \in CardViews

NowSound(m) ==
  LET row == db'[m.ticket] IN
  /\ m.type \in {"topic_created", "ticket_created"} => m.n = 1
  /\ m.type = "message_sent" =>
       /\ clock'[m.ticket]["post"] # 0
       /\ \/ m.n = 1 /\ m.corr = row.corr /\ m.id = 1
          \/ m.n = 2 /\ m.corr # row.corr /\ NowCard(m.ticket, m.id)
  /\ m.type = "send_message" =>
       \/ m.view = "new" /\ m.corr = row.corr
       \/ m.view = "offer" /\ m.corr \notin {0, row.corr}
       \/ m.view = "thanks" /\ m.corr = 0
  /\ m.type = "edit_message_text" =>
       \/ m.view \in HeaderViews /\ m.id = 1
       \/ m.view = "taken" /\ NowCard(m.ticket, m.id)

\* A row keeps its correlation, and is never opened or closed in vain.
RowLater(t) ==
  /\ db[t].status # "none" => db'[t].status # "none" /\ db'[t].corr = db[t].corr
  /\ db[t].status = "closed" => db'[t].status = "closed"

\* Nothing that was there is taken back.
Grows ==
  /\ processed \subseteq processed'
  /\ \A t \in Tickets : /\ clock[t]["post"] # 0 => clock'[t]["post"] # 0
                        /\ RowLater(t)
  /\ \A t \in Tickets : \A id : CardPost(t, id) => NowCard(t, id)

\* The ids Telegram and gateway-tg hand out.
Outside == {"topic", "topic_created", "post", "message_sent"}

\* A step of core: Telegram stays as it is.
Inside ==
  /\ topics' = topics /\ posts' = posts
  /\ \A t \in Tickets, s \in Outside : clock'[t][s] = clock[t][s]

LEMMA InsideGrows ==
  ASSUME Inside, processed \subseteq processed',
         \A t \in Tickets : RowLater(t)
  PROVE  Grows
BY DEF Inside, Outside, Grows, CardPost, NowCard

\* Clocks that a step of core ticks are none of Telegram's.
LEMMA TickInside ==
  ASSUME TypeOK, NEW t \in Tickets, NEW S, Tick(t, S), S \cap Outside = {},
         topics' = topics, posts' = posts
  PROVE  Inside
<1>1. clock \in [Tickets -> [Sources -> Nat]]
  BY DEF TypeOK
<1>2. Outside \subseteq Sources
  BY DEF Outside, Sources, Tasks, Ids
<1> QED
  BY <1>1, <1>2 DEF Tick, Inside

\* What Tick does to the clocks of its ticket and of the others.
LEMMA TickClock ==
  ASSUME TypeOK, NEW t \in Tickets, NEW S, Tick(t, S)
  PROVE  /\ \A s \in Sources : clock'[t][s] = IF s \in S THEN clock[t][s] + 1 ELSE clock[t][s]
         /\ \A x \in Tickets \ {t} : clock'[x] = clock[x]
BY DEF Tick, TypeOK

LEMMA InsideShown ==
  ASSUME Inside, NEW t \in Tickets, Shown(t)
  PROVE  Shown(t)'
BY DEF Inside, Outside, Shown

LEMMA InsideDone ==
  ASSUME Inside, NEW t \in Tickets, NEW k
  PROVE  Done(t, k)' <=> Done(t, k)
BY DEF Inside, Outside, Done

\* A row that a step leaves alone.
LEMMA ReachedKept ==
  ASSUME NEW t \in Tickets, TypeOK, Reached(t), Grows, db'[t] = db[t],
         clock'[t]["topic_created"] = clock[t]["topic_created"],
         clock'[t]["topic"] = clock[t]["topic"],
         clock'[t]["message_sent"] = clock[t]["message_sent"],
         clock'[t]["post"] = clock[t]["post"],
         clock'[t]["ticket_created"] = clock[t]["ticket_created"],
         clock'[t]["corr"] \in {clock[t]["corr"], clock[t]["corr"] + 1}
  PROVE  Reached(t)'
<1>1. clock[t]["corr"] \in Nat /\ db[t].corr \in Nat
  BY DEF TypeOK, Row, Sources, Ids
<1>2. db[t].corr \in 1..clock[t]["corr"] => db[t].corr \in 1..clock'[t]["corr"]
  BY <1>1
<1>3. CardPost(t, db[t].inbox_msg) => NowCard(t, db[t].inbox_msg)
  BY DEF Grows
<1>4. NowCard(t, db[t].inbox_msg) => CardPost(t, db[t].inbox_msg)'
  BY db'[t] = db[t] DEF CardPost, NowCard
<1>5. processed \subseteq processed'
  BY DEF Grows
<1> HIDE DEF CardPost
<1> QED
  BY <1>2, <1>3, <1>4, <1>5 DEF Reached

LEMMA ReachedOthers ==
  ASSUME IInv, Grows, Inside, NEW t \in Tickets,
         \A x \in Tickets \ {t} : db'[x] = db[x] /\ clock'[x] = clock[x]
  PROVE  \A x \in Tickets \ {t} : Reached(x)'
<1>1. TypeOK /\ \A x \in Tickets : Reached(x)
  BY DEF IInv, RowInv, Once
<1> QED
  BY <1>1, ReachedKept

LEMMA ReachedIdle ==
  ASSUME IInv, Grows, Inside, db' = db,
         \A x \in Tickets : /\ clock'[x]["ticket_created"] = clock[x]["ticket_created"]
                            /\ clock'[x]["corr"] = clock[x]["corr"]
  PROVE  \A x \in Tickets : Reached(x)'
<1>1. TypeOK /\ \A x \in Tickets : Reached(x)
  BY DEF IInv, RowInv, Once
<1>2. \A x \in Tickets, s \in Outside : clock'[x][s] = clock[x][s]
  BY DEF Inside
<1> QED
  BY <1>1, <1>2, ReachedKept DEF Outside

\* What a handler may change in a row and in the clocks of its ticket.
LEMMA ReachedChanged ==
  ASSUME IInv, Grows, Inside, NEW t \in Tickets, db[t].status # "none",
         db'[t].corr = db[t].corr,
         clock'[t]["corr"] \in {clock[t]["corr"], clock[t]["corr"] + 1},
         \/ clock'[t]["ticket_created"] = clock[t]["ticket_created"]
         \/ <<"message_sent", t, 1>> \in processed',
         \/ db'[t].topic = db[t].topic
         \/ <<"topic_created", t, 1>> \in processed',
         \/ db'[t].header = db[t].header
         \/ /\ db'[t].header = 1 /\ clock[t]["post"] # 0
            /\ <<"message_sent", t, 1>> \in processed',
         \/ db'[t].inbox_msg = db[t].inbox_msg
         \/ /\ <<"message_sent", t, 2>> \in processed'
            /\ NowCard(t, db'[t].inbox_msg)
  PROVE  Reached(t)'
<1>1. TypeOK /\ Reached(t)
  BY DEF IInv, RowInv, Once
<1>2. clock[t]["corr"] \in Nat /\ db[t].corr \in Nat
  BY <1>1 DEF TypeOK, Row, Sources, Ids
<1>3. db'[t].corr \in 1..clock'[t]["corr"]
  BY <1>1, <1>2 DEF Reached
<1>4. /\ clock'[t]["topic_created"] = clock[t]["topic_created"]
      /\ clock'[t]["topic"] = clock[t]["topic"]
      /\ clock'[t]["message_sent"] = clock[t]["message_sent"]
      /\ clock'[t]["post"] = clock[t]["post"]
  BY DEF Inside, Outside
<1>5. processed \subseteq processed'
  BY DEF Grows
<1>6. CardPost(t, db[t].inbox_msg) => NowCard(t, db[t].inbox_msg)
  BY DEF Grows
<1>7. db'[t].inbox_msg # 0 => /\ <<"message_sent", t, 2>> \in processed'
                             /\ NowCard(t, db'[t].inbox_msg)
  BY <1>1, <1>5, <1>6 DEF Reached
<1>8. NowCard(t, db'[t].inbox_msg) => CardPost(t, db[t].inbox_msg)'
  BY DEF NowCard, CardPost
<1> HIDE DEF CardPost, NowCard
<1> QED
  BY <1>1, <1>3, <1>4, <1>5, <1>7, <1>8 DEF Reached

\* A step that changes one row, and ticks no clock of another ticket.
LEMMA RowChanged ==
  ASSUME TypeOK, NEW t \in Tickets, NEW r \in Row, db' = [db EXCEPT ![t] = r],
         db[t].status # "none" => r.status # "none" /\ r.corr = db[t].corr,
         db[t].status = "closed" => r.status = "closed"
  PROVE  /\ db'[t] = r
         /\ \A x \in Tickets \ {t} : db'[x] = db[x]
         /\ \A x \in Tickets : RowLater(x)
<1>1. db \in [Tickets -> Row]
  BY DEF TypeOK
<1>2. db'[t] = r /\ \A x \in Tickets \ {t} : db'[x] = db[x]
  BY <1>1
<1> QED
  BY <1>2 DEF RowLater

-----------------------------------------------------------------------------
(* Messages under way stay sound.                                          *)

LEMMA SoundKept ==
  ASSUME Grows, NEW m, m.ticket \in Tickets, db[m.ticket].status # "none", Sound(m)
  PROVE  NowSound(m)
BY DEF Grows, RowLater, Sound, NowSound

LEMMA OldSound ==
  ASSUME IInv, Grows
  PROVE  /\ \A m \in bus : NowSound(m)
         /\ \A h \in Tasks : \A i \in DOMAIN todo[h] : NowSound(todo[h][i])
         /\ \A r \in reading : r.row.header \in {0, 1}
<1>1. TypeOK /\ AllGrounded /\ AllSound
  BY DEF IInv, RowInv, Once
<1>2. \A m \in bus : NowSound(m)
  BY <1>1, EntryType, SoundKept DEF AllGrounded, Grounded, AllSound
<1>3. ASSUME NEW h \in Tasks, NEW i \in DOMAIN todo[h]
      PROVE  NowSound(todo[h][i])
  <2>1. todo[h] \in Seq(Message)
    BY <1>1 DEF TypeOK
  <2>2. todo[h][i] \in Message
    BY <2>1
  <2>3. todo[h][i].ticket \in Tickets
    BY <2>2 DEF Message
  <2>4. Sound(todo[h][i]) /\ db[todo[h][i].ticket].status # "none"
    BY <1>1 DEF AllGrounded, Grounded, AllSound
  <2> QED
    BY <2>3, <2>4, SoundKept
<1> QED
  BY <1>1, <1>2, <1>3 DEF AllSound

\* It is enough to look at what a step adds.
LEMMA NewSound ==
  ASSUME IInv, Grows,
         \A m \in bus' \ bus : NowSound(m),
         \A h \in Tasks : \/ todo'[h] = todo[h]
                          \/ \A i \in DOMAIN todo'[h] : NowSound(todo'[h][i]),
         \A r \in reading' \ reading : r.row.header \in {0, 1}
  PROVE  AllSound'
<1>1. \A m \in bus' : NowSound(m)
  BY OldSound
<1>2. ASSUME NEW h \in Tasks, NEW i \in DOMAIN todo'[h]
      PROVE  NowSound(todo'[h][i])
  BY OldSound
<1>3. \A r \in reading' : r.row.header \in {0, 1}
  BY OldSound
<1> QED
  BY <1>1, <1>2, <1>3 DEF AllSound, Sound, NowSound, CardPost, NowCard

LEMMA OwedSound ==
  ASSUME IInv, Grows, NEW h \in Tasks, NEW msgs, \A i \in DOMAIN msgs : NowSound(msgs[i]),
         Owe(h, msgs), bus' \subseteq bus, reading' \subseteq reading
  PROVE  AllSound'
<1>1. todo \in [Tasks -> Seq(Message)]
  BY DEF IInv, RowInv, TypeOK
<1>2. todo'[h] = msgs /\ \A x \in Tasks \ {h} : todo'[x] = todo[x]
  BY <1>1 DEF Owe
<1>3. \A x \in Tasks : \/ todo'[x] = todo[x]
                       \/ \A i \in DOMAIN todo'[x] : NowSound(todo'[x][i])
  BY <1>2
<1> QED
  BY <1>3, NewSound

-----------------------------------------------------------------------------
(* Every command in one place.                                             *)

LEMMA BegunKept ==
  ASSUME Grows, NEW t \in Tickets, NEW k, Begun(t, k)
  PROVE  Begun(t, k)'
BY DEF Grows, RowLater, Begun

\* What a task owes anew is begun by this very step, and owed once.
LEMMA OnePlaceOwed ==
  ASSUME IInv, Grows, Inside, NEW t \in Tickets, NEW k \in Kinds, NEW h \in Tasks, NEW msgs,
         Owe(h, msgs), bus' \subseteq bus,
         \A i, j \in DOMAIN msgs : IsOf(msgs[i], t, k) /\ IsOf(msgs[j], t, k) => i = j,
         \A i \in DOMAIN msgs : IsOf(msgs[i], t, k) => ~Begun(t, k) /\ Begun(t, k)'
  PROVE  OnePlace(t, k)'
<1>1. todo \in [Tasks -> Seq(Message)] /\ OnePlace(t, k)
  BY DEF IInv, RowInv, TypeOK, Once
<1>2. todo'[h] = msgs /\ \A x \in Tasks \ {h} : todo'[x] = todo[x]
  BY <1>1 DEF Owe
<1>3. (Done(t, k)' <=> Done(t, k)) /\ (Begun(t, k) => Begun(t, k)')
  BY InsideDone, BegunKept
<1>4. ASSUME NEW i \in DOMAIN msgs, IsOf(msgs[i], t, k)
      PROVE  /\ \A m \in bus : ~IsOf(m, t, k)
             /\ \A g \in Tasks : \A j \in DOMAIN todo[g] : ~IsOf(todo[g][j], t, k)
             /\ Begun(t, k)' /\ ~Done(t, k)'
  BY <1>1, <1>3, <1>4 DEF OnePlace
<1>5. \A m, o \in bus' : IsOf(m, t, k) /\ IsOf(o, t, k) => m = o
  BY <1>1 DEF OnePlace
<1>6. ASSUME NEW g \in Tasks, NEW f \in Tasks, NEW i \in DOMAIN todo'[g], NEW j \in DOMAIN todo'[f],
             IsOf(todo'[g][i], t, k), IsOf(todo'[f][j], t, k)
      PROVE  g = f /\ i = j
  <2>1. CASE g = h /\ f = h
    BY <1>2, <1>6, <2>1
  <2>2. CASE g # h /\ f # h
    BY <1>1, <1>2, <1>6, <2>2 DEF OnePlace
  <2>3. CASE g = h /\ f # h
    BY <1>2, <1>4, <1>6, <2>3
  <2>4. CASE g # h /\ f = h
    BY <1>2, <1>4, <1>6, <2>4
  <2> QED
    BY <2>1, <2>2, <2>3, <2>4
<1>7. ASSUME NEW m \in bus', NEW g \in Tasks, NEW i \in DOMAIN todo'[g],
             IsOf(m, t, k), IsOf(todo'[g][i], t, k)
      PROVE  FALSE
  <2>1. CASE g = h
    BY <1>2, <1>4, <1>7, <2>1
  <2>2. CASE g # h
    BY <1>1, <1>2, <1>7, <2>2 DEF OnePlace
  <2> QED
    BY <2>1, <2>2
<1>8. \A m \in bus' : IsOf(m, t, k) => Begun(t, k)' /\ ~Done(t, k)'
  BY <1>1, <1>3 DEF OnePlace
<1>9. ASSUME NEW g \in Tasks, NEW i \in DOMAIN todo'[g], IsOf(todo'[g][i], t, k)
      PROVE  Begun(t, k)' /\ ~Done(t, k)'
  <2>1. CASE g = h
    BY <1>2, <1>4, <1>9, <2>1
  <2>2. CASE g # h
    BY <1>1, <1>2, <1>3, <1>9, <2>2 DEF OnePlace
  <2> QED
    BY <2>1, <2>2
<1>10. Done(t, k)' => Begun(t, k)'
  BY <1>1, <1>3 DEF OnePlace
<1> HIDE DEF Begun, Done, IsOf
<1> QED
  BY <1>5, <1>6, <1>7, <1>8, <1>9, <1>10 DEF OnePlace

\* What leaves the streams only.
LEMMA OnePlaceLess ==
  ASSUME IInv, Grows, NEW t \in Tickets, NEW k \in Kinds, Done(t, k)' <=> Done(t, k),
         bus' \subseteq bus \/ \E o : bus' = bus \cup {o} /\ ~IsOf(o, t, k),
         todo' = todo \/ todo' = [h \in Tasks |-> << >>]
  PROVE  OnePlace(t, k)'
<1>1. OnePlace(t, k) /\ (Begun(t, k) => Begun(t, k)')
  BY BegunKept DEF IInv, Once
<1>2. \A m \in bus' : IsOf(m, t, k) => m \in bus
  OBVIOUS
<1>3. \A h \in Tasks : todo'[h] = todo[h] \/ DOMAIN todo'[h] = {}
  OBVIOUS
<1> QED
  BY <1>1, <1>2, <1>3 DEF OnePlace

\* A message of core's goes out.
LEMMA OnePlacePublish ==
  ASSUME IInv, NEW h \in Tasks, Publish(h), NEW t \in Tickets, NEW k \in Kinds
  PROVE  OnePlace(t, k)'
<1> DEFINE s == todo[h]
<1>1. /\ OnePlace(t, k) /\ s \in Seq(Message) /\ s # << >> /\ todo \in [Tasks -> Seq(Message)]
  BY DEF IInv, RowInv, TypeOK, Publish, Once
<1>2. /\ Head(s) = s[1] /\ 1 \in DOMAIN s
      /\ \A i \in DOMAIN Tail(s) : i + 1 \in DOMAIN s /\ i + 1 # 1 /\ Tail(s)[i] = s[i + 1]
      /\ \A i, j \in DOMAIN Tail(s) : i + 1 = j + 1 => i = j
  BY <1>1, HeadTailProperties
<1>3. todo'[h] = Tail(s) /\ \A x \in Tasks \ {h} : todo'[x] = todo[x]
  BY <1>1 DEF Publish
<1>4. \A m \in bus' : m \in bus \/ m = s[1]
  BY <1>2 DEF Publish
<1>5. (Done(t, k)' <=> Done(t, k)) /\ (Begun(t, k)' <=> Begun(t, k))
  BY DEF Publish, telegram, Done, Begun
<1>6. \A m, o \in bus' : IsOf(m, t, k) /\ IsOf(o, t, k) => m = o
  BY <1>1, <1>2, <1>4 DEF OnePlace
<1>7. ASSUME NEW g \in Tasks, NEW i \in DOMAIN todo'[g]
      PROVE  \E j \in DOMAIN todo[g] : /\ todo'[g][i] = todo[g][j]
                                       /\ j = IF g = h THEN i + 1 ELSE i
                                       /\ ~(g = h /\ j = 1)
  <2>1. CASE g = h
    <3>1. i \in DOMAIN Tail(s) /\ todo'[g][i] = Tail(s)[i]
      BY <1>3, <2>1
    <3>2. i + 1 \in DOMAIN todo[g] /\ i + 1 # 1 /\ todo'[g][i] = todo[g][i + 1]
      BY <1>2, <2>1, <3>1
    <3> QED
      BY <2>1, <3>2
  <2>2. CASE g # h
    BY <1>3, <2>2
  <2> QED
    BY <2>1, <2>2
<1>8. ASSUME NEW g \in Tasks, NEW f \in Tasks, NEW i \in DOMAIN todo'[g], NEW j \in DOMAIN todo'[f],
             IsOf(todo'[g][i], t, k), IsOf(todo'[f][j], t, k)
      PROVE  g = f /\ i = j
  <2>1. PICK x \in DOMAIN todo[g] : todo'[g][i] = todo[g][x] /\ x = IF g = h THEN i + 1 ELSE i
    BY <1>7
  <2>2. PICK y \in DOMAIN todo[f] : todo'[f][j] = todo[f][y] /\ y = IF f = h THEN j + 1 ELSE j
    BY <1>7
  <2>3. g = f /\ x = y
    BY <1>1, <1>8, <2>1, <2>2 DEF OnePlace
  <2> QED
    BY <1>2, <1>3, <2>1, <2>2, <2>3
<1>9. ASSUME NEW m \in bus', NEW g \in Tasks, NEW i \in DOMAIN todo'[g],
             IsOf(m, t, k), IsOf(todo'[g][i], t, k)
      PROVE  FALSE
  <2>1. PICK x \in DOMAIN todo[g] : todo'[g][i] = todo[g][x] /\ ~(g = h /\ x = 1)
    BY <1>7
  <2>2. CASE m \in bus
    BY <1>1, <1>9, <2>1, <2>2 DEF OnePlace
  <2>3. CASE m = s[1]
    BY <1>1, <1>2, <1>9, <2>1, <2>3 DEF OnePlace
  <2> QED
    BY <1>4, <2>2, <2>3
<1>10. \A m \in bus' : IsOf(m, t, k) => Begun(t, k)' /\ ~Done(t, k)'
  BY <1>1, <1>2, <1>4, <1>5 DEF OnePlace
<1>11. \A g \in Tasks : \A i \in DOMAIN todo'[g] :
         IsOf(todo'[g][i], t, k) => Begun(t, k)' /\ ~Done(t, k)'
  BY <1>1, <1>5, <1>7 DEF OnePlace
<1>12. Done(t, k)' => Begun(t, k)'
  BY <1>1, <1>5 DEF OnePlace
<1> HIDE DEF Begun, Done, IsOf, s
<1> QED
  BY <1>6, <1>8, <1>9, <1>10, <1>11, <1>12 DEF OnePlace

-----------------------------------------------------------------------------
(* The handlers of core.                                                   *)

LEMMA HandledOnce ==
  ASSUME IInv, Grows, Inside, NEW h \in Tasks, NEW msgs, Owe(h, msgs),
         bus' \subseteq bus, reading' \subseteq reading,
         \A i \in DOMAIN msgs : NowSound(msgs[i]),
         \A t \in Tickets, k \in Kinds : \A i, j \in DOMAIN msgs :
           IsOf(msgs[i], t, k) /\ IsOf(msgs[j], t, k) => i = j,
         \A t \in Tickets, k \in Kinds : \A i \in DOMAIN msgs :
           IsOf(msgs[i], t, k) => ~Begun(t, k) /\ Begun(t, k)',
         \A t \in Tickets : Reached(t)'
  PROVE  Once'
<1>1. AllSound'
  BY OwedSound
<1>2. \A t \in Tickets : Shown(t)'
  BY InsideShown DEF IInv, Once
<1>3. \A t \in Tickets, k \in Kinds : OnePlace(t, k)'
  BY OnePlaceOwed
<1> QED
  BY <1>1, <1>2, <1>3 DEF Once

\* The handler of one message, that owes one.
LEMMA HandledOne ==
  ASSUME IInv, Grows, Inside, NEW h \in Tasks, NEW m, Owe(h, <<m>>),
         bus' \subseteq bus, reading' \subseteq reading, NowSound(m),
         \A t \in Tickets, k \in Kinds : IsOf(m, t, k) => ~Begun(t, k) /\ Begun(t, k)',
         \A t \in Tickets : Reached(t)'
  PROVE  Once'
<1>1. \A i \in DOMAIN <<m>> : i = 1 /\ <<m>>[i] = m
  OBVIOUS
<1>2. \A i \in DOMAIN <<m>> : NowSound(<<m>>[i])
  BY <1>1
<1>3. \A t \in Tickets, k \in Kinds : \A i \in DOMAIN <<m>> :
        IsOf(<<m>>[i], t, k) => ~Begun(t, k) /\ Begun(t, k)'
  BY <1>1
<1>4. \A t \in Tickets, k \in Kinds : \A i, j \in DOMAIN <<m>> :
        IsOf(<<m>>[i], t, k) /\ IsOf(<<m>>[j], t, k) => i = j
  BY <1>1
<1> QED
  BY <1>2, <1>3, <1>4, HandledOnce

\* A step that owes nothing, and adds nothing to the streams but a press.
LEMMA NothingOwed ==
  ASSUME IInv, Grows, Inside, todo' = todo \/ todo' = [h \in Tasks |-> << >>],
         bus' \subseteq bus \/ \E o : bus' = bus \cup {o} /\ o.type = "callback",
         \A r \in reading' \ reading : r.row.header \in {0, 1},
         \A t \in Tickets : Reached(t)'
  PROVE  Once'
<1>1. \A m \in bus' \ bus : m.type = "callback"
  OBVIOUS
<1>2. \A m \in bus' \ bus : NowSound(m)
  BY <1>1 DEF NowSound
<1>3. AllSound'
  <2>1. \A h \in Tasks : todo'[h] = todo[h] \/ \A i \in DOMAIN todo'[h] : NowSound(todo'[h][i])
    OBVIOUS
  <2> QED
    BY <1>2, <2>1, NewSound
<1>4. \A t \in Tickets : Shown(t)'
  BY InsideShown DEF IInv, Once
<1>5. \A o, t, k : o.type = "callback" => ~IsOf(o, t, k)
  BY DEF IsOf
<1>6. \A t \in Tickets, k \in Kinds : OnePlace(t, k)'
  BY <1>5, InsideDone, OnePlaceLess
<1> QED
  BY <1>3, <1>4, <1>6 DEF Once

LEMMA NewRowIs ==
  ASSUME NEW u \in Users, NEW c \in Nat
  PROVE  LET r == [NoRow EXCEPT !.status = "new", !.author = u, !.corr = c] IN
         /\ r.status = "new" /\ r.corr = c
         /\ r.topic = 0 /\ r.header = 0 /\ r.inbox_msg = 0
BY DEF NoRow

LEMMA OnceCreate ==
  ASSUME IInv, NEW t \in Tickets, NEW u \in Users, CreateTicketPhase1(t, u)
  PROVE  Once'
<1> DEFINE corr == Fresh(t, "corr")
           r == [NoRow EXCEPT !.status = "new", !.author = u, !.corr = corr]
           m == Msg("create_forum_topic", t, corr, 0, "none")
<1>1. TypeOK /\ db[t].status = "none" /\ Reached(t)
  BY DEF IInv, RowInv, Once, CreateTicketPhase1
<1>2. corr = clock[t]["corr"] + 1 /\ clock[t]["corr"] \in Nat
  BY <1>1 DEF TypeOK, Fresh, Sources, Ids
<1>3. /\ r \in Row /\ r.status = "new" /\ r.corr = corr
      /\ r.topic = 0 /\ r.header = 0 /\ r.inbox_msg = 0
  <2>1. corr \in Nat
    BY <1>2
  <2> HIDE DEF corr
  <2> QED
    BY <2>1, NewRowType, NewRowIs
<1>4. /\ db'[t] = r
      /\ \A x \in Tickets \ {t} : db'[x] = db[x]
      /\ \A x \in Tickets : RowLater(x)
  BY <1>1, <1>3, RowChanged DEF CreateTicketPhase1
<1>5. Tick(t, {"corr", "create_forum_topic"})
  BY DEF CreateTicketPhase1
<1>6. Inside
  BY <1>1, <1>5, TickInside DEF CreateTicketPhase1, telegram, Outside
<1>7. Grows
  BY <1>4, <1>6, InsideGrows DEF CreateTicketPhase1
<1>8. /\ clock'[t]["corr"] = corr
      /\ clock'[t]["ticket_created"] = clock[t]["ticket_created"]
      /\ \A x \in Tickets \ {t} : clock'[x] = clock[x]
  BY <1>1, <1>2, <1>5, TickClock DEF Sources, Tasks, Ids
<1>9. Reached(t)'
  <2>1. db'[t].corr \in 1..clock'[t]["corr"]
    BY <1>2, <1>3, <1>4, <1>8
  <2> QED
    BY <1>1, <1>3, <1>4, <1>6, <1>7, <1>8, <2>1 DEF Reached, Inside, Outside, Grows
<1>10. \A x \in Tickets : Reached(x)'
  BY <1>4, <1>6, <1>7, <1>8, <1>9, ReachedOthers
<1>11. NowSound(m)
  BY DEF NowSound, Msg
<1>12. ASSUME NEW x \in Tickets, NEW k \in Kinds, IsOf(m, x, k)
       PROVE  ~Begun(x, k) /\ Begun(x, k)'
  <2>1. x = t /\ k = "topic"
    BY <1>12 DEF IsOf, Msg
  <2> QED
    BY <1>1, <1>3, <1>4, <2>1 DEF Begun
<1>13. /\ "message" \in Tasks /\ Owe("message", <<m>>)
       /\ bus' = bus /\ reading' = reading
  BY DEF CreateTicketPhase1, Tasks
<1> HIDE DEF m
<1> QED
  BY <1>6, <1>7, <1>10, <1>11, <1>12, <1>13, HandledOne

\* What the invariant says of an entry.
LEMMA EntrySound ==
  ASSUME IInv, NEW m \in bus
  PROVE  /\ TypeOK /\ m.ticket \in Tickets /\ db[m.ticket] \in Row
         /\ db[m.ticket].status # "none"
         /\ Reached(m.ticket) /\ Sound(m)
<1>1. TypeOK /\ m.ticket \in Tickets
  BY EntryType DEF IInv, RowInv
<1> QED
  BY <1>1 DEF IInv, RowInv, Once, TypeOK, AllGrounded, Grounded, AllSound

LEMMA OnceTopicCreated ==
  ASSUME IInv, NEW m \in bus, HandleTopicCreated(m)
  PROVE  Once'
<1> DEFINE t == m.ticket
           r == [db[t] EXCEPT !.topic = m.id]
<1>1. /\ TypeOK /\ t \in Tickets /\ db[t] \in Row /\ db[t].status # "none"
      /\ Reached(t) /\ m.n = 1 /\ m.id \in Nat /\ m.type = "topic_created"
      /\ m.corr = db[t].corr
  BY EntrySound, TakenType DEF HandleTopicCreated, Sound, Tasks
<1>2. /\ <<"topic_created", t, 1>> \notin processed
      /\ processed' = processed \cup {<<"topic_created", t, 1>>}
  BY <1>1 DEF HandleTopicCreated, Seen, Mark, EventId
<1>3. r \in Row /\ r.status = db[t].status /\ r.corr = db[t].corr /\ r.header = db[t].header
      /\ r.inbox_msg = db[t].inbox_msg
  BY <1>1, AttachType DEF Row
<1>4. db' = [db EXCEPT ![t] = r]
  BY DEF HandleTopicCreated
<1>5. /\ db'[t] = r
      /\ \A x \in Tickets \ {t} : db'[x] = db[x]
      /\ \A x \in Tickets : RowLater(x)
  BY <1>1, <1>3, <1>4, RowChanged
<1>6. Tick(t, {"send_message"})
  BY DEF HandleTopicCreated
<1>7. Inside
  BY <1>1, <1>6, TickInside DEF HandleTopicCreated, telegram, Outside
<1>8. Grows
  BY <1>2, <1>5, <1>7, InsideGrows
<1>9. /\ clock'[t]["corr"] = clock[t]["corr"]
      /\ clock'[t]["ticket_created"] = clock[t]["ticket_created"]
      /\ \A x \in Tickets \ {t} : clock'[x] = clock[x]
  BY <1>1, <1>6, TickClock DEF Sources, Tasks, Ids
<1>10. Reached(t)'
  BY <1>1, <1>2, <1>3, <1>5, <1>7, <1>8, <1>9, ReachedChanged
<1>11. \A x \in Tickets : Reached(x)'
  BY <1>1, <1>5, <1>7, <1>8, <1>9, <1>10, ReachedOthers
<1>12. NowSound(Header(m))
  BY <1>1, <1>3, <1>5 DEF NowSound, Header, Msg
<1>13. ASSUME NEW x \in Tickets, NEW k \in Kinds, IsOf(Header(m), x, k)
       PROVE  ~Begun(x, k) /\ Begun(x, k)'
  <2>1. x = t /\ k = "new"
    BY <1>13 DEF IsOf, Header, Msg, Kinds
  <2> QED
    BY <1>2, <2>1 DEF Begun
<1>14. /\ "topic_created" \in Tasks /\ Owe("topic_created", <<Header(m)>>)
       /\ bus' \subseteq bus /\ reading' = reading
  BY <1>1, ReceiveType DEF HandleTopicCreated, Tasks
<1> QED
  BY <1>7, <1>8, <1>11, <1>12, <1>13, <1>14, HandledOne

\* A step of core that leaves the rows, and owes at most what nobody owes once.
LEMMA RowsRest ==
  ASSUME IInv, Inside, processed \subseteq processed', db' = db
  PROVE  Grows
BY InsideGrows DEF RowLater

LEMMA OnceHeaderSent ==
  ASSUME IInv, NEW m \in bus, HandleHeaderMessageSent(m)
  PROVE  Once'
<1> DEFINE t == m.ticket
           r == [db[t] EXCEPT !.header = m.id]
           n == Msg("ticket_created", t, 0, 0, "none")
<1>1. /\ TypeOK /\ t \in Tickets /\ db[t] \in Row /\ db[t].status # "none"
      /\ Reached(t) /\ m.n = 1 /\ m.id = 1 /\ m.type = "message_sent"
      /\ m.corr = db[t].corr /\ clock[t]["post"] # 0
  BY EntrySound, TakenType DEF HandleHeaderMessageSent, Sound, Receive
<1>2. /\ <<"message_sent", t, 1>> \notin processed
      /\ processed' = processed \cup {<<"message_sent", t, 1>>}
  BY <1>1 DEF HandleHeaderMessageSent, Seen, Mark, EventId
<1>3. bus' \subseteq bus /\ reading' = reading
  BY <1>1, ReceiveType DEF HandleHeaderMessageSent
<1>4. CASE db[t].topic = 0
  <2>1. db' = db /\ todo' = todo /\ clock' = clock /\ topics' = topics /\ posts' = posts
    BY <1>4 DEF HandleHeaderMessageSent, telegram
  <2>2. Inside
    BY <2>1 DEF Inside
  <2>3. Grows
    BY <1>2, <2>1, <2>2, RowsRest
  <2> QED
    BY <1>3, <2>1, <2>2, <2>3, ReachedIdle, NothingOwed
<1>5. CASE db[t].topic # 0
  <2>1. /\ r \in Row /\ r.status = db[t].status /\ r.corr = db[t].corr /\ r.header = 1
        /\ r.topic = db[t].topic /\ r.inbox_msg = db[t].inbox_msg
    BY <1>1, AttachType DEF Row
  <2>2. db' = [db EXCEPT ![t] = r]
    BY <1>5 DEF HandleHeaderMessageSent, WithHeader
  <2>3. /\ db'[t] = r
        /\ \A x \in Tickets \ {t} : db'[x] = db[x]
        /\ \A x \in Tickets : RowLater(x)
    BY <1>1, <2>1, <2>2, RowChanged
  <2>4. Tick(t, {"ticket_created"})
    BY <1>5 DEF HandleHeaderMessageSent
  <2>5. Inside
    BY <1>1, <2>4, TickInside DEF HandleHeaderMessageSent, telegram, Outside
  <2>6. Grows
    BY <1>2, <2>3, <2>5, InsideGrows
  <2>7. /\ clock'[t]["corr"] = clock[t]["corr"]
        /\ \A x \in Tickets \ {t} : clock'[x] = clock[x]
    BY <1>1, <2>4, TickClock DEF Sources, Ids
  <2>8. Reached(t)'
    BY <1>1, <1>2, <2>1, <2>3, <2>5, <2>6, <2>7, ReachedChanged
  <2>9. \A x \in Tickets : Reached(x)'
    BY <1>1, <2>3, <2>5, <2>6, <2>7, <2>8, ReachedOthers
  <2>10. NowSound(n)
    <3>1. n.n = 1
      BY <1>1, <1>2 DEF Reached, Msg, Fresh
    <3> QED
      BY <3>1 DEF NowSound, Msg
  <2>11. \A x \in Tickets, k \in Kinds : ~IsOf(n, x, k)
    BY DEF IsOf, Msg
  <2>12. "message_sent" \in Tasks /\ Owe("message_sent", <<n>>)
    BY <1>5 DEF HandleHeaderMessageSent, Tasks
  <2> HIDE DEF n
  <2> QED
    BY <1>3, <2>5, <2>6, <2>9, <2>10, <2>11, <2>12, HandledOne
<1> QED
  BY <1>4, <1>5

LEMMA OnceIncomingCard ==
  ASSUME IInv, NEW m \in bus, PublishIncomingCard(m)
  PROVE  Once'
<1> DEFINE t == m.ticket
           corr == Fresh(t, "corr")
           r == [db[t] EXCEPT !.inbox_corr = corr]
           n == Msg("send_message", t, corr, 0, "offer")
<1>1. /\ TypeOK /\ t \in Tickets /\ db[t] \in Row /\ db[t].status # "none"
      /\ Reached(t) /\ m.n = 1 /\ m.type = "ticket_created"
  BY EntrySound, TakenType DEF PublishIncomingCard, Sound, Receive
<1>2. /\ <<"ticket_created", t, 1>> \notin processed
      /\ processed' = processed \cup {<<"ticket_created", t, 1>>}
  BY <1>1 DEF PublishIncomingCard, Seen, Mark, EventId
<1>3. bus' \subseteq bus /\ reading' = reading
  BY <1>1, ReceiveType DEF PublishIncomingCard
<1>4. CASE ~(TeamGroupConfigured /\ db[t].topic # 0)
  <2>1. db' = db /\ todo' = todo /\ clock' = clock /\ topics' = topics /\ posts' = posts
    BY <1>4 DEF PublishIncomingCard, telegram
  <2>2. Inside
    BY <2>1 DEF Inside
  <2>3. Grows
    BY <1>2, <2>1, <2>2, RowsRest
  <2> QED
    BY <1>3, <2>1, <2>2, <2>3, ReachedIdle, NothingOwed
<1>5. CASE TeamGroupConfigured /\ db[t].topic # 0
  <2>0. corr = clock[t]["corr"] + 1 /\ clock[t]["corr"] \in Nat /\ corr \in Nat
    BY <1>1 DEF TypeOK, Fresh, Sources, Ids
  <2>1. /\ r \in Row /\ r.status = db[t].status /\ r.corr = db[t].corr
        /\ r.header = db[t].header /\ r.topic = db[t].topic
        /\ r.inbox_msg = db[t].inbox_msg
    <3> HIDE DEF corr
    <3> QED
      BY <1>1, <2>0, AttachType DEF Row
  <2>2. db' = [db EXCEPT ![t] = r]
    BY <1>5 DEF PublishIncomingCard
  <2>3. /\ db'[t] = r
        /\ \A x \in Tickets \ {t} : db'[x] = db[x]
        /\ \A x \in Tickets : RowLater(x)
    <3> HIDE DEF r
    <3> QED
      BY <1>1, <2>1, <2>2, RowChanged
  <2>4. Tick(t, {"corr", "send_message"})
    BY <1>5 DEF PublishIncomingCard
  <2>5. Inside
    BY <1>1, <2>4, TickInside DEF PublishIncomingCard, telegram, Outside
  <2>6. Grows
    BY <1>2, <2>3, <2>5, InsideGrows
  <2>7. /\ clock'[t]["corr"] = clock[t]["corr"] + 1
        /\ clock'[t]["ticket_created"] = clock[t]["ticket_created"]
        /\ \A x \in Tickets \ {t} : clock'[x] = clock[x]
    BY <1>1, <2>4, TickClock DEF Sources, Tasks, Ids
  <2>8. Reached(t)'
    <3> HIDE DEF r
    <3> QED
      BY <1>1, <1>2, <2>1, <2>3, <2>5, <2>6, <2>7, ReachedChanged
  <2>9. \A x \in Tickets : Reached(x)'
    BY <1>1, <2>3, <2>5, <2>6, <2>7, <2>8, ReachedOthers
  <2>10. NowSound(n)
    <3>1. corr # 0 /\ corr # db[t].corr
      BY <1>1, <2>0 DEF Reached, Row
    <3>2. db'[t].corr = db[t].corr
      BY <2>1, <2>3
    <3> HIDE DEF corr
    <3> QED
      BY <3>1, <3>2 DEF NowSound, Msg
  <2>11. ASSUME NEW x \in Tickets, NEW k \in Kinds, IsOf(n, x, k)
         PROVE  ~Begun(x, k) /\ Begun(x, k)'
    <3>1. x = t /\ k = "offer"
      BY <2>11 DEF IsOf, Msg, Kinds
    <3> QED
      BY <1>2, <3>1 DEF Begun
  <2>12. "ticket_created" \in Tasks /\ Owe("ticket_created", <<n>>)
    BY <1>5 DEF PublishIncomingCard, Tasks
  <2> HIDE DEF n
  <2> QED
    BY <1>3, <2>5, <2>6, <2>9, <2>10, <2>11, <2>12, HandledOne
<1> QED
  BY <1>4, <1>5

LEMMA OnceAttachCard ==
  ASSUME IInv, NEW m \in bus, AttachIncomingMessageId(m)
  PROVE  Once'
<1> DEFINE t == m.ticket
           r == [db[t] EXCEPT !.inbox_msg = m.id]
<1>1. /\ TypeOK /\ t \in Tickets /\ db[t] \in Row /\ db[t].status # "none"
      /\ Reached(t) /\ m.n = 2 /\ CardPost(t, m.id) /\ m.id \in Nat
      /\ m.type = "message_sent"
  <2>1. /\ Receive("message_sent", m) /\ m.type = "message_sent" /\ "message_sent" \in Tasks
        /\ m.corr # db[t].corr
    BY DEF AttachIncomingMessageId, Receive, Tasks
  <2>2. /\ TypeOK /\ t \in Tickets /\ db[t] \in Row /\ db[t].status # "none"
        /\ Reached(t) /\ Sound(m)
    BY EntrySound
  <2>3. m.id \in Nat
    BY <2>1, <2>2, TakenType
  <2>4. m.n = 2 /\ CardPost(t, m.id)
    BY <2>1, <2>2 DEF Sound
  <2> QED
    BY <2>1, <2>2, <2>3, <2>4
<1>2. /\ bus' \subseteq bus /\ reading' = reading /\ todo' = todo /\ clock' = clock
      /\ topics' = topics /\ posts' = posts
  BY <1>1, ReceiveType DEF AttachIncomingMessageId, telegram
<1>3. Inside
  BY <1>2 DEF Inside
<1>4. CASE m.corr # db[t].inbox_corr
  <2>1. db' = db /\ processed' = processed
    BY <1>4 DEF AttachIncomingMessageId
  <2>2. Grows
    BY <1>3, <2>1, RowsRest
  <2> QED
    BY <1>2, <1>3, <2>1, <2>2, ReachedIdle, NothingOwed
<1>5. CASE m.corr = db[t].inbox_corr
  <2>1. /\ r \in Row /\ r.status = db[t].status /\ r.corr = db[t].corr
        /\ r.header = db[t].header /\ r.topic = db[t].topic /\ r.inbox_msg = m.id
    BY <1>1, AttachType DEF Row
  <2>2. db' = [db EXCEPT ![t] = r]
    BY <1>5 DEF AttachIncomingMessageId
  <2>3. processed' = processed \cup {<<"message_sent", t, 2>>}
    BY <1>1, <1>5 DEF AttachIncomingMessageId, Mark, EventId
  <2>4. /\ db'[t] = r
        /\ \A x \in Tickets \ {t} : db'[x] = db[x]
        /\ \A x \in Tickets : RowLater(x)
    BY <1>1, <2>1, <2>2, RowChanged
  <2>5. Grows
    BY <1>3, <2>3, <2>4, InsideGrows
  <2>6. NowCard(t, m.id)
    BY <1>1, <2>5 DEF Grows
  <2>7. Reached(t)'
    <3> HIDE DEF r
    <3> QED
      BY <1>1, <1>2, <1>3, <2>1, <2>3, <2>4, <2>5, <2>6, ReachedChanged
  <2>8. \A x \in Tickets : Reached(x)'
    BY <1>1, <1>2, <1>3, <2>4, <2>5, <2>7, ReachedOthers
  <2> QED
    BY <1>2, <1>3, <2>5, <2>8, NothingOwed
<1> QED
  BY <1>4, <1>5

LEMMA OnceUpdateCard ==
  ASSUME IInv, NEW m \in bus, UpdateIncomingAfterAssign(m)
  PROVE  Once'
<1> DEFINE t == m.ticket
           n == Msg("edit_message_text", t, 0, db[t].inbox_msg, "taken")
<1>1. TypeOK /\ t \in Tickets /\ Reached(t)
  BY EntrySound
<1>2. /\ bus' \subseteq bus /\ reading' = reading /\ db' = db
      /\ topics' = topics /\ posts' = posts /\ processed \subseteq processed'
  BY <1>1, ReceiveType DEF UpdateIncomingAfterAssign, telegram, Mark
<1>3. CASE ~CardKnown(db[t])
  <2>1. todo' = todo /\ clock' = clock
    BY <1>3 DEF UpdateIncomingAfterAssign
  <2>2. Inside
    BY <1>2, <2>1 DEF Inside
  <2>3. Grows
    BY <1>2, <2>2, RowsRest
  <2> QED
    BY <1>2, <2>1, <2>2, <2>3, ReachedIdle, NothingOwed
<1>4. CASE CardKnown(db[t])
  <2>1. Tick(t, {"edit_message_text"})
    BY <1>4 DEF UpdateIncomingAfterAssign
  <2>2. Inside
    BY <1>1, <1>2, <2>1, TickInside DEF Outside
  <2>3. Grows
    BY <1>2, <2>2, RowsRest
  <2>4. \A x \in Tickets : /\ clock'[x]["ticket_created"] = clock[x]["ticket_created"]
                           /\ clock'[x]["corr"] = clock[x]["corr"]
    BY <1>1, <2>1, TickClock DEF Sources, Tasks, Ids
  <2>5. \A x \in Tickets : Reached(x)'
    BY <1>2, <2>2, <2>3, <2>4, ReachedIdle
  <2>6. NowSound(n)
    <3>1. CardPost(t, db[t].inbox_msg)
      BY <1>1, <1>4 DEF Reached, CardKnown
    <3>2. NowCard(t, db[t].inbox_msg)
      BY <1>1, <2>3, <3>1 DEF Grows
    <3> QED
      BY <3>2 DEF NowSound, Msg
  <2>7. \A x \in Tickets, k \in Kinds : ~IsOf(n, x, k)
    BY DEF IsOf, Msg
  <2>8. "ticket_assigned" \in Tasks /\ Owe("ticket_assigned", <<n>>)
    BY <1>4 DEF UpdateIncomingAfterAssign, Tasks
  <2> HIDE DEF n
  <2> QED
    BY <1>2, <2>2, <2>3, <2>5, <2>6, <2>7, <2>8, HandledOne
<1> QED
  BY <1>3, <1>4

\* Steps of core that leave rows and clocks.
LEMMA QuietOnce ==
  ASSUME IInv, db' = db, clock' = clock, topics' = topics, posts' = posts,
         processed \subseteq processed',
         todo' = todo \/ todo' = [h \in Tasks |-> << >>], bus' \subseteq bus,
         \A r \in reading' \ reading : r.row.header \in {0, 1}
  PROVE  Once'
<1>1. Inside
  BY DEF Inside
<1>2. Grows
  BY <1>1, RowsRest
<1> QED
  BY <1>1, <1>2, ReachedIdle, NothingOwed

LEMMA OnceCallbackRead ==
  ASSUME IInv, NEW m \in bus, CallbackRead(m)
  PROVE  Once'
<1>1. TypeOK /\ Reached(m.ticket)
  BY EntrySound
<1>2. db[m.ticket].header \in {0, 1}
  BY <1>1 DEF Reached
<1>3. \A r \in reading' \ reading : r.row.header \in {0, 1}
  BY <1>2 DEF CallbackRead
<1> QED
  BY <1>1, <1>3, ReceiveType, QuietOnce DEF CallbackRead, telegram

LEMMA OnceSpent ==
  ASSUME IInv, NEW h \in Tasks, NEW m \in bus, AlreadyProcessed(h, m)
  PROVE  Once'
<1>1. TypeOK
  BY EntrySound
<1> QED
  BY <1>1, ReceiveType, QuietOnce DEF AlreadyProcessed, telegram

LEMMA OnceCrash ==
  ASSUME IInv, Crash
  PROVE  Once'
BY QuietOnce DEF Crash, telegram

LEMMA OnceRefuse ==
  ASSUME IInv, NEW m \in bus, TelegramRefuses(m)
  PROVE  Once'
BY QuietOnce DEF TelegramRefuses, core, telegram

LEMMA OncePress ==
  ASSUME IInv, NEW p \in posts, NEW b \in Buttons, NEW user \in People,
         NEW target \in Executors \cup {Nobody}, PressButton(p, b, user, target)
  PROVE  Once'
<1> DEFINE m == [type |-> "callback", ticket |-> p.ticket,
                 n |-> Fresh(p.ticket, "callback"),
                 user |-> user, data |-> b, target |-> target]
<1>1. TypeOK /\ p.ticket \in Tickets
  BY DEF IInv, RowInv, TypeOK
<1>2. Tick(p.ticket, {"callback"}) /\ topics' = topics /\ posts' = posts
      /\ db' = db /\ processed' = processed /\ todo' = todo /\ reading' = reading
  BY DEF PressButton, core, telegram
<1>3. Inside
  BY <1>1, <1>2, TickInside DEF Outside
<1>4. Grows
  BY <1>2, <1>3, RowsRest
<1>5. \A x \in Tickets : /\ clock'[x]["ticket_created"] = clock[x]["ticket_created"]
                         /\ clock'[x]["corr"] = clock[x]["corr"]
  BY <1>1, <1>2, TickClock DEF Sources, Tasks, Ids
<1>6. \A x \in Tickets : Reached(x)'
  BY <1>2, <1>3, <1>4, <1>5, ReachedIdle
<1>7. bus' = bus \cup {m} /\ m.type = "callback"
  BY DEF PressButton
<1> HIDE DEF m
<1> QED
  BY <1>2, <1>3, <1>4, <1>6, <1>7, NothingOwed

LEMMA OncePublish ==
  ASSUME IInv, NEW h \in Tasks, Publish(h)
  PROVE  Once'
<1> DEFINE s == todo[h]
<1>1. TypeOK /\ s \in Seq(Message) /\ s # << >> /\ todo \in [Tasks -> Seq(Message)]
  BY DEF IInv, RowInv, TypeOK, Publish
<1>2. /\ db' = db /\ clock' = clock /\ processed' = processed /\ topics' = topics
      /\ posts' = posts /\ reading' = reading
  BY DEF Publish, telegram
<1>3. Inside
  BY <1>2 DEF Inside
<1>4. Grows
  BY <1>2, <1>3, RowsRest
<1>5. \A i \in DOMAIN s : NowSound(s[i])
  BY <1>4, OldSound
<1>6. /\ Head(s) = s[1] /\ 1 \in DOMAIN s
      /\ \A i \in DOMAIN Tail(s) : i + 1 \in DOMAIN s /\ Tail(s)[i] = s[i + 1]
  BY <1>1, HeadTailProperties
<1>7. NowSound(Head(s)) /\ \A i \in DOMAIN Tail(s) : NowSound(Tail(s)[i])
  BY <1>5, <1>6
<1>8. \A m \in bus' \ bus : NowSound(m)
  BY <1>7 DEF Publish
<1>9. todo'[h] = Tail(s) /\ \A x \in Tasks \ {h} : todo'[x] = todo[x]
  BY <1>1 DEF Publish
<1>10. \A x \in Tasks : \/ todo'[x] = todo[x]
                        \/ \A i \in DOMAIN todo'[x] : NowSound(todo'[x][i])
  BY <1>7, <1>9
<1>11. AllSound'
  BY <1>2, <1>4, <1>8, <1>10, NewSound
<1>12. \A t \in Tickets : Reached(t)' /\ Shown(t)'
  BY <1>2, <1>3, <1>4, ReachedIdle, InsideShown DEF IInv, Once
<1> QED
  BY <1>11, <1>12, OnePlacePublish DEF Once

-----------------------------------------------------------------------------
(* What the callback task decides.                                         *)

\* The row of a press exists, and has the header its transaction has read.
LEMMA PressRow ==
  ASSUME IInv, NEW r \in reading
  PROVE  /\ TypeOK /\ r.msg.ticket \in Tickets /\ db[r.msg.ticket] \in Row
         /\ db[r.msg.ticket].status # "none"
         /\ db[r.msg.ticket].status = r.row.status
         /\ r.row.status \in {"none", "new", "in_progress", "closed"}
         /\ r.row.header \in {0, 1}
<1>1. RowInv /\ AllSound /\ TypeOK /\ AllGrounded
  BY DEF IInv, RowInv, Once
<1>2. r.msg.ticket \in Tickets /\ db[r.msg.ticket] \in Row
      /\ db[r.msg.ticket].status = r.row.status
  BY <1>1, SnapshotFacts
<1>3. db[r.msg.ticket].status # "none"
  BY <1>1 DEF AllGrounded, Grounded
<1>4. db[r.msg.ticket].status \in {"none", "new", "in_progress", "closed"}
  BY <1>2 DEF Row
<1> QED
  BY <1>1, <1>2, <1>3, <1>4 DEF AllSound

\* The clocks that decisions tick.
Decided == {"edit_forum_topic", "edit_message_text", "close_forum_topic",
            "send_message", "ticket_assigned", "ticket_closed"}

LEMMA CommitOnce ==
  ASSUME IInv, NEW r \in reading, NEW msgs, CallbackCommit(r, msgs),
         \A i \in DOMAIN msgs : msgs[i].type \in Decided,
         \A x \in Tickets : RowLater(x),
         \A x \in Tickets \ {r.msg.ticket} : db'[x] = db[x],
         db'[r.msg.ticket].topic = db[r.msg.ticket].topic,
         db'[r.msg.ticket].header = db[r.msg.ticket].header,
         db'[r.msg.ticket].inbox_msg = db[r.msg.ticket].inbox_msg,
         Grows => \A i \in DOMAIN msgs : NowSound(msgs[i]),
         \A t \in Tickets, k \in Kinds : \A i, j \in DOMAIN msgs :
           IsOf(msgs[i], t, k) /\ IsOf(msgs[j], t, k) => i = j,
         \A t \in Tickets, k \in Kinds : \A i \in DOMAIN msgs :
           IsOf(msgs[i], t, k) => ~Begun(t, k) /\ Begun(t, k)'
  PROVE  Once'
<1> DEFINE t == r.msg.ticket
           S == {msgs[i].type : i \in DOMAIN msgs}
<1>1. TypeOK /\ t \in Tickets /\ db[t].status # "none"
  BY PressRow
<1>2. /\ Tick(t, S) /\ Owe("callback", msgs) /\ reading' \subseteq reading
      /\ bus' = bus /\ topics' = topics /\ posts' = posts /\ processed \subseteq processed'
  BY DEF CallbackCommit, telegram, Mark
<1>3. S \subseteq Decided
  OBVIOUS
<1>4. S \cap Outside = {} /\ "ticket_created" \notin S /\ "corr" \notin S
  BY <1>3 DEF Decided, Outside
<1> HIDE DEF S
<1>5. Inside
  BY <1>1, <1>2, <1>4, TickInside
<1>6. Grows
  BY <1>2, <1>5, InsideGrows
<1>7. /\ clock'[t]["corr"] = clock[t]["corr"]
      /\ clock'[t]["ticket_created"] = clock[t]["ticket_created"]
      /\ \A x \in Tickets \ {t} : clock'[x] = clock[x]
  BY <1>1, <1>2, <1>4, TickClock DEF Sources, Tasks, Ids
<1>8. db'[t].corr = db[t].corr
  BY <1>1 DEF RowLater
<1>9. Reached(t)'
  BY <1>1, <1>5, <1>6, <1>7, <1>8, ReachedChanged
<1>10. \A x \in Tickets : Reached(x)'
  BY <1>1, <1>5, <1>6, <1>7, <1>9, ReachedOthers
<1>11. "callback" \in Tasks
  BY DEF Tasks
<1> QED
  BY <1>2, <1>5, <1>6, <1>10, <1>11, HandledOnce

LEMMA OnceRefused ==
  ASSUME IInv, NEW r \in reading, Refused(r)
  PROVE  Once'
<1>1. CallbackCommit(r, << >>) /\ db' = db
  BY DEF Refused
<1>2. DOMAIN << >> = {}
  OBVIOUS
<1> QED
  BY <1>1, <1>2, CommitOnce DEF RowLater

LEMMA OnceAskClose ==
  ASSUME IInv, NEW r \in reading, ConfirmOrCancel(r)
  PROVE  Once'
<1> DEFINE view == IF r.msg.data = "close" THEN "confirm" ELSE r.row.status
           m == Msg("edit_message_text", r.msg.ticket, 0, r.row.header, view)
<1>1. CallbackCommit(r, <<m>>) /\ db' = db
  BY DEF ConfirmOrCancel
<1>2. view \in HeaderViews /\ r.row.header = 1
  BY PressRow DEF ConfirmOrCancel, CanClose, HeaderViews
<1>3. /\ NowSound(m) /\ m.type = "edit_message_text"
      /\ \A t, k : ~IsOf(m, t, k)
  <2> HIDE DEF view
  <2> QED
    BY <1>2 DEF NowSound, Msg, IsOf
<1> HIDE DEF m
<1>4. \A i \in DOMAIN <<m>> : <<m>>[i] = m
  OBVIOUS
<1> QED
  BY <1>1, <1>3, <1>4, CommitOnce DEF RowLater, Decided

LEMMA OnceAssign ==
  ASSUME IInv, NEW r \in reading, AssignTicket(r)
  PROVE  Once'
<1> DEFINE t == r.msg.ticket
           e == r.msg.target
           row == [db[t] EXCEPT !.assignee = e, !.status = "in_progress"]
           a == Msg("edit_forum_topic", t, 0, r.row.topic, "in_progress")
           b == Msg("edit_message_text", t, 0, r.row.header, "in_progress")
           c == Msg("ticket_assigned", t, 0, 0, "none")
           icon == IF r.row.topic = 0 THEN << >> ELSE <<a>>
           header == IF r.row.topic = 0 \/ r.row.header = 0 THEN << >> ELSE <<b>>
           msgs == icon \o header \o <<c>>
<1>1. /\ TypeOK /\ t \in Tickets /\ db[t] \in Row /\ db[t].status = "new"
      /\ r.row.header \in {0, 1} /\ e \in Executors
  BY PressRow, PeopleAssumption DEF AssignTicket, CanAssign
<1>2. /\ row \in Row /\ row.status = "in_progress" /\ row.corr = db[t].corr
      /\ row.topic = db[t].topic /\ row.header = db[t].header
      /\ row.inbox_msg = db[t].inbox_msg
  BY <1>1, TakenRowType DEF Row
<1>3. db' = [db EXCEPT ![t] = row]
  <2>1. db \in [Tickets -> Row]
    BY <1>1 DEF TypeOK
  <2>2. db' = [db EXCEPT ![t].assignee = e, ![t].status = "in_progress"]
    BY DEF AssignTicket
  <2> QED
    BY <1>1, <2>1, <2>2
<1> HIDE DEF row
<1>4. /\ db'[t] = row
      /\ \A x \in Tickets \ {t} : db'[x] = db[x]
      /\ \A x \in Tickets : RowLater(x)
  BY <1>1, <1>2, <1>3, RowChanged
<1>5. CallbackCommit(r, msgs)
  BY DEF AssignTicket
<1>6. NowSound(a) /\ NowSound(c) /\ (r.row.header # 0 => NowSound(b))
  BY <1>1 DEF NowSound, Msg, HeaderViews
<1>7. /\ a.type = "edit_forum_topic" /\ b.type = "edit_message_text"
      /\ c.type = "ticket_assigned"
      /\ \A x, k : ~IsOf(a, x, k) /\ ~IsOf(b, x, k) /\ ~IsOf(c, x, k)
  BY DEF Msg, IsOf
<1> HIDE DEF a, b, c
<1>8. \A i \in DOMAIN msgs : \/ msgs[i] = a \/ msgs[i] = c
                             \/ msgs[i] = b /\ r.row.header # 0
  OBVIOUS
<1> HIDE DEF msgs
<1>9. /\ \A i \in DOMAIN msgs : msgs[i].type \in Decided /\ NowSound(msgs[i])
      /\ \A x, k : \A i \in DOMAIN msgs : ~IsOf(msgs[i], x, k)
  BY <1>6, <1>7, <1>8 DEF Decided
<1> QED
  BY <1>1, <1>2, <1>4, <1>5, <1>9, CommitOnce

LEMMA OnceClose ==
  ASSUME IInv, NEW r \in reading, CommitClose(r)
  PROVE  Once'
<1> DEFINE t == r.msg.ticket
           p == r.msg.user
           row == [db[t] EXCEPT !.status = "closed", !.closer = p]
           a == Msg("edit_forum_topic", t, 0, r.row.topic, "closed")
           b == Msg("send_message", t, 0, r.row.topic, "thanks")
           c == Msg("edit_message_text", t, 0, r.row.header, "closed")
           d == Msg("close_forum_topic", t, 0, r.row.topic, "none")
           e == Msg("ticket_closed", t, 0, 0, "none")
           msgs == <<a, b, c, d, e>>
<1>1. /\ TypeOK /\ t \in Tickets /\ db[t] \in Row
      /\ db[t].status \notin {"none", "closed"} /\ r.row.header = 1
  BY PressRow DEF CommitClose, CanClose
<1>2. /\ row \in Row /\ row.status = "closed" /\ row.corr = db[t].corr
      /\ row.topic = db[t].topic /\ row.header = db[t].header
      /\ row.inbox_msg = db[t].inbox_msg
  <2>1. p \in People
    BY <1>1 DEF TypeOK, Press
  <2> QED
    BY <1>1, <2>1, ClosedRowType DEF Row
<1>3. db' = [db EXCEPT ![t] = row]
  <2>1. db \in [Tickets -> Row]
    BY <1>1 DEF TypeOK
  <2>2. db' = [db EXCEPT ![t].status = "closed", ![t].closer = p]
    BY DEF CommitClose
  <2> QED
    BY <1>1, <2>1, <2>2
<1> HIDE DEF row
<1>4. /\ db'[t] = row
      /\ \A x \in Tickets \ {t} : db'[x] = db[x]
      /\ \A x \in Tickets : RowLater(x)
  BY <1>1, <1>2, <1>3, RowChanged
<1>5. CallbackCommit(r, msgs)
  BY DEF CommitClose, ClosingMessages
<1>6. NowSound(a) /\ NowSound(b) /\ NowSound(c) /\ NowSound(d) /\ NowSound(e)
  BY <1>1 DEF NowSound, Msg, HeaderViews
<1>7. /\ a.type \in Decided /\ b.type \in Decided /\ c.type \in Decided
      /\ d.type \in Decided /\ e.type \in Decided
      /\ \A x, k : ~IsOf(a, x, k) /\ ~IsOf(c, x, k) /\ ~IsOf(d, x, k) /\ ~IsOf(e, x, k)
  BY DEF Msg, IsOf, Decided
<1>8. ASSUME NEW x \in Tickets, NEW k \in Kinds, IsOf(b, x, k)
      PROVE  ~Begun(x, k) /\ Begun(x, k)'
  <2>1. x = t /\ k = "thanks"
    BY <1>8 DEF IsOf, Msg, Kinds
  <2> QED
    BY <1>1, <1>2, <1>4, <2>1 DEF Begun
<1> HIDE DEF a, b, c, d, e
<1>9. \A i \in DOMAIN msgs : \/ i = 2 /\ msgs[i] = b
                             \/ msgs[i] = a \/ msgs[i] = c \/ msgs[i] = d \/ msgs[i] = e
  OBVIOUS
<1> HIDE DEF msgs
<1>10. /\ \A i \in DOMAIN msgs : msgs[i].type \in Decided /\ NowSound(msgs[i])
       /\ \A x, k : \A i \in DOMAIN msgs : IsOf(msgs[i], x, k) => i = 2 /\ IsOf(b, x, k)
  BY <1>6, <1>7, <1>9
<1> QED
  BY <1>1, <1>2, <1>4, <1>5, <1>8, <1>10, CommitOnce

-----------------------------------------------------------------------------
(* What gateway-tg carries out.                                            *)

\* Carrying m out leaves core alone, and finishes m's own task only.
LEMMA CarriedOnce ==
  ASSUME IInv, NEW m \in bus,
         db' = db, processed' = processed, todo' = todo, reading' = reading, Grows,
         \A o \in bus' : \/ o \in bus \ {m}
                         \/ NowSound(o) /\ \A t \in Tickets, k \in Kinds : ~IsOf(o, t, k),
         \A t \in Tickets : Reached(t)' /\ Shown(t)',
         \A t \in Tickets, k \in Kinds : Done(t, k)' => Done(t, k) \/ IsOf(m, t, k)
  PROVE  Once'
<1>1. AllSound'
  BY NewSound
<1>2. ASSUME NEW t \in Tickets, NEW k \in Kinds
      PROVE  OnePlace(t, k)'
  <2>1. OnePlace(t, k)
    BY DEF IInv, Once
  <2>2. Begun(t, k)' <=> Begun(t, k)
    BY DEF Begun
  <2>3. \A o \in bus' : IsOf(o, t, k) => o \in bus /\ o # m
    OBVIOUS
  <2>4. Done(t, k)' => Done(t, k) \/ IsOf(m, t, k)
    OBVIOUS
  <2>5. \A o \in bus' : IsOf(o, t, k) => Begun(t, k)' /\ ~Done(t, k)'
    BY <2>1, <2>2, <2>3, <2>4 DEF OnePlace
  <2>6. \A h \in Tasks : \A i \in DOMAIN todo[h] :
          IsOf(todo[h][i], t, k) => Begun(t, k)' /\ ~Done(t, k)'
    BY <2>1, <2>2, <2>4 DEF OnePlace
  <2>7. Done(t, k)' => Begun(t, k)'
    BY <2>1, <2>2, <2>4 DEF OnePlace
  <2> HIDE DEF Begun, Done, IsOf
  <2> QED
    BY <2>1, <2>3, <2>5, <2>6, <2>7 DEF OnePlace
<1> QED
  BY <1>1, <1>2 DEF Once

LEMMA CarriedBus ==
  ASSUME NEW m, NEW acks, Executed(m, acks)
  PROVE  bus' \subseteq (bus \ {m}) \cup acks
BY DEF Executed

LEMMA OnceCreateTopic ==
  ASSUME IInv, NEW m \in bus, CreateForumTopic(m)
  PROVE  Once'
<1> DEFINE t == m.ticket
           id == Fresh(t, "topic")
           ack == Msg("topic_created", t, m.corr, id, "none")
           f == [ticket |-> t, id |-> id, icon |-> "new", closed |-> FALSE]
<1>1. /\ TypeOK /\ t \in Tickets /\ Reached(t) /\ Shown(t) /\ OnePlace(t, "topic")
      /\ clock \in [Tickets -> [Sources -> Nat]]
  BY EntrySound DEF IInv, Once, Kinds, TypeOK
<1>2. IsOf(m, t, "topic")
  BY DEF CreateForumTopic, IsOf
<1>3. clock[t]["topic"] = 0 /\ clock[t]["topic_created"] = 0
  BY <1>1, <1>2 DEF OnePlace, Done, Reached
<1>4. /\ Tick(t, {"topic", "topic_created"}) /\ topics' = topics \cup {f}
      /\ db' = db /\ processed' = processed /\ todo' = todo /\ reading' = reading
      /\ posts' = posts
  BY DEF CreateForumTopic, core
<1>5. /\ \A x \in Tickets : /\ clock'[x]["post"] = clock[x]["post"]
                            /\ clock'[x]["message_sent"] = clock[x]["message_sent"]
                            /\ clock'[x]["ticket_created"] = clock[x]["ticket_created"]
                            /\ clock'[x]["corr"] = clock[x]["corr"]
      /\ clock'[t]["topic"] = 1 /\ clock'[t]["topic_created"] = 1
      /\ \A x \in Tickets \ {t} : clock'[x] = clock[x]
  BY <1>1, <1>3, <1>4, TickClock DEF Sources, Tasks, Ids
<1>6. Grows
  BY <1>4, <1>5 DEF Grows, RowLater, CardPost, NowCard
<1>7. ack.n = 1 /\ ack.type = "topic_created"
  BY <1>3 DEF Msg, Fresh
<1>8. NowSound(ack) /\ \A x \in Tickets, k \in Kinds : ~IsOf(ack, x, k)
  BY <1>7 DEF NowSound, IsOf
<1>9. \A x \in Tickets \ {t} : Reached(x)'
  BY <1>1, <1>4, <1>5, <1>6, ReachedKept DEF IInv, Once
<1>10. Reached(t)'
  BY <1>1, <1>4, <1>5 DEF Reached, CardPost
<1>11. f.ticket = t
  OBVIOUS
<1> HIDE DEF f, ack, id
<1>12. ASSUME NEW x \in Tickets
       PROVE  Shown(x)'
  <2>1. Shown(x)
    BY DEF IInv, Once
  <2>2. CASE x = t
    <3>1. \A g \in topics' : g.ticket = t => g = f
      BY <1>1, <1>3, <1>4 DEF Shown
    <3> QED
      BY <1>4, <1>5, <2>1, <2>2, <3>1 DEF Shown
  <2>3. CASE x # t
    <3>1. \A g \in topics' : g.ticket = x => g \in topics
      BY <1>4, <1>11, <2>3
    <3> QED
      BY <1>4, <1>5, <2>1, <2>3, <3>1 DEF Shown
  <2> QED
    BY <2>2, <2>3
<1>13. ASSUME NEW x \in Tickets, NEW k \in Kinds, Done(x, k)'
       PROVE  Done(x, k) \/ IsOf(m, x, k)
  BY <1>2, <1>4, <1>5, <1>13 DEF Done
<1>14. bus' \subseteq (bus \ {m}) \cup {ack}
  BY CarriedBus DEF CreateForumTopic, ack, id
<1>15. \A o \in bus' : o \in bus \ {m} \/ o = ack
  BY <1>14
<1> QED
  BY <1>4, <1>6, <1>8, <1>9, <1>10, <1>12, <1>13, <1>15, CarriedOnce

LEMMA OnceEditTopic ==
  ASSUME IInv, NEW m \in bus, EditForumTopic(m) \/ CloseForumTopic(m)
  PROVE  Once'
<1>1. /\ db' = db /\ processed' = processed /\ todo' = todo /\ reading' = reading
      /\ posts' = posts /\ clock' = clock
  BY DEF EditForumTopic, CloseForumTopic, core
<1>2. bus' \subseteq bus \ {m}
  BY CarriedBus DEF EditForumTopic, CloseForumTopic
<1>3. Grows
  BY <1>1 DEF Grows, RowLater, CardPost, NowCard
<1>4. \A t \in Tickets : Reached(t)'
  BY <1>1 DEF IInv, Once, Reached, CardPost
<1>5. ASSUME NEW t \in Tickets
      PROVE  Shown(t)'
  <2>1. Shown(t)
    BY DEF IInv, Once
  <2>2. \A f \in topics : f \in [ticket : Tickets, id : Nat, icon : Views, closed : BOOLEAN]
    BY DEF IInv, RowInv, TypeOK
  <2>3. PICK E : topics' = {E[f] : f \in topics} /\ \A f \in topics : E[f].ticket = f.ticket
    <3>1. CASE EditForumTopic(m)
      <4> DEFINE E == [f \in topics |-> IF f.ticket = m.ticket /\ f.id = m.id
                                        THEN [f EXCEPT !.icon = m.view] ELSE f]
      <4>1. topics' = {E[f] : f \in topics}
        BY <3>1 DEF EditForumTopic
      <4>2. \A f \in topics : E[f].ticket = f.ticket
        BY <2>2
      <4> QED
        BY <4>1, <4>2
    <3>2. CASE CloseForumTopic(m)
      <4> DEFINE E == [f \in topics |-> IF f.ticket = m.ticket /\ f.id = m.id
                                        THEN [f EXCEPT !.closed = TRUE] ELSE f]
      <4>1. topics' = {E[f] : f \in topics}
        BY <3>2 DEF CloseForumTopic
      <4>2. \A f \in topics : E[f].ticket = f.ticket
        BY <2>2
      <4> QED
        BY <4>1, <4>2
    <3> QED
      BY <3>1, <3>2
  <2>4. \A f \in topics' : f.ticket = t => clock[t]["topic"] # 0
    BY <2>1, <2>3 DEF Shown
  <2>5. \A f, g \in topics' : f.ticket = t /\ g.ticket = t => f = g
    BY <2>1, <2>3 DEF Shown
  <2> QED
    BY <1>1, <2>1, <2>4, <2>5 DEF Shown
<1>6. \A t \in Tickets, k \in Kinds : Done(t, k)' => Done(t, k)
  BY <1>1 DEF Done
<1>7. \A o \in bus' : \/ o \in bus \ {m}
                      \/ NowSound(o) /\ \A t \in Tickets, k \in Kinds : ~IsOf(o, t, k)
  BY <1>2
<1>8. \A t \in Tickets : Reached(t)' /\ Shown(t)'
  BY <1>4, <1>5
<1>9. \A t \in Tickets, k \in Kinds : Done(t, k)' => Done(t, k) \/ IsOf(m, t, k)
  BY <1>6
<1> QED
  BY <1>1, <1>3, <1>7, <1>8, <1>9, CarriedOnce

\* What an edit makes of a post: another view of the same kind.
LEMMA EditedPost ==
  ASSUME IInv, NEW m \in bus, EditMessageText(m), NEW p \in posts
  PROVE  LET q == IF p.ticket = m.ticket /\ p.id = m.id THEN [p EXCEPT !.view = m.view] ELSE p IN
         /\ q \in posts' /\ q.ticket = p.ticket /\ q.id = p.id
         /\ q.view \in HeaderViews <=> p.view \in HeaderViews
         /\ q.view \in CardViews <=> p.view \in CardViews
         /\ q.view = "thanks" <=> p.view = "thanks"
<1> DEFINE t == m.ticket
           q == IF p.ticket = t /\ p.id = m.id THEN [p EXCEPT !.view = m.view] ELSE p
<1>1. t \in Tickets /\ Sound(m) /\ Shown(t)
  BY EntrySound DEF IInv, Once
<1>2. p \in [ticket : Tickets, id : Nat, view : Views]
  BY DEF IInv, RowInv, TypeOK
<1>3. q \in posts'
  BY DEF EditMessageText
<1>4. q.ticket = p.ticket /\ q.id = p.id
  BY <1>2
<1>5. CASE ~(p.ticket = t /\ p.id = m.id)
  BY <1>3, <1>4, <1>5
<1>6. CASE p.ticket = t /\ p.id = m.id
  <2>1. q.view = m.view
    BY <1>2, <1>6
  <2>2. \/ m.view \in HeaderViews /\ m.id = 1
        \/ m.view = "taken" /\ CardPost(t, m.id)
    BY <1>1 DEF EditMessageText, Sound
  <2>3. CASE m.view \in HeaderViews /\ m.id = 1
    <3>1. p.view \in HeaderViews
      BY <1>1, <1>6, <2>3 DEF Shown
    <3> QED
      BY <1>3, <1>4, <2>1, <2>3, <3>1 DEF HeaderViews, CardViews
  <2>4. CASE m.view = "taken" /\ CardPost(t, m.id)
    <3>1. p.view \in CardViews
      BY <1>1, <1>6, <2>4 DEF Shown, CardPost
    <3> QED
      BY <1>3, <1>4, <2>1, <2>4, <3>1 DEF HeaderViews, CardViews
  <2> QED
    BY <2>2, <2>3, <2>4
<1> QED
  BY <1>5, <1>6

LEMMA OnceEditMessage ==
  ASSUME IInv, NEW m \in bus, EditMessageText(m)
  PROVE  Once'
<1> DEFINE E(p) == IF p.ticket = m.ticket /\ p.id = m.id THEN [p EXCEPT !.view = m.view] ELSE p
<1>1. /\ db' = db /\ processed' = processed /\ todo' = todo /\ reading' = reading
      /\ topics' = topics /\ clock' = clock
  BY DEF EditMessageText, core
<1>2. bus' \subseteq bus \ {m}
  BY CarriedBus DEF EditMessageText
<1>3. posts' = {E(p) : p \in posts}
  BY DEF EditMessageText
<1>4. \A p \in posts :
        /\ E(p) \in posts' /\ E(p).ticket = p.ticket /\ E(p).id = p.id
        /\ E(p).view \in HeaderViews <=> p.view \in HeaderViews
        /\ E(p).view \in CardViews <=> p.view \in CardViews
        /\ E(p).view = "thanks" <=> p.view = "thanks"
  BY EditedPost
<1> HIDE DEF E
<1>5. Grows
  <2>1. \A t \in Tickets : \A id : CardPost(t, id) => NowCard(t, id)
    BY <1>4 DEF CardPost, NowCard
  <2> QED
    BY <1>1, <2>1 DEF Grows, RowLater
<1>6. ASSUME NEW t \in Tickets
      PROVE  Reached(t)'
  <2>1. TypeOK /\ Reached(t)
    BY DEF IInv, RowInv, Once
  <2> QED
    BY <1>1, <1>5, <2>1, ReachedKept
<1>7. ASSUME NEW t \in Tickets
      PROVE  Shown(t)'
  <2>1. Shown(t)
    BY DEF IInv, Once
  <2>2. ASSUME NEW p \in posts', p.ticket = t
        PROVE  /\ p.id \in 1..clock[t]["post"]
               /\ p.id = 1 <=> p.view \in HeaderViews
               /\ p.view \in CardViews => clock[t]["message_sent"] > 1
    <3>1. PICK a \in posts : p = E(a)
      BY <1>3
    <3> QED
      BY <1>4, <2>1, <2>2, <3>1 DEF Shown
  <2>3. ASSUME NEW p \in posts', NEW q \in posts', p.ticket = t, q.ticket = t
        PROVE  /\ p.id = q.id => p = q
               /\ p.view \in CardViews /\ q.view \in CardViews => p = q
               /\ p.view = "thanks" /\ q.view = "thanks" => p = q
    <3>1. PICK a \in posts : p = E(a)
      BY <1>3
    <3>2. PICK b \in posts : q = E(b)
      BY <1>3
    <3>3. a = b => p = q
      BY <3>1, <3>2
    <3>4. /\ a.id = b.id => a = b
          /\ a.view \in CardViews /\ b.view \in CardViews => a = b
          /\ a.view = "thanks" /\ b.view = "thanks" => a = b
      BY <1>4, <2>1, <2>3, <3>1, <3>2 DEF Shown
    <3> QED
      BY <1>4, <3>1, <3>2, <3>3, <3>4
  <2> QED
    BY <1>1, <2>1, <2>2, <2>3 DEF Shown
<1>8. ASSUME NEW t \in Tickets, NEW k \in Kinds, Done(t, k)'
      PROVE  Done(t, k)
  <2>1. (\E p \in posts' : p.ticket = t /\ p.view = "thanks")
          => \E p \in posts : p.ticket = t /\ p.view = "thanks"
    BY <1>3, <1>4
  <2> QED
    BY <1>1, <1>8, <2>1 DEF Done
<1> QED
  BY <1>1, <1>2, <1>5, <1>6, <1>7, <1>8, CarriedOnce

\* A message of core's finds its ticket as far as it needs: the header first,
\* then the card, and the farewell at any time after the header.
LEMMA SendFinds ==
  ASSUME IInv, NEW m \in bus, m.type = "send_message"
  PROVE  LET c == clock[m.ticket] IN
         /\ c["post"] \in Nat /\ c["message_sent"] \in Nat /\ m.corr \in Nat
         /\ \/ /\ m.view = "new" /\ m.corr # 0 /\ m.corr = db[m.ticket].corr
               /\ c["post"] = 0 /\ c["message_sent"] = 0
            \/ /\ m.view = "offer" /\ m.corr # 0 /\ m.corr # db[m.ticket].corr
               /\ c["post"] # 0 /\ c["message_sent"] = 1
            \/ /\ m.view = "thanks" /\ m.corr = 0
               /\ c["post"] # 0 /\ c["message_sent"] # 0
               /\ ~Done(m.ticket, "thanks")
<1> DEFINE t == m.ticket
<1>1. /\ TypeOK /\ t \in Tickets /\ db[t] \in Row /\ db[t].status # "none"
      /\ Reached(t) /\ Sound(m)
      /\ RowInv /\ \A k \in Kinds : OnePlace(t, k)
  BY EntrySound DEF IInv, Once
<1>2. clock[t]["post"] \in Nat /\ clock[t]["message_sent"] \in Nat
  BY <1>1 DEF TypeOK, Sources, Tasks, Ids
<1>3. m.corr \in Nat
  BY <1>1, EntryType
<1>4. db[t].corr # 0
  BY <1>1 DEF Reached, Row
<1>5. \A k \in Kinds : IsOf(m, t, k) => Begun(t, k) /\ ~Done(t, k)
  BY <1>1 DEF OnePlace
<1>6. CASE m.view = "new"
  <2>1. IsOf(m, t, "new") /\ "new" \in Kinds
    BY <1>6 DEF IsOf, Kinds
  <2>2. clock[t]["post"] = 0
    BY <1>5, <2>1 DEF Done
  <2> QED
    BY <1>1, <1>2, <1>3, <1>4, <1>6, <2>2 DEF Sound, Reached
<1>7. CASE m.view = "offer"
  <2>1. IsOf(m, t, "offer") /\ "offer" \in Kinds
    BY <1>7 DEF IsOf, Kinds
  <2>2. ~(clock[t]["message_sent"] > 1)
    BY <1>5, <2>1 DEF Done
  <2>3. db[t].header # 0
    BY <1>1, <1>7 DEF RowInv, AllGrounded, Grounded, AboutCard
  <2>4. clock[t]["post"] # 0 /\ clock[t]["message_sent"] # 0
    BY <1>1, <2>3 DEF Reached
  <2> QED
    BY <1>1, <1>2, <1>3, <1>7, <2>2, <2>4 DEF Sound
<1>8. CASE m.view = "thanks"
  <2>1. IsOf(m, t, "thanks") /\ "thanks" \in Kinds
    BY <1>8 DEF IsOf, Kinds
  <2>2. db[t].status = "closed" /\ ~Done(t, "thanks")
    BY <1>5, <2>1 DEF Begun
  <2>3. db[t].header # 0
    BY <1>1, <2>2 DEF RowInv, WorkedOnIsAttached
  <2>4. clock[t]["post"] # 0 /\ clock[t]["message_sent"] # 0
    BY <1>1, <2>3 DEF Reached
  <2> QED
    BY <1>1, <1>2, <1>3, <1>8, <2>2, <2>4 DEF Sound
<1>9. m.view \in {"new", "offer", "thanks"}
  BY <1>1 DEF Sound
<1> QED
  BY <1>6, <1>7, <1>8, <1>9

LEMMA OnceSendMessage ==
  ASSUME IInv, NEW m \in bus, SendMessage(m)
  PROVE  Once'
<1> DEFINE t == m.ticket
           id == Fresh(t, "post")
           ack == Msg("message_sent", t, m.corr, id, "none")
           p == [ticket |-> t, id |-> id, view |-> m.view]
           S == {"post"} \cup (IF m.corr = 0 THEN {} ELSE {"message_sent"})
           acks == IF m.corr = 0 THEN {} ELSE {ack}
           c == clock[t]
<1>1. /\ TypeOK /\ t \in Tickets /\ db[t].status # "none" /\ Reached(t) /\ Shown(t)
      /\ m.type = "send_message"
  BY EntrySound DEF IInv, Once, SendMessage
<1>2. /\ c["post"] \in Nat /\ c["message_sent"] \in Nat /\ m.corr \in Nat
      /\ \/ /\ m.view = "new" /\ m.corr # 0 /\ m.corr = db[t].corr
            /\ c["post"] = 0 /\ c["message_sent"] = 0
         \/ /\ m.view = "offer" /\ m.corr # 0 /\ m.corr # db[t].corr
            /\ c["post"] # 0 /\ c["message_sent"] = 1
         \/ /\ m.view = "thanks" /\ m.corr = 0
            /\ c["post"] # 0 /\ c["message_sent"] # 0
            /\ ~Done(t, "thanks")
  BY <1>1, SendFinds
<1>3. /\ Tick(t, S) /\ posts' = posts \cup {p} /\ topics' = topics
      /\ db' = db /\ processed' = processed /\ todo' = todo /\ reading' = reading
  BY DEF SendMessage, core
<1>4. /\ \A x \in Tickets : /\ clock'[x]["topic"] = clock[x]["topic"]
                            /\ clock'[x]["topic_created"] = clock[x]["topic_created"]
                            /\ clock'[x]["ticket_created"] = clock[x]["ticket_created"]
                            /\ clock'[x]["corr"] = clock[x]["corr"]
      /\ clock'[t]["post"] = c["post"] + 1
      /\ clock'[t]["message_sent"] = IF m.corr = 0 THEN c["message_sent"]
                                                   ELSE c["message_sent"] + 1
      /\ \A x \in Tickets \ {t} : clock'[x] = clock[x]
  BY <1>1, <1>3, TickClock DEF Sources, Tasks, Ids
<1>5. id = c["post"] + 1 /\ p.ticket = t /\ p.id = id /\ p.view = m.view
  BY DEF Fresh
<1>6. /\ ack.type = "message_sent" /\ ack.ticket = t /\ ack.corr = m.corr /\ ack.id = id
      /\ ack.n = c["message_sent"] + 1
  BY DEF Msg, Fresh
<1>7. bus' \subseteq (bus \ {m}) \cup acks
  BY CarriedBus DEF SendMessage
<1>8. \A o \in bus' : o \in bus \ {m} \/ (m.corr # 0 /\ o = ack)
  BY <1>7
<1> HIDE DEF p, ack, acks, id, S
<1>9. Grows
  <2>1. \A x \in Tickets : clock[x]["post"] # 0 => clock'[x]["post"] # 0
    BY <1>1, <1>2, <1>4
  <2>2. \A x \in Tickets : \A i : CardPost(x, i) => NowCard(x, i)
    BY <1>3 DEF CardPost, NowCard
  <2> QED
    BY <1>3, <2>1, <2>2 DEF Grows, RowLater
<1>10. m.corr # 0 => NowSound(ack)
  <2>1. CASE m.view = "new"
    BY <1>2, <1>3, <1>4, <1>5, <1>6, <2>1 DEF NowSound
  <2>2. CASE m.view = "offer"
    <3>1. NowCard(t, id)
      BY <1>3, <1>5, <2>2 DEF NowCard, CardViews
    <3>2. ack.n = 2 /\ m.corr # db[t].corr /\ clock'[t]["post"] # 0
      BY <1>2, <1>4, <1>6, <2>2
    <3> QED
      BY <1>3, <1>6, <3>1, <3>2 DEF NowSound
  <2> QED
    BY <1>2, <2>1, <2>2
<1>11. \A x \in Tickets, k \in Kinds : ~IsOf(ack, x, k)
  BY <1>6 DEF IsOf
<1>12. \A o \in bus' :
         \/ o \in bus \ {m}
         \/ NowSound(o) /\ \A x \in Tickets, k \in Kinds : ~IsOf(o, x, k)
  BY <1>8, <1>10, <1>11
<1>13. \A x \in Tickets \ {t} : Reached(x)'
  <2>1. \A x \in Tickets : Reached(x)
    BY DEF IInv, Once
  <2> QED
    BY <1>1, <1>3, <1>4, <1>9, <2>1, ReachedKept
<1>14. Reached(t)'
  <2>1. clock'[t]["post"] # 0 /\ clock'[t]["message_sent"] # 0
    BY <1>2, <1>4
  <2>2. CardPost(t, db[t].inbox_msg) => NowCard(t, db[t].inbox_msg)
    BY <1>1, <1>9 DEF Grows
  <2>3. NowCard(t, db[t].inbox_msg) => CardPost(t, db[t].inbox_msg)'
    BY <1>3 DEF CardPost, NowCard
  <2> HIDE DEF CardPost, NowCard
  <2> QED
    BY <1>1, <1>3, <1>4, <2>1, <2>2, <2>3 DEF Reached
<1>15. ASSUME NEW x \in Tickets
       PROVE  Shown(x)'
  <2>1. Shown(x)
    BY DEF IInv, Once
  <2>2. CASE x # t
    <3>1. \A q \in posts' : q.ticket = x => q \in posts
      BY <1>3, <1>5, <2>2
    <3> QED
      BY <1>3, <1>4, <2>1, <2>2, <3>1 DEF Shown
  <2>3. CASE x = t
    <3>1. \A q \in posts' : q.ticket = t => q \in posts \/ q = p
      BY <1>3
    <3>2. ASSUME NEW q \in posts, q.ticket = t
          PROVE  /\ q.id \in 1..c["post"] /\ q.id # id
                 /\ ~(q.view \in CardViews /\ m.view = "offer")
                 /\ ~(q.view = "thanks" /\ m.view = "thanks")
      <4>1. /\ q.id \in 1..c["post"]
            /\ q.view \in CardViews => c["message_sent"] > 1
        BY <1>1, <3>2 DEF Shown
      <4>2. ~(q.view \in CardViews /\ m.view = "offer")
        BY <1>2, <4>1
      <4>3. ~(q.view = "thanks" /\ m.view = "thanks")
        BY <1>2, <3>2 DEF Done
      <4> QED
        BY <1>2, <1>5, <4>1, <4>2, <4>3
    <3>3. /\ p.id \in 1..clock'[t]["post"]
          /\ p.id = 1 <=> p.view \in HeaderViews
          /\ p.view \in CardViews <=> m.view = "offer"
          /\ p.view = "thanks" <=> m.view = "thanks"
          /\ p.view \in CardViews => clock'[t]["message_sent"] > 1
      BY <1>2, <1>4, <1>5 DEF HeaderViews, CardViews
    <3>4. ASSUME NEW q \in posts', q.ticket = t
          PROVE  /\ q.id \in 1..clock'[t]["post"]
                 /\ q.id = 1 <=> q.view \in HeaderViews
                 /\ q.view \in CardViews => clock'[t]["message_sent"] > 1
      <4>1. CASE q = p
        BY <3>3, <4>1
      <4>2. CASE q \in posts
        <5>1. /\ q.id \in 1..c["post"] /\ (q.id = 1 <=> q.view \in HeaderViews)
              /\ q.view \in CardViews => c["message_sent"] > 1
          BY <1>1, <3>4, <4>2 DEF Shown
        <5> QED
          BY <1>2, <1>4, <5>1
      <4> QED
        BY <3>1, <3>4, <4>1, <4>2
    <3>5. ASSUME NEW q \in posts', NEW r \in posts', q.ticket = t, r.ticket = t
          PROVE  /\ q.id = r.id => q = r
                 /\ q.view \in CardViews /\ r.view \in CardViews => q = r
                 /\ q.view = "thanks" /\ r.view = "thanks" => q = r
      <4>1. CASE q \in posts /\ r \in posts
        BY <1>1, <3>5, <4>1 DEF Shown
      <4>2. CASE q = p /\ r \in posts
        BY <1>5, <3>2, <3>3, <3>5, <4>2
      <4>3. CASE r = p /\ q \in posts
        BY <1>5, <3>2, <3>3, <3>5, <4>3
      <4> QED
        BY <3>1, <3>5, <4>1, <4>2, <4>3
    <3>6. \A f \in topics' : f.ticket = t => clock'[t]["topic"] # 0
      BY <1>1, <1>3, <1>4 DEF Shown
    <3>7. \A f, g \in topics' : f.ticket = t /\ g.ticket = t => f = g
      BY <1>1, <1>3 DEF Shown
    <3> QED
      BY <2>3, <3>4, <3>5, <3>6, <3>7 DEF Shown
  <2> QED
    BY <2>2, <2>3
<1>16. ASSUME NEW x \in Tickets, NEW k \in Kinds, Done(x, k)'
       PROVE  Done(x, k) \/ IsOf(m, x, k)
  <2>1. CASE x # t
    <3>1. (\E q \in posts' : q.ticket = x /\ q.view = "thanks")
            => \E q \in posts : q.ticket = x /\ q.view = "thanks"
      BY <1>3, <1>5, <2>1
    <3> QED
      BY <1>4, <1>16, <2>1, <3>1 DEF Done
  <2>2. CASE x = t
    <3>1. (\E q \in posts' : q.ticket = t /\ q.view = "thanks")
            => m.view = "thanks" \/ \E q \in posts : q.ticket = t /\ q.view = "thanks"
      BY <1>3, <1>5
    <3>2. clock'[t]["message_sent"] > 1 => m.view = "offer" \/ c["message_sent"] > 1
      BY <1>2, <1>4
    <3>3. c["post"] # 0 \/ m.view = "new"
      BY <1>2
    <3>4. \A j \in {"new", "offer", "thanks"} : m.view = j => IsOf(m, t, j)
      BY <1>1 DEF IsOf
    <3> QED
      BY <1>4, <1>16, <2>2, <3>1, <3>2, <3>3, <3>4 DEF Done
  <2> QED
    BY <2>1, <2>2
<1> QED
  BY <1>3, <1>9, <1>12, <1>13, <1>14, <1>15, <1>16, CarriedOnce

-----------------------------------------------------------------------------
(* The theorems.                                                           *)

LEMMA OnceInit == Init => Once
<1> SUFFICES ASSUME Init
             PROVE  Once
  OBVIOUS
<1>1. \A t \in Tickets : db[t] = NoRow /\ \A s \in Sources : clock[t][s] = 0
  BY DEF Init
<1>2. \A t \in Tickets : /\ clock[t]["topic"] = 0 /\ clock[t]["topic_created"] = 0
                         /\ clock[t]["post"] = 0 /\ clock[t]["message_sent"] = 0
                         /\ clock[t]["ticket_created"] = 0
  BY <1>1 DEF Sources, Tasks, Ids
<1>3. AllSound
  BY DEF Init, AllSound
<1>4. ASSUME NEW t \in Tickets
      PROVE  Reached(t)
  <2>1. db[t].status = "none" /\ db[t].topic = 0 /\ db[t].header = 0 /\ db[t].inbox_msg = 0
    BY <1>1 DEF NoRow
  <2> HIDE DEF CardPost
  <2> QED
    BY <1>2, <2>1 DEF Reached
<1>5. \A t \in Tickets : Shown(t)
  BY DEF Init, Shown
<1>6. \A t \in Tickets, k \in Kinds : OnePlace(t, k)
  BY <1>2 DEF Init, OnePlace, Done
<1> QED
  BY <1>3, <1>4, <1>5, <1>6 DEF Once

LEMMA OnceStep == IInv /\ [Next]_vars => Once'
<1> SUFFICES ASSUME IInv, [Next]_vars
             PROVE  Once'
  OBVIOUS
<1>1. ASSUME NEW m \in bus, CoreTakes(m)
      PROVE  Once'
  BY <1>1, OnceTopicCreated, OnceHeaderSent, OnceAttachCard, OnceIncomingCard,
     OnceUpdateCard, OnceCallbackRead, OnceSpent DEF CoreTakes
<1>2. ASSUME NEW m \in bus, Carries(m)
      PROVE  Once'
  BY <1>2, OnceCreateTopic, OnceSendMessage, OnceEditMessage, OnceEditTopic DEF Carries
<1>3. ASSUME NEW r \in reading, Decide(r)
      PROVE  Once'
  BY <1>3, OnceRefused, OnceAssign, OnceAskClose, OnceClose DEF Decide
<1>4. (\E t \in Tickets, u \in Users : CreateTicketPhase1(t, u)) => Once'
  BY OnceCreate
<1>5. (\E m \in bus : TelegramRefuses(m)) => Once'
  BY OnceRefuse
<1>6. (\E h \in Tasks : Publish(h)) => Once'
  BY OncePublish
<1>7. (\E p \in posts, b \in Buttons, user \in People, target \in Executors \cup {Nobody} :
         PressButton(p, b, user, target)) => Once'
  BY OncePress
<1>8. CASE UNCHANGED vars
  BY <1>8, QuietOnce DEF vars
<1> QED
  BY <1>1, <1>2, <1>3, <1>4, <1>5, <1>6, <1>7, <1>8, OnceCrash DEF Next

\* Everything the lifecycle keeps, for any number of tickets, presses, crashes,
\* refusals and redeliveries (create_ticket.py, incoming_card.py, close_ticket.py
\* and the idempotency marks of core_processed_events).
THEOREM Inductive == Spec => []IInv
<1>1. Init => Once
  BY OnceInit
<1>2. RowInv /\ Once /\ [Next]_vars => Once'
  BY OnceStep DEF IInv
<1>3. Spec => []RowInv
  BY RowsCorrect
<1>4. Spec => [](RowInv /\ Once)
  BY <1>1, <1>2, <1>3, PTL DEF Spec
<1>5. RowInv /\ Once <=> IInv
  BY DEF IInv
<1> QED
  BY <1>4, <1>5, PTL

\* However often an event comes, core crashes or Telegram refuses, a ticket has
\* one topic, one header, one card and one farewell at most: every phase is begun
\* by an event whose mark (core_processed_events) keeps it from beginning again.
THEOREM OneOfEachCorrect == Spec => []OneOfEach
<1>1. IInv => OneOfEach
  <2> SUFFICES ASSUME IInv, NEW t \in Tickets
               PROVE  /\ AtMostOne({f \in topics : f.ticket = t})
                      /\ \A V \in {HeaderViews, CardViews, {"thanks"}} :
                           AtMostOne({p \in posts : p.ticket = t /\ p.view \in V})
    BY DEF OneOfEach
  <2>1. Shown(t)
    BY DEF IInv, Once
  <2>2. AtMostOne({f \in topics : f.ticket = t})
    BY <2>1 DEF Shown, AtMostOne
  <2>3. ASSUME NEW p \in posts, NEW q \in posts, p.ticket = t, q.ticket = t
        PROVE  /\ p.view \in HeaderViews /\ q.view \in HeaderViews => p = q
               /\ p.view \in CardViews /\ q.view \in CardViews => p = q
               /\ p.view \in {"thanks"} /\ q.view \in {"thanks"} => p = q
    BY <2>1, <2>3 DEF Shown
  <2> QED
    BY <2>2, <2>3 DEF AtMostOne
<1> QED
  BY <1>1, Inductive, PTL

\* The ids of a row that a step may change are NULL before it.
LEMMA AttachStep ==
  ASSUME IInv, [Next]_vars, NEW t \in Tickets
  PROVE  /\ db[t].topic # 0 => db'[t].topic = db[t].topic
         /\ db[t].header # 0 => db'[t].header = db[t].header
         /\ db[t].inbox_msg # 0 => db'[t].inbox_msg = db[t].inbox_msg
<1> DEFINE Goal == /\ db[t].topic # 0 => db'[t].topic = db[t].topic
                   /\ db[t].header # 0 => db'[t].header = db[t].header
                   /\ db[t].inbox_msg # 0 => db'[t].inbox_msg = db[t].inbox_msg
<1>1. db \in [Tickets -> Row] /\ db[t] \in Row /\ Reached(t) /\ RowInv /\ InOrder
  BY DEF IInv, RowInv, TypeOK, Once
<1>2. ASSUME NEW x \in Tickets, NEW u \in Users, CreateTicketPhase1(x, u)
      PROVE  Goal
  <2>1. CASE x = t
    BY <1>1, <1>2, <2>1 DEF CreateTicketPhase1, InOrder, NoRow
  <2>2. CASE x # t
    BY <1>1, <1>2, <2>2 DEF CreateTicketPhase1
  <2> QED
    BY <2>1, <2>2
<1>3. ASSUME NEW m \in bus, HandleTopicCreated(m)
      PROVE  Goal
  <2>1. CASE m.ticket = t
    <3>1. m.type = "topic_created" /\ m.n = 1
      BY <1>3, EntrySound DEF HandleTopicCreated, Receive, Sound
    <3>2. db[t].topic = 0
      BY <1>1, <1>3, <2>1, <3>1 DEF HandleTopicCreated, Seen, EventId, Reached
    <3>3. db'[t] = [db[t] EXCEPT !.topic = m.id]
      BY <1>1, <1>3, <2>1 DEF HandleTopicCreated
    <3> QED
      BY <1>1, <3>2, <3>3 DEF Row
  <2>2. CASE m.ticket # t
    BY <1>1, <1>3, <2>2 DEF HandleTopicCreated
  <2> QED
    BY <2>1, <2>2
<1>4. ASSUME NEW m \in bus, HandleHeaderMessageSent(m)
      PROVE  Goal
  <2>1. CASE m.ticket = t /\ db[t].topic # 0
    <3>1. m.type = "message_sent" /\ m.n = 1
      BY <1>4, EntrySound DEF HandleHeaderMessageSent, Receive, Sound
    <3>2. db[t].header = 0
      BY <1>1, <1>4, <2>1, <3>1 DEF HandleHeaderMessageSent, Seen, EventId, Reached
    <3>3. db'[t] = [db[t] EXCEPT !.header = m.id]
      BY <1>1, <1>4, <2>1 DEF HandleHeaderMessageSent, WithHeader
    <3> QED
      BY <1>1, <3>2, <3>3 DEF Row
  <2>2. CASE ~(m.ticket = t /\ db[t].topic # 0)
    BY <1>1, <1>4, <2>2 DEF HandleHeaderMessageSent, WithHeader
  <2> QED
    BY <2>1, <2>2
<1>5. ASSUME NEW m \in bus, AttachIncomingMessageId(m)
      PROVE  Goal
  <2>1. CASE m.ticket = t /\ m.corr = db[t].inbox_corr
    <3>1. m.type = "message_sent" /\ m.n = 2
      BY <1>5, EntrySound DEF AttachIncomingMessageId, Receive, Sound
    <3>2. db[t].inbox_msg = 0
      BY <1>1, <1>5, <2>1, <3>1 DEF AttachIncomingMessageId, Seen, EventId, Reached
    <3>3. db'[t] = [db[t] EXCEPT !.inbox_msg = m.id]
      BY <1>1, <1>5, <2>1 DEF AttachIncomingMessageId
    <3> QED
      BY <1>1, <3>2, <3>3 DEF Row
  <2>2. CASE ~(m.ticket = t /\ m.corr = db[t].inbox_corr)
    BY <1>1, <1>5, <2>2 DEF AttachIncomingMessageId
  <2> QED
    BY <2>1, <2>2
<1>6. ASSUME NEW m \in bus, PublishIncomingCard(m)
      PROVE  Goal
  <2>1. CASE m.ticket = t /\ db' # db
    <3>1. db'[t] = [db[t] EXCEPT !.inbox_corr = Fresh(t, "corr")]
      BY <1>1, <1>6, <2>1 DEF PublishIncomingCard
    <3> QED
      BY <1>1, <3>1 DEF Row
  <2>2. CASE m.ticket # t
    BY <1>1, <1>6, <2>2 DEF PublishIncomingCard
  <2> QED
    BY <2>1, <2>2
<1>7. ASSUME NEW r \in reading, AssignTicket(r) \/ CommitClose(r)
      PROVE  Goal
  <2>1. CASE r.msg.ticket = t
    <3>1. CASE AssignTicket(r)
      <4>1. db'[t] = [db[t] EXCEPT !.assignee = r.msg.target, !.status = "in_progress"]
        BY <1>1, <2>1, <3>1 DEF AssignTicket
      <4> QED
        BY <1>1, <4>1 DEF Row
    <3>2. CASE CommitClose(r)
      <4>1. db'[t] = [db[t] EXCEPT !.status = "closed", !.closer = r.msg.user]
        BY <1>1, <2>1, <3>2 DEF CommitClose
      <4> QED
        BY <1>1, <4>1 DEF Row
    <3> QED
      BY <1>7, <3>1, <3>2
  <2>2. CASE r.msg.ticket # t
    BY <1>1, <1>7, <2>2 DEF AssignTicket, CommitClose
  <2> QED
    BY <2>1, <2>2
<1>8. Rests => Goal
  BY DEF Rests
<1>9. ASSUME NEW m \in bus, CoreTakes(m)
      PROVE  Goal
  BY <1>1, <1>3, <1>4, <1>5, <1>6, <1>8, <1>9, StepRests DEF CoreTakes
<1>10. ASSUME NEW r \in reading, Decide(r)
       PROVE  Goal
  BY <1>1, <1>7, <1>8, <1>10, StepRests DEF Decide
<1> HIDE DEF Goal
<1>11. \/ \E m \in bus : Carries(m) \/ TelegramRefuses(m)
       \/ \E h \in Tasks : Publish(h)
       \/ \E p \in posts, b \in Buttons, user \in People,
             target \in Executors \cup {Nobody} : PressButton(p, b, user, target)
       \/ Crash
       \/ UNCHANGED vars
       => Goal
  BY <1>1, <1>8, StepRests
<1>12. Goal
  BY <1>2, <1>9, <1>10, <1>11 DEF Next
<1> QED
  BY <1>12 DEF Goal

\* The topic, header and card message of a ticket are attached once: no event
\* that comes again or late replaces them, although set_topic, set_header and
\* set_inbox_message of repository/tickets.py overwrite without looking.
THEOREM AttachedForGoodCorrect == Spec => AttachedForGood
<1>1. IInv /\ [Next]_vars =>
        [\A t \in Tickets :
           /\ db[t].topic # 0 => db'[t].topic = db[t].topic
           /\ db[t].header # 0 => db'[t].header = db[t].header
           /\ db[t].inbox_msg # 0 => db'[t].inbox_msg = db[t].inbox_msg]_db
  BY AttachStep
<1> QED
  BY <1>1, Inductive, PTL DEF Spec, AttachedForGood

=============================================================================
