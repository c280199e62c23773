------------------------ MODULE TicketLifecycleSees ------------------------
(***************************************************************************)
(* What the customer ends up seeing is the row, for every value of the     *)
(* constants, as long as nothing is lost: every phase is still awaited or  *)
(* attached (Completes), and of the edits under way the last one shows the *)
(* row (LastFits), which is the one to be carried out last (InTurn).       *)
(***************************************************************************)
EXTENDS TicketLifecycleProofs

-----------------------------------------------------------------------------
(* What holds of every step.                                               *)

LEMMA TopicOfStep ==
  ASSUME IInv, [Next]_vars, NEW t \in Tickets
  PROVE  /\ db[t].status # "none" => db'[t].status # "none"
         /\ db[t].status = "closed" => db'[t].status = "closed"
         /\ db[t].topic # 0 => db'[t].topic = db[t].topic
         /\ db[t].header # 0 => db'[t].header = db[t].header
<1>1. RowInv /\ RowStep
  BY EveryStep DEF IInv
<1>2. Kept
  BY <1>1, KeptStep
<1>3. /\ db[t].topic # 0 => db'[t].topic = db[t].topic
      /\ db[t].header # 0 => db'[t].header = db[t].header
  BY AttachStep
<1>4. db[t].status = "closed" => db'[t].status = "closed"
  <2>1. ASSUME NEW x \in Tickets, NEW u \in Users, Opens(x, u)
        PROVE  db[t].status = "closed" => db'[t].status = "closed"
    BY <1>1, <2>1, OpensRow DEF Opens
  <2>2. ASSUME NEW x \in Tickets, NEW r \in Row, Attaches(x, r)
        PROVE  db[t].status = "closed" => db'[t].status = "closed"
    BY <1>1, <2>2, AttachesRow DEF Attaches
  <2>3. ASSUME NEW x \in Tickets, NEW e \in Active, Takes(x, e)
        PROVE  db[t].status = "closed" => db'[t].status = "closed"
    BY <1>1, <2>3, TakesRow DEF Takes
  <2>4. ASSUME NEW x \in Tickets, Closes(x)
        PROVE  db[t].status = "closed" => db'[t].status = "closed"
    BY <1>1, <2>4, ClosesRow
  <2>5. Rests => db'[t] = db[t]
    BY DEF Rests
  <2> QED
    BY <1>1, <2>1, <2>2, <2>3, <2>4, <2>5 DEF RowStep
<1> QED
  BY <1>2, <1>3, <1>4 DEF Kept

\* A bound is only ever spent.
LEMMA LeftStep ==
  ASSUME TypeOK, [Next]_vars
  PROVE  left'.fail <= left.fail /\ left'.crash <= left.crash
<1>1. left \in [press : Nat, redelivery : Nat, fail : Nat, crash : Nat]
  BY DEF TypeOK
<1> DEFINE Less == \/ left' = left
                   \/ left' = [left EXCEPT !.press = @ - 1]
                   \/ left' = [left EXCEPT !.redelivery = @ - 1]
                   \/ left' = [left EXCEPT !.fail = @ - 1]
                   \/ left' = [left EXCEPT !.crash = @ - 1]
<1>2. \A m \in bus : CoreTakes(m) => Less
  BY DEF CoreTakes, HandleTopicCreated, HandleHeaderMessageSent, AttachIncomingMessageId,
     PublishIncomingCard, UpdateIncomingAfterAssign, CallbackRead, AlreadyProcessed, Receive
<1>3. \A m \in bus : Carries(m) \/ TelegramRefuses(m) => Less
  BY DEF Carries, CreateForumTopic, SendMessage, EditMessageText, EditForumTopic,
     CloseForumTopic, TelegramRefuses, Executed
<1>4. \A r \in reading : Decide(r) => Less
  BY DEF Decide, Refused, AssignTicket, ConfirmOrCancel, CommitClose, CallbackCommit
<1>5. \/ \E t \in Tickets, u \in Users : CreateTicketPhase1(t, u)
      \/ \E h \in Tasks : Publish(h)
      \/ \E p \in posts, b \in Buttons, user \in People, target \in Executors \cup {Nobody} :
           PressButton(p, b, user, target)
      \/ Crash
      \/ UNCHANGED vars
      => Less
  BY DEF CreateTicketPhase1, Publish, PressButton, Crash, vars
<1>6. Less
  BY <1>2, <1>3, <1>4, <1>5 DEF Next
<1> QED
  BY <1>1, <1>6

-----------------------------------------------------------------------------
(* Consistent.                                                             *)

\* The callback task owes nothing while its transaction is open, and what the
\* transaction has read has the ids its decision will use.
LEMMA ReadingStep ==
  ASSUME IInv, Consistent, [Next]_vars, NEW r \in reading'
  PROVE  /\ todo'["callback"] = << >>
         /\ r.row.topic \in {0, 1}
         /\ r.msg.data = "assign" => r.row.topic # 0 /\ r.row.header # 0
<1> DEFINE Goal == /\ todo'["callback"] = << >>
                   /\ r.row.topic \in {0, 1}
                   /\ r.msg.data = "assign" => r.row.topic # 0 /\ r.row.header # 0
<1>1. /\ TypeOK /\ InOrder /\ AllGrounded /\ AtMostOne(reading)
      /\ todo \in [Tasks -> Seq(Message)] /\ "callback" \in Tasks
  BY DEF IInv, RowInv, SnapshotHolds, TypeOK, Tasks
<1>2. reading' = reading /\ todo'["callback"] = todo["callback"] => Goal
  BY DEF Consistent
<1>3. ASSUME NEW m \in bus, CallbackRead(m)
      PROVE  Goal
  <2>1. /\ m.type = "callback" /\ reading = {} /\ todo'["callback"] = << >>
        /\ r = [msg |-> m, row |-> db[m.ticket]]
    BY <1>3 DEF CallbackRead, Receive, Free
  <2>2. m.ticket \in Tickets /\ Attached(m.ticket) /\ Grounded(m)
    BY <1>1, EntryType DEF Consistent, AllGrounded
  <2> QED
    BY <1>1, <2>1, <2>2 DEF Attached, Grounded, AboutCard, InOrder
<1>4. ASSUME NEW m \in bus, CoreTakes(m)
      PROVE  Goal
  <2>1. \/ CallbackRead(m)
        \/ reading' = reading /\ todo'["callback"] = todo["callback"]
    BY <1>1, <1>4 DEF CoreTakes, HandleTopicCreated, HandleHeaderMessageSent, AttachIncomingMessageId,
     PublishIncomingCard, UpdateIncomingAfterAssign, AlreadyProcessed, Owe
  <2> QED
    BY <1>2, <1>3, <2>1
<1>5. \A m \in bus : Carries(m) \/ TelegramRefuses(m) => Goal
  <2>1. \A m \in bus : Carries(m) \/ TelegramRefuses(m) =>
          reading' = reading /\ todo' = todo
    BY DEF Carries, CreateForumTopic, SendMessage, EditMessageText, EditForumTopic,
       CloseForumTopic, TelegramRefuses, core
  <2> QED
    BY <1>2, <2>1
<1>6. \A x \in reading : Decide(x) => reading' = {}
  BY <1>1 DEF Decide, Refused, AssignTicket, ConfirmOrCancel, CommitClose, CallbackCommit,
     AtMostOne
<1>7. ASSUME NEW h \in Tasks, Publish(h)
      PROVE  Goal
  <2>1. h # "callback"
    BY <1>7 DEF Publish, Consistent
  <2> QED
    BY <1>1, <1>2, <1>7, <2>1 DEF Publish
<1>8. \/ \E t \in Tickets, u \in Users : CreateTicketPhase1(t, u)
      \/ \E p \in posts, b \in Buttons, user \in People, target \in Executors \cup {Nobody} :
           PressButton(p, b, user, target)
      \/ UNCHANGED vars
      => reading' = reading /\ todo'["callback"] = todo["callback"]
  BY <1>1 DEF CreateTicketPhase1, Owe, PressButton, core, vars
<1>9. Crash => reading' = {}
  BY DEF Crash
<1> HIDE DEF Goal
<1>10. Goal
  BY <1>2, <1>4, <1>5, <1>6, <1>7, <1>8, <1>9 DEF Next
<1> QED
  BY <1>10 DEF Goal

\* An event whose phase attaches an id is marked only when it has.
LEMMA MarksAttach ==
  ASSUME IInv, Consistent, NEW m \in bus, CoreTakes(m), NEW t \in Tickets
  PROVE  /\ <<"topic_created", t, 1>> \in processed' \ processed => db'[t].topic # 0
         /\ <<"message_sent", t, 1>> \in processed' \ processed => db'[t].header # 0
<1> DEFINE a == <<"topic_created", t, 1>>
           b == <<"message_sent", t, 1>>
           Goal == /\ a \in processed' \ processed => db'[t].topic # 0
                   /\ b \in processed' \ processed => db'[t].header # 0
<1>1. /\ db \in [Tickets -> Row] /\ RowInv /\ m.ticket \in Tickets /\ Sound(m) /\ Grounded(m)
      /\ Reached(t) /\ Attached(t) /\ OnePlace(t, "new")
  BY EntrySound DEF IInv, RowInv, TypeOK, Once, Consistent, AllGrounded, Kinds
<1>2. CASE HandleTopicCreated(m)
  <2>1. m.type = "topic_created" /\ m.id # 0 /\ db' = [db EXCEPT ![m.ticket].topic = m.id]
    BY <1>1, <1>2 DEF HandleTopicCreated, Receive, Grounded, Acks
  <2>2. processed' = processed \cup {<<"topic_created", m.ticket, m.n>>}
    BY <1>2, <2>1 DEF HandleTopicCreated, Mark, EventId
  <2>3. a \in processed' \ processed => m.ticket = t
    BY <2>2
  <2>4. b \notin processed' \ processed
    BY <2>2
  <2> QED
    BY <1>1, <2>1, <2>3, <2>4 DEF Row
<1>3. CASE HandleHeaderMessageSent(m)
  <2>1. m.type = "message_sent" /\ m.id # 0 /\ clock[m.ticket]["post"] # 0
    BY <1>1, <1>3 DEF HandleHeaderMessageSent, Receive, Grounded, Acks, Sound
  <2>2. processed' = processed \cup {<<"message_sent", m.ticket, m.n>>}
    BY <1>3, <2>1 DEF HandleHeaderMessageSent, Mark, EventId
  <2>3. a \notin processed' \ processed
    BY <2>2
  <2>4. ASSUME b \in processed' \ processed
        PROVE  db'[t].header # 0
    <3>1. m.ticket = t
      BY <2>2, <2>4
    <3>2. db[t].topic # 0
      BY <1>1, <2>1, <3>1 DEF OnePlace, Done, Begun, Attached
    <3>3. db' = WithHeader(m)
      BY <1>3, <3>1, <3>2 DEF HandleHeaderMessageSent
    <3> QED
      BY <1>1, <2>1, <3>1, <3>3 DEF WithHeader, Row
  <2> QED
    BY <2>3, <2>4
<1>4. CASE AttachIncomingMessageId(m)
  <2>1. m.type = "message_sent" /\ m.n = 2
    BY <1>1, <1>4 DEF AttachIncomingMessageId, Receive, Sound
  <2>2. processed' \subseteq processed \cup {<<"message_sent", m.ticket, 2>>}
    BY <1>4, <2>1 DEF AttachIncomingMessageId, Mark, EventId
  <2> QED
    BY <2>2
<1>5. CASE \/ PublishIncomingCard(m) \/ UpdateIncomingAfterAssign(m)
           \/ CallbackRead(m) \/ \E h \in Tasks : AlreadyProcessed(h, m)
  <2>1. \/ processed' = processed
        \/ /\ m.type \in {"ticket_created", "ticket_assigned"}
           /\ processed' = processed \cup {<<m.type, m.ticket, m.n>>}
    BY <1>5 DEF PublishIncomingCard, UpdateIncomingAfterAssign, CallbackRead, AlreadyProcessed,
       Receive, Mark, EventId
  <2> QED
    BY <2>1
<1> QED
  BY <1>2, <1>3, <1>4, <1>5 DEF CoreTakes

\* Clocks never go back.
LEMMA ClockStep ==
  ASSUME TypeOK, [Next]_vars, NEW t \in Tickets, NEW s \in Sources
  PROVE  clock'[t][s] >= clock[t][s]
<1> DEFINE Goal == clock'[t][s] >= clock[t][s]
<1>1. clock \in [Tickets -> [Sources -> Nat]]
  BY DEF TypeOK
<1>2. clock' = clock => Goal
  BY <1>1
<1>3. ASSUME NEW x \in Tickets, NEW S, Tick(x, S)
      PROVE  Goal
  <2>1. clock[t][s] \in Nat
    BY <1>1
  <2> QED
    BY <1>3, <2>1, TickClock
<1>4. \A m \in bus : m.ticket \in Tickets
  BY EntryType
<1>5. \A r \in reading : r.msg.ticket \in Tickets
  BY ReadingType
<1>6. \A p \in posts : p.ticket \in Tickets
  BY DEF TypeOK
<1> HIDE DEF Goal
<1>7. ASSUME NEW m \in bus, CoreTakes(m)
      PROVE  Goal
  <2>1. (\E S : Tick(m.ticket, S)) \/ clock' = clock
    BY <1>7 DEF CoreTakes, HandleTopicCreated, HandleHeaderMessageSent, AttachIncomingMessageId,
       PublishIncomingCard, UpdateIncomingAfterAssign, CallbackRead, AlreadyProcessed
  <2> QED
    BY <1>2, <1>3, <1>4, <2>1
<1>8. ASSUME NEW m \in bus, Carries(m) \/ TelegramRefuses(m)
      PROVE  Goal
  <2>1. (\E S : Tick(m.ticket, S)) \/ clock' = clock
    BY <1>8 DEF Carries, CreateForumTopic, SendMessage, EditMessageText, EditForumTopic,
       CloseForumTopic, TelegramRefuses
  <2> QED
    BY <1>2, <1>3, <1>4, <2>1
<1>9. ASSUME NEW r \in reading, Decide(r)
      PROVE  Goal
  <2>1. \E S : Tick(r.msg.ticket, S)
    BY <1>9 DEF Decide, Refused, AssignTicket, ConfirmOrCancel, CommitClose, CallbackCommit
  <2> QED
    BY <1>3, <1>5, <2>1
<1>10. (\E x \in Tickets, u \in Users : CreateTicketPhase1(x, u)) => Goal
  BY <1>3 DEF CreateTicketPhase1
<1>11. (\E p \in posts, b \in Buttons, user \in People, target \in Executors \cup {Nobody} :
          PressButton(p, b, user, target)) => Goal
  BY <1>3, <1>6 DEF PressButton
<1>12. (\E h \in Tasks : Publish(h)) \/ Crash \/ UNCHANGED vars => Goal
  BY <1>2 DEF Publish, Crash, vars
<1>13. Goal
  BY <1>7, <1>8, <1>9, <1>10, <1>11, <1>12 DEF Next
<1> QED
  BY <1>13 DEF Goal

\* A handler of core attaches an id, and changes nobody's status.
LEMMA RowsHandled ==
  ASSUME IInv, NEW m \in bus, CoreTakes(m), NEW t \in Tickets
  PROVE  /\ db'[t].status = db[t].status
         /\ t # m.ticket => db'[t] = db[t]
         /\ ~HandleTopicCreated(m) => db'[t].topic = db[t].topic
<1>1. db \in [Tickets -> Row] /\ TypeOK /\ m.ticket \in Tickets /\ db[m.ticket] \in Row
  BY EntrySound DEF TypeOK
<1> DEFINE row == db[m.ticket]
           To(r) == db' = [db EXCEPT ![m.ticket] = r] /\ r.status = row.status
<1>2. HandleTopicCreated(m) => \E r : To(r)
  <2>1. HandleTopicCreated(m) => To([row EXCEPT !.topic = m.id])
    BY <1>1 DEF HandleTopicCreated, Row
  <2> QED
    BY <2>1
<1>3. HandleHeaderMessageSent(m) => db' = db \/ \E r : To(r) /\ r.topic = row.topic
  <2> DEFINE r == [row EXCEPT !.header = m.id]
  <2>1. HandleHeaderMessageSent(m) => db' = db \/ (To(r) /\ r.topic = row.topic)
    BY <1>1 DEF HandleHeaderMessageSent, WithHeader, Row
  <2> HIDE DEF r
  <2> QED
    BY <2>1
<1>4. AttachIncomingMessageId(m) => db' = db \/ \E r : To(r) /\ r.topic = row.topic
  <2> DEFINE r == [row EXCEPT !.inbox_msg = m.id]
  <2>1. AttachIncomingMessageId(m) => db' = db \/ (To(r) /\ r.topic = row.topic)
    BY <1>1 DEF AttachIncomingMessageId, Row
  <2> HIDE DEF r
  <2> QED
    BY <2>1
<1>5. PublishIncomingCard(m) => db' = db \/ \E r : To(r) /\ r.topic = row.topic
  <2> DEFINE r == [row EXCEPT !.inbox_corr = Fresh(m.ticket, "corr")]
  <2>1. PublishIncomingCard(m) => db' = db \/ (To(r) /\ r.topic = row.topic)
    BY <1>1 DEF PublishIncomingCard, Row
  <2> HIDE DEF r
  <2> QED
    BY <2>1
<1>6. UpdateIncomingAfterAssign(m) \/ CallbackRead(m) \/ (\E h \in Tasks : AlreadyProcessed(h, m))
        => db' = db
  BY DEF UpdateIncomingAfterAssign, CallbackRead, AlreadyProcessed
<1>7. db' = db \/ \E r : To(r) /\ (HandleTopicCreated(m) \/ r.topic = row.topic)
  <2> HIDE DEF To, row
  <2> QED
    BY <1>2, <1>3, <1>4, <1>5, <1>6 DEF CoreTakes
<1> QED
  BY <1>1, <1>7

\* The id of a topic is written by the event that reports it and by nothing else.
LEMMA ColumnStep ==
  ASSUME IInv, Consistent, [Next]_vars, NEW t \in Tickets
  PROVE  /\ db'[t].topic \in {0, 1}
         /\ db'[t].topic # 0 => clock[t]["topic"] # 0
<1> DEFINE Goal == /\ db'[t].topic \in {0, 1}
                   /\ db'[t].topic # 0 => clock[t]["topic"] # 0
<1>1. /\ db \in [Tickets -> Row] /\ RowInv /\ TypeOK /\ Attached(t)
      /\ \A m \in bus : m.ticket \in Tickets
  BY EntryType DEF IInv, RowInv, TypeOK, Consistent
<1>2. db'[t].topic = db[t].topic => Goal
  BY <1>1 DEF Attached
<1>3. ASSUME NEW m \in bus, HandleTopicCreated(m)
      PROVE  Goal
  <2>1. m.type = "topic_created" /\ db' = [db EXCEPT ![m.ticket].topic = m.id]
    BY <1>3 DEF HandleTopicCreated, Receive
  <2>2. m.id = 1 /\ clock[m.ticket]["topic"] # 0
    BY <2>1 DEF Consistent, TopicId
  <2>3. m.ticket # t => db'[t] = db[t]
    BY <1>1, <2>1
  <2>4. m.ticket = t => db'[t].topic = 1
    BY <1>1, <2>1, <2>2 DEF Row
  <2> QED
    BY <1>2, <2>2, <2>3, <2>4
<1>4. ASSUME NEW m \in bus, CoreTakes(m), ~HandleTopicCreated(m)
      PROVE  Goal
  <2>1. db'[t].topic = db[t].topic
    BY <1>4, RowsHandled
  <2> QED
    BY <1>2, <2>1
<1>5. ASSUME ~\E m \in bus : CoreTakes(m)
      PROVE  Goal
  <2>1. ASSUME NEW x \in Tickets, NEW u \in Users, CreateTicketPhase1(x, u)
        PROVE  Goal
    <3>1. db' = [db EXCEPT ![x] = [NoRow EXCEPT !.status = "new", !.author = u,
                                               !.corr = Fresh(x, "corr")]]
      BY <2>1 DEF CreateTicketPhase1
    <3>2. x = t => db'[t].topic = 0
      BY <1>1, <3>1 DEF NoRow
    <3>3. x # t => db'[t] = db[t]
      BY <1>1, <3>1
    <3> QED
      BY <1>2, <3>2, <3>3
  <2>2. ASSUME NEW r \in reading, Decide(r)
        PROVE  Goal
    <3>1. r.msg.ticket \in Tickets
      BY <1>1, ReadingType
    <3>2. \/ db' = db
          \/ db' = [db EXCEPT ![r.msg.ticket].assignee = r.msg.target,
                              ![r.msg.ticket].status = "in_progress"]
          \/ db' = [db EXCEPT ![r.msg.ticket].status = "closed",
                              ![r.msg.ticket].closer = r.msg.user]
      BY <2>2 DEF Decide, Refused, AssignTicket, ConfirmOrCancel, CommitClose
    <3>3. db'[t].topic = db[t].topic
      BY <1>1, <3>1, <3>2 DEF Row
    <3> QED
      BY <1>2, <3>3
  <2>3. \/ \E m \in bus : Carries(m) \/ TelegramRefuses(m)
        \/ \E h \in Tasks : Publish(h)
        \/ \E p \in posts, b \in Buttons, user \in People, target \in Executors \cup {Nobody} :
             PressButton(p, b, user, target)
        \/ Crash
        \/ UNCHANGED vars
        => db' = db
    BY DEF Carries, CreateForumTopic, SendMessage, EditMessageText, EditForumTopic,
       CloseForumTopic, TelegramRefuses, Publish, PressButton, Crash, core, vars
  <2> HIDE DEF Goal
  <2> QED
    BY <1>2, <1>5, <2>1, <2>2, <2>3 DEF Next
<1> HIDE DEF Goal
<1>6. Goal
  BY <1>3, <1>4, <1>5
<1> QED
  BY <1>6 DEF Goal

LEMMA OwedIs ==
  /\ \A m : m \in Owed <=> \E h \in Tasks : \E i \in DOMAIN todo[h] : m = todo[h][i]
  /\ \A m : m \in Owed' <=> \E h \in Tasks : \E i \in DOMAIN todo'[h] : m = todo'[h][i]
BY DEF Owed

\* What is owed after a step that owes msgs, or that owes nothing new.
LEMMA OwedAfter ==
  ASSUME TypeOK, NEW h \in Tasks, NEW msgs, Owe(h, msgs), NEW m \in Owed'
  PROVE  m \in Owed \/ \E i \in DOMAIN msgs : m = msgs[i]
<1>1. todo \in [Tasks -> Seq(Message)]
  BY DEF TypeOK
<1>2. PICK g \in Tasks : \E i \in DOMAIN todo'[g] : m = todo'[g][i]
  BY DEF Owed
<1>3. CASE g = h
  BY <1>1, <1>2, <1>3 DEF Owe
<1>4. CASE g # h
  BY <1>1, <1>2, <1>4 DEF Owe, Owed
<1> QED
  BY <1>3, <1>4

LEMMA OwedOneAfter ==
  ASSUME TypeOK, NEW h \in Tasks, NEW x, Owe(h, <<x>>), NEW m \in Owed'
  PROVE  m \in Owed \/ m = x
<1>1. \A i \in DOMAIN <<x>> : <<x>>[i] = x
  OBVIOUS
<1> QED
  BY <1>1, OwedAfter

LEMMA OwedLeft ==
  ASSUME TypeOK, NEW h \in Tasks, Publish(h)
  PROVE  /\ Head(todo[h]) \in Owed
         /\ Owed' \subseteq Owed /\ Owed \subseteq Owed' \cup {Head(todo[h])}
<1> DEFINE s == todo[h]
<1>1. todo \in [Tasks -> Seq(Message)] /\ s \in Seq(Message) /\ s # << >>
  BY DEF TypeOK, Publish
<1>2. /\ Head(s) = s[1] /\ 1 \in DOMAIN s
      /\ \A i \in DOMAIN Tail(s) : i + 1 \in DOMAIN s /\ Tail(s)[i] = s[i + 1]
      /\ Len(Tail(s)) = Len(s) - 1 /\ DOMAIN Tail(s) = 1..Len(Tail(s)) /\ DOMAIN s = 1..Len(s)
      /\ Len(s) \in Nat
  BY <1>1, HeadTailProperties
<1>3. todo'[h] = Tail(s) /\ \A x \in Tasks \ {h} : todo'[x] = todo[x]
  BY <1>1 DEF Publish
<1>4. Head(s) \in Owed
  BY <1>2 DEF Owed
<1>5. ASSUME NEW m \in Owed'
      PROVE  m \in Owed
  <2>1. PICK g \in Tasks : \E i \in DOMAIN todo'[g] : m = todo'[g][i]
    BY <1>5 DEF Owed
  <2>2. CASE g = h
    <3>1. PICK i \in DOMAIN Tail(s) : m = Tail(s)[i]
      BY <1>3, <2>1, <2>2
    <3>2. i + 1 \in DOMAIN s /\ m = s[i + 1]
      BY <1>2, <3>1
    <3> QED
      BY <3>2 DEF Owed
  <2>3. CASE g # h
    BY <1>3, <2>1, <2>3 DEF Owed
  <2> QED
    BY <2>2, <2>3
<1>6. ASSUME NEW m \in Owed
      PROVE  m \in Owed' \/ m = Head(s)
  <2>1. PICK g \in Tasks : \E i \in DOMAIN todo[g] : m = todo[g][i]
    BY <1>6 DEF Owed
  <2>2. CASE g = h
    <3>1. PICK i \in DOMAIN s : m = s[i]
      BY <2>1, <2>2
    <3>2. CASE i = 1
      BY <1>2, <3>1, <3>2
    <3>3. CASE i # 1
      <4>1. i - 1 \in DOMAIN Tail(s) /\ (i - 1) + 1 = i
        BY <1>2, <3>1, <3>3
      <4>2. m = todo'[h][i - 1]
        BY <1>2, <1>3, <3>1, <4>1
      <4> QED
        BY <1>3, <4>1, <4>2, OwedIs
    <3> QED
      BY <3>2, <3>3
  <2>3. CASE g # h
    BY <1>3, <2>1, <2>3 DEF Owed
  <2> QED
    BY <2>2, <2>3
<1> QED
  BY <1>4, <1>5, <1>6

\* What is under way is about a ticket of the table.
LEMMA WayType ==
  ASSUME TypeOK, NEW m \in bus \cup Owed
  PROVE  m.ticket \in Tickets /\ m.n \in Nat /\ (m.type # "callback" => m \in Message)
<1>1. \A x \in Message : x.ticket \in Tickets /\ x.n \in Nat
  BY DEF Message
<1>2. m \in bus => m.ticket \in Tickets /\ m.n \in Nat /\ (m.type # "callback" => m \in Message)
  BY EntryType
<1>3. ASSUME m \in Owed
      PROVE  m \in Message
  <2>1. PICK h \in Tasks : \E i \in DOMAIN todo[h] : m = todo[h][i]
    BY <1>3 DEF Owed
  <2>2. todo[h] \in Seq(Message)
    BY DEF TypeOK
  <2> QED
    BY <2>1, <2>2
<1> QED
  BY <1>1, <1>2, <1>3

LEMMA OldTopicId ==
  ASSUME IInv, Consistent, [Next]_vars, NEW m \in bus \cup Owed
  PROVE  TopicId(m)'
<1>1. TypeOK /\ m.ticket \in Tickets /\ "topic" \in Sources
  BY WayType DEF IInv, RowInv, Sources, Ids
<1>2. TopicId(m)
  BY DEF Consistent
<1>3. db[m.ticket].status = "closed" => db'[m.ticket].status = "closed"
  BY <1>1, TopicOfStep
<1>4. clock'[m.ticket]["topic"] >= clock[m.ticket]["topic"]
  BY <1>1, ClockStep
<1>5. clock[m.ticket]["topic"] \in Nat /\ clock'[m.ticket]["topic"] \in Nat
  <2>1. TypeOK'
    BY <1>1, TypeStep
  <2>2. clock \in [Tickets -> [Sources -> Nat]] /\ clock' \in [Tickets -> [Sources -> Nat]]
    BY <1>1, <2>1 DEF TypeOK
  <2> QED
    BY <1>1, <2>2
<1>6. clock[m.ticket]["topic"] # 0 => clock'[m.ticket]["topic"] # 0
  BY <1>4, <1>5
<1> QED
  BY <1>2, <1>3, <1>6 DEF TopicId

\* A free task owes exactly what its handler commits.
LEMMA OwedNow ==
  ASSUME TypeOK, NEW h \in Tasks, todo[h] = << >>, NEW msgs, Owe(h, msgs)
  PROVE  \A m : m \in Owed' <=> m \in Owed \/ \E i \in DOMAIN msgs : m = msgs[i]
<1>1. todo'[h] = msgs /\ \A x \in Tasks \ {h} : todo'[x] = todo[x]
  BY DEF Owe, TypeOK
<1>2. DOMAIN todo[h] = {}
  OBVIOUS
<1>3. ASSUME NEW m, m \in Owed
      PROVE  m \in Owed'
  <2>1. PICK g \in Tasks : \E i \in DOMAIN todo[g] : m = todo[g][i]
    BY <1>3, OwedIs
  <2> QED
    BY <1>1, <1>2, <2>1, OwedIs
<1>4. \A i \in DOMAIN msgs : msgs[i] \in Owed'
  BY <1>1, OwedIs
<1> QED
  BY <1>3, <1>4, OwedAfter

LEMMA OwedOneNow ==
  ASSUME TypeOK, NEW h \in Tasks, todo[h] = << >>, NEW x, Owe(h, <<x>>)
  PROVE  \A m : m \in Owed' <=> m \in Owed \/ m = x
<1>1. DOMAIN <<x>> = {1} /\ <<x>>[1] = x
  OBVIOUS
<1> QED
  BY <1>1, OwedNow

LEMMA OwedSame ==
  ASSUME todo' = todo
  PROVE  Owed' = Owed
BY DEF Owed

\* Who takes a ticket edits its topic and its header.
LEMMA AssignWay ==
  ASSUME IInv, Consistent, NEW r \in reading, AssignTicket(r)
  PROVE  \E msgs :
           /\ CallbackCommit(r, msgs)
           /\ DOMAIN msgs = 1..3
           /\ msgs[1] = Msg("edit_forum_topic", r.msg.ticket, 0, r.row.topic, "in_progress")
           /\ msgs[2] = Msg("edit_message_text", r.msg.ticket, 0, r.row.header, "in_progress")
           /\ msgs[3] = Msg("ticket_assigned", r.msg.ticket, 0, 0, "none")
<1> DEFINE t == r.msg.ticket
           a == Msg("edit_forum_topic", t, 0, r.row.topic, "in_progress")
           b == Msg("edit_message_text", t, 0, r.row.header, "in_progress")
           c == Msg("ticket_assigned", t, 0, 0, "none")
           icon == IF r.row.topic = 0 THEN << >> ELSE <<a>>
           header == IF r.row.topic = 0 \/ r.row.header = 0 THEN << >> ELSE <<b>>
           msgs == icon \o header \o <<c>>
<1>1. r.row.topic # 0 /\ r.row.header # 0
  BY DEF Consistent, AssignTicket
<1>2. CallbackCommit(r, msgs)
  BY DEF AssignTicket
<1> HIDE DEF a, b, c
<1>3. icon = <<a>> /\ header = <<b>>
  BY <1>1
<1>4. DOMAIN (icon \o header) = 1..2 /\ (icon \o header)[1] = a /\ (icon \o header)[2] = b
  BY <1>3
<1>5. DOMAIN msgs = 1..3 /\ msgs[1] = a /\ msgs[2] = b /\ msgs[3] = c
  BY <1>3, <1>4
<1> QED
  BY <1>2, <1>5 DEF a, b, c

\* What the decision of r adds to what is under way.
LEMMA CommitWay ==
  ASSUME IInv, Consistent, NEW r \in reading, NEW msgs, CallbackCommit(r, msgs)
  PROVE  /\ \A m : m \in Owed' <=> m \in Owed \/ \E i \in DOMAIN msgs : m = msgs[i]
         /\ bus' = bus /\ topics' = topics /\ posts' = posts
         /\ todo["callback"] = << >> /\ todo'["callback"] = msgs
         /\ \A h \in Tasks \ {"callback"} : todo'[h] = todo[h]
<1>1. todo["callback"] = << >> /\ "callback" \in Tasks /\ TypeOK
  BY DEF Consistent, Tasks, IInv, RowInv
<1>2. Owe("callback", msgs) /\ bus' = bus /\ topics' = topics /\ posts' = posts
  BY DEF CallbackCommit, telegram
<1>3. todo \in [Tasks -> Seq(Message)] /\ todo' = [todo EXCEPT !["callback"] = msgs]
  BY <1>1, <1>2 DEF TypeOK, Owe
<1>4. todo'["callback"] = msgs /\ \A h \in Tasks \ {"callback"} : todo'[h] = todo[h]
  BY <1>1, <1>3
<1>5. \A m : m \in Owed' <=> m \in Owed \/ \E i \in DOMAIN msgs : m = msgs[i]
  BY <1>1, <1>2, OwedNow
<1> QED
  BY <1>1, <1>2, <1>4, <1>5

LEMMA MsgIs ==
  ASSUME NEW type, NEW t, NEW corr, NEW id, NEW view
  PROVE  LET m == Msg(type, t, corr, id, view) IN
         /\ m.type = type /\ m.ticket = t /\ m.n = clock[t][type] + 1
         /\ m.corr = corr /\ m.id = id /\ m.view = view
BY DEF Msg, Fresh

LEMMA ClosingAre ==
  ASSUME NEW t, NEW row, NEW msgs, msgs = ClosingMessages(t, row)
  PROVE  /\ DOMAIN msgs = 1..5
         /\ msgs[1] = Msg("edit_forum_topic", t, 0, row.topic, "closed")
         /\ msgs[2] = Msg("send_message", t, 0, row.topic, "thanks")
         /\ msgs[3] = Msg("edit_message_text", t, 0, row.header, "closed")
         /\ msgs[4] = Msg("close_forum_topic", t, 0, row.topic, "none")
         /\ msgs[5] = Msg("ticket_closed", t, 0, 0, "none")
BY DEF ClosingMessages

\* What a decision says about topics, it says about the ticket's one topic.
LEMMA DecidedTopicId ==
  ASSUME IInv, Consistent, [Next]_vars, NEW r \in reading, Decide(r), NEW m \in (bus \cup Owed)'
  PROVE  TopicId(m)'
<1> DEFINE t == r.msg.ticket
<1>1. m \in bus \cup Owed => TopicId(m)'
  BY OldTopicId
<1>2. r.row.topic \in {0, 1} /\ TypeOK
  BY DEF Consistent, IInv, RowInv
<1>3. ASSUME NEW msgs, CallbackCommit(r, msgs), \A i \in DOMAIN msgs : TopicId(msgs[i])'
      PROVE  TopicId(m)'
  BY <1>1, <1>3, CommitWay
<1>4. CASE Refused(r)
  BY <1>3, <1>4 DEF Refused
<1>5. CASE ConfirmOrCancel(r)
  <2>1. PICK x : CallbackCommit(r, <<x>>) /\ x.type = "edit_message_text"
    BY <1>5 DEF ConfirmOrCancel, Msg
  <2>2. \A i \in DOMAIN <<x>> : <<x>>[i] = x
    OBVIOUS
  <2>3. TopicId(x)'
    BY <2>1 DEF TopicId
  <2> QED
    BY <1>3, <2>1, <2>2, <2>3
<1>6. CASE AssignTicket(r)
  <2>1. PICK msgs : /\ CallbackCommit(r, msgs) /\ DOMAIN msgs = 1..3
                    /\ msgs[1] = Msg("edit_forum_topic", t, 0, r.row.topic, "in_progress")
                    /\ msgs[2] = Msg("edit_message_text", t, 0, r.row.header, "in_progress")
                    /\ msgs[3] = Msg("ticket_assigned", t, 0, 0, "none")
    BY <1>6, AssignWay
  <2>2. r.row.topic = 1
    BY <1>2, <1>6 DEF AssignTicket, Consistent
  <2>3. TopicId(msgs[1])' /\ TopicId(msgs[2])' /\ TopicId(msgs[3])'
    BY <2>1, <2>2 DEF Msg, TopicId
  <2> QED
    BY <1>3, <2>1, <2>3
<1>7. CASE CommitClose(r)
  <2>1. PICK msgs : msgs = ClosingMessages(t, r.row) /\ CallbackCommit(r, msgs)
    BY <1>7 DEF CommitClose
  <2>2. db'[t].status = "closed"
    <3>1. t \in Tickets /\ db \in [Tickets -> Row]
      BY <1>2, ReadingType DEF TypeOK
    <3> QED
      BY <1>7, <3>1 DEF CommitClose, Row
  <2>3. /\ DOMAIN msgs = 1..5
        /\ msgs[1] = Msg("edit_forum_topic", t, 0, r.row.topic, "closed")
        /\ msgs[2] = Msg("send_message", t, 0, r.row.topic, "thanks")
        /\ msgs[3] = Msg("edit_message_text", t, 0, r.row.header, "closed")
        /\ msgs[4] = Msg("close_forum_topic", t, 0, r.row.topic, "none")
        /\ msgs[5] = Msg("ticket_closed", t, 0, 0, "none")
    BY <2>1, ClosingAre
  <2>4. r.row.topic = 1
    BY <1>2, <1>7 DEF CommitClose, CanClose
  <2>5. /\ TopicId(msgs[1])' /\ TopicId(msgs[2])' /\ TopicId(msgs[3])'
        /\ TopicId(msgs[4])' /\ TopicId(msgs[5])'
    BY <2>2, <2>3, <2>4 DEF Msg, TopicId
  <2>6. \A i \in DOMAIN msgs : i = 1 \/ i = 2 \/ i = 3 \/ i = 4 \/ i = 5
    BY <2>3
  <2>7. \A i \in DOMAIN msgs : TopicId(msgs[i])'
    BY <2>5, <2>6
  <2> QED
    BY <1>3, <2>1, <2>7
<1> QED
  BY <1>4, <1>5, <1>6, <1>7 DEF Decide

\* What a handler of core owes: one message, never an edit of a header or topic.
HandledTypes == {"send_message", "ticket_created", "edit_message_text"}

LEMMA HandledOwes ==
  ASSUME NEW m \in bus, CoreTakes(m)
  PROVE  \/ todo' = todo
         \/ \E x : \E h \in Tasks :
              /\ todo[h] = << >> /\ Owe(h, <<x>>)
              /\ x.type \in HandledTypes
              /\ x.type = "edit_message_text" => x.view = "taken"
<1> DEFINE Owes(x) == /\ \E h \in Tasks : todo[h] = << >> /\ Owe(h, <<x>>)
                      /\ x.type \in HandledTypes
                      /\ x.type = "edit_message_text" => x.view = "taken"
<1>1. HandleTopicCreated(m) => Owes(Header(m))
  BY DEF HandleTopicCreated, Header, Msg, Tasks, Receive, Free, HandledTypes
<1>2. HandleHeaderMessageSent(m) =>
        todo' = todo \/ Owes(Msg("ticket_created", m.ticket, 0, 0, "none"))
  BY DEF HandleHeaderMessageSent, Msg, Tasks, Receive, Free, HandledTypes
<1>3. PublishIncomingCard(m) =>
        \/ todo' = todo
        \/ Owes(Msg("send_message", m.ticket, Fresh(m.ticket, "corr"), 0, "offer"))
  BY DEF PublishIncomingCard, Msg, Tasks, Receive, Free, HandledTypes
<1>4. UpdateIncomingAfterAssign(m) =>
        \/ todo' = todo
        \/ Owes(Msg("edit_message_text", m.ticket, 0, db[m.ticket].inbox_msg, "taken"))
  BY DEF UpdateIncomingAfterAssign, Msg, Tasks, Receive, Free, HandledTypes
<1>5. AttachIncomingMessageId(m) \/ CallbackRead(m) \/ (\E h \in Tasks : AlreadyProcessed(h, m))
        => todo' = todo
  BY DEF AttachIncomingMessageId, CallbackRead, AlreadyProcessed
<1>6. todo' = todo \/ \E x : Owes(x)
  <2> HIDE DEF Owes
  <2> QED
    BY <1>1, <1>2, <1>3, <1>4, <1>5 DEF CoreTakes
<1> QED
  BY <1>6

\* The handlers of core say nothing about topics.
LEMMA HandledTopicId ==
  ASSUME IInv, Consistent, [Next]_vars, NEW o \in bus, CoreTakes(o), NEW m \in (bus \cup Owed)'
  PROVE  TopicId(m)'
<1>1. m \in bus \cup Owed => TopicId(m)'
  BY OldTopicId
<1>2. TypeOK
  BY DEF IInv, RowInv
<1>3. bus' \subseteq bus
  BY DEF CoreTakes, HandleTopicCreated, HandleHeaderMessageSent, AttachIncomingMessageId,
     PublishIncomingCard, UpdateIncomingAfterAssign, CallbackRead, AlreadyProcessed, Receive
<1>4. \/ todo' = todo
      \/ \E x : \E h \in Tasks : Owe(h, <<x>>) /\ x.type \in HandledTypes
  BY HandledOwes
<1>5. CASE todo' = todo
  BY <1>1, <1>3, <1>5, OwedSame
<1>6. ASSUME NEW h \in Tasks, NEW x, Owe(h, <<x>>), x.type \in HandledTypes
      PROVE  TopicId(m)'
  <2>1. TopicId(x)'
    BY <1>6 DEF TopicId, HandledTypes
  <2>2. m \in bus \cup Owed \/ m = x
    BY <1>2, <1>3, <1>6, OwedOneAfter
  <2> QED
    BY <1>1, <2>1, <2>2
<1> QED
  BY <1>4, <1>5, <1>6

\* What CreateForumTopic finds: its ticket has no topic yet.
LEMMA CreateFinds ==
  ASSUME IInv, NEW m \in bus, CreateForumTopic(m)
  PROVE  LET t == m.ticket
             ack == Msg("topic_created", t, m.corr, 1, "none") IN
         /\ TypeOK /\ t \in Tickets
         /\ clock[t]["topic"] = 0 /\ ack.n = 1
         /\ clock'[t]["topic"] = 1
         /\ \A x \in Tickets : clock'[x]["post"] = clock[x]["post"]
         /\ \A x \in Tickets \ {t} : clock'[x] = clock[x]
         /\ \A f \in topics : f.ticket # t
         /\ topics' = topics \cup {[ticket |-> t, id |-> 1, icon |-> "new", closed |-> FALSE]}
         /\ Executed(m, {ack})
<1> DEFINE t == m.ticket
<1>1. /\ TypeOK /\ t \in Tickets /\ Reached(t) /\ Shown(t) /\ OnePlace(t, "topic")
      /\ clock \in [Tickets -> [Sources -> Nat]]
  BY EntrySound DEF IInv, Once, Kinds, TypeOK
<1>2. IsOf(m, t, "topic")
  BY DEF CreateForumTopic, IsOf
<1>3. clock[t]["topic"] = 0 /\ clock[t]["topic_created"] = 0
  BY <1>1, <1>2 DEF OnePlace, Done, Reached
<1>4. Fresh(t, "topic") = 1 /\ Fresh(t, "topic_created") = 1
  BY <1>3 DEF Fresh
<1>5. /\ \A x \in Tickets : clock'[x]["post"] = clock[x]["post"]
      /\ clock'[t]["topic"] = 1
      /\ \A x \in Tickets \ {t} : clock'[x] = clock[x]
  BY <1>1, <1>3, TickClock DEF CreateForumTopic, Sources, Tasks, Ids
<1>6. \A f \in topics : f.ticket # t
  BY <1>1, <1>3 DEF Shown
<1> QED
  BY <1>1, <1>3, <1>4, <1>5, <1>6 DEF CreateForumTopic, Msg

LEMMA TopicIdStep ==
  ASSUME IInv, Consistent, [Next]_vars, NEW m \in (bus \cup Owed)'
  PROVE  TopicId(m)'
<1> DEFINE Goal == TopicId(m)'
<1>1. m \in bus \cup Owed => Goal
  BY OldTopicId
<1>2. TypeOK
  BY DEF IInv, RowInv
<1>3. \A x : x.type \notin {"topic_created", "edit_forum_topic", "close_forum_topic"} => TopicId(x)'
  BY DEF TopicId
<1>4. ASSUME NEW t \in Tickets, NEW u \in Users, CreateTicketPhase1(t, u)
      PROVE  Goal
  <2>1. PICK x : Owe("message", <<x>>) /\ x.type = "create_forum_topic" /\ bus' = bus
    BY <1>4 DEF CreateTicketPhase1, Msg
  <2>2. m \in bus \cup Owed \/ m = x
    BY <1>2, <2>1, OwedOneAfter DEF Tasks
  <2> QED
    BY <1>1, <1>3, <2>1, <2>2
<1>5. ASSUME NEW o \in bus, CreateForumTopic(o)
      PROVE  Goal
  <2>1. PICK ack : ack = Msg("topic_created", o.ticket, o.corr, 1, "none")
    OBVIOUS
  <2>2. /\ bus' \subseteq (bus \ {o}) \cup {ack} /\ clock'[o.ticket]["topic"] = 1
    BY <1>5, <2>1, CreateFinds, CarriedBus
  <2>3. todo' = todo
    BY <1>5 DEF CreateForumTopic, core
  <2>4. TopicId(ack)'
    BY <2>1, <2>2 DEF TopicId, Msg
  <2> QED
    BY <1>1, <2>2, <2>3, <2>4, OwedSame
<1>6. ASSUME NEW o \in bus, SendMessage(o)
      PROVE  Goal
  <2>1. PICK ack : ack = Msg("message_sent", o.ticket, o.corr, Fresh(o.ticket, "post"), "none")
    OBVIOUS
  <2>2. bus' \subseteq (bus \ {o}) \cup {ack} /\ todo' = todo
    BY <1>6, <2>1, CarriedBus DEF SendMessage, core
  <2>3. TopicId(ack)'
    BY <1>3, <2>1 DEF Msg
  <2> QED
    BY <1>1, <2>2, <2>3, OwedSame
<1>7. ASSUME NEW o \in bus, \/ EditMessageText(o) \/ EditForumTopic(o) \/ CloseForumTopic(o)
                            \/ TelegramRefuses(o)
      PROVE  Goal
  <2>1. bus' \subseteq bus /\ todo' = todo
    BY <1>7, CarriedBus DEF EditMessageText, EditForumTopic, CloseForumTopic, TelegramRefuses, core
  <2> QED
    BY <1>1, <2>1, OwedSame
<1>8. ASSUME NEW h \in Tasks, Publish(h)
      PROVE  Goal
  <2>1. bus' \subseteq bus \cup {Head(todo[h])}
    BY <1>8 DEF Publish
  <2> QED
    BY <1>1, <1>2, <1>8, <2>1, OwedLeft
<1>9. ASSUME NEW p \in posts, NEW b \in Buttons, NEW user \in People,
             NEW target \in Executors \cup {Nobody}, PressButton(p, b, user, target)
      PROVE  Goal
  <2> DEFINE press == [type |-> "callback", ticket |-> p.ticket,
                       n |-> Fresh(p.ticket, "callback"),
                       user |-> user, data |-> b, target |-> target]
  <2>1. PICK x : bus' = bus \cup {x} /\ x.type = "callback"
    <3>1. bus' = bus \cup {press} /\ press.type = "callback"
      BY <1>9 DEF PressButton
    <3> HIDE DEF press
    <3> QED
      BY <3>1
  <2>2. todo' = todo
    BY <1>9 DEF PressButton, core
  <2> QED
    BY <1>1, <1>3, <2>1, <2>2, OwedSame
<1>10. Crash => Goal
  <2>1. Crash => bus' = bus /\ \A h \in Tasks : DOMAIN todo'[h] = {}
    BY DEF Crash
  <2> QED
    BY <1>1, <2>1, OwedIs
<1>11. UNCHANGED vars => Goal
  BY <1>1, OwedSame DEF vars
<1> HIDE DEF Goal
<1>12. \A o \in bus : CoreTakes(o) => Goal
  BY HandledTopicId DEF Goal
<1>13. \A r \in reading : Decide(r) => Goal
  BY DecidedTopicId DEF Goal
<1>14. Goal
  BY <1>4, <1>5, <1>6, <1>7, <1>8, <1>9, <1>10, <1>11, <1>12, <1>13 DEF Next, Carries
<1> QED
  BY <1>14 DEF Goal

LEMMA HandledInside ==
  ASSUME IInv, NEW m \in bus, CoreTakes(m)
  PROVE  Inside
<1>11. TypeOK
  BY DEF IInv, RowInv
<1>12. ASSUME topics' = topics, posts' = posts, clock' = clock
      PROVE  Inside
  BY <1>12 DEF Inside
<1> DEFINE Ticks == \E S : Tick(m.ticket, S) /\ S \cap Outside = {}
<1>1. topics' = topics /\ posts' = posts /\ m.ticket \in Tickets
  BY <1>11, EntryType
     DEF CoreTakes, HandleTopicCreated, HandleHeaderMessageSent, AttachIncomingMessageId,
     PublishIncomingCard, UpdateIncomingAfterAssign, CallbackRead, AlreadyProcessed, telegram
<1>2. HandleTopicCreated(m) => Ticks
  BY DEF HandleTopicCreated, Outside
<1>3. HandleHeaderMessageSent(m) => clock' = clock \/ Ticks
  BY DEF HandleHeaderMessageSent, Outside
<1>4. PublishIncomingCard(m) => clock' = clock \/ Ticks
  BY DEF PublishIncomingCard, Outside
<1>5. UpdateIncomingAfterAssign(m) => clock' = clock \/ Ticks
  BY DEF UpdateIncomingAfterAssign, Outside
<1>6. AttachIncomingMessageId(m) \/ CallbackRead(m) \/ (\E h \in Tasks : AlreadyProcessed(h, m))
        => clock' = clock
  BY DEF AttachIncomingMessageId, CallbackRead, AlreadyProcessed
<1> HIDE DEF Ticks
<1>7. clock' = clock \/ Ticks
  BY <1>2, <1>3, <1>4, <1>5, <1>6 DEF CoreTakes
<1>8. Ticks => Inside
  BY <1>11, <1>1, TickInside DEF Ticks
<1> QED
  BY <1>12, <1>1, <1>7, <1>8

LEMMA DecidedInside ==
  ASSUME IInv, Consistent, NEW r \in reading, Decide(r)
  PROVE  Inside
<1>11. TypeOK
  BY DEF IInv, RowInv
<1>1. PICK msgs : CallbackCommit(r, msgs) /\ \A i \in DOMAIN msgs : msgs[i].type \in Decided
  <2>1. CASE Refused(r)
    BY <2>1 DEF Refused
  <2>2. CASE ConfirmOrCancel(r)
    <3>1. PICK x : CallbackCommit(r, <<x>>) /\ x.type = "edit_message_text"
      BY <2>2 DEF ConfirmOrCancel, Msg
    <3>2. \A i \in DOMAIN <<x>> : <<x>>[i] = x
      OBVIOUS
    <3> QED
      BY <3>1, <3>2 DEF Decided
  <2>3. CASE AssignTicket(r)
    <3> DEFINE t == r.msg.ticket
    <3>0. PICK msgs : /\ CallbackCommit(r, msgs) /\ DOMAIN msgs = 1..3
                      /\ msgs[1] = Msg("edit_forum_topic", t, 0, r.row.topic, "in_progress")
                      /\ msgs[2] = Msg("edit_message_text", t, 0, r.row.header, "in_progress")
                      /\ msgs[3] = Msg("ticket_assigned", t, 0, 0, "none")
      BY <2>3, AssignWay
    <3>1. /\ CallbackCommit(r, msgs) /\ DOMAIN msgs = 1..3
          /\ msgs[1].type = "edit_forum_topic"
          /\ msgs[2].type = "edit_message_text"
          /\ msgs[3].type = "ticket_assigned"
      BY <3>0, MsgIs
    <3>2. \A i \in DOMAIN msgs : i = 1 \/ i = 2 \/ i = 3
      BY <3>1
    <3>3. \A i \in DOMAIN msgs : msgs[i].type \in Decided
      BY <3>1, <3>2 DEF Decided
    <3> QED
      BY <3>1, <3>3
  <2>4. CASE CommitClose(r)
    <3>1. PICK msgs : msgs = ClosingMessages(r.msg.ticket, r.row) /\ CallbackCommit(r, msgs)
      BY <2>4 DEF CommitClose
    <3>2. /\ DOMAIN msgs = 1..5
          /\ msgs[1].type = "edit_forum_topic" /\ msgs[2].type = "send_message"
          /\ msgs[3].type = "edit_message_text" /\ msgs[4].type = "close_forum_topic"
          /\ msgs[5].type = "ticket_closed"
      BY <3>1, ClosingAre, MsgIs
    <3>3. \A i \in DOMAIN msgs : i = 1 \/ i = 2 \/ i = 3 \/ i = 4 \/ i = 5
      BY <3>2
    <3>4. \A i \in DOMAIN msgs : msgs[i].type \in Decided
      BY <3>2, <3>3 DEF Decided
    <3> QED
      BY <3>1, <3>4
  <2> QED
    BY <2>1, <2>2, <2>3, <2>4 DEF Decide
<1> DEFINE S == {msgs[i].type : i \in DOMAIN msgs}
<1>2. S \cap Outside = {}
  BY <1>1 DEF Decided, Outside
<1>3. Tick(r.msg.ticket, S) /\ topics' = topics /\ posts' = posts
  BY <1>1 DEF CallbackCommit, telegram
<1>4. r.msg.ticket \in Tickets
  BY <1>11, ReadingType
<1> HIDE DEF S
<1> QED
  BY <1>11, <1>2, <1>3, <1>4, TickInside

\* Only gateway-tg changes what Telegram shows, and the clocks of its ids.
LEMMA InsideStep ==
  ASSUME IInv, Consistent, [Next]_vars, ~\E m \in bus : Carries(m)
  PROVE  Inside
<1>1. TypeOK
  BY DEF IInv, RowInv
<1>2. ASSUME topics' = topics, posts' = posts, clock' = clock
      PROVE  Inside
  BY <1>2 DEF Inside
<1>3. ASSUME NEW m \in bus, CoreTakes(m)
      PROVE  Inside
  BY <1>3, HandledInside
<1>4. ASSUME NEW r \in reading, Decide(r)
      PROVE  Inside
  BY <1>4, DecidedInside
<1>5. ASSUME NEW t \in Tickets, NEW u \in Users, CreateTicketPhase1(t, u)
      PROVE  Inside
  BY <1>1, <1>5, TickInside DEF CreateTicketPhase1, telegram, Outside
<1>6. ASSUME NEW p \in posts, NEW b \in Buttons, NEW user \in People,
             NEW target \in Executors \cup {Nobody}, PressButton(p, b, user, target)
      PROVE  Inside
  <2>1. p.ticket \in Tickets
    BY <1>1 DEF TypeOK
  <2> QED
    BY <1>1, <1>6, <2>1, TickInside DEF PressButton, telegram, Outside
<1>7. (\E m \in bus : TelegramRefuses(m)) \/ (\E h \in Tasks : Publish(h)) \/ Crash \/ UNCHANGED vars
        => topics' = topics /\ posts' = posts /\ clock' = clock
  BY DEF TelegramRefuses, Publish, Crash, vars, telegram
<1> QED
  BY <1>2, <1>3, <1>4, <1>5, <1>6, <1>7 DEF Next

\* What SendMessage shows: one more post, under the next number.
LEMMA SendShows ==
  ASSUME IInv, NEW m \in bus, SendMessage(m), NEW t \in Tickets
  PROVE  /\ topics' = topics /\ clock'[t]["topic"] = clock[t]["topic"]
         /\ posts \subseteq posts'
         /\ t # m.ticket => clock'[t]["post"] = clock[t]["post"]
         /\ t = m.ticket =>
              /\ clock'[t]["post"] = clock[t]["post"] + 1
              /\ [ticket |-> t, id |-> clock[t]["post"] + 1, view |-> m.view] \in posts'
<1>1. TypeOK /\ m.ticket \in Tickets /\ "post" \in Sources /\ "topic" \in Sources
  BY EntryType DEF IInv, RowInv, Sources, Ids
<1> DEFINE S == {"post"} \cup (IF m.corr = 0 THEN {} ELSE {"message_sent"})
<1>2. Tick(m.ticket, S) /\ "topic" \notin S /\ "post" \in S
  BY DEF SendMessage
<1> HIDE DEF S
<1>3. /\ \A s \in Sources : clock'[m.ticket][s] =
           IF s \in S THEN clock[m.ticket][s] + 1 ELSE clock[m.ticket][s]
      /\ \A x \in Tickets \ {m.ticket} : clock'[x] = clock[x]
  BY <1>1, <1>2, TickClock
<1>4. topics' = topics
  BY DEF SendMessage
<1>5. posts' = posts \cup {[ticket |-> m.ticket, id |-> clock[m.ticket]["post"] + 1, view |-> m.view]}
  BY DEF SendMessage, Fresh
<1> QED
  BY <1>1, <1>2, <1>3, <1>4, <1>5

\* What an edit makes of a topic: the same topic.
LEMMA EditedTopic ==
  ASSUME IInv, NEW m \in bus, EditForumTopic(m) \/ CloseForumTopic(m), NEW f \in topics
  PROVE  LET hit == f.ticket = m.ticket /\ f.id = m.id IN
         \E g \in topics' :
           /\ g.ticket = f.ticket /\ g.id = f.id
           /\ g.icon = IF hit /\ EditForumTopic(m) THEN m.view ELSE f.icon
           /\ g.closed = IF hit /\ CloseForumTopic(m) THEN TRUE ELSE f.closed
<1>1. f \in [ticket : Tickets, id : Nat, icon : Views, closed : BOOLEAN]
  BY DEF IInv, RowInv, TypeOK
<1>2. CASE EditForumTopic(m)
  <2> DEFINE g == IF f.ticket = m.ticket /\ f.id = m.id THEN [f EXCEPT !.icon = m.view] ELSE f
  <2>1. g \in topics' /\ ~CloseForumTopic(m)
    BY <1>2 DEF EditForumTopic, CloseForumTopic
  <2>2. /\ g.ticket = f.ticket /\ g.id = f.id /\ g.closed = f.closed
        /\ g.icon = IF f.ticket = m.ticket /\ f.id = m.id THEN m.view ELSE f.icon
    BY <1>1
  <2> HIDE DEF g
  <2> QED
    BY <1>2, <2>1, <2>2
<1>3. CASE CloseForumTopic(m)
  <2> DEFINE g == IF f.ticket = m.ticket /\ f.id = m.id THEN [f EXCEPT !.closed = TRUE] ELSE f
  <2>1. g \in topics' /\ ~EditForumTopic(m)
    BY <1>3 DEF EditForumTopic, CloseForumTopic
  <2>2. /\ g.ticket = f.ticket /\ g.id = f.id /\ g.icon = f.icon
        /\ g.closed = IF f.ticket = m.ticket /\ f.id = m.id THEN TRUE ELSE f.closed
    BY <1>1
  <2> HIDE DEF g
  <2> QED
    BY <1>3, <2>1, <2>2
<1> QED
  BY <1>2, <1>3

\* Every topic of afterwards is one of before.
LEMMA EditedTopicWas ==
  ASSUME IInv, NEW m \in bus, EditForumTopic(m) \/ CloseForumTopic(m), NEW g \in topics'
  PROVE  LET hit == g.ticket = m.ticket /\ g.id = m.id IN
         \E f \in topics :
           /\ g.ticket = f.ticket /\ g.id = f.id
           /\ g.icon = IF hit /\ EditForumTopic(m) THEN m.view ELSE f.icon
           /\ g.closed => f.closed \/ (hit /\ CloseForumTopic(m))
           /\ f.closed => g.closed
           /\ hit /\ CloseForumTopic(m) => g.closed
<1>1. \A f \in topics : f \in [ticket : Tickets, id : Nat, icon : Views, closed : BOOLEAN]
  BY DEF IInv, RowInv, TypeOK
<1>2. CASE EditForumTopic(m)
  <2>1. PICK f \in topics : g = IF f.ticket = m.ticket /\ f.id = m.id
                                THEN [f EXCEPT !.icon = m.view] ELSE f
    BY <1>2 DEF EditForumTopic
  <2>2. ~CloseForumTopic(m)
    BY <1>2 DEF EditForumTopic, CloseForumTopic
  <2>3. /\ g.ticket = f.ticket /\ g.id = f.id /\ g.closed = f.closed
        /\ g.icon = IF f.ticket = m.ticket /\ f.id = m.id THEN m.view ELSE f.icon
    BY <1>1, <2>1
  <2> QED
    BY <1>2, <2>2, <2>3
<1>3. CASE CloseForumTopic(m)
  <2>1. PICK f \in topics : g = IF f.ticket = m.ticket /\ f.id = m.id
                                THEN [f EXCEPT !.closed = TRUE] ELSE f
    BY <1>3 DEF CloseForumTopic
  <2>2. ~EditForumTopic(m)
    BY <1>3 DEF EditForumTopic, CloseForumTopic
  <2>3. /\ g.ticket = f.ticket /\ g.id = f.id /\ g.icon = f.icon
        /\ g.closed = IF f.ticket = m.ticket /\ f.id = m.id THEN TRUE ELSE f.closed
    BY <1>1, <2>1
  <2> QED
    BY <1>3, <2>2, <2>3
<1> QED
  BY <1>2, <1>3

\* Telegram shows what its clocks say, and closes the topics of closed tickets only.
LEMMA ShownStep ==
  ASSUME IInv, Consistent, [Next]_vars, NEW t \in Tickets
  PROVE  /\ clock'[t]["topic"] # 0 => \E f \in topics' : f.ticket = t
         /\ clock'[t]["post"] # 0 => \E p \in posts' : p.ticket = t /\ p.id = 1
         /\ \A f \in topics' : f.ticket = t => f.id = 1 /\ (f.closed => db'[t].status = "closed")
<1>1. /\ TypeOK /\ Attached(t) /\ (db[t].status = "closed" => db'[t].status = "closed")
  BY TopicOfStep DEF Consistent, IInv, RowInv
<1>2. CASE ~\E m \in bus : Carries(m)
  <2>1. topics' = topics /\ posts' = posts /\ clock'[t]["topic"] = clock[t]["topic"]
        /\ clock'[t]["post"] = clock[t]["post"]
    BY <1>2, InsideStep DEF Inside, Outside
  <2> QED
    BY <1>1, <2>1 DEF Attached
<1>3. ASSUME NEW m \in bus, CreateForumTopic(m)
      PROVE  /\ clock'[t]["topic"] # 0 => \E f \in topics' : f.ticket = t
             /\ clock'[t]["post"] # 0 => \E p \in posts' : p.ticket = t /\ p.id = 1
             /\ \A f \in topics' : f.ticket = t => f.id = 1 /\ (f.closed => db'[t].status = "closed")
  <2>1. PICK f : /\ f = [ticket |-> m.ticket, id |-> 1, icon |-> "new", closed |-> FALSE]
                 /\ topics' = topics \cup {f}
    BY <1>3, CreateFinds
  <2>2. posts' = posts /\ clock'[t]["post"] = clock[t]["post"]
        /\ (t # m.ticket => clock'[t]["topic"] = clock[t]["topic"])
    BY <1>3, CreateFinds DEF CreateForumTopic
  <2>3. f.ticket = m.ticket /\ f.id = 1 /\ ~f.closed
    BY <2>1
  <2> QED
    BY <1>1, <2>1, <2>2, <2>3 DEF Attached
<1>4. ASSUME NEW m \in bus, SendMessage(m)
      PROVE  /\ clock'[t]["topic"] # 0 => \E f \in topics' : f.ticket = t
             /\ clock'[t]["post"] # 0 => \E p \in posts' : p.ticket = t /\ p.id = 1
             /\ \A f \in topics' : f.ticket = t => f.id = 1 /\ (f.closed => db'[t].status = "closed")
  <2>1. topics' = topics /\ clock'[t]["topic"] = clock[t]["topic"]
    BY <1>4, SendShows
  <2>2. clock'[t]["post"] # 0 => \E p \in posts' : p.ticket = t /\ p.id = 1
    <3>1. CASE t # m.ticket \/ clock[t]["post"] # 0
      BY <1>1, <1>4, <3>1, SendShows DEF Attached
    <3>2. CASE t = m.ticket /\ clock[t]["post"] = 0
      <4>1. [ticket |-> t, id |-> 1, view |-> m.view] \in posts'
        BY <1>4, <3>2, SendShows
      <4> QED
        BY <4>1
    <3> QED
      BY <3>1, <3>2
  <2> QED
    BY <1>1, <2>1, <2>2 DEF Attached
<1>5. ASSUME NEW m \in bus, EditMessageText(m)
      PROVE  /\ clock'[t]["topic"] # 0 => \E f \in topics' : f.ticket = t
             /\ clock'[t]["post"] # 0 => \E p \in posts' : p.ticket = t /\ p.id = 1
             /\ \A f \in topics' : f.ticket = t => f.id = 1 /\ (f.closed => db'[t].status = "closed")
  <2>1. topics' = topics /\ clock' = clock
    BY <1>5 DEF EditMessageText
  <2>2. \A p \in posts : \E q \in posts' : q.ticket = p.ticket /\ q.id = p.id
    BY <1>5, EditedPost
  <2> QED
    BY <1>1, <2>1, <2>2 DEF Attached
<1>6. ASSUME NEW m \in bus, EditForumTopic(m) \/ CloseForumTopic(m)
      PROVE  /\ clock'[t]["topic"] # 0 => \E f \in topics' : f.ticket = t
             /\ clock'[t]["post"] # 0 => \E p \in posts' : p.ticket = t /\ p.id = 1
             /\ \A f \in topics' : f.ticket = t => f.id = 1 /\ (f.closed => db'[t].status = "closed")
  <2>1. posts' = posts /\ clock' = clock
    BY <1>6 DEF EditForumTopic, CloseForumTopic
  <2>2. \A f \in topics : \E g \in topics' : g.ticket = f.ticket
    BY <1>6, EditedTopic
  <2>3. CloseForumTopic(m) => db[m.ticket].status = "closed"
    BY DEF CloseForumTopic, Consistent, TopicId
  <2>4. ASSUME NEW g \in topics', g.ticket = t
        PROVE  g.id = 1 /\ (g.closed => db'[t].status = "closed")
    <3>1. PICK f \in topics :
            /\ g.ticket = f.ticket /\ g.id = f.id
            /\ g.closed => f.closed \/ (g.ticket = m.ticket /\ CloseForumTopic(m))
      BY <1>6, EditedTopicWas
    <3> QED
      BY <1>1, <2>3, <2>4, <3>1 DEF Attached
  <2> QED
    BY <1>1, <2>1, <2>2, <2>4 DEF Attached
<1> QED
  BY <1>2, <1>3, <1>4, <1>5, <1>6 DEF Carries

\* Consistent holds of every state.
LEMMA AttachedStep ==
  ASSUME IInv, Consistent, [Next]_vars, NEW t \in Tickets
  PROVE  Attached(t)'
<1> DEFINE a == <<"topic_created", t, 1>>
           b == <<"message_sent", t, 1>>
<1>1. Attached(t) /\ TypeOK
  BY DEF Consistent, IInv, RowInv
<1>2. /\ db[t].topic # 0 => db'[t].topic = db[t].topic
      /\ db[t].header # 0 => db'[t].header = db[t].header
  BY TopicOfStep
<1>3. /\ a \in processed' \ processed => db'[t].topic # 0
      /\ b \in processed' \ processed => db'[t].header # 0
  <2>1. ASSUME NEW r \in reading, Decide(r)
        PROVE  a \notin processed' \ processed /\ b \notin processed' \ processed
    <3>1. r.msg.type = "callback"
      BY <1>1 DEF TypeOK, Press
    <3>2. processed' = processed \cup {<<r.msg.type, r.msg.ticket, r.msg.n>>}
      BY <2>1 DEF Decide, Refused, AssignTicket, ConfirmOrCancel, CommitClose, CallbackCommit,
         Mark, EventId
    <3> QED
      BY <3>1, <3>2
  <2>2. \/ \E x \in Tickets, u \in Users : CreateTicketPhase1(x, u)
        \/ \E m \in bus : Carries(m) \/ TelegramRefuses(m)
        \/ \E h \in Tasks : Publish(h)
        \/ \E p \in posts, c \in Buttons, user \in People, target \in Executors \cup {Nobody} :
             PressButton(p, c, user, target)
        \/ Crash
        \/ UNCHANGED vars
        => processed' = processed
    BY DEF CreateTicketPhase1, Carries, CreateForumTopic, SendMessage, EditMessageText,
       EditForumTopic, CloseForumTopic, TelegramRefuses, Publish, PressButton, Crash, core, vars
  <2>3. ASSUME NEW m \in bus, CoreTakes(m)
        PROVE  /\ a \in processed' \ processed => db'[t].topic # 0
               /\ b \in processed' \ processed => db'[t].header # 0
    BY <2>3, MarksAttach
  <2> HIDE DEF a, b
  <2> QED
    BY <2>1, <2>2, <2>3 DEF Next
<1>4. db'[t].topic \in {0, 1} /\ (db'[t].topic # 0 => clock'[t]["topic"] # 0)
  <2>1. db'[t].topic \in {0, 1} /\ (db'[t].topic # 0 => clock[t]["topic"] # 0)
    BY ColumnStep
  <2>2. "topic" \in Sources /\ TypeOK'
    BY <1>1, TypeStep DEF Sources, Ids
  <2>3. clock'[t]["topic"] >= clock[t]["topic"]
    BY <1>1, <2>2, ClockStep
  <2>4. clock[t]["topic"] \in Nat /\ clock'[t]["topic"] \in Nat
    BY <1>1, <2>2 DEF TypeOK
  <2> QED
    BY <2>1, <2>3, <2>4
<1>5. /\ a \in processed' => db'[t].topic # 0
      /\ b \in processed' => db'[t].header # 0
  BY <1>1, <1>2, <1>3 DEF Attached
<1> QED
  BY <1>4, <1>5, ShownStep DEF Attached

LEMMA ConsistentStep ==
  ASSUME IInv, Consistent, [Next]_vars
  PROVE  Consistent'
<1>1. left'.fail <= MaxFail /\ left'.crash <= MaxCrash
  <2>1. TypeOK /\ TypeOK'
    BY TypeStep DEF IInv, RowInv
  <2>2. left'.fail <= left.fail /\ left'.crash <= left.crash
    BY <2>1, LeftStep
  <2>3. left.fail <= MaxFail /\ left.crash <= MaxCrash
    BY DEF Consistent
  <2>4. /\ left.fail \in Nat /\ left.crash \in Nat /\ left'.fail \in Nat /\ left'.crash \in Nat
        /\ MaxFail \in Nat /\ MaxCrash \in Nat
    BY <2>1, BoundsAssumption DEF TypeOK
  <2> QED
    BY <2>2, <2>3, <2>4
<1> QED
  BY <1>1, AttachedStep, TopicIdStep, ReadingStep DEF Consistent

LEMMA ConsistentInit == Init => Consistent
<1> SUFFICES ASSUME Init PROVE Consistent
  OBVIOUS
<1>1. left.fail = MaxFail /\ left.crash = MaxCrash /\ MaxFail \in Nat /\ MaxCrash \in Nat
  BY BoundsAssumption DEF Init
<1>2. \A t \in Tickets : db[t].topic = 0 /\ clock[t]["topic"] = 0 /\ clock[t]["post"] = 0
  BY DEF Init, NoRow, Sources, Ids
<1>3. processed = {} /\ topics = {} /\ bus = {} /\ reading = {} /\ \A h \in Tasks : DOMAIN todo[h] = {}
  BY DEF Init
<1>4. bus \cup Owed = {}
  BY <1>3, OwedIs
<1>5. \A t \in Tickets : Attached(t)
  BY <1>2, <1>3 DEF Attached
<1> QED
  BY <1>1, <1>3, <1>4, <1>5 DEF Consistent

-----------------------------------------------------------------------------
(* Undisturbed steps, and what they do to what is under way.               *)

LEMMA StillUndisturbed ==
  ASSUME IInv, Consistent, [Next]_vars, Undisturbed'
  PROVE  /\ Undisturbed /\ ~Crash
         /\ \A m \in bus : ~TelegramRefuses(m)
         /\ \A m, acks : Executed(m, acks) => bus' = (bus \ {m}) \cup acks
<1>1. TypeOK
  BY DEF IInv, RowInv
<1>2. left \in [press : Nat, redelivery : Nat, fail : Nat, crash : Nat]
  BY <1>1 DEF TypeOK
<1>3. left'.fail = MaxFail /\ left'.crash = MaxCrash
  BY DEF Undisturbed
<1>4. left'.fail = left.fail /\ left'.crash = left.crash
  <2>1. left'.fail <= left.fail /\ left'.crash <= left.crash
    BY <1>1, LeftStep
  <2>2. left.fail <= MaxFail /\ left.crash <= MaxCrash
    BY DEF Consistent
  <2> QED
    BY <1>2, <1>3, <2>1, <2>2, BoundsAssumption
<1>5. left' # [left EXCEPT !.fail = @ - 1] /\ left' # [left EXCEPT !.crash = @ - 1]
  BY <1>2, <1>4
<1> QED
  BY <1>3, <1>4, <1>5 DEF Undisturbed, Crash, TelegramRefuses, Executed

\* m is no longer waited for when it is gone.
Needless(m) ==
  /\ m.type \notin {"create_forum_topic", "send_message", "close_forum_topic"}
  /\ m.type = "topic_created" => db'[m.ticket].topic # 0
  /\ m.type = "message_sent" => m.n # 1 \/ db'[m.ticket].header # 0

LEMMA CompletesKept ==
  ASSUME NEW t \in Tickets, Completes(t),
         db'[t].status # "none" => db[t].status # "none",
         db'[t].status = "closed" => db[t].status = "closed",
         db'[t].topic = 0 <=> db[t].topic = 0,
         db'[t].header = 0 => db[t].header = 0,
         \A m \in bus \cup Owed : m.ticket = t => m \in (bus \cup Owed)' \/ Needless(m),
         \A p \in posts : p.ticket = t /\ p.view = "thanks" =>
           \E q \in posts' : q.ticket = t /\ q.view = "thanks",
         \A g \in topics' : g.ticket = t =>
           \E f \in topics : f.ticket = t /\ (f.closed => g.closed)
  PROVE  Completes(t)'
<1> DEFINE Way == bus \cup Owed
<1>1. db'[t].status # "none" /\ db'[t].topic = 0 =>
        \E m \in Way' : /\ m.ticket = t
                        /\ \/ m.type = "create_forum_topic" /\ m.view = "none"
                           \/ m.type = "topic_created" /\ m.n = 1
  BY DEF Completes, Awaits, Needless
<1>2. db'[t].topic # 0 /\ db'[t].header = 0 =>
        \E m \in Way' : /\ m.ticket = t
                        /\ \/ m.type = "send_message" /\ m.view = "new"
                           \/ m.type = "message_sent" /\ m.n = 1
  BY DEF Completes, Awaits, Needless
<1>3. db'[t].status = "closed" =>
        \/ \E m \in Way' : m.ticket = t /\ m.type = "send_message" /\ m.view = "thanks"
        \/ \E p \in posts' : p.ticket = t /\ p.view = "thanks"
  BY DEF Completes, Needless
<1>4. db'[t].status = "closed" =>
        \/ \E m \in Way' : m.ticket = t /\ m.type = "close_forum_topic"
        \/ \A f \in topics' : f.ticket = t => f.closed
  BY DEF Completes, Needless
<1> QED
  BY <1>1, <1>2, <1>3, <1>4 DEF Completes, Awaits

\* What the handler of m leaves under way: everything but m.
LEMMA HandledWay ==
  ASSUME IInv, NEW m \in bus, NEW h \in Tasks, Receive(h, m),
         todo' = todo \/ \E msgs : Owe(h, msgs), NEW o \in bus \cup Owed
  PROVE  o = m \/ o \in (bus \cup Owed)'
<1>1. TypeOK /\ todo[h] = << >> /\ bus \ {m} \subseteq bus'
  BY DEF IInv, RowInv, Receive, Free
<1>2. o \in Owed => o \in Owed'
  BY <1>1, OwedSame, OwedNow
<1> QED
  BY <1>1, <1>2

\* An acknowledgement that core takes has attached its id, now or before.
LEMMA TakenNeedless ==
  ASSUME IInv, Consistent, [Next]_vars, NEW m \in bus, CoreTakes(m)
  PROVE  Needless(m)
<1> DEFINE t == m.ticket
<1>1. /\ t \in Tickets /\ Sound(m) /\ Attached(t)
  BY EntrySound DEF Consistent
<1>2. /\ db[t].topic # 0 => db'[t].topic # 0
      /\ db[t].header # 0 => db'[t].header # 0
  BY <1>1, TopicOfStep
<1>3. m.type \in Tasks
  BY DEF CoreTakes, HandleTopicCreated, HandleHeaderMessageSent, AttachIncomingMessageId,
     PublishIncomingCard, UpdateIncomingAfterAssign, CallbackRead, AlreadyProcessed, Receive, Tasks
<1>4. m.type \notin {"create_forum_topic", "send_message", "close_forum_topic"}
  BY <1>3 DEF Tasks
<1>5. m.n = 1 /\ m.type \in Acks => EventId(m) \in processed'
  <2>1. HandleTopicCreated(m) \/ HandleHeaderMessageSent(m) => EventId(m) \in processed'
    BY DEF HandleTopicCreated, HandleHeaderMessageSent, Mark
  <2>2. (\E h \in Tasks : AlreadyProcessed(h, m)) => EventId(m) \in processed'
    BY DEF AlreadyProcessed, Seen
  <2>3. AttachIncomingMessageId(m) => m.n = 2
    BY <1>1 DEF AttachIncomingMessageId, Receive, Sound
  <2>4. PublishIncomingCard(m) \/ UpdateIncomingAfterAssign(m) \/ CallbackRead(m) => m.type \notin Acks
    BY DEF PublishIncomingCard, UpdateIncomingAfterAssign, CallbackRead, Receive, Acks
  <2> QED
    BY <2>1, <2>2, <2>3, <2>4 DEF CoreTakes
<1>6. /\ <<"topic_created", t, 1>> \in processed' => db'[t].topic # 0
      /\ <<"message_sent", t, 1>> \in processed' => db'[t].header # 0
  BY <1>1, <1>2, MarksAttach DEF Attached
<1>7. m.type = "topic_created" => db'[t].topic # 0
  BY <1>1, <1>5, <1>6 DEF EventId, Acks, Sound
<1>8. m.type = "message_sent" => m.n # 1 \/ db'[t].header # 0
  BY <1>5, <1>6 DEF EventId, Acks
<1> QED
  BY <1>4, <1>7, <1>8 DEF Needless

\* Whoever takes m leaves everything else under way.
LEMMA TakenWay ==
  ASSUME IInv, NEW m \in bus, CoreTakes(m), NEW o \in bus \cup Owed
  PROVE  o = m \/ o \in (bus \cup Owed)'
<1> DEFINE Leaves == \E h \in Tasks : /\ Receive(h, m)
                                      /\ todo' = todo \/ \E msgs : Owe(h, msgs)
<1>1. HandleTopicCreated(m) => Leaves
  BY DEF HandleTopicCreated, Tasks
<1>2. HandleHeaderMessageSent(m) => Leaves
  BY DEF HandleHeaderMessageSent, Tasks
<1>3. PublishIncomingCard(m) => Leaves
  BY DEF PublishIncomingCard, Tasks
<1>4. UpdateIncomingAfterAssign(m) => Leaves
  BY DEF UpdateIncomingAfterAssign, Tasks
<1>5. AttachIncomingMessageId(m) \/ CallbackRead(m) \/ (\E h \in Tasks : AlreadyProcessed(h, m))
        => Leaves
  BY DEF AttachIncomingMessageId, CallbackRead, AlreadyProcessed, Tasks
<1> HIDE DEF Leaves
<1>6. Leaves
  BY <1>1, <1>2, <1>3, <1>4, <1>5 DEF CoreTakes
<1> QED
  BY <1>6, HandledWay DEF Leaves

LEMMA CompletesHandled ==
  ASSUME IInv, Consistent, [Next]_vars, NEW m \in bus, CoreTakes(m), NEW t \in Tickets, Completes(t),
         ~HandleTopicCreated(m) \/ t # m.ticket
  PROVE  Completes(t)'
<1>1. db'[t].status = db[t].status /\ db'[t].topic = db[t].topic
  BY RowsHandled
<1>2. db'[t].header = 0 => db[t].header = 0
  BY TopicOfStep
<1>3. \A o \in bus \cup Owed : o.ticket = t => o \in (bus \cup Owed)' \/ Needless(o)
  BY TakenWay, TakenNeedless
<1>4. topics' = topics /\ posts' = posts
  BY DEF CoreTakes, HandleTopicCreated, HandleHeaderMessageSent, AttachIncomingMessageId,
     PublishIncomingCard, UpdateIncomingAfterAssign, CallbackRead, AlreadyProcessed, telegram
<1> QED
  BY <1>1, <1>2, <1>3, <1>4, CompletesKept

\* Phase 2 sends the header.
LEMMA CompletesTopicCreated ==
  ASSUME IInv, Consistent, [Next]_vars, NEW m \in bus, HandleTopicCreated(m)
  PROVE  Completes(m.ticket)'
<1> DEFINE t == m.ticket
<1>1. /\ TypeOK /\ t \in Tickets /\ db[t] \in Row /\ Reached(t)
      /\ m.n = 1 /\ m.type = "topic_created" /\ m.id = 1
  BY EntrySound DEF HandleTopicCreated, Receive, Sound, Consistent, TopicId
<1>2. db' = [db EXCEPT ![t].topic = m.id] /\ todo["topic_created"] = << >>
      /\ Owe("topic_created", <<Header(m)>>) /\ "topic_created" \in Tasks
  BY DEF HandleTopicCreated, Receive, Free, Tasks
<1>3. db'[t].topic = 1 /\ db'[t].status = db[t].status
  BY <1>1, <1>2 DEF TypeOK, Row
<1>4. db[t].status # "closed"
  <2>1. <<"topic_created", t, 1>> \notin processed
    BY <1>1 DEF HandleTopicCreated, Seen, EventId
  <2>2. db[t].topic = 0
    BY <1>1, <2>1 DEF Reached
  <2> QED
    BY <1>1, <2>2 DEF IInv, RowInv, WorkedOnIsAttached
<1>5. PICK x : x = Header(m)
  OBVIOUS
<1>6. x.ticket = t /\ x.type = "send_message" /\ x.view = "new"
  BY <1>5, MsgIs DEF Header
<1>7. x \in Owed'
  BY <1>1, <1>2, <1>5, OwedOneNow
<1>8. Awaits(t, "send_message", "new", "message_sent")'
  BY <1>6, <1>7 DEF Awaits
<1> QED
  BY <1>3, <1>4, <1>8 DEF Completes

LEMMA CompletesCreate ==
  ASSUME IInv, Consistent, NEW x \in Tickets, NEW u \in Users, CreateTicketPhase1(x, u),
         NEW t \in Tickets, Completes(t)
  PROVE  Completes(t)'
<1> DEFINE corr == Fresh(x, "corr")
           r == [NoRow EXCEPT !.status = "new", !.author = u, !.corr = corr]
<1>1. /\ TypeOK /\ "message" \in Tasks /\ db \in [Tickets -> Row]
  BY DEF IInv, RowInv, TypeOK, Tasks
<1>2. /\ db' = [db EXCEPT ![x] = r] /\ bus' = bus /\ topics' = topics /\ posts' = posts
      /\ todo["message"] = << >>
  BY DEF CreateTicketPhase1, Free, telegram
<1>3. r.status = "new" /\ r.topic = 0 /\ r.header = 0
  BY DEF NoRow
<1>4. PICK c : /\ c = Msg("create_forum_topic", x, corr, 0, "none")
               /\ Owe("message", <<c>>)
  BY DEF CreateTicketPhase1
<1>5. \A m : m \in Owed' <=> m \in Owed \/ m = c
  BY <1>1, <1>2, <1>4, OwedOneNow
<1>6. c.ticket = x /\ c.type = "create_forum_topic" /\ c.view = "none"
  BY <1>4, MsgIs
<1> HIDE DEF r, corr
<1>7. CASE t = x
  <2>1. db'[t] = r
    BY <1>1, <1>2, <1>7
  <2>2. Awaits(t, "create_forum_topic", "none", "topic_created")'
    BY <1>5, <1>6, <1>7 DEF Awaits
  <2> QED
    BY <1>3, <2>1, <2>2 DEF Completes
<1>8. CASE t # x
  <2>1. db'[t] = db[t]
    BY <1>1, <1>2, <1>8
  <2> QED
    BY <1>2, <1>5, <2>1, CompletesKept
<1> QED
  BY <1>7, <1>8

\* What a decision makes of the rows.
LEMMA DecidedRow ==
  ASSUME IInv, NEW r \in reading, Decide(r), NEW t \in Tickets
  PROVE  /\ t # r.msg.ticket => db'[t] = db[t]
         /\ db'[t].topic = db[t].topic /\ db'[t].header = db[t].header
         /\ t = r.msg.ticket =>
              /\ Refused(r) \/ ConfirmOrCancel(r) => db' = db
              /\ AssignTicket(r) => db'[t].status = "in_progress"
              /\ CommitClose(r) => db'[t].status = "closed"
         /\ db[t].status # "none" => db'[t].status # "none"
<1>1. /\ TypeOK /\ r.msg.ticket \in Tickets /\ db[r.msg.ticket] \in Row
      /\ db[r.msg.ticket].status # "none" /\ db \in [Tickets -> Row]
  BY PressRow DEF TypeOK
<1>2. Refused(r) \/ ConfirmOrCancel(r) => db' = db
  BY DEF Refused, ConfirmOrCancel
<1>3. CASE AssignTicket(r)
  <2>1. db' = [db EXCEPT ![r.msg.ticket].assignee = r.msg.target,
                         ![r.msg.ticket].status = "in_progress"]
    BY <1>3 DEF AssignTicket
  <2>2. ~CommitClose(r)
    BY <1>3 DEF AssignTicket, CommitClose
  <2>3. ~Refused(r) /\ ~ConfirmOrCancel(r)
    BY <1>3 DEF AssignTicket, Refused, ConfirmOrCancel
  <2>4. /\ t # r.msg.ticket => db'[t] = db[t]
        /\ db'[t].topic = db[t].topic /\ db'[t].header = db[t].header
        /\ t = r.msg.ticket => db'[t].status = "in_progress"
    BY <1>1, <2>1 DEF Row
  <2> QED
    BY <2>2, <2>3, <2>4
<1>4. CASE CommitClose(r)
  <2>1. db' = [db EXCEPT ![r.msg.ticket].status = "closed",
                         ![r.msg.ticket].closer = r.msg.user]
    BY <1>4 DEF CommitClose
  <2>2. ~AssignTicket(r)
    BY <1>4 DEF AssignTicket, CommitClose
  <2>3. ~Refused(r) /\ ~ConfirmOrCancel(r)
    BY <1>4 DEF CommitClose, Refused, ConfirmOrCancel
  <2>4. /\ t # r.msg.ticket => db'[t] = db[t]
        /\ db'[t].topic = db[t].topic /\ db'[t].header = db[t].header
        /\ t = r.msg.ticket => db'[t].status = "closed"
    BY <1>1, <2>1 DEF Row
  <2> QED
    BY <2>2, <2>3, <2>4
<1>5. CASE Refused(r) \/ ConfirmOrCancel(r)
  <2>1. ~AssignTicket(r) /\ ~CommitClose(r)
    BY <1>5 DEF AssignTicket, CommitClose, Refused, ConfirmOrCancel
  <2> QED
    BY <1>2, <1>5, <2>1
<1> QED
  BY <1>3, <1>4, <1>5 DEF Decide

LEMMA CompletesDecide ==
  ASSUME IInv, Consistent, NEW r \in reading, Decide(r), NEW t \in Tickets, Completes(t)
  PROVE  Completes(t)'
<1> DEFINE x == r.msg.ticket
<1>1. TypeOK /\ x \in Tickets /\ db[x].status # "none" /\ db[x].status = r.row.status
  BY PressRow
<1>2. PICK msgs : CallbackCommit(r, msgs) /\ (CommitClose(r) => msgs = ClosingMessages(x, r.row))
  <2>1. CommitClose(r) => ~Refused(r) /\ ~AssignTicket(r) /\ ~ConfirmOrCancel(r)
    BY DEF CommitClose, Refused, AssignTicket, ConfirmOrCancel
  <2> QED
    BY <2>1 DEF Decide, CommitClose, Refused, AssignTicket, ConfirmOrCancel
<1>3. /\ bus' = bus /\ topics' = topics /\ posts' = posts
      /\ \A m : m \in Owed' <=> m \in Owed \/ \E i \in DOMAIN msgs : m = msgs[i]
  BY <1>2, CommitWay
<1>4. CASE ~(CommitClose(r) /\ t = x)
  <2>1. db'[t].topic = db[t].topic /\ db'[t].header = db[t].header
    BY DecidedRow
  <2>2. /\ db'[t].status # "none" => db[t].status # "none"
        /\ db'[t].status = "closed" => db[t].status = "closed"
    BY <1>1, <1>4, DecidedRow DEF Decide
  <2> QED
    BY <1>3, <2>1, <2>2, CompletesKept
<1>5. CASE CommitClose(r) /\ t = x
  <2>1. /\ DOMAIN msgs = 1..5
        /\ msgs[2] = Msg("send_message", t, 0, r.row.topic, "thanks")
        /\ msgs[4] = Msg("close_forum_topic", t, 0, r.row.topic, "none")
    BY <1>2, <1>5, ClosingAre
  <2>2. /\ msgs[2].ticket = t /\ msgs[2].type = "send_message" /\ msgs[2].view = "thanks"
        /\ msgs[4].ticket = t /\ msgs[4].type = "close_forum_topic"
    BY <2>1, MsgIs
  <2>3. msgs[2] \in Owed' /\ msgs[4] \in Owed'
    BY <1>3, <2>1
  <2>4. db'[t].topic # 0 /\ db'[t].header # 0
    <3>1. r.row.topic # 0 /\ r.row.header # 0
      BY <1>5 DEF CommitClose, CanClose
    <3>2. db[t].topic # 0 /\ db[t].header # 0
      BY <1>5, <3>1, SnapshotFacts DEF IInv
    <3> QED
      BY <3>2, DecidedRow
  <2> QED
    BY <2>2, <2>3, <2>4 DEF Completes
<1> QED
  BY <1>4, <1>5

\* Nothing of what is waited for is lost on the way, and no row changes.
LEMMA CompletesIdle ==
  ASSUME NEW t \in Tickets, Completes(t), db' = db, topics' = topics, posts' = posts,
         \A m \in bus \cup Owed : m \in (bus \cup Owed)' \/ Needless(m)
  PROVE  Completes(t)'
BY CompletesKept

LEMMA CompletesPublish ==
  ASSUME IInv, NEW h \in Tasks, Publish(h), NEW t \in Tickets, Completes(t)
  PROVE  Completes(t)'
<1>1. TypeOK /\ bus \subseteq bus'
  BY DEF IInv, RowInv, Publish
<1>2. db' = db /\ topics' = topics /\ posts' = posts
  BY DEF Publish, telegram
<1>3. Head(todo[h]) \in bus' \/ Head(todo[h]).type = "ticket_closed"
  BY DEF Publish
<1>4. \A m : m.type = "ticket_closed" => Needless(m)
  BY DEF Needless
<1>5. \A m \in Owed : m \in Owed' \/ m = Head(todo[h])
  BY <1>1, OwedLeft
<1> QED
  BY <1>1, <1>2, <1>3, <1>4, <1>5, CompletesIdle

\* gateway-tg has carried m out, and has published acks.
LEMMA CarriedWay ==
  ASSUME todo' = todo, NEW m, NEW acks, bus' = (bus \ {m}) \cup acks
  PROVE  /\ \A o \in bus \cup Owed : o = m \/ o \in (bus \cup Owed)'
         /\ \A o \in acks : o \in (bus \cup Owed)'
BY OwedSame

LEMMA CompletesCreateTopic ==
  ASSUME IInv, Consistent, [Next]_vars, Undisturbed', NEW m \in bus, CreateForumTopic(m),
         NEW t \in Tickets, Completes(t)
  PROVE  Completes(t)'
<1>1. PICK ack : /\ ack = Msg("topic_created", m.ticket, m.corr, 1, "none")
                 /\ Executed(m, {ack}) /\ ack.n = 1
                 /\ topics' = topics \cup {[ticket |-> m.ticket, id |-> 1, icon |-> "new",
                                            closed |-> FALSE]}
                 /\ clock[m.ticket]["topic"] = 0
  BY CreateFinds
<1>2. db' = db /\ posts' = posts /\ todo' = todo
  BY DEF CreateForumTopic, core
<1>3. /\ \A o \in bus \cup Owed : o = m \/ o \in (bus \cup Owed)'
      /\ ack \in (bus \cup Owed)'
  BY <1>1, <1>2, StillUndisturbed, CarriedWay
<1>4. ack.ticket = m.ticket /\ ack.type = "topic_created"
  BY <1>1, MsgIs
<1>5. CASE t # m.ticket
  BY <1>1, <1>2, <1>3, <1>5, CompletesKept
<1>6. CASE t = m.ticket
  <2>1. db[t].topic = 0
    BY <1>1, <1>6 DEF Consistent, Attached
  <2>2. db[t].status # "closed"
    BY <2>1 DEF IInv, RowInv, WorkedOnIsAttached
  <2>3. Awaits(t, "create_forum_topic", "none", "topic_created")'
    BY <1>1, <1>3, <1>4, <1>6 DEF Awaits
  <2> QED
    BY <1>2, <2>1, <2>2, <2>3 DEF Completes
<1> QED
  BY <1>5, <1>6

LEMMA CompletesSend ==
  ASSUME IInv, Consistent, [Next]_vars, Undisturbed', NEW m \in bus, SendMessage(m),
         NEW t \in Tickets, Completes(t)
  PROVE  Completes(t)'
<1> DEFINE Way == bus \cup Owed
<1>1. PICK ack : /\ ack = Msg("message_sent", m.ticket, m.corr, Fresh(m.ticket, "post"), "none")
                 /\ Executed(m, IF m.corr = 0 THEN {} ELSE {ack})
  BY DEF SendMessage
<1>2. db' = db /\ topics' = topics /\ todo' = todo /\ posts \subseteq posts' /\ m.type = "send_message"
  BY DEF SendMessage, core
<1>3. /\ \A o \in Way : o = m \/ o \in Way'
      /\ m.corr # 0 => ack \in Way'
  BY <1>1, <1>2, StillUndisturbed, CarriedWay
<1>4. CASE t # m.ticket
  BY <1>2, <1>3, <1>4, CompletesKept
<1>5. CASE t = m.ticket
  <2>1. db[t].status # "none" /\ db[t].topic = 0 =>
          Awaits(t, "create_forum_topic", "none", "topic_created")'
    BY <1>2, <1>3 DEF Completes, Awaits
  <2>2. m.view = "new" => ack \in Way' /\ ack.ticket = t /\ ack.type = "message_sent" /\ ack.n = 1
    <3>1. m.view = "new" => m.corr # 0 /\ clock[t]["message_sent"] = 0
      BY <1>2, <1>5, SendFinds
    <3> QED
      BY <1>1, <1>3, <1>5, <3>1, MsgIs
  <2>3. db[t].topic # 0 /\ db[t].header = 0 => Awaits(t, "send_message", "new", "message_sent")'
    <3>1. CASE m.view = "new"
      BY <2>2, <3>1 DEF Awaits
    <3>2. CASE m.view # "new"
      BY <1>2, <1>3, <3>2 DEF Completes, Awaits
    <3> QED
      BY <3>1, <3>2
  <2>4. db[t].status = "closed" =>
          \/ \E o \in Way' : o.ticket = t /\ o.type = "send_message" /\ o.view = "thanks"
          \/ \E p \in posts' : p.ticket = t /\ p.view = "thanks"
    <3>1. CASE m.view = "thanks"
      <4>1. PICK p : p = [ticket |-> t, id |-> clock[t]["post"] + 1, view |-> m.view]
        OBVIOUS
      <4>2. p \in posts'
        BY <1>5, <4>1, SendShows
      <4> QED
        BY <3>1, <4>1, <4>2
    <3>2. CASE m.view # "thanks"
      BY <1>2, <1>3, <3>2 DEF Completes
    <3> QED
      BY <3>1, <3>2
  <2>5. db[t].status = "closed" =>
          \/ \E o \in Way' : o.ticket = t /\ o.type = "close_forum_topic"
          \/ \A f \in topics' : f.ticket = t => f.closed
    BY <1>2, <1>3 DEF Completes
  <2> HIDE DEF Way
  <2>6. db' = db
    BY <1>2
  <2> QED
    BY <2>1, <2>3, <2>4, <2>5, <2>6 DEF Completes, Way
<1> QED
  BY <1>4, <1>5

LEMMA CompletesEdit ==
  ASSUME IInv, Consistent, [Next]_vars, Undisturbed', NEW m \in bus,
         EditMessageText(m) \/ EditForumTopic(m), NEW t \in Tickets, Completes(t)
  PROVE  Completes(t)'
<1>1. db' = db /\ todo' = todo /\ Executed(m, {})
  BY DEF EditMessageText, EditForumTopic, core
<1>2. \A o \in bus \cup Owed : o = m \/ o \in (bus \cup Owed)'
  BY <1>1, StillUndisturbed, CarriedWay
<1>3. Needless(m)
  BY DEF EditMessageText, EditForumTopic, Needless
<1>4. \A p \in posts : p.view = "thanks" => \E q \in posts' : q.ticket = p.ticket /\ q.view = "thanks"
  <2>1. CASE EditMessageText(m)
    BY <2>1, EditedPost
  <2>2. CASE EditForumTopic(m)
    BY <2>2 DEF EditForumTopic
  <2> QED
    BY <2>1, <2>2
<1>5. \A g \in topics' : \E f \in topics : f.ticket = g.ticket /\ (f.closed => g.closed)
  <2>1. CASE EditMessageText(m)
    BY <2>1 DEF EditMessageText
  <2>2. CASE EditForumTopic(m)
    BY <2>2, EditedTopicWas
  <2> QED
    BY <2>1, <2>2
<1> QED
  BY <1>1, <1>2, <1>3, <1>4, <1>5, CompletesKept

LEMMA CompletesCloseTopic ==
  ASSUME IInv, Consistent, [Next]_vars, Undisturbed', NEW m \in bus, CloseForumTopic(m),
         NEW t \in Tickets, Completes(t)
  PROVE  Completes(t)'
<1>1. db' = db /\ todo' = todo /\ posts' = posts /\ Executed(m, {}) /\ m.type = "close_forum_topic"
  BY DEF CloseForumTopic, core
<1>2. \A o \in bus \cup Owed : o = m \/ o \in (bus \cup Owed)'
  BY <1>1, StillUndisturbed, CarriedWay
<1>3. \A g \in topics' : \E f \in topics : f.ticket = g.ticket /\ (f.closed => g.closed)
  BY EditedTopicWas
<1>4. CASE t # m.ticket
  BY <1>1, <1>2, <1>3, <1>4, CompletesKept
<1>5. CASE t = m.ticket
  <2>1. m.id = 1
    BY <1>1 DEF Consistent, TopicId
  <2>2. \A g \in topics' : g.ticket = t => g.closed
    <3>1. ASSUME NEW g \in topics', g.ticket = t
          PROVE  g.closed
      <4>1. PICK f \in topics :
              /\ g.ticket = f.ticket /\ g.id = f.id
              /\ g.ticket = m.ticket /\ g.id = m.id /\ CloseForumTopic(m) => g.closed
        BY EditedTopicWas
      <4>2. f.id = 1
        BY <3>1, <4>1 DEF Consistent, Attached
      <4> QED
        BY <1>5, <2>1, <3>1, <4>1, <4>2
    <3> QED
      BY <3>1
  <2> QED
    BY <1>1, <1>2, <2>2 DEF Completes, Awaits
<1> QED
  BY <1>4, <1>5

-----------------------------------------------------------------------------
(* The edits under way.                                                    *)

\* Edits of one thing are commands of one type.
CommandOf(k) == IF k = "header" THEN "edit_message_text" ELSE "edit_forum_topic"

LEMMA EditsOfAre ==
  ASSUME TypeOK, NEW t \in Tickets, NEW k \in Edited, NEW m, EditOf(m, t, k)
  PROVE  /\ m.ticket = t /\ m.type = CommandOf(k) /\ CommandOf(k) \in Sources \ Tasks
         /\ clock[t][m.type] \in Nat
         /\ m \in bus \cup Owed => m.n \in Nat
<1>1. m.ticket = t /\ m.type = CommandOf(k) /\ CommandOf(k) \in Sources \ Tasks
  BY DEF EditOf, CommandOf, Edited, Sources, Commands, Tasks
<1>2. clock \in [Tickets -> [Sources -> Nat]]
  BY DEF TypeOK
<1> QED
  BY <1>1, <1>2, WayType

LEMMA PendingIs ==
  ASSUME NEW t, NEW k
  PROVE  /\ \A m : m \in Pending(t, k) <=> m \in bus \cup Owed /\ EditOf(m, t, k)
         /\ \A m : m \in Pending(t, k)' <=> m \in (bus \cup Owed)' /\ EditOf(m, t, k)
BY DEF Pending, EditOf

LEMMA InTurnClock ==
  ASSUME IInv, [Next]_vars, NEW t \in Tickets, NEW k \in Edited, InTurn(t, k),
         NEW m \in Pending(t, k)
  PROVE  m.n <= clock'[t][m.type]
<1>1. TypeOK /\ TypeOK' /\ m \in bus \cup Owed /\ EditOf(m, t, k)
  BY TypeStep, PendingIs DEF IInv, RowInv
<1>2. m.type \in Sources /\ clock[t][m.type] \in Nat /\ m.n \in Nat
  BY <1>1, EditsOfAre
<1>3. clock'[t][m.type] \in Nat
  BY <1>1, <1>2 DEF TypeOK
<1>4. m.n <= clock[t][m.type]
  BY DEF InTurn
<1>5. clock'[t][m.type] >= clock[t][m.type]
  BY <1>1, <1>2, ClockStep
<1> QED
  BY <1>2, <1>3, <1>4, <1>5

\* A step that neither edits, nor changes what an edit is measured by.
LEMMA EditsKept ==
  ASSUME IInv, [Next]_vars, NEW t \in Tickets, NEW k \in Edited, LastFits(t, k), InTurn(t, k),
         \A m : EditOf(m, t, k) => (m \in bus' <=> m \in bus),
         \A h \in Tasks :
           \/ todo'[h] = todo[h]
           \/ /\ \A i \in DOMAIN todo[h] : ~EditOf(todo[h][i], t, k)
              /\ \A i \in DOMAIN todo'[h] : ~EditOf(todo'[h][i], t, k),
         db'[t].status = db[t].status,
         FitsNow(t, k) => FitsNow(t, k)',
         Made(t, k)' => Made(t, k) \/ FitsNow(t, k)'
  PROVE  LastFits(t, k)' /\ InTurn(t, k)'
<1>1. \A m : EditOf(m, t, k) => (m \in Owed' <=> m \in Owed)
  <2>1. ASSUME NEW m, EditOf(m, t, k), m \in Owed
        PROVE  m \in Owed'
    <3>1. PICK h \in Tasks : \E i \in DOMAIN todo[h] : m = todo[h][i]
      BY <2>1, OwedIs
    <3>2. todo'[h] = todo[h]
      BY <2>1, <3>1
    <3> QED
      BY <3>1, <3>2, OwedIs
  <2>2. ASSUME NEW m, EditOf(m, t, k), m \in Owed'
        PROVE  m \in Owed
    <3>1. PICK h \in Tasks : \E i \in DOMAIN todo'[h] : m = todo'[h][i]
      BY <2>2, OwedIs
    <3>2. todo'[h] = todo[h]
      BY <2>2, <3>1
    <3> QED
      BY <3>1, <3>2, OwedIs
  <2> QED
    BY <2>1, <2>2
<1>2. \A m : m \in Pending(t, k)' <=> m \in Pending(t, k)
  BY <1>1, PendingIs
<1>3. \A view : Fits(view, t, k)' <=> Fits(view, t, k)
  BY DEF Fits
<1>4. LastFits(t, k)'
  <2>1. Pending(t, k)' = Pending(t, k)
    BY <1>2
  <2>2. Made(t, k)' /\ Pending(t, k)' = {} => FitsNow(t, k)'
    BY <2>1 DEF LastFits
  <2>3. \A m \in Pending(t, k)' :
          (\A o \in Pending(t, k)' : o.n <= m.n) => Fits(m.view, t, k)'
    BY <1>3, <2>1 DEF LastFits
  <2> HIDE DEF Pending
  <2> QED
    BY <2>2, <2>3 DEF LastFits
<1>5. \A m \in Pending(t, k)' : m.n <= clock'[t][m.type]
  BY <1>2, InTurnClock
<1>6. ASSUME NEW h \in Tasks, NEW i \in DOMAIN todo'[h], EditOf(todo'[h][i], t, k)
      PROVE  /\ h = "callback"
             /\ \A j \in DOMAIN todo'[h] : EditOf(todo'[h][j], t, k) => i = j
             /\ \A m \in bus' : EditOf(m, t, k) => m.n < todo'[h][i].n
  <2>1. todo'[h] = todo[h]
    BY <1>6
  <2> QED
    BY <1>6, <2>1 DEF InTurn
<1>7. InTurn(t, k)'
  BY <1>5, <1>6 DEF InTurn, EditOf
<1> QED
  BY <1>4, <1>7

\* A decision that edits k: the new edit is the last one, and shows the new row.
LEMMA CommitEdits ==
  ASSUME IInv, Consistent, [Next]_vars, NEW r \in reading, NEW msgs, CallbackCommit(r, msgs),
         NEW k \in Edited, LastFits(r.msg.ticket, k), InTurn(r.msg.ticket, k),
         NEW i \in DOMAIN msgs, EditOf(msgs[i], r.msg.ticket, k),
         \A j \in DOMAIN msgs : EditOf(msgs[j], r.msg.ticket, k) => i = j,
         msgs[i].n = clock[r.msg.ticket][msgs[i].type] + 1,
         Fits(msgs[i].view, r.msg.ticket, k)'
  PROVE  LastFits(r.msg.ticket, k)' /\ InTurn(r.msg.ticket, k)'
<1>0. PICK t \in Tickets : t = r.msg.ticket
  BY PressRow
<1> DEFINE e == msgs[i]
<1>1. TypeOK
  BY DEF IInv, RowInv
<1>2. /\ bus' = bus /\ todo'["callback"] = msgs
      /\ \A h \in Tasks \ {"callback"} : todo'[h] = todo[h]
      /\ \A m : m \in Owed' <=> m \in Owed \/ \E j \in DOMAIN msgs : m = msgs[j]
  BY CommitWay
<1>3. \A m : m \in Pending(t, k)' <=> m \in Pending(t, k) \/ m = e
  BY <1>0, <1>2, PendingIs
<1>4. e.type = CommandOf(k) /\ clock[t][e.type] \in Nat /\ e.type \in Sources
  BY <1>0, <1>1, EditsOfAre
<1>5. \A m \in Pending(t, k) : m.n \in Nat /\ m.n <= clock[t][e.type] /\ m.n < e.n
  <2>1. ASSUME NEW m \in Pending(t, k)
        PROVE  m.n \in Nat /\ m.n <= clock[t][e.type] /\ m.n < e.n
    <3>1. m \in bus \cup Owed /\ EditOf(m, t, k)
      BY PendingIs
    <3>2. m.type = e.type /\ m.n \in Nat
      BY <1>1, <1>4, <3>1, EditsOfAre
    <3>3. m.n <= clock[t][m.type]
      BY <1>0 DEF InTurn
    <3> QED
      BY <1>0, <1>4, <3>2, <3>3
  <2> QED
    BY <2>1
<1>6. clock'[t][e.type] = clock[t][e.type] + 1
  <2> DEFINE S == {msgs[j].type : j \in DOMAIN msgs}
  <2>1. Tick(t, S) /\ e.type \in S
    BY <1>0 DEF CallbackCommit
  <2> HIDE DEF S, e
  <2> QED
    BY <1>1, <1>4, <2>1, TickClock
<1>7. e.n = clock[t][e.type] + 1
  BY <1>0
<1>8. LastFits(t, k)'
  <2>1. e \in Pending(t, k)'
    BY <1>3
  <2>2. ASSUME NEW m \in Pending(t, k)', \A o \in Pending(t, k)' : o.n <= m.n
        PROVE  m = e
    <3>1. e.n <= m.n
      BY <2>1, <2>2
    <3>2. m \in Pending(t, k) => FALSE
      BY <1>4, <1>5, <1>7, <3>1
    <3> QED
      BY <1>3, <3>2
  <2>3. Fits(e.view, t, k)'
    BY <1>0
  <2> HIDE DEF e
  <2> QED
    BY <2>1, <2>2, <2>3 DEF LastFits
<1>9. \A m \in Pending(t, k)' : m.n <= clock'[t][m.type]
  <2>1. \A m \in Pending(t, k) : m.n <= clock'[t][m.type]
    BY <1>0, InTurnClock
  <2>2. e.n <= clock'[t][e.type]
    BY <1>4, <1>6, <1>7
  <2> QED
    BY <1>3, <2>1, <2>2
<1>10. ASSUME NEW h \in Tasks, NEW j \in DOMAIN todo'[h], EditOf(todo'[h][j], t, k)
       PROVE  /\ h = "callback"
              /\ \A l \in DOMAIN todo'[h] : EditOf(todo'[h][l], t, k) => j = l
              /\ \A m \in bus' : EditOf(m, t, k) => m.n < todo'[h][j].n
  <2>1. h = "callback"
    BY <1>0, <1>2, <1>10 DEF InTurn
  <2>2. todo'[h] = msgs /\ todo'[h][j] = e
    BY <1>0, <1>2, <1>10, <2>1
  <2>3. \A m \in bus' : EditOf(m, t, k) => m \in Pending(t, k)
    BY <1>2, PendingIs
  <2> QED
    BY <1>0, <1>5, <1>10, <2>1, <2>2, <2>3
<1>11. InTurn(t, k)'
  BY <1>9, <1>10 DEF InTurn, EditOf
<1> QED
  BY <1>0, <1>8, <1>11

\* Of a thing that is not made there are no edits.
LEMMA EditsCreate ==
  ASSUME IInv, Consistent, [Next]_vars, NEW x \in Tickets, NEW u \in Users,
         CreateTicketPhase1(x, u),
         NEW t \in Tickets, NEW k \in Edited, LastFits(t, k), InTurn(t, k)
  PROVE  LastFits(t, k)' /\ InTurn(t, k)'
<1>1. /\ TypeOK /\ "message" \in Tasks /\ db \in [Tickets -> Row] /\ todo["message"] = << >>
      /\ bus' = bus /\ topics' = topics /\ posts' = posts /\ db[x].status = "none"
  BY DEF IInv, RowInv, TypeOK, Tasks, CreateTicketPhase1, Free, telegram
<1>2. PICK c : c.type = "create_forum_topic" /\ Owe("message", <<c>>)
  BY MsgIs DEF CreateTicketPhase1
<1>3. /\ todo'["message"] = <<c>> /\ \A h \in Tasks \ {"message"} : todo'[h] = todo[h]
  BY <1>1, <1>2 DEF Owe, TypeOK
<1>4. /\ \A i \in DOMAIN todo["message"] : ~EditOf(todo["message"][i], t, k)
      /\ \A i \in DOMAIN todo'["message"] : ~EditOf(todo'["message"][i], t, k)
  <2>1. DOMAIN <<c>> = {1} /\ <<c>>[1] = c
    OBVIOUS
  <2>2. ~EditOf(c, t, k)
    BY <1>2 DEF EditOf
  <2> QED
    BY <1>1, <1>3, <2>1, <2>2
<1>5. \A h \in Tasks :
        \/ todo'[h] = todo[h]
        \/ /\ \A i \in DOMAIN todo[h] : ~EditOf(todo[h][i], t, k)
           /\ \A i \in DOMAIN todo'[h] : ~EditOf(todo'[h][i], t, k)
  BY <1>3, <1>4
<1>6. clock'[t]["topic"] = clock[t]["topic"] /\ clock'[t]["post"] = clock[t]["post"]
  <2>1. Inside
    BY <1>1, TickInside DEF CreateTicketPhase1, Outside
  <2> QED
    BY <2>1 DEF Inside, Outside
<1>7. Made(t, k)' <=> Made(t, k)
  BY <1>6 DEF Made
<1>8. CASE t # x
  <2>1. db'[t].status = db[t].status
    BY <1>1, <1>8 DEF CreateTicketPhase1
  <2>2. FitsNow(t, k) => FitsNow(t, k)'
    BY <1>1, <2>1 DEF FitsNow, Fits
  <2> QED
    BY <1>1, <1>5, <1>7, <2>1, <2>2, EditsKept
<1>9. CASE t = x
  <2>1. \A m \in bus \cup Owed : m.ticket # t
    BY <1>1, <1>9, OwedIs DEF IInv, RowInv, AllGrounded, Grounded
  <2>2. ~Made(t, k)
    <3>1. /\ OnePlace(t, "topic") /\ OnePlace(t, "new") /\ Attached(t)
          /\ db[t].topic = 0
      BY <1>1, <1>9 DEF IInv, RowInv, Once, Kinds, Consistent, InOrder, NoRow
    <3>2. clock[t]["topic"] = 0
      BY <1>1, <1>9, <3>1 DEF OnePlace, Done, Begun
    <3>3. clock[t]["post"] = 0
      BY <3>1 DEF OnePlace, Done, Begun, Attached
    <3> QED
      BY <3>2, <3>3 DEF Made
  <2>3. \A m \in (bus \cup Owed)' : ~EditOf(m, t, k)
    <3>1. \A m \in Owed' : m \in Owed \/ m = c
      BY <1>1, <1>2, OwedOneAfter
    <3> QED
      BY <1>1, <1>2, <2>1, <3>1 DEF EditOf
  <2>4. \A m : m \notin Pending(t, k)'
    BY <2>3, PendingIs
  <2>5. LastFits(t, k)'
    BY <1>7, <2>2, <2>4 DEF LastFits
  <2>6. \A h \in Tasks : \A i \in DOMAIN todo'[h] : ~EditOf(todo'[h][i], t, k)
    BY <2>3, OwedIs
  <2>7. InTurn(t, k)'
    BY <2>4, <2>6 DEF InTurn, EditOf
  <2> QED
    BY <2>5, <2>7
<1> QED
  BY <1>8, <1>9

LEMMA EditsHandled ==
  ASSUME IInv, Consistent, [Next]_vars, NEW m \in bus, CoreTakes(m),
         NEW t \in Tickets, NEW k \in Edited, LastFits(t, k), InTurn(t, k)
  PROVE  LastFits(t, k)' /\ InTurn(t, k)'
<1>1. TypeOK /\ todo \in [Tasks -> Seq(Message)]
  BY DEF IInv, RowInv, TypeOK
<1>2. m.type \in Tasks /\ bus' \subseteq bus /\ bus \ {m} \subseteq bus'
      /\ topics' = topics /\ posts' = posts
  BY DEF CoreTakes, HandleTopicCreated, HandleHeaderMessageSent, AttachIncomingMessageId,
     PublishIncomingCard, UpdateIncomingAfterAssign, CallbackRead, AlreadyProcessed, Receive,
     telegram, Tasks
<1>3. \A o : EditOf(o, t, k) => o # m
  BY <1>1, <1>2, EditsOfAre
<1>4. \A h \in Tasks :
        \/ todo'[h] = todo[h]
        \/ /\ \A i \in DOMAIN todo[h] : ~EditOf(todo[h][i], t, k)
           /\ \A i \in DOMAIN todo'[h] : ~EditOf(todo'[h][i], t, k)
  <2>1. ASSUME NEW x, NEW h \in Tasks, todo[h] = << >>, Owe(h, <<x>>), x.type \in HandledTypes,
               x.type = "edit_message_text" => x.view = "taken",
               NEW g \in Tasks, todo'[g] # todo[g]
        PROVE  /\ \A i \in DOMAIN todo[g] : ~EditOf(todo[g][i], t, k)
               /\ \A i \in DOMAIN todo'[g] : ~EditOf(todo'[g][i], t, k)
    <3>1. g = h /\ todo'[g] = <<x>>
      BY <1>1, <2>1 DEF Owe
    <3>2. DOMAIN <<x>> = {1} /\ <<x>>[1] = x
      OBVIOUS
    <3>3. ~EditOf(x, t, k)
      BY <2>1 DEF EditOf, HandledTypes, HeaderViews
    <3> QED
      BY <2>1, <3>1, <3>2, <3>3
  <2> QED
    BY <2>1, HandledOwes
<1>5. db'[t].status = db[t].status
  BY RowsHandled
<1>6. Made(t, k)' <=> Made(t, k)
  BY HandledInside DEF Made, Inside, Outside
<1>7. FitsNow(t, k) => FitsNow(t, k)'
  BY <1>2, <1>5 DEF FitsNow, Fits
<1> QED
  BY <1>2, <1>3, <1>4, <1>5, <1>6, <1>7, EditsKept

\* A decision that leaves k alone.
LEMMA CommitUnedited ==
  ASSUME IInv, Consistent, [Next]_vars, NEW r \in reading, Decide(r),
         NEW msgs, CallbackCommit(r, msgs),
         NEW t \in Tickets, NEW k \in Edited, LastFits(t, k), InTurn(t, k),
         \A i \in DOMAIN msgs : ~EditOf(msgs[i], t, k),
         db'[t].status = db[t].status
  PROVE  LastFits(t, k)' /\ InTurn(t, k)'
<1>1. /\ bus' = bus /\ topics' = topics /\ posts' = posts
      /\ todo["callback"] = << >> /\ todo'["callback"] = msgs
      /\ \A h \in Tasks \ {"callback"} : todo'[h] = todo[h]
  BY CommitWay
<1>2. \A h \in Tasks :
        \/ todo'[h] = todo[h]
        \/ /\ \A i \in DOMAIN todo[h] : ~EditOf(todo[h][i], t, k)
           /\ \A i \in DOMAIN todo'[h] : ~EditOf(todo'[h][i], t, k)
  BY <1>1
<1>3. Made(t, k)' <=> Made(t, k)
  BY DecidedInside DEF Made, Inside, Outside
<1>4. FitsNow(t, k) => FitsNow(t, k)'
  BY <1>1 DEF FitsNow, Fits
<1> QED
  BY <1>1, <1>2, <1>3, <1>4, EditsKept

\* A decision edits k once, to show the new row, unless it leaves the status alone.
LEMMA DecidedEdits ==
  ASSUME IInv, Consistent, NEW r \in reading, Decide(r), NEW k \in Edited
  PROVE  \E msgs :
           /\ CallbackCommit(r, msgs)
           /\ \A i \in DOMAIN msgs : msgs[i].ticket = r.msg.ticket
           /\ \/ /\ db'[r.msg.ticket].status = db[r.msg.ticket].status
                 /\ \A i \in DOMAIN msgs : ~EditOf(msgs[i], r.msg.ticket, k)
              \/ \E i \in DOMAIN msgs :
                   /\ EditOf(msgs[i], r.msg.ticket, k)
                   /\ \A j \in DOMAIN msgs : EditOf(msgs[j], r.msg.ticket, k) => i = j
                   /\ msgs[i].n = clock[r.msg.ticket][msgs[i].type] + 1
                   /\ Fits(msgs[i].view, r.msg.ticket, k)'
<1> DEFINE t == r.msg.ticket
<1>1. /\ TypeOK /\ t \in Tickets /\ db[t].status = r.row.status
      /\ r.row.status \in {"none", "new", "in_progress", "closed"}
  BY PressRow
<1>2. CASE Refused(r)
  <2>1. CallbackCommit(r, << >>) /\ db' = db
    BY <1>2 DEF Refused
  <2>2. DOMAIN << >> = {}
    OBVIOUS
  <2> QED
    BY <2>1, <2>2
<1>3. CASE ConfirmOrCancel(r)
  <2> DEFINE v == IF r.msg.data = "close" THEN "confirm" ELSE r.row.status
  <2>1. PICK e : e = Msg("edit_message_text", t, 0, r.row.header, v)
    OBVIOUS
  <2>2. CallbackCommit(r, <<e>>) /\ db' = db /\ r.row.status \notin {"none", "closed"}
    BY <1>3, <2>1 DEF ConfirmOrCancel, CanClose
  <2>3. /\ e.type = "edit_message_text" /\ e.ticket = t /\ e.view = v
        /\ e.n = clock[t][e.type] + 1
    BY <2>1, MsgIs
  <2>4. v \in HeaderViews /\ (v = db[t].status \/ (v = "confirm" /\ db[t].status # "closed"))
    BY <1>1, <2>2 DEF HeaderViews
  <2>5. DOMAIN <<e>> = {1} /\ <<e>>[1] = e
    OBVIOUS
  <2> HIDE DEF v
  <2>6. CASE k = "header"
    <3>1. EditOf(e, t, k)
      BY <2>3, <2>4, <2>6 DEF EditOf
    <3>2. Fits(e.view, t, k)'
      BY <2>2, <2>3, <2>4, <2>6 DEF Fits
    <3> QED
      BY <2>2, <2>3, <2>5, <3>1, <3>2
  <2>7. CASE k = "icon"
    <3>1. ~EditOf(e, t, k)
      BY <2>3, <2>7 DEF EditOf
    <3> QED
      BY <2>2, <2>3, <2>5, <3>1
  <2> QED
    BY <2>6, <2>7 DEF Edited
<1>4. CASE AssignTicket(r)
  <2>1. PICK msgs : /\ CallbackCommit(r, msgs) /\ DOMAIN msgs = 1..3
                    /\ msgs[1] = Msg("edit_forum_topic", t, 0, r.row.topic, "in_progress")
                    /\ msgs[2] = Msg("edit_message_text", t, 0, r.row.header, "in_progress")
                    /\ msgs[3] = Msg("ticket_assigned", t, 0, 0, "none")
    BY <1>4, AssignWay
  <2>2. /\ msgs[1].type = "edit_forum_topic" /\ msgs[1].ticket = t
        /\ msgs[1].n = clock[t][msgs[1].type] + 1 /\ msgs[1].view = "in_progress"
        /\ msgs[2].type = "edit_message_text" /\ msgs[2].ticket = t
        /\ msgs[2].n = clock[t][msgs[2].type] + 1 /\ msgs[2].view = "in_progress"
        /\ msgs[3].type = "ticket_assigned" /\ msgs[3].ticket = t
    BY <2>1, MsgIs
  <2>3. DOMAIN msgs = {1, 2, 3}
    BY <2>1
  <2>4. Fits("in_progress", t, k)'
    BY <1>1, <1>4, DecidedRow DEF Fits
  <2>5. /\ EditOf(msgs[1], t, k) <=> k = "icon"
        /\ EditOf(msgs[2], t, k) <=> k = "header"
        /\ ~EditOf(msgs[3], t, k)
    BY <2>2 DEF EditOf, HeaderViews, Edited
  <2>6. CASE k = "icon"
    BY <2>1, <2>2, <2>3, <2>4, <2>5, <2>6
  <2>7. CASE k = "header"
    BY <2>1, <2>2, <2>3, <2>4, <2>5, <2>7
  <2> QED
    BY <2>6, <2>7 DEF Edited
<1>5. CASE CommitClose(r)
  <2>1. PICK msgs : msgs = ClosingMessages(t, r.row) /\ CallbackCommit(r, msgs)
    BY <1>5 DEF CommitClose
  <2>2. /\ msgs[1].type = "edit_forum_topic" /\ msgs[1].ticket = t
        /\ msgs[1].n = clock[t][msgs[1].type] + 1 /\ msgs[1].view = "closed"
        /\ msgs[2].type = "send_message" /\ msgs[2].ticket = t
        /\ msgs[3].type = "edit_message_text" /\ msgs[3].ticket = t
        /\ msgs[3].n = clock[t][msgs[3].type] + 1 /\ msgs[3].view = "closed"
        /\ msgs[4].type = "close_forum_topic" /\ msgs[4].ticket = t
        /\ msgs[5].type = "ticket_closed" /\ msgs[5].ticket = t
    BY <2>1, ClosingAre, MsgIs
  <2>3. DOMAIN msgs = {1, 2, 3, 4, 5}
    <3>1. DOMAIN msgs = 1..5
      BY <2>1, ClosingAre
    <3> QED
      BY <3>1
  <2>4. Fits("closed", t, k)'
    BY <1>1, <1>5, DecidedRow DEF Fits
  <2>5. /\ EditOf(msgs[1], t, k) <=> k = "icon"
        /\ EditOf(msgs[3], t, k) <=> k = "header"
        /\ ~EditOf(msgs[2], t, k) /\ ~EditOf(msgs[4], t, k) /\ ~EditOf(msgs[5], t, k)
    BY <2>2 DEF EditOf, HeaderViews, Edited
  <2>6. CASE k = "icon"
    BY <2>1, <2>2, <2>3, <2>4, <2>5, <2>6
  <2>7. CASE k = "header"
    BY <2>1, <2>2, <2>3, <2>4, <2>5, <2>7
  <2> QED
    BY <2>6, <2>7 DEF Edited
<1> QED
  BY <1>2, <1>3, <1>4, <1>5 DEF Decide

LEMMA EditsDecide ==
  ASSUME IInv, Consistent, [Next]_vars, NEW r \in reading, Decide(r),
         NEW t \in Tickets, NEW k \in Edited, LastFits(t, k), InTurn(t, k)
  PROVE  LastFits(t, k)' /\ InTurn(t, k)'
<1>1. PICK msgs :
        /\ CallbackCommit(r, msgs)
        /\ \A i \in DOMAIN msgs : msgs[i].ticket = r.msg.ticket
        /\ \/ /\ db'[r.msg.ticket].status = db[r.msg.ticket].status
              /\ \A i \in DOMAIN msgs : ~EditOf(msgs[i], r.msg.ticket, k)
           \/ \E i \in DOMAIN msgs :
                /\ EditOf(msgs[i], r.msg.ticket, k)
                /\ \A j \in DOMAIN msgs : EditOf(msgs[j], r.msg.ticket, k) => i = j
                /\ msgs[i].n = clock[r.msg.ticket][msgs[i].type] + 1
                /\ Fits(msgs[i].view, r.msg.ticket, k)'
  BY DecidedEdits
<1>2. CASE t # r.msg.ticket
  <2>1. \A i \in DOMAIN msgs : ~EditOf(msgs[i], t, k)
    BY <1>1, <1>2 DEF EditOf
  <2>2. db'[t].status = db[t].status
    BY <1>2, DecidedRow
  <2> QED
    BY <1>1, <2>1, <2>2, CommitUnedited
<1>3. CASE t = r.msg.ticket
  <2>1. CASE /\ db'[t].status = db[t].status
             /\ \A i \in DOMAIN msgs : ~EditOf(msgs[i], t, k)
    BY <1>1, <2>1, CommitUnedited
  <2>2. CASE \E i \in DOMAIN msgs :
               /\ EditOf(msgs[i], t, k)
               /\ \A j \in DOMAIN msgs : EditOf(msgs[j], t, k) => i = j
               /\ msgs[i].n = clock[t][msgs[i].type] + 1
               /\ Fits(msgs[i].view, r.msg.ticket, k)'
    BY <1>1, <1>3, <2>2, CommitEdits
  <2> QED
    BY <1>1, <1>3, <2>1, <2>2
<1> QED
  BY <1>2, <1>3

\* Publishing an edit leaves it pending, and no other edit of its thing is owed.
LEMMA EditsPublish ==
  ASSUME IInv, [Next]_vars, NEW h \in Tasks, Publish(h),
         NEW t \in Tickets, NEW k \in Edited, LastFits(t, k), InTurn(t, k)
  PROVE  LastFits(t, k)' /\ InTurn(t, k)'
<1> DEFINE s == todo[h]
<1>1. /\ TypeOK /\ s \in Seq(Message) /\ s # << >> /\ todo \in [Tasks -> Seq(Message)]
      /\ db' = db /\ clock' = clock /\ topics' = topics /\ posts' = posts
  BY DEF IInv, RowInv, TypeOK, Publish, telegram
<1>2. /\ Head(s) = s[1] /\ 1 \in DOMAIN s
      /\ \A i \in DOMAIN Tail(s) : i + 1 \in DOMAIN s /\ i + 1 # 1 /\ Tail(s)[i] = s[i + 1]
      /\ \A i, j \in DOMAIN Tail(s) : i + 1 = j + 1 => i = j
  BY <1>1, HeadTailProperties
<1>3. todo'[h] = Tail(s) /\ \A x \in Tasks \ {h} : todo'[x] = todo[x]
  BY <1>1 DEF Publish
<1>4. bus' \subseteq bus \cup {Head(s)} /\ bus \subseteq bus'
      /\ (Head(s) \in bus' \/ Head(s).type = "ticket_closed")
  BY DEF Publish
<1>5. ~EditOf(Head(s), t, k) \/ Head(s) \in bus'
  BY <1>1, <1>4 DEF EditOf
<1>6. \A m : m \in Pending(t, k)' <=> m \in Pending(t, k)
  <2>1. /\ Head(s) \in Owed /\ Owed' \subseteq Owed /\ Owed \subseteq Owed' \cup {Head(s)}
    BY <1>1, OwedLeft
  <2> HIDE DEF s
  <2> QED
    BY <1>4, <1>5, <2>1, PendingIs
<1>7. Pending(t, k)' = Pending(t, k)
  BY <1>6
<1>8. LastFits(t, k)'
  <2>1. /\ Made(t, k)' <=> Made(t, k)
        /\ FitsNow(t, k)' <=> FitsNow(t, k)
        /\ \A v : Fits(v, t, k)' <=> Fits(v, t, k)
    BY <1>1 DEF Made, FitsNow, Fits
  <2> HIDE DEF Pending
  <2>2. Made(t, k)' /\ Pending(t, k)' = {} => FitsNow(t, k)'
    BY <1>7, <2>1 DEF LastFits
  <2>3. \A m \in Pending(t, k)' :
          (\A o \in Pending(t, k)' : o.n <= m.n) => Fits(m.view, t, k)'
    BY <1>7, <2>1 DEF LastFits
  <2> QED
    BY <2>2, <2>3 DEF LastFits
<1>9. ASSUME NEW g \in Tasks, NEW i \in DOMAIN todo'[g], EditOf(todo'[g][i], t, k)
      PROVE  /\ g = "callback"
             /\ \A j \in DOMAIN todo'[g] : EditOf(todo'[g][j], t, k) => i = j
             /\ \A m \in bus' : EditOf(m, t, k) => m.n < todo'[g][i].n
  <2>1. CASE g = h
    <3>1. i + 1 \in DOMAIN s /\ i + 1 # 1 /\ todo'[g][i] = s[i + 1] /\ todo'[g] = Tail(s)
      BY <1>2, <1>3, <1>9, <2>1
    <3>2. ~EditOf(Head(s), t, k)
      BY <1>2, <1>9, <3>1 DEF InTurn
    <3>3. \A m \in bus' : EditOf(m, t, k) => m \in bus
      BY <1>4, <3>2
    <3>4. g = "callback" /\ \A m \in bus : EditOf(m, t, k) => m.n < s[i + 1].n
      BY <1>9, <2>1, <3>1 DEF InTurn
    <3>5. \A j \in DOMAIN s : EditOf(s[j], t, k) => i + 1 = j
      BY <1>9, <2>1, <3>1 DEF InTurn
    <3>6. \A j \in DOMAIN todo'[g] : EditOf(todo'[g][j], t, k) => i = j
      BY <1>2, <3>1, <3>5
    <3> QED
      BY <3>1, <3>3, <3>4, <3>6
  <2>2. CASE g # h
    <3>1. todo'[g] = todo[g]
      BY <1>3, <2>2
    <3>2. /\ g = "callback"
          /\ \A j \in DOMAIN todo[g] : EditOf(todo[g][j], t, k) => i = j
          /\ \A m \in bus : EditOf(m, t, k) => m.n < todo[g][i].n
      BY <1>9, <3>1 DEF InTurn
    <3>3. ~EditOf(Head(s), t, k)
      BY <1>2, <2>2, <3>2 DEF InTurn
    <3>4. \A m \in bus' : EditOf(m, t, k) => m \in bus
      BY <1>4, <3>3
    <3> QED
      BY <3>1, <3>2, <3>4
  <2> QED
    BY <2>1, <2>2
<1>10. \A m \in Pending(t, k)' : m.n <= clock'[t][m.type]
  BY <1>1, <1>6 DEF InTurn
<1>11. InTurn(t, k)'
  BY <1>9, <1>10 DEF InTurn, EditOf
<1> QED
  BY <1>8, <1>11

\* The oldest edit of k is carried out: the ones after it decide.
LEMMA EditsDone ==
  ASSUME IInv, [Next]_vars, NEW t \in Tickets, NEW k \in Edited, LastFits(t, k), InTurn(t, k),
         NEW m \in bus, EditOf(m, t, k), Oldest(m), bus' = bus \ {m},
         db' = db, todo' = todo, clock' = clock,
         Made(t, k) /\ Fits(m.view, t, k) => FitsNow(t, k)'
  PROVE  LastFits(t, k)' /\ InTurn(t, k)'
<1>1. TypeOK /\ m.type = CommandOf(k) /\ m.ticket = t /\ m.n \in Nat /\ m \in Pending(t, k)
  BY EditsOfAre, PendingIs DEF IInv, RowInv
<1>2. \A o \in Owed : EditOf(o, t, k) => m.n < o.n
  BY OwedIs DEF InTurn
<1>3. Owed' = Owed
  BY OwedSame
<1>4. \A o : o \in Pending(t, k)' <=> o \in Pending(t, k) /\ o # m
  BY <1>1, <1>2, <1>3, PendingIs
<1>5. \A o \in Pending(t, k) : o.n \in Nat /\ m.n <= o.n
  <2>1. ASSUME NEW o \in Pending(t, k)
        PROVE  o.n \in Nat /\ m.n <= o.n
    <3>1. o \in bus \cup Owed /\ EditOf(o, t, k)
      BY PendingIs
    <3>2. o.n \in Nat /\ o.type = m.type /\ o.ticket = m.ticket
      BY <1>1, <3>1, EditsOfAre
    <3>3. o \in bus => m.n <= o.n
      BY <3>2 DEF Oldest
    <3>4. o \in Owed => m.n <= o.n
      BY <1>1, <1>2, <3>1, <3>2
    <3> QED
      BY <3>1, <3>2, <3>3, <3>4
  <2> QED
    BY <2>1
<1>6. /\ Made(t, k)' <=> Made(t, k)
      /\ \A v : Fits(v, t, k)' <=> Fits(v, t, k)
  BY DEF Made, Fits
<1>7. Made(t, k)' /\ Pending(t, k)' = {} => FitsNow(t, k)'
  <2>1. ASSUME Made(t, k)', Pending(t, k)' = {}
        PROVE  FitsNow(t, k)'
    <3>1. \A o \in Pending(t, k) : o.n <= m.n
      BY <1>1, <1>4, <2>1
    <3>2. Fits(m.view, t, k)
      BY <1>1, <3>1 DEF LastFits
    <3> QED
      BY <1>6, <2>1, <3>2
  <2> QED
    BY <2>1
<1>8. ASSUME NEW o \in Pending(t, k)', \A p \in Pending(t, k)' : p.n <= o.n
      PROVE  Fits(o.view, t, k)'
  <2>1. o \in Pending(t, k) /\ m.n <= o.n
    BY <1>4, <1>5, <1>8
  <2>2. \A p \in Pending(t, k) : p.n <= o.n
    BY <1>4, <1>8, <2>1
  <2> QED
    BY <1>6, <2>1, <2>2 DEF LastFits
<1>9. LastFits(t, k)'
  BY <1>7, <1>8 DEF LastFits
<1>10. InTurn(t, k)'
  <2>1. \A o \in Pending(t, k)' : o.n <= clock'[t][o.type]
    BY <1>4 DEF InTurn
  <2>2. \A h \in Tasks : \A i \in DOMAIN todo'[h] : EditOf(todo'[h][i], t, k) =>
          /\ h = "callback"
          /\ \A j \in DOMAIN todo'[h] : EditOf(todo'[h][j], t, k) => i = j
          /\ \A o \in bus' : EditOf(o, t, k) => o.n < todo'[h][i].n
    BY DEF InTurn
  <2> QED
    BY <2>1, <2>2 DEF InTurn, EditOf
<1> QED
  BY <1>9, <1>10

\* The task of m is finished, or m lost, and no edit is.
LEMMA EditsCarried ==
  ASSUME IInv, [Next]_vars, NEW t \in Tickets, NEW k \in Edited, LastFits(t, k), InTurn(t, k),
         NEW m \in bus, ~EditOf(m, t, k), NEW acks, Executed(m, acks),
         \A o \in acks : o.type \in Acks,
         db' = db, todo' = todo,
         FitsNow(t, k) => FitsNow(t, k)',
         Made(t, k)' => Made(t, k) \/ FitsNow(t, k)'
  PROVE  LastFits(t, k)' /\ InTurn(t, k)'
<1>1. bus' \subseteq (bus \ {m}) \cup acks /\ bus \ {m} \subseteq bus'
  BY DEF Executed
<1>2. \A o : EditOf(o, t, k) => o \notin acks
  BY DEF EditOf, Acks
<1>3. \A o : EditOf(o, t, k) => (o \in bus' <=> o \in bus)
  BY <1>1, <1>2
<1> QED
  BY <1>3, EditsKept

LEMMA EditsCreateTopic ==
  ASSUME IInv, Consistent, [Next]_vars, NEW m \in bus, CreateForumTopic(m),
         NEW t \in Tickets, NEW k \in Edited, LastFits(t, k), InTurn(t, k)
  PROVE  LastFits(t, k)' /\ InTurn(t, k)'
<1>1. /\ db' = db /\ posts' = posts /\ todo' = todo /\ m.type = "create_forum_topic"
      /\ db[m.ticket].status # "none" /\ db[m.ticket] \in Row
  BY EntrySound DEF CreateForumTopic, core
<1>2. PICK ack : ack = Msg("topic_created", m.ticket, m.corr, 1, "none") /\ Executed(m, {ack})
  BY CreateFinds
<1>3. PICK f : /\ f = [ticket |-> m.ticket, id |-> 1, icon |-> "new", closed |-> FALSE]
               /\ topics' = topics \cup {f} /\ clock[m.ticket]["topic"] = 0
               /\ \A x \in Tickets : clock'[x]["post"] = clock[x]["post"]
               /\ \A x \in Tickets \ {m.ticket} : clock'[x] = clock[x]
  BY CreateFinds
<1>4. \A o \in {ack} : o.type \in Acks
  BY <1>2, MsgIs DEF Acks
<1>5. ~EditOf(m, t, k)
  BY <1>1 DEF EditOf
<1>6. FitsNow(t, k) => FitsNow(t, k)'
  BY <1>1, <1>3 DEF FitsNow, Fits
<1>7. Made(t, k)' => Made(t, k) \/ FitsNow(t, k)'
  <2>1. CASE k = "header" \/ t # m.ticket
    BY <1>3, <2>1 DEF Made
  <2>2. CASE k = "icon" /\ t = m.ticket
    <3>1. db[t].topic = 0
      BY <1>3, <2>2 DEF Consistent, Attached
    <3>2. db[t].status = "new"
      BY <1>1, <2>2, <3>1 DEF IInv, RowInv, WorkedOnIsAttached, Row
    <3>3. f \in topics' /\ f.ticket = t /\ f.icon = "new"
      BY <1>3, <2>2
    <3> QED
      BY <1>1, <2>2, <3>2, <3>3 DEF FitsNow, Fits
  <2> QED
    BY <2>1, <2>2 DEF Edited
<1> QED
  BY <1>1, <1>2, <1>4, <1>5, <1>6, <1>7, EditsCarried

LEMMA EditsSend ==
  ASSUME IInv, Consistent, [Next]_vars, NEW m \in bus, SendMessage(m),
         NEW t \in Tickets, NEW k \in Edited, LastFits(t, k), InTurn(t, k)
  PROVE  LastFits(t, k)' /\ InTurn(t, k)'
<1>1. /\ db' = db /\ topics' = topics /\ todo' = todo /\ m.type = "send_message"
      /\ db[m.ticket].status # "none" /\ db[m.ticket] \in Row /\ Reached(m.ticket)
  BY EntrySound DEF SendMessage, core
<1>2. PICK acks : Executed(m, acks) /\ \A o \in acks : o.type \in Acks
  <2> DEFINE ack == Msg("message_sent", m.ticket, m.corr, Fresh(m.ticket, "post"), "none")
             acks == IF m.corr = 0 THEN {} ELSE {ack}
  <2>1. Executed(m, acks)
    BY DEF SendMessage
  <2>2. ack.type \in Acks
    BY MsgIs DEF Acks
  <2> HIDE DEF ack
  <2>3. \A o \in acks : o.type \in Acks
    BY <2>2
  <2> HIDE DEF acks
  <2> QED
    BY <2>1, <2>3
<1>3. ~EditOf(m, t, k)
  BY <1>1 DEF EditOf
<1>4. /\ clock'[t]["topic"] = clock[t]["topic"] /\ posts \subseteq posts'
      /\ t # m.ticket => clock'[t]["post"] = clock[t]["post"]
      /\ t = m.ticket => [ticket |-> t, id |-> clock[t]["post"] + 1, view |-> m.view] \in posts'
  BY SendShows
<1>5. FitsNow(t, k) => FitsNow(t, k)'
  BY <1>1, <1>4 DEF FitsNow, Fits
<1>6. Made(t, k)' => Made(t, k) \/ FitsNow(t, k)'
  <2>1. CASE k = "icon" \/ t # m.ticket \/ clock[t]["post"] # 0
    BY <1>4, <2>1 DEF Made, Edited
  <2>2. CASE k = "header" /\ t = m.ticket /\ clock[t]["post"] = 0
    <3>1. m.view = "new"
      BY <1>1, <2>2, SendFinds
    <3>2. db[t].status = "new"
      BY <1>1, <2>2 DEF IInv, RowInv, WorkedOnIsAttached, Row, Reached
    <3>3. PICK p : p = [ticket |-> t, id |-> 1, view |-> "new"]
      OBVIOUS
    <3>4. p \in posts' /\ p.ticket = t /\ p.id = 1 /\ p.view = "new"
      BY <1>4, <2>2, <3>1, <3>3
    <3> QED
      BY <1>1, <2>2, <3>2, <3>4 DEF FitsNow, Fits
  <2> QED
    BY <2>1, <2>2 DEF Edited
<1> QED
  BY <1>1, <1>2, <1>3, <1>5, <1>6, EditsCarried

LEMMA EditsEditMessage ==
  ASSUME IInv, Consistent, [Next]_vars, NEW m \in bus, EditMessageText(m),
         NEW t \in Tickets, NEW k \in Edited, LastFits(t, k), InTurn(t, k)
  PROVE  LastFits(t, k)' /\ InTurn(t, k)'
<1>1. /\ db' = db /\ topics' = topics /\ todo' = todo /\ clock' = clock
      /\ m.type = "edit_message_text" /\ Oldest(m) /\ bus' = bus \ {m} /\ Executed(m, {})
      /\ Sound(m) /\ m.ticket \in Tickets /\ Attached(t) /\ Shown(t)
  BY EntrySound DEF EditMessageText, core, Executed, Consistent, IInv, Once
<1>2. \A p \in posts : p \in [ticket : Tickets, id : Nat, view : Views]
  BY DEF IInv, RowInv, TypeOK
<1>3. CASE EditOf(m, t, k)
  <2>1. k = "header" /\ m.ticket = t /\ m.id = 1
    BY <1>1, <1>3 DEF EditOf, Sound, HeaderViews
  <2>2. ASSUME Made(t, k), Fits(m.view, t, k)
        PROVE  FitsNow(t, k)'
    <3>1. PICK p \in posts : p.ticket = t /\ p.id = 1
      BY <1>1, <2>1, <2>2 DEF Made, Attached
    <3>2. [p EXCEPT !.view = m.view] \in posts'
      BY <2>1, <3>1 DEF EditMessageText
    <3>3. PICK q : q = [p EXCEPT !.view = m.view]
      OBVIOUS
    <3>4. q \in posts' /\ q.ticket = t /\ q.id = 1 /\ q.view = m.view
      BY <1>2, <3>1, <3>2, <3>3
    <3> QED
      BY <1>1, <2>1, <2>2, <3>4 DEF FitsNow, Fits
  <2> QED
    BY <1>1, <1>3, <2>2, EditsDone
<1>4. CASE ~EditOf(m, t, k)
  <2>1. FitsNow(t, k) => FitsNow(t, k)'
    <3>1. CASE k = "icon"
      BY <1>1, <3>1 DEF FitsNow, Fits
    <3>2. ASSUME k = "header", NEW p \in posts, p.ticket = t, p.id = 1, Fits(p.view, t, k)
          PROVE  FitsNow(t, k)'
      <4>1. ~(p.ticket = m.ticket /\ p.id = m.id)
        <5>1. SUFFICES ASSUME m.ticket = t, m.id = 1
                       PROVE  FALSE
          BY <3>2
        <5>2. m.view \notin HeaderViews
          BY <1>1, <1>4, <3>2, <5>1 DEF EditOf
        <5>3. CardPost(t, 1)
          BY <1>1, <5>1, <5>2 DEF Sound
        <5> QED
          BY <1>1, <5>3 DEF CardPost, Shown, HeaderViews, CardViews
      <4>2. p \in posts'
        BY <4>1 DEF EditMessageText
      <4> QED
        BY <1>1, <3>2, <4>2 DEF FitsNow, Fits
    <3> QED
      BY <3>1, <3>2 DEF FitsNow, Edited
  <2>2. Made(t, k)' => Made(t, k)
    BY <1>1 DEF Made
  <2> QED
    BY <1>1, <1>4, <2>1, <2>2, EditsCarried
<1> QED
  BY <1>3, <1>4

LEMMA EditsEditTopic ==
  ASSUME IInv, Consistent, [Next]_vars, NEW m \in bus, EditForumTopic(m) \/ CloseForumTopic(m),
         NEW t \in Tickets, NEW k \in Edited, LastFits(t, k), InTurn(t, k)
  PROVE  LastFits(t, k)' /\ InTurn(t, k)'
<1>1. /\ db' = db /\ posts' = posts /\ todo' = todo /\ clock' = clock
      /\ Oldest(m) /\ bus' = bus \ {m} /\ Executed(m, {}) /\ Attached(t)
  BY DEF EditForumTopic, CloseForumTopic, core, Executed, Consistent
<1>2. CASE EditOf(m, t, k)
  <2>1. k = "icon" /\ m.ticket = t /\ m.type = "edit_forum_topic"
    BY <1>2 DEF EditOf, EditForumTopic, CloseForumTopic
  <2>2. EditForumTopic(m) /\ m.id = 1
    BY <2>1 DEF CloseForumTopic, Consistent, TopicId
  <2>3. ASSUME Made(t, k), Fits(m.view, t, k)
        PROVE  FitsNow(t, k)'
    <3>1. PICK f \in topics : f.ticket = t /\ f.id = 1
      BY <1>1, <2>1, <2>3 DEF Made, Attached
    <3>2. \E g \in topics' : g.ticket = t /\ g.icon = m.view
      BY <2>1, <2>2, <3>1, EditedTopic
    <3> QED
      BY <1>1, <2>1, <2>3, <3>2 DEF FitsNow, Fits
  <2> QED
    BY <1>1, <1>2, <2>3, EditsDone
<1>3. CASE ~EditOf(m, t, k)
  <2>1. FitsNow(t, k) => FitsNow(t, k)'
    <3>1. CASE k = "header"
      BY <1>1, <3>1 DEF FitsNow, Fits
    <3>2. ASSUME k = "icon", NEW f \in topics, f.ticket = t, Fits(f.icon, t, k)
          PROVE  FitsNow(t, k)'
      <4>1. ~(EditForumTopic(m) /\ m.ticket = t)
        BY <1>3, <3>2 DEF EditOf, EditForumTopic
      <4>2. \E g \in topics' : g.ticket = t /\ g.icon = f.icon
        BY <3>2, <4>1, EditedTopic
      <4> QED
        BY <1>1, <3>2, <4>2 DEF FitsNow, Fits
    <3> QED
      BY <3>1, <3>2 DEF FitsNow, Edited
  <2>2. Made(t, k)' => Made(t, k)
    BY <1>1 DEF Made
  <2> QED
    BY <1>1, <1>3, <2>1, <2>2, EditsCarried
<1> QED
  BY <1>2, <1>3

\* A step that leaves the edits, the row and Telegram alone.
LEMMA EditsIdle ==
  ASSUME IInv, [Next]_vars, NEW t \in Tickets, NEW k \in Edited, LastFits(t, k), InTurn(t, k),
         \A m : EditOf(m, t, k) => (m \in bus' <=> m \in bus),
         db' = db, todo' = todo, Inside
  PROVE  LastFits(t, k)' /\ InTurn(t, k)'
<1>1. Made(t, k)' <=> Made(t, k)
  BY DEF Made, Inside, Outside
<1>2. FitsNow(t, k) => FitsNow(t, k)'
  BY DEF FitsNow, Fits, Inside
<1> QED
  BY <1>1, <1>2, EditsKept

\* A press is neither an edit nor what a phase waits for.
LEMMA PressIdle ==
  ASSUME IInv, [Next]_vars, NEW p \in posts, NEW b, NEW user, NEW target,
         PressButton(p, b, user, target)
  PROVE  /\ db' = db /\ todo' = todo /\ topics' = topics /\ posts' = posts /\ Inside
         /\ bus \subseteq bus'
         /\ \A t, k, m : EditOf(m, t, k) => (m \in bus' <=> m \in bus)
<1>1. PICK x : bus' = bus \cup {x} /\ x.type = "callback"
  <2>1. PICK n : n = Fresh(p.ticket, "callback")
    OBVIOUS
  <2>2. PICK x : x = [type |-> "callback", ticket |-> p.ticket, n |-> n,
                      user |-> user, data |-> b, target |-> target]
    OBVIOUS
  <2>3. bus' = bus \cup {x}
    BY <2>1, <2>2 DEF PressButton
  <2> QED
    BY <2>2, <2>3
<1>2. TypeOK /\ p.ticket \in Tickets
  BY DEF IInv, RowInv, TypeOK
<1>3. Inside
  <2>1. {"callback"} \cap Outside = {}
    BY DEF Outside
  <2>2. Tick(p.ticket, {"callback"}) /\ topics' = topics /\ posts' = posts
    BY DEF PressButton, telegram
  <2> QED
    BY <1>2, <2>1, <2>2, TickInside DEF Inside
<1>4. \A t, k : ~EditOf(x, t, k)
  BY <1>1 DEF EditOf
<1> QED
  BY <1>1, <1>3, <1>4 DEF PressButton, core, telegram

\* Every phase stays awaited or attached.
LEMMA CompletesStep ==
  ASSUME IInv, Consistent, [Next]_vars, Undisturbed', NEW t \in Tickets, Completes(t)
  PROVE  Completes(t)'
<1>1. CASE UNCHANGED vars
  <2>1. (bus \cup Owed)' = bus \cup Owed /\ db' = db /\ topics' = topics /\ posts' = posts
    BY <1>1 DEF vars, Owed
  <2> QED
    BY <2>1, CompletesIdle
<1>2. ASSUME NEW x \in Tickets, NEW u \in Users, CreateTicketPhase1(x, u)
      PROVE  Completes(t)'
  BY <1>2, CompletesCreate
<1>3. ASSUME NEW m \in bus, CoreTakes(m)
      PROVE  Completes(t)'
  BY <1>3, CompletesHandled, CompletesTopicCreated
<1>4. ASSUME NEW m \in bus, Carries(m)
      PROVE  Completes(t)'
  BY <1>4, CompletesCreateTopic, CompletesSend, CompletesEdit, CompletesCloseTopic DEF Carries
<1>5. ASSUME NEW r \in reading, Decide(r)
      PROVE  Completes(t)'
  BY <1>5, CompletesDecide
<1>6. ASSUME NEW h \in Tasks, Publish(h)
      PROVE  Completes(t)'
  BY <1>6, CompletesPublish
<1>7. ASSUME NEW p \in posts, NEW b, NEW user, NEW target, PressButton(p, b, user, target)
      PROVE  Completes(t)'
  <2>1. /\ db' = db /\ todo' = todo /\ topics' = topics /\ posts' = posts
        /\ bus \subseteq bus'
    BY <1>7, PressIdle
  <2>2. Owed' = Owed
    BY <2>1, OwedSame
  <2>3. \A m \in bus \cup Owed : m \in (bus \cup Owed)'
    BY <2>1, <2>2
  <2> QED
    BY <2>1, <2>3, CompletesIdle
<1> QED
  BY <1>1, <1>2, <1>3, <1>4, <1>5, <1>6, <1>7, StillUndisturbed DEF Next

\* The last edit under way, or else what is edited, keeps showing the row.
LEMMA EditsStep ==
  ASSUME IInv, Consistent, [Next]_vars, Undisturbed', NEW t \in Tickets, NEW k \in Edited,
         LastFits(t, k), InTurn(t, k)
  PROVE  LastFits(t, k)' /\ InTurn(t, k)'
<1>1. CASE UNCHANGED vars
  <2>1. db' = db /\ todo' = todo /\ bus' = bus /\ Inside
    BY <1>1 DEF vars, Inside
  <2> QED
    BY <2>1, EditsIdle
<1>2. ASSUME NEW x \in Tickets, NEW u \in Users, CreateTicketPhase1(x, u)
      PROVE  LastFits(t, k)' /\ InTurn(t, k)'
  BY <1>2, EditsCreate
<1>3. ASSUME NEW m \in bus, CoreTakes(m)
      PROVE  LastFits(t, k)' /\ InTurn(t, k)'
  BY <1>3, EditsHandled
<1>4. ASSUME NEW m \in bus, Carries(m)
      PROVE  LastFits(t, k)' /\ InTurn(t, k)'
  BY <1>4, EditsCreateTopic, EditsSend, EditsEditMessage, EditsEditTopic DEF Carries
<1>5. ASSUME NEW r \in reading, Decide(r)
      PROVE  LastFits(t, k)' /\ InTurn(t, k)'
  BY <1>5, EditsDecide
<1>6. ASSUME NEW h \in Tasks, Publish(h)
      PROVE  LastFits(t, k)' /\ InTurn(t, k)'
  BY <1>6, EditsPublish
<1>7. ASSUME NEW p \in posts, NEW b, NEW user, NEW target, PressButton(p, b, user, target)
      PROVE  LastFits(t, k)' /\ InTurn(t, k)'
  BY <1>7, PressIdle, EditsIdle
<1> QED
  BY <1>1, <1>2, <1>3, <1>4, <1>5, <1>6, <1>7, StillUndisturbed DEF Next

LEMMA FaithfulStep ==
  ASSUME IInv, Consistent, Faithful, [Next]_vars
  PROVE  Faithful'
<1> SUFFICES ASSUME Undisturbed', NEW t \in Tickets
             PROVE  /\ Completes(t)'
                    /\ \A k \in Edited : LastFits(t, k)' /\ InTurn(t, k)'
  BY DEF Faithful
<1>1. Undisturbed
  BY StillUndisturbed
<1>2. Completes(t) /\ \A k \in Edited : LastFits(t, k) /\ InTurn(t, k)
  BY <1>1 DEF Faithful
<1> QED
  BY <1>2, CompletesStep, EditsStep

LEMMA FaithfulInit == Init => Faithful
<1> SUFFICES ASSUME Init, NEW t \in Tickets
             PROVE  Completes(t) /\ \A k \in Edited : LastFits(t, k) /\ InTurn(t, k)
  BY DEF Faithful
<1>1. db[t].status = "none" /\ db[t].topic = 0 /\ clock[t]["topic"] = 0 /\ clock[t]["post"] = 0
  BY DEF Init, NoRow, Sources, Ids
<1>2. bus = {} /\ \A h \in Tasks : DOMAIN todo[h] = {}
  BY DEF Init
<1>3. bus \cup Owed = {}
  BY <1>2, OwedIs
<1>4. Completes(t)
  BY <1>1 DEF Completes
<1>5. ASSUME NEW k \in Edited
      PROVE  LastFits(t, k) /\ InTurn(t, k)
  <2>1. Pending(t, k) = {}
    BY <1>3, PendingIs
  <2>2. ~Made(t, k)
    BY <1>1 DEF Made
  <2> QED
    BY <1>2, <2>1, <2>2 DEF LastFits, InTurn
<1> QED
  BY <1>4, <1>5

-----------------------------------------------------------------------------
(* What it is for.                                                         *)

\* A ticket with nothing under way is through with its phases and its edits.
LEMMA SettledShows ==
  ASSUME IInv, Consistent, Faithful, Undisturbed, NEW t \in Tickets,
         Settled(t), db[t].status # "none"
  PROVE  /\ \E p \in posts : /\ p.ticket = t /\ p.id = db[t].header
                             /\ \/ p.view = db[t].status
                                \/ p.view = "confirm" /\ db[t].status # "closed"
         /\ \E f \in topics : /\ f.ticket = t /\ f.id = db[t].topic
                              /\ f.icon = db[t].status
                              /\ f.closed = (db[t].status = "closed")
         /\ (\E p \in posts : p.ticket = t /\ p.view = "thanks") <=> db[t].status = "closed"
<1>1. \A m \in bus \cup Owed : m.ticket # t
  BY OwedIs DEF Settled
<1>2. Completes(t) /\ Attached(t) /\ \A k \in Edited : LastFits(t, k)
  BY DEF Faithful, Consistent
<1>3. db[t].topic # 0 /\ db[t].header # 0
  BY <1>1, <1>2 DEF Completes, Awaits
<1>4. db[t].header = 1 /\ clock[t]["post"] # 0 /\ db[t].topic = 1 /\ clock[t]["topic"] # 0
  BY <1>2, <1>3 DEF IInv, Once, Reached, Attached
<1>5. ASSUME NEW k \in Edited
      PROVE  FitsNow(t, k)
  <2>1. Pending(t, k) = {}
    BY <1>1, PendingIs DEF EditOf
  <2>2. Made(t, k)
    BY <1>4 DEF Made, Edited
  <2> QED
    BY <1>2, <1>5, <2>1, <2>2 DEF LastFits
<1>6. \E p \in posts : /\ p.ticket = t /\ p.id = db[t].header
                       /\ \/ p.view = db[t].status
                          \/ p.view = "confirm" /\ db[t].status # "closed"
  BY <1>4, <1>5 DEF FitsNow, Fits, Edited
<1>7. PICK f \in topics : f.ticket = t /\ f.icon = db[t].status
  BY <1>5 DEF FitsNow, Fits, Edited
<1>8. f.id = db[t].topic /\ f.closed \in BOOLEAN /\ (f.closed <=> db[t].status = "closed")
  <2>1. f.closed \in BOOLEAN
    BY DEF IInv, RowInv, TypeOK
  <2>2. db[t].status = "closed" => f.closed
    BY <1>1, <1>2, <1>7 DEF Completes
  <2> QED
    BY <1>2, <1>4, <1>7, <2>1, <2>2 DEF Attached
<1>9. (\E p \in posts : p.ticket = t /\ p.view = "thanks") <=> db[t].status = "closed"
  <2>1. db[t].status = "closed" => \E p \in posts : p.ticket = t /\ p.view = "thanks"
    BY <1>1, <1>2 DEF Completes
  <2>2. Done(t, "thanks") => Begun(t, "thanks")
    BY DEF IInv, Once, OnePlace, Kinds
  <2> QED
    BY <2>1, <2>2 DEF Done, Begun
<1>10. f.closed = (db[t].status = "closed")
  BY <1>8
<1> QED
  BY <1>6, <1>7, <1>8, <1>9, <1>10

\* The inductive invariant behind CustomerSeesStatus: of the phases none is
\* dropped, of the edits the last one shows the row, in any interleaving of the
\* tasks of core and of the executor's consumers.
THEOREM FaithfulCorrect == Spec => [](Consistent /\ Faithful)
<1>1. Init => Consistent /\ Faithful
  BY ConsistentInit, FaithfulInit
<1>2. IInv /\ Consistent /\ Faithful /\ [Next]_vars => Consistent' /\ Faithful'
  BY ConsistentStep, FaithfulStep
<1> QED
  BY <1>1, <1>2, Inductive, PTL DEF Spec

\* The inductive invariant of the lifecycle: the handlers, the streams and the
\* executor of gateway-tg together keep it, whatever is pressed or delivered again.
THEOREM LifecycleInductive == Spec => []LifecycleInv
<1>1. IInv /\ Consistent /\ Faithful => LifecycleInv
  BY DEF LifecycleInv
<1> QED
  BY <1>1, Inductive, FaithfulCorrect, PTL

\* As long as nothing is lost, what the customer ends up seeing is the row: the
\* header has its status, the topic has its icon, and is closed with a farewell
\* exactly when close_ticket has committed.
THEOREM CustomerSeesStatusCorrect == Spec => []CustomerSeesStatus
<1>1. IInv /\ Consistent /\ Faithful => CustomerSeesStatus
  BY SettledShows DEF CustomerSeesStatus
<1> QED
  BY <1>1, Inductive, FaithfulCorrect, PTL

=============================================================================
