------------------------- MODULE TicketMirrorProofs -------------------------
(***************************************************************************)
(* What core publishes keeps the order SheetsSync assumes of it, for every *)
(* value of the constants, so that what is proved of SheetsSync holds of   *)
(* the services together; and the worksheet is never ahead of the          *)
(* database.                                                               *)
(***************************************************************************)
EXTENDS TicketMirror, TicketLifecycleSees

-----------------------------------------------------------------------------
(* Statuses.                                                               *)

\* Only a decision about a button moves a ticket that has a row.
LEMMA StatusStays ==
  ASSUME IInv, [Next]_vars, \A r \in reading : ~Decide(r),
         NEW t \in Tickets, db[t].status # "none"
  PROVE  db'[t].status = db[t].status
<1>1. TypeOK
  BY DEF IInv, RowInv
<1>2. ASSUME NEW x \in Tickets, NEW u \in Users, CreateTicketPhase1(x, u)
      PROVE  db'[t].status = db[t].status
  <2>1. x # t
    BY <1>2 DEF CreateTicketPhase1
  <2> QED
    BY <1>1, <1>2, <2>1 DEF CreateTicketPhase1, TypeOK
<1>3. \A m \in bus : CoreTakes(m) => db'[t].status = db[t].status
  BY RowsHandled
<1>4. \A m \in bus : Carries(m) \/ TelegramRefuses(m) => db' = db
  BY DEF Carries, CreateForumTopic, SendMessage, EditMessageText, EditForumTopic,
     CloseForumTopic, TelegramRefuses, core
<1>5. \/ \E h \in Tasks : Publish(h)
      \/ \E p \in posts, b \in Buttons, user \in People, target \in Executors \cup {Nobody} :
           PressButton(p, b, user, target)
      \/ Crash
      \/ UNCHANGED vars
      => db' = db
  BY DEF Publish, PressButton, Crash, core, vars
<1> QED
  BY <1>2, <1>3, <1>4, <1>5 DEF Next

LEMMA StatusLater ==
  ASSUME IInv, Consistent, [Next]_vars, NEW t \in Tickets
  PROVE  /\ db[t].status = "closed" => db'[t].status = "closed"
         /\ db[t].status \in {"in_progress", "closed"} => db'[t].status \in {"in_progress", "closed"}
         /\ db[t].status # "none" => db'[t].status # "none"
         /\ db[t].status # "none" /\ todo["callback"] # << >> => db'[t].status = db[t].status
<1>1. /\ db[t].status = "closed" => db'[t].status = "closed"
      /\ db[t].status # "none" => db'[t].status # "none"
  BY TopicOfStep
<1>2. todo["callback"] # << >> => \A r \in reading : ~Decide(r)
  BY DEF Consistent
<1>3. ASSUME NEW r \in reading, Decide(r), db[t].status \in {"in_progress", "closed"}
      PROVE  db'[t].status \in {"in_progress", "closed"}
  BY <1>3, DecidedRow DEF Decide
<1>4. db[t].status \in {"in_progress", "closed"} => db[t].status # "none"
  OBVIOUS
<1> QED
  BY <1>1, <1>2, <1>3, <1>4, StatusStays

-----------------------------------------------------------------------------
(* What a step publishes.                                                  *)

LEMMA FactIs ==
  ASSUME NEW m, m.type \in Facts, NEW o, o.type \in Facts
  PROVE  /\ Fact(m) = Fact(o) <=> m.type = o.type /\ m.ticket = o.ticket
         /\ \A t : Fact(m) = [kind |-> "created", ticket |-> t] <=>
                     m.type = "ticket_created" /\ m.ticket = t
         /\ \A t : Fact(m) = [kind |-> "assigned", ticket |-> t] <=>
                     m.type = "ticket_assigned" /\ m.ticket = t
         /\ \A t : Fact(m) = [kind |-> "closed", ticket |-> t] <=>
                     m.type = "ticket_closed" /\ m.ticket = t
BY DEF Fact, Facts

LEMMA PublishedIs ==
  ASSUME TypeOK, NEW h \in Tasks, Publish(h)
  PROVE  Published = IF Head(todo[h]).type \in Facts THEN {Fact(Head(todo[h]))} ELSE {}
<1>1. ASSUME NEW k \in Tasks, Publish(k)
      PROVE  k = h
  <2>1. SUFFICES ASSUME k # h PROVE FALSE
    OBVIOUS
  <2>2. todo'[h] = Tail(todo[h]) /\ todo[h] # << >> /\ todo[h] \in Seq(Message)
    BY DEF Publish, TypeOK
  <2>3. todo'[h] = todo[h]
    BY <1>1, <2>1 DEF Publish, TypeOK
  <2>4. Len(Tail(todo[h])) = Len(todo[h]) - 1 /\ Len(todo[h]) \in Nat
    BY <2>2, HeadTailProperties
  <2>5. Len(Tail(todo[h])) # Len(todo[h])
    BY <2>4
  <2>6. todo[h] = Tail(todo[h])
    BY <2>2, <2>3
  <2> QED
    BY <2>5, <2>6, Zenon
<1>2. {k \in Tasks : Publish(k) /\ Head(todo[k]).type \in Facts}
        = IF Head(todo[h]).type \in Facts THEN {h} ELSE {}
  BY <1>1
<1> QED
  BY <1>2 DEF Published

LEMMA NothingPublished ==
  ASSUME \A h \in Tasks : ~Publish(h)
  PROVE  Published = {}
BY DEF Published

-----------------------------------------------------------------------------
(* What stays as it is.                                                    *)

\* NowOwed is OwedBy about the state after a step.
NowOwed(h, m) ==
  LET now == [kind |-> "created", ticket |-> m.ticket] \in announced' IN
  /\ AboutCard(m) /\ m.type # "ticket_created" => now
  /\ m.type \in Facts => /\ Fact(m) \notin announced'
                         /\ h = IF m.type = "ticket_created" THEN "message_sent" ELSE "callback"
  /\ m.type = "ticket_created" => clock'[m.ticket]["ticket_created"] # 0
  /\ m.type = "ticket_assigned" => db'[m.ticket].status = "in_progress" /\ now
  /\ m.type = "ticket_closed" => db'[m.ticket].status = "closed"

LEMMA OwedAfterwards ==
  ASSUME NEW h, \A i \in DOMAIN todo'[h] : NowOwed(h, todo'[h][i]),
         \A i, j \in DOMAIN todo'[h] : SameFact(todo'[h][i], todo'[h][j]) => i = j
  PROVE  OwedOnce(h)'
BY DEF OwedOnce, OwedBy, NowOwed, Announced, Fact, AboutCard, SameFact

\* Whatever core announces is backed by its row, and stays so.
LEMMA BackedStep ==
  ASSUME IInv, Consistent, FactsTold, [Next]_vars, NEW t \in Tickets,
         \A f \in announced' : f \in announced \/
           \E h \in Tasks : \E i \in DOMAIN todo[h] :
             todo[h][i].type \in Facts /\ f = Fact(todo[h][i])
  PROVE  Backed(t)'
<1>1. \A f \in announced' : f \in announced \/
        \E h, m : m.type \in Facts /\ f = Fact(m) /\ OwedBy(h, m)
  BY DEF FactsTold, OwedOnce
<1>2. /\ Announced(t, "created")' => clock[t]["ticket_created"] # 0
      /\ Announced(t, "assigned")' => db[t].status \in {"in_progress", "closed"}
      /\ Announced(t, "closed")' => db[t].status = "closed"
  <2>1. Backed(t)
    BY DEF FactsTold
  <2>2. ASSUME NEW kind, Announced(t, kind)', ~Announced(t, kind)
        PROVE  \E h, m : m.type \in Facts /\ [kind |-> kind, ticket |-> t] = Fact(m) /\ OwedBy(h, m)
    BY <1>1, <2>2 DEF Announced
  <2>3. ASSUME Announced(t, "created")', ~Announced(t, "created")
        PROVE  clock[t]["ticket_created"] # 0
    BY <2>2, <2>3, FactIs DEF OwedBy
  <2>4. ASSUME Announced(t, "assigned")', ~Announced(t, "assigned")
        PROVE  db[t].status \in {"in_progress", "closed"}
    BY <2>2, <2>4, FactIs DEF OwedBy
  <2>5. ASSUME Announced(t, "closed")', ~Announced(t, "closed")
        PROVE  db[t].status = "closed"
    BY <2>2, <2>5, FactIs DEF OwedBy
  <2> QED
    BY <2>1, <2>3, <2>4, <2>5 DEF Backed
<1>3. clock[t]["ticket_created"] # 0 => clock'[t]["ticket_created"] # 0
  <2>1. TypeOK /\ TypeOK' /\ "ticket_created" \in Sources
    BY TypeStep DEF IInv, RowInv, Sources, Facts, Tasks
  <2>2. clock'[t]["ticket_created"] >= clock[t]["ticket_created"]
    BY <2>1, ClockStep
  <2> QED
    BY <2>1, <2>2 DEF TypeOK
<1> QED
  BY <1>2, <1>3, StatusLater DEF Backed

\* What is owed and not being announced stays owed.
LEMMA OwedByStays ==
  ASSUME IInv, Consistent, FactsTold, [Next]_vars, announced \subseteq announced',
         NEW h \in Tasks, NEW i \in DOMAIN todo[h], NEW m, m = todo[h][i],
         m.type \in Facts => Fact(m) \notin announced'
  PROVE  NowOwed(h, m)
<1>1. TypeOK /\ TypeOK' /\ "ticket_created" \in Sources /\ m.ticket \in Tickets
  <2>1. TypeOK /\ TypeOK' /\ "ticket_created" \in Sources
    BY TypeStep DEF IInv, RowInv, Sources, Facts
  <2>2. m \in bus \cup Owed
    BY OwedIs
  <2> QED
    BY <2>1, <2>2, WayType
<1>2. OwedBy(h, m)
  BY DEF FactsTold, OwedOnce
<1>4. clock'[m.ticket]["ticket_created"] >= clock[m.ticket]["ticket_created"]
  BY <1>1, ClockStep
<1>5. clock[m.ticket]["ticket_created"] # 0 => clock'[m.ticket]["ticket_created"] # 0
  <2>1. clock[m.ticket]["ticket_created"] \in Nat /\ clock'[m.ticket]["ticket_created"] \in Nat
    BY <1>1 DEF TypeOK
  <2> QED
    BY <1>4, <2>1
<1>6. m.type = "ticket_assigned" => db'[m.ticket].status = "in_progress"
  <2>1. m.type = "ticket_assigned" => h = "callback" /\ todo["callback"] # << >>
    BY <1>2 DEF OwedBy, Facts
  <2> QED
    BY <1>1, <1>2, <2>1, StatusLater DEF OwedBy
<1>7. m.type = "ticket_closed" => db'[m.ticket].status = "closed"
  BY <1>1, <1>2, StatusLater DEF OwedBy
<1> QED
  BY <1>2, <1>5, <1>6, <1>7 DEF OwedBy, NowOwed, Announced

LEMMA OwedStays ==
  ASSUME IInv, Consistent, FactsTold, [Next]_vars, announced' = announced,
         NEW h \in Tasks, todo'[h] = todo[h] \/ todo'[h] = << >>
  PROVE  OwedOnce(h)'
<1>1. CASE todo'[h] = << >>
  BY <1>1 DEF OwedOnce
<1>2. CASE todo'[h] = todo[h]
  <2>1. ASSUME NEW i \in DOMAIN todo'[h]
        PROVE  NowOwed(h, todo'[h][i])
    <3>1. PICK m : m = todo[h][i]
      OBVIOUS
    <3>2. m.type \in Facts => Fact(m) \notin announced'
      BY <1>2, <2>1, <3>1 DEF FactsTold, OwedOnce, OwedBy
    <3>3. NowOwed(h, m)
      BY <1>2, <2>1, <3>1, <3>2, OwedByStays
    <3> QED
      BY <1>2, <3>1, <3>3
  <2>2. \A i, j \in DOMAIN todo'[h] : SameFact(todo'[h][i], todo'[h][j]) => i = j
    BY <1>2 DEF FactsTold, OwedOnce
  <2> QED
    BY <2>1, <2>2, OwedAfterwards
<1> QED
  BY <1>1, <1>2

\* Cards and presses: the ones there are stay backed by the announcement.
LEMMA CardsStay ==
  ASSUME FactsTold, announced \subseteq announced',
         \A m \in bus' : m \in bus \/ ~AboutCard(m) \/ Announced(m.ticket, "created")',
         \A r \in reading' : r \in reading \/ Announced(r.msg.ticket, "created"),
         \A p \in posts' : p.view = "offer" => p \in posts \/ Announced(p.ticket, "created")
  PROVE  CardsAnnounced'
<1>1. \A t : Announced(t, "created") => Announced(t, "created")'
  BY DEF Announced
<1>2. \A m \in bus' : AboutCard(m) => Announced(m.ticket, "created")'
  BY <1>1 DEF FactsTold, CardsAnnounced
<1>3. \A r \in reading' : AboutCard(r.msg) => Announced(r.msg.ticket, "created")'
  BY <1>1 DEF FactsTold, CardsAnnounced
<1>4. \A p \in posts' : p.view = "offer" => Announced(p.ticket, "created")'
  BY <1>1 DEF FactsTold, CardsAnnounced
<1> QED
  BY <1>2, <1>3, <1>4 DEF CardsAnnounced

-----------------------------------------------------------------------------
(* Publishing.                                                             *)

LEMMA FactsPublish ==
  ASSUME IInv, Consistent, FactsTold, [Next]_vars, NEW h \in Tasks, Publish(h),
         announced' = announced \cup Published
  PROVE  FactsTold'
<1> DEFINE s == todo[h]
<1>1. /\ TypeOK /\ s \in Seq(Message) /\ s # << >> /\ todo \in [Tasks -> Seq(Message)]
      /\ reading' = reading /\ posts' = posts
  BY DEF IInv, RowInv, TypeOK, Publish, telegram
<1>2. /\ Head(s) = s[1] /\ 1 \in DOMAIN s
      /\ \A i \in DOMAIN Tail(s) : i + 1 \in DOMAIN s /\ i + 1 # 1 /\ Tail(s)[i] = s[i + 1]
      /\ \A i, j \in DOMAIN Tail(s) : i + 1 = j + 1 => i = j
  BY <1>1, HeadTailProperties
<1>3. todo'[h] = Tail(s) /\ \A x \in Tasks \ {h} : todo'[x] = todo[x]
  BY <1>1 DEF Publish
<1>4. PICK o : o = s[1]
  OBVIOUS
<1>5. OwedBy(h, o) /\ Head(s) = o
  BY <1>2, <1>4 DEF FactsTold, OwedOnce
<1>6. /\ announced \subseteq announced'
      /\ \A f \in announced' : f \in announced \/ (o.type \in Facts /\ f = Fact(o))
      /\ o.type \in Facts => Fact(o) \in announced'
  BY <1>1, <1>5, PublishedIs
<1>7. \A t \in Tickets : Backed(t)'
  BY <1>2, <1>4, <1>6, BackedStep
<1>8. CardsAnnounced'
  <2>1. \A m \in bus' : m \in bus \/ m = o
    BY <1>5 DEF Publish
  <2>2. AboutCard(o) => Announced(o.ticket, "created")'
    BY <1>5, <1>6, FactIs DEF OwedBy, Announced, Facts
  <2> QED
    BY <1>1, <1>6, <2>1, <2>2, CardsStay
\* The facts left are not the one that goes.
<1>9. ASSUME NEW g \in Tasks, NEW j \in DOMAIN todo[g], g # h \/ j # 1
      PROVE  NowOwed(g, todo[g][j])
  <2>1. PICK m : m = todo[g][j]
    OBVIOUS
  <2>2. OwedBy(g, m)
    BY <2>1 DEF FactsTold, OwedOnce
  <2>3. ASSUME m.type \in Facts, Fact(m) \in announced'
        PROVE  FALSE
    <3>1. o.type \in Facts /\ Fact(m) = Fact(o)
      BY <1>6, <2>2, <2>3 DEF OwedBy
    <3>2. m.type = o.type /\ m.ticket = o.ticket
      BY <2>3, <3>1, FactIs
    <3>3. g = h
      BY <1>5, <2>2, <2>3, <3>1, <3>2 DEF OwedBy
    <3>4. SameFact(s[1], s[j])
      BY <1>4, <2>1, <3>1, <3>2, <3>3 DEF SameFact
    <3>5. j = 1
      BY <1>2, <3>3, <3>4 DEF FactsTold, OwedOnce
    <3> QED
      BY <1>9, <3>3, <3>5
  <2> QED
    BY <1>6, <2>1, <2>3, OwedByStays
<1>10. ASSUME NEW g \in Tasks
       PROVE  OwedOnce(g)'
  <2>1. CASE g = h
    <3>1. ASSUME NEW i \in DOMAIN todo'[g]
          PROVE  NowOwed(g, todo'[g][i])
      BY <1>2, <1>3, <1>9, <2>1, <3>1
    <3>2. ASSUME NEW i \in DOMAIN todo'[g], NEW j \in DOMAIN todo'[g],
                 SameFact(todo'[g][i], todo'[g][j])
          PROVE  i = j
      <4>1. i \in DOMAIN Tail(s) /\ j \in DOMAIN Tail(s)
        BY <1>3, <2>1, <3>2
      <4>2. SameFact(s[i + 1], s[j + 1])
        BY <1>2, <1>3, <2>1, <3>2, <4>1
      <4>3. i + 1 = j + 1
        BY <1>2, <4>1, <4>2 DEF FactsTold, OwedOnce
      <4> QED
        BY <1>2, <4>1, <4>3
    <3> QED
      BY <3>1, <3>2, OwedAfterwards
  <2>2. CASE g # h
    <3>1. ASSUME NEW i \in DOMAIN todo'[g]
          PROVE  NowOwed(g, todo'[g][i])
      BY <1>3, <1>9, <2>2, <3>1
    <3>2. \A i, j \in DOMAIN todo'[g] : SameFact(todo'[g][i], todo'[g][j]) => i = j
      BY <1>3, <2>2 DEF FactsTold, OwedOnce
    <3> QED
      BY <3>1, <3>2, OwedAfterwards
  <2> QED
    BY <2>1, <2>2
<1> QED
  BY <1>7, <1>8, <1>10 DEF FactsTold

-----------------------------------------------------------------------------
(* The other steps publish nothing.                                        *)

\* A step that publishes nothing and lets the other tasks owe what they owe.
LEMMA FactsQuiet ==
  ASSUME IInv, Consistent, FactsTold, [Next]_vars, announced' = announced,
         \A h \in Tasks : todo'[h] = todo[h] \/ todo'[h] = << >> \/ OwedOnce(h)',
         CardsAnnounced'
  PROVE  FactsTold'
<1>1. \A t \in Tickets : Backed(t)'
  BY BackedStep
<1>2. \A h \in Tasks : OwedOnce(h)'
  BY OwedStays
<1> QED
  BY <1>1, <1>2 DEF FactsTold

\* A task owes one message.
LEMMA OwedOne ==
  ASSUME TypeOK, NEW h \in Tasks, NEW x, Owe(h, <<x>>), NowOwed(h, x)
  PROVE  \A g \in Tasks : todo'[g] = todo[g] \/ todo'[g] = << >> \/ OwedOnce(g)'
<1>1. todo'[h] = <<x>> /\ \A g \in Tasks \ {h} : todo'[g] = todo[g]
  BY DEF Owe, TypeOK
<1>2. DOMAIN todo'[h] = {1} /\ todo'[h][1] = x
  BY <1>1
<1>3. OwedOnce(h)'
  BY <1>2, OwedAfterwards
<1> QED
  BY <1>1, <1>3

LEMMA FactsCreate ==
  ASSUME IInv, Consistent, FactsTold, [Next]_vars, announced' = announced,
         NEW t \in Tickets, NEW u \in Users, CreateTicketPhase1(t, u)
  PROVE  FactsTold'
<1>1. PICK x : Owe("message", <<x>>) /\ x.type = "create_forum_topic"
  BY DEF CreateTicketPhase1, Msg
<1>2. NowOwed("message", x)
  BY <1>1 DEF NowOwed, AboutCard, Facts
<1>3. bus' = bus /\ reading' = reading /\ posts' = posts
  BY DEF CreateTicketPhase1, telegram
<1>4. CardsAnnounced'
  BY <1>3, CardsStay
<1>5. TypeOK /\ "message" \in Tasks
  BY DEF IInv, RowInv, Tasks
<1>6. \A g \in Tasks : todo'[g] = todo[g] \/ todo'[g] = << >> \/ OwedOnce(g)'
  BY <1>1, <1>2, <1>5, OwedOne
<1> QED
  BY <1>4, <1>6, FactsQuiet

\* The header's attachment announces: it happens once, so the fact is new.
LEMMA HeaderNew ==
  ASSUME IInv, Consistent, FactsTold, announced' = announced,
         NEW m \in bus, HandleHeaderMessageSent(m), db[m.ticket].topic # 0
  PROVE  \E x : Owe("message_sent", <<x>>) /\ NowOwed("message_sent", x)
<1>1. /\ TypeOK /\ m.ticket \in Tickets /\ Reached(m.ticket) /\ Sound(m)
      /\ m.type = "message_sent" /\ ~Seen(m) /\ m.corr = db[m.ticket].corr
  BY EntrySound DEF HandleHeaderMessageSent, Receive
<1>2. EventId(m) = <<"message_sent", m.ticket, 1>>
  BY <1>1 DEF Sound, EventId
<1>3. clock[m.ticket]["ticket_created"] = 0
  BY <1>1, <1>2 DEF Reached, Seen
<1>4. PICK x : x = Msg("ticket_created", m.ticket, 0, 0, "none")
  OBVIOUS
<1>5. x.type = "ticket_created" /\ x.ticket = m.ticket
  BY <1>4, MsgIs
<1>6. Owe("message_sent", <<x>>) /\ Tick(m.ticket, {"ticket_created"})
  BY <1>4 DEF HandleHeaderMessageSent
<1>7. clock'[m.ticket]["ticket_created"] # 0
  BY <1>1, <1>3, <1>6 DEF Tick, TypeOK, Sources, Facts
<1>8. Fact(x) \notin announced'
  <2>1. x.type \in Facts
    BY <1>5 DEF Facts
  <2>2. Fact(x) = [kind |-> "created", ticket |-> m.ticket]
    BY <1>5, <2>1, FactIs
  <2>3. ~Announced(m.ticket, "created")
    BY <1>1, <1>3 DEF FactsTold, Backed
  <2> QED
    BY <2>2, <2>3 DEF Announced
<1> QED
  BY <1>5, <1>6, <1>7, <1>8 DEF NowOwed, Facts

LEMMA HandledFacts ==
  ASSUME IInv, Consistent, FactsTold, announced' = announced, NEW m \in bus, CoreTakes(m)
  PROVE  \A g \in Tasks : todo'[g] = todo[g] \/ todo'[g] = << >> \/ OwedOnce(g)'
<1> DEFINE Goal == \A g \in Tasks : todo'[g] = todo[g] \/ todo'[g] = << >> \/ OwedOnce(g)'
<1>1. TypeOK /\ {"topic_created", "message_sent", "ticket_created", "ticket_assigned"} \subseteq Tasks
  BY DEF IInv, RowInv, Tasks
<1>2. ASSUME NEW h \in Tasks, NEW x, Owe(h, <<x>>),
             x.type \in {"send_message", "edit_message_text"},
             x.type = "send_message" /\ x.view = "offer" => m.type = "ticket_created" /\ x.ticket = m.ticket
      PROVE  Goal
  <2>1. AboutCard(x) => Announced(x.ticket, "created")
    BY <1>2 DEF AboutCard, FactsTold, CardsAnnounced
  <2>2. NowOwed(h, x)
    BY <1>2, <2>1 DEF NowOwed, Facts, Announced
  <2> QED
    BY <1>1, <1>2, <2>2, OwedOne
<1>3. ASSUME HandleTopicCreated(m)
      PROVE  Goal
  <2>1. PICK x : Owe("topic_created", <<x>>) /\ x.type = "send_message" /\ x.view = "new"
    BY <1>3 DEF HandleTopicCreated, Header, Msg
  <2> QED
    BY <1>1, <1>2, <2>1
<1>4. ASSUME HandleHeaderMessageSent(m)
      PROVE  Goal
  BY <1>1, <1>4, HeaderNew, OwedOne DEF HandleHeaderMessageSent
<1>5. ASSUME PublishIncomingCard(m)
      PROVE  Goal
  <2>1. CASE TeamGroupConfigured /\ db[m.ticket].topic # 0
    <3>1. PICK x : x = Msg("send_message", m.ticket, Fresh(m.ticket, "corr"), 0, "offer")
      OBVIOUS
    <3>2. x.type = "send_message" /\ x.ticket = m.ticket
      BY <3>1, MsgIs
    <3>3. Owe("ticket_created", <<x>>) /\ m.type = "ticket_created"
      BY <1>5, <2>1, <3>1 DEF PublishIncomingCard, Receive
    <3> QED
      BY <1>1, <1>2, <3>2, <3>3
  <2>2. CASE ~(TeamGroupConfigured /\ db[m.ticket].topic # 0)
    BY <1>5, <2>2 DEF PublishIncomingCard
  <2> QED
    BY <2>1, <2>2
<1>6. ASSUME UpdateIncomingAfterAssign(m)
      PROVE  Goal
  <2>1. \/ todo' = todo
        \/ \E x : Owe("ticket_assigned", <<x>>) /\ x.type = "edit_message_text"
    BY <1>6 DEF UpdateIncomingAfterAssign, Msg
  <2> QED
    BY <1>1, <1>2, <2>1
<1>7. AttachIncomingMessageId(m) \/ CallbackRead(m) \/ (\E h \in Tasks : AlreadyProcessed(h, m))
        => todo' = todo
  BY DEF AttachIncomingMessageId, CallbackRead, AlreadyProcessed
<1> HIDE DEF Goal
<1>8. todo' = todo => Goal
  BY DEF Goal
<1>9. Goal
  BY <1>3, <1>4, <1>5, <1>6, <1>7, <1>8 DEF CoreTakes
<1> QED
  BY <1>9 DEF Goal

LEMMA FactsHandled ==
  ASSUME IInv, Consistent, FactsTold, [Next]_vars, announced' = announced,
         NEW m \in bus, CoreTakes(m)
  PROVE  FactsTold'
<1>1. posts' = posts
  BY HandledInside DEF Inside
<1>2. bus' \subseteq bus
  BY DEF CoreTakes, HandleTopicCreated, HandleHeaderMessageSent, AttachIncomingMessageId,
     PublishIncomingCard, UpdateIncomingAfterAssign, CallbackRead, AlreadyProcessed, Receive
<1>3. \A r \in reading' : r \in reading \/ r.msg = m
  BY DEF CoreTakes, HandleTopicCreated, HandleHeaderMessageSent, AttachIncomingMessageId,
     PublishIncomingCard, UpdateIncomingAfterAssign, CallbackRead, AlreadyProcessed
<1>4. \A r \in reading' : AboutCard(r.msg) => Announced(r.msg.ticket, "created")
  BY <1>3 DEF FactsTold, CardsAnnounced
<1>5. CardsAnnounced'
  BY <1>1, <1>2, <1>4 DEF FactsTold, CardsAnnounced, Announced, AboutCard
<1> QED
  BY <1>5, HandledFacts, FactsQuiet

\* A decision owes at most one fact, message n of what it owes.
LEMMA CommitFacts ==
  ASSUME IInv, Consistent, FactsTold, [Next]_vars, announced' = announced,
         NEW r \in reading, NEW msgs, CallbackCommit(r, msgs), NEW n,
         \A i \in DOMAIN msgs : i # n => msgs[i].type \notin Facts /\ ~AboutCard(msgs[i]),
         n \in DOMAIN msgs => NowOwed("callback", msgs[n])
  PROVE  FactsTold'
<1>1. /\ bus' = bus /\ posts' = posts /\ todo'["callback"] = msgs
      /\ \A h \in Tasks \ {"callback"} : todo'[h] = todo[h]
  BY CommitWay
<1>2. reading' \subseteq reading
  BY DEF CallbackCommit
<1>3. CardsAnnounced'
  BY <1>1, <1>2, CardsStay
<1>4. \A i \in DOMAIN msgs : NowOwed("callback", msgs[i])
  BY DEF NowOwed, Facts
<1>5. \A i, j \in DOMAIN msgs : SameFact(msgs[i], msgs[j]) => i = j
  BY DEF SameFact
<1>6. OwedOnce("callback")'
  BY <1>1, <1>4, <1>5, OwedAfterwards
<1> QED
  BY <1>1, <1>3, <1>6, FactsQuiet

LEMMA FactsAssign ==
  ASSUME IInv, Consistent, FactsTold, [Next]_vars, announced' = announced,
         NEW r \in reading, AssignTicket(r)
  PROVE  FactsTold'
<1> DEFINE t == r.msg.ticket
<1>1. PICK msgs :
        /\ CallbackCommit(r, msgs)
        /\ DOMAIN msgs = 1..3
        /\ msgs[1] = Msg("edit_forum_topic", t, 0, r.row.topic, "in_progress")
        /\ msgs[2] = Msg("edit_message_text", t, 0, r.row.header, "in_progress")
        /\ msgs[3] = Msg("ticket_assigned", t, 0, 0, "none")
  BY AssignWay
<1>2. /\ msgs[1].type = "edit_forum_topic" /\ msgs[2].type = "edit_message_text"
      /\ msgs[3].type = "ticket_assigned" /\ msgs[3].ticket = t
  BY <1>1, MsgIs
<1>3. /\ t \in Tickets /\ db[t].status = "new" /\ r.msg.data = "assign" /\ r.msg.type = "callback"
  <2>1. /\ t \in Tickets /\ db[t].status = r.row.status /\ TypeOK
    BY SnapshotFacts DEF IInv, RowInv
  <2>2. r.msg.type = "callback"
    BY <2>1 DEF TypeOK, Press
  <2> QED
    BY <2>1, <2>2 DEF AssignTicket, CanAssign
<1>4. db'[t].status = "in_progress"
  BY <1>3, DecidedRow DEF Decide
<1>5. Announced(t, "created") /\ ~Announced(t, "assigned")
  BY <1>3 DEF FactsTold, CardsAnnounced, AboutCard, Backed
<1>6. Fact(msgs[3]) \notin announced'
  <2>1. Fact(msgs[3]) = [kind |-> "assigned", ticket |-> t]
    BY <1>2, FactIs DEF Facts
  <2> QED
    BY <1>5, <2>1 DEF Announced
<1> HIDE DEF t
<1>7. NowOwed("callback", msgs[3])
  BY <1>2, <1>4, <1>5, <1>6 DEF NowOwed, Announced, AboutCard
<1>8. \A i \in DOMAIN msgs : i # 3 => msgs[i].type \notin Facts /\ ~AboutCard(msgs[i])
  BY <1>1, <1>2 DEF Facts, AboutCard
<1> QED
  BY <1>1, <1>7, <1>8, CommitFacts

LEMMA FactsClose ==
  ASSUME IInv, Consistent, FactsTold, [Next]_vars, announced' = announced,
         NEW r \in reading, CommitClose(r)
  PROVE  FactsTold'
<1> DEFINE t == r.msg.ticket
<1>1. PICK msgs : msgs = ClosingMessages(t, r.row) /\ CallbackCommit(r, msgs)
  BY DEF CommitClose
<1>2. /\ DOMAIN msgs = 1..5
      /\ msgs[1].type = "edit_forum_topic"
      /\ msgs[2].type = "send_message" /\ msgs[2].view = "thanks"
      /\ msgs[3].type = "edit_message_text"
      /\ msgs[4].type = "close_forum_topic"
      /\ msgs[5].type = "ticket_closed" /\ msgs[5].ticket = t
  BY <1>1, ClosingAre, MsgIs
<1>3. t \in Tickets /\ db[t].status # "closed"
  BY SnapshotFacts DEF IInv, CommitClose, CanClose
<1>4. db'[t].status = "closed"
  BY <1>3, DecidedRow DEF Decide
<1>5. ~Announced(t, "closed")
  BY <1>3 DEF FactsTold, Backed
<1>6. Fact(msgs[5]) \notin announced'
  <2>1. Fact(msgs[5]) = [kind |-> "closed", ticket |-> t]
    BY <1>2, FactIs DEF Facts
  <2> QED
    BY <1>5, <2>1 DEF Announced
<1> HIDE DEF t
<1>7. NowOwed("callback", msgs[5])
  BY <1>2, <1>4, <1>6 DEF NowOwed, AboutCard
<1>8. \A i \in DOMAIN msgs : i # 5 => msgs[i].type \notin Facts /\ ~AboutCard(msgs[i])
  BY <1>2 DEF Facts, AboutCard
<1> QED
  BY <1>1, <1>7, <1>8, CommitFacts

LEMMA FactsDecide ==
  ASSUME IInv, Consistent, FactsTold, [Next]_vars, announced' = announced,
         NEW r \in reading, Decide(r)
  PROVE  FactsTold'
<1>1. ASSUME Refused(r)
      PROVE  FactsTold'
  <2>1. CallbackCommit(r, << >>) /\ DOMAIN << >> = {}
    BY <1>1 DEF Refused
  <2> QED
    BY <2>1, CommitFacts
<1>2. ASSUME ConfirmOrCancel(r)
      PROVE  FactsTold'
  <2>1. PICK x : CallbackCommit(r, <<x>>) /\ x.type = "edit_message_text"
    BY <1>2 DEF ConfirmOrCancel, Msg
  <2>2. \A i \in DOMAIN <<x>> : <<x>>[i] = x
    OBVIOUS
  <2>3. x.type \notin Facts /\ ~AboutCard(x) /\ 2 \notin DOMAIN <<x>>
    BY <2>1 DEF Facts, AboutCard
  <2> QED
    BY <2>1, <2>2, <2>3, CommitFacts
<1> QED
  BY <1>1, <1>2, FactsAssign, FactsClose DEF Decide

\* Telegram: what is posted as a card was sent as one.
LEMMA FactsCarried ==
  ASSUME IInv, Consistent, FactsTold, [Next]_vars, announced' = announced,
         NEW m \in bus, Carries(m)
  PROVE  FactsTold'
<1>1. todo' = todo /\ reading' = reading
  BY DEF Carries, CreateForumTopic, SendMessage, EditMessageText, EditForumTopic,
     CloseForumTopic, core
<1>2. \A x \in bus' : x \in bus \/ x.type \in Acks
  <2>1. CreateForumTopic(m) => \A x \in bus' : x \in bus \/ x.type \in Acks
    BY DEF CreateForumTopic, Executed, Acks, Msg
  <2>2. SendMessage(m) => \A x \in bus' : x \in bus \/ x.type \in Acks
    BY DEF SendMessage, Executed, Acks, Msg
  <2>3. EditMessageText(m) \/ EditForumTopic(m) \/ CloseForumTopic(m) => bus' \subseteq bus
    BY DEF EditMessageText, EditForumTopic, CloseForumTopic, Executed
  <2> QED
    BY <2>1, <2>2, <2>3 DEF Carries
<1>3. \A p \in posts' : p.view = "offer" => p \in posts \/ Announced(p.ticket, "created")
  <2>1. ASSUME SendMessage(m), NEW p \in posts', p.view = "offer"
        PROVE  p \in posts \/ Announced(p.ticket, "created")
    <3>1. PICK id : posts' = posts \cup {[ticket |-> m.ticket, id |-> id, view |-> m.view]}
      BY <2>1 DEF SendMessage
    <3>2. m.view = "offer" => Announced(m.ticket, "created")
      BY <2>1 DEF FactsTold, CardsAnnounced, AboutCard, SendMessage
    <3> QED
      BY <2>1, <3>1, <3>2
  <2>2. ASSUME EditMessageText(m), NEW p \in posts', p.view = "offer"
        PROVE  p \in posts
    <3>1. m.view # "offer"
      BY <2>2 DEF EditMessageText, IInv, RowInv, AllGrounded, Grounded
    <3>2. PICK q \in posts :
            p = IF q.ticket = m.ticket /\ q.id = m.id THEN [q EXCEPT !.view = m.view] ELSE q
      BY <2>2 DEF EditMessageText
    <3>3. q \in [ticket : Tickets, id : Nat, view : Views]
      BY DEF IInv, RowInv, TypeOK
    <3> QED
      BY <2>2, <3>1, <3>2, <3>3
  <2>3. CreateForumTopic(m) \/ EditForumTopic(m) \/ CloseForumTopic(m) => posts' = posts
    BY DEF CreateForumTopic, EditForumTopic, CloseForumTopic
  <2> QED
    BY <2>1, <2>2, <2>3 DEF Carries
<1>4. CardsAnnounced'
  <2>1. \A x : x.type \in Acks => ~AboutCard(x)
    BY DEF Acks, AboutCard
  <2> QED
    BY <1>1, <1>2, <1>3, <2>1, CardsStay
<1> QED
  BY <1>1, <1>4, FactsQuiet

\* A press takes a ticket only from a card.
LEMMA FactsPress ==
  ASSUME IInv, Consistent, FactsTold, [Next]_vars, announced' = announced,
         NEW p \in posts, NEW b, NEW user, NEW target, PressButton(p, b, user, target)
  PROVE  FactsTold'
<1>1. PICK n : n = Fresh(p.ticket, "callback")
  OBVIOUS
<1>2. PICK x : x = [type |-> "callback", ticket |-> p.ticket, n |-> n,
                    user |-> user, data |-> b, target |-> target]
  OBVIOUS
<1>3. bus' = bus \cup {x} /\ reading' = reading /\ todo' = todo /\ posts' = posts
  BY <1>1, <1>2 DEF PressButton, core, telegram
<1>4. b = "assign" => p.view = "offer"
  BY DEF PressButton, Offered
<1>5. AboutCard(x) => Announced(x.ticket, "created")
  BY <1>2, <1>4 DEF AboutCard, FactsTold, CardsAnnounced
<1>6. CardsAnnounced'
  BY <1>3, <1>5, CardsStay DEF FactsTold, CardsAnnounced, Announced
<1> QED
  BY <1>3, <1>6, FactsQuiet

LEMMA FactsLess ==
  ASSUME IInv, Consistent, FactsTold, [Next]_vars, announced' = announced,
         Crash \/ UNCHANGED vars \/ \E m \in bus : TelegramRefuses(m)
  PROVE  FactsTold'
<1>1. /\ bus' \subseteq bus /\ reading' \subseteq reading /\ posts' = posts
      /\ \A h \in Tasks : todo'[h] = todo[h] \/ todo'[h] = << >>
  BY DEF Crash, TelegramRefuses, vars, core, telegram
<1> QED
  BY <1>1, CardsStay, FactsQuiet

\* core never announces, owes or offers what the other parts do not allow.
LEMMA FactsStep ==
  ASSUME IInv, Consistent, FactsTold, [Next]_vars, announced' = announced \cup Published
  PROVE  FactsTold'
<1>1. CASE \E h \in Tasks : Publish(h)
  BY <1>1, FactsPublish
<1>2. CASE \A h \in Tasks : ~Publish(h)
  <2>1. announced' = announced
    BY <1>2, NothingPublished
  <2> QED
    BY <1>2, <2>1, FactsCreate, FactsHandled, FactsDecide, FactsCarried, FactsPress, FactsLess
       DEF Next
<1> QED
  BY <1>1, <1>2

-----------------------------------------------------------------------------
(* The refinement: what core publishes, SheetsSync expects.                *)

SP == INSTANCE SheetsSyncProofs WITH published <- announced, processed <- synced, left <- budget

LEMMA FactsInit == MirrorInit => FactsTold
<1> SUFFICES ASSUME MirrorInit PROVE FactsTold
  OBVIOUS
<1>1. announced = {} /\ bus = {} /\ reading = {} /\ posts = {} /\ \A h \in Tasks : DOMAIN todo[h] = {}
  BY DEF MirrorInit, Init, Sheets!Init
<1> QED
  BY <1>1 DEF FactsTold, Backed, Announced, OwedOnce, CardsAnnounced

\* The steps of core, gateway-tg and Telegram announce a fact in order or none.
LEMMA AnnounceStep ==
  ASSUME IInv, Consistent, FactsTold, [Next]_vars,
         announced' = announced \cup Published, streams' = streams \cup Published,
         UNCHANGED sync
  PROVE  [Sheets!Next]_(Sheets!vars)
<1>1. TypeOK
  BY DEF IInv, RowInv
<1>2. CASE Published = {}
  <2>1. announced' = announced /\ streams' = streams
    BY <1>2
  <2> QED
    BY <2>1 DEF Sheets!vars, sync
<1>3. ASSUME Published # {}
      PROVE  \E f \in Sheets!Facts : Sheets!Announce(f)
  <2>1. PICK h \in Tasks : Publish(h)
    BY <1>3, NothingPublished
  <2>2. PICK o : o = Head(todo[h])
    OBVIOUS
  <2>3. o.type \in Facts /\ Published = {Fact(o)}
    BY <1>1, <1>3, <2>1, <2>2, PublishedIs
  <2>4. OwedBy(h, o) /\ o.ticket \in Tickets
    <3>1. todo[h] \in Seq(Message) /\ todo[h] # << >>
      BY <1>1, <2>1 DEF TypeOK, Publish
    <3>2. 1 \in DOMAIN todo[h] /\ o = todo[h][1]
      BY <2>2, <3>1, HeadTailProperties
    <3>3. o \in bus \cup Owed
      BY <3>2, OwedIs
    <3> QED
      BY <1>1, <3>2, <3>3, WayType DEF FactsTold, OwedOnce
  <2>5. PICK f : f = Fact(o)
    OBVIOUS
  <2>6. f \in [kind : {"created", "assigned", "closed"}, ticket : Tickets] /\ f.ticket = o.ticket
    BY <2>3, <2>4, <2>5 DEF Fact, Facts
  <2>7. f.kind = "assigned" => o.type = "ticket_assigned"
    BY <2>3, <2>5 DEF Fact, Facts
  <2>8. f \notin announced
    BY <2>3, <2>4, <2>5 DEF OwedBy
  <2>9. ASSUME f.kind = "assigned"
        PROVE  /\ [f EXCEPT !.kind = "created"] \in announced
               /\ [f EXCEPT !.kind = "closed"] \notin announced
    <3>1. /\ [f EXCEPT !.kind = "created"] = [kind |-> "created", ticket |-> o.ticket]
          /\ [f EXCEPT !.kind = "closed"] = [kind |-> "closed", ticket |-> o.ticket]
      BY <2>6
    <3>2. Announced(o.ticket, "created") /\ ~Announced(o.ticket, "closed")
      BY <2>4, <2>7, <2>9 DEF OwedBy, FactsTold, Backed
    <3> QED
      BY <3>1, <3>2 DEF Announced
  <2>10. announced' = announced \cup {f} /\ streams' = streams \cup {f}
    BY <2>3, <2>5
  <2>11. Sheets!Announce(f)
    BY <2>8, <2>9, <2>10 DEF Sheets!Announce, Sheets!worksheet, sync
  <2> QED
    BY <2>6, <2>11 DEF Sheets!Facts, Sheets!Kinds
<1> QED
  BY <1>2, <1>3 DEF Sheets!Next

LEMMA MirrorSteps ==
  ASSUME IInv, Consistent, FactsTold, [MirrorNext]_all
  PROVE  [Next]_vars /\ FactsTold' /\ [Sheets!Next]_(Sheets!vars)
<1>1. ASSUME LifecycleStep
      PROVE  [Next]_vars /\ FactsTold' /\ [Sheets!Next]_(Sheets!vars)
  BY <1>1, FactsStep, AnnounceStep DEF LifecycleStep
<1>2. ASSUME MirrorStep
      PROVE  [Next]_vars /\ FactsTold' /\ [Sheets!Next]_(Sheets!vars)
  BY <1>2, FactsLess DEF MirrorStep
<1>3. ASSUME UNCHANGED all
      PROVE  [Next]_vars /\ FactsTold' /\ [Sheets!Next]_(Sheets!vars)
  <2>1. UNCHANGED vars /\ UNCHANGED Sheets!vars /\ announced' = announced
    BY <1>3 DEF all, mirror, sync, Sheets!vars
  <2> QED
    BY <2>1, FactsLess
<1> QED
  BY <1>1, <1>2, <1>3 DEF MirrorNext

\* core, the executor and Telegram do among the three services what they do
\* alone, so that every theorem of TicketLifecycle holds there.
THEOREM MirrorKeepsLifecycle == MirrorSpec => Spec
<1>1. MirrorInit => Init
  BY DEF MirrorInit
<1>2. [MirrorNext]_all => [Next]_vars
  BY DEF MirrorNext, LifecycleStep, MirrorStep, all
<1> QED
  BY <1>1, <1>2, PTL DEF MirrorSpec, Spec

THEOREM FactsToldCorrect == MirrorSpec => []FactsTold
<1>1. IInv /\ Consistent /\ FactsTold /\ [MirrorNext]_all => FactsTold'
  BY MirrorSteps
<1> QED
  BY <1>1, FactsInit, MirrorKeepsLifecycle, Inductive, FaithfulCorrect, PTL DEF MirrorSpec

\* What SheetsSync assumes of core is what core does: each fact is published
\* once, a taking only after the ticket's announcement and before its closing.
THEOREM FactsInOrderCorrect == MirrorSpec => FactsInOrder
<1>1. MirrorInit => Sheets!Init
  BY DEF MirrorInit
<1>2. IInv /\ Consistent /\ FactsTold /\ [MirrorNext]_all => [Sheets!Next]_(Sheets!vars)
  BY MirrorSteps
<1>3. MirrorSpec => Sheets!Init /\ [][Sheets!Next]_(Sheets!vars)
  BY <1>1, <1>2, FactsToldCorrect, MirrorKeepsLifecycle, Inductive, FaithfulCorrect, PTL DEF MirrorSpec
<1> QED
  BY <1>3 DEF FactsInOrder, Sheets!Spec

-----------------------------------------------------------------------------
(* What is proved of SheetsSync.                                           *)

\* The theorems about SheetsSync are about the same formulas.
LEMMA SameFormulas ==
  /\ Sheets!Init => SP!Init
  /\ [Sheets!Next]_(Sheets!vars) => [SP!Next]_(SP!vars)
  /\ SP!TypeOK => Sheets!TypeOK
  /\ SP!OwnRowIfExact => Sheets!OwnRowIfExact
  /\ SP!RowsPerTicket => Sheets!RowsPerTicket
<1>1. Sheets!Init => SP!Init
  BY DEF Sheets!Init, SP!Init, Sheets!NothingKnown, SP!NothingKnown
<1>2. [Sheets!Next]_(Sheets!vars) => [SP!Next]_(SP!vars)
  BY DEF Sheets!Next, SP!Next, Sheets!vars, SP!vars, Sheets!worksheet, SP!worksheet,
     Sheets!Progress, SP!Progress, Sheets!Announce, SP!Announce,
     Sheets!Enqueue, SP!Enqueue, Sheets!Skip, SP!Skip, Sheets!Plan, SP!Plan,
     Sheets!Lands, SP!Lands, Sheets!Fill, SP!Fill, Sheets!Write, SP!Write,
     Sheets!Commit, SP!Commit, Sheets!GiveUp, SP!GiveUp, Sheets!Refused, SP!Refused,
     Sheets!Fault, SP!Fault, Sheets!WorkerFailure, SP!WorkerFailure,
     Sheets!Unanswered, SP!Unanswered, Sheets!Restart, SP!Restart,
     Sheets!Facts, SP!Facts, Sheets!Kinds, SP!Kinds,
     Sheets!NothingKnown, SP!NothingKnown, Sheets!Seen, SP!Seen,
     Sheets!RowMissing, SP!RowMissing, Sheets!NextItem, SP!NextItem,
     Sheets!Learnt, SP!Learnt, Sheets!RowFor, SP!RowFor,
     Sheets!ExistingRow, SP!ExistingRow, Sheets!AppendedAt, SP!AppendedAt
<1>3. SP!TypeOK => Sheets!TypeOK
  BY DEF Sheets!TypeOK, SP!TypeOK, Sheets!Facts, SP!Facts, Sheets!Kinds, SP!Kinds,
     Sheets!Remembered, SP!Remembered, Sheets!Rows, SP!Rows
<1>4. SP!OwnRowIfExact => Sheets!OwnRowIfExact
  BY DEF Sheets!OwnRowIfExact, SP!OwnRowIfExact, Sheets!Exact, SP!Exact,
     Sheets!OwnRow, SP!OwnRow
<1>5. SP!RowsPerTicket => Sheets!RowsPerTicket
  <2>1. \A S : Sheets!Cardinality(S) = SP!Cardinality(S)
    BY DEF Sheets!Cardinality, SP!Cardinality
  <2> QED
    BY <2>1 DEF Sheets!RowsPerTicket, SP!RowsPerTicket, Sheets!RowsOf, SP!RowsOf,
       Sheets!Exact, SP!Exact
<1> QED
  BY <1>1, <1>2, <1>3, <1>4, <1>5

-----------------------------------------------------------------------------
(* The worksheet and the database.                                         *)

\* The row an item leads to is of its ticket and has the status of its kind.
LEMMA RowShows ==
  ASSUME NEW f \in Sheets!Facts
  PROVE  Sheets!RowFor(f).ticket = f.ticket /\ Sheets!RowFor(f).status = Shows[f.kind]
<1>1. f.kind \in {"created", "assigned", "closed"}
  BY DEF Sheets!Facts, Sheets!Kinds
<1>2. /\ f.kind = "created" => Shows[f.kind] = "new"
      /\ f.kind = "assigned" => Shows[f.kind] = "in_progress"
      /\ f.kind = "closed" => Shows[f.kind] = "closed"
  BY DEF Shows
<1>3. PICK known : known = Sheets!Learnt(f)
  OBVIOUS
<1> QED
  BY <1>1, <1>2, <1>3 DEF Sheets!RowFor

LEMMA OnlyAnnouncedStep ==
  ASSUME Sheets!TypeOK, OnlyAnnounced, [MirrorNext]_all
  PROVE  OnlyAnnounced'
<1>1. queue \in Seq(Sheets!Facts)
  BY DEF Sheets!TypeOK
<1>2. ASSUME announced \subseteq announced', streams' \subseteq announced',
             queue' = queue \/ queue' = << >>, working' = working \/ working' = {}
      PROVE  OnlyAnnounced'
  BY <1>2 DEF OnlyAnnounced
<1>3. LifecycleStep => OnlyAnnounced'
  <2>1. LifecycleStep => /\ announced \subseteq announced' /\ streams' \subseteq announced'
                         /\ queue' = queue /\ working' = working
    BY DEF LifecycleStep, sync, OnlyAnnounced
  <2> QED
    BY <1>2, <2>1
<1>4. UNCHANGED all => OnlyAnnounced'
  BY <1>2 DEF all, mirror, sync, OnlyAnnounced
<1>5. ASSUME MirrorStep
      PROVE  OnlyAnnounced'
  <2>1. announced' = announced /\ Sheets!Next /\ streams \subseteq announced
    BY <1>5 DEF MirrorStep, OnlyAnnounced
  <2>2. ASSUME NEW f, Sheets!Announce(f)
        PROVE  FALSE
    BY <2>1, <2>2 DEF Sheets!Announce
  <2>3. ASSUME NEW f \in Sheets!Facts, Sheets!Enqueue(f)
        PROVE  OnlyAnnounced'
    <3>1. f \in announced /\ streams' \subseteq streams /\ queue' = Append(queue, f) /\ working' = working
      BY <2>1, <2>3 DEF Sheets!Enqueue
    <3>2. \A i \in DOMAIN queue' : queue'[i] = f \/ (i \in DOMAIN queue /\ queue'[i] = queue[i])
      BY <1>1, <3>1
    <3>3. \A i \in DOMAIN queue' : queue'[i] \in announced
      BY <3>1, <3>2 DEF OnlyAnnounced
    <3> QED
      BY <2>1, <3>1, <3>3 DEF OnlyAnnounced
  <2>4. ASSUME NEW f \in Sheets!Facts, Sheets!NextItem(f)
        PROVE  f \in announced /\ \A i \in DOMAIN queue' : queue'[i] \in announced
    <3>1. queue # << >> /\ f = Head(queue) /\ queue' = Tail(queue)
      BY <2>4 DEF Sheets!NextItem
    <3>2. f = queue[1] /\ 1 \in DOMAIN queue
      BY <1>1, <3>1
    <3>3. \A i \in DOMAIN queue' : i + 1 \in DOMAIN queue /\ queue'[i] = queue[i + 1]
      BY <1>1, <3>1, HeadTailProperties
    <3> QED
      BY <3>2, <3>3 DEF OnlyAnnounced
  <2>5. ASSUME NEW f \in Sheets!Facts, Sheets!Skip(f)
        PROVE  OnlyAnnounced'
    BY <2>1, <2>4, <2>5 DEF Sheets!Skip, OnlyAnnounced
  <2>6. ASSUME NEW f \in Sheets!Facts, Sheets!Plan(f)
        PROVE  OnlyAnnounced'
    <3>1. f \in announced /\ (\A i \in DOMAIN queue' : queue'[i] \in announced) /\ streams' = streams
      BY <2>4, <2>6 DEF Sheets!Plan
    <3>2. PICK row : row = Sheets!RowFor(f)
      OBVIOUS
    <3>3. \A w \in working' : w.fact = f /\ w.row = row
      BY <2>6, <3>2 DEF Sheets!Plan
    <3> QED
      BY <2>1, <3>1, <3>2, <3>3, RowShows DEF OnlyAnnounced
  <2>7. ASSUME NEW w \in working, Sheets!Write(w)
        PROVE  OnlyAnnounced'
    <3>1. w \in [fact : Sheets!Facts, row : Sheets!Rows, at : Nat, written : BOOLEAN]
      BY DEF Sheets!TypeOK
    <3>2. \A v \in working' : v.fact = w.fact /\ v.row = w.row
      BY <2>7, <3>1 DEF Sheets!Write
    <3>3. streams' = streams /\ queue' = queue
      BY <2>7 DEF Sheets!Write
    <3> QED
      BY <2>1, <3>2, <3>3 DEF OnlyAnnounced
  <2>8. ASSUME \/ \E w \in working : \/ Sheets!Commit(w) \/ Sheets!Refused(w)
                                     \/ Sheets!WorkerFailure(w) \/ Sheets!Unanswered(w)
               \/ Sheets!Restart
        PROVE  OnlyAnnounced'
    BY <1>2, <2>1, <2>8 DEF Sheets!Commit, Sheets!Refused, Sheets!WorkerFailure,
       Sheets!Unanswered, Sheets!GiveUp, Sheets!Restart
  <2> QED
    BY <2>1, <2>2, <2>3, <2>5, <2>6, <2>7, <2>8 DEF Sheets!Next, Sheets!Progress
<1> QED
  BY <1>3, <1>4, <1>5 DEF MirrorNext

\* What has been announced, the row of the ticket says or has gone beyond.
LEMMA AnnouncedStage ==
  ASSUME IInv, Consistent, FactsTold, NEW f \in announced, f \in Sheets!Facts
  PROVE  Stage(Shows[f.kind]) <= Stage(db[f.ticket].status)
<1>1. /\ f.ticket \in Tickets /\ f.kind \in {"created", "assigned", "closed"}
      /\ f = [kind |-> f.kind, ticket |-> f.ticket]
  BY DEF Sheets!Facts, Sheets!Kinds
<1>2. Backed(f.ticket) /\ Reached(f.ticket) /\ Attached(f.ticket) /\ Announced(f.ticket, f.kind)
  BY <1>1 DEF FactsTold, IInv, Once, Consistent, Announced
<1>3. db[f.ticket] \in Row /\ InOrder
  BY <1>1 DEF IInv, RowInv, TypeOK
<1>4. f.kind = "created" => db[f.ticket].status # "none"
  <2>1. f.kind = "created" => db[f.ticket].header # 0
    BY <1>2 DEF Backed, Reached, Attached
  <2> QED
    BY <1>1, <1>3, <2>1 DEF InOrder, NoRow
<1>5. /\ f.kind = "assigned" => db[f.ticket].status \in {"in_progress", "closed"}
      /\ f.kind = "closed" => db[f.ticket].status = "closed"
  BY <1>2 DEF Backed
<1>6. db[f.ticket].status \in {"none", "new", "in_progress", "closed"}
  BY <1>3 DEF Row
<1> QED
  BY <1>1, <1>4, <1>5, <1>6 DEF Stage, Shows

LEMMA StageLater ==
  ASSUME IInv, Consistent, [Next]_vars, NEW t \in Tickets
  PROVE  Stage(db[t].status) <= Stage(db'[t].status)
<1>1. TypeOK /\ TypeOK'
  BY TypeStep DEF IInv, RowInv
<1>2. /\ db[t].status \in {"none", "new", "in_progress", "closed"}
      /\ db'[t].status \in {"none", "new", "in_progress", "closed"}
  BY <1>1 DEF TypeOK, Row
<1> QED
  BY <1>2, StatusLater DEF Stage

LEMMA NotAheadStep ==
  ASSUME IInv, Consistent, FactsTold, Sheets!TypeOK, OnlyAnnounced, MirrorNotAhead,
         [MirrorNext]_all
  PROVE  MirrorNotAhead'
<1>1. ASSUME sheet' = sheet, [Next]_vars
      PROVE  MirrorNotAhead'
  <2> SUFFICES ASSUME NEW n \in DOMAIN sheet
               PROVE  Stage(sheet[n].status) <= Stage(db'[sheet[n].ticket].status)
    BY <1>1 DEF MirrorNotAhead, Stage
  <2>1. sheet[n] \in Sheets!Rows
    BY DEF Sheets!TypeOK
  <2>2. sheet[n].ticket \in Tickets /\ sheet[n].status \in {"new", "in_progress", "closed"}
    BY <2>1 DEF Sheets!Rows
  <2>3. Stage(db[sheet[n].ticket].status) <= Stage(db'[sheet[n].ticket].status)
    BY <1>1, <2>2, StageLater
  <2>4. Stage(sheet[n].status) <= Stage(db[sheet[n].ticket].status)
    BY DEF MirrorNotAhead
  <2>5. TypeOK /\ TypeOK'
    BY <1>1, TypeStep DEF IInv, RowInv
  <2>6. /\ Stage(sheet[n].status) \in Nat /\ Stage(db[sheet[n].ticket].status) \in Nat
        /\ Stage(db'[sheet[n].ticket].status) \in Nat
    BY <2>2, <2>5 DEF Stage, TypeOK, Row
  <2> QED
    BY <2>3, <2>4, <2>6
<1>2. ASSUME NEW w \in working, NEW k, Sheets!Fill(w, k), db' = db
      PROVE  MirrorNotAhead'
  <2>1. w.fact \in announced /\ w.fact \in Sheets!Facts
    BY DEF OnlyAnnounced, Sheets!TypeOK
  <2>2. Stage(w.row.status) <= Stage(db[w.row.ticket].status)
    BY <2>1, AnnouncedStage DEF OnlyAnnounced
  <2>3. \A n \in DOMAIN sheet' : sheet'[n] = w.row \/ (n \in DOMAIN sheet /\ sheet'[n] = sheet[n])
    BY <1>2 DEF Sheets!Fill
  <2>4. \A n \in DOMAIN sheet' : Stage(sheet'[n].status) <= Stage(db[sheet'[n].ticket].status)
    BY <2>2, <2>3 DEF MirrorNotAhead
  <2> QED
    BY <1>2, <2>4 DEF MirrorNotAhead, Stage
<1>3. [Next]_vars
  BY MirrorSteps
<1>4. \/ sheet' = sheet
      \/ db' = db /\ \E w \in working : \E k \in 1..(grid + 1) : Sheets!Fill(w, k)
  BY DEF MirrorNext, LifecycleStep, MirrorStep, all, mirror, sync, vars, Sheets!Next,
     Sheets!Progress, Sheets!worksheet, Sheets!Announce, Sheets!Enqueue, Sheets!Skip,
     Sheets!Plan, Sheets!Write, Sheets!Commit, Sheets!Refused, Sheets!WorkerFailure,
     Sheets!Unanswered, Sheets!Restart
<1> QED
  BY <1>1, <1>2, <1>3, <1>4

\* Whatever core does in between, what is proved of sheets-sync holds: its columns
\* are of the types its schema has, a ticket has no more rows than faults and wrong
\* numbers account for, and while row_count is exact its number is that of its own.
THEOREM MirroredRows ==
  MirrorSpec => [](Sheets!TypeOK /\ Sheets!OwnRowIfExact /\ Sheets!RowsPerTicket)
<1>1. MaxSpare \in Nat /\ MaxQueue \in Nat /\ MaxRedelivery \in Nat /\ MaxFault \in Nat
  BY BoundsAssumption, MirrorAssumption
<1>2. MirrorSpec => Sheets!Init /\ [][Sheets!Next]_(Sheets!vars)
  BY FactsInOrderCorrect DEF FactsInOrder, Sheets!Spec
<1>3. MirrorSpec => SP!Init /\ [][SP!Next]_(SP!vars)
  BY <1>2, SameFormulas, PTL
<1>4. SP!Init /\ [][SP!Next]_(SP!vars) =>
        []SP!TypeOK /\ []SP!OwnRowIfExact /\ []SP!RowsPerTicket
  BY <1>1, SP!TypeCorrect, SP!OwnRowIfExactCorrect, SP!RowsPerTicketCorrect DEF SP!Spec
<1> QED
  BY <1>3, <1>4, SameFormulas, PTL

LEMMA MirrorInvInit == MirrorInit => OnlyAnnounced /\ MirrorNotAhead
<1> SUFFICES ASSUME MirrorInit PROVE OnlyAnnounced /\ MirrorNotAhead
  OBVIOUS
<1>1. streams = {} /\ DOMAIN queue = {} /\ working = {} /\ DOMAIN sheet = {}
  BY DEF MirrorInit, Sheets!Init
<1> QED
  BY <1>1 DEF OnlyAnnounced, MirrorNotAhead

\* The inductive invariant of core, gateway-tg and sheets-sync together.
THEOREM MirrorInductive == MirrorSpec => []MirrorInv
<1>1. /\ IInv /\ Consistent /\ FactsTold /\ Sheets!TypeOK
      /\ OnlyAnnounced /\ MirrorNotAhead /\ [MirrorNext]_all
      => OnlyAnnounced' /\ MirrorNotAhead'
  BY OnlyAnnouncedStep, NotAheadStep
<1>2. IInv /\ Consistent /\ Faithful /\ Sheets!TypeOK /\ FactsTold /\ OnlyAnnounced /\ MirrorNotAhead
        => MirrorInv
  BY DEF MirrorInv, LifecycleInv
<1> QED
  BY <1>1, <1>2, MirrorInvInit, MirroredRows, FactsToldCorrect, MirrorKeepsLifecycle,
     Inductive, FaithfulCorrect, PTL DEF MirrorSpec

\* The worksheet never tells more than the database: no row shows a ticket as
\* taken or closed before assign_ticket or close_ticket has committed it.
THEOREM MirrorNotAheadCorrect == MirrorSpec => []MirrorNotAhead
<1>1. MirrorInv => MirrorNotAhead
  BY DEF MirrorInv
<1> QED
  BY <1>1, MirrorInductive, PTL

=============================================================================
