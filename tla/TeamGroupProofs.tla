--------------------------- MODULE TeamGroupProofs ---------------------------
(***************************************************************************)
(* Theorems about TeamGroup, for any people, names, groups and faults.     *)
(***************************************************************************)
EXTENDS TeamGroup, StreamLemmas

Given == [what : Kinds \cup {"tick"}, chat : Chats \cup {NoChat},
          user : People \cup {Nobody}, name : Names \cup {NoName}, fit : BOOLEAN]
Executor == [known : BOOLEAN, id : People \cup {Nobody}, active : BOOLEAN]
Rows == [asked : Nat, topic : [Roles -> Nat], finished : BOOLEAN]
Environment == [chat : Chats \cup {NoChat}, topic : TopicMap]
Bound == [trouble : Nat, restart : Nat]
Owed == BotCommands("create") \cup BotCommands("send")

\* What the streams carry, one kind of entry in each.
Carried(s) == IF s \in Tasks THEN Entries[s] ELSE BotCommands(s)

-----------------------------------------------------------------------------
(* Types.                                                                  *)

LEMMA EntriesAre ==
  /\ Entries["message"] = [n : Nat, user : People, name : Names \cup {NoName}, chat : Chats, what : Kinds]
  /\ Entries["topic_created"] = [n : Nat, what : Roles, topic : Nat]
  /\ Entries["tick"] = [n : Nat, what : {"tick"}]
  /\ \A h \in Tasks : \A m \in Entries[h] : m.n \in Nat /\ m.what \in Kinds \cup Roles \cup {"tick"}
<1>1. /\ Entries["message"] = [n : Nat, user : People, name : Names \cup {NoName}, chat : Chats, what : Kinds]
      /\ Entries["topic_created"] = [n : Nat, what : Roles, topic : Nat]
      /\ Entries["tick"] = [n : Nat, what : {"tick"}]
  BY DEF Entries
<1>2. /\ \A m \in Entries["message"] : m.n \in Nat /\ m.what \in Kinds
      /\ \A m \in Entries["topic_created"] : m.n \in Nat /\ m.what \in Roles
      /\ \A m \in Entries["tick"] : m.n \in Nat /\ m.what = "tick"
  BY <1>1
<1> QED
  BY <1>1, <1>2 DEF Tasks

LEMMA NoTopicsType == NoTopics \in TopicMap
BY DEF NoTopics, TopicMap

LEMMA BusType ==
  ASSUME TypeOK, NEW s \in Tasks \cup CommandStreams
  PROVE  bus[s] \in Seq(Carried(s))
<1>1. Tasks \cap CommandStreams = {}
  BY DEF Tasks, CommandStreams
<1> QED
  BY <1>1 DEF TypeOK, Carried

\* The conjuncts of TypeOK about the bus.
BusOK ==
  /\ DOMAIN bus = Tasks \cup CommandStreams
  /\ \A h \in Tasks : bus[h] \in Seq(Entries[h])
  /\ \A s \in CommandStreams : bus[s] \in Seq(BotCommands(s))

LEMMA BusSplit ==
  ASSUME DOMAIN bus' = Tasks \cup CommandStreams,
         \A s \in Tasks \cup CommandStreams : bus'[s] \in Seq(Carried(s))
  PROVE  BusOK'
<1>1. Tasks \cap CommandStreams = {}
  BY DEF Tasks, CommandStreams
<1> QED
  BY <1>1 DEF BusOK, Carried

LEMMA BusTake ==
  ASSUME TypeOK, NEW s \in Tasks \cup CommandStreams, bus[s] # << >>,
         bus' = [bus EXCEPT ![s] = Tail(@)]
  PROVE  BusOK'
<1>1. bus[s] \in Seq(Carried(s)) /\ Tail(bus[s]) \in Seq(Carried(s))
  BY BusType, TailHolds
<1>2. DOMAIN bus = Tasks \cup CommandStreams
  BY DEF TypeOK
<1>3. \A x \in Tasks \cup CommandStreams : bus'[x] \in Seq(Carried(x))
  BY <1>1, <1>2, BusType
<1>4. DOMAIN bus' = Tasks \cup CommandStreams
  BY <1>2
<1> QED
  BY <1>3, <1>4, BusSplit

LEMMA BusPut ==
  ASSUME TypeOK, NEW s \in Tasks \cup CommandStreams, NEW e \in Carried(s),
         bus' = [bus EXCEPT ![s] = Append(@, e)]
  PROVE  BusOK'
<1>1. Append(bus[s], e) \in Seq(Carried(s))
  BY BusType, AppendHolds
<1>2. DOMAIN bus = Tasks \cup CommandStreams
  BY DEF TypeOK
<1>3. \A x \in Tasks \cup CommandStreams : bus'[x] \in Seq(Carried(x))
  BY <1>1, <1>2, BusType
<1>4. DOMAIN bus' = Tasks \cup CommandStreams
  BY <1>2
<1> QED
  BY <1>3, <1>4, BusSplit

LEMMA SyncedType ==
  ASSUME NEW rows \in [Names -> Executor]
  PROVE  /\ Synced(rows) \in [Names -> Executor]
         /\ \A n \in Names : Synced(rows)[n].id = rows[n].id
BY DEF Synced, Executor

LEMMA TypeInit == Init => TypeOK
<1> SUFFICES ASSUME Init
             PROVE  TypeOK
  OBVIOUS
<1>1. exec \in [Names -> Executor]
  <2>1. [n \in Names |-> [known |-> FALSE, id |-> Nobody, active |-> FALSE]] \in [Names -> Executor]
    BY DEF Executor
  <2> QED
    BY <2>1, SyncedType DEF Init
<1>2. /\ DOMAIN bus = Tasks \cup CommandStreams
      /\ \A h \in Tasks : bus[h] \in Seq(Entries[h])
      /\ \A s \in CommandStreams : bus[s] \in Seq(BotCommands(s))
  BY DEF Init
<1>3. env \in Environment
  BY NoTopicsType DEF Init, Environment
<1>4. setup \in [Chats -> Rows]
  BY DEF Init, Rows
<1>5. left \in Bound
  BY BoundsAssumption DEF Init, Bound
<1>6. /\ todo \in [Tasks -> Seq(Owed)] /\ processed = {} /\ hurt = {}
      /\ given \in Seq(Given)
      /\ topics \in [Chats -> Seq(Roles)]
      /\ posts \in Seq(BotCommands("send"))
  BY DEF Init
<1>7. file \subseteq Names /\ holder \in [Names -> People \cup {Nobody}]
  BY NamesAssumption DEF Init
<1> QED
  BY <1>1, <1>2, <1>3, <1>4, <1>5, <1>6, <1>7
    DEF TypeOK, Bound, Given, Executor, Rows, Environment, Owed

LEMMA TroubleType ==
  ASSUME TypeOK, Trouble
  PROVE  left' \in Bound
<1>1. left \in Bound
  BY DEF TypeOK, Bound
<1> QED
  BY <1>1 DEF Trouble, Bound

LEMMA ReceiveType ==
  ASSUME TypeOK, NEW h \in Tasks, NEW m, Receive(h, m)
  PROVE  /\ BusOK' /\ left' \in Bound
         /\ m \in Entries[h] /\ m \in Range(bus[h])
         /\ m.n \in Nat /\ m.what \in Kinds \cup Roles \cup {"tick"}
<1>1. bus[h] # << >> /\ bus[h] \in Seq(Entries[h]) /\ m = Head(bus[h])
  BY DEF Receive, TypeOK
<1>2. m \in Entries[h] /\ m \in Range(bus[h])
  <2>1. /\ Head(bus[h]) \in Entries[h] /\ Head(bus[h]) \in Range(bus[h])
        /\ Tail(bus[h]) \in Seq(Entries[h])
    BY <1>1, TailHolds
  <2> QED
    BY <1>1, <2>1
<1>3. BusOK' /\ left' \in Bound
  <2>1. CASE bus' = [bus EXCEPT ![h] = Tail(@)] /\ UNCHANGED left
    BY <1>1, <2>1, BusTake DEF TypeOK, Bound
  <2>2. CASE Trouble /\ bus' = [bus EXCEPT ![h] = Append(Tail(@), m)]
    <3>1. Append(Tail(bus[h]), m) \in Seq(Entries[h])
      <4>1. Append(Tail(bus[h]), Head(bus[h])) \in Seq(Entries[h])
        BY <1>1, AgainHolds
      <4> QED
        BY <1>1, <4>1
    <3>2. DOMAIN bus = Tasks \cup CommandStreams
      BY DEF TypeOK
    <3>3. Carried(h) = Entries[h]
      BY DEF Carried
    <3>4. \A x \in Tasks \cup CommandStreams : bus'[x] \in Seq(Carried(x))
      BY <2>2, <3>1, <3>2, <3>3, BusType
    <3>5. DOMAIN bus' = Tasks \cup CommandStreams
      BY <2>2, <3>2
    <3> QED
      BY <2>2, <3>4, <3>5, BusSplit, TroubleType
  <2> QED
    BY <2>1, <2>2 DEF Receive
<1> QED
  BY <1>2, <1>3, EntriesAre

\* A handler that marks its event or not, owes commands or not.
LEMMA TypeHandled ==
  ASSUME TypeOK, NEW h \in Tasks, NEW m, Receive(h, m),
         exec' \in [Names -> Executor], setup' \in [Chats -> Rows],
         NEW msgs \in Seq(Owed), Commit(h, m, msgs) \/ UNCHANGED <<processed, todo>>
  PROVE  TypeOK'
<1>1. /\ BusOK' /\ left' \in Bound
      /\ m.n \in Nat /\ m.what \in Kinds \cup Roles \cup {"tick"}
  BY ReceiveType
<1>2. processed' \subseteq Tasks \X Nat \X (Kinds \cup Roles \cup {"tick"})
  <2>1. processed \subseteq Tasks \X Nat \X (Kinds \cup Roles \cup {"tick"})
    BY DEF TypeOK
  <2>2. EventId(h, m) \in Tasks \X Nat \X (Kinds \cup Roles \cup {"tick"})
    BY <1>1 DEF EventId
  <2> QED
    BY <2>1, <2>2 DEF Commit
<1>3. todo' \in [Tasks -> Seq(Owed)]
  BY DEF Commit, TypeOK, Owed
<1> QED
  BY <1>1, <1>2, <1>3 DEF Receive, people, telegram, TypeOK, BusOK, Bound, Executor, Rows, Owed

LEMMA CommandType ==
  ASSUME NEW c \in Chats, NEW n \in Nat
  PROVE  /\ \A r \in Roles : Create(c, r, n) \in BotCommands("create")
         /\ \A w \in {"answer", "block", "digest"}, t \in TopicMap : Send(c, w, n, t) \in BotCommands("send")
BY NoTopicsType DEF Create, Send, BotCommands

LEMMA OneOwed ==
  ASSUME NEW c \in Chats, NEW n \in Nat, NEW w \in {"answer", "block", "digest"}, NEW t \in TopicMap
  PROVE  <<Send(c, w, n, t)>> \in Seq(Owed)
<1>1. Send(c, w, n, t) \in Owed
  BY CommandType DEF Owed
<1> QED
  BY <1>1

LEMMA CreatesType ==
  ASSUME NEW c \in Chats, NEW n \in Nat
  PROVE  [i \in 1..4 |-> Create(c, TopicOrder[i], n)] \in Seq(Owed)
<1>1. \A i \in 1..4 : TopicOrder[i] \in Roles
  BY DEF TopicOrder, Roles
<1>2. \A i \in 1..4 : Create(c, TopicOrder[i], n) \in Owed
  BY <1>1, CommandType DEF Owed
<1> HIDE DEF Create
<1> QED
  BY <1>2

\* What a handler leaves alone is of its type.
LEMMA TablesType ==
  ASSUME TypeOK
  PROVE  /\ exec \in [Names -> Executor]
         /\ setup \in [Chats -> Rows]
         /\ env \in Environment
         /\ todo \in [Tasks -> Seq(Owed)]
         /\ << >> \in Seq(Owed)
BY DEF TypeOK, Executor, Rows, Environment, Owed

LEMMA TypeMessage ==
  ASSUME TypeOK, NEW m, HandleMessage(m)
  PROVE  TypeOK'
<1>1. /\ Receive("message", m) /\ "message" \in Tasks
  BY DEF HandleMessage, ResolveExecutor, Silent, SetupRefused, SetupTeamGroup, Reply, Accepted, Tasks
<1>2. /\ m \in Entries["message"]
      /\ m.n \in Nat /\ m.user \in People /\ m.chat \in Chats /\ m.name \in Names \cup {NoName}
  <2>1. m \in Entries["message"]
    BY <1>1, ReceiveType
  <2> QED
    BY <2>1, EntriesAre
<1>3. <<Answer(m)>> \in Seq(Owed)
  BY <1>2, OneOwed, NoTopicsType DEF Answer
<1>4. CASE ResolveExecutor(m)
  <2>1. exec' \in [Names -> Executor]
    <3>1. \A n \in Names : [exec[n] EXCEPT !.id = m.user] \in Executor
      BY <1>2, TablesType DEF Executor
    <3>2. m.name \in Names =>
            [exec EXCEPT ![m.name].id = m.user] \in [Names -> Executor]
      BY <3>1, TablesType
    <3>3. m.name \in Names
      BY <1>2, <1>4 DEF ResolveExecutor, InTeamGroup
    <3> QED
      BY <1>4, <3>2, <3>3, TablesType DEF ResolveExecutor
  <2> QED
    BY <1>1, <1>4, <2>1, TablesType, TypeHandled DEF ResolveExecutor
<1>5. CASE Silent(m)
  BY <1>1, <1>5, TablesType, TypeHandled DEF Silent
<1>6. CASE SetupRefused(m)
  BY <1>1, <1>3, <1>6, TablesType, TypeHandled DEF SetupRefused
<1>7. CASE SetupTeamGroup(m)
  <2>1. setup' \in [Chats -> Rows]
    <3>1. [setup[m.chat] EXCEPT !.asked = m.n] \in Rows
      BY <1>2, TablesType DEF Rows
    <3> QED
      BY <1>2, <1>7, <3>1, TablesType DEF SetupTeamGroup
  <2>2. [i \in 1..4 |-> Create(m.chat, TopicOrder[i], m.n)] \in Seq(Owed)
    BY <1>2, CreatesType
  <2> QED
    BY <1>1, <1>7, <2>1, <2>2, TablesType, TypeHandled DEF SetupTeamGroup
<1>8. CASE Reply(m)
  <2>1. exec' \in [Names -> Executor]
    BY <1>8, TablesType, SyncedType DEF Reply
  <2> QED
    BY <1>1, <1>3, <1>8, <2>1, TablesType, TypeHandled DEF Reply
<1> QED
  BY <1>4, <1>5, <1>6, <1>7, <1>8 DEF HandleMessage

LEMMA TypeAttach ==
  ASSUME TypeOK, NEW m, AttachTeamTopic(m)
  PROVE  TypeOK'
<1> PICK c \in RowsOf(m) :
      LET rows == [setup[c] EXCEPT !.topic[m.what] = m.topic]
          complete == Complete(setup[c], rows) IN
      /\ Receive("topic_created", m)
      /\ setup' = [setup EXCEPT ![c] = [rows EXCEPT !.finished = @ \/ complete]]
      /\ Commit("topic_created", m,
           IF complete THEN <<Send(c, "block", m.n, [r \in EnvRoles |-> rows.topic[r]])>> ELSE << >>)
      /\ UNCHANGED exec
  BY DEF AttachTeamTopic
<1> DEFINE rows == [setup[c] EXCEPT !.topic[m.what] = m.topic]
           complete == Complete(setup[c], rows)
           msgs == IF complete THEN <<Send(c, "block", m.n, [r \in EnvRoles |-> rows.topic[r]])>> ELSE << >>
<1>1. "topic_created" \in Tasks /\ c \in Chats
  BY DEF Tasks, RowsOf
<1>2. m.n \in Nat /\ m.what \in Roles /\ m.topic \in Nat
  <2>1. m \in Entries["topic_created"]
    BY <1>1, ReceiveType
  <2> QED
    BY <2>1, EntriesAre
<1>3. rows \in Rows
  <2>1. setup[c] \in Rows
    BY <1>1, TablesType
  <2>2. [setup[c].topic EXCEPT ![m.what] = m.topic] \in [Roles -> Nat]
    BY <1>2, <2>1 DEF Rows
  <2> QED
    BY <2>1, <2>2 DEF Rows
<1>4. complete \in BOOLEAN
  BY DEF Complete
<1>5. setup' \in [Chats -> Rows]
  <2>1. [rows EXCEPT !.finished = @ \/ complete] \in Rows
    <3> HIDE DEF rows, complete
    <3> QED
      BY <1>3, <1>4 DEF Rows
  <2> QED
    BY <1>1, <2>1, TablesType
<1>6. msgs \in Seq(Owed)
  <2>1. [r \in EnvRoles |-> rows.topic[r]] \in TopicMap
    <3> HIDE DEF rows
    <3> QED
      BY <1>3 DEF Rows, TopicMap, EnvRoles
  <2>2. <<Send(c, "block", m.n, [r \in EnvRoles |-> rows.topic[r]])>> \in Seq(Owed)
    <3> HIDE DEF rows
    <3> QED
      BY <1>1, <1>2, <2>1, OneOwed
  <2> HIDE DEF rows, complete
  <2> QED
    BY <2>2, TablesType
<1>7. Receive("topic_created", m) /\ Commit("topic_created", m, msgs) /\ UNCHANGED exec
  OBVIOUS
<1> HIDE DEF rows, complete, msgs
<1> QED
  BY <1>1, <1>5, <1>6, <1>7, TablesType, TypeHandled

LEMMA TypeDigest ==
  ASSUME TypeOK, NEW m, BuildDailyDigest(m)
  PROVE  TypeOK'
<1>1. Receive("tick", m) /\ "tick" \in Tasks
  BY DEF BuildDailyDigest, Tasks
<1>2. m.n \in Nat
  BY <1>1, ReceiveType
<1>3. Configured => <<Send(env.chat, "digest", m.n, env.topic)>> \in Seq(Owed)
  <2>1. Configured => env.chat \in Chats
    BY TablesType DEF Configured, Environment
  <2>2. env.topic \in TopicMap
    BY TablesType DEF Environment
  <2> QED
    BY <1>2, <2>1, <2>2, OneOwed
<1>4. PICK msgs \in Seq(Owed) : Commit("tick", m, msgs)
  BY <1>3, TablesType DEF BuildDailyDigest
<1> QED
  BY <1>1, <1>4, TablesType, TypeHandled DEF BuildDailyDigest

LEMMA TypeHandle ==
  ASSUME TypeOK, NEW h \in Tasks, Handle(h)
  PROVE  TypeOK'
<1> SUFFICES ASSUME NEW m, m = Head(bus[h])
             PROVE  TypeOK'
  OBVIOUS
<1>1. CASE SeenBefore(h, m)
  BY <1>1, TablesType, TypeHandled DEF SeenBefore
<1>2. CASE HandleMessage(m)
  BY <1>2, TypeMessage
<1>3. CASE AttachTeamTopic(m)
  BY <1>3, TypeAttach
<1>4. CASE BuildDailyDigest(m)
  BY <1>4, TypeDigest
<1>5. CASE h = "message"
  BY <1>2, <1>5 DEF Handle
<1>6. CASE h = "topic_created"
  BY <1>1, <1>3, <1>6 DEF Handle
<1>7. CASE h = "tick"
  BY <1>1, <1>4, <1>7 DEF Handle
<1> QED
  BY <1>5, <1>6, <1>7 DEF Tasks

\* What may be owed, by stream.
LEMMA OwedType ==
  /\ \A s \in CommandStreams : BotCommands(s) \subseteq Owed
  /\ \A c \in Owed : /\ c.stream \in CommandStreams /\ c \in BotCommands(c.stream)
                     /\ c.chat \in Chats /\ c.about \in Nat
BY DEF Owed, BotCommands, CommandStreams

LEMMA TypePublish ==
  ASSUME TypeOK, NEW h \in Tasks, Publish(h)
  PROVE  TypeOK'
<1> SUFFICES ASSUME NEW c, c = Head(todo[h])
             PROVE  TypeOK'
  OBVIOUS
<1>1. todo[h] \in Seq(Owed) /\ todo[h] # << >>
  BY TablesType DEF Publish
<1>2. c \in Owed /\ Tail(todo[h]) \in Seq(Owed)
  <2>1. Head(todo[h]) \in Owed /\ Tail(todo[h]) \in Seq(Owed)
    BY <1>1, TailHolds
  <2> QED
    BY <2>1
<1>3. c.stream \in CommandStreams /\ c \in BotCommands(c.stream)
  BY <1>2, OwedType
<1>4. c \in Carried(c.stream)
  BY <1>3 DEF Carried, Tasks, CommandStreams
<1>5. BusOK'
  <2>1. bus' = [bus EXCEPT ![c.stream] = Append(@, c)]
    BY DEF Publish
  <2> QED
    BY <1>3, <1>4, <2>1, BusPut
<1>6. todo' \in [Tasks -> Seq(Owed)]
  BY <1>2, TablesType DEF Publish
<1> QED
  BY <1>5, <1>6 DEF Publish, people, tables, telegram, TypeOK, BusOK, Owed

LEMMA TypeRestart ==
  ASSUME TypeOK, Restart
  PROVE  TypeOK'
<1>1. left' \in Bound
  <2>1. left \in Bound
    BY DEF TypeOK, Bound
  <2> QED
    BY <2>1 DEF Restart, Bound
<1>2. env' \in Environment
  <2>1. \A i \in DOMAIN posts : posts[i] \in BotCommands("send")
    BY DEF TypeOK
  <2>2. \A c \in BotCommands("send") : c.chat \in Chats /\ c.topic \in TopicMap
    BY DEF BotCommands
  <2>3. \A i \in DOMAIN posts : [chat |-> posts[i].chat, topic |-> posts[i].topic] \in Environment
    BY <2>1, <2>2 DEF Environment
  <2> QED
    BY <2>3, TablesType DEF Restart
<1>3. exec' \in [Names -> Executor]
  BY TablesType, SyncedType DEF Restart
<1>4. hurt' \subseteq Nat
  <2>1. \A h \in Tasks : \A i \in DOMAIN todo[h] : todo[h][i] \in Owed
    BY TablesType
  <2>2. \A h \in Tasks : \A i \in DOMAIN todo[h] : todo[h][i].about \in Nat
    BY <2>1, OwedType
  <2> QED
    BY <2>2 DEF Restart, TypeOK
<1>5. todo' \in [Tasks -> Seq(Owed)]
  BY TablesType DEF Restart
<1> QED
  BY <1>1, <1>2, <1>3, <1>4, <1>5
    DEF Restart, people, telegram, TypeOK, Bound, Environment, Executor, Owed

\* The oldest command of a stream.
LEMMA OldestType ==
  ASSUME TypeOK, NEW s \in CommandStreams, bus[s] # << >>
  PROVE  /\ Head(bus[s]) \in BotCommands(s)
         /\ Head(bus[s]).chat \in Chats
         /\ Head(bus[s]).about \in Nat
         /\ Head(bus[s]) \in Range(bus[s])
<1>1. bus[s] \in Seq(BotCommands(s))
  BY DEF TypeOK
<1>2. Head(bus[s]) \in BotCommands(s) /\ Head(bus[s]) \in Range(bus[s])
  BY <1>1, TailHolds
<1> QED
  BY <1>2 DEF BotCommands

LEMMA FaultType ==
  ASSUME TypeOK, NEW n \in Nat, Fault(n)
  PROVE  left' \in Bound /\ hurt' \subseteq Nat
<1>1. hurt \subseteq Nat
  BY DEF TypeOK
<1> QED
  BY <1>1, TroubleType DEF Fault

LEMMA TypeTopic ==
  ASSUME TypeOK, CreateForumTopic
  PROVE  TypeOK'
<1> SUFFICES ASSUME NEW c, c = Head(bus["create"])
             PROVE  TypeOK'
  OBVIOUS
<1> DEFINE rest == [bus EXCEPT !["create"] = Tail(@)]
           ack == [n |-> c.about, what |-> c.what, topic |-> Len(topics[c.chat]) + 1]
<1>1. "create" \in CommandStreams /\ bus["create"] # << >>
  BY DEF CreateForumTopic, CommandStreams
<1>2. c \in BotCommands("create") /\ c.chat \in Chats /\ c.about \in Nat
  BY <1>1, OldestType
<1>3. c.what \in Roles
  BY <1>2 DEF BotCommands
<1>4. topics[c.chat] \in Seq(Roles)
  BY <1>2 DEF TypeOK
<1>5. topics' \in [Chats -> Seq(Roles)]
  <2>1. Append(topics[c.chat], c.what) \in Seq(Roles)
    BY <1>3, <1>4, AppendHolds
  <2> QED
    BY <1>2, <2>1 DEF CreateForumTopic, TypeOK
<1>6. ack \in Entries["topic_created"]
  <2>1. Len(topics[c.chat]) + 1 \in Nat
    BY <1>4
  <2> QED
    BY <1>2, <1>3, <2>1, EntriesAre
<1>7. BusOK'
  <2>1. CASE bus' = rest
    BY <1>1, <2>1, BusTake
  <2>2. CASE bus' = [rest EXCEPT !["topic_created"] = Append(@, ack)]
    <3>1. /\ bus["create"] \in Seq(BotCommands("create"))
          /\ bus["topic_created"] \in Seq(Entries["topic_created"])
          /\ DOMAIN bus = Tasks \cup CommandStreams
      BY <1>1 DEF TypeOK, Tasks
    <3>2. Tail(bus["create"]) \in Seq(BotCommands("create"))
      BY <1>1, <3>1, TailHolds
    <3>3. Append(bus["topic_created"], ack) \in Seq(Entries["topic_created"])
      <4> HIDE DEF ack
      <4> QED
        BY <1>6, <3>1, AppendHolds
    <3>4. /\ DOMAIN bus' = Tasks \cup CommandStreams
          /\ bus'["create"] = Tail(bus["create"])
          /\ bus'["topic_created"] = Append(bus["topic_created"], ack)
          /\ \A s \in Tasks \cup CommandStreams : s \notin {"create", "topic_created"} => bus'[s] = bus[s]
      <4> HIDE DEF ack
      <4> QED
        BY <2>2, <3>1 DEF Tasks, CommandStreams
    <3> HIDE DEF ack
    <3>5. \A s \in Tasks : bus'[s] \in Seq(Entries[s])
      BY <3>3, <3>4 DEF TypeOK, Tasks
    <3>6. \A s \in CommandStreams : bus'[s] \in Seq(BotCommands(s))
      BY <3>2, <3>4 DEF TypeOK, CommandStreams
    <3> QED
      BY <3>4, <3>5, <3>6 DEF BusOK
  <2> QED
    BY <2>1, <2>2 DEF CreateForumTopic
<1>8. left' \in Bound /\ hurt' \subseteq Nat
  BY <1>2, FaultType DEF CreateForumTopic, TypeOK, Bound
<1> QED
  BY <1>5, <1>7, <1>8 DEF CreateForumTopic, people, tables, TypeOK, BusOK, Bound

LEMMA TypeSend ==
  ASSUME TypeOK, SendMessage
  PROVE  TypeOK'
<1> SUFFICES ASSUME NEW c, c = Head(bus["send"])
             PROVE  TypeOK'
  OBVIOUS
<1>1. "send" \in CommandStreams /\ bus["send"] # << >>
  BY DEF SendMessage, CommandStreams
<1>2. c \in BotCommands("send")
  BY <1>1, OldestType
<1>3. BusOK'
  BY <1>1, BusTake DEF SendMessage
<1>4. posts' \in Seq(BotCommands("send"))
  <2>1. posts \in Seq(BotCommands("send"))
    BY DEF TypeOK
  <2>2. Append(posts, c) \in Seq(BotCommands("send"))
    BY <1>2, <2>1, AppendHolds
  <2> QED
    BY <2>2 DEF SendMessage
<1> QED
  BY <1>3, <1>4 DEF SendMessage, people, tables, TypeOK, BusOK

LEMMA TypeRefuses ==
  ASSUME TypeOK, NEW s \in CommandStreams, TelegramRefuses(s)
  PROVE  TypeOK'
<1>1. BusOK'
  BY BusTake DEF TelegramRefuses
<1>2. left' \in Bound /\ hurt' \subseteq Nat
  BY OldestType, FaultType DEF TelegramRefuses
<1> QED
  BY <1>1, <1>2 DEF TelegramRefuses, people, tables, telegram, TypeOK, BusOK, Bound

\* One more message or tick, and its event.
LEMMA TypeDeed ==
  ASSUME TypeOK, NEW h \in Tasks, NEW e \in Entries[h], NEW d \in Given,
         given' = Append(given, d),
         bus' = [bus EXCEPT ![h] = Append(@, e)],
         UNCHANGED <<file, holder, tables, todo, telegram, left, hurt>>
  PROVE  TypeOK'
<1>1. given \in Seq(Given)
  BY DEF TypeOK, Given
<1>2. given' \in Seq(Given)
  BY <1>1, AppendHolds
<1>3. e \in Carried(h)
  BY DEF Carried
<1>4. BusOK'
  BY <1>3, BusPut
<1> QED
  BY <1>2, <1>4 DEF tables, telegram, TypeOK, BusOK, Given

LEMMA TypeWrite ==
  ASSUME TypeOK, NEW p \in People, NEW c \in Chats, NEW what \in Kinds, Write(p, c, what)
  PROVE  TypeOK'
<1>1. PICK name \in IF NameOf(p) = {} THEN {NoName} ELSE NameOf(p) :
        /\ given' = Append(given, [what |-> what, chat |-> c, user |-> p, name |-> name,
                                   fit |-> Recognised(p)])
        /\ bus' = [bus EXCEPT !["message"] = Append(@,
                    [n |-> Len(given) + 1, user |-> p, name |-> name, chat |-> c, what |-> what])]
        /\ UNCHANGED <<file, holder, tables, todo, telegram, left, hurt>>
  BY DEF Write
<1>2. name \in Names \cup {NoName} /\ Recognised(p) \in BOOLEAN
  BY <1>1 DEF NameOf, Recognised
<1>3. Len(given) + 1 \in Nat
  BY DEF TypeOK
<1>4. [n |-> Len(given) + 1, user |-> p, name |-> name, chat |-> c, what |-> what] \in Entries["message"]
  BY <1>2, <1>3, EntriesAre
<1>5. [what |-> what, chat |-> c, user |-> p, name |-> name, fit |-> Recognised(p)] \in Given
  BY <1>2 DEF Given
<1>6. "message" \in Tasks
  BY DEF Tasks
<1> QED
  BY <1>1, <1>4, <1>5, <1>6, TypeDeed

LEMMA TypeTick ==
  ASSUME TypeOK, Tick
  PROVE  TypeOK'
<1>1. [n |-> Len(given) + 1, what |-> "tick"] \in Entries["tick"]
  <2>1. Len(given) + 1 \in Nat
    BY DEF TypeOK
  <2> QED
    BY <2>1, EntriesAre
<1>2. [what |-> "tick", chat |-> env.chat, user |-> Nobody, name |-> NoName,
       fit |-> env.chat # NoChat] \in Given
  BY TablesType DEF Given, Environment
<1>3. "tick" \in Tasks
  BY DEF Tasks
<1> QED
  BY <1>1, <1>2, <1>3, TypeDeed DEF Tick

LEMMA TypeByHand ==
  ASSUME TypeOK, NEW n \in Names, EditFile(n) \/ ResolveByHand(n)
  PROVE  TypeOK'
<1>1. CASE EditFile(n)
  BY <1>1, TroubleType DEF EditFile, tables, telegram, TypeOK, Bound
<1>2. CASE ResolveByHand(n)
  <2>1. holder[n] \in People \cup {Nobody}
    BY DEF TypeOK
  <2>2. [exec[n] EXCEPT !.id = holder[n]] \in Executor
    BY <2>1, TablesType DEF Executor
  <2>3. exec' \in [Names -> Executor]
    BY <1>2, <2>2, TablesType DEF ResolveByHand
  <2> QED
    BY <1>2, <2>3 DEF ResolveByHand, people, telegram, TypeOK, Executor
<1> QED
  BY <1>1, <1>2

LEMMA TypeRename ==
  ASSUME TypeOK, NEW n \in Names, NEW p \in People, Rename(p, n)
  PROVE  TypeOK'
<1>1. holder' \in [Names -> People \cup {Nobody}]
  BY DEF Rename, TypeOK
<1> QED
  BY <1>1, TroubleType DEF Rename, tables, telegram, TypeOK, Bound

LEMMA TypeStep == TypeOK /\ [Next]_vars => TypeOK'
<1> SUFFICES ASSUME TypeOK, [Next]_vars
             PROVE  TypeOK'
  OBVIOUS
<1>1. ASSUME NEW h \in Tasks, Handle(h) PROVE TypeOK'
  BY <1>1, TypeHandle
<1>2. ASSUME NEW h \in Tasks, Publish(h) PROVE TypeOK'
  BY <1>2, TypePublish
<1>3. CASE CreateForumTopic
  BY <1>3, TypeTopic
<1>4. CASE SendMessage
  BY <1>4, TypeSend
<1>5. CASE Restart
  BY <1>5, TypeRestart
<1>6. ASSUME NEW s \in CommandStreams, TelegramRefuses(s) PROVE TypeOK'
  BY <1>6, TypeRefuses
<1>7. ASSUME NEW p \in People, NEW c \in Chats, NEW what \in Kinds, Write(p, c, what)
      PROVE  TypeOK'
  BY <1>7, TypeWrite
<1>8. CASE Tick
  BY <1>8, TypeTick
<1>9. ASSUME NEW n \in Names, EditFile(n) \/ ResolveByHand(n) PROVE TypeOK'
  BY <1>9, TypeByHand
<1>10. ASSUME NEW p \in People, NEW n \in Names, Rename(p, n) PROVE TypeOK'
  BY <1>10, TypeRename
<1>11. CASE UNCHANGED vars
  BY <1>11 DEF vars, TypeOK, Executor
<1> QED
  BY <1>1, <1>2, <1>3, <1>4, <1>5, <1>6, <1>7, <1>8, <1>9, <1>10, <1>11 DEF Next, Progress

\* Every value the team group's tables, streams and messages can take is of its type.
THEOREM TypeCorrect == Spec => []TypeOK
<1> QED
  BY TypeInit, TypeStep, PTL DEF Spec

-----------------------------------------------------------------------------
(* Entries change places, and are never two of a kind.                     *)

\* What is left when the oldest entry of a channel is gone.
LEMMA OnceTake ==
  ASSUME NEW F, NEW G, NEW S, Once(F),
         DOMAIN G = DOMAIN F, \A k \in DOMAIN F : F[k] \in Seq(S),
         NEW a \in DOMAIN F, F[a] # << >>,
         \A k \in DOMAIN F : G[k] = IF k = a THEN Tail(F[a]) ELSE F[k]
  PROVE  Once(G)
<1>1. /\ DOMAIN Tail(F[a]) = 1..Len(F[a]) - 1 /\ DOMAIN F[a] = 1..Len(F[a]) /\ Len(F[a]) \in Nat
      /\ \A i \in 1..Len(F[a]) - 1 : Tail(F[a])[i] = F[a][i + 1]
  <2>1. F[a] \in Seq(S)
    OBVIOUS
  <2> QED
    BY <2>1, HeadTailProperties
<1>2. ASSUME NEW k \in DOMAIN G, NEW i \in DOMAIN G[k]
      PROVE  \E p \in DOMAIN F[k] : G[k][i] = F[k][p] /\ p = IF k = a THEN i + 1 ELSE i
  BY <1>1, <1>2
<1>3. ASSUME NEW k \in DOMAIN G, NEW l \in DOMAIN G, NEW i \in DOMAIN G[k], NEW j \in DOMAIN G[l],
             Twins(G[k][i], G[l][j])
      PROVE  k = l /\ i = j
  <2>1. PICK p \in DOMAIN F[k] : G[k][i] = F[k][p] /\ p = IF k = a THEN i + 1 ELSE i
    BY <1>2
  <2>2. PICK q \in DOMAIN F[l] : G[l][j] = F[l][q] /\ q = IF l = a THEN j + 1 ELSE j
    BY <1>2
  <2>3. k = l /\ p = q
    BY <1>3, <2>1, <2>2 DEF Once
  <2>4. k = a => i \in Nat /\ j \in Nat
    BY <1>1, <2>3
  <2> QED
    BY <2>1, <2>2, <2>3, <2>4
<1> QED
  BY <1>3 DEF Once

\* The oldest entry of one channel becomes the newest of another.
LEMMA OnceMove ==
  ASSUME NEW F, NEW G, NEW S, Once(F),
         DOMAIN G = DOMAIN F, \A k \in DOMAIN F : F[k] \in Seq(S),
         NEW a \in DOMAIN F, F[a] # << >>, NEW b \in DOMAIN F, a # b,
         \A k \in DOMAIN F : G[k] = IF k = a THEN Tail(F[a])
                                    ELSE IF k = b THEN Append(F[b], Head(F[a])) ELSE F[k]
  PROVE  Once(G)
<1>1. /\ DOMAIN Tail(F[a]) = 1..Len(F[a]) - 1 /\ DOMAIN F[a] = 1..Len(F[a]) /\ Len(F[a]) \in Nat
      /\ \A i \in 1..Len(F[a]) - 1 : Tail(F[a])[i] = F[a][i + 1]
      /\ Head(F[a]) = F[a][1] /\ 1 \in DOMAIN F[a] /\ Head(F[a]) \in S
  <2>1. F[a] \in Seq(S)
    OBVIOUS
  <2> QED
    BY <2>1, HeadTailProperties
<1>2. /\ DOMAIN Append(F[b], Head(F[a])) = 1..Len(F[b]) + 1
      /\ DOMAIN F[b] = 1..Len(F[b]) /\ Len(F[b]) \in Nat
      /\ \A i \in 1..Len(F[b]) : Append(F[b], Head(F[a]))[i] = F[b][i]
      /\ Append(F[b], Head(F[a]))[Len(F[b]) + 1] = Head(F[a])
  <2>1. F[b] \in Seq(S)
    OBVIOUS
  <2> QED
    BY <1>1, <2>1, AppendProperties
<1>3. ASSUME NEW k \in DOMAIN G, NEW i \in DOMAIN G[k]
      PROVE  \E m \in DOMAIN F, p \in Nat :
               /\ p \in DOMAIN F[m] /\ G[k][i] = F[m][p]
               /\ \/ k = a /\ m = a /\ p = i + 1 /\ i \in Nat \ {0}
                  \/ k = b /\ m = a /\ p = 1 /\ i = Len(F[b]) + 1
                  \/ k # a /\ m = k /\ p = i
  <2>1. CASE k = a
    <3>1. i \in 1..Len(F[a]) - 1
      BY <1>1, <2>1
    <3>2. i + 1 \in DOMAIN F[a] /\ G[a][i] = F[a][i + 1] /\ i + 1 \in Nat /\ i \in Nat \ {0}
      BY <1>1, <2>1, <3>1
    <3> QED
      BY <2>1, <3>2
  <2>2. CASE k = b /\ i = Len(F[b]) + 1
    BY <1>1, <1>2, <2>2
  <2>3. CASE k = b /\ i # Len(F[b]) + 1
    <3>1. i \in 1..Len(F[b])
      BY <1>2, <2>3
    <3> QED
      BY <1>2, <2>3, <3>1
  <2>4. CASE k # a /\ k # b
    <3>1. F[k] \in Seq(S) /\ G[k] = F[k]
      BY <2>4
    <3> QED
      BY <2>4, <3>1
  <2> QED
    BY <2>1, <2>2, <2>3, <2>4
<1>4. ASSUME NEW k \in DOMAIN G, NEW l \in DOMAIN G, NEW i \in DOMAIN G[k], NEW j \in DOMAIN G[l],
             Twins(G[k][i], G[l][j])
      PROVE  k = l /\ i = j
  <2>1. PICK m \in DOMAIN F, p \in Nat :
               /\ p \in DOMAIN F[m] /\ G[k][i] = F[m][p]
               /\ \/ k = a /\ m = a /\ p = i + 1 /\ i \in Nat \ {0}
                  \/ k = b /\ m = a /\ p = 1 /\ i = Len(F[b]) + 1
                  \/ k # a /\ m = k /\ p = i
    BY <1>3
  <2>2. PICK n \in DOMAIN F, q \in Nat :
               /\ q \in DOMAIN F[n] /\ G[l][j] = F[n][q]
               /\ \/ l = a /\ n = a /\ q = j + 1 /\ j \in Nat \ {0}
                  \/ l = b /\ n = a /\ q = 1 /\ j = Len(F[b]) + 1
                  \/ l # a /\ n = l /\ q = j
    BY <1>3
  <2>3. m = n /\ p = q
    BY <1>4, <2>1, <2>2 DEF Once
  <2> QED
    BY <2>1, <2>2, <2>3
<1> QED
  BY <1>4 DEF Once

\* Some channels are emptied.
LEMMA OnceClear ==
  ASSUME NEW F, NEW G, NEW K, Once(F), DOMAIN G = DOMAIN F,
         \A k \in DOMAIN F : G[k] = IF k \in K THEN << >> ELSE F[k]
  PROVE  Once(G)
<1>1. \A k \in DOMAIN G : \A i \in DOMAIN G[k] : k \notin K
  OBVIOUS
<1>2. \A k \in DOMAIN G : k \notin K => G[k] = F[k] /\ k \in DOMAIN F
  OBVIOUS
<1> QED
  BY <1>1, <1>2 DEF Once

\* Entries that have no twin are put on an empty channel.
LEMMA OncePut ==
  ASSUME NEW F, NEW G, Once(F), DOMAIN G = DOMAIN F,
         NEW a \in DOMAIN F, F[a] = << >>, NEW s,
         \A k \in DOMAIN F : G[k] = IF k = a THEN s ELSE F[k],
         \A i, j \in DOMAIN s : Twins(s[i], s[j]) => i = j,
         \A i \in DOMAIN s : \A k \in DOMAIN F : \A j \in DOMAIN F[k] : ~Twins(s[i], F[k][j])
  PROVE  Once(G)
<1>1. \A x, y : Twins(x, y) => Twins(y, x)
  BY DEF Twins
<1>2. ASSUME NEW k \in DOMAIN G, NEW l \in DOMAIN G, NEW i \in DOMAIN G[k], NEW j \in DOMAIN G[l],
             Twins(G[k][i], G[l][j])
      PROVE  k = l /\ i = j
  <2>1. CASE k = a /\ l = a
    BY <1>2, <2>1
  <2>2. CASE k = a /\ l # a
    BY <1>2, <2>2
  <2>3. CASE k # a /\ l = a
    <3>1. Twins(G[l][j], G[k][i])
      BY <1>1, <1>2
    <3> QED
      BY <2>3, <3>1
  <2>4. CASE k # a /\ l # a
    BY <1>2, <2>4 DEF Once
  <2> QED
    BY <2>1, <2>2, <2>3, <2>4
<1> QED
  BY <1>2 DEF Once

\* What is on its way, channel by channel, before a step and after it.
LEMMA Way ==
  /\ DOMAIN OnItsWay = Tasks \cup CommandStreams \cup {"posts"}
  /\ \A h \in Tasks : OnItsWay[h] = todo[h]
  /\ \A s \in CommandStreams : OnItsWay[s] = bus[s]
  /\ OnItsWay["posts"] = posts
BY DEF OnItsWay, Tasks, CommandStreams

LEMMA WayNext ==
  /\ DOMAIN OnItsWay' = Tasks \cup CommandStreams \cup {"posts"}
  /\ \A h \in Tasks : OnItsWay'[h] = todo'[h]
  /\ \A s \in CommandStreams : OnItsWay'[s] = bus'[s]
  /\ OnItsWay'["posts"] = posts'
BY DEF OnItsWay, Tasks, CommandStreams

LEMMA WayType ==
  ASSUME TypeOK, NEW k \in DOMAIN OnItsWay
  PROVE  OnItsWay[k] \in Seq(Owed)
<1>1. \A s \in CommandStreams : bus[s] \in Seq(Owed)
  <2>1. \A s \in CommandStreams : bus[s] \in Seq(BotCommands(s))
    BY DEF TypeOK
  <2>2. \A s \in CommandStreams : BotCommands(s) \subseteq Owed
    BY OwedType
  <2> QED
    BY <2>1, <2>2
<1>2. posts \in Seq(Owed)
  <2>1. BotCommands("send") \subseteq Owed /\ posts \in Seq(BotCommands("send"))
    BY DEF TypeOK, Owed
  <2> QED
    BY <2>1
<1>3. \A h \in Tasks : todo[h] \in Seq(Owed)
  BY TablesType
<1> QED
  BY <1>1, <1>2, <1>3, Way

\* A command is published, or sent: it changes channel.
LEMMA OncePublish ==
  ASSUME TypeOK, Once(OnItsWay), NEW h \in Tasks, Publish(h)
  PROVE  Once(OnItsWay)'
<1> SUFFICES ASSUME NEW F, F = OnItsWay, NEW G, G = OnItsWay', NEW c, c = Head(todo[h]),
                    NEW b, b = c.stream
             PROVE  Once(G)
  BY DEF Once
<1>1. todo[h] \in Seq(Owed) /\ todo[h] # << >>
  BY TablesType DEF Publish
<1>2. b \in CommandStreams
  <2>1. Head(todo[h]) \in Owed
    BY <1>1, TailHolds
  <2> QED
    BY <2>1, OwedType
<1>3. /\ bus' = [bus EXCEPT ![b] = Append(@, c)]
      /\ todo' = [todo EXCEPT ![h] = Tail(@)] /\ posts' = posts
  BY DEF Publish, telegram
<1>4. DOMAIN bus = Tasks \cup CommandStreams /\ DOMAIN todo = Tasks
  BY DEF TypeOK
<1>5. h # b /\ h # "posts" /\ b # "posts" /\ \A s \in CommandStreams : s \notin Tasks
  BY <1>2 DEF Tasks, CommandStreams
<1>6. F[h] = todo[h] /\ F[b] = bus[b] /\ Head(F[h]) = c
  BY <1>2, Way
<1>7. \A k \in DOMAIN F : G[k] = IF k = h THEN Tail(F[h])
                                 ELSE IF k = b THEN Append(F[b], Head(F[h])) ELSE F[k]
  <2>1. ASSUME NEW k \in Tasks
        PROVE  G[k] = IF k = h THEN Tail(F[h]) ELSE F[k]
    BY <1>3, <1>4, <1>6, Way, WayNext
  <2>2. ASSUME NEW k \in CommandStreams
        PROVE  G[k] = IF k = b THEN Append(F[b], Head(F[h])) ELSE F[k]
    BY <1>2, <1>3, <1>4, <1>6, Way, WayNext
  <2>3. G["posts"] = F["posts"]
    BY <1>3, Way, WayNext
  <2>4. ASSUME NEW k \in DOMAIN F
        PROVE  G[k] = IF k = h THEN Tail(F[h])
                      ELSE IF k = b THEN Append(F[b], Head(F[h])) ELSE F[k]
    <3>1. CASE k \in Tasks
      <4>1. k # b
        BY <1>2, <1>5, <3>1
      <4> QED
        BY <2>1, <3>1, <4>1
    <3>2. CASE k \in CommandStreams
      <4>1. k # h
        BY <1>5, <3>2
      <4> QED
        BY <2>2, <3>2, <4>1
    <3>3. CASE k = "posts"
      BY <1>5, <2>3, <3>3
    <3> QED
      BY <3>1, <3>2, <3>3, Way
  <2> QED
    BY <2>4
<1>8. \A k \in DOMAIN F : F[k] \in Seq(Owed)
  BY WayType
<1>9. DOMAIN G = DOMAIN F /\ h \in DOMAIN F /\ b \in DOMAIN F /\ F[h] # << >>
  BY <1>1, <1>2, <1>6, Way, WayNext
<1>10. Once(F)
  OBVIOUS
<1>11. h # b
  BY <1>5
<1> QED
  BY <1>7, <1>8, <1>9, <1>10, <1>11, OnceMove

LEMMA OnceSend ==
  ASSUME TypeOK, Once(OnItsWay), SendMessage
  PROVE  Once(OnItsWay)'
<1> SUFFICES ASSUME NEW F, F = OnItsWay, NEW G, G = OnItsWay'
             PROVE  Once(G)
  BY DEF Once
<1>1. /\ bus["send"] # << >> /\ todo' = todo
      /\ posts' = Append(posts, Head(bus["send"]))
      /\ bus' = [bus EXCEPT !["send"] = Tail(@)]
  BY DEF SendMessage
<1>2. DOMAIN bus = Tasks \cup CommandStreams /\ "send" \in CommandStreams
      /\ "posts" \notin Tasks \cup CommandStreams /\ \A s \in CommandStreams : s \notin Tasks
  BY DEF TypeOK, CommandStreams, Tasks
<1>3. F["send"] = bus["send"] /\ F["posts"] = posts
  BY <1>2, Way
<1>4. \A k \in DOMAIN F : G[k] = IF k = "send" THEN Tail(F["send"])
                                 ELSE IF k = "posts" THEN Append(F["posts"], Head(F["send"])) ELSE F[k]
  <2>1. \A k \in Tasks : G[k] = F[k]
    BY <1>1, Way, WayNext
  <2>2. \A k \in CommandStreams : G[k] = IF k = "send" THEN Tail(F["send"]) ELSE F[k]
    BY <1>1, <1>2, <1>3, Way, WayNext
  <2>3. G["posts"] = Append(F["posts"], Head(F["send"]))
    BY <1>1, <1>3, WayNext
  <2> QED
    BY <1>2, <2>1, <2>2, <2>3, Way
<1>5. \A k \in DOMAIN F : F[k] \in Seq(Owed)
  BY WayType
<1>6. DOMAIN G = DOMAIN F /\ "send" \in DOMAIN F /\ "posts" \in DOMAIN F /\ F["send"] # << >> /\ "send" # "posts"
  BY <1>1, <1>2, <1>3, Way, WayNext
<1>7. Once(F)
  OBVIOUS
<1> QED
  BY <1>4, <1>5, <1>6, <1>7, OnceMove

\* A command is carried out or refused.
LEMMA OnceTaken ==
  ASSUME TypeOK, Once(OnItsWay), NEW s \in CommandStreams, bus[s] # << >>,
         UNCHANGED <<todo, posts>>,
         bus'[s] = Tail(bus[s]), \A t \in CommandStreams \ {s} : bus'[t] = bus[t]
  PROVE  Once(OnItsWay)'
<1> SUFFICES ASSUME NEW F, F = OnItsWay, NEW G, G = OnItsWay'
             PROVE  Once(G)
  BY DEF Once
<1>1. "posts" \notin Tasks \cup CommandStreams /\ \A t \in CommandStreams : t \notin Tasks
  BY DEF CommandStreams, Tasks
<1>2. \A k \in DOMAIN F : G[k] = IF k = s THEN Tail(F[s]) ELSE F[k]
  BY <1>1, Way, WayNext
<1>3. \A k \in DOMAIN F : F[k] \in Seq(Owed)
  BY WayType
<1>4. DOMAIN G = DOMAIN F /\ s \in DOMAIN F /\ F[s] # << >>
  BY Way, WayNext
<1>5. Once(F)
  OBVIOUS
<1> QED
  BY <1>2, <1>3, <1>4, <1>5, OnceTake

\* Nothing on its way moves.
LEMMA OnceQuiet ==
  ASSUME Once(OnItsWay), UNCHANGED <<todo, posts>>, \A s \in CommandStreams : bus'[s] = bus[s]
  PROVE  Once(OnItsWay)'
<1> SUFFICES ASSUME NEW F, F = OnItsWay, NEW G, G = OnItsWay'
             PROVE  Once(G)
  BY DEF Once
<1>1. DOMAIN G = DOMAIN F /\ \A k \in DOMAIN F : G[k] = F[k]
  BY Way, WayNext
<1>2. Once(F)
  OBVIOUS
<1> QED
  BY <1>1, <1>2 DEF Once

\* core stops: what was owed is lost.
LEMMA OnceRestart ==
  ASSUME Once(OnItsWay), Restart
  PROVE  Once(OnItsWay)'
<1> SUFFICES ASSUME NEW F, F = OnItsWay, NEW G, G = OnItsWay'
             PROVE  Once(G)
  BY DEF Once
<1>1. "posts" \notin Tasks /\ \A t \in CommandStreams : t \notin Tasks
  BY DEF CommandStreams, Tasks
<1>2. todo' = [h \in Tasks |-> << >>] /\ bus' = bus /\ posts' = posts
  BY DEF Restart, telegram
<1>3. DOMAIN G = DOMAIN F /\ \A k \in DOMAIN F : G[k] = IF k \in Tasks THEN << >> ELSE F[k]
  BY <1>1, <1>2, Way, WayNext
<1>4. Once(F)
  OBVIOUS
<1> QED
  BY <1>3, <1>4, OnceClear

\* A handler owes commands that have no twin.
LEMMA OnceCommit ==
  ASSUME TypeOK, Once(OnItsWay), NEW h \in Tasks, NEW m, Receive(h, m), NEW msgs, Commit(h, m, msgs),
         \A i, j \in DOMAIN msgs : Twins(msgs[i], msgs[j]) => i = j,
         \A i \in DOMAIN msgs : \A k \in DOMAIN OnItsWay : \A j \in DOMAIN OnItsWay[k] :
           ~Twins(msgs[i], OnItsWay[k][j])
  PROVE  Once(OnItsWay)'
<1> SUFFICES ASSUME NEW F, F = OnItsWay, NEW G, G = OnItsWay'
             PROVE  Once(G)
  BY DEF Once
<1>1. "posts" \notin Tasks /\ h \notin CommandStreams /\ h # "posts" /\ \A t \in CommandStreams : t \notin Tasks
  BY DEF CommandStreams, Tasks
<1>2. /\ todo[h] = << >> /\ posts' = posts
      /\ \A s \in CommandStreams : bus'[s] = bus[s]
  BY <1>1 DEF Receive, telegram, TypeOK
<1>3. todo' = [todo EXCEPT ![h] = msgs] /\ DOMAIN todo = Tasks
  BY DEF Commit, TypeOK
<1>4. \A k \in DOMAIN F : G[k] = IF k = h THEN msgs ELSE F[k]
  BY <1>1, <1>2, <1>3, Way, WayNext
<1>5. DOMAIN G = DOMAIN F /\ h \in DOMAIN F /\ F[h] = << >>
  BY <1>2, Way, WayNext
<1>6. Once(F)
  OBVIOUS
<1> QED
  BY <1>4, <1>5, <1>6, OncePut

-----------------------------------------------------------------------------
(* What an entry tells stays true.                                         *)

\* Nothing that was written, asked for, recorded or made is undone.
Grows ==
  /\ \A n \in DOMAIN given : n \in DOMAIN given' /\ given'[n] = given[n]
  /\ \A c \in Chats : /\ setup[c].asked # 0 => setup'[c].asked = setup[c].asked
                      /\ \A r \in Roles : setup[c].topic[r] # 0 => setup'[c].topic[r] # 0
                      /\ \A k \in DOMAIN topics[c] : k \in DOMAIN topics'[c] /\ topics'[c][k] = topics[c][k]

LEMMA GivenGrows ==
  ASSUME TypeOK, NEW d \in Given, given' = Append(given, d)
  PROVE  \A n \in DOMAIN given : n \in DOMAIN given' /\ given'[n] = given[n]
<1>1. given \in Seq(Given)
  BY DEF TypeOK, Given
<1> QED
  BY <1>1

LEMMA TellsKept ==
  ASSUME Grows, NEW m, m.chat \in Chats, Tells(m)
  PROVE  Tells(m)'
<1>1. \A r, k : MadeFor(m.chat, r, k) => MadeFor(m.chat, r, k)'
  BY DEF Grows, MadeFor
<1> QED
  BY <1>1 DEF Tells

LEMMA Kept ==
  ASSUME Grows, NEW s, NEW m, Grounded(s, m),
         s \in CommandStreams => m.chat \in Chats,
         s = "create" => m.what \notin Range(topics'[m.chat])
  PROVE  Grounded(s, m)'
<1>1. CASE s = "message"
  BY <1>1 DEF Grounded, Grows
<1>2. CASE s = "topic_created"
  <2>1. PICK c \in Chats : m.n # 0 /\ setup[c].asked = m.n /\ MadeFor(c, m.what, m.topic)
    BY <1>2 DEF Grounded
  <2>2. setup'[c].asked = m.n /\ MadeFor(c, m.what, m.topic)'
    BY <2>1 DEF Grows, MadeFor
  <2> QED
    BY <1>2, <2>1, <2>2 DEF Grounded
<1>3. CASE s = "create"
  BY <1>3 DEF Grounded, Grows, CommandStreams
<1>4. CASE s = "send"
  <2>1. m.chat \in Chats /\ Tells(m) /\ (m.what = "block" => \A r \in Roles : setup[m.chat].topic[r] # 0)
    BY <1>4 DEF Grounded, CommandStreams
  <2>2. Tells(m)'
    BY <2>1, TellsKept
  <2>3. m.what = "block" => \A r \in Roles : setup'[m.chat].topic[r] # 0
    BY <2>1 DEF Grows
  <2> QED
    BY <1>4, <2>2, <2>3 DEF Grounded
<1>5. CASE s \notin {"message", "topic_created", "create", "send"}
  BY <1>5 DEF Grounded
<1> QED
  BY <1>1, <1>2, <1>3, <1>4, <1>5

\* A topic that is still to be made has not been made by the step.
StillToMake(s, m) == s = "create" => m.what \notin Range(topics[m.chat])

\* The streams, when all that is new on them is well grounded.
LEMMA StreamsKept ==
  ASSUME TypeOK, StreamsGrounded, Grows,
         \A s \in Tasks \cup CommandStreams : \A m \in Range(bus'[s]) :
           Grounded(s, m)' \/ (m \in Range(bus[s]) /\ StillToMake(s, m)'),
         \A h \in Tasks : \A m \in Range(todo'[h]) :
           Grounded(m.stream, m)' \/ (m \in Range(todo[h]) /\ StillToMake(m.stream, m)'),
         \A m \in Range(posts') : Grounded("send", m)' \/ m \in Range(posts),
         env'.chat # NoChat => env' = env \/ MadeFor(env.chat, "digest", env.topic["digest"])'
  PROVE  StreamsGrounded'
<1>1. ASSUME NEW s \in Tasks \cup CommandStreams, NEW m \in Range(bus'[s])
      PROVE  Grounded(s, m)'
  <2>1. CASE m \in Range(bus[s]) /\ StillToMake(s, m)'
    <3>1. Grounded(s, m)
      BY <2>1 DEF StreamsGrounded
    <3>2. s \in CommandStreams => m.chat \in Chats
      <4>1. ASSUME s \in CommandStreams PROVE m.chat \in Chats
        <5>1. bus[s] \in Seq(BotCommands(s))
          BY <4>1 DEF TypeOK
        <5>2. m \in BotCommands(s)
          BY <2>1, <5>1, HeldType
        <5> QED
          BY <5>2 DEF BotCommands
      <4> QED
        BY <4>1
    <3>3. s = "create" => m.what \notin Range(topics'[m.chat])
      BY <2>1 DEF StillToMake
    <3> QED
      BY <3>1, <3>2, <3>3, Kept
  <2> QED
    BY <1>1, <2>1
<1>2. ASSUME NEW h \in Tasks, NEW m \in Range(todo'[h])
      PROVE  Grounded(m.stream, m)'
  <2> SUFFICES ASSUME NEW s, s = m.stream
               PROVE  Grounded(s, m)'
    OBVIOUS
  <2>1. CASE m \in Range(todo[h]) /\ StillToMake(s, m)'
    <3>1. Grounded(s, m)
      BY <2>1 DEF StreamsGrounded
    <3>2. m.chat \in Chats
      <4>1. todo[h] \in Seq(Owed)
        BY TablesType
      <4>2. m \in Owed
        BY <2>1, <4>1, HeldType
      <4> QED
        BY <4>2, OwedType
    <3>3. s = "create" => m.what \notin Range(topics'[m.chat])
      BY <2>1 DEF StillToMake
    <3> QED
      BY <3>1, <3>2, <3>3, Kept
  <2> QED
    BY <1>2, <2>1
<1>3. ASSUME NEW m \in Range(posts')
      PROVE  Grounded("send", m)'
  <2>1. CASE m \in Range(posts)
    <3>1. Grounded("send", m)
      BY <2>1 DEF StreamsGrounded
    <3>2. m.chat \in Chats
      <4>1. posts \in Seq(BotCommands("send"))
        BY DEF TypeOK
      <4>2. m \in BotCommands("send")
        BY <2>1, <4>1, HeldType
      <4> QED
        BY <4>2 DEF BotCommands
    <3> QED
      BY <3>1, <3>2, Kept
  <2> QED
    BY <1>3, <2>1
<1>4. env'.chat # NoChat => MadeFor(env.chat, "digest", env.topic["digest"])'
  <2>1. CASE env' = env /\ env.chat # NoChat
    <3>1. MadeFor(env.chat, "digest", env.topic["digest"]) /\ env.chat \in Chats
      BY <2>1, TablesType DEF StreamsGrounded, Environment
    <3> QED
      BY <2>1, <3>1 DEF MadeFor, Grows
  <2> QED
    BY <2>1
<1> QED
  BY <1>1, <1>2, <1>3, <1>4 DEF StreamsGrounded

\* The same when no topic is made.
LEMMA StreamsKeptTopics ==
  ASSUME TypeOK, StreamsGrounded, Grows, UNCHANGED topics,
         \A s \in Tasks \cup CommandStreams : \A m \in Range(bus'[s]) :
           Grounded(s, m)' \/ m \in Range(bus[s]),
         \A h \in Tasks : \A m \in Range(todo'[h]) :
           Grounded(m.stream, m)' \/ m \in Range(todo[h]),
         \A m \in Range(posts') : Grounded("send", m)' \/ m \in Range(posts),
         env'.chat # NoChat => env' = env \/ MadeFor(env.chat, "digest", env.topic["digest"])'
  PROVE  StreamsGrounded'
<1>1. \A s, m : Grounded(s, m) => StillToMake(s, m)'
  BY DEF Grounded, StillToMake
<1>2. \A s \in Tasks \cup CommandStreams : \A m \in Range(bus'[s]) :
        Grounded(s, m)' \/ (m \in Range(bus[s]) /\ StillToMake(s, m)')
  BY <1>1 DEF StreamsGrounded
<1>3. \A h \in Tasks : \A m \in Range(todo'[h]) :
        Grounded(m.stream, m)' \/ (m \in Range(todo[h]) /\ StillToMake(m.stream, m)')
  <2>1. ASSUME NEW h \in Tasks, NEW m \in Range(todo[h]), NEW s, s = m.stream
        PROVE  StillToMake(s, m)'
    BY <1>1, <2>1 DEF StreamsGrounded
  <2> QED
    BY <2>1
<1> QED
  BY <1>2, <1>3, StreamsKept

\* The rows of the topics, when they and the topics are left alone.
LEMMA SetupKept ==
  ASSUME SetupGrounded, Grows, UNCHANGED <<setup, topics>>, processed \subseteq processed'
  PROVE  SetupGrounded'
BY DEF SetupGrounded, Grows, MadeFor

-----------------------------------------------------------------------------
(* The invariant, step by step.                                            *)

LEMMA InvInit == Init => IInv
<1> SUFFICES ASSUME Init
             PROVE  IInv
  OBVIOUS
<1>1. /\ \A s \in Tasks \cup CommandStreams : bus[s] = << >>
      /\ \A h \in Tasks : todo[h] = << >>
      /\ posts = << >> /\ env.chat = NoChat
      /\ \A c \in Chats : topics[c] = << >> /\ setup[c].asked = 0 /\ \A r \in Roles : setup[c].topic[r] = 0
  BY DEF Init
<1>2. StreamsGrounded
  BY <1>1, EmptyHolds DEF StreamsGrounded
<1>3. SetupGrounded
  BY <1>1 DEF SetupGrounded
<1>4. Once(OnItsWay)
  <2>1. \A k \in DOMAIN OnItsWay : OnItsWay[k] = << >>
    BY <1>1, Way
  <2> QED
    BY <2>1 DEF Once
<1> QED
  BY <1>2, <1>3, <1>4 DEF IInv

LEMMA GrowsQuiet ==
  ASSUME UNCHANGED <<given, setup, topics>>
  PROVE  Grows
BY DEF Grows

\* What is left on the streams when a task has taken an entry.
LEMMA Received ==
  ASSUME TypeOK, NEW h \in Tasks, NEW m, Receive(h, m)
  PROVE  /\ m \in Range(bus[h])
         /\ \A s \in Tasks \cup CommandStreams : Range(bus'[s]) \subseteq Range(bus[s])
         /\ \A s \in CommandStreams : bus'[s] = bus[s]
<1>1. m \in Range(bus[h])
  BY ReceiveType
<1>2. /\ Range(Tail(bus[h])) \subseteq Range(bus[h])
      /\ Range(Append(Tail(bus[h]), m)) \subseteq Range(bus[h])
  <2>1. bus[h] \in Seq(Entries[h]) /\ bus[h] # << >> /\ m = Head(bus[h])
    BY DEF Receive, TypeOK
  <2>2. Range(Append(Tail(bus[h]), Head(bus[h]))) \subseteq Range(bus[h])
    BY <2>1, AgainHolds
  <2> QED
    BY <2>1, <2>2, TailHolds
<1>3. DOMAIN bus = Tasks \cup CommandStreams /\ h \notin CommandStreams
  BY DEF TypeOK, Tasks, CommandStreams
<1>4. \/ bus' = [bus EXCEPT ![h] = Tail(@)]
      \/ bus' = [bus EXCEPT ![h] = Append(Tail(@), m)]
  BY DEF Receive
<1>5. \A s \in Tasks \cup CommandStreams : s # h => bus'[s] = bus[s]
  BY <1>3, <1>4
<1>6. Range(bus'[h]) \subseteq Range(bus[h])
  BY <1>2, <1>3, <1>4
<1> QED
  BY <1>1, <1>3, <1>5, <1>6

\* A handler that marks its event and owes commands that are well grounded.
LEMMA InvCommit ==
  ASSUME TypeOK, IInv, NEW h \in Tasks, NEW m, Receive(h, m), NEW msgs, Commit(h, m, msgs),
         Grows, SetupGrounded',
         \A x \in Range(msgs) : Grounded(x.stream, x)',
         \A i, j \in DOMAIN msgs : Twins(msgs[i], msgs[j]) => i = j,
         \A i \in DOMAIN msgs : \A k \in DOMAIN OnItsWay : \A j \in DOMAIN OnItsWay[k] :
           ~Twins(msgs[i], OnItsWay[k][j])
  PROVE  IInv'
<1>1. Once(OnItsWay)'
  BY OnceCommit DEF IInv
<1>2. \A k \in Tasks : \A x \in Range(todo'[k]) : Grounded(x.stream, x)' \/ x \in Range(todo[k])
  <2>1. \A k \in Tasks : todo'[k] = IF k = h THEN msgs ELSE todo[k]
    BY DEF Commit, TypeOK
  <2> QED
    BY <2>1
<1>3. StreamsGrounded'
  <2>1. UNCHANGED <<topics, posts, env>>
    BY DEF Receive, telegram
  <2> QED
    BY <1>2, <2>1, Received, StreamsKeptTopics DEF IInv
<1> QED
  BY <1>1, <1>3 DEF IInv

\* A handler that does nothing but take its event.
LEMMA InvIgnore ==
  ASSUME TypeOK, IInv, NEW h \in Tasks, NEW m, Receive(h, m),
         UNCHANGED <<setup, processed, todo>>
  PROVE  IInv'
<1>1. UNCHANGED <<given, topics, posts, env>> /\ \A s \in CommandStreams : bus'[s] = bus[s]
  BY Received DEF Receive, telegram, people
<1>2. Grows
  BY <1>1, GrowsQuiet
<1>3. Once(OnItsWay)'
  BY <1>1, OnceQuiet DEF IInv
<1>4. SetupGrounded'
  BY <1>1, <1>2, SetupKept DEF IInv
<1>5. StreamsGrounded'
  BY <1>1, <1>2, Received, StreamsKeptTopics DEF IInv
<1> QED
  BY <1>3, <1>4, <1>5 DEF IInv

\* An answer or a digest goes out as often as it is asked for.
LEMMA InvOne ==
  ASSUME TypeOK, IInv, NEW h \in Tasks, NEW m, Receive(h, m), UNCHANGED setup,
         NEW x, x.stream = "send", x.what \in {"answer", "digest"}, Tells(x),
         Commit(h, m, <<x>>)
  PROVE  IInv'
<1>1. UNCHANGED <<given, topics>>
  BY DEF Receive, telegram, people
<1>2. Grows
  BY <1>1, GrowsQuiet
<1>3. SetupGrounded'
  BY <1>1, <1>2, SetupKept DEF IInv, Commit
<1>4. \A y : ~Twins(x, y)
  BY DEF Twins
<1>5. Range(<<x>>) = {x} /\ DOMAIN <<x>> = {1} /\ <<x>>[1] = x
  BY DEF Range
<1>6. Grounded(x.stream, x)'
  <2>1. Tells(x)'
    BY <1>1 DEF Tells, MadeFor
  <2> QED
    BY <2>1 DEF Grounded
<1> QED
  BY <1>2, <1>3, <1>4, <1>5, <1>6, InvCommit

LEMMA InvNone ==
  ASSUME TypeOK, IInv, NEW h \in Tasks, NEW m, Receive(h, m), UNCHANGED setup, Commit(h, m, << >>)
  PROVE  IInv'
<1>1. UNCHANGED <<given, topics>>
  BY DEF Receive, telegram, people
<1>2. Grows
  BY <1>1, GrowsQuiet
<1>3. SetupGrounded'
  BY <1>1, <1>2, SetupKept DEF IInv, Commit
<1> QED
  BY <1>2, <1>3, EmptyHolds, InvCommit

\* A /setup_team_group that is accepted: the group had no rows, no topics, and
\* none was on its way.
LEMMA InvSetup ==
  ASSUME TypeOK, IInv, NEW m, SetupTeamGroup(m)
  PROVE  IInv'
<1> SUFFICES ASSUME NEW c, c = m.chat, NEW n, n = m.n, NEW F, F = OnItsWay
             PROVE  IInv'
  OBVIOUS
<1> DEFINE msgs == [i \in 1..4 |-> Create(c, TopicOrder[i], n)]
<1>1. Receive("message", m) /\ "message" \in Tasks
  BY DEF SetupTeamGroup, Accepted, Tasks
<1>2. c \in Chats /\ n \in DOMAIN given /\ n # 0 /\ given[n].chat = c
  <2>1. m \in Entries["message"] /\ m \in Range(bus["message"])
    BY <1>1, ReceiveType
  <2>2. Grounded("message", m)
    BY <1>1, <2>1 DEF IInv, StreamsGrounded
  <2>3. given \in Seq(Given)
    BY DEF TypeOK, Given
  <2>4. m.n \in DOMAIN given /\ given[m.n]["chat"] = m["chat"]
    BY <2>2 DEF Grounded
  <2> QED
    BY <2>1, <2>3, <2>4, EntriesAre
<1>3. /\ setup[c].asked = 0 /\ topics[c] = << >>
      /\ \A r \in Roles : setup[c].topic[r] = 0
  <2>1. setup[c].asked = 0
    BY DEF SetupTeamGroup, Unset
  <2>2. topics[c] = << >>
    BY <1>2, <2>1 DEF IInv, SetupGrounded
  <2>3. \A r \in Roles : setup[c].topic[r] = 0
    <3>1. \A r, k : ~MadeFor(c, r, k)
      BY <2>2 DEF MadeFor
    <3>2. \A r \in Roles : setup[c].topic[r] # 0 => MadeFor(c, r, setup[c].topic[r])
      BY <1>2 DEF IInv, SetupGrounded
    <3> QED
      BY <3>1, <3>2
  <2> QED
    BY <2>1, <2>2, <2>3
<1>4. /\ setup'[c].asked = n /\ setup'[c].topic = setup[c].topic
      /\ \A d \in Chats : d # c => setup'[d] = setup[d]
  <2>1. setup' = [setup EXCEPT ![c].asked = n] /\ setup \in [Chats -> Rows]
    BY TablesType DEF SetupTeamGroup
  <2>2. setup[c] \in Rows
    BY <1>2, <2>1
  <2>3. [setup[c] EXCEPT !.asked = n].asked = n /\ [setup[c] EXCEPT !.asked = n].topic = setup[c].topic
    BY <2>2 DEF Rows
  <2> QED
    BY <1>2, <2>1, <2>3
<1>5. UNCHANGED <<given, topics>> /\ Commit("message", m, msgs)
  BY DEF SetupTeamGroup, Accepted, Receive, people, telegram
<1>6. Grows
  BY <1>3, <1>4, <1>5 DEF Grows
<1>7. SetupGrounded'
  <2> SUFFICES ASSUME NEW d \in Chats
               PROVE  (/\ setup[d].asked = 0 => topics[d] = << >>
                       /\ setup[d].asked # 0 => setup[d].asked \in DOMAIN given /\ given[setup[d].asked].chat = d
                       /\ \A i, j \in DOMAIN topics[d] : topics[d][i] = topics[d][j] => i = j
                       /\ \A r \in Roles : setup[d].topic[r] # 0 =>
                            /\ MadeFor(d, r, setup[d].topic[r])
                            /\ <<"topic_created", setup[d].asked, r>> \in processed)'
    BY DEF SetupGrounded
  <2>1. CASE d = c
    BY <1>2, <1>3, <1>4, <1>5, <2>1
  <2>2. CASE d # c
    <3>1. processed \subseteq processed'
      BY <1>5 DEF Commit
    <3> QED
      BY <1>4, <1>5, <2>2, <3>1 DEF IInv, SetupGrounded, MadeFor
  <2> QED
    BY <2>1, <2>2
<1>8. DOMAIN msgs = 1..4 /\ \A i \in 1..4 : /\ msgs[i].stream = "create" /\ msgs[i].chat = c
                                             /\ msgs[i].about = n /\ msgs[i].what = TopicOrder[i]
  BY DEF Create
<1> HIDE DEF msgs
<1>9. \A x \in Range(msgs) : x.stream = "create" /\ x.chat = c /\ x.about = n
  BY <1>8 DEF Range
<1>10. \A x \in Range(msgs) : Grounded(x.stream, x)'
  BY <1>2, <1>3, <1>4, <1>5, <1>9, EmptyHolds DEF Grounded
<1>11. \A i, j \in DOMAIN msgs : Twins(msgs[i], msgs[j]) => i = j
  <2>1. \A i, j \in 1..4 : TopicOrder[i] = TopicOrder[j] => i = j
    BY DEF TopicOrder
  <2> QED
    BY <1>8, <2>1 DEF Twins
<1>12. ASSUME NEW k \in DOMAIN F, NEW j \in DOMAIN F[k], F[k][j].stream = "create"
       PROVE  F[k][j].chat # c
  <2> SUFFICES ASSUME NEW y, y = F[k][j]
               PROVE  y.chat # c
    OBVIOUS
  <2>1. y \in Range(F[k]) /\ y.stream = "create"
    BY <1>12 DEF Range
  <2>2. y.about # 0 /\ setup[y.chat].asked = y.about
    <3>1. CASE k \in Tasks
      <4>1. y \in Range(todo[k])
        BY <2>1, <3>1, Way
      <4> QED
        BY <2>1, <3>1, <4>1 DEF IInv, StreamsGrounded, Grounded
    <3>2. CASE k \in CommandStreams
      <4>1. y \in Range(bus[k])
        BY <2>1, <3>2, Way
      <4>2. k = "create"
        <5>1. bus[k] \in Seq(BotCommands(k))
          BY <3>2 DEF TypeOK
        <5>2. y \in BotCommands(k)
          BY <4>1, <5>1, HeldType
        <5> QED
          BY <2>1, <5>2 DEF BotCommands
      <4> QED
        BY <3>2, <4>1, <4>2 DEF IInv, StreamsGrounded, Grounded
    <3>3. CASE k = "posts"
      <4>1. y \in Range(posts) /\ posts \in Seq(BotCommands("send"))
        BY <2>1, <3>3, Way DEF TypeOK
      <4>2. y \in BotCommands("send")
        BY <4>1, HeldType
      <4> QED
        BY <2>1, <4>2 DEF BotCommands
    <3> QED
      BY <3>1, <3>2, <3>3, Way
  <2> QED
    BY <1>3, <2>2
<1>13. \A i \in DOMAIN msgs : \A k \in DOMAIN F : \A j \in DOMAIN F[k] : ~Twins(msgs[i], F[k][j])
  BY <1>8, <1>12 DEF Twins
<1> QED
  BY <1>1, <1>5, <1>6, <1>7, <1>10, <1>11, <1>13, InvCommit

\* What the acknowledgement of a topic tells: the group it is for is the one that
\* asked, and the only one.
LEMMA RowOf ==
  ASSUME TypeOK, IInv, NEW m \in Range(bus["topic_created"]), NEW c \in RowsOf(m)
  PROVE  c \in Chats /\ m.n # 0 /\ setup[c].asked = m.n /\ MadeFor(c, m.what, m.topic)
<1>1. c \in Chats /\ setup[c].asked = m.n
  BY DEF RowsOf
<1>2. Grounded("topic_created", m)
  BY DEF IInv, StreamsGrounded, Tasks
<1>3. PICK d \in Chats : m.n # 0 /\ setup[d].asked = m.n /\ MadeFor(d, m.what, m.topic)
  BY <1>2 DEF Grounded
<1>4. given[m.n].chat = c /\ given[m.n].chat = d
  BY <1>1, <1>3 DEF IInv, SetupGrounded
<1> QED
  BY <1>1, <1>3, <1>4

\* An acknowledgement that is new: no block has been owed yet, for a block needs
\* the topic recorded, and a recorded topic's acknowledgement is known.
LEMMA NoBlockYet ==
  ASSUME TypeOK, IInv, NEW m \in Range(bus["topic_created"]), NEW c \in RowsOf(m),
         m.what \in Roles, ~Seen("topic_created", m),
         NEW F, F = OnItsWay, NEW k \in DOMAIN F, NEW j \in DOMAIN F[k], F[k][j].what = "block"
  PROVE  F[k][j].chat # c
<1> SUFFICES ASSUME NEW y, y = F[k][j], y.chat = c
             PROVE  FALSE
  OBVIOUS
<1>1. c \in Chats /\ m.n # 0 /\ setup[c].asked = m.n
  BY RowOf
<1>2. setup[c].topic[m.what] = 0
  <2>1. <<"topic_created", m.n, m.what>> \notin processed
    BY DEF Seen, EventId
  <2> QED
    BY <1>1, <2>1 DEF IInv, SetupGrounded
<1>3. y \in Range(F[k]) /\ y.what = "block" /\ F[k] \in Seq(Owed)
  BY WayType DEF Range
<1>4. y \in Owed
  BY <1>3, HeldType
<1>5. y.stream = "send"
  BY <1>3, <1>4 DEF Owed, BotCommands, Roles
<1>6. \A r \in Roles : setup[y.chat].topic[r] # 0
  <2>1. CASE k \in Tasks
    <3>1. y \in Range(todo[k])
      BY <1>3, <2>1, Way
    <3> QED
      BY <1>3, <1>5, <2>1, <3>1 DEF IInv, StreamsGrounded, Grounded
  <2>2. CASE k \in CommandStreams
    <3>1. y \in Range(bus[k])
      BY <1>3, <2>2, Way
    <3>2. k = "send"
      <4>1. bus[k] \in Seq(BotCommands(k))
        BY <2>2 DEF TypeOK
      <4>2. y \in BotCommands(k)
        BY <3>1, <4>1, HeldType
      <4> QED
        BY <1>5, <4>2 DEF BotCommands
    <3> QED
      BY <1>3, <2>2, <3>1, <3>2 DEF IInv, StreamsGrounded, Grounded
  <2>3. CASE k = "posts"
    <3>1. y \in Range(posts)
      BY <1>3, <2>3, Way
    <3> QED
      BY <1>3, <3>1 DEF IInv, StreamsGrounded, Grounded
  <2> QED
    BY <2>1, <2>2, <2>3, Way
<1> QED
  BY <1>2, <1>6

LEMMA InvAttach ==
  ASSUME TypeOK, IInv, NEW m, AttachTeamTopic(m)
  PROVE  IInv'
<1> PICK c \in RowsOf(m) :
      LET rows == [setup[c] EXCEPT !.topic[m.what] = m.topic]
          complete == Complete(setup[c], rows) IN
      /\ Receive("topic_created", m)
      /\ ~Seen("topic_created", m)
      /\ setup' = [setup EXCEPT ![c] = [rows EXCEPT !.finished = @ \/ complete]]
      /\ Commit("topic_created", m,
           IF complete THEN <<Send(c, "block", m.n, [r \in EnvRoles |-> rows.topic[r]])>> ELSE << >>)
  BY DEF AttachTeamTopic
<1> DEFINE rows == [setup[c] EXCEPT !.topic[m.what] = m.topic]
           complete == Complete(setup[c], rows)
           block == Send(c, "block", m.n, [r \in EnvRoles |-> rows.topic[r]])
<1>1. Receive("topic_created", m) /\ "topic_created" \in Tasks /\ ~Seen("topic_created", m)
  BY DEF Tasks
<1>2. m \in Range(bus["topic_created"]) /\ m.what \in Roles
  <2>1. m \in Range(bus["topic_created"]) /\ m \in Entries["topic_created"]
    BY <1>1, ReceiveType
  <2> QED
    BY <2>1, EntriesAre
<1>3. c \in Chats /\ m.n # 0 /\ setup[c].asked = m.n /\ MadeFor(c, m.what, m.topic)
  BY <1>2, RowOf
<1>4. m.topic \in Nat \ {0}
  <2>1. topics[c] \in Seq(Roles)
    BY <1>3 DEF TypeOK
  <2> QED
    BY <1>3, <2>1 DEF MadeFor
<1>5. /\ rows.asked = setup[c].asked
      /\ rows.topic = [setup[c].topic EXCEPT ![m.what] = m.topic]
      /\ setup[c].topic \in [Roles -> Nat]
      /\ setup'[c].asked = rows.asked /\ setup'[c].topic = rows.topic
      /\ \A d \in Chats : d # c => setup'[d] = setup[d]
  <2>1. setup[c] \in Rows /\ setup \in [Chats -> Rows]
    BY <1>3, TablesType
  <2>2. /\ rows.asked = setup[c].asked
        /\ rows.topic = [setup[c].topic EXCEPT ![m.what] = m.topic]
        /\ setup[c].topic \in [Roles -> Nat]
    BY <2>1 DEF Rows
  <2>3. setup' = [setup EXCEPT ![c] = [rows EXCEPT !.finished = @ \/ complete]]
    OBVIOUS
  <2>4. setup'[c] = [rows EXCEPT !.finished = @ \/ complete]
    BY <1>3, <2>1, <2>3
  <2>5. setup'[c].asked = rows.asked /\ setup'[c].topic = rows.topic
    <3>1. rows \in Rows
      <4>1. [setup[c].topic EXCEPT ![m.what] = m.topic] \in [Roles -> Nat]
        BY <1>4, <2>2
      <4> QED
        BY <2>1, <4>1 DEF Rows
    <3> HIDE DEF rows, complete
    <3> QED
      BY <2>4, <3>1 DEF Rows
  <2>6. \A d \in Chats : d # c => setup'[d] = setup[d]
    BY <2>1, <2>3
  <2> QED
    BY <2>2, <2>5, <2>6
<1>6. \A r \in Roles : setup'[c].topic[r] = IF r = m.what THEN m.topic ELSE setup[c].topic[r]
  BY <1>2, <1>5
<1>7. Commit("topic_created", m, IF complete THEN <<block>> ELSE << >>) /\ UNCHANGED <<given, topics>>
  BY <1>1 DEF Receive, people, telegram
<1>8. complete => \A r \in Roles : rows.topic[r] # 0
  BY DEF Complete
<1> HIDE DEF rows, complete
<1>9. Grows
  BY <1>4, <1>5, <1>6, <1>7 DEF Grows
<1>10. SetupGrounded'
  <2>1. processed' = processed \cup {<<"topic_created", m.n, m.what>>}
    BY <1>7 DEF Commit, EventId
  <2>2. ASSUME NEW d \in Chats
        PROVE  /\ setup'[d].asked = setup[d].asked
               /\ \A r \in Roles : setup'[d].topic[r] # 0 =>
                    /\ MadeFor(d, r, setup'[d].topic[r])
                    /\ <<"topic_created", setup'[d].asked, r>> \in processed'
    <3>1. CASE d = c
      BY <1>3, <1>5, <1>6, <2>1, <3>1 DEF IInv, SetupGrounded
    <3>2. CASE d # c
      BY <1>5, <2>1, <3>2 DEF IInv, SetupGrounded
    <3> QED
      BY <3>1, <3>2
  <2>3. \A d, r, k : MadeFor(d, r, k) => MadeFor(d, r, k)'
    BY <1>7 DEF MadeFor
  <2> SUFFICES ASSUME NEW d \in Chats
               PROVE  (/\ setup[d].asked = 0 => topics[d] = << >>
                       /\ setup[d].asked # 0 => setup[d].asked \in DOMAIN given /\ given[setup[d].asked].chat = d
                       /\ \A i, j \in DOMAIN topics[d] : topics[d][i] = topics[d][j] => i = j
                       /\ \A r \in Roles : setup[d].topic[r] # 0 =>
                            /\ MadeFor(d, r, setup[d].topic[r])
                            /\ <<"topic_created", setup[d].asked, r>> \in processed)'
    BY DEF SetupGrounded
  <2>4. /\ setup[d].asked = 0 => topics[d] = << >>
        /\ setup[d].asked # 0 => setup[d].asked \in DOMAIN given /\ given[setup[d].asked].chat = d
        /\ \A i, j \in DOMAIN topics[d] : topics[d][i] = topics[d][j] => i = j
    BY DEF IInv, SetupGrounded
  <2>5. ASSUME NEW r \in Roles, NEW k, k = setup'[d].topic[r], k # 0
        PROVE  MadeFor(d, r, k)' /\ <<"topic_created", setup'[d].asked, r>> \in processed'
    BY <2>2, <2>3, <2>5
  <2> QED
    BY <1>7, <2>2, <2>4, <2>5
<1>11. CASE ~complete
  BY <1>1, <1>7, <1>9, <1>10, <1>11, EmptyHolds, InvCommit
<1>12. CASE complete
  <2> SUFFICES ASSUME NEW x, x = block
               PROVE  IInv'
    OBVIOUS
  <2>1. /\ x.stream = "send" /\ x.what = "block" /\ x.chat = c
        /\ x.topic = [r \in EnvRoles |-> rows.topic[r]]
    BY DEF Send
  <2>2. Grounded(x.stream, x)'
    <3>1. \A r \in EnvRoles : r \in Roles /\ x.topic[r] = setup'[c].topic[r] /\ setup'[c].topic[r] # 0
      BY <1>5, <1>8, <1>12, <2>1 DEF EnvRoles
    <3>2. ASSUME NEW r \in EnvRoles, NEW k, k = x.topic[r] PROVE MadeFor(c, r, k)'
      BY <1>3, <1>10, <3>1, <3>2 DEF SetupGrounded
    <3>3. Tells(x)'
      BY <2>1, <3>2 DEF Tells
    <3>4. \A r \in Roles : setup'[c].topic[r] # 0
      BY <1>5, <1>8, <1>12
    <3> QED
      BY <2>1, <3>3, <3>4 DEF Grounded
  <2>3. Range(<<x>>) = {x} /\ DOMAIN <<x>> = {1} /\ <<x>>[1] = x
    BY DEF Range
  <2>4. \A k \in DOMAIN OnItsWay : \A j \in DOMAIN OnItsWay[k] : ~Twins(x, OnItsWay[k][j])
    <3> SUFFICES ASSUME NEW F, F = OnItsWay, NEW k \in DOMAIN F, NEW j \in DOMAIN F[k]
                 PROVE  ~Twins(x, F[k][j])
      OBVIOUS
    <3>1. F[k][j].what = "block" => F[k][j].chat # c
      BY <1>1, <1>2, NoBlockYet
    <3> QED
      BY <2>1, <3>1 DEF Twins
  <2>5. Commit("topic_created", m, <<x>>)
    BY <1>7, <1>12
  <2> QED
    BY <1>1, <1>9, <1>10, <2>2, <2>3, <2>4, <2>5, InvCommit
<1> QED
  BY <1>11, <1>12

LEMMA InvDigest ==
  ASSUME TypeOK, IInv, NEW m, BuildDailyDigest(m)
  PROVE  IInv'
<1>1. Receive("tick", m) /\ "tick" \in Tasks /\ UNCHANGED setup
  BY DEF BuildDailyDigest, Tasks
<1>2. CASE Configured
  <2> SUFFICES ASSUME NEW x, x = Send(env.chat, "digest", m.n, env.topic)
               PROVE  IInv'
    OBVIOUS
  <2>1. /\ x.stream = "send" /\ x.what = "digest" /\ x.chat = env.chat /\ x.topic = env.topic
    BY DEF Send
  <2>2. MadeFor(env.chat, "digest", env.topic["digest"])
    BY <1>2 DEF Configured, IInv, StreamsGrounded
  <2>3. Tells(x)
    BY <2>1, <2>2 DEF Tells
  <2>4. Commit("tick", m, <<x>>)
    BY <1>2 DEF BuildDailyDigest
  <2> QED
    BY <1>1, <2>1, <2>3, <2>4, InvOne
<1>3. CASE ~Configured
  <2>1. Commit("tick", m, << >>)
    BY <1>3 DEF BuildDailyDigest
  <2> QED
    BY <1>1, <2>1, InvNone
<1> QED
  BY <1>2, <1>3

LEMMA InvHandle ==
  ASSUME TypeOK, IInv, NEW h \in Tasks, Handle(h)
  PROVE  IInv'
<1> SUFFICES ASSUME NEW m, m = Head(bus[h])
             PROVE  IInv'
  OBVIOUS
<1>1. CASE SeenBefore(h, m)
  BY <1>1, InvIgnore DEF SeenBefore
<1>2. CASE AttachTeamTopic(m)
  BY <1>2, InvAttach
<1>3. CASE BuildDailyDigest(m)
  BY <1>3, InvDigest
<1>4. "message" \in Tasks
  BY DEF Tasks
<1>5. CASE HandleMessage(m)
  <2>1. CASE ResolveExecutor(m)
    BY <1>4, <2>1, InvIgnore DEF ResolveExecutor
  <2>2. CASE Silent(m)
    BY <1>4, <2>2, InvIgnore DEF Silent
  <2>3. CASE SetupTeamGroup(m)
    BY <2>3, InvSetup
  <2>4. CASE SetupRefused(m) \/ Reply(m)
    <3> SUFFICES ASSUME NEW x, x = Answer(m)
                 PROVE  IInv'
      OBVIOUS
    <3>1. x.stream = "send" /\ x.what = "answer"
      BY DEF Answer, Send
    <3>2. Tells(x)
      BY <3>1 DEF Tells
    <3>3. Receive("message", m) /\ UNCHANGED setup /\ Commit("message", m, <<x>>)
      BY <2>4 DEF SetupRefused, Reply, Accepted
    <3> QED
      BY <1>4, <3>1, <3>2, <3>3, InvOne
  <2> QED
    BY <1>5, <2>1, <2>2, <2>3, <2>4 DEF HandleMessage
<1>6. CASE h = "message"
  BY <1>5, <1>6 DEF Handle
<1>7. CASE h = "topic_created"
  BY <1>1, <1>2, <1>7 DEF Handle
<1>8. CASE h = "tick"
  BY <1>1, <1>3, <1>8 DEF Handle
<1> QED
  BY <1>6, <1>7, <1>8 DEF Tasks

LEMMA InvPublish ==
  ASSUME TypeOK, IInv, NEW h \in Tasks, Publish(h)
  PROVE  IInv'
<1> SUFFICES ASSUME NEW c, c = Head(todo[h]), NEW b, b = c.stream
             PROVE  IInv'
  OBVIOUS
<1>1. /\ bus' = [bus EXCEPT ![b] = Append(@, c)]
      /\ todo' = [todo EXCEPT ![h] = Tail(@)]
      /\ UNCHANGED <<given, setup, processed, env, topics, posts>>
  BY DEF Publish, people, tables, telegram
<1>2. Once(OnItsWay)'
  BY OncePublish DEF IInv
<1>3. Grows
  BY <1>1, GrowsQuiet
<1>4. SetupGrounded'
  BY <1>1, <1>3, SetupKept DEF IInv
<1>5. c \in Owed /\ c \in Range(todo[h]) /\ Range(Tail(todo[h])) \subseteq Range(todo[h])
  <2>1. todo[h] \in Seq(Owed) /\ todo[h] # << >>
    BY TablesType DEF Publish
  <2>2. Head(todo[h]) \in Owed /\ Head(todo[h]) \in Range(todo[h]) /\ Range(Tail(todo[h])) \subseteq Range(todo[h])
    BY <2>1, TailHolds
  <2> QED
    BY <2>2
<1>6. b \in CommandStreams /\ c \in BotCommands(b)
  BY <1>5, OwedType
<1>7. Grounded(b, c)'
  <2>1. Grounded(b, c)
    BY <1>5 DEF IInv, StreamsGrounded
  <2> QED
    BY <1>1, <2>1 DEF Grounded, Tells, MadeFor
<1>8. \A s \in Tasks \cup CommandStreams : \A m \in Range(bus'[s]) : Grounded(s, m)' \/ m \in Range(bus[s])
  <2>1. DOMAIN bus = Tasks \cup CommandStreams
    BY DEF TypeOK
  <2>2. Range(Append(bus[b], c)) = Range(bus[b]) \cup {c}
    <3>1. bus[b] \in Seq(BotCommands(b))
      BY <1>6 DEF TypeOK
    <3> QED
      BY <1>6, <3>1, AppendHolds
  <2>3. ASSUME NEW s \in Tasks \cup CommandStreams, NEW m \in Range(bus'[s])
        PROVE  Grounded(s, m)' \/ m \in Range(bus[s])
    <3>1. CASE s = b
      <4>1. m \in Range(bus[b]) \/ m = c
        BY <1>1, <1>6, <2>1, <2>2, <2>3, <3>1
      <4> QED
        BY <1>7, <3>1, <4>1
    <3>2. CASE s # b
      BY <1>1, <2>1, <2>3, <3>2
    <3> QED
      BY <3>1, <3>2
  <2> QED
    BY <2>3
<1>9. \A k \in Tasks : \A m \in Range(todo'[k]) : m \in Range(todo[k])
  BY <1>1, <1>5 DEF TypeOK
<1>10. StreamsGrounded'
  BY <1>1, <1>3, <1>8, <1>9, StreamsKeptTopics DEF IInv
<1> QED
  BY <1>2, <1>4, <1>10 DEF IInv

\* What is left on a command stream when its oldest command is gone.
LEMMA Taken ==
  ASSUME TypeOK, NEW s \in CommandStreams, bus[s] # << >>
  PROVE  Range(Tail(bus[s])) \subseteq Range(bus[s]) /\ DOMAIN bus = Tasks \cup CommandStreams
<1>1. bus[s] \in Seq(BotCommands(s)) /\ DOMAIN bus = Tasks \cup CommandStreams
  BY DEF TypeOK
<1> QED
  BY <1>1, TailHolds

LEMMA InvSend ==
  ASSUME TypeOK, IInv, SendMessage
  PROVE  IInv'
<1> SUFFICES ASSUME NEW c, c = Head(bus["send"])
             PROVE  IInv'
  OBVIOUS
<1>1. /\ bus["send"] # << >> /\ posts' = Append(posts, c)
      /\ bus' = [bus EXCEPT !["send"] = Tail(@)]
      /\ UNCHANGED <<given, setup, processed, env, topics, todo>>
  BY DEF SendMessage, people, tables
<1>2. Once(OnItsWay)'
  BY OnceSend DEF IInv
<1>3. Grows
  BY <1>1, GrowsQuiet
<1>4. SetupGrounded'
  BY <1>1, <1>3, SetupKept DEF IInv
<1>5. "send" \in CommandStreams
  BY DEF CommandStreams
<1>6. c \in BotCommands("send") /\ c \in Range(bus["send"])
  BY <1>1, <1>5, OldestType
<1>7. Grounded("send", c)'
  <2>1. Grounded("send", c)
    BY <1>5, <1>6 DEF IInv, StreamsGrounded
  <2> QED
    BY <1>1, <2>1 DEF Grounded, Tells, MadeFor
<1>8. Range(posts') = Range(posts) \cup {c}
  <2>1. posts \in Seq(BotCommands("send"))
    BY DEF TypeOK
  <2> QED
    BY <1>1, <1>6, <2>1, AppendHolds
<1>9. \A s \in Tasks \cup CommandStreams : Range(bus'[s]) \subseteq Range(bus[s])
  BY <1>1, <1>5, Taken
<1>10. StreamsGrounded'
  <2>1. \A m \in Range(posts') : Grounded("send", m)' \/ m \in Range(posts)
    BY <1>7, <1>8
  <2> QED
    BY <1>1, <1>3, <1>9, <2>1, StreamsKeptTopics DEF IInv
<1> QED
  BY <1>2, <1>4, <1>10 DEF IInv

LEMMA InvRefuses ==
  ASSUME TypeOK, IInv, NEW s \in CommandStreams, TelegramRefuses(s)
  PROVE  IInv'
<1>1. /\ bus[s] # << >>
      /\ bus' = [bus EXCEPT ![s] = Tail(@)]
      /\ UNCHANGED <<given, setup, processed, env, topics, todo, posts>>
  BY DEF TelegramRefuses, people, tables, telegram
<1>2. /\ bus'[s] = Tail(bus[s]) /\ \A t \in Tasks \cup CommandStreams : t # s => bus'[t] = bus[t]
      /\ Range(Tail(bus[s])) \subseteq Range(bus[s])
  BY <1>1, Taken
<1>3. Grows
  BY <1>1, GrowsQuiet
<1>4. SetupGrounded'
  BY <1>1, <1>3, SetupKept DEF IInv
<1>5. Once(OnItsWay)'
  BY <1>1, <1>2, OnceTaken DEF IInv
<1>6. \A t \in Tasks \cup CommandStreams : Range(bus'[t]) \subseteq Range(bus[t])
  BY <1>2
<1>7. StreamsGrounded'
  BY <1>1, <1>3, <1>6, StreamsKeptTopics DEF IInv
<1> QED
  BY <1>4, <1>5, <1>7 DEF IInv

LEMMA InvRestart ==
  ASSUME TypeOK, IInv, Restart
  PROVE  IInv'
<1>1. /\ todo' = [h \in Tasks |-> << >>]
      /\ UNCHANGED <<given, setup, processed, bus, topics, posts>>
  BY DEF Restart, people, telegram
<1>2. Grows
  BY <1>1, GrowsQuiet
<1>3. SetupGrounded'
  BY <1>1, <1>2, SetupKept DEF IInv
<1>4. Once(OnItsWay)'
  BY OnceRestart DEF IInv
<1>5. env' = env \/ MadeFor(env.chat, "digest", env.topic["digest"])'
  <2>1. CASE env' # env
    <3>1. PICK i \in DOMAIN posts :
            posts[i].what = "block" /\ env' = [chat |-> posts[i].chat, topic |-> posts[i].topic]
      BY <2>1 DEF Restart
    <3>2. Tells(posts[i])
      BY DEF IInv, StreamsGrounded, Grounded, Range
    <3>3. MadeFor(posts[i].chat, "digest", posts[i].topic["digest"])
      BY <3>1, <3>2 DEF Tells, EnvRoles, Roles
    <3> QED
      BY <1>1, <3>1, <3>3 DEF MadeFor
  <2> QED
    BY <2>1
<1>6. \A h \in Tasks : \A m \in Range(todo'[h]) : m \in Range(todo[h])
  BY <1>1, EmptyHolds
<1>7. StreamsGrounded'
  BY <1>1, <1>2, <1>5, <1>6, StreamsKeptTopics DEF IInv
<1> QED
  BY <1>3, <1>4, <1>7 DEF IInv

\* The topic about to be made is on its way once.
LEMMA NoTwinLeft ==
  ASSUME TypeOK, IInv, bus["create"] # << >>, NEW c, c = Head(bus["create"]),
         NEW m, (m \in Range(Tail(bus["create"])) \/ \E h \in Tasks : m \in Range(todo[h]))
  PROVE  ~Twins(c, m)
<1> SUFFICES ASSUME NEW F, F = OnItsWay
             PROVE  ~Twins(c, m)
  OBVIOUS
<1>1. "create" \in CommandStreams /\ "create" \notin Tasks
  BY DEF CommandStreams, Tasks
<1>2. F["create"] = bus["create"] /\ "create" \in DOMAIN F /\ bus["create"] \in Seq(BotCommands("create"))
  BY <1>1, Way DEF TypeOK
<1>3. /\ Head(bus["create"]) = bus["create"][1] /\ 1 \in DOMAIN bus["create"]
      /\ DOMAIN bus["create"] = 1..Len(bus["create"]) /\ Len(bus["create"]) \in Nat
      /\ DOMAIN Tail(bus["create"]) = 1..Len(bus["create"]) - 1
      /\ \A i \in 1..Len(bus["create"]) - 1 : Tail(bus["create"])[i] = bus["create"][i + 1]
  BY <1>2, HeadTailProperties
<1>4. Once(F)
  BY DEF IInv
<1>5. CASE m \in Range(Tail(bus["create"]))
  <2>1. PICK i \in 1..Len(bus["create"]) - 1 : m = bus["create"][i + 1]
    BY <1>3, <1>5 DEF Range
  <2>2. i + 1 \in DOMAIN F["create"] /\ i + 1 # 1 /\ F["create"][i + 1] = m
        /\ F["create"][1] = c /\ 1 \in DOMAIN F["create"]
    BY <1>2, <1>3, <2>1
  <2> QED
    BY <1>2, <1>4, <2>2 DEF Once
<1>6. ASSUME NEW h \in Tasks, m \in Range(todo[h])
      PROVE  ~Twins(c, m)
  <2>1. F[h] = todo[h] /\ h \in DOMAIN F /\ h # "create"
    BY <1>1, Way
  <2>2. PICK j \in DOMAIN F[h] : m = F[h][j]
    BY <1>6, <2>1 DEF Range
  <2> QED
    BY <1>2, <1>3, <1>4, <2>1, <2>2 DEF Once
<1> QED
  BY <1>5, <1>6

LEMMA InvTopic ==
  ASSUME TypeOK, IInv, CreateForumTopic
  PROVE  IInv'
<1> SUFFICES ASSUME NEW c, c = Head(bus["create"]), NEW d, d = c.chat, NEW k, k = Len(topics[d]) + 1,
                    NEW ack, ack = [n |-> c.about, what |-> c.what, topic |-> k]
             PROVE  IInv'
  OBVIOUS
<1>1. "create" \in CommandStreams /\ "create" \notin Tasks /\ bus["create"] # << >>
      /\ "topic_created" \in Tasks /\ "topic_created" # "create"
  BY DEF CommandStreams, Tasks, CreateForumTopic
<1>2. c \in BotCommands("create") /\ d \in Chats /\ c.what \in Roles /\ c.stream = "create"
  <2>1. c \in BotCommands("create")
    BY <1>1, OldestType
  <2> QED
    BY <2>1 DEF BotCommands
<1>3. c.about # 0 /\ setup[d].asked = c.about /\ c.what \notin Range(topics[d])
  <2>1. c \in Range(bus["create"])
    BY <1>1, OldestType
  <2>2. Grounded("create", c)
    BY <1>1, <2>1 DEF IInv, StreamsGrounded
  <2> QED
    BY <2>2 DEF Grounded
<1>4. /\ topics' = [topics EXCEPT ![d] = Append(@, c.what)]
      /\ UNCHANGED <<given, setup, processed, env, todo, posts>>
      /\ \/ bus' = [[bus EXCEPT !["create"] = Tail(@)] EXCEPT !["topic_created"] = Append(@, ack)]
         \/ bus' = [bus EXCEPT !["create"] = Tail(@)]
  BY DEF CreateForumTopic, people, tables
<1>5. /\ topics[d] \in Seq(Roles) /\ topics'[d] = Append(topics[d], c.what)
      /\ \A e \in Chats : e # d => topics'[e] = topics[e]
  BY <1>2, <1>4 DEF TypeOK
<1>6. /\ DOMAIN topics[d] = 1..Len(topics[d]) /\ Len(topics[d]) \in Nat
      /\ DOMAIN topics'[d] = 1..k /\ k \in DOMAIN topics'[d] /\ topics'[d][k] = c.what
      /\ \A i \in DOMAIN topics[d] : i \in DOMAIN topics'[d] /\ i # k /\ topics'[d][i] = topics[d][i]
      /\ \A i \in DOMAIN topics'[d] : i = k \/ i \in DOMAIN topics[d]
      /\ Range(topics'[d]) = Range(topics[d]) \cup {c.what}
  <2>1. /\ DOMAIN Append(topics[d], c.what) = 1..Len(topics[d]) + 1
        /\ \A i \in 1..Len(topics[d]) : Append(topics[d], c.what)[i] = topics[d][i]
        /\ Append(topics[d], c.what)[Len(topics[d]) + 1] = c.what
    BY <1>2, <1>5, AppendProperties
  <2>2. DOMAIN topics[d] = 1..Len(topics[d]) /\ Len(topics[d]) \in Nat
    BY <1>5
  <2>3. Range(Append(topics[d], c.what)) = Range(topics[d]) \cup {c.what}
    BY <1>2, <1>5, AppendHolds
  <2>4. k \in 1..k /\ \A i \in 1..Len(topics[d]) : i \in 1..k /\ i # k
    BY <2>2
  <2>5. \A i \in 1..k : i = k \/ i \in 1..Len(topics[d])
    BY <2>2
  <2>6. DOMAIN topics'[d] = 1..k /\ topics'[d][k] = c.what
        /\ \A i \in 1..Len(topics[d]) : topics'[d][i] = topics[d][i]
    BY <1>5, <2>1
  <2> QED
    BY <1>5, <2>2, <2>3, <2>4, <2>5, <2>6
<1>7. Grows
  BY <1>4, <1>5, <1>6 DEF Grows
<1>8. SetupGrounded'
  <2>1. \A e \in Chats : setup[e].asked = 0 => topics'[e] = << >>
    BY <1>3, <1>5 DEF IInv, SetupGrounded
  <2>2. \A e \in Chats : \A i, j \in DOMAIN topics'[e] : topics'[e][i] = topics'[e][j] => i = j
    <3>1. ASSUME NEW i \in DOMAIN topics'[d], NEW j \in DOMAIN topics'[d], topics'[d][i] = topics'[d][j]
          PROVE  i = j
      <4>1. \A p \in DOMAIN topics[d] : topics[d][p] # c.what
        BY <1>3 DEF Range
      <4>2. \A p, q \in DOMAIN topics[d] : topics[d][p] = topics[d][q] => p = q
        BY <1>2 DEF IInv, SetupGrounded
      <4>3. CASE i = k /\ j # k
        BY <1>6, <3>1, <4>1, <4>3
      <4>4. CASE i # k /\ j = k
        BY <1>6, <3>1, <4>1, <4>4
      <4>5. CASE i # k /\ j # k
        BY <1>6, <3>1, <4>2, <4>5
      <4> QED
        BY <4>3, <4>4, <4>5
    <3>2. \A e \in Chats : e # d => \A i, j \in DOMAIN topics'[e] : topics'[e][i] = topics'[e][j] => i = j
      BY <1>5 DEF IInv, SetupGrounded
    <3> QED
      BY <3>1, <3>2
  <2>3. ASSUME NEW e \in Chats, NEW r, NEW l, MadeFor(e, r, l)
        PROVE  MadeFor(e, r, l)'
    BY <1>7, <2>3 DEF Grows, MadeFor
  <2>4. ASSUME NEW e \in Chats, NEW r \in Roles, NEW l, l = setup[e].topic[r], l # 0
        PROVE  MadeFor(e, r, l)' /\ <<"topic_created", setup[e].asked, r>> \in processed
    BY <2>3, <2>4 DEF IInv, SetupGrounded
  <2>5. \A e \in Chats : setup[e].asked # 0 => setup[e].asked \in DOMAIN given /\ given[setup[e].asked].chat = e
    BY DEF IInv, SetupGrounded
  <2> SUFFICES ASSUME NEW e \in Chats
               PROVE  (/\ setup[e].asked = 0 => topics[e] = << >>
                       /\ setup[e].asked # 0 => setup[e].asked \in DOMAIN given /\ given[setup[e].asked].chat = e
                       /\ \A i, j \in DOMAIN topics[e] : topics[e][i] = topics[e][j] => i = j
                       /\ \A r \in Roles : setup[e].topic[r] # 0 =>
                            /\ MadeFor(e, r, setup[e].topic[r])
                            /\ <<"topic_created", setup[e].asked, r>> \in processed)'
    BY DEF SetupGrounded
  <2> QED
    BY <1>4, <2>1, <2>2, <2>4, <2>5
<1>9. /\ DOMAIN bus = Tasks \cup CommandStreams
      /\ bus'["create"] = Tail(bus["create"])
      /\ Range(Tail(bus["create"])) \subseteq Range(bus["create"])
      /\ bus'["topic_created"] = Append(bus["topic_created"], ack) \/ bus'["topic_created"] = bus["topic_created"]
      /\ \A s \in Tasks \cup CommandStreams : s \notin {"create", "topic_created"} => bus'[s] = bus[s]
  BY <1>1, <1>4, Taken
<1>10. Once(OnItsWay)'
  <2>1. \A s \in CommandStreams \ {"create"} : bus'[s] = bus[s]
    BY <1>9 DEF CommandStreams
  <2> QED
    BY <1>1, <1>4, <1>9, <2>1, OnceTaken DEF IInv
<1>11. Grounded("topic_created", ack)'
  <2>1. ack.n = c.about /\ ack.what = c.what /\ ack.topic = k
    OBVIOUS
  <2>2. MadeFor(d, ack.what, ack.topic)'
    BY <1>6, <2>1 DEF MadeFor
  <2> QED
    BY <1>2, <1>3, <1>4, <2>1, <2>2 DEF Grounded
<1>12. ASSUME NEW m, (m \in Range(Tail(bus["create"])) \/ \E h \in Tasks : m \in Range(todo[h]))
       PROVE  StillToMake(m.stream, m)'
  <2> SUFFICES ASSUME NEW s, s = m.stream, s = "create"
               PROVE  m.what \notin Range(topics'[m.chat])
    BY DEF StillToMake
  <2>1. ~(m.chat = d /\ m.what = c.what)
    <3>1. ~Twins(c, m)
      BY <1>1, <1>12, NoTwinLeft
    <3> QED
      BY <1>2, <3>1 DEF Twins
  <2>2. m.what \notin Range(topics[m.chat]) /\ m.chat \in Chats
    <3>1. CASE m \in Range(Tail(bus["create"]))
      <4>1. m \in Range(bus["create"])
        BY <1>9, <3>1
      <4>2. Grounded("create", m)
        BY <1>1, <4>1 DEF IInv, StreamsGrounded
      <4>3. bus["create"] \in Seq(BotCommands("create"))
        BY <1>1 DEF TypeOK
      <4>4. m \in BotCommands("create")
        BY <4>1, <4>3, HeldType
      <4> QED
        BY <4>2, <4>4 DEF Grounded, BotCommands
    <3>2. ASSUME NEW h \in Tasks, m \in Range(todo[h])
          PROVE  m.what \notin Range(topics[m.chat]) /\ m.chat \in Chats
      <4>1. Grounded(s, m)
        BY <3>2 DEF IInv, StreamsGrounded
      <4>2. todo[h] \in Seq(Owed)
        BY TablesType
      <4>3. m \in Owed
        BY <3>2, <4>2, HeldType
      <4> QED
        BY <4>1, <4>3, OwedType DEF Grounded
    <3> QED
      BY <1>12, <3>1, <3>2
  <2>3. CASE m.chat = d
    BY <1>6, <2>1, <2>2, <2>3
  <2>4. CASE m.chat # d
    BY <1>5, <2>2, <2>4
  <2> QED
    BY <2>3, <2>4
<1>13. \A s \in Tasks \cup CommandStreams : \A m \in Range(bus'[s]) :
         Grounded(s, m)' \/ (m \in Range(bus[s]) /\ StillToMake(s, m)')
  <2>1. ASSUME NEW s \in Tasks \cup CommandStreams, NEW m \in Range(bus'[s])
        PROVE  Grounded(s, m)' \/ (m \in Range(bus[s]) /\ StillToMake(s, m)')
    <3>1. CASE s = "create"
      <4>1. m \in Range(Tail(bus["create"])) /\ m \in Range(bus["create"])
        BY <1>9, <2>1, <3>1
      <4>2. m.stream = "create"
        <5>1. bus["create"] \in Seq(BotCommands("create"))
          BY <1>1 DEF TypeOK
        <5>2. m \in BotCommands("create")
          BY <4>1, <5>1, HeldType
        <5> QED
          BY <5>2 DEF BotCommands
      <4>3. StillToMake(m.stream, m)'
        BY <1>12, <4>1
      <4>4. StillToMake("create", m)'
        BY <4>2, <4>3 DEF StillToMake
      <4> QED
        BY <3>1, <4>1, <4>4
    <3>2. CASE s = "topic_created"
      <4>1. m \in Range(bus["topic_created"]) \/ m = ack
        <5>1. bus["topic_created"] \in Seq(Entries["topic_created"])
          BY <1>1 DEF TypeOK
        <5>2. ack \in Entries["topic_created"]
          <6>1. c.about \in Nat /\ k \in Nat
            BY <1>2, <1>6 DEF BotCommands
          <6> QED
            BY <1>2, <6>1, EntriesAre
        <5>3. Range(Append(bus["topic_created"], ack)) = Range(bus["topic_created"]) \cup {ack}
          BY <5>1, <5>2, AppendHolds
        <5> QED
          BY <1>9, <2>1, <3>2, <5>3
      <4>2. StillToMake(s, m)'
        BY <3>2 DEF StillToMake
      <4> QED
        BY <1>11, <3>2, <4>1, <4>2
    <3>3. CASE s \notin {"create", "topic_created"}
      BY <1>9, <2>1, <3>3 DEF StillToMake
    <3> QED
      BY <3>1, <3>2, <3>3
  <2> QED
    BY <2>1
<1>14. StreamsGrounded'
  <2>1. \A h \in Tasks : \A m \in Range(todo'[h]) : m \in Range(todo[h]) /\ StillToMake(m.stream, m)'
    BY <1>4, <1>12
  <2> QED
    BY <1>4, <1>7, <1>13, <2>1, StreamsKept DEF IInv
<1> QED
  BY <1>8, <1>10, <1>14 DEF IInv

\* One more message or tick, which tells what was written.
LEMMA InvDeed ==
  ASSUME TypeOK, IInv, NEW h \in Tasks, NEW e \in Entries[h], NEW d \in Given,
         given' = Append(given, d),
         bus' = [bus EXCEPT ![h] = Append(@, e)],
         UNCHANGED <<file, holder, tables, todo, telegram, left, hurt>>,
         Grounded(h, e)'
  PROVE  IInv'
<1>1. UNCHANGED <<setup, processed, env, topics, posts, todo>>
  BY DEF tables, telegram
<1>2. Grows
  BY <1>1, GivenGrows DEF Grows
<1>3. SetupGrounded'
  BY <1>1, <1>2, SetupKept DEF IInv
<1>4. DOMAIN bus = Tasks \cup CommandStreams /\ h \notin CommandStreams /\ bus[h] \in Seq(Entries[h])
  BY DEF TypeOK, Tasks, CommandStreams
<1>5. Once(OnItsWay)'
  <2>1. \A s \in CommandStreams : bus'[s] = bus[s]
    BY <1>4
  <2> QED
    BY <1>1, <2>1, OnceQuiet DEF IInv
<1>6. \A s \in Tasks \cup CommandStreams : \A m \in Range(bus'[s]) : Grounded(s, m)' \/ m \in Range(bus[s])
  <2>1. Range(Append(bus[h], e)) = Range(bus[h]) \cup {e}
    BY <1>4, AppendHolds
  <2>2. ASSUME NEW s \in Tasks \cup CommandStreams, NEW m \in Range(bus'[s])
        PROVE  Grounded(s, m)' \/ m \in Range(bus[s])
    <3>1. CASE s = h
      <4>1. m \in Range(bus[h]) \/ m = e
        BY <1>4, <2>1, <2>2, <3>1
      <4> QED
        BY <3>1, <4>1
    <3>2. CASE s # h
      BY <1>4, <2>2, <3>2
    <3> QED
      BY <3>1, <3>2
  <2> QED
    BY <2>2
<1>7. StreamsGrounded'
  BY <1>1, <1>2, <1>6, StreamsKeptTopics DEF IInv
<1> QED
  BY <1>3, <1>5, <1>7 DEF IInv

LEMMA InvWrite ==
  ASSUME TypeOK, IInv, NEW p \in People, NEW c \in Chats, NEW what \in Kinds, Write(p, c, what)
  PROVE  IInv'
<1>1. PICK name \in IF NameOf(p) = {} THEN {NoName} ELSE NameOf(p) :
        /\ given' = Append(given, [what |-> what, chat |-> c, user |-> p, name |-> name,
                                   fit |-> Recognised(p)])
        /\ bus' = [bus EXCEPT !["message"] = Append(@,
                    [n |-> Len(given) + 1, user |-> p, name |-> name, chat |-> c, what |-> what])]
        /\ UNCHANGED <<file, holder, tables, todo, telegram, left, hurt>>
  BY DEF Write
<1> SUFFICES ASSUME NEW n, n = Len(given) + 1,
                    NEW d, d = [what |-> what, chat |-> c, user |-> p, name |-> name, fit |-> Recognised(p)],
                    NEW e, e = [n |-> n, user |-> p, name |-> name, chat |-> c, what |-> what]
             PROVE  IInv'
  OBVIOUS
<1>2. name \in Names \cup {NoName} /\ Recognised(p) \in BOOLEAN
  BY <1>1 DEF NameOf, Recognised
<1>3. n \in Nat /\ given \in Seq(Given)
  BY DEF TypeOK, Given
<1>4. e \in Entries["message"] /\ d \in Given
  BY <1>2, <1>3, EntriesAre DEF Given
<1>5. "message" \in Tasks
  BY DEF Tasks
<1>6. Grounded("message", e)'
  <2>1. n \in DOMAIN given' /\ given'[n] = d
    <3>1. given' = Append(given, d)
      BY <1>1
    <3> QED
      BY <1>3, <1>4, <3>1
  <2>2. e.n = n /\ \A f \in {"user", "name", "chat"} : d[f] = e[f]
    OBVIOUS
  <2> QED
    BY <2>1, <2>2 DEF Grounded
<1> QED
  BY <1>1, <1>4, <1>5, <1>6, InvDeed

LEMMA InvTick ==
  ASSUME TypeOK, IInv, Tick
  PROVE  IInv'
<1> SUFFICES ASSUME NEW d, d = [what |-> "tick", chat |-> env.chat, user |-> Nobody, name |-> NoName,
                                fit |-> env.chat # NoChat],
                    NEW e, e = [n |-> Len(given) + 1, what |-> "tick"]
             PROVE  IInv'
  OBVIOUS
<1>1. e \in Entries["tick"]
  <2>1. Len(given) + 1 \in Nat
    BY DEF TypeOK
  <2> QED
    BY <2>1, EntriesAre
<1>2. d \in Given
  BY TablesType DEF Given, Environment
<1>3. "tick" \in Tasks
  BY DEF Tasks
<1>4. Grounded("tick", e)'
  BY DEF Grounded
<1> QED
  BY <1>1, <1>2, <1>3, <1>4, InvDeed DEF Tick

\* Nothing that the invariant speaks of is changed.
LEMMA InvQuiet ==
  ASSUME TypeOK, IInv, UNCHANGED <<given, setup, processed, env, bus, todo, topics, posts>>
  PROVE  IInv'
<1>1. Grows
  BY GrowsQuiet
<1>2. SetupGrounded'
  BY <1>1, SetupKept DEF IInv
<1>3. Once(OnItsWay)'
  BY OnceQuiet DEF IInv
<1>4. StreamsGrounded'
  BY <1>1, StreamsKeptTopics DEF IInv
<1> QED
  BY <1>2, <1>3, <1>4 DEF IInv

LEMMA InvStep == TypeOK /\ IInv /\ [Next]_vars => IInv'
<1> SUFFICES ASSUME TypeOK, IInv, [Next]_vars
             PROVE  IInv'
  OBVIOUS
<1>1. ASSUME NEW h \in Tasks, Handle(h) PROVE IInv'
  BY <1>1, InvHandle
<1>2. ASSUME NEW h \in Tasks, Publish(h) PROVE IInv'
  BY <1>2, InvPublish
<1>3. CASE CreateForumTopic
  BY <1>3, InvTopic
<1>4. CASE SendMessage
  BY <1>4, InvSend
<1>5. CASE Restart
  BY <1>5, InvRestart
<1>6. ASSUME NEW s \in CommandStreams, TelegramRefuses(s) PROVE IInv'
  BY <1>6, InvRefuses
<1>7. ASSUME NEW p \in People, NEW c \in Chats, NEW what \in Kinds, Write(p, c, what)
      PROVE  IInv'
  BY <1>7, InvWrite
<1>8. CASE Tick
  BY <1>8, InvTick
<1>9. ASSUME NEW n \in Names, EditFile(n) \/ ResolveByHand(n) PROVE IInv'
  BY <1>9, InvQuiet DEF EditFile, ResolveByHand, people, tables, telegram
<1>10. ASSUME NEW p \in People, NEW n \in Names, Rename(p, n) PROVE IInv'
  BY <1>10, InvQuiet DEF Rename, tables, telegram
<1>11. CASE UNCHANGED vars
  BY <1>11, InvQuiet DEF vars
<1> QED
  BY <1>1, <1>2, <1>3, <1>4, <1>5, <1>6, <1>7, <1>8, <1>9, <1>10, <1>11 DEF Next, Progress

-----------------------------------------------------------------------------
(* The theorems.                                                           *)

\* The inductive invariant holds for any groups, people, repetitions and losses.
THEOREM Inductive == Spec => []IInv
<1> QED
  BY TypeCorrect, InvInit, InvStep, PTL DEF Spec

\* However often /setup_team_group is written, handled again or restarted upon, a
\* group gets no role's topic twice and no second block.
THEOREM OnceEachCorrect == Spec => []OnceEach
<1>1. TypeOK /\ IInv => OnceEach
  <2> SUFFICES ASSUME TypeOK, IInv
               PROVE  OnceEach
    OBVIOUS
  <2>1. \A i \in DOMAIN posts : posts[i].stream = "send"
    <3>1. \A i \in DOMAIN posts : posts[i] \in BotCommands("send")
      BY DEF TypeOK
    <3> QED
      BY <3>1 DEF BotCommands
  <2>2. \A i, j \in DOMAIN posts : Twins(posts[i], posts[j]) => i = j
    BY Way DEF IInv, Once
  <2>3. \A i, j \in DOMAIN posts :
          posts[i].what = "block" /\ posts[j].what = "block" /\ posts[i].chat = posts[j].chat => i = j
    BY <2>1, <2>2 DEF Twins
  <2> QED
    BY <2>3 DEF IInv, SetupGrounded, OnceEach
<1> QED
  BY Inductive, TypeCorrect, <1>1, PTL

\* A block that was sent names topics made for those roles in that group, and each
\* digest was sent to the topic made for it.
THEOREM BlockTellsCorrect == Spec => []BlockTells
<1>1. IInv => BlockTells
  BY DEF IInv, StreamsGrounded, Grounded, BlockTells, Range
<1> QED
  BY Inductive, <1>1, PTL

\* The id of an executor changes by hand, or by a message its owner wrote under the
\* listed name in the group that is the team's now.
LEMMA IdsStep ==
  ASSUME TypeOK, IInv, [Next]_vars, NEW n \in Names, exec'[n].id # exec[n].id
  PROVE  \/ ResolveByHand(n)
         \/ \E k \in DOMAIN given :
              given[k].user = exec'[n].id /\ given[k].name = n /\ given[k].chat = env.chat
<1>1. exec \in [Names -> Executor]
  BY TablesType
<1>2. exec' # exec /\ exec' # Synced(exec)
  BY <1>1, SyncedType
<1>3. CASE \E m : ResolveExecutor(m)
  <2>1. PICK m : ResolveExecutor(m)
    BY <1>3
  <2>2. /\ Receive("message", m) /\ "message" \in Tasks
        /\ env.chat = m.chat
        /\ exec' = [exec EXCEPT ![m.name].id = m.user]
    BY <1>2, <2>1 DEF ResolveExecutor, InTeamGroup, Tasks
  <2>3. m.name = n /\ exec'[n].id = m.user
    <3>1. \A x \in Names : [exec[x] EXCEPT !.id = m.user].id = m.user
      BY <1>1 DEF Executor
    <3> QED
      BY <1>1, <2>2, <3>1
  <2>4. Grounded("message", m)
    BY <2>2, Received DEF IInv, StreamsGrounded
  <2>5. /\ m.n \in DOMAIN given
        /\ given[m.n]["user"] = m["user"] /\ given[m.n]["name"] = m["name"] /\ given[m.n]["chat"] = m["chat"]
    BY <2>4 DEF Grounded
  <2> QED
    BY <2>2, <2>3, <2>5
<1>4. ASSUME NEW x \in Names, ResolveByHand(x)
      PROVE  ResolveByHand(n)
  BY <1>1, <1>4 DEF ResolveByHand
<1>5. ASSUME NEW h \in Tasks, Handle(h)
      PROVE  \E m : ResolveExecutor(m)
  BY <1>2, <1>5 DEF Handle, Tasks, HandleMessage, Silent, SetupRefused, SetupTeamGroup, Reply,
                    AttachTeamTopic, SeenBefore, BuildDailyDigest
<1> QED
  BY <1>2, <1>3, <1>4, <1>5
    DEF Next, Progress, Publish, CreateForumTopic, SendMessage, Restart, TelegramRefuses, Write, Tick,
        EditFile, Rename, people, tables, telegram, vars

\* Nobody becomes an executor by writing elsewhere or under another name.
THEOREM IdsEarnedCorrect == Spec => IdsEarned
<1>1. TypeOK /\ IInv /\ [Next]_vars =>
        [\A n \in Names : exec'[n].id # exec[n].id =>
           \/ ResolveByHand(n)
           \/ \E k \in DOMAIN given :
                given[k].user = exec'[n].id /\ given[k].name = n /\ given[k].chat = env.chat]_vars
  BY IdsStep
<1> QED
  BY TypeCorrect, Inductive, <1>1, PTL DEF Spec, IdsEarned

=============================================================================
