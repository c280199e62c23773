----------------------------- MODULE TeamGroup ------------------------------
(***************************************************************************)
(* The team's own group: the table of executors and how their Telegram ids *)
(* become known, which handler a message written in a group reaches,       *)
(* /setup_team_group with its four topics, the environment the operator    *)
(* gives core, and the daily digest that is sent by it.                    *)
(*                                                                         *)
(* The handlers of core are atomic here: the message consumer is the only  *)
(* one to write executors and to make rows of team_group_topic_setup, the  *)
(* consumer of created topics the only one to complete them.  Commands are *)
(* published one by one after the commit.  A topic's correlation id is the *)
(* number of the /setup_team_group together with the role.                 *)
(*                                                                         *)
(* Left out: full names and leads, an executors.yaml that is missing or    *)
(* does not parse, two placeholder ids that collide.                       *)
(***************************************************************************)
EXTENDS Naturals, Sequences, Functions

CONSTANTS
  People,         \* whoever writes in the groups
  Nobody,         \* no person: the placeholder id of an executor not seen yet
  Names,          \* Telegram usernames
  NoName,         \* a person without one
  FirstHolder,    \* who has which username to begin with
  Listed,         \* usernames in executors.yaml to begin with
  Chats,          \* groups the bot is in
  Forums,         \* those with topics
  NoChat,         \* EXECUTOR_GROUP_CHAT_ID is not set
  Kinds,          \* what is written
  MaxGiven,       \* messages written and ticks of the scheduler
  MaxTrouble,     \* entries received a second time, commands refused, acknowledgements
                  \* lost, changes of executors.yaml and of usernames, together
  MaxRestart      \* restarts of core, after a crash or for a new environment

Roles == {"incoming", "escalations", "digest", "logs"}
TopicOrder == <<"incoming", "escalations", "digest", "logs">>
EnvRoles == Roles \ {"escalations"}
Replied == {"print_topic_id", "reload_executors", "list_customers"}

ASSUME NamesAssumption ==
  /\ Nobody \notin People /\ NoName \notin Names /\ NoChat \notin Chats /\ Listed \subseteq Names
  /\ FirstHolder \in [Names -> People \cup {Nobody}]
  /\ \A m, n \in Names : FirstHolder[m] = FirstHolder[n] /\ FirstHolder[m] # Nobody => m = n
ASSUME GroupsAssumption ==
  /\ Forums \subseteq Chats
  /\ Kinds \subseteq {"talk", "setup_team_group"} \cup Replied
ASSUME BoundsAssumption ==
  MaxGiven \in Nat /\ MaxTrouble \in Nat /\ MaxRestart \in Nat

VARIABLES
  file,       \* executors.yaml
  holder,     \* Telegram: who has a username
  exec,       \* executors, a row per username
  env,        \* EXECUTOR_GROUP_*, as core was started with them
  setup,      \* team_group_topic_setup, the rows of a chat together
  processed,  \* core_processed_events
  given,      \* messages and ticks, in order; an event is known by its place
  bus,        \* the streams, oldest entry first
  todo,       \* per task of core: committed, not yet published
  topics,     \* Telegram: the topics made for the team in each group
  posts,      \* Telegram: what the bot has sent
  left,       \* what remains of each bound
  hurt        \* events a fault has cost something (history)

vars == <<file, holder, exec, env, setup, processed, given, bus, todo,
          topics, posts, left, hurt>>
people == <<file, holder, given>>
tables == <<exec, env, setup, processed>>
telegram == <<topics, posts>>

Tasks == {"message", "topic_created", "tick"}
CommandStreams == {"create", "send"}
NoTopics == [r \in EnvRoles |-> 0]

\* upsert_from_yaml and deactivate_not_in: a row for every name in the file,
\* active; the other rows stay, inactive.  Ids are not touched.
Synced(rows) == [n \in Names |->
  IF n \in file THEN [rows[n] EXCEPT !.known = TRUE, !.active = TRUE]
                ELSE [rows[n] EXCEPT !.active = FALSE]]

Init ==
  /\ file = Listed
  /\ holder = FirstHolder
  /\ exec = Synced([n \in Names |-> [known |-> FALSE, id |-> Nobody, active |-> FALSE]])
  /\ env = [chat |-> NoChat, topic |-> NoTopics]
  /\ setup = [c \in Chats |-> [asked |-> 0, topic |-> [r \in Roles |-> 0], finished |-> FALSE]]
  /\ processed = {}
  /\ given = << >>
  /\ bus = [s \in Tasks \cup CommandStreams |-> << >>]
  /\ todo = [h \in Tasks |-> << >>]
  /\ topics = [c \in Chats |-> << >>]
  /\ posts = << >>
  /\ left = [trouble |-> MaxTrouble, restart |-> MaxRestart]
  /\ hurt = {}

-----------------------------------------------------------------------------
(* What the handlers share.                                                *)

Create(c, role, n) == [stream |-> "create", chat |-> c, what |-> role, about |-> n, topic |-> NoTopics]
Send(c, what, n, tops) == [stream |-> "send", chat |-> c, what |-> what, about |-> n, topic |-> tops]
Mut_Answer(m) == [Send(m.chat, "answer", m.n, NoTopics) EXCEPT !.stream = "reply"]  \* nobody reads it
Answer(m) == Send(m.chat, "answer", m.n, NoTopics)

EventId(h, m) == <<h, m.n, m.what>>
Mut_Seen(h, m) == FALSE  \* no idempotency check
Seen(h, m) == EventId(h, m) \in processed

Trouble == left.trouble > 0 /\ left' = [left EXCEPT !.trouble = @ - 1]

\* Task h takes its oldest entry; the stream may hand it out once more.
Receive(h, m) ==
  /\ bus[h] # << >> /\ m = Head(bus[h])
  /\ todo[h] = << >>
  /\ \/ bus' = [bus EXCEPT ![h] = Tail(@)] /\ UNCHANGED left
     \/ Trouble /\ bus' = [bus EXCEPT ![h] = Append(Tail(@), m)]
  /\ UNCHANGED <<people, env, telegram, hurt>>

\* The event is marked, and msgs are owed.
Commit(h, m, msgs) ==
  /\ processed' = processed \cup {EventId(h, m)}
  /\ todo' = [todo EXCEPT ![h] = msgs]

-----------------------------------------------------------------------------
(* Messages: on_tg_message, branch by branch.                              *)

Recognised(p) == \E n \in Names : exec[n].known /\ exec[n].id = p /\ exec[n].active

\* Branch 0 takes every message in the configured group whose author has a
\* username, whatever it says.
Mut_InTeamGroup(c, name) == env.chat # NoChat /\ name # NoName  \* any group will do
InTeamGroup(c, name) == env.chat = c /\ name # NoName

\* resolve_user_id.  The id is unique: when another row still has it the
\* transaction fails, and nothing is written.
ResolveExecutor(m) ==
  /\ Receive("message", m)
  /\ InTeamGroup(m.chat, m.name)
  /\ exec' = IF exec[m.name].known /\ \A n \in Names : exec[n].id # m.user
             THEN [exec EXCEPT ![m.name].id = m.user] ELSE exec
  /\ UNCHANGED <<setup, processed, todo>>

\* A command that reaches its handler, and is neither a stranger's nor known.
Accepted(m, what) ==
  /\ Receive("message", m)
  /\ ~InTeamGroup(m.chat, m.name)
  /\ m.what = what
  /\ Recognised(m.user)
  /\ ~Seen("message", m)

\* No command, a stranger's, or one known already: nothing happens.  Neither
\* does anything when the group has its finished rows: UNIQUE (chat, role)
\* makes the transaction fail.
Silent(m) ==
  /\ Receive("message", m)
  /\ ~InTeamGroup(m.chat, m.name)
  /\ \/ m.what = "talk"
     \/ ~Recognised(m.user)
     \/ Seen("message", m)
     \/ m.what = "setup_team_group" /\ m.chat \in Forums /\ env.chat \in {NoChat, m.chat}
          /\ setup[m.chat].finished
  /\ UNCHANGED <<exec, setup, processed, todo>>

\* Another group is configured, no topics here, or topics still under way.
SetupRefused(m) ==
  /\ Accepted(m, "setup_team_group")
  /\ \/ env.chat \notin {NoChat, m.chat}
     \/ m.chat \notin Forums
     \/ setup[m.chat].asked # 0 /\ ~setup[m.chat].finished
  /\ Commit("message", m, <<Answer(m)>>)
  /\ UNCHANGED <<exec, setup>>

Mut_Unset(c) == TRUE  \* rows of an earlier attempt are not looked at
Unset(c) == setup[c].asked = 0

SetupTeamGroup(m) ==
  /\ Accepted(m, "setup_team_group")
  /\ env.chat \in {NoChat, m.chat} /\ m.chat \in Forums
  /\ Unset(m.chat)
  /\ setup' = [setup EXCEPT ![m.chat].asked = m.n]
  /\ Commit("message", m, [i \in 1..4 |-> Create(m.chat, TopicOrder[i], m.n)])
  /\ UNCHANGED exec

\* The commands that are simply carried out and answered: /print_topic_id,
\* /reload_executors, and those about customers, whose effect is in Onboarding.
Reply(m) ==
  /\ \E what \in Replied : Accepted(m, what)
  /\ exec' = IF m.what = "reload_executors" THEN Synced(exec) ELSE exec
  /\ Commit("message", m, <<Answer(m)>>)
  /\ UNCHANGED setup

HandleMessage(m) ==
  \/ ResolveExecutor(m) \/ Silent(m) \/ SetupRefused(m) \/ SetupTeamGroup(m)
  \/ Reply(m)

-----------------------------------------------------------------------------
(* Topics, ticks, and the rest of core.                                    *)

\* The row the acknowledgement is for, found by its correlation id.
Mut_RowsOf(m) == {c \in Chats : setup[c].asked # 0}  \* any row of that role
RowsOf(m) == {c \in Chats : setup[c].asked = m.n}

\* With the fourth topic the block for the environment is due.
Mut_Complete(before, after) == \A r \in Roles : before.topic[r] # 0  \* listed too early
Complete(before, after) == \A r \in Roles : after.topic[r] # 0

AttachTeamTopic(m) == \E c \in RowsOf(m) :
  LET rows == [setup[c] EXCEPT !.topic[m.what] = m.topic]
      complete == Complete(setup[c], rows) IN
  /\ Receive("topic_created", m)
  /\ ~Seen("topic_created", m)
  /\ setup' = [setup EXCEPT ![c] = [rows EXCEPT !.finished = @ \/ complete]]
  /\ Commit("topic_created", m,
       IF complete THEN <<Send(c, "block", m.n, [r \in EnvRoles |-> rows.topic[r]])>> ELSE << >>)
  /\ UNCHANGED exec

Configured == env.chat # NoChat

\* A tick with nowhere to send the digest is marked as processed all the same.
BuildDailyDigest(m) ==
  /\ Receive("tick", m)
  /\ ~Seen("tick", m)
  /\ Commit("tick", m, IF Configured THEN <<Send(env.chat, "digest", m.n, env.topic)>>
                       ELSE << >>)
  /\ UNCHANGED <<exec, setup>>

SeenBefore(h, m) ==
  /\ Receive(h, m)
  /\ Seen(h, m)
  /\ UNCHANGED <<exec, setup, processed, todo>>

Publish(h) ==
  LET c == Head(todo[h]) IN
  /\ todo[h] # << >>
  /\ bus' = [bus EXCEPT ![c.stream] = Append(@, c)]
  /\ todo' = [todo EXCEPT ![h] = Tail(@)]
  /\ UNCHANGED <<people, tables, telegram, left, hurt>>

\* core stops, and starts with the environment it had or with one of the
\* blocks it has sent; executors.yaml is read before the consumers start.
Restart ==
  /\ left.restart > 0
  /\ left' = [left EXCEPT !.restart = @ - 1]
  /\ env' \in {env} \cup {[chat |-> posts[i].chat, topic |-> posts[i].topic] :
                          i \in {j \in DOMAIN posts : posts[j].what = "block"}}
  /\ exec' = Synced(exec)
  /\ hurt' = hurt \cup UNION {{todo[h][i].about : i \in DOMAIN todo[h]} : h \in Tasks}
  /\ todo' = [h \in Tasks |-> << >>]
  /\ UNCHANGED <<people, setup, processed, bus, telegram>>

-----------------------------------------------------------------------------
(* gateway-tg and Telegram.                                                *)

Fault(n) == Trouble /\ hurt' = hurt \cup {n}

\* The topic is made and acknowledged, unless that is lost.
CreateForumTopic ==
  LET c == Head(bus["create"])
      rest == [bus EXCEPT !["create"] = Tail(@)]
      ack == [n |-> c.about, what |-> c.what, topic |-> Len(topics[c.chat]) + 1]
  IN
  /\ bus["create"] # << >>
  /\ topics' = [topics EXCEPT ![c.chat] = Append(@, c.what)]
  /\ \/ bus' = [rest EXCEPT !["topic_created"] = Append(@, ack)] /\ UNCHANGED <<left, hurt>>
     \/ bus' = rest /\ Fault(c.about)
  /\ UNCHANGED <<people, tables, todo, posts>>

SendMessage ==
  /\ bus["send"] # << >>
  /\ posts' = Append(posts, Head(bus["send"]))
  /\ bus' = [bus EXCEPT !["send"] = Tail(@)]
  /\ UNCHANGED <<people, tables, todo, topics, left, hurt>>

TelegramRefuses(s) ==
  /\ bus[s] # << >>
  /\ Fault(Head(bus[s]).about)
  /\ bus' = [bus EXCEPT ![s] = Tail(@)]
  /\ UNCHANGED <<people, tables, todo, telegram>>

-----------------------------------------------------------------------------
(* People, the operator and the scheduler.                                 *)

NameOf(p) == {n \in Names : holder[n] = p}

\* p writes a message in c, under the username p has now, if any.
Write(p, c, what) == \E name \in IF NameOf(p) = {} THEN {NoName} ELSE NameOf(p) :
  /\ Len(given) < MaxGiven
  /\ given' = Append(given, [what |-> what, chat |-> c, user |-> p, name |-> name,
                              fit |-> Recognised(p)])
  /\ bus' = [bus EXCEPT !["message"] = Append(@,
               [n |-> Len(given) + 1, user |-> p, name |-> name, chat |-> c, what |-> what])]
  /\ UNCHANGED <<file, holder, tables, todo, telegram, left, hurt>>

\* The scheduler's job fires; while the scheduler is down it does not.
Tick ==
  /\ Len(given) < MaxGiven
  /\ given' = Append(given, [what |-> "tick", chat |-> env.chat, user |-> Nobody, name |-> NoName,
                              fit |-> env.chat # NoChat])
  /\ bus' = [bus EXCEPT !["tick"] = Append(@, [n |-> Len(given) + 1, what |-> "tick"])]
  /\ UNCHANGED <<file, holder, tables, todo, telegram, left, hurt>>

\* executors.yaml gains or loses a name; it is read at the next occasion.
EditFile(n) ==
  /\ Trouble
  /\ file' = IF n \in file THEN file \ {n} ELSE file \cup {n}
  /\ UNCHANGED <<holder, given, tables, bus, todo, telegram, hurt>>

\* p takes a username nobody has, and gives up the one p had.
Rename(p, n) ==
  /\ Trouble
  /\ holder[n] = Nobody
  /\ holder' = [m \in Names |-> IF m = n THEN p ELSE IF holder[m] = p THEN Nobody ELSE holder[m]]
  /\ UNCHANGED <<file, given, tables, bus, todo, telegram, hurt>>

\* The first executor's id is set in the database by hand (docs/SMOKE.md:107).
ResolveByHand(n) ==
  /\ exec[n].known /\ exec[n].id = Nobody
  /\ holder[n] # Nobody
  /\ \A m \in Names : exec[m].id # holder[n]
  /\ exec' = [exec EXCEPT ![n].id = holder[n]]
  /\ UNCHANGED <<people, env, setup, processed, bus, todo, telegram, left, hurt>>

-----------------------------------------------------------------------------

Handle(h) == LET m == Head(bus[h]) IN
  /\ bus[h] # << >>
  /\ CASE h = "message" -> HandleMessage(m)
       [] h = "topic_created" -> AttachTeamTopic(m) \/ SeenBefore(h, m)
       [] h = "tick" -> BuildDailyDigest(m) \/ SeenBefore(h, m)

Progress ==
  \/ \E h \in Tasks : Handle(h) \/ Publish(h)
  \/ CreateForumTopic \/ SendMessage

Next ==
  \/ Progress
  \/ Restart
  \/ \E s \in CommandStreams : TelegramRefuses(s)
  \/ \E p \in People, c \in Chats, what \in Kinds : Write(p, c, what)
  \/ Tick
  \/ \E n \in Names : EditFile(n) \/ ResolveByHand(n)
  \/ \E p \in People, n \in Names : Rename(p, n)

Spec == Init /\ [][Next]_vars

\* The services keep running; each step uses something up, so that none can be
\* put off for ever.
FairSpec == Spec /\ WF_vars(Progress)

-----------------------------------------------------------------------------
(* Properties.                                                             *)

TopicMap == [EnvRoles -> Nat]
BotCommands(s) == [stream : {s}, chat : Chats, about : Nat, topic : TopicMap,
                   what : IF s = "create" THEN Roles ELSE {"answer", "block", "digest"}]
Entries == [message |-> [n : Nat, user : People, name : Names \cup {NoName}, chat : Chats, what : Kinds],
            topic_created |-> [n : Nat, what : Roles, topic : Nat],
            tick |-> [n : Nat, what : {"tick"}]]

TypeOK ==
  /\ file \subseteq Names
  /\ holder \in [Names -> People \cup {Nobody}]
  /\ exec \in [Names -> [known : BOOLEAN, id : People \cup {Nobody}, active : BOOLEAN]]
  /\ env \in [chat : Chats \cup {NoChat}, topic : TopicMap]
  /\ setup \in [Chats -> [asked : Nat, topic : [Roles -> Nat], finished : BOOLEAN]]
  /\ processed \subseteq Tasks \X Nat \X (Kinds \cup Roles \cup {"tick"})
  /\ given \in Seq([what : Kinds \cup {"tick"}, chat : Chats \cup {NoChat},
                    user : People \cup {Nobody}, name : Names \cup {NoName}, fit : BOOLEAN])
  /\ DOMAIN bus = Tasks \cup CommandStreams
  /\ \A h \in Tasks : bus[h] \in Seq(Entries[h])
  /\ \A s \in CommandStreams : bus[s] \in Seq(BotCommands(s))
  /\ todo \in [Tasks -> Seq(BotCommands("create") \cup BotCommands("send"))]
  /\ topics \in [Chats -> Seq(Roles)]
  /\ posts \in Seq(BotCommands("send"))
  /\ left \in [trouble : Nat, restart : Nat]
  /\ hurt \subseteq Nat

\* core learns an executor's id only from a message its owner wrote, under the
\* listed username, in the group that is the team's when the message is handled:
\* nobody becomes an executor by writing elsewhere or under another name.
IdsEarned == [][\A n \in Names : exec'[n].id # exec[n].id =>
  \/ ResolveByHand(n)
  \/ \E k \in DOMAIN given :
       given[k].user = exec'[n].id /\ given[k].name = n /\ given[k].chat = env.chat]_vars

\* A group gets one topic for each role and one block, whatever is repeated,
\* delivered twice or lost on the way.
OnceEach == \A c \in Chats :
  /\ \A i, j \in DOMAIN topics[c] : topics[c][i] = topics[c][j] => i = j
  /\ \A i, j \in DOMAIN posts :
       posts[i].what = "block" /\ posts[j].what = "block" /\ posts[i].chat = posts[j].chat => i = j

MadeFor(c, role, k) == k \in DOMAIN topics[c] /\ topics[c][k] = role

\* The block names the topics that were made for those roles in that group, and
\* every digest sent since lands in the topic made for it.
Tells(m) ==
  /\ m.what = "block" => \A r \in EnvRoles : MadeFor(m.chat, r, m.topic[r])
  /\ m.stream = "send" /\ m.what = "digest" => MadeFor(m.chat, "digest", m.topic["digest"])
BlockTells == \A i \in DOMAIN posts : Tells(posts[i])

\* What the properties above rest on, by induction.  An entry of stream s tells
\* the truth about what was written, asked for and made.
Grounded(s, m) ==
  /\ s = "message" => /\ m.n \in DOMAIN given
                      /\ \A f \in {"user", "name", "chat"} : given[m.n][f] = m[f]
  /\ s = "topic_created" => \E c \in Chats : m.n # 0 /\ setup[c].asked = m.n /\ MadeFor(c, m.what, m.topic)
  /\ s = "create" => /\ m.about # 0 /\ setup[m.chat].asked = m.about
                     /\ m.what \notin Range(topics[m.chat])
  /\ s = "send" => Tells(m) /\ (m.what = "block" => \A r \in Roles : setup[m.chat].topic[r] # 0)

StreamsGrounded ==
  /\ \A s \in Tasks \cup CommandStreams : \A m \in Range(bus[s]) : Grounded(s, m)
  /\ \A h \in Tasks : \A m \in Range(todo[h]) : Grounded(m.stream, m)
  /\ \A m \in Range(posts) : Grounded("send", m)
  /\ env.chat # NoChat => MadeFor(env.chat, "digest", env.topic["digest"])

\* A topic recorded is the one made, and its acknowledgement is marked.
SetupGrounded == \A c \in Chats :
  /\ setup[c].asked = 0 => topics[c] = << >>
  /\ setup[c].asked # 0 => setup[c].asked \in DOMAIN given /\ given[setup[c].asked].chat = c
  /\ \A i, j \in DOMAIN topics[c] : topics[c][i] = topics[c][j] => i = j
  /\ \A r \in Roles : setup[c].topic[r] # 0 =>
       MadeFor(c, r, setup[c].topic[r]) /\ <<"topic_created", setup[c].asked, r>> \in processed

\* No topic of a group and no block is on its way, or sent, twice.
Twins(x, y) == x.stream = y.stream /\ x.chat = y.chat /\ x.what = y.what
               /\ (x.stream = "create" \/ x.what = "block")
Once(F) == \A k, l \in DOMAIN F : \A i \in DOMAIN F[k], j \in DOMAIN F[l] :
  Twins(F[k][i], F[l][j]) => k = l /\ i = j
OnItsWay == [k \in Tasks \cup CommandStreams \cup {"posts"} |->
  IF k \in Tasks THEN todo[k] ELSE IF k \in CommandStreams THEN bus[k] ELSE posts]

\* The inductive invariant.
IInv == StreamsGrounded /\ SetupGrounded /\ Once(OnItsWay)

Posted(n, what) == \E i \in DOMAIN posts : posts[i].what = what /\ posts[i].about = n

\* A /setup_team_group that was accepted ends in the block, unless a fault
\* cost it a topic or an answer.
SetupEnds == <>[](\A c \in Chats :
  setup[c].asked # 0 => Posted(setup[c].asked, "block") \/ setup[c].asked \in hurt)

\* Every tick that finds the group configured ends in a digest, unless a fault
\* cost it; and no tick in two, though its entry may come again.
Digests(n) == {i \in DOMAIN posts : posts[i].what = "digest" /\ posts[i].about = n}
TicksReported == <>[](\A n \in DOMAIN given :
  /\ \A i, j \in Digests(n) : i = j
  /\ given[n].what = "tick" /\ given[n].fit => Digests(n) # {} \/ n \in hurt)

\* SPEC 3.7: the commands of executors work in any chat with the bot and are
\* answered there.  (/setup_team_group has properties of its own.)
Quiet == (\A s \in DOMAIN bus : bus[s] = << >>) /\ (\A h \in Tasks : todo[h] = << >>)
CommandsAnswered == Quiet => \A n \in DOMAIN given :
  given[n].fit /\ given[n].what \in Replied => Posted(n, "answer") \/ n \in hurt

=============================================================================
