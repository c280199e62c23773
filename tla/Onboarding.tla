----------------------------- MODULE Onboarding -----------------------------
(***************************************************************************)
(* How a group becomes a customer, and the row of customers afterwards:    *)
(* the hint when the bot is made an administrator, /setup, the menu        *)
(* message and its acknowledgement, and the commands that rename,          *)
(* deactivate and activate a customer.                                     *)
(*                                                                         *)
(* Three tasks of core read and write the row of a group: the consumers of *)
(* messages, of membership changes and of acknowledgements.  Each reads in *)
(* one step and commits in a later one, writing only the columns it        *)
(* changed, then publishes its commands one by one.  A menu is known by    *)
(* its correlation id, here the number of the /setup that sent it; message *)
(* ids count per group, as Telegram's do.                                  *)
(*                                                                         *)
(* Left out: the names of groups and menus, the missing-rights branch (the *)
(* handler of /setup takes the rights for given), a kick (only logged).    *)
(***************************************************************************)
EXTENDS Naturals, Sequences, Functions

CONSTANTS
  Chats,          \* groups the bot is in
  Forums,         \* those with topics
  Commands,       \* what executors and others write
  MaxGiven,       \* commands written and promotions of the bot
  MaxRedelivery,  \* entries core receives a second time
  MaxFail,        \* commands Telegram refuses, acknowledgements lost
  MaxCrash        \* crashes of core

ASSUME BoundsAssumption ==
  MaxGiven \in Nat /\ MaxRedelivery \in Nat /\ MaxFail \in Nat /\ MaxCrash \in Nat

VARIABLES
  row,        \* customers, one row per group
  processed,  \* core_processed_events
  given,      \* what people did, in order; an event is known by its place
  bus,        \* the streams, oldest entry first
  todo,       \* per task of core: committed, not yet published
  reading,    \* transactions that have read, not committed
  general,    \* Telegram: General renamed, and closed
  shown,      \* Telegram: the bot's messages in each group
  left,       \* what remains of each bound
  hurt        \* events a fault has cost something (history)

vars == <<row, processed, given, bus, todo, reading, general, shown, left, hurt>>

Tasks == {"message", "membership", "sent"}
CommandStreams == {"name", "send", "pin", "close"}
AdminCommands == {"rename", "deactivate", "activate", "list"}

ASSUME GroupsAssumption ==
  Forums \subseteq Chats /\ Commands \subseteq {"setup"} \cup AdminCommands

\* A row with the columns that matter; setup is menu_correlation_id, menu is
\* menu_message_id, 0 stands for NULL.
NoCustomer == [known |-> FALSE, active |-> TRUE, renamed |-> FALSE, setup |-> 0, menu |-> 0]

Init ==
  /\ row = [c \in Chats |-> NoCustomer]
  /\ processed = {}
  /\ given = << >>
  /\ bus = [s \in Tasks \cup CommandStreams |-> << >>]
  /\ todo = [h \in Tasks |-> << >>]
  /\ reading = {}
  /\ general = [c \in Chats |-> [named |-> FALSE, closed |-> FALSE]]
  /\ shown = [c \in Chats |-> << >>]
  /\ left = [redelivery |-> MaxRedelivery, fail |-> MaxFail, crash |-> MaxCrash]
  /\ hurt = {}

-----------------------------------------------------------------------------
(* What the tasks of core share.                                           *)

\* A command: its stream, the group, what a message says, the event it is
\* owed to, the message it is about.
Command(stream, c, what, n, id) ==
  [stream |-> stream, chat |-> c, what |-> what, about |-> n, id |-> id]
Mut_Message(c, what, n) == Command("reply", c, what, n, 0)  \* a stream nobody reads
Message(c, what, n) == Command("send", c, what, n, 0)

Seen(h, m) == <<h, m.n>> \in processed

Idle(h) == todo[h] = << >> /\ \A r \in reading : r.task # h

\* The group whose row a handler reads.  An acknowledgement finds it by the
\* correlation id; one that finds none is not marked.
Mut_RowsFor(h, m) ==  \* any group that waits for its menu
  CASE h = "sent" -> {c \in Chats : row[c].known /\ row[c].menu = 0}
    [] h = "message" -> {m.target}
    [] h = "membership" -> {m.chat}
RowsFor(h, m) ==
  CASE h = "sent" -> {c \in Chats : row[c].known /\ row[c].setup = m.n}
    [] h = "message" -> {m.target}
    [] h = "membership" -> {m.chat}

\* The oldest entry is taken; the stream may hand it out once more.
Take(h) ==
  LET m == Head(bus[h]) IN
  /\ bus[h] # << >>
  /\ Idle(h)
  /\ \/ bus' = [bus EXCEPT ![h] = Tail(@)] /\ UNCHANGED left
     \/ /\ left.redelivery > 0
        /\ left' = [left EXCEPT !.redelivery = @ - 1]
        /\ bus' = [bus EXCEPT ![h] = Append(Tail(@), m)]
  /\ UNCHANGED <<row, processed, given, todo, general, shown, hurt>>

Read(h) ==
  LET m == Head(bus[h]) IN
  /\ Take(h)
  /\ IF RowsFor(h, m) = {}
     THEN UNCHANGED reading
     ELSE \E c \in RowsFor(h, m) :
            reading' = reading \cup
              {[task |-> h, entry |-> m, seen |-> Seen(h, m), chat |-> c, row |-> row[c]]}

\* The transaction of r commits and owes msgs.
Commit(r, msgs) ==
  /\ reading' = reading \ {r}
  /\ todo' = [todo EXCEPT ![r.task] = msgs]
  /\ UNCHANGED <<given, bus, general, shown, left, hurt>>

Mark(r) == processed' = processed \cup {<<r.task, r.entry.n>>}

\* An event processed before changes nothing.  Neither does a command of
\* somebody who is no executor: /setup marks it all the same, the others not.
Ignored(r) ==
  /\ r.seen \/ (r.task = "message" /\ ~r.entry.executor)
  /\ IF r.entry.what = "setup" THEN Mark(r) ELSE UNCHANGED processed
  /\ Commit(r, << >>)
  /\ UNCHANGED row

Accepted(r, what) ==
  /\ r.task = "message" /\ r.entry.what = what
  /\ ~r.seen /\ r.entry.executor
  /\ Mark(r)

-----------------------------------------------------------------------------
(* The handlers.                                                           *)

Mut_Connected(r) == FALSE  \* the check for a menu is gone
Connected(r) == r.row.known /\ r.row.menu # 0

\* A group that has its menu, or no topics, is told so.
SetupRefused(r) ==
  /\ Accepted(r, "setup")
  /\ Connected(r) \/ r.chat \notin Forums
  /\ Commit(r, <<Message(r.chat, "notice", r.entry.n)>>)
  /\ UNCHANGED row

\* The row is made, or its correlation id replaced; the menu is on its way.
Mut_SetupCommands(c, n) == <<Message(c, "menu", n)>>  \* General is forgotten
SetupCommands(c, n) ==
  <<Command("name", c, "none", n, 0), Message(c, "menu", n), Command("close", c, "none", n, 0)>>

Onboard(r) ==
  LET c == r.chat
      n == r.entry.n IN
  /\ Accepted(r, "setup")
  /\ ~Connected(r) /\ c \in Forums
  /\ row' = [row EXCEPT ![c] = IF r.row.known THEN [@ EXCEPT !.setup = n]
                               ELSE [NoCustomer EXCEPT !.known = TRUE, !.setup = n]]
  /\ Commit(r, SetupCommands(c, n))

\* The row an administrator's command leaves; only its own column is written.
Mut_Edited(what, read, now) ==  \* the whole row as it was read
  CASE what = "rename" -> [read EXCEPT !.renamed = TRUE]
    [] what = "deactivate" -> [read EXCEPT !.active = FALSE]
    [] what = "activate" -> [read EXCEPT !.active = TRUE]
    [] what = "list" -> now
Edited(what, read, now) ==
  CASE what = "rename" -> [now EXCEPT !.renamed = TRUE]
    [] what = "deactivate" -> [now EXCEPT !.active = FALSE]
    [] what = "activate" -> [now EXCEPT !.active = TRUE]
    [] what = "list" -> now

\* A command for a group without a row is answered all the same.
Mut_AdminReply(r) ==  \* only one that found its row
  IF r.row.known THEN <<Message(r.entry.chat, "notice", r.entry.n)>> ELSE << >>
AdminReply(r) == <<Message(r.entry.chat, "notice", r.entry.n)>>

Administer(r) ==
  /\ \E what \in AdminCommands :
       /\ Accepted(r, what)
       /\ row' = IF r.row.known
                 THEN [row EXCEPT ![r.chat] = Edited(what, r.row, @)] ELSE row
  /\ Commit(r, AdminReply(r))

\* The bot was made an administrator, or its rights were changed.
Hint(r) ==
  /\ r.task = "membership" /\ ~r.seen
  /\ Mark(r)
  /\ Commit(r, IF Connected(r) THEN << >> ELSE <<Message(r.chat, "hint", r.entry.n)>>)
  /\ UNCHANGED row

\* The acknowledgement of a menu.  The row was found by its correlation id
\* once; before it is looked up again /setup may have put a new one there.
AttachMenu(r) ==
  /\ r.task = "sent" /\ ~r.seen
  /\ Mark(r)
  /\ \/ /\ row' = [row EXCEPT ![r.chat].menu = r.entry.id]
        /\ Commit(r, <<Command("pin", r.entry.chat, "none", r.entry.n, r.entry.id)>>)
     \/ /\ row[r.chat].setup # r.entry.n
        /\ Commit(r, << >>)
        /\ UNCHANGED row

Decide(r) ==
  Ignored(r) \/ SetupRefused(r) \/ Onboard(r) \/ Administer(r) \/ Hint(r) \/ AttachMenu(r)

Publish(h) ==
  LET c == Head(todo[h]) IN
  /\ todo[h] # << >>
  /\ bus' = [bus EXCEPT ![c.stream] = Append(@, c)]
  /\ todo' = [todo EXCEPT ![h] = Tail(@)]
  /\ UNCHANGED <<row, processed, given, reading, general, shown, left, hurt>>

Crash ==
  /\ left.crash > 0
  /\ left' = [left EXCEPT !.crash = @ - 1]
  /\ hurt' = hurt \cup {r.entry.n : r \in reading}
               \cup UNION {{todo[h][i].about : i \in DOMAIN todo[h]} : h \in Tasks}
  /\ todo' = [h \in Tasks |-> << >>]
  /\ reading' = {}
  /\ UNCHANGED <<row, processed, given, bus, general, shown>>

-----------------------------------------------------------------------------
(* gateway-tg and Telegram.                                                *)

core == <<row, processed, given, todo, reading>>

\* The oldest command of stream s is carried out.
Done(s) == bus' = [bus EXCEPT ![s] = Tail(@)] /\ UNCHANGED <<left, hurt>>

Fault(n) ==
  /\ left.fail > 0
  /\ left' = [left EXCEPT !.fail = @ - 1]
  /\ hurt' = hurt \cup {n}

EditGeneral == LET c == Head(bus["name"]) IN
  /\ bus["name"] # << >>
  /\ Done("name")
  /\ general' = [general EXCEPT ![c.chat].named = TRUE]
  /\ UNCHANGED <<core, shown>>

CloseGeneral == LET c == Head(bus["close"]) IN
  /\ bus["close"] # << >>
  /\ Done("close")
  /\ general' = [general EXCEPT ![c.chat].closed = TRUE]
  /\ UNCHANGED <<core, shown>>

\* A message with a correlation id is acknowledged, unless that is lost.
SendMessage ==
  LET c == Head(bus["send"])
      rest == [bus EXCEPT !["send"] = Tail(@)]
      ack == [n |-> c.about, chat |-> c.chat, id |-> Len(shown[c.chat]) + 1, what |-> "ack"]
  IN
  /\ bus["send"] # << >>
  /\ shown' = [shown EXCEPT ![c.chat] =
                 Append(@, [what |-> c.what, about |-> c.about, pinned |-> FALSE])]
  /\ IF c.what = "menu"
     THEN \/ /\ bus' = [rest EXCEPT !["sent"] = Append(@, ack)]
             /\ UNCHANGED <<left, hurt>>
          \/ bus' = rest /\ Fault(c.about)
     ELSE bus' = rest /\ UNCHANGED <<left, hurt>>
  /\ UNCHANGED <<core, general>>

PinMessage == LET c == Head(bus["pin"]) IN
  /\ bus["pin"] # << >>
  /\ Done("pin")
  /\ shown' = [shown EXCEPT ![c.chat][c.id].pinned = TRUE]
  /\ UNCHANGED <<core, general>>

TelegramRefuses(s) ==
  /\ bus[s] # << >>
  /\ Fault(Head(bus[s]).about)
  /\ bus' = [bus EXCEPT ![s] = Tail(@)]
  /\ UNCHANGED <<core, general, shown>>

-----------------------------------------------------------------------------
(* People.                                                                 *)

\* Somebody writes a command, in chat c and about the customer of target.
Write(c, what, target, executor) ==
  /\ Len(given) < MaxGiven
  /\ what = "setup" => target = c
  /\ given' = Append(given, [chat |-> c, what |-> what, target |-> target, executor |-> executor,
                             late |-> what = "setup" /\ row[c].menu # 0])
  /\ bus' = [bus EXCEPT !["message"] = Append(@,
               [n |-> Len(given) + 1, chat |-> c, what |-> what, target |-> target,
                executor |-> executor])]
  /\ UNCHANGED <<row, processed, todo, reading, general, shown, left, hurt>>

\* The bot's rights are given or changed.
Promote(c) ==
  /\ Len(given) < MaxGiven
  /\ given' = Append(given, [chat |-> c, what |-> "promote", target |-> c,
                             executor |-> FALSE, late |-> FALSE])
  /\ bus' = [bus EXCEPT !["membership"] = Append(@,
               [n |-> Len(given) + 1, chat |-> c, what |-> "promote"])]
  /\ UNCHANGED <<row, processed, todo, reading, general, shown, left, hurt>>

-----------------------------------------------------------------------------

Progress ==
  \/ \E h \in Tasks : Read(h) \/ Publish(h)
  \/ \E r \in reading : Decide(r)
  \/ EditGeneral \/ CloseGeneral \/ SendMessage \/ PinMessage

Next ==
  \/ Progress
  \/ Crash
  \/ \E s \in CommandStreams : TelegramRefuses(s)
  \/ \E c, d \in Chats, what \in Commands, e \in BOOLEAN : Write(c, what, d, e)
  \/ \E c \in Chats : Promote(c)

Spec == Init /\ [][Next]_vars

\* The services keep running; each step uses something up, so that none can be
\* put off for ever.
FairSpec == Spec /\ WF_vars(Progress)

-----------------------------------------------------------------------------
(* Properties.                                                             *)

Row == [known : BOOLEAN, active : BOOLEAN, renamed : BOOLEAN, setup : Nat, menu : Nat]
Texts == {"menu", "notice", "hint"}
BotCommands(s) == [stream : {s}, chat : Chats, about : Nat, id : Nat,
                   what : IF s = "send" THEN Texts ELSE {"none"}]
Owed == BotCommands("name") \cup BotCommands("send") \cup BotCommands("pin") \cup BotCommands("close")
Orders == [n : Nat, chat : Chats, what : {"setup"} \cup AdminCommands, target : Chats,
           executor : BOOLEAN]
Promotions == [n : Nat, chat : Chats, what : {"promote"}]
Acks == [n : Nat, chat : Chats, id : Nat, what : {"ack"}]
Entries == [message |-> Orders, membership |-> Promotions, sent |-> Acks]

TypeOK ==
  /\ row \in [Chats -> Row]
  /\ processed \subseteq Tasks \X Nat
  /\ given \in Seq([chat : Chats, what : {"setup", "promote"} \cup AdminCommands,
                    target : Chats, executor : BOOLEAN, late : BOOLEAN])
  /\ DOMAIN bus = Tasks \cup CommandStreams
  /\ \A h \in Tasks : bus[h] \in Seq(Entries[h])
  /\ \A s \in CommandStreams : bus[s] \in Seq(BotCommands(s))
  /\ todo \in [Tasks -> Seq(Owed)]
  /\ \A r \in reading : r \in [task : Tasks, entry : Entries[r.task], seen : BOOLEAN,
                              chat : Chats, row : Row]
  /\ general \in [Chats -> [named : BOOLEAN, closed : BOOLEAN]]
  /\ shown \in [Chats -> Seq([what : Texts, about : Nat, pinned : BOOLEAN])]
  /\ left \in [redelivery : Nat, fail : Nat, crash : Nat]
  /\ hurt \subseteq Nat

\* The message recorded as the menu of a group is a menu sent to that very
\* group, and nothing else is ever pinned: message ids of two groups that are
\* set up at the same time are not mixed up.
MenuIsOurs == \A c \in Chats :
  /\ row[c].menu # 0 =>
       row[c].menu \in DOMAIN shown[c] /\ shown[c][row[c].menu].what = "menu"
  /\ \A i \in DOMAIN shown[c] : shown[c][i].pinned => shown[c][i].what = "menu"

\* Spec 005: a /setup written when the group has its menu sends no other one,
\* however late it is handled and however often it is delivered.
NoSecondMenu == \A c \in Chats : \A i \in DOMAIN shown[c] :
  shown[c][i].what = "menu" => ~given[shown[c][i].about].late

\* A menu once recorded is never lost again: the commands of administrators and
\* a /setup that was read before leave it alone.
MenuKept == [][\A c \in Chats : row[c].menu # 0 => row'[c].menu # 0]_row

\* What the three properties above rest on, by induction.
AskedBy(c, n) ==
  n \in DOMAIN given /\ given[n].what = "setup" /\ given[n].chat = c /\ ~given[n].late
IsMenu(c, i) == i \in DOMAIN shown[c] /\ shown[c][i].what = "menu"

\* An entry of stream s tells the truth about what was written, asked and sent.
Grounded(s, m) ==
  /\ s = "message" => /\ m.n \in DOMAIN given
                      /\ \A f \in {"chat", "what", "target"} : given[m.n][f] = m[f]
  /\ s = "sent" => AskedBy(m.chat, m.n) /\ IsMenu(m.chat, m.id)
  /\ s = "send" /\ m.what = "menu" => AskedBy(m.chat, m.about)
  /\ s = "pin" => IsMenu(m.chat, m.id)

StreamsGrounded ==
  /\ \A s \in Tasks \cup CommandStreams : \A m \in Range(bus[s]) : Grounded(s, m)
  /\ \A h \in Tasks : \A m \in Range(todo[h]) : Grounded(m.stream, m)

RowsGrounded == \A c \in Chats :
  /\ row[c].setup # 0 => AskedBy(c, row[c].setup)
  /\ row[c].menu # 0 => row[c].known /\ IsMenu(c, row[c].menu)

ShownGrounded == \A c \in Chats : \A i \in DOMAIN shown[c] :
  /\ shown[c][i].what = "menu" => AskedBy(c, shown[c][i].about)
  /\ shown[c][i].pinned => shown[c][i].what = "menu"

GivenGrounded == \A n \in DOMAIN given :
  /\ given[n].what = "setup" => given[n].target = given[n].chat
  /\ given[n].late => given[n].what = "setup" /\ row[given[n].chat].menu # 0

\* What a transaction has read of its row still holds where it decides on it.
ReadingsGrounded == \A r \in reading :
  /\ Grounded(r.task, r.entry)
  /\ \A q \in reading : q.task = r.task => q = r
  /\ r.task = "sent" => r.chat = r.entry.chat /\ row[r.chat].known
  /\ r.task = "message" =>
       /\ r.chat = r.entry.target
       /\ r.row.known = row[r.chat].known
       /\ given[r.entry.n].late => r.row.known /\ r.row.menu # 0

\* The inductive invariant: a menu is always traced to a /setup of its own group
\* that was written before the group had one, wherever it is on its way, and
\* only the task of messages makes rows.
IInv == StreamsGrounded /\ RowsGrounded /\ ShownGrounded /\ GivenGrounded /\ ReadingsGrounded

\* A group is set up when its menu is recorded and pinned, General renamed and
\* closed.
SetUp(c) ==
  /\ general[c].named /\ general[c].closed
  /\ row[c].menu # 0 /\ shown[c][row[c].menu].pinned

\* A group that has accepted a /setup ends up set up, whatever became of
\* earlier attempts, unless a fault hit the last one.
SetupHeals ==
  <>[](\A c \in Chats : row[c].setup # 0 => SetUp(c) \/ row[c].setup \in hurt)

\* SPEC 3.7: a command of an executor is answered in the chat it came from.
Answered(n) == \E i \in DOMAIN shown[given[n].chat] : shown[given[n].chat][i].about = n
CommandsAnswered ==
  <>[](\A n \in DOMAIN given : given[n].executor => Answered(n) \/ n \in hurt)

=============================================================================
