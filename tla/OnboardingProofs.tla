-------------------------- MODULE OnboardingProofs --------------------------
(***************************************************************************)
(* Theorems about Onboarding, for any groups, commands and faults.         *)
(***************************************************************************)
EXTENDS Onboarding, StreamLemmas

Reading(h) == [task : {h}, entry : Entries[h], seen : BOOLEAN, chat : Chats, row : Row]
Given == [chat : Chats, what : {"setup", "promote"} \cup AdminCommands,
          target : Chats, executor : BOOLEAN, late : BOOLEAN]
Bound == [redelivery : Nat, fail : Nat, crash : Nat]
Shown == [what : Texts, about : Nat, pinned : BOOLEAN]

\* What the streams carry, one kind of entry in each.
Carried(s) == IF s \in Tasks THEN Entries[s] ELSE BotCommands(s)

-----------------------------------------------------------------------------
(* Types.                                                                  *)

LEMMA NoRowType ==
  NoCustomer \in Row
BY DEF NoCustomer, Row

LEMMA EntriesAre ==
  /\ Entries["message"] = Orders
  /\ Entries["membership"] = Promotions
  /\ Entries["sent"] = Acks
  /\ \A h \in Tasks : \A m \in Entries[h] : m.n \in Nat /\ m.chat \in Chats
<1>1. /\ Entries["message"] = Orders
      /\ Entries["membership"] = Promotions
      /\ Entries["sent"] = Acks
  BY DEF Entries
<1>2. /\ \A m \in Orders : m.n \in Nat /\ m.chat \in Chats
      /\ \A m \in Promotions : m.n \in Nat /\ m.chat \in Chats
      /\ \A m \in Acks : m.n \in Nat /\ m.chat \in Chats
  BY DEF Orders, Promotions, Acks
<1> QED
  BY <1>1, <1>2 DEF Tasks

LEMMA BusType ==
  ASSUME TypeOK, NEW s \in Tasks \cup CommandStreams
  PROVE  bus[s] \in Seq(Carried(s))
<1>1. Tasks \cap CommandStreams = {}
  BY DEF Tasks, CommandStreams
<1> QED
  BY <1>1 DEF TypeOK, Carried

\* The conjuncts of TypeOK about the bus.
BusOK ==
  /\ DOMAIN bus = Tasks \cup CommandStreams
  /\ \A h \in Tasks : bus[h] \in Seq(Entries[h])
  /\ \A s \in CommandStreams : bus[s] \in Seq(BotCommands(s))

LEMMA BusSplit ==
  ASSUME DOMAIN bus' = Tasks \cup CommandStreams,
         \A s \in Tasks \cup CommandStreams : bus'[s] \in Seq(Carried(s))
  PROVE  BusOK'
<1>1. Tasks \cap CommandStreams = {}
  BY DEF Tasks, CommandStreams
<1> QED
  BY <1>1 DEF BusOK, Carried

LEMMA BusTake ==
  ASSUME TypeOK, NEW s \in Tasks \cup CommandStreams, bus[s] # << >>,
         bus' = [bus EXCEPT ![s] = Tail(@)]
  PROVE  BusOK'
<1>1. bus[s] \in Seq(Carried(s)) /\ Tail(bus[s]) \in Seq(Carried(s))
  BY BusType, TailHolds
<1>2. DOMAIN bus = Tasks \cup CommandStreams
  BY DEF TypeOK
<1>3. \A x \in Tasks \cup CommandStreams : bus'[x] \in Seq(Carried(x))
  BY <1>1, <1>2, BusType
<1>4. DOMAIN bus' = Tasks \cup CommandStreams
  BY <1>2
<1> QED
  BY <1>3, <1>4, BusSplit

LEMMA BusPut ==
  ASSUME TypeOK, NEW s \in Tasks \cup CommandStreams, NEW e \in Carried(s),
         bus' = [bus EXCEPT ![s] = Append(@, e)]
  PROVE  BusOK'
<1>1. Append(bus[s], e) \in Seq(Carried(s))
  BY BusType, AppendHolds
<1>2. DOMAIN bus = Tasks \cup CommandStreams
  BY DEF TypeOK
<1>3. \A x \in Tasks \cup CommandStreams : bus'[x] \in Seq(Carried(x))
  BY <1>1, <1>2, BusType
<1>4. DOMAIN bus' = Tasks \cup CommandStreams
  BY <1>2
<1> QED
  BY <1>3, <1>4, BusSplit

LEMMA TypeInit == Init => TypeOK
<1> SUFFICES ASSUME Init
             PROVE  TypeOK
  OBVIOUS
<1>1. row \in [Chats -> Row]
  BY NoRowType DEF Init
<1>2. /\ DOMAIN bus = Tasks \cup CommandStreams
      /\ \A h \in Tasks : bus[h] \in Seq(Entries[h])
      /\ \A s \in CommandStreams : bus[s] \in Seq(BotCommands(s))
  BY DEF Init
<1>3. /\ todo \in [Tasks -> Seq(Owed)] /\ reading = {} /\ processed = {} /\ hurt = {}
      /\ given \in Seq(Given)
      /\ shown \in [Chats -> Seq(Shown)]
      /\ general \in [Chats -> [named : BOOLEAN, closed : BOOLEAN]]
  BY DEF Init
<1>4. left \in Bound
  BY BoundsAssumption DEF Init, Bound
<1> QED
  BY <1>1, <1>2, <1>3, <1>4 DEF TypeOK, Bound, Given, Shown

LEMMA TypeTake ==
  ASSUME TypeOK, NEW h \in Tasks, Take(h)
  PROVE  /\ BusOK' /\ left' \in Bound
         /\ Head(bus[h]) \in Entries[h]
<1>1. bus[h] # << >> /\ bus[h] \in Seq(Entries[h]) /\ Head(bus[h]) \in Entries[h]
      /\ Tail(bus[h]) \in Seq(Entries[h])
  BY TailHolds DEF Take, TypeOK
<1>2. CASE bus' = [bus EXCEPT ![h] = Tail(@)] /\ UNCHANGED left
  BY <1>1, <1>2, BusTake DEF TypeOK, Bound
<1>3. CASE /\ left.redelivery > 0
           /\ left' = [left EXCEPT !.redelivery = @ - 1]
           /\ bus' = [bus EXCEPT ![h] = Append(Tail(@), Head(bus[h]))]
  <2>1. Append(Tail(bus[h]), Head(bus[h])) \in Seq(Entries[h])
    BY <1>1, AppendHolds
  <2>2. DOMAIN bus = Tasks \cup CommandStreams
    BY DEF TypeOK
  <2>3. Carried(h) = Entries[h]
    BY DEF Carried
  <2>4. \A x \in Tasks \cup CommandStreams : bus'[x] \in Seq(Carried(x))
    BY <1>3, <2>1, <2>2, <2>3, BusType
  <2>5. left \in Bound
    BY DEF TypeOK, Bound
  <2>6. left' \in Bound
    BY <1>3, <2>5 DEF Bound
  <2>7. DOMAIN bus' = Tasks \cup CommandStreams
    BY <1>3, <2>2
  <2>8. BusOK'
    BY <2>4, <2>7, BusSplit
  <2> QED
    BY <1>1, <2>6, <2>8
<1> QED
  BY <1>1, <1>2, <1>3 DEF Take

LEMMA RowsForType ==
  ASSUME TypeOK, NEW h \in Tasks, NEW m \in Entries[h]
  PROVE  RowsFor(h, m) \subseteq Chats
<1>1. CASE h = "sent"
  BY <1>1 DEF RowsFor
<1>2. CASE h = "message"
  BY <1>2, EntriesAre DEF RowsFor, Orders
<1>3. CASE h = "membership"
  BY <1>3, EntriesAre DEF RowsFor, Promotions
<1> QED
  BY <1>1, <1>2, <1>3 DEF Tasks

LEMMA TypeRead ==
  ASSUME TypeOK, NEW h \in Tasks, Read(h)
  PROVE  TypeOK'
<1> DEFINE m == Head(bus[h])
<1>1. BusOK' /\ left' \in Bound /\ m \in Entries[h]
  BY TypeTake DEF Read
<1>2. \A r \in reading' : r \in [task : Tasks, entry : Entries[r.task], seen : BOOLEAN,
                                 chat : Chats, row : Row]
  <2>1. CASE RowsFor(h, m) = {}
    BY <2>1 DEF Read, TypeOK
  <2>2. ASSUME NEW c \in RowsFor(h, m),
               reading' = reading \cup {[task |-> h, entry |-> m, seen |-> Seen(h, m),
                                         chat |-> c, row |-> row[c]]}
        PROVE  \A r \in reading' : r \in [task : Tasks, entry : Entries[r.task], seen : BOOLEAN,
                                          chat : Chats, row : Row]
    <3>1. c \in Chats
      BY <1>1, RowsForType
    <3>2. row[c] \in Row
      BY <3>1 DEF TypeOK
    <3>3. Seen(h, m) \in BOOLEAN
      BY DEF Seen
    <3> HIDE DEF m
    <3> QED
      BY <1>1, <2>2, <3>1, <3>2, <3>3 DEF TypeOK
  <2> QED
    BY <2>1, <2>2 DEF Read
<1> QED
  BY <1>1, <1>2 DEF Read, Take, TypeOK, BusOK, Bound

LEMMA ReadingType ==
  ASSUME TypeOK, NEW r \in reading
  PROVE  /\ r.task \in Tasks /\ r.entry \in Entries[r.task]
         /\ r.chat \in Chats /\ r.row \in Row
         /\ r.entry.n \in Nat /\ r.entry.chat \in Chats
<1>1. /\ r.task \in Tasks /\ r.entry \in Entries[r.task]
      /\ r.chat \in Chats /\ r.row \in Row
  BY DEF TypeOK
<1> QED
  BY <1>1, EntriesAre

\* A transaction that leaves a row a row, and owes commands.
LEMMA TypeCommit ==
  ASSUME TypeOK, NEW r \in reading, NEW msgs \in Seq(Owed), Commit(r, msgs),
         row' \in [Chats -> Row],
         Mark(r) \/ UNCHANGED processed
  PROVE  TypeOK'
<1>1. r.task \in Tasks /\ r.entry.n \in Nat
  BY ReadingType
<1>2. processed' \subseteq Tasks \X Nat
  <2>1. processed \subseteq Tasks \X Nat
    BY DEF TypeOK
  <2>2. <<r.task, r.entry.n>> \in Tasks \X Nat
    BY <1>1
  <2> QED
    BY <2>1, <2>2 DEF Mark
<1>3. todo' \in [Tasks -> Seq(Owed)]
  BY <1>1 DEF Commit, TypeOK
<1>4. \A x \in reading' : x \in reading
  BY DEF Commit
<1> QED
  BY <1>2, <1>3, <1>4 DEF Commit, TypeOK

\* What may be owed, by stream.
LEMMA OwedType ==
  /\ \A s \in CommandStreams : BotCommands(s) \subseteq Owed
  /\ \A c \in Owed : /\ c.stream \in CommandStreams /\ c \in BotCommands(c.stream)
                     /\ c.chat \in Chats /\ c.about \in Nat /\ c.id \in Nat
BY DEF Owed, BotCommands, CommandStreams

LEMMA CommandType ==
  ASSUME NEW c \in Chats, NEW n \in Nat
  PROVE  /\ \A s \in CommandStreams \ {"send"}, id \in Nat :
              Command(s, c, "none", n, id) \in Owed /\ <<Command(s, c, "none", n, id)>> \in Seq(Owed)
         /\ \A w \in Texts : Message(c, w, n) \in Owed /\ <<Message(c, w, n)>> \in Seq(Owed)
<1>1. ASSUME NEW s \in CommandStreams \ {"send"}, NEW id \in Nat
      PROVE  Command(s, c, "none", n, id) \in Owed
  <2>1. Command(s, c, "none", n, id) \in BotCommands(s)
    BY DEF Command, BotCommands
  <2> QED
    BY <2>1, OwedType
<1>2. ASSUME NEW w \in Texts
      PROVE  Message(c, w, n) \in Owed
  <2>1. Message(c, w, n) \in BotCommands("send")
    BY DEF Message, Command, BotCommands
  <2> QED
    BY <2>1, OwedType DEF CommandStreams
<1> QED
  BY <1>1, <1>2

LEMMA SetupCommandsType ==
  ASSUME NEW c \in Chats, NEW n \in Nat
  PROVE  SetupCommands(c, n) \in Seq(Owed)
<1>1. /\ "name" \in CommandStreams \ {"send"} /\ "close" \in CommandStreams \ {"send"}
      /\ "menu" \in Texts /\ 0 \in Nat
  BY DEF CommandStreams, Texts
<1>2. /\ Command("name", c, "none", n, 0) \in Owed
      /\ Message(c, "menu", n) \in Owed
      /\ Command("close", c, "none", n, 0) \in Owed
  BY <1>1, CommandType
<1> QED
  BY <1>2 DEF SetupCommands

LEMMA EditedType ==
  ASSUME NEW what \in AdminCommands, NEW read, NEW now \in Row
  PROVE  /\ Edited(what, read, now) \in Row
         /\ Edited(what, read, now).known = now.known
         /\ Edited(what, read, now).setup = now.setup
         /\ Edited(what, read, now).menu = now.menu
<1>1. CASE what = "rename"
  BY <1>1 DEF Edited, Row
<1>2. CASE what = "deactivate"
  BY <1>2 DEF Edited, Row
<1>3. CASE what = "activate"
  BY <1>3 DEF Edited, Row
<1>4. CASE what = "list"
  BY <1>4 DEF Edited, Row
<1> QED
  BY <1>1, <1>2, <1>3, <1>4 DEF AdminCommands

\* What the six ways of committing do to the rows, and what they owe.
LEMMA TypeDecide ==
  ASSUME TypeOK, NEW r \in reading, Decide(r)
  PROVE  TypeOK'
<1>0. /\ r.task \in Tasks /\ r.entry \in Entries[r.task]
      /\ r.chat \in Chats /\ r.row \in Row
      /\ r.entry.n \in Nat /\ r.entry.chat \in Chats
  BY ReadingType
<1>1. row \in [Chats -> Row]
  BY DEF TypeOK
<1>2. << >> \in Seq(Owed)
  OBVIOUS
<1>3. /\ <<Message(r.chat, "notice", r.entry.n)>> \in Seq(Owed)
      /\ <<Message(r.chat, "hint", r.entry.n)>> \in Seq(Owed)
      /\ <<Message(r.entry.chat, "notice", r.entry.n)>> \in Seq(Owed)
  <2>1. "notice" \in Texts /\ "hint" \in Texts
    BY DEF Texts
  <2> QED
    BY <1>0, <2>1, CommandType
<1>4. CASE Ignored(r)
  BY <1>1, <1>2, <1>4, TypeCommit DEF Ignored
<1>5. CASE SetupRefused(r)
  BY <1>1, <1>3, <1>5, TypeCommit DEF SetupRefused, Accepted
<1>6. CASE Onboard(r)
  <2>1. row' \in [Chats -> Row]
    <3>1. [row[r.chat] EXCEPT !.setup = r.entry.n] \in Row
      BY <1>0, <1>1 DEF Row
    <3>2. [NoCustomer EXCEPT !.known = TRUE, !.setup = r.entry.n] \in Row
      BY <1>0 DEF Row, NoCustomer
    <3> QED
      BY <1>0, <1>1, <1>6, <3>1, <3>2 DEF Onboard
  <2>2. SetupCommands(r.chat, r.entry.n) \in Seq(Owed)
    BY <1>0, SetupCommandsType
  <2> QED
    BY <1>6, <2>1, <2>2, TypeCommit DEF Onboard, Accepted
<1>7. CASE Administer(r)
  <2>1. PICK what \in AdminCommands :
          /\ Accepted(r, what)
          /\ row' = IF r.row.known
                    THEN [row EXCEPT ![r.chat] = Edited(what, r.row, @)] ELSE row
    BY <1>7 DEF Administer
  <2>2. row' \in [Chats -> Row]
    <3>1. Edited(what, r.row, row[r.chat]) \in Row
      BY <1>0, <1>1, EditedType
    <3> QED
      BY <1>0, <1>1, <2>1, <3>1
  <2> QED
    BY <1>3, <1>7, <2>1, <2>2, TypeCommit DEF Administer, Accepted, AdminReply
<1>8. CASE Hint(r)
  BY <1>1, <1>2, <1>3, <1>8, TypeCommit DEF Hint
<1>9. CASE AttachMenu(r)
  <2>1. r.entry.id \in Nat
    BY <1>0, <1>9, EntriesAre DEF AttachMenu, Acks
  <2>2. row' \in [Chats -> Row]
    <3>1. [row[r.chat] EXCEPT !.menu = r.entry.id] \in Row
      BY <1>0, <1>1, <2>1 DEF Row
    <3> QED
      BY <1>0, <1>1, <1>9, <3>1 DEF AttachMenu
  <2>3. <<Command("pin", r.entry.chat, "none", r.entry.n, r.entry.id)>> \in Seq(Owed)
    BY <1>0, <2>1, CommandType DEF CommandStreams
  <2> QED
    BY <1>2, <1>9, <2>2, <2>3, TypeCommit DEF AttachMenu
<1> QED
  BY <1>4, <1>5, <1>6, <1>7, <1>8, <1>9 DEF Decide

LEMMA TypePublish ==
  ASSUME TypeOK, NEW h \in Tasks, Publish(h)
  PROVE  TypeOK'
<1> DEFINE c == Head(todo[h])
<1>1. todo[h] \in Seq(Owed) /\ todo[h] # << >>
  BY DEF TypeOK, Publish
<1>2. c \in Owed /\ Tail(todo[h]) \in Seq(Owed)
  BY <1>1, TailHolds
<1>3. c.stream \in CommandStreams /\ c \in BotCommands(c.stream)
  BY <1>2, OwedType
<1>4. c \in Carried(c.stream)
  BY <1>3 DEF Carried, Tasks, CommandStreams
<1>5. BusOK'
  BY <1>3, <1>4, BusPut DEF Publish
<1>6. todo' \in [Tasks -> Seq(Owed)]
  BY <1>2 DEF Publish, TypeOK
<1> QED
  BY <1>5, <1>6 DEF Publish, TypeOK, BusOK

LEMMA FaultType ==
  ASSUME TypeOK, NEW n \in Nat, Fault(n)
  PROVE  left' \in Bound /\ hurt' \subseteq Nat
<1>1. left \in Bound /\ hurt \subseteq Nat
  BY DEF TypeOK, Bound
<1> QED
  BY <1>1 DEF Fault, Bound

\* The oldest command of a stream.
LEMMA OldestType ==
  ASSUME TypeOK, NEW s \in CommandStreams, bus[s] # << >>
  PROVE  /\ Head(bus[s]) \in BotCommands(s)
         /\ Head(bus[s]).chat \in Chats
         /\ Head(bus[s]).about \in Nat
         /\ Head(bus[s]).id \in Nat
<1>1. bus[s] \in Seq(BotCommands(s))
  BY DEF TypeOK
<1>2. Head(bus[s]) \in BotCommands(s)
  BY <1>1, TailHolds
<1> QED
  BY <1>2 DEF BotCommands

LEMMA TypeGeneral ==
  ASSUME TypeOK, EditGeneral \/ CloseGeneral
  PROVE  TypeOK'
<1>1. CASE EditGeneral
  <2>1. BusOK'
    BY <1>1, BusTake DEF EditGeneral, Done, CommandStreams
  <2>2. general' \in [Chats -> [named : BOOLEAN, closed : BOOLEAN]]
    BY <1>1 DEF EditGeneral, TypeOK
  <2> QED
    BY <1>1, <2>1, <2>2 DEF EditGeneral, Done, core, TypeOK, BusOK
<1>2. CASE CloseGeneral
  <2>1. BusOK'
    BY <1>2, BusTake DEF CloseGeneral, Done, CommandStreams
  <2>2. general' \in [Chats -> [named : BOOLEAN, closed : BOOLEAN]]
    BY <1>2 DEF CloseGeneral, TypeOK
  <2> QED
    BY <1>2, <2>1, <2>2 DEF CloseGeneral, Done, core, TypeOK, BusOK
<1> QED
  BY <1>1, <1>2

\* What a group shows after a message more, and after a message is pinned.
LEMMA ShownType ==
  ASSUME NEW s \in Seq(Shown), NEW w \in Texts, NEW n \in Nat, NEW i
  PROVE  /\ Append(s, [what |-> w, about |-> n, pinned |-> FALSE]) \in Seq(Shown)
         /\ [s EXCEPT ![i].pinned = TRUE] \in Seq(Shown)
<1>1. [what |-> w, about |-> n, pinned |-> FALSE] \in Shown
  BY DEF Shown
<1>2. Append(s, [what |-> w, about |-> n, pinned |-> FALSE]) \in Seq(Shown)
  BY <1>1, AppendHolds
<1>3. [s EXCEPT ![i].pinned = TRUE] \in Seq(Shown)
  <2>1. CASE i \in 1..Len(s)
    <3>1. s[i] \in Shown
      BY <2>1
    <3>2. [s[i] EXCEPT !.pinned = TRUE] \in Shown
      BY <3>1 DEF Shown
    <3> QED
      BY <2>1, <3>2, ExceptSeq
  <2>2. CASE i \notin 1..Len(s)
    <3>1. [s EXCEPT ![i].pinned = TRUE] = s
      BY <2>2
    <3> QED
      BY <3>1
  <2> QED
    BY <2>1, <2>2
<1> QED
  BY <1>2, <1>3

LEMMA TypeSend ==
  ASSUME TypeOK, SendMessage
  PROVE  TypeOK'
<1> DEFINE c == Head(bus["send"])
           rest == [bus EXCEPT !["send"] = Tail(@)]
           ack == [n |-> c.about, chat |-> c.chat, id |-> Len(shown[c.chat]) + 1, what |-> "ack"]
<1>1. "send" \in CommandStreams /\ "sent" \in Tasks /\ "send" # "sent" /\ bus["send"] # << >>
  BY DEF CommandStreams, Tasks, SendMessage
<1>2. c \in BotCommands("send") /\ c.chat \in Chats /\ c.about \in Nat
  BY <1>1, OldestType
<1>3. shown \in [Chats -> Seq(Shown)]
  BY DEF TypeOK, Shown
<1>4. shown' \in [Chats -> Seq(Shown)]
  <2>1. shown' = [shown EXCEPT ![c.chat] =
                    Append(@, [what |-> c.what, about |-> c.about, pinned |-> FALSE])]
    BY DEF SendMessage
  <2>2. c.what \in Texts
    BY <1>2 DEF BotCommands
  <2>3. Append(shown[c.chat], [what |-> c.what, about |-> c.about, pinned |-> FALSE]) \in Seq(Shown)
    BY <1>2, <1>3, <2>2, ShownType
  <2> HIDE DEF c
  <2> QED
    BY <1>2, <1>3, <2>1, <2>3
<1>5. DOMAIN rest = Tasks \cup CommandStreams /\ rest["sent"] = bus["sent"]
      /\ \A x \in Tasks \cup CommandStreams : rest[x] \in Seq(Carried(x))
  <2>1. Tail(bus["send"]) \in Seq(Carried("send"))
    BY <1>1, BusType, TailHolds
  <2> QED
    BY <1>1, <2>1, BusType DEF TypeOK
<1>6. ack \in Carried("sent")
  <2>1. shown[c.chat] \in Seq(Shown)
    BY <1>2, <1>3
  <2>2. Len(shown[c.chat]) + 1 \in Nat
    BY <2>1
  <2> HIDE DEF c
  <2> QED
    BY <1>1, <1>2, <2>2, EntriesAre DEF Carried, Acks
<1> HIDE DEF ack, rest
<1>7. CASE bus' = [rest EXCEPT !["sent"] = Append(@, ack)] /\ UNCHANGED <<left, hurt>>
  <2>1. Append(rest["sent"], ack) \in Seq(Carried("sent"))
    BY <1>1, <1>5, <1>6, AppendHolds
  <2>2. DOMAIN bus' = Tasks \cup CommandStreams
        /\ \A x \in Tasks \cup CommandStreams : bus'[x] \in Seq(Carried(x))
    BY <1>1, <1>5, <1>7, <2>1
  <2>3. BusOK'
    BY <2>2, BusSplit
  <2> QED
    BY <1>4, <1>7, <2>3 DEF SendMessage, core, TypeOK, BusOK, Shown
<1>8. CASE bus' = rest
  <2>1. BusOK'
    BY <1>5, <1>8, BusSplit
  <2>2. left' \in Bound /\ hurt' \subseteq Nat
    <3>1. Fault(c.about) \/ UNCHANGED <<left, hurt>>
      BY DEF SendMessage
    <3> QED
      BY <1>2, <3>1, FaultType DEF TypeOK, Bound
  <2> QED
    BY <1>4, <2>1, <2>2 DEF SendMessage, core, TypeOK, BusOK, Shown, Bound
<1> QED
  BY <1>7, <1>8 DEF SendMessage, rest, ack

LEMMA TypePin ==
  ASSUME TypeOK, PinMessage
  PROVE  TypeOK'
<1> DEFINE c == Head(bus["pin"])
<1>1. "pin" \in CommandStreams /\ bus["pin"] # << >>
  BY DEF CommandStreams, PinMessage
<1>2. c.chat \in Chats
  BY <1>1, OldestType
<1>3. BusOK'
  BY <1>1, BusTake DEF PinMessage, Done
<1>4. shown' \in [Chats -> Seq(Shown)]
  <2>1. shown \in [Chats -> Seq(Shown)]
    BY DEF TypeOK, Shown
  <2>2. "menu" \in Texts /\ 0 \in Nat
    BY DEF Texts
  <2>3. [shown[c.chat] EXCEPT ![c.id].pinned = TRUE] \in Seq(Shown)
    BY <1>2, <2>1, <2>2, ShownType
  <2> QED
    BY <1>2, <2>1, <2>3 DEF PinMessage
<1> QED
  BY <1>3, <1>4 DEF PinMessage, Done, core, TypeOK, BusOK, Shown

LEMMA TypeRefuse ==
  ASSUME TypeOK, NEW s \in CommandStreams, TelegramRefuses(s)
  PROVE  TypeOK'
<1>1. bus[s] # << >> /\ Head(bus[s]).about \in Nat
  BY OldestType DEF TelegramRefuses
<1>2. BusOK'
  BY <1>1, BusTake DEF TelegramRefuses
<1>3. left' \in Bound /\ hurt' \subseteq Nat
  BY <1>1, FaultType DEF TelegramRefuses
<1> QED
  BY <1>2, <1>3 DEF TelegramRefuses, core, TypeOK, BusOK, Bound

LEMMA TypeCrash ==
  ASSUME TypeOK, Crash
  PROVE  TypeOK'
<1>1. left' \in Bound
  <2>1. left \in Bound
    BY DEF TypeOK, Bound
  <2> QED
    BY <2>1 DEF Crash, Bound
<1>2. hurt' \subseteq Nat
  <2>1. {r.entry.n : r \in reading} \subseteq Nat
    BY ReadingType
  <2>2. ASSUME NEW h \in Tasks PROVE {todo[h][i].about : i \in DOMAIN todo[h]} \subseteq Nat
    <3>1. todo[h] \in Seq(Owed)
      BY DEF TypeOK
    <3>2. \A i \in DOMAIN todo[h] : todo[h][i] \in Owed
      BY <3>1
    <3> QED
      BY <3>2, OwedType
  <2>3. hurt \subseteq Nat
    BY DEF TypeOK
  <2> QED
    BY <2>1, <2>2, <2>3 DEF Crash
<1>3. todo' \in [Tasks -> Seq(Owed)] /\ reading' = {}
  BY DEF Crash
<1> QED
  BY <1>1, <1>2, <1>3 DEF Crash, TypeOK, Bound

\* One more deed of somebody, and its event.
LEMMA TypeDeed ==
  ASSUME TypeOK, NEW h \in Tasks, NEW e \in Entries[h], NEW d \in Given,
         given' = Append(given, d),
         bus' = [bus EXCEPT ![h] = Append(@, e)],
         UNCHANGED <<row, processed, todo, reading, general, shown, left, hurt>>
  PROVE  TypeOK'
<1>1. given \in Seq(Given)
  BY DEF TypeOK, Given
<1>2. given' \in Seq(Given)
  BY <1>1, AppendHolds
<1>3. BusOK'
  BY BusPut DEF Carried
<1> QED
  BY <1>2, <1>3 DEF TypeOK, BusOK, Given

LEMMA TypeWrite ==
  ASSUME TypeOK, NEW c \in Chats, NEW d \in Chats, NEW what \in Commands, NEW e \in BOOLEAN,
         Write(c, what, d, e)
  PROVE  TypeOK'
<1> DEFINE deed == [chat |-> c, what |-> what, target |-> d, executor |-> e,
                    late |-> what = "setup" /\ row[c].menu # 0]
           order == [n |-> Len(given) + 1, chat |-> c, what |-> what, target |-> d, executor |-> e]
<1>1. what \in {"setup"} \cup AdminCommands /\ Len(given) + 1 \in Nat
  BY GroupsAssumption DEF TypeOK
<1>2. deed \in Given
  BY <1>1 DEF Given
<1>3. order \in Entries["message"]
  BY <1>1, EntriesAre DEF Orders
<1>4. "message" \in Tasks
  BY DEF Tasks
<1> QED
  BY <1>2, <1>3, <1>4, TypeDeed DEF Write

LEMMA TypePromote ==
  ASSUME TypeOK, NEW c \in Chats, Promote(c)
  PROVE  TypeOK'
<1> DEFINE deed == [chat |-> c, what |-> "promote", target |-> c, executor |-> FALSE, late |-> FALSE]
           news == [n |-> Len(given) + 1, chat |-> c, what |-> "promote"]
<1>1. Len(given) + 1 \in Nat
  BY DEF TypeOK
<1>2. deed \in Given
  BY DEF Given
<1>3. news \in Entries["membership"]
  BY <1>1, EntriesAre DEF Promotions
<1>4. "membership" \in Tasks
  BY DEF Tasks
<1> QED
  BY <1>2, <1>3, <1>4, TypeDeed DEF Promote

LEMMA TypeStep == TypeOK /\ [Next]_vars => TypeOK'
<1> SUFFICES ASSUME TypeOK, [Next]_vars
             PROVE  TypeOK'
  OBVIOUS
<1>1. ASSUME NEW h \in Tasks, Read(h) PROVE TypeOK'
  BY <1>1, TypeRead
<1>2. ASSUME NEW h \in Tasks, Publish(h) PROVE TypeOK'
  BY <1>2, TypePublish
<1>3. ASSUME NEW r \in reading, Decide(r) PROVE TypeOK'
  BY <1>3, TypeDecide
<1>4. CASE EditGeneral \/ CloseGeneral
  BY <1>4, TypeGeneral
<1>5. CASE SendMessage
  BY <1>5, TypeSend
<1>6. CASE PinMessage
  BY <1>6, TypePin
<1>7. CASE Crash
  BY <1>7, TypeCrash
<1>8. ASSUME NEW s \in CommandStreams, TelegramRefuses(s) PROVE TypeOK'
  BY <1>8, TypeRefuse
<1>9. ASSUME NEW c \in Chats, NEW d \in Chats, NEW what \in Commands, NEW e \in BOOLEAN,
             Write(c, what, d, e)
      PROVE  TypeOK'
  BY <1>9, TypeWrite
<1>10. ASSUME NEW c \in Chats, Promote(c) PROVE TypeOK'
  BY <1>10, TypePromote
<1>11. CASE UNCHANGED vars
  BY <1>11 DEF TypeOK, vars
<1> QED
  BY <1>1, <1>2, <1>3, <1>4, <1>5, <1>6, <1>7, <1>8, <1>9, <1>10, <1>11 DEF Next, Progress

\* Every variable keeps its type, for any groups and any number of faults.
THEOREM TypeCorrect == Spec => []TypeOK
<1> QED
  BY TypeInit, TypeStep, PTL DEF Spec

-----------------------------------------------------------------------------
(* The inductive invariant.                                                *)

\* What was done stays done, and messages stay where they are.
Kept ==
  /\ \A n \in DOMAIN given : n \in DOMAIN given' /\ given'[n] = given[n]
  /\ \A c \in Chats : \A i \in DOMAIN shown[c] :
       i \in DOMAIN shown'[c] /\ shown'[c][i].what = shown[c][i].what

LEMMA NothingLost == UNCHANGED <<given, shown>> => Kept
BY DEF Kept

\* What is grounded stays grounded.
LEMMA KeptGrounded ==
  ASSUME Kept, NEW s, NEW m, m.chat \in Chats, Grounded(s, m)
  PROVE  Grounded(s, m)'
BY DEF Kept, Grounded, AskedBy, IsMenu

LEMMA Chat ==
  ASSUME TypeOK
  PROVE  /\ \A s \in Tasks \cup CommandStreams : \A m \in Range(bus[s]) : m.chat \in Chats
         /\ \A h \in Tasks : \A m \in Range(todo[h]) : m.chat \in Chats
<1>1. ASSUME NEW h \in Tasks, NEW m \in Range(bus[h]) PROVE m.chat \in Chats
  <2>1. m \in Entries[h]
    BY HeldType DEF TypeOK
  <2> QED
    BY <2>1, EntriesAre
<1>2. ASSUME NEW s \in CommandStreams, NEW m \in Range(bus[s]) PROVE m.chat \in Chats
  <2>1. m \in BotCommands(s)
    BY HeldType DEF TypeOK
  <2> QED
    BY <2>1 DEF BotCommands
<1>3. ASSUME NEW h \in Tasks, NEW m \in Range(todo[h]) PROVE m.chat \in Chats
  <2>1. m \in Owed
    BY HeldType DEF TypeOK
  <2> QED
    BY <2>1, OwedType
<1> QED
  BY <1>1, <1>2, <1>3

\* The streams, when what is new in them is grounded.
LEMMA StreamsKept ==
  ASSUME TypeOK, Kept, StreamsGrounded,
         \A s \in Tasks \cup CommandStreams : \A m \in Range(bus'[s]) :
            m \in Range(bus[s]) \/ Grounded(s, m)',
         \A h \in Tasks : \A m \in Range(todo'[h]) :
            m \in Range(todo[h]) \/ Grounded(m.stream, m)'
  PROVE  StreamsGrounded'
<1>1. ASSUME NEW s \in Tasks \cup CommandStreams, NEW m \in Range(bus'[s])
      PROVE  Grounded(s, m)'
  <2>1. CASE m \in Range(bus[s])
    BY <2>1, Chat, KeptGrounded DEF StreamsGrounded
  <2> QED
    BY <2>1
<1>2. ASSUME NEW h \in Tasks, NEW m \in Range(todo'[h])
      PROVE  Grounded(m.stream, m)'
  <2>1. CASE m \in Range(todo[h])
    BY <2>1, Chat, KeptGrounded DEF StreamsGrounded
  <2> QED
    BY <2>1
<1> QED
  BY <1>1, <1>2 DEF StreamsGrounded

\* Taking an entry puts nothing on a stream.
LEMMA TakenHolds ==
  ASSUME TypeOK, NEW x \in Tasks \cup CommandStreams, bus[x] # << >>,
         bus' = [bus EXCEPT ![x] = Tail(@)]
  PROVE  \A s \in Tasks \cup CommandStreams : \A m \in Range(bus'[s]) : m \in Range(bus[s])
<1>1. Range(Tail(bus[x])) \subseteq Range(bus[x])
  BY BusType, TailHolds
<1>2. \A s \in Tasks \cup CommandStreams : bus'[s] = IF s = x THEN Tail(bus[x]) ELSE bus[s]
  BY DEF TypeOK
<1> QED
  BY <1>1, <1>2

LEMMA PutHolds ==
  ASSUME TypeOK, NEW x \in Tasks \cup CommandStreams, NEW e \in Carried(x),
         bus' = [bus EXCEPT ![x] = Append(@, e)]
  PROVE  \A s \in Tasks \cup CommandStreams : \A m \in Range(bus'[s]) :
            m \in Range(bus[s]) \/ (s = x /\ m = e)
<1>1. Range(Append(bus[x], e)) = Range(bus[x]) \cup {e}
  BY BusType, AppendHolds
<1>2. \A s \in Tasks \cup CommandStreams :
        bus'[s] = IF s = x THEN Append(bus[x], e) ELSE bus[s]
  BY DEF TypeOK
<1> QED
  BY <1>1, <1>2

\* The rows, when they are left alone.
LEMMA RowsKept ==
  ASSUME TypeOK, Kept, RowsGrounded, UNCHANGED row
  PROVE  RowsGrounded'
BY DEF Kept, RowsGrounded, AskedBy, IsMenu

\* What was given, when nothing new is and menus stay recorded.
LEMMA GivenKept ==
  ASSUME GivenGrounded, UNCHANGED given,
         \A n \in DOMAIN given : row[given[n].chat].menu # 0 => row'[given[n].chat].menu # 0
  PROVE  GivenGrounded'
BY DEF GivenGrounded

LEMMA ShownKept ==
  ASSUME Kept, ShownGrounded, UNCHANGED shown
  PROVE  ShownGrounded'
BY DEF Kept, ShownGrounded, AskedBy

\* The transactions that go on, when their rows stay known or unknown.
LEMMA ReadingsKept ==
  ASSUME TypeOK, Kept, ReadingsGrounded, reading' \subseteq reading,
         \A r \in reading' : r.task # "membership" => row'[r.chat].known = row[r.chat].known
  PROVE  ReadingsGrounded'
<1> SUFFICES ASSUME NEW r \in reading'
             PROVE  /\ Grounded(r.task, r.entry)'
                    /\ \A q \in reading' : q.task = r.task => q = r
                    /\ r.task = "sent" => r.chat = r.entry.chat /\ row'[r.chat].known
                    /\ r.task = "message" =>
                         /\ r.chat = r.entry.target
                         /\ r.row.known = row'[r.chat].known
                         /\ given'[r.entry.n].late => r.row.known /\ r.row.menu # 0
  BY DEF ReadingsGrounded
<1>1. r \in reading /\ Grounded(r.task, r.entry)
  BY DEF ReadingsGrounded
<1>2. Grounded(r.task, r.entry)'
  BY <1>1, ReadingType, KeptGrounded
<1>3. r.task = "message" => given'[r.entry.n].late = given[r.entry.n].late
  BY <1>1 DEF Grounded, Kept
<1> QED
  BY <1>1, <1>2, <1>3 DEF ReadingsGrounded

LEMMA InvInit == Init => IInv
BY EmptyHolds DEF Init, IInv, StreamsGrounded, RowsGrounded, ShownGrounded, GivenGrounded,
  ReadingsGrounded, NoCustomer

\* Every entry in the streams stays; only commands are taken.
LEMMA InvQuiet ==
  ASSUME TypeOK, IInv, UNCHANGED <<row, given, shown>>, reading' \subseteq reading,
         \A s \in Tasks \cup CommandStreams : \A m \in Range(bus'[s]) :
            m \in Range(bus[s]) \/ Grounded(s, m)',
         \A h \in Tasks : \A m \in Range(todo'[h]) : m \in Range(todo[h])
  PROVE  IInv'
<1>1. Kept
  BY NothingLost
<1>2. StreamsGrounded'
  BY <1>1, StreamsKept DEF IInv
<1>3. RowsGrounded' /\ ShownGrounded' /\ GivenGrounded'
  BY <1>1, RowsKept, ShownKept, GivenKept DEF IInv
<1>4. ReadingsGrounded'
  BY <1>1, ReadingsKept DEF IInv
<1> QED
  BY <1>2, <1>3, <1>4 DEF IInv

LEMMA TakeHolds ==
  ASSUME TypeOK, NEW h \in Tasks, Take(h)
  PROVE  /\ \A s \in Tasks \cup CommandStreams : \A m \in Range(bus'[s]) : m \in Range(bus[s])
         /\ Head(bus[h]) \in Range(bus[h])
<1>1. bus[h] \in Seq(Carried(h)) /\ bus[h] # << >>
  BY BusType DEF Take
<1>2. /\ Head(bus[h]) \in Carried(h) /\ Head(bus[h]) \in Range(bus[h])
      /\ Tail(bus[h]) \in Seq(Carried(h)) /\ Range(Tail(bus[h])) \subseteq Range(bus[h])
  BY <1>1, TailHolds
<1>3. CASE bus' = [bus EXCEPT ![h] = Tail(@)]
  BY <1>1, <1>2, <1>3, TakenHolds
<1>4. CASE bus' = [bus EXCEPT ![h] = Append(Tail(@), Head(bus[h]))]
  <2>1. Range(Append(Tail(bus[h]), Head(bus[h]))) \subseteq Range(bus[h])
    BY <1>1, AgainHolds
  <2>2. \A s \in Tasks \cup CommandStreams :
          bus'[s] = IF s = h THEN Append(Tail(bus[h]), Head(bus[h])) ELSE bus[s]
    BY <1>4 DEF TypeOK
  <2> QED
    BY <1>2, <2>1, <2>2
<1> QED
  BY <1>2, <1>3, <1>4 DEF Take

\* A handler reads its row: what it reads is what the row says now.
LEMMA InvRead ==
  ASSUME TypeOK, IInv, NEW h \in Tasks, Read(h)
  PROVE  IInv'
<1> SUFFICES ASSUME NEW m, m = Head(bus[h])
             PROVE  IInv'
  OBVIOUS
<1>1. /\ \A s \in Tasks \cup CommandStreams : \A x \in Range(bus'[s]) : x \in Range(bus[s])
      /\ m \in Range(bus[h]) /\ m \in Entries[h] /\ Idle(h)
  BY TakeHolds, TypeTake DEF Read, Take
<1>2. UNCHANGED <<row, given, shown, todo>>
  BY DEF Read, Take
<1>3. Grounded(h, m)
  BY <1>1 DEF IInv, StreamsGrounded
<1>4. CASE reading' = reading
  BY <1>1, <1>2, <1>4, InvQuiet
<1>5. ASSUME NEW c \in RowsFor(h, m),
             reading' = reading \cup {[task |-> h, entry |-> m, seen |-> Seen(h, m),
                                       chat |-> c, row |-> row[c]]}
      PROVE  IInv'
  <2> DEFINE new == [task |-> h, entry |-> m, seen |-> Seen(h, m), chat |-> c, row |-> row[c]]
  <2>0. c \in Chats
    BY <1>1, RowsForType
  <2>1. Kept
    BY <1>2, NothingLost
  <2>2. StreamsGrounded' /\ RowsGrounded' /\ ShownGrounded' /\ GivenGrounded'
    BY <1>1, <1>2, <2>1, StreamsKept, RowsKept, ShownKept, GivenKept DEF IInv
  <2>3. h = "sent" => c = m.chat /\ row[c].known
    <3>1. ASSUME h = "sent" PROVE c = m.chat /\ row[c].known
      <4>1. row[c].known /\ row[c].setup = m.n
        BY <3>1, <1>5 DEF RowsFor
      <4>2. AskedBy(m.chat, m.n)
        BY <1>3, <3>1 DEF Grounded
      <4>3. m.n # 0
        BY <4>2 DEF AskedBy, TypeOK
      <4>4. AskedBy(c, m.n)
        BY <2>0, <4>1, <4>3 DEF IInv, RowsGrounded
      <4> QED
        BY <4>1, <4>2, <4>4 DEF AskedBy
    <3> QED
      BY <3>1
  <2>4. h = "message" => c = m.target /\ (given[m.n].late => row[c].known /\ row[c].menu # 0)
    <3>1. ASSUME h = "message" PROVE c = m.target
      BY <3>1, <1>5 DEF RowsFor
    <3>2. ASSUME h = "message", given[m.n].late PROVE row[c].known /\ row[c].menu # 0
      <4>1. m.n \in DOMAIN given /\ given[m.n].target = m.target
        BY <1>3, <3>2 DEF Grounded
      <4>2. given[m.n].chat = given[m.n].target /\ row[given[m.n].chat].menu # 0
        BY <3>2, <4>1 DEF IInv, GivenGrounded
      <4>3. row[c].menu # 0
        BY <3>1, <3>2, <4>1, <4>2
      <4> QED
        BY <2>0, <4>3 DEF IInv, RowsGrounded
    <3> QED
      BY <3>1, <3>2
  <2>5. \A r \in reading : r.task # h
    BY <1>1 DEF Idle
  <2>6. ReadingsGrounded'
    <3>1. ASSUME NEW r \in reading
          PROVE  /\ Grounded(r.task, r.entry)'
                 /\ r.task = "sent" => r.chat = r.entry.chat /\ row'[r.chat].known
                 /\ r.task = "message" =>
                      /\ r.chat = r.entry.target
                      /\ r.row.known = row'[r.chat].known
                      /\ given'[r.entry.n].late => r.row.known /\ r.row.menu # 0
      <4>1. Grounded(r.task, r.entry)'
        BY <2>1, ReadingType, KeptGrounded DEF IInv, ReadingsGrounded
      <4> QED
        BY <1>2, <4>1 DEF IInv, ReadingsGrounded
    <3>2. Grounded(h, m)'
      BY <1>1, <1>3, <2>1, EntriesAre, KeptGrounded
    <3>3. \A r, q \in reading : q.task = r.task => q = r
      BY DEF IInv, ReadingsGrounded
    <3>4. /\ new.task = h /\ new.entry = m /\ new.chat = c /\ new.row = row[c]
      OBVIOUS
    <3>5. reading' = reading \cup {new}
      BY <1>5
    <3> HIDE DEF new
    <3> QED
      BY <1>2, <2>3, <2>4, <2>5, <3>1, <3>2, <3>3, <3>4, <3>5 DEF ReadingsGrounded
  <2> QED
    BY <2>2, <2>6 DEF IInv
<1> QED
  BY <1>4, <1>5 DEF Read

LEMMA InvPublish ==
  ASSUME TypeOK, IInv, NEW h \in Tasks, Publish(h)
  PROVE  IInv'
<1> SUFFICES ASSUME NEW c, c = Head(todo[h])
             PROVE  IInv'
  OBVIOUS
<1>1. todo[h] \in Seq(Owed) /\ todo[h] # << >>
  BY DEF TypeOK, Publish
<1>2. c \in Owed /\ c \in Range(todo[h]) /\ Range(Tail(todo[h])) \subseteq Range(todo[h])
  BY <1>1, TailHolds
<1>3. c.stream \in CommandStreams /\ c \in BotCommands(c.stream) /\ c.chat \in Chats
  BY <1>2, OwedType
<1>4. c \in Carried(c.stream)
  BY <1>3 DEF Carried, Tasks, CommandStreams
<1>5. Kept /\ Grounded(c.stream, c)
  BY <1>2, NothingLost DEF Publish, IInv, StreamsGrounded
<1>6. Grounded(c.stream, c)'
  BY <1>3, <1>5, KeptGrounded
<1>7. \A s \in Tasks \cup CommandStreams : \A m \in Range(bus'[s]) :
        m \in Range(bus[s]) \/ Grounded(s, m)'
  <2>1. bus' = [bus EXCEPT ![c.stream] = Append(@, c)]
    BY DEF Publish
  <2>2. \A s \in Tasks \cup CommandStreams : \A m \in Range(bus'[s]) :
          m \in Range(bus[s]) \/ (s = c.stream /\ m = c)
    BY <1>3, <1>4, <2>1, PutHolds
  <2> QED
    BY <1>6, <2>2
<1>8. \A g \in Tasks : \A m \in Range(todo'[g]) : m \in Range(todo[g])
  <2>1. \A g \in Tasks : todo'[g] = IF g = h THEN Tail(todo[h]) ELSE todo[g]
    BY DEF Publish, TypeOK
  <2> QED
    BY <1>2, <2>1
<1> QED
  BY <1>7, <1>8, InvQuiet DEF Publish

\* A command is carried out or refused, and nothing is shown for it.
LEMMA InvTaken ==
  ASSUME TypeOK, IInv, NEW s \in CommandStreams, bus[s] # << >>,
         bus' = [bus EXCEPT ![s] = Tail(@)],
         UNCHANGED <<core, shown>>
  PROVE  IInv'
BY TakenHolds, InvQuiet DEF core

LEMMA InvCrash ==
  ASSUME TypeOK, IInv, Crash
  PROVE  IInv'
BY EmptyHolds, InvQuiet DEF Crash

LEMMA InvPin ==
  ASSUME TypeOK, IInv, PinMessage
  PROVE  IInv'
<1> SUFFICES ASSUME NEW c, c = Head(bus["pin"])
             PROVE  IInv'
  OBVIOUS
<1>1. "pin" \in CommandStreams /\ bus["pin"] # << >> /\ bus["pin"] \in Seq(BotCommands("pin"))
  BY DEF CommandStreams, PinMessage, TypeOK
<1>2. c \in Range(bus["pin"]) /\ c.chat \in Chats
  BY <1>1, TailHolds, OldestType
<1>3. IsMenu(c.chat, c.id)
  BY <1>1, <1>2 DEF IInv, StreamsGrounded, Grounded
<1>4. shown' = [shown EXCEPT ![c.chat][c.id].pinned = TRUE]
  BY DEF PinMessage
<1>5. ASSUME NEW d \in Chats, NEW i \in DOMAIN shown[d]
      PROVE  /\ i \in DOMAIN shown'[d]
             /\ shown'[d][i].what = shown[d][i].what /\ shown'[d][i].about = shown[d][i].about
             /\ shown'[d][i].pinned => shown[d][i].pinned \/ (d = c.chat /\ i = c.id)
  <2>1. shown[d] \in Seq(Shown)
    BY DEF TypeOK, Shown
  <2>3. shown[d][i] \in Shown
    BY <2>1
  <2>2. shown'[d] = IF d = c.chat THEN [shown[d] EXCEPT ![c.id].pinned = TRUE] ELSE shown[d]
    BY <1>2, <1>4 DEF TypeOK
  <2> QED
    BY <2>1, <2>2, <2>3 DEF Shown
<1>6. \A d \in Chats : DOMAIN shown'[d] = DOMAIN shown[d]
  BY <1>2, <1>4 DEF TypeOK
<1>7. Kept
  BY <1>5 DEF Kept, PinMessage, core
<1>8. ShownGrounded'
  <2>1. ASSUME NEW d \in Chats, NEW i \in DOMAIN shown[d]
        PROVE  /\ shown'[d][i].what = "menu" => AskedBy(d, shown[d][i].about)'
               /\ shown'[d][i].pinned => shown'[d][i].what = "menu"
    <3>1. /\ shown[d][i].what = "menu" => AskedBy(d, shown[d][i].about)
          /\ shown[d][i].pinned => shown[d][i].what = "menu"
      BY DEF IInv, ShownGrounded
    <3>2. given' = given
      BY DEF PinMessage, core
    <3>3. d = c.chat /\ i = c.id => shown[d][i].what = "menu"
      BY <1>3 DEF IsMenu
    <3>4. /\ shown'[d][i].what = shown[d][i].what /\ shown'[d][i].about = shown[d][i].about
          /\ shown'[d][i].pinned => shown[d][i].pinned \/ (d = c.chat /\ i = c.id)
      BY <1>5
    <3>5. AskedBy(d, shown[d][i].about) => AskedBy(d, shown[d][i].about)'
      BY <3>2, <3>4 DEF AskedBy
    <3> QED
      BY <3>1, <3>3, <3>4, <3>5
  <2>2. \A d \in Chats : \A i \in DOMAIN shown'[d] : i \in DOMAIN shown[d]
    BY <1>6
  <2> QED
    BY <2>1, <2>2 DEF ShownGrounded
<1>9. StreamsGrounded'
  <2>1. \A s \in Tasks \cup CommandStreams : \A m \in Range(bus'[s]) : m \in Range(bus[s])
    BY <1>1, TakenHolds DEF PinMessage, Done
  <2> QED
    BY <1>7, <2>1, StreamsKept DEF PinMessage, core, IInv
<1>10. RowsGrounded' /\ GivenGrounded' /\ ReadingsGrounded'
  BY <1>7, RowsKept, GivenKept, ReadingsKept DEF PinMessage, core, IInv
<1> QED
  BY <1>8, <1>9, <1>10 DEF IInv

LEMMA InvSend ==
  ASSUME TypeOK, IInv, SendMessage
  PROVE  IInv'
<1> SUFFICES ASSUME NEW c, c = Head(bus["send"])
             PROVE  IInv'
  OBVIOUS
<1>1. "send" \in CommandStreams /\ "sent" \in Tasks /\ "send" # "sent" /\ bus["send"] # << >>
      /\ bus["send"] \in Seq(BotCommands("send"))
  BY DEF CommandStreams, Tasks, SendMessage, TypeOK
<1>2. c \in Range(bus["send"]) /\ c.chat \in Chats /\ c.about \in Nat
  BY <1>1, TailHolds, OldestType
<1>3. c.what = "menu" => AskedBy(c.chat, c.about)
  BY <1>1, <1>2 DEF IInv, StreamsGrounded, Grounded
<1>4. PICK new : new = [what |-> c.what, about |-> c.about, pinned |-> FALSE]
  OBVIOUS
<1>5. shown' = [shown EXCEPT ![c.chat] = Append(@, new)] /\ UNCHANGED core
  BY <1>4 DEF SendMessage
<1>6. PICK last : last = Len(shown[c.chat]) + 1
  OBVIOUS
<1>7. shown \in [Chats -> Seq(Shown)]
  BY DEF TypeOK, Shown
<1>8. ASSUME NEW d \in Chats
      PROVE  /\ DOMAIN shown'[d] = DOMAIN shown[d] \cup (IF d = c.chat THEN {last} ELSE {})
             /\ \A i \in DOMAIN shown[d] : shown'[d][i] = shown[d][i]
             /\ d = c.chat => shown'[d][last] = new
  <2>1. CASE d = c.chat
    <3>1. shown[d] \in Seq(Shown) /\ shown'[d] = Append(shown[d], new) /\ last = Len(shown[d]) + 1
      BY <1>5, <1>6, <1>7, <2>1
    <3>2. /\ DOMAIN shown[d] = 1..Len(shown[d]) /\ Len(shown[d]) \in Nat
      BY <3>1
    <3>3. /\ DOMAIN Append(shown[d], new) = 1..Len(shown[d]) + 1
          /\ \A i \in 1..Len(shown[d]) : Append(shown[d], new)[i] = shown[d][i]
          /\ Append(shown[d], new)[Len(shown[d]) + 1] = new
      BY <3>1
    <3> QED
      BY <2>1, <3>1, <3>2, <3>3
  <2>2. CASE d # c.chat
    BY <1>2, <1>5, <1>7, <2>2
  <2> QED
    BY <2>1, <2>2
<1>9. Kept
  <2>1. given' = given
    BY <1>5 DEF core
  <2> QED
    BY <1>8, <2>1 DEF Kept
<1>10. ShownGrounded'
  <2>1. given' = given
    BY <1>5 DEF core
  <2>2. ASSUME NEW d \in Chats, NEW i \in DOMAIN shown'[d]
        PROVE  /\ shown'[d][i].what = "menu" => AskedBy(d, shown[d][i].about)'
               /\ shown'[d][i].pinned => shown'[d][i].what = "menu"
    <3>1. CASE i \in DOMAIN shown[d]
      <4>1. shown'[d][i] = shown[d][i]
        BY <1>8, <3>1
      <4> QED
        BY <2>1, <3>1, <4>1 DEF IInv, ShownGrounded, AskedBy
    <3>2. CASE d = c.chat /\ i = last
      <4>1. shown'[d][i] = new
        BY <1>8, <3>2
      <4> QED
        BY <1>3, <1>4, <2>1, <3>2, <4>1 DEF AskedBy
    <3> QED
      BY <1>8, <3>1, <3>2
  <2> QED
    BY <2>2 DEF ShownGrounded
<1>11. \A m : m.chat = c.chat /\ m.n = c.about /\ m.id = last /\ c.what = "menu" => Grounded("sent", m)'
  <2>1. c.what = "menu" => IsMenu(c.chat, last)'
    BY <1>2, <1>4, <1>8 DEF IsMenu
  <2>2. c.what = "menu" => AskedBy(c.chat, c.about)'
    BY <1>3, <1>5 DEF AskedBy, core
  <2> QED
    BY <2>1, <2>2 DEF Grounded
<1>12. \A s \in Tasks \cup CommandStreams : \A m \in Range(bus'[s]) :
         m \in Range(bus[s]) \/ Grounded(s, m)'
  <2>1. Tail(bus["send"]) \in Seq(Carried("send")) /\ Range(Tail(bus["send"])) \subseteq Range(bus["send"])
    BY <1>1, BusType, TailHolds
  <2>2. PICK rest : rest = [bus EXCEPT !["send"] = Tail(@)]
    OBVIOUS
  <2>3. PICK ack : ack = [n |-> c.about, chat |-> c.chat, id |-> last, what |-> "ack"]
    OBVIOUS
  <2>4. \/ c.what = "menu" /\ bus' = [rest EXCEPT !["sent"] = Append(@, ack)]
        \/ bus' = rest
    BY <1>6, <2>2, <2>3 DEF SendMessage
  <2>5. DOMAIN rest = Tasks \cup CommandStreams /\ rest["sent"] = bus["sent"]
        /\ \A s \in Tasks \cup CommandStreams : Range(rest[s]) \subseteq Range(bus[s])
    BY <1>1, <2>1, <2>2 DEF TypeOK
  <2>6. CASE bus' = rest
    BY <2>5, <2>6
  <2>7. CASE c.what = "menu" /\ bus' = [rest EXCEPT !["sent"] = Append(@, ack)]
    <3>1. Range(Append(bus["sent"], ack)) = Range(bus["sent"]) \cup {ack}
      <4>1. shown[c.chat] \in Seq(Shown) /\ last \in Nat
        BY <1>2, <1>6, <1>7
      <4>2. ack \in Carried("sent")
        BY <1>1, <1>2, <2>3, <4>1, EntriesAre DEF Carried, Acks
      <4>3. bus["sent"] \in Seq(Carried("sent"))
        BY <1>1, BusType
      <4> QED
        BY <4>2, <4>3, AppendHolds
    <3>2. Grounded("sent", ack)'
      BY <1>11, <2>3, <2>7
    <3>3. \A s \in Tasks \cup CommandStreams :
            bus'[s] = IF s = "sent" THEN Append(bus["sent"], ack) ELSE rest[s]
      BY <2>5, <2>7
    <3> QED
      BY <2>5, <3>1, <3>2, <3>3
  <2> QED
    BY <2>4, <2>6, <2>7
<1>13. StreamsGrounded'
  BY <1>5, <1>9, <1>12, StreamsKept DEF core, IInv
<1>14. RowsGrounded' /\ GivenGrounded' /\ ReadingsGrounded'
  BY <1>5, <1>9, RowsKept, GivenKept, ReadingsKept DEF core, IInv
<1> QED
  BY <1>10, <1>13, <1>14 DEF IInv

\* Somebody writes something, or the bot is promoted.
LEMMA InvDeed ==
  ASSUME TypeOK, IInv, NEW h \in Tasks, NEW e \in Entries[h], NEW d \in Given,
         given' = Append(given, d),
         bus' = [bus EXCEPT ![h] = Append(@, e)],
         UNCHANGED <<row, todo, reading, shown>>,
         h # "sent", e.n = Len(given) + 1,
         h = "message" => e.chat = d.chat /\ e.what = d.what /\ e.target = d.target,
         d.what = "setup" => d.target = d.chat,
         d.late => d.what = "setup" /\ row[d.chat].menu # 0
  PROVE  IInv'
<1>1. given \in Seq(Given)
  BY DEF TypeOK, Given
<1>2. /\ DOMAIN given' = DOMAIN given \cup {e.n}
      /\ \A n \in DOMAIN given : given'[n] = given[n]
      /\ given'[e.n] = d
  BY <1>1
<1>3. Kept
  BY <1>2 DEF Kept
<1>4. Grounded(h, e)'
  BY <1>2 DEF Grounded, Tasks
<1>5. StreamsGrounded'
  <2>1. \A s \in Tasks \cup CommandStreams : \A m \in Range(bus'[s]) :
          m \in Range(bus[s]) \/ (s = h /\ m = e)
    BY PutHolds DEF Carried
  <2> QED
    BY <1>3, <1>4, <2>1, StreamsKept DEF IInv
<1>6. RowsGrounded' /\ ShownGrounded' /\ ReadingsGrounded'
  BY <1>3, RowsKept, ShownKept, ReadingsKept DEF IInv
<1>7. GivenGrounded'
  BY <1>2 DEF IInv, GivenGrounded
<1> QED
  BY <1>5, <1>6, <1>7 DEF IInv

LEMMA InvWrite ==
  ASSUME TypeOK, IInv, NEW c \in Chats, NEW d \in Chats, NEW what \in Commands, NEW x \in BOOLEAN,
         Write(c, what, d, x)
  PROVE  IInv'
<1> DEFINE deed == [chat |-> c, what |-> what, target |-> d, executor |-> x,
                    late |-> what = "setup" /\ row[c].menu # 0]
           order == [n |-> Len(given) + 1, chat |-> c, what |-> what, target |-> d, executor |-> x]
<1>1. what \in {"setup"} \cup AdminCommands /\ Len(given) + 1 \in Nat
  BY GroupsAssumption DEF TypeOK
<1>2. deed \in Given
  BY <1>1 DEF Given
<1>3. order \in Entries["message"] /\ "message" \in Tasks
  BY <1>1, EntriesAre DEF Orders, Tasks
<1> QED
  BY <1>2, <1>3, InvDeed DEF Write

LEMMA InvPromote ==
  ASSUME TypeOK, IInv, NEW c \in Chats, Promote(c)
  PROVE  IInv'
<1> DEFINE deed == [chat |-> c, what |-> "promote", target |-> c, executor |-> FALSE, late |-> FALSE]
           news == [n |-> Len(given) + 1, chat |-> c, what |-> "promote"]
<1>1. Len(given) + 1 \in Nat
  BY DEF TypeOK
<1>2. deed \in Given
  BY DEF Given
<1>3. news \in Entries["membership"] /\ "membership" \in Tasks
  BY <1>1, EntriesAre DEF Promotions, Tasks
<1> QED
  BY <1>2, <1>3, InvDeed DEF Promote

\* A transaction that commits with grounded commands and grounded rows, that
\* records no menu less and makes no row another transaction relies on.
LEMMA InvCommit ==
  ASSUME TypeOK, IInv, NEW r \in reading, NEW msgs, Commit(r, msgs),
         \A m \in Range(msgs) : Grounded(m.stream, m),
         RowsGrounded',
         \A c \in Chats : row[c].menu # 0 => row'[c].menu # 0,
         \A q \in reading : q # r /\ q.task # "membership" => row'[q.chat].known = row[q.chat].known,
         Range(msgs) \subseteq Owed
  PROVE  IInv'
<1>1. Kept
  BY NothingLost DEF Commit
<1>2. StreamsGrounded'
  <2>1. \A h \in Tasks : \A m \in Range(todo'[h]) : m \in Range(todo[h]) \/ Grounded(m.stream, m)'
    <3>1. \A m \in Range(msgs) : Grounded(m.stream, m)'
      BY <1>1, OwedType, KeptGrounded
    <3>2. \A h \in Tasks : todo'[h] = IF h = r.task THEN msgs ELSE todo[h]
      BY DEF Commit, TypeOK
    <3> QED
      BY <3>1, <3>2
  <2> QED
    BY <1>1, <2>1, StreamsKept DEF Commit, IInv
<1>3. ShownGrounded'
  BY <1>1, ShownKept DEF Commit, IInv
<1>4. GivenGrounded'
  <2>1. \A n \in DOMAIN given : given[n].chat \in Chats
    <3>1. given \in Seq(Given)
      BY DEF TypeOK, Given
    <3>2. \A n \in DOMAIN given : given[n] \in Given
      BY <3>1
    <3> QED
      BY <3>2 DEF Given
  <2>2. \A n \in DOMAIN given : row[given[n].chat].menu # 0 => row'[given[n].chat].menu # 0
    BY <2>1
  <2> QED
    BY <2>2, GivenKept DEF Commit, IInv
<1>5. ReadingsGrounded'
  BY <1>1, ReadingsKept DEF Commit, IInv
<1> QED
  BY <1>2, <1>3, <1>4, <1>5 DEF IInv

\* A message that is no menu needs no ground.
LEMMA NoticeGrounded ==
  ASSUME NEW c \in Chats, NEW w \in {"notice", "hint"}, NEW n \in Nat
  PROVE  /\ \A m \in Range(<<Message(c, w, n)>>) : Grounded(m.stream, m)
         /\ Range(<<Message(c, w, n)>>) \subseteq Owed
<1>1. Range(<<Message(c, w, n)>>) = {Message(c, w, n)}
  BY DEF Range
<1>2. Grounded(Message(c, w, n).stream, Message(c, w, n))
  BY DEF Message, Command, Grounded
<1>3. Message(c, w, n) \in Owed
  BY CommandType DEF Texts
<1> QED
  BY <1>1, <1>2, <1>3

\* The rows are left alone.
LEMMA InvRest ==
  ASSUME TypeOK, IInv, NEW r \in reading, NEW msgs, Commit(r, msgs),
         \A m \in Range(msgs) : Grounded(m.stream, m),
         Range(msgs) \subseteq Owed,
         UNCHANGED row
  PROVE  IInv'
<1>1. RowsGrounded'
  BY NothingLost, RowsKept DEF Commit, IInv
<1> QED
  BY <1>1, InvCommit

\* What a /setup rests on: it is written in its own group, and one that was
\* written late has read a row with a menu.
LEMMA SetupReads ==
  ASSUME TypeOK, IInv, NEW r \in reading, Accepted(r, "setup"), ~Connected(r)
  PROVE  /\ AskedBy(r.chat, r.entry.n)
         /\ r.row.known = row[r.chat].known
         /\ \A q \in reading : q # r => q.task # "message"
<1>1. r.task = "message" /\ r.entry.what = "setup"
  BY DEF Accepted
<1>2. /\ r.entry.n \in DOMAIN given
      /\ given[r.entry.n].chat = r.entry.chat /\ given[r.entry.n].what = "setup"
      /\ given[r.entry.n].target = r.entry.target
      /\ r.chat = r.entry.target
      /\ r.row.known = row[r.chat].known
      /\ given[r.entry.n].late => r.row.known /\ r.row.menu # 0
      /\ \A q \in reading : q.task = r.task => q = r
  <2>1. Grounded("message", r.entry)
    BY <1>1 DEF IInv, ReadingsGrounded
  <2>2. r.entry.n \in DOMAIN given /\ given[r.entry.n]["chat"] = r.entry["chat"]
        /\ given[r.entry.n]["what"] = r.entry["what"] /\ given[r.entry.n]["target"] = r.entry["target"]
    BY <2>1 DEF Grounded
  <2>3. /\ r.chat = r.entry.target
        /\ r.row.known = row[r.chat].known
        /\ given[r.entry.n].late => r.row.known /\ r.row.menu # 0
        /\ \A q \in reading : q.task = r.task => q = r
    BY <1>1 DEF IInv, ReadingsGrounded
  <2> QED
    BY <1>1, <2>2, <2>3
<1>3. given[r.entry.n].target = given[r.entry.n].chat
  BY <1>2 DEF IInv, GivenGrounded
<1>4. ~given[r.entry.n].late
  BY <1>2 DEF Connected
<1> QED
  BY <1>1, <1>2, <1>3, <1>4 DEF AskedBy

LEMMA InvOnboard ==
  ASSUME TypeOK, IInv, NEW r \in reading, Onboard(r)
  PROVE  IInv'
<1> SUFFICES ASSUME NEW c, c = r.chat, NEW n, n = r.entry.n
             PROVE  IInv'
  OBVIOUS
<1>1. c \in Chats /\ n \in Nat /\ row[c] \in Row
  BY ReadingType DEF TypeOK
<1>2. /\ AskedBy(c, n)
      /\ r.row.known = row[c].known
      /\ \A q \in reading : q # r => q.task # "message"
  BY SetupReads DEF Onboard
<1>3. row' = [row EXCEPT ![c] = IF r.row.known THEN [@ EXCEPT !.setup = n]
                                ELSE [NoCustomer EXCEPT !.known = TRUE, !.setup = n]]
  BY DEF Onboard
<1>4. /\ row'[c].setup = n /\ row'[c].known
      /\ row'[c].menu = row[c].menu
      /\ \A d \in Chats : d # c => row'[d] = row[d]
  <2>1. row'[c] = IF row[c].known THEN [row[c] EXCEPT !.setup = n]
                  ELSE [NoCustomer EXCEPT !.known = TRUE, !.setup = n]
    BY <1>1, <1>2, <1>3 DEF TypeOK
  <2>2. CASE row[c].known
    BY <1>1, <1>3, <2>1, <2>2 DEF Row, TypeOK
  <2>3. CASE ~row[c].known
    <3>1. row[c].menu = 0
      BY <1>1, <2>3 DEF IInv, RowsGrounded
    <3> QED
      BY <1>1, <1>3, <2>1, <2>3, <3>1 DEF NoCustomer, TypeOK
  <2> QED
    BY <2>2, <2>3
<1>5. UNCHANGED <<given, shown>>
  BY DEF Onboard, Commit
<1>6. RowsGrounded'
  <2>1. ASSUME NEW d \in Chats
        PROVE  /\ row'[d].setup # 0 => AskedBy(d, row[d].setup)'
               /\ row'[d].menu # 0 => row'[d].known /\ IsMenu(d, row[d].menu)'
    <3>1. CASE d = c
      BY <1>1, <1>2, <1>4, <1>5, <3>1 DEF IInv, RowsGrounded, AskedBy, IsMenu
    <3>2. CASE d # c
      BY <1>4, <1>5, <3>2 DEF IInv, RowsGrounded, AskedBy, IsMenu
    <3> QED
      BY <3>1, <3>2
  <2> QED
    BY <2>1 DEF RowsGrounded
<1>7. \A q \in reading : q # r /\ q.task # "membership" => row'[q.chat].known = row[q.chat].known
  <2>1. ASSUME NEW q \in reading, q # r, q.task # "membership"
        PROVE  row'[q.chat].known = row[q.chat].known
    <3>1. q.task = "sent" /\ q.chat \in Chats
      BY <1>2, <2>1, ReadingType DEF Tasks
    <3>2. row[q.chat].known
      BY <3>1 DEF IInv, ReadingsGrounded
    <3>3. CASE q.chat = c
      <4>1. row[c].known \in BOOLEAN /\ row'[c].known \in BOOLEAN
        BY <1>1, <1>3 DEF TypeOK, Row, NoCustomer
      <4> QED
        BY <1>4, <3>2, <3>3, <4>1
    <3>4. CASE q.chat # c
      BY <1>4, <3>1, <3>4
    <3> QED
      BY <3>3, <3>4
  <2> QED
    BY <2>1
<1>8. /\ \A m \in Range(SetupCommands(c, n)) : Grounded(m.stream, m)
      /\ Range(SetupCommands(c, n)) \subseteq Owed
  <2>1. Range(SetupCommands(c, n)) =
          {Command("name", c, "none", n, 0), Message(c, "menu", n), Command("close", c, "none", n, 0)}
    BY DEF SetupCommands, Range
  <2>2. /\ Grounded(Message(c, "menu", n).stream, Message(c, "menu", n))
        /\ Grounded(Command("name", c, "none", n, 0).stream, Command("name", c, "none", n, 0))
        /\ Grounded(Command("close", c, "none", n, 0).stream, Command("close", c, "none", n, 0))
    BY <1>2 DEF Message, Command, Grounded
  <2>3. "name" \in CommandStreams \ {"send"} /\ "close" \in CommandStreams \ {"send"} /\ "menu" \in Texts
    BY DEF CommandStreams, Texts
  <2> QED
    BY <1>1, <2>1, <2>2, <2>3, CommandType
<1>9. Commit(r, SetupCommands(c, n))
  BY DEF Onboard
<1>10. \A d \in Chats : row[d].menu # 0 => row'[d].menu # 0
  BY <1>4
<1> QED
  BY <1>6, <1>7, <1>8, <1>9, <1>10, InvCommit

LEMMA InvAdminister ==
  ASSUME TypeOK, IInv, NEW r \in reading, Administer(r)
  PROVE  IInv'
<1>1. /\ r.chat \in Chats /\ r.entry.n \in Nat /\ r.entry.chat \in Chats
      /\ row \in [Chats -> Row]
  BY ReadingType DEF TypeOK
<1>2. PICK what \in AdminCommands :
        row' = IF r.row.known THEN [row EXCEPT ![r.chat] = Edited(what, r.row, @)] ELSE row
  BY DEF Administer
<1>3. \A d \in Chats : /\ row'[d].known = row[d].known /\ row'[d].setup = row[d].setup
                       /\ row'[d].menu = row[d].menu
  BY <1>1, <1>2, EditedType
<1>4. RowsGrounded'
  BY <1>3 DEF Administer, Commit, IInv, RowsGrounded, AskedBy, IsMenu
<1>5. /\ \A m \in Range(<<Message(r.entry.chat, "notice", r.entry.n)>>) : Grounded(m.stream, m)
      /\ Range(<<Message(r.entry.chat, "notice", r.entry.n)>>) \subseteq Owed
  BY <1>1, NoticeGrounded
<1>6. Commit(r, <<Message(r.entry.chat, "notice", r.entry.n)>>)
  BY DEF Administer, AdminReply
<1> QED
  BY <1>3, <1>4, <1>5, <1>6, ReadingType, InvCommit

LEMMA InvAttach ==
  ASSUME TypeOK, IInv, NEW r \in reading, AttachMenu(r)
  PROVE  IInv'
<1> SUFFICES ASSUME NEW c, c = r.chat, NEW id, id = r.entry.id
             PROVE  IInv'
  OBVIOUS
<1>1. r.task = "sent" /\ c \in Chats /\ r.entry.n \in Nat /\ r.entry \in Acks
  BY ReadingType, EntriesAre DEF AttachMenu
<1>2. IsMenu(c, id) /\ r.entry.chat = c /\ row[c].known /\ Grounded("sent", r.entry)
  BY <1>1 DEF IInv, ReadingsGrounded, Grounded
<1>3. id \in Nat \ {0}
  <2>1. shown[c] \in Seq(Shown)
    BY <1>1 DEF TypeOK, Shown
  <2> QED
    BY <1>2, <2>1 DEF IsMenu
<1>4. CASE /\ row' = [row EXCEPT ![c].menu = id]
           /\ Commit(r, <<Command("pin", c, "none", r.entry.n, id)>>)
  <2>1. \A d \in Chats : /\ row'[d].known = row[d].known /\ row'[d].setup = row[d].setup
                         /\ row'[d].menu = IF d = c THEN id ELSE row[d].menu
    BY <1>1, <1>4 DEF TypeOK, Row
  <2>2. RowsGrounded'
    BY <1>2, <1>4, <2>1 DEF Commit, IInv, RowsGrounded, AskedBy, IsMenu
  <2>3. Range(<<Command("pin", c, "none", r.entry.n, id)>>) = {Command("pin", c, "none", r.entry.n, id)}
    BY DEF Range
  <2>4. Grounded(Command("pin", c, "none", r.entry.n, id).stream, Command("pin", c, "none", r.entry.n, id))
    BY <1>2 DEF Command, Grounded
  <2>5. Command("pin", c, "none", r.entry.n, id) \in Owed
    BY <1>1, <1>3, CommandType DEF CommandStreams
  <2>6. \A d \in Chats : row[d].menu # 0 => row'[d].menu # 0
    BY <1>3, <2>1
  <2>7. \A q \in reading : row'[q.chat].known = row[q.chat].known
    BY <2>1, ReadingType
  <2> QED
    BY <1>4, <2>2, <2>3, <2>4, <2>5, <2>6, <2>7, InvCommit
<1>5. CASE Commit(r, << >>) /\ UNCHANGED row
  BY <1>5, EmptyHolds, InvRest
<1> QED
  BY <1>2, <1>4, <1>5 DEF AttachMenu

LEMMA InvDecide ==
  ASSUME TypeOK, IInv, NEW r \in reading, Decide(r)
  PROVE  IInv'
<1>1. r.chat \in Chats /\ r.entry.n \in Nat
  BY ReadingType
<1>2. CASE Ignored(r)
  BY <1>2, EmptyHolds, InvRest DEF Ignored
<1>3. CASE SetupRefused(r)
  <2>1. Commit(r, <<Message(r.chat, "notice", r.entry.n)>>) /\ UNCHANGED row
    BY <1>3 DEF SetupRefused
  <2> QED
    BY <1>1, <2>1, NoticeGrounded, InvRest
<1>4. CASE Onboard(r)
  BY <1>4, InvOnboard
<1>5. CASE Administer(r)
  BY <1>5, InvAdminister
<1>6. CASE Hint(r)
  <2>1. CASE Commit(r, << >>)
    BY <1>6, <2>1, EmptyHolds, InvRest DEF Hint
  <2>2. CASE Commit(r, <<Message(r.chat, "hint", r.entry.n)>>)
    BY <1>1, <1>6, <2>2, NoticeGrounded, InvRest DEF Hint
  <2> QED
    BY <1>6, <2>1, <2>2 DEF Hint
<1>7. CASE AttachMenu(r)
  BY <1>7, InvAttach
<1> QED
  BY <1>2, <1>3, <1>4, <1>5, <1>6, <1>7 DEF Decide

LEMMA InvStep == TypeOK /\ IInv /\ [Next]_vars => IInv'
<1> SUFFICES ASSUME TypeOK, IInv, [Next]_vars
             PROVE  IInv'
  OBVIOUS
<1>1. ASSUME NEW h \in Tasks, Read(h) PROVE IInv'
  BY <1>1, InvRead
<1>2. ASSUME NEW h \in Tasks, Publish(h) PROVE IInv'
  BY <1>2, InvPublish
<1>3. ASSUME NEW r \in reading, Decide(r) PROVE IInv'
  BY <1>3, InvDecide
<1>4. CASE EditGeneral \/ CloseGeneral
  BY <1>4, InvTaken DEF EditGeneral, CloseGeneral, Done, CommandStreams
<1>5. CASE SendMessage
  BY <1>5, InvSend
<1>6. CASE PinMessage
  BY <1>6, InvPin
<1>7. CASE Crash
  BY <1>7, InvCrash
<1>8. ASSUME NEW s \in CommandStreams, TelegramRefuses(s) PROVE IInv'
  BY <1>8, InvTaken DEF TelegramRefuses
<1>9. ASSUME NEW c \in Chats, NEW d \in Chats, NEW what \in Commands, NEW e \in BOOLEAN,
             Write(c, what, d, e)
      PROVE  IInv'
  BY <1>9, InvWrite
<1>10. ASSUME NEW c \in Chats, Promote(c) PROVE IInv'
  BY <1>10, InvPromote
<1>11. CASE UNCHANGED vars
  BY <1>11, InvQuiet DEF vars
<1> QED
  BY <1>1, <1>2, <1>3, <1>4, <1>5, <1>6, <1>7, <1>8, <1>9, <1>10, <1>11 DEF Next, Progress

-----------------------------------------------------------------------------
(* The theorems.                                                           *)

\* The inductive invariant holds for any groups, any number of commands and faults.
THEOREM Inductive == Spec => []IInv
<1> QED
  BY TypeCorrect, InvInit, InvStep, PTL DEF Spec

\* The message recorded as a group's menu is a menu of that group, and only menus
\* are pinned, however many groups are set up at a time.
THEOREM MenuIsOursCorrect == Spec => []MenuIsOurs
<1>1. IInv => MenuIsOurs
  BY DEF IInv, RowsGrounded, ShownGrounded, IsMenu, MenuIsOurs
<1> QED
  BY Inductive, <1>1, PTL

\* A /setup written when the group has its menu sends no other one.
THEOREM NoSecondMenuCorrect == Spec => []NoSecondMenu
<1>1. IInv => NoSecondMenu
  BY DEF IInv, ShownGrounded, AskedBy, NoSecondMenu
<1> QED
  BY Inductive, <1>1, PTL

\* No step takes a recorded menu away: neither a /setup nor a command that read the
\* row before the menu was recorded.
LEMMA MenuStep ==
  ASSUME TypeOK, IInv, [Next]_vars, NEW c \in Chats, row[c].menu # 0
  PROVE  row'[c].menu # 0
<1>1. row \in [Chats -> Row]
  BY DEF TypeOK
<1>2. ASSUME NEW r \in reading, Decide(r) PROVE row'[c].menu # 0
  <2>1. r.chat \in Chats /\ r.row \in Row
    BY ReadingType
  <2>2. CASE UNCHANGED row
    BY <2>2
  <2>3. CASE Onboard(r)
    <3>1. r.row.known = row[r.chat].known
      BY <2>3, SetupReads DEF Onboard
    <3>2. row[c].known
      BY DEF IInv, RowsGrounded
    <3>3. r.chat = c => row' = [row EXCEPT ![c] = [@ EXCEPT !.setup = r.entry.n]]
      BY <2>3, <3>1, <3>2 DEF Onboard
    <3>4. CASE r.chat = c
      <4>1. row[c] \in Row
        BY <1>1
      <4>2. row'[c] = [row[c] EXCEPT !.setup = r.entry.n]
        BY <1>1, <3>3, <3>4
      <4> QED
        BY <4>1, <4>2 DEF Row
    <3>5. CASE r.chat # c
      BY <1>1, <2>1, <2>3, <3>5 DEF Onboard
    <3> QED
      BY <3>4, <3>5
  <2>4. CASE Administer(r)
    <3>1. PICK what \in AdminCommands :
            row' = IF r.row.known THEN [row EXCEPT ![r.chat] = Edited(what, r.row, @)] ELSE row
      BY <2>4 DEF Administer
    <3>2. Edited(what, r.row, row[r.chat]).menu = row[r.chat].menu
      BY <1>1, <2>1, EditedType
    <3> QED
      BY <1>1, <2>1, <3>1, <3>2
  <2>5. CASE AttachMenu(r) /\ row' = [row EXCEPT ![r.chat].menu = r.entry.id]
    <3>1. r.task = "sent" /\ r.entry.chat = r.chat
      BY <2>5 DEF AttachMenu, IInv, ReadingsGrounded
    <3>2. IsMenu(r.chat, r.entry.id)
      BY <3>1 DEF IInv, ReadingsGrounded, Grounded
    <3>3. shown[r.chat] \in Seq(Shown)
      BY <2>1 DEF TypeOK, Shown
    <3>4. r.entry.id # 0
      BY <3>2, <3>3 DEF IsMenu
    <3> QED
      BY <1>1, <2>1, <2>5, <3>4 DEF Row
  <2> QED
    BY <1>2, <2>2, <2>3, <2>4, <2>5
      DEF Decide, Ignored, SetupRefused, Hint, AttachMenu
<1>3. (\E r \in reading : Decide(r)) \/ UNCHANGED row
  BY DEF Next, Progress, Read, Take, Publish, EditGeneral, CloseGeneral, SendMessage, PinMessage,
         core, Crash, TelegramRefuses, Write, Promote, vars
<1> QED
  BY <1>2, <1>3

\* A menu once recorded is never lost again.
THEOREM MenuKeptCorrect == Spec => MenuKept
<1>1. TypeOK /\ IInv /\ [Next]_vars => [\A c \in Chats : row[c].menu # 0 => row'[c].menu # 0]_row
  BY MenuStep
<1> QED
  BY TypeCorrect, Inductive, <1>1, PTL DEF Spec, MenuKept

=============================================================================
