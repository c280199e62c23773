-------------------------- MODULE MenuPromptProofs --------------------------
(***************************************************************************)
(* Theorems about MenuPrompt, for any members, presses, texts and faults.  *)
(***************************************************************************)
EXTENDS MenuPrompt, StreamLemmas, FiniteSetTheorems

Reading == [task : Consumers, entry : Entries, seen : BOOLEAN, active : BOOLEAN, state : States]
Bound == [press : 0..MaxPress, lapse : Nat, toggle : Nat, redelivery : Nat, loss : Nat, crash : Nat]
Row == [state : States, expires : {"never", "later", "due"}]
Text == [user : Users, shown : BOOLEAN]

\* What the streams carry.
Carried(s) == IF s \in Consumers THEN Entries ELSE BotCommands(s)

-----------------------------------------------------------------------------
(* Types.                                                                  *)

LEMMA BusType ==
  ASSUME TypeOK, NEW s \in Consumers \cup CommandStreams
  PROVE  bus[s] \in Seq(Carried(s))
<1>1. Consumers \cap CommandStreams = {}
  BY DEF Consumers, CommandStreams
<1> QED
  BY <1>1 DEF TypeOK, Carried

\* The conjuncts of TypeOK about the bus.
BusOK ==
  /\ DOMAIN bus = Consumers \cup CommandStreams
  /\ \A s \in Consumers : bus[s] \in Seq(Entries)
  /\ \A s \in CommandStreams : bus[s] \in Seq(BotCommands(s))

\* One stream changes, and still holds what it carries.
LEMMA BusOne ==
  ASSUME TypeOK, NEW s \in Consumers \cup CommandStreams, NEW e \in Seq(Carried(s)),
         bus' = [bus EXCEPT ![s] = e]
  PROVE  BusOK'
<1>1. DOMAIN bus = Consumers \cup CommandStreams /\ Consumers \cap CommandStreams = {}
  BY DEF TypeOK, Consumers, CommandStreams
<1>2. \A x \in Consumers \cup CommandStreams : bus'[x] \in Seq(Carried(x))
  BY <1>1, BusType
<1>3. DOMAIN bus' = Consumers \cup CommandStreams
  BY <1>1
<1> QED
  BY <1>1, <1>2, <1>3 DEF BusOK, Carried

LEMMA StoredType ==
  ASSUME NEW s \in States
  PROVE  Stored(s) \in Row /\ Stored(s).state = s
BY DEF Stored, Row

LEMMA MovesType == \A mv \in Moves : mv.from \in States /\ mv.to \in States
BY DEF Moves, Move, States

LEMMA CommandType ==
  /\ \A v \in States : Edit(v) \in Commands
  /\ Reopen \in Commands /\ Close \in Commands
  /\ \A i \in Nat : Delete(i) \in Commands
BY DEF Edit, Reopen, Close, Delete, Command, Commands, BotCommands

\* What may be owed, by stream.
LEMMA OwedType ==
  /\ \A s \in CommandStreams : BotCommands(s) \subseteq Commands
  /\ \A c \in Commands : c.stream \in CommandStreams /\ c \in BotCommands(c.stream)
BY DEF Commands, BotCommands, CommandStreams

LEMMA TypeInit == Init => TypeOK
<1> SUFFICES ASSUME Init
             PROVE  TypeOK
  OBVIOUS
<1>1. fsm \in [Users -> Row] /\ "main" \in States
  BY StoredType DEF Init, States
<1>2. /\ DOMAIN bus = Consumers \cup CommandStreams
      /\ \A s \in Consumers : bus[s] \in Seq(Entries)
      /\ \A s \in CommandStreams : bus[s] \in Seq(BotCommands(s))
      /\ todo \in [Tasks -> Seq(Commands)]
      /\ texts \in Seq(Text)
  BY DEF Init
<1>3. left \in Bound
  BY BoundsAssumption DEF Init, Bound
<1>4. made \in [1..MaxText -> Nat] /\ opened \in [Users -> Nat]
  BY DEF Init
<1> QED
  BY <1>1, <1>2, <1>3, <1>4 DEF Init, TypeOK, Bound, Row, Text

\* The oldest entry of a stream.
LEMMA OldestType ==
  ASSUME TypeOK, NEW s \in Consumers \cup CommandStreams, bus[s] # << >>
  PROVE  /\ Head(bus[s]) \in Carried(s) /\ Head(bus[s]) \in Range(bus[s])
         /\ Tail(bus[s]) \in Seq(Carried(s)) /\ Range(Tail(bus[s])) \subseteq Range(bus[s])
BY BusType, TailHolds

LEMMA StateOfType ==
  ASSUME TypeOK, NEW u \in Users
  PROVE  StateOf(u) \in States
BY DEF TypeOK, StateOf, States

LEMMA TypeRead ==
  ASSUME TypeOK, NEW h \in Consumers, Read(h)
  PROVE  TypeOK'
<1> SUFFICES ASSUME NEW m, m = Head(bus[h])
             PROVE  TypeOK'
  OBVIOUS
<1>1. bus[h] # << >> /\ bus[h] \in Seq(Entries) /\ Carried(h) = Entries
  BY DEF Read, TypeOK, Carried
<1>2. m \in Entries
  <2>1. Head(bus[h]) \in Entries
    BY <1>1, OldestType
  <2> QED
    BY <2>1
<1>3. BusOK'
  <2>1. Tail(bus[h]) \in Seq(Carried(h))
    BY <1>1, OldestType
  <2>2. Append(Tail(bus[h]), m) \in Seq(Carried(h))
    BY <1>1, <1>2, <2>1, AppendHolds
  <2> QED
    BY <2>1, <2>2, BusOne DEF Read
<1>4. left' \in Bound
  <2>1. left \in Bound
    BY DEF TypeOK, Bound
  <2> QED
    BY <2>1 DEF Read, Bound
<1>5. reading' \subseteq Reading
  <2>1. m.user \in Users
    BY <1>2 DEF Entries
  <2>2. StateOf(m.user) \in States
    BY <2>1, StateOfType
  <2>3. Seen(h, m) \in BOOLEAN /\ active \in BOOLEAN
    BY DEF Seen, TypeOK
  <2>4. [task |-> h, entry |-> m, seen |-> Seen(h, m), active |-> active, state |-> StateOf(m.user)] \in Reading
    BY <1>2, <2>2, <2>3 DEF Reading
  <2>5. reading \subseteq Reading
    BY DEF TypeOK, Reading
  <2> QED
    BY <2>4, <2>5 DEF Read
<1> QED
  BY <1>3, <1>4, <1>5 DEF Read, TypeOK, BusOK, Bound, Reading

LEMMA ReadingType ==
  ASSUME TypeOK, NEW r \in reading
  PROVE  /\ r.task \in Consumers /\ r.task \in Tasks /\ r.entry \in Entries
         /\ r.entry.n \in Nat /\ r.entry.user \in Users
         /\ r.state \in States /\ r.seen \in BOOLEAN
<1>1. r \in Reading
  BY DEF TypeOK, Reading
<1> QED
  BY <1>1 DEF Reading, Entries, Tasks

\* A transaction that leaves the rows rows, and owes commands.
LEMMA TypeCommit ==
  ASSUME TypeOK, NEW r \in reading, NEW msgs \in Seq(Commands), Commit(r, msgs),
         fsm' \in [Users -> Row], made' \in [1..MaxText -> Nat], opened' \in [Users -> Nat]
  PROVE  TypeOK'
<1>1. processed' \subseteq Consumers \X Nat
  <2>1. <<r.task, r.entry.n>> \in Consumers \X Nat
    BY ReadingType
  <2> QED
    BY <2>1 DEF Commit, TypeOK
<1>2. todo' \in [Tasks -> Seq(Commands)]
  BY ReadingType DEF Commit, TypeOK
<1> QED
  BY <1>1, <1>2 DEF Commit, TypeOK, Row

LEMMA TypeDecide ==
  ASSUME TypeOK, NEW r \in reading, Decide(r)
  PROVE  TypeOK'
<1>1. /\ r.entry.n \in Nat /\ r.entry.user \in Users
      /\ fsm \in [Users -> Row] /\ made \in [1..MaxText -> Nat] /\ opened \in [Users -> Nat]
  BY ReadingType DEF TypeOK, Row
<1>2. << >> \in Seq(Commands) /\ "main" \in States
  BY DEF States
<1>3. CASE Ignored(r)
  BY <1>1, <1>2, <1>3, TypeCommit DEF Ignored
<1>4. ASSUME NEW mv \in Moves, HandleMenuCallback(r, mv)
      PROVE  TypeOK'
  <2> SUFFICES ASSUME NEW msgs, msgs = <<Edit(mv.to)>> \o GeneralTopicCommands(mv.from, mv.to)
               PROVE  TypeOK'
    OBVIOUS
  <2>1. mv.to \in States
    BY MovesType
  <2>2. msgs \in Seq(Commands)
    <3>1. <<Edit(mv.to)>> \in Seq(Commands)
      BY <2>1, CommandType
    <3>2. GeneralTopicCommands(mv.from, mv.to) \in Seq(Commands)
      BY CommandType DEF GeneralTopicCommands
    <3> QED
      BY <3>1, <3>2
  <2>3. fsm' \in [Users -> Row]
    BY <1>1, <1>4, <2>1, StoredType DEF HandleMenuCallback
  <2>4. opened' \in [Users -> Nat] /\ UNCHANGED made /\ Commit(r, msgs)
    BY <1>1, <1>4 DEF HandleMenuCallback
  <2> QED
    BY <1>1, <2>2, <2>3, <2>4, TypeCommit
<1>5. CASE RemoveText(r)
  <2>1. <<Delete(r.entry.n)>> \in Seq(Commands)
    BY <1>1, CommandType
  <2> QED
    BY <1>1, <1>5, <2>1, TypeCommit DEF RemoveText
<1>6. CASE CreateTicketPhase1(r)
  <2>1. <<Delete(r.entry.n), Close, Edit("main")>> \in Seq(Commands)
    BY <1>1, <1>2, CommandType
  <2>2. fsm' \in [Users -> Row]
    BY <1>1, <1>2, <1>6, StoredType DEF CreateTicketPhase1, AfterTicket
  <2>3. made' \in [1..MaxText -> Nat] /\ UNCHANGED opened
    <3>1. made' = [made EXCEPT ![r.entry.n] = @ + 1] /\ UNCHANGED opened
      BY <1>6 DEF CreateTicketPhase1
    <3>2. \A i \in 1..MaxText : made[i] + 1 \in Nat
      BY <1>1
    <3> QED
      BY <1>1, <3>1, <3>2
  <2> QED
    BY <1>1, <1>6, <2>1, <2>2, <2>3, TypeCommit DEF CreateTicketPhase1
<1> QED
  BY <1>3, <1>4, <1>5, <1>6 DEF Decide

LEMMA TypeExpire ==
  ASSUME TypeOK, ListExpired \/ ExpireCreatingPrompt
  PROVE  TypeOK'
<1>1. CASE ListExpired
  BY <1>1 DEF ListExpired, TypeOK
<1>2. CASE ExpireCreatingPrompt
  <2>1. fsm' \in [Users -> Row]
    BY <1>2, StoredType DEF ExpireCreatingPrompt, TypeOK, Row, States
  <2>2. Cardinality(sweep) \in Nat
    <3>1. IsFiniteSet(sweep)
      BY UsersAssumption, FS_Subset DEF TypeOK
    <3> QED
      BY <3>1, FS_CardinalityType
  <2>3. [i \in 1..(2 * Cardinality(sweep)) |-> IF i % 2 = 1 THEN Close ELSE Edit("main")] \in Seq(Commands)
    <3>1. Close \in Commands /\ Edit("main") \in Commands
      BY CommandType DEF States
    <3>2. 2 * Cardinality(sweep) \in Nat
      BY <2>2
    <3> HIDE DEF Close, Edit
    <3> QED
      BY <3>1, <3>2
  <2>4. todo' \in [Tasks -> Seq(Commands)]
    BY <1>2, <2>3 DEF ExpireCreatingPrompt, TypeOK, Tasks
  <2> QED
    BY <1>2, <2>1, <2>4 DEF ExpireCreatingPrompt, TypeOK, Row
<1> QED
  BY <1>1, <1>2

LEMMA TypePublish ==
  ASSUME TypeOK, NEW h \in Tasks, Publish(h)
  PROVE  TypeOK'
<1> SUFFICES ASSUME NEW c, c = Head(todo[h]), NEW b, b = c.stream
             PROVE  TypeOK'
  OBVIOUS
<1>1. todo[h] \in Seq(Commands) /\ todo[h] # << >>
  BY DEF TypeOK, Publish
<1>2. c \in Commands /\ Tail(todo[h]) \in Seq(Commands)
  <2>1. Head(todo[h]) \in Commands /\ Tail(todo[h]) \in Seq(Commands)
    BY <1>1, TailHolds
  <2> QED
    BY <2>1
<1>3. b \in CommandStreams /\ b \notin Consumers /\ Carried(b) = BotCommands(b) /\ c \in BotCommands(b)
  <2>1. b \in CommandStreams /\ c \in BotCommands(b)
    BY <1>2, OwedType
  <2> QED
    BY <2>1 DEF Carried, Consumers, CommandStreams
<1>4. BusOK'
  <2>1. bus[b] \in Seq(Carried(b))
    BY <1>3, BusType
  <2>2. Append(bus[b], c) \in Seq(Carried(b))
    BY <1>3, <2>1, AppendHolds
  <2>3. bus' = [bus EXCEPT ![b] = Append(bus[b], c)]
    BY DEF Publish
  <2> QED
    BY <1>3, <2>2, <2>3, BusOne
<1>5. todo' \in [Tasks -> Seq(Commands)]
  BY <1>2 DEF Publish, TypeOK
<1> QED
  BY <1>4, <1>5 DEF Publish, TypeOK, BusOK

LEMMA TypeCrash ==
  ASSUME TypeOK, Crash
  PROVE  TypeOK'
<1>1. left' \in Bound
  <2>1. left \in Bound
    BY DEF TypeOK, Bound
  <2> QED
    BY <2>1 DEF Crash, Bound
<1>2. todo' \in [Tasks -> Seq(Commands)]
  BY DEF Crash
<1> QED
  BY <1>1, <1>2 DEF Crash, TypeOK, Bound

LEMMA BusTake ==
  ASSUME TypeOK, NEW s \in CommandStreams, Take(s)
  PROVE  /\ BusOK' /\ Head(bus[s]) \in BotCommands(s)
         /\ \A h \in Consumers : bus'[h] = bus[h]
<1>1. bus[s] # << >> /\ Carried(s) = BotCommands(s) /\ s \notin Consumers
  BY DEF Take, Carried, Consumers, CommandStreams
<1>2. Head(bus[s]) \in BotCommands(s) /\ Tail(bus[s]) \in Seq(Carried(s))
  BY <1>1, OldestType
<1>3. BusOK'
  BY <1>2, BusOne DEF Take
<1> QED
  BY <1>1, <1>2, <1>3 DEF Take, TypeOK

\* What is shown of the texts after one is removed.
LEMMA TextType ==
  ASSUME NEW s \in Seq(Text), NEW i
  PROVE  /\ [s EXCEPT ![i].shown = FALSE] \in Seq(Text)
         /\ Len([s EXCEPT ![i].shown = FALSE]) = Len(s)
         /\ DOMAIN [s EXCEPT ![i].shown = FALSE] = DOMAIN s
         /\ \A j \in DOMAIN s : [s EXCEPT ![i].shown = FALSE][j].user = s[j].user
<1>1. CASE i \in 1..Len(s)
  <2>1. s[i] \in Text
    BY <1>1
  <2>2. [s[i] EXCEPT !.shown = FALSE] \in Text /\ [s[i] EXCEPT !.shown = FALSE].user = s[i].user
    BY <2>1 DEF Text
  <2> SUFFICES ASSUME NEW e \in Text, e = [s[i] EXCEPT !.shown = FALSE], e.user = s[i].user
               PROVE  /\ [s EXCEPT ![i] = e] \in Seq(Text)
                      /\ Len([s EXCEPT ![i] = e]) = Len(s)
                      /\ DOMAIN [s EXCEPT ![i] = e] = DOMAIN s
                      /\ \A j \in DOMAIN s : [s EXCEPT ![i] = e][j].user = s[j].user
    BY <2>2
  <2> QED
    BY <1>1, ExceptSeq
<1>2. CASE i \notin 1..Len(s)
  <2>1. [s EXCEPT ![i].shown = FALSE] = s
    BY <1>2
  <2> QED
    BY <2>1
<1> QED
  BY <1>1, <1>2

LEMMA TypeTelegram ==
  ASSUME TypeOK, EditMenu \/ DeleteMessage \/ ReopenGeneral \/ CloseGeneral
  PROVE  TypeOK'
<1>1. "edit" \in CommandStreams /\ "delete" \in CommandStreams
      /\ "reopen" \in CommandStreams /\ "close" \in CommandStreams
  BY DEF CommandStreams
<1>2. CASE EditMenu
  <2>1. BusOK' /\ Head(bus["edit"]) \in BotCommands("edit")
    BY <1>1, <1>2, BusTake DEF EditMenu
  <2>2. screen' \in States
    BY <1>2, <2>1 DEF EditMenu, BotCommands
  <2> QED
    BY <1>2, <2>1, <2>2 DEF EditMenu, core, TypeOK, BusOK
<1>3. CASE DeleteMessage
  <2>1. BusOK'
    BY <1>1, <1>3, BusTake DEF DeleteMessage
  <2>2. texts \in Seq(Text)
    BY DEF TypeOK, Text
  <2>3. texts' \in Seq(Text)
    BY <1>3, <2>2, TextType DEF DeleteMessage
  <2> QED
    BY <1>3, <2>1, <2>3 DEF DeleteMessage, core, TypeOK, BusOK, Text
<1>4. CASE ReopenGeneral
  <2>1. BusOK'
    BY <1>1, <1>4, BusTake DEF ReopenGeneral
  <2> QED
    BY <1>4, <2>1 DEF ReopenGeneral, core, TypeOK, BusOK
<1>5. CASE CloseGeneral
  <2>1. BusOK'
    BY <1>1, <1>5, BusTake DEF CloseGeneral
  <2> QED
    BY <1>5, <2>1 DEF CloseGeneral, core, TypeOK, BusOK
<1> QED
  BY <1>2, <1>3, <1>4, <1>5

LEMMA TypeRefuses ==
  ASSUME TypeOK, NEW s \in CommandStreams, TelegramRefuses(s)
  PROVE  TypeOK'
<1>1. BusOK'
  BY BusTake DEF TelegramRefuses
<1>2. left' \in Bound
  <2>1. left \in Bound
    BY DEF TypeOK, Bound
  <2> QED
    BY <2>1 DEF TelegramRefuses, Bound
<1> QED
  BY <1>1, <1>2 DEF TelegramRefuses, core, TypeOK, BusOK, Bound

LEMMA TypePress ==
  ASSUME TypeOK, NEW u \in Users, NEW a \in Actions, Press(u, a)
  PROVE  TypeOK'
<1> SUFFICES ASSUME NEW e, e = [n |-> MaxPress - left.press + 1, user |-> u, what |-> a]
             PROVE  TypeOK'
  OBVIOUS
<1>1. left \in Bound
  BY DEF TypeOK, Bound
<1>2. left' \in Bound
  <2>1. left.press \in 0..MaxPress /\ left.press > 0 /\ MaxPress \in Nat
    BY <1>1, BoundsAssumption DEF Press, Bound
  <2>2. left.press - 1 \in 0..MaxPress
    BY <2>1
  <2> QED
    BY <1>1, <2>2 DEF Press, Bound
<1>3. e \in Entries
  <2>1. MaxPress - left.press + 1 \in Nat
    BY <1>1, BoundsAssumption DEF Bound
  <2> QED
    BY <2>1 DEF Entries
<1>4. BusOK'
  <2>1. "callback" \in Consumers /\ Carried("callback") = Entries
    BY DEF Consumers, Carried
  <2>2. Append(bus["callback"], e) \in Seq(Carried("callback"))
    BY <1>3, <2>1, BusType, AppendHolds
  <2>3. bus' = [bus EXCEPT !["callback"] = Append(bus["callback"], e)]
    BY DEF Press
  <2> QED
    BY <2>1, <2>2, <2>3, BusOne
<1> QED
  BY <1>2, <1>4 DEF Press, core, TypeOK, BusOK, Bound

LEMMA TypeWrite ==
  ASSUME TypeOK, NEW u \in Users, Write(u)
  PROVE  TypeOK'
<1> SUFFICES ASSUME NEW e, e = [n |-> Len(texts) + 1, user |-> u, what |-> "text"]
             PROVE  TypeOK'
  OBVIOUS
<1>1. texts \in Seq(Text)
  BY DEF TypeOK, Text
<1>2. texts' \in Seq(Text)
  <2>1. [user |-> u, shown |-> TRUE] \in Text
    BY DEF Text
  <2> QED
    BY <1>1, <2>1, AppendHolds DEF Write
<1>3. e \in Entries
  BY <1>1 DEF Entries
<1>4. BusOK'
  <2>1. "message" \in Consumers /\ Carried("message") = Entries
    BY DEF Consumers, Carried
  <2>2. Append(bus["message"], e) \in Seq(Carried("message"))
    BY <1>3, <2>1, BusType, AppendHolds
  <2>3. bus' = [bus EXCEPT !["message"] = Append(bus["message"], e)]
    BY DEF Write
  <2> QED
    BY <2>1, <2>2, <2>3, BusOne
<1> QED
  BY <1>2, <1>4 DEF Write, core, TypeOK, BusOK, Text

LEMMA TypeTime ==
  ASSUME TypeOK, Toggle \/ \E u \in Users : Lapse(u)
  PROVE  TypeOK'
<1>1. left \in Bound
  BY DEF TypeOK, Bound
<1>2. CASE Toggle
  <2>1. left' \in Bound
    BY <1>1, <1>2 DEF Toggle, Bound
  <2> QED
    BY <1>2, <2>1 DEF Toggle, TypeOK, Bound
<1>3. ASSUME NEW u \in Users, Lapse(u)
      PROVE  TypeOK'
  <2>1. left' \in Bound
    BY <1>1, <1>3 DEF Lapse, Bound
  <2>2. fsm' \in [Users -> Row]
    <3>1. fsm \in [Users -> Row]
      BY DEF TypeOK, Row
    <3>2. [fsm[u] EXCEPT !.expires = "due"] \in Row
      BY <3>1 DEF Row
    <3> QED
      BY <1>3, <3>1, <3>2 DEF Lapse
  <2> QED
    BY <1>3, <2>1, <2>2 DEF Lapse, TypeOK, Bound, Row
<1> QED
  BY <1>2, <1>3

LEMMA TypeStep == TypeOK /\ [Next]_vars => TypeOK'
<1> SUFFICES ASSUME TypeOK, [Next]_vars
             PROVE  TypeOK'
  OBVIOUS
<1>1. ASSUME NEW h \in Consumers, Read(h) PROVE TypeOK'
  BY <1>1, TypeRead
<1>2. ASSUME NEW r \in reading, Decide(r) PROVE TypeOK'
  BY <1>2, TypeDecide
<1>3. CASE Sweep
  BY <1>3, TypeExpire DEF Sweep
<1>4. ASSUME NEW h \in Tasks, Publish(h) PROVE TypeOK'
  BY <1>4, TypePublish
<1>5. CASE Crash
  BY <1>5, TypeCrash
<1>6. CASE EditMenu \/ DeleteMessage \/ ReopenGeneral \/ CloseGeneral
  BY <1>6, TypeTelegram
<1>7. ASSUME NEW s \in CommandStreams, TelegramRefuses(s) PROVE TypeOK'
  BY <1>7, TypeRefuses
<1>8. ASSUME NEW u \in Users, NEW a \in Actions, Press(u, a) PROVE TypeOK'
  BY <1>8, TypePress
<1>9. ASSUME NEW u \in Users, Write(u) PROVE TypeOK'
  BY <1>9, TypeWrite
<1>10. CASE Toggle \/ \E u \in Users : Lapse(u)
  BY <1>10, TypeTime
<1>11. CASE UNCHANGED vars
  BY <1>11 DEF vars, TypeOK
<1> QED
  BY <1>1, <1>2, <1>3, <1>4, <1>5, <1>6, <1>7, <1>8, <1>9, <1>10, <1>11 DEF Next

\* Every value the menu's tables, streams and screen can take is of its type.
THEOREM TypeCorrect == Spec => []TypeOK
<1> QED
  BY TypeInit, TypeStep, PTL DEF Spec

-----------------------------------------------------------------------------
(* The invariant, step by step.                                            *)

LEMMA TicketsType ==
  ASSUME TypeOK, NEW u
  PROVE  /\ IsFiniteSet({i \in DOMAIN texts : texts[i].user = u /\ made[i] > 0})
         /\ TicketsOf(u) \in Nat
<1>1. DOMAIN texts = 1..Len(texts) /\ Len(texts) \in Nat
  BY DEF TypeOK
<1>2. IsFiniteSet(DOMAIN texts)
  BY <1>1, FS_Interval
<1>3. IsFiniteSet({i \in DOMAIN texts : texts[i].user = u /\ made[i] > 0})
  BY <1>2, FS_Subset
<1> QED
  BY <1>3, FS_CardinalityType DEF TicketsOf

LEMMA InvInit == Init => IInv
<1> SUFFICES ASSUME Init
             PROVE  IInv
  OBVIOUS
<1>1. texts = << >> /\ reading = {} /\ bus["message"] = << >>
      /\ (\A i \in DOMAIN made : made[i] = 0) /\ (\A u \in Users : opened[u] = 0)
      /\ \A u \in Users : fsm[u].state = "main"
  BY DEF Init, Stored, Consumers
<1>2. MessagesOfTexts
  BY <1>1, EmptyHolds, BoundsAssumption DEF MessagesOfTexts
<1>3. ReadingsFresh /\ TicketsMarked
  BY <1>1 DEF ReadingsFresh, TicketsMarked
<1>4. PromptsCounted
  <2>1. ASSUME NEW u \in Users PROVE TicketsOf(u) = 0 /\ ~Prompted(u)
    <3>1. {i \in DOMAIN texts : texts[i].user = u /\ made[i] > 0} = {}
      BY <1>1
    <3> QED
      BY <1>1, <3>1, FS_EmptySet DEF TicketsOf, Prompted
  <2> QED
    BY <1>1, <2>1 DEF PromptsCounted
<1> QED
  BY <1>2, <1>3, <1>4 DEF IInv

\* The texts stay, each its author's.
SameTexts == Len(texts') = Len(texts) /\ DOMAIN texts' = DOMAIN texts
             /\ \A i \in DOMAIN texts : texts'[i].user = texts[i].user

\* The count is kept when nobody gets a ticket, a prompt, or is asked anew.
LEMMA CountKept ==
  ASSUME TypeOK, PromptsCounted, SameTexts, UNCHANGED <<made, opened>>,
         \A u \in Users : Prompted(u)' => Prompted(u)
  PROVE  PromptsCounted'
<1> SUFFICES ASSUME NEW u \in Users
             PROVE  (TicketsOf(u) + (IF Prompted(u) THEN 1 ELSE 0) <= opened[u])'
  BY DEF PromptsCounted
<1>1. TicketsOf(u)' = TicketsOf(u)
  <2>1. {i \in DOMAIN texts : texts[i].user = u /\ made[i] > 0}'
          = {i \in DOMAIN texts : texts[i].user = u /\ made[i] > 0}
    BY DEF SameTexts
  <2> QED
    BY <2>1 DEF TicketsOf
<1>2. TicketsOf(u) \in Nat /\ opened[u] \in Nat
  BY TicketsType DEF TypeOK
<1>3. TicketsOf(u) + (IF Prompted(u) THEN 1 ELSE 0) <= opened[u]
  BY DEF PromptsCounted
<1>4. CASE Prompted(u)'
  BY <1>1, <1>2, <1>3, <1>4
<1>5. CASE ~Prompted(u)'
  BY <1>1, <1>2, <1>3, <1>5
<1> QED
  BY <1>4, <1>5

\* Nothing is read, decided or written.
LEMMA InvQuiet ==
  ASSUME TypeOK, IInv, SameTexts, UNCHANGED <<processed, made, opened>>,
         Range(bus'["message"]) \subseteq Range(bus["message"]),
         reading' \subseteq reading,
         \A u \in Users : fsm'[u].state = "creating_prompt" => fsm[u].state = "creating_prompt"
  PROVE  IInv'
<1>1. \A m : OfText(m) => OfText(m)'
  BY DEF OfText, SameTexts
<1>2. MessagesOfTexts'
  BY <1>1 DEF IInv, MessagesOfTexts, SameTexts
<1>3. ReadingsFresh'
  BY DEF IInv, ReadingsFresh
<1>4. TicketsMarked'
  BY DEF IInv, TicketsMarked, SameTexts
<1>5. PromptsCounted'
  <2>1. \A u \in Users : Prompted(u)' => Prompted(u)
    BY DEF Prompted
  <2> QED
    BY <2>1, CountKept DEF IInv
<1> QED
  BY <1>2, <1>3, <1>4, <1>5 DEF IInv

LEMMA Unmoved ==
  ASSUME UNCHANGED texts
  PROVE  SameTexts
BY DEF SameTexts

\* The oldest entry is taken: its author has a prompt now, if the reading says so.
LEMMA InvRead ==
  ASSUME TypeOK, IInv, NEW h \in Consumers, Read(h)
  PROVE  IInv'
<1> SUFFICES ASSUME NEW m, m = Head(bus[h]),
                    NEW x, x = [task |-> h, entry |-> m, seen |-> Seen(h, m), active |-> active,
                                state |-> StateOf(m.user)]
             PROVE  IInv'
  OBVIOUS
<1>1. /\ bus[h] # << >> /\ Idle(h) /\ reading' = reading \cup {x}
      /\ bus' = [bus EXCEPT ![h] = Tail(@)] \/ bus' = [bus EXCEPT ![h] = Append(Tail(@), m)]
      /\ UNCHANGED <<fsm, processed, texts, made, opened>>
  BY DEF Read
<1>2. /\ m \in Range(bus[h]) /\ m \in Entries
      /\ Range(Tail(bus[h])) \subseteq Range(bus[h])
      /\ Range(Append(Tail(bus[h]), m)) \subseteq Range(bus[h])
      /\ DOMAIN bus = Consumers \cup CommandStreams
  <2>1. bus[h] \in Seq(Entries) /\ DOMAIN bus = Consumers \cup CommandStreams
    BY DEF TypeOK
  <2>2. Head(bus[h]) \in Range(bus[h]) /\ Head(bus[h]) \in Entries
        /\ Range(Tail(bus[h])) \subseteq Range(bus[h])
    BY <1>1, <2>1, TailHolds
  <2>3. Range(Append(Tail(bus[h]), Head(bus[h]))) \subseteq Range(bus[h])
    BY <1>1, <2>1, AgainHolds
  <2> QED
    BY <2>1, <2>2, <2>3
<1>3. Range(bus'["message"]) \subseteq Range(bus["message"])
  <2>1. CASE h = "message"
    BY <1>1, <1>2, <2>1
  <2>2. CASE h # "message"
    BY <1>1, <1>2, <2>2 DEF Consumers
  <2> QED
    BY <2>1, <2>2
<1>4. x.task = h /\ x.entry = m /\ (~x.seen => <<h, m.n>> \notin processed) /\ x.state = StateOf(m.user)
  BY DEF Seen
<1>5. MessagesOfTexts'
  <2>1. \A d : OfText(d) => OfText(d)'
    BY <1>1 DEF OfText
  <2>2. h = "message" => OfText(m)
    BY <1>2 DEF IInv, MessagesOfTexts
  <2>3. \A r \in reading' : r.task = "message" => OfText(r.entry)
    BY <1>1, <1>4, <2>2 DEF IInv, MessagesOfTexts
  <2>4. \A d \in Range(bus'["message"]) : OfText(d)
    BY <1>3 DEF IInv, MessagesOfTexts
  <2>5. Len(texts') <= MaxText
    BY <1>1 DEF IInv, MessagesOfTexts
  <2> QED
    BY <2>1, <2>3, <2>4, <2>5 DEF MessagesOfTexts
<1>6. ReadingsFresh'
  <2>1. \A q \in reading : q.task # x.task
    BY <1>1, <1>4 DEF Idle
  <2>2. /\ \A p, q \in reading : q.task = p.task => q = p
        /\ \A p \in reading : ~p.seen => <<p.task, p.entry.n>> \notin processed
    BY DEF IInv, ReadingsFresh
  <2>3. \A p, q \in reading' : q.task = p.task => q = p
    BY <1>1, <2>1, <2>2
  <2>4. \A p \in reading' : ~p.seen => <<p.task, p.entry.n>> \notin processed'
    BY <1>1, <1>4, <2>2
  <2> QED
    BY <2>3, <2>4 DEF ReadingsFresh
<1>7. TicketsMarked'
  BY <1>1 DEF IInv, TicketsMarked
<1>8. PromptsCounted'
  <2>1. ASSUME NEW u \in Users, Prompted(u)'
        PROVE  Prompted(u)
    <3>1. StateOf(u) = "creating_prompt" => fsm[u].state = "creating_prompt"
      BY DEF StateOf
    <3> QED
      BY <1>1, <1>4, <2>1, <3>1 DEF Prompted
  <2> QED
    BY <1>1, <2>1, Unmoved, CountKept DEF IInv
<1> QED
  BY <1>5, <1>6, <1>7, <1>8 DEF IInv

\* A transaction that makes no ticket.
LEMMA CommitKeeps ==
  ASSUME TypeOK, IInv, NEW r \in reading, NEW msgs, Commit(r, msgs)
  PROVE  /\ MessagesOfTexts' /\ ReadingsFresh' /\ SameTexts
         /\ UNCHANGED made => TicketsMarked'
<1>1. /\ UNCHANGED <<texts, bus>> /\ reading' = reading \ {r}
      /\ processed' = processed \cup {<<r.task, r.entry.n>>}
  BY DEF Commit
<1>2. MessagesOfTexts'
  <2>1. \A d : OfText(d) => OfText(d)'
    BY <1>1 DEF OfText
  <2> QED
    BY <1>1, <2>1 DEF IInv, MessagesOfTexts
<1>3. ReadingsFresh'
  <2>1. ASSUME NEW q \in reading'
        PROVE  /\ \A p \in reading' : p.task = q.task => p = q
               /\ ~q.seen => <<q.task, q.entry.n>> \notin processed'
    <3>1. q \in reading /\ q # r
      BY <1>1
    <3>2. q.task # r.task
      BY <3>1 DEF IInv, ReadingsFresh
    <3>3. <<q.task, q.entry.n>> # <<r.task, r.entry.n>>
      BY <3>2
    <3> QED
      BY <1>1, <3>1, <3>3 DEF IInv, ReadingsFresh
  <2> QED
    BY <2>1 DEF ReadingsFresh
<1>4. UNCHANGED made => TicketsMarked'
  BY <1>1 DEF IInv, TicketsMarked
<1> QED
  BY <1>1, <1>2, <1>3, <1>4, Unmoved

\* A button: only a prompt opened anew is a prompt more.
LEMMA InvCallback ==
  ASSUME TypeOK, IInv, NEW r \in reading, NEW mv \in Moves, HandleMenuCallback(r, mv)
  PROVE  IInv'
<1> SUFFICES ASSUME NEW w, w = r.entry.user, NEW s, s = mv.to
             PROVE  IInv'
  OBVIOUS
<1>1. /\ fsm' = [fsm EXCEPT ![w] = Stored(s)]
      /\ opened' = [opened EXCEPT ![w] = IF s = "creating_prompt" THEN @ + 1 ELSE @]
      /\ UNCHANGED made /\ w \in Users /\ s \in States
      /\ reading' \subseteq reading
  BY ReadingType, MovesType DEF HandleMenuCallback, Commit
<1>2. MessagesOfTexts' /\ ReadingsFresh' /\ SameTexts /\ TicketsMarked'
  BY <1>1, CommitKeeps DEF HandleMenuCallback
<1>3. /\ fsm'[w].state = s /\ \A u \in Users : u # w => fsm'[u] = fsm[u]
      /\ \A u \in Users : opened'[u] = opened[u] + (IF u = w /\ s = "creating_prompt" THEN 1 ELSE 0)
  <2>1. opened \in [Users -> Nat] /\ DOMAIN fsm = Users
    BY DEF TypeOK
  <2> QED
    BY <1>1, <2>1, StoredType
<1>4. PromptsCounted'
  <2> SUFFICES ASSUME NEW u \in Users
               PROVE  (TicketsOf(u) + (IF Prompted(u) THEN 1 ELSE 0) <= opened[u])'
    BY DEF PromptsCounted
  <2>1. TicketsOf(u)' = TicketsOf(u)
    <3>1. {i \in DOMAIN texts : texts[i].user = u /\ made[i] > 0}'
            = {i \in DOMAIN texts : texts[i].user = u /\ made[i] > 0}
      BY <1>1, <1>2 DEF SameTexts
    <3> QED
      BY <3>1 DEF TicketsOf
  <2>2. TicketsOf(u) \in Nat /\ opened[u] \in Nat
    BY TicketsType DEF TypeOK
  <2>3. TicketsOf(u) + (IF Prompted(u) THEN 1 ELSE 0) <= opened[u]
    BY DEF IInv, PromptsCounted
  <2>4. CASE u = w /\ s = "creating_prompt"
    BY <1>3, <2>1, <2>2, <2>3, <2>4
  <2>5. CASE ~(u = w /\ s = "creating_prompt")
    <3>1. Prompted(u)' => Prompted(u)
      BY <1>1, <1>3, <2>5 DEF Prompted
    <3>2. opened'[u] = opened[u]
      BY <1>3, <2>2, <2>5
    <3> QED
      BY <2>1, <2>2, <2>3, <3>1, <3>2
  <2> QED
    BY <2>4, <2>5
<1> QED
  BY <1>2, <1>4 DEF IInv

\* A ticket uses its prompt up.
LEMMA InvCreate ==
  ASSUME TypeOK, IInv, NEW r \in reading, CreateTicketPhase1(r)
  PROVE  IInv'
<1> SUFFICES ASSUME NEW w, w = r.entry.user, NEW n, n = r.entry.n
             PROVE  IInv'
  OBVIOUS
<1>1. /\ r.task = "message" /\ ~r.seen /\ r.state = "creating_prompt"
      /\ made' = [made EXCEPT ![n] = @ + 1]
      /\ fsm' = [fsm EXCEPT ![w] = Stored("main")]
      /\ UNCHANGED <<opened, texts>>
      /\ reading' = reading \ {r}
      /\ processed' = processed \cup {<<"message", n>>}
  BY DEF CreateTicketPhase1, AfterTicket, Commit
<1>2. n \in DOMAIN texts /\ texts[n].user = w /\ n \in 1..MaxText /\ w \in Users
  <2>1. OfText(r.entry) /\ Len(texts) <= MaxText
    BY <1>1 DEF IInv, MessagesOfTexts
  <2>2. texts \in Seq(Text) /\ MaxText \in Nat
    BY BoundsAssumption DEF TypeOK, Text
  <2>3. n \in DOMAIN texts /\ texts[n].user = w
    BY <2>1 DEF OfText
  <2>4. n \in 1..MaxText
    BY <2>1, <2>2, <2>3
  <2> QED
    BY <2>3, <2>4, ReadingType
<1>3. made[n] = 0 /\ made \in [1..MaxText -> Nat]
  <2>1. <<"message", n>> \notin processed
    BY <1>1 DEF IInv, ReadingsFresh
  <2>2. made \in [1..MaxText -> Nat]
    BY DEF TypeOK
  <2>3. ~(made[n] > 0)
    BY <1>2, <2>1, <2>2 DEF IInv, TicketsMarked
  <2>4. made[n] \in Nat
    BY <1>2, <2>2
  <2> QED
    BY <2>2, <2>3, <2>4
<1>4. made'[n] = 1 /\ DOMAIN made' = DOMAIN made /\ \A i \in DOMAIN made : i # n => made'[i] = made[i]
  BY <1>1, <1>2, <1>3
<1>5. MessagesOfTexts' /\ ReadingsFresh'
  BY CommitKeeps DEF CreateTicketPhase1
<1>6. TicketsMarked'
  BY <1>1, <1>2, <1>4 DEF IInv, TicketsMarked
<1>7. PromptsCounted'
  <2> SUFFICES ASSUME NEW u \in Users
               PROVE  (TicketsOf(u) + (IF Prompted(u) THEN 1 ELSE 0) <= opened[u])'
    BY DEF PromptsCounted
  <2> DEFINE T == {i \in DOMAIN texts : texts[i].user = u /\ made[i] > 0}
  <2>1. IsFiniteSet(T) /\ Cardinality(T) = TicketsOf(u) /\ TicketsOf(u) \in Nat /\ opened[u] \in Nat
    BY TicketsType DEF TicketsOf, TypeOK
  <2>2. TicketsOf(u) + (IF Prompted(u) THEN 1 ELSE 0) <= opened[u]
    BY DEF IInv, PromptsCounted
  <2>3. DOMAIN texts \subseteq DOMAIN made
    <3>1. texts \in Seq(Text) /\ Len(texts) <= MaxText /\ MaxText \in Nat
      BY BoundsAssumption DEF TypeOK, Text, IInv, MessagesOfTexts
    <3> QED
      BY <1>3, <3>1
  <2>4. DOMAIN fsm = Users
    BY DEF TypeOK
  <2>5. CASE u = w
    <3>1. T' = T \cup {n} /\ n \notin T
      BY <1>1, <1>2, <1>3, <1>4, <2>3, <2>5
    <3>2. Cardinality(T \cup {n}) = Cardinality(T) + 1
      BY <2>1, <3>1, FS_AddElement
    <3>3. TicketsOf(u)' = TicketsOf(u) + 1
      BY <2>1, <3>1, <3>2 DEF TicketsOf
    <3>4. Prompted(u)
      BY <1>1, <2>5 DEF Prompted
    <3>5. ~Prompted(u)'
      <4>1. fsm'[u].state = "main"
        BY <1>1, <2>4, <2>5 DEF Stored
      <4>2. \A q \in reading' : q.task # "message"
        BY <1>1 DEF IInv, ReadingsFresh
      <4> QED
        BY <4>1, <4>2 DEF Prompted
    <3>6. opened'[u] = opened[u]
      BY <1>1
    <3> QED
      BY <2>1, <2>2, <3>3, <3>4, <3>5, <3>6
  <2>6. CASE u # w
    <3>1. T' = T
      BY <1>1, <1>2, <1>4, <2>3, <2>6
    <3>2. TicketsOf(u)' = TicketsOf(u)
      BY <3>1 DEF TicketsOf
    <3>3. Prompted(u)' => Prompted(u)
      BY <1>1, <2>4, <2>6 DEF Prompted
    <3>4. opened'[u] = opened[u]
      BY <1>1
    <3> QED
      BY <2>1, <2>2, <3>2, <3>3, <3>4
  <2> QED
    BY <2>5, <2>6
<1> QED
  BY <1>5, <1>6, <1>7 DEF IInv

LEMMA InvDecide ==
  ASSUME TypeOK, IInv, NEW r \in reading, Decide(r)
  PROVE  IInv'
<1>1. CASE Ignored(r) \/ RemoveText(r)
  <2>1. PICK msgs : Commit(r, msgs) /\ UNCHANGED <<fsm, made, opened>>
    BY <1>1 DEF Ignored, RemoveText
  <2>2. MessagesOfTexts' /\ ReadingsFresh' /\ SameTexts /\ TicketsMarked'
    BY <2>1, CommitKeeps
  <2>3. \A u \in Users : Prompted(u)' => Prompted(u)
    BY <2>1 DEF Prompted, Commit
  <2>4. PromptsCounted'
    BY <2>1, <2>2, <2>3, CountKept DEF IInv
  <2> QED
    BY <2>2, <2>4 DEF IInv
<1>2. ASSUME NEW mv \in Moves, HandleMenuCallback(r, mv)
      PROVE  IInv'
  BY <1>2, InvCallback
<1>3. CASE CreateTicketPhase1(r)
  BY <1>3, InvCreate
<1> QED
  BY <1>1, <1>2, <1>3 DEF Decide

LEMMA InvWrite ==
  ASSUME TypeOK, IInv, NEW u \in Users, Write(u)
  PROVE  IInv'
<1> SUFFICES ASSUME NEW k, k = Len(texts) + 1,
                    NEW d, d = [user |-> u, shown |-> TRUE],
                    NEW e, e = [n |-> k, user |-> u, what |-> "text"]
             PROVE  IInv'
  OBVIOUS
<1>1. /\ Len(texts) < MaxText /\ texts' = Append(texts, d)
      /\ bus' = [bus EXCEPT !["message"] = Append(@, e)]
      /\ UNCHANGED <<fsm, processed, made, opened, reading>>
  BY DEF Write, core
<1>2. /\ DOMAIN texts = 1..Len(texts) /\ Len(texts) \in Nat /\ MaxText \in Nat
      /\ Len(texts') = k /\ DOMAIN texts' = 1..k /\ texts'[k] = d /\ k <= MaxText
      /\ \A i \in DOMAIN texts : texts'[i] = texts[i] /\ i \in DOMAIN texts'
  <2>1. texts \in Seq(Text) /\ d \in Text
    BY DEF TypeOK, Text
  <2> QED
    BY <1>1, <2>1, BoundsAssumption
<1>3. \A m : OfText(m) => OfText(m)'
  BY <1>2 DEF OfText
<1>4. \A m \in Range(bus'["message"]) : m \in Range(bus["message"]) \/ m = e
  <2>1. bus["message"] \in Seq(Entries) /\ "message" \in DOMAIN bus
    BY DEF TypeOK, Consumers
  <2>2. e \in Entries
    BY <1>2 DEF Entries
  <2>3. Range(Append(bus["message"], e)) = Range(bus["message"]) \cup {e}
    BY <2>1, <2>2, AppendHolds
  <2> QED
    BY <1>1, <2>1, <2>3
<1>5. MessagesOfTexts'
  <2>1. OfText(e)'
    <3>1. e.n = k /\ e.user = u /\ d.user = u
      OBVIOUS
    <3> QED
      BY <1>2, <3>1 DEF OfText
  <2> QED
    BY <1>1, <1>2, <1>3, <1>4, <2>1 DEF IInv, MessagesOfTexts
<1>6. ReadingsFresh'
  BY <1>1 DEF IInv, ReadingsFresh
<1>7. TicketsMarked'
  BY <1>1, <1>2 DEF IInv, TicketsMarked
<1>8. PromptsCounted'
  <2> SUFFICES ASSUME NEW v \in Users
               PROVE  (TicketsOf(v) + (IF Prompted(v) THEN 1 ELSE 0) <= opened[v])'
    BY DEF PromptsCounted
  <2>1. {i \in DOMAIN texts : texts[i].user = v /\ made[i] > 0}'
          = {i \in DOMAIN texts : texts[i].user = v /\ made[i] > 0}
    <3>1. ~(made[k] > 0)
      <4>1. k \in DOMAIN made
        BY <1>2 DEF TypeOK
      <4>2. k \notin DOMAIN texts
        BY <1>2
      <4> QED
        BY <4>1, <4>2 DEF IInv, TicketsMarked
    <3>2. \A i \in DOMAIN texts' : i = k \/ i \in DOMAIN texts
      BY <1>2
    <3> QED
      BY <1>1, <1>2, <3>1, <3>2
  <2>2. TicketsOf(v)' = TicketsOf(v)
    BY <2>1 DEF TicketsOf
  <2>3. Prompted(v)' <=> Prompted(v)
    BY <1>1 DEF Prompted
  <2>4. TicketsOf(v) + (IF Prompted(v) THEN 1 ELSE 0) <= opened[v]
    BY DEF IInv, PromptsCounted
  <2> QED
    BY <1>1, <2>2, <2>3, <2>4
<1> QED
  BY <1>5, <1>6, <1>7, <1>8 DEF IInv

\* gateway-tg takes a command: the texts stay their authors'.
LEMMA InvTelegram ==
  ASSUME TypeOK, IInv,
         EditMenu \/ DeleteMessage \/ ReopenGeneral \/ CloseGeneral
           \/ \E s \in CommandStreams : TelegramRefuses(s)
  PROVE  IInv'
<1>1. UNCHANGED <<fsm, processed, made, opened, reading>>
  BY DEF EditMenu, DeleteMessage, ReopenGeneral, CloseGeneral, TelegramRefuses, core
<1>2. \E s \in CommandStreams : Take(s)
  BY DEF EditMenu, DeleteMessage, ReopenGeneral, CloseGeneral, TelegramRefuses, CommandStreams
<1>3. bus'["message"] = bus["message"]
  BY <1>2, BusTake DEF Consumers
<1>4. SameTexts
  <2>1. CASE DeleteMessage
    <3>1. texts \in Seq(Text)
      BY DEF TypeOK, Text
    <3> QED
      BY <2>1, <3>1, TextType DEF DeleteMessage, SameTexts
  <2>2. CASE ~DeleteMessage
    BY <2>2, Unmoved DEF EditMenu, ReopenGeneral, CloseGeneral, TelegramRefuses
  <2> QED
    BY <2>1, <2>2
<1> QED
  BY <1>1, <1>3, <1>4, InvQuiet

LEMMA InvPublish ==
  ASSUME TypeOK, IInv, NEW h \in Tasks, Publish(h)
  PROVE  IInv'
<1>1. bus'["message"] = bus["message"]
  <2> SUFFICES ASSUME NEW c, c = Head(todo[h]), NEW b, b = c.stream
               PROVE  bus'["message"] = bus["message"]
    OBVIOUS
  <2>1. todo[h] \in Seq(Commands) /\ todo[h] # << >>
    BY DEF TypeOK, Publish
  <2>2. b # "message"
    <3>1. Head(todo[h]) \in Commands
      BY <2>1, TailHolds
    <3> QED
      BY <3>1, OwedType DEF CommandStreams
  <2>3. bus' = [bus EXCEPT ![b] = Append(@, c)]
    BY DEF Publish
  <2> QED
    BY <2>2, <2>3
<1> QED
  BY <1>1, Unmoved, InvQuiet DEF Publish

LEMMA InvExpire ==
  ASSUME TypeOK, IInv, Sweep
  PROVE  IInv'
<1>1. \A u \in Users : fsm'[u].state = "creating_prompt" => fsm[u].state = "creating_prompt"
  BY DEF Sweep, ListExpired, ExpireCreatingPrompt, Stored
<1> QED
  BY <1>1, Unmoved, InvQuiet DEF Sweep, ListExpired, ExpireCreatingPrompt

LEMMA InvPress ==
  ASSUME TypeOK, IInv, NEW u \in Users, NEW a \in Actions, Press(u, a)
  PROVE  IInv'
<1>1. bus'["message"] = bus["message"]
  BY DEF Press
<1> QED
  BY <1>1, Unmoved, InvQuiet DEF Press, core

LEMMA InvLapse ==
  ASSUME TypeOK, IInv, NEW u \in Users, Lapse(u)
  PROVE  IInv'
<1>1. \A v \in Users : fsm'[v].state = fsm[v].state
  <2>1. fsm \in [Users -> Row] /\ fsm' = [fsm EXCEPT ![u].expires = "due"]
    BY DEF Lapse, TypeOK, Row
  <2>2. [fsm[u] EXCEPT !.expires = "due"].state = fsm[u].state
    BY <2>1 DEF Row
  <2> QED
    BY <2>1, <2>2
<1> QED
  BY <1>1, Unmoved, InvQuiet DEF Lapse

LEMMA InvStep == TypeOK /\ IInv /\ [Next]_vars => IInv'
<1> SUFFICES ASSUME TypeOK, IInv, [Next]_vars
             PROVE  IInv'
  OBVIOUS
<1>1. ASSUME NEW h \in Consumers, Read(h) PROVE IInv'
  BY <1>1, InvRead
<1>2. ASSUME NEW r \in reading, Decide(r) PROVE IInv'
  BY <1>2, InvDecide
<1>3. CASE Sweep
  BY <1>3, InvExpire
<1>4. ASSUME NEW h \in Tasks, Publish(h) PROVE IInv'
  BY <1>4, InvPublish
<1>5. CASE Crash
  BY <1>5, Unmoved, InvQuiet DEF Crash
<1>6. CASE \/ EditMenu \/ DeleteMessage \/ ReopenGeneral \/ CloseGeneral
           \/ \E s \in CommandStreams : TelegramRefuses(s)
  BY <1>6, InvTelegram
<1>7. ASSUME NEW u \in Users, NEW a \in Actions, Press(u, a) PROVE IInv'
  BY <1>7, InvPress
<1>8. ASSUME NEW u \in Users, Write(u) PROVE IInv'
  BY <1>8, InvWrite
<1>9. ASSUME NEW u \in Users, Lapse(u) PROVE IInv'
  BY <1>9, InvLapse
<1>10. CASE Toggle
  BY <1>10, Unmoved, InvQuiet DEF Toggle
<1>11. CASE UNCHANGED vars
  BY <1>11, Unmoved, InvQuiet DEF vars
<1> QED
  BY <1>1, <1>2, <1>3, <1>4, <1>5, <1>6, <1>7, <1>8, <1>9, <1>10, <1>11 DEF Next

-----------------------------------------------------------------------------
(* The theorems.                                                           *)

\* The inductive invariant holds for any members, presses, texts and faults.
THEOREM Inductive == Spec => []IInv
<1> QED
  BY TypeCorrect, InvInit, InvStep, PTL DEF Spec

\* A text never makes two tickets, however often it is delivered.
THEOREM OneTicketPerTextCorrect == Spec => []OneTicketPerText
<1>1. TypeOK /\ IInv => OneTicketPerText
  <2> SUFFICES ASSUME TypeOK, IInv, NEW i \in 1..MaxText
               PROVE  made[i] <= 1
    BY DEF OneTicketPerText
  <2>1. made[i] \in Nat /\ i \in DOMAIN made
    BY DEF TypeOK
  <2>2. made[i] > 0 => made[i] = 1
    BY <2>1 DEF IInv, TicketsMarked
  <2> QED
    BY <2>1, <2>2
<1> QED
  BY TypeCorrect, Inductive, <1>1, PTL

\* No member has more tickets than prompts opened, and an open prompt has not made
\* its ticket yet.
THEOREM NoTicketUnaskedCorrect == Spec => []NoTicketUnasked
<1>1. TypeOK /\ IInv => NoTicketUnasked
  <2> SUFFICES ASSUME TypeOK, IInv, NEW u \in Users
               PROVE  TicketsOf(u) + (IF fsm[u].state = "creating_prompt" THEN 1 ELSE 0) <= opened[u]
    BY DEF NoTicketUnasked
  <2>1. TicketsOf(u) + (IF Prompted(u) THEN 1 ELSE 0) <= opened[u]
    BY DEF IInv, PromptsCounted
  <2>2. TicketsOf(u) \in Nat /\ opened[u] \in Nat
    BY TicketsType DEF TypeOK
  <2>3. fsm[u].state = "creating_prompt" => Prompted(u)
    BY DEF Prompted
  <2> QED
    BY <2>1, <2>2, <2>3
<1> QED
  BY TypeCorrect, Inductive, <1>1, PTL

=============================================================================
