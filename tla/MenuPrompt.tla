----------------------------- MODULE MenuPrompt -----------------------------
(***************************************************************************)
(* The menu of one customer group: a single Telegram message that every    *)
(* member of the group sees and presses, a navigation state per member in  *)
(* fsm_state, and General, which is opened while a member is asked for the *)
(* text of a ticket.                                                       *)
(*                                                                         *)
(* Three tasks of core write fsm_state: the callback consumer, the message *)
(* consumer and the loop that ends prompts older than 120 s.  Each reads   *)
(* in one step and commits in a later one (READ COMMITTED, no row locked   *)
(* by the reads), then publishes its commands one by one.  gateway-tg      *)
(* carries out each command stream in order, the streams independently.    *)
(* The customer is onboarded: menu_message_id is set.                      *)
(***************************************************************************)
EXTENDS Naturals, Sequences, FiniteSets, Functions

CONSTANTS
  Users,          \* members of the group
  Admins,         \* members who may write in General while it is closed
  MaxPress,       \* presses of menu buttons
  MaxText,        \* messages written in General
  MaxLapse,       \* prompts that reach their 120 s
  MaxToggle,      \* /deactivate_customer and /activate_customer
  MaxRedelivery,  \* entries core receives a second time
  MaxLoss,        \* commands Telegram refuses
  MaxCrash        \* crashes of core

ASSUME UsersAssumption == Admins \subseteq Users /\ IsFiniteSet(Users)
ASSUME BoundsAssumption ==
  /\ MaxPress \in Nat /\ MaxText \in Nat /\ MaxLapse \in Nat /\ MaxToggle \in Nat
  /\ MaxRedelivery \in Nat /\ MaxLoss \in Nat /\ MaxCrash \in Nat

VARIABLES
  fsm,        \* fsm_state per member; no row is the same as main without expiry
  active,     \* customers.is_active
  processed,  \* core_processed_events
  texts,      \* messages written in General so far, and whether still shown
  made,       \* rows of tickets made from each text
  opened,     \* how often each member's prompt was opened (history)
  bus,        \* the streams, oldest entry first
  todo,       \* per task of core: committed, not yet published
  reading,    \* consumer transactions that have read, not committed
  sweep,      \* members whose prompt the expire loop has found due
  screen,     \* Telegram: what the menu message shows
  general,    \* Telegram: General is open for members
  left        \* what remains of each bound

vars == <<fsm, active, processed, texts, made, opened, bus, todo, reading,
          sweep, screen, general, left>>

Consumers == {"callback", "message"}
Tasks == Consumers \cup {"expire"}
CommandStreams == {"edit", "delete", "reopen", "close"}
States == {"main", "creating_prompt", "my_tickets", "closed_tickets", "help"}

-----------------------------------------------------------------------------
(* The navigation: what next_state accepts, and what each screen offers.   *)

Move(from, action, to) == [from |-> from, action |-> action, to |-> to]

Moves ==
  {Move("main", "new_ticket", "creating_prompt"),
   Move("main", "my_tickets", "my_tickets"),
   Move("main", "help", "help"),
   Move("my_tickets", "closed_tickets", "closed_tickets"),
   Move("my_tickets", "back", "main"),
   Move("closed_tickets", "back", "my_tickets"),
   Move("help", "back", "main"),
   Move("creating_prompt", "cancel", "main"),
   Move("my_tickets", "page", "my_tickets"),
   Move("closed_tickets", "page", "closed_tickets")}
    \cup {Move(s, "main", "main") : s \in States}

Actions == {"new_ticket", "my_tickets", "help", "closed_tickets", "back", "cancel", "page"}

\* Page buttons are there when a list is longer than a page.
Buttons(view) ==
  CASE view = "main" -> {"new_ticket", "my_tickets", "help"}
    [] view = "creating_prompt" -> {"cancel"}
    [] view = "my_tickets" -> {"closed_tickets", "back", "page"}
    [] view = "closed_tickets" -> {"back", "page"}
    [] view = "help" -> {"back"}

\* A state is stored with a time to live when it is the prompt.
Mut_Stored(state) == [state |-> state, expires |-> "never"]  \* no time to live
Stored(state) ==
  [state |-> state, expires |-> IF state = "creating_prompt" THEN "later" ELSE "never"]

\* get_state: a row past its time counts as main before anybody removes it.
StateOf(u) == IF fsm[u].expires = "due" THEN "main" ELSE fsm[u].state

-----------------------------------------------------------------------------
Init ==
  /\ fsm = [u \in Users |-> Stored("main")]
  /\ active = TRUE
  /\ processed = {}
  /\ texts = << >>
  /\ made = [i \in 1..MaxText |-> 0]
  /\ opened = [u \in Users |-> 0]
  /\ bus = [s \in Consumers \cup CommandStreams |-> << >>]
  /\ todo = [h \in Tasks |-> << >>]
  /\ reading = {}
  /\ sweep = {}
  /\ screen = "main"
  /\ general = FALSE
  /\ left = [press |-> MaxPress, lapse |-> MaxLapse, toggle |-> MaxToggle, redelivery |-> MaxRedelivery,
             loss |-> MaxLoss, crash |-> MaxCrash]

-----------------------------------------------------------------------------
(* The consumers of core.                                                  *)

Command(stream, view, text) == [stream |-> stream, view |-> view, text |-> text]
Edit(view) == Command("edit", view, 0)
Reopen == Command("reopen", "none", 0)
Close == Command("close", "none", 0)
Mut_Delete(i) == Command("delete_message", "none", i)  \* a stream nobody reads
Delete(i) == Command("delete", "none", i)

Mut_Seen(h, m) == FALSE  \* no idempotency check
Seen(h, m) == <<h, m.n>> \in processed

Idle(h) == todo[h] = << >> /\ \A r \in reading : r.task # h

\* The oldest entry is taken together with the rows the decision rests on;
\* the stream may hand the same entry out once more.
Read(h) ==
  LET m == Head(bus[h]) IN
  /\ bus[h] # << >>
  /\ Idle(h)
  /\ reading' = reading \cup
       {[task |-> h, entry |-> m, seen |-> Seen(h, m), active |-> active,
         state |-> StateOf(m.user)]}
  /\ \/ bus' = [bus EXCEPT ![h] = Tail(@)] /\ UNCHANGED left
     \/ /\ left.redelivery > 0
        /\ left' = [left EXCEPT !.redelivery = @ - 1]
        /\ bus' = [bus EXCEPT ![h] = Append(Tail(@), m)]
  /\ UNCHANGED <<fsm, active, processed, texts, made, opened, todo, sweep, screen, general>>

\* The transaction of r commits: its event is marked and msgs are owed.
Commit(r, msgs) ==
  /\ reading' = reading \ {r}
  /\ processed' = processed \cup {<<r.task, r.entry.n>>}
  /\ todo' = [todo EXCEPT ![r.task] = msgs]
  /\ UNCHANGED <<active, texts, bus, sweep, screen, general, left>>

\* An event processed before, a deactivated customer or a button that is not
\* accepted in this state: at most a toast, and nothing changes.
Ignored(r) ==
  /\ \/ r.seen
     \/ ~r.active
     \/ r.task = "callback" /\ ~\E mv \in Moves : mv.from = r.state /\ mv.action = r.entry.what
  /\ Commit(r, << >>)
  /\ UNCHANGED <<fsm, made, opened>>

\* General is opened on the way into the prompt and closed on the way from it
\* to main.
GeneralTopicCommands(from, to) ==
  CASE from # "creating_prompt" /\ to = "creating_prompt" -> <<Reopen>>
    [] from = "creating_prompt" /\ to = "main" -> <<Close>>
    [] OTHER -> << >>

\* The state read is replaced by the one the button leads to, whatever became
\* of the row in the meantime.
HandleMenuCallback(r, mv) ==
  LET u == r.entry.user IN
  /\ r.task = "callback" /\ ~r.seen /\ r.active
  /\ mv.from = r.state /\ mv.action = r.entry.what
  /\ fsm' = [fsm EXCEPT ![u] = Stored(mv.to)]
  /\ opened' = [opened EXCEPT ![u] = IF mv.to = "creating_prompt" THEN @ + 1 ELSE @]
  /\ Commit(r, <<Edit(mv.to)>> \o GeneralTopicCommands(mv.from, mv.to))
  /\ UNCHANGED made

\* A text nobody has asked for is removed from General.
Mut_Unwanted(r) == FALSE  \* left where it is
Unwanted(r) == r.state # "creating_prompt"

RemoveText(r) ==
  /\ r.task = "message" /\ ~r.seen /\ r.active
  /\ Unwanted(r)
  /\ Commit(r, <<Delete(r.entry.n)>>)
  /\ UNCHANGED <<fsm, made, opened>>

Mut_AfterTicket(u) == fsm  \* the prompt stays
AfterTicket(u) == [fsm EXCEPT ![u] = Stored("main")]

\* Phase 1 of a ticket, as far as the menu is concerned.
CreateTicketPhase1(r) ==
  /\ r.task = "message" /\ ~r.seen /\ r.active
  /\ r.state = "creating_prompt"
  /\ made' = [made EXCEPT ![r.entry.n] = @ + 1]
  /\ fsm' = AfterTicket(r.entry.user)
  /\ Commit(r, <<Delete(r.entry.n), Close, Edit("main")>>)
  /\ UNCHANGED opened

-----------------------------------------------------------------------------
(* The expire loop, publication and crashes.                               *)

ListExpired ==
  /\ todo["expire"] = << >>
  /\ sweep = {}
  /\ sweep' = {u \in Users : fsm[u].expires = "due"}
  /\ UNCHANGED <<fsm, active, processed, texts, made, opened, bus, todo, reading,
                 screen, general, left>>

\* Each row found is removed by its key, and the menu reset once per row.
ExpireCreatingPrompt ==
  /\ sweep # {}
  /\ fsm' = [u \in Users |-> IF u \in sweep THEN Stored("main") ELSE fsm[u]]
  /\ todo' = [todo EXCEPT !["expire"] =
       [i \in 1..(2 * Cardinality(sweep)) |-> IF i % 2 = 1 THEN Close ELSE Edit("main")]]
  /\ sweep' = {}
  /\ UNCHANGED <<active, processed, texts, made, opened, bus, reading, screen, general, left>>

Publish(h) ==
  LET c == Head(todo[h]) IN
  /\ todo[h] # << >>
  /\ bus' = [bus EXCEPT ![c.stream] = Append(@, c)]
  /\ todo' = [todo EXCEPT ![h] = Tail(@)]
  /\ UNCHANGED <<fsm, active, processed, texts, made, opened, reading, sweep,
                 screen, general, left>>

Crash ==
  /\ left.crash > 0
  /\ left' = [left EXCEPT !.crash = @ - 1]
  /\ todo' = [h \in Tasks |-> << >>]
  /\ reading' = {}
  /\ sweep' = {}
  /\ UNCHANGED <<fsm, active, processed, texts, made, opened, bus, screen, general>>

-----------------------------------------------------------------------------
(* gateway-tg and Telegram.                                                *)

core == <<fsm, active, processed, made, opened, todo, reading, sweep>>

\* The oldest command of stream s is taken.
Take(s) == bus[s] # << >> /\ bus' = [bus EXCEPT ![s] = Tail(@)]

EditMenu ==
  /\ Take("edit")
  /\ screen' = Head(bus["edit"]).view
  /\ UNCHANGED <<core, texts, general, left>>

DeleteMessage ==
  /\ Take("delete")
  /\ texts' = [texts EXCEPT ![Head(bus["delete"]).text].shown = FALSE]
  /\ UNCHANGED <<core, screen, general, left>>

ReopenGeneral ==
  /\ Take("reopen")
  /\ general' = TRUE
  /\ UNCHANGED <<core, texts, screen, left>>

CloseGeneral ==
  /\ Take("close")
  /\ general' = FALSE
  /\ UNCHANGED <<core, texts, screen, left>>

TelegramRefuses(s) ==
  /\ left.loss > 0
  /\ Take(s)
  /\ left' = [left EXCEPT !.loss = @ - 1]
  /\ UNCHANGED <<core, texts, screen, general>>

-----------------------------------------------------------------------------
(* People and time.                                                        *)

\* A button of the screen as it is shown now.
Press(u, action) ==
  /\ left.press > 0
  /\ action \in Buttons(screen)
  /\ left' = [left EXCEPT !.press = @ - 1]
  /\ bus' = [bus EXCEPT !["callback"] =
               Append(@, [n |-> MaxPress - left.press + 1, user |-> u, what |-> action])]
  /\ UNCHANGED <<core, texts, screen, general>>

\* A text written in General.
Write(u) ==
  /\ Len(texts) < MaxText
  /\ general \/ u \in Admins
  /\ texts' = Append(texts, [user |-> u, shown |-> TRUE])
  /\ bus' = [bus EXCEPT !["message"] =
               Append(@, [n |-> Len(texts) + 1, user |-> u, what |-> "text"])]
  /\ UNCHANGED <<core, screen, general, left>>

\* A command of an administrator, handled by the message consumer.
Toggle ==
  /\ left.toggle > 0
  /\ Idle("message")
  /\ left' = [left EXCEPT !.toggle = @ - 1]
  /\ active' = ~active
  /\ UNCHANGED <<fsm, processed, texts, made, opened, bus, todo, reading, sweep, screen, general>>

\* 120 s have gone by since the prompt of u was opened.
Lapse(u) ==
  /\ fsm[u].expires = "later"
  /\ left.lapse > 0
  /\ left' = [left EXCEPT !.lapse = @ - 1]
  /\ fsm' = [fsm EXCEPT ![u].expires = "due"]
  /\ UNCHANGED <<active, processed, texts, made, opened, bus, todo, reading, sweep,
                 screen, general>>

-----------------------------------------------------------------------------

Decide(r) ==
  \/ Ignored(r)
  \/ \E mv \in Moves : HandleMenuCallback(r, mv)
  \/ RemoveText(r)
  \/ CreateTicketPhase1(r)

Sweep == (ListExpired /\ sweep' # {}) \/ ExpireCreatingPrompt

Next ==
  \/ \E h \in Consumers : Read(h)
  \/ \E r \in reading : Decide(r)
  \/ Sweep
  \/ \E h \in Tasks : Publish(h)
  \/ Crash
  \/ EditMenu \/ DeleteMessage \/ ReopenGeneral \/ CloseGeneral
  \/ \E s \in CommandStreams : TelegramRefuses(s)
  \/ \E u \in Users, a \in Actions : Press(u, a)
  \/ \E u \in Users : Write(u) \/ Lapse(u)
  \/ Toggle

Spec == Init /\ [][Next]_vars

-----------------------------------------------------------------------------
(* Properties.                                                             *)

BotCommands(s) == [stream : {s}, view : IF s = "edit" THEN States ELSE {"none"}, text : Nat]
Commands == BotCommands("edit") \cup BotCommands("delete") \cup BotCommands("reopen") \cup BotCommands("close")
Entries == [n : Nat, user : Users, what : Actions \cup {"text"}]

TypeOK ==
  /\ fsm \in [Users -> [state : States, expires : {"never", "later", "due"}]]
  /\ active \in BOOLEAN
  /\ processed \subseteq Consumers \X Nat
  /\ texts \in Seq([user : Users, shown : BOOLEAN])
  /\ made \in [1..MaxText -> Nat]
  /\ opened \in [Users -> Nat]
  /\ DOMAIN bus = Consumers \cup CommandStreams
  /\ \A s \in Consumers : bus[s] \in Seq(Entries)
  /\ \A s \in CommandStreams : bus[s] \in Seq(BotCommands(s))
  /\ todo \in [Tasks -> Seq(Commands)]
  /\ reading \subseteq [task : Consumers, entry : Entries, seen : BOOLEAN,
                       active : BOOLEAN, state : States]
  /\ sweep \subseteq Users
  /\ screen \in States
  /\ general \in BOOLEAN
  /\ left \in [press : 0..MaxPress, lapse : Nat, toggle : Nat, redelivery : Nat, loss : Nat, crash : Nat]

TicketsOf(u) == Cardinality({i \in DOMAIN texts : texts[i].user = u /\ made[i] > 0})

\* A text never makes two tickets, however often it is delivered and however
\* many prompts its author opens in between.
OneTicketPerText == \A i \in 1..MaxText : made[i] <= 1

\* A member gets at most one ticket per prompt opened, and a prompt still open
\* has not made its ticket yet: no delay, lapse or button pressed meanwhile lets
\* one prompt swallow two texts.
NoTicketUnasked == \A u \in Users :
  TicketsOf(u) + (IF fsm[u].state = "creating_prompt" THEN 1 ELSE 0) <= opened[u]

\* What the two rest on, by induction.  A message under way tells whose text it is;
OfText(m) == m.n \in DOMAIN texts /\ texts[m.n].user = m.user
MessagesOfTexts ==
  /\ Len(texts) <= MaxText
  /\ \A m \in Range(bus["message"]) : OfText(m)
  /\ \A r \in reading : r.task = "message" => OfText(r.entry)

\* a task reads one entry at a time, and nobody marks it in between;
ReadingsFresh == \A r \in reading :
  /\ \A q \in reading : q.task = r.task => q = r
  /\ ~r.seen => <<r.task, r.entry.n>> \notin processed

\* a text that made a ticket is marked;
TicketsMarked == \A i \in DOMAIN made : made[i] > 0 =>
  made[i] = 1 /\ i \in DOMAIN texts /\ <<"message", i>> \in processed

\* and a prompt that is open, or was when the text now being handled was read, has
\* been opened once more than its member has tickets.
Prompted(u) ==
  \/ fsm[u].state = "creating_prompt"
  \/ \E r \in reading : r.task = "message" /\ ~r.seen /\ r.state = "creating_prompt"
                        /\ r.entry.user = u
PromptsCounted == \A u \in Users : TicketsOf(u) + (IF Prompted(u) THEN 1 ELSE 0) <= opened[u]

\* The inductive invariant.
IInv == MessagesOfTexts /\ ReadingsFresh /\ TicketsMarked /\ PromptsCounted

\* A prompt that was opened comes to its end, by a ticket, a button or time,
\* whatever crashes and whatever Telegram refuses.
PromptEnds == \A u \in Users :
  fsm[u].state = "creating_prompt" ~> fsm[u].state # "creating_prompt"

\* Whatever is written in General disappears from it, unless a crash or a
\* refusal loses a command, or the customer is deactivated.
Undisturbed == left.loss = MaxLoss /\ left.crash = MaxCrash /\ left.toggle = MaxToggle
TextsCleared == \A i \in 1..MaxText :
  i \in DOMAIN texts ~> (i \in DOMAIN texts /\ (~Undisturbed \/ ~texts[i].shown))

Settled ==
  /\ \A s \in DOMAIN bus : bus[s] = << >>
  /\ \A h \in Tasks : todo[h] = << >>
  /\ reading = {} /\ sweep = {}
  /\ \A u \in Users : fsm[u].expires # "due"

\* Spec 001: from any screen a button leads back to main.  Once all is quiet,
\* every member has at least one button on the screen that is accepted.
MenuUsable == Settled => \A u \in Users :
  \E mv \in Moves : mv.from = StateOf(u) /\ mv.action \in Buttons(screen)

\* SPEC 3.2 and 7.2: General is closed, except while a member is asked for a text.
GeneralClosedAtRest ==
  Settled /\ general => \E u \in Users : fsm[u].state = "creating_prompt"

-----------------------------------------------------------------------------
(* The services keep running and time passes; people need do nothing.      *)

Fairness ==
  /\ \A h \in Consumers : WF_vars(Read(h)) /\ WF_vars(\E r \in reading : r.task = h /\ Decide(r))
  /\ \A h \in Tasks : WF_vars(Publish(h))
  /\ WF_vars(Sweep)
  /\ WF_vars(EditMenu) /\ WF_vars(DeleteMessage)
  /\ WF_vars(ReopenGeneral) /\ WF_vars(CloseGeneral)
  /\ \A u \in Users : WF_vars(Lapse(u))

FairSpec == Spec /\ Fairness

=============================================================================
