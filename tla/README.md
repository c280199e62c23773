# TelegramTicketSystem in TLA+

A verification project for the ticket system in `src/`: customers write tickets in
a Telegram forum group, the team takes them from an inbox topic of its own group,
and a worksheet mirrors them. The specifications are translated from the code;
documents are used only as a source of what the code is said to do.

## 1. The system

Five services talk through Redis Streams (`shared/bus/broker.py`). Every subscriber
is a consumer named `default` in the consumer group of its service, and handles one
entry at a time; two subscribers, even of one process, are not ordered against each
other. An entry that was handed out and not acknowledged is never read again.

| Component | State | Operations | In this project |
|---|---|---|---|
| core, ticket lifecycle (`services/create_ticket.py`, `incoming_card.py`, `assign_ticket.py`, `close_ticket.py`) | `tickets`, `ticket_events`, `core_processed_events` | three-phase creation, card, assignment, closing | `TicketLifecycle`, `TicketStatus` |
| core, customer menu (`handle_menu_callback.py`, `expire_creating_prompt.py`, `domain/menu*.py`, `repository/fsm.py`) | `fsm_state` per member | navigation, prompt for a text, expiry loop | `MenuPrompt` |
| core, onboarding (`onboard_customer.py`, `repository/customers.py`) | `customers`: title, `is_active`, `menu_correlation_id`, `menu_message_id` | hint to a new administrator, `/setup`, the menu's acknowledgement | `Onboarding` |
| core, administration (`admin_commands.py`) | the same rows | rename, deactivate, activate, list, reload | `Onboarding`, `TeamGroup`; effect on the menu in `MenuPrompt` |
| core, team group (`setup_team_group.py`, `repository/team_group.py`) | `team_group_topic_setup`, environment of the process | `/setup_team_group`, four topics, the environment block, `/print_topic_id` | `TeamGroup` |
| core, executors (`load_executors.py`, `repository/executors.py`) | `executors` | yaml at the start and on command, ids learnt from messages | `TeamGroup` |
| core, digest; scheduler | in-memory job store | daily tick, where the report goes | `TeamGroup` |
| core, routing (`handlers/tg_message.py`) | none | which branch takes a message | `MenuPrompt`, `Onboarding`, `TeamGroup` |
| sheets-sync | queue, `_TicketCache`, row numbers, processed events | enqueue, plan, write, store | `SheetsSync`; together with core in `TicketMirror` |
| gateway-tg, outbound | Telegram itself | one subscriber per command type | actions of the modules whose commands it carries out |
| gateway-tg, inbound | none | update to event | the actions of people |
| notifications | none | a skeleton that starts and waits | not modelled: nothing to model |
| configuration, logging, sessions, migrations | none | wiring | not modelled |

How they interact: gateway-tg turns presses and texts into `events.tg.*`; core
handles one in a database transaction and, **after the commit**, publishes the
commands (`cmd.tg.*`) and facts (`events.ticket.*`) it owes one by one; gateway-tg
executes the commands and answers `create_forum_topic` and `send_message` with
`topic_created` and `message_sent` under the same correlation id; sheets-sync follows
the facts.

What is hard: commands of one decision travel in independent streams; a crash between
commit and publication loses messages silently; buttons are pressed on messages that
are out of date; handlers read rows without locks and several tasks write the same
row; the menu state is kept per member while the menu message belongs to the group;
the expiry loop removes rows it read earlier; the worksheet is written before the
transaction that remembers where.

The correctness properties wanted, by component:

* lifecycle: a ticket is opened, taken and closed at most once and by the right
  person; the audit trail tells exactly that; nothing is created twice in Telegram;
  Telegram ends up showing what the database says; a ticket reaches the team.
* menu: a text makes at most one ticket and only when asked for; a prompt ends; texts
  disappear from General; General is closed when nobody is asked; the menu is usable.
* sheets-sync: the row a ticket's number stands for is its own, a taken ticket is not shown as new
  again, an update keeps what earlier events told, the worksheet never runs ahead of the database, and
  every announcement is dealt with.
* onboarding: the menu recorded is the group's own and is not lost again; a set-up interrupted before
  its menu was recorded can be finished by another `/setup` (afterwards the code answers that the group is
  connected, whatever else was lost).
* team group: one set of topics, each under its own role; the digest goes where it belongs; ids are
  learnt from their owners only.

## 2. Modules

| Module | Content |
|---|---|
| `TicketStatus` | abstract promise: open, take, close |
| `TicketLifecycle` | rows, audit trail, streams, tasks of core, gateway-tg, Telegram's topics and messages; refinement mapping to `TicketStatus` |
| `TicketLifecycleProofs` | proofs of the types, of the rows with their safety properties and the refinement, and that nothing exists twice and attachments are final |
| `TicketLifecycleSees` | proof that Telegram ends up showing the row as long as nothing is lost |
| `MenuPrompt`, `MenuPromptProofs` | `fsm_state`, the menu message, General, texts, the expiry loop, streams; proofs of its safety |
| `SheetsSync`, `SheetsSyncProofs` | queue, memory, row numbers, worksheet; proofs of its safety |
| `TicketMirror`, `TicketMirrorProofs` | `TicketLifecycle` and `SheetsSync` side by side, the facts of the one feeding the other; proofs of both refinements and of what holds between them |
| `Onboarding`, `OnboardingProofs` | customers' rows, `/setup`, the menu, administrators' commands; proofs of its safety |
| `TeamGroup`, `TeamGroupProofs` | executors, the team group's topics, the environment, the digest; proofs of its safety |
| `StreamLemmas` | facts about sequences used as streams: what taking, handing out again and appending leave in them |
| `MC*` | the instances model-checked; the bounds are in the `.cfg` files |

### TicketLifecycle

`db[t]` is the row of `tickets` (`models.py:78`), `log` counts the rows of
`ticket_events`, `processed` is `core_processed_events`. `bus` holds the stream
entries not yet taken, `todo[h]` what task `h` has committed and not published. An
entry is identified by stream, ticket and number (`EventId`), which stands for the
`event_id`. `topics` and `posts` are what Telegram shows.

* Each of core's handlers for acknowledgements and facts is one action: it takes an
  entry (`Receive`, only while the task is `Free`), runs the transaction and sets
  `todo`. `Publish` sends one message. `Crash` empties `todo` and `reading`.
* The callback consumer is split: `CallbackRead` reads the row, and one of `Refused`,
  `AssignTicket`, `ConfirmOrCancel`, `CommitClose` decides **on the row read** and commits.
  Other tasks run in between (PostgreSQL's READ COMMITTED, no row locks on reads).
  For the other handlers the split makes no difference: each writes only columns
  nobody else writes, from values in the entry.
* gateway-tg's actions carry a command out and publish the acknowledgement in one
  step; `Executed` allows the acknowledgement to be lost, `TelegramRefuses` the command to be
  refused (`TelegramBadRequest` is logged, any other error leaves the entry pending).
* A press (`PressButton`) is made on what a message shows at that moment, by anybody
  who sees it: a card's buttons by executors, also inactive ones, a header's by all
  members of the group. It is handled whenever the consumer gets to it.

Left out: texts (a header or card is a *view*), answers to callback queries and
pinning (nothing depends on them), customers that vanish from the table. The case
that the team group is not configured is a constant; the proofs cover both values.

### MenuPrompt

`fsm[u]` is the row of member `u` of one group; `expires` is `never`, `later` or `due`,
and `Lapse` lets the 120 s go by. `Read` takes an entry together with what the decision
rests on (the processed mark, `is_active`, the state), `Commit` writes: exactly the window
in which the other consumer and the expiry loop (`ListExpired`, `ExpireCreatingPrompt`)
may write the same row. `Moves` is the transition table of `next_state`, `Buttons` what the
rendered screens offer. Command streams are queues, one consumer each. `opened` and `made`
are history variables: how often a prompt was opened for a member, how many tickets a
text made. A lost row lock is not modelled because the code takes none before `upsert`.

Left out: texts without words (removed before anything is read), the removal of
service messages, toasts, list contents. A page indicator (`noop`) changes nothing. An
edited message counts as another text, as `dispatcher.py:36` does.

### SheetsSync

A fact is identified by kind and ticket, as core announces each once. `Skip` and `Plan`
begin the work on the head of the queue, `Write` changes the worksheet, `Commit` stores row
number and mark. Columns that come from the same event are one.

The worksheet is Google's, and `row_count` is gspread's. `grid` is the number of rows the worksheet
has, `sheet` those that are filled, `counted` what gspread takes `grid` to be. Three things are assumed of them:
an append fills the row below the last one filled, the grid growing if it has to; gspread (6.2.1) reads `row_count` when
the worksheet is opened and adds one for each append that is answered, whether the grid grew or not; and an update of a row beyond the grid is refused.
`AppendedAt`, the number `append_or_update` returns, is that count. So with spare blank rows (`MaxSpare`) or after an append
whose response was lost (`Unanswered`) it is not the number of the row appended, and a later event is refused (`Refused`), fills a
blank row, or writes over another ticket's row: each is a step of the model. `upsets` remembers whether any of this has
happened; `Exact` says that `counted` could be relied upon so far.

An exception at any point rolls the transaction back and drops the item (`GiveUp`, `ticket_events.py:78`): `WorkerFailure` may
come before or after the write. `Restart` empties queue and memory and reads the grid anew. What was dropped is in `dropped`. `docs/SPEC.md:914`
says of an error that the event stays in the stream and is retried; the entry is acknowledged when it is queued, so nothing retries it.
Errors, lost responses and restarts share one bound, `MaxFault`, as each costs at most one transaction. The code puts no limit to its queue; `MaxQueue` only
delays the subscribers. The dry mode without credentials is not modelled.

Two things the code does are visible in `RowFor` and asserted by nobody: the time a ticket was taken is kept in no memory, so closing
blanks that column (against the comment at `sync_ticket.py:173`), and after a restart an update blanks whatever
earlier events told (against the comment at `sync_ticket.py:55`). `ColumnsKept` is about the other columns between two restarts.

### TicketMirror

`LifecycleStep` is a step of `TicketLifecycle`; when it publishes a fact, the fact is in the streams of
sheets-sync in the same step, which is what the bus does. `MirrorStep` is any step of `SheetsSync` except its
`Announce`. In `SheetsSync` alone the guards of `Announce` stand for what core does; `FactsInOrder` says that
core keeps to them: the services together implement `SheetsSync!Spec`. It is model-checked and proved
(section 4), so what is proved of `SheetsSync` is true of it as fed by core.

### Onboarding

`row[c]` is the row of `customers`: `setup` is `menu_correlation_id`, known by the number of the `/setup` that
made it, `menu` is `menu_message_id`. Message ids count per group, as Telegram's do, so that two groups really
have messages of the same id. Three tasks (`message`, `membership`, `sent`) read in `Read` and commit in `Decide`, one
disjunct per branch of a handler; SQLAlchemy writes only the columns that changed, hence `Edited(what, read, now)`
changes one column of the row *as it is now*. `AttachMenu` has two outcomes, because the handler looks the row up twice
by its correlation (`tg_message_sent.py`, then `HandleMenuMessageSent`), and a `/setup` may come in between.
`given` lists what people did; `hurt` the events a fault has cost something; both are history.

Left out: titles and names; the recheck button, which only answers; the missing-rights branch, which `/setup` cannot
reach as its handler passes all rights as present; a kick, which is only logged.

### TeamGroup

`exec[n]` is the row of username `n`, `holder[n]` who has that name in Telegram now; `file` is `executors.yaml`; `env`
the environment the process was started with. `HandleMessage` follows `on_tg_message` branch by branch: the configured team group
first (`ResolveExecutor`), the commands after it. `AttachTeamTopic` finds its row by correlation and, with the fourth topic, owes the
environment block. `Restart` stands for the operator: core starts again with the environment it had or with a block it
has sent, and reads the yaml. Its handlers are atomic, as one task writes each of the columns, and those of two
tasks (executors at a restart) do not overlap. `ResolveByHand` is the operator's update of the first executor (`docs/SMOKE.md:107`).

Left out: full names, leads, the figures of the digest.

## 3. Runs

| Run | Result | Shows |
|---|---|---|
| `Lifecycle` | passes, 2.1 M states | `AuditTrail`, `OneOfEach`, `SnapshotHolds`, `AttachedForGood`, `WorkedOnIsAttached`, the refinement of `TicketStatus` and `LifecycleInv`, the invariant of the proofs, under redelivery, refused commands, lost acknowledgements and a crash |
| `Mirror` | passes, 0.5 M | core and sheets-sync together, nothing lost: `CustomerSeesStatus`, `ReachesTeam`, `ClosingReachesTopic`, `EveryTicketMirrored`, `MirrorNotAhead`, `FactsInOrder` and `MirrorInv`, the invariant of the proofs |
| `CardRace` | violated | `CardShowsTaker`, promised by SPEC 8.2 and spec 003 |
| `MenuSafety` | passes, 3.8 M | `OneTicketPerText`, `NoTicketUnasked` and the invariant of the proofs |
| `MenuLoss` | passes, 0.4 M | `PromptEnds`, `TextsCleared` under a crash and a refused command |
| `MenuStuck` | violated | `MenuUsable`, spec 001 on the way back to main |
| `GeneralLeftOpen` | violated | `GeneralClosedAtRest`, SPEC 3.2 |
| `Sheets` | passes, 3.7 M | `OwnRowIfExact`, `RowsPerTicket`, `NotNewAgain`, `ColumnsKept`, `AllProcessed` and the invariant of the proofs, with and without a spare row, with an error, a lost response or a restart at every point |
| `RowNumbers` | violated | `OwnRow`, promised by a comment in `sheets_client.py` |
| `Onboarding` | passes, 0.8 M | `MenuIsOurs`, `NoSecondMenu`, `MenuKept`, `SetupHeals`, `CommandsAnswered` and the invariant of the proofs |
| `TeamGroup` | passes, 0.6 M | `OnceEach`, `BlockTells`, `IdsEarned`, `SetupEnds`, `TicksReported` and the invariant of the proofs |
| `CommandsSwallowed` | violated | `CommandsAnswered` of the team group, SPEC 3.7 |

All runs switch deadlock checking off: when people stop pressing and writing and every stream
is empty, the system rightly does nothing.

The violated runs, in words.

* `CardRace`: the card is sent, an executor presses it at once, and the press is handled before
  the card's `message_sent`. `UpdateIncomingAfterAssign` finds no message id and gives up; its event is
  spent and the card offers a taken ticket for ever (later presses are refused).
* `MenuStuck`: one member opens "my tickets"; the shared message now shows it; for another member,
  whose row says main, every button shown is "not available now". The same property
  fails for a single member who presses a button while his text is being made
  a ticket: the message is edited twice and shows main, his row says my_tickets.
* `GeneralLeftOpen`: new ticket, cancel; the reopening waits in its stream while the closing is
  carried out, then opens General, and nothing closes it again.
* `RowNumbers`: a worksheet with one spare row below its header. The first ticket is announced and appended to row 1 (header left out); the
  grid had one row and gspread now counts two, so 2 is stored. Nothing has failed. A worksheet made in Google Sheets has many spare rows, and no document
  tells the operator to remove them.
* `CommandsSwallowed`: an executor whose id was set by hand writes `/setup_team_group`; the four topics are made and the block is
  sent; core is restarted with the block as its environment; the same executor writes `/print_topic_id` in the team group, and the
  first branch of `on_tg_message` takes it for a sign of life. It is never answered there, while it was before the restart.

### Bounds

One ticket in the lifecycle runs: handlers touch one row only, two tickets share just
the consumers, and a consumer busy with another ticket only delays. Three presses are the
longest interesting sequences (assign, close, confirm; close, confirm, confirm;
assign twice, close). One redelivery, crash, refusal: each fault hits every possible step,
and a second one meets a state the first reaches. `Lifecycle` has two users (an author and
a stranger, interchangeable until a ticket is written, hence the symmetry), `Mirror` two executors (active and not)
and no faults, since its promises are about what happens when nothing is lost. The theorems of section 4 need no bound.

`MenuSafety` and `MenuLoss` have one member, who may write in General while it is closed (an
administrator), because the races are between the *tasks* over one member's row; members meet
only in the shared message and in General, which `MenuStuck` looks at with two.
Two presses with two texts reach a second prompt while the first one's text is under way. `Sheets`
has two tickets because rows could be mixed up, one spare row, which suffices for a number to be beyond the grid or, once it is filled, another
ticket's, and two places in the queue, which let an item wait behind the one at work and another behind that; the proofs need
no bound. `RowNumbers` has no fault and a queue for every fact. In `Mirror` the worksheet has no spare rows and the queue takes all three facts of the ticket.

`Onboarding` has two groups with topics and one without, and two commands, out of `/setup`, `/deactivate_customer` and a change of the bot's rights, by an
executor or not: two `/setup` of one group race with each other and with the acknowledgement of the first menu, two of different
groups with equal message ids, and a `/setup` with an administrator's command on the same row. `TeamGroup` has two
groups, two listed usernames, of which one belongs to somebody and the other may be taken, two commands or ticks, one restart and one
trouble (a refusal, a loss, a redelivery, a change of the file or of a name). Two commands suffice for two attempts at a set-up, in one group or two,
and for a tick after a set-up and a restart.

### Fairness

`MenuPrompt`: weak fairness on each consumer taking entries, on a transaction that has read going on to
commit, on each publication and on each command type being carried out: `broker`'s
subscribers are loops that run as long as the process does, and the entries cannot
become unreadable again. Weak fairness on `Lapse` is time passing, and on `Sweep` the 15 s loop, which survives
exceptions (`main.py:69`). `PromptEnds` is checked with a crash and a refusal, since time alone ends a prompt.

The other modules: weak fairness on the services' steps as a whole (`Service`, `Progress`). That is less than the loops guarantee, and enough: each
such step uses up an entry, an owed message or an open transaction, of which a bounded number is ever produced, so no
single step can be put off for ever by others. In `TicketMirror` sheets-sync has a fairness of its own.
No fairness for people, the operator, faults, redelivery or deactivation.
`ReachesTeam`, `ClosingReachesTopic` and `EveryTicketMirrored` are checked without faults, since the code retries nothing; `SetupHeals`, `SetupEnds`,
`TicksReported` with them, excepting the events a fault has cost something; `AllProcessed` with them, excepting exactly the items dropped.

## 4. Proofs

All theorems hold for all values of the constants that satisfy the assumptions of the module: bounds are natural
numbers, active executors are executors, the NULL person, name and group are none of the others, members of a group are finitely many.

| Module | Theorems |
|---|---|
| `TicketLifecycleProofs` | `TypeCorrect`, `RowsCorrect` (`RowInv`), `AuditTrailCorrect`, `WorkedOnCorrect`, `SnapshotCorrect`, `ImplementsStatus` (`Status!Spec`), `Inductive` (`IInv`), `OneOfEachCorrect`, `AttachedForGoodCorrect` |
| `TicketLifecycleSees` | `LifecycleInductive` (`LifecycleInv`), `CustomerSeesStatusCorrect` |
| `TicketMirrorProofs` | `MirrorKeepsLifecycle` (`Spec`), `FactsInOrderCorrect` (`Sheets!Spec`), `MirroredRows`, `MirrorInductive` (`MirrorInv`), `MirrorNotAheadCorrect` |
| `SheetsSyncProofs` | `TypeCorrect`, `Inductive`, `OwnRowIfExactCorrect`, `RowsPerTicketCorrect`, `NotNewAgainCorrect`, `ColumnsKeptCorrect` |
| `OnboardingProofs` | `TypeCorrect`, `Inductive`, `MenuIsOursCorrect`, `NoSecondMenuCorrect`, `MenuKeptCorrect` |
| `TeamGroupProofs` | `TypeCorrect`, `Inductive`, `OnceEachCorrect`, `BlockTellsCorrect`, `IdsEarnedCorrect` |
| `MenuPromptProofs` | `TypeCorrect`, `Inductive`, `OneTicketPerTextCorrect`, `NoTicketUnaskedCorrect` |

Every safety property of a passing run has its theorem. Each inductive invariant is also an invariant of a run (`TypeOK`, `RowInv` and the
`IInv` of `TicketLifecycle` as parts of it), so that a step of the argument that does not hold shows up on a small instance.

**TicketLifecycle.** `WorkedOnIsAttached` is not inductive: that `AssignTicket` meets a row with its
header attached follows from the card the press was made on, the card from the announcement, and the
announcement from the header. `AllGrounded` carries this along everything that holds a message: streams,
owed messages, the open transaction, and what Telegram shows. `SnapshotHolds` carries what
was true of the row read over to the row at commit; it is what the comment "Race-safe" in
`assign_ticket.py` amounts to, and it rests on the callback consumer handling one entry at a time.
`EveryStep` shows that every step treats the rows in one of five
ways (`RowStep`: opens, attaches, takes, closes, rests). Order, audit trail and snapshot are then
proved per way (`OrderStep`, `AuditStep`, `SnapshotStep`), not per action; `Kept` says that rows never lose what
messages rest on, so that old messages stay grounded, and one lemma per action shows its new messages are.
That much is `RowInv`.

`OneOfEach` and `AttachedForGood` need the rest of `IInv`, `Once`. A ticket owes four things once (`Kinds`): its topic, its header, its card,
its farewell. Each is begun by a change that cannot happen again, a status or the mark of an event that has number 1 in its stream; its command is in one
place at most, on the bus or owed (`OnePlace`), and no longer anywhere when it has been carried out (`Done`). That the event has number 1
follows from the thing before it having been done once, so the four hold each other up. `Sound` and `Reached` tell the two
acknowledgements of a ticket apart: the header is post 1 and acknowledged first, under the ticket's correlation, the card second, under its own, and an edit
is of one or the other (`Shown`). A step of core leaves Telegram alone (`Inside`), a step of gateway-tg leaves core alone (`CarriedOnce`), and
nothing is taken back (`Grows`); what remains per action is what it begins and what it owes.

`CustomerSeesStatus` is about rest, and says nothing of how rest is reached; what is inductive is what must hold on the way.
It is stated for behaviours in which nothing is lost (`Undisturbed`: no command refused, no acknowledgement lost, no crash, which are the faults `left`
counts down), while entries may be handed out again and people may press anything at any time. Two
strengthenings carry it. `Consistent` holds whatever is lost: an acknowledgement marked as processed has attached its id
(`Attached`), a ticket's topic is known by one id everywhere (`TopicId`), and what the open transaction read is
enough to send all edits of its decision, so none is left out as it would be with a topic or header missing.
`Faithful` holds while nothing is lost. `Completes`: whatever the row still lacks, the topic, the header, the
farewell, the closed topic, its command or acknowledgement is somewhere on its way. `LastFits` and `InTurn`: header and icon are
edited by several commands which may all be under way, shown by an older one for a moment; but all edits of one thing are owed by the callback task, one
commit at a time, and carried out in the order of their stream, so the one carried out last is the one of the last commit,
and that one fits the row. At rest nothing is awaited and no edit pending: the row has all ids, and what is shown fits.

**TicketMirror.** That the services together keep `TicketLifecycle!Spec` is immediate, as sheets-sync only reads. That they keep
`SheetsSync!Spec` is not: each guard of `Announce` has to follow from what core does, though core never looks at what it has announced.
`FactsTold` is the reason: a fact announced is backed by the row or by the number of its event (`Backed`), a fact owed has not been announced, is owed
once, and in the task whose commit it is of (`OwedBy`, `OwedOnce`); cards and presses on them exist only of tickets that are announced
(`CardsAnnounced`), which is why a taking is never announced before its ticket; and the
callback task commits nothing while it owes something, so a ticket is not closed while its taking is still to be announced.
Each step of the services is then a step of `SheetsSync` or leaves it alone, and the theorems of `SheetsSyncProofs`, instantiated with
what core announces, hold of the whole (`MirroredRows`). `OnlyAnnounced` follows a fact through stream, queue and worker to the worksheet;
as statuses only advance, the row written is never ahead of the database. Both hold with faults of either side.

**SheetsSync.** `OwnRowIfExact` and `NotNewAgain` are not inductive: what a write hits depends on where the item at work was planned to go. `AtWork` says
what the plan knew (`created` has no row unless written, other items have their ticket's number), and `RowFromCreated` why the plan for
`created` finds none: the number is stored in the transaction that marks `created`, so an unmarked `created` appends. That is enough for `NotNewAgain`:
only `created` shows "new", and it goes to a new row.
`OwnRowIfExact` rests on `CountHolds`: without spare rows and unanswered appends no row of the grid is blank and `counted` is the grid, so the row below
the last one filled is the one counted next. The theorem says that spare rows and lost responses are the only ways to lose a row; that they are ways is shown by `RowNumbers`.
`RowsPerTicket` counts (`Accounted`): the rows of a ticket are the one stored, the one written and not committed (`Placed`), and at most one per fault,
as a row is written without being stored only if its transaction is lost, and each loss uses up a fault. If the numbers may be wrong, the row at the stored number is
one more and the count is of the others (`AppendedFor`): only `created` appends, and the other events all go to that number. No row becomes a ticket's in any other way, wrong numbers or not.
`ColumnsKept` rests on `MemoryHolds` and `WorkRemembered`: what a row shows, or is about to show, has been remembered, and until a restart nothing forgets.

**Onboarding.** An acknowledgement under way names a message of its own group that is a menu, for the `/setup` it carries; a row waits for
a `/setup` that was written in its group; so the row found by correlation is the one of the group the message stands in,
whatever the ids of messages in other groups are. That a `/setup` written late finds the menu follows from the
menu never being lost, and that from the message task alone making rows: its reading of a row that does not exist stays true until it commits.

**TeamGroup.** `StreamsGrounded` says that entries tell the truth: a message was written by its user under that name in that group, an
acknowledgement is of a topic that was made for its role, a command to create asks for a topic not yet made, a block or digest
names the right topics. `SetupGrounded` ties the rows to the topics and to the marks of processed acknowledgements. `Once` says
that no topic and no block is on its way twice, wherever it is; a second block would need a second fourth acknowledgement, which
is marked. `IdsEarned` follows from the truth of messages.

**MenuPrompt.** `NoTicketUnasked` counts tickets against prompts opened. Between the reading of a text and its ticket the
prompt may have lapsed or been left, or even opened anew by the other task; hence `Prompted` counts a reading that saw the prompt as the prompt itself, and
`PromptsCounted` strengthens the property by it. That a reading makes one ticket only follows from `ReadingsFresh` (one at a time per task, unmarked when
it says so), and `OneTicketPerText` from `TicketsMarked`, as a message tells which text it is (`MessagesOfTexts`).

Model-checked only: all liveness, as fairness and ENABLED are beyond the prover (`ReachesTeam`, `ClosingReachesTopic`, `EveryTicketMirrored`,
`PromptEnds`, `TextsCleared`, `AllProcessed`, `SetupHeals`, `CommandsAnswered`, `SetupEnds`, `TicksReported`), and the runs that show a violation.

## 5. Not modelled

* The removal of Telegram's service messages (`tg_message.py`), which changes no state of core; toasts, wording and
  layout; list contents and page numbers of the menu.
* The missing-rights branch of onboarding and a kick (see `Onboarding`).
* The figures of the digest, a query that changes nothing; APScheduler's job store, which is external.
* notifications (a skeleton), configuration, logging, database sessions: no behaviour of their own. Migrations are
  schemas; the columns used are in the rows of the modules.
* Redis beyond what `broker.py` uses of it, and gspread beyond `sheets_client.py`: external.
