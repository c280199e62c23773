---------------------------- MODULE TicketStatus ----------------------------
(***************************************************************************)
(* What the system promises about a ticket, independently of the bus, of   *)
(* Telegram and of crashes: a ticket is opened once, taken at most once by *)
(* one active executor, and closed at most once, by the customer who       *)
(* opened it, with the assignee kept.  The states are the TicketStatus     *)
(* enum of core; TicketLifecycle implements this specification.            *)
(***************************************************************************)
CONSTANTS
  Tickets,  \* rows the tickets table may hold
  Users,    \* members of a customer group
  Active,   \* executors with is_active and a resolved telegram_user_id
  Nobody    \* NULL of a person column

VARIABLE ticket

Row(status, author, assignee, closer) ==
  [status |-> status, author |-> author, assignee |-> assignee, closer |-> closer]

Init == ticket = [t \in Tickets |-> Row("none", Nobody, Nobody, Nobody)]

Open(t, u) ==
  /\ ticket[t].status = "none"
  /\ ticket' = [ticket EXCEPT ![t] = Row("new", u, Nobody, Nobody)]

Take(t, e) ==
  /\ ticket[t].status = "new"
  /\ ticket' = [ticket EXCEPT ![t] = Row("in_progress", @.author, e, @.closer)]

\* A ticket may be closed before anybody takes it.
Close(t) ==
  /\ ticket[t].status \in {"new", "in_progress"}
  /\ ticket' = [ticket EXCEPT ![t] = Row("closed", @.author, @.assignee, @.author)]

Next == \E t \in Tickets :
          \/ \E u \in Users : Open(t, u)
          \/ \E e \in Active : Take(t, e)
          \/ Close(t)

Spec == Init /\ [][Next]_ticket
=============================================================================
