--------------------------- MODULE DispatchQueue ---------------------------
(***************************************************************************)
(* The ticket queue of the SMTP listener service: the table dispatch_queue *)
(* and the drain of the scheduler process (_drain_dispatch_once), which    *)
(* submits every due row to the ticket manager and then records the answer *)
(* in a transaction.  The manager is external; what it keeps is the number *)
(* of tickets it created for a row.                                        *)
(*                                                                         *)
(* Aggregation and EventLog extend this module: they say who adds rows and *)
(* what the same transaction does to error_occurrences_local and to        *)
(* events_log.                                                             *)
(***************************************************************************)
EXTENDS Naturals, Sequences, FiniteSets

CONSTANTS
    MaxRows,        \* rows ever enqueued (bound of the model)
    MaxAttempts,    \* cfg.outbound.max_attempts, which this queue shares
    Backoff,        \* cfg.outbound.backoff_seconds, in clock units
    DefaultBackoff, \* what _backoff_for returns for an empty schedule
    Batch,          \* rows read by one drain
    MaxAborts       \* deaths of a process or failed transactions (bound)

ASSUME DispatchAssumption ==
    /\ MaxRows \in Nat
    /\ MaxAttempts \in Nat \ {0}
    /\ Backoff \in Seq(Nat)
    /\ DefaultBackoff \in Nat
    /\ Batch \in Nat \ {0}
    /\ MaxAborts \in Nat

RowIds == 1..MaxRows

VARIABLES
    lastQid,   \* the highest id given out
    dispatch,  \* dispatch_queue: state, attempts, time left to next_attempt_at
    drainer,   \* the drain: its batch, the row submitted last and the answer
    tickets,   \* tickets the manager created, per row
    lost,      \* history: tickets created whose id was never recorded
    aborts     \* history: steps cut short, at most MaxAborts

queueVars == <<lastQid, dispatch, drainer, tickets, lost, aborts>>

Live == {"pending", "error"}
Final == {"sent", "dead"}
Answers == {"ok", "auth", "failed"}

NoDispatch == [state |-> "none", attempts |-> 0, wait |-> 0]
NewDispatch == [state |-> "pending", attempts |-> 0, wait |-> 0]
DrainerIdle == [pc |-> "idle", todo |-> {}, row |-> 0, answer |-> "failed"]

QueueInit ==
    /\ lastQid = 0
    /\ dispatch = [q \in RowIds |-> NoDispatch]
    /\ drainer = DrainerIdle
    /\ tickets = [q \in RowIds |-> 0]
    /\ lost = [q \in RowIds |-> 0]
    /\ aborts = 0

BackoffFor(n) ==
    IF Backoff = <<>> THEN DefaultBackoff
    ELSE IF n < Len(Backoff) THEN Backoff[n + 1] ELSE Backoff[Len(Backoff)]

(* What the SELECT of a drain returns, and the part of it within the LIMIT.*)
DueRows == {q \in RowIds : dispatch[q].state \in Live /\ dispatch[q].wait = 0}
FirstRows(S) == {q \in S : Cardinality({r \in S : r < q}) < Batch}

(* 401 and 403 are not retried, whatever the number of attempts. *)
GivenUp(answer, attempts) == answer = "auth" \/ attempts >= MaxAttempts

(* A row after its next attempt was answered. *)
Attempted(row, answer) ==
    LET n == row.attempts + 1 IN
    IF answer = "ok" THEN [state |-> "sent", attempts |-> n, wait |-> 0]
    ELSE IF GivenUp(answer, n)
         THEN [state |-> "dead", attempts |-> n, wait |-> 0]
         ELSE [state |-> "error", attempts |-> n, wait |-> BackoffFor(n - 1)]

MutAnsweredNoId(ticket, answer) == answer = "auth" => ~ ticket

(* An answer is ok exactly when it is 2xx and names the ticket: the manager*)
(* then has it.  With 401 and 403 it has none.  Any other answer, a 2xx    *)
(* without a ticket id and a lost answer leave it open.                    *)
Answered(ticket, answer) ==
    /\ answer = "ok" => ticket
    /\ answer = "auth" => ~ticket

-----------------------------------------------------------------------------
(* _enqueue_dispatch, by whichever process. *)
EnqueueRow ==
    /\ lastQid < MaxRows
    /\ lastQid' = lastQid + 1
    /\ dispatch' = [dispatch EXCEPT ![lastQid + 1] = NewDispatch]
    /\ UNCHANGED <<drainer, tickets, lost, aborts>>

(* Time passes for the rows that wait. *)
RowsAge == dispatch' =
    [q \in RowIds |-> IF dispatch[q].wait > 0
                      THEN [dispatch[q] EXCEPT !.wait = @ - 1] ELSE dispatch[q]]
RowsWait == \E q \in RowIds : dispatch[q].wait > 0

DrainRead ==
    /\ drainer.pc = "idle"
    /\ DueRows # {}
    /\ drainer' = [pc |-> "batch", todo |-> FirstRows(DueRows),
                   row |-> 0, answer |-> "failed"]
    /\ UNCHANGED <<lastQid, dispatch, tickets, lost, aborts>>

(* submit_ticket for the first row left of the batch. *)
Submit(q) ==
    /\ drainer.pc = "batch"
    /\ q \in drainer.todo
    /\ \A r \in drainer.todo : q <= r
    /\ \E answer \in Answers, ticket \in BOOLEAN :
          /\ Answered(ticket, answer)
          /\ drainer' = [drainer EXCEPT !.pc = "answered", !.row = q,
                                        !.answer = answer]
          /\ tickets' = IF ticket THEN [tickets EXCEPT ![q] = @ + 1] ELSE tickets
          /\ lost' = IF ticket /\ answer # "ok" THEN [lost EXCEPT ![q] = @ + 1]
                     ELSE lost
    /\ UNCHANGED <<lastQid, dispatch, aborts>>

(* The transaction that records the answer for row q.  The rows of a batch *)
(* are written by nobody else, so the attempts read are still current.     *)
Record(q) ==
    /\ drainer.pc = "answered"
    /\ q = drainer.row
    /\ dispatch' = [dispatch EXCEPT ![q] = Attempted(@, drainer.answer)]
    /\ drainer' = IF drainer.todo = {q} THEN DrainerIdle
                  ELSE [pc |-> "batch", todo |-> drainer.todo \ {q},
                        row |-> 0, answer |-> "failed"]
    /\ UNCHANGED <<lastQid, tickets, lost, aborts>>

(* The scheduler dies, or the transaction fails and its exception ends the *)
(* batch: a ticket that was created is not recorded.                       *)
DrainAborts ==
    /\ drainer.pc # "idle"
    /\ aborts < MaxAborts
    /\ aborts' = aborts + 1
    /\ drainer' = DrainerIdle
    /\ lost' = IF drainer.pc = "answered" /\ drainer.answer = "ok"
               THEN [lost EXCEPT ![drainer.row] = @ + 1] ELSE lost
    /\ UNCHANGED <<lastQid, dispatch, tickets>>

Drain == DrainRead \/ \E q \in RowIds : Submit(q) \/ Record(q)

(* The queue alone: rows come in at any time. *)
QueueTick ==
    /\ RowsWait
    /\ RowsAge
    /\ UNCHANGED <<lastQid, drainer, tickets, lost, aborts>>

QueueNext == EnqueueRow \/ QueueTick \/ Drain \/ DrainAborts

QueueSpec == QueueInit /\ [][QueueNext]_queueVars
-----------------------------------------------------------------------------
(* Every variable of the queue has its type. *)
Dispatch == [state : {"none"} \cup Live \cup Final, attempts : 0..MaxAttempts, wait : Nat]

QueueTypeOK ==
    /\ lastQid \in 0..MaxRows
    /\ dispatch \in [RowIds -> Dispatch]
    /\ drainer \in [pc : {"idle", "batch", "answered"}, todo : SUBSET RowIds,
                    row : RowIds \cup {0}, answer : Answers]
    /\ tickets \in [RowIds -> Nat]
    /\ lost \in [RowIds -> Nat]
    /\ aborts \in 0..MaxAborts

(* The drain holds rows it read before it talked to the manager: each is   *)
(* still live and still has an attempt left; the row it waits for an       *)
(* answer for is one of them.  Rows exist exactly up to lastQid, and only  *)
(* one that failed and may be retried waits.                               *)
DrainIsFresh ==
    /\ \A q \in RowIds :
          IF q <= lastQid THEN dispatch[q].state # "none" ELSE dispatch[q] = NoDispatch
    /\ \A q \in drainer.todo : dispatch[q].state \in Live
    /\ \A q \in RowIds : dispatch[q].state \in Live => dispatch[q].attempts < MaxAttempts
    /\ \A q \in RowIds : dispatch[q].wait > 0 => dispatch[q].state = "error"
    /\ drainer.pc = "answered" => drainer.row \in drainer.todo

OkUnrecorded(q) ==
    drainer.pc = "answered" /\ drainer.row = q /\ drainer.answer = "ok"

(* The manager's tickets and the queue agree: a row marked sent has a      *)
(* ticket whose id was recorded, and every further ticket of a row is one  *)
(* whose id was lost (an answer that did not name it, or a crash between   *)
(* the answer and the commit).  A 2xx answer without an id never passes    *)
(* for a success.                                                          *)
TicketsAccounted ==
    \A q \in RowIds :
        tickets[q] = lost[q] +
            (IF dispatch[q].state = "sent" \/ OkUnrecorded(q) THEN 1 ELSE 0)

(* The inductive invariant of the proofs. *)
QueueInv == QueueTypeOK /\ DrainIsFresh /\ TicketsAccounted

(* Nothing changes a row that is sent or dead or submits it again,         *)
(* whatever batch it was read in.                                          *)
FinalRowsStay ==
    [][\A q \in RowIds : dispatch[q].state \in Final =>
          dispatch'[q] = dispatch[q] /\ tickets'[q] = tickets[q]]_queueVars

(* A ticket request is a mail to the one recipient "manager": the queue    *)
(* implements MailDelivery, except that nobody keeps a copy of a dead row: *)
(* its request stays in the table for an operator.                         *)
RequestStatus(s) ==
    IF s \in Live THEN "queued"
    ELSE IF s = "sent" THEN "delivered"
    ELSE IF s = "dead" THEN "quarantined" ELSE "none"

Requests == INSTANCE MailDelivery WITH
    Mails <- RowIds,
    Addresses <- {"manager"},
    status <- [q \in RowIds |-> RequestStatus(dispatch[q].state)],
    rcpt <- [q \in RowIds |-> IF dispatch[q].state = "none" THEN {} ELSE {"manager"}],
    copies <- [q \in RowIds |-> [a \in {"manager"} |-> tickets[q]]]

ImplementsRequests == Requests!Safety
=============================================================================
