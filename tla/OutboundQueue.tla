--------------------------- MODULE OutboundQueue ---------------------------
(***************************************************************************)
(* The outbound mail queue of the SMTP listener service: the table         *)
(* outbound_queue that the listener process fills and the scheduler        *)
(* process drains (_drain_outbound_once), with the SMTP client             *)
(* (SmtpForwarder.relay) it calls for every row and the tables forward_log *)
(* and quarantine it writes in the same transaction as the row's new state.*)
(*                                                                         *)
(* One drain reads a batch of due rows, then takes them one at a time: it  *)
(* talks to the smarthost, and only afterwards opens the transaction that  *)
(* records the outcome.  The two are separate steps here, and the process  *)
(* may die, or the transaction fail, between them.                         *)
(***************************************************************************)
EXTENDS Naturals, Sequences, FiniteSets

CONSTANTS
    Addresses,     \* recipient addresses
    Sendable,      \* those smtplib can put in a command (it encodes as ASCII)
    MaxRows,       \* rows ever enqueued (bound of the model)
    MaxAttempts,   \* cfg.outbound.max_attempts
    Backoff,       \* cfg.outbound.backoff_seconds, a sequence, in clock units
    DefaultBackoff,\* what _backoff_for returns for an empty schedule
    Batch,         \* rows read by one drain
    MaxAborts      \* deaths of the scheduler or failed commits (bound)

ASSUME OutboundAssumption ==
    /\ Sendable \subseteq Addresses
    /\ MaxRows \in Nat
    /\ MaxAttempts \in Nat \ {0}
    /\ Backoff \in Seq(Nat)
    /\ DefaultBackoff \in Nat
    /\ Batch \in Nat \ {0}
    /\ MaxAborts \in Nat

RowIds == 1..MaxRows       \* INTEGER PRIMARY KEY AUTOINCREMENT

VARIABLES
    lastId,      \* the highest id given out
    queue,       \* outbound_queue: state, recipients, attempts and the time
                 \* left until next_attempt_at
    forwardLog,  \* rows of forward_log per queue row
    quarantine,  \* rows of quarantine with reason forward_dead_letter
    worker,      \* the drain loop: its batch and the row it is busy with
    mailbox,     \* copies the smarthosts accepted, per row and address
    faults,      \* history: transmissions of the row that reached someone and
                 \* were not recorded as a success
    aborts       \* history: batches cut short, at most MaxAborts

vars == <<lastId, queue, forwardLog, quarantine, worker, mailbox, faults, aborts>>

Live == {"pending", "error"}
Final == {"sent", "dead"}

NoRow == [state |-> "none", rcpt |-> {}, attempts |-> 0, wait |-> 0]
NewRow(R) == [state |-> "pending", rcpt |-> R, attempts |-> 0, wait |-> 0]
Idle == [pc |-> "idle", todo |-> {}, read |-> [i \in RowIds |-> 0],
         row |-> 0, ok |-> FALSE]

Init ==
    /\ lastId = 0
    /\ queue = [i \in RowIds |-> NoRow]
    /\ forwardLog = [i \in RowIds |-> 0]
    /\ quarantine = [i \in RowIds |-> 0]
    /\ worker = Idle
    /\ mailbox = [i \in RowIds |-> [a \in Addresses |-> 0]]
    /\ faults = [i \in RowIds |-> 0]
    /\ aborts = 0

(* _backoff_for: the schedule's last entry serves every later attempt. *)
BackoffFor(n) ==
    IF Backoff = <<>> THEN DefaultBackoff
    ELSE IF n < Len(Backoff) THEN Backoff[n + 1] ELSE Backoff[Len(Backoff)]

MutDueNoRetry == {i \in RowIds : queue[i].state = "pending"}
MutDueAnyState == {i \in RowIds : queue[i].state # "none" /\ queue[i].wait = 0}

(* Rows the SELECT of a drain returns: the first Batch due rows by id. *)
Due == {i \in RowIds : queue[i].state \in Live /\ queue[i].wait = 0}
FirstOf(S) == {i \in S : Cardinality({j \in S : j < i}) < Batch}

MutAllAcceptedSome(A, R) == A # {}
MutExhaustedLate(n) == n > MaxAttempts

(* relay() reports success only when no recipient was refused. *)
AllAccepted(A, R) == A = R /\ A # {}

(* No further attempt is allowed after n of them. *)
Exhausted(n) == n >= MaxAttempts

(* The rows of the batch still to be taken after row i. *)
Rest(i) == worker.todo \ {i}

-----------------------------------------------------------------------------
(* The listener process, in a transaction of its own. *)
Enqueue ==
    /\ lastId < MaxRows
    /\ lastId' = lastId + 1
    /\ \E R \in SUBSET Addresses :
          queue' = [queue EXCEPT ![lastId + 1] = NewRow(R)]
    /\ UNCHANGED <<forwardLog, quarantine, worker, mailbox, faults, aborts>>

(* Time passes for every row that waits. *)
Tick ==
    /\ \E i \in RowIds : queue[i].wait > 0
    /\ queue' = [i \in RowIds |->
                    IF queue[i].wait > 0
                    THEN [queue[i] EXCEPT !.wait = @ - 1] ELSE queue[i]]
    /\ UNCHANGED <<lastId, forwardLog, quarantine, worker, mailbox, faults, aborts>>

(* The scheduler reads a batch; the rows it holds keep the attempts read. *)
ReadBatch ==
    /\ worker.pc = "idle"
    /\ Due # {}
    /\ worker' = [pc |-> "batch", todo |-> FirstOf(Due),
                  read |-> [i \in RowIds |-> queue[i].attempts],
                  row |-> 0, ok |-> FALSE]
    /\ UNCHANGED <<lastId, queue, forwardLog, quarantine, mailbox, faults, aborts>>

IsNext(i) ==
    /\ worker.pc = "batch"
    /\ i \in worker.todo
    /\ \A j \in worker.todo : i <= j

(* relay() returns.  The smarthost took the mail for the addresses in A.   *)
(* The result is ok only when nobody was refused; it is not ok when some   *)
(* were, when no connection was made (A is empty), when there was nobody   *)
(* to send to, and when the answer to DATA was lost (A may be anything).   *)
(* An address that cannot be encoded keeps DATA from being sent at all.    *)
Relay(i) ==
    /\ IsNext(i)
    /\ \E A \in SUBSET queue[i].rcpt, ok \in BOOLEAN :
          /\ ok => AllAccepted(A, queue[i].rcpt)
          /\ A # {} => queue[i].rcpt \subseteq Sendable
          /\ worker' = [worker EXCEPT !.pc = "relayed", !.row = i, !.ok = ok]
          /\ mailbox' = [mailbox EXCEPT ![i] =
                [a \in Addresses |-> IF a \in A THEN @[a] + 1 ELSE @[a]]]
          /\ faults' = IF A # {} /\ ~ok
                       THEN [faults EXCEPT ![i] = @ + 1] ELSE faults
    /\ UNCHANGED <<lastId, queue, forwardLog, quarantine, aborts>>

(* relay() raises: UnicodeEncodeError is none of the exceptions it catches.*)
(* It leaves _drain_outbound_once through the loop's own handler, so the   *)
(* rest of the batch is dropped and no row is written.                     *)
RelayRaises(i) ==
    /\ IsNext(i)
    /\ ~(queue[i].rcpt \subseteq Sendable)
    /\ worker' = Idle
    /\ UNCHANGED <<lastId, queue, forwardLog, quarantine, mailbox, faults, aborts>>

(* The transaction that records the outcome of one row. *)
Commit ==
    /\ worker.pc = "relayed"
    /\ LET i == worker.row
           attempts == worker.read[i] + 1
           exhausted == Exhausted(attempts)
       IN /\ forwardLog' = [forwardLog EXCEPT ![i] = @ + 1]
          /\ queue' = [queue EXCEPT ![i].attempts = attempts,
                          ![i].state = IF worker.ok THEN "sent"
                                       ELSE IF exhausted THEN "dead" ELSE "error",
                          ![i].wait = IF worker.ok \/ exhausted THEN 0
                                      ELSE BackoffFor(attempts - 1)]
          /\ quarantine' = IF ~worker.ok /\ exhausted
                           THEN [quarantine EXCEPT ![i] = @ + 1] ELSE quarantine
          /\ worker' = IF Rest(i) = {} THEN Idle
                       ELSE [worker EXCEPT !.pc = "batch", !.todo = Rest(i),
                                           !.row = 0, !.ok = FALSE]
    /\ UNCHANGED <<lastId, mailbox, faults, aborts>>

(* The scheduler dies, or the transaction cannot be opened (the busy       *)
(* timeout runs out) and the exception ends the batch.  A transmission     *)
(* that succeeded is then not recorded.                                    *)
Abort ==
    /\ worker.pc # "idle"
    /\ aborts < MaxAborts
    /\ aborts' = aborts + 1
    /\ worker' = Idle
    /\ faults' = IF worker.pc = "relayed" /\ worker.ok
                 THEN [faults EXCEPT ![worker.row] = @ + 1] ELSE faults
    /\ UNCHANGED <<lastId, queue, forwardLog, quarantine, mailbox>>

Drain == ReadBatch \/ (\E i \in RowIds : Relay(i) \/ RelayRaises(i)) \/ Commit
Next == Enqueue \/ Tick \/ Drain \/ Abort

(* The outbound_drain loop runs every interval for ever, and time passes.  *)
Fairness == WF_vars(Drain) /\ WF_vars(Tick)

Spec == Init /\ [][Next]_vars
FairSpec == Spec /\ Fairness
-----------------------------------------------------------------------------
(* Every variable has its type; the worker's rows exist and are live. *)
Row == [state : {"none"} \cup Live \cup Final, rcpt : SUBSET Addresses,
        attempts : 0..MaxAttempts, wait : Nat]

TypeOK ==
    /\ lastId \in 0..MaxRows
    /\ queue \in [RowIds -> Row]
    /\ forwardLog \in [RowIds -> Nat]
    /\ quarantine \in [RowIds -> Nat]
    /\ worker \in [pc : {"idle", "batch", "relayed"}, todo : SUBSET RowIds,
                   read : [RowIds -> 0..MaxAttempts], row : RowIds \cup {0},
                   ok : BOOLEAN]
    /\ mailbox \in [RowIds -> [Addresses -> Nat]]
    /\ faults \in [RowIds -> Nat]
    /\ aborts \in 0..MaxAborts

(* The audit tables agree with the queue although the worker computes the  *)
(* new attempts from a row it read before it talked to the smarthost: one  *)
(* forward_log row per counted attempt, one quarantined copy of a mail     *)
(* exactly when its row is dead, dead only after the last attempt allowed; *)
(* only a row that failed and may be retried waits for its next attempt.   *)
LogMatchesQueue ==
    \A i \in RowIds :
        /\ forwardLog[i] = queue[i].attempts
        /\ quarantine[i] = IF queue[i].state = "dead" THEN 1 ELSE 0
        /\ queue[i].state = "dead" => queue[i].attempts = MaxAttempts
        /\ queue[i].state \in Live => queue[i].attempts < MaxAttempts
        /\ queue[i].wait > 0 => queue[i].state = "error"

(* While the scheduler works through a batch it holds copies of rows it    *)
(* read earlier; they are still what the table says, so an outcome is      *)
(* never recorded over a newer one.  Rows exist exactly up to lastId.      *)
BatchIsFresh ==
    /\ \A i \in RowIds :
          IF i <= lastId THEN queue[i].state # "none" ELSE queue[i] = NoRow
    /\ \A i \in worker.todo :
          queue[i].state \in Live /\ worker.read[i] = queue[i].attempts
    /\ worker.pc = "relayed" => worker.row \in worker.todo

(* The worker is about to record row i as sent. *)
SentUnrecorded(i) == worker.pc = "relayed" /\ worker.row = i /\ worker.ok

(* A row marked sent, or about to be, has reached every one of its         *)
(* recipients: a partial refusal or a lost answer never passes for a       *)
(* success.                                                                *)
SentReachedAll ==
    \A i \in RowIds : queue[i].state = "sent" \/ SentUnrecorded(i) =>
        queue[i].rcpt # {} /\ \A a \in queue[i].rcpt : mailbox[i][a] > 0

(* Delivery is at least once, and each copy beyond the one of a recorded   *)
(* success has a cause of its own: a transmission that reached somebody    *)
(* and was not recorded as a success (partial refusal, lost answer, death  *)
(* before the commit).  Addresses that are no recipients get nothing.      *)
CopiesBounded ==
    \A i \in RowIds, a \in Addresses :
        /\ mailbox[i][a] <= faults[i] +
              (IF queue[i].state = "sent" \/ SentUnrecorded(i) THEN 1 ELSE 0)
        /\ a \notin queue[i].rcpt => mailbox[i][a] = 0

(* The inductive invariant of the proofs. *)
IInv == TypeOK /\ LogMatchesQueue /\ BatchIsFresh /\ SentReachedAll /\ CopiesBounded

(* Nothing happens to a row that is sent or dead: it is not transmitted,   *)
(* logged, quarantined or changed again, whatever batch it was read in.    *)
NothingAfterFinal ==
    [][\A i \in RowIds : queue[i].state \in Final =>
          /\ queue'[i] = queue[i]
          /\ mailbox'[i] = mailbox[i]
          /\ forwardLog'[i] = forwardLog[i]
          /\ quarantine'[i] = quarantine[i]]_vars

(* A live row with an address relay() cannot encode. *)
Poisoned == \E i \in RowIds : queue[i].state \in Live /\ ~(queue[i].rcpt \subseteq Sendable)

(* Every mail that was queued ends up sent, or dead with a copy in         *)
(* quarantine, although the scheduler may die; unless relay() raises for a *)
(* mail of the queue.                                                      *)
Settles ==
    \A i \in RowIds : queue[i].state \in Live ~> queue[i].state \in Final \/ Poisoned

(* The same for a mail whose own addresses can all be encoded, whatever    *)
(* the other mails in the queue are.                                       *)
SendableSettles ==
    \A i \in RowIds :
        queue[i].state \in Live /\ queue[i].rcpt \in SUBSET Sendable \ {{}}
            ~> queue[i].state \in Final

(* The queue implements MailDelivery: a row is queued until it is final,   *)
(* and what the smarthosts accepted are the copies handed over.            *)
DeliveryStatus(s) ==
    IF s \in Live THEN "queued"
    ELSE IF s = "sent" THEN "delivered"
    ELSE IF s = "dead" THEN "quarantined" ELSE "none"

Delivery == INSTANCE MailDelivery WITH
    Mails <- RowIds,
    status <- [i \in RowIds |-> DeliveryStatus(queue[i].state)],
    rcpt <- [i \in RowIds |-> queue[i].rcpt],
    copies <- mailbox

ImplementsDelivery == Delivery!Safety
=============================================================================
