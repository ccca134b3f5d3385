------------------------------ MODULE EventLog ------------------------------
(***************************************************************************)
(* The audit trail of the listener service: events_log, which the listener *)
(* fills at the end of the pipeline, after the ticket requests of the mail *)
(* were committed to dispatch_queue; the drain, which writes the ticket id *)
(* or the dead-letter marker back to the event; and the flush, which       *)
(* copies unsent events to the admin web and marks them sent.  The         *)
(* scheduler runs drain and flush one at a time; the command-line sync     *)
(* (cmd_sync) runs a flush of its own, in another process.                 *)
(***************************************************************************)
EXTENDS DispatchQueue

CONSTANTS
    MaxEvents,    \* mails received (bound)
    Flushers,     \* who flushes: "scheduler", "cmd_sync"
    FlushLimit,   \* batch_size of flush_events_to_manager
    AdminErrors   \* TRUE if the admin may fail on one event of a batch

ASSUME EventLogAssumption ==
    /\ MaxEvents \in Nat
    /\ Flushers \subseteq {"scheduler", "cmd_sync"}
    /\ "scheduler" \in Flushers
    /\ FlushLimit \in Nat \ {0}
    /\ AdminErrors \in BOOLEAN

Events == 1..MaxEvents

VARIABLES
    log,       \* events_log; ticket_id as the row whose ticket it is, 0 if NULL
    owner,     \* event_uuid of a dispatch row; 0 for the timer's synthetic uuid
    mail,      \* the mail in the pipeline and the ticket id it inherits
    flusher,   \* per flusher, the rows it read
    admin      \* the admin's table events

logVars == <<queueVars, log, owner, mail, flusher, admin>>

\* thread: history, the event and those it continues
NoEvent == [state |-> "none", parent |-> 0, thread |-> {}, ticket |-> 0,
            dead |-> FALSE, unsent |-> FALSE]
NoMail == [event |-> 0, inherited |-> 0]
NoCopy == [ticket |-> 0, dead |-> FALSE]
FlusherIdle == [pc |-> "idle", batch |-> {}, copy |-> [e \in Events |-> NoCopy]]

LogInit ==
    /\ QueueInit
    /\ log = [e \in Events |-> NoEvent]
    /\ owner = [q \in RowIds |-> 0]
    /\ mail = NoMail
    /\ flusher = [f \in Flushers |-> FlusherIdle]
    /\ admin = [e \in Events |-> [seen |-> FALSE, ticket |-> 0, dead |-> FALSE]]

Logged(e) == e \in Events /\ log[e].state = "logged"
SchedulerFree == drainer.pc = "idle" /\ flusher["scheduler"].pc = "idle"

-----------------------------------------------------------------------------
(* The pipeline: find_thread_root reads the parent and its ticket id.      *)
Receive(e, p) ==
    /\ mail = NoMail
    /\ log[e].state = "none"
    /\ \A d \in Events : d < e => log[d].state # "none"
    /\ p = 0 \/ Logged(p)
    /\ mail' = [event |-> e, inherited |-> IF p = 0 THEN 0 ELSE log[p].ticket]
    /\ log' = [log EXCEPT ![e] =
          [state |-> "received", parent |-> p,
           thread |-> IF p = 0 THEN {e} ELSE log[p].thread \cup {e},
           ticket |-> 0, dead |-> FALSE, unsent |-> FALSE]]
    /\ UNCHANGED <<queueVars, owner, flusher, admin>>

(* An action or an aggregation enqueues a ticket request. *)
RequestTicket ==
    /\ mail # NoMail
    /\ EnqueueRow
    /\ owner' = [owner EXCEPT ![lastQid + 1] = mail.event]
    /\ UNCHANGED <<log, mail, flusher, admin>>

MutInsertedSent(e) ==
    [log[e] EXCEPT !.state = "logged", !.ticket = mail.inherited, !.unsent = FALSE]
(* The row insert_event writes. *)
InsertedEvent(e) ==
    [log[e] EXCEPT !.state = "logged", !.ticket = mail.inherited, !.unsent = TRUE]

LogEvent ==
    /\ mail # NoMail
    /\ log' = [log EXCEPT ![mail.event] = InsertedEvent(mail.event)]
    /\ mail' = NoMail
    /\ UNCHANGED <<queueVars, owner, flusher, admin>>

(* The listener dies or the pipeline raises: the event is never logged. *)
DropMail ==
    /\ mail # NoMail
    /\ aborts < MaxAborts
    /\ aborts' = aborts + 1
    /\ log' = [log EXCEPT ![mail.event].state = "dropped"]
    /\ mail' = NoMail
    /\ UNCHANGED <<lastQid, dispatch, drainer, tickets, lost, owner, flusher, admin>>

(* The scheduler's timer pass, whose requests belong to no event. *)
RequestTimed ==
    /\ SchedulerFree
    /\ EnqueueRow
    /\ UNCHANGED <<log, owner, mail, flusher, admin>>

-----------------------------------------------------------------------------
WithTicket(e, q) == [log EXCEPT ![e].ticket = q]
(* The marker, and the rewind of sent_to_manager_at. *)
WithDead(e) == [log EXCEPT ![e].dead = TRUE, ![e].unsent = TRUE]

(* The drain; both updates find no row while the event is not logged. *)
LogDrainStep(q) ==
    /\ flusher["scheduler"].pc = "idle"
    /\ \/ DrainRead /\ UNCHANGED log
       \/ Submit(q) /\ UNCHANGED log
       \/ /\ Record(q)
          /\ log' = IF ~Logged(owner[q]) THEN log
                    ELSE IF drainer.answer = "ok" THEN WithTicket(owner[q], q)
                    ELSE IF dispatch'[q].state = "dead" THEN WithDead(owner[q])
                    ELSE log
    /\ UNCHANGED <<owner, mail, flusher, admin>>

LogDrainAborts == DrainAborts /\ UNCHANGED <<log, owner, mail, flusher, admin>>

LogTick == QueueTick /\ UNCHANGED <<log, owner, mail, flusher, admin>>

-----------------------------------------------------------------------------
(* fetch_unsent_events: the oldest rows that are not marked sent. *)
Unsent == {e \in Events : Logged(e) /\ log[e].unsent}
Oldest(S) == {e \in S : Cardinality({d \in S : d < e}) < FlushLimit}

FlushRead(f) ==
    /\ flusher[f].pc = "idle"
    /\ f = "scheduler" => drainer.pc = "idle"
    /\ Oldest(Unsent) # {}
    /\ flusher' = [flusher EXCEPT ![f] =
          [pc |-> "read", batch |-> Oldest(Unsent),
           copy |-> [e \in Events |-> [ticket |-> log[e].ticket, dead |-> log[e].dead]]]]
    /\ UNCHANGED <<queueVars, log, owner, mail, admin>>

MutMerged(row, copy) == [seen |-> TRUE, ticket |-> copy.ticket, dead |-> copy.dead]
(* The admin's INSERT ... ON CONFLICT DO UPDATE: a ticket id it has is kept*)
(* when none comes, the metadata with the marker are overwritten.          *)
Merged(row, copy) ==
    [seen |-> TRUE, ticket |-> IF copy.ticket # 0 THEN copy.ticket ELSE row.ticket,
     dead |-> copy.dead]

Store(f, S) ==
    admin' = [e \in Events |->
                 IF e \in S THEN Merged(admin[e], flusher[f].copy[e]) ELSE admin[e]]

MutFlushed(f) == [flusher EXCEPT ![f].pc = "answered"]
NotFlushed(f) == [flusher EXCEPT ![f] = FlusherIdle]

(* POST /events answered 200: every event was stored, or tried.            *)
FlushAnswered(f) ==
    /\ flusher[f].pc = "read"
    /\ \E S \in SUBSET flusher[f].batch :
          /\ S # flusher[f].batch => AdminErrors
          /\ Store(f, S)
    /\ flusher' = [flusher EXCEPT ![f].pc = "answered"]
    /\ UNCHANGED <<queueVars, log, owner, mail>>

(* The POST fails, or its answer is lost when part of it was stored. *)
FlushRefused(f) ==
    /\ flusher[f].pc = "read"
    /\ \E S \in SUBSET flusher[f].batch : Store(f, S)
    /\ flusher' = NotFlushed(f)
    /\ UNCHANGED <<queueVars, log, owner, mail>>

(* mark_events_sent, unconditional. *)
FlushMark(f) ==
    /\ flusher[f].pc = "answered"
    /\ log' = [e \in Events |-> IF e \in flusher[f].batch
                                THEN [log[e] EXCEPT !.unsent = FALSE] ELSE log[e]]
    /\ flusher' = [flusher EXCEPT ![f] = FlusherIdle]
    /\ UNCHANGED <<queueVars, owner, mail, admin>>

FlushDies(f) ==
    /\ flusher[f].pc # "idle"
    /\ aborts < MaxAborts
    /\ aborts' = aborts + 1
    /\ flusher' = [flusher EXCEPT ![f] = FlusherIdle]
    /\ UNCHANGED <<lastQid, dispatch, drainer, tickets, lost, log, owner, mail, admin>>

Receiving == \E e \in Events, p \in {0} \cup Events : Receive(e, p)
LogSubmitting == \E q \in RowIds : LogDrainStep(q)
Flush(f) == FlushRead(f) \/ FlushAnswered(f) \/ FlushRefused(f) \/ FlushMark(f)

LogNext ==
    \/ Receiving \/ RequestTicket \/ LogEvent \/ DropMail
    \/ RequestTimed \/ LogSubmitting \/ LogDrainAborts \/ LogTick
    \/ \E f \in Flushers : Flush(f) \/ FlushDies(f)

(* The scheduler's loops take turns, and the admin answers again and again.*)
LogFairness ==
    /\ WF_logVars(LogEvent) /\ WF_logVars(LogTick)
    /\ SF_logVars(LogSubmitting)
    /\ SF_logVars(FlushRead("scheduler"))
    /\ SF_logVars(FlushAnswered("scheduler"))
    /\ WF_logVars(Flush("scheduler"))

LogSpec == LogInit /\ [][LogNext]_logVars
LogFairSpec == LogSpec /\ LogFairness
-----------------------------------------------------------------------------
(* Every variable has its type. *)
EventRow == [state : {"none", "received", "logged", "dropped"}, parent : Events \cup {0},
             thread : SUBSET Events, ticket : RowIds \cup {0},
             dead : BOOLEAN, unsent : BOOLEAN]
Copy == [ticket : RowIds \cup {0}, dead : BOOLEAN]

LogTypeOK ==
    /\ QueueTypeOK
    /\ log \in [Events -> EventRow]
    /\ owner \in [RowIds -> Events \cup {0}]
    /\ mail \in [event : Events \cup {0}, inherited : RowIds \cup {0}]
    /\ flusher \in [Flushers -> [pc : {"idle", "read", "answered"},
                                 batch : SUBSET Events, copy : [Events -> Copy]]]
    /\ admin \in [Events -> [seen : BOOLEAN, ticket : RowIds \cup {0}, dead : BOOLEAN]]

(* At least once: an event marked sent is in the admin's table, whatever   *)
(* answers were lost and whoever died, and whoever else flushed.           *)
MarkedIsStored ==
    \A e \in Events : Logged(e) /\ ~log[e].unsent => admin[e].seen

(* The ticket id an event shows, here or at the admin, is one the manager  *)
(* gave for this event or for an event whose thread it continues.          *)
TicketOf(e, q) ==
    q # 0 => /\ dispatch[q].state = "sent" /\ tickets[q] > 0
             /\ owner[q] \in log[e].thread
TicketTraced ==
    \A e \in Events : TicketOf(e, log[e].ticket) /\ TicketOf(e, admin[e].ticket)

(* What a flush, and the mail in the pipeline, carry is sound as well. *)
CarriedSound ==
    /\ \A f \in Flushers :
          /\ \A e \in Events : TicketOf(e, flusher[f].copy[e].ticket)
          /\ \A e \in flusher[f].batch : log[e].state = "logged"
          /\ flusher[f].pc = "answered" /\ ~AdminErrors =>
                \A e \in flusher[f].batch : admin[e].seen
    /\ mail.event = 0 => mail.inherited = 0
    /\ mail.event # 0 => /\ log[mail.event].state = "received"
                         /\ TicketOf(mail.event, mail.inherited)
    /\ \A e \in Events : IF log[e].state = "none" THEN log[e] = NoEvent
                         ELSE e \in log[e].thread

(* The inductive invariant of the proofs. *)
LInv ==
    /\ QueueInv
    /\ LogTypeOK
    /\ AdminErrors \/ MarkedIsStored
    /\ TicketTraced
    /\ CarriedSound

(* The dashboard's dead-letter warning: an event marked dead is either     *)
(* still to be flushed or shown as dead by the admin.                      *)
DeadIsReported ==
    \A e \in Events : log[e].dead /\ ~log[e].unsent => admin[e].dead

(* The admin never loses a ticket id it has shown. *)
AdminKeepsTicket ==
    [][\A e \in Events : admin[e].ticket # 0 => admin'[e].ticket # 0]_logVars

(* Nor the dead-letter marker. *)
AdminKeepsDead ==
    [][\A e \in Events : admin[e].dead => admin'[e].dead]_logVars

(* A dead request leaves its marker on the event of the mail. *)
DeadIsMarked ==
    \A q \in RowIds : dispatch[q].state = "dead" /\ Logged(owner[q]) => log[owner[q]].dead

(* A mail whose ticket was opened shows a ticket id in its event. *)
SentIsShown ==
    \A q \in RowIds : dispatch[q].state = "sent" /\ Logged(owner[q])
                          => log[owner[q]].ticket # 0

(* The admin's copy of an event shows the ticket, once nothing is left to  *)
(* flush.                                                                  *)
TicketIsReported ==
    \A e \in Events : log[e].ticket # 0 /\ ~log[e].unsent => admin[e].ticket # 0

(* A reply has the ticket id of the mail it replies to. *)
ReplyInherits ==
    \A e \in Events : Logged(e) /\ log[e].parent # 0 =>
        (log[log[e].parent].ticket # 0 => log[e].ticket # 0)

(* Every logged event reaches the admin. *)
EventsReachAdmin == \A e \in Events : Logged(e) ~> admin[e].seen

(* So does the marker of a dead request. *)
DeadReachesAdmin == \A e \in Events : log[e].dead ~> admin[e].dead
=============================================================================
