---------------------------- MODULE Aggregation ----------------------------
(***************************************************************************)
(* One error aggregation of the listener service: problem mails counted    *)
(* per fingerprint in error_occurrences_local until a ticket is requested, *)
(* either when the count reaches a threshold (Delay = 0) or, in timer      *)
(* mode, when no reset came for Delay time units after the first problem.  *)
(*                                                                         *)
(* The listener process runs _process_aggregations as a series of          *)
(* transactions (find, upsert, arm or enqueue, mark); the scheduler        *)
(* process runs _process_pending_tickets_once, which works through a       *)
(* snapshot of due occurrences, and the drain of DispatchQueue, one at a   *)
(* time; a sync, of the scheduler or from the command line, may replace    *)
(* the aggregations between any two of these steps.  The columns of        *)
(* events_log that the drain writes as well are not read here: EventLog    *)
(* models them.                                                            *)
(***************************************************************************)
EXTENDS DispatchQueue

CONSTANTS
    Fingerprints,  \* fingerprints of the aggregation
    NoFp,          \* no fingerprint
    Senders,       \* sender addresses of mails
    NoSender,      \* the address of a mail without one
    Threshold,     \* agg.threshold
    Window,        \* agg.window_hours, in clock units
    Delay,         \* agg.delay_minutes, in clock units; 0 is threshold mode
    MaxMails       \* mails the aggregation matches (bound)

ASSUME AggregationAssumption ==
    /\ NoFp \notin Fingerprints
    /\ NoSender \in Senders
    /\ Threshold \in Nat \ {0}
    /\ Window \in Nat \ {0}
    /\ Delay \in Nat
    /\ MaxMails \in Nat

VARIABLES
    present,   \* the aggregation is in aggregations_cache
    occ,       \* error_occurrences_local
    about,     \* the fingerprint in the metadata of a dispatch row
    listener,  \* _process_aggregations on the mail at hand
    pass,      \* _process_pending_tickets_once: its snapshot and progress
    mails,     \* history: mails matched, at most MaxMails
    asked      \* history: rows enqueued for the current incident

vars == <<queueVars, present, occ, about, listener, pass, mails, asked>>

\* ticket_id, which is set and cleared together with ticket_opened_at
NoTicket == [kind |-> "none", row |-> 0]
Placeholder(q) == [kind |-> "placeholder", row |-> q]
Ticket(q) == [kind |-> "ticket", row |-> q]

\* count saturates at Threshold, the only value it is compared with; left and
\* seen are what remains of the window counted from first_seen and last_seen;
\* armed and wait stand for pending_ticket_until.
NoOcc == [exists |-> FALSE, count |-> 0, from |-> NoSender, ticket |-> NoTicket,
          armed |-> FALSE, wait |-> 0, left |-> 0, seen |-> 0]

ListenerIdle == [pc |-> "idle", fp |-> NoFp, from |-> NoSender,
                 expired |-> FALSE, row |-> 0]
PassIdle == [pc |-> "idle", todo |-> {}, fp |-> NoFp, row |-> 0]

Init ==
    /\ QueueInit
    /\ present = TRUE
    /\ occ = [f \in Fingerprints |-> NoOcc]
    /\ about = [q \in RowIds |-> NoFp]
    /\ listener = ListenerIdle
    /\ pass = PassIdle
    /\ mails = 0
    /\ asked = [f \in Fingerprints |-> 0]

MutOpensAgain(n, expired, already) == ~expired /\ n >= Threshold
MutOpensLate(n, expired, already) == ~already /\ ~expired /\ n > Threshold

(* should_open_ticket *)
ShouldOpen(n, expired, already) == ~already /\ ~expired /\ n >= Threshold

(* What upsert_occurrence makes of a problem mail. *)
Inserted(s) ==
    [exists |-> TRUE, count |-> 1, from |-> s, ticket |-> NoTicket,
     armed |-> FALSE, wait |-> 0, left |-> Window, seen |-> Window]
Restarted(o, s) ==
    [exists |-> TRUE, count |-> 1, from |-> s, ticket |-> NoTicket,
     armed |-> o.armed, wait |-> o.wait, left |-> Window, seen |-> Window]
Counted(o, s) ==
    [exists |-> TRUE, count |-> IF o.count < Threshold THEN o.count + 1 ELSE o.count,
     from |-> s, ticket |-> o.ticket, armed |-> o.armed, wait |-> o.wait,
     left |-> o.left, seen |-> Window]

(* reset_all_occurrences_for; a mail without a sender resets them all. *)
ResetBy(o, s) ==
    /\ s = NoSender \/ o.from = s
    /\ o.count > 0 \/ o.ticket # NoTicket \/ o.armed
MutClearedKeepsTicket(o) ==
    [exists |-> o.exists, count |-> 0, from |-> o.from, ticket |-> o.ticket,
     armed |-> FALSE, wait |-> 0, left |-> o.left, seen |-> Window]
Cleared(o) ==
    [exists |-> o.exists, count |-> 0, from |-> o.from, ticket |-> NoTicket,
     armed |-> FALSE, wait |-> 0, left |-> o.left, seen |-> Window]

(* mark_occurrence_ticket, an UPDATE that may find no row. *)
Marked(o, q) ==
    IF ~o.exists THEN o
    ELSE [exists |-> TRUE, count |-> o.count, from |-> o.from,
          ticket |-> Placeholder(q), armed |-> FALSE, wait |-> 0,
          left |-> o.left, seen |-> o.seen]

(* set_pending_ticket_until keeps a deadline that is already set. *)
Armed(o) ==
    IF ~o.exists \/ o.armed THEN o
    ELSE [exists |-> TRUE, count |-> o.count, from |-> o.from, ticket |-> o.ticket,
          armed |-> TRUE, wait |-> Delay, left |-> o.left, seen |-> o.seen]

MutDueOverThreshold == {f \in Fingerprints :
    present /\ occ[f].armed /\ occ[f].wait = 0
            /\ occ[f].ticket = NoTicket /\ occ[f].count >= Threshold}

(* find_due_pending_occurrences, which joins aggregations_cache. *)
DueOcc == {f \in Fingerprints :
    present /\ occ[f].armed /\ occ[f].wait = 0
            /\ occ[f].ticket = NoTicket /\ occ[f].count > 0}

NewIncident(f) == asked' = [asked EXCEPT ![f] = 0]

-----------------------------------------------------------------------------
(* The listener: a mail that the aggregation matches, and the pre-check of *)
(* its window.                                                             *)
Find(f, s) ==
    /\ listener.pc = "idle"
    /\ present
    /\ mails < MaxMails
    /\ mails' = mails + 1
    /\ listener' = [pc |-> "found", fp |-> f, from |-> s,
                    expired |-> occ[f].exists /\ occ[f].left = 0, row |-> 0]
    /\ UNCHANGED <<queueVars, present, occ, about, pass, asked>>

(* A mail that matches the reset condition. *)
Reset(s) ==
    /\ listener.pc = "idle"
    /\ present
    /\ mails < MaxMails
    /\ mails' = mails + 1
    /\ occ' = [f \in Fingerprints |->
                  IF ResetBy(occ[f], s) THEN Cleared(occ[f]) ELSE occ[f]]
    /\ asked' = [f \in Fingerprints |-> IF ResetBy(occ[f], s) THEN 0 ELSE asked[f]]
    /\ UNCHANGED <<queueVars, present, about, listener, pass>>

Proceed(f, open, first) ==
    listener' = IF Delay > 0 /\ first THEN [listener EXCEPT !.pc = "arming"]
                ELSE IF Delay = 0 /\ open THEN [listener EXCEPT !.pc = "opening"]
                ELSE ListenerIdle

(* The transaction of upsert_occurrence and the decision taken on what it  *)
(* returns; was_window_expired comes from the check made before.           *)
Upsert(f) ==
    /\ listener.pc = "found"
    /\ f = listener.fp
    /\ \/ /\ ~occ[f].exists
          /\ occ' = [occ EXCEPT ![f] = Inserted(listener.from)]
          /\ NewIncident(f)
          /\ Proceed(f, ShouldOpen(1, FALSE, FALSE), TRUE)
       \/ /\ occ[f].exists /\ listener.expired
          /\ occ' = [occ EXCEPT ![f] = Restarted(@, listener.from)]
          /\ NewIncident(f)
          /\ Proceed(f, ShouldOpen(1, TRUE, FALSE), TRUE)
       \/ /\ occ[f].exists /\ ~listener.expired
          /\ occ' = [occ EXCEPT ![f] = Counted(@, listener.from)]
          /\ Proceed(f, ShouldOpen(occ[f].count + 1, FALSE, occ[f].ticket # NoTicket), FALSE)
          /\ UNCHANGED asked
    /\ UNCHANGED <<queueVars, present, about, pass, mails>>

(* Timer mode: set_pending_ticket_until. *)
Arm(f) ==
    /\ listener.pc = "arming"
    /\ f = listener.fp
    /\ occ' = [occ EXCEPT ![f] = Armed(@)]
    /\ listener' = ListenerIdle
    /\ UNCHANGED <<queueVars, present, about, pass, mails, asked>>

EnqueueFor(f) ==
    /\ EnqueueRow
    /\ about' = [about EXCEPT ![lastQid + 1] = f]
    /\ asked' = [asked EXCEPT ![f] = @ + 1]

(* Threshold mode: _enqueue_dispatch, then mark_occurrence_ticket. *)
Open(f) ==
    /\ listener.pc = "opening"
    /\ f = listener.fp
    /\ EnqueueFor(f)
    /\ listener' = [listener EXCEPT !.pc = "marking", !.row = lastQid + 1]
    /\ UNCHANGED <<present, occ, pass, mails>>

Mark(f) ==
    /\ listener.pc = "marking"
    /\ f = listener.fp
    /\ occ' = [occ EXCEPT ![f] = Marked(@, listener.row)]
    /\ listener' = ListenerIdle
    /\ UNCHANGED <<queueVars, present, about, pass, mails, asked>>

(* The listener dies, or a transaction fails: the handler's own use of agg *)
(* raises, so the exception leaves _process_aggregations.                  *)
ListenerAborts ==
    /\ listener.pc # "idle"
    /\ aborts < MaxAborts
    /\ aborts' = aborts + 1
    /\ listener' = ListenerIdle
    /\ UNCHANGED <<lastQid, dispatch, drainer, tickets, lost, present, occ, about,
                   pass, mails, asked>>

-----------------------------------------------------------------------------
(* The scheduler runs one loop body at a time. *)
PassRead ==
    /\ pass.pc = "idle" /\ drainer.pc = "idle"
    /\ DueOcc # {}
    /\ pass' = [pc |-> "pass", todo |-> DueOcc, fp |-> NoFp, row |-> 0]
    /\ UNCHANGED <<queueVars, present, occ, about, listener, mails, asked>>

PassEnqueue(f) ==
    /\ pass.pc = "pass"
    /\ f \in pass.todo
    /\ EnqueueFor(f)
    /\ pass' = [pass EXCEPT !.pc = "marking", !.fp = f, !.row = lastQid + 1]
    /\ UNCHANGED <<present, occ, listener, mails>>

PassRest(f) ==
    IF pass.todo = {f} THEN PassIdle
    ELSE [pc |-> "pass", todo |-> pass.todo \ {f}, fp |-> NoFp, row |-> 0]

PassMark(f) ==
    /\ pass.pc = "marking"
    /\ f = pass.fp
    /\ occ' = [occ EXCEPT ![f] = Marked(@, pass.row)]
    /\ pass' = PassRest(f)
    /\ UNCHANGED <<queueVars, present, about, listener, mails, asked>>

(* The scheduler dies; or one occurrence fails and the pass goes on. *)
PassAborts(f) ==
    /\ f \in pass.todo
    /\ pass.pc = "marking" => f = pass.fp
    /\ aborts < MaxAborts
    /\ aborts' = aborts + 1
    /\ pass' \in {PassIdle, PassRest(f)}
    /\ UNCHANGED <<lastQid, dispatch, drainer, tickets, lost, present, occ, about,
                   listener, mails, asked>>

MutReplaced(o, q) == o
(* The drain's UPDATE: any placeholder of the fingerprint is replaced. *)
Replaced(o, q) ==
    IF o.ticket.kind = "placeholder" THEN [o EXCEPT !.ticket = Ticket(q)] ELSE o

(* The drain with what it writes to the occurrence of the row. *)
DrainStep(q) ==
    /\ pass.pc = "idle"
    /\ \/ DrainRead /\ UNCHANGED occ
       \/ Submit(q) /\ UNCHANGED occ
       \/ /\ Record(q)
          /\ occ' = IF drainer.answer = "ok"
                    THEN [occ EXCEPT ![about[q]] = Replaced(@, q)] ELSE occ
    /\ UNCHANGED <<present, about, listener, pass, mails, asked>>

DrainAbortsHere ==
    /\ DrainAborts
    /\ UNCHANGED <<present, occ, about, listener, pass, mails, asked>>

(* replace_aggregations: the aggregation comes or goes; the occurrences of *)
(* one that is gone are deleted.                                           *)
Sync ==
    /\ present' = ~present
    /\ occ' = IF present' THEN occ ELSE [f \in Fingerprints |-> NoOcc]
    /\ asked' = IF present' THEN asked ELSE [f \in Fingerprints |-> 0]
    /\ UNCHANGED <<queueVars, about, listener, pass, mails>>

Less(n) == IF n > 0 THEN n - 1 ELSE 0
Tick ==
    /\ RowsWait \/ \E f \in Fingerprints :
                      occ[f].wait > 0 \/ occ[f].left > 0 \/ occ[f].seen > 0
    /\ RowsAge
    /\ occ' = [f \in Fingerprints |->
                  [occ[f] EXCEPT !.wait = Less(@), !.left = Less(@), !.seen = Less(@)]]
    /\ UNCHANGED <<lastQid, drainer, tickets, lost, aborts, present, about,
                   listener, pass, mails, asked>>

Mail == \E f \in Fingerprints, s \in Senders : Find(f, s) \/ Reset(s)
Listen == \E f \in Fingerprints : Upsert(f) \/ Arm(f) \/ Open(f) \/ Mark(f)
TimerPass == PassRead \/ \E f \in Fingerprints : PassEnqueue(f) \/ PassMark(f)
Submitting == \E q \in RowIds : DrainStep(q)
Fail == ListenerAborts \/ DrainAbortsHere \/ \E f \in Fingerprints : PassAborts(f)

Next == Mail \/ Listen \/ TimerPass \/ Submitting \/ Sync \/ Tick \/ Fail

(* Both processes keep running, and time passes. *)
Fairness == WF_vars(Listen) /\ WF_vars(TimerPass) /\ WF_vars(Submitting) /\ WF_vars(Tick)

Spec == Init /\ [][Next]_vars
FairSpec == Spec /\ Fairness
-----------------------------------------------------------------------------
(* Every variable has its type. *)
TicketIds == [kind : {"none", "placeholder", "ticket"}, row : RowIds \cup {0}]
Occurrence ==
    [exists : BOOLEAN, count : 0..Threshold, from : Senders, ticket : TicketIds,
     armed : BOOLEAN, wait : 0..Delay, left : 0..Window, seen : 0..Window]

TypeOK ==
    /\ QueueTypeOK
    /\ present \in BOOLEAN
    /\ occ \in [Fingerprints -> Occurrence]
    /\ about \in [RowIds -> Fingerprints \cup {NoFp}]
    /\ listener \in [pc : {"idle", "found", "arming", "opening", "marking"},
                     fp : Fingerprints \cup {NoFp}, from : Senders,
                     expired : BOOLEAN, row : RowIds \cup {0}]
    /\ pass \in [pc : {"idle", "pass", "marking"}, todo : SUBSET Fingerprints,
                 fp : Fingerprints \cup {NoFp}, row : RowIds \cup {0}]
    /\ mails \in 0..MaxMails
    /\ asked \in [Fingerprints -> Nat]

Marking(f) == \/ listener.pc = "marking" /\ listener.fp = f
              \/ pass.pc = "marking" /\ pass.fp = f

(* However problem mails, the timer, expiring windows, resets and syncs    *)
(* interleave, an incident (from its first problem to a reset, an expired  *)
(* window or a sync that deletes it) asks for one ticket, and for one more *)
(* only when a process died between asking and noting that it had asked.   *)
OneTicketPerIncident ==
    \A f \in Fingerprints : occ[f].exists =>
        asked[f] <= aborts + (IF occ[f].ticket # NoTicket \/ Marking(f) THEN 1 ELSE 0)

(* Whatever ticket or placeholder an occurrence shows was asked for that   *)
(* very fingerprint, and a ticket that is not a placeholder exists.        *)
TicketBelongs ==
    \A f \in Fingerprints : occ[f].ticket # NoTicket =>
        LET q == occ[f].ticket.row IN
        /\ q \in 1..lastQid /\ about[q] = f
        /\ occ[f].ticket.kind = "ticket" => dispatch[q].state = "sent" /\ tickets[q] > 0

(* What the two processes rely on between their transactions: the mode     *)
(* decides who opens tickets; whoever is about to ask for a fingerprint    *)
(* sees it without a ticket; whoever is about to mark it holds its row.    *)
StepsAgree ==
    /\ Delay = 0 => /\ pass.pc = "idle" /\ listener.pc # "arming"
                    /\ \A f \in Fingerprints : ~occ[f].armed
    /\ Delay > 0 => listener.pc \notin {"opening", "marking"}
    /\ listener.pc # "idle" => listener.fp \in Fingerprints
    /\ listener.pc = "opening" => occ[listener.fp].ticket = NoTicket
    /\ listener.pc = "marking" =>
          listener.row \in 1..lastQid /\ about[listener.row] = listener.fp
    /\ \A f \in pass.todo : occ[f].ticket = NoTicket
    /\ pass.pc = "idle" <=> pass.todo = {}
    /\ pass.pc = "marking" =>
          pass.fp \in pass.todo /\ pass.row \in 1..lastQid /\ about[pass.row] = pass.fp
    /\ \A q \in 1..lastQid : about[q] \in Fingerprints

(* The inductive invariant of the proofs. *)
IInv ==
    /\ QueueInv
    /\ TypeOK
    /\ StepsAgree
    /\ OneTicketPerIncident
    /\ TicketBelongs

(* After a reset nothing of the incident is left: an occurrence that       *)
(* counts nothing shows no ticket and no deadline.                         *)
ResetFrees ==
    \A f \in Fingerprints : occ[f].exists /\ occ[f].count = 0 =>
        occ[f].ticket = NoTicket /\ ~occ[f].armed

(* Once a row is sent no occurrence shows its placeholder any more. *)
PlaceholderReplaced ==
    \A f \in Fingerprints : occ[f].ticket.kind = "placeholder" =>
        dispatch[occ[f].ticket.row].state # "sent"

(* What keeps ResetFrees in threshold mode: an occurrence that is about to  *)
(* get a ticket counts something, for only the listener resets.            *)
ThresholdFrees ==
    Delay = 0 =>
        /\ ResetFrees
        /\ listener.pc \in {"opening", "marking"} /\ occ[listener.fp].exists =>
              occ[listener.fp].count > 0

(* What keeps PlaceholderReplaced in timer mode: the scheduler drains      *)
(* nothing between asking for a ticket and noting that it did.             *)
TimerReplaces ==
    Delay > 0 =>
        /\ PlaceholderReplaced
        /\ pass.pc = "marking" => dispatch[pass.row].state # "sent"

(* A placeholder is replaced by the ticket its own row obtained. *)
OwnTicket ==
    [][\A f \in Fingerprints :
          occ[f].ticket.kind = "placeholder" /\ occ'[f].ticket.kind = "ticket"
              => occ'[f].ticket.row = occ[f].ticket.row]_vars

(* A problem mail that makes two within the window opens the ticket of an  *)
(* aggregation with threshold two, unless the incident has one.            *)
TwoInWindowOpen ==
    [][\A f \in Fingerprints :
          listener.pc = "found" /\ listener.fp = f /\ Upsert(f)
             /\ Threshold = 2 /\ occ[f].count > 0 /\ occ[f].seen > 0
             /\ occ[f].ticket = NoTicket
          => listener'.pc = "opening"]_vars

(* Threshold mode: an incident that reaches the threshold gets a ticket or *)
(* ends, unless a process died or a transaction failed on the way.         *)
ThresholdAsks ==
    \A f \in Fingerprints :
        occ[f].count >= Threshold /\ occ[f].ticket = NoTicket
            ~> occ[f].count < Threshold \/ occ[f].ticket # NoTicket \/ aborts > 0

(* Timer mode: the timer of an incident without a ticket ends with a       *)
(* ticket request or a reset, although the scheduler may die in between.   *)
TimerFires ==
    \A f \in Fingerprints :
        occ[f].armed /\ occ[f].ticket = NoTicket /\ present
            ~> ~occ[f].armed \/ occ[f].ticket # NoTicket \/ ~present

(* Timer mode: a problem that is never reset gets a ticket. *)
UnresolvedAsks ==
    \A f \in Fingerprints :
        occ[f].count > 0 ~> occ[f].count = 0 \/ occ[f].ticket # NoTicket
=============================================================================
