------------------------------ MODULE Pipeline ------------------------------
(***************************************************************************)
(* One mail from RCPT to the SMTP answer: handle_RCPT and handle_DATA of   *)
(* the listener, pipeline.process, and the actions it dispatches, against  *)
(* a sender that retries what was answered 451 or not answered, a          *)
(* scheduler process whose sync replaces domain_routing_cache at any       *)
(* moment, storage calls that fail and a listener that dies.               *)
(*                                                                         *)
(* process runs in the event loop, so one mail is processed at a time; it  *)
(* is a list of tasks, a task being a storage transaction or a call of the *)
(* manager, and anything of the scheduler happens between two tasks.  The  *)
(* tables only grow here: OutboundQueue, DispatchQueue and EventLog say    *)
(* what the scheduler does with their rows, Aggregation what               *)
(* _process_aggregations (which catches its own errors) does with the mail.*)
(***************************************************************************)
EXTENDS Naturals, FiniteSets, SequencesExt

CONSTANTS
    Mails,         \* mails offered by senders
    Rcpts,         \* recipient addresses
    Domains,       \* their domains
    DomainOf,      \* the domain of an address
    Requests,      \* the recipients a sender may ask for
    Yaml,          \* cfg.listener.accepted_domains
    Routings,      \* the contents a sync may give domain_routing_cache
    RuleLists,     \* what engine.evaluate may return as matched_rules
    HardCap,       \* QUARANTINE_HARD_CAP
    Purged,        \* rows deleted when the cap is reached (100 in the code)
    MaxTries,      \* attempts of a sender (bound of the model)
    MaxFaults,     \* storage calls that fail and deaths (bound)
    MaxSyncs       \* syncs (bound)

PassiveActions == {"ai_classify", "ai_taxonomy", "ignore"}
AIActions == {"ai_classify", "ai_taxonomy"}
SendingActions == {"auto_reply", "forward", "redirect"}
TicketActions == {"create_ticket", "create_authorized_ticket"}
ActiveActions == {"default_delivery", "quarantine"} \cup SendingActions \cup TicketActions

\* A rule: its action ("ignore" stands for flag_only too), and whether its
\* action_map holds keep_original_delivery and also_deliver_to.
Rules == [action : ActiveActions \cup PassiveActions,
          keep : BOOLEAN, copy : BOOLEAN]

ASSUME PipelineAssumption ==
    /\ IsFiniteSet(Rcpts)
    /\ IsFiniteSet(Domains)
    /\ DomainOf \in [Rcpts -> Domains]
    /\ Requests \subseteq SUBSET Rcpts
    /\ Yaml \subseteq Domains
    /\ Routings \subseteq SUBSET Domains
    /\ RuleLists \subseteq Seq(Rules)
    /\ HardCap \in Nat /\ Purged \in 1..HardCap
    /\ MaxTries \in Nat \ {0} /\ MaxFaults \in Nat /\ MaxSyncs \in Nat

VARIABLES
    routing,     \* domain_routing_cache: the managed domains
    sender,      \* per mail: recipients wanted and accepted by RCPT, phase, tries
    now,         \* the call of process that is running, if any
    outbound,    \* rows inserted in outbound_queue
    quarantine,  \* the quarantine, in the order of insertion
    dispatch,    \* rows inserted in dispatch_queue
    events,      \* rows inserted in events_log
    steady,      \* history: domains managed since the mail's RCPT
    inserted,    \* history: rows ever inserted in the quarantine
    refusals,    \* history: for each 451, what was inserted by then
    syncs, faults

vars == <<routing, sender, now, outbound, quarantine, dispatch, events,
          steady, inserted, refusals, syncs, faults>>

tables == <<outbound, quarantine, dispatch, events, inserted>>

Idle == [pc |-> "idle"]

Init ==
    /\ routing \in Routings
    /\ sender \in [Mails -> [wants : Requests, rcpts : {{}},
                             phase : {"waiting"}, tries : {0}]]
    /\ now = Idle
    /\ outbound = <<>> /\ quarantine = <<>> /\ dispatch = <<>>
    /\ events = {}
    /\ steady = [m \in Mails |-> {}]
    /\ inserted = 0
    /\ refusals = {}
    /\ syncs = 0 /\ faults = 0

-----------------------------------------------------------------------------
(* The sync of the scheduler process, and the SMTP dialogue.               *)

Sync ==
    /\ syncs < MaxSyncs
    /\ \E r \in Routings :
        /\ routing' = r
        /\ steady' = [m \in Mails |-> steady[m] \cap r]
    /\ syncs' = syncs + 1
    /\ UNCHANGED <<sender, now, refusals, faults, tables>>

\* handle_RCPT: an empty cache falls back on the file, an empty file accepts all.
AcceptedDomains ==
    IF routing # {} THEN routing ELSE IF Yaml # {} THEN Yaml ELSE Domains

AcceptedRcpts(m) == {r \in sender[m].wants : DomainOf[r] \in AcceptedDomains}

Rcpt(m) ==
    /\ now.pc = "idle"
    /\ sender[m].phase = "waiting"
    /\ sender' = [sender EXCEPT
            ![m].phase = IF AcceptedRcpts(m) = {} THEN "refused" ELSE "session",
            ![m].rcpts = AcceptedRcpts(m)]
    /\ steady' = [steady EXCEPT ![m] = routing]
    /\ UNCHANGED <<routing, now, refusals, syncs, faults, tables>>

-----------------------------------------------------------------------------
(* The tasks of a call of process.                                         *)

\* A task belongs to the rule at a place of matched_rules (1 for the winning
\* one, and for what process does itself) and to one of its try blocks.
Task(op, rule, part) == [op |-> op, rule |-> rule, part |-> part, domain |-> ""]
Deliver == Task("default_delivery", 1, "main")

\* _dispatch_action: the action, keep_original_delivery (which the AI actions
\* force), also_deliver_to.
KeepsOriginal(rule) ==
    \/ rule.action \in AIActions
    \/ rule.keep /\ rule.action \in SendingActions \cup TicketActions

DispatchAction(rule, place) ==
    <<Task(rule.action, place, "main")>>
    \o (IF KeepsOriginal(rule)
        THEN <<Task("default_delivery", place, "original")>> ELSE <<>>)
    \o (IF rule.copy THEN <<Task("also_deliver", place, "copy")>> ELSE <<>>)

\* Mutant: the cascade runs active rules too.
MutCascadeOf(matched, place) == DispatchAction(matched[place], place)

CascadeOf(matched, place) ==
    IF matched[place].action \in PassiveActions
    THEN DispatchAction(matched[place], place) ELSE <<>>

Cascade(matched) ==
    FlattenSeq([i \in 1..(Len(matched) - 1) |-> CascadeOf(matched, i + 1)])

\* After engine.evaluate: nothing matched, shadow mode, or the winning rule,
\* the passive ones below it and the second evaluation of a false positive.
RuleTasks(matched, shadow) ==
    IF matched = <<>> \/ shadow THEN <<Deliver>>
    ELSE DispatchAction(matched[1], 1) \o Cascade(matched)
         \o <<Task("evaluate_again", 1, "main")>>

Routes == {"privacy_bypass", "passthrough_only", "pre_quarantine",
           "rules_disabled", "rules"}

RouteTasks(route, matched, shadow) ==
    (CASE route = "pre_quarantine" -> <<Task("quarantine", 1, "main")>>
       [] route = "rules" -> RuleTasks(matched, shadow)
       [] OTHER -> <<Deliver>>)
    \o <<Task("insert_event", 1, "main"), Task("link", 1, "main")>>

\* The rule that gives action_taken its value before anything ran.
FirstAction(route, matched, shadow) ==
    IF route \in {"pre_quarantine"} THEN "quarantine"
    ELSE IF route # "rules" \/ matched = <<>> \/ shadow THEN "default_delivery"
    ELSE matched[1].action

Data(m) ==
    /\ now.pc = "idle"
    /\ sender[m].phase = "session"
    /\ \E route \in Routes, matched \in RuleLists, shadow \in BOOLEAN :
        /\ route # "rules" => matched = <<>> /\ ~shadow
        /\ now' = [pc |-> "running", mail |-> m, try |-> sender[m].tries + 1,
                   fresh |-> route = "privacy_bypass", matched |-> matched,
                   todo |-> RouteTasks(route, matched, shadow),
                   action |-> FirstAction(route, matched, shadow),
                   done |-> TRUE, falsePositive |-> FALSE,
                   rows |-> {}, aiRules |-> 0, swallowed |-> FALSE]
    /\ sender' = [sender EXCEPT ![m].phase = "processing", ![m].tries = @ + 1]
    /\ UNCHANGED <<routing, steady, refusals, syncs, faults, tables>>

At(op) == /\ now.pc = "running"
          /\ now.todo # <<>>
          /\ Head(now.todo).op = op

Task1 == Head(now.todo)
Rest == Tail(now.todo)

-----------------------------------------------------------------------------
(* Inserting rows.                                                         *)

\* The uuid of a row: the mail, the attempt, and whether it is the one that
\* insert_event generated itself (privacy bypass) or the one of process.
OutboundRow(action, rcpts) ==
    [mail |-> now.mail, try |-> now.try, fresh |-> FALSE,
     action |-> action, rcpts |-> rcpts]

\* _enqueue_outbound; only the result of the winning rule leaves a queue_id.
Enqueue(action, rcpts) == outbound' = Append(outbound, OutboundRow(action, rcpts))

\* Mutant: the rows of the original delivery are merged into queue_id.
MutQueueIds == now.rows \cup {Len(outbound) + 1}

QueueIds == IF Task1.part = "main" /\ Task1.rule = 1
            THEN now.rows \cup {Len(outbound) + 1} ELSE now.rows

EnqueueTicket(kind) ==
    dispatch' = Append(dispatch, [mail |-> now.mail, try |-> now.try, kind |-> kind])

\* Mutant: the newest rows make room.
MutRoomNewest(q) == IF Len(q) >= HardCap THEN SubSeq(q, 1, Len(q) - Purged) ELSE q

\* add_quarantine: the oldest rows make room at the cap.
Room(q) == IF Len(q) >= HardCap THEN SubSeq(q, Purged + 1, Len(q)) ELSE q

AddQuarantine ==
    /\ quarantine' = Append(Room(quarantine), [mail |-> now.mail, try |-> now.try,
                                               id |-> inserted + 1])
    /\ inserted' = inserted + 1

Proceed == now' = [now EXCEPT !.todo = Rest]

-----------------------------------------------------------------------------
(* The tasks.                                                              *)

\* _do_default_delivery: recipients are grouped by managed domain ...
ManagedRcptDomains ==
    {DomainOf[r] : r \in sender[now.mail].rcpts} \cap routing

DefaultDelivery ==
    /\ At("default_delivery")
    /\ now' = [now EXCEPT
            !.todo = [i \in 1..Cardinality(ManagedRcptDomains) |->
                        [op |-> "enqueue", rule |-> Task1.rule, part |-> Task1.part,
                         domain |-> SetToSeq(ManagedRcptDomains)[i]]]
                     \o Rest,
            !.action = IF Task1.part = "main" /\ ManagedRcptDomains = {}
                       THEN "received_only" ELSE @]
    /\ UNCHANGED <<routing, sender, steady, refusals, syncs, faults, tables>>

\* ... and each domain, looked up again, gets a row of its own.
EnqueueDomain ==
    /\ At("enqueue")
    /\ IF Task1.domain \in routing
       THEN /\ Enqueue("default_delivery",
                       {r \in sender[now.mail].rcpts : DomainOf[r] = Task1.domain})
            /\ now' = [now EXCEPT !.todo = Rest, !.rows = QueueIds]
       ELSE Proceed /\ UNCHANGED outbound
    /\ UNCHANGED <<routing, sender, quarantine, dispatch, events, steady,
                   inserted, refusals, syncs, faults>>

\* do_quarantine
Quarantine ==
    /\ At("quarantine")
    /\ AddQuarantine
    /\ Proceed
    /\ UNCHANGED <<routing, sender, outbound, dispatch, events, steady,
                   refusals, syncs, faults>>

\* A row for another recipient, or none: the action returns ok=False, which
\* nobody looks at.
SendAs(action) ==
    /\ \/ /\ Enqueue(action, {})
          /\ now' = [now EXCEPT !.todo = Rest, !.rows = QueueIds]
       \/ /\ now' = [now EXCEPT !.todo = Rest, !.done = FALSE]
          /\ UNCHANGED outbound
    /\ UNCHANGED <<routing, sender, quarantine, dispatch, events, steady,
                   inserted, refusals, syncs, faults>>

\* do_auto_reply: none for a bulk mail, a system sender or a template that fails.
AutoReply == At("auto_reply") /\ SendAs("auto_reply")

\* do_forward: none without a target or recipient.
Forward == At("forward") /\ SendAs("forward")

\* do_redirect: none without a target.
Redirect == At("redirect") /\ SendAs("redirect")

AlsoDeliver ==
    /\ At("also_deliver")
    /\ Enqueue("also_deliver", {})
    /\ Proceed
    /\ UNCHANGED <<routing, sender, quarantine, dispatch, events, steady,
                   inserted, refusals, syncs, faults>>

\* do_create_ticket
CreateTicket ==
    /\ At("create_ticket")
    /\ EnqueueTicket("rule")
    /\ Proceed
    /\ UNCHANGED <<routing, sender, outbound, quarantine, events, steady,
                   inserted, refusals, syncs, faults>>

\* The rest of the tasks, after a template reply where one is configured.
ReplyOrNot == {Rest, <<Task("reply", Task1.rule, "reply")>> \o Rest}

\* do_create_authorized_ticket, when the manager says the code is valid ...
CodeValid ==
    /\ At("create_authorized_ticket")
    /\ EnqueueTicket("authorized")
    /\ \E tasks \in ReplyOrNot : now' = [now EXCEPT !.todo = tasks]
    /\ UNCHANGED <<routing, sender, outbound, quarantine, events, steady,
                   inserted, refusals, syncs, faults>>

\* ... or that it is not (a bulk mail is not even asked about), or that it
\* does not exist and the regex found it in the subject: a false positive.
CodeRefused ==
    /\ At("create_authorized_ticket")
    /\ \/ \E tasks \in ReplyOrNot :
            now' = [now EXCEPT !.todo = tasks, !.done = FALSE]
       \/ now' = [now EXCEPT !.todo = Rest, !.done = FALSE, !.falsePositive = TRUE]
    /\ UNCHANGED <<routing, sender, steady, refusals, syncs, faults, tables>>

\* _send_h24_template_reply: do_auto_reply under a uuid of its own, whose
\* result goes to the log only.
TemplateReply ==
    /\ At("reply")
    /\ Enqueue("reply", {}) \/ UNCHANGED outbound
    /\ Proceed
    /\ UNCHANGED <<routing, sender, quarantine, dispatch, events, steady,
                   inserted, refusals, syncs, faults>>

\* do_ai_classify: the event loop waits for the manager's decision, which is
\* logged, or applied as a ticket where shadow mode is off.
AIClassify ==
    /\ At("ai_classify")
    /\ now' = [now EXCEPT !.todo = Rest, !.aiRules = @ + 1]
    /\ EnqueueTicket("ai") \/ UNCHANGED dispatch
    /\ UNCHANGED <<routing, sender, outbound, quarantine, events, steady,
                   inserted, refusals, syncs, faults>>

\* _ai_failsafe: no answer in time, an error of the manager or of the provider.
AIFailsafe ==
    /\ At("ai_classify")
    /\ now' = [now EXCEPT !.todo = Rest, !.aiRules = @ + 1]
    /\ EnqueueTicket("failsafe")
    /\ UNCHANGED <<routing, sender, outbound, quarantine, events, steady,
                   inserted, refusals, syncs, faults>>

\* do_ai_taxonomy: only a category, or none when the manager does not answer.
AITaxonomy ==
    /\ At("ai_taxonomy")
    /\ now' = [now EXCEPT !.todo = Rest, !.aiRules = @ + 1]
    /\ UNCHANGED <<routing, sender, steady, refusals, syncs, faults, tables>>

\* do_ignore, do_flag_only
Ignore ==
    /\ At("ignore")
    /\ Proceed
    /\ UNCHANGED <<routing, sender, steady, refusals, syncs, faults, tables>>

\* The second evaluation, without the rule that had the false positive: what
\* was matched below it or, where that rule had stopped the first one, anything.
MatchedWithoutIt ==
    IF Len(now.matched) > 1 THEN {Tail(now.matched)} ELSE RuleLists

EvaluateAgain ==
    /\ At("evaluate_again")
    /\ \/ /\ ~now.falsePositive
          /\ Proceed
       \/ /\ now.falsePositive
          /\ \E others \in MatchedWithoutIt :
              now' = [now EXCEPT
                        !.todo = (IF others = <<>> THEN <<Deliver>>
                                  ELSE DispatchAction(others[1], 1)) \o Rest,
                        !.action = FirstAction("rules", others, FALSE),
                        !.done = TRUE]
    /\ UNCHANGED <<routing, sender, steady, refusals, syncs, faults, tables>>

InsertEvent ==
    /\ At("insert_event")
    /\ events' = events \cup {[mail |-> now.mail, try |-> now.try,
                               fresh |-> now.fresh, action |-> now.action]}
    /\ Proceed
    /\ UNCHANGED <<routing, sender, outbound, quarantine, dispatch, steady,
                   inserted, refusals, syncs, faults>>

\* The queue_id of several rows is a list, which the UPDATE cannot bind.
Linkable == Cardinality(now.rows) <= 1

Linked == [i \in DOMAIN outbound |->
            IF i \in now.rows THEN [outbound[i] EXCEPT !.fresh = now.fresh]
            ELSE outbound[i]]

Link ==
    /\ At("link")
    /\ Linkable
    /\ outbound' = Linked
    /\ Proceed
    /\ UNCHANGED <<routing, sender, quarantine, dispatch, events, steady,
                   inserted, refusals, syncs, faults>>

LinkFails ==
    /\ At("link")
    /\ ~Linkable
    /\ now' = [now EXCEPT !.pc = "failed"]
    /\ UNCHANGED <<routing, sender, steady, refusals, syncs, faults, tables>>

-----------------------------------------------------------------------------
(* Failures and answers.                                                   *)

\* The tasks that the except clause around the failing one gives up: its own
\* block (original delivery, copies, template reply), or all of a rule of the
\* cascade; nothing catches the others inside process.
\* Mutant: the winning rule is dispatched inside a try block as well.
MutSwallowed(task) == task.op \notin {"insert_event", "link"}

Swallowed(task) == task.part # "main" \/ task.rule > 1

GivenUp(task, t) == t.rule = task.rule /\ (task.part = "main" \/ t.part = task.part)

AfterBlock(task) ==
    {SubSeq(now.todo, n + 1, Len(now.todo)) : n \in
        {n \in 1..Len(now.todo) : /\ \A i \in 1..n : GivenUp(task, now.todo[i])
                                  /\ n < Len(now.todo) => ~GivenUp(task, now.todo[n + 1])}}

\* A storage call or a call of the manager raises.
Fault ==
    /\ now.pc = "running" /\ now.todo # <<>>
    /\ faults < MaxFaults
    /\ faults' = faults + 1
    /\ \/ /\ Swallowed(Task1)
          /\ \E rest \in AfterBlock(Task1) :
                now' = [now EXCEPT !.todo = rest, !.swallowed = TRUE]
       \/ /\ ~Swallowed(Task1)
          /\ now' = [now EXCEPT !.pc = "failed"]
    /\ UNCHANGED <<routing, sender, steady, refusals, syncs, tables>>

\* The sender keeps the mail and tries again, or gives up.
TryLater(m) ==
    sender' = [sender EXCEPT ![m].phase =
                IF sender[m].tries < MaxTries THEN "waiting" ELSE "bounced"]

\* handle_DATA after an exception: a copy in the quarantine, then 451.
DeadLetter ==
    /\ now.pc = "failed"
    /\ AddQuarantine
    /\ refusals' = refusals \cup
         {[mail |-> now.mail, try |-> now.try, id |-> inserted + 1]}
    /\ TryLater(now.mail)
    /\ now' = Idle
    /\ UNCHANGED <<routing, outbound, dispatch, events, steady, syncs, faults>>

\* The quarantine fails as well: only 451.
DeadLetterFails ==
    /\ now.pc = "failed"
    /\ faults < MaxFaults
    /\ faults' = faults + 1
    /\ TryLater(now.mail)
    /\ now' = Idle
    /\ UNCHANGED <<routing, steady, refusals, syncs, tables>>

\* 250
Accept ==
    /\ now.pc = "running" /\ now.todo = <<>>
    /\ sender' = [sender EXCEPT ![now.mail].phase = "accepted"]
    /\ now' = Idle
    /\ UNCHANGED <<routing, steady, refusals, syncs, faults, tables>>

\* The listener dies: the sender gets no answer.
Die ==
    /\ now.pc # "idle"
    /\ faults < MaxFaults
    /\ faults' = faults + 1
    /\ TryLater(now.mail)
    /\ now' = Idle
    /\ UNCHANGED <<routing, steady, refusals, syncs, tables>>

Step == \/ DefaultDelivery \/ EnqueueDomain \/ Quarantine
        \/ AutoReply \/ Forward \/ Redirect \/ AlsoDeliver
        \/ CreateTicket \/ CodeValid \/ CodeRefused \/ TemplateReply
        \/ AIClassify \/ AIFailsafe \/ AITaxonomy \/ Ignore
        \/ EvaluateAgain \/ InsertEvent \/ Link \/ LinkFails
        \/ DeadLetter \/ Accept

Next ==
    \/ Sync
    \/ \E m \in Mails : Rcpt(m) \/ Data(m)
    \/ Step
    \/ Fault \/ DeadLetterFails \/ Die

Spec == Init /\ [][Next]_vars

\* The event loop runs what it has started; senders retry.
FairSpec == /\ Spec
            /\ WF_vars(Step)
            /\ \A m \in Mails : WF_vars(Rcpt(m)) /\ WF_vars(Data(m))

-----------------------------------------------------------------------------
(* Properties.                                                             *)

Phases == {"waiting", "session", "processing", "accepted", "refused", "bounced"}

\* The types of the tables and of a sender's view of its mail.
PipelineTypeOK ==
    /\ routing \in SUBSET Domains
    /\ sender \in [Mails -> [wants : Requests, rcpts : SUBSET Rcpts,
                            phase : Phases, tries : 0..MaxTries]]
    /\ now.pc \in {"idle", "running", "failed"}
    /\ now.pc # "idle" => /\ sender[now.mail].phase = "processing"
                          /\ sender[now.mail].tries = now.try
    /\ Len(quarantine) \in 0..HardCap
    /\ inserted \in Nat /\ faults \in 0..MaxFaults /\ syncs \in 0..MaxSyncs

Of(row, m, n) == row.mail = m /\ row.try = n

Originals(m, n, r) ==
    {i \in DOMAIN outbound : /\ Of(outbound[i], m, n)
                             /\ outbound[i].action = "default_delivery"
                             /\ r \in outbound[i].rcpts}

\* Every recipient whose domain stayed managed has a copy queued.
AllDelivered ==
    \A r \in sender[now.mail].rcpts :
        DomainOf[r] \in steady[now.mail] => Originals(now.mail, now.try, r) # {}

Has(table, P(_)) ==
    \E i \in DOMAIN table : Of(table[i], now.mail, now.try) /\ P(table[i])

\* What the event of an accepted mail says was done to it has been done.
KeptAs(action) ==
    CASE action = "quarantine" -> Has(quarantine, LAMBDA row : TRUE)
      [] action = "create_ticket" -> Has(dispatch, LAMBDA row : row.kind = "rule")
      [] action = "create_authorized_ticket" ->
            now.done => Has(dispatch, LAMBDA row : row.kind = "authorized")
      [] action \in SendingActions ->
            now.done => Has(outbound, LAMBDA row : row.action = action)
      [] action \in {"default_delivery", "received_only"} -> AllDelivered
      [] action \in AIActions -> now.swallowed \/ AllDelivered
      [] OTHER -> TRUE

\* handle_DATA answers 250 only to a mail that is where action_taken says:
\* queued for every recipient of a domain that stayed managed since RCPT, in
\* the quarantine, or asked for as a ticket; whatever failed on the way, and
\* through shadow mode, the cascade and the second evaluation of the rules.
\* (An action that found no target, and the original delivery after an AI
\* action whose failure is swallowed, are what the code lets pass.)
AcceptedIsKept ==
    [][(now.pc = "running" /\ now.todo = <<>> /\ now'.pc = "idle"
        /\ sender'[now.mail].phase = "accepted") => KeptAs(now.action)]_vars

\* A recipient gets a second original from one attempt only if an AI rule ran
\* beside another one or the rules were evaluated again: _dispatch_action
\* never adds an original delivery to an action that is one, and the cascade
\* never runs a second active rule.
OriginalsExplained ==
    now.pc = "running" =>
        \A r \in sender[now.mail].rcpts :
            Cardinality(Originals(now.mail, now.try, r)) > 1
                => now.aiRules > 0 \/ now.falsePositive

Held(id) == \E i \in DOMAIN quarantine : quarantine[i].id = id

\* Attempts that ended without a 250.
FailedTries ==
    {t \in Mails \X (1..MaxTries) :
        \/ t[2] < sender[t[1]].tries
        \/ t[2] = sender[t[1]].tries /\ sender[t[1]].phase \in {"waiting", "bounced"}}

\* An attempt that failed left a copy in the quarantine (one may be missing
\* per death or failure of the quarantine itself), and add_quarantine drops a
\* copy only when the cap makes it the oldest.
RefusedIsHeld ==
    /\ \A f \in refusals : Held(f.id) \/ inserted - f.id > HardCap - Purged
    /\ Cardinality({t \in FailedTries :
            ~ \E f \in refusals : f.mail = t[1] /\ f.try = t[2]}) <= faults

\* Once 250 is answered, the rows of the attempt carry the uuid of a recorded
\* event, by which the scheduler reports what became of them; the privacy
\* bypass, whose event gets another uuid than its rows, relies on the UPDATE.
\* (_send_h24_template_reply uses an identifier of its own.)
RowsLinked ==
    \A m \in Mails : sender[m].phase = "accepted" =>
        \A i \in DOMAIN outbound :
            Of(outbound[i], m, sender[m].tries) /\ outbound[i].action # "reply" =>
                \E e \in events : /\ Of(e, m, sender[m].tries)
                                  /\ e.fresh = outbound[i].fresh

OneDomain(m) == Cardinality({DomainOf[r] : r \in sender[m].wants}) = 1

\* A sender with more tries than there are failures gets a final answer for a
\* mail whose recipients share a domain.
GetsThrough ==
    \A m \in Mails : OneDomain(m) => <>(sender[m].phase \in {"accepted", "refused"})

-----------------------------------------------------------------------------
(* Deviations: what one may expect of the code and it does not do.         *)

\* A mail for several managed domains gets a final answer too.
EveryMailGetsThrough ==
    \A m \in Mails : <>(sender[m].phase \in {"accepted", "refused"})

\* What handle_RCPT accepted is delivered: not when it was accepted from the
\* file because domain_routing_cache was empty.
AcceptedIsRouted ==
    [][(now.pc = "running" /\ now.todo = <<>> /\ now'.pc = "idle"
        /\ sender'[now.mail].phase = "accepted" /\ now.action # "quarantine")
       => now.action # "received_only"]_vars

\* An AI action never costs the recipient the mail.
AIIsDelivered ==
    [][(now.pc = "running" /\ now.todo = <<>> /\ now'.pc = "idle"
        /\ sender'[now.mail].phase = "accepted" /\ now.action \in AIActions)
       => AllDelivered]_vars

\* A recipient gets one original from an accepted mail.
OneOriginal ==
    \A m \in Mails, r \in Rcpts : sender[m].phase = "accepted" =>
        Cardinality(Originals(m, sender[m].tries, r)) <= 1

=============================================================================
