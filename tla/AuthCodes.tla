------------------------------ MODULE AuthCodes ------------------------------
(***************************************************************************)
(* The authorisation codes of the H24 service: one-shot codes, which an    *)
(* out-of-hours auto-reply asks the admin for and a customer sends back in *)
(* the subject of an urgent mail, and permanent codes of a customer.       *)
(*                                                                         *)
(* The listener processes one mail at a time and asks the admin over HTTP. *)
(* A handler of the admin is a list of transactions, each atomic (BEGIN    *)
(* IMMEDIATE under the storage's lock), and goes on when the listener has  *)
(* stopped waiting for it: an answer may be lost after the code was spent. *)
(* A mail whose listener died is delivered again by its sender.            *)
(* Mails that are automatic or bulk, which never reach the admin, and the  *)
(* choice among several rules are Pipeline's.                              *)
(***************************************************************************)
EXTENDS Naturals, Integers, FiniteSets

CONSTANTS
    Codes,        \* the strings a code may be
    NoCode,       \* a mail without one
    Tenants,
    ListenerTenant, \* the tenant auth_codes_post falls back on
    MailTenant,   \* the tenant_id of the rule's action_map, per mail
    Urgent,       \* mails that a create_authorized_ticket rule matches
    Asking,       \* mails that an auto_reply rule with generate_auth_code matches
    Ttl,          \* lifetime of a code after the caps of issue_auth_code, in ticks
    Retention,    \* ticks an unused code is kept after its deadline
    Custom,       \* the codes an operator may give a customer for good
    Registered,   \* what customer_h24_codes may hold to begin with
    MaxIssues,    \* codes issued (bound of the model)
    MaxManual,    \* what operators and administrators do (bound)
    MaxFaults     \* lost answers, failed writes and deaths (bound)

ASSUME AuthCodesAssumption ==
    /\ NoCode \notin Codes
    /\ ListenerTenant \in Tenants
    /\ Urgent \cap Asking = {}
    /\ MailTenant \in [Urgent \cup Asking -> Tenants]
    /\ Ttl \in Nat \ {0} /\ Retention \in Nat
    /\ Custom \subseteq Codes
    /\ MaxIssues \in Nat \ {0} /\ MaxManual \in Nat /\ MaxFaults \in Nat

Mails == Urgent \cup Asking
Ids == 1..MaxIssues
Tries == 1..(MaxFaults + 1)
Visits == Mails \X Tries

NoRow == [id |-> 0]
Oldest == -(Retention + 1)

\* A row of authorization_codes: left is the time to valid_until.
OneshotRows == [id : Ids, tenant : Tenants, left : Oldest..Ttl, used : BOOLEAN]
\* A row of customer_h24_codes: revoking also clears enabled.
PermanentRows == [tenant : Tenants, revoked : BOOLEAN]

ASSUME RegisteredAssumption == Registered \subseteq [Codes -> PermanentRows \cup {NoRow}]

Answers == [valid : BOOLEAN, reason : {"ok", "not_found", "already_used", "expired",
                                       "revoked", "no_code", "error"},
            kind : {"oneshot", "permanent", "none"}, code : Codes \cup {NoCode},
            id : Ids \cup {0}]
NoAnswer == [valid |-> FALSE, reason |-> "error", kind |-> "none",
             code |-> NoCode, id |-> 0]

\* A handler of the admin at work, for a visit of a mail.
CallSteps == {"validate", "permanent", "issue", "answered"}
Calls == [visit : Visits, pc : CallSteps, answer : Answers]

VARIABLES
    oneshot,     \* authorization_codes: per code, its row or NoRow
    permanent,   \* customer_h24_codes: per code, its row or NoRow
    usages,      \* customer_h24_codes_usage: codes and the visits that used them
    calls,       \* the handlers of the admin that are running
    now,         \* what the listener is doing
    sender,      \* per mail: the code it carries, its phase and tries
    tickets,     \* tickets queued: visit, kind of code, id of the row
    issues,      \* codes ever issued
    spent,       \* history: ids and the visits that consumed them
    broken,      \* history: visits whose answer was lost or whose listener died
    erased,      \* history: ids deleted by an administrator
    manual, faults

db == <<oneshot, permanent, usages, issues, spent, erased, manual>>
listener == <<now, sender, tickets>>
vars == <<oneshot, permanent, usages, calls, now, sender, tickets,
          issues, spent, broken, erased, manual, faults>>

Idle == [pc |-> "idle"]
Working == [pc : {"asking", "valid", "done"}, visit : Visits,
            answer : Answers]

Init ==
    /\ oneshot = [c \in Codes |-> NoRow]
    /\ permanent \in Registered
    /\ usages = {}
    /\ calls = {}
    /\ now = Idle
    /\ sender \in [Mails -> [code : Codes \cup {NoCode}, phase : {"waiting"}, tries : {0}]]
    /\ \A m \in Asking : sender[m].code = NoCode
    /\ tickets = {}
    /\ issues = 0 /\ spent = {} /\ broken = {} /\ erased = {}
    /\ manual = 0 /\ faults = 0

-----------------------------------------------------------------------------
(* The listener asks.                                                      *)

\* do_create_authorized_ticket and do_auto_reply, up to the HTTP call.
Start(m) ==
    /\ now = Idle
    /\ sender[m].phase = "waiting"
    /\ LET visit == <<m, sender[m].tries + 1>> IN
        /\ calls' = calls \cup
             {[visit |-> visit, answer |-> NoAnswer,
               pc |-> IF m \in Urgent THEN "validate" ELSE "issue"]}
        /\ now' = [pc |-> "asking", visit |-> visit, answer |-> NoAnswer]
    /\ sender' = [sender EXCEPT ![m].phase = "processing", ![m].tries = @ + 1]
    /\ UNCHANGED <<tickets, broken, faults, db>>

Fault == faults < MaxFaults /\ faults' = faults + 1

\* Mutant: only a one-shot code gets a ticket.
MutContinue(visit, answer) ==
    now' = [visit |-> visit, answer |-> answer,
            pc |-> IF answer.valid /\ answer.kind = "oneshot" THEN "valid" ELSE "done"]

\* What follows the answer: a ticket, or only a reply (with the new code, or a
\* refusal), whose row is Pipeline's.
Continue(visit, answer) ==
    now' = [visit |-> visit, answer |-> answer,
            pc |-> IF visit[1] \in Urgent /\ answer.valid THEN "valid" ELSE "done"]

Receive(k) ==
    /\ now.pc = "asking" /\ k.visit = now.visit
    /\ k.pc = "answered"
    /\ Continue(k.visit, k.answer)
    /\ calls' = calls \ {k}
    /\ UNCHANGED <<sender, tickets, broken, faults, db>>

\* A timeout or an error of the network, before the admin has the request, or
\* after: then its handler goes on alone.
Lose(k) ==
    /\ now.pc = "asking" /\ k.visit = now.visit
    /\ Fault
    /\ Continue(k.visit, NoAnswer)
    /\ \/ calls' = calls \ {k} /\ k.pc \in {"validate", "issue", "answered"}
       \/ UNCHANGED calls /\ k.pc # "answered"
    /\ broken' = broken \cup {k.visit}
    /\ UNCHANGED <<sender, tickets, db>>

-----------------------------------------------------------------------------
(* The handlers of the admin.                                              *)

Step(k, pc, answer) ==
    calls' = (calls \ {k}) \cup {[visit |-> k.visit, pc |-> pc, answer |-> answer]}

\* The answer of a handler that nobody waits for any more is dropped.
Answer(k, answer) ==
    IF now.pc = "asking" /\ k.visit = now.visit
    THEN Step(k, "answered", answer) ELSE calls' = calls \ {k}

CodeOf(k) == sender[k.visit[1]].code
TenantOf(k) == MailTenant[k.visit[1]]

Exists(table, code, tenant) ==
    table[code] # NoRow /\ table[code].tenant = tenant

\* Mutant: a code used already is taken once more.
MutSpendable(code, tenant) ==
    Exists(oneshot, code, tenant) /\ oneshot[code].left > 0

\* validate_oneshot_code: what the UPDATE asks for ...
Spendable(code, tenant) ==
    /\ Exists(oneshot, code, tenant)
    /\ ~oneshot[code].used
    /\ oneshot[code].left > 0

\* ... and the reason when it is not met (a code in the very second of its
\* deadline passes the SELECT and fails the UPDATE).
OneshotReason(code, tenant) ==
    IF ~Exists(oneshot, code, tenant) THEN "not_found"
    ELSE IF oneshot[code].used \/ oneshot[code].left = 0 THEN "already_used"
    ELSE "expired"

Consume(code) == [oneshot[code] EXCEPT !.used = TRUE]

NoCodeInSubject(k) ==
    /\ k.pc = "validate" /\ CodeOf(k) = NoCode
    /\ Answer(k, [NoAnswer EXCEPT !.reason = "no_code"])
    /\ UNCHANGED <<broken, faults, db, listener>>

ValidateOneshot(k) ==
    /\ k.pc = "validate" /\ CodeOf(k) # NoCode
    /\ LET code == CodeOf(k) IN
       IF Spendable(code, TenantOf(k))
       THEN /\ oneshot' = [oneshot EXCEPT ![code] = Consume(code)]
            /\ spent' = spent \cup {<<oneshot[code].id, k.visit>>}
            /\ Answer(k, [valid |-> TRUE, reason |-> "ok", kind |-> "oneshot",
                                    code |-> code, id |-> oneshot[code].id])
       ELSE /\ Step(k, "permanent", [NoAnswer EXCEPT !.code = code,
                                    !.reason = OneshotReason(code, TenantOf(k))])
            /\ UNCHANGED <<oneshot, spent>>
    /\ UNCHANGED <<permanent, usages, issues, erased, manual, broken, faults, listener>>

Usable(code, tenant) ==
    Exists(permanent, code, tenant) /\ ~permanent[code].revoked

\* validate_h24_customer_code, and the more telling of the two reasons.
ValidatePermanent(k) ==
    /\ k.pc = "permanent"
    /\ LET code == CodeOf(k)
           found == Exists(permanent, code, TenantOf(k)) IN
       IF Usable(code, TenantOf(k))
       THEN /\ usages' = usages \cup {<<code, k.visit>>}
            /\ Answer(k, [valid |-> TRUE, reason |-> "ok", kind |-> "permanent",
                                    code |-> code, id |-> 0])
       ELSE /\ Answer(k, [k.answer EXCEPT !.reason =
                          IF @ = "not_found" /\ found THEN "revoked" ELSE @])
            /\ UNCHANGED usages
    /\ UNCHANGED <<oneshot, permanent, issues, spent, erased, manual, broken, faults,
                   listener>>

\* issue_auth_code: a code of no other row, or none after eight draws.
NewRow(tenant, left) ==
    [id |-> issues + 1, tenant |-> tenant, left |-> left, used |-> FALSE]

Drawable == {c \in Codes : oneshot[c] = NoRow}

InsertOneshot(code, tenant) ==
    /\ issues < MaxIssues
    /\ code \in Drawable
    /\ oneshot' = [oneshot EXCEPT ![code] = NewRow(tenant, Ttl)]
    /\ issues' = issues + 1

\* auth_codes_post
Issue(k) ==
    /\ k.pc = "issue"
    /\ \/ \E code \in Codes :
            /\ InsertOneshot(code, ListenerTenant)
            /\ Answer(k, [NoAnswer EXCEPT !.valid = TRUE, !.reason = "ok",
                                    !.code = code, !.id = issues + 1])
       \/ /\ Drawable # Codes \/ issues = MaxIssues
          /\ Answer(k, NoAnswer)
          /\ UNCHANGED <<oneshot, issues>>
    /\ UNCHANGED <<permanent, usages, spent, erased, manual, broken, faults, listener>>

-----------------------------------------------------------------------------
(* The listener acts on the answer.                                        *)

\* The ticket of a valid code is queued; its dispatch is DispatchQueue's.
OpenTicket ==
    /\ now.pc = "valid"
    /\ tickets' = tickets \cup {[visit |-> now.visit, kind |-> now.answer.kind,
                                 id |-> now.answer.id, code |-> now.answer.code]}
    /\ now' = [now EXCEPT !.pc = "done"]
    /\ UNCHANGED <<calls, sender, broken, faults, db>>

\* The event is inserted and the sender has its 250.
Answer250 ==
    /\ now.pc = "done"
    /\ now' = Idle
    /\ sender' = [sender EXCEPT ![now.visit[1]].phase = "done"]
    /\ UNCHANGED <<calls, tickets, broken, faults, db>>

Die ==
    /\ now # Idle
    /\ Fault
    /\ now' = Idle
    /\ sender' = [sender EXCEPT ![now.visit[1]].phase = "waiting"]
    /\ broken' = broken \cup {now.visit}
    /\ calls' = {k \in calls : k.pc # "answered"}
    /\ UNCHANGED <<tickets, db>>

-----------------------------------------------------------------------------
(* The administrators, the clock and the nightly cleanup.                  *)

rest == <<calls, broken, faults, listener>>

Manually == manual < MaxManual /\ manual' = manual + 1

IssueByHand ==
    /\ Manually
    /\ \E code \in Codes, tenant \in Tenants : InsertOneshot(code, tenant)
    /\ UNCHANGED <<permanent, usages, spent, erased, rest>>

DeleteCode(code) ==
    /\ Manually
    /\ oneshot[code] # NoRow
    /\ oneshot' = [oneshot EXCEPT ![code] = NoRow]
    /\ erased' = erased \cup {oneshot[code].id}
    /\ UNCHANGED <<permanent, usages, issues, spent, rest>>

\* create_h24_code: a code is created once, revoked rows included.
CreatePermanent(code, tenant) ==
    /\ Manually
    /\ permanent[code] = NoRow
    /\ permanent' = [permanent EXCEPT ![code] = [tenant |-> tenant, revoked |-> FALSE]]
    /\ UNCHANGED <<oneshot, usages, issues, spent, erased, rest>>

Revoke(code) ==
    /\ Manually
    /\ permanent[code] # NoRow /\ ~permanent[code].revoked
    /\ permanent' = [permanent EXCEPT ![code].revoked = TRUE]
    /\ UNCHANGED <<oneshot, usages, issues, spent, erased, rest>>

Tick ==
    /\ \E c \in Codes : oneshot[c] # NoRow /\ oneshot[c].left > Oldest
    /\ oneshot' = [c \in Codes |->
            IF oneshot[c] # NoRow /\ oneshot[c].left > Oldest
            THEN [oneshot[c] EXCEPT !.left = @ - 1] ELSE oneshot[c]]
    /\ UNCHANGED <<permanent, usages, issues, spent, erased, manual, rest>>

Stale(code) ==
    /\ oneshot[code] # NoRow
    /\ ~oneshot[code].used
    /\ oneshot[code].left < -Retention

\* cleanup_expired_oneshot_codes, once a day
Cleanup ==
    /\ \E c \in Codes : Stale(c)
    /\ oneshot' = [c \in Codes |-> IF Stale(c) THEN NoRow ELSE oneshot[c]]
    /\ UNCHANGED <<permanent, usages, issues, spent, erased, manual, rest>>

-----------------------------------------------------------------------------
Handle(k) ==
    NoCodeInSubject(k) \/ ValidateOneshot(k) \/ ValidatePermanent(k) \/ Issue(k)

Listen ==
    \/ \E m \in Mails : Start(m)
    \/ \E k \in calls : Receive(k)
    \/ OpenTicket \/ Answer250

Administer ==
    \/ IssueByHand
    \/ \E c \in Codes : DeleteCode(c) \/ Revoke(c)
    \/ \E c \in Custom, t \in Tenants : CreatePermanent(c, t)

Next ==
    \/ Listen
    \/ \E k \in calls : Handle(k) \/ Lose(k)
    \/ Die \/ Administer \/ Tick \/ Cleanup

Spec == Init /\ [][Next]_vars

-----------------------------------------------------------------------------
TypeOK ==
    /\ oneshot \in [Codes -> OneshotRows \cup {NoRow}]
    /\ permanent \in [Codes -> PermanentRows \cup {NoRow}]
    /\ usages \subseteq Codes \X Visits
    /\ calls \subseteq Calls
    /\ now \in Working \cup {Idle}
    /\ sender \in [Mails -> [code : Codes \cup {NoCode},
                             phase : {"waiting", "processing", "done"},
                             tries : Tries \cup {0}]]
    /\ tickets \subseteq [visit : Visits, kind : {"oneshot", "permanent"},
                         id : Ids \cup {0}, code : Codes]
    /\ issues \in 0..MaxIssues
    /\ spent \subseteq Ids \X Visits
    /\ broken \subseteq Visits
    /\ erased \subseteq Ids
    /\ manual \in 0..MaxManual /\ faults \in 0..MaxFaults

\* A code that was consumed, and the use of a permanent code that was recorded,
\* have their ticket, are being worked on, or belong to a visit whose answer
\* was lost or whose listener died: no other path spends a code for nothing.
Answered(visit, code) ==
    \/ \E t \in tickets : t.visit = visit /\ t.code = code
    \/ now.pc \in {"asking", "valid"} /\ now.visit = visit
    \/ visit \in broken

ConsumedIsServed ==
    /\ \A s \in spent : Answered(s[2], sender[s[2][1]].code)
    /\ \A u \in usages : Answered(u[2], u[1])

\* Whatever was consumed stays in the table, marked as used, until an
\* administrator deletes it: the nightly cleanup leaves the audit alone.
AuditKept ==
    \A s \in spent :
        \/ s[1] \in erased
        \/ \E c \in Codes : oneshot[c].id = s[1] /\ oneshot[c].used

\* What the codes promise: Redemption, each issue known by the id of its row.
Status(i) ==
    IF \E s \in spent : s[1] = i THEN "redeemed"
    ELSE IF \E c \in Codes : oneshot[c].id = i THEN "open"
    ELSE IF i <= issues THEN "closed" ELSE "unissued"

Promise == INSTANCE Redemption WITH
    Issues <- Ids, Visits <- Visits,
    status <- [i \in Ids |-> Status(i)],
    redeemed <- spent,
    opened <- {<<t.id, t.visit>> : t \in {t \in tickets : t.kind = "oneshot"}}

\* Every step of the listener, of the admin's handlers, of the administrators
\* and of the cleanup is a step of Redemption or leaves it alone: whatever is
\* lost or done twice, an issue is redeemed once and opens one ticket.
ImplementsRedemption == Promise!Spec
=============================================================================
