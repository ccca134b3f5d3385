----------------------------- MODULE AiAssistant -----------------------------
(***************************************************************************)
(* The AI assistant: a mail that an ai_classify or ai_taxonomy rule        *)
(* matches is sent by the listener to the admin, which asks a language     *)
(* model, records a decision with its cost, and answers what to do.        *)
(*                                                                         *)
(* The admin is several gunicorn workers of several threads: a request is  *)
(* a thread's, and goes on when the listener has stopped waiting for it.   *)
(* Each worker keeps the bindings (which provider serves which job) in a   *)
(* cache of its own.  Operators edit bindings and providers, and switch    *)
(* between shadow mode (decisions are only recorded) and live.             *)
(* Prompts, redaction and the wording of answers are left out, and there   *)
(* is one tenant.  What becomes of decisions later is AiReview's.          *)
(***************************************************************************)
EXTENDS Naturals, FiniteSets, FiniteSetsExt, Sequences

CONSTANTS
    Classified,    \* mails that an ai_classify rule matches
    Labelled,      \* mails that an ai_taxonomy rule matches
    Threads, Workers,
    WorkerOf,      \* the process a thread belongs to
    Operators,
    Providers, NoProvider,
    Suggestions,   \* suggested_action
    Budget,        \* ai_daily_budget_usd
    CostsOf,       \* what a call of a provider may cost (0: a local model)
    MaxCost,       \* the most that one call may cost
    Forms,         \* bindings that operators may enter
    FirstProviders, FirstBindings, \* what operators had set up before
    MinObserved,   \* ai_shadow_min_decisions_before_live
    UtcLag,        \* whether the server's day starts before that of UTC
    MaxBindings,   \* versions of bindings ever made (bound of the model)
    MaxChanges,    \* what operators do (bound)
    MaxCrashes,    \* requests that die with their process (bound)
    MaxDays        \* days (bound)

Mails == Classified \cup Labelled
Jobs == {"classify_email", "email_taxonomy"}
JobOf(m) == IF m \in Classified THEN "classify_email" ELSE "email_taxonomy"

ASSUME AiAssumption ==
    /\ Classified \cap Labelled = {}
    /\ WorkerOf \in [Threads -> Workers]
    /\ IsFiniteSet(Threads)
    /\ NoProvider \notin Providers
    /\ Forms \subseteq [job : Jobs, provider : Providers,
                       fallback : Providers \cup {NoProvider}, enabled : BOOLEAN]
    /\ FirstProviders \in [Providers -> {"absent", "on", "off"}]
    /\ \A i \in DOMAIN FirstBindings : FirstBindings[i] \in
          [id : {i}, job : Jobs, provider : Providers,
           fallback : Providers \cup {NoProvider}, enabled : BOOLEAN, version : Nat]
    /\ CostsOf \in [Providers -> SUBSET (0..MaxCost)]
    /\ Budget \in Nat /\ MaxCost \in Nat /\ MinObserved \in Nat
    /\ UtcLag \in BOOLEAN
    /\ MaxBindings \in Nat /\ MaxChanges \in Nat /\ MaxCrashes \in Nat /\ MaxDays \in Nat \ {0}

Ids == 1..MaxBindings
NoRow == [id |-> 0]
NoCache == [rows |-> {}]
NoSuggestion == "none"

VARIABLES
    enabled,     \* setting ai_enabled
    shadow,      \* setting ai_shadow_mode
    bindings,    \* ai_job_bindings: per id, its row or NoRow
    providers,   \* ai_providers: "absent", "on", "off"
    decisions,   \* ai_decisions
    audit,       \* ai_shadow_audit
    cache,       \* per worker: the router's rows and providers, or NoCache
    work,        \* per thread: the request it handles
    saving,      \* per worker: whether a saved binding awaits invalidate_cache
    console,     \* per operator: the step of the shadow mode page
    mail,        \* per mail: where the listener is with it
    today, utc,  \* the day by the server's clock and in UTC
    billed,      \* history: cost of the answers to classify requests, per day
    peak,        \* history: most requests that ever ran at once
    lived,       \* history: mails that waited while the assistant was live
    saver,       \* history: the worker that saved the last binding
    changes, crashes

tables == <<enabled, shadow, bindings, providers, audit, saving, console, saver, changes>>
history == <<billed, peak, lived, crashes>>
days == <<today, utc>>
assistantVars == <<tables, decisions, cache, work, mail, days, history>>

Free == [pc |-> "idle"]

AssistantInit ==
    /\ enabled = TRUE /\ shadow \in BOOLEAN    \* it had been switched on
    /\ bindings = [i \in Ids |-> IF i \in DOMAIN FirstBindings THEN FirstBindings[i] ELSE NoRow]
    /\ providers = FirstProviders
    /\ decisions = {} /\ audit = <<>>
    /\ cache = [w \in Workers |-> NoCache]
    /\ work = [t \in Threads |-> Free]
    /\ saving = [w \in Workers |-> FALSE]
    /\ console = [o \in Operators |-> Free]
    /\ mail = [m \in Mails |-> "new"]
    /\ today = 1 /\ utc = 1
    /\ billed = [d \in 1..MaxDays |-> 0]
    /\ peak = 0 /\ lived = {} /\ saver = "nobody"
    /\ changes = 0 /\ crashes = 0

-----------------------------------------------------------------------------
(* The listener.                                                           *)

\* do_ai_classify and do_ai_taxonomy, up to the HTTP call.
Post(m) ==
    /\ mail[m] = "new"
    /\ mail' = [mail EXCEPT ![m] = "waiting"]
    /\ lived' = IF shadow THEN lived ELSE lived \cup {m}
    /\ UNCHANGED <<tables, decisions, cache, work, days, billed, peak, crashes>>

\* The call failed: a ticket for a classification, nothing for a label.
Unanswered(m) == IF m \in Classified THEN "failsafe" ELSE "unlabelled"

\* What the listener makes of a decision.
Acted(m, d) ==
    CASE m \in Labelled -> IF d.error THEN "unlabelled" ELSE "labelled"
      [] m \in Classified /\ ~d.applied -> "observed"
      [] OTHER -> CASE d.suggestion = "create_ticket" -> "ticket"
                    [] d.suggestion = "ignore" -> "ignored"
                    [] OTHER -> "flagged"
ByAI == {"ticket", "ignored", "flagged"}

\* The client's own timeout, which the admin does not hear of.
GiveUp(m) ==
    /\ mail[m] = "waiting"
    /\ mail' = [mail EXCEPT ![m] = Unanswered(m)]
    /\ UNCHANGED <<tables, decisions, cache, work, days, history>>

\* The answer of a thread, if its mail still waits for it.
Answer(t, result) ==
    LET m == work[t].mail IN
    /\ mail' = IF mail[m] = "waiting" THEN [mail EXCEPT ![m] = result] ELSE mail
    /\ work' = [work EXCEPT ![t] = Free]

-----------------------------------------------------------------------------
(* A request: classify_email and classify_taxonomy.                        *)

\* Mutant: only what was applied counts.
MutSpentToday ==
    MapThenSumSet(LAMBDA d : d.cost, {d \in decisions : d.day = today /\ d.applied})

\* sum_ai_decisions_cost_today: rows are dated in UTC, the caller asks for the
\* server's day.
SpentToday ==
    MapThenSumSet(LAMBDA d : d.cost, {d \in decisions : d.day = today})

WithinBudget(m) == m \in Classified => SpentToday < Budget

Enabled(job) == {bindings[i] : i \in {i \in Ids : bindings[i].id # 0
                                  /\ bindings[i].enabled /\ bindings[i].job = job}}
Known == {p \in Providers : providers[p] # "absent"}
Current == [rows |-> UNION {Enabled(j) : j \in Jobs}, known |-> Known]

\* pick_binding over the rows c of the worker's cache.  A traffic split of 0
\* counts as 100, so any enabled binding may be picked.
Pick(t, m, c) ==
    \/ /\ \/ \A b \in c.rows : b.job # JobOf(m)
          \/ \E b \in c.rows : b.job = JobOf(m) /\ b.provider \notin c.known
       /\ mail' = [mail EXCEPT ![m] = "skipped"] /\ UNCHANGED <<work, peak>>
    \/ \E b \in c.rows :
        /\ b.job = JobOf(m) /\ b.provider \in c.known
        /\ work' = [work EXCEPT ![t] = [pc |-> "calling", mail |-> m,
                                        first |-> b.provider, fallback |-> b.fallback]]
        /\ peak' = Max({peak, Cardinality({u \in Threads : work'[u] # Free})})
        /\ UNCHANGED mail

\* The master switch, the budget, and the binding to use.
Admit(t, m) ==
    /\ work[t] = Free
    /\ mail[m] = "waiting"
    /\ \A u \in Threads : work[u] # Free => work[u].mail # m
    /\ \/ /\ enabled /\ WithinBudget(m)
          /\ LET w == WorkerOf[t]
                 c == IF cache[w] = NoCache THEN Current ELSE cache[w]
             IN cache' = [cache EXCEPT ![w] = c] /\ Pick(t, m, c)
       \/ /\ ~enabled \/ ~WithinBudget(m)
          /\ mail' = [mail EXCEPT ![m] = "skipped"] /\ UNCHANGED <<work, peak, cache>>
    /\ UNCHANGED <<tables, decisions, days, billed, lived, crashes>>

\* An answer without a suggestion, or without confidence (ai_apply_min_confidence)
\* in it, suggests nothing.
Replies(p) == [error : {FALSE}, cost : CostsOf[p], suggestion : Suggestions \cup {NoSuggestion}]
Failure == [error |-> TRUE, cost |-> 0, suggestion |-> NoSuggestion]

Replied(t, reply) ==
    work' = [work EXCEPT ![t] = [pc |-> "replied", mail |-> work[t].mail, reply |-> reply]]

Bill(t, reply) ==
    billed' = IF work[t].mail \in Classified
                THEN [billed EXCEPT ![today] = @ + reply.cost] ELSE billed

\* The first provider: an answer; an error, after which a classification may
\* fall back; or no client at all (not found, disabled), and then no fallback.
CallProvider(t) ==
    /\ work[t].pc = "calling"
    /\ \/ /\ providers[work[t].first] = "on"
          /\ \E reply \in Replies(work[t].first) : Replied(t, reply) /\ Bill(t, reply)
       \/ /\ providers[work[t].first] = "on"
          /\ IF work[t].mail \in Classified /\ work[t].fallback # NoProvider
               THEN work' = [work EXCEPT ![t].pc = "fallback"]
               ELSE Replied(t, Failure)
          /\ UNCHANGED billed
       \/ /\ providers[work[t].first] # "on"
          /\ Replied(t, Failure) /\ UNCHANGED billed
    /\ UNCHANGED <<tables, decisions, cache, mail, days, peak, lived, crashes>>

CallFallback(t) ==
    /\ work[t].pc = "fallback"
    /\ \/ /\ providers[work[t].fallback] = "on"
          /\ \E reply \in Replies(work[t].fallback) : Replied(t, reply) /\ Bill(t, reply)
       \/ Replied(t, Failure) /\ UNCHANGED billed
    /\ UNCHANGED <<tables, decisions, cache, mail, days, peak, lived, crashes>>

\* Mutant: shadow mode is not asked for once more.
MutApplies(m, reply) ==
    m \in Classified /\ ~reply.error /\ reply.suggestion # NoSuggestion

\* will_apply; a label is never applied.
Applies(m, reply) ==
    m \in Classified /\ ~shadow /\ ~reply.error /\ reply.suggestion # NoSuggestion

\* The mode and the threshold are read after the provider has answered, and
\* insert_ai_decision dates the row in UTC.
Record(t) ==
    /\ work[t].pc = "replied"
    /\ LET m == work[t].mail
           reply == work[t].reply
           decision == [mail |-> m, cost |-> reply.cost, error |-> reply.error, day |-> utc,
                        suggestion |-> reply.suggestion, applied |-> Applies(m, reply)]
       IN /\ decisions' = decisions \cup {decision}
          /\ Answer(t, Acted(m, decision))
    /\ UNCHANGED <<tables, cache, days, history>>

\* The process of a thread dies (gunicorn's timeout, a restart), or its insert
\* fails: the listener hears nothing, or an error.
Die(t) ==
    /\ crashes < MaxCrashes /\ crashes' = crashes + 1
    /\ work[t] # Free
    /\ Answer(t, Unanswered(work[t].mail))
    /\ UNCHANGED <<tables, decisions, cache, days, billed, peak, lived>>

-----------------------------------------------------------------------------
(* Operators.                                                              *)

Change == changes < MaxChanges /\ changes' = changes + 1
requests == <<decisions, cache, work, mail, days, history>>

\* The settings page.
SetEnabled ==
    /\ Change /\ enabled' = ~enabled
    /\ UNCHANGED <<shadow, bindings, providers, audit, saving, console, saver, requests>>

\* provider_form: the router is not told.
SaveProvider(p, state) ==
    /\ Change /\ providers[p] # state
    /\ providers' = [providers EXCEPT ![p] = state]
    /\ UNCHANGED <<enabled, shadow, bindings, audit, saving, console, saver, requests>>

\* provider_delete: the foreign keys of the bindings forbid it for one in use.
DeleteProvider(p) ==
    /\ Change /\ providers[p] # "absent"
    /\ \A i \in Ids : bindings[i].id # 0 => p \notin {bindings[i].provider, bindings[i].fallback}
    /\ providers' = [providers EXCEPT ![p] = "absent"]
    /\ UNCHANGED <<enabled, shadow, bindings, audit, saving, console, saver, requests>>

Binding(i, form, version) ==
    [id |-> i, job |-> form.job, provider |-> form.provider, fallback |-> form.fallback,
     enabled |-> form.enabled, version |-> version]
Versions(job) == {bindings[i].version : i \in {i \in Ids : bindings[i].id # 0
                                                /\ bindings[i].job = job}}

\* The foreign keys.
Saved(w, form) ==
    /\ {form.provider, form.fallback} \subseteq Known \cup {NoProvider}
    /\ Change /\ ~saving[w]
    /\ saving' = [saving EXCEPT ![w] = TRUE]
    /\ saver' = w
    /\ UNCHANGED <<enabled, shadow, providers, audit, console, requests>>

\* upsert_ai_job_binding on the row itself.
UpdateBinding(w, i, form) ==
    /\ Saved(w, form)
    /\ bindings[i].id # 0
    /\ bindings[i].job # form.job => bindings[i].version \notin Versions(form.job)
    /\ bindings' = [bindings EXCEPT ![i] = Binding(i, form, @.version)]

\* A new row, that may take the place of every other of its job.
InsertBinding(w, i, form, replaces) ==
    /\ Saved(w, form)
    /\ bindings[i].id = 0 /\ \A k \in Ids : bindings[k].id = 0 => i =< k
    /\ bindings' = [k \in Ids |->
          CASE k = i -> Binding(i, form, Max({0} \cup Versions(form.job)) + 1)
            [] k # i /\ replaces /\ bindings[k].id # 0 -> 
                 IF bindings[k].job = form.job THEN [bindings[k] EXCEPT !.enabled = FALSE]
                                               ELSE bindings[k]
            [] OTHER -> bindings[k]]

\* model_form drops the router's cache after the write, in its own process.
Invalidate(w) ==
    /\ saving[w]
    /\ saving' = [saving EXCEPT ![w] = FALSE]
    /\ cache' = [cache EXCEPT ![w] = NoCache]
    /\ UNCHANGED <<enabled, shadow, bindings, providers, audit, console, saver, changes,
                   decisions, work, mail, days, history>>

\* shadow_mode_switch: it reads the mode and counts decisions of any kind,
Consider(o, target) ==
    /\ Change /\ console[o] = Free
    /\ target = "live" => shadow /\ Cardinality(decisions) >= MinObserved
    /\ target = "shadow" => ~shadow
    /\ console' = [console EXCEPT ![o] = [pc |-> "write", target |-> target]]
    /\ UNCHANGED <<enabled, shadow, bindings, providers, audit, saving, saver, requests>>

\* then writes the setting,
Switch(o) ==
    /\ console[o].pc = "write"
    /\ shadow' = (console[o].target = "shadow")
    /\ console' = [console EXCEPT ![o].pc = "audit"]
    /\ lived' = IF shadow' THEN lived ELSE lived \cup {m \in Mails : mail[m] = "waiting"}
    /\ UNCHANGED <<enabled, bindings, providers, audit, saving, saver, changes,
                   decisions, cache, work, mail, days, billed, peak, crashes>>

\* and records that it did.
AuditSwitch(o) ==
    /\ console[o].pc = "audit"
    /\ audit' = Append(audit, console[o].target)
    /\ console' = [console EXCEPT ![o] = Free]
    /\ UNCHANGED <<enabled, shadow, bindings, providers, saving, saver, changes, requests>>

-----------------------------------------------------------------------------
(* The clocks.                                                             *)

Midnight ==
    /\ IF utc < today
         THEN utc' = utc + 1 /\ UNCHANGED today
         ELSE /\ today < MaxDays /\ today' = today + 1
              /\ utc' = IF UtcLag THEN utc ELSE today'
    /\ UNCHANGED <<tables, decisions, cache, work, mail, history>>

-----------------------------------------------------------------------------

Request(t) ==
    \/ \E m \in Mails : Admit(t, m)
    \/ CallProvider(t) \/ CallFallback(t)
    \/ Record(t) \/ Die(t)

Operator ==
    \/ SetEnabled
    \/ \E p \in Providers : DeleteProvider(p) \/ \E s \in {"on", "off"} : SaveProvider(p, s)
    \/ \E w \in Workers :
        \/ Invalidate(w)
        \/ \E i \in Ids, form \in Forms :
            UpdateBinding(w, i, form) \/ \E r \in BOOLEAN : InsertBinding(w, i, form, r)
    \/ \E o \in Operators :
        Switch(o) \/ AuditSwitch(o) \/ \E target \in {"live", "shadow"} : Consider(o, target)

AssistantNext ==
    \/ \E m \in Mails : Post(m) \/ GiveUp(m)
    \/ \E t \in Threads : Request(t)
    \/ Operator
    \/ Midnight

AssistantSpec == AssistantInit /\ [][AssistantNext]_assistantVars

-----------------------------------------------------------------------------
(* Types.                                                                  *)

Targets == Providers \cup {NoProvider}
RowOf(i) == [id : {i}, job : Jobs, provider : Providers, fallback : Targets,
             enabled : BOOLEAN, version : Nat]
Bindings == UNION {RowOf(i) : i \in Ids}
Answers == [error : BOOLEAN, cost : 0..MaxCost, suggestion : Suggestions \cup {NoSuggestion}]
Works ==
    {Free}
    \cup [pc : {"calling"}, mail : Mails, first : Providers, fallback : Targets]
    \cup [pc : {"fallback"}, mail : Classified, first : Providers, fallback : Providers]
    \cup [pc : {"replied"}, mail : Mails, reply : Answers]
DecisionRows == [mail : Mails, cost : 0..MaxCost, error : BOOLEAN, day : 1..MaxDays,
              suggestion : Suggestions \cup {NoSuggestion}, applied : BOOLEAN]
Outcomes == {"failsafe", "unlabelled", "labelled", "observed", "skipped"} \cup ByAI

AssistantTypeOK ==
    /\ enabled \in BOOLEAN /\ shadow \in BOOLEAN
    /\ bindings \in [Ids -> Bindings \cup {NoRow}]
    /\ \A i \in Ids : bindings[i] \in RowOf(i) \cup {NoRow}
    /\ providers \in [Providers -> {"absent", "on", "off"}]
    /\ audit \in Seq({"live", "shadow"})
    /\ saving \in [Workers -> BOOLEAN]
    /\ console \in [Operators -> {Free} \cup [pc : {"write", "audit"}, target : {"live", "shadow"}]]
    /\ saver \in Workers \cup {"nobody"} /\ changes \in Nat
    /\ decisions \in SUBSET DecisionRows /\ IsFiniteSet(decisions)
    /\ cache \in [Workers -> {NoCache} \cup [rows : SUBSET Bindings, known : SUBSET Providers]]
    /\ work \in [Threads -> Works]
    /\ mail \in [Mails -> {"new", "waiting"} \cup Outcomes]
    /\ today \in 1..MaxDays /\ utc \in 1..MaxDays
    /\ billed \in [1..MaxDays -> Nat]
    /\ peak \in Nat /\ lived \in SUBSET Mails /\ crashes \in Nat

-----------------------------------------------------------------------------
(* Properties.                                                             *)

(* What classification costs in a day exceeds the budget by no more than   *)
(* the calls that ran at once when it was used up, and those whose cost    *)
(* died with their process (_budget_remaining reads what was recorded).    *)
BilledBounded ==
    \A d \in 1..MaxDays :
        billed[d] > 0 /\ Budget > 0 =>
            billed[d] =< Budget - 1 + (peak + crashes) * MaxCost

(* The worker that saved the last binding, once its page has answered,     *)
(* routes by the table as it is (invalidate_cache after the write).        *)
OwnSavesSeen ==
    \A w \in Workers :
        saver = w /\ ~saving[w] /\ cache[w] # NoCache => cache[w].rows = Current.rows

(* The listener acts on an answer only if it was recorded as applied, from *)
(* a model that answered with confidence, and if the assistant was live at *)
(* some moment while the mail waited, whatever operators switched when.    *)
ActsOnlyIfLive ==
    \A m \in Mails : mail[m] \in ByAI =>
        /\ m \in lived
        /\ \E d \in decisions : d.mail = m /\ d.applied /\ ~d.error

(* What the code does not keep.                                            *)

(* taxonomy.py:130: switch and budget are those of classify_email.         *)
BudgetStopsEveryJob ==
    [][\A t \in Threads : work[t] = Free /\ work'[t] # Free => SpentToday < Budget]_assistantVars

(* The description of ai_daily_budget_usd (migration 012): the fail-safe   *)
(* path is active when the budget is used up.                              *)
ExhaustedFailsSafe ==
    [][\A m \in Classified : mail[m] = "waiting" /\ enabled /\ SpentToday >= Budget
                               => mail'[m] # "skipped"]_assistantVars

(* router.py: the cache is dropped when the administration interface       *)
(* writes: no worker routes by bindings older than the last finished save. *)
SavesSeen ==
    (\A w \in Workers : ~saving[w]) =>
        \A w \in Workers : cache[w] # NoCache => cache[w].rows = Current.rows

(* ai_decisions.applied: the decision was acted on.                        *)
AppliedIsActed ==
    \A m \in Mails : mail[m] \in {"failsafe", "skipped"} =>
        \A d \in decisions : d.mail = m => ~d.applied

(* shadow_mode_switch: decisions observed in shadow mode come first.       *)
LiveWasObserved ==
    ~shadow => Cardinality({d \in decisions : ~d.applied /\ ~d.error
                              /\ d.mail \in Classified}) >= MinObserved

(* ai_shadow_audit: every switch is there, so that two never repeat.       *)
AuditAlternates ==
    \A i \in 1..Len(audit) : i < Len(audit) => audit[i] # audit[i + 1]
=============================================================================
