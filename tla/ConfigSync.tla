----------------------------- MODULE ConfigSync -----------------------------
(***************************************************************************)
(* How the configuration kept by the admin reaches the listener: the       *)
(* tables an operator edits, the endpoint that serves each, the cycle that *)
(* fetches them one after another, the caches it replaces and the lookups  *)
(* the listener answers from them.                                         *)
(*                                                                         *)
(* The scheduler's loops are cooperative and a cycle has no await: nothing *)
(* of the scheduler comes between two sections, while operators edit and   *)
(* the listener, another process, reads.  A fetch and the replacement that *)
(* follows are one step: an edit in between is an edit just after.  The    *)
(* content of the rules is RuleSync's, the counters of the aggregations    *)
(* are Aggregation's.  The sections in "studied" have rows to edit; the    *)
(* others are empty, and their sections of the cycle change nothing.       *)
(***************************************************************************)
EXTENDS Naturals, Sequences, FiniteSets

CONSTANTS
    Studies,      \* sets of sections whose tables are looked at together
    Rows,         \* per section, the rows that an operator may save
    YamlRoutes,   \* the routes of the YAML files, as cached
    NoCod,        \* no customer
    DomainOf,     \* the domain of each mail address
    Clients,      \* addresses of the hosts that deliver mail
    ListenerTenant, \* the tenant that the endpoints fall back on
    Ttl,          \* cache_grace_ttl_sec, in ticks
    MaxEdits,     \* edits of the operators (bound)
    MaxFaults     \* endpoints that stop answering well (bound)

Order == <<"customers", "rule_sets", "rules", "routes", "settings", "domain_routing",
           "customer_groups", "templates", "aggregations", "privacy_bypass",
           "relay_acl", "h24_targets", "recipient_groups", "domain_strategies">>
Sections == {Order[i] : i \in 1..Len(Order)}
Critical == {"customers", "rules"}

ASSUME ConfigSyncAssumption ==
    /\ \A S \in Studies : S \subseteq Sections
    /\ Ttl \in Nat /\ MaxEdits \in Nat /\ MaxFaults \in Nat

(* Forms of rows that the admin's pages leave no other value for.          *)
ASSUME RowsAssumption ==
    /\ \A r \in Rows["customers"] : r.id \in Nat \ {NoCod} /\ r.active \in BOOLEAN
    /\ \A r \in Rows["privacy_bypass"] : r.scope \in {"from", "to", "both"}

VARIABLES
    studied,     \* the sections looked at
    db,          \* the admin: per section, its table
    cache,       \* the listener: per section, its cache
    snap,        \* history: the table the cache was last made of
    answers,     \* how each endpoint answers: "ok", "missing" (404), "down"
    todo,        \* sections that the running cycle has yet to do; <<>> between cycles
    good,        \* critical sections that went well in the running cycle
    age,         \* ticks since sync_last_ok, Ttl + 1 for more
    known,       \* sync_last_ok was ever set
    stale,       \* the flag cache_stale
    edits, faults

admin == <<db, answers, edits, faults>>
vars == <<studied, db, cache, snap, answers, todo, good, age, known, stale, edits, faults>>

Mails == DOMAIN DomainOf
Domains == {DomainOf[m] : m \in Mails}

-----------------------------------------------------------------------------
(* The tables.  An upsert replaces the row of the same id, and fails when  *)
(* another row has the same key.                                           *)

Upsert(t, row, Key(_)) ==
    LET others == {r \in t : r.id # row.id} IN
    IF \E r \in others : Key(r) = Key(row) THEN t ELSE others \cup {row}

SaveById(t, row) == Upsert(t, row, LAMBDA r : r.id)

\* The local part is kept as typed: "capital" tells Info from info.
SaveRoute(t, row) == Upsert(t, row, LAMBDA r : <<r.local, r.capital, r.domain>>)
\* A domain needs no smarthost.
SaveDomain(t, row) == Upsert(t, row, LAMBDA r : <<r.tenant, r.domain>>)
SaveGroup(t, row) == Upsert(t, row, LAMBDA r : <<r.tenant, r.code>>)
SaveTemplate(t, row) == Upsert(t, row, LAMBDA r : <<r.tenant, r.name>>)
SaveAggregation(t, row) == Upsert(t, row, LAMBDA r : <<r.tenant, r.name>>)
SaveBypass(t, row) == Upsert(t, row, LAMBDA r : <<r.tenant, r.value, r.scope>>)
SaveClient(t, row) == Upsert(t, row, LAMBDA r : <<r.tenant, r.net>>)
\* An entry for one address carries that address's domain, and the table has one
\* entry per domain.
SaveTarget(t, row) == Upsert(t, row, LAMBDA r : <<r.tenant, r.domain>>)
SaveRecipients(t, row) == Upsert(t, row, LAMBDA r : <<r.tenant, r.code>>)
SaveStrategy(t, row) == Upsert(t, row, LAMBDA r : <<r.tenant, r.domain>>)
SaveRuleSet(t, row) == Upsert(t, row, LAMBDA r : <<r.tenant, r.code>>)

Saved(s, t, row) ==
    CASE s = "routes" -> SaveRoute(t, row)
      [] s = "domain_routing" -> SaveDomain(t, row)
      [] s = "customer_groups" -> SaveGroup(t, row)
      [] s = "templates" -> SaveTemplate(t, row)
      [] s = "aggregations" -> SaveAggregation(t, row)
      [] s = "privacy_bypass" -> SaveBypass(t, row)
      [] s = "relay_acl" -> SaveClient(t, row)
      [] s = "h24_targets" -> SaveTarget(t, row)
      [] s = "recipient_groups" -> SaveRecipients(t, row)
      [] s = "domain_strategies" -> SaveStrategy(t, row)
      [] s = "rule_sets" -> SaveRuleSet(t, row)
      [] OTHER -> SaveById(t, row)

-----------------------------------------------------------------------------
(* What the endpoints serve.                                               *)

Enabled(t) == {r \in t : r.enabled}
OfTenant(t) == {r \in t : r.tenant = ListenerTenant}

\* The profile goes inside the service hours.
ServedCustomers(t) ==
    {[codcli |-> r.id, domains |-> r.domains, active |-> r.active,
      hours |-> r.profile] : r \in t}
ServedRuleSets(t) == Enabled(OfTenant(t))
ServedRules(t) == Enabled(t)
ServedRoutes(t) == Enabled(t)
ServedSettings(t) == t
ServedDomains(t) == Enabled(t)
ServedGroups(t) == Enabled(OfTenant(t))
ServedTemplates(t) == Enabled(t)
ServedAggregations(t) == Enabled(t)
ServedBypass(t) ==
    {<<side, r.value>> : side \in {"from"}, r \in {r \in Enabled(t) : r.scope # "to"}}
    \cup {<<"to", r.value>> : r \in {r \in Enabled(t) : r.scope # "from"}}
\* Mutant: the entries of every tenant are served.
MutServedClients(t) == Enabled(t)

ServedClients(t) == Enabled(OfTenant(t))
ServedTargets(t) == Enabled(OfTenant(t))
ServedRecipients(t) == Enabled(OfTenant(t))
ServedStrategies(t) == {r \in OfTenant(t) : r.strategy # "auto"}

Served(s, t) ==
    CASE s = "customers" -> ServedCustomers(t)
      [] s = "rule_sets" -> ServedRuleSets(t)
      [] s = "rules" -> ServedRules(t)
      [] s = "routes" -> ServedRoutes(t)
      [] s = "settings" -> ServedSettings(t)
      [] s = "domain_routing" -> ServedDomains(t)
      [] s = "customer_groups" -> ServedGroups(t)
      [] s = "templates" -> ServedTemplates(t)
      [] s = "aggregations" -> ServedAggregations(t)
      [] s = "privacy_bypass" -> ServedBypass(t)
      [] s = "relay_acl" -> ServedClients(t)
      [] s = "h24_targets" -> ServedTargets(t)
      [] s = "recipient_groups" -> ServedRecipients(t)
      [] s = "domain_strategies" -> ServedStrategies(t)

-----------------------------------------------------------------------------
(* What a cache makes of the rows served, and the rows it refuses: then    *)
(* its transaction is rolled back, and the cycle ends there.               *)

\* tipologia_servizio is not among the fields served.
CachedCustomers(rows) ==
    {[codcli |-> r.codcli, domains |-> r.domains, active |-> r.active,
      tipologia |-> ""] : r \in rows}
\* The customer of a route is sent as codice_cliente and read as codcli.
CachedRoutes(rows) ==
    {[local |-> r.local, domain |-> r.domain, target |-> r.target, cod |-> NoCod] :
        r \in rows}
\* The others keep the columns that the lookups ask for.
CachedRuleSets(rows) == {[id |-> r.id, always |-> r.always, profile |-> r.profile] : r \in rows}
CachedSettings(rows) == {[id |-> r.id, value |-> r.value] : r \in rows}
CachedDomains(rows) == {[domain |-> r.domain, host |-> r.host, shadow |-> r.shadow] : r \in rows}
CachedGroups(rows) == UNION {{<<c, g.code>> : c \in g.members} : g \in rows}
CachedTemplates(rows) == {[id |-> r.id, name |-> r.name] : r \in rows}
CachedAggregations(rows) == {[id |-> r.id, name |-> r.name] : r \in rows}
CachedBypass(rows) == rows
CachedClients(rows) == {r.net : r \in rows}
CachedTargets(rows) == {[domain |-> r.domain, email |-> r.email, alias |-> r.alias] : r \in rows}
CachedRecipients(rows) == {[id |-> r.id, shadow |-> r.shadow, members |-> r.members] : r \in rows}
CachedStrategies(rows) ==
    {[domain |-> r.domain, strategy |-> r.strategy, primary |-> r.primary] : r \in rows}

Cached(s, rows) ==
    CASE s = "customers" -> CachedCustomers(rows)
      [] s = "rule_sets" -> CachedRuleSets(rows)
      [] s = "routes" -> CachedRoutes(rows)
      [] s = "settings" -> CachedSettings(rows)
      [] s = "domain_routing" -> CachedDomains(rows)
      [] s = "customer_groups" -> CachedGroups(rows)
      [] s = "templates" -> CachedTemplates(rows)
      [] s = "aggregations" -> CachedAggregations(rows)
      [] s = "privacy_bypass" -> CachedBypass(rows)
      [] s = "relay_acl" -> CachedClients(rows)
      [] s = "h24_targets" -> CachedTargets(rows)
      [] s = "recipient_groups" -> CachedRecipients(rows)
      [] s = "domain_strategies" -> CachedStrategies(rows)
      [] OTHER -> rows

RoutesRefused(rows) ==
    \E r, q \in rows : r # q /\ r.local = q.local /\ r.domain = q.domain
DomainsRefused(rows) ==
    \/ \E r, q \in rows : r # q /\ r.domain = q.domain
    \/ \E r \in rows : r.host = ""

Refused(s, rows) ==
    \/ s = "routes" /\ RoutesRefused(rows)
    \/ s = "domain_routing" /\ DomainsRefused(rows)

-----------------------------------------------------------------------------
(* The fetches: what the manager client makes of an answer.                *)

Empty == [ok |-> TRUE, table |-> {}]
Failed == [ok |-> FALSE, table |-> {}]

FetchPlain(s) ==
    IF answers[s] = "ok" THEN [ok |-> TRUE, table |-> db[s]] ELSE Failed
\* An endpoint that an older admin lacks has no rows.
FetchTolerant(s) ==
    IF answers[s] = "missing" THEN Empty ELSE FetchPlain(s)
\* Neither has one that fails.
FetchLenient(s) ==
    IF answers[s] # "ok" THEN Empty ELSE FetchPlain(s)

Fetch(s) ==
    CASE s \in {"privacy_bypass", "customer_groups"} -> FetchTolerant(s)
      [] s \in {"relay_acl", "recipient_groups", "domain_strategies"} -> FetchLenient(s)
      [] OTHER -> FetchPlain(s)

-----------------------------------------------------------------------------
Init ==
    /\ studied \in Studies
    /\ db = [s \in Sections |-> {}]
    /\ cache = [s \in Sections |-> {}]
    /\ snap = [s \in Sections |-> {}]
    /\ answers = [s \in Sections |-> "ok"]
    /\ todo = <<>> /\ good = {}
    /\ age = 0 /\ known = FALSE /\ stale = FALSE
    /\ edits = 0 /\ faults = 0

listener == <<cache, snap, todo, good, age, known, stale>>

\* An operator saves a row; what the customer sources and the publication of the
\* rules write counts as an operator here.
Save(s, row) ==
    /\ edits < MaxEdits /\ edits' = edits + 1
    /\ db' = [db EXCEPT ![s] = Saved(s, @, row)]
    /\ db' # db
    /\ UNCHANGED <<studied, answers, faults, listener>>

Delete(s, row) ==
    /\ edits < MaxEdits /\ edits' = edits + 1
    /\ row \in db[s]
    /\ db' = [db EXCEPT ![s] = @ \ {row}]
    /\ UNCHANGED <<studied, answers, faults, listener>>

Looked == studied \cup Critical

\* The admin is down, or one endpoint fails or is missing.
Fail(how) ==
    /\ faults < MaxFaults /\ faults' = faults + 1
    /\ \E S \in {Looked} \cup {{s} : s \in Looked} :
        answers' = [s \in Sections |-> IF s \in S THEN how ELSE answers[s]]
    /\ answers' # answers
    /\ UNCHANGED <<studied, db, edits, listener>>

Recover ==
    /\ \E s \in Sections : answers[s] # "ok"
    /\ answers' = [s \in Sections |-> "ok"]
    /\ UNCHANGED <<studied, db, edits, faults, listener>>

-----------------------------------------------------------------------------
(* The cycle of sync_customers_and_rules.                                  *)

Begin ==
    /\ todo = <<>>
    /\ todo' = SelectSeq(Order, LAMBDA s : s \in Looked) \o <<"heartbeat">>
    /\ good' = {}
    /\ UNCHANGED <<studied, cache, snap, age, known, stale, admin>>

\* Mutant: an answer without rows leaves the cache as it is.
MutReplace(s, table) ==
    /\ IF Served(s, table) = {} THEN UNCHANGED <<cache, snap>>
       ELSE /\ cache' = [cache EXCEPT ![s] = Cached(s, Served(s, table))]
            /\ snap' = [snap EXCEPT ![s] = table]
    /\ good' = good \cup ({s} \cap Critical)
    /\ todo' = Tail(todo)

Replace(s, table) ==
    IF Refused(s, Served(s, table))
    THEN todo' = <<>> /\ UNCHANGED <<cache, snap, good>>
    ELSE /\ cache' = [cache EXCEPT ![s] = Cached(s, Served(s, table))]
         /\ snap' = [snap EXCEPT ![s] = table]
         /\ good' = good \cup ({s} \cap Critical)
         /\ todo' = Tail(todo)

SyncSection ==
    /\ todo # <<>> /\ Head(todo) # "heartbeat"
    /\ LET answer == Fetch(Head(todo)) IN
        IF answer.ok THEN Replace(Head(todo), answer.table)
        ELSE todo' = Tail(todo) /\ UNCHANGED <<cache, snap, good>>
    /\ UNCHANGED <<studied, age, known, stale, admin>>

\* Mutant: one critical section is enough.
MutHeard == good # {}

Heard == good = Critical

\* sync_last_ok, when both critical sections went well, and _check_cache_grace.
Finish ==
    /\ todo = <<"heartbeat">>
    /\ age' = IF Heard THEN 0 ELSE age
    /\ known' = (known \/ Heard)
    /\ stale' = IF known' THEN age' > Ttl ELSE stale
    /\ todo' = <<>> /\ good' = {}
    /\ UNCHANGED <<studied, cache, snap, admin>>

\* load_routes_from_yaml, every minute, when no cycle runs.
Reload ==
    /\ todo = <<>>
    /\ cache["routes"] = {} /\ YamlRoutes # {} /\ "routes" \in studied
    /\ cache' = [cache EXCEPT !["routes"] = YamlRoutes]
    /\ UNCHANGED <<studied, snap, todo, good, age, known, stale, admin>>

\* The scheduler dies and starts again.
Restart ==
    /\ todo # <<>>
    /\ faults < MaxFaults /\ faults' = faults + 1
    /\ todo' = <<>> /\ good' = {}
    /\ UNCHANGED <<studied, db, cache, snap, answers, age, known, stale, edits>>

Tick ==
    /\ known /\ age <= Ttl
    /\ age' = age + 1
    /\ UNCHANGED <<studied, cache, snap, todo, good, known, stale, admin>>

Sync == Begin \/ SyncSection \/ Finish

Next ==
    \/ \E s \in studied : \E row \in Rows[s] : Save(s, row) \/ Delete(s, row)
    \/ \E how \in {"missing", "down"} : Fail(how)
    \/ Recover \/ Sync \/ Reload \/ Restart \/ Tick

Spec == Init /\ [][Next]_vars

\* The loop of the scheduler goes on whatever a cycle raises, and time passes;
\* nothing forces the admin to recover.
FairSpec == Spec /\ WF_vars(Sync) /\ WF_vars(Tick)

-----------------------------------------------------------------------------
(* The lookups of the listener.                                            *)

Least(S) == CHOOSE r \in S : \A q \in S : r.codcli <= q.codcli

FindStrategy(d) == {r \in cache["domain_strategies"] : r.domain = d}

\* "best_active or best_inactive", the first of each in the order of the table.
BestOf(found) ==
    LET active == {r \in found : r.active} IN
    IF found = {} THEN NoCod
    ELSE IF active # {} THEN Least(active).codcli ELSE Least(found).codcli

FindCustomerByDomain(d) ==
    LET strategies == FindStrategy(d)
        forced == {r \in cache["customers"] : \E q \in strategies :
                       q.strategy = "primary" /\ q.primary = r.codcli}
    IN IF \E q \in strategies : q.strategy = "bypass" THEN NoCod
       ELSE IF forced # {} THEN Least(forced).codcli
       ELSE BestOf({r \in cache["customers"] : d \in r.domains})

FindRoute(local, d) == {r \in cache["routes"] : r.local = local /\ r.domain = d}
FindDomain(d) == {r \in cache["domain_routing"] : r.domain = d}
FindShadowDomain(d) == {r \in FindDomain(d) : r.shadow}
PickSmarthost(d) ==
    IF FindDomain(d) = {} THEN "default" ELSE (CHOOSE r \in FindDomain(d) : TRUE).host
GroupsOf(cod) == {g[2] : g \in {g \in cache["customer_groups"] : g[1] = cod}}
FindTemplate(id) == {r \in cache["templates"] : r.id = id}
IsBypassed(from, tos) ==
    \/ {<<"from", from>>, <<"from", DomainOf[from]>>} \cap cache["privacy_bypass"] # {}
    \/ \E m \in tos : {<<"to", m>>, <<"to", DomainOf[m]>>} \cap cache["privacy_bypass"] # {}
IsClientAllowed(ip) ==
    cache["relay_acl"] = {} \/ \E net \in cache["relay_acl"] : ip \in net
FindTarget(m) ==
    LET exact == {r \in cache["h24_targets"] : r.email = m} IN
    IF exact # {} THEN exact
    ELSE {r \in cache["h24_targets"] : r.email = "" /\ r.domain = DomainOf[m]}
FindShadowGroup(m) == {r \in cache["recipient_groups"] : r.shadow /\ m \in r.members}
GroupIdsByEmail(m) == {r.id : r \in {r \in cache["recipient_groups"] : m \in r.members}}
GroupsEmails(id) ==
    UNION {r.members : r \in {r \in cache["recipient_groups"] : r.id = id}}
IsPassthroughOnly ==
    \E r \in cache["settings"] : r.id = "relay_passthrough_only" /\ r.value = "true"
\* The sets that are always active, and one of the profile's: fetchone takes any
\* row, as the query does not order them.
OfProfile(t, profile) == {r \in t : ~r.always /\ profile # "" /\ r.profile = profile}
OneOf(S) == IF S = {} THEN {} ELSE {CHOOSE r \in S : TRUE}
FetchActiveRuleSetIds(profile) ==
    LET t == cache["rule_sets"] IN
    {r.id : r \in {r \in t : r.always} \cup OneOf(OfProfile(t, profile))}
\* The rules of a set are tried unless other sets are active.
IsTried(id, profile) ==
    LET ids == FetchActiveRuleSetIds(profile) IN ids = {} \/ id \in ids

-----------------------------------------------------------------------------
TypeOK ==
    /\ studied \in Studies
    /\ \A s \in Sections : db[s] \subseteq Rows[s] /\ snap[s] \subseteq Rows[s]
    /\ \A s \in Sections \ studied : db[s] = {}
    /\ answers \in [Sections -> {"ok", "missing", "down"}]
    /\ \A i \in 1..Len(todo) : todo[i] \in Looked \cup {"heartbeat"}
    /\ good \subseteq Critical
    /\ age \in 0..(Ttl + 1) /\ known \in BOOLEAN /\ stale \in BOOLEAN
    /\ edits \in 0..MaxEdits /\ faults \in 0..MaxFaults

\* What the admin's own tables say, for the questions the listener asks.
Ruling(s) == Enabled(OfTenant(snap[s]))

RoutesAgree ==
    Enabled(snap["routes"]) # {} =>
        \A q \in {<<r.local, r.domain>> : r \in Rows["routes"]} :
            {r.target : r \in FindRoute(q[1], q[2])} =
                {r.target : r \in {r \in Enabled(snap["routes"]) :
                                        r.local = q[1] /\ r.domain = q[2]}}
DomainsAgree ==
    \A d \in Domains :
        LET rows == {r \in Enabled(snap["domain_routing"]) : r.domain = d} IN
        /\ rows = {} => PickSmarthost(d) = "default"
        /\ \A r \in rows : PickSmarthost(d) = r.host
        /\ (FindShadowDomain(d) # {}) = (\E r \in rows : r.shadow)
GroupsAgree ==
    \A cod \in UNION {g.members : g \in Rows["customer_groups"]} :
        GroupsOf(cod) = {g.code : g \in {g \in Ruling("customer_groups") :
                                            cod \in g.members}}
BypassAgrees ==
    \A from \in Mails, to \in Mails :
        IsBypassed(from, {to}) =
            \E r \in Enabled(snap["privacy_bypass"]) :
                \/ r.scope \in {"from", "both"} /\ r.value \in {from, DomainOf[from]}
                \/ r.scope \in {"to", "both"} /\ r.value \in {to, DomainOf[to]}
ClientsAgree ==
    \A ip \in Clients :
        IsClientAllowed(ip) =
            (Ruling("relay_acl") # {} => \E r \in Ruling("relay_acl") : ip \in r.net)
TargetsAgree ==
    \A m \in Mails :
        LET exact == {r \in Ruling("h24_targets") : r.email = m} IN
        {r.alias : r \in FindTarget(m)} =
            {r.alias : r \in IF exact # {} THEN exact
                ELSE {r \in Ruling("h24_targets") : r.email = "" /\ r.domain = DomainOf[m]}}
RecipientsAgree ==
    \A m \in Mails :
        /\ (FindShadowGroup(m) # {}) =
                \E g \in Ruling("recipient_groups") : g.shadow /\ m \in g.members
        /\ \A g \in Ruling("recipient_groups") :
                (g.id \in GroupIdsByEmail(m)) = (m \in GroupsEmails(g.id))
CustomersAgree ==
    \A d \in Domains :
        LET named == {r \in snap["customers"] : d \in r.domains}
            rules == {r \in OfTenant(snap["domain_strategies"]) : r.domain = d}
            cod == FindCustomerByDomain(d)
        IN /\ (\E r \in rules : r.strategy = "bypass") => cod = NoCod
           /\ \A r \in rules :
                r.strategy = "primary" /\ (\E c \in snap["customers"] : c.id = r.primary)
                    => cod = r.primary
           /\ (\A r \in rules : r.strategy = "auto") =>
                /\ (cod = NoCod) = (named = {})
                /\ (\E c \in named : c.active) =>
                        \E c \in named : c.active /\ c.id = cod
TemplatesAgree ==
    \A id \in {r.id : r \in Rows["templates"]} :
        (FindTemplate(id) # {}) = (\E r \in Enabled(snap["templates"]) : r.id = id)
SettingsAgree ==
    IsPassthroughOnly = (\E r \in snap["settings"] :
                            r.id = "relay_passthrough_only" /\ r.value = "true")
SetsAgree ==
    \A profile \in {r.profile : r \in Rows["rule_sets"]} :
        LET rows == Ruling("rule_sets")
            own == OfProfile(rows, profile)
        IN \E one \in SUBSET own :
            /\ own # {} => one # {}
            /\ \A r, q \in one : r = q
            /\ FetchActiveRuleSetIds(profile) =
                    {r.id : r \in {r \in rows : r.always} \cup one}

\* What the listener answers from its caches is what the rows say that the admin
\* handed out when they were made: each answer rests on every row it should, and on
\* none that is disabled or another tenant's, through the form, the endpoint, the
\* client and the cache.  Of the sets of one profile it takes one.  A failed fetch
\* that counts as empty hands out no rows (OutageKeepsCaches is about it), and two
\* columns that no cache keeps are in no answer here (RouteKeepsCustomer,
\* ProfileSetsApply).
ListenerAgrees ==
    /\ RoutesAgree /\ DomainsAgree /\ GroupsAgree /\ BypassAgrees /\ ClientsAgree
    /\ TargetsAgree /\ RecipientsAgree /\ CustomersAgree /\ SetsAgree
    /\ TemplatesAgree /\ SettingsAgree

\* The first sections of the order up to s.
Before(s) == LET at(x) == CHOOSE i \in 1..Len(Order) : Order[i] = x IN
             {x \in Sections : at(x) <= at(s)}

Stuck(s) == \E x \in Before(s) : Refused(x, Served(x, db[x]))

\* Once operators leave the tables alone and the endpoints answer, every cache
\* holds its table, except from the section on whose rows a cache refuses.
Converges ==
    <>[](\A s \in Sections : answers[s] = "ok") =>
        <>[](\A s \in studied : Stuck(s) \/ snap[s] = db[s])

\* A manager that stays unable to serve the customers or the rules is reported as
\* a stale cache, provided that the cycles get to their end.
OutageIsFlagged ==
    <>[](/\ known
         /\ \E s \in Critical : answers[s] # "ok"
         /\ \A s \in studied : ~Refused(s, Served(s, db[s])))
        => <>[]stale

\* sync.py says that the cache stays valid when the manager cannot be reached: a
\* cache changes only when its endpoint answers (or the YAML routes fill it).
OutageKeepsCaches ==
    [][\A s \in Sections \ {"routes"} :
            cache'[s] # cache[s] => answers[s] = "ok"]_vars

\* api.py says that the listener takes the sets that are always active and the one
\* of the customer's profile.
ProfileSetsApply ==
    \A c \in cache["customers"], r \in cache["rule_sets"] :
        (\E t \in snap["customers"] : t.id = c.codcli /\ t.profile = r.profile) =>
            r.id \in FetchActiveRuleSetIds(c.tipologia)

\* The list of sets lets two of them have one profile: each then applies to it.
EverySetApplies ==
    \A r \in cache["rule_sets"] : r.profile # "" => IsTried(r.id, r.profile)

\* pipeline.py says that the filter by sets is off only when the cache has none.
SetsFilter ==
    \A r \in cache["rule_sets"], profile \in {t.profile : t \in Rows["rule_sets"]} :
        IsTried(r.id, profile) => r.always \/ r.profile = profile

\* Migration 024 says that it relaxes the key of the H24 targets, so that addresses
\* of one webmail domain can be mapped each.
WebmailTargetsSaved ==
    \A row \in Rows["h24_targets"] :
        row.email # "" /\ (\A t \in db["h24_targets"] : t.id # row.id /\ t.email # "")
            => row \in SaveTarget(db["h24_targets"], row)

\* A customer named by a route reaches the listener.
RouteKeepsCustomer ==
    \A r \in cache["routes"], t \in Enabled(snap["routes"]) :
        r.local = t.local /\ r.domain = t.domain => r.cod = t.cod

\* One section that cannot be stored does not keep the others from being so.
SectionsIndependent ==
    <>[](\A s \in Sections : answers[s] = "ok") =>
        <>[](\A s \in studied : Refused(s, Served(s, db[s])) \/ snap[s] = db[s])
=============================================================================
