---------------------------- MODULE ConfigProofs ----------------------------
(* Proofs about ConfigSync, for every value of its constants.              *)
EXTENDS ConfigSync, WellFoundedInduction, TLAPS

-----------------------------------------------------------------------------
(* The invariant: every cache is what its code makes of the table that was *)
(* served last, but for the routes of the files; no such table was refused,*)
(* and a domain has one strategy of a tenant.                              *)

Table(f) == f = [s \in Sections |-> f[s]]

OneStrategy(t) ==
  \A r, q \in t : r.tenant = q.tenant /\ r.domain = q.domain => r = q

TablesSound ==
  /\ studied \subseteq Sections /\ Table(db) /\ Table(snap) /\ Table(cache)
  /\ \A s \in Sections : db[s] \subseteq Rows[s] /\ snap[s] \subseteq Rows[s]
  /\ OneStrategy(db["domain_strategies"]) /\ OneStrategy(snap["domain_strategies"])

CachesSound ==
  /\ \A s \in Sections \ {"routes"} : cache[s] = Cached(s, Served(s, snap[s]))
  /\ \/ cache["routes"] = Cached("routes", Served("routes", snap["routes"]))
     \/ Enabled(snap["routes"]) = {}
  /\ ~DomainsRefused(ServedDomains(snap["domain_routing"]))

ConfigInv == TablesSound /\ CachesSound

-----------------------------------------------------------------------------
(* The tables.                                                             *)

LEMMA SectionsAre ==
  Sections = {"customers", "rule_sets", "rules", "routes", "settings", "domain_routing",
              "customer_groups", "templates", "aggregations", "privacy_bypass",
              "relay_acl", "h24_targets", "recipient_groups", "domain_strategies"}
<1>1. Len(Order) = 14
  BY DEF Order
<1>2. Sections = {Order[i] : i \in 1..14}
  BY <1>1 DEF Sections
<1>3. 1..14 = {1, 2, 3, 4, 5, 6, 7, 8, 9, 10, 11, 12, 13, 14}
  OBVIOUS
<1> QED BY <1>2, <1>3 DEF Order

(* What a page saves is a row more at the most.                            *)
LEMMA SavedRows ==
  ASSUME NEW s, NEW t, NEW row
  PROVE  Saved(s, t, row) \subseteq t \cup {row}
<1>1. SaveById(t, row) \subseteq t \cup {row}
  BY DEF SaveById, Upsert
<1>2. SaveRoute(t, row) \subseteq t \cup {row}
  BY DEF SaveRoute, Upsert
<1>3. SaveDomain(t, row) \subseteq t \cup {row}
  BY DEF SaveDomain, Upsert
<1>4. SaveGroup(t, row) \subseteq t \cup {row}
  BY DEF SaveGroup, Upsert
<1>5. SaveTemplate(t, row) \subseteq t \cup {row}
  BY DEF SaveTemplate, Upsert
<1>6. SaveAggregation(t, row) \subseteq t \cup {row}
  BY DEF SaveAggregation, Upsert
<1>7. SaveBypass(t, row) \subseteq t \cup {row}
  BY DEF SaveBypass, Upsert
<1>8. SaveClient(t, row) \subseteq t \cup {row}
  BY DEF SaveClient, Upsert
<1>9. SaveTarget(t, row) \subseteq t \cup {row}
  BY DEF SaveTarget, Upsert
<1>10. SaveRecipients(t, row) \subseteq t \cup {row}
  BY DEF SaveRecipients, Upsert
<1>11. SaveStrategy(t, row) \subseteq t \cup {row}
  BY DEF SaveStrategy, Upsert
<1>12. SaveRuleSet(t, row) \subseteq t \cup {row}
  BY DEF SaveRuleSet, Upsert
<1> QED BY <1>1, <1>2, <1>3, <1>4, <1>5, <1>6, <1>7, <1>8, <1>9, <1>10, <1>11, <1>12 DEF Saved

(* The key of the strategies keeps one for each domain of a tenant.        *)
LEMMA SavedStrategy ==
  ASSUME NEW t, OneStrategy(t), NEW row
  PROVE  OneStrategy(Saved("domain_strategies", t, row))
<1>1. Saved("domain_strategies", t, row) = SaveStrategy(t, row)
  BY DEF Saved
<1>2. SaveStrategy(t, row) =
        LET others == {r \in t : r.id # row.id} IN
        IF \E r \in others : <<r.tenant, r.domain>> = <<row.tenant, row.domain>>
        THEN t ELSE others \cup {row}
  BY DEF SaveStrategy, Upsert
<1> QED BY <1>1, <1>2 DEF OneStrategy

-----------------------------------------------------------------------------
(* What a cache makes of a table.                                          *)

LEMMA CachedServed ==
  ASSUME NEW t
  PROVE  /\ Cached("customers", Served("customers", t)) = CachedCustomers(ServedCustomers(t))
         /\ Cached("rule_sets", Served("rule_sets", t)) = CachedRuleSets(ServedRuleSets(t))
         /\ Cached("routes", Served("routes", t)) = CachedRoutes(ServedRoutes(t))
         /\ Cached("settings", Served("settings", t)) = CachedSettings(ServedSettings(t))
         /\ Cached("domain_routing", Served("domain_routing", t)) = CachedDomains(ServedDomains(t))
         /\ Cached("customer_groups", Served("customer_groups", t)) = CachedGroups(ServedGroups(t))
         /\ Cached("templates", Served("templates", t)) = CachedTemplates(ServedTemplates(t))
         /\ Cached("privacy_bypass", Served("privacy_bypass", t)) = CachedBypass(ServedBypass(t))
         /\ Cached("relay_acl", Served("relay_acl", t)) = CachedClients(ServedClients(t))
         /\ Cached("h24_targets", Served("h24_targets", t)) = CachedTargets(ServedTargets(t))
         /\ Cached("recipient_groups", Served("recipient_groups", t)) = CachedRecipients(ServedRecipients(t))
         /\ Cached("domain_strategies", Served("domain_strategies", t)) = CachedStrategies(ServedStrategies(t))
         /\ Served("domain_routing", t) = ServedDomains(t)
<1>1. /\ Served("customers", t) = ServedCustomers(t)
      /\ Served("rule_sets", t) = ServedRuleSets(t)
      /\ Served("routes", t) = ServedRoutes(t)
      /\ Served("settings", t) = ServedSettings(t)
      /\ Served("domain_routing", t) = ServedDomains(t)
      /\ Served("customer_groups", t) = ServedGroups(t)
      /\ Served("templates", t) = ServedTemplates(t)
      /\ Served("privacy_bypass", t) = ServedBypass(t)
      /\ Served("relay_acl", t) = ServedClients(t)
      /\ Served("h24_targets", t) = ServedTargets(t)
      /\ Served("recipient_groups", t) = ServedRecipients(t)
      /\ Served("domain_strategies", t) = ServedStrategies(t)
  BY DEF Served
<1>2. \A rows :
      /\ Cached("customers", rows) = CachedCustomers(rows)
      /\ Cached("rule_sets", rows) = CachedRuleSets(rows)
      /\ Cached("routes", rows) = CachedRoutes(rows)
      /\ Cached("settings", rows) = CachedSettings(rows)
      /\ Cached("domain_routing", rows) = CachedDomains(rows)
      /\ Cached("customer_groups", rows) = CachedGroups(rows)
      /\ Cached("templates", rows) = CachedTemplates(rows)
      /\ Cached("privacy_bypass", rows) = CachedBypass(rows)
      /\ Cached("relay_acl", rows) = CachedClients(rows)
      /\ Cached("h24_targets", rows) = CachedTargets(rows)
      /\ Cached("recipient_groups", rows) = CachedRecipients(rows)
      /\ Cached("domain_strategies", rows) = CachedStrategies(rows)
  BY DEF Cached
<1> QED BY <1>1, <1>2

-----------------------------------------------------------------------------
(* Every lookup answers what the table said.                               *)

LEMMA RoutesHold ==
  ASSUME cache["routes"] = CachedRoutes(ServedRoutes(snap["routes"]))
         \/ Enabled(snap["routes"]) = {}
  PROVE  RoutesAgree
<1> DEFINE t == Enabled(snap["routes"])
<1> SUFFICES ASSUME t # {}, NEW l, NEW d
             PROVE  {r.target : r \in FindRoute(l, d)} =
                    {r.target : r \in {r \in t : r.local = l /\ r.domain = d}}
  BY DEF RoutesAgree
<1>1. cache["routes"] =
        {[local |-> r.local, domain |-> r.domain, target |-> r.target, cod |-> NoCod] : r \in t}
  BY DEF CachedRoutes, ServedRoutes
<1> HIDE DEF t
<1>2. \A r \in FindRoute(l, d) : \E q \in t : q.local = l /\ q.domain = d /\ q.target = r.target
  BY <1>1 DEF FindRoute
<1>3. \A q \in t : q.local = l /\ q.domain = d =>
        [local |-> q.local, domain |-> q.domain, target |-> q.target, cod |-> NoCod] \in FindRoute(l, d)
  BY <1>1 DEF FindRoute
<1>4. \A q \in t : q.local = l /\ q.domain = d => \E r \in FindRoute(l, d) : r.target = q.target
  BY <1>3
<1> QED BY <1>2, <1>4

LEMMA DomainsHold ==
  ASSUME cache["domain_routing"] = CachedDomains(ServedDomains(snap["domain_routing"])),
         ~DomainsRefused(ServedDomains(snap["domain_routing"]))
  PROVE  DomainsAgree
<1> DEFINE t == Enabled(snap["domain_routing"])
<1>1. cache["domain_routing"] = {[domain |-> r.domain, host |-> r.host, shadow |-> r.shadow] : r \in t}
  BY DEF CachedDomains, ServedDomains
<1>2. \A r, q \in t : r.domain = q.domain => r = q
  BY DEF DomainsRefused, ServedDomains
<1> HIDE DEF t
<1> SUFFICES ASSUME NEW d \in Domains
             PROVE  LET rows == {r \in t : r.domain = d} IN
                    /\ rows = {} => PickSmarthost(d) = "default"
                    /\ \A r \in rows : PickSmarthost(d) = r.host
                    /\ (FindShadowDomain(d) # {}) = (\E r \in rows : r.shadow)
  BY DEF DomainsAgree, t
<1>3. \A x \in FindDomain(d) : \E r \in t :
         r.domain = d /\ x = [domain |-> r.domain, host |-> r.host, shadow |-> r.shadow]
  BY <1>1 DEF FindDomain
<1>4. \A r \in t : r.domain = d =>
         [domain |-> r.domain, host |-> r.host, shadow |-> r.shadow] \in FindDomain(d)
  BY <1>1 DEF FindDomain
<1>5. {r \in t : r.domain = d} = {} => PickSmarthost(d) = "default"
  BY <1>3 DEF PickSmarthost
<1>6. ASSUME NEW r \in t, r.domain = d
      PROVE  PickSmarthost(d) = r.host
  <2> DEFINE x == [domain |-> r.domain, host |-> r.host, shadow |-> r.shadow]
  <2>1. x \in FindDomain(d) /\ \A y \in FindDomain(d) : y = x
    <3>1. \A y \in FindDomain(d) : y = x
      BY <1>2, <1>3, <1>6
    <3> QED BY <1>4, <1>6, <3>1
  <2>2. x.host = r.host
    OBVIOUS
  <2> HIDE DEF x
  <2>3. (CHOOSE y \in FindDomain(d) : TRUE) = x /\ FindDomain(d) # {}
    BY <2>1
  <2> QED BY <2>2, <2>3 DEF PickSmarthost
<1>7. (FindShadowDomain(d) # {}) <=> (\E r \in {r \in t : r.domain = d} : r.shadow)
  <2>1. ASSUME NEW x \in FindShadowDomain(d)
        PROVE  \E r \in {r \in t : r.domain = d} : r.shadow
    BY <1>3, <2>1 DEF FindShadowDomain
  <2>2. ASSUME NEW r \in t, r.domain = d, r.shadow
        PROVE  FindShadowDomain(d) # {}
    <3>1. [domain |-> r.domain, host |-> r.host, shadow |-> r.shadow] \in FindDomain(d)
      BY <1>4, <2>2
    <3> QED BY <2>2, <3>1 DEF FindShadowDomain
  <2> QED BY <2>1, <2>2
<1> QED BY <1>5, <1>6, <1>7

LEMMA GroupsHold ==
  ASSUME cache["customer_groups"] = CachedGroups(ServedGroups(snap["customer_groups"]))
  PROVE  GroupsAgree
<1> DEFINE t == Ruling("customer_groups")
<1> SUFFICES ASSUME NEW cod
             PROVE  GroupsOf(cod) = {g.code : g \in {g \in t : cod \in g.members}}
  BY DEF GroupsAgree
<1>1. cache["customer_groups"] = UNION {{<<c, g.code>> : c \in g.members} : g \in t}
  BY DEF CachedGroups, ServedGroups, Ruling
<1> HIDE DEF t
<1>2. \A x \in cache["customer_groups"] : \E g \in t : \E c \in g.members : x = <<c, g.code>>
  BY <1>1
<1>3. \A g \in t : \A c \in g.members : <<c, g.code>> \in cache["customer_groups"]
  BY <1>1
<1>4. \A v \in GroupsOf(cod) : \E g \in t : cod \in g.members /\ g.code = v
  BY <1>2 DEF GroupsOf
<1>5. ASSUME NEW g \in t, cod \in g.members
      PROVE  g.code \in GroupsOf(cod)
  <2>1. <<cod, g.code>> \in {x \in cache["customer_groups"] : x[1] = cod}
    BY <1>3, <1>5
  <2> QED BY <2>1 DEF GroupsOf
<1> QED BY <1>4, <1>5

LEMMA BypassHolds ==
  ASSUME cache["privacy_bypass"] = CachedBypass(ServedBypass(snap["privacy_bypass"])),
         snap["privacy_bypass"] \subseteq Rows["privacy_bypass"]
  PROVE  BypassAgrees
<1> DEFINE t == Enabled(snap["privacy_bypass"])
<1>1. \A r \in t : r.scope \in {"from", "to", "both"}
  BY RowsAssumption DEF Enabled
<1>2. cache["privacy_bypass"] = ServedBypass(snap["privacy_bypass"])
  BY DEF CachedBypass
<1> HIDE DEF t
<1>3. \A v : <<"from", v>> \in cache["privacy_bypass"] <=> \E r \in t : r.scope # "to" /\ r.value = v
  BY <1>2 DEF ServedBypass, t
<1>4. \A v : <<"to", v>> \in cache["privacy_bypass"] <=> \E r \in t : r.scope # "from" /\ r.value = v
  BY <1>2 DEF ServedBypass, t
<1>5. \A v : <<"from", v>> \in cache["privacy_bypass"]
             <=> \E r \in t : r.scope \in {"from", "both"} /\ r.value = v
  BY <1>1, <1>3
<1>6. \A v : <<"to", v>> \in cache["privacy_bypass"]
             <=> \E r \in t : r.scope \in {"to", "both"} /\ r.value = v
  BY <1>1, <1>4
<1> SUFFICES ASSUME NEW from \in Mails, NEW to \in Mails
             PROVE  IsBypassed(from, {to}) <=>
                    \E r \in t : \/ r.scope \in {"from", "both"} /\ r.value \in {from, DomainOf[from]}
                                 \/ r.scope \in {"to", "both"} /\ r.value \in {to, DomainOf[to]}
  BY DEF BypassAgrees, IsBypassed, t
<1>7. IsBypassed(from, {to}) <=>
        \/ <<"from", from>> \in cache["privacy_bypass"]
        \/ <<"from", DomainOf[from]>> \in cache["privacy_bypass"]
        \/ <<"to", to>> \in cache["privacy_bypass"]
        \/ <<"to", DomainOf[to]>> \in cache["privacy_bypass"]
  BY DEF IsBypassed
<1> QED BY <1>5, <1>6, <1>7

LEMMA ClientsHold ==
  ASSUME cache["relay_acl"] = CachedClients(ServedClients(snap["relay_acl"]))
  PROVE  ClientsAgree
BY DEF ClientsAgree, IsClientAllowed, CachedClients, ServedClients, Ruling

LEMMA TargetsHold ==
  ASSUME cache["h24_targets"] = CachedTargets(ServedTargets(snap["h24_targets"]))
  PROVE  TargetsAgree
<1> DEFINE t == Ruling("h24_targets")
<1>1. cache["h24_targets"] = {[domain |-> r.domain, email |-> r.email, alias |-> r.alias] : r \in t}
  BY DEF CachedTargets, ServedTargets, Ruling
<1> HIDE DEF t
<1> SUFFICES ASSUME NEW m \in Mails
             PROVE  LET exact == {r \in t : r.email = m} IN
                    {r.alias : r \in FindTarget(m)} =
                    {r.alias : r \in IF exact # {} THEN exact
                        ELSE {r \in t : r.email = "" /\ r.domain = DomainOf[m]}}
  BY DEF TargetsAgree, t
<1>2. \A x \in cache["h24_targets"] : \E r \in t :
         x.domain = r.domain /\ x.email = r.email /\ x.alias = r.alias
  BY <1>1
<1>3. \A r \in t : \E x \in cache["h24_targets"] :
         x.domain = r.domain /\ x.email = r.email /\ x.alias = r.alias
  <2> SUFFICES ASSUME NEW r \in t
               PROVE  \E x \in cache["h24_targets"] :
                         x.domain = r.domain /\ x.email = r.email /\ x.alias = r.alias
    OBVIOUS
  <2>1. [domain |-> r.domain, email |-> r.email, alias |-> r.alias] \in cache["h24_targets"]
    BY <1>1
  <2> QED BY <2>1
<1>4. CASE \E r \in t : r.email = m
  <2>1. \E x \in cache["h24_targets"] : x.email = m
    BY <1>3, <1>4
  <2>2. FindTarget(m) = {x \in cache["h24_targets"] : x.email = m}
    BY <2>1 DEF FindTarget
  <2>3. \A x \in FindTarget(m) : \E r \in t : r.email = m /\ r.alias = x.alias
    BY <1>2, <2>2
  <2>4. \A r \in t : r.email = m => \E x \in FindTarget(m) : r.alias = x.alias
    BY <1>3, <2>2
  <2>5. {r \in t : r.email = m} # {}
    BY <1>4
  <2>6. {r.alias : r \in FindTarget(m)} = {r.alias : r \in {r \in t : r.email = m}}
    BY <2>3, <2>4
  <2> QED BY <2>5, <2>6
<1>5. CASE ~\E r \in t : r.email = m
  <2>1. ~\E x \in cache["h24_targets"] : x.email = m
    BY <1>2, <1>5
  <2>2. FindTarget(m) = {x \in cache["h24_targets"] : x.email = "" /\ x.domain = DomainOf[m]}
    BY <2>1 DEF FindTarget
  <2>3. \A x \in FindTarget(m) : \E r \in t :
           r.email = "" /\ r.domain = DomainOf[m] /\ r.alias = x.alias
    BY <1>2, <2>2
  <2>4. \A r \in t : r.email = "" /\ r.domain = DomainOf[m] =>
           \E x \in FindTarget(m) : r.alias = x.alias
    BY <1>3, <2>2
  <2>5. {r \in t : r.email = m} = {}
    BY <1>5
  <2> DEFINE found == {r \in t : r.email = "" /\ r.domain = DomainOf[m]}
  <2>6. /\ \A x \in FindTarget(m) : \E r \in found : r.alias = x.alias
        /\ \A r \in found : \E x \in FindTarget(m) : r.alias = x.alias
    BY <2>3, <2>4
  <2> HIDE DEF found
  <2>7. {r.alias : r \in FindTarget(m)} = {r.alias : r \in found}
    BY <2>6
  <2> USE DEF found
  <2> QED BY <2>5, <2>7
<1> QED BY <1>4, <1>5

LEMMA RecipientsHold ==
  ASSUME cache["recipient_groups"] = CachedRecipients(ServedRecipients(snap["recipient_groups"]))
  PROVE  RecipientsAgree
<1> DEFINE t == Ruling("recipient_groups")
<1>1. cache["recipient_groups"] = {[id |-> r.id, shadow |-> r.shadow, members |-> r.members] : r \in t}
  BY DEF CachedRecipients, ServedRecipients, Ruling
<1> HIDE DEF t
<1> SUFFICES ASSUME NEW m \in Mails
             PROVE  /\ (FindShadowGroup(m) # {}) = \E g \in t : g.shadow /\ m \in g.members
                    /\ \A g \in t : (g.id \in GroupIdsByEmail(m)) = (m \in GroupsEmails(g.id))
  BY ZenonT(30) DEF RecipientsAgree, t
<1>2. \A x \in cache["recipient_groups"] : \E r \in t :
         x = [id |-> r.id, shadow |-> r.shadow, members |-> r.members]
  BY <1>1
<1>3. \A r \in t : [id |-> r.id, shadow |-> r.shadow, members |-> r.members] \in cache["recipient_groups"]
  BY <1>1
<1>4. (FindShadowGroup(m) # {}) <=> \E g \in t : g.shadow /\ m \in g.members
  <2>1. ASSUME NEW x \in FindShadowGroup(m)
        PROVE  \E g \in t : g.shadow /\ m \in g.members
    BY <1>2, <2>1 DEF FindShadowGroup
  <2>2. ASSUME NEW g \in t, g.shadow, m \in g.members
        PROVE  FindShadowGroup(m) # {}
    <3>1. [id |-> g.id, shadow |-> g.shadow, members |-> g.members] \in cache["recipient_groups"]
      BY <1>3
    <3> QED BY <2>2, <3>1 DEF FindShadowGroup
  <2> QED BY <2>1, <2>2
<1>5. \A i : i \in GroupIdsByEmail(m) <=> \E r \in cache["recipient_groups"] : m \in r.members /\ r.id = i
  BY DEF GroupIdsByEmail
<1>6. \A i : m \in GroupsEmails(i) <=> \E r \in cache["recipient_groups"] : r.id = i /\ m \in r.members
  BY DEF GroupsEmails
<1>7. \A i : i \in GroupIdsByEmail(m) <=> m \in GroupsEmails(i)
  BY <1>5, <1>6
<1>8. (FindShadowGroup(m) # {}) = \E g \in t : g.shadow /\ m \in g.members
  BY <1>4
<1>9. \A g \in t : (g.id \in GroupIdsByEmail(m)) = (m \in GroupsEmails(g.id))
  <2> SUFFICES ASSUME NEW g \in t
               PROVE  (g.id \in GroupIdsByEmail(m)) = (m \in GroupsEmails(g.id))
    OBVIOUS
  <2>1. g.id \in GroupIdsByEmail(m) <=> m \in GroupsEmails(g.id)
    BY <1>7
  <2> QED BY <2>1
<1> QED BY <1>8, <1>9

LEMMA SetsHold ==
  ASSUME cache["rule_sets"] = CachedRuleSets(ServedRuleSets(snap["rule_sets"]))
  PROVE  SetsAgree
<1> DEFINE t == Ruling("rule_sets")
           C == cache["rule_sets"]
           rec(r) == [id |-> r.id, always |-> r.always, profile |-> r.profile]
<1>1. C = {rec(r) : r \in t}
  BY DEF CachedRuleSets, ServedRuleSets, Ruling
<1> HIDE DEF t, C
<1> SUFFICES ASSUME NEW profile
             PROVE  \E one \in SUBSET OfProfile(t, profile) :
                      /\ OfProfile(t, profile) # {} => one # {}
                      /\ \A r, q \in one : r = q
                      /\ FetchActiveRuleSetIds(profile) =
                             {r.id : r \in {r \in t : r.always} \cup one}
  BY Zenon DEF SetsAgree, t
<1> DEFINE own == OfProfile(t, profile)
           cached == OfProfile(C, profile)
           taken == OneOf(cached)
<1>2. \A x \in C : \E r \in t : x = rec(r)
  BY <1>1
<1>3. \A r \in t : rec(r) \in C
  BY <1>1
<1>4. FetchActiveRuleSetIds(profile) = {r.id : r \in {r \in C : r.always} \cup taken}
  BY DEF FetchActiveRuleSetIds, C
<1>5. \A r \in t : r \in own <=> rec(r) \in cached
  BY <1>3 DEF OfProfile
<1>6. \A x \in cached : \E r \in own : x = rec(r)
  BY <1>2, <1>5 DEF OfProfile
<1>7. own \subseteq t
  BY DEF OfProfile
<1>8. \E one \in SUBSET own :
         /\ own # {} => one # {}
         /\ \A r, q \in one : r = q
         /\ taken = {rec(r) : r \in one}
  <2>1. CASE cached = {}
    <3>1. taken = {}
      BY <2>1 DEF OneOf
    <3>2. own = {}
      BY <2>1, <1>5, <1>7
    <3> QED BY <3>1, <3>2
  <2>2. CASE cached # {}
    <3> DEFINE x == CHOOSE r \in cached : TRUE
    <3>1. taken = {x}
      BY <2>2 DEF OneOf
    <3>2. x \in cached
      BY <2>2
    <3> HIDE DEF x, taken
    <3>3. PICK r \in own : x = rec(r)
      BY <3>2, <1>6
    <3>4. taken = {rec(q) : q \in {r}}
      BY <3>1, <3>3
    <3> WITNESS {r} \in SUBSET own
    <3> QED BY <3>4
  <2> QED BY <2>1, <2>2
<1>9. PICK one \in SUBSET own :
         /\ own # {} => one # {}
         /\ \A r, q \in one : r = q
         /\ taken = {rec(r) : r \in one}
  BY <1>8
<1> HIDE DEF taken
<1>10. ASSUME NEW v \in FetchActiveRuleSetIds(profile)
       PROVE  v \in {r.id : r \in {r \in t : r.always} \cup one}
  <2>1. PICK x \in {r \in C : r.always} \cup taken : v = x.id
    BY <1>4
  <2>2. CASE x \in C /\ x.always
    <3>1. PICK r \in t : x = rec(r)
      BY <2>2, <1>2
    <3>2. v = r.id /\ r.always
      BY <2>1, <2>2, <3>1
    <3> QED BY <3>2
  <2>3. CASE x \in taken
    <3>1. PICK r \in one : x = rec(r)
      BY <2>3, <1>9
    <3> QED BY <2>1, <3>1
  <2> QED BY <2>2, <2>3
<1>11. ASSUME NEW r \in {r \in t : r.always} \cup one
       PROVE  r.id \in FetchActiveRuleSetIds(profile)
  <2>1. rec(r).id = r.id /\ rec(r).always = r.always
    OBVIOUS
  <2>2. CASE r \in t /\ r.always
    <3>1. rec(r) \in C /\ rec(r).always
      BY <2>1, <2>2, <1>3
    <3> QED BY <1>4, <2>1, <3>1
  <2>3. CASE r \in one
    <3>1. rec(r) \in taken
      BY <2>3, <1>9
    <3> QED BY <1>4, <2>1, <3>1
  <2> QED BY <2>2, <2>3
<1>12. FetchActiveRuleSetIds(profile) = {r.id : r \in {r \in t : r.always} \cup one}
  BY <1>10, <1>11
<1> QED BY <1>9, <1>12

LEMMA TemplatesHold ==
  ASSUME cache["templates"] = CachedTemplates(ServedTemplates(snap["templates"]))
  PROVE  TemplatesAgree
<1> DEFINE t == Enabled(snap["templates"])
<1>1. cache["templates"] = {[id |-> r.id, name |-> r.name] : r \in t}
  BY DEF CachedTemplates, ServedTemplates
<1> HIDE DEF t
<1> SUFFICES ASSUME NEW id
             PROVE  (FindTemplate(id) # {}) <=> \E r \in t : r.id = id
  BY DEF TemplatesAgree, t
<1>2. \A x \in FindTemplate(id) : \E r \in t : r.id = id
  BY <1>1 DEF FindTemplate
<1>3. ASSUME NEW r \in t, r.id = id
      PROVE  FindTemplate(id) # {}
  <2>1. [id |-> r.id, name |-> r.name] \in cache["templates"]
    BY <1>1
  <2> QED BY <1>3, <2>1 DEF FindTemplate
<1> QED BY <1>2, <1>3

LEMMA SettingsHold ==
  ASSUME cache["settings"] = CachedSettings(ServedSettings(snap["settings"]))
  PROVE  SettingsAgree
<1> DEFINE t == snap["settings"]
<1>1. cache["settings"] = {[id |-> r.id, value |-> r.value] : r \in t}
  BY DEF CachedSettings, ServedSettings
<1> HIDE DEF t
<1>2. \A x \in cache["settings"] : \E r \in t : x = [id |-> r.id, value |-> r.value]
  BY <1>1
<1>3. \A r \in t : [id |-> r.id, value |-> r.value] \in cache["settings"]
  BY <1>1
<1>4. \A r \in t : r.id = "relay_passthrough_only" /\ r.value = "true" => IsPassthroughOnly
  BY <1>3 DEF IsPassthroughOnly
<1>5. IsPassthroughOnly => \E r \in t : r.id = "relay_passthrough_only" /\ r.value = "true"
  BY <1>2 DEF IsPassthroughOnly
<1>6. IsPassthroughOnly \in BOOLEAN
  BY DEF IsPassthroughOnly
<1> QED BY <1>4, <1>5, <1>6 DEF SettingsAgree, t
-----------------------------------------------------------------------------
(* The customer of a domain.                                               *)

LEMMA LeastNatural ==
  ASSUME NEW T \in SUBSET Nat, T # {}
  PROVE  \E x \in T : \A y \in T : x <= y
<1> DEFINE R == {ss \in Nat \X Nat : ss[1] < ss[2]}
<1>1. IsWellFoundedOn(R, Nat)
  BY NatLessThanWellFounded DEF OpToRel
<1>2. PICK x \in T : \A y \in T : ~(<<y, x>> \in R)
  <2> HIDE DEF R
  <2> QED BY <1>1, WFMin
<1>3. \A y \in T : ~(y < x)
  BY <1>2
<1> QED BY <1>3

LEMMA LeastIn ==
  ASSUME NEW S, S # {}, \A r \in S : r.codcli \in Nat
  PROVE  Least(S) \in S
<1> DEFINE T == {r.codcli : r \in S}
<1>1. T \in SUBSET Nat /\ T # {}
  OBVIOUS
<1>2. PICK x \in T : \A y \in T : x <= y
  <2> HIDE DEF T
  <2> QED BY <1>1, LeastNatural
<1>3. PICK r \in S : r.codcli = x
  OBVIOUS
<1>4. \A q \in S : r.codcli <= q.codcli
  BY <1>2, <1>3
<1> QED BY <1>4 DEF Least

LEMMA CustomersHold ==
  ASSUME cache["customers"] = CachedCustomers(ServedCustomers(snap["customers"])),
         cache["domain_strategies"] = CachedStrategies(ServedStrategies(snap["domain_strategies"])),
         snap["customers"] \subseteq Rows["customers"], OneStrategy(snap["domain_strategies"])
  PROVE  CustomersAgree
<1> DEFINE cs == snap["customers"]
           ss == OfTenant(snap["domain_strategies"])
<1>1. cache["customers"] =
        {[codcli |-> r.codcli, domains |-> r.domains, active |-> r.active, tipologia |-> ""] :
            r \in {[codcli |-> r.id, domains |-> r.domains, active |-> r.active,
                    hours |-> r.profile] : r \in cs}}
  BY DEF CachedCustomers, ServedCustomers
<1>2. cache["domain_strategies"] =
        {[domain |-> r.domain, strategy |-> r.strategy, primary |-> r.primary] :
            r \in {r \in ss : r.strategy # "auto"}}
  BY DEF CachedStrategies, ServedStrategies
<1>3. \A r, q \in ss : r.domain = q.domain => r = q
  BY DEF OneStrategy, OfTenant
<1>4. \A c \in cs : c.id \in Nat \ {NoCod} /\ c.active \in BOOLEAN
  BY RowsAssumption
<1> HIDE DEF cs, ss
<1>5. \A x \in cache["customers"] : \E c \in cs :
         x.codcli = c.id /\ x.domains = c.domains /\ x.active = c.active
  <2> SUFFICES ASSUME NEW x \in cache["customers"]
               PROVE  \E c \in cs :
                         x.codcli = c.id /\ x.domains = c.domains /\ x.active = c.active
    OBVIOUS
  <2>1. PICK r \in {[codcli |-> r.id, domains |-> r.domains, active |-> r.active,
                     hours |-> r.profile] : r \in cs} :
           x = [codcli |-> r.codcli, domains |-> r.domains, active |-> r.active, tipologia |-> ""]
    BY <1>1
  <2>2. PICK c \in cs : r = [codcli |-> c.id, domains |-> c.domains, active |-> c.active,
                             hours |-> c.profile]
    BY <2>1
  <2>3. x.codcli = r.codcli /\ x.domains = r.domains /\ x.active = r.active
    BY <2>1
  <2>4. r.codcli = c.id /\ r.domains = c.domains /\ r.active = c.active
    BY <2>2
  <2> QED BY <2>3, <2>4
<1>6. \A c \in cs : \E x \in cache["customers"] :
         x.codcli = c.id /\ x.domains = c.domains /\ x.active = c.active
  <2> SUFFICES ASSUME NEW c \in cs
               PROVE  \E x \in cache["customers"] :
                         x.codcli = c.id /\ x.domains = c.domains /\ x.active = c.active
    OBVIOUS
  <2> DEFINE s == [codcli |-> c.id, domains |-> c.domains, active |-> c.active, hours |-> c.profile]
             x == [codcli |-> s.codcli, domains |-> s.domains, active |-> s.active, tipologia |-> ""]
  <2>1. x \in cache["customers"]
    BY <1>1
  <2>2. x.codcli = c.id /\ x.domains = c.domains /\ x.active = c.active
    OBVIOUS
  <2> QED BY <2>1, <2>2
<1>7. \A x \in cache["customers"] : x.codcli \in Nat \ {NoCod} /\ x.active \in BOOLEAN
  BY <1>4, <1>5
<1>8. \A q \in cache["domain_strategies"] : \E r \in ss :
         /\ r.strategy # "auto"
         /\ q.domain = r.domain /\ q.strategy = r.strategy /\ q.primary = r.primary
  BY <1>2
<1>9. \A r \in ss : r.strategy # "auto" => \E q \in cache["domain_strategies"] :
         q.domain = r.domain /\ q.strategy = r.strategy /\ q.primary = r.primary
  <2> SUFFICES ASSUME NEW r \in ss, r.strategy # "auto"
               PROVE  \E q \in cache["domain_strategies"] :
                         q.domain = r.domain /\ q.strategy = r.strategy /\ q.primary = r.primary
    OBVIOUS
  <2>1. [domain |-> r.domain, strategy |-> r.strategy, primary |-> r.primary]
            \in cache["domain_strategies"]
    BY <1>2
  <2> QED BY <2>1
<1> SUFFICES ASSUME NEW d \in Domains
             PROVE  LET named == {c \in cs : d \in c.domains}
                        rules == {r \in ss : r.domain = d}
                        cod == FindCustomerByDomain(d)
                    IN /\ (\E r \in rules : r.strategy = "bypass") => cod = NoCod
                       /\ \A r \in rules :
                             r.strategy = "primary" /\ (\E c \in cs : c.id = r.primary)
                                 => cod = r.primary
                       /\ (\A r \in rules : r.strategy = "auto") =>
                             /\ (cod = NoCod) = (named = {})
                             /\ (\E c \in named : c.active) =>
                                     \E c \in named : c.active /\ c.id = cod
  BY DEF CustomersAgree, cs, ss
<1> DEFINE forced == {x \in cache["customers"] : \E q \in FindStrategy(d) :
                         q.strategy = "primary" /\ q.primary = x.codcli}
           found == {x \in cache["customers"] : d \in x.domains}
<1>10. FindCustomerByDomain(d) =
         IF \E q \in FindStrategy(d) : q.strategy = "bypass" THEN NoCod
         ELSE IF forced # {} THEN Least(forced).codcli ELSE BestOf(found)
  BY DEF FindCustomerByDomain
<1>11. ASSUME NEW r \in ss, r.domain = d, r.strategy = "bypass"
       PROVE  FindCustomerByDomain(d) = NoCod
  <2>1. \E q \in FindStrategy(d) : q.strategy = "bypass"
    BY <1>9, <1>11 DEF FindStrategy
  <2> QED BY <1>10, <2>1
<1>12. ASSUME NEW r \in ss, r.domain = d, r.strategy = "primary", NEW c \in cs, c.id = r.primary
       PROVE  FindCustomerByDomain(d) = r.primary
  <2>1. \A q \in FindStrategy(d) : q.strategy = "primary" /\ q.primary = r.primary
    BY <1>3, <1>8, <1>12 DEF FindStrategy
  <2>2. \E q \in FindStrategy(d) : q.strategy = "primary" /\ q.primary = r.primary
    BY <1>9, <1>12 DEF FindStrategy
  <2>3. forced # {} /\ \A x \in forced : x.codcli = r.primary
    BY <1>6, <1>12, <2>1, <2>2
  <2>4. Least(forced) \in forced
    BY <1>7, <2>3, LeastIn
  <2> QED BY <1>10, <2>1, <2>3, <2>4
<1>13. ASSUME \A r \in ss : r.domain = d => r.strategy = "auto"
       PROVE  /\ (FindCustomerByDomain(d) = NoCod) <=> ({c \in cs : d \in c.domains} = {})
              /\ (\E c \in cs : d \in c.domains /\ c.active) =>
                     \E c \in cs : d \in c.domains /\ c.active /\ c.id = FindCustomerByDomain(d)
  <2>1. FindStrategy(d) = {}
    BY <1>8, <1>13 DEF FindStrategy
  <2>2. FindCustomerByDomain(d) = BestOf(found)
    BY <1>10, <2>1
  <2> DEFINE active == {x \in found : x.active}
  <2>3. BestOf(found) = IF found = {} THEN NoCod
                        ELSE IF active # {} THEN Least(active).codcli ELSE Least(found).codcli
    BY DEF BestOf
  <2>4. (found = {}) <=> ({c \in cs : d \in c.domains} = {})
    BY <1>5, <1>6
  <2>5. found # {} => Least(found) \in found
    BY <1>7, LeastIn
  <2>6. active # {} => Least(active) \in active
    BY <1>7, LeastIn
  <2>7. found # {} => BestOf(found) # NoCod
    BY <1>7, <2>3, <2>5, <2>6
  <2>8. ASSUME NEW c \in cs, d \in c.domains, c.active
        PROVE  \E e \in cs : d \in e.domains /\ e.active /\ e.id = BestOf(found)
    <3>1. active # {} /\ found # {}
      BY <1>6, <2>8
    <3>2. PICK e \in cs : /\ Least(active).codcli = e.id
                          /\ Least(active).domains = e.domains /\ Least(active).active = e.active
      BY <1>5, <2>6, <3>1
    <3> QED BY <2>3, <2>6, <3>1, <3>2
  <2> QED BY <2>2, <2>3, <2>4, <2>7, <2>8
<1> HIDE DEF forced, found
<1> QED BY <1>11, <1>12, <1>13

-----------------------------------------------------------------------------
(* The steps.                                                              *)

LEMMA InvAgrees ==
  ASSUME ConfigInv
  PROVE  ListenerAgrees
<1>1. \A s \in Sections \ {"routes"} : cache[s] = Cached(s, Served(s, snap[s]))
  BY DEF ConfigInv, CachesSound
<1>2. /\ cache["customers"] = CachedCustomers(ServedCustomers(snap["customers"]))
      /\ cache["rule_sets"] = CachedRuleSets(ServedRuleSets(snap["rule_sets"]))
      /\ cache["settings"] = CachedSettings(ServedSettings(snap["settings"]))
      /\ cache["domain_routing"] = CachedDomains(ServedDomains(snap["domain_routing"]))
      /\ cache["customer_groups"] = CachedGroups(ServedGroups(snap["customer_groups"]))
      /\ cache["templates"] = CachedTemplates(ServedTemplates(snap["templates"]))
      /\ cache["privacy_bypass"] = CachedBypass(ServedBypass(snap["privacy_bypass"]))
      /\ cache["relay_acl"] = CachedClients(ServedClients(snap["relay_acl"]))
      /\ cache["h24_targets"] = CachedTargets(ServedTargets(snap["h24_targets"]))
      /\ cache["recipient_groups"] = CachedRecipients(ServedRecipients(snap["recipient_groups"]))
      /\ cache["domain_strategies"] = CachedStrategies(ServedStrategies(snap["domain_strategies"]))
  BY <1>1, CachedServed, SectionsAre
<1>3. cache["routes"] = CachedRoutes(ServedRoutes(snap["routes"])) \/ Enabled(snap["routes"]) = {}
  BY CachedServed DEF ConfigInv, CachesSound
<1>4. /\ ~DomainsRefused(ServedDomains(snap["domain_routing"]))
      /\ OneStrategy(snap["domain_strategies"])
      /\ snap["customers"] \subseteq Rows["customers"]
      /\ snap["privacy_bypass"] \subseteq Rows["privacy_bypass"]
  BY SectionsAre DEF ConfigInv, CachesSound, TablesSound
<1> QED BY <1>2, <1>3, <1>4, RoutesHold, DomainsHold, GroupsHold, BypassHolds, ClientsHold,
           TargetsHold, RecipientsHold, CustomersHold, SetsHold, TemplatesHold, SettingsHold
        DEF ListenerAgrees

LEMMA InitInv == Init => ConfigInv
<1> SUFFICES ASSUME Init PROVE ConfigInv
  OBVIOUS
<1>1. TablesSound
  BY SectionsAre, ConfigSyncAssumption DEF Init, TablesSound, Table, OneStrategy
<1>2. \A s \in Sections : Served(s, {}) = {} /\ Cached(s, {}) = {}
  BY SectionsAre DEF Served, ServedCustomers, ServedRuleSets, ServedRules, ServedRoutes,
       ServedSettings, ServedDomains, ServedGroups, ServedTemplates, ServedAggregations,
       ServedBypass, ServedClients, ServedTargets, ServedRecipients, ServedStrategies, Enabled,
       OfTenant, Cached, CachedCustomers, CachedRuleSets, CachedRoutes, CachedSettings,
       CachedDomains, CachedGroups, CachedTemplates, CachedAggregations, CachedBypass,
       CachedClients, CachedTargets, CachedRecipients, CachedStrategies
<1>3. CachesSound
  <2>1. \A s \in Sections : cache[s] = {} /\ snap[s] = {}
    BY DEF Init
  <2>2. ServedDomains({}) = {} /\ Enabled({}) = {}
    BY DEF ServedDomains, Enabled
  <2> QED BY <1>2, <2>1, <2>2, SectionsAre DEF CachesSound, DomainsRefused
<1> QED BY <1>1, <1>3 DEF ConfigInv

(* Steps that leave the tables, the caches and their history alone.        *)
LEMMA Untouched ==
  ASSUME ConfigInv, UNCHANGED <<studied, db, cache, snap>>
  PROVE  ConfigInv'
BY DEF ConfigInv, TablesSound, CachesSound, Table

LEMMA EditInv ==
  ASSUME ConfigInv, NEW s \in studied, NEW row \in Rows[s], Save(s, row) \/ Delete(s, row)
  PROVE  ConfigInv'
<1>1. TablesSound /\ CachesSound
  BY DEF ConfigInv
<1>2. UNCHANGED <<studied, cache, snap>> /\ s \in Sections
  BY <1>1 DEF Save, Delete, listener, TablesSound
<1>3. PICK t : /\ db' = [db EXCEPT ![s] = t] /\ t \subseteq Rows[s]
               /\ s = "domain_strategies" => OneStrategy(t)
  <2>1. db[s] \subseteq Rows[s] /\ (s = "domain_strategies" => OneStrategy(db[s]))
    BY <1>1, <1>2 DEF TablesSound
  <2>2. CASE Save(s, row)
    <3>1. db' = [db EXCEPT ![s] = Saved(s, db[s], row)]
      BY <2>2 DEF Save
    <3>2. Saved(s, db[s], row) \subseteq Rows[s]
      BY <2>1, SavedRows
    <3>3. s = "domain_strategies" => OneStrategy(Saved(s, db[s], row))
      BY <2>1, SavedStrategy
    <3> QED BY <3>1, <3>2, <3>3
  <2>3. CASE Delete(s, row)
    <3>1. db' = [db EXCEPT ![s] = db[s] \ {row}]
      BY <2>3 DEF Delete
    <3>2. OneStrategy(db[s]) => OneStrategy(db[s] \ {row})
      BY DEF OneStrategy
    <3> QED BY <2>1, <3>1, <3>2
  <2> QED BY <2>2, <2>3
<1>4. db' = [x \in Sections |-> IF x = s THEN t ELSE db[x]]
  BY <1>1, <1>2, <1>3 DEF TablesSound, Table
<1>5. TablesSound'
  <2>1. Table(db)' /\ Table(snap)' /\ Table(cache)'
    BY <1>1, <1>2, <1>4 DEF TablesSound, Table
  <2>2. \A x \in Sections : db'[x] \subseteq Rows[x] /\ snap'[x] \subseteq Rows[x]
    BY <1>1, <1>2, <1>3, <1>4 DEF TablesSound
  <2>3. OneStrategy(db'["domain_strategies"]) /\ OneStrategy(snap'["domain_strategies"])
    BY <1>1, <1>2, <1>3, <1>4, SectionsAre DEF TablesSound
  <2> QED BY <1>1, <1>2, <2>1, <2>2, <2>3 DEF TablesSound, OneStrategy
<1>6. CachesSound'
  BY <1>1, <1>2 DEF CachesSound
<1> QED BY <1>5, <1>6 DEF ConfigInv

(* A section of the cycle: what is fetched is the table or nothing.        *)
LEMMA FetchedTable ==
  ASSUME NEW s
  PROVE  Fetch(s).table \in {db[s], {}}
<1>1. /\ FetchPlain(s).table \in {db[s], {}} /\ FetchTolerant(s).table \in {db[s], {}}
      /\ FetchLenient(s).table \in {db[s], {}}
  BY DEF FetchPlain, FetchTolerant, FetchLenient, Empty, Failed
<1> QED BY <1>1 DEF Fetch

LEMMA SyncSectionInv ==
  ASSUME ConfigInv, SyncSection
  PROVE  ConfigInv'
<1>1. TablesSound /\ CachesSound
  BY DEF ConfigInv
<1>2. UNCHANGED <<studied, db>>
  BY DEF SyncSection, admin
<1>3. CASE UNCHANGED <<cache, snap>>
  BY <1>2, <1>3, Untouched
<1>4. CASE ~UNCHANGED <<cache, snap>>
  <2> DEFINE s == Head(todo)
             table == Fetch(s).table
  <2>1. /\ ~Refused(s, Served(s, table))
        /\ cache' = [cache EXCEPT ![s] = Cached(s, Served(s, table))]
        /\ snap' = [snap EXCEPT ![s] = table]
    BY <1>4 DEF SyncSection, Replace
  <2>2. table \in {db[s], {}}
    BY FetchedTable
  <2> HIDE DEF s, table
  <2>3. CASE s \notin Sections
    <3>1. UNCHANGED <<cache, snap>>
      BY <1>1, <2>1, <2>3 DEF TablesSound, Table
    <3> QED BY <1>4, <3>1
  <2>4. CASE s \in Sections
    <3>1. /\ cache' = [x \in Sections |-> IF x = s THEN Cached(s, Served(s, table)) ELSE cache[x]]
          /\ snap' = [x \in Sections |-> IF x = s THEN table ELSE snap[x]]
      BY <1>1, <2>1, <2>4 DEF TablesSound, Table
    <3>2. table \subseteq Rows[s] /\ (s = "domain_strategies" => OneStrategy(table))
      BY <1>1, <2>2, <2>4 DEF TablesSound, OneStrategy
    <3>3. TablesSound'
      <4>1. Table(db)' /\ Table(snap)' /\ Table(cache)'
        BY <1>1, <1>2, <3>1 DEF TablesSound, Table
      <4>2. \A x \in Sections : db'[x] \subseteq Rows[x] /\ snap'[x] \subseteq Rows[x]
        BY <1>1, <1>2, <3>1, <3>2 DEF TablesSound
      <4>3. OneStrategy(db'["domain_strategies"]) /\ OneStrategy(snap'["domain_strategies"])
        BY <1>1, <1>2, <3>1, <3>2, SectionsAre DEF TablesSound
      <4> QED BY <1>1, <1>2, <4>1, <4>2, <4>3 DEF TablesSound, OneStrategy
    <3>4. \A x \in Sections \ {"routes"} : cache'[x] = Cached(x, Served(x, snap'[x]))
      BY <1>1, <3>1 DEF CachesSound
    <3>5. \/ cache'["routes"] = Cached("routes", Served("routes", snap'["routes"]))
          \/ Enabled(snap'["routes"]) = {}
      BY <1>1, <3>1, SectionsAre DEF CachesSound
    <3>6. ~DomainsRefused(ServedDomains(snap'["domain_routing"]))
      <4>1. CASE s = "domain_routing"
        <5>1. snap'["domain_routing"] = table
          BY <3>1, <4>1, SectionsAre
        <5>2. Served("domain_routing", table) = ServedDomains(table)
          BY CachedServed
        <5> QED BY <2>1, <4>1, <5>1, <5>2 DEF Refused
      <4>2. CASE s # "domain_routing"
        BY <1>1, <3>1, <4>2, SectionsAre DEF CachesSound
      <4> QED BY <4>1, <4>2
    <3>7. CachesSound'
      BY <3>4, <3>5, <3>6 DEF CachesSound
    <3> QED BY <3>3, <3>7 DEF ConfigInv
  <2> QED BY <2>3, <2>4
<1> QED BY <1>3, <1>4

LEMMA ReloadInv ==
  ASSUME ConfigInv, Reload
  PROVE  ConfigInv'
<1>1. TablesSound /\ CachesSound
  BY DEF ConfigInv
<1>2. /\ UNCHANGED <<studied, db, snap>> /\ cache["routes"] = {}
      /\ cache' = [x \in Sections |-> IF x = "routes" THEN YamlRoutes ELSE cache[x]]
  BY <1>1, SectionsAre DEF Reload, admin, TablesSound, Table
<1>3. Enabled(snap["routes"]) = {}
  <2>1. CASE CachedRoutes(ServedRoutes(snap["routes"])) = {}
    <3>1. \A r \in Enabled(snap["routes"]) :
            [local |-> r.local, domain |-> r.domain, target |-> r.target, cod |-> NoCod]
                \in CachedRoutes(ServedRoutes(snap["routes"]))
      BY DEF CachedRoutes, ServedRoutes
    <3> QED BY <2>1, <3>1
  <2>2. CASE Enabled(snap["routes"]) = {}
    BY <2>2
  <2> QED BY <1>1, <1>2, <2>1, <2>2, CachedServed DEF CachesSound
<1>4. TablesSound'
  BY <1>1, <1>2 DEF TablesSound, Table
<1>5. CachesSound'
  BY <1>1, <1>2, <1>3 DEF CachesSound
<1> QED BY <1>4, <1>5 DEF ConfigInv

-----------------------------------------------------------------------------
(* The theorem.                                                            *)

LEMMA NextInv ==
  ASSUME ConfigInv, [Next]_vars
  PROVE  ConfigInv'
<1>1. ASSUME NEW s \in studied, NEW row \in Rows[s], Save(s, row) \/ Delete(s, row)
      PROVE  ConfigInv'
  BY <1>1, EditInv
<1>2. CASE SyncSection
  BY <1>2, SyncSectionInv
<1>3. CASE Reload
  BY <1>3, ReloadInv
<1>4. CASE (\E how \in {"missing", "down"} : Fail(how)) \/ Recover \/ Begin \/ Finish
           \/ Restart \/ Tick \/ UNCHANGED vars
  BY <1>4, Untouched DEF Fail, Recover, Begin, Finish, Restart, Tick, vars, admin, listener
<1> QED BY <1>1, <1>2, <1>3, <1>4 DEF Next, Sync

LEMMA Invariance == Spec => []ConfigInv
<1> QED BY InitInv, NextInv, PTL DEF Spec

(* What the listener answers from its caches is what the tables of the     *)
(* admin said when they were fetched, whatever rows the operators save,    *)
(* whichever endpoints fail and wherever a cycle ends.                     *)
THEOREM ListenerAnswers == Spec => []ListenerAgrees
<1>1. ConfigInv => ListenerAgrees
  BY InvAgrees
<1> QED BY <1>1, Invariance, PTL
=============================================================================
