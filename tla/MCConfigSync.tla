---------------------------- MODULE MCConfigSync ----------------------------
(* Small instance of ConfigSync: every section is looked at, alone or with  *)
(* the ones that it bears on.                                               *)
EXTENDS ConfigSync

MCDomainOf == [m1 |-> "d1", m2 |-> "d1", m3 |-> "d2"]
MCNoCod == 0

MCRows == [
  customers |-> {
    [id |-> 1, domains |-> {"d1"}, active |-> FALSE, profile |-> "STD"],
    [id |-> 2, domains |-> {"d1", "d2"}, active |-> TRUE, profile |-> "H24"],
    [id |-> 2, domains |-> {"d2"}, active |-> TRUE, profile |-> "STD"]},
  rule_sets |-> {
    [id |-> 1, tenant |-> 1, code |-> "all", always |-> TRUE, profile |-> "", enabled |-> TRUE],
    [id |-> 2, tenant |-> 1, code |-> "h24", always |-> FALSE, profile |-> "H24", enabled |-> TRUE],
    [id |-> 2, tenant |-> 1, code |-> "h24", always |-> FALSE, profile |-> "H24", enabled |-> FALSE],
    [id |-> 3, tenant |-> 1, code |-> "night", always |-> FALSE, profile |-> "H24", enabled |-> TRUE]},
  rules |-> {[id |-> 1, enabled |-> TRUE], [id |-> 1, enabled |-> FALSE]},
  routes |-> {
    [id |-> 1, local |-> "info", capital |-> FALSE, domain |-> "d1", target |-> "h1", cod |-> 1, enabled |-> TRUE],
    [id |-> 2, local |-> "info", capital |-> TRUE, domain |-> "d1", target |-> "h2", cod |-> 0, enabled |-> TRUE],
    [id |-> 2, local |-> "info", capital |-> TRUE, domain |-> "d1", target |-> "h2", cod |-> 0, enabled |-> FALSE]},
  settings |-> {
    [id |-> "relay_passthrough_only", value |-> "true"],
    [id |-> "relay_passthrough_only", value |-> "false"]},
  domain_routing |-> {
    [id |-> 1, tenant |-> 1, domain |-> "d1", host |-> "h1", shadow |-> FALSE, enabled |-> TRUE],
    [id |-> 2, tenant |-> 2, domain |-> "d1", host |-> "h2", shadow |-> TRUE, enabled |-> TRUE],
    [id |-> 3, tenant |-> 1, domain |-> "d2", host |-> "", shadow |-> FALSE, enabled |-> TRUE],
    [id |-> 3, tenant |-> 1, domain |-> "d2", host |-> "", shadow |-> FALSE, enabled |-> FALSE]},
  customer_groups |-> {
    [id |-> 1, tenant |-> 1, code |-> "top", members |-> {1, 2}, enabled |-> TRUE],
    [id |-> 2, tenant |-> 1, code |-> "low", members |-> {1}, enabled |-> FALSE],
    [id |-> 3, tenant |-> 2, code |-> "top", members |-> {2}, enabled |-> TRUE]},
  templates |-> {
    [id |-> 1, tenant |-> 1, name |-> "reply", enabled |-> TRUE],
    [id |-> 1, tenant |-> 1, name |-> "reply", enabled |-> FALSE]},
  aggregations |-> {
    [id |-> 1, tenant |-> 1, name |-> "disk", enabled |-> TRUE],
    [id |-> 1, tenant |-> 1, name |-> "disk", enabled |-> FALSE]},
  privacy_bypass |-> {
    [id |-> 1, tenant |-> 1, scope |-> "from", value |-> "m1", enabled |-> TRUE],
    [id |-> 2, tenant |-> 2, scope |-> "both", value |-> "d2", enabled |-> TRUE],
    [id |-> 2, tenant |-> 2, scope |-> "to", value |-> "d2", enabled |-> TRUE]},
  relay_acl |-> {
    [id |-> 1, tenant |-> 1, net |-> {"c1"}, enabled |-> TRUE],
    [id |-> 2, tenant |-> 1, net |-> {"c2"}, enabled |-> FALSE],
    [id |-> 3, tenant |-> 2, net |-> {"c2"}, enabled |-> TRUE]},
  h24_targets |-> {
    [id |-> 1, tenant |-> 1, domain |-> "d1", email |-> "m1", alias |-> "a1", enabled |-> TRUE],
    [id |-> 2, tenant |-> 1, domain |-> "d1", email |-> "m2", alias |-> "a2", enabled |-> TRUE],
    [id |-> 2, tenant |-> 1, domain |-> "d2", email |-> "", alias |-> "a2", enabled |-> TRUE],
    [id |-> 3, tenant |-> 2, domain |-> "d1", email |-> "", alias |-> "a3", enabled |-> TRUE]},
  recipient_groups |-> {
    [id |-> 1, tenant |-> 1, code |-> "pilot", members |-> {"m1"}, shadow |-> TRUE, enabled |-> TRUE],
    [id |-> 1, tenant |-> 1, code |-> "pilot", members |-> {"m1"}, shadow |-> TRUE, enabled |-> FALSE],
    [id |-> 2, tenant |-> 1, code |-> "rest", members |-> {"m1", "m3"}, shadow |-> FALSE, enabled |-> TRUE]},
  domain_strategies |-> {
    [id |-> 1, tenant |-> 1, domain |-> "d1", strategy |-> "primary", primary |-> 1],
    [id |-> 1, tenant |-> 1, domain |-> "d1", strategy |-> "auto", primary |-> 0],
    [id |-> 2, tenant |-> 1, domain |-> "d2", strategy |-> "bypass", primary |-> 0]}]

MCYaml == {[local |-> "info", domain |-> "d2", target |-> "h2", cod |-> 2]}

\* A refusing section with one before it and one after, a pair that a lookup
\* joins, and each other section by itself.
MCStudies ==
    {{s} : s \in {"rules", "settings", "templates", "aggregations", "customer_groups",
                  "privacy_bypass", "relay_acl", "h24_targets", "recipient_groups"}}
    \cup {{"customers", "domain_strategies"}, {"customers", "rule_sets"},
          {"routes"}, {"domain_routing"}, {"routes", "relay_acl"},
          {"settings", "domain_routing", "templates"}}
=============================================================================
