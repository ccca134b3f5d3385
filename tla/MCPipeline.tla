----------------------------- MODULE MCPipeline -----------------------------
(* Instances of Pipeline for TLC: a mail for one domain or for two. *)
EXTENDS Pipeline

Addresses == {"anna@a", "bruno@b"}
TwoDomains == {"a", "b"}
MailDomain == ("anna@a" :> "a") @@ ("bruno@b" :> "b")
OneOrBoth == {{"anna@a"}, {"anna@a", "bruno@b"}}

\* Everything managed, a domain withdrawn, nothing managed.
Contents == {{"a", "b"}, {"b"}, {}}

Plain(action) == [action |-> action, keep |-> FALSE, copy |-> FALSE]
Keeping(action) == [action |-> action, keep |-> TRUE, copy |-> TRUE]

\* No rule; each action; a cascade that must skip an active rule, one of two
\* AI rules, a false positive that is evaluated again.
Lists == {<<>>,
          <<Plain("default_delivery"), Plain("default_delivery")>>,
          <<Plain("quarantine"), Plain("ignore")>>,
          <<Keeping("forward")>>,
          <<Plain("redirect")>>,
          <<Plain("ai_taxonomy")>>,
          <<Keeping("create_ticket"), Plain("create_ticket")>>,
          <<Plain("ai_classify"), Plain("ai_taxonomy")>>,
          <<Keeping("create_authorized_ticket"), Plain("auto_reply")>>,
          <<Plain("create_authorized_ticket")>>}
=============================================================================
