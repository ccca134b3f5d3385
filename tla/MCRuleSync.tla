----------------------------- MODULE MCRuleSync -----------------------------
(* Instances of RuleSync for TLC: a regular expression on the subject, the *)
(* domain and the groups of the customer, with two values each.            *)
EXTENDS RuleSync

MCTexts == {"any", "one", "(?i)one", "two"}
MCAccepted == [t \in MCTexts |-> CASE t = "any" -> {1, 2} [] t = "two" -> {2} [] OTHER -> {1}]
MCAcceptedBoth ==
    [p, c \in MCTexts |->
        IF "(?i)one" \in {p, c} THEN {} ELSE MCAccepted[p] \cap MCAccepted[c]]

Only(f, text) == [NoFilter EXCEPT ![f] = text]
Form(match, p, c) ==
    [match |-> match, priority |-> p, enabled |-> TRUE, continue |-> c,
     exclusive |-> ~c, inGroup |-> c, exitGroup |-> FALSE]
SyncForms ==
    {Form(Only("domain", "one"), 1, TRUE),
     Form([Only("domain", "two") EXCEPT !["groups"] = "one"], 2, FALSE),
     Form(Only("subject", "(?i)one"), 2, FALSE)}
=============================================================================
