----------------------------- MODULE MCRuleTree -----------------------------
(* Instances of RuleTree for TLC: a regular expression on the subject and  *)
(* a domain, with two values each.                                         *)
EXTENDS RuleTree

MCTexts == {"any", "one", "(?i)one", "two"}
MCAccepted == [t \in MCTexts |-> CASE t = "any" -> {1, 2} [] t = "two" -> {2} [] OTHER -> {1}]
MCAcceptedBoth ==
    [p, c \in MCTexts |->
        IF "(?i)one" \in {p, c} THEN {} ELSE MCAccepted[p] \cap MCAccepted[c]]

Only(f, text) == [NoFilter EXCEPT ![f] = text]
Form(match, p, c) ==
    [match |-> match, priority |-> p, enabled |-> TRUE, continue |-> c,
     exclusive |-> ~c, inGroup |-> c, exitGroup |-> FALSE]
TreeForms ==
    {Form(match, p, FALSE) :
        match \in {Only("subject", "one"), Only("domain", "one"), NoFilter}, p \in 1..3} \cup
    {Form(match, 2, TRUE) : match \in {Only("subject", "(?i)one"), Only("domain", "one")}} \cup
    {Form(Only("domain", "two"), 2, FALSE), [Form(NoFilter, 3, FALSE) EXCEPT !.exitGroup = TRUE]}
=============================================================================
