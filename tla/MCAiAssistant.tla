---------------------------- MODULE MCAiAssistant ----------------------------
(* Small instance of AiAssistant: two threads of two workers.              *)
EXTENDS AiAssistant, TLC

MCWorkerOf == [t \in Threads |-> t]
MCProviders == [p1 |-> "on", p2 |-> "on"]
MCCosts == [p1 |-> {1}, p2 |-> {0}]
MCForms == {
  [job |-> "classify_email", provider |-> "p2", fallback |-> "none", enabled |-> TRUE],
  [job |-> "classify_email", provider |-> "p1", fallback |-> "none", enabled |-> FALSE],
  [job |-> "email_taxonomy", provider |-> "p1", fallback |-> "none", enabled |-> TRUE]}
MCBindings ==
    <<[id |-> 1, job |-> "classify_email", provider |-> "p1", fallback |-> "p1",
       enabled |-> TRUE, version |-> 1]>>
Symmetric == Permutations(Classified) \cup Permutations(Threads)
=============================================================================
