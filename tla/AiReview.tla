------------------------------ MODULE AiReview ------------------------------
(***************************************************************************)
(* What the admin makes of the mails over time: proposals of static rules, *)
(* found in the decisions of the AI assistant and reviewed by operators,   *)
(* and clusters of similar errors, which events feed as they arrive.       *)
(*                                                                         *)
(* Both read the database in one transaction and write it in a later one,  *)
(* in threads of the admin that run beside each other: two operators may   *)
(* run the proposer or review at once, and a batch of events sent again    *)
(* after a timeout is handled while the first request still runs.          *)
(***************************************************************************)
EXTENDS Naturals, FiniteSets, FiniteSetsExt, Sequences

CONSTANTS
    Patterns,      \* intent, suggested action, normalised subject, domain
    Wordless,      \* patterns whose subject has no word to make a regex of
    Urgencies,
    MinDecisions,  \* ai_proposal_min_decisions
    Tenths,        \* ai_proposal_consistency_threshold, in tenths
    ListLimit,     \* rows that list_ai_rule_proposals returns
    Runs,          \* threads that run the proposer
    Reviewers,     \* threads that accept a proposal
    Prints,        \* fingerprints of errors
    Handlers,      \* threads that handle events
    Thresholds,    \* manual_threshold: 5 at first
    FirstThreshold,
    MaxDecisions, MaxProposals, MaxEvents, MaxClusters, MaxEdits \* (bounds of the model)

ASSUME ReviewAssumption ==
    /\ Wordless \subseteq Patterns /\ IsFiniteSet(Runs)
    /\ MinDecisions \in Nat \ {0} /\ Tenths \in 1..10
    /\ ListLimit \in Nat
    /\ Thresholds \subseteq Nat \ {0} /\ FirstThreshold \in Thresholds
    /\ MaxDecisions \in Nat /\ MaxProposals \in Nat /\ MaxEvents \in Nat
    /\ MaxClusters \in Nat /\ MaxEdits \in Nat

NoRule == 0

VARIABLES
    seen,        \* ai_decisions of the window without error: count per pattern, urgency
    proposals,   \* ai_rule_proposals, by id
    rules,       \* rules that proposals became: id, proposal
    run,         \* per run: the proposals it has still to write, or Idle
    review,      \* per reviewer: the proposal it accepts and the rule it made, or Idle
    clusters,    \* ai_error_clusters, by id
    handler,     \* per handler: the event it has and the cluster that it read
    events,      \* events handled so far
    made,        \* history: decisions ever made
    atOnce,      \* history: most runs of the proposer at one time
    ruleIds, edits

learning == <<seen, proposals, rules, run, review, made, atOnce, ruleIds>>
erring == <<clusters, handler, events>>
vars == <<learning, erring, edits>>

Idle == [pc |-> "idle"]

Init ==
    /\ seen = [p \in Patterns |-> [u \in Urgencies |-> 0]]
    /\ proposals = <<>> /\ rules = {}
    /\ run = [r \in Runs |-> Idle]
    /\ review = [v \in Reviewers |-> Idle]
    /\ clusters = <<>>
    /\ handler = [h \in Handlers |-> Idle]
    /\ events = 0 /\ made = 0 /\ atOnce = 0
    /\ ruleIds = 0 /\ edits = 0

Edit == edits < MaxEdits /\ edits' = edits + 1

-----------------------------------------------------------------------------
(* The proposer.                                                           *)

Decisions(p) == MapThenSumSet(LAMBDA u : seen[p][u], Urgencies)

\* Enough decisions, of which enough have one urgency.
Qualifies(p) ==
    /\ Decisions(p) >= MinDecisions
    /\ \E u \in Urgencies : 10 * seen[p][u] >= Tenths * Decisions(p)

Earned == {p \in Patterns : Qualifies(p)}

\* A classification without error, whose event is in events.
Decide(p, u) ==
    /\ made < MaxDecisions /\ made' = made + 1
    /\ seen' = [seen EXCEPT ![p][u] = @ + 1]
    /\ UNCHANGED <<proposals, rules, run, review, atOnce, ruleIds, erring, edits>>

\* A decision leaves the window of ai_proposal_window_days.
Age(p, u) ==
    /\ seen[p][u] > 0 /\ made < MaxDecisions /\ made' = made + 1
    /\ seen' = [seen EXCEPT ![p][u] = @ - 1]
    /\ UNCHANGED <<proposals, rules, run, review, atOnce, ruleIds, erring, edits>>

\* Mutant: only what waits for review is looked up.
MutProposed == {proposals[i].pattern : i \in {i \in DOMAIN proposals :
                  i > Len(proposals) - ListLimit /\ proposals[i].state = "pending"}}

\* The newest rows, whatever their state.
Proposed == {proposals[i].pattern : i \in {i \in DOMAIN proposals :
               i > Len(proposals) - ListLimit}}

Running == {r \in Runs : run[r] # Idle}

\* generate_proposals reads the decisions and the proposals there are,
StartRun(r) ==
    /\ run[r] = Idle
    /\ run' = [run EXCEPT ![r] = [pc |-> "writing", todo |-> Earned \ Proposed]]
    /\ atOnce' = Max({atOnce, Cardinality(Running) + 1})
    /\ UNCHANGED <<seen, proposals, rules, review, made, ruleIds, erring, edits>>

\* then writes each new one by itself.
Propose(r, p) ==
    /\ run[r].pc = "writing" /\ p \in run[r].todo
    /\ Len(proposals) < MaxProposals
    /\ proposals' = Append(proposals, [pattern |-> p, state |-> "pending", rule |-> NoRule])
    /\ run' = [run EXCEPT ![r].todo = @ \ {p}]
    /\ UNCHANGED <<seen, rules, review, made, atOnce, ruleIds, erring, edits>>

EndRun(r) ==
    /\ run[r].pc = "writing"
    /\ run[r].todo = {} \/ Len(proposals) = MaxProposals
    /\ run' = [run EXCEPT ![r] = Idle]
    /\ UNCHANGED <<seen, proposals, rules, review, made, atOnce, ruleIds, erring, edits>>

-----------------------------------------------------------------------------
(* The review.                                                             *)

\* accept_proposal makes the rule; the name it builds for it fails when the
\* proposal has no regex.
Accept(v, i) ==
    /\ review[v] = Idle /\ Edit
    /\ proposals[i].state = "pending"
    /\ proposals[i].pattern \notin Wordless
    /\ ruleIds' = ruleIds + 1
    /\ rules' = rules \cup {[id |-> ruleIds', proposal |-> i]}
    /\ review' = [review EXCEPT ![v] = [pc |-> "marking", proposal |-> i, rule |-> ruleIds']]
    /\ UNCHANGED <<seen, proposals, run, made, atOnce, erring>>

\* Mutant: the foreign key of accepted_rule_id is not there.
MutMarkable(id) == TRUE

Markable(id) == \E r \in rules : r.id = id

\* Then, in a transaction of its own, it marks the proposal.
Mark(v) ==
    /\ review[v].pc = "marking"
    /\ proposals' = IF Markable(review[v].rule)
         THEN [proposals EXCEPT ![review[v].proposal] =
                 [pattern |-> @.pattern, state |-> "accepted", rule |-> review[v].rule]]
         ELSE proposals
    /\ review' = [review EXCEPT ![v] = Idle]
    /\ UNCHANGED <<seen, rules, run, made, atOnce, ruleIds, erring, edits>>

\* The process ends between the two.
Forget(v) ==
    /\ review[v].pc = "marking" /\ Edit
    /\ review' = [review EXCEPT ![v] = Idle]
    /\ UNCHANGED <<seen, proposals, rules, run, made, atOnce, ruleIds, erring>>

\* reject_proposal does not look at the state.
Reject(i) ==
    /\ Edit /\ proposals[i].state # "rejected"
    /\ proposals' = [proposals EXCEPT ![i].state = "rejected"]
    /\ UNCHANGED <<seen, rules, run, review, made, atOnce, ruleIds, erring>>

\* An operator deletes the rule (ON DELETE SET NULL).
DeleteRule(r) ==
    /\ Edit
    /\ rules' = rules \ {r}
    /\ proposals' = [i \in DOMAIN proposals |->
          IF proposals[i].rule = r.id THEN [proposals[i] EXCEPT !.rule = NoRule] ELSE proposals[i]]
    /\ UNCHANGED <<seen, run, review, made, atOnce, ruleIds, erring>>

-----------------------------------------------------------------------------
(* Clusters of errors.                                                     *)

Open == {"accumulating", "ticket_opened"}

\* _find_cluster_by_fingerprint: any open row of the fingerprint (the first by
\* last_seen, which has seconds).
OpenRows(f) == {i \in DOMAIN clusters : clusters[i].print = f /\ clusters[i].state \in Open}

\* A new event reads the cluster it belongs to.  A subject may speak both of
\* an error and of a recovery.
Receive(h, f, error, recovery) ==
    /\ handler[h] = Idle
    /\ events < MaxEvents /\ events' = events + 1
    /\ error \/ recovery
    /\ \/ /\ OpenRows(f) = {}
          /\ handler' = [handler EXCEPT ![h] = [pc |-> "alone", print |-> f, error |-> error]]
       \/ \E i \in OpenRows(f) :
            handler' = [handler EXCEPT ![h] =
               [pc |-> IF recovery THEN "recover" ELSE "count", id |-> i, row |-> clusters[i]]]
    /\ UNCHANGED <<clusters, learning, edits>>

Row(f, count, threshold, lowest, state) ==
    [print |-> f, count |-> count, threshold |-> threshold, lowest |-> lowest, state |-> state]

\* _create_cluster.
Create(h) ==
    /\ handler[h].pc = "alone"
    /\ clusters' = IF handler[h].error /\ Len(clusters) < MaxClusters
         THEN Append(clusters, Row(handler[h].print, 1, FirstThreshold, FirstThreshold, "accumulating"))
         ELSE clusters
    /\ handler' = [handler EXCEPT ![h] = Idle]
    /\ UNCHANGED <<events, learning, edits>>

\* Mutant: the threshold is compared with one count too many.
MutCounted(row) ==
    IF row.state = "accumulating" /\ row.count + 2 >= row.threshold THEN "ticket_opened" ELSE row.state

Counted(row) ==
    IF row.state = "accumulating" /\ row.count + 1 >= row.threshold THEN "ticket_opened" ELSE row.state

\* _increment_cluster writes the count and the state it worked out from what
\* it had read.
Count(h) ==
    /\ handler[h].pc = "count"
    /\ LET i == handler[h].id
           row == handler[h].row
       IN clusters' = [clusters EXCEPT ![i] =
            Row(@.print, row.count + 1, @.threshold, @.lowest, Counted(row))]
    /\ handler' = [handler EXCEPT ![h] = Idle]
    /\ UNCHANGED <<events, learning, edits>>

\* _mark_recovery.
Recover(h) ==
    /\ handler[h].pc = "recover"
    /\ clusters' = [clusters EXCEPT ![handler[h].id].state = "recovered"]
    /\ handler' = [handler EXCEPT ![h] = Idle]
    /\ UNCHANGED <<events, learning, edits>>

\* cluster_detail: force_recovered, archive, and the threshold.  (lowest is
\* history: the least threshold the row has had.)
Close(i, state) ==
    /\ Edit /\ clusters[i].state # state
    /\ clusters' = [clusters EXCEPT ![i].state = state]
    /\ UNCHANGED <<handler, events, learning>>

SetThreshold(i, n) ==
    /\ Edit /\ clusters[i].threshold # n
    /\ clusters' = [clusters EXCEPT ![i] =
          Row(@.print, @.count, n, Min({n, @.lowest}), @.state)]
    /\ UNCHANGED <<handler, events, learning>>

-----------------------------------------------------------------------------

Learn ==
    \/ \E p \in Patterns, u \in Urgencies : Decide(p, u) \/ Age(p, u)
    \/ \E r \in Runs : StartRun(r) \/ EndRun(r) \/ \E p \in Patterns : Propose(r, p)
    \/ \E i \in DOMAIN proposals : Reject(i) \/ \E v \in Reviewers : Accept(v, i)
    \/ \E v \in Reviewers : Mark(v) \/ Forget(v)
    \/ \E r \in rules : DeleteRule(r)

Cluster ==
    \/ \E h \in Handlers :
        \/ \E f \in Prints, e, c \in BOOLEAN : Receive(h, f, e, c)
        \/ Create(h) \/ Count(h) \/ Recover(h)
    \/ \E i \in DOMAIN clusters :
        \/ \E s \in {"recovered", "archived"} : Close(i, s)
        \/ \E n \in Thresholds : SetThreshold(i, n)

Next == Learn \/ Cluster

Spec == Init /\ [][Next]_vars

-----------------------------------------------------------------------------
(* Properties.                                                             *)

Proposal == [pattern : Patterns, state : {"pending", "accepted", "rejected"}, rule : Nat]
ClusterRow == [print : Prints, count : Nat, threshold : Nat, lowest : Nat,
               state : Open \cup {"recovered", "archived"}]

(* Every variable has its type. *)
TypeOK ==
    /\ seen \in [Patterns -> [Urgencies -> Nat]]
    /\ proposals \in Seq(Proposal)
    /\ rules \subseteq [id : Nat, proposal : Nat]
    /\ run \in [Runs -> [pc : {"writing"}, todo : SUBSET Patterns] \cup {Idle}]
    /\ review \in [Reviewers -> [pc : {"marking"}, proposal : Nat, rule : Nat] \cup {Idle}]
    /\ clusters \in Seq(ClusterRow)
    /\ handler \in [Handlers -> [pc : {"alone"}, print : Prints, error : BOOLEAN]
                       \cup [pc : {"count", "recover"}, id : Nat, row : ClusterRow]
                       \cup {Idle}]
    /\ events \in Nat /\ made \in Nat /\ atOnce \in Nat /\ ruleIds \in Nat /\ edits \in Nat

(* A pattern is proposed at most once per run of the proposer that was     *)
(* under way at one time, however it was reviewed in between (the          *)
(* fingerprints generate_proposals read), as long as they fit in one list. *)
CopiesBounded ==
    Len(proposals) =< ListLimit =>
        \A p \in Patterns :
            Cardinality({i \in DOMAIN proposals : proposals[i].pattern = p}) =< atOnce

(* A proposal that names a rule names one that exists and was made from    *)
(* it, whatever reviewers do at once and whoever deletes rules.            *)
NamesOwnRule ==
    \A i \in DOMAIN proposals : proposals[i].rule # NoRule =>
        \E r \in rules : r.id = proposals[i].rule /\ r.proposal = i

(* A cluster is at ticket_opened only when its count has reached a         *)
(* threshold it had, although handlers overwrite each other, and no count  *)
(* exceeds the events there were.                                          *)
OpenedWasEarned ==
    \A i \in DOMAIN clusters :
        /\ clusters[i].state = "ticket_opened" => clusters[i].count >= clusters[i].lowest
        /\ clusters[i].count =< events

(* What the code does not keep.                                            *)

(* rule_proposer.py:16: a run again makes no proposal a second time.       *)
NoCopies ==
    \A i, j \in DOMAIN proposals : proposals[i].pattern = proposals[j].pattern => i = j

(* rule_proposer.py:210: a proposal is accepted once.                      *)
OneRulePerProposal == \A r, s \in rules : r.proposal = s.proposal => r = s

(* A rejected proposal has no rule in force.                               *)
RejectedHasNoRule ==
    \A i \in DOMAIN proposals : proposals[i].state = "rejected" => proposals[i].rule = NoRule

(* One open cluster per fingerprint; a closed one stays closed.            *)
OneOpenCluster == \A f \in Prints : Cardinality(OpenRows(f)) =< 1
ClosedStaysClosed ==
    [][\A i \in DOMAIN clusters : clusters[i].state \notin Open => clusters'[i].state \notin Open]_vars
=============================================================================
