------------------------------ MODULE AiProofs ------------------------------
(***************************************************************************)
(* Proofs about the AI assistant, for every value of the constants: what   *)
(* it makes of the mails over time (AiReview), and its requests, their     *)
(* budget and the mode they run in (AiAssistant).                          *)
(***************************************************************************)
EXTENDS AiAssistant, AiReview, FiniteSetTheorems, WellFoundedInduction, TLAPS

-----------------------------------------------------------------------------
(* The invariant.                                                          *)

Copies(p) == {i \in DOMAIN proposals : proposals[i].pattern = p}

(* The runs that have still to write a proposal of the pattern. *)
Holders(p) == {r \in Runs : run[r] # Idle /\ p \in run[r].todo}

(* A pattern that has a proposal gets no new holder: every copy there is   *)
(* or will be is that of a run that was under way beside the others.       *)
CopiesSound ==
  /\ Cardinality(Running) <= atOnce
  /\ Len(proposals) <= ListLimit =>
       \A p \in Patterns : Cardinality(Copies(p)) + Cardinality(Holders(p)) <= atOnce

(* Ids of rules are never used again; who is about to mark a proposal has  *)
(* made the rule from it, if the rule is still there.                      *)
RulesSound ==
  /\ \A r \in rules : r.id \in 1..ruleIds
  /\ \A r, s \in rules : r.id = s.id => r = s
  /\ \A v \in Reviewers : review[v] # Idle =>
       /\ review[v].rule \in 1..ruleIds
       /\ review[v].proposal \in DOMAIN proposals
       /\ \A r \in rules : r.id = review[v].rule => r.proposal = review[v].proposal
  /\ NamesOwnRule

EarnedRow(row) ==
  /\ row.lowest <= row.threshold
  /\ row.state = "ticket_opened" => row.count >= row.lowest

Reading(h) == handler[h].pc \in {"count", "recover"}

(* What a handler read was true of its cluster once, and only the least    *)
(* threshold may have declined since; its own event is not counted yet.    *)
ClustersSound ==
  /\ \A i \in DOMAIN clusters : EarnedRow(clusters[i]) /\ clusters[i].count <= events
  /\ \A h \in Handlers :
       /\ handler[h].pc = "alone" => events >= 1
       /\ Reading(h) =>
            /\ handler[h].id \in DOMAIN clusters
            /\ EarnedRow(handler[h].row)
            /\ handler[h].row.count + 1 <= events
            /\ clusters[handler[h].id].lowest <= handler[h].row.lowest

IInv == TypeOK /\ CopiesSound /\ RulesSound /\ ClustersSound

-----------------------------------------------------------------------------
(* Facts about sequences, threads and numbers.                             *)

LEMMA SeqEdit ==
  ASSUME NEW S, NEW q \in Seq(S), NEW f,
         f = [i \in DOMAIN q |-> f[i]], \A i \in DOMAIN q : f[i] \in S
  PROVE  f \in Seq(S) /\ Len(f) = Len(q) /\ DOMAIN f = DOMAIN q
<1>1. Len(q) \in Nat /\ DOMAIN q = 1..Len(q)
  OBVIOUS
<1>2. f \in [1..Len(q) -> S]
  BY <1>1
<1> QED BY <1>1, <1>2

LEMMA SeqAppend ==
  ASSUME NEW S, NEW q \in Seq(S), NEW x \in S
  PROVE  /\ Append(q, x) \in Seq(S) /\ Len(Append(q, x)) = Len(q) + 1
         /\ DOMAIN Append(q, x) = DOMAIN q \cup {Len(q) + 1}
         /\ \A i \in DOMAIN q : Append(q, x)[i] = q[i]
         /\ Append(q, x)[Len(q) + 1] = x
         /\ Len(q) + 1 \notin DOMAIN q /\ Len(q) \in Nat
OBVIOUS

LEMMA SeqElements ==
  ASSUME NEW S, NEW q \in Seq(S) PROVE \A i \in DOMAIN q : q[i] \in S
OBVIOUS

LEMMA MaxTwo ==
  ASSUME NEW a \in Nat, NEW b \in Nat
  PROVE  Max({a, b}) \in Nat /\ Max({a, b}) >= a /\ Max({a, b}) >= b
<1>1. \E x \in {a, b} : \A y \in {a, b} : x >= y
  OBVIOUS
<1> QED BY <1>1 DEF Max

LEMMA MinTwo ==
  ASSUME NEW a \in Nat, NEW b \in Nat
  PROVE  Min({a, b}) \in Nat /\ Min({a, b}) <= a /\ Min({a, b}) <= b
<1>1. \E x \in {a, b} : \A y \in {a, b} : x <= y
  OBVIOUS
<1> QED BY <1>1 DEF Min

LEMMA RunThreads ==
  /\ \A x \in [pc : {"writing"}, todo : SUBSET Patterns] : x # Idle
  /\ \A x \in [pc : {"marking"}, proposal : Nat, rule : Nat] : x # Idle
  /\ \A x \in [pc : {"alone"}, print : Prints, error : BOOLEAN] : x # Idle
  /\ \A x \in [pc : {"count", "recover"}, id : Nat, row : ClusterRow] : x # Idle
  /\ Idle.pc = "idle"
BY DEF Idle

-----------------------------------------------------------------------------
(* Types.                                                                  *)

LEMMA InitType == Init => TypeOK
BY DEF Init, TypeOK

LearningStep ==
  \/ \E p \in Patterns, u \in Urgencies : Decide(p, u) \/ Age(p, u)
  \/ \E r \in Runs : StartRun(r) \/ EndRun(r) \/ \E p \in Patterns : Propose(r, p)

ReviewStep ==
  \/ \E i \in DOMAIN proposals : Reject(i) \/ \E v \in Reviewers : Accept(v, i)
  \/ \E v \in Reviewers : Mark(v) \/ Forget(v)
  \/ \E r \in rules : DeleteRule(r)

LEMMA Groups == Next => LearningStep \/ ReviewStep \/ Cluster
BY DEF Next, Learn, LearningStep, ReviewStep

LEMMA EditType == ASSUME TypeOK, Edit PROVE edits' \in Nat
BY DEF TypeOK, Edit

LEMMA DecisionType ==
  ASSUME TypeOK, NEW p \in Patterns, NEW u \in Urgencies, Decide(p, u) \/ Age(p, u)
  PROVE  TypeOK'
<1>1. /\ UNCHANGED <<proposals, rules, run, review, clusters, handler, events, atOnce, ruleIds,
                     edits>>
      /\ made' = made + 1
  BY DEF Decide, Age, erring
<1>2. seen' \in [Patterns -> [Urgencies -> Nat]]
  <2>1. CASE Decide(p, u)
    BY <2>1 DEF Decide, TypeOK
  <2>2. CASE Age(p, u)
    BY <2>2 DEF Age, TypeOK
  <2> QED BY <2>1, <2>2
<1> QED BY <1>1, <1>2 DEF TypeOK

LEMMA StartEffect ==
  ASSUME TypeOK, NEW r \in Runs, StartRun(r)
  PROVE  /\ run[r] = Idle
         /\ run' = [run EXCEPT ![r] = [pc |-> "writing", todo |-> Earned \ Proposed]]
         /\ run' \in [Runs -> [pc : {"writing"}, todo : SUBSET Patterns] \cup {Idle}]
         /\ Cardinality(Running) + 1 \in Nat
         /\ atOnce' \in Nat /\ atOnce' >= atOnce /\ atOnce' >= Cardinality(Running) + 1
<1>1. Earned \ Proposed \in SUBSET Patterns
  BY DEF Earned
<1>2. IsFiniteSet(Running) /\ Cardinality(Running) \in Nat
  BY ReviewAssumption, FS_Subset, FS_CardinalityType DEF Running
<1>3. PICK n \in Nat : n = Cardinality(Running) + 1
  BY <1>2
<1>4. atOnce \in Nat /\ atOnce' = Max({atOnce, n})
  BY <1>3 DEF StartRun, TypeOK
<1>5. atOnce' \in Nat /\ atOnce' >= atOnce /\ atOnce' >= n
  BY <1>4, MaxTwo
<1>6. /\ run[r] = Idle
      /\ run' = [run EXCEPT ![r] = [pc |-> "writing", todo |-> Earned \ Proposed]]
  BY DEF StartRun
<1>7. run' \in [Runs -> [pc : {"writing"}, todo : SUBSET Patterns] \cup {Idle}]
  BY <1>1, <1>6 DEF TypeOK
<1> QED BY <1>3, <1>5, <1>6, <1>7

LEMMA RunType ==
  ASSUME TypeOK, NEW r \in Runs,
         StartRun(r) \/ EndRun(r) \/ \E p \in Patterns : Propose(r, p)
  PROVE  TypeOK'
<1>1. UNCHANGED <<seen, rules, review, made, ruleIds, clusters, handler, events, edits>>
  BY DEF StartRun, EndRun, Propose, erring
<1>2. CASE StartRun(r)
  <2>1. UNCHANGED proposals
    BY <1>2 DEF StartRun
  <2> QED BY <1>1, <1>2, <2>1, StartEffect DEF TypeOK
<1>3. CASE EndRun(r)
  BY <1>1, <1>3 DEF EndRun, TypeOK
<1>4. ASSUME NEW p \in Patterns, Propose(r, p) PROVE TypeOK'
  <2>1. [pattern |-> p, state |-> "pending", rule |-> NoRule] \in Proposal
    BY DEF Proposal, NoRule
  <2>2. proposals' \in Seq(Proposal)
    BY <1>4, <2>1, SeqAppend DEF Propose, TypeOK
  <2>3. run' \in [Runs -> [pc : {"writing"}, todo : SUBSET Patterns] \cup {Idle}]
    BY <1>4, RunThreads DEF Propose, TypeOK
  <2>4. UNCHANGED atOnce
    BY <1>4 DEF Propose
  <2> QED BY <1>1, <2>2, <2>3, <2>4 DEF TypeOK
<1> QED BY <1>2, <1>3, <1>4

(* A step of the review leaves every proposal its pattern. *)
SamePatterns ==
  /\ proposals' \in Seq(Proposal)
  /\ Len(proposals') = Len(proposals) /\ DOMAIN proposals' = DOMAIN proposals
  /\ \A i \in DOMAIN proposals : proposals'[i].pattern = proposals[i].pattern

LEMMA ProposalTypes ==
  ASSUME TypeOK
  PROVE  /\ Len(proposals) \in Nat /\ DOMAIN proposals = 1..Len(proposals)
         /\ \A i \in DOMAIN proposals : proposals[i] \in Proposal
BY DEF TypeOK

LEMMA AcceptType ==
  ASSUME TypeOK, NEW i \in DOMAIN proposals, NEW v \in Reviewers, Accept(v, i)
  PROVE  TypeOK' /\ SamePatterns
<1>1. i \in Nat
  BY ProposalTypes
<1>2. /\ ruleIds' = ruleIds + 1 /\ ruleIds' \in Nat
      /\ rules' = rules \cup {[id |-> ruleIds', proposal |-> i]}
      /\ review' = [review EXCEPT ![v] =
                      [pc |-> "marking", proposal |-> i, rule |-> ruleIds']]
      /\ UNCHANGED <<seen, proposals, run, made, atOnce, clusters, handler, events>>
      /\ Edit
  BY DEF Accept, TypeOK, erring
<1>3. rules' \subseteq [id : Nat, proposal : Nat]
  BY <1>1, <1>2 DEF TypeOK
<1>4. review' \in [Reviewers -> [pc : {"marking"}, proposal : Nat, rule : Nat] \cup {Idle}]
  BY <1>1, <1>2 DEF TypeOK
<1> QED BY <1>2, <1>3, <1>4, EditType DEF TypeOK, SamePatterns

LEMMA MarkEffect ==
  ASSUME TypeOK, RulesSound, NEW v \in Reviewers, Mark(v)
  PROVE  /\ review[v] # Idle
         /\ review[v].proposal \in DOMAIN proposals /\ review[v].rule \in Nat
         /\ SamePatterns
         /\ \A i \in DOMAIN proposals :
              \/ proposals'[i] = proposals[i]
              \/ /\ i = review[v].proposal /\ proposals'[i].rule = review[v].rule
                 /\ \E r \in rules : r.id = review[v].rule
<1>1. review[v] # Idle
  BY RunThreads DEF Mark
<1>2. PICK i \in DOMAIN proposals, id \in Nat : review[v].proposal = i /\ review[v].rule = id
  BY <1>1 DEF RulesSound, TypeOK
<1>3. PICK p \in Patterns : proposals[i].pattern = p
  BY ProposalTypes DEF Proposal
<1>4. PICK new : new = [pattern |-> p, state |-> "accepted", rule |-> id]
  OBVIOUS
<1>5. new \in Proposal /\ new.pattern = p /\ new.rule = id
  BY <1>2, <1>4 DEF Proposal
<1>6. CASE ~Markable(id)
  <2>1. proposals' = proposals
    BY <1>2, <1>6 DEF Mark
  <2> QED BY <1>1, <1>2, <2>1 DEF SamePatterns, TypeOK
<1>7. CASE Markable(id)
  <2>1. proposals' = [proposals EXCEPT ![i] = new]
    BY <1>2, <1>3, <1>4, <1>7 DEF Mark
  <2>2. \A j \in DOMAIN proposals : proposals'[j] = IF j = i THEN new ELSE proposals[j]
    BY <2>1
  <2>3. \A j \in DOMAIN proposals : proposals'[j] \in Proposal
    BY <1>5, <2>2, ProposalTypes
  <2>4. proposals' = [j \in DOMAIN proposals |-> proposals'[j]]
    BY <2>1
  <2>5. /\ proposals' \in Seq(Proposal)
        /\ Len(proposals') = Len(proposals) /\ DOMAIN proposals' = DOMAIN proposals
    BY <2>3, <2>4, SeqEdit DEF TypeOK
  <2>6. SamePatterns
    BY <1>2, <1>3, <1>5, <2>2, <2>5 DEF SamePatterns
  <2>7. \E r \in rules : r.id = id
    BY <1>7 DEF Markable
  <2> QED BY <1>1, <1>2, <1>5, <2>2, <2>6, <2>7
<1> QED BY <1>6, <1>7

LEMMA RejectEffect ==
  ASSUME TypeOK, NEW i \in DOMAIN proposals, Reject(i)
  PROVE  /\ SamePatterns
         /\ \A j \in DOMAIN proposals : proposals'[j].rule = proposals[j].rule
<1>1. PICK old \in Proposal : proposals[i] = old
  BY ProposalTypes
<1>2. PICK new : new = [old EXCEPT !.state = "rejected"]
  OBVIOUS
<1>3. new \in Proposal /\ new.pattern = old.pattern /\ new.rule = old.rule
  BY <1>2 DEF Proposal
<1>4. proposals' = [proposals EXCEPT ![i] = new]
  BY <1>1, <1>2 DEF Reject
<1>5. \A j \in DOMAIN proposals : proposals'[j] = IF j = i THEN new ELSE proposals[j]
  BY <1>4
<1>6. \A j \in DOMAIN proposals : proposals'[j] \in Proposal
  BY <1>3, <1>5, ProposalTypes
<1>7. proposals' = [j \in DOMAIN proposals |-> proposals'[j]]
  BY <1>4
<1>8. /\ proposals' \in Seq(Proposal)
      /\ Len(proposals') = Len(proposals) /\ DOMAIN proposals' = DOMAIN proposals
  BY <1>6, <1>7, SeqEdit DEF TypeOK
<1> QED BY <1>1, <1>3, <1>5, <1>8 DEF SamePatterns

LEMMA DeleteEffect ==
  ASSUME TypeOK, NEW r \in rules, DeleteRule(r)
  PROVE  /\ SamePatterns
         /\ \A j \in DOMAIN proposals :
              proposals'[j].rule = IF proposals[j].rule = r.id THEN NoRule ELSE proposals[j].rule
<1>1. proposals' = [j \in DOMAIN proposals |->
        IF proposals[j].rule = r.id THEN [proposals[j] EXCEPT !.rule = NoRule] ELSE proposals[j]]
  BY DEF DeleteRule
<1>2. ASSUME NEW j \in DOMAIN proposals
      PROVE  /\ proposals'[j] \in Proposal
             /\ proposals'[j].pattern = proposals[j].pattern
             /\ proposals'[j].rule = IF proposals[j].rule = r.id THEN NoRule
                                     ELSE proposals[j].rule
  <2>1. PICK old \in Proposal : proposals[j] = old
    BY ProposalTypes
  <2>2. /\ [old EXCEPT !.rule = NoRule] \in Proposal
        /\ [old EXCEPT !.rule = NoRule].pattern = old.pattern
        /\ [old EXCEPT !.rule = NoRule].rule = NoRule
    BY DEF Proposal, NoRule
  <2>3. proposals'[j] = IF old.rule = r.id THEN [old EXCEPT !.rule = NoRule] ELSE old
    BY <1>1, <2>1
  <2> QED BY <2>1, <2>2, <2>3
<1>3. proposals' = [j \in DOMAIN proposals |-> proposals'[j]]
  BY <1>1
<1>4. /\ proposals' \in Seq(Proposal)
      /\ Len(proposals') = Len(proposals) /\ DOMAIN proposals' = DOMAIN proposals
  BY <1>2, <1>3, SeqEdit DEF TypeOK
<1> QED BY <1>2, <1>4 DEF SamePatterns

LEMMA ReviewType ==
  ASSUME TypeOK, RulesSound, ReviewStep
  PROVE  TypeOK' /\ SamePatterns /\ UNCHANGED <<run, atOnce, clusters, handler, events>>
<1>1. UNCHANGED <<seen, run, made, atOnce, clusters, handler, events>>
  BY DEF ReviewStep, Reject, Accept, Mark, Forget, DeleteRule, erring
<1>2. ASSUME NEW i \in DOMAIN proposals, NEW v \in Reviewers, Accept(v, i)
      PROVE  TypeOK' /\ SamePatterns
  BY <1>2, AcceptType
<1>3. ASSUME NEW i \in DOMAIN proposals, Reject(i) PROVE TypeOK' /\ SamePatterns
  <2>1. UNCHANGED <<rules, review, ruleIds>> /\ Edit
    BY <1>3 DEF Reject
  <2> QED BY <1>1, <1>3, <2>1, EditType, RejectEffect DEF TypeOK, SamePatterns
<1>4. ASSUME NEW v \in Reviewers, Mark(v) PROVE TypeOK' /\ SamePatterns
  <2>1. UNCHANGED <<rules, ruleIds, edits>> /\ review' = [review EXCEPT ![v] = Idle]
    BY <1>4 DEF Mark, erring
  <2>2. review' \in [Reviewers -> [pc : {"marking"}, proposal : Nat, rule : Nat] \cup {Idle}]
    BY <2>1 DEF TypeOK
  <2> QED BY <1>1, <1>4, <2>1, <2>2, MarkEffect DEF TypeOK, SamePatterns
<1>5. ASSUME NEW v \in Reviewers, Forget(v) PROVE TypeOK' /\ SamePatterns
  <2>1. UNCHANGED <<proposals, rules, ruleIds>> /\ review' = [review EXCEPT ![v] = Idle] /\ Edit
    BY <1>5 DEF Forget
  <2>2. review' \in [Reviewers -> [pc : {"marking"}, proposal : Nat, rule : Nat] \cup {Idle}]
    BY <2>1 DEF TypeOK
  <2> QED BY <1>1, <2>1, <2>2, EditType DEF TypeOK, SamePatterns
<1>6. ASSUME NEW r \in rules, DeleteRule(r) PROVE TypeOK' /\ SamePatterns
  <2>1. UNCHANGED <<review, ruleIds>> /\ rules' = rules \ {r} /\ Edit
    BY <1>6 DEF DeleteRule
  <2> QED BY <1>1, <1>6, <2>1, EditType, DeleteEffect DEF TypeOK, SamePatterns
<1> QED BY <1>1, <1>2, <1>3, <1>4, <1>5, <1>6 DEF ReviewStep

-----------------------------------------------------------------------------
(* Rules and proposals.                                                    *)

LEMMA LearningFrame ==
  ASSUME TypeOK, LearningStep
  PROVE  /\ TypeOK' /\ UNCHANGED <<rules, review, ruleIds, clusters, handler, events>>
         /\ \A i \in DOMAIN proposals : i \in DOMAIN proposals' /\ proposals'[i] = proposals[i]
         /\ \A i \in DOMAIN proposals' : i \in DOMAIN proposals \/ proposals'[i].rule = NoRule
<1>1. CASE \E p \in Patterns, u \in Urgencies : Decide(p, u) \/ Age(p, u)
  <2>1. UNCHANGED <<proposals, rules, review, ruleIds, clusters, handler, events>>
    BY <1>1 DEF Decide, Age, erring
  <2> QED BY <1>1, <2>1, DecisionType
<1>2. CASE \E r \in Runs : StartRun(r) \/ EndRun(r)
  <2>1. UNCHANGED <<proposals, rules, review, ruleIds, clusters, handler, events>>
    BY <1>2 DEF StartRun, EndRun, erring
  <2> QED BY <1>2, <2>1, RunType
<1>3. ASSUME NEW r \in Runs, NEW p \in Patterns, Propose(r, p)
      PROVE  /\ TypeOK' /\ UNCHANGED <<rules, review, ruleIds, clusters, handler, events>>
             /\ \A i \in DOMAIN proposals :
                  i \in DOMAIN proposals' /\ proposals'[i] = proposals[i]
             /\ \A i \in DOMAIN proposals' :
                  i \in DOMAIN proposals \/ proposals'[i].rule = NoRule
  <2>1. UNCHANGED <<rules, review, ruleIds, clusters, handler, events>>
    BY <1>3 DEF Propose, erring
  <2>2. PICK new \in Proposal : new.rule = NoRule /\ proposals' = Append(proposals, new)
    BY <1>3 DEF Propose, Proposal, NoRule
  <2>3. TypeOK'
    BY <1>3, RunType
  <2> QED BY <2>1, <2>2, <2>3, SeqAppend DEF TypeOK
<1> QED BY <1>1, <1>2, <1>3 DEF LearningStep

LEMMA ReviewRules ==
  ASSUME TypeOK, RulesSound, ReviewStep PROVE RulesSound'
<1>0. DOMAIN proposals' = DOMAIN proposals
  BY ReviewType DEF SamePatterns
<1>1. ASSUME NEW i \in DOMAIN proposals, NEW v \in Reviewers, Accept(v, i)
      PROVE  RulesSound'
  <2>1. PICK id : id = ruleIds + 1
    OBVIOUS
  <2>2. /\ ruleIds \in Nat /\ ruleIds' = id /\ id \in Nat /\ id \in 1..id /\ id \notin 1..ruleIds
        /\ \A n \in 1..ruleIds : n \in 1..id
    BY <1>1, <2>1 DEF TypeOK, Accept
  <2>3. PICK rule : /\ rule = [id |-> id, proposal |-> i]
                    /\ rules' = rules \cup {rule}
    BY <1>1, <2>2 DEF Accept
  <2>4. /\ review' = [review EXCEPT ![v] = [pc |-> "marking", proposal |-> i, rule |-> id]]
        /\ UNCHANGED proposals
    BY <1>1, <2>2 DEF Accept
  <2>5. rule.id = id /\ rule.proposal = i
    BY <2>3
  <2>6. /\ \A r \in rules' : r.id \in 1..ruleIds'
        /\ \A r, s \in rules' : r.id = s.id => r = s
    BY <2>2, <2>3, <2>5 DEF RulesSound
  <2>7. \A w \in Reviewers : review'[w] # Idle =>
          /\ review'[w].rule \in 1..ruleIds'
          /\ review'[w].proposal \in DOMAIN proposals'
          /\ \A r \in rules' : r.id = review'[w].rule => r.proposal = review'[w].proposal
    <3> SUFFICES ASSUME NEW w \in Reviewers, review'[w] # Idle
                 PROVE  /\ review'[w].rule \in 1..ruleIds'
                        /\ review'[w].proposal \in DOMAIN proposals'
                        /\ \A r \in rules' : r.id = review'[w].rule
                                             => r.proposal = review'[w].proposal
      OBVIOUS
    <3>1. CASE w = v
      <4>1. review'[w].rule = id /\ review'[w].proposal = i
        BY <2>4, <3>1 DEF TypeOK
      <4>2. \A r \in rules : r.id # id
        BY <2>2 DEF RulesSound
      <4> QED BY <1>0, <2>2, <2>3, <2>5, <4>1, <4>2
    <3>2. CASE w # v
      <4>1. review'[w] = review[w]
        BY <2>4, <3>2 DEF TypeOK
      <4> QED BY <1>0, <2>2, <2>3, <2>5, <4>1 DEF RulesSound
    <3> QED BY <3>1, <3>2
  <2>8. NamesOwnRule'
    BY <2>3, <2>4 DEF RulesSound, NamesOwnRule
  <2> QED BY <2>6, <2>7, <2>8 DEF RulesSound
<1>2. ASSUME NEW i \in DOMAIN proposals, Reject(i) PROVE RulesSound'
  <2>1. UNCHANGED <<rules, review, ruleIds>>
    BY <1>2 DEF Reject
  <2> QED BY <1>0, <1>2, <2>1, RejectEffect DEF RulesSound, NamesOwnRule
<1>3. ASSUME NEW v \in Reviewers, review' = [review EXCEPT ![v] = Idle]
      PROVE  \A w \in Reviewers : review'[w] # Idle => review'[w] = review[w]
  BY <1>3 DEF TypeOK
<1>4. ASSUME NEW v \in Reviewers, Mark(v) PROVE RulesSound'
  <2>1. UNCHANGED <<rules, ruleIds>> /\ review' = [review EXCEPT ![v] = Idle]
    BY <1>4 DEF Mark
  <2>2. NamesOwnRule'
    <3> SUFFICES ASSUME NEW j \in DOMAIN proposals, proposals'[j].rule # NoRule
                 PROVE  \E r \in rules : r.id = proposals'[j].rule /\ r.proposal = j
      BY <1>0, <2>1 DEF NamesOwnRule
    <3>1. CASE proposals'[j] = proposals[j]
      BY <3>1 DEF RulesSound, NamesOwnRule
    <3>2. CASE proposals'[j] # proposals[j]
      <4>1. /\ review[v] # Idle /\ j = review[v].proposal /\ proposals'[j].rule = review[v].rule
            /\ \E r \in rules : r.id = review[v].rule
        BY <1>4, <3>2, MarkEffect
      <4> QED BY <4>1 DEF RulesSound
    <3> QED BY <3>1, <3>2
  <2> QED BY <1>0, <1>3, <2>1, <2>2 DEF RulesSound
<1>5. ASSUME NEW v \in Reviewers, Forget(v) PROVE RulesSound'
  <2>1. UNCHANGED <<proposals, rules, ruleIds>> /\ review' = [review EXCEPT ![v] = Idle]
    BY <1>5 DEF Forget
  <2> QED BY <1>0, <1>3, <2>1 DEF RulesSound, NamesOwnRule
<1>6. ASSUME NEW r \in rules, DeleteRule(r) PROVE RulesSound'
  <2>1. UNCHANGED <<review, ruleIds>> /\ rules' = rules \ {r}
    BY <1>6 DEF DeleteRule
  <2>2. NamesOwnRule'
    BY <1>0, <1>6, <2>1, DeleteEffect DEF RulesSound, NamesOwnRule
  <2> QED BY <1>0, <2>1, <2>2 DEF RulesSound
<1> QED BY <1>1, <1>2, <1>4, <1>5, <1>6 DEF ReviewStep

-----------------------------------------------------------------------------
(* Copies.                                                                 *)

LEMMA Finite ==
  ASSUME TypeOK, NEW p
  PROVE  /\ IsFiniteSet(Copies(p)) /\ IsFiniteSet(Holders(p)) /\ IsFiniteSet(Running)
         /\ Cardinality(Copies(p)) \in Nat /\ Cardinality(Holders(p)) \in Nat
         /\ Cardinality(Running) \in Nat
<1>1. IsFiniteSet(DOMAIN proposals)
  BY ProposalTypes, FS_Interval
<1>2. Copies(p) \subseteq DOMAIN proposals /\ Holders(p) \subseteq Runs /\ Running \subseteq Runs
  BY DEF Copies, Holders, Running
<1>3. IsFiniteSet(Copies(p)) /\ IsFiniteSet(Holders(p)) /\ IsFiniteSet(Running)
  BY <1>1, <1>2, FS_Subset, ReviewAssumption
<1> QED BY <1>3, FS_CardinalityType

LEMMA SameCopies ==
  ASSUME TypeOK, CopiesSound, SamePatterns, UNCHANGED <<run, atOnce>>
  PROVE  CopiesSound'
<1>1. \A p : Copies(p)' = Copies(p)
  BY DEF SamePatterns, Copies
<1>2. \A p : Holders(p)' = Holders(p)
  BY DEF Holders
<1>3. Running' = Running
  BY DEF Running
<1> QED BY <1>1, <1>2, <1>3 DEF CopiesSound, SamePatterns

(* A pattern that was proposed is not held by the run that starts. *)
LEMMA StartCopies ==
  ASSUME TypeOK, TypeOK', CopiesSound, NEW r \in Runs, StartRun(r) PROVE CopiesSound'
<1>1. /\ run[r] = Idle /\ UNCHANGED proposals
      /\ run' = [run EXCEPT ![r] = [pc |-> "writing", todo |-> Earned \ Proposed]]
      /\ atOnce' >= atOnce /\ atOnce' >= Cardinality(Running) + 1
      /\ atOnce \in Nat /\ atOnce' \in Nat
  BY StartEffect DEF StartRun, TypeOK
<1>2. \A q \in Runs : q # r => run'[q] = run[q]
  BY <1>1 DEF TypeOK
<1>3. run'[r] # Idle /\ run'[r].todo = Earned \ Proposed
  BY <1>1, RunThreads DEF TypeOK, Idle
<1>4. Running' = Running \cup {r} /\ r \notin Running
  BY <1>1, <1>2, <1>3 DEF Running
<1>5. Cardinality(Running') = Cardinality(Running) + 1
  BY <1>4, Finite, FS_AddElement
<1>6. ASSUME Len(proposals) <= ListLimit, NEW p \in Patterns
      PROVE  Cardinality(Copies(p)') + Cardinality(Holders(p)') <= atOnce'
  <2>0. /\ Cardinality(Copies(p)) \in Nat /\ Cardinality(Holders(p)) \in Nat
        /\ IsFiniteSet(Running') /\ Cardinality(Holders(p)') \in Nat
        /\ Copies(p)' = Copies(p)
    <3>1. IsFiniteSet(Running')
      BY <1>4, Finite, FS_AddElement
    <3>2. Holders(p)' \subseteq Running'
      BY DEF Holders, Running
    <3>3. Cardinality(Holders(p)') \in Nat
      BY <3>1, <3>2, FS_Subset, FS_CardinalityType
    <3> QED BY <1>1, <3>1, <3>3, Finite DEF Copies
  <2>1. CASE Copies(p) = {}
    <3>1. Holders(p)' \subseteq Running'
      BY DEF Holders, Running
    <3>2. Cardinality(Holders(p)') <= Cardinality(Running')
      BY <2>0, <3>1, FS_Subset
    <3>3. Cardinality(Copies(p)) = 0
      BY <2>1, FS_EmptySet
    <3> QED BY <1>1, <1>5, <2>0, <3>2, <3>3, Finite
  <2>2. CASE Copies(p) # {}
    <3>1. p \in Proposed
      <4>1. PICK i \in DOMAIN proposals : proposals[i].pattern = p
        BY <2>2 DEF Copies
      <4>2. i > Len(proposals) - ListLimit
        BY <1>6, ProposalTypes, ReviewAssumption
      <4> QED BY <4>1, <4>2 DEF Proposed
    <3>2. Holders(p)' = Holders(p)
      BY <1>1, <1>2, <1>3, <3>1 DEF Holders
    <3>3. Cardinality(Copies(p)) + Cardinality(Holders(p)) <= atOnce
      BY <1>6 DEF CopiesSound
    <3> QED BY <1>1, <2>0, <3>2, <3>3
  <2> QED BY <2>1, <2>2
<1> QED BY <1>1, <1>5, <1>6, Finite DEF CopiesSound

(* The run that writes a copy does not hold the pattern any more. *)
LEMMA ProposeCopies ==
  ASSUME TypeOK, TypeOK', CopiesSound, NEW r \in Runs, NEW p \in Patterns, Propose(r, p)
  PROVE  CopiesSound'
<1>1. /\ run[r].pc = "writing" /\ p \in run[r].todo /\ UNCHANGED atOnce
      /\ run' = [run EXCEPT ![r].todo = @ \ {p}]
  BY DEF Propose
<1>2. run[r] # Idle
  BY <1>1, RunThreads
<1>3. /\ \A q \in Runs : q # r => run'[q] = run[q]
      /\ run'[r].todo = run[r].todo \ {p} /\ run'[r] # Idle
  BY <1>1, <1>2, RunThreads DEF TypeOK
<1>4. Running' = Running
  BY <1>2, <1>3 DEF Running
<1>5. PICK new \in Proposal : new.pattern = p /\ proposals' = Append(proposals, new)
  BY DEF Propose, Proposal, NoRule
<1>6. /\ Len(proposals') = Len(proposals) + 1 /\ Len(proposals) \in Nat
      /\ DOMAIN proposals' = DOMAIN proposals \cup {Len(proposals) + 1}
      /\ \A i \in DOMAIN proposals : proposals'[i] = proposals[i]
      /\ proposals'[Len(proposals) + 1] = new
      /\ Len(proposals) + 1 \notin DOMAIN proposals
  BY <1>5, SeqAppend DEF TypeOK
<1>7. ASSUME NEW q \in Patterns, Len(proposals') <= ListLimit
      PROVE  Cardinality(Copies(q)') + Cardinality(Holders(q)') <= atOnce
  <2>0. /\ Cardinality(Copies(q)) + Cardinality(Holders(q)) <= atOnce /\ atOnce \in Nat
        /\ Cardinality(Copies(q)) \in Nat /\ Cardinality(Holders(q)) \in Nat
        /\ IsFiniteSet(Copies(q)) /\ IsFiniteSet(Holders(q))
    <3>1. Len(proposals) <= ListLimit
      BY <1>6, <1>7, ReviewAssumption
    <3>2. Cardinality(Copies(q)) + Cardinality(Holders(q)) <= atOnce
      BY <3>1 DEF CopiesSound
    <3>3. atOnce \in Nat
      BY DEF TypeOK
    <3> QED BY <3>2, <3>3, Finite
  <2>1. CASE q = p
    <3>1. Copies(q)' = Copies(q) \cup {Len(proposals) + 1}
          /\ Len(proposals) + 1 \notin Copies(q)
      BY <1>5, <1>6, <2>1 DEF Copies
    <3>2. Holders(q)' = Holders(q) \ {r} /\ r \in Holders(q)
      BY <1>1, <1>2, <1>3, <2>1 DEF Holders
    <3>3. Cardinality(Copies(q)') = Cardinality(Copies(q)) + 1
      BY <2>0, <3>1, FS_AddElement
    <3>4. Cardinality(Holders(q)') = Cardinality(Holders(q)) - 1
      BY <2>0, <3>2, FS_RemoveElement
    <3> QED BY <2>0, <3>3, <3>4
  <2>2. CASE q # p
    <3>1. Copies(q)' = Copies(q)
      BY <1>5, <1>6, <2>2 DEF Copies
    <3>2. Holders(q)' = Holders(q)
      BY <1>2, <1>3, <2>2 DEF Holders
    <3> QED BY <2>0, <3>1, <3>2
  <2> QED BY <2>1, <2>2
<1> QED BY <1>1, <1>4, <1>7 DEF CopiesSound

LEMMA EndCopies ==
  ASSUME TypeOK, CopiesSound, NEW r \in Runs, EndRun(r) PROVE CopiesSound'
<1>1. run' = [run EXCEPT ![r] = Idle] /\ UNCHANGED <<proposals, atOnce>> /\ atOnce \in Nat
  BY DEF EndRun, TypeOK
<1>2. \A q \in Runs : run'[q] # Idle => run'[q] = run[q]
  BY <1>1 DEF TypeOK
<1>3. Running' \subseteq Running /\ \A p : Holders(p)' \subseteq Holders(p)
  BY <1>2 DEF Running, Holders
<1>4. /\ Cardinality(Running') <= Cardinality(Running) /\ Cardinality(Running') \in Nat
      /\ \A p : /\ Cardinality(Holders(p)') <= Cardinality(Holders(p))
                /\ Cardinality(Holders(p)') \in Nat
  BY <1>3, Finite, FS_Subset, FS_CardinalityType
<1>5. \A p : Copies(p)' = Copies(p)
  BY <1>1 DEF Copies
<1>6. ASSUME NEW p \in Patterns, Len(proposals) <= ListLimit
      PROVE  Cardinality(Copies(p)') + Cardinality(Holders(p)') <= atOnce
  <2>1. Cardinality(Copies(p)) + Cardinality(Holders(p)) <= atOnce
    BY <1>6 DEF CopiesSound
  <2> QED BY <1>1, <1>4, <1>5, <2>1, Finite
<1>7. Cardinality(Running') <= atOnce
  <2>1. Cardinality(Running) <= atOnce
    BY DEF CopiesSound
  <2>2. Cardinality(Running) \in Nat
    BY Finite
  <2> QED BY <1>1, <1>4, <2>1, <2>2
<1> QED BY <1>1, <1>6, <1>7 DEF CopiesSound

LEMMA LearningCopies ==
  ASSUME TypeOK, CopiesSound, LearningStep PROVE CopiesSound'
<1>0. TypeOK'
  BY LearningFrame
<1>1. CASE \E p \in Patterns, u \in Urgencies : Decide(p, u) \/ Age(p, u)
  <2>1. UNCHANGED <<proposals, run, atOnce>>
    BY <1>1 DEF Decide, Age
  <2>2. SamePatterns
    BY <2>1 DEF SamePatterns, TypeOK
  <2> QED BY <2>1, <2>2, SameCopies
<1> QED BY <1>0, <1>1, StartCopies, ProposeCopies, EndCopies DEF LearningStep

-----------------------------------------------------------------------------
(* Clusters of errors.                                                     *)

LEMMA HandlerTypes ==
  ASSUME TypeOK, NEW h \in Handlers
  PROVE  /\ handler[h].pc = "alone" => handler[h].print \in Prints
         /\ Reading(h) => handler[h].id \in Nat /\ handler[h].row \in ClusterRow
BY DEF TypeOK, Reading, Idle

LEMMA ClusterTypes ==
  ASSUME TypeOK
  PROVE  /\ Len(clusters) \in Nat /\ DOMAIN clusters = 1..Len(clusters)
         /\ \A i \in DOMAIN clusters : clusters[i] \in ClusterRow /\ i \in Nat
BY DEF TypeOK

LEMMA RowType ==
  ASSUME NEW f \in Prints, NEW count \in Nat, NEW threshold \in Nat, NEW lowest \in Nat,
         NEW state \in Open \cup {"recovered", "archived"}
  PROVE  /\ Row(f, count, threshold, lowest, state) \in ClusterRow
         /\ Row(f, count, threshold, lowest, state).count = count
         /\ Row(f, count, threshold, lowest, state).threshold = threshold
         /\ Row(f, count, threshold, lowest, state).lowest = lowest
         /\ Row(f, count, threshold, lowest, state).state = state
BY DEF Row, ClusterRow

LEMMA ClusterEdit ==
  ASSUME TypeOK, NEW i \in DOMAIN clusters, NEW row \in ClusterRow,
         clusters' = [clusters EXCEPT ![i] = row]
  PROVE  /\ clusters' \in Seq(ClusterRow) /\ DOMAIN clusters' = DOMAIN clusters
         /\ \A j \in DOMAIN clusters : clusters'[j] = IF j = i THEN row ELSE clusters[j]
<1>1. \A j \in DOMAIN clusters : clusters'[j] = IF j = i THEN row ELSE clusters[j]
  OBVIOUS
<1>2. \A j \in DOMAIN clusters : clusters'[j] \in ClusterRow
  BY <1>1, ClusterTypes
<1>3. clusters' = [j \in DOMAIN clusters |-> clusters'[j]]
  OBVIOUS
<1> QED BY <1>1, <1>2, <1>3, SeqEdit DEF TypeOK

LEMMA ReceiveClusters ==
  ASSUME TypeOK, ClustersSound, NEW h \in Handlers, NEW f \in Prints, NEW error \in BOOLEAN,
         NEW recovery \in BOOLEAN, Receive(h, f, error, recovery)
  PROVE  TypeOK' /\ ClustersSound'
<1>1. /\ handler[h] = Idle /\ events' = events + 1 /\ events \in Nat
      /\ UNCHANGED <<clusters, seen, proposals, rules, run, review, made, atOnce, ruleIds, edits>>
  BY DEF Receive, TypeOK, learning
<1>2. ASSUME NEW new, handler' = [handler EXCEPT ![h] = new],
             \/ /\ new = [pc |-> "alone", print |-> f, error |-> error]
             \/ \E i \in OpenRows(f) :
                  new = [pc |-> IF recovery THEN "recover" ELSE "count", id |-> i,
                         row |-> clusters[i]]
      PROVE  TypeOK' /\ ClustersSound'
  <2>1. /\ handler'[h] = new
        /\ \A g \in Handlers : g # h => handler'[g] = handler[g]
    BY <1>2 DEF TypeOK
  <2>2. \A i \in OpenRows(f) : i \in DOMAIN clusters /\ i \in Nat /\ clusters[i] \in ClusterRow
    BY ClusterTypes DEF OpenRows
  <2>3. \/ new \in [pc : {"alone"}, print : Prints, error : BOOLEAN]
        \/ new \in [pc : {"count", "recover"}, id : Nat, row : ClusterRow]
    BY <1>2, <2>2
  <2>4. TypeOK'
    BY <1>1, <1>2, <2>3 DEF TypeOK
  <2>5. \A i \in DOMAIN clusters : EarnedRow(clusters[i]) /\ clusters[i].count <= events
                                   /\ clusters[i].count \in Nat /\ clusters[i].lowest \in Nat
    BY ClusterTypes DEF ClustersSound, ClusterRow
  <2>6. \A i \in DOMAIN clusters : clusters[i].count <= events'
    BY <1>1, <2>5
  <2>7. \A g \in Handlers :
          /\ handler'[g].pc = "alone" => events' >= 1
          /\ Reading(g)' =>
               /\ handler'[g].id \in DOMAIN clusters
               /\ EarnedRow(handler'[g].row)
               /\ handler'[g].row.count + 1 <= events'
               /\ clusters[handler'[g].id].lowest <= handler'[g].row.lowest
    <3> SUFFICES ASSUME NEW g \in Handlers
                 PROVE  /\ handler'[g].pc = "alone" => events' >= 1
                        /\ Reading(g)' =>
                             /\ handler'[g].id \in DOMAIN clusters
                             /\ EarnedRow(handler'[g].row)
                             /\ handler'[g].row.count + 1 <= events'
                             /\ clusters[handler'[g].id].lowest <= handler'[g].row.lowest
      OBVIOUS
    <3>1. CASE g # h
      <4>1. handler'[g] = handler[g]
        BY <2>1, <3>1
      <4>2. Reading(g) => handler[g].row.count \in Nat
        BY HandlerTypes DEF ClusterRow
      <4> QED BY <1>1, <4>1, <4>2 DEF ClustersSound, Reading
    <3>2. CASE g = h /\ new = [pc |-> "alone", print |-> f, error |-> error]
      BY <1>1, <2>1, <3>2 DEF Reading
    <3>3. ASSUME NEW i \in OpenRows(f), g = h,
                 new = [pc |-> IF recovery THEN "recover" ELSE "count", id |-> i,
                        row |-> clusters[i]]
          PROVE  /\ handler'[g].pc = "alone" => events' >= 1
                 /\ Reading(g)' =>
                      /\ handler'[g].id \in DOMAIN clusters
                      /\ EarnedRow(handler'[g].row)
                      /\ handler'[g].row.count + 1 <= events'
                      /\ clusters[handler'[g].id].lowest <= handler'[g].row.lowest
      <4>1. handler'[g].id = i /\ handler'[g].row = clusters[i] /\ handler'[g].pc # "alone"
        BY <2>1, <3>3
      <4> QED BY <1>1, <2>2, <2>5, <4>1
    <3> QED BY <1>2, <3>1, <3>2, <3>3
  <2> QED BY <1>1, <2>4, <2>5, <2>6, <2>7 DEF ClustersSound
<1>3. \/ handler' = [handler EXCEPT ![h] = [pc |-> "alone", print |-> f, error |-> error]]
      \/ \E i \in OpenRows(f) :
           handler' = [handler EXCEPT ![h] =
              [pc |-> IF recovery THEN "recover" ELSE "count", id |-> i, row |-> clusters[i]]]
  BY DEF Receive
<1> QED BY <1>2, <1>3

(* A handler that ends leaves the others what they read, if the cluster it *)
(* wrote has no greater least threshold than before.                       *)
LEMMA HandlerEnds ==
  ASSUME TypeOK, ClustersSound, NEW h \in Handlers, handler' = [handler EXCEPT ![h] = Idle],
         clusters' \in Seq(ClusterRow), DOMAIN clusters \subseteq DOMAIN clusters',
         UNCHANGED <<events, seen, proposals, rules, run, review, made, atOnce, ruleIds, edits>>,
         \A i \in DOMAIN clusters' : EarnedRow(clusters'[i]) /\ clusters'[i].count <= events,
         \A i \in DOMAIN clusters : clusters'[i].lowest <= clusters[i].lowest
  PROVE  TypeOK' /\ ClustersSound'
<1>1. handler'[h] = Idle /\ \A g \in Handlers : g # h => handler'[g] = handler[g]
  BY DEF TypeOK
<1>2. TypeOK'
  BY DEF TypeOK
<1>3. \A i \in DOMAIN clusters : clusters[i].lowest \in Nat /\ clusters'[i].lowest \in Nat
  <2>1. \A i \in DOMAIN clusters : clusters'[i] \in ClusterRow
    BY SeqElements
  <2> QED BY <2>1, ClusterTypes DEF ClusterRow
<1>4. \A g \in Handlers :
          /\ handler'[g].pc = "alone" => events >= 1
          /\ Reading(g)' =>
               /\ handler'[g].id \in DOMAIN clusters'
               /\ EarnedRow(handler'[g].row)
               /\ handler'[g].row.count + 1 <= events
               /\ clusters'[handler'[g].id].lowest <= handler'[g].row.lowest
  <2> SUFFICES ASSUME NEW g \in Handlers, g # h
               PROVE  /\ handler'[g].pc = "alone" => events >= 1
                      /\ Reading(g)' =>
                           /\ handler'[g].id \in DOMAIN clusters'
                           /\ EarnedRow(handler'[g].row)
                           /\ handler'[g].row.count + 1 <= events
                           /\ clusters'[handler'[g].id].lowest <= handler'[g].row.lowest
    BY <1>1 DEF Reading, Idle
  <2>1. handler'[g] = handler[g]
    BY <1>1
  <2>2. Reading(g) => handler[g].row.lowest \in Nat
    BY HandlerTypes DEF ClusterRow
  <2> QED BY <1>3, <2>1, <2>2 DEF ClustersSound, Reading
<1> QED BY <1>2, <1>4 DEF ClustersSound

LEMMA CreateClusters ==
  ASSUME TypeOK, ClustersSound, NEW h \in Handlers, Create(h) PROVE TypeOK' /\ ClustersSound'
<1>1. /\ handler[h].pc = "alone" /\ handler' = [handler EXCEPT ![h] = Idle]
      /\ UNCHANGED <<events, seen, proposals, rules, run, review, made, atOnce, ruleIds, edits>>
  BY DEF Create, learning
<1>2. PICK new : new = Row(handler[h].print, 1, FirstThreshold, FirstThreshold, "accumulating")
  OBVIOUS
<1>3. FirstThreshold \in Nat /\ handler[h].print \in Prints /\ events >= 1
  BY <1>1, HandlerTypes, ReviewAssumption DEF ClustersSound
<1>4. new \in ClusterRow /\ EarnedRow(new) /\ new.count <= events
  <2>1. "accumulating" \in Open \cup {"recovered", "archived"}
    BY DEF Open
  <2> QED BY <1>2, <1>3, <2>1, RowType DEF EarnedRow
<1>5. \A i \in DOMAIN clusters : /\ EarnedRow(clusters[i]) /\ clusters[i].count <= events
                                /\ clusters[i].lowest \in Nat
  BY ClusterTypes DEF ClustersSound, ClusterRow
<1>6. CASE clusters' = clusters
  <2>1. clusters' \in Seq(ClusterRow) /\ \A i \in DOMAIN clusters :
                                             clusters'[i].lowest <= clusters[i].lowest
    BY <1>5, <1>6 DEF TypeOK
  <2> QED BY <1>1, <1>5, <1>6, <2>1, HandlerEnds
<1>7. CASE clusters' = Append(clusters, new)
  <2>1. /\ clusters' \in Seq(ClusterRow)
        /\ DOMAIN clusters' = DOMAIN clusters \cup {Len(clusters) + 1}
        /\ \A i \in DOMAIN clusters : clusters'[i] = clusters[i]
        /\ clusters'[Len(clusters) + 1] = new
    BY <1>4, <1>7, SeqAppend DEF TypeOK
  <2>2. \A i \in DOMAIN clusters' : EarnedRow(clusters'[i]) /\ clusters'[i].count <= events
    BY <1>4, <1>5, <2>1
  <2>3. \A i \in DOMAIN clusters : clusters'[i].lowest <= clusters[i].lowest
    BY <1>5, <2>1
  <2> QED BY <1>1, <2>1, <2>2, <2>3, HandlerEnds
<1> QED BY <1>2, <1>6, <1>7 DEF Create

(* The count and the state that a handler writes are earned even when what *)
(* it read is old: the cluster's least threshold is no greater now.        *)
LEMMA CountClusters ==
  ASSUME TypeOK, ClustersSound, NEW h \in Handlers, Count(h) PROVE TypeOK' /\ ClustersSound'
<1>1. /\ handler[h].pc = "count" /\ handler' = [handler EXCEPT ![h] = Idle]
      /\ UNCHANGED <<events, seen, proposals, rules, run, review, made, atOnce, ruleIds, edits>>
  BY DEF Count, learning
<1>2. PICK i \in DOMAIN clusters, row \in ClusterRow :
        /\ handler[h].id = i /\ handler[h].row = row
        /\ EarnedRow(row) /\ row.count + 1 <= events /\ clusters[i].lowest <= row.lowest
  BY <1>1, HandlerTypes DEF ClustersSound, Reading
<1>3. PICK old \in ClusterRow : /\ clusters[i] = old /\ EarnedRow(old)
                               /\ old.lowest <= row.lowest
  BY <1>2, ClusterTypes DEF ClustersSound
<1>4. PICK new : new = Row(old.print, row.count + 1, old.threshold, old.lowest, Counted(row))
  OBVIOUS
<1>5. /\ old.print \in Prints /\ old.threshold \in Nat /\ old.lowest \in Nat
      /\ row.count \in Nat /\ row.threshold \in Nat /\ row.lowest \in Nat
      /\ row.state \in Open \cup {"recovered", "archived"}
      /\ Counted(row) \in Open \cup {"recovered", "archived"}
  BY DEF ClusterRow, Counted, Open
<1>6. /\ new \in ClusterRow /\ new.count = row.count + 1 /\ new.threshold = old.threshold
      /\ new.lowest = old.lowest /\ new.state = Counted(row)
  <2>1. PICK n \in Nat, s \in Open \cup {"recovered", "archived"} :
          n = row.count + 1 /\ s = Counted(row)
    BY <1>5
  <2>2. new = Row(old.print, n, old.threshold, old.lowest, s)
    BY <1>4, <2>1
  <2>3. PICK p \in Prints, t \in Nat, l \in Nat :
          p = old.print /\ t = old.threshold /\ l = old.lowest
    BY <1>5
  <2>4. new = Row(p, n, t, l, s)
    BY <2>2, <2>3
  <2>5. /\ new \in ClusterRow /\ new.count = n /\ new.threshold = t
        /\ new.lowest = l /\ new.state = s
    BY <2>4, RowType
  <2> QED BY <2>1, <2>3, <2>5
<1>7. EarnedRow(new) /\ new.count <= events
  <2>1. Counted(row) = "ticket_opened" => row.count + 1 >= row.lowest
    BY <1>2, <1>5 DEF Counted, EarnedRow
  <2>2. new.lowest <= new.threshold
    BY <1>3, <1>6 DEF EarnedRow
  <2>3. new.state = "ticket_opened" => new.count >= new.lowest
    BY <1>3, <1>5, <1>6, <2>1
  <2> QED BY <1>2, <1>6, <2>2, <2>3 DEF EarnedRow
<1>8. clusters' = [clusters EXCEPT ![i] = new]
  BY <1>2, <1>3, <1>4 DEF Count
<1>9. /\ clusters' \in Seq(ClusterRow) /\ DOMAIN clusters' = DOMAIN clusters
      /\ \A j \in DOMAIN clusters : clusters'[j] = IF j = i THEN new ELSE clusters[j]
  BY <1>6, <1>8, ClusterEdit
<1>10. \A j \in DOMAIN clusters : /\ EarnedRow(clusters[j]) /\ clusters[j].count <= events
                                 /\ clusters[j].lowest \in Nat
  BY ClusterTypes DEF ClustersSound, ClusterRow
<1>11. /\ \A j \in DOMAIN clusters' : EarnedRow(clusters'[j]) /\ clusters'[j].count <= events
       /\ \A j \in DOMAIN clusters : clusters'[j].lowest <= clusters[j].lowest
  BY <1>3, <1>6, <1>7, <1>9, <1>10
<1> QED BY <1>1, <1>9, <1>11, HandlerEnds

(* A state that is not ticket_opened is always earned. *)
LEMMA StateEdit ==
  ASSUME TypeOK, ClustersSound, NEW i \in DOMAIN clusters, NEW state \in {"recovered", "archived"},
         clusters' = [clusters EXCEPT ![i].state = state]
  PROVE  /\ clusters' \in Seq(ClusterRow) /\ DOMAIN clusters' = DOMAIN clusters
         /\ \A j \in DOMAIN clusters : EarnedRow(clusters'[j]) /\ clusters'[j].count <= events
         /\ \A j \in DOMAIN clusters : clusters'[j].lowest <= clusters[j].lowest
<1>1. PICK old \in ClusterRow : clusters[i] = old /\ EarnedRow(old) /\ old.count <= events
  BY ClusterTypes DEF ClustersSound
<1>2. PICK new : new = [old EXCEPT !.state = state]
  OBVIOUS
<1>3. /\ new \in ClusterRow /\ new.state = state /\ new.count = old.count
      /\ new.threshold = old.threshold /\ new.lowest = old.lowest /\ new.lowest \in Nat
  BY <1>2 DEF ClusterRow
<1>4. clusters' = [clusters EXCEPT ![i] = new]
  BY <1>1, <1>2
<1>5. /\ clusters' \in Seq(ClusterRow) /\ DOMAIN clusters' = DOMAIN clusters
      /\ \A j \in DOMAIN clusters : clusters'[j] = IF j = i THEN new ELSE clusters[j]
  BY <1>3, <1>4, ClusterEdit
<1>6. EarnedRow(new) /\ new.count <= events
  BY <1>1, <1>3 DEF EarnedRow
<1>7. \A j \in DOMAIN clusters : /\ EarnedRow(clusters[j]) /\ clusters[j].count <= events
                                /\ clusters[j].lowest \in Nat
  BY ClusterTypes DEF ClustersSound, ClusterRow
<1> QED BY <1>1, <1>3, <1>5, <1>6, <1>7

LEMMA RecoverClusters ==
  ASSUME TypeOK, ClustersSound, NEW h \in Handlers, Recover(h) PROVE TypeOK' /\ ClustersSound'
<1>1. /\ handler[h].pc = "recover" /\ handler' = [handler EXCEPT ![h] = Idle]
      /\ clusters' = [clusters EXCEPT ![handler[h].id].state = "recovered"]
      /\ UNCHANGED <<events, seen, proposals, rules, run, review, made, atOnce, ruleIds, edits>>
  BY DEF Recover, learning
<1>2. handler[h].id \in DOMAIN clusters
  BY <1>1 DEF ClustersSound, Reading
<1> QED BY <1>1, <1>2, StateEdit, HandlerEnds

(* An operator's edit raises no least threshold. *)
LEMMA OperatorClusters ==
  ASSUME TypeOK, ClustersSound, clusters' \in Seq(ClusterRow),
         DOMAIN clusters' = DOMAIN clusters, edits' \in Nat,
         UNCHANGED <<handler, events, seen, proposals, rules, run, review, made, atOnce, ruleIds>>,
         \A i \in DOMAIN clusters : EarnedRow(clusters'[i]) /\ clusters'[i].count <= events,
         \A i \in DOMAIN clusters : clusters'[i].lowest <= clusters[i].lowest
  PROVE  TypeOK' /\ ClustersSound'
<1>1. TypeOK'
  BY DEF TypeOK
<1>2. \A i \in DOMAIN clusters : clusters[i].lowest \in Nat /\ clusters'[i].lowest \in Nat
  <2>1. \A i \in DOMAIN clusters : clusters'[i] \in ClusterRow
    BY SeqElements
  <2> QED BY <2>1, ClusterTypes DEF ClusterRow
<1>3. ASSUME NEW h \in Handlers, Reading(h)
      PROVE  clusters'[handler[h].id].lowest <= handler[h].row.lowest
  <2>1. PICK i \in DOMAIN clusters : handler[h].id = i
    BY <1>3 DEF ClustersSound
  <2>2. PICK least \in Nat : handler[h].row.lowest = least
    BY <1>3, HandlerTypes DEF ClusterRow
  <2>3. clusters[i].lowest <= least
    BY <1>3, <2>1, <2>2 DEF ClustersSound
  <2> QED BY <1>2, <2>1, <2>2, <2>3
<1> QED BY <1>1, <1>3 DEF ClustersSound, Reading

LEMMA ThresholdClusters ==
  ASSUME TypeOK, ClustersSound, NEW i \in DOMAIN clusters, NEW n \in Thresholds,
         SetThreshold(i, n)
  PROVE  TypeOK' /\ ClustersSound'
<1>1. /\ Edit
      /\ UNCHANGED <<handler, events, seen, proposals, rules, run, review, made, atOnce, ruleIds>>
  BY DEF SetThreshold, learning
<1>2. PICK old \in ClusterRow : clusters[i] = old /\ EarnedRow(old) /\ old.count <= events
  BY ClusterTypes DEF ClustersSound
<1>3. /\ n \in Nat /\ old.print \in Prints /\ old.count \in Nat /\ old.lowest \in Nat
      /\ old.state \in Open \cup {"recovered", "archived"}
  BY ReviewAssumption DEF ClusterRow
<1>4. PICK least \in Nat : least = Min({n, old.lowest}) /\ least <= n /\ least <= old.lowest
  BY <1>3, MinTwo
<1>5. PICK new : new = Row(old.print, old.count, n, least, old.state)
  OBVIOUS
<1>6. /\ new \in ClusterRow /\ new.count = old.count /\ new.threshold = n
      /\ new.lowest = least /\ new.state = old.state
  BY <1>3, <1>5, RowType
<1>7. clusters' = [clusters EXCEPT ![i] = new]
  BY <1>2, <1>4, <1>5 DEF SetThreshold
<1>8. /\ clusters' \in Seq(ClusterRow) /\ DOMAIN clusters' = DOMAIN clusters
      /\ \A j \in DOMAIN clusters : clusters'[j] = IF j = i THEN new ELSE clusters[j]
  BY <1>6, <1>7, ClusterEdit
<1>9. EarnedRow(new) /\ new.count <= events
  BY <1>2, <1>3, <1>4, <1>6 DEF EarnedRow
<1>10. \A j \in DOMAIN clusters : /\ EarnedRow(clusters[j]) /\ clusters[j].count <= events
                                 /\ clusters[j].lowest \in Nat
  BY ClusterTypes DEF ClustersSound, ClusterRow
<1>11. /\ \A j \in DOMAIN clusters : EarnedRow(clusters'[j]) /\ clusters'[j].count <= events
       /\ \A j \in DOMAIN clusters : clusters'[j].lowest <= clusters[j].lowest
  BY <1>2, <1>4, <1>6, <1>8, <1>9, <1>10
<1> QED BY <1>1, <1>8, <1>11, EditType, OperatorClusters

LEMMA ClusterSound ==
  ASSUME TypeOK, ClustersSound, Cluster PROVE TypeOK' /\ ClustersSound'
<1>1. ASSUME NEW i \in DOMAIN clusters, NEW s \in {"recovered", "archived"}, Close(i, s)
      PROVE  TypeOK' /\ ClustersSound'
  <2>1. /\ Edit /\ clusters' = [clusters EXCEPT ![i].state = s]
        /\ UNCHANGED <<handler, events, seen, proposals, rules, run, review, made, atOnce, ruleIds>>
    BY <1>1 DEF Close, learning
  <2> QED BY <2>1, EditType, StateEdit, OperatorClusters
<1> QED BY <1>1, ReceiveClusters, CreateClusters, CountClusters, RecoverClusters,
           ThresholdClusters DEF Cluster

-----------------------------------------------------------------------------
(* The theorems.                                                           *)

LEMMA InitInv == Init => IInv
<1> SUFFICES ASSUME Init PROVE IInv
  OBVIOUS
<1>1. TypeOK
  BY InitType
<1>2. CopiesSound
  <2>1. /\ Running = {} /\ atOnce = 0
        /\ \A p \in Patterns : Copies(p) = {} /\ Holders(p) = {}
    BY DEF Init, Running, Copies, Holders
  <2>2. Cardinality(Running) = 0
    BY <2>1, FS_EmptySet
  <2>3. \A p \in Patterns : Cardinality(Copies(p)) = 0 /\ Cardinality(Holders(p)) = 0
    BY <2>1, FS_EmptySet
  <2> QED BY <2>1, <2>2, <2>3 DEF CopiesSound
<1>3. RulesSound
  BY DEF Init, RulesSound, NamesOwnRule
<1>4. ClustersSound
  BY DEF Init, ClustersSound, Reading, Idle
<1> QED BY <1>1, <1>2, <1>3, <1>4 DEF IInv

LEMMA SameClusters ==
  ASSUME ClustersSound, UNCHANGED <<clusters, handler, events>> PROVE ClustersSound'
BY DEF ClustersSound, Reading

LEMMA StepInv == IInv /\ [Next]_vars => IInv'
<1> SUFFICES ASSUME IInv, [Next]_vars PROVE IInv'
  OBVIOUS
<1>0. TypeOK /\ CopiesSound /\ RulesSound /\ ClustersSound
  BY DEF IInv
<1>1. CASE LearningStep
  <2>1. RulesSound'
    BY <1>0, <1>1, LearningFrame DEF RulesSound, NamesOwnRule
  <2>2. ClustersSound'
    BY <1>0, <1>1, LearningFrame, SameClusters
  <2> QED BY <1>0, <1>1, <2>1, <2>2, LearningFrame, LearningCopies DEF IInv
<1>2. CASE ReviewStep
  <2>1. TypeOK' /\ SamePatterns /\ UNCHANGED <<run, atOnce, clusters, handler, events>>
    BY <1>0, <1>2, ReviewType
  <2>2. CopiesSound'
    BY <1>0, <2>1, SameCopies
  <2>3. ClustersSound'
    BY <1>0, <2>1, SameClusters
  <2> QED BY <1>0, <1>2, <2>1, <2>2, <2>3, ReviewRules DEF IInv
<1>3. CASE Cluster
  <2>1. UNCHANGED <<proposals, rules, run, review, atOnce, ruleIds>>
    BY <1>3 DEF Cluster, Receive, Create, Count, Recover, Close, SetThreshold, learning
  <2>2. SamePatterns
    BY <1>0, <2>1 DEF SamePatterns, TypeOK
  <2>3. CopiesSound'
    BY <1>0, <2>1, <2>2, SameCopies
  <2>4. RulesSound'
    BY <1>0, <2>1 DEF RulesSound, NamesOwnRule
  <2> QED BY <1>0, <1>3, <2>3, <2>4, ClusterSound DEF IInv
<1>4. CASE UNCHANGED vars
  <2>1. UNCHANGED <<proposals, rules, run, review, atOnce, ruleIds, clusters, handler, events>>
    BY <1>4 DEF vars, learning, erring
  <2>2. TypeOK'
    BY <1>0, <1>4 DEF TypeOK, vars, learning, erring
  <2>3. SamePatterns
    BY <1>0, <2>1 DEF SamePatterns, TypeOK
  <2>4. CopiesSound'
    BY <1>0, <2>1, <2>3, SameCopies
  <2>5. RulesSound'
    BY <1>0, <2>1 DEF RulesSound, NamesOwnRule
  <2>6. ClustersSound'
    BY <1>0, <2>1, SameClusters
  <2> QED BY <2>2, <2>4, <2>5, <2>6 DEF IInv
<1> QED BY <1>1, <1>2, <1>3, <1>4, Groups

THEOREM InvariantIInv == Spec => []IInv
BY InitInv, StepInv, PTL DEF Spec

(* Every variable of the proposer, the review and the clusters has its type. *)
THEOREM TypeCorrect == Spec => []TypeOK
BY InvariantIInv, PTL DEF IInv

(* However many runs of the proposer and reviews there are at one time:    *)
(* while the proposals fit in one list, a pattern has at most one proposal *)
(* per run that was under way beside the others.                           *)
THEOREM FewCopies == Spec => []CopiesBounded
<1>1. IInv => CopiesBounded
  <2> SUFFICES ASSUME IInv, Len(proposals) <= ListLimit, NEW p \in Patterns
               PROVE  Cardinality(Copies(p)) <= atOnce
    BY DEF CopiesBounded, Copies
  <2>1. TypeOK /\ Cardinality(Copies(p)) + Cardinality(Holders(p)) <= atOnce
    BY DEF IInv, CopiesSound
  <2>2. atOnce \in Nat
    BY <2>1 DEF TypeOK
  <2> QED BY <2>1, <2>2, Finite
<1> QED BY <1>1, InvariantIInv, PTL

(* A proposal never names the rule of another one, nor one that is gone.   *)
THEOREM OwnRules == Spec => []NamesOwnRule
<1>1. IInv => NamesOwnRule
  BY DEF IInv, RulesSound
<1> QED BY <1>1, InvariantIInv, PTL

(* Handlers that overwrite each other may lose counts, but never open a    *)
(* cluster that was below every threshold it had.                          *)
THEOREM Earning == Spec => []OpenedWasEarned
<1>1. IInv => OpenedWasEarned
  BY DEF IInv, ClustersSound, EarnedRow, OpenedWasEarned
<1> QED BY <1>1, InvariantIInv, PTL


-----------------------------------------------------------------------------
(* Induction over finite sets, and what it says of a total.                *)

LEMMA Least ==
  ASSUME NEW T \in SUBSET Nat, T # {}
  PROVE  \E x \in T : \A y \in T : x <= y
<1> DEFINE R == {ss \in Nat \X Nat : ss[1] < ss[2]}
<1>1. IsWellFoundedOn(R, Nat)
  BY NatLessThanWellFounded DEF OpToRel
<1>2. PICK x \in T : \A y \in T : ~(<<y, x>> \in R)
  <2> HIDE DEF R
  <2> QED BY <1>1, WFMin
<1>3. \A y \in T : ~(y < x)
  BY <1>2
<1> QED BY <1>3

(* A family of subsets that has a set when it has it without any one of    *)
(* its elements has them all.                                              *)
LEMMA SetInduction ==
  ASSUME NEW S, IsFiniteSet(S), NEW P \in SUBSET (SUBSET S), {} \in P,
         \A s \in SUBSET S : s # {} /\ (\A y \in s : s \ {y} \in P) => s \in P
  PROVE  \A s \in SUBSET S : s \in P
<1> SUFFICES ASSUME NEW b \in SUBSET S, b \notin P PROVE FALSE
  OBVIOUS
<1> DEFINE Bad == {s \in SUBSET S : s \notin P}
           Sizes == {Cardinality(s) : s \in Bad}
<1>1. \A s \in SUBSET S : IsFiniteSet(s) /\ Cardinality(s) \in Nat
  BY FS_Subset, FS_CardinalityType
<1>2. Sizes \in SUBSET Nat /\ Sizes # {}
  BY <1>1
<1>3. PICK n \in Sizes : \A k \in Sizes : n <= k
  <2> HIDE DEF Sizes
  <2> QED BY <1>2, Least
<1>4. PICK s \in Bad : n = Cardinality(s)
  BY <1>3
<1>5. s \in SUBSET S /\ s # {} /\ s \notin P
  BY <1>4
<1>6. ASSUME NEW y \in s PROVE s \ {y} \in P
  <2>1. IsFiniteSet(s) /\ Cardinality(s) \in Nat
    BY <1>1, <1>5
  <2>2. Cardinality(s \ {y}) = Cardinality(s) - 1
    BY <2>1, FS_RemoveElement
  <2>3. s \ {y} \in SUBSET S /\ Cardinality(s \ {y}) \in Nat
    BY <1>1, <1>5
  <2>4. Cardinality(s \ {y}) \notin Sizes
    <3> HIDE DEF Sizes
    <3> QED BY <1>3, <1>4, <2>1, <2>2, <2>3
  <2> QED BY <2>3, <2>4
<1> QED BY <1>5, <1>6

(* g is the total of c over every subset of S, in the order MapThenSumSet  *)
(* takes the elements.                                                     *)
One(s) == CHOOSE x \in s : TRUE
Totals(g, c, S) ==
  g = [s \in SUBSET S |-> IF s = {} THEN 0 ELSE c[One(s)] + g[s \ {One(s)}]]
Total(c, S) == (CHOOSE g : Totals(g, c, S))[S]

LEMMA OneIn == \A s : s # {} => One(s) \in s
BY DEF One

LEMMA TotalsStep ==
  ASSUME NEW S, NEW c, NEW g, Totals(g, c, S)
  PROVE  /\ g[{}] = 0
         /\ \A s \in SUBSET S : s # {} => g[s] = c[One(s)] + g[s \ {One(s)}]
BY DEF Totals

LEMMA TotalsTake ==
  ASSUME NEW S, NEW c, NEW g, Totals(g, c, S), NEW s \in SUBSET S, s # {}
  PROVE  \E x \in s : g[s] = c[x] + g[s \ {x}]
<1>1. g[s] = c[One(s)] + g[s \ {One(s)}]
  BY TotalsStep
<1>2. One(s) \in s
  BY OneIn
<1> QED BY <1>1, <1>2

(* Totals up to every size, one size after the other. *)
LEMMA TotalsExist ==
  ASSUME NEW S, IsFiniteSet(S), NEW c
  PROVE  \E g : Totals(g, c, S)
<1> DEFINE F(g, s) == IF s = {} THEN 0 ELSE c[One(s)] + g[s \ {One(s)}]
           Upto(n) == {s \in SUBSET S : Cardinality(s) <= n}
           Good == {n \in Nat : \E g : g = [s \in Upto(n) |-> F(g, s)]}
<1>1. \A s \in SUBSET S : IsFiniteSet(s) /\ Cardinality(s) \in Nat /\ Cardinality(s) <= Cardinality(S)
  BY FS_Subset, FS_CardinalityType
<1>2. 0 \in Good
  <2> DEFINE g0 == [s \in Upto(0) |-> 0]
  <2>1. \A s \in Upto(0) : s = {}
    BY <1>1, FS_EmptySet
  <2>2. g0 = [s \in Upto(0) |-> F(g0, s)]
    BY <2>1
  <2> QED BY <2>2
<1>3. ASSUME NEW n \in Good PROVE n + 1 \in Good
  <2>1. PICK g : g = [s \in Upto(n) |-> F(g, s)]
    OBVIOUS
  <2> DEFINE h == [s \in Upto(n + 1) |-> F(g, s)]
  <2>2. ASSUME NEW s \in Upto(n + 1), s # {} PROVE s \ {One(s)} \in Upto(n)
    <3>1. One(s) \in s /\ IsFiniteSet(s) /\ Cardinality(s) \in Nat
      BY <1>1, <2>2, OneIn
    <3>2. Cardinality(s \ {One(s)}) = Cardinality(s) - 1
      BY <3>1, FS_RemoveElement
    <3> QED BY <3>1, <3>2
  <2>3. \A s \in Upto(n) : s \in Upto(n + 1) /\ h[s] = g[s]
    <3>1. \A s \in Upto(n) : s \in Upto(n + 1)
      BY <1>1
    <3>2. \A s \in Upto(n) : g[s] = F(g, s)
      <4> HIDE DEF F, Upto
      <4> QED BY <2>1
    <3> HIDE DEF F, Upto
    <3> QED BY <3>1, <3>2
  <2>4. \A s \in Upto(n + 1) : F(h, s) = F(g, s)
    <3> HIDE DEF Upto, h
    <3> QED BY <2>2, <2>3
  <2>5. h = [s \in Upto(n + 1) |-> F(h, s)]
    <3> HIDE DEF Upto, F
    <3> QED BY <2>4
  <2> HIDE DEF h, F, Upto
  <2> QED BY <2>5
<1>4. \A n \in Nat : n \in Good
  <2> SUFFICES ASSUME NEW b \in Nat, b \notin Good PROVE FALSE
    OBVIOUS
  <2> HIDE DEF Good
  <2> DEFINE Bad == {n \in Nat : n \notin Good}
  <2>1. PICK n \in Bad : \A k \in Bad : n <= k
    <3>1. Bad \in SUBSET Nat /\ Bad # {}
      OBVIOUS
    <3> HIDE DEF Bad
    <3> QED BY <3>1, Least
  <2>2. n # 0
    BY <1>2
  <2>3. n - 1 \in Nat /\ n - 1 \in Good
    BY <2>1, <2>2
  <2> QED BY <1>3, <2>1, <2>3
<1>5. Cardinality(S) \in Nat /\ Upto(Cardinality(S)) = SUBSET S
  BY <1>1
<1>6. PICK g : g = [s \in SUBSET S |-> F(g, s)]
  BY <1>4, <1>5
<1> QED BY <1>6 DEF Totals

LEMMA TotalIs ==
  ASSUME NEW S, IsFiniteSet(S), NEW c
  PROVE  \E g : Totals(g, c, S) /\ Total(c, S) = g[S]
BY TotalsExist DEF Total

LEMMA TotalsNat ==
  ASSUME NEW S, IsFiniteSet(S), NEW c, \A x \in S : c[x] \in Nat,
         NEW g, Totals(g, c, S)
  PROVE  \A s \in SUBSET S : g[s] \in Nat
<1> DEFINE P == {s \in SUBSET S : g[s] \in Nat}
<1>1. {} \in P
  BY TotalsStep
<1>2. ASSUME NEW s \in SUBSET S, s # {}, \A y \in s : s \ {y} \in P PROVE s \in P
  <2>1. PICK x \in s : g[s] = c[x] + g[s \ {x}]
    BY <1>2, TotalsTake
  <2> QED BY <1>2, <2>1
<1>3. P \in SUBSET (SUBSET S)
  OBVIOUS
<1>4. \A s \in SUBSET S : s \in P
  <2> HIDE DEF P
  <2> QED BY <1>1, <1>2, <1>3, SetInduction
<1> QED BY <1>4

(* The elements may be taken in any order. *)
LEMMA TotalsAny ==
  ASSUME NEW S, IsFiniteSet(S), NEW c, \A x \in S : c[x] \in Nat,
         NEW g, Totals(g, c, S)
  PROVE  \A s \in SUBSET S : \A y \in s : g[s] = c[y] + g[s \ {y}]
<1> DEFINE P == {s \in SUBSET S : \A y \in s : g[s] = c[y] + g[s \ {y}]}
<1>1. {} \in P
  OBVIOUS
<1>2. ASSUME NEW s \in SUBSET S, s # {}, \A y \in s : s \ {y} \in P PROVE s \in P
  <2>1. PICK x \in s : g[s] = c[x] + g[s \ {x}]
    BY <1>2, TotalsTake
  <2>2. ASSUME NEW y \in s, y # x PROVE g[s] = c[y] + g[s \ {y}]
    <3>1. PICK u \in SUBSET S : u = (s \ {x}) \ {y} /\ u = (s \ {y}) \ {x}
      BY <1>2, <2>1
    <3>2. g[s \ {x}] = c[y] + g[u]
      BY <1>2, <2>1, <2>2, <3>1
    <3>3. g[s \ {y}] = c[x] + g[u]
      BY <1>2, <2>1, <2>2, <3>1
    <3>4. c[x] \in Nat /\ c[y] \in Nat /\ g[u] \in Nat
      BY <1>2, TotalsNat
    <3> QED BY <2>1, <3>2, <3>3, <3>4
  <2> QED BY <2>1, <2>2
<1>3. P \in SUBSET (SUBSET S)
  OBVIOUS
<1>4. \A s \in SUBSET S : s \in P
  <2> HIDE DEF P
  <2> QED BY <1>1, <1>2, <1>3, SetInduction
<1> QED BY <1>4

Alike(c, e, S) == \A x \in S : c[x] = e[x]

(* The total of a set depends on what its own elements count, and on       *)
(* nothing else.                                                           *)
LEMMA TotalsAgree ==
  ASSUME NEW S, NEW T, NEW U, IsFiniteSet(U), U \in SUBSET S, U \in SUBSET T,
         NEW c, NEW e, Alike(c, e, U),
         NEW g, Totals(g, c, S), NEW h, Totals(h, e, T)
  PROVE  g[U] = h[U]
<1>g. /\ g[{}] = 0
      /\ \A u \in SUBSET S : u # {} => g[u] = c[One(u)] + g[u \ {One(u)}]
  BY ONLY Totals(g, c, S), TotalsStep
<1>h. /\ h[{}] = 0
      /\ \A u \in SUBSET T : u # {} => h[u] = e[One(u)] + h[u \ {One(u)}]
  BY ONLY Totals(h, e, T), TotalsStep
<1>0. /\ g[{}] = h[{}]
      /\ \A u \in SUBSET S : u # {} => g[u] = c[One(u)] + g[u \ {One(u)}]
      /\ \A u \in SUBSET T : u # {} => h[u] = e[One(u)] + h[u \ {One(u)}]
  BY <1>g, <1>h
<1> DEFINE P == {s \in SUBSET U : g[s] = h[s]}
<1>1. {} \in P
  BY <1>0
<1>2. ASSUME NEW s \in SUBSET U, s # {}, \A y \in s : s \ {y} \in P PROVE s \in P
  <2>1. One(s) \in s /\ g[s \ {One(s)}] = h[s \ {One(s)}] /\ c[One(s)] = e[One(s)]
    BY <1>2, OneIn DEF Alike
  <2>2. s \in SUBSET S /\ s \in SUBSET T
    BY <1>2
  <2>3. g[s] = c[One(s)] + g[s \ {One(s)}]
    BY <1>0, <1>2, <2>2
  <2>4. h[s] = e[One(s)] + h[s \ {One(s)}]
    BY <1>0, <1>2, <2>2
  <2> QED BY <2>1, <2>3, <2>4
<1>3. P \in SUBSET (SUBSET U)
  OBVIOUS
<1>4. \A s \in SUBSET U : s \in P
  <2> HIDE DEF P
  <2> QED BY <1>1, <1>2, <1>3, SetInduction
<1> QED BY <1>4

(* Totals of numbers: the type, one element more, one that counts          *)
(* differently, and a bound.                                               *)
LEMMA TotalNat ==
  ASSUME NEW S, IsFiniteSet(S), NEW c, \A x \in S : c[x] \in Nat
  PROVE  Total(c, S) \in Nat
BY TotalIs, TotalsNat

LEMMA TotalWithout ==
  ASSUME NEW S, IsFiniteSet(S), NEW c, \A x \in S : c[x] \in Nat, NEW y \in S
  PROVE  Total(c, S) = c[y] + Total(c, S \ {y})
<1>1. IsFiniteSet(S \ {y})
  BY FS_Subset
<1>2. PICK g : Totals(g, c, S) /\ Total(c, S) = g[S]
  BY TotalIs
<1>3. PICK h : Totals(h, c, S \ {y}) /\ Total(c, S \ {y}) = h[S \ {y}]
  BY <1>1, TotalIs
<1>4. g[S \ {y}] = h[S \ {y}]
  <2>1. Alike(c, c, S \ {y}) /\ S \ {y} \in SUBSET S /\ S \ {y} \in SUBSET (S \ {y})
    BY DEF Alike
  <2> QED BY <1>1, <1>2, <1>3, <2>1, TotalsAgree
<1>5. g[S] = c[y] + g[S \ {y}]
  BY <1>2, TotalsAny
<1> QED BY <1>2, <1>3, <1>4, <1>5

LEMMA TotalSame ==
  ASSUME NEW S, IsFiniteSet(S), NEW c, NEW e, \A x \in S : c[x] = e[x]
  PROVE  Total(c, S) = Total(e, S)
<1>1. Alike(c, e, S)
  BY DEF Alike
<1>2. PICK g : Totals(g, c, S) /\ Total(c, S) = g[S]
  BY TotalIs
<1>3. PICK h : Totals(h, e, S) /\ Total(e, S) = h[S]
  BY TotalIs
<1>4. S \in SUBSET S
  OBVIOUS
<1>5. g[S] = h[S]
  BY <1>1, <1>2, <1>3, <1>4, TotalsAgree
<1> QED BY <1>2, <1>3, <1>5

LEMMA TotalChange ==
  ASSUME NEW S, IsFiniteSet(S), NEW c, \A x \in S : c[x] \in Nat,
         NEW e, \A x \in S : e[x] \in Nat,
         NEW y \in S, \A x \in S \ {y} : c[x] = e[x]
  PROVE  Total(e, S) + c[y] = Total(c, S) + e[y]
<1> DEFINE R == S \ {y}
<1>1. IsFiniteSet(R) /\ \A x \in R : c[x] \in Nat
  BY FS_Subset
<1>2. Total(c, S) = c[y] + Total(c, R) /\ Total(e, S) = e[y] + Total(e, R)
  BY TotalWithout
<1>3. Total(c, R) = Total(e, R) /\ Total(c, R) \in Nat
  BY <1>1, TotalSame, TotalNat
<1> QED BY <1>2, <1>3

LEMMA TotalMore ==
  ASSUME NEW S, IsFiniteSet(S), NEW y, y \notin S,
         NEW c, \A x \in S \cup {y} : c[x] \in Nat
  PROVE  Total(c, S \cup {y}) = Total(c, S) + c[y]
<1>1. IsFiniteSet(S \cup {y}) /\ (S \cup {y}) \ {y} = S
  BY FS_AddElement
<1>2. Total(c, S \cup {y}) = c[y] + Total(c, S)
  BY <1>1, TotalWithout
<1>3. Total(c, S) \in Nat /\ c[y] \in Nat
  BY TotalNat
<1> QED BY <1>2, <1>3

LEMMA Times ==
  ASSUME NEW M \in Nat, NEW a \in Nat, NEW b \in Nat
  PROVE  /\ a * M \in Nat
         /\ (a + 1) * M = a * M + M
         /\ a <= b => a * M <= b * M
<1>1. a * M \in Nat /\ (a + 1) * M = a * M + M
  OBVIOUS
<1>2. ASSUME a <= b PROVE a * M <= b * M
  <2>1. PICK k \in Nat : b = a + k
    <3>1. b - a \in Nat /\ b = a + (b - a)
      BY <1>2
    <3> QED BY <3>1
  <2>2. b * M = a * M + k * M /\ k * M \in Nat
    BY <2>1
  <2> QED BY <1>1, <2>2
<1> QED BY <1>1, <1>2

LEMMA TotalBound ==
  ASSUME NEW S, IsFiniteSet(S), NEW c, NEW M \in Nat,
         NEW U \in SUBSET S, \A x \in U : c[x] \in 0..M, \A x \in S \ U : c[x] = 0
  PROVE  Total(c, S) <= Cardinality(U) * M
<1>1. PICK g : Totals(g, c, S) /\ Total(c, S) = g[S]
  BY TotalIs
<1>2. \A x \in S : c[x] \in Nat
  OBVIOUS
<1>3. \A s \in SUBSET S : g[s] \in Nat
  BY <1>1, <1>2, TotalsNat
<1>4. \A s \in SUBSET U : IsFiniteSet(s) /\ Cardinality(s) \in Nat
  <2>1. IsFiniteSet(U)
    BY FS_Subset
  <2> QED BY <2>1, FS_Subset, FS_CardinalityType
<1> DEFINE P == {s \in SUBSET S : g[s] <= Cardinality(s \cap U) * M}
<1>5. {} \in P
  <2>1. {} \cap U = {} /\ Cardinality({}) = 0 /\ g[{}] = 0
    BY <1>1, TotalsStep, FS_EmptySet
  <2> QED BY <2>1
<1>6. ASSUME NEW s \in SUBSET S, s # {}, \A y \in s : s \ {y} \in P PROVE s \in P
  <2>1. PICK y \in s : g[s] = c[y] + g[s \ {y}]
    BY <1>1, <1>6, TotalsTake
  <2>2. g[s \ {y}] <= Cardinality((s \ {y}) \cap U) * M /\ g[s \ {y}] \in Nat
    BY <1>3, <1>6
  <2>3. CASE y \in U
    <3> DEFINE v == s \cap U
    <3>1. v \in SUBSET U /\ y \in v /\ (s \ {y}) \cap U = v \ {y}
      BY <2>3
    <3> HIDE DEF v
    <3>0. IsFiniteSet(v) /\ Cardinality(v) \in Nat /\ Cardinality(v \ {y}) \in Nat
      <4>1. v \ {y} \in SUBSET U
        BY <3>1
      <4> QED BY <1>4, <3>1, <4>1
    <3>2. PICK k \in Nat : k = Cardinality(v \ {y})
      BY <3>0
    <3>3. Cardinality(v) = k + 1
      <4>1. Cardinality(v \ {y}) = Cardinality(v) - 1
        BY <3>0, <3>1, FS_RemoveElement
      <4> QED BY <3>0, <3>2, <4>1
    <3>4. (k + 1) * M = k * M + M /\ k * M \in Nat
      BY <3>2, Times
    <3>5. c[y] \in Nat /\ c[y] <= M
      BY <2>3
    <3>6. g[s \ {y}] <= k * M
      BY <2>2, <3>1, <3>2
    <3>7. g[s] <= (k + 1) * M
      BY <2>1, <2>2, <3>4, <3>5, <3>6
    <3> QED BY <3>3, <3>7 DEF v
  <2>4. CASE y \notin U
    <3>1. (s \ {y}) \cap U = s \cap U /\ c[y] = 0
      BY <2>4
    <3>2. g[s] = g[s \ {y}]
      BY <2>1, <2>2, <3>1
    <3> QED BY <2>2, <3>1, <3>2
  <2> QED BY <2>3, <2>4
<1>7. P \in SUBSET (SUBSET S)
  OBVIOUS
<1>8. \A s \in SUBSET S : s \in P
  <2> HIDE DEF P
  <2> QED BY <1>5, <1>6, <1>7, SetInduction
<1>9. S \cap U = U
  OBVIOUS
<1> QED BY <1>1, <1>8, <1>9

(* MapThenSumSet of a field is the total of that field. *)
LEMMA SumOfCosts ==
  ASSUME NEW D, NEW S \in SUBSET D, IsFiniteSet(S)
  PROVE  MapThenSumSet(LAMBDA d : d.cost, S) = Total([d \in D |-> d.cost], S)
<1> DEFINE c == [d \in D |-> d.cost]
           F(iter) == [s \in SUBSET S |-> IF s = {} THEN 0
                          ELSE (CHOOSE x \in s : TRUE).cost + iter[s \ {CHOOSE x \in s : TRUE}]]
<1>1. MapThenSumSet(LAMBDA d : d.cost, S) = (CHOOSE iter : iter = F(iter))[S]
  BY DEF MapThenSumSet, MapThenFoldSet
<1>2. \A iter : \A s \in SUBSET S : F(iter)[s] = IF s = {} THEN 0 ELSE c[One(s)] + iter[s \ {One(s)}]
  <2>1. \A s \in SUBSET S : s # {} => One(s) \in D
    BY OneIn
  <2> QED BY <2>1 DEF One
<1>3. \A iter : iter = F(iter) <=> Totals(iter, c, S)
  <2> SUFFICES ASSUME NEW iter PROVE iter = F(iter) <=> Totals(iter, c, S)
    OBVIOUS
  <2>1. F(iter) = [s \in SUBSET S |-> IF s = {} THEN 0 ELSE c[One(s)] + iter[s \ {One(s)}]]
    <3>1. F(iter) = [s \in SUBSET S |-> F(iter)[s]]
      OBVIOUS
    <3> HIDE DEF F, c
    <3> QED BY <1>2, <3>1
  <2> HIDE DEF F, c
  <2> QED BY <2>1 DEF Totals
<1>4. PICK g : g = F(g)
  <2>1. \E g : Totals(g, c, S)
    BY TotalsExist
  <2> HIDE DEF F, c
  <2> QED BY <1>3, <2>1
<1> DEFINE h == CHOOSE iter : iter = F(iter)
<1>5. h = F(h)
  <2> HIDE DEF F
  <2> QED BY <1>4
<1>6. Totals(h, c, S)
  <2> HIDE DEF F, c, h
  <2> QED BY <1>3, <1>5
<1>7. PICK k : Totals(k, c, S) /\ Total(c, S) = k[S]
  BY TotalIs
<1>8. h[S] = k[S]
  <2> HIDE DEF c, h
  <2>1. Alike(c, c, S) /\ S \in SUBSET S
    BY DEF Alike
  <2> QED BY <1>6, <1>7, <2>1, TotalsAgree
<1> HIDE DEF c, h, F
<1>9. Total(c, S) = h[S]
  BY <1>7, <1>8
<1>10. MapThenSumSet(LAMBDA d : d.cost, S) = h[S]
  BY <1>1 DEF h
<1> QED BY <1>9, <1>10 DEF c
-----------------------------------------------------------------------------
(* Types.                                                                  *)

LEMMA AnswerTypes ==
  /\ Failure \in Answers
  /\ \A p \in Providers : \A reply \in Replies(p) : reply \in Answers
<1>1. Failure \in Answers
  <2>1. MaxCost \in Nat
    BY AiAssumption
  <2> QED BY <2>1 DEF Failure, Answers
<1>2. ASSUME NEW p \in Providers, NEW reply \in Replies(p) PROVE reply \in Answers
  <2>1. CostsOf[p] \in SUBSET (0..MaxCost)
    BY AiAssumption
  <2> QED BY <1>2, <2>1 DEF Replies, Answers
<1> QED BY <1>1, <1>2

LEMMA JobTypes == \A m \in Mails : JobOf(m) \in Jobs
BY DEF JobOf, Jobs

LEMMA BindingTypes ==
  /\ \A i \in Ids : RowOf(i) \in SUBSET Bindings
  /\ \A b \in Bindings : /\ b.id \in Ids /\ b.id # 0 /\ b.job \in Jobs
                         /\ b.provider \in Providers /\ b.fallback \in Targets
                         /\ b.enabled \in BOOLEAN /\ b.version \in Nat
                         /\ b \in RowOf(b.id)
  /\ NoRow.id = 0
<1>1. \A i \in Ids : i # 0
  BY AiAssumption DEF Ids
<1>2. ASSUME NEW i \in Ids, NEW b \in RowOf(i)
      PROVE  /\ b.id = i /\ b.job \in Jobs
             /\ b.provider \in Providers /\ b.fallback \in Targets
             /\ b.enabled \in BOOLEAN /\ b.version \in Nat
  BY <1>2 DEF RowOf
<1>3. \A b \in Bindings : \E i \in Ids : b \in RowOf(i)
  BY DEF Bindings
<1>4. \A i \in Ids : RowOf(i) \in SUBSET Bindings
  BY DEF Bindings
<1> QED BY <1>1, <1>2, <1>3, <1>4 DEF NoRow

LEMMA AssistantInitType == AssistantInit => AssistantTypeOK
<1> SUFFICES ASSUME AssistantInit PROVE AssistantTypeOK
  OBVIOUS
<1>1. \A i \in Ids : bindings[i] \in RowOf(i) \cup {NoRow}
  BY AiAssumption DEF AssistantInit, RowOf, Targets
<1>2. bindings \in [Ids -> Bindings \cup {NoRow}]
  <2>1. bindings = [i \in Ids |-> bindings[i]]
    BY DEF AssistantInit
  <2> QED BY <1>1, <2>1, BindingTypes
<1>3. /\ work \in [Threads -> Works] /\ console \in [Operators -> {Free} \cup [pc : {"write", "audit"}, target : {"live", "shadow"}]]
  BY DEF AssistantInit, Works
<1>4. /\ decisions \in SUBSET DecisionRows /\ IsFiniteSet(decisions)
  BY FS_EmptySet DEF AssistantInit
<1>5. /\ today \in 1..MaxDays /\ utc \in 1..MaxDays
  BY AiAssumption DEF AssistantInit
<1>6. /\ providers \in [Providers -> {"absent", "on", "off"}]
  BY AiAssumption DEF AssistantInit
<1> QED BY <1>1, <1>2, <1>3, <1>4, <1>5, <1>6 DEF AssistantInit, AssistantTypeOK

LEMMA RouteTypes ==
  ASSUME AssistantTypeOK
  PROVE  Current \in [rows : SUBSET Bindings, known : SUBSET Providers]
<1>1. \A i \in Ids : bindings[i].id # 0 => bindings[i] \in Bindings
  BY BindingTypes DEF AssistantTypeOK
<1>2. \A j \in Jobs : Enabled(j) \in SUBSET Bindings
  BY <1>1 DEF Enabled
<1>3. UNION {Enabled(j) : j \in Jobs} \in SUBSET Bindings
  BY <1>2
<1>4. Known \in SUBSET Providers
  BY DEF Known
<1> QED BY <1>3, <1>4 DEF Current

(* What a request step does to the thread, the mail and the rest. *)
LEMMA AdmitEffect ==
  ASSUME AssistantTypeOK, NEW t \in Threads, NEW m \in Mails, Admit(t, m)
  PROVE  /\ work[t] = Free /\ mail[m] = "waiting"
         /\ \A u \in Threads : work[u] # Free => work[u].mail # m
         /\ cache' \in [Workers -> {NoCache} \cup [rows : SUBSET Bindings, known : SUBSET Providers]]
         /\ UNCHANGED <<tables, decisions, days, billed, lived, crashes>>
         /\ \/ mail' = [mail EXCEPT ![m] = "skipped"] /\ UNCHANGED <<work, peak>>
            \/ /\ m \in Classified => SpentToday < Budget
               /\ UNCHANGED mail
               /\ \E p \in Providers : \E f \in Targets :
                    work' = [work EXCEPT ![t] = [pc |-> "calling", mail |-> m, first |-> p, fallback |-> f]]
               /\ peak' = Max({peak, Cardinality({u \in Threads : work'[u] # Free})})
<1>1. /\ work[t] = Free /\ mail[m] = "waiting"
      /\ \A u \in Threads : work[u] # Free => work[u].mail # m
      /\ UNCHANGED <<tables, decisions, days, billed, lived, crashes>>
  BY DEF Admit
<1>2. CASE /\ ~enabled \/ ~WithinBudget(m)
           /\ mail' = [mail EXCEPT ![m] = "skipped"] /\ UNCHANGED <<work, peak, cache>>
  BY <1>1, <1>2 DEF AssistantTypeOK
<1>3. CASE /\ enabled /\ WithinBudget(m)
           /\ LET w == WorkerOf[t]
                  c == IF cache[w] = NoCache THEN Current ELSE cache[w]
              IN cache' = [cache EXCEPT ![w] = c] /\ Pick(t, m, c)
  <2>1. WorkerOf[t] \in Workers
    BY AiAssumption
  <2>2. PICK w \in Workers : w = WorkerOf[t]
    BY <2>1
  <2>3. PICK c \in [rows : SUBSET Bindings, known : SUBSET Providers] :
          c = IF cache[w] = NoCache THEN Current ELSE cache[w]
    BY RouteTypes DEF AssistantTypeOK
  <2>4. cache' = [cache EXCEPT ![w] = c] /\ Pick(t, m, c)
    BY <1>3, <2>2, <2>3
  <2>5. cache' \in [Workers -> {NoCache} \cup [rows : SUBSET Bindings, known : SUBSET Providers]]
    BY <2>3, <2>4 DEF AssistantTypeOK
  <2>6. CASE mail' = [mail EXCEPT ![m] = "skipped"] /\ UNCHANGED <<work, peak>>
    BY <1>1, <2>5, <2>6
  <2>7. CASE \E b \in c.rows :
        /\ b.job = JobOf(m) /\ b.provider \in c.known
        /\ work' = [work EXCEPT ![t] = [pc |-> "calling", mail |-> m,
                                        first |-> b.provider, fallback |-> b.fallback]]
        /\ peak' = Max({peak, Cardinality({u \in Threads : work'[u] # Free})})
        /\ UNCHANGED mail
    <3>1. PICK b \in Bindings :
        /\ work' = [work EXCEPT ![t] = [pc |-> "calling", mail |-> m,
                                        first |-> b.provider, fallback |-> b.fallback]]
        /\ peak' = Max({peak, Cardinality({u \in Threads : work'[u] # Free})})
        /\ UNCHANGED mail
      BY <2>7
    <3>2. b.provider \in Providers /\ b.fallback \in Targets
      BY BindingTypes
    <3>3. \E p \in Providers : \E f \in Targets :
                    work' = [work EXCEPT ![t] = [pc |-> "calling", mail |-> m, first |-> p, fallback |-> f]]
      BY <3>1, <3>2
    <3>4. m \in Classified => SpentToday < Budget
      BY <1>3 DEF WithinBudget
    <3> QED BY <1>1, <2>5, <3>1, <3>3, <3>4
  <2> QED BY <2>4, <2>6, <2>7 DEF Pick
<1> QED BY <1>2, <1>3 DEF Admit

LEMMA CallEffect ==
  ASSUME AssistantTypeOK, NEW t \in Threads, CallProvider(t) \/ CallFallback(t)
  PROVE  /\ work[t].pc \in {"calling", "fallback"}
         /\ UNCHANGED <<tables, decisions, cache, mail, days, peak, lived, crashes>>
         /\ \/ \E reply \in Answers :
                 /\ Replied(t, reply)
                 /\ billed' = IF work[t].mail \in Classified
                                THEN [billed EXCEPT ![today] = @ + reply.cost] ELSE billed
            \/ \E p \in Providers :
                 /\ work[t].pc = "calling" /\ work[t].mail \in Classified
                 /\ work' = [work EXCEPT ![t] = [pc |-> "fallback", mail |-> work[t].mail,
                                                first |-> work[t].first, fallback |-> p]]
                 /\ UNCHANGED billed
<1>1. /\ work[t].pc \in {"calling", "fallback"}
      /\ UNCHANGED <<tables, decisions, cache, mail, days, peak, lived, crashes>>
  BY DEF CallProvider, CallFallback
<1>2. work[t] \in [pc : {"calling"}, mail : Mails, first : Providers, fallback : Targets]
                \cup [pc : {"fallback"}, mail : Classified, first : Providers, fallback : Providers]
  BY <1>1 DEF AssistantTypeOK, Works, Free
<1>3. work[t].first \in Providers /\ (work[t].pc = "fallback" => work[t].fallback \in Providers)
  BY <1>2
<1>4. ASSUME Replied(t, Failure), UNCHANGED billed
      PROVE  \E reply \in Answers :
                 /\ Replied(t, reply)
                 /\ billed' = IF work[t].mail \in Classified
                                THEN [billed EXCEPT ![today] = @ + reply.cost] ELSE billed
  <2>1. Failure.cost = 0
    BY DEF Failure
  <2>2. billed = [billed EXCEPT ![today] = @ + Failure.cost]
    BY <2>1 DEF AssistantTypeOK
  <2>3. billed' = IF work[t].mail \in Classified
                                THEN [billed EXCEPT ![today] = @ + Failure.cost] ELSE billed
    BY <1>4, <2>2
  <2> QED BY <1>4, <2>3, AnswerTypes
<1>5. ASSUME NEW p \in Providers, NEW reply \in Replies(p), Replied(t, reply), Bill(t, reply)
      PROVE  \E r \in Answers :
                 /\ Replied(t, r)
                 /\ billed' = IF work[t].mail \in Classified
                                THEN [billed EXCEPT ![today] = @ + r.cost] ELSE billed
  BY <1>5, AnswerTypes DEF Bill
<1>6. CASE CallFallback(t)
  BY <1>1, <1>3, <1>4, <1>5, <1>6 DEF CallFallback
<1>7. CASE CallProvider(t)
  <2>1. ASSUME work[t].mail \in Classified, work[t].fallback # NoProvider, work[t].pc = "calling",
               work' = [work EXCEPT ![t].pc = "fallback"]
        PROVE  \E p \in Providers :
                 work' = [work EXCEPT ![t] = [pc |-> "fallback", mail |-> work[t].mail,
                                                first |-> work[t].first, fallback |-> p]]
    <3>1. work[t].fallback \in Providers
      BY <1>2, <2>1 DEF Targets
    <3>2. [work[t] EXCEPT !.pc = "fallback"] =
             [pc |-> "fallback", mail |-> work[t].mail, first |-> work[t].first, fallback |-> work[t].fallback]
      BY <1>2
    <3>3. work' = [work EXCEPT ![t] = [work[t] EXCEPT !.pc = "fallback"]]
      BY <2>1
    <3> QED BY <3>1, <3>2, <3>3
  <2> QED BY <1>1, <1>3, <1>4, <1>5, <1>7, <2>1 DEF CallProvider
<1> QED BY <1>6, <1>7

LEMMA OutcomeTypes ==
  /\ \A m \in Mails : Unanswered(m) \in Outcomes \ ByAI
  /\ \A m \in Mails : \A d : d.error \in BOOLEAN /\ d.applied \in BOOLEAN =>
        Acted(m, d) \in Outcomes /\ (Acted(m, d) \in ByAI => d.applied)
  /\ Outcomes \cap {"new", "waiting"} = {} /\ "skipped" \in Outcomes \ ByAI
<1>1. \A m \in Mails : m \in Labelled \/ m \in Classified
  BY DEF Mails
<1>2. \A m \in Mails : Unanswered(m) \in Outcomes \ ByAI
  BY DEF Unanswered, Outcomes, ByAI
<1>3. ASSUME NEW m \in Mails, NEW d, d.error \in BOOLEAN, d.applied \in BOOLEAN
      PROVE  Acted(m, d) \in Outcomes /\ (Acted(m, d) \in ByAI => d.applied)
  BY <1>1, <1>3 DEF Acted, Outcomes, ByAI
<1> QED BY <1>2, <1>3 DEF Outcomes, ByAI

(* A request has a mail; its answer reaches the mail that still waits. *)
LEMMA BusyMail ==
  ASSUME AssistantTypeOK, NEW t \in Threads, work[t] # Free
  PROVE  work[t].mail \in Mails
<1>1. work[t] \in Works \ {Free}
  BY DEF AssistantTypeOK
<1>2. Classified \in SUBSET Mails
  BY DEF Mails
<1> QED BY <1>1, <1>2 DEF Works

LEMMA AnswerType ==
  ASSUME AssistantTypeOK, NEW t \in Threads, work[t] # Free, NEW result \in Outcomes,
         Answer(t, result)
  PROVE  /\ work' = [work EXCEPT ![t] = Free] /\ work' \in [Threads -> Works]
         /\ mail' \in [Mails -> {"new", "waiting"} \cup Outcomes]
         /\ \A m \in Mails : \/ mail'[m] = mail[m]
                             \/ m = work[t].mail /\ mail[m] = "waiting" /\ mail'[m] = result
         /\ mail'[work[t].mail] # "waiting"
<1>1. PICK m \in Mails : m = work[t].mail
  BY BusyMail
<1>2. /\ mail' = IF mail[m] = "waiting" THEN [mail EXCEPT ![m] = result] ELSE mail
      /\ work' = [work EXCEPT ![t] = Free]
  BY <1>1 DEF Answer
<1>3. Free \in Works
  BY DEF Works
<1>4. mail \in [Mails -> {"new", "waiting"} \cup Outcomes] /\ work \in [Threads -> Works]
  BY DEF AssistantTypeOK
<1>5. result # "waiting"
  BY OutcomeTypes
<1> QED BY <1>1, <1>2, <1>3, <1>4, <1>5

LEMMA RecordEffect ==
  ASSUME AssistantTypeOK, NEW t \in Threads, Record(t)
  PROVE  \E d \in DecisionRows :
           /\ work[t].pc = "replied" /\ work[t] # Free
           /\ d.mail = work[t].mail /\ d.cost = work[t].reply.cost /\ d.day = utc
           /\ d.applied => ~shadow /\ ~d.error
           /\ decisions' = decisions \cup {d}
           /\ Answer(t, Acted(d.mail, d)) /\ Acted(d.mail, d) \in Outcomes
           /\ Acted(d.mail, d) \in ByAI => d.applied
           /\ UNCHANGED <<tables, cache, days, history>>
<1>1. work[t].pc = "replied" /\ work[t] # Free /\ UNCHANGED <<tables, cache, days, history>>
  BY DEF Record, Free
<1>2. work[t] \in [pc : {"replied"}, mail : Mails, reply : Answers]
  BY <1>1 DEF AssistantTypeOK, Works
<1>3. PICK m \in Mails : m = work[t].mail
  BY <1>2
<1>4. PICK reply \in Answers : reply = work[t].reply
  BY <1>2
<1>5. Applies(m, reply) \in BOOLEAN /\ (Applies(m, reply) => ~shadow /\ ~reply.error)
  BY DEF Applies
<1>6. PICK a \in BOOLEAN : a = Applies(m, reply)
  BY <1>5
<1> DEFINE d == [mail |-> m, cost |-> reply.cost, error |-> reply.error, day |-> utc,
                 suggestion |-> reply.suggestion, applied |-> a]
<1>7. decisions' = decisions \cup {d} /\ Answer(t, Acted(m, d))
  BY <1>3, <1>4, <1>6 DEF Record
<1>8. utc \in 1..MaxDays
  BY DEF AssistantTypeOK
<1>9. /\ reply.cost \in 0..MaxCost /\ reply.error \in BOOLEAN
      /\ reply.suggestion \in Suggestions \cup {NoSuggestion}
  BY <1>4 DEF Answers
<1>10. d \in DecisionRows
  BY <1>6, <1>8, <1>9 DEF DecisionRows
<1>11. /\ d.mail = m /\ d.cost = reply.cost /\ d.day = utc /\ d.applied = a /\ d.error = reply.error
       /\ d.error \in BOOLEAN /\ d.applied \in BOOLEAN
  BY <1>6, <1>9
<1> HIDE DEF d
<1>12. Acted(m, d) \in Outcomes /\ (Acted(m, d) \in ByAI => d.applied)
  BY <1>11, OutcomeTypes
<1> QED BY <1>1, <1>3, <1>4, <1>5, <1>6, <1>7, <1>10, <1>11, <1>12

LEMMA DieEffect ==
  ASSUME AssistantTypeOK, NEW t \in Threads, Die(t)
  PROVE  /\ work[t] # Free /\ crashes' = crashes + 1
         /\ Answer(t, Unanswered(work[t].mail)) /\ Unanswered(work[t].mail) \in Outcomes \ ByAI
         /\ UNCHANGED <<tables, decisions, cache, days, billed, peak, lived>>
BY BusyMail, OutcomeTypes DEF Die

(* The variables of the pages, and those of the requests. *)
ConsoleTypeOK ==
    /\ enabled \in BOOLEAN /\ shadow \in BOOLEAN
    /\ bindings \in [Ids -> Bindings \cup {NoRow}]
    /\ \A i \in Ids : bindings[i] \in RowOf(i) \cup {NoRow}
    /\ providers \in [Providers -> {"absent", "on", "off"}]
    /\ audit \in Seq({"live", "shadow"})
    /\ saving \in [Workers -> BOOLEAN]
    /\ console \in [Operators -> {Free} \cup [pc : {"write", "audit"}, target : {"live", "shadow"}]]
    /\ saver \in Workers \cup {"nobody"} /\ changes \in Nat

RequestTypeOK ==
    /\ decisions \in SUBSET DecisionRows /\ IsFiniteSet(decisions)
    /\ cache \in [Workers -> {NoCache} \cup [rows : SUBSET Bindings, known : SUBSET Providers]]
    /\ work \in [Threads -> Works]
    /\ mail \in [Mails -> {"new", "waiting"} \cup Outcomes]
    /\ today \in 1..MaxDays /\ utc \in 1..MaxDays
    /\ billed \in [1..MaxDays -> Nat]
    /\ peak \in Nat /\ lived \in SUBSET Mails /\ crashes \in Nat

LEMMA TypeParts ==
  /\ AssistantTypeOK <=> ConsoleTypeOK /\ RequestTypeOK
  /\ AssistantTypeOK' <=> ConsoleTypeOK' /\ RequestTypeOK'
BY DEF AssistantTypeOK, ConsoleTypeOK, RequestTypeOK

LEMMA SameConsole ==
  ASSUME ConsoleTypeOK, UNCHANGED tables PROVE ConsoleTypeOK'
BY DEF ConsoleTypeOK, tables

LEMMA PeakTypes ==
  ASSUME NEW p \in Nat, NEW n \in Nat
  PROVE  Max({p, n}) \in Nat /\ Max({p, n}) >= p /\ Max({p, n}) >= n
<1>1. \E x \in {p, n} : \A y \in {p, n} : x >= y
  OBVIOUS
<1>2. Max({p, n}) \in {p, n} /\ \A y \in {p, n} : Max({p, n}) >= y
  BY <1>1 DEF Max
<1> QED BY <1>2

LEMMA FiniteThreads ==
  ASSUME NEW S \in SUBSET Threads
  PROVE  IsFiniteSet(S) /\ Cardinality(S) \in Nat
BY AiAssumption, FS_Subset, FS_CardinalityType

LEMMA RequestType ==
  ASSUME AssistantTypeOK, NEW t \in Threads, Request(t)
  PROVE  AssistantTypeOK'
<1> USE DEF days, history
<1>1. ASSUME NEW m \in Mails, Admit(t, m) PROVE AssistantTypeOK'
  <2>1. UNCHANGED tables /\ ConsoleTypeOK
    BY <1>1, AdmitEffect, TypeParts
  <2>2. /\ cache' \in [Workers -> {NoCache} \cup [rows : SUBSET Bindings, known : SUBSET Providers]]
        /\ UNCHANGED <<decisions, days, billed, lived, crashes>>
    BY <1>1, AdmitEffect
  <2>3. CASE mail' = [mail EXCEPT ![m] = "skipped"] /\ UNCHANGED <<work, peak>>
    <3>1. mail' \in [Mails -> {"new", "waiting"} \cup Outcomes]
      BY <2>3, OutcomeTypes DEF AssistantTypeOK
    <3>2. RequestTypeOK'
      BY <2>2, <2>3, <3>1 DEF AssistantTypeOK, RequestTypeOK
    <3> QED BY <2>1, <3>2, SameConsole, TypeParts
  <2>4. CASE /\ UNCHANGED mail
             /\ \E p \in Providers : \E f \in Targets :
                    work' = [work EXCEPT ![t] = [pc |-> "calling", mail |-> m, first |-> p, fallback |-> f]]
             /\ peak' = Max({peak, Cardinality({u \in Threads : work'[u] # Free})})
    <3>1. \A p \in Providers : \A f \in Targets :
             [pc |-> "calling", mail |-> m, first |-> p, fallback |-> f] \in Works
      BY DEF Works
    <3>2. work' \in [Threads -> Works]
      BY <2>4, <3>1 DEF AssistantTypeOK
    <3>3. peak' \in Nat
      BY <2>4, PeakTypes, FiniteThreads DEF AssistantTypeOK
    <3>4. RequestTypeOK'
      BY <2>2, <2>4, <3>2, <3>3 DEF AssistantTypeOK, RequestTypeOK
    <3> QED BY <2>1, <3>4, SameConsole, TypeParts
  <2> QED BY <1>1, <2>3, <2>4, AdmitEffect
<1>2. ASSUME CallProvider(t) \/ CallFallback(t) PROVE AssistantTypeOK'
  <2>1. UNCHANGED tables /\ ConsoleTypeOK
    BY <1>2, CallEffect, TypeParts
  <2>2. work[t].pc \in {"calling", "fallback"} /\ UNCHANGED <<decisions, cache, mail, days, peak, lived, crashes>>
    BY <1>2, CallEffect
  <2>3. work[t] # Free /\ work[t].mail \in Mails
    BY <2>2, BusyMail DEF Free
  <2>4. work[t].first \in Providers
    BY <2>2 DEF AssistantTypeOK, Works, Free
  <2>5. work' \in [Threads -> Works] /\ billed' \in [1..MaxDays -> Nat]
    <3>1. ASSUME NEW reply \in Answers, Replied(t, reply),
                 billed' = IF work[t].mail \in Classified
                                THEN [billed EXCEPT ![today] = @ + reply.cost] ELSE billed
          PROVE  work' \in [Threads -> Works] /\ billed' \in [1..MaxDays -> Nat]
      <4>1. [pc |-> "replied", mail |-> work[t].mail, reply |-> reply] \in Works
        BY <2>3 DEF Works
      <4>2. reply.cost \in Nat
        BY AiAssumption DEF Answers
      <4> QED BY <3>1, <4>1, <4>2 DEF Replied, AssistantTypeOK
    <3>2. ASSUME NEW p \in Providers, work[t].mail \in Classified, UNCHANGED billed,
                 work' = [work EXCEPT ![t] = [pc |-> "fallback", mail |-> work[t].mail,
                                              first |-> work[t].first, fallback |-> p]]
          PROVE  work' \in [Threads -> Works] /\ billed' \in [1..MaxDays -> Nat]
      <4>1. [pc |-> "fallback", mail |-> work[t].mail, first |-> work[t].first, fallback |-> p] \in Works
        BY <2>4, <3>2 DEF Works
      <4> QED BY <3>2, <4>1 DEF AssistantTypeOK
    <3> QED BY <1>2, <3>1, <3>2, CallEffect
  <2>6. RequestTypeOK'
    BY <2>2, <2>5 DEF AssistantTypeOK, RequestTypeOK
  <2> QED BY <2>1, <2>6, SameConsole, TypeParts
<1>3. ASSUME Record(t) PROVE AssistantTypeOK'
  <2>1. PICK d \in DecisionRows :
           /\ work[t] # Free /\ decisions' = decisions \cup {d}
           /\ Answer(t, Acted(d.mail, d)) /\ Acted(d.mail, d) \in Outcomes
           /\ UNCHANGED <<tables, cache, days, history>>
    BY <1>3, RecordEffect
  <2>2. work' \in [Threads -> Works] /\ mail' \in [Mails -> {"new", "waiting"} \cup Outcomes]
    BY <2>1, AnswerType
  <2>3. decisions' \in SUBSET DecisionRows /\ IsFiniteSet(decisions')
    BY <2>1, FS_AddElement DEF AssistantTypeOK
  <2>4. RequestTypeOK'
    BY <2>1, <2>2, <2>3 DEF AssistantTypeOK, RequestTypeOK
  <2> QED BY <2>1, <2>4, SameConsole, TypeParts
<1>4. ASSUME Die(t) PROVE AssistantTypeOK'
  <2>1. /\ work[t] # Free /\ crashes' = crashes + 1
        /\ Answer(t, Unanswered(work[t].mail)) /\ Unanswered(work[t].mail) \in Outcomes
        /\ UNCHANGED <<tables, decisions, cache, days, billed, peak, lived>>
    BY <1>4, DieEffect
  <2>2. work' \in [Threads -> Works] /\ mail' \in [Mails -> {"new", "waiting"} \cup Outcomes]
    BY <2>1, AnswerType
  <2>3. RequestTypeOK'
    BY <2>1, <2>2 DEF AssistantTypeOK, RequestTypeOK
  <2> QED BY <2>1, <2>3, SameConsole, TypeParts
<1> QED BY <1>1, <1>2, <1>3, <1>4 DEF Request

LEMMA ListenerType ==
  ASSUME AssistantTypeOK, NEW m \in Mails, Post(m) \/ GiveUp(m)
  PROVE  AssistantTypeOK'
<1>1. UNCHANGED tables /\ UNCHANGED <<decisions, cache, work, days, billed, peak, crashes>>
  BY DEF Post, GiveUp, history
<1>2. mail' \in [Mails -> {"new", "waiting"} \cup Outcomes] /\ lived' \in SUBSET Mails
  BY OutcomeTypes DEF Post, GiveUp, history, AssistantTypeOK
<1>3. RequestTypeOK'
  BY <1>1, <1>2 DEF AssistantTypeOK, RequestTypeOK, days
<1> QED BY <1>1, <1>3, SameConsole, TypeParts

LEMMA MidnightType ==
  ASSUME AssistantTypeOK, Midnight PROVE AssistantTypeOK'
<1>1. UNCHANGED tables /\ UNCHANGED <<decisions, cache, work, mail, history>>
  BY DEF Midnight
<1>2. today' \in 1..MaxDays /\ utc' \in 1..MaxDays
  BY AiAssumption DEF Midnight, AssistantTypeOK
<1>3. RequestTypeOK'
  BY <1>1, <1>2 DEF AssistantTypeOK, RequestTypeOK, history
<1> QED BY <1>1, <1>3, SameConsole, TypeParts

LEMMA VersionTypes ==
  ASSUME ConsoleTypeOK, NEW j
  PROVE  Max({0} \cup Versions(j)) \in Nat
<1>1. IsFiniteSet(Ids)
  <2>1. MaxBindings \in Int /\ 1 \in Int
    BY AiAssumption
  <2> QED BY <2>1, FS_Interval DEF Ids
<1> DEFINE P == {s \in SUBSET Ids : {0} \cup {bindings[i].version : i \in s} \in SUBSET Nat =>
                  \E x \in {0} \cup {bindings[i].version : i \in s} :
                     \A y \in {0} \cup {bindings[i].version : i \in s} : x >= y}
<1>2. {} \in P
  OBVIOUS
<1>3. ASSUME NEW s \in SUBSET Ids, s # {}, \A y \in s : s \ {y} \in P PROVE s \in P
  <2> SUFFICES ASSUME {0} \cup {bindings[i].version : i \in s} \in SUBSET Nat
               PROVE  \E x \in {0} \cup {bindings[i].version : i \in s} :
                        \A y \in {0} \cup {bindings[i].version : i \in s} : x >= y
    OBVIOUS
  <2>1. PICK k \in s : TRUE
    BY <1>3
  <2> DEFINE V(u) == {0} \cup {bindings[i].version : i \in u}
  <2>2. V(s) = V(s \ {k}) \cup {bindings[k].version} /\ V(s) \in SUBSET Nat
    OBVIOUS
  <2>3. PICK x \in V(s \ {k}) : \A y \in V(s \ {k}) : x >= y
    BY <1>3, <2>2
  <2> HIDE DEF V
  <2>4. bindings[k].version \in Nat /\ x \in Nat /\ V(s \ {k}) \in SUBSET Nat
    BY <2>2, <2>3
  <2>5. PICK n \in Nat : n = bindings[k].version
    BY <2>4
  <2>6. V(s) = V(s \ {k}) \cup {n}
    BY <2>2, <2>5
  <2>7. PICK A \in SUBSET Nat : A = V(s \ {k})
    BY <2>4
  <2>8. x \in A /\ (\A y \in A : x >= y) /\ V(s) = A \cup {n}
    BY <2>3, <2>6, <2>7
  <2>9. \E z \in A \cup {n} : \A y \in A \cup {n} : z >= y
    BY ONLY <2>8, A \in SUBSET Nat, n \in Nat
  <2> QED BY <2>8, <2>9 DEF V
<1>4. P \in SUBSET (SUBSET Ids)
  OBVIOUS
<1>5. \A s \in SUBSET Ids : s \in P
  <2> HIDE DEF P
  <2> QED BY <1>1, <1>2, <1>3, <1>4, SetInduction
<1> DEFINE s == {i \in Ids : bindings[i].id # 0 /\ bindings[i].job = j}
<1>6. s \in P
  BY <1>5
<1>7. Versions(j) = {bindings[i].version : i \in s}
  BY DEF Versions
<1>8. \A i \in s : bindings[i].version \in Nat
  BY BindingTypes DEF ConsoleTypeOK
<1>9. {0} \cup Versions(j) \in SUBSET Nat
  BY <1>7, <1>8
<1>10. \E x \in {0} \cup Versions(j) : \A y \in {0} \cup Versions(j) : x >= y
  BY <1>6, <1>7, <1>9
<1> QED BY <1>9, <1>10 DEF Max

LEMMA SameRequests ==
  ASSUME RequestTypeOK, UNCHANGED <<decisions, work, mail, days, billed, peak, crashes>>,
         lived' \in SUBSET Mails,
         cache' \in [Workers -> {NoCache} \cup [rows : SUBSET Bindings, known : SUBSET Providers]]
  PROVE  RequestTypeOK'
BY DEF RequestTypeOK, days

LEMMA BindingType ==
  ASSUME NEW i \in Ids, NEW form \in Forms, NEW v \in Nat
  PROVE  Binding(i, form, v) \in RowOf(i) /\ Binding(i, form, v) \in Bindings
<1>1. form \in [job : Jobs, provider : Providers,
                fallback : Providers \cup {NoProvider}, enabled : BOOLEAN]
  BY AiAssumption
<1>2. Binding(i, form, v) \in RowOf(i)
  BY <1>1 DEF Binding, RowOf, Targets
<1> QED BY <1>2, BindingTypes

(* What an operator's step leaves of the requests. *)
LEMMA OperatorEffect ==
  ASSUME AssistantTypeOK, Operator
  PROVE  /\ UNCHANGED <<decisions, work, mail, days, billed, peak, crashes>>
         /\ \/ UNCHANGED <<shadow, lived>>
            \/ lived' = IF shadow' THEN lived ELSE lived \cup {m \in Mails : mail[m] = "waiting"}
         /\ cache' \in [Workers -> {NoCache} \cup [rows : SUBSET Bindings, known : SUBSET Providers]]
<1> USE DEF requests, history
<1>0. cache \in [Workers -> {NoCache} \cup [rows : SUBSET Bindings, known : SUBSET Providers]]
  BY DEF AssistantTypeOK
<1>1. CASE SetEnabled
  BY <1>0, <1>1 DEF SetEnabled
<1>2. ASSUME NEW p \in Providers, DeleteProvider(p) \/ \E s \in {"on", "off"} : SaveProvider(p, s)
      PROVE  UNCHANGED <<requests, shadow>>
  BY <1>2 DEF DeleteProvider, SaveProvider
<1>3. ASSUME NEW w \in Workers, Invalidate(w)
      PROVE  /\ UNCHANGED <<decisions, work, mail, days, history, shadow>>
             /\ cache' \in [Workers -> {NoCache} \cup [rows : SUBSET Bindings, known : SUBSET Providers]]
  BY <1>0, <1>3 DEF Invalidate
<1>4. ASSUME NEW w \in Workers, NEW i \in Ids, NEW form \in Forms,
             UpdateBinding(w, i, form) \/ \E r \in BOOLEAN : InsertBinding(w, i, form, r)
      PROVE  UNCHANGED <<requests, shadow>>
  BY <1>4 DEF UpdateBinding, InsertBinding, Saved
<1>5. ASSUME NEW o \in Operators, AuditSwitch(o) \/ \E target \in {"live", "shadow"} : Consider(o, target)
      PROVE  UNCHANGED <<requests, shadow>>
  BY <1>5 DEF AuditSwitch, Consider
<1>6. ASSUME NEW o \in Operators, Switch(o)
      PROVE  /\ UNCHANGED <<decisions, cache, work, mail, days, billed, peak, crashes>>
             /\ lived' = IF shadow' THEN lived ELSE lived \cup {m \in Mails : mail[m] = "waiting"}
  BY <1>6 DEF Switch
<1>7. CASE UNCHANGED <<requests, shadow>>
  BY <1>0, <1>7
<1> QED BY <1>0, <1>1, <1>2, <1>3, <1>4, <1>5, <1>6, <1>7 DEF Operator

LEMMA OperatorConsole ==
  ASSUME ConsoleTypeOK, Operator
  PROVE  ConsoleTypeOK'
<1>0. Change => changes' \in Nat
  BY DEF Change, ConsoleTypeOK
<1>1. CASE SetEnabled
  BY <1>0, <1>1 DEF SetEnabled, ConsoleTypeOK
<1>2. ASSUME NEW p \in Providers, NEW s \in {"absent", "on", "off"},
             DeleteProvider(p) \/ SaveProvider(p, s)
      PROVE  ConsoleTypeOK'
  <2>1. providers' \in [Providers -> {"absent", "on", "off"}]
    BY <1>2 DEF DeleteProvider, SaveProvider, ConsoleTypeOK
  <2>2. changes' \in Nat /\ UNCHANGED <<enabled, shadow, bindings, audit, saving, console, saver>>
    BY <1>0, <1>2 DEF DeleteProvider, SaveProvider
  <2> QED BY <2>1, <2>2 DEF ConsoleTypeOK
<1>3. ASSUME NEW w \in Workers, Invalidate(w) PROVE ConsoleTypeOK'
  <2>1. saving' \in [Workers -> BOOLEAN]
    BY <1>3 DEF Invalidate, ConsoleTypeOK
  <2>2. UNCHANGED <<enabled, shadow, bindings, providers, audit, console, saver, changes>>
    BY <1>3 DEF Invalidate
  <2> QED BY <2>1, <2>2 DEF ConsoleTypeOK
<1>4. ASSUME NEW w \in Workers, NEW form \in Forms, Saved(w, form),
             \A i \in Ids : bindings'[i] \in RowOf(i) \cup {NoRow},
             bindings' = [i \in Ids |-> bindings'[i]]
      PROVE  ConsoleTypeOK'
  <2>1. bindings' \in [Ids -> Bindings \cup {NoRow}]
    BY <1>4, BindingTypes
  <2>2. /\ saving' \in [Workers -> BOOLEAN] /\ saver' \in Workers
        /\ changes' \in Nat /\ UNCHANGED <<enabled, shadow, providers, audit, console>>
    BY <1>0, <1>4 DEF Saved, ConsoleTypeOK
  <2> QED BY <1>4, <2>1, <2>2 DEF ConsoleTypeOK
<1>5. ASSUME NEW w \in Workers, NEW i \in Ids, NEW form \in Forms, UpdateBinding(w, i, form)
      PROVE  ConsoleTypeOK'
  <2>1. bindings[i].id # 0 /\ bindings' = [bindings EXCEPT ![i] = Binding(i, form, bindings[i].version)]
    BY <1>5 DEF UpdateBinding
  <2>2. bindings[i].version \in Nat
    BY <2>1, BindingTypes DEF ConsoleTypeOK
  <2>3. Binding(i, form, bindings[i].version) \in RowOf(i)
    BY <2>2, BindingType
  <2>4. /\ \A k \in Ids : bindings'[k] \in RowOf(k) \cup {NoRow}
        /\ bindings' = [k \in Ids |-> bindings'[k]]
    BY <2>1, <2>3 DEF ConsoleTypeOK
  <2>5. Saved(w, form)
    BY <1>5 DEF UpdateBinding
  <2> QED BY <1>4, <2>4, <2>5
<1>6. ASSUME NEW w \in Workers, NEW i \in Ids, NEW form \in Forms, NEW r \in BOOLEAN,
             InsertBinding(w, i, form, r)
      PROVE  ConsoleTypeOK'
  <2>1. PICK v \in Nat : v = Max({0} \cup Versions(form.job)) + 1
    BY VersionTypes
  <2>2. bindings' = [k \in Ids |->
          CASE k = i -> Binding(i, form, v)
            [] k # i /\ r /\ bindings[k].id # 0 ->
                 IF bindings[k].job = form.job THEN [bindings[k] EXCEPT !.enabled = FALSE]
                                               ELSE bindings[k]
            [] OTHER -> bindings[k]]
    BY <1>6, <2>1 DEF InsertBinding
  <2>3. ASSUME NEW k \in Ids PROVE bindings'[k] \in RowOf(k) \cup {NoRow}
    <3>1. bindings[k] \in RowOf(k) \cup {NoRow}
      BY DEF ConsoleTypeOK
    <3>2. bindings[k].id # 0 => [bindings[k] EXCEPT !.enabled = FALSE] \in RowOf(k)
      <4>1. bindings[k].id # 0 => bindings[k] \in RowOf(k)
        BY <3>1, BindingTypes
      <4> QED BY <4>1 DEF RowOf
    <3>3. CASE k = i
      BY <2>2, <3>3, BindingType
    <3>4. CASE k # i
      BY <2>2, <3>1, <3>2, <3>4
    <3> QED BY <3>3, <3>4
  <2>4. bindings' = [k \in Ids |-> bindings'[k]]
    BY <2>2
  <2>5. Saved(w, form)
    BY <1>6 DEF InsertBinding
  <2> QED BY <1>4, <2>3, <2>4, <2>5
<1>7. ASSUME NEW o \in Operators, NEW target \in {"live", "shadow"},
             Switch(o) \/ AuditSwitch(o) \/ Consider(o, target)
      PROVE  ConsoleTypeOK'
  <2>1. console[o].pc \in {"write", "audit"} => console[o] \in [pc : {"write", "audit"}, target : {"live", "shadow"}]
    BY DEF ConsoleTypeOK, Free
  <2>2. CASE Switch(o)
    <3>0. console[o] \in [pc : {"write", "audit"}, target : {"live", "shadow"}]
      BY <2>1, <2>2 DEF Switch
    <3>1. [console[o] EXCEPT !.pc = "audit"] \in [pc : {"write", "audit"}, target : {"live", "shadow"}]
      BY <3>0
    <3>2. console' = [console EXCEPT ![o] = [console[o] EXCEPT !.pc = "audit"]]
      BY <2>2 DEF Switch
    <3>3. shadow' \in BOOLEAN /\ UNCHANGED <<enabled, bindings, providers, audit, saving, saver, changes>>
      BY <2>2 DEF Switch
    <3> QED BY <3>1, <3>2, <3>3 DEF ConsoleTypeOK
  <2>3. CASE AuditSwitch(o)
    <3>1. console[o].target \in {"live", "shadow"}
      BY <2>1, <2>3 DEF AuditSwitch
    <3>2. audit' \in Seq({"live", "shadow"})
      BY <2>3, <3>1 DEF AuditSwitch, ConsoleTypeOK
    <3>3. console' = [console EXCEPT ![o] = Free]
          /\ UNCHANGED <<enabled, shadow, bindings, providers, saving, saver, changes>>
      BY <2>3 DEF AuditSwitch
    <3> QED BY <3>2, <3>3 DEF ConsoleTypeOK
  <2>4. CASE Consider(o, target)
    <3>1. /\ console' = [console EXCEPT ![o] = [pc |-> "write", target |-> target]]
          /\ changes' \in Nat /\ UNCHANGED <<enabled, shadow, bindings, providers, audit, saving, saver>>
      BY <1>0, <2>4 DEF Consider
    <3> QED BY <3>1 DEF ConsoleTypeOK
  <2> QED BY <1>7, <2>2, <2>3, <2>4
<1> QED BY <1>1, <1>2, <1>3, <1>5, <1>6, <1>7 DEF Operator

LEMMA AssistantTypeStep ==
  AssistantTypeOK /\ [AssistantNext]_assistantVars => AssistantTypeOK'
<1> SUFFICES ASSUME AssistantTypeOK, [AssistantNext]_assistantVars PROVE AssistantTypeOK'
  OBVIOUS
<1>1. CASE Operator
  <2>1. lived' \in SUBSET Mails
    BY <1>1, OperatorEffect DEF AssistantTypeOK
  <2>2. RequestTypeOK'
    BY <1>1, <2>1, OperatorEffect, SameRequests, TypeParts
  <2> QED BY <1>1, <2>2, OperatorConsole, TypeParts
<1>2. CASE UNCHANGED assistantVars
  BY <1>2 DEF assistantVars, tables, days, history, AssistantTypeOK
<1> QED BY <1>1, <1>2, RequestType, ListenerType, MidnightType DEF AssistantNext
-----------------------------------------------------------------------------
(* Only what was applied while the assistant was live is acted on.         *)

LiveSound ==
  /\ ~shadow => \A m \in Mails : mail[m] = "waiting" => m \in lived
  /\ ActsOnlyIfLive

LEMMA LiveKept ==
  ASSUME LiveSound, decisions \in SUBSET decisions', lived \in SUBSET lived',
         ~shadow' => ~shadow \/ \A m \in Mails : mail[m] = "waiting" => m \in lived',
         \A m \in Mails :
            \/ mail'[m] = mail[m]
            \/ mail'[m] \in Outcomes \ ByAI
            \/ mail'[m] = "waiting" /\ (~shadow' => m \in lived')
            \/ /\ mail[m] = "waiting" /\ mail'[m] \in ByAI /\ ~shadow
               /\ \E d \in decisions' : d.mail = m /\ d.applied /\ ~d.error
  PROVE  LiveSound'
<1>0. "waiting" \notin Outcomes /\ "waiting" \notin ByAI
  BY DEF Outcomes, ByAI
<1>1. ASSUME ~shadow', NEW m \in Mails, mail'[m] = "waiting" PROVE m \in lived'
  BY <1>0, <1>1 DEF LiveSound
<1>2. ASSUME NEW m \in Mails, mail'[m] \in ByAI
      PROVE  m \in lived' /\ \E d \in decisions' : d.mail = m /\ d.applied /\ ~d.error
  <2>1. CASE mail'[m] = mail[m]
    BY <1>2, <2>1 DEF LiveSound, ActsOnlyIfLive
  <2>2. CASE mail'[m] # mail[m]
    BY <1>0, <1>2, <2>2 DEF LiveSound
  <2> QED BY <2>1, <2>2
<1> QED BY <1>1, <1>2 DEF LiveSound, ActsOnlyIfLive

LEMMA LiveStep ==
  AssistantTypeOK /\ LiveSound /\ [AssistantNext]_assistantVars => LiveSound'
<1> SUFFICES ASSUME AssistantTypeOK, LiveSound, [AssistantNext]_assistantVars PROVE LiveSound'
  OBVIOUS
<1> USE DEF tables, history
<1>1. ASSUME NEW m \in Mails, Post(m) PROVE LiveSound'
  <2>1. \A k \in Mails : mail'[k] = mail[k] \/ (mail'[k] = "waiting" /\ (~shadow' => k \in lived'))
    BY <1>1 DEF Post, AssistantTypeOK
  <2>2. UNCHANGED <<decisions, shadow>> /\ lived \in SUBSET lived'
    BY <1>1 DEF Post
  <2> QED BY <2>1, <2>2, LiveKept
<1>2. ASSUME NEW m \in Mails, GiveUp(m) PROVE LiveSound'
  <2>1. \A k \in Mails : mail'[k] = mail[k] \/ mail'[k] \in Outcomes \ ByAI
    BY <1>2, OutcomeTypes DEF GiveUp, AssistantTypeOK
  <2>2. UNCHANGED <<decisions, shadow, lived>>
    BY <1>2 DEF GiveUp
  <2> QED BY <2>1, <2>2, LiveKept
<1>3. ASSUME NEW t \in Threads, NEW m \in Mails, Admit(t, m) PROVE LiveSound'
  <2>1. UNCHANGED <<decisions, lived, shadow>>
    BY <1>3, AdmitEffect
  <2>2. mail' = [mail EXCEPT ![m] = "skipped"] \/ UNCHANGED mail
    BY <1>3, AdmitEffect
  <2>3. \A k \in Mails : mail'[k] = mail[k] \/ mail'[k] \in Outcomes \ ByAI
    BY <2>2, OutcomeTypes DEF AssistantTypeOK
  <2> QED BY <2>1, <2>3, LiveKept
<1>4. ASSUME NEW t \in Threads, CallProvider(t) \/ CallFallback(t) PROVE LiveSound'
  <2>1. UNCHANGED <<decisions, mail, lived, shadow>>
    BY <1>4, CallEffect
  <2> QED BY <2>1, LiveKept
<1>5. ASSUME NEW t \in Threads, Record(t) PROVE LiveSound'
  <2>1. PICK d \in DecisionRows :
           /\ work[t] # Free /\ d.mail = work[t].mail
           /\ d.applied => ~shadow /\ ~d.error
           /\ decisions' = decisions \cup {d}
           /\ Answer(t, Acted(d.mail, d)) /\ Acted(d.mail, d) \in Outcomes
           /\ Acted(d.mail, d) \in ByAI => d.applied
           /\ UNCHANGED <<shadow, lived>>
    BY <1>5, RecordEffect
  <2>2. PICK r \in Outcomes : r = Acted(d.mail, d)
    BY <2>1
  <2>3. \A m \in Mails : \/ mail'[m] = mail[m]
                         \/ m = d.mail /\ mail[m] = "waiting" /\ mail'[m] = r
    BY <2>1, <2>2, AnswerType
  <2>4. ASSUME NEW m \in Mails
        PROVE  \/ mail'[m] = mail[m]
               \/ mail'[m] \in Outcomes \ ByAI
               \/ /\ mail[m] = "waiting" /\ mail'[m] \in ByAI /\ ~shadow
                  /\ \E e \in decisions' : e.mail = m /\ e.applied /\ ~e.error
    BY <2>1, <2>2, <2>3
  <2>5. UNCHANGED <<shadow, lived>> /\ decisions \in SUBSET decisions'
    BY <2>1
  <2> QED BY <2>4, <2>5, LiveKept
<1>6. ASSUME NEW t \in Threads, Die(t) PROVE LiveSound'
  <2>1. /\ work[t] # Free /\ UNCHANGED <<decisions, lived, shadow>>
        /\ Answer(t, Unanswered(work[t].mail)) /\ Unanswered(work[t].mail) \in Outcomes \ ByAI
    BY <1>6, DieEffect
  <2>2. \A m \in Mails : mail'[m] = mail[m] \/ mail'[m] \in Outcomes \ ByAI
    BY <2>1, AnswerType
  <2> QED BY <2>1, <2>2, LiveKept
<1>7. CASE Operator
  <2>1. UNCHANGED <<decisions, mail>>
    BY <1>7, OperatorEffect
  <2>2. lived \in SUBSET lived' /\ (~shadow' => ~shadow \/ \A m \in Mails : mail[m] = "waiting" => m \in lived')
    BY <1>7, OperatorEffect
  <2> QED BY <2>1, <2>2, LiveKept
<1>8. CASE Midnight
  <2>1. UNCHANGED <<decisions, mail, lived, shadow>>
    BY <1>8 DEF Midnight
  <2> QED BY <2>1, LiveKept
<1>9. CASE UNCHANGED assistantVars
  <2>1. UNCHANGED <<decisions, mail, lived, shadow>>
    BY <1>9 DEF assistantVars
  <2> QED BY <2>1, LiveKept
<1> QED BY <1>1, <1>2, <1>3, <1>4, <1>5, <1>6, <1>7, <1>8, <1>9 DEF AssistantNext, Request

-----------------------------------------------------------------------------
(* Nothing is asked, recorded or counted twice.                            *)

OneRequest ==
  /\ \A t, u \in Threads : work[t] # Free /\ work[u] # Free /\ work[t].mail = work[u].mail => t = u
  /\ \A t \in Threads : work[t] # Free => 
       /\ mail[work[t].mail] # "new"
       /\ \A d \in decisions : d.mail # work[t].mail
  /\ \A d \in decisions : mail[d.mail] \notin {"new", "waiting"}

LEMMA OneRequestStep ==
  AssistantTypeOK /\ OneRequest /\ [AssistantNext]_assistantVars => OneRequest'
<1> SUFFICES ASSUME AssistantTypeOK, OneRequest, [AssistantNext]_assistantVars PROVE OneRequest'
  OBVIOUS
<1> USE DEF tables, history
<1>0. /\ mail \in [Mails -> {"new", "waiting"} \cup Outcomes] /\ work \in [Threads -> Works]
      /\ \A t \in Threads : work[t] # Free => work[t].mail \in Mails
      /\ \A d \in decisions : d.mail \in Mails
  BY BusyMail DEF AssistantTypeOK, DecisionRows
<1>m. ASSUME UNCHANGED <<decisions, work>>, NEW m \in Mails, mail[m] \in {"new", "waiting"},
             mail' = [mail EXCEPT ![m] = "waiting"] \/ \E r \in Outcomes : mail' = [mail EXCEPT ![m] = r],
             mail[m] = "new" \/ mail'[m] # "waiting"
      PROVE  OneRequest'
  BY <1>0, <1>m, OutcomeTypes DEF OneRequest
<1>1. ASSUME NEW m \in Mails, Post(m) PROVE OneRequest'
  BY <1>1, <1>m DEF Post
<1>2. ASSUME NEW m \in Mails, GiveUp(m) PROVE OneRequest'
  <2>1. Unanswered(m) \in Outcomes
    BY OutcomeTypes
  <2>2. mail[m] = "waiting" /\ mail' = [mail EXCEPT ![m] = Unanswered(m)] /\ UNCHANGED <<decisions, work>>
    BY <1>2 DEF GiveUp
  <2>3. mail'[m] # "waiting"
    BY <1>0, <2>1, <2>2, OutcomeTypes
  <2> QED BY <1>m, <2>1, <2>2, <2>3
<1>w. ASSUME NEW t \in Threads, work[t] # Free, NEW w, w # Free, w.mail = work[t].mail,
             work' = [work EXCEPT ![t] = w], UNCHANGED <<decisions, mail>>
      PROVE  OneRequest'
  <2>1. \A u \in Threads : /\ (work'[u] # Free) = (work[u] # Free)
                           /\ work[u] # Free => work'[u].mail = work[u].mail
    BY <1>0, <1>w
  <2> QED BY <1>w, <2>1 DEF OneRequest
<1>3. ASSUME NEW t \in Threads, NEW m \in Mails, Admit(t, m) PROVE OneRequest'
  <2>1. /\ work[t] = Free /\ mail[m] = "waiting"
        /\ \A u \in Threads : work[u] # Free => work[u].mail # m
        /\ UNCHANGED decisions
    BY <1>3, AdmitEffect
  <2>2. CASE mail' = [mail EXCEPT ![m] = "skipped"] /\ UNCHANGED <<work, peak>>
    <3>1. "skipped" \in Outcomes /\ mail'[m] # "waiting"
      BY <1>0, <2>2, OutcomeTypes
    <3> QED BY <1>m, <2>1, <2>2, <3>1
  <2>3. CASE UNCHANGED mail /\ \E p \in Providers : \E f \in Targets :
                    work' = [work EXCEPT ![t] = [pc |-> "calling", mail |-> m, first |-> p, fallback |-> f]]
    <3>1. /\ \A u \in Threads \ {t} : work'[u] = work[u]
          /\ work'[t].mail = m
      BY <1>0, <2>3
    <3>2. \A d \in decisions : d.mail # m
      BY <2>1 DEF OneRequest
    <3>3. \A u \in Threads : work'[u] # Free => u = t \/ (work[u] # Free /\ work'[u] = work[u])
      BY <3>1
    <3>4. \A u, v \in Threads : work'[u] # Free /\ work'[v] # Free /\ work'[u].mail = work'[v].mail => u = v
      BY <2>1, <3>1, <3>3 DEF OneRequest
    <3>5. \A u \in Threads : work'[u] # Free =>
             mail[work'[u].mail] # "new" /\ \A d \in decisions : d.mail # work'[u].mail
      BY <2>1, <3>1, <3>2, <3>3 DEF OneRequest
    <3> QED BY <2>1, <2>3, <3>4, <3>5 DEF OneRequest
  <2>4. \/ mail' = [mail EXCEPT ![m] = "skipped"] /\ UNCHANGED <<work, peak>>
        \/ /\ UNCHANGED mail
           /\ \E p \in Providers : \E f \in Targets :
                    work' = [work EXCEPT ![t] = [pc |-> "calling", mail |-> m, first |-> p, fallback |-> f]]
    BY <1>3, AdmitEffect
  <2> QED BY <2>2, <2>3, <2>4
<1>4. ASSUME NEW t \in Threads, CallProvider(t) \/ CallFallback(t) PROVE OneRequest'
  <2>1. work[t].pc \in {"calling", "fallback"} /\ UNCHANGED <<decisions, mail>>
    BY <1>4, CallEffect
  <2>2. work[t] # Free
    BY <2>1 DEF Free
  <2>3. \E w : w # Free /\ w.mail = work[t].mail /\ work' = [work EXCEPT ![t] = w]
    <3>1. \A reply : [pc |-> "replied", mail |-> work[t].mail, reply |-> reply] # Free
      BY DEF Free
    <3>2. \A p : [pc |-> "fallback", mail |-> work[t].mail, first |-> work[t].first, fallback |-> p] # Free
      BY DEF Free
    <3>3. ASSUME NEW reply, Replied(t, reply)
          PROVE  \E w : w # Free /\ w.mail = work[t].mail /\ work' = [work EXCEPT ![t] = w]
      <4> DEFINE w == [pc |-> "replied", mail |-> work[t].mail, reply |-> reply]
      <4>1. w # Free /\ w.mail = work[t].mail /\ work' = [work EXCEPT ![t] = w]
        BY <3>1, <3>3 DEF Replied
      <4> QED BY <4>1
    <3>4. ASSUME NEW p, work' = [work EXCEPT ![t] = [pc |-> "fallback", mail |-> work[t].mail,
                                                first |-> work[t].first, fallback |-> p]]
          PROVE  \E w : w # Free /\ w.mail = work[t].mail /\ work' = [work EXCEPT ![t] = w]
      <4> DEFINE w == [pc |-> "fallback", mail |-> work[t].mail, first |-> work[t].first, fallback |-> p]
      <4>1. w # Free /\ w.mail = work[t].mail /\ work' = [work EXCEPT ![t] = w]
        BY <3>2, <3>4
      <4> QED BY <4>1
    <3> QED BY <1>4, <3>3, <3>4, CallEffect
  <2> QED BY <1>w, <2>1, <2>2, <2>3
<1>a. ASSUME NEW t \in Threads, work[t] # Free, NEW r \in Outcomes, Answer(t, r),
             UNCHANGED decisions \/ \E d \in DecisionRows : d.mail = work[t].mail /\ decisions' = decisions \cup {d}
      PROVE  OneRequest'
  <2>1. /\ work' = [work EXCEPT ![t] = Free]
        /\ \A m \in Mails : \/ mail'[m] = mail[m]
                            \/ m = work[t].mail /\ mail[m] = "waiting" /\ mail'[m] = r
        /\ mail'[work[t].mail] # "waiting"
    BY <1>a, AnswerType
  <2>2. PICK k \in Mails : k = work[t].mail /\ mail'[k] # "waiting" /\ mail[k] # "new"
    BY <1>0, <1>a, <2>1 DEF OneRequest
  <2>3. \A m \in Mails : (mail'[m] = "new" => mail[m] = "new") /\ (mail'[m] = "waiting" => mail[m] = "waiting")
    BY <2>1, OutcomeTypes
  <2>4. mail'[k] # "new"
    BY <2>2, <2>3
  <2>5. work'[t] = Free /\ \A u \in Threads \ {t} : work'[u] = work[u] /\ (work[u] # Free => work[u].mail # k)
    BY <1>0, <1>a, <2>1, <2>2 DEF OneRequest
  <2>6. \A d \in decisions' : d \in decisions \/ d.mail = k
    BY <1>a, <2>2
  <2>7. \A u, v \in Threads : work'[u] # Free /\ work'[v] # Free /\ work'[u].mail = work'[v].mail => u = v
    BY <2>5 DEF OneRequest
  <2>8. ASSUME NEW u \in Threads, work'[u] # Free
        PROVE  mail'[work'[u].mail] # "new" /\ \A d \in decisions' : d.mail # work'[u].mail
    <3>0. u # t
      BY <2>5, <2>8
    <3>a. work'[u] = work[u] /\ work[u] # Free
      BY <2>5, <2>8, <3>0
    <3>b. work[u].mail # k
      BY <2>5, <3>0, <3>a
    <3>c. work[u].mail \in Mails
      BY <1>0, <3>a
    <3>1. u # t /\ work'[u] = work[u] /\ work[u] # Free /\ work[u].mail # k /\ work[u].mail \in Mails
      BY <3>0, <3>a, <3>b, <3>c
    <3>2. mail'[work[u].mail] # "new"
      BY <2>3, <3>1 DEF OneRequest
    <3>3. \A d \in decisions' : d.mail # work[u].mail
      BY <2>6, <3>1 DEF OneRequest
    <3> QED BY <3>1, <3>2, <3>3
  <2>9. ASSUME NEW d \in decisions' PROVE mail'[d.mail] \notin {"new", "waiting"}
    <3>1. CASE d \in decisions
      BY <1>0, <2>3, <3>1 DEF OneRequest
    <3>2. CASE d.mail = k
      BY <2>2, <2>4, <3>2
    <3> QED BY <2>6, <3>1, <3>2
  <2> QED BY <2>7, <2>8, <2>9 DEF OneRequest
<1>5. ASSUME NEW t \in Threads, Record(t) PROVE OneRequest'
  <2>1. PICK d \in DecisionRows :
           /\ work[t] # Free /\ d.mail = work[t].mail /\ decisions' = decisions \cup {d}
           /\ Answer(t, Acted(d.mail, d)) /\ Acted(d.mail, d) \in Outcomes
    BY <1>5, RecordEffect
  <2> QED BY <1>a, <2>1
<1>6. ASSUME NEW t \in Threads, Die(t) PROVE OneRequest'
  BY <1>6, <1>a, DieEffect
<1>7. CASE UNCHANGED <<decisions, work, mail>>
  BY <1>7 DEF OneRequest
<1>8. CASE Operator
  BY <1>7, <1>8, OperatorEffect
<1>9. CASE Midnight
  BY <1>7, <1>9 DEF Midnight
<1>10. CASE UNCHANGED assistantVars
  BY <1>7, <1>10 DEF assistantVars
<1> QED BY <1>1, <1>2, <1>3, <1>4, <1>5, <1>6, <1>8, <1>9, <1>10 DEF AssistantNext, Request
-----------------------------------------------------------------------------
(* The budget: n requests run, a of them ask for a classification, o is    *)
(* what their answers cost so far, s what is recorded of today, b what was *)
(* billed today, p the peak and k the crashes.                             *)

Within(a, b, p, k) == b + a * MaxCost <= Budget - 1 + (p + k) * MaxCost
Kept(n, a, o, s, b, p, k) ==
  /\ n <= p /\ a <= n
  /\ b <= s + o + k * MaxCost
  /\ Within(a, b, p, k)

LEMMA Products ==
  ASSUME NEW x \in Nat, NEW y \in Nat
  PROVE  /\ x * MaxCost \in Nat
         /\ (x + y) * MaxCost = x * MaxCost + y * MaxCost
         /\ x <= y => x * MaxCost <= y * MaxCost
         /\ (x + 1) * MaxCost = x * MaxCost + MaxCost
<1>1. MaxCost \in Nat
  BY AiAssumption
<1>2. /\ x * MaxCost \in Nat /\ (x <= y => x * MaxCost <= y * MaxCost)
      /\ (x + 1) * MaxCost = x * MaxCost + MaxCost
  BY <1>1, Times
<1>3. PICK c \in Nat : c = MaxCost
  BY <1>1
<1>4. (x + y) * c = x * c + y * c
  OBVIOUS
<1> QED BY <1>2, <1>3, <1>4

LEMMA KeptMore ==
  ASSUME NEW a \in Nat, NEW b \in Nat, NEW p \in Nat, NEW k \in Nat, NEW p2 \in Nat, NEW k2 \in Nat,
         Within(a, b, p, k), p <= p2, k <= k2
  PROVE  Within(a, b, p2, k2)
<1>1. (p + k) * MaxCost \in Nat /\ (p2 + k2) * MaxCost \in Nat
      /\ (p + k) * MaxCost <= (p2 + k2) * MaxCost /\ a * MaxCost \in Nat
  <2>1. p + k \in Nat /\ p2 + k2 \in Nat /\ p + k <= p2 + k2
    OBVIOUS
  <2> QED BY <2>1, Products
<1>2. Budget \in Nat
  BY AiAssumption
<1> QED BY <1>1, <1>2 DEF Within

LEMMA KeptStart ==
  ASSUME NEW n \in Nat, NEW a \in Nat, NEW o \in Nat, NEW s \in Nat, NEW b \in Nat, NEW p \in Nat,
         NEW k \in Nat, NEW w \in Nat, NEW p2 \in Nat,
         Kept(n, a, o, s, b, p, k), s < Budget, o <= w * MaxCost, w + a <= n, p <= p2, n + 1 <= p2
  PROVE  Kept(n + 1, a + 1, o, s, b, p2, k)
<1>1. b <= s + o + k * MaxCost /\ k * MaxCost \in Nat /\ w * MaxCost \in Nat
      /\ Budget \in Nat
  BY Products, AiAssumption DEF Kept
<1>2. PICK x \in Nat : x = w + k + (a + 1)
  OBVIOUS
<1>3. x * MaxCost = w * MaxCost + k * MaxCost + (a + 1) * MaxCost
  <2>1. (w + k) * MaxCost = w * MaxCost + k * MaxCost
    BY Products
  <2>2. ((w + k) + (a + 1)) * MaxCost = (w + k) * MaxCost + (a + 1) * MaxCost
    <3>1. w + k \in Nat /\ a + 1 \in Nat
      OBVIOUS
    <3> QED BY <3>1, Products
  <2> QED BY <1>2, <2>1, <2>2
<1>4. x <= p2 + k /\ p2 + k \in Nat
  BY <1>2
<1>5. x * MaxCost <= (p2 + k) * MaxCost
  BY <1>4, Products
<1>6. x * MaxCost \in Nat /\ (p2 + k) * MaxCost \in Nat /\ (a + 1) * MaxCost \in Nat
  <2>1. a + 1 \in Nat
    OBVIOUS
  <2> QED BY <1>4, <2>1, Products
<1>7. b + (a + 1) * MaxCost <= Budget - 1 + (p2 + k) * MaxCost
  BY <1>1, <1>3, <1>5, <1>6
<1> QED BY <1>1, <1>7 DEF Kept, Within

LEMMA KeptReply ==
  ASSUME NEW n \in Nat, NEW a \in Nat, NEW o \in Nat, NEW s \in Nat, NEW b \in Nat, NEW p \in Nat,
         NEW k \in Nat, NEW c \in 0..MaxCost, NEW a2 \in Nat, a = a2 + 1,
         Kept(n, a, o, s, b, p, k)
  PROVE  Kept(n, a2, o + c, s, b + c, p, k)
<1>1. /\ k * MaxCost \in Nat /\ a2 * MaxCost \in Nat /\ a * MaxCost = a2 * MaxCost + MaxCost
      /\ (p + k) * MaxCost \in Nat /\ Budget \in Nat /\ MaxCost \in Nat
  BY Products, AiAssumption
<1> QED BY <1>1 DEF Kept, Within

LEMMA KeptDone ==
  ASSUME NEW n \in Nat, NEW a \in Nat, NEW o \in Nat, NEW s \in Nat, NEW b \in Nat, NEW p \in Nat,
         NEW k \in Nat, Kept(n, a, o, s, b, p, k),
         NEW n2 \in Nat, NEW a2 \in Nat, NEW o2 \in Nat, NEW s2 \in Nat,
         n2 <= n, a2 <= n2, a2 <= a, s + o <= s2 + o2
  PROVE  Kept(n2, a2, o2, s2, b, p, k)
<1>1. /\ k * MaxCost \in Nat /\ a2 * MaxCost \in Nat /\ a2 * MaxCost <= a * MaxCost /\ a * MaxCost \in Nat
      /\ (p + k) * MaxCost \in Nat /\ Budget \in Nat
  BY Products, AiAssumption
<1> QED BY <1>1 DEF Kept, Within

LEMMA KeptDie ==
  ASSUME NEW n \in Nat, NEW a \in Nat, NEW o \in Nat, NEW s \in Nat, NEW b \in Nat, NEW p \in Nat,
         NEW k \in Nat, Kept(n, a, o, s, b, p, k),
         NEW n2 \in Nat, NEW a2 \in Nat, NEW o2 \in Nat,
         n2 <= n, a2 <= n2, a2 <= a, o <= o2 + MaxCost
  PROVE  Kept(n2, a2, o2, s, b, p, k + 1)
<1>0. p + k \in Nat
  OBVIOUS
<1>1. /\ k * MaxCost \in Nat /\ a2 * MaxCost \in Nat /\ a2 * MaxCost <= a * MaxCost /\ a * MaxCost \in Nat
      /\ (p + k) * MaxCost \in Nat /\ Budget \in Nat /\ MaxCost \in Nat
      /\ (k + 1) * MaxCost = k * MaxCost + MaxCost
  <2>1. Budget \in Nat /\ MaxCost \in Nat
    BY AiAssumption
  <2>2. k * MaxCost \in Nat /\ a2 * MaxCost \in Nat /\ a * MaxCost \in Nat /\ (p + k) * MaxCost \in Nat
    BY <1>0, Products
  <2>3. a2 * MaxCost <= a * MaxCost /\ (k + 1) * MaxCost = k * MaxCost + MaxCost
    BY Products
  <2> QED BY <2>1, <2>2, <2>3
<1>2. Within(a2, b, p, k)
  BY <1>1 DEF Kept, Within
<1>3. Within(a2, b, p, k + 1)
  <2>1. k + 1 \in Nat /\ k <= k + 1 /\ p <= p
    OBVIOUS
  <2> QED BY <1>2, <2>1, KeptMore
<1> QED BY <1>1, <1>3 DEF Kept

LEMMA KeptMidnight ==
  ASSUME NEW n \in Nat, NEW a \in Nat, NEW o \in Nat, NEW s \in Nat, NEW b \in Nat, NEW p \in Nat,
         NEW k \in Nat, Kept(n, a, o, s, b, p, k), NEW s2 \in Nat, Budget > 0
  PROVE  Kept(n, a, o, s2, 0, p, k)
<1>1. /\ k * MaxCost \in Nat /\ a * MaxCost \in Nat /\ p * MaxCost \in Nat
      /\ (p + k) * MaxCost = p * MaxCost + k * MaxCost /\ Budget \in Nat
  BY Products, AiAssumption
<1>2. a <= p
  BY DEF Kept
<1>3. a * MaxCost <= p * MaxCost
  BY <1>2, Products
<1> QED BY <1>1, <1>3 DEF Kept, Within

-----------------------------------------------------------------------------
(* The threads as the budget sees them.                                    *)

Busy(W) == {t \in Threads : W[t] # Free}
Asking(W) == {t \in Threads : W[t].pc \in {"calling", "fallback"} /\ W[t].mail \in Classified}
Owed(W) == {t \in Threads : W[t].pc = "replied" /\ W[t].mail \in Classified}
Owes(W) == [t \in Threads |-> IF t \in Owed(W) THEN W[t].reply.cost ELSE 0]
Owing(W) == Total(Owes(W), Threads)
Spent(D, d) == Total([x \in DecisionRows |-> x.cost], {x \in D : x.day = d})

LEMMA Holding ==
  ASSUME NEW W \in [Threads -> Works]
  PROVE  /\ IsFiniteSet(Busy(W)) /\ Cardinality(Busy(W)) \in Nat
         /\ IsFiniteSet(Asking(W)) /\ Cardinality(Asking(W)) \in Nat
         /\ IsFiniteSet(Owed(W)) /\ Cardinality(Owed(W)) \in Nat
         /\ Cardinality(Owed(W)) + Cardinality(Asking(W)) <= Cardinality(Busy(W))
         /\ \A t \in Threads : Owes(W)[t] \in 0..MaxCost /\ Owes(W)[t] \in Nat
         /\ Owing(W) \in Nat /\ Owing(W) <= Cardinality(Owed(W)) * MaxCost
<1>1. Busy(W) \in SUBSET Threads /\ Asking(W) \in SUBSET Threads /\ Owed(W) \in SUBSET Threads
  BY DEF Busy, Asking, Owed
<1>2. /\ IsFiniteSet(Busy(W)) /\ Cardinality(Busy(W)) \in Nat
      /\ IsFiniteSet(Asking(W)) /\ Cardinality(Asking(W)) \in Nat
      /\ IsFiniteSet(Owed(W)) /\ Cardinality(Owed(W)) \in Nat
  BY <1>1, FiniteThreads
<1>3. Cardinality(Owed(W)) + Cardinality(Asking(W)) <= Cardinality(Busy(W))
  <2>1. Owed(W) \cap Asking(W) = {} /\ Owed(W) \cup Asking(W) \in SUBSET Busy(W)
    BY DEF Owed, Asking, Busy, Free
  <2>2. Cardinality(Owed(W) \cup Asking(W)) = Cardinality(Owed(W)) + Cardinality(Asking(W))
    <3>1. Cardinality(Owed(W) \cup Asking(W)) =
             Cardinality(Owed(W)) + Cardinality(Asking(W)) - Cardinality(Owed(W) \cap Asking(W))
      BY <1>2, FS_Union
    <3>2. Cardinality(Owed(W) \cap Asking(W)) = 0
      BY <2>1, FS_EmptySet
    <3> QED BY <1>2, <3>1, <3>2
  <2>3. Cardinality(Owed(W) \cup Asking(W)) <= Cardinality(Busy(W))
    BY <1>2, <2>1, FS_Subset
  <2> QED BY <2>2, <2>3
<1>4. MaxCost \in Nat /\ IsFiniteSet(Threads)
  BY AiAssumption
<1>5. ASSUME NEW t \in Threads PROVE Owes(W)[t] \in 0..MaxCost
  <2>1. CASE t \in Owed(W)
    <3>1. W[t] \in [pc : {"replied"}, mail : Mails, reply : Answers]
      BY <2>1 DEF Owed, Works, Free
    <3>2. W[t].reply.cost \in 0..MaxCost
      BY <3>1 DEF Answers
    <3> QED BY <2>1, <3>2 DEF Owes
  <2>2. CASE t \notin Owed(W)
    BY <1>4, <2>2 DEF Owes
  <2> QED BY <2>1, <2>2
<1>6. \A t \in Threads : Owes(W)[t] \in Nat
  BY <1>4, <1>5
<1>7. Owing(W) \in Nat
  BY <1>4, <1>6, TotalNat DEF Owing
<1>8. Owing(W) <= Cardinality(Owed(W)) * MaxCost
  <2>1. \A t \in Threads \ Owed(W) : Owes(W)[t] = 0
    BY DEF Owes
  <2>2. \A t \in Owed(W) : Owes(W)[t] \in 0..MaxCost
    BY <1>1, <1>5
  <2> QED BY <1>1, <1>4, <2>1, <2>2, TotalBound DEF Owing
<1> QED BY <1>2, <1>3, <1>5, <1>6, <1>7, <1>8

(* One thread does one thing. *)
Steps(W, V, t, w) == V = [W EXCEPT ![t] = w]

LEMMA OneThread ==
  ASSUME NEW W \in [Threads -> Works], NEW V \in [Threads -> Works], NEW t \in Threads, NEW w,
         Steps(W, V, t, w)
  PROVE  /\ Busy(V) = IF w # Free THEN Busy(W) \cup {t} ELSE Busy(W) \ {t}
         /\ Asking(V) = IF w.pc \in {"calling", "fallback"} /\ w.mail \in Classified
                          THEN Asking(W) \cup {t} ELSE Asking(W) \ {t}
         /\ Owing(V) + Owes(W)[t] = Owing(W) + Owes(V)[t]
         /\ V[t] = w
<1>1. V[t] = w /\ \A u \in Threads \ {t} : V[u] = W[u]
  BY DEF Steps
<1>2. Busy(V) = IF w # Free THEN Busy(W) \cup {t} ELSE Busy(W) \ {t}
  BY <1>1 DEF Busy
<1>3. Asking(V) = IF w.pc \in {"calling", "fallback"} /\ w.mail \in Classified
                          THEN Asking(W) \cup {t} ELSE Asking(W) \ {t}
  BY <1>1 DEF Asking
<1>4. \A u \in Threads \ {t} : Owes(W)[u] = Owes(V)[u]
  BY <1>1 DEF Owes, Owed
<1>5. /\ \A u \in Threads : Owes(W)[u] \in Nat
      /\ \A u \in Threads : Owes(V)[u] \in Nat
  BY Holding
<1>6. IsFiniteSet(Threads)
  BY AiAssumption
<1>7. Owing(V) + Owes(W)[t] = Owing(W) + Owes(V)[t]
  <2>1. Total(Owes(V), Threads) + Owes(W)[t] = Total(Owes(W), Threads) + Owes(V)[t]
    BY ONLY <1>4, <1>5, <1>6, t \in Threads, TotalChange
  <2> QED BY <2>1 DEF Owing
<1> QED BY <1>1, <1>2, <1>3, <1>7

LEMMA SpentIs ==
  ASSUME NEW D \in SUBSET DecisionRows, IsFiniteSet(D), NEW d
  PROVE  Spent(D, d) \in Nat
<1> DEFINE S == {x \in D : x.day = d}
           c == [x \in DecisionRows |-> x.cost]
<1>1. IsFiniteSet(S)
  BY FS_Subset
<1>2. \A x \in DecisionRows : x.cost \in Nat
  BY AiAssumption DEF DecisionRows
<1>3. \A x \in S : c[x] \in Nat
  BY <1>2
<1> HIDE DEF S, c
<1>4. Total(c, S) \in Nat
  BY <1>1, <1>3, TotalNat
<1> QED BY <1>4 DEF Spent, S, c

LEMMA SpentMore ==
  ASSUME NEW D \in SUBSET DecisionRows, IsFiniteSet(D), NEW x \in DecisionRows, x \notin D
  PROVE  Spent(D \cup {x}, x.day) = Spent(D, x.day) + x.cost
<1> DEFINE S == {y \in D : y.day = x.day}
           c == [y \in DecisionRows |-> y.cost]
<1>1. IsFiniteSet(S) /\ x \notin S
  BY FS_Subset
<1>2. \A y \in DecisionRows : y.cost \in Nat
  BY AiAssumption DEF DecisionRows
<1>3. c[x] = x.cost /\ \A y \in S \cup {x} : c[y] \in Nat
  BY <1>2
<1>4. {y \in D \cup {x} : y.day = x.day} = S \cup {x}
  OBVIOUS
<1>5. Spent(D \cup {x}, x.day) = Total(c, S \cup {x}) /\ Spent(D, x.day) = Total(c, S)
  BY <1>4 DEF Spent
<1> HIDE DEF S, c
<1>6. Total(c, S \cup {x}) = Total(c, S) + c[x]
  BY <1>1, <1>3, TotalMore
<1> QED BY <1>3, <1>5, <1>6

LEMMA SpentTodayIs ==
  ASSUME AssistantTypeOK
  PROVE  SpentToday = Spent(decisions, today) /\ SpentToday \in Nat
<1> DEFINE S == {d \in decisions : d.day = today}
<1>1. S \in SUBSET DecisionRows /\ IsFiniteSet(S)
  BY FS_Subset DEF AssistantTypeOK
<1>2. MapThenSumSet(LAMBDA d : d.cost, S) = Total([d \in DecisionRows |-> d.cost], S)
  <2> HIDE DEF S
  <2> QED BY <1>1, SumOfCosts
<1>3. SpentToday = Spent(decisions, today)
  BY <1>2 DEF SpentToday, Spent
<1> QED BY <1>3, SpentIs DEF AssistantTypeOK

(* The inductive invariant of the budget. *)
Days == 1..MaxDays
CostsSound ==
  /\ utc = today
  /\ Kept(Cardinality(Busy(work)), Cardinality(Asking(work)), Owing(work),
          Spent(decisions, today), billed[today], peak, crashes)
  /\ \A d \in Days : Within(0, billed[d], peak, crashes)
  /\ \A d \in Days : d > today => billed[d] = 0

LEMMA Numbers ==
  ASSUME AssistantTypeOK
  PROVE  /\ Cardinality(Busy(work)) \in Nat /\ Cardinality(Asking(work)) \in Nat
         /\ Owing(work) \in Nat /\ Spent(decisions, today) \in Nat
         /\ billed[today] \in Nat /\ peak \in Nat /\ crashes \in Nat /\ today \in Days
         /\ \A d \in Days : billed[d] \in Nat
BY Holding, SpentIs DEF AssistantTypeOK, Days

(* What bounded the earlier days bounds them still. *)
LEMMA DaysKept ==
  ASSUME AssistantTypeOK, CostsSound, peak' \in Nat, crashes' \in Nat, peak <= peak', crashes <= crashes'
  PROVE  \A d \in Days : Within(0, billed[d], peak', crashes')
<1> TAKE d \in Days
<1>1. Within(0, billed[d], peak, crashes) /\ billed[d] \in Nat /\ peak \in Nat /\ crashes \in Nat
  BY Numbers DEF CostsSound
<1> QED BY <1>1, KeptMore

LEMMA SameCosts ==
  ASSUME AssistantTypeOK, CostsSound, UNCHANGED <<work, decisions, days, billed, peak, crashes>>
  PROVE  CostsSound'
BY DEF CostsSound, days

LEMMA AdmitCosts ==
  ASSUME AssistantTypeOK, AssistantTypeOK', CostsSound, NEW t \in Threads, NEW m \in Mails, Admit(t, m)
  PROVE  CostsSound'
<1>1. work[t] = Free /\ UNCHANGED <<decisions, days, billed, crashes>>
  BY AdmitEffect
<1>2. CASE UNCHANGED <<work, peak>>
  BY <1>1, <1>2, SameCosts
<1>3. CASE /\ m \in Classified => SpentToday < Budget
           /\ \E p \in Providers : \E f \in Targets :
                    work' = [work EXCEPT ![t] = [pc |-> "calling", mail |-> m, first |-> p, fallback |-> f]]
           /\ peak' = Max({peak, Cardinality({u \in Threads : work'[u] # Free})})
  <2>1. PICK p \in Providers : \E f \in Targets :
                    work' = [work EXCEPT ![t] = [pc |-> "calling", mail |-> m, first |-> p, fallback |-> f]]
    BY <1>3
  <2>2. PICK f \in Targets :
                    work' = [work EXCEPT ![t] = [pc |-> "calling", mail |-> m, first |-> p, fallback |-> f]]
    BY <2>1
  <2>3. PICK w : w = [pc |-> "calling", mail |-> m, first |-> p, fallback |-> f]
    OBVIOUS
  <2>4. /\ work' = [work EXCEPT ![t] = w]
        /\ w.pc = "calling" /\ w.mail = m /\ w # Free
    BY <2>2, <2>3 DEF Free
  <2>5. work \in [Threads -> Works] /\ work' \in [Threads -> Works]
    BY DEF AssistantTypeOK
  <2>e. /\ Busy(work') = IF w # Free THEN Busy(work) \cup {t} ELSE Busy(work) \ {t}
        /\ Asking(work') = IF w.pc \in {"calling", "fallback"} /\ w.mail \in Classified
                          THEN Asking(work) \cup {t} ELSE Asking(work) \ {t}
        /\ Owing(work') + Owes(work)[t] = Owing(work) + Owes(work')[t]
        /\ work'[t] = w
    <3>1. Steps(work, work', t, w)
      BY <2>4 DEF Steps
    <3> QED BY <2>5, <3>1, OneThread
  <2>6. /\ Busy(work') = Busy(work) \cup {t}
        /\ Asking(work') = IF m \in Classified THEN Asking(work) \cup {t} ELSE Asking(work) \ {t}
        /\ Owing(work') + Owes(work)[t] = Owing(work) + Owes(work')[t]
        /\ work'[t] = w
    BY <2>e, <2>4
  <2>7. t \notin Busy(work) /\ t \notin Asking(work) /\ Owes(work)[t] = 0 /\ Owes(work')[t] = 0
    BY <1>1, <2>4, <2>6 DEF Busy, Asking, Owes, Owed, Free
  <2>8. Owing(work') = Owing(work)
    BY <2>5, <2>6, <2>7, Holding
  <2>9. /\ IsFiniteSet(Busy(work)) /\ IsFiniteSet(Asking(work))
    BY <2>5, Holding
  <2>10. PICK n \in Nat, a \in Nat, o \in Nat, s \in Nat, b \in Nat, k \in Nat, v \in Nat, q \in Nat, q2 \in Nat :
           /\ n = Cardinality(Busy(work)) /\ a = Cardinality(Asking(work)) /\ o = Owing(work)
           /\ s = Spent(decisions, today) /\ b = billed[today] /\ k = crashes
           /\ v = Cardinality(Owed(work)) /\ q = peak /\ q2 = peak'
    BY <2>5, Numbers, Holding DEF AssistantTypeOK
  <2>11. Cardinality(Busy(work')) = n + 1
    BY <2>6, <2>7, <2>9, <2>10, FS_AddElement
  <2>12. q <= q2 /\ n + 1 <= q2
    <3>1. peak' = Max({q, n + 1})
      BY <1>3, <2>10, <2>11 DEF Busy
    <3>2. n + 1 \in Nat
      OBVIOUS
    <3> QED BY <2>10, <3>1, <3>2, PeakTypes
  <2>13. Kept(n, a, o, s, b, q, k) /\ v + a <= n /\ o <= v * MaxCost
    BY <2>5, <2>10, Holding DEF CostsSound
  <2>14. \A d \in Days : Within(0, billed[d], q2, k)
    <3>1. peak <= peak' /\ crashes <= crashes' /\ peak' \in Nat /\ crashes' \in Nat /\ crashes' = k /\ peak' = q2
      BY <1>1, <2>10, <2>12
    <3> QED BY <3>1, DaysKept
  <2>15. Kept(Cardinality(Busy(work')), Cardinality(Asking(work')), o, s, b, q2, k)
    <3>1. CASE m \in Classified
      <4>1. Cardinality(Asking(work')) = a + 1
        <5>1. Asking(work') = Asking(work) \cup {t}
          BY <2>6, <3>1
        <5> QED BY <2>7, <2>9, <2>10, <5>1, FS_AddElement
      <4>2. s < Budget
        BY <1>3, <2>10, <3>1, SpentTodayIs
      <4>3. Kept(n + 1, a + 1, o, s, b, q2, k)
        BY <2>12, <2>13, <4>2, KeptStart
      <4> QED BY <2>11, <4>1, <4>3
    <3>2. CASE m \notin Classified
      <4>1. Asking(work') = Asking(work)
        BY <2>6, <2>7, <3>2
      <4>2. Within(a, b, q2, k)
        BY <2>12, <2>13, KeptMore DEF Kept
      <4>3. Kept(n + 1, a, o, s, b, q2, k)
        BY <2>12, <2>13, <4>2 DEF Kept
      <4> QED BY <2>10, <2>11, <4>1, <4>3
    <3> QED BY <3>1, <3>2
  <2>16. /\ decisions' = decisions /\ today' = today /\ utc' = utc /\ billed' = billed
         /\ crashes' = k /\ peak' = q2 /\ Owing(work') = o
    BY <1>1, <2>8, <2>10 DEF days
  <2> QED BY <2>10, <2>14, <2>15, <2>16 DEF CostsSound
<1>4. \/ UNCHANGED <<work, peak>>
      \/ /\ m \in Classified => SpentToday < Budget
         /\ \E p \in Providers : \E f \in Targets :
                    work' = [work EXCEPT ![t] = [pc |-> "calling", mail |-> m, first |-> p, fallback |-> f]]
         /\ peak' = Max({peak, Cardinality({u \in Threads : work'[u] # Free})})
  BY AdmitEffect
<1> QED BY <1>2, <1>3, <1>4

LEMMA CallCosts ==
  ASSUME AssistantTypeOK, AssistantTypeOK', CostsSound,
         NEW t \in Threads, CallProvider(t) \/ CallFallback(t)
  PROVE  CostsSound'
<1>1. work[t].pc \in {"calling", "fallback"} /\ UNCHANGED <<decisions, days, peak, crashes>>
  BY CallEffect
<1>2. work \in [Threads -> Works] /\ work' \in [Threads -> Works]
  BY DEF AssistantTypeOK
<1>3. /\ t \in Busy(work) /\ t \notin Owed(work) /\ Owes(work)[t] = 0
      /\ t \in Asking(work) <=> work[t].mail \in Classified
      /\ IsFiniteSet(Asking(work))
  <2>1. t \in Busy(work) /\ t \notin Owed(work) /\ (t \in Asking(work) <=> work[t].mail \in Classified)
    BY <1>1 DEF Busy, Owed, Asking, Free
  <2>2. Owes(work)[t] = 0
    BY <2>1 DEF Owes
  <2> QED BY <1>2, <2>1, <2>2, Holding
<1>4. PICK n \in Nat, a \in Nat, o \in Nat, s \in Nat, b \in Nat, q \in Nat, k \in Nat :
        /\ n = Cardinality(Busy(work)) /\ a = Cardinality(Asking(work)) /\ o = Owing(work)
        /\ s = Spent(decisions, today) /\ b = billed[today] /\ q = peak /\ k = crashes
  BY Numbers
<1>5. Kept(n, a, o, s, b, q, k) /\ \A d \in Days : Within(0, billed[d], q, k)
  BY <1>4 DEF CostsSound
<1>6. /\ decisions' = decisions /\ today' = today /\ utc' = utc
      /\ crashes' = k /\ peak' = q /\ utc = today
  BY <1>1, <1>4 DEF days, CostsSound
<1>7. ASSUME NEW p, work' = [work EXCEPT ![t] = [pc |-> "fallback", mail |-> work[t].mail,
                                                first |-> work[t].first, fallback |-> p]],
             work[t].mail \in Classified, UNCHANGED billed
      PROVE  CostsSound'
  <2>1. PICK w : w = [pc |-> "fallback", mail |-> work[t].mail, first |-> work[t].first, fallback |-> p]
    OBVIOUS
  <2>2. w.pc = "fallback" /\ w.mail = work[t].mail /\ w # Free /\ work' = [work EXCEPT ![t] = w]
    BY <1>7, <2>1 DEF Free
  <2>e. /\ Busy(work') = IF w # Free THEN Busy(work) \cup {t} ELSE Busy(work) \ {t}
        /\ Asking(work') = IF w.pc \in {"calling", "fallback"} /\ w.mail \in Classified
                          THEN Asking(work) \cup {t} ELSE Asking(work) \ {t}
        /\ Owing(work') + Owes(work)[t] = Owing(work) + Owes(work')[t]
        /\ work'[t] = w
    <3>1. Steps(work, work', t, w)
      BY <2>2 DEF Steps
    <3> QED BY <1>2, <3>1, OneThread
  <2>3. /\ Busy(work') = Busy(work) \cup {t} /\ Asking(work') = Asking(work) \cup {t}
        /\ Owing(work') + Owes(work)[t] = Owing(work) + Owes(work')[t]
        /\ work'[t] = w
    BY <2>e, <1>7, <2>2
  <2>4. Owes(work')[t] = 0 /\ Busy(work') = Busy(work) /\ Asking(work') = Asking(work)
    BY <1>3, <1>7, <2>2, <2>3 DEF Owes, Owed
  <2>5. Owing(work') = Owing(work)
    BY <1>2, <1>3, <2>3, <2>4, Holding
  <2> QED BY <1>4, <1>5, <1>6, <1>7, <2>4, <2>5 DEF CostsSound
<1>8. ASSUME NEW reply \in Answers, Replied(t, reply),
             billed' = IF work[t].mail \in Classified
                         THEN [billed EXCEPT ![today] = @ + reply.cost] ELSE billed
      PROVE  CostsSound'
  <2>1. PICK w : w = [pc |-> "replied", mail |-> work[t].mail, reply |-> reply]
    OBVIOUS
  <2>2. /\ w.pc = "replied" /\ w.mail = work[t].mail /\ w.reply = reply /\ w # Free
        /\ work' = [work EXCEPT ![t] = w]
    BY <1>8, <2>1 DEF Free, Replied
  <2>e. /\ Busy(work') = IF w # Free THEN Busy(work) \cup {t} ELSE Busy(work) \ {t}
        /\ Asking(work') = IF w.pc \in {"calling", "fallback"} /\ w.mail \in Classified
                          THEN Asking(work) \cup {t} ELSE Asking(work) \ {t}
        /\ Owing(work') + Owes(work)[t] = Owing(work) + Owes(work')[t]
        /\ work'[t] = w
    <3>1. Steps(work, work', t, w)
      BY <2>2 DEF Steps
    <3> QED BY <1>2, <3>1, OneThread
  <2>3. /\ Busy(work') = Busy(work) \cup {t} /\ Asking(work') = Asking(work) \ {t}
        /\ Owing(work') + Owes(work)[t] = Owing(work) + Owes(work')[t]
        /\ work'[t] = w
    BY <2>e, <2>2
  <2>4. /\ Busy(work') = Busy(work)
        /\ Owes(work')[t] = IF work[t].mail \in Classified THEN reply.cost ELSE 0
    <3>1. t \in Owed(work') <=> work[t].mail \in Classified
      BY <2>2, <2>3 DEF Owed
    <3>2. work'[t].reply = reply
      BY <2>2, <2>3
    <3> QED BY <1>3, <2>3, <3>1, <3>2 DEF Owes
  <2>5. PICK c \in 0..MaxCost : c = reply.cost
    BY DEF Answers
  <2>6. today \in Days /\ billed \in [Days -> Nat] /\ MaxCost \in Nat /\ b = billed[today]
    BY <1>4, AiAssumption DEF AssistantTypeOK, Days
  <2>7. CASE work[t].mail \in Classified
    <3>1. Owing(work') = o + c
      <4>1. Owing(work') \in Nat
        BY <1>2, Holding
      <4> QED BY <1>3, <1>4, <2>3, <2>4, <2>5, <2>6, <2>7, <4>1
    <3>2. Cardinality(Asking(work')) = a - 1 /\ a - 1 \in Nat
      <4>1. Cardinality(Asking(work')) = a - 1
        <5>1. Asking(work') = Asking(work) \ {t} /\ t \in Asking(work) /\ IsFiniteSet(Asking(work))
          BY <1>3, <2>3, <2>7
        <5> QED BY <1>4, <5>1, FS_RemoveElement
      <4> QED BY <1>2, <4>1, Holding
    <3>3. PICK a2 \in Nat : a2 = a - 1 /\ a = a2 + 1
      BY <3>2
    <3>4. billed' = [billed EXCEPT ![today] = b + c]
      BY <1>8, <2>5, <2>6, <2>7
    <3>5. Kept(n, a2, o + c, s, b + c, q, k)
      BY <1>5, <3>3, KeptReply
    <3>6. Within(0, b + c, q, k)
      <4>1. a2 * MaxCost \in Nat /\ (q + k) * MaxCost \in Nat /\ 0 * MaxCost = 0
        BY Products, <2>6, q + k \in Nat
      <4>2. Budget \in Nat
        BY AiAssumption
      <4> QED BY <2>6, <3>5, <4>1, <4>2 DEF Kept, Within
    <3>7. \A d \in Days : Within(0, billed'[d], q, k)
      BY <1>5, <2>6, <3>4, <3>6
    <3>8. \A d \in Days : d > today => billed'[d] = 0
      BY <2>6, <3>4 DEF CostsSound, Days
    <3>9. billed'[today] = b + c
      BY <2>6, <3>4
    <3> QED BY <1>4, <1>6, <2>4, <3>1, <3>2, <3>3, <3>5, <3>7, <3>8, <3>9 DEF CostsSound
  <2>8. CASE work[t].mail \notin Classified
    <3>1. Owing(work') = o /\ Asking(work') = Asking(work) /\ billed' = billed
      BY <1>2, <1>3, <1>4, <1>8, <2>3, <2>4, <2>8, Holding
    <3> QED BY <1>4, <1>5, <1>6, <2>4, <3>1 DEF CostsSound
  <2> QED BY <2>7, <2>8
<1> QED BY <1>7, <1>8, CallEffect

(* A thread that is done: it asks no more, and owes no more than one cost. *)
LEMMA DoneThread ==
  ASSUME NEW W \in [Threads -> Works], NEW V \in [Threads -> Works], NEW t \in Threads, Steps(W, V, t, Free)
  PROVE  /\ Cardinality(Busy(V)) <= Cardinality(Busy(W))
         /\ Cardinality(Asking(V)) <= Cardinality(Asking(W))
         /\ Cardinality(Asking(V)) <= Cardinality(Busy(V))
         /\ Owing(W) = Owing(V) + Owes(W)[t]
<1>1. /\ Busy(V) = IF Free # Free THEN Busy(W) \cup {t} ELSE Busy(W) \ {t}
      /\ Asking(V) = IF Free.pc \in {"calling", "fallback"} /\ Free.mail \in Classified
                          THEN Asking(W) \cup {t} ELSE Asking(W) \ {t}
      /\ Owing(V) + Owes(W)[t] = Owing(W) + Owes(V)[t]
      /\ V[t] = Free
  BY OneThread
<1>2. Busy(V) \in SUBSET Busy(W) /\ Asking(V) \in SUBSET Asking(W)
  <2>1. Free.pc = "idle"
    BY DEF Free
  <2> QED BY <1>1, <2>1
<1>3. Owes(V)[t] = 0
  BY <1>1 DEF Owes, Owed, Free
<1>4. /\ IsFiniteSet(Busy(W)) /\ IsFiniteSet(Asking(W))
      /\ Owing(W) \in Nat /\ Owing(V) \in Nat /\ Owes(W)[t] \in Nat
      /\ Cardinality(Asking(V)) <= Cardinality(Busy(V))
  <2>1. /\ Cardinality(Owed(V)) + Cardinality(Asking(V)) <= Cardinality(Busy(V))
        /\ Cardinality(Owed(V)) \in Nat /\ Cardinality(Asking(V)) \in Nat /\ Cardinality(Busy(V)) \in Nat
        /\ Owing(V) \in Nat
    BY Holding
  <2> QED BY <2>1, Holding
<1>5. Cardinality(Busy(V)) <= Cardinality(Busy(W)) /\ Cardinality(Asking(V)) <= Cardinality(Asking(W))
  BY <1>2, <1>4, FS_Subset
<1>6. Owing(W) = Owing(V) + Owes(W)[t]
  BY <1>1, <1>3, <1>4
<1> QED BY <1>4, <1>5, <1>6

LEMMA RecordCosts ==
  ASSUME AssistantTypeOK, AssistantTypeOK', OneRequest, CostsSound, NEW t \in Threads, Record(t)
  PROVE  CostsSound'
<1>1. PICK d \in DecisionRows :
           /\ work[t].pc = "replied" /\ work[t] # Free
           /\ d.mail = work[t].mail /\ d.cost = work[t].reply.cost /\ d.day = utc
           /\ decisions' = decisions \cup {d}
           /\ Answer(t, Acted(d.mail, d))
           /\ UNCHANGED <<tables, cache, days, history>>
  BY RecordEffect
<1>2. work \in [Threads -> Works] /\ work' \in [Threads -> Works]
      /\ decisions \in SUBSET DecisionRows /\ IsFiniteSet(decisions)
  BY DEF AssistantTypeOK
<1>3. Steps(work, work', t, Free)
  BY <1>1 DEF Answer, Steps
<1>4. d \notin decisions
  BY <1>1 DEF OneRequest
<1>5. /\ today' = today /\ utc' = utc /\ billed' = billed /\ peak' = peak /\ crashes' = crashes
      /\ d.day = today
  BY <1>1 DEF days, history, CostsSound
<1>6. Spent(decisions', today) = Spent(decisions, today) + d.cost
  <2>1. Spent(decisions \cup {d}, d.day) = Spent(decisions, d.day) + d.cost
    BY <1>2, <1>4, SpentMore
  <2> QED BY <1>1, <1>5, <2>1
<1>7. d.cost \in Nat /\ Owes(work)[t] <= d.cost
  <2>1. d.cost \in Nat
    BY AiAssumption DEF DecisionRows
  <2>2. Owes(work)[t] = IF t \in Owed(work) THEN d.cost ELSE 0
    BY <1>1 DEF Owes
  <2> QED BY <2>1, <2>2
<1>8. PICK n \in Nat, a \in Nat, o \in Nat, s \in Nat, b \in Nat, q \in Nat, k \in Nat :
        /\ n = Cardinality(Busy(work)) /\ a = Cardinality(Asking(work)) /\ o = Owing(work)
        /\ s = Spent(decisions, today) /\ b = billed[today] /\ q = peak /\ k = crashes
  BY Numbers
<1>9. PICK n2 \in Nat, a2 \in Nat, o2 \in Nat, c \in Nat :
        /\ n2 = Cardinality(Busy(work')) /\ a2 = Cardinality(Asking(work')) /\ o2 = Owing(work')
        /\ c = d.cost
  BY <1>2, <1>7, Holding
<1>10. n2 <= n /\ a2 <= a /\ a2 <= n2 /\ o <= o2 + c
  <2>1. /\ Cardinality(Busy(work')) <= Cardinality(Busy(work))
        /\ Cardinality(Asking(work')) <= Cardinality(Asking(work))
        /\ Cardinality(Asking(work')) <= Cardinality(Busy(work'))
        /\ Owing(work) = Owing(work') + Owes(work)[t]
    BY <1>2, <1>3, DoneThread
  <2>2. Owes(work)[t] \in Nat
    BY <1>2, Holding
  <2> QED BY <1>7, <1>8, <1>9, <2>1, <2>2
<1>11. Kept(n, a, o, s, b, q, k)
  BY <1>8 DEF CostsSound
<1>12. Kept(n2, a2, o2, s + c, b, q, k)
  <2>1. s + c \in Nat /\ s + o <= (s + c) + o2
    BY <1>10
  <2> QED BY <1>10, <1>11, <2>1, KeptDone
<1>13. Spent(decisions', today) = s + c
  BY <1>6, <1>8, <1>9
<1> QED BY <1>5, <1>8, <1>9, <1>12, <1>13 DEF CostsSound

LEMMA DieCosts ==
  ASSUME AssistantTypeOK, AssistantTypeOK', CostsSound, NEW t \in Threads, Die(t)
  PROVE  CostsSound'
<1>1. /\ crashes' = crashes + 1 /\ Answer(t, Unanswered(work[t].mail))
      /\ UNCHANGED <<decisions, days, billed, peak>>
  BY DieEffect
<1>2. work \in [Threads -> Works] /\ work' \in [Threads -> Works]
  BY DEF AssistantTypeOK
<1>3. Steps(work, work', t, Free)
  BY <1>1 DEF Answer, Steps
<1>4. Owes(work)[t] <= MaxCost /\ Owes(work)[t] \in Nat /\ MaxCost \in Nat
  BY <1>2, Holding, AiAssumption
<1>5. PICK n \in Nat, a \in Nat, o \in Nat, s \in Nat, b \in Nat, q \in Nat, k \in Nat :
        /\ n = Cardinality(Busy(work)) /\ a = Cardinality(Asking(work)) /\ o = Owing(work)
        /\ s = Spent(decisions, today) /\ b = billed[today] /\ q = peak /\ k = crashes
  BY Numbers
<1>6. PICK n2 \in Nat, a2 \in Nat, o2 \in Nat :
        /\ n2 = Cardinality(Busy(work')) /\ a2 = Cardinality(Asking(work')) /\ o2 = Owing(work')
  BY <1>2, Holding
<1>7. n2 <= n /\ a2 <= a /\ a2 <= n2 /\ o <= o2 + MaxCost
  <2>1. /\ Cardinality(Busy(work')) <= Cardinality(Busy(work))
        /\ Cardinality(Asking(work')) <= Cardinality(Asking(work))
        /\ Cardinality(Asking(work')) <= Cardinality(Busy(work'))
        /\ Owing(work) = Owing(work') + Owes(work)[t]
    BY <1>2, <1>3, DoneThread
  <2> QED BY <1>4, <1>5, <1>6, <2>1
<1>8. Kept(n, a, o, s, b, q, k)
  BY <1>5 DEF CostsSound
<1>9. Kept(n2, a2, o2, s, b, q, k + 1)
  BY <1>7, <1>8, KeptDie
<1>10. /\ decisions' = decisions /\ today' = today /\ utc' = utc /\ billed' = billed /\ peak' = q
       /\ crashes' = k + 1
  BY <1>1, <1>5 DEF days
<1>11. \A d \in Days : Within(0, billed[d], q, k + 1)
  <2>1. peak <= peak' /\ crashes <= crashes' /\ peak' \in Nat /\ crashes' \in Nat
    BY <1>5, <1>10
  <2>2. \A d \in Days : Within(0, billed[d], peak', crashes')
    BY <2>1, DaysKept
  <2> QED BY <1>10, <2>2
<1> QED BY <1>5, <1>6, <1>9, <1>10, <1>11 DEF CostsSound

LEMMA MidnightCosts ==
  ASSUME UtcLag = FALSE, Budget > 0, AssistantTypeOK, AssistantTypeOK', CostsSound, Midnight
  PROVE  CostsSound'
<1>1. /\ today' = today + 1 /\ utc' = today'
      /\ UNCHANGED <<decisions, work, billed, peak, crashes>>
  BY DEF Midnight, CostsSound, history, AssistantTypeOK
<1>2. today \in Days /\ today' \in Days
  BY DEF AssistantTypeOK, Days
<1>3. billed[today'] = 0
  BY <1>1, <1>2 DEF CostsSound, Days
<1>4. PICK n \in Nat, a \in Nat, o \in Nat, s \in Nat, b \in Nat, q \in Nat, k \in Nat :
        /\ n = Cardinality(Busy(work)) /\ a = Cardinality(Asking(work)) /\ o = Owing(work)
        /\ s = Spent(decisions, today) /\ b = billed[today] /\ q = peak /\ k = crashes
  BY Numbers
<1>5. PICK s2 \in Nat : s2 = Spent(decisions, today')
  BY SpentIs DEF AssistantTypeOK
<1>6. Kept(n, a, o, s2, 0, q, k)
  <2>1. Kept(n, a, o, s, b, q, k)
    BY <1>4 DEF CostsSound
  <2> QED BY <2>1, KeptMidnight
<1>7. \A d \in Days : d > today' => billed[d] = 0
  BY <1>1, <1>2 DEF CostsSound, Days
<1> QED BY <1>1, <1>3, <1>4, <1>5, <1>6, <1>7 DEF CostsSound

LEMMA CostsStep ==
  ASSUME UtcLag = FALSE, Budget > 0, AssistantTypeOK, AssistantTypeOK', OneRequest, CostsSound,
         [AssistantNext]_assistantVars
  PROVE  CostsSound'
<1>1. ASSUME NEW m \in Mails, Post(m) \/ GiveUp(m) PROVE CostsSound'
  BY <1>1, SameCosts DEF Post, GiveUp, history, days
<1>2. CASE Operator
  BY <1>2, OperatorEffect, SameCosts
<1>3. CASE UNCHANGED assistantVars
  <2>1. UNCHANGED <<work, decisions, days, billed, peak, crashes>>
    BY <1>3 DEF assistantVars, history
  <2> QED BY <2>1, SameCosts
<1> QED BY <1>1, <1>2, <1>3, AdmitCosts, CallCosts, RecordCosts, DieCosts, MidnightCosts
        DEF AssistantNext, Request

-----------------------------------------------------------------------------
(* The theorems.                                                           *)

LEMMA AssistantTypeInit == AssistantInit => AssistantTypeOK
<1> SUFFICES ASSUME AssistantInit PROVE AssistantTypeOK
  OBVIOUS
<1>1. /\ bindings \in [Ids -> Bindings \cup {NoRow}]
      /\ \A i \in Ids : bindings[i] \in RowOf(i) \cup {NoRow}
  <2>1. bindings = [i \in Ids |-> IF i \in DOMAIN FirstBindings THEN FirstBindings[i] ELSE NoRow]
    BY DEF AssistantInit
  <2>2. \A i \in DOMAIN FirstBindings : FirstBindings[i] \in RowOf(i)
    BY AiAssumption DEF RowOf, Targets
  <2>3. \A i \in Ids : bindings[i] \in RowOf(i) \cup {NoRow}
    BY <2>1, <2>2
  <2>4. \A i \in Ids : bindings[i] \in Bindings \cup {NoRow}
    BY <2>3, BindingTypes
  <2> QED BY <2>1, <2>3, <2>4
<1>2. audit \in Seq({"live", "shadow"})
  BY DEF AssistantInit
<1>3. ConsoleTypeOK
  BY <1>1, <1>2, AiAssumption DEF AssistantInit, ConsoleTypeOK
<1>4. decisions \in SUBSET DecisionRows /\ IsFiniteSet(decisions)
  BY FS_EmptySet DEF AssistantInit
<1>5. /\ work \in [Threads -> Works] /\ mail \in [Mails -> {"new", "waiting"} \cup Outcomes]
      /\ cache \in [Workers -> {NoCache} \cup [rows : SUBSET Bindings, known : SUBSET Providers]]
  BY DEF AssistantInit, Works
<1>6. today \in 1..MaxDays /\ utc \in 1..MaxDays /\ billed \in [1..MaxDays -> Nat]
      /\ peak \in Nat /\ lived \in SUBSET Mails /\ crashes \in Nat
  BY AiAssumption DEF AssistantInit
<1> QED BY <1>3, <1>4, <1>5, <1>6, TypeParts DEF RequestTypeOK

(* Every variable of the assistant keeps its type.                         *)
THEOREM AssistantTypeCorrect == AssistantSpec => []AssistantTypeOK
<1> QED BY AssistantTypeInit, AssistantTypeStep, PTL DEF AssistantSpec

LEMMA OneRequestInvariant == AssistantSpec => []OneRequest
<1>1. AssistantInit => OneRequest
  <2> SUFFICES ASSUME AssistantInit PROVE OneRequest
    OBVIOUS
  <2>1. decisions = {} /\ \A t \in Threads : work[t] = Free
    BY DEF AssistantInit
  <2> QED BY <2>1 DEF OneRequest
<1> QED BY <1>1, OneRequestStep, AssistantTypeCorrect, PTL DEF AssistantSpec

(* The listener acts on an answer only if it was recorded as applied and   *)
(* if the assistant was live at some moment while the mail waited          *)
(* (classify_email, do_ai_classify), whatever operators switch meanwhile.  *)
THEOREM ActsLive == AssistantSpec => []ActsOnlyIfLive
<1>1. AssistantInit => LiveSound
  BY DEF AssistantInit, LiveSound, ActsOnlyIfLive, ByAI
<1>2. LiveSound => ActsOnlyIfLive
  BY DEF LiveSound
<1> QED BY <1>1, <1>2, LiveStep, AssistantTypeCorrect, PTL DEF AssistantSpec

LEMMA CostsInit ==
  ASSUME Budget > 0, AssistantInit, AssistantTypeOK
  PROVE  CostsSound
<1>1. /\ utc = today /\ peak = 0 /\ crashes = 0 /\ decisions = {} /\ today \in Days
      /\ \A d \in Days : billed[d] = 0
      /\ work \in [Threads -> Works] /\ \A t \in Threads : work[t] = Free
  BY AiAssumption DEF AssistantInit, Days, AssistantTypeOK
<1>2. Busy(work) = {} /\ Asking(work) = {} /\ Owed(work) = {}
  BY <1>1 DEF Busy, Asking, Owed, Free
<1>3. Cardinality(Busy(work)) = 0 /\ Cardinality(Asking(work)) = 0
  BY <1>2, FS_EmptySet
<1>4. Owing(work) \in Nat /\ Spent(decisions, today) \in Nat
  BY Numbers
<1>5. Within(0, 0, 0, 0)
  BY AiAssumption DEF Within
<1>6. Kept(0, 0, Owing(work), Spent(decisions, today), 0, 0, 0)
  BY <1>4, <1>5, AiAssumption DEF Kept
<1> QED BY <1>1, <1>3, <1>5, <1>6 DEF CostsSound

(* What classification costs in a day exceeds the budget by no more than   *)
(* the calls that ran at once and those whose cost died with their process *)
(* (_budget_remaining), when the days of the server are those of UTC.      *)
THEOREM Billed ==
  ASSUME UtcLag = FALSE
  PROVE  AssistantSpec => []BilledBounded
<1>1. CASE Budget > 0
  <2>1. AssistantInit => CostsSound
    BY <1>1, AssistantTypeInit, CostsInit
  <2>2. AssistantTypeOK /\ AssistantTypeOK' /\ OneRequest /\ CostsSound /\ [AssistantNext]_assistantVars
           => CostsSound'
    BY <1>1, CostsStep
  <2>3. AssistantTypeOK /\ CostsSound => BilledBounded
    <3> SUFFICES ASSUME AssistantTypeOK, CostsSound, NEW d \in Days
                 PROVE  billed[d] <= Budget - 1 + (peak + crashes) * MaxCost
      BY DEF BilledBounded, Days
    <3>1. Within(0, billed[d], peak, crashes) /\ billed[d] \in Nat
      BY Numbers DEF CostsSound
    <3>2. 0 * MaxCost = 0
      BY AiAssumption
    <3> QED BY <3>1, <3>2 DEF Within
  <2> QED BY <2>1, <2>2, <2>3, AssistantTypeCorrect, OneRequestInvariant, PTL DEF AssistantSpec
<1>2. CASE ~(Budget > 0)
  <2>1. BilledBounded
    BY <1>2 DEF BilledBounded
  <2> QED BY <2>1, PTL
<1> QED BY <1>1, <1>2

=============================================================================
