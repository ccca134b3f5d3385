------------------------------ MODULE RuleTree ------------------------------
(* The table rules of the admin: orphans, groups and their children, the   *)
(* operations of the rule pages on it (routes/rules.py, sqlite_impl.py),   *)
(* the two readings of it (flatten.py for the listener, evaluator.py for   *)
(* the simulation page), and what the listener does with the flat rules.   *)
(* A match_* column holds a text, of which only matters what a search for  *)
(* it accepts, alone and combined with the group's.  All rules have one    *)
(* scope.                                                                  *)
EXTENDS Integers, FiniteSets

CONSTANTS
    MaxRules,        \* rules ever inserted (bound)
    MaxEdits,        \* operations on the table (bound)
    Gap,             \* what duplicate_rule adds to the highest priority
    RegexFields,     \* match_*_regex: group and child are combined with AND
    ExactFields,     \* domains and tristates: both present must be equal
    OverrideFields,  \* match_customer_groups: the child's replaces the group's
    SimFields,       \* what the simulation page tests: the expressions, to_domain
    Vals,            \* values a field of a mail can have
    Texts, Blank,    \* what a match_* column can hold; an empty column
    Accepted,        \* the values that a text accepts; none if it does not compile
    AcceptedBoth,    \* those that "(?=.*p)(?=.*c).*" accepts, for texts p and c
    Forms            \* what is typed into the forms

Ids == 1..MaxRules
Fields == RegexFields \cup ExactFields \cup OverrideFields
Filters == [Fields -> Texts]
NoFilter == [f \in Fields |-> Blank]
Mails == [Fields -> Vals]

ASSUME RuleBounds ==
    /\ MaxRules \in Nat /\ MaxEdits \in Nat /\ Gap \in Nat
    /\ Vals # {} /\ Blank \in Texts
    /\ Accepted \in [Texts -> SUBSET Vals] /\ Accepted[Blank] = Vals
    /\ AcceptedBoth \in [Texts \X Texts -> SUBSET Vals]
    /\ SimFields \subseteq RegexFields \cup ExactFields
    /\ Forms \subseteq [match : Filters, priority : Nat \ {0}, enabled : BOOLEAN,
                        continue : BOOLEAN, exclusive : BOOLEAN,
                        inGroup : BOOLEAN, exitGroup : BOOLEAN]

VARIABLES
    rules,     \* the rows by id; parent 0 is NULL
    lastRule,  \* AUTOINCREMENT
    cluster,   \* the promotion of a suggested cluster under way
    edits      \* operations so far

treeVars == <<rules, lastRule, cluster, edits>>

NoRule == [exists |-> FALSE, id |-> 0, parent |-> 0, group |-> FALSE, priority |-> 0,
           enabled |-> FALSE, continue |-> FALSE, exclusive |-> FALSE,
           inGroup |-> FALSE, exitGroup |-> FALSE, match |-> NoFilter]
NoCluster == [group |-> 0, left |-> {}]
-----------------------------------------------------------------------------
(* Reading the table.  The operators take rows, so that they also apply to *)
(* rows that were read at different times.                                 *)
Before(a, b) == a.priority < b.priority \/ (a.priority = b.priority /\ a.id < b.id)

TopItems(t) == {t[r] : r \in {s \in Ids : t[s].exists /\ t[s].enabled /\ t[s].parent = 0}}
KidsOf(t, g) == {t[r] : r \in {s \in Ids : t[s].exists /\ t[s].enabled /\ t[s].parent = g}}
Groups(top) == {g \in top : g.group}
KidItems(t) == UNION {KidsOf(t, g.id) : g \in Groups(TopItems(t))}
Of(kids, g) == {c \in kids : c.parent = g.id}

(* _merge_match_field, by what the result accepts, and the pairs for which *)
(* it raises.  Two expressions become lookaheads of a third, which accepts *)
(* what both do, or less, or nothing: an inline flag such as (?i) does not *)
(* compile there.                                                          *)
Meaning(match) == [f \in Fields |-> Accepted[match[f]]]
Combines(g, c, f) ==
    f \in RegexFields /\ g.match[f] # Blank /\ c.match[f] # Blank
Merged(g, c) ==
    [f \in Fields |->
        IF Combines(g, c, f) THEN AcceptedBoth[<<g.match[f], c.match[f]>>]
        ELSE Accepted[IF c.match[f] # Blank THEN c.match[f] ELSE g.match[f]]]
Clash(g, c) ==
    \E f \in ExactFields :
        /\ g.match[f] # Blank /\ c.match[f] # Blank
        /\ g.match[f] # c.match[f]

(* derive_continue_flag, among the enabled children of the group. *)
IsLast(kids, g, c) == \A d \in Of(kids, g) : d = c \/ Before(d, c)
Continues(kids, g, c) ==
    \/ c.inGroup \/ c.exitGroup
    \/ IsLast(kids, g, c) /\ (~g.exclusive \/ \E d \in Of(kids, g) : d.exitGroup)

(* flatten_rules: what GET /rules/active serves, if nothing raises; a flat *)
(* row has the values its columns accept in their place.                   *)
FlatRow(r, match, continue) ==
    [id |-> r.id, priority |-> r.priority, match |-> match, continue |-> continue]
MutFlat(top, kids) ==
    {FlatRow(o, Meaning(o.match), o.continue) : o \in top \ Groups(top)} \cup
    UNION {{FlatRow(c, Merged(g, c), c.inGroup \/ c.exitGroup) : c \in Of(kids, g)}
           : g \in Groups(top)}
Flat(top, kids) ==
    {FlatRow(o, Meaning(o.match), o.continue) : o \in top \ Groups(top)} \cup
    UNION {{FlatRow(c, Merged(g, c), Continues(kids, g, c)) : c \in Of(kids, g)}
           : g \in Groups(top)}
Publishable(top, kids) == \A g \in Groups(top) : \A c \in Of(kids, g) : ~Clash(g, c)

FlatRules(t) == Flat(TopItems(t), KidItems(t))

Accepts(match, m) == \A f \in Fields : m[f] \in match[f]

(* RuleEngine.evaluate of the listener: a rule matches if every rule before*)
(* it that matches says to continue.                                       *)
ListenerWinners(flat, m) ==
    LET Hits == {r \in flat : Accepts(r.match, m)}
    IN {r.id : r \in {h \in Hits : \A e \in Hits : Before(e, h) => e.continue}}

(* evaluate_v2 of the simulation page, on the tree itself.  Its own        *)
(* _rule_matches tests fewer columns than the listener's.                  *)
SimAccepts(match, m) == \A f \in SimFields : m[f] \in match[f]
ChildWinners(kids, g, m) ==
    LET Hits == {c \in Of(kids, g) : SimAccepts(Merged(g, c), m)}
    IN {c \in Hits : \A e \in Hits : Before(e, c) => Continues(kids, g, e)}
ItemWinners(kids, i, m) ==
    IF ~SimAccepts(Meaning(i.match), m) THEN {}
    ELSE IF i.group THEN ChildWinners(kids, i, m) ELSE {i}
GoesOn(kids, i, m) ==
    LET W == ItemWinners(kids, i, m)
    IN W # {} => IF i.group
                 THEN \E c \in W : IsLast(kids, i, c) /\ Continues(kids, i, c)
                 ELSE i.continue
TreeWinners(top, kids, m) ==
    {w.id : w \in UNION {ItemWinners(kids, i, m) : i \in
        {j \in top : \A e \in top : Before(e, j) => GoesOn(kids, e, m)}}}
-----------------------------------------------------------------------------
(* Operations of the rule pages; each is one transaction. *)
TreeInit ==
    /\ rules = [r \in Ids |-> NoRule]
    /\ lastRule = 0
    /\ cluster = NoCluster
    /\ edits = 0

Edit == edits < MaxEdits /\ edits' = edits + 1

Stored(r) == r \in Ids /\ rules[r].exists
IsNew(r) == r \in Ids /\ r = lastRule + 1
Put(row) ==
    /\ rules' = [rules EXCEPT ![row.id] = row]
    /\ lastRule' = IF row.id > lastRule THEN row.id ELSE lastRule

(* form_view (and the wizard), also for the id of a child or of a group:   *)
(* the form knows nothing of the tree, so upsert_rule resets its columns.  *)
OrphanRow(r, form) ==
    [exists |-> TRUE, id |-> r, parent |-> 0, group |-> FALSE,
     priority |-> form.priority, enabled |-> form.enabled, continue |-> form.continue,
     exclusive |-> TRUE, inGroup |-> FALSE, exitGroup |-> FALSE, match |-> form.match]
SaveOrphan(r, form) ==
    /\ Edit
    /\ Stored(r) \/ IsNew(r)
    /\ form.match # NoFilter
    /\ Put(OrphanRow(r, form))
    /\ UNCHANGED cluster

(* save_proposal of the AI wizard: what generate_rule suggested becomes a  *)
(* new orphan, disabled until an operator has looked at it.                *)
Suggested(form) ==
    [OrphanRow(lastRule + 1, form) EXCEPT !.enabled = FALSE, !.continue = FALSE]
SaveSuggestion(form) ==
    /\ Edit
    /\ IsNew(lastRule + 1)
    /\ form.match # NoFilter
    /\ Put(Suggested(form))
    /\ UNCHANGED cluster

(* group_form_view: a group needs a filter (V004). *)
GroupRow(r, form) ==
    [exists |-> TRUE, id |-> r, parent |-> 0, group |-> TRUE,
     priority |-> form.priority, enabled |-> form.enabled, continue |-> FALSE,
     exclusive |-> form.exclusive, inGroup |-> FALSE, exitGroup |-> FALSE,
     match |-> form.match]
SaveGroup(r, form) ==
    /\ Edit
    /\ (Stored(r) /\ rules[r].group) \/ IsNew(r)
    /\ form.match # NoFilter
    /\ Put(GroupRow(r, form))
    /\ UNCHANGED cluster

(* V006 and V_PRI_RANGE as child_form_view checks them: the group's        *)
(* present filters, and a priority above the group's; the priority of the  *)
(* next top-level item is never passed.                                    *)
Compatible(g, form) ==
    /\ ~Clash(g, form)
    /\ \A f \in OverrideFields : Accepted[g.match[f]] \cap Accepted[form.match[f]] # {}

ChildRow(r, g, form) ==
    [exists |-> TRUE, id |-> r, parent |-> g, group |-> FALSE,
     priority |-> form.priority, enabled |-> form.enabled, continue |-> FALSE,
     exclusive |-> TRUE, inGroup |-> form.inGroup, exitGroup |-> form.exitGroup,
     match |-> form.match]
SaveChild(r, g, form) ==
    /\ Edit
    /\ Stored(g) /\ rules[g].group
    /\ (Stored(r) /\ rules[r].parent = g) \/ IsNew(r)
    /\ Compatible(rules[g], form)
    /\ form.priority > rules[g].priority
    /\ Put(ChildRow(r, g, form))
    /\ UNCHANGED cluster

(* DELETE, with ON DELETE CASCADE along parent_id. *)
Below(r) ==
    {s \in Ids : \A S \in SUBSET Ids :
        r \in S /\ (\A k \in Ids : rules[k].parent \in S => k \in S) => s \in S}
Delete(r) ==
    /\ Edit
    /\ Stored(r)
    /\ rules' = [s \in Ids |-> IF s \in Below(r) THEN NoRule ELSE rules[s]]
    /\ UNCHANGED <<lastRule, cluster>>

(* toggle_view, and each row of a bulk enable or disable. *)
Toggle(r) ==
    /\ Edit
    /\ Stored(r)
    /\ rules' = [rules EXCEPT ![r].enabled = ~@]
    /\ UNCHANGED <<lastRule, cluster>>

(* duplicate_rule: parent and flags are copied, the priority comes last. *)
Highest == CHOOSE p \in {0} \cup {rules[r].priority : r \in Ids} :
               \A r \in Ids : rules[r].priority <= p
Duplicate(r) ==
    /\ Edit
    /\ Stored(r)
    /\ IsNew(lastRule + 1)
    /\ Put([rules[r] EXCEPT !.id = lastRule + 1, !.priority = Highest + Gap])
    /\ UNCHANGED cluster

(* promote_rule_to_group: the rule becomes the child of a new group with   *)
(* its filters (but not match_customer_groups) and the priority before it. *)
PromotedGroup(r) ==
    [rules[r] EXCEPT
        !.id = lastRule + 1, !.group = TRUE, !.enabled = TRUE, !.continue = FALSE,
        !.priority = IF @ > 1 THEN @ - 1 ELSE 1,
        !.exclusive = TRUE, !.inGroup = FALSE, !.exitGroup = FALSE,
        !.match = [f \in Fields |-> IF f \in OverrideFields THEN Blank ELSE @[f]]]
Promotion(r) ==
    /\ Edit
    /\ Stored(r) /\ rules[r].parent = 0 /\ ~rules[r].group
    /\ IsNew(lastRule + 1)
    /\ rules' = [rules EXCEPT ![lastRule + 1] = PromotedGroup(r),
                              ![r].parent = lastRule + 1]
    /\ lastRule' = lastRule + 1
Promote(r) == Promotion(r) /\ UNCHANGED cluster

(* groupable_promote_view: the first of the orphans with equal filters is  *)
(* promoted, the others become children one transaction at a time.         *)
Alike(r) == {s \in Ids : /\ Stored(s) /\ rules[s].parent = 0 /\ ~rules[s].group
                         /\ rules[s].match = rules[r].match}
PromoteCluster(r) ==
    /\ cluster = NoCluster
    /\ rules[r].match # NoFilter
    /\ Cardinality(Alike(r)) > 1
    /\ \A s \in Alike(r) \ {r} : Before(rules[r], rules[s])
    /\ Promotion(r)
    /\ cluster' = [group |-> lastRule + 1, left |-> Alike(r) \ {r}]

(* upsert_rule with the row as it is and the new parent; if the row or the *)
(* group is gone it raises, and the rest stays where it is.                *)
Attach(r) ==
    /\ Edit
    /\ r \in cluster.left
    /\ IF Stored(r) /\ Stored(cluster.group)
       THEN /\ rules' = [rules EXCEPT ![r].parent = cluster.group]
            /\ cluster' = IF cluster.left = {r} THEN NoCluster
                          ELSE [cluster EXCEPT !.left = @ \ {r}]
       ELSE cluster' = NoCluster /\ UNCHANGED rules
    /\ UNCHANGED lastRule

Save(r, form) ==
    SaveOrphan(r, form) \/ SaveGroup(r, form) \/ \E g \in Ids : SaveChild(r, g, form)
TreeNext ==
    \/ \E form \in Forms : SaveSuggestion(form)
    \/ \E r \in Ids :
        \/ \E form \in Forms : Save(r, form)
        \/ Delete(r) \/ Toggle(r) \/ Duplicate(r)
        \/ Promote(r) \/ PromoteCluster(r) \/ Attach(r)

TreeSpec == TreeInit /\ [][TreeNext]_treeVars
-----------------------------------------------------------------------------
(* Every variable has its type; a row has its own id, and its parent       *)
(* exists (the foreign key).                                               *)
RuleRow ==
    [exists : BOOLEAN, id : Ids \cup {0}, parent : Ids \cup {0}, group : BOOLEAN,
     priority : Nat, enabled : BOOLEAN, continue : BOOLEAN, exclusive : BOOLEAN,
     inGroup : BOOLEAN, exitGroup : BOOLEAN, match : Filters]
TreeTypeOK ==
    /\ rules \in [Ids -> RuleRow]
    /\ lastRule \in 0..MaxRules
    /\ cluster \in [group : Ids \cup {0}, left : SUBSET Ids]
    /\ edits \in 0..MaxEdits
    /\ \A r \in Ids :
          IF rules[r].exists
          THEN /\ rules[r].id = r /\ r <= lastRule
               /\ rules[r].parent # 0 => rules[rules[r].parent].exists
          ELSE rules[r] = NoRule

(* The rules of one item lie all before or all after those of another, as  *)
(* the items do; of the enabled children of a group only the last says to  *)
(* go on; no rule tests what the simulation page does not; and the         *)
(* combination of two expressions accepts nothing that the group's does    *)
(* not (it may with backreferences, or texts that do not compile alone).   *)
Leaves(kids, i) == IF i.group THEN Of(kids, i) ELSE {i}
Contiguous(top, kids) ==
    \A i, j \in top : Before(i, j) =>
        \A a \in Leaves(kids, i), b \in Leaves(kids, j) : Before(a, b)
OnlyLastGoesOn(top, kids) ==
    \A g \in Groups(top) : \A c \in Of(kids, g) :
        Continues(kids, g, c) => IsLast(kids, g, c)

Simulated(top, kids) ==
    \A r \in Flat(top, kids) : \A f \in Fields \ SimFields : r.match[f] = Vals

Narrows(top, kids) ==
    \A g \in Groups(top) : \A c \in Of(kids, g) : \A f \in RegexFields :
        Combines(g, c, f) => AcceptedBoth[<<g.match[f], c.match[f]>>] \subseteq Accepted[g.match[f]]

(* The simulation page and the listener agree on every mail, as long as    *)
(* priorities keep the blocks of the tree apart, only the last child of a  *)
(* group lets the evaluation go on, the simulation tests every filter and  *)
(* children narrow their groups.                                           *)
Parity(top, kids) ==
    /\ Publishable(top, kids)
    /\ Contiguous(top, kids)
    /\ OnlyLastGoesOn(top, kids)
    /\ Simulated(top, kids)
    /\ Narrows(top, kids)
    => \A m \in Mails : TreeWinners(top, kids, m) = ListenerWinners(Flat(top, kids), m)
ParityUnderDiscipline == Parity(TopItems(rules), KidItems(rules))

(* Promoting a rule that stops the evaluation changes nothing for the      *)
(* listener, wherever the rule stands and whatever hangs below it, if each *)
(* of its expressions accepts beside itself what it accepts alone.         *)
BearsItself(r) ==
    \A f \in RegexFields : LET text == rules[r].match[f] IN
        text # Blank => AcceptedBoth[<<text, text>>] = Accepted[text]
PromoteNeutral ==
    [][\A r \in Ids : Promote(r) /\ ~rules[r].continue /\ BearsItself(r)
          => FlatRules(rules') = FlatRules(rules)]_treeVars

(* The rules can always be published: no sequence of operations leads to a *)
(* group and a child whose filters make flatten_rules raise.               *)
PublishNeverFails == Publishable(TopItems(rules), KidItems(rules))

(* flatten.py says that the filters of a child are combined with those of  *)
(* its group with AND: what both accept, the rule served accepts.          *)
CombinedIsAnd ==
    \A g \in Groups(TopItems(rules)) : \A c \in KidsOf(rules, g.id) : \A f \in RegexFields :
        Accepted[g.match[f]] \cap Accepted[c.match[f]] \subseteq Merged(g, c)[f]
=============================================================================
