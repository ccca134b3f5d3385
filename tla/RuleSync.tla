------------------------------ MODULE RuleSync ------------------------------
(* How the rules reach the listener: GET /rules/active reads the tree with *)
(* one connection per query (flatten_rules_for_listener), so that edits of *)
(* other requests fall between its queries, and the sync replaces the      *)
(* listener's rules_cache in one transaction (replace_rules).              *)
EXTENDS RuleTree

VARIABLES
    cache,    \* the listener's rules_cache
    pull,     \* the request under way and the rows it has read
    touched   \* history: rows an edit touched since the request began

syncVars == <<cache, pull, touched>>
rulesVars == <<treeVars, syncVars>>

PullIdle == [pc |-> "idle", top |-> {}, kids |-> {}, todo |-> {}]

RulesInit ==
    /\ TreeInit
    /\ cache = {}
    /\ pull = PullIdle
    /\ touched = {}

(* Any operation of the rule pages.  A row is touched when it changes, and *)
(* so are the groups it leaves and joins.                                  *)
Changed == {r \in Ids : rules'[r] # rules[r]}
Touch == Changed \cup {rules[r].parent : r \in Changed} \cup {rules'[r].parent : r \in Changed}
EditRules ==
    /\ TreeNext
    /\ touched' = IF pull.pc = "idle" THEN touched ELSE touched \cup Touch
    /\ UNCHANGED <<cache, pull>>

(* list_top_level_items. *)
PullTop ==
    /\ pull.pc = "idle"
    /\ pull' = [pc |-> "reading", top |-> TopItems(rules), kids |-> {},
                todo |-> {g.id : g \in Groups(TopItems(rules))}]
    /\ touched' = {}
    /\ UNCHANGED <<treeVars, cache>>

(* list_group_children, one group after the other. *)
PullKids(g) ==
    /\ g \in pull.todo
    /\ \A h \in pull.top : h.id \in pull.todo /\ h.id # g =>
           \E i \in pull.top : i.id = g /\ Before(i, h)
    /\ pull' = [pull EXCEPT !.kids = @ \cup KidsOf(rules, g), !.todo = @ \ {g}]
    /\ UNCHANGED <<treeVars, cache, touched>>

(* The request answers, and replace_rules deletes and inserts. *)
Complete == pull.pc = "reading" /\ pull.todo = {}
Sent == (pull.top \ Groups(pull.top)) \cup pull.kids
Twice == \E a, b \in Sent : a # b /\ a.id = b.id
Acceptable == Publishable(pull.top, pull.kids) /\ ~Twice
MutInstalled == cache \cup Flat(pull.top, pull.kids)
Installed == Flat(pull.top, pull.kids)
PullInstall ==
    /\ Complete /\ Acceptable
    /\ cache' = Installed
    /\ pull' = PullIdle
    /\ UNCHANGED <<treeVars, touched>>

(* flatten_rules raises and the answer is an error, or an insert meets the *)
(* primary key, because a row was read in two places, as it moved from one *)
(* to the other: the cache stays.                                          *)
PullRejected ==
    /\ Complete /\ ~Acceptable
    /\ pull' = PullIdle
    /\ UNCHANGED <<treeVars, cache, touched>>

(* The request, or its answer, is lost. *)
PullFails ==
    /\ pull.pc = "reading"
    /\ pull' = PullIdle
    /\ UNCHANGED <<treeVars, cache, touched>>

Reading == \E g \in Ids : PullKids(g)
RulesNext == EditRules \/ PullTop \/ Reading \/ PullInstall \/ PullRejected \/ PullFails

(* The sync loop runs every interval, and not every request is lost. *)
RulesFairness ==
    /\ WF_rulesVars(PullTop \/ PullRejected)
    /\ \A g \in Ids : SF_rulesVars(PullKids(g))
    /\ SF_rulesVars(PullInstall)

RulesSpec == RulesInit /\ [][RulesNext]_rulesVars
RulesFairSpec == RulesSpec /\ RulesFairness
-----------------------------------------------------------------------------
(* Every variable has its type, and the cache holds a rule at most once.   *)
SyncTypeOK ==
    /\ TreeTypeOK
    /\ \A a, b \in cache : a.id = b.id => a = b
    /\ \A r \in cache : /\ r.id \in Ids /\ r.priority \in Nat
                         /\ r.match \in [Fields -> SUBSET Vals] /\ r.continue \in BOOLEAN
    /\ pull \in [pc : {"idle", "reading"}, top : SUBSET RuleRow, kids : SUBSET RuleRow,
                 todo : SUBSET Ids]
    /\ touched \subseteq Ids \cup {0}

(* A pull whose queries are torn apart by edits still installs every rule  *)
(* that no edit touched (nor its group) exactly as the table has it: such  *)
(* a rule is neither lost nor served with another rule's filters or flags. *)
Served(flat, r) == {x \in flat : x.id = r}
UntouchedExact ==
    [][PullInstall => \A r \in Ids :
          r \notin touched /\ (rules[r].parent = 0 \/ rules[r].parent \notin touched)
              => Served(cache', r) = Served(FlatRules(rules), r)]_rulesVars

(* Once the edits stop, the listener gets and keeps the rules of the table,*)
(* if they can be published at all.                                        *)
EventuallyInForce ==
    <>[](PublishNeverFails => cache = FlatRules(rules))
=============================================================================
