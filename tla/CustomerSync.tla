---------------------------- MODULE CustomerSync ----------------------------
(***************************************************************************)
(* Import of customers from external sources into the table customers of   *)
(* the admin (package customer_sync): the scheduler thread of each         *)
(* gunicorn worker, and operators, start runs of SyncEngine; a run takes   *)
(* the source's row of customer_sync_locks, which expires after a time to  *)
(* live, reads the source, writes one customer per transaction, then flags *)
(* or deletes the source's customers it did not read.                      *)
(*                                                                         *)
(* Threads interleave between transactions.  Times are what is left of     *)
(* them.  A source is read as it is when the query starts.                 *)
(***************************************************************************)
EXTENDS Integers, FiniteSets

CONSTANTS
    Customers,   \* codcli
    Sources,     \* rows of customer_sync_sources
    NoSource,    \* no source
    Runners,     \* threads a run can have (bound)
    Contents,    \* what a source may hold: sets of functions on Customers
    TTL,         \* lock_ttl_sec, in clock units
    Schedule,    \* schedule_hours, in clock units
    MaxEdits,    \* changes of a source and operations of the pages (bound)
    MaxFaults    \* failed transactions, broken reads, deaths, late runs (bound)

\* A record of a customer says that the contract is active, that it is not,
\* or nothing about it; or there is none.
Says == {"absent", "active", "inactive", "silent"}
Policies == {"flag", "delete", "keep"}

ASSUME CustomerAssumption ==
    /\ NoSource \notin Sources
    /\ IsFiniteSet(Customers)
    /\ Contents \in [Sources -> SUBSET [Customers -> Says]]
    /\ TTL \in Nat \ {0} /\ Schedule \in Nat \ {0}
    /\ MaxEdits \in Nat /\ MaxFaults \in Nat

VARIABLES
    external,   \* what each source holds
    source,     \* customer_sync_sources: enabled, on_missing, next_run_at
    customers,  \* the table: the source that wrote the row last, and
                \* contract_active; no row if there is no source
    member,     \* customer_group_members of the group contract_active
    lock,       \* customer_sync_locks: time left; 0 if there is no live row
    phase,      \* where each thread stands
    job,        \* the source it runs, as read when it was started
    left,       \* history: time left of the run's own lock
    work,       \* its fetched rows, the rows to do, codcli seen, the missing
    overran,    \* history: sources with a run that outlived its lock
    exact,      \* history: what the last run of a source wrote, if it was ok
    edits, faults

table == <<customers, member>>
clock == <<lock, left, overran>>
vars == <<external, source, table, clock, phase, job, work, exact, edits, faults>>

NoRow == [src |-> NoSource, active |-> FALSE]
NoJob == [src |-> NoSource, policy |-> "keep", dry |-> FALSE]
Nothing == [c \in Customers |-> "absent"]
NoWork == [rows |-> Nothing, todo |-> {}, seen |-> {}, missing |-> {}, outcome |-> "ok"]
NotExact == [known |-> FALSE, rows |-> Nothing, policy |-> "keep"]

Init ==
    /\ external \in {e \in [Sources -> UNION {Contents[s] : s \in Sources}] :
                        \A s \in Sources : e[s] \in Contents[s]}
    /\ source \in [Sources -> [enabled : {TRUE}, policy : {"flag", "delete"}, wait : {0}]]
    /\ customers = [c \in Customers |-> NoRow]
    /\ member = [c \in Customers |-> "no"]
    /\ lock = [s \in Sources |-> 0]
    /\ phase = [r \in Runners |-> "idle"]
    /\ job = [r \in Runners |-> NoJob]
    /\ left = [r \in Runners |-> 0]
    /\ work = [r \in Runners |-> NoWork]
    /\ overran = {}
    /\ exact = [s \in Sources |-> NotExact]
    /\ edits = 0
    /\ faults = 0
-----------------------------------------------------------------------------
(* The source and the operators.                                           *)
Edit == edits < MaxEdits /\ edits' = edits + 1

SourceChanges(s) ==
    /\ Edit
    /\ \E content \in Contents[s] : external' = [external EXCEPT ![s] = content]
    /\ UNCHANGED <<source, table, clock, phase, job, work, exact, faults>>

(* _save_source and toggle_view; next_run_at is left alone. *)
SaveSource(s) ==
    /\ Edit
    /\ \E enabled \in BOOLEAN, policy \in Policies :
          source' = [source EXCEPT ![s] =
                        [enabled |-> enabled, policy |-> policy, wait |-> source[s].wait]]
    /\ UNCHANGED <<external, table, clock, phase, job, work, exact, faults>>

(* set_customer_groups: a group the customer is in already stays as it is. *)
SetGroup(c, in) ==
    /\ Edit
    /\ member' = [member EXCEPT ![c] =
                     IF ~in THEN "no" ELSE IF @ = "no" THEN "manual" ELSE @]
    /\ UNCHANGED <<external, source, customers, clock, phase, job, work, exact, faults>>
-----------------------------------------------------------------------------
(* Starting a run.                                                         *)
Due(s) == source[s].enabled /\ source[s].wait = 0

Begin(r, s, dry) ==
    /\ phase[r] = "idle"
    /\ phase' = [phase EXCEPT ![r] = "started"]
    /\ job' = [job EXCEPT ![r] = [src |-> s, policy |-> source[s].policy, dry |-> dry]]
    /\ UNCHANGED <<external, source, table, clock, work, exact, faults>>

(* _tick of a worker: a thread per due source. *)
Launch(r, s) == Due(s) /\ Begin(r, s, FALSE) /\ UNCHANGED edits

(* run_view and sync_customer_source_now. *)
RunNow(r, s, dry) == Edit /\ Begin(r, s, dry)

Holding == {"locked", "fetching", "assigning", "missing", "releasing"}
Runs(r, s) == phase[r] \in Holding /\ job[r].src = s

Go(r, to) == phase' = [phase EXCEPT ![r] = to]
WorkOn(r, w) == work' = [work EXCEPT ![r] = w]
Stop(r) ==
    /\ Go(r, "idle")
    /\ job' = [job EXCEPT ![r] = NoJob]
    /\ WorkOn(r, NoWork)

MutFree(s) == TRUE
Free(s) == lock[s] = 0

(* acquire_sync_lock. *)
Acquire(r) ==
    LET s == job[r].src IN
    /\ phase[r] = "started"
    /\ Free(s)
    /\ lock' = [lock EXCEPT ![s] = TTL]
    /\ left' = [left EXCEPT ![r] = TTL]
    /\ Go(r, "locked")
    /\ UNCHANGED <<external, source, table, overran, job, work, exact, edits, faults>>

Skip(r) ==
    /\ phase[r] = "started"
    /\ ~Free(job[r].src)
    /\ Stop(r)
    /\ UNCHANGED <<external, source, table, clock, exact, edits, faults>>

(* insert_customer_sync_run and the start of the provider's query. *)
Open(r) ==
    LET s == job[r].src IN
    /\ phase[r] = "locked"
    /\ Go(r, "fetching")
    /\ WorkOn(r, [NoWork EXCEPT !.rows = external[s],
                                !.todo = {c \in Customers : external[s][c] # "absent"}])
    /\ exact' = IF job[r].dry THEN exact ELSE [exact EXCEPT ![s] = NotExact]
    /\ UNCHANGED <<external, source, table, clock, job, edits, faults>>
-----------------------------------------------------------------------------
(* The records of a run.                                                   *)
Fault == faults < MaxFaults /\ faults' = faults + 1

MutWritten(row, s, says) == [src |-> s, active |-> row.src = NoSource \/ row.active]
(* upsert_customer_record: what the record does not say is left alone, and *)
(* TRUE in a new row.                                                      *)
Written(row, s, says) ==
    [src |-> s, active |-> CASE says = "active" -> TRUE
                             [] says = "inactive" -> FALSE
                             [] OTHER -> row.src = NoSource \/ row.active]

Upsert(r, c) ==
    /\ phase[r] = "fetching" /\ ~job[r].dry /\ c \in work[r].todo
    /\ customers' = [customers EXCEPT ![c] = Written(@, job[r].src, work[r].rows[c])]
    /\ Go(r, "assigning")
    /\ WorkOn(r, [work[r] EXCEPT !.seen = @ \cup {c}])
    /\ UNCHANGED <<external, source, member, clock, job, exact, edits, faults>>

(* The upsert raises; the customer was seen, the run goes on. *)
UpsertFails(r, c) ==
    /\ phase[r] = "fetching" /\ ~job[r].dry /\ c \in work[r].todo
    /\ Fault
    /\ WorkOn(r, [work[r] EXCEPT !.seen = @ \cup {c}, !.todo = @ \ {c},
                                 !.outcome = "partial"])
    /\ UNCHANGED <<external, source, table, clock, phase, job, exact, edits>>

(* A record that the mapping leaves without a codcli. *)
Unmapped(r, c) ==
    /\ phase[r] = "fetching" /\ ~job[r].dry /\ c \in work[r].todo
    /\ Fault
    /\ WorkOn(r, [work[r] EXCEPT !.todo = @ \ {c}, !.outcome = "partial"])
    /\ UNCHANGED <<external, source, table, clock, phase, job, exact, edits>>

(* apply_auto_assignments with the rule "contract_active truthy". *)
Assigned(now, says) ==
    IF now = "manual" THEN now ELSE IF says = "active" THEN "auto" ELSE "no"

(* The group of the customer just written; a failure is only logged. *)
Assign(r, c) ==
    /\ phase[r] = "assigning" /\ c \in work[r].seen \cap work[r].todo
    /\ \/ /\ member' = [member EXCEPT ![c] = Assigned(@, work[r].rows[c])]
          /\ UNCHANGED faults
       \/ Fault /\ UNCHANGED member
    /\ Go(r, "fetching")
    /\ WorkOn(r, [work[r] EXCEPT !.todo = @ \ {c}])
    /\ UNCHANGED <<external, source, customers, clock, job, exact, edits>>

(* The customers that vanished from the source, unless the source answered *)
(* nothing, or less than half of what it wrote.                            *)
Existing(s) == {c \in Customers : customers[c].src = s}
MutTooFew(seen, existing) == seen = {}
TooFew(seen, existing) == 2 * Cardinality(seen) < Cardinality(existing)

EndFetch(r) ==
    LET seen == work[r].seen
        existing == Existing(job[r].src)
        looks == ~job[r].dry /\ job[r].policy # "keep" /\ seen # {}
        missing == existing \ seen
    IN
    /\ phase[r] = "fetching" /\ (job[r].dry \/ work[r].todo = {})
    /\ \/ /\ looks /\ ~TooFew(seen, existing) /\ missing # {}
          /\ Go(r, "missing")
          /\ WorkOn(r, [work[r] EXCEPT !.missing = missing])
       \/ /\ looks /\ TooFew(seen, existing)
          /\ Go(r, "releasing")
          /\ WorkOn(r, [work[r] EXCEPT !.outcome = "aborted_safety"])
       \/ /\ ~looks \/ (~TooFew(seen, existing) /\ missing = {})
          /\ Go(r, "releasing")
          /\ UNCHANGED work
    /\ UNCHANGED <<external, source, table, clock, job, exact, edits, faults>>

(* flag_missing_customers, delete_customers: by codcli alone. *)
RemoveMissing(r) ==
    /\ phase[r] = "missing"
    /\ customers' = [c \in Customers |->
                        IF c \notin work[r].missing \/ customers[c].src = NoSource
                        THEN customers[c]
                        ELSE IF job[r].policy = "delete" THEN NoRow
                        ELSE [src |-> customers[c].src, active |-> FALSE]]
    /\ Go(r, "releasing")
    /\ UNCHANGED <<external, source, member, clock, job, work, exact, edits, faults>>

(* The provider breaks off, or a transaction outside the loop fails. *)
Breaks(r) ==
    /\ phase[r] \in {"fetching", "missing"}
    /\ Fault
    /\ Go(r, "releasing")
    /\ WorkOn(r, [work[r] EXCEPT !.outcome = "error"])
    /\ UNCHANGED <<external, source, table, clock, job, exact, edits>>
-----------------------------------------------------------------------------
(* The end of a run.                                                       *)

(* release_sync_lock: whosever lock it is. *)
Release(r) ==
    LET s == job[r].src IN
    /\ phase[r] = "releasing"
    /\ lock' = [lock EXCEPT ![s] = 0]
    /\ left' = [left EXCEPT ![r] = 0]
    /\ Go(r, "closing")
    /\ exact' = IF job[r].dry \/ work[r].outcome # "ok" THEN exact
                ELSE [exact EXCEPT ![s] = [known |-> TRUE, rows |-> work[r].rows,
                                           policy |-> job[r].policy]]
    /\ UNCHANGED <<external, source, table, overran, job, work, edits, faults>>

(* update_customer_sync_run and update_customer_sync_source_state. *)
Close(r) ==
    /\ phase[r] = "closing"
    /\ source' = IF job[r].dry THEN source
                 ELSE [source EXCEPT ![job[r].src].wait = Schedule]
    /\ Stop(r)
    /\ UNCHANGED <<external, table, clock, exact, edits, faults>>

(* The worker dies, or a transaction outside the try statement fails; the  *)
(* lock stays behind.                                                      *)
Dies(r) ==
    /\ phase[r] \in Holding \cup {"started", "closing"}
    /\ Fault
    /\ Stop(r)
    /\ left' = [left EXCEPT ![r] = 0]
    /\ UNCHANGED <<external, source, table, lock, overran, exact, edits>>

MutLess(n) == n
Less(n) == IF n = 0 THEN 0 ELSE n - 1

(* Time passes; a run may outlive its lock, which counts as a fault. *)
Late(s) == \E r \in Runners : Runs(r, s) /\ left[r] = 1

Tick ==
    /\ IF \E s \in Sources : Late(s) THEN Fault ELSE UNCHANGED faults
    /\ lock' = [s \in Sources |-> Less(lock[s])]
    /\ left' = [r \in Runners |-> IF left[r] = 0 THEN 0 ELSE left[r] - 1]
    /\ overran' = overran \cup {s \in Sources : Late(s)}
    /\ source' = [s \in Sources |-> [source[s] EXCEPT !.wait = IF @ = 0 THEN 0 ELSE @ - 1]]
    /\ UNCHANGED <<external, table, phase, job, work, exact, edits>>
-----------------------------------------------------------------------------
Step(r) ==
    \/ Acquire(r) \/ Skip(r) \/ Open(r)
    \/ \E c \in Customers : Upsert(r, c) \/ Assign(r, c)
    \/ EndFetch(r) \/ RemoveMissing(r) \/ Release(r) \/ Close(r)

Next ==
    \/ \E s \in Sources : SourceChanges(s) \/ SaveSource(s)
    \/ \E c \in Customers, in \in BOOLEAN : SetGroup(c, in)
    \/ \E r \in Runners, s \in Sources : Launch(r, s)
    \/ \E r \in Runners, s \in Sources, dry \in BOOLEAN : RunNow(r, s, dry)
    \/ \E r \in Runners : Step(r) \/ Breaks(r) \/ Dies(r)
    \/ \E r \in Runners, c \in Customers : UpsertFails(r, c) \/ Unmapped(r, c)
    \/ Tick

(* The scheduler threads look again and again, runs go on, time passes. *)
Fairness ==
    /\ \A s \in Sources : SF_vars(\E r \in Runners : Launch(r, s))
    /\ \A r \in Runners : WF_vars(Step(r))
    /\ WF_vars(Tick)

Spec == Init /\ [][Next]_vars
FairSpec == Spec /\ Fairness
-----------------------------------------------------------------------------
(* Every variable has its type. *)
Phases == Holding \cup {"idle", "started", "closing"}

SourceRow == [enabled : BOOLEAN, policy : Policies, wait : 0..Schedule]
Row == [src : Sources \cup {NoSource}, active : BOOLEAN]
Job == [src : Sources \cup {NoSource}, policy : Policies, dry : BOOLEAN]
Work == [rows : [Customers -> Says], todo : SUBSET Customers, seen : SUBSET Customers,
         missing : SUBSET Customers,
         outcome : {"ok", "partial", "aborted_safety", "error"}]
Exact == [known : BOOLEAN, rows : [Customers -> Says], policy : Policies]

TypeOK ==
    /\ external \in [Sources -> [Customers -> Says]]
    /\ source \in [Sources -> SourceRow]
    /\ customers \in [Customers -> Row]
    /\ member \in [Customers -> {"no", "auto", "manual"}]
    /\ lock \in [Sources -> 0..TTL]
    /\ phase \in [Runners -> Phases]
    /\ job \in [Runners -> Job]
    /\ \A r \in Runners : phase[r] # "idle" => job[r].src \in Sources
    /\ left \in [Runners -> 0..TTL]
    /\ work \in [Runners -> Work]
    /\ overran \subseteq Sources
    /\ exact \in [Sources -> Exact]
    /\ edits \in 0..MaxEdits /\ faults \in 0..MaxFaults

(* The lock keeps the runs of a source apart, whichever worker, page or    *)
(* crash they come from, as long as no run of that source ever outlived    *)
(* its lock; then its row expires together with the run's right to it.     *)
OneRun ==
    \A s \in Sources \ overran : \A p, r \in Runners :
        Runs(p, s) /\ Runs(r, s) => p = r

(* What makes it inductive: the run's lock is there, and its own. *)
LockHeld ==
    \A s \in Sources \ overran : \A r \in Runners :
        Runs(r, s) => left[r] > 0 /\ lock[s] = left[r]

(* A customer that only one source can hold. *)
Private(c, s) ==
    \A t \in Sources \ {s} : \A content \in Contents[t] : content[c] = "absent"

(* After a run that ended "ok" the table is what the source held: its own  *)
(* customers are there, as active as it says, and those that vanished are  *)
(* flagged or deleted (an empty answer removes nobody).                    *)
OkIsExact ==
    \A s \in Sources \ overran, c \in Customers :
        LET row == customers[c]
            says == exact[s].rows[c]
        IN
        exact[s].known /\ Private(c, s) =>
            /\ says # "absent" => row.src = s
            /\ says = "active" => row.active
            /\ says = "inactive" => ~row.active
            /\ says = "absent" /\ exact[s].rows # Nothing /\ exact[s].policy # "keep" =>
                  ~row.active /\ (exact[s].policy = "delete" => row.src = NoSource)

(* No run removes more than half of the customers of its source, however   *)
(* small the answer, when its own writes succeeded and no other run        *)
(* touched them.                                                           *)
Owned(r) == Existing(job[r].src)
MassSafe ==
    [][\A r \in Runners :
          phase[r] = "fetching" /\ phase'[r] = "missing" /\ work[r].seen \subseteq Owned(r)
              => 2 * Cardinality(work'[r].missing) <= Cardinality(Owned(r))]_vars

(* A membership an operator made is never taken away by a run. *)
ManualKept ==
    [][\A c \in Customers : member[c] = "manual" /\ member'[c] # "manual"
          => edits' = edits + 1]_vars

(* A source that is due gets its run, whoever died with its lock. *)
DueRuns == \A s \in Sources : Due(s) ~> ~Due(s)
-----------------------------------------------------------------------------
(* Deviations: what one may expect of the code and it does not do.         *)

(* A run within the time of its lock is alone: the lock of the second run  *)
(* of a source is removed by the first, when that ends late.               *)
OneRunInTime ==
    \A s \in Sources : \A p, r \in Runners :
        Runs(p, s) /\ Runs(r, s) /\ left[p] > 0 /\ left[r] > 0 => p = r

Quiet == \A r \in Runners : phase[r] = "idle"

(* A customer of the source, of whom the mapping says nothing else, is     *)
(* active ("Default 1 se omesso").                                         *)
PresentIsActive ==
    Quiet => \A s \in Sources \ overran, c \in Customers :
        exact[s].known /\ Private(c, s) /\ exact[s].rows[c] = "silent" => customers[c].active

(* A customer that the source which wrote it last reported as active stays *)
(* active: not when another source, which had it before, misses it.        *)
OwnedIsActive ==
    Quiet => \A s \in Sources \ overran, c \in Customers :
        exact[s].known /\ exact[s].rows[c] = "active" /\ customers[c].src = s
            => customers[c].active

(* An automatic member of the group contract_active has an active contract.*)
GroupAgrees ==
    Quiet => \A c \in Customers : member[c] = "auto" => customers[c].active
=============================================================================
