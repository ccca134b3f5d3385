------------------------ MODULE CustomerSyncProofs ------------------------
(* Proofs about CustomerSync, for every value of its constants. *)
EXTENDS CustomerSync, FiniteSetTheorems, TLAPS

(* The empty values have their types. *)
LEMMA EmptyTypes == NoRow \in Row /\ NoJob \in Job /\ NoWork \in Work /\ NotExact \in Exact
BY DEF NoRow, Row, NoJob, Job, NoWork, Work, NotExact, Exact, Nothing, Says, Policies

(* What a step of a run makes of its work keeps the type. *)
LEMMA SeenType ==
  ASSUME NEW w \in Work, NEW seen \in SUBSET Customers
  PROVE  [w EXCEPT !.seen = seen] \in Work
BY DEF Work
LEMMA TodoType ==
  ASSUME NEW w \in Work, NEW todo \in SUBSET Customers
  PROVE  [w EXCEPT !.todo = todo] \in Work
BY DEF Work
LEMMA MissingType ==
  ASSUME NEW w \in Work, NEW missing \in SUBSET Customers
  PROVE  [w EXCEPT !.missing = missing] \in Work
BY DEF Work
LEMMA OutcomeType ==
  ASSUME NEW w \in Work, NEW outcome \in {"ok", "partial", "aborted_safety", "error"}
  PROVE  [w EXCEPT !.outcome = outcome] \in Work
BY DEF Work
LEMMA SkippedType ==
  ASSUME NEW w \in Work, NEW todo \in SUBSET Customers, NEW seen \in SUBSET Customers
  PROVE  /\ [w EXCEPT !.todo = todo, !.outcome = "partial"] \in Work
         /\ [w EXCEPT !.seen = seen, !.todo = todo, !.outcome = "partial"] \in Work
BY DEF Work
LEMMA OpenedType ==
  ASSUME NEW rows \in [Customers -> Says], NEW todo \in SUBSET Customers
  PROVE  [NoWork EXCEPT !.rows = rows, !.todo = todo] \in Work
BY DEF Work, NoWork, Nothing

LEMMA InitType == Init => TypeOK
<1> SUFFICES ASSUME Init PROVE TypeOK
  OBVIOUS
<1>1. external \in [Sources -> [Customers -> Says]]
  BY CustomerAssumption DEF Init
<1>2. source \in [Sources -> SourceRow]
  <2>1. 0 \in 0..Schedule
    BY CustomerAssumption
  <2>2. ASSUME NEW x \in [enabled : {TRUE}, policy : {"flag", "delete"}, wait : {0}]
        PROVE  x \in SourceRow
    BY <2>1 DEF SourceRow, Policies
  <2> QED BY <2>2 DEF Init
<1>3. /\ customers \in [Customers -> Row]
      /\ job \in [Runners -> Job] /\ work \in [Runners -> Work]
      /\ exact \in [Sources -> Exact]
  BY EmptyTypes DEF Init
<1>4. /\ lock \in [Sources -> 0..TTL] /\ left \in [Runners -> 0..TTL]
      /\ edits \in 0..MaxEdits /\ faults \in 0..MaxFaults
  BY CustomerAssumption DEF Init
<1>5. /\ member \in [Customers -> {"no", "auto", "manual"}]
      /\ phase \in [Runners -> Phases] /\ overran \subseteq Sources
      /\ \A r \in Runners : phase[r] # "idle" => job[r].src \in Sources
  BY DEF Init, Phases, Holding
<1> QED BY <1>1, <1>2, <1>3, <1>4, <1>5 DEF TypeOK

(* Counting an operation or a fault stays within the bound. *)
LEMMA EditType == TypeOK /\ Edit => edits' \in 0..MaxEdits
BY CustomerAssumption DEF TypeOK, Edit
LEMMA FaultType == TypeOK /\ Fault => faults' \in 0..MaxFaults
BY CustomerAssumption DEF TypeOK, Fault

(* Steps outside the runs: the source, its page, the groups. *)
LEMMA SourceType ==
  ASSUME TypeOK, NEW s \in Sources, SourceChanges(s) \/ SaveSource(s)
  PROVE  TypeOK'
<1>1. edits' \in 0..MaxEdits
  BY EditType DEF SourceChanges, SaveSource
<1>2. CASE SourceChanges(s)
  <2>1. PICK content \in Contents[s] : external' = [external EXCEPT ![s] = content]
    BY <1>2 DEF SourceChanges
  <2>2. content \in [Customers -> Says]
    BY CustomerAssumption
  <2> QED BY <1>1, <1>2, <2>1, <2>2 DEF SourceChanges, TypeOK, table, clock
<1>3. CASE SaveSource(s)
  <2>1. PICK enabled \in BOOLEAN, policy \in Policies :
           source' = [source EXCEPT ![s] =
                        [enabled |-> enabled, policy |-> policy, wait |-> source[s].wait]]
    BY <1>3 DEF SaveSource
  <2>2. source' \in [Sources -> SourceRow]
    BY <2>1 DEF TypeOK, SourceRow
  <2> QED BY <1>1, <1>3, <2>2 DEF SaveSource, TypeOK, table, clock
<1> QED BY <1>2, <1>3

LEMMA GroupType ==
  ASSUME TypeOK, NEW c \in Customers, NEW in \in BOOLEAN, SetGroup(c, in)
  PROVE  TypeOK'
<1>1. edits' \in 0..MaxEdits
  BY EditType DEF SetGroup
<1> QED BY <1>1 DEF SetGroup, TypeOK, table, clock

LEMMA BeginType ==
  ASSUME TypeOK, NEW r \in Runners, NEW s \in Sources, NEW dry \in BOOLEAN,
         Begin(r, s, dry), edits' \in 0..MaxEdits
  PROVE  TypeOK'
<1>1. [src |-> s, policy |-> source[s].policy, dry |-> dry] \in Job
  BY DEF TypeOK, Job, SourceRow
<1>2. job' \in [Runners -> Job] /\ job'[r].src = s
  BY <1>1 DEF Begin, TypeOK
<1>3. \A p \in Runners : p # r => job'[p] = job[p] /\ phase'[p] = phase[p]
  BY DEF Begin, TypeOK
<1>4. phase' \in [Runners -> Phases]
  BY DEF Begin, TypeOK, Phases
<1> QED BY <1>2, <1>3, <1>4 DEF Begin, TypeOK, table, clock

LEMMA StopType ==
  ASSUME TypeOK, NEW r \in Runners, Stop(r)
  PROVE  /\ phase' \in [Runners -> Phases] /\ job' \in [Runners -> Job]
         /\ work' \in [Runners -> Work]
         /\ \A p \in Runners : phase'[p] # "idle" => job'[p].src \in Sources
BY EmptyTypes DEF Stop, Go, WorkOn, TypeOK, Phases

(* A thread goes on with the same job. *)
LEMMA GoType ==
  ASSUME TypeOK, NEW r \in Runners, NEW to \in Phases \ {"idle"}, Go(r, to),
         phase[r] # "idle", UNCHANGED job
  PROVE  /\ phase' \in [Runners -> Phases] /\ job' \in [Runners -> Job]
         /\ \A p \in Runners : phase'[p] # "idle" => job'[p].src \in Sources
BY DEF Go, TypeOK

LEMMA WorkType ==
  ASSUME TypeOK, NEW r \in Runners, NEW w \in Work, WorkOn(r, w)
  PROVE  work' \in [Runners -> Work]
BY DEF WorkOn, TypeOK

LEMMA StartType ==
  ASSUME TypeOK, NEW r \in Runners, Acquire(r) \/ Skip(r) \/ Open(r)
  PROVE  TypeOK'
<1>1. CASE Acquire(r)
  <2>1. /\ phase' \in [Runners -> Phases] /\ job' \in [Runners -> Job]
        /\ \A p \in Runners : phase'[p] # "idle" => job'[p].src \in Sources
    BY <1>1, GoType DEF Acquire, Phases, Holding
  <2>2. lock' \in [Sources -> 0..TTL] /\ left' \in [Runners -> 0..TTL]
    BY <1>1, CustomerAssumption DEF Acquire, TypeOK
  <2> QED BY <1>1, <2>1, <2>2 DEF Acquire, TypeOK, table
<1>2. CASE Skip(r)
  BY <1>2, StopType DEF Skip, TypeOK, table, clock
<1>3. CASE Open(r)
  <2> DEFINE s == job[r].src
             todo == {c \in Customers : external[s][c] # "absent"}
  <2>1. s \in Sources
    BY <1>3 DEF Open, TypeOK
  <2>2. external[s] \in [Customers -> Says] /\ todo \in SUBSET Customers
    BY <2>1 DEF TypeOK
  <2>3. /\ phase' \in [Runners -> Phases] /\ job' \in [Runners -> Job]
        /\ \A p \in Runners : phase'[p] # "idle" => job'[p].src \in Sources
    BY <1>3, GoType DEF Open, Phases, Holding
  <2>4. [NoWork EXCEPT !.rows = external[s], !.todo = todo] \in Work
    BY <2>2, OpenedType
  <2>5. work' \in [Runners -> Work]
    BY <1>3, <2>4, WorkType DEF Open
  <2>6. exact' \in [Sources -> Exact]
    BY <1>3, EmptyTypes DEF Open, TypeOK
  <2> QED BY <1>3, <2>3, <2>5, <2>6 DEF Open, TypeOK, table, clock
<1> QED BY <1>1, <1>2, <1>3

(* Only the work of the run is left to be typed. *)
LEMMA RecordType ==
  ASSUME TypeOK, NEW r \in Runners, NEW c \in Customers,
         UpsertFails(r, c) \/ Unmapped(r, c)
  PROVE  TypeOK'
<1>1. faults' \in 0..MaxFaults
  BY FaultType DEF UpsertFails, Unmapped
<1> DEFINE w == work[r]
           seen == w.seen \cup {c}
           todo == w.todo \ {c}
<1>2. w \in Work /\ seen \in SUBSET Customers /\ todo \in SUBSET Customers
  BY DEF TypeOK, Work
<1>3. /\ [w EXCEPT !.seen = seen, !.todo = todo, !.outcome = "partial"] \in Work
      /\ [w EXCEPT !.todo = todo, !.outcome = "partial"] \in Work
  BY <1>2, SkippedType
<1>4. work' \in [Runners -> Work]
  <2>1. CASE UpsertFails(r, c)
    BY <1>3, <2>1, WorkType DEF UpsertFails
  <2>2. CASE Unmapped(r, c)
    BY <1>3, <2>2, WorkType DEF Unmapped
  <2> QED BY <2>1, <2>2
<1> HIDE DEF w, seen, todo
<1> QED BY <1>1, <1>4 DEF UpsertFails, Unmapped, TypeOK, table, clock

LEMMA UpsertType ==
  ASSUME TypeOK, NEW r \in Runners, NEW c \in Customers, Upsert(r, c)
  PROVE  TypeOK'
<1> DEFINE w == work[r]
           seen == w.seen \cup {c}
           row == Written(customers[c], job[r].src, w.rows[c])
<1>1. w \in Work /\ seen \in SUBSET Customers
  BY DEF TypeOK, Work
<1>2. [w EXCEPT !.seen = seen] \in Work
  BY <1>1, SeenType
<1>3. work' \in [Runners -> Work]
  BY <1>2, WorkType DEF Upsert
<1>4. customers[c] \in Row /\ customers[c].active \in BOOLEAN /\ job[r].src \in Sources
  BY DEF Upsert, TypeOK, Row
<1>5. row \in Row
  BY <1>4 DEF Written, Row
<1>6. customers' \in [Customers -> Row]
  BY <1>5 DEF Upsert, TypeOK
<1>7. /\ phase' \in [Runners -> Phases] /\ job' \in [Runners -> Job]
      /\ \A p \in Runners : phase'[p] # "idle" => job'[p].src \in Sources
  BY GoType DEF Upsert, Phases, Holding
<1> HIDE DEF w, seen, row
<1> QED BY <1>3, <1>6, <1>7 DEF Upsert, TypeOK, clock

LEMMA AssignType ==
  ASSUME TypeOK, NEW r \in Runners, NEW c \in Customers, Assign(r, c)
  PROVE  TypeOK'
<1> DEFINE w == work[r]
           todo == w.todo \ {c}
<1>1. w \in Work /\ todo \in SUBSET Customers
  BY DEF TypeOK, Work
<1>2. [w EXCEPT !.todo = todo] \in Work
  BY <1>1, TodoType
<1>3. work' \in [Runners -> Work]
  BY <1>2, WorkType DEF Assign
<1>4. member' \in [Customers -> {"no", "auto", "manual"}] /\ faults' \in 0..MaxFaults
  BY FaultType DEF Assign, Assigned, TypeOK
<1>5. /\ phase' \in [Runners -> Phases] /\ job' \in [Runners -> Job]
      /\ \A p \in Runners : phase'[p] # "idle" => job'[p].src \in Sources
  BY GoType DEF Assign, Phases, Holding
<1> HIDE DEF w, todo
<1> QED BY <1>3, <1>4, <1>5 DEF Assign, TypeOK, clock

LEMMA EndFetchType ==
  ASSUME TypeOK, NEW r \in Runners, EndFetch(r)
  PROVE  TypeOK'
<1> DEFINE w == work[r]
           missing == Existing(job[r].src) \ w.seen
<1>1. w \in Work /\ missing \in SUBSET Customers
  BY DEF TypeOK, Existing
<1>2. /\ [w EXCEPT !.missing = missing] \in Work
      /\ [w EXCEPT !.outcome = "aborted_safety"] \in Work
  BY <1>1, MissingType, OutcomeType
<1>3. \/ WorkOn(r, [w EXCEPT !.missing = missing])
      \/ WorkOn(r, [w EXCEPT !.outcome = "aborted_safety"])
      \/ UNCHANGED work
  BY DEF EndFetch
<1>4. work' \in [Runners -> Work]
  BY <1>2, <1>3, WorkType DEF TypeOK
<1>5. Go(r, "missing") \/ Go(r, "releasing")
  BY DEF EndFetch
<1>6. phase[r] = "fetching" /\ UNCHANGED job
  BY DEF EndFetch
<1>7. /\ phase' \in [Runners -> Phases] /\ job' \in [Runners -> Job]
      /\ \A p \in Runners : phase'[p] # "idle" => job'[p].src \in Sources
  BY <1>5, <1>6, GoType DEF Phases, Holding
<1>8. UNCHANGED <<external, source, table, clock, exact, edits, faults>>
  BY DEF EndFetch
<1> HIDE DEF w, missing
<1> QED BY <1>4, <1>7, <1>8 DEF TypeOK, table, clock

LEMMA RemoveType ==
  ASSUME TypeOK, NEW r \in Runners, RemoveMissing(r)
  PROVE  TypeOK'
<1>1. \A c \in Customers :
         [src |-> customers[c].src, active |-> FALSE] \in Row /\ customers[c] \in Row
  BY DEF TypeOK, Row
<1>2. customers' \in [Customers -> Row]
  BY <1>1, EmptyTypes DEF RemoveMissing
<1>3. /\ phase' \in [Runners -> Phases] /\ job' \in [Runners -> Job]
      /\ \A p \in Runners : phase'[p] # "idle" => job'[p].src \in Sources
  BY GoType DEF RemoveMissing, Phases, Holding
<1> QED BY <1>2, <1>3 DEF RemoveMissing, TypeOK, clock

LEMMA BreaksType ==
  ASSUME TypeOK, NEW r \in Runners, Breaks(r)
  PROVE  TypeOK'
<1> DEFINE w == work[r]
<1>1. w \in Work
  BY DEF TypeOK
<1>2. [w EXCEPT !.outcome = "error"] \in Work
  BY <1>1, OutcomeType
<1>3. work' \in [Runners -> Work] /\ faults' \in 0..MaxFaults
  BY <1>2, WorkType, FaultType DEF Breaks
<1>4. /\ phase' \in [Runners -> Phases] /\ job' \in [Runners -> Job]
      /\ \A p \in Runners : phase'[p] # "idle" => job'[p].src \in Sources
  BY GoType DEF Breaks, Phases, Holding
<1> HIDE DEF w
<1> QED BY <1>3, <1>4 DEF Breaks, TypeOK, table, clock

LEMMA ReleaseType ==
  ASSUME TypeOK, NEW r \in Runners, Release(r)
  PROVE  TypeOK'
<1>1. lock' \in [Sources -> 0..TTL] /\ left' \in [Runners -> 0..TTL]
  BY CustomerAssumption DEF Release, TypeOK
<1>2. [known |-> TRUE, rows |-> work[r].rows, policy |-> job[r].policy] \in Exact
  BY DEF TypeOK, Work, Job, Exact
<1>3. exact' \in [Sources -> Exact]
  BY <1>2 DEF Release, TypeOK
<1>4. /\ phase' \in [Runners -> Phases] /\ job' \in [Runners -> Job]
      /\ \A p \in Runners : phase'[p] # "idle" => job'[p].src \in Sources
  BY GoType DEF Release, Phases
<1> QED BY <1>1, <1>3, <1>4 DEF Release, TypeOK, table

LEMMA EndType ==
  ASSUME TypeOK, NEW r \in Runners, Close(r) \/ Dies(r)
  PROVE  TypeOK'
<1>1. CASE Close(r)
  <2> DEFINE s == job[r].src
  <2>1. s \in Sources
    BY <1>1 DEF Close, TypeOK
  <2>2. source' = source \/ source' = [source EXCEPT ![s].wait = Schedule]
    BY <1>1 DEF Close
  <2>3. source[s] \in SourceRow
    BY <2>1 DEF TypeOK
  <2>4. [source[s] EXCEPT !.wait = Schedule] \in SourceRow
    BY <2>3, CustomerAssumption DEF SourceRow
  <2>5. source' \in [Sources -> SourceRow]
    BY <2>1, <2>2, <2>4 DEF TypeOK
  <2> HIDE DEF s
  <2> QED BY <1>1, <2>5, StopType DEF Close, TypeOK, table, clock
<1>2. CASE Dies(r)
  <2>1. faults' \in 0..MaxFaults /\ left' \in [Runners -> 0..TTL]
    BY <1>2, FaultType, CustomerAssumption DEF Dies, TypeOK
  <2> QED BY <1>2, <2>1, StopType DEF Dies, TypeOK, table
<1> QED BY <1>1, <1>2

LEMMA TickType ==
  ASSUME TypeOK, Tick
  PROVE  TypeOK'
<1>1. lock' \in [Sources -> 0..TTL] /\ left' \in [Runners -> 0..TTL]
  <2>1. ASSUME NEW n \in 0..TTL
        PROVE  Less(n) \in 0..TTL /\ (IF n = 0 THEN 0 ELSE n - 1) \in 0..TTL
    BY <2>1, CustomerAssumption DEF Less
  <2> QED BY <2>1 DEF Tick, TypeOK
<1>2. faults' \in 0..MaxFaults
  BY FaultType DEF Tick, TypeOK
<1>3. source' \in [Sources -> SourceRow]
  <2>1. ASSUME NEW s \in Sources, NEW n \in 0..Schedule
        PROVE  [source[s] EXCEPT !.wait = n] \in SourceRow
    BY DEF TypeOK, SourceRow
  <2>2. ASSUME NEW s \in Sources
        PROVE  source[s].wait \in 0..Schedule
    BY DEF TypeOK, SourceRow
  <2>3. ASSUME NEW s \in Sources
        PROVE  (IF source[s].wait = 0 THEN 0 ELSE source[s].wait - 1) \in 0..Schedule
    BY <2>2, CustomerAssumption
  <2>4. ASSUME NEW s \in Sources
        PROVE  [source[s] EXCEPT !.wait = IF @ = 0 THEN 0 ELSE @ - 1] \in SourceRow
    BY <2>1, <2>3
  <2> QED BY <2>4 DEF Tick
<1>4. overran' \subseteq Sources
  BY DEF Tick, TypeOK
<1> QED BY <1>1, <1>2, <1>3, <1>4 DEF Tick, TypeOK, table

LEMMA NextType == TypeOK /\ [Next]_vars => TypeOK'
<1> SUFFICES ASSUME TypeOK, [Next]_vars PROVE TypeOK'
  OBVIOUS
<1>1. CASE \E s \in Sources : SourceChanges(s) \/ SaveSource(s)
  BY <1>1, SourceType
<1>2. CASE \E c \in Customers, in \in BOOLEAN : SetGroup(c, in)
  BY <1>2, GroupType
<1>3. CASE \E r \in Runners, s \in Sources : Launch(r, s)
  BY <1>3, BeginType DEF Launch, TypeOK
<1>4. CASE \E r \in Runners, s \in Sources, dry \in BOOLEAN : RunNow(r, s, dry)
  BY <1>4, BeginType, EditType DEF RunNow
<1>5. CASE \E r \in Runners : Step(r) \/ Breaks(r) \/ Dies(r)
  BY <1>5, StartType, UpsertType, AssignType, EndFetchType, RemoveType, BreaksType,
     ReleaseType, EndType DEF Step
<1>6. CASE \E r \in Runners, c \in Customers : UpsertFails(r, c) \/ Unmapped(r, c)
  BY <1>6, RecordType
<1>7. CASE Tick
  BY <1>7, TickType
<1>8. CASE UNCHANGED vars
  BY <1>8 DEF vars, table, clock, TypeOK
<1> QED BY <1>1, <1>2, <1>3, <1>4, <1>5, <1>6, <1>7, <1>8 DEF Next

(* Every variable keeps its type. *)
THEOREM TypeCorrect == Spec => []TypeOK
BY InitType, NextType, PTL DEF Spec

(* One run per source: lock and time left of the run agree, as long as no  *)
(* run of the source was late.                                             *)
Alone == LockHeld /\ OneRun

(* Steps that touch no lock and start no run. *)
LEMMA AloneFrame ==
  ASSUME TypeOK, Alone, UNCHANGED clock,
         \A p \in Runners, s \in Sources : Runs(p, s)' => Runs(p, s)
  PROVE  Alone'
<1>1. UNCHANGED <<lock, left, overran>>
  BY DEF clock
<1>2. LockHeld'
  BY <1>1 DEF Alone, LockHeld
<1>3. OneRun'
  BY <1>1 DEF Alone, OneRun
<1> QED BY <1>2, <1>3 DEF Alone

(* A thread that goes on, begins or stops. *)
LEMMA GoRuns ==
  ASSUME TypeOK, NEW r \in Runners, NEW to, Go(r, to), UNCHANGED job,
         phase[r] \in Holding \/ to \notin Holding
  PROVE  \A p \in Runners, s \in Sources : Runs(p, s)' => Runs(p, s)
BY DEF Go, Runs, TypeOK

LEMMA StopRuns ==
  ASSUME TypeOK, NEW r \in Runners, Stop(r)
  PROVE  \A p \in Runners, s \in Sources : Runs(p, s)' => Runs(p, s) /\ p # r
BY DEF Stop, Go, WorkOn, Runs, TypeOK, Holding

LEMMA BeginRuns ==
  ASSUME TypeOK, NEW r \in Runners, NEW s \in Sources, NEW dry \in BOOLEAN, Begin(r, s, dry)
  PROVE  \A p \in Runners, t \in Sources : Runs(p, t)' => Runs(p, t)
BY DEF Begin, Runs, TypeOK, Holding

LEMMA InitAlone == Init => Alone
BY DEF Init, Alone, LockHeld, OneRun, Runs, Holding

(* The lock is free, so by LockHeld nobody runs the source. *)
LEMMA AcquireAlone ==
  ASSUME TypeOK, Alone, NEW r \in Runners, Acquire(r)
  PROVE  Alone'
<1>1. PICK s \in Sources : s = job[r].src
  BY DEF Acquire, TypeOK
<1>2. /\ lock[s] = 0 /\ phase[r] = "started" /\ UNCHANGED <<job, overran>>
      /\ lock' = [lock EXCEPT ![s] = TTL] /\ left' = [left EXCEPT ![r] = TTL]
      /\ phase' = [phase EXCEPT ![r] = "locked"]
  BY <1>1 DEF Acquire, Free, Go
<1>3. TTL > 0
  BY CustomerAssumption
<1>4. ASSUME NEW t \in Sources, NEW p \in Runners, Runs(p, t)'
      PROVE  IF p = r THEN t = s ELSE Runs(p, t)
  BY <1>1, <1>2, <1>4 DEF Runs, TypeOK
<1>5. ASSUME s \notin overran, NEW p \in Runners, Runs(p, s)
      PROVE  FALSE
  BY <1>2, <1>5 DEF Alone, LockHeld
<1>6. LockHeld'
  <2> SUFFICES ASSUME NEW t \in Sources \ overran', NEW p \in Runners, Runs(p, t)'
               PROVE  left'[p] > 0 /\ lock'[t] = left'[p]
    BY DEF LockHeld, Runs
  <2>1. CASE p = r
    BY <1>2, <1>3, <1>4, <2>1 DEF TypeOK
  <2>2. CASE p # r
    <3>1. Runs(p, t) /\ t # s
      BY <1>2, <1>4, <1>5, <2>2
    <3> QED BY <1>2, <2>2, <3>1 DEF Alone, LockHeld, TypeOK
  <2> QED BY <2>1, <2>2
<1>7. OneRun'
  <2> SUFFICES ASSUME NEW t \in Sources \ overran', NEW p \in Runners, NEW q \in Runners,
                      Runs(p, t)', Runs(q, t)'
               PROVE  p = q
    BY DEF OneRun, Runs
  <2>1. CASE p = r \/ q = r
    BY <1>2, <1>4, <1>5, <2>1
  <2>2. CASE p # r /\ q # r
    BY <1>2, <1>4, <2>2 DEF Alone, OneRun
  <2> QED BY <2>1, <2>2
<1> QED BY <1>6, <1>7 DEF Alone

(* The lock it removes is its own: by OneRun nobody else runs the source. *)
LEMMA ReleaseAlone ==
  ASSUME TypeOK, Alone, NEW r \in Runners, Release(r)
  PROVE  Alone'
<1>1. PICK s \in Sources : s = job[r].src
  BY DEF Release, TypeOK
<1>2. /\ UNCHANGED <<job, overran>> /\ phase[r] = "releasing"
      /\ lock' = [lock EXCEPT ![s] = 0] /\ left' = [left EXCEPT ![r] = 0]
      /\ phase' = [phase EXCEPT ![r] = "closing"]
  BY <1>1 DEF Release, Go
<1>3. Runs(r, s)
  BY <1>1, <1>2 DEF Runs, Holding
<1>4. ASSUME NEW t \in Sources, NEW p \in Runners, Runs(p, t)'
      PROVE  p # r /\ Runs(p, t)
  BY <1>1, <1>2, <1>4 DEF Runs, TypeOK, Holding
<1>5. LockHeld'
  <2> SUFFICES ASSUME NEW t \in Sources \ overran', NEW p \in Runners, Runs(p, t)'
               PROVE  left'[p] > 0 /\ lock'[t] = left'[p]
    BY DEF LockHeld, Runs
  <2>1. p # r /\ Runs(p, t)
    BY <1>4
  <2>2. t # s
    BY <1>2, <1>3, <2>1 DEF Alone, OneRun
  <2> QED BY <1>2, <2>1, <2>2 DEF Alone, LockHeld, TypeOK
<1>6. OneRun'
  BY <1>2, <1>4 DEF Alone, OneRun, Runs
<1> QED BY <1>5, <1>6 DEF Alone

LEMMA DiesAlone ==
  ASSUME TypeOK, Alone, NEW r \in Runners, Dies(r)
  PROVE  Alone'
<1>1. \A p \in Runners, s \in Sources : Runs(p, s)' => Runs(p, s) /\ p # r
  BY StopRuns DEF Dies
<1>2. left' = [left EXCEPT ![r] = 0] /\ UNCHANGED <<lock, overran>>
  BY DEF Dies
<1>3. LockHeld'
  BY <1>1, <1>2 DEF Alone, LockHeld, TypeOK
<1>4. OneRun'
  BY <1>1, <1>2 DEF Alone, OneRun
<1> QED BY <1>3, <1>4 DEF Alone

(* Lock and run lose the same unit of time, and a run with none left is    *)
(* late.                                                                   *)
LEMMA TickAlone ==
  ASSUME TypeOK, Alone, Tick
  PROVE  Alone'
<1>1. UNCHANGED <<phase, job>> /\ overran \subseteq overran'
  BY DEF Tick
<1>2. ASSUME NEW s \in Sources \ overran', NEW r \in Runners, Runs(r, s)
      PROVE  left'[r] > 0 /\ lock'[s] = left'[r]
  <2>1. left[r] > 0 /\ lock[s] = left[r]
    BY <1>1, <1>2 DEF Alone, LockHeld
  <2>2. left[r] # 1
    BY <1>2 DEF Tick, Late
  <2>3. left[r] \in Nat
    BY CustomerAssumption DEF TypeOK
  <2>4. left'[r] = left[r] - 1 /\ lock'[s] = left[r] - 1
    BY <2>1, <2>3 DEF Tick, Less
  <2> QED BY <2>1, <2>2, <2>3, <2>4
<1>3. LockHeld'
  BY <1>1, <1>2 DEF LockHeld, Runs
<1>4. OneRun'
  BY <1>1 DEF Alone, OneRun, Runs
<1> QED BY <1>3, <1>4 DEF Alone

LEMMA NextAlone == TypeOK /\ Alone /\ [Next]_vars => Alone'
<1> SUFFICES ASSUME TypeOK, Alone, [Next]_vars PROVE Alone'
  OBVIOUS
<1>1. CASE \/ \E s \in Sources : SourceChanges(s) \/ SaveSource(s)
           \/ \E c \in Customers, in \in BOOLEAN : SetGroup(c, in)
           \/ \E r \in Runners, c \in Customers : UpsertFails(r, c) \/ Unmapped(r, c)
           \/ UNCHANGED vars
  <2>1. UNCHANGED <<clock, phase, job>>
    BY <1>1 DEF SourceChanges, SaveSource, SetGroup, UpsertFails, Unmapped, vars, clock
  <2> QED BY <2>1, AloneFrame DEF Runs
<1>2. CASE \/ \E r \in Runners, s \in Sources : Launch(r, s)
           \/ \E r \in Runners, s \in Sources, dry \in BOOLEAN : RunNow(r, s, dry)
  <2>1. PICK r \in Runners, s \in Sources, dry \in BOOLEAN : Begin(r, s, dry)
    BY <1>2 DEF Launch, RunNow
  <2>2. UNCHANGED clock
    BY <2>1 DEF Begin
  <2> QED BY <2>1, <2>2, BeginRuns, AloneFrame
<1>3. ASSUME NEW r \in Runners, Step(r) \/ Breaks(r) \/ Dies(r)
      PROVE  Alone'
  <2>1. CASE Acquire(r)
    BY <2>1, AcquireAlone
  <2>2. CASE Release(r)
    BY <2>2, ReleaseAlone
  <2>3. CASE Dies(r)
    BY <2>3, DiesAlone
  <2>4. CASE Skip(r) \/ Close(r)
    BY <2>4, StopRuns, AloneFrame DEF Skip, Close
  <2>5. CASE \/ Open(r) \/ EndFetch(r) \/ RemoveMissing(r) \/ Breaks(r)
             \/ \E c \in Customers : Upsert(r, c) \/ Assign(r, c)
    <3>1. PICK to \in {"fetching", "assigning", "missing", "releasing"} :
             Go(r, to) /\ UNCHANGED job
      BY <2>5 DEF Open, EndFetch, RemoveMissing, Breaks, Upsert, Assign
    <3>2. UNCHANGED clock /\ phase[r] \in Holding
      BY <2>5 DEF Open, EndFetch, RemoveMissing, Breaks, Upsert, Assign, Holding
    <3> QED BY <3>1, <3>2, GoRuns, AloneFrame
  <2> QED BY <1>3, <2>1, <2>2, <2>3, <2>4, <2>5 DEF Step
<1>4. CASE Tick
  BY <1>4, TickAlone
<1> QED BY <1>1, <1>2, <1>3, <1>4 DEF Next

(* The lock keeps the runs of a source apart, whichever worker, page or    *)
(* crash they come from, as long as no run outlived its lock.              *)
THEOREM RunsApart == Spec => []OneRun
<1>1. Init => TypeOK /\ Alone
  BY InitType, InitAlone
<1>2. TypeOK /\ Alone /\ [Next]_vars => (TypeOK /\ Alone)'
  BY NextType, NextAlone
<1>3. Alone => OneRun
  BY DEF Alone
<1> QED BY <1>1, <1>2, <1>3, PTL DEF Spec

(* The arithmetic of the safety check: what is missing of the existing     *)
(* customers when at least half of them were seen.                         *)
LEMMA HalfMissing ==
  ASSUME NEW existing \in SUBSET Customers, NEW seen \in SUBSET existing,
         ~TooFew(seen, existing)
  PROVE  2 * Cardinality(existing \ seen) <= Cardinality(existing)
<1>1. IsFiniteSet(existing) /\ IsFiniteSet(seen)
  BY CustomerAssumption, FS_Subset
<1>2. Cardinality(existing) \in Nat /\ Cardinality(seen) \in Nat
  BY <1>1, FS_CardinalityType
<1>3. existing \cap seen = seen
  OBVIOUS
<1>4. Cardinality(existing \ seen) = Cardinality(existing) - Cardinality(seen)
  BY <1>1, <1>3, FS_Difference
<1>5. Cardinality(existing) <= 2 * Cardinality(seen)
  BY <1>2 DEF TooFew
<1> QED BY <1>2, <1>4, <1>5

(* A step that begins to look for missing customers is the end of a fetch. *)
LEMMA LooksOnce ==
  ASSUME TypeOK, [Next]_vars, NEW r \in Runners,
         phase[r] = "fetching", phase'[r] = "missing"
  PROVE  EndFetch(r)
<1>1. \A p \in Runners : \A to : Go(p, to) => p = r /\ to = "missing"
  BY DEF Go, TypeOK
<1>2. \A p \in Runners : ~Stop(p)
  BY <1>1 DEF Stop
<1>3. phase' # phase
  OBVIOUS
<1>4. \A p \in Runners, s \in Sources, dry \in BOOLEAN : ~Begin(p, s, dry)
  BY DEF Begin, TypeOK
<1>5. PICK p \in Runners : Step(p) \/ Breaks(p) \/ Dies(p)
  BY <1>3, <1>4 DEF Next, vars, SourceChanges, SaveSource, SetGroup, Launch, RunNow,
     UpsertFails, Unmapped, Tick
<1>6. EndFetch(p)
  <2>1. ~Skip(p) /\ ~Close(p) /\ ~Dies(p)
    BY <1>2 DEF Skip, Close, Dies
  <2>2. ~Acquire(p) /\ ~Open(p) /\ ~RemoveMissing(p) /\ ~Release(p) /\ ~Breaks(p)
    BY <1>1 DEF Acquire, Open, RemoveMissing, Release, Breaks
  <2>3. \A c \in Customers : ~Upsert(p, c) /\ ~Assign(p, c)
    BY <1>1 DEF Upsert, Assign
  <2> QED BY <1>5, <2>1, <2>2, <2>3 DEF Step
<1>7. p = r
  BY <1>1, <1>6 DEF EndFetch
<1> QED BY <1>6, <1>7

LEMMA MassSafeStep ==
  ASSUME TypeOK, [Next]_vars, NEW r \in Runners,
         phase[r] = "fetching", phase'[r] = "missing", work[r].seen \subseteq Owned(r)
  PROVE  2 * Cardinality(work'[r].missing) <= Cardinality(Owned(r))
<1> DEFINE existing == Existing(job[r].src)
           seen == work[r].seen
<1>1. EndFetch(r)
  BY LooksOnce
<1>2. phase'[r] # "releasing"
  OBVIOUS
<1>3. ~Go(r, "releasing")
  BY <1>2 DEF Go, TypeOK
<1>4. ~TooFew(seen, existing) /\ WorkOn(r, [work[r] EXCEPT !.missing = existing \ seen])
  BY <1>1, <1>3 DEF EndFetch
<1>5. work'[r].missing = existing \ seen
  BY <1>4 DEF WorkOn, TypeOK, Work
<1>6. existing \in SUBSET Customers /\ seen \in SUBSET existing
  BY DEF Existing, Owned
<1> HIDE DEF existing, seen
<1>7. 2 * Cardinality(existing \ seen) <= Cardinality(existing)
  BY <1>4, <1>6, HalfMissing
<1> QED BY <1>5, <1>7 DEF existing, Owned

(* However small the answer of a source, no run goes on to remove more     *)
(* than half of the customers the source has.                              *)
THEOREM NoMassRemoval == Spec => MassSafe
<1> DEFINE Safe == \A r \in Runners :
             phase[r] = "fetching" /\ phase'[r] = "missing" /\ work[r].seen \subseteq Owned(r)
                => 2 * Cardinality(work'[r].missing) <= Cardinality(Owned(r))
<1>1. TypeOK /\ [Next]_vars => [Safe]_vars
  BY MassSafeStep
<1>2. [][Safe]_vars => MassSafe
  BY DEF MassSafe
<1> HIDE DEF Safe
<1>3. Spec => [][Safe]_vars
  BY <1>1, TypeCorrect, PTL DEF Spec
<1> QED BY <1>2, <1>3

(* Only an operator takes a membership away that an operator made.         *)
LEMMA ManualStep ==
  ASSUME TypeOK, [Next]_vars, NEW c \in Customers,
         member[c] = "manual", member'[c] # "manual"
  PROVE  edits' = edits + 1
<1>1. CASE \E d \in Customers, in \in BOOLEAN : SetGroup(d, in)
  BY <1>1 DEF SetGroup, Edit
<1>2. ASSUME NEW r \in Runners, NEW d \in Customers, Assign(r, d)
      PROVE  FALSE
  <2>1. member' = [member EXCEPT ![d] = Assigned(member[d], work[r].rows[d])] \/ member' = member
    BY <1>2 DEF Assign
  <2>2. Assigned("manual", work[r].rows[d]) = "manual"
    BY DEF Assigned
  <2> QED BY <2>1, <2>2 DEF TypeOK
<1>3. member' # member
  OBVIOUS
<1> QED BY <1>1, <1>2, <1>3 DEF Next, Step, vars, table, SourceChanges, SaveSource, Launch,
     RunNow, Begin, Acquire, Skip, Open, Upsert, EndFetch, RemoveMissing, Release, Close,
     Breaks, Dies, UpsertFails, Unmapped, Tick

(* No run, whatever its source says of a customer, takes the customer out  *)
(* of a group an operator put it in.                                       *)
THEOREM ManualMembersStay == Spec => ManualKept
<1> DEFINE Kept == \A c \in Customers : member[c] = "manual" /\ member'[c] # "manual"
                      => edits' = edits + 1
<1>1. TypeOK /\ [Next]_vars => [Kept]_vars
  BY ManualStep
<1>2. [][Kept]_vars => ManualKept
  BY DEF ManualKept
<1> HIDE DEF Kept
<1>3. Spec => [][Kept]_vars
  BY <1>1, TypeCorrect, PTL DEF Spec
<1> QED BY <1>2, <1>3
-----------------------------------------------------------------------------
(* A run that ends "ok" leaves the table as its source was.  What makes it *)
(* inductive follows a run record by record.                               *)

Working == {"fetching", "assigning", "missing", "releasing"}
Present(rows) == {c \in Customers : rows[c] # "absent"}
Matches(row, s, says) ==
  row.src = s /\ (says = "active" => row.active) /\ (says = "inactive" => ~row.active)
Gone(row, policy) == ~row.active /\ (policy = "delete" => row.src = NoSource)

(* The customers of one source alone are of that source, or of nobody.     *)
Ours ==
  \A s \in Sources, c \in Customers : Private(c, s) =>
    /\ customers[c].src \in {s, NoSource}
    /\ customers[c].src = NoSource => ~customers[c].active

(* A run works on what its source may hold, and misses nobody that another *)
(* source alone has.                                                       *)
Read(s, w) ==
  /\ w.rows \in Contents[s] /\ w.todo \subseteq Present(w.rows)
  /\ \A t \in Sources \ {s}, c \in Customers : Private(c, t) => c \notin w.missing
ReadSound ==
  /\ \A s \in Sources : external[s] \in Contents[s]
  /\ \A r \in Runners : phase[r] \in Working =>
        Read(job[r].src, work[r]) /\ (phase[r] \in {"assigning", "missing"} => ~job[r].dry)

(* So far a run has written what it has seen; when it looks for missing    *)
(* customers it has seen all, and when it ends they are gone.              *)
SoFar(s, policy, w, at, rows) ==
  /\ w.seen \subseteq Present(w.rows)
  /\ Present(w.rows) \ w.todo \subseteq w.seen
  /\ \A c \in w.seen : Private(c, s) => Matches(rows[c], s, w.rows[c])
  /\ at \in {"missing", "releasing"} => w.todo = {}
  /\ at = "missing" =>
        \A c \in Customers : Private(c, s) => (c \in w.missing <=> rows[c].src = s /\ c \notin w.seen)
  /\ at = "releasing" =>
        \A c \in Customers \ Present(w.rows) :
           Private(c, s) /\ w.rows # Nothing /\ policy # "keep" => Gone(rows[c], policy)

OnCourse(r) ==
  phase[r] \in Working /\ ~job[r].dry /\ job[r].src \notin overran =>
    /\ ~exact[job[r].src].known
    /\ work[r].outcome = "ok" => SoFar(job[r].src, job[r].policy, work[r], phase[r], customers)

Exactness == Ours /\ ReadSound /\ (\A r \in Runners : OnCourse(r)) /\ OkIsExact

LEMMA InitExact == Init => Exactness
<1> SUFFICES ASSUME Init PROVE Exactness
  OBVIOUS
<1>1. Ours
  BY DEF Init, Ours, NoRow
<1>2. ReadSound
  BY DEF Init, ReadSound, Working
<1>3. \A r \in Runners : OnCourse(r)
  BY DEF Init, OnCourse, Working
<1>4. OkIsExact
  BY DEF Init, OkIsExact, NotExact
<1> QED BY <1>1, <1>2, <1>3, <1>4 DEF Exactness

(* What a run has done so far depends on the customers of its source alone.*)
LEMMA SoFarFrame ==
  ASSUME NEW s \in Sources, NEW policy, NEW w \in Work, NEW at, NEW rows, NEW after,
         \A c \in Customers : Private(c, s) => after[c] = rows[c],
         SoFar(s, policy, w, at, rows)
  PROVE  SoFar(s, policy, w, at, after)
<1>1. w.seen \subseteq Customers
  BY DEF Work
<1>2. \A c \in w.seen : Private(c, s) => Matches(after[c], s, w.rows[c])
  BY <1>1 DEF SoFar
<1>3. at = "missing" =>
        \A c \in Customers : Private(c, s) => (c \in w.missing <=> after[c].src = s /\ c \notin w.seen)
  BY DEF SoFar
<1>4. at = "releasing" =>
        \A c \in Customers \ Present(w.rows) :
           Private(c, s) /\ w.rows # Nothing /\ policy # "keep" => Gone(after[c], policy)
  BY DEF SoFar
<1> QED BY <1>2, <1>3, <1>4 DEF SoFar

(* Steps that no run does within its work: everything at work stays.       *)
LEMMA RestExact ==
  ASSUME TypeOK, Exactness, customers' = customers, exact' = exact,
         overran \subseteq overran', \A s \in Sources : external'[s] \in Contents[s],
         \A p \in Runners : phase'[p] \in Working =>
            phase'[p] = phase[p] /\ job'[p] = job[p] /\ work'[p] = work[p]
  PROVE  Exactness'
<1>1. Ours'
  BY DEF Exactness, Ours
<1>2. ReadSound'
  BY DEF Exactness, ReadSound
<1>3. ASSUME NEW p \in Runners PROVE OnCourse(p)'
  <2> SUFFICES ASSUME phase'[p] \in Working, ~job'[p].dry, job'[p].src \notin overran'
               PROVE  /\ ~exact'[job'[p].src].known
                      /\ work'[p].outcome = "ok" =>
                           SoFar(job'[p].src, job'[p].policy, work'[p], phase'[p], customers')
    BY DEF OnCourse
  <2>1. phase'[p] = phase[p] /\ job'[p] = job[p] /\ work'[p] = work[p]
    OBVIOUS
  <2>2. OnCourse(p)
    BY DEF Exactness
  <2> QED BY <2>1, <2>2 DEF OnCourse
<1>4. OkIsExact'
  BY DEF Exactness, OkIsExact
<1> QED BY <1>1, <1>2, <1>3, <1>4 DEF Exactness

(* A step of a run's work concerns the customers of its own source alone,  *)
(* and no other run is at work for that source.                            *)
LEMMA WorkExact ==
  ASSUME TypeOK, Alone, Exactness,
         NEW r \in Runners, NEW s \in Sources, Runs(r, s),
         customers' = customers \/ (phase[r] \in Working /\ ~job[r].dry),
         \A t \in Sources \ {s}, c \in Customers : Private(c, t) => customers'[c] = customers[c],
         \A t \in Sources : exact'[t] = exact[t] \/ ~exact'[t].known,
         UNCHANGED <<overran, external, job>>,
         \A p \in Runners \ {r} : phase'[p] = phase[p] /\ work'[p] = work[p],
         Ours', OnCourse(r)',
         phase'[r] \in Working /\ (phase'[r] \in {"assigning", "missing"} => ~job[r].dry),
         Read(s, work'[r])
  PROVE  Exactness'
<1>0. job[r].src = s
  BY DEF Runs
<1>1. ReadSound'
  BY <1>0 DEF Exactness, ReadSound
<1>2. ASSUME NEW p \in Runners PROVE OnCourse(p)'
  <2>1. CASE p = r
    BY <2>1
  <2>2. CASE p # r
    <3> SUFFICES ASSUME phase'[p] \in Working, ~job'[p].dry, job'[p].src \notin overran'
                 PROVE  /\ ~exact'[job'[p].src].known
                        /\ work'[p].outcome = "ok" =>
                             SoFar(job'[p].src, job'[p].policy, work'[p], phase'[p], customers')
      BY DEF OnCourse
    <3>1. PICK t \in Sources : t = job[p].src
      BY <2>2 DEF TypeOK, Working
    <3>2. phase'[p] = phase[p] /\ job'[p] = job[p] /\ work'[p] = work[p] /\ overran' = overran
      BY <2>2
    <3>3. t # s
      BY <2>2, <3>1, <3>2 DEF Alone, OneRun, Runs, Working, Holding
    <3>4. OnCourse(p)
      BY DEF Exactness
    <3>5. /\ ~exact[t].known
          /\ work[p].outcome = "ok" => SoFar(t, job[p].policy, work[p], phase[p], customers)
      BY <3>1, <3>2, <3>4 DEF OnCourse
    <3>6. work[p] \in Work
      BY DEF TypeOK
    <3>7. work[p].outcome = "ok" => SoFar(t, job[p].policy, work[p], phase[p], customers')
      BY <3>3, <3>5, <3>6, SoFarFrame
    <3> QED BY <3>1, <3>2, <3>5, <3>7
  <2> QED BY <2>1, <2>2
<1>3. OkIsExact'
  <2> SUFFICES ASSUME NEW t \in Sources \ overran', NEW c \in Customers,
                      exact'[t].known, Private(c, t)
               PROVE  /\ exact'[t] = exact[t] /\ t \notin overran
                      /\ customers'[c] = customers[c]
    BY DEF Exactness, OkIsExact
  <2>1. exact'[t] = exact[t] /\ t \notin overran
    OBVIOUS
  <2>2. CASE t # s
    BY <2>1, <2>2
  <2>3. CASE t = s
    <3>1. ~(phase[r] \in Working /\ ~job[r].dry)
      BY <1>0, <2>1, <2>3 DEF Exactness, OnCourse
    <3> QED BY <2>1, <3>1
  <2> QED BY <2>2, <2>3
<1> QED BY <1>1, <1>2, <1>3 DEF Exactness

(* The same for a step within the work, by what it makes of the work.      *)
LEMMA StepExact ==
  ASSUME TypeOK, Alone, Exactness,
         NEW r \in Runners, NEW s \in Sources, phase[r] \in Working, job[r].src = s,
         UNCHANGED <<overran, external, job, exact>>,
         \A p \in Runners \ {r} : phase'[p] = phase[p] /\ work'[p] = work[p],
         \/ customers' = customers
         \/ /\ ~job[r].dry /\ Ours'
            /\ \A t \in Sources \ {s}, c \in Customers : Private(c, t) => customers'[c] = customers[c],
         phase'[r] \in Working /\ (phase'[r] \in {"assigning", "missing"} => ~job[r].dry),
         Read(s, work'[r]),
         work'[r].outcome = "ok" => work[r].outcome = "ok",
         ~job[r].dry /\ work'[r].outcome = "ok"
            /\ SoFar(s, job[r].policy, work[r], phase[r], customers)
            => SoFar(s, job[r].policy, work'[r], phase'[r], customers')
  PROVE  Exactness'
<1>1. Runs(r, s)
  BY DEF Runs, Working, Holding
<1>2. OnCourse(r)'
  <2> SUFFICES ASSUME ~job[r].dry, s \notin overran
               PROVE  /\ ~exact[s].known
                      /\ work'[r].outcome = "ok" =>
                           SoFar(s, job[r].policy, work'[r], phase'[r], customers')
    BY DEF OnCourse
  <2>1. /\ ~exact[s].known
        /\ work[r].outcome = "ok" => SoFar(s, job[r].policy, work[r], phase[r], customers)
    BY DEF Exactness, OnCourse
  <2> QED BY <2>1
<1>3. Ours'
  BY DEF Exactness, Ours
<1> QED BY <1>1, <1>2, <1>3, WorkExact

LEMMA WrittenMatches ==
  ASSUME NEW s \in Sources, NEW row, NEW says
  PROVE  Matches(Written(row, s, says), s, says) /\ Written(row, s, says).src = s
BY DEF Matches, Written

LEMMA UpsertExact ==
  ASSUME TypeOK, Alone, Exactness, NEW r \in Runners, NEW c \in Customers, Upsert(r, c)
  PROVE  Exactness'
<1> DEFINE w == work[r]
<1>1. PICK s \in Sources : s = job[r].src
  BY DEF Upsert, TypeOK
<1>2. /\ phase[r] = "fetching" /\ ~job[r].dry /\ c \in w.todo
      /\ phase' = [phase EXCEPT ![r] = "assigning"]
      /\ work' = [work EXCEPT ![r] = [w EXCEPT !.seen = w.seen \cup {c}]]
      /\ customers' = [customers EXCEPT ![c] = Written(customers[c], s, w.rows[c])]
      /\ UNCHANGED <<overran, external, job, exact>>
  BY <1>1 DEF Upsert, Go, WorkOn, clock
<1>3. w \in Work /\ w.rows \in [Customers -> Says] /\ w.seen \subseteq Customers
  BY DEF TypeOK, Work
<1>4. /\ work'[r].rows = w.rows /\ work'[r].todo = w.todo /\ work'[r].missing = w.missing
      /\ work'[r].outcome = w.outcome /\ work'[r].seen = w.seen \cup {c}
  BY <1>2, <1>3 DEF TypeOK, Work
<1>5. phase'[r] = "assigning" /\ \A p \in Runners \ {r} : phase'[p] = phase[p] /\ work'[p] = work[p]
  BY <1>2 DEF TypeOK
<1>6. Read(s, w)
  BY <1>1, <1>2 DEF Exactness, ReadSound, Working
<1>7. c \in Present(w.rows) /\ w.rows \in Contents[s]
  BY <1>2, <1>6 DEF Read
<1>8. \A t \in Sources \ {s} : ~Private(c, t)
  BY <1>7 DEF Private, Present
<1>9. /\ customers'[c] = Written(customers[c], s, w.rows[c])
      /\ \A d \in Customers \ {c} : customers'[d] = customers[d]
  BY <1>2 DEF TypeOK
<1>10. /\ customers'[c].src = s /\ Matches(customers'[c], s, w.rows[c])
  BY <1>9, WrittenMatches
<1>11. Ours'
  <2> SUFFICES ASSUME NEW t \in Sources, NEW d \in Customers, Private(d, t)
               PROVE  /\ customers'[d].src \in {t, NoSource}
                      /\ customers'[d].src = NoSource => ~customers'[d].active
    BY DEF Ours
  <2>1. CASE d = c
    BY <1>8, <1>10, <2>1, CustomerAssumption
  <2>2. CASE d # c
    BY <1>9, <2>2 DEF Exactness, Ours
  <2> QED BY <2>1, <2>2
<1>12. Read(s, work'[r])
  BY <1>4, <1>6 DEF Read
<1>13. SoFar(s, job[r].policy, w, phase[r], customers)
         => SoFar(s, job[r].policy, work'[r], phase'[r], customers')
  <2> SUFFICES ASSUME SoFar(s, job[r].policy, w, phase[r], customers)
               PROVE  /\ w.seen \cup {c} \subseteq Present(w.rows)
                      /\ Present(w.rows) \ w.todo \subseteq w.seen \cup {c}
                      /\ \A d \in w.seen \cup {c} :
                            Private(d, s) => Matches(customers'[d], s, w.rows[d])
    BY <1>4, <1>5 DEF SoFar
  <2> QED BY <1>3, <1>7, <1>9, <1>10 DEF SoFar
<1>14. \A t \in Sources \ {s}, d \in Customers : Private(d, t) => customers'[d] = customers[d]
  BY <1>8, <1>9
<1>15. phase[r] \in Working /\ phase'[r] \in Working
  BY <1>2, <1>5 DEF Working
<1> QED BY <1>1, <1>2, <1>4, <1>5, <1>11, <1>12, <1>13, <1>14, <1>15, StepExact

(* Steps after which the run is not ok any more, or that end a record.     *)
LEMMA FailedExact ==
  ASSUME TypeOK, Alone, Exactness, NEW r \in Runners,
         Breaks(r) \/ \E c \in Customers : UpsertFails(r, c) \/ Unmapped(r, c)
  PROVE  Exactness'
<1> DEFINE w == work[r]
<1>1. PICK s \in Sources : s = job[r].src
  BY DEF Breaks, UpsertFails, Unmapped, TypeOK
<1>2. w \in Work
  BY DEF TypeOK
<1>3. /\ phase[r] \in Working
      /\ \/ phase' = phase \/ phase' = [phase EXCEPT ![r] = "releasing"]
      /\ phase[r] = "fetching" \/ phase' # phase
      /\ UNCHANGED <<overran, external, job, exact, customers>>
  BY DEF Breaks, UpsertFails, Unmapped, Go, Working, clock, table, TypeOK
<1> DEFINE Fails(v) == /\ work' = [work EXCEPT ![r] = v] /\ v.rows = w.rows
                       /\ v.todo \subseteq w.todo /\ v.missing = w.missing /\ v.outcome # "ok"
<1>4. PICK v : Fails(v)
  <2>1. CASE Breaks(r)
    <3>1. work' = [work EXCEPT ![r] = [w EXCEPT !.outcome = "error"]]
      BY <2>1 DEF Breaks, WorkOn
    <3>2. Fails([w EXCEPT !.outcome = "error"])
      BY <1>2, <3>1 DEF Work
    <3> QED BY <3>2
  <2>2. ASSUME NEW c \in Customers, UpsertFails(r, c) PROVE \E v : Fails(v)
    <3>1. work' = [work EXCEPT ![r] = [w EXCEPT !.seen = w.seen \cup {c}, !.todo = w.todo \ {c},
                                                !.outcome = "partial"]]
      BY <2>2 DEF UpsertFails, WorkOn
    <3>2. Fails([w EXCEPT !.seen = w.seen \cup {c}, !.todo = w.todo \ {c}, !.outcome = "partial"])
      BY <1>2, <3>1 DEF Work
    <3> QED BY <3>2
  <2>3. ASSUME NEW c \in Customers, Unmapped(r, c) PROVE \E v : Fails(v)
    <3>1. work' = [work EXCEPT ![r] = [w EXCEPT !.todo = w.todo \ {c}, !.outcome = "partial"]]
      BY <2>3 DEF Unmapped, WorkOn
    <3>2. Fails([w EXCEPT !.todo = w.todo \ {c}, !.outcome = "partial"])
      BY <1>2, <3>1 DEF Work
    <3> QED BY <3>2
  <2> HIDE DEF Fails
  <2> QED BY <2>1, <2>2, <2>3
<1>5. work'[r] = v /\ \A p \in Runners \ {r} : phase'[p] = phase[p] /\ work'[p] = work[p]
  BY <1>3, <1>4 DEF TypeOK
<1>6. phase'[r] \in {"fetching", "releasing"}
  BY <1>3 DEF TypeOK
<1>7. Read(s, w)
  BY <1>1, <1>3 DEF Exactness, ReadSound
<1>8. Read(s, work'[r])
  BY <1>4, <1>5, <1>7 DEF Read
<1>9. phase'[r] \in Working /\ phase'[r] \notin {"assigning", "missing"}
  BY <1>6 DEF Working
<1>10. work'[r].outcome # "ok"
  BY <1>4, <1>5
<1> QED BY <1>1, <1>3, <1>5, <1>8, <1>9, <1>10, StepExact

LEMMA AssignExact ==
  ASSUME TypeOK, Alone, Exactness, NEW r \in Runners, NEW c \in Customers, Assign(r, c)
  PROVE  Exactness'
<1> DEFINE w == work[r]
<1>1. PICK s \in Sources : s = job[r].src
  BY DEF Assign, TypeOK
<1>2. /\ phase[r] = "assigning" /\ c \in w.seen
      /\ phase' = [phase EXCEPT ![r] = "fetching"]
      /\ work' = [work EXCEPT ![r] = [w EXCEPT !.todo = w.todo \ {c}]]
      /\ UNCHANGED <<overran, external, job, exact, customers>>
  BY DEF Assign, Go, WorkOn, clock
<1>3. w \in Work
  BY DEF TypeOK
<1>4. /\ work'[r].rows = w.rows /\ work'[r].todo = w.todo \ {c} /\ work'[r].missing = w.missing
      /\ work'[r].outcome = w.outcome /\ work'[r].seen = w.seen
  BY <1>2, <1>3 DEF TypeOK, Work
<1>5. phase'[r] = "fetching" /\ \A p \in Runners \ {r} : phase'[p] = phase[p] /\ work'[p] = work[p]
  BY <1>2 DEF TypeOK
<1>6. Read(s, w)
  BY <1>1, <1>2 DEF Exactness, ReadSound, Working
<1>7. Read(s, work'[r])
  BY <1>4, <1>6 DEF Read
<1>8. SoFar(s, job[r].policy, w, phase[r], customers)
         => SoFar(s, job[r].policy, work'[r], phase'[r], customers')
  BY <1>2, <1>4, <1>5 DEF SoFar
<1>9. phase[r] \in Working /\ phase'[r] \in Working
  BY <1>2, <1>5 DEF Working
<1> QED BY <1>1, <1>2, <1>4, <1>5, <1>7, <1>8, <1>9, StepExact

LEMMA SomePresent ==
  ASSUME NEW rows \in [Customers -> Says], rows # Nothing
  PROVE  Present(rows) # {}
BY DEF Present, Nothing

(* All is seen.  What is missing are the source's own customers, and a run *)
(* that misses nobody has nobody of its own left that it has not seen.     *)
LEMMA EndFetchExact ==
  ASSUME TypeOK, Alone, Exactness, NEW r \in Runners, EndFetch(r)
  PROVE  Exactness'
<1> DEFINE w == work[r]
           policy == job[r].policy
<1>1. PICK s \in Sources : s = job[r].src
  BY DEF EndFetch, TypeOK
<1>2. PICK existing \in SUBSET Customers : existing = Existing(s)
  BY DEF Existing
<1>3. /\ phase[r] = "fetching" /\ (job[r].dry \/ w.todo = {})
      /\ UNCHANGED <<overran, external, job, exact, customers>>
      /\ \/ /\ ~job[r].dry /\ policy # "keep"
            /\ phase' = [phase EXCEPT ![r] = "missing"]
            /\ work' = [work EXCEPT ![r] = [w EXCEPT !.missing = existing \ w.seen]]
         \/ /\ phase' = [phase EXCEPT ![r] = "releasing"]
            /\ work' = [work EXCEPT ![r] = [w EXCEPT !.outcome = "aborted_safety"]]
         \/ /\ phase' = [phase EXCEPT ![r] = "releasing"]
            /\ UNCHANGED work
            /\ job[r].dry \/ policy = "keep" \/ w.seen = {} \/ existing \ w.seen = {}
  BY <1>1, <1>2 DEF EndFetch, Go, WorkOn, clock, table
<1>4. w \in Work /\ w.rows \in [Customers -> Says]
  BY DEF TypeOK, Work
<1>5. \A p \in Runners \ {r} : phase'[p] = phase[p] /\ work'[p] = work[p]
  BY <1>3 DEF TypeOK
<1>6. Read(s, w)
  BY <1>1, <1>3 DEF Exactness, ReadSound, Working
<1>7. ASSUME NEW t \in Sources, NEW c \in Customers, Private(c, t)
      PROVE  /\ c \in existing => t = s
             /\ t = s /\ c \notin existing => customers[c].src = NoSource /\ ~customers[c].active
  BY <1>2, <1>7, CustomerAssumption DEF Existing, Exactness, Ours
<1>8. phase[r] \in Working
  BY <1>3 DEF Working
<1>9. CASE /\ ~job[r].dry /\ policy # "keep"
           /\ phase' = [phase EXCEPT ![r] = "missing"]
           /\ work' = [work EXCEPT ![r] = [w EXCEPT !.missing = existing \ w.seen]]
  <2>1. /\ work'[r].rows = w.rows /\ work'[r].todo = w.todo /\ work'[r].seen = w.seen
        /\ work'[r].outcome = w.outcome /\ work'[r].missing = existing \ w.seen
    BY <1>4, <1>9 DEF TypeOK, Work
  <2>2. phase'[r] = "missing" /\ phase'[r] \in Working
    BY <1>9 DEF TypeOK, Working
  <2>3. Read(s, work'[r])
    BY <1>6, <1>7, <2>1 DEF Read
  <2>4. \A c \in Customers : Private(c, s) =>
          (c \in existing \ w.seen <=> customers[c].src = s /\ c \notin w.seen)
    BY <1>2 DEF Existing
  <2>5. SoFar(s, policy, w, phase[r], customers)
          => SoFar(s, policy, work'[r], phase'[r], customers')
    BY <1>3, <1>9, <2>1, <2>2, <2>4 DEF SoFar
  <2> QED BY <1>1, <1>3, <1>5, <1>8, <1>9, <2>1, <2>2, <2>3, <2>5, StepExact
<1>10. CASE /\ phase' = [phase EXCEPT ![r] = "releasing"]
            /\ work' = [work EXCEPT ![r] = [w EXCEPT !.outcome = "aborted_safety"]]
  <2>1. /\ work'[r].rows = w.rows /\ work'[r].todo = w.todo
        /\ work'[r].missing = w.missing /\ work'[r].outcome # "ok"
    BY <1>4, <1>10 DEF TypeOK, Work
  <2>2. phase'[r] \in Working /\ phase'[r] \notin {"assigning", "missing"}
    BY <1>10 DEF TypeOK, Working
  <2>3. Read(s, work'[r])
    BY <1>6, <2>1 DEF Read
  <2> QED BY <1>1, <1>3, <1>5, <1>8, <2>1, <2>2, <2>3, StepExact
<1>11. CASE /\ phase' = [phase EXCEPT ![r] = "releasing"]
            /\ UNCHANGED work
            /\ job[r].dry \/ policy = "keep" \/ w.seen = {} \/ existing \ w.seen = {}
  <2>1. /\ phase'[r] = "releasing" /\ phase'[r] \in Working
        /\ phase'[r] \notin {"assigning", "missing"}
    BY <1>11 DEF TypeOK, Working
  <2>2. work'[r] = w
    BY <1>11
  <2>3. ASSUME ~job[r].dry, SoFar(s, policy, w, phase[r], customers)
        PROVE  SoFar(s, policy, w, "releasing", customers)
    <3>1. w.todo = {} /\ Present(w.rows) = w.seen
      BY <1>3, <2>3 DEF SoFar
    <3>2. ASSUME NEW c \in Customers \ Present(w.rows), Private(c, s),
                 w.rows # Nothing, policy # "keep"
          PROVE  Gone(customers[c], policy)
      <4>1. w.seen # {}
        BY <1>4, <3>1, <3>2, SomePresent
      <4>2. c \notin existing
        BY <1>11, <2>3, <3>1, <3>2, <4>1
      <4> QED BY <1>7, <3>2, <4>2 DEF Gone
    <3> QED BY <2>3, <3>1, <3>2 DEF SoFar
  <2> QED BY <1>1, <1>3, <1>5, <1>6, <1>8, <2>1, <2>2, <2>3, StepExact
<1> QED BY <1>3, <1>9, <1>10, <1>11

LEMMA RemoveExact ==
  ASSUME TypeOK, Alone, Exactness, NEW r \in Runners, RemoveMissing(r)
  PROVE  Exactness'
<1> DEFINE w == work[r]
           policy == job[r].policy
<1>1. PICK s \in Sources : s = job[r].src
  BY DEF RemoveMissing, TypeOK
<1>2. /\ phase[r] = "missing" /\ phase' = [phase EXCEPT ![r] = "releasing"]
      /\ UNCHANGED <<overran, external, job, exact, work>>
  BY DEF RemoveMissing, Go, clock
<1>3. /\ phase'[r] = "releasing" /\ phase'[r] \in Working /\ phase[r] \in Working
      /\ phase'[r] \notin {"assigning", "missing"}
      /\ \A p \in Runners \ {r} : phase'[p] = phase[p] /\ work'[p] = work[p]
  BY <1>2 DEF TypeOK, Working
<1>4. Read(s, w) /\ ~job[r].dry
  BY <1>1, <1>2 DEF Exactness, ReadSound, Working
<1>5. \A c \in Customers : customers'[c] =
         IF c \notin w.missing \/ customers[c].src = NoSource THEN customers[c]
         ELSE IF policy = "delete" THEN NoRow
         ELSE [src |-> customers[c].src, active |-> FALSE]
  BY DEF RemoveMissing
<1>6. \A c \in Customers :
         /\ c \notin w.missing \/ customers[c].src = NoSource => customers'[c] = customers[c]
         /\ c \in w.missing /\ customers[c].src # NoSource => Gone(customers'[c], policy)
         /\ customers'[c] # customers[c] =>
               ~customers'[c].active /\ customers'[c].src \in {customers[c].src, NoSource}
  <2> SUFFICES ASSUME NEW c \in Customers
               PROVE  /\ c \notin w.missing \/ customers[c].src = NoSource => customers'[c] = customers[c]
                      /\ c \in w.missing /\ customers[c].src # NoSource => Gone(customers'[c], policy)
                      /\ customers'[c] # customers[c] =>
                           ~customers'[c].active /\ customers'[c].src \in {customers[c].src, NoSource}
    OBVIOUS
  <2>1. NoRow.src = NoSource /\ ~NoRow.active
    BY DEF NoRow
  <2>2. \/ customers'[c] = customers[c] /\ (c \notin w.missing \/ customers[c].src = NoSource)
        \/ customers'[c] = NoRow /\ c \in w.missing /\ customers[c].src # NoSource
        \/ /\ customers'[c] = [src |-> customers[c].src, active |-> FALSE] /\ policy # "delete"
           /\ c \in w.missing /\ customers[c].src # NoSource
    BY <1>5
  <2> HIDE DEF w, policy
  <2> QED BY <2>1, <2>2 DEF Gone
<1>7. Ours'
  <2> SUFFICES ASSUME NEW t \in Sources, NEW c \in Customers, Private(c, t)
               PROVE  /\ customers'[c].src \in {t, NoSource}
                      /\ customers'[c].src = NoSource => ~customers'[c].active
    BY DEF Ours
  <2>1. /\ customers[c].src \in {t, NoSource}
        /\ customers[c].src = NoSource => ~customers[c].active
    BY DEF Exactness, Ours
  <2> QED BY <1>6, <2>1
<1>8. \A t \in Sources \ {s}, c \in Customers : Private(c, t) => customers'[c] = customers[c]
  BY <1>4, <1>6 DEF Read
<1>9. ASSUME SoFar(s, policy, w, phase[r], customers)
      PROVE  SoFar(s, policy, w, "releasing", customers')
  <2>1. /\ w.seen \subseteq Present(w.rows) /\ w.todo = {} /\ Present(w.rows) \subseteq w.seen
        /\ \A c \in w.seen : Private(c, s) => Matches(customers[c], s, w.rows[c])
        /\ \A c \in Customers : Private(c, s) =>
              (c \in w.missing <=> customers[c].src = s /\ c \notin w.seen)
    BY <1>2, <1>9 DEF SoFar
  <2>2. w.seen \subseteq Customers
    BY DEF TypeOK, Work
  <2>3. ASSUME NEW c \in w.seen, Private(c, s)
        PROVE  Matches(customers'[c], s, w.rows[c])
    BY <1>6, <2>1, <2>2, <2>3
  <2>4. ASSUME NEW c \in Customers \ Present(w.rows), Private(c, s)
        PROVE  Gone(customers'[c], policy)
    <3>1. c \notin w.seen
      BY <2>1
    <3>2. CASE customers[c].src = s
      BY <1>6, <2>1, <2>4, <3>1, <3>2, CustomerAssumption
    <3>3. CASE customers[c].src # s
      <4>1. customers[c].src = NoSource /\ ~customers[c].active
        BY <2>4, <3>3 DEF Exactness, Ours
      <4> QED BY <1>6, <4>1 DEF Gone
    <3> QED BY <3>2, <3>3
  <2> QED BY <2>1, <2>3, <2>4 DEF SoFar
<1> QED BY <1>1, <1>2, <1>3, <1>4, <1>7, <1>8, <1>9, StepExact

(* What a run has read is what its source may hold.                        *)
LEMMA OpenExact ==
  ASSUME TypeOK, Alone, Exactness, NEW r \in Runners, Open(r)
  PROVE  Exactness'
<1> DEFINE todo == Present(external[job[r].src])
           w == [NoWork EXCEPT !.rows = external[job[r].src], !.todo = todo]
<1>1. PICK s \in Sources : s = job[r].src
  BY DEF Open, TypeOK
<1>2. /\ phase[r] = "locked" /\ phase' = [phase EXCEPT ![r] = "fetching"]
      /\ work' = [work EXCEPT ![r] = w]
      /\ exact' = IF job[r].dry THEN exact ELSE [exact EXCEPT ![s] = NotExact]
      /\ UNCHANGED <<overran, external, job, customers>>
  BY <1>1 DEF Open, Go, WorkOn, clock, table, Present
<1>3. /\ phase'[r] = "fetching" /\ work'[r] = w
      /\ \A p \in Runners \ {r} : phase'[p] = phase[p] /\ work'[p] = work[p]
  BY <1>2 DEF TypeOK
<1>4. w.rows = external[s] /\ w.todo = Present(external[s]) /\ w.seen = {} /\ w.missing = {}
  BY <1>1 DEF NoWork
<1>5. external[s] \in Contents[s]
  BY DEF Exactness, ReadSound
<1> HIDE DEF w
<1>6. Read(s, work'[r])
  BY <1>3, <1>4, <1>5 DEF Read
<1>7. \A t \in Sources : exact'[t] = exact[t] \/ ~exact'[t].known
  BY <1>2 DEF TypeOK, NotExact
<1>8. OnCourse(r)'
  <2> SUFFICES ASSUME ~job[r].dry
               PROVE  ~exact'[s].known /\ SoFar(s, job[r].policy, w, "fetching", customers)
    BY <1>1, <1>2, <1>3 DEF OnCourse
  <2>1. ~exact'[s].known
    BY <1>2 DEF TypeOK, NotExact
  <2>2. SoFar(s, job[r].policy, w, "fetching", customers)
    BY <1>4 DEF SoFar
  <2> QED BY <2>1, <2>2
<1>9. Ours'
  BY <1>2 DEF Exactness, Ours
<1>10. Runs(r, s)
  BY <1>1, <1>2 DEF Runs, Holding
<1>11. phase'[r] \in Working /\ phase'[r] \notin {"assigning", "missing"}
  BY <1>3 DEF Working
<1> QED BY <1>2, <1>3, <1>6, <1>7, <1>8, <1>9, <1>10, <1>11, WorkExact

(* A run that ends ok has seen all and nobody it missed is left.           *)
LEMMA ReleaseExact ==
  ASSUME TypeOK, Alone, Exactness, NEW r \in Runners, Release(r)
  PROVE  Exactness'
<1> DEFINE w == work[r]
<1>1. PICK s \in Sources : s = job[r].src
  BY DEF Release, TypeOK
<1>2. /\ phase[r] = "releasing" /\ phase' = [phase EXCEPT ![r] = "closing"]
      /\ UNCHANGED <<overran, external, job, customers, work>>
      /\ \/ exact' = exact
         \/ /\ ~job[r].dry /\ w.outcome = "ok"
            /\ exact' = [exact EXCEPT ![s] = [known |-> TRUE, rows |-> w.rows,
                                              policy |-> job[r].policy]]
  BY <1>1 DEF Release, Go, table
<1>3. \A p \in Runners : phase'[p] \in Working => p # r /\ phase'[p] = phase[p]
  BY <1>2 DEF TypeOK, Working
<1>4. \A t \in Sources \ {s} : exact'[t] = exact[t]
  BY <1>2 DEF TypeOK
<1>5. Ours' /\ ReadSound'
  BY <1>2, <1>3 DEF Exactness, Ours, ReadSound
<1>6. ASSUME NEW p \in Runners PROVE OnCourse(p)'
  <2> SUFFICES ASSUME phase'[p] \in Working, ~job[p].dry, job[p].src \notin overran
               PROVE  /\ ~exact'[job[p].src].known
                      /\ work[p].outcome = "ok" =>
                           SoFar(job[p].src, job[p].policy, work[p], phase'[p], customers)
    BY <1>2 DEF OnCourse
  <2>1. PICK t \in Sources : t = job[p].src
    BY <1>3 DEF TypeOK, Working
  <2>2. t # s
    BY <1>1, <1>2, <1>3, <2>1 DEF Alone, OneRun, Runs, Working, Holding
  <2>3. OnCourse(p)
    BY DEF Exactness
  <2> QED BY <1>3, <1>4, <2>1, <2>2, <2>3 DEF OnCourse
<1>7. OkIsExact'
  <2> SUFFICES ASSUME NEW t \in Sources \ overran, NEW c \in Customers,
                      exact'[t].known, Private(c, t)
               PROVE  /\ exact'[t].rows[c] # "absent" => customers[c].src = t
                      /\ exact'[t].rows[c] = "active" => customers[c].active
                      /\ exact'[t].rows[c] = "inactive" => ~customers[c].active
                      /\ exact'[t].rows[c] = "absent" /\ exact'[t].rows # Nothing
                           /\ exact'[t].policy # "keep" =>
                            ~customers[c].active
                              /\ (exact'[t].policy = "delete" => customers[c].src = NoSource)
    BY <1>2 DEF OkIsExact
  <2>1. CASE exact'[t] = exact[t]
    BY <2>1 DEF Exactness, OkIsExact
  <2>2. CASE exact'[t] # exact[t]
    <3>1. t = s /\ ~job[r].dry /\ w.outcome = "ok"
      BY <1>2, <1>4, <2>2
    <3>2. exact'[s] = [known |-> TRUE, rows |-> w.rows, policy |-> job[r].policy]
      BY <1>2, <2>2, <3>1 DEF TypeOK
    <3>3. SoFar(s, job[r].policy, w, "releasing", customers)
      BY <1>1, <1>2, <3>1 DEF Exactness, OnCourse, Working
    <3>4. CASE w.rows[c] # "absent"
      <4>1. c \in w.seen
        BY <3>3, <3>4 DEF SoFar, Present
      <4>2. Matches(customers[c], s, w.rows[c])
        BY <3>1, <3>3, <4>1 DEF SoFar
      <4> QED BY <3>1, <3>2, <3>4, <4>2 DEF Matches
    <3>5. CASE w.rows[c] = "absent"
      <4>1. c \in Customers \ Present(w.rows)
        BY <3>5 DEF Present
      <4>2. w.rows # Nothing /\ job[r].policy # "keep" => Gone(customers[c], job[r].policy)
        BY <3>1, <3>3, <4>1 DEF SoFar
      <4> QED BY <3>1, <3>2, <3>5, <4>2 DEF Gone
    <3> QED BY <3>4, <3>5
  <2> QED BY <2>1, <2>2
<1> QED BY <1>5, <1>6, <1>7 DEF Exactness

LEMMA NextExact == TypeOK /\ Alone /\ Exactness /\ [Next]_vars => Exactness'
<1> SUFFICES ASSUME TypeOK, Alone, Exactness, [Next]_vars PROVE Exactness'
  OBVIOUS
<1>0. \A s \in Sources : external[s] \in Contents[s]
  BY DEF Exactness, ReadSound
<1>1. ASSUME NEW s \in Sources, SourceChanges(s)
      PROVE  Exactness'
  <2>1. PICK content \in Contents[s] : external' = [external EXCEPT ![s] = content]
    BY <1>1 DEF SourceChanges
  <2>2. \A t \in Sources : external'[t] \in Contents[t]
    BY <1>0, <2>1 DEF TypeOK
  <2>3. UNCHANGED <<customers, exact, overran, phase, job, work>>
    BY <1>1 DEF SourceChanges, table, clock
  <2> QED BY <2>2, <2>3, RestExact
<1>2. CASE \/ \E s \in Sources : SaveSource(s)
           \/ \E c \in Customers, in \in BOOLEAN : SetGroup(c, in)
           \/ Tick
           \/ UNCHANGED vars
  <2>1. UNCHANGED <<customers, exact, phase, job, work, external>> /\ overran \subseteq overran'
    BY <1>2 DEF SaveSource, SetGroup, Tick, vars, table, clock
  <2> QED BY <1>0, <2>1, RestExact
<1>3. CASE \/ \E r \in Runners, s \in Sources : Launch(r, s)
           \/ \E r \in Runners, s \in Sources, dry \in BOOLEAN : RunNow(r, s, dry)
  <2>1. PICK r \in Runners, s \in Sources, dry \in BOOLEAN : Begin(r, s, dry)
    BY <1>3 DEF Launch, RunNow
  <2>2. UNCHANGED <<customers, exact, work, external, overran>>
    BY <2>1 DEF Begin, table, clock
  <2>3. \A p \in Runners : phase'[p] \in Working => phase'[p] = phase[p] /\ job'[p] = job[p]
    BY <2>1 DEF Begin, TypeOK, Working
  <2> QED BY <1>0, <2>2, <2>3, RestExact
<1>4. ASSUME NEW r \in Runners, Skip(r) \/ Close(r) \/ Dies(r)
      PROVE  Exactness'
  <2>1. Stop(r) /\ UNCHANGED <<customers, exact, external, overran>>
    BY <1>4 DEF Skip, Close, Dies, table, clock
  <2>2. \A p \in Runners : phase'[p] \in Working =>
           phase'[p] = phase[p] /\ job'[p] = job[p] /\ work'[p] = work[p]
    BY <2>1 DEF Stop, Go, WorkOn, TypeOK, Working
  <2> QED BY <1>0, <2>1, <2>2, RestExact
<1>5. ASSUME NEW r \in Runners, Acquire(r)
      PROVE  Exactness'
  <2>1. UNCHANGED <<customers, exact, external, overran, job, work>>
    BY <1>5 DEF Acquire, table
  <2>2. \A p \in Runners : phase'[p] \in Working => phase'[p] = phase[p]
    BY <1>5 DEF Acquire, Go, TypeOK, Working
  <2> QED BY <1>0, <2>1, <2>2, RestExact
<1>6. ASSUME NEW r \in Runners, Step(r) \/ Breaks(r) \/ Dies(r)
      PROVE  Exactness'
  BY <1>4, <1>5, <1>6, OpenExact, UpsertExact, AssignExact, EndFetchExact, RemoveExact,
     ReleaseExact, FailedExact DEF Step
<1>7. CASE \E r \in Runners, c \in Customers : UpsertFails(r, c) \/ Unmapped(r, c)
  BY <1>7, FailedExact
<1> QED BY <1>1, <1>2, <1>3, <1>6, <1>7 DEF Next

(* After a run that ended ok and was not late, the customers that only its *)
(* source holds are those it read, and the others are gone.                *)
THEOREM OkRunsAreExact == Spec => []OkIsExact
<1>1. Init => TypeOK /\ Alone /\ Exactness
  BY InitType, InitAlone, InitExact
<1>2. TypeOK /\ Alone /\ Exactness /\ [Next]_vars => (TypeOK /\ Alone /\ Exactness)'
  BY NextType, NextAlone, NextExact
<1>3. Exactness => OkIsExact
  BY DEF Exactness
<1> QED BY <1>1, <1>2, <1>3, PTL DEF Spec
=============================================================================
