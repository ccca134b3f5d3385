--------------------------- MODULE ListenerProofs ---------------------------
(* Proofs about the two ends of the listener, for every value of the       *)
(* constants: the queue it delivers from (OutboundQueue), then the rules   *)
(* it is sent and the table they are read from (RuleSync, RuleTree).       *)
EXTENDS OutboundQueue, RuleSync, WellFoundedInduction, NaturalsInduction, TLAPS

(* _backoff_for always yields a delay. *)
LEMMA BackoffType == ASSUME NEW n \in Nat PROVE BackoffFor(n) \in Nat
<1>1. CASE Backoff = <<>>
  BY <1>1, OutboundAssumption DEF BackoffFor
<1>2. CASE Backoff # <<>>
  <2>1. Len(Backoff) \in Nat /\ Len(Backoff) > 0
    BY <1>2, OutboundAssumption
  <2>2. \A k \in 1..Len(Backoff) : Backoff[k] \in Nat
    BY OutboundAssumption
  <2>3. n < Len(Backoff) => n + 1 \in 1..Len(Backoff)
    BY <2>1
  <2>4. Len(Backoff) \in 1..Len(Backoff)
    BY <2>1
  <2> QED BY <1>2, <2>2, <2>3, <2>4 DEF BackoffFor
<1> QED BY <1>1, <1>2

LEMMA InitIInv == Init => IInv
BY OutboundAssumption DEF Init, IInv, TypeOK, LogMatchesQueue, BatchIsFresh,
   SentReachedAll, SentUnrecorded, CopiesBounded, NoRow, Idle, Row, RowIds, Live, Final

LEMMA EnqueueIInv == IInv /\ Enqueue => IInv'
<1> SUFFICES ASSUME IInv, Enqueue PROVE IInv'
  OBVIOUS
<1> USE DEF IInv
<1>1. PICK R \in SUBSET Addresses :
        queue' = [queue EXCEPT ![lastId + 1] = NewRow(R)]
  BY DEF Enqueue
<1>2. lastId + 1 \in RowIds /\ lastId' = lastId + 1 /\ lastId \in Nat
  BY OutboundAssumption DEF Enqueue, RowIds, TypeOK
<1>3. queue[lastId + 1] = NoRow
  BY <1>2 DEF BatchIsFresh
<1>4. /\ queue'[lastId + 1] = [state |-> "pending", rcpt |-> R, attempts |-> 0, wait |-> 0]
      /\ \A i \in RowIds : i # lastId + 1 => queue'[i] = queue[i]
  BY <1>1, <1>2 DEF TypeOK, NewRow
<1>5. TypeOK'
  <2>1. NewRow(R) \in Row
    BY OutboundAssumption DEF NewRow, Row, Live
  <2>2. queue' \in [RowIds -> Row]
    BY <1>1, <1>2, <2>1 DEF TypeOK
  <2> QED BY <1>2, <2>2 DEF TypeOK, Enqueue, RowIds
<1>6. LogMatchesQueue'
  <2> SUFFICES ASSUME NEW i \in RowIds
               PROVE  /\ forwardLog[i] = queue'[i].attempts
                      /\ quarantine[i] = IF queue'[i].state = "dead" THEN 1 ELSE 0
                      /\ queue'[i].state = "dead" => queue'[i].attempts = MaxAttempts
                      /\ queue'[i].state \in Live => queue'[i].attempts < MaxAttempts
                      /\ queue'[i].wait > 0 => queue'[i].state = "error"
    BY DEF LogMatchesQueue, Enqueue
  <2>1. CASE i = lastId + 1
    BY <1>3, <1>4, <2>1, OutboundAssumption DEF LogMatchesQueue, NoRow
  <2>2. CASE i # lastId + 1
    BY <1>4, <2>2 DEF LogMatchesQueue
  <2> QED BY <2>1, <2>2
<1>7. BatchIsFresh'
  <2>1. lastId + 1 \notin worker.todo
    BY <1>3 DEF BatchIsFresh, NoRow, Live
  <2>2. \A i \in RowIds :
          IF i <= lastId' THEN queue'[i].state # "none" ELSE queue'[i] = NoRow
    <3> SUFFICES ASSUME NEW i \in RowIds
                 PROVE  IF i <= lastId + 1 THEN queue'[i].state # "none"
                        ELSE queue'[i] = NoRow
      BY <1>2
    <3>1. CASE i = lastId + 1
      BY <1>2, <1>4, <3>1
    <3>2. CASE i # lastId + 1
      BY <1>2, <1>4, <3>2 DEF BatchIsFresh, RowIds
    <3> QED BY <3>1, <3>2
  <2>3. worker' = worker /\ worker.todo \subseteq RowIds
    BY DEF Enqueue, TypeOK
  <2>4. \A i \in worker.todo : queue'[i] = queue[i]
    BY <1>4, <2>1, <2>3
  <2> QED
    BY <2>2, <2>3, <2>4 DEF BatchIsFresh
<1>8. \A i \in RowIds : SentUnrecorded(i)' <=> SentUnrecorded(i)
  BY DEF SentUnrecorded, Enqueue
<1>9. ~SentUnrecorded(lastId + 1)
  BY <1>3 DEF BatchIsFresh, SentUnrecorded, NoRow, Live
<1>10. SentReachedAll'
  BY <1>4, <1>8, <1>9 DEF SentReachedAll, Enqueue
<1>11. CopiesBounded'
  <2>1. \A a \in Addresses : mailbox[lastId + 1][a] = 0
    BY <1>2, <1>3 DEF CopiesBounded, NoRow
  <2> QED
    BY <1>2, <1>3, <1>4, <1>8, <1>9, <2>1 DEF CopiesBounded, Enqueue, NoRow, TypeOK
<1> QED BY <1>5, <1>6, <1>7, <1>10, <1>11

LEMMA TickIInv == IInv /\ Tick => IInv'
<1> SUFFICES ASSUME IInv, Tick PROVE IInv'
  OBVIOUS
<1> USE DEF IInv
<1>1. \A i \in RowIds :
        /\ queue'[i].state = queue[i].state
        /\ queue'[i].rcpt = queue[i].rcpt
        /\ queue'[i].attempts = queue[i].attempts
        /\ queue[i].wait = 0 => queue'[i] = queue[i]
        /\ queue'[i].wait > 0 => queue[i].wait > 0
        /\ queue'[i] \in Row
  <2> SUFFICES ASSUME NEW i \in RowIds
               PROVE  /\ queue'[i].state = queue[i].state
                      /\ queue'[i].rcpt = queue[i].rcpt
                      /\ queue'[i].attempts = queue[i].attempts
                      /\ queue[i].wait = 0 => queue'[i] = queue[i]
                      /\ queue'[i].wait > 0 => queue[i].wait > 0
                      /\ queue'[i] \in Row
    OBVIOUS
  <2>1. queue[i] \in Row
    BY DEF TypeOK
  <2>2. queue'[i] = IF queue[i].wait > 0
                    THEN [queue[i] EXCEPT !.wait = @ - 1] ELSE queue[i]
    BY DEF Tick
  <2> QED BY <2>1, <2>2 DEF Row
<1>2. TypeOK'
  <2>1. queue' \in [RowIds -> Row]
    BY <1>1 DEF Tick
  <2> QED BY <2>1 DEF TypeOK, Tick
<1>3. LogMatchesQueue'
  BY <1>1 DEF LogMatchesQueue, Tick
<1>4. BatchIsFresh'
  <2>1. \A i \in RowIds : queue[i] = NoRow => queue'[i] = NoRow
    BY <1>1 DEF NoRow
  <2>2. worker.todo \subseteq RowIds
    BY DEF TypeOK
  <2> QED BY <1>1, <2>1, <2>2 DEF BatchIsFresh, Tick
<1>5. \A i \in RowIds : SentUnrecorded(i)' <=> SentUnrecorded(i)
  BY DEF SentUnrecorded, Tick
<1>6. SentReachedAll'
  BY <1>1, <1>5 DEF SentReachedAll, Tick
<1>7. CopiesBounded'
  BY <1>1, <1>5 DEF CopiesBounded, Tick
<1> QED BY <1>2, <1>3, <1>4, <1>6, <1>7

(* A step that leaves the tables alone and drops the worker's batch. *)
LEMMA DropBatchIInv ==
  ASSUME IInv, worker' = Idle, UNCHANGED <<lastId, queue, forwardLog, quarantine, mailbox>>,
         aborts' \in 0..MaxAborts, faults' \in [RowIds -> Nat],
         \A i \in RowIds : faults'[i] >= faults[i] + (IF SentUnrecorded(i) THEN 1 ELSE 0)
  PROVE  IInv'
<1> USE DEF IInv
<1>1. TypeOK'
  BY OutboundAssumption DEF TypeOK, Idle
<1>2. LogMatchesQueue'
  BY DEF LogMatchesQueue
<1>3. BatchIsFresh'
  BY DEF BatchIsFresh, Idle
<1>4. \A i \in RowIds : ~SentUnrecorded(i)'
  BY DEF SentUnrecorded, Idle
<1>5. SentReachedAll'
  BY <1>4 DEF SentReachedAll
<1>6. CopiesBounded'
  <2> SUFFICES ASSUME NEW i \in RowIds, NEW a \in Addresses
               PROVE  /\ mailbox[i][a] <= faults'[i] +
                            (IF queue[i].state = "sent" THEN 1 ELSE 0)
                      /\ a \notin queue[i].rcpt => mailbox[i][a] = 0
    BY <1>4 DEF CopiesBounded
  <2>1. mailbox[i][a] \in Nat /\ faults[i] \in Nat /\ faults'[i] \in Nat
    BY DEF TypeOK
  <2> QED BY <2>1 DEF CopiesBounded
<1> QED BY <1>1, <1>2, <1>3, <1>5, <1>6

LEMMA RelayRaisesIInv == ASSUME NEW i \in RowIds PROVE IInv /\ RelayRaises(i) => IInv'
<1> SUFFICES ASSUME IInv, RelayRaises(i) PROVE IInv'
  OBVIOUS
<1>1. \A j \in RowIds : ~SentUnrecorded(j) /\ faults[j] \in Nat
  BY DEF RelayRaises, IsNext, SentUnrecorded, IInv, TypeOK
<1> QED BY <1>1, DropBatchIInv DEF RelayRaises, IInv, TypeOK

LEMMA AbortIInv == IInv /\ Abort => IInv'
<1> SUFFICES ASSUME IInv, Abort PROVE IInv'
  OBVIOUS
<1>1. aborts' \in 0..MaxAborts
  BY OutboundAssumption DEF Abort, IInv, TypeOK
<1>2. faults \in [RowIds -> Nat]
  BY DEF IInv, TypeOK
<1>3. worker.pc = "relayed" => worker.row \in RowIds
  BY DEF IInv, BatchIsFresh, TypeOK
<1>4. faults' \in [RowIds -> Nat]
  BY <1>2, <1>3 DEF Abort
<1>5. \A j \in RowIds : faults'[j] >= faults[j] + (IF SentUnrecorded(j) THEN 1 ELSE 0)
  BY <1>2, <1>3 DEF Abort, SentUnrecorded
<1> QED BY <1>1, <1>4, <1>5, DropBatchIInv DEF Abort

LEMMA ReadBatchIInv == IInv /\ ReadBatch => IInv'
<1> SUFFICES ASSUME IInv, ReadBatch PROVE IInv'
  OBVIOUS
<1> USE DEF IInv
<1>1. FirstOf(Due) \subseteq {i \in RowIds : queue[i].state \in Live}
  BY DEF FirstOf, Due
<1>2. \A i \in RowIds : queue[i].attempts \in 0..MaxAttempts
  BY DEF TypeOK, Row
<1>3. TypeOK'
  BY <1>1, <1>2 DEF TypeOK, ReadBatch
<1>4. BatchIsFresh'
  BY <1>1 DEF BatchIsFresh, ReadBatch
<1>5. \A i \in RowIds : ~SentUnrecorded(i) /\ ~SentUnrecorded(i)'
  BY DEF SentUnrecorded, ReadBatch
<1>6. LogMatchesQueue'
  BY DEF LogMatchesQueue, ReadBatch
<1>7. SentReachedAll'
  BY <1>5 DEF SentReachedAll, ReadBatch
<1>8. CopiesBounded'
  BY <1>5 DEF CopiesBounded, ReadBatch
<1> QED BY <1>3, <1>4, <1>6, <1>7, <1>8

LEMMA RelayIInv == ASSUME NEW i \in RowIds PROVE IInv /\ Relay(i) => IInv'
<1> SUFFICES ASSUME IInv, Relay(i) PROVE IInv'
  OBVIOUS
<1> USE DEF IInv
<1>1. PICK A \in SUBSET queue[i].rcpt, ok \in BOOLEAN :
        /\ ok => A = queue[i].rcpt /\ A # {}
        /\ worker' = [worker EXCEPT !.pc = "relayed", !.row = i, !.ok = ok]
        /\ mailbox' = [mailbox EXCEPT ![i] =
              [a \in Addresses |-> IF a \in A THEN @[a] + 1 ELSE @[a]]]
        /\ faults' = IF A # {} /\ ~ok THEN [faults EXCEPT ![i] = @ + 1] ELSE faults
  BY DEF Relay, AllAccepted
<1>2. /\ worker.pc = "batch" /\ i \in worker.todo
      /\ worker'.pc = "relayed" /\ worker'.row = i /\ worker'.ok = ok
      /\ worker'.todo = worker.todo /\ worker'.read = worker.read
  BY <1>1 DEF Relay, IsNext, TypeOK
<1>3. UNCHANGED <<lastId, queue, forwardLog, quarantine, aborts>>
  BY DEF Relay
<1>4. /\ \A a \in Addresses : mailbox'[i][a] =
            IF a \in A THEN mailbox[i][a] + 1 ELSE mailbox[i][a]
      /\ \A j \in RowIds : j # i => mailbox'[j] = mailbox[j]
  BY <1>1 DEF TypeOK
<1>5. A \subseteq queue[i].rcpt /\ queue[i].rcpt \subseteq Addresses
  BY DEF TypeOK, Row
<1>6. TypeOK'
  <2>1. mailbox' \in [RowIds -> [Addresses -> Nat]]
    BY <1>1 DEF TypeOK
  <2>2. faults' \in [RowIds -> Nat]
    BY <1>1 DEF TypeOK
  <2>3. worker' \in [pc : {"idle", "batch", "relayed"}, todo : SUBSET RowIds,
                     read : [RowIds -> 0..MaxAttempts], row : RowIds \cup {0},
                     ok : BOOLEAN]
    BY <1>1 DEF TypeOK
  <2> QED BY <2>1, <2>2, <2>3, <1>3 DEF TypeOK
<1>7. LogMatchesQueue'
  BY <1>3 DEF LogMatchesQueue
<1>8. BatchIsFresh'
  BY <1>2, <1>3 DEF BatchIsFresh
<1>9. \A j \in RowIds : /\ ~SentUnrecorded(j)
                        /\ SentUnrecorded(j)' <=> j = i /\ ok
  BY <1>2 DEF SentUnrecorded
<1>10. queue[i].state # "sent"
  BY <1>2 DEF BatchIsFresh, Live
<1>11. SentReachedAll'
  <2> SUFFICES ASSUME NEW j \in RowIds, queue[j].state = "sent" \/ (j = i /\ ok)
               PROVE  queue[j].rcpt # {} /\ \A a \in queue[j].rcpt : mailbox'[j][a] > 0
    BY <1>3, <1>9 DEF SentReachedAll
  <2>1. CASE j = i
    <3>1. ok /\ A = queue[i].rcpt /\ A # {}
      BY <1>1, <1>10, <2>1
    <3>2. \A a \in Addresses : mailbox[i][a] \in Nat
      BY DEF TypeOK
    <3> QED BY <2>1, <3>1, <3>2, <1>4, <1>5
  <2>2. CASE j # i
    BY <2>2, <1>4 DEF SentReachedAll
  <2> QED BY <2>1, <2>2
<1>12. CopiesBounded'
  <2> SUFFICES ASSUME NEW j \in RowIds, NEW a \in Addresses
               PROVE  /\ mailbox'[j][a] <= faults'[j] +
                            (IF queue[j].state = "sent" \/ (j = i /\ ok) THEN 1 ELSE 0)
                      /\ a \notin queue[j].rcpt => mailbox'[j][a] = 0
    BY <1>3, <1>9 DEF CopiesBounded
  <2>1. /\ mailbox[j][a] \in Nat /\ faults[j] \in Nat
        /\ mailbox[j][a] <= faults[j] + (IF queue[j].state = "sent" THEN 1 ELSE 0)
        /\ a \notin queue[j].rcpt => mailbox[j][a] = 0
    BY <1>9 DEF CopiesBounded, TypeOK
  <2>2. CASE j = i
    <3>1. faults'[i] = IF A # {} /\ ~ok THEN faults[i] + 1 ELSE faults[i]
      BY <1>1 DEF TypeOK
    <3>2. mailbox'[i][a] = IF a \in A THEN mailbox[i][a] + 1 ELSE mailbox[i][a]
      BY <1>4
    <3> QED BY <2>1, <2>2, <3>1, <3>2, <1>1, <1>5, <1>10
  <2>3. CASE j # i
    <3>1. faults'[j] = faults[j] /\ mailbox'[j] = mailbox[j]
      BY <1>1, <1>4, <2>3 DEF TypeOK
    <3> QED BY <2>1, <2>3, <3>1
  <2> QED BY <2>2, <2>3
<1> QED BY <1>6, <1>7, <1>8, <1>11, <1>12

(* Updates of the fields of a row and of the worker keep their types. *)
LEMMA RowUpdate ==
  ASSUME NEW r \in Row, NEW n \in 0..MaxAttempts,
         NEW s \in {"none"} \cup Live \cup Final, NEW w \in Nat
  PROVE  [r EXCEPT !.attempts = n, !.state = s, !.wait = w] \in Row
BY DEF Row

Worker == [pc : {"idle", "batch", "relayed"}, todo : SUBSET RowIds,
           read : [RowIds -> 0..MaxAttempts], row : RowIds \cup {0}, ok : BOOLEAN]

LEMMA WorkerUpdate ==
  ASSUME NEW w \in Worker, NEW T \in SUBSET RowIds
  PROVE  [w EXCEPT !.pc = "batch", !.todo = T, !.row = 0, !.ok = FALSE] \in Worker
BY DEF Worker

(* What a commit writes, row by row. *)
LEMMA CommitEffect ==
  ASSUME IInv, Commit
  PROVE  LET i == worker.row
             exhausted == queue[i].attempts + 1 >= MaxAttempts
         IN /\ i \in RowIds /\ i \in worker.todo /\ worker.pc = "relayed"
            /\ queue[i].state \in Live /\ queue[i].attempts < MaxAttempts
            /\ queue' \in [RowIds -> Row]
            /\ queue'[i].attempts = queue[i].attempts + 1
            /\ queue'[i].rcpt = queue[i].rcpt
            /\ queue'[i].state = IF worker.ok THEN "sent"
                                 ELSE IF exhausted THEN "dead" ELSE "error"
            /\ queue'[i].wait > 0 => queue'[i].state = "error"
            /\ forwardLog' = [forwardLog EXCEPT ![i] = @ + 1]
            /\ quarantine' = IF ~worker.ok /\ exhausted
                             THEN [quarantine EXCEPT ![i] = @ + 1] ELSE quarantine
            /\ \A j \in RowIds : j # i => queue'[j] = queue[j]
            /\ worker'.todo \subseteq worker.todo \ {i}
            /\ worker'.pc # "relayed"
<1> USE DEF IInv
<1> DEFINE i == worker.row
           attempts == worker.read[i] + 1
           exhausted == attempts >= MaxAttempts
<1>1. worker.pc = "relayed" /\ i \in worker.todo /\ i \in RowIds
  BY DEF Commit, BatchIsFresh, TypeOK
<1>2. queue[i] \in Row /\ queue[i].state \in Live /\ worker.read[i] = queue[i].attempts
  BY <1>1 DEF BatchIsFresh, TypeOK
<1>3. queue[i].attempts < MaxAttempts /\ queue[i].attempts \in Nat
  BY <1>1, <1>2 DEF LogMatchesQueue, Row
<1>4. attempts \in 1..MaxAttempts
  BY <1>2, <1>3, OutboundAssumption
<1>5. BackoffFor(attempts - 1) \in Nat
  BY <1>4, BackoffType
<1>6. queue' = [queue EXCEPT ![i].attempts = attempts,
                  ![i].state = IF worker.ok THEN "sent"
                               ELSE IF exhausted THEN "dead" ELSE "error",
                  ![i].wait = IF worker.ok \/ exhausted THEN 0
                              ELSE BackoffFor(attempts - 1)]
  BY DEF Commit, Exhausted
<1>7. /\ queue'[i] = [queue[i] EXCEPT !.attempts = attempts,
                  !.state = IF worker.ok THEN "sent"
                               ELSE IF exhausted THEN "dead" ELSE "error",
                  !.wait = IF worker.ok \/ exhausted THEN 0
                              ELSE BackoffFor(attempts - 1)]
      /\ \A j \in RowIds : j # i => queue'[j] = queue[j]
      /\ DOMAIN queue' = RowIds
  BY <1>1, <1>6 DEF TypeOK
<1>8. /\ queue'[i].attempts = attempts
      /\ queue'[i].rcpt = queue[i].rcpt
      /\ queue'[i].state = IF worker.ok THEN "sent"
                           ELSE IF exhausted THEN "dead" ELSE "error"
      /\ queue'[i].wait > 0 => queue'[i].state = "error"
      /\ queue'[i] \in Row
  <2> DEFINE s == IF worker.ok THEN "sent" ELSE IF exhausted THEN "dead" ELSE "error"
             w == IF worker.ok \/ exhausted THEN 0 ELSE BackoffFor(attempts - 1)
  <2>1. queue'[i] = [queue[i] EXCEPT !.attempts = attempts, !.state = s, !.wait = w]
    BY <1>7
  <2>2. s \in {"none"} \cup Live \cup Final /\ w \in Nat /\ attempts \in 0..MaxAttempts
    BY <1>4, <1>5, OutboundAssumption DEF Live, Final
  <2>3. DOMAIN queue[i] = {"state", "rcpt", "attempts", "wait"}
    BY <1>2 DEF Row
  <2> HIDE DEF s, w, attempts
  <2>4. queue'[i] \in Row
    <3>1. queue[i] \in Row
      BY <1>2
    <3>2. [queue[i] EXCEPT !.attempts = attempts, !.state = s, !.wait = w] \in Row
      BY <3>1, <2>2, RowUpdate
    <3> QED BY <2>1, <3>2
  <2>5. queue'[i].attempts = attempts /\ queue'[i].rcpt = queue[i].rcpt /\ queue'[i].state = s
        /\ queue'[i].wait = w
    BY <2>1, <2>3
  <2> QED BY <2>4, <2>5 DEF s, w
<1>9. queue' \in [RowIds -> Row]
  BY <1>6, <1>7, <1>8 DEF TypeOK
<1>10. worker'.todo \subseteq worker.todo \ {i} /\ worker'.pc # "relayed"
  BY <1>1 DEF Commit, Idle, TypeOK, Rest
<1>11. /\ forwardLog' = [forwardLog EXCEPT ![i] = @ + 1]
       /\ quarantine' = IF ~worker.ok /\ exhausted
                        THEN [quarantine EXCEPT ![i] = @ + 1] ELSE quarantine
  BY DEF Commit, Exhausted
<1> QED BY <1>1, <1>2, <1>3, <1>7, <1>8, <1>9, <1>10, <1>11

LEMMA CommitIInv == IInv /\ Commit => IInv'
<1> SUFFICES ASSUME IInv, Commit PROVE IInv'
  OBVIOUS
<1> USE DEF IInv
<1> DEFINE i == worker.row
<1>1. /\ i \in RowIds /\ i \in worker.todo /\ worker.pc = "relayed"
      /\ queue[i].state \in Live /\ queue[i].attempts < MaxAttempts
      /\ queue' \in [RowIds -> Row]
      /\ queue'[i].attempts = queue[i].attempts + 1
      /\ queue'[i].rcpt = queue[i].rcpt
      /\ queue'[i].state = IF worker.ok THEN "sent"
                           ELSE IF queue[i].attempts + 1 >= MaxAttempts THEN "dead" ELSE "error"
      /\ queue'[i].wait > 0 => queue'[i].state = "error"
      /\ forwardLog' = [forwardLog EXCEPT ![i] = @ + 1]
      /\ quarantine' = IF ~worker.ok /\ queue[i].attempts + 1 >= MaxAttempts
                       THEN [quarantine EXCEPT ![i] = @ + 1] ELSE quarantine
      /\ \A j \in RowIds : j # i => queue'[j] = queue[j]
      /\ worker'.todo \subseteq worker.todo \ {i}
      /\ worker'.pc # "relayed"
  BY CommitEffect
<1>2. lastId' = lastId /\ mailbox' = mailbox /\ faults' = faults /\ aborts' = aborts
  BY DEF Commit
<1>3. queue[i].attempts \in Nat /\ MaxAttempts \in Nat
  BY <1>1, OutboundAssumption DEF TypeOK, Row
<1>4. TypeOK'
  <2>1. forwardLog' \in [RowIds -> Nat] /\ quarantine' \in [RowIds -> Nat]
    BY <1>1 DEF TypeOK
  <2>2. worker' \in [pc : {"idle", "batch", "relayed"}, todo : SUBSET RowIds,
                     read : [RowIds -> 0..MaxAttempts], row : RowIds \cup {0},
                     ok : BOOLEAN]
    <3>1. Idle \in Worker
      BY OutboundAssumption DEF Idle, Worker
    <3>2. worker \in Worker /\ worker.todo \ {i} \in SUBSET RowIds
      BY DEF TypeOK, Worker
    <3>3. \/ worker' = Idle
          \/ worker' = [worker EXCEPT !.pc = "batch", !.todo = worker.todo \ {i},
                                       !.row = 0, !.ok = FALSE]
      BY DEF Commit, Rest
    <3>4. worker' \in Worker
      BY <3>1, <3>2, <3>3, WorkerUpdate
    <3> QED BY <3>4 DEF Worker
  <2> QED BY <1>1, <1>2, <2>1, <2>2 DEF TypeOK
<1>5. LogMatchesQueue'
  <2> SUFFICES ASSUME NEW j \in RowIds
               PROVE  /\ forwardLog'[j] = queue'[j].attempts
                      /\ quarantine'[j] = IF queue'[j].state = "dead" THEN 1 ELSE 0
                      /\ queue'[j].state = "dead" => queue'[j].attempts = MaxAttempts
                      /\ queue'[j].state \in Live => queue'[j].attempts < MaxAttempts
                      /\ queue'[j].wait > 0 => queue'[j].state = "error"
    BY DEF LogMatchesQueue
  <2>1. CASE j = i
    <3>1. forwardLog[i] = queue[i].attempts /\ quarantine[i] = 0
      BY <1>1 DEF LogMatchesQueue, Live
    <3>2. forwardLog'[i] = queue[i].attempts + 1
      BY <1>1, <3>1 DEF TypeOK
    <3>3. quarantine'[i] = IF ~worker.ok /\ queue[i].attempts + 1 >= MaxAttempts
                           THEN 1 ELSE 0
      BY <1>1, <3>1 DEF TypeOK
    <3> QED BY <1>1, <1>3, <2>1, <3>2, <3>3 DEF Live
  <2>2. CASE j # i
    <3>1. forwardLog'[j] = forwardLog[j] /\ quarantine'[j] = quarantine[j]
      BY <1>1, <2>2 DEF TypeOK
    <3> QED BY <1>1, <2>2, <3>1 DEF LogMatchesQueue
  <2> QED BY <2>1, <2>2
<1>6. BatchIsFresh'
  <2>1. \A j \in RowIds :
          IF j <= lastId THEN queue'[j].state # "none" ELSE queue'[j] = NoRow
    <3> SUFFICES ASSUME NEW j \in RowIds
                 PROVE  IF j <= lastId THEN queue'[j].state # "none"
                        ELSE queue'[j] = NoRow
      OBVIOUS
    <3>1. CASE j = i
      BY <1>1, <3>1 DEF BatchIsFresh, NoRow, Live
    <3>2. CASE j # i
      BY <1>1, <3>2 DEF BatchIsFresh
    <3> QED BY <3>1, <3>2
  <2>2. \A j \in worker'.todo :
          queue'[j].state \in Live /\ worker'.read[j] = queue'[j].attempts
    <3> SUFFICES ASSUME NEW j \in worker'.todo
                 PROVE  queue'[j].state \in Live /\ worker'.read[j] = queue'[j].attempts
      OBVIOUS
    <3>1. j \in worker.todo /\ j # i /\ j \in RowIds
      BY <1>1 DEF TypeOK
    <3>2. worker'.read = worker.read
      BY DEF Commit, Idle, TypeOK, Rest
    <3> QED BY <1>1, <3>1, <3>2 DEF BatchIsFresh
  <2> QED BY <1>1, <1>2, <2>1, <2>2 DEF BatchIsFresh
<1>7. \A j \in RowIds : /\ SentUnrecorded(j) <=> j = i /\ worker.ok
                        /\ ~SentUnrecorded(j)'
  BY <1>1 DEF SentUnrecorded, TypeOK
<1>8. \A j \in RowIds : /\ queue'[j].rcpt = queue[j].rcpt
                        /\ queue'[j].state = "sent" <=>
                              queue[j].state = "sent" \/ SentUnrecorded(j)
  <2> SUFFICES ASSUME NEW j \in RowIds
               PROVE  /\ queue'[j].rcpt = queue[j].rcpt
                      /\ queue'[j].state = "sent" <=>
                              queue[j].state = "sent" \/ SentUnrecorded(j)
    OBVIOUS
  <2>1. CASE j = i
    BY <1>1, <1>7, <2>1 DEF Live
  <2>2. CASE j # i
    BY <1>1, <1>7, <2>2
  <2> QED BY <2>1, <2>2
<1>9. SentReachedAll'
  BY <1>2, <1>7, <1>8 DEF SentReachedAll
<1>10. CopiesBounded'
  BY <1>2, <1>7, <1>8 DEF CopiesBounded
<1> QED BY <1>4, <1>5, <1>6, <1>9, <1>10

LEMMA NextIInv == IInv /\ [Next]_vars => IInv'
<1> SUFFICES ASSUME IInv, [Next]_vars PROVE IInv'
  OBVIOUS
<1>1. CASE Enqueue
  BY <1>1, EnqueueIInv
<1>2. CASE Tick
  BY <1>2, TickIInv
<1>3. CASE ReadBatch
  BY <1>3, ReadBatchIInv
<1>4. CASE \E i \in RowIds : Relay(i) \/ RelayRaises(i)
  BY <1>4, RelayIInv, RelayRaisesIInv
<1>5. CASE Commit
  BY <1>5, CommitIInv
<1>6. CASE Abort
  BY <1>6, AbortIInv
<1>7. CASE UNCHANGED vars
  BY <1>7 DEF vars, IInv, TypeOK, LogMatchesQueue, BatchIsFresh, SentReachedAll,
              SentUnrecorded, CopiesBounded
<1> QED BY <1>1, <1>2, <1>3, <1>4, <1>5, <1>6, <1>7 DEF Next, Drain

LEMMA InvariantIInv == Spec => []IInv
BY InitIInv, NextIInv, PTL DEF Spec

-----------------------------------------------------------------------------
(* Every variable keeps its type. *)
THEOREM TypeCorrect == Spec => []TypeOK
BY InvariantIInv, PTL DEF IInv

(* One forward_log row per counted attempt, one quarantined copy per dead  *)
(* row, death only after MaxAttempts attempts.                             *)
THEOREM AuditCorrect == Spec => []LogMatchesQueue
BY InvariantIInv, PTL DEF IInv

(* The rows of a batch are never overtaken by the table. *)
THEOREM BatchFresh == Spec => []BatchIsFresh
BY InvariantIInv, PTL DEF IInv

(* Sent means that every recipient has the mail. *)
THEOREM SentCorrect == Spec => []SentReachedAll
BY InvariantIInv, PTL DEF IInv

(* Every copy but one is accounted for by a fault. *)
THEOREM CopiesCorrect == Spec => []CopiesBounded
BY InvariantIInv, PTL DEF IInv

LEMMA StepAfterFinal ==
  ASSUME IInv, [Next]_vars, NEW i \in RowIds, queue[i].state \in Final
  PROVE  /\ queue'[i] = queue[i]
         /\ mailbox'[i] = mailbox[i]
         /\ forwardLog'[i] = forwardLog[i]
         /\ quarantine'[i] = quarantine[i]
<1>1. i \notin worker.todo
  BY DEF IInv, BatchIsFresh, Live, Final
<1>2. CASE Enqueue
  <2>1. lastId + 1 # i
    BY DEF IInv, BatchIsFresh, TypeOK, RowIds, NoRow, Final
  <2> QED BY <1>2, <2>1 DEF Enqueue, IInv, TypeOK
<1>3. CASE Tick
  <2>1. queue[i].wait = 0
    BY DEF IInv, LogMatchesQueue, TypeOK, Row, Final
  <2> QED BY <1>3, <2>1 DEF Tick
<1>4. CASE ReadBatch
  BY <1>4 DEF ReadBatch
<1>5. CASE \E j \in RowIds : Relay(j) \/ RelayRaises(j)
  <2>1. PICK j \in RowIds : Relay(j) \/ RelayRaises(j)
    BY <1>5
  <2>2. j \in worker.todo /\ j # i
    BY <1>1, <2>1 DEF Relay, RelayRaises, IsNext
  <2> QED BY <2>1, <2>2 DEF Relay, RelayRaises, IInv, TypeOK
<1>6. CASE Commit
  <2>1. worker.row \in worker.todo /\ worker.row # i
    BY <1>1, <1>6 DEF Commit, IInv, BatchIsFresh
  <2>2. forwardLog'[i] = forwardLog[i] /\ quarantine'[i] = quarantine[i]
    BY <1>6, <2>1 DEF Commit, IInv, TypeOK
  <2>3. queue'[i] = queue[i]
    BY <1>6, <2>1, CommitEffect
  <2> QED BY <1>6, <2>2, <2>3 DEF Commit
<1>7. CASE Abort
  BY <1>7 DEF Abort
<1>8. CASE UNCHANGED vars
  BY <1>8 DEF vars
<1> QED BY <1>2, <1>3, <1>4, <1>5, <1>6, <1>7, <1>8 DEF Next, Drain

(* No step touches a row that is sent or dead. *)
THEOREM FinalIsFinal == Spec => NothingAfterFinal
<1> DEFINE Kept == \A i \in RowIds : queue[i].state \in Final =>
                      /\ queue'[i] = queue[i]
                      /\ mailbox'[i] = mailbox[i]
                      /\ forwardLog'[i] = forwardLog[i]
                      /\ quarantine'[i] = quarantine[i]
<1>1. IInv /\ [Next]_vars => [Kept]_vars
  BY StepAfterFinal
<1>2. [][Kept]_vars => NothingAfterFinal
  BY DEF NothingAfterFinal
<1> HIDE DEF Kept
<1>3. Spec => [][Kept]_vars
  BY <1>1, InvariantIInv, PTL DEF Spec
<1> QED BY <1>2, <1>3

-----------------------------------------------------------------------------
(* The queue implements the abstract delivery promise. *)

LEMMA DeliveryInit == Init => Delivery!Init
BY DEF Init, Delivery!Init, DeliveryStatus, NoRow, Live

LEMMA EnqueueAccepts ==
  ASSUME IInv, Enqueue PROVE \E k \in RowIds : Delivery!Accept(k)
<1>0. PICK k \in RowIds : k = lastId + 1
  BY OutboundAssumption DEF Enqueue, IInv, TypeOK, RowIds
<1>1. queue \in [RowIds -> Row] /\ queue[k] = NoRow
  BY <1>0 DEF IInv, TypeOK, BatchIsFresh, RowIds
<1>2. PICK R \in SUBSET Addresses : queue' = [queue EXCEPT ![k] = NewRow(R)]
  BY <1>0 DEF Enqueue
<1>3. queue'[k] = NewRow(R) /\ \A j \in RowIds : j # k => queue'[j] = queue[j]
  BY <1>1, <1>2
<1>4. [i \in RowIds |-> queue'[i].rcpt]
        = [[i \in RowIds |-> queue[i].rcpt] EXCEPT ![k] = R]
  <2>1. queue'[k].rcpt = R
    BY <1>3 DEF NewRow
  <2> QED BY <1>1, <1>3, <2>1
<1>5. [i \in RowIds |-> DeliveryStatus(queue'[i].state)]
        = [[i \in RowIds |-> DeliveryStatus(queue[i].state)] EXCEPT ![k] = "queued"]
  <2>1. DeliveryStatus(queue'[k].state) = "queued"
    BY <1>3 DEF NewRow, DeliveryStatus, Live
  <2> QED BY <1>1, <1>3, <2>1
<1>6. DeliveryStatus(queue[k].state) = "none"
  BY <1>1 DEF NoRow, DeliveryStatus, Live
<1>7. Delivery!Accept(k)
  BY <1>4, <1>5, <1>6 DEF Delivery!Accept, Enqueue
<1> QED BY <1>7

LEMMA RelayTransmits ==
  ASSUME IInv, NEW i \in RowIds, Relay(i) PROVE Delivery!Transmit(i)
<1>1. queue[i].state \in Live /\ queue[i].rcpt \subseteq Addresses
  BY DEF Relay, IsNext, IInv, BatchIsFresh, TypeOK, Row
<1>2. DeliveryStatus(queue[i].state) = "queued"
  BY <1>1 DEF DeliveryStatus
<1>3. PICK A \in SUBSET queue[i].rcpt :
        mailbox' = [mailbox EXCEPT ![i] =
              [a \in Addresses |-> IF a \in A THEN @[a] + 1 ELSE @[a]]]
  BY DEF Relay
<1> QED
  BY <1>2, <1>3 DEF Delivery!Transmit, Relay

LEMMA CommitSettles ==
  ASSUME IInv, Commit
  PROVE  Delivery!Settle(worker.row) \/ UNCHANGED Delivery!vars
<1> DEFINE i == worker.row
           exhausted == queue[i].attempts + 1 >= MaxAttempts
<1>1. /\ i \in RowIds /\ worker.pc = "relayed" /\ queue[i].state \in Live
      /\ queue'[i].rcpt = queue[i].rcpt
      /\ queue'[i].state = IF worker.ok THEN "sent"
                           ELSE IF exhausted THEN "dead" ELSE "error"
      /\ \A j \in RowIds : j # i => queue'[j] = queue[j]
  BY CommitEffect
<1>2. [j \in RowIds |-> queue'[j].rcpt] = [j \in RowIds |-> queue[j].rcpt]
  BY <1>1
<1>3. DeliveryStatus(queue[i].state) = "queued"
  BY <1>1 DEF DeliveryStatus
<1>4. mailbox' = mailbox
  BY DEF Commit
<1>5. CASE worker.ok
  <2>1. DeliveryStatus(queue'[i].state) = "delivered"
    BY <1>1, <1>5 DEF DeliveryStatus, Live
  <2>2. queue[i].rcpt # {} /\ \A a \in queue[i].rcpt : mailbox[i][a] > 0
    BY <1>1, <1>5 DEF IInv, SentReachedAll, SentUnrecorded
  <2>3. [j \in RowIds |-> DeliveryStatus(queue'[j].state)]
          = [[j \in RowIds |-> DeliveryStatus(queue[j].state)] EXCEPT ![i] = "delivered"]
    BY <1>1, <2>1
  <2> QED BY <1>1, <1>2, <1>3, <1>4, <2>2, <2>3 DEF Delivery!Settle
<1>6. CASE ~worker.ok /\ exhausted
  <2>1. DeliveryStatus(queue'[i].state) = "quarantined"
    BY <1>1, <1>6 DEF DeliveryStatus, Live
  <2>2. [j \in RowIds |-> DeliveryStatus(queue'[j].state)]
          = [[j \in RowIds |-> DeliveryStatus(queue[j].state)] EXCEPT ![i] = "quarantined"]
    BY <1>1, <2>1
  <2> QED BY <1>1, <1>2, <1>3, <1>4, <2>2 DEF Delivery!Settle
<1>7. CASE ~worker.ok /\ ~exhausted
  <2>1. DeliveryStatus(queue'[i].state) = "queued"
    BY <1>1, <1>7 DEF DeliveryStatus, Live
  <2>2. [j \in RowIds |-> DeliveryStatus(queue'[j].state)]
          = [j \in RowIds |-> DeliveryStatus(queue[j].state)]
    BY <1>1, <1>3, <2>1
  <2> QED BY <1>2, <1>4, <2>2 DEF Delivery!vars
<1> QED BY <1>5, <1>6, <1>7

LEMMA TickStutters == ASSUME IInv, Tick PROVE UNCHANGED Delivery!vars
<1>1. \A i \in RowIds : /\ queue'[i].state = queue[i].state
                        /\ queue'[i].rcpt = queue[i].rcpt
  <2> SUFFICES ASSUME NEW i \in RowIds
               PROVE  queue'[i].state = queue[i].state /\ queue'[i].rcpt = queue[i].rcpt
    OBVIOUS
  <2>1. queue[i] \in Row
    BY DEF IInv, TypeOK
  <2>2. queue'[i] = IF queue[i].wait > 0
                    THEN [queue[i] EXCEPT !.wait = @ - 1] ELSE queue[i]
    BY DEF Tick
  <2> QED BY <2>1, <2>2 DEF Row
<1> QED BY <1>1 DEF Tick, Delivery!vars

(* Every step of the queue is a step of MailDelivery or changes nothing in *)
(* it: enqueueing accepts, relaying transmits, recording a final outcome   *)
(* settles, everything else stutters.                                      *)
LEMMA DeliveryStep == IInv /\ [Next]_vars => [Delivery!Next]_(Delivery!vars)
<1> SUFFICES ASSUME IInv, [Next]_vars PROVE [Delivery!Next]_(Delivery!vars)
  OBVIOUS
<1>1. CASE Enqueue
  BY <1>1, EnqueueAccepts DEF Delivery!Next
<1>2. CASE Tick
  BY <1>2, TickStutters
<1>3. CASE ReadBatch
  BY <1>3 DEF ReadBatch, Delivery!vars
<1>4. CASE \E i \in RowIds : Relay(i)
  BY <1>4, RelayTransmits DEF Delivery!Next
<1>5. CASE \E i \in RowIds : RelayRaises(i)
  BY <1>5 DEF RelayRaises, Delivery!vars
<1>6. CASE Commit
  <2>1. worker.row \in RowIds
    BY <1>6, CommitEffect
  <2> QED BY <1>6, <2>1, CommitSettles DEF Delivery!Next
<1>7. CASE Abort
  BY <1>7 DEF Abort, Delivery!vars
<1>8. CASE UNCHANGED vars
  BY <1>8 DEF vars, Delivery!vars
<1> QED BY <1>1, <1>2, <1>3, <1>4, <1>5, <1>6, <1>7, <1>8 DEF Next, Drain

THEOREM Refinement == Spec => ImplementsDelivery
BY DeliveryInit, DeliveryStep, InvariantIInv, PTL
   DEF Spec, ImplementsDelivery, Delivery!Safety
-----------------------------------------------------------------------------
(* The order of evaluation: by priority, then by id. *)

LEMMA LexOrder ==
    ASSUME NEW a, NEW b, a.priority \in Nat, a.id \in Nat, b.priority \in Nat, b.id \in Nat
    PROVE  /\ ~(Before(a, b) /\ Before(b, a))
           /\ a.id # b.id => Before(a, b) \/ Before(b, a)
BY DEF Before

LEMMA LexTransitive ==
    ASSUME NEW a, NEW b, NEW c, a.priority \in Nat, a.id \in Nat, b.priority \in Nat,
           b.id \in Nat, c.priority \in Nat, c.id \in Nat, Before(a, b), Before(b, c)
    PROVE  Before(a, c)
BY DEF Before

(* A set of numbers that is not empty has a smallest one. *)
LEMMA SmallestNat ==
    ASSUME NEW S \in SUBSET Nat, S # {}
    PROVE  \E n \in S : \A k \in S : n <= k
<1>. DEFINE R == {ss \in Nat \X Nat : ss[1] < ss[2]}
<1>1. IsWellFoundedOn(R, Nat)  BY NatLessThanWellFounded DEF OpToRel
<1>2. PICK n \in S : \A k \in S : ~(<<k, n>> \in R)
    <2>. HIDE DEF R
    <2>. QED  BY <1>1, WFMin
<1>3. \A k \in S : ~(k < n)  BY <1>2
<1>. QED  BY <1>3

(* Of the rows of a set one comes first. *)
LEMMA FirstRow ==
    ASSUME NEW H, H # {}, \A h \in H : h.priority \in Nat /\ h.id \in Nat,
           \A a, b \in H : a.id = b.id => a = b
    PROVE  \E h \in H : \A e \in H : e = h \/ Before(h, e)
<1>1. PICK p \in {h.priority : h \in H} : \A q \in {h.priority : h \in H} : p <= q
    <2>1. {h.priority : h \in H} \in SUBSET Nat  OBVIOUS
    <2>2. {h.priority : h \in H} # {}  OBVIOUS
    <2>. QED  BY <2>1, <2>2, SmallestNat
<1>. DEFINE L == {h \in H : h.priority = p}
<1>2. PICK i \in {h.id : h \in L} : \A k \in {h.id : h \in L} : i <= k
    <2>1. {h.id : h \in L} \in SUBSET Nat  OBVIOUS
    <2>2. {h.id : h \in L} # {}  BY <1>1
    <2>. QED  BY <2>1, <2>2, SmallestNat
<1>3. PICK h \in L : h.id = i  BY <1>2
<1>4. ASSUME NEW e \in H PROVE e = h \/ Before(h, e)
    <2>1. CASE e \in L
        <3>1. h.id <= e.id  BY <1>2, <1>3, <2>1
        <3>. QED  BY <1>3, <2>1, <3>1 DEF Before
    <2>2. CASE e \notin L
        <3>1. p <= e.priority /\ e.priority # p  BY <1>1, <2>2
        <3>. QED  BY <1>3, <3>1 DEF Before
    <2>. QED  BY <2>1, <2>2
<1>. QED  BY <1>3, <1>4
-----------------------------------------------------------------------------
(* The two readings of a tree.  Its leaves are the orphans and the         *)
(* children of its groups: what a leaf tests, and whether it goes on.      *)

Tidy(top, kids) ==
    /\ \A a \in top \cup kids : a.id \in Ids /\ a.priority \in Nat /\ a.match \in Filters
    /\ \A a, b \in top \cup kids : a.id = b.id => a = b
    /\ \A a \in top : a.parent = 0

Tested(i, a) == IF i.group THEN Merged(i, a) ELSE Meaning(a.match)
Hit(i, a, m) == SimAccepts(Tested(i, a), m)
GoOn(kids, i, a) == IF i.group THEN Continues(kids, i, a) ELSE a.continue
Emitted(kids, i, a) == FlatRow(a, Tested(i, a), GoOn(kids, i, a))

Disciplined(top, kids) ==
    /\ Publishable(top, kids)
    /\ Contiguous(top, kids)
    /\ OnlyLastGoesOn(top, kids)
    /\ Simulated(top, kids)
    /\ Narrows(top, kids)

LEMMA EmittedFields ==
    ASSUME NEW kids, NEW i, NEW a
    PROVE  /\ Emitted(kids, i, a).id = a.id
           /\ Emitted(kids, i, a).priority = a.priority
           /\ Emitted(kids, i, a).match = Tested(i, a)
           /\ Emitted(kids, i, a).continue = GoOn(kids, i, a)
BY DEF Emitted, FlatRow

(* flatten_rules emits one row for each leaf. *)
LEMMA FlatLeaves ==
    ASSUME NEW top, NEW kids, NEW r
    PROVE  r \in Flat(top, kids) <=>
           \E i \in top : \E a \in Leaves(kids, i) : r = Emitted(kids, i, a)
<1>1. ASSUME r \in Flat(top, kids)
      PROVE  \E i \in top : \E a \in Leaves(kids, i) : r = Emitted(kids, i, a)
    <2>1. CASE \E o \in top \ Groups(top) : r = FlatRow(o, Meaning(o.match), o.continue)
        <3>1. PICK o \in top \ Groups(top) : r = FlatRow(o, Meaning(o.match), o.continue)  BY <2>1
        <3>2. o \in top /\ ~o.group  BY DEF Groups
        <3>3. o \in Leaves(kids, o)  BY <3>2 DEF Leaves
        <3>4. r = Emitted(kids, o, o)  BY <3>1, <3>2 DEF Emitted, Tested, GoOn
        <3>. QED  BY <3>2, <3>3, <3>4
    <2>2. CASE \E g \in Groups(top) : \E c \in Of(kids, g) :
                   r = FlatRow(c, Merged(g, c), Continues(kids, g, c))
        <3>0. PICK g \in Groups(top) : \E c \in Of(kids, g) :
                   r = FlatRow(c, Merged(g, c), Continues(kids, g, c))
            BY <2>2
        <3>1. PICK c \in Of(kids, g) : r = FlatRow(c, Merged(g, c), Continues(kids, g, c))
            BY <3>0
        <3>2. g \in top /\ g.group  BY DEF Groups
        <3>3. c \in Leaves(kids, g)  BY <3>2 DEF Leaves
        <3>4. r = Emitted(kids, g, c)  BY <3>1, <3>2 DEF Emitted, Tested, GoOn
        <3>. QED  BY <3>2, <3>3, <3>4
    <2>. QED  BY <1>1, <2>1, <2>2, Zenon DEF Flat
<1>2. ASSUME NEW i \in top, NEW a \in Leaves(kids, i), r = Emitted(kids, i, a)
      PROVE  r \in Flat(top, kids)
    <2>1. CASE i.group
        <3>1. i \in Groups(top) /\ a \in Of(kids, i)  BY <2>1 DEF Groups, Leaves
        <3>2. r = FlatRow(a, Merged(i, a), Continues(kids, i, a))
            BY <1>2, <2>1 DEF Emitted, Tested, GoOn
        <3>3. r \in {FlatRow(c, Merged(i, c), Continues(kids, i, c)) : c \in Of(kids, i)}
            BY <3>1, <3>2, Zenon
        <3>. QED  BY <3>1, <3>3, Zenon DEF Flat
    <2>2. CASE ~i.group
        <3>1. a = i /\ i \in top \ Groups(top)  BY <2>2 DEF Groups, Leaves
        <3>2. r = FlatRow(i, Meaning(i.match), i.continue)
            BY <1>2, <2>2, <3>1 DEF Emitted, Tested, GoOn
        <3>. QED  BY <3>1, <3>2, Zenon DEF Flat
    <2>. QED  BY <2>1, <2>2
<1>. QED  BY <1>1, <1>2

LEMMA LeafIsRow ==
    ASSUME NEW top, NEW kids, NEW i \in top, NEW a \in Leaves(kids, i)
    PROVE  a \in top \cup kids
BY DEF Leaves, Of

(* The leaves of two items lie as the items do. *)
LEMMA BlocksApart ==
    ASSUME NEW top, NEW kids, Tidy(top, kids), Contiguous(top, kids),
           NEW i \in top, NEW j \in top, i # j,
           NEW a \in Leaves(kids, i), NEW e \in Leaves(kids, j)
    PROVE  Before(e, a) <=> Before(j, i)
<1>1. /\ i.id \in Nat /\ i.priority \in Nat /\ j.id \in Nat /\ j.priority \in Nat
      /\ a.id \in Nat /\ a.priority \in Nat /\ e.id \in Nat /\ e.priority \in Nat
    BY LeafIsRow DEF Tidy, Ids
<1>2. i.id # j.id  BY DEF Tidy
<1>3. Before(j, i) => Before(e, a)  BY DEF Contiguous
<1>4. Before(i, j) => Before(a, e)  BY DEF Contiguous
<1>. QED  BY <1>1, <1>2, <1>3, <1>4, LexOrder

(* Where the simulation tests every filter, the two test a leaf alike. *)
LEMMA TestedAlike ==
    ASSUME NEW top, NEW kids, Simulated(top, kids), NEW m \in Mails,
           NEW i \in top, NEW a \in Leaves(kids, i)
    PROVE  Accepts(Tested(i, a), m) <=> Hit(i, a, m)
<1>1. \A f \in Fields \ SimFields : Tested(i, a)[f] = Vals
    <2>1. Emitted(kids, i, a) \in Flat(top, kids)  BY FlatLeaves
    <2>. QED  BY <2>1, EmittedFields DEF Simulated
<1>2. \A f \in Fields : m[f] \in Vals  BY DEF Mails
<1>3. SimFields \subseteq Fields  BY RuleBounds DEF Fields
<1>. QED  BY <1>1, <1>2, <1>3 DEF Accepts, Hit, SimAccepts

(* A child that matches has a group that matches: the simulation tests no  *)
(* field in which the child's filter replaces the group's.                 *)
LEMMA GroupMatches ==
    ASSUME NEW top, NEW kids, Tidy(top, kids), Publishable(top, kids), Narrows(top, kids),
           NEW m \in Mails,
           NEW i \in top, i.group, NEW a \in Leaves(kids, i), Hit(i, a, m)
    PROVE  SimAccepts(Meaning(i.match), m)
<1>1. i \in Groups(top) /\ a \in Of(kids, i)  BY DEF Groups, Leaves
<1>2. ~Clash(i, a)  BY <1>1 DEF Publishable
<1>3. \A f \in Fields : m[f] \in Vals  BY DEF Mails
<1>4. SimFields \subseteq Fields /\ SimFields \subseteq RegexFields \cup ExactFields
    BY RuleBounds DEF Fields
<1>5. ASSUME NEW f \in SimFields PROVE m[f] \in Meaning(i.match)[f]
    <2>1. m[f] \in Merged(i, a)[f]  BY DEF Hit, SimAccepts, Tested
    <2>2. f \in Fields /\ f \in RegexFields \cup ExactFields  BY <1>4
    <2>3. Meaning(i.match)[f] = Accepted[i.match[f]]  BY <2>2 DEF Meaning
    <2>4. CASE Combines(i, a, f)
        <3>1. Merged(i, a)[f] = AcceptedBoth[<<i.match[f], a.match[f]>>]
            BY <2>2, <2>4 DEF Merged
        <3>2. AcceptedBoth[<<i.match[f], a.match[f]>>] \subseteq Accepted[i.match[f]]
            BY <1>1, <2>4 DEF Narrows, Combines
        <3>. QED  BY <2>1, <2>3, <3>1, <3>2
    <2>5. CASE ~Combines(i, a, f)
        <3>1. Merged(i, a)[f] = Accepted[IF a.match[f] # Blank THEN a.match[f] ELSE i.match[f]]
            BY <2>2, <2>5 DEF Merged
        <3>2. i.match[f] = Blank \/ a.match[f] = Blank \/ i.match[f] = a.match[f]
            BY <1>2, <2>2, <2>5 DEF Clash, Combines
        <3>3. m[f] \in Accepted[Blank]  BY <1>3, <2>2, RuleBounds
        <3>. QED  BY <2>1, <2>3, <3>1, <3>2, <3>3
    <2>. QED  BY <2>4, <2>5
<1>. QED  BY <1>5 DEF SimAccepts

(* What the simulation takes from one item. *)
LEMMA WinsInItem ==
    ASSUME NEW top, NEW kids, Tidy(top, kids), Publishable(top, kids), Narrows(top, kids),
           NEW m \in Mails, NEW i \in top, NEW a
    PROVE  a \in ItemWinners(kids, i, m) <=>
           /\ a \in Leaves(kids, i)
           /\ Hit(i, a, m)
           /\ \A e \in Leaves(kids, i) : Hit(i, e, m) /\ Before(e, a) => GoOn(kids, i, e)
<1>1. CASE i.group
    <2>1. Leaves(kids, i) = Of(kids, i)  BY <1>1 DEF Leaves
    <2>2. \A e : Hit(i, e, m) <=> SimAccepts(Merged(i, e), m)  BY <1>1 DEF Hit, Tested
    <2>3. \A e : GoOn(kids, i, e) <=> Continues(kids, i, e)  BY <1>1, Zenon DEF GoOn
    <2>4. a \in ChildWinners(kids, i, m) <=>
             /\ a \in Of(kids, i)
             /\ SimAccepts(Merged(i, a), m)
             /\ \A e \in Of(kids, i) :
                   SimAccepts(Merged(i, e), m) /\ Before(e, a) => Continues(kids, i, e)
        BY Zenon DEF ChildWinners
    <2>5. a \in ItemWinners(kids, i, m) <=>
             SimAccepts(Meaning(i.match), m) /\ a \in ChildWinners(kids, i, m)
        BY <1>1 DEF ItemWinners
    <2>6. a \in Leaves(kids, i) /\ Hit(i, a, m) => SimAccepts(Meaning(i.match), m)
        BY <1>1, GroupMatches
    <2>. QED  BY <2>1, <2>2, <2>3, <2>4, <2>5, <2>6
<1>2. CASE ~i.group
    <2>1. Leaves(kids, i) = {i}  BY <1>2 DEF Leaves
    <2>2. Hit(i, i, m) <=> SimAccepts(Meaning(i.match), m)  BY <1>2 DEF Hit, Tested
    <2>3. a \in ItemWinners(kids, i, m) <=> SimAccepts(Meaning(i.match), m) /\ a = i
        BY <1>2 DEF ItemWinners
    <2>4. ~Before(i, i)
        <3>1. i.id \in Nat /\ i.priority \in Nat  BY DEF Tidy, Ids
        <3>. QED  BY <3>1, LexOrder
    <2>. QED  BY <2>1, <2>2, <2>3, <2>4
<1>. QED  BY <1>1, <1>2

(* It goes on to the next item if every leaf of this one that matches says *)
(* so.                                                                     *)
LEMMA GoesOnReads ==
    ASSUME NEW top, NEW kids, Tidy(top, kids), Disciplined(top, kids), NEW m \in Mails,
           NEW i \in top
    PROVE  GoesOn(kids, i, m) <=>
           \A e \in Leaves(kids, i) : Hit(i, e, m) => GoOn(kids, i, e)
<1>. DEFINE W == ItemWinners(kids, i, m)
<1>0. Publishable(top, kids) /\ OnlyLastGoesOn(top, kids) /\ Narrows(top, kids)
    BY DEF Disciplined
<1>1. \A a : a \in W <=>
           /\ a \in Leaves(kids, i)
           /\ Hit(i, a, m)
           /\ \A e \in Leaves(kids, i) : Hit(i, e, m) /\ Before(e, a) => GoOn(kids, i, e)
    BY <1>0, WinsInItem
<1>2. \A a, b \in Leaves(kids, i) :
          /\ a.id \in Nat /\ a.priority \in Nat
          /\ a.id = b.id => a = b
    BY LeafIsRow DEF Tidy, Ids
<1>3. CASE i.group
    <2>0. Leaves(kids, i) = Of(kids, i) /\ i \in Groups(top)
        BY <1>3 DEF Leaves, Groups
    <2>1. \A e : GoOn(kids, i, e) <=> Continues(kids, i, e)  BY <1>3, Zenon DEF GoOn
    <2>2. GoesOn(kids, i, m) <=>
             (W # {} => \E c \in W : IsLast(kids, i, c) /\ Continues(kids, i, c))
        BY <1>3 DEF GoesOn
    <2>3. ASSUME GoesOn(kids, i, m), NEW e \in Leaves(kids, i), Hit(i, e, m)
          PROVE  GoOn(kids, i, e)
        <3>. DEFINE H == {a \in Leaves(kids, i) : Hit(i, a, m)}
        <3>1. PICK h \in H : \A k \in H : k = h \/ Before(h, k)
            <4>1. H # {}  BY <2>3
            <4>2. \A a \in H : a.priority \in Nat /\ a.id \in Nat  BY <1>2
            <4>3. \A a, b \in H : a.id = b.id => a = b  BY <1>2
            <4>. HIDE DEF H
            <4>. QED  BY <4>1, <4>2, <4>3, FirstRow
        <3>2. h \in W
            <4>1. \A k \in H : ~Before(k, h)  BY <3>1, <1>2, LexOrder
            <4>. QED  BY <4>1, <1>1
        <3>3. PICK c \in W : IsLast(kids, i, c) /\ Continues(kids, i, c)
            BY <3>2, <2>2, <2>3
        <3>4. e = c \/ Before(e, c)  BY <3>3, <2>0 DEF IsLast
        <3>5. Before(e, c) => GoOn(kids, i, e)  BY <1>1, <2>3
        <3>. QED  BY <3>3, <3>4, <3>5, <2>1
    <2>4. ASSUME \A e \in Leaves(kids, i) : Hit(i, e, m) => GoOn(kids, i, e)
          PROVE  GoesOn(kids, i, m)
        <3>1. ASSUME NEW c \in W PROVE IsLast(kids, i, c) /\ Continues(kids, i, c)
            <4>1. c \in Of(kids, i) /\ Continues(kids, i, c)
                BY <1>1, <2>0, <2>1, <2>4
            <4>. QED  BY <4>1, <2>0, <1>0 DEF OnlyLastGoesOn
        <3>. QED  BY <3>1, <2>2
    <2>. QED  BY <2>3, <2>4
<1>4. CASE ~i.group
    <2>1. Leaves(kids, i) = {i}  BY <1>4 DEF Leaves
    <2>2. GoOn(kids, i, i) <=> i.continue  BY <1>4, Zenon DEF GoOn
    <2>3. GoesOn(kids, i, m) <=> (W # {} => i.continue)  BY <1>4 DEF GoesOn
    <2>4. W # {} <=> Hit(i, i, m)
        <3>1. ~Before(i, i)  BY <2>1, <1>2, LexOrder
        <3>. QED  BY <1>1, <2>1, <3>1
    <2>. QED  BY <2>1, <2>2, <2>3, <2>4
<1>. QED  BY <1>3, <1>4

(* What the listener takes, leaf by leaf. *)
LEMMA ListenerReads ==
    ASSUME NEW top, NEW kids, Simulated(top, kids), NEW m \in Mails, NEW x
    PROVE  x \in ListenerWinners(Flat(top, kids), m) <=>
           \E i \in top : \E a \in Leaves(kids, i) :
               /\ x = a.id
               /\ Hit(i, a, m)
               /\ \A j \in top : \A e \in Leaves(kids, j) :
                      Hit(j, e, m) /\ Before(e, a) => GoOn(kids, j, e)
<1>. DEFINE Hits == {r \in Flat(top, kids) : Accepts(r.match, m)}
<1>1. x \in ListenerWinners(Flat(top, kids), m) <=>
        \E h \in Hits : x = h.id /\ \A e \in Hits : Before(e, h) => e.continue
    BY Zenon DEF ListenerWinners
<1>2. ASSUME NEW i \in top, NEW a \in Leaves(kids, i), NEW j \in top, NEW e \in Leaves(kids, j)
      PROVE  Before(Emitted(kids, j, e), Emitted(kids, i, a)) <=> Before(e, a)
    BY EmittedFields DEF Before
<1>3. ASSUME NEW i \in top, NEW a \in Leaves(kids, i)
      PROVE  Emitted(kids, i, a) \in Hits <=> Hit(i, a, m)
    BY EmittedFields, FlatLeaves, TestedAlike
<1>4. ASSUME NEW h \in Hits
      PROVE  \E i \in top : \E a \in Leaves(kids, i) : h = Emitted(kids, i, a) /\ Hit(i, a, m)
    BY FlatLeaves, <1>3
<1>. HIDE DEF Hits
<1>5. ASSUME NEW h \in Hits, x = h.id, \A e \in Hits : Before(e, h) => e.continue
      PROVE  \E i \in top : \E a \in Leaves(kids, i) :
               /\ x = a.id
               /\ Hit(i, a, m)
               /\ \A j \in top : \A e \in Leaves(kids, j) :
                      Hit(j, e, m) /\ Before(e, a) => GoOn(kids, j, e)
    <2>1. PICK i \in top : \E a \in Leaves(kids, i) : h = Emitted(kids, i, a) /\ Hit(i, a, m)
        BY <1>4
    <2>0. PICK a \in Leaves(kids, i) : h = Emitted(kids, i, a) /\ Hit(i, a, m)
        BY <2>1
    <2>2. x = a.id  BY <1>5, <2>0, EmittedFields
    <2>3. ASSUME NEW j \in top, NEW e \in Leaves(kids, j), Hit(j, e, m), Before(e, a)
          PROVE  GoOn(kids, j, e)
        <3>1. Emitted(kids, j, e) \in Hits  BY <1>3, <2>3
        <3>2. Before(Emitted(kids, j, e), h)  BY <1>2, <2>0, <2>3
        <3>3. Emitted(kids, j, e).continue = GoOn(kids, j, e)  BY EmittedFields
        <3>. QED  BY <1>5, <3>1, <3>2, <3>3
    <2>. QED  BY <2>0, <2>2, <2>3
<1>6. ASSUME NEW i \in top, NEW a \in Leaves(kids, i), x = a.id, Hit(i, a, m),
             \A j \in top : \A e \in Leaves(kids, j) :
                 Hit(j, e, m) /\ Before(e, a) => GoOn(kids, j, e)
      PROVE  \E h \in Hits : x = h.id /\ \A e \in Hits : Before(e, h) => e.continue
    <2>1. Emitted(kids, i, a) \in Hits  BY <1>3, <1>6
    <2>2. x = Emitted(kids, i, a).id  BY <1>6, EmittedFields
    <2>3. ASSUME NEW r \in Hits, Before(r, Emitted(kids, i, a))
          PROVE  r.continue
        <3>1. PICK j \in top : \E e \in Leaves(kids, j) : r = Emitted(kids, j, e) /\ Hit(j, e, m)
            BY <1>4
        <3>0. PICK e \in Leaves(kids, j) : r = Emitted(kids, j, e) /\ Hit(j, e, m)
            BY <3>1
        <3>2. Before(e, a)  BY <1>2, <2>3, <3>0
        <3>3. r.continue = GoOn(kids, j, e)  BY <3>0, EmittedFields
        <3>. QED  BY <1>6, <3>0, <3>2, <3>3
    <2>. QED  BY <2>1, <2>2, <2>3
<1>. QED  BY <1>1, <1>5, <1>6

(* The simulation page and the listener agree on every mail. *)
LEMMA ReadingsAgree ==
    ASSUME NEW top, NEW kids, Tidy(top, kids), Disciplined(top, kids), NEW m \in Mails
    PROVE  TreeWinners(top, kids, m) = ListenerWinners(Flat(top, kids), m)
<1>0. /\ Publishable(top, kids) /\ Contiguous(top, kids)
      /\ Simulated(top, kids) /\ Narrows(top, kids)
    BY DEF Disciplined
<1>1. ASSUME NEW x
      PROVE  x \in TreeWinners(top, kids, m) <=>
             \E i \in top : \E a \in Leaves(kids, i) :
               /\ x = a.id
               /\ a \in ItemWinners(kids, i, m)
               /\ \A j \in top : Before(j, i) => GoesOn(kids, j, m)
    <2>1. x \in TreeWinners(top, kids, m) <=>
          \E i \in top : \E a \in ItemWinners(kids, i, m) :
              x = a.id /\ \A j \in top : Before(j, i) => GoesOn(kids, j, m)
        BY Zenon DEF TreeWinners
    <2>2. \A i \in top : \A a \in ItemWinners(kids, i, m) : a \in Leaves(kids, i)
        BY <1>0, WinsInItem
    <2>. QED  BY <2>1, <2>2
<1>2. ASSUME NEW i \in top, NEW a \in Leaves(kids, i)
      PROVE  /\ a \in ItemWinners(kids, i, m)
             /\ \A j \in top : Before(j, i) => GoesOn(kids, j, m)
             <=>
             /\ Hit(i, a, m)
             /\ \A j \in top : \A e \in Leaves(kids, j) :
                    Hit(j, e, m) /\ Before(e, a) => GoOn(kids, j, e)
    <2>1. a \in ItemWinners(kids, i, m) <=>
             /\ Hit(i, a, m)
             /\ \A e \in Leaves(kids, i) : Hit(i, e, m) /\ Before(e, a) => GoOn(kids, i, e)
        BY <1>0, WinsInItem
    <2>2. \A j \in top : GoesOn(kids, j, m) <=>
             \A e \in Leaves(kids, j) : Hit(j, e, m) => GoOn(kids, j, e)
        BY GoesOnReads
    <2>3. \A j \in top : j # i => \A e \in Leaves(kids, j) : Before(e, a) <=> Before(j, i)
        BY <1>0, BlocksApart
    <2>4. ~Before(i, i)
        <3>1. i.id \in Nat /\ i.priority \in Nat  BY DEF Tidy, Ids
        <3>. QED  BY <3>1, LexOrder
    <2>. QED  BY <2>1, <2>2, <2>3, <2>4
<1>3. ASSUME NEW x
      PROVE  x \in TreeWinners(top, kids, m) <=> x \in ListenerWinners(Flat(top, kids), m)
    BY <1>0, <1>1, <1>2, ListenerReads
<1>4. TreeWinners(top, kids, m) \subseteq ListenerWinners(Flat(top, kids), m)  BY <1>3
<1>5. ListenerWinners(Flat(top, kids), m) \subseteq TreeWinners(top, kids, m)  BY <1>3
<1>. QED  BY <1>4, <1>5
-----------------------------------------------------------------------------
(* The table keeps its shape: a row has its own id, and its parent exists. *)

Linked(t, n) ==
    \A r \in Ids :
        IF t[r].exists
        THEN /\ t[r].id = r /\ r <= n
             /\ t[r].parent # 0 => t[t[r].parent].exists
        ELSE t[r] = NoRule

LEMMA TypeParts ==
    TreeTypeOK <=> /\ rules \in [Ids -> RuleRow]
                   /\ lastRule \in 0..MaxRules
                   /\ cluster \in [group : Ids \cup {0}, left : SUBSET Ids]
                   /\ edits \in 0..MaxEdits
                   /\ Linked(rules, lastRule)
BY DEF TreeTypeOK, Linked

LEMMA TypeNext ==
    TreeTypeOK' <=> /\ rules' \in [Ids -> RuleRow]
                    /\ lastRule' \in 0..MaxRules
                    /\ cluster' \in [group : Ids \cup {0}, left : SUBSET Ids]
                    /\ edits' \in 0..MaxEdits
                    /\ Linked(rules', lastRule')
BY DEF TreeTypeOK, Linked

LEMMA EmptyRow == NoFilter \in Filters /\ NoRule \in RuleRow /\ ~NoRule.exists /\ NoRule.parent = 0
<1>1. NoFilter \in Filters  BY RuleBounds DEF NoFilter, Filters
<1>. QED  BY <1>1 DEF NoRule, RuleRow

LEMMA FormFields ==
    ASSUME NEW form \in Forms
    PROVE  /\ form.match \in Filters /\ form.priority \in Nat
           /\ form.enabled \in BOOLEAN /\ form.continue \in BOOLEAN
           /\ form.exclusive \in BOOLEAN /\ form.inGroup \in BOOLEAN
           /\ form.exitGroup \in BOOLEAN
BY RuleBounds

(* One row is written. *)
LEMMA PutKeeps ==
    ASSUME TreeTypeOK, NEW row \in RuleRow, row.exists, row.id \in Ids,
           row.id <= lastRule + 1, row.parent # 0 => rules[row.parent].exists, Put(row)
    PROVE  /\ rules' \in [Ids -> RuleRow]
           /\ lastRule' \in 0..MaxRules
           /\ Linked(rules', lastRule')
<1>1. /\ rules \in [Ids -> RuleRow] /\ lastRule \in 0..MaxRules /\ Linked(rules, lastRule)
    BY TypeParts
<1>2. /\ rules' = [rules EXCEPT ![row.id] = row]
      /\ lastRule' = IF row.id > lastRule THEN row.id ELSE lastRule
    BY DEF Put
<1>3. MaxRules \in Nat  BY RuleBounds
<1>4. rules' \in [Ids -> RuleRow] /\ lastRule' \in 0..MaxRules
    BY <1>1, <1>2, <1>3 DEF Ids
<1>5. lastRule <= lastRule' /\ row.id <= lastRule'  BY <1>1, <1>2, <1>3 DEF Ids
<1>6. \A r \in Ids : rules'[r] = IF r = row.id THEN row ELSE rules[r]  BY <1>1, <1>2
<1>7. ASSUME NEW r \in Ids
      PROVE  IF rules'[r].exists
             THEN /\ rules'[r].id = r /\ r <= lastRule'
                  /\ rules'[r].parent # 0 => rules'[rules'[r].parent].exists
             ELSE rules'[r] = NoRule
    <2>1. rules'[r].parent \in Ids \cup {0}
        <3>1. rules'[r] \in RuleRow  BY <1>4
        <3>. QED  BY <3>1 DEF RuleRow
    <2>2. CASE r = row.id
        BY <1>5, <1>6, <2>1, <2>2
    <2>3. CASE r # row.id
        <3>1. rules'[r] = rules[r]  BY <1>6, <2>3
        <3>2. CASE rules[r].exists
            <4>1. /\ rules[r].id = r /\ r <= lastRule
                  /\ rules[r].parent # 0 => rules[rules[r].parent].exists
                BY <1>1, <3>2 DEF Linked
            <4>2. r <= lastRule'  BY <4>1, <1>1, <1>4, <1>5 DEF Ids
            <4>. QED  BY <1>6, <2>1, <3>1, <3>2, <4>1, <4>2
        <3>3. CASE ~rules[r].exists
            BY <1>1, <3>1, <3>3 DEF Linked
        <3>. QED  BY <3>2, <3>3
    <2>. QED  BY <2>2, <2>3
<1>. QED  BY <1>4, <1>7 DEF Linked

LEMMA EditKeeps ==
    ASSUME TreeTypeOK, Edit
    PROVE  edits' \in 0..MaxEdits
BY TypeParts, RuleBounds DEF Edit

LEMMA SaveOrphanKeeps ==
    ASSUME TreeTypeOK, NEW r \in Ids, NEW form \in Forms, SaveOrphan(r, form)
    PROVE  TreeTypeOK'
<1>1. OrphanRow(r, form) \in RuleRow
    BY FormFields DEF OrphanRow, RuleRow
<1>2. /\ OrphanRow(r, form).exists /\ OrphanRow(r, form).id = r
      /\ OrphanRow(r, form).parent = 0
    BY DEF OrphanRow
<1>3. r <= lastRule + 1
    BY TypeParts DEF SaveOrphan, Stored, IsNew, Linked, Ids
<1>4. Put(OrphanRow(r, form)) /\ Edit /\ cluster' = cluster  BY DEF SaveOrphan
<1>5. /\ rules' \in [Ids -> RuleRow] /\ lastRule' \in 0..MaxRules
      /\ Linked(rules', lastRule')
    BY <1>1, <1>2, <1>3, <1>4, PutKeeps
<1>. QED  BY <1>4, <1>5, EditKeeps, TypeParts, TypeNext

LEMMA SaveSuggestionKeeps ==
    ASSUME TreeTypeOK, NEW form \in Forms, SaveSuggestion(form)
    PROVE  TreeTypeOK'
<1>. DEFINE row == Suggested(form)
<1>1. lastRule \in 0..MaxRules /\ lastRule + 1 \in Ids
    BY TypeParts DEF SaveSuggestion, IsNew
<1>2. row \in RuleRow
    BY <1>1, FormFields DEF Suggested, OrphanRow, RuleRow
<1>3. row.exists /\ row.id = lastRule + 1 /\ row.parent = 0
    BY DEF Suggested, OrphanRow
<1>4. Put(row) /\ Edit /\ cluster' = cluster  BY DEF SaveSuggestion
<1>. HIDE DEF row
<1>5. lastRule + 1 <= lastRule + 1  BY <1>1
<1>6. /\ rules' \in [Ids -> RuleRow] /\ lastRule' \in 0..MaxRules
      /\ Linked(rules', lastRule')
    BY <1>1, <1>2, <1>3, <1>4, <1>5, PutKeeps
<1>. QED  BY <1>4, <1>6, EditKeeps, TypeParts, TypeNext

LEMMA SaveGroupKeeps ==
    ASSUME TreeTypeOK, NEW r \in Ids, NEW form \in Forms, SaveGroup(r, form)
    PROVE  TreeTypeOK'
<1>1. GroupRow(r, form) \in RuleRow
    BY FormFields DEF GroupRow, RuleRow
<1>2. /\ GroupRow(r, form).exists /\ GroupRow(r, form).id = r
      /\ GroupRow(r, form).parent = 0
    BY DEF GroupRow
<1>3. r <= lastRule + 1
    BY TypeParts DEF SaveGroup, Stored, IsNew, Linked, Ids
<1>4. Put(GroupRow(r, form)) /\ Edit /\ cluster' = cluster  BY DEF SaveGroup
<1>5. /\ rules' \in [Ids -> RuleRow] /\ lastRule' \in 0..MaxRules
      /\ Linked(rules', lastRule')
    BY <1>1, <1>2, <1>3, <1>4, PutKeeps
<1>. QED  BY <1>4, <1>5, EditKeeps, TypeParts, TypeNext

LEMMA SaveChildKeeps ==
    ASSUME TreeTypeOK, NEW r \in Ids, NEW g \in Ids, NEW form \in Forms, SaveChild(r, g, form)
    PROVE  TreeTypeOK'
<1>1. ChildRow(r, g, form) \in RuleRow
    BY FormFields DEF ChildRow, RuleRow
<1>2. /\ ChildRow(r, g, form).exists /\ ChildRow(r, g, form).id = r
      /\ ChildRow(r, g, form).parent = g
    BY DEF ChildRow
<1>3. r <= lastRule + 1
    BY TypeParts DEF SaveChild, Stored, IsNew, Linked, Ids
<1>4. /\ Put(ChildRow(r, g, form)) /\ Edit /\ cluster' = cluster
      /\ rules[g].exists
    BY DEF SaveChild, Stored
<1>5. /\ rules' \in [Ids -> RuleRow] /\ lastRule' \in 0..MaxRules
      /\ Linked(rules', lastRule')
    BY <1>1, <1>2, <1>3, <1>4, PutKeeps
<1>. QED  BY <1>4, <1>5, EditKeeps, TypeParts, TypeNext

(* What hangs below a rule hangs below its parent. *)
LEMMA CascadeCloses ==
    ASSUME NEW r \in Ids, NEW s \in Ids, rules[s].parent \in Below(r)
    PROVE  s \in Below(r)
<1>1. \A S \in SUBSET Ids :
          r \in S /\ (\A k \in Ids : rules[k].parent \in S => k \in S) => s \in S
    BY DEF Below
<1>. QED  BY <1>1 DEF Below

LEMMA DeleteKeeps ==
    ASSUME TreeTypeOK, NEW r \in Ids, Delete(r)
    PROVE  TreeTypeOK'
<1>1. /\ rules \in [Ids -> RuleRow] /\ lastRule \in 0..MaxRules /\ Linked(rules, lastRule)
    BY TypeParts
<1>2. /\ rules' = [s \in Ids |-> IF s \in Below(r) THEN NoRule ELSE rules[s]]
      /\ Edit /\ lastRule' = lastRule /\ cluster' = cluster
    BY DEF Delete
<1>3. rules' \in [Ids -> RuleRow]  BY <1>1, <1>2, EmptyRow
<1>4. ASSUME NEW s \in Ids
      PROVE  IF rules'[s].exists
             THEN /\ rules'[s].id = s /\ s <= lastRule'
                  /\ rules'[s].parent # 0 => rules'[rules'[s].parent].exists
             ELSE rules'[s] = NoRule
    <2>1. CASE s \in Below(r)
        BY <1>2, <2>1, EmptyRow
    <2>2. CASE s \notin Below(r)
        <3>1. rules'[s] = rules[s]  BY <1>2, <2>2
        <3>2. rules[s].parent \notin Below(r)  BY <2>2, CascadeCloses
        <3>3. rules[s].parent \in Ids \cup {0}
            <4>1. rules[s] \in RuleRow  BY <1>1
            <4>. QED  BY <4>1 DEF RuleRow
        <3>4. rules[s].parent # 0 => rules'[rules[s].parent] = rules[rules[s].parent]
            BY <1>2, <3>2, <3>3
        <3>. QED  BY <1>1, <1>2, <3>1, <3>4 DEF Linked
    <2>. QED  BY <2>1, <2>2
<1>5. Linked(rules', lastRule')  BY <1>4 DEF Linked
<1>. QED  BY <1>1, <1>2, <1>3, <1>5, EditKeeps, TypeParts, TypeNext

LEMMA ToggleKeeps ==
    ASSUME TreeTypeOK, NEW r \in Ids, Toggle(r)
    PROVE  TreeTypeOK'
<1>1. /\ rules \in [Ids -> RuleRow] /\ lastRule \in 0..MaxRules /\ Linked(rules, lastRule)
    BY TypeParts
<1>2. /\ rules' = [rules EXCEPT ![r].enabled = ~@]
      /\ Edit /\ lastRule' = lastRule /\ cluster' = cluster /\ rules[r].exists
    BY DEF Toggle, Stored
<1>3. \A s \in Ids : rules[s] \in RuleRow  BY <1>1
<1>4. [rules[r] EXCEPT !.enabled = ~@] \in RuleRow
    BY <1>3 DEF RuleRow
<1>5. rules' = [rules EXCEPT ![r] = [rules[r] EXCEPT !.enabled = ~@]]
    BY <1>1, <1>2
<1>6. rules' \in [Ids -> RuleRow]  BY <1>1, <1>4, <1>5
<1>7. ASSUME NEW s \in Ids
      PROVE  /\ rules'[s].exists = rules[s].exists /\ rules'[s].id = rules[s].id
             /\ rules'[s].parent = rules[s].parent
             /\ s # r => rules'[s] = rules[s]
    BY <1>1, <1>3, <1>5 DEF RuleRow
<1>8. \A s \in Ids : rules[s].parent \in Ids \cup {0}  BY <1>3 DEF RuleRow
<1>9. Linked(rules', lastRule')  BY <1>1, <1>2, <1>7, <1>8 DEF Linked
<1>. QED  BY <1>1, <1>2, <1>6, <1>9, EditKeeps, TypeParts, TypeNext

(* The highest priority of the first n ids exists, for every n. *)
LEMMA HighestExists ==
    ASSUME NEW f \in [Ids -> Nat]
    PROVE  \E p \in {0} \cup {f[r] : r \in Ids} : \A r \in Ids : f[r] <= p
<1>0. MaxRules \in Nat  BY RuleBounds
<1>. DEFINE Reached(n) == \E p \in {0} \cup {f[r] : r \in Ids} : \A r \in Ids : r <= n => f[r] <= p
            Missed == {n \in 0..MaxRules : ~Reached(n)}
<1>1. ASSUME Missed # {} PROVE FALSE
    <2>1. Missed \in SUBSET Nat  BY <1>0
    <2>2. PICK n \in Missed : \A k \in Missed : n <= k
        <3>. HIDE DEF Missed
        <3>. QED  BY <1>1, <2>1, SmallestNat
    <2>3. n \in 0..MaxRules /\ ~Reached(n)  OBVIOUS
    <2>4. CASE n = 0
        <3>1. \A r \in Ids : ~(r <= 0)  BY DEF Ids
        <3>2. Reached(0)  BY <3>1
        <3>. QED  BY <2>3, <2>4, <3>2
    <2>5. CASE n # 0
        <3>1. n - 1 \in 0..MaxRules /\ ~(n <= n - 1) /\ n \in Ids  BY <1>0, <2>3, <2>5 DEF Ids
        <3>2. Reached(n - 1)  BY <2>2, <3>1
        <3>3. PICK p \in {0} \cup {f[r] : r \in Ids} : \A r \in Ids : r <= n - 1 => f[r] <= p
            BY <3>2
        <3>4. p \in Nat /\ f[n] \in Nat  BY <3>1
        <3>5. \A r \in Ids : r <= n => r = n \/ r <= n - 1  BY <2>3 DEF Ids
        <3>6. CASE f[n] <= p
            <4>1. \A r \in Ids : r <= n => f[r] <= p  BY <3>3, <3>5, <3>6
            <4>. QED  BY <2>3, <4>1
        <3>7. CASE ~(f[n] <= p)
            <4>1. \A r \in Ids : r <= n => f[r] <= f[n]
                <5>1. \A r \in Ids : f[r] \in Nat  OBVIOUS
                <5>. QED  BY <3>3, <3>4, <3>5, <3>7, <5>1
            <4>2. f[n] \in {0} \cup {f[r] : r \in Ids}  BY <3>1
            <4>. QED  BY <2>3, <4>1, <4>2
        <3>. QED  BY <3>6, <3>7
    <2>. QED  BY <2>4, <2>5
<1>2. Reached(MaxRules)
    <2>1. MaxRules \in 0..MaxRules  BY <1>0
    <2>2. MaxRules \notin Missed  BY <1>1
    <2>. QED  BY <2>1, <2>2
<1>. QED  BY <1>0, <1>2 DEF Ids

LEMMA HighestType ==
    ASSUME TreeTypeOK
    PROVE  Highest \in Nat
<1>1. \A r \in Ids : rules[r].priority \in Nat
    <2>1. \A r \in Ids : rules[r] \in RuleRow  BY TypeParts
    <2>. QED  BY <2>1 DEF RuleRow
<1>. DEFINE f == [r \in Ids |-> rules[r].priority]
            C == {0} \cup {rules[r].priority : r \in Ids}
<1>2. f \in [Ids -> Nat]  BY <1>1
<1>3. \E p \in {0} \cup {f[r] : r \in Ids} : \A r \in Ids : f[r] <= p
    <2>. HIDE DEF f
    <2>. QED  BY <1>2, HighestExists
<1>4. \E p \in C : \A r \in Ids : rules[r].priority <= p  BY <1>3
<1>5. Highest \in C  BY <1>4, Zenon DEF Highest
<1>. QED  BY <1>1, <1>5

LEMMA DuplicateKeeps ==
    ASSUME TreeTypeOK, NEW r \in Ids, Duplicate(r)
    PROVE  TreeTypeOK'
<1>. DEFINE row == [rules[r] EXCEPT !.id = lastRule + 1, !.priority = Highest + Gap]
<1>1. lastRule \in 0..MaxRules /\ lastRule + 1 \in Ids
    BY TypeParts DEF Duplicate, IsNew
<1>2. rules[r] \in RuleRow  BY TypeParts
<1>3. Highest + Gap \in Nat  BY HighestType, RuleBounds
<1>4. row \in RuleRow  BY <1>1, <1>2, <1>3 DEF RuleRow
<1>5. row.exists /\ row.id = lastRule + 1 /\ (row.parent # 0 => rules[row.parent].exists)
    <2>1. rules[r].exists  BY DEF Duplicate, Stored
    <2>2. rules[r].parent # 0 => rules[rules[r].parent].exists  BY <2>1, TypeParts DEF Linked
    <2>. QED  BY <1>2, <2>1, <2>2 DEF RuleRow
<1>6. Put(row) /\ Edit /\ cluster' = cluster  BY DEF Duplicate
<1>. HIDE DEF row
<1>7. lastRule + 1 <= lastRule + 1  BY <1>1
<1>8. /\ rules' \in [Ids -> RuleRow] /\ lastRule' \in 0..MaxRules
      /\ Linked(rules', lastRule')
    BY <1>1, <1>4, <1>5, <1>6, <1>7, PutKeeps
<1>. QED  BY <1>6, <1>8, EditKeeps, TypeParts, TypeNext

LEMMA PromotedGroupType ==
    ASSUME TreeTypeOK, NEW r \in Ids, Stored(r), rules[r].parent = 0, lastRule + 1 \in Ids
    PROVE  /\ PromotedGroup(r) \in RuleRow
           /\ PromotedGroup(r).exists /\ PromotedGroup(r).id = lastRule + 1
           /\ PromotedGroup(r).parent = 0
<1>1. rules[r] \in RuleRow  BY TypeParts
<1>2. rules[r].exists  BY DEF Stored
<1>. DEFINE prio == IF rules[r].priority > 1 THEN rules[r].priority - 1 ELSE 1
            filter == [f \in Fields |-> IF f \in OverrideFields THEN Blank ELSE rules[r].match[f]]
<1>3. prio \in Nat
    <2>1. rules[r].priority \in Nat  BY <1>1 DEF RuleRow
    <2>. QED  BY <2>1
<1>4. filter \in Filters
    <2>1. rules[r].match \in Filters  BY <1>1 DEF RuleRow
    <2>. QED  BY <2>1, RuleBounds DEF Filters
<1>5. PromotedGroup(r) =
          [rules[r] EXCEPT
             !.id = lastRule + 1, !.group = TRUE, !.enabled = TRUE, !.continue = FALSE,
             !.priority = prio, !.exclusive = TRUE, !.inGroup = FALSE, !.exitGroup = FALSE,
             !.match = filter]
    BY DEF PromotedGroup
<1>. HIDE DEF prio, filter
<1>6. PICK old \in RuleRow : old = rules[r]  BY <1>1
<1>7. PromotedGroup(r) =
          [exists |-> old.exists, id |-> lastRule + 1, parent |-> old.parent, group |-> TRUE,
           priority |-> prio, enabled |-> TRUE, continue |-> FALSE, exclusive |-> TRUE,
           inGroup |-> FALSE, exitGroup |-> FALSE, match |-> filter]
    BY <1>5, <1>6 DEF RuleRow
<1>8. old.exists /\ old.parent = 0  BY <1>2, <1>6
<1>. QED  BY <1>3, <1>4, <1>7, <1>8 DEF RuleRow

LEMMA PromotionKeeps ==
    ASSUME TreeTypeOK, NEW r \in Ids, Promotion(r)
    PROVE  /\ rules' \in [Ids -> RuleRow]
           /\ lastRule' \in 0..MaxRules
           /\ Linked(rules', lastRule')
           /\ edits' \in 0..MaxEdits
           /\ lastRule + 1 \in Ids
<1>1. /\ rules \in [Ids -> RuleRow] /\ lastRule \in 0..MaxRules /\ Linked(rules, lastRule)
    BY TypeParts
<1>2. /\ Edit /\ Stored(r) /\ rules[r].parent = 0 /\ lastRule + 1 \in Ids
      /\ rules' = [rules EXCEPT ![lastRule + 1] = PromotedGroup(r), ![r].parent = lastRule + 1]
      /\ lastRule' = lastRule + 1
    BY DEF Promotion, IsNew
<1>3. rules[r].exists /\ r <= lastRule /\ r # lastRule + 1
    BY <1>1, <1>2 DEF Stored, Linked, Ids
<1>4. /\ PromotedGroup(r) \in RuleRow
      /\ PromotedGroup(r).exists /\ PromotedGroup(r).id = lastRule + 1
      /\ PromotedGroup(r).parent = 0
    BY <1>2, PromotedGroupType
<1>. DEFINE moved == [rules[r] EXCEPT !.parent = lastRule + 1]
<1>5. \A s \in Ids : rules[s] \in RuleRow /\ rules[s].parent \in Ids \cup {0}
    BY <1>1 DEF RuleRow
<1>6. /\ moved \in RuleRow /\ moved.exists /\ moved.id = rules[r].id
      /\ moved.parent = lastRule + 1
    BY <1>2, <1>3, <1>5 DEF RuleRow
<1>7. \A s \in Ids : rules'[s] = IF s = r THEN moved
                                ELSE IF s = lastRule + 1 THEN PromotedGroup(r) ELSE rules[s]
    BY <1>1, <1>2, <1>3
<1>8. rules' \in [Ids -> RuleRow]
    <2>1. rules' = [s \in Ids |-> rules'[s]]  BY <1>1, <1>2
    <2>2. \A s \in Ids : rules'[s] \in RuleRow  BY <1>4, <1>5, <1>6, <1>7
    <2>. QED  BY <2>1, <2>2
<1>. HIDE DEF moved
<1>9. Linked(rules', lastRule')
    <2>1. ASSUME NEW s \in Ids
          PROVE  IF rules'[s].exists
                 THEN /\ rules'[s].id = s /\ s <= lastRule'
                      /\ rules'[s].parent # 0 => rules'[rules'[s].parent].exists
                 ELSE rules'[s] = NoRule
        <3>1. CASE s = r
            <4>1. rules[r].id = r  BY <1>1, <1>3 DEF Linked
            <4>2. rules'[s] = moved  BY <1>7, <3>1
            <4>3. rules'[lastRule + 1] = PromotedGroup(r)  BY <1>2, <1>3, <1>7
            <4>4. s <= lastRule'  BY <1>1, <1>2, <1>3, <3>1 DEF Ids
            <4>. QED  BY <1>4, <1>6, <3>1, <4>1, <4>2, <4>3, <4>4
        <3>2. CASE s # r /\ s = lastRule + 1
            <4>1. rules'[s] = PromotedGroup(r)  BY <1>7, <3>2
            <4>2. s <= lastRule'  BY <1>1, <1>2, <3>2
            <4>. QED  BY <1>4, <3>2, <4>1, <4>2
        <3>3. CASE s # r /\ s # lastRule + 1
            <4>1. rules'[s] = rules[s]  BY <1>7, <3>3
            <4>2. CASE rules[s].exists
                <5>1. /\ rules[s].id = s /\ s <= lastRule
                      /\ rules[s].parent # 0 => rules[rules[s].parent].exists
                    BY <1>1, <4>2 DEF Linked
                <5>2. s <= lastRule'  BY <1>1, <1>2, <5>1 DEF Ids
                <5>3. rules[s].parent # 0 => rules'[rules[s].parent].exists
                    BY <1>4, <1>5, <1>6, <1>7, <5>1
                <5>. QED  BY <4>1, <4>2, <5>1, <5>2, <5>3
            <4>3. CASE ~rules[s].exists
                BY <1>1, <4>1, <4>3 DEF Linked
            <4>. QED  BY <4>2, <4>3
        <3>. QED  BY <3>1, <3>2, <3>3
    <2>. QED  BY <2>1 DEF Linked
<1>10. lastRule' \in 0..MaxRules  BY <1>1, <1>2, RuleBounds DEF Ids
<1>. QED  BY <1>2, <1>8, <1>9, <1>10, EditKeeps

LEMMA PromoteKeeps ==
    ASSUME TreeTypeOK, NEW r \in Ids, Promote(r)
    PROVE  TreeTypeOK'
BY PromotionKeeps, TypeParts, TypeNext DEF Promote

LEMMA PromoteClusterKeeps ==
    ASSUME TreeTypeOK, NEW r \in Ids, PromoteCluster(r)
    PROVE  TreeTypeOK'
<1>1. Promotion(r) /\ cluster' = [group |-> lastRule + 1, left |-> Alike(r) \ {r}]
    BY DEF PromoteCluster
<1>2. Alike(r) \subseteq Ids  BY DEF Alike
<1>3. lastRule + 1 \in Ids  BY <1>1, PromotionKeeps
<1>4. cluster' \in [group : Ids \cup {0}, left : SUBSET Ids]  BY <1>1, <1>2, <1>3
<1>. QED  BY <1>1, <1>4, PromotionKeeps, TypeNext

LEMMA AttachKeeps ==
    ASSUME TreeTypeOK, NEW r \in Ids, Attach(r)
    PROVE  TreeTypeOK'
<1>1. /\ rules \in [Ids -> RuleRow] /\ lastRule \in 0..MaxRules /\ Linked(rules, lastRule)
      /\ cluster \in [group : Ids \cup {0}, left : SUBSET Ids]
    BY TypeParts
<1>2. Edit /\ lastRule' = lastRule  BY DEF Attach
<1>3. NoCluster \in [group : Ids \cup {0}, left : SUBSET Ids]  BY DEF NoCluster
<1>4. CASE Stored(r) /\ Stored(cluster.group)
    <2>1. /\ rules' = [rules EXCEPT ![r].parent = cluster.group]
          /\ cluster' = IF cluster.left = {r} THEN NoCluster
                        ELSE [cluster EXCEPT !.left = @ \ {r}]
        BY <1>4 DEF Attach
    <2>2. rules[r].exists /\ cluster.group \in Ids /\ rules[cluster.group].exists
        BY <1>4 DEF Stored
    <2>3. cluster' \in [group : Ids \cup {0}, left : SUBSET Ids]
        BY <1>1, <1>3, <2>1
    <2>4. \A s \in Ids : rules[s] \in RuleRow /\ rules[s].parent \in Ids \cup {0}
        BY <1>1 DEF RuleRow
    <2>. DEFINE moved == [rules[r] EXCEPT !.parent = cluster.group]
    <2>5. /\ moved \in RuleRow /\ moved.exists /\ moved.id = rules[r].id
          /\ moved.parent = cluster.group
        BY <2>2, <2>4 DEF RuleRow
    <2>6. rules' = [rules EXCEPT ![r] = moved]  BY <1>1, <2>1
    <2>. HIDE DEF moved
    <2>7. rules' \in [Ids -> RuleRow]  BY <1>1, <2>5, <2>6
    <2>8. \A s \in Ids : rules'[s] = IF s = r THEN moved ELSE rules[s]  BY <1>1, <2>6
    <2>9. Linked(rules', lastRule')
        BY <1>1, <1>2, <2>2, <2>4, <2>5, <2>8 DEF Linked
    <2>. QED  BY <1>1, <1>2, <2>3, <2>7, <2>9, EditKeeps, TypeNext
<1>5. CASE ~(Stored(r) /\ Stored(cluster.group))
    <2>1. cluster' = NoCluster /\ rules' = rules  BY <1>5 DEF Attach
    <2>. QED  BY <1>1, <1>2, <1>3, <2>1, EditKeeps, TypeNext
<1>. QED  BY <1>4, <1>5

LEMMA TableInit ==
    ASSUME TreeInit
    PROVE  TreeTypeOK
BY EmptyRow, RuleBounds DEF TreeInit, TreeTypeOK, NoCluster

LEMMA TableKept ==
    ASSUME TreeTypeOK, TreeNext
    PROVE  TreeTypeOK'
<1>1. CASE \E form \in Forms : SaveSuggestion(form)
    BY <1>1, SaveSuggestionKeeps
<1>2. ASSUME NEW r \in Ids, NEW form \in Forms, Save(r, form)
      PROVE  TreeTypeOK'
    BY <1>2, SaveOrphanKeeps, SaveGroupKeeps, SaveChildKeeps DEF Save
<1>3. ASSUME NEW r \in Ids,
             Delete(r) \/ Toggle(r) \/ Duplicate(r) \/ Promote(r) \/ PromoteCluster(r) \/ Attach(r)
      PROVE  TreeTypeOK'
    BY <1>3, DeleteKeeps, ToggleKeeps, DuplicateKeeps, PromoteKeeps, PromoteClusterKeeps, AttachKeeps
<1>. QED  BY <1>1, <1>2, <1>3 DEF TreeNext

(* The tree read at one instant is tidy. *)
LEMMA TableTidy ==
    ASSUME TreeTypeOK
    PROVE  Tidy(TopItems(rules), KidItems(rules))
<1>1. \A r \in Ids : rules[r] \in RuleRow /\ (rules[r].exists => rules[r].id = r)
    BY TypeParts DEF Linked
<1>2. \A a \in TopItems(rules) \cup KidItems(rules) :
          \E r \in Ids : a = rules[r] /\ rules[r].exists
    BY DEF TopItems, KidItems, KidsOf
<1>3. \A a \in TopItems(rules) : a.parent = 0
    BY DEF TopItems
<1>4. \A a \in TopItems(rules) \cup KidItems(rules) :
          a = rules[a.id] /\ a.id \in Ids /\ a \in RuleRow
    BY <1>1, <1>2
<1>5. \A a \in RuleRow : a.priority \in Nat /\ a.match \in Filters  BY DEF RuleRow
<1>6. \A a, b \in TopItems(rules) \cup KidItems(rules) : a.id = b.id => a = b
    BY <1>4
<1>. QED  BY <1>3, <1>4, <1>5, <1>6 DEF Tidy

LEMMA TableParity ==
    ASSUME TreeTypeOK
    PROVE  ParityUnderDiscipline
BY TableTidy, ReadingsAgree DEF ParityUnderDiscipline, Parity, Disciplined
-----------------------------------------------------------------------------
(* What a request has read is the table as it is, for the rules no edit    *)
(* touched since it began: the items it read first, then of each group it  *)
(* is done with all the children.                                          *)

Enabled(r) == rules[r].exists /\ rules[r].enabled
ReadTop ==
    /\ \A a \in pull.top : a.id \in Ids /\ a.parent = 0
    /\ \A a, b \in pull.top : a.id = b.id => a = b
    /\ \A a \in pull.top : a.id \notin touched => a = rules[a.id] /\ Enabled(a.id)
    /\ \A r \in Ids : r \notin touched /\ Enabled(r) /\ rules[r].parent = 0
            => rules[r] \in pull.top
ReadKids ==
    /\ \A c \in pull.kids : c.id \in Ids /\ c.parent \notin pull.todo
    /\ \A c \in pull.kids : c.id \notin touched => c = rules[c.id]
    /\ \A g \in Groups(pull.top) :
           g.id \notin touched /\ g.id \notin pull.todo
               => Of(pull.kids, g) = KidsOf(rules, g.id)
PullSound == pull.pc = "reading" => ReadTop /\ ReadKids
CacheSound ==
    /\ \A a, b \in cache : a.id = b.id => a = b
    /\ \A r \in cache : /\ r.id \in Ids /\ r.priority \in Nat
                         /\ r.match \in [Fields -> SUBSET Vals] /\ r.continue \in BOOLEAN
PullType ==
    pull \in [pc : {"idle", "reading"}, top : SUBSET RuleRow, kids : SUBSET RuleRow,
              todo : SUBSET Ids]
TouchedType == touched \subseteq Ids \cup {0}
SyncInv == TreeTypeOK /\ PullType /\ PullSound /\ CacheSound /\ TouchedType

LEMMA RowFacts ==
    ASSUME TreeTypeOK, NEW r \in Ids
    PROVE  /\ rules[r] \in RuleRow
           /\ rules[r].exists => rules[r].id = r
           /\ rules[r].parent \in Ids \cup {0}
<1>1. rules[r] \in RuleRow /\ (rules[r].exists => rules[r].id = r)
    BY TypeParts DEF Linked
<1>. QED  BY <1>1 DEF RuleRow

LEMMA ReadOf ==
    ASSUME TreeTypeOK, NEW a
    PROVE  /\ a \in TopItems(rules) <=>
                 \E r \in Ids : a = rules[r] /\ Enabled(r) /\ rules[r].parent = 0
           /\ \A g : a \in KidsOf(rules, g) <=>
                 \E r \in Ids : a = rules[r] /\ Enabled(r) /\ rules[r].parent = g
BY DEF TopItems, KidsOf, Enabled

LEMMA InvInit ==
    ASSUME RulesInit
    PROVE  SyncInv
BY TableInit DEF RulesInit, SyncInv, PullType, PullSound, CacheSound, TouchedType, PullIdle

(* An edit disturbs only what it touches. *)
LEMMA EditKeepsInv ==
    ASSUME SyncInv, EditRules
    PROVE  SyncInv'
<1>0. /\ TreeTypeOK /\ PullType /\ PullSound /\ CacheSound /\ TouchedType
      /\ cache' = cache /\ pull' = pull
      /\ touched' = IF pull.pc = "idle" THEN touched ELSE touched \cup Touch
      /\ TreeTypeOK'
    BY TableKept DEF SyncInv, EditRules
<1>1. \A r \in Ids : /\ rules[r].parent \in Ids \cup {0}
                     /\ rules'[r].parent \in Ids \cup {0}
    <2>1. rules \in [Ids -> RuleRow] /\ rules' \in [Ids -> RuleRow]
        BY <1>0, TypeParts, TypeNext
    <2>. QED  BY <2>1 DEF RuleRow
<1>2. TouchedType'
    <2>1. Touch \subseteq Ids \cup {0}  BY <1>1 DEF Touch, Changed
    <2>. QED  BY <1>0, <2>1 DEF TouchedType
<1>3. ASSUME pull.pc = "reading" PROVE ReadTop' /\ ReadKids'
    <2>1. ReadTop /\ ReadKids /\ touched' = touched \cup Touch
        BY <1>0, <1>3 DEF PullSound
    <2>2. \A r \in Ids : r \notin Touch => rules'[r] = rules[r]
        BY DEF Touch, Changed
    <2>3. \A r \in Ids : rules'[r] # rules[r] =>
              rules[r].parent \in Touch /\ rules'[r].parent \in Touch
        BY DEF Touch, Changed
    <2>4. \A r \in Ids : r \notin Touch => (Enabled(r)' <=> Enabled(r))
        BY <2>2 DEF Enabled
    <2>5. ReadTop'  BY <1>0, <2>1, <2>2, <2>4 DEF ReadTop
    <2>6. ASSUME NEW g, g \notin Touch PROVE KidsOf(rules', g) = KidsOf(rules, g)
        <3>1. \A r \in Ids : rules[r].parent = g \/ rules'[r].parent = g
                  => rules'[r] = rules[r]
            BY <2>3, <2>6
        <3>. QED  BY <3>1 DEF KidsOf
    <2>7. ReadKids'  BY <1>0, <2>1, <2>2, <2>6 DEF ReadKids
    <2>. QED  BY <2>5, <2>7
<1>4. PullSound'  BY <1>0, <1>3 DEF PullSound
<1>5. PullType' /\ CacheSound'  BY <1>0 DEF PullType, CacheSound
<1>. QED  BY <1>0, <1>2, <1>4, <1>5 DEF SyncInv

LEMMA PullTopKeepsInv ==
    ASSUME SyncInv, PullTop
    PROVE  SyncInv'
<1>0. /\ TreeTypeOK /\ CacheSound
      /\ rules' = rules /\ lastRule' = lastRule /\ cluster' = cluster /\ edits' = edits
      /\ cache' = cache /\ touched' = {}
      /\ pull' = [pc |-> "reading", top |-> TopItems(rules), kids |-> {},
                  todo |-> {g.id : g \in Groups(TopItems(rules))}]
    BY DEF SyncInv, PullTop, treeVars
<1>1. \A a \in TopItems(rules) :
          a \in RuleRow /\ a.id \in Ids /\ a.parent = 0 /\ a = rules[a.id] /\ Enabled(a.id)
    BY <1>0, ReadOf, RowFacts DEF Enabled
<1>2. \A r \in Ids : Enabled(r) /\ rules[r].parent = 0 => rules[r] \in TopItems(rules)
    BY <1>0, ReadOf
<1>3. \A g \in Groups(TopItems(rules)) : g \in TopItems(rules)  BY DEF Groups
<1>4. PullType'
    <2>1. {g.id : g \in Groups(TopItems(rules))} \in SUBSET Ids  BY <1>1, <1>3
    <2>2. TopItems(rules) \in SUBSET RuleRow  BY <1>1
    <2>. QED  BY <1>0, <2>1, <2>2 DEF PullType
<1>5. ReadTop'
    <2>1. pull'.top = TopItems(rules)  BY <1>0
    <2>2. \A r \in Ids : Enabled(r)' <=> Enabled(r)  BY <1>0 DEF Enabled
    <2>3. \A a, b \in pull'.top : a.id = b.id => a = b  BY <1>1, <2>1
    <2>. QED  BY <1>0, <1>1, <1>2, <2>1, <2>2, <2>3 DEF ReadTop
<1>6. ReadKids'
    <2>1. pull'.kids = {} /\ pull'.top = TopItems(rules)
          /\ pull'.todo = {g.id : g \in Groups(TopItems(rules))}
        BY <1>0
    <2>. QED  BY <2>1 DEF ReadKids
<1>7. TreeTypeOK' /\ CacheSound' /\ TouchedType'
    BY <1>0 DEF TreeTypeOK, CacheSound, TouchedType
<1>. QED  BY <1>4, <1>5, <1>6, <1>7 DEF SyncInv, PullSound

LEMMA PullKidsKeepsInv ==
    ASSUME SyncInv, NEW g \in Ids, PullKids(g)
    PROVE  SyncInv'
<1>0. /\ TreeTypeOK /\ PullType /\ PullSound /\ CacheSound /\ TouchedType
      /\ rules' = rules /\ lastRule' = lastRule /\ cluster' = cluster /\ edits' = edits
      /\ cache' = cache /\ touched' = touched /\ g \in pull.todo
      /\ pull' = [pull EXCEPT !.kids = @ \cup KidsOf(rules, g), !.todo = @ \ {g}]
    BY DEF SyncInv, PullKids, treeVars
<1>1. /\ pull'.pc = pull.pc /\ pull'.top = pull.top
      /\ pull'.kids = pull.kids \cup KidsOf(rules, g)
      /\ pull'.todo = pull.todo \ {g}
    BY <1>0 DEF PullType
<1>2. \A c \in KidsOf(rules, g) :
          c \in RuleRow /\ c.id \in Ids /\ c.parent = g /\ c = rules[c.id]
    BY <1>0, ReadOf, RowFacts DEF Enabled
<1>3. PullType'
    <2>1. KidsOf(rules, g) \in SUBSET RuleRow  BY <1>2
    <2>. QED  BY <1>0, <2>1 DEF PullType
<1>4. ASSUME pull.pc = "reading" PROVE ReadTop' /\ ReadKids'
    <2>1. ReadTop /\ ReadKids  BY <1>0, <1>4 DEF PullSound
    <2>2. \A r \in Ids : Enabled(r)' <=> Enabled(r)  BY <1>0 DEF Enabled
    <2>3. ReadTop'  BY <1>0, <1>1, <2>1, <2>2 DEF ReadTop
    <2>4. \A c \in pull'.kids : c.id \in Ids /\ c.parent \notin pull'.todo
        BY <1>1, <1>2, <2>1 DEF ReadKids
    <2>5. \A c \in pull'.kids : c.id \notin touched => c = rules[c.id]
        BY <1>1, <1>2, <2>1 DEF ReadKids
    <2>6. ASSUME NEW h \in Groups(pull.top), h.id \notin touched, h.id \notin pull'.todo
          PROVE  Of(pull'.kids, h) = KidsOf(rules, h.id)
        <3>1. CASE h.id = g
            <4>1. \A c \in pull.kids : c.parent # h.id
                BY <1>0, <2>1, <3>1 DEF ReadKids
            <4>. QED  BY <1>1, <1>2, <3>1, <4>1 DEF Of
        <3>2. CASE h.id # g
            <4>1. Of(pull.kids, h) = KidsOf(rules, h.id)
                BY <1>1, <2>1, <2>6, <3>2 DEF ReadKids
            <4>. QED  BY <1>1, <1>2, <3>2, <4>1 DEF Of
        <3>. QED  BY <3>1, <3>2
    <2>7. ReadKids'  BY <1>0, <1>1, <2>4, <2>5, <2>6 DEF ReadKids
    <2>. QED  BY <2>3, <2>7
<1>5. TreeTypeOK' /\ CacheSound' /\ TouchedType'
    BY <1>0 DEF TreeTypeOK, CacheSound, TouchedType
<1>. QED  BY <1>1, <1>3, <1>4, <1>5 DEF SyncInv, PullSound

(* The rows of an answer have distinct ids. *)
LEMMA InstalledSound ==
    ASSUME SyncInv, pull.pc = "reading", ~Twice
    PROVE  /\ \A x, y \in Installed : x.id = y.id => x = y
           /\ \A x \in Installed : /\ x.id \in Ids /\ x.priority \in Nat
                                    /\ x.match \in [Fields -> SUBSET Vals]
                                    /\ x.continue \in BOOLEAN
<1>0. ReadTop /\ ReadKids /\ PullType  BY DEF SyncInv, PullSound
<1>. DEFINE T == pull.top
            K == pull.kids
<1>1. \A x : x \in Installed <=>
          \E i \in T : \E a \in Leaves(K, i) : x = Emitted(K, i, a)
    BY FlatLeaves DEF Installed
<1>2. ASSUME NEW i \in T, NEW a \in Leaves(K, i)
      PROVE  a \in Sent /\ a.id \in Ids
    BY <1>0 DEF Leaves, Of, Sent, Groups, ReadTop, ReadKids
<1>3. ASSUME NEW i \in T, NEW j \in T, NEW a \in Leaves(K, i), a \in Leaves(K, j)
      PROVE  i = j
    <2>1. i.id \in Ids /\ j.id \in Ids /\ i.parent = 0 /\ j.parent = 0 /\ 0 \notin Ids
        BY <1>0 DEF ReadTop, Ids
    <2>2. (i.group => a.parent = i.id) /\ (~i.group => a = i)  BY DEF Leaves, Of
    <2>3. (j.group => a.parent = j.id) /\ (~j.group => a = j)  BY <1>3 DEF Leaves, Of
    <2>4. i.id = j.id => i = j  BY <1>0 DEF ReadTop
    <2>. QED  BY <2>1, <2>2, <2>3, <2>4
<1>4. ASSUME NEW x \in Installed, NEW y \in Installed, x.id = y.id
      PROVE  x = y
    <2>1. PICK i \in T : \E a \in Leaves(K, i) : x = Emitted(K, i, a)  BY <1>1
    <2>2. PICK a \in Leaves(K, i) : x = Emitted(K, i, a)  BY <2>1
    <2>3. PICK j \in T : \E b \in Leaves(K, j) : y = Emitted(K, j, b)  BY <1>1
    <2>4. PICK b \in Leaves(K, j) : y = Emitted(K, j, b)  BY <2>3
    <2>5. a.id = b.id  BY <1>4, <2>2, <2>4, EmittedFields
    <2>6. a = b  BY <1>2, <2>5 DEF Twice
    <2>7. i = j  BY <1>3, <2>6
    <2>. QED  BY <2>2, <2>4, <2>6, <2>7
<1>5. ASSUME NEW x \in Installed
      PROVE  /\ x.id \in Ids /\ x.priority \in Nat
             /\ x.match \in [Fields -> SUBSET Vals] /\ x.continue \in BOOLEAN
    <2>1. PICK i \in T : \E a \in Leaves(K, i) : x = Emitted(K, i, a)  BY <1>1
    <2>2. PICK a \in Leaves(K, i) : x = Emitted(K, i, a)  BY <2>1
    <2>3. i \in RuleRow /\ a \in RuleRow
        BY <1>0, LeafIsRow DEF PullType
    <2>4. \A f \in Fields : i.match[f] \in Texts /\ a.match[f] \in Texts
        BY <2>3 DEF RuleRow, Filters
    <2>5. Tested(i, a) \in [Fields -> SUBSET Vals]
        <3>1. Merged(i, a) \in [Fields -> SUBSET Vals]  BY <2>4, RuleBounds DEF Merged
        <3>2. Meaning(a.match) \in [Fields -> SUBSET Vals]  BY <2>4, RuleBounds DEF Meaning
        <3>. QED  BY <3>1, <3>2 DEF Tested
    <2>6. GoOn(K, i, a) \in BOOLEAN
        <3>1. a.continue \in BOOLEAN  BY <2>3 DEF RuleRow
        <3>2. Continues(K, i, a) \in BOOLEAN
            <4>1. a.inGroup \in BOOLEAN /\ a.exitGroup \in BOOLEAN  BY <2>3 DEF RuleRow
            <4>. QED  BY <4>1, Zenon DEF Continues
        <3>. QED  BY <3>1, <3>2, Zenon DEF GoOn
    <2>7. a.priority \in Nat  BY <2>3 DEF RuleRow
    <2>. QED  BY <1>2, <2>2, <2>5, <2>6, <2>7, EmittedFields
<1>. QED  BY <1>4, <1>5

LEMMA IdleInv ==
    ASSUME SyncInv, treeVars' = treeVars, pull' = PullIdle, touched' = touched, CacheSound'
    PROVE  SyncInv'
<1>1. TreeTypeOK' /\ TouchedType'
    BY DEF SyncInv, treeVars, TreeTypeOK, TouchedType
<1>2. PullType' /\ PullSound'  BY DEF PullType, PullSound, PullIdle
<1>. QED  BY <1>1, <1>2 DEF SyncInv

LEMMA InvStep ==
    ASSUME SyncInv, [RulesNext]_rulesVars
    PROVE  SyncInv'
<1>1. CASE EditRules  BY <1>1, EditKeepsInv
<1>2. CASE PullTop  BY <1>2, PullTopKeepsInv
<1>3. CASE Reading  BY <1>3, PullKidsKeepsInv DEF Reading
<1>4. CASE PullInstall
    <2>1. /\ pull.pc = "reading" /\ ~Twice /\ cache' = Installed
          /\ treeVars' = treeVars /\ pull' = PullIdle /\ touched' = touched
        BY <1>4 DEF PullInstall, Complete, Acceptable
    <2>2. CacheSound'  BY <2>1, InstalledSound DEF CacheSound
    <2>. QED  BY <2>1, <2>2, IdleInv
<1>5. CASE PullRejected \/ PullFails
    <2>1. /\ treeVars' = treeVars /\ pull' = PullIdle /\ touched' = touched /\ cache' = cache
        BY <1>5 DEF PullRejected, PullFails
    <2>2. CacheSound'  BY <2>1 DEF SyncInv, CacheSound
    <2>. QED  BY <2>1, <2>2, IdleInv
<1>6. CASE UNCHANGED rulesVars
    BY <1>6 DEF rulesVars, syncVars, treeVars, SyncInv, TreeTypeOK, PullType, PullSound, ReadTop,
                ReadKids, CacheSound, TouchedType, Enabled
<1>. QED  BY <1>1, <1>2, <1>3, <1>4, <1>5, <1>6 DEF RulesNext

(* The children the flat rules take of a group are those the table has. *)
LEMMA GroupKids ==
    ASSUME NEW t, NEW i \in TopItems(t), i.group
    PROVE  Of(KidItems(t), i) = KidsOf(t, i.id)
<1>1. \A g : \A c \in KidsOf(t, g) : c.parent = g  BY DEF KidsOf
<1>2. i \in Groups(TopItems(t))  BY DEF Groups
<1>3. KidsOf(t, i.id) \subseteq KidItems(t)  BY <1>2 DEF KidItems
<1>4. \A c \in KidItems(t) : \E g \in Groups(TopItems(t)) : c \in KidsOf(t, g.id)
    BY DEF KidItems
<1>. QED  BY <1>1, <1>3, <1>4 DEF Of

(* What a child says depends on nothing but its group and its siblings. *)
LEMMA SameSiblings ==
    ASSUME NEW K, NEW V, NEW i, i.group, Of(K, i) = Of(V, i), NEW a
    PROVE  Leaves(K, i) = Leaves(V, i) /\ Emitted(K, i, a) = Emitted(V, i, a)
<1>1. \A c : IsLast(K, i, c) <=> IsLast(V, i, c)  BY DEF IsLast
<1>2. Continues(K, i, a) = Continues(V, i, a)  BY <1>1, Zenon DEF Continues
<1>3. GoOn(K, i, a) = GoOn(V, i, a)  BY <1>2, Zenon DEF GoOn
<1>. QED  BY <1>3 DEF Leaves, Emitted

(* A rule neither touched nor under a touched group is emitted from the    *)
(* rows of the finished request exactly as from the table.                 *)
LEMMA SameRows ==
    ASSUME SyncInv, Complete, NEW r \in Ids, r \notin touched,
           rules[r].parent = 0 \/ rules[r].parent \notin touched, NEW x, x.id = r
    PROVE  x \in Flat(pull.top, pull.kids) <=> x \in FlatRules(rules)
<1>. DEFINE T == pull.top
            K == pull.kids
            U == TopItems(rules)
            V == KidItems(rules)
<1>0. /\ TreeTypeOK /\ ReadTop /\ ReadKids /\ pull.todo = {}
      /\ 0 \notin Ids
    BY DEF SyncInv, PullSound, Complete, Ids
<1>1. \A i \in T : i.id \in Ids /\ i.parent = 0  BY <1>0 DEF ReadTop
<1>2. \A i \in U : i.id \in Ids /\ i.parent = 0 /\ i = rules[i.id] /\ Enabled(i.id)
    BY <1>0, ReadOf, RowFacts DEF Enabled
<1>3. \A i \in T : i.id \notin touched => i \in U /\ i = rules[i.id]
    BY <1>0, <1>1, ReadOf DEF ReadTop
<1>4. \A i \in U : i.id \notin touched => i \in T
    BY <1>0, <1>2 DEF ReadTop
<1>5. \A c \in K : c.id = r => c = rules[r]  BY <1>0 DEF ReadKids
<1>6. ASSUME NEW i \in U, i.group
      PROVE  Of(V, i) = KidsOf(rules, i.id)
    BY <1>6, GroupKids
<1>7. \A c \in V : c.id = r => c = rules[r]
    <2>1. \A c \in V : \E g : c \in KidsOf(rules, g)  BY DEF KidItems
    <2>. QED  BY <1>0, <2>1, ReadOf, RowFacts DEF Enabled
<1>8. ASSUME NEW i, i \in T /\ i \in U, i.group, i.id \notin touched, NEW a
      PROVE  Leaves(K, i) = Leaves(V, i) /\ Emitted(K, i, a) = Emitted(V, i, a)
    <2>1. i \in Groups(T)  BY <1>8 DEF Groups
    <2>2. Of(K, i) = KidsOf(rules, i.id)  BY <1>0, <1>8, <2>1 DEF ReadKids
    <2>. HIDE DEF V, K
    <2>. QED  BY <1>6, <1>8, <2>2, SameSiblings
<1>9. ASSUME NEW i \in T, NEW a \in Leaves(K, i), a.id = r
      PROVE  i \in U /\ a \in Leaves(V, i) /\ Emitted(V, i, a) = Emitted(K, i, a)
    <2>1. CASE i.group
        <3>1. a \in K /\ a.parent = i.id  BY <2>1 DEF Leaves, Of
        <3>2. rules[r].parent = i.id  BY <1>5, <1>9, <3>1
        <3>3. i.id \notin touched  BY <1>0, <1>1, <3>2
        <3>4. i \in U  BY <1>3, <3>3
        <3>. HIDE DEF U, V, K, T
        <3>. QED  BY <1>8, <1>9, <2>1, <3>3, <3>4
    <2>2. CASE ~i.group
        <3>1. a = i  BY <2>2 DEF Leaves
        <3>2. i \in U  BY <1>3, <1>9, <3>1
        <3>. QED  BY <2>2, <3>1, <3>2 DEF Leaves, Emitted, GoOn
    <2>. QED  BY <2>1, <2>2
<1>10. ASSUME NEW i \in U, NEW a \in Leaves(V, i), a.id = r
       PROVE  i \in T /\ a \in Leaves(K, i) /\ Emitted(K, i, a) = Emitted(V, i, a)
    <2>1. CASE i.group
        <3>1. a \in V /\ a.parent = i.id  BY <2>1 DEF Leaves, Of
        <3>2. rules[r].parent = i.id  BY <1>7, <1>10, <3>1
        <3>3. i.id \notin touched  BY <1>0, <1>2, <3>2
        <3>4. i \in T  BY <1>4, <3>3
        <3>. HIDE DEF U, V, K, T
        <3>. QED  BY <1>8, <1>10, <2>1, <3>3, <3>4
    <2>2. CASE ~i.group
        <3>1. a = i  BY <2>2 DEF Leaves
        <3>2. i \in T  BY <1>4, <1>10, <3>1
        <3>. QED  BY <2>2, <3>1, <3>2 DEF Leaves, Emitted, GoOn
    <2>. QED  BY <2>1, <2>2
<1>11. x \in Flat(T, K) <=> \E i \in T : \E a \in Leaves(K, i) : x = Emitted(K, i, a)
    BY FlatLeaves
<1>12. x \in FlatRules(rules) <=> \E i \in U : \E a \in Leaves(V, i) : x = Emitted(V, i, a)
    BY FlatLeaves DEF FlatRules
<1>13. \A i, a : (x = Emitted(K, i, a) => a.id = r) /\ (x = Emitted(V, i, a) => a.id = r)
    BY EmittedFields
<1>. HIDE DEF T, K, U, V
<1>14. ASSUME x \in Flat(T, K) PROVE x \in FlatRules(rules)
    <2>1. PICK i \in T : \E a \in Leaves(K, i) : x = Emitted(K, i, a)  BY <1>11, <1>14
    <2>2. PICK a \in Leaves(K, i) : x = Emitted(K, i, a)  BY <2>1
    <2>3. i \in U /\ a \in Leaves(V, i) /\ Emitted(V, i, a) = Emitted(K, i, a)
        BY <1>9, <1>13, <2>2
    <2>. QED  BY <1>12, <2>2, <2>3
<1>15. ASSUME x \in FlatRules(rules) PROVE x \in Flat(T, K)
    <2>1. PICK i \in U : \E a \in Leaves(V, i) : x = Emitted(V, i, a)  BY <1>12, <1>15
    <2>2. PICK a \in Leaves(V, i) : x = Emitted(V, i, a)  BY <2>1
    <2>3. i \in T /\ a \in Leaves(K, i) /\ Emitted(K, i, a) = Emitted(V, i, a)
        BY <1>10, <1>13, <2>2
    <2>. QED  BY <1>11, <2>2, <2>3
<1>16. x \in Flat(T, K) <=> x \in FlatRules(rules)  BY <1>14, <1>15
<1>. QED  BY <1>16 DEF T, K

LEMMA InstallExact ==
    ASSUME SyncInv, PullInstall, NEW r \in Ids, r \notin touched,
           rules[r].parent = 0 \/ rules[r].parent \notin touched
    PROVE  Served(cache', r) = Served(FlatRules(rules), r)
<1>1. Complete /\ cache' = Flat(pull.top, pull.kids)  BY DEF PullInstall, Installed
<1>2. \A x : x.id = r => (x \in cache' <=> x \in FlatRules(rules))
    BY <1>1, SameRows
<1>. QED  BY <1>2 DEF Served

LEMMA InvHolds == RulesSpec => []SyncInv
<1>. QED  BY InvInit, InvStep, PTL DEF RulesSpec
-----------------------------------------------------------------------------
(* Promotion.  A rule without a parent has none of a child's flags, so as  *)
(* the only child of its new group it says what it said alone.             *)

Plain(row) == row.parent = 0 => ~row.inGroup /\ ~row.exitGroup
AllPlain == \A r \in Ids : Plain(rules[r])

LEMMA PlainPut ==
    ASSUME TreeTypeOK, AllPlain, NEW row, row.id \in Ids, Plain(row), Put(row)
    PROVE  AllPlain'
<1>1. rules \in [Ids -> RuleRow] /\ rules' = [rules EXCEPT ![row.id] = row]
    BY TypeParts DEF Put
<1>2. \A s \in Ids : rules'[s] = IF s = row.id THEN row ELSE rules[s]  BY <1>1
<1>. QED  BY <1>2 DEF AllPlain, Plain

LEMMA PlainSaved ==
    ASSUME TreeTypeOK, AllPlain, NEW r \in Ids, NEW form \in Forms,
           Save(r, form) \/ SaveSuggestion(form)
    PROVE  AllPlain'
<1>1. CASE SaveOrphan(r, form)
    <2>1. Plain(OrphanRow(r, form)) /\ OrphanRow(r, form).id = r  BY DEF Plain, OrphanRow
    <2>. QED  BY <1>1, <2>1, PlainPut DEF SaveOrphan
<1>2. CASE SaveGroup(r, form)
    <2>1. Plain(GroupRow(r, form)) /\ GroupRow(r, form).id = r  BY DEF Plain, GroupRow
    <2>. QED  BY <1>2, <2>1, PlainPut DEF SaveGroup
<1>3. ASSUME NEW g \in Ids, SaveChild(r, g, form) PROVE AllPlain'
    <2>1. Plain(ChildRow(r, g, form)) /\ ChildRow(r, g, form).id = r
        BY DEF Plain, ChildRow, Ids
    <2>. QED  BY <1>3, <2>1, PlainPut DEF SaveChild
<1>4. CASE SaveSuggestion(form)
    <2>1. Plain(Suggested(form)) /\ Suggested(form).id = lastRule + 1
        BY DEF Plain, Suggested, OrphanRow
    <2>2. lastRule + 1 \in Ids  BY <1>4 DEF SaveSuggestion, IsNew
    <2>. QED  BY <1>4, <2>1, <2>2, PlainPut DEF SaveSuggestion
<1>. QED  BY <1>1, <1>2, <1>3, <1>4 DEF Save

LEMMA PlainPromoted ==
    ASSUME TreeTypeOK, AllPlain, NEW r \in Ids, Promotion(r)
    PROVE  AllPlain'
<1>1. /\ rules \in [Ids -> RuleRow] /\ lastRule \in Nat /\ lastRule + 1 \in Ids
      /\ rules' = [rules EXCEPT ![lastRule + 1] = PromotedGroup(r), ![r].parent = lastRule + 1]
      /\ rules[r].exists
    BY TypeParts, RuleBounds DEF Promotion, IsNew, Stored
<1>2. rules[r] \in RuleRow /\ r # lastRule + 1
    BY <1>1, TypeParts DEF Linked, Ids
<1>3. Plain(PromotedGroup(r))
    BY <1>2 DEF PromotedGroup, Plain, RuleRow
<1>4. \A s \in Ids : s # r /\ s # lastRule + 1 => rules'[s] = rules[s]  BY <1>1
<1>5. rules'[lastRule + 1] = PromotedGroup(r)  BY <1>1, <1>2
<1>6. rules'[r].parent = lastRule + 1
    <2>1. rules'[r] = [rules[r] EXCEPT !.parent = lastRule + 1]  BY <1>1, <1>2
    <2>. QED  BY <1>2, <2>1 DEF RuleRow
<1>7. Plain(rules'[r])  BY <1>1, <1>6 DEF Plain
<1>. QED  BY <1>3, <1>4, <1>5, <1>7 DEF AllPlain

LEMMA PlainElse ==
    ASSUME TreeTypeOK, AllPlain, NEW r \in Ids,
           Delete(r) \/ Toggle(r) \/ Duplicate(r) \/ Attach(r)
    PROVE  AllPlain'
<1>0. /\ rules \in [Ids -> RuleRow] /\ rules[r] \in RuleRow
      /\ Plain(rules[r]) /\ Plain(NoRule)
    BY TypeParts DEF AllPlain, Plain, NoRule
<1>1. CASE Delete(r)
    <2>1. \A s \in Ids : rules'[s] = NoRule \/ rules'[s] = rules[s]  BY <1>1 DEF Delete
    <2>. QED  BY <1>0, <2>1 DEF AllPlain
<1>2. CASE Toggle(r)
    <2>1. \A s \in Ids : rules'[s] = IF s = r THEN [rules[r] EXCEPT !.enabled = ~@] ELSE rules[s]
        BY <1>0, <1>2 DEF Toggle
    <2>2. Plain([rules[r] EXCEPT !.enabled = ~@])  BY <1>0 DEF Plain, RuleRow
    <2>. QED  BY <2>1, <2>2 DEF AllPlain
<1>3. CASE Duplicate(r)
    <2>. DEFINE row == [rules[r] EXCEPT !.id = lastRule + 1, !.priority = Highest + Gap]
    <2>1. Plain(row) /\ row.id = lastRule + 1  BY <1>0 DEF Plain, RuleRow
    <2>2. lastRule + 1 \in Ids /\ Put(row)  BY <1>3 DEF Duplicate, IsNew
    <2>. HIDE DEF row
    <2>. QED  BY <2>1, <2>2, PlainPut
<1>4. CASE Attach(r)
    <2>1. CASE Stored(r) /\ Stored(cluster.group)
        <3>1. /\ rules' = [rules EXCEPT ![r].parent = cluster.group]
              /\ cluster.group \in Ids
            BY <1>4, <2>1 DEF Attach, Stored
        <3>2. \A s \in Ids : rules'[s] =
                  IF s = r THEN [rules[r] EXCEPT !.parent = cluster.group] ELSE rules[s]
            BY <1>0, <3>1
        <3>3. Plain([rules[r] EXCEPT !.parent = cluster.group])
            BY <1>0, <3>1 DEF Plain, RuleRow, Ids
        <3>. QED  BY <3>2, <3>3 DEF AllPlain
    <2>2. CASE ~(Stored(r) /\ Stored(cluster.group))
        BY <1>4, <2>2 DEF Attach, AllPlain
    <2>. QED  BY <2>1, <2>2
<1>. QED  BY <1>1, <1>2, <1>3, <1>4

LEMMA PlainKept ==
    ASSUME TreeTypeOK, AllPlain, [RulesNext]_rulesVars
    PROVE  AllPlain'
<1>1. ASSUME NEW form \in Forms, SaveSuggestion(form) PROVE AllPlain'
    <2>1. lastRule + 1 \in Ids  BY <1>1 DEF SaveSuggestion, IsNew
    <2>. QED  BY <1>1, <2>1, PlainSaved
<1>2. CASE TreeNext
    BY <1>1, <1>2, PlainSaved, PlainPromoted, PlainElse DEF TreeNext, Promote, PromoteCluster
<1>3. CASE rules' = rules
    BY <1>3 DEF AllPlain
<1>. QED  BY <1>2, <1>3 DEF RulesNext, EditRules, PullTop, Reading, PullKids, PullInstall,
                            PullRejected, PullFails, rulesVars, treeVars

LEMMA PlainHolds == RulesSpec => [](SyncInv /\ AllPlain)
<1>1. RulesInit => AllPlain
    BY DEF RulesInit, TreeInit, AllPlain, Plain, NoRule
<1>2. SyncInv /\ AllPlain /\ [RulesNext]_rulesVars => AllPlain'
    BY PlainKept DEF SyncInv
<1>. QED  BY <1>1, <1>2, InvHolds, PTL DEF RulesSpec

(* The group made for a rule passes on what the rule tests. *)
LEMMA PromotedTests ==
    ASSUME NEW r \in Ids, rules[r] \in RuleRow, BearsItself(r), NEW c, c.match = rules[r].match
    PROVE  Merged(PromotedGroup(r), c) = Meaning(rules[r].match)
<1>. DEFINE m == rules[r].match
            g == PromotedGroup(r)
<1>1. \A f \in RegexFields : m[f] # Blank => AcceptedBoth[<<m[f], m[f]>>] = Accepted[m[f]]
    BY DEF BearsItself
<1>2. g.match = [f \in Fields |-> IF f \in OverrideFields THEN Blank ELSE m[f]]
    BY DEF PromotedGroup, RuleRow
<1>. HIDE DEF g, m
<1>3. \A f \in Fields : Merged(g, c)[f] = Meaning(m)[f]
    <2>. SUFFICES ASSUME NEW f \in Fields PROVE Merged(g, c)[f] = Meaning(m)[f]
        OBVIOUS
    <2>1. c.match[f] = m[f]  BY DEF m
    <2>2. g.match[f] = IF f \in OverrideFields THEN Blank ELSE m[f]  BY <1>2
    <2>3. Meaning(m)[f] = Accepted[m[f]]  BY DEF Meaning
    <2>4. CASE Combines(g, c, f)
        <3>1. Merged(g, c)[f] = AcceptedBoth[<<g.match[f], c.match[f]>>]  BY <2>4 DEF Merged
        <3>2. f \in RegexFields /\ g.match[f] # Blank  BY <2>4 DEF Combines
        <3>. QED  BY <1>1, <2>1, <2>2, <2>3, <3>1, <3>2
    <2>5. CASE ~Combines(g, c, f)
        <3>1. Merged(g, c)[f] = Accepted[IF c.match[f] # Blank THEN c.match[f] ELSE g.match[f]]
            BY <2>5 DEF Merged
        <3>. QED  BY <2>1, <2>2, <2>3, <3>1
    <2>. QED  BY <2>4, <2>5
<1>4. Merged(g, c) = [f \in Fields |-> Merged(g, c)[f]]  BY DEF Merged
<1>5. Meaning(m) = [f \in Fields |-> Meaning(m)[f]]  BY DEF Meaning
<1>. QED  BY <1>3, <1>4, <1>5 DEF g, m

LEMMA PromoteSame ==
    ASSUME SyncInv, AllPlain, NEW r \in Ids, Promote(r), ~rules[r].continue, BearsItself(r)
    PROVE  FlatRules(rules') = FlatRules(rules)
<1>. DEFINE n == lastRule + 1
            old == rules[r]
            G == PromotedGroup(r)
            moved == [old EXCEPT !.parent = n]
            U == TopItems(rules)
            V == KidItems(rules)
            X == TopItems(rules')
            Y == KidItems(rules')
<1>0. /\ TreeTypeOK /\ Promotion(r) /\ lastRule \in Nat /\ n \in Ids
      /\ rules' = [rules EXCEPT ![n] = G, ![r].parent = n]
      /\ old.exists /\ old.parent = 0 /\ ~old.group
    BY TypeParts, RuleBounds DEF SyncInv, Promote, Promotion, IsNew, Stored
<1>1. /\ rules \in [Ids -> RuleRow] /\ old \in RuleRow /\ old.id = r /\ r # n
      /\ \A s \in Ids : rules[s].exists =>
             /\ s <= lastRule /\ rules[s].id = s
             /\ rules[s].parent # 0 => rules[rules[s].parent].exists
    BY <1>0, TypeParts DEF Linked, Ids
<1>2. ~rules[n].exists /\ \A s \in Ids : rules[s].exists => rules[s].parent # n
    BY <1>0, <1>1
<1>3. G \in RuleRow /\ G.exists /\ G.id = n /\ G.parent = 0
    BY <1>0, PromotedGroupType DEF Promotion
<1>4. G.group /\ G.enabled /\ G.exclusive
    BY <1>1 DEF PromotedGroup, RuleRow
<1>5. /\ moved.exists = old.exists /\ moved.id = r /\ moved.parent = n
      /\ moved.enabled = old.enabled /\ moved.match = old.match
      /\ moved.priority = old.priority /\ moved.inGroup = old.inGroup
      /\ moved.exitGroup = old.exitGroup
    BY <1>1 DEF RuleRow
<1>6. /\ rules'[n] = G /\ rules'[r] = moved
      /\ \A s \in Ids : s # r /\ s # n => rules'[s] = rules[s]
    BY <1>0, <1>1
<1>7. Merged(G, moved) = Meaning(old.match)  BY <1>1, <1>5, PromotedTests
<1>8. ~old.inGroup /\ ~old.exitGroup  BY <1>0 DEF AllPlain, Plain
<1>. HIDE DEF n, old, G, moved
<1>9. \A i : i \in X <=> i = G \/ (i \in U /\ i # old)
    <2>1. \A i : i \in X <=> \E s \in Ids : /\ i = rules'[s] /\ rules'[s].exists
                                           /\ rules'[s].enabled /\ rules'[s].parent = 0
        BY DEF TopItems
    <2>2. \A i : i \in U <=> \E s \in Ids : /\ i = rules[s] /\ rules[s].exists
                                           /\ rules[s].enabled /\ rules[s].parent = 0
        BY DEF TopItems
    <2>3. n # 0  BY <1>0 DEF Ids
    <2>4. \A s \in Ids : rules[s] = old => s = r \/ ~rules[s].exists
        BY <1>1
    <2>5. rules[r] = old  BY DEF old
    <2>6. ASSUME NEW i \in X PROVE i = G \/ (i \in U /\ i # old)
        <3>. HIDE DEF X, U
        <3>1. PICK s \in Ids : /\ i = rules'[s] /\ rules'[s].exists
                              /\ rules'[s].enabled /\ rules'[s].parent = 0
            BY <2>1
        <3>2. s # r  BY <1>5, <1>6, <2>3, <3>1
        <3>3. s # n => rules'[s] = rules[s]  BY <1>6, <3>2
        <3>. QED  BY <1>6, <2>2, <2>4, <3>1, <3>2, <3>3
    <2>7. G \in X
        <3>. HIDE DEF X
        <3>1. n \in Ids  BY <1>0
        <3>2. rules'[n].exists /\ rules'[n].enabled /\ rules'[n].parent = 0
            BY <1>3, <1>4, <1>6
        <3>. QED  BY <1>6, <2>1, <3>1, <3>2
    <2>8. ASSUME NEW i \in U, i # old PROVE i \in X
        <3>. HIDE DEF X, U
        <3>1. PICK s \in Ids : /\ i = rules[s] /\ rules[s].exists
                              /\ rules[s].enabled /\ rules[s].parent = 0
            BY <2>2
        <3>2. s # r /\ s # n  BY <1>2, <2>5, <2>8, <3>1
        <3>3. rules'[s] = rules[s]  BY <1>6, <3>2
        <3>. QED  BY <2>1, <3>1, <3>3
    <2>. QED  BY <2>6, <2>7, <2>8
<1>10. \A g \in Ids : g # n => KidsOf(rules', g) = KidsOf(rules, g)
    <2>1. \A g \in Ids : g # n => rules'[r].parent # g /\ rules[r].parent # g
        BY <1>0, <1>5, <1>6 DEF old, Ids
    <2>2. \A g \in Ids : rules'[n].parent # g /\ ~rules[n].exists
        BY <1>2, <1>3, <1>6 DEF Ids
    <2>. QED  BY <1>6, <2>1, <2>2 DEF KidsOf
<1>11. \A c : c \in KidsOf(rules', n) <=> c = moved /\ old.enabled
    <2>1. \A s \in Ids : rules'[s].exists /\ rules'[s].parent = n => s = r
        BY <1>0, <1>2, <1>3, <1>6 DEF Ids
    <2>2. \A c : c \in KidsOf(rules', n) <=>
              \E s \in Ids : /\ c = rules'[s] /\ rules'[s].exists /\ rules'[s].enabled
                             /\ rules'[s].parent = n
        BY DEF KidsOf
    <2>3. ASSUME NEW c \in KidsOf(rules', n) PROVE c = moved /\ old.enabled
        <3>1. PICK s \in Ids : /\ c = rules'[s] /\ rules'[s].exists /\ rules'[s].enabled
                              /\ rules'[s].parent = n
            BY <2>2
        <3>2. s = r  BY <2>1, <3>1
        <3>. QED  BY <1>5, <1>6, <3>1, <3>2
    <2>4. ASSUME old.enabled PROVE moved \in KidsOf(rules', n)
        BY <1>0, <1>5, <1>6, <2>2, <2>4 DEF old
    <2>. QED  BY <2>3, <2>4
<1>12. G \in X /\ Of(Y, G) = KidsOf(rules', n)
    BY <1>3, <1>4, <1>9, GroupKids
<1>13. ASSUME old.enabled
       PROVE  Leaves(Y, G) = {moved} /\ Emitted(Y, G, moved) = FlatRow(old, Meaning(old.match), FALSE)
    <2>1. Of(Y, G) = {moved}  BY <1>11, <1>12, <1>13
    <2>2. ~moved.inGroup /\ ~moved.exitGroup  BY <1>5, <1>8
    <2>3. Continues(Y, G, moved) = FALSE
        BY <1>4, <2>1, <2>2 DEF Continues
    <2>4. Emitted(Y, G, moved) = FlatRow(moved, Meaning(old.match), FALSE)
        BY <1>4, <1>7, <2>3 DEF Emitted, Tested, GoOn
    <2>5. old.id = moved.id /\ old.priority = moved.priority  BY <1>1, <1>5
    <2>. QED  BY <1>4, <2>1, <2>4, <2>5 DEF Leaves, FlatRow
<1>14. ASSUME NEW i \in U, i # old, NEW a
       PROVE  Leaves(Y, i) = Leaves(V, i) /\ Emitted(Y, i, a) = Emitted(V, i, a)
    <2>1. i \in X /\ i.id \in Ids /\ i.id # n
        <3>1. PICK s \in Ids : i = rules[s] /\ rules[s].exists  BY DEF TopItems
        <3>. QED  BY <1>1, <1>2, <1>9, <1>14, <3>1
    <2>2. CASE i.group
        <3>1. Of(Y, i) = Of(V, i)  BY <1>10, <2>1, <2>2, GroupKids
        <3>. QED  BY <2>2, <3>1, SameSiblings
    <2>3. CASE ~i.group
        BY <2>3 DEF Leaves, Emitted, Tested, GoOn
    <2>. QED  BY <2>2, <2>3
<1>15. \A x : x \in FlatRules(rules) <=> \E i \in U : \E a \in Leaves(V, i) : x = Emitted(V, i, a)
    BY FlatLeaves DEF FlatRules
<1>16. \A x : x \in FlatRules(rules') <=> \E i \in X : \E a \in Leaves(Y, i) : x = Emitted(Y, i, a)
    BY FlatLeaves DEF FlatRules
<1>17. old \in U <=> old.enabled
    <2>1. \A s \in Ids : rules[s] = old => rules[s].parent = 0 /\ rules[s].exists  BY <1>0
    <2>. QED  BY <1>0, <2>1 DEF TopItems, old
<1>18. \A a : /\ a \in Leaves(V, old) <=> a = old
              /\ Emitted(V, old, old) = FlatRow(old, Meaning(old.match), FALSE)
    <2>1. old.continue = FALSE
        <3>1. old.continue \in BOOLEAN  BY <1>1 DEF RuleRow
        <3>. QED  BY <3>1 DEF old
    <2>2. \A a : a \in Leaves(V, old) <=> a = old  BY <1>0 DEF Leaves
    <2>3. Emitted(V, old, old) = FlatRow(old, Meaning(old.match), FALSE)
        BY <1>0, <2>1 DEF Emitted, Tested, GoOn
    <2>. QED  BY <2>2, <2>3
<1>. HIDE DEF U, V, X, Y
<1>19. ASSUME NEW x \in FlatRules(rules) PROVE x \in FlatRules(rules')
    <2>1. PICK i \in U : \E a \in Leaves(V, i) : x = Emitted(V, i, a)  BY <1>15
    <2>2. PICK a \in Leaves(V, i) : x = Emitted(V, i, a)  BY <2>1
    <2>3. CASE i = old
        BY <1>12, <1>13, <1>16, <1>17, <1>18, <2>2, <2>3
    <2>4. CASE i # old
        BY <1>9, <1>14, <1>16, <2>2, <2>4
    <2>. QED  BY <2>3, <2>4
<1>20. ASSUME NEW x \in FlatRules(rules') PROVE x \in FlatRules(rules)
    <2>1. PICK i \in X : \E a \in Leaves(Y, i) : x = Emitted(Y, i, a)  BY <1>16
    <2>2. PICK a \in Leaves(Y, i) : x = Emitted(Y, i, a)  BY <2>1
    <2>3. CASE i = G
        <3>1. a \in KidsOf(rules', n)  BY <1>4, <1>12, <2>2, <2>3 DEF Leaves
        <3>2. old.enabled  BY <1>11, <3>1
        <3>. QED  BY <1>13, <1>15, <1>17, <1>18, <2>2, <2>3, <3>2
    <2>4. CASE i # G
        BY <1>9, <1>14, <1>15, <2>2, <2>4
    <2>. QED  BY <2>3, <2>4
<1>. QED  BY <1>19, <1>20
-----------------------------------------------------------------------------
(* Every variable has its type; the rows of the table keep their ids and   *)
(* their parents, and the cache holds a rule at most once.                 *)
THEOREM RulesTypeCorrect == RulesSpec => []SyncTypeOK
<1>1. SyncInv => SyncTypeOK
    BY DEF SyncInv, PullType, CacheSound, TouchedType, SyncTypeOK
<1>. QED  BY <1>1, InvHolds, PTL

(* After any operations of the rule pages, the simulation page and the     *)
(* listener take the same rules for every mail, if the blocks of the tree  *)
(* lie apart, only last children go on, every filter is simulated and      *)
(* children narrow their groups.                                           *)
THEOREM ReadingsEqual == RulesSpec => []ParityUnderDiscipline
<1>1. SyncInv => ParityUnderDiscipline  BY TableParity DEF SyncInv
<1>. QED  BY <1>1, InvHolds, PTL

(* However edits fall between the queries of a request, what it installs   *)
(* is exact for the rules they left alone.                                 *)
THEOREM TornPullExact == RulesSpec => UntouchedExact
<1>1. SyncInv /\ [RulesNext]_rulesVars =>
        [PullInstall => \A r \in Ids :
            r \notin touched /\ (rules[r].parent = 0 \/ rules[r].parent \notin touched)
                => Served(cache', r) = Served(FlatRules(rules), r)]_rulesVars
    BY InstallExact
<1>. QED  BY <1>1, InvHolds, PTL DEF RulesSpec, UntouchedExact

(* Promoting a rule that stops the evaluation leaves what the rules sent   *)
(* to the listener accept as it was, whatever the table holds, if each of  *)
(* the rule's expressions accepts beside itself what it accepts alone (one *)
(* with an inline flag does not).                                          *)
THEOREM PromotionNeutral == RulesSpec => PromoteNeutral
<1>1. SyncInv /\ AllPlain /\ [RulesNext]_rulesVars =>
        [\A r \in Ids : Promote(r) /\ ~rules[r].continue /\ BearsItself(r)
            => FlatRules(rules') = FlatRules(rules)]_treeVars
    BY PromoteSame
<1>. QED  BY <1>1, PlainHolds, PTL DEF RulesSpec, PromoteNeutral
=============================================================================
