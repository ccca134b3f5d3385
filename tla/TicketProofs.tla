---------------------------- MODULE TicketProofs ----------------------------
(***************************************************************************)
(* Proofs about the ticket requests, for every value of the constants:     *)
(* their queue (DispatchQueue), the aggregations that add to it            *)
(* (Aggregation), and the events to which their outcome is written         *)
(* (EventLog).  The lemmas on the queue's actions serve all three.         *)
(***************************************************************************)
EXTENDS Aggregation, EventLog, TLAPS

-----------------------------------------------------------------------------
(* The queue.                                                              *)

(* _backoff_for always yields a delay. *)
LEMMA DelayType == ASSUME NEW n \in Nat PROVE BackoffFor(n) \in Nat
<1>1. CASE Backoff = <<>>
  BY <1>1, DispatchAssumption DEF BackoffFor
<1>2. CASE Backoff # <<>>
  <2>1. Len(Backoff) \in Nat /\ Len(Backoff) > 0
    BY <1>2, DispatchAssumption
  <2>2. \A k \in 1..Len(Backoff) : Backoff[k] \in Nat
    BY DispatchAssumption
  <2>3. n < Len(Backoff) => n + 1 \in 1..Len(Backoff)
    BY <2>1
  <2>4. Len(Backoff) \in 1..Len(Backoff)
    BY <2>1
  <2> QED BY <1>2, <2>2, <2>3, <2>4 DEF BackoffFor
<1> QED BY <1>1, <1>2

(* A live row with an attempt left stays a row, and either stays live with *)
(* an attempt left or becomes final; it is sent exactly on an ok answer.   *)
LEMMA AttemptedRow ==
  ASSUME NEW row \in Dispatch, row.state \in Live, row.attempts < MaxAttempts,
         NEW answer \in Answers
  PROVE  /\ Attempted(row, answer) \in Dispatch
         /\ Attempted(row, answer).state \in Live \cup Final
         /\ Attempted(row, answer).state = "sent" <=> answer = "ok"
         /\ Attempted(row, answer).state \in Live
              => Attempted(row, answer).attempts < MaxAttempts
         /\ Attempted(row, answer).wait > 0 => Attempted(row, answer).state = "error"
<1> DEFINE n == row.attempts + 1
<1>1. n \in 0..MaxAttempts /\ row.wait \in Nat /\ row.attempts \in Nat /\ n - 1 \in Nat
  BY DispatchAssumption DEF Dispatch
<1>2. BackoffFor(n - 1) \in Nat
  BY <1>1, DelayType
<1>3. CASE answer = "ok"
  BY <1>1, <1>3 DEF Attempted, Dispatch, Live, Final
<1>4. CASE answer # "ok" /\ GivenUp(answer, n)
  BY <1>1, <1>4 DEF Attempted, Dispatch, Live, Final
<1>5. CASE answer # "ok" /\ ~GivenUp(answer, n)
  <2>1. Attempted(row, answer) = [state |-> "error", attempts |-> n, wait |-> BackoffFor(n - 1)]
    BY <1>5 DEF Attempted
  <2>2. n < MaxAttempts
    BY <1>1, <1>5, DispatchAssumption DEF GivenUp
  <2> HIDE DEF n
  <2> QED BY <1>1, <1>2, <1>5, <2>1, <2>2 DEF Dispatch, Live, Final
<1> QED BY <1>3, <1>4, <1>5

LEMMA QueueInitInv == QueueInit => QueueInv
BY DispatchAssumption DEF QueueInit, QueueInv, QueueTypeOK, DrainIsFresh,
   TicketsAccounted, OkUnrecorded, NoDispatch, DrainerIdle, Dispatch, RowIds,
   Live, Final, Answers

LEMMA EnqueueRowInv == QueueInv /\ EnqueueRow => QueueInv'
<1> SUFFICES ASSUME QueueInv, EnqueueRow PROVE QueueInv'
  OBVIOUS
<1> USE DEF QueueInv
<1>1. lastQid + 1 \in RowIds /\ lastQid' = lastQid + 1 /\ lastQid \in Nat
  BY DispatchAssumption DEF EnqueueRow, RowIds, QueueTypeOK
<1>2. dispatch[lastQid + 1] = NoDispatch
  BY <1>1 DEF DrainIsFresh
<1>3. /\ dispatch'[lastQid + 1] = NewDispatch
      /\ \A q \in RowIds : q # lastQid + 1 => dispatch'[q] = dispatch[q]
  BY <1>1 DEF EnqueueRow, QueueTypeOK
<1>4. QueueTypeOK'
  <2>1. NewDispatch \in Dispatch
    BY DispatchAssumption DEF NewDispatch, Dispatch, Live
  <2>2. dispatch' \in [RowIds -> Dispatch]
    BY <1>1, <2>1 DEF EnqueueRow, QueueTypeOK
  <2> QED BY <1>1, <2>2 DEF QueueTypeOK, EnqueueRow, RowIds
<1>5. lastQid + 1 \notin drainer.todo
  BY <1>2 DEF DrainIsFresh, NoDispatch, Live
<1>6. DrainIsFresh'
  <2>1. \A q \in RowIds :
          IF q <= lastQid' THEN dispatch'[q].state # "none" ELSE dispatch'[q] = NoDispatch
    <3> SUFFICES ASSUME NEW q \in RowIds
                 PROVE  IF q <= lastQid + 1 THEN dispatch'[q].state # "none"
                        ELSE dispatch'[q] = NoDispatch
      BY <1>1
    <3>1. CASE q = lastQid + 1
      BY <1>1, <1>3, <3>1 DEF NewDispatch
    <3>2. CASE q # lastQid + 1
      BY <1>1, <1>3, <3>2 DEF DrainIsFresh, RowIds
    <3> QED BY <3>1, <3>2
  <2>2. drainer' = drainer /\ drainer.todo \subseteq RowIds
    BY DEF EnqueueRow, QueueTypeOK
  <2>3. \A q \in drainer.todo : dispatch'[q] = dispatch[q]
    BY <1>3, <1>5, <2>2
  <2>4. \A q \in RowIds : dispatch'[q].state \in Live => dispatch'[q].attempts < MaxAttempts
    BY <1>3, DispatchAssumption DEF NewDispatch, DrainIsFresh
  <2>5. \A q \in RowIds : dispatch'[q].wait > 0 => dispatch'[q].state = "error"
    BY <1>3 DEF NewDispatch, DrainIsFresh
  <2> QED BY <2>1, <2>2, <2>3, <2>4, <2>5 DEF DrainIsFresh
<1>7. \A q \in RowIds : OkUnrecorded(q)' <=> OkUnrecorded(q)
  BY DEF OkUnrecorded, EnqueueRow
<1>8. TicketsAccounted'
  BY <1>2, <1>3, <1>7 DEF TicketsAccounted, EnqueueRow, NewDispatch, NoDispatch
<1> QED BY <1>4, <1>6, <1>8

LEMMA RowsAgeInv ==
  ASSUME QueueInv, RowsAge, UNCHANGED <<lastQid, drainer, tickets, lost, aborts>>
  PROVE  QueueInv'
<1> USE DEF QueueInv
<1>1. \A q \in RowIds :
        /\ dispatch'[q].state = dispatch[q].state
        /\ dispatch'[q].attempts = dispatch[q].attempts
        /\ dispatch[q].wait = 0 => dispatch'[q] = dispatch[q]
        /\ dispatch'[q].wait > 0 => dispatch[q].wait > 0
        /\ dispatch'[q] \in Dispatch
  <2> SUFFICES ASSUME NEW q \in RowIds
               PROVE  /\ dispatch'[q].state = dispatch[q].state
                      /\ dispatch'[q].attempts = dispatch[q].attempts
                      /\ dispatch[q].wait = 0 => dispatch'[q] = dispatch[q]
                      /\ dispatch'[q].wait > 0 => dispatch[q].wait > 0
        /\ dispatch'[q] \in Dispatch
    OBVIOUS
  <2>1. dispatch[q] \in Dispatch
    BY DEF QueueTypeOK
  <2>2. dispatch'[q] = IF dispatch[q].wait > 0
                       THEN [dispatch[q] EXCEPT !.wait = @ - 1] ELSE dispatch[q]
    BY DEF RowsAge
  <2> QED BY <2>1, <2>2 DEF Dispatch
<1>2. QueueTypeOK'
  <2>1. dispatch' \in [RowIds -> Dispatch]
    BY <1>1 DEF RowsAge
  <2> QED BY <2>1 DEF QueueTypeOK
<1>3. DrainIsFresh'
  <2>1. \A q \in RowIds : dispatch[q] = NoDispatch => dispatch'[q] = NoDispatch
    BY <1>1 DEF NoDispatch
  <2>2. drainer.todo \subseteq RowIds
    BY DEF QueueTypeOK
  <2> QED BY <1>1, <2>1, <2>2 DEF DrainIsFresh
<1>4. \A q \in RowIds : OkUnrecorded(q)' <=> OkUnrecorded(q)
  BY DEF OkUnrecorded
<1>5. TicketsAccounted'
  BY <1>1, <1>4 DEF TicketsAccounted
<1> QED BY <1>2, <1>3, <1>5

LEMMA DrainReadInv == QueueInv /\ DrainRead => QueueInv'
<1> SUFFICES ASSUME QueueInv, DrainRead PROVE QueueInv'
  OBVIOUS
<1> USE DEF QueueInv
<1>1. PICK S \in SUBSET DueRows :
        drainer' = [pc |-> "batch", todo |-> S, row |-> 0, answer |-> "failed"]
  BY DEF DrainRead, FirstRows
<1>2. S \subseteq RowIds /\ \A q \in S : dispatch[q].state \in Live
  BY DEF DueRows
<1>3. QueueTypeOK'
  BY <1>1, <1>2 DEF QueueTypeOK, DrainRead, Answers
<1>4. DrainIsFresh'
  BY <1>1, <1>2 DEF DrainIsFresh, DrainRead
<1>5. TicketsAccounted'
  <2>1. \A q \in RowIds : ~OkUnrecorded(q)' /\ ~OkUnrecorded(q)
    BY <1>1 DEF OkUnrecorded, DrainRead
  <2> QED BY <2>1 DEF TicketsAccounted, DrainRead
<1> QED BY <1>3, <1>4, <1>5

LEMMA SubmitInv == ASSUME QueueInv, NEW q \in RowIds, Submit(q) PROVE QueueInv'
<1> USE DEF QueueInv
<1>1. PICK answer \in Answers, ticket \in BOOLEAN :
        /\ Answered(ticket, answer)
        /\ drainer' = [drainer EXCEPT !.pc = "answered", !.row = q, !.answer = answer]
        /\ tickets' = IF ticket THEN [tickets EXCEPT ![q] = @ + 1] ELSE tickets
        /\ lost' = IF ticket /\ answer # "ok" THEN [lost EXCEPT ![q] = @ + 1] ELSE lost
  BY DEF Submit
<1>2. /\ drainer'.pc = "answered" /\ drainer'.row = q /\ drainer'.answer = answer
      /\ drainer'.todo = drainer.todo /\ q \in drainer.todo
      /\ dispatch[q].state \in Live
  BY <1>1 DEF Submit, QueueTypeOK, DrainIsFresh
<1>3. QueueTypeOK'
  <2>1. drainer' \in [pc : {"idle", "batch", "answered"}, todo : SUBSET RowIds,
                      row : RowIds \cup {0}, answer : Answers]
    BY <1>1 DEF QueueTypeOK
  <2>2. tickets' \in [RowIds -> Nat]
    BY <1>1 DEF QueueTypeOK
  <2>3. lost' \in [RowIds -> Nat]
    BY <1>1 DEF QueueTypeOK
  <2> QED BY <2>1, <2>2, <2>3 DEF QueueTypeOK, Submit
<1>4. DrainIsFresh'
  BY <1>2 DEF DrainIsFresh, Submit
<1>5. TicketsAccounted'
  <2> SUFFICES ASSUME NEW r \in RowIds
               PROVE  tickets'[r] = lost'[r] +
                        (IF dispatch[r].state = "sent" \/ OkUnrecorded(r)' THEN 1 ELSE 0)
    BY DEF TicketsAccounted, Submit
  <2>1. tickets[r] \in Nat /\ lost[r] \in Nat
    BY DEF QueueTypeOK
  <2>2. tickets[r] = lost[r] + (IF dispatch[r].state = "sent" THEN 1 ELSE 0)
    BY DEF TicketsAccounted, OkUnrecorded, Submit
  <2>3. OkUnrecorded(r)' <=> r = q /\ answer = "ok"
    BY <1>2 DEF OkUnrecorded
  <2>4. CASE r = q
    <3>1. dispatch[r].state # "sent"
      BY <1>2, <2>4 DEF Live
    <3>2. /\ tickets'[q] = IF ticket THEN tickets[q] + 1 ELSE tickets[q]
          /\ lost'[q] = IF ticket /\ answer # "ok" THEN lost[q] + 1 ELSE lost[q]
      BY <1>1 DEF QueueTypeOK
    <3>3. answer = "ok" => ticket
      BY <1>1 DEF Answered
    <3> QED BY <2>1, <2>2, <2>3, <2>4, <3>1, <3>2, <3>3
  <2>5. CASE r # q
    <3>1. tickets'[r] = tickets[r] /\ lost'[r] = lost[r]
      BY <1>1, <2>5 DEF QueueTypeOK
    <3> QED BY <2>2, <2>3, <2>5, <3>1
  <2> QED BY <2>4, <2>5
<1> QED BY <1>3, <1>4, <1>5

LEMMA RecordInv == ASSUME QueueInv, NEW q \in RowIds, Record(q) PROVE QueueInv'
<1> USE DEF QueueInv
<1>1. /\ dispatch[q] \in Dispatch /\ dispatch[q].state \in Live
      /\ dispatch[q].attempts < MaxAttempts /\ drainer.answer \in Answers
      /\ q \in drainer.todo
  BY DEF Record, QueueTypeOK, DrainIsFresh
<1> DEFINE new == Attempted(dispatch[q], drainer.answer)
<1>2. /\ dispatch'[q] = new
      /\ \A r \in RowIds : r # q => dispatch'[r] = dispatch[r]
      /\ dispatch' = [dispatch EXCEPT ![q] = new]
  BY DEF Record, QueueTypeOK
<1>3. /\ new \in Dispatch /\ new.state \in Live \cup Final
      /\ new.state = "sent" <=> drainer.answer = "ok"
      /\ new.state \in Live => new.attempts < MaxAttempts
      /\ new.wait > 0 => new.state = "error"
  BY <1>1, AttemptedRow
<1> HIDE DEF new
<1>4. /\ drainer'.todo = drainer.todo \ {q}
      /\ drainer'.pc \in {"idle", "batch"}
      /\ drainer' \in [pc : {"idle", "batch", "answered"}, todo : SUBSET RowIds,
                       row : RowIds \cup {0}, answer : Answers]
  BY <1>1 DEF Record, DrainerIdle, QueueTypeOK, Answers
<1>5. QueueTypeOK'
  BY <1>2, <1>3, <1>4 DEF QueueTypeOK, Record
<1>6. DrainIsFresh'
  <2>1. lastQid' = lastQid /\ q <= lastQid
    BY <1>1 DEF Record, DrainIsFresh, NoDispatch, Live
  <2>2. \A r \in RowIds :
          IF r <= lastQid THEN dispatch'[r].state # "none" ELSE dispatch'[r] = NoDispatch
    BY <1>2, <1>3, <2>1 DEF DrainIsFresh, Live, Final
  <2>3. drainer.todo \subseteq RowIds
    BY DEF QueueTypeOK
  <2> QED BY <1>2, <1>3, <1>4, <2>1, <2>2, <2>3 DEF DrainIsFresh
<1>7. TicketsAccounted'
  <2> SUFFICES ASSUME NEW r \in RowIds
               PROVE  tickets[r] = lost[r] + (IF dispatch'[r].state = "sent" THEN 1 ELSE 0)
    BY <1>4 DEF TicketsAccounted, OkUnrecorded, Record
  <2>1. OkUnrecorded(r) <=> r = q /\ drainer.answer = "ok"
    BY DEF OkUnrecorded, Record
  <2>2. dispatch[q].state # "sent"
    BY <1>1 DEF Live
  <2> QED BY <1>2, <1>3, <2>1, <2>2 DEF TicketsAccounted
<1> QED BY <1>5, <1>6, <1>7

LEMMA DrainAbortsInv == QueueInv /\ DrainAborts => QueueInv'
<1> SUFFICES ASSUME QueueInv, DrainAborts PROVE QueueInv'
  OBVIOUS
<1> USE DEF QueueInv
<1>1. drainer' = [pc |-> "idle", todo |-> {}, row |-> 0, answer |-> "failed"]
  BY DEF DrainAborts, DrainerIdle
<1>2. \A r \in RowIds : lost'[r] = lost[r] + (IF OkUnrecorded(r) THEN 1 ELSE 0)
  BY DEF DrainAborts, OkUnrecorded, QueueTypeOK
<1>3. \A r \in RowIds : OkUnrecorded(r) => dispatch[r].state # "sent"
  BY DEF OkUnrecorded, DrainIsFresh, Live
<1>4. QueueTypeOK'
  <2>1. aborts' \in 0..MaxAborts
    BY DispatchAssumption DEF DrainAborts, QueueTypeOK
  <2>2. \A r \in RowIds : lost[r] + 1 \in Nat
    BY DEF QueueTypeOK
  <2>3. drainer.pc = "answered" => drainer.row \in RowIds
    BY DEF DrainIsFresh, QueueTypeOK
  <2>4. lost' \in [RowIds -> Nat]
    BY <2>2, <2>3 DEF DrainAborts, QueueTypeOK
  <2> QED BY <1>1, <2>1, <2>4 DEF QueueTypeOK, DrainAborts, Answers
<1>5. DrainIsFresh'
  BY <1>1 DEF DrainIsFresh, DrainAborts
<1>6. TicketsAccounted'
  BY <1>1, <1>2, <1>3 DEF TicketsAccounted, OkUnrecorded, DrainAborts, QueueTypeOK
<1> QED BY <1>4, <1>5, <1>6

LEMMA QueueNextInv == QueueInv /\ [QueueNext]_queueVars => QueueInv'
<1> SUFFICES ASSUME QueueInv, [QueueNext]_queueVars PROVE QueueInv'
  OBVIOUS
<1>1. CASE EnqueueRow
  BY <1>1, EnqueueRowInv
<1>2. CASE QueueTick
  BY <1>2, RowsAgeInv DEF QueueTick
<1>3. CASE Drain
  BY <1>3, DrainReadInv, SubmitInv, RecordInv DEF Drain
<1>4. CASE DrainAborts
  BY <1>4, DrainAbortsInv
<1>5. CASE UNCHANGED queueVars
  BY <1>5 DEF queueVars, QueueInv, QueueTypeOK, DrainIsFresh, TicketsAccounted, OkUnrecorded
<1> QED BY <1>1, <1>2, <1>3, <1>4, <1>5 DEF QueueNext

LEMMA QueueInvariant == QueueSpec => []QueueInv
<1> QED BY QueueInitInv, QueueNextInv, PTL DEF QueueSpec

(* Every variable of the ticket queue has its type in every state. *)
THEOREM QueueTypeCorrect == QueueSpec => []QueueTypeOK
BY QueueInvariant, PTL DEF QueueInv

(* The rows the drain holds while it waits for the manager are current. *)
THEOREM DrainFresh == QueueSpec => []DrainIsFresh
BY QueueInvariant, PTL DEF QueueInv

(* The manager's tickets are those of sent rows and those whose id was     *)
(* lost, and no others.                                                    *)
THEOREM TicketsCorrect == QueueSpec => []TicketsAccounted
BY QueueInvariant, PTL DEF QueueInv

LEMMA FinalRowStep ==
  ASSUME QueueInv, [QueueNext]_queueVars, NEW q \in RowIds, dispatch[q].state \in Final
  PROVE  dispatch'[q] = dispatch[q] /\ tickets'[q] = tickets[q]
<1> USE DEF QueueInv
<1>1. q \notin drainer.todo
  BY DEF DrainIsFresh, Live, Final
<1>2. CASE EnqueueRow
  <2>1. lastQid + 1 # q
    BY DEF DrainIsFresh, QueueTypeOK, RowIds, NoDispatch, Final
  <2> QED BY <1>2, <2>1 DEF EnqueueRow, QueueTypeOK
<1>3. CASE QueueTick
  <2>1. dispatch[q].wait = 0
    BY DEF DrainIsFresh, QueueTypeOK, Dispatch, Final
  <2> QED BY <1>3, <2>1 DEF QueueTick, RowsAge
<1>4. CASE DrainRead
  BY <1>4 DEF DrainRead
<1>5. ASSUME NEW r \in RowIds, Submit(r)
      PROVE  dispatch'[q] = dispatch[q] /\ tickets'[q] = tickets[q]
  BY <1>1, <1>5 DEF Submit, QueueTypeOK
<1>6. ASSUME NEW r \in RowIds, Record(r)
      PROVE  dispatch'[q] = dispatch[q] /\ tickets'[q] = tickets[q]
  <2>1. r # q
    BY <1>1, <1>6 DEF Record, DrainIsFresh
  <2> QED BY <1>6, <2>1 DEF Record, QueueTypeOK
<1>7. CASE DrainAborts
  BY <1>7 DEF DrainAborts
<1>8. CASE UNCHANGED queueVars
  BY <1>8 DEF queueVars
<1> QED BY <1>2, <1>3, <1>4, <1>5, <1>6, <1>7, <1>8 DEF QueueNext, Drain

(* No step touches a request that is sent or dead. *)
THEOREM FinalRequestsStay == QueueSpec => FinalRowsStay
<1> DEFINE Kept == \A q \in RowIds : dispatch[q].state \in Final =>
                      dispatch'[q] = dispatch[q] /\ tickets'[q] = tickets[q]
<1>1. QueueInv /\ [QueueNext]_queueVars => [Kept]_queueVars
  BY FinalRowStep
<1>2. [][Kept]_queueVars => FinalRowsStay
  BY DEF FinalRowsStay
<1> HIDE DEF Kept
<1>3. QueueSpec => [][Kept]_queueVars
  BY <1>1, QueueInvariant, PTL DEF QueueSpec
<1> QED BY <1>2, <1>3

-----------------------------------------------------------------------------
(* The ticket queue implements the abstract delivery promise. *)

LEMMA RequestsInit == QueueInit => Requests!Init
BY DEF QueueInit, Requests!Init, RequestStatus, NoDispatch, Live

(* How the mapped variables change when row q moves on. *)
LEMMA MappedStep ==
  ASSUME QueueInv, NEW q \in RowIds, NEW new,
         dispatch' = [dispatch EXCEPT ![q] = new], new.state # "none"
  PROVE  /\ [r \in RowIds |-> RequestStatus(dispatch'[r].state)]
              = [[r \in RowIds |-> RequestStatus(dispatch[r].state)]
                    EXCEPT ![q] = RequestStatus(new.state)]
         /\ [r \in RowIds |-> IF dispatch'[r].state = "none" THEN {} ELSE {"manager"}]
              = [[r \in RowIds |-> IF dispatch[r].state = "none" THEN {} ELSE {"manager"}]
                    EXCEPT ![q] = {"manager"}]
<1>1. /\ dispatch'[q] = new
      /\ \A r \in RowIds : r # q => dispatch'[r] = dispatch[r]
  BY DEF QueueInv, QueueTypeOK
<1>2. \A r \in RowIds : RequestStatus(dispatch'[r].state) =
        IF r = q THEN RequestStatus(new.state) ELSE RequestStatus(dispatch[r].state)
  BY <1>1
<1>3. \A r \in RowIds : (IF dispatch'[r].state = "none" THEN {} ELSE {"manager"}) =
        IF r = q THEN {"manager"} ELSE IF dispatch[r].state = "none" THEN {} ELSE {"manager"}
  BY <1>1
<1> QED BY <1>2, <1>3

LEMMA EnqueueAsks == ASSUME QueueInv, EnqueueRow PROVE Requests!Next
<1>0. PICK k \in RowIds : k = lastQid + 1
  BY DispatchAssumption DEF EnqueueRow, QueueInv, QueueTypeOK, RowIds
<1>1. dispatch[k] = NoDispatch
  BY <1>0 DEF QueueInv, QueueTypeOK, DrainIsFresh, RowIds
<1>2. dispatch' = [dispatch EXCEPT ![k] = NewDispatch] /\ tickets' = tickets
  BY <1>0 DEF EnqueueRow
<1>3. NewDispatch.state # "none" /\ RequestStatus(NewDispatch.state) = "queued"
  BY DEF NewDispatch, RequestStatus, Live
<1>4. RequestStatus(dispatch[k].state) = "none"
  BY <1>1 DEF NoDispatch, RequestStatus, Live
<1>5. /\ [r \in RowIds |-> RequestStatus(dispatch'[r].state)]
           = [[r \in RowIds |-> RequestStatus(dispatch[r].state)] EXCEPT ![k] = "queued"]
      /\ [r \in RowIds |-> IF dispatch'[r].state = "none" THEN {} ELSE {"manager"}]
           = [[r \in RowIds |-> IF dispatch[r].state = "none" THEN {} ELSE {"manager"}]
                 EXCEPT ![k] = {"manager"}]
  BY <1>2, <1>3, MappedStep
<1>6. {"manager"} \in SUBSET {"manager"}
  OBVIOUS
<1>7. Requests!Accept(k)
  BY <1>2, <1>4, <1>5, <1>6 DEF Requests!Accept
<1> QED BY <1>7 DEF Requests!Next

LEMMA SubmitTransmits ==
  ASSUME QueueInv, NEW q \in RowIds, Submit(q) PROVE Requests!Next
<1>1. dispatch[q].state \in Live /\ dispatch' = dispatch
  BY DEF Submit, QueueInv, DrainIsFresh
<1>2. RequestStatus(dispatch[q].state) = "queued" /\ dispatch[q].state # "none"
  BY <1>1 DEF RequestStatus, Live
<1>3. PICK ticket \in BOOLEAN :
        tickets' = IF ticket THEN [tickets EXCEPT ![q] = @ + 1] ELSE tickets
  BY DEF Submit
<1> DEFINE A == IF ticket THEN {"manager"} ELSE {}
<1>4. \A r \in RowIds : tickets'[r] =
        IF r = q /\ "manager" \in A THEN tickets[r] + 1 ELSE tickets[r]
  BY <1>3 DEF QueueInv, QueueTypeOK
<1>5. [r \in RowIds |-> [a \in {"manager"} |-> tickets'[r]]]
        = [[r \in RowIds |-> [a \in {"manager"} |-> tickets[r]]] EXCEPT ![q] =
             [a \in {"manager"} |-> IF a \in A THEN @[a] + 1 ELSE @[a]]]
  BY <1>4
<1>6. A \in SUBSET (IF dispatch[q].state = "none" THEN {} ELSE {"manager"})
  BY <1>2
<1> HIDE DEF A
<1>7. Requests!Transmit(q)
  BY <1>1, <1>2, <1>5, <1>6 DEF Requests!Transmit
<1> QED BY <1>7 DEF Requests!Next

LEMMA RecordSettles ==
  ASSUME QueueInv, NEW q \in RowIds, Record(q)
  PROVE  Requests!Next \/ UNCHANGED Requests!vars
<1> DEFINE new == Attempted(dispatch[q], drainer.answer)
<1>1. /\ dispatch[q] \in Dispatch /\ dispatch[q].state \in Live
      /\ dispatch[q].attempts < MaxAttempts /\ drainer.answer \in Answers
  BY DEF Record, QueueInv, QueueTypeOK, DrainIsFresh
<1>2. new.state \in Live \cup Final /\ (new.state = "sent" <=> drainer.answer = "ok")
  BY <1>1, AttemptedRow
<1>3. dispatch' = [dispatch EXCEPT ![q] = new] /\ tickets' = tickets
  BY DEF Record
<1> HIDE DEF new
<1>4. new.state # "none" /\ RequestStatus(dispatch[q].state) = "queued"
      /\ dispatch[q].state # "none"
  BY <1>1, <1>2 DEF Live, Final, RequestStatus
<1>5. /\ [r \in RowIds |-> RequestStatus(dispatch'[r].state)]
           = [[r \in RowIds |-> RequestStatus(dispatch[r].state)]
                 EXCEPT ![q] = RequestStatus(new.state)]
      /\ [r \in RowIds |-> IF dispatch'[r].state = "none" THEN {} ELSE {"manager"}]
           = [r \in RowIds |-> IF dispatch[r].state = "none" THEN {} ELSE {"manager"}]
  BY <1>3, <1>4, MappedStep
<1>6. CASE new.state = "sent"
  <2>1. RequestStatus(new.state) = "delivered"
    BY <1>6 DEF RequestStatus, Live
  <2>2. tickets[q] > 0
    BY <1>2, <1>6 DEF Record, QueueInv, TicketsAccounted, OkUnrecorded, QueueTypeOK
  <2>3. Requests!Settle(q)
    BY <1>3, <1>4, <1>5, <2>1, <2>2 DEF Requests!Settle
  <2> QED BY <2>3 DEF Requests!Next
<1>7. CASE new.state = "dead"
  <2>1. RequestStatus(new.state) = "quarantined"
    BY <1>7 DEF RequestStatus, Live
  <2>2. Requests!Settle(q)
    BY <1>3, <1>4, <1>5, <2>1 DEF Requests!Settle
  <2> QED BY <2>2 DEF Requests!Next
<1>8. CASE new.state \in Live
  <2>1. RequestStatus(new.state) = "queued"
    BY <1>8 DEF RequestStatus
  <2>2. [r \in RowIds |-> RequestStatus(dispatch'[r].state)]
          = [r \in RowIds |-> RequestStatus(dispatch[r].state)]
    BY <1>4, <1>5, <2>1
  <2> QED BY <1>3, <1>5, <2>2 DEF Requests!vars
<1> QED BY <1>2, <1>6, <1>7, <1>8 DEF Final

LEMMA TickAsksNothing == ASSUME QueueInv, QueueTick PROVE UNCHANGED Requests!vars
<1>1. \A q \in RowIds : dispatch'[q].state = dispatch[q].state
  <2> SUFFICES ASSUME NEW q \in RowIds PROVE dispatch'[q].state = dispatch[q].state
    OBVIOUS
  <2>1. dispatch[q] \in Dispatch
    BY DEF QueueInv, QueueTypeOK
  <2>2. dispatch'[q] = IF dispatch[q].wait > 0
                       THEN [dispatch[q] EXCEPT !.wait = @ - 1] ELSE dispatch[q]
    BY DEF QueueTick, RowsAge
  <2> QED BY <2>1, <2>2 DEF Dispatch
<1> QED BY <1>1 DEF QueueTick, Requests!vars

LEMMA RequestsStep ==
  QueueInv /\ [QueueNext]_queueVars => [Requests!Next]_(Requests!vars)
<1> SUFFICES ASSUME QueueInv, [QueueNext]_queueVars
             PROVE  [Requests!Next]_(Requests!vars)
  OBVIOUS
<1>1. CASE EnqueueRow
  BY <1>1, EnqueueAsks
<1>2. CASE QueueTick
  BY <1>2, TickAsksNothing
<1>3. CASE DrainRead
  BY <1>3 DEF DrainRead, Requests!vars
<1>4. CASE \E q \in RowIds : Submit(q)
  BY <1>4, SubmitTransmits
<1>5. CASE \E q \in RowIds : Record(q)
  BY <1>5, RecordSettles
<1>6. CASE DrainAborts
  BY <1>6 DEF DrainAborts, Requests!vars
<1>7. CASE UNCHANGED queueVars
  BY <1>7 DEF queueVars, Requests!vars
<1> QED BY <1>1, <1>2, <1>3, <1>4, <1>5, <1>6, <1>7 DEF QueueNext, Drain

(* Asking for tickets is a delivery of mails to the manager. *)
THEOREM RequestsRefine == QueueSpec => ImplementsRequests
BY RequestsInit, RequestsStep, QueueInvariant, PTL
   DEF QueueSpec, ImplementsRequests, Requests!Safety

-----------------------------------------------------------------------------
(* The aggregations.                                                       *)

(* What the operations on one occurrence make of it. *)
LEMMA OccurrenceOps ==
  ASSUME NEW o \in Occurrence, NEW s \in Senders
  PROVE  /\ Inserted(s) \in Occurrence
         /\ Inserted(s).exists /\ Inserted(s).ticket = NoTicket /\ ~Inserted(s).armed
         /\ Restarted(o, s) \in Occurrence
         /\ Restarted(o, s).ticket = NoTicket /\ Restarted(o, s).armed = o.armed
         /\ Counted(o, s) \in Occurrence
         /\ Counted(o, s).ticket = o.ticket /\ Counted(o, s).armed = o.armed
         /\ Counted(o, s).exists
         /\ Cleared(o) \in Occurrence
         /\ Cleared(o).ticket = NoTicket /\ ~Cleared(o).armed
<1>1. NoTicket \in TicketIds
  BY DEF NoTicket, TicketIds
<1>2. Threshold \in Nat \ {0} /\ Window \in Nat /\ Delay \in Nat
  BY AggregationAssumption
<1>3. /\ o.exists \in BOOLEAN /\ o.count \in 0..Threshold /\ o.from \in Senders
      /\ o.ticket \in TicketIds /\ o.armed \in BOOLEAN /\ o.wait \in 0..Delay
      /\ o.left \in 0..Window /\ o.seen \in 0..Window
  BY DEF Occurrence
<1>4. /\ Inserted(s) \in Occurrence
      /\ Inserted(s).exists /\ Inserted(s).ticket = NoTicket /\ ~Inserted(s).armed
  BY <1>1, <1>2 DEF Inserted, Occurrence
<1>5. /\ Restarted(o, s) \in Occurrence
      /\ Restarted(o, s).ticket = NoTicket /\ Restarted(o, s).armed = o.armed
  BY <1>1, <1>2, <1>3 DEF Restarted, Occurrence
<1>6. /\ Counted(o, s) \in Occurrence
      /\ Counted(o, s).ticket = o.ticket /\ Counted(o, s).armed = o.armed
      /\ Counted(o, s).exists
  BY <1>2, <1>3 DEF Counted, Occurrence
<1>7. /\ Cleared(o) \in Occurrence
      /\ Cleared(o).ticket = NoTicket /\ ~Cleared(o).armed
  BY <1>1, <1>2 DEF Cleared, Occurrence
<1> QED BY <1>4, <1>5, <1>6, <1>7

LEMMA TicketOps ==
  ASSUME NEW o \in Occurrence, NEW q \in RowIds
  PROVE  /\ Marked(o, q) \in Occurrence
         /\ Marked(o, q).exists = o.exists
         /\ o.exists => Marked(o, q).ticket = Placeholder(q)
         /\ ~o.exists => Marked(o, q) = o
         /\ Placeholder(q) # NoTicket /\ Placeholder(q).row = q
         /\ Placeholder(q).kind = "placeholder"
         /\ Replaced(o, q) \in Occurrence
         /\ Replaced(o, q).exists = o.exists /\ Replaced(o, q).armed = o.armed
         /\ Replaced(o, q).ticket =
              IF o.ticket.kind = "placeholder" THEN Ticket(q) ELSE o.ticket
         /\ o.ticket = NoTicket <=> Replaced(o, q).ticket = NoTicket
         /\ Ticket(q).row = q /\ Ticket(q).kind = "ticket"
<1>1. Placeholder(q) \in TicketIds /\ Ticket(q) \in TicketIds
  BY DEF Placeholder, Ticket, TicketIds
<1>2. Delay \in Nat
  BY AggregationAssumption
<1>3. /\ Placeholder(q) # NoTicket /\ Ticket(q) # NoTicket
      /\ Placeholder(q).row = q /\ Placeholder(q).kind = "placeholder"
      /\ Ticket(q).row = q /\ Ticket(q).kind = "ticket"
  BY DEF Placeholder, Ticket, NoTicket
<1>8. /\ o.exists \in BOOLEAN /\ o.count \in 0..Threshold /\ o.from \in Senders
      /\ o.ticket \in TicketIds /\ o.armed \in BOOLEAN /\ o.wait \in 0..Delay
      /\ o.left \in 0..Window /\ o.seen \in 0..Window
  BY DEF Occurrence
<1>4. /\ Marked(o, q) \in Occurrence /\ Marked(o, q).exists = o.exists
      /\ o.exists => Marked(o, q).ticket = Placeholder(q)
      /\ ~o.exists => Marked(o, q) = o
  <2>1. CASE o.exists
    BY <1>1, <1>2, <1>8, <2>1 DEF Marked, Occurrence
  <2>2. CASE ~o.exists
    BY <2>2 DEF Marked
  <2> QED BY <2>1, <2>2
<1>6. /\ Replaced(o, q) \in Occurrence
      /\ Replaced(o, q).exists = o.exists /\ Replaced(o, q).armed = o.armed
      /\ Replaced(o, q).ticket =
            IF o.ticket.kind = "placeholder" THEN Ticket(q) ELSE o.ticket
  BY <1>1 DEF Replaced, Occurrence
<1>7. o.ticket = NoTicket => o.ticket.kind # "placeholder"
  BY DEF NoTicket
<1> QED BY <1>3, <1>4, <1>6, <1>7

LEMMA ArmedOps ==
  ASSUME NEW o \in Occurrence
  PROVE  Armed(o) \in Occurrence /\ Armed(o).exists = o.exists /\ Armed(o).ticket = o.ticket
<1>1. /\ o.exists \in BOOLEAN /\ o.count \in 0..Threshold /\ o.from \in Senders
      /\ o.ticket \in TicketIds /\ o.armed \in BOOLEAN /\ o.wait \in 0..Delay
      /\ o.left \in 0..Window /\ o.seen \in 0..Window
  BY DEF Occurrence
<1>2. CASE ~o.exists \/ o.armed
  BY <1>2 DEF Armed
<1>3. CASE o.exists /\ ~o.armed
  BY <1>1, <1>3, AggregationAssumption DEF Armed, Occurrence
<1> QED BY <1>1, <1>2, <1>3

LEMMA InitIInv == Init => IInv
<1> SUFFICES ASSUME Init PROVE IInv
  OBVIOUS
<1>1. QueueInv
  BY QueueInitInv DEF Init
<1>2. NoOcc \in Occurrence
  BY AggregationAssumption DEF NoOcc, Occurrence, TicketIds, NoTicket
<1>3. TypeOK
  BY <1>1, <1>2, AggregationAssumption
     DEF Init, QueueInv, TypeOK, ListenerIdle, PassIdle
<1>4. lastQid = 0
  BY DEF Init, QueueInit
<1>5. StepsAgree
  BY <1>4 DEF Init, StepsAgree, ListenerIdle, PassIdle, NoOcc
<1>6. OneTicketPerIncident /\ TicketBelongs
  BY DEF Init, OneTicketPerIncident, TicketBelongs, NoOcc
<1> QED BY <1>1, <1>3, <1>5, <1>6 DEF IInv

(* Steps that leave the queue alone, or only end early. *)
LEMMA QueueKept ==
  ASSUME QueueInv, UNCHANGED <<lastQid, dispatch, drainer, tickets, lost>>,
         aborts' \in 0..MaxAborts
  PROVE  QueueInv'
BY DEF QueueInv, QueueTypeOK, DrainIsFresh, TicketsAccounted, OkUnrecorded

(* Rows do not go away, and one that is sent stays sent: so a ticket an    *)
(* occurrence shows stays the ticket of its fingerprint.                   *)
LEMMA BelongsLater ==
  ASSUME TypeOK, TicketBelongs, lastQid' \in Nat, lastQid <= lastQid',
         \A q \in 1..lastQid :
            /\ about'[q] = about[q]
            /\ dispatch[q].state = "sent" /\ tickets[q] > 0
                 => dispatch'[q].state = "sent" /\ tickets'[q] > 0,
         \A f \in Fingerprints :
            \/ occ'[f].ticket \in {NoTicket, occ[f].ticket}
            \/ \E q \in 1..lastQid :
                  /\ about[q] = f
                  /\ \/ occ'[f].ticket = Placeholder(q)
                     \/ /\ occ'[f].ticket = Ticket(q)
                        /\ dispatch'[q].state = "sent" /\ tickets'[q] > 0
  PROVE  TicketBelongs'
<1> SUFFICES ASSUME NEW f \in Fingerprints, occ'[f].ticket # NoTicket
             PROVE  LET q == occ'[f].ticket.row IN
                    /\ q \in 1..lastQid' /\ about'[q] = f
                    /\ occ'[f].ticket.kind = "ticket"
                         => dispatch'[q].state = "sent" /\ tickets'[q] > 0
  BY DEF TicketBelongs
<1>1. lastQid \in Nat
  BY DispatchAssumption DEF TypeOK, QueueTypeOK
<1>2. CASE occ'[f].ticket = occ[f].ticket
  BY <1>1, <1>2 DEF TicketBelongs
<1>3. ASSUME NEW q \in 1..lastQid, about[q] = f,
             \/ occ'[f].ticket = Placeholder(q)
             \/ /\ occ'[f].ticket = Ticket(q)
                /\ dispatch'[q].state = "sent" /\ tickets'[q] > 0
      PROVE  LET r == occ'[f].ticket.row IN
             /\ r \in 1..lastQid' /\ about'[r] = f
             /\ occ'[f].ticket.kind = "ticket"
                  => dispatch'[r].state = "sent" /\ tickets'[r] > 0
  BY <1>1, <1>3 DEF Placeholder, Ticket
<1> QED BY <1>2, <1>3

(* Only asking for a ticket raises asked; whoever asked marks the          *)
(* occurrence, unless it dies.                                             *)
LEMMA OneTicketLater ==
  ASSUME TypeOK, OneTicketPerIncident, aborts' \in Nat, aborts <= aborts',
         \A f \in Fingerprints : occ'[f].exists =>
            \/ asked'[f] = 0
            \/ /\ occ[f].exists /\ asked'[f] = asked[f]
               /\ \/ occ[f].ticket = NoTicket /\ ~Marking(f)
                  \/ occ'[f].ticket # NoTicket \/ Marking(f)'
                  \/ aborts < aborts'
  PROVE  OneTicketPerIncident'
<1>1. aborts \in Nat /\ \A f \in Fingerprints : asked[f] \in Nat
  BY DispatchAssumption DEF TypeOK, QueueTypeOK
<1> QED BY <1>1 DEF OneTicketPerIncident

LEMMA FindInv ==
  ASSUME IInv, NEW f \in Fingerprints, NEW s \in Senders, Find(f, s)
  PROVE  IInv'
<1> USE DEF IInv, Find, queueVars
<1>1. QueueInv'
  BY QueueKept DEF QueueInv, QueueTypeOK
<1>2. TypeOK'
  <2>1. listener' \in [pc : {"idle", "found", "arming", "opening", "marking"},
                     fp : Fingerprints \cup {NoFp}, from : Senders,
                     expired : BOOLEAN, row : RowIds \cup {0}]
    <3>1. (occ[f].exists /\ occ[f].left = 0) \in BOOLEAN
      OBVIOUS
    <3> QED BY <3>1
  <2>2. mails' \in 0..MaxMails
    BY AggregationAssumption DEF TypeOK
  <2> QED BY <1>1, <2>1, <2>2 DEF QueueInv, TypeOK
<1>3. StepsAgree'
  BY DEF StepsAgree, TypeOK
<1>4. OneTicketPerIncident'
  BY DEF OneTicketPerIncident, Marking
<1>5. TicketBelongs'
  BY DEF TicketBelongs
<1> QED BY <1>1, <1>2, <1>3, <1>4, <1>5

LEMMA ResetInv ==
  ASSUME IInv, NEW s \in Senders, Reset(s)
  PROVE  IInv'
<1> USE DEF IInv, Reset, queueVars
<1>1. \A f \in Fingerprints :
        /\ occ'[f] \in Occurrence
        /\ occ'[f].exists = occ[f].exists
        /\ occ'[f].ticket \in {NoTicket, occ[f].ticket}
        /\ occ'[f].armed => occ[f].armed
        /\ asked'[f] = 0 \/ (occ'[f] = occ[f] /\ asked'[f] = asked[f])
        /\ asked'[f] \in Nat
  <2> SUFFICES ASSUME NEW f \in Fingerprints
               PROVE  /\ occ'[f] \in Occurrence
                      /\ occ'[f].exists = occ[f].exists
                      /\ occ'[f].ticket \in {NoTicket, occ[f].ticket}
                      /\ occ'[f].armed => occ[f].armed
                      /\ asked'[f] = 0 \/ (occ'[f] = occ[f] /\ asked'[f] = asked[f])
                      /\ asked'[f] \in Nat
    OBVIOUS
  <2>1. occ[f] \in Occurrence /\ asked[f] \in Nat
    BY DEF TypeOK
  <2>2. CASE ResetBy(occ[f], s)
    <3>1. occ'[f] = Cleared(occ[f]) /\ asked'[f] = 0
      BY <2>2
    <3>2. /\ Cleared(occ[f]) \in Occurrence
          /\ Cleared(occ[f]).ticket = NoTicket /\ ~Cleared(occ[f]).armed
          /\ Cleared(occ[f]).exists = occ[f].exists
      BY <2>1, OccurrenceOps, AggregationAssumption DEF Cleared
    <3>3. occ'[f] \in Occurrence /\ occ'[f].exists = occ[f].exists
      BY <3>1, <3>2
    <3>4. occ'[f].ticket = NoTicket /\ ~occ'[f].armed
      BY <3>1, <3>2
    <3> QED BY <3>1, <3>3, <3>4
  <2>3. CASE ~ResetBy(occ[f], s)
    BY <2>1, <2>3
  <2> QED BY <2>2, <2>3
<1>2. QueueInv'
  BY QueueKept DEF QueueInv, QueueTypeOK
<1>3. TypeOK'
  BY <1>1, <1>2, AggregationAssumption DEF QueueInv, TypeOK
<1>4. StepsAgree'
  BY <1>1 DEF StepsAgree, TypeOK
<1>5. OneTicketPerIncident'
  BY <1>1 DEF OneTicketPerIncident, Marking, TypeOK, QueueTypeOK
<1>6. TicketBelongs'
  BY <1>1 DEF TicketBelongs
<1> QED BY <1>2, <1>3, <1>4, <1>5, <1>6

LEMMA UpsertInv ==
  ASSUME IInv, NEW f \in Fingerprints, Upsert(f)
  PROVE  IInv'
<1> USE DEF IInv
<1>0. /\ listener.pc = "found" /\ f = listener.fp /\ UNCHANGED <<queueVars, present, about, pass, mails>>
      /\ listener.from \in Senders /\ occ[f] \in Occurrence
  BY DEF Upsert, TypeOK
<1> DEFINE o == occ[f]
           s == listener.from
           Ins == Inserted(s)
           Res == Restarted(o, s)
           Cnt == Counted(o, s)
<1>8. /\ Ins \in Occurrence /\ Ins.exists /\ Ins.ticket = NoTicket /\ ~Ins.armed
      /\ Res \in Occurrence /\ Res.exists /\ Res.ticket = NoTicket /\ Res.armed = o.armed
      /\ Cnt \in Occurrence /\ Cnt.exists /\ Cnt.ticket = o.ticket /\ Cnt.armed = o.armed
  <2>1. Res.exists
    BY DEF Restarted
  <2> QED BY <1>0, <2>1, OccurrenceOps
<1> HIDE DEF Ins, Res, Cnt
<1>9. \/ /\ ~o.exists /\ occ' = [occ EXCEPT ![f] = Ins] /\ NewIncident(f)
         /\ Proceed(f, ShouldOpen(1, FALSE, FALSE), TRUE)
      \/ /\ o.exists /\ occ' = [occ EXCEPT ![f] = Res] /\ NewIncident(f)
         /\ Proceed(f, ShouldOpen(1, TRUE, FALSE), TRUE)
      \/ /\ o.exists /\ occ' = [occ EXCEPT ![f] = Cnt] /\ UNCHANGED asked
         /\ Proceed(f, ShouldOpen(o.count + 1, FALSE, o.ticket # NoTicket), FALSE)
  BY DEF Upsert, Ins, Res, Cnt
<1>10. occ \in [Fingerprints -> Occurrence] /\ asked \in [Fingerprints -> Nat]
  BY DEF TypeOK
<1>1. /\ occ'[f] \in Occurrence /\ occ'[f].exists
      /\ occ'[f].ticket \in {NoTicket, o.ticket}
      /\ occ'[f].armed => o.exists /\ o.armed
      /\ asked'[f] = 0 \/ (o.exists /\ occ'[f].ticket = o.ticket /\ asked' = asked)
      /\ occ' = [occ EXCEPT ![f] = occ'[f]]
      /\ asked' = [asked EXCEPT ![f] = asked'[f]]
      /\ asked'[f] \in Nat
  <2>1. CASE ~o.exists /\ occ' = [occ EXCEPT ![f] = Ins] /\ NewIncident(f)
    <3>1. occ'[f] = Ins /\ asked'[f] = 0 /\ asked' = [asked EXCEPT ![f] = 0]
      BY <1>10, <2>1 DEF NewIncident
    <3>2. occ' = [occ EXCEPT ![f] = occ'[f]] /\ asked' = [asked EXCEPT ![f] = asked'[f]]
      BY <2>1, <3>1
    <3> QED BY <1>8, <3>1, <3>2
  <2>2. CASE o.exists /\ occ' = [occ EXCEPT ![f] = Res] /\ NewIncident(f)
    <3>1. occ'[f] = Res /\ asked'[f] = 0 /\ asked' = [asked EXCEPT ![f] = 0]
      BY <1>10, <2>2 DEF NewIncident
    <3>2. occ' = [occ EXCEPT ![f] = occ'[f]] /\ asked' = [asked EXCEPT ![f] = asked'[f]]
      BY <2>2, <3>1
    <3> QED BY <1>8, <2>2, <3>1, <3>2
  <2>3. CASE o.exists /\ occ' = [occ EXCEPT ![f] = Cnt] /\ UNCHANGED asked
    BY <1>8, <1>10, <2>3
  <2> QED BY <1>9, <2>1, <2>2, <2>3
<1>2. \/ listener' = ListenerIdle
      \/ Delay > 0 /\ listener' = [listener EXCEPT !.pc = "arming"]
      \/ /\ Delay = 0 /\ listener' = [listener EXCEPT !.pc = "opening"]
         /\ occ'[f].ticket = NoTicket
  <2>1. CASE /\ occ' = [occ EXCEPT ![f] = Ins]
             /\ Proceed(f, ShouldOpen(1, FALSE, FALSE), TRUE)
    BY <1>8, <1>10, <2>1 DEF Proceed
  <2>2. CASE /\ occ' = [occ EXCEPT ![f] = Res]
             /\ Proceed(f, ShouldOpen(1, TRUE, FALSE), TRUE)
    BY <1>8, <1>10, <2>2 DEF Proceed
  <2>3. CASE /\ occ' = [occ EXCEPT ![f] = Cnt]
             /\ Proceed(f, ShouldOpen(o.count + 1, FALSE, o.ticket # NoTicket), FALSE)
    BY <1>8, <1>10, <2>3 DEF Proceed, ShouldOpen
  <2> QED BY <1>9, <2>1, <2>2, <2>3
<1>3. QueueInv'
  BY <1>0, QueueKept DEF queueVars, QueueInv, QueueTypeOK
<1>4. TypeOK'
  <2>1. listener' \in [pc : {"idle", "found", "arming", "opening", "marking"},
                     fp : Fingerprints \cup {NoFp}, from : Senders,
                     expired : BOOLEAN, row : RowIds \cup {0}]
    <3>1. CASE listener' = ListenerIdle
      BY <3>1, AggregationAssumption DEF ListenerIdle
    <3>2. CASE \E p \in {"arming", "opening"} : listener' = [listener EXCEPT !.pc = p]
      BY <3>2 DEF TypeOK
    <3> QED BY <1>2, <3>1, <3>2
  <2> QED BY <1>0, <1>1, <1>3, <2>1 DEF QueueInv, TypeOK
<1>5. StepsAgree'
  <2>1. \A g \in Fingerprints : g # f => occ'[g] = occ[g]
    BY <1>1 DEF TypeOK
  <2>2. Delay = 0 => /\ pass'.pc = "idle" /\ listener'.pc # "arming"
                     /\ \A g \in Fingerprints : ~occ'[g].armed
    BY <1>0, <1>1, <1>2, <2>1, AggregationAssumption DEF StepsAgree, ListenerIdle, TypeOK
  <2>3. /\ Delay > 0 => listener'.pc \notin {"opening", "marking"}
        /\ listener'.pc # "idle" => listener'.fp = f
        /\ listener'.pc = "opening" => occ'[f].ticket = NoTicket
        /\ listener'.pc # "marking"
    BY <1>0, <1>2, AggregationAssumption DEF StepsAgree, ListenerIdle, TypeOK
  <2>4. \A g \in pass.todo : occ'[g].ticket = NoTicket
    BY <1>1, <2>1 DEF StepsAgree, TypeOK
  <2> QED BY <1>0, <2>2, <2>3, <2>4 DEF StepsAgree, queueVars, TypeOK
<1>6. OneTicketPerIncident'
  <2>1. \A g \in Fingerprints : Marking(g) => Marking(g)'
    BY <1>0 DEF Marking
  <2>2. \A g \in Fingerprints : g # f => occ'[g] = occ[g] /\ asked'[g] = asked[g]
    BY <1>1 DEF TypeOK
  <2> QED BY <1>0, <1>1, <2>1, <2>2 DEF OneTicketPerIncident, queueVars, TypeOK, QueueTypeOK
<1>7. TicketBelongs'
  <2>1. \A g \in Fingerprints : occ'[g].ticket \in {NoTicket, occ[g].ticket}
    BY <1>1 DEF TypeOK
  <2> QED BY <1>0, <2>1 DEF TicketBelongs, queueVars
<1> QED BY <1>3, <1>4, <1>5, <1>6, <1>7

LEMMA ArmInv ==
  ASSUME IInv, NEW f \in Fingerprints, Arm(f)
  PROVE  IInv'
<1> USE DEF IInv
<1> DEFINE a == Armed(occ[f])
<1>1. /\ listener.pc = "arming" /\ f = listener.fp /\ listener' = ListenerIdle
      /\ occ' = [occ EXCEPT ![f] = a]
      /\ UNCHANGED <<queueVars, present, about, pass, mails, asked>>
  BY DEF Arm
<1>2. a \in Occurrence /\ a.exists = occ[f].exists /\ a.ticket = occ[f].ticket
  <2>1. occ[f] \in Occurrence
    BY DEF TypeOK
  <2> QED BY <2>1, ArmedOps
<1> HIDE DEF a
<1>3. \A g \in Fingerprints :
        /\ occ'[g] \in Occurrence
        /\ occ'[g].exists = occ[g].exists /\ occ'[g].ticket = occ[g].ticket
  BY <1>1, <1>2 DEF TypeOK
<1>4. Delay > 0
  BY <1>1, AggregationAssumption DEF StepsAgree
<1>5. QueueInv'
  BY <1>1, QueueKept DEF queueVars, QueueInv, QueueTypeOK
<1>6. TypeOK'
  BY <1>1, <1>2, <1>5, AggregationAssumption DEF QueueInv, TypeOK, ListenerIdle
<1>7. StepsAgree'
  BY <1>1, <1>3, <1>4 DEF StepsAgree, ListenerIdle, queueVars, TypeOK
<1>8. OneTicketPerIncident'
  <2>1. \A g \in Fingerprints : Marking(g) => Marking(g)'
    BY <1>1 DEF Marking
  <2> QED BY <1>1, <1>3, <2>1 DEF OneTicketPerIncident, queueVars, TypeOK, QueueTypeOK
<1>9. TicketBelongs'
  BY <1>1, <1>3 DEF TicketBelongs, queueVars
<1> QED BY <1>5, <1>6, <1>7, <1>8, <1>9

(* What either way of asking for a ticket has in common. *)
LEMMA EnqueueForFacts ==
  ASSUME IInv, NEW f \in Fingerprints, EnqueueFor(f), occ' = occ,
         occ[f].ticket = NoTicket
  PROVE  /\ QueueInv'
         /\ lastQid' \in RowIds /\ lastQid' = lastQid + 1 /\ lastQid \in Nat
         /\ about' \in [RowIds -> Fingerprints \cup {NoFp}]
         /\ asked' \in [Fingerprints -> Nat]
         /\ about'[lastQid'] = f
         /\ \A q \in 1..lastQid : about'[q] = about[q]
         /\ \A g \in Fingerprints :
               asked'[g] = IF g = f THEN asked[g] + 1 ELSE asked[g]
         /\ aborts' = aborts
         /\ TicketBelongs'
<1> USE DEF IInv, EnqueueFor
<1>1. QueueInv'
  BY EnqueueRowInv
<1>2. /\ lastQid' \in RowIds /\ lastQid' = lastQid + 1 /\ lastQid \in Nat
      /\ aborts' = aborts /\ tickets' = tickets
      /\ \A q \in RowIds : q # lastQid' => dispatch'[q] = dispatch[q]
  BY DispatchAssumption DEF EnqueueRow, QueueInv, QueueTypeOK, RowIds
<1>3. /\ about' \in [RowIds -> Fingerprints \cup {NoFp}]
      /\ asked' \in [Fingerprints -> Nat]
      /\ about'[lastQid'] = f
      /\ \A g \in Fingerprints :
            asked'[g] = IF g = f THEN asked[g] + 1 ELSE asked[g]
      /\ \A q \in RowIds : q # lastQid' => about'[q] = about[q]
  BY <1>2 DEF TypeOK
<1>4. \A q \in 1..lastQid : q \in RowIds /\ q # lastQid'
  BY <1>2, DispatchAssumption DEF RowIds
<1>5. TicketBelongs'
  <2>1. \A q \in 1..lastQid :
            /\ about'[q] = about[q]
            /\ dispatch[q].state = "sent" /\ tickets[q] > 0
                 => dispatch'[q].state = "sent" /\ tickets'[q] > 0
    BY <1>2, <1>3, <1>4
  <2>2. lastQid' \in Nat /\ lastQid <= lastQid'
    BY <1>2
  <2> QED BY <2>1, <2>2, BelongsLater
<1> QED BY <1>1, <1>2, <1>3, <1>4, <1>5

LEMMA OpenInv ==
  ASSUME IInv, NEW f \in Fingerprints, Open(f)
  PROVE  IInv'
<1>1. /\ listener.pc = "opening" /\ f = listener.fp
      /\ listener' = [listener EXCEPT !.pc = "marking", !.row = lastQid + 1]
      /\ UNCHANGED <<present, occ, pass, mails>>
  BY DEF Open
<1>2. occ[f].ticket = NoTicket
  BY <1>1 DEF IInv, StepsAgree
<1>3. /\ QueueInv'
      /\ lastQid' \in RowIds /\ lastQid' = lastQid + 1 /\ lastQid \in Nat
      /\ about' \in [RowIds -> Fingerprints \cup {NoFp}]
      /\ asked' \in [Fingerprints -> Nat]
      /\ about'[lastQid'] = f
      /\ \A q \in 1..lastQid : about'[q] = about[q]
      /\ \A g \in Fingerprints :
            asked'[g] = IF g = f THEN asked[g] + 1 ELSE asked[g]
      /\ aborts' = aborts
      /\ TicketBelongs'
  BY <1>1, <1>2, EnqueueForFacts DEF Open
<1>4. /\ listener'.pc = "marking" /\ listener'.fp = f /\ listener'.row = lastQid'
      /\ listener' \in [pc : {"idle", "found", "arming", "opening", "marking"},
                     fp : Fingerprints \cup {NoFp}, from : Senders,
                     expired : BOOLEAN, row : RowIds \cup {0}]
  BY <1>1, <1>3 DEF IInv, TypeOK
<1>5. TypeOK'
  BY <1>1, <1>3, <1>4 DEF IInv, QueueInv, TypeOK
<1>6. \A q \in 1..lastQid' : about'[q] \in Fingerprints
  BY <1>3 DEF IInv, StepsAgree
<1>7. StepsAgree'
  <2>1. Delay = 0 /\ pass.pc = "idle" /\ lastQid' \in 1..lastQid'
    BY <1>1, <1>3, AggregationAssumption DEF IInv, StepsAgree
  <2>2. about'[listener'.row] = listener'.fp /\ listener'.row \in 1..lastQid'
    BY <1>3, <1>4, <2>1
  <2> QED BY <1>1, <1>4, <1>6, <2>1, <2>2 DEF IInv, StepsAgree
<1>8. OneTicketPerIncident'
  <2>1. \A g \in Fingerprints : g # f => Marking(g) = Marking(g)'
    BY <1>1, <1>4 DEF Marking
  <2>2. Marking(f)' /\ ~Marking(f)
    BY <1>1, <1>4, AggregationAssumption DEF Marking, IInv, StepsAgree
  <2>3. aborts \in Nat /\ \A g \in Fingerprints : asked[g] \in Nat
    BY DispatchAssumption DEF IInv, TypeOK, QueueTypeOK
  <2> SUFFICES ASSUME NEW g \in Fingerprints, occ[g].exists
               PROVE asked'[g] <= aborts + (IF occ[g].ticket # NoTicket \/ Marking(g)' THEN 1 ELSE 0)
    BY <1>1, <1>3 DEF OneTicketPerIncident
  <2>4. CASE g = f
    BY <1>2, <1>3, <2>2, <2>3, <2>4 DEF IInv, OneTicketPerIncident
  <2>5. CASE g # f
    BY <1>3, <2>1, <2>3, <2>5 DEF IInv, OneTicketPerIncident
  <2> QED BY <2>4, <2>5
<1> QED BY <1>3, <1>5, <1>7, <1>8 DEF IInv

LEMMA MarkInv ==
  ASSUME IInv, NEW f \in Fingerprints, Mark(f)
  PROVE  IInv'
<1> USE DEF IInv
<1> DEFINE m == Marked(occ[f], listener.row)
<1>1. /\ listener.pc = "marking" /\ f = listener.fp /\ listener' = ListenerIdle
      /\ occ' = [occ EXCEPT ![f] = m]
      /\ UNCHANGED <<queueVars, present, about, pass, mails, asked>>
  BY DEF Mark
<1>2. /\ Delay = 0 /\ pass.pc = "idle" /\ pass.todo = {} /\ ~occ[f].armed
      /\ listener.row \in 1..lastQid /\ listener.row \in RowIds
      /\ about[listener.row] = f
  BY <1>1, AggregationAssumption, DispatchAssumption
     DEF StepsAgree, TypeOK, QueueTypeOK, RowIds
<1>3. /\ m \in Occurrence /\ m.exists = occ[f].exists /\ ~m.armed
      /\ m.exists => m.ticket = Placeholder(listener.row)
      /\ m.exists => m.ticket # NoTicket
      /\ ~m.exists => m = occ[f]
  <2>1. occ[f] \in Occurrence
    BY DEF TypeOK
  <2>2. ~m.armed
    BY <1>2 DEF Marked
  <2>3. /\ m \in Occurrence /\ m.exists = occ[f].exists
        /\ occ[f].exists => m.ticket = Placeholder(listener.row)
        /\ ~occ[f].exists => m = occ[f]
        /\ Placeholder(listener.row) # NoTicket
    BY <1>2, <2>1, TicketOps
  <2> QED BY <2>2, <2>3
<1> HIDE DEF m
<1>4. occ'[f] = m /\ \A g \in Fingerprints : g # f => occ'[g] = occ[g]
  BY <1>1 DEF TypeOK
<1>5. QueueInv'
  BY <1>1, QueueKept DEF queueVars, QueueInv, QueueTypeOK
<1>6. TypeOK'
  BY <1>1, <1>3, <1>5, AggregationAssumption DEF QueueInv, TypeOK, ListenerIdle
<1>7. StepsAgree'
  BY <1>1, <1>2, <1>3, <1>4 DEF StepsAgree, ListenerIdle, queueVars, TypeOK
<1>8. OneTicketPerIncident'
  <2>1. \A g \in Fingerprints : g # f => ~Marking(g)
    BY <1>1, <1>2 DEF Marking
  <2> QED BY <1>1, <1>3, <1>4, <2>1 DEF OneTicketPerIncident, queueVars, TypeOK, QueueTypeOK
<1>9. TicketBelongs'
  <2>1. \A g \in Fingerprints :
            \/ occ'[g].ticket \in {NoTicket, occ[g].ticket}
            \/ \E q \in 1..lastQid :
                  /\ about[q] = g
                  /\ \/ occ'[g].ticket = Placeholder(q)
                     \/ /\ occ'[g].ticket = Ticket(q)
                        /\ dispatch'[q].state = "sent" /\ tickets'[q] > 0
    BY <1>2, <1>3, <1>4
  <2>2. lastQid' \in Nat /\ lastQid <= lastQid'
    BY <1>1, DispatchAssumption DEF queueVars, TypeOK, QueueTypeOK
  <2> QED BY <1>1, <2>1, <2>2, BelongsLater DEF queueVars
<1> QED BY <1>5, <1>6, <1>7, <1>8, <1>9

LEMMA ListenerAbortsInv == IInv /\ ListenerAborts => IInv'
<1> SUFFICES ASSUME IInv, ListenerAborts PROVE IInv'
  OBVIOUS
<1> USE DEF IInv
<1>1. /\ aborts' = aborts + 1 /\ aborts' \in 0..MaxAborts /\ aborts \in Nat
      /\ listener' = ListenerIdle
      /\ UNCHANGED <<lastQid, dispatch, drainer, tickets, lost, present, occ, about,
                     pass, mails, asked>>
  BY DispatchAssumption DEF ListenerAborts, TypeOK, QueueTypeOK
<1>2. QueueInv'
  BY <1>1, QueueKept
<1>3. TypeOK'
  BY <1>1, <1>2, AggregationAssumption DEF QueueInv, TypeOK, ListenerIdle
<1>4. StepsAgree'
  BY <1>1 DEF StepsAgree, ListenerIdle
<1>5. OneTicketPerIncident'
  <2>1. \A f \in Fingerprints : asked[f] \in Nat
    BY DEF TypeOK
  <2> QED BY <1>1, <2>1 DEF OneTicketPerIncident
<1>6. TicketBelongs'
  BY <1>1 DEF TicketBelongs
<1> QED BY <1>2, <1>3, <1>4, <1>5, <1>6

LEMMA PassReadInv == IInv /\ PassRead => IInv'
<1> SUFFICES ASSUME IInv, PassRead PROVE IInv'
  OBVIOUS
<1> USE DEF IInv, PassRead, queueVars
<1>1. QueueInv'
  BY QueueKept DEF QueueInv, QueueTypeOK
<1>2. DueOcc \subseteq Fingerprints /\ DueOcc # {}
      /\ \A f \in DueOcc : occ[f].ticket = NoTicket /\ occ[f].armed
  BY DEF DueOcc
<1>3. TypeOK'
  BY <1>1, <1>2 DEF QueueInv, TypeOK
<1>4. StepsAgree'
  BY <1>2 DEF StepsAgree
<1>5. OneTicketPerIncident'
  BY DEF OneTicketPerIncident, Marking
<1>6. TicketBelongs'
  BY DEF TicketBelongs
<1> QED BY <1>1, <1>3, <1>4, <1>5, <1>6

LEMMA PassEnqueueInv ==
  ASSUME IInv, NEW f \in Fingerprints, PassEnqueue(f)
  PROVE  IInv'
<1>1. /\ pass.pc = "pass" /\ f \in pass.todo
      /\ pass' = [pass EXCEPT !.pc = "marking", !.fp = f, !.row = lastQid + 1]
      /\ UNCHANGED <<present, occ, listener, mails>>
  BY DEF PassEnqueue
<1>2. occ[f].ticket = NoTicket
  BY <1>1 DEF IInv, StepsAgree
<1>3. /\ QueueInv'
      /\ lastQid' \in RowIds /\ lastQid' = lastQid + 1 /\ lastQid \in Nat
      /\ about' \in [RowIds -> Fingerprints \cup {NoFp}]
      /\ asked' \in [Fingerprints -> Nat]
      /\ about'[lastQid'] = f
      /\ \A q \in 1..lastQid : about'[q] = about[q]
      /\ \A g \in Fingerprints :
            asked'[g] = IF g = f THEN asked[g] + 1 ELSE asked[g]
      /\ aborts' = aborts
      /\ TicketBelongs'
  BY <1>1, <1>2, EnqueueForFacts DEF PassEnqueue
<1>4. /\ pass'.pc = "marking" /\ pass'.fp = f /\ pass'.row = lastQid' /\ pass'.todo = pass.todo
      /\ pass' \in [pc : {"idle", "pass", "marking"}, todo : SUBSET Fingerprints,
                    fp : Fingerprints \cup {NoFp}, row : RowIds \cup {0}]
  BY <1>1, <1>3 DEF IInv, TypeOK
<1>5. TypeOK'
  BY <1>1, <1>3, <1>4 DEF IInv, QueueInv, TypeOK
<1>6. Delay > 0 /\ listener.pc \notin {"opening", "marking"} /\ Delay # 0
  BY <1>1, AggregationAssumption DEF IInv, StepsAgree
<1>7. \A q \in 1..lastQid' : about'[q] \in Fingerprints
  BY <1>3 DEF IInv, StepsAgree
<1>8. StepsAgree'
  <2>1. pass'.row \in 1..lastQid' /\ about'[pass'.row] = f
    BY <1>3, <1>4
  <2> QED BY <1>1, <1>4, <1>6, <1>7, <2>1 DEF IInv, StepsAgree
<1>9. OneTicketPerIncident'
  <2>1. \A g \in Fingerprints : g # f => Marking(g) = Marking(g)'
    BY <1>1, <1>4 DEF Marking
  <2>2. Marking(f)' /\ ~Marking(f)
    BY <1>1, <1>4, <1>6 DEF Marking
  <2>3. aborts \in Nat /\ \A g \in Fingerprints : asked[g] \in Nat
    BY DispatchAssumption DEF IInv, TypeOK, QueueTypeOK
  <2> SUFFICES ASSUME NEW g \in Fingerprints, occ[g].exists
               PROVE asked'[g] <= aborts + (IF occ[g].ticket # NoTicket \/ Marking(g)' THEN 1 ELSE 0)
    BY <1>1, <1>3 DEF OneTicketPerIncident
  <2>4. CASE g = f
    BY <1>2, <1>3, <2>2, <2>3, <2>4 DEF IInv, OneTicketPerIncident
  <2>5. CASE g # f
    BY <1>3, <2>1, <2>3, <2>5 DEF IInv, OneTicketPerIncident
  <2> QED BY <2>4, <2>5
<1> QED BY <1>3, <1>5, <1>8, <1>9 DEF IInv

LEMMA PassRestFacts ==
  ASSUME IInv, NEW f \in Fingerprints, f \in pass.todo
  PROVE  /\ PassRest(f) \in [pc : {"idle", "pass", "marking"}, todo : SUBSET Fingerprints,
                             fp : Fingerprints \cup {NoFp}, row : RowIds \cup {0}]
         /\ PassRest(f).pc # "marking"
         /\ PassRest(f).pc = "idle" <=> PassRest(f).todo = {}
         /\ PassRest(f).todo = pass.todo \ {f}
<1>1. pass.todo \subseteq Fingerprints
  BY DEF IInv, TypeOK
<1>2. CASE pass.todo = {f}
  BY <1>2 DEF PassRest, PassIdle
<1>3. CASE pass.todo # {f}
  <2>1. PassRest(f) = [pc |-> "pass", todo |-> pass.todo \ {f}, fp |-> NoFp, row |-> 0]
    BY <1>3 DEF PassRest
  <2>2. pass.todo \ {f} # {}
    BY <1>3
  <2> QED BY <1>1, <2>1, <2>2
<1> QED BY <1>2, <1>3

LEMMA PassMarkInv ==
  ASSUME IInv, NEW f \in Fingerprints, PassMark(f)
  PROVE  IInv'
<1> USE DEF IInv
<1> DEFINE m == Marked(occ[f], pass.row)
<1>1. /\ pass.pc = "marking" /\ f = pass.fp /\ pass' = PassRest(f)
      /\ occ' = [occ EXCEPT ![f] = m]
      /\ UNCHANGED <<queueVars, present, about, listener, mails, asked>>
  BY DEF PassMark
<1>2. /\ Delay > 0 /\ Delay # 0 /\ listener.pc \notin {"opening", "marking"}
      /\ f \in pass.todo /\ pass.row \in 1..lastQid /\ pass.row \in RowIds
      /\ about[pass.row] = f
  BY <1>1, AggregationAssumption, DispatchAssumption
     DEF StepsAgree, TypeOK, QueueTypeOK, RowIds
<1>3. /\ m \in Occurrence /\ m.exists = occ[f].exists
      /\ occ[f].exists => m.ticket = Placeholder(pass.row)
      /\ ~occ[f].exists => m = occ[f]
      /\ Placeholder(pass.row) # NoTicket
  <2>1. occ[f] \in Occurrence
    BY DEF TypeOK
  <2> QED BY <1>2, <2>1, TicketOps
<1> HIDE DEF m
<1>4. occ'[f] = m /\ \A g \in Fingerprints : g # f => occ'[g] = occ[g]
  BY <1>1 DEF TypeOK
<1>5. QueueInv'
  BY <1>1, QueueKept DEF queueVars, QueueInv, QueueTypeOK
<1>6. /\ pass' \in [pc : {"idle", "pass", "marking"}, todo : SUBSET Fingerprints,
                    fp : Fingerprints \cup {NoFp}, row : RowIds \cup {0}]
      /\ pass'.pc # "marking" /\ pass'.todo = pass.todo \ {f}
      /\ pass'.pc = "idle" <=> pass'.todo = {}
  BY <1>1, <1>2, PassRestFacts
<1>7. TypeOK'
  BY <1>1, <1>3, <1>5, <1>6 DEF QueueInv, TypeOK
<1>8. StepsAgree'
  <2>1. pass.todo \subseteq Fingerprints
    BY DEF TypeOK
  <2>2. \A g \in pass'.todo : occ'[g].ticket = NoTicket
    BY <1>4, <1>6, <2>1 DEF StepsAgree
  <2>3. lastQid' = lastQid /\ about' = about /\ listener' = listener
    BY <1>1 DEF queueVars
  <2> QED BY <1>2, <1>6, <2>2, <2>3 DEF StepsAgree
<1>9. OneTicketPerIncident'
  <2>1. \A g \in Fingerprints : g # f => ~Marking(g)
    BY <1>1, <1>2 DEF Marking
  <2>2. aborts \in Nat /\ \A g \in Fingerprints : asked[g] \in Nat
    BY DispatchAssumption DEF TypeOK, QueueTypeOK
  <2> QED BY <1>1, <1>3, <1>4, <2>1, <2>2 DEF OneTicketPerIncident, queueVars
<1>10. TicketBelongs'
  <2>1. \A g \in Fingerprints :
            \/ occ'[g].ticket \in {NoTicket, occ[g].ticket}
            \/ \E q \in 1..lastQid :
                  /\ about[q] = g
                  /\ \/ occ'[g].ticket = Placeholder(q)
                     \/ /\ occ'[g].ticket = Ticket(q)
                        /\ dispatch'[q].state = "sent" /\ tickets'[q] > 0
    BY <1>2, <1>3, <1>4
  <2>2. lastQid' \in Nat /\ lastQid <= lastQid'
    BY <1>1, DispatchAssumption DEF queueVars, TypeOK, QueueTypeOK
  <2> QED BY <1>1, <2>1, <2>2, BelongsLater DEF queueVars
<1> QED BY <1>5, <1>7, <1>8, <1>9, <1>10

LEMMA PassAbortsInv ==
  ASSUME IInv, NEW f \in Fingerprints, PassAborts(f)
  PROVE  IInv'
<1> USE DEF IInv
<1>1. /\ f \in pass.todo
      /\ aborts' = aborts + 1 /\ aborts' \in 0..MaxAborts /\ aborts \in Nat
      /\ pass' = PassIdle \/ pass' = PassRest(f)
      /\ UNCHANGED <<lastQid, dispatch, drainer, tickets, lost, present, occ, about,
                     listener, mails, asked>>
  BY DispatchAssumption DEF PassAborts, TypeOK, QueueTypeOK
<1>2. QueueInv'
  BY <1>1, QueueKept
<1>3. /\ pass' \in [pc : {"idle", "pass", "marking"}, todo : SUBSET Fingerprints,
                    fp : Fingerprints \cup {NoFp}, row : RowIds \cup {0}]
      /\ pass'.pc # "marking" /\ pass'.todo \subseteq pass.todo
      /\ pass'.pc = "idle" <=> pass'.todo = {}
  <2>1. CASE pass' = PassIdle
    BY <2>1 DEF PassIdle
  <2>2. CASE pass' = PassRest(f)
    BY <1>1, <2>2, PassRestFacts
  <2> QED BY <1>1, <2>1, <2>2
<1>4. TypeOK'
  BY <1>1, <1>2, <1>3 DEF QueueInv, TypeOK
<1>5. StepsAgree'
  <2>1. Delay # 0
    BY <1>1 DEF StepsAgree
  <2> QED BY <1>1, <1>3, <2>1 DEF StepsAgree
<1>6. OneTicketPerIncident'
  <2>1. \A g \in Fingerprints : asked[g] \in Nat
    BY DEF TypeOK
  <2> QED BY <1>1, <2>1 DEF OneTicketPerIncident
<1>7. TicketBelongs'
  BY <1>1 DEF TicketBelongs
<1> QED BY <1>2, <1>4, <1>5, <1>6, <1>7

(* Recording an ok answer replaces the placeholder of the row's occurrence *)
(* with a ticket the manager has.                                          *)
LEMMA DrainStepInv ==
  ASSUME IInv, NEW q \in RowIds, DrainStep(q)
  PROVE  IInv'
<1> USE DEF IInv
<1>1. /\ pass.pc = "idle"
      /\ UNCHANGED <<present, about, listener, pass, mails, asked>>
  BY DEF DrainStep
<1>2. QueueInv'
  BY DrainReadInv, SubmitInv, RecordInv DEF DrainStep
<1>3. /\ lastQid' = lastQid /\ aborts' = aborts /\ lastQid \in Nat /\ aborts \in Nat
      /\ 1..lastQid \subseteq RowIds
  <2>1. lastQid' = lastQid /\ aborts' = aborts
    BY DEF DrainStep, DrainRead, Submit, Record
  <2>2. lastQid \in Nat /\ aborts \in Nat /\ 1..lastQid \subseteq RowIds
    BY DispatchAssumption DEF TypeOK, QueueTypeOK, RowIds
  <2> QED BY <2>1, <2>2
<1>4. \A r \in 1..lastQid :
         dispatch[r].state = "sent" /\ tickets[r] > 0
             => dispatch'[r].state = "sent" /\ tickets'[r] > 0
  <2>1. CASE DrainRead
    BY <2>1 DEF DrainRead
  <2>2. CASE Submit(q)
    BY <1>3, <2>2 DEF Submit, TypeOK, QueueTypeOK
  <2>3. CASE Record(q)
    <3>1. dispatch[q].state # "sent"
      BY <2>3 DEF Record, QueueInv, DrainIsFresh, Live
    <3>2. tickets' = tickets /\ \A r \in RowIds : r # q => dispatch'[r] = dispatch[r]
      BY <2>3 DEF Record, TypeOK, QueueTypeOK
    <3> QED BY <1>3, <3>1, <3>2
  <2> QED BY <2>1, <2>2, <2>3 DEF DrainStep
<1>5. /\ occ' \in [Fingerprints -> Occurrence]
      /\ \A f \in Fingerprints :
            /\ occ'[f].exists = occ[f].exists /\ occ'[f].armed = occ[f].armed
            /\ occ'[f].ticket = NoTicket <=> occ[f].ticket = NoTicket
            /\ \/ occ'[f].ticket \in {NoTicket, occ[f].ticket}
               \/ \E r \in 1..lastQid :
                     /\ about[r] = f
                     /\ \/ occ'[f].ticket = Placeholder(r)
                        \/ /\ occ'[f].ticket = Ticket(r)
                           /\ dispatch'[r].state = "sent" /\ tickets'[r] > 0
  <2>1. CASE occ' = occ
    BY <2>1 DEF TypeOK
  <2>2. CASE Record(q) /\ drainer.answer = "ok"
             /\ occ' = [occ EXCEPT ![about[q]] = Replaced(@, q)]
    <3>1. /\ drainer.pc = "answered" /\ drainer.row = q /\ q \in drainer.todo
          /\ dispatch[q].state \in Live /\ dispatch[q].attempts < MaxAttempts
      BY <2>2 DEF Record, QueueInv, DrainIsFresh
    <3>2. q \in 1..lastQid
      BY <1>3, <3>1 DEF QueueInv, DrainIsFresh, NoDispatch, Live, RowIds
    <3>3. about[q] \in Fingerprints
      BY <3>2 DEF StepsAgree
    <3>4. dispatch'[q].state = "sent"
      <4>1. dispatch[q] \in Dispatch /\ drainer.answer \in Answers
        BY DEF TypeOK, QueueTypeOK
      <4>2. dispatch'[q] = Attempted(dispatch[q], drainer.answer)
        BY <2>2 DEF Record, TypeOK, QueueTypeOK
      <4> QED BY <2>2, <3>1, <4>1, <4>2, AttemptedRow
    <3>5. tickets'[q] > 0
      <4>1. tickets[q] = lost[q] + 1
        BY <2>2, <3>1 DEF QueueInv, TicketsAccounted, OkUnrecorded
      <4>2. lost[q] \in Nat /\ tickets' = tickets
        BY <2>2 DEF Record, TypeOK, QueueTypeOK
      <4> QED BY <4>1, <4>2
    <3> DEFINE f == about[q]
               n == Replaced(occ[f], q)
    <3>6. /\ n \in Occurrence
          /\ n.exists = occ[f].exists /\ n.armed = occ[f].armed
          /\ n.ticket = IF occ[f].ticket.kind = "placeholder" THEN Ticket(q) ELSE occ[f].ticket
          /\ occ[f].ticket = NoTicket <=> n.ticket = NoTicket
      <4>1. occ[f] \in Occurrence
        BY <3>3 DEF TypeOK
      <4> QED BY <4>1, TicketOps
    <3>7. occ' = [occ EXCEPT ![f] = n]
      BY <2>2
    <3> HIDE DEF n
    <3>8. occ'[f] = n /\ \A g \in Fingerprints : g # f => occ'[g] = occ[g]
      BY <3>3, <3>7 DEF TypeOK
    <3>9. occ' \in [Fingerprints -> Occurrence]
      BY <3>6, <3>7 DEF TypeOK
    <3> QED BY <3>2, <3>4, <3>5, <3>6, <3>8, <3>9
  <2> QED BY <2>1, <2>2 DEF DrainStep
<1>6. TypeOK'
  BY <1>1, <1>2, <1>5 DEF QueueInv, TypeOK
<1>7. StepsAgree'
  <2>1. listener.pc = "opening" => occ'[listener.fp].ticket = NoTicket
    BY <1>5 DEF StepsAgree
  <2>2. pass.todo \subseteq Fingerprints
    BY DEF TypeOK
  <2> QED BY <1>1, <1>3, <1>5, <2>1, <2>2 DEF StepsAgree
<1>8. OneTicketPerIncident'
  BY <1>1, <1>3, <1>5 DEF OneTicketPerIncident, Marking
<1>9. TicketBelongs'
  BY <1>1, <1>3, <1>4, <1>5, BelongsLater
<1> QED BY <1>2, <1>6, <1>7, <1>8, <1>9

LEMMA DrainAbortsHereInv == IInv /\ DrainAbortsHere => IInv'
<1> SUFFICES ASSUME IInv, DrainAbortsHere PROVE IInv'
  OBVIOUS
<1> USE DEF IInv
<1>1. /\ aborts' = aborts + 1 /\ aborts \in Nat
      /\ UNCHANGED <<lastQid, dispatch, tickets, present, occ, about, listener,
                     pass, mails, asked>>
  BY DispatchAssumption DEF DrainAbortsHere, DrainAborts, TypeOK, QueueTypeOK
<1>2. QueueInv'
  BY DrainAbortsInv DEF DrainAbortsHere
<1>3. TypeOK'
  BY <1>1, <1>2 DEF QueueInv, TypeOK
<1>4. StepsAgree'
  BY <1>1 DEF StepsAgree
<1>5. OneTicketPerIncident'
  <2>1. \A f \in Fingerprints : asked[f] \in Nat
    BY DEF TypeOK
  <2> QED BY <1>1, <2>1 DEF OneTicketPerIncident, Marking
<1>6. TicketBelongs'
  BY <1>1 DEF TicketBelongs
<1> QED BY <1>2, <1>3, <1>4, <1>5, <1>6

LEMMA SyncInv == IInv /\ Sync => IInv'
<1> SUFFICES ASSUME IInv, Sync PROVE IInv'
  OBVIOUS
<1> USE DEF IInv
<1>1. UNCHANGED <<queueVars, about, listener, pass, mails>> /\ present' \in BOOLEAN
  BY DEF Sync, TypeOK
<1>2. /\ occ' \in [Fingerprints -> Occurrence] /\ asked' \in [Fingerprints -> Nat]
      /\ \A f \in Fingerprints :
            \/ occ'[f] = occ[f] /\ asked'[f] = asked[f]
            \/ ~occ'[f].exists /\ occ'[f].ticket = NoTicket /\ ~occ'[f].armed
  <2>1. NoOcc \in Occurrence /\ ~NoOcc.exists /\ NoOcc.ticket = NoTicket /\ ~NoOcc.armed
    BY AggregationAssumption DEF NoOcc, Occurrence, TicketIds, NoTicket
  <2>2. CASE present'
    BY <2>2 DEF Sync, TypeOK
  <2>3. CASE ~present'
    BY <2>1, <2>3 DEF Sync, TypeOK
  <2> QED BY <2>2, <2>3
<1>3. QueueInv'
  BY <1>1, QueueKept DEF queueVars, QueueInv, QueueTypeOK
<1>4. TypeOK'
  BY <1>1, <1>2, <1>3 DEF QueueInv, TypeOK
<1>5. StepsAgree'
  <2>1. pass.todo \subseteq Fingerprints
    BY DEF TypeOK
  <2> QED BY <1>1, <1>2, <2>1 DEF StepsAgree, queueVars
<1>6. OneTicketPerIncident'
  BY <1>1, <1>2 DEF OneTicketPerIncident, Marking, queueVars
<1>7. TicketBelongs'
  BY <1>1, <1>2 DEF TicketBelongs, queueVars
<1> QED BY <1>3, <1>4, <1>5, <1>6, <1>7

LEMMA TickInv == IInv /\ Tick => IInv'
<1> SUFFICES ASSUME IInv, Tick PROVE IInv'
  OBVIOUS
<1> USE DEF IInv
<1>1. UNCHANGED <<lastQid, drainer, tickets, lost, aborts, present, about,
                  listener, pass, mails, asked>>
  BY DEF Tick
<1>2. /\ occ' \in [Fingerprints -> Occurrence]
      /\ \A f \in Fingerprints :
            /\ occ'[f].exists = occ[f].exists /\ occ'[f].armed = occ[f].armed
            /\ occ'[f].ticket = occ[f].ticket
  <2> DEFINE older(o) == [o EXCEPT !.wait = Less(@), !.left = Less(@), !.seen = Less(@)]
  <2>1. ASSUME NEW o \in Occurrence
        PROVE  /\ older(o) \in Occurrence /\ older(o).exists = o.exists
               /\ older(o).armed = o.armed /\ older(o).ticket = o.ticket
    <3>1. o.wait \in 0..Delay /\ o.left \in 0..Window /\ o.seen \in 0..Window
      BY DEF Occurrence
    <3>2. Less(o.wait) \in 0..Delay /\ Less(o.left) \in 0..Window /\ Less(o.seen) \in 0..Window
      BY <3>1, AggregationAssumption DEF Less
    <3> HIDE DEF IInv
    <3> QED BY <3>2 DEF Occurrence
  <2>2. occ' = [f \in Fingerprints |-> older(occ[f])]
    BY DEF Tick
  <2>3. \A f \in Fingerprints : occ[f] \in Occurrence
    BY DEF TypeOK
  <2> HIDE DEF older
  <2> QED BY <2>1, <2>2, <2>3
<1>3. QueueInv'
  BY <1>1, RowsAgeInv DEF Tick
<1>4. TypeOK'
  BY <1>1, <1>2, <1>3 DEF QueueInv, TypeOK
<1>5. StepsAgree'
  <2>1. pass.todo \subseteq Fingerprints
    BY DEF TypeOK
  <2> QED BY <1>1, <1>2, <2>1 DEF StepsAgree
<1>6. OneTicketPerIncident'
  BY <1>1, <1>2 DEF OneTicketPerIncident, Marking
<1>7. TicketBelongs'
  <2>1. \A q \in RowIds : dispatch[q].state = "sent" => dispatch'[q].state = "sent"
    BY DEF Tick, RowsAge, TypeOK, QueueTypeOK, Dispatch
  <2>2. 1..lastQid \subseteq RowIds /\ lastQid \in Nat
    BY DispatchAssumption DEF TypeOK, QueueTypeOK, RowIds
  <2> QED BY <1>1, <1>2, <2>1, <2>2, BelongsLater
<1> QED BY <1>3, <1>4, <1>5, <1>6, <1>7

LEMMA NextInv == IInv /\ [Next]_vars => IInv'
<1> SUFFICES ASSUME IInv, [Next]_vars PROVE IInv'
  OBVIOUS
<1>1. CASE Mail
  BY <1>1, FindInv, ResetInv DEF Mail
<1>2. CASE Listen
  BY <1>2, UpsertInv, ArmInv, OpenInv, MarkInv DEF Listen
<1>3. CASE TimerPass
  BY <1>3, PassReadInv, PassEnqueueInv, PassMarkInv DEF TimerPass
<1>4. CASE Submitting
  BY <1>4, DrainStepInv DEF Submitting
<1>5. CASE Sync
  BY <1>5, SyncInv
<1>6. CASE Tick
  BY <1>6, TickInv
<1>7. CASE Fail
  BY <1>7, ListenerAbortsInv, DrainAbortsHereInv, PassAbortsInv DEF Fail
<1>8. CASE UNCHANGED vars
  BY <1>8 DEF vars, queueVars, IInv, QueueInv, QueueTypeOK, DrainIsFresh,
     TicketsAccounted, OkUnrecorded, TypeOK, StepsAgree, OneTicketPerIncident,
     Marking, TicketBelongs
<1> QED BY <1>1, <1>2, <1>3, <1>4, <1>5, <1>6, <1>7, <1>8 DEF Next

LEMMA Invariance == Spec => []IInv
BY InitIInv, NextInv, PTL DEF Spec

(* Type correctness of the aggregation: the tables and the local state of  *)
(* both processes keep their types through every mail, pass, drain, sync   *)
(* and failure.                                                            *)
THEOREM TypeCorrect == Spec => []TypeOK
<1>1. IInv => TypeOK
  BY DEF IInv
<1> QED BY <1>1, Invariance, PTL

(* An incident asks for one ticket, and for one more at most per process   *)
(* that died between _enqueue_dispatch and mark_occurrence_ticket,         *)
(* whatever the threshold, window, timer and number of fingerprints.       *)
THEOREM OneTicket == Spec => []OneTicketPerIncident
<1>1. IInv => OneTicketPerIncident
  BY DEF IInv
<1> QED BY <1>1, Invariance, PTL

(* The ticket an occurrence shows was requested for its own fingerprint,   *)
(* and if it is not a placeholder the manager has created it.              *)
THEOREM TicketsBelong == Spec => []TicketBelongs
<1>1. IInv => TicketBelongs
  BY DEF IInv
<1> QED BY <1>1, Invariance, PTL

(* What one occurrence may become without disturbing ThresholdFrees.       *)
Harmless(o, n) ==
    /\ n.exists = o.exists /\ n.count = o.count
    /\ o.ticket = NoTicket => n.ticket = NoTicket
    /\ n.armed => o.armed

(* What a mail, the drain and the clock make of the count.                 *)
LEMMA CountOps ==
  ASSUME NEW o \in Occurrence, NEW s \in Senders, NEW q \in RowIds
  PROVE  /\ Inserted(s).count > 0 /\ Restarted(o, s).count > 0 /\ Counted(o, s).count > 0
         /\ Cleared(o).ticket = NoTicket /\ ~Cleared(o).armed
         /\ Marked(o, q).exists = o.exists /\ Marked(o, q).count = o.count
         /\ o.exists => ~Marked(o, q).armed
         /\ Harmless(o, Replaced(o, q))
<1>1. Threshold \in Nat \ {0} /\ o.count \in 0..Threshold
  BY AggregationAssumption DEF Occurrence
<1>2. Inserted(s).count > 0 /\ Restarted(o, s).count > 0
  BY DEF Inserted, Restarted
<1>3. Counted(o, s).count > 0
  BY <1>1 DEF Counted
<1>4. Cleared(o).ticket = NoTicket /\ ~Cleared(o).armed
  BY DEF Cleared
<1>5. /\ Marked(o, q).exists = o.exists /\ Marked(o, q).count = o.count
      /\ o.exists => ~Marked(o, q).armed
  BY DEF Marked, Occurrence
<1>6. Harmless(o, Replaced(o, q))
  <2>1. CASE o.ticket.kind = "placeholder"
    <3>1. o.ticket # NoTicket
      BY <2>1 DEF NoTicket
    <3> QED BY <2>1, <3>1 DEF Replaced, Harmless, Occurrence
  <2>2. CASE o.ticket.kind # "placeholder"
    BY <2>2 DEF Replaced, Harmless
  <2> QED BY <2>1, <2>2
<1> QED BY <1>2, <1>3, <1>4, <1>5, <1>6

(* The listener's place, as far as ThresholdFrees speaks of it.            *)
Asking == listener.pc \in {"opening", "marking"}

LEMMA FreesFrame ==
  ASSUME IInv, ThresholdFrees, Delay = 0,
         \A f \in Fingerprints : Harmless(occ[f], occ'[f]),
         Asking' => Asking /\ listener'.fp = listener.fp
  PROVE  ThresholdFrees'
<1>1. ResetFrees'
  BY DEF ThresholdFrees, ResetFrees, Harmless
<1>2. Asking => listener.fp \in Fingerprints
  BY DEF IInv, StepsAgree, Asking
<1>3. Asking' /\ occ'[listener'.fp].exists => occ'[listener'.fp].count > 0
  BY <1>2 DEF ThresholdFrees, Harmless, Asking
<1> QED BY <1>1, <1>3 DEF ThresholdFrees, Asking

LEMMA UpsertFrees ==
  ASSUME IInv, ThresholdFrees, Delay = 0, NEW f \in Fingerprints, Upsert(f)
  PROVE  ThresholdFrees'
<1>1. /\ f = listener.fp /\ occ[f] \in Occurrence /\ listener.from \in Senders
      /\ occ \in [Fingerprints -> Occurrence]
  BY DEF Upsert, IInv, TypeOK
<1>2. \E n : occ' = [occ EXCEPT ![f] = n] /\ n.count > 0
  <2>1. PICK q \in RowIds \cup {0} : TRUE
    OBVIOUS
  <2>2. 1 \in Nat /\ Threshold \in Nat \ {0} /\ occ[f].count \in 0..Threshold
    BY <1>1, AggregationAssumption DEF Occurrence
  <2>3. /\ Inserted(listener.from).count > 0 /\ Restarted(occ[f], listener.from).count > 0
        /\ Counted(occ[f], listener.from).count > 0
    BY <2>2 DEF Inserted, Restarted, Counted
  <2> QED BY <2>3 DEF Upsert
<1>3. /\ occ'[f].count > 0 /\ \A g \in Fingerprints : g # f => occ'[g] = occ[g]
  BY <1>1, <1>2
<1>4. listener' = ListenerIdle \/ listener'.fp = f
  <2>1. \A open, first : Proceed(f, open, first)
            => listener' = ListenerIdle \/ listener'.fp = listener.fp
    BY DEF Proceed, IInv, TypeOK
  <2> QED BY <1>1, <2>1 DEF Upsert
<1>5. ResetFrees'
  BY <1>3 DEF ThresholdFrees, ResetFrees
<1>6. Asking' => listener'.fp = f
  BY <1>4 DEF Asking, ListenerIdle
<1> QED BY <1>3, <1>5, <1>6 DEF ThresholdFrees, Asking

LEMMA ResetFreesStep ==
  ASSUME IInv, ThresholdFrees, Delay = 0, NEW s \in Senders, Reset(s)
  PROVE  ThresholdFrees'
<1>1. ~Asking'
  BY DEF Reset, Asking
<1>2. \A f \in Fingerprints : occ'[f] = IF ResetBy(occ[f], s) THEN Cleared(occ[f]) ELSE occ[f]
  BY DEF Reset
<1>3. \A o : Cleared(o).ticket = NoTicket /\ ~Cleared(o).armed
  BY DEF Cleared
<1>4. ResetFrees'
  BY <1>2, <1>3 DEF ThresholdFrees, ResetFrees
<1> QED BY <1>1, <1>4 DEF ThresholdFrees, Asking

LEMMA MarkFrees ==
  ASSUME IInv, ThresholdFrees, Delay = 0, NEW f \in Fingerprints, Mark(f)
  PROVE  ThresholdFrees'
<1>1. ~Asking'
  BY DEF Mark, Asking, ListenerIdle
<1>2. /\ occ[f] \in Occurrence /\ occ' = [occ EXCEPT ![f] = Marked(@, listener.row)]
      /\ occ \in [Fingerprints -> Occurrence]
  BY DEF Mark, IInv, TypeOK
<1>3. occ[f].exists => occ[f].count > 0
  BY DEF Mark, ThresholdFrees
<1>4. occ'[f].exists => occ'[f].count > 0
  BY <1>2, <1>3 DEF Marked
<1>5. 0 \in Nat /\ occ'[f].count = occ[f].count /\ occ[f].count \in 0..Threshold
  BY <1>2 DEF Marked, Occurrence
<1>6. ~(occ'[f].exists /\ occ'[f].count = 0)
  BY <1>4, <1>5
<1>7. ResetFrees'
  BY <1>2, <1>6 DEF ThresholdFrees, ResetFrees
<1> QED BY <1>1, <1>7 DEF ThresholdFrees, Asking

(* Steps that change no occurrence but in ways that are harmless.          *)
LEMMA SameHarmless ==
  ASSUME occ' = occ PROVE \A f \in Fingerprints : Harmless(occ[f], occ'[f])
BY DEF Harmless

LEMMA TickHarmless ==
  ASSUME IInv, Tick PROVE \A f \in Fingerprints : Harmless(occ[f], occ'[f])
<1> SUFFICES ASSUME NEW f \in Fingerprints PROVE Harmless(occ[f], occ'[f])
  OBVIOUS
<1>1. occ[f] \in Occurrence
  BY DEF IInv, TypeOK
<1>2. occ'[f] = [occ[f] EXCEPT !.wait = Less(@), !.left = Less(@), !.seen = Less(@)]
  BY DEF Tick
<1> QED BY <1>1, <1>2 DEF Harmless, Occurrence

LEMMA DrainHarmless ==
  ASSUME IInv, NEW q \in RowIds, DrainStep(q)
  PROVE  \A f \in Fingerprints : Harmless(occ[f], occ'[f])
<1>1. CASE occ' = occ
  BY <1>1, SameHarmless
<1>2. CASE occ' = [occ EXCEPT ![about[q]] = Replaced(@, q)]
  <2> SUFFICES ASSUME NEW f \in Fingerprints PROVE Harmless(occ[f], occ'[f])
    OBVIOUS
  <2>1. /\ occ[f] \in Occurrence /\ NoSender \in Senders
        /\ occ'[f] \in {occ[f], Replaced(occ[f], q)}
    BY <1>2, AggregationAssumption DEF IInv, TypeOK
  <2> QED BY <2>1, CountOps DEF Harmless
<1> QED BY <1>1, <1>2 DEF DrainStep

LEMMA ThresholdFreesStep == IInv /\ ThresholdFrees /\ [Next]_vars => ThresholdFrees'
<1> SUFFICES ASSUME IInv, ThresholdFrees, [Next]_vars, Delay = 0 PROVE ThresholdFrees'
  BY DEF ThresholdFrees
<1>1. ASSUME NEW f \in Fingerprints, NEW s \in Senders, Find(f, s) \/ Reset(s)
      PROVE  ThresholdFrees'
  <2>1. CASE Find(f, s)
    <3>1. occ' = occ /\ ~Asking'
      BY <2>1 DEF Find, Asking
    <3> QED BY <3>1, SameHarmless, FreesFrame
  <2> QED BY <1>1, <2>1, ResetFreesStep
<1>2. ASSUME NEW f \in Fingerprints, Upsert(f) \/ Arm(f) \/ Open(f) \/ Mark(f)
      PROVE  ThresholdFrees'
  <2>1. CASE Arm(f)
    BY <2>1 DEF Arm, IInv, StepsAgree
  <2>2. CASE Open(f)
    <3>1. occ' = occ /\ Asking /\ listener'.fp = listener.fp
      BY <2>2 DEF Open, Asking, IInv, TypeOK
    <3> QED BY <3>1, SameHarmless, FreesFrame
  <2> QED BY <1>2, <2>1, <2>2, UpsertFrees, MarkFrees
<1>3. CASE TimerPass
  <2>1. occ' = occ /\ UNCHANGED listener
    BY <1>3 DEF TimerPass, PassRead, PassEnqueue, PassMark, IInv, StepsAgree
  <2> QED BY <2>1, SameHarmless, FreesFrame DEF Asking
<1>4. CASE Submitting
  <2>1. PICK q \in RowIds : DrainStep(q)
    BY <1>4 DEF Submitting
  <2>2. UNCHANGED listener
    BY <2>1 DEF DrainStep
  <2> QED BY <2>1, <2>2, DrainHarmless, FreesFrame DEF Asking
<1>5. CASE Sync
  <2>1. UNCHANGED listener /\ (occ' = occ \/ occ' = [f \in Fingerprints |-> NoOcc])
    BY <1>5 DEF Sync
  <2>2. CASE occ' = occ
    BY <2>1, <2>2, SameHarmless, FreesFrame DEF Asking
  <2>3. CASE occ' = [f \in Fingerprints |-> NoOcc]
    <3>1. \A f \in Fingerprints : ~occ'[f].exists
      BY <2>3 DEF NoOcc
    <3>2. Asking => listener.fp \in Fingerprints
      BY DEF IInv, StepsAgree, Asking
    <3>3. ResetFrees'
      BY <3>1 DEF ResetFrees
    <3> QED BY <2>1, <3>1, <3>2, <3>3 DEF ThresholdFrees, Asking
  <2> QED BY <2>1, <2>2, <2>3
<1>6. CASE Tick
  <2>1. UNCHANGED listener
    BY <1>6 DEF Tick
  <2> QED BY <1>6, <2>1, TickHarmless, FreesFrame DEF Asking
<1>7. CASE Fail
  <2>1. occ' = occ /\ (UNCHANGED listener \/ listener' = ListenerIdle)
    BY <1>7 DEF Fail, ListenerAborts, DrainAbortsHere, PassAborts
  <2>2. Asking' => Asking /\ listener'.fp = listener.fp
    BY <2>1 DEF Asking, ListenerIdle
  <2> QED BY <2>1, <2>2, SameHarmless, FreesFrame
<1>8. CASE UNCHANGED vars
  <2>1. occ' = occ /\ UNCHANGED listener
    BY <1>8 DEF vars
  <2> QED BY <2>1, SameHarmless, FreesFrame DEF Asking
<1> QED BY <1>1, <1>2, <1>3, <1>4, <1>5, <1>6, <1>7, <1>8 DEF Next, Mail, Listen

(* In threshold mode a reset leaves nothing of an incident: no ticket and  *)
(* no deadline on an occurrence that counts nothing, whatever the listener *)
(* and the drain were doing when it came.                                  *)
THEOREM ResetsFree == Spec => [](Delay = 0 => ResetFrees)
<1>1. Init => ThresholdFrees
  BY DEF Init, ThresholdFrees, ResetFrees, NoOcc, ListenerIdle
<1>2. ThresholdFrees => (Delay = 0 => ResetFrees)
  BY DEF ThresholdFrees
<1> QED BY <1>1, <1>2, ThresholdFreesStep, Invariance, PTL DEF Spec

(* Steps that mark no row as sent, show no new placeholder and start no    *)
(* marking keep TimerReplaces.                                             *)
LEMMA ReplacesFrame ==
  ASSUME IInv, TimerReplaces, Delay > 0,
         \A r \in 1..lastQid : dispatch'[r].state = "sent" => dispatch[r].state = "sent",
         \A f \in Fingerprints :
            occ'[f].ticket.kind = "placeholder" => occ'[f].ticket = occ[f].ticket,
         pass'.pc = "marking" => pass.pc = "marking" /\ pass'.row = pass.row
  PROVE  TimerReplaces'
<1>1. PlaceholderReplaced'
  <2> SUFFICES ASSUME NEW f \in Fingerprints, occ'[f].ticket.kind = "placeholder"
               PROVE  dispatch'[occ'[f].ticket.row].state # "sent"
    BY DEF PlaceholderReplaced
  <2>1. occ'[f].ticket = occ[f].ticket /\ occ[f].ticket # NoTicket
    BY DEF NoTicket
  <2>2. occ[f].ticket.row \in 1..lastQid
    BY <2>1 DEF IInv, TicketBelongs
  <2> QED BY <2>1, <2>2 DEF TimerReplaces, PlaceholderReplaced
<1>2. pass'.pc = "marking" => dispatch'[pass'.row].state # "sent"
  BY DEF TimerReplaces, IInv, StepsAgree
<1> QED BY <1>1, <1>2 DEF TimerReplaces

(* What the steps of the other actions leave of a placeholder.             *)
LEMMA PlaceholderOps ==
  ASSUME NEW o, NEW s
  PROVE  /\ Inserted(s).ticket = NoTicket /\ Restarted(o, s).ticket = NoTicket
         /\ Counted(o, s).ticket = o.ticket /\ Cleared(o).ticket = NoTicket
         /\ Armed(o).ticket = o.ticket
         /\ NoTicket.kind # "placeholder"
<1>1. Inserted(s).ticket = NoTicket
  BY DEF Inserted
<1>2. Restarted(o, s).ticket = NoTicket
  BY DEF Restarted
<1>3. Counted(o, s).ticket = o.ticket
  BY DEF Counted
<1>4. Cleared(o).ticket = NoTicket
  BY DEF Cleared
<1>5. Armed(o).ticket = o.ticket
  BY DEF Armed
<1>6. NoTicket.kind # "placeholder"
  BY DEF NoTicket
<1> QED BY <1>1, <1>2, <1>3, <1>4, <1>5, <1>6

LEMMA ListenReplaces ==
  ASSUME IInv, TimerReplaces, Delay > 0, NEW f \in Fingerprints,
         Upsert(f) \/ Arm(f) \/ Open(f) \/ Mark(f)
  PROVE  TimerReplaces'
<1>1. ~Open(f) /\ ~Mark(f)
  BY DEF Open, Mark, IInv, StepsAgree
<1>2. occ \in [Fingerprints -> Occurrence]
  BY DEF IInv, TypeOK
<1>3. \E n : /\ occ' = [occ EXCEPT ![f] = n]
             /\ n.ticket \in {NoTicket, occ[f].ticket}
  <2>1. CASE Arm(f)
    <3>1. occ' = [occ EXCEPT ![f] = Armed(occ[f])]
      BY <2>1 DEF Arm
    <3> QED BY <3>1, PlaceholderOps
  <2>2. CASE Upsert(f)
    <3>1. \/ occ' = [occ EXCEPT ![f] = Inserted(listener.from)]
          \/ occ' = [occ EXCEPT ![f] = Restarted(occ[f], listener.from)]
          \/ occ' = [occ EXCEPT ![f] = Counted(occ[f], listener.from)]
      BY <2>2 DEF Upsert
    <3> QED BY <3>1, PlaceholderOps
  <2> QED BY <1>1, <2>1, <2>2
<1>4. \A g \in Fingerprints :
         occ'[g].ticket.kind = "placeholder" => occ'[g].ticket = occ[g].ticket
  BY <1>2, <1>3, PlaceholderOps
<1>5. UNCHANGED <<dispatch, pass>>
  BY <1>1 DEF Upsert, Arm, queueVars
<1> QED BY <1>4, <1>5, ReplacesFrame

LEMMA PassReplaces ==
  ASSUME IInv, TimerReplaces, Delay > 0, NEW f \in Fingerprints,
         PassEnqueue(f) \/ PassMark(f)
  PROVE  TimerReplaces'
<1>1. lastQid \in Nat /\ 1..lastQid \subseteq RowIds
  BY DispatchAssumption DEF IInv, TypeOK, QueueTypeOK, RowIds
<1>2. CASE PassEnqueue(f)
  <2>1. PICK k \in RowIds : k = lastQid + 1
    BY <1>1, <1>2, DispatchAssumption DEF PassEnqueue, EnqueueFor, EnqueueRow, RowIds
  <2>2. dispatch' = [dispatch EXCEPT ![k] = NewDispatch] /\ occ' = occ
    BY <1>2, <2>1 DEF PassEnqueue, EnqueueFor, EnqueueRow
  <2>3. dispatch \in [RowIds -> Dispatch]
    BY DEF IInv, TypeOK, QueueTypeOK
  <2>4. /\ dispatch'[k].state # "sent"
        /\ \A r \in 1..lastQid : dispatch'[r] = dispatch[r]
    BY <1>1, <2>1, <2>2, <2>3 DEF NewDispatch
  <2>5. pass' = [pass EXCEPT !.pc = "marking", !.fp = f, !.row = k]
    BY <1>2, <2>1 DEF PassEnqueue
  <2>6. pass'.row = k
    BY <2>5 DEF IInv, TypeOK
  <2>7. \A g \in Fingerprints : occ[g].ticket.kind = "placeholder" =>
           occ[g].ticket.row \in 1..lastQid
    BY DEF IInv, TicketBelongs, NoTicket
  <2>8. PlaceholderReplaced'
    BY <2>2, <2>4, <2>7 DEF TimerReplaces, PlaceholderReplaced
  <2> QED BY <2>4, <2>6, <2>8 DEF TimerReplaces
<1>3. CASE PassMark(f)
  <2>1. /\ occ' = [occ EXCEPT ![f] = Marked(@, pass.row)] /\ dispatch' = dispatch
        /\ occ \in [Fingerprints -> Occurrence] /\ pass.pc = "marking"
        /\ f = pass.fp
    BY <1>3 DEF PassMark, queueVars, IInv, TypeOK
  <2>2. f \in pass.todo /\ pass' = PassRest(f)
    BY <1>3, <2>1 DEF PassMark, IInv, StepsAgree
  <2>3. pass'.pc # "marking"
    BY <2>2, PassRestFacts
  <2>4. occ'[f].ticket \in {occ[f].ticket, Placeholder(pass.row)}
    BY <2>1 DEF Marked
  <2>5. Placeholder(pass.row).row = pass.row
    BY DEF Placeholder
  <2>6. PlaceholderReplaced'
    BY <2>1, <2>4, <2>5 DEF TimerReplaces, PlaceholderReplaced
  <2> QED BY <2>3, <2>6 DEF TimerReplaces
<1> QED BY <1>2, <1>3

LEMMA DrainReplaces ==
  ASSUME IInv, TimerReplaces, Delay > 0, NEW q \in RowIds, DrainStep(q)
  PROVE  TimerReplaces'
<1>1. pass.pc = "idle" /\ UNCHANGED pass
  BY DEF DrainStep
<1>2. CASE (DrainRead \/ Submit(q)) /\ UNCHANGED occ
  <2>1. dispatch' = dispatch
    BY <1>2 DEF DrainRead, Submit
  <2> QED BY <1>1, <1>2, <2>1, ReplacesFrame
<1>3. CASE Record(q) /\ occ' = IF drainer.answer = "ok"
                               THEN [occ EXCEPT ![about[q]] = Replaced(@, q)] ELSE occ
  <2>1. /\ dispatch[q] \in Dispatch /\ dispatch[q].state \in Live
        /\ dispatch[q].attempts < MaxAttempts /\ drainer.answer \in Answers
        /\ dispatch \in [RowIds -> Dispatch] /\ occ \in [Fingerprints -> Occurrence]
    BY <1>3 DEF Record, IInv, QueueInv, TypeOK, QueueTypeOK, DrainIsFresh
  <2>2. dispatch' = [dispatch EXCEPT ![q] = Attempted(dispatch[q], drainer.answer)]
    BY <1>3 DEF Record
  <2>3. \A r \in RowIds : r # q => dispatch'[r] = dispatch[r]
    BY <2>1, <2>2
  <2>4. dispatch'[q].state = "sent" <=> drainer.answer = "ok"
    BY <2>1, <2>2, AttemptedRow
  <2>5. \A f \in Fingerprints : occ[f].ticket.kind = "placeholder" =>
           /\ occ[f].ticket.row \in RowIds /\ about[occ[f].ticket.row] = f
           /\ dispatch[occ[f].ticket.row].state # "sent"
    BY DispatchAssumption
       DEF IInv, TicketBelongs, NoTicket, TimerReplaces, PlaceholderReplaced,
           TypeOK, QueueTypeOK, RowIds
  <2>6. PlaceholderReplaced'
    <3> SUFFICES ASSUME NEW f \in Fingerprints, occ'[f].ticket.kind = "placeholder"
                 PROVE  dispatch'[occ'[f].ticket.row].state # "sent"
      BY DEF PlaceholderReplaced
    <3>1. CASE drainer.answer # "ok"
      BY <1>3, <2>3, <2>4, <2>5, <3>1
    <3>2. CASE drainer.answer = "ok"
      <4>1. occ' = [occ EXCEPT ![about[q]] = Replaced(occ[about[q]], q)]
        BY <1>3, <3>2
      <4>2. f # about[q]
        <5> SUFFICES ASSUME f = about[q] PROVE FALSE
          OBVIOUS
        <5>1. occ'[f] = Replaced(occ[f], q) /\ occ[f] \in Occurrence
          BY <2>1, <4>1
        <5>2. occ'[f].ticket.kind # "placeholder"
          BY <5>1, TicketOps
        <5> QED BY <5>2
      <4>3. occ'[f] = occ[f]
        BY <2>1, <4>1, <4>2
      <4> QED BY <2>3, <2>5, <4>2, <4>3
    <3> QED BY <3>1, <3>2
  <2> QED BY <1>1, <2>6 DEF TimerReplaces
<1> QED BY <1>2, <1>3 DEF DrainStep

LEMMA TimerReplacesStep == IInv /\ TimerReplaces /\ [Next]_vars => TimerReplaces'
<1> SUFFICES ASSUME IInv, TimerReplaces, [Next]_vars, Delay > 0 PROVE TimerReplaces'
  BY DEF TimerReplaces
<1>1. CASE Mail
  <2>1. UNCHANGED <<dispatch, pass>>
    BY <1>1 DEF Mail, Find, Reset, queueVars
  <2>2. \A f \in Fingerprints : occ'[f].ticket \in {NoTicket, occ[f].ticket}
    BY <1>1, PlaceholderOps DEF Mail, Find, Reset
  <2>3. \A f \in Fingerprints :
           occ'[f].ticket.kind = "placeholder" => occ'[f].ticket = occ[f].ticket
    BY <2>2, PlaceholderOps
  <2> QED BY <2>1, <2>3, ReplacesFrame
<1>2. CASE Listen
  BY <1>2, ListenReplaces DEF Listen
<1>3. CASE TimerPass
  <2>1. CASE PassRead
    <3>1. UNCHANGED <<dispatch, occ>> /\ pass'.pc # "marking"
      BY <2>1 DEF PassRead, queueVars
    <3> QED BY <3>1, ReplacesFrame
  <2> QED BY <1>3, <2>1, PassReplaces DEF TimerPass
<1>4. CASE Submitting
  BY <1>4, DrainReplaces DEF Submitting
<1>5. CASE Sync
  <2>1. UNCHANGED <<dispatch, pass>> /\ (occ' = occ \/ occ' = [f \in Fingerprints |-> NoOcc])
    BY <1>5 DEF Sync, queueVars
  <2>2. NoOcc.ticket = NoTicket
    BY DEF NoOcc
  <2>3. \A f \in Fingerprints :
           occ'[f].ticket.kind = "placeholder" => occ'[f].ticket = occ[f].ticket
    BY <2>1, <2>2, PlaceholderOps
  <2> QED BY <2>1, <2>3, ReplacesFrame
<1>6. CASE Tick
  <2>1. UNCHANGED pass /\ RowsAge
    BY <1>6 DEF Tick
  <2>2. \A f \in Fingerprints : occ'[f].ticket = occ[f].ticket
    <3> SUFFICES ASSUME NEW f \in Fingerprints PROVE occ'[f].ticket = occ[f].ticket
      OBVIOUS
    <3>1. occ[f] \in Occurrence
      BY DEF IInv, TypeOK
    <3>2. occ'[f] = [occ[f] EXCEPT !.wait = Less(@), !.left = Less(@), !.seen = Less(@)]
      BY <1>6 DEF Tick
    <3> QED BY <3>1, <3>2 DEF Occurrence
  <2>3. \A r \in RowIds : dispatch'[r].state = dispatch[r].state
    <3> SUFFICES ASSUME NEW r \in RowIds PROVE dispatch'[r].state = dispatch[r].state
      OBVIOUS
    <3>1. dispatch[r] \in Dispatch
      BY DEF IInv, TypeOK, QueueTypeOK
    <3>2. dispatch'[r] = IF dispatch[r].wait > 0
                         THEN [dispatch[r] EXCEPT !.wait = @ - 1] ELSE dispatch[r]
      BY <2>1 DEF RowsAge
    <3> QED BY <3>1, <3>2 DEF Dispatch
  <2>4. 1..lastQid \subseteq RowIds
    BY DispatchAssumption DEF IInv, TypeOK, QueueTypeOK, RowIds
  <2> QED BY <2>1, <2>2, <2>3, <2>4, ReplacesFrame
<1>7. CASE Fail
  <2>1. UNCHANGED <<dispatch, occ>>
    BY <1>7 DEF Fail, ListenerAborts, DrainAbortsHere, DrainAborts, PassAborts
  <2>2. pass'.pc = "marking" => pass.pc = "marking" /\ pass'.row = pass.row
    <3>1. CASE UNCHANGED pass
      BY <3>1
    <3>2. CASE \E f \in Fingerprints : PassAborts(f)
      <4>1. PICK f \in Fingerprints : PassAborts(f)
        BY <3>2
      <4>2. f \in pass.todo /\ pass' \in {PassIdle, PassRest(f)}
        BY <4>1 DEF PassAborts
      <4> QED BY <4>2, PassRestFacts DEF PassIdle
    <3> QED BY <1>7, <3>1, <3>2 DEF Fail, ListenerAborts, DrainAbortsHere
  <2> QED BY <2>1, <2>2, ReplacesFrame
<1>8. CASE UNCHANGED vars
  <2>1. UNCHANGED <<dispatch, occ, pass>>
    BY <1>8 DEF vars, queueVars
  <2> QED BY <2>1, ReplacesFrame
<1> QED BY <1>1, <1>2, <1>3, <1>4, <1>5, <1>6, <1>7, <1>8 DEF Next

(* In timer mode no occurrence keeps the placeholder of a request that was *)
(* answered: the one scheduler never drains between asking and noting it.  *)
THEOREM PlaceholdersReplaced == Spec => [](Delay > 0 => PlaceholderReplaced)
<1>1. Init => TimerReplaces
  BY DEF Init, TimerReplaces, PlaceholderReplaced, NoOcc, NoTicket, PassIdle
<1>2. TimerReplaces => (Delay > 0 => PlaceholderReplaced)
  BY DEF TimerReplaces
<1> QED BY <1>1, <1>2, TimerReplacesStep, Invariance, PTL DEF Spec

-----------------------------------------------------------------------------
(* The event log.                                                          *)

(* Steps that leave the queue alone, or only end early. *)
LEMMA QueueUntouched ==
  ASSUME QueueInv, UNCHANGED <<lastQid, dispatch, drainer, tickets, lost>>,
         aborts' \in 0..MaxAborts
  PROVE  QueueInv'
BY DEF QueueInv, QueueTypeOK, DrainIsFresh, TicketsAccounted, OkUnrecorded

(* A ticket that belongs to an event goes on belonging to it. *)
LEMMA TicketOfStays ==
  ASSUME \A q \in RowIds : dispatch[q].state = "sent" /\ tickets[q] > 0
             => /\ dispatch'[q].state = "sent" /\ tickets'[q] > 0
                /\ owner'[q] = owner[q],
         \A e \in Events : log[e].thread \subseteq log'[e].thread
  PROVE  \A e \in Events, q \in RowIds \cup {0} : TicketOf(e, q) =>
             (q # 0 => /\ dispatch'[q].state = "sent" /\ tickets'[q] > 0
                       /\ owner'[q] \in log'[e].thread)
BY DEF TicketOf

LEMMA InitLInv == LogInit => LInv
<1> SUFFICES ASSUME LogInit PROVE LInv
  OBVIOUS
<1>1. QueueInv
  BY QueueInitInv DEF LogInit
<1>2. LogTypeOK
  BY <1>1 DEF LogInit, QueueInv, LogTypeOK, NoEvent, NoMail, NoCopy, FlusherIdle, EventRow, Copy
<1>3. MarkedIsStored /\ TicketTraced
  BY DEF LogInit, MarkedIsStored, TicketTraced, TicketOf, Logged, NoEvent
<1>4. CarriedSound
  BY DEF LogInit, CarriedSound, TicketOf, NoEvent, NoMail, NoCopy, FlusherIdle
<1> QED BY <1>1, <1>2, <1>3, <1>4 DEF LInv

(* Steps that leave the queue's rows and tickets as they are, the owners   *)
(* too, and write no ticket: only the types are left to show.              *)
LEMMA ReceiveInv ==
  ASSUME LInv, NEW e \in Events, NEW p \in {0} \cup Events, Receive(e, p)
  PROVE  LInv'
<1> USE DEF LInv
<1> DEFINE t == IF p = 0 THEN 0 ELSE log[p].ticket
           th == IF p = 0 THEN {e} ELSE log[p].thread \cup {e}
           row == [state |-> "received", parent |-> p, thread |-> th,
                   ticket |-> 0, dead |-> FALSE, unsent |-> FALSE]
<1>1. /\ log[e].state = "none" /\ log[e] = NoEvent
      /\ p = 0 \/ (p \in Events /\ log[p].state = "logged")
      /\ mail' = [event |-> e, inherited |-> t]
      /\ UNCHANGED <<queueVars, owner, flusher, admin>>
  BY DEF Receive, CarriedSound, Logged
<1>2. log' = [log EXCEPT ![e] = row]
  BY DEF Receive
<1>3. t \in RowIds \cup {0} /\ th \subseteq Events /\ e \in th
  BY <1>1 DEF LogTypeOK, EventRow
<1>4. t # 0 => dispatch[t].state = "sent" /\ tickets[t] > 0 /\ owner[t] \in th
  <2>1. CASE p = 0
    BY <2>1
  <2>2. CASE p # 0
    <3>1. TicketOf(p, log[p].ticket)
      BY <1>1, <2>2 DEF TicketTraced
    <3> QED BY <2>2, <3>1 DEF TicketOf
  <2> QED BY <2>1, <2>2
<1>5. p # e
  BY <1>1 DEF Events
<1> HIDE DEF t, th
<1>6. row \in EventRow
  BY <1>3 DEF EventRow
<1>7. log'[e] = row /\ \A d \in Events : d # e => log'[d] = log[d]
  BY <1>2 DEF LogTypeOK
<1>8. QueueInv'
  BY <1>1, QueueUntouched DEF queueVars, QueueInv, QueueTypeOK
<1>9. LogTypeOK'
  <2>1. log' \in [Events -> EventRow]
    BY <1>2, <1>6 DEF LogTypeOK
  <2>2. mail' \in [event : Events \cup {0}, inherited : RowIds \cup {0}]
    BY <1>1, <1>3
  <2> QED BY <1>1, <1>8, <2>1, <2>2 DEF LogTypeOK, QueueInv
<1>10. (AdminErrors \/ MarkedIsStored)'
  BY <1>1, <1>7 DEF MarkedIsStored, Logged
<1>11. \A d \in Events, q \in RowIds \cup {0} : TicketOf(d, q) =>
          (q # 0 => /\ dispatch'[q].state = "sent" /\ tickets'[q] > 0
                    /\ owner'[q] \in log'[d].thread)
  <2>1. \A d \in Events : log[d].thread \subseteq log'[d].thread
    BY <1>1, <1>7 DEF NoEvent
  <2> QED BY <1>1, <2>1, TicketOfStays DEF queueVars
<1>12. TicketTraced'
  <2>1. \A d \in Events : admin[d].ticket \in RowIds \cup {0} /\ log[d].ticket \in RowIds \cup {0}
    BY DEF LogTypeOK, EventRow
  <2> QED BY <1>1, <1>7, <1>11, <2>1 DEF TicketTraced, TicketOf
<1>13. CarriedSound'
  <2>1. \A f \in Flushers : \A d \in Events : flusher[f].copy[d].ticket \in RowIds \cup {0}
    BY DEF LogTypeOK, Copy
  <2>2. \A f \in Flushers : \A d \in Events : TicketOf(d, flusher[f].copy[d].ticket)'
    BY <1>1, <1>11, <2>1 DEF CarriedSound, TicketOf
  <2>3. \A f \in Flushers : flusher[f].batch \subseteq Events
    BY DEF LogTypeOK
  <2>4. \A f \in Flushers :
          /\ \A d \in flusher'[f].batch : log'[d].state = "logged"
          /\ flusher'[f].pc = "answered" /\ ~AdminErrors =>
                \A d \in flusher'[f].batch : admin'[d].seen
    BY <1>1, <1>7, <2>3 DEF CarriedSound
  <2>5. /\ mail'.event = e /\ e # 0 /\ log'[e].state = "received"
        /\ TicketOf(mail.event, mail.inherited)'
    BY <1>1, <1>4, <1>7 DEF TicketOf, queueVars, Events
  <2>6. \A d \in Events : IF log'[d].state = "none" THEN log'[d] = NoEvent
                          ELSE d \in log'[d].thread
    BY <1>3, <1>7 DEF CarriedSound
  <2> QED BY <2>2, <2>4, <2>5, <2>6 DEF CarriedSound
<1> QED BY <1>8, <1>9, <1>10, <1>12, <1>13

(* The shape most steps share: the queue moves on soundly, rows that are   *)
(* sent stay so with their owner, and the events keep their threads.       *)
LEMMA QueueStepInv ==
  ASSUME LInv, QueueInv',
         \A q \in RowIds : dispatch[q].state = "sent" /\ tickets[q] > 0
             => /\ dispatch'[q].state = "sent" /\ tickets'[q] > 0
                /\ owner'[q] = owner[q],
         owner' \in [RowIds -> Events \cup {0}],
         UNCHANGED <<log, mail, flusher, admin>>
  PROVE  LInv'
<1> USE DEF LInv
<1>1. \A d \in Events, q \in RowIds \cup {0} : TicketOf(d, q) =>
          (q # 0 => /\ dispatch'[q].state = "sent" /\ tickets'[q] > 0
                    /\ owner'[q] \in log'[d].thread)
  BY TicketOfStays
<1>2. LogTypeOK'
  BY DEF LogTypeOK, QueueInv
<1>3. (AdminErrors \/ MarkedIsStored)'
  BY DEF MarkedIsStored, Logged
<1>4. TicketTraced'
  <2>1. \A d \in Events : admin[d].ticket \in RowIds \cup {0} /\ log[d].ticket \in RowIds \cup {0}
    BY DEF LogTypeOK, EventRow
  <2> QED BY <1>1, <2>1 DEF TicketTraced, TicketOf
<1>5. CarriedSound'
  <2>1. \A f \in Flushers : \A d \in Events : flusher[f].copy[d].ticket \in RowIds \cup {0}
    BY DEF LogTypeOK, Copy
  <2>2. \A f \in Flushers : \A d \in Events : TicketOf(d, flusher[f].copy[d].ticket)'
    BY <1>1, <2>1 DEF CarriedSound, TicketOf
  <2>3. mail.event # 0 => TicketOf(mail.event, mail.inherited)'
    BY <1>1 DEF CarriedSound, TicketOf, LogTypeOK
  <2> QED BY <2>2, <2>3 DEF CarriedSound
<1> QED BY <1>2, <1>3, <1>4, <1>5

LEMMA EnqueueInv ==
  ASSUME LInv, EnqueueRow, UNCHANGED <<log, mail, flusher, admin>>,
         NEW e \in Events \cup {0},
         owner' = owner \/ owner' = [owner EXCEPT ![lastQid + 1] = e]
  PROVE  LInv'
<1>1. QueueInv'
  BY EnqueueRowInv DEF LInv
<1>2. owner' \in [RowIds -> Events \cup {0}]
  BY DEF LInv, LogTypeOK
<1>3. dispatch[lastQid + 1] = NoDispatch /\ lastQid + 1 \in RowIds
  BY DispatchAssumption DEF EnqueueRow, LInv, QueueInv, QueueTypeOK, DrainIsFresh, RowIds
<1>4. \A q \in RowIds : dispatch[q].state = "sent" /\ tickets[q] > 0
             => /\ dispatch'[q].state = "sent" /\ tickets'[q] > 0
                /\ owner'[q] = owner[q]
  BY <1>3 DEF EnqueueRow, NoDispatch, LInv, LogTypeOK, QueueTypeOK
<1> QED BY <1>1, <1>2, <1>4, QueueStepInv

LEMMA RequestTicketInv == LInv /\ RequestTicket => LInv'
<1> SUFFICES ASSUME LInv, RequestTicket PROVE LInv'
  OBVIOUS
<1>1. PICK e \in Events \cup {0} : e = mail.event
  BY DEF LInv, LogTypeOK
<1> QED BY <1>1, EnqueueInv DEF RequestTicket

LEMMA RequestTimedInv == LInv /\ RequestTimed => LInv'
<1> SUFFICES ASSUME LInv, RequestTimed PROVE LInv'
  OBVIOUS
<1>1. PICK e \in Events \cup {0} : e = 0
  OBVIOUS
<1> QED BY <1>1, EnqueueInv DEF RequestTimed

LEMMA DrainAbortsHereLInv == LInv /\ LogDrainAborts => LInv'
<1> SUFFICES ASSUME LInv, LogDrainAborts PROVE LInv'
  OBVIOUS
<1>1. QueueInv'
  BY DrainAbortsInv DEF LogDrainAborts, LInv
<1> QED BY <1>1, QueueStepInv DEF LogDrainAborts, DrainAborts, LInv, LogTypeOK

LEMMA TickLInv == LInv /\ LogTick => LInv'
<1> SUFFICES ASSUME LInv, LogTick PROVE LInv'
  OBVIOUS
<1>1. QueueInv'
  BY RowsAgeInv DEF LogTick, QueueTick, LInv
<1>2. \A q \in RowIds : dispatch[q].state = "sent" => dispatch'[q].state = "sent"
  BY DEF LogTick, QueueTick, RowsAge, LInv, LogTypeOK, QueueTypeOK, Dispatch
<1> QED BY <1>1, <1>2, QueueStepInv DEF LogTick, QueueTick, LInv, LogTypeOK

LEMMA FlushDiesInv ==
  ASSUME LInv, NEW f \in Flushers, FlushDies(f)
  PROVE  LInv'
<1> USE DEF LInv
<1>1. aborts' \in 0..MaxAborts
      /\ UNCHANGED <<lastQid, dispatch, drainer, tickets, lost, log, owner, mail, admin>>
  BY DispatchAssumption DEF FlushDies, LogTypeOK, QueueTypeOK
<1>2. flusher' = [flusher EXCEPT ![f] = FlusherIdle]
  BY DEF FlushDies
<1>3. FlusherIdle \in [pc : {"idle", "read", "answered"},
                       batch : SUBSET Events, copy : [Events -> Copy]]
  BY DEF FlusherIdle, NoCopy, Copy
<1>4. QueueInv'
  BY <1>1, QueueUntouched
<1>5. LogTypeOK'
  BY <1>1, <1>2, <1>3, <1>4 DEF LogTypeOK, QueueInv
<1>6. \A g \in Flushers : flusher'[g] = flusher[g] \/ flusher'[g] = FlusherIdle
  BY <1>2 DEF LogTypeOK
<1>7. CarriedSound'
  BY <1>1, <1>6 DEF CarriedSound, TicketOf, FlusherIdle, NoCopy
<1> QED BY <1>1, <1>4, <1>5, <1>7 DEF MarkedIsStored, TicketTraced, TicketOf, Logged

(* The shape of a step that writes log rows: threads stay, no row appears, *)
(* and a ticket id that is new belongs to the event.                       *)
LEMMA LogStepInv ==
  ASSUME LInv, QueueInv', UNCHANGED owner,
         \A q \in RowIds : dispatch[q].state = "sent" /\ tickets[q] > 0
             => dispatch'[q].state = "sent" /\ tickets'[q] > 0,
         log' \in [Events -> EventRow],
         \A e \in Events :
            /\ log'[e].thread = log[e].thread
            /\ log[e].state = "none" => log'[e] = log[e]
            /\ log'[e].state = "none" => log[e].state = "none"
            /\ log[e].state = "logged" => log'[e].state = "logged"
            /\ \/ log'[e].ticket \in {0, log[e].ticket}
               \/ \E q \in RowIds :
                     /\ log'[e].ticket = q /\ dispatch'[q].state = "sent"
                     /\ tickets'[q] > 0 /\ owner[q] \in log[e].thread,
         \A e \in Events : log'[e].state = "logged" /\ ~log'[e].unsent =>
                              admin'[e].seen \/ AdminErrors,
         \/ mail' = NoMail
         \/ /\ mail' = mail
            /\ mail.event # 0 => log'[mail.event].state = "received",
         admin' = admin,
         flusher' \in [Flushers -> [pc : {"idle", "read", "answered"},
                                    batch : SUBSET Events, copy : [Events -> Copy]]],
         \A f \in Flushers : flusher'[f] = flusher[f] \/ flusher'[f] = FlusherIdle
  PROVE  LInv'
<1> USE DEF LInv
<1>1. \A d \in Events, q \in RowIds \cup {0} : TicketOf(d, q) =>
          (q # 0 => /\ dispatch'[q].state = "sent" /\ tickets'[q] > 0
                    /\ owner'[q] \in log'[d].thread)
  BY TicketOfStays
<1>2. LogTypeOK'
  BY DEF LogTypeOK, QueueInv, NoMail
<1>3. (AdminErrors \/ MarkedIsStored)'
  BY DEF MarkedIsStored, Logged
<1>4. TicketTraced'
  <2> SUFFICES ASSUME NEW d \in Events
               PROVE  TicketOf(d, log[d].ticket)' /\ TicketOf(d, admin[d].ticket)'
    BY DEF TicketTraced
  <2>1. admin[d].ticket \in RowIds \cup {0} /\ log[d].ticket \in RowIds \cup {0}
    BY DEF LogTypeOK, EventRow
  <2>2. TicketOf(d, admin[d].ticket)'
    BY <1>1, <2>1 DEF TicketTraced, TicketOf
  <2>3. CASE log'[d].ticket \in {0, log[d].ticket}
    BY <1>1, <2>1, <2>2, <2>3 DEF TicketTraced, TicketOf
  <2>4. CASE log'[d].ticket \notin {0, log[d].ticket}
    BY <2>2, <2>4 DEF TicketOf
  <2> QED BY <2>3, <2>4
<1>5. CarriedSound'
  <2>1. \A f \in Flushers : \A d \in Events : flusher[f].copy[d].ticket \in RowIds \cup {0}
    BY DEF LogTypeOK, Copy
  <2>2. \A f \in Flushers : \A d \in Events : TicketOf(d, flusher[f].copy[d].ticket)'
    <3> SUFFICES ASSUME NEW f \in Flushers, NEW d \in Events
                 PROVE  TicketOf(d, flusher[f].copy[d].ticket)'
      OBVIOUS
    <3>1. CASE flusher'[f] = flusher[f]
      BY <1>1, <2>1, <3>1 DEF CarriedSound, TicketOf
    <3>2. CASE flusher'[f] = FlusherIdle
      BY <3>2 DEF FlusherIdle, NoCopy, TicketOf
    <3> QED BY <3>1, <3>2
  <2>3. \A f \in Flushers :
          /\ \A d \in flusher'[f].batch : log'[d].state = "logged"
          /\ flusher'[f].pc = "answered" /\ ~AdminErrors =>
                \A d \in flusher'[f].batch : admin'[d].seen
    BY DEF CarriedSound, FlusherIdle, LogTypeOK
  <2>4. /\ mail'.event = 0 => mail'.inherited = 0
        /\ mail'.event # 0 => /\ log'[mail'.event].state = "received"
                              /\ TicketOf(mail.event, mail.inherited)'
    <3>1. CASE mail' = NoMail
      BY <3>1 DEF NoMail
    <3>2. CASE mail' = mail /\ (mail.event # 0 => log'[mail.event].state = "received")
      BY <1>1, <3>2 DEF CarriedSound, TicketOf, LogTypeOK
    <3> QED BY <3>1, <3>2
  <2>5. \A d \in Events : IF log'[d].state = "none" THEN log'[d] = NoEvent
                          ELSE d \in log'[d].thread
    BY DEF CarriedSound
  <2> QED BY <2>2, <2>3, <2>4, <2>5 DEF CarriedSound
<1> QED BY <1>2, <1>3, <1>4, <1>5

(* The mail in the pipeline has a row that is received. *)
LEMMA MailRow ==
  ASSUME LInv, mail # NoMail
  PROVE  mail.event \in Events /\ log[mail.event].state = "received"
         /\ log[mail.event] \in EventRow /\ mail.inherited \in RowIds \cup {0}
         /\ TicketOf(mail.event, mail.inherited)
<1>1. mail.event # 0
  BY DEF LInv, LogTypeOK, CarriedSound, NoMail
<1> QED BY <1>1 DEF LInv, LogTypeOK, CarriedSound

LEMMA LogEventInv == LInv /\ LogEvent => LInv'
<1> SUFFICES ASSUME LInv, LogEvent PROVE LInv'
  OBVIOUS
<1>1. PICK e \in Events : e = mail.event
  BY MailRow DEF LogEvent
<1>2. /\ log[e].state = "received" /\ log[e] \in EventRow
      /\ mail.inherited \in RowIds \cup {0} /\ TicketOf(e, mail.inherited)
  BY <1>1, MailRow DEF LogEvent
<1> DEFINE n == InsertedEvent(e)
<1>3. /\ n \in EventRow /\ n.state = "logged" /\ n.unsent = TRUE
      /\ n.thread = log[e].thread /\ n.ticket = mail.inherited
  BY <1>2 DEF InsertedEvent, EventRow
<1>4. log' = [log EXCEPT ![e] = n]
  BY <1>1 DEF LogEvent
<1> HIDE DEF n
<1>5. /\ log' \in [Events -> EventRow]
      /\ log'[e] = n /\ \A d \in Events : d # e => log'[d] = log[d]
  BY <1>3, <1>4 DEF LInv, LogTypeOK
<1>6. QueueInv' /\ mail' = NoMail /\ UNCHANGED <<queueVars, owner, flusher, admin>>
  BY QueueUntouched DEF LogEvent, LInv, queueVars, QueueInv, QueueTypeOK
<1>7. log'[e].ticket \in {0, log[e].ticket}
      \/ \E q \in RowIds : /\ log'[e].ticket = q /\ dispatch'[q].state = "sent"
                           /\ tickets'[q] > 0 /\ owner[q] \in log[e].thread
  <2>2. CASE mail.inherited # 0
    BY <1>2, <1>3, <1>5, <1>6, <2>2 DEF TicketOf, queueVars
  <2>3. CASE mail.inherited = 0
    BY <1>3, <1>5, <2>3
  <2> QED BY <2>2, <2>3
<1>8. \A d \in Events : log'[d].state = "logged" /\ ~log'[d].unsent => admin'[d].seen \/ AdminErrors
  BY <1>3, <1>5, <1>6 DEF LInv, MarkedIsStored, Logged
<1>9. \A d \in Events :
        /\ log'[d].thread = log[d].thread
        /\ log[d].state = "none" => log'[d] = log[d]
        /\ log'[d].state = "none" => log[d].state = "none"
        /\ log[d].state = "logged" => log'[d].state = "logged"
        /\ \/ log'[d].ticket \in {0, log[d].ticket}
           \/ \E q \in RowIds : /\ log'[d].ticket = q /\ dispatch'[q].state = "sent"
                                /\ tickets'[q] > 0 /\ owner[q] \in log[d].thread
  BY <1>2, <1>3, <1>5, <1>7
<1>10. /\ UNCHANGED owner /\ admin' = admin /\ mail' = NoMail /\ flusher' = flusher
       /\ dispatch' = dispatch /\ tickets' = tickets
  BY <1>6 DEF queueVars
<1> QED BY <1>5, <1>6, <1>8, <1>9, <1>10, LogStepInv DEF LInv, LogTypeOK

LEMMA DropMailInv == LInv /\ DropMail => LInv'
<1> SUFFICES ASSUME LInv, DropMail PROVE LInv'
  OBVIOUS
<1>1. PICK e \in Events : e = mail.event
  BY MailRow DEF DropMail
<1>2. log[e].state = "received" /\ log[e] \in EventRow
  BY <1>1, MailRow DEF DropMail
<1> DEFINE n == [log[e] EXCEPT !.state = "dropped"]
<1>3. n \in EventRow /\ n.state = "dropped" /\ n.thread = log[e].thread
      /\ n.ticket = log[e].ticket
  BY <1>2 DEF EventRow
<1>4. log' = [log EXCEPT ![e] = n]
  BY <1>1 DEF DropMail
<1> HIDE DEF n
<1>5. /\ log' \in [Events -> EventRow]
      /\ log'[e] = n /\ \A d \in Events : d # e => log'[d] = log[d]
  BY <1>3, <1>4 DEF LInv, LogTypeOK
<1>6. /\ aborts' \in 0..MaxAborts /\ mail' = NoMail
      /\ UNCHANGED <<lastQid, dispatch, drainer, tickets, lost, owner, flusher, admin>>
  BY DispatchAssumption DEF DropMail, LInv, LogTypeOK, QueueTypeOK
<1>7. QueueInv'
  BY <1>6, QueueUntouched DEF LInv
<1>8. \A d \in Events : log'[d].state = "logged" /\ ~log'[d].unsent => admin'[d].seen \/ AdminErrors
  BY <1>3, <1>5, <1>6 DEF LInv, MarkedIsStored, Logged
<1>9. \A d \in Events :
        /\ log'[d].thread = log[d].thread
        /\ log[d].state = "none" => log'[d] = log[d]
        /\ log'[d].state = "none" => log[d].state = "none"
        /\ log[d].state = "logged" => log'[d].state = "logged"
        /\ log'[d].ticket \in {0, log[d].ticket}
  BY <1>2, <1>3, <1>5
<1> QED BY <1>5, <1>6, <1>7, <1>8, <1>9, LogStepInv DEF LInv, LogTypeOK

(* What the drain's update writes to the event, if it finds it.            *)
LEMMA RecordWrites ==
  ASSUME LInv, NEW q \in RowIds, Record(q), drainer.answer = "ok"
  PROVE  dispatch'[q].state = "sent" /\ tickets'[q] > 0
<1> USE DEF LInv
<1>1. /\ drainer.pc = "answered" /\ drainer.row = q /\ q \in drainer.todo
      /\ dispatch[q].state \in Live /\ dispatch[q].attempts < MaxAttempts
  BY DEF Record, QueueInv, DrainIsFresh
<1>2. dispatch'[q].state = "sent"
  <2>1. dispatch[q] \in Dispatch /\ drainer.answer \in Answers
    BY DEF QueueInv, QueueTypeOK
  <2>2. dispatch'[q] = Attempted(dispatch[q], drainer.answer)
    BY DEF Record, QueueInv, QueueTypeOK
  <2> QED BY <1>1, <2>1, <2>2, AttemptedRow
<1>3. tickets'[q] > 0
  <2>1. tickets[q] = lost[q] + 1
    BY <1>1 DEF QueueInv, TicketsAccounted, OkUnrecorded
  <2>2. lost[q] \in Nat /\ tickets' = tickets
    BY DEF Record, QueueInv, QueueTypeOK
  <2> QED BY <2>1, <2>2
<1> QED BY <1>2, <1>3

LEMMA DrainStepLInv ==
  ASSUME LInv, NEW q \in RowIds, LogDrainStep(q)
  PROVE  LInv'
<1> USE DEF LInv
<1>1. UNCHANGED <<owner, mail, flusher, admin>>
  BY DEF LogDrainStep
<1>2. QueueInv'
  BY DrainReadInv, SubmitInv, RecordInv DEF LogDrainStep
<1>3. \A r \in RowIds : dispatch[r].state = "sent" /\ tickets[r] > 0
        => dispatch'[r].state = "sent" /\ tickets'[r] > 0
  <2>1. CASE DrainRead
    BY <2>1 DEF DrainRead
  <2>2. CASE Submit(q)
    BY <2>2 DEF Submit, QueueInv, QueueTypeOK
  <2>3. CASE Record(q)
    <3>1. dispatch[q].state # "sent"
      BY <2>3 DEF Record, QueueInv, DrainIsFresh, Live
    <3>2. tickets' = tickets /\ \A r \in RowIds : r # q => dispatch'[r] = dispatch[r]
      BY <2>3 DEF Record, QueueInv, QueueTypeOK
    <3> QED BY <3>1, <3>2
  <2> QED BY <2>1, <2>2, <2>3 DEF LogDrainStep
<1>4. CASE log' = log
  BY <1>1, <1>2, <1>3, <1>4, QueueStepInv DEF LogTypeOK
<1>5. ASSUME log' # log
      PROVE  LInv'
  <2>1. /\ Record(q) /\ owner[q] \in Events /\ log[owner[q]].state = "logged"
        /\ \/ (drainer.answer = "ok" /\ log' = WithTicket(owner[q], q))
           \/ log' = WithDead(owner[q])
    BY <1>5 DEF LogDrainStep, Logged
  <2>2. PICK e \in Events : e = owner[q]
    BY <2>1
  <2>3. log[e] \in EventRow /\ e \in log[e].thread /\ log[e].state = "logged"
    BY <2>1, <2>2 DEF LogTypeOK, CarriedSound
  <2>4. PICK n \in EventRow :
          /\ log' = [log EXCEPT ![e] = n]
          /\ n.state = "logged" /\ n.thread = log[e].thread
          /\ n.unsent = log[e].unsent \/ n.unsent = TRUE
          /\ n.ticket = log[e].ticket \/ (n.ticket = q /\ drainer.answer = "ok")
    <3>1. CASE drainer.answer = "ok" /\ log' = WithTicket(owner[q], q)
      <4> DEFINE m == [log[e] EXCEPT !.ticket = q]
      <4>1. m \in EventRow /\ m.state = "logged" /\ m.thread = log[e].thread
            /\ m.unsent = log[e].unsent /\ m.ticket = q
        BY <2>3 DEF EventRow
      <4>2. log' = [log EXCEPT ![e] = m]
        BY <2>2, <3>1 DEF WithTicket
      <4> HIDE DEF m
      <4> QED BY <3>1, <4>1, <4>2
    <3>2. CASE log' = WithDead(owner[q])
      <4> DEFINE m == [[log[e] EXCEPT !.dead = TRUE] EXCEPT !.unsent = TRUE]
      <4>1. m \in EventRow /\ m.state = "logged" /\ m.thread = log[e].thread
            /\ m.unsent = TRUE /\ m.ticket = log[e].ticket
        BY <2>3 DEF EventRow
      <4>2. log' = [log EXCEPT ![e] = m]
        BY <2>2, <2>3, <3>2 DEF WithDead, LogTypeOK
      <4> HIDE DEF m
      <4> QED BY <4>1, <4>2
    <3> QED BY <2>1, <3>1, <3>2
  <2>5. /\ log' \in [Events -> EventRow]
        /\ log'[e] = n /\ \A d \in Events : d # e => log'[d] = log[d]
    BY <2>4 DEF LogTypeOK
  <2>6. n.ticket = log[e].ticket
        \/ /\ n.ticket = q /\ dispatch'[q].state = "sent" /\ tickets'[q] > 0
           /\ owner[q] \in log[e].thread
    BY <2>1, <2>2, <2>3, <2>4, RecordWrites
  <2>7. \A d \in Events :
          /\ log'[d].thread = log[d].thread
          /\ log[d].state = "none" => log'[d] = log[d]
          /\ log'[d].state = "none" => log[d].state = "none"
          /\ log[d].state = "logged" => log'[d].state = "logged"
          /\ \/ log'[d].ticket \in {0, log[d].ticket}
             \/ \E r \in RowIds : /\ log'[d].ticket = r /\ dispatch'[r].state = "sent"
                                  /\ tickets'[r] > 0 /\ owner[r] \in log[d].thread
    BY <2>3, <2>4, <2>5, <2>6
  <2>8. \A d \in Events : log'[d].state = "logged" /\ ~log'[d].unsent => admin'[d].seen \/ AdminErrors
    BY <1>1, <2>3, <2>4, <2>5 DEF MarkedIsStored, Logged
  <2>9. mail.event # 0 => log'[mail.event].state = "received"
    BY <2>3, <2>5 DEF CarriedSound, LogTypeOK
  <2> QED BY <1>1, <1>2, <1>3, <2>5, <2>7, <2>8, <2>9, LogStepInv DEF LogTypeOK
<1> QED BY <1>4, <1>5

LEMMA FlushReadInv ==
  ASSUME LInv, NEW f \in Flushers, FlushRead(f)
  PROVE  LInv'
<1> USE DEF LInv
<1> DEFINE c == [e \in Events |-> [ticket |-> log[e].ticket, dead |-> log[e].dead]]
           n == [pc |-> "read", batch |-> Oldest(Unsent), copy |-> c]
<1>1. UNCHANGED <<queueVars, log, owner, mail, admin>> /\ flusher' = [flusher EXCEPT ![f] = n]
  BY DEF FlushRead
<1>2. /\ c \in [Events -> Copy]
      /\ \A e \in Events : c[e].ticket = log[e].ticket
  BY DEF LogTypeOK, EventRow, Copy
<1>3. n.batch \subseteq Events /\ \A e \in n.batch : log[e].state = "logged"
  BY DEF Oldest, Unsent, Logged
<1>4. n \in [pc : {"idle", "read", "answered"}, batch : SUBSET Events, copy : [Events -> Copy]]
      /\ n.pc = "read" /\ n.copy = c
  BY <1>2, <1>3
<1> HIDE DEF n, c
<1>5. flusher'[f] = n /\ \A g \in Flushers : g # f => flusher'[g] = flusher[g]
  BY <1>1 DEF LogTypeOK
<1>6. QueueInv' /\ LogTypeOK'
  <2>1. QueueInv'
    BY <1>1, QueueUntouched DEF queueVars, QueueInv, QueueTypeOK
  <2> QED BY <1>1, <1>4, <2>1 DEF LogTypeOK, QueueInv
<1>7. (AdminErrors \/ MarkedIsStored)' /\ TicketTraced'
  BY <1>1 DEF MarkedIsStored, TicketTraced, TicketOf, Logged, queueVars
<1>8. CarriedSound'
  <2>1. \A g \in Flushers : \A e \in Events : TicketOf(e, flusher[g].copy[e].ticket)'
    BY <1>1, <1>2, <1>4, <1>5 DEF CarriedSound, TicketTraced, TicketOf, queueVars
  <2>2. \A g \in Flushers :
          /\ \A e \in flusher'[g].batch : log'[e].state = "logged"
          /\ flusher'[g].pc = "answered" /\ ~AdminErrors =>
                \A e \in flusher'[g].batch : admin'[e].seen
    BY <1>1, <1>3, <1>4, <1>5 DEF CarriedSound
  <2> QED BY <1>1, <2>1, <2>2 DEF CarriedSound, TicketOf, queueVars
<1> QED BY <1>6, <1>7, <1>8

(* What the admin stores keeps what is true of a ticket id, and no event   *)
(* is taken away.                                                          *)
LEMMA StoreSound ==
  ASSUME LInv, NEW f \in Flushers, NEW S \in SUBSET flusher[f].batch, Store(f, S),
         UNCHANGED <<queueVars, log, owner>>
  PROVE  /\ admin' \in [Events -> [seen : BOOLEAN, ticket : RowIds \cup {0}, dead : BOOLEAN]]
         /\ \A e \in Events : /\ admin[e].seen => admin'[e].seen
                              /\ e \in S => admin'[e].seen
                              /\ TicketOf(e, admin[e].ticket)'
<1> USE DEF LInv
<1>1. \A e \in Events :
        /\ admin[e] \in [seen : BOOLEAN, ticket : RowIds \cup {0}, dead : BOOLEAN]
        /\ flusher[f].copy[e] \in Copy
        /\ TicketOf(e, admin[e].ticket) /\ TicketOf(e, flusher[f].copy[e].ticket)
  BY DEF LogTypeOK, TicketTraced, CarriedSound
<1>2. \A e \in Events : admin'[e] = IF e \in S THEN Merged(admin[e], flusher[f].copy[e])
                                    ELSE admin[e]
  BY DEF Store
<1>3. \A e \in Events :
        LET m == Merged(admin[e], flusher[f].copy[e])
        IN  /\ m \in [seen : BOOLEAN, ticket : RowIds \cup {0}, dead : BOOLEAN]
            /\ m.seen /\ m.ticket \in {admin[e].ticket, flusher[f].copy[e].ticket}
  BY <1>1 DEF Merged, Copy
<1>4. admin' \in [Events -> [seen : BOOLEAN, ticket : RowIds \cup {0}, dead : BOOLEAN]]
  BY <1>1, <1>2, <1>3 DEF Store
<1>5. \A e \in Events : /\ admin[e].seen => admin'[e].seen
                        /\ e \in S => admin'[e].seen
                        /\ admin'[e].ticket \in {admin[e].ticket, flusher[f].copy[e].ticket}
  BY <1>2, <1>3
<1>6. \A e \in Events : TicketOf(e, admin[e].ticket)'
  BY <1>1, <1>5 DEF TicketOf, queueVars
<1> QED BY <1>4, <1>5, <1>6

(* An answer, or its loss: the flusher keeps the batch or forgets it.      *)
LEMMA StoreInv ==
  ASSUME LInv, NEW f \in Flushers, NEW S \in SUBSET flusher[f].batch, Store(f, S),
         UNCHANGED <<queueVars, log, owner, mail>>,
         \/ flusher' = [flusher EXCEPT ![f] = FlusherIdle]
         \/ /\ flusher' = [flusher EXCEPT ![f].pc = "answered"]
            /\ S = flusher[f].batch \/ AdminErrors
  PROVE  LInv'
<1> USE DEF LInv
<1>1. /\ admin' \in [Events -> [seen : BOOLEAN, ticket : RowIds \cup {0}, dead : BOOLEAN]]
      /\ \A e \in Events : /\ admin[e].seen => admin'[e].seen
                           /\ e \in S => admin'[e].seen
                           /\ TicketOf(e, admin[e].ticket)'
  BY StoreSound
<1>2. QueueInv'
  BY QueueUntouched DEF queueVars, QueueInv, QueueTypeOK
<1>3. /\ flusher' \in [Flushers -> [pc : {"idle", "read", "answered"},
                                    batch : SUBSET Events, copy : [Events -> Copy]]]
      /\ \A g \in Flushers :
            \/ flusher'[g] = flusher[g]
            \/ flusher'[g] = FlusherIdle
            \/ /\ g = f /\ flusher'[g].batch = flusher[g].batch
               /\ flusher'[g].copy = flusher[g].copy
               /\ S = flusher[f].batch \/ AdminErrors
  <2>1. CASE flusher' = [flusher EXCEPT ![f] = FlusherIdle]
    <3>1. FlusherIdle \in [pc : {"idle", "read", "answered"},
                           batch : SUBSET Events, copy : [Events -> Copy]]
      BY DEF FlusherIdle, NoCopy, Copy
    <3> QED BY <2>1, <3>1 DEF LogTypeOK
  <2>2. CASE /\ flusher' = [flusher EXCEPT ![f].pc = "answered"]
             /\ S = flusher[f].batch \/ AdminErrors
    <3> DEFINE n == [pc |-> "answered", batch |-> flusher[f].batch,
                     copy |-> flusher[f].copy]
    <3>0. /\ flusher[f].batch \in SUBSET Events /\ flusher[f].copy \in [Events -> Copy]
          /\ flusher[f] = [pc |-> flusher[f].pc, batch |-> flusher[f].batch,
                           copy |-> flusher[f].copy]
      BY DEF LogTypeOK
    <3>1. /\ n \in [pc : {"idle", "read", "answered"},
                    batch : SUBSET Events, copy : [Events -> Copy]]
          /\ n.batch = flusher[f].batch /\ n.copy = flusher[f].copy
      BY <3>0
    <3>2. flusher' = [flusher EXCEPT ![f] = n]
      BY <2>2, <3>0
    <3> HIDE DEF n
    <3>3. flusher'[f] = n /\ \A g \in Flushers : g # f => flusher'[g] = flusher[g]
      BY <3>2 DEF LogTypeOK
    <3> QED BY <2>2, <3>1, <3>2, <3>3 DEF LogTypeOK
  <2> QED BY <2>1, <2>2
<1>4. LogTypeOK'
  BY <1>1, <1>2, <1>3 DEF LogTypeOK, QueueInv
<1>5. (AdminErrors \/ MarkedIsStored)' /\ TicketTraced'
  BY <1>1 DEF MarkedIsStored, TicketTraced, TicketOf, Logged, queueVars
<1>6. CarriedSound'
  <2>1. \A g \in Flushers : \A e \in Events : TicketOf(e, flusher[g].copy[e].ticket)'
    <3> SUFFICES ASSUME NEW g \in Flushers, NEW e \in Events
                 PROVE  TicketOf(e, flusher[g].copy[e].ticket)'
      OBVIOUS
    <3>1. CASE flusher'[g] = FlusherIdle
      BY <3>1 DEF FlusherIdle, NoCopy, TicketOf
    <3>2. CASE flusher'[g].copy = flusher[g].copy
      BY <3>2 DEF CarriedSound, TicketOf, queueVars
    <3> QED BY <1>3, <3>1, <3>2
  <2>2. \A g \in Flushers :
          /\ \A e \in flusher'[g].batch : log'[e].state = "logged"
          /\ flusher'[g].pc = "answered" /\ ~AdminErrors =>
                \A e \in flusher'[g].batch : admin'[e].seen
    <3> SUFFICES ASSUME NEW g \in Flushers
                 PROVE  /\ \A e \in flusher'[g].batch : log'[e].state = "logged"
                        /\ flusher'[g].pc = "answered" /\ ~AdminErrors =>
                              \A e \in flusher'[g].batch : admin'[e].seen
      OBVIOUS
    <3>0. flusher[g].batch \subseteq Events
      BY DEF LogTypeOK
    <3>1. CASE flusher'[g] = flusher[g]
      BY <1>1, <3>0, <3>1 DEF CarriedSound
    <3>2. CASE flusher'[g] = FlusherIdle
      BY <3>2 DEF FlusherIdle
    <3>3. CASE /\ g = f /\ flusher'[g].batch = flusher[g].batch
               /\ S = flusher[f].batch \/ AdminErrors
      BY <1>1, <3>0, <3>3 DEF CarriedSound
    <3> QED BY <1>3, <3>1, <3>2, <3>3
  <2>3. /\ mail'.event = 0 => mail'.inherited = 0
        /\ mail'.event # 0 => /\ log'[mail'.event].state = "received"
                              /\ TicketOf(mail.event, mail.inherited)'
        /\ \A e \in Events : IF log'[e].state = "none" THEN log'[e] = NoEvent
                             ELSE e \in log'[e].thread
    BY DEF CarriedSound, TicketOf, queueVars
  <2> QED BY <2>1, <2>2, <2>3 DEF CarriedSound
<1> QED BY <1>2, <1>4, <1>5, <1>6

LEMMA FlushAnsweredInv ==
  ASSUME LInv, NEW f \in Flushers, FlushAnswered(f) PROVE LInv'
<1>1. PICK S \in SUBSET flusher[f].batch :
        (S # flusher[f].batch => AdminErrors) /\ Store(f, S)
  BY DEF FlushAnswered
<1> QED BY <1>1, StoreInv DEF FlushAnswered

LEMMA FlushRefusedInv ==
  ASSUME LInv, NEW f \in Flushers, FlushRefused(f) PROVE LInv'
<1>1. PICK S \in SUBSET flusher[f].batch : Store(f, S)
  BY DEF FlushRefused
<1> QED BY <1>1, StoreInv DEF FlushRefused, NotFlushed

LEMMA FlushMarkInv ==
  ASSUME LInv, NEW f \in Flushers, FlushMark(f) PROVE LInv'
<1> USE DEF LInv
<1>1. /\ flusher[f].pc = "answered" /\ UNCHANGED <<queueVars, owner, mail, admin>>
      /\ flusher' = [flusher EXCEPT ![f] = FlusherIdle]
  BY DEF FlushMark
<1>2. \A e \in Events :
        /\ log'[e] \in EventRow /\ log'[e].state = log[e].state
        /\ log'[e].thread = log[e].thread /\ log'[e].ticket = log[e].ticket
        /\ log[e].state = "none" => log'[e] = log[e]
        /\ e \notin flusher[f].batch => log'[e] = log[e]
  <2> SUFFICES ASSUME NEW e \in Events
               PROVE  /\ log'[e] \in EventRow /\ log'[e].state = log[e].state
                      /\ log'[e].thread = log[e].thread /\ log'[e].ticket = log[e].ticket
                      /\ log[e].state = "none" => log'[e] = log[e]
                      /\ e \notin flusher[f].batch => log'[e] = log[e]
    OBVIOUS
  <2>1. log[e] \in EventRow
    BY DEF LogTypeOK
  <2>2. log'[e] = IF e \in flusher[f].batch THEN [log[e] EXCEPT !.unsent = FALSE] ELSE log[e]
    BY DEF FlushMark
  <2>3. e \in flusher[f].batch => log[e].state = "logged"
    BY DEF CarriedSound
  <2> QED BY <2>1, <2>2, <2>3 DEF EventRow
<1>3. log' \in [Events -> EventRow]
  <2>1. log' = [e \in Events |-> log'[e]]
    BY DEF FlushMark
  <2> QED BY <1>2, <2>1
<1>4. \A e \in Events : log'[e].state = "logged" /\ ~log'[e].unsent =>
                          admin'[e].seen \/ AdminErrors
  BY <1>1, <1>2 DEF MarkedIsStored, CarriedSound, Logged
<1>5. /\ flusher' \in [Flushers -> [pc : {"idle", "read", "answered"},
                                    batch : SUBSET Events, copy : [Events -> Copy]]]
      /\ \A g \in Flushers : flusher'[g] = flusher[g] \/ flusher'[g] = FlusherIdle
  <2>1. FlusherIdle \in [pc : {"idle", "read", "answered"},
                         batch : SUBSET Events, copy : [Events -> Copy]]
    BY DEF FlusherIdle, NoCopy, Copy
  <2> QED BY <1>1, <2>1 DEF LogTypeOK
<1>6. QueueInv' /\ dispatch' = dispatch /\ tickets' = tickets
  BY <1>1, QueueUntouched DEF queueVars, QueueInv, QueueTypeOK
<1>7. mail.event # 0 => log'[mail.event].state = "received"
  BY <1>2 DEF CarriedSound, LogTypeOK
<1>8. \A e \in Events :
        /\ log'[e].thread = log[e].thread
        /\ log[e].state = "none" => log'[e] = log[e]
        /\ log'[e].state = "none" => log[e].state = "none"
        /\ log[e].state = "logged" => log'[e].state = "logged"
        /\ log'[e].ticket \in {0, log[e].ticket}
  BY <1>2
<1> QED BY <1>1, <1>3, <1>4, <1>5, <1>6, <1>7, <1>8, LogStepInv

LEMMA NextLInv == LInv /\ [LogNext]_logVars => LInv'
<1> SUFFICES ASSUME LInv, [LogNext]_logVars PROVE LInv'
  OBVIOUS
<1>1. CASE Receiving
  BY <1>1, ReceiveInv DEF Receiving
<1>2. CASE RequestTicket \/ LogEvent \/ DropMail \/ RequestTimed
  BY <1>2, RequestTicketInv, LogEventInv, DropMailInv, RequestTimedInv
<1>3. CASE LogSubmitting
  BY <1>3, DrainStepLInv DEF LogSubmitting
<1>4. CASE LogDrainAborts \/ LogTick
  BY <1>4, DrainAbortsHereLInv, TickLInv
<1>5. CASE \E f \in Flushers : Flush(f) \/ FlushDies(f)
  BY <1>5, FlushReadInv, FlushAnsweredInv, FlushRefusedInv, FlushMarkInv, FlushDiesInv
     DEF Flush
<1>6. CASE UNCHANGED logVars
  BY <1>6 DEF logVars, queueVars, LInv, QueueInv, QueueTypeOK, DrainIsFresh,
     TicketsAccounted, OkUnrecorded, LogTypeOK, MarkedIsStored, TicketTraced,
     CarriedSound, TicketOf, Logged
<1> QED BY <1>1, <1>2, <1>3, <1>4, <1>5, <1>6 DEF LogNext

LEMMA LogInvariance == LogSpec => []LInv
BY InitLInv, NextLInv, PTL DEF LogSpec

(* Type correctness: events_log, the queue, both flushes and the admin's   *)
(* table keep their types.                                                 *)
THEOREM LogTypeCorrect == LogSpec => []LogTypeOK
<1>1. LInv => LogTypeOK
  BY DEF LInv
<1> QED BY <1>1, LogInvariance, PTL

(* At-least-once reporting: unless the admin answers 200 to a batch it     *)
(* stored only in part, an event marked sent is in the admin's table, for  *)
(* any number of events, flushers, lost answers and crashes.               *)
THEOREM StoredBeforeMarked == LogSpec => [](AdminErrors \/ MarkedIsStored)
<1>1. LInv => (AdminErrors \/ MarkedIsStored)
  BY DEF LInv
<1> QED BY <1>1, LogInvariance, PTL

(* Every ticket id shown by an event, in the log or at the admin, was      *)
(* given by the manager to a request of that event's own thread.           *)
THEOREM TicketsTraced == LogSpec => []TicketTraced
<1>1. LInv => TicketTraced
  BY DEF LInv
<1> QED BY <1>1, LogInvariance, PTL

LEMMA StoreKeeps ==
  ASSUME LInv, NEW f \in Flushers, NEW S, Store(f, S), NEW e \in Events,
         admin[e].ticket # 0
  PROVE  admin'[e].ticket # 0
<1>1. admin'[e] = IF e \in S THEN Merged(admin[e], flusher[f].copy[e]) ELSE admin[e]
  BY DEF Store
<1>2. Merged(admin[e], flusher[f].copy[e]).ticket # 0
  BY DEF Merged
<1> QED BY <1>1, <1>2

LEMMA KeptStep ==
  ASSUME LInv, [LogNext]_logVars, NEW e \in Events, admin[e].ticket # 0
  PROVE  admin'[e].ticket # 0
<1>1. CASE \E f \in Flushers : FlushAnswered(f) \/ FlushRefused(f)
  <2>1. PICK f \in Flushers : \E S \in SUBSET flusher[f].batch : Store(f, S)
    BY <1>1 DEF FlushAnswered, FlushRefused
  <2> QED BY <2>1, StoreKeeps
<1>2. CASE \E f \in Flushers : FlushRead(f) \/ FlushMark(f) \/ FlushDies(f)
  BY <1>2 DEF FlushRead, FlushMark, FlushDies
<1>3. CASE Receiving \/ RequestTicket \/ LogEvent \/ DropMail
  BY <1>3 DEF Receiving, Receive, RequestTicket, LogEvent, DropMail
<1>4. CASE RequestTimed \/ LogSubmitting \/ LogDrainAborts \/ LogTick
  BY <1>4 DEF RequestTimed, LogSubmitting, LogDrainStep, LogDrainAborts, LogTick
<1>5. CASE UNCHANGED logVars
  BY <1>5 DEF logVars
<1> QED BY <1>1, <1>2, <1>3, <1>4, <1>5 DEF LogNext, Flush

(* The dashboard never loses a ticket id it has shown, however late or     *)
(* incomplete the copies are that the two flushers bring.                  *)
THEOREM AdminTicketKept == LogSpec => AdminKeepsTicket
<1> DEFINE Kept == \A e \in Events : admin[e].ticket # 0 => admin'[e].ticket # 0
<1>1. LInv /\ [LogNext]_logVars => [Kept]_logVars
  BY KeptStep
<1>2. [][Kept]_logVars => AdminKeepsTicket
  BY DEF AdminKeepsTicket
<1> HIDE DEF Kept
<1>3. LogSpec => [][Kept]_logVars
  BY <1>1, LogInvariance, PTL DEF LogSpec
<1> QED BY <1>2, <1>3
=============================================================================
