--------------------------- MODULE AuthCodesProofs ---------------------------
(* Proofs about AuthCodes, for every value of its constants. *)
EXTENDS AuthCodes, TLAPS

-----------------------------------------------------------------------------
(* The invariant.                                                          *)

(* The mail in hand is the one being processed, and it was tried no more   *)
(* often than the faults explain.                                          *)
Visiting ==
  /\ now # Idle => /\ sender[now.visit[1]].phase = "processing"
                   /\ now.visit[2] = sender[now.visit[1]].tries
  /\ \A m \in Mails :
        /\ sender[m].phase = "processing" => now # Idle /\ now.visit[1] = m
        /\ sender[m].phase = "waiting" => sender[m].tries <= faults
        /\ sender[m].phase # "waiting" => sender[m].tries <= faults + 1

(* The visit is the present or an earlier try of its mail. *)
Past(v) == v[2] <= sender[v[1]].tries

Charged(v) == (\E s \in spent : s[2] = v) \/ (\E u \in usages : u[2] = v)

(* What a ticket may be opened on. *)
Good(answer, v) ==
  /\ answer.code = sender[v[1]].code /\ answer.code # NoCode
  /\ answer.kind \in {"oneshot", "permanent"}
  /\ answer.kind = "oneshot" => <<answer.id, v>> \in spent

Waited(k) == now.pc = "asking" /\ k.visit = now.visit

(* A handler serves one visit, which waits for it or was broken off; it    *)
(* charges the visit in its last step, and answers that the code is valid. *)
CallSound(k) ==
  /\ Past(k.visit)
  /\ Waited(k) \/ k.visit \in broken
  /\ k.pc = "issue" => k.visit[1] \notin Urgent
  /\ k.pc \in {"validate", "permanent"} => k.visit[1] \in Urgent
  /\ k.pc = "permanent" => ~k.answer.valid /\ CodeOf(k) # NoCode
  /\ k.pc # "answered" => ~Charged(k.visit)
  /\ k.pc = "answered" =>
        /\ Charged(k.visit) => k.answer.valid
        /\ k.answer.valid /\ k.visit[1] \in Urgent => Good(k.answer, k.visit)

CallsSound ==
  /\ \A k, l \in calls : k.visit = l.visit => k = l
  /\ \A k \in calls : CallSound(k)

NowSound ==
  /\ now.pc = "valid" => Good(now.answer, now.visit) /\ now.visit[1] \in Urgent
  /\ now.pc \in {"asking", "valid"} => \A t \in tickets : t.visit # now.visit

(* What was consumed, recorded and opened, and by whom. *)
HistorySound ==
  /\ \A s \in spent : Past(s[2]) /\ s[2][1] \in Urgent
  /\ \A u \in usages : Past(u[2]) /\ u[2][1] \in Urgent /\ u[1] = sender[u[2][1]].code
  /\ \A t \in tickets : Past(t.visit) /\ (t.kind = "oneshot" => <<t.id, t.visit>> \in spent)

(* The ids of rows are their own; a row not used was not consumed. *)
RowsSound ==
  /\ \A r, s \in spent : r[1] = s[1] => r = s
  /\ \A s \in spent : s[1] <= issues
  /\ \A c \in Codes : oneshot[c].id <= issues
  /\ \A c, d \in Codes : oneshot[c].id = oneshot[d].id /\ oneshot[c] # NoRow => c = d
  /\ \A c \in Codes, s \in spent :
        oneshot[c] # NoRow /\ ~oneshot[c].used => oneshot[c].id # s[1]

IInv ==
  /\ TypeOK /\ Visiting
  /\ CallsSound /\ NowSound /\ HistorySound /\ RowsSound
  /\ AuditKept /\ ConsumedIsServed

-----------------------------------------------------------------------------
(* The steps of the three groups leave the tables of the others alone.     *)

ListenerStep ==
  \/ \E m \in Mails : Start(m)
  \/ \E k \in calls : Receive(k) \/ Lose(k)
  \/ OpenTicket \/ Answer250 \/ Die

HandlerStep == \E k \in calls : Handle(k)
TableStep == Administer \/ Tick \/ Cleanup

LEMMA Groups == Next => ListenerStep \/ HandlerStep \/ TableStep
BY DEF Next, Listen, ListenerStep, HandlerStep, TableStep

LEMMA ListenerFrame == ListenerStep => UNCHANGED db
BY DEF ListenerStep, Start, Receive, Lose, OpenTicket, Answer250, Die

LEMMA HandlerFrame ==
  HandlerStep => UNCHANGED <<now, sender, tickets, erased, manual, broken, faults>>
BY DEF HandlerStep, Handle, NoCodeInSubject, ValidateOneshot, ValidatePermanent, Issue,
       listener, db

LEMMA TableFrame ==
  TableStep => UNCHANGED <<usages, spent, calls, now, sender, tickets, broken, faults>>
BY DEF TableStep, Administer, IssueByHand, DeleteCode, CreatePermanent, Revoke, Tick, Cleanup,
       rest, listener

(* A row is not the absence of one. *)
LEMMA RowTypes ==
  /\ \A row \in OneshotRows : row # NoRow /\ row.id \in Ids /\ row.used \in BOOLEAN
                              /\ row.id # 0 /\ row.id \in Nat
  /\ \A row \in PermanentRows : row # NoRow
  /\ NoRow.id = 0
  /\ MaxIssues \in Nat /\ Ttl \in Nat \ {0} /\ Retention \in Nat /\ MaxFaults \in Nat
  /\ MaxManual \in Nat /\ Idle.pc = "idle" /\ \A n \in Working : n.pc # "idle" /\ n # Idle
BY AuthCodesAssumption DEF OneshotRows, PermanentRows, NoRow, Ids, Idle, Working

LEMMA MailTypes ==
  /\ \A v \in Visits : v[1] \in Mails /\ v[2] \in Tries /\ v = <<v[1], v[2]>> /\ v[2] \in Nat
  /\ MailTenant \in [Mails -> Tenants] /\ ListenerTenant \in Tenants
BY AuthCodesAssumption DEF Visits, Mails, Tries

-----------------------------------------------------------------------------
(* Types.                                                                  *)

LEMMA InitType == Init => TypeOK /\ Visiting
<1> SUFFICES ASSUME Init PROVE TypeOK /\ Visiting
  OBVIOUS
<1> USE RowTypes
<1>1. TypeOK
  BY RegisteredAssumption DEF Init, TypeOK, Idle, Tries
<1>2. Visiting
  BY DEF Init, Visiting, Idle
<1> QED BY <1>1, <1>2

LEMMA NowIsVisit ==
  ASSUME TypeOK, now.pc # "idle"
  PROVE  /\ now \in Working /\ now # Idle /\ now.visit \in Visits
         /\ now.visit[1] \in Mails /\ now.answer \in Answers
<1>1. now \in Working
  BY RowTypes DEF TypeOK
<1> QED BY <1>1, RowTypes, MailTypes DEF Working

LEMMA StartType ==
  ASSUME TypeOK, Visiting, NEW m \in Mails, Start(m)
  PROVE  TypeOK' /\ Visiting'
<1>1. sender[m].tries + 1 \in Tries /\ sender[m].tries + 1 <= faults + 1
  <2>1. sender[m].tries \in Nat /\ sender[m].tries <= faults /\ faults \in 0..MaxFaults
    BY RowTypes DEF TypeOK, Visiting, Start, Tries
  <2> QED BY <2>1, RowTypes DEF Tries
<1> DEFINE visit == <<m, sender[m].tries + 1>>
           mine == [sender[m] EXCEPT !.phase = "processing", !.tries = @ + 1]
<1>2. visit \in Visits
  BY <1>1 DEF Visits
<1>3. /\ mine \in [code : Codes \cup {NoCode},
                   phase : {"waiting", "processing", "done"}, tries : Tries \cup {0}]
      /\ mine.phase = "processing" /\ mine.tries = sender[m].tries + 1
  BY <1>1 DEF TypeOK
<1>4. sender' = [sender EXCEPT ![m] = mine]
  BY DEF Start, TypeOK
<1>5. NoAnswer \in Answers
  BY DEF NoAnswer, Answers
<1>6. now' = [pc |-> "asking", visit |-> visit, answer |-> NoAnswer]
  BY DEF Start
<1>7. \E k \in Calls : calls' = calls \cup {k}
  <2> DEFINE k == [visit |-> visit, answer |-> NoAnswer,
                   pc |-> IF m \in Urgent THEN "validate" ELSE "issue"]
  <2>1. k \in Calls
    BY <1>2, <1>5 DEF Calls, CallSteps
  <2>2. calls' = calls \cup {k}
    BY DEF Start
  <2> QED BY <2>1, <2>2
<1> HIDE DEF visit, mine
<1>8. TypeOK'
  <2>1. now' \in Working
    BY <1>2, <1>5, <1>6 DEF Working
  <2>2. sender' \in [Mails -> [code : Codes \cup {NoCode},
                   phase : {"waiting", "processing", "done"}, tries : Tries \cup {0}]]
    BY <1>3, <1>4 DEF TypeOK
  <2>3. calls' \subseteq Calls
    BY <1>7 DEF TypeOK
  <2> QED BY <2>1, <2>2, <2>3 DEF TypeOK, Start, db
<1>9. Visiting'
  <2>1. now'.visit[1] = m /\ now'.visit[2] = mine.tries /\ now' # Idle
    BY <1>3, <1>6 DEF visit, Idle
  <2>2. sender'[m] = mine /\ \A n \in Mails : n # m => sender'[n] = sender[n]
    BY <1>4 DEF TypeOK
  <2>3. faults' = faults /\ now = Idle
    BY DEF Start
  <2>4. \A n \in Mails : sender[n].phase # "processing"
    BY <2>3 DEF Visiting
  <2> QED BY <1>1, <1>3, <2>1, <2>2, <2>3, <2>4 DEF Visiting
<1> QED BY <1>8, <1>9

LEMMA ContinueType ==
  ASSUME NEW visit \in Visits, NEW answer \in Answers, Continue(visit, answer)
  PROVE  now' \in Working /\ now'.visit = visit /\ now' # Idle
<1>1. \E pc \in {"valid", "done"} : now' = [visit |-> visit, answer |-> answer, pc |-> pc]
  BY DEF Continue
<1> QED BY <1>1 DEF Working, Idle

LEMMA ListenerType ==
  ASSUME TypeOK, Visiting, NowSound, ListenerStep
  PROVE  TypeOK' /\ Visiting'
<1>1. ASSUME NEW m \in Mails, Start(m) PROVE TypeOK' /\ Visiting'
  BY <1>1, StartType
<1>2. ASSUME NEW k \in calls, Receive(k) PROVE TypeOK' /\ Visiting'
  <2>1. k.visit \in Visits /\ k.answer \in Answers /\ k.visit = now.visit /\ now # Idle
    BY <1>2, RowTypes DEF TypeOK, Calls, Receive
  <2>2. now' \in Working /\ now'.visit = k.visit /\ now' # Idle
    BY <1>2, <2>1, ContinueType DEF Receive
  <2>3. TypeOK'
    BY <1>2, <2>2 DEF TypeOK, Receive, db
  <2>4. Visiting'
    BY <1>2, <2>1, <2>2 DEF Visiting, Receive
  <2> QED BY <2>3, <2>4
<1>3. ASSUME NEW k \in calls, Lose(k) PROVE TypeOK' /\ Visiting'
  <2>1. /\ k.visit \in Visits /\ k.visit = now.visit /\ now # Idle
        /\ faults \in 0..MaxFaults /\ faults' \in 0..MaxFaults /\ faults' = faults + 1
    BY <1>3, RowTypes DEF TypeOK, Calls, Lose, Fault
  <2>2. NoAnswer \in Answers
    BY DEF NoAnswer, Answers
  <2>3. now' \in Working /\ now'.visit = k.visit /\ now' # Idle
    BY <1>3, <2>1, <2>2, ContinueType DEF Lose
  <2>4. TypeOK'
    BY <1>3, <2>1, <2>3 DEF TypeOK, Lose, db
  <2>5. Visiting'
    BY <1>3, <2>1, <2>3, MailTypes DEF Visiting, Lose, TypeOK, Tries
  <2> QED BY <2>4, <2>5
<1>4. CASE Answer250
  <2> DEFINE m == now.visit[1]
             left == [sender[m] EXCEPT !.phase = "done"]
  <2>1. m \in Mails /\ sender[m].phase = "processing" /\ now # Idle
    BY <1>4, NowIsVisit DEF Answer250, Visiting
  <2>2. sender' = [sender EXCEPT ![m] = left]
    BY <1>4 DEF Answer250, TypeOK
  <2>3. /\ left \in [code : Codes \cup {NoCode},
                     phase : {"waiting", "processing", "done"}, tries : Tries \cup {0}]
        /\ left.phase = "done" /\ left.tries = sender[m].tries
    BY <2>1 DEF TypeOK
  <2>4. \A n \in Mails : n # m => sender[n].phase # "processing"
    BY DEF Visiting
  <2> HIDE DEF left
  <2>5. TypeOK'
    BY <1>4, <2>1, <2>2, <2>3 DEF TypeOK, Answer250, db
  <2>6. Visiting'
    <3>1. now' = Idle /\ faults' = faults
      BY <1>4 DEF Answer250
    <3>2. sender'[m] = left /\ \A n \in Mails : n # m => sender'[n] = sender[n]
      BY <2>1, <2>2 DEF TypeOK
    <3> HIDE DEF m
    <3> QED BY <2>1, <2>3, <2>4, <3>1, <3>2 DEF Visiting
  <2> QED BY <2>5, <2>6
<1>5. CASE Die
  <2> DEFINE m == now.visit[1]
             left == [sender[m] EXCEPT !.phase = "waiting"]
  <2>0. now \in Working
    BY <1>5 DEF Die, TypeOK
  <2>1. /\ m \in Mails /\ sender[m].phase = "processing" /\ now # Idle /\ now.visit \in Visits
        /\ faults \in 0..MaxFaults /\ faults' \in 0..MaxFaults /\ faults' = faults + 1
    BY <1>5, <2>0, RowTypes, MailTypes DEF Die, Visiting, Working, TypeOK, Fault
  <2>2. sender' = [sender EXCEPT ![m] = left]
    BY <1>5 DEF Die, TypeOK
  <2>3. /\ left \in [code : Codes \cup {NoCode},
                     phase : {"waiting", "processing", "done"}, tries : Tries \cup {0}]
        /\ left.phase = "waiting" /\ left.tries = sender[m].tries
    BY <2>1 DEF TypeOK
  <2>4. \A n \in Mails : n # m => sender[n].phase # "processing"
    BY DEF Visiting
  <2> HIDE DEF left
  <2>5. TypeOK'
    BY <1>5, <2>1, <2>2, <2>3 DEF TypeOK, Die, db
  <2>6. Visiting'
    <3>1. now' = Idle
      BY <1>5 DEF Die
    <3>2. sender'[m] = left /\ \A n \in Mails : n # m => sender'[n] = sender[n]
      BY <2>1, <2>2 DEF TypeOK
    <3>3. \A n \in Mails : sender[n].tries \in Nat
      BY DEF TypeOK, Tries
    <3> HIDE DEF m
    <3> QED BY <2>1, <2>3, <2>4, <3>1, <3>2, <3>3 DEF Visiting
  <2> QED BY <2>5, <2>6
<1>6. ASSUME OpenTicket PROVE TypeOK' /\ Visiting'
  <2>1. /\ now \in Working /\ now # Idle /\ now.visit \in Visits /\ now.visit[1] \in Mails
        /\ now.answer \in Answers
    BY <1>6, NowIsVisit, RowTypes DEF OpenTicket
  <2>2. now' \in Working /\ now'.visit = now.visit /\ now' # Idle
    BY <1>6, <2>1 DEF OpenTicket, Working, Idle
  <2>3. now.answer.code \in Codes /\ now.answer.kind \in {"oneshot", "permanent"}
    BY <1>6, <2>1 DEF OpenTicket, NowSound, Good, Answers
  <2>4. [visit |-> now.visit, kind |-> now.answer.kind, id |-> now.answer.id,
         code |-> now.answer.code]
          \in [visit : Visits, kind : {"oneshot", "permanent"}, id : Ids \cup {0}, code : Codes]
    BY <2>1, <2>3 DEF Answers
  <2>5. TypeOK'
    BY <1>6, <2>2, <2>4 DEF TypeOK, OpenTicket, db
  <2>6. Visiting'
    BY <1>6, <2>1, <2>2 DEF Visiting, OpenTicket
  <2> QED BY <2>5, <2>6
<1> QED BY <1>1, <1>2, <1>3, <1>4, <1>5, <1>6 DEF ListenerStep

(* A handler makes another call of a call, or answers.                     *)
LEMMA AnswerCalls ==
  ASSUME NEW k \in calls, NEW answer, Answer(k, answer)
  PROVE  \/ calls' = calls \ {k} /\ ~Waited(k)
         \/ Waited(k) /\ Step(k, "answered", answer)
BY DEF Answer, Waited

LEMMA StepCall ==
  ASSUME TypeOK, NEW k \in calls, NEW pc \in CallSteps, NEW answer \in Answers,
         Step(k, pc, answer)
  PROVE  /\ calls' \subseteq Calls
         /\ \E l \in Calls : /\ l = [visit |-> k.visit, pc |-> pc, answer |-> answer]
                            /\ calls' = (calls \ {k}) \cup {l}
<1>1. k \in Calls
  BY DEF TypeOK
<1>2. [visit |-> k.visit, pc |-> pc, answer |-> answer] \in Calls
  BY <1>1 DEF Calls
<1> QED BY <1>2 DEF Step, TypeOK

LEMMA AnswerType ==
  ASSUME TypeOK, NEW k \in calls, NEW answer \in Answers, Answer(k, answer)
  PROVE  calls' \subseteq Calls
BY AnswerCalls, StepCall DEF TypeOK, CallSteps

LEMMA InsertType ==
  ASSUME TypeOK, NEW code \in Codes, NEW tenant \in Tenants, InsertOneshot(code, tenant)
  PROVE  /\ oneshot' \in [Codes -> OneshotRows \cup {NoRow}]
         /\ issues \in Nat /\ issues' = issues + 1 /\ issues' \in 0..MaxIssues /\ issues + 1 \in Ids
         /\ oneshot[code] = NoRow
         /\ oneshot'[code] \in OneshotRows /\ oneshot'[code].id = issues + 1
         /\ ~oneshot'[code].used
         /\ \A c \in Codes : c # code => oneshot'[c] = oneshot[c]
<1> DEFINE row == NewRow(tenant, Ttl)
<1>1. issues \in Nat /\ issues' = issues + 1 /\ issues' \in 0..MaxIssues /\ issues + 1 \in Ids
  BY RowTypes DEF InsertOneshot, TypeOK, Ids
<1>2. row \in OneshotRows /\ row.id = issues + 1 /\ ~row.used
  BY <1>1, RowTypes DEF NewRow, OneshotRows, Oldest
<1>3. oneshot' = [oneshot EXCEPT ![code] = row]
  BY DEF InsertOneshot
<1>4. oneshot[code] = NoRow
  BY DEF InsertOneshot, Drawable
<1> HIDE DEF row
<1> QED BY <1>1, <1>2, <1>3, <1>4 DEF TypeOK

(* Consuming marks the row and changes nothing else of it.                 *)
LEMMA ConsumeRow ==
  ASSUME TypeOK, NEW code \in Codes, NEW tenant \in Tenants, Spendable(code, tenant)
  PROVE  /\ oneshot[code] \in OneshotRows /\ ~oneshot[code].used
         /\ Consume(code) \in OneshotRows
         /\ Consume(code).id = oneshot[code].id /\ Consume(code).used
<1>1. oneshot[code] \in OneshotRows /\ ~oneshot[code].used
  BY DEF Spendable, Exists, TypeOK
<1> QED BY <1>1 DEF Consume, OneshotRows

LEMMA HandlerType ==
  ASSUME TypeOK, CallsSound, HandlerStep
  PROVE  TypeOK'
<1>0. UNCHANGED <<now, sender, tickets, erased, manual, broken, faults>>
  BY HandlerFrame
<1>1. PICK k \in calls : Handle(k)
  BY DEF HandlerStep
<1>2. /\ k \in Calls /\ k.visit \in Visits /\ k.visit[1] \in Mails /\ k.answer \in Answers
      /\ CodeOf(k) \in Codes \cup {NoCode} /\ TenantOf(k) \in Tenants
  BY MailTypes DEF TypeOK, Calls, CodeOf, TenantOf
<1>3. CASE NoCodeInSubject(k)
  <2>1. [NoAnswer EXCEPT !.reason = "no_code"] \in Answers
    BY DEF NoAnswer, Answers
  <2>2. calls' \subseteq Calls
    BY <1>3, <2>1, AnswerType DEF NoCodeInSubject
  <2> QED BY <1>0, <1>3, <2>2 DEF TypeOK, NoCodeInSubject, db
<1>4. CASE ValidateOneshot(k)
  <2>1. CodeOf(k) \in Codes
    BY <1>2, <1>4 DEF ValidateOneshot
  <2>2. CASE Spendable(CodeOf(k), TenantOf(k))
    <3> DEFINE id == oneshot[CodeOf(k)].id
               ok == [valid |-> TRUE, reason |-> "ok", kind |-> "oneshot",
                      code |-> CodeOf(k), id |-> id]
    <3>1. id \in Ids /\ Consume(CodeOf(k)) \in OneshotRows
      BY <1>2, <2>1, <2>2, ConsumeRow DEF OneshotRows
    <3>2. ok \in Answers
      BY <2>1, <3>1 DEF Answers
    <3>3. calls' \subseteq Calls
      BY <1>4, <2>2, <3>2, AnswerType DEF ValidateOneshot
    <3>4. oneshot' \in [Codes -> OneshotRows \cup {NoRow}]
      BY <1>4, <2>1, <2>2, <3>1 DEF ValidateOneshot, TypeOK
    <3>5. <<id, k.visit>> \in Ids \X Visits
      BY <1>2, <3>1
    <3>6. spent' \subseteq Ids \X Visits
      BY <1>4, <2>2, <3>5 DEF ValidateOneshot, TypeOK
    <3> QED BY <1>0, <1>4, <3>3, <3>4, <3>6 DEF TypeOK, ValidateOneshot
  <2>3. CASE ~Spendable(CodeOf(k), TenantOf(k))
    <3> DEFINE no == [NoAnswer EXCEPT !.code = CodeOf(k),
                                      !.reason = OneshotReason(CodeOf(k), TenantOf(k))]
    <3>1. no \in Answers
      BY <2>1 DEF NoAnswer, Answers, OneshotReason
    <3>2. Step(k, "permanent", no) /\ UNCHANGED <<oneshot, spent>>
      BY <1>4, <2>3 DEF ValidateOneshot
    <3>3. calls' \subseteq Calls
      BY <3>1, <3>2, StepCall DEF CallSteps
    <3> QED BY <1>0, <1>4, <3>2, <3>3 DEF TypeOK, ValidateOneshot
  <2> QED BY <2>2, <2>3
<1>5. CASE ValidatePermanent(k)
  <2>1. CodeOf(k) \in Codes
    BY <1>2, <1>5 DEF ValidatePermanent, CallsSound, CallSound
  <2>2. CASE Usable(CodeOf(k), TenantOf(k))
    <3> DEFINE ok == [valid |-> TRUE, reason |-> "ok", kind |-> "permanent",
                      code |-> CodeOf(k), id |-> 0]
    <3>1. ok \in Answers
      BY <2>1 DEF Answers
    <3>2. calls' \subseteq Calls
      BY <1>5, <2>2, <3>1, AnswerType DEF ValidatePermanent
    <3>3. usages' \subseteq Codes \X Visits
      BY <1>2, <1>5, <2>1, <2>2 DEF ValidatePermanent, TypeOK
    <3> QED BY <1>0, <1>5, <3>2, <3>3 DEF TypeOK, ValidatePermanent
  <2>3. CASE ~Usable(CodeOf(k), TenantOf(k))
    <3> DEFINE found == Exists(permanent, CodeOf(k), TenantOf(k))
               reason == IF k.answer.reason = "not_found" /\ found
                         THEN "revoked" ELSE k.answer.reason
               no == [k.answer EXCEPT !.reason = reason]
    <3>1. no \in Answers
      BY <1>2 DEF Answers
    <3>2. Answer(k, no) /\ UNCHANGED usages
      BY <1>5, <2>3 DEF ValidatePermanent
    <3>3. calls' \subseteq Calls
      BY <3>1, <3>2, AnswerType
    <3> QED BY <1>0, <1>5, <3>2, <3>3 DEF TypeOK, ValidatePermanent
  <2> QED BY <2>2, <2>3
<1>6. CASE Issue(k)
  <2>1. CASE \E code \in Codes :
            /\ InsertOneshot(code, ListenerTenant)
            /\ Answer(k, [NoAnswer EXCEPT !.valid = TRUE, !.reason = "ok",
                                    !.code = code, !.id = issues + 1])
    <3>1. PICK code \in Codes :
            /\ InsertOneshot(code, ListenerTenant)
            /\ Answer(k, [NoAnswer EXCEPT !.valid = TRUE, !.reason = "ok",
                                    !.code = code, !.id = issues + 1])
      BY <2>1
    <3>2. /\ oneshot' \in [Codes -> OneshotRows \cup {NoRow}]
          /\ issues' \in 0..MaxIssues /\ issues + 1 \in Ids
      BY <3>1, InsertType, MailTypes
    <3>3. [NoAnswer EXCEPT !.valid = TRUE, !.reason = "ok", !.code = code, !.id = issues + 1]
            \in Answers
      BY <3>2 DEF NoAnswer, Answers
    <3>4. calls' \subseteq Calls
      BY <3>1, <3>3, AnswerType
    <3> QED BY <1>0, <1>6, <3>2, <3>4 DEF TypeOK, Issue
  <2>2. CASE Answer(k, NoAnswer) /\ UNCHANGED <<oneshot, issues>>
    <3>1. calls' \subseteq Calls
      BY <2>2, AnswerType DEF NoAnswer, Answers
    <3> QED BY <1>0, <1>6, <2>2, <3>1 DEF TypeOK, Issue
  <2> QED BY <1>6, <2>1, <2>2 DEF Issue
<1> QED BY <1>1, <1>3, <1>4, <1>5, <1>6 DEF Handle

LEMMA TableType ==
  ASSUME TypeOK, Visiting, TableStep
  PROVE  TypeOK' /\ Visiting'
<1>0. UNCHANGED <<usages, spent, calls, now, sender, tickets, broken, faults>>
  BY TableFrame
<1>1. Visiting'
  BY <1>0 DEF Visiting
<1>2. manual' = manual \/ (manual < MaxManual /\ manual' = manual + 1)
  BY DEF TableStep, Administer, IssueByHand, DeleteCode, CreatePermanent, Revoke, Tick,
         Cleanup, Manually
<1>3. manual' \in 0..MaxManual
  BY <1>2, RowTypes DEF TypeOK
<1>4. CASE IssueByHand
  <2>1. PICK code \in Codes, tenant \in Tenants : InsertOneshot(code, tenant)
    BY <1>4 DEF IssueByHand
  <2>2. oneshot' \in [Codes -> OneshotRows \cup {NoRow}] /\ issues' \in 0..MaxIssues
    BY <2>1, InsertType
  <2> QED BY <1>0, <1>1, <1>3, <1>4, <2>2 DEF TypeOK, IssueByHand
<1>5. ASSUME NEW c \in Codes, DeleteCode(c) PROVE TypeOK'
  <2>1. oneshot[c].id \in Ids
    BY <1>5, RowTypes DEF DeleteCode, TypeOK
  <2> QED BY <1>0, <1>3, <1>5, <2>1 DEF TypeOK, DeleteCode
<1>6. ASSUME NEW c \in Codes, Revoke(c) PROVE TypeOK'
  <2> DEFINE row == [permanent[c] EXCEPT !.revoked = TRUE]
  <2>1. permanent' = [permanent EXCEPT ![c] = row]
    BY <1>6 DEF Revoke, TypeOK
  <2>2. row \in PermanentRows
    BY <1>6 DEF Revoke, TypeOK, PermanentRows
  <2> HIDE DEF row
  <2> QED BY <1>0, <1>3, <1>6, <2>1, <2>2 DEF TypeOK, Revoke
<1>7. ASSUME NEW c \in Custom, NEW t \in Tenants, CreatePermanent(c, t) PROVE TypeOK'
  <2>1. [tenant |-> t, revoked |-> FALSE] \in PermanentRows /\ c \in Codes
    BY AuthCodesAssumption DEF PermanentRows
  <2> QED BY <1>0, <1>3, <1>7, <2>1 DEF TypeOK, CreatePermanent
<1>8. CASE Tick
  <2>1. \A c \in Codes : oneshot'[c] \in OneshotRows \cup {NoRow}
    <3> SUFFICES ASSUME NEW c \in Codes PROVE oneshot'[c] \in OneshotRows \cup {NoRow}
      OBVIOUS
    <3>1. oneshot[c] \in OneshotRows \cup {NoRow}
      BY DEF TypeOK
    <3>2. CASE oneshot[c] # NoRow /\ oneshot[c].left > Oldest
      <4>1. oneshot'[c] = [oneshot[c] EXCEPT !.left = @ - 1]
        BY <1>8, <3>2 DEF Tick
      <4>2. oneshot[c].left - 1 \in Oldest..Ttl
        BY <3>1, <3>2, RowTypes DEF OneshotRows, Oldest
      <4> QED BY <3>1, <3>2, <4>1, <4>2 DEF OneshotRows
    <3>3. CASE ~(oneshot[c] # NoRow /\ oneshot[c].left > Oldest)
      BY <1>8, <3>1, <3>3 DEF Tick
    <3> QED BY <3>2, <3>3
  <2>2. oneshot' \in [Codes -> OneshotRows \cup {NoRow}]
    BY <1>8, <2>1 DEF Tick
  <2>3. UNCHANGED <<permanent, issues, erased>>
    BY <1>8 DEF Tick
  <2> QED BY <1>0, <1>1, <1>3, <2>2, <2>3 DEF TypeOK
<1>9. CASE Cleanup
  <2>1. UNCHANGED <<permanent, issues, erased>>
    BY <1>9 DEF Cleanup
  <2>2. oneshot' \in [Codes -> OneshotRows \cup {NoRow}]
    BY <1>9 DEF Cleanup, TypeOK
  <2> QED BY <1>0, <1>1, <1>3, <2>1, <2>2 DEF TypeOK
<1> QED BY <1>1, <1>4, <1>5, <1>6, <1>7, <1>8, <1>9 DEF TableStep, Administer

-----------------------------------------------------------------------------
(* The calls, the mail in hand and the history.                            *)

LEMMA InitSound == Init => CallsSound /\ NowSound /\ HistorySound /\ RowsSound
                           /\ AuditKept /\ ConsumedIsServed
BY DEF Init, CallsSound, NowSound, HistorySound, RowsSound, AuditKept, ConsumedIsServed, Idle,
       NoRow

Sound == CallsSound /\ NowSound /\ HistorySound

(* No mail is given another code or another try.                          *)
SameMails ==
  \A m \in Mails : sender'[m].code = sender[m].code /\ sender'[m].tries = sender[m].tries

LEMMA TableSound ==
  ASSUME TypeOK, Sound, ConsumedIsServed, TableStep PROVE Sound' /\ ConsumedIsServed'
<1>0. UNCHANGED <<usages, spent, calls, now, sender, tickets, broken, faults>>
  BY TableFrame
<1>1. CallsSound'
  BY <1>0 DEF Sound, CallsSound, CallSound, Past, Charged, Good, Waited, CodeOf
<1>2. NowSound' /\ HistorySound'
  BY <1>0 DEF Sound, NowSound, HistorySound, Past, Good
<1>3. ConsumedIsServed'
  BY <1>0 DEF ConsumedIsServed, Answered
<1> QED BY <1>1, <1>2, <1>3 DEF Sound

LEMMA StartSound ==
  ASSUME TypeOK, TypeOK', Visiting, Sound, ConsumedIsServed, NEW m \in Mails, Start(m)
  PROVE  Sound' /\ ConsumedIsServed'
<1>0. PICK visit \in Visits : visit = <<m, sender[m].tries + 1>>
  <2>1. sender[m].tries \in Nat /\ sender'[m].tries = sender[m].tries + 1
    BY DEF Start, TypeOK, Tries
  <2>2. sender'[m].tries \in Tries
    BY <2>1 DEF TypeOK, Tries
  <2> QED BY <2>1, <2>2 DEF Visits
<1>a. PICK call \in Calls :
        call = [visit |-> visit, answer |-> NoAnswer,
                pc |-> IF m \in Urgent THEN "validate" ELSE "issue"]
  <2>1. (IF m \in Urgent THEN "validate" ELSE "issue") \in CallSteps
    BY DEF CallSteps
  <2>2. NoAnswer \in Answers
    BY DEF NoAnswer, Answers
  <2> QED BY <1>0, <2>1, <2>2 DEF Calls
<1>1. /\ now = Idle /\ now' = [pc |-> "asking", visit |-> visit, answer |-> NoAnswer]
      /\ calls' = calls \cup {call}
      /\ UNCHANGED <<tickets, broken, usages, spent>>
  BY <1>0, <1>a DEF Start, db
<1>2. \A n \in Mails : /\ sender'[n].code = sender[n].code
                       /\ n # m => sender'[n] = sender[n]
                       /\ sender[n].tries \in Nat /\ sender'[n].tries \in Nat
                       /\ sender'[n].tries >= sender[n].tries
  BY DEF Start, TypeOK, Tries
<1>3. sender'[m].tries = sender[m].tries + 1
  BY DEF Start, TypeOK
<1>4. \A v \in Visits : /\ Past(v) => Past(v)' /\ v # visit
                        /\ sender'[v[1]].code = sender[v[1]].code
  BY <1>0, <1>2, <1>3, MailTypes DEF Past
<1>5. Past(visit)'
  BY <1>0, <1>2, <1>3 DEF Past
<1>6. ~Charged(visit) /\ \A t \in tickets : t.visit # visit
  BY <1>4 DEF Charged, Sound, HistorySound, TypeOK
<1>7. \A v : Charged(v)' <=> Charged(v)
  BY <1>1 DEF Charged
<1>8. \A a, v : v \in Visits => (Good(a, v)' <=> Good(a, v))
  BY <1>1, <1>4 DEF Good
<1>9. \A k \in calls : k \in Calls /\ k.visit \in Visits /\ k.visit # visit /\ ~Waited(k)
  BY <1>1, <1>4 DEF TypeOK, Calls, Sound, CallsSound, CallSound, Waited, Idle
<1>10. call.visit = visit /\ call.pc \in {"validate", "issue"}
       /\ (call.pc = "issue" <=> m \notin Urgent) /\ visit[1] = m
  BY <1>0, <1>a
<1>11. \A k \in calls : CallSound(k)'
  <2> SUFFICES ASSUME NEW k \in calls PROVE CallSound(k)'
    OBVIOUS
  <2>1. CallSound(k) /\ k.visit \in Visits /\ k.visit \in broken
    BY <1>9 DEF Sound, CallsSound, CallSound
  <2>2. CodeOf(k)' = CodeOf(k) /\ Past(k.visit)' /\ k.visit \in broken'
    BY <1>1, <1>4, <2>1 DEF CodeOf, CallSound
  <2> QED BY <1>7, <1>8, <2>1, <2>2 DEF CallSound
<1>12. CallSound(call)'
  BY <1>1, <1>5, <1>6, <1>7, <1>10 DEF CallSound, Waited
<1>13. CallsSound'
  <2>1. \A k, l \in calls' : k.visit = l.visit => k = l
    BY <1>1, <1>9, <1>10 DEF Sound, CallsSound
  <2> QED BY <1>1, <1>11, <1>12, <2>1 DEF CallsSound
<1>14. NowSound'
  BY <1>1, <1>6 DEF NowSound
<1>15. HistorySound'
  BY <1>1, <1>4 DEF HistorySound, Sound, TypeOK
<1>16. ConsumedIsServed'
  <2>1. \A v, c : Answered(v, c) => Answered(v, c)'
    BY <1>1 DEF Answered, Idle
  <2> QED BY <1>1, <1>4, <2>1 DEF ConsumedIsServed, TypeOK
<1> QED BY <1>13, <1>14, <1>15, <1>16 DEF Sound

(* A call that is dropped, and one the listener stops waiting for.         *)
LEMMA FewerCalls ==
  ASSUME TypeOK, Sound, UNCHANGED <<spent, usages>>, calls' \subseteq calls,
         SameMails, \A k \in calls' : Waited(k)' \/ k.visit \in broken'
  PROVE  CallsSound'
<1>1. \A k \in calls' : CallSound(k)'
  <2> SUFFICES ASSUME NEW k \in calls' PROVE CallSound(k)'
    OBVIOUS
  <2>1. k \in Calls /\ k.visit \in Visits /\ CallSound(k)
    BY DEF TypeOK, Calls, Sound, CallsSound
  <2>2. Waited(k)' \/ k.visit \in broken'
    OBVIOUS
  <2>3. /\ Past(k.visit)' <=> Past(k.visit)
        /\ Charged(k.visit)' <=> Charged(k.visit)
        /\ Good(k.answer, k.visit)' <=> Good(k.answer, k.visit)
        /\ CodeOf(k)' = CodeOf(k)
    BY <2>1, MailTypes DEF Past, Charged, Good, CodeOf, SameMails
  <2> QED BY <2>1, <2>2, <2>3 DEF CallSound
<1> QED BY <1>1 DEF CallsSound, Sound

LEMMA SameHistory ==
  ASSUME TypeOK, Sound, UNCHANGED <<spent, usages, tickets>>, SameMails
  PROVE  HistorySound'
<1>1. \A v \in Visits : /\ Past(v)' <=> Past(v)
                        /\ sender'[v[1]].code = sender[v[1]].code
  BY MailTypes DEF Past, SameMails
<1>2. /\ \A s \in spent : s[2] \in Visits
      /\ \A u \in usages : u[2] \in Visits
      /\ \A t \in tickets : t.visit \in Visits
  BY DEF TypeOK
<1> QED BY <1>1, <1>2 DEF HistorySound, Sound

LEMMA ReceiveSound ==
  ASSUME TypeOK, Sound, ConsumedIsServed, NEW k \in calls, Receive(k)
  PROVE  Sound' /\ ConsumedIsServed'
<1>1. /\ now.pc = "asking" /\ k.visit = now.visit /\ k.pc = "answered" /\ calls' = calls \ {k}
      /\ Continue(k.visit, k.answer)
      /\ UNCHANGED <<sender, tickets, broken, spent, usages>>
  BY DEF Receive, db
<1>2. /\ now'.visit = now.visit
      /\ IF k.visit[1] \in Urgent /\ k.answer.valid
         THEN now'.pc = "valid" /\ now'.answer = k.answer ELSE now'.pc = "done"
  BY <1>1 DEF Continue
<1>3. k \in Calls /\ k.visit \in Visits /\ CallSound(k)
  BY DEF TypeOK, Calls, Sound, CallsSound
<1>4. CallsSound'
  <2>1. \A l \in calls' : l.visit \in broken'
    BY <1>1 DEF Sound, CallsSound, CallSound, Waited
  <2> QED BY <1>1, <2>1, FewerCalls DEF SameMails
<1>5. NowSound'
  <2>1. Good(k.answer, k.visit)' <=> Good(k.answer, k.visit)
    BY <1>1 DEF Good
  <2> QED BY <1>1, <1>2, <1>3, <2>1 DEF NowSound, Sound, CallSound, Good
<1>6. HistorySound'
  BY <1>1, SameHistory DEF SameMails
<1>7. ConsumedIsServed'
  <2>1. \A v \in Visits : \A c : Charged(v) /\ v[1] \in Urgent /\ Answered(v, c) => Answered(v, c)'
    <3> SUFFICES ASSUME NEW v \in Visits, NEW c, Charged(v), v[1] \in Urgent, Answered(v, c)
                 PROVE  Answered(v, c)'
      OBVIOUS
    <3>1. CASE v = now.visit
      BY <1>1, <1>2, <1>3, <3>1 DEF CallSound, Answered
    <3>2. CASE v # now.visit
      BY <1>1, <3>2 DEF Answered
    <3> QED BY <3>1, <3>2
  <2>2. \A s \in spent : s[2] \in Visits /\ Charged(s[2]) /\ s[2][1] \in Urgent
    BY DEF TypeOK, Charged, Sound, HistorySound
  <2>3. \A u \in usages : u[2] \in Visits /\ Charged(u[2]) /\ u[2][1] \in Urgent
    BY DEF TypeOK, Charged, Sound, HistorySound
  <2> QED BY <1>1, <2>1, <2>2, <2>3 DEF ConsumedIsServed
<1> QED BY <1>4, <1>5, <1>6, <1>7 DEF Sound

LEMMA LoseSound ==
  ASSUME TypeOK, Sound, ConsumedIsServed, NEW k \in calls, Lose(k)
  PROVE  Sound' /\ ConsumedIsServed'
<1>1. /\ now.pc = "asking" /\ k.visit = now.visit /\ calls' \subseteq calls
      /\ Continue(k.visit, NoAnswer) /\ broken' = broken \cup {now.visit}
      /\ UNCHANGED <<sender, tickets, spent, usages>>
  BY DEF Lose, db
<1>2. now'.pc = "done"
  BY <1>1 DEF Continue, NoAnswer
<1>3. CallsSound'
  <2>1. \A l \in calls' : l.visit \in broken'
    BY <1>1 DEF Sound, CallsSound, CallSound, Waited
  <2> QED BY <1>1, <2>1, FewerCalls DEF SameMails
<1>4. HistorySound' /\ NowSound'
  BY <1>1, <1>2, SameHistory DEF NowSound, SameMails
<1>5. ConsumedIsServed'
  <2>1. \A v, c : Answered(v, c) => Answered(v, c)'
    BY <1>1 DEF Answered
  <2> QED BY <1>1, <2>1 DEF ConsumedIsServed
<1> QED BY <1>3, <1>4, <1>5 DEF Sound

LEMMA TicketSound ==
  ASSUME TypeOK, Visiting, Sound, ConsumedIsServed, OpenTicket
  PROVE  Sound' /\ ConsumedIsServed'
<1>1. /\ now.pc = "valid" /\ now' = [now EXCEPT !.pc = "done"]
      /\ UNCHANGED <<calls, sender, broken, spent, usages>>
  BY DEF OpenTicket, db
<1>2. /\ now \in Working /\ now # Idle /\ now.visit \in Visits /\ now.visit[1] \in Mails
  BY <1>1, NowIsVisit
<1>3. now'.pc = "done"
  BY <1>1, <1>2 DEF Working
<1>4. PICK t : /\ t = [visit |-> now.visit, kind |-> now.answer.kind,
                       id |-> now.answer.id, code |-> now.answer.code]
               /\ tickets' = tickets \cup {t}
  BY DEF OpenTicket
<1>5. /\ Good(now.answer, now.visit)
      /\ Past(now.visit)
  BY <1>1, <1>2 DEF Sound, NowSound, Visiting, Past, TypeOK, Tries
<1>6. CallsSound'
  <2>1. \A l \in calls : l.visit \in broken
    BY <1>1 DEF Sound, CallsSound, CallSound, Waited
  <2> QED BY <1>1, <2>1, FewerCalls DEF SameMails
<1>7. NowSound'
  BY <1>3 DEF NowSound
<1>8. HistorySound'
  <2>1. Past(t.visit) /\ (t.kind = "oneshot" => <<t.id, t.visit>> \in spent)
    BY <1>4, <1>5 DEF Good
  <2> QED BY <1>1, <1>4, <2>1 DEF HistorySound, Sound, Past
<1>9. ConsumedIsServed'
  <2>1. \A v : Answered(v, sender[v[1]].code) => Answered(v, sender[v[1]].code)'
    <3> SUFFICES ASSUME NEW v, Answered(v, sender[v[1]].code)
                 PROVE  Answered(v, sender[v[1]].code)'
      OBVIOUS
    <3>1. CASE v = now.visit
      <4>1. t.visit = v /\ t.code = sender'[v[1]].code /\ t \in tickets'
        BY <1>1, <1>4, <1>5, <3>1 DEF Good
      <4> QED BY <4>1 DEF Answered
    <3>2. CASE v # now.visit
      BY <1>1, <1>4, <3>2 DEF Answered
    <3> QED BY <3>1, <3>2
  <2>2. \A u \in usages : u[1] = sender[u[2][1]].code
    BY DEF Sound, HistorySound
  <2> QED BY <1>1, <2>1, <2>2 DEF ConsumedIsServed
<1> QED BY <1>6, <1>7, <1>8, <1>9 DEF Sound

LEMMA LeaveSound ==
  ASSUME TypeOK, Visiting, Sound, ConsumedIsServed, Answer250 \/ Die
  PROVE  Sound' /\ ConsumedIsServed'
<1>1. /\ now # Idle /\ now' = Idle /\ calls' \subseteq calls
      /\ UNCHANGED <<tickets, spent, usages>>
      /\ \/ now.pc = "done" /\ broken' = broken
         \/ broken' = broken \cup {now.visit}
  BY RowTypes DEF Answer250, Die, db
<1>2. SameMails
  BY DEF Answer250, Die, TypeOK, SameMails
<1>3. now'.pc = "idle"
  BY <1>1 DEF Idle
<1>4. CallsSound'
  <2>1. \A l \in calls' : l.visit \in broken'
    BY <1>1 DEF Sound, CallsSound, CallSound, Waited
  <2> QED BY <1>1, <1>2, <2>1, FewerCalls
<1>5. HistorySound' /\ NowSound'
  BY <1>1, <1>2, <1>3, SameHistory DEF NowSound
<1>6. ConsumedIsServed'
  <2>1. \A v, c : Answered(v, c) => Answered(v, c)'
    BY <1>1 DEF Answered
  <2>2. \A v \in Visits : sender'[v[1]].code = sender[v[1]].code
    BY <1>2, MailTypes DEF SameMails
  <2> QED BY <1>1, <2>1, <2>2 DEF ConsumedIsServed, TypeOK
<1> QED BY <1>4, <1>5, <1>6 DEF Sound

LEMMA ListenerSound ==
  ASSUME TypeOK, TypeOK', Visiting, Sound, ConsumedIsServed, ListenerStep
  PROVE  Sound' /\ ConsumedIsServed'
BY StartSound, ReceiveSound, LoseSound, TicketSound, LeaveSound DEF ListenerStep

(* The step of a handler that leaves one sound call in the place of its    *)
(* own, or none, and charges nothing but its own visit.                    *)
LEMMA HandlerKeeps ==
  ASSUME TypeOK, Sound, ConsumedIsServed,
         NEW k \in calls, UNCHANGED <<now, sender, tickets, broken>>,
         spent \subseteq spent', usages \subseteq usages',
         \A s \in spent' : s \in spent \/ (s[2] = k.visit /\ k.visit[1] \in Urgent),
         \A u \in usages' : u \in usages \/ (u = <<CodeOf(k), k.visit>> /\ k.visit[1] \in Urgent),
         NEW l \in Calls, l.visit = k.visit,
         \/ calls' = calls \ {k}
         \/ calls' = (calls \ {k}) \cup {l} /\ CallSound(l)'
  PROVE  Sound' /\ ConsumedIsServed'
<1>1. k \in Calls /\ k.visit \in Visits /\ CallSound(k) /\ k.visit = <<k.visit[1], k.visit[2]>>
  BY MailTypes DEF TypeOK, Calls, Sound, CallsSound
<1>2. \A v : v # k.visit => (Charged(v)' <=> Charged(v))
  BY <1>1 DEF Charged
<1>3. \A j \in calls \ {k} : CallSound(j)'
  <2> SUFFICES ASSUME NEW j \in calls \ {k} PROVE CallSound(j)'
    OBVIOUS
  <2>1. CallSound(j) /\ j.visit # k.visit
    BY DEF Sound, CallsSound
  <2>2. Charged(j.visit)' <=> Charged(j.visit)
    BY <1>2, <2>1
  <2>3. Good(j.answer, j.visit) => Good(j.answer, j.visit)'
    BY DEF Good
  <2>4. (Waited(j)' <=> Waited(j)) /\ CodeOf(j)' = CodeOf(j) /\ (Past(j.visit)' <=> Past(j.visit))
    BY DEF Waited, CodeOf, Past
  <2> QED BY <2>1, <2>2, <2>3, <2>4 DEF CallSound
<1>4. CallsSound'
  <2>1. \A i, j \in calls' : i.visit = j.visit => i = j
    BY DEF Sound, CallsSound
  <2> QED BY <1>3, <2>1 DEF CallsSound
<1>5. NowSound'
  <2>1. \A a, v : Good(a, v) => Good(a, v)'
    BY DEF Good
  <2> QED BY <2>1 DEF NowSound, Sound
<1>6. HistorySound'
  <2>1. \A v : Past(v)' <=> Past(v)
    BY DEF Past
  <2>2. Past(k.visit) /\ CodeOf(k) = sender[k.visit[1]].code
    BY <1>1 DEF CallSound, CodeOf
  <2> QED BY <2>1, <2>2 DEF HistorySound, Sound
<1>7. ConsumedIsServed'
  <2>1. \A v, c : Answered(v, c)' <=> Answered(v, c)
    BY DEF Answered
  <2>2. (now.pc = "asking" /\ k.visit = now.visit) \/ k.visit \in broken
    BY <1>1 DEF CallSound, Waited
  <2>3. \A c : Answered(k.visit, c)
    BY <2>2 DEF Answered
  <2>4. \A s \in spent' : Answered(s[2], sender[s[2][1]].code)
    BY <2>3 DEF ConsumedIsServed
  <2>5. \A u \in usages' : Answered(u[2], u[1])
    BY <2>3 DEF ConsumedIsServed
  <2> QED BY <2>1, <2>4, <2>5 DEF ConsumedIsServed
<1> QED BY <1>4, <1>5, <1>6 , <1>7 DEF Sound

(* An answer is sound if it says valid whenever the visit was charged.     *)
LEMMA AnswerSound ==
  ASSUME TypeOK, Sound, ConsumedIsServed,
         NEW k \in calls, NEW answer \in Answers, Answer(k, answer),
         UNCHANGED <<now, sender, tickets, broken>>,
         spent \subseteq spent', usages \subseteq usages',
         \A s \in spent' : s \in spent \/ (s[2] = k.visit /\ k.visit[1] \in Urgent),
         \A u \in usages' : u \in usages \/ (u = <<CodeOf(k), k.visit>> /\ k.visit[1] \in Urgent),
         Charged(k.visit)' => answer.valid,
         answer.valid /\ k.visit[1] \in Urgent => Good(answer, k.visit)'
  PROVE  Sound' /\ ConsumedIsServed'
<1>1. k \in Calls /\ CallSound(k) /\ k.visit \in Visits
  BY DEF TypeOK, Sound, CallsSound, Calls
<1>2. PICK l \in Calls : l = [visit |-> k.visit, pc |-> "answered", answer |-> answer]
  BY <1>1 DEF Calls, CallSteps
<1>3. calls' = calls \ {k} \/ (Waited(k) /\ calls' = (calls \ {k}) \cup {l})
  BY <1>2 DEF Answer, Step, Waited
<1>4. Waited(k) => CallSound(l)'
  BY <1>1, <1>2 DEF CallSound, Waited, Past
<1> QED BY <1>2, <1>3, <1>4, HandlerKeeps

LEMMA HandlerSound ==
  ASSUME TypeOK, Sound, ConsumedIsServed, HandlerStep
  PROVE  Sound' /\ ConsumedIsServed'
<1>0. UNCHANGED <<now, sender, tickets, broken>>
  BY HandlerFrame
<1>1. PICK k \in calls : Handle(k)
  BY DEF HandlerStep
<1>2. /\ k \in Calls /\ k.visit \in Visits /\ k.answer \in Answers /\ CallSound(k)
      /\ CodeOf(k) \in Codes \cup {NoCode} /\ TenantOf(k) \in Tenants
      /\ CodeOf(k) = sender[k.visit[1]].code
  BY MailTypes DEF TypeOK, Calls, CodeOf, TenantOf, Sound, CallsSound
<1>3. CASE NoCodeInSubject(k)
  <2> DEFINE no == [NoAnswer EXCEPT !.reason = "no_code"]
  <2>1. no \in Answers /\ ~no.valid
    BY DEF NoAnswer, Answers
  <2>2. Answer(k, no) /\ UNCHANGED <<spent, usages>> /\ k.pc # "answered"
    BY <1>3 DEF NoCodeInSubject, db
  <2>3. ~Charged(k.visit)'
    BY <1>2, <2>2 DEF CallSound, Charged
  <2> HIDE DEF no
  <2> QED BY <1>0, <2>1, <2>2, <2>3, AnswerSound
<1>4. CASE ValidateOneshot(k) /\ Spendable(CodeOf(k), TenantOf(k))
  <2>0. CodeOf(k) \in Codes /\ k.visit[1] \in Urgent
    BY <1>2, <1>4 DEF ValidateOneshot, CallSound
  <2>1. oneshot[CodeOf(k)].id \in Ids
    BY <1>2, <1>4, <2>0, ConsumeRow DEF OneshotRows
  <2>2. PICK id \in Ids, ok \in Answers :
          /\ id = oneshot[CodeOf(k)].id
          /\ ok = [valid |-> TRUE, reason |-> "ok", kind |-> "oneshot",
                    code |-> CodeOf(k), id |-> id]
    BY <2>0, <2>1 DEF Answers
  <2>3. Answer(k, ok) /\ spent' = spent \cup {<<id, k.visit>>} /\ usages' = usages
    BY <1>4, <2>2 DEF ValidateOneshot
  <2>4. Good(ok, k.visit)'
    BY <1>0, <1>2, <2>0, <2>2, <2>3, AuthCodesAssumption DEF Good
  <2> QED BY <1>0, <2>0, <2>2, <2>3, <2>4, AnswerSound
<1>5. CASE ValidateOneshot(k) /\ ~Spendable(CodeOf(k), TenantOf(k))
  <2>0. CodeOf(k) \in Codes /\ CodeOf(k) # NoCode /\ k.visit[1] \in Urgent /\ k.pc = "validate"
    BY <1>2, <1>5 DEF ValidateOneshot, CallSound
  <2> DEFINE no == [NoAnswer EXCEPT !.code = CodeOf(k),
                                    !.reason = OneshotReason(CodeOf(k), TenantOf(k))]
  <2>1. no \in Answers /\ ~no.valid
    BY <2>0 DEF NoAnswer, Answers, OneshotReason
  <2>2. Step(k, "permanent", no) /\ UNCHANGED <<spent, usages>>
    BY <1>5 DEF ValidateOneshot
  <2> HIDE DEF no
  <2>3. PICK l \in Calls : /\ l = [visit |-> k.visit, pc |-> "permanent", answer |-> no]
                           /\ calls' = (calls \ {k}) \cup {l}
    BY <2>1, <2>2, StepCall DEF CallSteps
  <2>4. CallSound(l)'
    <3>1. ~Charged(k.visit) /\ (Charged(k.visit)' <=> Charged(k.visit))
      BY <1>2, <2>0, <2>2 DEF CallSound, Charged
    <3>2. (Waited(k)' <=> Waited(k)) /\ (Past(k.visit)' <=> Past(k.visit)) /\ CodeOf(k)' = CodeOf(k)
      BY <1>0 DEF Waited, Past, CodeOf
    <3> QED BY <1>0, <1>2, <2>0, <2>1, <2>3, <3>1, <3>2 DEF CallSound, Waited, CodeOf
  <2> QED BY <1>0, <2>2, <2>3, <2>4, HandlerKeeps
<1>6. CASE ValidatePermanent(k) /\ Usable(CodeOf(k), TenantOf(k))
  <2>0. CodeOf(k) \in Codes /\ k.visit[1] \in Urgent
    BY <1>2, <1>6 DEF ValidatePermanent, CallSound
  <2>1. PICK ok \in Answers :
          ok = [valid |-> TRUE, reason |-> "ok", kind |-> "permanent",
                code |-> CodeOf(k), id |-> 0]
    BY <2>0 DEF Answers
  <2>2. Answer(k, ok) /\ usages' = usages \cup {<<CodeOf(k), k.visit>>} /\ spent' = spent
    BY <1>6, <2>1 DEF ValidatePermanent
  <2>3. Good(ok, k.visit)'
    BY <1>0, <1>2, <2>0, <2>1, AuthCodesAssumption DEF Good
  <2> QED BY <1>0, <2>0, <2>1, <2>2, <2>3, AnswerSound
<1>7. CASE ValidatePermanent(k) /\ ~Usable(CodeOf(k), TenantOf(k))
  <2> DEFINE found == Exists(permanent, CodeOf(k), TenantOf(k))
             reason == IF k.answer.reason = "not_found" /\ found
                       THEN "revoked" ELSE k.answer.reason
             no == [k.answer EXCEPT !.reason = reason]
  <2>0. k.pc = "permanent" /\ ~k.answer.valid
    BY <1>2, <1>7 DEF ValidatePermanent, CallSound
  <2>1. no \in Answers /\ ~no.valid
    BY <1>2, <2>0 DEF Answers
  <2>2. Answer(k, no) /\ UNCHANGED <<spent, usages>>
    BY <1>7 DEF ValidatePermanent
  <2>3. ~Charged(k.visit)'
    BY <1>2, <2>0, <2>2 DEF CallSound, Charged
  <2> HIDE DEF no
  <2> QED BY <1>0, <2>1, <2>2, <2>3, AnswerSound
<1>8. CASE Issue(k)
  <2>0. k.pc = "issue" /\ k.visit[1] \notin Urgent /\ UNCHANGED <<spent, usages>>
    BY <1>2, <1>8 DEF Issue, CallSound
  <2>1. ~Charged(k.visit)'
    BY <1>2, <2>0 DEF CallSound, Charged
  <2>2. \E answer \in Answers : Answer(k, answer)
    <3>1. CASE \E code \in Codes :
            /\ InsertOneshot(code, ListenerTenant)
            /\ Answer(k, [NoAnswer EXCEPT !.valid = TRUE, !.reason = "ok",
                                    !.code = code, !.id = issues + 1])
      <4>1. PICK code \in Codes :
            /\ InsertOneshot(code, ListenerTenant)
            /\ Answer(k, [NoAnswer EXCEPT !.valid = TRUE, !.reason = "ok",
                                    !.code = code, !.id = issues + 1])
        BY <3>1
      <4>2. issues + 1 \in Ids
        BY <4>1, InsertType, MailTypes
      <4>3. [NoAnswer EXCEPT !.valid = TRUE, !.reason = "ok", !.code = code, !.id = issues + 1]
              \in Answers
        BY <4>2 DEF NoAnswer, Answers
      <4> QED BY <4>1, <4>3
    <3>2. NoAnswer \in Answers
      BY DEF NoAnswer, Answers
    <3> QED BY <1>8, <3>1, <3>2 DEF Issue
  <2> QED BY <1>0, <2>0, <2>1, <2>2, AnswerSound
<1> QED BY <1>1, <1>3, <1>4, <1>5, <1>6, <1>7, <1>8 DEF Handle

-----------------------------------------------------------------------------
(* The rows of the one-shot codes.                                         *)

(* Rows may go, and stay what they are otherwise.                          *)
FewerRows ==
  /\ UNCHANGED <<issues, spent>>
  /\ \A c \in Codes : \/ oneshot'[c] = NoRow
                     \/ /\ oneshot[c] # NoRow /\ oneshot'[c] # NoRow
                        /\ oneshot'[c].id = oneshot[c].id /\ oneshot'[c].used = oneshot[c].used

LEMMA FewerRowsSound == ASSUME TypeOK, RowsSound, FewerRows PROVE RowsSound'
<1>1. issues \in Nat /\ NoRow.id = 0
  BY RowTypes DEF TypeOK
<1>2. \A c \in Codes : oneshot'[c] = NoRow <=> oneshot'[c].id = 0
  BY RowTypes DEF FewerRows, TypeOK
<1>3. \A c \in Codes : oneshot'[c].id <= issues'
  BY <1>1 DEF FewerRows, RowsSound
<1>4. \A c, d \in Codes : oneshot'[c].id = oneshot'[d].id /\ oneshot'[c] # NoRow => c = d
  BY <1>2 DEF FewerRows, RowsSound
<1> QED BY <1>3, <1>4 DEF FewerRows, RowsSound

LEMMA InsertSound ==
  ASSUME TypeOK, RowsSound, AuditKept, NEW code \in Codes, NEW tenant \in Tenants,
         InsertOneshot(code, tenant), UNCHANGED <<spent, erased>>
  PROVE  RowsSound' /\ AuditKept'
<1>1. /\ issues \in Nat /\ issues' = issues + 1 /\ issues + 1 \in Ids
      /\ oneshot[code] = NoRow
      /\ oneshot'[code] \in OneshotRows /\ oneshot'[code].id = issues + 1
      /\ ~oneshot'[code].used
      /\ \A c \in Codes : c # code => oneshot'[c] = oneshot[c]
  BY InsertType
<1>2. \A c \in Codes : oneshot[c].id \in Nat /\ oneshot[c].id <= issues
  BY RowTypes DEF TypeOK, RowsSound
<1>3. \A s \in spent : s[1] \in Nat /\ s[1] <= issues /\ s[1] # 0
  BY DEF TypeOK, RowsSound, Ids
<1>4. RowsSound'
  <2>1. \A c \in Codes : oneshot'[c].id <= issues'
    BY <1>1, <1>2
  <2>2. \A c, d \in Codes : oneshot'[c].id = oneshot'[d].id /\ oneshot'[c] # NoRow => c = d
    BY <1>1, <1>2 DEF RowsSound
  <2>3. \A s \in spent : s[1] <= issues'
    BY <1>1, <1>3
  <2>4. \A c \in Codes, s \in spent :
          oneshot'[c] # NoRow /\ ~oneshot'[c].used => oneshot'[c].id # s[1]
    BY <1>1, <1>3 DEF RowsSound
  <2> QED BY <2>1, <2>2, <2>3, <2>4 DEF RowsSound
<1>5. AuditKept'
  BY <1>1, <1>3, RowTypes DEF AuditKept
<1> QED BY <1>4, <1>5

LEMMA ConsumeSound ==
  ASSUME TypeOK, RowsSound, AuditKept, NEW code \in Codes, NEW tenant \in Tenants,
         NEW visit \in Visits, Spendable(code, tenant),
         oneshot' = [oneshot EXCEPT ![code] = Consume(code)],
         spent' = spent \cup {<<oneshot[code].id, visit>>},
         UNCHANGED <<issues, erased>>
  PROVE  RowsSound' /\ AuditKept'
<1>1. /\ oneshot[code] \in OneshotRows /\ ~oneshot[code].used
      /\ Consume(code) \in OneshotRows
      /\ Consume(code).id = oneshot[code].id /\ Consume(code).used
  BY ConsumeRow
<1>2. /\ oneshot'[code] = Consume(code)
      /\ \A c \in Codes : c # code => oneshot'[c] = oneshot[c]
  BY DEF TypeOK
<1>3. oneshot[code] # NoRow /\ \A s \in spent : s[1] # oneshot[code].id
  BY <1>1, RowTypes DEF RowsSound
<1>4. \A c \in Codes : oneshot'[c].id = oneshot[c].id /\ (oneshot'[c] # NoRow <=> oneshot[c] # NoRow)
  BY <1>1, <1>2, RowTypes
<1>5. RowsSound'
  <2>1. \A r, s \in spent' : r[1] = s[1] => r = s
    BY <1>3 DEF RowsSound
  <2>2. \A s \in spent' : s[1] <= issues'
    BY DEF RowsSound
  <2>3. \A c, d \in Codes : oneshot'[c].id = oneshot'[d].id /\ oneshot'[c] # NoRow => c = d
    BY <1>4 DEF RowsSound
  <2>4. \A c \in Codes : oneshot'[c].id <= issues'
    BY <1>4 DEF RowsSound
  <2>5. \A c \in Codes, s \in spent' :
          oneshot'[c] # NoRow /\ ~oneshot'[c].used => oneshot'[c].id # s[1]
    <3> SUFFICES ASSUME NEW c \in Codes, NEW s \in spent', oneshot'[c] # NoRow, ~oneshot'[c].used
                 PROVE  oneshot'[c].id # s[1]
      OBVIOUS
    <3>1. c # code /\ oneshot'[c] = oneshot[c]
      BY <1>1, <1>2
    <3>2. oneshot[c].id # oneshot[code].id
      BY <3>1 DEF RowsSound
    <3> QED BY <3>1, <3>2 DEF RowsSound
  <2> QED BY <2>1, <2>2, <2>3, <2>4, <2>5 DEF RowsSound
<1>6. AuditKept'
  <2>1. \A s \in spent' : \/ s[1] \in erased
                          \/ \E c \in Codes : oneshot'[c].id = s[1] /\ oneshot'[c].used
    <3> SUFFICES ASSUME NEW s \in spent'
                 PROVE  s[1] \in erased \/ \E c \in Codes : oneshot'[c].id = s[1] /\ oneshot'[c].used
      OBVIOUS
    <3>1. CASE s = <<oneshot[code].id, visit>>
      BY <1>1, <1>2, <3>1
    <3>2. CASE s \in spent
      BY <1>2, <1>3, <3>2 DEF AuditKept
    <3> QED BY <3>1, <3>2
  <2> QED BY <2>1 DEF AuditKept
<1> QED BY <1>5, <1>6

(* What each step does to the rows.                                        *)
Consumes ==
  \E code \in Codes, tenant \in Tenants, visit \in Visits :
    /\ Spendable(code, tenant)
    /\ oneshot' = [oneshot EXCEPT ![code] = Consume(code)]
    /\ spent' = spent \cup {<<oneshot[code].id, visit>>}
    /\ UNCHANGED <<issues, erased, tickets>>

Inserts ==
  \E code \in Codes, tenant \in Tenants :
    InsertOneshot(code, tenant) /\ UNCHANGED <<spent, erased, tickets>>

LEMMA HandlerRows ==
  ASSUME TypeOK, HandlerStep
  PROVE  Consumes \/ Inserts \/ UNCHANGED <<oneshot, issues, spent, erased, tickets>>
<1>0. UNCHANGED <<erased, tickets>>
  BY HandlerFrame
<1>1. PICK k \in calls : Handle(k)
  BY DEF HandlerStep
<1>2. k.visit \in Visits /\ CodeOf(k) \in Codes \cup {NoCode} /\ TenantOf(k) \in Tenants
  BY MailTypes DEF TypeOK, Calls, CodeOf, TenantOf
<1>3. CASE NoCodeInSubject(k) \/ ValidatePermanent(k)
  BY <1>0, <1>3 DEF NoCodeInSubject, ValidatePermanent, db
<1>4. CASE ValidateOneshot(k)
  <2>1. CASE Spendable(CodeOf(k), TenantOf(k))
    <3>1. /\ CodeOf(k) \in Codes
          /\ oneshot' = [oneshot EXCEPT ![CodeOf(k)] = Consume(CodeOf(k))]
          /\ spent' = spent \cup {<<oneshot[CodeOf(k)].id, k.visit>>}
          /\ UNCHANGED <<issues, erased, tickets>>
      BY <1>0, <1>2, <1>4, <2>1 DEF ValidateOneshot
    <3> QED BY <1>2, <2>1, <3>1 DEF Consumes
  <2>2. CASE ~Spendable(CodeOf(k), TenantOf(k))
    BY <1>0, <1>4, <2>2 DEF ValidateOneshot
  <2> QED BY <2>1, <2>2
<1>5. CASE Issue(k)
  BY <1>0, <1>5, MailTypes DEF Issue, Inserts
<1> QED BY <1>1, <1>3, <1>4, <1>5 DEF Handle

LEMMA TableRows ==
  ASSUME TypeOK, TableStep
  PROVE  \/ Inserts
         \/ /\ FewerRows /\ UNCHANGED tickets
            /\ \A c \in Codes : oneshot'[c] = NoRow /\ oneshot[c] # NoRow
                               => ~oneshot[c].used \/ oneshot[c].id \in erased'
            /\ erased \subseteq erased'
<1>0. UNCHANGED <<spent, tickets>>
  BY TableFrame
<1>1. CASE IssueByHand
  BY <1>0, <1>1 DEF IssueByHand, Inserts
<1>2. ASSUME NEW c \in Codes, DeleteCode(c)
      PROVE  /\ FewerRows
             /\ \A d \in Codes : oneshot'[d] = NoRow /\ oneshot[d] # NoRow
                                => ~oneshot[d].used \/ oneshot[d].id \in erased'
             /\ erased \subseteq erased'
  <2>1. /\ oneshot'[c] = NoRow /\ \A d \in Codes : d # c => oneshot'[d] = oneshot[d]
        /\ issues' = issues /\ erased' = erased \cup {oneshot[c].id}
    BY <1>2 DEF DeleteCode, TypeOK
  <2> QED BY <1>0, <2>1 DEF FewerRows
<1>3. ASSUME UNCHANGED <<oneshot, issues, erased>>
      PROVE  /\ FewerRows
             /\ \A d \in Codes : oneshot'[d] = NoRow /\ oneshot[d] # NoRow
                                => ~oneshot[d].used \/ oneshot[d].id \in erased'
             /\ erased \subseteq erased'
  BY <1>0, <1>3 DEF FewerRows
<1>4. ASSUME NEW c \in Codes, Revoke(c) \/ \E t \in Tenants : CreatePermanent(c, t)
      PROVE  UNCHANGED <<oneshot, issues, erased>>
  BY <1>4 DEF Revoke, CreatePermanent
<1>5. CASE Tick
  <2>1. \A c \in Codes :
          oneshot'[c] = IF oneshot[c] # NoRow /\ oneshot[c].left > Oldest
                        THEN [oneshot[c] EXCEPT !.left = @ - 1] ELSE oneshot[c]
    BY <1>5 DEF Tick
  <2>3. ASSUME NEW c \in Codes
        PROVE  \/ oneshot'[c] = NoRow /\ oneshot[c] = NoRow
               \/ /\ oneshot[c] # NoRow /\ oneshot'[c] # NoRow
                  /\ oneshot'[c].id = oneshot[c].id
                  /\ oneshot'[c].used = oneshot[c].used
    <3>1. CASE oneshot[c] = NoRow
      BY <2>1, <3>1
    <3>2. CASE oneshot[c] # NoRow
      <4>1. PICK row \in OneshotRows : row = oneshot[c]
        BY <3>2 DEF TypeOK
      <4>2. row # NoRow /\ row.id # 0
        BY <4>1, RowTypes
      <4>3. /\ [row EXCEPT !.left = @ - 1].id = row.id
            /\ [row EXCEPT !.left = @ - 1].used = row.used
        BY DEF OneshotRows
      <4>4. oneshot'[c] = row \/ oneshot'[c] = [row EXCEPT !.left = @ - 1]
        BY <2>1, <4>1
      <4>5. oneshot'[c].id = row.id /\ oneshot'[c].used = row.used
        BY <4>3, <4>4
      <4>6. oneshot'[c] # NoRow
        BY <4>2, <4>5, RowTypes
      <4> QED BY <3>2, <4>1, <4>5, <4>6
    <3> QED BY <3>1, <3>2
  <2>4. issues' = issues /\ erased' = erased
    BY <1>5 DEF Tick
  <2> QED BY <1>0, <2>3, <2>4 DEF FewerRows
<1>6. CASE Cleanup
  <2>1. \A c \in Codes : IF Stale(c) THEN oneshot'[c] = NoRow ELSE oneshot'[c] = oneshot[c]
    BY <1>6 DEF Cleanup
  <2>2. issues' = issues /\ erased' = erased
    BY <1>6 DEF Cleanup
  <2>3. \A c \in Codes : Stale(c) => ~oneshot[c].used
    BY DEF Stale
  <2> QED BY <1>0, <2>1, <2>2, <2>3 DEF FewerRows
<1>7. CASE \E c \in Codes : DeleteCode(c) \/ Revoke(c)
  BY <1>0, <1>2, <1>3, <1>4, <1>7
<1>8. CASE \E c \in Custom, t \in Tenants : CreatePermanent(c, t)
  BY <1>0, <1>3, <1>4, <1>8, AuthCodesAssumption
<1> QED BY <1>1, <1>5, <1>6, <1>7, <1>8 DEF TableStep, Administer

LEMMA FewerRowsAudit ==
  ASSUME TypeOK, AuditKept, FewerRows, erased \subseteq erased',
         \A c \in Codes : oneshot'[c] = NoRow /\ oneshot[c] # NoRow
                          => ~oneshot[c].used \/ oneshot[c].id \in erased'
  PROVE  AuditKept'
<1>1. \A s \in spent : s[1] # 0
  BY DEF TypeOK, Ids
<1>2. \A s \in spent : \/ s[1] \in erased'
                       \/ \E c \in Codes : oneshot'[c].id = s[1] /\ oneshot'[c].used
  <2> SUFFICES ASSUME NEW s \in spent, s[1] \notin erased'
               PROVE  \E c \in Codes : oneshot'[c].id = s[1] /\ oneshot'[c].used
    OBVIOUS
  <2>1. PICK c \in Codes : oneshot[c].id = s[1] /\ oneshot[c].used
    BY DEF AuditKept
  <2>2. oneshot[c] # NoRow
    BY <1>1, <2>1, RowTypes
  <2> QED BY <2>1, <2>2 DEF FewerRows
<1> QED BY <1>2 DEF AuditKept, FewerRows

LEMMA RowsStep ==
  ASSUME TypeOK, RowsSound, AuditKept, Next
  PROVE  RowsSound' /\ AuditKept'
<1>1. CASE Inserts
  BY <1>1, InsertSound DEF Inserts
<1>2. CASE Consumes
  BY <1>2, ConsumeSound DEF Consumes
<1>3. CASE UNCHANGED <<oneshot, issues, spent, erased>>
  BY <1>3 DEF RowsSound, AuditKept
<1>4. CASE ListenerStep
  BY <1>3, <1>4, ListenerFrame DEF db
<1>5. CASE HandlerStep
  BY <1>1, <1>2, <1>3, <1>5, HandlerRows
<1>6. CASE TableStep
  BY <1>1, <1>6, TableRows, FewerRowsSound, FewerRowsAudit
<1> QED BY <1>4, <1>5, <1>6, Groups

-----------------------------------------------------------------------------
(* The theorems.                                                           *)

LEMMA InitInv == Init => IInv
BY InitType, InitSound DEF IInv

LEMMA StepInv == IInv /\ [Next]_vars => IInv'
<1> SUFFICES ASSUME IInv, [Next]_vars PROVE IInv'
  OBVIOUS
<1>0. /\ TypeOK /\ Visiting /\ Sound /\ RowsSound /\ AuditKept /\ ConsumedIsServed
      /\ NowSound /\ CallsSound
  BY DEF IInv, Sound
<1>1. CASE UNCHANGED vars
  BY <1>1 DEF IInv, vars, TypeOK, Visiting, CallsSound, CallSound, NowSound, HistorySound, RowsSound,
     AuditKept, ConsumedIsServed, Answered, Past, Good, Charged, Waited, CodeOf
<1>2. CASE Next
  <2>1. TypeOK' /\ Visiting'
    <3>1. CASE HandlerStep
      <4>1. UNCHANGED <<now, sender, faults>>
        BY <3>1, HandlerFrame
      <4>2. Visiting'
        BY <1>0, <4>1 DEF Visiting
      <4> QED BY <1>0, <3>1, <4>2, HandlerType
    <3> QED BY <1>0, <1>2, <3>1, Groups, ListenerType, TableType
  <2>2. Sound' /\ ConsumedIsServed'
    BY <1>0, <1>2, <2>1, Groups, ListenerSound, HandlerSound, TableSound
  <2>3. RowsSound' /\ AuditKept'
    BY <1>0, <1>2, RowsStep
  <2> QED BY <2>1, <2>2, <2>3 DEF IInv, Sound
<1> QED BY <1>1, <1>2

THEOREM InvariantIInv == Spec => []IInv
BY InitInv, StepInv, PTL DEF Spec

(* Every variable of the admin's tables and of the listener has its type.  *)
THEOREM TypeCorrect == Spec => []TypeOK
BY InvariantIInv, PTL DEF IInv

(* For any number of mails, codes, tenants, losses and deaths: a code that *)
(* was consumed, and a recorded use of a permanent one, have their ticket, *)
(* are being worked on, or belong to a visit that was broken off.          *)
THEOREM Served == Spec => []ConsumedIsServed
BY InvariantIInv, PTL DEF IInv

(* The nightly cleanup never removes a code that was consumed.             *)
THEOREM AuditCorrect == Spec => []AuditKept
BY InvariantIInv, PTL DEF IInv

-----------------------------------------------------------------------------
(* The refinement.                                                         *)

Opened == {<<t.id, t.visit>> : t \in {t \in tickets : t.kind = "oneshot"}}

LEMMA RedemptionInit == Init => Promise!Init
<1> SUFFICES ASSUME Init PROVE Promise!Init
  OBVIOUS
<1>1. \A i \in Ids : Status(i) = "unissued"
  BY RowTypes DEF Init, Status, Ids
<1> QED BY <1>1 DEF Init, Promise!Init

(* A new row is an issue of Redemption. *)
LEMMA InsertIssues ==
  ASSUME IInv, Inserts PROVE \E i \in Ids : Promise!Issue(i)
<1>0. TypeOK /\ RowsSound
  BY DEF IInv
<1>1. PICK code \in Codes, tenant \in Tenants :
        InsertOneshot(code, tenant) /\ UNCHANGED <<spent, erased, tickets>>
  BY DEF Inserts
<1>2. PICK n : n = issues + 1
  OBVIOUS
<1>3. /\ issues \in Nat /\ issues' = n /\ n \in Ids /\ oneshot[code] = NoRow
      /\ oneshot'[code].id = n
      /\ \A c \in Codes : c # code => oneshot'[c] = oneshot[c]
  BY <1>0, <1>1, <1>2, InsertType
<1>4. /\ \A c \in Codes : oneshot[c].id \in Nat /\ oneshot[c].id <= issues
      /\ \A s \in spent : s[1] \in Nat /\ s[1] <= issues
  BY <1>0, RowTypes DEF TypeOK, RowsSound, Ids
<1>5. Status(n) = "unissued"
  BY <1>2, <1>3, <1>4 DEF Status
<1>6. Status(n)' = "open"
  <2>1. ~\E s \in spent' : s[1] = n
    BY <1>1, <1>2, <1>3, <1>4
  <2> QED BY <1>3, <2>1 DEF Status
<1>7. \A i \in Ids : i # n => Status(i)' = Status(i)
  <2> SUFFICES ASSUME NEW i \in Ids, i # n PROVE Status(i)' = Status(i)
    OBVIOUS
  <2>1. (\E c \in Codes : oneshot'[c].id = i) <=> (\E c \in Codes : oneshot[c].id = i)
    BY <1>3, RowTypes DEF Ids
  <2>2. i <= issues' <=> i <= issues
    BY <1>2, <1>3 DEF Ids
  <2> QED BY <1>1, <2>1, <2>2 DEF Status
<1>8. [i \in Ids |-> Status(i)'] = [[i \in Ids |-> Status(i)] EXCEPT ![n] = "open"]
  BY <1>3, <1>6, <1>7
<1> QED BY <1>1, <1>3, <1>5, <1>8 DEF Promise!Issue

(* The UPDATE of validate_oneshot_code redeems an issue that is open. *)
LEMMA ConsumeRedeems ==
  ASSUME IInv, Consumes PROVE \E i \in Ids, v \in Visits : Promise!Redeem(i, v)
<1>0. TypeOK /\ RowsSound
  BY DEF IInv
<1>1. PICK code \in Codes, tenant \in Tenants, visit \in Visits :
        /\ Spendable(code, tenant)
        /\ oneshot' = [oneshot EXCEPT ![code] = Consume(code)]
        /\ spent' = spent \cup {<<oneshot[code].id, visit>>}
        /\ UNCHANGED <<issues, erased, tickets>>
  BY DEF Consumes
<1>2. PICK n : n = oneshot[code].id
  OBVIOUS
<1>3. /\ n \in Ids /\ oneshot[code] \in OneshotRows /\ oneshot[code] # NoRow
      /\ ~oneshot[code].used
  BY <1>0, <1>1, <1>2, RowTypes DEF TypeOK, Spendable, Exists
<1>4. /\ oneshot'[code].id = n
      /\ \A c \in Codes : c # code => oneshot'[c] = oneshot[c]
  <2>1. oneshot'[code] = [oneshot[code] EXCEPT !.used = TRUE]
    BY <1>0, <1>1 DEF TypeOK, Consume
  <2> QED BY <1>0, <1>1, <1>2, <1>3, <2>1 DEF TypeOK, OneshotRows
<1>5. Status(n) = "open"
  <2>1. ~\E s \in spent : s[1] = n
    BY <1>0, <1>2, <1>3 DEF RowsSound
  <2> QED BY <1>2, <2>1 DEF Status
<1>6. Status(n)' = "redeemed"
  <2>1. <<n, visit>> \in spent' /\ <<n, visit>>[1] = n
    BY <1>1, <1>2
  <2>2. \E s \in spent' : s[1] = n
    BY <2>1
  <2> QED BY <2>2 DEF Status
<1>7. \A i \in Ids : i # n => Status(i)' = Status(i)
  <2> SUFFICES ASSUME NEW i \in Ids, i # n PROVE Status(i)' = Status(i)
    OBVIOUS
  <2>1. (\E s \in spent' : s[1] = i) <=> (\E s \in spent : s[1] = i)
    BY <1>1, <1>2
  <2>2. \A c \in Codes : oneshot'[c].id = oneshot[c].id
    BY <1>2, <1>4
  <2> QED BY <1>1, <2>1, <2>2 DEF Status
<1>8. [i \in Ids |-> Status(i)'] = [[i \in Ids |-> Status(i)] EXCEPT ![n] = "redeemed"]
  BY <1>3, <1>6, <1>7
<1>9. Promise!Redeem(n, visit)
  BY <1>1, <1>2, <1>3, <1>5, <1>8 DEF Promise!Redeem
<1> QED BY <1>3, <1>9

(* Rows that go close the issues that nobody redeemed. *)
LEMMA FewerRowsClose ==
  ASSUME IInv, FewerRows, UNCHANGED tickets
  PROVE  \E gone \in SUBSET Ids : Promise!Close(gone)
<1>0. TypeOK /\ RowsSound
  BY DEF IInv
<1> DEFINE Gone(i) == Status(i) = "open" /\ ~\E c \in Codes : oneshot'[c].id = i
<1>1. PICK gone \in SUBSET Ids : \A i \in Ids : i \in gone <=> Gone(i)
  <2>1. \A i \in Ids : i \in {j \in Ids : Gone(j)} <=> Gone(i)
    OBVIOUS
  <2> QED BY <2>1
<1>2. \A i \in Ids : Status(i)' = IF i \in gone THEN "closed" ELSE Status(i)
  <2> SUFFICES ASSUME NEW i \in Ids
               PROVE  Status(i)' = IF i \in gone THEN "closed" ELSE Status(i)
    OBVIOUS
  <2>1. (\E c \in Codes : oneshot'[c].id = i) => (\E c \in Codes : oneshot[c].id = i)
    BY RowTypes DEF FewerRows, Ids
  <2>2. (\E c \in Codes : oneshot[c].id = i) => i <= issues
    BY <1>0 DEF RowsSound
  <2> QED BY <1>1, <2>1, <2>2 DEF FewerRows, Status, Gone
<1>3. [i \in Ids |-> Status(i)']
        = [i \in Ids |-> IF i \in gone THEN "closed" ELSE [j \in Ids |-> Status(j)][i]]
  BY <1>2
<1>4. \A i \in gone : [j \in Ids |-> Status(j)][i] = "open"
  BY <1>1 DEF Gone
<1>5. Promise!Close(gone)
  BY <1>3, <1>4 DEF Promise!Close, FewerRows
<1> QED BY <1>5

(* A ticket on a one-shot code is the first on its issue. *)
LEMMA TicketOpens ==
  ASSUME IInv, OpenTicket
  PROVE  \/ \E i \in Ids, v \in Visits : Promise!Open(i, v)
         \/ UNCHANGED Promise!vars
<1>0. TypeOK /\ RowsSound /\ NowSound /\ HistorySound
  BY DEF IInv
<1>1. /\ now.pc = "valid" /\ now # Idle /\ now.visit \in Visits
      /\ UNCHANGED <<oneshot, issues, spent>>
  BY <1>0, NowIsVisit DEF OpenTicket, db
<1>2. PICK t : /\ t = [visit |-> now.visit, kind |-> now.answer.kind,
                       id |-> now.answer.id, code |-> now.answer.code]
               /\ tickets' = tickets \cup {t}
  BY DEF OpenTicket
<1>3. \A i \in Ids : Status(i)' = Status(i)
  BY <1>1 DEF Status
<1>4. [i \in Ids |-> Status(i)'] = [i \in Ids |-> Status(i)]
  BY <1>3
<1>5. CASE t.kind = "oneshot"
  <2>1. <<t.id, t.visit>> \in spent /\ t.visit = now.visit
    BY <1>0, <1>1, <1>2, <1>5 DEF NowSound, Good
  <2>2. t.id \in Ids /\ t.visit \in Visits
    BY <1>0, <2>1 DEF TypeOK
  <2>3. \A w \in Visits : <<t.id, w>> \notin Opened
    <3> SUFFICES ASSUME NEW w \in Visits, NEW u \in tickets,
                        u.kind = "oneshot", <<t.id, w>> = <<u.id, u.visit>>
                 PROVE  FALSE
      BY DEF Opened
    <3>1. <<t.id, w>> \in spent
      BY <1>0 DEF HistorySound
    <3>2. <<t.id, w>> = <<t.id, t.visit>>
      BY <1>0, <2>1, <3>1 DEF RowsSound
    <3> QED BY <1>0, <1>1, <2>1, <3>2 DEF NowSound
  <2>4. Opened' = Opened \cup {<<t.id, t.visit>>}
    BY <1>2, <1>5 DEF Opened
  <2>5. Promise!Open(t.id, t.visit)
    BY <1>1, <1>4, <2>1, <2>3, <2>4 DEF Promise!Open, Opened
  <2> QED BY <2>2, <2>5
<1>6. CASE t.kind # "oneshot"
  <2>1. Opened' = Opened
    BY <1>2, <1>6 DEF Opened
  <2> QED BY <1>1, <1>4, <2>1 DEF Promise!vars, Opened
<1> QED BY <1>5, <1>6

LEMMA SameRedemption ==
  ASSUME UNCHANGED <<oneshot, issues, spent, tickets>>
  PROVE  UNCHANGED Promise!vars
<1>1. \A i \in Ids : Status(i)' = Status(i)
  BY DEF Status
<1>2. [i \in Ids |-> Status(i)'] = [i \in Ids |-> Status(i)]
  BY <1>1
<1> QED BY <1>2 DEF Promise!vars

(* Every step is a step of Redemption or changes nothing in it: a row      *)
(* inserted issues, the UPDATE redeems, a deletion and the cleanup close,  *)
(* a ticket on a one-shot code opens, everything else stutters.            *)
LEMMA RedemptionStep == IInv /\ [Next]_vars => [Promise!Next]_(Promise!vars)
<1> SUFFICES ASSUME IInv, [Next]_vars PROVE [Promise!Next]_(Promise!vars)
  OBVIOUS
<1>0. TypeOK
  BY DEF IInv
<1>1. CASE Inserts
  BY <1>1, InsertIssues DEF Promise!Next
<1>2. CASE Consumes
  BY <1>2, ConsumeRedeems DEF Promise!Next
<1>3. CASE FewerRows /\ UNCHANGED tickets
  BY <1>3, FewerRowsClose DEF Promise!Next
<1>4. CASE UNCHANGED <<oneshot, issues, spent, tickets>>
  BY <1>4, SameRedemption
<1>5. CASE ListenerStep
  <2>1. CASE OpenTicket
    BY <2>1, TicketOpens DEF Promise!Next
  <2>2. CASE ~OpenTicket
    <3>1. UNCHANGED tickets
      BY <1>5, <2>2 DEF ListenerStep, Start, Receive, Lose, Answer250, Die
    <3>2. UNCHANGED <<oneshot, issues, spent>>
      BY <1>5, ListenerFrame DEF db
    <3> QED BY <1>4, <3>1, <3>2
  <2> QED BY <2>1, <2>2
<1>6. CASE HandlerStep
  BY <1>0, <1>1, <1>2, <1>4, <1>6, HandlerRows
<1>7. CASE TableStep
  BY <1>0, <1>1, <1>3, <1>7, TableRows
<1>8. CASE UNCHANGED vars
  BY <1>4, <1>8 DEF vars
<1> QED BY <1>5, <1>6, <1>7, <1>8, Groups

(* For any number of mails, codes, losses and deaths, the codes implement  *)
(* Redemption: an issue is redeemed by one visit at most, a ticket on it   *)
(* is opened once, by that visit.                                          *)
THEOREM Refinement == Spec => ImplementsRedemption
BY RedemptionInit, RedemptionStep, InvariantIInv, PTL
   DEF Spec, ImplementsRedemption, Promise!Spec
=============================================================================
