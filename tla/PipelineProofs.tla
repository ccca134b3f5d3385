--------------------------- MODULE PipelineProofs ---------------------------
(* Proofs about Pipeline, for every value of its constants: first what     *)
(* holds of senders and quarantine, whatever a call of process consists    *)
(* of (IInv), then what the call in hand has done and has still to do      *)
(* (CallInv).                                                              *)
EXTENDS Pipeline, FiniteSetTheorems, SequenceTheorems, WellFoundedInduction, TLAPS

-----------------------------------------------------------------------------
(* The invariant.                                                          *)

(* Only the mail in hand is being processed; a sender that will offer its  *)
(* mail again has a try left.                                              *)
Busy ==
  /\ now.pc # "idle" => /\ {"pc", "mail", "try"} \subseteq DOMAIN now /\ now.mail \in Mails
                        /\ now.try \in 1..MaxTries
  /\ \A m \in Mails :
       /\ sender[m].phase = "processing" => now.pc # "idle" /\ now.mail = m
       /\ sender[m].phase \in {"waiting", "session"} => sender[m].tries < MaxTries

Copy == [mail : Mails, try : 1..MaxTries, id : Nat]

(* The quarantine is the end of all that was ever inserted, and longer     *)
(* than what the cap leaves, unless nothing has been dropped.              *)
Window ==
  /\ quarantine \in Seq(Copy)
  /\ Len(quarantine) <= inserted
  /\ \A i \in 1..Len(quarantine) : quarantine[i].id = inserted - Len(quarantine) + i
  /\ Len(quarantine) = inserted \/ Len(quarantine) > HardCap - Purged

RefusalsSound ==
  \A f \in refusals : f.id \in Nat /\ f.id >= 1 /\ f.id <= inserted

(* Attempts that are over without a 250, of mail that has a copy or not. *)
Ended(m, n) ==
  \/ n < sender[m].tries
  \/ n = sender[m].tries /\ sender[m].phase \notin {"processing", "accepted"}

Over == {t \in Mails \X (1..MaxTries) : Ended(t[1], t[2])}
Reported(t) == \E f \in refusals : f.mail = t[1] /\ f.try = t[2]
Unreported == {t \in Over : ~Reported(t)}

Charged == IsFiniteSet(Unreported) /\ Cardinality(Unreported) <= faults

IInv == PipelineTypeOK /\ Busy /\ Window /\ RefusalsSound /\ Charged

-----------------------------------------------------------------------------
(* The steps, by what they do to the sender and to the quarantine.         *)

(* The call of process goes on with the same mail. *)
SameCall ==
  /\ now.pc = "running" /\ now'.pc \in {"running", "failed"}
  /\ now'.mail = now.mail /\ now'.try = now.try /\ DOMAIN now' = DOMAIN now

Working ==
  SameCall /\ UNCHANGED <<routing, sender, syncs, refusals>>

LEMMA Constants ==
  /\ HardCap \in Nat /\ Purged \in Nat /\ Purged >= 1 /\ Purged <= HardCap
  /\ MaxTries \in Nat /\ MaxTries >= 1 /\ MaxFaults \in Nat /\ MaxSyncs \in Nat
BY PipelineAssumption

LEMMA Todo ==
  ASSUME Busy, now.pc = "running", NEW todo, now' = [now EXCEPT !.todo = todo]
  PROVE  SameCall
BY DEF Busy, SameCall

LEMMA WorkSteps ==
  ASSUME Busy,
         \/ DefaultDelivery \/ EnqueueDomain
         \/ AutoReply \/ Forward \/ Redirect \/ AlsoDeliver
         \/ CreateTicket \/ CodeValid \/ CodeRefused \/ TemplateReply
         \/ AIClassify \/ AIFailsafe \/ AITaxonomy \/ Ignore
         \/ EvaluateAgain \/ InsertEvent \/ Link \/ LinkFails
  PROVE  Working /\ UNCHANGED <<quarantine, inserted, faults>>
<1>0. now.pc = "running"
  BY DEF At, DefaultDelivery, EnqueueDomain, AutoReply, Forward, Redirect, AlsoDeliver,
     CreateTicket, CodeValid, CodeRefused, TemplateReply, AIClassify, AIFailsafe, AITaxonomy,
     Ignore, EvaluateAgain, InsertEvent, Link, LinkFails
<1>1. {"pc", "mail", "try"} \subseteq DOMAIN now
  BY <1>0 DEF Busy
<1>2. UNCHANGED <<routing, sender, syncs, refusals, quarantine, inserted, faults>>
  BY DEF DefaultDelivery, EnqueueDomain, AutoReply, Forward, Redirect, AlsoDeliver, SendAs,
     CreateTicket, CodeValid, CodeRefused, TemplateReply, AIClassify, AIFailsafe, AITaxonomy,
     Ignore, EvaluateAgain, InsertEvent, Link, LinkFails, tables
<1>3. CASE DefaultDelivery
  <2>1. PICK todo, action : now' = [now EXCEPT !.todo = todo, !.action = action]
    BY <1>3 DEF DefaultDelivery
  <2> QED BY <1>0, <1>1, <1>2, <2>1 DEF Working, SameCall
<1>4. CASE EnqueueDomain
  <2>1. \/ \E todo, rows : now' = [now EXCEPT !.todo = todo, !.rows = rows]
        \/ \E todo : now' = [now EXCEPT !.todo = todo]
    BY <1>4 DEF EnqueueDomain, Proceed
  <2> QED BY <1>0, <1>1, <1>2, <2>1 DEF Working, SameCall
<1>5. CASE AutoReply \/ Forward \/ Redirect
  <2>1. \/ \E todo, rows : now' = [now EXCEPT !.todo = todo, !.rows = rows]
        \/ \E todo, done : now' = [now EXCEPT !.todo = todo, !.done = done]
    BY <1>5 DEF AutoReply, Forward, Redirect, SendAs
  <2> QED BY <1>0, <1>1, <1>2, <2>1 DEF Working, SameCall
<1>6. CASE AlsoDeliver \/ CreateTicket \/ CodeValid \/ TemplateReply \/ Ignore \/ InsertEvent \/ Link
  <2>1. \E todo : now' = [now EXCEPT !.todo = todo]
    BY <1>6 DEF AlsoDeliver, CreateTicket, CodeValid, TemplateReply, Ignore, InsertEvent, Link,
       Proceed
  <2> QED BY <1>0, <1>1, <1>2, <2>1 DEF Working, SameCall
<1>7. CASE CodeRefused
  <2>1. \/ \E todo, done : now' = [now EXCEPT !.todo = todo, !.done = done]
        \/ \E todo, done, wrong :
             now' = [now EXCEPT !.todo = todo, !.done = done, !.falsePositive = wrong]
    BY <1>7 DEF CodeRefused
  <2> QED BY <1>0, <1>1, <1>2, <2>1 DEF Working, SameCall
<1>8. CASE AIClassify \/ AIFailsafe \/ AITaxonomy
  <2>1. \E todo, n : now' = [now EXCEPT !.todo = todo, !.aiRules = n]
    BY <1>8 DEF AIClassify, AIFailsafe, AITaxonomy
  <2> QED BY <1>0, <1>1, <1>2, <2>1 DEF Working, SameCall
<1>9. CASE EvaluateAgain
  <2>1. \/ \E todo : now' = [now EXCEPT !.todo = todo]
        \/ \E todo, action, done :
             now' = [now EXCEPT !.todo = todo, !.action = action, !.done = done]
    BY <1>9 DEF EvaluateAgain, Proceed
  <2> QED BY <1>0, <1>1, <1>2, <2>1 DEF Working, SameCall
<1>10. CASE LinkFails
  <2>1. now' = [now EXCEPT !.pc = "failed"]
    BY <1>10 DEF LinkFails
  <2> QED BY <1>0, <1>1, <1>2, <2>1 DEF Working, SameCall
<1> QED BY <1>3, <1>4, <1>5, <1>6, <1>7, <1>8, <1>9, <1>10

LEMMA FaultStep ==
  ASSUME Busy, Fault
  PROVE  Working /\ UNCHANGED <<quarantine, inserted>> /\ faults < MaxFaults /\ faults' = faults + 1
<1>1. /\ now.pc = "running" /\ {"pc", "mail", "try"} \subseteq DOMAIN now
      /\ UNCHANGED <<routing, sender, syncs, refusals, quarantine, inserted>>
      /\ faults < MaxFaults /\ faults' = faults + 1
  BY DEF Fault, tables, Busy
<1>2. \/ \E todo, lost : now' = [now EXCEPT !.todo = todo, !.swallowed = lost]
      \/ now' = [now EXCEPT !.pc = "failed"]
  BY DEF Fault
<1> QED BY <1>1, <1>2 DEF Working, SameCall

-----------------------------------------------------------------------------
(* The quarantine.                                                         *)

LEMMA RoomEffect ==
  ASSUME Window, Len(quarantine) <= HardCap, inserted \in Nat
  PROVE  /\ Room(quarantine) \in Seq(Copy)
         /\ Len(Room(quarantine)) \in Nat /\ Len(Room(quarantine)) < HardCap
         /\ Len(Room(quarantine)) <= inserted
         /\ \A i \in 1..Len(Room(quarantine)) :
              Room(quarantine)[i].id = inserted - Len(Room(quarantine)) + i
         /\ Len(Room(quarantine)) = inserted \/ Len(Room(quarantine)) >= HardCap - Purged
<1>0. /\ quarantine \in Seq(Copy) /\ Len(quarantine) \in Nat /\ Len(quarantine) <= inserted
      /\ \A i \in 1..Len(quarantine) : quarantine[i].id = inserted - Len(quarantine) + i
      /\ Len(quarantine) = inserted \/ Len(quarantine) > HardCap - Purged
  BY DEF Window
<1>1. CASE Len(quarantine) >= HardCap
  <2>1. Len(quarantine) = HardCap
    BY <1>0, <1>1, Constants
  <2>2. PICK q : q = SubSeq(quarantine, Purged + 1, Len(quarantine))
    OBVIOUS
  <2>3. /\ q \in Seq(Copy) /\ Len(q) = HardCap - Purged
        /\ \A i \in 1..Len(q) : q[i] = quarantine[Purged + i]
    BY <1>0, <2>1, <2>2, Constants
  <2>4. \A i \in 1..Len(q) : q[i].id = inserted - Len(q) + i
    <3> SUFFICES ASSUME NEW i \in 1..Len(q) PROVE q[i].id = inserted - Len(q) + i
      OBVIOUS
    <3>1. Purged + i \in 1..Len(quarantine)
      BY <2>1, <2>3, Constants
    <3>2. quarantine[Purged + i].id = inserted - Len(quarantine) + (Purged + i)
      BY <1>0, <3>1
    <3> QED BY <1>0, <2>1, <2>3, <3>2, Constants
  <2>5. Room(quarantine) = q
    BY <1>1, <2>2 DEF Room
  <2>6. /\ Len(q) \in Nat /\ Len(q) < HardCap /\ Len(q) <= inserted
        /\ Len(q) >= HardCap - Purged
    BY <1>0, <2>1, <2>3, Constants
  <2> QED BY <2>3, <2>4, <2>5, <2>6
<1>2. CASE Len(quarantine) < HardCap
  <2>1. Room(quarantine) = quarantine
    BY <1>0, <1>2, Constants DEF Room
  <2> QED BY <1>0, <1>2, <2>1, Constants
<1>3. Len(quarantine) >= HardCap \/ Len(quarantine) < HardCap
  BY <1>0, Constants
<1> QED BY <1>1, <1>2, <1>3

LEMMA QuarantineEffect ==
  ASSUME Window, Len(quarantine) \in 0..HardCap, inserted \in Nat,
         now.mail \in Mails, now.try \in 1..MaxTries, AddQuarantine
  PROVE  Window' /\ Len(quarantine') \in 0..HardCap /\ inserted' = inserted + 1
<1>1. PICK q \in Seq(Copy) : q = Room(quarantine)
  BY RoomEffect
<1>2. /\ Len(q) \in Nat /\ Len(q) < HardCap /\ Len(q) <= inserted
      /\ \A i \in 1..Len(q) : q[i].id = inserted - Len(q) + i
      /\ Len(q) = inserted \/ Len(q) >= HardCap - Purged
  BY <1>1, RoomEffect
<1>3. PICK row : row = [mail |-> now.mail, try |-> now.try, id |-> inserted + 1]
  OBVIOUS
<1>4. row \in Copy /\ row.id = inserted + 1
  BY <1>3 DEF Copy
<1>5. quarantine' = Append(q, row) /\ inserted' = inserted + 1
  BY <1>1, <1>3 DEF AddQuarantine
<1>6. /\ quarantine' \in Seq(Copy) /\ Len(quarantine') = Len(q) + 1
      /\ \A i \in 1..Len(q) : quarantine'[i] = q[i]
      /\ quarantine'[Len(q) + 1] = row
  BY <1>4, <1>5
<1>7. \A i \in 1..Len(quarantine') : quarantine'[i].id = inserted' - Len(quarantine') + i
  <2> SUFFICES ASSUME NEW i \in 1..Len(quarantine')
               PROVE  quarantine'[i].id = inserted' - Len(quarantine') + i
    OBVIOUS
  <2>1. CASE i = Len(q) + 1
    BY <1>2, <1>4, <1>5, <1>6, <2>1
  <2>2. CASE i # Len(q) + 1
    <3>1. i \in 1..Len(q)
      BY <1>2, <1>6, <2>2
    <3>2. quarantine'[i].id = inserted - Len(q) + i
      BY <1>2, <1>6, <3>1
    <3> QED BY <1>2, <1>5, <1>6, <3>1, <3>2
  <2> QED BY <2>1, <2>2
<1> QED BY <1>2, <1>5, <1>6, <1>7, Constants DEF Window

-----------------------------------------------------------------------------
(* The sender and what it is told.                                         *)

(* Nothing is over that was not, and nothing that was is forgotten. *)
LEMMA SameOver ==
  ASSUME Charged, refusals \subseteq refusals', Over' \subseteq Over,
         faults \in Nat, faults' \in Nat, faults' >= faults
  PROVE  Charged'
<1>1. Unreported' \subseteq Unreported
  BY DEF Unreported, Reported
<1>2. IsFiniteSet(Unreported') /\ Cardinality(Unreported') <= Cardinality(Unreported)
  BY <1>1, FS_Subset DEF Charged
<1>3. Cardinality(Unreported) \in Nat /\ Cardinality(Unreported') \in Nat
  BY <1>2, FS_CardinalityType DEF Charged
<1> QED BY <1>2, <1>3 DEF Charged

LEMMA WorkKeeps ==
  ASSUME IInv, Working, faults' \in 0..MaxFaults, faults' >= faults,
         \/ UNCHANGED <<quarantine, inserted>>
         \/ AddQuarantine
  PROVE  IInv'
<1>0. /\ PipelineTypeOK /\ Busy /\ Window /\ RefusalsSound /\ Charged
      /\ now.pc # "idle" /\ now.mail \in Mails /\ now.try \in 1..MaxTries
  BY DEF IInv, Working, SameCall, Busy
<1>1. /\ Window' /\ Len(quarantine') \in 0..HardCap /\ inserted' \in Nat /\ inserted' >= inserted
  <2>1. CASE UNCHANGED <<quarantine, inserted>>
    BY <1>0, <2>1 DEF Window, PipelineTypeOK
  <2>2. CASE AddQuarantine
    BY <1>0, <2>2, QuarantineEffect DEF PipelineTypeOK
  <2> QED BY <2>1, <2>2
<1>2. PipelineTypeOK'
  BY <1>0, <1>1 DEF PipelineTypeOK, Working, SameCall
<1>3. Busy'
  BY <1>0 DEF Busy, Working, SameCall
<1>4. RefusalsSound'
  BY <1>0, <1>1 DEF RefusalsSound, Working, PipelineTypeOK
<1>5. Charged'
  <2>1. Over' = Over /\ refusals' = refusals
    BY DEF Over, Ended, Working
  <2> QED BY <1>0, <2>1, SameOver, Constants DEF PipelineTypeOK
<1> QED BY <1>1, <1>2, <1>3, <1>4, <1>5 DEF IInv

LEMMA SyncKeeps == ASSUME IInv, Sync PROVE IInv'
<1>0. /\ PipelineTypeOK /\ Busy /\ Window /\ RefusalsSound /\ Charged
      /\ UNCHANGED <<sender, now, refusals, faults, quarantine, inserted>>
  BY DEF IInv, Sync, tables
<1>1. PipelineTypeOK'
  <2>1. routing' \in SUBSET Domains
    BY PipelineAssumption DEF Sync
  <2>2. syncs' \in 0..MaxSyncs
    BY <1>0, Constants DEF Sync, PipelineTypeOK
  <2> QED BY <1>0, <2>1, <2>2 DEF PipelineTypeOK
<1>2. Busy' /\ Window' /\ RefusalsSound'
  BY <1>0 DEF Busy, Window, RefusalsSound
<1>3. Charged'
  BY <1>0 DEF Charged, Unreported, Reported, Over, Ended
<1> QED BY <1>1, <1>2, <1>3 DEF IInv

SenderRow == [wants : Requests, rcpts : SUBSET Rcpts, phase : Phases, tries : 0..MaxTries]

LEMMA RcptKeeps == ASSUME IInv, NEW m \in Mails, Rcpt(m) PROVE IInv'
<1>0. /\ PipelineTypeOK /\ Busy /\ Window /\ RefusalsSound /\ Charged
      /\ UNCHANGED <<routing, now, refusals, syncs, faults, quarantine, inserted>>
      /\ now.pc = "idle" /\ sender[m].phase = "waiting"
  BY DEF IInv, Rcpt, tables
<1>1. PICK old \in SenderRow : sender[m] = old
  BY <1>0 DEF PipelineTypeOK, SenderRow
<1>2. PICK phase \in {"refused", "session"} :
        phase = IF AcceptedRcpts(m) = {} THEN "refused" ELSE "session"
  OBVIOUS
<1>3. PICK accepted \in SUBSET Rcpts : accepted = AcceptedRcpts(m)
  BY <1>1, PipelineAssumption DEF AcceptedRcpts, SenderRow
<1>4. /\ sender' = [sender EXCEPT ![m].phase = phase, ![m].rcpts = accepted]
  BY <1>2, <1>3 DEF Rcpt
<1>5. PICK new : new = [old EXCEPT !.phase = phase, !.rcpts = accepted]
  OBVIOUS
<1>6. new \in SenderRow /\ new.phase = phase /\ new.tries = old.tries
  BY <1>5 DEF SenderRow, Phases
<1>7. /\ sender'[m] = new /\ \A n \in Mails : n # m => sender'[n] = sender[n]
      /\ sender' \in [Mails -> SenderRow]
  <2>1. sender' = [sender EXCEPT ![m] = new]
    BY <1>0, <1>1, <1>4, <1>5 DEF PipelineTypeOK
  <2> QED BY <1>0, <1>6, <2>1 DEF PipelineTypeOK, SenderRow
<1>8. PipelineTypeOK'
  BY <1>0, <1>7 DEF PipelineTypeOK, SenderRow
<1>9. Busy'
  BY <1>0, <1>1, <1>6, <1>7 DEF Busy
<1>10. Charged'
  <2>1. Over' \subseteq Over
    BY <1>0, <1>1, <1>6, <1>7 DEF Over, Ended
  <2> QED BY <1>0, <2>1, SameOver, Constants DEF PipelineTypeOK
<1>11. Window' /\ RefusalsSound'
  BY <1>0 DEF Window, RefusalsSound
<1> QED BY <1>8, <1>9, <1>10, <1>11 DEF IInv

LEMMA DataKeeps == ASSUME IInv, NEW m \in Mails, Data(m) PROVE IInv'
<1>0. /\ PipelineTypeOK /\ Busy /\ Window /\ RefusalsSound /\ Charged
      /\ UNCHANGED <<routing, refusals, syncs, faults, quarantine, inserted>>
      /\ now.pc = "idle" /\ sender[m].phase = "session"
      /\ sender' = [sender EXCEPT ![m].phase = "processing", ![m].tries = @ + 1]
  BY DEF IInv, Data, tables
<1>1. PICK old \in SenderRow : sender[m] = old /\ old.tries < MaxTries /\ old.phase = "session"
  BY <1>0 DEF PipelineTypeOK, SenderRow, Busy
<1>2. old.tries \in Nat /\ old.tries + 1 \in 1..MaxTries
  BY <1>1, Constants DEF SenderRow
<1>3. PICK new : new = [old EXCEPT !.phase = "processing", !.tries = old.tries + 1]
  OBVIOUS
<1>4. new \in SenderRow /\ new.phase = "processing" /\ new.tries = old.tries + 1
  <2>1. PICK n \in 0..MaxTries : n = old.tries + 1
    BY <1>2
  <2>2. new = [old EXCEPT !.phase = "processing", !.tries = n]
    BY <1>3, <2>1
  <2> QED BY <2>1, <2>2 DEF SenderRow, Phases
<1>5. /\ sender'[m] = new /\ \A n \in Mails : n # m => sender'[n] = sender[n]
      /\ sender' \in [Mails -> SenderRow]
  <2>1. sender' = [sender EXCEPT ![m] = new]
    BY <1>0, <1>1, <1>3 DEF PipelineTypeOK
  <2> QED BY <1>0, <1>4, <2>1 DEF PipelineTypeOK, SenderRow
<1>6. /\ now'.pc = "running" /\ now'.mail = m /\ now'.try = old.tries + 1
      /\ {"pc", "mail", "try"} \subseteq DOMAIN now'
  BY <1>1 DEF Data
<1>7. PipelineTypeOK'
  BY <1>0, <1>4, <1>5, <1>6 DEF PipelineTypeOK, SenderRow
<1>8. Busy'
  BY <1>0, <1>4, <1>2, <1>5, <1>6 DEF Busy
<1>9. Charged'
  <2>1. Over' \subseteq Over
    BY <1>0, <1>1, <1>4, <1>2, <1>5 DEF Over, Ended
  <2> QED BY <1>0, <2>1, SameOver, Constants DEF PipelineTypeOK
<1>10. Window' /\ RefusalsSound'
  BY <1>0 DEF Window, RefusalsSound
<1> QED BY <1>7, <1>8, <1>9, <1>10 DEF IInv

(* The attempt in hand ends: the mail waits, is given up, or is accepted.  *)
Ends(phase) ==
  /\ now' = Idle
  /\ sender' = [sender EXCEPT ![now.mail].phase = phase]
  /\ phase \in {"waiting", "bounced", "accepted"}
  /\ phase = "waiting" => sender[now.mail].tries < MaxTries

LEMMA Ending ==
  ASSUME PipelineTypeOK, Busy, now.pc # "idle", NEW phase, Ends(phase)
  PROVE  /\ sender' \in [Mails -> SenderRow] /\ now'.pc = "idle" /\ Busy'
         /\ <<now.mail, now.try>> \in Mails \X (1..MaxTries)
         /\ phase = "accepted" => Over' \subseteq Over
         /\ Over' \subseteq Over \cup {<<now.mail, now.try>>}
<1>1. PICK m \in Mails : m = now.mail
  BY DEF Busy
<1>2. PICK old \in SenderRow : sender[m] = old /\ old.phase = "processing" /\ old.tries = now.try
  BY <1>1 DEF PipelineTypeOK, SenderRow
<1>3. PICK new : new = [old EXCEPT !.phase = phase]
  OBVIOUS
<1>4. new \in SenderRow /\ new.phase = phase /\ new.tries = old.tries
  BY <1>3 DEF SenderRow, Phases, Ends
<1>5. /\ sender'[m] = new /\ \A n \in Mails : n # m => sender'[n] = sender[n]
      /\ sender' \in [Mails -> SenderRow]
  <2>1. sender' = [sender EXCEPT ![m] = new]
    BY <1>1, <1>2, <1>3 DEF Ends
  <2> QED BY <1>4, <2>1 DEF PipelineTypeOK, SenderRow
<1>6. now'.pc = "idle"
  BY DEF Ends, Idle
<1>7. Busy'
  BY <1>1, <1>2, <1>4, <1>5, <1>6 DEF Busy, Ends
<1>8. <<m, now.try>> \in Mails \X (1..MaxTries)
  BY DEF Busy
<1>9. Over' \subseteq Over \cup {<<m, now.try>>}
  <2> SUFFICES ASSUME NEW n \in Mails, NEW i \in 1..MaxTries, Ended(n, i)', ~Ended(n, i)
               PROVE  n = m /\ i = now.try
    BY DEF Over
  <2> QED BY <1>2, <1>4, <1>5 DEF Ended
<1>10. phase = "accepted" => Over' \subseteq Over
  BY <1>2, <1>4, <1>5 DEF Over, Ended
<1> QED BY <1>1, <1>5, <1>6, <1>7, <1>8, <1>9, <1>10

LEMMA AcceptKeeps == ASSUME IInv, Accept PROVE IInv'
<1>0. /\ PipelineTypeOK /\ Busy /\ Window /\ RefusalsSound /\ Charged /\ now.pc # "idle"
      /\ UNCHANGED <<routing, refusals, syncs, faults, quarantine, inserted>>
      /\ Ends("accepted")
  BY DEF IInv, Accept, tables, Ends
<1>1. /\ sender' \in [Mails -> SenderRow] /\ now'.pc = "idle" /\ Busy' /\ Over' \subseteq Over
  BY <1>0, Ending
<1>2. PipelineTypeOK'
  BY <1>0, <1>1 DEF PipelineTypeOK, SenderRow
<1>3. Charged'
  BY <1>0, <1>1, SameOver, Constants DEF PipelineTypeOK
<1>4. Window' /\ RefusalsSound'
  BY <1>0 DEF Window, RefusalsSound
<1> QED BY <1>1, <1>2, <1>3, <1>4 DEF IInv

LEMMA LaterEnds ==
  ASSUME PipelineTypeOK, Busy, now.pc # "idle", now' = Idle, TryLater(now.mail)
  PROVE  \E phase : Ends(phase)
<1>1. PICK phase : phase = IF sender[now.mail].tries < MaxTries THEN "waiting" ELSE "bounced"
  OBVIOUS
<1>2. Ends(phase)
  BY <1>1 DEF TryLater, Ends
<1> QED BY <1>2

(* 451 after a copy went into the quarantine: the attempt is reported. *)
LEMMA DeadLetterKeeps == ASSUME IInv, DeadLetter PROVE IInv'
<1>0. /\ PipelineTypeOK /\ Busy /\ Window /\ RefusalsSound /\ Charged
      /\ UNCHANGED <<routing, syncs, faults>>
      /\ now.pc # "idle" /\ now' = Idle /\ TryLater(now.mail) /\ AddQuarantine
  BY DEF IInv, DeadLetter
<1>1. PICK phase : Ends(phase)
  BY <1>0, LaterEnds
<1>2. /\ sender' \in [Mails -> SenderRow] /\ now'.pc = "idle" /\ Busy'
      /\ Over' \subseteq Over \cup {<<now.mail, now.try>>}
  BY <1>0, <1>1, Ending
<1>3. Window' /\ Len(quarantine') \in 0..HardCap /\ inserted' = inserted + 1 /\ inserted \in Nat
  BY <1>0, QuarantineEffect DEF PipelineTypeOK, Busy
<1>4. PICK f : /\ f = [mail |-> now.mail, try |-> now.try, id |-> inserted + 1]
               /\ refusals' = refusals \cup {f}
  BY DEF DeadLetter
<1>5. PipelineTypeOK'
  BY <1>0, <1>2, <1>3 DEF PipelineTypeOK, SenderRow
<1>6. RefusalsSound'
  BY <1>0, <1>3, <1>4 DEF RefusalsSound
<1>7. Charged'
  <2>0. PICK t : t = <<now.mail, now.try>>
    OBVIOUS
  <2>1. Reported(t)'
    <3>1. f \in refusals' /\ f.mail = t[1] /\ f.try = t[2]
      BY <1>4, <2>0
    <3> QED BY <3>1 DEF Reported
  <2>2. Unreported' \subseteq Unreported
    <3>1. Over' \subseteq Over \cup {t}
      BY <1>2, <2>0
    <3>2. \A u : Reported(u) => Reported(u)'
      BY <1>4 DEF Reported
    <3> QED BY <2>1, <3>1, <3>2 DEF Unreported
  <2>3. IsFiniteSet(Unreported') /\ Cardinality(Unreported') <= Cardinality(Unreported)
    BY <1>0, <2>2, FS_Subset DEF Charged
  <2>4. Cardinality(Unreported) \in Nat /\ Cardinality(Unreported') \in Nat /\ faults \in Nat
    BY <1>0, <2>3, FS_CardinalityType, Constants DEF Charged, PipelineTypeOK
  <2> QED BY <1>0, <2>3, <2>4 DEF Charged
<1> QED BY <1>2, <1>3, <1>5, <1>6, <1>7 DEF IInv

(* A death, or a quarantine that fails too: one more attempt goes by       *)
(* without a copy, and one more fault.                                     *)
LEMMA LossKeeps == ASSUME IInv, DeadLetterFails \/ Die PROVE IInv'
<1>0. /\ PipelineTypeOK /\ Busy /\ Window /\ RefusalsSound /\ Charged
      /\ UNCHANGED <<routing, syncs, refusals, quarantine, inserted>>
      /\ faults < MaxFaults /\ faults' = faults + 1
      /\ now.pc # "idle" /\ now' = Idle /\ TryLater(now.mail)
  BY DEF IInv, DeadLetterFails, Die, tables
<1>1. PICK phase : Ends(phase)
  BY <1>0, LaterEnds
<1>2. /\ sender' \in [Mails -> SenderRow] /\ now'.pc = "idle" /\ Busy'
      /\ Over' \subseteq Over \cup {<<now.mail, now.try>>}
  BY <1>0, <1>1, Ending
<1>3. faults \in Nat /\ faults' \in 0..MaxFaults
  BY <1>0, Constants DEF PipelineTypeOK
<1>4. PipelineTypeOK'
  BY <1>0, <1>2, <1>3 DEF PipelineTypeOK, SenderRow
<1>5. Charged'
  <2> DEFINE more == Unreported \cup {<<now.mail, now.try>>}
  <2>1. Unreported' \subseteq more
    BY <1>0, <1>2 DEF Unreported, Reported
  <2>2. IsFiniteSet(more) /\ Cardinality(more) <= Cardinality(Unreported) + 1
    <3>1. IsFiniteSet(Unreported) /\ Cardinality(Unreported) \in Nat
      BY <1>0, FS_CardinalityType DEF Charged
    <3> QED BY <3>1, FS_AddElement
  <2>3. IsFiniteSet(Unreported') /\ Cardinality(Unreported') <= Cardinality(more)
    BY <2>1, <2>2, FS_Subset
  <2>4. /\ Cardinality(Unreported) \in Nat /\ Cardinality(more) \in Nat
        /\ Cardinality(Unreported') \in Nat
    BY <1>0, <2>2, <2>3, FS_CardinalityType DEF Charged
  <2>5. Cardinality(Unreported) <= faults
    BY <1>0 DEF Charged
  <2> HIDE DEF more
  <2> QED BY <1>0, <1>3, <2>2, <2>3, <2>4, <2>5 DEF Charged
<1>6. Window' /\ RefusalsSound'
  BY <1>0 DEF Window, RefusalsSound
<1> QED BY <1>2, <1>4, <1>5, <1>6 DEF IInv

-----------------------------------------------------------------------------
(* The theorems.                                                           *)

LEMMA InitInv == Init => IInv
<1> SUFFICES ASSUME Init PROVE IInv
  OBVIOUS
<1>1. \A m \in Mails : sender[m].phase = "waiting" /\ sender[m].tries = 0
  BY DEF Init
<1>2. PipelineTypeOK
  BY PipelineAssumption DEF Init, PipelineTypeOK, Idle, Phases
<1>3. Busy
  BY <1>1, Constants DEF Init, Busy, Idle
<1>4. Window
  BY DEF Init, Window
<1>5. RefusalsSound
  BY DEF Init, RefusalsSound
<1>6. Charged
  <2>1. Unreported = {}
    BY <1>1, Constants DEF Unreported, Over, Ended
  <2> QED BY <2>1, FS_EmptySet DEF Init, Charged
<1> QED BY <1>2, <1>3, <1>4, <1>5, <1>6 DEF IInv

LEMMA StepInv == IInv /\ [Next]_vars => IInv'
<1> SUFFICES ASSUME IInv, [Next]_vars PROVE IInv'
  OBVIOUS
<1>0. /\ PipelineTypeOK /\ Busy /\ faults \in 0..MaxFaults
  BY DEF IInv, PipelineTypeOK
<1>1. CASE Sync
  BY <1>1, SyncKeeps
<1>2. CASE \E m \in Mails : Rcpt(m) \/ Data(m)
  BY <1>2, RcptKeeps, DataKeeps
<1>3. CASE Step
  <2>1. CASE Quarantine
    <3>1. now.pc = "running" /\ Proceed /\ AddQuarantine
          /\ UNCHANGED <<routing, sender, syncs, refusals, faults>>
      BY <2>1 DEF Quarantine, At
    <3>2. Working
      BY <1>0, <3>1, Todo DEF Proceed, Working
    <3> QED BY <1>0, <3>1, <3>2, WorkKeeps, Constants
  <2>2. CASE DeadLetter \/ Accept
    BY <2>2, DeadLetterKeeps, AcceptKeeps
  <2>3. CASE ~(Quarantine \/ DeadLetter \/ Accept)
    <3>1. Working /\ UNCHANGED <<quarantine, inserted, faults>>
      BY <1>0, <1>3, <2>3, WorkSteps DEF Step
    <3> QED BY <1>0, <3>1, WorkKeeps, Constants
  <2> QED BY <2>1, <2>2, <2>3
<1>4. CASE Fault
  <2>1. /\ Working /\ UNCHANGED <<quarantine, inserted>>
        /\ faults < MaxFaults /\ faults' = faults + 1
    BY <1>0, <1>4, FaultStep
  <2> QED BY <1>0, <2>1, WorkKeeps, Constants
<1>5. CASE DeadLetterFails \/ Die
  BY <1>5, LossKeeps
<1>6. CASE UNCHANGED vars
  BY <1>6 DEF vars, IInv, PipelineTypeOK, Busy, Window, RefusalsSound, Charged, Unreported,
     Reported, Over, Ended
<1> QED BY <1>1, <1>2, <1>3, <1>4, <1>5, <1>6 DEF Next

(* Senders, tables and quarantine fit together (IInv).                     *)
THEOREM InvariantIInv == Spec => []IInv
BY InitInv, StepInv, PTL DEF Spec

(* The tables and the senders have their types; the quarantine never       *)
(* exceeds its cap.                                                        *)
THEOREM TypeCorrect == Spec => []PipelineTypeOK
BY InvariantIInv, PTL DEF IInv

(* For any senders, rules, syncs, failures and deaths: a mail that was     *)
(* answered 451 has a copy in the quarantine until the cap makes it the    *)
(* oldest, and an attempt without one costs a death or a second failure.   *)
THEOREM Refused == Spec => []RefusedIsHeld
<1>1. IInv => RefusedIsHeld
  <2> SUFFICES ASSUME IInv PROVE RefusedIsHeld
    OBVIOUS
  <2>0. /\ PipelineTypeOK /\ Window /\ RefusalsSound /\ Charged
    BY DEF IInv
  <2>1. \A f \in refusals : Held(f.id) \/ inserted - f.id > HardCap - Purged
    <3> SUFFICES ASSUME NEW f \in refusals, ~(inserted - f.id > HardCap - Purged)
                 PROVE  Held(f.id)
      OBVIOUS
    <3>1. /\ f.id \in Nat /\ f.id >= 1 /\ f.id <= inserted /\ inserted \in Nat
          /\ Len(quarantine) \in Nat /\ quarantine \in Seq(Copy)
      BY <2>0 DEF RefusalsSound, PipelineTypeOK, Window
    <3>2. PICK i : i = f.id - (inserted - Len(quarantine))
      OBVIOUS
    <3>3. i \in 1..Len(quarantine)
      BY <2>0, <3>1, <3>2, Constants DEF Window
    <3>4. quarantine[i].id = inserted - Len(quarantine) + i
      BY <2>0, <3>3 DEF Window
    <3> QED BY <3>1, <3>2, <3>3, <3>4 DEF Held
  <2>2. Cardinality({t \in FailedTries :
            ~ \E f \in refusals : f.mail = t[1] /\ f.try = t[2]}) <= faults
    <3> DEFINE some == {t \in FailedTries :
                          ~ \E f \in refusals : f.mail = t[1] /\ f.try = t[2]}
    <3>1. some \subseteq Unreported
      BY DEF FailedTries, Unreported, Reported, Over, Ended
    <3>2. IsFiniteSet(some) /\ Cardinality(some) <= Cardinality(Unreported)
      BY <2>0, <3>1, FS_Subset DEF Charged
    <3>3. Cardinality(some) \in Nat /\ Cardinality(Unreported) \in Nat /\ faults \in Nat
      BY <2>0, <3>2, FS_CardinalityType, Constants DEF Charged, PipelineTypeOK
    <3> QED BY <2>0, <3>2, <3>3 DEF Charged
  <2> QED BY <2>1, <2>2 DEF RefusedIsHeld
<1> QED BY <1>1, InvariantIInv, PTL

-----------------------------------------------------------------------------
(* The tasks of a call.                                                    *)

Actions == ActiveActions \cup PassiveActions
Ops == Actions \cup {"enqueue", "evaluate_again", "insert_event", "link", "also_deliver", "reply"}
Parts == {"main", "original", "copy", "reply"}
Tasks == [op : Ops, rule : Nat \ {0}, part : Parts, domain : Domains \cup {""}]

(* What only the winning rule does, and what follows every rule. *)
WinningOps == {"quarantine"} \cup SendingActions \cup TicketActions
Closing == {"insert_event", "link"}

Fits(s, action) ==
  /\ \A i \in 1..Len(s) : s[i].op \in WinningOps =>
        i = 1 /\ s[i].op = action /\ s[i].rule = 1 /\ s[i].part = "main"
  /\ \A i \in 1..Len(s) : s[i].op \in {"default_delivery", "enqueue"} /\ s[i].part = "main" =>
        s[i].rule = 1 /\ action \in {"default_delivery", "received_only"}
  /\ \A i \in 1..Len(s) : s[i].op = "evaluate_again" => \A j \in (i + 1)..Len(s) : s[j].op \in Closing

(* A task that may queue an original for the recipients of a domain; one   *)
(* that an AI action brings along is run, or given up, with it.            *)
Brings(t, d) == t.op = "default_delivery" \/ (t.op = "enqueue" /\ t.domain = d)
Led(s, i) ==
  /\ i > 1 /\ s[i - 1].op \in AIActions /\ s[i - 1].part = "main"
  /\ s[i - 1].rule = s[i].rule
Own(s, i, d) == Brings(s[i], d) /\ ~Led(s, i)
Once(s, d) == \A i, j \in 1..Len(s) : Own(s, i, d) /\ Own(s, j, d) => i = j
None(s, d) == \A i \in 1..Len(s) : ~Own(s, i, d)
Comes(s, parts, d) == \E i \in 1..Len(s) : s[i].part \in parts /\ Brings(s[i], d)

(* How a call begins. *)
Begun(s, action) ==
  /\ s \in Seq(Tasks) /\ Fits(s, action)
  /\ action \in WinningOps => s # <<>> /\ s[1].op = action
  /\ \A d \in Domains : /\ Once(s, d)
                        /\ action = "default_delivery" => Comes(s, {"main"}, d)
                        /\ action \in AIActions => Comes(s, Parts, d)

LEMMA TaskTypes ==
  ASSUME NEW op \in Ops, NEW n \in Nat \ {0}, NEW part \in Parts
  PROVE  /\ Task(op, n, part) \in Tasks
         /\ Task(op, n, part).op = op /\ Task(op, n, part).rule = n /\ Task(op, n, part).part = part
BY DEF Task, Tasks

LEMMA Kinds ==
  /\ AIActions \subseteq PassiveActions /\ PassiveActions \subseteq Actions /\ Actions \subseteq Ops
  /\ WinningOps \subseteq ActiveActions /\ ActiveActions \subseteq Actions
  /\ ActiveActions = WinningOps \cup {"default_delivery"}
  /\ WinningOps \cap PassiveActions = {}
  /\ "default_delivery" \notin PassiveActions \cup WinningOps
  /\ {"enqueue", "evaluate_again", "insert_event", "link", "also_deliver", "reply"} \cap Actions = {}
  /\ "also_deliver" \in Ops /\ "default_delivery" \in Actions /\ "quarantine" \in Actions
  /\ "evaluate_again" \in Ops /\ "insert_event" \in Ops /\ "link" \in Ops /\ "reply" \in Ops
  /\ "enqueue" \in Ops
BY DEF AIActions, PassiveActions, Actions, Ops, WinningOps, ActiveActions, SendingActions, TicketActions

LEMMA RuleTypes ==
  ASSUME NEW rule \in Rules
  PROVE  /\ rule.action \in Actions
         /\ KeepsOriginal(rule) => rule.action \in AIActions \cup WinningOps
         /\ rule.action \in AIActions => KeepsOriginal(rule)
BY DEF Rules, KeepsOriginal, Actions, WinningOps

LEMMA Pairs ==
  ASSUME NEW a \in Tasks, NEW b \in Tasks, NEW c \in Tasks
  PROVE  /\ <<a>> \o <<b>> = <<a, b>> /\ <<a, b>> \o <<c>> = <<a, b, c>>
         /\ <<a>> \o <<>> = <<a>> /\ <<a, b>> \o <<>> = <<a, b>>
<1>1. <<a>> \in Seq(Tasks) /\ <<b>> \in Seq(Tasks) /\ <<c>> \in Seq(Tasks)
      /\ <<a, b>> \in Seq(Tasks) /\ <<a, b, c>> \in Seq(Tasks)
  OBVIOUS
<1>2. <<a>> \o <<b>> = <<a, b>>
  <2>1. /\ <<a>> \o <<b>> \in Seq(Tasks) /\ Len(<<a>> \o <<b>>) = 2
        /\ (<<a>> \o <<b>>)[1] = a /\ (<<a>> \o <<b>>)[2] = b
    BY <1>1, ConcatProperties
  <2>2. \A i \in 1..2 : (<<a>> \o <<b>>)[i] = <<a, b>>[i]
    BY <2>1
  <2> QED BY <1>1, <2>1, <2>2, SeqEqual
<1>3. <<a, b>> \o <<c>> = <<a, b, c>>
  <2>1. /\ <<a, b>> \o <<c>> \in Seq(Tasks) /\ Len(<<a, b>> \o <<c>>) = 3
        /\ (<<a, b>> \o <<c>>)[1] = a /\ (<<a, b>> \o <<c>>)[2] = b
        /\ (<<a, b>> \o <<c>>)[3] = c
    BY <1>1, ConcatProperties
  <2>2. \A i \in 1..3 : (<<a, b>> \o <<c>>)[i] = <<a, b, c>>[i]
    BY <2>1
  <2> QED BY <1>1, <2>1, <2>2, SeqEqual
<1> QED BY <1>1, <1>2, <1>3, ConcatEmptySeq

(* What _dispatch_action runs for a rule. *)
Dispatched(s, rule, n) ==
  /\ s \in Seq(Tasks)
  /\ Len(s) \in 1..3 /\ s[1] = Task(rule.action, n, "main")
  /\ KeepsOriginal(rule) => Len(s) >= 2 /\ s[2] = Task("default_delivery", n, "original")
  /\ ~KeepsOriginal(rule) => Len(s) <= 2 /\ (Len(s) = 2 => s[2] = Task("also_deliver", n, "copy"))
  /\ Len(s) = 3 => s[3] = Task("also_deliver", n, "copy")

LEMMA DispatchIs ==
  ASSUME NEW rule \in Rules, NEW n \in Nat \ {0}
  PROVE  Dispatched(DispatchAction(rule, n), rule, n)
<1>1. PICK a \in Tasks : a = Task(rule.action, n, "main")
  BY TaskTypes, RuleTypes, Kinds DEF Parts
<1>2. PICK o \in Tasks : o = Task("default_delivery", n, "original")
  BY TaskTypes, Kinds DEF Parts
<1>3. PICK c \in Tasks : c = Task("also_deliver", n, "copy")
  BY TaskTypes, Kinds DEF Parts
<1>4. DispatchAction(rule, n) = (<<a>> \o (IF KeepsOriginal(rule) THEN <<o>> ELSE <<>>))
                                  \o (IF rule.copy THEN <<c>> ELSE <<>>)
  BY <1>1, <1>2, <1>3 DEF DispatchAction
<1>5. CASE KeepsOriginal(rule)
  <2>1. <<a>> \o <<o>> = <<a, o>> /\ <<a, o>> \o <<c>> = <<a, o, c>> /\ <<a, o>> \o <<>> = <<a, o>>
    BY Pairs
  <2>2. /\ <<a, o, c>> \in Seq(Tasks) /\ Len(<<a, o, c>>) = 3
        /\ <<a, o, c>>[1] = a /\ <<a, o, c>>[2] = o /\ <<a, o, c>>[3] = c
        /\ <<a, o>> \in Seq(Tasks) /\ Len(<<a, o>>) = 2
        /\ <<a, o>>[1] = a /\ <<a, o>>[2] = o
    OBVIOUS
  <2>3. CASE rule.copy
    <3>1. DispatchAction(rule, n) = <<a, o, c>>
      BY <1>4, <1>5, <2>1, <2>3
    <3> QED BY <1>1, <1>2, <1>3, <1>5, <2>2, <3>1 DEF Dispatched
  <2>4. CASE ~rule.copy
    <3>1. DispatchAction(rule, n) = <<a, o>>
      BY <1>4, <1>5, <2>1, <2>4
    <3> QED BY <1>1, <1>2, <1>3, <1>5, <2>2, <3>1 DEF Dispatched
  <2> QED BY <2>3, <2>4
<1>6. CASE ~KeepsOriginal(rule)
  <2>1. <<a>> \o <<>> = <<a>> /\ <<a>> \o <<c>> = <<a, c>>
    BY Pairs
  <2>2. /\ <<a, c>> \in Seq(Tasks) /\ Len(<<a, c>>) = 2 /\ <<a, c>>[1] = a /\ <<a, c>>[2] = c
        /\ <<a>> \in Seq(Tasks) /\ Len(<<a>>) = 1 /\ <<a>>[1] = a
    OBVIOUS
  <2>3. CASE rule.copy
    <3>1. DispatchAction(rule, n) = <<a, c>>
      BY <1>4, <1>6, <2>1, <2>3
    <3> QED BY <1>1, <1>2, <1>3, <1>6, <2>2, <3>1 DEF Dispatched
  <2>4. CASE ~rule.copy
    <3>1. DispatchAction(rule, n) = <<a>>
      BY <1>4, <1>6, <2>1, <2>4
    <3> QED BY <1>1, <1>2, <1>3, <1>6, <2>2, <3>1 DEF Dispatched
  <2> QED BY <2>3, <2>4
<1> QED BY <1>5, <1>6

(* What runs beside the winning rule, and after it. *)
Aside(s) ==
  /\ s \in Seq(Tasks)
  /\ \A i \in 1..Len(s) :
       /\ s[i].op \in PassiveActions \cup {"default_delivery", "also_deliver"}
       /\ s[i].op = "default_delivery" => s[i].part # "main" /\ Led(s, i)

Later(s) ==
  /\ s \in Seq(Tasks)
  /\ \A i \in 1..Len(s) :
       /\ s[i].op \notin WinningOps \cup {"enqueue"}
       /\ s[i].op = "default_delivery" => s[i].part # "main" /\ Led(s, i)
       /\ s[i].op = "evaluate_again" => \A j \in (i + 1)..Len(s) : s[j].op \in Closing

LEMMA Joined ==
  ASSUME NEW s \in Seq(Tasks), NEW t \in Seq(Tasks)
  PROVE  /\ s \o t \in Seq(Tasks) /\ Len(s \o t) = Len(s) + Len(t)
         /\ \A i \in 1..Len(s) : (s \o t)[i] = s[i] /\ (Led(s, i) => Led(s \o t, i))
         /\ \A i \in 1..Len(t) : (s \o t)[Len(s) + i] = t[i] /\ (Led(t, i) => Led(s \o t, Len(s) + i))
         /\ \A i \in 1..Len(s \o t) : i \in 1..Len(s) \/ \E j \in 1..Len(t) : i = Len(s) + j
<1>a. /\ s \o t \in Seq(Tasks) /\ Len(s \o t) = Len(s) + Len(t) /\ Len(s) \in Nat /\ Len(t) \in Nat
      /\ \A i \in 1..Len(s) + Len(t) : (s \o t)[i] = IF i <= Len(s) THEN s[i] ELSE t[i - Len(s)]
  BY ConcatProperties, LenProperties
<1>1. PICK u \in Seq(Tasks) : u = s \o t
  BY <1>a
<1>2. /\ Len(u) = Len(s) + Len(t) /\ Len(s) \in Nat /\ Len(t) \in Nat
      /\ \A i \in 1..Len(s) : u[i] = s[i]
  BY <1>1, <1>a
<1>3. ASSUME NEW i \in 1..Len(t) PROVE u[Len(s) + i] = t[i]
  BY <1>1, <1>a
<1>4. ASSUME NEW i \in 1..Len(s), Led(s, i) PROVE Led(u, i)
  <2>1. i - 1 \in 1..Len(s)
    BY <1>4 DEF Led
  <2> QED BY <1>2, <1>4, <2>1 DEF Led
<1>5. ASSUME NEW i \in 1..Len(t), Led(t, i) PROVE Led(u, Len(s) + i)
  <2>1. i - 1 \in 1..Len(t) /\ Len(s) + i - 1 = Len(s) + (i - 1) /\ Len(s) + i > 1
    BY <1>2, <1>5 DEF Led
  <2>2. u[Len(s) + i] = t[i] /\ u[Len(s) + i - 1] = t[i - 1]
    BY <1>3, <2>1
  <2> QED BY <1>5, <2>1, <2>2 DEF Led
<1>6. ASSUME NEW i \in 1..Len(u), i \notin 1..Len(s) PROVE \E j \in 1..Len(t) : i = Len(s) + j
  <2>1. i - Len(s) \in 1..Len(t) /\ i = Len(s) + (i - Len(s))
    BY <1>2, <1>6
  <2> QED BY <2>1
<1> QED BY <1>1, <1>2, <1>3, <1>4, <1>5, <1>6

LEMMA AsideJoin ==
  ASSUME NEW s, NEW t, Aside(s), Aside(t) PROVE Aside(s \o t)
<1>1. s \in Seq(Tasks) /\ t \in Seq(Tasks)
  BY DEF Aside
<1>a. s \o t \in Seq(Tasks)
  BY <1>1, ConcatProperties
<1>2. PICK u \in Seq(Tasks) : u = s \o t
  BY <1>a
<1>3. /\ \A i \in 1..Len(s) : u[i] = s[i] /\ (Led(s, i) => Led(u, i))
      /\ \A i \in 1..Len(t) : u[Len(s) + i] = t[i] /\ (Led(t, i) => Led(u, Len(s) + i))
      /\ \A i \in 1..Len(u) : i \in 1..Len(s) \/ \E j \in 1..Len(t) : i = Len(s) + j
  BY <1>1, <1>2, Joined
<1>4. ASSUME NEW i \in 1..Len(u)
      PROVE  /\ u[i].op \in PassiveActions \cup {"default_delivery", "also_deliver"}
             /\ u[i].op = "default_delivery" => u[i].part # "main" /\ Led(u, i)
  <2>1. CASE i \in 1..Len(s)
    BY <1>3, <2>1 DEF Aside
  <2>2. ASSUME NEW j \in 1..Len(t), i = Len(s) + j
        PROVE  /\ u[i].op \in PassiveActions \cup {"default_delivery", "also_deliver"}
               /\ u[i].op = "default_delivery" => u[i].part # "main" /\ Led(u, i)
    BY <1>3, <2>2 DEF Aside
  <2> QED BY <1>3, <2>1, <2>2
<1> QED BY <1>2, <1>4 DEF Aside

LEMMA LaterJoin ==
  ASSUME NEW s, NEW t, Aside(s), Later(t) PROVE Later(s \o t)
<1>1. s \in Seq(Tasks) /\ t \in Seq(Tasks) /\ Len(s) \in Nat /\ Len(t) \in Nat
  BY LenProperties DEF Aside, Later
<1>a. s \o t \in Seq(Tasks)
  BY <1>1, ConcatProperties
<1>2. PICK u \in Seq(Tasks) : u = s \o t
  BY <1>a
<1>3. /\ Len(u) = Len(s) + Len(t)
      /\ \A i \in 1..Len(s) : u[i] = s[i] /\ (Led(s, i) => Led(u, i))
      /\ \A i \in 1..Len(t) : u[Len(s) + i] = t[i] /\ (Led(t, i) => Led(u, Len(s) + i))
      /\ \A i \in 1..Len(u) : i \in 1..Len(s) \/ \E j \in 1..Len(t) : i = Len(s) + j
  BY <1>1, <1>2, Joined
<1>4. ASSUME NEW i \in 1..Len(u)
      PROVE  /\ u[i].op \notin WinningOps \cup {"enqueue"}
             /\ u[i].op = "default_delivery" => u[i].part # "main" /\ Led(u, i)
             /\ u[i].op = "evaluate_again" => \A j \in (i + 1)..Len(u) : u[j].op \in Closing
  <2>1. CASE i \in 1..Len(s)
    <3>1. /\ s[i].op \in PassiveActions \cup {"default_delivery", "also_deliver"}
          /\ s[i].op = "default_delivery" => s[i].part # "main" /\ Led(s, i)
          /\ u[i] = s[i] /\ (Led(s, i) => Led(u, i))
      BY <1>3, <2>1 DEF Aside
    <3>2. s[i].op \notin WinningOps \cup {"enqueue", "evaluate_again"}
      BY <3>1, Kinds
    <3> QED BY <3>1, <3>2
  <2>2. ASSUME NEW j \in 1..Len(t), i = Len(s) + j
        PROVE  /\ u[i].op \notin WinningOps \cup {"enqueue"}
               /\ u[i].op = "default_delivery" => u[i].part # "main" /\ Led(u, i)
               /\ u[i].op = "evaluate_again" => \A k \in (i + 1)..Len(u) : u[k].op \in Closing
    <3>1. /\ t[j].op \notin WinningOps \cup {"enqueue"}
          /\ t[j].op = "default_delivery" => t[j].part # "main" /\ Led(t, j)
          /\ t[j].op = "evaluate_again" => \A k \in (j + 1)..Len(t) : t[k].op \in Closing
          /\ u[i] = t[j] /\ (Led(t, j) => Led(u, i))
      BY <1>3, <2>2 DEF Later
    <3>2. ASSUME NEW k \in (i + 1)..Len(u), u[i].op = "evaluate_again" PROVE u[k].op \in Closing
      <4>1. k - Len(s) \in (j + 1)..Len(t) /\ k - Len(s) \in 1..Len(t) /\ k = Len(s) + (k - Len(s))
        BY <1>1, <1>3, <2>2
      <4>2. u[k] = t[k - Len(s)]
        BY <1>3, <4>1
      <4> QED BY <3>1, <3>2, <4>1, <4>2
    <3> QED BY <3>1, <3>2
  <2> QED BY <1>3, <2>1, <2>2
<1> QED BY <1>2, <1>4 DEF Later

LEMMA LeastNumber ==
  ASSUME NEW S \in SUBSET Nat, S # {}
  PROVE  \E n \in S : \A k \in S : n <= k
<1> DEFINE R == {ss \in Nat \X Nat : ss[1] < ss[2]}
<1>1. IsWellFoundedOn(R, Nat)
  BY NatLessThanWellFounded DEF OpToRel
<1>2. PICK n \in S : \A k \in S : ~(<<k, n>> \in R)
  <2> HIDE DEF R
  <2> QED BY <1>1, WFMin
<1>3. \A k \in S : ~(k < n)
  BY <1>2
<1> QED BY <1>3

LEMMA AsideDispatch ==
  ASSUME NEW rule \in Rules, NEW n \in Nat \ {0}, rule.action \in PassiveActions
  PROVE  Aside(DispatchAction(rule, n))
<1>1. PICK s \in Seq(Tasks) : s = DispatchAction(rule, n) /\ Dispatched(s, rule, n)
  BY DispatchIs DEF Dispatched
<1>2. KeepsOriginal(rule) <=> rule.action \in AIActions
  BY RuleTypes, Kinds
<1>3. /\ Task(rule.action, n, "main").op = rule.action
      /\ Task(rule.action, n, "main").rule = n
      /\ Task(rule.action, n, "main").part = "main"
      /\ Task("default_delivery", n, "original").op = "default_delivery"
      /\ Task("default_delivery", n, "original").rule = n
      /\ Task("default_delivery", n, "original").part = "original"
      /\ Task("also_deliver", n, "copy").op = "also_deliver"
  BY DEF Task
<1>4. ASSUME NEW i \in 1..Len(s)
      PROVE  /\ s[i].op \in PassiveActions \cup {"default_delivery", "also_deliver"}
             /\ s[i].op = "default_delivery" => s[i].part # "main" /\ Led(s, i)
  <2>1. CASE i = 1
    BY <1>1, <1>3, <2>1, Kinds DEF Dispatched
  <2>2. CASE i = 2 /\ KeepsOriginal(rule)
    BY <1>1, <1>2, <1>3, <2>2 DEF Dispatched, Led
  <2>3. CASE i = 2 /\ ~KeepsOriginal(rule)
    BY <1>1, <1>3, <2>3 DEF Dispatched
  <2>4. CASE i = 3
    BY <1>1, <1>3, <2>4 DEF Dispatched
  <2> QED BY <1>1, <2>1, <2>2, <2>3, <2>4 DEF Dispatched
<1> QED BY <1>1, <1>4 DEF Aside

LEMMA AsideEmpty == Aside(<<>>)
BY DEF Aside

LEMMA AsideCascadeOf ==
  ASSUME NEW matched \in Seq(Rules), NEW place \in 1..Len(matched)
  PROVE  Aside(CascadeOf(matched, place))
<1>1. matched[place] \in Rules /\ place \in Nat \ {0}
  OBVIOUS
<1> QED BY <1>1, AsideDispatch, AsideEmpty DEF CascadeOf

(* The concatenation of the pieces of a cascade, which FlattenSeq makes    *)
(* with a recursive function.                                              *)
Flattens(f, pieces, n) ==
  f = [i \in 1..n |-> IF i = 1 THEN pieces[i] ELSE f[i - 1] \o pieces[i]]

LEMMA FlattenExists ==
  ASSUME NEW n \in Nat \ {0}, NEW pieces
  PROVE  \E f : Flattens(f, pieces, n)
<1> DEFINE Good(k) == \E f : Flattens(f, pieces, k)
           Bad == {k \in 1..n : ~Good(k)}
<1>1. Good(1)
  <2>1. Flattens([i \in 1..1 |-> pieces[i]], pieces, 1)
    BY DEF Flattens
  <2> QED BY <2>1
<1>2. ASSUME NEW k \in 1..n, k > 1, Good(k - 1) PROVE Good(k)
  <2>1. PICK f : Flattens(f, pieces, k - 1)
    BY <1>2
  <2>2. PICK last : last = f[k - 1] \o pieces[k]
    OBVIOUS
  <2> DEFINE g == [i \in 1..k |-> IF i < k THEN f[i] ELSE last]
  <2>3. g[k] = last
    OBVIOUS
  <2>4. ASSUME NEW i \in 1..k, i < k PROVE g[i] = f[i]
    BY <2>4
  <2>5. ASSUME NEW i \in 1..k
        PROVE  g[i] = IF i = 1 THEN pieces[i] ELSE g[i - 1] \o pieces[i]
    <3>1. CASE i = k
      <4>1. k - 1 \in 1..k /\ k - 1 < k
        BY <1>2
      <4>2. g[k - 1] = f[k - 1]
        BY <2>4, <4>1
      <4>3. g[k] = g[k - 1] \o pieces[k]
        BY <2>2, <2>3, <4>2, Zenon
      <4>4. i # 1
        BY <1>2, <3>1
      <4> HIDE DEF g
      <4> QED BY <3>1, <4>3, <4>4, Zenon
    <3>2. CASE i < k
      <4>1. i \in 1..(k - 1) /\ (i # 1 => i - 1 \in 1..k /\ i - 1 < k)
        BY <3>2
      <4>2. f[i] = IF i = 1 THEN pieces[i] ELSE f[i - 1] \o pieces[i]
        BY <2>1, <4>1 DEF Flattens
      <4>3. g[i] = f[i] /\ (i # 1 => g[i - 1] = f[i - 1])
        BY <2>4, <3>2, <4>1
      <4> HIDE DEF g
      <4> QED BY <4>2, <4>3
    <3> QED BY <3>1, <3>2
  <2>6. Flattens(g, pieces, k)
    <3>1. [i \in 1..k |-> g[i]] = [i \in 1..k |-> IF i = 1 THEN pieces[i] ELSE g[i - 1] \o pieces[i]]
      <4> HIDE DEF g
      <4> QED BY <2>5
    <3>2. [i \in 1..k |-> g[i]] = g
      OBVIOUS
    <3> HIDE DEF g
    <3> QED BY <3>1, <3>2 DEF Flattens
  <2> HIDE DEF g
  <2> QED BY <2>6
<1>3. ASSUME Bad # {} PROVE FALSE
  <2>1. Bad \in SUBSET Nat
    OBVIOUS
  <2>2. PICK k \in Bad : \A j \in Bad : k <= j
    BY <1>3, <2>1, LeastNumber
  <2>3. k \in 1..n /\ ~Good(k)
    BY <2>2
  <2>4. k # 1
    BY <1>1, <2>3
  <2>5. k - 1 \in 1..n /\ k - 1 \notin Bad
    BY <2>2, <2>3, <2>4
  <2>6. Good(k - 1)
    BY <2>5
  <2> HIDE DEF Good
  <2> QED BY <1>2, <2>3, <2>4, <2>6
<1> QED BY <1>3

LEMMA FlattenAside ==
  ASSUME NEW n \in Nat \ {0}, NEW pieces, \A i \in 1..n : Aside(pieces[i]),
         NEW f, Flattens(f, pieces, n)
  PROVE  Aside(f[n])
<1> DEFINE Bad == {k \in 1..n : ~Aside(f[k])}
<1>1. ASSUME Bad # {} PROVE FALSE
  <2>1. Bad \in SUBSET Nat
    OBVIOUS
  <2>2. PICK k \in Bad : \A j \in Bad : k <= j
    BY <1>1, <2>1, LeastNumber
  <2>3. k \in 1..n /\ ~Aside(f[k])
    BY <2>2
  <2>4. f[k] = IF k = 1 THEN pieces[k] ELSE f[k - 1] \o pieces[k]
    BY <2>3 DEF Flattens
  <2>5. k # 1
    BY <2>3, <2>4
  <2>6. k - 1 \in 1..n /\ k - 1 \notin Bad
    BY <2>2, <2>3, <2>5
  <2>7. Aside(f[k - 1])
    BY <2>6
  <2> QED BY <2>3, <2>4, <2>5, <2>7, AsideJoin
<1> QED BY <1>1

LEMMA AsideFlatten ==
  ASSUME NEW n \in Nat, NEW pieces \in [1..n -> Seq(Tasks)], \A i \in 1..n : Aside(pieces[i])
  PROVE  Aside(FlattenSeq(pieces))
<1>1. Len(pieces) = n /\ (n = 0 => pieces = <<>>)
  OBVIOUS
<1>2. CASE n = 0
  BY <1>1, <1>2, AsideEmpty DEF FlattenSeq
<1>3. CASE n # 0
  <2> DEFINE Is(f) == f = [i \in 1..Len(pieces) |->
                             IF i = 1 THEN pieces[i] ELSE f[i - 1] \o pieces[i]]
             flatten == CHOOSE f : Is(f)
  <2>1. FlattenSeq(pieces) = flatten[Len(pieces)]
    BY <1>1, <1>3 DEF FlattenSeq
  <2>2. PICK f : Flattens(f, pieces, n)
    BY <1>3, FlattenExists
  <2>3. Is(f)
    BY <1>1, <2>2 DEF Flattens
  <2>4. Is(flatten)
    BY <2>3
  <2>5. Flattens(flatten, pieces, n)
    BY <1>1, <2>4 DEF Flattens
  <2> HIDE DEF flatten, Is
  <2> QED BY <1>1, <1>3, <2>1, <2>5, FlattenAside
<1> QED BY <1>2, <1>3

LEMMA AsideCascade ==
  ASSUME NEW matched \in Seq(Rules), matched # <<>>
  PROVE  Aside(Cascade(matched))
<1>1. Len(matched) \in Nat \ {0} /\ Len(matched) - 1 \in Nat
  OBVIOUS
<1>2. ASSUME NEW i \in 1..(Len(matched) - 1)
      PROVE  Aside(CascadeOf(matched, i + 1)) /\ CascadeOf(matched, i + 1) \in Seq(Tasks)
  <2>1. i + 1 \in 1..Len(matched)
    BY <1>1
  <2> QED BY <2>1, AsideCascadeOf DEF Aside
<1> DEFINE pieces == [i \in 1..(Len(matched) - 1) |-> CascadeOf(matched, i + 1)]
<1>3. /\ pieces \in [1..(Len(matched) - 1) -> Seq(Tasks)]
      /\ \A i \in 1..(Len(matched) - 1) : Aside(pieces[i])
  BY <1>2
<1>4. Cascade(matched) = FlattenSeq(pieces)
  BY DEF Cascade
<1> HIDE DEF pieces
<1> QED BY <1>1, <1>3, <1>4, AsideFlatten

(* What a call begins with before anything that runs beside or after.      *)
Opening(s, action) ==
  /\ s \in Seq(Tasks)
  /\ \A i \in 1..Len(s) :
       /\ s[i].op \in WinningOps => i = 1 /\ s[i].op = action /\ s[i].rule = 1 /\ s[i].part = "main"
       /\ s[i].op = "default_delivery" /\ s[i].part = "main" => s[i].rule = 1 /\ action = "default_delivery"
       /\ s[i].op \notin {"enqueue", "evaluate_again"}
  /\ \A i, j \in 1..Len(s) : s[i].op = "default_delivery" /\ s[j].op = "default_delivery" => i = j
  /\ action \in WinningOps => s # <<>> /\ s[1].op = action
  /\ action = "default_delivery" =>
        \E i \in 1..Len(s) : s[i].op = "default_delivery" /\ s[i].part = "main"
  /\ action \in AIActions => \E i \in 1..Len(s) : s[i].op = "default_delivery"

LEMMA OpeningDispatch ==
  ASSUME NEW rule \in Rules
  PROVE  Opening(DispatchAction(rule, 1), rule.action)
<1>1. PICK s \in Seq(Tasks) : s = DispatchAction(rule, 1) /\ Dispatched(s, rule, 1)
  BY DispatchIs DEF Dispatched
<1>2. PICK a \in Actions : a = rule.action
  BY RuleTypes
<1>3. /\ a \in AIActions => KeepsOriginal(rule)
      /\ KeepsOriginal(rule) => a \in AIActions \cup WinningOps
  BY <1>2, RuleTypes
<1>4. /\ Task(a, 1, "main").op = a
      /\ Task(a, 1, "main").rule = 1
      /\ Task(a, 1, "main").part = "main"
      /\ Task("default_delivery", 1, "original").op = "default_delivery"
      /\ Task("default_delivery", 1, "original").part = "original"
      /\ Task("also_deliver", 1, "copy").op = "also_deliver"
  BY DEF Task
<1>5. /\ {"default_delivery", "also_deliver"} \cap WinningOps = {}
      /\ "default_delivery" \notin AIActions
      /\ a \notin {"enqueue", "evaluate_again", "also_deliver"}
  BY Kinds
<1>6. /\ Len(s) \in 1..3 /\ s[1].op = a /\ s[1].rule = 1 /\ s[1].part = "main"
      /\ KeepsOriginal(rule) => Len(s) >= 2 /\ s[2].op = "default_delivery" /\ s[2].part = "original"
      /\ ~KeepsOriginal(rule) => Len(s) <= 2 /\ (Len(s) = 2 => s[2].op = "also_deliver")
      /\ Len(s) = 3 => s[3].op = "also_deliver"
  BY <1>1, <1>2, <1>4 DEF Dispatched
<1>7. KeepsOriginal(rule) => a # "default_delivery"
  BY <1>3, <1>5
<1>8. ASSUME NEW i \in 1..Len(s)
      PROVE  /\ s[i].op \in WinningOps =>
                   i = 1 /\ s[i].op = a /\ s[i].rule = 1 /\ s[i].part = "main"
             /\ s[i].op = "default_delivery" /\ s[i].part = "main" =>
                   s[i].rule = 1 /\ a = "default_delivery"
             /\ s[i].op \notin {"enqueue", "evaluate_again"}
  <2>1. CASE i = 1
    BY <1>5, <1>6, <2>1
  <2>2. CASE i = 2
    BY <1>5, <1>6, <2>2
  <2>3. CASE i = 3
    BY <1>5, <1>6, <2>3
  <2> QED BY <1>6, <2>1, <2>2, <2>3
<1>9. ASSUME NEW i \in 1..Len(s), NEW j \in 1..Len(s),
             s[i].op = "default_delivery", s[j].op = "default_delivery"
      PROVE  i = j
  <2>1. CASE KeepsOriginal(rule)
    <3>1. \A k \in 1..Len(s) : s[k].op = "default_delivery" => k = 2
      BY <1>5, <1>6, <1>7, <2>1
    <3> QED BY <1>9, <3>1
  <2>2. CASE ~KeepsOriginal(rule)
    <3>1. \A k \in 1..Len(s) : s[k].op = "default_delivery" => k = 1
      BY <1>6, <2>2
    <3> QED BY <1>9, <3>1
  <2> QED BY <2>1, <2>2
<1>10. /\ a \in WinningOps => s # <<>> /\ s[1].op = a
       /\ a = "default_delivery" =>
             \E i \in 1..Len(s) : s[i].op = "default_delivery" /\ s[i].part = "main"
       /\ a \in AIActions => \E i \in 1..Len(s) : s[i].op = "default_delivery"
  BY <1>3, <1>6
<1> QED BY <1>1, <1>2, <1>8, <1>9, <1>10 DEF Opening

LEMMA OpeningOne ==
  ASSUME NEW op \in {"quarantine", "default_delivery"}
  PROVE  Opening(<<Task(op, 1, "main")>>, op)
<1>1. PICK t \in Tasks : t = Task(op, 1, "main") /\ t.op = op /\ t.rule = 1 /\ t.part = "main"
  BY TaskTypes, Kinds DEF Parts
<1>2. /\ {"default_delivery"} \cap WinningOps = {} /\ op \notin AIActions
      /\ op \notin {"enqueue", "evaluate_again"}
  BY Kinds DEF AIActions
<1>3. <<t>> \in Seq(Tasks) /\ Len(<<t>>) = 1 /\ <<t>>[1] = t /\ <<t>> # <<>>
  OBVIOUS
<1> QED BY <1>1, <1>2, <1>3 DEF Opening

LEMMA Beginning ==
  ASSUME NEW s, NEW action, Opening(s, action), NEW t, Later(t)
  PROVE  Begun(s \o t, action)
<1>1. s \in Seq(Tasks) /\ t \in Seq(Tasks)
  BY DEF Opening, Later
<1>2. Len(s) \in Nat /\ Len(t) \in Nat /\ s \o t \in Seq(Tasks) /\ Len(s \o t) = Len(s) + Len(t)
  BY <1>1, Joined, LenProperties
<1>3. PICK u \in Seq(Tasks) : u = s \o t
  BY <1>2
<1>a. /\ \A i \in 1..Len(s) : u[i] = s[i]
      /\ \A i \in 1..Len(t) : u[Len(s) + i] = t[i] /\ (Led(t, i) => Led(u, Len(s) + i))
      /\ \A i \in 1..Len(u) : i \in 1..Len(s) \/ \E j \in 1..Len(t) : i = Len(s) + j
  BY <1>1, <1>3, Joined
<1>4. /\ \A i \in 1..Len(s) : i \in 1..Len(u) /\ u[i] = s[i]
      /\ \A i \in 1..Len(t) : u[Len(s) + i] = t[i] /\ (Led(t, i) => Led(u, Len(s) + i))
      /\ \A i \in 1..Len(u) : i \in 1..Len(s) \/ \E j \in 1..Len(t) : i = Len(s) + j
  BY <1>a, <1>2, <1>3
<1>5. {"default_delivery", "enqueue", "evaluate_again"} \cap WinningOps = {}
  BY Kinds
<1>6. ASSUME NEW i \in 1..Len(u)
      PROVE  /\ u[i].op \in WinningOps =>
                   i = 1 /\ u[i].op = action /\ u[i].rule = 1 /\ u[i].part = "main"
             /\ u[i].op \in {"default_delivery", "enqueue"} /\ u[i].part = "main" =>
                   u[i].rule = 1 /\ action \in {"default_delivery", "received_only"}
             /\ u[i].op = "evaluate_again" => \A j \in (i + 1)..Len(u) : u[j].op \in Closing
             /\ \A d \in Domains : Own(u, i, d) => i \in 1..Len(s) /\ s[i].op = "default_delivery"
  <2>1. CASE i \in 1..Len(s)
    <3>1. u[i] = s[i] /\ s[i].op # "enqueue" /\ s[i].op # "evaluate_again"
      BY <1>4, <2>1 DEF Opening
    <3>2. \A d \in Domains : Own(u, i, d) => s[i].op = "default_delivery"
      BY <3>1 DEF Own, Brings
    <3> QED BY <2>1, <3>1, <3>2 DEF Opening
  <2>2. ASSUME NEW j \in 1..Len(t), i = Len(s) + j
        PROVE  /\ u[i].op \in WinningOps =>
                     i = 1 /\ u[i].op = action /\ u[i].rule = 1 /\ u[i].part = "main"
               /\ u[i].op \in {"default_delivery", "enqueue"} /\ u[i].part = "main" =>
                     u[i].rule = 1 /\ action \in {"default_delivery", "received_only"}
               /\ u[i].op = "evaluate_again" => \A k \in (i + 1)..Len(u) : u[k].op \in Closing
               /\ \A d \in Domains : Own(u, i, d) => i \in 1..Len(s) /\ s[i].op = "default_delivery"
    <3>1. /\ u[i] = t[j] /\ t[j].op \notin WinningOps \cup {"enqueue"}
          /\ t[j].op = "default_delivery" => t[j].part # "main" /\ Led(u, i)
          /\ t[j].op = "evaluate_again" => \A k \in (j + 1)..Len(t) : t[k].op \in Closing
      BY <1>4, <2>2 DEF Later
    <3>2. ASSUME NEW k \in (i + 1)..Len(u), u[i].op = "evaluate_again" PROVE u[k].op \in Closing
      <4>1. k - Len(s) \in (j + 1)..Len(t) /\ k - Len(s) \in 1..Len(t) /\ k = Len(s) + (k - Len(s))
        BY <1>2, <1>3, <2>2
      <4>2. u[k] = t[k - Len(s)]
        BY <1>4, <4>1
      <4> QED BY <3>1, <3>2, <4>1, <4>2
    <3>3. \A d \in Domains : ~Own(u, i, d)
      BY <3>1 DEF Own, Brings
    <3> QED BY <3>1, <3>2, <3>3
  <2> QED BY <1>4, <2>1, <2>2
<1>7. Fits(u, action)
  BY <1>6 DEF Fits
<1>8. action \in WinningOps => u # <<>> /\ u[1].op = action
  <2>1. SUFFICES ASSUME action \in WinningOps PROVE u # <<>> /\ u[1].op = action
    OBVIOUS
  <2>2. s # <<>> /\ s[1].op = action
    BY <2>1 DEF Opening
  <2>3. 1 \in 1..Len(s)
    BY <1>1, <2>2
  <2>4. u[1] = s[1] /\ 1 \in 1..Len(u)
    BY <1>4, <2>3
  <2> QED BY <2>2, <2>4
<1>9. ASSUME NEW d \in Domains
      PROVE  /\ Once(u, d)
             /\ action = "default_delivery" => Comes(u, {"main"}, d)
             /\ action \in AIActions => Comes(u, Parts, d)
  <2>1. Once(u, d)
    <3>1. SUFFICES ASSUME NEW i \in 1..Len(u), NEW j \in 1..Len(u), Own(u, i, d), Own(u, j, d)
                   PROVE  i = j
      BY DEF Once
    <3>2. /\ i \in 1..Len(s) /\ s[i].op = "default_delivery"
          /\ j \in 1..Len(s) /\ s[j].op = "default_delivery"
      BY <1>6, <3>1
    <3> QED BY <3>2 DEF Opening
  <2>2. ASSUME NEW i \in 1..Len(s), s[i].op = "default_delivery"
        PROVE  i \in 1..Len(u) /\ u[i] = s[i] /\ Brings(u[i], d) /\ u[i].part \in Parts
    <3>1. i \in 1..Len(u) /\ u[i] = s[i] /\ u[i] \in Tasks
      BY <1>4
    <3> QED BY <2>2, <3>1 DEF Brings, Tasks
  <2>3. action = "default_delivery" => Comes(u, {"main"}, d)
    BY <2>2 DEF Opening, Comes
  <2>4. action \in AIActions => Comes(u, Parts, d)
    BY <2>2 DEF Opening, Comes
  <2> QED BY <2>1, <2>3, <2>4
<1> QED BY <1>3, <1>7, <1>8, <1>9 DEF Begun

LEMMA LaterClosing ==
  ASSUME NEW t \in Seq(Tasks), \A i \in 1..Len(t) : t[i].op \in Closing
  PROVE  Later(t)
<1>1. Closing \cap (WinningOps \cup {"enqueue", "default_delivery", "evaluate_again"}) = {}
  BY DEF Closing, WinningOps, SendingActions, TicketActions
<1> QED BY <1>1 DEF Later

(* What ends a call, after the winning rule and its cascade. *)
LEMMA Endings ==
  ASSUME NEW e \in Tasks, e.op = "evaluate_again", NEW i \in Tasks, i.op = "insert_event",
         NEW l \in Tasks, l.op = "link"
  PROVE  /\ Later(<<i, l>>) /\ Later(<<e>> \o <<i, l>>)
         /\ <<e>> \in Seq(Tasks) /\ <<i, l>> \in Seq(Tasks)
<1>1. /\ <<e>> \in Seq(Tasks) /\ <<i, l>> \in Seq(Tasks)
      /\ Len(<<e>>) = 1 /\ Len(<<i, l>>) = 2 /\ <<e>>[1] = e /\ <<i, l>>[1] = i /\ <<i, l>>[2] = l
  OBVIOUS
<1>2. \A k \in 1..2 : <<i, l>>[k].op \in Closing
  BY <1>1 DEF Closing
<1>a. <<e>> \o <<i, l>> \in Seq(Tasks)
  BY <1>1, ConcatProperties
<1>b. PICK s \in Seq(Tasks) : s = <<e>> \o <<i, l>>
  BY <1>a
<1>c. Len(s) = Len(<<e>>) + Len(<<i, l>>)
  BY <1>1, <1>b, ConcatProperties
<1>3. s = <<e>> \o <<i, l>> /\ Len(s) = 3
  BY <1>1, <1>b, <1>c
<1>4. s[1] = e /\ \A k \in 2..3 : s[k].op \in Closing
  <2>1. s[1] = <<e>>[1]
    BY <1>1, <1>3, Joined
  <2>2. ASSUME NEW k \in 2..3 PROVE s[k].op \in Closing
    <3>1. k - 1 \in 1..2 /\ k = 1 + (k - 1)
      OBVIOUS
    <3>2. s[1 + (k - 1)] = <<i, l>>[k - 1]
      BY <1>1, <1>3, <3>1, Joined
    <3> QED BY <1>2, <3>1, <3>2
  <2> QED BY <1>1, <2>1, <2>2
<1>5. Closing \cap (WinningOps \cup {"enqueue", "default_delivery", "evaluate_again"}) = {}
      /\ "evaluate_again" \notin WinningOps
  BY Kinds DEF Closing, WinningOps, SendingActions, TicketActions
<1>6. ASSUME NEW k \in 1..3
      PROVE  /\ s[k].op \notin WinningOps \cup {"enqueue"}
             /\ s[k].op # "default_delivery"
             /\ s[k].op = "evaluate_again" => \A j \in (k + 1)..3 : s[j].op \in Closing
  <2>1. CASE k = 1
    BY <1>4, <1>5, <2>1
  <2>2. CASE k \in 2..3
    BY <1>4, <1>5, <2>2
  <2> QED BY <2>1, <2>2
<1> QED BY <1>1, <1>2, <1>3, <1>6, LaterClosing DEF Later

LEMMA FirstBegun ==
  ASSUME NEW route \in Routes, NEW matched \in RuleLists, NEW shadow \in BOOLEAN
  PROVE  Begun(RouteTasks(route, matched, shadow), FirstAction(route, matched, shadow))
<1>1. matched \in Seq(Rules)
  BY PipelineAssumption
<1>2. PICK e \in Tasks : e = Task("evaluate_again", 1, "main") /\ e.op = "evaluate_again"
  BY TaskTypes, Kinds DEF Parts
<1>3. PICK i \in Tasks : i = Task("insert_event", 1, "main") /\ i.op = "insert_event"
  BY TaskTypes, Kinds DEF Parts
<1>4. PICK l \in Tasks : l = Task("link", 1, "main") /\ l.op = "link"
  BY TaskTypes, Kinds DEF Parts
<1>5. /\ Later(<<i, l>>) /\ Later(<<e>> \o <<i, l>>)
      /\ <<e>> \in Seq(Tasks) /\ <<i, l>> \in Seq(Tasks)
  BY <1>2, <1>3, <1>4, Endings
<1>6. CASE route = "pre_quarantine"
  <2>1. RouteTasks(route, matched, shadow) = <<Task("quarantine", 1, "main")>> \o <<i, l>>
        /\ FirstAction(route, matched, shadow) = "quarantine"
    BY <1>3, <1>4, <1>6 DEF RouteTasks, FirstAction
  <2> QED BY <1>5, <2>1, OpeningOne, Beginning
<1>7. CASE route # "pre_quarantine" /\ (route # "rules" \/ matched = <<>> \/ shadow)
  <2>1. RouteTasks(route, matched, shadow) = <<Task("default_delivery", 1, "main")>> \o <<i, l>>
        /\ FirstAction(route, matched, shadow) = "default_delivery"
    BY <1>3, <1>4, <1>7 DEF RouteTasks, FirstAction, RuleTasks, Deliver
  <2> QED BY <1>5, <2>1, OpeningOne, Beginning
<1>8. CASE route = "rules" /\ matched # <<>> /\ ~shadow
  <2>1. matched[1] \in Rules
    BY <1>1, <1>8
  <2>2. PICK s : s = DispatchAction(matched[1], 1) /\ Opening(s, matched[1].action)
    BY <2>1, OpeningDispatch
  <2>3. PICK c : c = Cascade(matched) /\ Aside(c)
    BY <1>1, <1>8, AsideCascade
  <2>4. s \in Seq(Tasks) /\ c \in Seq(Tasks)
    BY <2>2, <2>3 DEF Opening, Aside
  <2>5. RouteTasks(route, matched, shadow) = ((s \o c) \o <<e>>) \o <<i, l>>
        /\ FirstAction(route, matched, shadow) = matched[1].action
    BY <1>2, <1>3, <1>4, <1>8, <2>2, <2>3 DEF RouteTasks, FirstAction, RuleTasks
  <2>6. ((s \o c) \o <<e>>) \o <<i, l>> = s \o (c \o (<<e>> \o <<i, l>>))
    <3>1. s \o c \in Seq(Tasks) /\ <<e>> \o <<i, l>> \in Seq(Tasks)
      BY <1>5, <2>4, ConcatProperties
    <3>2. ((s \o c) \o <<e>>) \o <<i, l>> = (s \o c) \o (<<e>> \o <<i, l>>)
      BY <1>5, <3>1, ConcatAssociative
    <3>3. (s \o c) \o (<<e>> \o <<i, l>>) = s \o (c \o (<<e>> \o <<i, l>>))
      BY <2>4, <3>1, ConcatAssociative
    <3> QED BY <3>2, <3>3
  <2>7. Later(c \o (<<e>> \o <<i, l>>))
    BY <1>5, <2>3, LaterJoin
  <2>8. Begun(s \o (c \o (<<e>> \o <<i, l>>)), matched[1].action)
    BY <2>2, <2>7, Beginning
  <2> QED BY <2>5, <2>6, <2>8
<1> QED BY <1>6, <1>7, <1>8 DEF Routes

LEMMA AgainBegun ==
  ASSUME NEW others \in Seq(Rules), NEW t \in Seq(Tasks), \A i \in 1..Len(t) : t[i].op \in Closing
  PROVE  Begun((IF others = <<>> THEN <<Deliver>> ELSE DispatchAction(others[1], 1)) \o t,
               FirstAction("rules", others, FALSE))
<1>1. Later(t)
  BY LaterClosing
<1>2. CASE others = <<>>
  <2>1. FirstAction("rules", others, FALSE) = "default_delivery"
        /\ Deliver = Task("default_delivery", 1, "main")
    BY <1>2 DEF FirstAction, Deliver
  <2> QED BY <1>1, <1>2, <2>1, OpeningOne, Beginning
<1>3. CASE others # <<>>
  <2>1. FirstAction("rules", others, FALSE) = others[1].action
    BY <1>3 DEF FirstAction
  <2>2. others[1] \in Rules
    BY <1>3
  <2>3. Opening(DispatchAction(others[1], 1), others[1].action)
    BY <2>2, OpeningDispatch
  <2> QED BY <1>1, <1>3, <2>1, <2>3, Beginning
<1> QED BY <1>2, <1>3

(* The tasks u that follow s when its first k are done and p have taken    *)
(* their place: a reply, or the rows of an original delivery.              *)
Follows(u, s, p, k) ==
  /\ s \in Seq(Tasks) /\ u \in Seq(Tasks) /\ k \in 1..Len(s) /\ p \in Nat
  /\ Len(u) = p + (Len(s) - k)
  /\ \A i \in 1..(Len(s) - k) : u[p + i] = s[k + i]
  /\ \A i \in 1..p : /\ u[i].op \in {"reply", "enqueue"}
                     /\ u[i].op = "enqueue" /\ u[i].part = "main" =>
                           s[1].op = "default_delivery" /\ s[1].part = "main" /\ u[i].rule = s[1].rule

LEMMA FollowsPlaces ==
  ASSUME NEW u, NEW s, NEW p, NEW k, Follows(u, s, p, k), NEW i \in 1..Len(u)
  PROVE  \/ i \in 1..p
         \/ \E j \in 1..(Len(s) - k) : /\ i = p + j /\ k + j \in 1..Len(s) /\ k + j > 1
                                       /\ u[i] = s[k + j]
<1>1. Len(s) \in Nat /\ Len(u) \in Nat /\ k \in Nat
  BY LenProperties DEF Follows
<1>2. CASE i > p
  <2>1. i - p \in 1..(Len(s) - k) /\ i = p + (i - p)
    BY <1>1, <1>2 DEF Follows
  <2>2. k + (i - p) \in 1..Len(s) /\ k + (i - p) > 1
    BY <1>1, <2>1 DEF Follows
  <2>3. u[p + (i - p)] = s[k + (i - p)]
    BY <2>1 DEF Follows
  <2> QED BY <2>1, <2>2, <2>3
<1>3. CASE ~(i > p)
  BY <1>1, <1>3 DEF Follows
<1> QED BY <1>2, <1>3

LEMMA FollowsFits ==
  ASSUME NEW u, NEW s, NEW p, NEW k, Follows(u, s, p, k), NEW action, Fits(s, action)
  PROVE  Fits(u, action) /\ \A i \in 1..Len(u) : u[i].op \notin WinningOps
<1>1. /\ {"reply", "enqueue"} \cap WinningOps = {} /\ "default_delivery" \notin WinningOps
      /\ {"reply", "enqueue"} \cap {"default_delivery", "evaluate_again"} = {}
  BY Kinds
<1>2. Len(s) \in Nat /\ Len(u) \in Nat /\ k \in Nat /\ 1 \in 1..Len(s) /\ p \in Nat
  BY LenProperties DEF Follows
<1>3. ASSUME NEW i \in 1..Len(u)
      PROVE  /\ u[i].op \notin WinningOps
             /\ u[i].op \in {"default_delivery", "enqueue"} /\ u[i].part = "main" =>
                   u[i].rule = 1 /\ action \in {"default_delivery", "received_only"}
             /\ u[i].op = "evaluate_again" => \A j \in (i + 1)..Len(u) : u[j].op \in Closing
  <2>1. CASE i \in 1..p
    <3>1. /\ u[i].op \in {"reply", "enqueue"}
          /\ u[i].op = "enqueue" /\ u[i].part = "main" =>
                s[1].op = "default_delivery" /\ s[1].part = "main" /\ u[i].rule = s[1].rule
      BY <2>1 DEF Follows
    <3>2. s[1].op = "default_delivery" /\ s[1].part = "main" =>
             s[1].rule = 1 /\ action \in {"default_delivery", "received_only"}
      BY <1>2 DEF Fits
    <3> QED BY <1>1, <3>1, <3>2
  <2>2. ASSUME NEW j \in 1..(Len(s) - k), i = p + j, k + j \in 1..Len(s), k + j > 1, u[i] = s[k + j]
        PROVE  /\ u[i].op \notin WinningOps
               /\ u[i].op \in {"default_delivery", "enqueue"} /\ u[i].part = "main" =>
                     u[i].rule = 1 /\ action \in {"default_delivery", "received_only"}
               /\ u[i].op = "evaluate_again" => \A l \in (i + 1)..Len(u) : u[l].op \in Closing
    <3>1. u[i].op \notin WinningOps
      BY <2>2 DEF Fits
    <3>2. u[i].op \in {"default_delivery", "enqueue"} /\ u[i].part = "main" =>
             u[i].rule = 1 /\ action \in {"default_delivery", "received_only"}
      BY <2>2 DEF Fits
    <3>3. ASSUME u[i].op = "evaluate_again", NEW l \in (i + 1)..Len(u) PROVE u[l].op \in Closing
      <4>1. \A x \in (k + j + 1)..Len(s) : s[x].op \in Closing
        BY <2>2, <3>3 DEF Fits
      <4>2. l - p \in 1..(Len(s) - k) /\ p + (l - p) = l /\ k + (l - p) \in (k + j + 1)..Len(s)
        BY <1>2, <2>2 DEF Follows
      <4>3. u[p + (l - p)] = s[k + (l - p)]
        BY <4>2 DEF Follows
      <4> QED BY <4>1, <4>2, <4>3
    <3> QED BY <3>1, <3>2, <3>3
  <2> QED BY <2>1, <2>2, FollowsPlaces
<1> QED BY <1>3 DEF Fits

LEMMA FollowsOwn ==
  ASSUME NEW u, NEW s, NEW p, NEW k, Follows(u, s, p, k), k < Len(s) => ~Led(s, k + 1),
         NEW j \in 1..(Len(s) - k), NEW d
  PROVE  Own(u, p + j, d) <=> Own(s, k + j, d)
<1>a. Len(s) \in Nat /\ k \in Nat \ {0} /\ p \in Nat /\ j \in Nat \ {0}
  BY LenProperties DEF Follows
<1>b. u[p + j] = s[k + j]
  BY DEF Follows
<1>1. /\ Len(s) \in Nat /\ k \in Nat \ {0} /\ p \in Nat /\ j \in Nat \ {0} /\ k + j > 1
      /\ u[p + j] = s[k + j]
  BY <1>a, <1>b
<1>2. "reply" \notin AIActions /\ "enqueue" \notin AIActions
  BY DEF AIActions
<1>3. CASE j = 1
  <2>0. ~Led(s, k + 1)
    BY <1>1, <1>3
  <2>1. ~Led(u, p + 1)
    <3>1. CASE p = 0
      BY <3>1 DEF Led
    <3>2. CASE p # 0
      <4>1. p \in 1..p /\ p + 1 - 1 = p
        BY <1>1, <3>2
      <4>2. u[p].op \in {"reply", "enqueue"}
        BY <4>1 DEF Follows
      <4> QED BY <1>2, <4>1, <4>2 DEF Led
    <3> QED BY <3>1, <3>2
  <2> QED BY <1>1, <1>3, <2>0, <2>1 DEF Own
<1>4. CASE j # 1
  <2>1. j - 1 \in 1..(Len(s) - k) /\ p + j - 1 = p + (j - 1) /\ k + j - 1 = k + (j - 1) /\ p + j > 1
    BY <1>1, <1>4
  <2>2. u[p + (j - 1)] = s[k + (j - 1)]
    BY <2>1 DEF Follows
  <2>3. Led(u, p + j) <=> Led(s, k + j)
    BY <1>1, <2>1, <2>2 DEF Led
  <2> QED BY <1>1, <2>3 DEF Own
<1> QED BY <1>3, <1>4

(* Tasks that bring no original leave the others as they are.              *)
LEMMA FollowsOnce ==
  ASSUME NEW u, NEW s, NEW p, NEW k, Follows(u, s, p, k), k < Len(s) => ~Led(s, k + 1),
         \A i \in 1..p : u[i].op = "reply", NEW d
  PROVE  (Once(s, d) => Once(u, d)) /\ (None(s, d) => None(u, d))
<1>1. ASSUME NEW i \in 1..Len(u), Own(u, i, d)
      PROVE  \E j \in 1..(Len(s) - k) : i = p + j /\ k + j \in 1..Len(s) /\ Own(s, k + j, d)
  <2>1. i \notin 1..p
    BY <1>1 DEF Own, Brings
  <2>2. PICK j \in 1..(Len(s) - k) : i = p + j /\ k + j \in 1..Len(s)
    BY <2>1, FollowsPlaces
  <2>3. Own(s, k + j, d)
    BY <1>1, <2>2, FollowsOwn
  <2> QED BY <2>2, <2>3
<1>2. ASSUME Once(s, d), NEW i \in 1..Len(u), NEW l \in 1..Len(u), Own(u, i, d), Own(u, l, d)
      PROVE  i = l
  <2>1. PICK j \in 1..(Len(s) - k) : i = p + j /\ k + j \in 1..Len(s) /\ Own(s, k + j, d)
    BY <1>1, <1>2
  <2>2. PICK h \in 1..(Len(s) - k) : l = p + h /\ k + h \in 1..Len(s) /\ Own(s, k + h, d)
    BY <1>1, <1>2
  <2>3. k + j = k + h
    BY <1>2, <2>1, <2>2 DEF Once
  <2>4. k \in Nat /\ p \in Nat
    BY DEF Follows
  <2> QED BY <2>1, <2>2, <2>3, <2>4
<1>3. ASSUME None(s, d), NEW i \in 1..Len(u), Own(u, i, d) PROVE FALSE
  BY <1>1, <1>3 DEF None
<1> QED BY <1>2, <1>3 DEF Once, None

LEMMA FollowsComes ==
  ASSUME NEW u, NEW s, NEW p, NEW k, Follows(u, s, p, k), NEW parts, NEW d, Comes(s, parts, d),
         \A i \in 1..k : ~(s[i].part \in parts /\ Brings(s[i], d))
  PROVE  Comes(u, parts, d)
<1>1. PICK i \in 1..Len(s) : s[i].part \in parts /\ Brings(s[i], d)
  BY DEF Comes
<1>2. /\ i \notin 1..k /\ Len(s) \in Nat /\ k \in 1..Len(s) /\ p \in Nat
      /\ Len(u) = p + (Len(s) - k)
  BY <1>1, LenProperties DEF Follows
<1>3. i - k \in 1..(Len(s) - k) /\ k + (i - k) = i /\ p + (i - k) \in 1..Len(u)
  BY <1>2
<1>4. u[p + (i - k)] = s[k + (i - k)]
  BY <1>3 DEF Follows
<1>5. u[p + (i - k)] = s[i]
  BY <1>3, <1>4
<1> QED BY <1>1, <1>3, <1>5 DEF Comes

LEMMA TailFollows ==
  ASSUME NEW s \in Seq(Tasks), s # <<>>
  PROVE  Follows(Tail(s), s, 0, 1)
<1>1. /\ Tail(s) \in Seq(Tasks) /\ Len(Tail(s)) = Len(s) - 1 /\ Len(s) \in Nat /\ Len(s) >= 1
      /\ \A i \in 1..(Len(s) - 1) : Tail(s)[i] = s[i + 1]
  OBVIOUS
<1>2. \A i \in 1..(Len(s) - 1) : 0 + i = i /\ 1 + i = i + 1
  OBVIOUS
<1> QED BY <1>1, <1>2 DEF Follows

LEMMA ReplyFollows ==
  ASSUME NEW s \in Seq(Tasks), s # <<>>, NEW t \in Tasks, t.op = "reply"
  PROVE  /\ Follows(<<t>> \o Tail(s), s, 1, 1)
         /\ \A i \in 1..1 : (<<t>> \o Tail(s))[i].op = "reply"
<1>1. /\ Tail(s) \in Seq(Tasks) /\ Len(Tail(s)) = Len(s) - 1 /\ Len(s) \in Nat /\ Len(s) >= 1
      /\ \A i \in 1..(Len(s) - 1) : Tail(s)[i] = s[i + 1]
  OBVIOUS
<1>2. <<t>> \in Seq(Tasks) /\ Len(<<t>>) = 1 /\ <<t>>[1] = t
  OBVIOUS
<1>3. /\ <<t>> \o Tail(s) \in Seq(Tasks) /\ Len(<<t>> \o Tail(s)) = 1 + (Len(s) - 1)
      /\ (<<t>> \o Tail(s))[1] = t
      /\ \A i \in 1..(Len(s) - 1) : (<<t>> \o Tail(s))[1 + i] = Tail(s)[i]
  BY <1>1, <1>2, Joined
<1>4. PICK u \in Seq(Tasks) : u = <<t>> \o Tail(s)
  BY <1>3
<1>5. \A i \in 1..(Len(s) - 1) : u[1 + i] = s[1 + i]
  BY <1>1, <1>3, <1>4
<1> QED BY <1>1, <1>3, <1>4, <1>5 DEF Follows

LEMMA RestFollows ==
  ASSUME NEW s \in Seq(Tasks), NEW n \in 1..Len(s)
  PROVE  Follows(SubSeq(s, n + 1, Len(s)), s, 0, n)
<1>1. Len(s) \in Nat /\ n + 1 \in 1..(Len(s) + 1)
  OBVIOUS
<1>2. /\ SubSeq(s, n + 1, Len(s)) \in Seq(Tasks)
      /\ Len(SubSeq(s, n + 1, Len(s))) = Len(s) - n
      /\ \A i \in 1..(Len(s) - n) : SubSeq(s, n + 1, Len(s))[i] = s[n + i]
  BY <1>1, SubSeqProperties
<1>3. \A i \in 1..(Len(s) - n) : 0 + i = i
  OBVIOUS
<1> QED BY <1>1, <1>2, <1>3 DEF Follows

-----------------------------------------------------------------------------
(* The invariants of a call.                                               *)

OutRow == [mail : Mails, try : 1..MaxTries, fresh : BOOLEAN, action : Ops, rcpts : SUBSET Rcpts]
DispatchRow == [mail : Mails, try : 1..MaxTries, kind : {"rule", "authorized", "ai", "failsafe"}]

(* The rows are of tries that have begun, and the domains that stayed      *)
(* managed are managed.                                                    *)
RowsSound ==
  /\ outbound \in Seq(OutRow) /\ dispatch \in Seq(DispatchRow)
  /\ \A i \in 1..Len(outbound) : outbound[i].try <= sender[outbound[i].mail].tries
  /\ steady \in [Mails -> SUBSET Domains]
  /\ \A m \in Mails : steady[m] \subseteq routing

Fields == {"pc", "mail", "try", "fresh", "matched", "todo", "action", "done", "falsePositive",
           "rows", "aiRules", "swallowed"}
Runs == now.pc = "running"
IsCall(c) == /\ DOMAIN c = Fields /\ c.todo \in Seq(Tasks) /\ c.matched \in Seq(Rules)
             /\ c.aiRules \in Nat /\ c.fresh \in BOOLEAN
CallSound == Runs => IsCall(now) /\ Fits(now.todo, now.action)

(* The originals of one try among the rows q. *)
Copies(q, m, n, r) ==
  {i \in DOMAIN q : Of(q[i], m, n) /\ q[i].action = "default_delivery" /\ r \in q[i].rcpts}

(* Without AI rules and false positives: at most one original is queued or *)
(* still to come.                                                          *)
SingleOf(c, q) ==
  c.aiRules = 0 /\ ~c.falsePositive =>
     \A r \in Rcpts :
       /\ Once(c.todo, DomainOf[r])
       /\ Copies(q, c.mail, c.try, r) = {} \/ None(c.todo, DomainOf[r])
       /\ \A x, y \in Copies(q, c.mail, c.try, r) : x = y
Single == Runs => SingleOf(now, outbound)

Pending(c) == c.todo # <<>> /\ c.todo[1].op = c.action /\ c.action \in WinningOps
Comings(c, q, parts, rcpts, domains) ==
  \A r \in rcpts : DomainOf[r] \in domains =>
      Copies(q, c.mail, c.try, r) # {} \/ Comes(c.todo, parts, DomainOf[r])
Kept(c, q, held, asked) ==
  /\ c.action = "quarantine" => \E i \in DOMAIN held : Of(held[i], c.mail, c.try)
  /\ c.action = "create_ticket" =>
        \E i \in DOMAIN asked : Of(asked[i], c.mail, c.try) /\ asked[i].kind = "rule"
  /\ c.action = "create_authorized_ticket" /\ c.done =>
        \E i \in DOMAIN asked : Of(asked[i], c.mail, c.try) /\ asked[i].kind = "authorized"
  /\ c.action \in SendingActions /\ c.done =>
        \E i \in DOMAIN q : Of(q[i], c.mail, c.try) /\ q[i].action = c.action

(* What action_taken says has been done, or its task is still to come.     *)
PromisedOf(c, q, held, asked, rcpts, domains) ==
  \/ Pending(c)
  \/ /\ Kept(c, q, held, asked)
     /\ c.action \in {"default_delivery", "received_only"} => Comings(c, q, {"main"}, rcpts, domains)
     /\ c.action \in AIActions => c.swallowed \/ Comings(c, q, Parts, rcpts, domains)
Promised ==
  Runs => PromisedOf(now, outbound, quarantine, dispatch, sender[now.mail].rcpts, steady[now.mail])

CallInv == RowsSound /\ CallSound /\ Single /\ Promised

(* A task that queues no original is done.                                 *)
LEMMA Onward ==
  ASSUME NEW c, NEW d, NEW q, NEW q2, NEW held, NEW held2, NEW asked, NEW asked2,
         NEW rcpts, NEW domains, NEW p,
         d.mail = c.mail, d.try = c.try, d.action = c.action,
         Fits(c.todo, c.action), Follows(d.todo, c.todo, p, 1), \A i \in 1..p : d.todo[i].op = "reply",
         c.todo[1].op \notin {"default_delivery", "enqueue"},
         \A r \in Rcpts : Copies(q2, c.mail, c.try, r) = Copies(q, c.mail, c.try, r),
         rcpts \subseteq Rcpts,
         d.aiRules = 0 => c.aiRules = 0 /\ c.todo[1].op \notin AIActions,
         c.falsePositive => d.falsePositive, c.swallowed => d.swallowed,
         Kept(c, q, held, asked) \/ c.todo[1].op \in WinningOps => Kept(d, q2, held2, asked2),
         SingleOf(c, q), PromisedOf(c, q, held, asked, rcpts, domains)
  PROVE  /\ Fits(d.todo, d.action) /\ SingleOf(d, q2)
         /\ PromisedOf(d, q2, held2, asked2, rcpts, domains)
<1>1. c.todo \in Seq(Tasks) /\ 1 \in 1..Len(c.todo)
  BY LenProperties DEF Follows
<1>2. Fits(d.todo, d.action)
  BY FollowsFits
<1>3. SingleOf(d, q2)
  <2>1. SUFFICES ASSUME d.aiRules = 0, ~d.falsePositive, NEW r \in Rcpts
                 PROVE  /\ Once(d.todo, DomainOf[r])
                        /\ Copies(q2, d.mail, d.try, r) = {} \/ None(d.todo, DomainOf[r])
                        /\ \A x, y \in Copies(q2, d.mail, d.try, r) : x = y
    BY DEF SingleOf
  <2>2. /\ Once(c.todo, DomainOf[r])
        /\ Copies(q, c.mail, c.try, r) = {} \/ None(c.todo, DomainOf[r])
        /\ \A x, y \in Copies(q, c.mail, c.try, r) : x = y
    BY <2>1 DEF SingleOf
  <2>3. ~Led(c.todo, 1 + 1)
    BY <2>1 DEF Led
  <2>4. /\ Once(c.todo, DomainOf[r]) => Once(d.todo, DomainOf[r])
        /\ None(c.todo, DomainOf[r]) => None(d.todo, DomainOf[r])
    BY <2>3, FollowsOnce
  <2> QED BY <2>2, <2>4
<1>4. PromisedOf(d, q2, held2, asked2, rcpts, domains)
  <2>1. CASE c.todo[1].op \in WinningOps
    <3>1. c.action \in WinningOps
      BY <1>1, <2>1 DEF Fits
    <3>2. c.action \notin AIActions \cup {"default_delivery", "received_only"}
      BY <3>1 DEF AIActions, WinningOps, SendingActions, TicketActions
    <3> QED BY <2>1, <3>2 DEF PromisedOf
  <2>2. CASE c.todo[1].op \notin WinningOps
    <3>1. ~Pending(c)
      BY <2>2 DEF Pending
    <3>2. Kept(d, q2, held2, asked2)
      BY <3>1 DEF PromisedOf
    <3>3. ASSUME NEW parts, Comings(c, q, parts, rcpts, domains)
          PROVE  Comings(d, q2, parts, rcpts, domains)
      <4>1. SUFFICES ASSUME NEW r \in rcpts, DomainOf[r] \in domains, Copies(q2, d.mail, d.try, r) = {}
                     PROVE  Comes(d.todo, parts, DomainOf[r])
        BY DEF Comings
      <4>2. Comes(c.todo, parts, DomainOf[r])
        BY <3>3, <4>1 DEF Comings
      <4>3. \A i \in 1..1 : ~(c.todo[i].part \in parts /\ Brings(c.todo[i], DomainOf[r]))
        BY DEF Brings
      <4> QED BY <4>2, <4>3, FollowsComes
    <3> QED BY <3>1, <3>2, <3>3 DEF PromisedOf
  <2> QED BY <2>1, <2>2
<1> QED BY <1>2, <1>3, <1>4

LEMMA ActionKinds ==
  /\ AIActions \cap WinningOps = {}
  /\ {"default_delivery", "received_only"} \cap (AIActions \cup WinningOps) = {}
  /\ {"enqueue", "evaluate_again"} \cap (AIActions \cup WinningOps) = {}
BY DEF AIActions, WinningOps, SendingActions, TicketActions

LEMMA KeptElse ==
  ASSUME NEW c, NEW q, NEW held, NEW asked, c.action \notin WinningOps
  PROVE  Kept(c, q, held, asked)
BY DEF Kept, WinningOps, TicketActions

(* A call begins, or its rules have been evaluated again. *)
LEMMA Started ==
  ASSUME NEW d, NEW q, NEW held, NEW asked, NEW rcpts \in SUBSET Rcpts, NEW domains,
         Begun(d.todo, d.action), d.action # "received_only",
         d.falsePositive \/ \A r \in Rcpts : Copies(q, d.mail, d.try, r) = {}
  PROVE  /\ Fits(d.todo, d.action) /\ SingleOf(d, q)
         /\ PromisedOf(d, q, held, asked, rcpts, domains)
<1>1. \A r \in Rcpts : DomainOf[r] \in Domains
  BY PipelineAssumption
<1>2. Fits(d.todo, d.action)
  BY DEF Begun
<1>3. SingleOf(d, q)
  BY <1>1 DEF SingleOf, Begun
<1>4. PromisedOf(d, q, held, asked, rcpts, domains)
  <2>1. CASE d.action \in WinningOps
    BY <2>1 DEF Begun, PromisedOf, Pending
  <2>2. CASE d.action \notin WinningOps
    <3>1. Kept(d, q, held, asked)
      BY <2>2, KeptElse
    <3>2. d.action \in {"default_delivery", "received_only"} => Comings(d, q, {"main"}, rcpts, domains)
      BY <1>1 DEF Begun, Comings
    <3>3. d.action \in AIActions => Comings(d, q, Parts, rcpts, domains)
      BY <1>1 DEF Begun, Comings
    <3> QED BY <3>1, <3>2, <3>3 DEF PromisedOf
  <2> QED BY <2>1, <2>2
<1> QED BY <1>2, <1>3, <1>4

(* A set in the order that SetToSeq gives it. *)
LEMMA Listed ==
  ASSUME NEW S, IsFiniteSet(S)
  PROVE  /\ Cardinality(S) \in Nat /\ SetToSeq(S) \in [1..Cardinality(S) -> S]
         /\ \A i, j \in 1..Cardinality(S) : SetToSeq(S)[i] = SetToSeq(S)[j] => i = j
         /\ \A x \in S : \E i \in 1..Cardinality(S) : SetToSeq(S)[i] = x
<1>1. Cardinality(S) \in Nat /\ ExistsBijection(1..Cardinality(S), S)
  BY FS_CardinalityType
<1>2. PICK n \in Nat : n = Cardinality(S)
  BY <1>1
<1>3. PICK g \in [1..n -> S] : IsInjective(g)
  BY <1>1, <1>2 DEF ExistsBijection, Bijection, Injection
<1>4. SetToSeq(S) \in [1..n -> S] /\ IsInjective(SetToSeq(S))
  BY <1>2, <1>3 DEF SetToSeq
<1>5. PICK f \in [1..n -> S] : f = SetToSeq(S) /\ IsInjective(f)
  BY <1>4
<1>6. f \in Injection(1..n, S)
  BY <1>5 DEF Injection
<1>7. Cardinality(1..n) = n
  BY FS_Interval
<1>8. f \in Surjection(1..n, S)
  BY <1>2, <1>6, <1>7, FS_Injection
<1>9. \A x \in S : \E i \in 1..n : f[i] = x
  BY <1>8 DEF Surjection
<1>10. \A i, j \in 1..n : f[i] = f[j] => i = j
  BY <1>5 DEF IsInjective
<1> QED BY <1>2, <1>5, <1>9, <1>10

(* The tasks of an original delivery: one per domain. *)
Parcels(t, S) ==
  [i \in 1..Cardinality(S) |-> [op |-> "enqueue", rule |-> t.rule, part |-> t.part,
                                domain |-> SetToSeq(S)[i]]]

Delivers(u, s, S) ==
  /\ Follows(u, s, Cardinality(S), 1)
  /\ \A i \in 1..Cardinality(S) : u[i].op = "enqueue" /\ u[i].part = s[1].part
  /\ \A i, j \in 1..Cardinality(S) : u[i].domain = u[j].domain => i = j
  /\ \A x \in S : \E i \in 1..Cardinality(S) : u[i].domain = x

LEMMA DeliveryFollows ==
  ASSUME NEW s \in Seq(Tasks), s # <<>>, s[1].op = "default_delivery",
         NEW S \in SUBSET Domains
  PROVE  Delivers(Parcels(s[1], S) \o Tail(s), s, S)
<1>1. IsFiniteSet(S)
  BY PipelineAssumption, FS_Subset
<1>a. PICK n \in Nat : n = Cardinality(S)
  BY <1>1, Listed
<1>b. PICK f \in [1..n -> S] : f = SetToSeq(S)
  BY <1>1, <1>a, Listed
<1>2. /\ n = Cardinality(S) /\ f = SetToSeq(S)
      /\ \A i, j \in 1..n : f[i] = f[j] => i = j
      /\ \A x \in S : \E i \in 1..n : f[i] = x
  BY <1>1, <1>a, <1>b, Listed
<1>3. PICK t \in Tasks : t = s[1] /\ t.op = "default_delivery"
  OBVIOUS
<1>4. PICK v : v = [i \in 1..n |-> [op |-> "enqueue", rule |-> t.rule, part |-> t.part, domain |-> f[i]]]
  OBVIOUS
<1>5. Parcels(s[1], S) = v
  BY <1>2, <1>3, <1>4 DEF Parcels
<1>6. ASSUME NEW i \in 1..n
      PROVE  /\ v[i] \in Tasks /\ v[i].op = "enqueue" /\ v[i].rule = t.rule /\ v[i].part = t.part
             /\ v[i].domain = f[i]
  BY <1>2, <1>3, <1>4, Kinds DEF Tasks
<1>7. v \in Seq(Tasks) /\ Len(v) = n
  BY <1>4, <1>6
<1>8. PICK w \in Seq(Tasks) : /\ w = Tail(s) /\ Len(w) = Len(s) - 1 /\ Len(s) \in Nat /\ Len(s) >= 1
                               /\ \A i \in 1..(Len(s) - 1) : w[i] = s[i + 1]
  <2>1. /\ Tail(s) \in Seq(Tasks) /\ Len(Tail(s)) = Len(s) - 1 /\ Len(s) \in Nat /\ Len(s) >= 1
        /\ \A i \in 1..(Len(s) - 1) : Tail(s)[i] = s[i + 1]
    OBVIOUS
  <2> QED BY <2>1
<1>9. v \o w \in Seq(Tasks)
  BY <1>7, <1>8, Joined
<1>10. PICK u \in Seq(Tasks) : u = v \o w
  BY <1>9
<1>11. /\ Len(u) = n + (Len(s) - 1)
       /\ \A i \in 1..n : u[i] = v[i]
       /\ \A i \in 1..(Len(s) - 1) : u[n + i] = w[i]
  <2>1. Len(u) = Len(v) + Len(w)
    BY <1>7, <1>10, Joined
  <2>2. \A i \in 1..Len(v) : u[i] = v[i]
    BY <1>7, <1>10, Joined
  <2>3. ASSUME NEW i \in 1..Len(w) PROVE u[Len(v) + i] = w[i]
    <3>1. (v \o w)[Len(v) + i] = w[i]
      BY ONLY <1>7, <1>8, i \in 1..Len(w), Joined
    <3> QED BY <1>10, <3>1, Zenon
  <2> QED BY <1>7, <1>8, <2>1, <2>2, <2>3
<1>12. \A i \in 1..(Len(s) - 1) : u[n + i] = s[1 + i]
  BY <1>8, <1>11
<1>13. \A i \in 1..n : /\ u[i].op = "enqueue" /\ u[i].part = s[1].part /\ u[i].rule = s[1].rule
                       /\ u[i].domain = f[i]
  BY <1>3, <1>6, <1>11
<1>14. Follows(u, s, n, 1)
  BY <1>3, <1>8, <1>11, <1>12, <1>13 DEF Follows
<1>15. /\ \A i, j \in 1..n : u[i].domain = u[j].domain => i = j
       /\ \A x \in S : \E i \in 1..n : u[i].domain = x
  <2>1. ASSUME NEW i \in 1..n, NEW j \in 1..n, u[i].domain = u[j].domain PROVE i = j
    <3>1. f[i] = f[j]
      BY <1>13, <2>1
    <3> QED BY <1>2, <3>1
  <2>2. ASSUME NEW x \in S PROVE \E i \in 1..n : u[i].domain = x
    BY <1>2, <1>13
  <2> QED BY <2>1, <2>2
<1>16. Delivers(u, s, S)
  BY <1>2, <1>13, <1>14, <1>15 DEF Delivers
<1> QED BY <1>5, <1>8, <1>10, <1>16

DomainsIn(rcpts, managed) == {DomainOf[r] : r \in rcpts} \cap managed
DeliveredAs(c, S) == IF c.todo[1].part = "main" /\ S = {} THEN "received_only" ELSE c.action

LEMMA Delivered ==
  ASSUME NEW c, NEW d, NEW q, NEW held, NEW asked, NEW rcpts \in SUBSET Rcpts,
         NEW domains, NEW managed, domains \subseteq managed,
         NEW S, S = DomainsIn(rcpts, managed), Cardinality(S) \in Nat,
         d.mail = c.mail, d.try = c.try, d.aiRules = c.aiRules, d.falsePositive = c.falsePositive,
         d.done = c.done, d.swallowed = c.swallowed,
         c.todo[1].op = "default_delivery", Delivers(d.todo, c.todo, S),
         d.action = DeliveredAs(c, S),
         Fits(c.todo, c.action), SingleOf(c, q), PromisedOf(c, q, held, asked, rcpts, domains)
  PROVE  /\ Fits(d.todo, d.action) /\ SingleOf(d, q)
         /\ PromisedOf(d, q, held, asked, rcpts, domains)
<1> DEFINE p == Cardinality(S)
           s == c.todo
           u == d.todo
<1>0. /\ S = {DomainOf[r] : r \in rcpts} \cap managed
      /\ d.action = IF s[1].part = "main" /\ S = {} THEN "received_only" ELSE c.action
  BY DEF DomainsIn, DeliveredAs
<1>1. /\ Follows(u, s, p, 1) /\ s \in Seq(Tasks) /\ 1 \in 1..Len(s) /\ Len(s) \in Nat
      /\ p \in Nat /\ Len(u) = p + (Len(s) - 1)
  BY LenProperties DEF Delivers, Follows
<1>a. \A i \in 1..p : i \in 1..Len(u)
  BY <1>1
<1>2. /\ Fits(u, c.action) /\ \A i \in 1..Len(u) : u[i].op \notin WinningOps
  BY <1>1, FollowsFits
<1>3. s[1].part = "main" => c.action \in {"default_delivery", "received_only"}
  BY <1>1 DEF Fits
<1>4. Fits(u, d.action)
  <2>1. CASE d.action = c.action
    BY <1>2, <2>1
  <2>2. CASE d.action # c.action
    <3>1. d.action = "received_only" /\ c.action = "default_delivery"
      BY <1>0, <1>3, <2>2
    <3> QED BY <1>2, <3>1 DEF Fits
  <2> QED BY <2>1, <2>2
<1>5. ~Led(s, 1 + 1)
  BY ActionKinds DEF Led
<1>6. SingleOf(d, q)
  <2>1. SUFFICES ASSUME d.aiRules = 0, ~d.falsePositive, NEW r \in Rcpts
                 PROVE  /\ Once(u, DomainOf[r])
                        /\ Copies(q, d.mail, d.try, r) = {} \/ None(u, DomainOf[r])
                        /\ \A x, y \in Copies(q, d.mail, d.try, r) : x = y
    BY DEF SingleOf
  <2>2. /\ Once(s, DomainOf[r])
        /\ Copies(q, c.mail, c.try, r) = {} \/ None(s, DomainOf[r])
    BY <2>1 DEF SingleOf
  <2>3. Own(s, 1, DomainOf[r])
    BY DEF Own, Brings, Led
  <2>4. Copies(q, c.mail, c.try, r) = {}
    BY <1>1, <2>2, <2>3 DEF None
  <2>5. ASSUME NEW i \in 1..Len(u), Own(u, i, DomainOf[r])
        PROVE  i \in 1..p /\ u[i].domain = DomainOf[r]
    <3>1. CASE i \in 1..p
      <4>1. u[i].op = "enqueue"
        BY <3>1 DEF Delivers
      <4> QED BY <2>5, <3>1, <4>1 DEF Own, Brings
    <3>2. ASSUME i \notin 1..p PROVE FALSE
      <4> DEFINE j == i - p
      <4>0. j \in 1..(Len(s) - 1) /\ i = p + j /\ 1 + j \in 1..Len(s) /\ 1 + j > 1
        BY <1>1, <3>2
      <4> HIDE DEF j
      <4>1. Own(s, 1 + j, DomainOf[r])
        BY <1>1, <1>5, <2>5, <4>0, FollowsOwn
      <4>2. 1 + j = 1
        BY <1>1, <2>2, <2>3, <4>0, <4>1 DEF Once
      <4> QED BY <4>0, <4>2
    <3> QED BY <3>1, <3>2
  <2>6. Once(u, DomainOf[r])
    BY <2>5 DEF Once, Delivers
  <2> QED BY <2>4, <2>6
<1>7. PromisedOf(d, q, held, asked, rcpts, domains)
  <2>1. ~Pending(c)
    BY ActionKinds DEF Pending
  <2>2. ASSUME NEW parts, Comings(c, q, parts, rcpts, domains)
        PROVE  Comings(d, q, parts, rcpts, domains)
    <3>1. SUFFICES ASSUME NEW r \in rcpts, DomainOf[r] \in domains, Copies(q, d.mail, d.try, r) = {}
                   PROVE  Comes(u, parts, DomainOf[r])
      BY DEF Comings
    <3>2. Comes(s, parts, DomainOf[r])
      BY <2>2, <3>1 DEF Comings
    <3>3. CASE s[1].part \in parts
      <4>1. DomainOf[r] \in S
        BY <1>0, <3>1
      <4>2. PICK i \in 1..p : u[i].domain = DomainOf[r]
        BY <4>1 DEF Delivers
      <4>3. i \in 1..Len(u) /\ u[i].op = "enqueue" /\ u[i].part \in parts
        BY <1>a, <3>3 DEF Delivers
      <4> QED BY <4>2, <4>3 DEF Comes, Brings
    <3>4. CASE s[1].part \notin parts
      <4>1. \A i \in 1..1 : ~(s[i].part \in parts /\ Brings(s[i], DomainOf[r]))
        BY <3>4
      <4> QED BY <1>1, <3>2, <4>1, FollowsComes
    <3> QED BY <3>3, <3>4
  <2>3. CASE d.action = c.action
    <3>1. Kept(c, q, held, asked) => Kept(d, q, held, asked)
      BY <2>3 DEF Kept
    <3> QED BY <2>1, <2>2, <2>3, <3>1 DEF PromisedOf
  <2>4. CASE d.action # c.action
    <3>1. d.action = "received_only" /\ c.action = "default_delivery"
      BY <1>0, <1>3, <2>4
    <3>2. Kept(d, q, held, asked)
      BY <3>1, KeptElse, ActionKinds
    <3>3. Comings(c, q, {"main"}, rcpts, domains)
      BY <2>1, <3>1 DEF PromisedOf
    <3> QED BY <2>2, <3>1, <3>2, <3>3, ActionKinds DEF PromisedOf
  <2> QED BY <2>3, <2>4
<1> QED BY <1>4, <1>6, <1>7

(* The row of a domain is queued, unless it is no longer managed.          *)
Rowed(c, q, q2, rcpts, managed, x) ==
  \A r \in Rcpts :
     /\ Copies(q, c.mail, c.try, r) \subseteq Copies(q2, c.mail, c.try, r)
     /\ Copies(q2, c.mail, c.try, r) \subseteq Copies(q, c.mail, c.try, r) \cup {x}
     /\ DomainOf[r] # c.todo[1].domain =>
           Copies(q2, c.mail, c.try, r) = Copies(q, c.mail, c.try, r)
     /\ r \in rcpts /\ DomainOf[r] = c.todo[1].domain /\ DomainOf[r] \in managed =>
           Copies(q2, c.mail, c.try, r) # {}

LEMMA Enqueued ==
  ASSUME NEW c, NEW d, NEW q, NEW q2, NEW held, NEW asked, NEW rcpts \in SUBSET Rcpts,
         NEW domains, NEW managed, domains \subseteq managed, NEW x,
         d.mail = c.mail, d.try = c.try, d.action = c.action, d.aiRules = c.aiRules,
         d.falsePositive = c.falsePositive, d.done = c.done, d.swallowed = c.swallowed,
         c.todo[1].op = "enqueue", Follows(d.todo, c.todo, 0, 1),
         Rowed(c, q, q2, rcpts, managed, x),
         Kept(c, q, held, asked) => Kept(d, q2, held, asked),
         Fits(c.todo, c.action), SingleOf(c, q), PromisedOf(c, q, held, asked, rcpts, domains)
  PROVE  /\ Fits(d.todo, d.action) /\ SingleOf(d, q2)
         /\ PromisedOf(d, q2, held, asked, rcpts, domains)
<1> DEFINE s == c.todo
           u == d.todo
<1>0. \A r \in Rcpts :
        /\ Copies(q, c.mail, c.try, r) \subseteq Copies(q2, c.mail, c.try, r)
        /\ Copies(q2, c.mail, c.try, r) \subseteq Copies(q, c.mail, c.try, r) \cup {x}
        /\ DomainOf[r] # c.todo[1].domain =>
              Copies(q2, c.mail, c.try, r) = Copies(q, c.mail, c.try, r)
        /\ r \in rcpts /\ DomainOf[r] = c.todo[1].domain /\ DomainOf[r] \in managed =>
              Copies(q2, c.mail, c.try, r) # {}
  BY DEF Rowed
<1>1. s \in Seq(Tasks) /\ 1 \in 1..Len(s) /\ Len(s) \in Nat
  BY LenProperties DEF Follows
<1>2. Fits(u, d.action)
  BY FollowsFits
<1>3. ~Led(s, 1 + 1)
  BY ActionKinds DEF Led
<1>4. \A i \in 1..0 : u[i].op = "reply"
  OBVIOUS
<1>5. SingleOf(d, q2)
  <2>1. SUFFICES ASSUME d.aiRules = 0, ~d.falsePositive, NEW r \in Rcpts
                 PROVE  /\ Once(u, DomainOf[r])
                        /\ Copies(q2, d.mail, d.try, r) = {} \/ None(u, DomainOf[r])
                        /\ \A y, z \in Copies(q2, d.mail, d.try, r) : y = z
    BY DEF SingleOf
  <2>2. /\ Once(s, DomainOf[r])
        /\ Copies(q, c.mail, c.try, r) = {} \/ None(s, DomainOf[r])
        /\ \A y, z \in Copies(q, c.mail, c.try, r) : y = z
    BY <2>1 DEF SingleOf
  <2>3. /\ Once(s, DomainOf[r]) => Once(u, DomainOf[r])
        /\ None(s, DomainOf[r]) => None(u, DomainOf[r])
    BY <1>3, <1>4, FollowsOnce
  <2>4. CASE DomainOf[r] # s[1].domain
    BY <1>0, <2>2, <2>3, <2>4
  <2>5. CASE DomainOf[r] = s[1].domain
    <3>1. Own(s, 1, DomainOf[r])
      BY <2>5 DEF Own, Brings, Led
    <3>2. Copies(q, c.mail, c.try, r) = {}
      BY <1>1, <2>2, <3>1 DEF None
    <3>3. ASSUME NEW i \in 1..Len(u), Own(u, i, DomainOf[r]) PROVE FALSE
      <4>1. i \in 1..(Len(s) - 1) /\ 0 + i = i /\ 1 + i \in 1..Len(s) /\ i \in Nat
        BY <1>1 DEF Follows
      <4>2. Own(u, 0 + i, DomainOf[r]) <=> Own(s, 1 + i, DomainOf[r])
        BY <1>3, <4>1, FollowsOwn
      <4>3. 1 + i = 1
        BY <1>1, <2>2, <3>1, <3>3, <4>1, <4>2 DEF Once
      <4> QED BY <4>1, <4>3
    <3>4. None(u, DomainOf[r])
      BY <3>3 DEF None
    <3> QED BY <1>0, <2>2, <2>3, <3>2, <3>4
  <2> QED BY <2>4, <2>5
<1>6. PromisedOf(d, q2, held, asked, rcpts, domains)
  <2>1. ~Pending(c)
    BY ActionKinds DEF Pending
  <2>2. ASSUME NEW parts, Comings(c, q, parts, rcpts, domains)
        PROVE  Comings(d, q2, parts, rcpts, domains)
    <3>1. SUFFICES ASSUME NEW r \in rcpts, DomainOf[r] \in domains, Copies(q2, d.mail, d.try, r) = {}
                   PROVE  Comes(u, parts, DomainOf[r])
      BY DEF Comings
    <3>2. DomainOf[r] # s[1].domain /\ Copies(q, c.mail, c.try, r) = {}
      BY <1>0, <3>1
    <3>3. Comes(s, parts, DomainOf[r])
      BY <2>2, <3>1, <3>2 DEF Comings
    <3>4. \A i \in 1..1 : ~(s[i].part \in parts /\ Brings(s[i], DomainOf[r]))
      BY <3>2 DEF Brings
    <3> QED BY <3>3, <3>4, FollowsComes
  <2> QED BY <2>1, <2>2 DEF PromisedOf
<1> QED BY <1>2, <1>5, <1>6

(* An except clause gives up a block of tasks.                             *)
LEMMA Dropped ==
  ASSUME NEW c, NEW d, NEW q, NEW held, NEW asked, NEW rcpts, NEW domains, NEW n,
         d.mail = c.mail, d.try = c.try, d.action = c.action, d.aiRules = c.aiRules,
         d.falsePositive = c.falsePositive, d.done = c.done, d.swallowed,
         Follows(d.todo, c.todo, 0, n), Swallowed(c.todo[1]),
         \A i \in 1..n : GivenUp(c.todo[1], c.todo[i]),
         n < Len(c.todo) => ~GivenUp(c.todo[1], c.todo[n + 1]),
         Fits(c.todo, c.action), SingleOf(c, q), PromisedOf(c, q, held, asked, rcpts, domains)
  PROVE  /\ Fits(d.todo, d.action) /\ SingleOf(d, q)
         /\ PromisedOf(d, q, held, asked, rcpts, domains)
<1> DEFINE s == c.todo
           u == d.todo
<1>1. s \in Seq(Tasks) /\ 1 \in 1..Len(s) /\ Len(s) \in Nat /\ n \in 1..Len(s)
  BY LenProperties DEF Follows
<1>2. Fits(u, d.action)
  BY FollowsFits
<1>3. n < Len(s) => ~Led(s, n + 1)
  <2>1. SUFFICES ASSUME n < Len(s), Led(s, n + 1) PROVE FALSE
    OBVIOUS
  <2>2. n + 1 - 1 = n /\ n \in 1..n
    BY <1>1
  <2>3. s[n].part = "main" /\ s[n].rule = s[n + 1].rule
    BY <2>1, <2>2 DEF Led
  <2>4. s[n].rule = s[1].rule /\ s[1].part = "main"
    BY <2>2, <2>3 DEF GivenUp
  <2>5. GivenUp(s[1], s[n + 1])
    BY <2>3, <2>4 DEF GivenUp
  <2> QED BY <2>1, <2>5
<1>4. \A i \in 1..0 : u[i].op = "reply"
  OBVIOUS
<1>5. SingleOf(d, q)
  BY <1>3, <1>4, FollowsOnce DEF SingleOf
<1>6. ASSUME NEW i \in 1..n, s[i].part = "main" PROVE s[i].rule > 1
  <2>1. GivenUp(s[1], s[i])
    OBVIOUS
  <2>2. s[1].part = "main" /\ s[i].rule = s[1].rule
    BY <1>6, <2>1 DEF GivenUp
  <2> QED BY <2>2 DEF Swallowed
<1>7. PromisedOf(d, q, held, asked, rcpts, domains)
  <2>1. ~Pending(c)
    <3>1. SUFFICES ASSUME s[1].op \in WinningOps PROVE FALSE
      BY DEF Pending
    <3>2. s[1].part = "main" /\ s[1].rule = 1
      BY <1>1, <3>1 DEF Fits
    <3> QED BY <3>2 DEF Swallowed
  <2>2. ASSUME Comings(c, q, {"main"}, rcpts, domains)
        PROVE  Comings(d, q, {"main"}, rcpts, domains)
    <3>1. SUFFICES ASSUME NEW r \in rcpts, DomainOf[r] \in domains, Copies(q, d.mail, d.try, r) = {}
                   PROVE  Comes(u, {"main"}, DomainOf[r])
      BY DEF Comings
    <3>2. Comes(s, {"main"}, DomainOf[r])
      BY <2>2, <3>1 DEF Comings
    <3>3. \A i \in 1..n : ~(s[i].part \in {"main"} /\ Brings(s[i], DomainOf[r]))
      <4>1. SUFFICES ASSUME NEW i \in 1..n, s[i].part = "main", Brings(s[i], DomainOf[r])
                     PROVE  FALSE
        OBVIOUS
      <4>2. s[i].op \in {"default_delivery", "enqueue"} /\ i \in 1..Len(s)
        BY <1>1, <4>1 DEF Brings
      <4>3. s[i].rule = 1
        BY <4>1, <4>2 DEF Fits
      <4> QED BY <1>6, <4>1, <4>3
    <3> QED BY <3>2, <3>3, FollowsComes
  <2>3. Kept(c, q, held, asked) => Kept(d, q, held, asked)
    BY DEF Kept
  <2> QED BY <2>1, <2>2, <2>3 DEF PromisedOf
<1> QED BY <1>2, <1>5, <1>7

-----------------------------------------------------------------------------
(* The steps of a call.                                                    *)

(* What every task leaves alone. *)
Goes(c, d) ==
  /\ DOMAIN d = DOMAIN c /\ d.pc = c.pc /\ d.mail = c.mail /\ d.try = c.try /\ d.matched = c.matched
  /\ d.fresh = c.fresh

LEMMA SetTodo ==
  ASSUME NEW c, DOMAIN c = Fields, NEW t, NEW d, d = [c EXCEPT !.todo = t]
  PROVE  /\ Goes(c, d) /\ d.todo = t /\ d.action = c.action /\ d.done = c.done
         /\ d.falsePositive = c.falsePositive /\ d.aiRules = c.aiRules /\ d.swallowed = c.swallowed
BY DEF Goes, Fields

LEMMA SetRows ==
  ASSUME NEW c, DOMAIN c = Fields, NEW t, NEW x, NEW d, d = [c EXCEPT !.todo = t, !.rows = x]
  PROVE  /\ Goes(c, d) /\ d.todo = t /\ d.action = c.action /\ d.done = c.done
         /\ d.falsePositive = c.falsePositive /\ d.aiRules = c.aiRules /\ d.swallowed = c.swallowed
BY DEF Goes, Fields

LEMMA SetDone ==
  ASSUME NEW c, DOMAIN c = Fields, NEW t, NEW x, NEW d, d = [c EXCEPT !.todo = t, !.done = x]
  PROVE  /\ Goes(c, d) /\ d.todo = t /\ d.action = c.action /\ d.done = x
         /\ d.falsePositive = c.falsePositive /\ d.aiRules = c.aiRules /\ d.swallowed = c.swallowed
BY DEF Goes, Fields

LEMMA SetFalse ==
  ASSUME NEW c, DOMAIN c = Fields, NEW t, NEW x, NEW y, NEW d,
         d = [c EXCEPT !.todo = t, !.done = x, !.falsePositive = y]
  PROVE  /\ Goes(c, d) /\ d.todo = t /\ d.action = c.action /\ d.done = x
         /\ d.falsePositive = y /\ d.aiRules = c.aiRules /\ d.swallowed = c.swallowed
BY DEF Goes, Fields

LEMMA SetRules ==
  ASSUME NEW c, DOMAIN c = Fields, NEW t, NEW x, NEW d, d = [c EXCEPT !.todo = t, !.aiRules = x]
  PROVE  /\ Goes(c, d) /\ d.todo = t /\ d.action = c.action /\ d.done = c.done
         /\ d.falsePositive = c.falsePositive /\ d.aiRules = x /\ d.swallowed = c.swallowed
BY DEF Goes, Fields

LEMMA SetAction ==
  ASSUME NEW c, DOMAIN c = Fields, NEW t, NEW x, NEW d, d = [c EXCEPT !.todo = t, !.action = x]
  PROVE  /\ Goes(c, d) /\ d.todo = t /\ d.action = x /\ d.done = c.done
         /\ d.falsePositive = c.falsePositive /\ d.aiRules = c.aiRules /\ d.swallowed = c.swallowed
BY DEF Goes, Fields

LEMMA SetAgain ==
  ASSUME NEW c, DOMAIN c = Fields, NEW t, NEW x, NEW y, NEW d,
         d = [c EXCEPT !.todo = t, !.action = x, !.done = y]
  PROVE  /\ Goes(c, d) /\ d.todo = t /\ d.action = x /\ d.done = y
         /\ d.falsePositive = c.falsePositive /\ d.aiRules = c.aiRules /\ d.swallowed = c.swallowed
BY DEF Goes, Fields

LEMMA SetSwallowed ==
  ASSUME NEW c, DOMAIN c = Fields, NEW t, NEW x, NEW d, d = [c EXCEPT !.todo = t, !.swallowed = x]
  PROVE  /\ Goes(c, d) /\ d.todo = t /\ d.action = c.action /\ d.done = c.done
         /\ d.falsePositive = c.falsePositive /\ d.aiRules = c.aiRules /\ d.swallowed = x
BY DEF Goes, Fields

(* A table grows, or its rows are marked. *)
Reaches(q, q2) ==
  /\ DOMAIN q \subseteq DOMAIN q2
  /\ \A i \in DOMAIN q : q2[i].mail = q[i].mail /\ q2[i].try = q[i].try
Same(q, q2, field) == \A i \in DOMAIN q : q2[i][field] = q[i][field]

LEMMA KeptMore ==
  ASSUME NEW c, NEW d, d.mail = c.mail, d.try = c.try, d.action = c.action, d.done = c.done,
         NEW q, NEW q2, Reaches(q, q2), Same(q, q2, "action"),
         NEW held, NEW asked, NEW asked2, Reaches(asked, asked2), Same(asked, asked2, "kind"),
         Kept(c, q, held, asked)
  PROVE  Kept(d, q2, held, asked2)
<1>1. /\ \A i \in DOMAIN q : i \in DOMAIN q2 /\ q2[i].action = q[i].action
                             /\ (Of(q2[i], c.mail, c.try) <=> Of(q[i], c.mail, c.try))
      /\ \A i \in DOMAIN asked : i \in DOMAIN asked2 /\ asked2[i].kind = asked[i].kind
                             /\ (Of(asked2[i], c.mail, c.try) <=> Of(asked[i], c.mail, c.try))
  BY DEF Reaches, Same, Of
<1>2. d.action = "create_ticket" =>
        \E i \in DOMAIN asked2 : Of(asked2[i], d.mail, d.try) /\ asked2[i].kind = "rule"
  BY <1>1 DEF Kept
<1>3. d.action = "create_authorized_ticket" /\ d.done =>
        \E i \in DOMAIN asked2 : Of(asked2[i], d.mail, d.try) /\ asked2[i].kind = "authorized"
  BY <1>1 DEF Kept
<1>4. d.action \in SendingActions /\ d.done =>
        \E i \in DOMAIN q2 : Of(q2[i], d.mail, d.try) /\ q2[i].action = d.action
  BY <1>1 DEF Kept
<1> QED BY <1>2, <1>3, <1>4 DEF Kept

LEMMA SameReaches == ASSUME NEW q PROVE Reaches(q, q) /\ \A field : Same(q, q, field)
BY DEF Reaches, Same

LEMMA AppendReaches ==
  ASSUME NEW S, NEW q \in Seq(S), NEW row \in S
  PROVE  /\ Append(q, row) \in Seq(S) /\ Reaches(q, Append(q, row))
         /\ \A field : Same(q, Append(q, row), field)
         /\ Len(q) + 1 \in DOMAIN Append(q, row) /\ Append(q, row)[Len(q) + 1] = row
         /\ DOMAIN Append(q, row) = DOMAIN q \cup {Len(q) + 1}
         /\ \A i \in DOMAIN q : Append(q, row)[i] = q[i]
<1>a. Append(q, row) \in Seq(S)
  BY AppendProperties
<1>1. PICK u \in Seq(S) : u = Append(q, row)
  BY <1>a
<1>2. /\ Len(u) = Len(q) + 1 /\ Len(q) \in Nat /\ u[Len(q) + 1] = row
      /\ DOMAIN u = 1..Len(u) /\ DOMAIN q = 1..Len(q)
  BY <1>1
<1>3. \A i \in 1..Len(q) : u[i] = q[i]
  BY <1>1
<1>4. /\ DOMAIN u = DOMAIN q \cup {Len(q) + 1} /\ Len(q) + 1 \in DOMAIN u
      /\ \A i \in DOMAIN q : u[i] = q[i]
  BY <1>2, <1>3
<1>5. Reaches(q, u) /\ \A field : Same(q, u, field)
  BY <1>4 DEF Reaches, Same
<1> QED BY <1>1, <1>2, <1>4, <1>5

(* A row that is no original, or is not for the recipient. *)
LEMMA AppendCopies ==
  ASSUME NEW q \in Seq(OutRow), NEW row \in OutRow, NEW m, NEW n, NEW r
  PROVE  /\ Copies(q, m, n, r) \subseteq Copies(Append(q, row), m, n, r)
         /\ Copies(Append(q, row), m, n, r) \subseteq Copies(q, m, n, r) \cup {Len(q) + 1}
         /\ row.action # "default_delivery" \/ r \notin row.rcpts =>
               Copies(Append(q, row), m, n, r) = Copies(q, m, n, r)
         /\ row.action = "default_delivery" /\ r \in row.rcpts /\ Of(row, m, n) =>
               Copies(Append(q, row), m, n, r) # {}
<1>1. PICK u : u = Append(q, row)
  OBVIOUS
<1>2. PICK x : x = Len(q) + 1 /\ x \notin DOMAIN q
  OBVIOUS
<1>3. /\ DOMAIN u = DOMAIN q \cup {x} /\ u[x] = row /\ \A i \in DOMAIN q : u[i] = q[i]
  BY <1>1, <1>2, AppendReaches
<1>4. ASSUME NEW i \in DOMAIN q PROVE i \in Copies(u, m, n, r) <=> i \in Copies(q, m, n, r)
  BY <1>3 DEF Copies
<1>5. x \in Copies(u, m, n, r) <=>
        Of(row, m, n) /\ row.action = "default_delivery" /\ r \in row.rcpts
  BY <1>3 DEF Copies
<1>6. /\ \A i \in Copies(q, m, n, r) : i \in DOMAIN q
      /\ \A i \in Copies(u, m, n, r) : i \in DOMAIN q \/ i = x
  BY <1>3 DEF Copies
<1> QED BY <1>1, <1>2, <1>4, <1>5, <1>6

LEMMA CallFacts ==
  ASSUME IInv, CallInv, Runs
  PROVE  /\ now.mail \in Mails /\ now.try \in 1..MaxTries
         /\ sender \in [Mails -> SenderRow] /\ sender[now.mail].tries = now.try
         /\ sender[now.mail].rcpts \in SUBSET Rcpts
         /\ IsCall(now) /\ Fits(now.todo, now.action) /\ SingleOf(now, outbound)
         /\ PromisedOf(now, outbound, quarantine, dispatch, sender[now.mail].rcpts, steady[now.mail])
         /\ steady[now.mail] \subseteq routing
         /\ outbound \in Seq(OutRow) /\ dispatch \in Seq(DispatchRow)
<1>1. now.mail \in Mails /\ now.try \in 1..MaxTries
  BY DEF IInv, Busy, Runs
<1>2. sender \in [Mails -> SenderRow] /\ sender[now.mail].tries = now.try
  BY DEF IInv, PipelineTypeOK, SenderRow, Runs
<1>3. sender[now.mail].rcpts \in SUBSET Rcpts
  BY <1>1, <1>2 DEF SenderRow
<1> QED BY <1>1, <1>2, <1>3 DEF CallInv, CallSound, Single, Promised, RowsSound

(* The invariant after a step that the call survives. *)
LEMMA CallAgain ==
  ASSUME IsCall(now'), Fits(now'.todo, now'.action), SingleOf(now', outbound'),
         PromisedOf(now', outbound', quarantine', dispatch', sender'[now'.mail].rcpts,
                    steady'[now'.mail])
  PROVE  CallSound' /\ Single' /\ Promised'
BY DEF CallSound, Single, Promised

LEMMA CallOver ==
  ASSUME now'.pc # "running"
  PROVE  CallSound' /\ Single' /\ Promised'
BY DEF CallSound, Single, Promised, Runs

LEMMA FirstTask ==
  ASSUME IInv, CallInv, NEW op, At(op)
  PROVE  /\ Runs /\ now.todo # <<>> /\ now.todo \in Seq(Tasks) /\ now.todo[1].op = op
         /\ now.todo[1] = Task1 /\ Task1 \in Tasks /\ DOMAIN now = Fields
         /\ Tail(now.todo) \in Seq(Tasks) /\ Rest = Tail(now.todo)
         /\ Follows(Rest, now.todo, 0, 1)
         /\ op \in WinningOps => now.action = op
<1>1. Runs /\ now.todo # <<>> /\ Head(now.todo).op = op
  BY DEF At, Runs
<1>2. IsCall(now) /\ Fits(now.todo, now.action)
  BY <1>1, CallFacts
<1>3. now.todo \in Seq(Tasks) /\ DOMAIN now = Fields
  BY <1>2 DEF IsCall
<1>4. PICK s \in Seq(Tasks) : s = now.todo
  BY <1>3
<1>5. /\ s[1] = Head(s) /\ s[1] \in Tasks /\ Tail(s) \in Seq(Tasks) /\ 1 \in 1..Len(s)
  BY <1>1, <1>4
<1>6. Follows(Tail(s), s, 0, 1)
  BY <1>1, <1>4, TailFollows
<1>7. op \in WinningOps => now.action = op
  BY <1>1, <1>2, <1>4, <1>5 DEF Fits
<1> QED BY <1>1, <1>3, <1>4, <1>5, <1>6, <1>7 DEF Task1, Rest

(* Onward, for the variables. *)
LEMMA OnwardStep ==
  ASSUME IInv, CallInv, NEW op, At(op), Goes(now, now'), now'.action = now.action,
         UNCHANGED <<sender, steady>>, NEW p, Follows(now'.todo, now.todo, p, 1),
         \A i \in 1..p : now'.todo[i].op = "reply",
         op \notin {"default_delivery", "enqueue"},
         \A r \in Rcpts : Copies(outbound', now.mail, now.try, r) = Copies(outbound, now.mail, now.try, r),
         now'.aiRules \in Nat, now'.aiRules = 0 => now.aiRules = 0 /\ op \notin AIActions,
         now.falsePositive => now'.falsePositive, now.swallowed => now'.swallowed,
         Kept(now, outbound, quarantine, dispatch) \/ op \in WinningOps =>
            Kept(now', outbound', quarantine', dispatch')
  PROVE  CallSound' /\ Single' /\ Promised'
<1>1. /\ Runs /\ now.todo[1].op = op /\ DOMAIN now = Fields
  BY FirstTask
<1>2. /\ sender[now.mail].rcpts \in SUBSET Rcpts /\ IsCall(now)
      /\ Fits(now.todo, now.action) /\ SingleOf(now, outbound)
      /\ PromisedOf(now, outbound, quarantine, dispatch, sender[now.mail].rcpts, steady[now.mail])
  BY <1>1, CallFacts
<1>3. PICK c, d : c = now /\ d = now'
  OBVIOUS
<1>4. PICK q, q2 : q = outbound /\ q2 = outbound'
  OBVIOUS
<1>5. PICK held, held2 : held = quarantine /\ held2 = quarantine'
  OBVIOUS
<1>6. PICK asked, asked2 : asked = dispatch /\ asked2 = dispatch'
  OBVIOUS
<1>7. PICK rcpts, domains : rcpts = sender[now.mail].rcpts /\ domains = steady[now.mail]
  OBVIOUS
<1>8. /\ d.mail = c.mail /\ d.try = c.try /\ d.action = c.action /\ d.pc = c.pc
      /\ DOMAIN d = Fields /\ d.matched = c.matched /\ d.fresh = c.fresh
  BY <1>1, <1>3 DEF Goes
<1>9. /\ Fits(c.todo, c.action) /\ SingleOf(c, q) /\ PromisedOf(c, q, held, asked, rcpts, domains)
      /\ c.todo[1].op = op /\ Follows(d.todo, c.todo, p, 1) /\ \A i \in 1..p : d.todo[i].op = "reply"
  BY <1>1, <1>2, <1>3, <1>4, <1>5, <1>6, <1>7
<1>10. /\ \A r \in Rcpts : Copies(q2, c.mail, c.try, r) = Copies(q, c.mail, c.try, r)
       /\ d.aiRules = 0 => c.aiRules = 0 /\ c.todo[1].op \notin AIActions
       /\ c.falsePositive => d.falsePositive
       /\ c.swallowed => d.swallowed
  BY <1>3, <1>4, <1>9
<1>11. Kept(c, q, held, asked) \/ c.todo[1].op \in WinningOps => Kept(d, q2, held2, asked2)
  BY <1>3, <1>4, <1>5, <1>6, <1>9
<1>12. /\ Fits(d.todo, d.action) /\ SingleOf(d, q2)
       /\ PromisedOf(d, q2, held2, asked2, rcpts, domains)
  <2>1. rcpts \subseteq Rcpts
    BY <1>2, <1>7
  <2> QED BY ONLY <1>8, <1>9, <1>10, <1>11, <2>1, op \notin {"default_delivery", "enqueue"}, Onward, SMTT(60)
<1>13. IsCall(now')
  <2>1. d.todo \in Seq(Tasks)
    BY <1>9 DEF Follows
  <2> QED BY <1>2, <1>3, <1>8, <2>1 DEF IsCall
<1>14. rcpts = sender'[now'.mail].rcpts /\ domains = steady'[now'.mail]
  BY <1>3, <1>7, <1>8
<1> QED BY <1>3, <1>4, <1>5, <1>6, <1>12, <1>13, <1>14, CallAgain

(* The rows after a step of the call. *)
LEMMA RowsStay ==
  ASSUME RowsSound, UNCHANGED <<outbound, dispatch>>,
         steady' \in [Mails -> SUBSET Domains], \A m \in Mails : steady'[m] \subseteq routing',
         \A m \in Mails : sender[m].tries \in Nat /\ sender'[m].tries \in Nat
                          /\ sender'[m].tries >= sender[m].tries
  PROVE  RowsSound'
<1>1. ASSUME NEW i \in 1..Len(outbound)
      PROVE  outbound[i].try <= sender'[outbound[i].mail].tries
  <2>1. outbound[i] \in OutRow
    BY DEF RowsSound
  <2>2. outbound[i].mail \in Mails /\ outbound[i].try \in Nat
    BY <2>1, Constants DEF OutRow
  <2>3. outbound[i].try <= sender[outbound[i].mail].tries
    BY DEF RowsSound
  <2> QED BY <2>2, <2>3
<1> QED BY <1>1 DEF RowsSound

LEMMA RowsAdded ==
  ASSUME IInv, CallInv, Runs, UNCHANGED <<routing, steady, sender>>,
         \/ outbound' = outbound
         \/ \E row \in OutRow : /\ row.mail = now.mail /\ row.try = now.try
                                /\ outbound' = Append(outbound, row),
         \/ dispatch' = dispatch
         \/ \E row \in DispatchRow : dispatch' = Append(dispatch, row)
  PROVE  RowsSound'
<1>1. /\ now.mail \in Mails /\ now.try \in 1..MaxTries /\ sender[now.mail].tries = now.try
      /\ outbound \in Seq(OutRow) /\ dispatch \in Seq(DispatchRow)
  BY CallFacts
<1>2. dispatch' \in Seq(DispatchRow)
  BY <1>1, AppendProperties
<1>3. outbound' \in Seq(OutRow)
  <2>1. CASE outbound' = outbound
    BY <1>1, <2>1
  <2>2. ASSUME NEW row \in OutRow, outbound' = Append(outbound, row) PROVE outbound' \in Seq(OutRow)
    BY <1>1, <2>2, AppendProperties
  <2> QED BY <2>1, <2>2
<1>4. \A i \in 1..Len(outbound') : outbound'[i].try <= sender'[outbound'[i].mail].tries
  <2>1. CASE outbound' = outbound
    BY <2>1 DEF CallInv, RowsSound
  <2>2. ASSUME NEW row \in OutRow, row.mail = now.mail, row.try = now.try,
               outbound' = Append(outbound, row)
        PROVE  \A i \in 1..Len(outbound') : outbound'[i].try <= sender'[outbound'[i].mail].tries
    <3>1. SUFFICES ASSUME NEW i \in 1..Len(outbound')
                   PROVE  outbound'[i].try <= sender[outbound'[i].mail].tries
      OBVIOUS
    <3>2. CASE i \in 1..Len(outbound)
      <4>1. outbound'[i] = outbound[i]
        BY <1>1, <2>2, <3>2
      <4> QED BY <3>2, <4>1 DEF CallInv, RowsSound
    <3>3. CASE i \notin 1..Len(outbound)
      <4>1. i = Len(outbound) + 1
        BY <1>1, <2>2, <3>3
      <4>2. outbound'[i] = row
        BY <1>1, <2>2, <4>1
      <4>3. now.try <= now.try
        BY <1>1, Constants
      <4> QED BY <1>1, <2>2, <4>2, <4>3
    <3> QED BY <3>2, <3>3
  <2> QED BY <2>1, <2>2
<1> QED BY <1>2, <1>3, <1>4 DEF CallInv, RowsSound

LEMMA OutboundRowIs ==
  ASSUME now.mail \in Mails, now.try \in 1..MaxTries, NEW action \in Ops, NEW rcpts \in SUBSET Rcpts
  PROVE  /\ OutboundRow(action, rcpts) \in OutRow
         /\ OutboundRow(action, rcpts).mail = now.mail /\ OutboundRow(action, rcpts).try = now.try
         /\ OutboundRow(action, rcpts).action = action /\ OutboundRow(action, rcpts).rcpts = rcpts
BY DEF OutboundRow, OutRow

(* A row that is no original. *)
LEMMA OtherRow ==
  ASSUME IInv, CallInv, Runs, NEW action \in Ops \ {"default_delivery"},
         Enqueue(action, {})
  PROVE  /\ \E row \in OutRow : /\ row.mail = now.mail /\ row.try = now.try
                                /\ outbound' = Append(outbound, row)
         /\ \A r \in Rcpts : Copies(outbound', now.mail, now.try, r) = Copies(outbound, now.mail, now.try, r)
         /\ Reaches(outbound, outbound') /\ Same(outbound, outbound', "action")
         /\ \E i \in DOMAIN outbound' : Of(outbound'[i], now.mail, now.try) /\ outbound'[i].action = action
<1>1. now.mail \in Mails /\ now.try \in 1..MaxTries /\ outbound \in Seq(OutRow)
  BY CallFacts
<1>2. PICK row \in OutRow : /\ row = OutboundRow(action, {}) /\ row.mail = now.mail
                            /\ row.try = now.try /\ row.action = action
  BY <1>1, OutboundRowIs
<1>3. PICK q \in Seq(OutRow) : q = outbound
  BY <1>1
<1>4. outbound' = Append(q, row)
  BY <1>2, <1>3 DEF Enqueue
<1>5. PICK m, n : m = now.mail /\ n = now.try
  OBVIOUS
<1>6. \A r \in Rcpts : Copies(Append(q, row), m, n, r) = Copies(q, m, n, r)
  BY <1>2, AppendCopies
<1>7. /\ Reaches(q, Append(q, row)) /\ Same(q, Append(q, row), "action")
      /\ Len(q) + 1 \in DOMAIN Append(q, row) /\ Append(q, row)[Len(q) + 1] = row
  BY AppendReaches
<1>8. Of(row, m, n)
  BY <1>2, <1>5 DEF Of
<1> QED BY <1>2, <1>3, <1>4, <1>5, <1>6, <1>7, <1>8

LEMMA TicketRow ==
  ASSUME IInv, CallInv, Runs, NEW kind \in {"rule", "authorized", "ai", "failsafe"},
         EnqueueTicket(kind)
  PROVE  /\ \E row \in DispatchRow : dispatch' = Append(dispatch, row)
         /\ Reaches(dispatch, dispatch') /\ Same(dispatch, dispatch', "kind")
         /\ \E i \in DOMAIN dispatch' : Of(dispatch'[i], now.mail, now.try) /\ dispatch'[i].kind = kind
<1>1. now.mail \in Mails /\ now.try \in 1..MaxTries /\ dispatch \in Seq(DispatchRow)
  BY CallFacts
<1>2. PICK row : row = [mail |-> now.mail, try |-> now.try, kind |-> kind]
  OBVIOUS
<1>3. row \in DispatchRow /\ row.kind = kind /\ Of(row, now.mail, now.try)
  BY <1>1, <1>2 DEF DispatchRow, Of
<1>4. PICK q \in Seq(DispatchRow) : q = dispatch
  BY <1>1
<1>5. dispatch' = Append(q, row)
  BY <1>2, <1>4 DEF EnqueueTicket
<1>6. /\ Reaches(q, Append(q, row)) /\ Same(q, Append(q, row), "kind")
      /\ Len(q) + 1 \in DOMAIN Append(q, row) /\ Append(q, row)[Len(q) + 1] = row
  BY <1>3, AppendReaches
<1> QED BY <1>3, <1>4, <1>5, <1>6

(* Tasks that touch neither queues nor quarantine. *)
LEMMA QuietStep ==
  ASSUME IInv, CallInv, NEW op, At(op), Proceed,
         op \notin WinningOps \cup AIActions \cup {"default_delivery", "enqueue"},
         UNCHANGED <<routing, sender, outbound, quarantine, dispatch, steady>>
  PROVE  CallInv'
<1>1. /\ Runs /\ DOMAIN now = Fields /\ Follows(Rest, now.todo, 0, 1)
  BY FirstTask
<1>2. /\ Goes(now, now') /\ now'.todo = Rest /\ now'.action = now.action /\ now'.done = now.done
      /\ now'.falsePositive = now.falsePositive /\ now'.aiRules = now.aiRules
      /\ now'.swallowed = now.swallowed
  BY <1>1, SetTodo DEF Proceed
<1>3. now.aiRules \in Nat
  BY <1>1, CallFacts DEF IsCall
<1>4. Kept(now, outbound, quarantine, dispatch) => Kept(now', outbound', quarantine', dispatch')
  BY <1>2 DEF Kept, Goes
<1>5. \A i \in 1..0 : now'.todo[i].op = "reply"
  OBVIOUS
<1>6. CallSound' /\ Single' /\ Promised'
  BY <1>1, <1>2, <1>3, <1>4, <1>5, OnwardStep
<1>7. RowsSound'
  BY <1>1, RowsAdded
<1> QED BY <1>6, <1>7 DEF CallInv

LEMMA QuarantineCall == ASSUME IInv, CallInv, Quarantine PROVE CallInv'
<1>0. /\ At("quarantine") /\ Proceed /\ AddQuarantine
      /\ UNCHANGED <<routing, sender, outbound, dispatch, steady>>
  BY DEF Quarantine
<1>1. /\ Runs /\ DOMAIN now = Fields /\ Follows(Rest, now.todo, 0, 1)
      /\ now.action = "quarantine"
  BY <1>0, FirstTask, Kinds DEF WinningOps
<1>2. /\ Goes(now, now') /\ now'.todo = Rest /\ now'.action = now.action /\ now'.done = now.done
      /\ now'.falsePositive = now.falsePositive /\ now'.aiRules = now.aiRules
      /\ now'.swallowed = now.swallowed
  BY <1>0, <1>1, SetTodo DEF Proceed
<1>3. now.aiRules \in Nat /\ now.mail \in Mails /\ now.try \in 1..MaxTries
  BY <1>1, CallFacts DEF IsCall
<1>4. Kept(now', outbound', quarantine', dispatch')
  <2>1. /\ Window /\ Len(quarantine) \in 0..HardCap /\ inserted \in Nat
    BY DEF IInv, PipelineTypeOK
  <2>2. PICK q \in Seq(Copy) : q = Room(quarantine)
    BY <2>1, RoomEffect
  <2>3. PICK row : row = [mail |-> now.mail, try |-> now.try, id |-> inserted + 1]
    OBVIOUS
  <2>4. row \in Copy /\ Of(row, now.mail, now.try)
    BY <1>3, <2>1, <2>3 DEF Copy, Of
  <2>5. quarantine' = Append(q, row)
    BY <1>0, <2>2, <2>3 DEF AddQuarantine
  <2>6. \E i \in DOMAIN quarantine' : Of(quarantine'[i], now'.mail, now'.try)
    BY <1>2, <2>4, <2>5, AppendReaches DEF Goes
  <2> QED BY <1>1, <1>2, <2>6 DEF Kept, SendingActions
<1>5. \A i \in 1..0 : now'.todo[i].op = "reply"
  OBVIOUS
<1>6. "quarantine" \notin AIActions \cup {"default_delivery", "enqueue"}
  BY DEF AIActions
<1>7. CallSound' /\ Single' /\ Promised'
  BY <1>0, <1>1, <1>2, <1>3, <1>4, <1>5, <1>6, OnwardStep
<1>8. RowsSound'
  BY <1>0, <1>1, RowsAdded
<1> QED BY <1>7, <1>8 DEF CallInv

LEMMA SendCall ==
  ASSUME IInv, CallInv, NEW op \in SendingActions, At(op), SendAs(op) PROVE CallInv'
<1>0. UNCHANGED <<routing, sender, quarantine, dispatch, steady>>
  BY DEF SendAs
<1>a. op \in WinningOps /\ op \notin AIActions \cup {"default_delivery", "enqueue"}
      /\ op \in Ops \ {"default_delivery"}
      /\ op \notin {"quarantine", "create_ticket", "create_authorized_ticket"}
  BY Kinds, ActionKinds DEF WinningOps, SendingActions, Ops, Actions
<1>1. /\ Runs /\ DOMAIN now = Fields /\ Follows(Rest, now.todo, 0, 1)
      /\ now.action = op
  BY <1>a, FirstTask
<1>2. now.aiRules \in Nat
  BY <1>1, CallFacts DEF IsCall
<1>5. \A i \in 1..0 : now'.todo[i].op = "reply"
  OBVIOUS
<1>3. CASE Enqueue(op, {}) /\ now' = [now EXCEPT !.todo = Rest, !.rows = QueueIds]
  <2>1. /\ Goes(now, now') /\ now'.todo = Rest /\ now'.action = now.action /\ now'.done = now.done
        /\ now'.falsePositive = now.falsePositive /\ now'.aiRules = now.aiRules
        /\ now'.swallowed = now.swallowed
    BY <1>1, <1>3 DEF Goes, Fields
  <2>2. /\ \E row \in OutRow : /\ row.mail = now.mail /\ row.try = now.try
                               /\ outbound' = Append(outbound, row)
        /\ \A r \in Rcpts : Copies(outbound', now.mail, now.try, r) = Copies(outbound, now.mail, now.try, r)
        /\ \E i \in DOMAIN outbound' : Of(outbound'[i], now.mail, now.try) /\ outbound'[i].action = op
    BY <1>1, <1>3, <1>a, OtherRow
  <2>3. Kept(now', outbound', quarantine', dispatch')
    BY <1>1, <1>a, <2>1, <2>2 DEF Kept, Goes
  <2>4. CallSound' /\ Single' /\ Promised'
    BY <1>0, <1>1, <1>2, <1>5, <1>a, <2>1, <2>2, <2>3, OnwardStep
  <2>5. RowsSound'
    BY <1>0, <1>1, <2>2, RowsAdded
  <2> QED BY <2>4, <2>5 DEF CallInv
<1>4. CASE now' = [now EXCEPT !.todo = Rest, !.done = FALSE] /\ UNCHANGED outbound
  <2>1. /\ Goes(now, now') /\ now'.todo = Rest /\ now'.action = now.action /\ ~now'.done
        /\ now'.falsePositive = now.falsePositive /\ now'.aiRules = now.aiRules
        /\ now'.swallowed = now.swallowed
    BY <1>1, <1>4 DEF Goes, Fields
  <2>3. Kept(now', outbound', quarantine', dispatch')
    BY <1>1, <1>a, <2>1 DEF Kept
  <2>4. CallSound' /\ Single' /\ Promised'
    BY <1>0, <1>1, <1>2, <1>4, <1>5, <1>a, <2>1, <2>3, OnwardStep
  <2>5. RowsSound'
    BY <1>0, <1>1, <1>4, RowsAdded
  <2> QED BY <2>4, <2>5 DEF CallInv
<1> QED BY <1>3, <1>4 DEF SendAs

LEMMA CopyCall == ASSUME IInv, CallInv, AlsoDeliver \/ TemplateReply PROVE CallInv'
<1>0. PICK op \in {"also_deliver", "reply"} :
         /\ At(op) /\ Proceed /\ (Enqueue(op, {}) \/ UNCHANGED outbound)
         /\ UNCHANGED <<routing, sender, quarantine, dispatch, steady>>
  BY DEF AlsoDeliver, TemplateReply
<1>a. op \notin AIActions \cup WinningOps \cup {"default_delivery", "enqueue"}
      /\ op \in Ops \ {"default_delivery"}
  BY Kinds DEF Ops, AIActions, WinningOps, SendingActions, TicketActions
<1>1. /\ Runs /\ DOMAIN now = Fields /\ Follows(Rest, now.todo, 0, 1)
  BY <1>0, FirstTask
<1>2. now.aiRules \in Nat
  BY <1>1, CallFacts DEF IsCall
<1>3. /\ Goes(now, now') /\ now'.todo = Rest /\ now'.action = now.action /\ now'.done = now.done
      /\ now'.falsePositive = now.falsePositive /\ now'.aiRules = now.aiRules
      /\ now'.swallowed = now.swallowed
  BY <1>0, <1>1, SetTodo DEF Proceed
<1>4. /\ \/ outbound' = outbound
         \/ \E row \in OutRow : /\ row.mail = now.mail /\ row.try = now.try
                                /\ outbound' = Append(outbound, row)
      /\ \A r \in Rcpts : Copies(outbound', now.mail, now.try, r) = Copies(outbound, now.mail, now.try, r)
      /\ Reaches(outbound, outbound') /\ Same(outbound, outbound', "action")
  <2>1. CASE Enqueue(op, {})
    BY <1>1, <1>a, <2>1, OtherRow
  <2>2. CASE UNCHANGED outbound
    BY <2>2, SameReaches
  <2> QED BY <1>0, <2>1, <2>2
<1>5. \A i \in 1..0 : now'.todo[i].op = "reply"
  OBVIOUS
<1>6. Kept(now, outbound, quarantine, dispatch) => Kept(now', outbound', quarantine', dispatch')
  <2>1. PICK c, d : c = now /\ d = now'
    OBVIOUS
  <2>2. PICK q, q2 : q = outbound /\ q2 = outbound'
    OBVIOUS
  <2>3. PICK held, asked : held = quarantine /\ asked = dispatch
    OBVIOUS
  <2>4. Reaches(asked, asked) /\ Same(asked, asked, "kind")
    BY SameReaches
  <2>5. Kept(c, q, held, asked) => Kept(d, q2, held, asked)
    BY <1>3, <1>4, <2>1, <2>2, <2>4, KeptMore DEF Goes
  <2> QED BY <1>0, <2>1, <2>2, <2>3, <2>5
<1>7. CallSound' /\ Single' /\ Promised'
  BY <1>0, <1>1, <1>2, <1>3, <1>4, <1>5, <1>6, <1>a, OnwardStep
<1>8. RowsSound'
  BY <1>0, <1>1, <1>4, RowsAdded
<1> QED BY <1>7, <1>8 DEF CallInv

LEMMA AICall == ASSUME IInv, CallInv, AIClassify \/ AIFailsafe \/ AITaxonomy PROVE CallInv'
<1>0. PICK op \in AIActions :
         /\ At(op) /\ now' = [now EXCEPT !.todo = Rest, !.aiRules = @ + 1]
         /\ (EnqueueTicket("ai") \/ EnqueueTicket("failsafe") \/ UNCHANGED dispatch)
         /\ UNCHANGED <<routing, sender, quarantine, outbound, steady>>
  BY DEF AIClassify, AIFailsafe, AITaxonomy, AIActions, tables
<1>a. op \notin WinningOps \cup {"default_delivery", "enqueue"}
  BY ActionKinds
<1>1. /\ Runs /\ DOMAIN now = Fields /\ Follows(Rest, now.todo, 0, 1)
  BY <1>0, FirstTask
<1>2. now.aiRules \in Nat
  BY <1>1, CallFacts DEF IsCall
<1>3. /\ Goes(now, now') /\ now'.todo = Rest /\ now'.action = now.action /\ now'.done = now.done
      /\ now'.falsePositive = now.falsePositive /\ now'.aiRules = now.aiRules + 1
      /\ now'.swallowed = now.swallowed
  BY <1>0, <1>1 DEF Goes, Fields
<1>4. /\ dispatch' = dispatch \/ \E row \in DispatchRow : dispatch' = Append(dispatch, row)
      /\ Reaches(dispatch, dispatch') /\ Same(dispatch, dispatch', "kind")
  <2>1. CASE EnqueueTicket("ai")
    BY <1>1, <2>1, TicketRow
  <2>2. CASE EnqueueTicket("failsafe")
    BY <1>1, <2>2, TicketRow
  <2>3. CASE UNCHANGED dispatch
    BY <2>3, SameReaches
  <2> QED BY <1>0, <2>1, <2>2, <2>3
<1>5. \A i \in 1..0 : now'.todo[i].op = "reply"
  OBVIOUS
<1>6. Kept(now, outbound, quarantine, dispatch) => Kept(now', outbound', quarantine', dispatch')
  <2>1. PICK c, d : c = now /\ d = now'
    OBVIOUS
  <2>2. PICK q, held : q = outbound /\ held = quarantine
    OBVIOUS
  <2>3. PICK asked, asked2 : asked = dispatch /\ asked2 = dispatch'
    OBVIOUS
  <2>4. Reaches(q, q) /\ Same(q, q, "action")
    BY SameReaches
  <2>5. Kept(c, q, held, asked) => Kept(d, q, held, asked2)
    BY <1>3, <1>4, <2>1, <2>3, <2>4, KeptMore DEF Goes
  <2> QED BY <1>0, <2>1, <2>2, <2>3, <2>5
<1>b. now'.aiRules \in Nat /\ now'.aiRules # 0
  BY <1>2, <1>3
<1>7. CallSound' /\ Single' /\ Promised'
  BY <1>0, <1>1, <1>b, <1>3, <1>5, <1>6, <1>a, OnwardStep
<1>8. RowsSound'
  BY <1>0, <1>1, <1>4, RowsAdded
<1> QED BY <1>7, <1>8 DEF CallInv

LEMMA CreateTicketCall == ASSUME IInv, CallInv, CreateTicket PROVE CallInv'
<1>0. /\ At("create_ticket") /\ Proceed /\ EnqueueTicket("rule")
      /\ UNCHANGED <<routing, sender, quarantine, outbound, steady>>
  BY DEF CreateTicket
<1>a. "create_ticket" \in WinningOps
      /\ "create_ticket" \notin AIActions \cup {"default_delivery", "enqueue"}
      /\ "create_ticket" \notin SendingActions
  BY DEF WinningOps, AIActions, TicketActions, SendingActions
<1>1. /\ Runs /\ DOMAIN now = Fields /\ Follows(Rest, now.todo, 0, 1)
      /\ now.action = "create_ticket"
  BY <1>0, <1>a, FirstTask
<1>2. now.aiRules \in Nat
  BY <1>1, CallFacts DEF IsCall
<1>3. /\ Goes(now, now') /\ now'.todo = Rest /\ now'.action = now.action /\ now'.done = now.done
      /\ now'.falsePositive = now.falsePositive /\ now'.aiRules = now.aiRules
      /\ now'.swallowed = now.swallowed
  BY <1>0, <1>1, SetTodo DEF Proceed
<1>4. /\ \E row \in DispatchRow : dispatch' = Append(dispatch, row)
      /\ \E i \in DOMAIN dispatch' : Of(dispatch'[i], now.mail, now.try) /\ dispatch'[i].kind = "rule"
  BY <1>0, <1>1, TicketRow
<1>5. \A i \in 1..0 : now'.todo[i].op = "reply"
  OBVIOUS
<1>6. Kept(now', outbound', quarantine', dispatch')
  BY <1>1, <1>3, <1>4, <1>a DEF Kept, Goes
<1>7. CallSound' /\ Single' /\ Promised'
  BY <1>0, <1>1, <1>2, <1>3, <1>5, <1>6, <1>a, OnwardStep
<1>8. RowsSound'
  BY <1>0, <1>1, <1>4, RowsAdded
<1> QED BY <1>7, <1>8 DEF CallInv

(* The rest of the tasks, after a template reply or not. *)
LEMMA AfterCode ==
  ASSUME IInv, CallInv, At("create_authorized_ticket"), NEW tasks \in ReplyOrNot
  PROVE  \E p \in 0..1 : /\ Follows(tasks, now.todo, p, 1)
                         /\ \A i \in 1..p : tasks[i].op = "reply"
<1>1. /\ now.todo \in Seq(Tasks) /\ now.todo # <<>> /\ Follows(Rest, now.todo, 0, 1)
      /\ Rest = Tail(now.todo) /\ Task1 \in Tasks
  BY FirstTask
<1>2. CASE tasks = Rest
  <2>1. \A i \in 1..0 : tasks[i].op = "reply"
    OBVIOUS
  <2> QED BY <1>1, <1>2, <2>1
<1>3. CASE tasks = <<Task("reply", Task1.rule, "reply")>> \o Rest
  <2>1. PICK s \in Seq(Tasks) : s = now.todo /\ s # <<>>
    BY <1>1
  <2>2. PICK n \in Nat \ {0} : n = Task1.rule
    BY <1>1 DEF Tasks
  <2>3. PICK t \in Tasks : t = Task("reply", n, "reply") /\ t.op = "reply"
    BY <2>2, TaskTypes, Kinds DEF Parts
  <2>4. /\ Follows(<<t>> \o Tail(s), s, 1, 1)
        /\ \A i \in 1..1 : (<<t>> \o Tail(s))[i].op = "reply"
    BY <2>1, <2>3, ReplyFollows
  <2>5. tasks = <<t>> \o Tail(s)
    BY <1>1, <1>3, <2>1, <2>2, <2>3
  <2> QED BY <2>1, <2>4, <2>5
<1> QED BY <1>2, <1>3 DEF ReplyOrNot

LEMMA CodeCall == ASSUME IInv, CallInv, CodeValid \/ CodeRefused PROVE CallInv'
<1>0. /\ At("create_authorized_ticket")
      /\ UNCHANGED <<routing, sender, quarantine, outbound, steady>>
  BY DEF CodeValid, CodeRefused, tables
<1> DEFINE op == "create_authorized_ticket"
<1>a. op \in WinningOps /\ op \notin AIActions \cup {"default_delivery", "enqueue"}
      /\ op \notin SendingActions \cup {"quarantine", "create_ticket"}
  BY DEF WinningOps, AIActions, TicketActions, SendingActions
<1>1. /\ Runs /\ DOMAIN now = Fields /\ Follows(Rest, now.todo, 0, 1) /\ now.action = op
  BY <1>0, <1>a, FirstTask
<1>2. now.aiRules \in Nat
  BY <1>1, CallFacts DEF IsCall
<1>3. ASSUME NEW tasks, NEW p \in 0..1, Follows(tasks, now.todo, p, 1),
             \A i \in 1..p : tasks[i].op = "reply",
             Goes(now, now'), now'.todo = tasks, now'.action = now.action,
             now'.falsePositive \/ now'.falsePositive = now.falsePositive,
             now'.aiRules = now.aiRules, now'.swallowed = now.swallowed,
             Kept(now', outbound', quarantine', dispatch')
      PROVE  CallSound' /\ Single' /\ Promised'
  BY <1>0, <1>1, <1>2, <1>3, <1>a, OnwardStep
<1>4. CASE CodeValid
  <2>1. EnqueueTicket("authorized")
    BY <1>4 DEF CodeValid
  <2>2. PICK tasks \in ReplyOrNot : now' = [now EXCEPT !.todo = tasks]
    BY <1>4 DEF CodeValid
  <2>3. PICK p \in 0..1 : Follows(tasks, now.todo, p, 1) /\ \A i \in 1..p : tasks[i].op = "reply"
    BY <1>0, <2>2, AfterCode
  <2>4. /\ Goes(now, now') /\ now'.todo = tasks /\ now'.action = now.action
        /\ now'.falsePositive = now.falsePositive /\ now'.aiRules = now.aiRules
        /\ now'.swallowed = now.swallowed
    BY <1>1, <2>2, SetTodo
  <2>5. /\ \E row \in DispatchRow : dispatch' = Append(dispatch, row)
        /\ \E i \in DOMAIN dispatch' :
              Of(dispatch'[i], now.mail, now.try) /\ dispatch'[i].kind = "authorized"
    BY <1>1, <2>1, TicketRow
  <2>6. Kept(now', outbound', quarantine', dispatch')
    BY <1>1, <1>a, <2>4, <2>5 DEF Kept, Goes
  <2>7. CallSound' /\ Single' /\ Promised'
    BY <1>3, <2>3, <2>4, <2>6
  <2>8. RowsSound'
    BY <1>0, <1>1, <2>5, RowsAdded
  <2> QED BY <2>7, <2>8 DEF CallInv
<1>5. CASE CodeRefused
  <2>1. UNCHANGED dispatch
    BY <1>5 DEF CodeRefused, tables
  <2>2. RowsSound'
    BY <1>0, <1>1, <2>1, RowsAdded
  <2>3. ASSUME NEW tasks \in ReplyOrNot, now' = [now EXCEPT !.todo = tasks, !.done = FALSE]
        PROVE  CallSound' /\ Single' /\ Promised'
    <3>1. PICK p \in 0..1 : Follows(tasks, now.todo, p, 1) /\ \A i \in 1..p : tasks[i].op = "reply"
      BY <1>0, AfterCode
    <3>2. /\ Goes(now, now') /\ now'.todo = tasks /\ now'.action = now.action /\ ~now'.done
          /\ now'.falsePositive = now.falsePositive /\ now'.aiRules = now.aiRules
          /\ now'.swallowed = now.swallowed
      BY <1>1, <2>3 DEF Goes, Fields
    <3>3. Kept(now', outbound', quarantine', dispatch')
      BY <1>1, <1>a, <3>2 DEF Kept
    <3> QED BY <1>3, <3>1, <3>2, <3>3
  <2>4. ASSUME now' = [now EXCEPT !.todo = Rest, !.done = FALSE, !.falsePositive = TRUE]
        PROVE  CallSound' /\ Single' /\ Promised'
    <3>1. \A i \in 1..0 : Rest[i].op = "reply"
      OBVIOUS
    <3>2. /\ Goes(now, now') /\ now'.todo = Rest /\ now'.action = now.action /\ ~now'.done
          /\ now'.falsePositive /\ now'.aiRules = now.aiRules
          /\ now'.swallowed = now.swallowed
      BY <1>1, <2>4 DEF Goes, Fields
    <3>3. Kept(now', outbound', quarantine', dispatch')
      BY <1>1, <1>a, <3>2 DEF Kept
    <3> QED BY <1>1, <1>3, <3>1, <3>2, <3>3
  <2>5. CallSound' /\ Single' /\ Promised'
    BY <1>5, <2>3, <2>4 DEF CodeRefused
  <2> QED BY <2>2, <2>5 DEF CallInv
<1> QED BY <1>4, <1>5

LEMMA QuietCall == ASSUME IInv, CallInv, Ignore \/ InsertEvent PROVE CallInv'
<1>1. PICK op \in {"ignore", "insert_event"} :
         /\ At(op) /\ Proceed
         /\ UNCHANGED <<routing, sender, outbound, quarantine, dispatch, steady>>
  BY DEF Ignore, InsertEvent, tables
<1>2. op \notin WinningOps \cup AIActions \cup {"default_delivery", "enqueue"}
  BY DEF WinningOps, AIActions, TicketActions, SendingActions
<1> QED BY <1>1, <1>2, QuietStep

LEMMA AgainCall == ASSUME IInv, CallInv, EvaluateAgain PROVE CallInv'
<1>0. /\ At("evaluate_again")
      /\ UNCHANGED <<routing, sender, quarantine, outbound, dispatch, steady>>
  BY DEF EvaluateAgain, tables
<1>a. "evaluate_again" \notin WinningOps \cup AIActions \cup {"default_delivery", "enqueue"}
  BY DEF WinningOps, AIActions, TicketActions, SendingActions
<1>1. /\ Runs /\ DOMAIN now = Fields /\ Follows(Rest, now.todo, 0, 1)
      /\ now.todo[1].op = "evaluate_again" /\ now.todo \in Seq(Tasks) /\ now.todo # <<>>
  BY <1>0, FirstTask
<1>2. /\ IsCall(now) /\ Fits(now.todo, now.action) /\ sender[now.mail].rcpts \in SUBSET Rcpts
  BY <1>1, CallFacts
<1>3. CASE Proceed
  BY <1>0, <1>3, <1>a, QuietStep
<1>4. ASSUME now.falsePositive, NEW others \in MatchedWithoutIt,
             now' = [now EXCEPT
                        !.todo = (IF others = <<>> THEN <<Deliver>>
                                  ELSE DispatchAction(others[1], 1)) \o Rest,
                        !.action = FirstAction("rules", others, FALSE),
                        !.done = TRUE]
      PROVE  CallInv'
  <2>1. others \in Seq(Rules)
    <3>1. PICK matched \in Seq(Rules) : matched = now.matched
      BY <1>2 DEF IsCall
    <3>2. Len(matched) > 1 => Tail(matched) \in Seq(Rules)
      OBVIOUS
    <3> QED BY <3>1, <3>2, PipelineAssumption DEF MatchedWithoutIt
  <2>2. PICK t \in Seq(Tasks) : t = Rest
    BY <1>1 DEF Follows
  <2>3. ASSUME NEW i \in 1..Len(t) PROVE t[i].op \in Closing
    <3>1. PICK s \in Seq(Tasks) : s = now.todo
      BY <1>1
    <3>2. /\ Len(t) = 0 + (Len(s) - 1) /\ \A j \in 1..(Len(s) - 1) : t[0 + j] = s[1 + j]
      BY <1>1, <2>2, <3>1 DEF Follows
    <3>3. i \in 1..(Len(s) - 1) /\ 0 + i = i /\ 1 + i \in (1 + 1)..Len(s) /\ 1 \in 1..Len(s)
      BY <3>2
    <3>4. t[i] = s[1 + i]
      BY <3>2, <3>3
    <3>5. s[1].op = "evaluate_again" /\ Fits(s, now.action)
      BY <1>1, <1>2, <3>1
    <3>6. \A j \in (1 + 1)..Len(s) : s[j].op \in Closing
      BY <3>3, <3>5 DEF Fits
    <3> QED BY <3>3, <3>4, <3>6
  <2>4. PICK u, a : /\ u = (IF others = <<>> THEN <<Deliver>> ELSE DispatchAction(others[1], 1)) \o t
                    /\ a = FirstAction("rules", others, FALSE)
    OBVIOUS
  <2>5. Begun(u, a)
    BY <2>1, <2>3, <2>4, AgainBegun
  <2>6. now' = [now EXCEPT !.todo = u, !.action = a, !.done = TRUE]
    BY <1>4, <2>2, <2>4
  <2>7. /\ Goes(now, now') /\ now'.todo = u /\ now'.action = a
        /\ now'.falsePositive = now.falsePositive /\ now'.aiRules = now.aiRules
    BY <1>1, <2>6 DEF Goes, Fields
  <2>8. a # "received_only"
    <3>1. others # <<>> => others[1] \in Rules
      BY <2>1
    <3>2. others # <<>> => others[1].action \in Actions
      BY <3>1, RuleTypes
    <3> QED BY <2>4, <3>2 DEF FirstAction, Actions, ActiveActions, PassiveActions, SendingActions, TicketActions
  <2>9. PICK d, q, held, asked : d = now' /\ q = outbound /\ held = quarantine /\ asked = dispatch
    OBVIOUS
  <2>10. PICK rcpts \in SUBSET Rcpts : rcpts = sender[now.mail].rcpts
    BY <1>2
  <2>11. PICK domains : domains = steady[now.mail]
    OBVIOUS
  <2>12. Begun(d.todo, d.action) /\ d.action # "received_only" /\ d.falsePositive
    BY <1>4, <2>5, <2>7, <2>8, <2>9
  <2>13. /\ Fits(d.todo, d.action) /\ SingleOf(d, q)
         /\ PromisedOf(d, q, held, asked, rcpts, domains)
    BY <2>12, Started
  <2>14. IsCall(now')
    <3>1. u \in Seq(Tasks)
      BY <2>5 DEF Begun
    <3> QED BY <1>1, <1>2, <2>7, <3>1 DEF IsCall, Goes
  <2>15. CallSound' /\ Single' /\ Promised'
    <3>1. now'.mail = now.mail
      BY <2>7 DEF Goes
    <3> QED BY <1>0, <2>9, <2>10, <2>11, <2>13, <2>14, <3>1, CallAgain
  <2>16. RowsSound'
    BY <1>0, <1>1, RowsAdded
  <2> QED BY <2>15, <2>16 DEF CallInv
<1> QED BY <1>3, <1>4 DEF EvaluateAgain

Links(q2, q, S, x) ==
  q2 = [i \in DOMAIN q |-> IF i \in S THEN [q[i] EXCEPT !.fresh = x] ELSE q[i]]

LEMMA LinkedIs ==
  ASSUME NEW q \in Seq(OutRow), NEW S, NEW x \in BOOLEAN, NEW q2, Links(q2, q, S, x)
  PROVE  /\ q2 \in Seq(OutRow) /\ Len(q2) = Len(q) /\ DOMAIN q2 = DOMAIN q
         /\ Reaches(q, q2) /\ Same(q, q2, "action")
         /\ \A m, n, r : Copies(q2, m, n, r) = Copies(q, m, n, r)
<1>1. ASSUME NEW i \in DOMAIN q
      PROVE  /\ q2[i] \in OutRow /\ q2[i].mail = q[i].mail /\ q2[i].try = q[i].try
             /\ q2[i].action = q[i].action /\ q2[i].rcpts = q[i].rcpts
  <2>1. q[i] \in OutRow
    OBVIOUS
  <2>2. PICK row \in OutRow : row = q[i]
    BY <2>1
  <2>3. PICK other : other = [row EXCEPT !.fresh = x]
    OBVIOUS
  <2>4. /\ other \in OutRow /\ other.mail = row.mail /\ other.try = row.try
        /\ other.action = row.action /\ other.rcpts = row.rcpts
    BY <2>3 DEF OutRow
  <2>5. q2[i] = IF i \in S THEN other ELSE row
    BY <2>2, <2>3 DEF Links
  <2> QED BY <2>2, <2>4, <2>5
<1>2. DOMAIN q2 = DOMAIN q /\ DOMAIN q = 1..Len(q) /\ Len(q) \in Nat
  BY DEF Links
<1>3. q2 \in [1..Len(q) -> OutRow]
  BY <1>1, <1>2 DEF Links
<1>4. q2 \in Seq(OutRow) /\ Len(q2) = Len(q)
  BY <1>2, <1>3
<1>5. Reaches(q, q2) /\ Same(q, q2, "action")
  BY <1>1, <1>2 DEF Reaches, Same
<1>6. \A m, n, r : Copies(q2, m, n, r) = Copies(q, m, n, r)
  BY <1>1, <1>2 DEF Copies, Of
<1> QED BY <1>2, <1>4, <1>5, <1>6

LEMMA LinkCall == ASSUME IInv, CallInv, Link PROVE CallInv'
<1>0. /\ At("link") /\ Proceed /\ outbound' = Linked
      /\ UNCHANGED <<routing, sender, quarantine, dispatch, steady>>
  BY DEF Link
<1>a. "link" \notin WinningOps \cup AIActions \cup {"default_delivery", "enqueue"}
  BY DEF WinningOps, AIActions, TicketActions, SendingActions
<1>1. /\ Runs /\ DOMAIN now = Fields /\ Follows(Rest, now.todo, 0, 1)
  BY <1>0, FirstTask
<1>2. IsCall(now) /\ outbound \in Seq(OutRow)
  BY <1>1, CallFacts
<1>3. /\ Goes(now, now') /\ now'.todo = Rest /\ now'.action = now.action /\ now'.done = now.done
      /\ now'.falsePositive = now.falsePositive /\ now'.aiRules = now.aiRules
      /\ now'.swallowed = now.swallowed
  BY <1>0, <1>1, SetTodo DEF Proceed
<1>4. PICK q \in Seq(OutRow) : q = outbound
  BY <1>2
<1>5. PICK S, x : S = now.rows /\ x = now.fresh /\ x \in BOOLEAN
  BY <1>2 DEF IsCall
<1>6. PICK q2 : q2 = outbound'
  OBVIOUS
<1>7. Links(q2, q, S, x)
  BY <1>0, <1>4, <1>5, <1>6 DEF Linked, Links
<1>8. /\ q2 \in Seq(OutRow) /\ Len(q2) = Len(q) /\ DOMAIN q2 = DOMAIN q
      /\ Reaches(q, q2) /\ Same(q, q2, "action")
      /\ \A m, n, r : Copies(q2, m, n, r) = Copies(q, m, n, r)
  BY <1>5, <1>7, LinkedIs
<1>9. Kept(now, outbound, quarantine, dispatch) => Kept(now', outbound', quarantine', dispatch')
  <2>1. PICK c, d : c = now /\ d = now'
    OBVIOUS
  <2>2. PICK held, asked : held = quarantine /\ asked = dispatch
    OBVIOUS
  <2>3. Reaches(asked, asked) /\ Same(asked, asked, "kind")
    BY SameReaches
  <2>4. Kept(c, q, held, asked) => Kept(d, q2, held, asked)
    BY <1>3, <1>8, <2>1, <2>3, KeptMore DEF Goes
  <2> QED BY <1>0, <1>4, <1>6, <2>1, <2>2, <2>4
<1>10. \A i \in 1..0 : now'.todo[i].op = "reply"
  OBVIOUS
<1>11. \A r \in Rcpts : Copies(outbound', now.mail, now.try, r) = Copies(outbound, now.mail, now.try, r)
  BY <1>4, <1>6, <1>8
<1>12. CallSound' /\ Single' /\ Promised'
  <2>1. now.aiRules \in Nat
    BY <1>2 DEF IsCall
  <2> QED BY <1>0, <1>1, <1>3, <1>9, <1>10, <1>11, <1>a, <2>1, OnwardStep
<1>13. RowsSound'
  <2>1. ASSUME NEW i \in 1..Len(q2) PROVE q2[i].try <= sender[q2[i].mail].tries
    <3>1. i \in DOMAIN q /\ i \in 1..Len(q)
      BY <1>8, <2>1
    <3>2. q2[i].mail = q[i].mail /\ q2[i].try = q[i].try
      BY <1>8, <3>1 DEF Reaches
    <3>3. q[i].try <= sender[q[i].mail].tries
      BY <1>4, <3>1 DEF CallInv, RowsSound
    <3> QED BY <3>2, <3>3
  <2> QED BY <1>0, <1>6, <1>8, <2>1 DEF CallInv, RowsSound
<1> QED BY <1>12, <1>13 DEF CallInv

LEMMA OverCall ==
  ASSUME IInv, CallInv, LinkFails \/ DeadLetter \/ DeadLetterFails \/ Accept \/ Die
  PROVE  CallInv'
<1>0. /\ PipelineTypeOK /\ Busy /\ RowsSound /\ now.pc # "idle"
      /\ UNCHANGED <<outbound, dispatch, routing, steady>>
  BY DEF IInv, CallInv, LinkFails, At, DeadLetter, DeadLetterFails, Accept, Die, tables
<1>1. now'.pc # "running" /\ \A m \in Mails : sender'[m].tries = sender[m].tries
  <2>1. CASE LinkFails
    <3>1. "pc" \in DOMAIN now
      BY <1>0 DEF Busy
    <3> QED BY <2>1, <3>1 DEF LinkFails
  <2>2. CASE ~LinkFails
    <3>1. PICK phase : now' = Idle /\ sender' = [sender EXCEPT ![now.mail].phase = phase]
      BY <2>2 DEF DeadLetter, DeadLetterFails, Accept, Die, TryLater
    <3>2. now'.pc # "running"
      BY <3>1 DEF Idle
    <3>3. PICK k \in Mails : k = now.mail
      BY <1>0 DEF Busy
    <3>4. sender \in [Mails -> SenderRow]
      BY <1>0 DEF PipelineTypeOK, SenderRow
    <3>5. PICK new : new = [sender[k] EXCEPT !.phase = phase]
      OBVIOUS
    <3>6. new.tries = sender[k].tries
      <4>1. sender[k] \in SenderRow
        BY <3>4
      <4> QED BY <3>5, <4>1 DEF SenderRow
    <3>7. sender' = [sender EXCEPT ![k] = new]
      BY <3>1, <3>3, <3>5
    <3> QED BY <3>2, <3>4, <3>6, <3>7
  <2> QED BY <2>1, <2>2
<1>2. \A m \in Mails : sender[m].tries \in Nat
  BY <1>0, Constants DEF PipelineTypeOK
<1>3. \A m \in Mails : sender'[m].tries \in Nat /\ sender'[m].tries >= sender[m].tries
  BY <1>1, <1>2
<1>4. RowsSound'
  <2>1. steady' \in [Mails -> SUBSET Domains] /\ \A m \in Mails : steady'[m] \subseteq routing'
    BY <1>0 DEF RowsSound
  <2> QED BY <1>0, <1>2, <1>3, <2>1, RowsStay
<1>5. CallSound' /\ Single' /\ Promised'
  BY <1>1, CallOver
<1> QED BY <1>4, <1>5 DEF CallInv

LEMMA DeliveryCall == ASSUME IInv, CallInv, DefaultDelivery PROVE CallInv'
<1>0. /\ At("default_delivery")
      /\ UNCHANGED <<routing, sender, outbound, quarantine, dispatch, steady>>
  BY DEF DefaultDelivery, tables
<1>1. /\ Runs /\ DOMAIN now = Fields /\ now.todo \in Seq(Tasks) /\ now.todo # <<>>
      /\ now.todo[1].op = "default_delivery" /\ now.todo[1] = Task1 /\ Rest = Tail(now.todo)
  BY <1>0, FirstTask
<1>2. /\ sender[now.mail].rcpts \in SUBSET Rcpts /\ IsCall(now)
      /\ Fits(now.todo, now.action) /\ SingleOf(now, outbound)
      /\ PromisedOf(now, outbound, quarantine, dispatch, sender[now.mail].rcpts, steady[now.mail])
      /\ steady[now.mail] \subseteq routing
  BY <1>1, CallFacts
<1>3. PICK S : S = ManagedRcptDomains
  OBVIOUS
<1>4. PICK s \in Seq(Tasks) : s = now.todo /\ s # <<>> /\ s[1].op = "default_delivery"
  BY <1>1
<1>5. S \in SUBSET Domains
  BY <1>2, <1>3, PipelineAssumption DEF ManagedRcptDomains
<1>6. Cardinality(S) \in Nat
  <2>1. IsFiniteSet(S)
    BY <1>5, PipelineAssumption, FS_Subset
  <2> QED BY <2>1, FS_CardinalityType
<1>7. PICK u, a : /\ u = Parcels(s[1], S) \o Tail(s)
                  /\ a = IF s[1].part = "main" /\ S = {} THEN "received_only" ELSE now.action
  OBVIOUS
<1>8. Delivers(u, s, S)
  BY <1>4, <1>5, <1>7, DeliveryFollows
<1>9. now' = [now EXCEPT !.todo = u, !.action = a]
  BY <1>1, <1>3, <1>4, <1>7 DEF DefaultDelivery, Parcels
<1>10. /\ Goes(now, now') /\ now'.todo = u /\ now'.action = a /\ now'.done = now.done
       /\ now'.falsePositive = now.falsePositive /\ now'.aiRules = now.aiRules
       /\ now'.swallowed = now.swallowed
  BY <1>1, <1>9 DEF Goes, Fields
<1>11. PICK c, d : c = now /\ d = now'
  OBVIOUS
<1>12. PICK q, held, asked : q = outbound /\ held = quarantine /\ asked = dispatch
  OBVIOUS
<1>13. PICK rcpts \in SUBSET Rcpts : rcpts = sender[now.mail].rcpts
  BY <1>2
<1>14. PICK domains, managed : domains = steady[now.mail] /\ managed = routing
  OBVIOUS
<1>15. /\ domains \subseteq managed /\ S = DomainsIn(rcpts, managed)
       /\ Fits(c.todo, c.action) /\ SingleOf(c, q) /\ PromisedOf(c, q, held, asked, rcpts, domains)
  BY <1>2, <1>3, <1>11, <1>12, <1>13, <1>14 DEF ManagedRcptDomains, DomainsIn
<1>16. /\ d.mail = c.mail /\ d.try = c.try /\ d.aiRules = c.aiRules
       /\ d.falsePositive = c.falsePositive /\ d.done = c.done /\ d.swallowed = c.swallowed
       /\ c.todo[1].op = "default_delivery" /\ Delivers(d.todo, c.todo, S)
       /\ d.action = DeliveredAs(c, S)
  BY <1>4, <1>7, <1>8, <1>10, <1>11 DEF Goes, DeliveredAs
<1>17. /\ Fits(d.todo, d.action) /\ SingleOf(d, q)
       /\ PromisedOf(d, q, held, asked, rcpts, domains)
  <2>1. rcpts \in SUBSET Rcpts
    OBVIOUS
  <2> QED BY ONLY <1>6, <1>15, <1>16, <2>1, Delivered, SMTT(60)
<1>18. IsCall(now')
  <2>1. u \in Seq(Tasks)
    BY <1>8 DEF Delivers, Follows
  <2> QED BY <1>1, <1>2, <1>10, <2>1 DEF IsCall, Goes
<1>19. CallSound' /\ Single' /\ Promised'
  <2>1. now'.mail = now.mail
    BY <1>10 DEF Goes
  <2> QED BY <1>0, <1>11, <1>12, <1>13, <1>14, <1>17, <1>18, <2>1, CallAgain
<1>20. RowsSound'
  BY <1>0, <1>1, RowsAdded
<1> QED BY <1>19, <1>20 DEF CallInv

(* What the task of a domain does to the rows. *)
LEMMA DomainRows ==
  ASSUME IInv, CallInv, EnqueueDomain
  PROVE  /\ \/ outbound' = outbound
            \/ \E row \in OutRow : /\ row.mail = now.mail /\ row.try = now.try
                                   /\ outbound' = Append(outbound, row)
         /\ Reaches(outbound, outbound') /\ Same(outbound, outbound', "action")
         /\ \E x : \A r \in Rcpts :
              /\ Copies(outbound, now.mail, now.try, r) \subseteq Copies(outbound', now.mail, now.try, r)
              /\ Copies(outbound', now.mail, now.try, r)
                    \subseteq Copies(outbound, now.mail, now.try, r) \cup {x}
              /\ DomainOf[r] # now.todo[1].domain =>
                    Copies(outbound', now.mail, now.try, r) = Copies(outbound, now.mail, now.try, r)
              /\ r \in sender[now.mail].rcpts /\ DomainOf[r] = now.todo[1].domain
                    /\ DomainOf[r] \in routing => Copies(outbound', now.mail, now.try, r) # {}
<1>0. At("enqueue")
  BY DEF EnqueueDomain
<1>1. Runs /\ now.todo[1] = Task1
  BY <1>0, FirstTask
<1>2. /\ now.mail \in Mails /\ now.try \in 1..MaxTries /\ outbound \in Seq(OutRow)
      /\ sender[now.mail].rcpts \in SUBSET Rcpts
  BY <1>1, CallFacts
<1>3. CASE Task1.domain \in routing
  <2>1. PICK some \in SUBSET Rcpts :
           some = {r \in sender[now.mail].rcpts : DomainOf[r] = Task1.domain}
    BY <1>2
  <2>2. "default_delivery" \in Ops
    BY Kinds
  <2>3. PICK row \in OutRow : /\ row = OutboundRow("default_delivery", some)
                              /\ row.mail = now.mail /\ row.try = now.try
                              /\ row.action = "default_delivery" /\ row.rcpts = some
    BY <1>2, <2>2, OutboundRowIs
  <2>4. PICK q \in Seq(OutRow) : q = outbound
    BY <1>2
  <2>5. outbound' = Append(q, row)
    BY <1>3, <2>1, <2>3, <2>4 DEF EnqueueDomain, Enqueue
  <2>6. PICK m, n : m = now.mail /\ n = now.try
    OBVIOUS
  <2>7. Of(row, m, n)
    BY <2>3, <2>6 DEF Of
  <2>8. Reaches(q, Append(q, row)) /\ Same(q, Append(q, row), "action")
    BY AppendReaches
  <2>9. \A r \in Rcpts :
          /\ Copies(q, m, n, r) \subseteq Copies(Append(q, row), m, n, r)
          /\ Copies(Append(q, row), m, n, r) \subseteq Copies(q, m, n, r) \cup {Len(q) + 1}
          /\ r \notin row.rcpts => Copies(Append(q, row), m, n, r) = Copies(q, m, n, r)
          /\ r \in row.rcpts => Copies(Append(q, row), m, n, r) # {}
    BY <2>3, <2>7, AppendCopies
  <2>10. PICK x : x = Len(q) + 1
    OBVIOUS
  <2>11. \A r \in Rcpts : r \in row.rcpts <=>
            r \in sender[now.mail].rcpts /\ DomainOf[r] = now.todo[1].domain
    BY <1>1, <2>1, <2>3
  <2>12. \A r \in Rcpts :
              /\ Copies(outbound, now.mail, now.try, r) \subseteq Copies(outbound', now.mail, now.try, r)
              /\ Copies(outbound', now.mail, now.try, r)
                    \subseteq Copies(outbound, now.mail, now.try, r) \cup {x}
              /\ DomainOf[r] # now.todo[1].domain =>
                    Copies(outbound', now.mail, now.try, r) = Copies(outbound, now.mail, now.try, r)
              /\ r \in sender[now.mail].rcpts /\ DomainOf[r] = now.todo[1].domain
                    /\ DomainOf[r] \in routing => Copies(outbound', now.mail, now.try, r) # {}
    BY <2>4, <2>5, <2>6, <2>9, <2>10, <2>11
  <2> QED BY <2>3, <2>4, <2>5, <2>8, <2>12
<1>4. CASE Task1.domain \notin routing
  <2>1. UNCHANGED outbound
    BY <1>4 DEF EnqueueDomain
  <2> QED BY <1>1, <1>4, <2>1, SameReaches
<1> QED BY <1>3, <1>4

LEMMA DomainCall == ASSUME IInv, CallInv, EnqueueDomain PROVE CallInv'
<1>0. At("enqueue") /\ UNCHANGED <<routing, sender, quarantine, dispatch, steady>>
  BY DEF EnqueueDomain
<1>1. /\ Runs /\ DOMAIN now = Fields /\ Follows(Rest, now.todo, 0, 1) /\ now.todo[1].op = "enqueue"
  BY <1>0, FirstTask
<1>2. /\ sender[now.mail].rcpts \in SUBSET Rcpts /\ IsCall(now)
      /\ Fits(now.todo, now.action) /\ SingleOf(now, outbound)
      /\ PromisedOf(now, outbound, quarantine, dispatch, sender[now.mail].rcpts, steady[now.mail])
      /\ steady[now.mail] \subseteq routing
  BY <1>1, CallFacts
<1>3. /\ Goes(now, now') /\ now'.todo = Rest /\ now'.action = now.action /\ now'.done = now.done
      /\ now'.falsePositive = now.falsePositive /\ now'.aiRules = now.aiRules
      /\ now'.swallowed = now.swallowed
  <2>1. CASE now' = [now EXCEPT !.todo = Rest, !.rows = QueueIds]
    BY <1>1, <2>1 DEF Goes, Fields
  <2>2. CASE Proceed
    BY <1>1, <2>2, SetTodo DEF Proceed
  <2> QED BY <2>1, <2>2 DEF EnqueueDomain
<1>4. /\ \/ outbound' = outbound
         \/ \E row \in OutRow : /\ row.mail = now.mail /\ row.try = now.try
                                /\ outbound' = Append(outbound, row)
      /\ Reaches(outbound, outbound') /\ Same(outbound, outbound', "action")
  BY DomainRows
<1>5. PICK c, d : c = now /\ d = now'
  OBVIOUS
<1>6. PICK q, q2, held, asked : q = outbound /\ q2 = outbound' /\ held = quarantine /\ asked = dispatch
  OBVIOUS
<1>7. PICK rcpts \in SUBSET Rcpts : rcpts = sender[now.mail].rcpts
  BY <1>2
<1>8. PICK domains, managed : domains = steady[now.mail] /\ managed = routing
  OBVIOUS
<1>9. PICK x : Rowed(c, q, q2, rcpts, managed, x)
  BY <1>5, <1>6, <1>7, <1>8, DomainRows DEF Rowed
<1>10. /\ domains \subseteq managed
       /\ Fits(c.todo, c.action) /\ SingleOf(c, q) /\ PromisedOf(c, q, held, asked, rcpts, domains)
  BY <1>2, <1>5, <1>6, <1>7, <1>8
<1>11. /\ d.mail = c.mail /\ d.try = c.try /\ d.action = c.action /\ d.aiRules = c.aiRules
       /\ d.falsePositive = c.falsePositive /\ d.done = c.done /\ d.swallowed = c.swallowed
       /\ c.todo[1].op = "enqueue" /\ Follows(d.todo, c.todo, 0, 1)
  BY <1>1, <1>3, <1>5 DEF Goes
<1>12. Kept(c, q, held, asked) => Kept(d, q2, held, asked)
  <2>1. Reaches(asked, asked) /\ Same(asked, asked, "kind")
    BY SameReaches
  <2> QED BY <1>4, <1>6, <1>11, <2>1, KeptMore
<1>13. /\ Fits(d.todo, d.action) /\ SingleOf(d, q2)
       /\ PromisedOf(d, q2, held, asked, rcpts, domains)
  <2>1. rcpts \in SUBSET Rcpts
    OBVIOUS
  <2> QED BY ONLY <1>9, <1>10, <1>11, <1>12, <2>1, Enqueued, SMTT(60)
<1>14. IsCall(now')
  <2>1. Rest \in Seq(Tasks)
    BY <1>1 DEF Follows
  <2> QED BY <1>1, <1>2, <1>3, <2>1 DEF IsCall, Goes
<1>15. CallSound' /\ Single' /\ Promised'
  <2>1. now'.mail = now.mail
    BY <1>3 DEF Goes
  <2> QED BY <1>0, <1>5, <1>6, <1>7, <1>8, <1>13, <1>14, <2>1, CallAgain
<1>16. RowsSound'
  BY <1>0, <1>1, <1>4, RowsAdded
<1> QED BY <1>15, <1>16 DEF CallInv

LEMMA FaultCall == ASSUME IInv, CallInv, Fault PROVE CallInv'
<1>0. /\ now.pc = "running" /\ now.todo # <<>>
      /\ UNCHANGED <<routing, sender, outbound, quarantine, dispatch, steady>>
  BY DEF Fault, tables
<1>1. /\ Runs /\ DOMAIN now = Fields /\ now.todo \in Seq(Tasks) /\ now.todo[1] = Task1
  <2>1. PICK op : op = Head(now.todo).op
    OBVIOUS
  <2>2. At(op)
    BY <1>0, <2>1 DEF At
  <2> QED BY <2>2, FirstTask
<1>2. /\ IsCall(now) /\ Fits(now.todo, now.action) /\ SingleOf(now, outbound)
      /\ PromisedOf(now, outbound, quarantine, dispatch, sender[now.mail].rcpts, steady[now.mail])
  BY <1>1, CallFacts
<1>3. RowsSound'
  BY <1>0, <1>1, RowsAdded
<1>4. ASSUME Swallowed(Task1), NEW rest \in AfterBlock(Task1),
             now' = [now EXCEPT !.todo = rest, !.swallowed = TRUE]
      PROVE  CallSound' /\ Single' /\ Promised'
  <2>1. PICK s \in Seq(Tasks) : s = now.todo
    BY <1>1
  <2>2. PICK n \in 1..Len(s) : /\ \A i \in 1..n : GivenUp(s[1], s[i])
                               /\ n < Len(s) => ~GivenUp(s[1], s[n + 1])
                               /\ rest = SubSeq(s, n + 1, Len(s))
    BY <1>1, <1>4, <2>1 DEF AfterBlock
  <2>3. Follows(rest, s, 0, n)
    BY <2>2, RestFollows
  <2>4. /\ Goes(now, now') /\ now'.todo = rest /\ now'.action = now.action /\ now'.done = now.done
        /\ now'.falsePositive = now.falsePositive /\ now'.aiRules = now.aiRules
        /\ now'.swallowed
    BY <1>1, <1>4 DEF Goes, Fields
  <2>5. PICK c, d : c = now /\ d = now'
    OBVIOUS
  <2>6. PICK q, held, asked : q = outbound /\ held = quarantine /\ asked = dispatch
    OBVIOUS
  <2>7. PICK rcpts, domains : rcpts = sender[now.mail].rcpts /\ domains = steady[now.mail]
    OBVIOUS
  <2>8. Fits(c.todo, c.action) /\ SingleOf(c, q) /\ PromisedOf(c, q, held, asked, rcpts, domains)
    BY <1>2, <2>5, <2>6, <2>7
  <2>9. /\ d.mail = c.mail /\ d.try = c.try /\ d.action = c.action /\ d.aiRules = c.aiRules
        /\ d.falsePositive = c.falsePositive /\ d.done = c.done /\ d.swallowed
        /\ Follows(d.todo, c.todo, 0, n) /\ Swallowed(c.todo[1])
        /\ \A i \in 1..n : GivenUp(c.todo[1], c.todo[i])
        /\ n < Len(c.todo) => ~GivenUp(c.todo[1], c.todo[n + 1])
    BY <1>1, <1>4, <2>1, <2>2, <2>3, <2>4, <2>5 DEF Goes
  <2>10. /\ Fits(d.todo, d.action) /\ SingleOf(d, q)
         /\ PromisedOf(d, q, held, asked, rcpts, domains)
    BY ONLY <2>8, <2>9, Dropped, SMTT(60)
  <2>11. IsCall(now')
    <3>1. rest \in Seq(Tasks)
      BY <2>3 DEF Follows
    <3> QED BY <1>1, <1>2, <2>4, <3>1 DEF IsCall, Goes
  <2> QED
    <3>1. now'.mail = now.mail
      BY <2>4 DEF Goes
    <3> QED BY <1>0, <2>5, <2>6, <2>7, <2>10, <2>11, <3>1, CallAgain
<1>5. ASSUME now' = [now EXCEPT !.pc = "failed"] PROVE CallSound' /\ Single' /\ Promised'
  <2>1. now'.pc = "failed"
    BY <1>1, <1>5 DEF Fields
  <2> QED BY <2>1, CallOver
<1> QED BY <1>3, <1>4, <1>5 DEF Fault, CallInv

LEMMA SyncCall == ASSUME IInv, CallInv, Sync PROVE CallInv'
<1>0. /\ UNCHANGED <<sender, now, outbound, quarantine, dispatch>>
      /\ RowsSound /\ CallSound /\ Single /\ Promised
  BY DEF Sync, tables, CallInv
<1>1. PICK r \in Routings : routing' = r /\ steady' = [m \in Mails |-> steady[m] \cap r]
  BY DEF Sync
<1>2. \A m \in Mails : steady'[m] \subseteq steady[m] /\ steady'[m] \subseteq routing'
  BY <1>1
<1>3. steady' \in [Mails -> SUBSET Domains]
  BY <1>0, <1>1 DEF RowsSound
<1>4. RowsSound'
  <2>1. \A m \in Mails : sender[m].tries \in Nat
    BY Constants DEF IInv, PipelineTypeOK
  <2>2. \A m \in Mails : sender'[m].tries \in Nat /\ sender'[m].tries >= sender[m].tries
    BY <1>0, <2>1
  <2> QED BY <1>0, <1>2, <1>3, <2>1, <2>2, RowsStay
<1>5. CallSound' /\ Single'
  BY <1>0 DEF CallSound, Single, Runs
<1>6. Promised'
  <2>1. SUFFICES ASSUME Runs
                 PROVE  PromisedOf(now, outbound, quarantine, dispatch, sender[now.mail].rcpts,
                                   steady'[now.mail])
    BY <1>0 DEF Promised, Runs
  <2>2. now.mail \in Mails
    BY <2>1, CallFacts
  <2>3. PICK c, q, held, asked : c = now /\ q = outbound /\ held = quarantine /\ asked = dispatch
    OBVIOUS
  <2>4. PICK rcpts, domains, fewer : /\ rcpts = sender[now.mail].rcpts
                                     /\ domains = steady[now.mail] /\ fewer = steady'[now.mail]
    OBVIOUS
  <2>5. fewer \subseteq domains /\ PromisedOf(c, q, held, asked, rcpts, domains)
    BY <1>0, <1>2, <2>1, <2>2, <2>3, <2>4 DEF Promised
  <2>6. \A parts : Comings(c, q, parts, rcpts, domains) => Comings(c, q, parts, rcpts, fewer)
    BY <2>5 DEF Comings
  <2>7. PromisedOf(c, q, held, asked, rcpts, fewer)
    BY <2>5, <2>6 DEF PromisedOf
  <2> QED BY <2>3, <2>4, <2>7
<1> QED BY <1>4, <1>5, <1>6 DEF CallInv

LEMMA RcptCall == ASSUME IInv, CallInv, NEW m \in Mails, Rcpt(m) PROVE CallInv'
<1>0. /\ PipelineTypeOK /\ RowsSound /\ now.pc = "idle"
      /\ UNCHANGED <<routing, now, outbound, dispatch>>
      /\ steady' = [steady EXCEPT ![m] = routing]
      /\ sender' = [sender EXCEPT
            ![m].phase = IF AcceptedRcpts(m) = {} THEN "refused" ELSE "session",
            ![m].rcpts = AcceptedRcpts(m)]
  BY DEF IInv, CallInv, Rcpt, tables
<1>1. /\ sender \in [Mails -> SenderRow] /\ routing \in SUBSET Domains
  BY <1>0 DEF PipelineTypeOK, SenderRow
<1>2. \A k \in Mails : sender'[k].tries = sender[k].tries
  <2>1. PICK phase, rcpts : sender' = [sender EXCEPT ![m].phase = phase, ![m].rcpts = rcpts]
    BY <1>0
  <2>2. PICK new : new = [sender[m] EXCEPT !.phase = phase, !.rcpts = rcpts]
    OBVIOUS
  <2>3. new.tries = sender[m].tries
    <3>1. sender[m] \in SenderRow
      BY <1>1
    <3> QED BY <2>2, <3>1 DEF SenderRow
  <2>4. sender' = [sender EXCEPT ![m] = new]
    BY <1>1, <2>1, <2>2
  <2> QED BY <1>1, <2>3, <2>4
<1>3. \A k \in Mails : sender[k].tries \in Nat
  BY <1>1, Constants DEF SenderRow
<1>4. /\ steady' \in [Mails -> SUBSET Domains] /\ \A k \in Mails : steady'[k] \subseteq routing'
  BY <1>0, <1>1 DEF RowsSound
<1>5. RowsSound'
  <2>1. \A k \in Mails : sender'[k].tries \in Nat /\ sender'[k].tries >= sender[k].tries
    BY <1>2, <1>3
  <2> QED BY <1>0, <1>3, <1>4, <2>1, RowsStay
<1>6. CallSound' /\ Single' /\ Promised'
  BY <1>0, CallOver
<1> QED BY <1>5, <1>6 DEF CallInv

LEMMA DataCall == ASSUME IInv, CallInv, NEW m \in Mails, Data(m) PROVE CallInv'
<1>0. /\ PipelineTypeOK /\ Busy /\ RowsSound
      /\ UNCHANGED <<routing, outbound, quarantine, dispatch, steady>>
      /\ sender' = [sender EXCEPT ![m].phase = "processing", ![m].tries = @ + 1]
  BY DEF IInv, CallInv, Data, tables
<1>1. PICK route \in Routes, matched \in RuleLists, shadow \in BOOLEAN :
        now' = [pc |-> "running", mail |-> m, try |-> sender[m].tries + 1,
                fresh |-> route = "privacy_bypass", matched |-> matched,
                todo |-> RouteTasks(route, matched, shadow),
                action |-> FirstAction(route, matched, shadow),
                done |-> TRUE, falsePositive |-> FALSE,
                rows |-> {}, aiRules |-> 0, swallowed |-> FALSE]
  BY DEF Data
<1>2. PICK old \in SenderRow : old = sender[m]
  BY <1>0 DEF PipelineTypeOK, SenderRow
<1>3. /\ sender \in [Mails -> SenderRow] /\ old.tries \in Nat /\ old.rcpts \in SUBSET Rcpts
  BY <1>0, Constants DEF PipelineTypeOK, SenderRow
<1>4. PICK new : new = [old EXCEPT !.phase = "processing", !.tries = @ + 1]
  OBVIOUS
<1>5. new.tries = old.tries + 1 /\ new.rcpts = old.rcpts
  BY <1>4 DEF SenderRow
<1>6. sender' = [sender EXCEPT ![m] = new]
  BY <1>0, <1>2, <1>3, <1>4
<1>7. \A k \in Mails : /\ sender[k].tries \in Nat /\ sender'[k].tries \in Nat
                       /\ sender'[k].tries >= sender[k].tries
  <2>1. \A k \in Mails : sender[k].tries \in Nat
    BY <1>3, Constants DEF SenderRow
  <2> QED BY <1>2, <1>3, <1>5, <1>6, <2>1
<1>8. RowsSound'
  <2>1. steady' \in [Mails -> SUBSET Domains] /\ \A k \in Mails : steady'[k] \subseteq routing'
    BY <1>0 DEF RowsSound
  <2> QED BY <1>0, <1>7, <2>1, RowsStay
<1>9. PICK u, a : u = RouteTasks(route, matched, shadow) /\ a = FirstAction(route, matched, shadow)
  OBVIOUS
<1>10. Begun(u, a)
  BY <1>9, FirstBegun
<1>11. matched \in Seq(Rules)
  BY PipelineAssumption
<1>12. a # "received_only"
  <2>1. matched # <<>> => matched[1] \in Rules
    BY <1>11
  <2>2. matched # <<>> => matched[1].action \in Actions
    BY <2>1, RuleTypes
  <2> QED BY <1>9, <2>2 DEF FirstAction, Actions, ActiveActions, PassiveActions, SendingActions,
                                TicketActions
<1>13. /\ DOMAIN now' = Fields /\ now'.mail = m /\ now'.try = old.tries + 1 /\ now'.todo = u
       /\ now'.action = a /\ now'.matched = matched /\ now'.aiRules = 0 /\ ~now'.falsePositive
       /\ now'.fresh \in BOOLEAN
  BY <1>1, <1>2, <1>9 DEF Fields
<1>14. \A r \in Rcpts : Copies(outbound, m, old.tries + 1, r) = {}
  <2>1. SUFFICES ASSUME NEW i \in DOMAIN outbound, Of(outbound[i], m, old.tries + 1) PROVE FALSE
    BY DEF Copies
  <2>2. i \in 1..Len(outbound) /\ outbound[i].mail = m /\ outbound[i].try = old.tries + 1
    BY <1>0, <2>1 DEF RowsSound, Of
  <2>3. outbound[i].try <= old.tries
    BY <1>0, <1>2, <2>2 DEF RowsSound
  <2> QED BY <1>3, <2>2, <2>3
<1>15. PICK d, q, held, asked : d = now' /\ q = outbound /\ held = quarantine /\ asked = dispatch
  OBVIOUS
<1>16. PICK domains : domains = steady[m]
  OBVIOUS
<1>17. PICK rcpts \in SUBSET Rcpts : rcpts = old.rcpts
  BY <1>3
<1>18. /\ Begun(d.todo, d.action) /\ d.action # "received_only"
       /\ \A r \in Rcpts : Copies(q, d.mail, d.try, r) = {}
  BY <1>10, <1>12, <1>13, <1>14, <1>15
<1>19. /\ Fits(d.todo, d.action) /\ SingleOf(d, q)
       /\ PromisedOf(d, q, held, asked, rcpts, domains)
  BY <1>18, Started
<1>20. IsCall(now')
  <2>1. u \in Seq(Tasks)
    BY <1>10 DEF Begun
  <2> QED BY <1>11, <1>13, <2>1 DEF IsCall
<1>21. sender'[m].rcpts = rcpts
  BY <1>3, <1>5, <1>6, <1>17
<1>22. CallSound' /\ Single' /\ Promised'
  BY <1>0, <1>13, <1>15, <1>16, <1>19, <1>20, <1>21, CallAgain
<1> QED BY <1>8, <1>22 DEF CallInv

LEMMA InitCall == Init => CallInv
<1> SUFFICES ASSUME Init PROVE CallInv
  OBVIOUS
<1>1. ~Runs
  BY DEF Init, Runs, Idle
<1>2. RowsSound
  BY DEF Init, RowsSound
<1> QED BY <1>1, <1>2 DEF CallInv, CallSound, Single, Promised

LEMMA StepCall == IInv /\ CallInv /\ [Next]_vars => CallInv'
<1> SUFFICES ASSUME IInv, CallInv, [Next]_vars PROVE CallInv'
  OBVIOUS
<1>1. CASE Sync
  BY <1>1, SyncCall
<1>2. CASE \E m \in Mails : Rcpt(m) \/ Data(m)
  BY <1>2, RcptCall, DataCall
<1>3. CASE Step
  <2>1. CASE DefaultDelivery
    BY <2>1, DeliveryCall
  <2>2. CASE EnqueueDomain
    BY <2>2, DomainCall
  <2>3. CASE Quarantine
    BY <2>3, QuarantineCall
  <2>4. CASE AutoReply \/ Forward \/ Redirect
    <3>1. PICK op \in SendingActions : At(op) /\ SendAs(op)
      BY <2>4 DEF AutoReply, Forward, Redirect, SendingActions
    <3> QED BY <3>1, SendCall
  <2>5. CASE AlsoDeliver \/ TemplateReply
    BY <2>5, CopyCall
  <2>6. CASE CreateTicket
    BY <2>6, CreateTicketCall
  <2>7. CASE CodeValid \/ CodeRefused
    BY <2>7, CodeCall
  <2>8. CASE AIClassify \/ AIFailsafe \/ AITaxonomy
    BY <2>8, AICall
  <2>9. CASE Ignore \/ InsertEvent
    BY <2>9, QuietCall
  <2>10. CASE EvaluateAgain
    BY <2>10, AgainCall
  <2>11. CASE Link
    BY <2>11, LinkCall
  <2>12. CASE LinkFails \/ DeadLetter \/ Accept
    BY <2>12, OverCall
  <2> QED BY <1>3, <2>1, <2>2, <2>3, <2>4, <2>5, <2>6, <2>7, <2>8, <2>9, <2>10, <2>11, <2>12 DEF Step
<1>4. CASE Fault
  BY <1>4, FaultCall
<1>5. CASE DeadLetterFails \/ Die
  BY <1>5, OverCall
<1>6. CASE UNCHANGED vars
  BY <1>6 DEF vars, CallInv, RowsSound, CallSound, Single, Promised, Runs
<1> QED BY <1>1, <1>2, <1>3, <1>4, <1>5, <1>6 DEF Next

(* So do the tasks of the call in hand and what it has done (CallInv).     *)
THEOREM CallCorrect == Spec => [](IInv /\ CallInv)
<1>1. Init => IInv /\ CallInv
  BY InitInv, InitCall
<1>2. IInv /\ CallInv /\ [Next]_vars => (IInv /\ CallInv)'
  BY StepInv, StepCall
<1> QED BY <1>1, <1>2, PTL DEF Spec

LEMMA CopiesAre ==
  ASSUME NEW m, NEW n, NEW r PROVE Originals(m, n, r) = Copies(outbound, m, n, r)
BY DEF Originals, Copies

LEMMA AtMostOne ==
  ASSUME NEW S, \A x, y \in S : x = y
  PROVE  ~(Cardinality(S) > 1)
<1>1. CASE S = {}
  BY <1>1, FS_EmptySet
<1>2. CASE S # {}
  <2>1. PICK x : x \in S
    BY <1>2
  <2>2. S = {x}
    BY <2>1
  <2>3. Cardinality({x}) = 1
    BY FS_Singleton
  <2> QED BY <2>2, <2>3
<1> QED BY <1>1, <1>2

(* Whatever the rules, the syncs and the failures: one attempt queues a    *)
(* second original for a recipient only when an AI rule ran or the rules   *)
(* were evaluated again.                                                   *)
THEOREM Explained == Spec => []OriginalsExplained
<1>1. IInv /\ CallInv => OriginalsExplained
  <2> SUFFICES ASSUME IInv, CallInv, Runs, NEW r \in sender[now.mail].rcpts,
                      Cardinality(Originals(now.mail, now.try, r)) > 1
               PROVE  now.aiRules > 0 \/ now.falsePositive
    BY DEF OriginalsExplained, Runs
  <2>1. r \in Rcpts /\ now.aiRules \in Nat /\ SingleOf(now, outbound)
    BY CallFacts DEF IsCall
  <2>2. ~ \A x, y \in Originals(now.mail, now.try, r) : x = y
    BY AtMostOne
  <2>3. ~ \A x, y \in Copies(outbound, now.mail, now.try, r) : x = y
    BY <2>2, CopiesAre
  <2>4. ~(now.aiRules = 0 /\ ~now.falsePositive)
    BY <2>1, <2>3 DEF SingleOf
  <2> QED BY <2>1, <2>4
<1> QED BY <1>1, CallCorrect, PTL

(* A call that is done has done what action_taken says. *)
LEMMA DoneIsKept ==
  ASSUME IInv, CallInv, now.pc = "running", now.todo = <<>>
  PROVE  KeptAs(now.action)
<1>1. /\ PromisedOf(now, outbound, quarantine, dispatch, sender[now.mail].rcpts, steady[now.mail])
      /\ sender[now.mail].rcpts \in SUBSET Rcpts
  BY CallFacts DEF Runs
<1>2. \A parts, d : ~Comes(now.todo, parts, d)
  BY DEF Comes
<1>3. ~Pending(now)
  BY DEF Pending
<1>4. ASSUME NEW parts,
             Comings(now, outbound, parts, sender[now.mail].rcpts, steady[now.mail])
      PROVE  AllDelivered
  BY <1>2, <1>4, CopiesAre DEF Comings, AllDelivered
<1>5. /\ Kept(now, outbound, quarantine, dispatch)
      /\ now.action \in {"default_delivery", "received_only"} => AllDelivered
      /\ now.action \in AIActions => now.swallowed \/ AllDelivered
  BY <1>1, <1>3, <1>4 DEF PromisedOf
<1>6. CASE now.action = "quarantine"
  BY <1>5, <1>6 DEF Kept, KeptAs, Has
<1>7. CASE now.action = "create_ticket"
  BY <1>5, <1>7 DEF Kept, KeptAs, Has
<1>8. CASE now.action = "create_authorized_ticket"
  BY <1>5, <1>8 DEF Kept, KeptAs, Has
<1>9. CASE now.action \in SendingActions
  BY <1>5, <1>9 DEF Kept, KeptAs, Has, SendingActions
<1>10. CASE now.action \in {"default_delivery", "received_only"}
  BY <1>5, <1>10 DEF KeptAs, SendingActions
<1>11. CASE now.action \in AIActions
  BY <1>5, <1>11 DEF KeptAs, SendingActions, AIActions
<1>12. CASE now.action \notin {"quarantine", "create_ticket", "create_authorized_ticket"}
                           \cup SendingActions \cup {"default_delivery", "received_only"} \cup AIActions
  BY <1>12 DEF KeptAs
<1> QED BY <1>6, <1>7, <1>8, <1>9, <1>10, <1>11, <1>12

(* For any rules, routes, syncs and failures that except clauses swallow:  *)
(* a mail that is answered 250 is where action_taken says it is.           *)
THEOREM Accepted == Spec => AcceptedIsKept
<1>1. IInv /\ CallInv /\ [Next]_vars =>
        [(now.pc = "running" /\ now.todo = <<>> /\ now'.pc = "idle"
            /\ sender'[now.mail].phase = "accepted") => KeptAs(now.action)]_vars
  BY DoneIsKept
<1> QED BY <1>1, CallCorrect, PTL DEF Spec, AcceptedIsKept
=============================================================================
