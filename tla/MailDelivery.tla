---------------------------- MODULE MailDelivery ----------------------------
(***************************************************************************)
(* What the relay promises for a mail it has queued, without saying how:   *)
(* the mail is transmitted to its recipients any number of times while it  *)
(* is queued, and it is settled exactly once, either as delivered, when    *)
(* every recipient has a copy, or as quarantined, when a copy is kept for  *)
(* an operator.  Nothing leaves the relay for a settled mail.              *)
(*                                                                         *)
(* OutboundQueue implements this module.                                   *)
(***************************************************************************)
EXTENDS Naturals

CONSTANTS Mails,       \* identities of queued mails
          Addresses    \* recipient addresses

VARIABLES status,      \* status[m]: where mail m stands
          rcpt,        \* rcpt[m]: the recipients of m
          copies       \* copies[m][a]: copies of m handed over for address a

vars == <<status, rcpt, copies>>

Status == {"none", "queued", "delivered", "quarantined"}

Init ==
    /\ status = [m \in Mails |-> "none"]
    /\ rcpt = [m \in Mails |-> {}]
    /\ copies = [m \in Mails |-> [a \in Addresses |-> 0]]

Accept(m) ==
    /\ status[m] = "none"
    /\ \E R \in SUBSET Addresses : rcpt' = [rcpt EXCEPT ![m] = R]
    /\ status' = [status EXCEPT ![m] = "queued"]
    /\ UNCHANGED copies

Transmit(m) ==
    /\ status[m] = "queued"
    /\ \E A \in SUBSET rcpt[m] :
          copies' = [copies EXCEPT ![m] =
                        [a \in Addresses |-> IF a \in A THEN @[a] + 1 ELSE @[a]]]
    /\ UNCHANGED <<status, rcpt>>

Settle(m) ==
    /\ status[m] = "queued"
    /\ \/ /\ rcpt[m] # {}
          /\ \A a \in rcpt[m] : copies[m][a] > 0
          /\ status' = [status EXCEPT ![m] = "delivered"]
       \/ status' = [status EXCEPT ![m] = "quarantined"]
    /\ UNCHANGED <<rcpt, copies>>

Next == \E m \in Mails : Accept(m) \/ Transmit(m) \/ Settle(m)

\* The safety half of the promise, the part that is proved.
Safety == Init /\ [][Next]_vars

\* A queued mail does not stay queued for ever.
Spec == Safety /\ \A m \in Mails : WF_vars(Settle(m))
=============================================================================
