----------------------------- MODULE Redemption -----------------------------
(***************************************************************************)
(* What a one-shot authorisation code promises, whoever loses an answer or *)
(* dies in between: an issue of a code is redeemed by one visit at most,   *)
(* and only the visit that redeemed it may open a ticket on it, once.      *)
(***************************************************************************)
CONSTANTS
    Issues,   \* identities of the codes ever issued (the ids of their rows)
    Visits    \* deliveries of a mail that carries a code

VARIABLES
    status,   \* per issue: "unissued", "open", "redeemed", "closed"
    redeemed, \* pairs <<issue, visit>>
    opened    \* pairs <<issue, visit>> of the tickets opened

Init ==
    /\ status = [i \in Issues |-> "unissued"]
    /\ redeemed = {} /\ opened = {}

Issue(i) ==
    /\ status[i] = "unissued"
    /\ status' = [status EXCEPT ![i] = "open"]
    /\ UNCHANGED <<redeemed, opened>>

Redeem(i, v) ==
    /\ status[i] = "open"
    /\ status' = [status EXCEPT ![i] = "redeemed"]
    /\ redeemed' = redeemed \cup {<<i, v>>}
    /\ UNCHANGED opened

\* Deleted before anybody used them, one or, in a cleanup, several at once.
Close(gone) ==
    /\ \A i \in gone : status[i] = "open"
    /\ status' = [i \in Issues |-> IF i \in gone THEN "closed" ELSE status[i]]
    /\ UNCHANGED <<redeemed, opened>>

Open(i, v) ==
    /\ <<i, v>> \in redeemed
    /\ \A w \in Visits : <<i, w>> \notin opened
    /\ opened' = opened \cup {<<i, v>>}
    /\ UNCHANGED <<status, redeemed>>

Next ==
    \/ \E i \in Issues : Issue(i)
    \/ \E i \in Issues, v \in Visits : Redeem(i, v) \/ Open(i, v)
    \/ \E gone \in SUBSET Issues : Close(gone)

vars == <<status, redeemed, opened>>
Spec == Init /\ [][Next]_vars
=============================================================================
