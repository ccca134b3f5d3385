----------------------------- MODULE MCAuthCodes -----------------------------
(* Two urgent mails of rules of two tenants and one mail that asks for a code. *)
EXTENDS AuthCodes, TLC

CONSTANTS c1, c2, t1, t2, u1, u2, a1

MCMailTenant == (u1 :> t1) @@ (u2 :> t2) @@ (a1 :> t1)

(* No permanent code yet, or one of the first tenant. *)
OneOrNone ==
    {[c \in Codes |-> NoRow]} \cup
    {[c \in Codes |-> IF c = d THEN [tenant |-> t1, revoked |-> FALSE] ELSE NoRow] : d \in Codes}

Alike == Permutations({c1, c2})
=============================================================================
