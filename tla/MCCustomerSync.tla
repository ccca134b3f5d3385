--------------------------- MODULE MCCustomerSync ---------------------------
(* Instances of CustomerSync for TLC. *)
EXTENDS CustomerSync

CONSTANTS c1, c2, c3, s1, s2

Three == {c1, c2, c3}
Pair == {c1, c2}
One == {s1}
Both == {s1, s2}
Threads == {1, 2}

Holds(active, inactive, silent) ==
    [c \in Customers |-> IF c \in active THEN "active" ELSE IF c \in inactive THEN "inactive"
                         ELSE IF c \in silent THEN "silent" ELSE "absent"]

\* One source that may answer with a third of its customers.
Shrinking == [s \in Sources |-> {Holds(Customers, {}, {}), Holds({}, {c1}, {})}]

\* Two sources: both have c1, one has c2 and says nothing about its contract.
Shared == [s \in Sources |->
    IF s = s1 THEN {Holds({c1}, {}, {c2}), Holds({c1}, {}, {}), Holds({}, {}, {c2})}
    ELSE {Holds({c1}, {}, {})}]
=============================================================================
