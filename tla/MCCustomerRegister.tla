------------------------- MODULE MCCustomerRegister -------------------------
(* Instances of CustomerRegister for TLC: two customers, two profiles of a *)
(* week of two days, a clock of four minutes.                              *)
EXTENDS CustomerRegister

CONSTANTS c1, c2, std, h24

Daily(windows) == [d \in 0..(Week - 1) |-> windows]
Weekly(windows) == [d \in 0..(Week - 1) |-> IF d = 0 THEN windows ELSE {}]

Morning == {[from |-> 0, to |-> 1], [from |-> 2, to |-> 3]}
AllDay == {[from |-> 0, to |-> LastMinute]}
Midnight == {[from |-> 1, to |-> LastMinute + 1], [from |-> 2, to |-> 1]}

MCBuiltIn == [p \in 1..2 |->
    IF p = 1 THEN [code |-> std, schedule |-> Weekly(Morning), holidays |-> {}, builtin |-> TRUE,
                   auto |-> TRUE, enabled |-> TRUE]
    ELSE [code |-> h24, schedule |-> Daily(AllDay), holidays |-> {}, builtin |-> TRUE,
          auto |-> FALSE, enabled |-> TRUE]]

MCSchedules == {Daily(Midnight)}

Says(active, excluded, code) == [active |-> active, excluded |-> excluded, code |-> code]
MCSettings == {Says(TRUE, FALSE, h24), Says(FALSE, FALSE, std), Says(TRUE, TRUE, std)}

All == [c \in Customers |-> TRUE]
First(c2s, old) ==
    [names |-> All,
     settings |-> [c \in Customers |-> IF c = c1 THEN Says(FALSE, FALSE, std) ELSE c2s],
     domains |-> All, aliases |-> All, hours |-> [c \in Customers |-> c = c1], oldHours |-> old]

MCRegisters == {First(Says(TRUE, FALSE, h24), All)}

\* For the deviations: c2 is excluded, or has no settings.
Nobody == [c \in Customers |-> FALSE]
Others == {First(s, Nobody) : s \in {Says(TRUE, TRUE, std), NoSetting}}
=============================================================================
