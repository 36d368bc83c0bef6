---------------------------- MODULE MCSafetyParts ----------------------------
(* One run for the parts of Services: each of them starts in its own initial *)
(* state and takes its own steps.                                            *)
EXTENDS Services

CONSTANTS r1, r2, m1, k1, k2, a, b, c, o1, o2

all == <<part, vars, x1, x2, x3, x4, x5, x6, x7, x8, x9, x10, x11, x12, x13, x14, x15, x16,
         x17, x18, x19, x20>>

SmallCatalogs == {{1}, {1, 2}}
\* Two orders, and sales of one item with the unnamed one, or of the other.
Listed == [o \in {o1, o2} |-> IF o = o1 THEN [item |-> a, qty |-> 3] ELSE [item |-> b, qty |-> 1]]
Sales  == {[i \in {a, b, c} |-> IF i = a THEN 2 ELSE IF i = c THEN 1 ELSE 0],
           [i \in {a, b, c} |-> IF i = c THEN 0 ELSE 1]}

\* Those from x(n+1) on.
After19 == <<x20>>
After15 == <<x16, x17, x18, x19, After19>>
After12 == <<x13, x14, x15, After15>>
After11 == <<x12, After12>>
After10 == <<x11, After11>>
After7 == <<x8, x9, x10, After10>>
After5 == <<x6, x7, After7>>
After0 == <<x1, x2, x3, x4, x5, After5>>

None19 == x20 = None
None15 == x16 = None /\ x17 = None /\ x18 = None /\ x19 = None /\ None19
None12 == x13 = None /\ x14 = None /\ x15 = None /\ None15
None11 == x12 = None /\ None12
None10 == x11 = None /\ None11
None7 == x8 = None /\ x9 = None /\ x10 = None /\ None10
None5 == x6 = None /\ x7 = None /\ None7
None0 == x1 = None /\ x2 = None /\ x3 = None /\ x4 = None /\ x5 = None /\ None5

AllInit ==
  /\ Init
  /\ \/ part = "cache" /\ None0
     \/ part = "sweep" /\ S!Init
     \/ part = "jobs" /\ J!Init /\ None12
     \/ part = "checkin" /\ C!Init /\ None15
     \/ part = "keys" /\ K!Init /\ None11
     \/ part = "reminders" /\ R!Init /\ None10
     \/ part = "sold" /\ D!Init /\ None19
     \/ part = "surfaces" /\ F!Init /\ None7
     \/ part = "history" /\ H!Init /\ None5

Reads    == part = "cache" /\ Next /\ UNCHANGED <<part, After0>>
Sweeps   == part = "sweep" /\ S!Next /\ UNCHANGED <<part, vars>>
Clicks   == part = "jobs" /\ J!Next /\ UNCHANGED <<part, vars, After12>>
CheckIns == part = "checkin" /\ C!Next /\ UNCHANGED <<part, vars, After15>>
SignIns  == part = "keys" /\ K!Next /\ UNCHANGED <<part, vars, After11>>
Reminds  == part = "reminders" /\ R!Next /\ UNCHANGED <<part, vars, After10>>
Sells    == part = "sold" /\ D!Next /\ UNCHANGED <<part, vars, After19>>
Builds   == part = "surfaces" /\ F!Next /\ UNCHANGED <<part, vars, After7>>
Days     == part = "history" /\ H!Next /\ UNCHANGED <<part, vars, After5>>
AllSpec == AllInit /\ [][Reads \/ Sweeps \/ Clicks \/ CheckIns \/ SignIns
                       \/ Reminds \/ Sells \/ Builds \/ Days]_all
=============================================================================
