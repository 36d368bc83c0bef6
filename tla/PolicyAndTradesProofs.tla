------------------------- MODULE PolicyAndTradesProofs -------------------------
(***************************************************************************)
(* What holds of the trade ledger and the figure of trades left, for every  *)
(* allowance and every number of trades, scans, refusals and new starts;    *)
(* and of wfm-client's policy store (P), for every set of restrictions,     *)
(* every number of revisions, keys, failures and crashes.                   *)
(*                                                                          *)
(* The trade log comes first: what its operators do to sequences, rows and  *)
(* figures; the shapes of its state; the reading in step with the log; a    *)
(* success known once; the trades not counted; the row; a scan under way.   *)
(* Together they are TradesKept, and then the order of what is recorded.    *)
(***************************************************************************)
EXTENDS MCPolicyAndTrades, FiniteSetTheorems, WellFoundedInduction, TLAPS

\* Sequences: one more at the end, one less at the front, and what is left after n.
LEMMA AtEnd ==
  ASSUME NEW S, NEW s \in Seq(S), NEW x \in S
  PROVE  /\ Append(s, x) \in Seq(S) /\ Len(Append(s, x)) = Len(s) + 1 /\ Len(s) \in Nat
         /\ \A i \in 1 .. Len(s) : Append(s, x)[i] = s[i]
         /\ Append(s, x)[Len(s) + 1] = x
OBVIOUS

LEMMA AtFront ==
  ASSUME NEW S, NEW s \in Seq(S), s # <<>>
  PROVE  /\ Tail(s) \in Seq(S) /\ Len(Tail(s)) = Len(s) - 1 /\ Len(s) \in Nat /\ Len(s) > 0
         /\ Head(s) \in S /\ Head(s) = s[1]
         /\ \A i \in 1 .. Len(s) - 1 : Tail(s)[i] = s[i + 1]
OBVIOUS

LEMMA AfterLine ==
  ASSUME NEW S, NEW s \in Seq(S), NEW n \in Nat, n <= Len(s)
  PROVE  /\ SubSeq(s, n + 1, Len(s)) \in Seq(S) /\ Len(SubSeq(s, n + 1, Len(s))) = Len(s) - n
         /\ Len(s) \in Nat
         /\ \A i \in 1 .. Len(s) - n : SubSeq(s, n + 1, Len(s))[i] = s[n + i]
OBVIOUS

LEMMA Nothing == ASSUME NEW S PROVE <<>> \in Seq(S) /\ Len(<<>>) = 0
OBVIOUS

LEMMA LastOne ==
  ASSUME NEW S, NEW s \in Seq(S), s # <<>>, Tail(s) = <<>>
  PROVE  Len(s) = 1
<1>1. Len(Tail(s)) = Len(s) - 1 /\ Len(s) \in Nat
  BY AtFront
<1>2. Len(<<>>) = 0
  OBVIOUS
<1>3. \A z : z = <<>> => Len(z) = Len(<<>>)
  BY Zenon
<1>4. Len(Tail(s)) = Len(<<>>)
  BY <1>3, Zenon
<1> QED
  BY <1>1, <1>2, <1>4

\* A set of numbers has a least one.
LEMMA Foremost ==
  ASSUME NEW A, A # {}, A \subseteq Nat
  PROVE  \E n \in A : \A m \in A : n <= m
<1>1. PICK n \in A : \A m \in A : ~(<<m, n>> \in OpToRel(<, Nat))
  BY WFMin, NatLessThanWellFounded
<1>2. \A m \in A : ~(m < n)
  BY <1>1 DEF OpToRel
<1> QED
  BY <1>2

\* What is logged, read and kept.
LEMMA LoggedIs ==
  ASSUME NEW l \in Seq(Lines), NEW s, NEW f, NEW k
  PROVE  k \in Logged(l, s, f) <=>
           \E j \in 1 .. Len(l) : l[j].line = "done" /\ k = Success(l[j].trade, s, f + j)
BY DEF Logged

LEMMA KeptIs ==
  ASSUME NEW v \in Seq(Positions), NEW k
  PROVE  k \in Kept(v) <=>
           \E i \in 1 .. Len(v) : k = Success(v[i].trade, v[i].session, v[i].end)
BY DEF Kept

LEMMA LineIs ==
  ASSUME NEW x \in Lines, NEW t, x = [line |-> "done", trade |-> t]
  PROVE  x.line = "done" /\ x.trade = t
OBVIOUS

LEMMA DoneIs ==
  ASSUME NEW x \in Lines, x.line = "done"
  PROVE  x = [line |-> "done", trade |-> x.trade] /\ x.trade \in Trades
BY DEF Lines

LEMMA LogEmpty == ASSUME NEW s, NEW f PROVE Logged(<<>>, s, f) = {}
BY Nothing DEF Logged

LEMMA LogAppend ==
  ASSUME NEW l \in Seq(Lines), NEW x \in Lines, NEW s
  PROVE  Logged(Append(l, x), s, 0) =
           Logged(l, s, 0) \cup IF x.line = "done" THEN {Success(x.trade, s, Len(l) + 1)} ELSE {}
<1> DEFINE m == Append(l, x)
<1>1. /\ m \in Seq(Lines) /\ Len(m) = Len(l) + 1 /\ Len(l) \in Nat
      /\ \A i \in 1 .. Len(l) : m[i] = l[i]
      /\ m[Len(l) + 1] = x
  BY AtEnd
<1> HIDE DEF m
<1>2. ASSUME NEW k \in Logged(m, s, 0)
      PROVE  k \in Logged(l, s, 0) \/ (x.line = "done" /\ k = Success(x.trade, s, Len(l) + 1))
  <2>1. PICK j \in 1 .. Len(m) : m[j].line = "done" /\ k = Success(m[j].trade, s, 0 + j)
    BY <1>1, <1>2, LoggedIs
  <2>2. CASE j \in 1 .. Len(l)
    BY <1>1, <2>1, <2>2, LoggedIs
  <2>3. CASE j = Len(l) + 1
    BY <1>1, <2>1, <2>3
  <2> QED
    BY <1>1, <2>2, <2>3
<1>3. ASSUME NEW k \in Logged(l, s, 0) PROVE k \in Logged(m, s, 0)
  <2>1. PICK j \in 1 .. Len(l) : l[j].line = "done" /\ k = Success(l[j].trade, s, 0 + j)
    BY <1>3, LoggedIs
  <2>2. j \in 1 .. Len(m) /\ m[j] = l[j]
    BY <1>1
  <2> QED
    BY <1>1, <2>1, <2>2, LoggedIs
<1>4. ASSUME x.line = "done" PROVE Success(x.trade, s, Len(l) + 1) \in Logged(m, s, 0)
  <2>1. Len(l) + 1 \in 1 .. Len(m) /\ 0 + (Len(l) + 1) = Len(l) + 1
    BY <1>1
  <2> QED
    BY <1>1, <1>4, <2>1, LoggedIs
<1>5. Logged(m, s, 0) = Logged(l, s, 0) \cup IF x.line = "done" THEN {Success(x.trade, s, Len(l) + 1)} ELSE {}
  BY <1>2, <1>3, <1>4
<1> QED
  BY <1>5 DEF m

LEMMA LogAsked ==
  ASSUME NEW l \in Seq(Lines), NEW x \in Lines, x.line # "done", NEW s
  PROVE  Logged(Append(l, x), s, 0) = Logged(l, s, 0)
<1> DEFINE new == IF x.line = "done" THEN {Success(x.trade, s, Len(l) + 1)} ELSE {}
<1>1. Logged(Append(l, x), s, 0) = Logged(l, s, 0) \cup new
  BY LogAppend
<1>2. new = {}
  OBVIOUS
<1> QED
  BY <1>1, <1>2

LEMMA LogTail ==
  ASSUME NEW l \in Seq(Lines), l # <<>>, NEW s, NEW f \in Nat
  PROVE  /\ Logged(Tail(l), s, f + 1) \subseteq Logged(l, s, f)
         /\ Head(l).line = "done" => Success(Head(l).trade, s, f + 1) \in Logged(l, s, f)
<1> DEFINE m == Tail(l)
<1>1. /\ m \in Seq(Lines) /\ Len(m) = Len(l) - 1 /\ Len(l) \in Nat /\ Len(l) > 0
      /\ Head(l) \in Lines /\ Head(l) = l[1]
      /\ \A i \in 1 .. Len(l) - 1 : m[i] = l[i + 1]
  BY AtFront
<1> HIDE DEF m
<1>2. ASSUME NEW k \in Logged(m, s, f + 1) PROVE k \in Logged(l, s, f)
  <2>1. PICK j \in 1 .. Len(m) : m[j].line = "done" /\ k = Success(m[j].trade, s, (f + 1) + j)
    BY <1>1, <1>2, LoggedIs
  <2>2. j + 1 \in 1 .. Len(l) /\ m[j] = l[j + 1] /\ (f + 1) + j = f + (j + 1)
    BY <1>1
  <2>3. l[j + 1].line = "done" /\ k = Success(l[j + 1].trade, s, f + (j + 1))
    BY <2>1, <2>2
  <2> QED
    BY <2>2, <2>3, LoggedIs
<1>3. Head(l).line = "done" => Success(Head(l).trade, s, f + 1) \in Logged(l, s, f)
  <2>1. 1 \in 1 .. Len(l)
    BY <1>1
  <2> QED
    BY <1>1, <2>1, LoggedIs
<1> QED
  BY <1>2, <1>3 DEF m

LEMMA LogRest ==
  ASSUME NEW l \in Seq(Lines), NEW s, NEW n \in Nat, n <= Len(l)
  PROVE  Logged(SubSeq(l, n + 1, Len(l)), s, n) \subseteq Logged(l, s, 0)
<1> DEFINE m == SubSeq(l, n + 1, Len(l))
<1>1. /\ m \in Seq(Lines) /\ Len(m) = Len(l) - n /\ Len(l) \in Nat
      /\ \A i \in 1 .. Len(l) - n : m[i] = l[n + i]
  BY AfterLine
<1> HIDE DEF m
<1>2. ASSUME NEW k \in Logged(m, s, n) PROVE k \in Logged(l, s, 0)
  <2>1. PICK j \in 1 .. Len(m) : m[j].line = "done" /\ k = Success(m[j].trade, s, n + j)
    BY <1>1, <1>2, LoggedIs
  <2>2. n + j \in 1 .. Len(l) /\ m[j] = l[n + j] /\ 0 + (n + j) = n + j
    BY <1>1
  <2>3. l[n + j].line = "done" /\ k = Success(l[n + j].trade, s, 0 + (n + j))
    BY <2>1, <2>2
  <2> QED
    BY <2>2, <2>3, LoggedIs
<1> QED
  BY <1>2 DEF m

LEMMA KeptEmpty == Kept(<<>>) = {}
BY Nothing DEF Kept

LEMMA KeptAppend ==
  ASSUME NEW v \in Seq(Positions), NEW e \in Positions
  PROVE  Kept(Append(v, e)) = Kept(v) \cup {Success(e.trade, e.session, e.end)}
<1> DEFINE m == Append(v, e)
<1>1. /\ m \in Seq(Positions) /\ Len(m) = Len(v) + 1 /\ Len(v) \in Nat
      /\ \A i \in 1 .. Len(v) : m[i] = v[i]
      /\ m[Len(v) + 1] = e
  BY AtEnd
<1> HIDE DEF m
<1>2. ASSUME NEW k \in Kept(m) PROVE k \in Kept(v) \/ k = Success(e.trade, e.session, e.end)
  <2>1. PICK i \in 1 .. Len(m) : k = Success(m[i].trade, m[i].session, m[i].end)
    BY <1>1, <1>2, KeptIs
  <2>2. CASE i \in 1 .. Len(v)
    BY <1>1, <2>1, <2>2, KeptIs
  <2>3. CASE i = Len(v) + 1
    BY <1>1, <2>1, <2>3
  <2> QED
    BY <1>1, <2>2, <2>3
<1>3. ASSUME NEW k \in Kept(v) PROVE k \in Kept(m)
  <2>1. PICK i \in 1 .. Len(v) : k = Success(v[i].trade, v[i].session, v[i].end)
    BY <1>3, KeptIs
  <2>2. i \in 1 .. Len(m) /\ m[i] = v[i]
    BY <1>1
  <2> QED
    BY <1>1, <2>1, <2>2, KeptIs
<1>4. Success(e.trade, e.session, e.end) \in Kept(m)
  <2>1. Len(v) + 1 \in 1 .. Len(m)
    BY <1>1
  <2> QED
    BY <1>1, <2>1, KeptIs
<1>5. Kept(m) = Kept(v) \cup {Success(e.trade, e.session, e.end)}
  BY <1>2, <1>3, <1>4
<1> QED
  BY <1>5 DEF m

LEMMA KeptTail ==
  ASSUME NEW v \in Seq(Positions), v # <<>>
  PROVE  /\ Kept(Tail(v)) \subseteq Kept(v)
         /\ Success(Head(v).trade, Head(v).session, Head(v).end) \in Kept(v)
<1> DEFINE m == Tail(v)
<1>1. /\ m \in Seq(Positions) /\ Len(m) = Len(v) - 1 /\ Len(v) \in Nat /\ Len(v) > 0
      /\ Head(v) \in Positions /\ Head(v) = v[1]
      /\ \A i \in 1 .. Len(v) - 1 : m[i] = v[i + 1]
  BY AtFront
<1> HIDE DEF m
<1>2. ASSUME NEW k \in Kept(m) PROVE k \in Kept(v)
  <2>1. PICK i \in 1 .. Len(m) : k = Success(m[i].trade, m[i].session, m[i].end)
    BY <1>1, <1>2, KeptIs
  <2>2. i + 1 \in 1 .. Len(v) /\ m[i] = v[i + 1]
    BY <1>1
  <2> QED
    BY <2>1, <2>2, KeptIs
<1>3. Success(Head(v).trade, Head(v).session, Head(v).end) \in Kept(v)
  <2>1. 1 \in 1 .. Len(v)
    BY <1>1
  <2> QED
    BY <1>1, <2>1, KeptIs
<1> QED
  BY <1>2, <1>3 DEF m

\* What a row keeps when it is marked as not to be trusted, and when a trade is reconciled.
LEMMA UncertainIs ==
  ASSUME NEW o \in Figures
  PROVE  /\ Uncertain(o) \in Figures
         /\ \A f \in {"run", "session", "before", "from", "to", "at", "remaining", "counts", "blind", "unmarked"} :
              Uncertain(o)[f] = o[f]
         /\ ~Uncertain(o).monitoring
BY DEF Figures, Uncertain

LEMMA ReconcileIs ==
  ASSUME NEW o \in Figures, NEW e \in Positions
  PROVE  /\ Reconcile(o, e) \in Figures
         /\ \A f \in {"run", "session", "before", "from", "to", "at", "blind", "unmarked"} :
              Reconcile(o, e)[f] = o[f]
<1>1. CASE e.session # o.session \/ (~(e.end <= o.from \/ ~o.monitoring) /\ Overlaps(o, e))
  <2>1. Reconcile(o, e) = Uncertain(o) \/ Reconcile(o, e) = o
    BY <1>1 DEF Reconcile
  <2> QED
    BY <2>1, UncertainIs
<1>2. CASE e.session = o.session /\ (e.end <= o.from \/ ~o.monitoring)
  BY <1>2 DEF Reconcile
<1>3. CASE e.session = o.session /\ ~(e.end <= o.from \/ ~o.monitoring) /\ ~Overlaps(o, e)
  <2>1. Reconcile(o, e) = [o EXCEPT !.remaining = IF o.remaining = 0 THEN 0 ELSE o.remaining - 1,
                                    !.counts = o.counts \cup {e.trade}]
    BY <1>3 DEF Reconcile
  <2>2. e.trade \in Trades
    BY DEF Positions
  <2>3. (IF o.remaining = 0 THEN 0 ELSE o.remaining - 1) \in Nat
    BY DEF Figures
  <2> DEFINE rest == IF o.remaining = 0 THEN 0 ELSE o.remaining - 1
  <2>4. rest \in Nat
    BY <2>3
  <2> HIDE DEF rest
  <2>5. o.counts \cup {e.trade} \in SUBSET Trades
    BY <2>2 DEF Figures
  <2> DEFINE more == o.counts \cup {e.trade}
  <2>6. more \in SUBSET Trades
    BY <2>5
  <2> HIDE DEF more
  <2>7. Reconcile(o, e) = [o EXCEPT !.remaining = rest, !.counts = more]
    BY <2>1 DEF rest, more
  <2> QED
    BY <2>4, <2>6, <2>7 DEF Figures
<1> QED
  BY <1>1, <1>2, <1>3

\* A confirmed trade the ledger may take.
Due(e) ==
  /\ e \in Positions /\ e.start + 2 = e.end /\ e.session <= tsession
  /\ Success(e.trade, e.session, e.end) \in Known

LEMMA HeldDue ==
  ASSUME TradeShapes, InStep, held # <<>>
  PROVE  Due(Head(held))
<1>1. held \in Seq(Positions)
  BY DEF TradeShapes, TailerShapes
<1>2. Head(held) \in Positions /\ Head(held) = held[1] /\ 1 \in 1 .. Len(held)
  BY <1>1, AtFront
<1>3. Success(Head(held).trade, Head(held).session, Head(held).end) \in Kept(held)
  BY <1>1, KeptTail
<1> QED
  BY <1>2, <1>3 DEF Due, InStep, Known

LEMMA LineDue ==
  ASSUME TradeShapes, InStep, Reads("done"), buffer # None
  PROVE  Due(Event(Head(batch).trade, tsession, buffer.start, offset', buffer.after))
<1>1. batch \in Seq(Lines) /\ batch # <<>> /\ offset \in Nat /\ tsession \in Nat /\ offset' = offset + 1
  BY DEF TradeShapes, TailerShapes, GameShapes, Reads
<1>2. Head(batch) \in Lines /\ Head(batch).line = "done"
  BY <1>1, AtFront DEF Reads
<1>3. Success(Head(batch).trade, tsession, offset + 1) \in Logged(batch, tsession, offset)
  BY <1>1, <1>2, LogTail
<1>4. Head(batch).trade \in Trades
  BY <1>2, DoneIs
<1>5. buffer.start \in Nat /\ buffer.after \in Nat /\ buffer.start + 1 = offset
  BY DEF TradeShapes, TailerShapes, InStep
<1> DEFINE t == Head(batch).trade
           e == Event(t, tsession, buffer.start, offset', buffer.after)
<1>6. /\ e.trade = t /\ e.session = tsession /\ e.start = buffer.start /\ e.end = offset + 1
      /\ e.after = buffer.after /\ e = [trade |-> e.trade, session |-> e.session, start |-> e.start, end |-> e.end, after |-> e.after]
  BY <1>1 DEF Event
<1>7. e.trade \in Trades /\ e.session \in Nat /\ e.start \in Nat /\ e.end \in Nat /\ e.after \in Nat
  BY <1>1, <1>4, <1>5, <1>6
<1> HIDE DEF e, t
<1>8. e \in Positions
  BY <1>6, <1>7 DEF Positions
<1>9. e.start + 2 = e.end /\ e.session <= tsession
  BY <1>1, <1>5, <1>6, <1>7
<1>10. Success(e.trade, e.session, e.end) \in Known
  BY <1>3, <1>6 DEF Known, t
<1> QED
  BY <1>8, <1>9, <1>10 DEF Due, e, t

---------------------------------------------------------------------------
\* What the ledger and the allowance row hold stays of their shapes.
LEMMA InsertShapes ==
  ASSUME TradeShapes, NEW e, Due(e), Insert(e)
  PROVE  /\ ledger' \in Seq(Positions) /\ (obs' # None => obs' \in Figures)
         /\ InStep => \A i \in 1 .. Len(ledger') : ledger'[i].start + 2 = ledger'[i].end /\ ledger'[i].session <= tsession
<1>1. ledger \in Seq(Positions) /\ e \in Positions /\ ledger' = Append(ledger, e)
      /\ e.start + 2 = e.end /\ e.session <= tsession
  BY DEF TradeShapes, RowShapes, ScanShapes, Insert, Due
<1>2. ASSUME obs # None PROVE obs' \in Figures
  <2>1. obs \in Figures
    BY <1>2 DEF TradeShapes, RowShapes, ScanShapes
  <2>2. obs' = Reconcile(obs, e) \/ obs' = Uncertain(obs)
    BY <1>2 DEF Insert
  <2> QED
    BY <1>1, <2>1, <2>2, ReconcileIs, UncertainIs
<1>3. obs = None => obs' = None
  BY DEF Insert
<1>4. /\ Len(ledger') = Len(ledger) + 1 /\ Len(ledger) \in Nat
      /\ \A i \in 1 .. Len(ledger) : ledger'[i] = ledger[i]
      /\ ledger'[Len(ledger) + 1] = e
  BY <1>1, AtEnd
<1>5. ledger' \in Seq(Positions)
  BY <1>1, AtEnd
<1>6. InStep => \A i \in 1 .. Len(ledger') : ledger'[i].start + 2 = ledger'[i].end /\ ledger'[i].session <= tsession
  BY <1>1, <1>4 DEF InStep
<1> QED
  BY <1>2, <1>3, <1>5, <1>6

\* What is still keeps its shape.
LEMMA GameStill    == UNCHANGED game /\ GameShapes => GameShapes'
BY DEF game, GameShapes
LEMMA TailerStill  == UNCHANGED tailer /\ TailerShapes => TailerShapes'
BY DEF tailer, TailerShapes
LEMMA RowsStill    == UNCHANGED db /\ RowShapes => RowShapes'
BY DEF db, RowShapes
LEMMA ScannerStill == UNCHANGED scanner /\ ScanShapes => ScanShapes'
BY DEF scanner, ScanShapes

LEMMA GameShapesNext ==
  ASSUME TradesKept, Ask \/ Settle \/ Confirm \/ StartGame
  PROVE  TradeShapes'
<1>1. /\ UNCHANGED <<tailer, db, scanner, run, clock>>
      /\ TailerShapes /\ RowShapes /\ ScanShapes /\ GameShapes /\ clock \in Nat /\ run \in Nat
  BY DEF Ask, Settle, Confirm, StartGame, TradesKept, TradeShapes, RowShapes, ScanShapes, scanner
<1>2. CASE Ask
  <2>1. trades' \in Trades /\ [line |-> "ask", trade |-> trades'] \in Lines
    BY <1>1, <1>2, TradeConstants DEF GameShapes, Ask, Trades, Lines
  <2>2. log' \in Seq(Lines)
    BY <1>1, <1>2, <2>1, AtEnd DEF GameShapes, Ask
  <2>3. GameShapes'
    BY <1>1, <1>2, <2>1, <2>2 DEF GameShapes, Ask, Trades
  <2> QED
    BY <1>1, <2>3, TailerStill, RowsStill, ScannerStill DEF TradeShapes
<1>3. CASE Settle
  <2>1. GameShapes'
    BY <1>1, <1>3 DEF GameShapes, Settle
  <2> QED
    BY <1>1, <2>1, TailerStill, RowsStill, ScannerStill DEF TradeShapes
<1>4. CASE Confirm
  <2>1. dialog \in Trades /\ [line |-> "done", trade |-> dialog] \in Lines
    BY <1>1, <1>4 DEF GameShapes, Confirm, Lines
  <2>2. log' \in Seq(Lines)
    BY <1>1, <1>4, <2>1, AtEnd DEF GameShapes, Confirm
  <2>3. GameShapes'
    BY <1>1, <1>4, <2>1, <2>2 DEF GameShapes, Confirm
  <2> QED
    BY <1>1, <2>3, TailerStill, RowsStill, ScannerStill DEF TradeShapes
<1>5. CASE StartGame
  <2>1. GameShapes'
    BY <1>1, <1>5 DEF GameShapes, StartGame
  <2> QED
    BY <1>1, <2>1, TailerStill, RowsStill, ScannerStill DEF TradeShapes
<1> QED
  BY <1>2, <1>3, <1>4, <1>5

\* What the tailer does to the row and to a scan leaves rows and scans.
LEMMA GapShapes ==
  ASSUME RowShapes, MarkGap \/ Unmarked \/ UNCHANGED obs, UNCHANGED ledger
  PROVE  RowShapes'
<1>1. CASE MarkGap
  BY <1>1, UncertainIs DEF MarkGap, RowShapes
<1>2. CASE Unmarked
  BY <1>2 DEF Unmarked, RowShapes, Figures
<1>3. CASE UNCHANGED obs
  BY <1>3 DEF RowShapes
<1> QED
  BY <1>1, <1>2, <1>3

LEMMA BlindScanShapes ==
  ASSUME ScanShapes, BlindScan, UNCHANGED spc
  PROVE  ScanShapes'
<1>1. CASE spc = "walked"
  BY <1>1 DEF ScanShapes, BlindScan
<1>2. CASE spc = "seen"
  BY <1>2 DEF ScanShapes, BlindScan, Figures
<1>3. CASE spc \notin {"walked", "seen"}
  BY <1>3 DEF ScanShapes, BlindScan
<1> QED
  BY <1>1, <1>2, <1>3

LEMMA AcceptedShapes ==
  ASSUME TradeShapes, NEW e, Due(e), NEW next, Accepted(e, next) \/ (Refused(e))
  PROVE  RowShapes'
<1>1. CASE UNCHANGED <<ledger, obs>>
  BY <1>1 DEF TradeShapes, RowShapes
<1>2. CASE Insert(e)
  BY <1>2, InsertShapes DEF RowShapes
<1>3. CASE UNCHANGED ledger /\ MarkGap
  BY <1>3, GapShapes DEF TradeShapes
<1> QED
  BY <1>1, <1>2, <1>3 DEF Accepted, Refused

\* A step of the tailer keeps every shape ...
LEMMA TailerShapesNext ==
  ASSUME TradesKept, Tailer
  PROVE  TradeShapes'
<1> USE DEF TradesKept, TradeShapes
<1>1. CASE Tick
  <2>1. TailerShapes'
    BY <1>1 DEF Tick, TailerShapes
  <2> QED
    BY <1>1, <2>1, GameStill, RowsStill, ScannerStill DEF Tick
<1>2. CASE Reoffer
  <2>1. Due(Head(held)) /\ held # <<>> /\ held \in Seq(Positions)
    BY <1>2, HeldDue DEF Reoffer, InStep, TailerShapes
  <2>2. RowShapes'
    BY <1>2, <2>1, AcceptedShapes DEF Reoffer
  <2>3. held' \in Seq(Positions)
    BY <1>2, <2>1, AtFront DEF Reoffer
  <2>4. TailerShapes'
    BY <1>2, <2>3 DEF Reoffer, TailerShapes
  <2> QED
    BY <1>2, <2>2, <2>4, GameStill, ScannerStill DEF Reoffer
<1>3. CASE Unopened
  <2>1. RowShapes'
    BY <1>3, GapShapes DEF Unopened
  <2>2. TailerShapes'
    BY <1>3 DEF Unopened, TailerShapes
  <2> QED
    BY <1>3, <2>1, <2>2, GameStill, ScannerStill DEF Unopened
<1>4. CASE Rotated
  <2>1. RowShapes'
    BY <1>4, GapShapes DEF Rotated, Gap
  <2>2. TailerShapes'
    BY <1>4 DEF Rotated, TailerShapes, GameShapes
  <2>3. ScanShapes'
    BY <1>4, BlindScanShapes DEF Rotated
  <2> QED
    BY <1>4, <2>1, <2>2, <2>3, GameStill DEF Rotated
<1>5. CASE Open
  <2>1. offset + Len(batch) <= Len(log) /\ batch = <<>> /\ offset \in Nat /\ log \in Seq(Lines)
    BY <1>5 DEF Open, InStep, TailerShapes, GameShapes
  <2>2. batch' \in Seq(Lines)
    BY <1>5, <2>1, AfterLine, Nothing DEF Open
  <2>3. TailerShapes'
    BY <1>5, <2>2 DEF Open, TailerShapes
  <2> QED
    BY <1>5, <2>3, GameStill, RowsStill, ScannerStill DEF Open
<1>6. CASE AskLine
  <2>1. batch' \in Seq(Lines) /\ offset' \in Nat
    BY <1>6, AtFront DEF AskLine, Reads, TailerShapes
  <2>2. buffer' \in [start : Nat, after : Nat]
    BY <1>6 DEF AskLine, TailerShapes
  <2>3. TailerShapes'
    BY <1>6, <2>1, <2>2 DEF AskLine, TailerShapes
  <2> QED
    BY <1>6, <2>3, GameStill, RowsStill, ScannerStill DEF AskLine
<1>7. CASE DoneLine
  <2> DEFINE e == Event(Head(batch).trade, tsession, buffer.start, offset', buffer.after)
  <2>1. Due(e)
    BY <1>7, LineDue DEF DoneLine
  <2>2. /\ e \in Positions
        /\ \/ Accepted(e, "lines") /\ UNCHANGED held
           \/ Refused(e) /\ held' = Append(held, e)
           \/ UNCHANGED <<ledger, obs>> /\ held' = Append(held, e)
    BY <1>7, <2>1 DEF DoneLine, KeptBack, Due, db
  <2>3. RowShapes'
    <3>1. CASE Accepted(e, "lines") \/ Refused(e)
      BY <2>1, <3>1, AcceptedShapes
    <3>2. CASE UNCHANGED <<ledger, obs>>
      BY <3>2 DEF RowShapes
    <3> QED
      BY <2>2, <3>1, <3>2
  <2> HIDE DEF e
  <2>4. batch' \in Seq(Lines) /\ offset' \in Nat
    BY <1>7, AtFront DEF DoneLine, Reads, TailerShapes
  <2>5. held' \in Seq(Positions)
    BY <2>2, AtEnd DEF TailerShapes
  <2>6. TailerShapes'
    BY <1>7, <2>4, <2>5 DEF DoneLine, TailerShapes
  <2> QED
    BY <1>7, <2>3, <2>6, GameStill, ScannerStill DEF DoneLine
<1>8. CASE Unrecognized
  <2>1. RowShapes'
    BY <1>8, GapShapes DEF Unrecognized, Gap
  <2>2. batch' \in Seq(Lines) /\ offset' \in Nat
    BY <1>8, AtFront DEF Unrecognized, Reads, TailerShapes
  <2>3. TailerShapes'
    BY <1>8, <2>2 DEF Unrecognized, TailerShapes
  <2>4. ScanShapes'
    BY <1>8, BlindScanShapes DEF Unrecognized
  <2> QED
    BY <1>8, <2>1, <2>3, <2>4, GameStill DEF Unrecognized
<1>9. CASE ReadAll
  <2>1. TailerShapes'
    BY <1>9 DEF ReadAll, TailerShapes
  <2> QED
    BY <1>9, <2>1, GameStill, RowsStill, ScannerStill DEF ReadAll
<1>10. CASE Adjust
  <2>1. TailerShapes'
    BY <1>10 DEF Adjust, TailerShapes
  <2> QED
    BY <1>10, <2>1, GameStill, RowsStill, ScannerStill DEF Adjust
<1> QED
  BY <1>1, <1>2, <1>3, <1>4, <1>5, <1>6, <1>7, <1>8, <1>9, <1>10 DEF Tailer

---------------------------------------------------------------------------
\* save_allowance makes up for the trades recorded since the scan began.
\* One trade reconciled: a figure that adds up does so still, unless it counts the trade.
LEMMA CountsOne ==
  ASSUME NEW o \in Figures, NEW e \in Positions, e.start + 2 = e.end, e.trade \in done,
         OnceEach, o.counts \subseteq done, o.remaining + Cardinality(o.counts) = Daily,
         e.session = o.session /\ e.end >= o.to + 2 => e.trade \notin o.counts
  PROVE  LET q == Reconcile(o, e) IN
         /\ q.counts \subseteq done /\ q.remaining + Cardinality(q.counts) = Daily
         /\ o.counts \subseteq q.counts /\ q.counts \subseteq o.counts \cup {e.trade}
         /\ q.monitoring => /\ o.monitoring /\ e.session = o.session
                            /\ e.end <= o.from \/ e.trade \in q.counts
         /\ q.sure => o.sure
<1>1. IsFiniteSet(done) /\ Cardinality(done) <= Daily /\ Daily \in Nat /\ Cardinality(done) \in Nat
  BY TradeConstants, FS_CardinalityType DEF OnceEach
<1>2. IsFiniteSet(o.counts) /\ Cardinality(o.counts) \in Nat
  BY <1>1, FS_Subset, FS_CardinalityType
<1>3. CASE e.session # o.session \/ (~(e.end <= o.from \/ ~o.monitoring) /\ Overlaps(o, e))
  <2>1. Reconcile(o, e) = Uncertain(o)
    BY <1>3 DEF Reconcile
  <2>2. /\ Uncertain(o).counts = o.counts /\ Uncertain(o).remaining = o.remaining
        /\ ~Uncertain(o).monitoring /\ ~Uncertain(o).sure
    BY DEF Uncertain, Figures
  <2> QED
    BY <2>1, <2>2
<1>4. CASE e.session = o.session /\ (e.end <= o.from \/ ~o.monitoring)
  <2>1. Reconcile(o, e) = o
    BY <1>4 DEF Reconcile
  <2> QED
    BY <1>4, <2>1
<1>5. CASE e.session = o.session /\ ~(e.end <= o.from \/ ~o.monitoring) /\ ~Overlaps(o, e)
  <2>1. e.start \in Nat /\ e.end \in Nat /\ o.to \in Nat /\ o.remaining \in Nat
    BY DEF Positions, Figures
  <2>2. e.trade \notin o.counts
    BY <1>5, <2>1 DEF Overlaps
  <2>3. o.counts \cup {e.trade} \subseteq done
    OBVIOUS
  <2>4. Cardinality(o.counts \cup {e.trade}) = Cardinality(o.counts) + 1
    BY <1>2, <2>2, FS_AddElement
  <2>5. Cardinality(o.counts \cup {e.trade}) <= Cardinality(done)
    BY <1>1, <2>3, FS_Subset
  <2>6. o.remaining > 0
    BY <1>1, <1>2, <2>1, <2>4, <2>5
  <2>7. Reconcile(o, e) = [o EXCEPT !.remaining = o.remaining - 1, !.counts = o.counts \cup {e.trade}]
    <3>1. Reconcile(o, e) = [o EXCEPT !.remaining = IF o.remaining = 0 THEN 0 ELSE o.remaining - 1,
                                      !.counts = o.counts \cup {e.trade}]
      BY <1>5 DEF Reconcile
    <3>2. (IF o.remaining = 0 THEN 0 ELSE o.remaining - 1) = o.remaining - 1
      BY <2>1, <2>6
    <3> QED
      BY <3>1, <3>2
  <2> DEFINE q == Reconcile(o, e)
  <2>8. /\ q.counts = o.counts \cup {e.trade} /\ q.remaining = o.remaining - 1
        /\ q.monitoring = o.monitoring /\ q.sure = o.sure
    BY <2>7 DEF Figures
  <2> HIDE DEF q
  <2>9. q.remaining + Cardinality(q.counts) = Daily
    BY <1>2, <2>1, <2>4, <2>8
  <2>10. o.monitoring = TRUE
    BY <1>5
  <2>11. o.counts \subseteq q.counts /\ q.counts \subseteq o.counts \cup {e.trade} /\ e.trade \in q.counts
         /\ q.counts \subseteq done
    BY <2>3, <2>8
  <2>12. q.sure => o.sure
    BY <2>8
  <2>13. q.monitoring => o.monitoring
    BY <2>8
  <2> QED
    BY <1>5, <2>9, <2>11, <2>12, <2>13 DEF q
<1> QED
  BY <1>3, <1>4, <1>5

\* What save_allowance makes of the row, one recorded trade after the other ...
Made(o, v, e) == IF e.session = o.before /\ e.end > o.from THEN Reconcile(v, e) ELSE v
Makes(f, o, n) == f = [i \in 0 .. n |-> IF i = 0 THEN o ELSE Made(o, f[i - 1], ledger[i])]

LEMMA MakesExists ==
  ASSUME NEW o, NEW n \in Nat
  PROVE  \E f : Makes(f, o, n)
<1> DEFINE Bad == {k \in Nat : ~\E f : Makes(f, o, k)}
<1>1. SUFFICES ASSUME Bad # {} PROVE FALSE
  OBVIOUS
<1>2. PICK k \in Bad : \A j \in Bad : k <= j
  <2>1. Bad \subseteq Nat
    OBVIOUS
  <2> HIDE DEF Bad
  <2> QED
    BY <1>1, <2>1, Foremost
<1>3. k \in Nat /\ ~\E f : Makes(f, o, k)
  OBVIOUS
<1>4. CASE k = 0
  <2> DEFINE g == [i \in 0 .. k |-> o]
  <2>1. Makes(g, o, k)
    BY <1>4 DEF Makes
  <2> QED
    BY <1>3, <2>1
<1>5. CASE k # 0
  <2>1. k - 1 \in Nat /\ ~(k <= k - 1)
    BY <1>3, <1>5
  <2>2. k - 1 \notin Bad
    BY <1>2, <2>1
  <2>3. PICK f : Makes(f, o, k - 1)
    BY <2>1, <2>2
  <2> DEFINE g == [i \in 0 .. k |-> IF i = k THEN Made(o, f[k - 1], ledger[k]) ELSE f[i]]
  <2>4. 0 .. k = (0 .. k - 1) \cup {k} /\ k \notin 0 .. k - 1 /\ k - 1 \in 0 .. k - 1
    BY <2>1
  <2>5. \A i \in 0 .. k - 1 : g[i] = f[i]
    BY <2>4
  <2>6. g[k] = Made(o, f[k - 1], ledger[k])
    BY <2>4
  <2>7. g = [i \in 0 .. k |-> g[i]]
    OBVIOUS
  <2>8. \A i \in 0 .. k - 1 : f[i] = IF i = 0 THEN o ELSE Made(o, f[i - 1], ledger[i])
    BY <2>3 DEF Makes
  <2> HIDE DEF g, Bad
  <2>9. ASSUME NEW i \in 0 .. k PROVE g[i] = IF i = 0 THEN o ELSE Made(o, g[i - 1], ledger[i])
    <3>1. CASE i = k
      BY <1>5, <2>4, <2>5, <2>6, <3>1
    <3>2. CASE i # k
      <4>1. i \in 0 .. k - 1 /\ (i # 0 => i - 1 \in 0 .. k - 1)
        BY <1>3, <2>1, <3>2
      <4> QED
        BY <2>5, <2>8, <4>1
    <3> QED
      BY <3>1, <3>2
  <2>10. Makes(g, o, k)
    BY <2>7, <2>9 DEF Makes
  <2> QED
    BY <1>3, <2>10
<1> QED
  BY <1>4, <1>5

LEMMA MadeUpIs ==
  ASSUME NEW o, Len(ledger) \in Nat
  PROVE  \E f : Makes(f, o, Len(ledger)) /\ MadeUp(o) = f[Len(ledger)]
<1> DEFINE g == CHOOSE f : Makes(f, o, Len(ledger))
<1>1. Makes(g, o, Len(ledger))
  BY MakesExists
<1>2. MadeUp(o) = g[Len(ledger)]
  BY DEF MadeUp, Makes, Made
<1> HIDE DEF g
<1> QED
  BY <1>1, <1>2

\* A recorded trade is a known success.
LEMMA RecordedKnown ==
  ASSUME TradeShapes, NEW i \in 1 .. Len(ledger)
  PROVE  /\ Success(ledger[i].trade, ledger[i].session, ledger[i].end) \in Known
         /\ ledger[i] \in Positions
<1>1. ledger \in Seq(Positions)
  BY DEF TradeShapes, RowShapes
<1>2. Success(ledger[i].trade, ledger[i].session, ledger[i].end) \in Kept(ledger)
  BY <1>1, KeptIs
<1> QED
  BY <1>1, <1>2 DEF Known

LEMMA SuccessIs ==
  ASSUME NEW t, NEW s, NEW p
  PROVE  Success(t, s, p).trade = t /\ Success(t, s, p).session = s /\ Success(t, s, p).end = p
BY DEF Success

\* ... adds up to the trades the server allows, and, while it is certified, counts every
\* trade recorded since the scan's first look.
MadeSoFar(o, q, n) ==
  /\ q \in Figures
  /\ \A f \in {"run", "session", "before", "from", "to", "at", "blind", "unmarked"} : q[f] = o[f]
  /\ q.counts \subseteq done /\ q.remaining + Cardinality(q.counts) = Daily
  /\ o.counts \subseteq q.counts
  /\ \A t \in q.counts : t \in o.counts \/ \E i \in 1 .. n : t = ledger[i].trade
  /\ q.monitoring =>
       /\ o.monitoring
       /\ \A i \in 1 .. n : ledger[i].session = o.before /\ ledger[i].end > o.from => ledger[i].trade \in q.counts

LEMMA MadeOne ==
  ASSUME TradeShapes, InStep, OnceEach, NEW o \in Figures, Tallied(o, {}),
         NEW n \in Nat, n + 1 \in 1 .. Len(ledger), NEW v, MadeSoFar(o, v, n)
  PROVE  MadeSoFar(o, Made(o, v, ledger[n + 1]), n + 1)
<1> DEFINE e == ledger[n + 1]
           k == Success(e.trade, e.session, e.end)
<1>1. e \in Positions /\ k \in Known /\ e.start + 2 = e.end
  BY RecordedKnown DEF InStep
<1>2. k.trade = e.trade /\ k.session = e.session /\ k.end = e.end
  BY SuccessIs
<1>3. e.trade \in done
  BY <1>1, <1>2 DEF OnceEach
<1>4. \A i \in 1 .. n : i \in 1 .. Len(ledger) /\ ledger[i].trade # e.trade
  <2>1. \A i \in 1 .. n : i \in 1 .. Len(ledger) /\ i # n + 1
    BY DEF TradeShapes, RowShapes
  <2> QED
    BY <2>1 DEF OnceEach
<1>5. ASSUME e.session = v.session, e.end >= v.to + 2 PROVE e.trade \notin v.counts
  <2>1. e.session = o.session /\ e.end >= o.to + 2 /\ o.to \in Nat /\ e.end \in Nat
    BY <1>1, <1>5 DEF MadeSoFar, Figures, Positions
  <2>2. e.trade \notin o.counts
    BY <1>1, <1>2, <2>1 DEF Tallied
  <2> QED
    BY <1>4, <2>2 DEF MadeSoFar
<1> DEFINE q == Reconcile(v, e)
<1>6. /\ v \in Figures /\ v.counts \subseteq done /\ v.remaining + Cardinality(v.counts) = Daily
      /\ v.from = o.from
  BY DEF MadeSoFar
<1> HIDE DEF e, k
<1>7. /\ q \in Figures
      /\ \A f \in {"run", "session", "before", "from", "to", "at", "blind", "unmarked"} : q[f] = v[f]
  BY <1>1, <1>6, ReconcileIs
<1>8. /\ q.counts \subseteq done /\ q.remaining + Cardinality(q.counts) = Daily
      /\ v.counts \subseteq q.counts /\ q.counts \subseteq v.counts \cup {e.trade}
      /\ q.monitoring => /\ v.monitoring
                         /\ e.end <= o.from \/ e.trade \in q.counts
  BY <1>1, <1>3, <1>5, <1>6, CountsOne
<1>9. e.end \in Nat /\ o.from \in Nat
  BY <1>1 DEF Positions, Figures
<1> HIDE DEF q
<1>10. \A i \in 1 .. n + 1 : i \in 1 .. n \/ i = n + 1
  OBVIOUS
<1>11. CASE e.session = o.before /\ e.end > o.from
  <2>1. Made(o, v, e) = q
    BY <1>11 DEF Made, q
  <2>2. \A t \in q.counts : t \in o.counts \/ \E i \in 1 .. n + 1 : t = ledger[i].trade
    <3> SUFFICES ASSUME NEW t \in q.counts PROVE t \in o.counts \/ \E i \in 1 .. n + 1 : t = ledger[i].trade
      OBVIOUS
    <3>1. t \in v.counts \/ t = ledger[n + 1].trade
      BY <1>8 DEF e
    <3>2. n + 1 \in 1 .. n + 1 /\ \A i \in 1 .. n : i \in 1 .. n + 1
      OBVIOUS
    <3> QED
      BY <3>1, <3>2 DEF MadeSoFar
  <2>3. q.monitoring =>
          /\ o.monitoring
          /\ \A i \in 1 .. n + 1 : ledger[i].session = o.before /\ ledger[i].end > o.from => ledger[i].trade \in q.counts
    BY <1>8, <1>9, <1>10, <1>11 DEF MadeSoFar, e
  <2>4. o.counts \subseteq q.counts
    BY <1>8 DEF MadeSoFar
  <2>5. \A f \in {"run", "session", "before", "from", "to", "at", "blind", "unmarked"} : q[f] = o[f]
    BY <1>7 DEF MadeSoFar
  <2>6. MadeSoFar(o, q, n + 1)
    BY <1>7, <1>8, <2>2, <2>3, <2>4, <2>5 DEF MadeSoFar
  <2> QED
    BY <2>1, <2>6 DEF e
<1>12. CASE ~(e.session = o.before /\ e.end > o.from)
  <2>1. Made(o, v, e) = v
    BY <1>12 DEF Made
  <2>2. \A t \in v.counts : t \in o.counts \/ \E i \in 1 .. n + 1 : t = ledger[i].trade
    <3>1. \A i \in 1 .. n : i \in 1 .. n + 1
      OBVIOUS
    <3> QED
      BY <3>1 DEF MadeSoFar
  <2>3. MadeSoFar(o, v, n + 1)
    BY <1>10, <1>12, <2>2 DEF MadeSoFar, e
  <2> QED
    BY <2>1, <2>3 DEF e
<1> QED
  BY <1>11, <1>12

LEMMA MadeUpKeeps ==
  ASSUME TradeShapes, InStep, OnceEach, NEW o \in Figures, Tallied(o, {})
  PROVE  MadeSoFar(o, MadeUp(o), Len(ledger))
<1>1. Len(ledger) \in Nat
  BY DEF TradeShapes, RowShapes
<1>2. PICK f : Makes(f, o, Len(ledger)) /\ MadeUp(o) = f[Len(ledger)]
  BY <1>1, MadeUpIs
<1>3. \A i \in 0 .. Len(ledger) : f[i] = IF i = 0 THEN o ELSE Made(o, f[i - 1], ledger[i])
  BY <1>2 DEF Makes
<1> DEFINE Bad == {n \in 0 .. Len(ledger) : ~MadeSoFar(o, f[n], n)}
<1>4. SUFFICES ASSUME Bad # {} PROVE FALSE
  BY <1>1, <1>2
<1>5. PICK n \in Bad : \A m \in Bad : n <= m
  <2>1. Bad \subseteq Nat
    BY <1>1
  <2> HIDE DEF Bad
  <2> QED
    BY <1>4, <2>1, Foremost
<1>6. n \in 0 .. Len(ledger) /\ ~MadeSoFar(o, f[n], n)
  OBVIOUS
<1>7. MadeSoFar(o, o, 0)
  BY DEF MadeSoFar, Tallied
<1>8. CASE n = 0
  BY <1>1, <1>3, <1>6, <1>7, <1>8
<1>9. CASE n # 0
  <2>1. n - 1 \in Nat /\ n - 1 \in 0 .. Len(ledger) /\ ~(n <= n - 1) /\ (n - 1) + 1 = n /\ n \in 1 .. Len(ledger)
    BY <1>1, <1>6, <1>9
  <2>2. MadeSoFar(o, f[n - 1], n - 1)
    BY <1>5, <2>1
  <2>3. f[n] = Made(o, f[n - 1], ledger[n])
    BY <1>3, <1>6, <1>9
  <2> HIDE DEF Bad
  <2>4. MadeSoFar(o, Made(o, f[n - 1], ledger[(n - 1) + 1]), (n - 1) + 1)
    BY <2>1, <2>2, MadeOne
  <2> QED
    BY <1>6, <2>1, <2>3, <2>4
<1> QED
  BY <1>8, <1>9

---------------------------------------------------------------------------
\* ... and so does one of the scanner, of the clock, or a new start.
LEMMA ScannerShapesNext ==
  ASSUME TradesKept, Scanner \/ Second \/ Restart
  PROVE  TradeShapes'
<1> USE DEF TradesKept, TradeShapes
<1>1. CASE ScanBegins
  <2>1. scan'.before = Here /\ Here \in Ends /\ scan' = [before |-> Here]
    BY <1>1 DEF ScanBegins, Here, Ends, GameShapes
  <2>2. ScanShapes'
    BY <1>1, <2>1 DEF ScanBegins, ScanShapes
  <2> QED
    BY <1>1, <2>2, GameStill, TailerStill, RowsStill DEF ScanBegins
<1>2. CASE ScanAnswered
  <2>1. Daily - Cardinality(done) \in Nat
    BY FS_CardinalityType, TradeConstants DEF OnceEach
  <2>2. scan.before \in Ends /\ done \in SUBSET Trades
    BY <1>2 DEF ScanAnswered, ScanShapes, GameShapes
  <2>3. ScanShapes'
    BY <1>2, <2>1, <2>2 DEF ScanAnswered, ScanShapes
  <2> QED
    BY <1>2, <2>3, GameStill, TailerStill, RowsStill DEF ScanAnswered
<1>3. CASE ScanSeen
  <2>1. scan \in [before : Ends, remaining : Nat, counts : SUBSET Trades, blind : BOOLEAN]
    BY <1>3 DEF ScanSeen, ScanShapes
  <2>2. /\ run \in Nat /\ session \in Nat /\ scan.before.session \in Nat /\ scan.before.end \in Nat
        /\ Len(log) \in Nat /\ clock \in Nat /\ scan.remaining \in Nat /\ scan.counts \in SUBSET Trades
        /\ scan.blind \in BOOLEAN
    BY <2>1 DEF GameShapes, Ends
  <2>3. ScanShapes'
    BY <1>3, <2>2 DEF ScanSeen, ScanShapes, Figures
  <2> QED
    BY <1>3, <2>3, GameStill, TailerStill, RowsStill DEF ScanSeen
<1>4. CASE ScanSaved
  <2>1. scan \in Figures /\ Tallied(scan, {})
    BY <1>4 DEF ScanSaved, ScanShapes, ScanKept
  <2>2. obs' \in Figures
    BY <1>4, <2>1, MadeUpKeeps DEF ScanSaved, MadeSoFar
  <2>3. RowShapes'
    BY <1>4, <2>2 DEF ScanSaved, RowShapes
  <2>4. ScanShapes'
    BY <1>4 DEF ScanSaved, ScanShapes
  <2> QED
    BY <1>4, <2>3, <2>4, GameStill, TailerStill DEF ScanSaved
<1>5. CASE ScanLost
  <2>1. RowShapes'
    BY <1>5 DEF ScanLost, RowShapes
  <2>2. ScanShapes'
    BY <1>5 DEF ScanLost, ScanShapes
  <2> QED
    BY <1>5, <2>1, <2>2, GameStill, TailerStill DEF ScanLost
<1>6. CASE Second
  <2> QED
    BY <1>6, GameStill, TailerStill, RowsStill, ScannerStill DEF Second
<1>7. CASE Restart
  <2>1. TailerShapes'
    BY <1>7, Nothing DEF Restart, TailerShapes, GameShapes
  <2>2. ScanShapes'
    BY <1>7 DEF Restart, ScanShapes
  <2> QED
    BY <1>7, <2>1, <2>2, GameStill, RowsStill DEF Restart
<1> QED
  BY <1>1, <1>2, <1>3, <1>4, <1>5, <1>6, <1>7 DEF Scanner

\* The reading keeps in step with the log.
LEMMA InStepNext ==
  ASSUME TradesKept, Next
  PROVE  InStep'
<1> USE DEF TradesKept, TradeShapes
<1>1. CASE Ask \/ Confirm
  <2>1. PICK x \in Lines : log' = Append(log, x)
    <3>1. CASE Ask
      <4>1. trades' \in Trades /\ [line |-> "ask", trade |-> trades'] \in Lines
        BY <3>1, TradeConstants DEF GameShapes, Ask, Trades, Lines
      <4> QED
        BY <3>1, <4>1 DEF Ask
    <3>2. CASE Confirm
      <4>1. [line |-> "done", trade |-> dialog] \in Lines
        BY <3>2 DEF GameShapes, Confirm, Lines
      <4> QED
        BY <3>2, <4>1 DEF Confirm
    <3> QED
      BY <1>1, <3>1, <3>2
  <2>2. Len(log') = Len(log) + 1 /\ Len(log) \in Nat /\ \A i \in 1 .. Len(log) : log'[i] = log[i]
    BY <2>1, AtEnd DEF GameShapes
  <2>3. UNCHANGED <<tailer, ledger, session>>
    BY <1>1 DEF Ask, Confirm, db
  <2>4. offset \in Nat /\ Len(batch) \in Nat
    BY DEF TailerShapes
  <2> QED
    BY <2>2, <2>3, <2>4 DEF InStep, tailer
<1>2. CASE StartGame
  <2>1. session' = session + 1 /\ UNCHANGED <<tailer, ledger>> /\ session \in Nat /\ tsession \in Nat
    BY <1>2 DEF StartGame, db, GameShapes, TailerShapes
  <2>2. tsession' <= session' /\ tsession' # session'
    BY <2>1 DEF InStep, tailer
  <2> QED
    BY <2>1, <2>2 DEF InStep, tailer
<1>3. CASE Settle \/ Second \/ Scanner
  <2>1. UNCHANGED <<session, log, tailer, ledger>>
    BY <1>3 DEF Settle, Second, Scanner, ScanBegins, ScanAnswered, ScanSeen, ScanSaved, ScanLost, game, db
  <2> QED
    BY <2>1 DEF InStep, tailer
<1>4. CASE Restart
  <2>1. /\ tsession' = session /\ session' = session /\ offset' = Len(log) /\ log' = log
        /\ batch' = <<>> /\ held' = <<>> /\ buffer' = None /\ tpc' = "sleep" /\ ledger' = ledger
    BY <1>4 DEF Restart, game, db
  <2>2. session \in Nat /\ Len(log) \in Nat /\ tsession \in Nat
    BY DEF GameShapes, TailerShapes
  <2>3. \A i \in 1 .. Len(ledger) : ledger[i].session \in Nat
    BY RecordedKnown DEF Positions
  <2>4. \A i \in 1 .. Len(ledger) : ledger[i].session <= session
    BY <2>2, <2>3 DEF InStep
  <2> QED
    BY <2>1, <2>2, <2>4 DEF InStep
<1>5. CASE Tick
  <2>1. UNCHANGED <<session, log, ledger, tsession, offset, batch, buffer, held>>
    BY <1>5 DEF Tick, game, db
  <2>2. (tpc' = "offer" => held # <<>>) /\ tpc' \in {"open", "offer"} /\ batch = <<>>
    BY <1>5 DEF Tick, InStep
  <2> QED
    BY <2>1, <2>2 DEF InStep
<1>6. CASE Unopened \/ ReadAll
  <2>1. UNCHANGED <<session, log, ledger, tsession, offset, batch, buffer, held>>
    BY <1>6 DEF Unopened, ReadAll, game, db
  <2>2. tpc' = "sleep" /\ batch = <<>>
    BY <1>6 DEF Unopened, ReadAll, InStep
  <2> QED
    BY <2>1, <2>2 DEF InStep
<1>7. CASE Adjust
  <2>1. UNCHANGED <<session, log, ledger, tsession, offset, batch, buffer, held>> /\ tpc = "adjust" /\ tpc' = sold.next
    BY <1>7 DEF Adjust, game, db
  <2>2. tpc' # "adjust"
    BY <1>7 DEF Adjust, InStep
  <2> QED
    BY <2>1, <2>2 DEF InStep
<1>8. CASE Rotated
  <2>1. /\ tsession' = session /\ session' = session /\ offset' = 0 /\ buffer' = None /\ log' = log
        /\ UNCHANGED <<tpc, batch, held, sold, ledger>> /\ tpc = "open"
    BY <1>8 DEF Rotated, game
  <2>2. batch = <<>> /\ Len(log) \in Nat /\ session \in Nat /\ tsession \in Nat
    BY <2>1 DEF InStep, GameShapes, TailerShapes
  <2>3. \A i \in 1 .. Len(ledger) : ledger[i].session \in Nat
    BY RecordedKnown DEF Positions
  <2>4. \A i \in 1 .. Len(held) : held[i].session \in Nat
    <3>1. \A i \in 1 .. Len(held) : held[i] \in Positions
      BY DEF TailerShapes
    <3> QED
      BY <3>1 DEF Positions
  <2>5. /\ \A i \in 1 .. Len(ledger) : ledger[i].session <= session
        /\ \A i \in 1 .. Len(held) : held[i].session <= session
    BY <2>2, <2>3, <2>4 DEF InStep
  <2> QED
    BY <2>1, <2>2, <2>5, Nothing DEF InStep
<1>9. CASE Open
  <2>1. /\ session = tsession /\ batch' = SubSeq(log, offset + 1, Len(log)) /\ tpc' = "lines"
        /\ UNCHANGED <<session, tsession, log, offset, buffer, held, sold, ledger>> /\ tpc = "open"
    BY <1>9 DEF Open, game, db
  <2>2. offset + Len(batch) <= Len(log) /\ batch = <<>> /\ offset \in Nat /\ log \in Seq(Lines)
    BY <2>1 DEF InStep, TailerShapes, GameShapes
  <2>3. /\ Len(batch') = Len(log) - offset /\ Len(log) \in Nat
        /\ \A i \in 1 .. Len(log) - offset : batch'[i] = log[offset + i]
    BY <2>1, <2>2, AfterLine, Nothing
  <2>4. offset' + Len(batch') <= Len(log') /\ \A j \in 1 .. Len(batch') : batch'[j] = log'[offset' + j]
    BY <2>1, <2>2, <2>3
  <2> QED
    BY <2>1, <2>4 DEF InStep
<1>10. CASE AskLine \/ DoneLine \/ Unrecognized
  <2>1. /\ tpc = "lines" /\ batch # <<>> /\ offset' = offset + 1 /\ batch' = Tail(batch)
        /\ UNCHANGED <<session, log, tsession>>
    BY <1>10 DEF AskLine, DoneLine, Unrecognized, Reads, game
  <2>2. offset \in Nat /\ batch \in Seq(Lines) /\ Len(log) \in Nat
    BY DEF TailerShapes, GameShapes
  <2>3. /\ Len(batch') = Len(batch) - 1 /\ Len(batch) \in Nat /\ Len(batch) > 0
        /\ \A i \in 1 .. Len(batch) - 1 : batch'[i] = batch[i + 1]
    BY <2>1, <2>2, AtFront
  <2>4. tsession' = session' => /\ offset' + Len(batch') <= Len(log')
                               /\ \A j \in 1 .. Len(batch') : batch'[j] = log'[offset' + j]
    <3> SUFFICES ASSUME tsession = session
                 PROVE  /\ offset' + Len(batch') <= Len(log)
                        /\ \A j \in 1 .. Len(batch') : batch'[j] = log[offset' + j]
      BY <2>1
    <3>1. offset + Len(batch) <= Len(log) /\ \A j \in 1 .. Len(batch) : batch[j] = log[offset + j]
      BY DEF InStep
    <3>2. \A j \in 1 .. Len(batch') : /\ j + 1 \in 1 .. Len(batch) /\ batch'[j] = batch[j + 1]
                                      /\ offset + (j + 1) = offset' + j
      BY <2>1, <2>2, <2>3
    <3> QED
      BY <2>1, <2>2, <2>3, <3>1, <3>2
  <2>5. CASE AskLine
    <3>1. /\ UNCHANGED <<tpc, held, sold, ledger>> /\ buffer' = [start |-> offset, after |-> drained]
      BY <2>5 DEF AskLine, db
    <3> QED
      BY <2>1, <2>4, <3>1 DEF InStep
  <2>6. CASE Unrecognized
    <3>1. UNCHANGED <<tpc, held, sold, ledger>> /\ buffer' = None
      BY <2>6 DEF Unrecognized
    <3> QED
      BY <2>1, <2>4, <3>1 DEF InStep
  <2>7. CASE DoneLine
    <3> DEFINE e == Event(Head(batch).trade, tsession, buffer.start, offset', buffer.after)
    <3>1. Due(e)
      BY <2>7, LineDue DEF DoneLine
    <3>2. /\ buffer' = None
          /\ \/ Accepted(e, "lines") /\ UNCHANGED held
             \/ Refused(e) /\ held' = Append(held, e) /\ UNCHANGED tpc
             \/ UNCHANGED <<ledger, tpc, sold>> /\ held' = Append(held, e)
      BY <2>7 DEF DoneLine, KeptBack, db
    <3>3. e \in Positions /\ e.start + 2 = e.end /\ e.session <= tsession /\ held \in Seq(Positions)
      BY <3>1 DEF Due, TailerShapes
    <3> HIDE DEF e
    <3>4. \A i \in 1 .. Len(held') : held'[i].start + 2 = held'[i].end /\ held'[i].session <= tsession
      <4>1. CASE UNCHANGED held
        BY <4>1 DEF InStep
      <4>2. CASE held' = Append(held, e)
        BY <3>3, <4>2, AtEnd DEF InStep
      <4> QED
        BY <3>2, <4>1, <4>2
    <3>5. \A i \in 1 .. Len(ledger') : ledger'[i].start + 2 = ledger'[i].end /\ ledger'[i].session <= tsession
      <4>1. CASE UNCHANGED ledger
        BY <4>1 DEF InStep
      <4>2. CASE Insert(e)
        BY <3>1, <4>2, InsertShapes
      <4> QED
        BY <3>2, <4>1, <4>2 DEF Accepted, Refused
    <3>6. /\ tpc' \in {"lines", "adjust"}
          /\ tpc' = "adjust" => sold'.next = "lines"
      BY <2>1, <3>2 DEF Accepted, Refused
    <3> QED
      BY <2>1, <2>4, <3>2, <3>4, <3>5, <3>6 DEF InStep
  <2> QED
    BY <1>10, <2>5, <2>6, <2>7
<1>11. CASE Reoffer
  <2>1. Due(Head(held)) /\ held # <<>> /\ held \in Seq(Positions) /\ tpc = "offer" /\ batch = <<>>
    BY <1>11, HeldDue DEF Reoffer, InStep, TailerShapes
  <2> DEFINE e == Head(held)
             next == IF Len(held) = 1 THEN "open" ELSE "offer"
  <2>2. /\ UNCHANGED <<session, log, tsession, offset, batch, buffer>>
        /\ \/ Accepted(e, next) /\ held' = Tail(held)
           \/ Refused(e) /\ tpc' = "open" /\ UNCHANGED <<held, sold>>
    BY <1>11 DEF Reoffer, Refused, game
  <2>3. /\ Len(Tail(held)) = Len(held) - 1 /\ Len(held) \in Nat /\ Len(held) > 0
        /\ \A i \in 1 .. Len(held) - 1 : Tail(held)[i] = held[i + 1]
    BY <2>1, AtFront
  <2>4. \A i \in 1 .. Len(held') : held'[i].start + 2 = held'[i].end /\ held'[i].session <= tsession
    <3>1. CASE UNCHANGED held
      BY <3>1 DEF InStep
    <3>2. CASE held' = Tail(held)
      <4>1. \A i \in 1 .. Len(held') : i + 1 \in 1 .. Len(held) /\ held'[i] = held[i + 1]
        BY <2>3, <3>2
      <4> QED
        BY <4>1 DEF InStep
    <3> QED
      BY <2>2, <3>1, <3>2
  <2>5. \A i \in 1 .. Len(ledger') : ledger'[i].start + 2 = ledger'[i].end /\ ledger'[i].session <= tsession
    <3>1. CASE UNCHANGED ledger
      BY <3>1 DEF InStep
    <3>2. CASE Insert(e)
      BY <2>1, <3>2, InsertShapes
    <3> QED
      BY <2>2, <3>1, <3>2 DEF Accepted, Refused
  <2>6. next = "offer" => Tail(held) # <<>>
    BY <2>1, LastOne
  <2>7. next \in {"open", "offer"}
    OBVIOUS
  <2> HIDE DEF e, next
  <2>8. /\ tpc' # "adjust" => tpc' \in {"open", "offer"} /\ (tpc' = "offer" => held' # <<>>)
        /\ tpc' = "adjust" => sold'.next \in {"open", "offer"} /\ (sold'.next = "offer" => held' # <<>>)
    BY <2>1, <2>2, <2>6, <2>7 DEF Accepted, Refused
  <2> QED
    BY <2>1, <2>2, <2>4, <2>5, <2>8 DEF InStep
<1> QED
  BY <1>1, <1>2, <1>3, <1>4, <1>5, <1>6, <1>7, <1>8, <1>9, <1>10, <1>11 DEF Next, Tailer

---------------------------------------------------------------------------
\* What a step knows of the successes: nothing new but what the game confirms.
LEMMA AcceptedKnown ==
  ASSUME TradeShapes, NEW e, Due(e), NEW next, Accepted(e, next) \/ Refused(e)
  PROVE  Kept(ledger') \subseteq Known
<1>1. ledger \in Seq(Positions) /\ e \in Positions
  BY DEF TradeShapes, RowShapes, Due
<1>2. CASE UNCHANGED ledger
  BY <1>2 DEF Known
<1>3. CASE ledger' = Append(ledger, e)
  <2>1. Kept(ledger') = Kept(ledger) \cup {Success(e.trade, e.session, e.end)}
    BY <1>1, <1>3, KeptAppend
  <2> QED
    BY <2>1 DEF Known, Due
<1> QED
  BY <1>2, <1>3 DEF Accepted, Refused, Insert

LEMMA KnownNext ==
  ASSUME TradesKept, Next, ~Confirm
  PROVE  Known' \subseteq Known
<1> USE DEF TradesKept, TradeShapes
<1>1. CASE Ask
  <2> DEFINE x == [line |-> "ask", trade |-> trades']
  <2>1. x \in Lines /\ x.line # "done" /\ log' = Append(log, x) /\ log \in Seq(Lines)
    BY <1>1, TradeConstants DEF GameShapes, Ask, Trades, Lines
  <2> HIDE DEF x
  <2>2. Logged(Append(log, x), session, 0) = Logged(log, session, 0)
    BY <2>1, LogAsked
  <2>3. UNCHANGED <<session, tsession, offset, batch, held, ledger>>
    BY <1>1 DEF Ask, tailer, db
  <2> QED
    BY <2>1, <2>2, <2>3 DEF Known
<1>2. CASE StartGame
  <2>1. Logged(log', session', 0) = {}
    BY <1>2, LogEmpty DEF StartGame
  <2>2. UNCHANGED <<tsession, offset, batch, held, ledger>>
    BY <1>2 DEF StartGame, tailer, db
  <2> QED
    BY <2>1, <2>2 DEF Known
<1>3. CASE Settle \/ Second \/ Scanner \/ Tick \/ Unopened \/ ReadAll \/ Adjust
  <2>1. UNCHANGED <<session, log, tsession, offset, batch, held, ledger>>
    BY <1>3 DEF Settle, Second, Scanner, ScanBegins, ScanAnswered, ScanSeen, ScanSaved, ScanLost, Tick, Unopened,
       ReadAll, Adjust, game, db, tailer
  <2> QED
    BY <2>1 DEF Known
<1>4. CASE Restart
  <2>1. /\ UNCHANGED <<session, log, ledger>> /\ batch' = <<>> /\ held' = <<>>
    BY <1>4 DEF Restart, game, db
  <2> QED
    BY <2>1, LogEmpty, KeptEmpty DEF Known
<1>5. CASE Rotated
  <2>1. UNCHANGED <<session, log, ledger, batch, held>> /\ batch = <<>>
    BY <1>5 DEF Rotated, game, InStep
  <2> QED
    BY <2>1, LogEmpty DEF Known
<1>6. CASE Open
  <2>1. /\ session = tsession /\ batch' = SubSeq(log, offset + 1, Len(log))
        /\ UNCHANGED <<session, tsession, log, offset, held, ledger>> /\ tpc = "open"
    BY <1>6 DEF Open, game, db
  <2>2. offset <= Len(log) /\ offset \in Nat /\ log \in Seq(Lines)
    <3>1. batch = <<>> /\ offset + Len(batch) <= Len(log)
      BY <2>1 DEF InStep
    <3> QED
      BY <3>1 DEF TailerShapes, GameShapes
  <2>3. Logged(batch', session, offset) \subseteq Logged(log, session, 0)
    BY <2>1, <2>2, LogRest
  <2> QED
    BY <2>1, <2>3 DEF Known
<1>7. CASE AskLine \/ DoneLine \/ Unrecognized
  <2>1. /\ batch # <<>> /\ offset' = offset + 1 /\ batch' = Tail(batch)
        /\ UNCHANGED <<session, log, tsession>>
    BY <1>7 DEF AskLine, DoneLine, Unrecognized, Reads, game
  <2>2. Logged(batch', tsession, offset') \subseteq Logged(batch, tsession, offset)
    BY <2>1, LogTail DEF TailerShapes
  <2>3. Kept(held') \subseteq Known /\ Kept(ledger') \subseteq Known
    <3>1. CASE AskLine \/ Unrecognized
      BY <3>1 DEF AskLine, Unrecognized, db, Known
    <3>2. CASE DoneLine
      <4> DEFINE e == Event(Head(batch).trade, tsession, buffer.start, offset', buffer.after)
      <4>1. Due(e)
        BY <3>2, LineDue DEF DoneLine
      <4>2. \/ Accepted(e, "lines") /\ UNCHANGED held
            \/ Refused(e) /\ held' = Append(held, e)
            \/ UNCHANGED ledger /\ held' = Append(held, e)
        BY <3>2 DEF DoneLine, KeptBack, db
      <4>3. e \in Positions /\ Success(e.trade, e.session, e.end) \in Known /\ held \in Seq(Positions)
        BY <4>1 DEF Due, TailerShapes
      <4> HIDE DEF e
      <4>4. Kept(Append(held, e)) \subseteq Known
        BY <4>3, KeptAppend DEF Known
      <4>5. Kept(held') \subseteq Known
        BY <4>2, <4>4 DEF Known
      <4>6. Kept(ledger') \subseteq Known
        <5>1. CASE UNCHANGED ledger
          BY <5>1 DEF Known
        <5>2. CASE Accepted(e, "lines") \/ Refused(e)
          BY <4>1, <5>2, AcceptedKnown
        <5> QED
          BY <4>2, <5>1, <5>2
      <4> QED
        BY <4>5, <4>6
    <3> QED
      BY <1>7, <3>1, <3>2
  <2> QED
    BY <2>1, <2>2, <2>3 DEF Known
<1>8. CASE Reoffer
  <2>1. Due(Head(held)) /\ held # <<>> /\ held \in Seq(Positions)
    BY <1>8, HeldDue DEF Reoffer, InStep, TailerShapes
  <2>2. UNCHANGED <<session, log, tsession, offset, batch>>
    BY <1>8 DEF Reoffer, game
  <2>3. Kept(ledger') \subseteq Known
    BY <1>8, <2>1, AcceptedKnown DEF Reoffer
  <2>4. Kept(held') \subseteq Kept(held)
    BY <1>8, <2>1, KeptTail DEF Reoffer
  <2> QED
    BY <2>2, <2>3, <2>4 DEF Known
<1> QED
  BY <1>1, <1>2, <1>3, <1>4, <1>5, <1>6, <1>7, <1>8 DEF Next, Tailer

\* The game confirms: one success more.
LEMMA KnownConfirm ==
  ASSUME TradesKept, Confirm
  PROVE  Known' = Known \cup {Success(dialog, session, Len(log) + 1)}
<1> DEFINE x == [line |-> "done", trade |-> dialog]
<1>1. x \in Lines /\ x.line = "done" /\ x.trade = dialog
  BY DEF TradesKept, TradeShapes, GameShapes, Confirm, Lines
<1>2. log' = Append(log, x) /\ log \in Seq(Lines)
  BY DEF TradesKept, TradeShapes, GameShapes, Confirm
<1> HIDE DEF x
<1>3. Logged(log', session, 0) = Logged(log, session, 0) \cup {Success(dialog, session, Len(log) + 1)}
  BY <1>1, <1>2, LogAppend
<1>4. UNCHANGED <<session, tsession, offset, batch, held, ledger>>
  BY DEF Confirm, tailer, db
<1> QED
  BY <1>3, <1>4 DEF Known

\* A success is of a trade, a session and a line.
LEMMA KnownIs == ASSUME TradeShapes PROVE \A k \in Known : k.end \in Nat /\ k.session \in Nat /\ k.trade \in Trades
<1>1. /\ log \in Seq(Lines) /\ batch \in Seq(Lines) /\ held \in Seq(Positions) /\ ledger \in Seq(Positions)
      /\ session \in Nat /\ tsession \in Nat /\ offset \in Nat
  BY DEF TradeShapes, GameShapes, TailerShapes, RowShapes
<1>2. ASSUME NEW l \in Seq(Lines), NEW s \in Nat, NEW f \in Nat, NEW k \in Logged(l, s, f)
      PROVE  k.end \in Nat /\ k.session \in Nat /\ k.trade \in Trades
  <2>1. PICK j \in 1 .. Len(l) : l[j].line = "done" /\ k = Success(l[j].trade, s, f + j)
    BY <1>2, LoggedIs
  <2>2. l[j] \in Lines
    OBVIOUS
  <2>3. l[j].trade \in Trades
    BY <2>2 DEF Lines
  <2> QED
    BY <2>1, <2>3, SuccessIs
<1>3. ASSUME NEW v \in Seq(Positions), NEW k \in Kept(v)
      PROVE  k.end \in Nat /\ k.session \in Nat /\ k.trade \in Trades
  <2>1. PICK i \in 1 .. Len(v) : k = Success(v[i].trade, v[i].session, v[i].end)
    BY <1>3, KeptIs
  <2>2. v[i] \in Positions
    OBVIOUS
  <2> QED
    BY <2>1, <2>2, SuccessIs DEF Positions
<1> QED
  BY <1>1, <1>2, <1>3 DEF Known

\* The ledger takes a trade only once: known twice, it would be the same success.
LEMMA NotTwice ==
  ASSUME TradeShapes, OnceEach, NEW e, Due(e)
  PROVE  Duplicate(e) <=> e.trade \in RecordedTrades
<1>1. ASSUME NEW i \in 1 .. Len(ledger)
      PROVE  ledger[i].trade = e.trade <=> ledger[i].session = e.session /\ ledger[i].end = e.end
  BY RecordedKnown, SuccessIs DEF OnceEach, Due
<1> QED
  BY <1>1 DEF Duplicate, RecordedTrades

\* What a step does to the ledger.
Records(e) ==
  /\ Due(e) /\ ~Duplicate(e) /\ Insert(e)
  /\ UNCHANGED <<game, run, tsession, scanner>>

LEMMA LedgerNext ==
  ASSUME TradesKept, Next
  PROVE  UNCHANGED ledger \/ \E e : Records(e)
<1>1. CASE DoneLine
  <2> DEFINE e == Event(Head(batch).trade, tsession, buffer.start, offset', buffer.after)
  <2>1. Due(e)
    BY <1>1, LineDue DEF DoneLine, TradesKept
  <2>2. Accepted(e, "lines") \/ Refused(e) \/ UNCHANGED ledger
    BY <1>1 DEF DoneLine, db
  <2>3. UNCHANGED <<game, run, tsession, scanner>>
    BY <1>1 DEF DoneLine
  <2> HIDE DEF e
  <2> QED
    BY <2>1, <2>2, <2>3 DEF Accepted, Refused, Records
<1>2. CASE Reoffer
  <2>1. Due(Head(held))
    BY <1>2, HeldDue DEF Reoffer, TradesKept, InStep
  <2>2. UNCHANGED <<game, run, tsession, scanner>>
    BY <1>2 DEF Reoffer
  <2> QED
    BY <1>2, <2>1, <2>2 DEF Reoffer, Accepted, Refused, Records
<1>3. CASE ~DoneLine /\ ~Reoffer
  BY <1>3 DEF Next, Ask, Settle, Confirm, StartGame, Second, Tailer, Tick, Unopened, Rotated, Open, AskLine,
     Unrecognized, ReadAll, Adjust, Scanner, ScanBegins, ScanAnswered, ScanSeen, ScanSaved, ScanLost, Restart, db
<1> QED
  BY <1>1, <1>2, <1>3

\* A trade recorded is one more, at the end.
LEMMA RecordedNext ==
  ASSUME TradesKept, NEW e, Due(e), Insert(e)
  PROVE  /\ RecordedTrades' = RecordedTrades \cup {e.trade}
         /\ Len(ledger') = Len(ledger) + 1 /\ Len(ledger) \in Nat
         /\ \A i \in 1 .. Len(ledger) : ledger'[i] = ledger[i]
         /\ ledger'[Len(ledger) + 1] = e
<1>1. ledger \in Seq(Positions) /\ e \in Positions /\ ledger' = Append(ledger, e)
  BY DEF TradesKept, TradeShapes, RowShapes, Due, Insert
<1>2. /\ Len(ledger') = Len(ledger) + 1 /\ Len(ledger) \in Nat
      /\ \A i \in 1 .. Len(ledger) : ledger'[i] = ledger[i]
      /\ ledger'[Len(ledger) + 1] = e
  BY <1>1, AtEnd
<1>3. \A i \in 1 .. Len(ledger') : i \in 1 .. Len(ledger) \/ i = Len(ledger) + 1
  BY <1>2
<1>4. Len(ledger) + 1 \in 1 .. Len(ledger') /\ \A i \in 1 .. Len(ledger) : i \in 1 .. Len(ledger')
  BY <1>2
<1>5. RecordedTrades' \subseteq RecordedTrades \cup {e.trade}
  BY <1>2, <1>3 DEF RecordedTrades
<1>6. RecordedTrades \cup {e.trade} \subseteq RecordedTrades'
  BY <1>2, <1>4 DEF RecordedTrades
<1> QED
  BY <1>2, <1>5, <1>6

\* A trade is one success.
LEMMA OnceEachNext ==
  ASSUME TradesKept, Next
  PROVE  OnceEach'
<1>1. \A k, l \in Known' : k.trade = l.trade <=> k.session = l.session /\ k.end = l.end
  <2>1. CASE ~Confirm
    BY <2>1, KnownNext DEF TradesKept, OnceEach
  <2>2. CASE Confirm
    <3> DEFINE n == Success(dialog, session, Len(log) + 1)
    <3>1. Known' = Known \cup {n}
      BY <2>2, KnownConfirm
    <3>2. n.trade = dialog /\ n.session = session /\ n.end = Len(log) + 1
      BY SuccessIs
    <3>3. Len(log) \in Nat
      BY DEF TradesKept, TradeShapes, GameShapes
    <3>4. \A k \in Known : k.trade # dialog /\ ~(k.session = session /\ k.end = Len(log) + 1)
      BY <3>3, KnownIs DEF TradesKept, OnceEach
    <3> HIDE DEF n
    <3> QED
      BY <3>1, <3>2, <3>4 DEF TradesKept, OnceEach
  <2> QED
    BY <2>1, <2>2
<1>2. /\ \A k \in Known' : /\ k.trade \in done' /\ k.trade # dialog'
                           /\ k.session <= session' /\ (k.session = session' => k.end <= Len(log'))
      /\ \A t \in done' \cup {dialog'} : t # None => t <= trades'
      /\ IsFiniteSet(done') /\ Cardinality(done') <= Daily
  <2>1. /\ \A k \in Known : /\ k.trade \in done /\ k.trade # dialog /\ k.trade \in Trades
                            /\ k.session <= session /\ (k.session = session => k.end <= Len(log))
                            /\ k.session \in Nat /\ k.end \in Nat
        /\ \A t \in done \cup {dialog} : t # None => t <= trades
        /\ IsFiniteSet(done) /\ Cardinality(done) <= Daily
        /\ done \subseteq Trades /\ trades \in Nat /\ session \in Nat /\ Len(log) \in Nat
        /\ log \in Seq(Lines) /\ dialog \in Trades \cup {None} /\ None \notin Trades
    BY KnownIs, TradeConstants DEF TradesKept, TradeShapes, GameShapes, OnceEach, Trades
  <2>2. CASE UNCHANGED game
    <3>1. Known' \subseteq Known \/ Confirm
      BY KnownNext
    <3>2. ~Confirm
      BY <2>2, <2>1 DEF Confirm, game
    <3> QED
      BY <2>1, <2>2, <3>1, <3>2 DEF game
  <2>3. CASE Ask
    <3>1. Known' \subseteq Known
      BY <2>1, <2>3, KnownNext DEF Ask, Confirm
    <3>2. trades' = trades + 1 /\ dialog' = trades + 1 /\ UNCHANGED <<done, session>> /\ trades + 1 # None
      BY <2>1, <2>3, TradeConstants DEF Ask
    <3>3. Len(log') = Len(log) + 1
      BY <2>1, <2>3 DEF Ask
    <3>4. \A k \in Known : k.trade # None /\ k.trade <= trades /\ k.trade \in Nat
      BY <2>1 DEF Trades
    <3>5. \A t \in done : t <= trades /\ t \in Nat
      BY <2>1 DEF Trades
    <3> QED
      BY <2>1, <3>1, <3>2, <3>3, <3>4, <3>5
  <2>4. CASE Settle
    <3>1. Known' \subseteq Known
      BY <2>1, <2>4, KnownNext DEF Settle, Confirm
    <3>2. done' = done \cup {dialog} /\ dialog \notin done /\ UNCHANGED <<session, log, dialog, trades>>
          /\ Cardinality(done) < Daily
      BY <2>4 DEF Settle
    <3>3. IsFiniteSet(done') /\ Cardinality(done') = Cardinality(done) + 1 /\ Cardinality(done) \in Nat
      BY <2>1, <3>2, FS_AddElement, FS_CardinalityType
    <3>4. Cardinality(done') <= Daily
      BY <3>2, <3>3, TradeConstants
    <3> QED
      BY <2>1, <3>1, <3>2, <3>3, <3>4
  <2>5. CASE Confirm
    <3> DEFINE n == Success(dialog, session, Len(log) + 1)
    <3>1. Known' = Known \cup {n}
      BY <2>5, KnownConfirm
    <3>2. n.trade = dialog /\ n.session = session /\ n.end = Len(log) + 1
      BY SuccessIs
    <3> HIDE DEF n
    <3>3. dialog \in done /\ dialog' = None /\ UNCHANGED <<session, done, trades>>
      BY <2>5 DEF Confirm
    <3>4. Len(log') = Len(log) + 1
      BY <2>1, <2>5 DEF Confirm
    <3>5. \A k \in Known' : k.trade \in done /\ k.trade \in Trades
      BY <2>1, <3>1, <3>2, <3>3
    <3>6. \A k \in Known' : k.session <= session /\ (k.session = session => k.end <= Len(log) + 1)
      BY <2>1, <3>1, <3>2
    <3> QED
      BY <2>1, <3>3, <3>4, <3>5, <3>6
  <2>6. CASE StartGame
    <3>1. Known' \subseteq Known
      BY <2>1, <2>6, KnownNext DEF StartGame, Confirm
    <3>2. session' = session + 1 /\ dialog' = None /\ UNCHANGED <<done, trades>>
      BY <2>6 DEF StartGame
    <3>3. \A k \in Known : k.session <= session + 1 /\ k.session # session + 1 /\ k.trade # None
      BY <2>1
    <3> QED
      BY <2>1, <3>1, <3>2, <3>3
  <2>7. Ask \/ Settle \/ Confirm \/ StartGame \/ UNCHANGED game
    BY DEF Next, Second, Tailer, Tick, Reoffer, Unopened, Rotated, Open, AskLine, DoneLine,
       Unrecognized, ReadAll, Adjust, Scanner, ScanBegins, ScanAnswered, ScanSeen, ScanSaved, ScanLost, Restart
  <2> QED
    BY <2>2, <2>3, <2>4, <2>5, <2>6, <2>7
<1>3. \A i, j \in 1 .. Len(ledger') : ledger'[i].trade = ledger'[j].trade => i = j
  <2>1. CASE UNCHANGED ledger
    BY <2>1 DEF TradesKept, OnceEach
  <2>2. ASSUME NEW e, Records(e) PROVE \A i, j \in 1 .. Len(ledger') : ledger'[i].trade = ledger'[j].trade => i = j
    <3>1. /\ Len(ledger') = Len(ledger) + 1 /\ Len(ledger) \in Nat
          /\ \A i \in 1 .. Len(ledger) : ledger'[i] = ledger[i]
          /\ ledger'[Len(ledger) + 1] = e
      BY <2>2, RecordedNext DEF Records
    <3>2. e.trade \notin RecordedTrades
      BY <2>2, NotTwice DEF Records, TradesKept
    <3>3. \A i \in 1 .. Len(ledger) : ledger[i].trade # e.trade
      BY <3>2 DEF RecordedTrades
    <3>4. \A i \in 1 .. Len(ledger') : i \in 1 .. Len(ledger) \/ i = Len(ledger) + 1
      BY <3>1
    <3> QED
      BY <3>1, <3>3, <3>4 DEF TradesKept, OnceEach
  <2> QED
    BY <2>1, <2>2, LedgerNext
<1> QED
  BY <1>1, <1>2, <1>3 DEF OnceEach

---------------------------------------------------------------------------
\* What is written is a line of it.
LEMMA WrittenIs ==
  ASSUME NEW l \in Seq(Lines), NEW t
  PROVE  Written(t, l) <=> \E i \in 1 .. Len(l) : l[i].line = "done" /\ l[i].trade = t
<1>1. ASSUME NEW i \in 1 .. Len(l)
      PROVE  l[i] = [line |-> "done", trade |-> t] <=> l[i].line = "done" /\ l[i].trade = t
  <2>1. l[i] \in Lines
    OBVIOUS
  <2> QED
    BY <2>1, LineIs, DoneIs
<1> QED
  BY <1>1 DEF Written

\* The lines b were read from l, after line f.
ReadFrom(l, b, f) ==
  /\ l \in Seq(Lines) /\ b \in Seq(Lines) /\ f \in Nat /\ f + Len(b) <= Len(l)
  /\ \A j \in 1 .. Len(b) : b[j] = l[f + j]

Rest(l, b, f) == SubSeq(l, f + Len(b) + 1, Len(l))
DoneAfter(l, f, t) == \E p \in f + 1 .. Len(l) : l[p].line = "done" /\ l[p].trade = t

\* What is read and not fed, and what is not read, is the log from the offset on.
LEMMA ReadsOn ==
  ASSUME NEW l, NEW b, NEW f, ReadFrom(l, b, f), NEW t
  PROVE  Written(t, b) \/ Written(t, Rest(l, b, f)) <=> DoneAfter(l, f, t)
<1> DEFINE n == f + Len(b)
           m == SubSeq(l, n + 1, Len(l))
<1>0. l \in Seq(Lines) /\ b \in Seq(Lines) /\ f \in Nat /\ \A j \in 1 .. Len(b) : b[j] = l[f + j]
  BY DEF ReadFrom
<1>1. n \in Nat /\ Len(b) \in Nat /\ Len(l) \in Nat /\ n <= Len(l)
  BY DEF ReadFrom
<1> HIDE DEF n
<1>2. m \in Seq(Lines) /\ Len(m) = Len(l) - n /\ \A i \in 1 .. Len(l) - n : m[i] = l[n + i]
  BY <1>0, <1>1, AfterLine
<1> HIDE DEF m
<1>3. ASSUME Written(t, b) PROVE \E p \in f + 1 .. Len(l) : l[p].line = "done" /\ l[p].trade = t
  <2>1. PICK j \in 1 .. Len(b) : b[j].line = "done" /\ b[j].trade = t
    BY <1>0, <1>3, WrittenIs
  <2>2. f + j \in f + 1 .. Len(l) /\ b[j] = l[f + j]
    BY <1>0, <1>1 DEF n
  <2> QED
    BY <2>1, <2>2
<1>4. ASSUME Written(t, m) PROVE \E p \in f + 1 .. Len(l) : l[p].line = "done" /\ l[p].trade = t
  <2>1. PICK j \in 1 .. Len(m) : m[j].line = "done" /\ m[j].trade = t
    BY <1>2, <1>4, WrittenIs
  <2>2. n + j \in f + 1 .. Len(l) /\ m[j] = l[n + j]
    BY <1>0, <1>1, <1>2 DEF n
  <2> QED
    BY <2>1, <2>2
<1>5. ASSUME NEW p \in f + 1 .. Len(l), l[p].line = "done" /\ l[p].trade = t
      PROVE  Written(t, b) \/ Written(t, m)
  <2>1. CASE p <= n
    <3>1. p - f \in 1 .. Len(b) /\ f + (p - f) = p
      BY <1>0, <1>1, <2>1 DEF n
    <3>2. b[p - f] = l[p]
      BY <1>0, <3>1
    <3> QED
      BY <1>0, <1>5, <3>1, <3>2, WrittenIs
  <2>2. CASE ~(p <= n)
    <3>1. p - n \in 1 .. Len(m) /\ n + (p - n) = p /\ p - n \in 1 .. Len(l) - n
      BY <1>1, <1>2, <2>2
    <3>2. m[p - n] = l[p]
      BY <1>2, <3>1
    <3> QED
      BY <1>2, <1>5, <3>1, <3>2, WrittenIs
  <2> QED
    BY <2>1, <2>2
<1>6. Rest(l, b, f) = m
  BY DEF m, n, Rest
<1>7. Written(t, b) \/ Written(t, m) <=> \E p \in f + 1 .. Len(l) : l[p].line = "done" /\ l[p].trade = t
  BY <1>3, <1>4, <1>5
<1> QED
  BY <1>6, <1>7 DEF DoneAfter

Unread(t)   == \E p \in offset + 1 .. Len(log) : log[p].line = "done" /\ log[p].trade = t
KeptBackFor(t) == \E i \in 1 .. Len(held) : held[i].trade = t
Accounts(t) == Ahead(t) \/ t \in RecordedTrades

\* What is ahead of the tailer: asked about, unread or held.
LEMMA AheadIs ==
  ASSUME TradeShapes, InStep, Noticed, NEW t
  PROVE  Ahead(t) <=> t = dialog \/ Unread(t) \/ KeptBackFor(t)
<1>1. ReadFrom(log, batch, offset)
  BY DEF ReadFrom, TradeShapes, GameShapes, TailerShapes, InStep, Noticed
<1>2. Written(t, batch) \/ Written(t, Rest(log, batch, offset)) <=> DoneAfter(log, offset, t)
  BY <1>1, ReadsOn
<1> QED
  BY <1>2 DEF Ahead, KeptBackFor, Unread, Rest, DoneAfter

LEMMA AheadIsNext ==
  ASSUME TradeShapes', InStep', Noticed', NEW t
  PROVE  Ahead(t)' <=> (t = dialog \/ Unread(t) \/ KeptBackFor(t))'
<1>1. ReadFrom(log', batch', offset')
  BY DEF ReadFrom, TradeShapes, GameShapes, TailerShapes, InStep, Noticed
<1>2. Written(t, batch') \/ Written(t, Rest(log', batch', offset')) <=> DoneAfter(log', offset', t)
  BY <1>1, ReadsOn
<1>3. /\ Written(t, batch)' <=> Written(t, batch')
      /\ Written(t, SubSeq(log, offset + Len(batch) + 1, Len(log)))' <=> Written(t, Rest(log', batch', offset'))
  BY DEF Written, Rest
<1> QED
  BY <1>2, <1>3 DEF Ahead, KeptBackFor, Unread, DoneAfter

\* Shapes and the reading, after any step.
LEMMA ShapesNext ==
  ASSUME TradesKept, Next
  PROVE  TradeShapes' /\ InStep'
BY GameShapesNext, TailerShapesNext, ScannerShapesNext, InStepNext DEF Next

\* Nothing that was accounted for is lost, while the file that is read is the log.
LEMMA AccountsNext ==
  ASSUME TradesKept, Next, Noticed, Noticed', ~Unrecognized, ~Restart,
         NEW t \in done', t \notin done \/ Accounts(t)
  PROVE  Accounts(t)'
<1>1. TradeShapes' /\ InStep'
  BY ShapesNext
<1>2. SUFFICES (t = dialog \/ Unread(t) \/ KeptBackFor(t) \/ t \in RecordedTrades)'
  BY <1>1, AheadIsNext DEF Accounts
<1>3. t \notin done \/ t = dialog \/ Unread(t) \/ KeptBackFor(t) \/ t \in RecordedTrades
  BY AheadIs DEF Accounts, TradesKept
<1>4. offset \in Nat /\ Len(log) \in Nat /\ log \in Seq(Lines) /\ session \in Nat /\ tsession \in Nat
      /\ held \in Seq(Positions) /\ batch \in Seq(Lines) /\ offset + Len(batch) <= Len(log)
      /\ \A j \in 1 .. Len(batch) : batch[j] = log[offset + j]
  BY DEF TradesKept, TradeShapes, GameShapes, TailerShapes, InStep, Noticed
<1>5. ASSUME NEW x \in Lines, log' = Append(log, x), UNCHANGED offset
      PROVE  /\ Unread(t) => Unread(t)'
             /\ x.line = "done" /\ x.trade = t => Unread(t)'
  <2>1. /\ Len(log') = Len(log) + 1 /\ log'[Len(log) + 1] = x
        /\ \A i \in 1 .. Len(log) : log'[i] = log[i]
    BY <1>4, <1>5, AtEnd
  <2>2. ASSUME NEW p \in offset + 1 .. Len(log) PROVE p \in offset' + 1 .. Len(log') /\ log'[p] = log[p]
    BY <1>4, <1>5, <2>1
  <2>3. Len(log) + 1 \in offset' + 1 .. Len(log')
    BY <1>4, <1>5, <2>1
  <2> QED
    BY <2>1, <2>2, <2>3 DEF Unread
<1>6. CASE Ask
  <2>1. [line |-> "ask", trade |-> trades'] \in Lines
    BY <1>6, TradeConstants DEF TradesKept, TradeShapes, GameShapes, Ask, Trades, Lines
  <2>2. UNCHANGED offset /\ t # dialog /\ t \in done
    BY <1>6 DEF Ask, tailer
  <2>3. Unread(t) => Unread(t)'
    BY <1>5, <1>6, <2>1, <2>2 DEF Ask
  <2>4. UNCHANGED <<held, ledger>>
    BY <1>6 DEF Ask, tailer, db
  <2> QED
    BY <1>3, <2>2, <2>3, <2>4 DEF KeptBackFor, RecordedTrades
<1>7. CASE Confirm
  <2> DEFINE x == [line |-> "done", trade |-> dialog]
  <2>1. x \in Lines /\ x.line = "done" /\ x.trade = dialog
    BY <1>7 DEF TradesKept, TradeShapes, GameShapes, Confirm, Lines
  <2>2. UNCHANGED <<offset, held, ledger, done>> /\ log' = Append(log, x)
    BY <1>7 DEF Confirm, tailer, db
  <2> HIDE DEF x
  <2>3. (Unread(t) => Unread(t)') /\ (dialog = t => Unread(t)')
    BY <1>5, <2>1, <2>2
  <2> QED
    BY <1>3, <2>2, <2>3 DEF KeptBackFor, RecordedTrades
<1>8. CASE StartGame
  <2>1. session' = session + 1 /\ tsession' = tsession
    BY <1>8 DEF StartGame, tailer
  <2>2. session = tsession /\ session' = tsession' /\ session \in Nat
    BY <1>4 DEF Noticed
  <2>3. FALSE
    BY <2>1, <2>2
  <2> QED
    BY <2>3
<1>9. CASE Rotated
  BY <1>9 DEF Rotated, Noticed
<1>10. CASE Settle \/ Second \/ Scanner \/ Tick \/ Unopened \/ Open \/ ReadAll \/ Adjust
  <2>1. UNCHANGED <<log, offset, held, ledger, dialog>> /\ (t \in done \/ t = dialog)
    BY <1>10 DEF Settle, Second, Scanner, ScanBegins, ScanAnswered, ScanSeen, ScanSaved, ScanLost, Tick, Unopened,
       Open, ReadAll, Adjust, game, db, tailer
  <2> QED
    BY <1>3, <2>1 DEF Unread, KeptBackFor, RecordedTrades
<1>11. CASE AskLine \/ DoneLine
  <2>1. /\ batch # <<>> /\ offset' = offset + 1 /\ UNCHANGED <<log, dialog, done>>
    BY <1>11 DEF AskLine, DoneLine, Reads, game
  <2>2. Head(batch) = log[offset + 1] /\ offset + 1 \in 1 .. Len(log)
    <3>1. Head(batch) = batch[1] /\ 1 \in 1 .. Len(batch)
      BY <1>4, <2>1, AtFront
    <3> QED
      BY <1>4, <3>1
  <2>3. Unread(t) => Unread(t)' \/ (Head(batch).line = "done" /\ Head(batch).trade = t)
    <3>1. ASSUME NEW p \in offset + 1 .. Len(log) PROVE p \in offset' + 1 .. Len(log') \/ p = offset + 1
      BY <1>4, <2>1
    <3> QED
      BY <2>1, <2>2, <3>1 DEF Unread
  <2>4. CASE AskLine
    <3>1. Head(batch).line # "done" /\ UNCHANGED <<held, ledger>>
      BY <2>4 DEF AskLine, Reads, db
    <3> QED
      BY <1>3, <2>1, <2>3, <3>1 DEF KeptBackFor, RecordedTrades
  <2>5. CASE DoneLine
    <3> DEFINE e == Event(Head(batch).trade, tsession, buffer.start, offset', buffer.after)
    <3>1. Due(e) /\ e.trade = Head(batch).trade
      BY <2>5, LineDue DEF DoneLine, Event, TradesKept
    <3>2. \/ Accepted(e, "lines") /\ UNCHANGED held
          \/ held' = Append(held, e) /\ (Refused(e) \/ UNCHANGED ledger)
      BY <2>5 DEF DoneLine, KeptBack, db
    <3>3. e \in Positions
      BY <3>1 DEF Due
    <3> HIDE DEF e
    <3>4. KeptBackFor(t) \/ (e.trade = t /\ held' = Append(held, e)) => KeptBackFor(t)'
      <4>1. CASE UNCHANGED held /\ held' # Append(held, e)
        BY <4>1 DEF KeptBackFor
      <4>2. CASE held' = Append(held, e)
        <5>1. /\ Len(held') = Len(held) + 1 /\ Len(held) \in Nat /\ held'[Len(held) + 1] = e
              /\ \A i \in 1 .. Len(held) : held'[i] = held[i]
          BY <1>4, <3>3, <4>2, AtEnd
        <5>2. Len(held) + 1 \in 1 .. Len(held') /\ \A i \in 1 .. Len(held) : i \in 1 .. Len(held')
          BY <5>1
        <5> QED
          BY <5>1, <5>2 DEF KeptBackFor
      <4> QED
        BY <3>2, <4>1, <4>2
    <3>5. RecordedTrades \subseteq RecordedTrades'
      <4>1. CASE Insert(e)
        BY <3>1, <4>1, RecordedNext
      <4> QED
        BY <3>2, <4>1 DEF Accepted, Refused, RecordedTrades
    <3>6. Accepted(e, "lines") => e.trade \in RecordedTrades'
      <4>1. CASE Duplicate(e)
        BY <3>1, <3>5, <4>1, NotTwice DEF TradesKept
      <4>2. CASE ~Duplicate(e)
        BY <3>1, <4>2, RecordedNext DEF Accepted
      <4> QED
        BY <4>1, <4>2
    <3> QED
      BY <1>3, <2>1, <2>3, <3>1, <3>2, <3>4, <3>5, <3>6
  <2> QED
    BY <1>11, <2>4, <2>5
<1>12. CASE Reoffer
  <2> DEFINE e == Head(held)
             next == IF Len(held) = 1 THEN "open" ELSE "offer"
  <2>1. Due(e) /\ held # <<>>
    BY <1>12, HeldDue DEF Reoffer, InStep, TradesKept
  <2>2. /\ UNCHANGED <<log, offset, dialog, done>>
        /\ \/ Accepted(e, next) /\ held' = Tail(held)
           \/ Refused(e) /\ UNCHANGED held
    BY <1>12 DEF Reoffer, game
  <2> HIDE DEF next
  <2>3. RecordedTrades \subseteq RecordedTrades'
    <3>1. CASE Insert(e)
      BY <2>1, <3>1, RecordedNext
    <3> QED
      BY <2>2, <3>1 DEF Accepted, Refused, RecordedTrades
  <2>4. Accepted(e, next) => e.trade \in RecordedTrades'
    <3>1. CASE Duplicate(e)
      BY <2>1, <2>3, <3>1, NotTwice DEF TradesKept
    <3>2. CASE ~Duplicate(e)
      BY <2>1, <3>2, RecordedNext DEF Accepted
    <3> QED
      BY <3>1, <3>2
  <2>5. KeptBackFor(t) => KeptBackFor(t)' \/ (held' = Tail(held) /\ t = e.trade)
    <3>1. CASE UNCHANGED held
      BY <3>1 DEF KeptBackFor
    <3>2. CASE held' = Tail(held)
      <4>1. /\ Len(held') = Len(held) - 1 /\ Len(held) \in Nat /\ Len(held) > 0 /\ e = held[1]
            /\ \A i \in 1 .. Len(held) - 1 : held'[i] = held[i + 1]
        BY <1>4, <2>1, <3>2, AtFront
      <4>2. ASSUME NEW i \in 1 .. Len(held), i # 1
            PROVE  i - 1 \in 1 .. Len(held') /\ held'[i - 1] = held[i]
        <5>1. i - 1 \in 1 .. Len(held') /\ i - 1 \in 1 .. Len(held) - 1 /\ (i - 1) + 1 = i
          BY <4>1, <4>2
        <5> QED
          BY <4>1, <5>1
      <4> QED
        BY <3>2, <4>1, <4>2 DEF KeptBackFor
    <3> QED
      BY <2>2, <3>1, <3>2
  <2>6. Tail(held) # held
    <3>1. Len(Tail(held)) = Len(held) - 1 /\ Len(held) \in Nat
      BY <1>4, <2>1, AtFront
    <3> QED
      BY <3>1
  <2>7. Unread(t) => Unread(t)'
    BY <2>2 DEF Unread
  <2> HIDE DEF e
  <2> QED
    BY <1>3, <2>2, <2>3, <2>4, <2>5, <2>6, <2>7
<1> QED
  BY <1>6, <1>7, <1>8, <1>9, <1>10, <1>11, <1>12 DEF Next, Tailer

---------------------------------------------------------------------------
\* Tallied, of any state of the game.
Tally(o, since, d, s, n, g, K) ==
  /\ o.counts \subseteq d /\ o.remaining + Cardinality(o.counts) = Daily
  /\ o.session <= s /\ (o.session = s => o.to <= n)
  /\ o.session = s /\ g \in o.counts => n <= o.to
  /\ \A k \in K : k.session = o.session /\ k.trade \in o.counts \ since => k.end < o.to + 2
  /\ o.monitoring => /\ o.before = o.session /\ o.from <= o.to
                     /\ \A k \in K : k.session = o.session /\ k.end <= o.from => k.trade \in o.counts

LEMMA TallyIs ==
  ASSUME NEW o, NEW since
  PROVE  Tallied(o, since) <=> Tally(o, since, done, session, Len(log), dialog, Known)
BY DEF Tallied, Tally

LEMMA TallyWeaker ==
  ASSUME NEW o, NEW q, NEW since, NEW d, NEW s, NEW n, NEW g, NEW K, Tally(o, since, d, s, n, g, K),
         \A f \in {"session", "before", "from", "to", "remaining", "counts"} : q[f] = o[f],
         q.monitoring => o.monitoring
  PROVE  Tally(q, since, d, s, n, g, K)
<1>1. /\ q.session = o.session /\ q.before = o.before /\ q.from = o.from /\ q.to = o.to
      /\ q.remaining = o.remaining /\ q.counts = o.counts
  OBVIOUS
<1> QED
  BY <1>1 DEF Tally

\* What a step does to the game.
LEMMA GameMoves ==
  ASSUME Next
  PROVE  Ask \/ Settle \/ Confirm \/ StartGame \/ UNCHANGED game
BY DEF Next, Second, Tailer, Tick, Reoffer, Unopened, Rotated, Open, AskLine, DoneLine,
   Unrecognized, ReadAll, Adjust, Scanner, ScanBegins, ScanAnswered, ScanSeen, ScanSaved, ScanLost, Restart

\* A figure that adds up goes on doing so, whatever the game, the tailer or a scan does.
LEMMA TallyNext ==
  ASSUME TradesKept, Next, NEW o \in Figures, NEW since, NEW more, since \subseteq more,
         Tally(o, since, done, session, Len(log), dialog, Known)
  PROVE  Tally(o, more, done', session', Len(log'), dialog', Known')
<1>1. /\ done \subseteq Trades /\ session \in Nat /\ Len(log) \in Nat /\ dialog \in Trades \cup {None}
      /\ None \notin Trades /\ trades \in Nat /\ log \in Seq(Lines)
      /\ o.session \in Nat /\ o.to \in Nat /\ o.from \in Nat /\ o.counts \subseteq done
  BY TradeConstants DEF TradesKept, TradeShapes, GameShapes, Trades, Figures, Tally
<1>2. \A k \in Known : k.end \in Nat /\ k.session \in Nat
  BY KnownIs DEF TradesKept
<1>3. CASE UNCHANGED game
  <2>1. ~Confirm
    BY <1>1, <1>3 DEF Confirm, game
  <2>2. Known' \subseteq Known
    BY <2>1, KnownNext
  <2> QED
    BY <1>3, <2>2 DEF Tally, game
<1>4. CASE Ask
  <2>1. Known' \subseteq Known
    BY <1>1, <1>4, KnownNext DEF Ask, Confirm
  <2>2. \A t \in done : t <= trades /\ t \in Nat
    BY <1>1 DEF TradesKept, OnceEach, Trades
  <2>3. dialog' = trades + 1 /\ UNCHANGED <<done, session>>
    BY <1>4 DEF Ask
  <2>4. dialog' \notin o.counts
    BY <1>1, <2>2, <2>3
  <2>5. Len(log') = Len(log) + 1
    BY <1>1, <1>4 DEF Ask
  <2> QED
    BY <1>1, <2>1, <2>3, <2>4, <2>5 DEF Tally
<1>5. CASE Settle
  <2>1. Known' \subseteq Known
    BY <1>1, <1>5, KnownNext DEF Settle, Confirm
  <2>2. done \subseteq done' /\ UNCHANGED <<session, log, dialog>>
    BY <1>5 DEF Settle
  <2> QED
    BY <2>1, <2>2 DEF Tally
<1>6. CASE Confirm
  <2> DEFINE x == Success(dialog, session, Len(log) + 1)
  <2>1. Known' = Known \cup {x}
    BY <1>6, KnownConfirm
  <2>2. x.trade = dialog /\ x.session = session /\ x.end = Len(log) + 1
    BY SuccessIs
  <2> HIDE DEF x
  <2>3. dialog' = None /\ UNCHANGED <<session, done>>
    BY <1>6 DEF Confirm
  <2>4. Len(log') = Len(log) + 1
    BY <1>1, <1>6 DEF Confirm
  <2>5. dialog' \notin o.counts
    BY <1>1, <2>3
  <2>6. \A k \in Known' : k.session = o.session /\ k.trade \in o.counts \ more => k.end < o.to + 2
    <3>1. x.session = o.session /\ x.trade \in o.counts => x.end < o.to + 2
      BY <1>1, <2>2 DEF Tally
    <3> QED
      BY <2>1, <3>1 DEF Tally
  <2>7. o.monitoring => \A k \in Known' : k.session = o.session /\ k.end <= o.from => k.trade \in o.counts
    <3>1. o.monitoring /\ x.session = o.session => ~(x.end <= o.from)
      BY <1>1, <2>2 DEF Tally
    <3> QED
      BY <2>1, <3>1 DEF Tally
  <2>8. o.session <= session' /\ (o.session = session' => o.to <= Len(log'))
    BY <1>1, <2>3, <2>4 DEF Tally
  <2> QED
    BY <2>3, <2>5, <2>6, <2>7, <2>8 DEF Tally
<1>7. CASE StartGame
  <2>1. Known' \subseteq Known
    BY <1>1, <1>7, KnownNext DEF StartGame, Confirm
  <2>2. session' = session + 1 /\ UNCHANGED done
    BY <1>7 DEF StartGame
  <2>3. o.session <= session' /\ o.session # session'
    BY <1>1, <2>2 DEF Tally
  <2> QED
    BY <2>1, <2>2, <2>3 DEF Tally
<1> QED
  BY <1>3, <1>4, <1>5, <1>6, <1>7, GameMoves

\* The row: left alone, taken back, marked as not to be trusted, brought up to date or replaced.
LEMMA RowMoves ==
  ASSUME Next, TradesKept
  PROVE  \/ obs' = None
         \/ UNCHANGED <<obs, ledger>>
         \/ obs # None /\ UNCHANGED ledger /\ (obs' = Uncertain(obs) \/ obs' = [obs EXCEPT !.unmarked = TRUE])
         \/ ScanSaved
         \/ obs # None /\ \E e : Records(e)
<1>1. CASE UNCHANGED ledger
  BY <1>1 DEF Next, Ask, Settle, Confirm, StartGame, Second, Tailer, Tick, Reoffer, Unopened, Rotated, Open, AskLine,
     DoneLine, Accepted, Refused, MarkGap, Unmarked, Gap, Insert,
     Unrecognized, ReadAll, Adjust, Scanner, ScanBegins, ScanAnswered, ScanSeen, ScanLost, Restart, db
<1>2. CASE \E e : Records(e)
  BY <1>2 DEF Records, Insert
<1> QED
  BY <1>1, <1>2, LedgerNext

\* A gap the tailer reports leaves no certified figure that is marked as it should be.
LEMMA GapStops ==
  ASSUME TradesKept, Rotated \/ Unrecognized, obs' # None
  PROVE  ~obs'.monitoring \/ obs'.unmarked
<1>1. CASE MarkGap
  <2>1. CASE obs = None \/ ~obs.monitoring
    BY <1>1, <2>1 DEF MarkGap
  <2>2. CASE ~(obs = None \/ ~obs.monitoring)
    <3>1. obs' = Uncertain(obs) /\ obs \in Figures
      BY <1>1, <2>2 DEF MarkGap, TradesKept, TradeShapes, RowShapes
    <3> QED
      BY <3>1, UncertainIs
  <2> QED
    BY <2>1, <2>2
<1>2. CASE Unmarked
  <2>1. obs # None /\ obs' = [obs EXCEPT !.unmarked = TRUE]
    BY <1>2 DEF Unmarked
  <2>2. obs \in Figures
    BY <2>1 DEF TradesKept, TradeShapes, RowShapes
  <2> QED
    BY <2>1, <2>2 DEF Figures
<1> QED
  BY <1>1, <1>2 DEF Rotated, Unrecognized, Gap

\* While the program runs, only Rotated opens another file.
LEMMA NoticedNext ==
  ASSUME TradesKept, Next, ~Rotated, ~Restart
  PROVE  /\ UNCHANGED <<run, tsession>>
         /\ session' = session \/ session' = session + 1
         /\ Noticed' => Noticed
<1>1. UNCHANGED <<run, tsession>>
  BY DEF Next, Ask, Settle, Confirm, StartGame, Second, Tailer, Tick, Reoffer, Unopened, Open, AskLine, DoneLine,
     Unrecognized, ReadAll, Adjust, Scanner, ScanBegins, ScanAnswered, ScanSeen, ScanSaved, ScanLost, tailer
<1>2. session' = session \/ session' = session + 1
  BY GameMoves DEF Ask, Settle, Confirm, StartGame, game
<1>3. session \in Nat /\ tsession \in Nat /\ tsession <= session
  BY DEF TradesKept, TradeShapes, GameShapes, TailerShapes, InStep
<1> QED
  BY <1>1, <1>2, <1>3 DEF Noticed

\* What is not counted stays accounted for.
LEMMA AccountedNext ==
  ASSUME TradesKept, Next, Noticed, Noticed', ~Unrecognized, ~Restart, NEW counts, Accounted(counts)
  PROVE  \A t \in done' \ counts : (Ahead(t) \/ t \in RecordedTrades)'
<1> SUFFICES ASSUME NEW t \in done' \ counts PROVE (Ahead(t) \/ t \in RecordedTrades)'
  OBVIOUS
<1>1. t \notin done \/ Accounts(t)
  BY DEF Accounted, Accounts
<1>2. Accounts(t)'
  BY <1>1, AccountsNext
<1> QED
  BY <1>2 DEF Accounts

\* What ObsKept says of a row, in the state after a step.
Sound(o) ==
  /\ Tally(o, RecordedTrades', done', session', Len(log'), dialog', Known') /\ o.run <= run'
  /\ o.run = run' /\ o.sure /\ o.monitoring /\ ~o.unmarked /\ ~o.blind =>
       /\ RecordedTrades' \subseteq o.counts
       /\ Noticed' => \A t \in done' \ o.counts : (Ahead(t) \/ t \in RecordedTrades)'

LEMMA RowStays ==
  ASSUME TradesKept, Next, UNCHANGED ledger, obs # None, obs' # None,
         obs' = obs \/ obs' = Uncertain(obs) \/ obs' = [obs EXCEPT !.unmarked = TRUE]
  PROVE  Sound(obs')
<1>1. obs \in Figures /\ Tally(obs, RecordedTrades, done, session, Len(log), dialog, Known) /\ obs.run <= run
      /\ run \in Nat /\ obs.run \in Nat
  BY TallyIs DEF TradesKept, TradeShapes, RowShapes, ObsKept, Figures
<1>2. RecordedTrades' = RecordedTrades
  BY DEF RecordedTrades
<1>3. Tally(obs, RecordedTrades', done', session', Len(log'), dialog', Known')
  BY <1>1, <1>2, TallyNext
<1>4. /\ \A f \in {"run", "session", "before", "from", "to", "remaining", "counts", "blind"} : obs'[f] = obs[f]
      /\ obs'.monitoring => obs.monitoring
  <2>1. CASE obs' = Uncertain(obs)
    BY <1>1, <2>1, UncertainIs
  <2>2. CASE obs' = [obs EXCEPT !.unmarked = TRUE]
    BY <1>1, <2>2 DEF Figures
  <2> QED
    BY <2>1, <2>2
<1>5. Tally(obs', RecordedTrades', done', session', Len(log'), dialog', Known')
  <2> DEFINE q == obs'
  <2>1. \A f \in {"session", "before", "from", "to", "remaining", "counts"} : q[f] = obs[f]
    BY <1>4
  <2>2. q.monitoring => obs.monitoring
    BY <1>4
  <2> HIDE DEF q
  <2>3. Tally(q, RecordedTrades', done', session', Len(log'), dialog', Known')
    BY <1>3, <2>1, <2>2, TallyWeaker
  <2> QED
    BY <2>3 DEF q
<1>6. run' = run \/ (Restart /\ run' = run + 1)
  BY DEF Next, Ask, Settle, Confirm, StartGame, Second, Tailer, Tick, Reoffer, Unopened, Rotated, Open, AskLine,
     DoneLine, Unrecognized, ReadAll, Adjust, Scanner, ScanBegins, ScanAnswered, ScanSeen, ScanSaved, ScanLost, Restart
<1>7. obs'.run = obs.run /\ obs'.counts = obs.counts /\ obs'.blind = obs.blind
  BY <1>4
<1>8. obs'.run <= run'
  BY <1>1, <1>6, <1>7
<1>9. ASSUME obs'.run = run', obs'.sure, obs'.monitoring, ~obs'.unmarked, ~obs'.blind
      PROVE  /\ RecordedTrades' \subseteq obs'.counts
             /\ Noticed' => \A t \in done' \ obs'.counts : (Ahead(t) \/ t \in RecordedTrades)'
  <2>1. obs' = obs
    <3>1. obs' # Uncertain(obs)
      BY <1>1, <1>9, UncertainIs
    <3>2. obs' # [obs EXCEPT !.unmarked = TRUE]
      BY <1>1, <1>9 DEF Figures
    <3> QED
      BY <3>1, <3>2
  <2>2. ~Restart /\ run' = run
    BY <1>1, <1>6, <1>7, <1>9 DEF Restart
  <2>3. ~Rotated /\ ~Unrecognized
    BY <1>9, GapStops
  <2>4. Certified /\ ~obs.unmarked /\ ~obs.blind
    BY <1>9, <2>1, <2>2 DEF Certified
  <2>5. RecordedTrades \subseteq obs.counts /\ (Noticed => Accounted(obs.counts))
    BY <2>4 DEF TradesKept, ObsKept
  <2>6. Noticed' => Noticed
    BY <2>2, <2>3, NoticedNext
  <2> DEFINE c == obs.counts
  <2>7. obs'.counts = c
    BY <2>1
  <2> HIDE DEF c
  <2>8. Noticed' => \A t \in done' \ c : (Ahead(t) \/ t \in RecordedTrades)'
    BY <2>2, <2>3, <2>5, <2>6, AccountedNext DEF c
  <2> QED
    BY <1>2, <2>5, <2>7, <2>8 DEF c
<1> QED
  BY <1>5, <1>8, <1>9 DEF Sound

\* A trade the ledger takes is counted, or was before, or ends the tracking.
LEMMA RowFollows ==
  ASSUME TradesKept, Next, obs # None, NEW e, Records(e)
  PROVE  obs' # None => Sound(obs')
<1>1. obs \in Figures /\ Tally(obs, RecordedTrades, done, session, Len(log), dialog, Known) /\ obs.run <= run
      /\ run \in Nat /\ obs.run \in Nat
  BY TallyIs DEF TradesKept, TradeShapes, RowShapes, ObsKept, Figures
<1>2. Due(e) /\ ~Duplicate(e) /\ Insert(e) /\ UNCHANGED <<game, run, tsession, scanner>>
  BY DEF Records
<1>3. /\ RecordedTrades' = RecordedTrades \cup {e.trade} /\ e.trade \notin RecordedTrades
      /\ Len(ledger') = Len(ledger) + 1 /\ Len(ledger) \in Nat
  BY <1>2, RecordedNext, NotTwice DEF TradesKept
<1>4. ~Rotated /\ ~Restart /\ ~Unrecognized /\ ~Confirm
  <2>1. ledger' # ledger
    BY <1>3
  <2>2. ~Confirm /\ ~Rotated /\ ~Restart /\ ~Unrecognized
    BY <2>1 DEF Rotated, Restart, Unrecognized, Confirm, db
  <2> QED
    BY <2>2
<1>5. Known' \subseteq Known /\ (Noticed' <=> Noticed)
  BY <1>2, <1>4, KnownNext DEF Noticed, game
<1>6. Tally(obs, RecordedTrades', done', session', Len(log'), dialog', Known')
  BY <1>1, <1>3, TallyNext
<1> DEFINE k == Success(e.trade, e.session, e.end)
<1>7. k \in Known /\ k.trade = e.trade /\ k.session = e.session /\ k.end = e.end
  BY <1>2, SuccessIs DEF Due
<1>8. e \in Positions /\ e.start + 2 = e.end /\ e.trade \in done /\ e.trade # dialog
  BY <1>2, <1>7 DEF Due, TradesKept, OnceEach
<1> HIDE DEF k
<1>9. CASE obs.run # run
  <2>1. obs' = Uncertain(obs)
    BY <1>2, <1>9 DEF Insert
  <2> DEFINE q == Uncertain(obs)
  <2>2. /\ \A f \in {"run", "session", "before", "from", "to", "at", "remaining", "counts", "blind", "unmarked"} : q[f] = obs[f]
        /\ ~q.monitoring
    BY <1>1, UncertainIs
  <2> HIDE DEF q
  <2>3. Tally(q, RecordedTrades', done', session', Len(log'), dialog', Known')
    BY <1>6, <2>2, TallyWeaker
  <2>4. q.run <= run'
    BY <1>1, <1>2, <2>2
  <2> QED
    BY <2>1, <2>2, <2>3, <2>4 DEF Sound, q
<1>10. CASE obs.run = run
  <2> DEFINE q == Reconcile(obs, e)
  <2>1. obs' = q
    BY <1>2, <1>10 DEF Insert
  <2>2. e.session = obs.session /\ e.end >= obs.to + 2 => e.trade \notin obs.counts
    <3>1. obs.to \in Nat /\ e.end \in Nat
      BY <1>1, <1>8 DEF Figures, Positions
    <3> QED
      BY <1>1, <1>3, <1>7, <3>1 DEF Tally
  <2>3. \A f \in {"run", "session", "before", "from", "to", "at", "blind", "unmarked"} : q[f] = obs[f]
    BY <1>1, <1>8, ReconcileIs
  <2>4. /\ q.counts \subseteq done /\ q.remaining + Cardinality(q.counts) = Daily
        /\ obs.counts \subseteq q.counts /\ q.counts \subseteq obs.counts \cup {e.trade}
        /\ q.monitoring => /\ obs.monitoring /\ e.session = obs.session
                           /\ e.end <= obs.from \/ e.trade \in q.counts
        /\ q.sure => obs.sure
    <3>1. obs.counts \subseteq done /\ obs.remaining + Cardinality(obs.counts) = Daily
      BY <1>1 DEF Tally
    <3> QED
      BY <1>1, <1>8, <2>2, <3>1, CountsOne DEF TradesKept
  <2> HIDE DEF q
  <2>5. /\ q.session = obs.session /\ q.before = obs.before /\ q.from = obs.from /\ q.to = obs.to
        /\ q.run = obs.run /\ q.blind = obs.blind /\ q.unmarked = obs.unmarked
    BY <2>3
  <2>6. UNCHANGED <<done, session, log, dialog>>
    BY <1>2 DEF game
  <2>7. Tally(q, RecordedTrades', done', session', Len(log'), dialog', Known')
    <3>1. \A l \in Known' : l.session = q.session /\ l.trade \in q.counts \ RecordedTrades' => l.end < q.to + 2
      BY <1>3, <1>6, <2>4, <2>5 DEF Tally
    <3>2. q.monitoring => \A l \in Known' : l.session = q.session /\ l.end <= q.from => l.trade \in q.counts
      BY <1>6, <2>4, <2>5 DEF Tally
    <3>3. q.session = session' /\ dialog' \in q.counts => Len(log') <= q.to
      BY <1>6, <1>8, <2>4, <2>5, <2>6 DEF Tally
    <3>4. q.monitoring => q.before = q.session /\ q.from <= q.to
      BY <1>6, <2>4, <2>5 DEF Tally
    <3>5. q.session <= session' /\ (q.session = session' => q.to <= Len(log')) /\ q.counts \subseteq done'
      BY <1>6, <2>4, <2>5, <2>6 DEF Tally
    <3> QED
      BY <2>4, <3>1, <3>2, <3>3, <3>4, <3>5 DEF Tally
  <2>8. q.run <= run'
    BY <1>1, <1>2, <2>5
  <2>9. ASSUME q.run = run', q.sure, q.monitoring, ~q.unmarked, ~q.blind
        PROVE  /\ RecordedTrades' \subseteq q.counts
               /\ Noticed' => \A t \in done' \ q.counts : (Ahead(t) \/ t \in RecordedTrades)'
    <3>1. Certified /\ ~obs.unmarked /\ ~obs.blind
      BY <1>10, <2>4, <2>5, <2>9 DEF Certified
    <3>2. RecordedTrades \subseteq obs.counts /\ (Noticed => Accounted(obs.counts))
      BY <3>1 DEF TradesKept, ObsKept
    <3>3. e.trade \in q.counts
      BY <1>1, <1>7, <2>4, <2>9 DEF Tally
    <3> DEFINE c == obs.counts
    <3>4. c \subseteq q.counts /\ (Noticed => Accounted(c))
      BY <2>4, <3>2
    <3> HIDE DEF c
    <3>5. Noticed' => \A t \in done' \ c : (Ahead(t) \/ t \in RecordedTrades)'
      BY <1>4, <1>5, <3>4, AccountedNext
    <3>6. Noticed' => \A t \in done' \ q.counts : (Ahead(t) \/ t \in RecordedTrades)'
      BY <3>4, <3>5
    <3>7. RecordedTrades' \subseteq q.counts
      BY <1>3, <2>4, <3>2, <3>3
    <3> QED
      BY <3>6, <3>7
  <2>10. Sound(q)
    BY <2>7, <2>8, <2>9 DEF Sound
  <2> QED
    BY <2>1, <2>10 DEF Sound
<1> QED
  BY <1>9, <1>10

\* A scan's figure becomes the row, brought up to date.
LEMMA RowReplaced ==
  ASSUME TradesKept, Next, ScanSaved
  PROVE  Sound(obs')
<1>1. scan \in Figures /\ Tallied(scan, {}) /\ scan.run = run /\ spc = "seen" /\ run \in Nat
  BY DEF ScanSaved, TradesKept, TradeShapes, ScanShapes, ScanKept
<1>2. Tally(scan, {}, done, session, Len(log), dialog, Known)
  BY <1>1, TallyIs
<1> DEFINE q == MadeUp(scan)
<1>3. obs' = q /\ UNCHANGED <<game, run, tailer, ledger>>
  BY DEF ScanSaved
<1>4. MadeSoFar(scan, q, Len(ledger))
  BY <1>1, MadeUpKeeps DEF TradesKept
<1> HIDE DEF q
<1>5. /\ q.session = scan.session /\ q.before = scan.before /\ q.from = scan.from /\ q.to = scan.to
      /\ q.run = scan.run /\ q.blind = scan.blind /\ q.unmarked = scan.unmarked
      /\ q.counts \subseteq done /\ q.remaining + Cardinality(q.counts) = Daily /\ scan.counts \subseteq q.counts
      /\ q.monitoring => scan.monitoring
  BY <1>4 DEF MadeSoFar
<1>6. \A t \in q.counts : t \in scan.counts \/ t \in RecordedTrades
  BY <1>4 DEF MadeSoFar, RecordedTrades
<1>7. ~Confirm /\ ~Unrecognized /\ ~Restart /\ ~Rotated
  BY <1>1, <1>3 DEF ScanSaved, Confirm, Unrecognized, Restart, Rotated, Reads, tailer, game, TradesKept, TradeShapes,
     GameShapes, TailerShapes
<1>8. Known' = Known /\ RecordedTrades' = RecordedTrades /\ UNCHANGED <<done, session, log, dialog>>
  BY <1>3 DEF Known, RecordedTrades, game, tailer
<1>9. \A t \in RecordedTrades : t # dialog
  BY RecordedKnown, SuccessIs DEF RecordedTrades, TradesKept, OnceEach
<1>10. Tally(q, RecordedTrades', done', session', Len(log'), dialog', Known')
  <2>1. \A l \in Known : l.session = q.session /\ l.trade \in q.counts \ RecordedTrades => l.end < q.to + 2
    BY <1>2, <1>5, <1>6 DEF Tally
  <2>2. q.monitoring => /\ q.before = q.session /\ q.from <= q.to
                        /\ \A l \in Known : l.session = q.session /\ l.end <= q.from => l.trade \in q.counts
    BY <1>2, <1>5 DEF Tally
  <2>3. q.session = session /\ dialog \in q.counts => Len(log) <= q.to
    BY <1>2, <1>5, <1>6, <1>9 DEF Tally
  <2>4. q.session <= session /\ (q.session = session => q.to <= Len(log))
    BY <1>2, <1>5 DEF Tally
  <2>5. Tally(q, RecordedTrades, done, session, Len(log), dialog, Known)
    BY <1>5, <2>1, <2>2, <2>3, <2>4 DEF Tally
  <2> QED
    BY <1>8, <2>5
<1>11. q.run <= run'
  BY <1>1, <1>3, <1>5
<1>12. ASSUME q.monitoring, ~q.blind
       PROVE  /\ RecordedTrades' \subseteq q.counts
              /\ Noticed' => \A t \in done' \ q.counts : (Ahead(t) \/ t \in RecordedTrades)'
  <2> DEFINE at == [session |-> scan.before, end |-> scan.from]
  <2>1. /\ CountsEarlier(scan.counts, at) /\ tsession <= at.session /\ MissesLater(scan.counts, at)
        /\ scan.before = scan.session /\ scan.session <= session
    BY <1>1, <1>2, <1>5, <1>12 DEF TradesKept, ScanKept, Tally
  <2>2. at.session = scan.before /\ at.end = scan.from
    OBVIOUS
  <2> HIDE DEF at
  <2>3. ASSUME NEW i \in 1 .. Len(ledger) PROVE ledger[i].trade \in q.counts
    <3> DEFINE k == Success(ledger[i].trade, ledger[i].session, ledger[i].end)
    <3>1. k \in Known /\ k.trade = ledger[i].trade /\ k.session = ledger[i].session /\ k.end = ledger[i].end
          /\ ledger[i] \in Positions
      BY RecordedKnown, SuccessIs DEF TradesKept
    <3>2. ledger[i].session <= tsession /\ tsession \in Nat /\ ledger[i].session \in Nat /\ ledger[i].end \in Nat
      BY <3>1 DEF TradesKept, InStep, Positions, TradeShapes, TailerShapes
    <3>3. scan.before \in Nat /\ scan.from \in Nat
      BY <1>1 DEF Figures
    <3> HIDE DEF k
    <3>4. CASE ledger[i].session = scan.before /\ ledger[i].end > scan.from
      BY <1>4, <1>12, <3>4 DEF MadeSoFar
    <3>5. CASE ledger[i].session < scan.before \/ (ledger[i].session = scan.before /\ ledger[i].end <= scan.from)
      BY <1>5, <2>1, <2>2, <3>1, <3>5 DEF CountsEarlier
    <3> QED
      BY <2>1, <2>2, <3>2, <3>3, <3>4, <3>5
  <2>4. RecordedTrades \subseteq q.counts
    BY <2>3 DEF RecordedTrades
  <2>5. ASSUME Noticed' PROVE \A t \in done' \ q.counts : (Ahead(t) \/ t \in RecordedTrades)'
    <3>1. Noticed
      BY <1>7, <2>5, NoticedNext
    <3>2. tsession = at.session /\ session = at.session
      <4>1. session \in Nat /\ tsession \in Nat /\ scan.before \in Nat
        BY <1>1 DEF TradesKept, TradeShapes, GameShapes, TailerShapes, Figures
      <4> QED
        BY <2>1, <2>2, <3>1, <4>1 DEF Noticed
    <3> DEFINE c == scan.counts
    <3>3. Accounted(c) /\ c \subseteq q.counts
      BY <1>5, <2>1, <3>2 DEF MissesLater
    <3> HIDE DEF c
    <3>4. \A t \in done' \ c : (Ahead(t) \/ t \in RecordedTrades)'
      BY <1>7, <2>5, <3>1, <3>3, AccountedNext
    <3> QED
      BY <3>3, <3>4
  <2> QED
    BY <1>8, <2>4, <2>5
<1>13. Sound(q)
  BY <1>10, <1>11, <1>12 DEF Sound
<1> QED
  BY <1>3, <1>13 DEF Sound

LEMMA ObsKeptNext ==
  ASSUME TradesKept, Next
  PROVE  ObsKept'
<1>1. ASSUME obs' # None PROVE Sound(obs')
  <2>1. CASE UNCHANGED <<obs, ledger>>
    BY <1>1, <2>1, RowStays
  <2> QED
    BY <1>1, <2>1, RowMoves, RowStays, RowFollows, RowReplaced
<1> QED
  BY <1>1 DEF ObsKept, Sound, Tallied, Tally, Certified, Accounted

---------------------------------------------------------------------------
\* What a scan counted of the log it still counts, whatever is logged since.
LEMMA EarlierNext ==
  ASSUME TradesKept, Next, NEW counts, NEW at \in Ends, InSession(at), CountsEarlier(counts, at)
  PROVE  \A k \in Known' : k.session < at.session \/ (k.session = at.session /\ k.end <= at.end) => k.trade \in counts
<1>1. CASE ~Confirm
  BY <1>1, KnownNext DEF CountsEarlier
<1>2. CASE Confirm
  <2> DEFINE x == Success(dialog, session, Len(log) + 1)
  <2>1. Known' = Known \cup {x}
    BY <1>2, KnownConfirm
  <2>2. x.session = session /\ x.end = Len(log) + 1
    BY SuccessIs
  <2>3. session \in Nat /\ Len(log) \in Nat /\ at.session \in Nat /\ at.end \in Nat
    BY DEF TradesKept, TradeShapes, GameShapes, Ends
  <2> HIDE DEF x
  <2>4. ~(x.session < at.session \/ (x.session = at.session /\ x.end <= at.end))
    BY <2>2, <2>3 DEF InSession
  <2> QED
    BY <2>1, <2>4 DEF CountsEarlier
<1> QED
  BY <1>1, <1>2

\* What a scan did not count stays accounted for.
LEMMA LaterNext ==
  ASSUME TradesKept, Next, ~Rotated, ~Unrecognized, ~Restart, NEW counts, NEW at \in Ends, InSession(at),
         MissesLater(counts, at)
  PROVE  tsession' = at.session /\ session' = at.session =>
           \A t \in done' \ counts : (Ahead(t) \/ t \in RecordedTrades)'
<1> SUFFICES ASSUME tsession' = at.session, session' = at.session
             PROVE  \A t \in done' \ counts : (Ahead(t) \/ t \in RecordedTrades)'
  OBVIOUS
<1>1. session \in Nat /\ at.session \in Nat /\ tsession \in Nat
  BY DEF TradesKept, TradeShapes, GameShapes, TailerShapes, Ends
<1>2. tsession = at.session /\ session = at.session
  BY <1>1, NoticedNext DEF InSession
<1>3. Noticed /\ Noticed' /\ Accounted(counts)
  BY <1>2 DEF Noticed, MissesLater
<1> QED
  BY <1>3, AccountedNext

LEMMA InSessionNext ==
  ASSUME TradesKept, Next, NEW at \in Ends, InSession(at)
  PROVE  at.session <= session' /\ (at.session = session' => at.end <= Len(log'))
<1>1. session \in Nat /\ at.session \in Nat /\ at.end \in Nat /\ log \in Seq(Lines) /\ Len(log) \in Nat
  BY DEF TradesKept, TradeShapes, GameShapes, Ends
<1>2. CASE StartGame
  BY <1>1, <1>2 DEF StartGame, InSession
<1>3. CASE Ask \/ Confirm
  <2>1. Len(log') = Len(log) + 1 /\ session' = session
    BY <1>1, <1>3 DEF Ask, Confirm
  <2> QED
    BY <1>1, <2>1 DEF InSession
<1>4. CASE Settle \/ UNCHANGED game
  BY <1>4 DEF Settle, InSession, game
<1> QED
  BY <1>2, <1>3, <1>4, GameMoves

\* A scan goes on, ends, or stays as it is.
LEMMA ScanMoves ==
  ASSUME Next, TradesKept
  PROVE  \/ spc' = "idle"
         \/ ScanBegins \/ ScanAnswered \/ ScanSeen
         \/ UNCHANGED <<spc, scan>> /\ ~Restart /\ (spc \in {"walked", "seen"} => ~Rotated /\ ~Unrecognized)
         \/ UNCHANGED spc /\ spc \in {"walked", "seen"} /\ scan' = [scan EXCEPT !.blind = TRUE] /\ ~Restart
<1>1. CASE Rotated \/ Unrecognized
  <2>1. UNCHANGED <<spc, run>> /\ BlindScan
    BY <1>1 DEF Rotated, Unrecognized
  <2>2. ~Restart
    BY <2>1 DEF Restart, TradesKept, TradeShapes
  <2> QED
    BY <2>1, <2>2 DEF BlindScan
<1>2. CASE Restart
  BY <1>2 DEF Restart
<1>3. CASE ~(Rotated \/ Unrecognized) /\ ~Restart
  <2>1. \/ spc' = "idle" \/ ScanBegins \/ ScanAnswered \/ ScanSeen \/ UNCHANGED <<spc, scan>>
    BY <1>3 DEF Next, Ask, Settle, Confirm, StartGame, Second, Tailer, Tick, Reoffer, Unopened, Open, AskLine,
       DoneLine, ReadAll, Adjust, Scanner, ScanSaved, ScanLost, scanner
  <2> QED
    BY <1>3, <2>1
<1> QED
  BY <1>1, <1>2, <1>3

\* What ScanKept says of a scan, in the state after a step.
WalkedNext(s) ==
  /\ s.before.session <= session' /\ (s.before.session = session' => s.before.end <= Len(log'))
  /\ s.counts \subseteq done' /\ s.remaining + Cardinality(s.counts) = Daily
  /\ \A k \in Known' : k.session < s.before.session \/ (k.session = s.before.session /\ k.end <= s.before.end)
                         => k.trade \in s.counts
  /\ ~s.blind /\ tsession' = s.before.session /\ session' = s.before.session =>
       \A t \in done' \ s.counts : (Ahead(t) \/ t \in RecordedTrades)'
SeenNext(s) ==
  /\ Tally(s, {}, done', session', Len(log'), dialog', Known') /\ s.run = run'
  /\ s.monitoring =>
       /\ \A k \in Known' : k.session < s.before \/ (k.session = s.before /\ k.end <= s.from) => k.trade \in s.counts
       /\ ~s.blind => /\ tsession' <= s.before
                      /\ tsession' = s.before /\ session' = s.before =>
                           \A t \in done' \ s.counts : (Ahead(t) \/ t \in RecordedTrades)'

LEMMA WalkedStays ==
  ASSUME TradesKept, Next, UNCHANGED spc, spc = "walked", ~Restart, NEW s,
         \/ s = scan /\ ~Rotated /\ ~Unrecognized
         \/ s = [scan EXCEPT !.blind = TRUE]
  PROVE  WalkedNext(s)
<1>1. scan \in [before : Ends, remaining : Nat, counts : SUBSET Trades, blind : BOOLEAN]
  BY DEF TradesKept, TradeShapes, ScanShapes
<1>2. /\ s.before = scan.before /\ s.remaining = scan.remaining /\ s.counts = scan.counts
      /\ ~s.blind => s = scan /\ ~scan.blind
  BY <1>1
<1> DEFINE at == scan.before
           c == scan.counts
<1>3. /\ at \in Ends /\ InSession(at) /\ c \subseteq done /\ scan.remaining + Cardinality(c) = Daily
      /\ CountsEarlier(c, at) /\ (~scan.blind => MissesLater(c, at))
  BY <1>1 DEF TradesKept, ScanKept
<1> HIDE DEF at, c
<1>4. at.session <= session' /\ (at.session = session' => at.end <= Len(log'))
  BY <1>3, InSessionNext
<1>5. \A k \in Known' : k.session < at.session \/ (k.session = at.session /\ k.end <= at.end) => k.trade \in c
  BY <1>3, EarlierNext
<1>6. ASSUME ~s.blind
      PROVE  tsession' = at.session /\ session' = at.session => \A t \in done' \ c : (Ahead(t) \/ t \in RecordedTrades)'
  <2>1. ~Rotated /\ ~Unrecognized /\ MissesLater(c, at)
    <3>1. s # [scan EXCEPT !.blind = TRUE]
      BY <1>1, <1>6
    <3> QED
      BY <1>2, <1>3, <1>6, <3>1
  <2> QED
    BY <1>3, <2>1, LaterNext
<1>7. done \subseteq done'
  BY GameMoves DEF Ask, Settle, Confirm, StartGame, game
<1>8. s.before = at /\ s.counts = c /\ s.remaining = scan.remaining
  BY <1>2 DEF at, c
<1> QED
  BY <1>3, <1>4, <1>5, <1>6, <1>7, <1>8 DEF WalkedNext

LEMMA SeenStays ==
  ASSUME TradesKept, Next, UNCHANGED spc, spc = "seen", ~Restart, NEW s,
         \/ s = scan /\ ~Rotated /\ ~Unrecognized
         \/ s = [scan EXCEPT !.blind = TRUE]
  PROVE  SeenNext(s)
<1>1. scan \in Figures /\ Tally(scan, {}, done, session, Len(log), dialog, Known) /\ scan.run = run
  BY TallyIs DEF TradesKept, TradeShapes, ScanShapes, ScanKept
<1>2. /\ \A f \in {"session", "before", "from", "to", "remaining", "counts"} : s[f] = scan[f]
      /\ s.run = scan.run /\ s.monitoring = scan.monitoring
      /\ ~s.blind => s = scan /\ ~scan.blind /\ ~Rotated /\ ~Unrecognized
  <2>1. CASE s = scan /\ ~Rotated /\ ~Unrecognized
    BY <2>1
  <2>2. CASE s = [scan EXCEPT !.blind = TRUE]
    BY <1>1, <2>2 DEF Figures
  <2> QED
    BY <2>1, <2>2
<1>3. Tally(scan, {}, done', session', Len(log'), dialog', Known')
  BY <1>1, TallyNext
<1>4. Tally(s, {}, done', session', Len(log'), dialog', Known')
  BY <1>2, <1>3, TallyWeaker
<1>5. run' = run
  BY DEF Next, Ask, Settle, Confirm, StartGame, Second, Tailer, Tick, Reoffer, Unopened, Rotated, Open, AskLine,
     DoneLine, Unrecognized, ReadAll, Adjust, Scanner, ScanBegins, ScanAnswered, ScanSeen, ScanSaved, ScanLost
<1>6. ASSUME s.monitoring
      PROVE  /\ \A k \in Known' : k.session < s.before \/ (k.session = s.before /\ k.end <= s.from) => k.trade \in s.counts
             /\ ~s.blind => /\ tsession' <= s.before
                            /\ tsession' = s.before /\ session' = s.before =>
                                 \A t \in done' \ s.counts : (Ahead(t) \/ t \in RecordedTrades)'
  <2> DEFINE at == [session |-> scan.before, end |-> scan.from]
             c == scan.counts
  <2>1. /\ CountsEarlier(c, at)
        /\ ~scan.blind => tsession <= at.session /\ MissesLater(c, at)
    BY <1>2, <1>6 DEF TradesKept, ScanKept
  <2>2. at \in Ends /\ at.session = scan.before /\ at.end = scan.from
    BY <1>1 DEF Ends, Figures
  <2>3. InSession(at)
    <3>1. /\ scan.before = scan.session /\ scan.from <= scan.to /\ scan.session <= session
          /\ scan.session = session => scan.to <= Len(log)
      BY <1>1, <1>2, <1>6 DEF Tally
    <3>2. Len(log) \in Nat /\ scan.from \in Nat /\ scan.to \in Nat
      BY <1>1 DEF TradesKept, TradeShapes, GameShapes, Figures
    <3> QED
      BY <2>2, <3>1, <3>2 DEF InSession
  <2>4. s.before = at.session /\ s.from = at.end /\ s.counts = c
    BY <1>2, <2>2
  <2> HIDE DEF at, c
  <2>5. \A k \in Known' : k.session < at.session \/ (k.session = at.session /\ k.end <= at.end) => k.trade \in c
    BY <2>1, <2>2, <2>3, EarlierNext
  <2>6. ASSUME ~s.blind
        PROVE  /\ tsession' <= at.session
               /\ tsession' = at.session /\ session' = at.session =>
                    \A t \in done' \ c : (Ahead(t) \/ t \in RecordedTrades)'
    <3>1. ~Rotated /\ ~Unrecognized /\ MissesLater(c, at) /\ tsession <= at.session
      BY <1>2, <2>1, <2>6
    <3>2. tsession' = tsession
      BY <3>1, NoticedNext
    <3> QED
      BY <2>2, <2>3, <3>1, <3>2, LaterNext
  <2> QED
    BY <2>4, <2>5, <2>6
<1> QED
  BY <1>1, <1>2, <1>4, <1>5, <1>6 DEF SeenNext

\* A scan under way keeps what it has seen.
LEMMA ScanKeptNext ==
  ASSUME TradesKept, Next
  PROVE  ScanKept'
<1>1. CASE spc' = "idle"
  BY <1>1 DEF ScanKept
<1>2. CASE ScanBegins
  <2>1. spc' = "walk" /\ scan' = [before |-> Here] /\ UNCHANGED <<session, log>>
    BY <1>2 DEF ScanBegins, game
  <2>2. scan'.before = [session |-> session', end |-> Len(log')] /\ session' \in Nat /\ Len(log') \in Nat
    BY <2>1 DEF Here, TradesKept, TradeShapes, GameShapes
  <2>3. InSession(scan.before)'
    BY <2>2 DEF InSession
  <2> QED
    BY <2>1, <2>3 DEF ScanKept
<1>3. CASE ScanAnswered
  <2>1. /\ spc' = "walked" /\ scan'.before = scan.before /\ scan'.remaining = Daily - Cardinality(done)
        /\ scan'.counts = done /\ UNCHANGED <<session, log, done, dialog>> /\ spc = "walk" /\ UNCHANGED <<tailer, db>>
    BY <1>3 DEF ScanAnswered, game
  <2>2. InSession(scan.before)
    BY <2>1 DEF TradesKept, ScanKept
  <2>3. InSession(scan.before)'
    BY <2>1, <2>2 DEF InSession
  <2>4. scan'.remaining + Cardinality(scan'.counts) = Daily
    BY <2>1, TradeConstants, FS_CardinalityType DEF TradesKept, OnceEach
  <2>5. \A k \in Known : k.trade \in done
    BY DEF TradesKept, OnceEach
  <2>6. Known' = Known
    BY <2>1 DEF Known, tailer, db
  <2>7. CountsEarlier(scan.counts, scan.before)'
    BY <2>1, <2>5, <2>6 DEF CountsEarlier
  <2>8. MissesLater(scan.counts, scan.before)'
    BY <2>1 DEF MissesLater, Accounted
  <2> QED
    BY <2>1, <2>3, <2>4, <2>7, <2>8 DEF ScanKept
<1>4. CASE ScanSeen
  <2>1. /\ scan \in [before : Ends, remaining : Nat, counts : SUBSET Trades, blind : BOOLEAN]
        /\ InSession(scan.before) /\ scan.counts \subseteq done /\ scan.remaining + Cardinality(scan.counts) = Daily
        /\ CountsEarlier(scan.counts, scan.before)
        /\ ~scan.blind => MissesLater(scan.counts, scan.before)
    BY <1>4 DEF ScanSeen, TradesKept, TradeShapes, ScanShapes, ScanKept
  <2> DEFINE at == scan.before
             c == scan.counts
             o == scan'
  <2>2. /\ o.run = run /\ o.session = session /\ o.before = at.session /\ o.from = at.end /\ o.to = Len(log)
        /\ o.remaining = scan.remaining /\ o.counts = c /\ o.monitoring = (at.session = session)
        /\ o.blind = scan.blind
    BY <1>4 DEF ScanSeen
  <2>3. UNCHANGED <<run, session, log, done, dialog, tailer, db>> /\ spc' = "seen"
    BY <1>4 DEF ScanSeen, game
  <2>4. Known' = Known /\ RecordedTrades' = RecordedTrades /\ tsession' = tsession
    BY <2>3 DEF Known, RecordedTrades, tailer, db
  <2>5. /\ at \in Ends /\ InSession(at) /\ c \subseteq done /\ scan.remaining + Cardinality(c) = Daily
        /\ CountsEarlier(c, at) /\ (~scan.blind => MissesLater(c, at))
    BY <2>1
  <2>6. /\ session \in Nat /\ Len(log) \in Nat /\ at.session \in Nat /\ at.end \in Nat
        /\ \A k \in Known : k.end \in Nat /\ k.session \in Nat /\ (k.session = session => k.end <= Len(log))
        /\ tsession \in Nat /\ tsession <= session
    BY <2>5, KnownIs DEF TradesKept, TradeShapes, GameShapes, TailerShapes, Ends, OnceEach, InStep
  <2> HIDE DEF at, c, o
  <2>7. Tally(o, {}, done, session, Len(log), dialog, Known)
    <3>1. \A k \in Known : k.session = o.session => k.end < o.to + 2
      BY <2>2, <2>6
    <3>2. o.monitoring => /\ o.before = o.session /\ o.from <= o.to
                          /\ \A k \in Known : k.session = o.session /\ k.end <= o.from => k.trade \in o.counts
      BY <2>2, <2>5, <2>6 DEF InSession, CountsEarlier
    <3>3. o.session <= session /\ (o.session = session => o.to <= Len(log)) /\ Len(log) <= o.to
      BY <2>2, <2>6
    <3> QED
      BY <2>2, <2>5, <3>1, <3>2, <3>3 DEF Tally
  <2>8. Tally(o, {}, done', session', Len(log'), dialog', Known')
    BY <2>3, <2>4, <2>7
  <2>9. o.monitoring => \A k \in Known' : k.session < o.before \/ (k.session = o.before /\ k.end <= o.from) => k.trade \in o.counts
    BY <2>2, <2>4, <2>5 DEF CountsEarlier
  <2>10. ASSUME o.monitoring, ~o.blind
         PROVE  /\ tsession' <= o.before
                /\ tsession' = o.before /\ session' = o.before =>
                     \A t \in done' \ o.counts : (Ahead(t) \/ t \in RecordedTrades)'
    <3>1. ~Rotated /\ ~Unrecognized /\ ~Restart
      BY <1>4 DEF ScanSeen, Rotated, Unrecognized, Restart, TradesKept, TradeShapes, GameShapes, TailerShapes, Reads, tailer
    <3>2. tsession' = at.session /\ session' = at.session => \A t \in done' \ c : (Ahead(t) \/ t \in RecordedTrades)'
      BY <2>2, <2>5, <2>10, <3>1, LaterNext
    <3> QED
      BY <2>2, <2>4, <2>6, <2>10, <3>2
  <2>11. SeenNext(o)
    BY <2>2, <2>3, <2>8, <2>9, <2>10 DEF SeenNext
  <2> QED
    BY <2>3, <2>11 DEF SeenNext, ScanKept, Tallied, Tally, CountsEarlier, MissesLater, Accounted, o
<1>5. CASE UNCHANGED spc /\ spc = "walk" /\ UNCHANGED scan
  <2>1. InSession(scan.before) /\ scan.before \in Ends
    BY <1>5 DEF TradesKept, ScanKept, TradeShapes, ScanShapes
  <2> DEFINE at == scan.before
  <2>2. at \in Ends /\ InSession(at) /\ scan'.before = at
    BY <1>5, <2>1
  <2> HIDE DEF at
  <2>3. at.session <= session' /\ (at.session = session' => at.end <= Len(log'))
    BY <2>2, InSessionNext
  <2>4. InSession(scan.before)'
    BY <2>2, <2>3 DEF InSession
  <2> QED
    BY <1>5, <2>4 DEF ScanKept
<1>6. CASE /\ UNCHANGED spc /\ spc = "walked" /\ ~Restart
           /\ \/ scan' = scan /\ ~Rotated /\ ~Unrecognized
              \/ scan' = [scan EXCEPT !.blind = TRUE]
  <2> DEFINE s == scan'
  <2>1. /\ UNCHANGED spc /\ spc = "walked" /\ ~Restart
        /\ \/ s = scan /\ ~Rotated /\ ~Unrecognized
           \/ s = [scan EXCEPT !.blind = TRUE]
    BY <1>6
  <2> HIDE DEF s
  <2>2. WalkedNext(s)
    BY <2>1, WalkedStays DEF WalkedNext
  <2> QED
    BY <1>6, <2>2 DEF s, WalkedNext, ScanKept, InSession, CountsEarlier, MissesLater, Accounted
<1>7. CASE /\ UNCHANGED spc /\ spc = "seen" /\ ~Restart
           /\ \/ scan' = scan /\ ~Rotated /\ ~Unrecognized
              \/ scan' = [scan EXCEPT !.blind = TRUE]
  <2> DEFINE s == scan'
  <2>1. /\ UNCHANGED spc /\ spc = "seen" /\ ~Restart
        /\ \/ s = scan /\ ~Rotated /\ ~Unrecognized
           \/ s = [scan EXCEPT !.blind = TRUE]
    BY <1>7
  <2> HIDE DEF s
  <2>2. SeenNext(s)
    BY <2>1, SeenStays DEF SeenNext
  <2> QED
    BY <1>7, <2>2 DEF s, SeenNext, ScanKept, Tallied, Tally, CountsEarlier, MissesLater, Accounted
<1>8. CASE UNCHANGED spc /\ spc \notin {"walk", "walked", "seen"}
  BY <1>8 DEF ScanKept
<1> QED
  BY <1>1, <1>2, <1>3, <1>4, <1>5, <1>6, <1>7, <1>8, ScanMoves

\* TradesKept holds at first and after every step.
LEMMA InitTrades == Init => TradesKept
<1> SUFFICES ASSUME Init PROVE TradesKept
  OBVIOUS
<1>1. /\ log = <<>> /\ batch = <<>> /\ held = <<>> /\ ledger = <<>>
      /\ <<>> \in Seq(Lines) /\ <<>> \in Seq(Positions) /\ Len(<<>>) = 0
  BY DEF Init
<1>2. TradeShapes
  BY <1>1, TradeConstants DEF Init, TradeShapes, GameShapes, TailerShapes, RowShapes, ScanShapes
<1>3. InStep
  BY <1>1 DEF Init, InStep
<1>4. Known = {}
  BY <1>1, LogEmpty, KeptEmpty DEF Known
<1>5. OnceEach
  <2>1. IsFiniteSet(done) /\ Cardinality(done) <= Daily
    BY FS_EmptySet, TradeConstants DEF Init
  <2> QED
    BY <1>1, <1>4, <2>1 DEF Init, OnceEach
<1>6. ObsKept /\ ScanKept
  BY DEF Init, ObsKept, ScanKept
<1> QED
  BY <1>2, <1>3, <1>5, <1>6 DEF TradesKept

LEMMA TradesStill ==
  ASSUME TradesKept, UNCHANGED vars
  PROVE  TradesKept'
<1>1. /\ UNCHANGED game /\ UNCHANGED tailer /\ UNCHANGED db /\ UNCHANGED scanner
      /\ UNCHANGED <<session, log, dialog, done, trades, clock, run, tpc, tsession, offset, batch, buffer, held, sold,
                     ledger, obs, spc, scan>>
  BY DEF vars, game, tailer, db, scanner
<1>2. TradeShapes'
  BY <1>1, GameStill, TailerStill, RowsStill, ScannerStill DEF TradesKept, TradeShapes
<1>3. InStep'
  BY <1>1 DEF TradesKept, InStep
<1>4. Known' = Known /\ RecordedTrades' = RecordedTrades
  BY <1>1 DEF Known, RecordedTrades
<1>5. OnceEach'
  BY <1>1, <1>4 DEF TradesKept, OnceEach
<1>6. \A t : Ahead(t)' <=> Ahead(t)
  BY <1>1 DEF Ahead
<1>7. ObsKept'
  BY <1>1, <1>4, <1>6 DEF TradesKept, ObsKept, Tallied, Certified, Noticed, Accounted
<1>8. ScanKept'
  BY <1>1, <1>4, <1>6 DEF TradesKept, ScanKept, Tallied, InSession, CountsEarlier, MissesLater, Accounted
<1> QED
  BY <1>2, <1>3, <1>5, <1>7, <1>8 DEF TradesKept

LEMMA TradesNext == TradesKept /\ [Next]_vars => TradesKept'
<1>1. TradesKept /\ Next => TradesKept'
  BY ShapesNext, OnceEachNext, ObsKeptNext, ScanKeptNext DEF TradesKept
<1> QED
  BY <1>1, TradesStill

LEMMA AlwaysTrades == Spec => []TradesKept
BY TradesNext, InitTrades, PTL DEF Spec

\* CertifiedFigure: the figure shown as scanned or tracked is the server's, but for trades the
\* tailer has still to account for (handle_trade, the allowance row's transaction, save_allowance).
THEOREM FigureIsTheServers == Spec => []CertifiedFigure
<1>1. TradesKept => CertifiedFigure
  <2> SUFFICES ASSUME TradesKept, Certified, Noticed, ~obs.unmarked, ~obs.blind
               PROVE  Exact /\ Missed = {}
    BY DEF CertifiedFigure
  <2>1. /\ Tallied(obs, RecordedTrades) /\ RecordedTrades \subseteq obs.counts /\ Accounted(obs.counts)
    BY DEF TradesKept, ObsKept, Certified
  <2>2. Exact
    BY <2>1 DEF Tallied, Exact
  <2>3. Missed = {}
    BY <2>1 DEF Accounted, Missed
  <2> QED
    BY <2>2, <2>3
<1> QED
  BY <1>1, AlwaysTrades, PTL

---------------------------------------------------------------------------
\* Trades are numbered in the order their lines are written.
LEMMA NumberedNext ==
  ASSUME TradesKept, Numbered, Next
  PROVE  Numbered'
<1>1. /\ session \in Nat /\ Len(log) \in Nat /\ trades \in Nat /\ dialog \in Trades \cup {None}
      /\ \A t \in Trades : t \in Nat
  BY DEF TradesKept, TradeShapes, GameShapes, Trades
<1>2. dialog' # None => dialog' = trades'
  BY GameMoves DEF Ask, Settle, Confirm, StartGame, game, Numbered
<1>3. CASE ~Confirm
  BY <1>2, <1>3, KnownNext DEF Numbered
<1>4. CASE Confirm
  <2> DEFINE x == Success(dialog, session, Len(log) + 1)
  <2>1. Known' = Known \cup {x}
    BY <1>4, KnownConfirm
  <2>2. x.trade = dialog /\ x.session = session /\ x.end = Len(log) + 1
    BY SuccessIs
  <2>3. dialog = trades /\ dialog \in Trades
    <3>1. dialog # None
      BY <1>4, TradeConstants DEF Confirm, TradesKept, TradeShapes, GameShapes, Trades
    <3> QED
      BY <1>1, <3>1 DEF Numbered
  <2>4. \A k \in Known : /\ k.trade \in Nat /\ k.session \in Nat /\ k.end \in Nat /\ k.trade <= trades
                         /\ k.trade # dialog /\ k.session <= session /\ (k.session = session => k.end <= Len(log))
                         /\ k.trade # None
    BY <1>1, KnownIs, TradeConstants DEF TradesKept, OnceEach
  <2> HIDE DEF x
  <2>5. \A k \in Known : k.trade < x.trade /\ ~Before(x, k)
    BY <1>1, <2>2, <2>3, <2>4 DEF Before
  <2>6. ~Before(x, x)
    BY <1>1, <2>2 DEF Before
  <2>7. \A k, l \in Known' : Before(k, l) => k.trade < l.trade
    BY <2>1, <2>5, <2>6 DEF Numbered
  <2> QED
    BY <1>2, <2>7 DEF Numbered
<1> QED
  BY <1>3, <1>4

\* What the queue is made of.
LEMMA BehindIs ==
  ASSUME TradeShapes
  PROVE  /\ tsession \in Nat /\ offset \in Nat /\ Len(ledger) \in Nat /\ Len(held) \in Nat
         /\ ledger \in Seq(Positions) /\ held \in Seq(Positions)
         /\ \A i \in 1 .. Len(ledger) : ledger[i].session \in Nat /\ ledger[i].end \in Nat
         /\ \A i \in 1 .. Len(held) : held[i].session \in Nat /\ held[i].end \in Nat
<1>1. ledger \in Seq(Positions) /\ held \in Seq(Positions) /\ tsession \in Nat /\ offset \in Nat
  BY DEF TradeShapes, RowShapes, TailerShapes
<1>2. ASSUME NEW q \in Seq(Positions), NEW i \in 1 .. Len(q)
      PROVE  Len(q) \in Nat /\ q[i].session \in Nat /\ q[i].end \in Nat
  <2>1. q[i] \in Positions
    OBVIOUS
  <2> QED
    BY <2>1 DEF Positions
<1>3. Len(ledger) \in Nat /\ Len(held) \in Nat
  BY <1>1
<1> QED
  BY <1>1, <1>2, <1>3

\* The ledger takes e: it is the last, if nothing recorded comes after it.
LEMMA QueuedInsert ==
  ASSUME TradesKept, Queued, NEW e, Due(e), Insert(e), ~Duplicate(e),
         \A i \in 1 .. Len(ledger) : ~Before(e, ledger[i])
  PROVE  /\ \A i, j \in 1 .. Len(ledger') : i < j => Before(ledger'[i], ledger'[j])
         /\ \A i \in 1 .. Len(ledger') : (i \in 1 .. Len(ledger) /\ ledger'[i] = ledger[i]) \/ ledger'[i] = e
<1>1. /\ Len(ledger') = Len(ledger) + 1 /\ Len(ledger) \in Nat
      /\ \A i \in 1 .. Len(ledger) : ledger'[i] = ledger[i]
      /\ ledger'[Len(ledger) + 1] = e
  BY RecordedNext
<1>2. \A i \in 1 .. Len(ledger) : ledger[i].session \in Nat /\ ledger[i].end \in Nat
  BY BehindIs DEF TradesKept
<1>3. e.session \in Nat /\ e.end \in Nat
  BY DEF Due, Positions
<1>4. \A i \in 1 .. Len(ledger) : Before(ledger[i], e)
  BY <1>2, <1>3 DEF Duplicate, Before
<1>5. \A i \in 1 .. Len(ledger') : i \in 1 .. Len(ledger) \/ i = Len(ledger) + 1
  BY <1>1
<1>6. ASSUME NEW i \in 1 .. Len(ledger'), NEW j \in 1 .. Len(ledger'), i < j PROVE Before(ledger'[i], ledger'[j])
  <2>1. i \in 1 .. Len(ledger)
    BY <1>1, <1>6
  <2>2. CASE j \in 1 .. Len(ledger)
    BY <1>1, <1>6, <2>1, <2>2 DEF Queued
  <2>3. CASE j = Len(ledger) + 1
    BY <1>1, <1>4, <2>1, <2>3
  <2> QED
    BY <1>5, <2>2, <2>3
<1> QED
  BY <1>1, <1>5, <1>6

\* The ledger, the held trades and the lines to come stay in one order.
LEMMA QueuedNext ==
  ASSUME TradesKept, Queued, Next
  PROVE  Queued'
<1>1. /\ tsession \in Nat /\ offset \in Nat /\ Len(ledger) \in Nat /\ Len(held) \in Nat
      /\ held \in Seq(Positions)
      /\ \A i \in 1 .. Len(ledger) : ledger[i].session \in Nat /\ ledger[i].end \in Nat
      /\ \A i \in 1 .. Len(held) : held[i].session \in Nat /\ held[i].end \in Nat
  BY BehindIs DEF TradesKept
<1>2. CASE \/ Ask \/ Settle \/ Confirm \/ StartGame \/ Second \/ Scanner
           \/ Tick \/ Unopened \/ Open \/ ReadAll \/ Adjust
  <2>1. UNCHANGED <<ledger, held, tsession, offset>>
    BY <1>2 DEF Ask, Settle, Confirm, StartGame, Second, Scanner, ScanBegins, ScanAnswered, ScanSeen, ScanSaved, ScanLost,
       Tick, Unopened, Open, ReadAll, Adjust, tailer, db
  <2> QED
    BY <2>1 DEF Queued, Behind, Before
<1>3. CASE AskLine \/ Unrecognized
  <2>1. UNCHANGED <<ledger, held, tsession>> /\ offset' = offset + 1
    BY <1>3 DEF AskLine, Unrecognized, Reads, db
  <2>2. /\ \A i \in 1 .. Len(ledger) : ledger[i].session < tsession \/ (ledger[i].session = tsession /\ ledger[i].end <= offset + 1)
        /\ \A i \in 1 .. Len(held) : held[i].session < tsession \/ (held[i].session = tsession /\ held[i].end <= offset + 1)
    BY <1>1 DEF Queued, Behind
  <2> QED
    BY <2>1, <2>2 DEF Queued, Behind, Before
<1>4. CASE Rotated
  <2>1. UNCHANGED <<ledger, held>> /\ tsession' = session /\ session # tsession
    BY <1>4 DEF Rotated
  <2>2. session \in Nat /\ tsession < session
    BY <1>1, <2>1 DEF TradesKept, TradeShapes, GameShapes, InStep
  <2>3. ASSUME NEW x, x.session \in Nat, Behind(x) PROVE x.session < session
    BY <1>1, <2>2, <2>3 DEF Behind
  <2>4. \A i \in 1 .. Len(ledger) : ledger[i].session < session
    BY <1>1, <2>3 DEF Queued
  <2>5. \A i \in 1 .. Len(held) : held[i].session < session
    BY <1>1, <2>3 DEF Queued
  <2> QED
    BY <2>1, <2>4, <2>5 DEF Queued, Behind, Before
<1>5. CASE Restart
  <2>1. held' = <<>> /\ Len(held') = 0 /\ UNCHANGED ledger /\ tsession' = session /\ offset' = Len(log)
    BY <1>5 DEF Restart, db
  <2>2. \A i \in 1 .. Len(ledger) : ledger[i].session <= session /\ (ledger[i].session = session => ledger[i].end <= Len(log))
    BY RecordedKnown, SuccessIs DEF TradesKept, OnceEach
  <2>3. session \in Nat
    BY DEF TradesKept, TradeShapes, GameShapes
  <2>4. \A i \in 1 .. Len(ledger) : ledger[i].session < session \/ (ledger[i].session = session /\ ledger[i].end <= Len(log))
    BY <1>1, <2>2, <2>3
  <2> QED
    BY <2>1, <2>4 DEF Queued, Behind, Before
<1>6. CASE DoneLine
  <2> DEFINE e == Event(Head(batch).trade, tsession, buffer.start, offset', buffer.after)
  <2>1. Due(e) /\ e.session = tsession /\ e.end = offset + 1 /\ offset' = offset + 1 /\ UNCHANGED tsession
    BY <1>6, LineDue DEF DoneLine, Reads, Event, TradesKept
  <2>2. \/ held = <<>> /\ Accepted(e, "lines") /\ UNCHANGED held
        \/ held = <<>> /\ Refused(e) /\ held' = Append(held, e)
        \/ UNCHANGED ledger /\ held' = Append(held, e)
    BY <1>6 DEF DoneLine, KeptBack, db
  <2>3. e \in Positions
    BY <2>1 DEF Due
  <2> HIDE DEF e
  <2>4. \A x : x.session \in Nat /\ x.end \in Nat /\ Behind(x) => Before(x, e) /\ ~Before(e, x)
    BY <1>1, <2>1 DEF Behind, Before
  <2>5. ~Before(e, e)
    BY <1>1, <2>1 DEF Before
  <2>6. /\ \A i \in 1 .. Len(ledger) : Before(ledger[i], e) /\ ~Before(e, ledger[i])
        /\ \A i \in 1 .. Len(held) : Before(held[i], e)
    BY <1>1, <2>4 DEF Queued
  <2>7. /\ \A i, j \in 1 .. Len(ledger') : i < j => Before(ledger'[i], ledger'[j])
        /\ \A i \in 1 .. Len(ledger') : (i \in 1 .. Len(ledger) /\ ledger'[i] = ledger[i]) \/ ledger'[i] = e
    <3>1. CASE UNCHANGED ledger
      BY <3>1 DEF Queued
    <3>2. CASE Insert(e) /\ ~Duplicate(e)
      BY <2>1, <2>6, <3>2, QueuedInsert
    <3> QED
      BY <2>2, <3>1, <3>2 DEF Accepted, Refused
  <2>8. /\ \A i, j \in 1 .. Len(held') : i < j => Before(held'[i], held'[j])
        /\ \A i \in 1 .. Len(held') : (i \in 1 .. Len(held) /\ held'[i] = held[i]) \/ held'[i] = e
    <3>1. CASE UNCHANGED held
      BY <3>1 DEF Queued
    <3>2. CASE held' = Append(held, e)
      <4>1. /\ Len(held') = Len(held) + 1 /\ held'[Len(held) + 1] = e
            /\ \A i \in 1 .. Len(held) : held'[i] = held[i]
        BY <1>1, <2>3, <3>2, AtEnd
      <4>2. \A i \in 1 .. Len(held') : i \in 1 .. Len(held) \/ i = Len(held) + 1
        BY <1>1, <4>1
      <4>3. \A i, j \in 1 .. Len(held') : i < j => i \in 1 .. Len(held)
        BY <1>1, <4>1
      <4> QED
        BY <2>6, <4>1, <4>2, <4>3 DEF Queued
    <3> QED
      BY <2>2, <3>1, <3>2
  <2>9. ASSUME NEW i \in 1 .. Len(ledger'), NEW j \in 1 .. Len(held') PROVE ~Before(held'[j], ledger'[i])
    <3>1. CASE held = <<>>
      <4>1. held'[j] = e
        <5>1. Len(held) = 0
          BY <3>1
        <5>2. ~(j \in 1 .. Len(held))
          BY <5>1
        <5> QED
          BY <2>8, <5>2
      <4> QED
        BY <2>5, <2>6, <2>7, <4>1
    <3>2. CASE held # <<>>
      <4>1. UNCHANGED ledger
        BY <2>2, <3>2
      <4>2. i \in 1 .. Len(ledger) /\ ledger'[i] = ledger[i]
        BY <4>1
      <4> QED
        BY <2>6, <2>8, <4>2 DEF Queued
    <3> QED
      BY <3>1, <3>2
  <2>10. /\ \A i \in 1 .. Len(ledger) : ledger[i].session < tsession \/ (ledger[i].session = tsession /\ ledger[i].end <= offset + 1)
         /\ \A i \in 1 .. Len(held) : held[i].session < tsession \/ (held[i].session = tsession /\ held[i].end <= offset + 1)
    BY <1>1 DEF Queued, Behind
  <2>11. e.session = tsession /\ e.end <= offset + 1
    BY <1>1, <2>1
  <2>12. /\ \A i \in 1 .. Len(ledger') : ledger'[i].session < tsession' \/ (ledger'[i].session = tsession' /\ ledger'[i].end <= offset')
         /\ \A i \in 1 .. Len(held') : held'[i].session < tsession' \/ (held'[i].session = tsession' /\ held'[i].end <= offset')
    BY <2>1, <2>7, <2>8, <2>10, <2>11
  <2> QED
    BY <2>7, <2>8, <2>9, <2>12 DEF Queued, Behind, Before
<1>7. CASE Reoffer
  <2> DEFINE e == Head(held)
             next == IF Len(held) = 1 THEN "open" ELSE "offer"
  <2>1. Due(e) /\ held # <<>> /\ e = held[1] /\ 1 \in 1 .. Len(held)
    BY <1>1, <1>7, HeldDue, AtFront DEF Reoffer, InStep, TradesKept
  <2>2. /\ UNCHANGED <<tsession, offset>>
        /\ \/ Accepted(e, next) /\ held' = Tail(held)
           \/ Refused(e) /\ UNCHANGED held
    BY <1>7 DEF Reoffer
  <2> HIDE DEF next
  <2>3. /\ Len(Tail(held)) = Len(held) - 1 /\ \A i \in 1 .. Len(held) - 1 : Tail(held)[i] = held[i + 1]
    BY <1>1, <2>1, AtFront
  <2>4. ~Before(e, e) /\ \A j \in 1 .. Len(held) : ~Before(held[j], e)
    <3>1. ~Before(held[1], held[1])
      BY <1>1, <2>1 DEF Before
    <3>2. ASSUME NEW j \in 1 .. Len(held) PROVE ~Before(held[j], held[1])
      <4>1. CASE j = 1
        BY <3>1, <4>1
      <4>2. CASE j # 1
        <5>1. Before(held[1], held[j])
          BY <2>1, <4>2 DEF Queued
        <5>2. /\ held[1].session \in Nat /\ held[1].end \in Nat
              /\ held[j].session \in Nat /\ held[j].end \in Nat
          BY <1>1, <2>1
        <5> QED
          BY <5>1, <5>2 DEF Before
      <4> QED
        BY <4>1, <4>2
    <3> QED
      BY <2>1, <3>1, <3>2
  <2>5. \A i \in 1 .. Len(ledger) : ~Before(e, ledger[i])
    BY <2>1 DEF Queued
  <2>6. Behind(e)
    BY <2>1 DEF Queued
  <2> HIDE DEF e
  <2>7. /\ \A i, j \in 1 .. Len(ledger') : i < j => Before(ledger'[i], ledger'[j])
        /\ \A i \in 1 .. Len(ledger') : (i \in 1 .. Len(ledger) /\ ledger'[i] = ledger[i]) \/ ledger'[i] = e
    <3>1. CASE UNCHANGED ledger
      BY <3>1 DEF Queued
    <3>2. CASE Insert(e) /\ ~Duplicate(e)
      BY <2>1, <2>5, <3>2, QueuedInsert
    <3> QED
      BY <2>2, <3>1, <3>2 DEF Accepted, Refused
  <2>8. /\ \A i, j \in 1 .. Len(held') : i < j => Before(held'[i], held'[j])
        /\ \A i \in 1 .. Len(held') : \E m \in 1 .. Len(held) : held'[i] = held[m]
    <3>1. CASE UNCHANGED held
      BY <3>1 DEF Queued
    <3>2. CASE held' = Tail(held)
      <4>1. \A i \in 1 .. Len(held') : i + 1 \in 1 .. Len(held) /\ held'[i] = held[i + 1]
        BY <1>1, <2>3, <3>2
      <4>2. \A i, j \in 1 .. Len(held') : i < j => i + 1 < j + 1
        OBVIOUS
      <4> QED
        BY <4>1, <4>2 DEF Queued
    <3> QED
      BY <2>2, <3>1, <3>2
  <2>9. \A i \in 1 .. Len(ledger'), j \in 1 .. Len(held') : ~Before(held'[j], ledger'[i])
    BY <2>4, <2>7, <2>8 DEF Queued
  <2>10. /\ \A i \in 1 .. Len(ledger') : Behind(ledger'[i])
         /\ \A i \in 1 .. Len(held') : Behind(held'[i])
    BY <2>6, <2>7, <2>8 DEF Queued
  <2> QED
    BY <2>2, <2>7, <2>8, <2>9, <2>10 DEF Queued, Behind, Before
<1> QED
  BY <1>2, <1>3, <1>4, <1>5, <1>6, <1>7 DEF Next, Tailer

\* A listing is adjusted for a recorded trade, once.
LEMMA AdjustedNext ==
  ASSUME TradesKept, AdjustedKept, Next
  PROVE  AdjustedKept'
<1>1. ASSUME NEW e, Due(e), Insert(e) PROVE RecordedTrades' = RecordedTrades \cup {e.trade}
  BY <1>1, RecordedNext
<1>2. RecordedTrades \subseteq RecordedTrades'
  <2>1. CASE UNCHANGED ledger
    BY <2>1 DEF RecordedTrades
  <2> QED
    BY <1>1, <2>1, LedgerNext DEF Records
<1>3. ASSUME NEW e, Due(e), NEW next \in {"open", "offer", "lines"}, Accepted(e, next), UNCHANGED adjusted,
             tpc # "adjust"
      PROVE  AdjustedKept'
  <2>1. CASE Duplicate(e)
    BY <1>2, <1>3, <2>1 DEF Accepted, AdjustedKept
  <2>2. CASE ~Duplicate(e)
    <3>1. sold' = [trade |-> e.trade, next |-> next] /\ tpc' = "adjust" /\ Insert(e)
      BY <1>3, <2>2 DEF Accepted
    <3>2. e.trade \in Trades /\ e.trade \notin RecordedTrades
      BY <1>3, <2>2, NotTwice DEF TradesKept, Due, Positions
    <3>3. sold'.trade = e.trade
      BY <3>1
    <3>4. e.trade \in RecordedTrades' /\ adjusted[e.trade] = 0
      BY <1>1, <1>3, <3>1, <3>2 DEF AdjustedKept
    <3> QED
      BY <1>2, <1>3, <3>3, <3>4 DEF AdjustedKept
  <2> QED
    BY <2>1, <2>2
<1>4. CASE Adjust
  <2>1. /\ adjusted' = [adjusted EXCEPT ![sold.trade] = @ + 1] /\ UNCHANGED ledger /\ tpc' = sold.next
        /\ tpc = "adjust"
    BY <1>4 DEF Adjust, db
  <2>2. tpc' # "adjust"
    BY <2>1 DEF TradesKept, InStep
  <2>3. sold.trade \in RecordedTrades /\ adjusted[sold.trade] = 0 /\ sold.trade \in Trades
    <3>1. RecordedTrades \subseteq Trades
      BY RecordedKnown DEF RecordedTrades, Positions, TradesKept
    <3> QED
      BY <2>1, <3>1 DEF AdjustedKept
  <2>4. adjusted' = [adjusted EXCEPT ![sold.trade] = 1]
    BY <2>1, <2>3
  <2> DEFINE t == sold.trade
  <2>5. t \in RecordedTrades /\ t \in Trades /\ adjusted' = [adjusted EXCEPT ![t] = 1]
    BY <2>3, <2>4
  <2> HIDE DEF t
  <2> QED
    BY <1>2, <2>2, <2>5 DEF AdjustedKept
<1>5. CASE DoneLine
  <2> DEFINE e == Event(Head(batch).trade, tsession, buffer.start, offset', buffer.after)
  <2>1. Due(e)
    BY <1>5, LineDue DEF DoneLine, TradesKept
  <2>2. Accepted(e, "lines") \/ UNCHANGED <<tpc, sold>>
    BY <1>5 DEF DoneLine, Refused
  <2>3. UNCHANGED adjusted /\ tpc = "lines"
    BY <1>5 DEF DoneLine, Reads
  <2> HIDE DEF e
  <2>4. CASE Accepted(e, "lines")
    BY <1>3, <2>1, <2>3, <2>4
  <2>5. CASE UNCHANGED <<tpc, sold>>
    BY <1>2, <2>3, <2>5 DEF AdjustedKept
  <2> QED
    BY <2>2, <2>4, <2>5
<1>6. CASE Reoffer
  <2> DEFINE e == Head(held)
             next == IF Len(held) = 1 THEN "open" ELSE "offer"
  <2>1. Due(e) /\ next \in {"open", "offer", "lines"}
    BY <1>6, HeldDue DEF Reoffer, InStep, TradesKept
  <2>2. Accepted(e, next) \/ tpc' = "open"
    BY <1>6 DEF Reoffer
  <2>3. UNCHANGED adjusted /\ tpc = "offer"
    BY <1>6 DEF Reoffer
  <2> HIDE DEF e, next
  <2>4. CASE Accepted(e, next)
    BY <1>3, <2>1, <2>3, <2>4
  <2>5. CASE tpc' = "open"
    BY <1>2, <2>3, <2>5 DEF AdjustedKept
  <2> QED
    BY <2>2, <2>4, <2>5
<1>7. CASE ~Adjust /\ ~DoneLine /\ ~Reoffer
  <2>1. UNCHANGED adjusted /\ (tpc' = "adjust" => tpc = "adjust" /\ sold' = sold)
    BY <1>7 DEF Next, Ask, Settle, Confirm, StartGame, Second, Tailer, Tick, Unopened, Rotated, Open, AskLine,
       Unrecognized, ReadAll, Scanner, ScanBegins, ScanAnswered, ScanSeen, ScanSaved, ScanLost, Restart, tailer, Reads
  <2> QED
    BY <1>2, <2>1 DEF AdjustedKept
<1> QED
  BY <1>4, <1>5, <1>6, <1>7

LEMMA AlwaysQueued == Spec => [](TradesKept /\ QueueKept)
<1>1. Init => QueueKept
  <2> SUFFICES ASSUME Init PROVE QueueKept
    OBVIOUS
  <2>1. Known = {}
    BY LogEmpty, KeptEmpty DEF Init, Known
  <2>2. Len(ledger) = 0 /\ Len(held) = 0
    BY DEF Init
  <2>3. Numbered
    BY <2>1 DEF Init, Numbered
  <2>4. Queued
    BY <2>2 DEF Queued
  <2>5. AdjustedKept
    BY DEF Init, AdjustedKept
  <2> QED
    BY <2>3, <2>4, <2>5 DEF QueueKept
<1>2. TradesKept /\ QueueKept /\ [Next]_vars => QueueKept'
  <2>1. TradesKept /\ QueueKept /\ Next => QueueKept'
    BY NumberedNext, QueuedNext, AdjustedNext DEF QueueKept
  <2>2. QueueKept /\ UNCHANGED vars => QueueKept'
    <3> SUFFICES ASSUME QueueKept, UNCHANGED vars PROVE QueueKept'
      OBVIOUS
    <3>1. UNCHANGED <<session, log, dialog, trades, tpc, tsession, offset, batch, held, sold, ledger, adjusted>>
      BY DEF vars, game, tailer, db
    <3>2. Known' = Known /\ RecordedTrades' = RecordedTrades
      BY <3>1 DEF Known, RecordedTrades
    <3> QED
      BY <3>1, <3>2 DEF QueueKept, Numbered, Queued, AdjustedKept, Behind, Before
  <2> QED
    BY <2>1, <2>2
<1> QED
  BY <1>1, <1>2, TradesNext, InitTrades, PTL DEF Spec

\* RecordedOnce: the ledger holds each trade once, in the order they happened, however often
\* it refuses one, and no listing is adjusted twice (TradeLog::offer, handle_trade).
THEOREM TradesAreRecordedOnce == Spec => []RecordedOnce
<1>1. TradesKept /\ QueueKept => RecordedOnce
  <2> SUFFICES ASSUME TradesKept, QueueKept PROVE RecordedOnce
    OBVIOUS
  <2>1. ASSUME NEW i \in 1 .. Len(ledger), NEW j \in 1 .. Len(ledger), i < j
        PROVE  ledger[i].trade < ledger[j].trade
    <3> DEFINE k == Success(ledger[i].trade, ledger[i].session, ledger[i].end)
               l == Success(ledger[j].trade, ledger[j].session, ledger[j].end)
    <3>1. k \in Known /\ l \in Known
      BY RecordedKnown DEF TradesKept
    <3>2. /\ k.trade = ledger[i].trade /\ k.session = ledger[i].session /\ k.end = ledger[i].end
          /\ l.trade = ledger[j].trade /\ l.session = ledger[j].session /\ l.end = ledger[j].end
      BY SuccessIs
    <3>3. Before(ledger[i], ledger[j])
      BY <2>1 DEF QueueKept, Queued
    <3> HIDE DEF k, l
    <3> QED
      BY <3>1, <3>2, <3>3 DEF Before, QueueKept, Numbered
  <2>2. \A t \in Trades : adjusted[t] \in {0, 1} /\ (adjusted[t] = 1 => t \in RecordedTrades)
    BY DEF QueueKept, AdjustedKept
  <2>3. \A t \in Trades : adjusted[t] <= 1 /\ (adjusted[t] > 0 => \E i \in 1 .. Len(ledger) : ledger[i].trade = t)
    BY <2>2 DEF RecordedTrades
  <2> QED
    BY <2>1, <2>3 DEF RecordedOnce
<1> QED
  BY <1>1, AlwaysQueued, PTL

---------------------------------------------------------------------------
\* The policy store.

\* What is on disk is at least as new as what was ever in force ...
FileHoldsBest ==
  /\ P!Revision(file) >= P!Revision(best)
  /\ P!Revision(file) = P!Revision(best) => file = best
\* ... and is signed by this build's key, or is what the build found.
FileTrusted == file # None => file.key = build \/ file = inherited
\* An answer in hand carries its own tag, and a policy is written before it counts.
AnswerWhole == pc \in {"body", "written"} /\ tag # None => tag = raw
WrittenFirst == pc = "written" => file = raw /\ P!Fresh(raw) /\ P!Newer(raw)

Ordered == P!TypeOK /\ P!NewestInForce /\ P!RetiredKeyStops /\ P!TagIsCurrent
             /\ FileHoldsBest /\ FileTrusted /\ AnswerWhole /\ WrittenFirst

LEMMA RevisionRange ==
  ASSUME NEW e \in P!Envelopes
  PROVE  P!Revision(e) = e.revision /\ P!Revision(e) \in Nat /\ P!Revision(e) > 0 /\ e # None
BY PolicyConstants DEF P!Envelopes, P!Revision

LEMMA NoRevision == P!Revision(None) = 0
BY DEF P!Revision

LEMMA PayloadRevision ==
  ASSUME NEW e \in P!Envelopes, NEW f \in P!Envelopes \cup {None}, P!Payload(e) = P!Payload(f)
  PROVE  P!Revision(e) = P!Revision(f)
BY PolicyConstants DEF P!Envelopes, P!Revision, P!Payload

LEMMA InitOrdered == P!Init => Ordered
<1> SUFFICES ASSUME P!Init PROVE Ordered
  OBVIOUS
<1>1. P!TypeOK
  <2>1. build \in P!Builds
    BY PolicyConstants DEF P!Init, P!Builds
  <2> QED
    BY <2>1 DEF P!Init, P!TypeOK
<1>2. P!NewestInForce /\ P!RetiredKeyStops /\ P!TagIsCurrent
  BY DEF P!Init, P!NewestInForce, P!RetiredKeyStops, P!TagIsCurrent, P!Running
<1>3. FileHoldsBest /\ FileTrusted /\ AnswerWhole /\ WrittenFirst
  BY NoRevision DEF P!Init, FileHoldsBest, FileTrusted, AnswerWhole, WrittenFirst
<1> QED
  BY <1>1, <1>2, <1>3 DEF Ordered

LEMMA NextTyped == P!TypeOK /\ [P!Next]_P!vars => P!TypeOK'
<1> SUFFICES ASSUME P!TypeOK, [P!Next]_P!vars PROVE P!TypeOK'
  OBVIOUS
<1> USE DEF P!TypeOK
<1>1. CASE P!Start
  BY <1>1 DEF P!Start, P!InForce, P!bounds
<1>2. CASE P!StartFails
  BY <1>2 DEF P!StartFails, P!ghosts
<1>3. CASE P!Spawn
  BY <1>3 DEF P!Spawn, P!ghosts
<1>4. CASE P!Fetch
  BY <1>4 , PolicyConstants DEF P!Fetch, P!Answer, P!TagLater, P!ghosts
<1>5. CASE P!Refused
  BY <1>5 DEF P!Refused, P!ghosts
<1>6. CASE P!Known
  BY <1>6 DEF P!Known, P!ghosts, P!bounds
<1>7. CASE P!Persist
  BY <1>7 DEF P!Persist, P!Written, P!ghosts, P!bounds
<1>8. CASE P!PersistFails
  BY <1>8 DEF P!PersistFails, P!ghosts
<1>9. CASE P!Activate
  BY <1>9 DEF P!Activate, P!InForce, P!bounds
<1>10. CASE P!Serve
  BY <1>10 DEF P!Serve, P!process, P!ghosts
<1>11. CASE P!Crash
  BY <1>11 DEF P!Crash, P!ghosts
<1>12. CASE P!Update
  BY <1>12, PolicyConstants DEF P!Update, P!process, P!bounds, P!Builds
<1>13. CASE UNCHANGED P!vars
  BY <1>13 DEF P!vars, P!process, P!ghosts, P!bounds
<1> QED
  BY <1>1, <1>2, <1>3, <1>4, <1>5, <1>6, <1>7, <1>8, <1>9, <1>10, <1>11, <1>12, <1>13
     DEF P!Next, P!PolicyThread

\* One step keeps the order of what is written, in force and trusted.
LEMMA NextOrdered == Ordered /\ [P!Next]_P!vars => Ordered'
<1> SUFFICES ASSUME Ordered, [P!Next]_P!vars PROVE Ordered'
  OBVIOUS
<1>t. P!TypeOK'
  BY NextTyped DEF Ordered
<1>f. file \in P!Envelopes \cup {None} /\ best \in P!Envelopes \cup {None}
        /\ current \in P!Envelopes \cup {None} /\ raw \in P!Envelopes \cup {None}
  BY DEF Ordered, P!TypeOK
<1>r. P!Revision(file) \in Nat /\ P!Revision(best) \in Nat /\ P!Revision(current) \in Nat
  BY <1>f, RevisionRange, NoRevision
<1> USE <1>t DEF Ordered
<1>1. CASE P!Start
  <2>1. UNCHANGED <<file, build, inherited>> /\ etag' = None /\ tag' = None /\ pc' = "ready"
    BY <1>1 DEF P!Start
  <2>2. current' = file /\ best' = file
    <3>1. CASE file = None
      <4>1. best = None
        BY <3>1, <1>f, <1>r, NoRevision, RevisionRange DEF FileHoldsBest
      <4> QED
        BY <1>1, <3>1, <4>1 DEF P!Start, P!InForce
    <3>2. CASE file # None
      BY <1>1, <3>2 DEF P!Start, P!InForce
    <3> QED
      BY <3>1, <3>2
  <2> QED
    BY <2>1, <2>2, <1>r DEF P!NewestInForce, P!RetiredKeyStops, P!TagIsCurrent, FileHoldsBest, FileTrusted,
       AnswerWhole, WrittenFirst, P!Running, P!Revision
<1>2. CASE P!StartFails
  BY <1>2 DEF P!StartFails, P!ghosts, P!NewestInForce, P!RetiredKeyStops, P!TagIsCurrent, FileHoldsBest,
     FileTrusted, AnswerWhole, WrittenFirst, P!Running, P!Revision, P!Same, P!Payload
<1>3. CASE P!Spawn
  BY <1>3 DEF P!Spawn, P!ghosts, P!NewestInForce, P!RetiredKeyStops, P!TagIsCurrent, FileHoldsBest,
     FileTrusted, AnswerWhole, WrittenFirst, P!Running, P!Revision, P!Same, P!Payload
<1>4. CASE P!Fetch
  <2>1. UNCHANGED <<file, build, current, etag, P!ghosts>> /\ pc = "ready" /\ pc' \in {home, "body"}
          /\ (pc' = "body" => tag' \in {raw', None} \/ (raw' = raw /\ tag' = tag))
    BY <1>4 DEF P!Fetch, P!Answer, P!TagLater
  <2>2. pc' \in {"ready", "spawn", "body"} /\ (pc' = "body" => tag' \in {raw', None})
    BY <1>4, <2>1 DEF P!Fetch, P!Answer, P!TagLater, P!TypeOK
  <2> QED
    BY <2>1, <2>2 DEF P!ghosts, P!NewestInForce, P!RetiredKeyStops, P!TagIsCurrent, FileHoldsBest,
       FileTrusted, AnswerWhole, WrittenFirst, P!Running, P!Revision, P!Same, P!Payload
<1>5. CASE P!Refused
  <2>1. pc' \in {"ready", "spawn"}
    BY <1>5 DEF P!Refused, P!TypeOK
  <2> QED
    BY <1>5, <2>1 DEF P!Refused, P!ghosts, P!NewestInForce, P!RetiredKeyStops, P!TagIsCurrent, FileHoldsBest,
       FileTrusted, AnswerWhole, WrittenFirst, P!Running, P!Revision, P!Same, P!Payload
<1>6. CASE P!Known
  <2>1. pc' \in {"ready", "spawn"} /\ etag' \in {raw, None}
    BY <1>6 DEF P!Known, P!TypeOK, AnswerWhole
  <2> QED
    BY <1>6, <2>1 DEF P!Known, P!ghosts, P!NewestInForce, P!RetiredKeyStops, P!TagIsCurrent, FileHoldsBest,
       FileTrusted, AnswerWhole, WrittenFirst, P!Running, P!Revision, P!Same, P!Payload
<1>7. CASE P!Persist
  <2>1. pc = "body" /\ pc' = "written" /\ file' = raw /\ P!Fresh(raw) /\ P!Newer(raw)
          /\ UNCHANGED <<build, current, etag, raw, tag, best, inherited>>
    BY <1>7 DEF P!Persist, P!Written, P!ghosts
  <2>2. raw \in P!Envelopes /\ current = best
    BY <2>1, <1>f DEF P!TypeOK, P!NewestInForce, P!Running
  <2>3. P!Revision(raw) > P!Revision(best) /\ P!Revision(raw) \in Nat
    BY <2>1, <2>2, RevisionRange DEF P!Newer
  <2>4. FileHoldsBest'
    BY <2>1, <2>3, <1>r DEF FileHoldsBest, P!Revision
  <2>5. FileTrusted' /\ WrittenFirst' /\ AnswerWhole'
    BY <2>1 DEF FileTrusted, WrittenFirst, AnswerWhole, P!Fresh, P!Verified, P!Newer, P!Revision
  <2> QED
    BY <2>1, <2>4, <2>5 DEF P!NewestInForce, P!RetiredKeyStops, P!TagIsCurrent, P!Running, P!Same, P!Payload
<1>8. CASE P!PersistFails
  <2>1. pc = "body" /\ pc' \in {"ready", "spawn"} /\ file' \in {file, raw} /\ P!Fresh(raw) /\ P!Newer(raw)
          /\ UNCHANGED <<build, current, etag, raw, tag, best, inherited>>
    BY <1>8 DEF P!PersistFails, P!ghosts, P!TypeOK
  <2>2. raw \in P!Envelopes /\ current = best
    BY <2>1, <1>f DEF P!TypeOK, P!NewestInForce, P!Running
  <2>3. P!Revision(raw) > P!Revision(best) /\ P!Revision(raw) \in Nat
    BY <2>1, <2>2, RevisionRange DEF P!Newer
  <2>4. FileHoldsBest'
    BY <2>1, <2>3, <1>r DEF FileHoldsBest, P!Revision
  <2>5. FileTrusted' /\ WrittenFirst' /\ AnswerWhole'
    BY <2>1 DEF FileTrusted, WrittenFirst, AnswerWhole, P!Fresh, P!Verified
  <2> QED
    BY <2>1, <2>4, <2>5 DEF P!NewestInForce, P!RetiredKeyStops, P!TagIsCurrent, P!Running, P!Same, P!Payload
<1>9. CASE P!Activate
  <2>1. pc = "written" /\ pc' \in {"ready", "spawn"} /\ current' = raw /\ best' = raw /\ etag' = tag
          /\ UNCHANGED <<file, build, raw, tag, inherited>>
    BY <1>9 DEF P!Activate, P!InForce, P!TypeOK
  <2>2. file = raw /\ raw.key = build /\ etag' \in {raw, None}
    BY <2>1 DEF WrittenFirst, AnswerWhole, P!Fresh, P!Verified
  <2> QED
    BY <2>1, <2>2, <1>r DEF P!NewestInForce, P!RetiredKeyStops, P!TagIsCurrent, FileHoldsBest, FileTrusted,
       AnswerWhole, WrittenFirst, P!Running, P!Same, P!Revision
<1>10. CASE P!Serve
  BY <1>10 DEF P!Serve, P!process, P!ghosts, P!NewestInForce, P!RetiredKeyStops, P!TagIsCurrent, FileHoldsBest,
     FileTrusted, AnswerWhole, WrittenFirst, P!Running, P!Revision, P!Same, P!Payload, P!Fresh, P!Verified, P!Newer
<1>11. CASE P!Crash
  BY <1>11 DEF P!Crash, P!ghosts, P!NewestInForce, P!RetiredKeyStops, P!TagIsCurrent, FileHoldsBest,
     FileTrusted, AnswerWhole, WrittenFirst, P!Running, P!Revision
<1>12. CASE P!Update
  BY <1>12 DEF P!Update, P!process, P!NewestInForce, P!RetiredKeyStops, P!TagIsCurrent, FileHoldsBest,
     FileTrusted, AnswerWhole, WrittenFirst, P!Running, P!Revision, P!Same, P!Payload
<1>13. CASE UNCHANGED P!vars
  BY <1>13 DEF P!vars, P!process, P!ghosts, P!NewestInForce, P!RetiredKeyStops, P!TagIsCurrent, FileHoldsBest,
     FileTrusted, AnswerWhole, WrittenFirst, P!Running, P!Revision, P!Same, P!Payload, P!Fresh, P!Verified, P!Newer
<1> QED
  BY <1>1, <1>2, <1>3, <1>4, <1>5, <1>6, <1>7, <1>8, <1>9, <1>10, <1>11, <1>12, <1>13
     DEF P!Next, P!PolicyThread

LEMMA AlwaysOrdered == P!Spec => []Ordered
BY InitOrdered, NextOrdered, PTL DEF P!Spec

\* A step puts a policy in force only if it is newer than any that was before.
LEMMA StepForward == Ordered /\ [P!Next]_P!vars => [best' # best => P!Revision(best') > P!Revision(best)]_P!vars
<1> SUFFICES ASSUME Ordered, P!Next, best' # best PROVE P!Revision(best') > P!Revision(best)
  BY DEF P!vars, P!ghosts
<1>f. file \in P!Envelopes \cup {None} /\ best \in P!Envelopes \cup {None}
  BY DEF Ordered, P!TypeOK
<1>r. P!Revision(file) \in Nat /\ P!Revision(best) \in Nat
  BY <1>f, RevisionRange, NoRevision
<1>1. CASE P!Start
  <2>1. best' = file
    BY <1>1 DEF P!Start, P!InForce
  <2> QED
    BY <2>1, <1>r DEF Ordered, FileHoldsBest
<1>2. CASE P!Activate
  <2>1. best' = raw /\ P!Newer(raw) /\ current = best
    BY <1>2 DEF P!Activate, P!InForce, Ordered, WrittenFirst, P!NewestInForce, P!Running
  <2>2. raw \in P!Envelopes
    BY <1>2 DEF P!Activate, Ordered, P!TypeOK
  <2> QED
    BY <2>1, <2>2, RevisionRange DEF P!Newer
<1>3. CASE ~P!Start /\ ~P!Activate
  BY <1>3 DEF P!Next, P!PolicyThread, P!StartFails, P!Spawn, P!Fetch, P!Refused, P!Known, P!Persist, P!PersistFails,
     P!Serve, P!Crash, P!Update, P!ghosts
<1> QED
  BY <1>1, <1>2, <1>3

\* The policy in force is the newest that ever was, through failed writes, crashes,
\* restarts and updates (PolicyStore::load, accept).
THEOREM PolicyNewest == P!Spec => []NewestInForce
BY AlwaysOrdered, PTL DEF Ordered, NewestInForce

\* The policy in force never falls back (accept's comparison, and the file written
\* before it is activated).
THEOREM PolicyNeverRollsBack == P!Spec => P!NeverRollsBack
<1>1. Ordered /\ [P!Next]_P!vars => [best' # best => P!Revision(best') > P!Revision(best)]_P!vars
  BY StepForward
<1> QED
  BY <1>1, AlwaysOrdered, PTL DEF P!Spec, P!NeverRollsBack

\* A retired key brings nothing new into force (verify against verify_cached).
THEOREM RetiredKeyBringsNothing == P!Spec => []P!RetiredKeyStops
BY AlwaysOrdered, PTL DEF Ordered

\* "Not modified" never hides a policy that was not accepted (fetch keeps the tag last).
THEOREM TagNamesPolicyInForce == P!Spec => []P!TagIsCurrent
BY AlwaysOrdered, PTL DEF Ordered
=============================================================================
