------------------------- MODULE ServiceHistoryProofs -------------------------
(***************************************************************************)
(* ServiceHistory for any windows, thresholds and bounds, any number of    *)
(* writers, handlers and users: what the uptime, the burn rates and the    *)
(* reports say of the events is what was; the burn-rate alerts and their   *)
(* acknowledgements, which implement Acknowledgement; the types.           *)
(***************************************************************************)
EXTENDS ServiceHistory, Folding, SequenceTheorems, TLAPS

EventRow == [from : Status, to : Status, at : Nat]
Typed ==
  /\ bound \in Bounds /\ clock \in Nat /\ status \in Status /\ dates \in {"exact", "early", "disordered"}
  /\ past \in Seq(Status) /\ Len(past) = clock /\ events \in Seq(EventRow)
  /\ \A i \in DOMAIN events : events[i].at <= clock /\ events[i].from # events[i].to

(* Rows that are in the order in which they were written are sorted, and   *)
(* the last of them is the status.                                         *)
Sorted == \A i, j \in DOMAIN events : i <= j => events[i].at <= events[j].at
Ends   == status = IF events = <<>> THEN "unknown" ELSE events[Len(events)].to

(* Of rows that are dated when they were written, the last one before a    *)
(* tick has its status.                                                    *)
Remembered ==
  \A t \in 1..clock :
    \/ past[t] = "unknown" /\ \A j \in DOMAIN events : t <= events[j].at
    \/ \E i \in DOMAIN events :
         /\ past[t] = events[i].to /\ events[i].at < t
         /\ \A j \in DOMAIN events : j > i => t <= events[j].at

EventsInv == /\ Typed
             /\ dates # "disordered" => Sorted /\ Ends
             /\ dates = "exact" => Remembered

LEMMA EventFacts ==
  ASSUME Typed
  PROVE  /\ Len(events) \in Nat /\ DOMAIN events = 1..Len(events) /\ IsFiniteSet(DOMAIN events)
         /\ \A i \in DOMAIN events : i \in Nat /\ events[i] \in EventRow /\ events[i].at \in Nat
         /\ \A i \in DOMAIN events : \A j \in DOMAIN events : i < j => (i + 1 \in DOMAIN events /\ i + 1 <= j)
<1>1. Len(events) \in Nat /\ DOMAIN events = 1..Len(events) /\ \A i \in DOMAIN events : events[i] \in EventRow
  BY LenProperties DEF Typed, Sorted
<1>2. IsFiniteSet(1..Len(events))
  BY <1>1, FS_Interval
<1> QED BY <1>1, <1>2 DEF EventRow

LEMMA PastFacts ==
  ASSUME Typed
  PROVE  DOMAIN past = 1..clock /\ \A t \in DOMAIN past : past[t] \in Status
BY LenProperties DEF Typed

LEMMA Statuses ==
  "operational" \notin Bad /\ "unknown" \notin Bad /\ Status = Bad \cup {"operational", "unknown"}
BY HistoryAssumption DEF Status

-----------------------------------------------------------------------------
(* The intervals of a history that count.                                  *)

(* What an interval begins is over when the next one begins.               *)
LEMMA EndedIs ==
  ASSUME Typed, Sorted, NEW i \in Kept(events)
  PROVE  LET end == Ended(events, i, clock)
         IN  /\ end \in Nat /\ end <= clock /\ \A j \in Later(events, i) : end <= events[j].at
             /\ end = clock \/ \E j \in Later(events, i) : end = events[j].at
<1> DEFINE L == Later(events, i)
<1>1. Kept(events) \subseteq DOMAIN events /\ L \subseteq DOMAIN events
  BY DEF Kept, Later
<1>2. CASE L = {}
  BY <1>2 DEF Ended, Typed, Sorted
<1>3. CASE L # {}
  <2>1. L \in SUBSET Int /\ IsFiniteSet(L)
    BY <1>1, EventFacts, FS_Subset
  <2>2. \E l \in L : \A x \in L : l <= x
    <3> HIDE DEF L
    <3> QED BY <1>3, <2>1, Extremes
  <2>3. Sets!Min(L) \in L /\ \A x \in L : Sets!Min(L) <= x
    <3> HIDE DEF L
    <3> QED BY <2>2 DEF Sets!Min
  <2>4. Ended(events, i, clock) = events[Sets!Min(L)].at
    BY <1>3 DEF Ended
  <2> HIDE DEF L
  <2>5. events[Sets!Min(L)].at \in Nat /\ events[Sets!Min(L)].at <= clock
        /\ \A x \in L : events[Sets!Min(L)].at <= events[x].at
    BY <1>1, <2>3, EventFacts DEF Typed, Sorted
  <2> QED BY <2>3, <2>4, <2>5 DEF L
<1> QED BY <1>2, <1>3

(* The ticks of an interval that are in the window.                        *)
Piece(i, w) == (AtLeast(events[i].at, clock - w) + 1)..Ended(events, i, clock)

LEMMA PieceSize ==
  ASSUME Typed, Sorted, NEW i \in Kept(events), NEW w \in Nat
  PROVE  IsFiniteSet(Piece(i, w)) /\ Cardinality(Piece(i, w)) = Inside(events, i, clock - w, clock)
<1> DEFINE a == AtLeast(events[i].at, clock - w) + 1
           b == Ended(events, i, clock)
<1>1. b \in Nat /\ b <= clock /\ clock \in Nat
  BY EndedIs DEF Typed, Sorted
<1>2. i \in DOMAIN events /\ events[i].at \in Nat
  BY EventFacts DEF Kept
<1>3. a \in Int
  BY <1>1, <1>2 DEF AtLeast
<1>4. IsFiniteSet(a..b) /\ Cardinality(a..b) = IF a > b THEN 0 ELSE b - a + 1
  <2> HIDE DEF a, b
  <2> QED BY <1>1, <1>3, FS_Interval
<1>5. Inside(events, i, clock - w, clock) = IF a > b THEN 0 ELSE b - a + 1
  <2> DEFINE c == AtLeast(events[i].at, clock - w)
  <2>1. AtMost(Ended(events, i, clock), clock) = b /\ c \in Int /\ a = c + 1
    BY <1>1, <1>2 DEF AtMost, AtLeast
  <2>2. Inside(events, i, clock - w, clock) = AtLeast(0, b - c)
    BY <2>1 DEF Inside, Began
  <2> HIDE DEF a, b, c
  <2> QED BY <1>1, <2>1, <2>2 DEF AtLeast
<1> QED BY <1>4, <1>5 DEF Piece

LEMMA InPiece ==
  ASSUME Typed, Sorted, NEW i \in Kept(events), NEW w \in Nat, NEW t
  PROVE  t \in Piece(i, w) <=> /\ t \in Int /\ events[i].at < t /\ clock - w < t
                               /\ t <= Ended(events, i, clock)
<1>1. Ended(events, i, clock) \in Nat /\ clock \in Nat /\ events[i].at \in Nat
  BY EndedIs, EventFacts DEF Typed, Sorted, Kept
<1> QED BY <1>1 DEF Piece, AtLeast

LEMMA PiecesApart ==
  ASSUME Typed, Sorted, NEW i \in Kept(events), NEW j \in Kept(events), i # j, NEW w \in Nat
  PROVE  Piece(i, w) \cap Piece(j, w) = {}
<1>1. ASSUME NEW k \in Kept(events), NEW l \in Kept(events), k < l, NEW t \in Piece(k, w), t \in Piece(l, w)
      PROVE  FALSE
  <2>1. l \in Later(events, k)
    BY <1>1 DEF Later
  <2>2. t \in Int /\ t <= Ended(events, k, clock) /\ events[l].at < t
    BY <1>1, InPiece
  <2>3. Ended(events, k, clock) <= events[l].at /\ Ended(events, k, clock) \in Nat
    BY <2>1, EndedIs
  <2>4. events[l].at \in Nat
    BY EventFacts DEF Kept
  <2> QED BY <2>2, <2>3, <2>4
<1>2. i \in Nat /\ j \in Nat
  BY EventFacts DEF Kept
<1>3. i < j \/ j < i
  BY <1>2
<1> QED BY <1>1, <1>3

(* In the ticks of an interval, unless it is of an unknown status, the     *)
(* service had its status, or it was up already: of the rows after it only *)
(* warm-ups are filtered, and one that follows it is a stray one.          *)
LEMMA PieceWas ==
  ASSUME Typed, Sorted, Remembered,
         NEW i \in Kept(events), events[i].to # "unknown", NEW w \in Nat, NEW t \in Piece(i, w)
  PROVE  /\ t \in DOMAIN past /\ t > clock - w
         /\ past[t] = events[i].to \/ (past[t] = "operational" /\ StrayWarmUp)
<1>1. t \in Int /\ events[i].at < t /\ clock - w < t /\ t <= Ended(events, i, clock)
      /\ Ended(events, i, clock) \in Nat /\ Ended(events, i, clock) <= clock
  BY InPiece, EndedIs
<1>2. i \in DOMAIN events /\ i \in Nat /\ events[i].at \in Nat /\ clock \in Nat
  BY EventFacts DEF Kept, Typed
<1>3. t \in 1..clock
  BY <1>1, <1>2
<1>4. PICK m \in DOMAIN events : /\ past[t] = events[m].to /\ events[m].at < t
                                 /\ \A j \in DOMAIN events : j > m => t <= events[j].at
  BY <1>1, <1>2, <1>3 DEF Remembered
<1>5. m \in Nat /\ ~(i > m)
  BY <1>1, <1>2, <1>4, EventFacts
<1>6. ASSUME i < m PROVE past[t] = "operational" /\ StrayWarmUp
  <2>1. i + 1 \in DOMAIN events /\ i + 1 <= m
    BY <1>2, <1>4, <1>6, EventFacts
  <2>2. ASSUME NEW k \in DOMAIN events, i < k, k <= m PROVE k \notin Kept(events)
    <3>1. SUFFICES ASSUME k \in Kept(events) PROVE FALSE
      OBVIOUS
    <3>2. Ended(events, i, clock) <= events[k].at
      BY <2>2, <3>1, EndedIs DEF Later
    <3>3. events[k].at <= events[m].at /\ events[k].at \in Nat /\ events[m].at \in Nat
      BY <1>4, <2>2, EventFacts DEF Sorted
    <3> QED BY <1>1, <1>4, <3>2, <3>3
  <2>3. m \notin Kept(events) /\ i + 1 \notin Kept(events)
    BY <1>2, <1>4, <1>5, <1>6, <2>1, <2>2
  <2>4. past[t] = "operational"
    BY <1>4, <2>3 DEF Kept
  <2>5. i + 1 # 1 /\ (i + 1) - 1 = i
    BY <1>2, EventFacts
  <2> QED BY <2>1, <2>3, <2>4, <2>5 DEF StrayWarmUp
<1>7. m = i \/ i < m
  BY <1>2, <1>5
<1> QED BY <1>1, <1>3, <1>4, <1>6, <1>7, PastFacts

(* A tick of an outage is in an interval of its status.                    *)
LEMMA OutageIsPiece ==
  ASSUME Typed, Sorted, Remembered, NEW w \in Nat, NEW t \in DOMAIN past, t > clock - w, past[t] \in Bad
  PROVE  \E i \in Kept(events) : events[i].to = past[t] /\ t \in Piece(i, w)
<1>1. clock \in Nat /\ t \in 1..clock
  BY PastFacts DEF Typed, Sorted
<1>2. PICK m \in DOMAIN events : /\ past[t] = events[m].to /\ events[m].at < t
                                 /\ \A j \in DOMAIN events : j > m => t <= events[j].at
  BY <1>1, Statuses DEF Remembered
<1>3. m \in Kept(events)
  BY <1>2, Statuses DEF Kept
<1>4. t <= Ended(events, m, clock)
  BY <1>1, <1>2, <1>3, EndedIs DEF Later, Kept
<1> QED BY <1>1, <1>2, <1>3, <1>4, InPiece

-----------------------------------------------------------------------------
(* The seconds of some intervals are the ticks in them.                    *)

Ticks(S, w) == UNION {Piece(i, w) : i \in S}
Total(S, w) == Sets!MapThenSumSet(LAMBDA i : Inside(events, i, clock - w, clock), S)

LEMMA TotalIsTicks ==
  ASSUME Typed, Sorted, NEW S \in SUBSET Kept(events), NEW w \in Nat
  PROVE  IsFiniteSet(Ticks(S, w)) /\ Total(S, w) = Cardinality(Ticks(S, w))
<1> DEFINE size == [i \in S |-> Inside(events, i, clock - w, clock)]
           piece == [i \in S |-> Piece(i, w)]
           pick == [T \in SUBSET S |-> CHOOSE x \in T : TRUE]
           next == [p \in (SUBSET S) \X Int |-> IF p[1] = {} THEN 0 ELSE size[pick[p[1]]] + p[2]]
           Rec(g) == g = [T \in SUBSET S |-> IF T = {} THEN 0
                            ELSE LET x == CHOOSE x \in T : TRUE IN Inside(events, x, clock - w, clock) + g[T \ {x}]]
<1>1. IsFiniteSet(S)
  BY EventFacts, FS_Subset DEF Kept
<1>2. \A i \in S : IsFiniteSet(piece[i]) /\ size[i] = Cardinality(piece[i])
  BY PieceSize
<1>3. \A i \in S : size[i] \in Int
  BY <1>2, FS_CardinalityType
<1>4. \A T \in SUBSET S : T # {} => pick[T] \in T /\ pick[T] = CHOOSE x \in T : TRUE
  OBVIOUS
<1>5. /\ next \in [(SUBSET S) \X Int -> Int]
      /\ \A T \in SUBSET S, v \in Int : next[<<T, v>>] = IF T = {} THEN 0 ELSE size[pick[T]] + v
  <2> HIDE DEF size, pick
  <2>1. \A T \in SUBSET S : T # {} => size[pick[T]] \in Int
    BY <1>3, <1>4
  <2> QED BY <2>1
<1>6. \A x \in S : size[x] = Inside(events, x, clock - w, clock)
  OBVIOUS
<1>7. \E g : Rec(g)
  <2> HIDE DEF size, pick, next
  <2>1. Foldable(S, Int, 0, pick, next)
    BY <1>1, <1>4, <1>5 DEF Foldable
  <2>2. PICK g : IsTable(g, S, Int, 0, pick, next)
    BY <2>1, FoldTable
  <2>3. g \in [SUBSET S -> Int] /\ \A T \in SUBSET S : T \ {pick[T]} \in SUBSET S
    BY <2>2 DEF IsTable
  <2>4. \A T \in SUBSET S : g[T] = IF T = {} THEN 0 ELSE size[pick[T]] + g[T \ {pick[T]}]
    BY <1>5, <2>2, <2>3 DEF IsTable
  <2>5. \A T \in SUBSET S : g[T] = IF T = {} THEN 0
                            ELSE LET x == CHOOSE x \in T : TRUE IN Inside(events, x, clock - w, clock) + g[T \ {x}]
    BY <1>4, <1>6, <2>4
  <2>6. Rec(g)
    BY <2>3, <2>5
  <2> QED BY <2>6
<1>8. Total(S, w) = (CHOOSE g : Rec(g))[S]
  BY DEF Total, Sets!MapThenSumSet, Sets!MapThenFoldSet
<1>9. PICK g : Rec(g) /\ Total(S, w) = g[S]
  <2> HIDE DEF Rec
  <2> QED BY <1>7, <1>8
<1>10. IsSum(g, S, pick, size)
  <2>1. g[{}] = 0 /\ \A T \in SUBSET S : T # {} =>
           g[T] = LET x == CHOOSE x \in T : TRUE IN Inside(events, x, clock - w, clock) + g[T \ {x}]
    BY <1>9
  <2>2. \A T \in SUBSET S : T # {} => g[T] = Inside(events, pick[T], clock - w, clock) + g[T \ {pick[T]}]
    <3> HIDE DEF pick, size, Rec
    <3> QED BY <1>4, <2>1
  <2> HIDE DEF pick, size, Rec
  <2>3. \A T \in SUBSET S : T # {} => pick[T] \in T /\ pick[T] \in S
    BY <1>4
  <2> QED BY <1>6, <2>1, <2>2, <2>3 DEF IsSum
<1>11. ArePieces(piece, S, size)
  <2>1. \A i, j \in S : i # j => piece[i] \cap piece[j] = {}
    BY PiecesApart
  <2> HIDE DEF size, piece
  <2> QED BY <1>2, <2>1 DEF ArePieces
<1>12. Ticks(S, w) = Joined(piece, S)
  BY DEF Ticks, Joined
<1> HIDE DEF size, piece, pick, Rec
<1> QED BY <1>1, <1>9, <1>10, <1>11, <1>12, SumOfSizes

-----------------------------------------------------------------------------
(* What is counted is what was.                                            *)

UpIntervals   == {i \in Kept(events) : events[i].to = "operational"}
SeenIntervals == {i \in Kept(events) : events[i].to # "unknown"}

LEMMA WindowsInSight ==
  ASSUME Typed, NEW w \in Nat, NEW S
  PROVE  IsFiniteSet(Really(S, w)) /\ Cardinality(Really(S, w)) \in Nat
<1>1. IsFiniteSet(1..clock) /\ Really(S, w) \in SUBSET (1..clock)
  BY PastFacts, FS_Interval DEF Really, Typed
<1> QED BY <1>1, FS_Subset, FS_CardinalityType

LEMMA CountedIsReal ==
  ASSUME Typed, Sorted, Remembered, NEW w \in Nat
  PROVE  LET up == Operational(events, clock - w, clock)
         IN  /\ up \in Nat /\ ReallyUp(w) \in Nat /\ ReallyDown(w) \in Nat /\ up <= ReallyUp(w)
             /\ \E down \in Nat : /\ Tracked(events, clock - w, clock) = up + down
                                  /\ ReallyDown(w) <= down /\ (~StrayWarmUp => down = ReallyDown(w))
<1> DEFINE U == Ticks(UpIntervals, w)
           T == Ticks(SeenIntervals, w)
           D == Really(Bad, w)
           V == T \ U
<1>1. UpIntervals \subseteq Kept(events) /\ SeenIntervals \subseteq Kept(events)
  BY DEF UpIntervals, SeenIntervals
<1>2. Operational(events, clock - w, clock) = Total(UpIntervals, w)
  BY DEF Operational, Spent, Total, UpIntervals
<1>3. Tracked(events, clock - w, clock) = Total(SeenIntervals, w)
  BY DEF Tracked, Spent, Total, SeenIntervals
<1>4. /\ IsFiniteSet(U) /\ Operational(events, clock - w, clock) = Cardinality(U)
      /\ IsFiniteSet(T) /\ Tracked(events, clock - w, clock) = Cardinality(T)
  BY <1>1, <1>2, <1>3, TotalIsTicks
<1>5. clock \in Nat /\ IsFiniteSet(D) /\ IsFiniteSet(Really({"operational"}, w))
  BY WindowsInSight DEF Typed
<1>6. U \subseteq Really({"operational"}, w)
  <2> SUFFICES ASSUME NEW i \in UpIntervals, NEW t \in Piece(i, w) PROVE t \in Really({"operational"}, w)
    BY DEF Ticks
  <2>1. i \in Kept(events) /\ events[i].to = "operational" /\ events[i].to # "unknown"
    BY DEF UpIntervals
  <2> QED BY <2>1, PieceWas DEF Really
<1>7. ~StrayWarmUp => V \subseteq D
  <2> SUFFICES ASSUME ~StrayWarmUp, NEW i \in SeenIntervals, NEW t \in Piece(i, w), t \notin U PROVE t \in D
    BY DEF Ticks
  <2>1. i \in Kept(events) /\ events[i].to # "unknown"
    BY DEF SeenIntervals
  <2>2. t \in DOMAIN past /\ t > clock - w /\ past[t] = events[i].to /\ past[t] \in Status
    BY <1>5, <2>1, PieceWas, PastFacts
  <2>3. past[t] # "operational"
    BY <2>1, <2>2 DEF Ticks, UpIntervals
  <2> QED BY <2>1, <2>2, <2>3, Statuses DEF Really
<1>8. U \subseteq T
  BY DEF Ticks, UpIntervals, SeenIntervals
<1>9. D \subseteq V
  <2> SUFFICES ASSUME NEW t \in D PROVE t \in T /\ t \notin U
    OBVIOUS
  <2>1. t \in DOMAIN past /\ t > clock - w /\ past[t] \in Bad
    BY DEF Really
  <2>2. PICK i \in Kept(events) : events[i].to = past[t] /\ t \in Piece(i, w)
    BY <2>1, OutageIsPiece
  <2>3. t \notin U
    BY <1>6, <2>1, Statuses DEF Really
  <2> QED BY <2>1, <2>2, <2>3, Statuses DEF Ticks, SeenIntervals
<1> HIDE DEF U, T, D
<1>10. T = U \cup V /\ U \cap V = {} /\ IsFiniteSet(V)
  BY <1>4, <1>8, FS_Subset
<1>11. Cardinality(T) = Cardinality(U) + Cardinality(V)
  <2> HIDE DEF V
  <2> QED BY <1>4, <1>10, ApartAdds
<1>12. Cardinality(U) <= Cardinality(Really({"operational"}, w)) /\ Cardinality(D) <= Cardinality(V)
  <2> HIDE DEF V
  <2> QED BY <1>5, <1>6, <1>9, <1>10, FS_Subset
<1>13. Cardinality(U) \in Nat /\ Cardinality(V) \in Nat /\ Cardinality(D) \in Nat
       /\ Cardinality(Really({"operational"}, w)) \in Nat
  <2> HIDE DEF V
  <2> QED BY <1>4, <1>5, <1>10, FS_CardinalityType
<1>14. ~StrayWarmUp => V = D
  BY <1>7, <1>9
<1> HIDE DEF V
<1> QED BY <1>4, <1>11, <1>12, <1>13, <1>14 DEF D, ReallyUp, ReallyDown

LEMMA Windows == \A w \in Window : w \in Nat /\ w > 0
BY UptimeAssumption DEF Window

LEMMA HonestDowntime ==
  ASSUME Typed, Sorted, Remembered
  PROVE  DowntimeIsSeen
<1> SUFFICES ASSUME NEW w \in Window
             PROVE  LET up   == Operational(events, clock - w, clock)
                        down == Tracked(events, clock - w, clock) - up
                    IN  /\ up <= ReallyUp(w) /\ ReallyDown(w) <= down
                        /\ ~StrayWarmUp => down = ReallyDown(w)
  BY DEF DowntimeIsSeen
<1> DEFINE up == Operational(events, clock - w, clock)
<1>1. w \in Nat
  BY Windows
<1>2. up \in Nat /\ ReallyUp(w) \in Nat /\ ReallyDown(w) \in Nat /\ up <= ReallyUp(w)
  BY <1>1, CountedIsReal
<1>3. PICK down \in Nat : /\ Tracked(events, clock - w, clock) = up + down
                          /\ ReallyDown(w) <= down /\ (~StrayWarmUp => down = ReallyDown(w))
  BY <1>1, CountedIsReal
<1> HIDE DEF up
<1>4. Tracked(events, clock - w, clock) - up = down
  BY <1>2, <1>3
<1> QED BY <1>2, <1>3, <1>4 DEF up

-----------------------------------------------------------------------------
(* Percentages. *)

LEMMA Quotient ==
  ASSUME NEW a \in Nat, NEW b \in Nat, b > 0
  PROVE  a \div b \in Nat /\ b * (a \div b) <= a /\ a < b * (a \div b) + b
OBVIOUS

LEMMA LargestQuotient ==
  ASSUME NEW a \in Nat, NEW b \in Nat, b > 0, NEW q \in Nat, b * q <= a
  PROVE  q <= a \div b
<1> DEFINE r == a \div b
<1>1. r \in Nat /\ a < b * r + b
  BY Quotient
<1> HIDE DEF r
<1>2. ASSUME r + 1 <= q PROVE FALSE
  <2>1. b * (r + 1) <= b * q
    BY <1>1, <1>2
  <2>2. b * (r + 1) = b * r + b
    BY <1>1
  <2> QED BY <1>1, <2>1, <2>2
<1> QED BY <1>1, <1>2 DEF r

LEMMA QuotientsGrow ==
  ASSUME NEW a \in Nat, NEW b \in Nat, b > 0, NEW c \in Nat, NEW d \in Nat, d > 0, a * d <= c * b
  PROVE  a \div b <= c \div d
<1> DEFINE q == a \div b
<1>1. q \in Nat /\ b * q <= a
  BY Quotient
<1> HIDE DEF q
<1>2. ASSUME ~(d * q <= c) PROVE FALSE
  <2>1. d * q >= c + 1 /\ d * q \in Nat
    BY <1>1, <1>2
  <2>2. (d * q) * b >= (c + 1) * b
    BY <2>1
  <2>3. (b * q) * d <= a * d
    BY <1>1
  <2>4. (d * q) * b = (b * q) * d /\ (c + 1) * b = c * b + b
    BY <1>1
  <2>5. /\ (d * q) * b \in Nat /\ (b * q) * d \in Nat /\ a * d \in Nat /\ c * b \in Nat /\ (c + 1) * b \in Nat
    BY <1>1
  <2> QED BY <2>2, <2>3, <2>4, <2>5
<1> QED BY <1>1, <1>2, LargestQuotient DEF q

LEMMA PercentFacts ==
  ASSUME NEW op \in Nat, NEW tracked \in Nat
  PROVE  /\ tracked = 0 => Percent(op, tracked) = NoData
         /\ tracked > 0 => /\ Percent(op, tracked) \in 0..Whole
                           /\ op = 0 => Percent(op, tracked) = 0
                           /\ op = tracked => Percent(op, tracked) = Whole
<1> DEFINE a == 2 * Whole * op + tracked
           b == 2 * tracked
<1>1. a \in Nat /\ b \in Nat /\ Whole = 10000
  BY DEF Whole
<1>2. CASE tracked > 0
  <2>1. b > 0
    BY <1>2
  <2>2. a \div b \in Nat /\ b * (a \div b) <= a /\ a < b * (a \div b) + b
    <3> HIDE DEF a, b
    <3> QED BY <1>1, <2>1, Quotient
  <2>3. Percent(op, tracked) = AtMost(a \div b, Whole)
    BY <1>2 DEF Percent
  <2>4. op = 0 => a \div b = 0
    <3> SUFFICES ASSUME op = 0, a \div b >= 1 PROVE FALSE
      BY <2>2
    <3>1. a = tracked /\ b = 2 * tracked
      BY <1>1
    <3>2. b * (a \div b) >= b
      <4> HIDE DEF a, b
      <4> QED BY <1>1, <2>1, <2>2
    <3> QED BY <1>2, <2>2, <3>1, <3>2
  <2>5. op = tracked => a \div b >= Whole
    <3> SUFFICES ASSUME op = tracked PROVE b * Whole <= a
      BY <1>1, <2>1, LargestQuotient
    <3> QED BY <1>1
  <2> DEFINE x == a \div b
  <2>6. x \in Nat /\ Percent(op, tracked) = AtMost(x, Whole) /\ (op = 0 => x = 0) /\ (op = tracked => x >= Whole)
    <3> HIDE DEF a, b
    <3> QED BY <2>2, <2>3, <2>4, <2>5
  <2> HIDE DEF a, b, x
  <2> QED BY <1>1, <1>2, <2>6 DEF AtMost
<1>3. CASE tracked = 0
  BY <1>3 DEF Percent
<1> QED BY <1>2, <1>3

LEMMA PercentGrows ==
  ASSUME NEW u \in Nat, NEW up \in Nat, NEW more \in Nat, NEW down \in Nat,
         u <= up, down <= more, u + more > 0, up + down > 0
  PROVE  Percent(u, u + more) <= Percent(up, up + down)
<1> DEFINE a == 2 * Whole * u + (u + more)
           b == 2 * (u + more)
           c == 2 * Whole * up + (up + down)
           d == 2 * (up + down)
<1>1. a \in Nat /\ b \in Nat /\ b > 0 /\ c \in Nat /\ d \in Nat /\ d > 0
  BY DEF Whole
<1>2. a * d <= c * b
  <2>1. u * down <= up * more
    <3>1. u * down <= up * down /\ up * down <= up * more
      OBVIOUS
    <3>2. u * down \in Nat /\ up * down \in Nat /\ up * more \in Nat
      OBVIOUS
    <3> QED BY <3>1, <3>2
  <2>2. u * (up + down) <= up * (u + more)
    BY <2>1
  <2>3. a * d = 40000 * (u * (up + down)) + 2 * ((u + more) * (up + down))
    BY DEF Whole
  <2>4. c * b = 40000 * (up * (u + more)) + 2 * ((u + more) * (up + down))
    BY DEF Whole
  <2> QED BY <2>2, <2>3, <2>4
<1>3. a \div b <= c \div d /\ a \div b \in Nat /\ c \div d \in Nat
  <2> HIDE DEF a, b, c, d
  <2> QED BY <1>1, <1>2, QuotientsGrow, Quotient
<1>4. Percent(u, u + more) = AtMost(a \div b, Whole) /\ Percent(up, up + down) = AtMost(c \div d, Whole)
  BY DEF Percent
<1> HIDE DEF a, b, c, d
<1> QED BY <1>3, <1>4 DEF AtMost, Whole

LEMMA TargetFacts ==
  /\ Whole - SloTarget \in Nat /\ Whole - SloTarget > 0
  /\ (Whole - Whole) * Whole = 0
  /\ Whole # NoData
<1>1. SloTarget \in 0..9999
  BY UptimeAssumption
<1>2. Whole = 10000 /\ NoData = -1
  BY DEF Whole, NoData
<1>3. Whole - Whole = 0 /\ 0 * Whole = 0
  BY <1>2
<1>4. (Whole - Whole) * Whole = 0
  BY <1>3
<1>5. Whole # NoData
  BY <1>2
<1> QED BY <1>1, <1>2, <1>4, <1>5

LEMMA BudgetGrows ==
  ASSUME NEW p \in 0..Whole, NEW q \in 0..Whole, p <= q
  PROVE  /\ ErrorBudgetRemaining(p) <= ErrorBudgetRemaining(q)
         /\ ErrorBudgetRemaining(Whole) = Whole
         /\ ErrorBudgetRemaining(NoData) = Whole
<1> DEFINE k == Whole - SloTarget
           a == (Whole - q) * Whole
           b == (Whole - p) * Whole
<1>1. k \in Nat /\ k > 0
  BY TargetFacts
<1>2. a \in Nat /\ b \in Nat /\ a <= b
  <2> DEFINE x == Whole - q
             y == Whole - p
  <2>1. x \in Nat /\ y \in Nat /\ x <= y /\ Whole = 10000
    BY DEF Whole
  <2> HIDE DEF x, y
  <2>2. x * Whole \in Nat /\ y * Whole \in Nat /\ x * Whole <= y * Whole
    BY <2>1
  <2> QED BY <2>2 DEF x, y
<1>3. a * k <= b * k
  <2> HIDE DEF a, b, k
  <2> QED BY <1>1, <1>2
<1>4. a \div k <= b \div k /\ a \div k \in Nat /\ b \div k \in Nat
  <2> HIDE DEF a, b, k
  <2> QED BY <1>1, <1>2, <1>3, QuotientsGrow, Quotient
<1>5. ErrorBudgetRemaining(p) = AtLeast(0, Whole - b \div k) /\ ErrorBudgetRemaining(q) = AtLeast(0, Whole - a \div k)
  <2>1. p # NoData /\ q # NoData
    BY DEF NoData
  <2> QED BY <2>1 DEF ErrorBudgetRemaining
<1>6. ErrorBudgetRemaining(Whole) = Whole
  <2>1. 0 \div k = 0
    <3> DEFINE r == 0 \div k
    <3>1. r \in Nat /\ k * r <= 0
      <4> HIDE DEF k
      <4> QED BY <1>1, Quotient
    <3>2. ASSUME r >= 1 PROVE FALSE
      <4>1. k * r >= k
        <5> HIDE DEF k, r
        <5> QED BY <1>1, <3>1, <3>2
      <4> HIDE DEF k, r
      <4> QED BY <1>1, <3>1, <4>1
    <3> HIDE DEF r
    <3> QED BY <3>1, <3>2 DEF r
  <2>2. ErrorBudgetRemaining(Whole) = AtLeast(0, Whole - 0 \div k)
    BY TargetFacts DEF ErrorBudgetRemaining
  <2> HIDE DEF k
  <2> QED BY <2>1, <2>2 DEF AtLeast, Whole
<1>7. ErrorBudgetRemaining(NoData) = Whole
  BY DEF ErrorBudgetRemaining
<1> HIDE DEF a, b, k
<1> QED BY <1>4, <1>5, <1>6, <1>7 DEF AtLeast, Whole

LEMMA HonestBudget ==
  ASSUME Typed, Sorted, Remembered
  PROVE  BudgetIsNotOverstated
<1> DEFINE u == Operational(events, clock - Month, clock)
           up == ReallyUp(Month)
           down == ReallyDown(Month)
<1>1. Month \in Nat
  BY Windows DEF Window
<1>2. u \in Nat /\ up \in Nat /\ down \in Nat /\ u <= up
  BY <1>1, CountedIsReal
<1>3. PICK more \in Nat : down <= more /\ Tracked(events, clock - Month, clock) = u + more
  BY <1>1, CountedIsReal
<1>4. Uptime(events, clock - Month, clock) = Percent(u, u + more)
  BY <1>3 DEF Uptime
<1> HIDE DEF u, up, down
<1>5. /\ Whole \in 0..Whole /\ ErrorBudgetRemaining(NoData) = Whole /\ ErrorBudgetRemaining(Whole) = Whole
      /\ \A p \in 0..Whole : ErrorBudgetRemaining(p) <= Whole
  <2>1. Whole \in 0..Whole /\ \A p \in 0..Whole : p <= Whole
    BY DEF Whole
  <2> QED BY <2>1, BudgetGrows
<1>6. ErrorBudgetRemaining(Percent(u, u + more)) <= ErrorBudgetRemaining(Percent(up, up + down))
  <2>1. CASE u + more > 0 /\ up + down > 0
    <3>1. u + more \in Nat /\ up + down \in Nat
      BY <1>2, <1>3
    <3>2. Percent(u, u + more) \in 0..Whole /\ Percent(up, up + down) \in 0..Whole
      BY <1>2, <2>1, <3>1, PercentFacts
    <3>3. Percent(u, u + more) <= Percent(up, up + down)
      BY <1>2, <1>3, <2>1, PercentGrows
    <3> QED BY <3>2, <3>3, BudgetGrows
  <2>2. CASE u + more > 0 /\ up + down = 0
    <3>1. u + more \in Nat /\ up + down \in Nat
      BY <1>2, <1>3
    <3>2. Percent(u, u + more) \in 0..Whole /\ Percent(up, up + down) = NoData
      BY <1>2, <2>2, <3>1, PercentFacts
    <3> QED BY <1>5, <3>2
  <2>3. CASE u + more = 0
    <3>1. u = 0 /\ down = 0 /\ more = 0
      BY <1>2, <1>3, <2>3
    <3>2. Percent(u, u + more) = NoData
      BY <1>2, <2>3, <3>1, PercentFacts
    <3>3. Percent(up, up + down) \in {NoData, Whole}
      BY <1>2, <3>1, PercentFacts
    <3> QED BY <1>5, <3>2, <3>3 DEF Whole
  <2>4. (u + more > 0 \/ u + more = 0) /\ (up + down > 0 \/ up + down = 0)
    BY <1>2, <1>3
  <2> QED BY <2>1, <2>2, <2>3, <2>4
<1> QED BY <1>4, <1>6 DEF BudgetIsNotOverstated, u, up, down

LEMMA HonestUptime == EventsInv => UptimeIsHonest
BY HonestDowntime, HonestBudget DEF EventsInv, UptimeIsHonest

-----------------------------------------------------------------------------
(* Burn rates. *)

LEMMA TicksOfWindow ==
  ASSUME Typed, NEW w \in Nat
  PROVE  LET all == {t \in 1..clock : t > clock - w}
         IN  /\ IsFiniteSet(all) /\ Cardinality(all) <= w /\ Cardinality(all) \in Nat
             /\ \A S : Really(S, w) \subseteq all
             /\ all \subseteq (clock - w + 1)..clock
             /\ IsFiniteSet((clock - w + 1)..clock) /\ Cardinality((clock - w + 1)..clock) = w
<1> DEFINE all == {t \in 1..clock : t > clock - w}
           span == (clock - w + 1)..clock
<1>0. clock \in Nat
  BY DEF Typed
<1>1. IsFiniteSet(span) /\ Cardinality(span) = w
  <2>1. clock - w + 1 \in Int /\ clock \in Int
    BY <1>0
  <2>2. IsFiniteSet(span) /\ Cardinality(span) = IF clock - w + 1 > clock THEN 0 ELSE clock - (clock - w + 1) + 1
    BY <2>1, FS_Interval
  <2> QED BY <1>0, <2>2
<1>2. all \subseteq span
  BY <1>0
<1>3. IsFiniteSet(all) /\ Cardinality(all) <= w /\ Cardinality(all) \in Nat
  <2> HIDE DEF all, span
  <2> QED BY <1>1, <1>2, FS_Subset, FS_CardinalityType
<1>4. \A S : Really(S, w) \subseteq all
  BY PastFacts DEF Really
<1> QED BY <1>1, <1>2, <1>3, <1>4

(* Down from end to end of a window is down in each part of it.            *)
LEMMA DownThroughout ==
  ASSUME Typed, NEW w \in Nat, NEW v \in Nat, v <= w, ReallyDown(w) = w
  PROVE  ReallyDown(v) = v /\ ReallyUp(v) = 0
<1>0. clock \in Nat
  BY DEF Typed
<1>1. IsFiniteSet((clock - w + 1)..clock) /\ Cardinality((clock - w + 1)..clock) = w
      /\ Really(Bad, w) \subseteq (clock - w + 1)..clock
  BY TicksOfWindow
<1>2. Really(Bad, w) = (clock - w + 1)..clock
  BY <1>1, FS_Subset DEF ReallyDown
<1>3. Really(Bad, v) = (clock - v + 1)..clock
  <2>1. \A t \in (clock - v + 1)..clock : t \in Really(Bad, w) /\ t > clock - v
    BY <1>0, <1>2
  <2>2. (clock - v + 1)..clock \subseteq Really(Bad, v)
    BY <2>1 DEF Really
  <2>3. Really(Bad, v) \subseteq (clock - v + 1)..clock
    BY TicksOfWindow
  <2> QED BY <2>2, <2>3
<1>4. ReallyDown(v) = v
  BY <1>3, TicksOfWindow DEF ReallyDown
<1>5. Really({"operational"}, v) = {}
  <2>1. \A t \in Really({"operational"}, v) : t \in (clock - v + 1)..clock /\ past[t] = "operational"
    BY TicksOfWindow DEF Really
  <2>2. \A t \in (clock - v + 1)..clock : past[t] \in Bad
    BY <1>3 DEF Really
  <2> QED BY <2>1, <2>2, Statuses
<1> QED BY <1>4, <1>5, FS_EmptySet DEF ReallyUp

LEMMA BurnsWhenDown ==
  ASSUME Typed, Sorted, Remembered, NEW w \in Nat, w > 0, ReallyDown(w) = w, ReallyUp(w) = 0, NEW threshold \in Nat
  PROVE  Burning(events, clock, w, threshold) <=> threshold * (Whole - SloTarget) <= Whole
<1> DEFINE u == Operational(events, clock - w, clock)
<1>1. u \in Nat /\ u <= ReallyUp(w)
  BY CountedIsReal
<1>2. PICK down \in Nat : Tracked(events, clock - w, clock) = u + down /\ ReallyDown(w) <= down
  BY CountedIsReal
<1>3. u = 0 /\ Tracked(events, clock - w, clock) = down /\ down > 0
  <2> HIDE DEF u
  <2> QED BY <1>1, <1>2
<1>4. Uptime(events, clock - w, clock) = 0
  BY <1>2, <1>3, PercentFacts DEF Uptime
<1>5. Whole - SloTarget \in Nat
  BY UptimeAssumption DEF Whole
<1>6. threshold * (Whole - SloTarget) \in Nat
  BY <1>5
<1> QED BY <1>4, <1>6 DEF Burning, Burns, NoData, Whole

LEMMA QuietWhenUp ==
  ASSUME Typed, Sorted, Remembered, ~StrayWarmUp, NEW w \in Nat, ReallyDown(w) = 0, NEW threshold \in Nat, threshold > 0
  PROVE  ~Burning(events, clock, w, threshold)
<1> DEFINE up == Operational(events, clock - w, clock)
<1>1. up \in Nat /\ Tracked(events, clock - w, clock) = up
  <2>1. up \in Nat
    BY CountedIsReal
  <2>2. PICK down \in Nat : Tracked(events, clock - w, clock) = up + down /\ down = 0
    BY CountedIsReal
  <2> HIDE DEF up
  <2> QED BY <2>1, <2>2
<1>2. Uptime(events, clock - w, clock) \in {NoData, Whole}
  <2> HIDE DEF up
  <2> QED BY <1>1, PercentFacts DEF Uptime, up
<1>3. Whole - SloTarget \in Nat /\ Whole - SloTarget > 0
  BY UptimeAssumption DEF Whole
<1>4. threshold * (Whole - SloTarget) > 0
  <2> DEFINE k == Whole - SloTarget
  <2>1. k \in Nat /\ k > 0
    BY <1>3
  <2> HIDE DEF k
  <2>2. threshold * k > 0
    BY <2>1
  <2> QED BY <2>2 DEF k
<1>5. SloTarget \in Int
  BY UptimeAssumption
<1> QED BY <1>2, <1>4, <1>5 DEF Burning, Burns, NoData, Whole

LEMMA OutagesBurn == OutagesCanBurn /\ EventsInv => OutageBurns
<1> SUFFICES ASSUME OutagesCanBurn, Typed, Sorted, Remembered PROVE OutageBurns
  BY DEF EventsInv, OutageBurns
<1>2. /\ FastShort \in Nat /\ FastShort > 0 /\ FastLong \in Nat /\ FastLong > 0 /\ FastShort <= FastLong
      /\ SlowShort \in Nat /\ SlowShort > 0 /\ SlowLong \in Nat /\ SlowLong > 0 /\ SlowShort <= SlowLong
      /\ FastThreshold \in Nat /\ FastThreshold > 0 /\ SlowThreshold \in Nat /\ SlowThreshold > 0
  BY UptimeAssumption
<1>3. ASSUME NEW short \in Nat, NEW long \in Nat, short > 0, short <= long, NEW threshold \in Nat,
             threshold * (Whole - SloTarget) <= Whole, ReallyDown(long) = long
      PROVE  Burning(events, clock, short, threshold) /\ Burning(events, clock, long, threshold)
  <2>1. ReallyDown(short) = short /\ ReallyUp(short) = 0 /\ ReallyUp(long) = 0
    BY <1>3, DownThroughout
  <2> QED BY <1>3, <2>1, BurnsWhenDown
<1>4. ReallyDown(FastLong) = FastLong => "fast" \in Breaches(events, clock)
  BY <1>2, <1>3 DEF OutagesCanBurn, Breaches
<1>5. ReallyDown(SlowLong) = SlowLong => "slow" \in Breaches(events, clock)
  BY <1>2, <1>3 DEF OutagesCanBurn, Breaches
<1>6. ReallyDown(FastShort) = 0 /\ ~StrayWarmUp => "fast" \notin Breaches(events, clock)
  BY <1>2, QuietWhenUp DEF Breaches
<1>7. ReallyDown(SlowShort) = 0 /\ ~StrayWarmUp => "slow" \notin Breaches(events, clock)
  BY <1>2, QuietWhenUp DEF Breaches
<1> QED BY <1>4, <1>5, <1>6, <1>7 DEF OutageBurns, Severity

-----------------------------------------------------------------------------
(* The history stays in order, and its past what it says.                  *)

LEMMA HistorySteps ==
  ASSUME [Next]_vars
  PROVE  \/ UNCHANGED <<bound, clock, status, events, past, dates>>
         \/ Tick
         \/ \E w \in Writer : Change(w)
BY DEF Next, BurnStep, ClickStep, WriteStep, MaintenanceEnds, TheEnd, StillOperational, Walk, Evaluate, Route, Record,
   Send, Deliver, Select, Mark, Replace, vars, history

(* What a writer may have read.                                            *)
LEMMA WhatIsSeen ==
  ASSUME Typed
  PROVE  Seen \subseteq Status /\ \A at \in Times : at \in Nat /\ at <= clock
<1>1. bound.behind \in Nat /\ bound.wait \in Nat
  BY HistoryAssumption DEF Typed
<1>2. \A i \in AtLeast(0, Len(events) - bound.behind)..Len(events) : i = 0 \/ i \in DOMAIN events
  BY <1>1, EventFacts DEF AtLeast
<1>3. \A i \in DOMAIN events : events[i].to \in Status
  BY EventFacts DEF EventRow
<1>4. Seen \subseteq Status
  BY <1>2, <1>3, Statuses DEF Seen, Typed
<1>5. \A at \in Times : at \in Nat /\ at <= clock
  BY <1>1 DEF Times, AtLeast, Typed
<1> QED BY <1>4, <1>5

LEMMA InsertedAt ==
  ASSUME NEW S, NEW s \in Seq(S), NEW p \in 1..(Len(s) + 1), NEW e \in S
  PROVE  LET new == Seqs!InsertAt(s, p, e)
         IN  /\ new \in Seq(S) /\ Len(new) = Len(s) + 1 /\ DOMAIN new = 1..(Len(s) + 1)
             /\ new[p] = e /\ \A k \in 1..(Len(s) + 1) : k < p => new[k] = s[k]
             /\ \A k \in 1..(Len(s) + 1) : k > p => k - 1 \in DOMAIN s /\ new[k] = s[k - 1]
<1> DEFINE n == Len(s)
           a == SubSeq(s, 1, p - 1)
           b == SubSeq(s, p, n)
           c == a \o <<e>>
<1>1. n \in Nat /\ p \in Nat /\ 1 <= p /\ p <= n + 1 /\ DOMAIN s = 1..n /\ \A i \in 1..n : s[i] \in S
  BY LenProperties
<1> HIDE DEF n
<1>2. a \in Seq(S) /\ Len(a) = p - 1 /\ \A i \in 1..(p - 1) : a[i] = s[i]
  <2>1. 1 \in Int /\ p - 1 \in Int /\ \A i \in 1..(p - 1) : s[i] \in S
    BY <1>1
  <2>2. /\ a \in Seq(S) /\ Len(a) = IF 1 <= p - 1 THEN p - 1 - 1 + 1 ELSE 0
        /\ \A i \in 1..(p - 1 - 1 + 1) : a[i] = s[1 + i - 1]
    BY <2>1, SubSeqProperties
  <2> HIDE DEF a
  <2>3. p - 1 - 1 + 1 = p - 1 /\ \A i \in 1..(p - 1) : 1 + i - 1 = i
    BY <1>1
  <2> QED BY <1>1, <2>2, <2>3
<1>3. b \in Seq(S) /\ Len(b) = n - p + 1 /\ \A i \in 1..(n - p + 1) : b[i] = s[p + i - 1]
  <2>1. p \in Int /\ n \in Int /\ \A i \in p..n : s[i] \in S
    BY <1>1
  <2>2. /\ b \in Seq(S) /\ Len(b) = IF p <= n THEN n - p + 1 ELSE 0
        /\ \A i \in 1..(n - p + 1) : b[i] = s[p + i - 1]
    BY <2>1, SubSeqProperties
  <2> HIDE DEF b
  <2> QED BY <1>1, <2>2
<1>4. <<e>> \in Seq(S) /\ Len(<<e>>) = 1 /\ <<e>>[1] = e
  OBVIOUS
<1> HIDE DEF a, b
<1>5. c \in Seq(S) /\ Len(c) = p /\ c[p] = e /\ \A i \in 1..(p - 1) : c[i] = s[i]
  <2>1. /\ c \in Seq(S) /\ Len(c) = Len(a) + Len(<<e>>)
        /\ \A i \in 1..(Len(a) + Len(<<e>>)) : c[i] = IF i <= Len(a) THEN a[i] ELSE <<e>>[i - Len(a)]
    BY <1>2, <1>4, ConcatProperties
  <2> HIDE DEF c
  <2>2. Len(a) + Len(<<e>>) = p /\ p - Len(a) = 1 /\ Len(a) = p - 1
    BY <1>1, <1>2, <1>4
  <2>3. c[p] = e
    <3>1. p \in 1..p /\ ~(p <= Len(a))
      BY <1>1, <2>2
    <3> QED BY <1>4, <2>1, <2>2, <3>1
  <2>4. ASSUME NEW i \in 1..(p - 1) PROVE c[i] = s[i]
    <3>1. i \in 1..p /\ i <= Len(a)
      BY <1>1, <2>2
    <3> QED BY <1>2, <2>1, <2>2, <3>1
  <2> QED BY <2>1, <2>2, <2>3, <2>4
<1> HIDE DEF c
<1> DEFINE new == c \o b
<1>6. /\ new \in Seq(S) /\ Len(new) = n + 1 /\ new[p] = e
      /\ \A k \in 1..(n + 1) : k < p => new[k] = s[k]
      /\ \A k \in 1..(n + 1) : k > p => k - 1 \in DOMAIN s /\ new[k] = s[k - 1]
  <2>1. /\ new \in Seq(S) /\ Len(new) = Len(c) + Len(b)
        /\ \A i \in 1..(Len(c) + Len(b)) : new[i] = IF i <= Len(c) THEN c[i] ELSE b[i - Len(c)]
    BY <1>3, <1>5, ConcatProperties
  <2> HIDE DEF new
  <2>2. Len(c) + Len(b) = n + 1 /\ Len(c) = p
    BY <1>1, <1>3, <1>5
  <2>3. new[p] = e
    <3>1. p \in 1..(n + 1) /\ p <= p
      BY <1>1
    <3> QED BY <1>5, <2>1, <2>2, <3>1
  <2>4. ASSUME NEW k \in 1..(n + 1), k < p PROVE new[k] = s[k]
    <3>1. k <= p /\ k \in 1..(p - 1)
      BY <1>1, <2>4
    <3> QED BY <1>5, <2>1, <2>2, <3>1
  <2>5. ASSUME NEW k \in 1..(n + 1), k > p PROVE k - 1 \in DOMAIN s /\ new[k] = s[k - 1]
    <3>1. ~(k <= p) /\ k - p \in 1..(n - p + 1) /\ p + (k - p) - 1 = k - 1 /\ k - 1 \in 1..n
      BY <1>1, <2>5
    <3> QED BY <1>1, <1>3, <2>1, <2>2, <3>1
  <2> QED BY <2>1, <2>2, <2>3, <2>4, <2>5
<1>7. DOMAIN new = 1..(n + 1)
  <2> HIDE DEF new
  <2> QED BY <1>6, LenProperties
<1> HIDE DEF new
<1>8. Seqs!InsertAt(s, p, e) = new
  BY DEF Seqs!InsertAt, new, c, a, b, n
<1> QED BY <1>6, <1>7, <1>8 DEF n

LEMMA Inserted ==
  ASSUME Typed, NEW row \in EventRow, row.at <= clock, row.from # row.to
  PROVE  LET n == Len(events) + 1
         IN  /\ Insert(row) \in Seq(EventRow)
             /\ \A k \in DOMAIN Insert(row) : Insert(row)[k].at <= clock /\ Insert(row)[k].from # Insert(row)[k].to
             /\ Precede(row.at) = DOMAIN events =>
                  /\ DOMAIN Insert(row) = DOMAIN events \cup {n} /\ Insert(row)[n] = row /\ Len(Insert(row)) = n
                  /\ \A i \in DOMAIN events : Insert(row)[i] = events[i]
<1> DEFINE p == Cardinality(Precede(row.at)) + 1
           n == Len(events)
           new == Seqs!InsertAt(events, p, row)
<1>1. n \in Nat /\ DOMAIN events = 1..n /\ IsFiniteSet(1..n) /\ Cardinality(1..n) = n
  BY EventFacts, FS_Interval
<1>2. p \in 1..(n + 1) /\ (Precede(row.at) = DOMAIN events => p = n + 1)
  <2>1. Precede(row.at) \subseteq 1..n
    BY <1>1 DEF Precede
  <2>2. Cardinality(Precede(row.at)) \in Nat /\ Cardinality(Precede(row.at)) <= n
    <3> HIDE DEF n
    <3> QED BY <1>1, <2>1, FS_Subset, FS_CardinalityType
  <2> QED BY <1>1, <2>2
<1> HIDE DEF p
<1>3. /\ new \in Seq(EventRow) /\ Len(new) = n + 1 /\ DOMAIN new = 1..(n + 1)
      /\ new[p] = row /\ \A k \in 1..(n + 1) : k < p => new[k] = events[k]
      /\ \A k \in 1..(n + 1) : k > p => k - 1 \in DOMAIN events /\ new[k] = events[k - 1]
  BY <1>2, InsertedAt DEF Typed
<1>4. Insert(row) = new
  BY DEF Insert, p
<1> HIDE DEF new, n
<1>5. \A i \in DOMAIN events : events[i].at <= clock /\ events[i].from # events[i].to
  BY DEF Typed
<1>6. ASSUME NEW k \in DOMAIN new PROVE new[k].at <= clock /\ new[k].from # new[k].to
  <2>1. CASE k < p
    <3>1. k \in DOMAIN events
      BY <1>1, <1>2, <1>3, <2>1
    <3> QED BY <1>3, <1>5, <2>1, <3>1
  <2>2. CASE k = p
    BY <1>3, <2>2
  <2>3. CASE k > p
    BY <1>3, <1>5, <2>3
  <2> QED BY <1>1, <1>2, <1>3, <2>1, <2>2, <2>3
<1>7. ASSUME Precede(row.at) = DOMAIN events
      PROVE  /\ DOMAIN new = DOMAIN events \cup {n + 1} /\ new[n + 1] = row
             /\ \A i \in DOMAIN events : new[i] = events[i]
  <2>1. p = n + 1
    BY <1>2, <1>7
  <2>2. 1..(n + 1) = 1..n \cup {n + 1}
    BY <1>1
  <2>3. \A i \in DOMAIN events : i \in 1..(n + 1) /\ i < n + 1
    BY <1>1
  <2> QED BY <1>1, <1>3, <2>1, <2>2, <2>3
<1> QED BY <1>3, <1>4, <1>6, <1>7 DEF n

(* A change appends its row, unless it disorders the history.              *)
LEMMA ChangeEffect ==
  ASSUME Typed, NEW w \in Writer, Change(w)
  PROVE  LET n == Len(events) + 1
         IN  /\ UNCHANGED <<bound, clock, past>> /\ status' \in Status /\ events' \in Seq(EventRow)
             /\ \A k \in DOMAIN events' : events'[k].at <= clock /\ events'[k].from # events'[k].to
             /\ dates' \in {"exact", "early", "disordered"} /\ (dates = "disordered" => dates' = "disordered")
             /\ (dates = "early" => dates' # "exact")
             /\ dates' # "disordered" =>
                  /\ DOMAIN events' = DOMAIN events \cup {n} /\ n \notin DOMAIN events /\ n \in Nat /\ Len(events') = n
                  /\ \A i \in DOMAIN events : events'[i] = events[i] /\ events[i].at <= events'[n].at
                  /\ events'[n].to = status' /\ events'[n].at \in Nat /\ (dates' = "exact" => events'[n].at = clock)
<1>1. PICK from \in Seen, at \in Times : \E s \in Status \ {from} :
        status' = s /\ events' = Insert([from |-> from, to |-> s, at |-> at]) /\ dates' = Dated(at)
  BY DEF Change
<1>2. PICK s \in Status \ {from} :
        status' = s /\ events' = Insert([from |-> from, to |-> s, at |-> at]) /\ dates' = Dated(at)
  BY <1>1
<1> DEFINE row == [from |-> from, to |-> s, at |-> at]
           n == Len(events) + 1
<1>3. row \in EventRow /\ row.at <= clock /\ row.from # row.to /\ row.at = at /\ row.to = s /\ at \in Nat /\ at <= clock
  BY WhatIsSeen DEF EventRow
<1>4. events' = Insert(row) /\ status' = s /\ s \in Status
  BY <1>2
<1> HIDE DEF row
<1>5. /\ Insert(row) \in Seq(EventRow)
      /\ \A k \in DOMAIN Insert(row) : Insert(row)[k].at <= clock /\ Insert(row)[k].from # Insert(row)[k].to
      /\ Precede(row.at) = DOMAIN events =>
           /\ DOMAIN Insert(row) = DOMAIN events \cup {n} /\ Insert(row)[n] = row /\ Len(Insert(row)) = n
           /\ \A i \in DOMAIN events : Insert(row)[i] = events[i]
  BY <1>3, Inserted
<1>6. /\ dates' \in {"exact", "early", "disordered"} /\ (dates = "disordered" => dates' = "disordered")
      /\ (dates = "early" => dates' # "exact")
      /\ dates' # "disordered" => Precede(at) = DOMAIN events
      /\ dates' = "exact" => at = clock
  <2>1. dates \in {"exact", "early", "disordered"} /\ clock \in Nat
    BY DEF Typed
  <2>2. dates' = Dated(at)
    BY <1>2
  <2> QED BY <1>3, <2>1, <2>2 DEF Dated
<1>7. n \in Nat /\ n \notin DOMAIN events
  BY EventFacts
<1>8. Precede(at) = DOMAIN events => \A i \in DOMAIN events : events[i].at <= at
  BY DEF Precede
<1>9. UNCHANGED <<bound, clock, past>>
  BY DEF Change
<1> HIDE DEF n
<1> QED BY <1>3, <1>4, <1>5, <1>6, <1>7, <1>8, <1>9 DEF n

LEMMA EventsInitially == Init => EventsInv
<1> SUFFICES ASSUME Init PROVE EventsInv
  OBVIOUS
<1>1. events \in Seq(EventRow) /\ past \in Seq(Status) /\ Len(past) = 0 /\ DOMAIN events = {}
  BY EmptySeq DEF Init
<1> QED BY <1>1, Statuses DEF Init, EventsInv, Typed, Sorted, Ends, Remembered

LEMMA LastEvent ==
  ASSUME Typed, Ends
  PROVE  /\ events = <<>> => (Len(events) = 0 /\ DOMAIN events = {} /\ status = "unknown")
         /\ events # <<>> => /\ Len(events) \in DOMAIN events /\ status = events[Len(events)].to
<1>1. events = <<>> => (Len(events) = 0 /\ DOMAIN events = {})
  BY EmptySeq
<1>2. events # <<>> => Len(events) \in DOMAIN events
  <2>1. Len(events) \in Nat /\ (Len(events) = 0 => events = <<>>)
    BY EmptySeq, EventFacts DEF Typed
  <2> QED BY <2>1, EventFacts
<1> QED BY <1>1, <1>2 DEF Ends

LEMMA TickKeeps ==
  ASSUME EventsInv, Tick
  PROVE  EventsInv'
<1>1. Typed /\ clock \in Nat
  BY DEF EventsInv, Typed
<1>2. clock' = clock + 1 /\ past' = Append(past, status) /\ UNCHANGED <<bound, status, events, dates>>
  BY DEF Tick
<1>3. /\ past' \in Seq(Status) /\ Len(past') = clock' /\ past'[clock + 1] = status
      /\ \A t \in 1..clock : past'[t] = past[t]
  BY <1>1, <1>2, LenProperties DEF Typed
<1>4. \A i \in DOMAIN events : events[i].at <= clock + 1
  BY <1>1, EventFacts DEF Typed
<1>5. Typed'
  BY <1>1, <1>2, <1>3, <1>4 DEF Typed
<1>6. dates # "disordered" => Sorted' /\ Ends'
  BY <1>2 DEF EventsInv, Sorted, Ends
<1>7. ASSUME dates = "exact" PROVE Remembered'
  <2>1. Remembered /\ Ends
    BY <1>7 DEF EventsInv
  <2>2. ASSUME NEW t \in 1..(clock + 1)
        PROVE  \/ past'[t] = "unknown" /\ \A j \in DOMAIN events : t <= events[j].at
               \/ \E i \in DOMAIN events :
                    /\ past'[t] = events[i].to /\ events[i].at < t
                    /\ \A j \in DOMAIN events : j > i => t <= events[j].at
    <3>1. CASE t \in 1..clock
      BY <1>3, <2>1, <3>1 DEF Remembered
    <3>2. CASE t = clock + 1
      <4>1. CASE events = <<>>
        <5>1. DOMAIN events = {} /\ past'[t] = "unknown"
          BY <1>1, <1>3, <2>1, <3>2, <4>1, LastEvent
        <5> QED BY <5>1
      <4>2. CASE events # <<>>
        <5>1. Len(events) \in DOMAIN events /\ past'[t] = events[Len(events)].to
          BY <1>1, <1>3, <2>1, <3>2, <4>2, LastEvent
        <5>2. events[Len(events)].at < t
          BY <1>1, <3>2, <5>1, EventFacts DEF Typed
        <5>3. \A j \in DOMAIN events : ~(j > Len(events))
          BY <1>1, EventFacts
        <5> QED BY <5>1, <5>2, <5>3
      <4> QED BY <4>1, <4>2
    <3>3. t \in 1..clock \/ t = clock + 1
      BY <1>1
    <3> QED BY <3>1, <3>2, <3>3
  <2> QED BY <1>2, <2>2 DEF Remembered
<1> QED BY <1>2, <1>5, <1>6, <1>7 DEF EventsInv

LEMMA ChangeKeeps ==
  ASSUME EventsInv, NEW w \in Writer, Change(w)
  PROVE  EventsInv'
<1> DEFINE n == Len(events) + 1
<1>1. Typed
  BY DEF EventsInv
<1>2. /\ UNCHANGED <<bound, clock, past>> /\ status' \in Status /\ events' \in Seq(EventRow)
      /\ \A k \in DOMAIN events' : events'[k].at <= clock /\ events'[k].from # events'[k].to
      /\ dates' \in {"exact", "early", "disordered"} /\ (dates = "disordered" => dates' = "disordered")
      /\ (dates = "early" => dates' # "exact")
      /\ dates' # "disordered" =>
           /\ DOMAIN events' = DOMAIN events \cup {n} /\ n \notin DOMAIN events /\ n \in Nat /\ Len(events') = n
           /\ \A i \in DOMAIN events : events'[i] = events[i] /\ events[i].at <= events'[n].at
           /\ events'[n].to = status' /\ events'[n].at \in Nat /\ (dates' = "exact" => events'[n].at = clock)
  BY <1>1, ChangeEffect
<1>3. \A i \in DOMAIN events : i \in Nat /\ i < n
  BY <1>1, EventFacts
<1> HIDE DEF n
<1>4. Typed'
  BY <1>1, <1>2 DEF Typed
<1>5. ASSUME dates' # "disordered" PROVE Sorted' /\ Ends'
  <2>1. Sorted
    BY <1>2, <1>5 DEF EventsInv
  <2>2. ASSUME NEW i \in DOMAIN events', NEW j \in DOMAIN events', i <= j
        PROVE  events'[i].at <= events'[j].at
    <3>1. CASE j \in DOMAIN events
      <4>1. i \in DOMAIN events
        <5>1. j \in Nat /\ j < n
          BY <1>3, <3>1
        <5> QED BY <1>2, <1>5, <2>2, <5>1
      <4> QED BY <1>2, <1>5, <2>1, <2>2, <3>1, <4>1 DEF Sorted
    <3>2. CASE j = n
      BY <1>2, <1>5, <3>2
    <3> QED BY <1>2, <1>5, <3>1, <3>2
  <2>3. events' # << >> /\ status' = events'[Len(events')].to
    <3>1. DOMAIN << >> = {}
      BY EmptySeq
    <3> QED BY <1>2, <1>5, <3>1
  <2> QED BY <2>2, <2>3 DEF Sorted, Ends
<1>6. ASSUME dates' = "exact" PROVE Remembered'
  <2>1. dates = "exact" /\ Remembered
    BY <1>1, <1>2, <1>6 DEF EventsInv, Typed
  <2>2. clock \in Nat
    BY <1>1 DEF Typed
  <2>3. \A t \in 1..clock : t <= events'[n].at
    BY <1>2, <1>6, <2>2
  <2> QED BY <1>2, <1>3, <1>6, <2>1, <2>2, <2>3 DEF Remembered
<1> QED BY <1>4, <1>5, <1>6 DEF EventsInv

LEMMA EventsInductive == EventsInv /\ [Next]_vars => EventsInv'
<1> SUFFICES ASSUME EventsInv, [Next]_vars PROVE EventsInv'
  OBVIOUS
<1>1. CASE UNCHANGED <<bound, clock, status, events, past, dates>>
  BY <1>1 DEF EventsInv, Typed, Sorted, Ends, Remembered
<1> QED BY <1>1, TickKeeps, ChangeKeeps, HistorySteps

(* What the pages and the burn rates say of a service whose rows are dated *)
(* when they were written is never better than what was, whatever its      *)
(* writers had read: downtime is seen in full.                             *)
THEOREM UptimeIsAlwaysHonest == Spec => []UptimeIsHonest
BY HonestUptime, EventsInitially, EventsInductive, PTL DEF Spec

(* Where an outage can burn at all, one that fills the long window is a    *)
(* breach, and none is left once the short window is clear, but for a      *)
(* stray warm-up.                                                          *)
THEOREM OutagesAlwaysBurn ==
  ASSUME OutagesCanBurn
  PROVE  Spec => []OutageBurns
<1>1. EventsInv => OutageBurns
  BY OutagesBurn
<1> QED BY <1>1, EventsInitially, EventsInductive, PTL DEF Spec

-----------------------------------------------------------------------------
(* The walk finds the rows up to the newest recovery, and the worst status *)
(* among them.                                                             *)

LEMMA Ranks ==
  /\ \A s \in Status : SEVERITY_RANK[s] \in Nat
  /\ SEVERITY_RANK["operational"] = 1 /\ \A s \in Bad : SEVERITY_RANK[s] > 1
<1>1. SEVERITY_RANK["operational"] = 1 /\ SEVERITY_RANK["unknown"] = 0 /\ SEVERITY_RANK["degraded"] = 2
      /\ SEVERITY_RANK["partial_outage"] = 3 /\ SEVERITY_RANK["major_outage"] = 4
  BY DEF SEVERITY_RANK
<1>2. \A s \in Bad : s \in {"degraded", "partial_outage", "major_outage"}
  BY HistoryAssumption
<1> QED BY <1>1, <1>2 DEF Status

(* Of two or more rows the walk takes those up to the newest recovery.     *)
Walked(i, j) ==
  /\ Recovers(j) /\ \A k \in DOMAIN events : Recovers(k) => k <= j
  /\ i = 1 \/ events[i].from = "operational"
  /\ \A k \in (i + 1)..(j - 1) : events[k].from # "operational"

LEMMA IncidentIs ==
  ASSUME Typed, Len(Incident(events)) >= 2
  PROVE  \E j \in DOMAIN events : \E i \in 1..(j - 1) : Walked(i, j) /\ Incident(events) = SubSeq(events, i, j)
<1> DEFINE R == Recoveries(events)
           j == Sets!Max(R)
           S == Starts(events, j)
           i == IF S = {} THEN 1 ELSE Sets!Max(S)
<1>1. R # {}
  <2>1. Len(<< >>) = 0
    BY EmptySeq
  <2> QED BY <2>1 DEF Incident
<1>2. R \in SUBSET DOMAIN events /\ DOMAIN events \subseteq Int /\ IsFiniteSet(R)
  <2>1. R \in SUBSET DOMAIN events
    BY DEF Recoveries
  <2> HIDE DEF R
  <2> QED BY <2>1, EventFacts, FS_Subset
<1>3. j \in R /\ \A x \in R : x <= j
  <2> HIDE DEF R
  <2>1. \E m \in R : \A x \in R : x <= m
    BY <1>1, <1>2, Extremes
  <2> QED BY <2>1 DEF Sets!Max
<1>4. Incident(events) = SubSeq(events, i, j)
  BY <1>1 DEF Incident
<1>5. j \in DOMAIN events /\ j \in Nat /\ Recovers(j)
  <2>1. j \in DOMAIN events /\ Recovers(j)
    <3> HIDE DEF j
    <3> QED BY <1>3 DEF Recoveries, Recovers
  <2> HIDE DEF j
  <2> QED BY <2>1, EventFacts
<1>6. \A k \in DOMAIN events : Recovers(k) => k <= j
  <2> HIDE DEF j
  <2> QED BY <1>3 DEF Recoveries, Recovers
<1> HIDE DEF j
<1>7. DOMAIN events = 1..Len(events) /\ Len(events) \in Nat
  BY EventFacts
<1>8. S = {} \/ (i \in S /\ \A x \in S : x <= i)
  <2>1. S \in SUBSET (1..j) /\ IsFiniteSet(1..j)
    BY <1>5, FS_Interval DEF Starts
  <2>2. S \in SUBSET Int /\ IsFiniteSet(S)
    <3> HIDE DEF S
    <3>1. 1..j \subseteq Int
      BY <1>5
    <3>2. IsFiniteSet(S)
      BY <2>1, FS_Subset
    <3> QED BY <2>1, <3>1, <3>2
  <2>3. S # {} => \E m \in S : \A x \in S : x <= m
    <3> HIDE DEF S
    <3> QED BY <2>2, Extremes
  <2>4. S # {} => i = Sets!Max(S)
    OBVIOUS
  <2> HIDE DEF i, S
  <2> QED BY <2>3, <2>4 DEF Sets!Max
<1>9. i \in 1..(j - 1) /\ (i = 1 \/ events[i].from = "operational")
  <2>1. CASE S = {}
    <3>1. i = 1
      BY <2>1
    <3>2. j # 1
      <4>1. SUFFICES ASSUME j = 1 PROVE FALSE
        OBVIOUS
      <4>2. \A k \in 1..1 : events[k] \in EventRow
        BY <1>5, <4>1, EventFacts
      <4>3. Len(SubSeq(events, 1, 1)) = 1
        BY <4>2, SubSeqProperties
      <4> QED BY <1>4, <3>1, <4>1, <4>3
    <3> HIDE DEF i
    <3> QED BY <1>5, <1>7, <3>1, <3>2
  <2>2. CASE S # {}
    <3>1. i \in S
      BY <1>8, <2>2
    <3> HIDE DEF i
    <3> QED BY <3>1 DEF Starts
  <2> QED BY <2>1, <2>2
<1>10. \A k \in (i + 1)..(j - 1) : events[k].from # "operational"
  <2> SUFFICES ASSUME NEW k \in (i + 1)..(j - 1), events[k].from = "operational" PROVE FALSE
    OBVIOUS
  <2>1. k \in S
    <3> HIDE DEF i
    <3>1. k \in 1..(j - 1)
      BY <1>5, <1>9
    <3> QED BY <3>1 DEF Starts
  <2> HIDE DEF i, S
  <2> QED BY <1>5, <1>8, <1>9, <2>1
<1> HIDE DEF i
<1> QED BY <1>4, <1>5, <1>6, <1>9, <1>10 DEF Walked

(* The fold over an incident finds a status of it that is no better than   *)
(* any of them.                                                            *)
LEMMA PeakIsWorst ==
  ASSUME NEW q \in Seq(EventRow), q # << >>
  PROVE  \E p \in DOMAIN q : /\ Peak(q) = q[p].to
                             /\ \A k \in DOMAIN q : SEVERITY_RANK[q[k].to] <= SEVERITY_RANK[q[p].to]
<1> DEFINE S == DOMAIN q
           rank == [x \in S |-> SEVERITY_RANK[q[x].to]]
           Worse(x, v) == IF SEVERITY_RANK[q[x].to] > SEVERITY_RANK[v] THEN q[x].to ELSE v
           pick == [T \in SUBSET S |-> Seqs!Max(T)]
           next == [p \in (SUBSET S) \X Status |-> IF p[1] = {} THEN p[2] ELSE Worse(pick[p[1]], p[2])]
           Rec(g) == g = [s \in SUBSET S |-> IF s = {} THEN q[1].to
                            ELSE LET x == Seqs!Max(s)
                                 IN  IF SEVERITY_RANK[q[x].to] > SEVERITY_RANK[g[s \ {x}]] THEN q[x].to ELSE g[s \ {x}]]
<1>1. /\ S = 1..Len(q) /\ Len(q) \in Nat /\ 1 \in S /\ IsFiniteSet(S)
      /\ \A x \in S : q[x].to \in Status /\ SEVERITY_RANK[q[x].to] \in Nat
  <2>1. S = 1..Len(q) /\ Len(q) \in Nat /\ (Len(q) = 0 => q = << >>) /\ \A x \in S : q[x] \in EventRow
    BY LenProperties, EmptySeq
  <2>2. IsFiniteSet(1..Len(q))
    BY <2>1, FS_Interval
  <2>3. \A x \in S : q[x].to \in Status
    BY <2>1 DEF EventRow
  <2> QED BY <2>1, <2>2, <2>3, Ranks
<1>2. \A T \in SUBSET S : T # {} => pick[T] \in T /\ pick[T] = Seqs!Max(T)
  <2> SUFFICES ASSUME NEW T \in SUBSET S, T # {} PROVE Seqs!Max(T) \in T
    OBVIOUS
  <2>1. T \in SUBSET Int /\ IsFiniteSet(T)
    BY <1>1, FS_Subset
  <2>2. \E m \in T : \A x \in T : x <= m
    BY <2>1, Extremes
  <2> QED BY <2>2 DEF Seqs!Max
<1>3. \A x \in S, v \in Status : Worse(x, v) \in Status
  BY <1>1
<1>4. \A T \in SUBSET S, v \in Status :
        next[<<T, v>>] \in Status /\ next[<<T, v>>] = IF T = {} THEN v ELSE Worse(pick[T], v)
  <2> HIDE DEF pick, Worse
  <2>1. \A T \in SUBSET S, v \in Status : T # {} => Worse(pick[T], v) \in Status
    BY <1>2, <1>3
  <2> QED BY <2>1
<1>5. PICK g : Rec(g) /\ Peak(q) = g[S]
  <2>1. \E g : Rec(g)
    <3> HIDE DEF pick, next, S
    <3>1. Foldable(S, Status, q[1].to, pick, next)
      BY <1>1, <1>2, <1>4 DEF Foldable
    <3>2. PICK g : IsTable(g, S, Status, q[1].to, pick, next)
      BY <3>1, FoldTable
    <3>3. g \in [SUBSET S -> Status] /\ \A T \in SUBSET S : T \ {pick[T]} \in SUBSET S
      BY <3>2 DEF IsTable
    <3>4. \A T \in SUBSET S : g[T] = IF T = {} THEN q[1].to ELSE Worse(pick[T], g[T \ {pick[T]}])
      BY <1>4, <3>2, <3>3 DEF IsTable
    <3>5. \A T \in SUBSET S : g[T] = IF T = {} THEN q[1].to
             ELSE LET x == Seqs!Max(T)
                  IN  IF SEVERITY_RANK[q[x].to] > SEVERITY_RANK[g[T \ {x}]] THEN q[x].to ELSE g[T \ {x}]
      BY <1>2, <3>4
    <3>6. Rec(g)
      BY <3>3, <3>5
    <3> QED BY <3>6
  <2>2. Peak(q) = (CHOOSE g : Rec(g))[S]
    BY DEF Peak, Seqs!FoldLeft, Seqs!MapThenFoldSet
  <2> HIDE DEF Rec, S
  <2> QED BY <2>1, <2>2
<1>6. /\ g[{}] = q[1].to
      /\ \A T \in SUBSET S : T # {} => g[T] = Worse(pick[T], g[T \ {pick[T]}])
  <2>1. g[{}] = q[1].to
    BY <1>5
  <2>2. \A T \in SUBSET S : T # {} => g[T] = LET x == Seqs!Max(T)
            IN  IF SEVERITY_RANK[q[x].to] > SEVERITY_RANK[g[T \ {x}]] THEN q[x].to ELSE g[T \ {x}]
    BY <1>5
  <2> HIDE DEF pick, Rec
  <2> QED BY <1>2, <2>1, <2>2
<1> DEFINE G == {T \in SUBSET S : \E p \in S : g[T] = q[p].to /\ \A k \in T : rank[k] <= rank[p]}
<1>7. {} \in G
  BY <1>1, <1>6
<1>8. ASSUME NEW T \in SUBSET S, T # {}, T \ {pick[T]} \in G PROVE T \in G
  <2> HIDE DEF pick, rank
  <2>1. PICK p \in S : g[T \ {pick[T]}] = q[p].to /\ \A k \in T \ {pick[T]} : rank[k] <= rank[p]
    BY <1>8
  <2>2. pick[T] \in T /\ pick[T] \in S
    BY <1>2, <1>8
  <2>3. \A x \in S : rank[x] \in Nat /\ rank[x] = SEVERITY_RANK[q[x].to]
    BY <1>1 DEF rank
  <2>4. g[T] = IF rank[pick[T]] > rank[p] THEN q[pick[T]].to ELSE q[p].to
    BY <1>6, <1>8, <2>1, <2>2, <2>3
  <2> HIDE DEF S
  <2>5. CASE rank[pick[T]] > rank[p]
    <3>1. \A k \in T : rank[k] <= rank[pick[T]]
      BY <2>1, <2>2, <2>3, <2>5
    <3> QED BY <2>2, <2>4, <2>5, <3>1
  <2>6. CASE ~(rank[pick[T]] > rank[p])
    <3>1. \A k \in T : rank[k] <= rank[p]
      BY <2>1, <2>2, <2>3, <2>6
    <3> QED BY <2>4, <2>6, <3>1
  <2> QED BY <2>5, <2>6
<1>9. S \in G
  <2>1. \A T \in SUBSET S : T # {} => \E x \in T : T \ {x} \in G => T \in G
    BY <1>2, <1>8
  <2>2. IsFiniteSet(S)
    BY <1>1
  <2> HIDE DEF G, S
  <2>3. SUBSET S \subseteq G
    BY <1>7, <2>1, <2>2, Growing
  <2> QED BY <2>3
<1> QED BY <1>5, <1>9

LEMMA ReportTells ==
  ASSUME Typed, NEW j \in DOMAIN events, NEW i \in 1..(j - 1), Walked(i, j), NEW resolved,
         Incident(events) = SubSeq(events, i, j)
  PROVE  Tells(Report(resolved, Incident(events)), i, j)
<1> DEFINE q == Incident(events)
           r == Report(resolved, q)
<1>1. DOMAIN events = 1..Len(events) /\ Len(events) \in Nat /\ i \in Nat /\ j \in Nat /\ i < j /\ j <= Len(events)
      /\ events \in Seq(EventRow) /\ 1 <= i
  BY EventFacts DEF Typed
<1>2. /\ q \in Seq(EventRow) /\ Len(q) = j - i + 1 /\ DOMAIN q = 1..(j - i + 1) /\ q # << >>
      /\ \A k \in 1..(j - i + 1) : q[k] = events[i + k - 1]
  <2>1. i \in Int /\ j \in Int /\ \A k \in i..j : events[k] \in EventRow
    BY <1>1, EventFacts
  <2>2. /\ SubSeq(events, i, j) \in Seq(EventRow) /\ Len(SubSeq(events, i, j)) = IF i <= j THEN j - i + 1 ELSE 0
        /\ \A k \in 1..(j - i + 1) : SubSeq(events, i, j)[k] = events[i + k - 1]
    <3> HIDE DEF q
    <3> QED BY <2>1, SubSeqProperties
  <2> HIDE DEF q
  <2>3. q = SubSeq(events, i, j)
    BY DEF q
  <2>4. q \in Seq(EventRow) /\ Len(q) = j - i + 1
    BY <1>1, <2>2, <2>3
  <2>5. DOMAIN q = 1..(j - i + 1)
    BY <2>4, LenProperties
  <2>6. q # << >>
    BY <1>1, <2>4, EmptySeq
  <2> QED BY <2>2, <2>3, <2>4, <2>5, <2>6
<1>3. PICK p \in DOMAIN q : /\ Peak(q) = q[p].to
                            /\ \A k \in DOMAIN q : SEVERITY_RANK[q[k].to] <= SEVERITY_RANK[q[p].to]
  <2> HIDE DEF q
  <2> QED BY <1>2, PeakIsWorst
<1>4. r.started = events[i].at /\ r.count = j - i + 1 /\ r.peak = Peak(q)
  <2>1. q[1] = events[i]
    <3>1. 1 \in 1..(j - i + 1) /\ i + 1 - 1 = i
      BY <1>1
    <3> HIDE DEF q
    <3> QED BY <1>2, <3>1
  <2> HIDE DEF q
  <2> QED BY <1>2, <2>1 DEF Report
<1> HIDE DEF q
<1> DEFINE m == i + p - 1
<1>5. m \in i..j /\ Peak(q) = events[m].to
  <2>1. p \in 1..(j - i + 1) /\ q[p] = events[m]
    BY <1>2
  <2>2. m \in i..j
    BY <1>1, <2>1
  <2> HIDE DEF m
  <2> QED BY <1>3, <2>1, <2>2
<1>6. \A k \in i..j : SEVERITY_RANK[events[k].to] <= SEVERITY_RANK[Peak(q)]
  <2> SUFFICES ASSUME NEW k \in i..j PROVE SEVERITY_RANK[events[k].to] <= SEVERITY_RANK[Peak(q)]
    OBVIOUS
  <2>1. k - i + 1 \in 1..(j - i + 1) /\ i + (k - i + 1) - 1 = k
    BY <1>1
  <2> QED BY <1>2, <1>3, <2>1
<1> HIDE DEF m, r
<1>7. Tells(r, i, j)
  BY <1>4, <1>5, <1>6 DEF Tells, Walked
<1> QED BY <1>7 DEF r, q

(* Rows that are linked do not go past a recovery.                         *)
LEMMA LinkedIsOver ==
  ASSUME Typed, NEW j \in DOMAIN events, NEW i \in 1..(j - 1), Walked(i, j), Linked(i, j)
  PROVE  IsOver(i, j)
<1> SUFFICES ASSUME NEW k \in i..(j - 1), events[k].to = "operational" PROVE FALSE
  BY DEF IsOver
<1>1. i \in Nat /\ j \in Nat /\ k \in Nat /\ k + 1 \in (i + 1)..j /\ (k + 1) - 1 = k
  BY EventFacts
<1>2. events[k + 1].from = "operational"
  BY <1>1 DEF Linked
<1>3. CASE k + 1 = j
  BY <1>2, <1>3 DEF Typed, Walked, Recovers
<1>4. CASE k + 1 # j
  <2>1. k + 1 \in (i + 1)..(j - 1)
    BY <1>1, <1>4
  <2> QED BY <1>2, <2>1 DEF Walked
<1> QED BY <1>3, <1>4

-----------------------------------------------------------------------------
(* Between the moment a writer takes as resolved_at and its walk.          *)

TasksOK == task \in [Writer -> [at : {"idle", "recovered", "walk"}, resolved : 0..clock]]
Timely  == \A r \in reports : /\ r.started <= r.resolved /\ r.resolved <= clock /\ r.resolved \in Nat
                              /\ r.peak \in Status

(* The service was operational at resolved, and what is not yet known of   *)
(* is dated after it.                                                      *)
Up(rows, resolved) ==
  \E n \in DOMAIN rows : /\ rows[n].to = "operational" /\ rows[n].at <= resolved
                         /\ \A k \in DOMAIN rows : k > n => resolved <= rows[k].at
Waits == \A w \in Writer : dates = "exact" /\ task[w].at = "walk" => Up(events, task[w].resolved)

IsTrue(r) == \E j \in DOMAIN events : \E i \in 1..(j - 1) :
               Tells(r, i, j) /\ (Linked(i, j) => IsOver(i, j)) /\ (dates = "exact" => EndsAt(r, i, j))
ReportsTrue == dates # "disordered" => \A r \in reports : IsTrue(r)
ReportInv   == EventsInv /\ TasksOK /\ Timely /\ Waits /\ ReportsTrue /\ files \subseteq reports

LEMMA ReportedIsTrue ==
  ASSUME Typed, NEW resolved \in Nat, Reported(resolved, Incident(events)),
         dates # "disordered" => Sorted, dates = "exact" => Up(events, resolved)
  PROVE  LET r == Report(resolved, Incident(events))
         IN  /\ IsTrue(r) \/ dates = "disordered"
             /\ r.started <= resolved /\ r.resolved = resolved /\ r.peak \in Status
<1> DEFINE q == Incident(events)
           r == Report(resolved, q)
<1>0. Len(q) >= 2 /\ resolved - q[1].at >= ReportAfter /\ ReportAfter \in Nat /\ ReportAfter > 0
  BY HistoryAssumption DEF Reported
<1>1. PICK j \in DOMAIN events : \E i \in 1..(j - 1) : Walked(i, j) /\ q = SubSeq(events, i, j)
  BY <1>0, IncidentIs
<1>2. PICK i \in 1..(j - 1) : Walked(i, j) /\ q = SubSeq(events, i, j)
  BY <1>1
<1>3. Tells(r, i, j)
  BY <1>2, ReportTells
<1>4. r.resolved = resolved /\ r.started = q[1].at
  BY DEF Report
<1>5. /\ i \in Nat /\ j \in Nat /\ i < j /\ i \in DOMAIN events /\ events[i].at \in Nat /\ events[j].at \in Nat
      /\ \A k \in i..j : k \in DOMAIN events /\ events[k].to \in Status
  BY EventFacts DEF EventRow
<1> HIDE DEF q, r
<1>6. r.started = events[i].at /\ r.started <= resolved - ReportAfter /\ r.started <= resolved /\ r.peak \in Status
  <2>1. r.started = events[i].at /\ r.peak \in {events[k].to : k \in i..j}
    BY <1>3 DEF Tells
  <2> QED BY <1>0, <1>4, <1>5, <2>1
<1>7. Linked(i, j) => IsOver(i, j)
  BY <1>2, LinkedIsOver
<1>8. ASSUME dates = "exact" PROVE EndsAt(r, i, j)
  <2>1. ASSUME Linked(i, j) PROVE events[j].at <= r.resolved
    <3>1. PICK n \in DOMAIN events : /\ events[n].to = "operational" /\ events[n].at <= resolved
                                     /\ \A k \in DOMAIN events : k > n => resolved <= events[k].at
      BY <1>8 DEF Up
    <3>2. n \in Nat /\ events[n].at \in Nat
      BY EventFacts
    <3>3. CASE n >= j
      <4>1. events[j].at <= events[n].at
        BY <1>8, <3>3 DEF Sorted
      <4> QED BY <1>4, <1>5, <3>1, <3>2, <4>1
    <3>4. CASE n < i
      BY <1>0, <1>5, <1>6, <3>1, <3>2, <3>4
    <3>5. CASE i <= n /\ n < j
      <4>1. n \in i..(j - 1)
        BY <1>5, <3>2, <3>5
      <4> QED BY <1>7, <2>1, <3>1, <4>1 DEF IsOver
    <3> QED BY <1>5, <3>2, <3>3, <3>4, <3>5
  <2>2. ASSUME NEW k \in (j + 1)..Len(events), Recovers(k) PROVE FALSE
    <3>1. k \in DOMAIN events /\ k > j
      BY <1>5, EventFacts
    <3> QED BY <1>2, <1>5, <2>2, <3>1 DEF Walked
  <2> QED BY <2>1, <2>2 DEF EndsAt
<1>9. IsTrue(r)
  BY <1>3, <1>7, <1>8 DEF IsTrue
<1> QED BY <1>4, <1>6, <1>9 DEF q, r

-----------------------------------------------------------------------------
(* Reports stay true.                                                      *)

LEMMA Time ==
  ASSUME [Next]_vars
  PROVE  /\ bound' = bound
         /\ clock' = clock \/ (clock < bound.clock /\ clock' = clock + 1)
BY DEF Next, BurnStep, ClickStep, WriteStep, Tick, Change, MaintenanceEnds, TheEnd, StillOperational, Walk, Evaluate,
   Route, Record, Send, Deliver, Select, Mark, Replace, vars

LEMMA ReportSteps ==
  ASSUME [Next]_vars
  PROVE  \/ UNCHANGED <<events, dates, written, task>>
         \/ \E w \in Writer : Change(w) \/ StillOperational(w) \/ Walk(w)
BY DEF Next, BurnStep, ClickStep, WriteStep, Tick, MaintenanceEnds, TheEnd, Evaluate, Route, Record,
   Send, Deliver, Select, Mark, Replace, vars, history

LEMMA TasksInductive ==
  ASSUME Typed, TasksOK, [Next]_vars
  PROVE  TasksOK'
<1> DEFINE Task(t) == [at : {"idle", "recovered", "walk"}, resolved : 0..t]
<1>0. clock \in Nat /\ clock' \in Nat /\ clock <= clock' /\ task \in [Writer -> Task(clock)]
  BY Time DEF Typed, TasksOK
<1>1. Task(clock) \subseteq Task(clock')
  BY <1>0
<1>2. AtRest \in Task(clock') /\ [at |-> "recovered", resolved |-> 0] \in Task(clock')
      /\ [at |-> "walk", resolved |-> clock] \in Task(clock')
  BY <1>0 DEF AtRest
<1>3. task' = task \/ \E w \in Writer, v \in Task(clock') : task' = [task EXCEPT ![w] = v]
  <2> HIDE DEF Task
  <2>1. ASSUME NEW w \in Writer, Change(w) \/ StillOperational(w) \/ Walk(w)
        PROVE  task' = task \/ \E v \in Task(clock') : task' = [task EXCEPT ![w] = v]
    BY <1>2, <2>1 DEF Change, StillOperational, Walk
  <2> QED BY <2>1, ReportSteps
<1> HIDE DEF Task
<1>4. task' \in [Writer -> Task(clock')]
  BY <1>0, <1>1, <1>3
<1> QED BY <1>4 DEF TasksOK, Task

LEMMA WalkEffect ==
  ASSUME NEW w \in Writer, Walk(w)
  PROVE  LET q == Incident(events) r == Report(task[w].resolved, q)
         IN  /\ UNCHANGED <<clock, events, dates>> /\ task[w].at = "walk" /\ task' = [task EXCEPT ![w] = AtRest]
             /\ \/ UNCHANGED written
                \/ /\ Reported(task[w].resolved, q) /\ reports' = reports \cup {r}
                   /\ files' = files \/ files' = files \cup {r}
BY DEF Walk, Reported, history

(* Rows that are appended leave those that are there as they are.          *)
LEMMA ReportsStayTrue ==
  ASSUME Typed, NEW w \in Writer, Change(w), dates' # "disordered", NEW r, IsTrue(r),
         r.resolved <= clock
  PROVE  IsTrue(r)'
<1> DEFINE n == Len(events) + 1
<1>1. /\ DOMAIN events' = DOMAIN events \cup {n} /\ n \notin DOMAIN events /\ n \in Nat /\ Len(events') = n
      /\ \A i \in DOMAIN events : events'[i] = events[i]
      /\ dates' = "exact" => (events'[n].at = clock /\ dates = "exact")
  <2>1. dates \in {"exact", "early", "disordered"}
    BY DEF Typed
  <2> QED BY <2>1, ChangeEffect
<1>2. PICK j \in DOMAIN events : \E i \in 1..(j - 1) :
               Tells(r, i, j) /\ (Linked(i, j) => IsOver(i, j)) /\ (dates = "exact" => EndsAt(r, i, j))
  BY DEF IsTrue
<1>3. PICK i \in 1..(j - 1) :
               Tells(r, i, j) /\ (Linked(i, j) => IsOver(i, j)) /\ (dates = "exact" => EndsAt(r, i, j))
  BY <1>2
<1>4. i \in DOMAIN events /\ i \in Nat /\ j \in Nat /\ Len(events) \in Nat /\ DOMAIN events = 1..Len(events)
      /\ \A k \in i..j : k \in DOMAIN events
  BY EventFacts
<1>5. \A k \in i..j : events'[k] = events[k]
  BY <1>1, <1>4
<1>6. Tells(r, i, j)'
  <2>1. j \in i..j /\ i \in i..j /\ \A k \in (i + 1)..(j - 1) : k \in i..j
    BY <1>4
  <2>2. {events'[k].to : k \in i..j} = {events[k].to : k \in i..j}
    BY <1>5
  <2> QED BY <1>3, <1>5, <2>1, <2>2 DEF Tells, Recovers
<1>7. Linked(i, j)' <=> Linked(i, j)
  <2>1. \A k \in (i + 1)..j : k \in i..j /\ k - 1 \in i..j
    BY <1>4
  <2> QED BY <1>5, <2>1 DEF Linked
<1>8. IsOver(i, j)' <=> IsOver(i, j)
  <2>1. \A k \in i..(j - 1) : k \in i..j
    BY <1>4
  <2> QED BY <1>5, <2>1 DEF IsOver
<1>9. ASSUME dates' = "exact" PROVE EndsAt(r, i, j)'
  <2>1. EndsAt(r, i, j) /\ events'[n].at = clock /\ j \in i..j
    BY <1>1, <1>3, <1>4, <1>9
  <2>2. ASSUME NEW k \in (j + 1)..n, Recovers(k)' PROVE r.resolved <= events'[k].at
    <3>1. CASE k = n
      BY <2>1, <3>1
    <3>2. CASE k # n
      <4>1. k \in DOMAIN events /\ k \in (j + 1)..Len(events)
        BY <1>4, <3>2
      <4>2. Recovers(k)
        BY <1>1, <2>2, <4>1 DEF Recovers
      <4> QED BY <1>1, <2>1, <4>1, <4>2 DEF EndsAt
    <3> QED BY <3>1, <3>2
  <2> QED BY <1>1, <1>5, <1>7, <2>1, <2>2 DEF EndsAt
<1> HIDE DEF n
<1> QED BY <1>1, <1>3, <1>6, <1>7, <1>8, <1>9 DEF IsTrue

LEMMA WaitsInductive ==
  ASSUME EventsInv, TasksOK, Waits, [Next]_vars
  PROVE  Waits'
<1> SUFFICES ASSUME dates' = "exact", NEW v \in Writer, task'[v].at = "walk"
             PROVE  Up(events', task'[v].resolved)
  BY DEF Waits
<1>0. Typed /\ clock \in Nat /\ \A w \in Writer : task[w].resolved \in Nat /\ task[w].resolved <= clock
  BY DEF EventsInv, Typed, TasksOK
<1>1. CASE UNCHANGED <<events, dates, written, task>>
  BY <1>1 DEF Waits
<1>2. ASSUME NEW w \in Writer, Change(w) PROVE Up(events', task'[v].resolved)
  <2> DEFINE n == Len(events) + 1
  <2>1. /\ DOMAIN events' = DOMAIN events \cup {n} /\ n \notin DOMAIN events
        /\ \A i \in DOMAIN events : events'[i] = events[i]
        /\ events'[n].at = clock /\ dates = "exact"
    <3>1. dates \in {"exact", "early", "disordered"}
      BY <1>0 DEF Typed
    <3> QED BY <1>0, <1>2, <3>1, ChangeEffect
  <2>2. task'[v] = task[v]
    BY <1>2 DEF Change, TasksOK
  <2>3. Up(events, task[v].resolved) /\ task[v].resolved <= clock
    BY <1>0, <1>2, <2>1, <2>2 DEF Waits
  <2> HIDE DEF n
  <2> QED BY <2>1, <2>2, <2>3 DEF Up
<1>3. ASSUME NEW w \in Writer, StillOperational(w) PROVE Up(events', task'[v].resolved)
  <2>1. UNCHANGED <<clock, events, dates>>
    BY <1>3 DEF StillOperational, history
  <2>2. CASE v # w
    <3>1. task'[v] = task[v]
      BY <1>3, <2>2 DEF StillOperational
    <3> QED BY <2>1, <3>1 DEF Waits
  <2>3. CASE v = w
    <3>1. task'[v] = IF status = "operational" THEN [at |-> "walk", resolved |-> clock] ELSE AtRest
      BY <1>3, <2>3 DEF StillOperational, TasksOK
    <3>2. status = "operational" /\ task'[v].resolved = clock
      BY <1>3, <3>1 DEF AtRest
    <3>3. Ends /\ Sorted
      BY <1>3, <2>1 DEF EventsInv
    <3>4. Len(events) \in DOMAIN events /\ events[Len(events)].to = "operational"
      BY <1>0, <3>2, <3>3, LastEvent
    <3>5. events[Len(events)].at <= clock /\ \A k \in DOMAIN events : ~(k > Len(events))
      BY <1>0, <3>4, EventFacts DEF Typed
    <3>6. Up(events, clock)
      BY <3>4, <3>5 DEF Up
    <3> QED BY <2>1, <3>2, <3>6
  <2> QED BY <2>2, <2>3
<1>4. ASSUME NEW w \in Writer, Walk(w) PROVE Up(events', task'[v].resolved)
  <2>1. UNCHANGED <<clock, events, dates>> /\ task' = [task EXCEPT ![w] = AtRest]
    BY <1>4, WalkEffect
  <2>2. task'[v] = task[v]
    BY <1>4, <2>1 DEF TasksOK, AtRest
  <2> QED BY <2>1, <2>2 DEF Waits
<1> QED BY <1>1, <1>2, <1>3, <1>4, ReportSteps

LEMMA ReportsInductive ==
  ASSUME ReportInv, [Next]_vars
  PROVE  (Timely /\ ReportsTrue /\ files \subseteq reports)'
<1>0. /\ Typed /\ clock \in Nat /\ clock' \in Nat /\ clock <= clock' /\ Timely /\ ReportsTrue /\ files \subseteq reports
      /\ \A r \in reports : r.resolved <= clock /\ r.resolved \in Nat
  BY Time DEF ReportInv, EventsInv, Typed, Timely
<1>1. reports' = reports => Timely'
  BY <1>0 DEF Timely
<1>2. CASE UNCHANGED <<events, dates, written, task>>
  <2>1. reports' = reports /\ files' = files
    BY <1>2 DEF written
  <2>2. \A x : IsTrue(x)' <=> IsTrue(x)
    BY <1>2 DEF IsTrue, Tells, Recovers, Linked, IsOver, EndsAt
  <2>3. ReportsTrue'
    BY <1>0, <1>2, <2>1, <2>2 DEF ReportsTrue
  <2> QED BY <1>0, <1>1, <2>1, <2>3
<1>3. ASSUME NEW w \in Writer, Change(w) PROVE (Timely /\ ReportsTrue /\ files \subseteq reports)'
  <2>1. UNCHANGED written /\ (dates = "disordered" => dates' = "disordered")
    BY <1>0, <1>3, ChangeEffect DEF Change
  <2>2. ASSUME dates' # "disordered", NEW r \in reports PROVE IsTrue(r)'
    <3>1. IsTrue(r)
      BY <1>0, <2>1, <2>2 DEF ReportsTrue
    <3>2. r.resolved <= clock
      BY <1>0
    <3> QED BY <1>0, <1>3, <2>2, <3>1, <3>2, ReportsStayTrue
  <2>3. reports' = reports /\ files' = files
    BY <2>1 DEF written
  <2>4. ReportsTrue'
    BY <2>2, <2>3 DEF ReportsTrue
  <2> QED BY <1>0, <1>1, <2>3, <2>4
<1>4. ASSUME NEW w \in Writer, StillOperational(w) PROVE (Timely /\ ReportsTrue /\ files \subseteq reports)'
  <2>1. UNCHANGED <<events, dates, written>>
    BY <1>4 DEF StillOperational, history
  <2>2. \A x : IsTrue(x)' <=> IsTrue(x)
    BY <2>1 DEF IsTrue, Tells, Recovers, Linked, IsOver, EndsAt
  <2>3. reports' = reports /\ files' = files /\ ReportsTrue'
    BY <1>0, <2>1, <2>2 DEF ReportsTrue, written
  <2> QED BY <1>0, <1>1, <2>3
<1>5. ASSUME NEW w \in Writer, Walk(w) PROVE (Timely /\ ReportsTrue /\ files \subseteq reports)'
  <2> DEFINE q == Incident(events)
             resolved == task[w].resolved
             r == Report(resolved, q)
  <2>1. /\ UNCHANGED <<clock, events, dates>> /\ task[w].at = "walk"
        /\ \/ UNCHANGED written
           \/ Reported(resolved, q) /\ reports' = reports \cup {r} /\ (files' = files \/ files' = files \cup {r})
    BY <1>5, WalkEffect
  <2>2. resolved \in Nat /\ resolved <= clock
    BY <1>0 DEF ReportInv, TasksOK
  <2>3. dates = "exact" => Up(events, resolved)
    BY <2>1 DEF ReportInv, Waits
  <2>4. dates # "disordered" => Sorted
    BY DEF ReportInv, EventsInv
  <2> HIDE DEF resolved
  <2>5. Reported(resolved, q) =>
          /\ IsTrue(r) \/ dates = "disordered"
          /\ r.started <= resolved /\ r.resolved = resolved /\ r.peak \in Status
    BY <1>0, <2>2, <2>3, <2>4, ReportedIsTrue
  <2> HIDE DEF q, r
  <2>6. \A x : IsTrue(x)' <=> IsTrue(x)
    BY <2>1 DEF IsTrue, Tells, Recovers, Linked, IsOver, EndsAt
  <2>7. ReportsTrue'
    BY <1>0, <2>1, <2>5, <2>6 DEF ReportsTrue, written
  <2>8. Timely'
    BY <1>0, <2>1, <2>2, <2>5 DEF Timely, written
  <2>9. files' \subseteq reports'
    BY <1>0, <2>1 DEF written
  <2> QED BY <2>7, <2>8, <2>9
<1> QED BY <1>2, <1>3, <1>4, <1>5, ReportSteps

LEMMA ReportInitially == Init => ReportInv
<1> SUFFICES ASSUME Init PROVE ReportInv
  OBVIOUS
<1>1. EventsInv
  BY EventsInitially
<1>2. TasksOK
  BY DEF Init, TasksOK, AtRest
<1>3. Timely /\ Waits /\ ReportsTrue /\ files \subseteq reports
  BY DEF Init, AtRest, Timely, Waits, ReportsTrue
<1> QED BY <1>1, <1>2, <1>3 DEF ReportInv

LEMMA ReportInductive == ReportInv /\ [Next]_vars => ReportInv'
<1> SUFFICES ASSUME ReportInv, [Next]_vars PROVE ReportInv'
  OBVIOUS
<1>1. EventsInv /\ Typed /\ TasksOK /\ Waits
  BY DEF ReportInv, EventsInv
<1> QED BY <1>1, EventsInductive, TasksInductive, WaitsInductive, ReportsInductive DEF ReportInv

(* A report of rows that are in order tells of the rows up to a recovery,  *)
(* with their worst status, although others appended to them while its     *)
(* writer waited: one outage, if each row there began where the one before *)
(* ended; its end is after that recovery and before the next one, if they  *)
(* are also dated in time.                                                 *)
THEOREM ReportsAreTrue == Spec => []ReportIsTrue
<1>1. ReportInv => ReportIsTrue
  BY DEF ReportInv, ReportsTrue, IsTrue, ReportIsTrue
<1> QED BY <1>1, ReportInitially, ReportInductive, PTL DEF Spec

-----------------------------------------------------------------------------
(* The shape of the log, of the cycle and of the interactions.             *)

LogRow == [severity : Severity, by : Reason \cup {Fired}, at : Nat, acked : User \cup {Nobody}]

(* The part of the state that the alerts and acknowledgements live in.     *)
LogOK ==
  /\ clock \in Nat /\ log \in Seq(LogRow) /\ \A i \in DOMAIN log : log[i].at <= clock
  /\ button \subseteq DOMAIN log

CycleOK ==
  /\ cycle \in [at : {"idle", "route", "record", "send"}, now : Nat, todo : SUBSET Severity,
                severity : Severity \cup {"none"}, by : Reason \cup {Fired, "none"}]
  /\ cycle.at = "route" => cycle.todo # {}
  /\ cycle.at \in {"record", "send"} => (cycle.severity \in Severity /\ cycle.by \in Reason \cup {Fired})
  /\ cycle.at = "send" => Len(log) \in DOMAIN log

ClickOK ==
  /\ click \in [Handler -> [at : {"idle", "select", "mark", "replace"}, message : Nat, user : User \cup {Nobody},
                            row : Nat]]
  /\ \A h \in Handler : click[h].at # "idle" => (click[h].message \in DOMAIN log /\ click[h].user \in User)
  /\ \A h \in Handler : click[h].at \in {"mark", "replace"} => click[h].row \in DOMAIN log
  /\ clicked \in [Severity -> Nat]

Shape == LogOK /\ CycleOK /\ ClickOK

(* Steps that neither alert nor acknowledge.                               *)
Elsewhere == /\ UNCHANGED <<log, cycle, button, click, clicked>>
             /\ clock' = clock \/ clock' = clock + 1

LEMMA Steps ==
  ASSUME [Next]_vars
  PROVE  \/ Elsewhere \/ Evaluate \/ Route \/ Record \/ Send
         \/ \E h \in Handler : Deliver(h) \/ Select(h) \/ Mark(h) \/ Replace(h)
BY DEF Next, Elsewhere, BurnStep, ClickStep, WriteStep, Tick, MaintenanceEnds, TheEnd, Change, StillOperational, Walk,
   vars, alerts, slack

LEMMA LogFacts ==
  ASSUME LogOK
  PROVE  Len(log) \in Nat /\ DOMAIN log = 1..Len(log) /\ \A i \in DOMAIN log : log[i] \in LogRow
BY LenProperties DEF LogOK

LEMMA ShapeInitially == Init => Shape
<1> SUFFICES ASSUME Init PROVE Shape
  OBVIOUS
<1>1. log \in Seq(LogRow) /\ DOMAIN log = {}
  BY EmptySeq DEF Init
<1> QED BY <1>1 DEF Init, Shape, LogOK, CycleOK, ClickOK, Resting, Waiting

(* What a row that is appended, or acknowledged, leaves of the log.        *)
LEMMA AppendRow ==
  ASSUME LogOK, NEW r \in LogRow, log' = Append(log, r)
  PROVE  /\ log' \in Seq(LogRow) /\ DOMAIN log' = (DOMAIN log) \cup {Len(log) + 1}
         /\ Len(log) + 1 \notin DOMAIN log /\ log'[Len(log) + 1] = r /\ \A i \in DOMAIN log : log'[i] = log[i]
<1>1. /\ log' \in Seq(LogRow) /\ Len(log') = Len(log) + 1 /\ log'[Len(log) + 1] = r
      /\ \A i \in 1..Len(log) : log'[i] = log[i]
  BY LenProperties DEF LogOK
<1>2. DOMAIN log' = 1..(Len(log) + 1)
  BY <1>1, LenProperties
<1>3. Len(log) \in Nat /\ DOMAIN log = 1..Len(log)
  BY LogFacts
<1>4. 1..(Len(log) + 1) = (1..Len(log)) \cup {Len(log) + 1}
  BY <1>3
<1> QED BY <1>1, <1>2, <1>3, <1>4

LEMMA MarkRow ==
  ASSUME LogOK, NEW r \in DOMAIN log, NEW u \in User, log' = [log EXCEPT ![r].acked = u]
  PROVE  /\ log' \in Seq(LogRow) /\ DOMAIN log' = DOMAIN log
         /\ \A i \in DOMAIN log : i # r => log'[i] = log[i]
         /\ log'[r] = [log[r] EXCEPT !.acked = u]
         /\ log'[r].acked = u /\ log'[r].severity = log[r].severity /\ log'[r].by = log[r].by
         /\ log'[r].at = log[r].at
<1>1. Len(log) \in Nat /\ log \in [1..Len(log) -> LogRow] /\ DOMAIN log = 1..Len(log)
  BY LenProperties DEF LogOK
<1>2. [log[r] EXCEPT !.acked = u] \in LogRow
  BY <1>1 DEF LogRow
<1>3. log' \in [1..Len(log) -> LogRow]
  BY <1>1, <1>2
<1>4. log' \in Seq(LogRow)
  BY <1>1, <1>3, SeqDef
<1>5. log[r] \in LogRow
  BY <1>1
<1> QED BY <1>1, <1>3, <1>4, <1>5 DEF LogRow

-----------------------------------------------------------------------------
(* The state keeps its shape.                                              *)

LEMMA RecordEffect ==
  ASSUME Shape, Record
  PROVE  LET r == [severity |-> cycle.severity, by |-> cycle.by, at |-> clock, acked |-> Nobody]
         IN  /\ r \in LogRow /\ log' = Append(log, r)
             /\ cycle.at = "record" /\ UNCHANGED <<clock, button, click, clicked>>
             /\ cycle.by = Fired => cycle' = [cycle EXCEPT !.at = "send"]
             /\ cycle.by # Fired => cycle' = Onward
BY DEF Shape, LogOK, CycleOK, Record, LogRow, slack

LEMMA OnwardOK ==
  ASSUME CycleOK
  PROVE  /\ Onward \in [at : {"idle", "route", "record", "send"}, now : Nat, todo : SUBSET Severity,
                        severity : Severity \cup {"none"}, by : Reason \cup {Fired, "none"}]
         /\ Onward.at \in {"idle", "route"} /\ (Onward.at = "route" => Onward.todo # {})
BY DEF CycleOK, Onward, Resting

LEMMA NewestIsOne ==
  ASSUME LogOK, NEW h \in Handler, Unacked(h) # {}
  PROVE  Newest(Unacked(h)) \in Unacked(h) /\ \A j \in Unacked(h) : j <= Newest(Unacked(h))
<1>1. Unacked(h) \in SUBSET DOMAIN log
  BY DEF Unacked
<1>2. DOMAIN log \in SUBSET Int /\ IsFiniteSet(DOMAIN log)
  <2>1. DOMAIN log = 1..Len(log) /\ Len(log) \in Nat
    BY LogFacts
  <2>2. IsFiniteSet(1..Len(log))
    BY <2>1, FS_Interval
  <2> QED BY <2>1, <2>2
<1>3. Unacked(h) \in SUBSET Int /\ IsFiniteSet(Unacked(h))
  BY <1>1, <1>2, FS_Subset
<1>4. \E i \in Unacked(h) : \A j \in Unacked(h) : j <= i
  BY <1>3, Extremes
<1> QED BY <1>4 DEF Newest

LEMMA MarkEffect ==
  ASSUME Shape, NEW h \in Handler, Mark(h)
  PROVE  LET r == click[h].row u == click[h].user
         IN  /\ r \in DOMAIN log /\ u \in User /\ click[h].at = "mark"
             /\ log' = [log EXCEPT ![r].acked = u]
             /\ click' = [click EXCEPT ![h].at = "replace"]
             /\ UNCHANGED <<clock, cycle, button, clicked>>
BY DEF Shape, ClickOK, Mark

LEMMA ShapeInductive == Shape /\ [Next]_vars => Shape'
<1> SUFFICES ASSUME Shape, [Next]_vars PROVE Shape'
  OBVIOUS
<1> USE DEF Shape
<1>1. CASE Elsewhere
  <2>1. clock' \in Nat /\ clock <= clock'
    BY <1>1 DEF Elsewhere, LogOK
  <2>2. \A i \in DOMAIN log : log[i] \in LogRow
    BY LogFacts
  <2>3. \A i \in DOMAIN log : log[i].at <= clock'
    BY <2>1, <2>2 DEF LogOK, LogRow
  <2>4. LogOK'
    BY <1>1, <2>1, <2>3 DEF Elsewhere, LogOK
  <2>5. CycleOK'
    BY <1>1 DEF Elsewhere, CycleOK
  <2>6. ClickOK'
    BY <1>1 DEF Elsewhere, ClickOK
  <2> QED BY <2>4, <2>5, <2>6
<1>2. CASE Evaluate
  <2>1. Breaches(events, clock) \subseteq Severity
    BY DEF Breaches, Severity
  <2>2. cycle' = [at |-> "route", now |-> clock, todo |-> Breaches(events, clock), severity |-> "none", by |-> "none"]
        /\ Breaches(events, clock) # {}
    BY <1>2 DEF Evaluate, Resting
  <2>3. CycleOK'
    BY <2>1, <2>2 DEF CycleOK, LogOK
  <2> QED BY <1>2, <2>3 DEF Evaluate, LogOK, ClickOK, alerts, slack
<1>3. CASE Route
  <2>1. MostUrgent(cycle.todo) \in Severity
    BY <1>3 DEF Route, CycleOK, MostUrgent, Severity
  <2>2. Routed(MostUrgent(cycle.todo)) \in Reason \cup {Fired}
    BY DEF Routed, Reason
  <2>3. cycle' = [cycle EXCEPT !.at = "record", !.todo = @ \ {MostUrgent(cycle.todo)},
                               !.severity = MostUrgent(cycle.todo), !.by = Routed(MostUrgent(cycle.todo))]
    BY <1>3 DEF Route
  <2>4. CycleOK'
    BY <2>1, <2>2, <2>3 DEF CycleOK
  <2> QED BY <1>3, <2>4 DEF Route, LogOK, ClickOK, alerts, slack
<1>4. CASE Record
  <2>1. LogOK'
    BY <1>4, RecordEffect, AppendRow DEF LogOK
  <2>2. CycleOK'
    BY <1>4, RecordEffect, OnwardOK DEF CycleOK
  <2>3. DOMAIN log \subseteq DOMAIN log'
    BY <1>4, RecordEffect, AppendRow
  <2> QED BY <1>4, <2>1, <2>2, <2>3, RecordEffect DEF ClickOK
<1>5. CASE Send
  <2>1. CycleOK'
    BY <1>5, OnwardOK DEF Send, CycleOK
  <2>2. button' \subseteq DOMAIN log
    BY <1>5 DEF Send, CycleOK, LogOK
  <2> QED BY <1>5, <2>1, <2>2 DEF Send, LogOK, ClickOK, slack
<1>6. ASSUME NEW h \in Handler, Deliver(h) PROVE Shape'
  <2>1. PICK i \in button, u \in User :
          /\ click' = [click EXCEPT ![h] = [at |-> "select", message |-> i, user |-> u, row |-> 0]]
          /\ clicked' = [clicked EXCEPT ![log[i].severity] = @ + 1]
    BY <1>6 DEF Deliver
  <2>2. i \in DOMAIN log /\ i \in Nat /\ log[i].severity \in Severity
    BY LogFacts DEF LogOK, LogRow
  <2>3. clicked' \in [Severity -> Nat]
    BY <2>1, <2>2 DEF ClickOK
  <2>4. ClickOK'
    BY <1>6, <2>1, <2>2, <2>3 DEF Deliver, ClickOK, alerts
  <2> QED BY <1>6, <2>4 DEF Deliver, LogOK, CycleOK, alerts
<1>7. ASSUME NEW h \in Handler, Select(h) PROVE Shape'
  <2>1. Unacked(h) # {} => Newest(Unacked(h)) \in Unacked(h)
    BY NewestIsOne
  <2>2. Unacked(h) \subseteq DOMAIN log /\ DOMAIN log \subseteq Nat
    BY LogFacts DEF Unacked
  <2>3. ClickOK'
    BY <1>7, <2>1, <2>2 DEF Select, ClickOK, alerts, Waiting
  <2> QED BY <1>7, <2>3 DEF Select, LogOK, CycleOK, alerts
<1>8. ASSUME NEW h \in Handler, Mark(h) PROVE Shape'
  <2>1. /\ log' \in Seq(LogRow) /\ DOMAIN log' = DOMAIN log
        /\ \A i \in DOMAIN log : log'[i].at = log[i].at
    <3>1. LogOK
      OBVIOUS
    <3> QED BY <1>8, <3>1, MarkEffect, MarkRow
  <2>2. Len(log') = Len(log)
    BY <2>1, LogFacts, LenProperties
  <2>3. LogOK'
    <3>1. clock' = clock /\ button' = button
      BY <1>8, MarkEffect
    <3> QED BY <2>1, <3>1 DEF LogOK
  <2>4. CycleOK'
    BY <1>8, <2>1, <2>2, MarkEffect DEF CycleOK
  <2>5. ClickOK'
    <3>1. /\ clicked' = clicked /\ click' = [click EXCEPT ![h].at = "replace"] /\ click[h].at = "mark"
          /\ DOMAIN log' = DOMAIN log
      BY <1>8, <2>1, MarkEffect
    <3> QED BY <3>1 DEF ClickOK
  <2> QED BY <2>3, <2>4, <2>5
<1>9. ASSUME NEW h \in Handler, Replace(h) PROVE Shape'
  <2>1. ClickOK'
    BY <1>9 DEF Replace, ClickOK, Waiting
  <2> QED BY <1>9, <2>1 DEF Replace, LogOK, CycleOK
<1> QED BY <1>1, <1>2, <1>3, <1>4, <1>5, <1>6, <1>7, <1>8, <1>9, Steps

(* In every reachable state the log of sent alerts, the evaluation cycle and
   each interaction hold values of their types, and what each has
   in hand refers to rows that exist: database.py's alert_sent_log as
   router_slack.py and alerting/burn_rate.py leave it. *)
THEOREM HistoryHasShape == Spec => []Shape
BY ShapeInitially, ShapeInductive, PTL DEF Spec

-----------------------------------------------------------------------------
(* What a step does to a row: nothing, but for Mark, which acknowledges it. *)
LEMMA RowsStay ==
  ASSUME Shape, [Next]_vars, NEW i \in DOMAIN log
  PROVE  /\ i \in DOMAIN log' /\ log[i] \in LogRow
         /\ log'[i].severity = log[i].severity /\ log'[i].by = log[i].by /\ log'[i].at = log[i].at
         /\ log'[i].acked = log[i].acked \/ \E h \in Handler : Mark(h) /\ i = click[h].row
<1> USE DEF Shape
<1>1. log[i] \in LogRow
  BY LogFacts
<1>2. CASE UNCHANGED log
  BY <1>1, <1>2
<1>3. CASE Record
  BY <1>1, <1>3, RecordEffect, AppendRow
<1>4. ASSUME NEW h \in Handler, Mark(h) PROVE UNCHANGED <<log[i].severity, log[i].by, log[i].at>>
                                              /\ i \in DOMAIN log' /\ (i # click[h].row => log'[i] = log[i])
  <2>1. PICK r \in DOMAIN log, u \in User : r = click[h].row /\ log' = [log EXCEPT ![r].acked = u]
    <3>1. /\ click[h].row \in DOMAIN log /\ click[h].user \in User
          /\ log' = [log EXCEPT ![click[h].row].acked = click[h].user]
      BY <1>4, MarkEffect
    <3> QED BY <3>1
  <2>2. /\ DOMAIN log' = DOMAIN log /\ \A j \in DOMAIN log : j # r => log'[j] = log[j]
        /\ log'[r].severity = log[r].severity /\ log'[r].by = log[r].by /\ log'[r].at = log[r].at
    BY <2>1, MarkRow
  <2>3. CASE i = r
    BY <2>1, <2>2, <2>3
  <2>4. CASE i # r
    BY <2>1, <2>2, <2>4
  <2> QED BY <2>3, <2>4
<1>5. UNCHANGED log \/ Record \/ \E h \in Handler : Mark(h)
  BY Steps DEF Elsewhere, Evaluate, Route, Send, Deliver, Select, Replace, alerts
<1> QED BY <1>1, <1>2, <1>3, <1>4, <1>5

(* The SELECT and the UPDATE of an acknowledgement are under the write     *)
(* lock: the row a handler is about to mark is nobody's, and it is alone.  *)
Alone == \A h, g \in Handler : click[h].at = "mark" /\ click[g].at = "mark" => h = g
Nobodys ==
  \A h \in Handler : click[h].at = "mark" =>
    /\ log[click[h].row].acked = Nobody /\ log[click[h].row].by = Fired
    /\ log[click[h].row].severity = log[click[h].message].severity
MarkInv == Shape /\ Alone /\ Nobodys

LEMMA SelectEffect ==
  ASSUME Shape, NEW h \in Handler, Select(h)
  PROVE  /\ click[h].at = "select" /\ \A g \in Handler : click[g].at # "mark"
         /\ UNCHANGED <<clock, cycle, log, button, clicked>>
         /\ \/ click' = [click EXCEPT ![h] = Waiting]
            \/ \E i \in Unacked(h) : click' = [click EXCEPT ![h] = [@ EXCEPT !.at = "mark", !.row = i]]
BY NewestIsOne DEF Shape, Select, LockIsFree, alerts

LEMMA DeliverEffect ==
  ASSUME Shape, NEW h \in Handler, Deliver(h)
  PROVE  /\ click[h].at = "idle" /\ UNCHANGED <<clock, cycle, log, button>>
         /\ \E i \in button, u \in User :
              /\ i \in DOMAIN log /\ i \in Nat /\ log[i].severity \in Severity
              /\ click' = [click EXCEPT ![h] = [at |-> "select", message |-> i, user |-> u, row |-> 0]]
              /\ clicked' = [clicked EXCEPT ![log[i].severity] = @ + 1]
<1>1. \A i \in button : i \in DOMAIN log /\ i \in Nat /\ log[i].severity \in Severity
  BY LogFacts DEF Shape, LogOK, LogRow
<1> QED BY <1>1 DEF Deliver, alerts

LEMMA ReplaceEffect ==
  ASSUME Shape, NEW h \in Handler, Replace(h)
  PROVE  /\ click[h].at = "replace" /\ UNCHANGED <<clock, cycle, log, clicked>>
         /\ click' = [click EXCEPT ![h] = Waiting]
BY DEF Replace

LEMMA NoClick ==
  ASSUME Shape, [Next]_vars
  PROVE  \/ UNCHANGED <<click, clicked>> /\ ~(\E h \in Handler : Mark(h))
         \/ \E h \in Handler : Deliver(h) \/ Select(h) \/ Mark(h) \/ Replace(h)
BY Steps DEF Elsewhere, Evaluate, Route, Record, Send, slack

LEMMA MarkInductive == MarkInv /\ [Next]_vars => MarkInv'
<1> SUFFICES ASSUME MarkInv, [Next]_vars PROVE Alone' /\ Nobodys'
  BY ShapeInductive DEF MarkInv
<1>0. Shape
  BY DEF MarkInv
<1>1. CASE UNCHANGED <<click, clicked>> /\ ~(\E h \in Handler : Mark(h))
  <2>1. Alone'
    BY <1>1 DEF MarkInv, Alone
  <2>2. ASSUME NEW h \in Handler, click[h].at = "mark"
        PROVE  click[h].row \in DOMAIN log /\ click[h].message \in DOMAIN log
    BY <1>0, <2>2 DEF Shape, ClickOK
  <2>3. Nobodys'
    BY <1>0, <1>1, <2>2, RowsStay DEF MarkInv, Nobodys
  <2> QED BY <2>1, <2>3
<1>2. ASSUME NEW h \in Handler, Deliver(h) PROVE Alone' /\ Nobodys'
  <2>1. log' = log /\ \A g \in Handler : click'[g].at = "mark" => click'[g] = click[g]
    BY <1>0, <1>2, DeliverEffect DEF Shape, ClickOK
  <2> QED BY <2>1 DEF MarkInv, Alone, Nobodys
<1>3. ASSUME NEW h \in Handler, Replace(h) PROVE Alone' /\ Nobodys'
  <2>1. log' = log /\ \A g \in Handler : click'[g].at = "mark" => click'[g] = click[g]
    BY <1>0, <1>3, ReplaceEffect DEF Shape, ClickOK, Waiting
  <2> QED BY <2>1 DEF MarkInv, Alone, Nobodys
<1>4. ASSUME NEW h \in Handler, Mark(h) PROVE Alone' /\ Nobodys'
  <2>1. click[h].at = "mark" /\ click' = [click EXCEPT ![h].at = "replace"]
    BY <1>0, <1>4, MarkEffect
  <2>2. \A g \in Handler : click'[g].at # "mark"
    BY <1>0, <2>1 DEF MarkInv, Alone, Shape, ClickOK
  <2> QED BY <2>2 DEF Alone, Nobodys
<1>5. ASSUME NEW h \in Handler, Select(h) PROVE Alone' /\ Nobodys'
  <2>1. CASE click' = [click EXCEPT ![h] = Waiting]
    <3>1. \A g \in Handler : click'[g].at # "mark"
      BY <1>0, <1>5, <2>1, SelectEffect DEF Shape, ClickOK, Waiting
    <3> QED BY <3>1 DEF Alone, Nobodys
  <2>2. ASSUME NEW i \in Unacked(h), click' = [click EXCEPT ![h] = [@ EXCEPT !.at = "mark", !.row = i]]
        PROVE  Alone' /\ Nobodys'
    <3>1. /\ click'[h].row = i /\ click'[h].message = click[h].message
          /\ \A g \in Handler \ {h} : click'[g].at # "mark"
      BY <1>0, <1>5, <2>2, SelectEffect DEF Shape, ClickOK
    <3>2. log' = log
      BY <1>0, <1>5, SelectEffect
    <3>3. /\ log[i].severity = log[click[h].message].severity /\ log[i].by = Fired /\ log[i].acked = Nobody
      BY DEF Unacked
    <3> QED BY <3>1, <3>2, <3>3 DEF Alone, Nobodys
  <2> QED BY <1>0, <1>5, <2>1, <2>2, SelectEffect
<1> QED BY <1>0, <1>1, <1>2, <1>3, <1>4, <1>5, NoClick

LEMMA MarkInitially == Init => MarkInv
<1> SUFFICES ASSUME Init PROVE MarkInv
  OBVIOUS
<1>1. Shape
  BY ShapeInitially
<1>2. Alone /\ Nobodys
  BY DEF Init, Alone, Nobodys, Waiting
<1> QED BY <1>1, <1>2 DEF MarkInv

(* Who acknowledged an alert first stays on record, although handlers      *)
(* race for the newest row of a key: only a row that is nobody's is marked. *)
THEOREM AcknowledgementsAreFinal == Spec => AckIsFinal
<1>1. ASSUME MarkInv, [Next]_vars, NEW i \in DOMAIN log, log[i].acked # Nobody
      PROVE  log'[i].acked = log[i].acked
  <2>1. ASSUME NEW h \in Handler, Mark(h) PROVE i # click[h].row
    BY <1>1, <2>1 DEF MarkInv, Nobodys, Mark
  <2>2. Shape
    BY <1>1 DEF MarkInv
  <2> QED BY <1>1, <2>1, <2>2, RowsStay
<1>2. MarkInv /\ [Next]_vars => [\A i \in DOMAIN log : log[i].acked # Nobody => log'[i].acked = log[i].acked]_vars
  BY <1>1
<1> QED BY <1>2, MarkInitially, MarkInductive, PTL DEF Spec, AckIsFinal

-----------------------------------------------------------------------------
(* While time passes between a decision to fire and its record, the alerts *)
(* on record only get older.                                               *)
Cold ==
  cycle.at = "record" /\ cycle.by = Fired =>
    \A i \in DOMAIN log : log[i].by = Fired /\ log[i].severity = cycle.severity
                            => clock - log[i].at > DedupWindow

LEMMA SpacedInductive ==
  ASSUME Shape, BurnAlertsAreSpaced, Cold, [Next]_vars
  PROVE  BurnAlertsAreSpaced' /\ Cold'
<1>0. clock \in Nat /\ DedupWindow \in Nat /\ \A i \in DOMAIN log : log[i] \in LogRow /\ i \in Nat
  BY LogFacts, HistoryAssumption DEF Shape, LogOK
<1>1. CASE UNCHANGED <<log, clock, cycle>>
  BY <1>1 DEF BurnAlertsAreSpaced, Cold
<1>2. CASE Elsewhere
  <2>1. clock' \in Nat /\ clock <= clock'
    BY <1>0, <1>2 DEF Elsewhere
  <2>2. \A i \in DOMAIN log : log[i].at \in Nat
    BY <1>0 DEF LogRow
  <2>3. \A i \in DOMAIN log : clock - log[i].at > DedupWindow => clock' - log[i].at > DedupWindow
    BY <1>0, <2>1, <2>2
  <2> QED BY <1>2, <2>3 DEF Elsewhere, BurnAlertsAreSpaced, Cold
<1>3. CASE Evaluate \/ Send
  <2>1. log' = log /\ cycle'.at # "record"
    <3>1. CASE Evaluate
      BY <3>1 DEF Evaluate, Resting, alerts
    <3>2. CASE Send
      BY <3>2, OnwardOK DEF Send, Shape
    <3> QED BY <1>3, <3>1, <3>2
  <2> QED BY <2>1 DEF BurnAlertsAreSpaced, Cold
<1>4. CASE Route
  <2>1. /\ log' = log /\ clock' = clock
        /\ cycle'.severity = MostUrgent(cycle.todo) /\ cycle'.by = Routed(MostUrgent(cycle.todo))
    BY <1>4 DEF Route, alerts, Shape, CycleOK
  <2>2. cycle'.by = Fired => ~RecentlyAlerted(cycle'.severity)
    BY <2>1 DEF Routed, Fired
  <2>3. \A i \in DOMAIN log : log[i].at \in Nat
    BY <1>0 DEF LogRow
  <2>4. Cold'
    BY <1>0, <2>1, <2>2, <2>3 DEF Cold, RecentlyAlerted
  <2> QED BY <2>1, <2>4 DEF BurnAlertsAreSpaced
<1>5. CASE Record
  <2> DEFINE r == [severity |-> cycle.severity, by |-> cycle.by, at |-> clock, acked |-> Nobody]
             n == Len(log) + 1
  <2>1. cycle.at = "record" /\ cycle'.at # "record"
    BY <1>5 DEF Record, Onward, Resting, Shape, CycleOK
  <2>2. /\ DOMAIN log' = DOMAIN log \cup {n} /\ log'[n] = r /\ \A i \in DOMAIN log : log'[i] = log[i]
        /\ Len(log) \in Nat /\ DOMAIN log = 1..Len(log)
    <3>1. LogOK
      BY DEF Shape
    <3> QED BY <1>5, <3>1, RecordEffect, AppendRow, LogFacts
  <2>3. Cold'
    BY <2>1 DEF Cold
  <2>4. ASSUME NEW i \in DOMAIN log', NEW j \in DOMAIN log', i < j, log'[i].by = Fired, log'[j].by = Fired,
               log'[i].severity = log'[j].severity
        PROVE  log'[j].at - log'[i].at > DedupWindow
    <3>1. i \in DOMAIN log
      BY <2>2, <2>4
    <3>2. CASE j = n
      BY <2>1, <2>2, <2>4, <3>1, <3>2 DEF Cold
    <3>3. CASE j \in DOMAIN log
      BY <2>2, <2>4, <3>1, <3>3 DEF BurnAlertsAreSpaced
    <3> QED BY <2>2, <3>2, <3>3
  <2> QED BY <2>3, <2>4 DEF BurnAlertsAreSpaced
<1>6. ASSUME NEW h \in Handler, Mark(h) PROVE BurnAlertsAreSpaced' /\ Cold'
  <2>1. clock' = clock /\ cycle' = cycle
    BY <1>6, MarkEffect
  <2>2. DOMAIN log' = DOMAIN log
    <3>1. LogOK
      BY DEF Shape
    <3> QED BY <1>6, <3>1, MarkEffect, MarkRow
  <2> QED BY <2>1, <2>2, RowsStay DEF BurnAlertsAreSpaced, Cold
<1>7. UNCHANGED <<log, clock, cycle>> \/ Elsewhere \/ Evaluate \/ Send \/ Route \/ Record \/ \E h \in Handler : Mark(h)
  BY Steps DEF Deliver, Select, Replace, alerts
<1> QED BY <1>1, <1>2, <1>3, <1>4, <1>5, <1>6, <1>7

(* Two burn-rate alerts of one severity are never within the dedup window. *)
THEOREM BurnRatesAreSpaced == Spec => []BurnAlertsAreSpaced
<1> DEFINE Inv == Shape /\ BurnAlertsAreSpaced /\ Cold
<1>1. Init => Inv
  <2>1. Init => DOMAIN log = {}
    BY EmptySeq DEF Init
  <2> QED BY <2>1, ShapeInitially DEF Init, BurnAlertsAreSpaced, Cold
<1>2. Inv /\ [Next]_vars => Inv'
  BY ShapeInductive, SpacedInductive
<1>3. Inv => BurnAlertsAreSpaced
  OBVIOUS
<1> QED BY <1>1, <1>2, <1>3, PTL DEF Spec

-----------------------------------------------------------------------------
(* Clicks, counted: an alert that is acknowledged used one up, a handler   *)
(* that has not marked a row yet has one in hand.                          *)
Acked(s)  == {i \in DOMAIN log : log[i].severity = s /\ log[i].acked # Nobody}
InHand(s) == {h \in Handler : click[h].at \in {"select", "mark"} /\ log[click[h].message].severity = s}

Earned ==
  \A s \in Severity :
    /\ Cardinality(Acked(s)) + Cardinality(InHand(s)) <= clicked[s]
    /\ \A i \in Acked(s) : log[i].by = Fired

ClickInv == MarkInv /\ Earned /\ ReplacedMeansAcked

LEMMA CountsAreFinite ==
  ASSUME Shape, NEW s
  PROVE  /\ IsFiniteSet(Acked(s)) /\ Cardinality(Acked(s)) \in Nat
         /\ IsFiniteSet(InHand(s)) /\ Cardinality(InHand(s)) \in Nat
<1>1. Len(log) \in Nat /\ DOMAIN log = 1..Len(log)
  BY LogFacts DEF Shape
<1>2. IsFiniteSet(1..Len(log))
  BY <1>1, FS_Interval
<1>3. Acked(s) \subseteq 1..Len(log)
  BY <1>1 DEF Acked
<1>4. IsFiniteSet(Acked(s))
  BY <1>2, <1>3, FS_Subset
<1>5. InHand(s) \subseteq Handler
  BY DEF InHand
<1>6. IsFiniteSet(InHand(s))
  BY <1>5, HistoryAssumption, FS_Subset
<1> QED BY <1>4, <1>6, FS_CardinalityType

LEMMA OneMore ==
  ASSUME NEW S, IsFiniteSet(S), NEW x, x \notin S
  PROVE  IsFiniteSet(S \cup {x}) /\ Cardinality(S) \in Nat /\ Cardinality(S \cup {x}) = Cardinality(S) + 1
BY FS_AddElement, FS_CardinalityType

LEMMA OneLess ==
  ASSUME NEW S, IsFiniteSet(S), NEW x
  PROVE  /\ Cardinality(S \ {x}) \in Nat /\ Cardinality(S) \in Nat
         /\ x \in S => Cardinality(S \ {x}) = Cardinality(S) - 1
         /\ x \notin S => Cardinality(S \ {x}) = Cardinality(S)
<1>1. IsFiniteSet(S \ {x}) /\ (x \in S => Cardinality(S \ {x}) = Cardinality(S) - 1)
  BY FS_RemoveElement
<1>2. x \notin S => S \ {x} = S
  OBVIOUS
<1> QED BY <1>1, <1>2, FS_CardinalityType

(* Steps that are no click's keep the counts.                              *)
LEMMA CountsStay ==
  ASSUME Shape, [Next]_vars, UNCHANGED <<click, clicked>>, ~(\E h \in Handler : Mark(h)), NEW s \in Severity
  PROVE  Acked(s)' = Acked(s) /\ InHand(s)' = InHand(s)
<1>1. \A i \in DOMAIN log : i \in DOMAIN log' /\ log'[i].severity = log[i].severity /\ log'[i].acked = log[i].acked
  BY RowsStay
<1>2. \A i \in DOMAIN log' : i \in DOMAIN log \/ log'[i].acked = Nobody
  <2>1. CASE UNCHANGED log
    BY <2>1
  <2>2. CASE Record
    <3>1. LogOK
      BY DEF Shape
    <3> QED BY <2>2, <3>1, RecordEffect, AppendRow
  <2> QED BY <2>1, <2>2, Steps DEF Elsewhere, Evaluate, Route, Send, Deliver, Select, Replace, alerts
<1>3. \A h \in Handler : click[h].at \in {"select", "mark"} => click[h].message \in DOMAIN log
  BY DEF Shape, ClickOK
<1>4. Acked(s)' = Acked(s)
  <2>1. \A i \in Acked(s) : i \in Acked(s)'
    BY <1>1 DEF Acked
  <2>2. \A i \in Acked(s)' : i \in Acked(s)
    BY <1>1, <1>2 DEF Acked
  <2> QED BY <2>1, <2>2
<1>5. \A h \in Handler : h \in InHand(s)' <=> h \in InHand(s)
  BY <1>1, <1>3 DEF InHand
<1>6. InHand(s)' \subseteq Handler /\ InHand(s) \subseteq Handler
  BY DEF InHand
<1>7. InHand(s)' = InHand(s)
  BY <1>5, <1>6
<1> QED BY <1>4, <1>7

LEMMA EarnedInductive ==
  ASSUME MarkInv, Earned, [Next]_vars
  PROVE  Earned'
<1>0. Shape
  BY DEF MarkInv
<1> SUFFICES ASSUME NEW s \in Severity
             PROVE  /\ Cardinality(Acked(s)') + Cardinality(InHand(s)') <= clicked'[s]
                    /\ \A i \in Acked(s)' : log'[i].by = Fired
  BY DEF Earned
<1>a. /\ Cardinality(Acked(s)) + Cardinality(InHand(s)) <= clicked[s]
      /\ \A i \in Acked(s) : log[i].by = Fired
  BY DEF Earned
<1>b. /\ IsFiniteSet(Acked(s)) /\ Cardinality(Acked(s)) \in Nat
      /\ IsFiniteSet(InHand(s)) /\ Cardinality(InHand(s)) \in Nat /\ clicked[s] \in Nat
  BY <1>0, CountsAreFinite DEF Shape, ClickOK
<1>c. /\ InHand(s) \subseteq Handler /\ InHand(s)' \subseteq Handler
      /\ Acked(s) \subseteq DOMAIN log /\ Acked(s)' \subseteq DOMAIN log'
  BY DEF InHand, Acked
<1>1. CASE UNCHANGED <<click, clicked>> /\ ~(\E h \in Handler : Mark(h))
  <2>1. Acked(s)' = Acked(s) /\ InHand(s)' = InHand(s)
    BY <1>0, <1>1, CountsStay
  <2>2. \A i \in Acked(s) : log'[i].by = log[i].by
    BY <1>0, <1>c, RowsStay
  <2> QED BY <1>1, <1>a, <2>1, <2>2
<1>2. ASSUME NEW h \in Handler, Deliver(h)
      PROVE  /\ Cardinality(Acked(s)') + Cardinality(InHand(s)') <= clicked'[s]
             /\ \A i \in Acked(s)' : log'[i].by = Fired
  <2>1. PICK i \in button, u \in User :
          /\ i \in DOMAIN log /\ log[i].severity \in Severity
          /\ click' = [click EXCEPT ![h] = [at |-> "select", message |-> i, user |-> u, row |-> 0]]
          /\ clicked' = [clicked EXCEPT ![log[i].severity] = @ + 1]
    BY <1>0, <1>2, DeliverEffect
  <2>2. log' = log /\ click[h].at = "idle"
    BY <1>0, <1>2, DeliverEffect
  <2>3. Acked(s)' = Acked(s) /\ h \notin InHand(s)
    BY <2>2 DEF Acked, InHand
  <2>4. /\ click'[h].at = "select" /\ click'[h].message = i
        /\ \A g \in Handler \ {h} : click'[g] = click[g]
    BY <1>0, <2>1 DEF Shape, ClickOK
  <2>5. CASE log[i].severity = s
    <3>1. \A g \in Handler : g \in InHand(s)' <=> g \in InHand(s) \/ g = h
      BY <2>2, <2>4, <2>5 DEF InHand
    <3>2. InHand(s)' = InHand(s) \cup {h}
      BY <1>c, <3>1
    <3>3. Cardinality(InHand(s)') = Cardinality(InHand(s)) + 1
      BY <1>b, <2>3, <3>2, OneMore
    <3>4. clicked'[s] = clicked[s] + 1
      BY <1>0, <2>1, <2>5 DEF Shape, ClickOK
    <3> QED BY <1>a, <1>b, <2>2, <2>3, <3>3, <3>4
  <2>6. CASE log[i].severity # s
    <3>1. \A g \in Handler : g \in InHand(s)' <=> g \in InHand(s)
      BY <2>2, <2>3, <2>4, <2>6 DEF InHand
    <3>2. InHand(s)' = InHand(s)
      BY <1>c, <3>1
    <3>3. clicked'[s] = clicked[s]
      BY <1>0, <2>1, <2>6 DEF Shape, ClickOK
    <3> QED BY <1>a, <2>2, <2>3, <3>2, <3>3
  <2> QED BY <2>5, <2>6
<1>3. ASSUME NEW h \in Handler, Select(h)
      PROVE  /\ Cardinality(Acked(s)') + Cardinality(InHand(s)') <= clicked'[s]
             /\ \A i \in Acked(s)' : log'[i].by = Fired
  <2>1. log' = log /\ clicked' = clicked /\ click[h].at = "select"
    BY <1>0, <1>3, SelectEffect
  <2>2. Acked(s)' = Acked(s)
    BY <2>1 DEF Acked
  <2>3. CASE click' = [click EXCEPT ![h] = Waiting]
    <3>1. click'[h].at = "idle" /\ \A g \in Handler \ {h} : click'[g] = click[g]
      BY <1>0, <2>3 DEF Shape, ClickOK, Waiting
    <3>2. \A g \in Handler : g \in InHand(s)' <=> g \in InHand(s) /\ g # h
      BY <2>1, <3>1 DEF InHand
    <3>3. InHand(s)' = InHand(s) \ {h}
      BY <1>c, <3>2
    <3>4. Cardinality(InHand(s)') \in Nat /\ Cardinality(InHand(s)') <= Cardinality(InHand(s))
      BY <1>b, <3>3, OneLess
    <3> QED BY <1>a, <1>b, <2>1, <2>2, <3>4
  <2>4. ASSUME NEW i \in Unacked(h), click' = [click EXCEPT ![h] = [@ EXCEPT !.at = "mark", !.row = i]]
        PROVE  InHand(s)' = InHand(s)
    <3>1. /\ click'[h].at = "mark" /\ click'[h].message = click[h].message
          /\ \A g \in Handler \ {h} : click'[g] = click[g]
      BY <1>0, <2>4 DEF Shape, ClickOK
    <3>2. \A g \in Handler : g \in InHand(s)' <=> g \in InHand(s)
      BY <2>1, <3>1 DEF InHand
    <3> QED BY <1>c, <3>2
  <2>5. CASE \E i \in Unacked(h) : click' = [click EXCEPT ![h] = [@ EXCEPT !.at = "mark", !.row = i]]
    BY <1>a, <2>1, <2>2, <2>4, <2>5
  <2> QED BY <1>0, <1>3, <2>3, <2>5, SelectEffect
<1>4. ASSUME NEW h \in Handler, Mark(h)
      PROVE  /\ Cardinality(Acked(s)') + Cardinality(InHand(s)') <= clicked'[s]
             /\ \A i \in Acked(s)' : log'[i].by = Fired
  <2>1. PICK r \in DOMAIN log : r = click[h].row
    BY <1>0, <1>4, MarkEffect
  <2>2. /\ clicked' = clicked /\ click[h].at = "mark" /\ click[h].user \in User /\ click[h].user # Nobody
        /\ log' = [log EXCEPT ![r].acked = click[h].user] /\ click' = [click EXCEPT ![h].at = "replace"]
    BY <1>0, <1>4, <2>1, MarkEffect, HistoryAssumption
  <2>3. log[r].acked = Nobody /\ log[r].by = Fired /\ log[r].severity = log[click[h].message].severity
    BY <2>1, <2>2 DEF MarkInv, Nobodys
  <2>4. /\ DOMAIN log' = DOMAIN log /\ \A i \in DOMAIN log : i # r => log'[i] = log[i]
        /\ log'[r].acked = click[h].user /\ log'[r].severity = log[r].severity /\ log'[r].by = log[r].by
    <3>1. LogOK
      BY <1>0 DEF Shape
    <3> QED BY <2>1, <2>2, <3>1, MarkRow
  <2>5. click'[h].at = "replace" /\ \A g \in Handler \ {h} : click'[g] = click[g]
    BY <1>0, <2>2 DEF Shape, ClickOK
  <2>6. \A i \in Acked(s)' : log'[i].by = Fired
    BY <1>a, <2>3, <2>4 DEF Acked
  <2>7. \A g \in Handler : click[g].at \in {"select", "mark"} => click[g].message \in DOMAIN log
    BY <1>0 DEF Shape, ClickOK
  <2>8. \A g \in Handler : g \in InHand(s)' <=> g \in InHand(s) /\ g # h
    BY <2>4, <2>5, <2>7 DEF InHand
  <2>9. InHand(s)' = InHand(s) \ {h}
    BY <1>c, <2>8
  <2>10. CASE log[r].severity = s
    <3>1. \A i \in DOMAIN log : i \in Acked(s)' <=> i \in Acked(s) \/ i = r
      BY <2>2, <2>4, <2>10 DEF Acked
    <3>2. Acked(s)' = Acked(s) \cup {r} /\ r \notin Acked(s)
      BY <1>c, <2>1, <2>3, <2>4, <3>1 DEF Acked
    <3>3. Cardinality(Acked(s)') = Cardinality(Acked(s)) + 1
      BY <1>b, <3>2, OneMore
    <3>4. h \in InHand(s)
      BY <2>2, <2>3, <2>10 DEF InHand
    <3>5. Cardinality(InHand(s)') = Cardinality(InHand(s)) - 1
      BY <1>b, <2>9, <3>4, OneLess
    <3> QED BY <1>a, <1>b, <2>2, <2>6, <3>3, <3>5
  <2>11. CASE log[r].severity # s
    <3>1. \A i \in DOMAIN log : i \in Acked(s)' <=> i \in Acked(s)
      BY <2>4, <2>11 DEF Acked
    <3>2. Acked(s)' = Acked(s)
      BY <1>c, <2>4, <3>1
    <3>3. Cardinality(InHand(s)') \in Nat /\ Cardinality(InHand(s)') <= Cardinality(InHand(s))
      BY <1>b, <2>9, OneLess
    <3> QED BY <1>a, <1>b, <2>2, <2>6, <3>2, <3>3
  <2> QED BY <2>10, <2>11
<1>5. ASSUME NEW h \in Handler, Replace(h)
      PROVE  /\ Cardinality(Acked(s)') + Cardinality(InHand(s)') <= clicked'[s]
             /\ \A i \in Acked(s)' : log'[i].by = Fired
  <2>1. log' = log /\ clicked' = clicked /\ click[h].at = "replace" /\ click' = [click EXCEPT ![h] = Waiting]
    BY <1>0, <1>5, ReplaceEffect
  <2>2. click'[h].at = "idle" /\ \A g \in Handler \ {h} : click'[g] = click[g]
    BY <1>0, <2>1 DEF Shape, ClickOK, Waiting
  <2>3. \A g \in Handler : g \in InHand(s)' <=> g \in InHand(s)
    BY <2>1, <2>2 DEF InHand
  <2>4. InHand(s)' = InHand(s) /\ Acked(s)' = Acked(s)
    BY <1>c, <2>1, <2>3 DEF Acked
  <2> QED BY <1>a, <2>1, <2>4
<1> QED BY <1>0, <1>1, <1>2, <1>3, <1>4, <1>5, NoClick

LEMMA ReplacedInductive ==
  ASSUME MarkInv, ReplacedMeansAcked, [Next]_vars
  PROVE  ReplacedMeansAcked'
<1>0. Shape
  BY DEF MarkInv
<1>1. ASSUME NEW h \in Handler, click[h].at = "replace", click'[h] = click[h]
      PROVE  \E i \in DOMAIN log' : /\ log'[i].severity = log'[click'[h].message].severity
                                    /\ log'[i].acked = click'[h].user
  <2>1. PICK i \in DOMAIN log : /\ log[i].severity = log[click[h].message].severity
                                /\ log[i].acked = click[h].user
    BY <1>1 DEF ReplacedMeansAcked
  <2>2. click[h].message \in DOMAIN log /\ click[h].user # Nobody
    BY <1>0, <1>1, HistoryAssumption DEF Shape, ClickOK
  <2>3. \A g \in Handler : Mark(g) => i # click[g].row
    BY <2>1, <2>2 DEF MarkInv, Nobodys, Mark
  <2>4. i \in DOMAIN log' /\ log'[i].severity = log[i].severity /\ log'[i].acked = log[i].acked
    BY <1>0, <2>3, RowsStay
  <2>5. log'[click[h].message].severity = log[click[h].message].severity
    BY <1>0, <2>2, RowsStay
  <2> QED BY <1>1, <2>1, <2>4, <2>5
<1>2. ASSUME NEW h \in Handler, Mark(h)
      PROVE  \E i \in DOMAIN log' : /\ log'[i].severity = log'[click'[h].message].severity
                                    /\ log'[i].acked = click'[h].user
  <2>1. PICK r \in DOMAIN log : r = click[h].row
    BY <1>0, <1>2, MarkEffect
  <2>2. /\ click[h].at = "mark" /\ click[h].user \in User
        /\ log' = [log EXCEPT ![r].acked = click[h].user] /\ click' = [click EXCEPT ![h].at = "replace"]
    BY <1>0, <1>2, <2>1, MarkEffect
  <2>3. log[r].severity = log[click[h].message].severity /\ click[h].message \in DOMAIN log
    BY <1>0, <2>1, <2>2 DEF MarkInv, Nobodys, Shape, ClickOK
  <2>4. r \in DOMAIN log' /\ log'[r].acked = click[h].user
    <3>1. LogOK
      BY <1>0 DEF Shape
    <3> QED BY <2>1, <2>2, <3>1, MarkRow
  <2>5. log'[r].severity = log[r].severity /\ log'[click[h].message].severity = log[click[h].message].severity
    BY <1>0, <2>1, <2>3, RowsStay
  <2>6. click'[h].message = click[h].message /\ click'[h].user = click[h].user
    BY <1>0, <2>2 DEF Shape, ClickOK
  <2> QED BY <2>3, <2>4, <2>5, <2>6
<1>3. ASSUME NEW h \in Handler, click'[h].at = "replace"
      PROVE  (click[h].at = "replace" /\ click'[h] = click[h]) \/ Mark(h)
  <2>1. CASE UNCHANGED click
    BY <1>3, <2>1
  <2>2. ASSUME NEW g \in Handler, Deliver(g) PROVE click'[h] = click[h]
    BY <1>0, <1>3, <2>2, DeliverEffect DEF Shape, ClickOK
  <2>3. ASSUME NEW g \in Handler, Select(g) PROVE click'[h] = click[h]
    <3>1. CASE click' = [click EXCEPT ![g] = Waiting]
      BY <1>0, <1>3, <3>1 DEF Shape, ClickOK, Waiting
    <3>2. ASSUME NEW i \in Unacked(g), click' = [click EXCEPT ![g] = [@ EXCEPT !.at = "mark", !.row = i]]
          PROVE  click'[h] = click[h]
      BY <1>0, <1>3, <3>2 DEF Shape, ClickOK
    <3> QED BY <1>0, <2>3, <3>1, <3>2, SelectEffect
  <2>4. ASSUME NEW g \in Handler, Replace(g) PROVE click'[h] = click[h]
    BY <1>0, <1>3, <2>4, ReplaceEffect DEF Shape, ClickOK, Waiting
  <2>5. ASSUME NEW g \in Handler, Mark(g), g # h PROVE click'[h] = click[h]
    <3>1. click' = [click EXCEPT ![g].at = "replace"]
      BY <1>0, <2>5, MarkEffect
    <3> QED BY <1>0, <2>5, <3>1 DEF Shape, ClickOK
  <2> QED BY <1>0, <1>3, <2>1, <2>2, <2>3, <2>4, <2>5, NoClick
<1> QED BY <1>1, <1>2, <1>3 DEF ReplacedMeansAcked

(* No more alerts are acknowledged than there were clicks on their key,    *)
(* none that was suppressed, and no button goes without a row on record.   *)
THEOREM AcknowledgementsAreEarned == Spec => []AcksAreEarned
<1>1. Init => ClickInv
  <2> SUFFICES ASSUME Init PROVE ClickInv
    OBVIOUS
  <2>1. DOMAIN log = {}
    BY EmptySeq DEF Init
  <2>2. \A s : Acked(s) = {} /\ InHand(s) = {}
    BY <2>1 DEF Init, Acked, InHand, Waiting
  <2>3. Earned
    <3>1. Cardinality({}) = 0
      BY FS_EmptySet
    <3>2. \A s \in Severity : Acked(s) = {} /\ InHand(s) = {} /\ clicked[s] = 0
      BY <2>2 DEF Init
    <3> QED BY <3>1, <3>2 DEF Earned
  <2>4. ReplacedMeansAcked
    BY DEF Init, ReplacedMeansAcked, Waiting
  <2> QED BY <2>3, <2>4, MarkInitially DEF ClickInv
<1>2. ClickInv /\ [Next]_vars => ClickInv'
  BY MarkInductive, EarnedInductive, ReplacedInductive DEF ClickInv
<1>3. ClickInv => AcksAreEarned
  <2> SUFFICES ASSUME ClickInv, NEW s \in Severity
               PROVE  Cardinality(Acked(s)) <= clicked[s] /\ \A i \in Acked(s) : log[i].by = Fired
    BY DEF ClickInv, AcksAreEarned, AcksAreClicked, Acked
  <2>1. Cardinality(Acked(s)) \in Nat /\ Cardinality(InHand(s)) \in Nat /\ clicked[s] \in Nat
    BY CountsAreFinite DEF ClickInv, MarkInv, Shape, ClickOK
  <2> QED BY <2>1 DEF ClickInv, Earned
<1> QED BY <1>1, <1>2, <1>3, PTL DEF Spec

-----------------------------------------------------------------------------
(* The handlers implement the acknowledgement in one step.                 *)

(* A button is only on a message that was fired; and no alert older than   *)
(* the message that was clicked is passed over, although rows are appended *)
(* between the SELECT and the UPDATE.                                      *)
Posted ==
  /\ \A i \in button : log[i].by = Fired
  /\ cycle.at = "send" => log[Len(log)].by = Fired
Latest ==
  \A h \in Handler : click[h].at = "mark" =>
    \A j \in Unacked(h) : j > click[h].row => j > click[h].message
PromiseInv == MarkInv /\ Posted /\ Latest

LEMMA PostedInductive ==
  ASSUME Shape, Posted, [Next]_vars
  PROVE  Posted'
<1>1. \A i \in DOMAIN log : i \in DOMAIN log' /\ log'[i].by = log[i].by
  BY RowsStay
<1>2. button \subseteq DOMAIN log /\ Len(log) \in Nat /\ (cycle.at = "send" => Len(log) \in DOMAIN log)
  BY LogFacts DEF Shape, LogOK, CycleOK
<1>3. CASE button' \subseteq button /\ cycle'.at # "send"
  BY <1>1, <1>2, <1>3 DEF Posted
<1>4. CASE button' \subseteq button /\ cycle' = cycle /\ Len(log') = Len(log)
  BY <1>1, <1>2, <1>4 DEF Posted
<1>5. CASE Record
  <2>1. button' = button /\ (cycle.by # Fired => cycle'.at # "send")
    BY <1>5, RecordEffect, OnwardOK DEF Shape
  <2>2. log'[Len(log')].by = cycle.by
    <3> DEFINE r == [severity |-> cycle.severity, by |-> cycle.by, at |-> clock, acked |-> Nobody]
    <3>1. r \in LogRow /\ log' = Append(log, r) /\ log \in Seq(LogRow)
      BY <1>5, RecordEffect DEF Shape, LogOK
    <3>2. Len(log') = Len(log) + 1 /\ log'[Len(log) + 1] = r
      <4> HIDE DEF r
      <4> QED BY <3>1, AppendProperties
    <3> QED BY <3>2
  <2> QED BY <1>1, <1>2, <2>1, <2>2 DEF Posted
<1>6. CASE Send
  <2>1. button' \subseteq button \cup {Len(log)} /\ cycle.at = "send" /\ log' = log
    BY <1>6 DEF Send
  <2>2. cycle'.at # "send"
    BY <1>6, OnwardOK DEF Send, Shape
  <2> QED BY <1>2, <2>1, <2>2 DEF Posted
<1>7. ASSUME NEW h \in Handler, Mark(h) PROVE Len(log') = Len(log) /\ button' = button /\ cycle' = cycle
  <2>1. PICK r \in DOMAIN log, u \in User : log' = [log EXCEPT ![r].acked = u]
    BY <1>7, MarkEffect
  <2>2. log' \in Seq(LogRow) /\ DOMAIN log' = DOMAIN log
    BY <2>1, MarkRow DEF Shape
  <2>3. Len(log') = Len(log)
    BY <2>2, LogFacts, LenProperties DEF Shape
  <2> QED BY <1>7, <2>3, MarkEffect
<1>8. ASSUME NEW h \in Handler, Deliver(h) \/ Select(h) \/ Replace(h)
      PROVE  button' \subseteq button /\ cycle' = cycle /\ log' = log
  BY <1>8 DEF Deliver, Select, Replace, alerts
<1>9. CASE Evaluate \/ Route
  BY <1>3, <1>9 DEF Evaluate, Route, Resting, alerts, Shape, CycleOK
<1>10. CASE Elsewhere
  BY <1>4, <1>10 DEF Elsewhere
<1> QED BY <1>4, <1>5, <1>6, <1>7, <1>8, <1>9, <1>10, Steps

LEMMA SelectTakes ==
  ASSUME Shape, NEW h \in Handler, Select(h), Unacked(h) # {}
  PROVE  \E i \in Unacked(h) :
           /\ \A j \in Unacked(h) : j <= i
           /\ click' = [click EXCEPT ![h] = [@ EXCEPT !.at = "mark", !.row = i]]
BY NewestIsOne DEF Shape, Select

(* A handler that has a row to mark keeps its place.                       *)
LEMMA MarkersStay ==
  ASSUME MarkInv, [Next]_vars, NEW g \in Handler, click'[g].at = "mark"
  PROVE  \/ click'[g] = click[g] /\ (UNCHANGED log \/ Record)
         \/ Select(g) /\ Unacked(g) # {} /\ UNCHANGED log
<1>0. Shape
  BY DEF MarkInv
<1>1. CASE UNCHANGED click /\ ~(\E h \in Handler : Mark(h))
  <2>1. UNCHANGED log \/ Record
    BY <1>1, Steps DEF Elsewhere, Evaluate, Route, Send, Deliver, Select, Replace, alerts
  <2> QED BY <1>1, <2>1
<1>2. ASSUME NEW h \in Handler, Deliver(h) PROVE click'[g] = click[g] /\ UNCHANGED log
  BY <1>0, <1>2, DeliverEffect DEF Shape, ClickOK
<1>3. ASSUME NEW h \in Handler, Replace(h) PROVE click'[g] = click[g] /\ UNCHANGED log
  BY <1>0, <1>3, ReplaceEffect DEF Shape, ClickOK, Waiting
<1>4. ASSUME NEW h \in Handler, Mark(h) PROVE FALSE
  <2>1. click[h].at = "mark" /\ click' = [click EXCEPT ![h].at = "replace"]
    BY <1>0, <1>4, MarkEffect
  <2> QED BY <1>0, <2>1 DEF MarkInv, Alone, Shape, ClickOK
<1>5. ASSUME NEW h \in Handler, Select(h)
      PROVE  \/ click'[g] = click[g] /\ UNCHANGED log
             \/ Select(g) /\ Unacked(g) # {} /\ UNCHANGED log
  <2>1. UNCHANGED log /\ (Unacked(h) = {} => click' = [click EXCEPT ![h] = Waiting])
    BY <1>0, <1>5 DEF Select, alerts
  <2>2. CASE g # h
    <3>1. click'[g] = click[g]
      BY <1>5, <2>2 DEF Select
    <3> QED BY <2>1, <3>1
  <2>3. CASE g = h
    BY <1>0, <1>5, <2>1, <2>3 DEF Shape, ClickOK, Waiting
  <2> QED BY <2>2, <2>3
<1> QED BY <1>0, <1>1, <1>2, <1>3, <1>4, <1>5, NoClick

LEMMA LatestInductive ==
  ASSUME MarkInv, Latest, [Next]_vars
  PROVE  Latest'
<1>0. Shape /\ Shape'
  BY ShapeInductive DEF MarkInv
<1> SUFFICES ASSUME NEW g \in Handler, click'[g].at = "mark", NEW j \in Unacked(g)'
             PROVE  j > click'[g].row => j > click'[g].message
  BY DEF Latest
<1>1. DOMAIN log = 1..Len(log) /\ Len(log) \in Nat
  BY <1>0, LogFacts DEF Shape
<1>2. j \in DOMAIN log' /\ log'[j].severity = log'[click'[g].message].severity
      /\ log'[j].by = Fired /\ log'[j].acked = Nobody
  BY DEF Unacked
<1>3. CASE Select(g) /\ Unacked(g) # {} /\ UNCHANGED log
  <2>1. PICK i \in Unacked(g) :
          /\ \A k \in Unacked(g) : k <= i
          /\ click' = [click EXCEPT ![g] = [@ EXCEPT !.at = "mark", !.row = i]]
    BY <1>0, <1>3, SelectTakes
  <2>2. click'[g].row = i /\ click'[g].message = click[g].message
    BY <1>0, <2>1 DEF Shape, ClickOK
  <2>3. j \in Unacked(g) /\ Unacked(g) \subseteq DOMAIN log
    BY <1>2, <1>3, <2>2 DEF Unacked
  <2> QED BY <1>1, <2>1, <2>2, <2>3
<1>4. CASE click'[g] = click[g] /\ UNCHANGED log
  <2>1. j \in Unacked(g)
    BY <1>2, <1>4 DEF Unacked
  <2> QED BY <1>4, <2>1 DEF Latest
<1>5. CASE click'[g] = click[g] /\ Record
  <2>1. DOMAIN log' = DOMAIN log \cup {Len(log) + 1} /\ \A i \in DOMAIN log : log'[i] = log[i]
    BY <1>0, <1>5, RecordEffect, AppendRow DEF Shape
  <2>2. click[g].message \in DOMAIN log
    BY <1>0, <1>5 DEF Shape, ClickOK
  <2>3. CASE j \in DOMAIN log
    <3>1. j \in Unacked(g)
      BY <1>2, <1>5, <2>1, <2>2, <2>3 DEF Unacked
    <3> QED BY <1>5, <3>1 DEF Latest
  <2>4. CASE j = Len(log) + 1
    BY <1>1, <1>5, <2>2, <2>4
  <2> QED BY <1>2, <2>1, <2>3, <2>4
<1> QED BY <1>3, <1>4, <1>5, MarkersStay

LEMMA PromiseInitially == Init => PromiseInv
<1> SUFFICES ASSUME Init PROVE Posted /\ Latest
  BY MarkInitially DEF PromiseInv
<1>1. button = {} /\ cycle.at = "idle" /\ \A h \in Handler : click[h].at = "idle"
  BY DEF Init, Resting, Waiting
<1> QED BY <1>1 DEF Posted, Latest

LEMMA PromiseInductive == PromiseInv /\ [Next]_vars => PromiseInv'
BY MarkInductive, PostedInductive, LatestInductive DEF PromiseInv, MarkInv

LEMMA AsAlertFacts ==
  ASSUME NEW r \in LogRow
  PROVE  /\ AsAlert(r) \in Promised!Alert /\ AsAlert(r).key = r.severity /\ AsAlert(r).by = r.acked
         /\ AsAlert(r).outcome = "fired" <=> r.by = Fired
BY DEF AsAlert, LogRow, Promised!Alert, Promised!Outcome

(* The alerts on record are a sequence as long as the log.                 *)
LEMMA RowsOnRecord ==
  ASSUME NEW l \in Seq(LogRow)
  PROVE  LET rec == [i \in DOMAIN l |-> AsAlert(l[i])]
         IN  rec \in Seq(Promised!Alert) /\ Len(rec) = Len(l) /\ DOMAIN rec = DOMAIN l
<1> DEFINE rec == [i \in DOMAIN l |-> AsAlert(l[i])]
<1>1. Len(l) \in Nat /\ DOMAIN l = 1..Len(l) /\ \A i \in DOMAIN l : l[i] \in LogRow
  BY LenProperties
<1>2. \A i \in DOMAIN l :
        AsAlert(l[i]) \in Promised!Alert
  BY <1>1, AsAlertFacts
<1>3. rec \in [1..Len(l) -> Promised!Alert] /\ DOMAIN rec = DOMAIN l
  BY <1>1, <1>2
<1> HIDE DEF rec
<1>4. rec \in Seq(Promised!Alert)
  BY <1>1, <1>3, SeqDef
<1>5. Len(rec) = Len(l)
  BY <1>1, <1>3, <1>4, LenProperties
<1> QED BY <1>3, <1>4, <1>5 DEF rec

LEMMA OnRecordFacts ==
  ASSUME Shape
  PROVE  /\ OnRecord \in Seq(Promised!Alert) /\ DOMAIN OnRecord = DOMAIN log
         /\ Len(OnRecord) = Len(log) /\ Len(log) \in Nat /\ DOMAIN log = 1..Len(log)
         /\ \A i \in DOMAIN log : /\ OnRecord[i] = AsAlert(log[i])
                                  /\ OnRecord[i].key = log[i].severity /\ OnRecord[i].by = log[i].acked
                                  /\ OnRecord[i].outcome = "fired" <=> log[i].by = Fired
<1>1. OnRecord \in Seq(Promised!Alert) /\ DOMAIN OnRecord = DOMAIN log /\ Len(OnRecord) = Len(log)
  BY RowsOnRecord DEF OnRecord, Shape, LogOK
<1>2. \A i \in DOMAIN log : log[i] \in LogRow /\ OnRecord[i] = AsAlert(log[i])
  BY LogFacts DEF OnRecord, Shape
<1> QED BY <1>1, <1>2, AsAlertFacts, LogFacts DEF Shape

(* A click whose SELECT or UPDATE is to come is the click in flight.       *)
LEMMA InFlightFacts ==
  ASSUME Shape, NEW h \in Handler
  PROVE  /\ click[h].at \in {"select", "mark"} =>
              /\ InFlight[h] = [message |-> click[h].message, user |-> click[h].user]
              /\ InFlight[h] # Promised!NoClick
         /\ click[h].at \notin {"select", "mark"} => InFlight[h] = Promised!NoClick
<1>1. click[h].at \in {"select", "mark"} => click[h].message # 0
  BY LogFacts DEF Shape, ClickOK
<1>2. InFlight[h] = AsClick(click[h])
  BY DEF InFlight
<1> QED BY <1>1, <1>2 DEF AsClick, Promised!NoClick

LEMMA OneClickMoves ==
  ASSUME Shape, NEW h \in Handler, NEW c, click' = [click EXCEPT ![h] = c]
  PROVE  InFlight' = [InFlight EXCEPT ![h] = AsClick(c)]
<1>1. click'[h] = c /\ \A g \in Handler : g # h => click'[g] = click[g]
  BY DEF Shape, ClickOK
<1>2. InFlight' = [g \in Handler |-> AsClick(click'[g])] /\ InFlight = [g \in Handler |-> AsClick(click[g])]
  BY DEF InFlight
<1> QED BY <1>1, <1>2

LEMMA OpenAre ==
  ASSUME Shape, NEW h \in Handler, click[h].at \in {"select", "mark"}
  PROVE  Promised!Open(OnRecord[Promised!Clicked(h)].key) = Unacked(h)
<1>1. click[h].message \in DOMAIN log
  BY DEF Shape, ClickOK
<1>2. Promised!Clicked(h) = click[h].message
  <2>1. InFlight[h] = [message |-> click[h].message, user |-> click[h].user]
    BY InFlightFacts
  <2> QED BY <2>1 DEF Promised!Clicked
<1>3. /\ DOMAIN OnRecord = DOMAIN log
      /\ \A i \in DOMAIN log : /\ OnRecord[i].key = log[i].severity /\ OnRecord[i].by = log[i].acked
                               /\ (OnRecord[i].outcome = "fired" <=> log[i].by = Fired)
  BY OnRecordFacts
<1> QED BY <1>1, <1>2, <1>3 DEF Promised!Open, Unacked

LEMMA RecordIsPut ==
  ASSUME Shape, Shape', Record
  PROVE  Promised!Put
<1>1. PICK r \in LogRow : log' = Append(log, r) /\ r.acked = Nobody
  BY RecordEffect
<1> DEFINE a == AsAlert(r)
<1>2. /\ a \in Promised!Alert
      /\ \E k \in Severity, o \in Promised!Outcome : a = [key |-> k, outcome |-> o, by |-> Nobody]
  BY <1>1, AsAlertFacts DEF LogRow, AsAlert, Promised!Outcome
<1>3. /\ DOMAIN OnRecord' = 1..(Len(log) + 1) /\ OnRecord'[Len(log) + 1] = a
      /\ \A i \in 1..Len(log) : OnRecord'[i] = OnRecord[i]
  <2>1. /\ DOMAIN log' = DOMAIN log \cup {Len(log) + 1} /\ log'[Len(log) + 1] = r
        /\ \A i \in DOMAIN log : log'[i] = log[i]
    BY <1>1, AppendRow DEF Shape
  <2>2. /\ OnRecord' = [i \in DOMAIN log' |-> AsAlert(log'[i])]
        /\ OnRecord = [i \in DOMAIN log |-> AsAlert(log[i])]
    BY DEF OnRecord
  <2>3. Len(log) \in Nat /\ DOMAIN log = 1..Len(log)
    BY LogFacts DEF Shape
  <2>4. DOMAIN log' = 1..(Len(log) + 1)
    BY <2>1, <2>3
  <2> QED BY <1>1, <2>1, <2>2, <2>3, <2>4
<1>4. /\ Append(OnRecord, a) \in Seq(Promised!Alert) /\ Len(Append(OnRecord, a)) = Len(log) + 1
      /\ Append(OnRecord, a)[Len(log) + 1] = a
      /\ \A i \in 1..Len(log) : Append(OnRecord, a)[i] = OnRecord[i]
  <2> HIDE DEF a
  <2> QED BY <1>2, OnRecordFacts, AppendProperties
<1>5. OnRecord' \in Seq(Promised!Alert) /\ Len(OnRecord') = Len(log) + 1
  <2>1. log' \in Seq(LogRow)
    BY DEF Shape, LogOK
  <2>2. OnRecord' \in Seq(Promised!Alert) /\ Len(OnRecord') = Len(log')
    BY <2>1, RowsOnRecord DEF OnRecord
  <2>3. Len(log') = Len(log) + 1
    BY <1>1, AppendProperties DEF Shape, LogOK
  <2> QED BY <2>2, <2>3
<1>6. OnRecord' = Append(OnRecord, a)
  <2> HIDE DEF a
  <2>1. \A i \in 1..Len(OnRecord') : OnRecord'[i] = Append(OnRecord, a)[i]
    BY <1>3, <1>4, <1>5, LogFacts DEF Shape
  <2> QED BY <1>4, <1>5, <2>1, SeqEqual
<1>7. InFlight' = InFlight
  BY RecordEffect DEF InFlight
<1> HIDE DEF a
<1> QED BY <1>2, <1>6, <1>7 DEF Promised!Put

LEMMA DeliverIsClick ==
  ASSUME PromiseInv, NEW h \in Handler, Deliver(h)
  PROVE  Promised!Click(h)
<1>0. Shape
  BY DEF PromiseInv, MarkInv
<1>1. PICK i \in button, u \in User :
        /\ i \in DOMAIN log /\ i \in Nat
        /\ click' = [click EXCEPT ![h] = [at |-> "select", message |-> i, user |-> u, row |-> 0]]
  BY <1>0, DeliverEffect
<1>2. InFlight[h] = Promised!NoClick /\ log' = log
  BY <1>0, DeliverEffect, InFlightFacts
<1>3. i \in DOMAIN OnRecord /\ OnRecord[i].outcome = "fired"
  BY <1>0, <1>1, OnRecordFacts DEF PromiseInv, Posted
<1>4. InFlight' = [InFlight EXCEPT ![h] = [message |-> i, user |-> u]]
  <2> DEFINE c == [at |-> "select", message |-> i, user |-> u, row |-> 0]
  <2>1. AsClick(c) = [message |-> i, user |-> u]
    BY DEF AsClick
  <2> HIDE DEF c
  <2>2. click' = [click EXCEPT ![h] = c]
    BY <1>1 DEF c
  <2> QED BY <1>0, <2>1, <2>2, OneClickMoves
<1>5. OnRecord' = OnRecord
  BY <1>2 DEF OnRecord
<1> QED BY <1>2, <1>3, <1>4, <1>5 DEF Promised!Click

LEMMA SelectMisses ==
  ASSUME Shape, NEW h \in Handler, Select(h)
  PROVE  UNCHANGED <<OnRecord, InFlight>> \/ Promised!Miss(h)
<1>1. click[h].at = "select" /\ log' = log
  BY DEF Select, alerts
<1>2. OnRecord' = OnRecord
  BY <1>1 DEF OnRecord
<1>3. CASE Unacked(h) = {}
  <2>1. click' = [click EXCEPT ![h] = Waiting]
    BY <1>3 DEF Select
  <2>2. AsClick(Waiting) = Promised!NoClick
    BY DEF AsClick, Waiting, Promised!NoClick
  <2>3. InFlight' = [InFlight EXCEPT ![h] = Promised!NoClick]
    BY <2>1, <2>2, OneClickMoves
  <2>4. InFlight[h] # Promised!NoClick /\ Promised!Open(OnRecord[Promised!Clicked(h)].key) = {}
    BY <1>1, <1>3, InFlightFacts, OpenAre
  <2> QED BY <1>2, <2>3, <2>4 DEF Promised!Miss
<1>4. CASE Unacked(h) # {}
  <2>1. PICK i \in Unacked(h) : click' = [click EXCEPT ![h] = [@ EXCEPT !.at = "mark", !.row = i]]
    BY <1>4, SelectTakes
  <2> DEFINE c == [click[h] EXCEPT !.at = "mark", !.row = i]
  <2>2. AsClick(c) = AsClick(click[h])
    BY <1>1 DEF AsClick, Shape, ClickOK
  <2> HIDE DEF c
  <2>3. InFlight' = InFlight
    <3>1. click' = [click EXCEPT ![h] = c]
      BY <2>1 DEF c
    <3>2. InFlight' = [InFlight EXCEPT ![h] = AsClick(click[h])]
      BY <2>2, <3>1, OneClickMoves
    <3> QED BY <3>2 DEF InFlight
  <2> QED BY <1>2, <2>3
<1> QED BY <1>3, <1>4

LEMMA MarkIsAcknowledge ==
  ASSUME PromiseInv, NEW h \in Handler, Mark(h)
  PROVE  Promised!Acknowledge(h)
<1>0. Shape
  BY DEF PromiseInv, MarkInv
<1>1. PICK r \in DOMAIN log, u \in User :
        /\ r = click[h].row /\ u = click[h].user /\ click[h].at = "mark"
        /\ log' = [log EXCEPT ![r].acked = u] /\ click' = [click EXCEPT ![h].at = "replace"]
  <2>1. /\ click[h].row \in DOMAIN log /\ click[h].user \in User /\ click[h].at = "mark"
        /\ log' = [log EXCEPT ![click[h].row].acked = click[h].user]
        /\ click' = [click EXCEPT ![h].at = "replace"]
    BY <1>0, MarkEffect
  <2> QED BY <2>1
<1>2. InFlight[h] # Promised!NoClick /\ InFlight[h] = [message |-> click[h].message, user |-> u]
  BY <1>0, <1>1, InFlightFacts
<1>3. r \in Unacked(h) /\ \A j \in Unacked(h) : j > r => j > click[h].message
  BY <1>1 DEF PromiseInv, MarkInv, Nobodys, Latest, Unacked
<1>4. Promised!Open(OnRecord[Promised!Clicked(h)].key) = Unacked(h) /\ Promised!Clicked(h) = click[h].message
  <2>1. Promised!Clicked(h) = click[h].message
    BY <1>2 DEF Promised!Clicked
  <2> QED BY <1>0, <1>1, <2>1, OpenAre
<1>5. OnRecord' = [OnRecord EXCEPT ![r].by = u]
  <2>1. /\ DOMAIN log' = DOMAIN log /\ \A i \in DOMAIN log : i # r => log'[i] = log[i]
        /\ log'[r].acked = u /\ log'[r].severity = log[r].severity /\ log'[r].by = log[r].by
    BY <1>0, <1>1, MarkRow DEF Shape
  <2>2. /\ OnRecord' = [i \in DOMAIN log' |-> AsAlert(log'[i])]
        /\ OnRecord = [i \in DOMAIN log |-> AsAlert(log[i])]
    BY DEF OnRecord
  <2>3. AsAlert(log'[r]) = [AsAlert(log[r]) EXCEPT !.by = u]
    BY <2>1 DEF AsAlert
  <2> QED BY <1>1, <2>1, <2>2, <2>3
<1>6. InFlight' = [InFlight EXCEPT ![h] = Promised!NoClick]
  <2> DEFINE c == [click[h] EXCEPT !.at = "replace"]
  <2>1. AsClick(c) = Promised!NoClick
    BY <1>0 DEF AsClick, Promised!NoClick, Shape, ClickOK
  <2> HIDE DEF c
  <2>2. click' = [click EXCEPT ![h] = c]
    BY <1>1 DEF c
  <2> QED BY <1>0, <2>1, <2>2, OneClickMoves
<1>7. InFlight[h].user = u
  BY <1>2
<1> QED BY <1>2, <1>3, <1>4, <1>5, <1>6, <1>7 DEF Promised!Acknowledge

LEMMA PromiseStep ==
  ASSUME PromiseInv, Shape', [Next]_vars
  PROVE  [Promised!AbstractNext]_(Promised!abstractVars)
<1>0. Shape
  BY DEF PromiseInv, MarkInv
<1>1. CASE UNCHANGED <<log, click>>
  <2>1. OnRecord' = OnRecord /\ InFlight' = InFlight
    BY <1>1 DEF OnRecord, InFlight
  <2> QED BY <2>1 DEF Promised!abstractVars
<1>2. CASE Record
  BY <1>0, <1>2, RecordIsPut DEF Promised!AbstractNext
<1>3. ASSUME NEW h \in Handler, Deliver(h) PROVE Promised!AbstractNext
  BY <1>3, DeliverIsClick DEF Promised!AbstractNext
<1>4. ASSUME NEW h \in Handler, Select(h)
      PROVE  Promised!AbstractNext \/ UNCHANGED Promised!abstractVars
  BY <1>0, <1>4, SelectMisses DEF Promised!AbstractNext, Promised!abstractVars
<1>5. ASSUME NEW h \in Handler, Mark(h) PROVE Promised!AbstractNext
  BY <1>5, MarkIsAcknowledge DEF Promised!AbstractNext
<1>6. ASSUME NEW h \in Handler, Replace(h) PROVE UNCHANGED Promised!abstractVars
  <2>1. click[h].at = "replace" /\ log' = log /\ click' = [click EXCEPT ![h] = Waiting]
    BY <1>0, <1>6, ReplaceEffect
  <2>2. AsClick(Waiting) = AsClick(click[h])
    BY <2>1 DEF AsClick, Waiting
  <2>3. OnRecord' = OnRecord
    BY <2>1 DEF OnRecord
  <2>4. InFlight' = InFlight
    <3>1. InFlight' = [InFlight EXCEPT ![h] = AsClick(click[h])]
      BY <1>0, <2>1, <2>2, OneClickMoves
    <3> QED BY <3>1 DEF InFlight
  <2> QED BY <2>3, <2>4 DEF Promised!abstractVars
<1>7. CASE Elsewhere \/ Evaluate \/ Route \/ Send
  BY <1>1, <1>7 DEF Elsewhere, Evaluate, Route, Send, alerts, slack
<1> QED BY <1>2, <1>3, <1>4, <1>5, <1>6, <1>7, Steps

(* A click has its effect in one step, on an alert of its key that was     *)
(* fired and was nobody's, in the name of who clicked, and never on one    *)
(* older than another that was open up to the message clicked: with the    *)
(* SELECT and the UPDATE apart, rows appended between them, handlers that  *)
(* race and Slack delivering twice, _update_ack still keeps that promise.  *)
THEOREM AcknowledgementIsAtomic == Spec => ImplementsAcknowledgement
<1>1. Init => Promised!AbstractInit
  <2> SUFFICES ASSUME Init PROVE Promised!AbstractInit
    OBVIOUS
  <2>1. OnRecord = <<>>
    <3>1. log = <<>>
      BY DEF Init
    <3>2. DOMAIN log = {}
      BY <3>1, EmptySeq
    <3>3. OnRecord \in Seq(Promised!Alert) /\ DOMAIN OnRecord = {}
      BY <3>2, ShapeInitially, OnRecordFacts
    <3> QED BY <3>3, LenProperties, EmptySeq
  <2>2. InFlight = [h \in Handler |-> Promised!NoClick]
    BY DEF Init, InFlight, AsClick, Waiting, Promised!NoClick
  <2> QED BY <2>1, <2>2 DEF Promised!AbstractInit
<1>2. PromiseInv /\ [Next]_vars => [Promised!AbstractNext]_(Promised!abstractVars)
  BY PromiseStep, PromiseInductive DEF PromiseInv, MarkInv
<1> QED BY <1>1, <1>2, PromiseInitially, PromiseInductive, PTL
        DEF Spec, ImplementsAcknowledgement, Promised!AbstractSpec

-----------------------------------------------------------------------------
(* The types of the whole state, and its bounds.                           *)

(* The rows that the cycle has still to record.                            *)
Owed == Cardinality(cycle.todo) + (IF cycle.at = "record" THEN 1 ELSE 0)

Bounded ==
  /\ bound \in Bounds /\ clock <= bound.clock
  /\ Len(log) + Owed <= bound.rows
  /\ clicked["fast"] + clicked["slow"] <= bound.clicks

(* Who is idle has nothing in hand, and nobody is ahead of the clock.      *)
Tidy ==
  /\ cycle.at = "idle" => cycle = Resting
  /\ cycle.now <= clock
  /\ \A h \in Handler : /\ click[h].at = "idle" => click[h].message = 0
                        /\ click[h].at \in {"idle", "select"} => click[h].row = 0

TypeInv == Shape /\ ReportInv /\ Bounded /\ Tidy

LEMMA Limits ==
  ASSUME bound \in Bounds
  PROVE  {bound.clock, bound.rows, bound.clicks} \subseteq Nat
BY HistoryAssumption

LEMMA TodoCounts ==
  ASSUME NEW T \in SUBSET Severity
  PROVE  /\ Cardinality(T) \in Nat /\ (T = {} => Cardinality(T) = 0)
         /\ \A s \in T : Cardinality(T \ {s}) = Cardinality(T) - 1
<1>1. IsFiniteSet(Severity)
  <2>1. IsFiniteSet({"fast"} \cup {"slow"})
    BY FS_Singleton, FS_Union
  <2>2. Severity = {"fast"} \cup {"slow"}
    BY DEF Severity
  <2> QED BY <2>1, <2>2
<1>2. IsFiniteSet(T)
  BY <1>1, FS_Subset
<1> QED BY <1>2, FS_EmptySet, FS_CardinalityType, FS_RemoveElement

LEMMA RowsInductive ==
  ASSUME Shape, bound \in Bounds, Len(log) + Owed <= bound.rows, [Next]_vars
  PROVE  Len(log') + Owed' <= bound.rows
<1>0. /\ CycleOK /\ LogOK /\ Len(log) \in Nat /\ bound.rows \in Nat
      /\ cycle.todo \in SUBSET Severity /\ Cardinality(cycle.todo) \in Nat
  <2>1. CycleOK /\ LogOK
    BY DEF Shape
  <2>2. cycle.todo \in SUBSET Severity
    BY <2>1 DEF CycleOK
  <2> QED BY <2>1, <2>2, LogFacts, Limits, TodoCounts
<1>1. CASE UNCHANGED <<log, cycle>>
  BY <1>1 DEF Owed
<1>2. CASE Evaluate
  <2>1. /\ log' = log /\ cycle'.at = "route" /\ cycle'.todo = Breaches(events, clock)
        /\ Len(log) + Cardinality(Breaches(events, clock)) <= bound.rows
    BY <1>2 DEF Evaluate, Resting, alerts
  <2>2. Cardinality(Breaches(events, clock)) \in Nat
    BY TodoCounts DEF Breaches, Severity
  <2> QED BY <1>0, <2>1, <2>2 DEF Owed
<1>3. CASE Route
  <2>1. /\ log' = log /\ cycle.at = "route" /\ cycle'.at = "record"
        /\ cycle'.todo = cycle.todo \ {MostUrgent(cycle.todo)}
    BY <1>0, <1>3 DEF Route, CycleOK, alerts
  <2>2. MostUrgent(cycle.todo) \in cycle.todo
    BY <1>0, <2>1 DEF CycleOK, MostUrgent, Severity
  <2>3. Cardinality(cycle'.todo) = Cardinality(cycle.todo) - 1
    BY <1>0, <2>1, <2>2, TodoCounts
  <2> QED BY <1>0, <2>1, <2>3 DEF Owed
<1>4. ASSUME cycle' = Onward \/ cycle' = [cycle EXCEPT !.at = "send"]
      PROVE  Owed' = Cardinality(cycle.todo)
  <2>1. (cycle' = Resting /\ cycle.todo = {}) \/ (cycle'.todo = cycle.todo /\ cycle'.at # "record")
    BY <1>0, <1>4 DEF Onward, CycleOK
  <2>2. CASE cycle' = Resting /\ cycle.todo = {}
    BY <1>0, <2>2, TodoCounts DEF Resting, Owed
  <2> QED BY <1>0, <2>1, <2>2 DEF Owed
<1>5. CASE Record
  <2>1. /\ cycle.at = "record" /\ (cycle' = Onward \/ cycle' = [cycle EXCEPT !.at = "send"])
        /\ log' = Append(log, [severity |-> cycle.severity, by |-> cycle.by, at |-> clock, acked |-> Nobody])
    BY <1>5 DEF Record
  <2>2. Len(log') = Len(log) + 1
    BY <1>0, <2>1, LenProperties DEF LogOK
  <2> QED BY <1>0, <1>4, <2>1, <2>2 DEF Owed
<1>6. CASE Send
  <2>1. cycle.at = "send" /\ cycle' = Onward /\ log' = log
    BY <1>6 DEF Send
  <2> QED BY <1>0, <1>4, <2>1 DEF Owed
<1>7. ASSUME NEW h \in Handler, Mark(h) PROVE Len(log') = Len(log) /\ cycle' = cycle
  <2>1. log' \in Seq(LogRow) /\ DOMAIN log' = DOMAIN log /\ cycle' = cycle
    BY <1>0, <1>7, MarkEffect, MarkRow
  <2>2. Len(log') = Len(log)
    BY <1>0, <2>1, LenProperties, LogFacts
  <2> QED BY <2>1, <2>2
<1>8. UNCHANGED <<log, cycle>> \/ Evaluate \/ Route \/ Record \/ Send \/ \E h \in Handler : Mark(h)
  BY Steps, SelectEffect, DeliverEffect, ReplaceEffect DEF Elsewhere
<1> QED BY <1>1, <1>2, <1>3, <1>5, <1>6, <1>7, <1>8 DEF Owed

LEMMA ClicksInductive ==
  ASSUME Shape, bound \in Bounds, clicked["fast"] + clicked["slow"] <= bound.clicks, [Next]_vars
  PROVE  clicked'["fast"] + clicked'["slow"] <= bound.clicks
<1>1. CASE UNCHANGED clicked
  BY <1>1
<1>2. ASSUME NEW h \in Handler, Deliver(h) PROVE clicked'["fast"] + clicked'["slow"] <= bound.clicks
  <2>1. PICK s \in Severity : clicked' = [clicked EXCEPT ![s] = @ + 1]
    BY <1>2, DeliverEffect
  <2>2. clicked["fast"] + clicked["slow"] < bound.clicks
    BY <1>2 DEF Deliver
  <2>3. clicked \in [Severity -> Nat] /\ bound.clicks \in Nat
    BY Limits DEF Shape, ClickOK
  <2> QED BY <2>1, <2>2, <2>3 DEF Severity
<1> QED BY <1>1, <1>2, NoClick, SelectEffect, MarkEffect, ReplaceEffect

LEMMA BoundedInductive == TypeInv /\ [Next]_vars => Bounded'
<1> SUFFICES ASSUME TypeInv, [Next]_vars PROVE Bounded'
  OBVIOUS
<1>0. Shape /\ Bounded /\ clock \in Nat /\ bound.clock \in Nat
  BY Limits DEF TypeInv, Shape, LogOK, Bounded
<1>1. bound' = bound /\ clock' <= bound.clock
  BY <1>0, Time DEF Bounded
<1> QED BY <1>0, <1>1, RowsInductive, ClicksInductive DEF Bounded

LEMMA TidyInductive == TypeInv /\ [Next]_vars => Tidy'
<1> SUFFICES ASSUME TypeInv, [Next]_vars PROVE Tidy'
  OBVIOUS
<1>0. Shape /\ Tidy /\ clock \in Nat /\ clock' \in Nat /\ clock <= clock' /\ cycle.now \in Nat
  BY Time DEF TypeInv, Shape, LogOK, CycleOK
<1>1. (cycle'.at = "idle" => cycle' = Resting) /\ cycle'.now <= clock'
  <2>1. CASE UNCHANGED cycle
    BY <1>0, <2>1 DEF Tidy
  <2>2. CASE Evaluate
    BY <1>0, <2>2 DEF Evaluate, Resting
  <2>3. CASE Route
    BY <1>0, <2>3 DEF Route, Shape, CycleOK, Tidy
  <2>4. ASSUME cycle' = Onward \/ cycle' = [cycle EXCEPT !.at = "send"]
        PROVE  (cycle'.at = "idle" => cycle' = Resting) /\ cycle'.now <= clock'
    <3>1. Resting.now = 0 /\ 0 <= clock'
      BY <1>0 DEF Resting
    <3>2. CASE cycle' = Resting
      BY <3>1, <3>2
    <3>3. CASE cycle' = [cycle EXCEPT !.at = "route"] \/ cycle' = [cycle EXCEPT !.at = "send"]
      <4>1. cycle'.now = cycle.now /\ cycle'.at # "idle"
        BY <1>0, <3>3 DEF Shape, CycleOK
      <4> QED BY <1>0, <4>1 DEF Tidy
    <3> QED BY <2>4, <3>2, <3>3 DEF Onward
  <2>5. CASE Record \/ Send
    BY <2>4, <2>5 DEF Record, Send
  <2> QED BY <1>0, <2>1, <2>2, <2>3, <2>5, Steps, DeliverEffect, SelectEffect, MarkEffect, ReplaceEffect DEF Elsewhere
<1>2. ASSUME NEW h \in Handler
      PROVE  /\ click'[h].at = "idle" => click'[h].message = 0
             /\ click'[h].at \in {"idle", "select"} => click'[h].row = 0
  <2>0. /\ click[h].at = "idle" => click[h].message = 0
        /\ click[h].at \in {"idle", "select"} => click[h].row = 0
    BY <1>0 DEF Tidy
  <2>1. CASE UNCHANGED click
    BY <2>0, <2>1
  <2>2. ASSUME NEW g \in Handler, Deliver(g)
        PROVE  click'[h] = click[h] \/ (click'[h].at = "select" /\ click'[h].row = 0)
    BY <1>0, <2>2, DeliverEffect DEF Shape, ClickOK
  <2>3. ASSUME NEW g \in Handler, click' = [click EXCEPT ![g] = Waiting]
        PROVE  click'[h] = click[h] \/ click'[h] = Waiting
    BY <1>0, <2>3 DEF Shape, ClickOK
  <2>4. ASSUME NEW g \in Handler, NEW i \in Unacked(g), click' = [click EXCEPT ![g] = [@ EXCEPT !.at = "mark", !.row = i]]
        PROVE  click'[h] = click[h] \/ click'[h].at = "mark"
    BY <1>0, <2>4 DEF Shape, ClickOK
  <2>5. ASSUME NEW g \in Handler, Mark(g) PROVE click'[h] = click[h] \/ click'[h].at = "replace"
    <3>1. click' = [click EXCEPT ![g].at = "replace"]
      BY <1>0, <2>5, MarkEffect
    <3> QED BY <1>0, <3>1 DEF Shape, ClickOK
  <2>6. click'[h] = click[h] \/ click'[h] = Waiting \/ click'[h].at \in {"mark", "replace"}
        \/ (click'[h].at = "select" /\ click'[h].row = 0)
    BY <1>0, <2>1, <2>2, <2>3, <2>4, <2>5, NoClick, SelectEffect, ReplaceEffect
  <2> QED BY <2>0, <2>6 DEF Waiting
<1> QED BY <1>1, <1>2 DEF Tidy

(* Every value of the state, at any bounds, is of its type: the events and *)
(* reports are of the past, the log never outgrows its bound, and what the *)
(* handlers hold are rows that exist.                                      *)
THEOREM HistoryHasTypes == Spec => []TypeOK
<1>1. Init => TypeInv
  <2> SUFFICES ASSUME Init PROVE TypeInv
    OBVIOUS
  <2>1. Shape /\ ReportInv
    BY ShapeInitially, ReportInitially
  <2>2. Bounded
    <3>1. Len(log) = 0 /\ Cardinality({}) = 0
      BY EmptySeq, FS_EmptySet DEF Init
    <3>2. clicked["fast"] = 0 /\ clicked["slow"] = 0 /\ Owed = 0
      BY <3>1 DEF Init, Severity, Owed, Resting
    <3>3. {bound.clock, bound.rows, bound.clicks} \subseteq Nat
      BY Limits DEF Init
    <3> QED BY <3>1, <3>2, <3>3 DEF Init, Bounded
  <2>3. Tidy
    BY DEF Init, Tidy, Resting, Waiting
  <2> QED BY <2>1, <2>2, <2>3 DEF TypeInv
<1>2. TypeInv /\ [Next]_vars => TypeInv'
  BY ReportInductive, ShapeInductive, BoundedInductive, TidyInductive DEF TypeInv
<1>3. TypeInv => TypeOK
  <2> SUFFICES ASSUME TypeInv PROVE TypeOK
    OBVIOUS
  <2>0. Shape /\ Typed /\ Bounded /\ Tidy /\ TasksOK /\ Timely /\ clock \in Nat /\ bound.clock \in Nat
    BY Limits DEF TypeInv, ReportInv, EventsInv, Bounded, Typed
  <2>1. /\ bound \in Bounds /\ clock \in 0..bound.clock /\ past \in [1..clock -> Status]
        /\ status \in Status /\ dates \in {"exact", "early", "disordered"}
    BY <2>0, LenProperties DEF Bounded, Typed
  <2>2. \A i \in DOMAIN events : events[i] \in [from : Status, to : Status, at : 0..clock]
    BY <2>0, EventFacts DEF EventRow, Typed
  <2>3. \A r \in reports : r.started <= r.resolved /\ r.resolved <= clock /\ r.peak \in Status
    BY <2>0 DEF Timely
  <2>4. \A w \in Writer : task[w].at \in {"idle", "recovered", "walk"} /\ task[w].resolved <= clock
    BY <2>0 DEF TasksOK
  <2>5. /\ cycle.at \in {"idle", "route", "record", "send"} /\ cycle.now <= clock
        /\ cycle.at = "idle" => cycle = Resting
    BY <2>0 DEF Shape, CycleOK, Tidy
  <2>6. \A i \in DOMAIN log : log[i] \in Row
    <3> SUFFICES ASSUME NEW i \in DOMAIN log PROVE log[i] \in Row
      OBVIOUS
    <3>1. log[i] \in LogRow /\ log[i].at <= clock
      BY <2>0, LogFacts DEF Shape, LogOK
    <3>2. log[i].at \in 0..bound.clock
      BY <2>0, <3>1 DEF LogRow, Bounded
    <3> QED BY <3>1, <3>2 DEF LogRow, Row
  <2>7. Len(log) <= bound.rows /\ button \subseteq DOMAIN log
    <3>1. Len(log) \in Nat /\ Cardinality(cycle.todo) \in Nat /\ bound.rows \in Nat
      BY <2>0, LogFacts, Limits, TodoCounts DEF Shape, CycleOK, Bounded
    <3> QED BY <2>0, <3>1 DEF Shape, LogOK, Bounded, Owed
  <2>8. \A h \in Handler : /\ click[h].at \in {"idle", "select", "mark", "replace"}
                            /\ click[h].message \in DOMAIN log \cup {0} /\ click[h].row \in DOMAIN log \cup {0}
    BY <2>0 DEF Shape, ClickOK, Tidy
  <2>9. clicked \in [Severity -> 0..bound.clicks]
    <3>1. clicked \in [Severity -> Nat] /\ bound.clicks \in Nat
      BY <2>0, Limits DEF Shape, ClickOK, Bounded
    <3>2. clicked["fast"] \in 0..bound.clicks /\ clicked["slow"] \in 0..bound.clicks
      BY <2>0, <3>1 DEF Bounded, Severity
    <3> QED BY <3>1, <3>2 DEF Severity
  <2> QED BY <2>1, <2>2, <2>3, <2>4, <2>5, <2>6, <2>7, <2>8, <2>9 DEF TypeOK
<1> QED BY <1>1, <1>2, <1>3, PTL DEF Spec
=============================================================================
