--------------------------- MODULE PanzerTime_proofs ---------------------------
(***************************************************************************)
(* What PanzerTime and PanzerReads guarantee for any signals, files,       *)
(* numbers of steps and times.                                             *)
(*                                                                         *)
(* The argument.  While an engine is open, the counter of a path is behind *)
(* nothing it wrote (Behind), so the next slices start after all others.   *)
(* The counter of a number, and of an array of numbers, is the end of a    *)
(* row, the last one (Reached), and so is what restoreTimeContext()        *)
(* computes from the rows: a kept and a rebuilt engine agree.              *)
(*                                                                         *)
(* The reader needs no invariant of its own.  The bisection is the sweep   *)
(* on all rows that note_row_order() lets through, whoever wrote them; and *)
(* the sweep finds the own row of a step because slices are disjoint and a *)
(* number weighs the steps it took (Weighed).                              *)
(*                                                                         *)
(* So the slices readers find are the steps rows were laid down for, and   *)
(* an operation adds rows behind those of their signal: SliceMap.          *)
(*                                                                         *)
(* Reads at a time (PanzerReads) need one more: the timebase has a time    *)
(* for every step of the file (Whole).  On such a timebase the searches    *)
(* of the standard library return indices next to the time asked for, the  *)
(* search for a slice moves from there to the nearest one on either side,  *)
(* and what is left is to compare times in the order of their indices.     *)
(***************************************************************************)
EXTENDS PanzerReads, SequenceTheorems, FiniteSetTheorems, WellFoundedInduction, TLAPS

-------------------------------------------------------------------------------
All == rows \o buf

\* The rows a counter is about.
Of(k, row) == row.path = k \/ (k = Aos /\ inAoS)

Types ==
  /\ file \in Files
  /\ rows \in Seq(Row) /\ buf \in Seq(Row)
  /\ mode \in {"NONE", "WRITE", "APPEND"} /\ op \in {"none", "put", "slice"}
  /\ counters \in [Keys -> Nat] /\ base \in [Keys -> Nat]
  /\ pos \in Nat /\ width \in Nat \ {0} /\ done \subseteq Signals

\* A row never weighs less than its steps, and a number weighs just them.
Weighed ==
  \A i \in 1..Len(All) :
    /\ All[i].path \in file.signals
    /\ All[i].steps <= All[i].units
    /\ All[i].path \notin Strings => All[i].steps = All[i].units

Sessions ==
  /\ op = "none" => buf = << >>
  /\ op # "none" => mode # "NONE"

Behind ==
  mode # "NONE" =>
    \A i \in 1..Len(All) :
      Counted(All[i].path) => All[i].time + All[i].steps <= counters[All[i].path]

\* c is the end of the last of the rows that count for k.
IsEnd(c, k, rs) ==
  /\ \A i \in 1..Len(rs) : Of(k, rs[i]) => EndOf(rs[i]) <= c
  /\ c = 0 \/ \E i \in 1..Len(rs) : Of(k, rs[i]) /\ EndOf(rs[i]) = c

Reached == mode # "NONE" => \A k \in Exact : IsEnd(counters[k], k, All)

IInv ==
  Types /\ Weighed /\ Sessions /\ Behind /\ Reached /\ SpansDisjoint

-------------------------------------------------------------------------------
(***************************************************************************)
(* The largest number of a bounded set, and what restoreTimeContext()      *)
(* computes.                                                               *)
(***************************************************************************)
Less == {ss \in Nat \X Nat : ss[1] < ss[2]}

LEMMA LeastNatural ==
  ASSUME NEW S \in SUBSET Nat, S # {}
  PROVE  \E m \in S : \A n \in S : m <= n
<1>1. IsWellFoundedOn(Less, Nat)
  BY NatLessThanWellFounded, Zenon DEF OpToRel, Less
<1>2. PICK x \in S : \A y \in S : ~(<<y, x>> \in Less)
  BY <1>1, WFMin
<1>3. \A y \in S : ~(y < x)
  BY <1>2 DEF Less
<1>. QED
  BY <1>3

LEMMA MaxOfBounded ==
  ASSUME NEW S \in SUBSET Nat, 0 \in S, NEW b \in Nat, \A n \in S : n <= b
  PROVE  Max(S) \in S /\ \A n \in S : n <= Max(S)
<1>. DEFINE U == {u \in Nat : \A n \in S : n <= u}
<1>1. PICK u \in U : \A v \in U : u <= v
  <2>1. U \in SUBSET Nat /\ b \in U
    OBVIOUS
  <2>. HIDE DEF U
  <2>. QED
    BY <2>1, LeastNatural
<1>2. u \in S
  <2>1. CASE u = 0
    BY <2>1
  <2>2. CASE u # 0
    <3>1. u - 1 \in Nat /\ u - 1 \notin U
      BY <1>1, <2>2
    <3>2. PICK n \in S : ~(n <= u - 1)
      BY <3>1
    <3>3. n = u
      BY <1>1, <3>2
    <3>. QED
      BY <3>3
  <2>. QED
    BY <2>1, <2>2
<1>3. \A n \in S : u >= n
  BY <1>1
<1>. HIDE DEF U
<1>4. Max(S) \in S /\ \A n \in S : Max(S) >= n
  BY <1>2, <1>3, Zenon DEF Max
<1>. QED
  BY <1>4

LEMMA EndIsNat ==
  ASSUME NEW rs \in Seq(Row)
  PROVE  /\ Len(rs) \in Nat
         /\ \A i \in 1..Len(rs) : rs[i] \in Row /\ EndOf(rs[i]) \in Nat
<1>1. Len(rs) \in Nat /\ \A i \in 1..Len(rs) : rs[i] \in Row
  BY LenProperties, ElementOfSeq
<1>2. \A r \in Row : EndOf(r) \in Nat
  BY DEF Row, EndOf
<1>. QED
  BY <1>1, <1>2

LEMMA EndsBounded ==
  ASSUME NEW rs \in Seq(Row)
  PROVE  \E b \in Nat : \A i \in 1..Len(rs) : EndOf(rs[i]) <= b
<1>. DEFINE Free(n) == \A b \in Nat : \E i \in 1..n : ~(EndOf(rs[i]) <= b)
            N == {n \in 0..Len(rs) : Free(n)}
<1>0. Len(rs) \in Nat /\ \A i \in 1..Len(rs) : EndOf(rs[i]) \in Nat
  BY EndIsNat
<1>1. SUFFICES ASSUME N # {}
               PROVE  FALSE
  <2>1. Len(rs) \notin N
    BY <1>1
  <2>2. ~Free(Len(rs))
    BY <1>0, <2>1
  <2>. QED
    BY <2>2
<1>2. PICK m \in N : \A n \in N : m <= n
  <2>1. N \in SUBSET Nat
    BY <1>0
  <2>. HIDE DEF N
  <2>. QED
    BY <1>1, <2>1, LeastNatural
<1>3. m # 0
  BY <1>2
<1>4. m - 1 \in 0..Len(rs) /\ m - 1 \notin N
  <2>1. m \in 0..Len(rs) /\ m - 1 \in 0..Len(rs)
    BY <1>0, <1>2, <1>3
  <2>. HIDE DEF N
  <2>. QED
    BY <1>0, <1>2, <2>1
<1>5. PICK b \in Nat : \A i \in 1..(m - 1) : EndOf(rs[i]) <= b
  BY <1>4
<1>. DEFINE c == Larger(b, EndOf(rs[m]))
<1>6. m \in 1..Len(rs) /\ c \in Nat /\ b <= c /\ EndOf(rs[m]) <= c
  <2>1. m \in 1..Len(rs)
    BY <1>0, <1>2, <1>3
  <2>2. EndOf(rs[m]) \in Nat
    BY <1>0, <2>1
  <2>. HIDE DEF N
  <2>. QED
    BY <2>1, <2>2 DEF Larger
<1>7. \A i \in 1..m : EndOf(rs[i]) <= c
  <2>. SUFFICES ASSUME NEW i \in 1..m
                PROVE  EndOf(rs[i]) <= c
    OBVIOUS
  <2>. HIDE DEF c
  <2>1. CASE i = m
    BY <1>6, <2>1
  <2>2. CASE i # m
    <3>1. i \in 1..(m - 1) /\ i \in 1..Len(rs)
      BY <1>6, <2>2
    <3>2. EndOf(rs[i]) \in Nat /\ EndOf(rs[i]) <= b
      BY <1>0, <1>5, <3>1
    <3>. QED
      BY <1>6, <3>2
  <2>. QED
    BY <2>1, <2>2
<1>8. Free(m)
  BY <1>2
<1>. HIDE DEF c
<1>. QED
  BY <1>6, <1>7, <1>8

LEMMA RestoredIs ==
  ASSUME NEW rs \in Seq(Row), NEW k \in Keys
  PROVE  Restored(rs)[k] \in Nat /\ IsEnd(Restored(rs)[k], k, rs)
<1>. DEFINE S == {0} \cup {EndOf(rs[i]) : i \in {j \in 1..Len(rs) :
                                    rs[j].path = k \/ (k = Aos /\ inAoS)}}
<1>1. \A i \in 1..Len(rs) : EndOf(rs[i]) \in Nat
  BY EndIsNat
<1>2. PICK b \in Nat : \A i \in 1..Len(rs) : EndOf(rs[i]) <= b
  BY EndsBounded
<1>3. S \in SUBSET Nat /\ 0 \in S /\ \A n \in S : n <= b
  BY <1>1, <1>2
<1>4. Max(S) \in S /\ \A n \in S : n <= Max(S)
  <2>. HIDE DEF S
  <2>. QED
    BY <1>3, MaxOfBounded
<1>5. Restored(rs)[k] = Max(S)
  BY DEF Restored
<1>6. /\ \A i \in 1..Len(rs) : Of(k, rs[i]) => EndOf(rs[i]) \in S
      /\ \A n \in S : n = 0 \/ \E i \in 1..Len(rs) : Of(k, rs[i]) /\ EndOf(rs[i]) = n
  BY DEF Of
<1>. HIDE DEF S
<1>. QED
  BY <1>3, <1>4, <1>5, <1>6 DEF IsEnd

LEMMA EndIsOne ==
  ASSUME NEW rs \in Seq(Row), NEW k, NEW c \in Nat, NEW d \in Nat,
         IsEnd(c, k, rs), IsEnd(d, k, rs)
  PROVE  c = d
<1>1. \A i \in 1..Len(rs) : EndOf(rs[i]) \in Nat
  BY EndIsNat
<1>2. c <= d
  BY <1>1 DEF IsEnd
<1>3. d <= c
  BY <1>1 DEF IsEnd
<1>. QED
  BY <1>2, <1>3

-------------------------------------------------------------------------------
(***************************************************************************)
(* The actions.                                                            *)
(***************************************************************************)
LEMMA FileIs ==
  ASSUME Types
  PROVE  /\ inAoS \in BOOLEAN /\ file.signals \subseteq Signals
         /\ file.steps \in Nat
         /\ Keys = Signals \cup {Aos} /\ Aos \notin Signals /\ Timebase \in Signals
BY FilesAssumption, SignalsAssumption DEF Types, inAoS, Keys

LEMMA InitKeeps ==
  ASSUME Init
  PROVE  IInv
<1>1. Types
  BY DEF Init, Types, Zeros
<1>2. All = << >> /\ Len(All) = 0
  BY EmptySeq, ConcatEmptySeq DEF Init, All
<1>3. mode = "NONE" /\ op = "none" /\ buf = << >>
  BY DEF Init
<1>. QED
  BY <1>1, <1>2, <1>3
  DEF IInv, Weighed, Sessions, Behind, Reached, SpansDisjoint, All

\* The rows an operation writes come behind those there are.
LEMMA AllGrows ==
  ASSUME rows \in Seq(Row), buf \in Seq(Row), NEW r \in Row,
         rows' = rows, buf' = Append(buf, r)
  PROVE  /\ buf' \in Seq(Row) /\ All \in Seq(Row)
         /\ Len(All) \in Nat /\ Len(All') = Len(All) + 1
         /\ \A i \in 1..Len(All) : All'[i] = All[i] /\ All[i] \in Row
         /\ All'[Len(All) + 1] = r
<1>1. All' = rows \o Append(buf, r)
  BY DEF All
<1>2. /\ Append(buf, r) \in Seq(Row) /\ Len(Append(buf, r)) = Len(buf) + 1
      /\ \A i \in 1..Len(buf) : Append(buf, r)[i] = buf[i]
      /\ Append(buf, r)[Len(buf) + 1] = r
  BY AppendProperties
<1>3. /\ Len(rows) \in Nat /\ Len(buf) \in Nat
      /\ All \in Seq(Row) /\ Len(All) = Len(rows) + Len(buf)
      /\ \A i \in 1..Len(All) :
           All[i] = IF i <= Len(rows) THEN rows[i] ELSE buf[i - Len(rows)]
  BY LenProperties, ConcatProperties DEF All
<1>4. /\ Len(All') = Len(rows) + (Len(buf) + 1)
      /\ \A i \in 1..Len(rows) + (Len(buf) + 1) :
           All'[i] = IF i <= Len(rows) THEN rows[i] ELSE Append(buf, r)[i - Len(rows)]
  <2>. DEFINE b == Append(buf, r)
  <2>1. b \in Seq(Row) /\ Len(b) = Len(buf) + 1 /\ All' = rows \o b
    BY <1>1, <1>2
  <2>. HIDE DEF b
  <2>2. /\ Len(All') = Len(rows) + Len(b)
        /\ \A i \in 1..Len(rows) + Len(b) :
             All'[i] = IF i <= Len(rows) THEN rows[i] ELSE b[i - Len(rows)]
    BY <2>1, ConcatProperties
  <2>. QED
    BY <2>1, <2>2 DEF b
<1>5. \A i \in 1..Len(All) : All[i] \in Row
  BY <1>3, ElementOfSeq
<1>6. ASSUME NEW i \in 1..Len(All)
      PROVE  All'[i] = All[i]
  <2>1. All'[i] = IF i <= Len(rows) THEN rows[i] ELSE Append(buf, r)[i - Len(rows)]
    <3>1. i \in 1..Len(rows) + (Len(buf) + 1)
      BY <1>3
    <3>. QED
      BY <1>4, <3>1
  <2>2. All[i] = IF i <= Len(rows) THEN rows[i] ELSE buf[i - Len(rows)]
    BY <1>3
  <2>3. ~(i <= Len(rows)) => i - Len(rows) \in 1..Len(buf)
    BY <1>3
  <2>4. ~(i <= Len(rows)) => Append(buf, r)[i - Len(rows)] = buf[i - Len(rows)]
    BY <1>2, <2>3
  <2>5. CASE i <= Len(rows)
    <3>1. All'[i] = rows[i]
      BY <2>1, <2>5, Zenon
    <3>2. All[i] = rows[i]
      BY <2>2, <2>5, Zenon
    <3>. QED
      BY <3>1, <3>2, Zenon
  <2>6. CASE ~(i <= Len(rows))
    <3>1. All'[i] = Append(buf, r)[i - Len(rows)]
      BY <2>1, <2>6, Zenon
    <3>2. All[i] = buf[i - Len(rows)]
      BY <2>2, <2>6, Zenon
    <3>. QED
      BY <2>4, <2>6, <3>1, <3>2, Zenon
  <2>. QED
    BY <2>5, <2>6
<1>7. All'[Len(All) + 1] = r
  BY <1>2, <1>3, <1>4
<1>. QED
  BY <1>2, <1>3, <1>4, <1>5, <1>6, <1>7

\* Where slices start: never before the counter of their signal.
LEMMA BaseTimeIs ==
  ASSUME Types, NEW s \in Signals, NEW n \in Nat \ {0}
  PROVE  BaseTime(s, n) \in Nat /\ counters[s] <= BaseTime(s, n)
<1>1. /\ counters[s] \in Nat /\ base[s] \in Nat /\ counters[Timebase] \in Nat
      /\ pos \in Nat
  BY FileIs DEF Types
<1>2. Start(s) \in Nat /\ counters[s] <= Start(s)
  BY <1>1 DEF Start, Larger
<1>. QED
  BY <1>1, <1>2 DEF BaseTime, Larger

LEMMA AdvanceIs ==
  ASSUME Types, NEW s \in Signals, NEW n \in Nat \ {0}, Advance(s, n)
  PROVE  /\ counters' \in [Keys -> Nat]
         /\ Counted(s) => counters'[s] = BaseTime(s, n) + n
         /\ \A k \in Signals : k # s => counters'[k] = counters[k]
         /\ ~inAoS => counters'[Aos] = counters[Aos]
         /\ inAoS => /\ counters[Aos] <= counters'[Aos]
                     /\ BaseTime(s, n) + n <= counters'[Aos]
                     /\ \/ counters'[Aos] = counters[Aos]
                        \/ counters'[Aos] = BaseTime(s, n) + n
<1>1. BaseTime(s, n) \in Nat /\ counters \in [Keys -> Nat] /\ counters[s] \in Nat
  BY BaseTimeIs, FileIs DEF Types
<1>2. /\ NextTime(s, n) \in Nat
      /\ Counted(s) => NextTime(s, n) = BaseTime(s, n) + n
      /\ inAoS => Counted(s)
  BY <1>1 DEF NextTime, Counted
<1>3. counters[Aos] \in Nat /\ Aos \in Keys /\ s \in Keys /\ s # Aos
      /\ Keys = Signals \cup {Aos} /\ Aos \notin Signals
  BY <1>1, FileIs
<1>4. /\ Larger(counters[Aos], NextTime(s, n)) \in Nat
      /\ counters[Aos] <= Larger(counters[Aos], NextTime(s, n))
      /\ NextTime(s, n) <= Larger(counters[Aos], NextTime(s, n))
      /\ \/ Larger(counters[Aos], NextTime(s, n)) = counters[Aos]
         \/ Larger(counters[Aos], NextTime(s, n)) = NextTime(s, n)
  BY <1>2, <1>3 DEF Larger
<1>5. \A k \in Keys :
        counters'[k] = CASE k = s -> NextTime(s, n)
                         [] k = Aos /\ inAoS -> Larger(counters[Aos], NextTime(s, n))
                         [] OTHER -> counters[k]
  BY DEF Advance
<1>6. counters'[s] = NextTime(s, n)
  BY <1>3, <1>5
<1>7. inAoS => counters'[Aos] = Larger(counters[Aos], NextTime(s, n))
  BY <1>3, <1>5
<1>8. \A k \in Keys : k # s /\ ~(k = Aos /\ inAoS) => counters'[k] = counters[k]
  BY <1>5
<1>9. counters' \in [Keys -> Nat]
  <2>1. \A k \in Keys : counters'[k] \in Nat
    BY <1>1, <1>2, <1>4, <1>6, <1>7, <1>8
  <2>2. counters' = [k \in Keys |-> counters'[k]]
    BY DEF Advance
  <2>. QED
    BY <2>1, <2>2
<1>. QED
  BY <1>2, <1>3, <1>4, <1>6, <1>7, <1>8, <1>9

(***************************************************************************)
(* A call that writes n slices of s as row r.                              *)
(***************************************************************************)
Writes(s, n, r) ==
  /\ op # "none"
  /\ r \in Row /\ r.path = s /\ r.time = BaseTime(s, n)
  /\ r.steps = n /\ n <= r.units /\ (s \notin Strings => r.units = n)
  /\ buf' = Append(buf, r)
  /\ Advance(s, n)
  /\ done' = done \cup {s}
  /\ UNCHANGED <<file, rows, mode, base, op, pos, width>>

LEMMA WriteKeeps ==
  ASSUME IInv, NEW s \in file.signals, NEW n \in Nat \ {0}, NEW r, Writes(s, n, r)
  PROVE  IInv'
<1>. DEFINE L == Len(All)
<1>1. /\ Types /\ s \in Signals /\ s # Aos /\ op # "none" /\ mode # "NONE" /\ r \in Row
      /\ UNCHANGED <<file, rows, mode, base, op, pos, width, inAoS>>
      /\ \A p : Counted(p)' <=> Counted(p)
      /\ Exact' = Exact
  BY FileIs DEF IInv, Writes, Sessions, inAoS, Counted, Exact
<1>2. /\ buf' \in Seq(Row) /\ L \in Nat /\ Len(All') = L + 1
      /\ \A i \in 1..L : All'[i] = All[i] /\ All[i] \in Row
      /\ All'[L + 1] = r
  <2>1. rows \in Seq(Row) /\ buf \in Seq(Row) /\ rows' = rows /\ buf' = Append(buf, r)
    BY <1>1 DEF Types, Writes
  <2>. QED
    BY <1>1, <2>1, AllGrows
<1>3. \A i \in 1..L + 1 : i \in 1..L \/ i = L + 1
  BY <1>2
<1>4. BaseTime(s, n) \in Nat /\ counters[s] \in Nat /\ counters[s] <= BaseTime(s, n)
  BY <1>1, BaseTimeIs, FileIs DEF Types
<1>5. /\ counters' \in [Keys -> Nat]
      /\ Counted(s) => counters'[s] = BaseTime(s, n) + n
      /\ \A k \in Signals : k # s => counters'[k] = counters[k]
      /\ ~inAoS => counters'[Aos] = counters[Aos]
      /\ inAoS => /\ counters[Aos] <= counters'[Aos]
                  /\ BaseTime(s, n) + n <= counters'[Aos]
                  /\ \/ counters'[Aos] = counters[Aos]
                     \/ counters'[Aos] = BaseTime(s, n) + n
  <2>1. Advance(s, n)
    BY DEF Writes
  <2>. QED
    BY <1>1, <2>1, AdvanceIs
<1>6. /\ r.path = s /\ r.time = BaseTime(s, n) /\ r.steps = n
      /\ r.units \in Nat /\ n <= r.units /\ (s \notin Strings => r.units = n)
  BY DEF Writes, Row
<1>7. \A row \in Row : /\ row.path \in Signals /\ row.time \in Nat
                      /\ row.steps \in Nat /\ row.units \in Nat
  BY DEF Row
<1>. HIDE DEF L
<1>8. Types'
  BY <1>1, <1>2, <1>5 DEF Types, Writes
<1>9. Weighed'
  <2>1. \A i \in 1..L : /\ All[i].path \in file.signals
                        /\ All[i].steps <= All[i].units
                        /\ All[i].path \notin Strings => All[i].steps = All[i].units
    BY DEF IInv, Weighed, L
  <2>. QED
    BY <1>1, <1>2, <1>3, <1>6, <2>1 DEF Weighed
<1>10. Sessions'
  BY <1>1 DEF Sessions
<1>11. \A i \in 1..L : Counted(All[i].path) =>
                       All[i].time + All[i].steps <= counters[All[i].path]
  BY <1>1 DEF IInv, Behind, L
<1>12. \A i \in 1..L : All[i].path = s /\ Counted(s) =>
                       All[i].time + All[i].steps <= BaseTime(s, n)
  <2>. SUFFICES ASSUME NEW i \in 1..L, All[i].path = s, Counted(s)
                PROVE  All[i].time + All[i].steps <= BaseTime(s, n)
    OBVIOUS
  <2>1. All[i].time \in Nat /\ All[i].steps \in Nat
    BY <1>2, <1>7
  <2>2. All[i].time + All[i].steps <= counters[s]
    BY <1>11
  <2>. QED
    BY <1>4, <2>1, <2>2
<1>13. Behind'
  <2>. SUFFICES ASSUME NEW i \in 1..L + 1, Counted(All'[i].path)
                PROVE  All'[i].time + All'[i].steps <= counters'[All'[i].path]
    BY <1>1, <1>2 DEF Behind
  <2>1. CASE i = L + 1
    BY <1>2, <1>4, <1>5, <1>6, <2>1
  <2>2. CASE i \in 1..L /\ All[i].path = s
    <3>1. All'[i] = All[i] /\ All[i].time \in Nat /\ All[i].steps \in Nat
      BY <1>2, <1>7, <2>2
    <3>2. Counted(s) /\ counters'[s] = BaseTime(s, n) + n
      BY <1>5, <2>2, <3>1
    <3>3. All[i].time + All[i].steps <= BaseTime(s, n)
      BY <1>12, <2>2, <3>2
    <3>. QED
      BY <1>4, <2>2, <3>1, <3>2, <3>3
  <2>3. CASE i \in 1..L /\ All[i].path # s
    <3>1. All'[i] = All[i] /\ All[i].path \in Signals
      BY <1>2, <1>7, <2>3
    <3>2. Counted(All[i].path) /\ counters'[All[i].path] = counters[All[i].path]
      BY <1>5, <2>3, <3>1
    <3>. QED
      BY <1>11, <2>3, <3>1, <3>2
  <2>. QED
    BY <1>3, <2>1, <2>2, <2>3
<1>14. SpansDisjoint'
  <2>. SUFFICES ASSUME NEW i \in 1..L + 1, NEW j \in 1..L + 1, i < j,
                       All'[i].path = All'[j].path, Counted(All'[i].path)
                PROVE  All'[i].time + All'[i].steps <= All'[j].time
    BY <1>1, <1>2 DEF SpansDisjoint, All
  <2>1. i \in 1..L
    BY <1>2
  <2>2. CASE j = L + 1
    BY <1>2, <1>6, <1>12, <2>1, <2>2
  <2>3. CASE j \in 1..L
    <3>1. All[i].path = All[j].path /\ Counted(All[i].path)
      BY <1>2, <2>1, <2>3
    <3>2. All[i].time + All[i].steps <= All[j].time
      BY <2>1, <2>3, <3>1 DEF IInv, SpansDisjoint, All, L
    <3>. QED
      BY <1>2, <2>1, <2>3, <3>2
  <2>. QED
    BY <1>3, <2>2, <2>3
<1>15. Reached'
  <2>. SUFFICES ASSUME NEW k \in Exact
                PROVE  IsEnd(counters[k], k, All)'
    BY <1>1 DEF Reached
  <2>1. /\ k \in Keys /\ k \notin Strings
        /\ k # Aos => k \in Signals /\ Counted(k)
        /\ k = Aos /\ inAoS => s \notin Strings
    BY <1>1, FileIs DEF Exact, Counted
  <2>2. counters[k] \in Nat /\ counters'[k] \in Nat
    BY <1>1, <1>5, <2>1 DEF Types
  <2>3. /\ \A i \in 1..L : Of(k, All[i]) => EndOf(All[i]) <= counters[k]
        /\ counters[k] = 0 \/ \E i \in 1..L : Of(k, All[i]) /\ EndOf(All[i]) = counters[k]
    BY <1>1 DEF IInv, Reached, IsEnd, L
  <2>4. /\ \A i \in 1..L : EndOf(All'[i]) = EndOf(All[i]) /\ EndOf(All[i]) \in Nat
        /\ EndOf(r) = BaseTime(s, n) + r.units
    <3>1. \A i \in 1..L : EndOf(All'[i]) = EndOf(All[i])
      BY <1>2 DEF EndOf
    <3>2. \A row \in Row : EndOf(row) \in Nat
      BY <1>7 DEF EndOf
    <3>3. EndOf(r) = BaseTime(s, n) + r.units
      BY <1>6 DEF EndOf
    <3>. QED
      BY <1>2, <3>1, <3>2, <3>3
  <2>5. CASE ~Of(k, r)
    <3>1. counters'[k] = counters[k]
      BY <1>5, <1>6, <2>1, <2>5 DEF Of
    <3>. QED
      <4>1. \A i \in 1..L + 1 : Of(k, All'[i]) => EndOf(All'[i]) <= counters'[k]
        BY <1>2, <1>3, <2>3, <2>4, <2>5, <3>1
      <4>2. counters'[k] = 0 \/ \E i \in 1..L + 1 : Of(k, All'[i]) /\ EndOf(All'[i]) = counters'[k]
        <5>1. \A i \in 1..L : i \in 1..L + 1
          BY <1>2
        <5>. QED
          BY <1>2, <2>3, <2>4, <3>1, <5>1
      <4>. QED
        BY <1>1, <1>2, <4>1, <4>2 DEF IsEnd, Of
  <2>6. CASE Of(k, r)
    <3>1. EndOf(r) = BaseTime(s, n) + n
      BY <1>6, <2>1, <2>4, <2>6 DEF Of
    <3>2. /\ counters[k] <= counters'[k] /\ EndOf(r) <= counters'[k]
          /\ counters'[k] = counters[k] \/ counters'[k] = EndOf(r)
      BY <1>1, <1>4, <1>5, <1>6, <2>1, <2>2, <2>6, <3>1 DEF Of
    <3>3. \A i \in 1..L + 1 : Of(k, All'[i]) => EndOf(All'[i]) <= counters'[k]
      BY <1>2, <1>3, <2>2, <2>3, <2>4, <3>2
    <3>4. counters'[k] = 0 \/ \E i \in 1..L + 1 : Of(k, All'[i]) /\ EndOf(All'[i]) = counters'[k]
      <4>1. L + 1 \in 1..L + 1 /\ \A i \in 1..L : i \in 1..L + 1
        BY <1>2
      <4>2. CASE counters'[k] = EndOf(r)
        BY <1>2, <2>6, <4>1, <4>2
      <4>3. CASE counters'[k] = counters[k]
        BY <1>2, <2>3, <2>4, <4>1, <4>3
      <4>. QED
        BY <3>2, <4>2, <4>3
    <3>. QED
      BY <1>1, <1>2, <3>3, <3>4 DEF IsEnd, Of
  <2>. QED
    BY <2>5, <2>6
<1>. QED
  BY <1>8, <1>9, <1>10, <1>13, <1>14, <1>15 DEF IInv

LEMMA NumbersKeep ==
  ASSUME IInv, NEW s \in file.signals, WriteNumbers(s), UNCHANGED file
  PROVE  IInv'
<1>. DEFINE r == [path |-> s, time |-> BaseTime(s, width), steps |-> width,
                  form |-> "plain", units |-> width]
<1>1. width \in Nat \ {0} /\ s \in Signals /\ BaseTime(s, width) \in Nat
  BY BaseTimeIs, FileIs DEF IInv, Types
<1>2. r \in Row
  BY <1>1 DEF Row
<1>3. Writes(s, width, r)
  BY <1>1, <1>2 DEF WriteNumbers, Writes
<1>. HIDE DEF r
<1>. QED
  BY <1>1, <1>3, WriteKeeps

LEMMA StringKeeps ==
  ASSUME IInv, NEW s \in file.signals, NEW f \in Forms, WriteString(s, f), UNCHANGED file
  PROVE  IInv'
<1>. DEFINE r == [path |-> s, time |-> BaseTime(s, 1), steps |-> 1,
                  form |-> f.form, units |-> f.units]
<1>1. Types /\ s \in Signals
  BY FileIs DEF IInv
<1>. DEFINE one == 1
<1>2. one \in Nat \ {0}
  OBVIOUS
<1>3. BaseTime(s, 1) \in Nat
  <2>1. BaseTime(s, one) \in Nat
    <3>. HIDE DEF one
    <3>. QED
      BY <1>1, <1>2, BaseTimeIs
  <2>. QED
    BY <2>1
<1>4. f.form \in {"plain", "chunked", "spanned"} /\ f.units \in Nat \ {0}
  BY FormsAssumption
<1>5. r \in Row
  BY <1>1, <1>3, <1>4 DEF Row
<1>6. s \in Strings
  BY DEF WriteString
<1>7. Writes(s, 1, r)
  BY <1>1, <1>4, <1>5, <1>6 DEF WriteString, Writes
<1>. HIDE DEF r
<1>. QED
  BY <1>7, WriteKeeps

LEMMA RowsAlone ==
  ASSUME rows \in Seq(Row), buf = << >>
  PROVE  All = rows
BY ConcatEmptySeq DEF All

LEMMA BeginPutKeeps ==
  ASSUME IInv, NEW n \in Nat \ {0}, BeginPut(n), UNCHANGED file
  PROVE  IInv'
<1>1. rows' = << >> /\ buf' = << >> /\ rows' \in Seq(Row)
  BY EmptySeq DEF BeginPut, IInv, Sessions
<1>2. All' = << >> /\ Len(All') = 0
  BY <1>1, EmptySeq, ConcatEmptySeq DEF All
<1>3. counters' = Zeros /\ base' = Zeros /\ mode' = "WRITE" /\ op' = "put" /\ file' = file
  BY DEF BeginPut
<1>4. Types'
  BY <1>1, <1>3 DEF IInv, Types, BeginPut, Zeros
<1>5. Reached'
  <2>1. Exact' \subseteq Keys
    BY <1>4, FileIs DEF Exact, Keys
  <2>2. \A k \in Keys : counters'[k] = 0
    BY <1>3 DEF Zeros
  <2>. QED
    BY <1>2, <2>1, <2>2 DEF Reached, IsEnd
<1>. QED
  BY <1>2, <1>3, <1>4, <1>5
  DEF IInv, Weighed, Sessions, Behind, SpansDisjoint, All

LEMMA BeginSliceKeeps ==
  ASSUME IInv, NEW n \in Nat \ {0}, BeginSlice(n), UNCHANGED file
  PROVE  IInv'
<1>1. /\ op = "none" /\ buf = << >> /\ UNCHANGED <<file, rows, buf, inAoS, All, Exact>>
      /\ op' = "slice" /\ mode' = "APPEND" /\ width' = n /\ done' = {}
      /\ base' = counters' /\ pos' = counters'[Aos]
      /\ counters' = IF mode = "APPEND" THEN counters ELSE Restored(rows)
  BY DEF BeginSlice, IInv, Sessions, inAoS, All, Exact
<1>2. /\ rows \in Seq(Row) /\ All = rows
      /\ inAoS \in BOOLEAN /\ Keys = Signals \cup {Aos} /\ Exact \subseteq Keys
      /\ \A i \in 1..Len(rows) : /\ rows[i] \in Row /\ rows[i].path \in Signals
                                 /\ rows[i].steps <= rows[i].units
  <2>1. /\ rows \in Seq(Row) /\ All = rows /\ Keys = Signals \cup {Aos} /\ inAoS \in BOOLEAN
        /\ Exact \subseteq Keys
    BY <1>1, RowsAlone, FileIs DEF IInv, Types, Exact
  <2>2. \A i \in 1..Len(rows) : rows[i] \in Row /\ rows[i].steps <= rows[i].units
    BY <2>1, EndIsNat DEF IInv, Weighed
  <2>. QED
    BY <2>1, <2>2 DEF Row
<1>3. /\ counters' \in [Keys -> Nat]
      /\ \A i \in 1..Len(rows) : Counted(rows[i].path) =>
            rows[i].time + rows[i].steps <= counters'[rows[i].path]
      /\ \A k \in Exact : IsEnd(counters'[k], k, rows)
  <2>1. CASE mode = "APPEND"
    BY <1>1, <1>2, <2>1 DEF IInv, Types, Behind, Reached
  <2>2. CASE mode # "APPEND"
    <3>1. \A k \in Keys : counters'[k] \in Nat /\ IsEnd(counters'[k], k, rows)
      BY <1>1, <1>2, <2>2, RestoredIs
    <3>2. counters' \in [Keys -> Nat]
      <4>1. counters' = [k \in Keys |-> counters'[k]]
        BY <1>1, <2>2 DEF Restored
      <4>. QED
        BY <3>1, <4>1
    <3>3. ASSUME NEW i \in 1..Len(rows)
          PROVE  rows[i].time + rows[i].steps <= counters'[rows[i].path]
      <4>1. /\ rows[i].path \in Keys /\ rows[i].time \in Nat
            /\ rows[i].steps \in Nat /\ rows[i].units \in Nat
            /\ rows[i].steps <= rows[i].units
        BY <1>2 DEF Row
      <4>2. EndOf(rows[i]) <= counters'[rows[i].path] /\ counters'[rows[i].path] \in Nat
        BY <3>1, <4>1 DEF IsEnd, Of
      <4>. QED
        BY <4>1, <4>2 DEF EndOf
    <3>. QED
      BY <1>2, <3>1, <3>2, <3>3
  <2>. QED
    BY <2>1, <2>2
<1>4. Types'
  <2>1. counters'[Aos] \in Nat
    BY <1>2, <1>3
  <2>. QED
    BY <1>1, <1>3, <2>1 DEF IInv, Types
<1>5. Weighed' /\ Sessions' /\ SpansDisjoint'
  BY <1>1 DEF IInv, Weighed, Sessions, SpansDisjoint, Counted, All
<1>6. Behind'
  BY <1>1, <1>2, <1>3 DEF Behind, Counted
<1>7. Reached'
  BY <1>1, <1>2, <1>3 DEF Reached, IsEnd, Of
<1>. QED
  BY <1>4, <1>5, <1>6, <1>7 DEF IInv

LEMMA EndOpKeeps ==
  ASSUME IInv, EndOp, UNCHANGED file
  PROVE  IInv'
<1>1. /\ rows' = All /\ buf' = << >> /\ op' = "none" /\ mode' \in {"NONE", mode}
      /\ UNCHANGED <<file, inAoS, Exact, counters, base, pos, width, done>>
  BY DEF EndOp, All, inAoS, Exact
<1>2. rows' \in Seq(Row) /\ buf' \in Seq(Row)
  BY <1>1, EmptySeq, ConcatProperties DEF IInv, Types, All
<1>3. All' = All
  BY <1>1, <1>2, ConcatEmptySeq DEF All
<1>4. Types'
  BY <1>1, <1>2 DEF IInv, Types
<1>5. SpansDisjoint'
  BY <1>1, <1>3 DEF IInv, SpansDisjoint, Counted, All
<1>6. Reached'
  BY <1>1, <1>3 DEF IInv, Reached, IsEnd, Of
<1>. QED
  BY <1>1, <1>3, <1>4, <1>5, <1>6 DEF IInv, Weighed, Sessions, Behind, Counted

LEMMA OthersKeep ==
  ASSUME IInv, UNCHANGED file, NextElement \/ CloseSession \/ UNCHANGED vars
  PROVE  IInv'
<1>1. /\ UNCHANGED <<rows, buf, file, All, inAoS, Exact, counters, base, width>>
      /\ op' = op /\ (mode' = mode \/ (mode' = "NONE" /\ op = "none"))
  BY DEF NextElement, CloseSession, vars, All, inAoS, Exact
<1>2. pos' \in Nat /\ done' \subseteq Signals
  BY DEF NextElement, CloseSession, vars, IInv, Types
<1>3. Types'
  BY <1>1, <1>2 DEF IInv, Types
<1>4. SpansDisjoint'
  BY <1>1 DEF IInv, SpansDisjoint, Counted, All
<1>5. Reached'
  BY <1>1 DEF IInv, Reached, IsEnd, Of
<1>. QED
  BY <1>1, <1>3, <1>4, <1>5 DEF IInv, Weighed, Sessions, Behind, Counted

-------------------------------------------------------------------------------
(***************************************************************************)
(* The invariant, and what follows.                                        *)
(***************************************************************************)
LEMMA NextKeeps ==
  ASSUME IInv, [Next]_vars
  PROVE  IInv'
<1>1. CASE UNCHANGED vars
  BY <1>1, OthersKeep DEF vars
<1>2. CASE Next
  <2>1. UNCHANGED file
    BY <1>2 DEF Next
  <2>2. 1..file.steps \subseteq Nat \ {0}
    BY FileIs DEF IInv
  <2>3. ASSUME NEW n \in 1..file.steps, BeginPut(n) \/ BeginSlice(n)
        PROVE  IInv'
    BY <2>1, <2>2, <2>3, BeginPutKeeps, BeginSliceKeeps
  <2>4. ASSUME NEW s \in file.signals, WriteNumbers(s)
        PROVE  IInv'
    BY <2>1, <2>4, NumbersKeep
  <2>5. ASSUME NEW s \in file.signals, NEW f \in Forms, WriteString(s, f)
        PROVE  IInv'
    BY <2>1, <2>5, StringKeeps
  <2>6. CASE NextElement \/ CloseSession
    BY <2>1, <2>6, OthersKeep
  <2>7. CASE EndOp
    BY <2>1, <2>7, EndOpKeeps
  <2>. QED
    BY <1>2, <2>3, <2>4, <2>5, <2>6, <2>7 DEF Next
<1>. QED
  BY <1>1, <1>2

LEMMA Invariance == Spec => []IInv
<1>1. Init => IInv
  BY InitKeeps
<1>2. IInv /\ [Next]_vars => IInv'
  BY NextKeeps
<1>. QED
  BY <1>1, <1>2, PTL DEF Spec

\* Slices of a path never share a time step, however many operations left it
\* out and however often the file was opened again (writeDataSlices).
THEOREM SlicesDisjoint == Spec => []SpansDisjoint
<1>1. IInv => SpansDisjoint
  BY DEF IInv
<1>. QED
  BY <1>1, Invariance, PTL

\* The counters an engine kept are those restoreTimeContext() computes from
\* the file, for numbers and the arrays of numbers.
THEOREM KeptEnginesAgree == Spec => []ReopenAgrees
<1>1. ASSUME IInv
      PROVE  ReopenAgrees
  <2>. SUFFICES ASSUME op = "none", mode = "APPEND", NEW k \in Exact
                PROVE  counters[k] = Restored(rows)[k]
    BY DEF ReopenAgrees
  <2>1. rows \in Seq(Row) /\ All = rows
    BY <1>1, RowsAlone DEF IInv, Types, Sessions
  <2>2. k \in Keys
    BY <1>1, FileIs DEF IInv, Exact
  <2>3. counters[k] \in Nat /\ IsEnd(counters[k], k, rows)
    BY <1>1, <2>1, <2>2 DEF IInv, Types, Reached
  <2>4. Restored(rows)[k] \in Nat /\ IsEnd(Restored(rows)[k], k, rows)
    BY <2>1, <2>2, RestoredIs
  <2>. QED
    BY <2>1, <2>3, <2>4, EndIsOne
<1>. QED
  BY <1>1, Invariance, PTL

-------------------------------------------------------------------------------
(***************************************************************************)
(* Slices land on their times.  Outside arrays no number is ahead of the   *)
(* time the operation will have written (Target); in an array all signals  *)
(* of a slice start at its position.                                       *)
(***************************************************************************)
NumberSignals == Signals \ Strings

Target ==
  IF Timebase \in done THEN counters[Timebase] ELSE counters[Timebase] + width

Outside ==
  ~inAoS =>
    /\ op # "none" => \A s \in NumberSignals :
                         /\ counters[s] <= Target
                         /\ s \notin done => counters[s] + width <= Target
    /\ op = "none" => \A i \in 1..Len(rows) :
                         rows[i].path \notin Strings =>
                           \E j \in 1..Len(rows) : /\ rows[j].path = Timebase
                                                   /\ EndOf(rows[i]) <= EndOf(rows[j])

InArray ==
  inAoS =>
    /\ mode # "NONE" => \A s \in Signals : counters[s] <= counters[Aos]
    /\ op = "slice" => /\ \A s \in NumberSignals : s \notin done => counters[s] <= pos
                       /\ Timebase \in done => counters[Timebase] = pos + width

PutIsFresh == op = "put" => \A k \in Keys : base[k] = 0

AlignInv == IInv /\ Outside /\ InArray /\ PutIsFresh

LEMMA TimebaseIs ==
  ASSUME Types
  PROVE  /\ Timebase \in NumberSignals /\ NumberSignals \subseteq Signals /\ Signals \subseteq Keys
         /\ counters[Timebase] \in Nat /\ width \in Nat \ {0} /\ Target \in Nat /\ pos \in Nat
         /\ \A s \in Keys : counters[s] \in Nat
BY SignalsAssumption, FileIs DEF Types, NumberSignals, Target

\* The counter of a number after the operation wrote it, outside arrays.
LEMMA NumberOutside ==
  ASSUME AlignInv, ~inAoS, op # "none", NEW s \in NumberSignals, s \notin done
  PROVE  /\ BaseTime(s, width) + width <= Target
         /\ s = Timebase => BaseTime(s, width) + width = Target
         /\ Timebase \in done /\ base[s] > 0 => BaseTime(s, width) + width = counters[Timebase]
<1>1. /\ counters[s] \in Nat /\ counters[Timebase] \in Nat /\ width \in Nat \ {0}
      /\ Target = IF Timebase \in done THEN counters[Timebase] ELSE counters[Timebase] + width
      /\ counters[s] + width <= Target
  BY TimebaseIs DEF AlignInv, IInv, Outside, Target
<1>2. BaseTime(s, width) = IF base[s] > 0 /\ counters[Timebase] >= width
                           THEN Larger(counters[s], counters[Timebase] - width)
                           ELSE counters[s]
  BY DEF AlignInv, BaseTime, Start
<1>. QED
  BY <1>1, <1>2 DEF Larger

\* The same in an array.
LEMMA NumberInArray ==
  ASSUME AlignInv, inAoS, op = "slice", NEW s \in NumberSignals, s \notin done
  PROVE  /\ s = Timebase => BaseTime(s, width) = pos
         /\ Timebase \in done /\ base[s] > 0 => BaseTime(s, width) + width = counters[Timebase]
<1>1. /\ counters[s] \in Nat /\ counters[Timebase] \in Nat /\ width \in Nat \ {0} /\ pos \in Nat
      /\ counters[s] <= pos
      /\ Timebase \in done => counters[Timebase] = pos + width
  <2>1. Types /\ InArray
    BY DEF AlignInv, IInv
  <2>2. /\ counters[s] <= pos
        /\ Timebase \in done => counters[Timebase] = pos + width
    BY <2>1 DEF InArray
  <2>. QED
    BY <2>1, <2>2, TimebaseIs
<1>2. BaseTime(s, width) = IF base[s] > 0 /\ counters[Timebase] >= width
                           THEN Larger(Larger(pos, counters[s]), counters[Timebase] - width)
                           ELSE Larger(pos, counters[s])
  BY DEF BaseTime, Start
<1>. QED
  BY <1>1, <1>2 DEF Larger

LEMMA AlignInit ==
  ASSUME Init
  PROVE  AlignInv
<1>1. IInv
  BY InitKeeps
<1>2. Len(rows) = 0
  BY EmptySeq DEF Init
<1>. QED
  BY <1>1, <1>2 DEF Init, AlignInv, Outside, InArray, PutIsFresh

LEMMA NumbersAlign ==
  ASSUME AlignInv, NEW s \in file.signals, WriteNumbers(s), UNCHANGED file
  PROVE  (Outside /\ InArray /\ PutIsFresh)'
<1>1. /\ Types /\ s \in NumberSignals /\ s \in Signals /\ s \notin done /\ op # "none"
      /\ UNCHANGED <<file, inAoS, rows, mode, base, op, pos, width>>
      /\ done' = done \cup {s} /\ Advance(s, width) /\ width \in Nat \ {0}
  BY FileIs DEF AlignInv, IInv, WriteNumbers, NumberSignals, inAoS, Types
<1>2. /\ Counted(s) /\ BaseTime(s, width) \in Nat
      /\ counters'[s] = BaseTime(s, width) + width
      /\ \A k \in Signals : k # s => counters'[k] = counters[k]
      /\ inAoS => /\ counters[Aos] <= counters'[Aos]
                  /\ BaseTime(s, width) + width <= counters'[Aos]
  BY <1>1, BaseTimeIs, AdvanceIs DEF Counted, NumberSignals
<1>3. PutIsFresh'
  BY <1>1 DEF AlignInv, PutIsFresh
<1>4. ASSUME ~inAoS
      PROVE  Outside'
  <2>1. /\ BaseTime(s, width) + width <= Target
        /\ s = Timebase => BaseTime(s, width) + width = Target
    BY <1>1, <1>4, NumberOutside
  <2>2. Target' = Target /\ Target \in Nat
    <3>1. CASE s = Timebase
      BY <1>1, <1>2, <2>1, <3>1, TimebaseIs DEF Target
    <3>2. CASE s # Timebase
      BY <1>1, <1>2, <3>2, TimebaseIs DEF Target
    <3>. QED
      BY <3>1, <3>2
  <2>3. ASSUME NEW k \in NumberSignals
        PROVE  counters'[k] <= Target' /\ (k \notin done' => counters'[k] + width' <= Target')
    <3>1. counters[k] <= Target /\ (k \notin done => counters[k] + width <= Target)
      BY <1>1, <1>4 DEF AlignInv, Outside
    <3>2. CASE k = s
      BY <1>1, <1>2, <2>1, <2>2, <3>2
    <3>3. CASE k # s
      BY <1>1, <1>2, <2>2, <3>1, <3>3, TimebaseIs
    <3>. QED
      BY <3>2, <3>3
  <2>. QED
    BY <1>1, <2>3 DEF Outside
<1>5. ASSUME inAoS
      PROVE  InArray'
  <2>1. mode' # "NONE" => \A k \in Signals : counters'[k] <= counters'[Aos]
    <3>. SUFFICES ASSUME mode # "NONE", NEW k \in Signals
                  PROVE  counters'[k] <= counters'[Aos]
      BY <1>1
    <3>1. /\ counters[k] <= counters[Aos] /\ counters[k] \in Nat /\ counters[Aos] \in Nat
          /\ counters'[Aos] \in Nat
      BY <1>1, <1>5, AdvanceIs, FileIs DEF AlignInv, InArray, Types
    <3>. QED
      BY <1>2, <1>5, <3>1
  <2>2. ASSUME op = "slice"
        PROVE  /\ \A k \in NumberSignals : k \notin done' => counters'[k] <= pos'
               /\ Timebase \in done' => counters'[Timebase] = pos' + width'
    <3>0. /\ \A k \in NumberSignals : k \notin done => counters[k] <= pos
          /\ Timebase \in done => counters[Timebase] = pos + width
          /\ NumberSignals \subseteq Signals /\ Timebase \in Signals
      BY <1>1, <1>5, <2>2, TimebaseIs DEF AlignInv, InArray
    <3>1. \A k \in NumberSignals : k \notin done' => counters'[k] <= pos'
      BY <1>1, <1>2, <3>0
    <3>2. CASE s = Timebase
      <4>1. BaseTime(s, width) = pos
        BY <1>1, <1>5, <2>2, <3>2, NumberInArray
      <4>. QED
        BY <1>1, <1>2, <3>1, <3>2, <4>1
    <3>3. CASE s # Timebase
      BY <1>1, <1>2, <3>0, <3>1, <3>3
    <3>. QED
      BY <3>2, <3>3
  <2>. QED
    BY <1>1, <2>1, <2>2 DEF InArray
<1>6. inAoS => Outside'
  BY <1>1 DEF Outside
<1>7. ~inAoS => InArray'
  BY <1>1 DEF InArray
<1>. QED
  BY <1>3, <1>4, <1>5, <1>6, <1>7

LEMMA StringAligns ==
  ASSUME AlignInv, NEW s \in file.signals, NEW f \in Forms, WriteString(s, f), UNCHANGED file
  PROVE  (Outside /\ InArray /\ PutIsFresh)'
<1>. DEFINE one == 1
<1>1. /\ Types /\ s \in Strings /\ s \in Signals /\ s # Timebase /\ op # "none"
      /\ UNCHANGED <<file, inAoS, rows, mode, base, op, pos, width>>
      /\ done' = done \cup {s} /\ Advance(s, one) /\ one \in Nat \ {0}
  BY FileIs, SignalsAssumption DEF AlignInv, IInv, WriteString, inAoS
<1>. HIDE DEF one
<1>2. /\ counters' \in [Keys -> Nat]
      /\ Counted(s) => counters'[s] = BaseTime(s, one) + one
      /\ \A k \in Signals : k # s => counters'[k] = counters[k]
      /\ inAoS => /\ counters[Aos] <= counters'[Aos]
                  /\ BaseTime(s, one) + one <= counters'[Aos]
  BY <1>1, AdvanceIs
<1>3. /\ \A k \in NumberSignals : counters'[k] = counters[k] /\ (k \in done' <=> k \in done)
      /\ Target' = Target
  BY <1>1, <1>2, TimebaseIs DEF NumberSignals, Target
<1>4. Outside'
  BY <1>1, <1>3 DEF AlignInv, Outside
<1>5. InArray'
  <2>1. ASSUME inAoS, mode # "NONE", NEW k \in Signals
        PROVE  counters'[k] <= counters'[Aos]
    <3>1. /\ counters[k] <= counters[Aos] /\ counters[k] \in Nat /\ counters[Aos] \in Nat
          /\ counters'[Aos] \in Nat /\ Counted(s)
      BY <1>1, <1>2, <2>1, FileIs DEF AlignInv, InArray, Types, Counted
    <3>. QED
      BY <1>2, <2>1, <3>1
  <2>. QED
    BY <1>1, <1>3, <2>1, TimebaseIs DEF AlignInv, InArray
<1>6. PutIsFresh'
  BY <1>1 DEF AlignInv, PutIsFresh
<1>. QED
  BY <1>4, <1>5, <1>6

LEMMA BeginSliceAligns ==
  ASSUME AlignInv, NEW n \in Nat \ {0}, BeginSlice(n), UNCHANGED file, IInv'
  PROVE  (Outside /\ InArray /\ PutIsFresh)'
<1>1. /\ op = "none" /\ op' = "slice" /\ mode' = "APPEND" /\ width' = n /\ done' = {}
      /\ rows' = rows /\ inAoS' = inAoS /\ pos' = counters'[Aos] /\ Types /\ Types'
      /\ counters' = IF mode = "APPEND" THEN counters ELSE Restored(rows)
      /\ rows \in Seq(Row) /\ buf = << >> /\ All = rows
  BY RowsAlone DEF AlignInv, IInv, BeginSlice, inAoS, Sessions, Types
<1>2. /\ \A k \in Keys : counters'[k] \in Nat
      /\ Aos \in Keys /\ Aos \notin Signals /\ Timebase \in NumberSignals
      /\ NumberSignals \subseteq Signals /\ Signals \subseteq Keys
  BY <1>1, TimebaseIs, FileIs DEF Types
<1>3. ASSUME ~inAoS, NEW k \in NumberSignals
      PROVE  counters'[k] <= counters'[Timebase]
  <2>1. \A m \in NumberSignals : IsEnd(counters'[m], m, rows)
    <3>1. CASE mode = "APPEND"
      BY <1>1, <1>2, <1>3, <3>1 DEF AlignInv, IInv, Reached, Exact, NumberSignals
    <3>2. CASE mode # "APPEND"
      BY <1>1, <1>2, <3>2, RestoredIs
    <3>. QED
      BY <3>1, <3>2
  <2>2. /\ counters'[k] \in Nat /\ counters'[Timebase] \in Nat
        /\ \A i \in 1..Len(rows) : EndOf(rows[i]) \in Nat
    BY <1>1, <1>2, EndIsNat
  <2>3. CASE counters'[k] = 0
    BY <2>2, <2>3
  <2>4. ASSUME NEW i \in 1..Len(rows), Of(k, rows[i]), EndOf(rows[i]) = counters'[k]
        PROVE  counters'[k] <= counters'[Timebase]
    <3>1. rows[i].path \notin Strings
      BY <1>3, <2>4 DEF Of, NumberSignals
    <3>2. PICK j \in 1..Len(rows) : rows[j].path = Timebase /\ EndOf(rows[i]) <= EndOf(rows[j])
      BY <1>1, <1>3, <3>1 DEF AlignInv, Outside
    <3>3. EndOf(rows[j]) <= counters'[Timebase]
      BY <1>2, <2>1, <3>2 DEF IsEnd, Of
    <3>4. EndOf(rows[i]) \in Nat /\ EndOf(rows[j]) \in Nat
      BY <2>2
    <3>. QED
      BY <2>2, <2>4, <3>2, <3>3, <3>4
  <2>. QED
    BY <2>1, <2>3, <2>4 DEF IsEnd
<1>4. Outside'
  <2>1. ASSUME ~inAoS, NEW k \in NumberSignals
        PROVE  counters'[k] <= Target' /\ counters'[k] + width' <= Target'
    <3>1. Target' = counters'[Timebase] + n
      BY <1>1 DEF Target
    <3>. QED
      BY <1>1, <1>2, <1>3, <2>1, <3>1
  <2>. QED
    BY <1>1, <2>1 DEF Outside
<1>5. ASSUME inAoS, NEW k \in Signals
      PROVE  counters'[k] <= counters'[Aos]
  <2>1. CASE mode = "APPEND"
    BY <1>1, <1>5, <2>1 DEF AlignInv, InArray
  <2>2. CASE mode # "APPEND"
    <3>1. /\ IsEnd(counters'[k], k, rows) /\ IsEnd(counters'[Aos], Aos, rows)
          /\ counters'[k] \in Nat /\ counters'[Aos] \in Nat
      BY <1>1, <1>2, <2>2, RestoredIs
    <3>2. CASE counters'[k] = 0
      BY <3>1, <3>2
    <3>3. ASSUME NEW i \in 1..Len(rows), EndOf(rows[i]) = counters'[k]
          PROVE  counters'[k] <= counters'[Aos]
      BY <1>5, <3>1, <3>3 DEF IsEnd, Of
    <3>. QED
      BY <3>1, <3>2, <3>3 DEF IsEnd
  <2>. QED
    BY <2>1, <2>2
<1>6. InArray'
  BY <1>1, <1>2, <1>5 DEF InArray
<1>7. PutIsFresh'
  BY <1>1 DEF PutIsFresh
<1>. QED
  BY <1>4, <1>6, <1>7

LEMMA EndOpAligns ==
  ASSUME AlignInv, EndOp, UNCHANGED file
  PROVE  (Outside /\ InArray /\ PutIsFresh)'
<1>1. /\ rows' = All /\ op # "none" /\ op' = "none" /\ mode' \in {"NONE", mode} /\ mode # "NONE"
      /\ Timebase \in done /\ Types
      /\ UNCHANGED <<file, inAoS, counters, base, pos, width, done>>
  BY DEF EndOp, All, inAoS, AlignInv, IInv, Sessions
<1>2. /\ All \in Seq(Row) /\ Timebase \in NumberSignals /\ NumberSignals \subseteq Signals
      /\ \A k \in NumberSignals : counters[k] \in Nat
      /\ \A i \in 1..Len(All) : All[i] \in Row /\ EndOf(All[i]) \in Nat
  BY <1>1, ConcatProperties, EndIsNat, TimebaseIs DEF Types, All
<1>3. ASSUME ~inAoS, NEW i \in 1..Len(All), All[i].path \notin Strings
      PROVE  \E j \in 1..Len(All) : All[j].path = Timebase /\ EndOf(All[i]) <= EndOf(All[j])
  <2>1. /\ All[i].path \in NumberSignals /\ EndOf(All[i]) \in Nat /\ EndOf(All[i]) # 0
    BY <1>2, <1>3 DEF Row, NumberSignals, EndOf
  <2>2. \A k \in NumberSignals : IsEnd(counters[k], k, All)
    BY <1>1, <1>3 DEF AlignInv, IInv, Reached, Exact, NumberSignals, Keys
  <2>3. EndOf(All[i]) <= counters[All[i].path]
    BY <2>1, <2>2 DEF IsEnd, Of
  <2>4. counters[All[i].path] <= counters[Timebase]
    BY <1>1, <1>3, <2>1 DEF AlignInv, Outside, Target
  <2>5. EndOf(All[i]) <= counters[Timebase] /\ counters[Timebase] # 0
    BY <1>2, <2>1, <2>3, <2>4
  <2>6. PICK j \in 1..Len(All) : Of(Timebase, All[j]) /\ EndOf(All[j]) = counters[Timebase]
    BY <1>2, <2>2, <2>5 DEF IsEnd
  <2>. QED
    BY <1>3, <2>5, <2>6 DEF Of
<1>4. Outside'
  BY <1>1, <1>3 DEF Outside
<1>5. InArray'
  BY <1>1 DEF AlignInv, InArray
<1>6. PutIsFresh'
  BY <1>1 DEF PutIsFresh
<1>. QED
  BY <1>4, <1>5, <1>6

LEMMA BeginPutAligns ==
  ASSUME AlignInv, NEW n \in Nat \ {0}, BeginPut(n), UNCHANGED file
  PROVE  (Outside /\ InArray /\ PutIsFresh)'
<1>1. /\ op' = "put" /\ counters' = Zeros /\ base' = Zeros /\ width' = n /\ done' = {}
  BY DEF BeginPut
<1>2. /\ \A k \in Keys : counters'[k] = 0 /\ base'[k] = 0
      /\ Timebase \in Keys /\ Aos \in Keys /\ Signals \subseteq Keys /\ NumberSignals \subseteq Keys
  BY <1>1, TimebaseIs, FileIs DEF Zeros, AlignInv, IInv
<1>3. Target' = n
  BY <1>1, <1>2 DEF Target
<1>4. Outside'
  BY <1>1, <1>2, <1>3 DEF Outside
<1>5. InArray'
  BY <1>1, <1>2 DEF InArray
<1>6. PutIsFresh'
  BY <1>1, <1>2 DEF PutIsFresh
<1>. QED
  BY <1>4, <1>5, <1>6

LEMMA OthersAlign ==
  ASSUME AlignInv, UNCHANGED file, NextElement \/ CloseSession \/ UNCHANGED vars
  PROVE  (Outside /\ InArray /\ PutIsFresh)'
<1>1. /\ UNCHANGED <<rows, counters, base, inAoS, width, op>>
      /\ mode' = mode \/ mode' = "NONE"
      /\ UNCHANGED <<pos, done>> \/ (inAoS /\ op = "put")
  BY DEF NextElement, CloseSession, vars, inAoS
<1>2. Outside'
  BY <1>1 DEF AlignInv, Outside, Target
<1>3. InArray'
  BY <1>1 DEF AlignInv, InArray
<1>4. PutIsFresh'
  BY <1>1 DEF AlignInv, PutIsFresh
<1>. QED
  BY <1>2, <1>3, <1>4

LEMMA AlignNext ==
  ASSUME AlignInv, [Next]_vars
  PROVE  AlignInv'
<1>1. IInv /\ IInv'
  BY NextKeeps DEF AlignInv
<1>2. CASE UNCHANGED vars
  BY <1>1, <1>2, OthersAlign DEF vars, AlignInv
<1>3. CASE Next
  <2>1. UNCHANGED file
    BY <1>3 DEF Next
  <2>2. 1..file.steps \subseteq Nat \ {0}
    BY <1>1, FileIs DEF IInv
  <2>3. ASSUME NEW n \in 1..file.steps, BeginPut(n)
        PROVE  AlignInv'
    BY <1>1, <2>1, <2>2, <2>3, BeginPutAligns DEF AlignInv
  <2>4. ASSUME NEW n \in 1..file.steps, BeginSlice(n)
        PROVE  AlignInv'
    BY <1>1, <2>1, <2>2, <2>4, BeginSliceAligns DEF AlignInv
  <2>5. ASSUME NEW s \in file.signals, WriteNumbers(s)
        PROVE  AlignInv'
    BY <1>1, <2>1, <2>5, NumbersAlign DEF AlignInv
  <2>6. ASSUME NEW s \in file.signals, NEW f \in Forms, WriteString(s, f)
        PROVE  AlignInv'
    BY <1>1, <2>1, <2>6, StringAligns DEF AlignInv
  <2>7. CASE NextElement \/ CloseSession
    BY <1>1, <2>1, <2>7, OthersAlign DEF AlignInv
  <2>8. CASE EndOp
    BY <1>1, <2>1, <2>8, EndOpAligns DEF AlignInv
  <2>. QED
    BY <1>3, <2>3, <2>4, <2>5, <2>6, <2>7, <2>8 DEF Next
<1>. QED
  BY <1>2, <1>3

\* The slices of a number that has data, written after the times they belong
\* to, land on these times, however many operations left the number out
\* (writeDataSlices, the anchor to the timebase).
THEOREM SlicesLandOnTimes == Spec => SlicesAligned
<1>1. Init => AlignInv
  BY AlignInit
<1>2. AlignInv /\ [Next]_vars => AlignInv'
  BY AlignNext
<1>3. ASSUME AlignInv, [Next]_vars
      PROVE  [\A s \in Signals \ (Strings \cup {Timebase}) :
                (s \in done' \ done /\ Timebase \in done /\ base[s] > 0) =>
                   buf'[Len(buf')].time + buf'[Len(buf')].steps = counters[Timebase]]_vars
  <2>. SUFFICES ASSUME NEW s \in NumberSignals, s \in done' \ done, Timebase \in done, base[s] > 0
                PROVE  buf'[Len(buf')].time + buf'[Len(buf')].steps = counters[Timebase]
    BY DEF NumberSignals
  <2>1. WriteNumbers(s)
    BY <1>3
    DEF Next, vars, BeginPut, BeginSlice, WriteNumbers, WriteString, NextElement,
        EndOp, CloseSession, NumberSignals
  <2>2. /\ op # "none" /\ s \notin done /\ op \in {"none", "put", "slice"} /\ s \in Keys
        /\ buf \in Seq(Row) /\ Types
    BY <1>3, <2>1, TimebaseIs DEF AlignInv, IInv, Types, WriteNumbers
  <2>3. op = "slice"
    BY <1>3, <2>2 DEF AlignInv, PutIsFresh
  <2>4. BaseTime(s, width) + width = counters[Timebase]
    BY <1>3, <2>2, <2>3, NumberOutside, NumberInArray
  <2>. DEFINE r == [path |-> s, time |-> BaseTime(s, width), steps |-> width,
                    form |-> "plain", units |-> width]
  <2>5. buf' = Append(buf, r)
    BY <2>1 DEF WriteNumbers
  <2>6. buf'[Len(buf')] = r
    <3>1. r \in Row
      BY <2>2, BaseTimeIs, TimebaseIs DEF Row
    <3>. HIDE DEF r
    <3>. QED
      BY <2>2, <2>5, <3>1, AppendProperties
  <2>. QED
    BY <2>4, <2>6
<1>. QED
  BY <1>1, <1>2, <1>3, PTL DEF Spec, SlicesAligned

-------------------------------------------------------------------------------
(***************************************************************************)
(* The reader.  Its loops are recursive functions on an interval; that     *)
(* they are defined, and what they keep, is an induction on the turns.     *)
(***************************************************************************)
LEMMA TurnsFromZero ==
  ASSUME NEW T, 0 \in T, \A n \in Nat : n \in T => n + 1 \in T
  PROVE  \A n \in Nat : n \in T
<1>. SUFFICES ASSUME Nat \ T # {}
              PROVE  FALSE
  OBVIOUS
<1>1. PICK m \in Nat \ T : \A k \in Nat \ T : m <= k
  BY LeastNatural
<1>2. m # 0 /\ m - 1 \in Nat
  BY <1>1
<1>3. m - 1 \in T
  BY <1>1, <1>2
<1>. QED
  BY <1>1, <1>2, <1>3

Turns(S, first, step, N) ==
  \E g \in [0..N -> S] : g[0] = first /\ \A n \in 1..N : g[n] = step[<<n, g[n - 1]>>]

\* A loop of N turns that carries a value from S has a sequence of results.
LEMMA LoopTurns ==
  ASSUME NEW S, NEW first \in S, NEW step \in [Nat \X S -> S], NEW N \in Nat
  PROVE  Turns(S, first, step, N)
<1>. DEFINE Run(g, M) == g[0] = first /\ \A n \in 1..M : g[n] = step[<<n, g[n - 1]>>]
            T == {M \in Nat : \E g \in [0..M -> S] : Run(g, M)}
<1>1. 0 \in T
  <2>. DEFINE g == [n \in 0..0 |-> first]
  <2>1. g \in [0..0 -> S] /\ Run(g, 0)
    OBVIOUS
  <2>. QED
    BY <2>1
<1>2. ASSUME NEW M \in Nat, M \in T
      PROVE  M + 1 \in T
  <2>1. PICK g \in [0..M -> S] : Run(g, M)
    BY <1>2
  <2>2. g[M] \in S /\ step[<<M + 1, g[M]>>] \in S
    BY <2>1
  <2>. DEFINE h == [n \in 0..(M + 1) |-> IF n <= M THEN g[n] ELSE step[<<M + 1, g[M]>>]]
  <2>3. h \in [0..(M + 1) -> S]
    BY <2>2
  <2>4. ASSUME NEW n \in 1..(M + 1)
        PROVE  h[n] = step[<<n, h[n - 1]>>]
    <3>1. CASE n <= M
      <4>1. n \in 1..M /\ n - 1 \in 0..M /\ n - 1 <= M /\ n \in 0..(M + 1) /\ n - 1 \in 0..(M + 1)
        BY <3>1
      <4>2. h[n] = g[n] /\ h[n - 1] = g[n - 1]
        BY <3>1, <4>1
      <4>. QED
        BY <2>1, <4>1, <4>2
    <3>2. CASE n = M + 1
      <4>1. h[n] = step[<<M + 1, g[M]>>] /\ h[n - 1] = g[M]
        BY <3>2
      <4>. QED
        BY <3>2, <4>1
    <3>. QED
      BY <3>1, <3>2
  <2>5. h[0] = first
    BY <2>1
  <2>6. Run(h, M + 1)
    BY <2>4, <2>5
  <2>. HIDE DEF h, Run
  <2>. QED
    BY <2>3, <2>6
<1>. HIDE DEF T
<1>3. \A M \in Nat : M \in T
  BY <1>1, <1>2, TurnsFromZero
<1>. QED
  BY <1>3 DEF T, Turns

(***************************************************************************)
(* leaf_lookup: s lists the rows of p among the first n, in their order.   *)
(***************************************************************************)
Lists(rs, p, n, s) ==
  /\ s \in Seq(1..n)
  /\ \A k \in 1..Len(s) : rs[s[k]].path = p
  /\ \A k, l \in 1..Len(s) : k < l => s[k] < s[l]
  /\ \A i \in 1..n : rs[i].path = p => \E k \in 1..Len(s) : s[k] = i

\* One more row, of the path or of another one.
LEMMA ListsOn ==
  ASSUME NEW rs, NEW p, NEW n \in Nat, NEW s, Lists(rs, p, n, s)
  PROVE  Lists(rs, p, n + 1, IF rs[n + 1].path = p THEN Append(s, n + 1) ELSE s)
<1>1. /\ s \in Seq(1..n) /\ Len(s) \in Nat
      /\ \A k \in 1..Len(s) : s[k] \in 1..n
  BY DEF Lists
<1>2. s \in Seq(1..(n + 1))
  <2>1. \A k \in 1..Len(s) : s[k] \in 1..(n + 1)
    BY <1>1
  <2>. QED
    BY <1>1, <2>1
<1>3. CASE rs[n + 1].path # p
  <2>1. \A i \in 1..(n + 1) : rs[i].path = p => i \in 1..n
    BY <1>3
  <2>. QED
    BY <1>2, <1>3, <2>1 DEF Lists
<1>4. CASE rs[n + 1].path = p
  <2>. DEFINE more == Append(s, n + 1)
  <2>1. /\ more \in Seq(1..(n + 1)) /\ Len(more) = Len(s) + 1
        /\ more[Len(s) + 1] = n + 1
        /\ \A k \in 1..Len(s) : more[k] = s[k]
    BY <1>2, AppendProperties
  <2>. HIDE DEF more
  <2>2. ASSUME NEW k \in 1..Len(more)
        PROVE  \/ k \in 1..Len(s) /\ more[k] = s[k]
               \/ k = Len(s) + 1 /\ more[k] = n + 1
    <3>1. CASE k = Len(s) + 1
      BY <2>1, <3>1
    <3>2. CASE k # Len(s) + 1
      <4>1. k \in 1..Len(s)
        BY <1>1, <2>1, <3>2
      <4>2. more[k] = s[k]
        BY <2>1, <4>1
      <4>. QED
        BY <4>1, <4>2
    <3>. QED
      BY <3>1, <3>2
  <2>3. \A k \in 1..Len(more) : rs[more[k]].path = p
    BY <1>4, <2>2 DEF Lists
  <2>4. ASSUME NEW k \in 1..Len(more), NEW l \in 1..Len(more), k < l
        PROVE  more[k] < more[l]
    <3>1. k \in 1..Len(s) /\ more[k] = s[k] /\ s[k] \in 1..n
      BY <1>1, <2>1, <2>4
    <3>2. CASE l = Len(s) + 1
      BY <2>1, <3>1, <3>2
    <3>3. CASE l # Len(s) + 1
      <4>1. l \in 1..Len(s) /\ more[l] = s[l]
        BY <2>2, <3>3
      <4>. QED
        BY <2>4, <3>1, <4>1 DEF Lists
    <3>. QED
      BY <3>2, <3>3
  <2>5. ASSUME NEW i \in 1..(n + 1), rs[i].path = p
        PROVE  \E k \in 1..Len(more) : more[k] = i
    <3>1. CASE i = n + 1
      <4>1. Len(s) + 1 \in 1..Len(more)
        BY <1>1, <2>1
      <4>. QED
        BY <2>1, <3>1, <4>1
    <3>2. CASE i # n + 1
      <4>1. PICK k \in 1..Len(s) : s[k] = i
        <5>1. i \in 1..n
          BY <3>2
        <5>. QED
          BY <2>5, <5>1 DEF Lists
      <4>2. k \in 1..Len(more) /\ more[k] = i
        BY <1>1, <2>1, <4>1
      <4>. QED
        BY <4>2
    <3>. QED
      BY <3>1, <3>2
  <2>6. Lists(rs, p, n + 1, more)
    BY <2>1, <2>3, <2>4, <2>5 DEF Lists
  <2>. QED
    BY <1>4, <2>6 DEF more
<1>. QED
  BY <1>3, <1>4

ListedBy(rs, p, f) ==
  f = [n \in 0..Len(rs) |->
         IF n = 0 THEN << >>
         ELSE IF rs[n].path = p THEN Append(f[n - 1], n)
         ELSE f[n - 1]]

\* The loop that fills leaf_lookup has results.
LEMMA ListingRuns ==
  ASSUME NEW rs \in Seq(Row), NEW p
  PROVE  \E f : ListedBy(rs, p, f)
<1>. DEFINE N == Len(rs)
            B == Seq(Nat)
            step == [nf \in Nat \X B |->
                       IF rs[nf[1]].path = p THEN Append(nf[2], nf[1]) ELSE nf[2]]
<1>1. N \in Nat /\ << >> \in B
  OBVIOUS
<1>2. step \in [Nat \X B -> B]
  <2>1. ASSUME NEW n \in Nat, NEW b \in B
        PROVE  (IF rs[n].path = p THEN Append(b, n) ELSE b) \in B
    OBVIOUS
  <2>. QED
    BY <2>1
<1>3. PICK g \in [0..N -> B] :
         g[0] = << >> /\ \A n \in 1..N : g[n] = step[<<n, g[n - 1]>>]
  <2>. HIDE DEF step, B, N
  <2>1. Turns(B, << >>, step, N)
    BY <1>1, <1>2, LoopTurns
  <2>. QED
    BY <2>1 DEF Turns
<1>. DEFINE Val(n) == IF n = 0 THEN << >>
                      ELSE IF rs[n].path = p THEN Append(g[n - 1], n) ELSE g[n - 1]
<1>4. ASSUME NEW n \in 0..N
      PROVE  g[n] = Val(n)
  <2>1. CASE n = 0
    BY <1>3, <2>1
  <2>2. CASE n # 0
    <3>0. n \in 1..N /\ n \in Nat /\ n - 1 \in 0..N
      BY <1>1, <2>2
    <3>1. g[n - 1] \in B
      BY <1>3, <3>0
    <3>2. step[<<n, g[n - 1]>>] = IF rs[n].path = p THEN Append(g[n - 1], n) ELSE g[n - 1]
      BY <3>0, <3>1
    <3>. QED
      BY <1>3, <2>2, <3>0, <3>2
  <2>. QED
    BY <2>1, <2>2
<1>5. g = [n \in 0..N |-> Val(n)]
  <2>1. g = [n \in 0..N |-> g[n]]
    BY <1>3
  <2>. HIDE DEF Val
  <2>. QED
    BY <1>4, <2>1
<1>6. ListedBy(rs, p, g)
  BY <1>5 DEF ListedBy
<1>. QED
  BY <1>6

\* RowsOf lists the rows of a path.
LEMMA RowsOfLists ==
  ASSUME rows \in Seq(Row), NEW p
  PROVE  Lists(rows, p, Len(rows), RowsOf(p))
<1>. DEFINE f == CHOOSE h : ListedBy(rows, p, h)
            N == Len(rows)
<1>1. N \in Nat
  OBVIOUS
<1>2. ListedBy(rows, p, f)
  BY ListingRuns
<1>3. RowsOf(p) = f[N]
  BY DEF RowsOf, ListedBy
<1>. HIDE DEF f
<1>4. ASSUME NEW n \in 0..N
      PROVE  f[n] = IF n = 0 THEN << >>
                    ELSE IF rows[n].path = p THEN Append(f[n - 1], n) ELSE f[n - 1]
  BY <1>2 DEF ListedBy
<1>. DEFINE T == {n \in Nat : n <= N => Lists(rows, p, n, f[n])}
<1>5. 0 \in T
  <2>1. f[0] = << >>
    BY <1>1, <1>4
  <2>2. << >> \in Seq(1..0) /\ Len(<< >>) = 0
    OBVIOUS
  <2>3. Lists(rows, p, 0, << >>)
    BY <2>2 DEF Lists
  <2>. QED
    BY <2>1, <2>3
<1>6. ASSUME NEW n \in Nat, n \in T
      PROVE  n + 1 \in T
  <2>. SUFFICES ASSUME n + 1 <= N
                PROVE  Lists(rows, p, n + 1, f[n + 1])
    OBVIOUS
  <2>1. Lists(rows, p, n, f[n])
    BY <1>1, <1>6
  <2>2. n + 1 \in 0..N /\ n + 1 # 0 /\ (n + 1) - 1 = n
    BY <1>1
  <2>3. f[n + 1] = IF rows[n + 1].path = p THEN Append(f[n], n + 1) ELSE f[n]
    BY <1>4, <2>2
  <2>. HIDE DEF N
  <2>4. Lists(rows, p, n + 1, IF rows[n + 1].path = p THEN Append(f[n], n + 1) ELSE f[n])
    BY <2>1, ListsOn
  <2>. QED
    BY <2>3, <2>4
<1>. HIDE DEF T
<1>7. \A n \in Nat : n \in T
  BY <1>5, <1>6, TurnsFromZero
<1>. QED
  BY <1>1, <1>3, <1>7 DEF T

(***************************************************************************)
(* note_row_order(): rows that pass follow one another without overlap.    *)
(***************************************************************************)
Ordered(mine) ==
  \A k, l \in 1..Len(mine) : k < l => EndOf(rows[mine[k]]) <= rows[mine[l]].time

LEMMA SafeIsOrdered ==
  ASSUME rows \in Seq(Row), NEW mine \in Seq(1..Len(rows)), ~Unsafe(mine)
  PROVE  Ordered(mine)
<1>. DEFINE N == Len(mine)
            at(k) == rows[mine[k]].time
            end(k) == EndOf(rows[mine[k]])
<1>1. N \in Nat /\ \A k \in 1..N : mine[k] \in 1..Len(rows)
  OBVIOUS
<1>2. \A k \in 1..N : rows[mine[k]] \in Row
  BY <1>1, EndIsNat
<1>3. \A k \in 1..N : at(k) \in Nat /\ end(k) \in Nat /\ at(k) < end(k)
  <2>1. \A r \in Row : r.time \in Nat /\ EndOf(r) \in Nat /\ r.time < EndOf(r)
    BY DEF Row, EndOf
  <2>. QED
    BY <1>2, <2>1
<1>4. \A k \in 1..(N - 1) : ~(at(k + 1) < end(k))
  BY <1>1 DEF Unsafe
<1>. HIDE DEF at, end
<1>5. ASSUME NEW k \in 1..N
      PROVE  \A l \in 1..N : k < l => end(k) <= at(l)
  <2>. DEFINE T == {n \in Nat : k + n + 1 <= N => end(k) <= at(k + n + 1)}
  <2>1. 0 \in T
    <3>. SUFFICES ASSUME k + 0 + 1 <= N
                  PROVE  end(k) <= at(k + 0 + 1)
      OBVIOUS
    <3>1. k \in 1..(N - 1) /\ k + 1 \in 1..N /\ k + 0 + 1 = k + 1
      BY <1>1
    <3>2. ~(at(k + 1) < end(k)) /\ at(k + 1) \in Nat /\ end(k) \in Nat
      BY <1>3, <1>4, <3>1
    <3>. QED
      BY <3>1, <3>2
  <2>2. ASSUME NEW n \in Nat, n \in T
        PROVE  n + 1 \in T
    <3>. SUFFICES ASSUME k + (n + 1) + 1 <= N
                  PROVE  end(k) <= at(k + (n + 1) + 1)
      OBVIOUS
    <3>. DEFINE m == k + n + 1
    <3>1. m \in 1..(N - 1) /\ m \in 1..N /\ m + 1 \in 1..N /\ k + (n + 1) + 1 = m + 1 /\ m <= N
      BY <1>1
    <3>2. end(k) <= at(m)
      BY <2>2, <3>1
    <3>. HIDE DEF m
    <3>3. ~(at(m + 1) < end(m))
      BY <1>4, <3>1
    <3>4. /\ end(k) \in Nat /\ at(m) \in Nat /\ end(m) \in Nat /\ at(m + 1) \in Nat
          /\ at(m) < end(m)
      BY <1>3, <3>1
    <3>5. end(k) <= at(m + 1)
      BY <3>2, <3>3, <3>4
    <3>. QED
      BY <3>1, <3>5
  <2>. HIDE DEF T
  <2>3. \A n \in Nat : n \in T
    BY <2>1, <2>2, TurnsFromZero
  <2>4. ASSUME NEW l \in 1..N, k < l
        PROVE  end(k) <= at(l)
    <3>. DEFINE n == l - k - 1
    <3>1. n \in Nat /\ k + n + 1 = l /\ k + n + 1 <= N
      BY <1>1, <2>4
    <3>2. n \in T
      BY <2>3, <3>1
    <3>. HIDE DEF n
    <3>. QED
      BY <3>1, <3>2 DEF T
  <2>. QED
    BY <2>4
<1>. QED
  BY <1>5 DEF Ordered, at, end

(***************************************************************************)
(* The bisection.  Of the rows before the window none starts behind t, of  *)
(* those behind it all do; and a turn makes the window smaller.            *)
(***************************************************************************)
Narrowed(mine, t, n, w) ==
  /\ w \in (0..Len(mine)) \X (0..Len(mine)) /\ w[1] <= w[2]
  /\ \A k \in 1..w[1] : rows[mine[k]].time <= t
  /\ \A k \in (w[2] + 1)..Len(mine) : ~(rows[mine[k]].time <= t)
  /\ w[2] - w[1] <= Len(mine) - n \/ w[1] = w[2]

Turn(mine, t, w) ==
  LET mid == w[1] + (w[2] - w[1]) \div 2
  IN  IF w[1] >= w[2] THEN w
      ELSE IF rows[mine[mid + 1]].time <= t THEN <<mid + 1, w[2]>>
      ELSE <<w[1], mid>>

\* The middle of a window is inside it.
LEMMA MiddleIs ==
  ASSUME NEW a \in Nat, NEW b \in Nat, a < b
  PROVE  LET mid == a + (b - a) \div 2 IN mid \in Nat /\ a <= mid /\ mid < b
<1>1. b - a \in Nat /\ b - a > 0
  OBVIOUS
<1>2. \A d \in Nat : d > 0 => d \div 2 \in Nat /\ d \div 2 < d
  BY SMT
<1>. QED
  BY <1>1, <1>2

\* One turn of the loop.
LEMMA TurnNarrows ==
  ASSUME rows \in Seq(Row), NEW mine \in Seq(1..Len(rows)), Ordered(mine), NEW t \in Int,
         NEW n \in Nat, NEW w, Narrowed(mine, t, n, w)
  PROVE  Narrowed(mine, t, n + 1, Turn(mine, t, w))
<1>. DEFINE N == Len(mine)
            mid == w[1] + (w[2] - w[1]) \div 2
<1>1. /\ N \in Nat /\ w = <<w[1], w[2]>> /\ w[1] \in 0..N /\ w[2] \in 0..N /\ w[1] <= w[2]
      /\ w[1] \in Nat /\ w[2] \in Nat
  BY DEF Narrowed
<1>2. CASE w[1] >= w[2]
  <2>1. w[1] = w[2] /\ Turn(mine, t, w) = w
    BY <1>1, <1>2 DEF Turn
  <2>. QED
    BY <2>1 DEF Narrowed
<1>3. CASE ~(w[1] >= w[2])
  <2>0. mid \in Nat /\ w[1] <= mid /\ mid < w[2]
    BY <1>1, <1>3, MiddleIs
  <2>. HIDE DEF mid
  <2>1. /\ mid \in Nat /\ w[1] <= mid /\ mid < w[2]
        /\ mid + 1 \in 1..N /\ mid \in 0..N
    BY <1>1, <2>0
  <2>2. \A k \in 1..N : rows[mine[k]] \in Row
    BY EndIsNat
  <2>3. \A k \in 1..N : rows[mine[k]].time \in Nat /\ rows[mine[k]].time <= EndOf(rows[mine[k]])
                        /\ EndOf(rows[mine[k]]) \in Nat
    <3>1. \A r \in Row : r.time \in Nat /\ r.time <= EndOf(r) /\ EndOf(r) \in Nat
      BY DEF Row, EndOf
    <3>. QED
      BY <2>2, <3>1
  <2>4. w[2] - w[1] <= N - n
    BY <1>1, <1>3 DEF Narrowed
  <2>5. CASE rows[mine[mid + 1]].time <= t
    <3>1. Turn(mine, t, w) = <<mid + 1, w[2]>>
      BY <1>3, <2>5 DEF Turn, mid
    <3>2. ASSUME NEW k \in 1..(mid + 1)
          PROVE  rows[mine[k]].time <= t
      <4>1. CASE k = mid + 1
        BY <2>5, <4>1
      <4>2. CASE k # mid + 1
        <5>1. k \in 1..N /\ k < mid + 1
          BY <2>1, <4>2
        <5>2. EndOf(rows[mine[k]]) <= rows[mine[mid + 1]].time
          BY <2>1, <5>1 DEF Ordered
        <5>3. /\ rows[mine[k]].time \in Nat /\ EndOf(rows[mine[k]]) \in Nat
              /\ rows[mine[k]].time <= EndOf(rows[mine[k]])
              /\ rows[mine[mid + 1]].time \in Nat
          BY <2>1, <2>3, <5>1
        <5>4. \A a, b, c \in Nat : a <= b /\ b <= c /\ c <= t => a <= t
          OBVIOUS
        <5>. QED
          BY <2>5, <5>2, <5>3, <5>4
      <4>. QED
        BY <4>1, <4>2
    <3>3. \A k \in (w[2] + 1)..N : ~(rows[mine[k]].time <= t)
      BY DEF Narrowed
    <3>4. mid + 1 \in 0..N /\ mid + 1 <= w[2]
      BY <1>1, <2>1
    <3>5. w[2] - (mid + 1) <= N - (n + 1)
      <4>1. \A a, b, m, c \in Nat : b - a <= c - n /\ a <= m => b - (m + 1) <= c - (n + 1)
        OBVIOUS
      <4>. HIDE DEF N
      <4>. QED
        BY <1>1, <2>1, <2>4, <4>1
    <3>. QED
      BY <1>1, <3>1, <3>2, <3>3, <3>4, <3>5 DEF Narrowed
  <2>6. CASE ~(rows[mine[mid + 1]].time <= t)
    <3>1. Turn(mine, t, w) = <<w[1], mid>>
      BY <1>3, <2>6 DEF Turn, mid
    <3>2. ASSUME NEW k \in (mid + 1)..N
          PROVE  ~(rows[mine[k]].time <= t)
      <4>1. CASE k = mid + 1
        BY <2>6, <4>1
      <4>2. CASE k # mid + 1
        <5>1. k \in 1..N /\ mid + 1 < k
          BY <2>1, <4>2
        <5>2. EndOf(rows[mine[mid + 1]]) <= rows[mine[k]].time
          BY <2>1, <5>1 DEF Ordered
        <5>3. /\ rows[mine[mid + 1]].time \in Nat /\ EndOf(rows[mine[mid + 1]]) \in Nat
              /\ rows[mine[mid + 1]].time <= EndOf(rows[mine[mid + 1]])
              /\ rows[mine[k]].time \in Nat
          BY <2>1, <2>3, <5>1
        <5>4. \A a, b, c \in Nat : ~(a <= t) /\ a <= b /\ b <= c => ~(c <= t)
          OBVIOUS
        <5>. QED
          BY <2>6, <5>2, <5>3, <5>4
      <4>. QED
        BY <4>1, <4>2
    <3>3. \A k \in 1..w[1] : rows[mine[k]].time <= t
      BY DEF Narrowed
    <3>4. mid - w[1] <= N - (n + 1)
      BY <1>1, <2>1, <2>4
    <3>5. <<w[1], mid>> \in (0..N) \X (0..N) /\ w[1] <= mid
      BY <1>1, <2>1
    <3>. QED
      BY <3>1, <3>2, <3>3, <3>4, <3>5 DEF Narrowed
  <2>. QED
    BY <2>5, <2>6
<1>. QED
  BY <1>2, <1>3

WindowsBy(mine, t, f) ==
  f = [k \in 0..Len(mine) |->
         IF k = 0 THEN <<0, Len(mine)>>
         ELSE LET w == f[k - 1]
                  mid == w[1] + (w[2] - w[1]) \div 2
              IN  IF w[1] >= w[2] THEN w
                  ELSE IF rows[mine[mid + 1]].time <= t THEN <<mid + 1, w[2]>>
                  ELSE <<w[1], mid>>]

\* The loop of the bisection has results.
LEMMA BisectionRuns ==
  ASSUME rows \in Seq(Row), NEW mine \in Seq(1..Len(rows)), NEW t \in Int
  PROVE  \E f : WindowsBy(mine, t, f)
<1>. DEFINE N == Len(mine)
            B == (0..N) \X (0..N)
            step == [nw \in Nat \X B |-> Turn(mine, t, nw[2])]
<1>1. N \in Nat /\ <<0, N>> \in B
  OBVIOUS
<1>2. step \in [Nat \X B -> B]
  <2>1. ASSUME NEW w \in B
        PROVE  Turn(mine, t, w) \in B
    <3>. DEFINE mid == w[1] + (w[2] - w[1]) \div 2
    <3>1. w[1] \in Nat /\ w[2] \in Nat /\ w = <<w[1], w[2]>> /\ w[1] \in 0..N /\ w[2] \in 0..N
      BY <1>1
    <3>2. CASE w[1] >= w[2]
      BY <3>2 DEF Turn
    <3>3. CASE ~(w[1] >= w[2])
      <4>0. mid \in Nat /\ w[1] <= mid /\ mid < w[2]
        BY <3>1, <3>3, MiddleIs
      <4>1. mid \in 0..N /\ mid + 1 \in 0..N
        <5>. HIDE DEF mid
        <5>. QED
          BY <1>1, <3>1, <4>0
      <4>2. Turn(mine, t, w) \in {<<mid + 1, w[2]>>, <<w[1], mid>>}
        BY <3>3 DEF Turn
      <4>. HIDE DEF mid
      <4>. QED
        BY <3>1, <4>1, <4>2
    <3>. QED
      BY <3>2, <3>3
  <2>2. \A nw \in Nat \X B : nw[2] \in B
    OBVIOUS
  <2>. HIDE DEF B
  <2>3. \A nw \in Nat \X B : Turn(mine, t, nw[2]) \in B
    BY <2>1, <2>2
  <2>. QED
    BY <2>3
<1>3. PICK g \in [0..N -> B] :
         g[0] = <<0, N>> /\ \A n \in 1..N : g[n] = step[<<n, g[n - 1]>>]
  <2>. HIDE DEF step, B, N
  <2>1. Turns(B, <<0, N>>, step, N)
    BY <1>1, <1>2, LoopTurns
  <2>. QED
    BY <2>1 DEF Turns
<1>. DEFINE Val(n) == IF n = 0 THEN <<0, N>> ELSE Turn(mine, t, g[n - 1])
<1>4. ASSUME NEW n \in 0..N
      PROVE  g[n] = Val(n)
  <2>1. CASE n = 0
    BY <1>3, <2>1
  <2>2. CASE n # 0
    <3>1. n \in 1..N /\ n \in Nat /\ n - 1 \in 0..N
      BY <1>1, <2>2
    <3>2. g[n - 1] \in B
      BY <1>3, <3>1
    <3>. HIDE DEF B
    <3>3. <<n, g[n - 1]>> \in Nat \X B
      BY <3>1, <3>2
    <3>4. step[<<n, g[n - 1]>>] = Turn(mine, t, g[n - 1])
      BY <3>3
    <3>. HIDE DEF step
    <3>. QED
      BY <1>3, <2>2, <3>1, <3>4
  <2>. QED
    BY <2>1, <2>2
<1>5. g = [n \in 0..N |-> Val(n)]
  <2>1. g = [n \in 0..N |-> g[n]]
    BY <1>3
  <2>. HIDE DEF Val
  <2>. QED
    BY <1>4, <2>1
<1>6. WindowsBy(mine, t, g)
  BY <1>5 DEF WindowsBy, Turn
<1>. QED
  BY <1>6

\* The bisection counts the rows that start at or before t.
LEMMA BisectCounts ==
  ASSUME rows \in Seq(Row), NEW mine \in Seq(1..Len(rows)), Ordered(mine), NEW t \in Int
  PROVE  /\ Bisect(mine, t) \in 0..Len(mine)
         /\ \A k \in 1..Len(mine) : k <= Bisect(mine, t) <=> rows[mine[k]].time <= t
<1>. DEFINE f == CHOOSE h : WindowsBy(mine, t, h)
            N == Len(mine)
<1>1. N \in Nat
  OBVIOUS
<1>2. WindowsBy(mine, t, f)
  BY BisectionRuns
<1>3. Bisect(mine, t) = f[N][1]
  BY DEF Bisect, WindowsBy
<1>. HIDE DEF f
<1>4. ASSUME NEW n \in 0..N
      PROVE  f[n] = IF n = 0 THEN <<0, N>> ELSE Turn(mine, t, f[n - 1])
  BY <1>2 DEF WindowsBy, Turn
<1>. DEFINE T == {n \in Nat : n <= N => Narrowed(mine, t, n, f[n])}
<1>5. 0 \in T
  <2>1. f[0] = <<0, N>>
    BY <1>1, <1>4
  <2>2. Narrowed(mine, t, 0, <<0, N>>)
    BY <1>1 DEF Narrowed
  <2>. QED
    BY <2>1, <2>2
<1>6. ASSUME NEW n \in Nat, n \in T
      PROVE  n + 1 \in T
  <2>. SUFFICES ASSUME n + 1 <= N
                PROVE  Narrowed(mine, t, n + 1, f[n + 1])
    OBVIOUS
  <2>1. Narrowed(mine, t, n, f[n])
    BY <1>1, <1>6
  <2>2. n + 1 \in 0..N /\ n + 1 # 0 /\ (n + 1) - 1 = n
    BY <1>1
  <2>3. f[n + 1] = Turn(mine, t, f[n])
    BY <1>4, <2>2
  <2>. HIDE DEF N
  <2>. QED
    BY <2>1, <2>3, TurnNarrows
<1>. HIDE DEF T
<1>7. N \in T
  BY <1>1, <1>5, <1>6, TurnsFromZero
<1>8. Narrowed(mine, t, N, f[N])
  BY <1>1, <1>7 DEF T
<1>. DEFINE b == f[N][1]
<1>9. /\ b \in 0..N /\ f[N][2] = b
      /\ \A k \in 1..b : rows[mine[k]].time <= t
      /\ \A k \in (b + 1)..N : ~(rows[mine[k]].time <= t)
  <2>1. /\ f[N][1] \in 0..N /\ f[N][2] \in 0..N /\ f[N][1] <= f[N][2]
        /\ f[N][2] - f[N][1] <= N - N \/ f[N][1] = f[N][2]
    BY <1>8 DEF Narrowed
  <2>2. f[N][1] = f[N][2]
    BY <1>1, <2>1
  <2>. QED
    BY <1>8, <2>1, <2>2 DEF Narrowed
<1>. HIDE DEF b
<1>10. ASSUME NEW k \in 1..N
       PROVE  k <= b <=> rows[mine[k]].time <= t
  <2>1. CASE k <= b
    <3>1. k \in 1..b
      BY <1>9, <2>1
    <3>. QED
      BY <1>9, <2>1, <3>1
  <2>2. CASE ~(k <= b)
    <3>1. k \in (b + 1)..N
      BY <1>9, <2>2
    <3>. QED
      BY <1>9, <2>2, <3>1
  <2>. QED
    BY <2>1, <2>2
<1>. QED
  BY <1>3, <1>9, <1>10 DEF b

-------------------------------------------------------------------------------
(***************************************************************************)
(* The lookup of a step.                                                   *)
(***************************************************************************)
Covers(s, t, k) == k \in 1..Len(s) /\ IsTimeInLeaf(rows[s[k]], t)

\* The least of a set of one.
LEMMA MinOfOne ==
  ASSUME NEW k \in Nat
  PROVE  Min({k}) = k
<1>1. \A x \in {k} : (\A y \in {k} : x =< y) => x = k
  OBVIOUS
<1>2. k \in {k} /\ \A y \in {k} : k =< y
  OBVIOUS
<1>. QED
  BY <1>1, <1>2, Zenon DEF Min

\* When one candidate covers the step and no other does, it is the answer.
LEMMA OnlyCovering ==
  ASSUME NEW s \in Seq(Nat), NEW t, NEW k, Covers(s, t, k), \A l : Covers(s, t, l) => l = k
  PROVE  FirstCovering(s, t) = s[k]
<1>. DEFINE hits == {l \in 1..Len(s) : IsTimeInLeaf(rows[s[l]], t)}
<1>1. hits = {k} /\ k \in 1..Len(s)
  BY DEF Covers
<1>2. Len(s) \in Nat /\ k \in Nat
  BY <1>1
<1>3. Min(hits) = k
  BY <1>1, <1>2, MinOfOne
<1>4. FirstCovering(s, t) = IF hits = {} THEN 0 ELSE s[Min(hits)]
  BY DEF FirstCovering
<1>. HIDE DEF hits
<1>. QED
  BY <1>1, <1>3, <1>4

\* When none does there is no answer.
LEMMA NoneCovering ==
  ASSUME NEW s \in Seq(Nat), NEW t, \A l : ~Covers(s, t, l)
  PROVE  FirstCovering(s, t) = 0
<1>1. {l \in 1..Len(s) : IsTimeInLeaf(rows[s[l]], t)} = {}
  BY DEF Covers
<1>. QED
  BY <1>1 DEF FirstCovering

(***************************************************************************)
(* Rows that follow one another without overlap: of the sweep over all of  *)
(* them, only the last one that starts at or before t can be the answer.   *)
(***************************************************************************)
LEMMA LastCanCover ==
  ASSUME rows \in Seq(Row), NEW mine \in Seq(1..Len(rows)), Ordered(mine), NEW t \in Int,
         NEW l, Covers(mine, t, l)
  PROVE  Bisect(mine, t) = l
<1>. DEFINE n == Bisect(mine, t)
<1>1. /\ n \in 0..Len(mine) /\ Len(mine) \in Nat
      /\ \A k \in 1..Len(mine) : k <= n <=> rows[mine[k]].time <= t
  <2>1. /\ Bisect(mine, t) \in 0..Len(mine)
        /\ \A k \in 1..Len(mine) : k <= Bisect(mine, t) <=> rows[mine[k]].time <= t
    <3>. HIDE DEF n
    <3>. QED
      BY BisectCounts, Zenon
  <2>2. Len(mine) \in Nat
    OBVIOUS
  <2>. HIDE DEF n
  <2>. QED
    BY <2>1, <2>2, Zenon DEF n
<1>. HIDE DEF n
<1>2. l \in 1..Len(mine) /\ rows[mine[l]].time <= t /\ t < EndOf(rows[mine[l]])
  BY DEF Covers, IsTimeInLeaf, EndOf
<1>3. l <= n
  BY <1>1, <1>2
<1>4. ASSUME l < n
      PROVE  FALSE
  <2>1. n \in 1..Len(mine)
    BY <1>1, <1>2, <1>4
  <2>2. EndOf(rows[mine[l]]) <= rows[mine[n]].time
    BY <1>2, <1>4, <2>1 DEF Ordered
  <2>3. rows[mine[n]].time <= t
    BY <1>1, <2>1
  <2>4. rows[mine[l]] \in Row /\ rows[mine[n]] \in Row
    BY <1>2, <2>1, EndIsNat
  <2>5. EndOf(rows[mine[l]]) \in Nat /\ rows[mine[n]].time \in Nat
    <3>1. \A r \in Row : r.time \in Nat /\ EndOf(r) \in Nat
      BY DEF Row, EndOf
    <3>. QED
      BY <2>4, <3>1
  <2>. QED
    BY <1>2, <2>2, <2>3, <2>5
<1>5. n = l
  BY <1>1, <1>2, <1>3, <1>4
<1>. QED
  BY <1>5 DEF n

\* The narrowed lookup answers what the sweep answers.
LEMMA LookupIsSweep ==
  ASSUME rows \in Seq(Row), NEW p, NEW t \in Int
  PROVE  Lookup(p, t) = FirstCovering(RowsOf(p), t)
<1>. DEFINE mine == RowsOf(p)
            n == Bisect(mine, t)
<1>1. mine \in Seq(1..Len(rows)) /\ Len(rows) \in Nat
  BY RowsOfLists DEF Lists
<1>2. Lookup(p, t) = FirstCovering(IF Unsafe(mine) THEN mine
                                   ELSE IF n = 0 THEN << >> ELSE <<mine[n]>>, t)
  BY DEF Lookup, RowsForTime
<1>3. mine \in Seq(Nat) /\ Len(mine) \in Nat
  <2>1. \A k \in 1..Len(mine) : mine[k] \in Nat
    BY <1>1
  <2>. QED
    BY <1>1, <2>1
<1>. HIDE DEF mine
<1>4. CASE Unsafe(mine)
  BY <1>2, <1>4 DEF mine
<1>5. CASE ~Unsafe(mine)
  <2>1. Ordered(mine)
    BY <1>1, <1>5, SafeIsOrdered
  <2>2. n \in 0..Len(mine)
    BY <1>1, <2>1, BisectCounts
  <2>3. \A l : Covers(mine, t, l) => n = l
    BY <1>1, <2>1, LastCanCover
  <2>. HIDE DEF n
  <2>4. CASE n = 0
    <3>1. \A l : ~Covers(mine, t, l)
      BY <2>3, <2>4 DEF Covers
    <3>2. FirstCovering(mine, t) = 0
      BY <1>3, <3>1, NoneCovering
    <3>3. << >> \in Seq(Nat) /\ \A l : ~Covers(<< >>, t, l)
      BY DEF Covers
    <3>4. FirstCovering(<< >>, t) = 0
      BY <3>3, NoneCovering
    <3>. QED
      BY <1>2, <1>5, <2>4, <3>2, <3>4 DEF mine
  <2>5. CASE n # 0
    <3>. DEFINE one == <<mine[n]>>
    <3>1. n \in 1..Len(mine) /\ mine[n] \in Nat
      BY <1>3, <2>2, <2>5
    <3>2. one \in Seq(Nat) /\ Len(one) = 1 /\ one[1] = mine[n]
      BY <3>1
    <3>3. Lookup(p, t) = FirstCovering(one, t)
      BY <1>2, <1>5, <2>5
    <3>. HIDE DEF one
    <3>4. CASE Covers(mine, t, n)
      <4>1. FirstCovering(mine, t) = mine[n]
        BY <1>3, <2>3, <3>4, OnlyCovering
      <4>2. Covers(one, t, 1) /\ \A l : Covers(one, t, l) => l = 1
        BY <3>2, <3>4 DEF Covers
      <4>3. FirstCovering(one, t) = one[1]
        BY <3>2, <4>2, OnlyCovering
      <4>. QED
        BY <3>2, <3>3, <4>1, <4>3 DEF mine
    <3>5. CASE ~Covers(mine, t, n)
      <4>1. \A l : ~Covers(mine, t, l)
        BY <2>3, <3>5
      <4>2. FirstCovering(mine, t) = 0
        BY <1>3, <4>1, NoneCovering
      <4>3. \A l : ~Covers(one, t, l)
        BY <3>1, <3>2, <3>5 DEF Covers
      <4>4. FirstCovering(one, t) = 0
        BY <3>2, <4>3, NoneCovering
      <4>. QED
        BY <3>3, <4>2, <4>4 DEF mine
    <3>. QED
      BY <3>4, <3>5
  <2>. QED
    BY <2>4, <2>5
<1>. QED
  BY <1>4, <1>5

(***************************************************************************)
(* For every file there can be, the narrowed lookup answers what the sweep *)
(* over all rows of the path answers: note_row_order() lets no path        *)
(* through whose rows a bisection could miss.                              *)
(***************************************************************************)
THEOREM NarrowingLosesNothing == Spec => []NarrowingIsSweep
<1>1. IInv => NarrowingIsSweep
  BY LookupIsSweep DEF IInv, Types, NarrowingIsSweep
<1>. QED
  BY <1>1, Invariance, PTL

\* A lookup of a step of a number gives the row it was written in.
LEMMA OwnRow ==
  ASSUME IInv, NEW i \in 1..Len(rows), rows[i].path \notin Strings,
         NEW t \in rows[i].time .. rows[i].time + rows[i].steps - 1
  PROVE  Lookup(rows[i].path, t) = i
<1>. DEFINE p == rows[i].path
            mine == RowsOf(p)
<1>1. rows \in Seq(Row) /\ Len(rows) \in Nat
  BY DEF IInv, Types
<1>2. /\ Len(rows) <= Len(All) /\ Len(All) \in Nat
      /\ \A j \in 1..Len(rows) : j \in 1..Len(All) /\ All[j] = rows[j]
  BY <1>1 DEF IInv, Types, All
<1>3. \A j \in 1..Len(rows) : rows[j].path = p =>
        /\ rows[j].time \in Nat /\ rows[j].steps \in Nat
        /\ EndOf(rows[j]) = rows[j].time + rows[j].steps
  <2>1. \A j \in 1..Len(rows) : rows[j] \in Row
    BY <1>1, EndIsNat
  <2>2. \A j \in 1..Len(rows) : rows[j].path \notin Strings => rows[j].steps = rows[j].units
    BY <1>2 DEF IInv, Weighed
  <2>3. \A r \in Row : r.time \in Nat /\ r.steps \in Nat
    BY DEF Row
  <2>. QED
    BY <2>1, <2>2, <2>3 DEF EndOf
<1>4. \A j, k \in 1..Len(rows) :
        j < k /\ rows[j].path = p /\ rows[k].path = p =>
          rows[j].time + rows[j].steps <= rows[k].time
  <2>1. \A j, k \in 1..Len(All) :
          j < k /\ All[j].path = All[k].path /\ Counted(All[j].path) =>
            All[j].time + All[j].steps <= All[k].time
    BY DEF IInv, SpansDisjoint, All
  <2>2. Counted(p)
    BY DEF Counted
  <2>. HIDE DEF p
  <2>. QED
    BY <1>2, <2>1, <2>2
<1>5. Lists(rows, p, Len(rows), mine)
  BY <1>1, RowsOfLists
<1>6. Lookup(p, t) = FirstCovering(mine, t)
  <2>1. t \in Int
    OBVIOUS
  <2>. QED
    BY <1>1, <2>1, LookupIsSweep
<1>. HIDE DEF mine
<1>7. PICK k \in 1..Len(mine) : mine[k] = i
  BY <1>5 DEF Lists
<1>8. mine \in Seq(Nat) /\ Len(mine) \in Nat
      /\ \A l \in 1..Len(mine) : mine[l] \in 1..Len(rows) /\ rows[mine[l]].path = p
  <2>1. mine \in Seq(1..Len(rows))
    BY <1>5 DEF Lists
  <2>2. \A l \in 1..Len(mine) : mine[l] \in 1..Len(rows) /\ mine[l] \in Nat
    BY <1>1, <2>1
  <2>. QED
    BY <1>5, <2>1, <2>2 DEF Lists
<1>9. \A j \in 1..Len(rows) : rows[j].path = p =>
        (IsTimeInLeaf(rows[j], t) <=> rows[j].time <= t /\ t < rows[j].time + rows[j].steps)
  BY <1>3 DEF IsTimeInLeaf, EndOf
<1>10. Covers(mine, t, k)
  <2>1. rows[i].time <= t /\ t < rows[i].time + rows[i].steps
    BY <1>3
  <2>. QED
    BY <1>7, <1>9, <2>1 DEF Covers
<1>11. ASSUME NEW l, Covers(mine, t, l)
       PROVE  l = k
  <2>. DEFINE j == mine[l]
  <2>1. l \in 1..Len(mine) /\ j \in 1..Len(rows) /\ rows[j].path = p
    BY <1>8, <1>11 DEF Covers
  <2>2. rows[j].time <= t /\ t < rows[j].time + rows[j].steps
    BY <1>9, <1>11, <2>1 DEF Covers
  <2>3. rows[i].time <= t /\ t < rows[i].time + rows[i].steps
    BY <1>3
  <2>4. /\ rows[i].time \in Nat /\ rows[i].steps \in Nat
        /\ rows[j].time \in Nat /\ rows[j].steps \in Nat
    BY <1>3, <2>1
  <2>. HIDE DEF j
  <2>5. \A a, b, c, d \in Nat :
          a <= t /\ t < a + b /\ c <= t /\ t < c + d => ~(a + b <= c)
    OBVIOUS
  <2>6. ~(j < i)
    <3>1. j < i => rows[j].time + rows[j].steps <= rows[i].time
      BY <1>4, <2>1
    <3>. QED
      BY <2>2, <2>3, <2>4, <2>5, <3>1, Zenon
  <2>7. ~(i < j)
    <3>1. i < j => rows[i].time + rows[i].steps <= rows[j].time
      BY <1>4, <2>1
    <3>. QED
      BY <2>2, <2>3, <2>4, <2>5, <3>1, Zenon
  <2>8. mine[l] = mine[k] /\ mine[k] \in Nat
    <3>1. i \in Nat /\ j \in Nat
      BY <1>1, <2>1
    <3>2. j = i
      BY <2>6, <2>7, <3>1
    <3>. QED
      BY <1>7, <3>1, <3>2 DEF j
  <2>9. \A a, b \in 1..Len(mine) : a < b => mine[a] < mine[b]
    BY <1>5 DEF Lists
  <2>10. ~(l < k) /\ ~(k < l)
    BY <2>1, <2>8, <2>9
  <2>. QED
    BY <1>8, <2>1, <2>10
<1>12. FirstCovering(mine, t) = mine[k]
  BY <1>8, <1>10, <1>11, OnlyCovering
<1>. QED
  BY <1>6, <1>7, <1>12

\* So does every read between two operations.
LEMMA OwnRowFound ==
  ASSUME IInv
  PROVE  LookupFindsOwnRow
BY OwnRow DEF LookupFindsOwnRow

(***************************************************************************)
(* A step a number was written for is found again in its own row: the      *)
(* slices of a path never share a step, and the row weighs what it took.   *)
(***************************************************************************)
THEOREM StepsAreFound == Spec => []LookupFindsOwnRow
<1>1. IInv => LookupFindsOwnRow
  BY OwnRowFound
<1>. QED
  BY <1>1, Invariance, PTL

-------------------------------------------------------------------------------
(***************************************************************************)
(* What the timebase holds: its samples, read row by row.                  *)
(***************************************************************************)
Weight(row) == IF row.path = Timebase THEN row.steps ELSE 0

ReadBy(rs, f) ==
  f = [n \in 0..Len(rs) |->
         IF n = 0 THEN 0
         ELSE IF rs[n].path = Timebase THEN f[n - 1] + rs[n].steps
         ELSE f[n - 1]]

\* A row of the timebase adds the steps it took, another row nothing.
LEMMA WeightIsNat ==
  ASSUME NEW row \in Row
  PROVE  Weight(row) \in Nat
BY DEF Weight, Row

\* The loop that concatenates the samples of the rows has results.
LEMMA ReadingRuns ==
  ASSUME NEW rs \in Seq(Row)
  PROVE  \E f \in [0..Len(rs) -> Nat] : ReadBy(rs, f)
<1>. DEFINE N == Len(rs)
            step == [nf \in Nat \X Nat |->
                       IF nf[1] \in 1..N THEN nf[2] + Weight(rs[nf[1]]) ELSE nf[2]]
<1>1. N \in Nat /\ \A n \in 1..N : Weight(rs[n]) \in Nat
  BY EndIsNat, WeightIsNat
<1>2. step \in [Nat \X Nat -> Nat]
  <2>1. ASSUME NEW n \in Nat, NEW b \in Nat
        PROVE  (IF n \in 1..N THEN b + Weight(rs[n]) ELSE b) \in Nat
    BY <1>1
  <2>. QED
    BY <2>1
<1>3. PICK g \in [0..N -> Nat] :
         g[0] = 0 /\ \A n \in 1..N : g[n] = step[<<n, g[n - 1]>>]
  <2>. HIDE DEF step, N
  <2>0. 0 \in Nat
    OBVIOUS
  <2>1. Turns(Nat, 0, step, N)
    BY <1>1, <1>2, <2>0, LoopTurns
  <2>. QED
    BY <2>1 DEF Turns
<1>. DEFINE Val(n) == IF n = 0 THEN 0
                      ELSE IF rs[n].path = Timebase THEN g[n - 1] + rs[n].steps ELSE g[n - 1]
<1>4. ASSUME NEW n \in 0..N
      PROVE  g[n] = Val(n)
  <2>1. CASE n = 0
    BY <1>3, <2>1
  <2>2. CASE n # 0
    <3>0. n \in 1..N /\ n \in Nat /\ n - 1 \in 0..N
      BY <1>1, <2>2
    <3>1. g[n - 1] \in Nat
      BY <1>3, <3>0
    <3>2. step[<<n, g[n - 1]>>] = g[n - 1] + Weight(rs[n])
      BY <3>0, <3>1
    <3>3. g[n] = g[n - 1] + Weight(rs[n])
      BY <1>3, <3>0, <3>2
    <3>. QED
      BY <2>2, <3>1, <3>3 DEF Weight
  <2>. QED
    BY <2>1, <2>2
<1>5. g = [n \in 0..N |-> Val(n)]
  <2>1. g = [n \in 0..N |-> g[n]]
    BY <1>3
  <2>. HIDE DEF Val
  <2>. QED
    BY <1>4, <2>1
<1>6. ReadBy(rs, g)
  BY <1>5 DEF ReadBy
<1>. QED
  BY <1>3, <1>6

\* What is read of the first n rows.
Reading(rs, f) ==
  /\ f \in [0..Len(rs) -> Nat] /\ f[0] = 0
  /\ \A n \in 1..Len(rs) : f[n] = f[n - 1] + Weight(rs[n])
  /\ Samples(rs) = f[Len(rs)]

\* Samples is what the loop over the rows returns.
LEMMA SamplesAreRead ==
  ASSUME NEW rs \in Seq(Row)
  PROVE  \E f : Reading(rs, f)
<1>. DEFINE f == CHOOSE h : ReadBy(rs, h)
            N == Len(rs)
<1>1. N \in Nat
  OBVIOUS
<1>2. ReadBy(rs, f)
  BY ReadingRuns
<1>3. Samples(rs) = f[N]
  BY DEF Samples, ReadBy
<1>4. PICK g \in [0..N -> Nat] : ReadBy(rs, g)
  BY ReadingRuns
<1>. HIDE DEF f
<1>5. ASSUME NEW h, ReadBy(rs, h), NEW n \in 0..N
      PROVE  h[n] = IF n = 0 THEN 0
                    ELSE IF rs[n].path = Timebase THEN h[n - 1] + rs[n].steps ELSE h[n - 1]
  BY <1>5 DEF ReadBy
<1>. DEFINE T == {n \in Nat : n <= N => f[n] = g[n]}
<1>6. 0 \in T
  BY <1>1, <1>2, <1>4, <1>5
<1>7. ASSUME NEW n \in Nat, n \in T
      PROVE  n + 1 \in T
  <2>. SUFFICES ASSUME n + 1 <= N
                PROVE  f[n + 1] = g[n + 1]
    OBVIOUS
  <2>1. f[n] = g[n] /\ n + 1 \in 0..N /\ n + 1 # 0 /\ (n + 1) - 1 = n
    BY <1>1, <1>7
  <2>2. f[n + 1] = IF rs[n + 1].path = Timebase THEN f[n] + rs[n + 1].steps ELSE f[n]
    BY <1>2, <1>5, <2>1
  <2>3. g[n + 1] = IF rs[n + 1].path = Timebase THEN g[n] + rs[n + 1].steps ELSE g[n]
    BY <1>4, <1>5, <2>1
  <2>. QED
    BY <2>1, <2>2, <2>3
<1>8. Samples(rs) = g[N]
  <2>. HIDE DEF T
  <2>1. \A n \in Nat : n \in T
    BY <1>6, <1>7, TurnsFromZero
  <2>2. N \in T
    BY <1>1, <2>1
  <2>. QED
    BY <1>1, <1>3, <2>2 DEF T
<1>9. \A n \in 1..N : g[n] = g[n - 1] + Weight(rs[n])
  <2>. SUFFICES ASSUME NEW n \in 1..N
                PROVE  g[n] = g[n - 1] + Weight(rs[n])
    OBVIOUS
  <2>1. n \in 0..N /\ n # 0 /\ n - 1 \in 0..N
    BY <1>1
  <2>2. g[n - 1] \in Nat
    BY <1>4, <2>1
  <2>. QED
    BY <1>4, <1>5, <2>1, <2>2 DEF Weight
<1>10. g[0] = 0
  BY <1>1, <1>4, <1>5
<1>11. Reading(rs, g)
  BY <1>4, <1>8, <1>9, <1>10 DEF Reading
<1>. QED
  BY <1>11

\* One row more.
LEMMA SamplesGrow ==
  ASSUME NEW rs \in Seq(Row), NEW longer \in Seq(Row), Len(longer) = Len(rs) + 1,
         \A i \in 1..Len(rs) : longer[i] = rs[i]
  PROVE  /\ Samples(rs) \in Nat
         /\ Samples(longer) = Samples(rs) + Weight(longer[Len(rs) + 1])
<1>. DEFINE N == Len(rs)
<1>1. N \in Nat
  OBVIOUS
<1>2. PICK f : Reading(rs, f)
  BY SamplesAreRead
<1>3. PICK g : Reading(longer, g)
  BY SamplesAreRead
<1>. DEFINE T == {n \in Nat : n <= N => f[n] = g[n]}
<1>4. 0 \in T
  BY <1>2, <1>3 DEF Reading
<1>5. ASSUME NEW n \in Nat, n \in T
      PROVE  n + 1 \in T
  <2>. SUFFICES ASSUME n + 1 <= N
                PROVE  f[n + 1] = g[n + 1]
    OBVIOUS
  <2>1. f[n] = g[n] /\ n + 1 \in 1..N /\ n + 1 \in 1..Len(longer) /\ (n + 1) - 1 = n
    BY <1>1, <1>5
  <2>2. longer[n + 1] = rs[n + 1]
    BY <2>1
  <2>3. f[n + 1] = f[n] + Weight(rs[n + 1])
    BY <1>2, <2>1 DEF Reading
  <2>4. g[n + 1] = g[n] + Weight(longer[n + 1])
    BY <1>3, <2>1 DEF Reading
  <2>. QED
    BY <2>1, <2>2, <2>3, <2>4
<1>6. f[N] = g[N]
  <2>. HIDE DEF T
  <2>1. \A n \in Nat : n \in T
    BY <1>4, <1>5, TurnsFromZero
  <2>2. N \in T
    BY <1>1, <2>1
  <2>. QED
    BY <1>1, <2>2 DEF T
<1>7. f[N] \in Nat /\ Samples(rs) = f[N]
  BY <1>1, <1>2 DEF Reading
<1>8. Samples(longer) = g[N + 1] /\ g[N + 1] = g[N] + Weight(longer[N + 1])
  <2>1. N + 1 \in 1..Len(longer) /\ (N + 1) - 1 = N
    BY <1>1
  <2>. QED
    BY <1>3, <2>1 DEF Reading
<1>. QED
  BY <1>6, <1>7, <1>8

\* An empty file has no times.
LEMMA NoSamples ==
  Samples(<< >>) = 0
<1>1. << >> \in Seq(Row) /\ Len(<< >>) = 0
  OBVIOUS
<1>2. PICK f : Reading(<< >>, f)
  BY <1>1, SamplesAreRead
<1>. QED
  BY <1>1, <1>2 DEF Reading

\* The number of times is a number.
LEMMA SamplesAreNat ==
  ASSUME NEW rs \in Seq(Row)
  PROVE  Samples(rs) \in Nat
<1>1. PICK f : Reading(rs, f)
  BY SamplesAreRead
<1>. QED
  BY <1>1 DEF Reading

-------------------------------------------------------------------------------
(***************************************************************************)
(* The timebase has a sample for every step of the file: it is written     *)
(* without a gap (Unbroken), no number reaches further (Covered), and in   *)
(* an array all signals are at one element (InPlace).  Strings in an array *)
(* weigh more than the steps they take, and move it on: no file is to have *)
(* both (Bare).  The last part counts the samples an operation is still    *)
(* going to add (Due).                                                     *)
(***************************************************************************)
Bare == inAoS => file.signals \cap Strings = {}

Unbroken == IsEnd(Samples(All), Timebase, All)

Covered ==
  op = "none" =>
    \A i \in 1..Len(rows) : rows[i].path \notin Strings => EndOf(rows[i]) <= Samples(rows)

Ahead(s) == IF s \in done THEN 1 ELSE 0

InPlace ==
  inAoS /\ op # "none" =>
    /\ width = 1
    /\ counters[Timebase] = pos + Ahead(Timebase)
    /\ \A s \in Signals : counters[s] <= pos + Ahead(s)

Due == IF op # "none" /\ Timebase \notin done THEN width ELSE 0

Room == IF inAoS THEN ops + MaxElements ELSE ops * file.steps

Fits == Samples(All) + Due <= Room

Whole == Unbroken /\ Covered /\ InPlace /\ Fits

ReadInv == AlignInv /\ ops \in 0..file.ops /\ (Bare => Whole)

\* What AlignInv says of the types, and of the sums made from them.
LEMMA ReadTypes ==
  ASSUME AlignInv, ops \in 0..file.ops
  PROVE  /\ Types /\ rows \in Seq(Row) /\ buf \in Seq(Row) /\ All \in Seq(Row)
         /\ Samples(All) \in Nat /\ Samples(rows) \in Nat /\ width \in Nat \ {0}
         /\ counters[Timebase] \in Nat /\ pos \in Nat /\ ops \in Nat /\ Due \in Nat
         /\ file.steps \in Nat /\ file.ops \in Nat /\ MaxElements \in Nat
         /\ Room \in Nat /\ inAoS \in BOOLEAN
         /\ \A s \in Signals : counters[s] \in Nat
         /\ Timebase \in Exact /\ Timebase \in Signals /\ Timebase \notin Strings
<1>1. /\ Types /\ rows \in Seq(Row) /\ buf \in Seq(Row) /\ width \in Nat \ {0} /\ pos \in Nat
      /\ counters[Timebase] \in Nat /\ \A s \in Signals : counters[s] \in Nat
      /\ Timebase \in Signals /\ Timebase \notin Strings /\ inAoS \in BOOLEAN
  BY TimebaseIs, FileIs, SignalsAssumption DEF AlignInv, IInv, Types
<1>2. All \in Seq(Row)
  BY <1>1, ConcatProperties DEF All
<1>3. Samples(All) \in Nat /\ Samples(rows) \in Nat
  BY <1>1, <1>2, SamplesAreNat
<1>4. file.steps \in Nat /\ file.ops \in Nat /\ MaxElements \in Nat /\ ops \in Nat
  BY <1>1, FilesAssumption, BoundsAssumption DEF Types
<1>5. Timebase \in Exact
  BY <1>1 DEF Exact, Keys
<1>6. Due \in Nat
  BY <1>1 DEF Due
<1>7. Room \in Nat
  <2>1. ops * file.steps \in Nat /\ ops + MaxElements \in Nat
    BY <1>4
  <2>. QED
    BY <2>1 DEF Room
<1>. QED
  BY <1>1, <1>2, <1>3, <1>4, <1>5, <1>6, <1>7

\* While an engine is open, the timebase counts its samples.
LEMMA CounterIsSamples ==
  ASSUME AlignInv, ops \in 0..file.ops, Unbroken, mode # "NONE"
  PROVE  counters[Timebase] = Samples(All)
<1>1. IsEnd(counters[Timebase], Timebase, All)
  BY ReadTypes DEF AlignInv, IInv, Reached
<1>2. All \in Seq(Row) /\ counters[Timebase] \in Nat /\ Samples(All) \in Nat
  BY ReadTypes
<1>. QED
  BY <1>1, <1>2, EndIsOne DEF Unbroken

\* A new file is whole: it has nothing.
LEMMA WholeInit ==
  ASSUME Init
  PROVE  ops \in 0..file.ops /\ Whole
<1>1. AlignInv
  BY AlignInit
<1>2. /\ rows = << >> /\ buf = << >> /\ op = "none" /\ ops = 0 /\ file \in Files
  BY DEF Init
<1>3. All = << >> /\ Len(All) = 0
  BY <1>2, EmptySeq, ConcatEmptySeq DEF All
<1>4. ops \in 0..file.ops
  BY <1>2, FilesAssumption
<1>5. Samples(All) = 0 /\ Len(rows) = 0
  BY <1>2, <1>3, NoSamples
<1>6. Unbroken
  BY <1>3, <1>5 DEF Unbroken, IsEnd
<1>7. Covered /\ InPlace
  BY <1>2, <1>5 DEF Covered, InPlace
<1>8. Fits
  <2>1. Due = 0 /\ Room \in Nat
    BY <1>1, <1>2, <1>4, ReadTypes DEF Due
  <2>. QED
    BY <1>5, <2>1 DEF Fits
<1>. QED
  BY <1>4, <1>6, <1>7, <1>8 DEF Whole

\* A row of another signal leaves the timebase alone.
LEMMA OtherRowKeeps ==
  ASSUME AlignInv, ops \in 0..file.ops, Unbroken, NEW r \in Row, r.path # Timebase,
         rows' = rows, buf' = Append(buf, r), UNCHANGED inAoS
  PROVE  Samples(All)' = Samples(All) /\ Unbroken'
<1>1. /\ rows \in Seq(Row) /\ buf \in Seq(Row) /\ All \in Seq(Row) /\ Samples(All) \in Nat
      /\ Timebase \in Signals
  BY ReadTypes
<1>2. /\ Len(All) \in Nat /\ Len(All') = Len(All) + 1
      /\ \A i \in 1..Len(All) : All'[i] = All[i]
      /\ All'[Len(All) + 1] = r /\ buf' \in Seq(Row)
  BY <1>1, AllGrows
<1>3. All' \in Seq(Row)
  BY <1>1, <1>2, ConcatProperties DEF All
<1>4. Samples(All') = Samples(All)
  <2>1. Samples(All') = Samples(All) + Weight(All'[Len(All) + 1])
    BY <1>1, <1>2, <1>3, SamplesGrow
  <2>2. Weight(r) = 0
    BY DEF Weight
  <2>. QED
    BY <1>1, <1>2, <2>1, <2>2
<1>5. Unbroken'
  <2>1. Timebase # Aos
    BY <1>1, SignalsAssumption
  <2>2. \A i \in 1..Len(All') :
          All'[i].path = Timebase => i \in 1..Len(All) /\ All'[i] = All[i]
    BY <1>2
  <2>3. \A i \in 1..Len(All) : i \in 1..Len(All') /\ All'[i] = All[i]
    BY <1>2
  <2>4. /\ \A i \in 1..Len(All) : All[i].path = Timebase => EndOf(All[i]) <= Samples(All)
        /\ \/ Samples(All) = 0
           \/ \E i \in 1..Len(All) : All[i].path = Timebase /\ EndOf(All[i]) = Samples(All)
    BY <2>1 DEF Unbroken, IsEnd, Of
  <2>5. /\ \A i \in 1..Len(All') : All'[i].path = Timebase => EndOf(All'[i]) <= Samples(All')
        /\ \/ Samples(All') = 0
           \/ \E i \in 1..Len(All') : All'[i].path = Timebase /\ EndOf(All'[i]) = Samples(All')
    BY <1>4, <2>2, <2>3, <2>4
  <2>. QED
    BY <2>1, <2>5 DEF Unbroken, IsEnd, Of
<1>. QED
  BY <1>4, <1>5

\* A row of the timebase, at the end of what it has.
LEMMA TimebaseRowKeeps ==
  ASSUME AlignInv, ops \in 0..file.ops, Unbroken, NEW r \in Row, r.path = Timebase,
         r.time = Samples(All), r.units = r.steps,
         rows' = rows, buf' = Append(buf, r), UNCHANGED inAoS
  PROVE  Samples(All)' = Samples(All) + r.steps /\ Unbroken'
<1>1. /\ rows \in Seq(Row) /\ buf \in Seq(Row) /\ All \in Seq(Row) /\ Samples(All) \in Nat
      /\ Timebase \in Signals
  BY ReadTypes
<1>2. /\ Len(All) \in Nat /\ Len(All') = Len(All) + 1
      /\ \A i \in 1..Len(All) : All'[i] = All[i]
      /\ All'[Len(All) + 1] = r /\ buf' \in Seq(Row)
  BY <1>1, AllGrows
<1>3. All' \in Seq(Row)
  BY <1>1, <1>2, ConcatProperties DEF All
<1>4. Samples(All') = Samples(All) + r.steps
  <2>1. Samples(All') = Samples(All) + Weight(All'[Len(All) + 1])
    BY <1>1, <1>2, <1>3, SamplesGrow
  <2>2. Weight(r) = r.steps
    BY DEF Weight
  <2>. QED
    BY <1>1, <1>2, <2>1, <2>2
<1>5. r.steps \in Nat /\ EndOf(r) = Samples(All) + r.steps
  BY DEF Row, EndOf
<1>6. ASSUME NEW i \in 1..Len(All'), All'[i].path = Timebase
      PROVE  EndOf(All'[i]) <= Samples(All')
  <2>1. CASE i = Len(All) + 1
    BY <1>1, <1>2, <1>4, <1>5, <2>1
  <2>2. CASE i # Len(All) + 1
    <3>1. i \in 1..Len(All) /\ All'[i] = All[i]
      BY <1>2, <2>2
    <3>2. Of(Timebase, All[i])
      BY <1>6, <3>1 DEF Of
    <3>3. EndOf(All[i]) <= Samples(All) /\ EndOf(All[i]) \in Nat
      BY <1>1, <3>1, <3>2, EndIsNat DEF Unbroken, IsEnd
    <3>. QED
      BY <1>1, <1>4, <1>5, <3>1, <3>3
  <2>. QED
    BY <2>1, <2>2
<1>7. Len(All) + 1 \in 1..Len(All') /\ All'[Len(All) + 1].path = Timebase
      /\ EndOf(All'[Len(All) + 1]) = Samples(All')
  BY <1>2, <1>4, <1>5
<1>8. Unbroken'
  BY <1>1, <1>6, <1>7, SignalsAssumption DEF Unbroken, IsEnd, Of
<1>. QED
  BY <1>4, <1>8

\* What is written in an array is written at its element.
LEMMA WrittenInPlace ==
  ASSUME Types, inAoS, op # "none", InPlace, NEW s \in Signals, s \notin done
  PROVE  width = 1 /\ BaseTime(s, width) = pos
<1>1. /\ width = 1 /\ counters[s] \in Nat /\ counters[Timebase] \in Nat /\ pos \in Nat
      /\ counters[s] <= pos /\ counters[Timebase] <= pos + 1
  BY TimebaseIs DEF InPlace, Ahead
<1>2. BaseTime(s, width) = IF base[s] > 0 /\ counters[Timebase] >= 1
                           THEN Larger(Larger(pos, counters[s]), counters[Timebase] - 1)
                           ELSE Larger(pos, counters[s])
  BY <1>1 DEF BaseTime, Start
<1>. QED
  BY <1>1, <1>2 DEF Larger

\* A number: the timebase goes on where it ended, all others where they belong.
LEMMA NumbersStayWhole ==
  ASSUME AlignInv, AlignInv', ops \in 0..file.ops, Bare, Whole,
         NEW s \in file.signals, WriteNumbers(s), UNCHANGED file
  PROVE  Whole'
<1>. DEFINE r == [path |-> s, time |-> BaseTime(s, width), steps |-> width,
                  form |-> "plain", units |-> width]
<1>1. /\ Types /\ s \in Signals /\ s \notin done /\ op # "none" /\ width \in Nat \ {0}
      /\ BaseTime(s, width) \in Nat /\ mode # "NONE"
      /\ UNCHANGED <<rows, mode, op, pos, width, ops, inAoS>>
      /\ done' = done \cup {s} /\ Advance(s, width) /\ Counted(s)
  BY ReadTypes, FileIs, BaseTimeIs
  DEF AlignInv, IInv, Sessions, WriteNumbers, inAoS, Counted
<1>2. /\ r \in Row /\ buf' = Append(buf, r) /\ r.path = s /\ r.steps = width /\ r.units = width
      /\ r.time = BaseTime(s, width)
  BY <1>1 DEF Row, WriteNumbers
<1>. HIDE DEF r
<1>3. counters[Timebase] = Samples(All) /\ counters[Timebase] \in Nat /\ pos \in Nat
  BY <1>1, CounterIsSamples, ReadTypes DEF Whole
<1>4. inAoS => width = 1 /\ BaseTime(s, width) = pos
  BY <1>1, WrittenInPlace DEF Whole
<1>5. s = Timebase => BaseTime(s, width) = counters[Timebase]
  <2>1. CASE inAoS
    BY <1>1, <1>4, <2>1 DEF Whole, InPlace, Ahead
  <2>2. CASE ~inAoS
    BY <1>1, <1>3, <2>2 DEF BaseTime, Start, Larger
  <2>. QED
    BY <2>1, <2>2
<1>6. /\ Unbroken'
      /\ Samples(All)' = Samples(All) + (IF s = Timebase THEN width ELSE 0)
  <2>1. CASE s = Timebase
    BY <1>1, <1>2, <1>3, <1>5, <2>1, TimebaseRowKeeps DEF Whole
  <2>2. CASE s # Timebase
    <3>1. Samples(All)' = Samples(All) /\ Unbroken'
      BY <1>1, <1>2, <2>2, OtherRowKeeps DEF Whole
    <3>. QED
      BY <1>3, <2>2, <3>1
  <2>. QED
    BY <2>1, <2>2
<1>7. Covered'
  BY <1>1 DEF Covered
<1>8. /\ counters'[s] = BaseTime(s, width) + width
      /\ \A k \in Signals : k # s => counters'[k] = counters[k]
      /\ Timebase \in Signals /\ \A k \in Signals : counters[k] \in Nat
  BY <1>1, AdvanceIs, ReadTypes
<1>9. InPlace'
  <2>. SUFFICES ASSUME inAoS
                PROVE  /\ counters'[Timebase] = pos + Ahead(Timebase)'
                       /\ \A k \in Signals : counters'[k] <= pos + Ahead(k)'
    BY <1>1, <1>4 DEF InPlace
  <2>1. /\ counters[Timebase] = pos + Ahead(Timebase)
        /\ \A k \in Signals : counters[k] <= pos + Ahead(k)
    BY <1>1 DEF Whole, InPlace
  <2>2. \A k \in Signals : Ahead(k)' = IF k = s THEN 1 ELSE Ahead(k)
    BY <1>1 DEF Ahead
  <2>3. counters'[s] = pos + 1
    BY <1>4, <1>8
  <2>4. \A k \in Signals : counters'[k] <= pos + Ahead(k)'
    BY <1>3, <1>8, <2>1, <2>2, <2>3
  <2>5. counters'[Timebase] = pos + Ahead(Timebase)'
    BY <1>8, <2>1, <2>2, <2>3
  <2>. QED
    BY <2>4, <2>5
<1>10. Fits'
  <2>1. Samples(All) + Due <= Room /\ Samples(All) \in Nat /\ Room' = Room
    BY <1>1, ReadTypes DEF Whole, Fits, Room
  <2>2. CASE s = Timebase
    <3>1. Due = width /\ Due' = 0
      BY <1>1, <2>2 DEF Due
    <3>. QED
      BY <1>1, <1>6, <2>1, <2>2, <3>1 DEF Fits
  <2>3. CASE s # Timebase
    <3>1. Due' = Due
      BY <1>1, <2>3 DEF Due
    <3>. QED
      BY <1>1, <1>6, <2>1, <2>3, <3>1 DEF Fits
  <2>. QED
    BY <2>2, <2>3
<1>. QED
  BY <1>6, <1>7, <1>9, <1>10 DEF Whole

\* A string is not in an array, and outside it is beside the timebase.
LEMMA StringsStayWhole ==
  ASSUME AlignInv, ops \in 0..file.ops, Bare, Whole,
         NEW s \in file.signals, NEW f \in Forms, WriteString(s, f), UNCHANGED file
  PROVE  Whole'
<1>. DEFINE r == [path |-> s, time |-> BaseTime(s, 1), steps |-> 1,
                  form |-> f.form, units |-> f.units]
<1>1. /\ Types /\ s \in Signals /\ s \in Strings /\ op # "none"
      /\ UNCHANGED <<rows, mode, op, pos, width, ops, inAoS>> /\ done' = done \cup {s}
      /\ s # Timebase
  BY ReadTypes, FileIs DEF WriteString, inAoS
<1>2. ~inAoS
  BY <1>1 DEF Bare
<1>. DEFINE one == 1
<1>3. BaseTime(s, 1) \in Nat
  <2>1. one \in Nat \ {0}
    OBVIOUS
  <2>2. BaseTime(s, one) \in Nat
    <3>. HIDE DEF one
    <3>. QED
      BY <1>1, <2>1, BaseTimeIs
  <2>. QED
    BY <2>2
<1>4. r \in Row /\ r.path = s /\ buf' = Append(buf, r)
  <2>1. f.form \in {"plain", "chunked", "spanned"} /\ f.units \in Nat \ {0}
    BY FormsAssumption
  <2>. QED
    BY <1>1, <1>3, <2>1 DEF Row, WriteString
<1>. HIDE DEF r
<1>5. Samples(All)' = Samples(All) /\ Unbroken'
  BY <1>1, <1>4, OtherRowKeeps DEF Whole
<1>6. Covered' /\ InPlace'
  BY <1>1, <1>2 DEF Covered, InPlace
<1>7. Fits'
  <2>1. Due' = Due /\ Room' = Room
    BY <1>1 DEF Due, Room
  <2>. QED
    BY <1>5, <2>1 DEF Whole, Fits
<1>. QED
  BY <1>5, <1>6, <1>7 DEF Whole

\* put() starts an empty file.
LEMMA BeginPutIsWhole ==
  ASSUME AlignInv, AlignInv', ops \in 0..file.ops, Bare, Whole,
         NEW n \in 1..file.steps, BeginPut(n), UNCHANGED file
  PROVE  ops' \in 0..file.ops /\ Whole'
<1>1. /\ op = "none" /\ ops < file.ops /\ op' = "put" /\ width' = n /\ ops' = ops + 1
      /\ rows' = << >> /\ counters' = Zeros /\ pos' = 0 /\ done' = {} /\ buf' = buf
      /\ UNCHANGED <<file, inAoS>> /\ (inAoS => n = 1) /\ buf = << >>
  BY DEF BeginPut, inAoS, AlignInv, IInv, Sessions
<1>2. All' = << >> /\ Len(All') = 0
  BY <1>1, EmptySeq, ConcatEmptySeq DEF All
<1>3. Samples(All') = 0
  BY <1>2, NoSamples
<1>4. /\ file.steps \in Nat /\ file.ops \in Nat /\ ops \in Nat /\ MaxElements \in Nat
      /\ inAoS \in BOOLEAN
  BY ReadTypes
<1>5. ops' \in 0..file.ops
  BY <1>1, <1>4
<1>6. Unbroken'
  BY <1>2, <1>3 DEF Unbroken, IsEnd
<1>7. Covered'
  BY <1>1 DEF Covered
<1>8. InPlace'
  <2>1. \A s \in Signals : counters'[s] = 0 /\ Ahead(s)' = 0
    BY <1>1 DEF Zeros, Keys, Ahead
  <2>. QED
    BY <1>1, <2>1, SignalsAssumption DEF InPlace
<1>9. Fits'
  <2>1. Due' = n
    BY <1>1 DEF Due
  <2>2. n <= Room'
    <3>1. CASE inAoS
      BY <1>1, <1>4, <3>1 DEF Room
    <3>2. CASE ~inAoS
      <4>1. (ops + 1) * file.steps = ops * file.steps + file.steps /\ ops * file.steps \in Nat
        BY <1>4
      <4>. QED
        BY <1>1, <1>4, <3>2, <4>1 DEF Room
    <3>. QED
      BY <3>1, <3>2
  <2>. QED
    BY <1>3, <2>1, <2>2 DEF Fits
<1>. QED
  BY <1>5, <1>6, <1>7, <1>8, <1>9 DEF Whole

\* putSlice() goes on behind the last sample, with kept or rebuilt counters.
LEMMA BeginSliceIsWhole ==
  ASSUME AlignInv, AlignInv', ops \in 0..file.ops, Bare, Whole,
         NEW n \in 1..file.steps, BeginSlice(n), UNCHANGED file
  PROVE  ops' \in 0..file.ops /\ Whole'
<1>1. /\ op = "none" /\ ops < file.ops /\ op' = "slice" /\ width' = n /\ ops' = ops + 1
      /\ UNCHANGED <<rows, buf, file, inAoS>> /\ (inAoS => n = 1) /\ buf = << >>
      /\ counters' = IF mode = "APPEND" THEN counters ELSE Restored(rows)
      /\ pos' = counters'[Aos] /\ done' = {} /\ mode' = "APPEND"
  BY DEF BeginSlice, inAoS, AlignInv, IInv, Sessions
<1>2. /\ file.steps \in Nat /\ file.ops \in Nat /\ ops \in Nat /\ MaxElements \in Nat
      /\ inAoS \in BOOLEAN /\ rows \in Seq(Row) /\ Samples(All) \in Nat
  BY ReadTypes
<1>3. All = rows /\ All' = All
  BY <1>1, <1>2, RowsAlone DEF All
<1>4. ops' \in 0..file.ops
  BY <1>1, <1>2
<1>5. Unbroken'
  BY <1>1, <1>3 DEF Whole, Unbroken, IsEnd, Of
<1>6. Covered'
  BY <1>1 DEF Covered
<1>7. InPlace'
  <2>. SUFFICES ASSUME inAoS
                PROVE  /\ counters'[Timebase] = counters'[Aos]
                       /\ \A s \in Signals : counters'[s] <= counters'[Aos]
    <3>1. \A s \in Signals : Ahead(s)' = 0
      BY <1>1 DEF Ahead
    <3>2. counters' \in [Keys -> Nat] /\ Keys = Signals \cup {Aos} /\ Timebase \in Signals
      BY FileIs, SignalsAssumption DEF AlignInv, IInv, Types, Keys
    <3>. QED
      BY <1>1, <3>1, <3>2 DEF InPlace
  <2>1. \A k \in {Timebase, Aos} : counters'[k] \in Nat /\ IsEnd(counters'[k], k, rows)
    <3>1. {Timebase, Aos} \subseteq Exact /\ {Timebase, Aos} \subseteq Keys
      BY SignalsAssumption DEF Bare, Exact, Keys
    <3>2. CASE mode = "APPEND"
      BY <1>1, <1>3, <3>1, <3>2 DEF AlignInv, IInv, Types, Reached
    <3>3. CASE mode # "APPEND"
      BY <1>1, <1>2, <3>1, <3>3, RestoredIs
    <3>. QED
      BY <3>2, <3>3
  <2>2. IsEnd(Samples(rows), Aos, rows)
    <3>1. \A i \in 1..Len(rows) : EndOf(rows[i]) <= Samples(rows)
      <4>1. \A i \in 1..Len(rows) : rows[i].path \notin Strings
        BY <1>3 DEF AlignInv, IInv, Weighed, Bare
      <4>. QED
        BY <1>1, <4>1 DEF Whole, Covered
    <3>2. \/ Samples(rows) = 0
          \/ \E i \in 1..Len(rows) : EndOf(rows[i]) = Samples(rows)
      BY <1>3 DEF Whole, Unbroken, IsEnd
    <3>. QED
      BY <3>1, <3>2 DEF IsEnd, Of
  <2>3. counters'[Aos] = Samples(rows)
    BY <1>2, <1>3, <2>1, <2>2, EndIsOne
  <2>4. counters'[Timebase] = Samples(rows)
    BY <1>2, <1>3, <2>1, EndIsOne DEF Whole, Unbroken
  <2>5. \A s \in Signals : counters'[s] <= counters'[Aos]
    BY <1>1 DEF AlignInv, InArray
  <2>. QED
    BY <2>3, <2>4, <2>5
<1>8. Fits'
  <2>1. Due' = n /\ Due = 0
    BY <1>1 DEF Due
  <2>2. Samples(All) <= Room
    BY <1>2, <2>1 DEF Whole, Fits
  <2>3. Room + n <= Room' /\ Room \in Nat /\ Room' \in Nat
    <3>1. CASE inAoS
      BY <1>1, <1>2, <3>1 DEF Room
    <3>2. CASE ~inAoS
      <4>1. /\ (ops + 1) * file.steps = ops * file.steps + file.steps
            /\ ops * file.steps \in Nat /\ (ops + 1) * file.steps \in Nat
        BY <1>2
      <4>. QED
        BY <1>1, <1>2, <3>2, <4>1 DEF Room
    <3>. QED
      BY <3>1, <3>2
  <2>. QED
    BY <1>2, <1>3, <2>1, <2>2, <2>3 DEF Fits
<1>. QED
  BY <1>4, <1>5, <1>6, <1>7, <1>8 DEF Whole

\* The commit: no number is ahead of the timebase any more.
LEMMA EndOpStaysWhole ==
  ASSUME AlignInv, AlignInv', ops \in 0..file.ops, Bare, Whole, EndOp, UNCHANGED file
  PROVE  Whole'
<1>1. /\ op # "none" /\ Timebase \in done /\ rows' = All /\ buf' = << >> /\ op' = "none"
      /\ UNCHANGED <<counters, pos, width, done, ops, file, inAoS>> /\ mode # "NONE"
  BY DEF EndOp, All, inAoS, AlignInv, IInv, Sessions
<1>2. /\ All \in Seq(Row) /\ Samples(All) \in Nat /\ pos \in Nat
      /\ \A s \in Signals : counters[s] \in Nat
      /\ Timebase \in Signals /\ Types
  BY ReadTypes
<1>3. All' = All
  BY <1>1, <1>2, ConcatEmptySeq DEF All
<1>4. Unbroken'
  BY <1>1, <1>3 DEF Whole, Unbroken, IsEnd, Of
<1>5. Covered'
  <2>. SUFFICES ASSUME NEW i \in 1..Len(All), All[i].path \notin Strings
                PROVE  EndOf(All[i]) <= Samples(All)
    BY <1>1 DEF Covered
  <2>0. \A j \in 1..Len(All) : EndOf(All[j]) \in Nat
    BY <1>2, EndIsNat
  <2>1. CASE ~inAoS
    <3>1. PICK j \in 1..Len(All) : /\ All[j].path = Timebase
                                   /\ EndOf(All[i]) <= EndOf(All[j])
      BY <1>1, <2>1 DEF AlignInv, Outside
    <3>2. EndOf(All[j]) <= Samples(All)
      BY <3>1 DEF Whole, Unbroken, IsEnd, Of
    <3>. QED
      BY <1>2, <2>0, <3>1, <3>2
  <2>2. CASE inAoS
    <3>1. All[i].path \in Signals /\ All[i].path \in Exact
      <4>1. All[i].path \in file.signals /\ file.signals \subseteq Signals
        BY <1>2, FileIs DEF AlignInv, IInv, Weighed
      <4>. QED
        BY <4>1 DEF Exact, Keys
    <3>2. EndOf(All[i]) <= counters[All[i].path]
      BY <1>1, <3>1 DEF AlignInv, IInv, Reached, IsEnd, Of
    <3>3. counters[All[i].path] <= pos + 1 /\ counters[Timebase] = pos + 1
      <4>1. Ahead(Timebase) = 1 /\ Ahead(All[i].path) \in {0, 1}
        BY <1>1 DEF Ahead
      <4>2. counters[All[i].path] <= pos + Ahead(All[i].path)
            /\ counters[Timebase] = pos + Ahead(Timebase)
        BY <1>1, <2>2, <3>1 DEF Whole, InPlace
      <4>. QED
        BY <1>2, <3>1, <4>1, <4>2
    <3>4. counters[Timebase] = Samples(All)
      BY <1>1, CounterIsSamples DEF Whole
    <3>. QED
      BY <1>2, <2>0, <3>1, <3>2, <3>3, <3>4
  <2>. QED
    BY <2>1, <2>2
<1>6. InPlace'
  BY <1>1 DEF InPlace
<1>7. Fits'
  <2>1. Due = 0 /\ Due' = 0 /\ Room' = Room
    BY <1>1 DEF Due, Room
  <2>. QED
    BY <1>2, <1>3, <2>1 DEF Whole, Fits
<1>. QED
  BY <1>4, <1>5, <1>6, <1>7 DEF Whole

\* The next element of an array is where its timebase ends.
LEMMA NextElementStaysWhole ==
  ASSUME AlignInv, ops \in 0..file.ops, Bare, Whole, NextElement, UNCHANGED file
  PROVE  Whole'
<1>1. /\ inAoS /\ op = "put" /\ Timebase \in done /\ pos + 1 < MaxElements
      /\ pos' = pos + 1 /\ done' = {} /\ mode # "NONE"
      /\ UNCHANGED <<rows, buf, counters, op, width, ops, inAoS, All>>
  BY DEF NextElement, inAoS, All, AlignInv, IInv, Sessions
<1>2. /\ pos \in Nat /\ Samples(All) \in Nat /\ ops \in Nat /\ MaxElements \in Nat
      /\ \A s \in Signals : counters[s] \in Nat
      /\ Timebase \in Signals
  BY ReadTypes
<1>3. /\ width = 1 /\ counters[Timebase] = pos + 1
      /\ \A s \in Signals : counters[s] <= pos + 1
  <2>1. /\ width = 1 /\ counters[Timebase] = pos + Ahead(Timebase)
        /\ \A s \in Signals : counters[s] <= pos + Ahead(s)
    BY <1>1 DEF Whole, InPlace
  <2>2. Ahead(Timebase) = 1 /\ \A s \in Signals : Ahead(s) \in {0, 1}
    BY <1>1 DEF Ahead
  <2>. QED
    BY <1>2, <2>1, <2>2
<1>4. Unbroken' /\ Covered'
  BY <1>1 DEF Whole, Unbroken, Covered, IsEnd, Of
<1>5. InPlace'
  <2>1. \A s \in Signals : Ahead(s)' = 0
    BY <1>1 DEF Ahead
  <2>. QED
    BY <1>1, <1>2, <1>3, <2>1 DEF InPlace
<1>6. Fits'
  <2>1. Samples(All) = pos + 1
    BY <1>1, <1>3, CounterIsSamples DEF Whole
  <2>2. Due' = 1 /\ Room' = ops + MaxElements
    BY <1>1, <1>3 DEF Due, Room
  <2>3. Samples(All)' = Samples(All)
    BY <1>1
  <2>. QED
    BY <1>1, <1>2, <2>1, <2>2, <2>3 DEF Fits
<1>. QED
  BY <1>4, <1>5, <1>6 DEF Whole

\* What touches no row, no counter and no element.
LEMMA OthersStayWhole ==
  ASSUME AlignInv, Whole, UNCHANGED file, CloseSession \/ UNCHANGED vars
  PROVE  Whole' /\ ops' = ops
<1>1. UNCHANGED <<rows, buf, counters, op, pos, width, done, ops, inAoS, All, file>>
  BY DEF CloseSession, vars, inAoS, All
<1>2. UNCHANGED <<Due, Room>>
  BY <1>1 DEF Due, Room
<1>. QED
  BY <1>1, <1>2 DEF Whole, Unbroken, Covered, InPlace, Fits, IsEnd, Of, Ahead

\* ReadInv is inductive: one step per action.
LEMMA ReadInvNext ==
  ASSUME ReadInv, [Next]_vars
  PROVE  ReadInv'
<1>1. AlignInv /\ AlignInv' /\ ops \in 0..file.ops
  BY AlignNext DEF ReadInv
<1>2. CASE UNCHANGED vars
  <2>1. UNCHANGED <<file, ops, Bare>>
    BY <1>2 DEF vars, Bare, inAoS
  <2>. QED
    BY <1>1, <1>2, <2>1, OthersStayWhole DEF ReadInv
<1>3. CASE Next
  <2>1. UNCHANGED <<file, Bare>>
    BY <1>3 DEF Next, Bare, inAoS
  <2>2. ops' \in 0..file'.ops
    <3>1. ops' = ops \/ (ops' = ops + 1 /\ ops < file.ops)
      BY <1>3
      DEF Next, BeginPut, BeginSlice, WriteNumbers, WriteString, NextElement, EndOp, CloseSession
    <3>2. file.ops \in Nat
      BY <1>1, ReadTypes
    <3>. QED
      BY <1>1, <2>1, <3>1, <3>2
  <2>. SUFFICES ASSUME Bare, Whole
                PROVE  Whole'
    BY <1>1, <2>1, <2>2 DEF ReadInv
  <2>3. ASSUME NEW n \in 1..file.steps, BeginPut(n)
        PROVE  Whole'
    BY <1>1, <2>1, <2>3, BeginPutIsWhole
  <2>4. ASSUME NEW n \in 1..file.steps, BeginSlice(n)
        PROVE  Whole'
    BY <1>1, <2>1, <2>4, BeginSliceIsWhole
  <2>5. ASSUME NEW s \in file.signals, WriteNumbers(s)
        PROVE  Whole'
    BY <1>1, <2>1, <2>5, NumbersStayWhole
  <2>6. ASSUME NEW s \in file.signals, NEW f \in Forms, WriteString(s, f)
        PROVE  Whole'
    BY <1>1, <2>1, <2>6, StringsStayWhole
  <2>7. CASE NextElement
    BY <1>1, <2>1, <2>7, NextElementStaysWhole
  <2>8. CASE EndOp
    BY <1>1, <2>1, <2>8, EndOpStaysWhole
  <2>9. CASE CloseSession
    BY <1>1, <2>1, <2>9, OthersStayWhole
  <2>. QED
    BY <1>3, <2>3, <2>4, <2>5, <2>6, <2>7, <2>8, <2>9 DEF Next
<1>. QED
  BY <1>2, <1>3

\* Every state the engine reaches has the timebase of its slices.
LEMMA ReadInvariance == Spec => []ReadInv
<1>1. Init => ReadInv
  BY AlignInit, WholeInit DEF ReadInv
<1>2. ReadInv /\ [Next]_vars => ReadInv'
  BY ReadInvNext
<1>. QED
  BY <1>1, <1>2, PTL DEF Spec

-------------------------------------------------------------------------------
(***************************************************************************)
(* A file at rest.  Its timebase ascends, and a signal is found at exactly *)
(* the indices it was written for, all of them on the timebase.            *)
(***************************************************************************)
Timeline(tv) ==
  /\ tv \in Seq(Int) /\ Ascending(tv)
  /\ Invalid \in Int /\ \A k \in 1..Len(tv) : tv[k] # Invalid

\* No file has an array that holds strings and numbers beside its timebase.
NumbersApart ==
  \A f \in Files : f.inAoS =>
    f.signals \cap Strings = {} \/ f.signals \subseteq Strings \cup {Timebase}

\* A file that has a number to read is Bare.
LEMMA NumbersAreBare ==
  ASSUME NumbersApart, Types, Numbers # {}
  PROVE  Bare
<1>1. file \in Files
  BY DEF Types
<1>2. ~(file.signals \subseteq Strings \cup {Timebase})
  BY DEF Numbers
<1>. QED
  BY <1>1, <1>2 DEF NumbersApart, Bare, inAoS

\* A lookup answers with a row of the path that covers the step.
LEMMA LookupCovers ==
  ASSUME rows \in Seq(Row), NEW p, NEW t \in Int, Lookup(p, t) # 0
  PROVE  \E i \in 1..Len(rows) : rows[i].path = p /\ IsTimeInLeaf(rows[i], t)
<1>. DEFINE mine == RowsOf(p)
<1>1. mine \in Seq(1..Len(rows)) /\ Len(rows) \in Nat
      /\ \A k \in 1..Len(mine) : rows[mine[k]].path = p
  BY RowsOfLists DEF Lists
<1>2. \A k \in 1..Len(mine) : mine[k] \in 1..Len(rows) /\ mine[k] \in Nat
  BY <1>1
<1>3. mine \in Seq(Nat)
  BY <1>1, <1>2
<1>4. FirstCovering(mine, t) # 0
  BY LookupIsSweep
<1>. HIDE DEF mine
<1>5. PICK l : Covers(mine, t, l)
  BY <1>3, <1>4, NoneCovering
<1>. QED
  BY <1>1, <1>2, <1>5 DEF Covers

\* Of a file at rest, what the reads are about.
LEMMA AtRestIs ==
  ASSUME ReadInv, AtRest, Bare
  PROVE  /\ Timeline(TimeVector)
         /\ \A p \in Numbers : /\ Available(p) = Written(p)
                               /\ Written(p) \subseteq 0..Len(TimeVector) - 1
<1>1. /\ AlignInv /\ ops \in 0..file.ops /\ Whole /\ op = "none" /\ mode = "NONE" /\ buf = << >>
      /\ IInv
  BY DEF ReadInv, AtRest, AlignInv, IInv, Sessions
<1>2. /\ rows \in Seq(Row) /\ Samples(rows) \in Nat /\ Types /\ All = rows
      /\ file.steps \in Nat /\ file.ops \in Nat /\ MaxElements \in Nat /\ ops \in Nat
      /\ Samples(All) \in Nat /\ Room \in Nat /\ inAoS \in BOOLEAN
  BY <1>1, ReadTypes, RowsAlone
<1>3. Samples(rows) <= Len(TimeValues)
  <2>1. Due = 0 /\ Samples(rows) <= Room
    <3>1. Due = 0
      BY <1>1 DEF Due
    <3>. QED
      BY <1>1, <1>2, <3>1 DEF Whole, Fits
  <2>2. Len(TimeValues) >= IF inAoS THEN file.ops + MaxElements ELSE file.ops * file.steps
    BY <1>2, TimesSuffice DEF Types, inAoS
  <2>3. Len(TimeValues) \in Nat
    BY TimeValuesAssumption
  <2>4. CASE inAoS
    BY <1>1, <1>2, <2>1, <2>2, <2>3, <2>4 DEF Room
  <2>5. CASE ~inAoS
    <3>1. PICK d \in Nat : file.ops = ops + d
      <4>1. file.ops - ops \in Nat /\ file.ops = ops + (file.ops - ops)
        BY <1>1, <1>2
      <4>. QED
        BY <4>1
    <3>. DEFINE full == file.ops * file.steps
                made == ops * file.steps
                left == d * file.steps
    <3>2. full = made + left /\ made \in Nat /\ left \in Nat
      <4>1. \A j, k, m \in Nat : /\ (j + k) * m = j * m + k * m
                                /\ j * m \in Nat /\ k * m \in Nat
        OBVIOUS
      <4>2. ops \in Nat /\ file.steps \in Nat
        BY <1>2
      <4>. QED
        BY <3>1, <4>1, <4>2
    <3>3. Samples(rows) <= made /\ Len(TimeValues) >= full
      BY <2>1, <2>2, <2>5 DEF Room
    <3>. HIDE DEF full, made, left
    <3>. QED
      BY <1>2, <2>3, <3>2, <3>3
  <2>. QED
    BY <1>2, <2>4, <2>5
<1>. DEFINE tv == TimeVector
<1>4. /\ tv = [k \in 1..Samples(rows) |-> TimeValues[k]] /\ Len(tv) = Samples(rows)
      /\ \A k \in 1..Len(tv) : k \in 1..Len(TimeValues) /\ tv[k] = TimeValues[k]
      /\ tv \in Seq(Int)
  <2>1. TimeValues \in Seq(Int) /\ Len(TimeValues) \in Nat
    BY TimeValuesAssumption
  <2>2. \A k \in 1..Samples(rows) : k \in 1..Len(TimeValues) /\ TimeValues[k] \in Int
    BY <1>2, <1>3, <2>1
  <2>. QED
    BY <1>2, <2>2 DEF TimeVector
<1>. HIDE DEF tv
<1>5. Timeline(tv)
  <2>1. Ascending(tv)
    BY <1>4, TimeValuesAssumption DEF Ascending
  <2>2. \A k \in 1..Len(tv) : tv[k] # Invalid
    <3>1. \A k \in 1..Len(TimeValues) : TimeValues[k] \in Int /\ Invalid < TimeValues[k]
      BY TimeValuesAssumption
    <3>2. Invalid \in Int
      BY TimeValuesAssumption
    <3>3. \A x \in Int : Invalid < x => x # Invalid
      BY <3>2
    <3>. QED
      BY <1>4, <3>1, <3>3, Zenon
  <2>. QED
    BY <1>4, <2>1, <2>2, TimeValuesAssumption DEF Timeline
<1>6. ASSUME NEW p \in Numbers
      PROVE  Available(p) = Written(p) /\ Written(p) \subseteq 0..Len(tv) - 1
  <2>1. p \notin Strings
    BY DEF Numbers
  <2>2. \A j \in 1..Len(rows) : rows[j].path = p =>
          /\ rows[j].time \in Nat /\ rows[j].steps \in Nat /\ rows[j].steps # 0
          /\ EndOf(rows[j]) = rows[j].time + rows[j].steps
          /\ EndOf(rows[j]) <= Len(tv)
    <3>1. \A j \in 1..Len(rows) : rows[j] \in Row
      BY <1>2, EndIsNat
    <3>2. \A j \in 1..Len(rows) : rows[j].path \notin Strings => rows[j].steps = rows[j].units
      BY <1>1, <1>2 DEF IInv, Weighed
    <3>3. \A r \in Row : r.time \in Nat /\ r.steps \in Nat \ {0}
      BY DEF Row
    <3>4. \A j \in 1..Len(rows) : rows[j].path \notin Strings => EndOf(rows[j]) <= Len(tv)
      BY <1>1, <1>4 DEF Whole, Covered
    <3>. QED
      BY <2>1, <3>1, <3>2, <3>3, <3>4 DEF EndOf
  <2>3. ASSUME NEW i
        PROVE  i \in Written(p) <=>
                 \E j \in 1..Len(rows) : /\ rows[j].path = p
                                         /\ i \in rows[j].time .. rows[j].time + rows[j].steps - 1
    BY DEF Written
  <2>4. Written(p) \subseteq 0..Len(tv) - 1
    <3>. SUFFICES ASSUME NEW i \in Written(p)
                  PROVE  i \in 0..Len(tv) - 1
      OBVIOUS
    <3>1. PICK j \in 1..Len(rows) : /\ rows[j].path = p
                                    /\ i \in rows[j].time .. rows[j].time + rows[j].steps - 1
      BY <2>3
    <3>2. /\ rows[j].time \in Nat /\ rows[j].steps \in Nat
          /\ rows[j].time + rows[j].steps <= Len(tv)
      BY <2>2, <3>1
    <3>. QED
      BY <1>2, <1>4, <3>1, <3>2
  <2>5. ASSUME NEW i \in Written(p)
        PROVE  Lookup(p, i) # 0
    <3>1. PICK j \in 1..Len(rows) : /\ rows[j].path = p
                                    /\ i \in rows[j].time .. rows[j].time + rows[j].steps - 1
      BY <2>3
    <3>2. Lookup(p, i) = j
      BY <1>1, <2>1, <3>1, OwnRowFound DEF LookupFindsOwnRow
    <3>. QED
      BY <1>2, <3>2
  <2>6. ASSUME NEW i \in 0..Len(tv) - 1, Lookup(p, i) # 0
        PROVE  i \in Written(p)
    <3>1. i \in Int
      BY <1>2, <1>4
    <3>2. PICK j \in 1..Len(rows) : rows[j].path = p /\ IsTimeInLeaf(rows[j], i)
      BY <1>2, <2>6, <3>1, LookupCovers
    <3>3. /\ rows[j].time <= i /\ i < rows[j].time + rows[j].steps
          /\ rows[j].time \in Nat /\ rows[j].steps \in Nat
      BY <2>2, <3>2 DEF IsTimeInLeaf, EndOf
    <3>. QED
      BY <2>3, <3>1, <3>2, <3>3
  <2>7. Available(p) = {i \in 0..Len(tv) - 1 : Lookup(p, i) # 0}
    BY DEF Available, tv
  <2>. QED
    BY <2>4, <2>5, <2>6, <2>7
<1>. QED
  BY <1>5, <1>6 DEF tv

-------------------------------------------------------------------------------
(***************************************************************************)
(* Searches on a timebase that ascends.                                    *)
(***************************************************************************)

\* The elements of a downward closed part of 1..n are counted by the last.
LEMMA CountOfHead ==
  ASSUME NEW n \in Nat, NEW S \in SUBSET (1..n), \A j, k \in 1..n : j < k /\ k \in S => j \in S
  PROVE  Cardinality(S) \in 0..n /\ \A k \in 1..n : k \in S <=> k <= Cardinality(S)
<1>. DEFINE U == {u \in 1..(n + 1) : u \notin S}
<1>1. PICK u \in U : \A v \in U : u <= v
  <2>1. U \in SUBSET Nat /\ n + 1 \in U
    OBVIOUS
  <2>. HIDE DEF U
  <2>. QED
    BY <2>1, LeastNatural
<1>2. u \in 1..(n + 1) /\ u \notin S
  BY <1>1
<1>3. \A k \in 1..n : k \in S <=> k <= u - 1
  <2>. SUFFICES ASSUME NEW k \in 1..n
                PROVE  k \in S <=> k <= u - 1
    OBVIOUS
  <2>1. ASSUME k < u
        PROVE  k \in S
    BY <1>1, <1>2, <2>1
  <2>2. ASSUME k \in S, u <= k
        PROVE  FALSE
    <3>1. u \in 1..n /\ u # k
      BY <1>2, <2>2
    <3>. QED
      BY <1>2, <2>2, <3>1
  <2>. QED
    BY <1>2, <2>1, <2>2
<1>. HIDE DEF U
<1>4. u - 1 \in 0..n
  BY <1>2
<1>5. S = 1..(u - 1)
  <2>1. \A k \in 1..(u - 1) : k \in 1..n /\ k <= u - 1
    BY <1>4
  <2>2. \A k \in S : k \in 1..n /\ (k <= u - 1 => k \in 1..(u - 1))
    BY <1>4
  <2>3. 1..(u - 1) \subseteq S
    BY <1>3, <2>1
  <2>4. S \subseteq 1..(u - 1)
    BY <1>3, <2>2
  <2>. QED
    BY <2>3, <2>4
<1>6. Cardinality(1..(u - 1)) = u - 1
  <2>. DEFINE m == u - 1
  <2>1. m \in Int /\ 1 \in Int /\ m >= 0
    BY <1>4
  <2>. HIDE DEF m
  <2>2. Cardinality(1..m) = IF 1 > m THEN 0 ELSE m - 1 + 1
    BY <2>1, FS_Interval
  <2>3. Cardinality(1..m) = m
    BY <2>1, <2>2
  <2>. QED
    BY <2>3 DEF m
<1>. QED
  BY <1>3, <1>4, <1>5, <1>6

\* increasing_prefix_size() of an ascending timebase is all of it.
LEMMA PrefixIsAll ==
  ASSUME NEW tv, Timeline(tv)
  PROVE  IncreasingPrefix(tv) = Len(tv) /\ Len(tv) \in Nat
<1>. DEFINE S == {k \in 1..Len(tv) : tv[k] # Invalid}
<1>1. Len(tv) \in Nat /\ S = 1..Len(tv)
  BY DEF Timeline
<1>2. Cardinality(1..Len(tv)) = IF 1 > Len(tv) THEN 0 ELSE Len(tv) - 1 + 1
  BY <1>1, FS_Interval
<1>3. Cardinality(S) = Len(tv)
  <2>. HIDE DEF S
  <2>. QED
    BY <1>1, <1>2
<1>4. IncreasingPrefix(tv) = IF Cardinality(S) = 0 THEN Len(tv) ELSE Cardinality(S)
  BY DEF IncreasingPrefix
<1>. HIDE DEF S
<1>. QED
  BY <1>1, <1>3, <1>4

\* std::lower_bound and std::upper_bound.
LEMMA BoundsCount ==
  ASSUME NEW tv, Timeline(tv), NEW t \in Int
  PROVE  /\ LowerBound(tv, t) \in 0..Len(tv)
         /\ \A k \in 1..Len(tv) : tv[k] < t <=> k <= LowerBound(tv, t)
         /\ UpperBound(tv, t) \in 0..Len(tv)
         /\ \A k \in 1..Len(tv) : tv[k] <= t <=> k <= UpperBound(tv, t)
<1>. DEFINE n == Len(tv)
            L == {k \in 1..n : tv[k] < t}
            U == {k \in 1..n : tv[k] <= t}
<1>1. /\ IncreasingPrefix(tv) = n /\ n \in Nat
      /\ LowerBound(tv, t) = Cardinality(L) /\ UpperBound(tv, t) = Cardinality(U)
  BY PrefixIsAll DEF LowerBound, UpperBound
<1>2. \A k \in 1..n : tv[k] \in Int
  BY DEF Timeline
<1>3. \A j, k \in 1..n : j < k => tv[j] < tv[k]
  BY DEF Timeline, Ascending
<1>4. /\ L \in SUBSET (1..n) /\ U \in SUBSET (1..n)
      /\ \A j, k \in 1..n : j < k /\ k \in L => j \in L
      /\ \A j, k \in 1..n : j < k /\ k \in U => j \in U
  BY <1>2, <1>3
<1>5. \A k \in 1..n : (k \in L <=> tv[k] < t) /\ (k \in U <=> tv[k] <= t)
  OBVIOUS
<1>. HIDE DEF L, U, n
<1>6. Cardinality(L) \in 0..n /\ \A k \in 1..n : k \in L <=> k <= Cardinality(L)
  BY <1>1, <1>4, CountOfHead
<1>7. Cardinality(U) \in 0..n /\ \A k \in 1..n : k \in U <=> k <= Cardinality(U)
  BY <1>1, <1>4, CountOfHead
<1>. QED
  BY <1>1, <1>5, <1>6, <1>7 DEF n

\* The same for indices that count from zero.
LEMMA LowerBoundAt ==
  ASSUME NEW tv, Timeline(tv), NEW t \in Int
  PROVE  /\ LowerBound(tv, t) \in 0..Len(tv) /\ Len(tv) \in Nat
         /\ \A i \in 0..Len(tv) - 1 : /\ At(tv, i) \in Int
                                      /\ At(tv, i) < t <=> i < LowerBound(tv, t)
         /\ \A i, j \in 0..Len(tv) - 1 : i < j => At(tv, i) < At(tv, j)
<1>1. /\ LowerBound(tv, t) \in 0..Len(tv) /\ Len(tv) \in Nat
      /\ \A k \in 1..Len(tv) : tv[k] < t <=> k <= LowerBound(tv, t)
  BY BoundsCount, PrefixIsAll
<1>2. \A k \in 1..Len(tv) : tv[k] \in Int
  BY DEF Timeline
<1>3. \A j, k \in 1..Len(tv) : j < k => tv[j] < tv[k]
  BY DEF Timeline, Ascending
<1>4. \A i \in 0..Len(tv) - 1 : i + 1 \in 1..Len(tv) /\ At(tv, i) = tv[i + 1]
  BY <1>1 DEF At
<1>5. \A i \in 0..Len(tv) - 1 : At(tv, i) \in Int /\ (At(tv, i) < t <=> i < LowerBound(tv, t))
  <2>. SUFFICES ASSUME NEW i \in 0..Len(tv) - 1
                PROVE  At(tv, i) \in Int /\ (At(tv, i) < t <=> i < LowerBound(tv, t))
    OBVIOUS
  <2>. DEFINE k == i + 1
  <2>1. k \in 1..Len(tv) /\ At(tv, i) = tv[k]
    BY <1>4
  <2>2. tv[k] < t <=> k <= LowerBound(tv, t)
    BY <1>1, <2>1
  <2>3. tv[k] \in Int
    BY <1>2, <2>1
  <2>4. k <= LowerBound(tv, t) <=> i < LowerBound(tv, t)
    BY <1>1
  <2>. HIDE DEF k
  <2>. QED
    BY <2>1, <2>2, <2>3, <2>4
<1>6. \A i, j \in 0..Len(tv) - 1 : i < j => At(tv, i) < At(tv, j)
  <2>. SUFFICES ASSUME NEW i \in 0..Len(tv) - 1, NEW j \in 0..Len(tv) - 1, i < j
                PROVE  At(tv, i) < At(tv, j)
    OBVIOUS
  <2>. DEFINE k == i + 1
              l == j + 1
  <2>1. /\ k \in 1..Len(tv) /\ At(tv, i) = tv[k] /\ l \in 1..Len(tv) /\ At(tv, j) = tv[l]
        /\ k < l
    BY <1>1, <1>4
  <2>. HIDE DEF k, l
  <2>. QED
    BY <1>3, <2>1
<1>. QED
  BY <1>1, <1>5, <1>6

(***************************************************************************)
(* The least and the largest of a set of indices.                          *)
(***************************************************************************)
Least(S, m) == m \in S /\ \A n \in S : m <= n
Last(S, m) == m \in S /\ \A n \in S : n <= m

\* Min of a set of indices is its least element, and the only one.
LEMMA MinIs ==
  ASSUME NEW S \in SUBSET Nat, S # {}
  PROVE  Least(S, Min(S)) /\ \A m : Least(S, m) => m = Min(S)
<1>1. PICK u \in S : \A v \in S : u <= v
  BY LeastNatural
<1>2. Min(S) \in S /\ \A v \in S : Min(S) <= v
  BY <1>1, Zenon DEF Min
<1>3. ASSUME NEW m, Least(S, m)
      PROVE  m = Min(S)
  <2>1. m \in Nat /\ Min(S) \in Nat /\ m <= Min(S) /\ Min(S) <= m
    BY <1>2, <1>3 DEF Least
  <2>. QED
    BY <2>1
<1>. QED
  BY <1>2, <1>3 DEF Least

\* Max of a bounded set of indices is its last element, and the only one.
LEMMA MaxIs ==
  ASSUME NEW S \in SUBSET Nat, S # {}, NEW b \in Nat, \A n \in S : n <= b
  PROVE  Last(S, Max(S)) /\ \A m : Last(S, m) => m = Max(S)
<1>. DEFINE U == {u \in Nat : \A n \in S : n <= u}
<1>1. PICK u \in U : \A v \in U : u <= v
  <2>1. U \in SUBSET Nat /\ b \in U
    OBVIOUS
  <2>. HIDE DEF U
  <2>. QED
    BY <2>1, LeastNatural
<1>2. u \in S
  <2>1. CASE u = 0
    <3>1. PICK n \in S : TRUE
      OBVIOUS
    <3>2. n = 0
      BY <1>1, <2>1, <3>1
    <3>. QED
      BY <2>1, <3>2
  <2>2. CASE u # 0
    <3>1. u - 1 \in Nat /\ u - 1 \notin U
      BY <1>1, <2>2
    <3>2. PICK n \in S : ~(n <= u - 1)
      BY <3>1
    <3>3. n = u
      BY <1>1, <3>2
    <3>. QED
      BY <3>3
  <2>. QED
    BY <2>1, <2>2
<1>3. \A v \in S : u >= v
  BY <1>1
<1>. HIDE DEF U
<1>4. Max(S) \in S /\ \A v \in S : Max(S) >= v
  BY <1>2, <1>3, Zenon DEF Max
<1>5. ASSUME NEW m, Last(S, m)
      PROVE  m = Max(S)
  <2>1. m \in Nat /\ Max(S) \in Nat /\ m <= Max(S) /\ Max(S) <= m
    BY <1>4, <1>5 DEF Last
  <2>. QED
    BY <2>1
<1>. QED
  BY <1>4, <1>5 DEF Last

-------------------------------------------------------------------------------
(***************************************************************************)
(* nearestAvailableSliceIndex().                                           *)
(***************************************************************************)
UpTo(S, idx) == {i \in S : i <= idx}
From(S, idx) == {i \in S : i >= idx}

Far(tv, idx, t, i) == IF t >= 0 THEN Distance(At(tv, i), t) ELSE Distance(i, idx)

\* m is the slice below idx, or the one above it, whichever is preferred.
Preferred(S, tv, idx, direction, t, m) ==
  \/ /\ Last(UpTo(S, idx), m)
     /\ \/ From(S, idx) = {}
        \/ direction < 0
        \/ direction = 0 /\ \E k : Least(From(S, idx), k) /\ Far(tv, idx, t, m) <= Far(tv, idx, t, k)
  \/ /\ Least(From(S, idx), m)
     /\ \/ UpTo(S, idx) = {}
        \/ direction > 0
        \/ direction = 0 /\ \E k : Last(UpTo(S, idx), k) /\ ~(Far(tv, idx, t, k) <= Far(tv, idx, t, m))

\* What NearestAvailable returns is a slice, and the preferred one.
LEMMA NearestIs ==
  ASSUME NEW S \in SUBSET Nat, S # {}, NEW b \in Nat, \A n \in S : n <= b,
         NEW tv, NEW idx \in Int, NEW direction \in {-1, 0, 1}, NEW t \in Int
  PROVE  /\ NearestAvailable(S, tv, idx, direction, t) \in S
         /\ Preferred(S, tv, idx, direction, t, NearestAvailable(S, tv, idx, direction, t))
<1>. DEFINE B == UpTo(S, idx)
            A == From(S, idx)
            Lower == direction < 0 \/ (direction = 0 /\ Far(tv, idx, t, Max(B)) <= Far(tv, idx, t, Min(A)))
            m == NearestAvailable(S, tv, idx, direction, t)
<1>1. m = IF A = {} \/ (B # {} /\ Lower) THEN Max(B) ELSE Min(A)
  BY DEF NearestAvailable, Far, UpTo, From
<1>2. B \in SUBSET Nat /\ A \in SUBSET Nat /\ B \subseteq S /\ A \subseteq S
      /\ (A = {} => B # {})
  <2>1. PICK n \in S : TRUE
    OBVIOUS
  <2>2. n \in B \/ n \in A
    BY <2>1 DEF UpTo, From
  <2>3. B \subseteq S /\ A \subseteq S
    BY DEF UpTo, From
  <2>. QED
    BY <2>2, <2>3
<1>3. B # {} => Last(B, Max(B))
  <2>. HIDE DEF B
  <2>1. \A n \in B : n <= b
    BY <1>2
  <2>. QED
    BY <1>2, <2>1, MaxIs
<1>4. A # {} => Least(A, Min(A))
  <2>. HIDE DEF A
  <2>. QED
    BY <1>2, MinIs
<1>. HIDE DEF m
<1>5. CASE A = {} \/ (B # {} /\ Lower)
  <2>1. m = Max(B) /\ Last(B, m)
    BY <1>1, <1>2, <1>3, <1>5
  <2>2. m \in S
    BY <1>2, <2>1 DEF Last
  <2>3. ASSUME direction = 0, A # {}
        PROVE  Least(A, Min(A)) /\ Far(tv, idx, t, m) <= Far(tv, idx, t, Min(A))
    BY <1>4, <1>5, <2>1, <2>3
  <2>4. A = {} \/ direction < 0 \/ direction = 0
    BY <1>5
  <2>. HIDE DEF A, B, Lower
  <2>5. \/ A = {}
        \/ direction < 0
        \/ direction = 0 /\ \E k : Least(A, k) /\ Far(tv, idx, t, m) <= Far(tv, idx, t, k)
    BY <2>3, <2>4
  <2>. QED
    BY <2>1, <2>2, <2>5 DEF A, B, Preferred, m
<1>6. CASE ~(A = {} \/ (B # {} /\ Lower))
  <2>1. m = Min(A) /\ Least(A, m) /\ A # {}
    BY <1>1, <1>4, <1>6
  <2>2. m \in S
    BY <1>2, <2>1 DEF Least
  <2>3. ASSUME direction = 0, B # {}
        PROVE  Last(B, Max(B)) /\ ~(Far(tv, idx, t, Max(B)) <= Far(tv, idx, t, m))
    BY <1>3, <1>6, <2>1, <2>3
  <2>4. B = {} \/ direction > 0 \/ direction = 0
    BY <1>6
  <2>. HIDE DEF A, B, Lower
  <2>5. \/ B = {}
        \/ direction > 0
        \/ direction = 0 /\ \E k : Last(B, k) /\ ~(Far(tv, idx, t, k) <= Far(tv, idx, t, m))
    BY <2>3, <2>4
  <2>. QED
    BY <2>1, <2>2, <2>5 DEF A, B, Preferred, m
<1>. QED
  BY <1>5, <1>6

(***************************************************************************)
(* getSlicesTimesIndices(): the indices of the times around t.             *)
(***************************************************************************)
SupIs(tv, t, interp, b, sup) ==
  sup = IF b = Len(tv) THEN Len(tv) - 1
        ELSE IF b = 0 /\ interp # "closest" /\ Len(tv) > 1 THEN 1 ELSE b

\* Both indices are on the timebase, SLICE_INF the one before SLICE_SUP.
LEMMA SlicesAround ==
  ASSUME NEW tv, Timeline(tv), Len(tv) # 0, NEW t \in Int, NEW interp
  PROVE  /\ SliceSup(tv, t, interp) \in 0..Len(tv) - 1
         /\ SupIs(tv, t, interp, LowerBound(tv, t), SliceSup(tv, t, interp))
         /\ SliceInf(tv, t, interp) \in 0..Len(tv) - 1
         /\ SliceInf(tv, t, interp) =
              IF SliceSup(tv, t, interp) > 0 THEN SliceSup(tv, t, interp) - 1 ELSE 0
<1>1. IncreasingPrefix(tv) = Len(tv) /\ Len(tv) \in Nat /\ LowerBound(tv, t) \in 0..Len(tv)
  BY PrefixIsAll, BoundsCount
<1>2. SupIs(tv, t, interp, LowerBound(tv, t), SliceSup(tv, t, interp))
  BY <1>1 DEF SupIs, SliceSup
<1>3. SliceSup(tv, t, interp) \in 0..Len(tv) - 1
  BY <1>1, <1>2 DEF SupIs
<1>. QED
  BY <1>1, <1>2, <1>3 DEF SliceInf

\* Of the times on one side of "closest", those further off are further away.
LEMMA ClosestIs ==
  ASSUME NEW tv, Timeline(tv), Len(tv) # 0, NEW t \in Int
  PROVE  LET idx == SliceIndex(tv, t, "closest")
         IN  /\ idx \in 0..Len(tv) - 1
             /\ \A i, j \in 0..Len(tv) - 1 :
                  (j <= i /\ i <= idx) \/ (idx <= i /\ i <= j) =>
                     Distance(At(tv, i), t) <= Distance(At(tv, j), t)
<1>. DEFINE N == Len(tv)
            b == LowerBound(tv, t)
            sup == SliceSup(tv, t, "closest")
            inf == SliceInf(tv, t, "closest")
            idx == SliceIndex(tv, t, "closest")
            D(i) == IF At(tv, i) >= t THEN At(tv, i) - t ELSE t - At(tv, i)
<1>1. /\ N \in Nat /\ N # 0 /\ b \in 0..N
      /\ \A i \in 0..N - 1 : At(tv, i) \in Int /\ (At(tv, i) < t <=> i < b)
      /\ \A i, j \in 0..N - 1 : i < j => At(tv, i) < At(tv, j)
  BY LowerBoundAt
<1>2. /\ sup \in 0..N - 1 /\ inf \in 0..N - 1
      /\ sup = IF b = N THEN N - 1 ELSE b
      /\ inf = IF sup > 0 THEN sup - 1 ELSE 0
  BY SlicesAround DEF SupIs
<1>3. \A i \in 0..N - 1 : Distance(At(tv, i), t) = D(i) /\ Distance(t, At(tv, i)) = D(i)
                           /\ D(i) \in Int
  BY <1>1 DEF Distance
<1>4. idx = IF D(sup) <= D(inf) THEN sup ELSE inf
  BY <1>2, <1>3 DEF SliceIndex
<1>. HIDE DEF N, b, sup, inf, idx
<1>5. \A i, j \in 0..N - 1 : j <= i /\ i < b => D(i) <= D(j)
  BY <1>1
<1>6. \A i, j \in 0..N - 1 : b <= i /\ i <= j => D(i) <= D(j)
  BY <1>1
<1>. HIDE DEF D
<1>7. idx \in 0..N - 1
  BY <1>2, <1>4
<1>8. ASSUME NEW i \in 0..N - 1, NEW j \in 0..N - 1,
             (j <= i /\ i <= idx) \/ (idx <= i /\ i <= j)
      PROVE  D(i) <= D(j)
  <2>1. CASE b = N
    <3>1. sup = N - 1 /\ inf <= sup /\ D(sup) <= D(inf)
      BY <1>1, <1>2, <1>5, <2>1
    <3>2. idx = N - 1
      BY <1>4, <3>1
    <3>3. j <= i /\ i < b
      BY <1>1, <1>8, <2>1, <3>2
    <3>. QED
      BY <1>5, <3>3
  <2>2. CASE b # N
    <3>1. sup = b /\ inf = IF b > 0 THEN b - 1 ELSE 0
      BY <1>2, <2>2
    <3>2. CASE i # idx
      <4>1. (j <= i /\ i < b) \/ (b <= i /\ i <= j)
        BY <1>1, <1>2, <1>4, <1>8, <3>1, <3>2
      <4>. QED
        BY <1>5, <1>6, <4>1
    <3>3. CASE i = idx
      <4>1. D(idx) <= D(sup) /\ D(idx) <= D(inf)
        BY <1>2, <1>3, <1>4
      <4>2. CASE b <= j
        <5>1. D(sup) <= D(j)
          BY <1>2, <1>6, <3>1, <4>2
        <5>. QED
          BY <1>2, <1>3, <1>7, <3>3, <4>1, <5>1
      <4>3. CASE j < b
        <5>1. D(inf) <= D(j)
          BY <1>1, <1>2, <1>5, <3>1, <4>3
        <5>. QED
          BY <1>2, <1>3, <1>7, <3>3, <4>1, <5>1
      <4>. QED
        BY <1>1, <4>2, <4>3
    <3>. QED
      BY <3>2, <3>3
  <2>. QED
    BY <2>1, <2>2
<1>9. /\ idx \in 0..N - 1
      /\ \A i, j \in 0..N - 1 : (j <= i /\ i <= idx) \/ (idx <= i /\ i <= j) =>
            Distance(At(tv, i), t) <= Distance(At(tv, j), t)
  BY <1>3, <1>7, <1>8
<1>. QED
  BY <1>9 DEF N, idx

(***************************************************************************)
(* readInterpolatedData(), by mode.                                        *)
(***************************************************************************)
LEMMA ClosestRead ==
  ASSUME NEW tv, Timeline(tv), NEW S \in SUBSET (0..Len(tv) - 1), S # {}, NEW t \in Int, t >= 0
  PROVE  \E m \in S : /\ ReadInterpolated(S, tv, t, "closest") = Only(m)
                      /\ \A i \in S : Distance(At(tv, m), t) <= Distance(At(tv, i), t)
<1>. DEFINE N == Len(tv)
            idx == SliceIndex(tv, t, "closest")
            m == NearestAvailable(S, tv, idx, 0, t)
            D(i) == Distance(At(tv, i), t)
<1>1. N \in Nat /\ N # 0 /\ S \in SUBSET Nat /\ \A n \in S : n <= N
  <2>1. N \in Nat
    BY PrefixIsAll
  <2>2. PICK n \in S : TRUE
    OBVIOUS
  <2>. QED
    BY <2>1, <2>2
<1>2. /\ idx \in 0..N - 1
      /\ \A i, j \in 0..N - 1 : (j <= i /\ i <= idx) \/ (idx <= i /\ i <= j) => D(i) <= D(j)
  <2>. HIDE DEF idx
  <2>. QED
    BY <1>1, ClosestIs DEF idx
<1>3. \A i \in 0..N - 1 : D(i) \in Int
  <2>1. \A i \in 0..N - 1 : At(tv, i) \in Int
    BY LowerBoundAt
  <2>. QED
    BY <2>1 DEF Distance
<1>4. m \in S /\ Preferred(S, tv, idx, 0, t, m)
  <2>. HIDE DEF idx, N
  <2>. DEFINE direction == 0
  <2>1. direction \in {-1, 0, 1} /\ idx \in Int
    BY <1>1, <1>2
  <2>2. /\ NearestAvailable(S, tv, idx, direction, t) \in S
        /\ Preferred(S, tv, idx, direction, t, NearestAvailable(S, tv, idx, direction, t))
    <3>. HIDE DEF direction
    <3>. QED
      BY <1>1, <2>1, NearestIs
  <2>. QED
    BY <2>2
<1>5. ReadInterpolated(S, tv, t, "closest") = Only(m)
  <2>1. m # -1
    BY <1>1, <1>4
  <2>. HIDE DEF m
  <2>. QED
    BY <2>1 DEF ReadInterpolated, m
<1>6. \A i : Far(tv, idx, t, i) = D(i)
  BY DEF Far
<1>. HIDE DEF m, idx, D, N
<1>7. ASSUME NEW i \in S
      PROVE  D(m) <= D(i)
  <2>0. /\ i \in 0..N - 1 /\ m \in 0..N - 1 /\ idx \in Int /\ i \in Int /\ m \in Int
        /\ S \subseteq 0..N - 1
    BY <1>1, <1>2, <1>4 DEF N
  <2>1. CASE Last(UpTo(S, idx), m) /\ i <= idx
    <3>1. i <= m /\ m <= idx
      BY <1>7, <2>1 DEF Last, UpTo
    <3>. QED
      BY <1>2, <2>0, <3>1
  <2>2. CASE Least(From(S, idx), m) /\ i >= idx
    <3>1. m <= i /\ idx <= m
      BY <1>7, <2>2 DEF Least, From
    <3>. QED
      BY <1>2, <2>0, <3>1
  <2>3. CASE Last(UpTo(S, idx), m) /\ ~(i <= idx)
    <3>1. i \in From(S, idx)
      BY <2>0, <2>3 DEF From
    <3>2. CASE Least(From(S, idx), m)
      BY <2>0, <2>2, <2>3, <3>2
    <3>3. CASE ~Least(From(S, idx), m)
      <4>1. PICK k : Least(From(S, idx), k) /\ D(m) <= D(k)
        BY <1>4, <1>6, <3>1, <3>3 DEF Preferred
      <4>2. k \in 0..N - 1 /\ k <= i /\ idx <= k
        BY <2>0, <3>1, <4>1 DEF Least, From
      <4>3. D(k) <= D(i)
        BY <1>2, <2>0, <4>2
      <4>. QED
        BY <1>3, <2>0, <4>1, <4>2, <4>3
    <3>. QED
      BY <3>2, <3>3
  <2>4. CASE Least(From(S, idx), m) /\ ~(i >= idx)
    <3>1. i \in UpTo(S, idx)
      BY <2>0, <2>4 DEF UpTo
    <3>2. CASE Last(UpTo(S, idx), m)
      BY <2>0, <2>1, <2>4, <3>2
    <3>3. CASE ~Last(UpTo(S, idx), m)
      <4>1. PICK k : Last(UpTo(S, idx), k) /\ ~(D(k) <= D(m))
        BY <1>4, <1>6, <3>1, <3>3 DEF Preferred
      <4>2. k \in 0..N - 1 /\ i <= k /\ k <= idx
        BY <2>0, <3>1, <4>1 DEF Last, UpTo
      <4>3. D(k) <= D(i)
        BY <1>2, <2>0, <4>2
      <4>. QED
        BY <1>3, <2>0, <4>1, <4>2, <4>3
    <3>. QED
      BY <3>2, <3>3
  <2>. QED
    BY <1>4, <2>1, <2>2, <2>3, <2>4 DEF Preferred
<1>. QED
  BY <1>4, <1>5, <1>7 DEF D

\* The slices before t and after it, a slice at t in both.
Earlier(S, tv, t) == {i \in S : At(tv, i) <= t}
Later(S, tv, t) == {i \in S : At(tv, i) >= t}

First(S, tv, t, m) ==
  /\ Earlier(S, tv, t) # {} => Last(Earlier(S, tv, t), m)
  /\ Earlier(S, tv, t) = {} => Least(Later(S, tv, t), m)

Final(S, tv, t, m) ==
  /\ Later(S, tv, t) # {} => Least(Later(S, tv, t), m)
  /\ Later(S, tv, t) = {} => Last(Earlier(S, tv, t), m)

\* First and Final are what ReadsAround names first and last.
LEMMA AroundIs ==
  ASSUME NEW tv, Timeline(tv), NEW S \in SUBSET (0..Len(tv) - 1), S # {}, NEW t \in Int
  PROVE  LET before == Earlier(S, tv, t)
             after == Later(S, tv, t)
         IN  /\ \A m : First(S, tv, t, m) => m = IF before = {} THEN Min(after) ELSE Max(before)
             /\ \A m : Final(S, tv, t, m) => m = IF after = {} THEN Max(before) ELSE Min(after)
<1>. DEFINE before == Earlier(S, tv, t)
            after == Later(S, tv, t)
<1>1. /\ Len(tv) \in Nat /\ before \in SUBSET Nat /\ after \in SUBSET Nat
      /\ \A n \in before : n <= Len(tv)
      /\ (before # {} \/ after # {})
  <2>1. Len(tv) \in Nat /\ \A i \in S : At(tv, i) \in Int
    BY LowerBoundAt
  <2>2. PICK n \in S : TRUE
    OBVIOUS
  <2>3. n \in before \/ n \in after
    BY <2>1, <2>2 DEF Earlier, Later
  <2>4. before \subseteq S /\ after \subseteq S
    BY DEF Earlier, Later
  <2>5. S \subseteq Nat /\ \A n2 \in S : n2 <= Len(tv)
    BY <2>1
  <2>. QED
    BY <2>1, <2>3, <2>4, <2>5
<1>2. \A m : First(S, tv, t, m) <=> /\ before # {} => Last(before, m)
                                    /\ before = {} => Least(after, m)
  BY DEF First
<1>3. \A m : Final(S, tv, t, m) <=> /\ after # {} => Least(after, m)
                                    /\ after = {} => Last(before, m)
  BY DEF Final
<1>. HIDE DEF before, after
<1>4. before # {} => \A m : Last(before, m) => m = Max(before)
  BY <1>1, MaxIs
<1>5. after # {} => \A m : Least(after, m) => m = Min(after)
  BY <1>1, MinIs
<1>6. /\ \A m : First(S, tv, t, m) => m = IF before = {} THEN Min(after) ELSE Max(before)
      /\ \A m : Final(S, tv, t, m) => m = IF after = {} THEN Max(before) ELSE Min(after)
  BY <1>1, <1>2, <1>3, <1>4, <1>5
<1>. QED
  BY <1>6 DEF before, after

\* "previous" is the last time not behind t, or the first of all.
LEMMA PreviousIs ==
  ASSUME NEW tv, Timeline(tv), Len(tv) # 0, NEW t \in Int
  PROVE  LET idx == SliceIndex(tv, t, "previous")
         IN  /\ idx \in 0..Len(tv) - 1
             /\ \/ \A i \in 0..Len(tv) - 1 : i <= idx <=> At(tv, i) <= t
                \/ idx = 0 /\ \A i \in 0..Len(tv) - 1 : ~(At(tv, i) <= t)
<1>. DEFINE N == Len(tv)
            b == LowerBound(tv, t)
            sup == SliceSup(tv, t, "previous")
            inf == SliceInf(tv, t, "previous")
            idx == SliceIndex(tv, t, "previous")
<1>1. /\ N \in Nat /\ N # 0 /\ b \in 0..N
      /\ \A i \in 0..N - 1 : At(tv, i) \in Int /\ (At(tv, i) < t <=> i < b)
      /\ \A i, j \in 0..N - 1 : i < j => At(tv, i) < At(tv, j)
  BY LowerBoundAt
<1>2. /\ sup \in 0..N - 1 /\ inf \in 0..N - 1
      /\ sup = IF b = N THEN N - 1 ELSE IF b = 0 /\ N > 1 THEN 1 ELSE b
      /\ inf = IF sup > 0 THEN sup - 1 ELSE 0
  BY SlicesAround DEF SupIs
<1>3. idx = IF sup > 0 /\ At(tv, sup) <= t THEN sup ELSE inf
  BY DEF SliceIndex
<1>. HIDE DEF N, b, sup, inf, idx
<1>4. idx \in 0..N - 1
  BY <1>2, <1>3
<1>5. CASE b = N
  <2>1. idx = N - 1 /\ \A i \in 0..N - 1 : At(tv, i) <= t
    BY <1>1, <1>2, <1>3, <1>5
  <2>. QED
    BY <1>1, <1>4, <2>1 DEF N, idx
<1>6. CASE b = 0
  <2>1. idx = 0
    <3>1. CASE N > 1
      <4>1. sup = 1 /\ At(tv, 0) < At(tv, 1) /\ ~(At(tv, 0) < t) /\ At(tv, 0) \in Int /\ At(tv, 1) \in Int
        BY <1>1, <1>2, <1>6, <3>1
      <4>. QED
        BY <1>2, <1>3, <4>1
    <3>2. CASE ~(N > 1)
      BY <1>1, <1>4, <3>2
    <3>. QED
      BY <3>1, <3>2
  <2>2. \A i \in 0..N - 1 : At(tv, i) >= t /\ (i # 0 => ~(At(tv, i) <= t))
    BY <1>1, <1>6
  <2>3. \/ \A i \in 0..N - 1 : i <= 0 <=> At(tv, i) <= t
        \/ \A i \in 0..N - 1 : ~(At(tv, i) <= t)
    BY <1>1, <2>2
  <2>. QED
    BY <1>4, <2>1, <2>3 DEF N, idx
<1>7. CASE b # N /\ b # 0
  <2>1. sup = b /\ inf = b - 1 /\ b \in 0..N - 1 /\ ~(At(tv, b) < t)
    BY <1>1, <1>2, <1>7
  <2>2. \A i \in 0..N - 1 : i <= idx <=> At(tv, i) <= t
    <3>1. CASE At(tv, b) <= t
      <4>1. idx = b
        BY <1>3, <1>7, <2>1, <3>1
      <4>2. \A i \in 0..N - 1 : i < b => At(tv, i) <= t
        BY <1>1
      <4>3. \A i \in 0..N - 1 : b < i => ~(At(tv, i) <= t)
        BY <1>1, <2>1
      <4>. QED
        BY <1>1, <2>1, <3>1, <4>1, <4>2, <4>3
    <3>2. CASE ~(At(tv, b) <= t)
      <4>1. idx = b - 1
        BY <1>3, <2>1, <3>2
      <4>2. \A i \in 0..N - 1 : i < b => At(tv, i) <= t
        BY <1>1
      <4>3. \A i \in 0..N - 1 : b <= i => ~(At(tv, i) <= t)
        BY <1>1, <2>1, <3>2
      <4>. QED
        BY <1>1, <4>1, <4>2, <4>3
    <3>. QED
      BY <3>1, <3>2
  <2>. QED
    BY <1>4, <2>2 DEF N, idx
<1>. QED
  BY <1>5, <1>6, <1>7

\* "previous" gives the last slice not behind t, else the first of all.
LEMMA PreviousRead ==
  ASSUME NEW tv, Timeline(tv), NEW S \in SUBSET (0..Len(tv) - 1), S # {}, NEW t \in Int
  PROVE  \E m : /\ ReadInterpolated(S, tv, t, "previous") = Only(m)
                /\ First(S, tv, t, m)
<1>. DEFINE N == Len(tv)
            idx == SliceIndex(tv, t, "previous")
            m == NearestAvailable(S, tv, idx, -1, t)
<1>1. N \in Nat /\ N # 0 /\ S \in SUBSET Nat /\ \A n \in S : n <= N
  <2>1. N \in Nat
    BY PrefixIsAll
  <2>2. PICK n \in S : TRUE
    OBVIOUS
  <2>. QED
    BY <2>1, <2>2
<1>2. /\ idx \in 0..N - 1
      /\ \/ \A i \in 0..N - 1 : i <= idx <=> At(tv, i) <= t
         \/ idx = 0 /\ \A i \in 0..N - 1 : ~(At(tv, i) <= t)
  <2>. HIDE DEF idx
  <2>. QED
    BY <1>1, PreviousIs DEF idx
<1>3. /\ m \in S
      /\ Last(UpTo(S, idx), m) \/ (Least(From(S, idx), m) /\ UpTo(S, idx) = {})
  <2>. HIDE DEF idx, N
  <2>. DEFINE direction == -1
  <2>1. direction \in {-1, 0, 1} /\ idx \in Int
    BY <1>1, <1>2
  <2>2. /\ NearestAvailable(S, tv, idx, direction, t) \in S
        /\ Preferred(S, tv, idx, direction, t, NearestAvailable(S, tv, idx, direction, t))
    <3>. HIDE DEF direction
    <3>. QED
      BY <1>1, <2>1, NearestIs
  <2>3. Last(UpTo(S, idx), m) \/ (Least(From(S, idx), m) /\ UpTo(S, idx) = {})
    <3>. DEFINE B == UpTo(S, idx)
                A == From(S, idx)
    <3>1. A = {} => ~Least(A, m)
      BY DEF Least
    <3>. HIDE DEF m
    <3>2. Preferred(S, tv, idx, -1, t, m)
      BY <2>2 DEF m
    <3>. QED
      BY <3>2 DEF Preferred
  <2>. QED
    BY <2>2, <2>3
<1>4. ReadInterpolated(S, tv, t, "previous") = Only(m)
  <2>1. m # -1
    BY <1>1, <1>3
  <2>. HIDE DEF m
  <2>. QED
    BY <2>1 DEF ReadInterpolated, m
<1>. HIDE DEF m, idx, N
<1>5. \A i \in S : i \in 0..N - 1 /\ At(tv, i) \in Int
  BY LowerBoundAt DEF N
<1>6. CASE \A i \in 0..N - 1 : i <= idx <=> At(tv, i) <= t
  <2>1. UpTo(S, idx) = Earlier(S, tv, t)
    BY <1>5, <1>6 DEF UpTo, Earlier
  <2>2. UpTo(S, idx) = {} => From(S, idx) = S /\ Later(S, tv, t) = S
    <3>. SUFFICES ASSUME UpTo(S, idx) = {}, NEW i \in S
                  PROVE  i >= idx /\ At(tv, i) >= t
      BY DEF From, Later
    <3>1. ~(i <= idx) /\ ~(At(tv, i) <= t)
      BY <1>5, <1>6 DEF UpTo
    <3>. QED
      BY <1>1, <1>2, <1>5, <3>1
  <2>3. UpTo(S, idx) # {} => Last(UpTo(S, idx), m)
    BY <1>3
  <2>4. UpTo(S, idx) = {} => Least(S, m)
    <3>1. UpTo(S, idx) = {} => ~Last(UpTo(S, idx), m)
      BY DEF Last
    <3>. QED
      BY <1>3, <2>2, <3>1
  <2>5. First(S, tv, t, m)
    BY <2>1, <2>2, <2>3, <2>4 DEF First
  <2>. QED
    BY <1>4, <2>5
<1>7. CASE idx = 0 /\ \A i \in 0..N - 1 : ~(At(tv, i) <= t)
  <2>1. Earlier(S, tv, t) = {} /\ Later(S, tv, t) = S
    <3>1. \A i \in S : ~(At(tv, i) <= t) /\ At(tv, i) >= t
      BY <1>5, <1>7
    <3>. QED
      BY <3>1 DEF Earlier, Later
  <2>2. From(S, idx) = S
    <3>1. \A i \in S : i >= idx
      BY <1>5, <1>7
    <3>. QED
      BY <3>1 DEF From
  <2>3. Least(S, m)
    <3>1. CASE Last(UpTo(S, idx), m)
      <4>1. m = 0 /\ m \in S
        BY <1>1, <1>7, <3>1 DEF Last, UpTo
      <4>. QED
        BY <1>1, <4>1 DEF Least
    <3>. QED
      BY <1>3, <2>2, <3>1
  <2>. QED
    BY <1>4, <2>1, <2>3 DEF First
<1>. QED
  BY <1>2, <1>6, <1>7

\* "linear" starts from the samples around t, or from the first or last two.
LEMMA LinearIs ==
  ASSUME NEW tv, Timeline(tv), Len(tv) # 0, NEW t \in Int
  PROVE  LET lo == SliceInf(tv, t, "linear")
             hi == SliceSup(tv, t, "linear")
         IN  /\ lo \in 0..Len(tv) - 1 /\ hi \in 0..Len(tv) - 1
             /\ lo = (IF hi > 0 THEN hi - 1 ELSE 0) /\ (hi = 0 => Len(tv) = 1)
             /\ \/ \A i \in 0..Len(tv) - 1 : i < hi => At(tv, i) <= t
                \/ hi = 1 /\ At(tv, 0) >= t
             /\ \/ \A i \in 0..Len(tv) - 1 : i >= hi => At(tv, i) >= t
                \/ hi = Len(tv) - 1 /\ At(tv, hi) <= t
<1>. DEFINE N == Len(tv)
            b == LowerBound(tv, t)
            lo == SliceInf(tv, t, "linear")
            hi == SliceSup(tv, t, "linear")
<1>1. /\ N \in Nat /\ N # 0 /\ b \in 0..N
      /\ \A i \in 0..N - 1 : At(tv, i) \in Int /\ (At(tv, i) < t <=> i < b)
      /\ \A i, j \in 0..N - 1 : i < j => At(tv, i) < At(tv, j)
  BY LowerBoundAt
<1>2. /\ hi \in 0..N - 1 /\ lo \in 0..N - 1
      /\ hi = IF b = N THEN N - 1 ELSE IF b = 0 /\ N > 1 THEN 1 ELSE b
      /\ lo = IF hi > 0 THEN hi - 1 ELSE 0
  BY SlicesAround DEF SupIs
<1>. HIDE DEF N, b, lo, hi
<1>3. hi = 0 => N = 1
  BY <1>1, <1>2
<1>4. \/ \A i \in 0..N - 1 : i < hi => At(tv, i) <= t
      \/ hi = 1 /\ At(tv, 0) >= t
  <2>1. CASE hi <= b
    BY <1>1, <1>2, <2>1
  <2>2. CASE ~(hi <= b)
    <3>1. b = 0 /\ hi = 1 /\ 0 \in 0..N - 1
      BY <1>1, <1>2, <2>2
    <3>. QED
      BY <1>1, <3>1
  <2>. QED
    BY <2>1, <2>2
<1>5. \/ \A i \in 0..N - 1 : i >= hi => At(tv, i) >= t
      \/ hi = N - 1 /\ At(tv, hi) <= t
  <2>1. CASE b <= hi
    BY <1>1, <1>2, <2>1
  <2>2. CASE ~(b <= hi)
    <3>1. hi = N - 1 /\ hi < b
      BY <1>1, <1>2, <2>2
    <3>. QED
      BY <1>1, <1>2, <3>1
  <2>. QED
    BY <2>1, <2>2
<1>. QED
  BY <1>2, <1>3, <1>4, <1>5 DEF N, lo, hi

\* A slice at t, or the end of S that t lies beyond, is first and final.
LEMMA OneAround ==
  ASSUME NEW tv, Timeline(tv), NEW S \in SUBSET (0..Len(tv) - 1), NEW t \in Int, NEW m \in S,
         \/ At(tv, m) = t
         \/ \A i \in S : i <= m /\ At(tv, i) <= t
         \/ \A i \in S : m <= i /\ At(tv, i) >= t
  PROVE  First(S, tv, t, m) /\ Final(S, tv, t, m)
<1>1. \A i \in S : i \in Int /\ At(tv, i) \in Int
  BY LowerBoundAt
<1>2. \A i, j \in S : i < j => At(tv, i) < At(tv, j)
  BY LowerBoundAt
<1>3. CASE At(tv, m) = t
  <2>1. \A i \in S : /\ At(tv, i) <= t <=> i <= m
                     /\ At(tv, i) >= t <=> i >= m
    BY <1>1, <1>2, <1>3
  <2>2. Last(Earlier(S, tv, t), m) /\ Least(Later(S, tv, t), m)
    BY <1>1, <2>1 DEF Last, Least, Earlier, Later
  <2>. QED
    BY <2>2 DEF First, Final, Last, Least
<1>4. CASE \A i \in S : i <= m /\ At(tv, i) <= t
  <2>1. Earlier(S, tv, t) = S /\ Last(S, m)
    BY <1>4 DEF Earlier, Last
  <2>2. \A i \in S : At(tv, i) >= t => i = m
    BY <1>1, <1>2, <1>4
  <2>3. Later(S, tv, t) # {} => Least(Later(S, tv, t), m)
    <3>. SUFFICES ASSUME NEW j \in Later(S, tv, t)
                  PROVE  Least(Later(S, tv, t), m)
      OBVIOUS
    <3>1. \A i \in Later(S, tv, t) : i \in S /\ i = m
      BY <2>2 DEF Later
    <3>2. m \in Later(S, tv, t) /\ \A i \in Later(S, tv, t) : m <= i
      BY <1>1, <3>1
    <3>. QED
      BY <3>2 DEF Least
  <2>. QED
    BY <2>1, <2>3 DEF First, Final
<1>5. CASE \A i \in S : m <= i /\ At(tv, i) >= t
  <2>1. Later(S, tv, t) = S /\ Least(S, m)
    BY <1>5 DEF Later, Least
  <2>2. \A i \in S : At(tv, i) <= t => i = m
    BY <1>1, <1>2, <1>5
  <2>3. Earlier(S, tv, t) # {} => Last(Earlier(S, tv, t), m)
    <3>. SUFFICES ASSUME NEW j \in Earlier(S, tv, t)
                  PROVE  Last(Earlier(S, tv, t), m)
      OBVIOUS
    <3>1. \A i \in Earlier(S, tv, t) : i \in S /\ i = m
      BY <2>2 DEF Earlier
    <3>2. m \in Earlier(S, tv, t) /\ \A i \in Earlier(S, tv, t) : i <= m
      BY <1>1, <3>1
    <3>. QED
      BY <3>2 DEF Last
  <2>. QED
    BY <2>1, <2>3 DEF First, Final
<1>. QED
  BY <1>3, <1>4, <1>5

\* Two slices with t between them and none of S between them.
LEMMA TwoAround ==
  ASSUME NEW tv, Timeline(tv), NEW S \in SUBSET (0..Len(tv) - 1), NEW t \in Int,
         NEW a \in S, NEW c \in S, At(tv, a) < t, t < At(tv, c),
         \A i \in S : i <= a \/ c <= i
  PROVE  First(S, tv, t, a) /\ Final(S, tv, t, c)
<1>1. \A i \in S : i \in Int /\ At(tv, i) \in Int
  BY LowerBoundAt
<1>2. \A i, j \in S : i < j => At(tv, i) < At(tv, j)
  BY LowerBoundAt
<1>3. \A i \in S : /\ At(tv, i) <= t <=> i <= a
                   /\ At(tv, i) >= t <=> i >= c
  <2>1. \A i \in S : i <= a => At(tv, i) < t
    BY <1>1, <1>2
  <2>2. \A i \in S : c <= i => At(tv, i) > t
    BY <1>1, <1>2
  <2>. QED
    BY <1>1, <2>1, <2>2
<1>4. Last(Earlier(S, tv, t), a) /\ Least(Later(S, tv, t), c)
  BY <1>1, <1>3 DEF Last, Least, Earlier, Later
<1>. QED
  BY <1>4 DEF First, Final, Last, Least

LinearSlice(tv, t, f, l) ==
  IF f = l THEN Only(f)
  ELSE [inf |-> f, sup |-> l, num |-> t - At(tv, f), den |-> At(tv, l) - At(tv, f)]

\* "linear" gives the slices next to t on both sides, or the only one there is.
LEMMA LinearRead ==
  ASSUME NEW tv, Timeline(tv), NEW S \in SUBSET (0..Len(tv) - 1), S # {}, NEW t \in Int
  PROVE  \E f, l : /\ First(S, tv, t, f) /\ Final(S, tv, t, l)
                   /\ ReadInterpolated(S, tv, t, "linear") = LinearSlice(tv, t, f, l)
<1>. DEFINE N == Len(tv)
            lo == SliceInf(tv, t, "linear")
            hi == SliceSup(tv, t, "linear")
            a == NearestAvailable(S, tv, lo, -1, t)
            c == IF hi # lo THEN NearestAvailable(S, tv, hi, 1, t) ELSE a
<1>1. N \in Nat /\ N # 0 /\ S \in SUBSET Nat /\ \A n \in S : n <= N
  <2>1. N \in Nat
    BY PrefixIsAll
  <2>2. PICK n \in S : TRUE
    OBVIOUS
  <2>. QED
    BY <2>1, <2>2
<1>2. /\ lo \in 0..N - 1 /\ hi \in 0..N - 1
      /\ lo = (IF hi > 0 THEN hi - 1 ELSE 0) /\ (hi = 0 => N = 1)
      /\ \/ \A i \in 0..N - 1 : i < hi => At(tv, i) <= t
         \/ hi = 1 /\ At(tv, 0) >= t
      /\ \/ \A i \in 0..N - 1 : i >= hi => At(tv, i) >= t
         \/ hi = N - 1 /\ At(tv, hi) <= t
  <2>. HIDE DEF lo, hi
  <2>. QED
    BY <1>1, LinearIs DEF lo, hi
<1>3. /\ a \in S
      /\ Last(UpTo(S, lo), a) \/ (Least(From(S, lo), a) /\ UpTo(S, lo) = {})
  <2>. HIDE DEF lo, N
  <2>. DEFINE direction == -1
  <2>1. direction \in {-1, 0, 1} /\ lo \in Int
    BY <1>1, <1>2
  <2>2. /\ NearestAvailable(S, tv, lo, direction, t) \in S
        /\ Preferred(S, tv, lo, direction, t, NearestAvailable(S, tv, lo, direction, t))
    <3>. HIDE DEF direction
    <3>. QED
      BY <1>1, <2>1, NearestIs
  <2>3. a \in S /\ Preferred(S, tv, lo, -1, t, a)
    BY <2>2
  <2>. HIDE DEF a
  <2>4. Last(UpTo(S, lo), a) \/ (Least(From(S, lo), a) /\ UpTo(S, lo) = {})
    BY <2>3 DEF Preferred
  <2>. QED
    BY <2>3, <2>4
<1>4. /\ c \in S
      /\ hi = lo => c = a
      /\ hi # lo => Least(From(S, hi), c) \/ (Last(UpTo(S, hi), c) /\ From(S, hi) = {})
  <2>1. CASE hi = lo
    BY <1>3, <2>1
  <2>2. CASE hi # lo
    <3>. HIDE DEF lo, hi, N
    <3>. DEFINE direction == 1
    <3>1. direction \in {-1, 0, 1} /\ hi \in Int
      BY <1>1, <1>2
    <3>2. /\ NearestAvailable(S, tv, hi, direction, t) \in S
          /\ Preferred(S, tv, hi, direction, t, NearestAvailable(S, tv, hi, direction, t))
      <4>. HIDE DEF direction
      <4>. QED
        BY <1>1, <3>1, NearestIs
    <3>3. c \in S /\ Preferred(S, tv, hi, 1, t, c)
      BY <2>2, <3>2
    <3>. HIDE DEF c
    <3>4. Least(From(S, hi), c) \/ (Last(UpTo(S, hi), c) /\ From(S, hi) = {})
      BY <3>3 DEF Preferred
    <3>. QED
      BY <2>2, <3>3, <3>4
  <2>. QED
    BY <2>1, <2>2
<1>5. ReadInterpolated(S, tv, t, "linear") =
        IF c = a THEN Only(a)
        ELSE Interpolate(tv, IF c < a THEN c ELSE a, IF c < a THEN a ELSE c, t)
  <2>1. a # -1
    BY <1>1, <1>3
  <2>2. SliceIndex(tv, t, "linear") = lo
    BY DEF SliceIndex
  <2>. HIDE DEF lo, hi
  <2>3. ReadInterpolated(S, tv, t, "linear") =
          IF a = -1 THEN NoData
          ELSE IF c = a THEN Only(a)
          ELSE Interpolate(tv, IF c < a THEN c ELSE a, IF c < a THEN a ELSE c, t)
    BY <2>2 DEF ReadInterpolated, hi
  <2>. HIDE DEF a, c
  <2>. QED
    BY <2>1, <2>3
<1>. HIDE DEF a, c, lo, hi
<1>6. \A i \in S : i \in 0..N - 1 /\ i \in Int /\ At(tv, i) \in Int
  BY LowerBoundAt
<1>7. \A i, j \in S : i < j => At(tv, i) < At(tv, j)
  BY LowerBoundAt
<1>. HIDE DEF N
<1>8. ASSUME c = a, First(S, tv, t, a), Final(S, tv, t, a)
      PROVE  \E f, l : /\ First(S, tv, t, f) /\ Final(S, tv, t, l)
                       /\ ReadInterpolated(S, tv, t, "linear") = LinearSlice(tv, t, f, l)
  <2>1. ReadInterpolated(S, tv, t, "linear") = LinearSlice(tv, t, a, a)
    BY <1>5, <1>8 DEF LinearSlice
  <2>. QED
    BY <1>8, <2>1
<1>9. CASE hi = 0
  <2>1. c = a /\ a = 0 /\ \A i \in S : i = 0
    BY <1>2, <1>3, <1>4, <1>6, <1>9
  <2>2. \/ \A i \in S : i <= a /\ At(tv, i) <= t
        \/ \A i \in S : a <= i /\ At(tv, i) >= t
    BY <1>3, <1>6, <2>1
  <2>3. First(S, tv, t, a) /\ Final(S, tv, t, a)
    BY <1>3, <2>2, OneAround
  <2>. QED
    BY <1>8, <2>1, <2>3
<1>10. CASE hi > 0
  <2>0. /\ lo = hi - 1 /\ hi # lo /\ hi \in Int
        /\ \A i \in S : (i \in UpTo(S, lo) <=> i < hi) /\ (i \in From(S, hi) <=> i >= hi)
    BY <1>2, <1>6, <1>10 DEF UpTo, From
  <2>1. CASE UpTo(S, lo) = {}
    <3>1. \A i \in S : i >= hi
      BY <1>6, <2>0, <2>1
    <3>2. From(S, hi) = S /\ From(S, lo) = S
      <4>1. \A i \in S : i >= hi /\ i >= lo
        BY <1>6, <2>0, <3>1
      <4>. QED
        BY <4>1 DEF From
    <3>3. Least(S, a) /\ Least(S, c)
      BY <1>3, <1>4, <2>0, <2>1, <3>2 DEF Last
    <3>4. c = a /\ \A i \in S : a <= i
      BY <1>6, <3>3 DEF Least
    <3>5. \/ \A i \in S : i <= a /\ At(tv, i) <= t
          \/ \A i \in S : a <= i /\ At(tv, i) >= t
      <4>1. CASE hi = N - 1 /\ At(tv, hi) <= t
        <5>1. \A i \in S : i = hi
          BY <1>1, <1>6, <3>1, <4>1
        <5>. QED
          BY <1>3, <2>0, <4>1, <5>1
      <4>2. CASE \A i \in 0..N - 1 : i >= hi => At(tv, i) >= t
        BY <1>6, <3>1, <3>4, <4>2
      <4>. QED
        BY <1>2, <4>1, <4>2
    <3>6. First(S, tv, t, a) /\ Final(S, tv, t, a)
      BY <1>3, <3>5, OneAround
    <3>. QED
      BY <1>8, <3>4, <3>6
  <2>2. CASE From(S, hi) = {}
    <3>1. \A i \in S : i < hi
      BY <1>6, <2>0, <2>2
    <3>2. UpTo(S, hi) = S /\ UpTo(S, lo) = S
      <4>1. \A i \in S : i <= hi /\ i <= lo
        BY <1>6, <2>0, <3>1
      <4>. QED
        BY <4>1 DEF UpTo
    <3>3. Last(S, a) /\ Last(S, c)
      BY <1>3, <1>4, <2>0, <2>2, <3>2 DEF Least
    <3>4. c = a /\ \A i \in S : i <= a
      BY <1>6, <3>3 DEF Last
    <3>5. \/ \A i \in S : i <= a /\ At(tv, i) <= t
          \/ \A i \in S : a <= i /\ At(tv, i) >= t
      <4>1. CASE hi = 1 /\ At(tv, 0) >= t
        <5>1. \A i \in S : i = 0
          BY <1>6, <3>1, <4>1
        <5>. QED
          BY <1>3, <4>1, <5>1
      <4>2. CASE \A i \in 0..N - 1 : i < hi => At(tv, i) <= t
        BY <1>6, <3>1, <3>4, <4>2
      <4>. QED
        BY <1>2, <4>1, <4>2
    <3>6. First(S, tv, t, a) /\ Final(S, tv, t, a)
      BY <1>3, <3>5, OneAround
    <3>. QED
      BY <1>8, <3>4, <3>6
  <2>3. CASE UpTo(S, lo) # {} /\ From(S, hi) # {}
    <3>1. Last(UpTo(S, lo), a) /\ Least(From(S, hi), c)
      BY <1>3, <1>4, <2>0, <2>3
    <3>2. /\ a < hi /\ hi <= c /\ a < c
          /\ \A i \in S : (i < hi => i <= a) /\ (i >= hi => c <= i)
      BY <1>3, <1>4, <1>6, <2>0, <3>1 DEF Last, Least
    <3>3. /\ At(tv, a) < At(tv, c) /\ At(tv, a) \in Int /\ At(tv, c) \in Int
          /\ a \in 0..N - 1 /\ c \in 0..N - 1 /\ a \in Int /\ c \in Int
      BY <1>3, <1>4, <1>6, <1>7, <3>2
    <3>4. \A i \in S : i <= a \/ c <= i
      BY <1>6, <2>0, <3>2
    <3>5. ReadInterpolated(S, tv, t, "linear") =
            IF t >= At(tv, c) THEN Only(c)
            ELSE IF t <= At(tv, a) THEN Only(a)
            ELSE LinearSlice(tv, t, a, c)
      BY <1>5, <3>2, <3>3 DEF Interpolate, LinearSlice
    <3>6. CASE t >= At(tv, c)
      <4>1. \/ At(tv, c) = t
            \/ \A i \in S : i <= c /\ At(tv, i) <= t
        <5>1. CASE At(tv, c) # t
          <6>1. hi = N - 1
            BY <1>2, <3>2, <3>3, <3>6, <5>1
          <6>2. \A i \in S : i <= c
            BY <1>1, <1>6, <3>2, <3>3, <6>1
          <6>3. \A i \in S : At(tv, i) <= t
            BY <1>4, <1>6, <1>7, <3>3, <3>6, <6>2
          <6>. QED
            BY <6>2, <6>3
        <5>. QED
          BY <5>1
      <4>2. First(S, tv, t, c) /\ Final(S, tv, t, c)
        BY <1>4, <4>1, OneAround
      <4>3. ReadInterpolated(S, tv, t, "linear") = LinearSlice(tv, t, c, c)
        BY <3>5, <3>6 DEF LinearSlice
      <4>. QED
        BY <4>2, <4>3
    <3>7. CASE t <= At(tv, a)
      <4>1. \/ At(tv, a) = t
            \/ \A i \in S : a <= i /\ At(tv, i) >= t
        <5>1. CASE At(tv, a) # t
          <6>1. hi = 1
            BY <1>2, <3>2, <3>3, <3>7, <5>1
          <6>2. \A i \in S : a <= i
            BY <1>6, <3>2, <3>3, <6>1
          <6>3. \A i \in S : At(tv, i) >= t
            BY <1>3, <1>6, <1>7, <3>3, <3>7, <6>2
          <6>. QED
            BY <6>2, <6>3
        <5>. QED
          BY <5>1
      <4>2. First(S, tv, t, a) /\ Final(S, tv, t, a)
        BY <1>3, <4>1, OneAround
      <4>3. ReadInterpolated(S, tv, t, "linear") = LinearSlice(tv, t, a, a)
        <5>1. ~(t >= At(tv, c))
          BY <3>3, <3>7
        <5>. QED
          BY <3>5, <3>7, <5>1 DEF LinearSlice
      <4>. QED
        BY <4>2, <4>3
    <3>8. CASE ~(t >= At(tv, c)) /\ ~(t <= At(tv, a))
      <4>1. At(tv, a) < t /\ t < At(tv, c)
        BY <3>3, <3>8
      <4>2. First(S, tv, t, a) /\ Final(S, tv, t, c)
        BY <1>3, <1>4, <3>4, <4>1, TwoAround
      <4>. QED
        BY <3>5, <3>8, <4>2
    <3>. QED
      BY <3>6, <3>7, <3>8
  <2>. QED
    BY <2>1, <2>2, <2>3
<1>. QED
  BY <1>2, <1>9, <1>10

-------------------------------------------------------------------------------
(***************************************************************************)
(* A read at a time.                                                       *)
(***************************************************************************)
LEMMA NothingRead ==
  ASSUME NEW tv, NEW t, NEW interp \in InterpModes
  PROVE  ReadInterpolated({}, tv, t, interp) = NoData
<1>1. \A idx, direction : NearestAvailable({}, tv, idx, direction, t) = -1
  BY DEF NearestAvailable
<1>. QED
  BY <1>1 DEF ReadInterpolated

\* "closest" of a file at rest.
LEMMA NearestHolds ==
  ASSUME NumbersApart, ReadInv
  PROVE  ReadsNearest
<1>. SUFFICES ASSUME AtRest, NEW p \in Numbers, NEW t \in Requests, t >= 0
              PROVE  LET tv == TimeVector
                         r == ReadInterpolated(Available(p), tv, t, "closest")
                     IN  IF Written(p) = {} THEN r = NoData
                         ELSE /\ r = Only(r.inf) /\ r.inf \in Written(p)
                              /\ \A i \in Written(p) :
                                   Distance(At(tv, r.inf), t) <= Distance(At(tv, i), t)
  BY DEF ReadsNearest
<1>. DEFINE tv == TimeVector
            S == Written(p)
            r == ReadInterpolated(Available(p), tv, t, "closest")
<1>1. Types
  BY DEF ReadInv, AlignInv, IInv
<1>2. Timeline(tv) /\ Available(p) = S /\ S \in SUBSET (0..Len(tv) - 1)
  BY <1>1, NumbersAreBare, AtRestIs
<1>3. t \in Int
  BY RequestsAssumption
<1>4. r = ReadInterpolated(S, tv, t, "closest")
  BY <1>2
<1>. HIDE DEF tv, S, r
<1>5. CASE S = {}
  <2>1. "closest" \in InterpModes
    BY DEF InterpModes
  <2>2. r = NoData
    BY <1>4, <1>5, <2>1, NothingRead
  <2>. QED
    BY <1>5, <2>2 DEF tv, S, r
<1>6. CASE S # {}
  <2>1. PICK m \in S : /\ ReadInterpolated(S, tv, t, "closest") = Only(m)
                       /\ \A i \in S : Distance(At(tv, m), t) <= Distance(At(tv, i), t)
    BY <1>2, <1>3, <1>6, ClosestRead
  <2>2. r = Only(m) /\ r.inf = m
    BY <1>4, <2>1 DEF Only
  <2>. QED
    BY <1>6, <2>1, <2>2 DEF tv, S, r
<1>. QED
  BY <1>5, <1>6

\* "previous" and "linear" of a file at rest.
LEMMA AroundHolds ==
  ASSUME NumbersApart, ReadInv
  PROVE  ReadsAround
<1>. SUFFICES ASSUME AtRest, NEW p \in Numbers, Written(p) # {}, NEW t \in Requests
              PROVE  LET tv == TimeVector
                         written == Written(p)
                         before == {i \in written : At(tv, i) <= t}
                         after == {i \in written : At(tv, i) >= t}
                         first == IF before = {} THEN Min(after) ELSE Max(before)
                         last == IF after = {} THEN Max(before) ELSE Min(after)
                         linear == IF first = last THEN Only(first)
                                   ELSE [inf |-> first, sup |-> last,
                                         num |-> t - At(tv, first),
                                         den |-> At(tv, last) - At(tv, first)]
                     IN  /\ ReadInterpolated(Available(p), tv, t, "previous") = Only(first)
                         /\ ReadInterpolated(Available(p), tv, t, "linear") = linear
  BY DEF ReadsAround
<1>. DEFINE tv == TimeVector
            S == Written(p)
            before == Earlier(S, tv, t)
            after == Later(S, tv, t)
            first == IF before = {} THEN Min(after) ELSE Max(before)
            last == IF after = {} THEN Max(before) ELSE Min(after)
<1>1. Types
  BY DEF ReadInv, AlignInv, IInv
<1>2. Timeline(tv) /\ Available(p) = S /\ S \in SUBSET (0..Len(tv) - 1) /\ S # {}
  BY <1>1, NumbersAreBare, AtRestIs
<1>3. t \in Int
  BY RequestsAssumption
<1>. HIDE DEF tv, S
<1>4. /\ \A m : First(S, tv, t, m) => m = first
      /\ \A m : Final(S, tv, t, m) => m = last
  BY <1>2, <1>3, AroundIs
<1>. HIDE DEF first, last
<1>5. PICK m : ReadInterpolated(S, tv, t, "previous") = Only(m) /\ First(S, tv, t, m)
  BY <1>2, <1>3, PreviousRead
<1>6. ReadInterpolated(S, tv, t, "previous") = Only(first)
  BY <1>4, <1>5
<1>7. PICK f, l : /\ First(S, tv, t, f) /\ Final(S, tv, t, l)
                  /\ ReadInterpolated(S, tv, t, "linear") = LinearSlice(tv, t, f, l)
  BY <1>2, <1>3, LinearRead
<1>8. ReadInterpolated(S, tv, t, "linear") =
        IF first = last THEN Only(first)
        ELSE [inf |-> first, sup |-> last,
              num |-> t - At(tv, first), den |-> At(tv, last) - At(tv, first)]
  BY <1>4, <1>7 DEF LinearSlice
<1>. QED
  BY <1>2, <1>6, <1>8 DEF tv, S, first, last, Earlier, Later

(***************************************************************************)
(* "closest": of the slices a number has, none is nearer to the time asked *)
(* for than the one that is given, for a time from zero on.  In any file but *)
(* arrays that mix strings with numbers, with any gaps and any times.      *)
(***************************************************************************)
THEOREM ReadsAreNearest ==
  ASSUME NumbersApart
  PROVE  Spec => []ReadsNearest
<1>1. ReadInv => ReadsNearest
  BY NearestHolds
<1>. QED
  BY <1>1, ReadInvariance, PTL

(***************************************************************************)
(* "previous" gives the last slice not behind the time asked for, or the   *)
(* first of all; "linear" the slices next to it on both sides, with the    *)
(* weight their actual times make.  In the files of ReadsAreNearest.       *)
(***************************************************************************)
THEOREM ReadsAreAround ==
  ASSUME NumbersApart
  PROVE  Spec => []ReadsAround
<1>1. ReadInv => ReadsAround
  BY AroundHolds
<1>. QED
  BY <1>1, ReadInvariance, PTL

-------------------------------------------------------------------------------
(***************************************************************************)
(* A window of times.                                                      *)
(***************************************************************************)

\* A signal with slices gives one at every time and in every mode.
LEMMA SliceGiven ==
  ASSUME NEW tv, Timeline(tv), NEW S \in SUBSET (0..Len(tv) - 1), S # {}, NEW t \in Int,
         NEW interp \in InterpModes
  PROVE  ReadInterpolated(S, tv, t, interp) # NoData
<1>. DEFINE N == Len(tv)
            idx == SliceIndex(tv, t, interp)
            hi == SliceSup(tv, t, interp)
            direction == IF interp = "closest" THEN 0 ELSE -1
            up == 1
            inf == NearestAvailable(S, tv, idx, direction, t)
            sup == IF interp = "linear" /\ hi # idx THEN NearestAvailable(S, tv, hi, up, t) ELSE inf
<1>1. N \in Nat /\ N # 0 /\ S \in SUBSET Nat /\ \A n \in S : n <= N
  <2>1. N \in Nat
    BY PrefixIsAll
  <2>2. PICK n \in S : TRUE
    OBVIOUS
  <2>. QED
    BY <2>1, <2>2
<1>2. hi \in 0..N - 1 /\ SliceInf(tv, t, interp) \in 0..N - 1
  BY <1>1, SlicesAround
<1>3. idx \in Int /\ hi \in Int
  BY <1>1, <1>2 DEF SliceIndex, InterpModes
<1>4. direction \in {-1, 0, 1} /\ up \in {-1, 0, 1}
  OBVIOUS
<1>5. ReadInterpolated(S, tv, t, interp) =
        IF inf = -1 THEN NoData
        ELSE IF sup = inf THEN Only(inf)
        ELSE Interpolate(tv, IF sup < inf THEN sup ELSE inf, IF sup < inf THEN inf ELSE sup, t)
  BY DEF ReadInterpolated
<1>. HIDE DEF N, idx, hi, direction, up
<1>6. inf \in S /\ NearestAvailable(S, tv, hi, up, t) \in S
  BY <1>1, <1>3, <1>4, NearestIs
<1>7. sup \in S
  BY <1>6
<1>. HIDE DEF inf, sup
<1>8. inf \in Nat /\ sup \in Nat
  BY <1>1, <1>6, <1>7
<1>9. \E m \in Nat : ReadInterpolated(S, tv, t, interp).inf = m
  BY <1>5, <1>8 DEF Interpolate, Only
<1>10. NoData.inf = -1
  BY DEF NoData, Only
<1>. QED
  BY <1>9, <1>10

\* The multiples of d up to D.
LEMMA Multiples ==
  ASSUME NEW D \in Nat, NEW d \in Nat \ {0}
  PROVE  /\ D \div d \in Nat
         /\ \A i \in Nat : i * d \in Nat /\ (i * d <= D <=> i <= D \div d)
         /\ D % d = 0 => D = (D \div d) * d
<1>. DEFINE q == D \div d
            r == D % d
<1>1. q \in Nat /\ r \in 0..d - 1 /\ D = d * q + r
  OBVIOUS
<1>. HIDE DEF q, r
<1>2. ASSUME NEW i \in Nat
      PROVE  i * d \in Nat /\ (i * d <= D <=> i <= q)
  <2>1. i * d \in Nat /\ q * d \in Nat /\ d * q = q * d
    BY <1>1
  <2>2. CASE i <= q
    <3>1. PICK e \in Nat : q = i + e
      <4>1. q - i \in Nat /\ q = i + (q - i)
        BY <1>1, <2>2
      <4>. QED
        BY <4>1
    <3>2. q * d = i * d + e * d /\ e * d \in Nat
      BY <3>1
    <3>. QED
      BY <1>1, <2>1, <2>2, <3>2
  <2>3. CASE i > q
    <3>1. PICK e \in Nat : i = q + 1 + e
      <4>1. i - q - 1 \in Nat /\ i = q + 1 + (i - q - 1)
        BY <1>1, <2>3
      <4>. QED
        BY <4>1
    <3>2. i * d = q * d + d + e * d /\ e * d \in Nat
      BY <1>1, <3>1
    <3>. QED
      BY <1>1, <2>1, <2>3, <3>2
  <2>. QED
    BY <1>1, <2>2, <2>3
<1>3. r = 0 => D = q * d
  BY <1>1
<1>. QED
  BY <1>1, <1>2, <1>3 DEF q, r

\* The points of a window that is resampled with the step d.
LEMMA ResampledPoints ==
  ASSUME NEW tmin \in Int, NEW tmax \in Int, tmin <= tmax, NEW d \in Nat \ {0}
  PROVE  LET n == (tmax - tmin) \div d + 1
             times == [k \in 1..n |-> tmin + (k - 1) * d]
         IN  /\ n \in Nat
             /\ Cardinality({i \in 0..tmax - tmin : tmin + i * d <= tmax}) = n
             /\ \A k \in 1..n : times[k] \in Int
             /\ Ascending(times)
             /\ Range(times) = {t \in tmin..tmax : (t - tmin) % d = 0}
<1>. DEFINE D == tmax - tmin
            q == D \div d
            n == q + 1
            P == {i \in 0..D : tmin + i * d <= tmax}
            times == [k \in 1..n |-> tmin + (k - 1) * d]
<1>1. D \in Nat /\ tmax = tmin + D
  OBVIOUS
<1>2. q \in Nat /\ \A i \in Nat : i * d \in Nat /\ (i * d <= D <=> i <= q)
  <2>. HIDE DEF D
  <2>. QED
    BY <1>1, Multiples
<1>. HIDE DEF D, q
<1>3. Cardinality(P) = n
  <2>1. \A i \in Nat : i <= i * d
    OBVIOUS
  <2>2. \A i \in Nat : i <= q => i <= D
    <3>. SUFFICES ASSUME NEW i \in Nat, i <= q
                  PROVE  i <= D
      OBVIOUS
    <3>1. i <= i * d /\ i * d \in Nat /\ i * d <= D
      BY <1>2, <2>1
    <3>. QED
      BY <1>1, <3>1
  <2>3. \A i \in Nat : tmin + i * d <= tmax <=> i <= q
    <3>. SUFFICES ASSUME NEW i \in Nat
                  PROVE  tmin + i * d <= tmax <=> i <= q
      OBVIOUS
    <3>1. i * d \in Nat /\ (i * d <= D <=> i <= q)
      BY <1>2
    <3>. QED
      BY <1>1, <3>1
  <2>4. P \subseteq 0..q /\ 0..q \subseteq P
    <3>1. \A i \in P : i \in Nat /\ tmin + i * d <= tmax
      BY <1>1
    <3>2. \A i \in 0..q : i \in Nat /\ i <= q
      BY <1>2
    <3>3. \A i \in Nat : i <= D => i \in 0..D
      BY <1>1
    <3>. QED
      BY <1>2, <2>2, <2>3, <3>1, <3>2, <3>3
  <2>. DEFINE z == 0
  <2>5. z \in Int /\ q \in Int
    BY <1>2
  <2>6. Cardinality(z..q) = IF z > q THEN 0 ELSE q - z + 1
    <3>. HIDE DEF z
    <3>. QED
      BY <2>5, FS_Interval
  <2>7. P = z..q
    BY <2>4
  <2>. HIDE DEF P
  <2>. QED
    BY <1>2, <2>6, <2>7
<1>4. \A k \in 1..n : k - 1 \in Nat /\ k - 1 <= q /\ times[k] = tmin + (k - 1) * d
  BY <1>2
<1>5. \A k \in 1..n : times[k] \in tmin..tmax /\ times[k] \in Int
  <2>. SUFFICES ASSUME NEW k \in 1..n
                PROVE  times[k] \in tmin..tmax /\ times[k] \in Int
    OBVIOUS
  <2>. DEFINE i == k - 1
  <2>1. i \in Nat /\ i <= q /\ times[k] = tmin + i * d
    BY <1>4
  <2>. HIDE DEF i, times
  <2>2. i * d \in Nat /\ i * d <= D
    BY <1>2, <2>1
  <2>. QED
    BY <1>1, <2>1, <2>2
<1>6. Ascending(times)
  <2>1. n \in Nat /\ Len(times) = n
    BY <1>2
  <2>2. ASSUME NEW j \in 1..n, NEW k \in 1..n, j < k
        PROVE  times[j] < times[k]
    <3>. DEFINE i == j - 1
                e == k - j - 1
    <3>1. i \in Nat /\ e \in Nat /\ k - 1 = i + 1 + e
      BY <2>1, <2>2
    <3>2. times[j] = tmin + i * d /\ times[k] = tmin + (i + 1 + e) * d
      BY <1>4, <3>1
    <3>. HIDE DEF i, e, times
    <3>3. (i + 1 + e) * d = i * d + d + e * d /\ i * d \in Nat /\ e * d \in Nat
      BY <3>1
    <3>. QED
      BY <3>2, <3>3
  <2>. HIDE DEF times
  <2>. QED
    BY <2>1, <2>2 DEF Ascending
<1>7. ASSUME NEW k \in 1..n
      PROVE  (times[k] - tmin) % d = 0
  <2>. DEFINE i == k - 1
  <2>1. i \in Nat /\ times[k] = tmin + i * d
    BY <1>4
  <2>. HIDE DEF i, times
  <2>2. i * d \in Nat /\ times[k] - tmin = i * d
    BY <1>2, <2>1
  <2>3. (i * d) % d = 0
    BY <2>1
  <2>. QED
    BY <2>2, <2>3
<1>8. ASSUME NEW t \in tmin..tmax, (t - tmin) % d = 0
      PROVE  \E k \in 1..n : times[k] = t
  <2>. DEFINE E == t - tmin
              i == E \div d
  <2>1. E \in Nat /\ E <= D /\ E % d = 0 /\ t = tmin + E
    BY <1>1, <1>8
  <2>2. i \in Nat /\ E = i * d
    <3>. HIDE DEF E
    <3>. QED
      BY <2>1, Multiples
  <2>. HIDE DEF E, i
  <2>3. i <= q
    BY <1>2, <2>1, <2>2
  <2>4. i + 1 \in 1..n /\ times[i + 1] = tmin + i * d
    <3>1. i + 1 \in 1..n /\ (i + 1) - 1 = i
      BY <1>2, <2>2, <2>3
    <3>. QED
      BY <1>4, <3>1
  <2>. HIDE DEF times
  <2>. QED
    BY <2>1, <2>2, <2>4
<1>9. Range(times) = {t \in tmin..tmax : (t - tmin) % d = 0}
  <2>1. DOMAIN times = 1..n
    OBVIOUS
  <2>. HIDE DEF times
  <2>. QED
    BY <1>5, <1>7, <1>8, <2>1 DEF Range
<1>10. n \in Nat
  BY <1>2
<1>. QED
  BY <1>3, <1>5, <1>6, <1>9, <1>10 DEF D, q

\* A window of w as WindowsAssumption has it.
Asked(w) ==
  /\ w.tmin \in Int /\ w.tmax \in Int /\ w.tmin <= w.tmax
  /\ w.dtime \in Seq(Int) /\ (Len(w.dtime) = 1 => w.dtime[1] > 0)

TimesAre(tv, w, times) ==
  /\ times \in Seq(Int)
  /\ IF Len(w.dtime) > 1 THEN times = w.dtime
     ELSE Ascending(times) /\ Range(times) = WindowTimes(tv, w)
  /\ w.dtime # << >> => ResampleTimebasis(w.tmin, w.tmax, w.dtime) = times

\* Several times: they are read as they are listed.
LEMMA ListedTimes ==
  ASSUME NEW tv, NEW w, Asked(w), Len(w.dtime) > 1
  PROVE  TimesAre(tv, w, RequestedTimes(tv, w))
<1>. DEFINE d == w.dtime
<1>1. d \in Seq(Int) /\ Len(d) > 1 /\ RequestedTimes(tv, w) = d
  BY DEF Asked, RequestedTimes
<1>2. ResampleTimebasis(w.tmin, w.tmax, d) = [k \in 1..Len(d) |-> d[(k - 1) + 1]]
  <2>1. ResampledSize(w.tmin, w.tmax, d) = Len(d)
    BY <1>1 DEF ResampledSize
  <2>2. Len(d) # 1
    <3>1. \A m \in Nat : m > 1 => m # 1
      OBVIOUS
    <3>2. Len(d) \in Nat
      BY <1>1
    <3>. QED
      BY <1>1, <3>1, <3>2
  <2>3. \A k \in 1..Len(d) : ResampledTime(w.tmin, d, k - 1) = d[(k - 1) + 1]
    BY <2>2 DEF ResampledTime
  <2>. QED
    BY <2>1, <2>3 DEF ResampleTimebasis
<1>. HIDE DEF d
<1>3. [k \in 1..Len(d) |-> d[(k - 1) + 1]] = d
  <2>1. \A k \in 1..Len(d) : (k - 1) + 1 = k
    BY <1>1
  <2>2. d = [k \in 1..Len(d) |-> d[k]]
    BY <1>1
  <2>. QED
    BY <2>1, <2>2
<1>. QED
  BY <1>1, <1>2, <1>3 DEF TimesAre, d

\* One step: the points of the window.
LEMMA ResampledTimes ==
  ASSUME NEW tv, NEW w, Asked(w), Len(w.dtime) = 1
  PROVE  TimesAre(tv, w, RequestedTimes(tv, w))
<1>. DEFINE tmin == w.tmin
            tmax == w.tmax
            d == w.dtime[1]
            n == (tmax - tmin) \div d + 1
            times == [k \in 1..n |-> tmin + (k - 1) * d]
            P == {i \in 0..tmax - tmin : tmin + i * d <= tmax}
<1>1. tmin \in Int /\ tmax \in Int /\ tmin <= tmax /\ d \in Nat \ {0}
  BY DEF Asked
<1>2. /\ n \in Nat
      /\ Cardinality(P) = n
      /\ \A k \in 1..n : times[k] \in Int
      /\ Ascending(times)
      /\ Range(times) = {t \in tmin..tmax : (t - tmin) % d = 0}
  <2>. HIDE DEF tmin, tmax, d
  <2>. QED
    BY <1>1, ResampledPoints
<1>3. d > 0 /\ Len(w.dtime) = 1 /\ w.dtime # << >>
  BY <1>1
<1>4. RequestedTimes(tv, w) = times
  <2>1. RequestedTimes(tv, w) = [k \in 1..Cardinality(P) |-> tmin + (k - 1) * d]
    BY <1>3 DEF RequestedTimes
  <2>. HIDE DEF P, tmin, d
  <2>. QED
    BY <1>2, <2>1
<1>5. WindowTimes(tv, w) = {t \in tmin..tmax : (t - tmin) % d = 0}
  BY <1>3 DEF WindowTimes
<1>6. ResampleTimebasis(tmin, tmax, w.dtime) = times
  <2>1. ResampledSize(tmin, tmax, w.dtime) = n
    BY <1>1, <1>3 DEF ResampledSize
  <2>2. \A k : ResampledTime(tmin, w.dtime, k) = tmin + k * d
    BY <1>3 DEF ResampledTime
  <2>. QED
    BY <2>1, <2>2 DEF ResampleTimebasis
<1>7. times \in Seq(Int)
  <2>. HIDE DEF n, tmin, d
  <2>. QED
    BY <1>2
<1>. HIDE DEF times, P, n
<1>. QED
  BY <1>2, <1>3, <1>4, <1>5, <1>6, <1>7 DEF TimesAre

\* No resampling: the times of the file in the window, with its indices.
LEMMA FileTimes ==
  ASSUME NEW tv, Timeline(tv), NEW w, Asked(w), w.dtime = << >>, Held = 0
  PROVE  LET times == RequestedTimes(tv, w)
             win == Window(tv, w.tmin, w.tmax, Held)
         IN  /\ TimesAre(tv, w, times)
             /\ win.size = Len(times)
             /\ \A k \in 1..Len(times) :
                  /\ win.min + (k - 1) \in 0..Len(tv) - 1
                  /\ At(tv, win.min + (k - 1)) = times[k]
<1>. DEFINE N == Len(tv)
            tmin == w.tmin
            tmax == w.tmax
            low == LowerBound(tv, tmin)
            up == UpperBound(tv, tmax)
            win == Window(tv, tmin, tmax, Held)
            times == RequestedTimes(tv, w)
            inside == {t \in Range(tv) : tmin <= t /\ t <= tmax}
<1>1. tmin \in Int /\ tmax \in Int /\ tmin <= tmax
  BY DEF Asked
<1>2. /\ low \in 0..N /\ \A k \in 1..N : tv[k] < tmin <=> k <= low
      /\ up \in 0..N /\ \A k \in 1..N : tv[k] <= tmax <=> k <= up
  BY <1>1, BoundsCount
<1>3. /\ N \in Nat /\ IncreasingPrefix(tv) = N /\ tv \in Seq(Int)
      /\ \A k \in 1..N : tv[k] \in Int
      /\ \A j, k \in 1..N : j < k => tv[j] < tv[k]
  BY PrefixIsAll DEF Timeline, Ascending
<1>4. inside = {t \in Range(tv) : tmin <= t /\ t <= tmax} /\ WindowTimes(tv, w) = inside
  BY DEF WindowTimes
<1>5. \A k \in 1..N : tmin <= tv[k] /\ tv[k] <= tmax <=> low < k /\ k <= up
  <2>. SUFFICES ASSUME NEW k \in 1..N
                PROVE  tmin <= tv[k] /\ tv[k] <= tmax <=> low < k /\ k <= up
    OBVIOUS
  <2>1. (tv[k] < tmin <=> k <= low) /\ (tv[k] <= tmax <=> k <= up) /\ tv[k] \in Int
    BY <1>2, <1>3
  <2>. HIDE DEF low, up
  <2>. QED
    BY <1>1, <1>2, <1>3, <2>1
<1>6. win = IF low = N THEN [min |-> -1, max |-> -1, size |-> 0]
            ELSE IF up - 1 = -1 THEN [min |-> low, max |-> -1, size |-> 0]
            ELSE [min |-> low, max |-> up - 1, size |-> (up - 1) - low + 1]
  BY <1>3 DEF Window
<1>7. times = IF win.min = -1 \/ win.max = -1 THEN << >>
              ELSE SubSeq(tv, win.min + 1, win.max + 1)
  <2>1. Len(w.dtime) = 0
    OBVIOUS
  <2>. QED
    BY <2>1 DEF RequestedTimes
<1>8. \A k \in 1..N : tv[k] \in inside <=> low < k /\ k <= up
  <2>1. \A k \in 1..N : tv[k] \in Range(tv)
    BY <1>3 DEF Range
  <2>. HIDE DEF inside, low, up, tmin, tmax
  <2>. QED
    BY <1>4, <1>5, <2>1
<1>9. \A t \in inside : \E k \in 1..N : tv[k] = t
  BY <1>3, <1>4 DEF Range
<1>. HIDE DEF N, low, up, win, times, inside, tmin, tmax
<1>10. low <= up
  <2>. SUFFICES ASSUME low \in 1..N, ~(low <= up)
                PROVE  FALSE
    BY <1>2, <1>3
  <2>1. tv[low] < tmin /\ ~(tv[low] <= tmax) /\ tv[low] \in Int
    BY <1>2, <1>3
  <2>. QED
    BY <1>1, <2>1
<1>11. CASE low = N \/ up = 0
  <2>1. times = << >> /\ win.size = 0 /\ Len(times) = 0
    BY <1>2, <1>3, <1>6, <1>7, <1>11
  <2>2. inside = {}
    BY <1>2, <1>3, <1>8, <1>9, <1>11
  <2>3. Ascending(times) /\ Range(times) = {} /\ times \in Seq(Int)
    BY <2>1 DEF Ascending, Range
  <2>4. Len(w.dtime) = 0
    OBVIOUS
  <2>5. TimesAre(tv, w, times)
    BY <1>4, <2>2, <2>3, <2>4 DEF TimesAre
  <2>6. \A k \in 1..Len(times) : FALSE
    BY <2>1
  <2>. QED
    BY <2>1, <2>5, <2>6 DEF times, win, tmin, tmax
<1>12. CASE low # N /\ up # 0
  <2>1. win.min = low /\ win.max = up - 1 /\ win.size = up - low /\ up - low \in Nat
    BY <1>2, <1>3, <1>6, <1>10, <1>12
  <2>2. times = SubSeq(tv, low + 1, up)
    BY <1>2, <1>3, <1>7, <1>12, <2>1
  <2>. DEFINE first == low + 1
  <2>3. first \in Int /\ up \in Int /\ \A i \in first..up : i \in 1..N /\ tv[i] \in Int
    BY <1>2, <1>3
  <2>4. /\ SubSeq(tv, first, up) \in Seq(Int)
        /\ Len(SubSeq(tv, first, up)) = IF first <= up THEN up - first + 1 ELSE 0
        /\ \A i \in 1..up - first + 1 : SubSeq(tv, first, up)[i] = tv[first + i - 1]
    <3>. HIDE DEF first
    <3>. QED
      BY <2>3, SubSeqProperties
  <2>5. /\ times \in Seq(Int) /\ Len(times) = up - low
        /\ \A k \in 1..Len(times) : low + k \in 1..N /\ times[k] = tv[low + k]
    <3>1. Len(times) = up - low /\ times \in Seq(Int)
      BY <1>2, <1>3, <1>10, <2>2, <2>4
    <3>2. \A k \in 1..up - low : first + k - 1 = low + k /\ low + k \in 1..N /\ k \in 1..up - first + 1
      BY <1>2, <1>3
    <3>. HIDE DEF first
    <3>3. ASSUME NEW k \in 1..Len(times)
          PROVE  low + k \in 1..N /\ times[k] = tv[low + k]
      <4>1. k \in 1..up - low
        BY <3>1
      <4>2. first + k - 1 = low + k /\ low + k \in 1..N /\ k \in 1..up - first + 1
        BY <3>2, <4>1
      <4>3. SubSeq(tv, first, up)[k] = tv[first + k - 1]
        BY <2>4, <4>2
      <4>4. times = SubSeq(tv, first, up)
        BY <2>2 DEF first
      <4>. QED
        BY <4>2, <4>3, <4>4
    <3>. QED
      BY <3>1, <3>3
  <2>6. Ascending(times)
    <3>. SUFFICES ASSUME NEW j \in 1..Len(times), NEW k \in 1..Len(times), j < k
                  PROVE  times[j] < times[k]
      BY DEF Ascending
    <3>1. low + j \in 1..N /\ low + k \in 1..N /\ low + j < low + k
      BY <1>2, <1>3, <2>5
    <3>. QED
      BY <1>3, <2>5, <3>1
  <2>7. Range(times) = inside
    <3>1. DOMAIN times = 1..Len(times)
      BY <2>5
    <3>2. \A k \in 1..Len(times) : times[k] \in inside
      <4>1. \A k \in 1..Len(times) : low < low + k /\ low + k <= up
        BY <1>2, <1>3, <2>5
      <4>. QED
        BY <1>8, <2>5, <4>1
    <3>3. ASSUME NEW t \in inside
          PROVE  \E k \in 1..Len(times) : times[k] = t
      <4>1. PICK i \in 1..N : tv[i] = t /\ low < i /\ i <= up
        BY <1>8, <1>9
      <4>2. i - low \in 1..Len(times) /\ low + (i - low) = i
        BY <1>2, <1>3, <2>5, <4>1
      <4>. QED
        BY <2>5, <4>1, <4>2
    <3>. QED
      BY <3>1, <3>2, <3>3 DEF Range
  <2>8. TimesAre(tv, w, times)
    <3>1. Len(w.dtime) = 0
      OBVIOUS
    <3>. QED
      BY <1>4, <2>5, <2>6, <2>7, <3>1 DEF TimesAre
  <2>9. ASSUME NEW k \in 1..Len(times)
        PROVE  win.min + (k - 1) \in 0..N - 1 /\ At(tv, win.min + (k - 1)) = times[k]
    <3>. DEFINE i == low + (k - 1)
    <3>1. i \in 0..N - 1 /\ i + 1 = low + k
      BY <1>2, <1>3, <2>5
    <3>. HIDE DEF i
    <3>2. At(tv, i) = times[k]
      BY <2>5, <3>1 DEF At
    <3>. QED
      BY <2>1, <3>1, <3>2 DEF i
  <2>. HIDE DEF first
  <2>10. win.size = Len(times)
    BY <2>1, <2>5
  <2>. QED
    BY <2>8, <2>9, <2>10 DEF times, win, tmin, tmax, N
<1>. QED
  BY <1>11, <1>12

WindowAgrees(S, tv, w) ==
  LET times == RequestedTimes(tv, w)
      Slice(k, interp) == ReadInterpolated(S, tv, times[k], interp)
  IN  /\ IF Len(w.dtime) > 1 THEN times = w.dtime
         ELSE Ascending(times) /\ Range(times) = WindowTimes(tv, w)
      /\ w.dtime # << >> => ResampleTimebasis(w.tmin, w.tmax, w.dtime) = times
      /\ inAoS => ArraySize(tv, w) = Len(times)
      /\ \A interp \in InterpModes :
           IF inAoS
           THEN \A k \in 1..Len(times) :
                  ReadElement(S, tv, w, k - 1, interp) =
                    Slice(k, IF w.dtime = << >> THEN "closest" ELSE interp)
           ELSE ReadRange(S, tv, w, interp) =
                  [k \in 1..Len(times) |-> Slice(k, interp)]

\* Any window, on any ascending timebase and any slices of it.
LEMMA OneWindow ==
  ASSUME NEW tv, Timeline(tv), NEW S \in SUBSET (0..Len(tv) - 1), S # {},
         NEW w, Asked(w), Held = 0
  PROVE  WindowAgrees(S, tv, w)
<1>. DEFINE times == RequestedTimes(tv, w)
            win == Window(tv, w.tmin, w.tmax, Held)
<1>1. w.dtime \in Seq(Int) /\ Len(w.dtime) \in Nat
  BY DEF Asked
<1>2. /\ TimesAre(tv, w, times)
      /\ w.dtime = << >> =>
           /\ win.size = Len(times)
           /\ \A k \in 1..Len(times) : /\ win.min + (k - 1) \in 0..Len(tv) - 1
                                       /\ At(tv, win.min + (k - 1)) = times[k]
  <2>1. CASE w.dtime = << >>
    BY <2>1, FileTimes
  <2>2. CASE Len(w.dtime) = 1
    <3>1. w.dtime # << >> /\ TimesAre(tv, w, times)
      BY <2>2, ResampledTimes
    <3>. QED
      BY <3>1
  <2>3. CASE Len(w.dtime) > 1
    <3>1. w.dtime # << >> /\ TimesAre(tv, w, times)
      BY <2>3, ListedTimes
    <3>. QED
      BY <3>1
  <2>4. w.dtime = << >> \/ Len(w.dtime) = 1 \/ Len(w.dtime) > 1
    <3>1. Len(w.dtime) = 0 => w.dtime = << >>
      BY <1>1, EmptySeq
    <3>2. \A m \in Nat : m = 0 \/ m = 1 \/ m > 1
      OBVIOUS
    <3>. QED
      BY <1>1, <3>1, <3>2
  <2>. QED
    BY <2>1, <2>2, <2>3, <2>4
<1>. HIDE DEF times, win
<1>3. times \in Seq(Int) /\ Len(times) \in Nat /\ \A k \in 1..Len(times) : times[k] \in Int
  BY <1>2 DEF TimesAre
<1>4. ArraySize(tv, w) = Len(times)
  <2>1. CASE w.dtime = << >>
    BY <1>2, <2>1 DEF ArraySize, win
  <2>2. CASE w.dtime # << >>
    BY <1>2, <2>2 DEF ArraySize, TimesAre
  <2>. QED
    BY <2>1, <2>2
<1>5. ASSUME NEW interp \in InterpModes, NEW k \in 1..Len(times)
      PROVE  ReadElement(S, tv, w, k - 1, interp) =
               ReadInterpolated(S, tv, times[k], IF w.dtime = << >> THEN "closest" ELSE interp)
  <2>1. CASE w.dtime = << >>
    <3>. DEFINE i == win.min + (k - 1)
    <3>1. i \in 0..Len(tv) - 1 /\ At(tv, i) = times[k] /\ Len(tv) \in Nat
      BY <1>2, <2>1, PrefixIsAll
    <3>2. ReadElement(S, tv, w, k - 1, interp) =
            IF i < 0 \/ i >= Len(tv) THEN NoData
            ELSE ReadInterpolated(S, tv, At(tv, i), "closest")
      BY <2>1 DEF ReadElement, win
    <3>. HIDE DEF i
    <3>3. ~(i < 0 \/ i >= Len(tv))
      BY <3>1
    <3>. QED
      BY <2>1, <3>1, <3>2, <3>3
  <2>2. CASE w.dtime # << >>
    <3>1. ReadElement(S, tv, w, k - 1, interp) =
            ReadInterpolated(S, tv, ResampledTime(w.tmin, w.dtime, k - 1), interp)
      BY <2>2 DEF ReadElement
    <3>2. ResampledTime(w.tmin, w.dtime, k - 1) = times[k]
      <4>. DEFINE n == ResampledSize(w.tmin, w.tmax, w.dtime)
                  T(j) == ResampledTime(w.tmin, w.dtime, j - 1)
      <4>1. times = [j \in 1..n |-> T(j)]
        BY <1>2, <2>2 DEF TimesAre, ResampleTimebasis
      <4>2. DOMAIN times = 1..Len(times)
        BY <1>3
      <4>. HIDE DEF n, T
      <4>3. k \in 1..n
        BY <4>1, <4>2
      <4>4. times[k] = T(k)
        BY <4>1, <4>3
      <4>. QED
        BY <4>4 DEF T
    <3>. QED
      BY <2>2, <3>1, <3>2
  <2>. QED
    BY <2>1, <2>2
<1>6. ASSUME NEW interp \in InterpModes
      PROVE  ReadRange(S, tv, w, interp) =
               [k \in 1..Len(times) |-> ReadInterpolated(S, tv, times[k], interp)]
  <2>. DEFINE slices == [k \in 1..Len(times) |-> ReadInterpolated(S, tv, times[k], interp)]
  <2>1. \A k \in 1..Len(times) : slices[k] # NoData
    <3>. SUFFICES ASSUME NEW k \in 1..Len(times)
                  PROVE  ReadInterpolated(S, tv, times[k], interp) # NoData
      OBVIOUS
    <3>1. times[k] \in Int
      BY <1>3
    <3>. QED
      BY <3>1, SliceGiven
  <2>2. ReadRange(S, tv, w, interp) =
          IF \E k \in 1..Len(times) : slices[k] = NoData THEN << >> ELSE slices
    BY DEF ReadRange, times
  <2>. HIDE DEF slices
  <2>3. ReadRange(S, tv, w, interp) = slices
    BY <2>1, <2>2
  <2>. QED
    BY <2>3 DEF slices
<1>. QED
  BY <1>2, <1>4, <1>5, <1>6 DEF WindowAgrees, TimesAre, times

\* The windows of a file at rest.
LEMMA WindowsHold ==
  ASSUME NumbersApart, Held = 0, ReadInv
  PROVE  WindowsAgree
<1>. SUFFICES ASSUME AtRest, NEW p \in Numbers, Written(p) # {}, NEW w \in Windows
              PROVE  WindowAgrees(Available(p), TimeVector, w)
  BY DEF WindowsAgree, WindowAgrees
<1>. DEFINE tv == TimeVector
            S == Written(p)
<1>1. Types
  BY DEF ReadInv, AlignInv, IInv
<1>2. Timeline(tv) /\ Available(p) = S /\ S \in SUBSET (0..Len(tv) - 1)
  BY <1>1, NumbersAreBare, AtRestIs
<1>3. Asked(w)
  BY WindowsAssumption DEF Asked
<1>. HIDE DEF tv
<1>4. WindowAgrees(S, tv, w)
  BY <1>2, <1>3, OneWindow
<1>. QED
  BY <1>2, <1>4 DEF tv

(***************************************************************************)
(* A window gives one slice per time in it, in order, the one a read at that *)
(* time gives, and an array as many elements as there are times.  In the   *)
(* files of ReadsAreNearest, for a caller whose size starts at zero.       *)
(***************************************************************************)
THEOREM WindowsAreAgreed ==
  ASSUME NumbersApart, Held = 0
  PROVE  Spec => []WindowsAgree
<1>1. ReadInv => WindowsAgree
  BY WindowsHold
<1>. QED
  BY <1>1, ReadInvariance, PTL
-------------------------------------------------------------------------------
(***************************************************************************)
(* The slices a reader finds are those the rows of numbers were laid down  *)
(* for; this says it without the lookup.                                   *)
(***************************************************************************)
LaidBy(rs, i) ==
  {[signal |-> rs[i].path, step |-> t, row |-> i] :
     t \in rs[i].time .. rs[i].time + rs[i].steps - 1}

Laid(rs) == UNION {LaidBy(rs, i) : i \in {j \in 1..Len(rs) : rs[j].path \notin Strings}}

LEMMA SlicesAreLaid ==
  ASSUME IInv
  PROVE  Slices = Laid(rows)
<1>1. /\ rows \in Seq(Row) /\ Len(rows) \in Nat
      /\ \A i \in 1..Len(rows) : /\ rows[i].path \in Signals
                                /\ rows[i].time \in Nat /\ rows[i].steps \in Nat
                                /\ EndOf(rows[i]) \in Nat
  <2>1. rows \in Seq(Row)
    BY DEF IInv, Types
  <2>2. \A r \in Row : r.path \in Signals /\ r.time \in Nat /\ r.steps \in Nat
    BY DEF Row
  <2>. QED
    BY <2>1, <2>2, EndIsNat
<1>2. \A i \in 1..Len(rows) :
        rows[i].path \notin Strings => EndOf(rows[i]) = rows[i].time + rows[i].steps
  <2>1. \A i \in 1..Len(rows) : i \in 1..Len(All) /\ All[i] = rows[i]
    BY <1>1 DEF IInv, Types, All
  <2>. QED
    BY <2>1 DEF IInv, Weighed, EndOf
<1>3. ASSUME NEW x \in Laid(rows)
      PROVE  x \in Slices
  <2>. PICK i \in 1..Len(rows) : rows[i].path \notin Strings /\ x \in LaidBy(rows, i)
    BY <1>3 DEF Laid
  <2>1. PICK t \in rows[i].time .. rows[i].time + rows[i].steps - 1 :
          x = [signal |-> rows[i].path, step |-> t, row |-> i]
    BY DEF LaidBy
  <2>2. Lookup(rows[i].path, t) = i
    BY <2>1, OwnRow
  <2>3. t \in rows[i].time .. EndOf(rows[i]) - 1
    <3>1. /\ EndOf(rows[i]) = rows[i].time + rows[i].steps
          /\ rows[i].time \in Nat /\ rows[i].steps \in Nat
      BY <1>1, <1>2
    <3>2. \A a, b, c \in Nat : c = a + b => a .. a + b - 1 = a .. c - 1
      OBVIOUS
    <3>. QED
      BY <1>1, <3>1, <3>2
  <2>4. t \in Steps
    BY <2>3 DEF Steps
  <2>5. <<rows[i].path, t>> \in {y \in (Signals \ Strings) \X Steps : Lookup(y[1], y[2]) # 0}
    BY <1>1, <2>1, <2>2, <2>4
  <2>. QED
    BY <2>1, <2>2, <2>5 DEF Slices
<1>4. ASSUME NEW x \in Slices
      PROVE  x \in Laid(rows)
  <2>1. PICK p \in Signals \ Strings, t \in Steps :
          Lookup(p, t) # 0 /\ x = [signal |-> p, step |-> t, row |-> Lookup(p, t)]
    BY <1>4 DEF Slices
  <2>2. t \in Int
    BY <1>1, <2>1 DEF Steps
  <2>3. PICK i \in 1..Len(rows) : rows[i].path = p /\ IsTimeInLeaf(rows[i], t)
    BY <1>1, <2>1, <2>2, LookupCovers
  <2>4. t \in rows[i].time .. rows[i].time + rows[i].steps - 1
    BY <1>1, <1>2, <2>1, <2>2, <2>3 DEF IsTimeInLeaf, EndOf
  <2>5. Lookup(p, t) = i
    BY <2>1, <2>3, <2>4, OwnRow
  <2>. QED
    BY <2>1, <2>3, <2>4, <2>5 DEF Laid, LaidBy
<1>. QED
  BY <1>3, <1>4

\* Between operations, two rows of a number lie one behind the other.
RowsApart ==
  \A k, l \in 1..Len(rows) :
    k < l /\ rows[k].path = rows[l].path /\ rows[k].path \notin Strings =>
      rows[k].time + rows[k].steps <= rows[l].time

LEMMA NumbersApartInRows ==
  ASSUME IInv
  PROVE  buf = << >> => RowsApart
BY RowsAlone DEF IInv, Types, SpansDisjoint, Counted, RowsApart, All

\* The end of an operation keeps what a reader finds, and adds behind it.
LEMMA EndOpIsEnd ==
  ASSUME IInv, IInv', EndOp, UNCHANGED file
  PROVE  Axis!EndOp
<1>1. /\ rows' = rows \o buf /\ buf' = << >> /\ op # "none" /\ op' = "none"
      /\ rows \in Seq(Row) /\ buf \in Seq(Row) /\ rows' \in Seq(Row)
  BY DEF EndOp, IInv, Types
<1>2. /\ Len(rows) \in Nat /\ Len(rows') \in Nat /\ Len(rows) <= Len(rows')
      /\ \A i \in 1..Len(rows) : i \in 1..Len(rows') /\ rows'[i] = rows[i]
  BY <1>1
<1>3. \A i \in 1..Len(rows) : LaidBy(rows', i) = LaidBy(rows, i)
  BY <1>2 DEF LaidBy
<1>4. Slices = Laid(rows) /\ Slices' = Laid(rows')
  <2>1. (Slices = Laid(rows))'
    BY SlicesAreLaid, PTL
  <2>. QED
    BY <2>1, SlicesAreLaid DEF Laid, LaidBy
<1>5. Laid(rows) \subseteq Laid(rows')
  BY <1>2, <1>3 DEF Laid
<1>6. ASSUME NEW new \in Laid(rows') \ Laid(rows), NEW old \in Laid(rows),
             new.signal = old.signal
      PROVE  old.step < new.step
  <2>. PICK j \in 1..Len(rows') : rows'[j].path \notin Strings /\ new \in LaidBy(rows', j)
    BY <1>6 DEF Laid
  <2>1. PICK u \in rows'[j].time .. rows'[j].time + rows'[j].steps - 1 :
          new = [signal |-> rows'[j].path, step |-> u, row |-> j]
    BY DEF LaidBy
  <2>. PICK i \in 1..Len(rows) : rows[i].path \notin Strings /\ old \in LaidBy(rows, i)
    BY <1>6 DEF Laid
  <2>2. PICK t \in rows[i].time .. rows[i].time + rows[i].steps - 1 :
          old = [signal |-> rows[i].path, step |-> t, row |-> i]
    BY DEF LaidBy
  <2>3. j \notin 1..Len(rows)
    BY <1>2, <1>3, <1>6, <2>1 DEF Laid
  <2>4. i < j /\ rows'[i].path = rows'[j].path
    BY <1>2, <1>6, <2>1, <2>2, <2>3
  <2>5. rows'[i].time + rows'[i].steps <= rows'[j].time
    <3>1. (buf = << >> => RowsApart)'
      BY NumbersApartInRows, PTL
    <3>. QED
      BY <1>1, <1>2, <2>4, <3>1 DEF RowsApart
  <2>6. /\ rows[i].time \in Nat /\ rows[i].steps \in Nat /\ rows'[j].time \in Nat
        /\ rows'[i] = rows[i] /\ rows'[j].steps \in Nat
    <3>1. rows[i] \in Row /\ rows'[j] \in Row
      BY <1>1, EndIsNat
    <3>. QED
      BY <1>2, <3>1 DEF Row
  <2>7. old.step = t /\ new.step = u
    BY <2>1, <2>2
  <2>8. t < rows[i].time + rows[i].steps /\ rows'[j].time <= u
    BY <2>6
  <2>. QED
    BY <2>5, <2>6, <2>7, <2>8
<1>. QED
  BY <1>1, <1>4, <1>5, <1>6 DEF Axis!EndOp

(***************************************************************************)
(* To its readers a signal of numbers is a map from steps to slices: an    *)
(* operation adds at the end, what a step holds stays and is found, and    *)
(* only a put starts over, through gaps, sessions and re-opened files.     *)
(***************************************************************************)
THEOREM SignalsAreMaps == Spec => AxisSpec
<1>1. Init => Axis!Init
  <2>. SUFFICES ASSUME Init PROVE Slices = {}
    BY DEF Init, Axis!Init
  <2>1. rows = << >> /\ Len(rows) = 0
    BY DEF Init
  <2>2. Steps = {}
    BY <2>1 DEF Steps
  <2>. QED
    BY <2>2 DEF Slices
<1>2. ASSUME IInv, IInv', [Next]_vars
      PROVE  [Axis!Next]_<<Slices, op>>
  <2>1. ASSUME rows' = rows PROVE Slices' = Slices
    <3>1. (Slices = Laid(rows))'
      BY <1>2, SlicesAreLaid, PTL
    <3>. QED
      BY <1>2, <2>1, <3>1, SlicesAreLaid DEF Laid, LaidBy
  <2>2. CASE UNCHANGED vars
    BY <2>1, <2>2 DEF vars
  <2>3. ASSUME NEW n, BeginPut(n)
        PROVE  Axis!BeginPut
    <3>1. rows' = << >> /\ op = "none" /\ op' = "put" /\ Len(rows') = 0
      BY <2>3 DEF BeginPut
    <3>2. (Slices = Laid(rows))'
      BY <1>2, SlicesAreLaid, PTL
    <3>3. Slices' = {}
      BY <3>1, <3>2 DEF Laid
    <3>. QED
      BY <3>1, <3>3 DEF Axis!BeginPut
  <2>4. ASSUME NEW n, BeginSlice(n)
        PROVE  Axis!BeginSlice
    BY <2>1, <2>4 DEF BeginSlice, Axis!BeginSlice
  <2>5. ASSUME EndOp, UNCHANGED file
        PROVE  Axis!EndOp
    BY <1>2, <2>5, EndOpIsEnd
  <2>6. ASSUME \/ \E s : WriteNumbers(s) \/ \E f : WriteString(s, f)
               \/ NextElement \/ CloseSession
        PROVE  UNCHANGED <<Slices, op>>
    BY <2>1, <2>6 DEF WriteNumbers, WriteString, NextElement, CloseSession
  <2>. QED
    BY <1>2, <2>2, <2>3, <2>4, <2>5, <2>6 DEF Next, Axis!Next
<1>. QED
  BY <1>1, <1>2, Invariance, PTL DEF Spec, AxisSpec, Axis!Spec

===============================================================================
