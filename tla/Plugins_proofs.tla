---------------------------- MODULE Plugins_proofs ----------------------------
(***************************************************************************)
(* What Plugins guarantees for any plugins, nodes, bindings and numbers of *)
(* operations.                                                             *)
(*                                                                         *)
(* The registry is changed in loops over plugins, entries and keys.  A     *)
(* loop is a recursive function; a lemma ...Ends takes a set J[n] of       *)
(* registries for every turn n, and from turns that lead from J[n - 1] to  *)
(* J[n] concludes where the loop ends.  Three invariants use them.         *)
(*                                                                         *)
(*   Sound    What is bound is loaded.  No single operation on the         *)
(*            registry leaves this set, so no loop does.                   *)
(*   Users    The registry is what the user made it (AsUserLeftIt), seen   *)
(*            without readback plugins and the provenance nodes; and of    *)
(*            the readback plugins exactly those in readbackPlugins are    *)
(*            loaded, and bound somewhere (Borrows).  Unbinding takes them *)
(*            from that list one by one, until nothing is borrowed.        *)
(*   Ordered  What a put() stored of a node are the names of its readback  *)
(*            plugins, the highest index first (Descends), each once.      *)
(*            Before a get() binds, no readback plugin is bound; after n   *)
(*            turns the last n of an entry are, in order (Follows).  All   *)
(*            that comes later is bound behind them (KeptOrder).           *)
(***************************************************************************)
EXTENDS Plugins, SequenceTheorems, WellFoundedInduction, TLAPS

-------------------------------------------------------------------------------
\* The order of the natural numbers, as a relation.
Less == {nn \in Nat \X Nat : nn[1] < nn[2]}

\* A set of natural numbers that has an element has a least one.
LEMMA LeastNatural ==
  ASSUME NEW S \in SUBSET Nat, S # {}
  PROVE  \E m \in S : \A n \in S : m <= n
<1>1. IsWellFoundedOn(Less, Nat)
  BY NatLessThanWellFounded, Zenon DEF OpToRel, Less
<1>2. PICK x \in S : \A y \in S : ~(<<y, x>> \in Less)
  BY <1>1, WFMin
<1>3. \A y \in S : ~(y < x)
  BY <1>2 DEF Less
<1>. QED
  BY <1>3

\* What holds before the first turn of a loop, and after a turn if before it,
\* holds after every turn.
LEMMA TurnsFromZero ==
  ASSUME NEW T, 0 \in T, \A n \in Nat : n \in T => n + 1 \in T
  PROVE  \A n \in Nat : n \in T
<1>. SUFFICES ASSUME Nat \ T # {}
              PROVE  FALSE
  OBVIOUS
<1>1. PICK m \in Nat \ T : \A k \in Nat \ T : m <= k
  BY LeastNatural
<1>2. m # 0 /\ m - 1 \in Nat
  BY <1>1
<1>3. m - 1 \in T
  BY <1>1, <1>2
<1>. QED
  BY <1>1, <1>2, <1>3

Turns(S, first, step, N) ==
  \E g \in [0..N -> S] : g[0] = first /\ \A n \in 1..N : g[n] = step[<<n, g[n - 1]>>]

\* A loop of N turns that carries a value from S has a sequence of results.
LEMMA LoopTurns ==
  ASSUME NEW S, NEW first \in S, NEW step \in [Nat \X S -> S], NEW N \in Nat
  PROVE  Turns(S, first, step, N)
<1>. DEFINE Run(g, M) == g[0] = first /\ \A n \in 1..M : g[n] = step[<<n, g[n - 1]>>]
            T == {M \in Nat : \E g \in [0..M -> S] : Run(g, M)}
<1>1. 0 \in T
  <2>. DEFINE g == [n \in 0..0 |-> first]
  <2>1. g \in [0..0 -> S] /\ Run(g, 0)
    OBVIOUS
  <2>. QED
    BY <2>1
<1>2. ASSUME NEW M \in Nat, M \in T
      PROVE  M + 1 \in T
  <2>1. PICK g \in [0..M -> S] : Run(g, M)
    BY <1>2
  <2>2. g[M] \in S /\ step[<<M + 1, g[M]>>] \in S
    BY <2>1
  <2>. DEFINE h == [n \in 0..(M + 1) |-> IF n <= M THEN g[n] ELSE step[<<M + 1, g[M]>>]]
  <2>3. h \in [0..(M + 1) -> S]
    BY <2>2
  <2>4. ASSUME NEW n \in 1..(M + 1)
        PROVE  h[n] = step[<<n, h[n - 1]>>]
    <3>1. CASE n <= M
      <4>1. n \in 1..M /\ n - 1 \in 0..M /\ n - 1 <= M /\ n \in 0..(M + 1) /\ n - 1 \in 0..(M + 1)
        BY <3>1
      <4>2. h[n] = g[n] /\ h[n - 1] = g[n - 1]
        BY <3>1, <4>1
      <4>. QED
        BY <2>1, <4>1, <4>2
    <3>2. CASE n = M + 1
      <4>1. h[n] = step[<<M + 1, g[M]>>] /\ h[n - 1] = g[M]
        BY <3>2
      <4>. QED
        BY <3>2, <4>1
    <3>. QED
      BY <3>1, <3>2
  <2>5. h[0] = first
    BY <2>1
  <2>6. Run(h, M + 1)
    BY <2>4, <2>5
  <2>. HIDE DEF h, Run
  <2>. QED
    BY <2>3, <2>6
<1>. HIDE DEF T
<1>3. \A M \in Nat : M \in T
  BY <1>1, <1>2, TurnsFromZero
<1>. QED
  BY <1>3 DEF T, Turns

-------------------------------------------------------------------------------
(***************************************************************************)
(* Among, by its recursion.                                                *)
(***************************************************************************)
In(s) == {s[i] : i \in 1..Len(s)}

KeptBy(s, S, f) ==
  f = [n \in 0..Len(s) |->
         IF n = 0 THEN << >>
         ELSE IF s[n] \in S THEN Append(f[n - 1], s[n]) ELSE f[n - 1]]

\* The loop over a sequence has its results.
LEMMA KeepingRuns ==
  ASSUME NEW A, NEW s \in Seq(A), NEW S
  PROVE  \E f \in [0..Len(s) -> Seq(A)] : KeptBy(s, S, f)
<1>. DEFINE N == Len(s)
            B == Seq(A)
            step == [nb \in Nat \X B |->
                       IF nb[1] \in 1..N /\ s[nb[1]] \in S THEN Append(nb[2], s[nb[1]]) ELSE nb[2]]
<1>1. N \in Nat /\ << >> \in B
  OBVIOUS
<1>2. step \in [Nat \X B -> B]
  <2>1. ASSUME NEW n \in Nat, NEW b \in B
        PROVE  (IF n \in 1..N /\ s[n] \in S THEN Append(b, s[n]) ELSE b) \in B
    OBVIOUS
  <2>. QED
    BY <2>1
<1>3. PICK g \in [0..N -> B] :
         g[0] = << >> /\ \A n \in 1..N : g[n] = step[<<n, g[n - 1]>>]
  <2>. HIDE DEF step, B, N
  <2>1. Turns(B, << >>, step, N)
    BY <1>1, <1>2, LoopTurns
  <2>. QED
    BY <2>1 DEF Turns
<1>. DEFINE Val(n) == IF n = 0 THEN << >>
                      ELSE IF s[n] \in S THEN Append(g[n - 1], s[n]) ELSE g[n - 1]
<1>4. ASSUME NEW n \in 0..N
      PROVE  g[n] = Val(n)
  <2>1. CASE n = 0
    BY <1>3, <2>1
  <2>2. CASE n # 0
    <3>0. n \in 1..N /\ n \in Nat /\ n - 1 \in 0..N
      BY <1>1, <2>2
    <3>1. g[n - 1] \in B
      BY <1>3, <3>0
    <3>2. step[<<n, g[n - 1]>>] = IF s[n] \in S THEN Append(g[n - 1], s[n]) ELSE g[n - 1]
      BY <3>0, <3>1
    <3>. QED
      BY <1>3, <2>2, <3>0, <3>2
  <2>. QED
    BY <2>1, <2>2
<1>5. g = [n \in 0..N |-> Val(n)]
  <2>1. g = [n \in 0..N |-> g[n]]
    BY <1>3
  <2>. HIDE DEF Val
  <2>. QED
    BY <1>4, <2>1
<1>. QED
  BY <1>3, <1>5 DEF KeptBy

KeptIn(A, s, S, f) ==
  /\ f \in [0..Len(s) -> Seq(A)]
  /\ f[0] = << >> /\ Among(s, S) = f[Len(s)]
  /\ \A n \in 1..Len(s) :
       f[n] = IF s[n] \in S THEN Append(f[n - 1], s[n]) ELSE f[n - 1]

\* The loop, a turn at a time; only its elements matter to it.
LEMMA KeptTurn ==
  ASSUME NEW A, NEW s \in Seq(A), NEW S
  PROVE  \E f : KeptIn(A, s, S, f)
<1>. DEFINE f == CHOOSE h : KeptBy(s, S, h)
            N == Len(s)
<1>1. N \in Nat
  OBVIOUS
<1>2. KeptBy(s, S, f)
  BY KeepingRuns
<1>3. Among(s, S) = f[N]
  BY DEF Among, KeptBy
<1>. HIDE DEF f
<1>4. /\ f[0] = << >>
      /\ \A n \in 1..N : f[n] = IF s[n] \in S THEN Append(f[n - 1], s[n]) ELSE f[n - 1]
  <2>1. ASSUME NEW n \in 0..N
        PROVE  f[n] = IF n = 0 THEN << >>
                      ELSE IF s[n] \in S THEN Append(f[n - 1], s[n]) ELSE f[n - 1]
    BY <1>2 DEF KeptBy
  <2>2. 0 \in 0..N /\ \A n \in 1..N : n \in 0..N /\ n # 0
    BY <1>1
  <2>. HIDE DEF N
  <2>. QED
    BY <2>1, <2>2
<1>. DEFINE T == {n \in Nat : n <= N => f[n] \in Seq(A)}
<1>5. 0 \in T
  <2>1. << >> \in Seq(A)
    OBVIOUS
  <2>. QED
    BY <1>4, <2>1
<1>6. ASSUME NEW n \in Nat, n \in T
      PROVE  n + 1 \in T
  <2>. SUFFICES ASSUME n + 1 <= N
                PROVE  f[n + 1] \in Seq(A)
    OBVIOUS
  <2>1. f[n] \in Seq(A) /\ n + 1 \in 1..N /\ (n + 1) - 1 = n /\ s[n + 1] \in A
    BY <1>1, <1>6
  <2>2. f[n + 1] = IF s[n + 1] \in S THEN Append(f[n], s[n + 1]) ELSE f[n]
    BY <1>4, <2>1
  <2>. QED
    BY <2>1, <2>2
<1>. HIDE DEF T
<1>7. \A n \in Nat : n \in T
  BY <1>5, <1>6, TurnsFromZero
<1>8. f \in [0..N -> Seq(A)]
  <2>1. \A n \in 0..N : f[n] \in Seq(A)
    BY <1>1, <1>7 DEF T
  <2>2. f = [n \in 0..N |-> f[n]]
    BY <1>2 DEF KeptBy
  <2>. QED
    BY <2>1, <2>2
<1>. QED
  BY <1>3, <1>4, <1>8 DEF KeptIn

\* Nothing is kept of nothing.
LEMMA AmongNone ==
  ASSUME NEW S
  PROVE  Among(<< >>, S) = << >>
<1>1. << >> \in Seq({}) /\ Len(<< >>) = 0
  OBVIOUS
<1>2. PICK f : KeptIn({}, << >>, S, f)
  BY <1>1, KeptTurn
<1>. QED
  BY <1>1, <1>2 DEF KeptIn

\* What is kept of a sequence is a sequence of the same set.
LEMMA AmongType ==
  ASSUME NEW A, NEW s \in Seq(A), NEW S
  PROVE  Among(s, S) \in Seq(A)
<1>1. PICK f : KeptIn(A, s, S, f)
  BY KeptTurn
<1>2. Len(s) \in 0..Len(s)
  BY LenProperties
<1>. QED
  BY <1>1, <1>2 DEF KeptIn

\* One more element: it is kept, or it is not.
LEMMA AmongAppend ==
  ASSUME NEW A, NEW s \in Seq(A), NEW x \in A, NEW S
  PROVE  Among(Append(s, x), S) = IF x \in S THEN Append(Among(s, S), x) ELSE Among(s, S)
<1>. DEFINE t == Append(s, x)
            N == Len(s)
<1>1. /\ N \in Nat /\ t \in Seq(A) /\ Len(t) = N + 1 /\ t[N + 1] = x
      /\ \A n \in 1..N : t[n] = s[n]
  BY AppendProperties, LenProperties
<1>. HIDE DEF t
<1>a. PICK f : KeptIn(A, s, S, f)
  BY KeptTurn
<1>2. /\ f[0] = << >> /\ Among(s, S) = f[N]
      /\ \A n \in 1..N : f[n] = IF s[n] \in S THEN Append(f[n - 1], s[n]) ELSE f[n - 1]
  BY <1>a DEF KeptIn
<1>b. PICK g : KeptIn(A, t, S, g)
  BY <1>1, KeptTurn
<1>3. /\ g[0] = << >> /\ Among(t, S) = g[N + 1]
      /\ \A n \in 1..(N + 1) : g[n] = IF t[n] \in S THEN Append(g[n - 1], t[n]) ELSE g[n - 1]
  BY <1>1, <1>b DEF KeptIn
<1>. DEFINE T == {n \in Nat : n <= N => f[n] = g[n]}
<1>4. 0 \in T
  BY <1>2, <1>3
<1>5. ASSUME NEW n \in Nat, n \in T
      PROVE  n + 1 \in T
  <2>. SUFFICES ASSUME n + 1 <= N
                PROVE  f[n + 1] = g[n + 1]
    OBVIOUS
  <2>1. f[n] = g[n] /\ n + 1 \in 1..N /\ n + 1 \in 1..(N + 1) /\ (n + 1) - 1 = n
    BY <1>1, <1>5
  <2>2. f[n + 1] = IF s[n + 1] \in S THEN Append(f[n], s[n + 1]) ELSE f[n]
    BY <1>2, <2>1
  <2>3. g[n + 1] = IF t[n + 1] \in S THEN Append(g[n], t[n + 1]) ELSE g[n]
    BY <1>3, <2>1
  <2>. QED
    BY <1>1, <2>1, <2>2, <2>3
<1>. HIDE DEF T
<1>6. \A n \in Nat : n \in T
  BY <1>4, <1>5, TurnsFromZero
<1>7. f[N] = g[N] /\ N + 1 \in 1..(N + 1) /\ (N + 1) - 1 = N
  BY <1>1, <1>6 DEF T
<1>. QED
  BY <1>1, <1>2, <1>3, <1>7 DEF t


\* A set of sequences that has the empty one, and with a sequence its
\* continuations, has them all.
LEMMA ByAppending ==
  ASSUME NEW A, NEW T, << >> \in T,
         \A s \in Seq(A), x \in A : s \in T => Append(s, x) \in T
  PROVE  \A s \in Seq(A) : s \in T
<1>. DEFINE U == {n \in Nat : \A s \in Seq(A) : Len(s) = n => s \in T}
<1>1. 0 \in U
  <2>1. \A s \in Seq(A) : Len(s) = 0 => s = << >>
    BY EmptySeq
  <2>. QED
    BY <2>1
<1>2. ASSUME NEW n \in Nat, n \in U
      PROVE  n + 1 \in U
  <2>. SUFFICES ASSUME NEW s \in Seq(A), Len(s) = n + 1
                PROVE  s \in T
    OBVIOUS
  <2>1. PICK t \in Seq(A), x \in A : s = Append(t, x)
    <3>1. s # << >>
      BY <1>2, EmptySeq
    <3>. QED
      BY <3>1, SequenceEmptyOrAppend
  <2>2. Len(t) = n
    <3>1. Len(t) \in Nat /\ Len(s) = Len(t) + 1
      BY <2>1, AppendProperties, LenProperties
    <3>. QED
      BY <3>1, <1>2
  <2>. QED
    BY <1>2, <2>1, <2>2
<1>. HIDE DEF U
<1>3. \A n \in Nat : n \in U
  BY <1>1, <1>2, TurnsFromZero
<1>. QED
  BY <1>3, LenProperties DEF U

\* The elements of a sequence with one more.
LEMMA InAppend ==
  ASSUME NEW A, NEW s \in Seq(A), NEW x \in A
  PROVE  In(Append(s, x)) = In(s) \cup {x}
<1>. DEFINE t == Append(s, x)
            N == Len(s)
<1>1. /\ N \in Nat /\ Len(t) = N + 1 /\ t[N + 1] = x
      /\ \A i \in 1..N : t[i] = s[i]
  BY AppendProperties, LenProperties
<1>2. 1..(N + 1) = (1..N) \cup {N + 1}
  BY <1>1
<1>. HIDE DEF t, N
<1>3. {t[i] : i \in 1..(N + 1)} = {s[i] : i \in 1..N} \cup {x}
  BY <1>1, <1>2
<1>. QED
  BY <1>1, <1>3 DEF In, t, N

\* The empty sequence has no elements.
LEMMA InNone == In(<< >>) = {}
<1>1. Len(<< >>) = 0 /\ 1..0 = {}
  OBVIOUS
<1>. QED
  BY <1>1 DEF In

\* In, Range and Contains speak of the same elements.
LEMMA InType ==
  ASSUME NEW A, NEW s \in Seq(A)
  PROVE  /\ In(s) \subseteq A /\ Range(s) = In(s)
         /\ \A x : Contains(s, x) <=> x \in In(s)
<1>1. DOMAIN s = 1..Len(s) /\ \A i \in 1..Len(s) : s[i] \in A
  OBVIOUS
<1>. QED
  BY <1>1 DEF In, Range, Contains

\* What is kept is what was there and is wanted.
LEMMA InAmong ==
  ASSUME NEW A, NEW s \in Seq(A), NEW S
  PROVE  In(Among(s, S)) = In(s) \cap S
<1>. DEFINE T == {t \in Seq(A) : In(Among(t, S)) = In(t) \cap S}
<1>1. << >> \in T
  BY AmongNone, InNone, EmptySeq
<1>2. ASSUME NEW t \in Seq(A), NEW x \in A, t \in T
      PROVE  Append(t, x) \in T
  <2>1. Append(t, x) \in Seq(A) /\ In(Append(t, x)) = In(t) \cup {x}
    BY InAppend, AppendProperties
  <2>2. In(Among(t, S)) = In(t) \cap S
    BY <1>2
  <2>3. CASE x \in S
    <3>1. Among(Append(t, x), S) = Append(Among(t, S), x)
      BY <2>3, AmongAppend
    <3>2. In(Append(Among(t, S), x)) = In(Among(t, S)) \cup {x}
      BY AmongType, InAppend
    <3>. QED
      BY <2>1, <2>2, <2>3, <3>1, <3>2
  <2>4. CASE x \notin S
    <3>1. Among(Append(t, x), S) = Among(t, S)
      BY <2>4, AmongAppend
    <3>. QED
      BY <2>1, <2>2, <2>4, <3>1
  <2>. QED
    BY <2>3, <2>4
<1>. HIDE DEF T
<1>3. \A t \in Seq(A) : t \in T
  BY <1>1, <1>2, ByAppending
<1>. QED
  BY <1>3 DEF T

\* Nothing is dropped when all of it is wanted.
LEMMA AmongSame ==
  ASSUME NEW A, NEW s \in Seq(A), NEW S, In(s) \subseteq S
  PROVE  Among(s, S) = s
<1>. DEFINE T == {t \in Seq(A) : In(t) \subseteq S => Among(t, S) = t}
<1>1. << >> \in T
  BY AmongNone, EmptySeq
<1>2. ASSUME NEW t \in Seq(A), NEW x \in A, t \in T
      PROVE  Append(t, x) \in T
  <2>1. Append(t, x) \in Seq(A) /\ In(Append(t, x)) = In(t) \cup {x}
    BY InAppend, AppendProperties
  <2>2. In(t) \subseteq S => Among(t, S) = t
    BY <1>2
  <2>3. x \in S => Among(Append(t, x), S) = Append(Among(t, S), x)
    BY AmongAppend
  <2>. QED
    BY <2>1, <2>2, <2>3
<1>. HIDE DEF T
<1>3. \A t \in Seq(A) : t \in T
  BY <1>1, <1>2, ByAppending
<1>. QED
  BY <1>3 DEF T

\* Two rounds of keeping are one.
LEMMA AmongAmong ==
  ASSUME NEW A, NEW s \in Seq(A), NEW S, NEW R
  PROVE  Among(Among(s, S), R) = Among(s, S \cap R)
<1>. DEFINE T == {t \in Seq(A) : Among(Among(t, S), R) = Among(t, S \cap R)}
<1>1. << >> \in T
  <2>1. Among(<< >>, S) = << >> /\ Among(<< >>, R) = << >> /\ Among(<< >>, S \cap R) = << >>
    BY AmongNone
  <2>. QED
    BY <2>1, EmptySeq
<1>2. ASSUME NEW t \in Seq(A), NEW x \in A, t \in T
      PROVE  Append(t, x) \in T
  <2>1. Append(t, x) \in Seq(A)
    BY AppendProperties
  <2>2. Among(Among(t, S), R) = Among(t, S \cap R)
    BY <1>2
  <2>3. /\ x \in S => Among(Append(t, x), S) = Append(Among(t, S), x)
        /\ x \notin S => Among(Append(t, x), S) = Among(t, S)
    BY AmongAppend
  <2>4. Among(t, S) \in Seq(A)
    BY AmongType
  <2>5. /\ x \in R => Among(Append(Among(t, S), x), R) = Append(Among(Among(t, S), R), x)
        /\ x \notin R => Among(Append(Among(t, S), x), R) = Among(Among(t, S), R)
    BY <2>4, AmongAppend
  <2>6. /\ x \in S \cap R => Among(Append(t, x), S \cap R) = Append(Among(t, S \cap R), x)
        /\ x \notin S \cap R => Among(Append(t, x), S \cap R) = Among(t, S \cap R)
    <3>1. ASSUME NEW U
          PROVE  /\ x \in U => Among(Append(t, x), U) = Append(Among(t, U), x)
                 /\ x \notin U => Among(Append(t, x), U) = Among(t, U)
      BY AmongAppend
    <3>. QED
      BY <3>1
  <2>7. x \in S \cap R <=> (x \in S /\ x \in R)
    OBVIOUS
  <2>8. CASE x \notin S
    BY <2>1, <2>2, <2>3, <2>6, <2>7, <2>8
  <2>9. CASE x \in S /\ x \notin R
    BY <2>1, <2>2, <2>3, <2>5, <2>6, <2>7, <2>9
  <2>10. CASE x \in S /\ x \in R
    BY <2>1, <2>2, <2>3, <2>5, <2>6, <2>7, <2>10
  <2>. QED
    BY <2>8, <2>9, <2>10
<1>. HIDE DEF T
<1>3. \A t \in Seq(A) : t \in T
  BY <1>1, <1>2, ByAppending
<1>. QED
  BY <1>3 DEF T

\* No element twice.
Once(s) == \A i, j \in 1..Len(s) : s[i] = s[j] => i = j

\* One more element repeats nothing if it was not there.
LEMMA OnceAppend ==
  ASSUME NEW A, NEW s \in Seq(A), NEW x \in A
  PROVE  Once(Append(s, x)) <=> Once(s) /\ x \notin In(s)
<1>. DEFINE t == Append(s, x)
            N == Len(s)
<1>1. /\ N \in Nat /\ Len(t) = N + 1 /\ t[N + 1] = x
      /\ \A i \in 1..N : t[i] = s[i]
  BY AppendProperties, LenProperties
<1>2. /\ \A i \in 1..(N + 1) : i \in 1..N \/ i = N + 1
      /\ \A i \in 1..N : i \in 1..(N + 1) /\ i # N + 1
      /\ N + 1 \in 1..(N + 1)
  BY <1>1
<1>. HIDE DEF t, N
<1>3. ASSUME \A i, j \in 1..(N + 1) : t[i] = t[j] => i = j
      PROVE  (\A i, j \in 1..N : s[i] = s[j] => i = j) /\ ~\E i \in 1..N : s[i] = x
  <2>1. \A i, j \in 1..N : s[i] = s[j] => i = j
    BY <1>1, <1>2, <1>3
  <2>2. \A i \in 1..N : s[i] # x
    BY <1>1, <1>2, <1>3
  <2>. QED
    BY <2>1, <2>2
<1>4. ASSUME \A i, j \in 1..N : s[i] = s[j] => i = j, ~\E i \in 1..N : s[i] = x
      PROVE  \A i, j \in 1..(N + 1) : t[i] = t[j] => i = j
  BY <1>1, <1>2, <1>4
<1>5. x \in In(s) <=> \E i \in 1..N : s[i] = x
  BY DEF In, N
<1>. QED
  BY <1>1, <1>3, <1>4, <1>5 DEF Once, t, N

\* A sequence without repetition keeps none.
LEMMA AmongOnce ==
  ASSUME NEW A, NEW s \in Seq(A), NEW S, Once(s)
  PROVE  Once(Among(s, S))
<1>. DEFINE T == {t \in Seq(A) : Once(t) => Once(Among(t, S))}
<1>1. << >> \in T
  BY AmongNone, EmptySeq
<1>2. ASSUME NEW t \in Seq(A), NEW x \in A, t \in T
      PROVE  Append(t, x) \in T
  <2>. SUFFICES ASSUME Once(Append(t, x))
                PROVE  Once(Among(Append(t, x), S))
    BY AppendProperties
  <2>1. Once(t) /\ x \notin In(t) /\ Once(Among(t, S))
    BY <1>2, OnceAppend
  <2>2. x \notin In(Among(t, S)) /\ Among(t, S) \in Seq(A)
    BY <2>1, InAmong, AmongType
  <2>3. Once(Append(Among(t, S), x))
    BY <2>1, <2>2, OnceAppend
  <2>. QED
    BY <2>1, <2>3, AmongAppend
<1>. HIDE DEF T
<1>3. \A t \in Seq(A) : t \in T
  BY <1>1, <1>2, ByAppending
<1>. QED
  BY <1>3 DEF T


RunOf(S, N, first, step, f) ==
  /\ f[0] = first
  /\ \A n \in 1..N : f[n - 1] \in S => f[n] = step[<<n, f[n - 1]>>]

LeadsOn(S, N, first, step, J) ==
  /\ first \in J[0]
  /\ \A n \in 1..N : \A x \in S : x \in J[n - 1] => step[<<n, x>>] \in J[n]

\* Where a loop ends, when every turn leads from one set of states to the next.
LEMMA LoopEnds ==
  ASSUME NEW S, NEW N \in Nat, NEW first \in S, NEW step \in [Nat \X S -> S],
         NEW f, RunOf(S, N, first, step, f), NEW J, LeadsOn(S, N, first, step, J)
  PROVE  f[N] \in S /\ f[N] \in J[N]
<1>. DEFINE T == {n \in Nat : n <= N => f[n] \in S /\ f[n] \in J[n]}
<1>1. 0 \in T
  BY DEF RunOf, LeadsOn
<1>2. ASSUME NEW n \in Nat, n \in T
      PROVE  n + 1 \in T
  <2>. SUFFICES ASSUME n + 1 <= N
                PROVE  f[n + 1] \in S /\ f[n + 1] \in J[n + 1]
    OBVIOUS
  <2>1. f[n] \in S /\ f[n] \in J[n] /\ n + 1 \in 1..N /\ (n + 1) - 1 = n
    BY <1>2
  <2>2. f[n + 1] = step[<<n + 1, f[n]>>]
    BY <2>1 DEF RunOf
  <2>3. step[<<n + 1, f[n]>>] \in S
    BY <2>1
  <2>4. step[<<n + 1, f[n]>>] \in J[n + 1]
    BY <2>1 DEF LeadsOn
  <2>. QED
    BY <2>2, <2>3, <2>4
<1>. HIDE DEF T
<1>3. \A n \in Nat : n \in T
  BY <1>1, <1>2, TurnsFromZero
<1>. QED
  BY <1>3 DEF T

-------------------------------------------------------------------------------
(***************************************************************************)
(* The operations of the registry.                                         *)
(***************************************************************************)
States == {"absent", "empty", "loaded"}

Registry ==
  [store : [Names -> States], bound : [Keys -> Seq(Names)], readback : Seq(Names), ok : BOOLEAN]

Entries == [node : Keys, plugins : Seq(Names)]

\* The parts of a registry can be replaced.
LEMMA BoundPut ==
  ASSUME NEW r \in Registry, NEW bd \in [Keys -> Seq(Names)],
         NEW x, x = [r EXCEPT !.bound = bd]
  PROVE  /\ x \in Registry /\ x.store = r.store /\ x.bound = bd
         /\ x.readback = r.readback /\ x.ok = r.ok
BY DEF Registry

\* Another list of readback plugins.
LEMMA ReadbackPut ==
  ASSUME NEW r \in Registry, NEW l \in Seq(Names),
         NEW x, x = [r EXCEPT !.readback = l]
  PROVE  /\ x \in Registry /\ x.store = r.store /\ x.bound = r.bound
         /\ x.readback = l /\ x.ok = r.ok
BY DEF Registry

\* Another result.
LEMMA OkPut ==
  ASSUME NEW r \in Registry, NEW b \in BOOLEAN,
         NEW x, x = [r EXCEPT !.ok = b]
  PROVE  /\ x \in Registry /\ x.store = r.store /\ x.bound = r.bound
         /\ x.readback = r.readback /\ x.ok = b
BY DEF Registry

\* registerPlugin(): one plugin more in the store.
LEMMA RegisteredIs ==
  ASSUME NEW r \in Registry, NEW p \in Names
  PROVE  LET x == Registered(r, p)
         IN  /\ x \in Registry /\ x.bound = r.bound /\ x.readback = r.readback
             /\ x.store[p] = (IF p \in Broken THEN "empty" ELSE "loaded")
             /\ \A q \in Names \ {p} : x.store[q] = r.store[q]
             /\ x.ok = (p \notin Broken)
<1>1. /\ r.store \in [Names -> States] /\ r.bound \in [Keys -> Seq(Names)]
      /\ r.readback \in Seq(Names) /\ r.ok \in BOOLEAN
  BY DEF Registry
<1>. DEFINE st == [r.store EXCEPT ![p] = IF p \in Broken THEN "empty" ELSE "loaded"]
<1>2. Registered(r, p) = [r EXCEPT !.store = st, !.ok = p \notin Broken]
  BY DEF Registered
<1>3. /\ st \in [Names -> States]
      /\ st[p] = IF p \in Broken THEN "empty" ELSE "loaded"
      /\ \A q \in Names \ {p} : st[q] = r.store[q]
  BY <1>1 DEF States
<1>4. (p \notin Broken) \in BOOLEAN
  OBVIOUS
<1>. HIDE DEF st
<1>. DEFINE x == Registered(r, p)
<1>5. /\ x \in Registry /\ x.store = st /\ x.bound = r.bound
      /\ x.readback = r.readback /\ x.ok = (p \notin Broken)
  <2>. HIDE DEF x
  <2>1. x = [r EXCEPT !.store = st, !.ok = p \notin Broken]
    BY <1>2 DEF x
  <2>. DEFINE b == p \notin Broken
  <2>. HIDE DEF b
  <2>2. b \in BOOLEAN /\ x = [r EXCEPT !.store = st, !.ok = b]
    BY <2>1 DEF b
  <2>3. /\ x \in Registry /\ x.store = st /\ x.bound = r.bound
        /\ x.readback = r.readback /\ x.ok = b
    BY <1>3, <2>2 DEF Registry
  <2>. QED
    BY <2>3 DEF b
<1>. HIDE DEF x
<1>6. /\ x.store[p] = (IF p \in Broken THEN "empty" ELSE "loaded")
      /\ \A q \in Names \ {p} : x.store[q] = r.store[q]
  BY <1>3, <1>5
<1>. QED
  BY <1>5, <1>6 DEF x

\* The other plugins of a node.
LEMMA WithoutIs ==
  ASSUME NEW s \in Seq(Names), NEW p \in Names
  PROVE  Without(s, p) \in Seq(Names) /\ In(Without(s, p)) = In(s) \ {p}
<1>1. In(s) \subseteq Names
  BY InType
<1>2. In(Without(s, p)) = In(s) \cap (Names \ {p})
  BY InAmong DEF Without
<1>3. Without(s, p) \in Seq(Names)
  BY AmongType DEF Without
<1>. QED
  BY <1>1, <1>2, <1>3

UnregisteredFrom(x, r, p) ==
  /\ x \in Registry /\ x.readback = r.readback /\ x.ok = r.ok
  /\ \A k \in Keys : /\ x.bound[k] = Without(r.bound[k], p)
                     /\ In(x.bound[k]) = In(r.bound[k]) \ {p}
  /\ \A q \in Names \ {p} : x.store[q] = r.store[q]
  /\ x.store[p] = IF r.store[p] = "loaded" /\ \E k \in Keys : p \in In(r.bound[k])
                  THEN "absent" ELSE r.store[p]

\* unregisterPlugin(): bound nowhere, and destroyed if it was bound.
LEMMA UnregisteredIs ==
  ASSUME NEW r \in Registry, NEW p \in Names
  PROVE  UnregisteredFrom(Unregistered(r, p), r, p)
<1>1. /\ r.store \in [Names -> States] /\ r.bound \in [Keys -> Seq(Names)]
      /\ r.readback \in Seq(Names) /\ r.ok \in BOOLEAN
  BY DEF Registry
<1>. DEFINE at == {k \in Keys : Contains(r.bound[k], p)}
            st == [r.store EXCEPT ![p] = IF at # {} /\ @ = "loaded" THEN "absent" ELSE @]
            bd == [k \in Keys |-> Without(r.bound[k], p)]
<1>2. Unregistered(r, p) = [r EXCEPT !.store = st, !.bound = bd]
  BY DEF Unregistered
<1>3. \A k \in Keys : bd[k] \in Seq(Names) /\ In(bd[k]) = In(r.bound[k]) \ {p}
  BY <1>1, WithoutIs
<1>4. bd \in [Keys -> Seq(Names)]
  BY <1>3
<1>5. at # {} <=> \E k \in Keys : p \in In(r.bound[k])
  BY <1>1, InType
<1>6. /\ st \in [Names -> States]
      /\ \A q \in Names \ {p} : st[q] = r.store[q]
      /\ st[p] = IF at # {} /\ r.store[p] = "loaded" THEN "absent" ELSE r.store[p]
  <2>. HIDE DEF at
  <2>. QED
    BY <1>1 DEF States
<1>. DEFINE x == Unregistered(r, p)
<1>7. x \in Registry /\ x.store = st /\ x.bound = bd /\ x.readback = r.readback /\ x.ok = r.ok
  <2>. HIDE DEF st, bd, x
  <2>1. x = [r EXCEPT !.store = st, !.bound = bd]
    BY <1>2 DEF x
  <2>. QED
    BY <1>4, <1>6, <2>1 DEF Registry
<1>8. \A k \in Keys : bd[k] = Without(r.bound[k], p)
  OBVIOUS
<1>. HIDE DEF st, bd, at, x
<1>9. x.store[p] = IF r.store[p] = "loaded" /\ (\E k \in Keys : p \in In(r.bound[k]))
                   THEN "absent" ELSE r.store[p]
  BY <1>5, <1>6, <1>7
<1>10. /\ \A k \in Keys : /\ x.bound[k] = Without(r.bound[k], p)
                           /\ In(x.bound[k]) = In(r.bound[k]) \ {p}
       /\ \A q \in Names \ {p} : x.store[q] = r.store[q]
  BY <1>3, <1>6, <1>7, <1>8
<1>. QED
  BY <1>7, <1>9, <1>10 DEF x, UnregisteredFrom

\* Of this, that p is nowhere bound, and destroyed or as it was.
LEMMA UnregisteredDrops ==
  ASSUME NEW r \in Registry, NEW p \in Names
  PROVE  /\ Unregistered(r, p) \in Registry
         /\ \A k \in Keys : In(Unregistered(r, p).bound[k]) = In(r.bound[k]) \ {p}
         /\ \A q \in Names \ {p} : Unregistered(r, p).store[q] = r.store[q]
         /\ Unregistered(r, p).store[p] = "absent" \/ Unregistered(r, p).store[p] = r.store[p]
<1>. DEFINE x == Unregistered(r, p)
<1>1. UnregisteredFrom(x, r, p)
  BY UnregisteredIs
<1>. HIDE DEF x
<1>2. /\ x \in Registry
      /\ \A k \in Keys : In(x.bound[k]) = In(r.bound[k]) \ {p}
      /\ \A q \in Names \ {p} : x.store[q] = r.store[q]
      /\ x.store[p] = "absent" \/ x.store[p] = r.store[p]
  BY <1>1 DEF UnregisteredFrom
<1>. QED
  BY <1>2 DEF x

\* bind_plugin(): at the end of its node, if it is not there yet.
LEMMA BoundToIs ==
  ASSUME NEW r \in Registry, NEW p \in Names, NEW k \in Keys
  PROVE  LET x == BoundTo(r, p, k)
         IN  /\ x \in Registry /\ x.store = r.store /\ x.readback = r.readback /\ x.ok = r.ok
             /\ \A j \in Keys \ {k} : x.bound[j] = r.bound[j]
             /\ x.bound[k] = (IF p \in In(r.bound[k]) THEN r.bound[k] ELSE Append(r.bound[k], p))
             /\ In(x.bound[k]) = In(r.bound[k]) \cup {p}
<1>1. /\ r.store \in [Names -> States] /\ r.bound \in [Keys -> Seq(Names)]
      /\ r.readback \in Seq(Names) /\ r.ok \in BOOLEAN
  BY DEF Registry
<1>. DEFINE b == IF p \in In(r.bound[k]) THEN r.bound[k] ELSE Append(r.bound[k], p)
            bd == [r.bound EXCEPT ![k] = b]
<1>2. r.bound[k] \in Seq(Names) /\ (Contains(r.bound[k], p) <=> p \in In(r.bound[k]))
  BY <1>1, InType
<1>3. b \in Seq(Names) /\ In(b) = In(r.bound[k]) \cup {p}
  BY <1>2, InAppend
<1>4. BoundTo(r, p, k) = [r EXCEPT !.bound = bd]
  BY <1>2 DEF BoundTo
<1>. HIDE DEF b
<1>5. bd \in [Keys -> Seq(Names)] /\ bd[k] = b /\ \A j \in Keys \ {k} : bd[j] = r.bound[j]
  BY <1>1, <1>3
<1>. HIDE DEF bd
<1>. DEFINE x == BoundTo(r, p, k)
<1>6. x \in Registry /\ x.store = r.store /\ x.bound = bd /\ x.readback = r.readback /\ x.ok = r.ok
  <2>. HIDE DEF x
  <2>1. x = [r EXCEPT !.bound = bd]
    BY <1>4 DEF x
  <2>. QED
    BY <1>5, <2>1, BoundPut
<1>. HIDE DEF x
<1>7. /\ \A j \in Keys \ {k} : x.bound[j] = r.bound[j]
      /\ x.bound[k] = (IF p \in In(r.bound[k]) THEN r.bound[k] ELSE Append(r.bound[k], p))
      /\ In(x.bound[k]) = In(r.bound[k]) \cup {p}
  BY <1>3, <1>5, <1>6 DEF b
<1>. QED
  BY <1>6, <1>7 DEF x


\* A list of plugins with one more.
LEMMA AppendedType ==
  ASSUME NEW s \in Seq(Names), NEW p \in Names
  PROVE  Append(s, p) \in Seq(Names) /\ In(Append(s, p)) = In(s) \cup {p}
BY InAppend, AppendProperties

\* A readback plugin that no plugin can be made of.
Fails(r, p) == r.store[p] = "absent" /\ p \in Broken

\* bind_readback_plugins() registers what is not there, and binds it.
LEMMA BindReadbackPluginIs ==
  ASSUME NEW r \in Registry, NEW k \in Keys, NEW p \in Names
  PROVE  LET x == BindReadbackPlugin(r, k, p)
         IN  /\ x \in Registry
             /\ ~r.ok => x = r
             /\ r.ok =>
                  /\ \A q \in Names \ {p} : x.store[q] = r.store[q]
                  /\ x.store[p] = (IF r.store[p] # "absent" THEN r.store[p]
                                   ELSE IF p \in Broken THEN "empty" ELSE "loaded")
                  /\ x.readback = (IF r.store[p] = "absent" /\ p \notin Broken
                                   THEN Append(r.readback, p) ELSE r.readback)
                  /\ \A j \in Keys \ {k} : x.bound[j] = r.bound[j]
                  /\ Fails(r, p) => x.bound = r.bound
                  /\ ~Fails(r, p) =>
                       /\ x.bound[k] = (IF p \in In(r.bound[k]) THEN r.bound[k]
                                        ELSE Append(r.bound[k], p))
                       /\ In(x.bound[k]) = In(r.bound[k]) \cup {p}
                       /\ NodeOperation[p][k] # "PUT_ONLY" /\ p \notin Mismatched => x.ok
<1>. DEFINE new == Registered(r, p)
            s == IF r.store[p] # "absent" THEN r
                 ELSE IF p \in Broken THEN new
                 ELSE [new EXCEPT !.readback = Append(@, p)]
            fine == NodeOperation[p][k] # "PUT_ONLY" /\ p \notin Mismatched
            x == BindReadbackPlugin(r, k, p)
<1>0. /\ r.store \in [Names -> States] /\ r.bound \in [Keys -> Seq(Names)]
      /\ r.readback \in Seq(Names) /\ r.ok \in BOOLEAN
  BY DEF Registry
<1>1. x = IF ~r.ok THEN r
          ELSE IF ~s.ok \/ Contains(s.bound[k], p) THEN s
          ELSE [BoundTo(s, p, k) EXCEPT !.ok = fine]
  BY DEF BindReadbackPlugin
<1>2. /\ new \in Registry /\ new.bound = r.bound /\ new.readback = r.readback
      /\ new.store[p] = (IF p \in Broken THEN "empty" ELSE "loaded")
      /\ \A q \in Names \ {p} : new.store[q] = r.store[q]
      /\ new.ok = (p \notin Broken)
  BY RegisteredIs
<1>. HIDE DEF new
<1>3. Append(r.readback, p) \in Seq(Names)
  BY <1>0, AppendedType
<1>4. ASSUME r.ok
      PROVE  /\ s \in Registry /\ s.bound = r.bound
             /\ \A q \in Names \ {p} : s.store[q] = r.store[q]
             /\ s.store[p] = (IF r.store[p] # "absent" THEN r.store[p]
                              ELSE IF p \in Broken THEN "empty" ELSE "loaded")
             /\ s.readback = (IF r.store[p] = "absent" /\ p \notin Broken
                              THEN Append(r.readback, p) ELSE r.readback)
             /\ s.ok = ~Fails(r, p)
  <2>1. CASE r.store[p] # "absent"
    BY <1>4, <2>1 DEF Fails
  <2>2. CASE r.store[p] = "absent" /\ p \in Broken
    <3>1. s = new
      BY <2>2
    <3>. QED
      BY <1>2, <2>2, <3>1 DEF Fails
  <2>3. CASE r.store[p] = "absent" /\ p \notin Broken
    <3>1. s = [new EXCEPT !.readback = Append(r.readback, p)]
      BY <1>2, <2>3
    <3>. HIDE DEF s
    <3>2. /\ s \in Registry /\ s.store = new.store /\ s.bound = new.bound
          /\ s.readback = Append(r.readback, p) /\ s.ok = new.ok
      BY <1>2, <1>3, <3>1 DEF Registry
    <3>3. s.ok = TRUE /\ Fails(r, p) = FALSE
      BY <1>2, <2>3, <3>2 DEF Fails
    <3>. QED
      BY <1>2, <2>3, <3>2, <3>3
  <2>. QED
    BY <2>1, <2>2, <2>3
<1>. HIDE DEF s
<1>5. CASE ~r.ok
  BY <1>1, <1>5
<1>6. CASE r.ok /\ Fails(r, p)
  <2>1. x = s /\ ~s.ok
    BY <1>1, <1>4, <1>6
  <2>. HIDE DEF x
  <2>2. x \in Registry /\ x.bound = r.bound
    BY <1>4, <1>6, <2>1
  <2>3. /\ \A q \in Names \ {p} : x.store[q] = r.store[q]
        /\ x.store[p] = (IF r.store[p] # "absent" THEN r.store[p]
                         ELSE IF p \in Broken THEN "empty" ELSE "loaded")
        /\ x.readback = (IF r.store[p] = "absent" /\ p \notin Broken
                         THEN Append(r.readback, p) ELSE r.readback)
    BY <1>4, <1>6, <2>1
  <2>. QED
    BY <1>6, <2>2, <2>3 DEF x
<1>7. CASE r.ok /\ ~Fails(r, p)
  <2>1. s.ok /\ (Contains(s.bound[k], p) <=> p \in In(r.bound[k]))
    <3>1. s.ok /\ s.bound = r.bound
      BY <1>4, <1>7
    <3>2. Contains(r.bound[k], p) <=> p \in In(r.bound[k])
      BY <1>0, InType
    <3>. QED
      BY <3>1, <3>2
  <2>. DEFINE b == BoundTo(s, p, k)
  <2>2. /\ b \in Registry /\ b.store = s.store /\ b.readback = s.readback /\ b.ok = s.ok
        /\ \A j \in Keys \ {k} : b.bound[j] = s.bound[j]
        /\ b.bound[k] = (IF p \in In(s.bound[k]) THEN s.bound[k] ELSE Append(s.bound[k], p))
        /\ In(b.bound[k]) = In(s.bound[k]) \cup {p}
    <3>1. s \in Registry
      BY <1>4, <1>7
    <3>. QED
      BY <3>1, BoundToIs
  <2>3. x = IF p \in In(r.bound[k]) THEN s ELSE [b EXCEPT !.ok = fine]
    BY <1>1, <1>7, <2>1
  <2>. HIDE DEF x, b
  <2>4. /\ x \in Registry /\ x.store = s.store /\ x.readback = s.readback
        /\ \A j \in Keys \ {k} : x.bound[j] = r.bound[j]
        /\ x.bound[k] = (IF p \in In(r.bound[k]) THEN r.bound[k] ELSE Append(r.bound[k], p))
        /\ In(x.bound[k]) = In(r.bound[k]) \cup {p}
        /\ fine => x.ok
    <3>1. CASE p \in In(r.bound[k])
      <4>1. x = s
        BY <2>3, <3>1
      <4>2. s.bound = r.bound /\ s.ok /\ s \in Registry
        BY <1>4, <1>7, <2>1
      <4>. QED
        BY <3>1, <4>1, <4>2
    <3>2. CASE p \notin In(r.bound[k])
      <4>. DEFINE v == fine
      <4>. HIDE DEF v
      <4>1. v \in BOOLEAN /\ x = [b EXCEPT !.ok = v]
        BY <2>3, <3>2 DEF v
      <4>2. /\ x \in Registry /\ x.store = b.store /\ x.bound = b.bound
            /\ x.readback = b.readback /\ x.ok = v
        BY <2>2, <4>1, OkPut
      <4>3. s.bound = r.bound
        BY <1>4, <1>7
      <4>4. fine => v
        BY DEF v
      <4>. HIDE DEF fine
      <4>. QED
        BY <2>2, <3>2, <4>2, <4>3, <4>4
    <3>. QED
      BY <3>1, <3>2
  <2>5. /\ \A q \in Names \ {p} : x.store[q] = r.store[q]
        /\ x.store[p] = (IF r.store[p] # "absent" THEN r.store[p]
                         ELSE IF p \in Broken THEN "empty" ELSE "loaded")
        /\ x.readback = (IF r.store[p] = "absent" /\ p \notin Broken
                         THEN Append(r.readback, p) ELSE r.readback)
    BY <1>4, <1>7, <2>4
  <2>. QED
    BY <1>7, <2>4, <2>5 DEF x
<1>. QED
  BY <1>0, <1>5, <1>6, <1>7


-------------------------------------------------------------------------------
(***************************************************************************)
(* The loops over the registry.  J gives for every turn the states of the  *)
(* registry that can be reached before the next one.                       *)
(***************************************************************************)

OfEntry(r, entry, h) ==
  h = [n \in 0..Len(entry.plugins) |->
         IF n = 0 THEN r ELSE
           BindReadbackPlugin(h[n - 1], entry.node, entry.plugins[Len(entry.plugins) + 1 - n])]

\* The plugins of one entry, from the last.
LEMMA BindEntryEnds ==
  ASSUME NEW r \in Registry, NEW entry \in Entries,
         NEW J, r \in J[0],
         \A n \in 1..Len(entry.plugins) : \A x \in Registry : x \in J[n - 1] =>
           BindReadbackPlugin(x, entry.node, entry.plugins[Len(entry.plugins) + 1 - n]) \in J[n]
  PROVE  BindEntry(r, entry) \in Registry /\ BindEntry(r, entry) \in J[Len(entry.plugins)]
<1>. DEFINE N == Len(entry.plugins)
            Turn(n, x) == BindReadbackPlugin(x, entry.node, entry.plugins[Len(entry.plugins) + 1 - n])
            step == [nx \in Nat \X Registry |-> IF nx[1] \in 1..N THEN Turn(nx[1], nx[2]) ELSE nx[2]]
<1>1. N \in Nat
  BY DEF Entries
<1>2. ASSUME NEW n \in 1..N, NEW x \in Registry
      PROVE  Turn(n, x) \in Registry
  <2>1. entry.node \in Keys /\ entry.plugins \in Seq(Names)
    BY DEF Entries
  <2>2. N + 1 - n \in 1..N
    BY <1>1
  <2>3. entry.plugins[N + 1 - n] \in Names
    BY <2>1, <2>2
  <2>. QED
    BY <2>1, <2>3, BindReadbackPluginIs
<1>3. step \in [Nat \X Registry -> Registry]
  <2>. HIDE DEF Turn
  <2>1. ASSUME NEW n \in Nat, NEW x \in Registry
        PROVE  (IF n \in 1..N THEN Turn(n, x) ELSE x) \in Registry
    BY <1>2
  <2>. QED
    BY <2>1
<1>4. \A n \in 1..N : \A x \in Registry : step[<<n, x>>] = Turn(n, x)
  <2>. HIDE DEF Turn
  <2>. QED
    BY <1>1
<1>5. PICK g \in [0..N -> Registry] :
         g[0] = r /\ \A n \in 1..N : g[n] = step[<<n, g[n - 1]>>]
  <2>. HIDE DEF step, N
  <2>1. Turns(Registry, r, step, N)
    BY <1>1, <1>3, LoopTurns
  <2>. QED
    BY <2>1 DEF Turns
<1>. HIDE DEF step
<1>6. ASSUME NEW n \in 0..N
      PROVE  g[n] = IF n = 0 THEN r ELSE Turn(n, g[n - 1])
  <2>. HIDE DEF Turn, N
  <2>1. n # 0 => n \in 1..N /\ n - 1 \in 0..N
    BY <1>1
  <2>. QED
    BY <1>4, <1>5, <2>1
<1>7. OfEntry(r, entry, g)
  <2>1. g = [n \in 0..N |-> g[n]]
    BY <1>5
  <2>2. g = [n \in 0..N |-> IF n = 0 THEN r ELSE Turn(n, g[n - 1])]
    <3>. HIDE DEF Turn
    <3>. QED
      BY <1>6, <2>1
  <2>. QED
    BY <2>2 DEF OfEntry
<1>. DEFINE f == CHOOSE h : OfEntry(r, entry, h)
<1>8. OfEntry(r, entry, f)
  BY <1>7
<1>9. BindEntry(r, entry) = f[N]
  BY DEF BindEntry, OfEntry
<1>. HIDE DEF f
<1>10. \A n \in 0..N : f[n] = IF n = 0 THEN r ELSE Turn(n, f[n - 1])
  BY <1>8 DEF OfEntry
<1>11. /\ f[0] = r
       /\ \A n \in 1..N : f[n - 1] \in Registry => f[n] = step[<<n, f[n - 1]>>]
  <2>. HIDE DEF Turn, N
  <2>1. 0 \in 0..N /\ \A n \in 1..N : n \in 0..N /\ n # 0
    BY <1>1
  <2>. QED
    BY <1>4, <1>10, <2>1
<1>12. \A n \in 1..N : \A x \in Registry : x \in J[n - 1] => step[<<n, x>>] \in J[n]
  <2>1. ASSUME NEW n \in 1..N, NEW x \in Registry, x \in J[n - 1]
        PROVE  Turn(n, x) \in J[n]
    BY <2>1
  <2>. HIDE DEF Turn, N
  <2>. QED
    BY <1>4, <2>1
<1>. HIDE DEF N, Turn
<1>13. RunOf(Registry, N, r, step, f) /\ LeadsOn(Registry, N, r, step, J)
  BY <1>11, <1>12 DEF RunOf, LeadsOn
<1>14. f[N] \in Registry /\ f[N] \in J[N]
  BY <1>1, <1>3, <1>13, LoopEnds
<1>. QED
  BY <1>9, <1>14 DEF N

OfEntries(r, entries, h) ==
  h = [n \in 0..Len(entries) |-> IF n = 0 THEN r ELSE BindEntry(h[n - 1], entries[n])]

\* The entries of a file.
LEMMA BindEntriesEnd ==
  ASSUME NEW r \in Registry, NEW entries \in Seq(Entries),
         NEW J, r \in J[0],
         \A n \in 1..Len(entries) : \A x \in Registry : x \in J[n - 1] =>
           BindEntry(x, entries[n]) \in J[n]
  PROVE  BindEntries(r, entries) \in Registry /\ BindEntries(r, entries) \in J[Len(entries)]
<1>. DEFINE N == Len(entries)
            Turn(n, x) == BindEntry(x, entries[n])
            step == [nx \in Nat \X Registry |-> IF nx[1] \in 1..N THEN Turn(nx[1], nx[2]) ELSE nx[2]]
<1>1. N \in Nat
  OBVIOUS
<1>2. ASSUME NEW n \in 1..N, NEW x \in Registry
      PROVE  Turn(n, x) \in Registry
  <2>. DEFINE I == [m \in Nat |-> Registry]
              e == entries[n]
  <2>1. e \in Entries /\ Len(e.plugins) \in Nat /\ x \in I[0]
    <3>1. e \in Entries /\ x \in I[0]
      OBVIOUS
    <3>. HIDE DEF e, I
    <3>. QED
      BY <3>1 DEF Entries
  <2>2. \A m \in 1..Len(e.plugins) : \A y \in Registry :
          BindReadbackPlugin(y, e.node, e.plugins[Len(e.plugins) + 1 - m]) \in I[m]
    <3>. SUFFICES ASSUME NEW m \in 1..Len(e.plugins), NEW y \in Registry
                  PROVE  BindReadbackPlugin(y, e.node, e.plugins[Len(e.plugins) + 1 - m]) \in Registry
      OBVIOUS
    <3>1. e.node \in Keys /\ e.plugins \in Seq(Names) /\ Len(e.plugins) + 1 - m \in 1..Len(e.plugins)
      BY <2>1 DEF Entries
    <3>2. e.plugins[Len(e.plugins) + 1 - m] \in Names
      BY <3>1
    <3>. QED
      BY <3>1, <3>2, BindReadbackPluginIs
  <2>. HIDE DEF I, e
  <2>3. BindEntry(x, e) \in Registry
    BY <2>1, <2>2, BindEntryEnds
  <2>. QED
    BY <2>3 DEF e
<1>3. step \in [Nat \X Registry -> Registry]
  <2>. HIDE DEF Turn
  <2>1. ASSUME NEW n \in Nat, NEW x \in Registry
        PROVE  (IF n \in 1..N THEN Turn(n, x) ELSE x) \in Registry
    BY <1>2
  <2>. QED
    BY <2>1
<1>4. \A n \in 1..N : \A x \in Registry : step[<<n, x>>] = Turn(n, x)
  <2>. HIDE DEF Turn
  <2>. QED
    BY <1>1
<1>5. PICK g \in [0..N -> Registry] :
         g[0] = r /\ \A n \in 1..N : g[n] = step[<<n, g[n - 1]>>]
  <2>. HIDE DEF step, N
  <2>1. Turns(Registry, r, step, N)
    BY <1>1, <1>3, LoopTurns
  <2>. QED
    BY <2>1 DEF Turns
<1>. HIDE DEF step
<1>6. ASSUME NEW n \in 0..N
      PROVE  g[n] = IF n = 0 THEN r ELSE Turn(n, g[n - 1])
  <2>. HIDE DEF Turn, N
  <2>1. n # 0 => n \in 1..N /\ n - 1 \in 0..N
    BY <1>1
  <2>. QED
    BY <1>4, <1>5, <2>1
<1>7. OfEntries(r, entries, g)
  <2>1. g = [n \in 0..N |-> g[n]]
    BY <1>5
  <2>2. g = [n \in 0..N |-> IF n = 0 THEN r ELSE Turn(n, g[n - 1])]
    <3>. HIDE DEF Turn
    <3>. QED
      BY <1>6, <2>1
  <2>. QED
    BY <2>2 DEF OfEntries
<1>. DEFINE f == CHOOSE h : OfEntries(r, entries, h)
<1>8. OfEntries(r, entries, f)
  BY <1>7
<1>9. BindEntries(r, entries) = f[N]
  BY DEF BindEntries, OfEntries
<1>. HIDE DEF f
<1>10. \A n \in 0..N : f[n] = IF n = 0 THEN r ELSE Turn(n, f[n - 1])
  BY <1>8 DEF OfEntries
<1>11. /\ f[0] = r
       /\ \A n \in 1..N : f[n - 1] \in Registry => f[n] = step[<<n, f[n - 1]>>]
  <2>. HIDE DEF Turn, N
  <2>1. 0 \in 0..N /\ \A n \in 1..N : n \in 0..N /\ n # 0
    BY <1>1
  <2>. QED
    BY <1>4, <1>10, <2>1
<1>12. \A n \in 1..N : \A x \in Registry : x \in J[n - 1] => step[<<n, x>>] \in J[n]
  <2>1. ASSUME NEW n \in 1..N, NEW x \in Registry, x \in J[n - 1]
        PROVE  Turn(n, x) \in J[n]
    BY <2>1
  <2>. HIDE DEF Turn, N
  <2>. QED
    BY <1>4, <2>1
<1>. HIDE DEF N, Turn
<1>13. RunOf(Registry, N, r, step, f) /\ LeadsOn(Registry, N, r, step, J)
  BY <1>11, <1>12 DEF RunOf, LeadsOn
<1>14. f[N] \in Registry /\ f[N] \in J[N]
  BY <1>1, <1>3, <1>13, LoopEnds
<1>. QED
  BY <1>9, <1>14 DEF N

OfPlugins(r, plugins, h) ==
  h = [n \in 0..Len(plugins) |->
         IF n = 0 THEN r ELSE
           BoundTo(h[n - 1], plugins[Len(plugins) + 1 - n], Provenance)]

\* The plugins of one node, from the last, on the provenance nodes.
LEMMA ToProvenanceEnds ==
  ASSUME NEW r \in Registry, NEW plugins \in Seq(Names),
         NEW J, r \in J[0],
         \A n \in 1..Len(plugins) : \A x \in Registry : x \in J[n - 1] =>
           BoundTo(x, plugins[Len(plugins) + 1 - n], Provenance) \in J[n]
  PROVE  BoundToProvenance(r, plugins) \in Registry /\ BoundToProvenance(r, plugins) \in J[Len(plugins)]
<1>. DEFINE N == Len(plugins)
            Turn(n, x) == BoundTo(x, plugins[Len(plugins) + 1 - n], Provenance)
            step == [nx \in Nat \X Registry |-> IF nx[1] \in 1..N THEN Turn(nx[1], nx[2]) ELSE nx[2]]
<1>1. N \in Nat
  OBVIOUS
<1>2. ASSUME NEW n \in 1..N, NEW x \in Registry
      PROVE  Turn(n, x) \in Registry
  <2>1. N + 1 - n \in 1..N
    BY <1>1
  <2>2. plugins[N + 1 - n] \in Names /\ Provenance \in Keys
    BY <2>1, KeysAssumption
  <2>. QED
    BY <2>2, BoundToIs
<1>3. step \in [Nat \X Registry -> Registry]
  <2>. HIDE DEF Turn
  <2>1. ASSUME NEW n \in Nat, NEW x \in Registry
        PROVE  (IF n \in 1..N THEN Turn(n, x) ELSE x) \in Registry
    BY <1>2
  <2>. QED
    BY <2>1
<1>4. \A n \in 1..N : \A x \in Registry : step[<<n, x>>] = Turn(n, x)
  <2>. HIDE DEF Turn
  <2>. QED
    BY <1>1
<1>5. PICK g \in [0..N -> Registry] :
         g[0] = r /\ \A n \in 1..N : g[n] = step[<<n, g[n - 1]>>]
  <2>. HIDE DEF step, N
  <2>1. Turns(Registry, r, step, N)
    BY <1>1, <1>3, LoopTurns
  <2>. QED
    BY <2>1 DEF Turns
<1>. HIDE DEF step
<1>6. ASSUME NEW n \in 0..N
      PROVE  g[n] = IF n = 0 THEN r ELSE Turn(n, g[n - 1])
  <2>. HIDE DEF Turn, N
  <2>1. n # 0 => n \in 1..N /\ n - 1 \in 0..N
    BY <1>1
  <2>. QED
    BY <1>4, <1>5, <2>1
<1>7. OfPlugins(r, plugins, g)
  <2>1. g = [n \in 0..N |-> g[n]]
    BY <1>5
  <2>2. g = [n \in 0..N |-> IF n = 0 THEN r ELSE Turn(n, g[n - 1])]
    <3>. HIDE DEF Turn
    <3>. QED
      BY <1>6, <2>1
  <2>. QED
    BY <2>2 DEF OfPlugins
<1>. DEFINE f == CHOOSE h : OfPlugins(r, plugins, h)
<1>8. OfPlugins(r, plugins, f)
  BY <1>7
<1>9. BoundToProvenance(r, plugins) = f[N]
  BY DEF BoundToProvenance, OfPlugins
<1>. HIDE DEF f
<1>10. \A n \in 0..N : f[n] = IF n = 0 THEN r ELSE Turn(n, f[n - 1])
  BY <1>8 DEF OfPlugins
<1>11. /\ f[0] = r
       /\ \A n \in 1..N : f[n - 1] \in Registry => f[n] = step[<<n, f[n - 1]>>]
  <2>. HIDE DEF Turn, N
  <2>1. 0 \in 0..N /\ \A n \in 1..N : n \in 0..N /\ n # 0
    BY <1>1
  <2>. QED
    BY <1>4, <1>10, <2>1
<1>12. \A n \in 1..N : \A x \in Registry : x \in J[n - 1] => step[<<n, x>>] \in J[n]
  <2>1. ASSUME NEW n \in 1..N, NEW x \in Registry, x \in J[n - 1]
        PROVE  Turn(n, x) \in J[n]
    BY <2>1
  <2>. HIDE DEF Turn, N
  <2>. QED
    BY <1>4, <2>1
<1>. HIDE DEF N, Turn
<1>13. RunOf(Registry, N, r, step, f) /\ LeadsOn(Registry, N, r, step, J)
  BY <1>11, <1>12 DEF RunOf, LeadsOn
<1>14. f[N] \in Registry /\ f[N] \in J[N]
  BY <1>1, <1>3, <1>13, LoopEnds
<1>. QED
  BY <1>9, <1>14 DEF N

\* The plugins that contribute to a get() are among those bound.
LEMMA GetPluginsType ==
  ASSUME NEW r \in Registry, NEW k \in Keys
  PROVE  GetPlugins(r.bound, k) \in Seq(Names) /\ In(GetPlugins(r.bound, k)) \subseteq In(r.bound[k])
<1>1. r.bound[k] \in Seq(Names)
  BY DEF Registry
<1>. QED
  BY <1>1, AmongType, InAmong DEF GetPlugins

\* The keys of the map, in a sequence.
LEMMA OrderType ==
  Order \in Seq(Keys) /\ Len(Order) \in Nat /\ \A n \in 1..Len(Order) : Order[n] \in Keys
BY KeysAssumption


OfNodes(r, h) ==
  h = [n \in 0..Len(Order) |->
         IF n = 0 THEN r ELSE IF Order[n] = Provenance THEN h[n - 1] ELSE
           BoundToProvenance(h[n - 1], GetPlugins(h[n - 1].bound, Order[n]))]

\* All nodes, in their order.
LEMMA BindProvenanceEnds ==
  ASSUME NEW r \in Registry,
         NEW J, r \in J[0],
         \A n \in 1..Len(Order) : \A x \in Registry : x \in J[n - 1] =>
           /\ Order[n] = Provenance => x \in J[n]
           /\ Order[n] # Provenance =>
                BoundToProvenance(x, GetPlugins(x.bound, Order[n])) \in J[n]
  PROVE  BindProvenance(r) \in Registry /\ BindProvenance(r) \in J[Len(Order)]
<1>. DEFINE N == Len(Order)
            Turn(n, x) == IF Order[n] = Provenance THEN x ELSE BoundToProvenance(x, GetPlugins(x.bound, Order[n]))
            step == [nx \in Nat \X Registry |-> IF nx[1] \in 1..N THEN Turn(nx[1], nx[2]) ELSE nx[2]]
<1>1. N \in Nat
  BY OrderType
<1>2. ASSUME NEW n \in 1..N, NEW x \in Registry
      PROVE  Turn(n, x) \in Registry
  <2>. DEFINE I == [m \in Nat |-> Registry]
              l == GetPlugins(x.bound, Order[n])
  <2>1. Order[n] \in Keys
    BY OrderType
  <2>2. l \in Seq(Names)
    BY <2>1, GetPluginsType
  <2>3. ASSUME NEW m \in 1..Len(l), NEW y \in Registry
        PROVE  BoundTo(y, l[Len(l) + 1 - m], Provenance) \in I[m]
    <3>1. Len(l) + 1 - m \in 1..Len(l)
      BY <2>2
    <3>2. l[Len(l) + 1 - m] \in Names /\ Provenance \in Keys
      BY <2>2, <3>1, KeysAssumption
    <3>3. BoundTo(y, l[Len(l) + 1 - m], Provenance) \in Registry
      <4>. HIDE DEF l
      <4>. QED
        BY <3>2, BoundToIs
    <3>. QED
      BY <3>3
  <2>4. x \in I[0]
    OBVIOUS
  <2>. HIDE DEF I, l
  <2>5. BoundToProvenance(x, l) \in Registry
    BY <2>2, <2>3, <2>4, ToProvenanceEnds
  <2>. QED
    BY <2>5 DEF l
<1>3. step \in [Nat \X Registry -> Registry]
  <2>. HIDE DEF Turn
  <2>1. ASSUME NEW n \in Nat, NEW x \in Registry
        PROVE  (IF n \in 1..N THEN Turn(n, x) ELSE x) \in Registry
    BY <1>2
  <2>. QED
    BY <2>1
<1>4. \A n \in 1..N : \A x \in Registry : step[<<n, x>>] = Turn(n, x)
  <2>. HIDE DEF Turn
  <2>. QED
    BY <1>1
<1>5. PICK g \in [0..N -> Registry] :
         g[0] = r /\ \A n \in 1..N : g[n] = step[<<n, g[n - 1]>>]
  <2>. HIDE DEF step, N
  <2>1. Turns(Registry, r, step, N)
    BY <1>1, <1>3, LoopTurns
  <2>. QED
    BY <2>1 DEF Turns
<1>. HIDE DEF step
<1>6. ASSUME NEW n \in 0..N
      PROVE  g[n] = IF n = 0 THEN r ELSE Turn(n, g[n - 1])
  <2>. HIDE DEF Turn, N
  <2>1. n # 0 => n \in 1..N /\ n - 1 \in 0..N
    BY <1>1
  <2>. QED
    BY <1>4, <1>5, <2>1
<1>7. OfNodes(r, g)
  <2>1. g = [n \in 0..N |-> g[n]]
    BY <1>5
  <2>2. g = [n \in 0..N |-> IF n = 0 THEN r ELSE Turn(n, g[n - 1])]
    <3>. HIDE DEF Turn
    <3>. QED
      BY <1>6, <2>1
  <2>. QED
    BY <2>2 DEF OfNodes
<1>. DEFINE f == CHOOSE h : OfNodes(r, h)
<1>8. OfNodes(r, f)
  BY <1>7
<1>9. BindProvenance(r) = f[N]
  BY DEF BindProvenance, OfNodes
<1>. HIDE DEF f
<1>10. \A n \in 0..N : f[n] = IF n = 0 THEN r ELSE Turn(n, f[n - 1])
  BY <1>8 DEF OfNodes
<1>11. /\ f[0] = r
       /\ \A n \in 1..N : f[n - 1] \in Registry => f[n] = step[<<n, f[n - 1]>>]
  <2>. HIDE DEF Turn, N
  <2>1. 0 \in 0..N /\ \A n \in 1..N : n \in 0..N /\ n # 0
    BY <1>1
  <2>. QED
    BY <1>4, <1>10, <2>1
<1>12. \A n \in 1..N : \A x \in Registry : x \in J[n - 1] => step[<<n, x>>] \in J[n]
  <2>1. ASSUME NEW n \in 1..N, NEW x \in Registry, x \in J[n - 1]
        PROVE  Turn(n, x) \in J[n]
    <3>1. CASE Order[n] = Provenance
      BY <2>1, <3>1
    <3>2. CASE Order[n] # Provenance
      <4>1. BoundToProvenance(x, GetPlugins(x.bound, Order[n])) \in J[n]
        BY <2>1, <3>2
      <4>. QED
        BY <3>2, <4>1
    <3>. QED
      BY <3>1, <3>2
  <2>. HIDE DEF Turn, N
  <2>. QED
    BY <1>4, <2>1
<1>. HIDE DEF N, Turn
<1>13. RunOf(Registry, N, r, step, f) /\ LeadsOn(Registry, N, r, step, J)
  BY <1>11, <1>12 DEF RunOf, LeadsOn
<1>14. f[N] \in Registry /\ f[N] \in J[N]
  BY <1>1, <1>3, <1>13, LoopEnds
<1>. QED
  BY <1>9, <1>14 DEF N

OfReadback(r, h) ==
  h = [n \in 0..Len(r.readback) |->
         IF n = 0 THEN r ELSE
           WithoutReadback(h[n - 1], r.readback[n])]

\* The plugins that were registered to read back.
LEMMA UnboundAllEnds ==
  ASSUME NEW r \in Registry,
         NEW J, r \in J[0],
         \A n \in 1..Len(r.readback) : \A x \in Registry : x \in J[n - 1] =>
           WithoutReadback(x, r.readback[n]) \in J[n]
  PROVE  UnboundAll(r) \in Registry /\ UnboundAll(r) \in J[Len(r.readback)]
<1>. DEFINE N == Len(r.readback)
            Turn(n, x) == WithoutReadback(x, r.readback[n])
            step == [nx \in Nat \X Registry |-> IF nx[1] \in 1..N THEN Turn(nx[1], nx[2]) ELSE nx[2]]
<1>1. N \in Nat
  BY DEF Registry
<1>2. ASSUME NEW n \in 1..N, NEW x \in Registry
      PROVE  Turn(n, x) \in Registry
  <2>1. r.readback[n] \in Names
    BY DEF Registry
  <2>. QED
    BY <2>1, UnregisteredIs DEF UnregisteredFrom, WithoutReadback
<1>3. step \in [Nat \X Registry -> Registry]
  <2>. HIDE DEF Turn
  <2>1. ASSUME NEW n \in Nat, NEW x \in Registry
        PROVE  (IF n \in 1..N THEN Turn(n, x) ELSE x) \in Registry
    BY <1>2
  <2>. QED
    BY <2>1
<1>4. \A n \in 1..N : \A x \in Registry : step[<<n, x>>] = Turn(n, x)
  <2>. HIDE DEF Turn
  <2>. QED
    BY <1>1
<1>5. PICK g \in [0..N -> Registry] :
         g[0] = r /\ \A n \in 1..N : g[n] = step[<<n, g[n - 1]>>]
  <2>. HIDE DEF step, N
  <2>1. Turns(Registry, r, step, N)
    BY <1>1, <1>3, LoopTurns
  <2>. QED
    BY <2>1 DEF Turns
<1>. HIDE DEF step
<1>6. ASSUME NEW n \in 0..N
      PROVE  g[n] = IF n = 0 THEN r ELSE Turn(n, g[n - 1])
  <2>. HIDE DEF Turn, N
  <2>1. n # 0 => n \in 1..N /\ n - 1 \in 0..N
    BY <1>1
  <2>. QED
    BY <1>4, <1>5, <2>1
<1>7. OfReadback(r, g)
  <2>1. g = [n \in 0..N |-> g[n]]
    BY <1>5
  <2>2. g = [n \in 0..N |-> IF n = 0 THEN r ELSE Turn(n, g[n - 1])]
    <3>. HIDE DEF Turn
    <3>. QED
      BY <1>6, <2>1
  <2>. QED
    BY <2>2 DEF OfReadback
<1>. DEFINE f == CHOOSE h : OfReadback(r, h)
<1>8. OfReadback(r, f)
  BY <1>7
<1>9. UnboundAll(r) = f[N]
  BY DEF UnboundAll, OfReadback
<1>. HIDE DEF f
<1>10. \A n \in 0..N : f[n] = IF n = 0 THEN r ELSE Turn(n, f[n - 1])
  BY <1>8 DEF OfReadback
<1>11. /\ f[0] = r
       /\ \A n \in 1..N : f[n - 1] \in Registry => f[n] = step[<<n, f[n - 1]>>]
  <2>. HIDE DEF Turn, N
  <2>1. 0 \in 0..N /\ \A n \in 1..N : n \in 0..N /\ n # 0
    BY <1>1
  <2>. QED
    BY <1>4, <1>10, <2>1
<1>12. \A n \in 1..N : \A x \in Registry : x \in J[n - 1] => step[<<n, x>>] \in J[n]
  <2>1. ASSUME NEW n \in 1..N, NEW x \in Registry, x \in J[n - 1]
        PROVE  Turn(n, x) \in J[n]
    BY <2>1
  <2>. HIDE DEF Turn, N
  <2>. QED
    BY <1>4, <2>1
<1>. HIDE DEF N, Turn
<1>13. RunOf(Registry, N, r, step, f) /\ LeadsOn(Registry, N, r, step, J)
  BY <1>11, <1>12 DEF RunOf, LeadsOn
<1>14. f[N] \in Registry /\ f[N] \in J[N]
  BY <1>1, <1>3, <1>13, LoopEnds
<1>. QED
  BY <1>9, <1>14 DEF N

-------------------------------------------------------------------------------
(***************************************************************************)
(* What a put() stores: Sorted, by its recursion.                          *)
(***************************************************************************)
Readable == [name : Names, index : Nat]

\* A sequence is one of the set that its elements are in.
LEMMA SeqOfIn ==
  ASSUME NEW A, NEW s \in Seq(A), NEW B, In(s) \subseteq B
  PROVE  s \in Seq(B) /\ \A i \in 1..Len(s) : s[i] \in B
<1>1. Len(s) \in Nat /\ s \in [1..Len(s) -> A]
  BY LenProperties
<1>2. \A i \in 1..Len(s) : s[i] \in B
  BY DEF In
<1>3. s \in [1..Len(s) -> B]
  BY <1>1, <1>2
<1>. QED
  BY <1>1, <1>2, <1>3, SeqDef

\* The plugins that contribute to a put() are among those bound.
LEMMA PutPluginsType ==
  ASSUME registry \in Registry, NEW k \in Keys
  PROVE  /\ PutPlugins(k) \in Seq(Names) /\ Len(PutPlugins(k)) \in Nat
         /\ In(PutPlugins(k)) \subseteq In(registry.bound[k])
<1>1. registry.bound[k] \in Seq(Names)
  BY DEF Registry
<1>2. PutPlugins(k) \in Seq(Names)
  BY <1>1, AmongType DEF PutPlugins
<1>3. In(PutPlugins(k)) \subseteq In(registry.bound[k])
  BY <1>1, InAmong DEF PutPlugins
<1>. QED
  BY <1>2, <1>3, LenProperties

\* Every readback plugin that is stored is one that a plugin of the node names.
LEMMA InfosType ==
  ASSUME registry \in Registry, NEW k \in Keys
  PROVE  /\ Infos(k) \in Seq(Readable) /\ Len(Infos(k)) \in Nat
         /\ \A j \in 1..Len(Infos(k)) :
              /\ Infos(k)[j] \in Readable
              /\ Infos(k)[j].name \in ReadbackNames
              /\ \E p \in Names : Infos(k)[j] = Readback[p]
<1>. DEFINE PP == PutPlugins(k)
            A == [name : Names \cup {None}, index : Nat]
            all == [i \in 1..Len(PP) |-> Readback[PP[i]]]
<1>1. Len(PP) \in Nat /\ \A i \in 1..Len(PP) : PP[i] \in Names
  BY PutPluginsType
<1>2. Readback \in [Names -> A]
  BY PluginsAssumption
<1>. HIDE DEF PP, A
<1>3. all \in [1..Len(PP) -> A]
  BY <1>1, <1>2
<1>4. all \in Seq(A) /\ Len(all) = Len(PP) /\ \A i \in 1..Len(PP) : all[i] = Readback[PP[i]]
  BY <1>1, <1>3, SeqDef, LenProperties
<1>5. Infos(k) = Among(all, Readable)
  BY DEF Infos, PP, Readable
<1>. HIDE DEF all
<1>6. Infos(k) \in Seq(A) /\ In(Infos(k)) = In(all) \cap Readable
  BY <1>4, <1>5, AmongType, InAmong
<1>7. Infos(k) \in Seq(Readable) /\ \A j \in 1..Len(Infos(k)) : Infos(k)[j] \in In(Infos(k))
  BY <1>6, SeqOfIn DEF In
<1>8. \A x \in In(all) : \E p \in Names : x = Readback[p]
  BY <1>1, <1>4 DEF In
<1>9. ASSUME NEW j \in 1..Len(Infos(k))
      PROVE  /\ Infos(k)[j] \in Readable
             /\ Infos(k)[j].name \in ReadbackNames
             /\ \E p \in Names : Infos(k)[j] = Readback[p]
  <2>1. Infos(k)[j] \in In(all) /\ Infos(k)[j] \in Readable
    BY <1>6, <1>7
  <2>2. PICK p \in Names : Infos(k)[j] = Readback[p]
    BY <1>8, <2>1
  <2>3. Infos(k)[j].name \in Names /\ None \notin Names
    BY <2>1, KeysAssumption DEF Readable
  <2>. QED
    BY <2>1, <2>2, <2>3 DEF ReadbackNames
<1>. QED
  BY <1>7, <1>9, LenProperties

\* The infos of a key that are applied at a place.
At(k, i) == {j \in 1..Len(Infos(k)) : Infos(k)[j].index = i}

SortTurn(k, n, x) ==
  IF At(k, Len(PutPlugins(k)) - n) = {} THEN x
  ELSE Append(x, Infos(k)[CHOOSE j \in At(k, Len(PutPlugins(k)) - n) : TRUE].name)

SortedBy(k, h) ==
  h = [n \in 0..Len(PutPlugins(k)) |-> IF n = 0 THEN << >> ELSE SortTurn(k, n, h[n - 1])]

\* A turn adds a readback plugin or nothing.
LEMMA SortTurnType ==
  ASSUME registry \in Registry, NEW k \in Keys, NEW n \in Nat, NEW x \in Seq(ReadbackNames)
  PROVE  SortTurn(k, n, x) \in Seq(ReadbackNames)
<1>. DEFINE i == Len(PutPlugins(k)) - n
            j == CHOOSE jj \in At(k, i) : TRUE
<1>1. CASE At(k, i) = {}
  BY <1>1 DEF SortTurn
<1>2. CASE At(k, i) # {}
  <2>1. j \in At(k, i)
    BY <1>2
  <2>2. j \in 1..Len(Infos(k))
    BY <2>1 DEF At
  <2>3. Infos(k)[j].name \in ReadbackNames
    BY <2>2, InfosType
  <2>4. SortTurn(k, n, x) = Append(x, Infos(k)[j].name)
    BY <1>2 DEF SortTurn
  <2>. HIDE DEF j
  <2>. QED
    BY <2>3, <2>4, AppendProperties
<1>. QED
  BY <1>1, <1>2

\* Sorted is where this loop ends.
LEMMA SortedEnds ==
  ASSUME registry \in Registry, NEW k \in Keys, NEW J, << >> \in J[0],
         \A n \in 1..Len(PutPlugins(k)) : \A x \in Seq(ReadbackNames) : x \in J[n - 1] =>
           SortTurn(k, n, x) \in J[n]
  PROVE  Sorted(k) \in Seq(ReadbackNames) /\ Sorted(k) \in J[Len(PutPlugins(k))]
<1>. DEFINE N == Len(PutPlugins(k))
            S == Seq(ReadbackNames)
            Turn(n, x) == SortTurn(k, n, x)
            step == [nx \in Nat \X S |-> IF nx[1] \in 1..N THEN Turn(nx[1], nx[2]) ELSE nx[2]]
<1>1. N \in Nat /\ << >> \in S
  BY PutPluginsType
<1>2. ASSUME NEW n \in 1..N, NEW x \in S
      PROVE  Turn(n, x) \in S
  <2>1. n \in Nat
    BY <1>1
  <2>. QED
    BY <2>1, SortTurnType
<1>. HIDE DEF N, S
<1>3. step \in [Nat \X S -> S]
  <2>. HIDE DEF Turn
  <2>1. ASSUME NEW n \in Nat, NEW x \in S
        PROVE  (IF n \in 1..N THEN Turn(n, x) ELSE x) \in S
    BY <1>2
  <2>. QED
    BY <2>1
<1>4. \A n \in 1..N : \A x \in S : step[<<n, x>>] = Turn(n, x)
  <2>. HIDE DEF Turn
  <2>. QED
    BY <1>1
<1>5. PICK g \in [0..N -> S] :
         g[0] = << >> /\ \A n \in 1..N : g[n] = step[<<n, g[n - 1]>>]
  <2>. HIDE DEF step
  <2>1. Turns(S, << >>, step, N)
    BY <1>1, <1>3, LoopTurns
  <2>. QED
    BY <2>1 DEF Turns
<1>. HIDE DEF step
<1>6. ASSUME NEW n \in 0..N
      PROVE  g[n] = IF n = 0 THEN << >> ELSE Turn(n, g[n - 1])
  <2>. HIDE DEF Turn
  <2>1. n # 0 => n \in 1..N /\ n - 1 \in 0..N
    BY <1>1
  <2>. QED
    BY <1>4, <1>5, <2>1
<1>7. SortedBy(k, g)
  <2>1. g = [n \in 0..N |-> g[n]]
    BY <1>5
  <2>2. g = [n \in 0..N |-> IF n = 0 THEN << >> ELSE Turn(n, g[n - 1])]
    <3>. HIDE DEF Turn
    <3>. QED
      BY <1>6, <2>1
  <2>. QED
    BY <2>2 DEF SortedBy, N
<1>. DEFINE f == CHOOSE h : SortedBy(k, h)
<1>8. SortedBy(k, f)
  BY <1>7
<1>9. Sorted(k) = f[N]
  BY DEF Sorted, SortedBy, SortTurn, At, N
<1>. HIDE DEF f
<1>10. \A n \in 0..N : f[n] = IF n = 0 THEN << >> ELSE Turn(n, f[n - 1])
  BY <1>8 DEF SortedBy, N
<1>11. /\ f[0] = << >>
       /\ \A n \in 1..N : f[n - 1] \in S => f[n] = step[<<n, f[n - 1]>>]
  <2>. HIDE DEF Turn
  <2>1. 0 \in 0..N /\ \A n \in 1..N : n \in 0..N /\ n # 0
    BY <1>1
  <2>. QED
    BY <1>4, <1>10, <2>1
<1>12. \A n \in 1..N : \A x \in S : x \in J[n - 1] => step[<<n, x>>] \in J[n]
  <2>1. ASSUME NEW n \in 1..N, NEW x \in S, x \in J[n - 1]
        PROVE  Turn(n, x) \in J[n]
    BY <2>1 DEF N, S
  <2>. HIDE DEF Turn
  <2>. QED
    BY <1>4, <2>1
<1>. HIDE DEF Turn
<1>13. RunOf(S, N, << >>, step, f) /\ LeadsOn(S, N, << >>, step, J)
  BY <1>11, <1>12 DEF RunOf, LeadsOn
<1>14. f[N] \in S /\ f[N] \in J[N]
  BY <1>1, <1>3, <1>13, LoopEnds
<1>. QED
  BY <1>9, <1>14 DEF N, S

\* What a put() stores of a node are names of readback plugins.
LEMMA EntryType ==
  ASSUME registry \in Registry, NEW k \in Keys
  PROVE  /\ Entry(k) \in Entries /\ Entry(k).node = k
         /\ In(Entry(k).plugins) \subseteq ReadbackNames
<1>. DEFINE J == [n \in Nat |-> Seq(ReadbackNames)]
<1>1. << >> \in J[0]
  OBVIOUS
<1>2. ASSUME NEW n \in 1..Len(PutPlugins(k)), NEW x \in Seq(ReadbackNames)
      PROVE  SortTurn(k, n, x) \in J[n]
  <2>1. n \in Nat /\ SortTurn(k, n, x) \in Seq(ReadbackNames)
    BY SortTurnType, PutPluginsType
  <2>. QED
    BY <2>1
<1>. HIDE DEF J
<1>3. Sorted(k) \in Seq(ReadbackNames)
  BY <1>1, <1>2, SortedEnds
<1>4. ReadbackNames \subseteq Names
  BY PluginsAssumption DEF ReadbackNames
<1>5. In(Sorted(k)) \subseteq ReadbackNames /\ Sorted(k) \in Seq(Names)
  BY <1>3, <1>4, InType, SeqOfIn
<1>. QED
  BY <1>5 DEF Entry, Entries


-------------------------------------------------------------------------------
(***************************************************************************)
(* A set of registries that no single operation leaves, no get() leaves.   *)
(***************************************************************************)
KeptByBinding(I) ==
  \A x \in Registry, k \in Keys, p \in ReadbackNames :
    x \in I => BindReadbackPlugin(x, k, p) \in I

KeptByProvenance(I) ==
  \A x \in Registry, k \in Keys : \A p \in In(x.bound[k]) :
    x \in I => BoundTo(x, p, Provenance) \in I

KeptByUnregistering(I) ==
  \A x \in Registry, p \in Names : x \in I => Unregistered(x, p) \in I

ReadbackEntries == {e \in Entries : In(e.plugins) \subseteq ReadbackNames}

\* A set of registries that no binding leaves, the loop over an entry does not leave.
LEMMA EntryKeeps ==
  ASSUME NEW I, KeptByBinding(I), NEW r \in Registry, r \in I, NEW e \in ReadbackEntries
  PROVE  BindEntry(r, e) \in Registry /\ BindEntry(r, e) \in I
<1>. DEFINE J == [n \in Nat |-> I]
            N == Len(e.plugins)
<1>1. /\ e \in Entries /\ e.node \in Keys /\ N \in Nat
      /\ \A m \in 1..N : e.plugins[m] \in ReadbackNames
  BY DEF ReadbackEntries, Entries, In
<1>2. r \in J[0]
  OBVIOUS
<1>3. ASSUME NEW n \in 1..N, NEW x \in Registry, x \in J[n - 1]
      PROVE  BindReadbackPlugin(x, e.node, e.plugins[N + 1 - n]) \in J[n]
  <2>1. x \in I /\ n \in Nat /\ N + 1 - n \in 1..N
    <3>1. n - 1 \in Nat /\ n \in Nat /\ N + 1 - n \in 1..N
      BY <1>1
    <3>. HIDE DEF N
    <3>. QED
      BY <1>3, <3>1
  <2>2. BindReadbackPlugin(x, e.node, e.plugins[N + 1 - n]) \in I
    <3>. HIDE DEF N
    <3>. QED
      BY <1>1, <2>1 DEF KeptByBinding
  <2>. QED
    BY <2>1, <2>2
<1>. HIDE DEF J
<1>4. BindEntry(r, e) \in Registry /\ BindEntry(r, e) \in J[N]
  BY <1>1, <1>2, <1>3, BindEntryEnds
<1>. QED
  BY <1>1, <1>4 DEF J

\* Nor does the loop over all entries.
LEMMA EntriesKeep ==
  ASSUME NEW I, KeptByBinding(I), NEW r \in Registry, r \in I, NEW s \in Seq(ReadbackEntries)
  PROVE  BindEntries(r, s) \in Registry /\ BindEntries(r, s) \in I
<1>. DEFINE J == [n \in Nat |-> I]
            N == Len(s)
<1>1. N \in Nat /\ s \in Seq(Entries) /\ \A n \in 1..N : s[n] \in ReadbackEntries
  <2>1. In(s) \subseteq ReadbackEntries /\ ReadbackEntries \subseteq Entries
    BY InType DEF ReadbackEntries
  <2>2. s \in Seq(Entries)
    BY <2>1, SeqOfIn
  <2>. QED
    BY <2>2
<1>2. r \in J[0]
  OBVIOUS
<1>3. ASSUME NEW n \in 1..N, NEW x \in Registry, x \in J[n - 1]
      PROVE  BindEntry(x, s[n]) \in J[n]
  <2>1. n - 1 \in Nat /\ n \in Nat
    BY <1>1
  <2>2. x \in I
    BY <1>3, <2>1
  <2>3. BindEntry(x, s[n]) \in I
    BY <1>1, <2>2, EntryKeeps
  <2>. QED
    BY <2>1, <2>3
<1>. HIDE DEF J
<1>4. BindEntries(r, s) \in Registry /\ BindEntries(r, s) \in J[N]
  BY <1>1, <1>2, <1>3, BindEntriesEnd
<1>. QED
  BY <1>1, <1>4 DEF J

\* A plugin more that is bound to the provenance nodes.
LEMMA ProvenanceBound ==
  ASSUME NEW x \in Registry, NEW p \in Names
  PROVE  /\ BoundTo(x, p, Provenance) \in Registry
         /\ BoundTo(x, p, Provenance).store = x.store
         /\ BoundTo(x, p, Provenance).readback = x.readback
         /\ BoundTo(x, p, Provenance).ok = x.ok
         /\ BoundTo(x, p, Provenance).bound[Provenance] =
              (IF p \in In(x.bound[Provenance]) THEN x.bound[Provenance]
               ELSE Append(x.bound[Provenance], p))
         /\ \A j \in Keys \ {Provenance} : BoundTo(x, p, Provenance).bound[j] = x.bound[j]
         /\ In(BoundTo(x, p, Provenance).bound[Provenance]) = In(x.bound[Provenance]) \cup {p}
<1>1. Provenance \in Keys
  BY KeysAssumption
<1>. DEFINE y == BoundTo(x, p, Provenance)
<1>2. /\ y \in Registry /\ y.store = x.store /\ y.readback = x.readback /\ y.ok = x.ok
      /\ y.bound[Provenance] = (IF p \in In(x.bound[Provenance]) THEN x.bound[Provenance]
                                ELSE Append(x.bound[Provenance], p))
      /\ \A j \in Keys \ {Provenance} : y.bound[j] = x.bound[j]
      /\ In(y.bound[Provenance]) = In(x.bound[Provenance]) \cup {p}
  BY <1>1, BoundToIs
<1>. QED
  BY <1>2

\* Whatever is bound when the loop over a node starts is bound at every turn.
LEMMA ToProvenanceKeeps ==
  ASSUME NEW I, KeptByProvenance(I), NEW r \in Registry, r \in I, NEW k \in Keys
  PROVE  LET x == BoundToProvenance(r, GetPlugins(r.bound, k))
         IN  x \in Registry /\ x \in I
<1>. DEFINE l == GetPlugins(r.bound, k)
            N == Len(l)
            More(y) == \A j \in Keys : In(r.bound[j]) \subseteq In(y.bound[j])
            I2 == {y \in Registry : y \in I /\ More(y)}
            J == [n \in Nat |-> I2]
<1>1. /\ l \in Seq(Names) /\ N \in Nat /\ Provenance \in Keys
      /\ \A m \in 1..N : l[m] \in Names /\ l[m] \in In(r.bound[k])
  <2>1. l \in Seq(Names) /\ In(l) \subseteq In(r.bound[k])
    BY GetPluginsType
  <2>. HIDE DEF l
  <2>2. \A m \in 1..N : l[m] \in Names /\ l[m] \in In(l)
    BY <2>1 DEF In
  <2>. QED
    BY <2>1, <2>2, KeysAssumption
<1>. HIDE DEF l
<1>2. r \in J[0]
  OBVIOUS
<1>3. ASSUME NEW n \in 1..N, NEW x \in Registry, x \in J[n - 1]
      PROVE  BoundTo(x, l[N + 1 - n], Provenance) \in J[n]
  <2>1. n - 1 \in Nat /\ n \in Nat /\ N + 1 - n \in 1..N
    BY <1>1
  <2>. DEFINE p == l[N + 1 - n]
              y == BoundTo(x, p, Provenance)
  <2>2. p \in Names /\ p \in In(r.bound[k])
    BY <1>1, <2>1
  <2>3. x \in I2
    BY <1>3, <2>1
  <2>4. x \in I /\ More(x)
    BY <2>3
  <2>. HIDE DEF p
  <2>5. p \in In(x.bound[k])
    BY <2>2, <2>4
  <2>6. y \in I
    BY <2>4, <2>5 DEF KeptByProvenance
  <2>7. /\ y \in Registry
        /\ \A j \in Keys \ {Provenance} : y.bound[j] = x.bound[j]
        /\ In(y.bound[Provenance]) = In(x.bound[Provenance]) \cup {p}
    <3>1. p \in Names /\ Provenance \in Keys /\ x \in Registry
      BY <1>1, <1>3, <2>2
    <3>. HIDE DEF More, I2, J
    <3>. QED
      BY <3>1, ProvenanceBound
  <2>. HIDE DEF y
  <2>8. More(y)
    BY <1>1, <2>4, <2>7
  <2>9. y \in I2
    BY <2>6, <2>7, <2>8
  <2>. QED
    BY <2>1, <2>9 DEF y, p
<1>. HIDE DEF J
<1>4. BoundToProvenance(r, l) \in Registry /\ BoundToProvenance(r, l) \in J[N]
  BY <1>1, <1>2, <1>3, ToProvenanceEnds
<1>. QED
  BY <1>1, <1>4 DEF J, l

\* What bindings to the provenance do not leave, the loop over the keys does not.
LEMMA ProvenanceKeeps ==
  ASSUME NEW I, KeptByProvenance(I), NEW r \in Registry, r \in I
  PROVE  BindProvenance(r) \in Registry /\ BindProvenance(r) \in I
<1>. DEFINE J == [n \in Nat |-> I]
            N == Len(Order)
<1>1. N \in Nat /\ r \in J[0] /\ \A n \in 1..N : Order[n] \in Keys
  BY OrderType
<1>2. ASSUME NEW n \in 1..N, NEW x \in Registry, x \in J[n - 1]
      PROVE  /\ Order[n] = Provenance => x \in J[n]
             /\ Order[n] # Provenance =>
                  BoundToProvenance(x, GetPlugins(x.bound, Order[n])) \in J[n]
  <2>1. n - 1 \in Nat /\ n \in Nat
    BY <1>1
  <2>2. x \in I
    BY <1>2, <2>1
  <2>3. BoundToProvenance(x, GetPlugins(x.bound, Order[n])) \in I
    BY <1>1, <2>2, ToProvenanceKeeps
  <2>. QED
    BY <2>1, <2>2, <2>3
<1>. HIDE DEF J
<1>3. BindProvenance(r) \in Registry /\ BindProvenance(r) \in J[N]
  BY <1>1, <1>2, BindProvenanceEnds
<1>. QED
  BY <1>1, <1>3 DEF J

\* What no unregistering leaves, unbind_readback_plugins() does not.
LEMMA UnbindingKeeps ==
  ASSUME NEW I, KeptByUnregistering(I), NEW r \in Registry, r \in I
  PROVE  UnboundAll(r) \in Registry /\ UnboundAll(r) \in I
<1>. DEFINE J == [n \in Nat |-> I]
            N == Len(r.readback)
<1>1. N \in Nat /\ r \in J[0] /\ \A n \in 1..N : r.readback[n] \in Names
  BY DEF Registry
<1>2. ASSUME NEW n \in 1..N, NEW x \in Registry, x \in J[n - 1]
      PROVE  WithoutReadback(x, r.readback[n]) \in J[n]
  <2>1. n - 1 \in Nat /\ n \in Nat
    BY <1>1
  <2>2. x \in I
    BY <1>2, <2>1
  <2>3. WithoutReadback(x, r.readback[n]) \in I
    BY <1>1, <2>2 DEF KeptByUnregistering, WithoutReadback
  <2>. QED
    BY <2>1, <2>3
<1>. HIDE DEF J
<1>3. UnboundAll(r) \in Registry /\ UnboundAll(r) \in J[N]
  BY <1>1, <1>2, UnboundAllEnds
<1>. QED
  BY <1>1, <1>3 DEF J


-------------------------------------------------------------------------------
(***************************************************************************)
(* Types.                                                                  *)
(***************************************************************************)
Ops ==
  [what : {"none", "get", "put"}, begun : SUBSET Names,
   readback : {"no", "bound", "failed", "unbound"}]

Types ==
  /\ registry \in Registry /\ registry.ok
  /\ stored \in Seq(ReadbackEntries)
  /\ op \in Ops
  /\ mine \subseteq Names /\ wanted \in [Keys -> Seq(Names)]

\* The registry starts with its types.
LEMMA InitTypes == Init => Types
<1>. SUFFICES ASSUME Init
              PROVE  Types
  OBVIOUS
<1>1. << >> \in Seq(Names) /\ << >> \in Seq(ReadbackEntries)
  OBVIOUS
<1>2. Unbound \in [Keys -> Seq(Names)]
  BY <1>1 DEF Unbound
<1>3. registry \in Registry /\ registry.ok
  BY <1>1, <1>2 DEF Init, Registry, States
<1>4. op \in Ops
  BY DEF Init, NoOp, Ops
<1>. QED
  BY <1>1, <1>2, <1>3, <1>4 DEF Init, Types

\* The keys a put() stores: the first n of those that have plugins.
LEMMA StoredKeys ==
  ASSUME registry \in Registry
  PROVE  LET keys == Among(Order, {k \in Keys : PutPlugins(k) # << >>})
         IN  /\ keys \in Seq(Keys) /\ Len(keys) \in Nat /\ Once(keys)
             /\ \A i \in 1..Len(keys) : keys[i] \in Keys
<1>1. Order \in Seq(Keys) /\ Once(Order)
  <2>1. DOMAIN Order = 1..Len(Order)
    BY KeysAssumption
  <2>. QED
    BY <2>1, KeysAssumption DEF Once, IsInjective
<1>. DEFINE keys == Among(Order, {k \in Keys : PutPlugins(k) # << >>})
<1>2. keys \in Seq(Keys) /\ Once(keys)
  BY <1>1, AmongType, AmongOnce
<1>. HIDE DEF keys
<1>3. Len(keys) \in Nat /\ \A i \in 1..Len(keys) : keys[i] \in Keys
  BY <1>2
<1>. QED
  BY <1>2, <1>3 DEF keys

\* The entries before the first that is not valid are stored.
LEMMA EndPutStores ==
  ASSUME registry \in Registry, EndPut
  PROVE  /\ stored' \in Seq(ReadbackEntries)
         /\ \A i, j \in 1..Len(stored') : stored'[i].node = stored'[j].node => i = j
         /\ \A i \in 1..Len(stored') : /\ stored'[i] = Entry(stored'[i].node)
                                       /\ ValidInfos(stored'[i].node)
         /\ \A k \in Keys :
              IF \E i \in 1..Len(stored') : stored'[i].node = k
              THEN wrote'[k] = Range(Infos(k)) ELSE wrote'[k] = {}
<1>. DEFINE keys == Among(Order, {k \in Keys : PutPlugins(k) # << >>})
            bad == {i \in 1..Len(keys) : ~ValidInfos(keys[i])}
            n == IF bad = {} THEN Len(keys) ELSE Min(bad) - 1
<1>1. /\ Len(keys) \in Nat /\ Once(keys)
      /\ \A i \in 1..Len(keys) : keys[i] \in Keys
  BY StoredKeys
<1>. HIDE DEF keys
<1>2. /\ n \in 0..Len(keys)
      /\ \A i \in 1..n : i \in 1..Len(keys) /\ ValidInfos(keys[i])
  <2>1. CASE bad = {}
    BY <1>1, <2>1
  <2>2. CASE bad # {}
    <3>1. bad \in SUBSET Nat
      BY <1>1
    <3>2. \E m \in bad : \A i \in bad : m <= i
      <4>. HIDE DEF bad
      <4>. QED
        BY <2>2, <3>1, LeastNatural
    <3>3. Min(bad) \in bad /\ \A i \in bad : Min(bad) <= i
      <4>. HIDE DEF bad
      <4>. QED
        BY <3>2 DEF Min
    <3>. DEFINE m == Min(bad)
    <3>. HIDE DEF m
    <3>4. m \in 1..Len(keys) /\ n = m - 1 /\ \A i \in bad : m <= i
      BY <2>2, <3>3 DEF m
    <3>5. n \in 0..Len(keys)
      <4>. HIDE DEF n
      <4>. QED
        BY <1>1, <3>4
    <3>6. ASSUME NEW i \in 1..n
          PROVE  i \in 1..Len(keys) /\ ValidInfos(keys[i])
      <4>1. i \in 1..Len(keys) /\ ~(m <= i)
        <5>. HIDE DEF n
        <5>. QED
          BY <1>1, <3>4
      <4>2. i \notin bad
        BY <3>4, <4>1
      <4>. QED
        BY <4>1, <4>2
    <3>. QED
      BY <3>5, <3>6
  <2>. QED
    BY <2>1, <2>2
<1>3. /\ stored' = [i \in 1..n |-> Entry(keys[i])]
      /\ wrote' = [k \in Keys |-> IF \E i \in 1..n : keys[i] = k THEN Range(Infos(k)) ELSE {}]
  BY DEF EndPut, keys
<1>. HIDE DEF n, bad
<1>4. \A i \in 1..n : keys[i] \in Keys
  BY <1>1, <1>2
<1>5. \A i \in 1..n : Entry(keys[i]) \in ReadbackEntries /\ Entry(keys[i]).node = keys[i]
  BY <1>4, EntryType DEF ReadbackEntries
<1>6. stored' \in Seq(ReadbackEntries) /\ Len(stored') = n /\ \A i \in 1..n : stored'[i] = Entry(keys[i])
  <2>1. n \in Nat
    BY <1>1, <1>2
  <2>2. stored' \in [1..n -> ReadbackEntries]
    BY <1>3, <1>5
  <2>. QED
    BY <1>3, <2>1, <2>2, SeqDef, LenProperties
<1>7. \A i \in 1..n : stored'[i].node = keys[i]
  BY <1>5, <1>6
<1>8. ASSUME NEW i \in 1..n, NEW j \in 1..n, stored'[i].node = stored'[j].node
      PROVE  i = j
  <2>1. keys[i] = keys[j]
    BY <1>7, <1>8
  <2>. QED
    BY <1>1, <1>2, <2>1 DEF Once
<1>9. ASSUME NEW k \in Keys
      PROVE  IF \E i \in 1..n : stored'[i].node = k
             THEN wrote'[k] = Range(Infos(k)) ELSE wrote'[k] = {}
  <2>1. (\E i \in 1..n : stored'[i].node = k) <=> (\E i \in 1..n : keys[i] = k)
    BY <1>7
  <2>. QED
    BY <1>3, <2>1
<1>10. \A i \in 1..n : stored'[i] = Entry(stored'[i].node) /\ ValidInfos(stored'[i].node)
  BY <1>2, <1>6, <1>7
<1>. QED
  BY <1>6, <1>8, <1>9, <1>10

\* Unbound and bound again, the user's plugins are sequences of names.
LEMMA ObjectsPlugins ==
  ASSUME registry \in Registry
  PROVE  OfObject(registry.bound) \in SUBSET Names
<1>. DEFINE keys == Among(Order, {k \in Keys : registry.bound[k] # << >>})
<1>1. keys \in Seq(Keys) /\ \A k \in Keys : registry.bound[k] \in Seq(Names)
  BY OrderType, AmongType DEF Registry
<1>2. OfObject(registry.bound) = IF keys = << >> THEN {} ELSE Range(registry.bound[Head(keys)])
  BY DEF OfObject
<1>. HIDE DEF keys
<1>3. CASE keys = << >>
  BY <1>2, <1>3
<1>4. CASE keys # << >>
  <2>1. Head(keys) \in Keys
    BY <1>1, <1>4, HeadTailProperties
  <2>2. Range(registry.bound[Head(keys)]) \subseteq Names
    BY <1>1, <2>1, InType
  <2>. QED
    BY <1>2, <1>4, <2>2
<1>. QED
  BY <1>3, <1>4

\* Where the two loops of bind_readback_plugins() leave the registry.
LEMMA ReadbackBound ==
  ASSUME Types, BindReadback, NEW I, KeptByBinding(I), KeptByProvenance(I), registry \in I
  PROVE  \E x \in Registry :
           /\ x \in I
           /\ registry' \in Registry /\ registry'.store = x.store /\ registry'.bound = x.bound
           /\ registry'.readback = x.readback /\ registry'.ok = TRUE
<1>. DEFINE r == BindEntries(registry, stored)
            x == IF r.ok THEN BindProvenance(r) ELSE r
<1>1. r \in Registry /\ r \in I
  BY EntriesKeep DEF Types
<1>2. registry' = [x EXCEPT !.ok = TRUE]
  BY DEF BindReadback
<1>. HIDE DEF r
<1>3. BindProvenance(r) \in Registry /\ BindProvenance(r) \in I
  BY <1>1, ProvenanceKeeps
<1>4. x \in Registry /\ x \in I
  BY <1>1, <1>3
<1>. HIDE DEF x
<1>5. /\ registry' \in Registry /\ registry'.store = x.store /\ registry'.bound = x.bound
      /\ registry'.readback = x.readback /\ registry'.ok = TRUE
  BY <1>2, <1>4, OkPut
<1>. QED
  BY <1>4, <1>5

\* Where unbind_readback_plugins() leaves it.
LEMMA ReadbackUnbound ==
  ASSUME Types, UnbindReadback, NEW I, KeptByUnregistering(I), registry \in I
  PROVE  \E x \in Registry :
           /\ x \in I
           /\ registry' \in Registry /\ registry'.store = x.store /\ registry'.bound = x.bound
           /\ registry'.readback = << >> /\ registry'.ok = x.ok
<1>. DEFINE x == UnboundAll(registry)
<1>1. x \in Registry /\ x \in I
  BY UnbindingKeeps DEF Types
<1>2. registry' = [x EXCEPT !.readback = << >>]
  BY DEF UnbindReadback
<1>. HIDE DEF x
<1>3. << >> \in Seq(Names)
  OBVIOUS
<1>4. /\ registry' \in Registry /\ registry'.store = x.store /\ registry'.bound = x.bound
      /\ registry'.readback = << >> /\ registry'.ok = x.ok
  BY <1>1, <1>2, <1>3 DEF Registry
<1>. QED
  BY <1>1, <1>4

\* Readback plugins, and what is bound, are plugins.
LEMMA ReadbackAreNames == ReadbackNames \subseteq Names
BY PluginsAssumption DEF ReadbackNames

\* Plugins are bound, in a sequence.
LEMMA BoundAreNames ==
  ASSUME NEW x \in Registry, NEW k \in Keys
  PROVE  /\ x.bound[k] \in Seq(Names) /\ In(x.bound[k]) \subseteq Names
         /\ \A p : Contains(x.bound[k], p) <=> p \in In(x.bound[k])
<1>1. x.bound[k] \in Seq(Names)
  BY DEF Registry
<1>. QED
  BY <1>1, InType

\* To bind leaves the types of a registry.
LEMMA EverythingBinds == KeptByBinding(Registry) /\ KeptByProvenance(Registry)
<1>1. ASSUME NEW x \in Registry, NEW k \in Keys, NEW p \in ReadbackNames
      PROVE  BindReadbackPlugin(x, k, p) \in Registry
  <2>1. p \in Names
    BY ReadbackAreNames
  <2>. QED
    BY <2>1, BindReadbackPluginIs
<1>2. ASSUME NEW x \in Registry, NEW k \in Keys, NEW p \in In(x.bound[k])
      PROVE  BoundTo(x, p, Provenance) \in Registry
  <2>1. p \in Names
    BY BoundAreNames
  <2>. QED
    BY <2>1, ProvenanceBound
<1>. QED
  BY <1>1, <1>2 DEF KeptByBinding, KeptByProvenance

\* To unregister leaves them too.
LEMMA EverythingUnregisters == KeptByUnregistering(Registry)
<1>1. ASSUME NEW x \in Registry, NEW p \in Names
      PROVE  Unregistered(x, p) \in Registry
  BY UnregisteredIs DEF UnregisteredFrom
<1>. QED
  BY <1>1 DEF KeptByUnregistering

-------------------------------------------------------------------------------
\* An unbinding that does not find its node does nothing.
LEMMA UnbindReaches ==
  ASSUME NEW p, NEW k, NEW spelling, Unbind(p, k, spelling)
  PROVE  Unbind(p, k, "key") \/ UNCHANGED vars
<1>1. CASE spelling = "key"
  BY <1>1
<1>2. CASE spelling # "key"
  BY <1>2 DEF Unbind, vars
<1>. QED
  BY <1>1, <1>2

\* A step of the user, of a put() or of a get() leaves the types as they are.
LEMMA UserTypes ==
  ASSUME Types, NEW p \in Names, NEW k \in Fields \cup {All},
         Register(p) \/ Unregister(p) \/ Bind(p, k) \/ Unbind(p, k, "key")
  PROVE  Types'
<1>1. k \in Keys
  BY KeysAssumption DEF Fields
<1>2. /\ registry \in Registry /\ registry.ok /\ wanted \in [Keys -> Seq(Names)]
      /\ mine \subseteq Names
      /\ registry.bound \in [Keys -> Seq(Names)] /\ registry.bound[k] \in Seq(Names)
      /\ wanted[k] \in Seq(Names)
  BY <1>1 DEF Types, Registry
<1>3. CASE Register(p)
  <2>1. Registered(registry, p) \in Registry
    BY <1>2, RegisteredIs
  <2>2. registry' \in Registry /\ registry'.ok = TRUE
    <3>. DEFINE x == Registered(registry, p)
    <3>1. registry' = [x EXCEPT !.ok = TRUE]
      BY <1>3 DEF Register
    <3>. HIDE DEF x
    <3>. QED
      BY <2>1, <3>1, OkPut DEF x
  <2>. QED
    BY <1>2, <1>3, <2>2 DEF Types, Register
<1>4. CASE Unregister(p)
  <2>1. Unregistered(registry, p) \in Registry /\ Unregistered(registry, p).ok = registry.ok
    BY <1>2, UnregisteredIs DEF UnregisteredFrom
  <2>2. \A j \in Keys : Without(wanted[j], p) \in Seq(Names)
    BY <1>2, WithoutIs
  <2>. QED
    BY <1>2, <1>4, <2>1, <2>2 DEF Types, Unregister
<1>5. CASE Bind(p, k)
  <2>1. BoundTo(registry, p, k) \in Registry /\ BoundTo(registry, p, k).ok = registry.ok
    BY <1>1, <1>2, BoundToIs
  <2>2. Append(wanted[k], p) \in Seq(Names)
    BY <1>2, AppendedType
  <2>3. wanted' \in [Keys -> Seq(Names)]
    BY <1>2, <1>5, <2>2 DEF Bind
  <2>. QED
    BY <1>2, <1>5, <2>1, <2>3 DEF Types, Bind
<1>6. CASE Unbind(p, k, "key")
  <2>1. Without(registry.bound[k], p) \in Seq(Names) /\ Without(wanted[k], p) \in Seq(Names)
    BY <1>2, WithoutIs
  <2>2. wanted' \in [Keys -> Seq(Names)]
    BY <1>2, <1>6, <2>1 DEF Unbind
  <2>3. registry' \in Registry /\ registry'.ok = registry.ok
    <3>. DEFINE bd == [registry.bound EXCEPT ![k] = Without(registry.bound[k], p)]
    <3>1. registry' = [registry EXCEPT !.bound = bd]
      BY <1>6 DEF Unbind
    <3>2. bd \in [Keys -> Seq(Names)]
      BY <1>2, <2>1
    <3>. HIDE DEF bd
    <3>. QED
      BY <1>2, <3>1, <3>2, BoundPut
  <2>. QED
    BY <1>2, <1>6, <2>2, <2>3 DEF Types, Unbind
<1>. QED
  BY <1>3, <1>4, <1>5, <1>6

\* A node takes over what is bound to all nodes.
LEMMA TakenOver ==
  ASSUME registry \in Registry, NEW k \in Keys,
         registry' = [registry EXCEPT !.bound[k] = Resolved(registry.bound, k)]
  PROVE  /\ registry' \in Registry /\ registry'.store = registry.store
         /\ registry'.readback = registry.readback /\ registry'.ok = registry.ok
         /\ \A j \in Keys \ {k} : registry'.bound[j] = registry.bound[j]
         /\ registry'.bound[k] = (IF registry.bound[k] # << >> THEN registry.bound[k]
                                  ELSE registry.bound[All])
<1>. DEFINE b == IF registry.bound[k] # << >> THEN registry.bound[k] ELSE registry.bound[All]
            bd == [registry.bound EXCEPT ![k] = b]
<1>1. All \in Keys /\ registry.bound \in [Keys -> Seq(Names)]
  BY KeysAssumption DEF Registry
<1>2. registry' = [registry EXCEPT !.bound = bd]
  BY DEF Resolved
<1>3. b \in Seq(Names)
  BY <1>1
<1>. HIDE DEF b
<1>4. bd \in [Keys -> Seq(Names)] /\ bd[k] = b /\ \A j \in Keys \ {k} : bd[j] = registry.bound[j]
  BY <1>1, <1>3
<1>. HIDE DEF bd
<1>5. /\ registry' \in Registry /\ registry'.store = registry.store /\ registry'.bound = bd
      /\ registry'.readback = registry.readback /\ registry'.ok = registry.ok
  BY <1>2, <1>4 DEF Registry
<1>. QED
  BY <1>4, <1>5 DEF b

\* Nor do the steps of a put() or a get().
LEMMA OperationTypes ==
  ASSUME Types,
         \/ \E what \in {"get", "put"} : Begin(what)
         \/ \E f \in Fields : Transfer(f)
         \/ \E k \in Keys : ReadProvenance(k)
         \/ EndPut \/ BindReadback \/ UnbindReadback \/ EndGet
  PROVE  Types'
<1>1. registry \in Registry /\ registry.ok /\ stored \in Seq(ReadbackEntries) /\ op \in Ops
  BY DEF Types
<1>2. NoOp \in Ops
  BY DEF NoOp, Ops
<1>3. ASSUME NEW what \in {"get", "put"}, Begin(what)
      PROVE  Types'
  <2>1. OfObject(registry.bound) \in SUBSET Names
    BY <1>1, ObjectsPlugins
  <2>2. op' \in Ops
    <3>. DEFINE begun == OfObject(registry.bound)
    <3>1. op' = [what |-> what, begun |-> begun, readback |-> "no"]
      BY <1>3 DEF Begin
    <3>. HIDE DEF begun
    <3>. QED
      BY <2>1, <3>1 DEF Ops, begun
  <2>3. stored' \in Seq(ReadbackEntries)
    <3>1. << >> \in Seq(ReadbackEntries)
      OBVIOUS
    <3>. QED
      BY <1>1, <1>3, <3>1 DEF Begin
  <2>. QED
    BY <1>1, <1>3, <2>2, <2>3 DEF Types, Begin
<1>4. ASSUME NEW f \in Fields, Transfer(f)
      PROVE  Types'
  <2>1. f \in Keys
    BY DEF Fields
  <2>2. registry' \in Registry /\ registry'.ok = registry.ok
    BY <1>1, <1>4, <2>1, TakenOver DEF Transfer
  <2>. QED
    BY <1>1, <1>4, <2>2 DEF Types, Transfer
<1>5. ASSUME NEW k \in Keys, ReadProvenance(k)
      PROVE  Types'
  <2>1. registry' \in Registry /\ registry'.ok = registry.ok
    BY <1>1, <1>5, TakenOver, KeysAssumption DEF ReadProvenance
  <2>. QED
    BY <1>1, <1>5, <2>1 DEF Types, ReadProvenance
<1>6. CASE EndPut
  BY <1>1, <1>2, <1>6, EndPutStores DEF Types, EndPut
<1>7. CASE BindReadback
  <2>1. registry' \in Registry /\ registry'.ok = TRUE
    BY <1>1, <1>7, EverythingBinds, ReadbackBound
  <2>2. op' \in Ops
    <3>. DEFINE b == BindEntries(registry, stored).ok
    <3>1. op' = [op EXCEPT !.readback = IF b THEN "bound" ELSE "failed"]
      BY <1>7 DEF BindReadback
    <3>. HIDE DEF b
    <3>. QED
      BY <1>1, <3>1 DEF Ops
  <2>. QED
    BY <1>7, <2>1, <2>2 DEF Types, BindReadback
<1>8. CASE UnbindReadback
  <2>. DEFINE I == {x \in Registry : x.ok}
  <2>1. KeptByUnregistering(I)
    BY UnregisteredIs DEF UnregisteredFrom, KeptByUnregistering
  <2>2. registry' \in Registry /\ registry'.ok
    <3>1. registry \in I
      BY <1>1
    <3>2. PICK x \in Registry : x \in I /\ registry' \in Registry /\ registry'.ok = x.ok
      <4>. HIDE DEF I
      <4>. QED
        BY <1>8, <2>1, <3>1, ReadbackUnbound
    <3>. QED
      BY <3>2
  <2>3. op' \in Ops
    BY <1>1, <1>8 DEF UnbindReadback, Ops
  <2>. QED
    BY <1>8, <2>2, <2>3 DEF Types, UnbindReadback
<1>9. CASE EndGet
  BY <1>1, <1>2, <1>9 DEF Types, EndGet
<1>. QED
  BY <1>3, <1>4, <1>5, <1>6, <1>7, <1>8, <1>9

\* Types is inductive.
LEMMA NextTypes ==
  ASSUME Types, [Next]_vars
  PROVE  Types'
<1>1. CASE UNCHANGED vars
  BY <1>1 DEF vars, Types
<1>2. CASE \E p \in Names : Register(p) \/ Unregister(p)
  <2>1. All \in Fields \cup {All}
    OBVIOUS
  <2>. QED
    BY <1>2, <2>1, UserTypes
<1>3. ASSUME NEW p \in Names, NEW k \in Fields \cup {All}, Bind(p, k)
      PROVE  Types'
  BY <1>3, UserTypes
<1>4. ASSUME NEW p \in Names, NEW k \in Fields \cup {All}, NEW spelling \in Spellings,
             Unbind(p, k, spelling)
      PROVE  Types'
  <2>1. Unbind(p, k, "key") \/ UNCHANGED vars
    BY <1>4, UnbindReaches
  <2>. QED
    BY <1>1, <2>1, UserTypes
<1>. QED
  BY <1>1, <1>2, <1>3, <1>4, OperationTypes DEF Next

\* The types hold of every reachable state, whatever the plugins are like.
THEOREM TypesHold == Spec => []Types
<1>1. Init => Types
  BY InitTypes
<1>2. Types /\ [Next]_vars => Types'
  BY NextTypes
<1>. QED
  BY <1>1, <1>2, PTL DEF Spec

-------------------------------------------------------------------------------
(***************************************************************************)
(* Nothing that is bound was destroyed.                                    *)
(***************************************************************************)
LoadedOnly(x) ==
  /\ \A p \in Names : x.store[p] # "empty"
  /\ \A k \in Keys : \A p \in In(x.bound[k]) : x.store[p] = "loaded"

Sound == {x \in Registry : LoadedOnly(x)}

\* To bind a plugin registers it first, so what is bound is loaded.
LEMMA SoundBinds ==
  ASSUME Broken = {}
  PROVE  KeptByBinding(Sound) /\ KeptByProvenance(Sound)
<1>1. ASSUME NEW x \in Registry, NEW k \in Keys, NEW p \in ReadbackNames, x \in Sound
      PROVE  BindReadbackPlugin(x, k, p) \in Sound
  <2>. DEFINE y == BindReadbackPlugin(x, k, p)
  <2>1. p \in Names /\ ~Fails(x, p) /\ x.store[p] \in States
    BY ReadbackAreNames DEF Fails, Registry
  <2>2. LoadedOnly(x)
    BY <1>1 DEF Sound
  <2>3. /\ y \in Registry
        /\ ~x.ok => y = x
        /\ x.ok => /\ \A q \in Names \ {p} : y.store[q] = x.store[q]
                   /\ y.store[p] = IF x.store[p] # "absent" THEN x.store[p] ELSE "loaded"
                   /\ \A j \in Keys \ {k} : y.bound[j] = x.bound[j]
                   /\ In(y.bound[k]) = In(x.bound[k]) \cup {p}
    BY <2>1, BindReadbackPluginIs
  <2>. HIDE DEF y
  <2>4. CASE ~x.ok
    BY <1>1, <2>3, <2>4 DEF y
  <2>5. CASE x.ok
    <3>1. \A q \in Names : y.store[q] # "empty" /\ (x.store[q] = "loaded" => y.store[q] = "loaded")
      BY <2>2, <2>3, <2>5 DEF LoadedOnly
    <3>2. y.store[p] = "loaded"
      BY <2>1, <2>2, <2>3, <2>5 DEF LoadedOnly, States
    <3>3. ASSUME NEW j \in Keys, NEW q \in In(y.bound[j])
          PROVE  y.store[q] = "loaded"
      <4>1. q \in Names
        BY <2>3, BoundAreNames
      <4>2. q = p \/ q \in In(x.bound[j])
        BY <2>3, <2>5
      <4>. QED
        BY <2>2, <3>1, <3>2, <4>1, <4>2 DEF LoadedOnly
    <3>4. LoadedOnly(y)
      BY <3>1, <3>3 DEF LoadedOnly
    <3>. QED
      BY <2>3, <3>4 DEF Sound, y
  <2>. QED
    BY <2>4, <2>5
<1>2. ASSUME NEW x \in Registry, NEW k \in Keys, NEW p \in In(x.bound[k]), x \in Sound
      PROVE  BoundTo(x, p, Provenance) \in Sound
  <2>. DEFINE y == BoundTo(x, p, Provenance)
  <2>1. p \in Names /\ Provenance \in Keys
    BY BoundAreNames, KeysAssumption
  <2>2. LoadedOnly(x)
    BY <1>2 DEF Sound
  <2>3. /\ y \in Registry /\ y.store = x.store
        /\ \A j \in Keys \ {Provenance} : y.bound[j] = x.bound[j]
        /\ In(y.bound[Provenance]) = In(x.bound[Provenance]) \cup {p}
    BY <2>1, ProvenanceBound
  <2>. HIDE DEF y
  <2>4. LoadedOnly(y)
    BY <2>2, <2>3 DEF LoadedOnly
  <2>. QED
    BY <2>3, <2>4 DEF Sound, y
<1>. QED
  BY <1>1, <1>2 DEF KeptByBinding, KeptByProvenance

\* Unregistered where it is bound, a plugin is destroyed with all its bindings.
LEMMA SoundUnregisters == KeptByUnregistering(Sound)
<1>1. ASSUME NEW x \in Registry, NEW p \in Names, x \in Sound
      PROVE  Unregistered(x, p) \in Sound
  <2>. DEFINE y == Unregistered(x, p)
  <2>1. LoadedOnly(x)
    BY <1>1 DEF Sound
  <2>2. /\ y \in Registry
        /\ \A k \in Keys : In(y.bound[k]) = In(x.bound[k]) \ {p}
        /\ \A q \in Names \ {p} : y.store[q] = x.store[q]
        /\ y.store[p] = "absent" \/ y.store[p] = x.store[p]
    BY UnregisteredDrops, Zenon
  <2>. HIDE DEF y
  <2>3. ASSUME NEW j \in Keys, NEW q \in In(y.bound[j])
        PROVE  y.store[q] = "loaded"
    <3>1. q \in Names \ {p} /\ q \in In(x.bound[j])
      BY <2>2, BoundAreNames
    <3>. QED
      BY <2>1, <2>2, <3>1 DEF LoadedOnly
  <2>4. LoadedOnly(y)
    BY <2>1, <2>2, <2>3 DEF LoadedOnly
  <2>. QED
    BY <2>2, <2>4 DEF Sound, y
<1>. QED
  BY <1>1 DEF KeptByUnregistering

\* Nothing is bound at first.
LEMMA InitSound == Init => registry \in Sound
<1>. SUFFICES ASSUME Init
              PROVE  registry \in Sound
  OBVIOUS
<1>1. registry \in Registry
  BY InitTypes DEF Types
<1>2. /\ \A p \in Names : registry.store[p] = "absent"
      /\ \A k \in Keys : registry.bound[k] = << >>
  BY DEF Init, Unbound
<1>3. LoadedOnly(registry)
  BY <1>2, InNone DEF LoadedOnly
<1>. QED
  BY <1>1, <1>3 DEF Sound

\* No step destroys a plugin and leaves it bound.
LEMMA NextSound ==
  ASSUME Broken = {}, Types, Types', registry \in Sound, [Next]_vars
  PROVE  registry' \in Sound
<1>1. /\ registry \in Registry /\ registry' \in Registry /\ LoadedOnly(registry)
      /\ registry.store \in [Names -> States]
      /\ \A k \in Keys : registry.bound[k] \in Seq(Names)
  BY DEF Types, Sound, Registry
<1>. SUFFICES registry' # registry => LoadedOnly(registry')
  BY <1>1 DEF Sound
<1>. SUFFICES ASSUME registry' # registry
              PROVE  LoadedOnly(registry')
  OBVIOUS
<1>2. ASSUME NEW p \in Names, Register(p)
      PROVE  LoadedOnly(registry')
  <2>. DEFINE x == Registered(registry, p)
  <2>1. /\ x \in Registry /\ x.bound = registry.bound /\ x.store[p] = "loaded"
        /\ \A q \in Names \ {p} : x.store[q] = registry.store[q]
    BY <1>1, RegisteredIs
  <2>2. registry' = [x EXCEPT !.ok = TRUE]
    BY <1>2 DEF Register
  <2>. HIDE DEF x
  <2>3. registry'.store = x.store /\ registry'.bound = x.bound
    BY <2>1, <2>2, OkPut
  <2>4. \A q \in Names : registry'.store[q] # "empty" /\ (registry.store[q] = "loaded" => registry'.store[q] = "loaded")
    BY <1>1, <2>1, <2>3 DEF LoadedOnly
  <2>5. registry'.bound = registry.bound /\ \A k \in Keys : In(registry.bound[k]) \subseteq Names
    BY <1>1, <2>1, <2>3, BoundAreNames
  <2>. QED
    BY <1>1, <2>4, <2>5 DEF LoadedOnly
<1>3. ASSUME NEW p \in Names, Unregister(p)
      PROVE  LoadedOnly(registry')
  BY <1>1, <1>3, SoundUnregisters DEF KeptByUnregistering, Unregister, Sound
<1>4. ASSUME NEW p \in Names, NEW k \in Fields \cup {All}, Bind(p, k)
      PROVE  LoadedOnly(registry')
  <2>. DEFINE x == BoundTo(registry, p, k)
  <2>1. k \in Keys /\ registry \in Registry
    BY <1>1, KeysAssumption DEF Fields
  <2>2. /\ x.store = registry.store
        /\ \A j \in Keys \ {k} : x.bound[j] = registry.bound[j]
        /\ In(x.bound[k]) = In(registry.bound[k]) \cup {p}
    BY <2>1, BoundToIs
  <2>3. registry' = x /\ registry.store[p] # "absent"
    BY <1>4 DEF Bind
  <2>4. registry.store[p] = "loaded"
    BY <1>1, <2>3 DEF LoadedOnly, States
  <2>. HIDE DEF x
  <2>. QED
    BY <1>1, <2>2, <2>3, <2>4 DEF LoadedOnly
<1>5. ASSUME NEW p \in Names, NEW k \in Fields \cup {All}, Unbind(p, k, "key")
      PROVE  LoadedOnly(registry')
  <2>1. k \in Keys
    BY KeysAssumption DEF Fields
  <2>2. In(Without(registry.bound[k], p)) = In(registry.bound[k]) \ {p}
    BY <1>1, <2>1, WithoutIs
  <2>3. /\ registry'.store = registry.store
        /\ registry'.bound[k] = Without(registry.bound[k], p)
        /\ \A j \in Keys \ {k} : registry'.bound[j] = registry.bound[j]
    BY <1>1, <1>5, <2>1 DEF Unbind, Registry
  <2>. QED
    BY <1>1, <2>1, <2>2, <2>3 DEF LoadedOnly
<1>6. ASSUME NEW k \in Keys,
             registry' = [registry EXCEPT !.bound[k] = Resolved(registry.bound, k)]
      PROVE  LoadedOnly(registry')
  <2>1. /\ registry'.store = registry.store
        /\ \A j \in Keys \ {k} : registry'.bound[j] = registry.bound[j]
        /\ registry'.bound[k] = (IF registry.bound[k] # << >> THEN registry.bound[k]
                                 ELSE registry.bound[All])
    BY <1>1, <1>6, TakenOver
  <2>. QED
    BY <1>1, <2>1, KeysAssumption DEF LoadedOnly
<1>7. CASE BindReadback
  <2>1. KeptByBinding(Sound) /\ KeptByProvenance(Sound)
    BY SoundBinds
  <2>2. PICK x \in Sound : registry'.store = x.store /\ registry'.bound = x.bound
    BY <1>7, <2>1, ReadbackBound
  <2>. QED
    BY <2>2 DEF Sound, LoadedOnly
<1>8. CASE UnbindReadback
  <2>1. PICK x \in Sound : registry'.store = x.store /\ registry'.bound = x.bound
    BY <1>8, SoundUnregisters, ReadbackUnbound
  <2>. QED
    BY <2>1 DEF Sound, LoadedOnly
<1>9. ASSUME NEW f \in Fields, Transfer(f)
      PROVE  LoadedOnly(registry')
  BY <1>6, <1>9 DEF Transfer, Fields
<1>10. ASSUME NEW k \in Keys, ReadProvenance(k)
       PROVE  LoadedOnly(registry')
  BY <1>6, <1>10, KeysAssumption DEF ReadProvenance
<1>11. \A what \in {"get", "put"} : ~Begin(what)
  BY DEF Begin
<1>12. ~EndPut /\ ~EndGet /\ vars' # vars
  BY DEF EndPut, EndGet, vars
<1>13. ASSUME NEW p \in Names, NEW k \in Fields \cup {All}, NEW spelling \in Spellings,
              Unbind(p, k, spelling)
       PROVE  LoadedOnly(registry')
  BY <1>5, <1>12, <1>13, UnbindReaches
<1>. QED
  BY <1>2, <1>3, <1>4, <1>13, <1>7, <1>8, <1>9, <1>10, <1>11, <1>12 DEF Next

\* No operation reaches a plugin that was destroyed (unregisterPlugin() erases the
\* instance and every binding), if every library has its symbols, whatever the
\* user registers, binds and unregisters, and also after a get() that failed.
THEOREM NothingBoundIsDestroyed ==
  ASSUME Broken = {}
  PROVE  Spec => []BoundAreLoaded
<1>. DEFINE Inv == Types /\ registry \in Sound
<1>1. Init => Inv
  BY InitTypes, InitSound
<1>2. Inv /\ [Next]_vars => Inv'
  BY NextTypes, NextSound
<1>3. Inv => BoundAreLoaded
  <2>. SUFFICES ASSUME Types, registry \in Sound
                PROVE  BoundAreLoaded
    OBVIOUS
  <2>1. \A k \in Keys : Range(registry.bound[k]) = In(registry.bound[k])
    BY InType DEF Types, Registry
  <2>. QED
    BY <2>1 DEF BoundAreLoaded, Sound, LoadedOnly
<1>. QED
  BY <1>1, <1>2, <1>3, PTL DEF Spec

-------------------------------------------------------------------------------
(***************************************************************************)
(* The registry is the user's, but for what was borrowed to read back.     *)
(***************************************************************************)
OfUser == Names \ ReadbackNames

\* Two registries that differ in readback plugins, and in the provenance.
SameForUser(x, y) ==
  /\ \A p \in OfUser : y.store[p] = x.store[p]
  /\ \A k \in Keys \ {Provenance} : Among(y.bound[k], OfUser) = Among(x.bound[k], OfUser)

\* L are the readback plugins that are loaded, and all that is bound of them.
Borrows(x, L) ==
  /\ L \subseteq ReadbackNames
  /\ \A p \in ReadbackNames : x.store[p] = IF p \in L THEN "loaded" ELSE "absent"
  /\ \A p \in L : \E k \in Keys : p \in In(x.bound[k])
  /\ \A k \in Keys : In(x.bound[k]) \cap ReadbackNames \subseteq L

\* m is what the user registered, w what the user bound.
AsUserLeftIt(x, m, w) ==
  /\ m \subseteq OfUser
  /\ \A p \in OfUser : x.store[p] = IF p \in m THEN "loaded" ELSE "absent"
  /\ \A k \in Keys : In(w[k]) \subseteq OfUser
  /\ Among(x.bound[All], OfUser) = w[All]
  /\ \A k \in Fields : \/ Among(x.bound[k], OfUser) = w[k]
                       \/ w[k] = << >> /\ Among(x.bound[k], OfUser) = w[All]

\* What a get() does to the registry, the user cannot tell.
LEMMA SameIsLeft ==
  ASSUME NEW x, NEW y, NEW m, NEW w, SameForUser(x, y), AsUserLeftIt(x, m, w)
  PROVE  AsUserLeftIt(y, m, w)
<1>1. All \in Keys \ {Provenance} /\ \A k \in Fields : k \in Keys \ {Provenance}
  BY KeysAssumption DEF Fields
<1>. QED
  BY <1>1 DEF SameForUser, AsUserLeftIt

\* To leave a plugin out, and to look at the user's, in any order.
LEMMA WithoutOfUser ==
  ASSUME NEW s \in Seq(Names), NEW p \in Names
  PROVE  /\ Among(Without(s, p), OfUser) = Without(Among(s, OfUser), p)
         /\ p \notin OfUser => Among(Without(s, p), OfUser) = Among(s, OfUser)
<1>. DEFINE R == Names \ {p}
<1>1. Among(Among(s, R), OfUser) = Among(s, R \cap OfUser)
  BY AmongAmong
<1>2. Among(Among(s, OfUser), R) = Among(s, OfUser \cap R)
  BY AmongAmong
<1>3. OfUser \cap R = R \cap OfUser /\ (p \notin OfUser => R \cap OfUser = OfUser)
  BY DEF OfUser
<1>. QED
  BY <1>1, <1>2, <1>3 DEF Without

\* A plugin more, as the user sees it.
LEMMA AppendOfUser ==
  ASSUME NEW s \in Seq(Names), NEW p \in Names
  PROVE  Among(Append(s, p), OfUser) =
           IF p \in OfUser THEN Append(Among(s, OfUser), p) ELSE Among(s, OfUser)
BY AmongAppend

Lent(r) == {y \in Registry : SameForUser(r, y) /\ Borrows(y, In(y.readback))}

\* With a library for every plugin, to bind one to read back does not fail halfway.
LEMMA ReadbackPluginBound ==
  ASSUME Broken \cap ReadbackNames = {}, NEW x \in Registry, NEW k \in Keys, NEW p \in ReadbackNames, x.ok
  PROVE  LET y == BindReadbackPlugin(x, k, p)
         IN  /\ \A q \in Names \ {p} : y.store[q] = x.store[q]
             /\ y.store[p] = (IF x.store[p] # "absent" THEN x.store[p] ELSE "loaded")
             /\ y.readback = (IF x.store[p] = "absent" THEN Append(x.readback, p)
                              ELSE x.readback)
             /\ \A j \in Keys \ {k} : y.bound[j] = x.bound[j]
             /\ y.bound[k] = (IF p \in In(x.bound[k]) THEN x.bound[k]
                              ELSE Append(x.bound[k], p))
             /\ In(y.bound[k]) = In(x.bound[k]) \cup {p}
<1>1. p \in Names /\ ~Fails(x, p)
  BY ReadbackAreNames DEF Fails
<1>2. p \notin Broken
  OBVIOUS
<1>. DEFINE y == BindReadbackPlugin(x, k, p)
<1>3. /\ \A q \in Names \ {p} : y.store[q] = x.store[q]
      /\ y.store[p] = (IF x.store[p] # "absent" THEN x.store[p]
                       ELSE IF p \in Broken THEN "empty" ELSE "loaded")
      /\ y.readback = (IF x.store[p] = "absent" /\ p \notin Broken
                       THEN Append(x.readback, p) ELSE x.readback)
  BY <1>1, BindReadbackPluginIs
<1>4. /\ \A j \in Keys \ {k} : y.bound[j] = x.bound[j]
      /\ y.bound[k] = (IF p \in In(x.bound[k]) THEN x.bound[k]
                       ELSE Append(x.bound[k], p))
      /\ In(y.bound[k]) = In(x.bound[k]) \cup {p}
  BY <1>1, BindReadbackPluginIs
<1>. HIDE DEF y
<1>. QED
  BY <1>2, <1>3, <1>4 DEF y

\* A get() borrows what it registers, and binds nothing else of its own.
LEMMA LentBinds ==
  ASSUME Broken \cap ReadbackNames = {}, NEW r \in Registry
  PROVE  KeptByBinding(Lent(r)) /\ KeptByProvenance(Lent(r))
<1>1. ASSUME NEW x \in Registry, NEW k \in Keys, NEW p \in ReadbackNames, x \in Lent(r)
      PROVE  BindReadbackPlugin(x, k, p) \in Lent(r)
  <2>. DEFINE y == BindReadbackPlugin(x, k, p)
  <2>1. p \in Names /\ p \notin OfUser /\ ~Fails(x, p) /\ x.bound[k] \in Seq(Names)
    BY ReadbackAreNames, BoundAreNames DEF Fails, OfUser
  <2>2. SameForUser(r, x) /\ Borrows(x, In(x.readback))
    BY <1>1 DEF Lent
  <2>3. /\ y \in Registry
        /\ ~x.ok => y = x
        /\ x.ok => /\ \A q \in Names \ {p} : y.store[q] = x.store[q]
                   /\ y.store[p] = (IF x.store[p] # "absent" THEN x.store[p] ELSE "loaded")
                   /\ y.readback = (IF x.store[p] = "absent" THEN Append(x.readback, p)
                                    ELSE x.readback)
                   /\ \A j \in Keys \ {k} : y.bound[j] = x.bound[j]
                   /\ y.bound[k] = (IF p \in In(x.bound[k]) THEN x.bound[k]
                                    ELSE Append(x.bound[k], p))
                   /\ In(y.bound[k]) = In(x.bound[k]) \cup {p}
    <3>1. y \in Registry /\ (~x.ok => y = x)
      BY <2>1, BindReadbackPluginIs
    <3>. QED
      BY <3>1, ReadbackPluginBound
  <2>. HIDE DEF y
  <2>4. CASE ~x.ok
    BY <1>1, <2>3, <2>4 DEF y
  <2>5. CASE x.ok
    <3>1. Among(Append(x.bound[k], p), OfUser) = Among(x.bound[k], OfUser)
      BY <2>1, AppendOfUser
    <3>2. \A j \in Keys : Among(y.bound[j], OfUser) = Among(x.bound[j], OfUser)
      BY <2>3, <2>5, <3>1
    <3>3. \A q \in OfUser : y.store[q] = x.store[q]
      BY <2>1, <2>3, <2>5 DEF OfUser
    <3>4. SameForUser(r, y)
      BY <2>2, <3>2, <3>3 DEF SameForUser
    <3>5. x.store[p] = IF p \in In(x.readback) THEN "loaded" ELSE "absent"
      BY <2>2 DEF Borrows
    <3>6. In(Append(x.readback, p)) = In(x.readback) \cup {p}
      BY <2>1, AppendedType DEF Registry
    <3>7. In(y.readback) = In(x.readback) \cup {p} /\ y.store[p] = "loaded"
      BY <2>3, <2>5, <3>5, <3>6
    <3>8. Borrows(y, In(x.readback) \cup {p})
      <4>. DEFINE L == In(x.readback)
      <4>1. Borrows(x, L)
        BY <2>2
      <4>. HIDE DEF L
      <4>2. L \cup {p} \subseteq ReadbackNames
        BY <4>1 DEF Borrows
      <4>3. \A q \in ReadbackNames : y.store[q] = IF q \in L \cup {p} THEN "loaded" ELSE "absent"
        BY <4>1, <2>3, <2>5, <3>7, ReadbackAreNames DEF Borrows
      <4>4. \A q \in L \cup {p} : \E j \in Keys : q \in In(y.bound[j])
        <5>1. \A j \in Keys : In(x.bound[j]) \subseteq In(y.bound[j])
          BY <2>3, <2>5
        <5>. QED
          BY <4>1, <2>3, <2>5, <5>1 DEF Borrows
      <4>5. \A j \in Keys : In(y.bound[j]) \cap ReadbackNames \subseteq L \cup {p}
        BY <4>1, <2>3, <2>5 DEF Borrows
      <4>6. Borrows(y, L \cup {p})
        BY <4>2, <4>3, <4>4, <4>5 DEF Borrows
      <4>. QED
        BY <4>6 DEF L
    <3>. QED
      BY <2>3, <3>4, <3>7, <3>8 DEF Lent, y
  <2>. QED
    BY <2>4, <2>5
<1>2. ASSUME NEW x \in Registry, NEW k \in Keys, NEW p \in In(x.bound[k]), x \in Lent(r)
      PROVE  BoundTo(x, p, Provenance) \in Lent(r)
  <2>. DEFINE y == BoundTo(x, p, Provenance)
  <2>1. p \in Names
    BY BoundAreNames
  <2>2. SameForUser(r, x) /\ Borrows(x, In(x.readback))
    BY <1>2 DEF Lent
  <2>3. /\ y \in Registry /\ y.store = x.store /\ y.readback = x.readback
        /\ \A j \in Keys \ {Provenance} : y.bound[j] = x.bound[j]
        /\ In(y.bound[Provenance]) = In(x.bound[Provenance]) \cup {p}
    BY <2>1, ProvenanceBound
  <2>. HIDE DEF y
  <2>4. SameForUser(r, y)
    BY <2>2, <2>3 DEF SameForUser
  <2>5. p \in ReadbackNames => p \in In(x.readback)
    BY <2>2 DEF Borrows
  <2>6. Borrows(y, In(x.readback))
    <3>1. \A j \in Keys : In(x.bound[j]) \subseteq In(y.bound[j])
      BY <2>3
    <3>2. \A j \in Keys : In(y.bound[j]) \subseteq In(x.bound[j]) \cup {p}
      BY <2>3
    <3>. QED
      BY <2>2, <2>3, <2>5, <3>1, <3>2 DEF Borrows
  <2>. QED
    BY <2>3, <2>4, <2>6 DEF Lent, y
<1>. QED
  BY <1>1, <1>2 DEF KeptByBinding, KeptByProvenance

\* One that was borrowed is given back, with all its bindings.
LEMMA GivenBack ==
  ASSUME NEW x \in Registry, NEW L, Borrows(x, L), NEW p \in ReadbackNames
  PROVE  LET y == Unregistered(x, p)
         IN  y \in Registry /\ SameForUser(x, y) /\ Borrows(y, L \ {p})
<1>. DEFINE y == Unregistered(x, p)
<1>1. p \in Names /\ p \notin OfUser
  BY ReadbackAreNames DEF OfUser
<1>2. /\ y \in Registry
      /\ \A k \in Keys : y.bound[k] = Without(x.bound[k], p)
      /\ \A k \in Keys : In(y.bound[k]) = In(x.bound[k]) \ {p}
      /\ \A q \in Names \ {p} : y.store[q] = x.store[q]
      /\ y.store[p] = IF x.store[p] = "loaded" /\ \E k \in Keys : p \in In(x.bound[k])
                      THEN "absent" ELSE x.store[p]
  <2>1. /\ y \in Registry
        /\ \A k \in Keys : /\ y.bound[k] = Without(x.bound[k], p)
                           /\ In(y.bound[k]) = In(x.bound[k]) \ {p}
    BY <1>1, UnregisteredIs DEF UnregisteredFrom
  <2>2. /\ \A q \in Names \ {p} : y.store[q] = x.store[q]
        /\ y.store[p] = IF x.store[p] = "loaded" /\ \E k \in Keys : p \in In(x.bound[k])
                        THEN "absent" ELSE x.store[p]
    BY <1>1, UnregisteredIs DEF UnregisteredFrom
  <2>. HIDE DEF y
  <2>. QED
    BY <2>1, <2>2
<1>. HIDE DEF y
<1>3. \A k \in Keys : Among(y.bound[k], OfUser) = Among(x.bound[k], OfUser)
  BY <1>1, <1>2, BoundAreNames, WithoutOfUser
<1>4. SameForUser(x, y)
  BY <1>1, <1>2, <1>3 DEF SameForUser, OfUser
<1>5. y.store[p] = "absent"
  BY <1>2 DEF Borrows
<1>6. Borrows(y, L \ {p})
  <2>. DEFINE M == L \ {p}
  <2>1. M \subseteq ReadbackNames /\ \A q \in M : q \in L /\ q # p
    BY DEF Borrows
  <2>2. \A q \in ReadbackNames : y.store[q] = IF q \in M THEN "loaded" ELSE "absent"
    BY <1>2, <1>5, ReadbackAreNames DEF Borrows
  <2>3. \A q \in M : \E k \in Keys : q \in In(y.bound[k])
    BY <1>2 DEF Borrows
  <2>4. \A k \in Keys : In(y.bound[k]) \cap ReadbackNames \subseteq M
    BY <1>2 DEF Borrows
  <2>. HIDE DEF M
  <2>5. Borrows(y, M)
    BY <2>1, <2>2, <2>3, <2>4 DEF Borrows
  <2>. QED
    BY <2>5 DEF M
<1>. QED
  BY <1>2, <1>4, <1>6 DEF y

\* Same twice is the same.
LEMMA SameTransitive ==
  ASSUME NEW x, NEW y, NEW z, SameForUser(x, y), SameForUser(y, z)
  PROVE  SameForUser(x, z)
BY DEF SameForUser

\* unbind_readback_plugins() gives back what the get() borrowed.
LEMMA AllGivenBack ==
  ASSUME NEW r \in Registry, Borrows(r, In(r.readback))
  PROVE  SameForUser(r, UnboundAll(r)) /\ Borrows(UnboundAll(r), {})
<1>. DEFINE N == Len(r.readback)
            L(n) == In(r.readback) \ {r.readback[i] : i \in 1..n}
            J == [n \in Nat |-> {y \in Registry : SameForUser(r, y) /\ Borrows(y, L(n))}]
<1>1. /\ N \in Nat /\ In(r.readback) \subseteq ReadbackNames
      /\ \A n \in 1..N : r.readback[n] \in In(r.readback)
  BY DEF Registry, Borrows, In
<1>2. r \in J[0]
  <2>1. L(0) = In(r.readback)
    OBVIOUS
  <2>2. SameForUser(r, r)
    BY DEF SameForUser
  <2>3. Borrows(r, L(0))
    BY <2>1
  <2>. HIDE DEF L
  <2>. QED
    BY <2>2, <2>3
<1>3. ASSUME NEW n \in 1..N, NEW x \in Registry, x \in J[n - 1]
      PROVE  WithoutReadback(x, r.readback[n]) \in J[n]
  <2>1. n - 1 \in Nat /\ n \in Nat
    BY <1>1
  <2>. DEFINE p == r.readback[n]
              y == Unregistered(x, p)
  <2>2. L(n) = L(n - 1) \ {p}
    <3>1. 1..n = 1..(n - 1) \cup {n}
      BY <2>1, <1>1
    <3>. QED
      BY <3>1
  <2>. HIDE DEF L
  <2>3. SameForUser(r, x) /\ Borrows(x, L(n - 1))
    BY <1>3, <2>1
  <2>4. p \in ReadbackNames
    BY <1>1
  <2>. HIDE DEF p
  <2>5. y \in Registry /\ SameForUser(x, y) /\ Borrows(y, L(n - 1) \ {p})
    BY <2>3, <2>4, GivenBack
  <2>. HIDE DEF y
  <2>6. SameForUser(r, y) /\ Borrows(y, L(n))
    BY <2>2, <2>3, <2>5, SameTransitive
  <2>7. WithoutReadback(x, r.readback[n]) = y
    BY DEF WithoutReadback, y, p
  <2>. QED
    BY <2>1, <2>5, <2>6, <2>7
<1>4. L(N) = {}
  BY <1>1 DEF In
<1>. HIDE DEF J
<1>5. UnboundAll(r) \in J[N]
  BY <1>2, <1>3, UnboundAllEnds
<1>. QED
  BY <1>1, <1>4, <1>5 DEF J

Users == AsUserLeftIt(registry, mine, wanted) /\ Borrows(registry, In(registry.readback))

\* The user has done nothing at first, and nothing is borrowed.
LEMMA InitUsers == Init => Users
<1>. SUFFICES ASSUME Init
              PROVE  Users
  OBVIOUS
<1>1. /\ \A p \in Names : registry.store[p] = "absent"
      /\ \A k \in Keys : registry.bound[k] = << >> /\ wanted[k] = << >>
      /\ registry.readback = << >> /\ mine = {}
  BY DEF Init, Unbound
<1>2. All \in Keys /\ Fields \subseteq Keys
  BY KeysAssumption DEF Fields
<1>3. AsUserLeftIt(registry, mine, wanted)
  BY <1>1, <1>2, InNone, AmongNone DEF AsUserLeftIt, OfUser
<1>4. Borrows(registry, {})
  BY <1>1, InNone, ReadbackAreNames DEF Borrows
<1>. QED
  BY <1>1, <1>3, <1>4, InNone DEF Users

\* Two registries that differ in one plugin.
AlikeBut(p, x, y) ==
  /\ \A q \in Names \ {p} : y.store[q] = x.store[q]
  /\ \A k \in Keys : In(y.bound[k]) \ {p} = In(x.bound[k]) \ {p}

\* What the user does leaves what is borrowed.
LEMMA BorrowedStays ==
  ASSUME NEW x, NEW y, NEW p \in OfUser, AlikeBut(p, x, y), NEW L, Borrows(x, L)
  PROVE  Borrows(y, L)
<1>1. p \notin ReadbackNames
  BY DEF OfUser
<1>2. \A q \in ReadbackNames : y.store[q] = x.store[q]
  BY <1>1, ReadbackAreNames DEF AlikeBut
<1>3. \A q \in ReadbackNames, k \in Keys : q \in In(y.bound[k]) <=> q \in In(x.bound[k])
  BY <1>1 DEF AlikeBut
<1>4. \A q \in L : q \in ReadbackNames
  BY DEF Borrows
<1>. QED
  BY <1>2, <1>3, <1>4 DEF Borrows

\* Register, as the user meant it.
LEMMA RegisterKeeps ==
  ASSUME Broken = {}, ~OwnReadback, Types, Types', Users, NEW p \in Names, Register(p)
  PROVE  Users'
<1>1. p \in OfUser
  BY DEF Register, OfUser
<1>2. registry \in Registry /\ registry' \in Registry
  BY DEF Types
<1>3. /\ registry'.bound = registry.bound /\ registry'.readback = registry.readback
      /\ registry'.store[p] = "loaded"
      /\ \A q \in Names \ {p} : registry'.store[q] = registry.store[q]
  <2>. DEFINE x == Registered(registry, p)
  <2>1. /\ x \in Registry /\ x.bound = registry.bound /\ x.readback = registry.readback
        /\ x.store[p] = "loaded"
        /\ \A q \in Names \ {p} : x.store[q] = registry.store[q]
    BY <1>2, RegisteredIs
  <2>2. registry' = [x EXCEPT !.ok = TRUE]
    BY DEF Register
  <2>. HIDE DEF x
  <2>3. registry'.store = x.store /\ registry'.bound = x.bound /\ registry'.readback = x.readback
    BY <2>1, <2>2, OkPut
  <2>. QED
    BY <2>1, <2>3
<1>4. mine' = mine \cup {p} /\ wanted' = wanted
  BY DEF Register
<1>5. AsUserLeftIt(registry', mine', wanted')
  BY <1>1, <1>3, <1>4 DEF Users, AsUserLeftIt, OfUser
<1>6. Borrows(registry', In(registry.readback))
  <2>1. AlikeBut(p, registry, registry') /\ Borrows(registry, In(registry.readback))
    BY <1>3 DEF AlikeBut, Users
  <2>. QED
    BY <1>1, <2>1, BorrowedStays
<1>. QED
  BY <1>3, <1>5, <1>6 DEF Users

\* Unregister: with ~KeepUnbound the plugin is bound, and so destroyed.
LEMMA UnregisterKeeps ==
  ASSUME ~KeepUnbound, Types, Types', Users, NEW p \in Names, Unregister(p)
  PROVE  Users'
<1>1. AsUserLeftIt(registry, mine, wanted) /\ p \in OfUser /\ p \in mine
  BY DEF Unregister, Users, AsUserLeftIt
<1>2. registry \in Registry /\ registry' \in Registry /\ wanted \in [Keys -> Seq(Names)]
  BY DEF Types
<1>3. registry' = Unregistered(registry, p)
  BY DEF Unregister
<1>. DEFINE y == Unregistered(registry, p)
<1>a. /\ y.readback = registry.readback
      /\ \A k \in Keys : /\ y.bound[k] = Without(registry.bound[k], p)
                         /\ In(y.bound[k]) = In(registry.bound[k]) \ {p}
  BY <1>2, UnregisteredIs DEF UnregisteredFrom
<1>b. /\ \A q \in Names \ {p} : y.store[q] = registry.store[q]
      /\ y.store[p] =
           IF registry.store[p] = "loaded" /\ \E k \in Keys : p \in In(registry.bound[k])
           THEN "absent" ELSE registry.store[p]
  BY <1>2, UnregisteredIs DEF UnregisteredFrom
<1>. HIDE DEF y
<1>c. registry' = y
  BY <1>3 DEF y
<1>4. /\ registry'.readback = registry.readback
      /\ \A k \in Keys : /\ registry'.bound[k] = Without(registry.bound[k], p)
                         /\ In(registry'.bound[k]) = In(registry.bound[k]) \ {p}
  BY <1>a, <1>c
<1>5. /\ \A q \in Names \ {p} : registry'.store[q] = registry.store[q]
      /\ registry'.store[p] =
           IF registry.store[p] = "loaded" /\ \E k \in Keys : p \in In(registry.bound[k])
           THEN "absent" ELSE registry.store[p]
  BY <1>b, <1>c
<1>6. registry'.store[p] = "absent"
  <2>1. registry.store[p] = "loaded"
    BY <1>1 DEF AsUserLeftIt
  <2>2. \E k \in Keys : p \in In(registry.bound[k])
    BY <1>2, BoundAreNames DEF Unregister
  <2>. QED
    BY <1>5, <2>1, <2>2
<1>7. /\ mine' = mine \ {p}
      /\ \A k \in Keys : /\ wanted'[k] = Without(wanted[k], p)
                         /\ In(wanted'[k]) = In(wanted[k]) \ {p}
  BY <1>2, WithoutIs DEF Unregister
<1>8. \A k \in Keys :
        Among(registry'.bound[k], OfUser) = Without(Among(registry.bound[k], OfUser), p)
  BY <1>2, <1>4, BoundAreNames, WithoutOfUser
<1>9. Without(<< >>, p) = << >>
  BY AmongNone DEF Without
<1>10. AsUserLeftIt(registry', mine', wanted')
  <2>1. mine' \subseteq OfUser /\ \A k \in Keys : In(wanted'[k]) \subseteq OfUser
    BY <1>1, <1>7 DEF AsUserLeftIt
  <2>2. \A q \in OfUser : registry'.store[q] = IF q \in mine' THEN "loaded" ELSE "absent"
    BY <1>1, <1>5, <1>6, <1>7 DEF AsUserLeftIt, OfUser
  <2>3. All \in Keys /\ Fields \subseteq Keys
    BY KeysAssumption DEF Fields
  <2>4. Among(registry'.bound[All], OfUser) = wanted'[All]
    BY <1>1, <1>7, <1>8, <2>3 DEF AsUserLeftIt
  <2>5. ASSUME NEW k \in Fields
        PROVE  \/ Among(registry'.bound[k], OfUser) = wanted'[k]
               \/ wanted'[k] = << >> /\ Among(registry'.bound[k], OfUser) = wanted'[All]
    <3>1. /\ Among(registry'.bound[k], OfUser) = Without(Among(registry.bound[k], OfUser), p)
          /\ wanted'[k] = Without(wanted[k], p) /\ wanted'[All] = Without(wanted[All], p)
      BY <1>7, <1>8, <2>3
    <3>2. \/ Among(registry.bound[k], OfUser) = wanted[k]
          \/ wanted[k] = << >> /\ Among(registry.bound[k], OfUser) = wanted[All]
      BY <1>1 DEF AsUserLeftIt
    <3>. QED
      BY <1>9, <3>1, <3>2
  <2>. QED
    BY <2>1, <2>2, <2>4, <2>5 DEF AsUserLeftIt
<1>11. Borrows(registry', In(registry.readback))
  <2>1. \A k \in Keys : In(registry'.bound[k]) \ {p} = In(registry.bound[k]) \ {p}
    BY <1>4
  <2>. QED
    <3>1. \A q \in Names \ {p} : registry'.store[q] = registry.store[q]
      BY <1>5
    <3>2. Borrows(registry, In(registry.readback))
      BY DEF Users
    <3>3. AlikeBut(p, registry, registry')
      BY <2>1, <3>1 DEF AlikeBut
    <3>. QED
      BY <1>1, <3>2, <3>3, BorrowedStays
<1>. QED
  BY <1>4, <1>10, <1>11 DEF Users

\* Bind: with ~Rebind no node has taken anything over yet.
LEMMA BindKeeps ==
  ASSUME ~Rebind, Types, Types', Users, NEW p \in Names, NEW k \in Fields \cup {All}, Bind(p, k)
  PROVE  Users'
<1>1. AsUserLeftIt(registry, mine, wanted) /\ Borrows(registry, In(registry.readback))
  BY DEF Users
<1>2. p \in OfUser /\ k \in Keys /\ All \in Keys /\ Fields \subseteq Keys /\ All \notin Fields
  BY <1>1, KeysAssumption DEF Fields, Bind, AsUserLeftIt
<1>3. registry \in Registry /\ registry' \in Registry /\ wanted \in [Keys -> Seq(Names)]
  BY DEF Types
<1>4. /\ registry'.store = registry.store /\ registry'.readback = registry.readback
      /\ \A j \in Keys \ {k} : registry'.bound[j] = registry.bound[j]
      /\ registry'.bound[k] = Append(registry.bound[k], p)
      /\ In(registry'.bound[k]) = In(registry.bound[k]) \cup {p}
  <2>. DEFINE y == BoundTo(registry, p, k)
  <2>1. /\ y.store = registry.store /\ y.readback = registry.readback
        /\ \A j \in Keys \ {k} : y.bound[j] = registry.bound[j]
        /\ y.bound[k] = (IF p \in In(registry.bound[k]) THEN registry.bound[k]
                         ELSE Append(registry.bound[k], p))
        /\ In(y.bound[k]) = In(registry.bound[k]) \cup {p}
    <3>1. registry \in Registry /\ k \in Keys
      BY <1>2, <1>3
    <3>. QED
      BY <3>1, BoundToIs
  <2>2. p \notin In(registry.bound[k])
    BY <1>2, <1>3, BoundAreNames DEF Bind
  <2>. HIDE DEF y
  <2>3. registry' = y
    BY DEF Bind, y
  <2>. QED
    BY <2>1, <2>2, <2>3
<1>5. /\ mine' = mine
      /\ wanted'[k] = Append(wanted[k], p) /\ In(wanted'[k]) = In(wanted[k]) \cup {p}
      /\ \A j \in Keys \ {k} : wanted'[j] = wanted[j]
  BY <1>2, <1>3, AppendedType DEF Bind
<1>6. Among(registry'.bound[k], OfUser) = Append(Among(registry.bound[k], OfUser), p)
  BY <1>2, <1>3, <1>4, BoundAreNames, AppendOfUser
<1>7. \A f \in Fields : registry.bound[f] = wanted[f] /\ Among(registry.bound[f], OfUser) = wanted[f]
  <2>1. \A f \in Fields : registry.bound[f] = wanted[f]
    BY DEF Bind, Materialised
  <2>2. \A f \in Fields : wanted[f] \in Seq(Names) /\ In(wanted[f]) \subseteq OfUser
    BY <1>1, <1>2, <1>3 DEF AsUserLeftIt
  <2>. QED
    BY <2>1, <2>2, AmongSame
<1>8. AsUserLeftIt(registry', mine', wanted')
  <2>1. mine' \subseteq OfUser /\ \A j \in Keys : In(wanted'[j]) \subseteq OfUser
    BY <1>1, <1>2, <1>5 DEF AsUserLeftIt
  <2>2. \A q \in OfUser : registry'.store[q] = IF q \in mine' THEN "loaded" ELSE "absent"
    BY <1>1, <1>4, <1>5 DEF AsUserLeftIt
  <2>3. Among(registry'.bound[All], OfUser) = wanted'[All]
    BY <1>1, <1>2, <1>4, <1>5, <1>6 DEF AsUserLeftIt
  <2>4. ASSUME NEW f \in Fields
        PROVE  Among(registry'.bound[f], OfUser) = wanted'[f]
    BY <1>2, <1>4, <1>5, <1>6, <1>7
  <2>. QED
    BY <2>1, <2>2, <2>3, <2>4 DEF AsUserLeftIt
<1>9. Borrows(registry', In(registry.readback))
  <2>1. \A j \in Keys : In(registry'.bound[j]) \ {p} = In(registry.bound[j]) \ {p}
    BY <1>4
  <2>2. \A q \in Names \ {p} : registry'.store[q] = registry.store[q]
    BY <1>4
  <2>3. AlikeBut(p, registry, registry')
    BY <2>1, <2>2 DEF AlikeBut
  <2>. QED
    BY <1>1, <1>2, <2>3, BorrowedStays
<1>. QED
  BY <1>4, <1>8, <1>9 DEF Users

\* Unbind: the same.
LEMMA UnbindKeeps ==
  ASSUME ~Rebind, Types, Types', Users, NEW p \in Names, NEW k \in Fields \cup {All},
         Unbind(p, k, "key")
  PROVE  Users'
<1>1. AsUserLeftIt(registry, mine, wanted) /\ Borrows(registry, In(registry.readback))
  BY DEF Users
<1>2. k \in Keys /\ All \in Keys /\ Fields \subseteq Keys /\ All \notin Fields
  BY KeysAssumption DEF Fields
<1>3. registry \in Registry /\ registry' \in Registry /\ wanted \in [Keys -> Seq(Names)]
  BY DEF Types
<1>a. wanted[k] \in Seq(Names) /\ registry.bound[k] \in Seq(Names)
  BY <1>2, <1>3, BoundAreNames
<1>4. p \in OfUser
  <2>1. p \in In(wanted[k])
    BY <1>a, InType DEF Unbind
  <2>. QED
    BY <1>1, <1>2, <2>1 DEF AsUserLeftIt
<1>5. /\ registry'.store = registry.store /\ registry'.readback = registry.readback
      /\ \A j \in Keys \ {k} : registry'.bound[j] = registry.bound[j]
      /\ registry'.bound[k] = Without(registry.bound[k], p)
  BY <1>2, <1>3 DEF Unbind, Registry
<1>6. /\ mine' = mine
      /\ wanted'[k] = Without(wanted[k], p)
      /\ \A j \in Keys \ {k} : wanted'[j] = wanted[j]
  BY <1>2, <1>3 DEF Unbind
<1>7. /\ In(wanted'[k]) = In(wanted[k]) \ {p}
      /\ In(registry'.bound[k]) = In(registry.bound[k]) \ {p}
  BY <1>a, <1>5, <1>6, WithoutIs
<1>8. Among(registry'.bound[k], OfUser) = Without(Among(registry.bound[k], OfUser), p)
  BY <1>a, <1>5, WithoutOfUser
<1>9. \A f \in Fields : registry.bound[f] = wanted[f] /\ Among(registry.bound[f], OfUser) = wanted[f]
  <2>1. \A f \in Fields : registry.bound[f] = wanted[f]
    BY DEF Unbind, Materialised
  <2>2. \A f \in Fields : wanted[f] \in Seq(Names) /\ In(wanted[f]) \subseteq OfUser
    BY <1>1, <1>2, <1>3 DEF AsUserLeftIt
  <2>. QED
    BY <2>1, <2>2, AmongSame
<1>10. AsUserLeftIt(registry', mine', wanted')
  <2>1. mine' \subseteq OfUser /\ \A j \in Keys : In(wanted'[j]) \subseteq OfUser
    BY <1>1, <1>6, <1>7 DEF AsUserLeftIt
  <2>2. \A q \in OfUser : registry'.store[q] = IF q \in mine' THEN "loaded" ELSE "absent"
    BY <1>1, <1>5, <1>6 DEF AsUserLeftIt
  <2>3. Among(registry'.bound[All], OfUser) = wanted'[All]
    BY <1>1, <1>2, <1>5, <1>6, <1>8 DEF AsUserLeftIt
  <2>4. ASSUME NEW f \in Fields
        PROVE  Among(registry'.bound[f], OfUser) = wanted'[f]
    BY <1>2, <1>5, <1>6, <1>8, <1>9
  <2>. QED
    BY <2>1, <2>2, <2>3, <2>4 DEF AsUserLeftIt
<1>11. Borrows(registry', In(registry.readback))
  <2>1. \A j \in Keys : In(registry'.bound[j]) \ {p} = In(registry.bound[j]) \ {p}
    BY <1>5, <1>7
  <2>2. \A q \in Names \ {p} : registry'.store[q] = registry.store[q]
    BY <1>5
  <2>3. AlikeBut(p, registry, registry')
    BY <2>1, <2>2 DEF AlikeBut
  <2>. QED
    BY <1>1, <1>4, <2>3, BorrowedStays
<1>. QED
  BY <1>5, <1>10, <1>11 DEF Users

\* What a node takes over is borrowed already.
LEMMA TakenOverBorrows ==
  ASSUME registry \in Registry, NEW k \in Keys, Borrows(registry, In(registry.readback)),
         registry' = [registry EXCEPT !.bound[k] = Resolved(registry.bound, k)]
  PROVE  Borrows(registry', In(registry.readback))
<1>1. All \in Keys
  BY KeysAssumption
<1>2. /\ registry'.store = registry.store
      /\ \A j \in Keys \ {k} : registry'.bound[j] = registry.bound[j]
      /\ registry'.bound[k] = (IF registry.bound[k] # << >> THEN registry.bound[k]
                               ELSE registry.bound[All])
  BY TakenOver
<1>3. \A j \in Keys : \/ registry'.bound[j] = registry.bound[j]
                      \/ registry'.bound[j] = registry.bound[All] /\ registry.bound[j] = << >>
  BY <1>2
<1>4. \A j \in Keys : In(registry.bound[j]) \subseteq In(registry'.bound[j])
  BY <1>3, InNone
<1>5. \A j \in Keys : In(registry'.bound[j]) \cap ReadbackNames \subseteq In(registry.readback)
  BY <1>1, <1>3 DEF Borrows
<1>. QED
  BY <1>2, <1>4, <1>5 DEF Borrows

\* A node that takes over what is bound to all had nothing of the user's.
LEMMA TakingOverKeeps ==
  ASSUME Types, Types', Users, mine' = mine, wanted' = wanted, NEW k \in Keys \ {All},
         registry' = [registry EXCEPT !.bound[k] = Resolved(registry.bound, k)]
  PROVE  Users'
<1>1. AsUserLeftIt(registry, mine, wanted) /\ Borrows(registry, In(registry.readback))
  BY DEF Users
<1>2. registry \in Registry /\ k \in Keys /\ All \in Keys /\ k # All
  BY KeysAssumption DEF Types
<1>3. /\ registry'.store = registry.store /\ registry'.readback = registry.readback
      /\ \A j \in Keys \ {k} : registry'.bound[j] = registry.bound[j]
      /\ registry'.bound[k] = (IF registry.bound[k] # << >> THEN registry.bound[k]
                               ELSE registry.bound[All])
  BY <1>2, TakenOver
<1>4. AsUserLeftIt(registry', mine, wanted)
  <2>1. Among(registry'.bound[All], OfUser) = wanted[All]
    BY <1>1, <1>2, <1>3 DEF AsUserLeftIt
  <2>2. ASSUME NEW f \in Fields
        PROVE  \/ Among(registry'.bound[f], OfUser) = wanted[f]
               \/ wanted[f] = << >> /\ Among(registry'.bound[f], OfUser) = wanted[All]
    <3>1. \/ Among(registry.bound[f], OfUser) = wanted[f]
          \/ wanted[f] = << >> /\ Among(registry.bound[f], OfUser) = wanted[All]
      BY <1>1 DEF AsUserLeftIt
    <3>2. CASE f = k /\ registry.bound[k] = << >>
      <4>1. Among(registry.bound[f], OfUser) = << >>
        BY <3>2, AmongNone
      <4>2. wanted[f] = << >>
        BY <3>1, <4>1
      <4>3. Among(registry'.bound[f], OfUser) = wanted[All]
        BY <1>1, <1>3, <3>2 DEF AsUserLeftIt
      <4>. QED
        BY <4>2, <4>3
    <3>3. CASE ~(f = k /\ registry.bound[k] = << >>)
      <4>1. registry'.bound[f] = registry.bound[f]
        BY <1>3, <3>3 DEF Fields
      <4>. QED
        BY <3>1, <4>1
    <3>. QED
      BY <3>2, <3>3
  <2>. QED
    BY <1>1, <1>3, <2>1, <2>2 DEF AsUserLeftIt
<1>5. Borrows(registry', In(registry.readback))
  BY <1>1, <1>2, TakenOverBorrows
<1>. QED
  BY <1>3, <1>4, <1>5 DEF Users

\* A get() borrows, and the user's part stays.
LEMMA BindReadbackKeeps ==
  ASSUME Broken = {}, Types, Users, BindReadback
  PROVE  Users'
<1>1. registry \in Registry /\ SameForUser(registry, registry)
  BY DEF Types, SameForUser
<1>2. registry \in Lent(registry)
  BY <1>1 DEF Lent, Users
<1>3. KeptByBinding(Lent(registry)) /\ KeptByProvenance(Lent(registry))
  BY <1>1, LentBinds
<1>4. PICK x \in Registry :
        /\ x \in Lent(registry)
        /\ registry'.store = x.store /\ registry'.bound = x.bound
        /\ registry'.readback = x.readback
  BY <1>2, <1>3, ReadbackBound
<1>5. SameForUser(registry, x) /\ Borrows(x, In(x.readback))
  BY <1>4 DEF Lent
<1>6. SameForUser(registry, registry') /\ Borrows(registry', In(registry'.readback))
  BY <1>4, <1>5 DEF SameForUser, Borrows
<1>7. AsUserLeftIt(registry', mine, wanted)
  BY <1>6, SameIsLeft DEF Users
<1>8. mine' = mine /\ wanted' = wanted
  BY DEF BindReadback
<1>. QED
  BY <1>6, <1>7, <1>8 DEF Users

\* It gives back what it borrowed, and the user's part stays.
LEMMA UnbindReadbackKeeps ==
  ASSUME Types, Users, UnbindReadback
  PROVE  Users'
<1>1. registry \in Registry
  BY DEF Types
<1>. DEFINE x == UnboundAll(registry)
<1>2. SameForUser(registry, x) /\ Borrows(x, {})
  BY <1>1, AllGivenBack DEF Users
<1>3. x \in Registry
  <2>1. registry \in Registry /\ KeptByUnregistering(Registry)
    BY <1>1, EverythingUnregisters
  <2>. QED
    BY <2>1, UnbindingKeeps
<1>4. registry' = [x EXCEPT !.readback = << >>]
  BY DEF UnbindReadback
<1>. HIDE DEF x
<1>5. registry'.store = x.store /\ registry'.bound = x.bound /\ registry'.readback = << >>
  BY <1>3, <1>4 DEF Registry
<1>6. SameForUser(registry, registry') /\ Borrows(registry', {})
  BY <1>2, <1>5 DEF SameForUser, Borrows
<1>7. AsUserLeftIt(registry', mine, wanted)
  BY <1>6, SameIsLeft DEF Users
<1>8. mine' = mine /\ wanted' = wanted
  BY DEF UnbindReadback
<1>. QED
  BY <1>5, <1>6, <1>7, <1>8, InNone DEF Users

\* Users is inductive, for users that keep to the conditions.
LEMMA NextUsers ==
  ASSUME Broken = {}, ~Rebind, ~OwnReadback, ~KeepUnbound,
         Types, Types', Users, [Next]_vars
  PROVE  Users'
<1>1. ASSUME registry' = registry, mine' = mine, wanted' = wanted
      PROVE  Users'
  BY <1>1 DEF Users
<1>2. CASE UNCHANGED vars
  BY <1>1, <1>2 DEF vars
<1>3. ASSUME NEW p \in Names, Register(p) \/ Unregister(p)
      PROVE  Users'
  BY <1>3, RegisterKeeps, UnregisterKeeps
<1>4. ASSUME NEW p \in Names, NEW k \in Fields \cup {All}, Bind(p, k)
      PROVE  Users'
  BY <1>4, BindKeeps
<1>10. ASSUME NEW p \in Names, NEW k \in Fields \cup {All}, NEW spelling \in Spellings,
              Unbind(p, k, spelling)
       PROVE  Users'
  <2>1. Unbind(p, k, "key") \/ UNCHANGED vars
    BY <1>10, UnbindReaches
  <2>. QED
    BY <1>2, <2>1, UnbindKeeps
<1>5. ASSUME NEW what \in {"get", "put"}, Begin(what)
      PROVE  Users'
  BY <1>1, <1>5 DEF Begin
<1>6. ASSUME NEW f \in Fields, Transfer(f)
      PROVE  Users'
  <2>1. f \in Keys \ {All}
    BY DEF Fields
  <2>. QED
    BY <1>6, <2>1, TakingOverKeeps DEF Transfer
<1>7. ASSUME NEW k \in Keys, ReadProvenance(k)
      PROVE  Users'
  <2>1. Provenance \in Keys \ {All}
    BY KeysAssumption
  <2>. QED
    BY <1>7, <2>1, TakingOverKeeps DEF ReadProvenance
<1>8. CASE EndPut
  BY <1>1, <1>8 DEF EndPut
<1>9. CASE EndGet
  BY <1>1, <1>9 DEF EndGet
<1>. QED
  BY <1>2, <1>3, <1>4, <1>5, <1>6, <1>7, <1>8, <1>9, <1>10, BindReadbackKeeps,
     UnbindReadbackKeeps DEF Next

\* Nothing borrowed, the registry is the user's.
LEMMA NothingBorrowed ==
  ASSUME Types, Users, registry \in Sound
  PROVE  RegistryIsUsers
<1>. SUFFICES ASSUME registry.readback = << >>
              PROVE  /\ \A p \in Names : registry.store[p] # "absent" <=> p \in mine
                     /\ registry.bound[All] = wanted[All]
                     /\ \A k \in Fields : \/ registry.bound[k] = wanted[k]
                                          \/ wanted[k] = << >> /\ registry.bound[k] = wanted[All]
                     /\ Range(registry.bound[Provenance]) \subseteq mine
  BY DEF RegistryIsUsers
<1>1. AsUserLeftIt(registry, mine, wanted) /\ Borrows(registry, {})
  BY InNone DEF Users
<1>2. registry \in Registry /\ All \in Keys /\ Fields \subseteq Keys
  BY KeysAssumption DEF Types, Fields
<1>3. \A p \in Names : registry.store[p] # "absent" <=> p \in mine
  <2>1. \A p \in Names : p \in OfUser \/ p \in ReadbackNames
    BY DEF OfUser
  <2>2. \A p \in ReadbackNames : registry.store[p] = "absent" /\ p \notin OfUser
    BY <1>1 DEF Borrows, OfUser
  <2>. QED
    BY <1>1, <2>1, <2>2 DEF AsUserLeftIt
<1>4. ASSUME NEW k \in Keys
      PROVE  Among(registry.bound[k], OfUser) = registry.bound[k]
  <2>1. registry.bound[k] \in Seq(Names) /\ In(registry.bound[k]) \subseteq Names
    BY <1>2, BoundAreNames
  <2>2. In(registry.bound[k]) \subseteq OfUser
    BY <1>1, <2>1 DEF Borrows, OfUser
  <2>. QED
    BY <2>1, <2>2, AmongSame
<1>5. registry.bound[All] = wanted[All]
  BY <1>1, <1>2, <1>4 DEF AsUserLeftIt
<1>6. \A k \in Fields : \/ registry.bound[k] = wanted[k]
                        \/ wanted[k] = << >> /\ registry.bound[k] = wanted[All]
  BY <1>1, <1>2, <1>4 DEF AsUserLeftIt
<1>7. Range(registry.bound[Provenance]) \subseteq mine
  <2>1. Provenance \in Keys
    BY KeysAssumption
  <2>2. registry.bound[Provenance] \in Seq(Names) /\ In(registry.bound[Provenance]) \subseteq Names
    BY <1>2, <2>1, BoundAreNames
  <2>3. Range(registry.bound[Provenance]) = In(registry.bound[Provenance])
    BY <2>2, InType
  <2>4. \A p \in In(registry.bound[Provenance]) : registry.store[p] = "loaded"
    BY <2>1 DEF Sound, LoadedOnly
  <2>. QED
    BY <1>3, <2>2, <2>3, <2>4
<1>. QED
  BY <1>3, <1>5, <1>6, <1>7

\* Between operations the registry is what the user made it: every readback plugin
\* that bind_readback_plugins() registered is gone with its bindings, also when a
\* get() before failed at a plugin of another version, and what a get() leaves
\* bound to the provenance nodes are plugins of the user.
THEOREM RegistryComesBack ==
  ASSUME Broken = {}, ~Rebind, ~OwnReadback, ~KeepUnbound
  PROVE  Spec => []RegistryIsUsers
<1>. DEFINE Inv == Types /\ registry \in Sound /\ Users
<1>1. Init => Inv
  BY InitTypes, InitSound, InitUsers
<1>2. Inv /\ [Next]_vars => Inv'
  BY NextTypes, NextSound, NextUsers
<1>3. Inv => RegistryIsUsers
  BY NothingBorrowed
<1>. QED
  BY <1>1, <1>2, <1>3, PTL DEF Spec

-------------------------------------------------------------------------------
(***************************************************************************)
(* The order of the readback plugins.                                      *)
(***************************************************************************)
Before(s, a, b) == \E i, j \in 1..Len(s) : s[i] = a /\ s[j] = b /\ i < j

\* To append leaves the order, and puts the new one behind all.
LEMMA BeforeAppend ==
  ASSUME NEW A, NEW s \in Seq(A), NEW x \in A
  PROVE  /\ \A a, b : Before(s, a, b) => Before(Append(s, x), a, b)
         /\ \A a \in In(s) : Before(Append(s, x), a, x)
<1>. DEFINE t == Append(s, x)
            N == Len(s)
<1>1. /\ N \in Nat /\ Len(t) = N + 1 /\ t[N + 1] = x
      /\ \A i \in 1..N : t[i] = s[i]
  BY AppendProperties, LenProperties
<1>. HIDE DEF t, N
<1>2. \A i \in 1..N : i \in 1..(N + 1) /\ i < N + 1
  BY <1>1
<1>3. ASSUME NEW a, NEW b, Before(s, a, b)
      PROVE  Before(t, a, b)
  <2>1. PICK i, j \in 1..N : s[i] = a /\ s[j] = b /\ i < j
    BY <1>3 DEF Before, N
  <2>2. t[i] = a /\ t[j] = b /\ i \in 1..(N + 1) /\ j \in 1..(N + 1)
    BY <1>1, <1>2, <2>1
  <2>. QED
    BY <1>1, <2>1, <2>2 DEF Before
<1>4. ASSUME NEW a \in In(s)
      PROVE  Before(t, a, x)
  <2>1. PICK i \in 1..N : s[i] = a
    BY DEF In, N
  <2>2. t[i] = a /\ i \in 1..(N + 1) /\ i < N + 1 /\ N + 1 \in 1..(N + 1)
    BY <1>1, <1>2, <2>1
  <2>. QED
    BY <1>1, <2>2 DEF Before
<1>. QED
  BY <1>3, <1>4 DEF t

\* No element of S twice.
OnceIn(s, S) == \A i, j \in 1..Len(s) : s[i] \in S /\ s[i] = s[j] => i = j

\* Without the last element nothing is repeated either, and it is new.
LEMMA OnceInAppend ==
  ASSUME NEW A, NEW s \in Seq(A), NEW x \in A, NEW S, OnceIn(Append(s, x), S)
  PROVE  OnceIn(s, S) /\ (x \in S => x \notin In(s))
<1>. DEFINE t == Append(s, x)
            N == Len(s)
<1>1. /\ N \in Nat /\ Len(t) = N + 1 /\ t[N + 1] = x
      /\ \A i \in 1..N : t[i] = s[i]
  BY AppendProperties, LenProperties
<1>2. /\ \A i \in 1..N : i \in 1..(N + 1) /\ i # N + 1
      /\ N + 1 \in 1..(N + 1)
  BY <1>1
<1>3. OnceIn(t, S)
  OBVIOUS
<1>. HIDE DEF t, N
<1>4. OnceIn(s, S)
  BY <1>1, <1>2, <1>3 DEF OnceIn, N
<1>5. ASSUME x \in S, NEW i \in 1..N, s[i] = x
      PROVE  FALSE
  BY <1>1, <1>2, <1>3, <1>5 DEF OnceIn
<1>. QED
  BY <1>4, <1>5 DEF In, N

\* What is kept is without repetition if the wanted part was.
LEMMA AmongOnceIn ==
  ASSUME NEW A, NEW s \in Seq(A), NEW S, OnceIn(s, S)
  PROVE  Once(Among(s, S))
<1>. DEFINE T == {t \in Seq(A) : OnceIn(t, S) => Once(Among(t, S))}
<1>1. << >> \in T
  <2>1. Once(<< >>)
    BY EmptySeq DEF Once
  <2>. QED
    BY <2>1, AmongNone, EmptySeq
<1>2. ASSUME NEW t \in Seq(A), NEW x \in A, t \in T
      PROVE  Append(t, x) \in T
  <2>. SUFFICES ASSUME OnceIn(Append(t, x), S)
                PROVE  Once(Among(Append(t, x), S))
    BY AppendProperties
  <2>1. OnceIn(t, S) /\ (x \in S => x \notin In(t))
    BY OnceInAppend
  <2>2. Once(Among(t, S)) /\ Among(t, S) \in Seq(A) /\ In(Among(t, S)) = In(t) \cap S
    BY <1>2, <2>1, InAmong, AmongType
  <2>3. CASE x \in S
    <3>1. Once(Append(Among(t, S), x))
      BY <2>1, <2>2, <2>3, OnceAppend
    <3>. QED
      BY <2>3, <3>1, AmongAppend
  <2>4. CASE x \notin S
    BY <2>2, <2>4, AmongAppend
  <2>. QED
    BY <2>3, <2>4
<1>. HIDE DEF T
<1>3. \A t \in Seq(A) : t \in T
  BY <1>1, <1>2, ByAppending
<1>. QED
  BY <1>3 DEF T

\* No two plugins name the same one to read back.
OneEach ==
  \A p, q \in Names : Readback[p].name = Readback[q].name /\ Readback[p].name # None => p = q

\* No readback plugin is there twice in what a put() stores of a node.
LEMMA InfosDiffer ==
  ASSUME OneEach, registry \in Registry, NEW k \in Keys, Once(registry.bound[k])
  PROVE  \A i, j \in 1..Len(Infos(k)) : Infos(k)[i].name = Infos(k)[j].name => i = j
<1>. DEFINE PP == PutPlugins(k)
            A == [name : Names \cup {None}, index : Nat]
            all == [i \in 1..Len(PP) |-> Readback[PP[i]]]
<1>1. Len(PP) \in Nat /\ \A i \in 1..Len(PP) : PP[i] \in Names
  BY PutPluginsType
<1>2. Readback \in [Names -> A] /\ None \notin Names
  BY PluginsAssumption, KeysAssumption
<1>3. Once(PP)
  <2>1. registry.bound[k] \in Seq(Names)
    BY BoundAreNames
  <2>. QED
    BY <2>1, AmongOnce DEF PutPlugins
<1>. HIDE DEF PP, A
<1>4. all \in [1..Len(PP) -> A]
  BY <1>1, <1>2
<1>5. all \in Seq(A) /\ Len(all) = Len(PP) /\ \A i \in 1..Len(PP) : all[i] = Readback[PP[i]]
  BY <1>1, <1>4, SeqDef, LenProperties
<1>6. Infos(k) = Among(all, Readable)
  BY DEF Infos, PP, Readable
<1>. HIDE DEF all
<1>7. OnceIn(all, Readable)
  <2>. SUFFICES ASSUME NEW i \in 1..Len(PP), NEW j \in 1..Len(PP),
                       all[i] \in Readable, all[i] = all[j]
                PROVE  i = j
    BY <1>5 DEF OnceIn
  <2>1. Readback[PP[i]].name \in Names
    BY <1>5 DEF Readable
  <2>2. PP[i] = PP[j]
    BY <1>1, <1>2, <1>5, <2>1 DEF OneEach
  <2>. QED
    BY <1>3, <2>2 DEF Once
<1>8. Once(Infos(k))
  BY <1>5, <1>6, <1>7, AmongOnceIn
<1>. SUFFICES ASSUME NEW i \in 1..Len(Infos(k)), NEW j \in 1..Len(Infos(k)),
                     Infos(k)[i].name = Infos(k)[j].name
              PROVE  i = j
  OBVIOUS
<1>9. PICK p \in Names : Infos(k)[i] = Readback[p]
  BY InfosType
<1>10. PICK q \in Names : Infos(k)[j] = Readback[q]
  BY InfosType
<1>11. Infos(k)[i].name # None
  BY <1>2, InfosType DEF Readable
<1>12. p = q
  BY <1>9, <1>10, <1>11 DEF OneEach
<1>. QED
  BY <1>8, <1>9, <1>10, <1>12 DEF Once

\* s has the names of the infos of a key from index m on, the highest first.
Descends(k, m, s) ==
  /\ Once(s)
  /\ \A j \in 1..Len(Infos(k)) : Infos(k)[j].name \in In(s) <=> Infos(k)[j].index >= m
  /\ \A i, j \in 1..Len(Infos(k)) :
       Infos(k)[i].index >= m /\ Infos(k)[i].index < Infos(k)[j].index =>
         Before(s, Infos(k)[j].name, Infos(k)[i].name)

\* A turn adds the name of the next lower index, if there is one.
LEMMA SortTurnDescends ==
  ASSUME OneEach, registry \in Registry, NEW k \in Keys, Once(registry.bound[k]), ValidInfos(k),
         NEW n \in 1..Len(PutPlugins(k)), NEW s \in Seq(ReadbackNames),
         Descends(k, Len(PutPlugins(k)) - (n - 1), s)
  PROVE  Descends(k, Len(PutPlugins(k)) - n, SortTurn(k, n, s))
<1>. DEFINE N == Len(PutPlugins(k))
            m == N - n
            I == Infos(k)
            M == Len(I)
            t == SortTurn(k, n, s)
<1>1. /\ N \in Nat /\ M \in Nat /\ m \in Nat /\ N - (n - 1) = m + 1
      /\ \A j \in 1..M : I[j].index \in Nat /\ I[j].name \in ReadbackNames
  BY PutPluginsType, InfosType DEF Readable
<1>2. \A i, j \in 1..M : /\ I[i].name = I[j].name => i = j
                         /\ I[i].index = I[j].index => i = j
  BY InfosDiffer DEF ValidInfos
<1>3. Descends(k, m + 1, s)
  BY <1>1
<1>4. /\ Once(s)
      /\ \A j \in 1..M : I[j].name \in In(s) <=> I[j].index >= m + 1
      /\ \A i, j \in 1..M : I[i].index >= m + 1 /\ I[i].index < I[j].index =>
                              Before(s, I[j].name, I[i].name)
  BY <1>3 DEF Descends
<1>5. CASE At(k, m) = {}
  <2>1. t = s
    BY <1>5 DEF SortTurn
  <2>2. \A j \in 1..M : I[j].index # m
    BY <1>5 DEF At
  <2>. HIDE DEF t, m, N, I
  <2>3. \A j \in 1..M : I[j].index >= m <=> I[j].index >= m + 1
    BY <1>1, <2>2
  <2>4. Descends(k, m, s)
    BY <1>4, <2>3 DEF Descends, I
  <2>. QED
    BY <2>1, <2>4 DEF t, m, N
<1>6. CASE At(k, m) # {}
  <2>. DEFINE c == CHOOSE j \in At(k, m) : TRUE
              x == I[c].name
  <2>1. c \in At(k, m)
    BY <1>6
  <2>2. t = Append(s, x)
    BY <1>6 DEF SortTurn
  <2>. HIDE DEF c, t
  <2>3. c \in 1..M /\ I[c].index = m /\ x \in ReadbackNames
    BY <1>1, <2>1 DEF At
  <2>. HIDE DEF m, N, I
  <2>4. x \notin In(s)
    BY <1>1, <1>4, <2>3
  <2>5. Once(t) /\ In(t) = In(s) \cup {x}
    BY <1>4, <2>2, <2>3, <2>4, OnceAppend, InAppend
  <2>6. /\ \A a, b : Before(s, a, b) => Before(t, a, b)
        /\ \A a \in In(s) : Before(t, a, x)
    BY <2>2, <2>3, BeforeAppend
  <2>7. \A j \in 1..M : I[j].index >= m <=> (I[j].index >= m + 1 \/ j = c)
    BY <1>1, <1>2, <2>3
  <2>8. \A j \in 1..M : I[j].name = x => j = c
    BY <1>2, <2>3
  <2>9. \A j \in 1..M : I[j].name \in In(t) <=> I[j].index >= m
    BY <1>4, <2>3, <2>5, <2>7, <2>8
  <2>10. ASSUME NEW i \in 1..M, NEW j \in 1..M, I[i].index >= m, I[i].index < I[j].index
         PROVE  Before(t, I[j].name, I[i].name)
    <3>1. CASE i = c
      <4>1. I[j].index >= m + 1
        BY <1>1, <2>3, <2>10, <3>1
      <4>. QED
        BY <1>4, <2>6, <3>1, <4>1
    <3>2. CASE i # c
      BY <1>4, <2>6, <2>7, <2>10, <3>2
    <3>. QED
      BY <3>1, <3>2
  <2>11. Descends(k, m, t)
    BY <2>5, <2>9, <2>10 DEF Descends, I
  <2>. QED
    BY <2>11 DEF t, m, N
<1>. QED
  BY <1>5, <1>6

\* The names that a put() stores of a node, each once, the highest index first.
LEMMA EntryDescends ==
  ASSUME OneEach, registry \in Registry, NEW k \in Keys, Once(registry.bound[k]), ValidInfos(k)
  PROVE  Descends(k, 0, Sorted(k))
<1>. DEFINE N == Len(PutPlugins(k))
            J == [n \in Nat |-> {s \in Seq(ReadbackNames) : Descends(k, N - n, s)}]
<1>1. N \in Nat /\ N - 0 = N /\ N - N = 0
  BY PutPluginsType
<1>2. << >> \in J[0]
  <2>1. \A j \in 1..Len(Infos(k)) : Infos(k)[j].index \in Nat /\ Infos(k)[j].index < N
    <3>1. \A j \in 1..Len(Infos(k)) : Infos(k)[j].index < N
      BY DEF ValidInfos
    <3>. QED
      BY <3>1, InfosType DEF Readable
  <2>2. Once(<< >>)
    BY EmptySeq DEF Once
  <2>. HIDE DEF N
  <2>3. Descends(k, N, << >>)
    BY <1>1, <2>1, <2>2, InNone DEF Descends
  <2>. QED
    BY <1>1, <2>3
<1>3. ASSUME NEW n \in 1..N, NEW x \in Seq(ReadbackNames), x \in J[n - 1]
      PROVE  SortTurn(k, n, x) \in J[n]
  <2>1. n - 1 \in Nat /\ n \in Nat
    BY <1>1
  <2>2. Descends(k, N - (n - 1), x)
    BY <1>3, <2>1
  <2>3. Descends(k, N - n, SortTurn(k, n, x))
    BY <2>2, SortTurnDescends
  <2>4. SortTurn(k, n, x) \in Seq(ReadbackNames)
    BY <2>1, SortTurnType
  <2>. QED
    BY <2>1, <2>3, <2>4
<1>. HIDE DEF J
<1>4. Sorted(k) \in J[N]
  BY <1>2, <1>3, SortedEnds
<1>5. Descends(k, N - N, Sorted(k))
  BY <1>1, <1>4 DEF J
<1>. QED
  BY <1>1, <1>5

-------------------------------------------------------------------------------
\* What the plugins for readback are like.
ReadsBack ==
  /\ Broken \cap ReadbackNames = {}
  /\ \A p \in ReadbackNames : p \notin Mismatched /\ \A k \in Keys : NodeOperation[p][k] # "PUT_ONLY"

\* No plugin twice at a node, and nothing for readback but what is borrowed.
Well(x) == (\A k \in Keys : Once(x.bound[k])) /\ Borrows(x, In(x.readback))

KeptOrder(x, y) ==
  \A k \in Keys : \A a, b : Before(x.bound[k], a, b) => Before(y.bound[k], a, b)

\* To bind one more leaves a well-formed registry, and the order of each node.
LEMMA ReadbackTurn ==
  ASSUME ReadsBack, NEW x \in Registry, x.ok, Well(x), NEW k \in Keys, NEW p \in ReadbackNames
  PROVE  LET y == BindReadbackPlugin(x, k, p)
         IN  /\ y \in Registry /\ y.ok /\ Well(y)
             /\ \A j \in Keys \ {k} : y.bound[j] = x.bound[j]
             /\ y.bound[k] = IF p \in In(x.bound[k]) THEN x.bound[k] ELSE Append(x.bound[k], p)
<1>. DEFINE y == BindReadbackPlugin(x, k, p)
<1>0. Broken \cap ReadbackNames = {} /\ p \in Names /\ ~Fails(x, p)
  BY ReadbackAreNames DEF ReadsBack, Fails
<1>1. y \in Registry
  BY <1>0, BindReadbackPluginIs
<1>2. y.ok
  <2>1. NodeOperation[p][k] # "PUT_ONLY" /\ p \notin Mismatched
    BY DEF ReadsBack
  <2>. QED
    BY <1>0, <2>1, BindReadbackPluginIs
<1>3. /\ \A j \in Keys \ {k} : y.bound[j] = x.bound[j]
      /\ y.bound[k] = IF p \in In(x.bound[k]) THEN x.bound[k] ELSE Append(x.bound[k], p)
  BY <1>0, ReadbackPluginBound
<1>4. Borrows(y, In(y.readback))
  <2>1. x \in Lent(x) /\ KeptByBinding(Lent(x))
    <3>1. SameForUser(x, x)
      BY DEF SameForUser
    <3>. QED
      BY <1>0, <3>1, LentBinds DEF Lent, Well
  <2>2. y \in Lent(x)
    BY <2>1 DEF KeptByBinding
  <2>. HIDE DEF y
  <2>. QED
    BY <2>2 DEF Lent
<1>. HIDE DEF y
<1>5. Once(y.bound[k])
  <2>1. x.bound[k] \in Seq(Names) /\ Once(x.bound[k])
    BY BoundAreNames DEF Well
  <2>2. p \notin In(x.bound[k]) => Once(Append(x.bound[k], p))
    BY <1>0, <2>1, OnceAppend
  <2>. QED
    BY <1>3, <2>1, <2>2
<1>6. \A j \in Keys : Once(y.bound[j])
  BY <1>3, <1>5 DEF Well
<1>. QED
  BY <1>1, <1>2, <1>3, <1>4, <1>6 DEF Well, y

\* The last n plugins of a list are bound at a node, the last of them first.
Follows(l, n, b) ==
  /\ In(b) \cap ReadbackNames = {l[i] : i \in (Len(l) - n + 1)..Len(l)}
  /\ \A i, j \in (Len(l) - n + 1)..Len(l) : j < i => Before(b, l[i], l[j])

\* The next plugin from the end of a list is bound behind those after it.
LEMMA FollowsTurn ==
  ASSUME NEW l \in Seq(ReadbackNames), Once(l), NEW n \in 1..Len(l),
         NEW b \in Seq(Names), Follows(l, n - 1, b)
  PROVE  /\ l[Len(l) + 1 - n] \notin In(b)
         /\ Follows(l, n, Append(b, l[Len(l) + 1 - n]))
<1>. DEFINE N == Len(l)
            m == N + 1 - n
            p == l[m]
            c == Append(b, p)
<1>1. /\ N \in Nat /\ m \in 1..N /\ N - (n - 1) + 1 = m + 1 /\ N - n + 1 = m
      /\ \A i \in 1..N : l[i] \in ReadbackNames
  BY LenProperties
<1>. HIDE DEF m
<1>2. /\ In(b) \cap ReadbackNames = {l[i] : i \in (m + 1)..N}
      /\ \A i, j \in (m + 1)..N : j < i => Before(b, l[i], l[j])
  BY <1>1 DEF Follows
<1>3. /\ \A i \in m..N : i \in 1..N /\ (i = m \/ i \in (m + 1)..N)
      /\ \A i \in (m + 1)..N : i \in m..N /\ i # m /\ i \in 1..N
      /\ m \in m..N
  BY <1>1
<1>4. p \in ReadbackNames /\ p \in Names /\ p \notin In(b)
  <2>1. \A i \in (m + 1)..N : l[i] # p
    BY <1>1, <1>3 DEF Once
  <2>2. p \in ReadbackNames
    BY <1>1
  <2>. HIDE DEF p
  <2>. QED
    BY <1>2, <2>1, <2>2, ReadbackAreNames
<1>. HIDE DEF p, N
<1>5. /\ In(c) = In(b) \cup {p}
      /\ \A x, y : Before(b, x, y) => Before(c, x, y)
      /\ \A x \in In(b) : Before(c, x, p)
  BY <1>4, InAppend, BeforeAppend
<1>. HIDE DEF c
<1>6. In(c) \cap ReadbackNames = {l[i] : i \in m..N}
  <2>1. {l[i] : i \in m..N} = {l[i] : i \in (m + 1)..N} \cup {p}
    BY <1>3 DEF p
  <2>. QED
    BY <1>2, <1>4, <1>5, <2>1
<1>7. ASSUME NEW i \in m..N, NEW j \in m..N, j < i
      PROVE  Before(c, l[i], l[j])
  <2>1. i \in (m + 1)..N
    BY <1>1, <1>7
  <2>2. CASE j = m
    <3>1. l[i] \in In(b)
      BY <1>2, <2>1
    <3>. QED
      BY <1>5, <2>2, <3>1 DEF p
  <2>3. CASE j # m
    <3>1. j \in (m + 1)..N
      BY <1>3, <2>3
    <3>. QED
      BY <1>2, <1>5, <1>7, <2>1, <3>1
  <2>. QED
    BY <2>2, <2>3
<1>8. Follows(l, n, c)
  BY <1>1, <1>6, <1>7 DEF Follows, N
<1>. QED
  BY <1>4, <1>8 DEF c, p, m, N

\* The plugins of an entry are bound in the order opposite to that on file.
Reads(x, e) ==
  \A i, j \in 1..Len(e.plugins) : j < i => Before(x.bound[e.node], e.plugins[i], e.plugins[j])

Unread(x, k) == In(x.bound[k]) \cap ReadbackNames = {}

\* An entry is bound at its node, backwards, and nothing else changes.
LEMMA EntryReads ==
  ASSUME ReadsBack, NEW e \in ReadbackEntries, Once(e.plugins),
         NEW x \in Registry, x.ok, Well(x), Unread(x, e.node)
  PROVE  LET y == BindEntry(x, e)
         IN  /\ y \in Registry /\ y.ok /\ Well(y) /\ Reads(y, e)
             /\ \A k \in Keys \ {e.node} : y.bound[k] = x.bound[k]
<1>. DEFINE l == e.plugins
            N == Len(l)
            k == e.node
            J == [n \in Nat |-> {z \in Registry :
                    /\ z.ok /\ Well(z) /\ Follows(l, n, z.bound[k])
                    /\ \A j \in Keys \ {k} : z.bound[j] = x.bound[j]}]
<1>1. /\ e \in Entries /\ k \in Keys /\ l \in Seq(Names) /\ In(l) \subseteq ReadbackNames
  BY DEF ReadbackEntries, Entries
<1>2. l \in Seq(ReadbackNames) /\ N \in Nat
  BY <1>1, SeqOfIn, LenProperties
<1>3. x \in J[0]
  <2>1. (N - 0 + 1)..N = {}
    BY <1>2
  <2>2. Follows(l, 0, x.bound[k])
    BY <2>1 DEF Follows, Unread
  <2>. HIDE DEF l, k
  <2>. QED
    BY <2>2
<1>4. ASSUME NEW n \in 1..N, NEW z \in Registry, z \in J[n - 1]
      PROVE  BindReadbackPlugin(z, k, l[N + 1 - n]) \in J[n]
  <2>1. n - 1 \in Nat /\ n \in Nat /\ N + 1 - n \in 1..N
    BY <1>2
  <2>. DEFINE p == l[N + 1 - n]
              y == BindReadbackPlugin(z, k, p)
  <2>2. p \in ReadbackNames /\ p \in Names
    BY <1>2, <2>1, ReadbackAreNames
  <2>3. /\ z.ok /\ Well(z) /\ Follows(l, n - 1, z.bound[k])
        /\ \A j \in Keys \ {k} : z.bound[j] = x.bound[j]
    BY <1>4, <2>1
  <2>4. z.bound[k] \in Seq(Names) /\ Once(l)
    BY <1>1, BoundAreNames
  <2>. HIDE DEF l, k
  <2>5. p \notin In(z.bound[k]) /\ Follows(l, n, Append(z.bound[k], p))
    BY <1>2, <2>3, <2>4, FollowsTurn
  <2>. HIDE DEF p
  <2>6. /\ y \in Registry /\ y.ok /\ Well(y)
        /\ \A j \in Keys \ {k} : y.bound[j] = z.bound[j]
        /\ y.bound[k] = IF p \in In(z.bound[k]) THEN z.bound[k] ELSE Append(z.bound[k], p)
    BY <1>1, <2>2, <2>3, ReadbackTurn
  <2>. HIDE DEF y
  <2>7. y \in J[n]
    BY <2>1, <2>3, <2>5, <2>6
  <2>. QED
    BY <2>7 DEF y, p
<1>. HIDE DEF J
<1>. DEFINE y == BindEntry(x, e)
<1>5. y \in Registry /\ y \in J[N]
  BY <1>1, <1>3, <1>4, BindEntryEnds
<1>. HIDE DEF y
<1>6. /\ y.ok /\ Well(y) /\ Follows(l, N, y.bound[k])
      /\ \A j \in Keys \ {k} : y.bound[j] = x.bound[j]
  BY <1>2, <1>5 DEF J
<1>7. Reads(y, e)
  <2>1. N - N + 1 = 1
    BY <1>2
  <2>. QED
    BY <1>6, <2>1 DEF Follows, Reads
<1>. QED
  BY <1>5, <1>6, <1>7 DEF y

\* What is on file: every node once, with no plugin twice.
WellStored(s) ==
  /\ \A i, j \in 1..Len(s) : s[i].node = s[j].node => i = j
  /\ \A i \in 1..Len(s) : Once(s[i].plugins)

\* All entries are: no node has two of them.
LEMMA EntriesRead ==
  ASSUME ReadsBack, NEW s \in Seq(ReadbackEntries), WellStored(s),
         NEW x \in Registry, x.ok, Well(x), \A k \in Keys : Unread(x, k)
  PROVE  LET y == BindEntries(x, s)
         IN  y \in Registry /\ y.ok /\ Well(y) /\ \A i \in 1..Len(s) : Reads(y, s[i])
<1>. DEFINE N == Len(s)
            J == [n \in Nat |-> {z \in Registry :
                    /\ z.ok /\ Well(z) /\ \A i \in 1..n : Reads(z, s[i])
                    /\ \A k \in Keys : (\A i \in 1..n : s[i].node # k) => Unread(z, k)}]
<1>1. /\ N \in Nat /\ s \in Seq(Entries)
      /\ \A i \in 1..N : s[i] \in ReadbackEntries /\ s[i].node \in Keys
  <2>1. In(s) \subseteq ReadbackEntries /\ ReadbackEntries \subseteq Entries
    BY InType DEF ReadbackEntries
  <2>2. s \in Seq(Entries)
    BY <2>1, SeqOfIn
  <2>3. \A i \in 1..N : s[i] \in ReadbackEntries
    BY SeqOfIn, <2>1
  <2>4. \A e \in ReadbackEntries : e.node \in Keys
    BY DEF ReadbackEntries, Entries
  <2>. QED
    BY <2>2, <2>3, <2>4, LenProperties
<1>2. x \in J[0]
  BY <1>1
<1>3. ASSUME NEW n \in 1..N, NEW z \in Registry, z \in J[n - 1]
      PROVE  BindEntry(z, s[n]) \in J[n]
  <2>1. n - 1 \in Nat /\ n \in Nat /\ (\A i \in 1..n : i \in 1..N /\ (i \in 1..(n - 1) \/ i = n))
        /\ (\A i \in 1..(n - 1) : i \in 1..N /\ i # n /\ i \in 1..n) /\ n \in 1..n
    BY <1>1
  <2>2. /\ z.ok /\ Well(z) /\ \A i \in 1..(n - 1) : Reads(z, s[i])
        /\ \A k \in Keys : (\A i \in 1..(n - 1) : s[i].node # k) => Unread(z, k)
    BY <1>3, <2>1
  <2>. DEFINE e == s[n]
              y == BindEntry(z, e)
  <2>3. e \in ReadbackEntries /\ e.node \in Keys /\ Once(e.plugins)
    BY <1>1 DEF WellStored
  <2>4. \A i \in 1..(n - 1) : s[i].node # e.node
    BY <2>1 DEF WellStored
  <2>5. Unread(z, e.node)
    BY <2>2, <2>3, <2>4
  <2>. HIDE DEF e
  <2>6. /\ y \in Registry /\ y.ok /\ Well(y) /\ Reads(y, e)
        /\ \A k \in Keys \ {e.node} : y.bound[k] = z.bound[k]
    BY <2>2, <2>3, <2>5, EntryReads
  <2>. HIDE DEF y
  <2>7. \A i \in 1..(n - 1) : Reads(y, s[i])
    BY <1>1, <2>1, <2>2, <2>4, <2>6 DEF Reads
  <2>8. \A i \in 1..n : Reads(y, s[i])
    BY <2>1, <2>6, <2>7 DEF e
  <2>9. ASSUME NEW k \in Keys, \A i \in 1..n : s[i].node # k
        PROVE  Unread(y, k)
    <3>1. Unread(z, k) /\ k # e.node
      BY <2>1, <2>2, <2>9 DEF e
    <3>. QED
      BY <2>6, <3>1 DEF Unread
  <2>10. y \in J[n]
    BY <2>1, <2>6, <2>8, <2>9
  <2>. QED
    BY <2>10 DEF y, e
<1>. HIDE DEF J
<1>. DEFINE y == BindEntries(x, s)
<1>4. y \in Registry /\ y \in J[N]
  BY <1>1, <1>2, <1>3, BindEntriesEnd
<1>. HIDE DEF y
<1>5. y.ok /\ Well(y) /\ \A i \in 1..N : Reads(y, s[i])
  BY <1>1, <1>4 DEF J
<1>. QED
  BY <1>4, <1>5 DEF y

\* Order kept twice is kept.
LEMMA KeptTransitive ==
  ASSUME NEW x, NEW y, NEW z, KeptOrder(x, y), KeptOrder(y, z)
  PROVE  KeptOrder(x, z)
BY DEF KeptOrder

\* The bindings to the provenance nodes come behind those already there.
LEMMA ProvenanceOrder ==
  ASSUME ReadsBack, NEW r \in Registry, r.ok, Well(r)
  PROVE  LET y == BindProvenance(r)
         IN  y \in Registry /\ Well(y) /\ KeptOrder(r, y)
<1>. DEFINE I == {z \in Registry : Well(z) /\ KeptOrder(r, z)}
<1>1. r \in I
  BY DEF KeptOrder
<1>2. ASSUME NEW x \in Registry, NEW k \in Keys, NEW p \in In(x.bound[k]), x \in I
      PROVE  BoundTo(x, p, Provenance) \in I
  <2>. DEFINE y == BoundTo(x, p, Provenance)
  <2>1. p \in Names /\ Provenance \in Keys
    BY BoundAreNames, KeysAssumption
  <2>2. Well(x) /\ KeptOrder(r, x)
    BY <1>2
  <2>3. /\ y \in Registry
        /\ \A j \in Keys \ {Provenance} : y.bound[j] = x.bound[j]
        /\ y.bound[Provenance] = (IF p \in In(x.bound[Provenance]) THEN x.bound[Provenance]
                                  ELSE Append(x.bound[Provenance], p))
    BY <2>1, ProvenanceBound
  <2>4. Borrows(y, In(y.readback))
    <3>1. SameForUser(x, x) /\ Broken \cap ReadbackNames = {}
      BY DEF SameForUser, ReadsBack
    <3>2. x \in Lent(x)
      BY <2>2, <3>1 DEF Lent, Well
    <3>3. KeptByProvenance(Lent(x))
      BY <3>1, LentBinds
    <3>4. y \in Lent(x)
      BY <3>2, <3>3 DEF KeptByProvenance
    <3>. HIDE DEF y
    <3>. QED
      BY <3>4 DEF Lent
  <2>. HIDE DEF y
  <2>5. x.bound[Provenance] \in Seq(Names) /\ Once(x.bound[Provenance])
    BY <2>1, <2>2, BoundAreNames DEF Well
  <2>6. /\ p \notin In(x.bound[Provenance]) => Once(Append(x.bound[Provenance], p))
        /\ \A a, b : Before(x.bound[Provenance], a, b) => Before(Append(x.bound[Provenance], p), a, b)
    BY <2>1, <2>5, OnceAppend, BeforeAppend
  <2>7. Well(y)
    BY <2>2, <2>3, <2>4, <2>6 DEF Well
  <2>8. KeptOrder(x, y)
    BY <2>3, <2>6 DEF KeptOrder
  <2>9. KeptOrder(r, y)
    BY <2>2, <2>8, KeptTransitive
  <2>. QED
    BY <2>3, <2>7, <2>9 DEF y
<1>3. KeptByProvenance(I)
  BY <1>2 DEF KeptByProvenance
<1>. HIDE DEF I
<1>4. BindProvenance(r) \in Registry /\ BindProvenance(r) \in I
  BY <1>1, <1>3, ProvenanceKeeps
<1>. QED
  BY <1>4 DEF I

-------------------------------------------------------------------------------
\* What is on file of a node is what the put() meant, in the order to bind it.
WrittenSo(s, w) ==
  /\ WellStored(s)
  /\ \A k \in Keys : (\A i \in 1..Len(s) : s[i].node # k) => w[k] = {}
  /\ \A i \in 1..Len(s) : \A x, y \in w[s[i].node] :
       x.index < y.index => Before(s[i].plugins, y.name, x.name)

InOrder(b, w) ==
  \A k \in Keys : \A x, y \in w[k] : x.index < y.index => Before(b[k], x.name, y.name)

Ordered ==
  /\ mine \subseteq OfUser /\ \A k \in Keys : In(wanted[k]) \subseteq OfUser
  /\ Well(registry)
  /\ WrittenSo(stored, wrote)
  /\ op.readback # "bound" => registry.readback = << >>
  /\ op.readback = "bound" => op.what = "get" /\ InOrder(registry.bound, wrote)

\* Nothing is written or bound at first.
LEMMA InitOrdered == Init => Ordered
<1>. SUFFICES ASSUME Init
              PROVE  Ordered
  OBVIOUS
<1>1. /\ \A k \in Keys : registry.bound[k] = << >> /\ wrote[k] = {} /\ wanted[k] = << >>
      /\ stored = << >> /\ Len(<< >>) = 0 /\ 1..0 = {}
  BY DEF Init, Unbound
<1>2. Well(registry)
  <2>1. \A k \in Keys : Once(registry.bound[k])
    BY <1>1 DEF Once
  <2>. QED
    BY <2>1, InitUsers DEF Users, Well
<1>3. WrittenSo(stored, wrote)
  BY <1>1 DEF WrittenSo, WellStored
<1>. QED
  BY <1>1, <1>2, <1>3, InNone DEF Ordered, Init, NoOp

\* What a put() leaves on file, read from the last, ascends.
LEMMA EndPutOrdered ==
  ASSUME OneEach, Types, Ordered, EndPut
  PROVE  WrittenSo(stored', wrote')
<1>1. /\ registry \in Registry /\ \A k \in Keys : Once(registry.bound[k])
  BY DEF Types, Ordered, Well
<1>2. /\ stored' \in Seq(ReadbackEntries)
      /\ \A i, j \in 1..Len(stored') : stored'[i].node = stored'[j].node => i = j
      /\ \A i \in 1..Len(stored') : /\ stored'[i] = Entry(stored'[i].node)
                                    /\ ValidInfos(stored'[i].node)
      /\ \A k \in Keys :
           IF \E i \in 1..Len(stored') : stored'[i].node = k
           THEN wrote'[k] = Range(Infos(k)) ELSE wrote'[k] = {}
  BY <1>1, EndPutStores
<1>. DEFINE s == stored'
            w == wrote'
<1>3. ASSUME NEW i \in 1..Len(s)
      PROVE  /\ Once(s[i].plugins)
             /\ \A x, y \in w[s[i].node] : x.index < y.index => Before(s[i].plugins, y.name, x.name)
  <2>. DEFINE k == s[i].node
  <2>1. k \in Keys
    <3>1. s[i] \in ReadbackEntries
      BY <1>2
    <3>. QED
      BY <3>1 DEF ReadbackEntries, Entries
  <2>2. s[i].plugins = Sorted(k) /\ ValidInfos(k) /\ w[k] = Range(Infos(k))
    <3>1. s[i] = Entry(k) /\ ValidInfos(k)
      BY <1>2
    <3>2. \E j \in 1..Len(s) : s[j].node = k
      OBVIOUS
    <3>. HIDE DEF k, s, w
    <3>3. s[i].plugins = Sorted(k)
      BY <3>1 DEF Entry
    <3>4. w[k] = Range(Infos(k))
      BY <1>2, <2>1, <3>2 DEF s, w
    <3>. QED
      BY <3>1, <3>3, <3>4
  <2>. HIDE DEF k
  <2>3. Descends(k, 0, Sorted(k))
    BY <1>1, <2>1, <2>2, EntryDescends
  <2>4. ASSUME NEW x \in Range(Infos(k)), NEW y \in Range(Infos(k)), x.index < y.index
        PROVE  Before(Sorted(k), y.name, x.name)
    <3>1. \A z \in Range(Infos(k)) : \E j \in 1..Len(Infos(k)) : z = Infos(k)[j]
      <4>1. Infos(k) \in Seq(Readable)
        BY <1>1, <2>1, InfosType
      <4>. QED
        BY <4>1, InType DEF In
    <3>2. PICK a \in 1..Len(Infos(k)) : x = Infos(k)[a]
      BY <3>1
    <3>3. PICK b \in 1..Len(Infos(k)) : y = Infos(k)[b]
      BY <3>1
    <3>4. Infos(k)[a].index >= 0
      BY <1>1, <2>1, InfosType DEF Readable
    <3>. QED
      BY <2>3, <2>4, <3>2, <3>3, <3>4 DEF Descends
  <2>5. Once(s[i].plugins)
    BY <2>2, <2>3 DEF Descends
  <2>6. \A x, y \in w[k] : x.index < y.index => Before(s[i].plugins, y.name, x.name)
    BY <2>2, <2>4
  <2>. QED
    BY <2>5, <2>6 DEF k
<1>4. \A k \in Keys : (\A i \in 1..Len(s) : s[i].node # k) => w[k] = {}
  BY <1>2
<1>5. WellStored(s)
  BY <1>2, <1>3 DEF WellStored
<1>. HIDE DEF s, w
<1>6. WrittenSo(s, w)
  BY <1>3, <1>4, <1>5 DEF WrittenSo
<1>. QED
  BY <1>6 DEF s, w

\* bind_readback_plugins() does not fail, and binds what is on file backwards.
LEMMA BindReadbackOrders ==
  ASSUME ReadsBack, Types, Ordered, BindReadback
  PROVE  /\ Well(registry') /\ InOrder(registry'.bound, wrote)
         /\ op'.readback = "bound" /\ op'.what = "get"
<1>1. /\ registry \in Registry /\ registry.ok /\ stored \in Seq(ReadbackEntries)
      /\ op \in Ops /\ Well(registry) /\ WrittenSo(stored, wrote) /\ registry.readback = << >>
  BY DEF Types, Ordered, BindReadback
<1>2. \A k \in Keys : Unread(registry, k)
  BY <1>1, InNone DEF Well, Borrows, Unread
<1>. DEFINE r == BindEntries(registry, stored)
            y == BindProvenance(r)
<1>3. r \in Registry /\ r.ok /\ Well(r) /\ \A i \in 1..Len(stored) : Reads(r, stored[i])
  <2>1. WellStored(stored)
    BY <1>1 DEF WrittenSo
  <2>. QED
    BY <1>1, <1>2, <2>1, EntriesRead
<1>4. registry' = [y EXCEPT !.ok = TRUE] /\ op' = [op EXCEPT !.readback = "bound"] /\ op.what = "get"
  BY <1>3 DEF BindReadback
<1>. HIDE DEF r
<1>5. y \in Registry /\ Well(y) /\ KeptOrder(r, y)
  BY <1>3, ProvenanceOrder
<1>. HIDE DEF y
<1>6. registry'.store = y.store /\ registry'.bound = y.bound /\ registry'.readback = y.readback
  BY <1>4, <1>5, OkPut
<1>7. Well(registry')
  BY <1>5, <1>6 DEF Well, Borrows
<1>8. ASSUME NEW k \in Keys, NEW a \in wrote[k], NEW b \in wrote[k], a.index < b.index
      PROVE  Before(registry'.bound[k], a.name, b.name)
  <2>1. PICK i \in 1..Len(stored) : stored[i].node = k
    BY <1>1, <1>8 DEF WrittenSo
  <2>2. Before(stored[i].plugins, b.name, a.name)
    BY <1>1, <1>8, <2>1 DEF WrittenSo
  <2>3. PICK m, n \in 1..Len(stored[i].plugins) :
          stored[i].plugins[m] = b.name /\ stored[i].plugins[n] = a.name /\ m < n
    BY <2>2 DEF Before
  <2>4. Reads(r, stored[i])
    BY <1>3
  <2>5. Before(r.bound[k], a.name, b.name)
    BY <2>1, <2>3, <2>4 DEF Reads
  <2>. QED
    BY <1>5, <1>6, <2>5 DEF KeptOrder
<1>9. InOrder(registry'.bound, wrote)
  BY <1>8 DEF InOrder
<1>10. op'.readback = "bound" /\ op'.what = "get"
  BY <1>1, <1>4 DEF Ops
<1>. QED
  BY <1>7, <1>9, <1>10

\* The user's steps, between operations, leave what no readback plugin is part of.
LEMMA UserOrdered ==
  ASSUME ~OwnReadback, Types, Types', Ordered, NEW p \in Names, NEW k \in Fields \cup {All},
         Register(p) \/ Unregister(p) \/ Bind(p, k) \/ Unbind(p, k, "key")
  PROVE  Ordered'
<1>1. /\ registry \in Registry /\ registry' \in Registry /\ Well(registry)
      /\ mine \subseteq OfUser /\ wanted \in [Keys -> Seq(Names)]
      /\ k \in Keys /\ wanted[k] \in Seq(Names)
      /\ \A j \in Keys : In(wanted[j]) \subseteq OfUser
  BY KeysAssumption DEF Types, Ordered, Fields
<1>2. /\ registry.bound \in [Keys -> Seq(Names)] /\ registry.bound[k] \in Seq(Names)
      /\ Once(registry.bound[k])
  BY <1>1 DEF Registry, Well
<1>3. ASSUME p \in OfUser, mine' \subseteq OfUser,
             \A j \in Keys : In(wanted'[j]) \subseteq OfUser, AlikeBut(p, registry, registry'),
             registry'.readback = registry.readback, \A j \in Keys : Once(registry'.bound[j]),
             UNCHANGED <<op, stored, wrote>>, Idle
      PROVE  Ordered'
  <2>1. Borrows(registry', In(registry'.readback))
    <3>1. Borrows(registry, In(registry.readback))
      BY <1>1 DEF Well
    <3>2. Borrows(registry', In(registry.readback))
      BY <1>3, <3>1, BorrowedStays
    <3>. QED
      BY <1>3, <3>2
  <2>2. Well(registry')
    BY <1>3, <2>1 DEF Well
  <2>3. op.readback # "bound"
    BY <1>3 DEF Ordered, Idle
  <2>. QED
    BY <1>3, <2>2, <2>3 DEF Ordered
<1>4. CASE Register(p)
  <2>. DEFINE x == Registered(registry, p)
  <2>1. /\ x \in Registry /\ x.bound = registry.bound /\ x.readback = registry.readback
        /\ \A q \in Names \ {p} : x.store[q] = registry.store[q]
    BY <1>1, RegisteredIs
  <2>2. registry' = [x EXCEPT !.ok = TRUE]
    BY <1>4 DEF Register
  <2>. HIDE DEF x
  <2>3. registry'.store = x.store /\ registry'.bound = x.bound /\ registry'.readback = x.readback
    BY <2>1, <2>2, OkPut
  <2>4. AlikeBut(p, registry, registry')
    BY <2>1, <2>3 DEF AlikeBut
  <2>5. /\ p \in OfUser /\ mine' \subseteq OfUser /\ Idle /\ UNCHANGED <<op, stored, wrote>>
        /\ \A j \in Keys : In(wanted'[j]) \subseteq OfUser
    BY <1>1, <1>4 DEF Register, OfUser
  <2>6. \A j \in Keys : Once(registry'.bound[j])
    BY <1>1, <2>1, <2>3 DEF Well
  <2>7. registry'.readback = registry.readback
    BY <2>1, <2>3
  <2>. QED
    BY <1>3, <2>4, <2>5, <2>6, <2>7
<1>5. CASE Unregister(p)
  <2>. DEFINE y == Unregistered(registry, p)
  <2>1. /\ y.readback = registry.readback
        /\ \A j \in Keys : /\ y.bound[j] = Without(registry.bound[j], p)
                           /\ In(y.bound[j]) = In(registry.bound[j]) \ {p}
    BY <1>1, UnregisteredIs DEF UnregisteredFrom
  <2>2. \A q \in Names \ {p} : y.store[q] = registry.store[q]
    BY <1>1, UnregisteredIs DEF UnregisteredFrom
  <2>. HIDE DEF y
  <2>3. registry' = y
    BY <1>5 DEF Unregister, y
  <2>4. AlikeBut(p, registry, registry')
    BY <2>1, <2>2, <2>3 DEF AlikeBut
  <2>5. p \in OfUser /\ mine' \subseteq OfUser /\ Idle /\ UNCHANGED <<op, stored, wrote>>
    BY <1>1, <1>5 DEF Unregister
  <2>8. ASSUME NEW j \in Keys
        PROVE  In(wanted'[j]) \subseteq OfUser
    <3>1. wanted[j] \in Seq(Names) /\ In(wanted[j]) \subseteq OfUser
      BY <1>1
    <3>2. In(Without(wanted[j], p)) = In(wanted[j]) \ {p}
      BY <3>1, WithoutIs
    <3>. QED
      BY <1>5, <3>1, <3>2 DEF Unregister
  <2>6. ASSUME NEW j \in Keys
        PROVE  Once(registry'.bound[j])
    <3>1. registry.bound[j] \in Seq(Names) /\ Once(registry.bound[j])
      BY <1>1, <1>2 DEF Well
    <3>2. Once(Without(registry.bound[j], p))
      BY <3>1, AmongOnce DEF Without
    <3>. QED
      BY <2>1, <2>3, <3>2
  <2>7. registry'.readback = registry.readback
    BY <2>1, <2>3
  <2>. QED
    BY <1>3, <2>4, <2>5, <2>6, <2>7, <2>8
<1>6. CASE Bind(p, k)
  <2>. DEFINE y == BoundTo(registry, p, k)
  <2>1. /\ y.store = registry.store /\ y.readback = registry.readback
        /\ \A j \in Keys \ {k} : y.bound[j] = registry.bound[j]
        /\ y.bound[k] = (IF p \in In(registry.bound[k]) THEN registry.bound[k]
                         ELSE Append(registry.bound[k], p))
        /\ In(y.bound[k]) = In(registry.bound[k]) \cup {p}
    <3>1. registry \in Registry /\ k \in Keys
      BY <1>1
    <3>. QED
      BY <3>1, BoundToIs
  <2>. HIDE DEF y
  <2>2. registry' = y
    BY <1>6 DEF Bind, y
  <2>3. AlikeBut(p, registry, registry')
    BY <2>1, <2>2 DEF AlikeBut
  <2>4. p \in OfUser /\ mine' \subseteq OfUser /\ Idle /\ UNCHANGED <<op, stored, wrote>>
    BY <1>1, <1>6 DEF Bind
  <2>8. \A j \in Keys : In(wanted'[j]) \subseteq OfUser
    <3>1. In(Append(wanted[k], p)) = In(wanted[k]) \cup {p}
      BY <1>1, AppendedType
    <3>2. wanted' = [wanted EXCEPT ![k] = Append(wanted[k], p)]
      BY <1>6 DEF Bind
    <3>. QED
      BY <1>1, <2>4, <3>1, <3>2
  <2>5. p \notin In(registry.bound[k]) => Once(Append(registry.bound[k], p))
    BY <1>2, OnceAppend
  <2>6. \A j \in Keys : Once(registry'.bound[j])
    BY <1>1, <2>1, <2>2, <2>5 DEF Well
  <2>7. registry'.readback = registry.readback
    BY <2>1, <2>2
  <2>. QED
    BY <1>3, <2>3, <2>4, <2>6, <2>7, <2>8
<1>7. CASE Unbind(p, k, "key")
  <2>1. /\ registry'.store = registry.store /\ registry'.readback = registry.readback
        /\ \A j \in Keys \ {k} : registry'.bound[j] = registry.bound[j]
        /\ registry'.bound[k] = Without(registry.bound[k], p)
    BY <1>1, <1>7 DEF Unbind, Registry
  <2>2. /\ In(Without(registry.bound[k], p)) = In(registry.bound[k]) \ {p}
        /\ Once(Without(registry.bound[k], p))
    <3>1. Once(Without(registry.bound[k], p))
      BY <1>2, AmongOnce DEF Without
    <3>. QED
      BY <1>2, <3>1, WithoutIs
  <2>3. AlikeBut(p, registry, registry')
    BY <2>1, <2>2 DEF AlikeBut
  <2>4. mine' \subseteq OfUser /\ Idle /\ UNCHANGED <<op, stored, wrote>>
    BY <1>1, <1>7 DEF Unbind
  <2>6. p \in OfUser
    <3>1. p \in In(wanted[k])
      BY <1>1, <1>7, InType DEF Unbind
    <3>. QED
      BY <1>1, <3>1
  <2>7. \A j \in Keys : In(wanted'[j]) \subseteq OfUser
    <3>1. In(Without(wanted[k], p)) = In(wanted[k]) \ {p}
      BY <1>1, WithoutIs
    <3>2. wanted' = [wanted EXCEPT ![k] = Without(wanted[k], p)]
      BY <1>7 DEF Unbind
    <3>. QED
      BY <1>1, <3>1, <3>2
  <2>8. registry'.readback = registry.readback
    BY <2>1
  <2>5. \A j \in Keys : Once(registry'.bound[j])
    BY <1>1, <2>1, <2>2 DEF Well
  <2>. QED
    BY <1>3, <2>3, <2>4, <2>5, <2>6, <2>7, <2>8
<1>. QED
  BY <1>4, <1>5, <1>6, <1>7

\* A node that takes over what is bound to all had nothing in any order.
LEMMA TakenOverOrdered ==
  ASSUME Types, Ordered, op.readback = "bound" \/ op.what = "put", NEW k \in Keys,
         registry' = [registry EXCEPT !.bound[k] = Resolved(registry.bound, k)],
         UNCHANGED <<op, stored, wrote, mine, wanted>>
  PROVE  Ordered'
<1>1. registry \in Registry /\ Well(registry) /\ All \in Keys
  BY KeysAssumption DEF Types, Ordered
<1>2. /\ registry'.store = registry.store /\ registry'.readback = registry.readback
      /\ \A j \in Keys \ {k} : registry'.bound[j] = registry.bound[j]
      /\ registry'.bound[k] = (IF registry.bound[k] # << >> THEN registry.bound[k]
                               ELSE registry.bound[All])
  BY <1>1, TakenOver
<1>3. Borrows(registry', In(registry'.readback))
  BY <1>1, <1>2, TakenOverBorrows DEF Well
<1>4. Well(registry')
  BY <1>1, <1>2, <1>3 DEF Well
<1>5. KeptOrder(registry, registry')
  <2>1. \A a, b : ~Before(<< >>, a, b)
    BY EmptySeq DEF Before
  <2>2. \A j \in Keys : registry'.bound[j] = registry.bound[j] \/ registry.bound[j] = << >>
    BY <1>2
  <2>. QED
    BY <2>1, <2>2 DEF KeptOrder
<1>6. InOrder(registry.bound, wrote) => InOrder(registry'.bound, wrote')
  BY <1>5 DEF KeptOrder, InOrder
<1>. QED
  BY <1>2, <1>4, <1>6 DEF Ordered

\* To unbind leaves no plugin bound twice.
LEMMA UnboundOnce ==
  ASSUME NEW r \in Registry, \A k \in Keys : Once(r.bound[k])
  PROVE  \A k \in Keys : Once(UnboundAll(r).bound[k])
<1>. DEFINE I == {x \in Registry : \A k \in Keys : Once(x.bound[k])}
<1>1. ASSUME NEW x \in Registry, NEW p \in Names, x \in I
      PROVE  Unregistered(x, p) \in I
  <2>. DEFINE y == Unregistered(x, p)
  <2>1. /\ y \in Registry
        /\ \A j \in Keys : /\ y.bound[j] = Without(x.bound[j], p)
                           /\ In(y.bound[j]) = In(x.bound[j]) \ {p}
    BY UnregisteredIs DEF UnregisteredFrom
  <2>. HIDE DEF y
  <2>2. \A k \in Keys : Once(Without(x.bound[k], p))
    BY <1>1, BoundAreNames, AmongOnce DEF Without
  <2>3. y \in I
    BY <2>1, <2>2
  <2>. QED
    BY <2>3 DEF y
<1>2. KeptByUnregistering(I)
  BY <1>1 DEF KeptByUnregistering
<1>3. r \in I
  OBVIOUS
<1>. HIDE DEF I
<1>4. UnboundAll(r) \in I
  BY <1>2, <1>3, UnbindingKeeps
<1>. QED
  BY <1>4 DEF I

\* Ordered is inductive.
LEMMA NextOrdered ==
  ASSUME ReadsBack, OneEach, ~OwnReadback, Types, Types', Ordered, [Next]_vars
  PROVE  Ordered'
<1>1. CASE UNCHANGED vars
  BY <1>1 DEF vars, Ordered
<1>2. ASSUME NEW p \in Names, Register(p) \/ Unregister(p)
      PROVE  Ordered'
  <2>1. All \in Fields \cup {All}
    OBVIOUS
  <2>. QED
    BY <1>2, <2>1, UserOrdered
<1>3. ASSUME NEW p \in Names, NEW k \in Fields \cup {All}, Bind(p, k)
      PROVE  Ordered'
  BY <1>3, UserOrdered
<1>11. ASSUME NEW p \in Names, NEW k \in Fields \cup {All}, NEW spelling \in Spellings,
              Unbind(p, k, spelling)
       PROVE  Ordered'
  <2>1. Unbind(p, k, "key") \/ UNCHANGED vars
    BY <1>11, UnbindReaches
  <2>. QED
    BY <1>1, <2>1, UserOrdered
<1>4. ASSUME NEW what \in {"get", "put"}, Begin(what)
      PROVE  Ordered'
  <2>1. op'.readback = "no" /\ op.readback # "bound"
    BY <1>4 DEF Begin, Ordered, Idle
  <2>2. WrittenSo(stored', wrote')
    <3>1. CASE what = "put"
      <4>1. stored' = << >> /\ \A k \in Keys : wrote'[k] = {}
        BY <1>4, <3>1 DEF Begin
      <4>. QED
        BY <4>1, EmptySeq DEF WrittenSo, WellStored
    <3>2. CASE what # "put"
      <4>1. stored' = stored /\ wrote' = wrote
        BY <1>4, <3>2 DEF Begin
      <4>. QED
        BY <4>1 DEF Ordered
    <3>. QED
      BY <3>1, <3>2
  <2>. QED
    BY <1>4, <2>1, <2>2 DEF Begin, Ordered
<1>5. ASSUME NEW f \in Fields, Transfer(f)
      PROVE  Ordered'
  BY <1>5, TakenOverOrdered DEF Transfer, Fields
<1>6. ASSUME NEW k \in Keys, ReadProvenance(k)
      PROVE  Ordered'
  BY <1>6, TakenOverOrdered, KeysAssumption DEF ReadProvenance
<1>7. CASE EndPut
  <2>1. WrittenSo(stored', wrote')
    BY <1>7, EndPutOrdered
  <2>2. op.readback # "bound"
    BY <1>7 DEF EndPut, Ordered
  <2>. QED
    BY <1>7, <2>1, <2>2 DEF EndPut, Ordered, NoOp
<1>8. CASE BindReadback
  <2>1. /\ Well(registry') /\ InOrder(registry'.bound, wrote)
        /\ op'.readback = "bound" /\ op'.what = "get"
    BY <1>8, BindReadbackOrders
  <2>. QED
    BY <1>8, <2>1 DEF BindReadback, Ordered
<1>9. CASE UnbindReadback
  <2>. DEFINE x == UnboundAll(registry)
  <2>1. registry \in Registry /\ Well(registry) /\ op \in Ops
    BY DEF Types, Ordered
  <2>2. Borrows(x, {}) /\ x \in Registry
    BY <2>1, AllGivenBack, EverythingUnregisters, UnbindingKeeps DEF Well
  <2>3. registry' = [x EXCEPT !.readback = << >>]
    BY <1>9 DEF UnbindReadback
  <2>4. \A k \in Keys : Once(x.bound[k])
    BY UnboundOnce, <2>1 DEF Well
  <2>. HIDE DEF x
  <2>5. registry'.store = x.store /\ registry'.bound = x.bound /\ registry'.readback = << >>
    BY <2>2, <2>3 DEF Registry
  <2>6. Well(registry')
    BY <2>2, <2>4, <2>5, InNone DEF Well, Borrows
  <2>7. op'.readback = "unbound"
    BY <1>9, <2>1 DEF UnbindReadback, Ops
  <2>. QED
    BY <1>9, <2>5, <2>6, <2>7 DEF UnbindReadback, Ordered
<1>10. CASE EndGet
  <2>1. op.readback # "bound" /\ op'.readback # "bound"
    BY <1>10 DEF EndGet, NoOp
  <2>. QED
    BY <1>10, <2>1 DEF EndGet, Ordered
<1>. QED
  BY <1>1, <1>2, <1>3, <1>4, <1>5, <1>6, <1>7, <1>8, <1>9, <1>10, <1>11 DEF Next

\* The plugins of a node are applied to read it back in the order of their index:
\* write_plugins_metadata() stores the last first, bind_readback_plugins() takes
\* them from the last, and what is bound in between comes behind them.  It needs
\* readback plugins that can be loaded and read, no two for one name, and that the
\* user leaves them alone.
THEOREM ReadBackInOrder ==
  ASSUME ReadsBack, OneEach, ~OwnReadback
  PROVE  Spec => []ReadbackInOrder
<1>. DEFINE Inv == Types /\ Ordered
<1>1. Init => Inv
  BY InitTypes, InitOrdered
<1>2. Inv /\ [Next]_vars => Inv'
  BY NextTypes, NextOrdered
<1>3. Inv => ReadbackInOrder
  <2>. SUFFICES ASSUME Types, Ordered, op.readback = "bound",
                       NEW k \in Keys, NEW x \in wrote[k], NEW y \in wrote[k], x.index < y.index
                PROVE  \E i, j \in DOMAIN registry.bound[k] :
                         /\ registry.bound[k][i] = x.name /\ registry.bound[k][j] = y.name
                         /\ i < j
    BY DEF ReadbackInOrder
  <2>1. registry.bound[k] \in Seq(Names)
    BY DEF Types, Registry
  <2>2. Before(registry.bound[k], x.name, y.name)
    BY DEF Ordered, InOrder
  <2>. QED
    BY <2>1, <2>2 DEF Before
<1>. QED
  BY <1>1, <1>2, <1>3, PTL DEF Spec

===============================================================================
