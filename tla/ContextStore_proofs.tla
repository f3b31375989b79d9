-------------------------- MODULE ContextStore_proofs --------------------------
(***************************************************************************)
(* What ContextStore guarantees for any threads, objects and store size.   *)
(*                                                                         *)
(* The argument.  IdsResolve is kept by an action of one thread only if no *)
(* other thread depends on the object it frees or the position it clears.  *)
(* So the invariant says who owns an object: a handle, or a call that has  *)
(* stored it or is about to delete it, and no object has two owners        *)
(* (Unshared).  Owners of different objects have different positions,      *)
(* since a position names one object; and no position in use is at or      *)
(* behind curStoreElt (Owned), where the next context goes.  The id of a   *)
(* lookup is held by its caller until the call is over (Asking), so what   *)
(* an undisturbed lookup copies is the context of a handle.                *)
(***************************************************************************)
EXTENDS ContextStore, TLAPS

-------------------------------------------------------------------------------
Call == [step : {"idle", "looking", "found", "stored", "ending"},
         id : Nat, obj : Objects \cup {NoObject}, kind : Kinds, moved : BOOLEAN]

\* The call of c owns an object.
Busy(c) == call[c].step \in {"stored", "ending"}

Owned ==
  /\ \A c \in Callers : \A h \in held[c] :
        h.id < cur /\ store[h.id] = h.obj /\ heap[h.obj] # "free"
  /\ \A c \in Callers : call[c].step = "stored" =>
        call[c].id \in 1..cur - 1 /\ store[call[c].id] = call[c].obj
  /\ \A c \in Callers : Busy(c) => call[c].obj \in Objects /\ heap[call[c].obj] # "free"

Unshared ==
  /\ \A c, d \in Callers : \A g \in held[c], h \in held[d] :
        g.obj = h.obj => c = d /\ g = h
  /\ \A c, d \in Callers : \A g \in held[c] : Busy(d) => g.obj # call[d].obj
  /\ \A c, d \in Callers : Busy(c) /\ Busy(d) /\ c # d => call[c].obj # call[d].obj

Asking ==
  \A c \in Callers :
     /\ call[c].step = "looking" => \E h \in held[c] : h.id = call[c].id
     /\ call[c].step = "found" /\ ~call[c].moved => Answered(c)

IInv == TypeOK /\ Owned /\ Unshared /\ Asking

-------------------------------------------------------------------------------
LEMMA IdleIsCall == Idle \in Call /\ Idle.step = "idle"
BY DEF Idle, Call, Kinds

\* The call of a thread that has stored object o of a kind at position n.
StoredCall(n, o, k) == [Idle EXCEPT !.step = "stored", !.id = n, !.obj = o, !.kind = k]

LEMMA StoredIsCall ==
  ASSUME NEW n \in Nat, NEW o \in Objects, NEW k \in Kinds
  PROVE  LET r == StoredCall(n, o, k)
         IN  r \in Call /\ r.step = "stored" /\ r.id = n /\ r.obj = o
BY DEF StoredCall, Idle, Call

LEMMA Initially == Init => IInv
<1>. SUFFICES ASSUME Init PROVE IInv
  OBVIOUS
<1>1. \A c \in Callers : call[c].step = "idle" /\ held[c] = {}
  BY IdleIsCall DEF Init
<1>2. call \in [Callers -> Call]
  BY IdleIsCall DEF Init
<1>3. TypeOK
  BY <1>2 DEF Init, TypeOK, Call, Kinds, Handle
<1>. QED
  BY <1>1, <1>3 DEF IInv, Owned, Unshared, Busy, Asking

(***************************************************************************)
(* A locked operation replaces the call of its own thread and no more than *)
(* marks those of the others.                                              *)
(***************************************************************************)
LEMMA MovedIs ==
  ASSUME call \in [Callers -> Call], NEW c \in Callers, NEW next \in Call, Moved(c, next)
  PROVE  /\ call' \in [Callers -> Call]
         /\ call'[c] = next
         /\ \A d \in Callers \ {c} : /\ call'[d].step = call[d].step
                                     /\ call'[d].id = call[d].id
                                     /\ call'[d].obj = call[d].obj
                                     /\ call[d].moved => call'[d].moved
<1>1. call'[c] = next
  BY DEF Moved
<1>2. ASSUME NEW d \in Callers \ {c}
      PROVE  /\ call'[d] \in Call
             /\ call'[d].step = call[d].step
             /\ call'[d].id = call[d].id
             /\ call'[d].obj = call[d].obj
             /\ call[d].moved => call'[d].moved
  <2>1. call'[d] = call[d] \/ call'[d] = [call[d] EXCEPT !.moved = TRUE]
    BY Zenon DEF Moved
  <2>2. call[d] \in Call
    OBVIOUS
  <2>. QED
    BY <2>1, <2>2 DEF Call
<1>. QED
  BY <1>1, <1>2 DEF Moved

(***************************************************************************)
(* The lookups of the other threads stay as they are, and so do the        *)
(* handles they ask by; the thread itself is not looking anything up.      *)
(***************************************************************************)
LEMMA AskingKept ==
  ASSUME Asking, NEW c \in Callers, call'[c].step \notin {"looking", "found"},
         \A d \in Callers \ {c} :
            /\ call'[d].step = call[d].step /\ call'[d].id = call[d].id
            /\ call'[d].obj = call[d].obj /\ (call[d].moved => call'[d].moved)
            /\ held'[d] = held[d]
  PROVE  Asking'
BY DEF Asking, Answered

-------------------------------------------------------------------------------
(***************************************************************************)
(* What the steps of one thread keep: a call that owns nothing afterwards, *)
(* and leaves the store and the heap alone.                                *)
(***************************************************************************)
LEMMA QuietStep ==
  ASSUME IInv, NEW c \in Callers, NEW r \in Call,
         r.step \notin {"stored", "ending"},
         call' = [call EXCEPT ![c] = r],
         r.step = "looking" => \E h \in held[c] : h.id = r.id,
         r.step = "found" /\ ~r.moved => [id |-> r.id, obj |-> r.obj] \in held[c],
         UNCHANGED <<store, cur, heap, held>>
  PROVE  IInv'
<1>1. call \in [Callers -> Call]
  BY DEF IInv, TypeOK, Call
<1>2. \A d \in Callers : Busy(d)' => d # c /\ Busy(d) /\ call'[d] = call[d]
  BY <1>1 DEF Busy
<1>3. TypeOK'
  BY <1>1 DEF IInv, TypeOK, Call
<1>4. Owned'
  BY <1>2 DEF IInv, Owned, Busy
<1>5. Unshared'
  BY <1>2 DEF IInv, Unshared
<1>6. Asking'
  BY <1>1 DEF IInv, Asking, Answered
<1>. QED
  BY <1>3, <1>4, <1>5, <1>6 DEF IInv

(***************************************************************************)
(* The begin calls that store a new context.                               *)
(***************************************************************************)
LEMMA AddStep ==
  ASSUME IInv, NEW c \in Callers, NEW o \in Objects, NEW kind \in Kinds,
         NEW next \in Call, next.step = "stored", next.id = cur, next.obj = o,
         ~Busy(c), heap[o] = "free", AddLLenv(o),
         heap' = [heap EXCEPT ![o] = kind],
         Moved(c, next), UNCHANGED held
  PROVE  IInv'
<1>0. /\ store \in Seq(Objects \cup {NoObject}) /\ cur \in 1..Len(store) + 1
      /\ \A i \in cur..Len(store) : store[i] = NoObject
      /\ heap \in [Objects -> Kinds \cup {"free"}] /\ call \in [Callers -> Call]
      /\ held \in [Callers -> SUBSET Handle]
  BY DEF IInv, TypeOK, Call
<1>1. next.step = "stored" /\ next.id = cur /\ next.obj = o
  OBVIOUS
<1>2. /\ call' \in [Callers -> Call] /\ call'[c] = next
      /\ \A d \in Callers \ {c} : /\ call'[d].step = call[d].step
                                  /\ call'[d].id = call[d].id
                                  /\ call'[d].obj = call[d].obj
                                  /\ call[d].moved => call'[d].moved
  BY <1>0, MovedIs
<1>3. /\ store' \in Seq(Objects \cup {NoObject}) /\ cur' = cur + 1
      /\ store'[cur] = o /\ \A i \in 1..cur - 1 : store'[i] = store[i]
      /\ cur' \in 1..Len(store') + 1
      /\ \A i \in cur'..Len(store') : store'[i] = NoObject
  <2>1. CASE cur = Len(store) + 1
    BY <1>0, <2>1 DEF AddLLenv
  <2>2. CASE cur # Len(store) + 1
    <3>1. store' = [store EXCEPT ![cur] = o] /\ cur' = cur + 1 /\ cur \in 1..Len(store)
      BY <1>0, <2>2 DEF AddLLenv
    <3>. QED
      BY <1>0, <3>1
  <2>. QED
    BY <2>1, <2>2
<1>4. TypeOK'
  <2>1. heap' \in [Objects -> Kinds \cup {"free"}]
    BY <1>0
  <2>. QED
    BY <1>0, <1>2, <1>3, <2>1 DEF TypeOK, Call
<1>5. kind # "free" /\ \A p \in Objects : heap[p] # "free" => p # o /\ heap'[p] = heap[p]
  BY <1>0 DEF Kinds
<1>6. \A d \in Callers : \A h \in held[d] :
         h.id \in 1..cur - 1 /\ h.obj \in Objects /\ h.obj # o
  BY <1>0, <1>5 DEF IInv, Owned, Handle
<1>7. \A d \in Callers \ {c} : (Busy(d)' => Busy(d)) /\ (Busy(d) => call[d].obj # o)
  BY <1>2, <1>5 DEF IInv, Owned, Busy
<1>8. Owned'
  <2>1. \A d \in Callers : \A h \in held'[d] :
           h.id < cur' /\ store'[h.id] = h.obj /\ heap'[h.obj] # "free"
    BY <1>0, <1>3, <1>5, <1>6 DEF IInv, Owned
  <2>2. ASSUME NEW d \in Callers, call'[d].step = "stored"
        PROVE  call'[d].id \in 1..cur' - 1 /\ store'[call'[d].id] = call'[d].obj
    <3>1. CASE d = c
      BY <1>0, <1>1, <1>2, <1>3, <3>1
    <3>2. CASE d # c
      <4>1. call[d].id \in 1..cur - 1 /\ store[call[d].id] = call[d].obj
        BY <1>2, <2>2, <3>2 DEF IInv, Owned
      <4>. QED
        BY <1>0, <1>2, <1>3, <3>2, <4>1
    <3>. QED
      BY <3>1, <3>2
  <2>3. ASSUME NEW d \in Callers, Busy(d)'
        PROVE  call'[d].obj \in Objects /\ heap'[call'[d].obj] # "free"
    <3>1. CASE d = c
      BY <1>0, <1>1, <1>2, <1>5, <3>1
    <3>2. CASE d # c
      <4>1. call[d].obj \in Objects /\ heap[call[d].obj] # "free"
        BY <1>7, <2>3, <3>2 DEF IInv, Owned
      <4>. QED
        BY <1>2, <1>5, <3>2, <4>1
    <3>. QED
      BY <3>1, <3>2
  <2>. QED
    BY <2>1, <2>2, <2>3 DEF Owned
<1>9. Unshared'
  <2>1. \A d \in Callers : \A g \in held[d] : Busy(c)' => g.obj # call'[c].obj
    BY <1>1, <1>2, <1>6
  <2>2. \A d \in Callers, e \in Callers \ {c} : \A g \in held[d] :
           Busy(e)' => g.obj # call'[e].obj
    BY <1>2, <1>7 DEF IInv, Unshared
  <2>3. \A d, e \in Callers \ {c} :
           Busy(d)' /\ Busy(e)' /\ d # e => call'[d].obj # call'[e].obj
    BY <1>2, <1>7 DEF IInv, Unshared
  <2>4. \A d \in Callers \ {c} : Busy(d)' => call'[d].obj # call'[c].obj
    BY <1>1, <1>2, <1>7
  <2>. QED
    BY <2>1, <2>2, <2>3, <2>4 DEF IInv, Unshared
<1>10. Asking'
  BY <1>1, <1>2, AskingKept DEF IInv
<1>. QED
  BY <1>4, <1>8, <1>9, <1>10 DEF IInv

\* A context that is made and never stored belongs to nobody.
LEMMA BeginFailsStep ==
  ASSUME IInv, NEW c \in Callers, NEW o \in Objects, BeginFails(c, o)
  PROVE  IInv'
<1>1. /\ heap \in [Objects -> Kinds \cup {"free"}] /\ call \in [Callers -> Call]
      /\ held \in [Callers -> SUBSET Handle]
  BY DEF IInv, TypeOK, Call
<1>2. call[c] \in Call /\ call[c].kind \in Kinds /\ "free" \notin Kinds
  BY <1>1 DEF Call, Kinds
<1>3. /\ heap' \in [Objects -> Kinds \cup {"free"}]
      /\ \A p \in Objects : heap[p] # "free" => heap'[p] # "free"
  BY <1>1, <1>2 DEF BeginFails
<1>4. call' \in [Callers -> Call] /\ call'[c].step = "idle"
  BY <1>1, IdleIsCall DEF BeginFails
<1>5. \A d \in Callers : Busy(d)' => d # c /\ Busy(d) /\ call'[d] = call[d]
  BY <1>1, <1>4 DEF Busy, BeginFails
<1>6. TypeOK'
  BY <1>3, <1>4 DEF IInv, TypeOK, Call, BeginFails
<1>7. Owned'
  <2>1. \A d \in Callers : \A h \in held[d] : h.obj \in Objects
    BY <1>1 DEF Handle
  <2>. QED
    BY <1>3, <1>5, <2>1 DEF IInv, Owned, Busy, BeginFails
<1>8. Unshared'
  BY <1>5 DEF IInv, Unshared, BeginFails
<1>9. Asking'
  BY <1>1, <1>4, AskingKept DEF IInv, BeginFails
<1>. QED
  BY <1>6, <1>7, <1>8, <1>9 DEF IInv

(***************************************************************************)
(* The id of a stored context goes to the caller: the owner changes.       *)
(***************************************************************************)
LEMMA ReturnStep ==
  ASSUME IInv, NEW c \in Callers, Return(c)
  PROVE  IInv'
<1>. DEFINE h == [id |-> call[c].id, obj |-> call[c].obj]
<1>1. /\ call \in [Callers -> Call] /\ held \in [Callers -> SUBSET Handle]
      /\ cur \in Nat
  BY DEF IInv, TypeOK, Call
<1>2. Busy(c) /\ call[c].step = "stored"
  BY DEF Return, Busy
<1>3. /\ h.id \in 1..cur - 1 /\ store[h.id] = h.obj
      /\ h.obj \in Objects /\ heap[h.obj] # "free"
  BY <1>2 DEF IInv, Owned
<1>4. h \in Handle
  BY <1>1, <1>3 DEF Handle
<1>5. /\ held'[c] = held[c] \cup {h} /\ held' \in [Callers -> SUBSET Handle]
      /\ \A d \in Callers \ {c} : held'[d] = held[d]
  BY <1>1, <1>4 DEF Return
<1>6. call' \in [Callers -> Call] /\ call'[c].step = "idle"
  BY <1>1, IdleIsCall DEF Return
<1>7. \A d \in Callers : Busy(d)' => d # c /\ Busy(d) /\ call'[d] = call[d]
  BY <1>1, <1>6 DEF Busy, Return
<1>8. TypeOK'
  BY <1>5, <1>6 DEF IInv, TypeOK, Call, Return
<1>9. Owned'
  <2>1. \A d \in Callers : \A g \in held'[d] :
           g.id < cur /\ store[g.id] = g.obj /\ heap[g.obj] # "free"
    BY <1>1, <1>3, <1>5 DEF IInv, Owned
  <2>. QED
    BY <1>7, <2>1 DEF IInv, Owned, Busy, Return
<1>10. Unshared'
  <2>1. \A d \in Callers : \A g \in held[d] : g.obj # h.obj
    BY <1>2 DEF IInv, Unshared
  <2>2. \A d, e \in Callers : \A f \in held'[d], g \in held'[e] :
           f.obj = g.obj => d = e /\ f = g
    BY <1>5, <2>1 DEF IInv, Unshared
  <2>3. \A d, e \in Callers : \A g \in held'[d] : Busy(e)' => g.obj # call'[e].obj
    BY <1>2, <1>5, <1>7 DEF IInv, Unshared
  <2>. QED
    BY <1>7, <2>2, <2>3 DEF IInv, Unshared
<1>11. Asking'
  BY <1>1, <1>5, <1>6, AskingKept DEF IInv, Return
<1>. QED
  BY <1>8, <1>9, <1>10, <1>11 DEF IInv

(***************************************************************************)
(* A call deletes the object it owns: nobody else named it.                *)
(***************************************************************************)
LEMMA FreeStep ==
  ASSUME IInv, NEW c \in Callers, Busy(c),
         heap' = [heap EXCEPT ![call[c].obj] = "free"],
         call' = [call EXCEPT ![c] = Idle],
         UNCHANGED <<store, cur, held>>
  PROVE  IInv'
<1>1. /\ heap \in [Objects -> Kinds \cup {"free"}] /\ call \in [Callers -> Call]
      /\ held \in [Callers -> SUBSET Handle]
  BY DEF IInv, TypeOK, Call
<1>2. /\ heap' \in [Objects -> Kinds \cup {"free"}]
      /\ \A p \in Objects : p # call[c].obj => heap'[p] = heap[p]
  BY <1>1
<1>3. call' \in [Callers -> Call] /\ call'[c].step = "idle"
  BY <1>1, IdleIsCall
<1>4. \A d \in Callers : Busy(d)' => d # c /\ Busy(d) /\ call'[d] = call[d]
  BY <1>1, <1>3 DEF Busy
<1>5. TypeOK'
  BY <1>2, <1>3 DEF IInv, TypeOK, Call
<1>6. Owned'
  <2>1. \A d \in Callers : \A h \in held[d] : h.obj \in Objects /\ h.obj # call[c].obj
    BY <1>1 DEF IInv, Unshared, Handle
  <2>2. \A d \in Callers : Busy(d)' => call[d].obj \in Objects /\ call[d].obj # call[c].obj
    BY <1>4 DEF IInv, Owned, Unshared
  <2>. QED
    BY <1>2, <1>4, <2>1, <2>2 DEF IInv, Owned, Busy
<1>7. Unshared'
  BY <1>4 DEF IInv, Unshared
<1>8. Asking'
  BY <1>1, <1>3, AskingKept DEF IInv
<1>. QED
  BY <1>5, <1>6, <1>7, <1>8 DEF IInv

(***************************************************************************)
(* al_end_action() takes a handle back; its position is cleared, and given *)
(* back when it is the last one.                                           *)
(***************************************************************************)
LEMMA EndActionStep ==
  ASSUME IInv, NEW c \in Callers, NEW h \in held[c], EndAction(c, h)
  PROVE  IInv'
<1>. DEFINE next == [Idle EXCEPT !.step = "ending", !.obj = store[h.id]]
<1>1. /\ store \in Seq(Objects \cup {NoObject}) /\ cur \in 1..Len(store) + 1
      /\ \A i \in cur..Len(store) : store[i] = NoObject
      /\ call \in [Callers -> Call] /\ held \in [Callers -> SUBSET Handle]
  BY DEF IInv, TypeOK, Call
<1>2. /\ h \in Handle /\ h.id \in 1..cur - 1 /\ store[h.id] = h.obj
      /\ h.obj \in Objects /\ heap[h.obj] # "free"
  BY <1>1 DEF IInv, Owned, Handle
<1>3. ~Busy(c)
  BY DEF EndAction, Busy
<1>4. next \in Call /\ next.step = "ending" /\ next.obj = h.obj
  BY <1>2 DEF Idle, Call, Kinds
<1>. HIDE DEF next
<1>5. /\ call' \in [Callers -> Call] /\ call'[c] = next
      /\ \A d \in Callers \ {c} : call'[d] = call[d]
  BY <1>1, <1>4 DEF EndAction, next
<1>6. /\ held' \in [Callers -> SUBSET Handle] /\ held'[c] = held[c] \ {h}
      /\ \A d \in Callers \ {c} : held'[d] = held[d]
  BY <1>1 DEF EndAction
<1>7. /\ store' \in Seq(Objects \cup {NoObject}) /\ Len(store') = Len(store)
      /\ store'[h.id] = NoObject
      /\ \A i \in 1..Len(store) : i # h.id => store'[i] = store[i]
      /\ cur' = IF h.id = cur - 1 THEN cur - 1 ELSE cur
  BY <1>1, <1>2 DEF EndAction, DelLLenv
<1>8. TypeOK'
  <2>1. cur' \in 1..Len(store') + 1
    BY <1>1, <1>2, <1>7
  <2>2. \A i \in cur'..Len(store') : store'[i] = NoObject
    BY <1>1, <1>2, <1>7
  <2>. QED
    BY <1>5, <1>6, <1>7, <2>1, <2>2 DEF IInv, TypeOK, Call, EndAction
<1>9. \A d \in Callers : \A g \in held'[d] : g \in held[d] /\ g.obj # h.obj
  BY <1>6 DEF IInv, Unshared
<1>10. \A d \in Callers \ {c} : (Busy(d)' => Busy(d)) /\ (Busy(d) => call[d].obj # h.obj)
  BY <1>5 DEF IInv, Unshared, Busy
<1>11. Owned'
  <2>1. ASSUME NEW d \in Callers, NEW g \in held'[d]
        PROVE  g.id < cur' /\ store'[g.id] = g.obj /\ heap[g.obj] # "free"
    <3>1. g \in held[d] /\ g.obj # h.obj /\ g \in Handle
      BY <1>1, <1>9
    <3>2. g.id \in 1..cur - 1 /\ store[g.id] = g.obj /\ heap[g.obj] # "free"
      BY <1>1, <3>1 DEF IInv, Owned, Handle
    <3>3. g.id # h.id
      BY <1>2, <3>1, <3>2
    <3>. QED
      BY <1>1, <1>2, <1>7, <3>2, <3>3
  <2>2. ASSUME NEW d \in Callers, call'[d].step = "stored"
        PROVE  call'[d].id \in 1..cur' - 1 /\ store'[call'[d].id] = call'[d].obj
    <3>1. d # c /\ call'[d] = call[d] /\ call[d].step = "stored" /\ call[d].obj # h.obj
      BY <1>4, <1>5, <1>10, <2>2 DEF Busy
    <3>2. call[d].id \in 1..cur - 1 /\ store[call[d].id] = call[d].obj
      BY <3>1 DEF IInv, Owned
    <3>3. call[d].id # h.id
      BY <1>2, <3>1, <3>2
    <3>. QED
      BY <1>1, <1>2, <1>7, <3>1, <3>2, <3>3
  <2>3. \A d \in Callers : Busy(d)' => call'[d].obj \in Objects /\ heap[call'[d].obj] # "free"
    BY <1>2, <1>4, <1>5, <1>10 DEF IInv, Owned
  <2>4. heap' = heap
    BY DEF EndAction
  <2>. QED
    BY <2>1, <2>2, <2>3, <2>4 DEF Owned
<1>12. Unshared'
  <2>1. \A d, e \in Callers : \A f \in held'[d], g \in held'[e] :
           f.obj = g.obj => d = e /\ f = g
    BY <1>9 DEF IInv, Unshared
  <2>2. \A d \in Callers : \A g \in held'[d] : g.obj # call'[c].obj
    BY <1>4, <1>5, <1>9
  <2>3. \A d \in Callers, e \in Callers \ {c} : \A g \in held'[d] :
           Busy(e)' => g.obj # call'[e].obj
    BY <1>5, <1>9, <1>10 DEF IInv, Unshared
  <2>4. \A d, e \in Callers \ {c} :
           Busy(d)' /\ Busy(e)' /\ d # e => call'[d].obj # call'[e].obj
    BY <1>5, <1>10 DEF IInv, Unshared
  <2>5. \A d \in Callers \ {c} : Busy(d)' => call'[d].obj # call'[c].obj
    BY <1>4, <1>5, <1>10
  <2>. QED
    BY <2>1, <2>2, <2>3, <2>4, <2>5 DEF Unshared
<1>13. Asking'
  BY <1>4, <1>5, <1>6, AskingKept DEF IInv
<1>. QED
  BY <1>8, <1>11, <1>12, <1>13 DEF IInv

-------------------------------------------------------------------------------
LEMMA Inductive == IInv /\ [Next]_vars => IInv'
<1>. SUFFICES ASSUME IInv, [Next]_vars PROVE IInv'
  OBVIOUS
<1>1. CASE UNCHANGED vars
  BY <1>1 DEF vars, IInv, TypeOK, Owned, Unshared, Busy, Asking, Answered
<1>2. ASSUME NEW c \in Callers, NEW o \in Objects, BeginDataEntry(c, o) PROVE IInv'
  <2>1. cur \in Nat /\ "pulse" \in Kinds
    BY DEF IInv, TypeOK, Kinds
  <2>2. Moved(c, StoredCall(cur, o, "pulse"))
    BY <1>2, Zenon DEF BeginDataEntry, StoredCall
  <2>. DEFINE next == StoredCall(cur, o, "pulse")
  <2>3. next \in Call /\ next.step = "stored" /\ next.id = cur /\ next.obj = o
    BY <2>1, StoredIsCall, Zenon
  <2>4. Moved(c, next)
    BY <2>2
  <2>. HIDE DEF next
  <2>. QED
    BY <1>2, <2>1, <2>3, <2>4, AddStep DEF BeginDataEntry, Busy
<1>3. ASSUME NEW c \in Callers, NEW o \in Objects, BeginAction(c, o) PROVE IInv'
  <2>1. cur \in Nat /\ call[c].kind \in Kinds
    BY DEF IInv, TypeOK
  <2>2. Moved(c, StoredCall(cur, o, call[c].kind))
    BY <1>3, Zenon DEF BeginAction, StoredCall
  <2>. DEFINE kind == call[c].kind
              next == StoredCall(cur, o, kind)
  <2>3. next \in Call /\ next.step = "stored" /\ next.id = cur /\ next.obj = o
    <3>1. kind \in Kinds
      BY <2>1
    <3>. HIDE DEF kind
    <3>. QED
      BY <2>1, <3>1, StoredIsCall, ZenonT(40)
  <2>4. Moved(c, next)
    BY <2>2
  <2>. HIDE DEF next
  <2>. QED
    BY <1>3, <2>1, <2>3, <2>4, AddStep DEF BeginAction, Busy
<1>4. ASSUME NEW c \in Callers, NEW h \in held[c],
             NEW kind \in {"operation", "arraystruct"}, Look(c, h, kind)
      PROVE  IInv'
  <2>. DEFINE r == [Idle EXCEPT !.step = "looking", !.id = h.id, !.kind = kind]
  <2>1. h \in Handle
    BY DEF IInv, TypeOK
  <2>2. r \in Call /\ r.step = "looking" /\ r.id = h.id
    BY <2>1 DEF Idle, Call, Handle, Kinds
  <2>. QED
    BY <1>4, <2>2, QuietStep DEF Look
<1>5. ASSUME NEW c \in Callers, Found(c) PROVE IInv'
  <2>1. PICK o \in Copied(c) : call' = [call EXCEPT ![c].step = "found", ![c].obj = o]
    BY <1>5 DEF Found
  <2>. DEFINE r == [call[c] EXCEPT !.step = "found", !.obj = o]
  <2>2. /\ call \in [Callers -> Call] /\ store \in Seq(Objects \cup {NoObject})
        /\ held \in [Callers -> SUBSET Handle] /\ cur \in 1..Len(store) + 1
    BY DEF IInv, TypeOK, Call
  <2>3. PICK h \in held[c] : h.id = call[c].id
    BY <1>5 DEF Found, IInv, Asking
  <2>4. h \in Handle /\ h.id \in 1..Len(store) /\ store[h.id] = h.obj
    BY <2>2 DEF IInv, Owned, Handle
  <2>5. o \in Objects \cup {NoObject} /\ (~call[c].moved => o = h.obj)
    BY <2>1, <2>2, <2>3, <2>4 DEF Copied
  <2>6. /\ r \in Call /\ r.step = "found" /\ r.moved = call[c].moved
        /\ r.id = h.id /\ r.obj = o
    BY <2>2, <2>3, <2>5 DEF Call
  <2>7. call' = [call EXCEPT ![c] = r]
    BY <2>1, <2>2
  <2>8. ~r.moved => [id |-> r.id, obj |-> r.obj] \in held[c]
    BY <2>4, <2>5, <2>6 DEF Handle
  <2>. HIDE DEF r
  <2>. QED
    BY <1>5, <2>6, <2>7, <2>8, QuietStep DEF Found
<1>6. ASSUME NEW c \in Callers, LookFails(c) \/ ReturnError(c) \/ EndFails(c) PROVE IInv'
  BY <1>6, IdleIsCall, QuietStep DEF LookFails, ReturnError, EndFails
<1>7. ASSUME NEW c \in Callers, ReturnEmpty(c) \/ Deleted(c) PROVE IInv'
  BY <1>7, FreeStep DEF ReturnEmpty, Deleted, Busy
<1>. QED
  BY <1>1, <1>2, <1>3, <1>4, <1>5, <1>6, <1>7,
     BeginFailsStep, ReturnStep, EndActionStep DEF Next

LEMMA Invariant == Spec => []IInv
BY Initially, Inductive, PTL DEF Spec

-------------------------------------------------------------------------------
(***************************************************************************)
(* Every reachable state of the store has its type, and no position that   *)
(* addLLenv() can fill next names an object.                               *)
(***************************************************************************)
THEOREM StoreTyped == Spec => []TypeOK
<1>1. IInv => TypeOK
  BY DEF IInv
<1>. QED
  BY <1>1, Invariant, PTL

(***************************************************************************)
(* For any threads and objects, and through failed begin and end calls:    *)
(* an id in use resolves to the live context it was given for, and so does *)
(* every lookup of one that no growth of the store has overtaken.          *)
(***************************************************************************)
THEOREM IdsAlwaysResolve == Spec => []IdsResolve
<1>1. IInv => IdsResolve
  <2>. SUFFICES ASSUME IInv, NEW c \in Callers, NEW h \in held[c] \cup Entering(c)
                PROVE  h.id \in 1..Len(store) /\ store[h.id] = h.obj /\ heap[h.obj] # "free"
    BY DEF IdsResolve, InUse, IInv, Asking
  <2>1. cur \in 1..Len(store) + 1 /\ Len(store) \in Nat /\ held \in [Callers -> SUBSET Handle]
    BY DEF IInv, TypeOK
  <2>2. CASE h \in held[c]
    BY <2>1, <2>2 DEF IInv, Owned, Handle
  <2>3. CASE h \in Entering(c)
    <3>1. call[c].step = "stored" /\ h = [id |-> call[c].id, obj |-> call[c].obj]
      BY <2>3 DEF Entering
    <3>. QED
      BY <2>1, <3>1 DEF IInv, Owned, Busy
  <2>. QED
    BY <2>2, <2>3
<1>. QED
  BY <1>1, Invariant, PTL

(***************************************************************************)
(* The store implements Handles: whatever the threads do, an id and an     *)
(* object are given to one holder at a time.  Return() gives, EndAction()  *)
(* takes, every other step is invisible to the callers.                    *)
(***************************************************************************)
THEOREM StoreGivesHandles == Spec => HandlesSpec
<1>. DEFINE live == UNION {held[c] : c \in Callers}
<1>1. Init => Ids!Init
  BY DEF Init, Ids!Init
<1>2. IInv /\ [Next]_vars => [Ids!Next]_live
  <2>. SUFFICES ASSUME IInv, [Next]_vars PROVE Ids!Next \/ live' = live
    OBVIOUS
  <2>0. held \in [Callers -> SUBSET Handle]
    BY DEF IInv, TypeOK
  <2>1. ASSUME NEW c \in Callers, Return(c) PROVE Ids!Give
    <3>. DEFINE h == [id |-> call[c].id, obj |-> call[c].obj]
    <3>1. held'[c] = held[c] \cup {h} /\ \A d \in Callers \ {c} : held'[d] = held[d]
      BY <2>0, <2>1 DEF Return
    <3>2. live' = live \cup {h}
      BY <3>1
    <3>3. call[c].step = "stored" /\ Busy(c) /\ store[h.id] = h.obj
      BY <2>1 DEF Return, Busy, IInv, Owned
    <3>4. \A g \in live : g.obj # h.obj /\ store[g.id] = g.obj
      BY <3>3 DEF IInv, Owned, Unshared
    <3>5. \A g \in live : g.id # h.id /\ g.obj # h.obj
      BY <3>3, <3>4
    <3>6. h \in live' \ live
      BY <3>2, <3>5
    <3>. QED
      BY <3>2, <3>5, <3>6 DEF Ids!Give
  <2>2. ASSUME NEW c \in Callers, NEW h \in held[c], EndAction(c, h) PROVE Ids!Take
    <3>1. held'[c] = held[c] \ {h} /\ \A d \in Callers \ {c} : held'[d] = held[d]
      BY <2>0, <2>2 DEF EndAction
    <3>2. \A d \in Callers : h \in held[d] => d = c
      BY DEF IInv, Unshared
    <3>3. live' = live \ {h} /\ h \in live
      BY <3>1, <3>2
    <3>. QED
      BY <3>3 DEF Ids!Take
  <2>3. ASSUME UNCHANGED held PROVE live' = live
    BY <2>3
  <2>4. (\E c \in Callers : Return(c) \/ \E h \in held[c] : EndAction(c, h)) \/ UNCHANGED held
    BY DEF Next, vars, BeginDataEntry, BeginAction, BeginFails, Look, Found, LookFails,
           ReturnError, ReturnEmpty, Deleted, EndFails
  <2>. QED
    BY <2>1, <2>2, <2>3, <2>4 DEF Ids!Next
<1>. QED
  BY <1>1, <1>2, Invariant, PTL DEF Spec, HandlesSpec, Ids!Spec

===============================================================================
