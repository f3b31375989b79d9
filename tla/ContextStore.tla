----------------------------- MODULE ContextStore -----------------------------
(***************************************************************************)
(* The store of the low level API: a vector of (backend, context) pairs    *)
(* shared by every thread of the process, whose positions are the ids that *)
(* callers pass around.  A caller opens a data entry, begins an operation  *)
(* on it and arrays of structures below that, and ends them again.         *)
(*                                                                         *)
(* addLLenv() and delLLenv() take the mutex and are one step each;         *)
(* getLLenv() does not: it reads the vector while push_back() may be       *)
(* moving it, so looking an id up takes two steps here, and one the vector *)
(* grew under is given anything at all.  The call then goes on with that;  *)
(* what a backend does with it is left out, as is all a backend does       *)
(* except that it may fail.  Plugins are disabled, which is the default.   *)
(***************************************************************************)
EXTENDS Naturals, Sequences

CONSTANTS
  Callers,    \* threads
  Objects,    \* addresses a context object can have
  NoObject,   \* NULL, or an address where no context was ever made
  MaxStore    \* bound on the positions of the vector

ASSUME NoObjectAssumption == NoObject \notin Objects
ASSUME MaxStoreAssumption == MaxStore \in Nat

VARIABLES
  store,   \* llenvStore behind its unused first element: the contexts
  cur,     \* curStoreElt
  heap,    \* [Objects -> kind of the context allocated there, or "free"]
  call,    \* [Callers -> the API call under way]
  held     \* [Callers -> the ids the caller was given and has not ended]

vars == <<store, cur, heap, call, held>>

Kinds == {"pulse", "operation", "arraystruct"}
Idle == [step |-> "idle", id |-> 0, obj |-> NoObject, kind |-> "pulse", moved |-> FALSE]

Init ==
  /\ store = << >> /\ cur = 1
  /\ heap = [o \in Objects |-> "free"]
  /\ call = [c \in Callers |-> Idle]
  /\ held = [c \in Callers |-> {}]

-------------------------------------------------------------------------------
(***************************************************************************)
(* The two locked operations.  A push_back may move the vector under the   *)
(* lookups that are under way.                                             *)
(***************************************************************************)

Moved(c, next) ==
  call' = [d \in Callers |->
             CASE d = c -> next
               [] d # c /\ call[d].step = "looking" /\ cur = Len(store) + 1
                    -> [call[d] EXCEPT !.moved = TRUE]
               [] OTHER -> call[d]]

\* Fault: the position of the next free slot is not moved on by an overwrite.
AddLLenvInPlace(o) ==
  IF cur = Len(store) + 1
  THEN store' = Append(store, o) /\ cur' = cur + 1
  ELSE store' = [store EXCEPT ![cur] = o] /\ cur' = cur

AddLLenv(o) ==
  /\ cur <= MaxStore
  /\ store' = IF cur = Len(store) + 1 THEN Append(store, o)
              ELSE [store EXCEPT ![cur] = o]
  /\ cur' = cur + 1

\* Fault: ending any context gives the last position back.
DelLLenvAny(id) ==
  /\ store' = [store EXCEPT ![id] = NoObject]
  /\ cur' = cur - 1

\* Only the last position given out is given back; the others stay empty.
DelLLenv(id) ==
  /\ store' = [store EXCEPT ![id] = NoObject]
  /\ cur' = IF id = cur - 1 THEN cur - 1 ELSE cur

-------------------------------------------------------------------------------
(***************************************************************************)
(* al_begin_dataentry_action(): the context is stored, then the backend    *)
(* opens the entry.                                                        *)
(***************************************************************************)
BeginDataEntry(c, o) ==
  /\ call[c].step = "idle" /\ heap[o] = "free"
  /\ AddLLenv(o)
  /\ heap' = [heap EXCEPT ![o] = "pulse"]
  /\ Moved(c, [Idle EXCEPT !.step = "stored", !.id = cur, !.obj = o,
                           !.kind = "pulse"])
  /\ UNCHANGED held

(***************************************************************************)
(* The begin actions below a context: getLLenv() of its id first.          *)
(***************************************************************************)
Below(kind) == IF kind = "operation" THEN {"pulse"} ELSE {"operation", "arraystruct"}

Look(c, h, kind) ==
  /\ call[c].step = "idle" /\ h \in held[c]
  /\ heap[h.obj] \in Below(kind)
  /\ call' = [call EXCEPT ![c] = [Idle EXCEPT !.step = "looking", !.id = h.id,
                                              !.kind = kind]]
  /\ UNCHANGED <<store, cur, heap, held>>

(***************************************************************************)
(* What a lookup can copy out of the vector.  at() and the copy behind it  *)
(* read the vector's own pointers and then the element: when a push_back() *)
(* comes in between, the element is memory the vector has given back, with *)
(* the right context still in it, another one's, or garbage.               *)
(***************************************************************************)
Copied(c) ==
  IF call[c].moved THEN Objects \cup {NoObject} ELSE {store[call[c].id]} \ {NoObject}

Found(c) ==
  /\ call[c].step = "looking"
  /\ \E o \in Copied(c) : call' = [call EXCEPT ![c].step = "found", ![c].obj = o]
  /\ UNCHANGED <<store, cur, heap, held>>

\* The id is out of range, or NULL is read there: no context has this id.
LookFails(c) ==
  /\ call[c].step = "looking"
  /\ call[c].moved \/ store[call[c].id] = NoObject
  /\ call' = [call EXCEPT ![c] = Idle]
  /\ UNCHANGED <<store, cur, heap, held>>

\* The new context is made, the backend begins, and the context is stored.
BeginAction(c, o) ==
  /\ call[c].step = "found" /\ heap[o] = "free"
  /\ AddLLenv(o)
  /\ heap' = [heap EXCEPT ![o] = call[c].kind]
  /\ Moved(c, [Idle EXCEPT !.step = "stored", !.id = cur, !.obj = o,
                           !.kind = call[c].kind])
  /\ UNCHANGED held

\* The backend or the version check throws: the new context is never stored or deleted.
BeginFails(c, o) ==
  /\ call[c].step = "found" /\ heap[o] = "free"
  /\ heap' = [heap EXCEPT ![o] = call[c].kind]
  /\ call' = [call EXCEPT ![c] = Idle]
  /\ UNCHANGED <<store, cur, held>>

\* The id goes back to the caller.
Return(c) ==
  /\ call[c].step = "stored"
  /\ held' = [held EXCEPT ![c] = @ \cup {[id |-> call[c].id, obj |-> call[c].obj]}]
  /\ call' = [call EXCEPT ![c] = Idle]
  /\ UNCHANGED <<store, cur, heap>>

(***************************************************************************)
(* An error behind addLLenv(): openPulse() or the version check of an      *)
(* entry, a negative size of an array of structures.  The caller gets an   *)
(* error status, and the context stays stored.                             *)
(***************************************************************************)
ReturnError(c) ==
  /\ call[c].step = "stored"
  /\ call[c].kind # "operation"
  /\ call' = [call EXCEPT ![c] = Idle]
  /\ UNCHANGED <<store, cur, heap, held>>

\* An array of structures of size 0: the context is deleted, the id given is 0.
ReturnEmpty(c) ==
  /\ call[c].step = "stored"
  /\ call[c].kind = "arraystruct"
  /\ heap' = [heap EXCEPT ![call[c].obj] = "free"]
  /\ call' = [call EXCEPT ![c] = Idle]
  /\ UNCHANGED <<store, cur, held>>

(***************************************************************************)
(* al_end_action(): the id is given back, then the backend ends the action *)
(* and the context is deleted, unless the backend throws.  Ending a        *)
(* context before those below it is up to the caller, and allowed here.    *)
(***************************************************************************)
EndAction(c, h) ==
  /\ call[c].step = "idle" /\ h \in held[c]
  /\ DelLLenv(h.id)
  /\ held' = [held EXCEPT ![c] = @ \ {h}]
  /\ call' = [call EXCEPT ![c] = [Idle EXCEPT !.step = "ending", !.obj = store[h.id]]]
  /\ UNCHANGED heap

Deleted(c) ==
  /\ call[c].step = "ending"
  /\ heap' = [heap EXCEPT ![call[c].obj] = "free"]
  /\ call' = [call EXCEPT ![c] = Idle]
  /\ UNCHANGED <<store, cur, held>>

EndFails(c) ==
  /\ call[c].step = "ending"
  /\ call' = [call EXCEPT ![c] = Idle]
  /\ UNCHANGED <<store, cur, heap, held>>

Next ==
  \E c \in Callers :
     \/ \E o \in Objects : BeginDataEntry(c, o) \/ BeginAction(c, o) \/ BeginFails(c, o)
     \/ \E h \in held[c] :
          \/ \E kind \in {"operation", "arraystruct"} : Look(c, h, kind)
          \/ EndAction(c, h)
     \/ Found(c) \/ LookFails(c)
     \/ Return(c) \/ ReturnError(c) \/ ReturnEmpty(c)
     \/ Deleted(c) \/ EndFails(c)

Spec == Init /\ [][Next]_vars

-------------------------------------------------------------------------------
Handle == [id : Nat \ {0}, obj : Objects]

\* Type invariant.  No position that can be given out next names an object.
TypeOK ==
  /\ store \in Seq(Objects \cup {NoObject})
  /\ cur \in 1..Len(store) + 1
  /\ \A i \in cur..Len(store) : store[i] = NoObject
  /\ heap \in [Objects -> Kinds \cup {"free"}]
  /\ call \in [Callers -> [step : {"idle", "looking", "found", "stored", "ending"},
                           id : Nat, obj : Objects \cup {NoObject}, kind : Kinds,
                           moved : BOOLEAN]]
  /\ held \in [Callers -> SUBSET Handle]

\* The ids in use: those callers hold and those a begin call is about to return.
Entering(c) ==
  IF call[c].step = "stored" THEN {[id |-> call[c].id, obj |-> call[c].obj]} ELSE {}

InUse == UNION {held[c] \cup Entering(c) : c \in Callers}

\* The context the call of c has looked up is the one its caller gave the id of.
Answered(c) == [id |-> call[c].id, obj |-> call[c].obj] \in held[c]

(***************************************************************************)
(* An id in use resolves to the context it was given for, and that context *)
(* is alive, whatever the other threads begin, end, or fail to begin; and  *)
(* a lookup the vector did not grow under was given that context.  (One it *)
(* grew under, with no lock held, has no such guarantee.)                  *)
(***************************************************************************)
IdsResolve ==
  /\ \A h \in InUse :
        h.id \in 1..Len(store) /\ store[h.id] = h.obj /\ heap[h.obj] # "free"
  /\ \A c \in Callers : call[c].step = "found" /\ ~call[c].moved => Answered(c)

(***************************************************************************)
(* "LLenv structure containing a pair of pointers on backend and context   *)
(* objects": what is stored points at an object.                           *)
(***************************************************************************)
StoredIsAlive ==
  \A i \in 1..Len(store) : store[i] # NoObject => heap[store[i]] # "free"

\* Callers see the store as handles, whichever thread holds them.
Ids == INSTANCE Handles WITH live <- UNION {held[c] : c \in Callers}

HandlesSpec == Ids!Spec

===============================================================================
