---------------------------- MODULE MemoryEntries ----------------------------
(***************************************************************************)
(* Data entries of the memory backend under threads.                       *)
(*                                                                         *)
(* A MemoryBackend object belongs to one open data entry and points to an  *)
(* InternalCtx, the content of the entry, which ctxMap finds by path.  The *)
(* registry is guarded by a global mutex, the content by a recursive mutex *)
(* of its own.  InternalCtx::unlock() takes that mutex once more, as the   *)
(* code does: a thread that has entered a content keeps it.                *)
(*                                                                         *)
(* A call is the steps between two waits: a call that waits for the global *)
(* mutex, or for the one of a content, waits in the state before the step. *)
(* What the content holds is the subject of MemoryIds.                     *)
(***************************************************************************)
EXTENDS Integers, FiniteSets

CONSTANTS
  Threads,
  Handles,      \* MemoryBackend objects
  Paths,
  Contents,     \* addresses an InternalCtx can have
  None,         \* NULL, or nobody
  PathsOf,      \* [Threads -> the paths the thread opens]
  CloseShared,  \* whether a handle is closed while another one has its content
  EndFailed,    \* whether a handle whose open failed is ended too
  MaxCalls      \* bound on the calls of a thread

ASSUME NoneAssumption == None \notin Threads \cup Handles \cup Paths \cup Contents
ASSUME PathsOfAssumption == PathsOf \in [Threads -> SUBSET Paths]
ASSUME SwitchAssumption == {CloseShared, EndFailed} \subseteq BOOLEAN
ASSUME MaxCallsAssumption == MaxCalls \in Nat

Modes == {"open", "force_open", "create", "force_create"}

VARIABLES
  ctxMap,    \* [Paths -> content registered there, or None]
  content,   \* [Contents -> refCount, fullName and the state of the mutex]
  handle,    \* [Handles -> the thread that uses it, its path and internalCtx]
  global,    \* the thread that holds the global mutex, or None
  call,      \* [Threads -> the call under way]
  calls,     \* [Threads -> calls begun]
  wild       \* whether a null or freed content was used

vars == <<ctxMap, content, handle, global, call, calls, wild>>

Freed == [refs |-> 0, path |-> None, owner |-> None, depth |-> 0]
Closed == [user |-> None, path |-> None, ctx |-> None, state |-> "closed"]
Idle == [step |-> "idle", h |-> None, mode |-> "open"]

Init ==
  /\ ctxMap = [p \in Paths |-> None]
  /\ content = [c \in Contents |-> Freed]
  /\ handle = [h \in Handles |-> Closed]
  /\ global = None
  /\ call = [t \in Threads |-> Idle]
  /\ calls = [t \in Threads |-> 0]
  /\ wild = FALSE

-------------------------------------------------------------------------------
(***************************************************************************)
(* The mutex of a content is recursive, and unlock() locks it.             *)
(***************************************************************************)

\* A content that is freed has no name any more.
Live(c) == content[c].path # None

\* Fault: the mutex is a plain one, which its owner cannot take twice.
MayLockOnce(c, t) == content[c].owner = None

MayLock(c, t) == content[c].owner \in {None, t}

Lock(x, t) == [x EXCEPT !.owner = t, !.depth = @ + 1]

Unlock(x, t) == Lock(x, t)

Begin(t, step, h, mode) ==
  /\ call[t].step = "idle" /\ calls[t] < MaxCalls /\ ~wild
  /\ call' = [call EXCEPT ![t] = [step |-> step, h |-> h, mode |-> mode]]
  /\ calls' = [calls EXCEPT ![t] = @ + 1]

Go(t, step) == call' = [call EXCEPT ![t].step = step]

-------------------------------------------------------------------------------
(***************************************************************************)
(* openPulse().  The backend object was made just before; a path that      *)
(* fails leaves it with the internalCtx it had got by then.                *)
(***************************************************************************)
StartOpen(t, h, p, mode) ==
  /\ handle[h].state = "closed"
  /\ Begin(t, "open", h, mode)
  /\ handle' = [handle EXCEPT ![h] = [Closed EXCEPT !.user = t, !.path = p,
                                                   !.state = "opening"]]
  /\ UNCHANGED <<ctxMap, content, global, wild>>

TakeGlobal(t) ==
  /\ call[t].step \in {"open", "destroy"} /\ global = None
  /\ global' = t
  /\ Go(t, IF call[t].step = "open" THEN "opening" ELSE "destroying")
  /\ UNCHANGED <<ctxMap, content, handle, calls, wild>>

\* Where openPulse() goes once the handle has its content.
AfterOpen(t) ==
  IF call[t].mode = "force_create"
  THEN Go(t, "clearing") /\ UNCHANGED global
  ELSE Go(t, "idle") /\ global' = None

\* Fault: the path that finds the pulse in the way of a create keeps the mutex.
OpenFailsLocked(t, c) ==
  /\ handle' = [handle EXCEPT ![call[t].h].state = "failed", ![call[t].h].ctx = c]
  /\ Go(t, "idle")
  /\ UNCHANGED <<ctxMap, content, global>>

OpenFails(t, c) ==
  /\ handle' = [handle EXCEPT ![call[t].h].state = "failed", ![call[t].h].ctx = c]
  /\ Go(t, "idle") /\ global' = None
  /\ UNCHANGED <<ctxMap, content>>

\* Fault: opening an entry that exists does not count the new handle.
OpenExistingUncounted(t, c) ==
  /\ IF call[t].mode = "create" THEN OpenFails(t, c)
     ELSE /\ handle' = [handle EXCEPT ![call[t].h].state = "open", ![call[t].h].ctx = c]
          /\ AfterOpen(t)
          /\ UNCHANGED <<ctxMap, content>>

OpenExisting(t, c) ==
  IF call[t].mode = "create" THEN OpenFails(t, c)
  ELSE /\ handle' = [handle EXCEPT ![call[t].h].state = "open", ![call[t].h].ctx = c]
       /\ content' = [content EXCEPT ![c].refs = @ + 1]
       /\ AfterOpen(t)
       /\ UNCHANGED ctxMap

OpenNew(t, c) ==
  LET h == call[t].h
  IN  /\ ~Live(c)
      /\ content' = [content EXCEPT ![c] = [Freed EXCEPT !.refs = 1, !.path = handle[h].path]]
      /\ ctxMap' = [ctxMap EXCEPT ![handle[h].path] = c]
      /\ handle' = [handle EXCEPT ![h].state = "open", ![h].ctx = c]
      /\ AfterOpen(t)

\* Fault: force_create makes a new content beside the one that is there.
OpenPulseAnew(t) ==
  LET found == ctxMap[handle[call[t].h].path]
  IN  IF found # None /\ call[t].mode # "force_create" THEN OpenExisting(t, found)
      ELSE IF call[t].mode = "open" THEN OpenFails(t, None)
      ELSE \E c \in Contents : OpenNew(t, c)

OpenPulse(t) ==
  LET found == ctxMap[handle[call[t].h].path]
  IN  IF found # None THEN OpenExisting(t, found)
      ELSE IF call[t].mode = "open" THEN OpenFails(t, None)
      ELSE \E c \in Contents : OpenNew(t, c)

Opening(t) == call[t].step = "opening" /\ OpenPulse(t) /\ UNCHANGED <<calls, wild>>

\* force_create empties the content, inside both mutexes.
ClearContent(t) ==
  LET c == handle[call[t].h].ctx
  IN  /\ call[t].step = "clearing" /\ MayLock(c, t)
      /\ content' = [content EXCEPT ![c] = Unlock(Lock(@, t), t)]
      /\ global' = None /\ Go(t, "idle")
      /\ UNCHANGED <<ctxMap, handle, calls, wild>>

-------------------------------------------------------------------------------
(***************************************************************************)
(* Any call that works on the content: lock, work, unlock.                 *)
(***************************************************************************)
StartAccess(t, h) ==
  /\ handle[h].state = "open" /\ handle[h].user = t
  /\ Begin(t, "access", h, "open")
  /\ UNCHANGED <<ctxMap, content, handle, global, wild>>

Access(t) ==
  LET c == handle[call[t].h].ctx
  IN  /\ call[t].step = "access" /\ MayLock(c, t)
      /\ content' = IF Live(c)
                    THEN [content EXCEPT ![c] = Unlock(Lock(@, t), t)] ELSE content
      /\ wild' = (wild \/ ~Live(c))
      /\ Go(t, "idle")
      /\ UNCHANGED <<ctxMap, handle, global, calls>>

-------------------------------------------------------------------------------
(***************************************************************************)
(* al_end_action() on the data entry deletes the backend object:           *)
(* ~MemoryBackend() frees the content whatever refCount says.              *)
(* closePulse() does nothing.                                              *)
(***************************************************************************)
Others(h) == {k \in Handles \ {h} : handle[k].state = "open" /\ handle[k].ctx = handle[h].ctx}

StartDestroy(t, h) ==
  /\ handle[h].user = t
  /\ \/ handle[h].state = "open"
     \/ handle[h].state = "failed" /\ EndFailed
  /\ CloseShared \/ Others(h) = {}
  /\ Begin(t, "destroy", h, "open")
  /\ UNCHANGED <<ctxMap, content, handle, global, wild>>

\* Fault: the content is freed and stays registered.
DestroyRegistered(t) ==
  LET c == handle[call[t].h].ctx
  IN  /\ call[t].step = "destroying"
      /\ IF c # None /\ Live(c)
         THEN content' = [content EXCEPT ![c] = Freed] /\ UNCHANGED wild
         ELSE wild' = TRUE /\ UNCHANGED content
      /\ handle' = [handle EXCEPT ![call[t].h] = Closed]
      /\ global' = None /\ Go(t, "idle")
      /\ UNCHANGED <<ctxMap, calls>>

Destroy(t) ==
  LET c == handle[call[t].h].ctx
  IN  /\ call[t].step = "destroying"
      /\ IF c # None /\ Live(c)
         THEN /\ ctxMap' = [ctxMap EXCEPT ![content[c].path] = None]
              /\ content' = [content EXCEPT ![c] = Freed]
              /\ UNCHANGED wild
         ELSE wild' = TRUE /\ UNCHANGED <<ctxMap, content>>
      /\ handle' = [handle EXCEPT ![call[t].h] = Closed]
      /\ global' = None /\ Go(t, "idle")
      /\ UNCHANGED calls

-------------------------------------------------------------------------------
Proceed(t) ==
  TakeGlobal(t) \/ Opening(t) \/ ClearContent(t) \/ Access(t) \/ Destroy(t)

Next ==
  \E t \in Threads :
    \/ \E h \in Handles, p \in PathsOf[t], mode \in Modes : StartOpen(t, h, p, mode)
    \/ \E h \in Handles : StartAccess(t, h) \/ StartDestroy(t, h)
    \/ Proceed(t)

Spec == Init /\ [][Next]_vars

\* A thread inside a library call runs on; whether it makes another is its affair.
Fairness == \A t \in Threads : WF_vars(Proceed(t))

FairSpec == Spec /\ Fairness

-------------------------------------------------------------------------------
Steps == {"idle", "open", "opening", "clearing", "access", "destroy", "destroying"}

\* Types, and who is inside the critical sections of the global mutex.
TypeOK ==
  /\ ctxMap \in [Paths -> Contents \cup {None}]
  /\ \A c \in Contents : content[c].refs \in Int /\ content[c].depth \in Nat
  /\ \A h \in Handles : handle[h].ctx \in Contents \cup {None}
  /\ \A h \in Handles : handle[h].state \in {"closed", "opening", "open", "failed"}
  /\ calls \in [Threads -> 0..MaxCalls]
  /\ \A t \in Threads : call[t].step \in Steps
  /\ global \in Threads \cup {None}
  /\ \A t \in Threads :
       global = t <=> call[t].step \in {"opening", "clearing", "destroying"}

(***************************************************************************)
(* An open entry points to a content that exists and is the one registered *)
(* for its path: all handles of a path share what is stored there.         *)
(***************************************************************************)
OpenMeansRegistered ==
  /\ ~wild
  /\ \A h \in Handles :
       handle[h].state = "open" =>
         Live(handle[h].ctx) /\ ctxMap[handle[h].path] = handle[h].ctx

(***************************************************************************)
(* refCount is the number of open handles, and the registry holds the      *)
(* live contents and nothing else.                                         *)
(***************************************************************************)
CountedAndRegistered ==
  /\ \A c \in Contents :
       Live(c) =>
         /\ content[c].refs = Cardinality({h \in Handles : handle[h].state = "open"
                                                           /\ handle[h].ctx = c})
         /\ ctxMap[content[c].path] = c
  /\ \A p \in Paths : ctxMap[p] # None => Live(ctxMap[p])

(***************************************************************************)
(* No wait is for good.  Nobody waits for the mutex of a content: whoever  *)
(* has it never gives it back.  So a call waits for the global mutex only, *)
(* held by a thread that is inside openPulse() or the destructor and can   *)
(* run on.                                                                 *)
(***************************************************************************)
WaitsForContent(t) ==
  call[t].step \in {"clearing", "access"} /\ ~MayLock(handle[call[t].h].ctx, t)

WaitsForGlobal(t) == call[t].step \in {"open", "destroy"} /\ global # None

WaitsEnd ==
  \A t \in Threads :
    /\ ~WaitsForContent(t)
    /\ WaitsForGlobal(t) =>
         /\ global \in Threads
         /\ call[global].step \in {"opening", "clearing", "destroying"}

(***************************************************************************)
(* Every call returns: no path through openPulse() or the destructor       *)
(* leaves a thread waiting for good.                                       *)
(***************************************************************************)
EveryCallReturns == \A t \in Threads : call[t].step # "idle" ~> call[t].step = "idle"

===============================================================================
