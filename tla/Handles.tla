-------------------------------- MODULE Handles --------------------------------
(***************************************************************************)
(* What the low level API promises its callers about context ids: an id is *)
(* given out only while nobody holds it, it names one object that no other *)
(* id names, and it keeps naming it until its holder gives it back.        *)
(***************************************************************************)
VARIABLE live      \* the ids in use: records [id, obj]

Init == live = {}

Give ==
  \E h \in live' \ live :
     /\ live' = live \cup {h}
     /\ \A g \in live : g.id # h.id /\ g.obj # h.obj

Take == \E h \in live : live' = live \ {h}

Next == Give \/ Take

Spec == Init /\ [][Next]_live

===============================================================================
