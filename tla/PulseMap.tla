-------------------------------- MODULE PulseMap --------------------------------
(***************************************************************************)
(* What a pulse promises its users: a map from IDSs to what they hold.     *)
(* An operation changes the IDS it is about and no other, and sessions     *)
(* come and go without changing any; only a pulse created anew is empty.   *)
(* An IDS that a session wrote in another version than it reads is out of  *)
(* the map until it is stored again or deleted.                            *)
(***************************************************************************)
EXTENDS Naturals, Sequences

CONSTANT IDSs

VARIABLES
  contents,  \* what each IDS in the map holds: the numbers of its payloads
  last       \* the number of the last payload

Init ==
  /\ contents = [i \in IDSs |-> << >>]
  /\ last = 0

Replace(i, held) ==
  contents' = [j \in DOMAIN contents \union {i} |->
                 IF j = i THEN held ELSE contents[j]]

Put(i) == last' = last + 1 /\ Replace(i, <<last'>>)

Extend(i) ==
  /\ i \in DOMAIN contents
  /\ last' = last + 1
  /\ Replace(i, Append(contents[i], last'))

Delete(i) == last' = last + 1 /\ Replace(i, << >>)

\* A put that fails uses its payload up.
Refuse == last' = last + 1 /\ contents' = contents

\* A write across versions.
Blur(i) ==
  /\ last' = last + 1
  /\ contents' = [j \in DOMAIN contents \ {i} |-> contents[j]]

CreateAnew == contents' = [i \in IDSs |-> << >>] /\ last' = last

Next ==
  \/ \E i \in IDSs : Put(i) \/ Extend(i) \/ Delete(i) \/ Blur(i)
  \/ Refuse
  \/ CreateAnew

Spec == Init /\ [][Next]_<<contents, last>>

===============================================================================
