------------------------------ MODULE MCPlugins ------------------------------
(***************************************************************************)
(* Small instances of Plugins: two plugins of the user, each with another  *)
(* to read its data back, or two that need none.                           *)
(***************************************************************************)
EXTENDS Plugins

CONSTANTS u1, u2, r1, r2, f, g, all, provenance, none

\* "*" comes before the letters, ids_properties between two fields.
MCOrder == <<all, f, provenance, g>>

AllNames == {u1, u2, r1, r2}
UserNames == {u1, u2}

Everywhere(operation) == [k \in {all, f, provenance, g, none} |-> operation]

MCOperation ==
  [p \in Names |-> CASE p = u1 -> Everywhere("PUT_AND_GET")
                     [] p = u2 -> Everywhere("PUT_ONLY")
                     [] OTHER -> Everywhere("GET_ONLY")]

MCReadback ==
  [p \in Names |-> CASE p = u1 -> [name |-> r1, index |-> 1]
                     [] p = u2 -> [name |-> r2, index |-> 0]
                     [] OTHER -> [name |-> none, index |-> 0]]

NoReadback == [p \in Names |-> [name |-> none, index |-> 0]]

\* u1 reads f and nothing else.
ByNode ==
  [p \in Names |->
     IF p = u1 THEN [Everywhere("PUT_ONLY") EXCEPT ![f] = "GET_ONLY"]
     ELSE Everywhere("PUT_AND_GET")]

===============================================================================
