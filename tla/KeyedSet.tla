------------------------------ MODULE KeyedSet ------------------------------
(***************************************************************************)
(* What a container with unique keys promises (the hash table and the red  *)
(* black tree): a set of nodes, at most one for each key.                  *)
(***************************************************************************)
CONSTANTS Node, KeyOf

VARIABLE content

Init == content = {}

Insert(n) ==
  /\ \A m \in content : KeyOf[m] # KeyOf[n]
  /\ content' = content \cup {n}

Remove(n) == n \in content /\ content' = content \ {n}

Clear == content' = {}

Next == (\E n \in Node : Insert(n) \/ Remove(n)) \/ Clear

Spec == Init /\ [][Next]_content
=============================================================================
