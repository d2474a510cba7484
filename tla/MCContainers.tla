---------------------------- MODULE MCContainers ----------------------------
(***************************************************************************)
(* The containers of the library and the root table, each with its client. *)
(* They share no state, so a behaviour exercises one of them: which, chosen*)
(* at the start, says whose steps it takes.                                *)
(*                                                                         *)
(* Hash table: five nodes, two of them with the same key; with one list in *)
(* the first buffer the table grows at 0 and 3 nodes.  Root table: two     *)
(* objects, five nodes at addresses that fall on different lists.  Tree:   *)
(* seven keys.  Lists: four nodes.                                         *)
(***************************************************************************)
EXTENDS HashTable, GcRoot, Lists, RBTree, TLC

CONSTANTS n1, n2, n3, n4, n5

MCNode  == {n1, n2, n3, n4, n5}
MCKeyOf == n1 :> 0 @@ n2 :> 1 @@ n3 :> 3 @@ n4 :> 4 @@ n5 :> 4
MCNodeAddr == 32 .. 36
MCTreeNode == 1 .. 7

VARIABLE which

mcVars == <<which, vars, rootVars, treeVars, listVars>>

MCInit ==
  /\ which \in {"hash", "roots", "tree", "lists"}
  /\ Init /\ RootInit /\ TreeInit /\ ListInit

\* The root table ends with its shutdown.
RootsDone == ~up /\ UNCHANGED rootVars

MCNext ==
  /\ UNCHANGED which
  /\ \/ /\ which = "hash" /\ Next
        /\ UNCHANGED <<rootVars, treeVars, listVars>>
     \/ /\ which = "roots" /\ (RootNext \/ RootsDone)
        /\ UNCHANGED <<vars, treeVars, listVars>>
     \/ /\ which = "tree" /\ TreeNext
        /\ UNCHANGED <<vars, rootVars, listVars>>
     \/ /\ which = "lists" /\ ListNext
        /\ UNCHANGED <<vars, rootVars, treeVars>>

\* A call of the tree that has been made runs on.
MCSpec == MCInit /\ [][MCNext]_mcVars /\ WF_mcVars(which = "tree" /\ MCNext /\ Running)
=============================================================================
