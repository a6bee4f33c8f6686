---------------------------- MODULE MCKeyRotation ----------------------------
(***************************************************************************)
(* Small instances of KeyRotation for TLC.                                 *)
(*                                                                         *)
(*   grant   an ordinary event                                             *)
(*   rotate  replaces the records key, from the third ring                 *)
(*   both    replaces both keys, from the fourth ring                      *)
(*   back    would replace the coverage key and select the first records   *)
(*           key again                                                     *)
(*   rename  would do so under another name                                *)
(***************************************************************************)
EXTENDS KeyRotation, TLC

CONSTANTS p1, p2, grant, rotate, both, back, rename

Kids(r, c) == [records |-> r, coverage |-> c]

Ring(copies, wrapping) == [copies |-> copies, bindings |-> copies, wrapping |-> wrapping]

First == ( <<"records", "r1">> :> 11 @@ <<"coverage", "c1">> :> 21 )

Second == First @@ ( <<"records", "r2">> :> 12 @@ <<"coverage", "c2">> :> 22 )

(* A ring with a new name for old bytes. *)
Renamed == Second @@ ( <<"records", "r3">> :> 11 @@ <<"records", "r4">> :> 14 )

MCInitialKids == Kids("r1", "c1")

MCActivation ==
  (rotate :> [kids |-> Kids("r2", "c1"), generation |-> 1, candidate |-> 3] @@
   both   :> [kids |-> Kids("r4", "c2"), generation |-> 2, candidate |-> 4] @@
   back   :> [kids |-> Kids("r1", "c2"), generation |-> 3, candidate |-> 4] @@
   rename :> [kids |-> Kids("r3", "c2"), generation |-> 4, candidate |-> 4])

MCFirstRing == Ring(First, "w1")

(* New keys; new keys and a renamed one; a ring that lost the first keys. *)
MCPushedRing == {Ring(Second, "w1"), Ring(Renamed, "w2"),
                 Ring([k \in DOMAIN Renamed \ DOMAIN First |-> Renamed[k]], "w1")}

MCKey == [op \in Operation |-> op]

MCNone == [op \in {} |-> op]

Symmetry == Permutations({p1, p2})
=============================================================================
