--------------------------- MODULE ObjectCustody ---------------------------
(***************************************************************************)
(* What the provider promises about the objects behind one resource block, *)
(* whatever the resource: each object is born once, is then either pending *)
(* (an operation is about to record it), owned (in the Terraform state) or *)
(* leaked, and Terraform lets go of an object only when it no longer       *)
(* exists or by leaking it.                                                *)
(***************************************************************************)
CONSTANTS Ids, NoId

VARIABLES
    live,     \* the objects that exist
    born,     \* the objects that ever existed
    owned,    \* the object in the state, NoId: none
    pending,  \* the object about to be recorded, if any
    leaked    \* the objects Terraform lost track of

custody == <<live, born, owned, pending, leaked>>

Init ==
    /\ live = {}
    /\ born = {}
    /\ owned = NoId
    /\ pending = {}
    /\ leaked = {}

\* A create takes effect; its object is pending, or leaked at once.
Birth(i) ==
    /\ owned = NoId
    /\ pending = {}
    /\ i \notin born
    /\ live' = live \union {i}
    /\ born' = born \union {i}
    /\ owned' = owned
    /\ \/ pending' = {i} /\ leaked' = leaked
       \/ pending' = {} /\ leaked' = leaked \union {i}

\* Terraform or somebody else deletes an object.
Vanish(i) ==
    /\ live' = live \ {i}
    /\ UNCHANGED <<born, owned, pending, leaked>>

Record(i) ==
    /\ pending = {i}
    /\ owned' = i
    /\ pending' = {}
    /\ UNCHANGED <<live, born, leaked>>

\* The operation ends without recording the object it created.
GiveUp ==
    /\ pending # {}
    /\ pending' = {}
    /\ \/ leaked' = leaked /\ pending \cap live = {}
       \/ leaked' = leaked \union pending
    /\ UNCHANGED <<live, born, owned>>

\* The entry leaves the state.
Release ==
    /\ owned # NoId
    /\ owned' = NoId
    /\ \/ leaked' = leaked /\ owned \notin live
       \/ leaked' = leaked \union {owned}
    /\ UNCHANGED <<live, born, pending>>

Next ==
    \/ \E i \in Ids : Birth(i) \/ Vanish(i) \/ Record(i)
    \/ GiveUp
    \/ Release

Spec == Init /\ [][Next]_custody
=============================================================================
