-------------------------- MODULE MCDirectoryAuthority --------------------------
(***************************************************************************)
(* Instances of DirectoryAuthority for TLC.                                *)
(***************************************************************************)
EXTENDS DirectoryAuthority, TLC

CONSTANTS p1, p2, a1, a2, l1, s1

\* What p1, which may crash, and p2, which survives, take on.
Shared == p1 :> {a1, l1, s1} @@ p2 :> {a2, s1}

All == [p \in Process |-> Call \cup Session]

Interchangeable == Permutations(Place)
=============================================================================
