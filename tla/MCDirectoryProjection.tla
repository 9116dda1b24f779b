------------------------ MODULE MCDirectoryProjection ------------------------
(***************************************************************************)
(* DirectoryProjection and PoolRegistry for TLC: how a pool gets into the  *)
(* D1 directory, and how its rows follow it from then on.  They write      *)
(* different tables, so each is explored from the initial state of the     *)
(* other.                                                                  *)
(***************************************************************************)
EXTENDS DirectoryProjection, PoolRegistry, TLC

CONSTANTS c1, c2, alarm, settle, r1, r2, r3, k1, k2, s1, s2, m1, m2

Interchangeable == Permutations({c1, c2}) \cup Permutations({r2, r3})

\* What r1 sends gives k1, s1 and m1 their names; the others send anything.
Sent == [r \in {r1, r2, r3} |->
           IF r = r1 THEN {[key |-> k1, slug |-> s1, material |-> m1]}
           ELSE [key : {k1, k2}, slug : {s1, s2}, material : {m1, m2}]]

DirectoryInit == Init /\ RegistryInit

DirectorySpec ==
  /\ DirectoryInit
  /\ [][\/ RegistryInit /\ Next /\ UNCHANGED registryVars
        \/ Init /\ RegistryNext /\ UNCHANGED vars]_<<vars, registryVars>>
=============================================================================
