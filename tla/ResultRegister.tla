--------------------------- MODULE ResultRegister ---------------------------
(***************************************************************************)
(* What odds ingestion promises the settlement of wagers about every       *)
(* event: its record follows the provider forwards in time, and its        *)
(* version rises exactly when the result it names changes, so that no      *)
(* version ever names two results.  A result that is taken back leaves no  *)
(* result under the old version.                                           *)
(***************************************************************************)
EXTENDS Naturals

CONSTANTS
  Event,
  Result,      \* what a version may name
  NoResult     \* an event that has not ended

VARIABLE record    \* per event: moment of the provider it shows, result, version

Blank == [moment |-> 0, result |-> NoResult, version |-> 0]

Init == record = [e \in Event |-> Blank]

\* The record of one event after result r is learned from moment m.
Learned(old, m, r) ==
  [moment  |-> m,
   result  |-> r,
   version |-> IF r \in {NoResult, old.result} THEN old.version ELSE old.version + 1]

\* One publication: some events are learned of, the others stay as they are.
Publish ==
  \E known \in SUBSET Event :
    /\ \A e \in known :
         /\ record'[e].moment >= record[e].moment
         /\ record'[e].result \in Result \cup {NoResult}
         /\ record'[e] = Learned(record[e], record'[e].moment, record'[e].result)
    /\ record' = [e \in Event |-> IF e \in known THEN record'[e] ELSE record[e]]

Next == Publish
Spec == Init /\ [][Next]_record
=============================================================================
