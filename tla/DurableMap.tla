---------------------------- MODULE DurableMap ----------------------------
(***************************************************************************)
(* What a store of records promises over restarts: a put is visible at     *)
(* once and is the only thing that changes its key; a restart keeps every  *)
(* record as it was as long as no put was risky; and after a risky put a   *)
(* restart may lose a record or go back to an earlier value of it, but     *)
(* never gives a key a value it did not have.                              *)
(***************************************************************************)
CONSTANTS Ids, None

VARIABLES
  map,     \* the value of each key, or None
  past,    \* the values a key may have had
  frail    \* was there a risky put, or one cut short

Init ==
  /\ map  = [i \in Ids |-> None]
  /\ past = [i \in Ids |-> {}]
  /\ frail = FALSE

Put(i) ==
  /\ past[i] \subseteq past'[i] /\ map'[i] \in past'[i]
  /\ \A j \in Ids \ {i} : map'[j] = map[j] /\ past'[j] = past[j]
  /\ frail => frail'

Survivors(history) ==
  /\ frail => \A i \in Ids : map'[i] \in {None} \union history[i]
  /\ ~frail => map' = map

Restart == Survivors(past) /\ UNCHANGED <<past, frail>>

\* The process dies in a put.
TornPut(i) ==
  /\ past[i] \subseteq past'[i]
  /\ \A j \in Ids \ {i} : past'[j] = past[j]
  /\ frail'
  /\ \A j \in Ids : map'[j] \in {None} \union past'[j]

Next == Restart \/ \E i \in Ids : Put(i) \/ TornPut(i)

Spec == Init /\ [][Next]_<<map, past, frail>>
=============================================================================
