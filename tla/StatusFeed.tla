----------------------------- MODULE StatusFeed -----------------------------
(***************************************************************************)
(* What the feed promises to an operator's page, whatever connections come *)
(* and go: it only ever shows a state the server was in, and for a topic   *)
(* published in order it never goes back to an older one.                   *)
(***************************************************************************)
EXTENDS Naturals

CONSTANTS Page, Topic,
          Ordered   \* the topics published in the order of their changes

VARIABLES current,  \* the number of states each topic has been in
          shown     \* the one each page shows; 0 before the first message

Init == /\ current = [t \in Topic |-> 1]
        /\ shown = [p \in Page |-> [t \in Topic |-> 0]]

Change == /\ \E T \in SUBSET Topic :
                current' = [t \in Topic |-> IF t \in T THEN current[t] + 1 ELSE current[t]]
          /\ UNCHANGED shown

Show(p, t) == /\ \E v \in 1..current[t] :
                    /\ t \in Ordered => v >= shown[p][t]
                    /\ shown' = [shown EXCEPT ![p][t] = v]
              /\ UNCHANGED current

Next == Change \/ \E p \in Page, t \in Topic : Show(p, t)
Spec == Init /\ [][Next]_<<current, shown>>
=============================================================================
