------------------------------ MODULE WorkQueue ------------------------------
(***************************************************************************)
(* What the embedding queue promises, without its table, its workers'      *)
(* steps and the index: a track is offered once, worked on by at most one  *)
(* worker at a time, settled only by the worker that holds it and never    *)
(* again after that.  A restart gives back what was being worked on.       *)
(***************************************************************************)
CONSTANTS Tracks, Workers, Nobody
VARIABLES stage, holder

Stages == {"unseen", "waiting", "held", "settled"}

Init == /\ stage = [t \in Tracks |-> "unseen"]
        /\ holder = [t \in Tracks |-> Nobody]

\* A scan of the catalogue offers tracks not seen before.
Offer == \E S \in SUBSET {t \in Tracks : stage[t] = "unseen"} :
           /\ stage' = [t \in Tracks |-> IF t \in S THEN "waiting" ELSE stage[t]]
           /\ UNCHANGED holder

Take(t, w) == /\ stage[t] = "waiting"
              /\ \A u \in Tracks : holder[u] # w
              /\ stage' = [stage EXCEPT ![t] = "held"]
              /\ holder' = [holder EXCEPT ![t] = w]

Settle(t, w) == /\ stage[t] = "held" /\ holder[t] = w
                /\ stage' = [stage EXCEPT ![t] = "settled"]
                /\ holder' = [holder EXCEPT ![t] = Nobody]

\* The write that would have settled it failed: held by nobody until a restart.
Strand(t, w) == /\ stage[t] = "held" /\ holder[t] = w
                /\ holder' = [holder EXCEPT ![t] = Nobody]
                /\ UNCHANGED stage

Die == /\ holder' = [t \in Tracks |-> Nobody]
       /\ UNCHANGED stage

Recover == /\ holder = [t \in Tracks |-> Nobody]
           /\ stage' = [t \in Tracks |-> IF stage[t] = "held" THEN "waiting" ELSE stage[t]]
           /\ UNCHANGED holder

Next == \/ Offer \/ Die \/ Recover
        \/ \E t \in Tracks, w \in Workers : Take(t, w) \/ Settle(t, w) \/ Strand(t, w)

Spec == Init /\ [][Next]_<<stage, holder>>
=============================================================================
