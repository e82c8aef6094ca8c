--------------------------- MODULE ReceivePromise ---------------------------
(***************************************************************************)
(* What the receiving side of the CLI promises its user, without channels, *)
(* servers or results: every request is dealt with once, one question is   *)
(* open at a time, and one transfer is shown at a time, which only gives   *)
(* way to the next one after its sender is done with it.                   *)
(***************************************************************************)
CONSTANT Sessions

VARIABLE stage   \* session -> where the user sees it

Stages == {"unseen", "prompted", "receiving", "ending", "over"}

At(st) == {s \in Sessions : stage[s] = st}

Init == stage = [s \in Sessions |-> "unseen"]

\* Ask the user; never while another question is open.
Prompt(s) ==
    /\ stage[s] = "unseen"
    /\ At("prompted") = {}
    /\ stage' = [stage EXCEPT ![s] = "prompted"]

\* Show the transfer, with or without having asked.  Only a transfer whose
\* sender is done may be replaced by it.
Start(s) ==
    /\ stage[s] \in {"unseen", "prompted"}
    /\ At("receiving") = {}
    /\ stage' = [t \in Sessions |-> IF t = s THEN "receiving"
                                    ELSE IF stage[t] = "ending" THEN "over"
                                    ELSE stage[t]]

\* The sender is done, the results are not all in.
Ending(s) ==
    /\ stage[s] = "receiving"
    /\ stage' = [stage EXCEPT ![s] = "ending"]

\* Refused, withdrawn, delivered as a message, summarised or cancelled:
\* the question, the transfer or both leave the screen for good.
Close(S) ==
    /\ S # {}
    /\ \A s \in S : stage[s] # "over"
    /\ \A s, t \in S : stage[s] = stage[t] => s = t
    /\ stage' = [s \in Sessions |-> IF s \in S THEN "over" ELSE stage[s]]

Next ==
    \/ \E s \in Sessions : Prompt(s) \/ Start(s) \/ Ending(s)
    \/ \E S \in SUBSET Sessions : Close(S)

Spec == Init /\ [][Next]_stage
=============================================================================
