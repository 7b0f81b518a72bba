-------------------------- MODULE PipelineContract --------------------------
(***************************************************************************)
(* What the pipeline_run row promises to everyone who reads it, without    *)
(* saying how a run works: the checkpoints of a day are reached in order   *)
(* and never taken back, and the day is closed as a success only when all  *)
(* of them are set.  DailyPipeline implements this specification.          *)
(***************************************************************************)
EXTENDS Naturals

VARIABLES
    status, \* "NONE" until the day is opened
    done    \* checkpoints reached

Day == 1..3

Init == status = "NONE" /\ done = {}

Open == status = "NONE" /\ status' = "RUNNING" /\ UNCHANGED done

Reach(k) ==
    /\ status # "NONE"
    /\ 1..(k - 1) \subseteq done
    /\ done' = done \cup {k}
    /\ UNCHANGED status

Close(outcome) ==
    /\ status # "NONE"
    /\ outcome = "SUCCESS" => done = Day
    /\ status' = outcome
    /\ UNCHANGED done

Next ==
    \/ Open
    \/ \E k \in Day : Reach(k)
    \/ \E outcome \in {"SUCCESS", "FAILED"} : Close(outcome)

Spec == Init /\ [][Next]_<<status, done>>
=============================================================================
