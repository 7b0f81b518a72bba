------------------------------ MODULE PluginRun ------------------------------
(***************************************************************************)
(* The sandbox of strategy plug-ins (engine/sandbox): run_plugin spawns a  *)
(* child, polls the pipe between them until a deadline and turns what it   *)
(* saw into one exit status; PluginStrategy turns that status into factor  *)
(* columns for the scorer.  Parent, child, clock and operating system are  *)
(* separate actors; the pipe keeps its messages after the child is gone.   *)
(***************************************************************************)
EXTENDS Naturals, Sequences, FiniteSetsExt

CONSTANTS
    PluginCalls,    \* bound: calls of compute_raw_factors by the scorer
    MaxKills        \* bound: children killed or cut off by the operating system

ASSUME PluginAssumption == PluginCalls \in Nat /\ MaxKills \in Nat

VARIABLES
    capable,        \* the platform can limit memory, or running without is allowed
    pluginCall,     \* calls made so far
    sandbox,        \* the parent: loop state, deadline passed, what it received
    child,          \* the process of this run: where it is, what it did
    pipe,           \* messages sent and not received, and whether it is closed
    killsLeft,
    factors         \* what the scorer got last, and the last columns that worked

pluginVars == <<capable, pluginCall, sandbox, child, pipe, killsLeft, factors>>

\* What the plug-in's own code comes to; "valid" passes _validate_output.
Outputs  == {"valid", "invalid"}
NoResult == [status |-> "none", output |-> "none"]
Hello    == [status |-> "hello", output |-> "none"]
Torn     == [status |-> "torn", output |-> "none"]

IdleParent == [at |-> "idle", late |-> FALSE, bootstrapped |-> FALSE,
               payload |-> NoResult, status |-> "none"]
NoChild    == [at |-> "none", exit |-> "none", ran |-> FALSE]
Alive      == child.at \notin {"none", "dead"}

PluginInit ==
    /\ capable \in BOOLEAN /\ pluginCall = 0 /\ sandbox = IdleParent /\ child = NoChild
    /\ pipe = [sent |-> <<>>, closed |-> FALSE]
    /\ killsLeft = MaxKills
    /\ factors = [columns |-> "none", of |-> "none", last |-> "none"]

----------------------------------------------------------------------------
(* The child: _child_main.                                                 *)

ChildIs(stage) == child' = [child EXCEPT !.at = stage]
Send(m)        == pipe' = [pipe EXCEPT !.sent = Append(@, m)]
ByChild        == UNCHANGED <<capable, pluginCall, sandbox, factors>>

\* The interpreter comes up, finds the caller's __main__ and reports first.
ChildReports ==
    /\ child.at = "starting" /\ Send(Hello) /\ ChildIs("ready")
    /\ UNCHANGED killsLeft /\ ByChild

\* The caller's __main__ cannot be imported again: the child exits with 1.
BootstrapFails ==
    /\ child.at = "starting" /\ ChildIs("leaving")
    /\ pipe' = [pipe EXCEPT !.closed = TRUE]
    /\ UNCHANGED killsLeft /\ ByChild

\* Sockets are stubbed, the limits set and the source's imports checked before
\* any of it runs; a refused source is answered at once.
Confine ==
    /\ child.at = "ready"
    /\ \/ ChildIs("confined") /\ UNCHANGED pipe
       \/ /\ ChildIs("done")
          /\ \E s \in {"rejected_import", "error"} :
                 Send([status |-> s, output |-> "none"])
    /\ UNCHANGED killsLeft /\ ByChild

\* exec and compute_raw_factors: a matrix, one of the caught exceptions, or no
\* end at all (the child stays here).
RunSource ==
    /\ child.at = "confined"
    /\ child' = [child EXCEPT !.at = "running", !.ran = TRUE]
    /\ UNCHANGED <<pipe, killsLeft>> /\ ByChild

Validated(output) == IF output = "valid" THEN "ok" ELSE "invalid_output"

AnswerOf ==
    {[status |-> Validated(o), output |-> o] : o \in Outputs} \cup
    {[status |-> s, output |-> "none"] :
        s \in {"rejected_import", "socket_blocked", "memory", "error"}}

SendAnswer ==
    /\ child.at = "running" /\ \E m \in AnswerOf : Send(m)
    /\ ChildIs("done") /\ UNCHANGED killsLeft /\ ByChild

\* conn.close() in the finally, then the interpreter's own exit.
CloseEnd ==
    /\ child.at = "done" /\ ChildIs("leaving")
    /\ pipe' = [pipe EXCEPT !.closed = TRUE]
    /\ UNCHANGED killsLeft /\ ByChild

Exit ==
    /\ child.at = "leaving"
    /\ child' = [child EXCEPT !.at = "dead", !.exit = "code"]
    /\ UNCHANGED <<pipe, killsLeft>> /\ ByChild

\* The memory killer takes the child, perhaps in the middle of its answer.
Killed ==
    /\ child.at \in {"starting", "ready", "confined", "running", "done"} /\ killsLeft > 0
    /\ killsLeft' = killsLeft - 1
    /\ child' = [child EXCEPT !.at = "dead", !.exit = "killed"]
    /\ \/ pipe' = [pipe EXCEPT !.closed = TRUE]
       \/ /\ child.at = "running"
          /\ pipe' = [sent |-> Append(pipe.sent, Torn), closed |-> TRUE]
    /\ ByChild

ChildStep ==
    \/ ChildReports \/ BootstrapFails \/ Confine \/ RunSource \/ SendAnswer
    \/ CloseEnd \/ Exit \/ Killed

----------------------------------------------------------------------------
(* The parent: run_plugin.                                                 *)

ByParent  == UNCHANGED <<capable, pluginCall, killsLeft>>
Parent(s) == sandbox' = s

\* Without a memory limit the run is refused before a process exists; otherwise
\* the child is spawned and the parent lets go of the sending end.
Refuse ==
    /\ sandbox.at = "idle" /\ pluginCall < PluginCalls /\ ~capable
    /\ pluginCall' = pluginCall + 1
    /\ Parent([IdleParent EXCEPT !.at = "returned", !.status = "sandbox_unavailable"])
    /\ UNCHANGED <<capable, child, pipe, killsLeft, factors>>

Spawn ==
    /\ sandbox.at = "idle" /\ pluginCall < PluginCalls /\ capable
    /\ pluginCall' = pluginCall + 1
    /\ Parent([IdleParent EXCEPT !.at = "polling"])
    /\ child' = [NoChild EXCEPT !.at = "starting"]
    /\ pipe' = [sent |-> <<>>, closed |-> FALSE]
    /\ UNCHANGED <<capable, killsLeft, factors>>

\* The clock reaches the deadline at any point of the run.
DeadlinePasses ==
    /\ sandbox.at \in {"polling", "checking"} /\ ~sandbox.late
    /\ Parent([sandbox EXCEPT !.late = TRUE])
    /\ UNCHANGED <<child, pipe, factors>> /\ ByParent

\* poll answers: a message, or the end of the pipe.  A message cut short makes
\* recv raise OSError, which no handler of run_plugin catches.
Receive ==
    /\ sandbox.at = "polling" /\ ~sandbox.late /\ pipe.sent # <<>>
    /\ LET m == Head(pipe.sent)
       IN Parent(IF m = Hello THEN [sandbox EXCEPT !.bootstrapped = TRUE]
                 ELSE IF m = Torn
                      THEN [sandbox EXCEPT !.at = "returned", !.status = "raised"]
                      ELSE [sandbox EXCEPT !.payload = m, !.at = "judging"])
    /\ pipe' = [pipe EXCEPT !.sent = Tail(@)]
    /\ UNCHANGED <<child, factors>> /\ ByParent

EndOfFile ==
    /\ sandbox.at = "polling" /\ ~sandbox.late /\ pipe.sent = <<>> /\ pipe.closed
    /\ Parent([sandbox EXCEPT !.at = "judging"])
    /\ UNCHANGED <<child, pipe, factors>> /\ ByParent

\* poll times out; whether the child still lives is asked after it.
PollEmpty ==
    /\ sandbox.at = "polling" /\ ~sandbox.late /\ pipe.sent = <<>> /\ ~pipe.closed
    /\ Parent([sandbox EXCEPT !.at = "checking"])
    /\ UNCHANGED <<child, pipe, factors>> /\ ByParent

(* Faulty variant of Drained: the loop ends without a last look into the   *)
(* pipe.                                                                   *)
NotDrained == [sandbox EXCEPT !.at = "judging"]

\* A dead child may have answered between the two questions: the pipe is drained.
Drained ==
    LET answers == {i \in DOMAIN pipe.sent : pipe.sent[i] # Hello}
    IN [sandbox EXCEPT
           !.at = "judging",
           !.bootstrapped = @ \/ \E i \in DOMAIN pipe.sent : pipe.sent[i] = Hello,
           !.payload = IF answers = {} THEN NoResult ELSE pipe.sent[Max(answers)]]

CheckAlive ==
    /\ sandbox.at = "checking"
    /\ IF Alive THEN Parent([sandbox EXCEPT !.at = "polling"]) /\ UNCHANGED pipe
       ELSE /\ Parent(IF Drained.payload = Torn
                      THEN [sandbox EXCEPT !.at = "returned", !.status = "raised"]
                      ELSE Drained)
            /\ pipe' = [pipe EXCEPT !.sent = <<>>]
    /\ UNCHANGED <<child, factors>> /\ ByParent

LoopEnds ==
    /\ sandbox.at = "polling" /\ sandbox.late
    /\ Parent([sandbox EXCEPT !.at = "judging"])
    /\ UNCHANGED <<child, pipe, factors>> /\ ByParent

Returns(s) == Parent([sandbox EXCEPT !.at = "returned", !.status = s])

\* No answer and a living child: terminate, kill, and the run timed out.
StopChild ==
    /\ sandbox.at = "judging" /\ sandbox.payload = NoResult /\ Alive
    /\ child' = [child EXCEPT !.at = "dead", !.exit = "killed"]
    /\ pipe' = [pipe EXCEPT !.closed = TRUE]
    /\ Returns("timeout") /\ UNCHANGED factors /\ ByParent

\* No answer from a child that is gone: its exit code and its report decide.
StatusOfExit ==
    IF ~sandbox.bootstrapped THEN "sandbox_bootstrap_failed"
    ELSE IF child.exit = "killed" THEN "memory" ELSE "error"

JudgeExit ==
    /\ sandbox.at = "judging" /\ sandbox.payload = NoResult /\ ~Alive
    /\ Returns(StatusOfExit)
    /\ UNCHANGED <<child, pipe, factors>> /\ ByParent

\* join(2.0) may give up on a child that has answered and is slow to leave; it
\* touches nothing of a later run.
TakeAnswer ==
    /\ sandbox.at = "judging" /\ sandbox.payload # NoResult
    /\ Returns(sandbox.payload.status)
    /\ UNCHANGED <<child, pipe, factors>> /\ ByParent

\* PluginStrategy.compute_raw_factors: a failed run gives a matrix of NaN under
\* the columns of the last good run, never a column of zeros.
FactorsAfter ==
    IF sandbox.status = "ok"
    THEN [columns |-> "values", of |-> "plugin", last |-> "plugin"]
    ELSE [factors EXCEPT !.columns = "nan",
                         !.of = IF factors.last = "none" THEN "default" ELSE factors.last]

HandFactors ==
    /\ sandbox.at = "returned"
    /\ factors' = IF sandbox.status = "raised" THEN factors ELSE FactorsAfter
    /\ Parent([sandbox EXCEPT !.at = "idle"])
    /\ UNCHANGED <<child, pipe>> /\ ByParent

ParentStep ==
    \/ Refuse \/ Spawn \/ DeadlinePasses \/ Receive \/ EndOfFile \/ PollEmpty
    \/ CheckAlive \/ LoopEnds \/ StopChild \/ JudgeExit \/ TakeAnswer \/ HandFactors

PluginNext == ChildStep \/ ParentStep

PluginSpec == PluginInit /\ [][PluginNext]_pluginVars

----------------------------------------------------------------------------
Finished(s) == sandbox.at = "returned" /\ sandbox.status = s
OkIsChecked ==
    Finished("ok") => sandbox.payload.output = "valid" /\ child.ran
BlameIsRight ==
    /\ Finished("sandbox_bootstrap_failed") => ~child.ran \/ sandbox.late
    /\ Finished("memory") \/ Finished("invalid_output") => sandbox.bootstrapped
NothingIsLeft ==
    sandbox.at = "returned" /\ sandbox.payload = NoResult /\ sandbox.status # "raised"
        => ~Alive
AnswerIsTaken ==
    sandbox.at = "returned" /\ ~sandbox.late /\ child.exit = "code" /\ child.ran
        => sandbox.payload # NoResult

\* The status of a run is true of the child it is about: a run that is ok took
\* a checked matrix of code that ran; a sandbox that is said
\* not to have started never ran the plug-in (unless the deadline cut the loop
\* short); a run without answer leaves no process behind; and a run in time
\* does not lose the answer of a child that sent one (run_plugin, _child_main).
PluginVerdictIsTrue == OkIsChecked /\ BlameIsRight /\ NothingIsLeft /\ AnswerIsTaken
=============================================================================
