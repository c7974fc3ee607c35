------------------------------- MODULE WtlRun -------------------------------
(***************************************************************************)
(* wtl run with its app-server: the command (WtlCli) drives the engine,    *)
(* the engine calls the runner, and the runner is any that keeps           *)
(* TurnRunner, as AppServerClient does.  A call and the step of the engine *)
(* that makes it are one step, and so are a return and the step that takes *)
(* it; between the two the agent works, fails or is interrupted.           *)
(*                                                                         *)
(* What the calls do to the runner is written here without the conditions  *)
(* TurnRunner puts on them, for the code of the runner checks none: that   *)
(* the engine calls it only as it may be called is a property.             *)
(***************************************************************************)
EXTENDS WtlCli

VARIABLES stage, opened, calls, outcome, agent, work  \* of the runner

Runner == INSTANCE TurnRunner WITH MaxTurns <- MaxIter

runner == <<stage, opened, calls, outcome, agent, work>>
runVars == <<vars, cliVars, runner>>

RunInit == CliInit /\ Runner!Init

-----------------------------------------------------------------------------
(* The engine's half of a step, while the command runs it. *)
InEngine(A) == cli = "running" /\ A /\ UNCHANGED <<canceled, cliVars>>

(* Steps of the command and of the engine that do not concern the runner;  *)
(* newRunner has made it before the launch.                                *)
Alone ==
    /\ \/ Reject \/ Launch \/ CtrlC
       \/ InEngine(\/ Begin \/ BeginTerminal \/ (Head /\ pc' # "start")
                   \/ TurnDelta \/ RunInterrupted \/ Directive \/ Waiting)
    /\ UNCHANGED runner

(* runner.Start, from ensureThread, and its returns. *)
CallsStart ==
    /\ InEngine(LoopTurn /\ pc' = "start")
    /\ stage' = "opening"
    /\ UNCHANGED <<opened, calls, outcome, agent, work>>

StartReturns == Runner!Opened /\ InEngine(ThreadStarted)

ErrorOf == [completed |-> "none", failed |-> "other", error |-> "other",
            interrupted |-> "canceled", canceled |-> "canceled"]

StartReturnsError ==
    /\ Runner!OpenFails
    /\ \E r \in {"error", "canceled"} : outcome' = r /\ InEngine(StartFails(ErrorOf[r]))

(* runner.RunTurn and its returns.  A turn whose call fails has no status; *)
(* the completion marker is a matter of the response.                      *)
CallsRunTurn ==
    /\ InEngine(TurnStarted)
    /\ stage' = "turn" /\ calls' = calls + 1
    /\ UNCHANGED <<opened, outcome, agent, work>>

Answers(r) ==
    [status : {IF r \in {"error", "canceled"} THEN "" ELSE r}, err : {ErrorOf[r]}, marker : BOOLEAN]

RunTurnReturns ==
    /\ Runner!TurnEnds \/ Runner!TurnStops \/ Runner!TurnFails \/ Runner!TurnCanceled
    /\ \E r \in DOMAIN ErrorOf : \E o \in Answers(r) :
         /\ outcome' = r
         /\ InEngine(InterruptedBy(o) \/ DecidedAfter(o))

(* defer runner.Close() *)
ExitCloses ==
    /\ Exit
    /\ stage' = "closed" /\ agent' = "down"
    /\ UNCHANGED <<opened, calls, outcome, work>>

AgentWorks == Runner!Agent /\ UNCHANGED <<vars, cliVars>>

RunNext == \/ Alone \/ CallsStart \/ StartReturns \/ StartReturnsError
           \/ CallsRunTurn \/ RunTurnReturns \/ ExitCloses \/ AgentWorks

RunSpec == RunInit /\ [][RunNext]_runVars

-----------------------------------------------------------------------------
(* The engine and the command call the runner only as it may be called:    *)
(* one call at a time, Start once, no call after one that came back        *)
(* canceled or interrupted, Close with none in progress; the turns of a    *)
(* run then are those the contract of the runner is about.                 *)
KeepsRunnersRules == Runner!Spec

(* What the run tells its user is what became of the turn at the agent:    *)
(* a turn is passed as done only if the agent has completed it; as long as *)
(* the app-server lives, a turn is tried again only if the agent failed or *)
(* refused it, and the next one does not begin beside one that is still    *)
(* running.  A living app-server that has closed its stderr is the one     *)
(* exception: the turn that is told of it is tried again though it may     *)
(* still run, and as the end of the stream is told once, never a second.   *)
VerdictsAreTrue ==
    /\ open # "turn" /\ verdict \in {"continue", "complete"} => work[turns] = "completed"
    /\ open # "turn" /\ verdict = "retry" /\ agent \in {"up", "mute"} =>
         work[turns] \in {"failed", "none"}
    /\ agent \in {"up", "mute"} => \A t \in 1 .. turns - 1 : work[t] # "running"
    /\ agent = "known" =>
         \A s, t \in 1 .. turns - 1 : work[s] = "running" /\ work[t] = "running" => s = t

(* The exit code says how the run went, and what it says is true of the    *)
(* agent: 0 only after a turn that the agent completed.                    *)
RunTellsTruth == ExitTellsOutcome /\ VerdictsAreTrue
=============================================================================
