------------------------------- MODULE WtlCli -------------------------------
(***************************************************************************)
(* wtl run: the command of src/internal/wtl/run.go around the engine, with *)
(* the one policy the command has (simpleLoopPolicy) and the process exit  *)
(* code.  The command gives the engine no wait handler, and its runner     *)
(* (appServerRunner) cannot compact.                                       *)
(***************************************************************************)
EXTENDS WtlEngine

VARIABLES cli, exit

cliVars == <<cli, exit>>

(* simpleLoopPolicy: retry what failed, stop at the completion marker.     *)
SimpleInitialize ==
    {[runnable |-> TRUE, waiting |-> FALSE, terminal |-> FALSE,
      directive |-> "continue", phase |-> p, mode |-> "reuse"] : p \in Phases}

(* Mutant: a turn whose call failed passes for one that went on. *)
NextByStatus(o) ==
    IF o.status = "failed" THEN "retry" ELSE IF o.marker THEN "complete" ELSE "continue"

SimpleNext(o) ==
    IF o.err # "none" \/ o.status = "failed" THEN "retry"
    ELSE IF o.marker THEN "complete" ELSE "continue"

SimpleAfterTurn(s, o) ==
    LET next == SimpleNext(o) IN
    {[directive |-> next,
      state |-> [s EXCEPT !.directive = next, !.waiting = FALSE,
                          !.terminal = (next = "complete"),
                          !.runnable = (next # "complete")]]}

SimpleOnWaitResolved(s) ==
    {[s EXCEPT !.waiting = FALSE, !.runnable = ~s.terminal, !.directive = "continue"]}

ExitCode(s) ==
    CASE s = "completed" -> 0 [] s = "interrupted" -> 130 [] OTHER -> 1

-----------------------------------------------------------------------------
CliInit == Init /\ cli = "setup" /\ exit = 0

(* Bad flags, no prompt, or an app-server that cannot be spawned. *)
Reject == /\ cli = "setup"
          /\ cli' = "exited"
          /\ exit' = 1
          /\ UNCHANGED vars

(* From here on Ctrl+C cancels the context (signal.NotifyContext). *)
Launch == cli = "setup" /\ cli' = "running" /\ UNCHANGED <<exit, vars>>

RunEngine == cli = "running" /\ Step /\ UNCHANGED <<canceled, cliVars>>

CtrlC == cli = "running" /\ Cancel /\ UNCHANGED cliVars

Exit == /\ cli = "running"
        /\ pc = "done"
        /\ cli' = "exited"
        /\ exit' = ExitCode(status)
        /\ UNCHANGED vars

CliNext == Reject \/ Launch \/ RunEngine \/ CtrlC \/ Exit

CliSpec == CliInit /\ [][CliNext]_<<vars, cliVars>>

-----------------------------------------------------------------------------
(* The exit code tells a script how the run went: 0 only after a turn that *)
(* the policy accepted as complete, 130 only for a run that was cut short  *)
(* with its open turn closed, and a run that used up its limits is told    *)
(* from one that was done.                                                 *)
ExitTellsOutcome ==
    cli = "exited" /\ pc = "done" =>
      /\ (exit = 0) <=> (verdict = "complete")
      /\ (exit = 130) <=> (ended = "run.interrupted")
      /\ open = "none"
=============================================================================
