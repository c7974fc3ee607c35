---------------------------- MODULE WtlCliProofs ----------------------------
(* The exit code of wtl run, for every turn and retry limit: the engine's   *)
(* invariant, and what the command's own policy adds to it.                 *)
EXTENDS WtlRun, WtlEngineProofs

(* The policy of the command. *)
SimplePolicy ==
    /\ Initialize = SimpleInitialize
    /\ \A s \in PolicyState, o \in TurnOutcome : AfterTurn(s, o) = SimpleAfterTurn(s, o)

(* simpleLoopPolicy never waits, and a run is done when it says so. *)
Simple ==
    /\ ~st.waiting /\ st.mode = "reuse" /\ (pc = "begin" => ~st.terminal)
    /\ pc \notin {"terminal", "wait", "resolved"}
    /\ dir \in {"none", "retry", "complete", "continue"}
    /\ verdict = "complete" => pc \in {"dispatch", "complete", "done"}
    /\ status = "completed" => verdict = "complete"
    /\ pc = "done" => open = "none" /\ (verdict = "complete" => status = "completed")

Commanded ==
    /\ cli \in {"setup", "running", "exited"}
    /\ cli = "setup" => pc = "begin"
    /\ cli = "exited" /\ pc = "done" => exit = ExitCode(status)
    /\ cli = "exited" => pc \in {"begin", "done"}

CliInv == EngineInv /\ Simple /\ Commanded

-----------------------------------------------------------------------------
LEMMA CliInitInv == ASSUME SimplePolicy PROVE CliInit => CliInv
<1> SUFFICES ASSUME CliInit PROVE CliInv
  OBVIOUS
<1>1. EngineInv
  BY InitInv DEF CliInit
<1>2. st \in SimpleInitialize
  BY DEF SimplePolicy, CliInit, Init
<1>3. Simple
  BY <1>2 DEF CliInit, Init, Simple, SimpleInitialize
<1>4. Commanded
  BY DEF CliInit, Init, Commanded
<1> QED BY <1>1, <1>3, <1>4 DEF CliInv

(* What the policy answers to a turn. *)
LEMMA SimpleDecides ==
  ASSUME SimplePolicy, NEW s \in PolicyState, NEW o \in TurnOutcome, ~s.waiting, NEW d \in AfterTurn(s, o)
  PROVE  /\ d.directive = SimpleNext(o) /\ d.directive \in {"retry", "complete", "continue"}
         /\ ~d.state.waiting /\ d.state.mode = s.mode
<1>1. d \in SimpleAfterTurn(s, o)
  BY DEF SimplePolicy
<1> DEFINE n == SimpleNext(o)
<1>2. n \in {"retry", "complete", "continue"}
  BY DEF SimpleNext
<1>3. d = [directive |-> n,
           state |-> [s EXCEPT !.directive = n, !.waiting = FALSE, !.terminal = (n = "complete"),
                               !.runnable = (n # "complete")]]
  BY <1>1 DEF SimpleAfterTurn
<1> QED BY <1>2, <1>3 DEF PolicyState

(* A return of run outside a turn and a wait, before any verdict to stop. *)
LEMMA FinishSimple ==
  ASSUME EngineInv, Simple, NEW s \in {"exhausted", "interrupted", "failed"}, NEW n, NEW by, NEW err,
         NEW kind \in Terminals, Finish(s, n, by, err, kind), UNCHANGED control,
         pc \in {"loop", "start", "interrupted", "dispatch", "compact"},
         pc \in {"dispatch", "compact"} => dir # "complete"
  PROVE  Simple'
<1>1. open = "none" /\ verdict # "complete"
  BY DEF EngineInv, TypeInv, TypeOK, Bracketed, Simple
<1>2. open' = open /\ UNCHANGED <<st, dir, verdict>> /\ status' = s /\ pc' = "done"
  BY DEF Finish, Emit, control, policyVars, Terminals
<1> QED BY <1>1, <1>2 DEF Simple

LEMMA StepSimple ==
  ASSUME SimplePolicy, EngineInv, Simple, Step
  PROVE  Simple'
<1> USE DEF control, policyVars, summary
<1>1. CASE Begin
  BY <1>1 DEF Begin, Emit, Simple
<1>2. CASE BeginTerminal \/ Waiting
  BY <1>2 DEF BeginTerminal, Waiting, WaitFailed, WaitResolved, Resume, Simple
<1>3. CASE LoopExhausted \/ LoopInterrupted \/ LoopNotRunnable \/ ThreadFailed \/ RunInterrupted
           \/ RetryExhausted \/ Unsupported \/ CompactFailed
  <2>1. pc \in {"dispatch", "compact"} => dir # "complete"
    BY <1>3 DEF LoopExhausted, LoopInterrupted, LoopNotRunnable, Proceeding, AtHead, ThreadFailed, StartFails,
                RunInterrupted, RetryExhausted, Unsupported, CompactFailed, Dispatch,
                EngineInv, Bracketed, Simple
  <2>2. UNCHANGED control /\ pc \in {"loop", "start", "interrupted", "dispatch", "compact"}
    BY <1>3 DEF LoopExhausted, LoopInterrupted, LoopNotRunnable, Proceeding, AtHead, ThreadFailed, StartFails,
                RunInterrupted, RetryExhausted, Unsupported, CompactFailed, Dispatch
  <2>3. ASSUME NEW s \in {"exhausted", "interrupted", "failed"}, NEW n, NEW by, NEW err,
               NEW kind \in {"run.exhausted", "run.interrupted", "run.failed"}, Finish(s, n, by, err, kind)
        PROVE  Simple'
    BY <2>1, <2>2, <2>3, FinishSimple DEF Terminals
  <2>4. CASE LoopExhausted \/ LoopInterrupted \/ RunInterrupted \/ RetryExhausted
    BY <2>3, <2>4 DEF LoopExhausted, LoopInterrupted, RunInterrupted, RetryExhausted
  <2>5. CASE LoopNotRunnable \/ Unsupported \/ ThreadFailed \/ CompactFailed
    <3>1. PICK n, err : Finish("failed", n, "none", err, "run.failed")
      BY <2>5 DEF LoopNotRunnable, Unsupported, ThreadFailed, StartFails, CompactFailed, Fail
    <3> QED BY <2>3, <3>1
  <2> QED BY <1>3, <2>4, <2>5
<1>4. CASE LoopWait \/ LoopTurn
  BY <1>4 DEF LoopWait, LoopTurn, Proceeding, AtHead, Emit, Simple, stream
<1>5. CASE ThreadStarted \/ TurnStarted \/ TurnDelta
  BY <1>5 DEF ThreadStarted, TurnStarted, TurnDelta, EmitTurnStarted, Emit, Simple
<1>6. CASE TurnInterrupted
  BY <1>6 DEF TurnInterrupted, InterruptedBy, EndTurn, Simple
<1>7. CASE TurnDecided
  <2>0. PICK o \in TurnOutcome : \E d \in AfterTurn(st, o) :
          st' = d.state /\ dir' = d.directive /\ EndTurn(d.directive)
    BY <1>7 DEF TurnDecided, DecidedAfter
  <2>1. PICK d \in AfterTurn(st, o) : st' = d.state /\ dir' = d.directive /\ EndTurn(d.directive)
    BY <2>0
  <2>2. st \in PolicyState
    BY DEF EngineInv, TypeInv, TypeOK
  <2>3. d.directive \in {"retry", "complete", "continue"} /\ ~d.state.waiting /\ d.state.mode = "reuse"
    BY <2>1, <2>2, SimpleDecides DEF Simple
  <2>4. status = "none"
    BY <1>7 DEF TurnDecided, DecidedAfter, EngineInv, Reported
  <2> QED BY <1>7, <2>1, <2>3, <2>4 DEF TurnDecided, DecidedAfter, EndTurn, Simple
<1>8. CASE Proceed \/ Complete
  <2>1. dir = verdict
    BY <1>8 DEF Proceed, Complete, Dispatch, EngineInv, Bracketed
  <2> QED BY <1>8, <2>1 DEF Proceed, Complete, Dispatch, Report, TransitionPhase, Emit, Simple, stream
<1>9. CASE RunCompleted
  <2>1. status = "completed" /\ open = "none"
    BY <1>9 DEF RunCompleted, EngineInv, TypeInv, TypeOK, Reported, Bracketed
  <2> QED BY <1>9, <2>1 DEF RunCompleted, Emit, Simple
<1>10. CASE Retry \/ Compact \/ Compacted \/ Wait
  <2>1. dir = verdict
    BY <1>10 DEF Retry, Compact, Compacted, Wait, Dispatch, EngineInv, Bracketed
  <2> QED BY <1>10, <2>1 DEF Retry, Compact, Compacted, Wait, Dispatch, EngineInv, Bracketed, Simple, stream
<1> QED BY <1>1, <1>2, <1>3, <1>4, <1>5, <1>6, <1>7, <1>8, <1>9, <1>10
        DEF Step, Head, Turn, Directive

-----------------------------------------------------------------------------
LEMMA CliStepInv ==
  ASSUME SimplePolicy
  PROVE  CliInv /\ [CliNext]_<<vars, cliVars>> => CliInv'
<1> SUFFICES ASSUME CliInv, [CliNext]_<<vars, cliVars>> PROVE CliInv'
  OBVIOUS
<1>1. [Next]_vars
  BY DEF CliNext, Reject, Launch, RunEngine, CtrlC, Exit, Next
<1>2. EngineInv'
  BY <1>1, StepInv DEF CliInv
<1>3. Simple'
  <2>1. CASE RunEngine
    BY <2>1, StepSimple DEF CliInv, RunEngine
  <2>2. CASE CtrlC
    BY <2>2 DEF CliInv, CtrlC, Cancel, Simple, control, policyVars, summary, stream
  <2>3. CASE UNCHANGED vars
    BY <2>3 DEF CliInv, Simple, vars, control, policyVars, summary, stream
  <2> QED BY <2>1, <2>2, <2>3 DEF CliNext, Reject, Launch, Exit
<1>4. Commanded'
  <2>1. CASE RunEngine \/ CtrlC
    BY <2>1 DEF CliInv, Commanded, RunEngine, CtrlC, cliVars
  <2>2. CASE Reject \/ Launch \/ Exit
    <3>1. UNCHANGED <<pc, status>>
      BY <2>2 DEF Reject, Launch, Exit, vars, summary
    <3> QED BY <2>2, <3>1 DEF CliInv, Commanded, Reject, Launch, Exit
  <2>3. CASE UNCHANGED <<vars, cliVars>>
    BY <2>3 DEF CliInv, Commanded, vars, summary, cliVars
  <2> QED BY <2>1, <2>2, <2>3 DEF CliNext
<1> QED BY <1>2, <1>3, <1>4 DEF CliInv

(* The exit code of wtl run tells, for every limit and however the runner   *)
(* answers, whether the last verdict was to stop (0), the run was cut short *)
(* (130) or it ended otherwise, and no turn is left open.                   *)
THEOREM ExitCorrect ==
  ASSUME SimplePolicy
  PROVE  CliSpec => []ExitTellsOutcome
<1>1. CliInv => ExitTellsOutcome
  <2> SUFFICES ASSUME CliInv, cli = "exited", pc = "done"
               PROVE  /\ (exit = 0) <=> (verdict = "complete")
                      /\ (exit = 130) <=> (ended = "run.interrupted")
                      /\ open = "none"
    BY DEF ExitTellsOutcome
  <2>1. exit = ExitCode(status) /\ status \in {"completed", "exhausted", "interrupted", "failed"}
        /\ ended = TerminalOf[status] /\ open = "none"
        /\ (status = "completed" <=> verdict = "complete")
    BY DEF CliInv, Commanded, Simple, EngineInv, TypeInv, TypeOK, Reported
  <2>2. exit = 0 <=> status = "completed"
    BY <2>1 DEF ExitCode
  <2>3. exit = 130 <=> status = "interrupted"
    BY <2>1 DEF ExitCode
  <2>4. ended = "run.interrupted" <=> status = "interrupted"
    BY <2>1 DEF TerminalOf
  <2> QED BY <2>1, <2>2, <2>3, <2>4
<1>2. CliInit => CliInv
  BY CliInitInv
<1>3. CliInv /\ [CliNext]_<<vars, cliVars>> => CliInv'
  BY CliStepInv
<1> QED BY <1>1, <1>2, <1>3, PTL DEF CliSpec

-----------------------------------------------------------------------------
(* The command only ever runs the engine: what is proved of every run of    *)
(* the engine is true of every run of the command.                          *)
THEOREM CommandRunsEngine == CliSpec => Spec
<1>1. CliInit => Init
  BY DEF CliInit
<1>2. [CliNext]_<<vars, cliVars>> => [Next]_vars
  BY DEF CliNext, Reject, Launch, RunEngine, CtrlC, Exit, Next
<1>3. QED
  BY <1>1, <1>2, PTL DEF CliSpec, Spec

(* The policy of the command has one phase, so its retries stay in it: the  *)
(* policy that ships meets what PlanFollowed asks of a policy.              *)
LEMMA SimpleKeepsPhase == ASSUME SimplePolicy PROVE KeepsPhase
<1> SUFFICES ASSUME NEW s \in PolicyState, NEW o \in TurnOutcome, NEW d \in AfterTurn(s, o)
             PROVE  d.state.phase = s.phase
  BY DEF KeepsPhase
<1> DEFINE n == SimpleNext(o)
<1>1. d \in SimpleAfterTurn(s, o)
  BY DEF SimplePolicy
<1>2. d = [directive |-> n,
           state |-> [s EXCEPT !.directive = n, !.waiting = FALSE, !.terminal = (n = "complete"),
                               !.runnable = (n # "complete")]]
  BY <1>1 DEF SimpleAfterTurn
<1>3. QED
  BY <1>2 DEF PolicyState

(* Every turn of wtl run is of the phase last announced, and all its turns  *)
(* run on one thread as long as they are of one phase.                      *)
THEOREM CommandFollowsPlan == ASSUME SimplePolicy PROVE CliSpec => TurnsFollowPlan
<1>1. KeepsPhase
  BY SimpleKeepsPhase
<1>2. Spec => TurnsFollowPlan
  BY <1>1, PlanFollowed
<1>3. QED
  BY <1>2, CommandRunsEngine

(* The command's policy never waits, so nothing is left of the exceptions   *)
(* but streaming: wtl run takes at most 7 * MaxIter + 3 steps beside it, if *)
(* its calls return.                                                        *)
CommandNearer == RunEngine => TurnDelta \/ Rank' < Rank

THEOREM CommandComesNearer ==
  ASSUME SimplePolicy
  PROVE  CliSpec => [][CommandNearer]_<<vars, cliVars>>
<1>1. CliInv => [CommandNearer]_<<vars, cliVars>>
  <2> SUFFICES ASSUME CliInv, RunEngine PROVE TurnDelta \/ Rank' < Rank
    BY DEF CommandNearer
  <2>1. EngineInv /\ Step /\ ~LoopWait
    BY DEF CliInv, Simple, RunEngine, LoopWait
  <2> QED BY <2>1, NearerStep DEF ComesNearer
<1>2. CliInit => CliInv
  BY CliInitInv
<1>3. CliInv /\ [CliNext]_<<vars, cliVars>> => CliInv'
  BY CliStepInv
<1> QED BY <1>1, <1>2, <1>3, PTL DEF CliSpec

-----------------------------------------------------------------------------
(* The run with its app-server: what the engine's control says of the       *)
(* runner, what an outcome says of the agent, and what a verdict says of an *)
(* outcome.                                                                 *)
RunnerTyped ==
    /\ stage \in {"idle", "opening", "turn", "closed"}
    /\ outcome \in DOMAIN ErrorOf \cup {"none"}
    /\ agent \in {"up", "mute", "known", "down"}
    /\ work \in [1 .. MaxIter -> {"none", "running", "completed", "failed", "interrupted"}]
    /\ calls \in Nat

InStep ==
    /\ (stage = "opening") <=> (pc = "start")
    /\ (stage = "turn") <=> (pc = "turn")
    /\ (stage = "closed") => (cli = "exited")
    /\ calls = turns
    /\ opened <=> (thread # 0)
    /\ pc \in {"ready", "turn", "interrupted", "dispatch", "complete"} => opened
    /\ pc = "start" => ~opened
    /\ pc = "turn" => turns # 0
    /\ ~opened => turns = 0 /\ (pc = "done" \/ outcome = "none")
    /\ outcome \in {"canceled", "interrupted"} => pc \in {"interrupted", "done"}

(* The turn being run, or the one that was canceled while it may begin. *)
Current(t) == t = calls /\ (pc = "turn" \/ outcome = "canceled")

(* Of the turns that are not, one at most still runs once it was told, to   *)
(* the turn that was then being run, that a stream of the agent has ended.  *)
OneLeftAtMost ==
    agent = "known" =>
      \A s, t \in 1 .. calls :
        work[s] = "running" /\ work[t] = "running" => s = t \/ Current(s) \/ Current(t)

Settled ==
    /\ \A t \in 1 .. MaxIter : t > calls => work[t] = "none"
    /\ agent \in {"up", "mute"} => \A t \in 1 .. calls - 1 : work[t] # "running"
    /\ OneLeftAtMost
    /\ pc # "turn" /\ outcome \in {"completed", "failed"} =>
         calls \in 1 .. MaxIter /\ work[calls] = outcome
    /\ pc # "turn" /\ outcome = "error" /\ calls > 0 /\ agent \in {"up", "mute"} =>
         work[calls] = "none"
    /\ pc # "turn" /\ outcome = "none" => calls = 0

Judged ==
    /\ turns = 0 => verdict = "none"
    /\ pc # "turn" /\ verdict \in {"continue", "complete"} => outcome = "completed"
    /\ pc # "turn" /\ verdict = "retry" => outcome \in {"failed", "error"}

RunnerInv == RunnerTyped /\ InStep /\ Settled /\ Judged

RunInv == CliInv /\ RunnerInv

LEMMA RunInitInv == ASSUME SimplePolicy PROVE RunInit => RunInv
<1> SUFFICES ASSUME RunInit PROVE RunInv
  OBVIOUS
<1>1. CliInv
  BY CliInitInv DEF RunInit
<1>2. RunnerTyped
  BY DEF RunInit, Runner!Init, Runner!Turns, RunnerTyped
<1>3. InStep
  BY DEF RunInit, CliInit, Init, Runner!Init, InStep
<1>4. Settled
  BY DEF RunInit, CliInit, Init, Runner!Init, Runner!Turns, Settled, OneLeftAtMost
<1>5. Judged
  BY DEF RunInit, CliInit, Init, Judged
<1> QED BY <1>1, <1>2, <1>3, <1>4, <1>5 DEF RunInv, RunnerInv

(* The answers of the runner are outcomes the engine knows, and the policy  *)
(* reads from one whether the turn is to be tried again.                    *)
LEMMA AnswersAreOutcomes ==
  ASSUME NEW r \in DOMAIN ErrorOf, NEW o \in Answers(r)
  PROVE  /\ o \in TurnOutcome
         /\ Interrupts(o) <=> r \in {"canceled", "interrupted"}
         /\ r \in {"failed", "error"} => SimpleNext(o) = "retry"
         /\ r = "completed" => SimpleNext(o) \in {"continue", "complete"}
<1>1. r \in {"completed", "failed", "error", "interrupted", "canceled"}
  BY DEF ErrorOf
<1>2. /\ o = [status |-> o.status, err |-> o.err, marker |-> o.marker] /\ o.marker \in BOOLEAN
      /\ o.status = IF r \in {"error", "canceled"} THEN "" ELSE r
      /\ o.err = ErrorOf[r]
  BY DEF Answers
<1>3. ErrorOf[r] = IF r = "completed" THEN "none"
                   ELSE IF r \in {"failed", "error"} THEN "other" ELSE "canceled"
  BY <1>1 DEF ErrorOf
<1> HIDE DEF ErrorOf
<1>4. o \in TurnOutcome
  BY <1>1, <1>2, <1>3 DEF TurnOutcome, Errors
<1>5. Interrupts(o) <=> r \in {"canceled", "interrupted"}
  BY <1>1, <1>2, <1>3 DEF Interrupts
<1>6. (r \in {"failed", "error"} => SimpleNext(o) = "retry")
      /\ (r = "completed" => SimpleNext(o) \in {"continue", "complete"})
  BY <1>1, <1>2, <1>3 DEF SimpleNext
<1> QED BY <1>4, <1>5, <1>6

(* With its runner the command still only does what the command does.       *)
LEMMA RunIsCli == [RunNext]_runVars => [CliNext]_<<vars, cliVars>>
<1> SUFFICES ASSUME [RunNext]_runVars PROVE [CliNext]_<<vars, cliVars>>
  OBVIOUS
<1>1. CASE Alone
  BY <1>1 DEF Alone, InEngine, CliNext, RunEngine, Step, Turn
<1>2. CASE CallsStart \/ StartReturns \/ CallsRunTurn
  BY <1>2 DEF CallsStart, StartReturns, CallsRunTurn, InEngine, CliNext, RunEngine, Step, Head, Turn
<1>3. CASE StartReturnsError
  <2>1. PICK r \in {"error", "canceled"} : InEngine(StartFails(ErrorOf[r]))
    BY <1>3 DEF StartReturnsError
  <2>2. ErrorOf[r] \in Errors
    BY DEF ErrorOf, Errors
  <2>3. ThreadFailed /\ cli = "running" /\ UNCHANGED <<canceled, cliVars>>
    BY <2>1, <2>2 DEF InEngine, ThreadFailed
  <2> QED BY <2>3 DEF CliNext, RunEngine, Step, Turn
<1>4. CASE RunTurnReturns
  <2>0. PICK r \in DOMAIN ErrorOf : \E o \in Answers(r) :
          outcome' = r /\ InEngine(InterruptedBy(o) \/ DecidedAfter(o))
    BY <1>4 DEF RunTurnReturns
  <2>1. PICK o \in Answers(r) : InEngine(InterruptedBy(o) \/ DecidedAfter(o))
    BY <2>0
  <2>2. (TurnInterrupted \/ TurnDecided) /\ cli = "running" /\ UNCHANGED <<canceled, cliVars>>
    BY <2>1, AnswersAreOutcomes DEF InEngine, TurnInterrupted, TurnDecided
  <2> QED BY <2>2 DEF CliNext, RunEngine, Step, Turn
<1>5. CASE ExitCloses
  BY <1>5 DEF ExitCloses, CliNext
<1>6. CASE AgentWorks \/ UNCHANGED runVars
  BY <1>6 DEF AgentWorks, runVars
<1> QED BY <1>1, <1>2, <1>3, <1>4, <1>5, <1>6 DEF RunNext

(* Steps that make no call and take no return leave what the runner's       *)
(* invariant looks at alone.                                                *)
LEMMA AloneKeeps ==
  ASSUME CliInv, Alone
  PROVE  /\ UNCHANGED <<thread, turns, verdict>>
         /\ (pc' = "start" <=> pc = "start") /\ (pc' = "turn" <=> pc = "turn")
         /\ pc' \in {"ready", "turn", "interrupted", "dispatch", "complete"} =>
              thread # 0 \/ pc \in {"ready", "turn", "interrupted", "dispatch", "complete"}
         /\ pc \in {"interrupted", "done"} => pc' \in {"interrupted", "done"}
         /\ (cli = "exited") => (cli' = "exited")
<1> USE DEF control, threads, summary, policyVars, stream
<1>1. CASE Reject \/ Launch \/ CtrlC
  <2>1. UNCHANGED <<pc, thread, turns, verdict>>
    BY <1>1 DEF Reject, Launch, CtrlC, Cancel, vars
  <2>2. cli' = "exited" \/ cli # "exited"
    BY <1>1 DEF Reject, Launch, CtrlC
  <2> QED BY <2>1, <2>2
<1>2. CASE InEngine(Begin \/ BeginTerminal)
  BY <1>2 DEF InEngine, Begin, BeginTerminal, Fail, Finish, Emit, cliVars
<1>3. CASE InEngine(Head /\ pc' # "start")
  <2>1. CASE LoopTurn
    BY <1>3, <2>1 DEF InEngine, LoopTurn, NeedsThread, Proceeding, AtHead, Emit, cliVars
  <2>2. CASE LoopExhausted \/ LoopInterrupted \/ LoopNotRunnable \/ LoopWait
    BY <1>3, <2>2 DEF InEngine, LoopExhausted, LoopInterrupted, LoopNotRunnable, LoopWait, Proceeding,
       AtHead, Fail, Finish, Emit, cliVars
  <2> QED BY <1>3, <2>1, <2>2 DEF InEngine, Head
<1>4. CASE InEngine(TurnDelta \/ RunInterrupted)
  BY <1>4 DEF InEngine, TurnDelta, RunInterrupted, Finish, Emit, cliVars
<1>5. CASE InEngine(Directive)
  <2>1. CASE Proceed \/ Complete \/ Wait
    BY <1>5, <2>1 DEF InEngine, Proceed, Complete, Wait, Dispatch, TransitionPhase, Emit, cliVars
  <2>2. CASE RunCompleted \/ Retry \/ RetryExhausted \/ Unsupported
    BY <1>5, <2>2 DEF InEngine, RunCompleted, Retry, RetryExhausted, Unsupported, Dispatch, Fail,
       Finish, Emit, cliVars
  <2>3. CASE Compact \/ Compacted \/ CompactFailed
    BY <1>5, <2>3 DEF InEngine, Compact, Compacted, CompactFailed, Dispatch, Fail, Finish, Emit, cliVars
  <2> QED BY <1>5, <2>1, <2>2, <2>3 DEF InEngine, Directive
<1>6. CASE InEngine(Waiting)
  BY <1>6 DEF InEngine, Waiting, WaitFailed, WaitResolved, Resume, CliInv, Simple
<1> QED BY <1>1, <1>2, <1>3, <1>4, <1>5, <1>6 DEF Alone, InEngine

LEMMA AloneStep ==
  ASSUME CliInv, RunnerInv, Alone
  PROVE  RunnerInv'
<1>1. UNCHANGED <<stage, opened, calls, outcome, agent, work>>
  BY DEF Alone, runner
<1>2. RunnerTyped'
  BY <1>1 DEF RunnerInv, RunnerTyped
<1>3. InStep'
  BY <1>1, AloneKeeps DEF RunnerInv, InStep
<1>4. Settled' /\ Judged'
  BY <1>1, AloneKeeps DEF RunnerInv, Settled, OneLeftAtMost, Current, Judged
<1> QED BY <1>2, <1>3, <1>4 DEF RunnerInv

(* Start is called once: the policy's one plan keeps its thread. *)
LEMMA CallsStartStep ==
  ASSUME CliInv, RunnerInv, CallsStart
  PROVE  RunnerInv' /\ Runner!Open
<1>1. /\ pc = "loop" /\ pc' = "start" /\ NeedsThread /\ stage' = "opening"
      /\ UNCHANGED <<opened, calls, outcome, agent, work, thread, turns, verdict, cli, canceled>>
  BY DEF CallsStart, InEngine, LoopTurn, Proceeding, AtHead, stream, cliVars
<1>2. thread = 0
  BY <1>1 DEF NeedsThread, CliInv, Simple
<1>3. cli = "running"
  BY DEF CallsStart, InEngine
<1>4. stage = "idle" /\ ~opened /\ outcome = "none"
  BY <1>1, <1>2, <1>3 DEF RunnerInv, RunnerTyped, InStep
<1>5. RunnerTyped'
  BY <1>1 DEF RunnerInv, RunnerTyped
<1>6. InStep'
  BY <1>1, <1>2, <1>4 DEF RunnerInv, InStep
<1>7. Settled' /\ Judged'
  BY <1>1 DEF RunnerInv, Settled, OneLeftAtMost, Current, Judged
<1>8. Runner!Open
  BY <1>1, <1>4 DEF Runner!Open, Runner!MayOpen
<1> QED BY <1>5, <1>6, <1>7, <1>8 DEF RunnerInv

LEMMA StartReturnsStep ==
  ASSUME CliInv, RunnerInv, StartReturns
  PROVE  RunnerInv'
<1>1. /\ pc = "start" /\ pc' = "ready" /\ thread' = thread + 1
      /\ stage' = "idle" /\ opened' = TRUE
      /\ UNCHANGED <<calls, outcome, agent, work, turns, verdict, cli>>
  BY DEF StartReturns, InEngine, ThreadStarted, Emit, Runner!Opened, cliVars
<1>2. thread \in Nat
  BY DEF CliInv, EngineInv, TypeInv, TypeOK
<1>3. outcome = "none"
  BY <1>1 DEF RunnerInv, InStep
<1>4. RunnerTyped'
  BY <1>1 DEF RunnerInv, RunnerTyped
<1>5. InStep'
  BY <1>1, <1>2, <1>3 DEF RunnerInv, InStep
<1>6. Settled' /\ Judged'
  BY <1>1 DEF RunnerInv, Settled, OneLeftAtMost, Current, Judged
<1> QED BY <1>4, <1>5, <1>6 DEF RunnerInv

LEMMA StartReturnsErrorStep ==
  ASSUME CliInv, RunnerInv, StartReturnsError
  PROVE  RunnerInv'
<1>1. PICK r \in {"error", "canceled"} : outcome' = r /\ InEngine(StartFails(ErrorOf[r]))
  BY DEF StartReturnsError
<1>2. /\ pc = "start" /\ pc' = "done" /\ stage' = "idle"
      /\ UNCHANGED <<opened, calls, agent, work, thread, turns, verdict, cli>>
  BY <1>1 DEF StartReturnsError, InEngine, StartFails, Fail, Finish, Emit, Runner!OpenFails,
     Runner!Return, control, threads, cliVars
<1>3. r \in DOMAIN ErrorOf /\ outcome' = r /\ ~opened /\ turns = 0 /\ calls = 0 /\ verdict = "none"
  BY <1>1, <1>2 DEF ErrorOf, RunnerInv, InStep, Judged
<1>4. RunnerTyped'
  BY <1>2, <1>3 DEF RunnerInv, RunnerTyped
<1>5. InStep'
  BY <1>2, <1>3 DEF RunnerInv, InStep
<1>6. Settled' /\ Judged'
  BY <1>1, <1>2, <1>3 DEF RunnerInv, Settled, OneLeftAtMost, Current, Judged
<1> QED BY <1>4, <1>5, <1>6 DEF RunnerInv

(* A turn begins only once the agent is through with the turns before it.   *)
LEMMA CallsRunTurnStep ==
  ASSUME CliInv, RunnerInv, CallsRunTurn
  PROVE  RunnerInv' /\ Runner!Call
<1>1. /\ pc = "ready" /\ pc' = "turn" /\ stage' = "turn" /\ calls' = calls + 1 /\ turns' = turns + 1
      /\ UNCHANGED <<opened, outcome, agent, work, thread, verdict, cli, canceled>>
  BY DEF CallsRunTurn, InEngine, TurnStarted, EmitTurnStarted, control, threads, cliVars
<1>2. turns \in Nat /\ calls = turns /\ turns = iterations - 1 /\ iterations <= MaxIter /\ iterations \in Nat
  BY <1>1 DEF CliInv, EngineInv, TypeInv, TypeOK, Counted, RunnerInv, InStep
<1>3. cli = "running"
  BY DEF CallsRunTurn, InEngine
<1>4. stage = "idle" /\ opened /\ outcome \notin {"canceled", "interrupted"} /\ calls < MaxIter
  BY <1>1, <1>2, <1>3, EngineAssumption DEF RunnerInv, RunnerTyped, InStep
<1>5. RunnerTyped'
  BY <1>1, <1>2 DEF RunnerInv, RunnerTyped
<1>6. InStep'
  BY <1>1, <1>2, <1>4 DEF RunnerInv, InStep
<1>7. Settled'
  <2>1. outcome \in {"completed", "failed", "error", "none"}
    BY <1>4 DEF RunnerInv, RunnerTyped, ErrorOf
  <2>2. agent \in {"up", "mute"} /\ calls > 0 => work[calls] # "running"
    BY <1>1, <2>1 DEF RunnerInv, Settled
  <2>3. agent \in {"up", "mute"} => \A t \in 1 .. calls : work[t] # "running"
    BY <1>2, <2>2 DEF RunnerInv, Settled
  <2>4. \A t \in 1 .. MaxIter : t > calls + 1 => work[t] = "none"
    BY <1>2, EngineAssumption DEF RunnerInv, Settled
  <2>5. OneLeftAtMost'
    BY <1>1, <1>2, <2>1 DEF RunnerInv, Settled, OneLeftAtMost, Current
  <2> QED BY <1>1, <1>2, <2>3, <2>4, <2>5 DEF Settled
<1>8. Judged'
  BY <1>1, <1>2 DEF RunnerInv, Judged
<1>9. Runner!Call
  BY <1>1, <1>4 DEF Runner!Call, Runner!MayCall
<1> QED BY <1>5, <1>6, <1>7, <1>8, <1>9 DEF RunnerInv

(* What a return of RunTurn says of the turn at the agent.                  *)
LEMMA ReturnsTellAgent ==
  ASSUME RunnerTyped, Runner!TurnEnds \/ Runner!TurnStops \/ Runner!TurnFails \/ Runner!TurnCanceled
  PROVE  /\ stage = "turn" /\ stage' = "idle"
         /\ UNCHANGED <<opened, calls, canceled, work>>
         /\ \/ agent' = agent
            \/ agent = "mute" /\ agent' = "known" /\ outcome' = "error"
         /\ outcome' \in DOMAIN ErrorOf
         /\ outcome' \in {"completed", "failed"} => work[calls] = outcome'
         /\ outcome' = "error" /\ agent' # "down" /\ agent' = agent => work[calls] = "none"
         /\ outcome' = "interrupted" /\ agent # "down" => work[calls] # "running"
         /\ outcome' \in {"canceled", "interrupted"} => canceled
<1> USE DEF Runner!Return, ErrorOf
<1>1. CASE Runner!TurnEnds
  BY <1>1 DEF Runner!TurnEnds
<1>2. CASE Runner!TurnStops
  BY <1>2 DEF Runner!TurnStops
<1>3. CASE Runner!TurnFails
  BY <1>3 DEF Runner!TurnFails
<1>4. CASE Runner!TurnCanceled
  BY <1>4 DEF Runner!TurnCanceled
<1> QED BY <1>1, <1>2, <1>3, <1>4

(* What the engine makes of it: interrupted, or the verdict of the policy.  *)
LEMMA EngineTakesReturn ==
  ASSUME SimplePolicy, CliInv, RunTurnReturns
  PROVE  /\ pc = "turn" /\ UNCHANGED <<thread, turns, cli>>
         /\ \/ /\ outcome' \in {"canceled", "interrupted"} /\ pc' = "interrupted"
               /\ verdict' = "unsupported"
            \/ /\ outcome' \in {"completed", "failed", "error"} /\ pc' = "dispatch"
               /\ verdict' \in {"retry", "complete", "continue"}
               /\ verdict' = "retry" <=> outcome' # "completed"
<1>1. PICK r \in DOMAIN ErrorOf : \E o \in Answers(r) :
          outcome' = r /\ InEngine(InterruptedBy(o) \/ DecidedAfter(o))
  BY DEF RunTurnReturns
<1>2. PICK o \in Answers(r) : outcome' = r /\ InEngine(InterruptedBy(o) \/ DecidedAfter(o))
  BY <1>1
<1>3. /\ o \in TurnOutcome /\ (Interrupts(o) <=> r \in {"canceled", "interrupted"})
      /\ r \in {"failed", "error"} => SimpleNext(o) = "retry"
      /\ r = "completed" => SimpleNext(o) \in {"continue", "complete"}
  BY AnswersAreOutcomes
<1>4. r \in {"completed", "failed", "error", "interrupted", "canceled"}
  BY DEF ErrorOf
<1>5. CASE InterruptedBy(o)
  BY <1>2, <1>3, <1>4, <1>5 DEF InterruptedBy, InEngine, EndTurn, control, threads, cliVars
<1>6. CASE DecidedAfter(o)
  <2>1. PICK d \in AfterTurn(st, o) : EndTurn(d.directive)
    BY <1>6 DEF DecidedAfter
  <2>2. st \in PolicyState /\ ~st.waiting
    BY DEF CliInv, EngineInv, TypeInv, TypeOK, Simple
  <2>3. d.directive = SimpleNext(o) /\ d.directive \in {"retry", "complete", "continue"}
    BY <1>3, <2>2, SimpleDecides
  <2>4. /\ pc = "turn" /\ pc' = "dispatch" /\ UNCHANGED <<thread, turns, cli>>
        /\ verdict' = d.directive /\ ~Interrupts(o)
    BY <1>2, <1>6, <2>1 DEF DecidedAfter, InEngine, EndTurn, threads, cliVars
  <2> QED BY <1>2, <1>3, <1>4, <2>3, <2>4
<1> QED BY <1>2, <1>5, <1>6 DEF InEngine

LEMMA RunTurnReturnsStep ==
  ASSUME SimplePolicy, CliInv, RunnerInv, RunTurnReturns
  PROVE  RunnerInv'
<1>1. /\ stage = "turn" /\ stage' = "idle" /\ UNCHANGED <<opened, calls, work>>
      /\ \/ agent' = agent
         \/ agent = "mute" /\ agent' = "known" /\ outcome' = "error"
      /\ outcome' \in DOMAIN ErrorOf
      /\ outcome' \in {"completed", "failed"} => work[calls] = outcome'
      /\ outcome' = "error" /\ agent' # "down" /\ agent' = agent => work[calls] = "none"
      /\ outcome' = "interrupted" /\ agent # "down" => work[calls] # "running"
  BY ReturnsTellAgent DEF RunnerInv, RunTurnReturns
<1>2. turns >= 1 /\ turns \in 1 .. MaxIter /\ calls = turns /\ opened
  <2>1. turns = iterations /\ iterations <= MaxIter /\ turns \in Nat
    BY EngineTakesReturn DEF CliInv, EngineInv, TypeInv, TypeOK, Counted
  <2> QED BY <2>1, EngineTakesReturn, EngineAssumption DEF RunnerInv, InStep
<1>3. RunnerTyped'
  BY <1>1 DEF RunnerInv, RunnerTyped
<1>4. InStep'
  BY <1>1, <1>2, EngineTakesReturn DEF RunnerInv, InStep
<1>5. Settled'
  <2>1. OneLeftAtMost'
    <3>1. CASE agent = "mute" /\ agent' = "known"
      BY <1>1, <1>2, <3>1 DEF RunnerInv, Settled, OneLeftAtMost
    <3>2. CASE agent' = agent
      <4> SUFFICES ASSUME agent = "known", NEW s \in 1 .. calls, NEW t \in 1 .. calls,
                          work[s] = "running", work[t] = "running", s # t
                   PROVE  Current(s)' \/ Current(t)'
        BY <1>1, <3>2 DEF OneLeftAtMost
      <4>1. s = calls \/ t = calls
        BY <1>2 DEF RunnerInv, Settled, OneLeftAtMost, Current
      <4>2. outcome' = "canceled" \/ work[calls] # "running"
        BY <1>1, <3>2 DEF ErrorOf
      <4> QED BY <1>1, <4>1, <4>2 DEF Current
    <3> QED BY <1>1, <3>1, <3>2
  <2>2. agent' \in {"up", "mute"} => agent' = agent
    BY <1>1
  <2>3. pc' = "interrupted" \/ pc' = "dispatch"
    BY EngineTakesReturn
  <2>4. agent' \in {"up", "mute"} => \A t \in 1 .. calls' - 1 : work'[t] # "running"
    BY <1>1, <2>2 DEF RunnerInv, Settled
  <2>5. pc' # "turn" /\ outcome' = "error" /\ calls' > 0 /\ agent' \in {"up", "mute"} =>
          work'[calls'] = "none"
    BY <1>1, <2>2
  <2> QED BY <1>1, <1>2, <2>1, <2>4, <2>5 DEF RunnerInv, Settled, ErrorOf
<1>6. Judged'
  BY <1>1, <1>2, EngineTakesReturn DEF RunnerInv, Judged
<1> QED BY <1>3, <1>4, <1>5, <1>6 DEF RunnerInv

LEMMA ExitClosesStep ==
  ASSUME CliInv, RunnerInv, ExitCloses
  PROVE  RunnerInv' /\ Runner!Close
<1>1. /\ cli = "running" /\ cli' = "exited" /\ pc = "done" /\ stage' = "closed" /\ agent' = "down"
      /\ UNCHANGED <<pc, opened, calls, outcome, work, canceled, thread, turns, verdict>>
  BY DEF ExitCloses, Exit, vars, control, threads, stream
<1>2. stage = "idle"
  BY <1>1 DEF RunnerInv, RunnerTyped, InStep
<1>3. RunnerTyped'
  BY <1>1 DEF RunnerInv, RunnerTyped
<1>4. InStep'
  BY <1>1, <1>2 DEF RunnerInv, InStep
<1>5. Settled' /\ Judged'
  BY <1>1 DEF RunnerInv, Settled, OneLeftAtMost, Judged
<1>6. Runner!Close
  BY <1>1, <1>2 DEF Runner!Close
<1> QED BY <1>3, <1>4, <1>5, <1>6 DEF RunnerInv

(* The agent never touches a turn that has ended, nor one not called for.   *)
LEMMA AgentWorksStep ==
  ASSUME CliInv, RunnerInv, AgentWorks
  PROVE  RunnerInv'
<1>0. UNCHANGED <<pc, thread, turns, verdict, cli>>
  BY DEF AgentWorks, vars, control, threads, stream, cliVars
<1>1. CASE Runner!AgentFails
  <2>1. /\ (agent = "up" /\ agent' = "mute") \/ agent' = "down"
        /\ UNCHANGED <<stage, opened, calls, outcome, work>>
    BY <1>1 DEF Runner!AgentFails
  <2>2. RunnerTyped' /\ InStep' /\ Judged'
    BY <1>0, <2>1 DEF RunnerInv, RunnerTyped, InStep, Judged
  <2>3. Settled'
    BY <1>0, <2>1 DEF RunnerInv, Settled, OneLeftAtMost
  <2> QED BY <2>2, <2>3 DEF RunnerInv
<1>2. CASE Runner!TurnBegins \/ Runner!TurnInterrupted \/ \E t \in Runner!Turns : Runner!TurnFinishes(t)
  <2>1. PICK t \in 1 .. MaxIter, k \in {"running", "completed", "failed", "interrupted"} :
          /\ Runner!Works(t, k)
          /\ \/ t = calls /\ work[t] = "none" /\ k = "running"
                /\ (stage = "turn" \/ outcome = "canceled")
             \/ work[t] = "running" /\ k # "running"
    <3>1. CASE Runner!TurnBegins
      BY <3>1 DEF Runner!TurnBegins, Runner!Turns
    <3>2. CASE Runner!TurnInterrupted
      BY <3>2 DEF Runner!TurnInterrupted, Runner!Turns
    <3>3. CASE \E t \in Runner!Turns : Runner!TurnFinishes(t)
      BY <3>3 DEF Runner!TurnFinishes, Runner!Turns
    <3> QED BY <1>2, <3>1, <3>2, <3>3
  <2>2. /\ work' = [work EXCEPT ![t] = k]
        /\ UNCHANGED <<stage, opened, calls, outcome, agent>>
    BY <2>1 DEF Runner!Works
  <2>3. RunnerTyped' /\ InStep' /\ Judged'
    BY <1>0, <2>1, <2>2 DEF RunnerInv, RunnerTyped, InStep, Judged
  <2>4. work \in [1 .. MaxIter -> {"none", "running", "completed", "failed", "interrupted"}] /\ calls \in Nat
    BY DEF RunnerInv, RunnerTyped
  <2>5. t <= calls
    BY <2>1, <2>4 DEF RunnerInv, Settled
  <2>6. \A u \in 1 .. MaxIter : u > calls => work'[u] = "none"
    BY <2>2, <2>4, <2>5 DEF RunnerInv, Settled
  <2>7. agent' \in {"up", "mute"} => \A u \in 1 .. calls' - 1 : work'[u] # "running"
    BY <2>1, <2>2, <2>4 DEF RunnerInv, Settled
  <2>8. pc' # "turn" /\ outcome' \in {"completed", "failed"} =>
          calls' \in 1 .. MaxIter /\ work'[calls'] = outcome'
    BY <1>0, <2>1, <2>2, <2>4 DEF RunnerInv, Settled, InStep
  <2>9. pc' # "turn" /\ outcome' = "error" /\ calls' > 0 /\ agent' \in {"up", "mute"} =>
          work'[calls'] = "none"
    BY <1>0, <2>1, <2>2, <2>4 DEF RunnerInv, Settled, InStep
  <2>10. OneLeftAtMost'
    <3>1. \A u \in 1 .. calls : work'[u] = "running" => work[u] = "running" \/ Current(u)
      BY <2>1, <2>2, <2>4 DEF RunnerInv, InStep, Current
    <3>2. \A u : Current(u)' <=> Current(u)
      BY <1>0, <2>2 DEF Current
    <3> QED BY <2>2, <3>1, <3>2 DEF RunnerInv, Settled, OneLeftAtMost
  <2>11. Settled'
    BY <1>0, <2>2, <2>6, <2>7, <2>8, <2>9, <2>10 DEF RunnerInv, Settled
  <2> QED BY <2>3, <2>11 DEF RunnerInv
<1> QED BY <1>1, <1>2 DEF AgentWorks, Runner!Agent

LEMMA RunStepInv ==
  ASSUME SimplePolicy
  PROVE  RunInv /\ [RunNext]_runVars => RunInv'
<1> SUFFICES ASSUME RunInv, [RunNext]_runVars PROVE RunInv'
  OBVIOUS
<1>1. CliInv /\ RunnerInv
  BY DEF RunInv
<1>2. CliInv'
  BY <1>1, RunIsCli, CliStepInv
<1>3. RunnerInv'
  <2>1. CASE UNCHANGED runVars
    BY <1>1, <2>1 DEF runVars, runner, vars, control, threads, stream, cliVars, RunnerInv, RunnerTyped,
       InStep, Settled, OneLeftAtMost, Current, Judged
  <2> QED BY <1>1, <2>1, AloneStep, CallsStartStep, StartReturnsStep, StartReturnsErrorStep,
             CallsRunTurnStep, RunTurnReturnsStep, ExitClosesStep, AgentWorksStep DEF RunNext
<1> QED BY <1>2, <1>3 DEF RunInv

LEMMA RunInvariance == ASSUME SimplePolicy PROVE RunSpec => []RunInv
<1>1. RunInit => RunInv
  BY RunInitInv
<1>2. RunInv /\ [RunNext]_runVars => RunInv'
  BY RunStepInv
<1> QED BY <1>1, <1>2, PTL DEF RunSpec

(* A run with its app-server is a run of the command: what is proved of     *)
(* every run of the command is true of it.                                  *)
THEOREM RunIsCommand == RunSpec => CliSpec
<1>1. RunInit => CliInit
  BY DEF RunInit
<1>2. QED
  BY <1>1, RunIsCli, PTL DEF RunSpec, CliSpec

(* For every limit, whatever the agent does and whenever Ctrl+C comes: the  *)
(* engine calls the runner only as it may be called, and the runner's part  *)
(* of the run is a behaviour of its contract.                               *)
THEOREM RunnersRulesKept == ASSUME SimplePolicy PROVE RunSpec => KeepsRunnersRules
<1>1. RunInit => Runner!Init
  BY DEF RunInit
<1>2. RunInv /\ [RunNext]_runVars => [Runner!Next]_(Runner!runnerVars)
  <2> SUFFICES ASSUME CliInv, RunnerInv, [RunNext]_runVars
               PROVE  Runner!Next \/ UNCHANGED Runner!runnerVars
    BY DEF RunInv
  <2>1. CASE Alone
    <3>1. CASE CtrlC
      <4>1. ~canceled /\ canceled' = TRUE /\ cli = "running" /\ UNCHANGED runner
        BY <2>1, <3>1 DEF Alone, CtrlC, Cancel
      <4>2. stage # "closed"
        BY <4>1 DEF RunnerInv, InStep
      <4> QED BY <4>1, <4>2 DEF Runner!Cancel, Runner!Next, runner
    <3>2. CASE ~CtrlC
      <4>1. UNCHANGED <<runner, canceled>>
        BY <2>1, <3>2 DEF Alone, Reject, Launch, InEngine, vars
      <4> QED BY <4>1 DEF runner, Runner!runnerVars
    <3> QED BY <3>1, <3>2
  <2>2. CASE CallsStart
    BY <2>2, CallsStartStep DEF Runner!Caller, Runner!Next
  <2>3. CASE StartReturns \/ StartReturnsError
    BY <2>3 DEF StartReturns, StartReturnsError, Runner!Caller, Runner!Next
  <2>4. CASE CallsRunTurn
    BY <2>4, CallsRunTurnStep DEF Runner!Caller, Runner!Next
  <2>5. CASE RunTurnReturns
    BY <2>5 DEF RunTurnReturns, Runner!Caller, Runner!Next
  <2>6. CASE ExitCloses
    BY <2>6, ExitClosesStep DEF Runner!Caller, Runner!Next
  <2>7. CASE AgentWorks
    BY <2>7 DEF AgentWorks, Runner!Next
  <2>8. CASE UNCHANGED runVars
    BY <2>8 DEF runVars, runner, vars, Runner!runnerVars
  <2> QED BY <2>1, <2>2, <2>3, <2>4, <2>5, <2>6, <2>7, <2>8 DEF RunNext
<1>3. RunSpec => []RunInv
  BY RunInvariance
<1>4. QED
  BY <1>1, <1>2, <1>3, PTL DEF RunSpec, KeepsRunnersRules, Runner!Spec

(* For every limit: the exit code, and every verdict on the way, are true   *)
(* of the turns at the agent.                                               *)
THEOREM RunTruthful == ASSUME SimplePolicy PROVE RunSpec => []RunTellsTruth
<1>1. RunInv => VerdictsAreTrue
  <2> SUFFICES ASSUME CliInv, RunnerInv PROVE VerdictsAreTrue
    BY DEF RunInv
  <2>1. open # "turn" => pc # "turn"
    BY DEF CliInv, EngineInv, Bracketed
  <2>2. turns \in Nat /\ calls = turns
    BY DEF CliInv, EngineInv, TypeInv, TypeOK, RunnerInv, InStep
  <2>3. verdict # "none" => turns > 0
    BY <2>2 DEF RunnerInv, Judged
  <2>4. ASSUME open # "turn", verdict \in {"continue", "complete"} PROVE work[turns] = "completed"
    BY <2>1, <2>2, <2>4 DEF RunnerInv, Judged, Settled
  <2>5. ASSUME open # "turn", verdict = "retry", agent \in {"up", "mute"}
        PROVE  work[turns] \in {"failed", "none"}
    BY <2>1, <2>2, <2>3, <2>5 DEF RunnerInv, Judged, Settled
  <2>6. agent \in {"up", "mute"} => \A t \in 1 .. turns - 1 : work[t] # "running"
    BY <2>2 DEF RunnerInv, Settled
  <2>7. ASSUME agent = "known", NEW s \in 1 .. turns - 1, NEW t \in 1 .. turns - 1,
               work[s] = "running", work[t] = "running"
        PROVE  s = t
    BY <2>2, <2>7 DEF RunnerInv, Settled, OneLeftAtMost, Current
  <2> QED BY <2>4, <2>5, <2>6, <2>7 DEF VerdictsAreTrue
<1>2. RunSpec => []RunInv
  BY RunInvariance
<1>3. RunSpec => []ExitTellsOutcome
  BY RunIsCommand, ExitCorrect
<1>4. QED
  BY <1>1, <1>2, <1>3, PTL DEF RunTellsTruth
=============================================================================
