-------------------------- MODULE WtlEngineProofs --------------------------
(***************************************************************************)
(* Proofs about WtlEngine, for every policy, limit and set of phases.      *)
(***************************************************************************)
EXTENDS WtlEngine, TLAPS

(* TypeOK is inductive once an unstarted turn is known to be counted.      *)
TypeInv == TypeOK /\ (pc \in {"start", "ready"} => iterations >= 1)

LEMMA InitType == Init => TypeInv
<1> SUFFICES ASSUME Init PROVE TypeInv
  OBVIOUS
<1>1. st \in PolicyState
  BY EngineAssumption DEF Init
<1>2. st.phase \in Phases
  BY <1>1 DEF PolicyState
<1>3. QED
  BY <1>1, <1>2 DEF Init, TypeInv, TypeOK, Errors

(* An event leaves the history well typed. *)
LEMMA EmitType ==
  ASSUME TypeOK, NEW kind \in Kinds, NEW p \in Phases, Emit(kind, p)
  PROVE  /\ last' \in Kinds \cup {"none"}
         /\ open' \in {"none", "turn", "wait"}
         /\ announced' \in Phases \cup {NoPhase}
         /\ ended' \in Terminals \cup {"none"}
         /\ UNCHANGED <<turns, turnThread, turnPhase, streak, verdict>>
  BY DEF TypeOK, Emit, Kinds, Terminals

(* So does a return of run, which also types the summary. *)
LEMMA FinishType ==
  ASSUME TypeInv, NEW s \in {"exhausted", "interrupted", "failed"}, NEW n \in Nat,
         NEW by \in {"none", "max_iter", "max_retry"}, NEW err \in Errors,
         NEW kind \in Terminals, Finish(s, n, by, err, kind),
         UNCHANGED control, canceled' \in BOOLEAN
  PROVE  TypeInv'
<1>1. kind \in Kinds /\ Emit(kind, phase) /\ phase \in Phases
  BY DEF Kinds, Finish, TypeInv, TypeOK
<1>2. QED
  BY <1>1, EmitType DEF Finish, TypeInv, TypeOK, control, policyVars, counters, threads

LEMMA FailType ==
  ASSUME TypeInv, NEW n \in Nat, NEW err \in Errors, Fail(n, err),
         UNCHANGED control, canceled' \in BOOLEAN
  PROVE  TypeInv'
  BY FinishType DEF Fail, Terminals

LEMMA StepType == TypeInv /\ [Next]_vars => TypeInv'
<1> SUFFICES ASSUME TypeInv, [Next]_vars
             PROVE  TypeInv'
  OBVIOUS
<1> USE EngineAssumption DEF TypeInv
<1>0. /\ TypeOK /\ phase \in Phases /\ st \in PolicyState /\ st.phase \in Phases
      /\ iterations \in Nat
  BY DEF TypeOK, PolicyState

<1> DEFINE Frame == UNCHANGED canceled
<1>1. CASE Begin /\ Frame
  BY <1>0, <1>1, EmitType DEF Begin, TypeOK, Kinds, control, policyVars, counters, threads, summary
<1>2. CASE BeginTerminal /\ Frame
  <2>1. CASE st.directive = "complete"
    BY <1>0, <1>2, <2>1, EmitType DEF BeginTerminal, TypeOK, Kinds, Terminals, Directives,
       control, policyVars, counters, threads
  <2>2. CASE st.directive # "complete"
    BY <1>0, <1>2, <2>2, FailType DEF BeginTerminal, TypeOK, Errors
  <2>3. QED BY <2>1, <2>2
<1>3. CASE (LoopExhausted \/ LoopInterrupted \/ LoopNotRunnable) /\ Frame
  BY <1>0, <1>3, FinishType, FailType DEF LoopExhausted, LoopInterrupted, LoopNotRunnable, TypeOK, Errors, Terminals
<1>4. CASE LoopWait /\ Frame
  BY <1>0, <1>4, EmitType DEF LoopWait, TypeOK, Kinds, control, policyVars, counters, threads, summary
<1>5. CASE LoopTurn /\ Frame
  BY <1>0, <1>5, EmitType DEF LoopTurn, Proceeding, AtHead, TypeOK, Kinds, policyVars, threads, summary, stream
<1>6. CASE ThreadStarted /\ Frame
  BY <1>0, <1>6, EmitType DEF ThreadStarted, TypeOK, Kinds, policyVars, counters, summary
<1>7. CASE (ThreadFailed \/ CompactFailed \/ WaitFailed) /\ Frame
  BY <1>0, <1>7, FailType DEF ThreadFailed, StartFails, CompactFailed, WaitFailed, TypeOK, TurnsRun
<1>8. CASE (RunInterrupted \/ RetryExhausted \/ Unsupported) /\ Frame
  BY <1>0, <1>8, FinishType, FailType DEF RunInterrupted, RetryExhausted, Unsupported, TypeOK, Errors, Terminals
<1>9. CASE TurnStarted /\ Frame
  BY <1>0, <1>9 DEF TurnStarted, EmitTurnStarted, TypeOK, Kinds, control, policyVars, counters, threads
<1>10. CASE TurnDelta /\ Frame
  BY <1>0, <1>10, EmitType DEF TurnDelta, TypeOK, Kinds, control, policyVars, counters, threads, summary
<1>11. CASE TurnInterrupted /\ Frame
  BY <1>0, <1>11 DEF TurnInterrupted, InterruptedBy, EndTurn, TypeOK, Kinds, Directives, control, policyVars, counters, threads, summary
<1>12. CASE TurnDecided /\ Frame
  <2>0. PICK o \in TurnOutcome : \E d \in AfterTurn(st, o) :
           /\ st' = d.state
           /\ dir' = d.directive
           /\ lastDirective' = d.directive
           /\ lastError' = IF o.err = "none" THEN lastError ELSE o.err
           /\ EndTurn(d.directive)
    BY <1>12 DEF TurnDecided, DecidedAfter
  <2>1. PICK d \in AfterTurn(st, o) :
           /\ st' = d.state
           /\ dir' = d.directive
           /\ lastDirective' = d.directive
           /\ lastError' = IF o.err = "none" THEN lastError ELSE o.err
           /\ EndTurn(d.directive)
    BY <2>0
  <2>2. d.directive \in Directives /\ d.state \in PolicyState /\ o.err \in Errors
    <3>1. d \in PolicyDecision
      BY <1>0
    <3>2. QED BY <3>1 DEF PolicyDecision, TurnOutcome
  <2>3. QED
    BY <1>0, <1>12, <2>1, <2>2 DEF TurnDecided, DecidedAfter, EndTurn, TypeOK, Kinds, counters, threads
<1>13. CASE (Proceed \/ Complete) /\ Frame
  BY <1>0, <1>13, EmitType DEF Proceed, Complete, Report, TransitionPhase, TypeOK, Kinds,
     policyVars, counters, threads, stream
<1>14. CASE RunCompleted /\ Frame
  BY <1>0, <1>14, EmitType DEF RunCompleted, TypeOK, Kinds, Terminals, control, policyVars, counters, threads, summary
<1>15. CASE (Retry \/ Compact \/ Compacted) /\ Frame
  BY <1>0, <1>15 DEF Retry, Compact, Compacted, TypeOK, control, policyVars, counters, threads, summary, stream
<1>16. CASE Wait /\ Frame
  BY <1>0, <1>16, EmitType DEF Wait, Report, TypeOK, Kinds, control, policyVars, counters, threads
<1>17. CASE WaitResolved /\ Frame
  BY <1>0, <1>17, EmitType DEF WaitResolved, TypeOK, Kinds, control, policyVars, counters, threads, summary
<1>18. CASE Resume /\ Frame
  <2>1. WaitingState \in PolicyState
    BY <1>0 DEF WaitingState, PolicyState, Directives
  <2>2. PICK s \in OnWaitResolved(WaitingState) : st' = s /\ TransitionPhase(s.phase)
    BY <1>18 DEF Resume
  <2>3. s \in PolicyState /\ s.phase \in Phases
    BY <2>1 DEF PolicyState
  <2>4. QED
    BY <1>0, <1>18, <2>2, <2>3, EmitType DEF Resume, TransitionPhase, TypeOK, Kinds, threads, stream
<1>19. CASE Cancel
  BY <1>0, <1>19 DEF Cancel, TypeOK, control, policyVars, counters, threads, summary, stream
<1>20. CASE UNCHANGED vars
  BY <1>0, <1>20 DEF vars, TypeOK, control, policyVars, counters, threads, summary, stream
<1>21. QED
  BY <1>1, <1>2, <1>3, <1>4, <1>5, <1>6, <1>7, <1>8, <1>9, <1>10, <1>11, <1>12, <1>13,
     <1>14, <1>15, <1>16, <1>17, <1>18, <1>19, <1>20
     DEF Next, Step, Head, Turn, Directive, Waiting

(* Every variable of the engine keeps its type, for every policy.          *)
THEOREM TypeCorrect == Spec => []TypeOK
<1>1. TypeInv => TypeOK
  BY DEF TypeInv
<1>2. QED
  BY <1>1, InitType, StepType, PTL DEF Spec

-----------------------------------------------------------------------------
(* The inductive invariant: what ties the engine's own bookkeeping (pc,    *)
(* iterations, retries, dir) to what its observers have seen.              *)

(* A turn begun and not yet started is the one the observers miss.         *)
Counted ==
    /\ pc # "done" =>
         turns = IF pc \in {"start", "ready"} THEN iterations - 1 ELSE iterations
    /\ pc \in {"start", "ready"} => iterations >= 1
    /\ iterations <= MaxIter
    /\ pc \in {"begin", "terminal"} => iterations = 0 /\ reported = 0
    /\ pc \in {"complete", "done"} => reported = turns

Reported ==
    /\ pc \notin {"complete", "done"} => status = "none"
    /\ pc = "complete" => status = "completed"
    /\ pc = "done" => status # "none" /\ ended = TerminalOf[status]
    /\ status = "completed" => lastDirective = "complete"
    /\ pc # "done" => ended = "none"
    /\ runThread = turnThread

(* dir is the last verdict, and the brackets follow pc.                    *)
Bracketed ==
    /\ pc \in {"dispatch", "compact", "complete"} => dir = verdict /\ dir = lastDirective
    /\ pc = "compact" => dir = "compact"
    /\ pc = "complete" => dir = "complete"
    /\ pc \in {"wait", "resolved"} => dir \in {"wait", "none"}
    /\ pc \in {"begin", "terminal", "loop", "start", "ready", "turn"} => dir = "none"
    /\ pc = "interrupted" => verdict = "unsupported"
    /\ (last = "none") <=> (pc = "begin")
    /\ pc # "done" => /\ (open = "turn") <=> (pc = "turn")
                      /\ (open = "wait") <=> (pc = "wait")

(* The streak the observers count is the engine's counter, except between  *)
(* a decision and the step that carries it out.                            *)
Budgeted ==
    /\ retries <= MaxRetry
    /\ \/ pc \in {"begin", "terminal", "loop", "start", "ready", "turn", "compact"}
       \/ pc = "dispatch" /\ dir = "compact"
       \/ pc \in {"wait", "resolved"} /\ dir = "none"
       => streak = retries
    /\ pc = "dispatch" /\ dir = "retry" => streak = retries + 1
    /\ pc = "dispatch" /\ dir \notin {"retry", "compact"} => streak = 0
    /\ pc \in {"wait", "resolved"} /\ dir = "wait" => streak = 0
    /\ streak = MaxRetry + 1 => pc \in {"dispatch", "done"}
    /\ streak <= MaxRetry + 1
    /\ exhaustedBy = "max_retry" => pc = "done" /\ streak = MaxRetry + 1

EngineInv == TypeInv /\ Counted /\ Reported /\ Bracketed /\ Budgeted

LEMMA InitInv == Init => EngineInv
<1> SUFFICES ASSUME Init PROVE EngineInv
  OBVIOUS
<1>1. TypeInv
  BY InitType
<1>2. Counted /\ Reported /\ Bracketed
  BY EngineAssumption DEF Init, Counted, Reported, Bracketed
<1>3. Budgeted
  BY EngineAssumption DEF Init, Budgeted
<1>4. QED
  BY <1>1, <1>2, <1>3 DEF EngineInv

(* A return of run: it reports the turns the observers saw, and its        *)
(* terminal event names its status.                                        *)
LEMMA FinishInv ==
  ASSUME EngineInv, NEW s \in {"exhausted", "interrupted", "failed"},
         NEW by, NEW err, Finish(s, turns, by, err, TerminalOf[s]),
         UNCHANGED control, pc # "done",
         by = "max_retry" => streak = MaxRetry + 1
  PROVE  Counted' /\ Reported' /\ Bracketed' /\ Budgeted'
<1> USE EngineAssumption DEF EngineInv, Finish, Emit, control, policyVars, counters, threads
<1>0. TerminalOf[s] \in Terminals
  BY DEF TerminalOf, Terminals
<1>1. Counted'
  BY DEF Counted
<1>2. Reported'
  BY <1>0 DEF Reported
<1>3. Bracketed'
  BY <1>0 DEF Bracketed, Terminals
<1>4. Budgeted'
  BY DEF Budgeted
<1>5. QED
  BY <1>1, <1>2, <1>3, <1>4

LEMMA StepInv == EngineInv /\ [Next]_vars => EngineInv'
<1> SUFFICES ASSUME EngineInv, [Next]_vars
             PROVE  EngineInv'
  OBVIOUS
<1> USE EngineAssumption
<1>t. TypeInv /\ TypeInv'
  BY StepType DEF EngineInv
<1>0. /\ iterations \in Nat /\ turns \in Nat /\ retries \in Nat /\ streak \in Nat
      /\ phase \in Phases /\ MaxIter \in Nat /\ MaxRetry \in Nat
  BY <1>t DEF TypeInv, TypeOK
<1>i. Counted /\ Reported /\ Bracketed /\ Budgeted
  BY DEF EngineInv
<1> DEFINE Frame == UNCHANGED canceled
<1> DEFINE Goal == Counted' /\ Reported' /\ Bracketed' /\ Budgeted'
<1>1. ASSUME Begin, Frame PROVE Goal
  BY <1>0, <1>i, <1>1 DEF Begin, Emit, Terminals, control, policyVars, counters, threads, summary,
     Counted, Reported, Bracketed, Budgeted
<1>2. ASSUME BeginTerminal, Frame PROVE Goal
  <2>1. CASE st.directive = "complete"
    BY <1>0, <1>i, <1>2, <2>1 DEF BeginTerminal, Emit, Terminals, TerminalOf,
       control, policyVars, counters, threads, Counted, Reported, Bracketed, Budgeted
  <2>2. CASE st.directive # "complete"
    <3>1. Fail(turns, "other") /\ UNCHANGED control /\ pc # "done"
      BY <1>i, <1>2, <2>2 DEF BeginTerminal, Counted
    <3>2. QED BY <3>1, FinishInv DEF Fail, TerminalOf
  <2>3. QED BY <2>1, <2>2
<1>3. ASSUME LoopExhausted \/ LoopInterrupted \/ LoopNotRunnable, Frame PROVE Goal
  <2>1. UNCHANGED control /\ pc # "done" /\ iterations = turns
    BY <1>i, <1>3 DEF LoopExhausted, LoopInterrupted, LoopNotRunnable, Proceeding, AtHead, Counted
  <2>2. CASE LoopExhausted
    <3>1. MaxIter = turns
      BY <1>0, <1>i, <2>1, <2>2 DEF LoopExhausted, Counted
    <3>2. QED BY <2>1, <2>2, <3>1, FinishInv DEF LoopExhausted, TerminalOf
  <2>3. CASE LoopInterrupted
    BY <2>1, <2>3, FinishInv DEF LoopInterrupted, TerminalOf
  <2>4. CASE LoopNotRunnable
    BY <2>1, <2>4, FinishInv DEF LoopNotRunnable, Fail, TerminalOf
  <2>5. QED BY <1>3, <2>2, <2>3, <2>4
<1>4. ASSUME LoopWait, Frame PROVE Goal
  BY <1>0, <1>i, <1>4 DEF LoopWait, Proceeding, AtHead, Emit, Terminals,
     control, policyVars, counters, threads, summary, Counted, Reported, Bracketed, Budgeted
<1>5. ASSUME LoopTurn, Frame PROVE Goal
  BY <1>0, <1>i, <1>5 DEF LoopTurn, Proceeding, AtHead, Emit, Terminals,
     policyVars, threads, summary, stream, Counted, Reported, Bracketed, Budgeted
<1>6. ASSUME ThreadStarted, Frame PROVE Goal
  BY <1>0, <1>i, <1>6 DEF ThreadStarted, Emit, Terminals,
     policyVars, counters, summary, Counted, Reported, Bracketed, Budgeted
<1>7. ASSUME ThreadFailed \/ CompactFailed \/ WaitFailed, Frame PROVE Goal
  <2>1. PICK err \in Errors : Fail(turns, err)
    BY <1>0, <1>i, <1>7 DEF ThreadFailed, StartFails, CompactFailed, WaitFailed, TurnsRun, Counted
  <2>2. UNCHANGED control /\ pc # "done"
    BY <1>7 DEF ThreadFailed, StartFails, CompactFailed, WaitFailed
  <2>3. QED BY <2>1, <2>2, FinishInv DEF Fail, TerminalOf
<1>8. ASSUME RunInterrupted \/ RetryExhausted \/ Unsupported, Frame PROVE Goal
  <2>1. UNCHANGED control /\ pc # "done" /\ iterations = turns
    BY <1>i, <1>8 DEF RunInterrupted, RetryExhausted, Unsupported, Dispatch, Counted
  <2>2. CASE RunInterrupted
    BY <2>1, <2>2, FinishInv DEF RunInterrupted, TerminalOf
  <2>3. CASE RetryExhausted
    <3>1. streak = MaxRetry + 1
      BY <1>0, <1>i, <2>3 DEF RetryExhausted, Dispatch, MayRetry, Budgeted
    <3>2. QED BY <2>1, <2>3, <3>1, FinishInv DEF RetryExhausted, TerminalOf
  <2>4. CASE Unsupported
    BY <2>1, <2>4, FinishInv DEF Unsupported, Fail, TerminalOf
  <2>5. QED BY <1>8, <2>2, <2>3, <2>4
<1>9. ASSUME TurnStarted, Frame PROVE Goal
  BY <1>0, <1>i, <1>9 DEF TurnStarted, EmitTurnStarted,
     control, policyVars, counters, threads, Counted, Reported, Bracketed, Budgeted
<1>10. ASSUME TurnDelta, Frame PROVE Goal
  BY <1>0, <1>i, <1>10 DEF TurnDelta, Emit, Terminals,
     control, policyVars, counters, threads, summary, Counted, Reported, Bracketed, Budgeted
<1>11. ASSUME TurnInterrupted, Frame PROVE Goal
  BY <1>0, <1>i, <1>11 DEF TurnInterrupted, InterruptedBy, EndTurn,
     control, policyVars, counters, threads, summary, Counted, Reported, Bracketed, Budgeted
<1>12. ASSUME TurnDecided, Frame PROVE Goal
  <2>1. PICK o \in TurnOutcome : \E d \in AfterTurn(st, o) :
           /\ dir' = d.directive
           /\ lastDirective' = d.directive
           /\ EndTurn(d.directive)
    BY <1>12 DEF TurnDecided, DecidedAfter
  <2>2. PICK d : dir' = d /\ lastDirective' = d /\ EndTurn(d)
    BY <2>1
  <2>3. QED
    BY <1>0, <1>i, <1>12, <2>2 DEF TurnDecided, DecidedAfter, EndTurn, counters, threads,
       Counted, Reported, Bracketed, Budgeted
<1>13. ASSUME Proceed \/ Complete, Frame PROVE Goal
  BY <1>0, <1>i, <1>13 DEF Proceed, Complete, Dispatch, Report, TransitionPhase, Emit, Terminals,
     policyVars, counters, threads, stream, Counted, Reported, Bracketed, Budgeted
<1>14. ASSUME RunCompleted, Frame PROVE Goal
  BY <1>0, <1>i, <1>14 DEF RunCompleted, Emit, Terminals, TerminalOf,
     control, policyVars, counters, threads, summary, Counted, Reported, Bracketed, Budgeted
<1>15. ASSUME Retry \/ Compact \/ Compacted, Frame PROVE Goal
  BY <1>0, <1>i, <1>15 DEF Retry, MayRetry, Compact, Compacted, Dispatch,
     control, policyVars, counters, threads, summary, stream, Counted, Reported, Bracketed, Budgeted
<1>16. ASSUME Wait, Frame PROVE Goal
  BY <1>0, <1>i, <1>16 DEF Wait, Dispatch, Report, Emit, Terminals,
     control, policyVars, counters, threads, Counted, Reported, Bracketed, Budgeted
<1>17. ASSUME WaitResolved, Frame PROVE Goal
  BY <1>0, <1>i, <1>17 DEF WaitResolved, Emit, Terminals,
     control, policyVars, counters, threads, summary, Counted, Reported, Bracketed, Budgeted
<1>18. ASSUME Resume, Frame PROVE Goal
  <2>1. PICK s : TransitionPhase(s.phase)
    BY <1>18 DEF Resume
  <2>2. QED
    BY <1>0, <1>i, <1>18, <2>1 DEF Resume, TransitionPhase, Emit, Terminals, threads, stream,
       Counted, Reported, Bracketed, Budgeted
<1>19. ASSUME Cancel \/ UNCHANGED vars PROVE Goal
  BY <1>0, <1>i, <1>19 DEF Cancel, vars, control, policyVars, counters, threads, summary, stream,
     Counted, Reported, Bracketed, Budgeted
<1>20. Goal
  BY <1>1, <1>2, <1>3, <1>4, <1>5, <1>6, <1>7, <1>8, <1>9, <1>10, <1>11, <1>12, <1>13,
     <1>14, <1>15, <1>16, <1>17, <1>18, <1>19
     DEF Next, Step, Head, Turn, Directive, Waiting
<1>21. QED
  BY <1>t, <1>20 DEF EngineInv

LEMMA Invariance == Spec => []EngineInv
  BY InitInv, StepInv, PTL DEF Spec

(* The summary and the event stream are two reports of one run, for every  *)
(* policy and every outcome of the runner's calls.                         *)
THEOREM SummaryCorrect == Spec => []SummaryMatchesStream
<1>1. EngineInv => SummaryMatchesStream
  BY DEF EngineInv, Counted, Reported, SummaryMatchesStream
<1>2. QED
  BY <1>1, Invariance, PTL

(* The retry limit is never passed and never given up before it is spent.  *)
THEOREM RetryBudgetCorrect == Spec => []RetryBudget
<1>1. EngineInv => RetryBudget
  BY DEF EngineInv, Budgeted, RetryBudget
<1>2. QED
  BY <1>1, Invariance, PTL

-----------------------------------------------------------------------------
LEMMA StreamStepHolds == EngineInv /\ [Next]_vars => [StreamStep]_stream
<1> SUFFICES ASSUME EngineInv, [Next]_vars, ~UNCHANGED stream
             PROVE  StreamStep
  BY DEF stream
<1>0. /\ last \in Kinds \cup {"none"} /\ open \in {"none", "turn", "wait"}
      /\ pc # "done" => ended = "none"
      /\ (last = "none") <=> (pc = "begin")
      /\ pc # "done" => /\ (open = "turn") <=> (pc = "turn")
                        /\ (open = "wait") <=> (pc = "wait")
  BY DEF EngineInv, TypeInv, TypeOK, Reported, Bracketed
(* Outside a turn and a wait, an event leaves the brackets closed. *)
<1>1. ASSUME pc \notin {"begin", "turn", "wait", "done"}, NEW k, NEW p, Emit(k, p),
             k \in Kinds \ {"run.started", "turn.started", "turn.finished", "run.wait_resolved"}
      PROVE  StreamStep
  BY <1>0, <1>1 DEF StreamStep, Emit, Kinds, Terminals
<1>2. ASSUME Begin PROVE StreamStep
  BY <1>0, <1>2 DEF Begin, StreamStep, Emit, Terminals
<1>3. ASSUME BeginTerminal \/ RunCompleted \/ LoopExhausted \/ LoopInterrupted \/ LoopNotRunnable
             \/ ThreadFailed \/ CompactFailed \/ RunInterrupted \/ RetryExhausted \/ Unsupported
      PROVE  StreamStep
  <2>1. PICK k \in Terminals : Emit(k, phase)
    BY <1>3 DEF BeginTerminal, RunCompleted, LoopExhausted, LoopInterrupted, LoopNotRunnable,
       ThreadFailed, StartFails, CompactFailed, RunInterrupted, RetryExhausted, Unsupported, Fail, Finish, Terminals
  <2>2. pc \notin {"begin", "turn", "wait", "done"}
    BY <1>3 DEF BeginTerminal, RunCompleted, LoopExhausted, LoopInterrupted, LoopNotRunnable,
       Proceeding, AtHead, ThreadFailed, StartFails, CompactFailed, RunInterrupted, RetryExhausted, Unsupported, Dispatch
  <2>3. QED BY <1>1, <2>1, <2>2 DEF Kinds, Terminals
<1>4. ASSUME LoopWait \/ Wait \/ LoopTurn \/ ThreadStarted PROVE StreamStep
  BY <1>1, <1>4 DEF LoopWait, Wait, LoopTurn, ThreadStarted, Proceeding, AtHead, Dispatch, Kinds
<1>5. ASSUME Proceed \/ Complete PROVE StreamStep
  BY <1>1, <1>5 DEF Proceed, Complete, TransitionPhase, Dispatch, Kinds
<1>6. ASSUME Resume PROVE StreamStep
  <2>1. PICK s : TransitionPhase(s.phase)
    BY <1>6 DEF Resume
  <2>2. QED BY <1>1, <1>6, <2>1 DEF Resume, TransitionPhase, Kinds
<1>7. ASSUME TurnStarted PROVE StreamStep
  BY <1>0, <1>7 DEF TurnStarted, EmitTurnStarted, StreamStep
<1>8. ASSUME TurnDelta PROVE StreamStep
  BY <1>0, <1>8 DEF TurnDelta, Emit, StreamStep, Terminals
<1>9. ASSUME TurnInterrupted PROVE StreamStep
  BY <1>0, <1>9 DEF TurnInterrupted, InterruptedBy, EndTurn, StreamStep
<1>10. ASSUME TurnDecided PROVE StreamStep
  <2>1. PICK d : EndTurn(d)
    BY <1>10 DEF TurnDecided, DecidedAfter
  <2>2. QED BY <1>0, <1>10, <2>1 DEF TurnDecided, DecidedAfter, EndTurn, StreamStep
<1>11. ASSUME WaitFailed PROVE StreamStep
  <2>1. Emit("run.failed", phase)
    BY <1>11 DEF WaitFailed, Fail, Finish
  <2>2. QED BY <1>0, <1>11, <2>1 DEF WaitFailed, Emit, StreamStep, Terminals
<1>12. ASSUME WaitResolved PROVE StreamStep
  BY <1>0, <1>12 DEF WaitResolved, Emit, StreamStep, Terminals
<1>13. ASSUME Retry \/ Compact \/ Compacted \/ Cancel \/ UNCHANGED vars PROVE StreamStep
  BY <1>13 DEF Retry, Compact, Compacted, Cancel, vars
<1>14. QED
  BY <1>2, <1>3, <1>4, <1>5, <1>6, <1>7, <1>8, <1>9, <1>10, <1>11, <1>12, <1>13
     DEF Next, Step, Head, Turn, Directive, Waiting

(* Observers get a well formed stream: one start, closed brackets, one end *)
(* and nothing after it.                                                   *)
THEOREM StreamCorrect == Spec => StreamWellFormed
  BY Invariance, StreamStepHolds, PTL DEF Spec, StreamWellFormed

-----------------------------------------------------------------------------
(* A turn runs where its plan wants it, for every policy that retries and  *)
(* compacts within a phase, as specs/what-the-loop/SPEC.md:122 asks: the   *)
(* engine announces a phase only with the other directives.                *)
KeepsPhase ==
    \A s \in PolicyState, o \in TurnOutcome : \A d \in AfterTurn(s, o) :
        d.directive \in {"retry", "compact"} => d.state.phase = s.phase

(* The observers know the phase of the engine, and where a turn can begin  *)
(* it is the phase of the plan.                                            *)
Told ==
    /\ pc # "begin" => announced = phase
    /\ pc \in {"begin", "terminal", "loop", "start", "ready", "turn", "compact"} => st.phase = phase
    /\ pc = "dispatch" /\ dir \in {"retry", "compact"} => st.phase = phase

(* The thread of the engine is that of the last turn, or the one its next  *)
(* turn needs.                                                             *)
Threaded ==
    /\ pc \notin {"ready", "done"} =>
         /\ turns = 0 => thread = 0
         /\ turns > 0 => thread >= 1 /\ thread = turnThread /\ threadPhase = turnPhase
    /\ pc = "start" => NeedsThread
    /\ pc = "ready" =>
         /\ thread >= 1 /\ threadPhase = st.phase
         /\ turns > 0 => IF st.phase = turnPhase THEN thread = turnThread
                         ELSE st.mode = "new" => thread # turnThread

PlanInv == Told /\ Threaded

LEMMA PlanInit == Init => PlanInv
  BY DEF Init, PlanInv, Told, Threaded

(* A return of run ends the plan. *)
LEMMA FinishPlan ==
  ASSUME PlanInv, pc # "begin", NEW s, NEW n, NEW by, NEW err, NEW kind \in Terminals,
         Finish(s, n, by, err, kind), UNCHANGED control
  PROVE  PlanInv'
<1>1. announced' = announced
  BY DEF Finish, Emit, Terminals
<1>2. QED
  BY <1>1 DEF Finish, control, PlanInv, Told, Threaded

(* An event between two turns leaves the last turn alone, and announces    *)
(* no other phase than the engine's.                                       *)
LEMMA EmitPlan ==
  ASSUME NEW kind, NEW p, Emit(kind, p),
         kind \notin {"run.started", "phase.changed"}
  PROVE  UNCHANGED <<announced, turns, turnThread, turnPhase>>
  BY DEF Emit

LEMMA TransitionPlan ==
  ASSUME NEW p, TransitionPhase(p), announced = phase
  PROVE  phase' = p /\ announced' = p /\ UNCHANGED <<turns, turnThread, turnPhase>>
  BY DEF TransitionPhase, Emit, stream

LEMMA PlanStep == ASSUME KeepsPhase PROVE EngineInv /\ PlanInv /\ [Next]_vars => PlanInv'
<1> SUFFICES ASSUME EngineInv, PlanInv, [Next]_vars
             PROVE  PlanInv'
  OBVIOUS
<1>0. /\ turns \in Nat /\ thread \in Nat /\ turnThread \in Nat /\ st \in PolicyState
      /\ turnPhase \in Phases \cup {NoPhase}
  BY DEF EngineInv, TypeInv, TypeOK
<1>i. Told /\ Threaded
  BY DEF PlanInv
<1>1. ASSUME Begin PROVE PlanInv'
  BY <1>i, <1>1 DEF Begin, Emit, control, policyVars, threads, PlanInv, Told, Threaded
<1>2. ASSUME BeginTerminal PROVE PlanInv'
  <2>1. CASE st.directive = "complete"
    BY <1>i, <1>2, <2>1 DEF BeginTerminal, Emit, control, policyVars, threads, PlanInv, Told, Threaded
  <2>2. CASE st.directive # "complete"
    BY <1>2, <2>2, FinishPlan DEF BeginTerminal, Fail, Terminals
  <2>3. QED BY <2>1, <2>2
<1>3. ASSUME LoopExhausted \/ LoopInterrupted \/ LoopNotRunnable \/ ThreadFailed \/ RunInterrupted
             \/ RetryExhausted \/ Unsupported \/ CompactFailed \/ WaitFailed
      PROVE  PlanInv'
  <2>1. pc # "begin" /\ UNCHANGED control
    BY <1>3 DEF LoopExhausted, LoopInterrupted, LoopNotRunnable, Proceeding, AtHead, ThreadFailed, StartFails,
       RunInterrupted, RetryExhausted, Unsupported, CompactFailed, WaitFailed, Dispatch
  <2>2. \E s, n, by, err : \E kind \in Terminals : Finish(s, n, by, err, kind)
    BY <1>3 DEF LoopExhausted, LoopInterrupted, LoopNotRunnable, ThreadFailed, StartFails, RunInterrupted,
       RetryExhausted, Unsupported, CompactFailed, WaitFailed, Fail, Terminals
  <2>3. QED BY <2>1, <2>2, FinishPlan
<1>4. ASSUME LoopWait \/ Wait PROVE PlanInv'
  BY <1>i, <1>4, EmitPlan DEF LoopWait, Wait, Proceeding, AtHead, Dispatch,
     control, policyVars, threads, PlanInv, Told, Threaded
<1>5. ASSUME LoopTurn PROVE PlanInv'
  BY <1>0, <1>i, <1>5, EmitPlan DEF LoopTurn, Proceeding, AtHead, NeedsThread,
     policyVars, stream, PlanInv, Told, Threaded
<1>6. ASSUME ThreadStarted PROVE PlanInv'
  BY <1>0, <1>i, <1>6, EmitPlan DEF ThreadStarted, NeedsThread, policyVars, PlanInv, Told, Threaded
<1>7. ASSUME TurnStarted PROVE PlanInv'
  BY <1>0, <1>i, <1>7 DEF TurnStarted, EmitTurnStarted, control, policyVars, threads,
     PlanInv, Told, Threaded
<1>8. ASSUME TurnDelta \/ WaitResolved \/ RunCompleted PROVE PlanInv'
  BY <1>i, <1>8, EmitPlan DEF TurnDelta, WaitResolved, RunCompleted,
     control, policyVars, threads, PlanInv, Told, Threaded
<1>9. ASSUME TurnInterrupted PROVE PlanInv'
  BY <1>i, <1>9 DEF TurnInterrupted, InterruptedBy, EndTurn, control, policyVars, threads, PlanInv, Told, Threaded
<1>10. ASSUME TurnDecided PROVE PlanInv'
  <2>1. PICK o \in TurnOutcome : \E d \in AfterTurn(st, o) :
           st' = d.state /\ dir' = d.directive /\ EndTurn(d.directive)
    BY <1>10 DEF TurnDecided, DecidedAfter
  <2>2. PICK d \in AfterTurn(st, o) : st' = d.state /\ dir' = d.directive /\ EndTurn(d.directive)
    BY <2>1
  <2>3. dir' \in {"retry", "compact"} => st'.phase = st.phase
    BY <1>0, <2>2 DEF KeepsPhase
  <2>4. UNCHANGED <<announced, turns, turnThread, turnPhase>>
    BY <2>2 DEF EndTurn
  <2>5. QED
    BY <1>i, <1>10, <2>3, <2>4 DEF TurnDecided, DecidedAfter, threads, PlanInv, Told, Threaded
<1>11. ASSUME Proceed \/ Complete PROVE PlanInv'
  BY <1>i, <1>11, TransitionPlan DEF Proceed, Complete, Dispatch, policyVars, threads,
     PlanInv, Told, Threaded
<1>12. ASSUME Retry \/ Compact \/ Compacted PROVE PlanInv'
  <2>1. CASE Retry
    BY <1>i, <2>1 DEF Retry, Dispatch, threads, stream, PlanInv, Told, Threaded
  <2>2. CASE Compact
    BY <1>i, <2>2 DEF Compact, Dispatch, control, policyVars, threads, stream, PlanInv, Told, Threaded
  <2>3. CASE Compacted
    BY <1>i, <2>3 DEF Compacted, threads, stream, PlanInv, Told, Threaded
  <2>4. QED BY <1>12, <2>1, <2>2, <2>3
<1>13. ASSUME Resume PROVE PlanInv'
  <2>1. PICK s : st' = s /\ TransitionPhase(s.phase)
    BY <1>13 DEF Resume
  <2>2. QED
    BY <1>i, <1>13, <2>1, TransitionPlan DEF Resume, threads, PlanInv, Told, Threaded
<1>14. ASSUME Cancel \/ UNCHANGED vars PROVE PlanInv'
  BY <1>i, <1>14 DEF Cancel, vars, control, policyVars, threads, stream, PlanInv, Told, Threaded, NeedsThread
<1>15. QED
  BY <1>1, <1>2, <1>3, <1>4, <1>5, <1>6, <1>7, <1>8, <1>9, <1>10, <1>11, <1>12, <1>13, <1>14
     DEF Next, Step, Head, Turn, Directive, Waiting

(* The turns are raised by TurnStarted alone. *)
LEMMA OnlyTurnStarts ==
  ASSUME EngineInv, [Next]_vars, turns' > turns
  PROVE  TurnStarted
<1>0. turns \in Nat /\ ~(turns > turns)
  BY DEF EngineInv, TypeInv, TypeOK
<1> SUFFICES ASSUME ~TurnStarted PROVE turns' = turns
  BY <1>0
<1>1. ASSUME Begin \/ BeginTerminal \/ Head PROVE turns' = turns
  BY <1>1 DEF Begin, BeginTerminal, Head, LoopExhausted, LoopInterrupted, LoopWait, LoopNotRunnable,
     LoopTurn, Fail, Finish, Emit, stream
<1>2. ASSUME Turn PROVE turns' = turns
  BY <1>2 DEF Turn, ThreadStarted, ThreadFailed, StartFails, TurnDelta, TurnInterrupted, InterruptedBy, RunInterrupted,
     TurnDecided, DecidedAfter, EndTurn, Fail, Finish, Emit
<1>3. ASSUME Directive PROVE turns' = turns
  BY <1>3 DEF Directive, Proceed, Complete, RunCompleted, Retry, RetryExhausted, Unsupported,
     Compact, Compacted, CompactFailed, Wait, TransitionPhase, Fail, Finish, Emit, stream
<1>4. ASSUME Waiting \/ Cancel \/ UNCHANGED vars PROVE turns' = turns
  BY <1>4 DEF Waiting, WaitFailed, WaitResolved, Resume, Cancel, vars, TransitionPhase, Fail,
     Finish, Emit, stream
<1>5. QED
  BY <1>1, <1>2, <1>3, <1>4 DEF Next, Step

PlannedTurn ==
    turns' > turns =>
      /\ turnPhase' = announced
      /\ turns > 0 /\ turnPhase' = turnPhase => turnThread' = turnThread
      /\ turns > 0 /\ turnPhase' # turnPhase /\ st.mode = "new" => turnThread' # turnThread

LEMMA PlannedStep == EngineInv /\ PlanInv /\ [Next]_vars => [PlannedTurn]_vars
<1> SUFFICES ASSUME EngineInv, PlanInv, [Next]_vars, turns' > turns
             PROVE  PlannedTurn
  BY DEF PlannedTurn
<1>1. TurnStarted
  BY OnlyTurnStarts
<1>2. QED
  BY <1>1 DEF TurnStarted, EmitTurnStarted, PlanInv, Told, Threaded, PlannedTurn

(* Every turn runs in the phase its observers were told of, on the thread  *)
(* its plan asks for, whatever retries, waits and compactions lie between. *)
THEOREM PlanFollowed == ASSUME KeepsPhase PROVE Spec => TurnsFollowPlan
<1>1. EngineInv /\ PlanInv /\ [Next]_vars => PlanInv'
  BY PlanStep
<1>2. EngineInv /\ PlanInv /\ [Next]_vars
        => [turns' > turns =>
              /\ turnPhase' = announced
              /\ turns > 0 /\ turnPhase' = turnPhase => turnThread' = turnThread
              /\ turns > 0 /\ turnPhase' # turnPhase /\ st.mode = "new" => turnThread' # turnThread]_vars
  BY PlannedStep DEF PlannedTurn
<1>3. QED
  BY <1>1, <1>2, PlanInit, Invariance, PTL DEF Spec, TurnsFollowPlan

-----------------------------------------------------------------------------
(* The engine implements the contract of a run. *)
LEMMA ContractInit == Init => Contract!Init
<1> SUFFICES ASSUME Init PROVE Contract!Init
  OBVIOUS
<1>1. Stage = "idle" /\ Fails = 0 /\ Outcome = "none"
  BY DEF Init, Stage, StageAt, Fails, RetryJustDecided, Outcome
<1>2. QED
  BY <1>1 DEF Init, Contract!Init

(* A return of run is an End of the contract. *)
LEMMA ContractEnd ==
  ASSUME EngineInv, NEW s, NEW n, NEW by, NEW err, NEW kind, Finish(s, n, by, err, kind),
         UNCHANGED control, pc # "done",
         by = "max_retry" <=> RetryJustDecided
  PROVE  Stage' = "ended" /\ Outcome' = s /\ UNCHANGED <<turns, Fails, verdict>>
<1>1. pc' = "done" /\ status' = s /\ exhaustedBy' = by /\ UNCHANGED <<turns, verdict, retries, dir>>
  BY DEF Finish, Emit, control, policyVars, counters
<1>2. exhaustedBy # "max_retry"
  BY DEF EngineInv, Budgeted
<1>3. QED
  BY <1>1, <1>2 DEF Stage, StageAt, Outcome, Fails, RetryJustDecided

LEMMA ContractStep == EngineInv /\ [Next]_vars => [Contract!Next]_(Contract!contractVars)
<1> SUFFICES ASSUME EngineInv, [Next]_vars
             PROVE  [Contract!Next]_(Contract!contractVars)
  OBVIOUS
<1> USE EngineAssumption
<1> DEFINE Frame == UNCHANGED canceled
<1> DEFINE Goal == [Contract!Next]_(Contract!contractVars)
<1>0. /\ iterations \in Nat /\ turns \in Nat /\ retries \in Nat
      /\ MaxIter \in Nat /\ MaxRetry \in Nat
      /\ dir \in Directives \cup {"none"} /\ verdict \in Directives \cup {"none"}
  BY DEF EngineInv, TypeInv, TypeOK
<1>i. Counted /\ Reported /\ Bracketed /\ Budgeted
  BY DEF EngineInv
<1>1. ASSUME Begin, Frame PROVE Goal
  <2>1. Stage = "idle" /\ Stage' = "ready" /\ UNCHANGED <<turns, Fails, verdict, Outcome>>
    BY <1>i, <1>1 DEF Begin, Emit, control, policyVars, counters, summary, Stage, StageAt, RetryJustDecided, Fails, Outcome
  <2>2. QED BY <2>1 DEF Contract!Next, Contract!Begin
<1>2. ASSUME BeginTerminal, Frame PROVE Goal
  <2>1. CASE st.directive = "complete"
    <3>1. Stage = "ready" /\ Stage' = "ended" /\ Outcome' = "completed" /\ turns = 0
          /\ UNCHANGED <<turns, Fails, verdict>>
      BY <1>i, <1>2, <2>1 DEF BeginTerminal, Emit, control, policyVars, counters,
         Stage, StageAt, RetryJustDecided, Fails, Outcome, Counted
    <3>2. QED BY <3>1 DEF Contract!Next, Contract!End, Contract!EndCompleted
  <2>2. CASE st.directive # "complete"
    <3>1. Stage = "ready" /\ Stage' = "ended" /\ Outcome' = "failed"
          /\ UNCHANGED <<turns, Fails, verdict>>
      BY <1>2, <2>2, ContractEnd DEF BeginTerminal, Fail, Stage, StageAt, RetryJustDecided
    <3>2. QED BY <3>1 DEF Contract!Next, Contract!End, Contract!EndFailed
  <2>3. QED BY <2>1, <2>2
<1>3. ASSUME LoopExhausted \/ LoopInterrupted \/ LoopNotRunnable, Frame PROVE Goal
  <2>1. Stage = "ready" /\ pc # "done" /\ ~RetryJustDecided /\ turns = iterations
    BY <1>i, <1>3 DEF LoopExhausted, LoopInterrupted, LoopNotRunnable, Proceeding, AtHead,
       Stage, StageAt, RetryJustDecided, Counted
  <2>2. CASE LoopExhausted
    <3>1. turns >= MaxIter
      BY <2>1, <2>2 DEF LoopExhausted
    <3>2. Stage' = "ended" /\ Outcome' = "exhausted" /\ UNCHANGED <<turns, Fails, verdict>>
      BY <2>1, <2>2, ContractEnd DEF LoopExhausted
    <3>3. QED BY <2>1, <3>1, <3>2 DEF Contract!Next, Contract!End, Contract!EndExhausted
  <2>3. CASE LoopInterrupted
    <3>1. Stage' = "ended" /\ Outcome' = "interrupted" /\ UNCHANGED <<turns, Fails, verdict>>
      BY <2>1, <2>3, ContractEnd DEF LoopInterrupted
    <3>2. QED BY <2>1, <3>1 DEF Contract!Next, Contract!End, Contract!EndInterrupted
  <2>4. CASE LoopNotRunnable
    <3>1. Stage' = "ended" /\ Outcome' = "failed" /\ UNCHANGED <<turns, Fails, verdict>>
      BY <2>1, <2>4, ContractEnd DEF LoopNotRunnable, Fail
    <3>2. QED BY <2>1, <3>1 DEF Contract!Next, Contract!End, Contract!EndFailed
  <2>5. QED BY <1>3, <2>2, <2>3, <2>4
<1>4. ASSUME LoopWait \/ Wait, Frame PROVE Goal
  <2>1. /\ Stage = "ready" \/ (Stage = "deciding" /\ verdict = "wait")
        /\ Stage' = "waiting" /\ UNCHANGED <<turns, Fails, verdict, Outcome>>
    BY <1>i, <1>4 DEF LoopWait, Wait, Proceeding, AtHead, Dispatch, Emit, Report, control, policyVars, counters, summary,
       Stage, StageAt, RetryJustDecided, Fails, Outcome, Bracketed
  <2>2. QED BY <2>1 DEF Contract!Next, Contract!EnterWait
<1>5. ASSUME LoopTurn \/ ThreadStarted, Frame PROVE Goal
  <2>1. UNCHANGED <<Stage, turns, Fails, verdict, Outcome>>
    BY <1>5 DEF LoopTurn, ThreadStarted, Proceeding, AtHead, Emit, policyVars, counters, summary, stream,
       Stage, StageAt, RetryJustDecided, Fails, Outcome
  <2>2. QED BY <2>1 DEF Contract!contractVars
<1>6. ASSUME ThreadFailed \/ CompactFailed \/ WaitFailed, Frame PROVE Goal
  <2>1. PICK n \in Nat, err \in Errors : Fail(n, err)
    BY <1>0, <1>i, <1>6 DEF ThreadFailed, StartFails, CompactFailed, WaitFailed, TurnsRun, Counted
  <2>2. /\ UNCHANGED control /\ pc # "done" /\ ~RetryJustDecided
        /\ Stage \in {"ready", "compacting", "waiting"}
    BY <1>6 DEF ThreadFailed, StartFails, CompactFailed, WaitFailed, Stage, StageAt, RetryJustDecided
  <2>3. Stage' = "ended" /\ Outcome' = "failed" /\ UNCHANGED <<turns, Fails, verdict>>
    BY <2>1, <2>2, ContractEnd DEF Fail
  <2>4. QED BY <2>2, <2>3 DEF Contract!Next, Contract!End, Contract!EndFailed
<1>7. ASSUME TurnStarted, Frame PROVE Goal
  <2>1. Stage = "ready" /\ Stage' = "turn" /\ turns < MaxIter
    BY <1>0, <1>i, <1>7 DEF TurnStarted, Stage, StageAt, Counted
  <2>2. turns' = turns + 1 /\ UNCHANGED <<Fails, verdict, Outcome>>
    BY <1>7 DEF TurnStarted, EmitTurnStarted, control, policyVars, counters, Stage, StageAt, RetryJustDecided, Fails, Outcome
  <2>3. QED BY <2>1, <2>2 DEF Contract!Next, Contract!StartTurn
<1>8. ASSUME TurnDelta \/ WaitResolved, Frame PROVE Goal
  <2>1. UNCHANGED <<Stage, turns, Fails, verdict, Outcome>>
    BY <1>8 DEF TurnDelta, WaitResolved, Emit, control, policyVars, counters, summary, Stage, StageAt, RetryJustDecided, Fails, Outcome
  <2>2. QED BY <2>1 DEF Contract!contractVars
<1>9. ASSUME TurnInterrupted, Frame PROVE Goal
  <2>1. /\ Stage = "turn" /\ Stage' = "deciding"
        /\ verdict' = "unsupported" /\ UNCHANGED <<turns, Fails, Outcome>>
    BY <1>9 DEF TurnInterrupted, InterruptedBy, EndTurn, control, policyVars, counters, summary, Stage, StageAt, RetryJustDecided, Fails, Outcome
  <2>2. QED BY <2>1 DEF Contract!Next, Contract!FinishTurn, Contract!Verdicts
<1>10. ASSUME TurnDecided, Frame PROVE Goal
  <2>1. PICK o \in TurnOutcome : \E d \in AfterTurn(st, o) :
           dir' = d.directive /\ EndTurn(d.directive)
    BY <1>10 DEF TurnDecided, DecidedAfter
  <2>2. PICK d \in PolicyDecision : dir' = d.directive /\ EndTurn(d.directive)
    BY <2>1 DEF EngineInv, TypeInv, TypeOK
  <2>3. dir' \in Directives /\ dir' = verdict'
    BY <2>2 DEF PolicyDecision, EndTurn
  <2>5. /\ Stage = "turn" /\ Stage' = "deciding" /\ UNCHANGED <<turns, Outcome>>
        /\ Fails' = IF verdict' = "retry" THEN Fails + 1 ELSE Fails
    BY <1>0, <1>i, <1>10, <2>2 DEF TurnDecided, DecidedAfter, EndTurn, counters, Stage, StageAt, RetryJustDecided, Fails, Outcome, Budgeted
  <2>6. QED BY <2>3, <2>5 DEF Contract!Next, Contract!FinishTurn, Contract!Verdicts,
            Contract!Progress, Directives
<1>11. ASSUME Proceed, Frame PROVE Goal
  <2>1. /\ Stage = "deciding" /\ Stage' = "ready" /\ verdict \in {"continue", "advance_phase"}
        /\ Fails' = 0 /\ UNCHANGED <<turns, verdict, Outcome>>
    BY <1>i, <1>11 DEF Proceed, Dispatch, Report, TransitionPhase, Emit, stream, Stage, StageAt, RetryJustDecided, Fails, Outcome, Bracketed, Budgeted
  <2>2. QED BY <2>1 DEF Contract!Next, Contract!Continue, Contract!Progress
<1>12. ASSUME Retry, Frame PROVE Goal
  <2>1. /\ Stage = "deciding" /\ Stage' = "ready" /\ verdict = "retry" /\ Fails <= MaxRetry
        /\ UNCHANGED <<turns, Fails, verdict, Outcome>>
    BY <1>0, <1>i, <1>12 DEF Retry, MayRetry, Dispatch, summary, stream, Stage, StageAt, RetryJustDecided, Fails, Outcome, Bracketed, Budgeted
  <2>2. QED BY <2>1 DEF Contract!Next, Contract!Continue
<1>13. ASSUME Complete, Frame PROVE Goal
  <2>1. UNCHANGED <<Stage, turns, Fails, verdict, Outcome>>
    BY <1>13 DEF Complete, Dispatch, TransitionPhase, Emit, policyVars, counters, stream, Stage, StageAt, RetryJustDecided, Fails, Outcome
  <2>2. QED BY <2>1 DEF Contract!contractVars
<1>14. ASSUME RunCompleted, Frame PROVE Goal
  <2>1. /\ Stage = "deciding" /\ Stage' = "ended" /\ verdict = "complete" /\ Outcome' = "completed"
        /\ UNCHANGED <<turns, Fails, verdict>>
    BY <1>i, <1>14 DEF RunCompleted, Emit, control, policyVars, counters, summary, Stage, StageAt, RetryJustDecided, Fails, Outcome, Bracketed, Reported
  <2>2. QED BY <2>1 DEF Contract!Next, Contract!End, Contract!EndCompleted
<1>15. ASSUME RunInterrupted, Frame PROVE Goal
  <2>1. Stage = "deciding" /\ verdict = "unsupported" /\ pc # "done" /\ ~RetryJustDecided
    BY <1>i, <1>15 DEF RunInterrupted, Stage, StageAt, RetryJustDecided, Bracketed
  <2>2. Stage' = "ended" /\ Outcome' = "interrupted" /\ UNCHANGED <<turns, Fails, verdict>>
    BY <1>15, <2>1, ContractEnd DEF RunInterrupted
  <2>3. QED BY <2>1, <2>2 DEF Contract!Next, Contract!End, Contract!EndInterrupted
<1>16. ASSUME RetryExhausted, Frame PROVE Goal
  <2>1. Stage = "deciding" /\ verdict = "retry" /\ Fails > MaxRetry /\ pc # "done" /\ RetryJustDecided
    BY <1>0, <1>i, <1>16 DEF RetryExhausted, MayRetry, Dispatch, Stage, StageAt, RetryJustDecided, Fails, Bracketed
  <2>2. Stage' = "ended" /\ Outcome' = "exhausted" /\ UNCHANGED <<turns, Fails, verdict>>
    BY <1>16, <2>1, ContractEnd DEF RetryExhausted
  <2>3. QED BY <2>1, <2>2 DEF Contract!Next, Contract!End, Contract!EndExhausted
<1>17. ASSUME Unsupported, Frame PROVE Goal
  <2>1. Stage = "deciding" /\ pc # "done" /\ ~RetryJustDecided
    BY <1>17 DEF Unsupported, Dispatch, Stage, StageAt, RetryJustDecided
  <2>2. Stage' = "ended" /\ Outcome' = "failed" /\ UNCHANGED <<turns, Fails, verdict>>
    BY <1>17, <2>1, ContractEnd DEF Unsupported, Fail
  <2>3. QED BY <2>1, <2>2 DEF Contract!Next, Contract!End, Contract!EndFailed
<1>18. ASSUME Compact, Frame PROVE Goal
  <2>1. /\ Stage = "deciding" /\ Stage' = "compacting" /\ verdict = "compact"
        /\ UNCHANGED <<turns, Fails, verdict, Outcome>>
    BY <1>i, <1>18 DEF Compact, Dispatch, control, policyVars, counters, summary, stream, Stage, StageAt, RetryJustDecided, Fails, Outcome, Bracketed
  <2>2. QED BY <2>1 DEF Contract!Next, Contract!EnterCompact
<1>19. ASSUME Compacted, Frame PROVE Goal
  <2>1. /\ Stage = "compacting" /\ Stage' = "ready"
        /\ UNCHANGED <<turns, Fails, verdict, Outcome>>
    BY <1>19 DEF Compacted, counters, summary, stream, Stage, StageAt, RetryJustDecided, Fails, Outcome
  <2>2. QED BY <2>1 DEF Contract!Next, Contract!LeaveCompact
<1>20. ASSUME Resume, Frame PROVE Goal
  <2>1. PICK s : TransitionPhase(s.phase)
    BY <1>20 DEF Resume
  <2>2. /\ Stage = "waiting" /\ Stage' = "ready"
        /\ Fails' \in {0, Fails} /\ UNCHANGED <<turns, verdict, Outcome>>
    BY <1>i, <1>20, <2>1 DEF Resume, TransitionPhase, Emit, stream, Stage, StageAt, RetryJustDecided, Fails, Outcome, Budgeted
  <2>3. QED BY <2>2 DEF Contract!Next, Contract!LeaveWait
<1>21. ASSUME Cancel \/ UNCHANGED vars PROVE Goal
  <2>1. UNCHANGED <<Stage, turns, Fails, verdict, Outcome>>
    BY <1>21 DEF Cancel, vars, control, policyVars, counters, summary, stream, Stage, StageAt, RetryJustDecided, Fails, Outcome
  <2>2. QED BY <2>1 DEF Contract!contractVars
<1>22. QED
  BY <1>1, <1>2, <1>3, <1>4, <1>5, <1>6, <1>7, <1>8, <1>9, <1>10, <1>11, <1>12, <1>13,
     <1>14, <1>15, <1>16, <1>17, <1>18, <1>19, <1>20, <1>21
     DEF Next, Step, Head, Turn, Directive, Waiting

(* Whatever the policy and the runner do, the engine keeps the contract of *)
(* a run: its lifecycle, its limits and the meaning of its outcomes.       *)
THEOREM EngineKeepsContract == Spec => KeepsContract
  BY Invariance, ContractInit, ContractStep, PTL DEF Spec, KeepsContract, Contract!Spec

-----------------------------------------------------------------------------
(* Why a run ends: a measure of what it may still do, by the turns left and *)
(* the place in the loop.  It falls with every step of the engine but two:  *)
(* a turn that streams on, and a policy that is found waiting again after   *)
(* it was answered.                                                         *)
Left == [begin |-> 3, terminal |-> 1, loop |-> 2, start |-> 8, ready |-> 7, turn |-> 6,
         interrupted |-> 1, dispatch |-> 5, complete |-> 1, compact |-> 3,
         wait |-> 4, resolved |-> 3, done |-> 0]

Rank == 7 * (MaxIter - iterations) + Left[pc]

ComesNearer ==
    Step => \/ TurnDelta \/ LoopWait
            \/ Rank' < Rank

LEMMA RankNat == EngineInv => Rank \in Nat
<1> SUFFICES ASSUME EngineInv PROVE Rank \in Nat
  OBVIOUS
<1>1. iterations \in Nat /\ iterations <= MaxIter /\ MaxIter \in Nat /\ pc \in DOMAIN Left
  BY EngineAssumption DEF EngineInv, TypeInv, TypeOK, Counted, Left
<1>2. Left[pc] \in Nat
  BY <1>1 DEF Left
<1> QED BY <1>1, <1>2 DEF Rank

LEMMA NearerStep == EngineInv /\ Step => ComesNearer
<1> SUFFICES ASSUME EngineInv, Step, ~TurnDelta, ~LoopWait PROVE Rank' < Rank
  BY DEF ComesNearer
<1>0. iterations \in Nat /\ MaxIter \in Nat
  BY EngineAssumption DEF EngineInv, TypeInv, TypeOK
<1>1. ASSUME iterations' = iterations, pc' \in DOMAIN Left, pc \in DOMAIN Left, Left[pc'] < Left[pc]
      PROVE  Rank' < Rank
  <2>1. Left[pc] \in Nat /\ Left[pc'] \in Nat
    BY <1>1 DEF Left
  <2> QED BY <1>0, <1>1, <2>1 DEF Rank
<1> USE DEF control, counters
<1>2. CASE Begin
  <2>1. pc = "begin" /\ pc' \in {"terminal", "loop"} /\ iterations' = iterations
    BY <1>2 DEF Begin
  <2> QED BY <1>1, <2>1 DEF Left
<1>3. CASE LoopTurn
  <2>1. pc = "loop" /\ pc' \in {"start", "ready"} /\ iterations' = iterations + 1
    BY <1>3 DEF LoopTurn, Proceeding, AtHead
  <2>2. Left[pc] = 2 /\ Left[pc'] \in {7, 8}
    BY <2>1 DEF Left
  <2> QED BY <1>0, <2>1, <2>2 DEF Rank
<1>4. CASE BeginTerminal \/ LoopExhausted \/ LoopInterrupted \/ LoopNotRunnable \/ ThreadFailed
           \/ RunInterrupted \/ RunCompleted \/ RetryExhausted \/ Unsupported \/ CompactFailed \/ WaitFailed
  <2>1. pc' = "done" /\ iterations' = iterations
    BY <1>4 DEF BeginTerminal, LoopExhausted, LoopInterrupted, LoopNotRunnable, ThreadFailed, StartFails,
       RunInterrupted, RunCompleted, RetryExhausted, Unsupported, CompactFailed, WaitFailed, Fail, Finish
  <2>2. pc \in {"terminal", "loop", "start", "interrupted", "complete", "dispatch", "compact", "wait"}
    BY <1>4 DEF BeginTerminal, LoopExhausted, LoopInterrupted, LoopNotRunnable, Proceeding, AtHead,
       ThreadFailed, StartFails, RunInterrupted, RunCompleted, RetryExhausted, Unsupported, Dispatch,
       CompactFailed, WaitFailed
  <2> QED BY <1>1, <2>1, <2>2 DEF Left
<1>5. CASE ThreadStarted \/ TurnStarted
  <2>1. (pc = "start" /\ pc' = "ready") \/ (pc = "ready" /\ pc' = "turn")
    BY <1>5 DEF ThreadStarted, TurnStarted
  <2>2. iterations' = iterations
    BY <1>5 DEF ThreadStarted, TurnStarted
  <2> QED BY <1>1, <2>1, <2>2 DEF Left
<1>6. CASE TurnInterrupted \/ TurnDecided
  <2>1. pc = "turn" /\ pc' \in {"interrupted", "dispatch"} /\ iterations' = iterations
    BY <1>6 DEF TurnInterrupted, InterruptedBy, TurnDecided, DecidedAfter
  <2> QED BY <1>1, <2>1 DEF Left
<1>7. CASE Proceed \/ Complete \/ Retry \/ Compact \/ Wait
  <2>1. pc = "dispatch" /\ pc' \in {"loop", "complete", "compact", "wait"} /\ iterations' = iterations
    BY <1>7 DEF Proceed, Complete, Retry, Compact, Wait, Dispatch
  <2> QED BY <1>1, <2>1 DEF Left
<1>8. CASE Compacted \/ WaitResolved \/ Resume
  <2>1. /\ iterations' = iterations
        /\ \/ pc \in {"compact", "resolved"} /\ pc' = "loop"
           \/ pc = "wait" /\ pc' = "resolved"
    BY <1>8 DEF Compacted, WaitResolved, Resume
  <2> QED BY <1>1, <2>1 DEF Left
<1> QED BY <1>2, <1>3, <1>4, <1>5, <1>6, <1>7, <1>8
        DEF Step, Head, Turn, Directive, Waiting

(* For every policy and limit, the engine cannot go round: a run whose      *)
(* policy is never found still waiting takes at most 7 * MaxIter + 3 steps, *)
(* beside those that pass on what its turns stream.                         *)
THEOREM RunComesNearer == Spec => [](Rank \in Nat) /\ [][ComesNearer]_vars
<1>1. Spec => []EngineInv
  BY Invariance
<1>2. EngineInv => Rank \in Nat
  BY RankNat
<1>3. EngineInv => [ComesNearer]_vars
  BY NearerStep DEF ComesNearer
<1>4. QED
  BY <1>1, <1>2, <1>3, PTL
=============================================================================
