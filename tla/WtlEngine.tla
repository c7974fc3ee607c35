----------------------------- MODULE WtlEngine -----------------------------
(***************************************************************************)
(* The loop of the WhatTheLoop engine: engine.run and the helpers it calls *)
(* (ensureThread, resolveWait, transitionPhase, emit) of                   *)
(* src/internal/wtl/engine.go.                                             *)
(*                                                                         *)
(* The engine drives a turn runner under the directives of a policy and    *)
(* reports every lifecycle event to its observers.  Each action below is   *)
(* the code between two points another party can notice: an event handed   *)
(* to the observers, or a blocking call (runner.Start, runner.RunTurn,     *)
(* Compact, waitHandler) that the cancellation of the context may race.    *)
(*                                                                         *)
(* The policy is a parameter, as it is in the code (type policy): its      *)
(* three methods are operators that return the set of answers it may give. *)
(***************************************************************************)
EXTENDS Naturals

CONSTANTS
    MaxIter,            \* engine.maxIter
    MaxRetry,           \* engine.maxRetry
    Phases,             \* the phase names a policy uses
    Initialize,         \* the states policy.Initialize may return
    AfterTurn(_, _),    \* the decisions policy.AfterTurn may return
    OnWaitResolved(_),  \* the states of the decisions of policy.OnWaitResolved
    HasWaitHandler,     \* engine.waitHandler # nil
    CanCompact          \* the runner implements threadCompactor

Directives == {"continue", "wait", "retry", "compact", "advance_phase",
               "complete", "unsupported"}

(* policyState, with the parts of its plan that steer the engine. *)
PolicyState == [runnable : BOOLEAN, waiting : BOOLEAN, terminal : BOOLEAN,
                directive : Directives, phase : Phases, mode : {"reuse", "new"}]

PolicyDecision == [directive : Directives, state : PolicyState]

Errors == {"none", "canceled", "other"}

(* turnOutcome: what RunTurn returned.  marker is whether the response     *)
(* contains the completion marker.                                         *)
TurnOutcome == [status : {"completed", "failed", "interrupted", ""},
                err : Errors, marker : BOOLEAN]

ASSUME EngineAssumption ==
    /\ MaxIter \in Nat
    /\ MaxRetry \in Nat
    /\ Initialize \subseteq PolicyState
    /\ \A s \in PolicyState, o \in TurnOutcome : AfterTurn(s, o) \subseteq PolicyDecision
    /\ \A s \in PolicyState : OnWaitResolved(s) \subseteq PolicyState
    /\ HasWaitHandler \in BOOLEAN
    /\ CanCompact \in BOOLEAN

VARIABLES
    pc,           \* where run is
    st,           \* state: the policy state in force
    dir,          \* the directive being carried out ("none" at the loop head)
    iterations,   \* turns begun
    retries,      \* retry directives since the last progress
    thread,       \* activeThreadID: 0 before the first, then 1, 2, ...
    threadPhase,  \* activeThreadPhase
    phase,        \* engine.phase
    canceled,     \* ctx is done
    status, reported, exhaustedBy, lastDirective, lastError, runThread,
                  \* runSummary: Status, Iterations, ..., ThreadID
    last, open, turns, turnThread, turnPhase, announced, streak, verdict, ended
                  \* what the observers have learnt so far (history, see below)

policyVars == <<st, dir>>
counters   == <<iterations, retries>>
threads    == <<thread, threadPhase>>
summary    == <<status, reported, exhaustedBy, lastDirective, lastError,
                runThread>>
stream     == <<last, open, turns, turnThread, turnPhase, announced, streak,
                verdict, ended>>
control    == <<policyVars, counters, threads, phase>>
vars == <<pc, control, canceled, summary, stream>>

-----------------------------------------------------------------------------
(* The event stream, as what a reader of it knows after each event: the    *)
(* last event, the bracket it leaves open (a turn or a wait), the number   *)
(* of turns started, the thread and phase of the last one, the last phase  *)
(* announced, how many turns in a row ended in a retry, the directive the  *)
(* last turn ended with, and the terminal event.                           *)

Terminals == {"run.completed", "run.exhausted", "run.interrupted", "run.failed"}

Kinds == {"run.started", "phase.changed", "thread.started", "thread.reused",
          "turn.started", "turn.delta", "turn.finished", "run.wait_entered",
          "run.wait_resolved"} \cup Terminals

NoPhase == "none"

(* emit: every event but turn.started and turn.finished. *)
Emit(kind, p) ==
    /\ last' = kind
    /\ announced' = IF kind \in {"run.started", "phase.changed"} THEN p ELSE announced
    /\ open' = IF kind = "run.wait_entered" THEN "wait"
               ELSE IF kind = "run.wait_resolved" THEN "none" ELSE open
    /\ ended' = IF kind \in Terminals THEN kind ELSE ended
    /\ UNCHANGED <<turns, turnThread, turnPhase, streak, verdict>>

EmitTurnStarted ==
    /\ last' = "turn.started"
    /\ open' = "turn"
    /\ turns' = turns + 1
    /\ turnThread' = thread
    /\ turnPhase' = st.phase
    /\ UNCHANGED <<announced, streak, verdict, ended>>

(* Mutant: an event that is never sent. *)
SilentTurnEnd(d) == UNCHANGED stream

(* transitionPhase: tell the observers only of a phase that differs. *)
TransitionPhase(next) ==
    /\ phase' = next
    /\ IF next = phase THEN UNCHANGED stream ELSE Emit("phase.changed", next)

EndTurn(d) ==
    /\ last' = "turn.finished"
    /\ open' = "none"
    /\ verdict' = d
    /\ streak' = IF d = "retry" THEN streak + 1 ELSE IF d = "compact" THEN streak ELSE 0
    /\ UNCHANGED <<turns, turnThread, turnPhase, announced, ended>>

(* Every return of run: the status of the summary, and one terminal event. *)
Finish(s, n, by, err, kind) ==
    /\ status' = s
    /\ reported' = n
    /\ exhaustedBy' = by
    /\ lastError' = IF err = "none" THEN lastError ELSE err
    /\ UNCHANGED <<lastDirective, runThread>>
    /\ Emit(kind, phase)
    /\ pc' = "done"

Fail(n, err) == Finish("failed", n, "none", err, "run.failed")

-----------------------------------------------------------------------------
Init ==
    /\ pc = "begin"
    /\ st \in Initialize
    /\ dir = "none"
    /\ iterations = 0 /\ retries = 0
    /\ thread = 0 /\ threadPhase = NoPhase
    /\ phase = st.phase
    /\ canceled = FALSE
    /\ status = "none" /\ reported = 0 /\ exhaustedBy = "none"
    /\ lastDirective = "none" /\ lastError = "none" /\ runThread = 0
    /\ last = "none" /\ open = "none" /\ ended = "none" /\ verdict = "none"
    /\ turns = 0 /\ turnThread = 0 /\ streak = 0
    /\ turnPhase = NoPhase /\ announced = NoPhase

(* engine.run, before the loop. *)
Begin ==
    /\ pc = "begin"
    /\ pc' = IF st.terminal THEN "terminal" ELSE "loop"
    /\ Emit("run.started", phase)
    /\ UNCHANGED <<control, summary>>

(* The policy says there is nothing to do, or contradicts itself. *)
BeginTerminal ==
    /\ pc = "terminal"
    /\ IF st.directive = "complete"
       THEN /\ status' = "completed"
            /\ lastDirective' = "complete"
            /\ UNCHANGED <<reported, exhaustedBy, lastError, runThread>>
            /\ Emit("run.completed", phase)
            /\ pc' = "done"
       ELSE Fail(0, "other")
    /\ UNCHANGED control

-----------------------------------------------------------------------------
(* Mutants: a loop without its limit, a thread for every plan that says    *)
(* new, or reuse.                                                          *)
HeadWithoutLimit == pc = "loop"
NewThreadEachTurn == thread = 0 \/ st.mode = "new"
NewThreadToReuse == thread = 0 \/ st.mode = "reuse"

(* The head of the loop, for iterations < e.maxIter, and its first check,  *)
(* of ctx.Err().                                                           *)
AtHead == pc = "loop" /\ iterations < MaxIter

Proceeding == AtHead /\ ~canceled

LoopExhausted ==
    /\ pc = "loop" /\ iterations >= MaxIter
    /\ Finish("exhausted", MaxIter, "max_iter", "none", "run.exhausted")
    /\ UNCHANGED control

LoopInterrupted ==
    /\ AtHead /\ canceled
    /\ Finish("interrupted", iterations, "none", "none", "run.interrupted")
    /\ UNCHANGED control

LoopWait ==
    /\ Proceeding /\ st.waiting
    /\ Emit("run.wait_entered", st.phase)
    /\ pc' = "wait"
    /\ UNCHANGED <<control, summary>>

LoopNotRunnable ==
    /\ Proceeding /\ ~st.waiting /\ ~st.runnable
    /\ Fail(iterations, "other")
    /\ UNCHANGED control

(* iterations++ and ensureThread up to its call of runner.Start, if any. *)
NeedsThread == thread = 0 \/ (st.mode = "new" /\ threadPhase # st.phase)

LoopTurn ==
    /\ Proceeding /\ ~st.waiting /\ st.runnable
    /\ iterations' = iterations + 1
    /\ IF NeedsThread
       THEN /\ pc' = "start"
            /\ UNCHANGED <<threadPhase, stream>>
       ELSE /\ pc' = "ready"
            /\ threadPhase' = st.phase
            /\ Emit("thread.reused", st.phase)
    /\ UNCHANGED <<policyVars, retries, thread, phase, summary>>

-----------------------------------------------------------------------------
(* runner.Start returns; the server's thread ids are fresh. *)
ThreadStarted ==
    /\ pc = "start"
    /\ thread' = thread + 1
    /\ threadPhase' = st.phase
    /\ Emit("thread.started", st.phase)
    /\ pc' = "ready"
    /\ UNCHANGED <<policyVars, counters, phase, summary>>

(* A call of the runner or of the wait handler may return an error of its  *)
(* own, or that of the context once it is canceled.                        *)
CallError(err) == err = "other" \/ (err = "canceled" /\ canceled)

(* Mutants: the turn that could not start is counted, or taken off twice. *)
TurnsBegun == iterations
TurnsTakenOff == iterations - 2

TurnsRun == iterations - 1

StartFails(err) ==
    /\ pc = "start"
    /\ CallError(err) /\ Fail(TurnsRun, err)
    /\ UNCHANGED control

ThreadFailed == \E err \in Errors : StartFails(err)

TurnStarted ==
    /\ pc = "ready"
    /\ runThread' = thread
    /\ EmitTurnStarted
    /\ pc' = "turn"
    /\ UNCHANGED <<control, status, reported, exhaustedBy, lastDirective, lastError>>

(* The callback that RunTurn is given. *)
TurnDelta ==
    /\ pc = "turn"
    /\ Emit("turn.delta", st.phase)
    /\ UNCHANGED <<pc, control, summary>>

(* RunTurn returns: the run was interrupted, or the policy decides. *)
Interrupts(o) == o.err = "canceled" \/ o.status = "interrupted"

InterruptedBy(o) ==
    /\ pc = "turn"
    /\ o.err = "canceled" => canceled
    /\ Interrupts(o)
    /\ EndTurn("unsupported")
    /\ pc' = "interrupted"
    /\ UNCHANGED <<control, summary>>

TurnInterrupted == \E o \in TurnOutcome : InterruptedBy(o)

RunInterrupted ==
    /\ pc = "interrupted"
    /\ Finish("interrupted", iterations, "none", "none", "run.interrupted")
    /\ UNCHANGED control

DecidedAfter(o) ==
    /\ pc = "turn"
    /\ ~Interrupts(o)
    /\ \E d \in AfterTurn(st, o) :
         /\ st' = d.state
         /\ dir' = d.directive
         /\ lastDirective' = d.directive
         /\ lastError' = IF o.err = "none" THEN lastError ELSE o.err
         /\ EndTurn(d.directive)
    /\ pc' = "dispatch"
    /\ UNCHANGED <<counters, threads, phase, status, reported, exhaustedBy, runThread>>

TurnDecided == \E o \in TurnOutcome : DecidedAfter(o)

-----------------------------------------------------------------------------
(* switch decision.Directive *)
Dispatch(d) == pc = "dispatch" /\ dir = d

Report == /\ reported' = iterations
          /\ UNCHANGED <<status, exhaustedBy, lastDirective, lastError, runThread>>

Proceed ==
    /\ Dispatch("continue") \/ Dispatch("advance_phase")
    /\ retries' = 0
    /\ Report
    /\ TransitionPhase(st.phase)
    /\ pc' = "loop" /\ dir' = "none"
    /\ UNCHANGED <<threads, st, iterations>>

Complete ==
    /\ Dispatch("complete")
    /\ status' = "completed"
    /\ reported' = iterations
    /\ UNCHANGED <<exhaustedBy, lastDirective, lastError, runThread>>
    /\ TransitionPhase(st.phase)
    /\ pc' = "complete"
    /\ UNCHANGED <<policyVars, counters, threads>>

RunCompleted ==
    /\ pc = "complete"
    /\ Emit("run.completed", phase)
    /\ pc' = "done"
    /\ UNCHANGED <<control, summary>>

(* Mutant: one retry more than the limit. *)
RetryOnceMore == retries <= MaxRetry

MayRetry == retries < MaxRetry

Retry ==
    /\ Dispatch("retry") /\ MayRetry
    /\ retries' = retries + 1
    /\ pc' = "loop" /\ dir' = "none"
    /\ UNCHANGED <<threads, st, iterations, phase, summary, stream>>

RetryExhausted ==
    /\ Dispatch("retry") /\ ~MayRetry
    /\ Finish("exhausted", iterations, "max_retry", "none", "run.exhausted")
    /\ UNCHANGED control

Unsupported ==
    /\ Dispatch("unsupported") \/ (Dispatch("compact") /\ ~CanCompact)
    /\ Fail(iterations, "other")
    /\ UNCHANGED control

Compact ==
    /\ Dispatch("compact") /\ CanCompact
    /\ pc' = "compact"
    /\ UNCHANGED <<control, summary, stream>>

(* compactor.Compact returns: no event and no counter records it. *)
Compacted ==
    /\ pc = "compact"
    /\ pc' = "loop" /\ dir' = "none"
    /\ UNCHANGED <<counters, threads, st, phase, summary, stream>>

CompactFailed ==
    /\ pc = "compact"
    /\ \E err \in Errors : CallError(err) /\ Fail(iterations, err)
    /\ UNCHANGED control

Wait ==
    /\ Dispatch("wait")
    /\ Report
    /\ Emit("run.wait_entered", st.phase)
    /\ pc' = "wait"
    /\ UNCHANGED control

-----------------------------------------------------------------------------
(* resolveWait, after run.wait_entered.  The policy sees a state that is   *)
(* waiting whatever it was before.                                         *)
WaitingState == [st EXCEPT !.waiting = TRUE, !.runnable = FALSE,
                           !.directive = "wait"]

WaitFailed ==
    /\ pc = "wait"
    /\ \E err \in Errors :
         /\ IF HasWaitHandler THEN CallError(err) ELSE err = "other"
         /\ Fail(iterations, err)
    /\ UNCHANGED control

WaitResolved ==
    /\ pc = "wait" /\ HasWaitHandler
    /\ Emit("run.wait_resolved", st.phase)
    /\ pc' = "resolved"
    /\ UNCHANGED <<control, summary>>

(* Mutant: the answered wait is forgotten. *)
ForgottenAnswer ==
    /\ pc = "resolved"
    /\ pc' = "loop" /\ dir' = "none"
    /\ UNCHANGED <<counters, threads, st, phase, summary, stream>>

(* The policy's answer; retries only restart when a directive asked to     *)
(* wait, not when the loop found the state still waiting.                  *)
Resume ==
    /\ pc = "resolved"
    /\ \E s \in OnWaitResolved(WaitingState) :
         /\ st' = s
         /\ TransitionPhase(s.phase)
    /\ retries' = IF dir = "wait" THEN 0 ELSE retries
    /\ pc' = "loop" /\ dir' = "none"
    /\ UNCHANGED <<threads, iterations, status, reported, exhaustedBy, lastDirective,
                   lastError, runThread>>

(* The owner of the context: Ctrl+C, or a deadline. *)
Cancel == /\ ~canceled
          /\ pc # "done"
          /\ canceled' = TRUE
          /\ UNCHANGED <<pc, control, summary, stream>>

-----------------------------------------------------------------------------
Head == LoopExhausted \/ LoopInterrupted \/ LoopWait \/ LoopNotRunnable \/ LoopTurn

Turn == ThreadStarted \/ ThreadFailed \/ TurnStarted \/ TurnDelta
        \/ TurnInterrupted \/ RunInterrupted \/ TurnDecided

Directive == Proceed \/ Complete \/ RunCompleted \/ Retry \/ RetryExhausted
             \/ Unsupported \/ Compact \/ Compacted \/ CompactFailed \/ Wait

Waiting == WaitFailed \/ WaitResolved \/ Resume

Step == Begin \/ BeginTerminal \/ Head \/ Turn \/ Directive \/ Waiting

Next == (Step /\ UNCHANGED canceled) \/ Cancel

Spec == Init /\ [][Next]_vars

-----------------------------------------------------------------------------
(* Where the engine can be, and what it holds there. *)
TypeOK ==
    /\ pc \in {"begin", "terminal", "loop", "start", "ready", "turn",
               "interrupted", "dispatch", "complete", "compact", "wait",
               "resolved", "done"}
    /\ st \in PolicyState
    /\ dir \in Directives \cup {"none"}
    /\ iterations \in Nat
    /\ retries \in Nat
    /\ thread \in Nat
    /\ threadPhase \in Phases \cup {NoPhase}
    /\ phase \in Phases
    /\ canceled \in BOOLEAN
    /\ status \in {"none", "completed", "exhausted", "interrupted", "failed"}
    /\ reported \in Nat
    /\ exhaustedBy \in {"none", "max_iter", "max_retry"}
    /\ lastDirective \in Directives \cup {"none"}
    /\ lastError \in Errors
    /\ runThread \in Nat
    /\ last \in Kinds \cup {"none"}
    /\ open \in {"none", "turn", "wait"}
    /\ turns \in Nat
    /\ turnThread \in Nat
    /\ turnPhase \in Phases \cup {NoPhase}
    /\ announced \in Phases \cup {NoPhase}
    /\ streak \in Nat
    /\ verdict \in Directives \cup {"none"}
    /\ ended \in Terminals \cup {"none"}

(* The JSON summary and the event stream are two reports of one run, put   *)
(* together on different return paths of engine.run: when the run is over  *)
(* they name the same outcome and the same number of turns, and before     *)
(* that neither names an outcome.                                          *)
TerminalOf == [completed |-> "run.completed", exhausted |-> "run.exhausted",
               interrupted |-> "run.interrupted", failed |-> "run.failed"]

SummaryMatchesStream ==
    /\ pc = "done" => /\ status # "none"
                      /\ ended = TerminalOf[status]
                      /\ reported = turns
                      /\ runThread = turnThread
                      /\ status = "completed" => lastDirective = "complete"
    /\ pc # "done" => ended = "none"

(* The observer contract across the whole loop: run.started comes first,   *)
(* nothing follows a terminal event, turns and waits open and close        *)
(* without overlapping, and a run ends inside an open turn never, inside   *)
(* an open wait only by failing.                                           *)
StreamStep ==
    /\ (last = "none") <=> (last' = "run.started")
    /\ ended = "none"
    /\ open' # open => "none" \in {open, open'}
    /\ last' = "turn.started" => (open = "none" /\ turns' = turns + 1)
    /\ last' = "turn.finished" => open = "turn"
    /\ last' = "run.wait_entered" => open = "none"
    /\ last' = "run.wait_resolved" => open = "wait"
    /\ ended' # "none" =>
         open = "none" \/ (open = "wait" /\ ended' = "run.failed")

StreamWellFormed == [][StreamStep]_stream

(* The retry budget: however retries mix with compactions and waits, no    *)
(* more than MaxRetry + 1 turns in a row end in a retry, the run goes on   *)
(* while the budget lasts, and it is given up as exhausted by max_retry    *)
(* only once the budget is really spent.                                   *)
RetryBudget ==
    /\ streak <= MaxRetry + 1
    /\ streak = MaxRetry + 1 => pc \in {"dispatch", "done"}
    /\ exhaustedBy = "max_retry" => streak = MaxRetry + 1

(* A turn runs where its plan wants it: in the phase observers were last    *)
(* told of, on the thread of the turn before if that was of the same phase, *)
(* whatever retries, waits and compactions lie between them, and on another *)
(* if its plan asks for a new thread in a new phase.                        *)
TurnsFollowPlan ==
    [][turns' > turns =>
         /\ turnPhase' = announced
         /\ turns > 0 /\ turnPhase' = turnPhase => turnThread' = turnThread
         /\ turns > 0 /\ turnPhase' # turnPhase /\ st.mode = "new" => turnThread' # turnThread]_vars

-----------------------------------------------------------------------------
(* The run as the contract describes it. *)
StageAt == [begin |-> "idle",
            terminal |-> "ready", loop |-> "ready", start |-> "ready", ready |-> "ready",
            turn |-> "turn",
            interrupted |-> "deciding", dispatch |-> "deciding", complete |-> "deciding",
            compact |-> "compacting",
            wait |-> "waiting", resolved |-> "waiting",
            done |-> "ended"]

Stage == StageAt[pc]

RetryJustDecided == pc = "dispatch" /\ dir = "retry"

Fails == IF RetryJustDecided \/ exhaustedBy = "max_retry"
         THEN retries + 1 ELSE retries

Outcome == IF pc = "done" THEN status ELSE "none"

Contract == INSTANCE WtlContract WITH
    stage <- Stage,
    turns <- turns,
    fails <- Fails,
    verdict <- verdict,
    outcome <- Outcome

(* The engine keeps the contract of the run: the lifecycle of the          *)
(* specification, with its limits, whatever the policy and the runner do.  *)
KeepsContract == Contract!Spec

(* With calls that return and a policy that does not answer a wait with    *)
(* another wait, every run ends: waits do not count as iterations, and     *)
(* compactions count only because a turn comes between two of them.        *)
RunEnds == <>(pc = "done")

(* Every blocking call of the engine returns, whatever the turn streams.   *)
Fairness == /\ WF_vars(Step /\ UNCHANGED canceled)
            /\ WF_vars((TurnInterrupted \/ TurnDecided) /\ UNCHANGED canceled)

FairSpec == Spec /\ Fairness
=============================================================================
