----------------------------- MODULE GitImpact -----------------------------
(***************************************************************************)
(* git-impact analyze: Engine.Run of src/internal/gitimpact/engine.go with *)
(* its five phase handlers, the wait prompt and the progress screen, as    *)
(* runAnalyze* of src/cmd/git-impact/main.go puts them together.           *)
(*                                                                         *)
(* Two goroutines: the command's, which runs the engine, and the Bubble    *)
(* Tea program's, whose event loop owns the AnalysisModel.  The engine     *)
(* tells the program what happens with program.Send, a rendezvous with the *)
(* event loop; the command joins the program through runDone.  Bubble Tea, *)
(* the user, OneQuery and the Codex agent are external.                    *)
(***************************************************************************)
EXTENDS Naturals, Sequences, FiniteSets, SequencesExt

CONSTANTS
    MaxRetries,     \* Engine.MaxRetries (defaultMaxRetries, 3)
    MaxIterations,  \* bound: from this turn on the agent and the user decide
    AgentData,      \* data fields the agent's payloads may carry
    SourceKeys,     \* keys of OneQuery's sources, apart from their case
    MaxSources,     \* bound: sources OneQuery lists
    Faults          \* "tui": the program may fail; "calls": OneQuery, the
                    \* agent's start, its app-server and the prompt may fail

NoKey == ""

ASSUME GitImpactAssumption ==
    /\ NoKey \notin SourceKeys /\ MaxSources \in Nat
    /\ MaxRetries \in Nat \ {0}
    /\ MaxIterations \in Nat
    /\ AgentData \subseteq {"collected", "linked", "scored", "analysis"}
    /\ Faults \subseteq {"tui", "calls"}

PhaseOrder == <<"source_check", "collect", "link", "score", "report">>

Phases == 1 .. Len(PhaseOrder)

\* The PR set a piece of data is about: the one the collector fetched, or one
\* an agent's payload brought.
Origins == {"none", "collector", "agent"}

\* A listed source: its key, and what its provider's name says it is.
Sources == [key : SourceKeys, provider : SUBSET {"github", "analytics"}]

ConfiguredKeys == [github : SourceKeys \cup {NoKey}, analytics : SourceKeys \cup {NoKey}]

\* Who lets the run pass the source check.
Vouchers == {"nobody", "check", "user"}

Directives == {"advance_phase", "continue", "retry", "wait", "complete"}

VARIABLES
    tui,        \* text output on a terminal: the progress screen runs
    prompts,    \* stdin is a terminal: waits are asked at a prompt
    main,       \* where the command's goroutine is: "hung" in a call that
                \* never returns
    phase,      \* phaseIndex, 1-based
    iteration,  \* runCtx.Iteration
    retries,    \* consecutive retries of Run
    directive,  \* Directive of the last turn's result
    answer,     \* AnalysisCtx.LastWaitResponse, "empty" before the first
    collected, linked,  \* origin of runCtx.CollectedData, of LinkedData's PRs
    config,     \* Config.OneQuery.Sources
    run,        \* what Run returned: its cause, "none" while it runs
    shown,      \* what the command ended with: "none", "result" or "error"
    message,    \* the message program.Send offers
    inbox,      \* the message the event loop took, Update still to run
    program,    \* the progress program: its life
    screen,     \* the AnalysisModel
    misses,     \* history: retry directives since the last other directive
    supplied,   \* history: which of collected, linked the agent sent
    vouched     \* history: who let the source check pass

dataVars   == <<collected, linked, supplied>>
sourceVars == <<config, vouched>>
engineVars == <<phase, iteration, retries, directive, answer, dataVars, misses, sourceVars>>
tuiVars    == <<inbox, program, screen>>
terminals == <<tui, prompts>>
vars == <<terminals, main, engineVars, run, shown, message, tuiVars>>

Silence == [kind |-> "none"]

Init ==
    /\ tui \in BOOLEAN /\ prompts \in BOOLEAN
    /\ main = "build"
    /\ phase = 1 /\ iteration = 0 /\ retries = 0
    /\ directive = "none" /\ answer = "empty"
    /\ collected = "none" /\ linked = "none"
    /\ config \in ConfiguredKeys
    /\ run = "none" /\ shown = "none"
    /\ message = Silence /\ inbox = Silence
    /\ program = IF tui THEN "starting" ELSE "ended"
    /\ screen = [rows |-> [p \in Phases |-> "waiting"], phase |-> 0, turn |-> 0,
                 waiting |-> FALSE, done |-> FALSE, failed |-> FALSE]
    /\ misses = 0 /\ supplied = {} /\ vouched = "nobody"

-----------------------------------------------------------------------------
(* The observer.  program.Send blocks until the event loop takes the       *)
(* message, or drops it once the program is over.  Without a screen the    *)
(* engine has no observer.                                                 *)
Notify(m) == message' = IF tui THEN m ELSE Silence

Heard == message = Silence

SendDropped ==
    /\ message # Silence /\ program \in {"ended", "failed"}
    /\ message' = Silence
    /\ UNCHANGED <<main, engineVars, run, shown, tuiVars>>

(* Mutant: a run that ends in an error does not tell the screen. *)
EndsQuietly(cause) ==
    /\ run' = cause
    /\ main' = IF tui THEN "join" ELSE "report"
    /\ IF cause = "completed" THEN Notify([kind |-> "completed"]) ELSE UNCHANGED message

(* Run returns: notifyRunCompleted or notifyRunExhausted, then the return. *)
Returns(cause) ==
    /\ run' = cause
    /\ main' = IF tui THEN "join" ELSE "report"
    /\ Notify([kind |-> IF cause = "completed" THEN "completed" ELSE "exhausted"])

-----------------------------------------------------------------------------
(* newAnalysisEngine: starts the agent's app-server. *)
BuildEngine ==
    /\ main = "build"
    /\ main' = "turn"
    /\ UNCHANGED <<engineVars, run, shown, message, tuiVars>>

\* program.Kill, then the join.
BuildFails ==
    /\ main = "build" /\ "calls" \in Faults
    /\ run' = "unbuilt" /\ main' = IF tui THEN "join" ELSE "report"
    /\ program' = IF program \in {"starting", "running"} THEN "failed" ELSE program
    /\ UNCHANGED <<engineVars, shown, message, inbox, screen>>

(* Mutant: the screen is told before the turn is counted. *)
TurnStartsUncounted ==
    /\ main = "turn" /\ Heard
    /\ main' = "handle"
    /\ iteration' = iteration + 1
    /\ Notify([kind |-> "turn", phase |-> phase, turn |-> iteration])
    /\ UNCHANGED <<phase, retries, directive, answer, dataVars, misses, sourceVars, run, shown, tuiVars>>

(* The head of Run's loop. *)
TurnStarts ==
    /\ main = "turn" /\ Heard
    /\ main' = "handle"
    /\ iteration' = iteration + 1
    /\ Notify([kind |-> "turn", phase |-> phase, turn |-> iteration + 1])
    /\ UNCHANGED <<phase, retries, directive, answer, dataVars, misses, sourceVars, run, shown, tuiVars>>

In(name) == main = "handle" /\ Heard /\ PhaseOrder[phase] = name

\* A handler returns a TurnResult.
Yields(d) ==
    /\ main' = "dispatch" /\ directive' = d
    /\ UNCHANGED <<phase, iteration, retries, answer, misses, run, shown, message, tuiVars>>

\* A handler returns an error.
Fails ==
    /\ Returns("error")
    /\ UNCHANGED <<engineVars, shown, tuiVars>>

(* Mutant: any answer but "n" passes the source check. *)
LenientAnswer ==
    /\ answer # "empty" /\ answer # "n"
    /\ Yields("advance_phase")
    /\ vouched' = (IF answer = "y" THEN "user" ELSE vouched) /\ UNCHANGED config

(* SourceCheckHandler: the answer to its own question comes first. *)
SourceAnswered ==
    /\ answer = "y"
    /\ Yields("advance_phase")
    /\ vouched' = "user" /\ UNCHANGED config

\* Indexes in a listing, 0 where there is none.
SourceByKey(listing, key) == SelectInSeq(listing, LAMBDA source : source.key = key)

Labelled(listing, label) == SelectInSeq(listing, LAMBDA source : label \in source.provider)

\* What was taken for the GitHub source is not looked at for analytics.
WithoutLabel(listing, i) == IF i = 0 THEN listing ELSE [listing EXCEPT ![i].provider = {}]

GitHubSource(listing) ==
    LET labelled == Labelled(listing, "github")
    IN  IF labelled # 0 THEN labelled ELSE SourceByKey(listing, config.github)

AnalyticsSource(listing) ==
    LET labelled == Labelled(WithoutLabel(listing, Labelled(listing, "github")), "analytics")
    IN  IF labelled # 0 THEN labelled ELSE SourceByKey(listing, config.analytics)

(* CheckSources on what OneQuery lists: sources are known by their provider,*)
(* or else by the configured key, and the keys found are configured.        *)
CheckSources(listing) ==
    LET github == GitHubSource(listing)
        analytics == AnalyticsSource(listing)
    IN  /\ config' = [github |-> IF github = 0 THEN config.github ELSE listing[github].key,
                      analytics |-> IF analytics = 0 THEN config.analytics
                                    ELSE listing[analytics].key]
        /\ IF github # 0 /\ analytics # 0
           THEN Yields("advance_phase") /\ vouched' = "check"
           ELSE Yields("wait") /\ UNCHANGED vouched

SourceCheck ==
    /\ In("source_check")
    /\ \/ SourceAnswered /\ UNCHANGED dataVars
       \/ answer \in {"n", "other"} /\ Fails
       \/ /\ answer = "empty"
          /\ \E listing \in BoundedSeq(Sources, MaxSources) : CheckSources(listing)
          /\ UNCHANGED dataVars
       \/ answer = "empty" /\ "calls" \in Faults /\ Fails

(* CollectHandler needs the key of a GitHub source, listed or configured. *)
Collect ==
    /\ In("collect")
    /\ \/ /\ config.github # NoKey
          /\ Yields("advance_phase")
          /\ collected' = "collector"
          /\ UNCHANGED <<linked, supplied, sourceVars>>
       \/ config.github = NoKey /\ Fails
       \/ "calls" \in Faults /\ Fails

(* LinkHandler: what it finds ambiguous is kept with the rest (see Linker)  *)
(* and never waits.                                                        *)
Link ==
    /\ In("link")
    /\ IF collected = "none" THEN Fails
       ELSE /\ Yields("advance_phase")
            /\ linked' = collected
            /\ UNCHANGED <<collected, supplied, sourceVars>>

\* The agent's later answers decide: it cannot retry, wait or go on for ever.
Decisive == iteration >= MaxIterations

(* Mutant: the analysis of the agent replaces what was collected. *)
AppliesOver(fields) ==
    /\ collected' = IF fields \cap {"collected", "analysis"} # {} THEN "agent" ELSE collected
    /\ linked' = IF "linked" \in fields THEN "agent" ELSE linked
    /\ supplied' = supplied \cup (fields \cap {"collected", "linked"})

(* applyAgentPhasePayload: analysis_result only fills what is missing. *)
Applies(fields) ==
    /\ collected' = IF \/ "collected" \in fields
                       \/ collected = "none" /\ "analysis" \in fields
                    THEN "agent" ELSE collected
    /\ linked' = IF \/ "linked" \in fields
                    \/ linked = "none" /\ "analysis" \in fields
                 THEN "agent" ELSE linked
    /\ supplied' = supplied \cup (fields \cap {"collected", "linked"})

(* runPhase of the agent's phase: a turn error, a failed turn or an answer *)
(* that does not parse is retried; a timeout of the turn, or a thread that *)
(* does not start, ends the run.                                           *)
ScoreTurnFails == ~Decisive /\ Yields("retry") /\ UNCHANGED <<dataVars, sourceVars>>

ScoreAborts == Fails

(* The timeout covers the turn alone: StartThread waits on the context of  *)
(* the command, and the turn/interrupt that follows a timeout on one of    *)
(* its own.  Neither ends, so an answer that cannot come any more (see     *)
(* AppServerClient) is waited for for ever.                                *)
ScoreHangs ==
    /\ "calls" \in Faults
    /\ main' = "hung"
    /\ UNCHANGED <<engineVars, run, shown, message, tuiVars>>

\* A retry that only says the analytics evidence is unavailable advances.
ScorePayload ==
    \E d \in Directives, fields \in SUBSET AgentData, unavailable \in BOOLEAN :
        /\ Decisive => d \in {"advance_phase", "complete"}
        /\ unavailable => "scored" \in fields /\ d = "retry"
        /\ Applies(fields)
        /\ Yields(IF unavailable THEN "advance_phase" ELSE d)
        /\ UNCHANGED sourceVars

Score ==
    /\ In("score")
    /\ ScoreTurnFails \/ ScoreAborts \/ ScoreHangs \/ ScorePayload

Report ==
    /\ In("report")
    /\ Yields("complete") /\ UNCHANGED <<dataVars, sourceVars>>

-----------------------------------------------------------------------------
(* The switch of Run on the turn's directive. *)
Decided(d) == main = "dispatch" /\ Heard /\ directive = d

Advance ==
    /\ Decided("advance_phase")
    /\ retries' = 0 /\ misses' = 0
    /\ IF phase < Len(PhaseOrder)
       THEN /\ phase' = phase + 1 /\ main' = "turn"
            /\ Notify([kind |-> "advanced", from |-> phase, to |-> phase + 1])
            /\ UNCHANGED run
       ELSE Returns("completed") /\ UNCHANGED phase
    /\ UNCHANGED <<iteration, directive, answer, dataVars, sourceVars, shown, tuiVars>>

Complete ==
    /\ Decided("complete")
    /\ Returns("completed")
    /\ UNCHANGED <<engineVars, shown, tuiVars>>

(* Mutant: one retry too many. *)
RetryOnceMore == retries <= MaxRetries

MayRetry == retries < MaxRetries

Retry ==
    /\ Decided("retry")
    /\ misses' = misses + 1
    /\ IF ~MayRetry
       THEN Returns("retries") /\ UNCHANGED retries
       ELSE retries' = retries + 1 /\ main' = "turn" /\ UNCHANGED <<run, message>>
    /\ UNCHANGED <<phase, iteration, directive, answer, dataVars, sourceVars, shown, tuiVars>>

Continue ==
    /\ Decided("continue")
    /\ retries' = 0 /\ misses' = 0 /\ main' = "turn"
    /\ UNCHANGED <<phase, iteration, directive, answer, dataVars, sourceVars, run, shown, message, tuiVars>>

WaitEntered ==
    /\ Decided("wait")
    /\ main' = "prompt"
    /\ misses' = 0
    /\ Notify([kind |-> "wait"])
    /\ UNCHANGED <<phase, iteration, retries, directive, answer, dataVars, sourceVars, run, shown, tuiVars>>

(* Mutant: a wait does not restore the retries. *)
AnsweredKeepingRetries(a) ==
    /\ answer' = a
    /\ main' = "turn"
    /\ Notify([kind |-> "answered"])
    /\ UNCHANGED retries

Answered(a) ==
    /\ answer' = a
    /\ main' = "turn"
    /\ Notify([kind |-> "answered"])
    /\ retries' = 0

(* newPromptWaitHandler: the line the user types, trimmed. *)
Prompt ==
    /\ main = "prompt" /\ Heard /\ prompts
    /\ \E a \in {"y", "n", "other", "empty"} :
          /\ Decisive => a \in {"y", "n"}
          /\ Answered(a)
    /\ UNCHANGED <<phase, iteration, directive, dataVars, misses, sourceVars, run, shown, tuiVars>>

(* newNonInteractiveWaitHandler; a prompt whose terminal or stdin fails. *)
PromptFails ==
    /\ main = "prompt" /\ Heard
    /\ ~prompts \/ "calls" \in Faults
    /\ Fails

Engine ==
    \/ BuildEngine \/ BuildFails \/ TurnStarts
    \/ SourceCheck \/ Collect \/ Link \/ Score \/ Report
    \/ Advance \/ Complete \/ Retry \/ Continue
    \/ WaitEntered \/ Prompt \/ PromptFails

-----------------------------------------------------------------------------
(* AnalysisModel.Update. *)
SetRunning(rows, p) ==
    [q \in Phases |-> IF q = p THEN "running"
                      ELSE IF rows[q] = "done" THEN "done" ELSE "waiting"]

Update(s, m) ==
    CASE m.kind = "turn" ->
           [s EXCEPT !.phase = m.phase, !.turn = m.turn, !.waiting = FALSE,
                     !.failed = FALSE, !.rows = SetRunning(@, m.phase)]
      [] m.kind = "advanced" ->
           [s EXCEPT !.phase = m.to, !.rows = SetRunning([@ EXCEPT ![m.from] = "done"], m.to)]
      [] m.kind = "wait" -> [s EXCEPT !.waiting = TRUE]
      [] m.kind = "answered" -> [s EXCEPT !.waiting = FALSE]
      [] m.kind = "completed" ->
           [s EXCEPT !.phase = Len(PhaseOrder), !.turn = Len(PhaseOrder), !.waiting = FALSE,
                     !.done = TRUE, !.failed = FALSE, !.rows = [p \in Phases |-> "done"]]
      [] m.kind = "exhausted" -> [s EXCEPT !.waiting = FALSE, !.failed = TRUE]

(* The event loop of the program. *)
ProgramStarts ==
    /\ program = "starting"
    /\ program' = "running"
    /\ UNCHANGED <<main, engineVars, run, shown, message, inbox, screen>>

Take ==
    /\ program = "running" /\ message # Silence /\ inbox = Silence
    /\ inbox' = message /\ message' = Silence
    /\ UNCHANGED <<main, engineVars, run, shown, program, screen>>

(* Mutant: an error on the screen does not end the program. *)
QuitsWhenDone(m) == m.kind = "completed"

\* The messages Update answers with tea.Quit.
Quits(m) == m.kind \in {"completed", "exhausted"}

HandleMessage ==
    /\ program = "running" /\ inbox # Silence
    /\ screen' = Update(screen, inbox)
    /\ inbox' = Silence
    /\ program' = IF Quits(inbox) THEN "quitting" ELSE program
    /\ UNCHANGED <<main, engineVars, run, shown, message>>

ProgramEnds ==
    /\ program = "quitting"
    /\ program' = "ended"
    /\ UNCHANGED <<main, engineVars, run, shown, message, inbox, screen>>

\* No terminal to open, an input error, a panic: Run of the program fails.
ProgramFails ==
    /\ program \in {"starting", "running", "quitting"} /\ "tui" \in Faults
    /\ program' = "failed" /\ inbox' = Silence
    /\ UNCHANGED <<main, engineVars, run, shown, message, screen>>

Program == ProgramStarts \/ Take \/ HandleMessage \/ ProgramEnds \/ ProgramFails

-----------------------------------------------------------------------------
(* Mutant: the error of the progress program is not looked at. *)
JoinIgnoringScreen ==
    /\ main = "join" /\ Heard /\ program \in {"ended", "failed"}
    /\ main' = IF run = "completed" THEN "results" ELSE "exit"
    /\ shown' = IF main' = "exit" THEN "error" ELSE shown
    /\ UNCHANGED <<engineVars, run, message, tuiVars>>

(* runAnalyzeWithTUI after Run: join the program, then show the result. *)
Join ==
    /\ main = "join" /\ Heard /\ program \in {"ended", "failed"}
    /\ main' = IF run = "completed" /\ program = "ended" THEN "results" ELSE "exit"
    /\ shown' = IF main' = "exit" THEN "error" ELSE shown
    /\ UNCHANGED <<engineVars, run, message, tuiVars>>

(* The results screen, until the user quits it. *)
ShowResults ==
    /\ main = "results"
    /\ main' = "exit"
    /\ shown' \in IF "tui" \in Faults THEN {"result", "error"} ELSE {"result"}
    /\ UNCHANGED <<engineVars, run, message, tuiVars>>

(* Mutant: what the run has collected is emitted although it failed. *)
EmitPartial ==
    /\ main = "report"
    /\ main' = "exit"
    /\ shown' = IF collected # "none" THEN "result" ELSE "error"
    /\ UNCHANGED <<engineVars, run, message, tuiVars>>

(* Without a screen: emitAnalyzeResult, or the error. *)
EmitResult ==
    /\ main = "report"
    /\ main' = "exit"
    /\ shown' = IF run = "completed" THEN "result" ELSE "error"
    /\ UNCHANGED <<engineVars, run, message, tuiVars>>

Command == Engine \/ SendDropped \/ Join \/ ShowResults \/ EmitResult

Next == (Command \/ Program) /\ UNCHANGED terminals

Spec == Init /\ [][Next]_vars

(* Both goroutines are scheduled; a call of the agent returns, or is hung; *)
(* the user answers prompts and quits the results.                         *)
FairSpec ==
    /\ Spec
    /\ WF_vars(Command /\ UNCHANGED terminals)
    /\ WF_vars((ProgramStarts \/ Take \/ HandleMessage \/ ProgramEnds) /\ UNCHANGED terminals)

-----------------------------------------------------------------------------
Messages ==
    {Silence} \cup [kind : {"wait", "answered", "completed", "exhausted"}]
    \cup [kind : {"turn"}, phase : Phases, turn : Nat]
    \cup [kind : {"advanced"}, from : Phases, to : Phases]

Causes == {"none", "completed", "retries", "error", "unbuilt"}

(* Every variable has its type. *)
TypeOK ==
    /\ tui \in BOOLEAN /\ prompts \in BOOLEAN
    /\ main \in {"build", "turn", "handle", "dispatch", "prompt", "join", "results", "report", "exit",
                "hung"}
    /\ phase \in Phases /\ iteration \in Nat /\ retries \in 0 .. MaxRetries
    /\ directive \in Directives \cup {"none"}
    /\ answer \in {"empty", "y", "n", "other"}
    /\ collected \in Origins /\ linked \in Origins
    /\ run \in Causes /\ shown \in {"none", "result", "error"}
    /\ message \in Messages /\ inbox \in Messages
    /\ program \in {"starting", "running", "quitting", "ended", "failed"}
    /\ screen \in [rows : [Phases -> {"waiting", "running", "done"}], phase : 0 .. Len(PhaseOrder),
                   turn : Nat, waiting : BOOLEAN, done : BOOLEAN, failed : BOOLEAN]
    /\ misses \in 0 .. MaxRetries + 1 /\ supplied \subseteq {"collected", "linked"} 
    /\ config \in ConfiguredKeys /\ vouched \in Vouchers

(* Nothing is collected, and no agent turn is spent, before the sources    *)
(* were found ready or the user said to go on without them: neither an     *)
(* empty line nor any other answer passes the check.  A check that passed  *)
(* has configured both sources, and nothing is linked without a source.    *)
SourcesVouched ==
    /\ phase > 1 => vouched # "nobody"
    /\ vouched = "check" => config.github # NoKey /\ config.analytics # NoKey
    /\ phase > 2 => config.github # NoKey

(* The run gives up for its retries when a phase asked for more of them in *)
(* a row than it may, and only then: whatever waits and continues came     *)
(* before.                                                                 *)
RetryBudget ==
    /\ misses <= MaxRetries + 1
    /\ run = "retries" <=> misses = MaxRetries + 1

(* When the program has caught up the screen tells where the run is: the   *)
(* phase that runs, or hangs, the ones done and the ones to come, whether  *)
(* it waits for the user, and how it ended.                                *)
ScreenTellsRun ==
    LET caughtUp == message = Silence /\ inbox = Silence IN
    /\ program = "running" /\ caughtUp /\ main \in {"handle", "prompt", "hung"} =>
         /\ screen.rows = [p \in Phases |-> IF p < phase THEN "done"
                                            ELSE IF p = phase THEN "running" ELSE "waiting"]
         /\ screen.turn = iteration
         /\ screen.waiting = (main = "prompt")
    /\ tui /\ program = "ended" =>
         /\ screen.done = (run = "completed")
         /\ screen.failed = (run # "completed")

(* The pull requests and the links of a result are those the collector and *)
(* the linker made, unless the agent sent that very field: its             *)
(* analysis_result, meant to end a run, never replaces either, so a result *)
(* of an agent that sends no other data links the pull requests it lists.  *)
ResultIsConsistent ==
    run = "completed" =>
        /\ collected = IF "collected" \in supplied THEN "agent" ELSE "collector"
        /\ linked = IF "linked" \in supplied THEN "agent" ELSE "collector"

(* The command shows a result when the run completed and no screen failed, *)
(* and an error otherwise: a run that gave up never looks like an analysis.*)
ExitTellsOutcome ==
    main = "exit" =>
        /\ shown # "none"
        /\ shown = "result" => run = "completed" /\ program # "failed"
        /\ run = "completed" /\ "tui" \notin Faults => shown = "result"

(* The command ends, however the run and the screen end, unless a call of  *)
(* its app-server never returns: no Send is left without a receiver and no *)
(* join without a program that quits.                                      *)
CommandEnds == <>(main \in {"exit", "hung"})
=============================================================================
