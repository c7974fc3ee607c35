# impactable: a verification project in TLA+

The repository holds three command-line programs and a development harness:

* `wtl` (`src/internal/wtl`, `src/cmd/wtl`): runs a policy over an agent in
  turns (the "what the loop" engine), through the Codex app-server;
* `git-impact` (`src/internal/gitimpact`, `src/cmd/git-impact`): five phases
  from GitHub and analytics data to impact scores, with a terminal interface;
* `ralph-loop` (`src/internal/ralphloop`, `src/cmd/ralph-loop`): runs a coding
  agent in a loop in a git worktree until it says it is done;
* `harness` (`src/harness`, Rust): boots the demo application of a worktree and
  runs its checks.

`src/specs/ralph-loop/references` is an older version kept for reference, built
into no command; it is not modelled.

## Inventory

| Component | State it keeps | Operations | Interaction | What is hard | What makes it correct |
|---|---|---|---|---|---|
| wtl engine | iteration, retries, active thread and its phase, policy state, summary | begin, turn, six directives, wait, compact, cancel, end | policy (calls), runner (calls), observers (events), wait handler | every path writes its own summary and events; cancellation between steps; limits | summary and stream agree, limits are kept, events are well nested, the lifecycle contract |
| wtl command | exit code | `run` | engine, runner, signals | Ctrl+C at any point; what a failed call leaves at the agent | the exit code is true of the agent; the runner is called as it may be |
| app-server client | pending table, notification channel, error channels, turn in progress | Start, RunTurn, interrupt, Close | child process by pipes; four goroutines | a server that dies, answers late or floods; abandoned turns; cancellation | a result is of its own turn; calls return; an interrupt stops its turn |
| git-impact engine | phase index, iteration, retries, collected/linked/scored data, last wait response | five handlers, five directives, wait | handlers, observer, wait handler | retries across waits; consent; agent payloads overwrite data | consent before data, retry budget, consistent result |
| git-impact screen and command | model rows, program | Update, Send, join, prompt, results | engine by rendezvous messages, join channel | a screen that starts late or fails; a run that ends without a message | the screen tells the run; the command ends; the outcome is reported |
| git-impact collector and linker | the collected data | collect over queries or over the API, infer deployments, ambiguity clusters, feature groups | OneQuery | limits of the queries, boundaries of windows, equal times | the deployment is the one the repository tells, ambiguity agrees with it |
| git-impact results screen | view, cursor, detail, table, viewport, save prompt, saves | keys, window size, answers of saves | one event loop, a goroutine for each save, files | state kept twice; saves at the same time, in one file | the screen shows what the keys act on; what is said to be saved is whole |
| ralph-loop run | iteration, phase, process, log | init, coding loop, pull request, cleanup | git, agent, session files | partial failure, signals, timeouts | cleanup undoes what was set up |
| ralph-loop sessions, worktrees | pid files, worktrees | register, list, create, reuse, remove | files shared by several runs | two runs of a branch; stale pids | one run per worktree |
| harness boot | boot.json, pid, port | start, status, stop | files, ports and processes shared by the commands of all worktrees | concurrent commands, crash before the record, a port taken by another | at most one app, stoppable; answers speak of the own app |

## Modules

| Module | Models | Notes |
|---|---|---|
| `WtlEngine` | `internal/wtl/engine.go`, types of `types.go` | one action per step of `run`; the policy is three operator constants |
| `WtlContract` | what a run promises its observers | abstract lifecycle: idle, head, turn, decision, wait, compact, ended |
| `MCWtlEngine` | policies for TLC | every policy that keeps the directive contract |
| `WtlEngineProofs` | theorems about `WtlEngine` | TLAPS |
| `WtlCli` | `run.go`, `policy.go` | extends `WtlEngine` with the command and the `simple_loop` policy |
| `WtlRun` | the command and its app-server | extends `WtlCli`, with the state and steps of `TurnRunner` |
| `WtlCliProofs` | theorems about `WtlCli` and `WtlRun` | TLAPS |
| `AppServerClient`, `AppServerClientProofs` | `internal/wtl/appserver.go` | the caller, two readers, the reaper, and an external server |
| `TurnRunner` | the interface `turnRunner` of `engine.go`, as the client keeps it | abstract: calls, their outcomes, and what has become of each turn at the agent |
| `GitImpact`, `GitImpactProofs` | `internal/gitimpact` engine, handlers, agent runtime, progress screen; `cmd/git-impact/main.go` | two goroutines and external Bubble Tea, user, OneQuery, agent |
| `ImpactData`, `MCImpactData`, `ImpactDataProofs` | `phase_collect.go`, `phase_link.go` | what the collector takes over from a repository and what the linker infers from it |
| `ResultsScreen`, `MCResultsScreen`, `ResultsScreenProofs` | `tui_results.go`, the saving of reports | the event loop and one goroutine for each save |
| `RalphRun`, `RalphRunProofs` | `internal/ralphloop` `run.go`, `worktree.go`, `session.go`, `logs.go` | several commands of one branch; git, agent and disk are external |
| `HarnessBoot`, `MCHarnessBoot`, `HarnessBootProofs` | `harness/src/cmd/boot.rs`, ports, pids and HTTP of `util/mod.rs` | commands of several worktrees on one host; applications and other programs are external |

`GitImpact` follows the control of a run and keeps of the data only where it
comes from; `ImpactData` is the data of the same handlers without the run around
them; `ResultsScreen` is what the command shows when `GitImpact` has reached
`results`. A module whose name ends in `Proofs` extends the one it is about.

### WtlEngine

`pc` is the statement the engine is at. `run` calls the policy, the runner and
the wait handler; a call is two steps, so a cancellation may fall between them.
`summary` is `runSummary`. The stream of events is not kept whole (it is
unbounded): `stream` keeps what an observer needs to judge the next event, and
`Emit` is the only way to write it. The policy is the constant operators
`Initialize`, `AfterTurn` and `OnWaitResolved`, sets of what it may answer.
Each directive of the switch is an action. Texts, timestamps and ids of turns
are left out.

`WtlContract` states the lifecycle without summary, events or policy;
`KeepsContract` is the refinement, with `StageAt[pc]` as the mapping of the
control state.

### AppServerClient

`caller` is the goroutine that calls `Start`, `RunTurn`, `Close`; `reader` and
`stderrReader` are the two `readLoop`s; `reaped` is the goroutine in `cmd.Wait`.
`pending` is the RPC table, `answers` the buffered response channels, `notes`
the notifications channel of capacity `Cap`, `readErr` and `waitErr` the error
channels. A server that dies leaves what it wrote in `stdout`; reaping may lose
it, as `cmd.Wait` closes the pipe. `abandoned` remembers turns the client gave
up on while the server may still run them.

Abstractions: one `Start` per client, so `r.initialized` is `thread`; a reader
that holds a line it cannot deliver is a channel with one place more; ids are
numbers in the order of the requests. A `turn/completed` ends the turn it names,
or the current one when it names none (`EndsTurn`); that it names one is an
assumption about the external server.

`TurnRunner` states what the engine may take for granted of its runner, without
requests, channels or goroutines: `completed` and `failed` are the agent's words
about that very turn; `interrupted` is said only of a turn that was meant to
stop and goes on no more (unless the agent is down); `error` only when the agent
has refused the turn, is gone, or, once, when a living agent has lost a stream;
a turn begins at the agent only for the call that waits for it, or for one that was canceled before it was told.
The contract binds the caller too: `Start` once (`MayOpen`), one call at a time,
none after one that came back canceled or interrupted (`MayCall`). A context that
is canceled already hinders no call: the engine looks at it at the head of its
loop only, and a cancellation may come right after.
`ClientIsRunner` is the refinement: `Stage` takes the states of the caller
together, `AgentState` is `down` when the server is dead, `mute` when it lives
but has closed stderr, which ends a turn as well (`readErr` does not tell which
stream has ended), and `known` once a turn was told of it: the reader of stderr
has stopped and its one entry of `readErr` is taken, so no other turn is.

### WtlRun

The composition that the two halves are for. `WtlCli` lets the runner answer
anything; here it answers what `TurnRunner` allows, which `AppServerClient` is
proved to implement, so an answer goes with what has become of the turn at the
agent. A call, or its return, is one step of both sides; between the two the
agent begins, ends or fails, and Ctrl+C may come. The steps that call the runner
are written without the contract's conditions on its caller, as the code of the
runner checks none: `KeepsRunnersRules` is the property that the engine and the
command keep them, and then every behaviour is one of `Runner!Spec`.

`RunTellsTruth` is what a user relies on, from the exit code down to the agent:
0 is told of a completed run only; a turn passed as done is one the agent has
completed; one that is tried again has failed at the agent or was refused, and no
turn begins beside another that still runs, as long as the app-server lives with
its streams open. A living app-server that has closed its stderr makes the turn
in progress an error (appserver.go:276) while it runs on, and `simple_loop` tries
again beside it: the property has that case in it, and says that it happens to
one turn and never to a second. The completion marker is a matter of the
response's text and stays free.

### GitImpact

`main` is the command's goroutine, from `newAnalysisEngine` to the exit;
`program`, `inbox` and `screen` are Bubble Tea's. A notification is a
rendezvous: `message` is what `program.Send` offers and the engine goes on when
the event loop has taken it (or the program is over, when `Send` drops it);
`Update` runs later. `tui` and `prompts` are chosen in `Init`: without a
terminal for output there is no observer and no program, without one for input
nobody is prompted. `collected` and `linked` hold where the pull requests of the
data come from, which is what the result's consistency is about; an agent's
payload may carry any of the data fields. The source check is `CheckSources` in
full: `config` is the keys the file names for GitHub and for analytics, the
sources listed are up to `MaxSources`, each with a key of `SourceKeys` and what
its provider's name says it is. A source is chosen by its provider, or else by
the configured key; its key becomes the configuration, so a later check and the
collector see it. The decoding of OneQuery's answers is left out. A turn of the
agent answers, fails, times out, or hangs (`ScoreHangs`, `main = "hung"`): the phase
timeout covers the turn alone, `StartThread` is awaited on the command's context
and the `turn/interrupt` that follows a timeout on one of its own, so a request to
an app-server that died is awaited for ever. Three history variables serve the properties alone: `supplied` (the data the agent sent
itself), `vouched` (nobody, the check that found the sources ready, or the user
that agreed to them) and `misses` (retries in a row).

### RalphRun

Each command is a process that walks through `prepareWorktree`, `registerSession`
and the three phases of `runMain`; `defers` is its stack of deferred calls, so
every `return` undoes what was done before it and nothing else. The commands
meet in three files: `tree` is the path of the worktree (absent, a checkout, or
files that are no checkout), `dirty` whether changes in it are not
committed, `session` the record in `ralph-loop.json`. Looking for the worktree
and adding it are two steps. `Kill` ends a process without its deferred calls.
`Log` is a reader of an app-server that makes the log's directory again, which
it can do until the process ends. The app-server client is its outcomes: an
answer, an error, or (for `initialize` and `thread/start`, which have no
timeout) none at all.

`Limits` are the values of `MaxIterations`; 0 is one of them, as a JSON request
is not validated (parser.go:345): no coding turn runs then, and the text the
pull request rests on is the setup agent's (`PRAfterPromise` has this exception,
and only this). `git worktree remove --force` and the removal of the record may
fail, and the code drops the error: `hitches` remembers which did, and `CleanedUp`
promises nothing of those; a removal that fails half way leaves files of which git
knows nothing (`leftover`), and so does the log's directory made again after it.
`kill -0` finds whatever has the pid of a record (`PidReused`), so `Listed` may
name a run that is over, if its pid has a new owner.

All commands name one branch; with different branches they meet only inside a
linked worktree, where `ensureWorktreeBranch` would switch it. Dry runs change
nothing and are left out. git removes a worktree that is there; what is removed
from under a running agent makes its turn end in any way.

### ImpactData

The repository (`merged`, `published`, `created`; 0 for an item it has not) is
unknown at first: what each call tells of it is chosen when the call is made.
`path` says whether the source could be queried (`query`: sorted and limited by
the SQL; the limit for releases may be one of several numbers) or had to be read over the API (`api`: one
page of each list, `PageLimit` items in an order of its own, and tags
without a time). `DeploymentsMatchRepository` compares with the whole repository
where nothing that could matter was left out: every item was taken, or the query
returned an older one than the merge, which on an API page tells nothing. Where
something was, the deployment still is one of the repository's releases, at its
time and within the window. The loops of `inferDeployment` and
`detectAmbiguousDeployments` are steps over `i`, `j` and `start`, `end`, so that what they carry from one
round to the next can go wrong. A pull request's names are its labels, its
branch if that is a `feature/` branch, and the candidates for a name of branch,
title and files, each the key `normalizeFeatureGroupName` makes of it, nothing when
there is no such text, or a text of which the normalisation leaves nothing;
`FeatureNameFromPR` takes the first that is there, or the number.

Left out is what no property reads (authors, bodies, the files after the first
that makes a name). The code proposes the groups before it looks for ambiguous
deployments; the model does so after it, as neither reads what the other makes.

### ResultsScreen

`cursor` is the model's, `table` and `viewport` are the components', which the
code keeps beside it. Texts are numbers of lines (`Lines`), which depend on the
width they are wrapped for. A row opened in detail is `selected`. A save is an
element of `saves`, a goroutine that opens (and empties) its file, writes it and
answers; the names of files tell the second only, so two saves may write one
file. The answer closes whatever prompt is open. `Quit` ends the process and
waits for nobody. The unbounded Bubble Tea queue is the choice of which message
is next.

### HarnessBoot

A command is an element of `cmd` with its locals; commands are named in the
order they are called, an application by the start that spawned it. `boot` says
whose record a worktree's `boot.json` is (`fs::write` empties the file before it
writes it, and a reader in between finds none). A command probes ports when it
is called and the application binds later, so the port may be gone. An
application that has ended stays a zombie, and alive for `kill -0`, until its
start has ended. Other programs hold ports for good; one may refuse what it is
asked, say 200 as an application does, or take the connection and say nothing, on
which `http_ok` waits without a limit. Whether the recorded application is there
is asked in two steps, for its process (`PidProbe`) and at its address
(`HttpProbe`), and anything may happen between them. Two things the model
assumes: a pid is not reused, and an application that serves answers 200.

The code takes no lock and leaves an application behind when a start is killed
or gives up, so no property holds of all behaviours. `calm` is a history
variable that says in which the promises are made: no two commands of a
worktree and no two starts on a port at work at a time, none killed, a port
that was free when it was chosen, no start that gave up on an application that
still runs, no record that could not be written. Applications may end at any
time, other programs take any port, and commands of other worktrees meet these.
What no command can see is in a second history variable, `misled`: an
application ended between the two probes of it, or another program that says 200
took a port a start had chosen. Then a start or a status may take the other's
answer for its own; `AnswersFromOwnApp` says that these two are the only ways.
`AppsRecorded` holds in spite of both.

## Runs

| Run | Question | Bounds |
|---|---|---|
| `wtl_engine` | stream, summary, limits, threads, contract and end, for every policy that keeps the directive contract | 3 iterations, 1 retry, 2 phases |
| `wtl_cli` | the exit code and the verdicts of `wtl run` are true of the agent, the runner is called as it may be | 4 iterations, 1 retry, an agent that may lose a stream or die |
| `client` | results and responses belong to their turn, the client is a `TurnRunner`, calls return, and a turn learns that the server died | 2 turns, 1 notification a turn besides its end, channel of 3, faults |
| `client_hang` (violated) | a call to a dead server returns | 1 turn |
| `client_interrupt` (violated) | Ctrl+C stops the run with a full channel | channel of 1 |
| `impact` | consent, retries, screen, result, exit and end of `analyze`, with and without terminals | 2 retries, free answers for 8 turns, up to 2 sources, 2 keys, faults |
| `data` | deployments against the repository, ambiguity against deployments and clusters, groups | 2 pull requests, 3 releases (two of one name), 1 tag, times 1 to 4, windows of 2 and 1, limits of 2 pull requests, 2 or 3 releases and 1 tag, a page of 2 |
| `results` | the screen shows what the keys act on, saved reports are whole | 2, 1 and 0 rows, 2 widths, 1 height, 2 saves, 2 seconds, a disk that may fail |
| `ralph` | session records, clean-up, the coding loop and the end of each command | 2 commands, turn limits 0 and 2 |
| `ralph_pr` (violated) | a pull request needs a completed coding loop | 1 command, turn limit 1 |
| `ralph_exclusion` (violated) | one run per worktree | 2 commands |
| `boot` | records name the applications that run, answers speak of the own application, commands end | 3 commands, 2 of them at a time, 2 worktrees with overlapping ranges over 2 ports, 1 other program, 1 command killed |

Two phases and three iterations are enough for each directive to follow each
other with a phase change before, between and after; one retry reaches the limit
and, after a reset, reaches it again. The policies of `wtl_engine` answer a wait
with a plan or with one more wait: a policy that always asks for another wait
has no end, and the code sets no limit there. Two turns are what a leftover of
one turn needs to reach another. In `GitImpact` a run needs five turns, so eight
leave three for waits, retries and continues, and two retries tell a budget from
a count that survives a wait. Two sources with two keys are enough for either to
be chosen by its provider or by its key, for one source to pass for both, and
for the one configured to be the other one. The agent and the user decide after
`MaxIterations` turns: the code itself has no limit there.

In `data` a limit of 2 and the page cut a release, a limit of 3 does not, and it
is left to the properties to know it; three releases make a cluster of three, of
two and one, or three apart, two of one name make two clusters offer the same
option (and are symmetric, as nothing tells them apart), and four times hold the
whole window, its two ends and a point outside. In `results` the row with
the longer text is longer than the window at one width only, and two saves
either share a file or do not. Two ralph-loop commands are one that is killed and its
successor, or two that meet; two coding turns are a failure and a success in
either order, the second at the limit, and a limit of 0 is a run without any.
In `boot` two ports and two worktrees make each candidate of one the next candidate of the other, and three commands
are a start, what disturbs it or comes to its port, and the command that is
deceived by that; `MaxPort` is low, so the saturating sum is reached.

### Disagreements with the documents

The violated runs are disagreements between the code and `SPEC.md`;
`PROJECT.json` quotes them under `findings`. In each the counterexample is a few
steps long: a request to a server that dies is never answered and nothing else
is listened to; a full notifications channel keeps the answer to
`turn/interrupt` from being read; a last coding turn that failed with the
completion token in its text starts the pull-request agent (with a limit of 0 the
setup agent's token does, a second way around `SPEC.md:686`); a second run takes
the worktree and the session record of a first, and whichever ends first removes
both.

Others were met while modelling. They are in the model as the code has them, and
need no search to be seen:

* Ctrl+C during `thread/start` is a failed run with exit code 1
  (`WtlEngine`, the action for a start that fails), where
  `specs/what-the-loop/SPEC.md` says 130 of an interrupt.
* Ambiguous deployments are stored and the run goes on; `SPEC.md:112` has it ask
  the user.
* Over the API tags come without their time, so none is ever taken for a
  deployment, as `SPEC.md:108` would have it (`CreatedAt` in `ImpactData`).
* A pull request is in no feature group when none of its labels leaves a Latin
  letter or digit and neither does the first of branch, title and files that is
  there: that one is taken even if nothing is left of it, and the next are not
  asked (`KeysOf`).
* `boot start` takes the base port when no candidate is free, where
  `specs/ralph-loop/SPEC.md:225` asks it to fail and name the ports
  (`ResolvePort`), and takes an answer on that port for its own application's.
* A policy that keeps waiting, or a phase that keeps asking to go on, never ends a
  run: no limit counts these.
* The directory of the log may be there again when the worktree is gone
  (logs.go:25, `Log` in `RalphRun`), where `SPEC.md:689` has no resource leak; no
  property excludes it.
* A reused worktree is stashed and clean only if the command runs inside it
  (`StartsClean` is about these).

## Fairness

* `WtlEngine`: the loop takes its next step, and calls return. The second is
  not the engine's to give: it is what `CallsReturn` shows of the client under a
  server that lives, and what `client_hang` refutes for one that dies at the
  wrong moment. Cancellation is never assumed.
* `AppServerClient`: each goroutine is scheduled (weak fairness of each), and a
  living server serves requests and finishes turns. Nothing forces it to die,
  to be interrupted or to speak.
* `GitImpact`: both goroutines are scheduled; the user answers a prompt and leaves
  the results screen. A turn of the agent ends at the latest with the phase
  timeout, unless a call to an app-server that died hangs (`hung`);
  `CommandEnds` says that this is the only way not to end, given that the agent
  and the user decide within `MaxIterations` turns. Failures are never assumed.
* `RalphRun`: each process is scheduled, and a turn ends at the latest with its
  timeout. A command that waits for `initialize` or `thread/start` may wait for
  ever (`hung`); `RunEnds` says that this is the only way not to end.
* `WtlCli`, `WtlRun`, `ImpactData`, `ResultsScreen` and `HarnessBoot` state none. A command
  of `HarnessBoot` is a straight line of steps, so that it can always go on
  (`CommandsGoOn`) is what its end comes down to. Deadlock is not checked
  anywhere: every program ends.

## Proofs

Eight modules hold theorems, each for every value of the constants that their
`ASSUME` admits. All follow one argument: the property is not inductive, so an
invariant that implies it says what holds at each program point; one lemma per
action, or group of actions, shows that the action keeps it.

`WtlEngineProofs`, for every number of iterations and retries, every set of
phases and every policy that answers with states and decisions of their types:

* `TypeCorrect`; `SummaryCorrect`, `RetryBudgetCorrect`: the summary agrees with
  the stream; the retry limit is kept. Neither is inductive: the summary is
  written before the terminal event, and the count is compared before it grows.
  `EngineInv` adds what holds at each value of `pc`: what the summary lacks of
  the stream there, which thread is active, and how far the count may be.
* `StreamCorrect`: the action property that each event may follow the ones
  before it, from `EngineInv` at the step.
* `PlanFollowed`: the phase and the thread of each turn are those of its plan.
  `PlanInv` adds that the observers know the engine's phase (`Told`) and that
  the engine's thread is that of the last turn or the one the next turn needs
  (`Threaded`). It holds of policies that keep their phase when they retry or
  compact (`KeepsPhase`, a hypothesis of the theorem): with those directives the
  engine announces no phase, and `specs/what-the-loop/SPEC.md:122` asks as much.
* `EngineKeepsContract`: the refinement of `WtlContract`: `ContractInit` for the
  initial states and `ContractStep` for each action.
* `RunComesNearer`: the safety of the engine's end, `Rank` being what a run has
  before it: every step makes it less but a piece of streamed text, of which a
  turn may have any number, and a policy that is found still waiting, for which
  the code has no limit. That `Rank` stays a natural number needs that the
  iterations never pass their limit, which is a part of `EngineInv`.

`WtlCliProofs`, for the command's policy (`SimplePolicy`, an assumption of the
theorem that says the operator constants are those of `simple_loop`) and every
limit: `ExitCorrect`, from `EngineInv` and what this policy never does (`Simple`:
it does not wait, and a run with its verdict `complete` goes nowhere but to its
end). `CommandRunsEngine` says that every behaviour of the command is one of the
engine, so the theorems of `WtlEngineProofs` hold of the command; with
`SimpleKeepsPhase` that gives `CommandFollowsPlan`, without a hypothesis about
phases, and with `Simple` it gives `CommandComesNearer`: of the two exceptions of
`RunComesNearer` this policy leaves the streamed text only.

The same module proves the composition `WtlRun`, for every limit.
`RunIsCommand`: its behaviours are the command's, whatever the agent does, so all
of the above holds of it. `RunnersRulesKept`: they are `TurnRunner`'s as well, so
the engine keeps the conditions under which the client was proved; this is where
the proof of each half is discharged for the other. `RunTruthful` joins the exit
code to the agent. `RunInv` adds to `CliInv` what the two sides know of each other
(`RunnerInv`): the runner is in a call exactly where the engine waits for one, and
has made as many turns as the engine has counted (`InStep`); a turn before the
last has ended at a living agent, and a canceled or interrupted call ends the run
(`Settled`); the verdict on the last turn is the one its outcome gave, and that is
true of the agent (`Judged`). That `simple_loop` asks for the thread it has
(`Simple`) is what keeps it from a second `Start`.

`AppServerClientProofs`, for any number of turns and of notifications, every
capacity of their channel and every fault: `TypeCorrect`, `ResultCorrect`,
`ResponseCorrect`, `InterruptCorrect`, `CallsAreAnswered`, `RunnerCorrect`.
`ClientInv` says what the two sides know
of each other: requests wait in their order and an answer on its way is older
than each of them (`Requested`), the answer the caller waits for tells what the
server did (`AnswersTell`), a notification in the pipe or in the channel tells
what the server said (`NotesTell`) and none of a turn follows its end
(`EndsLast`); while no turn was given up there is one turn at a time and what it
said is taken or on its way (`Complete`). `Calling` ties where the caller is to
its turn. A reaped process may lose the end of the pipe, never the middle, which
is why a turn that ended has lost nothing.

Two more results of the client rest on `ClientInv`. `CallsAreAnswered` is the
safety that `CallsReturn` comes down to once the goroutines are scheduled: a
caller that waits on a living server is owed its answer, which is asked for, or
on its way, or in its channel (`AnswerKept`); a turn still runs or its end is on
its way (`EndKept`); and the exit of a dead server lies in `waitErr` for the
turn it cuts off, or will (`ExitKept`). What `client_hang` shows is that nothing
of the kind holds of an answer when the server is dead. `RunnerCorrect` is the
refinement of `TurnRunner`: `RunnerStutters` for the steps that change nothing
the engine may see, and a lemma for each kind of step that does. It needs
`RunnerInv`: where the end of a stream or of the server is told of, it has ended
(`StreamsEnd`); the turn in progress is the last one called (`TurnIsLast`); only
a cancellation interrupts a turn (`OnlyCanceled`), with an interrupt whose
caller waits for it or was stopped (`InterruptIsLast`); and no call goes on
after one that came back canceled or interrupted (`CallsGoOn`).

`GitImpactProofs`, for every retry limit, every set of fields the agent may
send, every set of keys and faults: `TypeCorrect`, `ConsentCorrect`,
`RetryBudgetCorrect`, `ResultCorrect`, `ExitCorrect`, `ScreenCorrect`.
`ImpactInv` has a part for each of the first five: `Budgeted` (the code's count
is the history's while the engine is at work), `Consented` (what the source
check may have decided), `Sourced` (where the data comes from in each phase),
`Screened` (how far the screen's life and the command's are from each other).

`ScreenCorrect` is about two goroutines that are out of step: the screen lags
behind the run by the message the event loop has taken and the one the engine
offers. `CaughtUp` is the screen that would have handled both, and `ScreenInv`
says that it tells where the run is at every step of the engine (`Tells`),
whether the event loop has got there or not; that the message which makes the
program quit is the last one; and that a program that quits leaves none behind.
A step of the event loop leaves `CaughtUp` as it is, a step of the engine takes
it to where the run is then, and `ScreenTellsRun` is `ScreenInv` with nothing in
between.

`EndComesNearer` is the safety core of `CommandEnds`: once `Run` has returned
(a hung call never does),
somebody can always move until the command has exited (`SomeoneMoves`: no `Send`
waits for a receiver that is gone and no join for a program that will not quit),
and every step of anybody makes `Left` less. It needs that a program that lives
then has the message that makes it quit offered or in its inbox (`QuitComes`),
that is, that every return of the engine has sent one.

`RalphRunProofs`, for any number of commands and every turn limit:
`TypeCorrect`, `SessionsCorrect`, `CleanupCorrect`, `StartCorrect`, `PRCorrect`.
`RalphInv` says of each command which calls it has deferred where it is
(`Placed`), that the record is of a command that will still remove it or was
killed (`Owned`), and, of one that has met no other (`Undisturbed`), that the
worktree and the record are as it left them. `OthersKeep` is the lemma that
makes the number of commands immaterial: a step of one command leaves the others
what they rely on. `RunsComeNearer` is the safety core of `RunEnds`: each step of
a command makes what it has `Left` less, no step of another makes it more, and it
begins with at most 2 * `MaxIterations` + 15.

`ImpactDataProofs`, for any finite sets of pull requests, releases and tags, any
times and names, every window and limit: `TypeCorrect`, `DeploymentsCorrect`,
`AmbiguousCorrect`, `ClustersCorrect`, `GroupsCorrect`. `DataInv` says what each
loop has seen of its list: what a limit left out is not newer than what was taken
(`Taken`), the release or tag chosen so far is the first usable one of those seen
(`Looping`), each deployment is the first usable of all (`Deploying`), and the
pull requests found ambiguous so far are those ambiguous among the releases
before the current cluster (`Scanning`). The last needs that the cluster begins
behind a gap longer than the window and has none itself (`Clustering`): then no
pair of releases across the gap is bridged (`SplitAtCut`), and closing the
cluster adds what is ambiguous within it (`ClusterAmbiguous`). That the
deployment of an ambiguous pull request is one of its options
(`DeployedInCluster`) rests on the assumption that the ambiguity window is not
the longer of the two windows, as in the code.

`HarnessBootProofs`, for any number of commands, worktrees, ports and other
programs: `TypeCorrect`, `RecordsCorrect`, `AnswersCorrect`,
`CommandsComeNearer`. `BootInv` promises
`CalmInv` while `calm`: commands are `Apart`, an application is as its start
would have it (`OwnsApp`), what a command read is still the record
(`SeesRecord`), a record names an application of its worktree (`RecordsOwn`)
and no other one of it runs (`Alone`), no other application listens
on its port (`PortFree`), its start waits for it, or has been answered by another
program (`Waited`), and then it is recorded (`Recorded`). While nobody is `misled`,
`SureInv` adds what an answer rests on: no other program says 200 on a port that
a start waits at, and an application whose process was just found serves. `CommandsComeNearer` is the safety of a command's end:
`StepsLeft` bounds the steps it has before it, each of its own makes that less
(`OwnStepIsNearer`) and nobody's makes it more (`OtherStepIsNoFarther`); with
`CommandsGoOn`, which TLC checks, a command that takes its steps ends.

`ResultsScreenProofs`, for every number of rows, every length of text, every
size of window, any number of saves: `TypeCorrect`, `SelectionCorrect`,
`SavedCorrect`. `ScreenInv` is inductive with the types of the components;
`SavingInv` needs `FilesTellSaves`, that a file no save is at work in, and in
which none failed, is whole once a save of it is done.

Liveness under fairness, `ENABLED` and induction over data are beyond the prover
and stay with TLC. Only model-checked are four liveness properties, each with its
safety core proved: `RunEnds` of `WtlEngine` (`RunComesNearer`), `CallsReturn` of
`AppServerClient` (`CallsAreAnswered`), `RunEnds` of `RalphRun` (`RunsComeNearer`)
and `CommandEnds` of `GitImpact` (`EndComesNearer`); what the theorems leave open
is that somebody takes the steps they count, which is the fairness, and for
`GitImpact` the part before `Run` returns. Likewise `CommandsGoOn` of
`HarnessBoot`, which is `ENABLED` (what it is good for is `CommandsComeNearer`).
Every other invariant, every action property and the three refinements that the
runs check are proved.

## Plan

Done: `WtlEngine`, `WtlContract`, `WtlCli`, `WtlRun`, `AppServerClient`,
`TurnRunner`, `GitImpact`, `ImpactData`, `ResultsScreen`, `RalphRun`,
`HarnessBoot`, and the proofs above. Left, the most important first:

1. `GitImpact` over `TurnRunner`, as `WtlRun` has it for `wtl`: it would reach a
   phase that times out while its turn goes on, and a retry on an app-server that
   is dead.
2. `RalphRun` with commands of several branches inside one linked worktree
   (which `ensureWorktreeBranch` would switch), and its listing with selectors.
3. The paging of ralph-loop's log tail, as operators against a reference
   definition.

## Not modelled

Formatting, flag parsing, JSON decoding and validation, report rendering,
configuration loading: functions of their input without shared state, whose
hazards are those of a test. The harness's other commands run one program each
and pass on its exit code; the `main` of each command calls `Run` of its package
(that of git-impact is in `GitImpact`). `specs/ralph-loop/references` is built
into nothing. In part: a second `Start` of a client (both callers end the run
when it fails, and `simple_loop` asks for no other thread); the decoding
of OneQuery's answers; dry runs and selectors of ralph-loop.
`PROJECT.json` lists every component with its status, and every hazard with the
properties that watch it.
