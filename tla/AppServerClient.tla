-------------------------- MODULE AppServerClient --------------------------
(***************************************************************************)
(* The client of the Codex app-server, appServerRunner of                  *)
(* src/internal/wtl/appserver.go: JSON-RPC over the pipes of a child       *)
(* process.  Four goroutines share it: the caller (Start, RunTurn, Close), *)
(* the readers of stdout and stderr, and the one that reaps the process.   *)
(*                                                                         *)
(* The server is external: it answers requests in order, streams           *)
(* notifications of the turns it runs, and, with Faults, closes its stderr *)
(* or dies at any time.  The caller is used as engine.run uses it: one     *)
(* Start, then turns until the context is canceled, then Close.            *)
(***************************************************************************)
EXTENDS Naturals, Sequences, FiniteSets

CONSTANTS
    MaxTurns,   \* bound: RunTurn calls
    MaxNotes,   \* bound: deltas and items the server sends per turn
    Cap,        \* capacity of the notifications channel (512 in the code)
    Faults      \* what may go wrong with the server: "die", "stderr"

ASSUME ClientAssumption ==
    /\ MaxTurns \in Nat
    /\ MaxNotes \in Nat
    /\ Cap \in Nat \ {0}
    /\ Faults \subseteq {"die", "stderr"}

Turns == 1 .. MaxTurns

Endings == {"completed", "failed", "interrupted"}

VARIABLES
    caller,       \* where the caller's goroutine is
    method,       \* the request in progress
    id,           \* r.nextID: its id
    thread,       \* Start returned a thread (and r.initialized)
    turn,         \* turnID of the turn being run (0: none)
    collected,    \* turns whose deltas are in collected
    final,        \* turn of the item in finalResponse (0: none)
    calls,        \* RunTurn calls made
    result,       \* what the last call returned
    pending,      \* r.pending: ids of the requests that await an answer
    answers,      \* the buffered response channels that hold an envelope
    notes,        \* r.notifications
    readErr,      \* r.readErr holds a value
    waitErr,      \* r.waitErr holds a value
    reader, stderrReader,  \* the two readLoops
    reaped,       \* cmd.Wait has returned
    canceled,     \* ctx of the caller is done
    alive, stdin, stdout, stderr, served, sent, spoke, abandoned
                  \* the server, and what it did

callerVars == <<caller, method, id, thread, calls>>
turnVars   == <<turn, collected, final, result, abandoned>>
rpcVars    == <<pending, answers>>
readers    == <<reader, stderrReader, reaped>>
errVars    == <<readErr, waitErr>>
work       == <<served, sent, spoke>>
serverVars == <<alive, stdin, stdout, stderr, work>>
vars == <<callerVars, turnVars, rpcVars, notes, readers, errVars, canceled,
          serverVars>>

NoResult == [turn |-> 0, outcome |-> "none", from |-> {}]

Init ==
    /\ caller = "idle" /\ method = "none" /\ id = 0
    /\ thread = FALSE /\ calls = 0
    /\ turn = 0 /\ collected = {} /\ final = 0
    /\ result = NoResult /\ abandoned = {}
    /\ pending = {} /\ answers = {}
    /\ notes = <<>>
    /\ reader = "read" /\ stderrReader = "read" /\ reaped = FALSE
    /\ readErr = FALSE /\ waitErr = FALSE
    /\ canceled = FALSE
    /\ alive = TRUE /\ stderr = "open" /\ stdin = <<>> /\ stdout = <<>>
    /\ served = [t \in Turns |-> "none"]
    /\ sent = [t \in Turns |-> 0]
    /\ spoke = [t \in Turns |-> FALSE]

-----------------------------------------------------------------------------
(* request: register the id, write the line, wait for the answer. *)
Request(m) ==
    /\ caller' = "write"
    /\ method' = m
    /\ id' = id + 1
    /\ pending' = pending \cup {id + 1}

(* A turn that returns while the server may still be running it. *)
Return(outcome) ==
    /\ caller' = "idle"
    /\ result' = [turn |-> turn, outcome |-> outcome,
                  from |-> IF final # 0 THEN {final} ELSE collected]
    /\ abandoned' = IF turn # 0 /\ outcome = "error" THEN abandoned \cup {turn} ELSE abandoned
    /\ UNCHANGED <<turn, collected, final>>

(* Start and RunTurn, up to their first request.  Neither looks at the     *)
(* context first, so a call may begin after the cancellation; its callers  *)
(* make no other once a call has come back canceled or interrupted.        *)
Start ==
    /\ caller = "idle" /\ ~thread /\ result = NoResult
    /\ Request("initialize")
    /\ UNCHANGED <<thread, calls, turnVars, answers>>

(* Mutant: the response of the turn before is not cleared. *)
KeptResponse == turn' = 0 /\ UNCHANGED <<collected, final>>

FreshResponse == turn' = 0 /\ collected' = {} /\ final' = 0

Stopped == result.outcome \in {"canceled", "interrupted"}

RunTurn ==
    /\ caller = "idle" /\ thread /\ calls < MaxTurns /\ ~Stopped
    /\ calls' = calls + 1
    /\ FreshResponse
    /\ Request("turn/start")
    /\ UNCHANGED <<thread, result, abandoned, answers>>

(* A pipe whose reader is gone refuses the line. *)
Write ==
    /\ caller = "write"
    /\ IF alive
       THEN /\ stdin' = Append(stdin, [id |-> id, method |-> method, turn |-> turn])
            /\ caller' = "await"
            /\ UNCHANGED turnVars
       ELSE /\ Return(IF method = "turn/interrupt" THEN "interrupted" ELSE "error")
            /\ UNCHANGED stdin
    /\ UNCHANGED <<method, id, thread, calls, rpcVars, alive, stdout, stderr, work>>

(* Mutant: the interrupt is bound by the context it interrupts for. *)
ContextEndsAnyRequest == canceled

(* turn/interrupt runs on a context of its own, which never ends. *)
ContextEndsRequest == canceled /\ method # "turn/interrupt"

AwaitCanceled ==
    /\ caller = "await" /\ ContextEndsRequest
    /\ Return(IF method = "turn/interrupt" THEN "interrupted" ELSE "canceled")
    /\ UNCHANGED <<method, id, thread, calls, rpcVars>>

Answered(m, ok) ==
    /\ caller = "await" /\ method = m
    /\ \E r \in answers : r.id = id /\ r.ok = ok /\ answers' = answers \ {r}

AnswerRefused ==
    /\ \/ /\ Answered("turn/interrupt", FALSE)
          /\ Return("interrupted")
       \/ /\ \E m \in {"initialize", "thread/start", "turn/start"} : Answered(m, FALSE)
          /\ Return("error")
    /\ UNCHANGED <<method, id, thread, calls, pending>>

(* Start after initialize: the notification initialized, then the thread.  *)
Initialized ==
    /\ Answered("initialize", TRUE)
    /\ IF alive
       THEN Request("thread/start") /\ UNCHANGED turnVars
       ELSE Return("error") /\ UNCHANGED <<method, id, pending>>
    /\ UNCHANGED <<thread, calls>>

ThreadStarted ==
    /\ Answered("thread/start", TRUE)
    /\ thread' = TRUE
    /\ caller' = "idle"
    /\ UNCHANGED <<method, id, calls, turnVars, pending>>

TurnStarted ==
    /\ Answered("turn/start", TRUE)
    /\ \E r \in answers \ answers' : turn' = r.turn
    /\ caller' = "turn"
    /\ UNCHANGED <<method, id, thread, calls, collected, final, result, abandoned, pending>>

InterruptAnswered ==
    /\ Answered("turn/interrupt", TRUE)
    /\ Return("interrupted")
    /\ UNCHANGED <<method, id, thread, calls, pending>>

-----------------------------------------------------------------------------
(* The select of runTurn: whichever of its channels is ready. *)
TurnSeesExit ==
    /\ caller = "turn" /\ waitErr
    /\ waitErr' = FALSE
    /\ Return("error")
    /\ UNCHANGED <<method, id, thread, calls, rpcVars, readErr, notes>>

TurnSeesClosedStream ==
    /\ caller = "turn" /\ readErr
    /\ readErr' = FALSE
    /\ Return("error")
    /\ UNCHANGED <<method, id, thread, calls, rpcVars, waitErr, notes>>

TurnCanceled ==
    /\ caller = "turn" /\ canceled
    /\ Request("turn/interrupt")
    /\ UNCHANGED <<thread, calls, turnVars, answers, errVars, notes>>

(* Mutants: any completion ends the turn; only success ends it. *)
EndsAnyTurn(n) == n.kind \in Endings
EndsOnSuccess(n) == n.kind = "completed" /\ n.turn = turn

(* An end that names no turn ends the one being run. *)
EndsTurn(n) == n.kind \in Endings /\ n.turn \in {0, turn}

(* The code reads no turn id in a delta or an item. *)
TurnNote ==
    /\ caller = "turn" /\ notes # <<>>
    /\ notes' = Tail(notes)
    /\ LET n == Head(notes) IN
       \/ /\ n.kind = "delta"
          /\ collected' = collected \cup {n.turn}
          /\ UNCHANGED <<caller, turn, final, result, abandoned>>
       \/ /\ n.kind = "item"
          /\ final' = n.turn
          /\ UNCHANGED <<caller, turn, collected, result, abandoned>>
       \/ EndsTurn(n) /\ Return(n.kind)
       \/ n.kind \in Endings /\ ~EndsTurn(n) /\ UNCHANGED <<caller, turnVars>>
    /\ UNCHANGED <<method, id, thread, calls, rpcVars, errVars>>

(* Close, once the run is over: kill the server. *)
Close ==
    /\ caller = "idle"
    /\ canceled \/ result # NoResult
    /\ caller' = "closed"
    /\ alive' = FALSE /\ stderr' = "closed"
    /\ UNCHANGED <<method, id, thread, calls, turnVars, rpcVars, stdin, stdout, work>>

Calls == Start \/ RunTurn

Await == AwaitCanceled \/ AnswerRefused \/ Initialized \/ ThreadStarted \/ TurnStarted
         \/ InterruptAnswered

(* Mutant: the select knows nothing of the process. *)
SelectNotes == TurnCanceled \/ TurnNote

Select == TurnSeesExit \/ TurnSeesClosedStream \/ TurnCanceled \/ TurnNote

Caller == /\ \/ (Calls \/ Await) /\ UNCHANGED <<notes, errVars, serverVars>>
             \/ Select /\ UNCHANGED serverVars
             \/ (Write \/ Close) /\ UNCHANGED <<notes, errVars>>
          /\ UNCHANGED <<readers, canceled>>

-----------------------------------------------------------------------------
(* Mutant: the channel of an answered request stays registered. *)
HandleAnswerOnly(e) ==
    /\ answers' = IF e.id \in pending
                  THEN answers \cup {[id |-> e.id, ok |-> e.ok, turn |-> e.turn]}
                  ELSE answers
    /\ UNCHANGED <<pending, notes>>

(* handleEnvelope: an answer nobody waits for any more is dropped. *)
HandleAnswer(e) ==
    /\ answers' = IF e.id \in pending
                  THEN answers \cup {[id |-> e.id, ok |-> e.ok, turn |-> e.turn]}
                  ELSE answers
    /\ pending' = pending \ {e.id}
    /\ UNCHANGED notes

(* The reader waits, holding the line, while the channel is full. *)
HandleNote(e) ==
    /\ Len(notes) < Cap
    /\ notes' = Append(notes, [kind |-> e.kind, turn |-> e.turn])
    /\ UNCHANGED rpcVars

ReadLine ==
    /\ reader = "read" /\ stdout # <<>>
    /\ stdout' = Tail(stdout)
    /\ LET e == Head(stdout) IN
       IF e.kind = "answer" THEN HandleAnswer(e) ELSE HandleNote(e)
    /\ UNCHANGED <<callerVars, turnVars, readers, errVars, canceled, alive, stdin,
                   stderr, work>>

(* The end of a stream goes to the one place of readErr; the second reader *)
(* to get there waits until a turn takes what the first one put.           *)
StdoutEnds ==
    /\ reader = "read" /\ ~alive /\ stdout = <<>>
    /\ ~readErr
    /\ readErr' = TRUE
    /\ reader' = "stopped"
    /\ UNCHANGED <<callerVars, turnVars, rpcVars, notes, stderrReader, reaped, waitErr,
                   canceled, serverVars>>

StderrEnds ==
    /\ stderrReader = "read" /\ stderr = "closed"
    /\ ~readErr
    /\ readErr' = TRUE
    /\ stderrReader' = "stopped"
    /\ UNCHANGED <<callerVars, turnVars, rpcVars, notes, reader, reaped, waitErr,
                   canceled, serverVars>>

(* cmd.Wait returns and closes the pipe under the reader: the lines not    *)
(* read yet are lost, but for those already in its buffer.                 *)
Reap ==
    /\ ~alive /\ ~reaped
    /\ reaped' = TRUE
    /\ waitErr' = TRUE
    /\ \E k \in 0 .. Len(stdout) : stdout' = SubSeq(stdout, 1, k)
    /\ UNCHANGED <<callerVars, turnVars, rpcVars, notes, reader, stderrReader, readErr,
                   canceled, alive, stdin, stderr, work>>

Cancel ==
    /\ ~canceled /\ caller # "closed"
    /\ canceled' = TRUE
    /\ UNCHANGED <<callerVars, turnVars, rpcVars, notes, readers, errVars, serverVars>>

-----------------------------------------------------------------------------
(* The server. *)
Put(e) == stdout' = Append(stdout, e)

Running(t) == served[t] = "running"

(* The next request, in order.  An interrupt of a turn that is no longer   *)
(* running is refused.                                                     *)
Serve ==
    /\ alive /\ stdin # <<>>
    /\ stdin' = Tail(stdin)
    /\ LET r == Head(stdin)
           reply(ok, t) == [kind |-> "answer", id |-> r.id, ok |-> ok, turn |-> t] IN
       \/ /\ r.method \in {"initialize", "thread/start"}
          /\ \E ok \in BOOLEAN : Put(reply(ok, 0))
          /\ UNCHANGED work
       \/ /\ r.method = "turn/start"
          /\ Put(reply(FALSE, 0))
          /\ UNCHANGED work
       \/ /\ r.method = "turn/start"
          /\ Put(reply(TRUE, calls))
          /\ served' = [served EXCEPT ![calls] = "running"]
          /\ UNCHANGED <<sent, spoke>>
       \/ /\ r.method = "turn/interrupt"
          /\ stdout' = stdout \o
               IF Running(r.turn)
               THEN <<reply(TRUE, 0), [kind |-> "interrupted", turn |-> r.turn]>>
               ELSE <<reply(FALSE, 0)>>
          /\ served' = [served EXCEPT ![r.turn] =
                          IF Running(r.turn) THEN "interrupted" ELSE @]
          /\ UNCHANGED <<sent, spoke>>
    /\ UNCHANGED <<alive, stderr>>

Speak(t) ==
    /\ alive /\ Running(t) /\ sent[t] < MaxNotes
    /\ \E k \in {"delta", "item"} :
         /\ Put([kind |-> k, turn |-> t])
         /\ spoke' = [spoke EXCEPT ![t] = @ \/ k = "item"]
    /\ sent' = [sent EXCEPT ![t] = @ + 1]
    /\ UNCHANGED <<alive, stderr, stdin, served>>

FinishTurn(t) ==
    /\ alive /\ Running(t)
    /\ \E k \in {"completed", "failed"} :
         /\ Put([kind |-> k, turn |-> t])
         /\ served' = [served EXCEPT ![t] = k]
    /\ UNCHANGED <<alive, stderr, stdin, sent, spoke>>

Die ==
    /\ "die" \in Faults /\ alive
    /\ alive' = FALSE /\ stderr' = "closed"
    /\ UNCHANGED <<stdin, stdout, work>>

CloseStderr ==
    /\ "stderr" \in Faults /\ stderr = "open"
    /\ stderr' = "closed"
    /\ UNCHANGED <<alive, stdin, stdout, work>>

Server == /\ Serve \/ (\E t \in Turns : Speak(t) \/ FinishTurn(t)) \/ Die \/ CloseStderr
          /\ UNCHANGED <<callerVars, turnVars, rpcVars, notes, readers, errVars, canceled>>

-----------------------------------------------------------------------------
Readers == ReadLine \/ StdoutEnds \/ StderrEnds \/ Reap

Next == Caller \/ Readers \/ Cancel \/ Server

Spec == Init /\ [][Next]_vars

(* The goroutines are scheduled, and a server that lives answers its       *)
(* requests and finishes its turns.                                        *)
Fairness ==
    /\ WF_vars(Caller)
    /\ WF_vars(ReadLine)
    /\ WF_vars(StdoutEnds \/ StderrEnds)
    /\ WF_vars(Reap)
    /\ WF_vars(Serve /\ Server)
    /\ \A t \in Turns : WF_vars(FinishTurn(t) /\ Server)

FairSpec == Spec /\ Fairness

-----------------------------------------------------------------------------
(* Where the goroutines can be, and what the channels hold. *)
TypeOK ==
    /\ caller \in {"idle", "write", "await", "turn", "closed"}
    /\ method \in {"none", "initialize", "thread/start", "turn/start", "turn/interrupt"}
    /\ id \in Nat /\ calls \in 0 .. MaxTurns
    /\ thread \in BOOLEAN /\ canceled \in BOOLEAN
    /\ turn \in 0 .. MaxTurns /\ final \in 0 .. MaxTurns /\ collected \subseteq Turns
    /\ result.outcome \in {"none", "error", "canceled"} \cup Endings
    /\ abandoned \subseteq Turns
    /\ pending \subseteq 1 .. id
    /\ \A r \in answers : r.id \in (1 .. id) \ pending
    /\ Len(notes) <= Cap
    /\ readErr \in BOOLEAN /\ waitErr \in BOOLEAN /\ reaped \in BOOLEAN
    /\ {reader, stderrReader} \subseteq {"read", "stopped"}
    /\ alive \in BOOLEAN /\ stderr \in {"open", "closed"}
    /\ served \in [Turns -> {"none", "running"} \cup Endings]

(* RunTurn reports a turn as completed or failed only when the server      *)
(* ended that very turn so, whatever completions of turns given up earlier *)
(* are still in the pipe or in the channel.                                *)
TurnResultIsServers ==
    result.outcome \in {"completed", "failed"} => served[result.turn] = result.outcome

(* The response the policy searches for the completion marker is the whole *)
(* answer of the turn and nothing else, as long as no turn before it was   *)
(* given up while the server was still running it.                         *)
ResponseBelongsToTurn ==
    (result.outcome = "completed" /\ abandoned = {}) =>
      result.from = IF sent[result.turn] > 0 THEN {result.turn} ELSE {}

(* The client is a turn runner, as the engine takes it for one: it makes    *)
(* one call at a time, the server begins no turn nobody asked for, and     *)
(* each outcome tells what has become of the turn.  An interrupted turn    *)
(* has stopped, as RunTurn returns after the server took the interrupt     *)
(* though its context is already done; a turn that is given up was refused *)
(* or has lost its server, but for one at most, which is told that a       *)
(* living server has closed its stderr.                                    *)
Stage ==
    CASE caller \in {"idle", "closed"} -> caller
      [] caller = "turn" -> "turn"
      [] OTHER -> IF method \in {"initialize", "thread/start"} THEN "opening" ELSE "turn"

AgentState ==
    CASE ~alive -> "down"
      [] alive /\ stderr = "open" -> "up"
      [] OTHER -> IF stderrReader = "stopped" /\ ~readErr THEN "known" ELSE "mute"

Runner == INSTANCE TurnRunner WITH
    stage <- Stage,
    opened <- thread,
    outcome <- result.outcome,
    agent <- AgentState,
    work <- served

ClientIsRunner == Runner!Spec

(* A turn reported as interrupted no longer runs on a server that lives.   *)
InterruptStopsTurn ==
    (result.outcome = "interrupted" /\ alive) => served[result.turn] # "running"

(* A turn does not outlive its server: one of the three channels of the    *)
(* select always tells the caller, also when the only place of readErr was *)
(* used up by the end of stderr in an earlier turn.                        *)
TurnEndsWithServer == (caller = "turn" /\ ~alive) ~> caller # "turn"

(* Calls return.  In a run whose server lives and whose channel never      *)
(* fills, all do, canceled or not: no answer and no completion is lost     *)
(* between the reader and the caller.  A turn whose server dies does,      *)
(* whenever that is.                                                       *)
CallsReturn ==
    /\ [](alive /\ Len(notes) < Cap) =>
         (caller \in {"write", "await", "turn"} ~> caller \in {"idle", "closed"})
    /\ TurnEndsWithServer

(* specs/what-the-loop/SPEC.md, "Error Model": the engine must keep        *)
(* finding ways to proceed; no call of the runner is left waiting for an   *)
(* answer that cannot come.                                                *)
RunGoesOn == caller = "await" ~> caller # "await"

(* specs/what-the-loop/SPEC.md, "Exit": Ctrl+C stops the run. *)
CtrlCStopsTheRun == canceled ~> caller = "closed"
=============================================================================
