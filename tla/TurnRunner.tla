----------------------------- MODULE TurnRunner -----------------------------
(***************************************************************************)
(* What the engine may take for granted of the runner it drives its turns  *)
(* with (type turnRunner, src/internal/wtl/engine.go), as appServerRunner  *)
(* keeps it: one call at a time, turns of the agent that no call asked for *)
(* never begin, and each outcome of a call says what has become of the     *)
(* turn at the agent.  How calls, answers and notifications travel is left *)
(* out: that is AppServerClient.                                           *)
(***************************************************************************)
EXTENDS Naturals

CONSTANT MaxTurns   \* bound: RunTurn calls

VARIABLES
    stage,     \* the call in progress: "idle" if there is none
    opened,    \* Start has returned a thread
    calls,     \* RunTurn calls made: the turn of the last one
    outcome,   \* how the last call ended
    canceled,  \* the context of the calls is done
    agent,     \* "up", "mute" once a stream of it has ended, "known" once a
               \* turn was told of that, or "down"
    work       \* what has become of each turn at the agent

runnerVars == <<stage, opened, calls, outcome, canceled, agent, work>>

Turns == 1 .. MaxTurns

Init ==
    /\ stage = "idle" /\ opened = FALSE /\ calls = 0 /\ outcome = "none"
    /\ canceled = FALSE
    /\ agent = "up"
    /\ work = [t \in Turns |-> "none"]

(* A runner is opened once, and nobody calls it again once a call was      *)
(* canceled or interrupted; that the context is canceled already hinders   *)
(* no call.                                                                *)
MayOpen == stage = "idle" /\ ~opened /\ outcome = "none"

MayCall == /\ stage = "idle" /\ opened /\ calls < MaxTurns
           /\ outcome \notin {"canceled", "interrupted"}

Open ==
    /\ MayOpen
    /\ stage' = "opening"
    /\ UNCHANGED <<opened, calls, outcome, canceled, agent, work>>

Opened ==
    /\ stage = "opening"
    /\ stage' = "idle" /\ opened' = TRUE
    /\ UNCHANGED <<calls, outcome, canceled, agent, work>>

Return(o) ==
    /\ stage' = "idle" /\ outcome' = o
    /\ UNCHANGED <<opened, calls, canceled, work>>

OpenFails ==
    /\ stage = "opening"
    /\ \/ Return("error")
       \/ canceled /\ Return("canceled")
    /\ UNCHANGED agent

Call ==
    /\ MayCall
    /\ stage' = "turn" /\ calls' = calls + 1
    /\ UNCHANGED <<opened, outcome, canceled, agent, work>>

(* Completed and failed are words of the agent, about this very turn. *)
TurnEnds ==
    /\ stage = "turn" /\ work[calls] \in {"completed", "failed"}
    /\ Return(work[calls])
    /\ UNCHANGED agent

(* Interrupted is a turn that goes on no more, and was meant to stop. *)
TurnStops ==
    /\ stage = "turn" /\ canceled
    /\ agent # "down" => work[calls] \in {"completed", "failed", "interrupted"}
    /\ Return("interrupted")
    /\ UNCHANGED agent

(* A turn is given up for lost only when the agent has refused it or is    *)
(* gone, or, once, when a stream of a living agent has ended.              *)
TurnFails ==
    /\ stage = "turn"
    /\ Return("error")
    /\ \/ agent = "mute" /\ agent' = "known"
       \/ agent = "down" /\ UNCHANGED agent
       \/ work[calls] = "none" /\ UNCHANGED agent

(* Canceled before the agent has said that the turn began: it may begin.   *)
TurnCanceled ==
    /\ stage = "turn" /\ canceled
    /\ Return("canceled")
    /\ UNCHANGED agent

Close ==
    /\ stage = "idle"
    /\ stage' = "closed" /\ agent' = "down"
    /\ UNCHANGED <<opened, calls, outcome, canceled, work>>

Cancel ==
    /\ ~canceled /\ stage # "closed"
    /\ canceled' = TRUE
    /\ UNCHANGED <<stage, opened, calls, outcome, agent, work>>

-----------------------------------------------------------------------------
(* The agent. *)
Works(t, k) ==
    /\ agent # "down"
    /\ work' = [work EXCEPT ![t] = k]
    /\ UNCHANGED <<stage, opened, calls, outcome, canceled, agent>>

(* A turn begins once, while its call waits for it, or was canceled. *)
TurnBegins ==
    /\ calls \in Turns /\ work[calls] = "none"
    /\ stage = "turn" \/ outcome = "canceled"
    /\ Works(calls, "running")

TurnFinishes(t) ==
    /\ work[t] = "running"
    /\ \E k \in {"completed", "failed"} : Works(t, k)

TurnInterrupted ==
    /\ canceled /\ calls \in Turns /\ work[calls] = "running"
    /\ Works(calls, "interrupted")

AgentFails ==
    /\ \/ agent = "up" /\ agent' \in {"mute", "down"}
       \/ agent \in {"mute", "known"} /\ agent' = "down"
    /\ UNCHANGED <<stage, opened, calls, outcome, canceled, work>>

Caller == \/ Open \/ Opened \/ OpenFails \/ Call
          \/ TurnEnds \/ TurnStops \/ TurnFails \/ TurnCanceled \/ Close

Agent == \/ TurnBegins \/ TurnInterrupted \/ AgentFails
         \/ \E t \in Turns : TurnFinishes(t)

Next == Caller \/ Cancel \/ Agent

Spec == Init /\ [][Next]_runnerVars
=============================================================================
