---------------------------- MODULE WtlContract ----------------------------
(***************************************************************************)
(* What a run of WhatTheLoop promises to the owner of its policy and to    *)
(* its observers, whatever the engine does inside: the lifecycle, the      *)
(* engine state model and the observer contract of                         *)
(* specs/what-the-loop/SPEC.md.                                            *)
(*                                                                         *)
(* A run is idle, then alternates between being ready, in a turn, deciding *)
(* what the policy's directive means, waiting or compacting, until it      *)
(* ends, once, with an outcome.                                            *)
(***************************************************************************)
EXTENDS Naturals

CONSTANTS MaxIter, MaxRetry

VARIABLES
    stage,    \* where the run is
    turns,    \* turns started
    fails,    \* turns in a row whose verdict was retry
    verdict,  \* the directive the last turn ended with
    outcome   \* how the run ended

contractVars == <<stage, turns, fails, verdict, outcome>>

Progress == {"continue", "advance_phase"}

Verdicts == Progress \cup {"wait", "retry", "compact", "complete", "unsupported"}

Init ==
    /\ stage = "idle"
    /\ turns = 0
    /\ fails = 0
    /\ verdict = "none"
    /\ outcome = "none"

Begin == /\ stage = "idle"
         /\ stage' = "ready"
         /\ UNCHANGED <<turns, fails, verdict, outcome>>

(* A turn starts only when the run is ready and the limit allows it. *)
StartTurn == /\ stage = "ready"
             /\ turns < MaxIter
             /\ stage' = "turn"
             /\ turns' = turns + 1
             /\ UNCHANGED <<fails, verdict, outcome>>

(* Every turn ends, with one directive; retries in a row are counted. *)
FinishTurn == /\ stage = "turn"
              /\ stage' = "deciding"
              /\ verdict' \in Verdicts
              /\ fails' = IF verdict' = "retry" THEN fails + 1 ELSE fails
              /\ UNCHANGED <<turns, outcome>>

(* The run goes on to its next turn; only progress clears the retries. *)
Continue == /\ stage = "deciding"
            /\ \/ verdict \in Progress /\ fails' = 0
               \/ verdict = "retry" /\ fails <= MaxRetry /\ UNCHANGED fails
            /\ stage' = "ready"
            /\ UNCHANGED <<turns, verdict, outcome>>

EnterWait == /\ \/ stage = "deciding" /\ verdict = "wait"
                \/ stage = "ready"
             /\ stage' = "waiting"
             /\ UNCHANGED <<turns, fails, verdict, outcome>>

LeaveWait == /\ stage = "waiting"
             /\ stage' = "ready"
             /\ fails' \in {0, fails}
             /\ UNCHANGED <<turns, verdict, outcome>>

EnterCompact == /\ stage = "deciding"
                /\ verdict = "compact"
                /\ stage' = "compacting"
                /\ UNCHANGED <<turns, fails, verdict, outcome>>

LeaveCompact == /\ stage = "compacting"
                /\ stage' = "ready"
                /\ UNCHANGED <<turns, fails, verdict, outcome>>

(* Completed only on the policy's word: its directive, or, before any      *)
(* turn, its initial state.                                                *)
EndCompleted == /\ \/ stage = "deciding" /\ verdict = "complete"
                   \/ stage = "ready" /\ turns = 0
                /\ outcome' = "completed"

(* Exhausted only when a limit is really reached. *)
EndExhausted == /\ \/ stage = "ready" /\ turns >= MaxIter
                   \/ stage = "deciding" /\ verdict = "retry" /\ fails > MaxRetry
                /\ outcome' = "exhausted"

(* Interrupted between turns or by the turn that the interrupt ended. *)
EndInterrupted == /\ stage = "ready" \/ (stage = "deciding" /\ verdict = "unsupported")
                  /\ outcome' = "interrupted"

EndFailed == /\ stage \in {"ready", "deciding", "waiting", "compacting"}
             /\ outcome' = "failed"

End == /\ EndCompleted \/ EndExhausted \/ EndInterrupted \/ EndFailed
       /\ stage' = "ended"
       /\ UNCHANGED <<turns, fails, verdict>>

Next == Begin \/ StartTurn \/ FinishTurn \/ Continue \/ EnterWait \/ LeaveWait
        \/ EnterCompact \/ LeaveCompact \/ End

Spec == Init /\ [][Next]_contractVars
=============================================================================
