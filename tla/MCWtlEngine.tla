---------------------------- MODULE MCWtlEngine ----------------------------
(* Policies and bounds for model checking WtlEngine. *)
EXTENDS WtlEngine

(* A policy that keeps the directive contract of the specification: retry  *)
(* and compact stay in the phase, wait gives a waiting state, complete a   *)
(* terminal one, and a failed turn is not complete.                        *)
Base(p, m) == [runnable |-> TRUE, waiting |-> FALSE, terminal |-> FALSE,
               directive |-> "continue", phase |-> p, mode |-> m]

Modes == {"reuse", "new"}

Blocked(s) == [s EXCEPT !.runnable = FALSE, !.waiting = TRUE, !.directive = "wait"]

Terminal(s, d) == [s EXCEPT !.runnable = FALSE, !.terminal = TRUE, !.directive = d]

AnyInitialize ==
    LET plans == {Base(p, m) : p \in Phases, m \in Modes} IN
    plans \cup {Blocked(s) : s \in plans}
          \cup {Terminal(s, d) : s \in plans, d \in {"complete", "continue"}}
          \cup {[s EXCEPT !.runnable = FALSE] : s \in plans}

Decide(d, s) == [directive |-> d, state |-> [s EXCEPT !.directive = d]]

ContractAfterTurn(s, o) ==
    LET failed == o.err # "none" \/ o.status = "failed" IN
    {Decide(d, s) : d \in {"retry", "compact", "unsupported"}}
      \cup {Decide("wait", Blocked(s))}
      \cup IF failed THEN {}
           ELSE {Decide("continue", s)}
                  \cup {Decide("advance_phase", Base(p, m)) : p \in Phases, m \in Modes}
                  \cup {Decide("complete", Terminal(s, "complete"))}

(* The answer to an input: a runnable plan, or blocked still, now with a   *)
(* new thread; a policy that answers every wait with another never ends.   *)
ContractOnWaitResolved(s) ==
    {Base(p, m) : p \in Phases, m \in Modes}
      \cup IF s.mode = "reuse" THEN {[s EXCEPT !.mode = "new"]} ELSE {}
=============================================================================
