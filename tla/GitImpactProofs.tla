--------------------------- MODULE GitImpactProofs ---------------------------
(* git-impact analyze for every retry limit, every set of data fields the   *)
(* agent may send and every set of faults: consent, retries, the result and *)
(* the exit of the command.                                                 *)
EXTENDS GitImpact, WellFoundedInduction, TLAPS

AtWork == {"build", "turn", "handle", "dispatch"}

(* The retries of Run are those of the history, but while a wait is asked   *)
(* for; the cause of the end is known from Run's return on.                 *)
Budgeted ==
    /\ main \in AtWork \cup {"hung"} => run = "none" /\ misses = retries
    /\ main = "prompt" => run = "none" /\ misses = 0
    /\ main \notin AtWork \cup {"hung", "prompt"} => run # "none"
    /\ RetryBudget

(* What each phase has decided: the source check never ends the run nor     *)
(* lets it pass without consent, and the collector and linker have done     *)
(* their work when their phase is over.                                     *)
Consented ==
    /\ SourcesVouched
    /\ main = "dispatch" /\ phase = 1 =>
         directive = "wait" \/ (directive = "advance_phase" /\ vouched # "nobody")
    /\ main = "dispatch" /\ phase = 2 => config.github # NoKey

SentByAgent(field) == IF field \in supplied THEN "agent" ELSE "collector"

InPhase(p) == phase > p \/ (phase = p /\ main = "dispatch")

Sourced ==
    /\ main = "dispatch" /\ phase \in {2, 3} => directive = "advance_phase"
    /\ phase < 4 => supplied = {}
    /\ InPhase(2) => collected = SentByAgent("collected")
    /\ InPhase(3) => linked = SentByAgent("linked")
    /\ run = "completed" => phase > 3

(* The life of the progress screen, as far as the command relies on it. *)
Screened ==
    /\ ~tui => program = "ended"
    /\ main = "join" => tui
    /\ main = "report" => ~tui
    /\ main \in {"results", "exit"} => program \in {"ended", "failed"}
    /\ main = "results" => program = "ended" /\ run = "completed"
    /\ program = "failed" /\ "tui" \notin Faults => run = "unbuilt"
    /\ ExitTellsOutcome

ImpactInv == TypeOK /\ Budgeted /\ Consented /\ Sourced /\ Screened

-----------------------------------------------------------------------------
LEMMA PhaseFacts ==
  /\ Len(PhaseOrder) = 5 /\ Phases = 1..5
  /\ \A p \in Phases : /\ PhaseOrder[p] = "source_check" => p = 1
                       /\ PhaseOrder[p] = "collect" => p = 2
                       /\ PhaseOrder[p] = "link" => p = 3
                       /\ PhaseOrder[p] = "score" => p = 4
                       /\ PhaseOrder[p] = "report" => p = 5
  BY DEF PhaseOrder, Phases

LEMMA MessageTypes ==
  /\ Silence \in Messages
  /\ \A k \in {"wait", "answered", "completed", "exhausted"} : [kind |-> k] \in Messages
  /\ \A p \in Phases, n \in Nat : [kind |-> "turn", phase |-> p, turn |-> n] \in Messages
  /\ \A p, q \in Phases : [kind |-> "advanced", from |-> p, to |-> q] \in Messages
  BY DEF Messages

LEMMA Notified ==
  ASSUME NEW m \in Messages, Notify(m)
  PROVE  message' \in Messages
  BY MessageTypes DEF Notify

(* The return of Run: it hands over to the join, or straight to the report. *)
LEMMA ReturnsFacts ==
  ASSUME TypeOK, NEW cause \in Causes \ {"none"}, Returns(cause)
  PROVE  /\ run' = cause /\ message' \in Messages
         /\ main' = (IF tui THEN "join" ELSE "report")
         /\ main' \in {"join", "report"}
<1>1. [kind |-> IF cause = "completed" THEN "completed" ELSE "exhausted"] \in Messages
  BY MessageTypes
<1> QED BY <1>1, Notified DEF Returns, TypeOK

LEMMA InvInit == Init => ImpactInv
<1> SUFFICES ASSUME Init PROVE ImpactInv
  OBVIOUS
<1>1. screen \in [rows : [Phases -> {"waiting", "running", "done"}], phase : 0 .. Len(PhaseOrder),
                  turn : Nat, waiting : BOOLEAN, done : BOOLEAN, failed : BOOLEAN]
  BY PhaseFacts DEF Init
<1>2. TypeOK
  <2>1. phase \in Phases /\ iteration \in Nat /\ retries \in 0 .. MaxRetries
        /\ misses \in 0 .. MaxRetries + 1
    BY PhaseFacts, GitImpactAssumption DEF Init
  <2>2. message \in Messages /\ inbox \in Messages
    BY MessageTypes DEF Init
  <2>3. /\ tui \in BOOLEAN /\ prompts \in BOOLEAN /\ config \in ConfiguredKeys /\ vouched \in Vouchers
        /\ program \in {"starting", "running", "quitting", "ended", "failed"}
    BY DEF Init, Vouchers
  <2> QED BY <1>1, <2>1, <2>2, <2>3 DEF Init, TypeOK, Origins, Causes
<1>3. Budgeted
  BY GitImpactAssumption DEF Init, Budgeted, RetryBudget, AtWork
<1>4. Consented /\ Sourced /\ Screened
  BY DEF Init, Consented, SourcesVouched, Sourced, InPhase, SentByAgent, Screened, ExitTellsOutcome
<1> QED BY <1>2, <1>3, <1>4 DEF ImpactInv

-----------------------------------------------------------------------------
(* What ends a run outside its loop: only the command's part changes. *)
LEMMA EndsKeep ==
  ASSUME ImpactInv, NEW cause \in {"completed", "error"}, Returns(cause),
         main \in {"handle", "dispatch", "prompt"},
         cause = "completed" => phase > 3 /\ main = "dispatch",
         UNCHANGED <<engineVars, shown, tuiVars, terminals>>
  PROVE  ImpactInv'
<1>1. /\ run' = cause /\ message' \in Messages
      /\ main' = (IF tui THEN "join" ELSE "report") /\ main' \in {"join", "report"}
  BY ReturnsFacts DEF ImpactInv, Causes
<1> USE DEF ImpactInv, engineVars, dataVars, sourceVars, tuiVars, terminals
<1>2. TypeOK'
  BY <1>1 DEF TypeOK, Causes
<1>3. Budgeted'
  BY <1>1, GitImpactAssumption DEF Budgeted, RetryBudget, AtWork, TypeOK
<1>4. Consented'
  BY <1>1 DEF Consented, SourcesVouched
<1>5. Sourced'
  BY <1>1, PhaseFacts DEF Sourced, InPhase, SentByAgent, TypeOK
<1>6. Screened'
  BY <1>1 DEF Screened, ExitTellsOutcome, Budgeted, AtWork
<1> QED BY <1>2, <1>3, <1>4, <1>5, <1>6

Screens == [rows : [Phases -> {"waiting", "running", "done"}], phase : 0 .. Len(PhaseOrder),
            turn : Nat, waiting : BOOLEAN, done : BOOLEAN, failed : BOOLEAN]

(* The screen after the message of a turn, of the end, of an advance and of *)
(* an exhausted run.                                                        *)
Turned(s, m, r) ==
    [s EXCEPT !.phase = m.phase, !.turn = m.turn, !.waiting = FALSE, !.failed = FALSE, !.rows = r]

Ended(s, p, t, r) ==
    [s EXCEPT !.phase = p, !.turn = t, !.waiting = FALSE, !.done = TRUE, !.failed = FALSE, !.rows = r]

Advanced(s, p, r) == [s EXCEPT !.phase = p, !.rows = r]

Exhausted(s) == [s EXCEPT !.waiting = FALSE, !.failed = TRUE]

(* They are shown one field after the other. *)
LEMMA TurnShown ==
  ASSUME NEW s \in Screens, NEW m, m.phase \in 0 .. Len(PhaseOrder), m.turn \in Nat,
         NEW r \in [Phases -> {"waiting", "running", "done"}]
  PROVE  Turned(s, m, r) = [rows |-> r, phase |-> m.phase, turn |-> m.turn,
                            waiting |-> FALSE, done |-> s.done, failed |-> FALSE]
<1> DEFINE s1 == [s EXCEPT !.phase = m.phase]
           s2 == [s1 EXCEPT !.turn = m.turn]
           s3 == [s2 EXCEPT !.waiting = FALSE]
           s4 == [s3 EXCEPT !.failed = FALSE]
           s5 == [s4 EXCEPT !.rows = r]
<1>1. s5 = Turned(s, m, r)
  BY DEF Turned
<1>2. s1 \in Screens /\ s1.phase = m.phase /\ s1.done = s.done
  BY DEF Screens
<1> HIDE DEF s1
<1>3. s2 \in Screens /\ s2.phase = m.phase /\ s2.turn = m.turn /\ s2.done = s.done
  BY <1>2 DEF Screens
<1> HIDE DEF s2
<1>4. s3 \in Screens /\ s3.phase = m.phase /\ s3.turn = m.turn /\ s3.waiting = FALSE /\ s3.done = s.done
  BY <1>3 DEF Screens
<1> HIDE DEF s3
<1>5. /\ s4 \in Screens /\ s4.phase = m.phase /\ s4.turn = m.turn /\ s4.waiting = FALSE /\ s4.failed = FALSE
      /\ s4.done = s.done
  BY <1>4 DEF Screens
<1> HIDE DEF s4
<1>6. /\ s5 \in Screens /\ s5.phase = m.phase /\ s5.turn = m.turn /\ s5.waiting = FALSE /\ s5.failed = FALSE
      /\ s5.rows = r /\ s5.done = s.done
  BY <1>5 DEF Screens
<1> HIDE DEF s5
<1>7. s5 = [rows |-> r, phase |-> m.phase, turn |-> m.turn,
            waiting |-> FALSE, done |-> s.done, failed |-> FALSE]
  BY <1>6 DEF Screens
<1> QED BY <1>1, <1>7 DEF s1, s2, s3, s4, s5

LEMMA EndShown ==
  ASSUME NEW s \in Screens, NEW p \in 0 .. Len(PhaseOrder), NEW t \in Nat,
         NEW r \in [Phases -> {"waiting", "running", "done"}]
  PROVE  /\ Ended(s, p, t, r) \in Screens /\ Ended(s, p, t, r).turn = t /\ Ended(s, p, t, r).waiting = FALSE /\ Ended(s, p, t, r).done = TRUE
        
         /\ Ended(s, p, t, r).failed = FALSE /\ Ended(s, p, t, r).rows = r
<1> DEFINE s1 == [s EXCEPT !.phase = p]
           s2 == [s1 EXCEPT !.turn = t]
           s3 == [s2 EXCEPT !.waiting = FALSE]
           s4 == [s3 EXCEPT !.done = TRUE]
           s5 == [s4 EXCEPT !.failed = FALSE]
           s6 == [s5 EXCEPT !.rows = r]
<1>1. s6 = Ended(s, p, t, r)
  BY DEF Ended
<1>2. s1 \in Screens
  BY DEF Screens
<1> HIDE DEF s1
<1>3. s2 \in Screens /\ s2.turn = t
  BY <1>2 DEF Screens
<1> HIDE DEF s2
<1>4. s3 \in Screens /\ s3.turn = t /\ s3.waiting = FALSE
  BY <1>3 DEF Screens
<1> HIDE DEF s3
<1>5. s4 \in Screens /\ s4.turn = t /\ s4.waiting = FALSE /\ s4.done = TRUE
  BY <1>4 DEF Screens
<1> HIDE DEF s4
<1>6. /\ s5 \in Screens /\ s5.turn = t /\ s5.waiting = FALSE /\ s5.done = TRUE
      /\ s5.failed = FALSE
  BY <1>5 DEF Screens
<1> HIDE DEF s5
<1>7. /\ s6 \in Screens /\ s6.turn = t /\ s6.waiting = FALSE /\ s6.done = TRUE
      /\ s6.failed = FALSE /\ s6.rows = r
  BY <1>6 DEF Screens
<1> QED BY <1>1, <1>7 DEF s1, s2, s3, s4, s5

LEMMA AdvanceShown ==
  ASSUME NEW s \in Screens, NEW p \in 0 .. Len(PhaseOrder),
         NEW r \in [Phases -> {"waiting", "running", "done"}]
  PROVE  /\ Advanced(s, p, r) \in Screens /\ Advanced(s, p, r).rows = r /\ Advanced(s, p, r).turn = s.turn /\ Advanced(s, p, r).waiting = s.waiting
         /\ Advanced(s, p, r).done = s.done
         /\ Advanced(s, p, r).failed = s.failed
<1> DEFINE s1 == [s EXCEPT !.phase = p]
           s2 == [s1 EXCEPT !.rows = r]
<1>1. s2 = Advanced(s, p, r)
  BY DEF Advanced
<1>2. /\ s1 \in Screens /\ s1.turn = s.turn /\ s1.waiting = s.waiting /\ s1.done = s.done
      /\ s1.failed = s.failed
  BY DEF Screens
<1> HIDE DEF s1
<1>3. /\ s2 \in Screens /\ s2.rows = r /\ s2.turn = s.turn /\ s2.waiting = s.waiting
      /\ s2.done = s.done /\ s2.failed = s.failed
  BY <1>2 DEF Screens
<1> QED BY <1>1, <1>3 DEF s1

LEMMA ExhaustionShown ==
  ASSUME NEW s \in Screens
  PROVE  /\ Exhausted(s) \in Screens /\ Exhausted(s).waiting = FALSE
         /\ Exhausted(s).failed = TRUE /\ Exhausted(s).done = s.done
<1> DEFINE s1 == [s EXCEPT !.waiting = FALSE]
           s2 == [s1 EXCEPT !.failed = TRUE]
<1>1. s2 = Exhausted(s)
  BY DEF Exhausted
<1>2. s1 \in Screens /\ s1.waiting = FALSE /\ s1.done = s.done
  BY DEF Screens
<1> HIDE DEF s1
<1>3. s2 \in Screens /\ s2.waiting = FALSE /\ s2.failed = TRUE /\ s2.done = s.done
  BY <1>2 DEF Screens
<1> QED BY <1>1, <1>3 DEF s1

LEMMA UpdateShows ==
  ASSUME NEW s \in Screens, NEW m \in Messages \ {Silence}
  PROVE  LET u == Update(s, m) IN
         /\ u \in Screens
         /\ m.kind = "turn" =>
              /\ u.rows = SetRunning(s.rows, m.phase) /\ u.turn = m.turn
              /\ u.waiting = FALSE /\ u.failed = FALSE /\ u.done = s.done
         /\ m.kind = "advanced" =>
              /\ u.rows = SetRunning([s.rows EXCEPT ![m.from] = "done"], m.to)
              /\ u.turn = s.turn /\ u.waiting = s.waiting /\ u.failed = s.failed /\ u.done = s.done
         /\ m.kind \in {"wait", "answered"} =>
              /\ u.waiting = (m.kind = "wait")
              /\ u.rows = s.rows /\ u.turn = s.turn /\ u.failed = s.failed /\ u.done = s.done
         /\ m.kind = "completed" => u.done = TRUE /\ u.failed = FALSE
         /\ m.kind = "exhausted" => u.done = s.done /\ u.failed = TRUE
<1> DEFINE u == Update(s, m)
<1>0. s \in Screens
  OBVIOUS
<1>1. CASE m \in [kind : {"turn"}, phase : Phases, turn : Nat]
  <2> DEFINE r == SetRunning(s.rows, m.phase)
  <2>1. u = Turned(s, m, r)
    BY <1>1 DEF Update, Turned
  <2>2. r \in [Phases -> {"waiting", "running", "done"}] /\ m.phase \in 0 .. Len(PhaseOrder)
        /\ m.turn \in Nat /\ m.kind = "turn"
    BY <1>1, PhaseFacts DEF SetRunning
  <2> HIDE DEF u, r
  <2>3. /\ u \in Screens /\ u.turn = m.turn /\ u.waiting = FALSE
        /\ u.failed = FALSE /\ u.rows = r /\ u.done = s.done
    <3>1. u = [rows |-> r, phase |-> m.phase, turn |-> m.turn,
               waiting |-> FALSE, done |-> s.done, failed |-> FALSE]
      BY ONLY <2>1, <2>2, <1>0, TurnShown, Zenon
    <3> QED BY <2>2, <3>1, <1>0 DEF Screens
  <2> QED BY <2>2, <2>3 DEF u, r
<1>2. CASE m \in [kind : {"advanced"}, from : Phases, to : Phases]
  <2> DEFINE r == SetRunning([s.rows EXCEPT ![m.from] = "done"], m.to)
  <2>1. u = Advanced(s, m.to, r)
    BY <1>2 DEF Update, Advanced
  <2>2. r \in [Phases -> {"waiting", "running", "done"}] /\ m.to \in 0 .. Len(PhaseOrder)
        /\ m.kind = "advanced"
    BY <1>2, PhaseFacts DEF SetRunning
  <2> HIDE DEF u, r
  <2>3. /\ u \in Screens /\ u.rows = r
        /\ u.turn = s.turn /\ u.waiting = s.waiting /\ u.failed = s.failed /\ u.done = s.done
    BY ONLY <2>1, <2>2, <1>0, AdvanceShown
  <2> QED BY <2>2, <2>3 DEF u, r
<1>3. CASE m.kind \in {"wait", "answered"}
  BY <1>3 DEF Update, Screens
<1>4. CASE m.kind = "exhausted"
  <2>1. u = Exhausted(s)
    BY <1>4 DEF Update, Exhausted
  <2>2. u \in Screens /\ u.done = s.done /\ u.failed = TRUE
    BY <2>1, ExhaustionShown
  <2> QED BY <1>4, <2>2
<1>5. CASE m.kind = "completed"
  <2> DEFINE r == [p \in Phases |-> "done"]
             n == Len(PhaseOrder)
  <2>1. u = Ended(s, n, n, r)
    BY <1>5 DEF Update, Ended
  <2>2. r \in [Phases -> {"waiting", "running", "done"}] /\ n \in 0 .. Len(PhaseOrder) /\ n \in Nat
    BY PhaseFacts
  <2> HIDE DEF u, r, n
  <2>3. u \in Screens /\ u.done = TRUE /\ u.failed = FALSE
    BY ONLY <2>1, <2>2, <1>0, EndShown, ZenonT(60)
  <2> QED BY <1>5, <2>3 DEF u
<1> QED BY <1>1, <1>2, <1>3, <1>4, <1>5 DEF Messages

(* What happens on the screen alone. *)
LEMMA ProgramKeeps ==
  ASSUME ImpactInv, Program, UNCHANGED terminals
  PROVE  ImpactInv'
<1>1. UNCHANGED <<main, engineVars, run, shown, terminals>>
  BY DEF Program, ProgramStarts, Take, HandleMessage, ProgramEnds, ProgramFails
<1> USE DEF ImpactInv, engineVars, dataVars, sourceVars, tuiVars, terminals
<1>2. Budgeted' /\ Consented' /\ Sourced'
  BY <1>1 DEF Budgeted, RetryBudget, Consented, SourcesVouched, Sourced, InPhase, SentByAgent
<1>3. Screened'
  BY <1>1 DEF Program, ProgramStarts, Take, HandleMessage, Quits, ProgramEnds, ProgramFails,
              Screened, ExitTellsOutcome
<1>4. message' \in Messages /\ inbox' \in Messages
  BY MessageTypes DEF Program, ProgramStarts, Take, HandleMessage, ProgramEnds, ProgramFails, TypeOK
<1>5. program' \in {"starting", "running", "quitting", "ended", "failed"}
  BY DEF Program, ProgramStarts, Take, HandleMessage, ProgramEnds, ProgramFails, TypeOK
<1>6. screen' \in Screens
  <2>1. screen \in Screens /\ inbox \in Messages
    BY DEF TypeOK, Screens
  <2>2. CASE HandleMessage
    BY <2>1, <2>2, UpdateShows DEF HandleMessage
  <2>3. CASE UNCHANGED screen
    BY <2>1, <2>3
  <2> QED BY <2>2, <2>3 DEF Program, ProgramStarts, Take, ProgramEnds, ProgramFails
<1>7. TypeOK'
  BY <1>1, <1>4, <1>5, <1>6 DEF TypeOK, Screens
<1> QED BY <1>2, <1>3, <1>7

(* A handler's result: the run stays in its phase. *)
LEMMA YieldsKeep ==
  ASSUME ImpactInv, NEW d \in Directives, Yields(d), main = "handle",
         collected' \in Origins, linked' \in Origins, config' \in ConfiguredKeys /\ vouched' \in Vouchers,
         supplied' \subseteq {"collected", "linked"},
         Consented', Sourced', UNCHANGED terminals
  PROVE  ImpactInv'
<1> USE DEF ImpactInv, tuiVars, terminals
<1>1. TypeOK'
  BY DEF Yields, TypeOK
<1>2. Budgeted'
  BY DEF Yields, Budgeted, RetryBudget, AtWork
<1>3. Screened'
  BY DEF Yields, Screened, ExitTellsOutcome
<1> QED BY <1>1, <1>2, <1>3

LEMMA MinIn ==
  ASSUME NEW I \in SUBSET Nat, I # {}
  PROVE  Min(I) \in I
<1>1. \E x \in I : \A y \in I : x =< y
  <2>1. PICK x \in I : \A y \in I : ~ (<<y, x>> \in OpToRel(<, Nat))
    BY NatLessThanWellFounded, WFMin
  <2>2. ASSUME NEW y \in I
        PROVE  x =< y
    <3>1. y < x => <<y, x>> \in OpToRel(<, Nat)
      BY DEF OpToRel
    <3>2. ~ (y < x)
      BY <2>1, <3>1, Zenon
    <3> QED BY <3>2
  <2> QED BY <2>2
<1> QED BY <1>1 DEF Min

(* What the source check chooses is a source of the listing, or none. *)
LEMMA Chosen ==
  ASSUME NEW listing \in BoundedSeq(Sources, MaxSources)
  PROVE  /\ listing \in [1 .. Len(listing) -> Sources] /\ Len(listing) \in Nat
         /\ GitHubSource(listing) \in 0 .. Len(listing)
         /\ AnalyticsSource(listing) \in 0 .. Len(listing)
<1>1. listing \in [1 .. Len(listing) -> Sources] /\ Len(listing) \in Nat
  BY GitImpactAssumption DEF BoundedSeq, SeqOf
<1>2. ASSUME NEW l, Len(l) = Len(listing), NEW label
      PROVE  Labelled(l, label) \in 0 .. Len(listing)
  <2> DEFINE I == {i \in 1 .. Len(l) : label \in l[i].provider}
  <2>1. Labelled(l, label) = IF I # {} THEN Min(I) ELSE 0
    BY DEF Labelled, SelectInSeq
  <2>2. I # {} => Min(I) \in I
    <3>1. I \subseteq Nat
      BY <1>1, <1>2
    <3> QED BY <3>1, MinIn
  <2> QED BY <1>1, <1>2, <2>1, <2>2
<1>3. ASSUME NEW key
      PROVE  SourceByKey(listing, key) \in 0 .. Len(listing)
  <2> DEFINE I == {i \in 1 .. Len(listing) : listing[i].key = key}
  <2>1. SourceByKey(listing, key) = IF I # {} THEN Min(I) ELSE 0
    BY DEF SourceByKey, SelectInSeq
  <2>2. I # {} => Min(I) \in I
    <3>1. I \subseteq Nat
      BY <1>1
    <3> QED BY <3>1, MinIn
  <2> QED BY <1>1, <2>1, <2>2
<1>4. ASSUME NEW i \in 0 .. Len(listing)
      PROVE  Len(WithoutLabel(listing, i)) = Len(listing)
  <2>1. DOMAIN WithoutLabel(listing, i) = 1 .. Len(listing)
    BY <1>1 DEF WithoutLabel
  <2> QED BY <1>1, <2>1 DEF WithoutLabel
<1>5. GitHubSource(listing) \in 0 .. Len(listing)
  BY <1>2, <1>3 DEF GitHubSource
<1>6. AnalyticsSource(listing) \in 0 .. Len(listing)
  BY <1>2, <1>3, <1>4 DEF AnalyticsSource
<1> QED BY <1>1, <1>5, <1>6

(* The check writes keys and clears none; it passes with both. *)
LEMMA CheckedSources ==
  ASSUME config \in ConfiguredKeys, NEW listing \in BoundedSeq(Sources, MaxSources),
         CheckSources(listing)
  PROVE  /\ config' \in ConfiguredKeys
         /\ config.github # NoKey => config'.github # NoKey
         /\ config.analytics # NoKey => config'.analytics # NoKey
         /\ \/ /\ Yields("advance_phase") /\ vouched' = "check"
               /\ config'.github # NoKey /\ config'.analytics # NoKey
            \/ Yields("wait") /\ UNCHANGED vouched
<1> DEFINE g == GitHubSource(listing)
           a == AnalyticsSource(listing)
           gk == IF g = 0 THEN config.github ELSE listing[g].key
           ak == IF a = 0 THEN config.analytics ELSE listing[a].key
<1>1. /\ g # 0 => listing[g].key \in SourceKeys
      /\ a # 0 => listing[a].key \in SourceKeys
  <2>1. /\ listing \in [1 .. Len(listing) -> Sources] /\ Len(listing) \in Nat
        /\ g \in 0 .. Len(listing) /\ a \in 0 .. Len(listing)
    BY Chosen
  <2> HIDE DEF g, a
  <2> QED BY <2>1 DEF Sources
<1>2. config' = [github |-> gk, analytics |-> ak]
  BY DEF CheckSources
<1>3. config.github \in SourceKeys \cup {NoKey} /\ config.analytics \in SourceKeys \cup {NoKey}
  BY DEF ConfiguredKeys
<1>4. gk \in SourceKeys \cup {NoKey} /\ ak \in SourceKeys \cup {NoKey}
  BY <1>1, <1>3
<1>5. config' \in ConfiguredKeys /\ config'.github = gk /\ config'.analytics = ak
  BY <1>2, <1>4 DEF ConfiguredKeys
<1>6. NoKey \notin SourceKeys
  BY GitImpactAssumption
<1>7. IF g # 0 /\ a # 0 THEN Yields("advance_phase") /\ vouched' = "check"
                         ELSE Yields("wait") /\ UNCHANGED vouched
  BY DEF CheckSources
<1> HIDE DEF g, a
<1> QED BY <1>1, <1>3, <1>5, <1>6, <1>7

LEMMA SourceCheckKeeps ==
  ASSUME ImpactInv, SourceCheck, UNCHANGED terminals
  PROVE  ImpactInv'
<1>1. phase = 1 /\ main = "handle" /\ config \in ConfiguredKeys
  BY PhaseFacts DEF SourceCheck, In, ImpactInv, TypeOK
<1>2. CASE Fails
  BY <1>1, <1>2, EndsKeep DEF Fails
<1>3. ASSUME NEW d \in {"advance_phase", "wait"}, Yields(d), UNCHANGED dataVars,
             config' \in ConfiguredKeys, vouched' \in Vouchers,
             d = "advance_phase" => vouched' # "nobody",
             vouched' = "check" => config'.github # NoKey /\ config'.analytics # NoKey
      PROVE  ImpactInv'
  <2>1. /\ main' = "dispatch" /\ directive' = d /\ UNCHANGED <<phase, run>>
        /\ UNCHANGED <<collected, linked, supplied>>
    BY <1>3 DEF Yields, dataVars
  <2>2. Consented'
    BY <1>1, <1>3, <2>1 DEF Consented, SourcesVouched
  <2>3. Sourced'
    BY <1>1, <2>1 DEF ImpactInv, Sourced, InPhase, SentByAgent
  <2>4. d \in Directives
    BY DEF Directives
  <2>5. collected' \in Origins /\ linked' \in Origins /\ supplied' \subseteq {"collected", "linked"}
    BY <2>1 DEF ImpactInv, TypeOK
  <2> QED BY <1>1, <1>3, <2>2, <2>3, <2>4, <2>5, YieldsKeep
<1>4. CASE SourceAnswered /\ UNCHANGED dataVars
  BY <1>1, <1>3, <1>4 DEF SourceAnswered, Vouchers
<1>5. ASSUME NEW listing \in BoundedSeq(Sources, MaxSources), CheckSources(listing),
             UNCHANGED dataVars
      PROVE  ImpactInv'
  <2>1. vouched \in Vouchers
        /\ (vouched = "check" => config.github # NoKey /\ config.analytics # NoKey)
    BY DEF ImpactInv, TypeOK, Consented, SourcesVouched
  <2>2. CASE /\ Yields("advance_phase") /\ vouched' = "check"
             /\ config'.github # NoKey /\ config'.analytics # NoKey
    BY <1>1, <1>3, <1>5, <2>2, CheckedSources DEF Vouchers
  <2>3. CASE Yields("wait") /\ UNCHANGED vouched
    BY <1>1, <1>3, <1>5, <2>1, <2>3, CheckedSources
  <2> QED BY <1>1, <1>5, <2>2, <2>3, CheckedSources
<1> QED BY <1>2, <1>4, <1>5 DEF SourceCheck

LEMMA CollectKeeps ==
  ASSUME ImpactInv, Collect, UNCHANGED terminals
  PROVE  ImpactInv'
<1>1. phase = 2 /\ main = "handle"
  BY PhaseFacts DEF Collect, In, ImpactInv, TypeOK
<1>2. CASE Fails
  BY <1>1, <1>2, EndsKeep DEF Fails
<1>3. CASE /\ config.github # NoKey /\ Yields("advance_phase") /\ collected' = "collector"
           /\ UNCHANGED <<linked, supplied, config, vouched>>
  <2>1. /\ main' = "dispatch" /\ directive' = "advance_phase" /\ UNCHANGED <<phase, run>>
        /\ supplied = {}
    BY <1>1, <1>3 DEF Yields, ImpactInv, Sourced
  <2>2. Consented'
    BY <1>1, <1>3, <2>1 DEF ImpactInv, Consented, SourcesVouched
  <2>3. Sourced'
    BY <1>1, <1>3, <2>1 DEF ImpactInv, Sourced, InPhase, SentByAgent
  <2>4. "advance_phase" \in Directives /\ collected' \in Origins /\ linked' \in Origins
        /\ supplied' \subseteq {"collected", "linked"} /\ config' \in ConfiguredKeys /\ vouched' \in Vouchers
    BY <1>3 DEF Directives, Origins, ImpactInv, TypeOK
  <2> QED BY <1>1, <1>3, <2>2, <2>3, <2>4, YieldsKeep
<1> QED BY <1>2, <1>3 DEF Collect, sourceVars

LEMMA LinkKeeps ==
  ASSUME ImpactInv, Link, UNCHANGED terminals
  PROVE  ImpactInv'
<1>1. phase = 3 /\ main = "handle"
  BY PhaseFacts DEF Link, In, ImpactInv, TypeOK
<1>2. CASE Fails
  BY <1>1, <1>2, EndsKeep DEF Fails
<1>3. CASE Yields("advance_phase") /\ linked' = collected /\ UNCHANGED <<collected, supplied, config, vouched>>
  <2>1. /\ main' = "dispatch" /\ directive' = "advance_phase" /\ UNCHANGED <<phase, run>>
        /\ supplied = {} /\ collected = "collector"
    BY <1>1, <1>3 DEF Yields, ImpactInv, Sourced, InPhase, SentByAgent
  <2>2. Consented'
    BY <1>1, <1>3, <2>1 DEF ImpactInv, Consented, SourcesVouched
  <2>3. Sourced'
    BY <1>1, <1>3, <2>1 DEF ImpactInv, Sourced, InPhase, SentByAgent
  <2>4. "advance_phase" \in Directives /\ collected' \in Origins /\ linked' \in Origins
        /\ supplied' \subseteq {"collected", "linked"} /\ config' \in ConfiguredKeys /\ vouched' \in Vouchers
    BY <1>3 DEF Directives, Origins, ImpactInv, TypeOK
  <2> QED BY <1>1, <1>3, <2>2, <2>3, <2>4, YieldsKeep
<1> QED BY <1>2, <1>3 DEF Link, sourceVars

(* The payload of the agent replaces what it names and nothing else, since  *)
(* all was collected and linked before.                                     *)
LEMMA ScoreKeeps ==
  ASSUME ImpactInv, Score, UNCHANGED terminals
  PROVE  ImpactInv'
<1>1. phase = 4 /\ main = "handle" /\ collected = SentByAgent("collected")
      /\ linked = SentByAgent("linked")
  BY PhaseFacts DEF Score, In, ImpactInv, TypeOK, Sourced, InPhase
<1>2. CASE Fails
  BY <1>1, <1>2, EndsKeep DEF Fails
<1>3. ASSUME NEW d \in Directives, Yields(d), UNCHANGED <<config, vouched>>,
             collected' = SentByAgent("collected")', linked' = SentByAgent("linked")',
             supplied' \subseteq {"collected", "linked"}
      PROVE  ImpactInv'
  <2>1. main' = "dispatch" /\ directive' = d /\ UNCHANGED <<phase, run>>
    BY <1>3 DEF Yields
  <2>2. Consented'
    BY <1>1, <1>3, <2>1 DEF ImpactInv, Consented, SourcesVouched
  <2>3. Sourced'
    BY <1>1, <1>3, <2>1 DEF ImpactInv, Sourced, InPhase
  <2>4. collected' \in Origins /\ linked' \in Origins /\ config' \in ConfiguredKeys /\ vouched' \in Vouchers
    BY <1>3 DEF Origins, SentByAgent, ImpactInv, TypeOK
  <2> QED BY <1>1, <1>3, <2>2, <2>3, <2>4, YieldsKeep
<1>4. CASE ScoreTurnFails
  <2>1. "retry" \in Directives /\ supplied' \subseteq {"collected", "linked"}
    BY <1>4 DEF Directives, ScoreTurnFails, dataVars, sourceVars, ImpactInv, TypeOK
  <2> QED BY <1>1, <1>3, <1>4, <2>1 DEF ScoreTurnFails, dataVars, sourceVars, SentByAgent
<1>5. CASE ScorePayload
  <2>1. PICK d \in Directives, fields \in SUBSET AgentData, unavailable \in BOOLEAN :
          /\ Applies(fields)
          /\ Yields(IF unavailable THEN "advance_phase" ELSE d)
          /\ UNCHANGED sourceVars
    BY <1>5 DEF ScorePayload
  <2>2. (IF unavailable THEN "advance_phase" ELSE d) \in Directives
    BY DEF Directives
  <2>3. collected # "none" /\ linked # "none"
    BY <1>1 DEF SentByAgent
  <2>4. /\ supplied' = supplied \cup (fields \cap {"collected", "linked"})
        /\ collected' = (IF "collected" \in fields THEN "agent" ELSE collected)
        /\ linked' = (IF "linked" \in fields THEN "agent" ELSE linked)
    BY <2>1, <2>3 DEF Applies
  <2>5. /\ collected' = SentByAgent("collected")' /\ linked' = SentByAgent("linked")'
        /\ supplied' \subseteq {"collected", "linked"}
    BY <1>1, <2>4 DEF SentByAgent, ImpactInv, TypeOK
  <2> QED BY <1>3, <2>1, <2>2, <2>5 DEF sourceVars
<1>6. CASE ScoreHangs
  <2>1. main' = "hung" /\ UNCHANGED <<engineVars, run, shown, message, tuiVars, terminals>>
    BY <1>6 DEF ScoreHangs
  <2> USE DEF ImpactInv, engineVars, dataVars, sourceVars, tuiVars, terminals
  <2>2. TypeOK' /\ Budgeted'
    BY <1>1, <2>1 DEF TypeOK, Budgeted, RetryBudget, AtWork
  <2>3. Consented' /\ Sourced'
    BY <1>1, <2>1 DEF Consented, SourcesVouched, Sourced, InPhase, SentByAgent
  <2>4. Screened'
    BY <1>1, <2>1 DEF Screened, ExitTellsOutcome
  <2> QED BY <2>2, <2>3, <2>4
<1> QED BY <1>2, <1>4, <1>5, <1>6 DEF Score, ScoreAborts

LEMMA ReportKeeps ==
  ASSUME ImpactInv, Report, UNCHANGED terminals
  PROVE  ImpactInv'
<1>1. phase = 5 /\ main = "handle"
  BY PhaseFacts DEF Report, In, ImpactInv, TypeOK
<1>2. /\ main' = "dispatch" /\ directive' = "complete" /\ UNCHANGED <<phase, run>>
      /\ UNCHANGED <<collected, linked, supplied, config, vouched>>
  BY DEF Report, Yields, dataVars, sourceVars
<1>3. Consented'
  BY <1>1, <1>2 DEF ImpactInv, Consented, SourcesVouched
<1>4. Sourced'
  BY <1>1, <1>2 DEF ImpactInv, Sourced, InPhase, SentByAgent
<1>5. /\ "complete" \in Directives /\ collected' \in Origins /\ linked' \in Origins
      /\ supplied' \subseteq {"collected", "linked"} /\ config' \in ConfiguredKeys /\ vouched' \in Vouchers
  BY <1>2 DEF Directives, ImpactInv, TypeOK
<1> QED BY <1>1, <1>3, <1>4, <1>5, YieldsKeep DEF Report

-----------------------------------------------------------------------------
(* The command's own steps between the handlers. *)
LEMMA BuildKeeps ==
  ASSUME ImpactInv, BuildEngine \/ BuildFails, UNCHANGED terminals
  PROVE  ImpactInv'
<1> USE DEF ImpactInv, engineVars, dataVars, sourceVars, tuiVars, terminals
<1>1. TypeOK'
  <2>1. CASE BuildEngine
    BY <2>1 DEF BuildEngine, TypeOK
  <2>2. CASE BuildFails
    <3>1. program' \in {"starting", "running", "quitting", "ended", "failed"}
      BY <2>2 DEF BuildFails, TypeOK
    <3>2. run' \in Causes /\ main' \in {"join", "report"}
      BY <2>2 DEF BuildFails, Causes
    <3> QED BY <2>2, <3>1, <3>2 DEF BuildFails, TypeOK
  <2> QED BY <2>1, <2>2
<1>2. Budgeted'
  BY GitImpactAssumption DEF BuildEngine, BuildFails, Budgeted, RetryBudget, AtWork, TypeOK
<1>3. Consented' /\ Sourced'
  BY DEF BuildEngine, BuildFails, Consented, SourcesVouched, Sourced, InPhase, SentByAgent
<1>4. Screened'
  BY DEF BuildEngine, BuildFails, Screened, ExitTellsOutcome, Budgeted, AtWork
<1> QED BY <1>1, <1>2, <1>3, <1>4

LEMMA TurnStartsKeeps ==
  ASSUME ImpactInv, TurnStarts, UNCHANGED terminals
  PROVE  ImpactInv'
<1> USE DEF ImpactInv, dataVars, sourceVars, tuiVars, terminals
<1>1. message' \in Messages /\ iteration' \in Nat
  BY MessageTypes, Notified DEF TurnStarts, TypeOK
<1>2. TypeOK'
  BY <1>1 DEF TurnStarts, TypeOK
<1>3. Budgeted'
  BY DEF TurnStarts, Budgeted, RetryBudget, AtWork
<1>4. Consented' /\ Sourced'
  BY DEF TurnStarts, Consented, SourcesVouched, Sourced, InPhase, SentByAgent
<1>5. Screened'
  BY DEF TurnStarts, Screened, ExitTellsOutcome
<1> QED BY <1>2, <1>3, <1>4, <1>5

LEMMA AdvanceKeeps ==
  ASSUME ImpactInv, Advance, UNCHANGED terminals
  PROVE  ImpactInv'
<1> USE DEF ImpactInv, dataVars, sourceVars, tuiVars, terminals
<1>1. /\ main = "dispatch" /\ directive = "advance_phase" /\ run = "none" /\ phase \in 1 .. 5
      /\ retries' = 0 /\ misses' = 0
      /\ UNCHANGED <<iteration, directive, answer, collected, linked, supplied, config, vouched, shown>>
      /\ UNCHANGED <<inbox, program, screen, tui, prompts>>
  BY PhaseFacts DEF Advance, Decided, Budgeted, AtWork, TypeOK
<1>2. CASE phase < 5
  <2>1. /\ phase' = phase + 1 /\ main' = "turn" /\ UNCHANGED run
        /\ Notify([kind |-> "advanced", from |-> phase, to |-> phase + 1])
    BY <1>2, PhaseFacts DEF Advance
  <2>2. phase' \in Phases /\ phase \in Phases
    BY <1>1, <1>2, <2>1, PhaseFacts
  <2>3. message' \in Messages
    BY <2>1, <2>2, MessageTypes, Notified
  <2>4. TypeOK'
    BY <1>1, <2>1, <2>2, <2>3, GitImpactAssumption DEF TypeOK
  <2>5. Budgeted'
    BY <1>1, <2>1, GitImpactAssumption DEF Budgeted, RetryBudget, AtWork
  <2>6. Consented'
    BY <1>1, <2>1 DEF Consented, SourcesVouched
  <2>7. Sourced'
    BY <1>1, <2>1 DEF Sourced, InPhase, SentByAgent
  <2>8. Screened'
    BY <1>1, <2>1 DEF Screened, ExitTellsOutcome
  <2> QED BY <2>4, <2>5, <2>6, <2>7, <2>8
<1>3. CASE phase = 5
  <2>1. Returns("completed") /\ UNCHANGED phase
    BY <1>3, PhaseFacts DEF Advance
  <2>2. /\ run' = "completed" /\ message' \in Messages
        /\ main' = (IF tui THEN "join" ELSE "report") /\ main' \in {"join", "report"}
    BY <2>1, ReturnsFacts DEF Causes
  <2>3. TypeOK'
    BY <1>1, <2>1, <2>2, GitImpactAssumption DEF TypeOK, Causes
  <2>4. Budgeted'
    BY <1>1, <2>2, GitImpactAssumption DEF Budgeted, RetryBudget, AtWork
  <2>5. Consented'
    BY <1>1, <2>1, <2>2 DEF Consented, SourcesVouched
  <2>6. Sourced'
    BY <1>1, <1>3, <2>1, <2>2 DEF Sourced, InPhase, SentByAgent
  <2>7. Screened'
    BY <1>1, <2>2 DEF Screened, ExitTellsOutcome
  <2> QED BY <2>3, <2>4, <2>5, <2>6, <2>7
<1> QED BY <1>1, <1>2, <1>3

(* Only the agent and the report may complete: the earlier phases do not. *)
LEMMA CompleteKeeps ==
  ASSUME ImpactInv, Complete, UNCHANGED terminals
  PROVE  ImpactInv'
<1>1. main = "dispatch" /\ directive = "complete" /\ phase \in 1 .. 5
  BY PhaseFacts DEF Complete, Decided, ImpactInv, TypeOK
<1>2. phase > 3
  BY <1>1 DEF ImpactInv, Consented, Sourced
<1> QED BY <1>1, <1>2, EndsKeep DEF Complete

LEMMA RetryKeeps ==
  ASSUME ImpactInv, Retry, UNCHANGED terminals
  PROVE  ImpactInv'
<1> USE DEF ImpactInv, dataVars, sourceVars, tuiVars, terminals
<1>1. /\ main = "dispatch" /\ run = "none" /\ misses = retries /\ misses' = misses + 1
      /\ retries \in 0 .. MaxRetries
      /\ UNCHANGED <<phase, iteration, directive, answer, collected, linked, supplied, config, vouched, shown>>
      /\ UNCHANGED <<inbox, program, screen, tui, prompts>>
  BY DEF Retry, Decided, Budgeted, AtWork, TypeOK
<1>2. CASE MayRetry
  <2>1. retries' = retries + 1 /\ main' = "turn" /\ UNCHANGED <<run, message>>
    BY <1>2 DEF Retry
  <2>2. retries' \in 0 .. MaxRetries /\ misses' \in 0 .. MaxRetries + 1 /\ misses' # MaxRetries + 1
    BY <1>1, <1>2, <2>1, GitImpactAssumption DEF MayRetry
  <2>3. TypeOK'
    BY <1>1, <2>1, <2>2 DEF TypeOK
  <2>4. Budgeted'
    BY <1>1, <2>1, <2>2, GitImpactAssumption DEF Budgeted, RetryBudget, AtWork
  <2>5. Consented'
    BY <1>1, <2>1 DEF Consented, SourcesVouched
  <2>6. Sourced'
    BY <1>1, <2>1 DEF Sourced, InPhase, SentByAgent
  <2>7. Screened'
    BY <1>1, <2>1 DEF Screened, ExitTellsOutcome
  <2> QED BY <2>3, <2>4, <2>5, <2>6, <2>7
<1>3. CASE ~MayRetry
  <2>1. Returns("retries") /\ UNCHANGED retries
    BY <1>3 DEF Retry
  <2>2. /\ run' = "retries" /\ message' \in Messages
        /\ main' = (IF tui THEN "join" ELSE "report") /\ main' \in {"join", "report"}
    BY <2>1, ReturnsFacts DEF Causes
  <2>3. misses' = MaxRetries + 1
    BY <1>1, <1>3, GitImpactAssumption DEF MayRetry
  <2>4. TypeOK'
    BY <1>1, <2>1, <2>2, <2>3, GitImpactAssumption DEF TypeOK, Causes
  <2>5. Budgeted'
    BY <1>1, <2>2, <2>3, GitImpactAssumption DEF Budgeted, RetryBudget, AtWork
  <2>6. Consented'
    BY <1>1, <2>2 DEF Consented, SourcesVouched
  <2>7. Sourced'
    BY <1>1, <2>2 DEF Sourced, InPhase, SentByAgent
  <2>8. Screened'
    BY <1>1, <2>2 DEF Screened, ExitTellsOutcome
  <2> QED BY <2>4, <2>5, <2>6, <2>7, <2>8
<1> QED BY <1>2, <1>3

LEMMA ContinueKeeps ==
  ASSUME ImpactInv, Continue, UNCHANGED terminals
  PROVE  ImpactInv'
<1> USE DEF ImpactInv, dataVars, sourceVars, tuiVars, terminals
<1>1. TypeOK'
  BY GitImpactAssumption DEF Continue, Decided, TypeOK
<1>2. Budgeted'
  BY GitImpactAssumption DEF Continue, Decided, Budgeted, RetryBudget, AtWork
<1>3. Consented' /\ Sourced'
  BY DEF Continue, Decided, Consented, SourcesVouched, Sourced, InPhase, SentByAgent
<1>4. Screened'
  BY DEF Continue, Decided, Screened, ExitTellsOutcome
<1> QED BY <1>1, <1>2, <1>3, <1>4

LEMMA WaitKeeps ==
  ASSUME ImpactInv, WaitEntered \/ Prompt, UNCHANGED terminals
  PROVE  ImpactInv'
<1> USE DEF ImpactInv, dataVars, sourceVars, tuiVars, terminals
<1>1. message' \in Messages
  BY MessageTypes, Notified DEF WaitEntered, Prompt, Answered
<1>2. TypeOK'
  <2>1. CASE WaitEntered
    BY <1>1, <2>1, GitImpactAssumption DEF WaitEntered, Decided, TypeOK
  <2>2. CASE Prompt
    <3>1. answer' \in {"y", "n", "other", "empty"} /\ retries' = 0 /\ main' = "turn"
      BY <2>2 DEF Prompt, Answered
    <3>2. UNCHANGED <<phase, iteration, directive, dataVars, misses, sourceVars, run, shown, tuiVars>>
      BY <2>2 DEF Prompt
    <3> QED BY <1>1, <3>1, <3>2, GitImpactAssumption DEF TypeOK
  <2> QED BY <2>1, <2>2
<1>3. Budgeted'
  BY GitImpactAssumption DEF WaitEntered, Decided, Prompt, Answered, Budgeted, RetryBudget, AtWork
<1>4. Consented' /\ Sourced'
  BY DEF WaitEntered, Decided, Prompt, Answered, Consented, SourcesVouched, Sourced, InPhase, SentByAgent
<1>5. Screened'
  BY DEF WaitEntered, Decided, Prompt, Answered, Screened, ExitTellsOutcome
<1> QED BY <1>2, <1>3, <1>4, <1>5

LEMMA PromptFailsKeeps ==
  ASSUME ImpactInv, PromptFails, UNCHANGED terminals
  PROVE  ImpactInv'
  BY EndsKeep DEF PromptFails, Fails

(* The end of the command: what it shows is decided once, from the run and  *)
(* from the screen's own end.                                               *)
LEMMA CommandEndKeeps ==
  ASSUME ImpactInv, SendDropped \/ Join \/ ShowResults \/ EmitResult, UNCHANGED terminals
  PROVE  ImpactInv'
<1> USE DEF ImpactInv, engineVars, dataVars, sourceVars, tuiVars, terminals
<1>1. TypeOK'
  <2>1. CASE SendDropped
    BY <2>1, MessageTypes DEF SendDropped, TypeOK
  <2>2. CASE Join
    BY <2>2 DEF Join, TypeOK
  <2>3. CASE ShowResults
    BY <2>3 DEF ShowResults, TypeOK
  <2>4. CASE EmitResult
    BY <2>4 DEF EmitResult, TypeOK
  <2> QED BY <2>1, <2>2, <2>3, <2>4
<1>2. Budgeted'
  BY DEF SendDropped, Join, ShowResults, EmitResult, Budgeted, RetryBudget, AtWork
<1>3. Consented' /\ Sourced'
  BY DEF SendDropped, Join, ShowResults, EmitResult, Consented, SourcesVouched, Sourced, InPhase,
         SentByAgent
<1>4. Screened'
  <2>1. CASE SendDropped
    BY <2>1 DEF SendDropped, Screened, ExitTellsOutcome
  <2>2. CASE Join
    BY <2>2 DEF Join, Screened, ExitTellsOutcome
  <2>3. CASE ShowResults
    BY <2>3 DEF ShowResults, Screened, ExitTellsOutcome
  <2>4. CASE EmitResult
    BY <2>4 DEF EmitResult, Screened, ExitTellsOutcome
  <2> QED BY <2>1, <2>2, <2>3, <2>4
<1> QED BY <1>1, <1>2, <1>3, <1>4

LEMMA InvStep == ImpactInv /\ [Next]_vars => ImpactInv'
<1> SUFFICES ASSUME ImpactInv, [Next]_vars PROVE ImpactInv'
  OBVIOUS
<1>1. CASE UNCHANGED vars
  <2> USE <1>1 DEF vars, terminals, engineVars, dataVars, sourceVars, tuiVars, ImpactInv
  <2>1. TypeOK'
    BY DEF TypeOK
  <2>2. Budgeted' /\ Consented' /\ Sourced' /\ Screened'
    BY DEF Budgeted, RetryBudget, Consented, SourcesVouched, Sourced, InPhase, SentByAgent,
           Screened, ExitTellsOutcome
  <2> QED BY <2>1, <2>2
<1>2. CASE Next
  <2> USE <1>2 DEF Next
  <2>1. CASE BuildEngine \/ BuildFails
    BY <2>1, BuildKeeps
  <2>2. CASE TurnStarts
    BY <2>2, TurnStartsKeeps
  <2>3. CASE SourceCheck
    BY <2>3, SourceCheckKeeps
  <2>4. CASE Collect
    BY <2>4, CollectKeeps
  <2>5. CASE Link
    BY <2>5, LinkKeeps
  <2>6. CASE Score
    BY <2>6, ScoreKeeps
  <2>7. CASE Report
    BY <2>7, ReportKeeps
  <2>8. CASE Advance
    BY <2>8, AdvanceKeeps
  <2>9. CASE Complete
    BY <2>9, CompleteKeeps
  <2>10. CASE Retry
    BY <2>10, RetryKeeps
  <2>11. CASE Continue
    BY <2>11, ContinueKeeps
  <2>12. CASE WaitEntered \/ Prompt
    BY <2>12, WaitKeeps
  <2>13. CASE PromptFails
    BY <2>13, PromptFailsKeeps
  <2>14. CASE SendDropped \/ Join \/ ShowResults \/ EmitResult
    BY <2>14, CommandEndKeeps
  <2>15. CASE Program
    BY <2>15, ProgramKeeps
  <2> QED BY <2>1, <2>2, <2>3, <2>4, <2>5, <2>6, <2>7, <2>8, <2>9, <2>10, <2>11, <2>12, <2>13,
             <2>14, <2>15 DEF Command, Engine
<1> QED BY <1>1, <1>2

LEMMA ImpactInvariant == Spec => []ImpactInv
  BY InvInit, InvStep, PTL DEF Spec

-----------------------------------------------------------------------------
(* What the screen will show once the program has handled the message it    *)
(* took and the one that is offered.                                        *)
Catch(s, m) == IF m = Silence THEN s ELSE Update(s, m)

CaughtUp == Catch(Catch(screen, inbox), message)

ProgressAt(p) == [q \in Phases |-> IF q < p THEN "done" ELSE IF q = p THEN "running" ELSE "waiting"]

NoneBegun == [p \in Phases |-> "waiting"]

Tells(s) ==
    /\ main \in {"build", "turn"} => s.rows = ProgressAt(phase) \/ (s.rows = NoneBegun /\ phase = 1)
    /\ main \in {"handle", "dispatch", "prompt", "hung"} => s.rows = ProgressAt(phase) /\ s.turn = iteration
    /\ run = "none" => s.waiting = (main = "prompt") /\ s.done = FALSE /\ s.failed = FALSE
    /\ run # "none" => s.done = (run = "completed") /\ s.failed = (run # "completed")

(* The screen that has caught up tells of the run at every step, not only   *)
(* when it has: each message brings it from one step to the next.  The      *)
(* message that ends the program is the last one.                           *)
ScreenInv ==
    tui =>
      /\ program # "failed" => run # "unbuilt" /\ Tells(CaughtUp)
      /\ program \in {"quitting", "ended"} => message = Silence /\ inbox = Silence /\ run # "none"
      /\ Quits(message) \/ Quits(inbox) => run # "none"
      /\ Quits(inbox) => message = Silence

LEMMA CaughtUpIsScreen ==
  ASSUME ImpactInv
  PROVE  Catch(screen, inbox) \in Screens /\ CaughtUp \in Screens
<1>1. screen \in Screens /\ inbox \in Messages /\ message \in Messages
  BY DEF ImpactInv, TypeOK, Screens
<1>2. Catch(screen, inbox) \in Screens
  BY <1>1, UpdateShows DEF Catch
<1>3. CaughtUp \in Screens
  BY <1>1, <1>2, UpdateShows DEF CaughtUp, Catch
<1> QED BY <1>2, <1>3

LEMMA Told ==
  ASSUME Heard, tui, NEW m \in Messages, m # Silence, Notify(m), UNCHANGED <<screen, inbox>>
  PROVE  CaughtUp' = Update(CaughtUp, m) /\ message' = m
<1>1. message' = m /\ message = Silence
  BY DEF Notify, Heard
<1>2. CaughtUp = Catch(screen, inbox)
  BY <1>1 DEF CaughtUp, Catch
<1>3. Catch(screen, inbox)' = Catch(screen, inbox)
  BY DEF Catch
<1>4. CaughtUp' = Update(Catch(screen, inbox), m)
  BY <1>1, <1>3 DEF CaughtUp, Catch
<1> QED BY <1>1, <1>2, <1>4

(* How the rows go from phase to phase. *)
LEMMA RowsStep ==
  ASSUME NEW p \in Phases
  PROVE  /\ SetRunning(ProgressAt(p), p) = ProgressAt(p)
         /\ p = 1 => SetRunning(NoneBegun, p) = ProgressAt(p)
         /\ p + 1 \in Phases =>
              SetRunning([ProgressAt(p) EXCEPT ![p] = "done"], p + 1) = ProgressAt(p + 1)
  BY PhaseFacts DEF SetRunning, ProgressAt, NoneBegun

LEMMA ScreenInit == Init => ScreenInv
<1> SUFFICES ASSUME Init, tui PROVE ScreenInv
  BY DEF ScreenInv
<1>1. CaughtUp = screen
  BY DEF Init, CaughtUp, Catch
<1>2. /\ screen.rows = NoneBegun /\ screen.waiting = FALSE
      /\ screen.done = FALSE /\ screen.failed = FALSE
  BY DEF Init, NoneBegun
<1>3. Tells(CaughtUp)
  BY <1>1, <1>2 DEF Init, Tells
<1>4. ~Quits(message) /\ ~Quits(inbox)
  BY DEF Init, Quits, Silence
<1> QED BY <1>3, <1>4 DEF Init, ScreenInv

-----------------------------------------------------------------------------
(* The engine's steps.  Those that tell the screen nothing change nothing   *)
(* it shows; the others tell it what it lacks.                              *)
LEMMA QuietKeeps ==
  ASSUME ImpactInv, ScreenInv, UNCHANGED <<phase, iteration, run, message, tuiVars, tui>>,
         \/ main = "build" /\ main' = "turn"
         \/ main = "handle" /\ main' \in {"dispatch", "hung"}
         \/ main = "dispatch" /\ main' = "turn"
  PROVE  ScreenInv'
<1> SUFFICES ASSUME tui PROVE ScreenInv'
  BY DEF ScreenInv
<1>1. CaughtUp' = CaughtUp
  BY DEF CaughtUp, Catch, tuiVars
<1>2. Tells(CaughtUp) => Tells(CaughtUp)'
  BY <1>1 DEF Tells
<1> QED BY <1>2 DEF ScreenInv, tuiVars

LEMMA ReturnsTell ==
  ASSUME ImpactInv, ScreenInv, Heard, NEW cause \in {"completed", "retries", "error"}, Returns(cause),
         run = "none", UNCHANGED <<tuiVars, tui>>
  PROVE  ScreenInv'
<1> SUFFICES ASSUME tui PROVE ScreenInv'
  BY DEF ScreenInv
<1> DEFINE m == [kind |-> IF cause = "completed" THEN "completed" ELSE "exhausted"]
<1>1. m \in Messages /\ m # Silence /\ (cause = "completed" <=> m.kind = "completed")
      /\ m.kind \in {"completed", "exhausted"}
  BY MessageTypes DEF Silence
<1>2. Notify(m) /\ run' = cause /\ main' = "join"
  BY DEF Returns
<1> HIDE DEF m
<1>3. CaughtUp' = Update(CaughtUp, m) /\ message' = m
  BY <1>1, <1>2, Told DEF tuiVars
<1>4. CaughtUp \in Screens
  BY CaughtUpIsScreen
<1>5. /\ m.kind = "completed" => CaughtUp'.done = TRUE /\ CaughtUp'.failed = FALSE
      /\ m.kind = "exhausted" => CaughtUp'.done = CaughtUp.done /\ CaughtUp'.failed = TRUE
  BY <1>1, <1>3, <1>4, UpdateShows
<1>6. program \notin {"quitting", "ended"}
  BY DEF ScreenInv
<1>7. program # "failed" => Tells(CaughtUp)'
  <2>1. program # "failed" => CaughtUp.done = FALSE
    BY DEF ScreenInv, Tells
  <2> QED BY <1>1, <1>2, <1>5, <2>1 DEF Tells
<1>8. ~Quits(inbox)
  BY DEF ScreenInv
<1> QED BY <1>2, <1>6, <1>7, <1>8 DEF ScreenInv, tuiVars

(* A message of a turn, an advance, a wait or an answer. *)
LEMMA NotifyTells ==
  ASSUME ImpactInv, ScreenInv, Heard, tui, UNCHANGED <<run, tuiVars, tui>>, run = "none",
         NEW m \in Messages, m # Silence, ~Quits(m), Notify(m),
         CaughtUp' = Update(CaughtUp, m) /\ Tells(CaughtUp) => Tells(CaughtUp)'
  PROVE  ScreenInv'
<1>1. CaughtUp' = Update(CaughtUp, m) /\ message' = m
  BY Told DEF tuiVars
<1> QED BY <1>1 DEF ScreenInv, tuiVars

LEMMA TurnStartsTells ==
  ASSUME ImpactInv, ScreenInv, TurnStarts, UNCHANGED terminals
  PROVE  ScreenInv'
<1> SUFFICES ASSUME tui PROVE ScreenInv'
  BY DEF ScreenInv, terminals
<1> DEFINE m == [kind |-> "turn", phase |-> phase, turn |-> iteration + 1]
<1>1. /\ main = "turn" /\ Heard /\ main' = "handle" /\ iteration' = iteration + 1 /\ Notify(m)
      /\ UNCHANGED <<phase, run, tuiVars, tui>>
  BY DEF TurnStarts, terminals
<1>2. run = "none" /\ phase \in Phases /\ iteration \in Nat
  BY <1>1 DEF ImpactInv, Budgeted, AtWork, TypeOK
<1>3. m \in Messages /\ m # Silence /\ ~Quits(m) /\ m.kind = "turn" /\ m.phase = phase
      /\ m.turn = iteration + 1
  BY <1>2, MessageTypes DEF Silence, Quits
<1> HIDE DEF m
<1>4. CaughtUp \in Screens
  BY CaughtUpIsScreen
<1>5. ASSUME CaughtUp' = Update(CaughtUp, m), Tells(CaughtUp)
      PROVE  Tells(CaughtUp)'
  <2>1. /\ CaughtUp'.rows = SetRunning(CaughtUp.rows, phase) /\ CaughtUp'.turn = iteration'
        /\ CaughtUp'.waiting = FALSE /\ CaughtUp'.failed = FALSE /\ CaughtUp'.done = FALSE
    BY <1>1, <1>2, <1>3, <1>4, <1>5, UpdateShows DEF Tells
  <2>2. CaughtUp'.rows = ProgressAt(phase)
    BY <1>1, <1>2, <1>5, <2>1, RowsStep DEF Tells
  <2> QED BY <1>1, <1>2, <2>1, <2>2 DEF Tells
<1> QED BY <1>1, <1>2, <1>3, <1>5, NotifyTells

LEMMA HandlerTells ==
  ASSUME ImpactInv, ScreenInv, SourceCheck \/ Collect \/ Link \/ Score \/ Report,
         UNCHANGED terminals
  PROVE  ScreenInv'
<1>1. main = "handle" /\ Heard /\ run = "none"
  BY DEF SourceCheck, Collect, Link, Score, Report, In, ImpactInv, Budgeted, AtWork
<1>2. CASE Fails
  BY <1>1, <1>2, ReturnsTell DEF Fails, terminals
<1>3. ASSUME NEW d, Yields(d)
      PROVE  ScreenInv'
  BY <1>1, <1>3, QuietKeeps DEF Yields, terminals
<1>5. CASE ScoreHangs
  BY <1>1, <1>5, QuietKeeps DEF ScoreHangs, engineVars, terminals
<1>4. Fails \/ ScoreHangs \/ \E d \in Directives : Yields(d)
  <2>1. {"advance_phase", "wait", "retry", "complete"} \subseteq Directives
    BY DEF Directives
  <2>2. CASE SourceCheck
    BY <2>1, <2>2 DEF SourceCheck, SourceAnswered, CheckSources
  <2>3. CASE Score
    BY <2>1, <2>3 DEF Score, ScoreTurnFails, ScoreAborts, ScorePayload
  <2>4. CASE Collect \/ Link \/ Report
    BY <2>1, <2>4 DEF Collect, Link, Report
  <2> QED BY <2>2, <2>3, <2>4
<1> QED BY <1>2, <1>3, <1>5, <1>4

LEMMA DispatchTells ==
  ASSUME ImpactInv, ScreenInv, Advance \/ Complete \/ Retry \/ Continue, UNCHANGED terminals
  PROVE  ScreenInv'
<1>1. main = "dispatch" /\ Heard /\ run = "none" /\ phase \in Phases /\ UNCHANGED <<tuiVars, tui>>
  BY DEF Advance, Complete, Retry, Continue, Decided, ImpactInv, Budgeted, AtWork, TypeOK, terminals
<1>2. ASSUME NEW cause \in {"completed", "retries", "error"}, Returns(cause)
      PROVE  ScreenInv'
  BY <1>1, <1>2, ReturnsTell
<1>3. CASE main' = "turn" /\ UNCHANGED <<phase, iteration, run, message>>
  BY <1>1, <1>3, QuietKeeps
<1>4. CASE Advance /\ phase < Len(PhaseOrder)
  <2> SUFFICES ASSUME tui PROVE ScreenInv'
    BY <1>1 DEF ScreenInv
  <2> DEFINE m == [kind |-> "advanced", from |-> phase, to |-> phase + 1]
  <2>1. main' = "turn" /\ Notify(m) /\ phase' = phase + 1 /\ UNCHANGED <<run, iteration>>
    BY <1>4 DEF Advance
  <2>2. phase + 1 \in Phases
    BY <1>1, <1>4, PhaseFacts
  <2>3. m \in Messages /\ m # Silence /\ ~Quits(m) /\ m.kind = "advanced" /\ m.from = phase
        /\ m.to = phase + 1
    BY <1>1, <2>2, MessageTypes DEF Silence, Quits
  <2> HIDE DEF m
  <2>4. CaughtUp \in Screens
    BY CaughtUpIsScreen
  <2>5. ASSUME CaughtUp' = Update(CaughtUp, m), Tells(CaughtUp)
        PROVE  Tells(CaughtUp)'
    <3>1. /\ CaughtUp'.rows = SetRunning([CaughtUp.rows EXCEPT ![phase] = "done"], phase + 1)
          /\ CaughtUp'.waiting = CaughtUp.waiting /\ CaughtUp'.failed = CaughtUp.failed
          /\ CaughtUp'.done = CaughtUp.done
      <4>1. /\ CaughtUp'.rows = SetRunning([CaughtUp.rows EXCEPT ![m.from] = "done"], m.to)
            /\ CaughtUp'.waiting = CaughtUp.waiting /\ CaughtUp'.failed = CaughtUp.failed
            /\ CaughtUp'.done = CaughtUp.done
        BY <2>3, <2>4, <2>5, UpdateShows, Zenon
      <4> QED BY <2>3, <4>1, Zenon
    <3>2. /\ CaughtUp.rows = ProgressAt(phase) /\ CaughtUp.waiting = FALSE
          /\ CaughtUp.failed = FALSE /\ CaughtUp.done = FALSE
      BY <1>1, <2>5 DEF Tells
    <3>3. CaughtUp'.rows = ProgressAt(phase')
      BY <1>1, <2>1, <2>2, <3>1, <3>2, RowsStep
    <3> QED BY <1>1, <2>1, <3>1, <3>2, <3>3 DEF Tells
  <2> QED BY <1>1, <2>1, <2>3, <2>5, NotifyTells
<1> QED BY <1>2, <1>3, <1>4 DEF Advance, Complete, Retry, Continue

LEMMA WaitTells ==
  ASSUME ImpactInv, ScreenInv, WaitEntered \/ Prompt, UNCHANGED terminals
  PROVE  ScreenInv'
<1> SUFFICES ASSUME tui PROVE ScreenInv'
  BY DEF ScreenInv, terminals
<1> DEFINE m == [kind |-> IF main = "dispatch" THEN "wait" ELSE "answered"]
<1>1. /\ \/ main = "dispatch" /\ main' = "prompt"
         \/ main = "prompt" /\ main' = "turn"
      /\ Heard /\ Notify(m) /\ UNCHANGED <<phase, iteration, run, tuiVars, tui>>
  BY DEF WaitEntered, Decided, Prompt, Answered, terminals
<1>2. run = "none"
  BY <1>1 DEF ImpactInv, Budgeted, AtWork
<1>3. /\ m \in Messages /\ m # Silence /\ ~Quits(m) /\ m.kind \in {"wait", "answered"}
      /\ m.kind = "wait" <=> main = "dispatch"
  BY MessageTypes DEF Silence, Quits
<1> HIDE DEF m
<1>4. CaughtUp \in Screens
  BY CaughtUpIsScreen
<1>5. ASSUME CaughtUp' = Update(CaughtUp, m), Tells(CaughtUp)
      PROVE  Tells(CaughtUp)'
  <2>1. /\ CaughtUp'.waiting = (main = "dispatch")
        /\ CaughtUp'.rows = CaughtUp.rows /\ CaughtUp'.turn = CaughtUp.turn
        /\ CaughtUp'.failed = CaughtUp.failed /\ CaughtUp'.done = CaughtUp.done
    BY <1>3, <1>4, <1>5, UpdateShows
  <2> QED BY <1>1, <1>2, <1>5, <2>1 DEF Tells
<1> QED BY <1>1, <1>2, <1>3, <1>5, NotifyTells

LEMMA EngineTells ==
  ASSUME ImpactInv, ScreenInv, Engine, UNCHANGED terminals
  PROVE  ScreenInv'
<1>1. CASE BuildEngine
  BY <1>1, QuietKeeps DEF BuildEngine, engineVars, terminals
<1>2. CASE BuildFails
  <2>1. main = "build" /\ run = "none" /\ run' = "unbuilt" /\ UNCHANGED <<message, inbox, tui>>
    BY <1>2 DEF BuildFails, ImpactInv, Budgeted, AtWork, terminals
  <2>2. tui => program' = "failed"
    BY <1>2, <2>1 DEF BuildFails, ScreenInv, ImpactInv, TypeOK
  <2> QED BY <2>1, <2>2 DEF ScreenInv
<1>3. CASE PromptFails
  <2>1. main = "prompt" /\ run = "none" /\ Heard /\ Returns("error") /\ UNCHANGED <<tuiVars, tui>>
    BY <1>3 DEF PromptFails, Fails, ImpactInv, Budgeted, terminals
  <2> QED BY <2>1, ReturnsTell
<1> QED BY <1>1, <1>2, <1>3, TurnStartsTells, HandlerTells, DispatchTells, WaitTells DEF Engine

(* The end of the command, after Run has returned. *)
LEMMA CommandEndTells ==
  ASSUME ImpactInv, ScreenInv, SendDropped \/ Join \/ ShowResults \/ EmitResult, UNCHANGED terminals
  PROVE  ScreenInv'
<1> SUFFICES ASSUME tui PROVE ScreenInv'
  BY DEF ScreenInv, terminals
<1>1. CASE SendDropped
  <2>1. program = "failed" /\ message' = Silence /\ UNCHANGED <<run, tuiVars>>
    BY <1>1 DEF SendDropped, ScreenInv
  <2>2. ~Quits(message')
    BY <2>1 DEF Quits, Silence
  <2> QED BY <2>1, <2>2 DEF ScreenInv, tuiVars
<1>2. CASE Join \/ ShowResults \/ EmitResult
  <2>1. /\ main' \in {"results", "exit"} /\ UNCHANGED <<run, message, tuiVars>>
        /\ run # "none"
    BY <1>2 DEF Join, ShowResults, EmitResult, ImpactInv, Budgeted, AtWork
  <2>2. CaughtUp' = CaughtUp
    BY <2>1 DEF CaughtUp, Catch, tuiVars
  <2>3. Tells(CaughtUp) => Tells(CaughtUp)'
    BY <2>1, <2>2 DEF Tells
  <2> QED BY <2>1, <2>3 DEF ScreenInv, tuiVars
<1> QED BY <1>1, <1>2

(* The program's steps bring the screen nearer to what it will show. *)
LEMMA ProgramTells ==
  ASSUME ImpactInv, ScreenInv, Program, UNCHANGED terminals
  PROVE  ScreenInv'
<1> SUFFICES ASSUME tui PROVE ScreenInv'
  BY DEF ScreenInv, terminals
<1>1. UNCHANGED <<main, phase, iteration, run>>
  BY DEF Program, ProgramStarts, Take, HandleMessage, ProgramEnds, ProgramFails, engineVars
<1>2. ~Quits(Silence)
  BY DEF Quits, Silence
<1>3. CASE ProgramFails
  BY <1>1, <1>2, <1>3 DEF ProgramFails, ScreenInv
<1>4. CASE ~ProgramFails
  <2>1. CaughtUp' = CaughtUp
    BY <1>4 DEF Program, ProgramStarts, Take, HandleMessage, ProgramEnds, CaughtUp, Catch
  <2>2. Tells(CaughtUp) => Tells(CaughtUp)'
    BY <1>1, <2>1 DEF Tells
  <2>3. program' # "failed" /\ program # "failed"
    BY <1>4 DEF Program, ProgramStarts, Take, HandleMessage, ProgramEnds
  <2>4. /\ program' \in {"quitting", "ended"} => message' = Silence /\ inbox' = Silence /\ run' # "none"
        /\ Quits(message') \/ Quits(inbox') => run' # "none"
        /\ Quits(inbox') => message' = Silence
    BY <1>1, <1>2, <1>4 DEF Program, ProgramStarts, Take, HandleMessage, ProgramEnds, ScreenInv
  <2> QED BY <1>1, <2>2, <2>3, <2>4 DEF ScreenInv
<1> QED BY <1>3, <1>4

LEMMA ScreenStep == ImpactInv /\ ScreenInv /\ [Next]_vars => ScreenInv'
<1> SUFFICES ASSUME ImpactInv, ScreenInv, [Next]_vars PROVE ScreenInv'
  OBVIOUS
<1>1. CASE UNCHANGED vars
  <2>1. CaughtUp' = CaughtUp
    BY <1>1 DEF vars, tuiVars, CaughtUp, Catch
  <2>2. Tells(CaughtUp) => Tells(CaughtUp)'
    BY <1>1, <2>1 DEF vars, engineVars, Tells
  <2> QED BY <1>1, <2>2 DEF vars, tuiVars, terminals, ScreenInv
<1>2. CASE Next
  BY <1>2, EngineTells, CommandEndTells, ProgramTells DEF Next, Command
<1> QED BY <1>1, <1>2

-----------------------------------------------------------------------------
(* Every variable of the command, of the engine and of the screen keeps its *)
(* type, and the retries never pass their limit.                            *)
THEOREM TypeCorrect == Spec => []TypeOK
<1>1. ImpactInv => TypeOK
  BY DEF ImpactInv
<1> QED BY <1>1, ImpactInvariant, PTL

(* No phase after the source check runs unless the sources were found ready *)
(* or the user answered y: no other answer, however often it is asked,      *)
(* passes SourceCheckHandler.                                               *)
THEOREM ConsentCorrect == Spec => []SourcesVouched
<1>1. ImpactInv => SourcesVouched
  BY DEF ImpactInv, Consented
<1> QED BY <1>1, ImpactInvariant, PTL

(* Engine.Run gives up for its retries at the retry after MaxRetries in a   *)
(* row, and never otherwise, for every limit.                               *)
THEOREM RetryBudgetCorrect == Spec => []RetryBudget
<1>1. ImpactInv => RetryBudget
  BY DEF ImpactInv, Budgeted
<1> QED BY <1>1, ImpactInvariant, PTL

(* The result of a completed run holds the collector's pull requests and    *)
(* the linker's links, or the very fields the agent sent, whatever data an  *)
(* agent sends in whatever order of turns.                                  *)
THEOREM ResultCorrect == Spec => []ResultIsConsistent
<1>1. ImpactInv => ResultIsConsistent
  BY PhaseFacts DEF ImpactInv, TypeOK, Sourced, InPhase, SentByAgent, ResultIsConsistent
<1> QED BY <1>1, ImpactInvariant, PTL

(* The command ends with a result exactly for a run that completed and a    *)
(* screen that did not fail, and with an error for every other.             *)
THEOREM ExitCorrect == Spec => []ExitTellsOutcome
<1>1. ImpactInv => ExitTellsOutcome
  BY DEF ImpactInv, Screened
<1> QED BY <1>1, ImpactInvariant, PTL

(* The progress screen that has caught up shows the phases done, the one    *)
(* that runs, its turn and whether the user is waited for; once the program *)
(* has quit it shows how the run ended: whatever the order in which the     *)
(* engine sends and the event loop takes and handles its messages.          *)
THEOREM ScreenCorrect == Spec => []ScreenTellsRun
<1>1. ImpactInv /\ ScreenInv => ScreenTellsRun
  <2> SUFFICES ASSUME ImpactInv, ScreenInv PROVE ScreenTellsRun
    OBVIOUS
  <2>1. message = Silence /\ inbox = Silence => CaughtUp = screen
    BY DEF CaughtUp, Catch
  <2>2. ASSUME program = "running", message = Silence, inbox = Silence, main \in {"handle", "prompt", "hung"}
        PROVE  /\ screen.rows = ProgressAt(phase) /\ screen.turn = iteration
               /\ screen.waiting = (main = "prompt")
    <3>1. tui /\ run = "none"
      BY <2>2 DEF ImpactInv, Screened, Budgeted, AtWork
    <3> QED BY <2>1, <2>2, <3>1 DEF ScreenInv, Tells
  <2>3. ASSUME tui, program = "ended"
        PROVE  screen.done = (run = "completed") /\ screen.failed = (run # "completed")
    BY <2>1, <2>3 DEF ScreenInv, Tells
  <2> QED BY <2>2, <2>3 DEF ScreenTellsRun, ProgressAt
<1>2. Spec => []ScreenInv
  BY ScreenInit, ScreenStep, ImpactInvariant, PTL DEF Spec
<1> QED BY <1>1, <1>2, ImpactInvariant, PTL

-----------------------------------------------------------------------------
(* Why the command ends once Run has returned.  A program that lives has    *)
(* the message that makes it quit before it: offered, or taken and not yet  *)
(* handled.                                                                 *)
Alive == program \in {"starting", "running"}

QuitComes == tui /\ run # "none" /\ Alive => Quits(message) \/ Quits(inbox)

LEMMA QuitInit == Init => QuitComes
  BY DEF Init, QuitComes

LEMMA QuitStep == ImpactInv /\ QuitComes /\ [Next]_vars => QuitComes'
<1> SUFFICES ASSUME ImpactInv, QuitComes, [Next]_vars, tui, run' # "none", Alive'
             PROVE  Quits(message') \/ Quits(inbox')
  BY DEF QuitComes, Next, vars, terminals
<1>1. ASSUME NEW cause, Returns(cause) PROVE Quits(message')
  <2>1. message' = [kind |-> IF cause = "completed" THEN "completed" ELSE "exhausted"]
    BY <1>1 DEF Returns, Notify
  <2>2. message'.kind \in {"completed", "exhausted"}
    BY <2>1
  <2> QED BY <2>2 DEF Quits
<1>2. CASE UNCHANGED <<run, message, tuiVars>>
  BY <1>2 DEF QuitComes, tuiVars, Alive
<1>3. CASE Engine
  <2>1. run = "none"
    BY <1>3 DEF Engine, BuildEngine, BuildFails, TurnStarts, SourceCheck, Collect, Link, Score, Report, In,
       Advance, Complete, Retry, Continue, WaitEntered, Decided, Prompt, PromptFails, ImpactInv, Budgeted, AtWork
  <2>2. CASE BuildFails
    BY <2>2 DEF BuildFails, Alive
  <2>3. CASE \E cause \in Causes : Returns(cause)
    BY <1>1, <2>3
  <2>4. CASE run' = run
    BY <2>1, <2>4
  <2>5. CASE SourceCheck \/ Collect \/ Link \/ Score \/ Report
    BY <2>3, <2>4, <2>5 DEF SourceCheck, SourceAnswered, CheckSources, Collect, Link, Score, ScoreTurnFails,
       ScoreAborts, ScoreHangs, ScorePayload, Report, Yields, Fails, Causes
  <2>6. CASE Advance \/ Complete \/ Retry \/ PromptFails
    BY <2>3, <2>4, <2>6 DEF Advance, Complete, Retry, PromptFails, Fails, Causes
  <2>7. CASE BuildEngine \/ TurnStarts \/ Continue \/ WaitEntered \/ Prompt
    BY <2>4, <2>7 DEF BuildEngine, TurnStarts, Continue, WaitEntered, Prompt
  <2> QED BY <1>3, <2>2, <2>5, <2>6, <2>7 DEF Engine
<1>4. CASE SendDropped
  BY <1>4 DEF SendDropped, tuiVars, Alive
<1>5. CASE Join \/ ShowResults \/ EmitResult
  BY <1>2, <1>5 DEF Join, ShowResults, EmitResult
<1>6. CASE Program
  BY <1>6 DEF Program, ProgramStarts, Take, HandleMessage, ProgramEnds, ProgramFails, QuitComes, Alive, Quits, Silence
<1>7. CASE UNCHANGED vars
  BY <1>2, <1>7 DEF vars
<1> QED BY <1>3, <1>4, <1>5, <1>6, <1>7 DEF Next, Command

(* What there is to do then: to deliver the messages, to end the program,   *)
(* to join it and to show what came out.                                    *)
Left == (CASE main = "join" -> 2 [] main \in {"results", "report"} -> 1 [] OTHER -> 0)
        + (CASE program = "starting" -> 3 [] program = "running" -> 2 [] program = "quitting" -> 1 [] OTHER -> 0)
        + (IF message = Silence THEN 0 ELSE 2) + (IF inbox = Silence THEN 0 ELSE 1)

(* The guards of the steps that do it. *)
SomeoneMoves ==
    \/ message # Silence /\ program \in {"ended", "failed"}
    \/ program \in {"starting", "quitting"}
    \/ program = "running" /\ (message # Silence \/ inbox # Silence)
    \/ main = "join" /\ Heard /\ program \in {"ended", "failed"}
    \/ main \in {"results", "report"}

LEMMA EndStep ==
  ASSUME ImpactInv, run # "none", Next
  PROVE  Left' < Left
<1>1. main \in {"join", "results", "report", "exit"} /\ ~Engine
  BY DEF Engine, BuildEngine, BuildFails, TurnStarts, SourceCheck, Collect, Link, Score, Report, In,
     Advance, Complete, Retry, Continue, WaitEntered, Decided, Prompt, PromptFails, ImpactInv, TypeOK, Budgeted, AtWork
<1>2. program \in {"starting", "running", "quitting", "ended", "failed"}
  BY DEF ImpactInv, TypeOK
<1>3. CASE SendDropped
  <2>1. message # Silence /\ message' = Silence /\ UNCHANGED <<main, program, inbox>>
    BY <1>3 DEF SendDropped, tuiVars
  <2> QED BY <1>1, <1>2, <2>1 DEF Left
<1>4. CASE Join \/ ShowResults \/ EmitResult
  <2>1. /\ UNCHANGED <<message, program, inbox>>
        /\ \/ main = "join" /\ main' \in {"results", "exit"}
           \/ main \in {"results", "report"} /\ main' = "exit"
    BY <1>4 DEF Join, ShowResults, EmitResult, tuiVars
  <2> QED BY <1>1, <1>2, <2>1 DEF Left
<1>5. CASE ProgramStarts \/ ProgramEnds
  <2>1. /\ UNCHANGED <<message, main, inbox>>
        /\ \/ program = "starting" /\ program' = "running"
           \/ program = "quitting" /\ program' = "ended"
    BY <1>5 DEF ProgramStarts, ProgramEnds
  <2> QED BY <1>1, <1>2, <2>1 DEF Left
<1>6. CASE Take
  <2>1. /\ UNCHANGED <<program, main>> /\ message # Silence /\ message' = Silence
        /\ inbox = Silence /\ inbox' # Silence
    BY <1>6 DEF Take
  <2> QED BY <1>1, <1>2, <2>1 DEF Left
<1>7. CASE HandleMessage
  <2>1. /\ UNCHANGED <<message, main>> /\ inbox # Silence /\ inbox' = Silence
        /\ program = "running" /\ program' \in {"running", "quitting"}
    BY <1>7 DEF HandleMessage
  <2> QED BY <1>1, <2>1 DEF Left
<1>8. CASE ProgramFails
  <2>1. /\ UNCHANGED <<message, main>> /\ inbox' = Silence
        /\ program \in {"starting", "running", "quitting"} /\ program' = "failed"
    BY <1>8 DEF ProgramFails
  <2> QED BY <1>1, <2>1 DEF Left
<1> QED BY <1>1, <1>3, <1>4, <1>5, <1>6, <1>7, <1>8 DEF Next, Command, Program

(* Once Run has returned, however it did and whatever becomes of the        *)
(* screen, somebody can always go on until the command has ended, no Send   *)
(* waits for a receiver and no join for a program that does not quit, and   *)
(* every step of anybody takes the command nearer to its end.               *)
THEOREM EndComesNearer ==
  Spec => /\ [](run # "none" /\ main # "exit" => SomeoneMoves)
          /\ [](Left \in Nat)
          /\ [][run # "none" => Left' < Left]_vars
<1>1. ImpactInv /\ QuitComes => (run # "none" /\ main # "exit" => SomeoneMoves)
  <2> SUFFICES ASSUME ImpactInv, QuitComes, run # "none", main # "exit" PROVE SomeoneMoves
    OBVIOUS
  <2>1. main \in {"join", "results", "report"}
    BY DEF ImpactInv, TypeOK, Budgeted, AtWork
  <2>2. main = "join" => tui
    BY DEF ImpactInv, Screened
  <2>3. ~Quits(Silence)
    BY DEF Quits, Silence
  <2>4. program \in {"starting", "running", "quitting", "ended", "failed"}
    BY DEF ImpactInv, TypeOK
  <2> QED BY <2>1, <2>2, <2>3, <2>4 DEF QuitComes, Alive, SomeoneMoves, Heard
<1>2. Left \in Nat
  BY DEF Left
<1>3. ImpactInv /\ [Next]_vars => [run # "none" => Left' < Left]_vars
  BY EndStep
<1>4. Spec => []ImpactInv
  BY ImpactInvariant
<1>5. Spec => []QuitComes
  BY QuitInit, QuitStep, ImpactInvariant, PTL DEF Spec
<1> QED BY <1>1, <1>2, <1>3, <1>4, <1>5, PTL DEF Spec
=============================================================================
