----------------------- MODULE AppServerClientProofs -----------------------
(* The client of the app-server, for any number of turns and of             *)
(* notifications, every capacity of their channel and every fault: what a   *)
(* call returns is what the server did in that turn.                        *)
EXTENDS AppServerClient, TLAPS

Methods == {"initialize", "thread/start", "turn/start", "turn/interrupt"}
Spoken == {"delta", "item"}

Note == [kind : Spoken \cup Endings, turn : Turns]
Answer == [kind : {"answer"}, id : Nat, ok : BOOLEAN, turn : 0 .. MaxTurns]
Line == [id : Nat, method : Methods, turn : 0 .. MaxTurns]
Delivered == [id : Nat, ok : BOOLEAN, turn : 0 .. MaxTurns]

Types ==
    /\ TypeOK
    /\ result.turn \in 0 .. MaxTurns
    /\ answers \subseteq Delivered
    /\ notes \in Seq(Note) /\ stdin \in Seq(Line) /\ stdout \in Seq(Answer \cup Note)
    /\ sent \in [Turns -> Nat]

In(s) == {s[k] : k \in DOMAIN s}

(* Answers that were not taken yet, in the pipe or the channel of their     *)
(* request, and notifications that no turn has taken yet.                   *)
Envelopes == {e \in In(stdout) : e.kind = "answer"} \cup answers
InFlight == {n \in In(stdout) : n.kind # "answer"} \cup In(notes)

Starting(l) == l.method = "turn/start"

(* Requests are served in their order: an answer on its way is older than   *)
(* any request that waits, and the start of a turn waits only while it is   *)
(* the last request.                                                        *)
Requested ==
    /\ \A i, j \in DOMAIN stdin : i < j => stdin[i].id < stdin[j].id
    /\ \A l \in In(stdin) : l.id <= id /\ (caller = "write" => l.id < id)
    /\ \A l \in In(stdin), e \in Envelopes : e.id < l.id
    /\ \A e \in Envelopes : e.id <= id /\ (caller = "write" => e.id < id)
    /\ \A l \in In(stdin) : Starting(l) => l.id = id /\ calls # 0 /\ served[calls] = "none"
    /\ \A l \in In(stdin) : l.method = "turn/interrupt" => l.turn # 0
    /\ caller = "await" => \A l \in In(stdin) : l.id = id => l.method = method /\ l.turn = turn

Asking == caller \in {"write", "await"}

(* Where the caller is tells which turn it is about. *)
Calling ==
    /\ Asking => method # "none"
    /\ Asking /\ method = "turn/start" =>
         calls # 0 /\ turn = 0 /\ (caller = "write" => served[calls] = "none")
    /\ Asking /\ method = "turn/interrupt" => canceled /\ turn # 0
    /\ Asking /\ method \in {"initialize", "thread/start"} => ~thread /\ turn = 0
    /\ turn # 0 => served[turn] # "none"
    /\ caller = "turn" => turn = calls /\ turn # 0
    /\ caller = "idle" /\ result.outcome # "canceled" => \A l \in In(stdin) : ~Starting(l)
    /\ ~thread => calls = 0
    /\ \A t \in Turns : t > calls => served[t] = "none"
    /\ calls = 0 => turn = 0

(* The answer the caller waits for tells what the server did. *)
AnswersTell ==
    caller = "await" =>
      \A e \in Envelopes : e.id = id =>
        /\ method = "turn/start" =>
             IF e.ok THEN e.turn = calls /\ served[calls] # "none" ELSE served[calls] = "none"
        /\ method = "turn/interrupt" => served[turn] \in Endings

NotesTell ==
    \A n \in InFlight :
      /\ served[n.turn] # "none"
      /\ n.kind \in Endings => served[n.turn] = n.kind
      /\ n.kind \in Spoken => sent[n.turn] > 0

(* Nothing of a turn comes after its end. *)
After(m, n) == m.kind \in Endings /\ n.kind # "answer" => n.turn # m.turn

EndsLast ==
    /\ \A a, b \in DOMAIN stdout : a < b => After(stdout[a], stdout[b])
    /\ \A a, b \in DOMAIN notes : a < b => After(notes[a], notes[b])
    /\ \A m \in In(notes), n \in In(stdout) : After(m, n)

(* As long as no turn was given up, the server has one turn at most, that   *)
(* of the last call, and what it said in it is taken or on its way.         *)
Taken == calls \in collected \/ final = calls

OneTurn ==
    /\ \A t \in Turns : served[t] = "running" => t = calls
    /\ \A n \in InFlight : n.turn = calls
    /\ caller = "idle" /\ ~Stopped =>
         InFlight = {} /\ \A t \in Turns : served[t] # "running"
    /\ collected \subseteq {calls} /\ final \in {0, calls}
    /\ calls = 0 => collected = {}
    /\ calls # 0 /\ sent[calls] = 0 => collected = {} /\ final = 0

NothingLost ==
    calls # 0 /\ sent[calls] # 0 /\ (alive \/ \E n \in InFlight : n.kind \in Endings) =>
      Taken \/ \E n \in InFlight : n.kind \in Spoken

Complete ==
    /\ \A t \in Turns : served[t] = "none" => sent[t] = 0
    /\ abandoned = {} => OneTurn /\ NothingLost

Results ==
    /\ result.outcome \in {"completed", "failed"} =>
         result.turn # 0 /\ served[result.turn] = result.outcome
    /\ result.outcome = "interrupted" /\ alive =>
         result.turn # 0 /\ served[result.turn] \in Endings
    /\ ResponseBelongsToTurn

ClientInv == /\ Types /\ Requested /\ Calling /\ AnswersTell
             /\ NotesTell /\ EndsLast /\ Complete /\ Results

-----------------------------------------------------------------------------
LEMMA InSeq == ASSUME NEW S, NEW s \in Seq(S) PROVE In(s) \subseteq S
BY DEF In

LEMMA TailIn ==
  ASSUME NEW S, NEW s \in Seq(S), s # <<>>
  PROVE  /\ Tail(s) \in Seq(S) /\ Len(Tail(s)) = Len(s) - 1
         /\ \A k \in DOMAIN Tail(s) : k \in 1 .. Len(s) /\ k + 1 \in 1 .. Len(s) /\ Tail(s)[k] = s[k + 1]
         /\ DOMAIN s = 1 .. Len(s) /\ 1 \in DOMAIN s
         /\ Head(s) = s[1] /\ Head(s) \in S /\ Head(s) \in In(s)
         /\ In(Tail(s)) \subseteq In(s)
         /\ In(s) = In(Tail(s)) \cup {Head(s)}
<1>1. /\ Tail(s) \in Seq(S) /\ Len(Tail(s)) = Len(s) - 1 /\ Len(s) \in Nat /\ Len(s) > 0
      /\ DOMAIN s = 1 .. Len(s) /\ DOMAIN Tail(s) = 1 .. (Len(s) - 1)
      /\ Head(s) = s[1] /\ Head(s) \in S
  OBVIOUS
<1>2. \A k \in DOMAIN Tail(s) : k \in 1 .. Len(s) /\ k + 1 \in 1 .. Len(s) /\ Tail(s)[k] = s[k + 1]
  BY <1>1
<1>3. In(Tail(s)) \subseteq In(s) /\ Head(s) \in In(s)
  BY <1>1, <1>2 DEF In
<1>4. ASSUME NEW k \in DOMAIN s PROVE s[k] \in In(Tail(s)) \cup {Head(s)}
  <2>1. CASE k = 1
    BY <1>1, <2>1
  <2>2. CASE k # 1
    <3>1. k - 1 \in DOMAIN Tail(s) /\ Tail(s)[k - 1] = s[k]
      BY <1>1, <1>2, <2>2
    <3> QED BY <3>1 DEF In
  <2> QED BY <2>1, <2>2
<1> QED BY <1>1, <1>2, <1>3, <1>4 DEF In

LEMMA AppendIn ==
  ASSUME NEW S, NEW s \in Seq(S), NEW e \in S
  PROVE  /\ Append(s, e) \in Seq(S) /\ Len(Append(s, e)) = Len(s) + 1
         /\ DOMAIN s = 1 .. Len(s) /\ DOMAIN Append(s, e) = 1 .. (Len(s) + 1) /\ Len(s) \in Nat
         /\ \A k \in 1 .. Len(s) : Append(s, e)[k] = s[k] /\ s[k] \in In(s)
         /\ Append(s, e)[Len(s) + 1] = e
         /\ In(Append(s, e)) = In(s) \cup {e}
<1>1. /\ Append(s, e) \in Seq(S) /\ Len(Append(s, e)) = Len(s) + 1
      /\ DOMAIN s = 1 .. Len(s) /\ DOMAIN Append(s, e) = 1 .. (Len(s) + 1) /\ Len(s) \in Nat
  OBVIOUS
<1>2. /\ \A k \in 1 .. Len(s) : Append(s, e)[k] = s[k] /\ s[k] \in In(s)
      /\ Append(s, e)[Len(s) + 1] = e
  BY <1>1 DEF In
<1>3. In(Append(s, e)) = In(s) \cup {e}
  <2>1. ASSUME NEW k \in 1 .. (Len(s) + 1) PROVE Append(s, e)[k] \in In(s) \cup {e}
    <3>1. CASE k = Len(s) + 1
      BY <1>2, <3>1
    <3>2. CASE k # Len(s) + 1
      <4>1. k \in 1 .. Len(s)
        BY <3>2, <1>1
      <4> QED BY <4>1, <1>2
    <3> QED BY <3>1, <3>2
  <2>2. ASSUME NEW k \in 1 .. Len(s) PROVE s[k] \in In(Append(s, e))
    <3>1. k \in DOMAIN Append(s, e) /\ Append(s, e)[k] = s[k]
      BY <1>1, <1>2
    <3> QED BY <3>1 DEF In
  <2>3. e \in In(Append(s, e))
    <3>1. Len(s) + 1 \in DOMAIN Append(s, e)
      BY <1>1
    <3> QED BY <3>1, <1>2 DEF In
  <2>4. In(Append(s, e)) \subseteq In(s) \cup {e}
    BY <2>1, <1>1 DEF In
  <2>5. In(s) \subseteq In(Append(s, e))
    BY <2>2, <1>1 DEF In
  <2> QED BY <2>3, <2>4, <2>5
<1> QED BY <1>1, <1>2, <1>3

LEMMA PrefixIn ==
  ASSUME NEW S, NEW s \in Seq(S), NEW k \in 0 .. Len(s)
  PROVE  /\ SubSeq(s, 1, k) \in Seq(S) /\ DOMAIN SubSeq(s, 1, k) = 1 .. k /\ DOMAIN s = 1 .. Len(s)
         /\ \A j \in 1 .. k : j \in 1 .. Len(s) /\ SubSeq(s, 1, k)[j] = s[j]
         /\ In(SubSeq(s, 1, k)) \subseteq In(s)
<1>1. /\ SubSeq(s, 1, k) \in Seq(S) /\ DOMAIN SubSeq(s, 1, k) = 1 .. k /\ DOMAIN s = 1 .. Len(s)
      /\ Len(s) \in Nat /\ k \in Nat /\ k <= Len(s)
  OBVIOUS
<1>2. \A j \in 1 .. k : j \in 1 .. Len(s) /\ SubSeq(s, 1, k)[j] = s[j]
  BY <1>1
<1> QED BY <1>1, <1>2 DEF In

LEMMA WireTypes ==
  ASSUME ClientInv
  PROVE  /\ In(stdin) \subseteq Line
         /\ In(stdout) \subseteq Answer \cup Note
         /\ In(notes) \subseteq Note
         /\ \A l \in In(stdin) : l.id \in Nat /\ l.turn \in 0 .. MaxTurns /\ l.method \in Methods
         /\ \A e \in Envelopes : e.id \in Nat /\ e.turn \in 0 .. MaxTurns /\ e.ok \in BOOLEAN
         /\ \A n \in InFlight : n.turn \in Turns /\ n.kind \in Spoken \cup Endings /\ n \in Note
<1>1. notes \in Seq(Note) /\ stdin \in Seq(Line) /\ stdout \in Seq(Answer \cup Note) /\ answers \subseteq Delivered
  BY DEF ClientInv, Types
<1>2. In(stdin) \subseteq Line /\ In(stdout) \subseteq Answer \cup Note /\ In(notes) \subseteq Note
  BY <1>1, InSeq
<1>3. \A l \in In(stdin) : l.id \in Nat /\ l.turn \in 0 .. MaxTurns /\ l.method \in Methods
  BY <1>2 DEF Line
<1>4. \A e \in Answer \cup Note : e.kind = "answer" => e \in Answer
  BY DEF Note, Spoken, Endings
<1>5. \A e \in Answer \cup Note : e.kind # "answer" => e \in Note
  BY DEF Answer
<1>6. \A e \in Envelopes : e \in Answer \/ e \in Delivered
  BY <1>1, <1>2, <1>4 DEF Envelopes
<1>7. \A e \in Envelopes : e.id \in Nat /\ e.turn \in 0 .. MaxTurns /\ e.ok \in BOOLEAN
  BY <1>6 DEF Answer, Delivered
<1>8. \A n \in InFlight : n \in Note
  BY <1>2, <1>5 DEF InFlight
<1> QED BY <1>2, <1>3, <1>7, <1>8 DEF Note

LEMMA InvInit == Init => ClientInv
<1> SUFFICES ASSUME Init PROVE ClientInv
  OBVIOUS
<1> USE ClientAssumption DEF Init
<1>1. In(stdin) = {} /\ In(stdout) = {} /\ In(notes) = {}
  BY DEF In
<1>2. Envelopes = {} /\ InFlight = {}
  BY <1>1 DEF Envelopes, InFlight
<1>3. Types
  <2>1. result.turn = 0 /\ result.outcome = "none"
    BY DEF NoResult
  <2>2. notes \in Seq(Note) /\ stdin \in Seq(Line) /\ stdout \in Seq(Answer \cup Note) /\ Len(notes) = 0
    OBVIOUS
  <2>3. TypeOK
    <3>1. /\ id \in Nat /\ calls \in 0 .. MaxTurns /\ turn \in 0 .. MaxTurns /\ final \in 0 .. MaxTurns
          /\ pending \subseteq 1 .. id /\ Len(notes) <= Cap
      BY <2>2
    <3>2. served \in [Turns -> {"none", "running"} \cup Endings]
      OBVIOUS
    <3>3. result.outcome \in {"none", "error", "canceled"} \cup Endings
      BY <2>1
    <3> QED BY <3>1, <3>2, <3>3, ZenonT(60) DEF TypeOK
  <2> QED BY <2>1, <2>2, <2>3 DEF Types
<1>4. Requested /\ Calling /\ AnswersTell /\ NotesTell
  BY <1>1, <1>2 DEF Requested, Calling, AnswersTell, NotesTell, Asking, Turns
<1>5. EndsLast
  BY <1>1 DEF EndsLast
<1>6. Complete
  BY <1>2 DEF Complete, OneTurn, NothingLost, Turns
<1>7. Results
  BY DEF Results, ResponseBelongsToTurn, NoResult
<1> QED BY <1>3, <1>4, <1>5, <1>6, <1>7 DEF ClientInv

-----------------------------------------------------------------------------
(* The steps of the caller. *)
Wires == <<stdin, stdout, served, sent>>
Goroutines == <<readers, stderr, canceled>>

Still == <<notes, errVars, serverVars, readers, canceled>>

LEMMA CallerFrame ==
  ASSUME ClientInv, UNCHANGED <<Wires, notes>>, answers' \subseteq answers
  PROVE  /\ Envelopes' \subseteq Envelopes /\ InFlight' = InFlight /\ In(stdin)' = In(stdin)
         /\ NotesTell' /\ EndsLast'
<1>1. /\ Envelopes' \subseteq Envelopes /\ InFlight' = InFlight /\ In(stdin)' = In(stdin)
      /\ In(stdout)' = In(stdout) /\ In(notes)' = In(notes)
  BY DEF Envelopes, InFlight, In, Wires
<1>2. NotesTell'
  BY <1>1 DEF ClientInv, NotesTell, Wires
<1>3. EndsLast'
  BY <1>1 DEF ClientInv, EndsLast, After, Wires
<1> QED BY <1>1, <1>2, <1>3

LEMMA RequestKeeps ==
  ASSUME ClientInv, NEW m \in Methods, Request(m),
         UNCHANGED Still, answers' \subseteq answers,
         \A l \in In(stdin) : ~Starting(l),
         thread' \in BOOLEAN, calls' \in 0 .. MaxTurns, turn' \in 0 .. MaxTurns,
         final' \in 0 .. MaxTurns, collected' \subseteq Turns, UNCHANGED <<result, abandoned>>
  PROVE  Types' /\ Requested' /\ AnswersTell' /\ NotesTell' /\ EndsLast' /\ Envelopes' \subseteq Envelopes
         /\ InFlight' = InFlight /\ In(stdin)' = In(stdin)
<1>1. /\ Envelopes' \subseteq Envelopes /\ InFlight' = InFlight /\ In(stdin)' = In(stdin)
      /\ NotesTell' /\ EndsLast'
  BY CallerFrame DEF Still, Wires, serverVars, work
<1>2. id \in Nat /\ id' = id + 1 /\ caller' = "write"
  BY DEF Request, ClientInv, Types, TypeOK
<1>3. \A l \in In(stdin) : l.id \in Nat
  BY WireTypes
<1>4. \A e \in Envelopes : e.id \in Nat
  BY WireTypes
<1>5. Requested'
  <2> USE DEF ClientInv, Requested
  <2>1. \A i, j \in DOMAIN stdin' : i < j => stdin'[i].id < stdin'[j].id
    BY DEF Still, serverVars
  <2>2. \A l \in In(stdin)' : l.id <= id' /\ l.id < id'
    BY <1>1, <1>2, <1>3
  <2>3. \A l \in In(stdin)', e \in Envelopes' : e.id < l.id
    BY <1>1
  <2>4. \A e \in Envelopes' : e.id <= id' /\ e.id < id'
    BY <1>1, <1>2, <1>4
  <2>5. \A l \in In(stdin)' : ~Starting(l)'
    BY <1>1 DEF Starting
  <2>6. \A l \in In(stdin)' : l.method = "turn/interrupt" => l.turn # 0
    BY <1>1
  <2> QED BY <2>1, <2>2, <2>3, <2>4, <2>5, <2>6, <1>2
<1>6. AnswersTell'
  BY <1>2 DEF AnswersTell
<1>7. Types'
  <2>1. /\ caller' \in {"idle", "write", "await", "turn", "closed"}
        /\ method' \in {"none", "initialize", "thread/start", "turn/start", "turn/interrupt"}
        /\ id' \in Nat
    BY <1>2 DEF Request, Methods
  <2>2. pending' \subseteq 1 .. id'
    BY <1>2 DEF Request, ClientInv, Types, TypeOK
  <2>3. \A r \in answers' : r.id \in (1 .. id') \ pending'
    BY <1>2 DEF Request, ClientInv, Types, TypeOK
  <2>4. TypeOK'
    BY <2>1, <2>2, <2>3 DEF ClientInv, Types, TypeOK, Still, errVars, serverVars, work, readers
  <2> QED BY <2>4 DEF ClientInv, Types, Still, serverVars, work
<1> QED BY <1>1, <1>5, <1>6, <1>7

LEMMA ReturnKeeps ==
  ASSUME ClientInv, NEW o \in {"error", "canceled"} \cup Endings, Return(o),
         UNCHANGED <<method, id, thread, calls, pending, alive, Wires, Goroutines>>,
         answers' \subseteq answers, notes' \in Seq(Note), Len(notes') <= Cap,
         readErr' \in BOOLEAN, waitErr' \in BOOLEAN,
         Envelopes' \subseteq Envelopes, InFlight' \subseteq InFlight, NotesTell', EndsLast',
         o = "canceled" \/ \A l \in In(stdin) : ~Starting(l),
         o \in {"completed", "failed"} => turn # 0 /\ served[turn] = o,
         o = "interrupted" /\ alive => turn # 0 /\ served[turn] \in Endings,
         o = "completed" /\ abandoned = {} =>
           result'.from = IF sent[turn] > 0 THEN {turn} ELSE {},
         abandoned' = {} => NothingLost',
         abandoned' = {} /\ o \notin {"canceled", "interrupted"} =>
           InFlight' = {} /\ \A t \in Turns : served[t] # "running"
  PROVE  ClientInv'
<1>1. /\ caller' = "idle" /\ UNCHANGED <<turn, collected, final>>
      /\ abandoned \subseteq abandoned' /\ abandoned' \subseteq Turns
      /\ result'.turn = turn /\ result'.outcome = o
  BY DEF Return, ClientInv, Types, TypeOK, Turns
<1>2. In(stdin)' = In(stdin)
  BY DEF Wires, In
<1>3. Types'
  <2>1. TypeOK'
    BY <1>1 DEF ClientInv, Types, TypeOK, Wires, Goroutines, readers
  <2>2. result'.turn \in 0 .. MaxTurns
    BY <1>1 DEF ClientInv, Types, TypeOK
  <2> QED BY <2>1, <2>2 DEF ClientInv, Types, Wires
<1>4. Requested'
  BY <1>1, <1>2 DEF ClientInv, Requested, Starting, Wires
<1>5. Calling'
  BY <1>1, <1>2 DEF ClientInv, Calling, Asking, Starting, Wires, Goroutines
<1>6. AnswersTell'
  BY <1>1 DEF AnswersTell
<1>7. Complete'
  <2>1. \A t \in Turns : served'[t] = "none" => sent'[t] = 0
    BY DEF ClientInv, Complete, Wires
  <2>2. ASSUME abandoned' = {} PROVE OneTurn'
    <3>1. OneTurn
      BY <2>2, <1>1 DEF ClientInv, Complete
    <3> QED BY <3>1, <2>2, <1>1 DEF OneTurn, Wires, Goroutines, Stopped
  <2> QED BY <2>1, <2>2 DEF Complete
<1>8. Results'
  <2>1. result'.outcome \in {"completed", "failed"} =>
          result'.turn # 0 /\ served'[result'.turn] = result'.outcome
    BY <1>1 DEF Wires
  <2>2. result'.outcome = "interrupted" /\ alive' =>
          result'.turn # 0 /\ served'[result'.turn] \in Endings
    BY <1>1 DEF Wires
  <2>3. ResponseBelongsToTurn'
    BY <1>1 DEF ResponseBelongsToTurn, Wires
  <2> QED BY <2>1, <2>2, <2>3 DEF Results
<1> QED BY <1>3, <1>4, <1>5, <1>6, <1>7, <1>8 DEF ClientInv

(* What a caller that keeps result, answers and the past promises goes on   *)
(* to promise.                                                              *)
LEMMA ResultsStay ==
  ASSUME ClientInv, UNCHANGED <<Wires, result, abandoned>>, alive' => alive
  PROVE  Results'
BY DEF ClientInv, Results, ResponseBelongsToTurn, Wires

LEMMA CompleteStays ==
  ASSUME ClientInv, UNCHANGED <<Wires, calls, collected, final, abandoned, result>>,
         InFlight' = InFlight, caller' # "idle" \/ caller = "idle", alive' => alive
  PROVE  Complete'
<1>1. \A t \in Turns : served'[t] = "none" => sent'[t] = 0
  BY DEF ClientInv, Complete, Wires
<1>2. ASSUME abandoned' = {} PROVE OneTurn' /\ NothingLost'
  <2>1. OneTurn /\ NothingLost
    BY <1>2 DEF ClientInv, Complete
  <2>2. OneTurn'
    BY <2>1 DEF OneTurn, Wires, Stopped
  <2>3. NothingLost'
    BY <2>1 DEF NothingLost, Taken, Wires
  <2> QED BY <2>2, <2>3
<1> QED BY <1>1, <1>2 DEF Complete

LEMMA StillWires ==
  UNCHANGED Still => UNCHANGED <<Wires, Goroutines, notes, readErr, waitErr, alive>>
BY DEF Still, Wires, Goroutines, errVars, serverVars, work, readers

LEMMA StartKeeps == ASSUME ClientInv, Start, UNCHANGED Still PROVE ClientInv'
<1>1. /\ Request("initialize") /\ caller = "idle" /\ ~thread
      /\ UNCHANGED <<thread, calls, turn, collected, final, result, abandoned, answers>>
  BY DEF Start, turnVars
<1>2. calls = 0 /\ turn = 0
  BY <1>1 DEF ClientInv, Calling
<1>3. \A l \in In(stdin) : ~Starting(l)
  BY <1>2 DEF ClientInv, Requested
<1>4. /\ Types' /\ Requested' /\ AnswersTell' /\ NotesTell' /\ EndsLast'
      /\ InFlight' = InFlight /\ In(stdin)' = In(stdin)
  BY <1>1, <1>3, RequestKeeps DEF Methods, ClientInv, Types, TypeOK
<1>5. caller' = "write" /\ method' = "initialize"
  BY <1>1 DEF Request
<1>6. Calling'
  BY <1>1, <1>2, <1>4, <1>5, StillWires DEF ClientInv, Calling, Asking, Wires
<1>7. Complete' /\ Results'
  BY <1>1, <1>4, <1>5, StillWires, CompleteStays, ResultsStay DEF Goroutines
<1> QED BY <1>4, <1>6, <1>7 DEF ClientInv

LEMMA RunTurnKeeps == ASSUME ClientInv, RunTurn, UNCHANGED Still PROVE ClientInv'
<1>1. /\ Request("turn/start") /\ caller = "idle" /\ thread /\ ~Stopped /\ calls < MaxTurns
      /\ calls' = calls + 1 /\ turn' = 0 /\ collected' = {} /\ final' = 0
      /\ UNCHANGED <<thread, result, abandoned, answers>>
  BY DEF RunTurn, FreshResponse
<1>2. calls \in Nat /\ MaxTurns \in Nat /\ calls' \in Turns /\ calls' > calls
  <2>1. calls \in 0 .. MaxTurns
    BY DEF ClientInv, Types, TypeOK
  <2> QED BY <1>1, <2>1, ClientAssumption DEF Turns
<1>3. \A l \in In(stdin) : ~Starting(l)
  BY <1>1 DEF ClientInv, Calling, Stopped
<1>4. /\ Types' /\ Requested' /\ AnswersTell' /\ NotesTell' /\ EndsLast'
      /\ InFlight' = InFlight /\ In(stdin)' = In(stdin)
  <2>1. /\ thread' \in BOOLEAN /\ calls' \in 0 .. MaxTurns /\ turn' \in 0 .. MaxTurns
        /\ final' \in 0 .. MaxTurns /\ collected' \subseteq Turns /\ answers' \subseteq answers
    BY <1>1, <1>2 DEF ClientInv, Types, TypeOK, Turns
  <2>2. "turn/start" \in Methods
    BY DEF Methods
  <2> QED BY <1>1, <1>3, <2>1, <2>2, RequestKeeps
<1>5. caller' = "write" /\ method' = "turn/start"
  BY <1>1 DEF Request
<1>6. served' = served /\ sent' = sent
  BY StillWires DEF Wires
<1>7. \A t \in Turns : t > calls => served[t] = "none"
  BY DEF ClientInv, Calling
<1>8. Calling'
  BY <1>1, <1>2, <1>5, <1>6, <1>7 DEF Calling, Asking, Turns
<1>9. Complete'
  <2>1. \A t \in Turns : served'[t] = "none" => sent'[t] = 0
    BY <1>6 DEF ClientInv, Complete
  <2>2. sent'[calls'] = 0
    BY <2>1, <1>2, <1>6, <1>7
  <2>3. ASSUME abandoned' = {} PROVE OneTurn' /\ NothingLost'
    <3>1. InFlight = {} /\ \A t \in Turns : served[t] # "running"
      BY <2>3, <1>1 DEF ClientInv, Complete, OneTurn
    <3> QED BY <3>1, <2>2, <1>1, <1>2, <1>4, <1>5, <1>6 DEF OneTurn, NothingLost
  <2> QED BY <2>1, <2>3 DEF Complete
<1>10. Results'
  BY <1>1, StillWires, ResultsStay
<1> QED BY <1>4, <1>8, <1>9, <1>10 DEF ClientInv

LEMMA TurnCanceledKeeps ==
  ASSUME ClientInv, TurnCanceled, UNCHANGED <<serverVars, readers, canceled>> PROVE ClientInv'
<1>1. /\ Request("turn/interrupt") /\ caller = "turn" /\ canceled
      /\ UNCHANGED <<thread, calls, turn, collected, final, result, abandoned, answers>>
      /\ UNCHANGED Still
  BY DEF TurnCanceled, turnVars, Still
<1>2. turn = calls /\ turn # 0 /\ served[calls] # "none"
  BY <1>1 DEF ClientInv, Calling
<1>3. \A l \in In(stdin) : ~Starting(l)
  BY <1>2 DEF ClientInv, Requested
<1>4. /\ Types' /\ Requested' /\ AnswersTell' /\ NotesTell' /\ EndsLast'
      /\ InFlight' = InFlight /\ In(stdin)' = In(stdin)
  BY <1>1, <1>3, RequestKeeps DEF Methods, ClientInv, Types, TypeOK
<1>5. caller' = "write" /\ method' = "turn/interrupt"
  BY <1>1 DEF Request
<1>6. Calling'
  BY <1>1, <1>2, <1>4, <1>5, StillWires DEF ClientInv, Calling, Asking, Wires, Goroutines
<1>7. Complete' /\ Results'
  BY <1>1, <1>4, <1>5, StillWires, CompleteStays, ResultsStay DEF Goroutines
<1> QED BY <1>4, <1>6, <1>7 DEF ClientInv

(* The answer the caller takes is the last that was asked for: no request   *)
(* waits any more.                                                          *)
LEMMA AnswerTaken ==
  ASSUME ClientInv, NEW m \in Methods, NEW ok \in BOOLEAN, Answered(m, ok)
  PROVE  /\ caller = "await" /\ method = m /\ answers' \subseteq answers
         /\ \A l \in In(stdin) : FALSE
         /\ m = "turn/start" /\ ~ok => served[calls] = "none"
         /\ m = "turn/start" /\ ok =>
              /\ served[calls] # "none"
              /\ \A r \in answers \ answers' : r.turn = calls
         /\ m = "turn/interrupt" => served[turn] \in Endings
<1>1. PICK r \in answers : r.id = id /\ r.ok = ok /\ answers' = answers \ {r}
  BY DEF Answered
<1>2. r \in Envelopes /\ caller = "await" /\ method = m
  BY <1>1 DEF Envelopes, Answered
<1>3. \A l \in In(stdin) : l.id <= id /\ r.id < l.id /\ l.id \in Nat /\ id \in Nat
  BY <1>2, WireTypes DEF ClientInv, Requested, Types, TypeOK
<1>4. \A l \in In(stdin) : FALSE
  BY <1>1, <1>3
<1>5. /\ m = "turn/start" => IF r.ok THEN r.turn = calls /\ served[calls] # "none" ELSE served[calls] = "none"
      /\ m = "turn/interrupt" => served[turn] \in Endings
  BY <1>1, <1>2 DEF ClientInv, AnswersTell
<1> QED BY <1>1, <1>2, <1>4, <1>5

LEMMA StillTypes ==
  ASSUME ClientInv, UNCHANGED Still
  PROVE  /\ notes' \in Seq(Note) /\ Len(notes') <= Cap
         /\ readErr' \in BOOLEAN /\ waitErr' \in BOOLEAN
BY DEF ClientInv, Types, TypeOK, Still, errVars

LEMMA TypesStay ==
  ASSUME ClientInv, UNCHANGED Still, answers' \subseteq answers,
         UNCHANGED <<method, id, calls, collected, final, result, abandoned, pending>>,
         thread' \in BOOLEAN, turn' \in 0 .. MaxTurns,
         caller' \in {"idle", "write", "await", "turn", "closed"}
  PROVE  Types'
<1>1. TypeOK'
  BY DEF ClientInv, Types, TypeOK, Still, errVars, serverVars, work, readers
<1> QED BY <1>1 DEF ClientInv, Types, Still, serverVars, work

LEMMA LossStays ==
  ASSUME ClientInv, UNCHANGED <<Wires, calls, collected, final, alive>>, InFlight' = InFlight,
         abandoned = {} \/ abandoned \subseteq abandoned', abandoned' = {} => abandoned = {}
  PROVE  abandoned' = {} => NothingLost'
BY DEF ClientInv, Complete, NothingLost, Taken, Wires

(* Before the server has taken the first or next turn, there is nothing of  *)
(* any on its way, unless one was given up.                                 *)
LEMMA NothingYet ==
  ASSUME ClientInv, calls = 0 \/ served[calls] = "none", abandoned = {}
  PROVE  InFlight = {} /\ \A t \in Turns : served[t] # "running"
<1>1. \A n \in InFlight : n.turn \in Turns /\ n.turn = calls /\ served[n.turn] # "none"
  BY WireTypes DEF ClientInv, Complete, OneTurn, NotesTell
<1>2. \A t \in Turns : served[t] = "running" => t = calls
  BY DEF ClientInv, Complete, OneTurn
<1>3. 0 \notin Turns
  BY DEF Turns
<1> QED BY <1>1, <1>2, <1>3

(* A call that fails before its turn has begun, or in it. *)
LEMMA ErrorKeeps ==
  ASSUME ClientInv, Return("error"), UNCHANGED <<method, id, thread, calls, pending, Still>>,
         answers' \subseteq answers, \A l \in In(stdin) : ~Starting(l),
         turn # 0 \/ calls = 0 \/ served[calls] = "none"
  PROVE  ClientInv'
<1>1. /\ Envelopes' \subseteq Envelopes /\ InFlight' = InFlight /\ NotesTell' /\ EndsLast'
      /\ UNCHANGED <<Wires, Goroutines, alive>>
  BY StillWires, CallerFrame
<1>2. /\ abandoned' = (IF turn # 0 THEN abandoned \cup {turn} ELSE abandoned)
      /\ UNCHANGED <<collected, final>>
  BY DEF Return
<1>3. abandoned' = {} => abandoned = {} /\ turn = 0
  BY <1>2
<1>4. abandoned' = {} => NothingLost'
  BY <1>1, <1>2, <1>3, LossStays
<1>5. abandoned' = {} => InFlight' = {} /\ \A t \in Turns : served[t] # "running"
  BY <1>1, <1>3, NothingYet
<1> QED BY <1>1, <1>4, <1>5, StillTypes, ReturnKeeps DEF Endings

LEMMA InterruptedKeeps ==
  ASSUME ClientInv, Return("interrupted"), UNCHANGED <<method, id, thread, calls, pending, Still>>,
         answers' \subseteq answers, Asking, method = "turn/interrupt", alive => served[turn] \in Endings
  PROVE  ClientInv'
<1>1. /\ Envelopes' \subseteq Envelopes /\ InFlight' = InFlight /\ NotesTell' /\ EndsLast'
      /\ UNCHANGED <<Wires, Goroutines, alive>>
  BY StillWires, CallerFrame
<1>2. abandoned' = abandoned /\ UNCHANGED <<collected, final>>
  BY DEF Return
<1>3. abandoned' = {} => NothingLost'
  BY <1>1, <1>2, LossStays
<1>4. turn # 0
  BY DEF ClientInv, Calling
<1>5. \A l \in In(stdin) : ~Starting(l)
  <2>1. id \in Nat
    BY DEF ClientInv, Types, TypeOK
  <2> QED BY <2>1 DEF ClientInv, Requested, Asking, Starting
<1> QED BY <1>1, <1>3, <1>4, <1>5, StillTypes, ReturnKeeps DEF Endings

LEMMA InitializedKeeps == ASSUME ClientInv, Initialized, UNCHANGED Still PROVE ClientInv'
<1>1. /\ Answered("initialize", TRUE)
      /\ UNCHANGED <<thread, calls>>
      /\ IF alive THEN Request("thread/start") /\ UNCHANGED turnVars
         ELSE Return("error") /\ UNCHANGED <<method, id, pending>>
  BY DEF Initialized
<1>2. /\ caller = "await" /\ method = "initialize" /\ answers' \subseteq answers
      /\ \A l \in In(stdin) : ~Starting(l)
  BY <1>1, AnswerTaken DEF Methods
<1>3. ~thread /\ turn = 0 /\ calls = 0
  BY <1>2 DEF ClientInv, Calling, Asking
<1>4. CASE alive
  <2>1. Request("thread/start") /\ UNCHANGED <<turn, collected, final, result, abandoned>>
    BY <1>1, <1>4 DEF turnVars
  <2>2. /\ Types' /\ Requested' /\ AnswersTell' /\ NotesTell' /\ EndsLast'
        /\ InFlight' = InFlight /\ In(stdin)' = In(stdin)
    BY <1>1, <1>2, <2>1, RequestKeeps DEF Methods, ClientInv, Types, TypeOK
  <2>3. caller' = "write" /\ method' = "thread/start"
    BY <2>1 DEF Request
  <2>4. Calling'
    BY <1>1, <1>2, <1>3, <2>1, <2>2, <2>3, StillWires DEF ClientInv, Calling, Asking, Wires
  <2>5. Complete' /\ Results'
    BY <1>1, <2>1, <2>2, <2>3, StillWires, CompleteStays, ResultsStay DEF Goroutines
  <2> QED BY <2>2, <2>4, <2>5 DEF ClientInv
<1>5. CASE ~alive
  BY <1>1, <1>2, <1>3, <1>5, ErrorKeeps
<1> QED BY <1>4, <1>5

LEMMA AnswerRefusedKeeps == ASSUME ClientInv, AnswerRefused, UNCHANGED Still PROVE ClientInv'
<1>1. UNCHANGED <<method, id, thread, calls, pending>>
  BY DEF AnswerRefused
<1>2. CASE Answered("turn/interrupt", FALSE) /\ Return("interrupted")
  <2>1. /\ caller = "await" /\ method = "turn/interrupt" /\ answers' \subseteq answers
        /\ (\A l \in In(stdin) : ~Starting(l)) /\ served[turn] \in Endings
    BY <1>2, AnswerTaken DEF Methods
  <2> QED BY <1>1, <1>2, <2>1, InterruptedKeeps DEF Asking
<1>3. ASSUME NEW m \in {"initialize", "thread/start", "turn/start"}, Answered(m, FALSE), Return("error")
      PROVE  ClientInv'
  <2>1. /\ caller = "await" /\ method = m /\ answers' \subseteq answers
        /\ \A l \in In(stdin) : ~Starting(l)
        /\ m = "turn/start" => served[calls] = "none"
    BY <1>3, AnswerTaken DEF Methods
  <2>2. turn = 0 /\ (calls = 0 \/ served[calls] = "none")
    BY <2>1 DEF ClientInv, Calling, Asking
  <2> QED BY <1>1, <1>3, <2>1, <2>2, ErrorKeeps
<1> QED BY <1>2, <1>3 DEF AnswerRefused

LEMMA InterruptAnsweredKeeps == ASSUME ClientInv, InterruptAnswered, UNCHANGED Still PROVE ClientInv'
<1>1. /\ Answered("turn/interrupt", TRUE) /\ Return("interrupted")
      /\ UNCHANGED <<method, id, thread, calls, pending>>
  BY DEF InterruptAnswered
<1>2. /\ caller = "await" /\ method = "turn/interrupt" /\ answers' \subseteq answers
      /\ (\A l \in In(stdin) : ~Starting(l)) /\ served[turn] \in Endings
  BY <1>1, AnswerTaken DEF Methods
<1> QED BY <1>1, <1>2, InterruptedKeeps DEF Asking

LEMMA AwaitCanceledKeeps == ASSUME ClientInv, AwaitCanceled, UNCHANGED Still PROVE ClientInv'
<1>1. /\ canceled /\ Return("canceled")
      /\ UNCHANGED <<method, id, thread, calls, pending, answers>>
  BY DEF AwaitCanceled, ContextEndsRequest, rpcVars
<1>2. /\ Envelopes' \subseteq Envelopes /\ InFlight' = InFlight /\ NotesTell' /\ EndsLast'
      /\ UNCHANGED <<turn, collected, final>> /\ abandoned' = abandoned
  BY <1>1, StillWires, CallerFrame DEF Return
<1>3. abandoned' = {} => NothingLost'
  BY <1>1, <1>2, StillWires, LossStays
<1> QED BY <1>1, <1>2, <1>3, StillWires, StillTypes, ReturnKeeps DEF Endings

LEMMA ThreadStartedKeeps == ASSUME ClientInv, ThreadStarted, UNCHANGED Still PROVE ClientInv'
<1>1. /\ Answered("thread/start", TRUE) /\ thread' = TRUE /\ caller' = "idle"
      /\ UNCHANGED <<method, id, calls, turn, collected, final, result, abandoned, pending>>
  BY DEF ThreadStarted, turnVars
<1>2. /\ caller = "await" /\ method = "thread/start" /\ answers' \subseteq answers
      /\ \A l \in In(stdin) : FALSE
  BY <1>1, AnswerTaken DEF Methods
<1>3. ~thread /\ turn = 0 /\ calls = 0
  BY <1>2 DEF ClientInv, Calling, Asking
<1>4. /\ Envelopes' \subseteq Envelopes /\ InFlight' = InFlight /\ In(stdin)' = In(stdin)
      /\ NotesTell' /\ EndsLast'
  BY <1>2, StillWires, CallerFrame
<1>5. Types'
  <2>1. turn' \in 0 .. MaxTurns /\ thread' \in BOOLEAN
    BY <1>1 DEF ClientInv, Types, TypeOK
  <2> QED BY <1>1, <1>2, <2>1, TypesStay
<1>6. Requested' /\ AnswersTell'
  BY <1>1, <1>2, <1>4, StillWires DEF ClientInv, Requested, AnswersTell, Starting, Wires
<1>7. Calling'
  BY <1>1, <1>2, <1>3, <1>4, StillWires DEF ClientInv, Calling, Asking, Wires, Goroutines
<1>8. Complete'
  <2>1. served' = served /\ sent' = sent /\ canceled' = canceled /\ alive' = alive
    BY StillWires DEF Wires, Goroutines
  <2>2. abandoned = {} => InFlight = {} /\ \A t \in Turns : served[t] # "running"
    BY <1>3, NothingYet
  <2> QED BY <1>1, <1>4, <2>1, <2>2 DEF ClientInv, Complete, OneTurn, NothingLost, Taken
<1>9. Results'
  BY <1>1, StillWires, ResultsStay
<1> QED BY <1>4, <1>5, <1>6, <1>7, <1>8, <1>9 DEF ClientInv

LEMMA TurnStartedKeeps == ASSUME ClientInv, TurnStarted, UNCHANGED Still PROVE ClientInv'
<1>1. /\ Answered("turn/start", TRUE) /\ caller' = "turn"
      /\ \E r \in answers \ answers' : turn' = r.turn
      /\ UNCHANGED <<method, id, thread, calls, collected, final, result, abandoned, pending>>
  BY DEF TurnStarted
<1>2. /\ caller = "await" /\ method = "turn/start" /\ answers' \subseteq answers
      /\ (\A l \in In(stdin) : FALSE) /\ served[calls] # "none" /\ turn' = calls
  BY <1>1, AnswerTaken DEF Methods
<1>3. calls # 0
  BY <1>2 DEF ClientInv, Calling, Asking
<1>4. /\ Envelopes' \subseteq Envelopes /\ InFlight' = InFlight /\ In(stdin)' = In(stdin)
      /\ NotesTell' /\ EndsLast'
  BY <1>2, StillWires, CallerFrame
<1>5. Types'
  <2>1. turn' \in 0 .. MaxTurns /\ thread' \in BOOLEAN
    BY <1>1, <1>2 DEF ClientInv, Types, TypeOK
  <2> QED BY <1>1, <1>2, <2>1, TypesStay
<1>6. Requested' /\ AnswersTell'
  BY <1>1, <1>2, <1>4, StillWires DEF ClientInv, Requested, AnswersTell, Starting, Wires
<1>7. Calling'
  BY <1>1, <1>2, <1>3, <1>4, StillWires DEF ClientInv, Calling, Asking, Wires, Goroutines
<1>8. Complete' /\ Results'
  BY <1>1, <1>4, StillWires, CompleteStays, ResultsStay DEF Goroutines
<1> QED BY <1>4, <1>5, <1>6, <1>7, <1>8 DEF ClientInv

LEMMA CloseKeeps ==
  ASSUME ClientInv, Close, UNCHANGED <<notes, errVars, readers, canceled>> PROVE ClientInv'
<1>1. /\ caller = "idle" /\ caller' = "closed" /\ alive' = FALSE /\ stderr' = "closed"
      /\ UNCHANGED <<method, id, thread, calls, turn, collected, final, result, abandoned,
                     pending, answers, stdin, stdout, served, sent>>
      /\ UNCHANGED <<notes, readErr, waitErr, reader, stderrReader, reaped, canceled>>
  BY DEF Close, turnVars, rpcVars, work, errVars, readers
<1>2. /\ Envelopes' \subseteq Envelopes /\ InFlight' = InFlight /\ In(stdin)' = In(stdin)
      /\ NotesTell' /\ EndsLast'
  BY <1>1, CallerFrame DEF Wires
<1>3. Types'
  BY <1>1 DEF ClientInv, Types, TypeOK
<1>4. Requested' /\ AnswersTell'
  BY <1>1, <1>2 DEF ClientInv, Requested, AnswersTell, Starting
<1>5. Calling'
  BY <1>1, <1>2 DEF ClientInv, Calling, Asking
<1>6. Complete' /\ Results'
  BY <1>1, <1>2, CompleteStays, ResultsStay DEF Wires
<1> QED BY <1>2, <1>3, <1>4, <1>5, <1>6 DEF ClientInv

LEMMA SelectFailsKeeps ==
  ASSUME ClientInv, caller = "turn", Return("error"),
         UNCHANGED <<method, id, thread, calls, rpcVars, notes, serverVars, readers, canceled>>,
         readErr' \in BOOLEAN, waitErr' \in BOOLEAN
  PROVE  ClientInv'
<1>1. UNCHANGED <<Wires, Goroutines, alive, pending, answers>>
  BY DEF Wires, Goroutines, serverVars, work, rpcVars, readers
<1>2. turn = calls /\ turn # 0 /\ served[calls] # "none"
  BY DEF ClientInv, Calling
<1>3. \A l \in In(stdin) : ~Starting(l)
  BY <1>2 DEF ClientInv, Requested
<1>4. /\ Envelopes' \subseteq Envelopes /\ InFlight' = InFlight /\ NotesTell' /\ EndsLast'
  BY <1>1, CallerFrame
<1>5. abandoned' # {}
  BY <1>2 DEF Return
<1>6. notes' \in Seq(Note) /\ Len(notes') <= Cap
  BY DEF ClientInv, Types, TypeOK
<1> QED BY <1>1, <1>3, <1>4, <1>5, <1>6, ReturnKeeps DEF Endings

(* What is left once the first notification is taken. *)
LEMMA NoteTaken ==
  ASSUME ClientInv, notes # <<>>, notes' = Tail(notes), UNCHANGED <<Wires, answers>>
  PROVE  /\ Head(notes) \in InFlight /\ Head(notes) \in Note
         /\ InFlight = InFlight' \cup {Head(notes)} /\ Envelopes' = Envelopes /\ In(stdin)' = In(stdin)
         /\ notes' \in Seq(Note) /\ Len(notes') <= Cap
         /\ NotesTell' /\ EndsLast'
         /\ Head(notes).kind \in Endings => \A n \in InFlight' : n.turn # Head(notes).turn
<1>1. /\ notes \in Seq(Note) /\ Len(notes) <= Cap /\ Len(notes) \in Nat /\ Cap \in Nat
  BY ClientAssumption DEF ClientInv, Types, TypeOK
<1>2. /\ notes' \in Seq(Note) /\ Len(notes') = Len(notes) - 1
      /\ \A k \in DOMAIN notes' : k \in 1 .. Len(notes) /\ k + 1 \in 1 .. Len(notes) /\ notes'[k] = notes[k + 1]
      /\ DOMAIN notes = 1 .. Len(notes) /\ 1 \in DOMAIN notes
      /\ Head(notes) = notes[1] /\ Head(notes) \in Note /\ Head(notes) \in In(notes)
      /\ In(notes) = In(notes') \cup {Head(notes)}
  BY <1>1, TailIn
<1>3. /\ In(stdin)' = In(stdin) /\ In(stdout)' = In(stdout) /\ In(notes)' = In(notes')
  BY DEF In, Wires
<1>4. InFlight = InFlight' \cup {Head(notes)} /\ Envelopes' = Envelopes
  BY <1>2, <1>3 DEF InFlight, Envelopes
<1>5. NotesTell'
  BY <1>4 DEF ClientInv, NotesTell, Wires
<1>6. EndsLast'
  <2>1. \A a, b \in DOMAIN stdout' : a < b => After(stdout'[a], stdout'[b])
    BY DEF ClientInv, EndsLast, Wires
  <2>2. ASSUME NEW a \in DOMAIN notes', NEW b \in DOMAIN notes', a < b
        PROVE  After(notes'[a], notes'[b])
    <3>1. a + 1 \in DOMAIN notes /\ b + 1 \in DOMAIN notes /\ a + 1 < b + 1
      BY <1>1, <1>2, <2>2
    <3>2. After(notes[a + 1], notes[b + 1])
      BY <3>1 DEF ClientInv, EndsLast
    <3> QED BY <3>2, <1>2
  <2>3. \A m \in In(notes'), n \in In(stdout') : After(m, n)
    BY <1>2, <1>3 DEF ClientInv, EndsLast
  <2>4. (\A a, b \in DOMAIN notes' : a < b => After(notes'[a], notes'[b]))
    BY <2>2
  <2> QED BY <2>1, <2>3, <2>4, <1>3 DEF EndsLast, After
<1>7. ASSUME Head(notes).kind \in Endings, NEW n \in InFlight' PROVE n.turn # Head(notes).turn
  <2>1. CASE n \in In(stdout) /\ n.kind # "answer"
    BY <1>2, <1>7, <2>1 DEF ClientInv, EndsLast, After
  <2>2. CASE n \in In(notes')
    <3>1. PICK k \in DOMAIN notes' : n = notes'[k]
      BY <2>2 DEF In
    <3>2. k + 1 \in DOMAIN notes /\ 1 < k + 1 /\ n = notes[k + 1]
      BY <1>1, <1>2, <3>1
    <3>3. After(notes[1], notes[k + 1])
      BY <3>2, <1>2 DEF ClientInv, EndsLast
    <3>4. n \in Note
      BY <1>2, <2>2, InSeq
    <3> QED BY <3>2, <3>3, <3>4, <1>2, <1>7 DEF After, Note, Spoken, Endings
  <2> QED BY <1>3, <2>1, <2>2 DEF InFlight
<1> QED BY <1>1, <1>2, <1>3, <1>4, <1>5, <1>6, <1>7

LEMMA TurnNoteKeeps ==
  ASSUME ClientInv, TurnNote, UNCHANGED <<serverVars, readers, canceled>> PROVE ClientInv'
<1> DEFINE n == Head(notes)
<1>1. /\ caller = "turn" /\ notes # <<>> /\ notes' = Tail(notes)
      /\ UNCHANGED <<method, id, thread, calls, pending, answers, readErr, waitErr>>
      /\ UNCHANGED <<Wires, Goroutines, alive, readers, stderr>>
  BY DEF TurnNote, rpcVars, errVars, Wires, Goroutines, serverVars, work, readers
<1>2. /\ n \in InFlight /\ n \in Note /\ InFlight = InFlight' \cup {n}
      /\ Envelopes' = Envelopes /\ In(stdin)' = In(stdin)
      /\ notes' \in Seq(Note) /\ Len(notes') <= Cap /\ NotesTell' /\ EndsLast'
      /\ n.kind \in Endings => \A m \in InFlight' : m.turn # n.turn
  BY <1>1, NoteTaken
<1>3. /\ n.turn \in Turns /\ n.kind \in Spoken \cup Endings /\ turn = calls /\ turn # 0 /\ served[turn] # "none"
      /\ readErr \in BOOLEAN /\ waitErr \in BOOLEAN
  BY <1>1, <1>2 DEF Note, ClientInv, Calling, Types, TypeOK
<1>4. /\ served[n.turn] # "none"
      /\ n.kind \in Endings => served[n.turn] = n.kind
      /\ n.kind \in Spoken => sent[n.turn] > 0
  BY <1>2 DEF ClientInv, NotesTell
<1>5. CASE n.kind \in Endings /\ n.turn = turn /\ Return(n.kind)
  <2>1. /\ UNCHANGED <<turn, collected, final>> /\ abandoned' = abandoned
        /\ result'.from = IF final # 0 THEN {final} ELSE collected
    BY <1>5 DEF Return, Endings
  <2>2. ASSUME abandoned = {}
        PROVE  /\ InFlight' = {} /\ \A t \in Turns : served[t] # "running"
               /\ (IF final # 0 THEN {final} ELSE collected) = IF sent[turn] > 0 THEN {turn} ELSE {}
               /\ sent[turn] # 0 => Taken
    <3>1. OneTurn /\ NothingLost
      BY <2>2 DEF ClientInv, Complete
    <3>2. \A m \in InFlight : m.turn = calls
      BY <3>1 DEF OneTurn
    <3>3. InFlight' = {}
      BY <1>2, <1>3, <1>5, <3>2
    <3>4. \A t \in Turns : served[t] # "running"
      BY <3>1, <1>3, <1>4, <1>5 DEF OneTurn, Endings
    <3>5. sent[turn] \in Nat
      BY <1>3, <1>5 DEF ClientInv, Types
    <3>6. sent[turn] # 0 => Taken
      <4>1. InFlight = {n}
        BY <1>2, <3>3
      <4> QED BY <4>1, <3>1, <1>2, <1>3, <1>5 DEF NothingLost, Spoken, Endings
    <3>7. (IF final # 0 THEN {final} ELSE collected) = IF sent[turn] > 0 THEN {turn} ELSE {}
      <4>1. /\ collected \subseteq {calls} /\ final \in {0, calls}
            /\ sent[calls] = 0 => collected = {} /\ final = 0
        BY <3>1, <1>3 DEF OneTurn
      <4> QED BY <4>1, <3>5, <3>6, <1>3 DEF Taken
    <3> QED BY <3>3, <3>4, <3>6, <3>7
  <2>3. abandoned' = {} => NothingLost'
    BY <2>1, <2>2, <1>1, <1>3 DEF NothingLost, Taken, Wires
  <2>4. \A l \in In(stdin) : ~Starting(l)
    BY <1>3 DEF ClientInv, Requested
  <2>5. Endings \subseteq {"error", "canceled"} \cup Endings
    OBVIOUS
  <2>6. /\ n.kind \in {"error", "canceled"} \cup Endings /\ answers' \subseteq answers
        /\ Envelopes' \subseteq Envelopes /\ InFlight' \subseteq InFlight
        /\ readErr' \in BOOLEAN /\ waitErr' \in BOOLEAN
        /\ turn # 0 /\ served[turn] = n.kind
    BY <1>1, <1>2, <1>3, <1>4, <1>5
  <2>7. n.kind = "completed" /\ abandoned = {} =>
          result'.from = IF sent[turn] > 0 THEN {turn} ELSE {}
    BY <2>1, <2>2
  <2>8. abandoned' = {} /\ n.kind \notin {"canceled", "interrupted"} =>
          InFlight' = {} /\ \A t \in Turns : served[t] # "running"
    BY <2>1, <2>2
  <2>9. n.kind = "interrupted" /\ alive => turn # 0 /\ served[turn] \in Endings
    BY <2>6 DEF Endings
  <2> HIDE DEF n
  <2> QED BY <1>1, <1>2, <1>5, <2>3, <2>4, <2>6, <2>7, <2>8, <2>9, ReturnKeeps
<1>6. ASSUME UNCHANGED <<caller, turn, result, abandoned>>,
             \/ n.kind = "delta" /\ collected' = collected \cup {n.turn} /\ final' = final
             \/ n.kind = "item" /\ final' = n.turn /\ collected' = collected
             \/ n.kind \in Endings /\ n.turn # turn /\ UNCHANGED <<collected, final>>
      PROVE  ClientInv'
  <2>1. final' \in 0 .. MaxTurns /\ collected' \subseteq Turns
    <3>1. final \in 0 .. MaxTurns /\ collected \subseteq Turns
      BY DEF ClientInv, Types, TypeOK
    <3>2. n.turn \in 0 .. MaxTurns
      BY <1>3 DEF Turns
    <3> HIDE DEF n
    <3> QED BY <3>1, <3>2, <1>3, <1>6
  <2>2. Types'
    <3>1. TypeOK'
      BY <1>1, <1>2, <1>6, <2>1 DEF ClientInv, Types, TypeOK, Wires, Goroutines, readers
    <3> QED BY <3>1, <1>1, <1>2, <1>6 DEF ClientInv, Types, Wires
  <2>3. Requested' /\ AnswersTell'
    BY <1>1, <1>2, <1>6 DEF ClientInv, Requested, AnswersTell, Starting, Wires
  <2>4. Calling'
    BY <1>1, <1>2, <1>6 DEF ClientInv, Calling, Asking, Starting, Wires, Goroutines
  <2>5. Complete'
    <3>1. \A t \in Turns : served'[t] = "none" => sent'[t] = 0
      BY <1>1 DEF ClientInv, Complete, Wires
    <3>2. ASSUME abandoned = {} PROVE OneTurn' /\ NothingLost'
      <4>1. OneTurn /\ NothingLost
        BY <3>2 DEF ClientInv, Complete
      <4>2. n.turn = calls /\ n.kind \notin Endings /\ n.kind \in Spoken
        BY <4>1, <1>2, <1>3, <1>6 DEF OneTurn, Spoken, Endings
      <4>3. sent[calls] > 0 /\ sent[calls] \in Nat /\ calls # 0
        BY <4>2, <1>3, <1>4 DEF ClientInv, Types
      <4>4. OneTurn'
        <5>1. collected' \subseteq {calls} /\ final' \in {0, calls}
          BY <4>1, <4>2, <1>6 DEF OneTurn
        <5> QED BY <4>1, <4>3, <5>1, <1>1, <1>2, <1>6 DEF OneTurn, Wires
      <4>5. Taken'
        BY <4>2, <1>1, <1>6 DEF Taken, Spoken, Endings
      <4> QED BY <4>4, <4>5 DEF NothingLost
    <3> QED BY <3>1, <3>2, <1>6 DEF Complete
  <2>6. Results'
    BY <1>1, <1>6, ResultsStay
  <2> QED BY <1>2, <2>2, <2>3, <2>4, <2>5, <2>6 DEF ClientInv
<1>7. EndsTurn(n) <=> n.kind \in Endings /\ n.turn = turn
  BY <1>3 DEF EndsTurn, Turns
<1> QED BY <1>5, <1>6, <1>7, <1>3 DEF TurnNote, turnVars

LEMMA WriteKeeps ==
  ASSUME ClientInv, Write, UNCHANGED <<notes, errVars, readers, canceled>> PROVE ClientInv'
<1>1. /\ caller = "write" /\ UNCHANGED <<method, id, thread, calls, pending, answers>>
      /\ UNCHANGED <<alive, stdout, stderr, served, sent, notes, readErr, waitErr, readers, canceled>>
  BY DEF Write, rpcVars, work, errVars
<1>2. CASE alive
  <2> DEFINE l == [id |-> id, method |-> method, turn |-> turn]
  <2>1. /\ stdin' = Append(stdin, l) /\ caller' = "await"
        /\ UNCHANGED <<turn, collected, final, result, abandoned>>
    BY <1>2 DEF Write, turnVars
  <2>2. /\ l \in Line /\ stdin \in Seq(Line) /\ id \in Nat
    BY <1>1 DEF ClientInv, Types, TypeOK, Line, Calling, Asking, Methods
  <2>3. /\ stdin' \in Seq(Line) /\ Len(stdin) \in Nat
        /\ DOMAIN stdin = 1 .. Len(stdin) /\ DOMAIN stdin' = 1 .. (Len(stdin) + 1)
        /\ \A k \in 1 .. Len(stdin) : stdin'[k] = stdin[k] /\ stdin[k] \in In(stdin)
        /\ stdin'[Len(stdin) + 1] = l
        /\ In(stdin') = In(stdin) \cup {l}
    <3> HIDE DEF l
    <3> QED BY <2>1, <2>2, AppendIn
  <2>4. In(stdin)' = In(stdin') /\ In(stdout)' = In(stdout) /\ In(notes)' = In(notes)
    BY <1>1 DEF In
  <2>5. Envelopes' = Envelopes /\ InFlight' = InFlight
    BY <2>4, <1>1 DEF Envelopes, InFlight
  <2>6. /\ \A m \in In(stdin) : m.id < id /\ m.id \in Nat
        /\ \A e \in Envelopes : e.id < id /\ e.id \in Nat
    BY <1>1, WireTypes DEF ClientInv, Requested
  <2>7. l.id = id /\ l.method = method /\ l.turn = turn
    OBVIOUS
  <2> HIDE DEF l
  <2>8. Requested'
    <3>1. ASSUME NEW i \in DOMAIN stdin', NEW j \in DOMAIN stdin', i < j
          PROVE  stdin'[i].id < stdin'[j].id
      <4>1. CASE j = Len(stdin) + 1
        BY <3>1, <4>1, <2>3, <2>6, <2>7
      <4>2. CASE j # Len(stdin) + 1
        <5>1. i \in DOMAIN stdin /\ j \in DOMAIN stdin
          BY <3>1, <4>2, <2>3
        <5> QED BY <5>1, <3>1, <2>3 DEF ClientInv, Requested
      <4> QED BY <4>1, <4>2
    <3>2. \A m \in In(stdin') : m.id <= id'
      BY <2>2, <2>3, <2>6, <2>7, <1>1
    <3>3. \A m \in In(stdin'), e \in Envelopes' : e.id < m.id
      BY <2>3, <2>5, <2>6, <2>7 DEF ClientInv, Requested
    <3>4. \A e \in Envelopes' : e.id <= id'
      BY <1>1, <2>2, <2>5, <2>6
    <3>5. ASSUME NEW m \in In(stdin'), m.method = "turn/start"
          PROVE  m.id = id' /\ calls' # 0 /\ served'[calls'] = "none"
      <4>1. CASE m \in In(stdin)
        BY <4>1, <3>5, <1>1 DEF ClientInv, Requested, Starting
      <4>2. CASE m = l
        BY <4>2, <3>5, <2>7, <1>1 DEF ClientInv, Calling, Asking
      <4> QED BY <4>1, <4>2, <2>3
    <3>6. ASSUME NEW m \in In(stdin'), m.method = "turn/interrupt" PROVE m.turn # 0
      <4>1. CASE m \in In(stdin)
        BY <4>1, <3>6 DEF ClientInv, Requested
      <4>2. CASE m = l
        BY <4>2, <3>6, <2>7, <1>1 DEF ClientInv, Calling, Asking
      <4> QED BY <4>1, <4>2, <2>3
    <3>7. \A m \in In(stdin') : m.id = id' => m.method = method' /\ m.turn = turn'
      BY <2>1, <2>2, <2>3, <2>6, <2>7, <1>1
    <3>8. (\A i, j \in DOMAIN stdin' : i < j => stdin'[i].id < stdin'[j].id)
      BY <3>1
    <3> QED BY <3>2, <3>3, <3>4, <3>5, <3>6, <3>7, <3>8, <2>1, <2>4 DEF Requested, Starting
  <2>9. Types'
    <3>1. TypeOK'
      BY <1>1, <2>1 DEF ClientInv, Types, TypeOK, readers
    <3> QED BY <3>1, <1>1, <2>1, <2>3 DEF ClientInv, Types
  <2>10. Calling'
    BY <1>1, <2>1 DEF ClientInv, Calling, Asking
  <2>11. AnswersTell'
    BY <1>1, <2>5, <2>6, <2>2 DEF AnswersTell
  <2>12. NotesTell' /\ EndsLast'
    BY <1>1, <2>4, <2>5 DEF ClientInv, NotesTell, EndsLast, After
  <2>13. Complete'
    BY <1>1, <2>1, <2>5 DEF ClientInv, Complete, OneTurn, NothingLost, Taken
  <2>14. Results'
    BY <1>1, <2>1 DEF ClientInv, Results, ResponseBelongsToTurn
  <2> QED BY <2>8, <2>9, <2>10, <2>11, <2>12, <2>13, <2>14 DEF ClientInv
<1>3. CASE ~alive
  <2>1. /\ stdin' = stdin
        /\ Return(IF method = "turn/interrupt" THEN "interrupted" ELSE "error")
    BY <1>3 DEF Write
  <2>2. UNCHANGED Still
    BY <1>1, <2>1 DEF Still, serverVars, Write, errVars
  <2>3. CASE method = "turn/interrupt"
    BY <1>1, <1>3, <2>1, <2>2, <2>3, InterruptedKeeps DEF Asking
  <2>4. CASE method # "turn/interrupt"
    <3>1. turn = 0 /\ (calls = 0 \/ served[calls] = "none")
      BY <1>1, <2>4 DEF ClientInv, Calling, Asking, Types, TypeOK
    <3>2. \A l \in In(stdin) : ~Starting(l)
      <4>1. \A l \in In(stdin) : l.id < id /\ l.id \in Nat
        BY <1>1, WireTypes DEF ClientInv, Requested
      <4> QED BY <4>1 DEF ClientInv, Requested, Types, TypeOK
    <3> QED BY <1>1, <2>1, <2>2, <2>4, <3>1, <3>2, ErrorKeeps
  <2> QED BY <2>3, <2>4
<1> QED BY <1>2, <1>3

LEMMA CallerKeeps == ASSUME ClientInv, Caller PROVE ClientInv'
<1> DEFINE errors == readErr' \in BOOLEAN /\ waitErr' \in BOOLEAN
<1>1. UNCHANGED <<readers, canceled>>
  BY DEF Caller
<1>2. CASE (Calls \/ Await) /\ UNCHANGED <<notes, errVars, serverVars>>
  <2>1. UNCHANGED Still
    BY <1>1, <1>2 DEF Still
  <2> QED BY <1>2, <2>1, StartKeeps, RunTurnKeeps, AwaitCanceledKeeps, AnswerRefusedKeeps, InitializedKeeps,
             ThreadStartedKeeps, TurnStartedKeeps, InterruptAnsweredKeeps DEF Calls, Await
<1>3. CASE Select /\ UNCHANGED serverVars
  <2>1. CASE TurnSeesExit \/ TurnSeesClosedStream
    <3>1. /\ caller = "turn" /\ Return("error") /\ errors
          /\ UNCHANGED <<method, id, thread, calls, rpcVars, notes>>
      BY <2>1 DEF TurnSeesExit, TurnSeesClosedStream, ClientInv, Types, TypeOK
    <3> QED BY <1>1, <1>3, <3>1, SelectFailsKeeps
  <2> QED BY <1>1, <1>3, <2>1, TurnCanceledKeeps, TurnNoteKeeps DEF Select
<1>4. CASE (Write \/ Close) /\ UNCHANGED <<notes, errVars>>
  BY <1>1, <1>4, WriteKeeps, CloseKeeps
<1> QED BY <1>2, <1>3, <1>4 DEF Caller

-----------------------------------------------------------------------------
(* The steps of the readers and of the server leave the caller alone. *)
Frame == <<callerVars, turnVars>>

LEMMA FrameIs ==
  UNCHANGED Frame => UNCHANGED <<caller, method, id, thread, calls, turn, collected, final, result, abandoned>>
BY DEF Frame, callerVars, turnVars

LEMMA CancelKeeps == ASSUME ClientInv, Cancel PROVE ClientInv'
<1>1. /\ canceled' = TRUE /\ UNCHANGED <<Frame, Wires, notes, pending, answers, readers, readErr, waitErr, alive, stderr>>
  BY DEF Cancel, Frame, Wires, rpcVars, errVars, serverVars, work
<1>2. /\ Envelopes' \subseteq Envelopes /\ InFlight' = InFlight /\ In(stdin)' = In(stdin)
      /\ NotesTell' /\ EndsLast'
  BY <1>1, CallerFrame
<1>3. Types'
  BY <1>1, FrameIs DEF ClientInv, Types, TypeOK, Wires, readers
<1>4. Requested' /\ AnswersTell'
  BY <1>1, <1>2, FrameIs DEF ClientInv, Requested, AnswersTell, Starting, Wires
<1>5. Calling'
  BY <1>1, <1>2, FrameIs DEF ClientInv, Calling, Asking, Wires
<1>6. Complete' /\ Results'
  BY <1>1, <1>2, FrameIs DEF ClientInv, Complete, OneTurn, NothingLost, Taken, Results, ResponseBelongsToTurn, Wires, Stopped
<1> QED BY <1>2, <1>3, <1>4, <1>5, <1>6 DEF ClientInv

(* The pipe ends, the process is reaped or killed: nothing is added. *)
LEMMA LossKeeps ==
  ASSUME ClientInv, UNCHANGED <<Frame, pending, answers, notes, stdin, served, sent, canceled>>,
         NEW k \in 0 .. Len(stdout), stdout' = SubSeq(stdout, 1, k),
         alive' \in BOOLEAN, alive' => alive, stdout' = stdout \/ ~alive,
         stderr' \in {"open", "closed"}, readErr' \in BOOLEAN, waitErr' \in BOOLEAN, reaped' \in BOOLEAN,
         {reader', stderrReader'} \subseteq {"read", "stopped"}
  PROVE  ClientInv'
<1>1. stdout \in Seq(Answer \cup Note) /\ Len(stdout) \in Nat
  BY DEF ClientInv, Types
<1>2. /\ stdout' \in Seq(Answer \cup Note) /\ DOMAIN stdout' = 1 .. k /\ DOMAIN stdout = 1 .. Len(stdout)
      /\ \A j \in 1 .. k : j \in 1 .. Len(stdout) /\ stdout'[j] = stdout[j]
      /\ In(stdout') \subseteq In(stdout)
  BY <1>1, PrefixIn
<1>3. In(stdin)' = In(stdin) /\ In(stdout)' = In(stdout') /\ In(notes)' = In(notes)
  BY DEF In
<1>4. Envelopes' \subseteq Envelopes /\ InFlight' \subseteq InFlight
  BY <1>2, <1>3 DEF Envelopes, InFlight
<1>5. Types'
  <2>1. TypeOK'
    BY FrameIs DEF ClientInv, Types, TypeOK
  <2> QED BY <2>1, <1>2, FrameIs DEF ClientInv, Types
<1>6. Requested' /\ AnswersTell'
  BY <1>3, <1>4, FrameIs DEF ClientInv, Requested, AnswersTell, Starting
<1>7. Calling'
  BY <1>3, FrameIs DEF ClientInv, Calling, Asking, Starting
<1>8. NotesTell'
  BY <1>4 DEF ClientInv, NotesTell
<1>9. EndsLast'
  <2>1. \A a, b \in DOMAIN stdout' : a < b => After(stdout'[a], stdout'[b])
    BY <1>2 DEF ClientInv, EndsLast
  <2>2. \A m \in In(notes), n \in In(stdout') : After(m, n)
    BY <1>2 DEF ClientInv, EndsLast
  <2> QED BY <2>1, <2>2, <1>3 DEF ClientInv, EndsLast, After
<1>10. Complete'
  <2>1. ASSUME abandoned = {} PROVE OneTurn' /\ NothingLost'
    <3>1. OneTurn /\ NothingLost
      BY <2>1 DEF ClientInv, Complete
    <3>2. OneTurn'
      BY <3>1, <1>4, FrameIs DEF OneTurn, Stopped
    <3>3. ASSUME calls # 0, sent[calls] # 0, ~Taken, alive' \/ \E m \in InFlight' : m.kind \in Endings
          PROVE  \E n \in InFlight' : n.kind \in Spoken
      <4>1. PICK n \in InFlight : n.kind \in Spoken
        BY <3>1, <3>3, <1>4 DEF NothingLost
      <4>2. CASE n \in In(notes)
        BY <4>1, <4>2, <1>3 DEF InFlight
      <4>3. CASE stdout' = stdout
        BY <4>3, <4>1, <1>3 DEF InFlight
      <4>4. CASE n \notin In(notes) /\ ~alive'
        <5>1. PICK m \in InFlight' : m.kind \in Endings
          BY <3>3, <4>4
        <5>2. n \in In(stdout) /\ n.kind # "answer" /\ m.turn = calls /\ n.turn = calls /\ m \in InFlight
          BY <4>1, <4>4, <5>1, <3>1, <1>4 DEF InFlight, OneTurn
        <5>3. m \notin In(notes)
          BY <5>1, <5>2 DEF ClientInv, EndsLast, After
        <5>4. m \in In(stdout')
          BY <5>1, <5>3, <1>3 DEF InFlight
        <5>5. PICK j \in 1 .. k : m = stdout'[j]
          BY <5>4, <1>2 DEF In
        <5>6. PICK i \in 1 .. Len(stdout) : n = stdout[i]
          BY <5>2, <1>2 DEF In
        <5>7. ASSUME j < i PROVE FALSE
          <6>1. j \in DOMAIN stdout /\ i \in DOMAIN stdout /\ stdout[j] = m
            BY <1>2, <5>5
          <6>2. After(stdout[j], stdout[i])
            BY <6>1, <5>7 DEF ClientInv, EndsLast
          <6> QED BY <6>1, <6>2, <5>1, <5>2, <5>6 DEF After
        <5>8. i \in 1 .. k
          BY <5>5, <5>6, <5>7
        <5>9. n \in In(stdout')
          BY <5>6, <5>8, <1>2 DEF In
        <5> QED BY <5>2, <5>9, <4>1, <1>3 DEF InFlight
      <4> QED BY <4>2, <4>3, <4>4
    <3>4. NothingLost'
      BY <3>3, FrameIs DEF NothingLost, Taken
    <3> QED BY <3>2, <3>4
  <2> QED BY <2>1, FrameIs DEF ClientInv, Complete
<1>11. Results'
  BY FrameIs DEF ClientInv, Results, ResponseBelongsToTurn
<1> QED BY <1>5, <1>6, <1>7, <1>8, <1>9, <1>10, <1>11 DEF ClientInv

LEMMA WholePrefix ==
  ASSUME ClientInv PROVE Len(stdout) \in 0 .. Len(stdout) /\ SubSeq(stdout, 1, Len(stdout)) = stdout
<1>1. stdout \in Seq(Answer \cup Note)
  BY DEF ClientInv, Types
<1> QED BY <1>1

LEMMA EndKeeps == ASSUME ClientInv, StdoutEnds \/ StderrEnds \/ Reap PROVE ClientInv'
<1>1. /\ UNCHANGED <<Frame, pending, answers, notes, stdin, served, sent, canceled, alive, stderr>>
      /\ readErr' \in BOOLEAN /\ waitErr' \in BOOLEAN /\ reaped' \in BOOLEAN
      /\ {reader', stderrReader'} \subseteq {"read", "stopped"}
      /\ alive' \in BOOLEAN /\ stderr' \in {"open", "closed"}
  BY DEF StdoutEnds, StderrEnds, Reap, Frame, rpcVars, serverVars, work, ClientInv, Types, TypeOK
<1>2. CASE Reap
  <2>1. ~alive /\ \E k \in 0 .. Len(stdout) : stdout' = SubSeq(stdout, 1, k)
    BY <1>2 DEF Reap
  <2> QED BY <1>1, <2>1, LossKeeps
<1>3. CASE StdoutEnds \/ StderrEnds
  <2>1. stdout' = stdout
    BY <1>3 DEF StdoutEnds, StderrEnds, serverVars
  <2> QED BY <1>1, <2>1, WholePrefix, LossKeeps
<1> QED BY <1>2, <1>3

(* The pipe's first line goes where the caller looks for it. *)
LEMMA ReadKeeps ==
  ASSUME ClientInv, UNCHANGED <<Frame, stdin, served, sent, alive, canceled>>,
         InFlight' = InFlight, Types', EndsLast',
         \A e \in Envelopes' : \E d \in Envelopes : d.id = e.id /\ d.ok = e.ok /\ d.turn = e.turn
  PROVE  ClientInv'
<1>1. In(stdin)' = In(stdin)
  BY DEF In
<1>2. Requested'
  BY <1>1, FrameIs DEF ClientInv, Requested, Starting
<1>3. Calling'
  BY <1>1, FrameIs DEF ClientInv, Calling, Asking, Starting
<1>4. AnswersTell'
  BY FrameIs DEF ClientInv, AnswersTell
<1>5. NotesTell' /\ Complete' /\ Results'
  BY FrameIs DEF ClientInv, NotesTell, Complete, OneTurn, NothingLost, Taken, Results, ResponseBelongsToTurn, Stopped
<1> QED BY <1>2, <1>3, <1>4, <1>5 DEF ClientInv

LEMMA ReadLineKeeps == ASSUME ClientInv, ReadLine PROVE ClientInv'
<1> DEFINE e == Head(stdout)
<1>1. /\ stdout # <<>> /\ stdout' = Tail(stdout)
      /\ IF e.kind = "answer" THEN HandleAnswer(e) ELSE HandleNote(e)
      /\ UNCHANGED <<Frame, stdin, served, sent, alive, canceled>>
      /\ UNCHANGED <<readers, readErr, waitErr, stderr>>
  BY DEF ReadLine, Frame, work, errVars
<1>2. stdout \in Seq(Answer \cup Note) /\ notes \in Seq(Note) /\ Len(stdout) \in Nat
  BY DEF ClientInv, Types
<1>3. /\ stdout' \in Seq(Answer \cup Note)
      /\ \A k \in DOMAIN stdout' : k \in 1 .. Len(stdout) /\ k + 1 \in 1 .. Len(stdout) /\ stdout'[k] = stdout[k + 1]
      /\ DOMAIN stdout = 1 .. Len(stdout) /\ 1 \in DOMAIN stdout
      /\ e = stdout[1] /\ e \in Answer \cup Note /\ e \in In(stdout)
      /\ In(stdout) = In(stdout') \cup {e}
  BY <1>1, <1>2, TailIn
<1>4. In(stdout)' = In(stdout') /\ In(notes)' = In(notes')
  BY DEF In
<1>5. (\A a, b \in DOMAIN stdout' : a < b => After(stdout'[a], stdout'[b]))
  <2>1. ASSUME NEW a \in DOMAIN stdout', NEW b \in DOMAIN stdout', a < b
        PROVE  After(stdout'[a], stdout'[b])
    <3>1. a + 1 \in DOMAIN stdout /\ b + 1 \in DOMAIN stdout /\ a + 1 < b + 1
      BY <1>2, <1>3, <2>1
    <3>2. After(stdout[a + 1], stdout[b + 1])
      BY <3>1 DEF ClientInv, EndsLast
    <3> QED BY <3>2, <1>3
  <2> QED BY <2>1
<1>6. ASSUME NEW n \in In(stdout') PROVE After(e, n)
  <2>1. PICK k \in DOMAIN stdout' : n = stdout'[k]
    BY DEF In
  <2>2. k + 1 \in DOMAIN stdout /\ 1 < k + 1 /\ n = stdout[k + 1]
    BY <1>2, <1>3, <2>1
  <2> QED BY <2>2, <1>3 DEF ClientInv, EndsLast
<1>7. CASE e.kind = "answer"
  <2> DEFINE d == [id |-> e.id, ok |-> e.ok, turn |-> e.turn]
  <2>1. /\ answers' = (IF e.id \in pending THEN answers \cup {d} ELSE answers)
        /\ pending' = pending \ {e.id} /\ notes' = notes
    BY <1>1, <1>7 DEF HandleAnswer
  <2>2. e \in Answer
    BY <1>3, <1>7 DEF Note, Spoken, Endings
  <2>3. d \in Delivered /\ d.id = e.id /\ d.ok = e.ok /\ d.turn = e.turn /\ e \in Envelopes
    BY <2>2, <1>3, <1>7 DEF Delivered, Answer, Envelopes
  <2> HIDE DEF d
  <2>4. Types'
    <3>1. pending' \subseteq 1 .. id' /\ \A r \in answers' : r.id \in (1 .. id') \ pending'
      BY <2>1, <2>3, <1>1, FrameIs DEF ClientInv, Types, TypeOK
    <3>2. TypeOK'
      BY <3>1, <1>1, <2>1, FrameIs DEF ClientInv, Types, TypeOK, readers
    <3> QED BY <3>2, <1>1, <1>3, <2>1, <2>3, FrameIs DEF ClientInv, Types
  <2>5. InFlight' = InFlight
    BY <1>3, <1>4, <1>7, <2>1 DEF InFlight
  <2>6. EndsLast'
    BY <1>3, <1>4, <1>5, <2>1 DEF ClientInv, EndsLast, After
  <2>7. \A f \in Envelopes' : \E g \in Envelopes : g.id = f.id /\ g.ok = f.ok /\ g.turn = f.turn
    <3>1. \A f \in Envelopes' : f = d \/ f \in Envelopes
      BY <1>3, <1>4, <2>1 DEF Envelopes
    <3> QED BY <3>1, <2>3
  <2> QED BY <1>1, <2>4, <2>5, <2>6, <2>7, ReadKeeps
<1>8. CASE e.kind # "answer"
  <2>1. /\ Len(notes) < Cap /\ notes' = Append(notes, [kind |-> e.kind, turn |-> e.turn])
        /\ UNCHANGED <<pending, answers>>
    BY <1>1, <1>8 DEF HandleNote, rpcVars
  <2>2. e \in Note
    BY <1>3, <1>8 DEF Answer
  <2>3. [kind |-> e.kind, turn |-> e.turn] = e
    BY <2>2 DEF Note
  <2>4. /\ notes' \in Seq(Note) /\ Len(notes') = Len(notes) + 1
        /\ DOMAIN notes = 1 .. Len(notes) /\ DOMAIN notes' = 1 .. (Len(notes) + 1) /\ Len(notes) \in Nat
        /\ \A k \in 1 .. Len(notes) : notes'[k] = notes[k] /\ notes[k] \in In(notes)
        /\ notes'[Len(notes) + 1] = e
        /\ In(notes') = In(notes) \cup {e}
    <3> HIDE DEF e
    <3> QED BY <1>2, <2>1, <2>2, <2>3, AppendIn
  <2> HIDE DEF e
  <2>5. Types'
    <3>1. Len(notes') <= Cap
      BY <2>1, <2>4, ClientAssumption
    <3>2. TypeOK'
      BY <3>1, <1>1, <2>1, FrameIs DEF ClientInv, Types, TypeOK, readers
    <3> QED BY <3>2, <1>1, <1>3, <2>1, <2>4, FrameIs DEF ClientInv, Types
  <2>6. InFlight' = InFlight
    BY <1>3, <1>4, <1>8, <2>4 DEF InFlight
  <2>7. EndsLast'
    <3>1. ASSUME NEW a \in DOMAIN notes', NEW b \in DOMAIN notes', a < b
          PROVE  After(notes'[a], notes'[b])
      <4>1. a \in 1 .. Len(notes)
        BY <2>4, <3>1
      <4>2. CASE b = Len(notes) + 1
        BY <4>1, <4>2, <2>4, <1>3 DEF ClientInv, EndsLast
      <4>3. CASE b # Len(notes) + 1
        <5>1. b \in 1 .. Len(notes)
          BY <4>3, <2>4
        <5> QED BY <4>1, <5>1, <3>1, <2>4 DEF ClientInv, EndsLast
      <4> QED BY <4>2, <4>3
    <3>2. \A m \in In(notes'), n \in In(stdout') : After(m, n)
      BY <1>3, <1>6, <2>4 DEF ClientInv, EndsLast
    <3>3. (\A a, b \in DOMAIN notes' : a < b => After(notes'[a], notes'[b]))
      BY <3>1
    <3> QED BY <1>4, <1>5, <3>2, <3>3 DEF EndsLast, After
  <2>8. Envelopes' \subseteq Envelopes
    BY <1>3, <1>4, <2>1 DEF Envelopes
  <2>9. \A f \in Envelopes' : \E g \in Envelopes : g.id = f.id /\ g.ok = f.ok /\ g.turn = f.turn
    BY <2>8
  <2> QED BY <1>1, <2>5, <2>6, <2>7, <2>9, ReadKeeps
<1> QED BY <1>7, <1>8

(* The server writes: what it writes comes after all it wrote. *)
Wrote(s, e) ==
    /\ In(Append(s, e)) = In(s) \cup {e}
    /\ \A a, b \in DOMAIN Append(s, e) : a < b => After(Append(s, e)[a], Append(s, e)[b])

LEMMA PutLast ==
  ASSUME NEW s \in Seq(Answer \cup Note), NEW e \in Answer \cup Note,
         \A a, b \in DOMAIN s : a < b => After(s[a], s[b]),
         \A m \in In(s) : After(m, e)
  PROVE  Append(s, e) \in Seq(Answer \cup Note) /\ Wrote(s, e)
<1>1. /\ Append(s, e) \in Seq(Answer \cup Note)
      /\ DOMAIN s = 1 .. Len(s) /\ DOMAIN Append(s, e) = 1 .. (Len(s) + 1) /\ Len(s) \in Nat
      /\ \A k \in 1 .. Len(s) : Append(s, e)[k] = s[k] /\ s[k] \in In(s)
      /\ Append(s, e)[Len(s) + 1] = e
      /\ In(Append(s, e)) = In(s) \cup {e}
  BY AppendIn
<1>2. ASSUME NEW a \in DOMAIN Append(s, e), NEW b \in DOMAIN Append(s, e), a < b
      PROVE  After(Append(s, e)[a], Append(s, e)[b])
  <2>1. a \in 1 .. Len(s)
    BY <1>1, <1>2
  <2>2. CASE b = Len(s) + 1
    BY <2>1, <2>2, <1>1
  <2>3. CASE b # Len(s) + 1
    <3>1. b \in 1 .. Len(s)
      BY <2>3, <1>1
    <3> QED BY <2>1, <3>1, <1>1, <1>2
  <2> QED BY <2>2, <2>3
<1> QED BY <1>1, <1>2 DEF Wrote

(* Turns begin, run and end on the server; what ended stays so. *)
Goes(t) ==
    \/ served'[t] = served[t]
    \/ served[t] = "running" /\ served'[t] \in Endings
    \/ served[t] = "none" /\ t = calls /\ served'[t] = "running"
       /\ ~(caller = "write" /\ method = "turn/start")

LEMMA ServedKeeps ==
  ASSUME ClientInv, UNCHANGED <<Frame, canceled, answers>>, In(stdin)' \subseteq In(stdin),
         served' \in [Turns -> {"none", "running"} \cup Endings], \A t \in Turns : Goes(t),
         sent' \in [Turns -> Nat],
         \A t \in Turns : sent'[t] # sent[t] => served[t] = "running" /\ served'[t] = "running" /\ sent'[t] > 0,
         alive' => alive
  PROVE  /\ Calling' /\ Results'
         /\ \A t \in Turns : served'[t] = "none" => sent'[t] = 0
<1>1. UNCHANGED <<caller, method, id, thread, calls, turn, collected, final, result, abandoned>>
  BY FrameIs
<1>2. /\ calls \in 0 .. MaxTurns /\ turn \in 0 .. MaxTurns /\ result.turn \in 0 .. MaxTurns
      /\ 0 \notin Turns /\ \A t \in 0 .. MaxTurns : t # 0 => t \in Turns
  BY ClientAssumption DEF ClientInv, Types, TypeOK, Turns
<1>3. \A t \in Turns : served[t] \in Endings => served'[t] = served[t]
  BY DEF Goes, Endings
<1>4. \A t \in Turns : served[t] # "none" => served'[t] # "none"
  BY DEF Goes, Endings
<1>5. ASSUME caller = "write", method = "turn/start" PROVE served'[calls] = "none"
  <2>1. calls # 0 /\ served[calls] = "none"
    BY <1>5 DEF ClientInv, Calling, Asking
  <2> QED BY <1>2, <1>5, <2>1 DEF Goes
<1>6. \A t \in Turns : t > calls => served'[t] = "none"
  BY <1>2 DEF ClientInv, Calling, Goes
<1>7. Calling'
  BY <1>1, <1>2, <1>4, <1>5, <1>6 DEF ClientInv, Calling, Asking, Starting
<1>8. Results'
  <2>1. result.outcome \in {"completed", "failed"} =>
          result.turn # 0 /\ served'[result.turn] = result.outcome
    BY <1>2, <1>3 DEF ClientInv, Results, Endings
  <2>2. result.outcome = "interrupted" /\ alive' =>
          result.turn # 0 /\ served'[result.turn] \in Endings
    BY <1>2, <1>3 DEF ClientInv, Results
  <2>3. result.outcome = "completed" => sent'[result.turn] = sent[result.turn]
    BY <1>2 DEF ClientInv, Results
  <2>4. ResponseBelongsToTurn'
    BY <1>1, <2>3 DEF ClientInv, Results, ResponseBelongsToTurn
  <2> QED BY <1>1, <2>1, <2>2, <2>4 DEF Results
<1>9. \A t \in Turns : served'[t] = "none" => sent'[t] = 0
  BY <1>4 DEF ClientInv, Complete
<1> QED BY <1>7, <1>8, <1>9

(* A turn that runs says something, or ends. *)
LEMMA SaysKeeps ==
  ASSUME ClientInv, NEW t \in Turns, NEW m \in Note, Running(t), m.turn = t, alive,
         UNCHANGED <<Frame, canceled, alive, stderr, stdin, notes, pending, answers, readers, readErr, waitErr>>,
         stdout' = Append(stdout, m),
         \/ m.kind \in Spoken /\ served' = served /\ sent' = [sent EXCEPT ![t] = @ + 1]
         \/ m.kind \in Endings /\ sent' = sent /\ served' = [served EXCEPT ![t] = m.kind]
  PROVE  ClientInv'
<1>1. /\ stdout \in Seq(Answer \cup Note) /\ served[t] = "running" /\ m.kind # "answer"
      /\ served \in [Turns -> {"none", "running"} \cup Endings] /\ sent \in [Turns -> Nat]
  BY DEF ClientInv, Types, TypeOK, Running, Note, Spoken, Endings
<1>2. \A n \in InFlight : n.kind \in Endings => n.turn # t
  BY <1>1 DEF ClientInv, NotesTell, Endings
<1>3. stdout' \in Seq(Answer \cup Note) /\ Wrote(stdout, m)
  <2>1. \A n \in In(stdout) : After(n, m)
    BY <1>2 DEF After, InFlight, Endings
  <2> QED BY <1>1, <2>1, PutLast DEF ClientInv, EndsLast
<1>4. In(stdout)' = In(stdout) \cup {m} /\ In(notes)' = In(notes) /\ In(stdin)' = In(stdin)
  BY <1>3 DEF Wrote, In
<1>5. Envelopes' = Envelopes /\ InFlight' = InFlight \cup {m}
  BY <1>1, <1>4 DEF Envelopes, InFlight
<1>6. /\ served' \in [Turns -> {"none", "running"} \cup Endings] /\ sent' \in [Turns -> Nat]
      /\ \A s \in Turns : s # t => served'[s] = served[s] /\ sent'[s] = sent[s]
      /\ m.kind \in Spoken => served'[t] = "running" /\ sent'[t] = sent[t] + 1
      /\ m.kind \in Endings => served'[t] = m.kind /\ sent'[t] = sent[t]
  <2>1. CASE m.kind \in Spoken /\ served' = served /\ sent' = [sent EXCEPT ![t] = @ + 1]
    <3>1. m.kind \notin Endings
      BY <2>1 DEF Spoken, Endings
    <3>2. sent' \in [Turns -> Nat] /\ sent'[t] = sent[t] + 1 /\ \A s \in Turns : s # t => sent'[s] = sent[s]
      BY <1>1, <2>1
    <3> QED BY <1>1, <2>1, <3>1, <3>2
  <2>2. CASE m.kind \in Endings /\ sent' = sent /\ served' = [served EXCEPT ![t] = m.kind]
    <3>1. m.kind \notin Spoken
      BY <2>2 DEF Spoken, Endings
    <3>2. /\ served' \in [Turns -> {"none", "running"} \cup Endings]
          /\ served'[t] = m.kind /\ \A s \in Turns : s # t => served'[s] = served[s]
      BY <1>1, <2>2
    <3> QED BY <1>1, <2>2, <3>1, <3>2
  <2> QED BY <2>1, <2>2
<1>7. m.kind \in Spoken \cup Endings /\ served'[t] # "none"
  BY <1>6 DEF Note, Endings
<1>8. \A s \in Turns : Goes(s)
  BY <1>1, <1>6, <1>7 DEF Goes
<1>9. /\ Calling' /\ Results' /\ \A s \in Turns : served'[s] = "none" => sent'[s] = 0
  <2>1. \A s \in Turns : sent'[s] # sent[s] => served[s] = "running" /\ served'[s] = "running" /\ sent'[s] > 0
    BY <1>1, <1>6, <1>7
  <2> QED BY <1>4, <1>6, <1>8, <2>1, ServedKeeps
<1>10. Types'
  <2>1. TypeOK'
    BY <1>6, FrameIs DEF ClientInv, Types, TypeOK, readers
  <2> QED BY <2>1, <1>3, <1>6, FrameIs DEF ClientInv, Types
<1>11. calls # 0 /\ served[calls] = "none" => served'[calls] = "none"
  <2>1. calls # 0 => calls \in Turns
    BY ClientAssumption DEF ClientInv, Types, TypeOK, Turns
  <2> QED BY <1>1, <1>6, <2>1
<1>12. Requested'
  BY <1>4, <1>5, <1>6, <1>11, FrameIs DEF ClientInv, Requested, Starting
<1>13. AnswersTell'
  <2>1. /\ \A s \in Turns : served[s] \in Endings => served'[s] = served[s]
        /\ \A s \in Turns : served[s] # "none" => served'[s] # "none"
    BY <1>8 DEF Goes, Endings
  <2>2. ASSUME caller = "await", NEW e \in Envelopes, e.id = id
        PROVE  /\ method = "turn/start" =>
                    IF e.ok THEN e.turn = calls /\ served'[calls] # "none" ELSE served'[calls] = "none"
               /\ method = "turn/interrupt" => served'[turn] \in Endings
    <3>1. /\ method = "turn/start" =>
               IF e.ok THEN e.turn = calls /\ served[calls] # "none" ELSE served[calls] = "none"
          /\ method = "turn/interrupt" => served[turn] \in Endings
      BY <2>2 DEF ClientInv, AnswersTell
    <3>2. method = "turn/interrupt" => turn \in Turns
      BY <2>2, ClientAssumption DEF ClientInv, Calling, Asking, Types, TypeOK, Turns
    <3>3. method = "turn/start" => calls \in Turns /\ calls # 0
      BY <2>2, ClientAssumption DEF ClientInv, Calling, Asking, Types, TypeOK, Turns
    <3> QED BY <2>1, <3>1, <3>2, <3>3, <1>6, <1>7, <1>11
  <2> QED BY <2>2, <1>5, FrameIs DEF AnswersTell
<1>14. NotesTell'
  <2>1. ASSUME NEW n \in InFlight
        PROVE  /\ served'[n.turn] # "none"
               /\ n.kind \in Endings => served'[n.turn] = n.kind
               /\ n.kind \in Spoken => sent'[n.turn] > 0
    <3>1. n.turn \in Turns
      BY WireTypes
    <3>2. /\ served[n.turn] # "none"
          /\ n.kind \in Endings => served[n.turn] = n.kind
          /\ n.kind \in Spoken => sent[n.turn] > 0
      BY DEF ClientInv, NotesTell
    <3> QED BY <3>1, <3>2, <1>1, <1>2, <1>6, <1>7
  <2>2. /\ m.kind \in Endings => served'[m.turn] = m.kind
        /\ m.kind \in Spoken => sent'[m.turn] > 0
    BY <1>1, <1>6
  <2> QED BY <2>1, <2>2, <1>5, <1>7 DEF NotesTell
<1>15. EndsLast'
  <2>1. \A n \in In(notes) : After(n, m)
    BY <1>2 DEF After, InFlight
  <2>2. \A a, b \in DOMAIN stdout' : a < b => After(stdout'[a], stdout'[b])
    BY <1>3 DEF Wrote
  <2> QED BY <2>1, <2>2, <1>4 DEF ClientInv, EndsLast, After
<1>16. Complete'
  <2>1. ASSUME abandoned = {} PROVE OneTurn' /\ NothingLost'
    <3>1. OneTurn /\ NothingLost
      BY <2>1 DEF ClientInv, Complete
    <3>2. t = calls /\ ~(caller = "idle" /\ ~Stopped) /\ calls # 0
      BY <3>1, <1>1 DEF OneTurn, Turns
    <3>3. \A s \in Turns : served'[s] = "running" => s = calls
      BY <3>1, <3>2, <1>6 DEF OneTurn
    <3>4. \A n \in InFlight' : n.turn = calls
      BY <3>1, <3>2, <1>5 DEF OneTurn
    <3>5. sent'[calls] = 0 => sent[calls] = 0
      BY <3>2, <1>1, <1>6, <1>7
    <3>6. OneTurn'
      BY <3>1, <3>2, <3>3, <3>4, <3>5, FrameIs DEF OneTurn, Stopped
    <3>7. NothingLost'
      BY <3>1, <3>2, <1>5, <1>6, <1>7, FrameIs DEF NothingLost, Taken
    <3> QED BY <3>6, <3>7
  <2> QED BY <2>1, <1>9, FrameIs DEF Complete
<1> QED BY <1>9, <1>10, <1>12, <1>13, <1>14, <1>15, <1>16 DEF ClientInv

LEMMA TalkKeeps ==
  ASSUME ClientInv, NEW t \in Turns, Speak(t) \/ FinishTurn(t),
         UNCHANGED <<callerVars, turnVars, rpcVars, notes, readers, errVars, canceled>>
  PROVE  ClientInv'
<1>1. UNCHANGED <<Frame, canceled, alive, stderr, stdin, notes, pending, answers, readers, readErr, waitErr>>
      /\ Running(t) /\ alive
  BY DEF Speak, FinishTurn, Frame, rpcVars, errVars
<1>2. CASE Speak(t)
  <2>1. PICK k \in {"delta", "item"} : Put([kind |-> k, turn |-> t])
    BY <1>2 DEF Speak
  <2> DEFINE m == [kind |-> k, turn |-> t]
  <2>2. m \in Note /\ m.turn = t /\ m.kind \in Spoken /\ stdout' = Append(stdout, m)
    BY <2>1 DEF Put, Note, Spoken
  <2>3. served' = served /\ sent' = [sent EXCEPT ![t] = @ + 1]
    BY <1>2 DEF Speak
  <2> HIDE DEF m
  <2> QED BY <1>1, <2>2, <2>3, SaysKeeps
<1>3. CASE FinishTurn(t)
  <2>1. PICK k \in {"completed", "failed"} : Put([kind |-> k, turn |-> t]) /\ served' = [served EXCEPT ![t] = k]
    BY <1>3 DEF FinishTurn
  <2> DEFINE m == [kind |-> k, turn |-> t]
  <2>2. m \in Note /\ m.turn = t /\ m.kind \in Endings /\ stdout' = Append(stdout, m)
        /\ served' = [served EXCEPT ![t] = m.kind] /\ sent' = sent
    BY <1>3, <2>1 DEF Put, Note, Endings, FinishTurn
  <2> HIDE DEF m
  <2> QED BY <1>1, <2>2, SaysKeeps
<1> QED BY <1>2, <1>3

LEMMA FaultKeeps ==
  ASSUME ClientInv, Die \/ CloseStderr,
         UNCHANGED <<callerVars, turnVars, rpcVars, notes, readers, errVars, canceled>>
  PROVE  ClientInv'
<1>1. /\ UNCHANGED <<Frame, pending, answers, notes, stdin, served, sent, canceled>>
      /\ stdout' = stdout /\ alive' \in BOOLEAN /\ (alive' => alive) /\ stderr' \in {"open", "closed"}
      /\ UNCHANGED <<readErr, waitErr, readers>>
  <2>1. alive \in BOOLEAN
    BY DEF ClientInv, Types, TypeOK
  <2>2. UNCHANGED <<stdin, stdout, served, sent>>
    BY DEF Die, CloseStderr, work
  <2>3. alive' \in BOOLEAN /\ (alive' => alive) /\ stderr' = "closed"
    <3>1. CASE Die
      BY <3>1 DEF Die
    <3>2. CASE CloseStderr
      BY <2>1, <3>2 DEF CloseStderr
    <3> QED BY <3>1, <3>2
  <2>4. UNCHANGED <<pending, answers, readErr, waitErr>> /\ UNCHANGED Frame
    BY DEF Frame, rpcVars, errVars
  <2> QED BY <2>2, <2>3, <2>4
<1>2. /\ readErr' \in BOOLEAN /\ waitErr' \in BOOLEAN /\ reaped' \in BOOLEAN
      /\ {reader', stderrReader'} \subseteq {"read", "stopped"}
  BY <1>1 DEF readers, ClientInv, Types, TypeOK
<1> QED BY <1>1, <1>2, WholePrefix, LossKeeps

(* The server takes the oldest request.  Its answer, and the interrupt it   *)
(* may tell of, come after all it wrote before.                             *)
LEMMA Taking ==
  ASSUME ClientInv, stdin # <<>>, stdin' = Tail(stdin)
  PROVE  /\ Head(stdin) \in Line /\ Head(stdin) \in In(stdin)
         /\ stdin' \in Seq(Line) /\ In(stdin)' \subseteq In(stdin)
         /\ \A i, j \in DOMAIN stdin' : i < j => stdin'[i].id < stdin'[j].id
         /\ \A l \in In(stdin)' : Head(stdin).id < l.id
<1>1. stdin \in Seq(Line) /\ Len(stdin) \in Nat
  BY DEF ClientInv, Types
<1>2. /\ stdin' \in Seq(Line)
      /\ \A k \in DOMAIN stdin' : k \in 1 .. Len(stdin) /\ k + 1 \in 1 .. Len(stdin) /\ stdin'[k] = stdin[k + 1]
      /\ DOMAIN stdin = 1 .. Len(stdin) /\ 1 \in DOMAIN stdin
      /\ Head(stdin) = stdin[1] /\ Head(stdin) \in Line /\ Head(stdin) \in In(stdin)
      /\ In(stdin') \subseteq In(stdin)
  BY <1>1, TailIn
<1>3. In(stdin)' = In(stdin')
  BY DEF In
<1>4. \A i, j \in DOMAIN stdin : i < j => stdin[i].id < stdin[j].id
  BY DEF ClientInv, Requested
<1>5. ASSUME NEW i \in DOMAIN stdin', NEW j \in DOMAIN stdin', i < j PROVE stdin'[i].id < stdin'[j].id
  <2>1. i + 1 \in DOMAIN stdin /\ j + 1 \in DOMAIN stdin /\ i + 1 < j + 1
    BY <1>1, <1>2, <1>5
  <2>2. stdin[i + 1].id < stdin[j + 1].id
    BY <2>1, <1>4
  <2> QED BY <1>2, <2>2
<1>6. ASSUME NEW l \in In(stdin') PROVE Head(stdin).id < l.id
  <2>1. PICK k \in DOMAIN stdin' : l = stdin'[k]
    BY DEF In
  <2>2. k + 1 \in DOMAIN stdin /\ 1 < k + 1 /\ l = stdin[k + 1]
    BY <1>1, <1>2, <2>1
  <2> QED BY <1>2, <1>4, <2>2
<1> QED BY <1>2, <1>3, <1>5, <1>6

LEMMA AnswerPut ==
  ASSUME ClientInv, NEW a \in Answer
  PROVE  /\ Append(stdout, a) \in Seq(Answer \cup Note)
         /\ Wrote(stdout, a)
         /\ \A m \in In(notes) : After(m, a)
<1>1. a.kind = "answer" /\ stdout \in Seq(Answer \cup Note)
  BY DEF Answer, ClientInv, Types
<1>2. \A m : After(m, a)
  BY <1>1 DEF After
<1>3. \A i, j \in DOMAIN stdout : i < j => After(stdout[i], stdout[j])
  BY DEF ClientInv, EndsLast
<1> QED BY <1>1, <1>2, <1>3, PutLast

(* What the server does with a request, all cases: the answer a, and the    *)
(* notifications N of a turn that ends with it.                             *)
LEMMA ServeKeeps ==
  ASSUME ClientInv, stdin # <<>>, stdin' = Tail(stdin),
         UNCHANGED <<Frame, canceled, alive, stderr, notes, pending, answers, readers, readErr, waitErr, sent>>,
         alive, stdout' \in Seq(Answer \cup Note), EndsLast',
         NEW a \in Answer, NEW N \in SUBSET Note, a.id = Head(stdin).id,
         Envelopes' = Envelopes \cup {a}, InFlight' = InFlight \cup N,
         served' \in [Turns -> {"none", "running"} \cup Endings],
         \A t \in Turns :
           \/ served'[t] = served[t]
           \/ served[t] = "running" /\ served'[t] \in Endings
           \/ served[t] = "none" /\ t = calls /\ served'[t] = "running" /\ Starting(Head(stdin)),
         \A n \in N : n.kind \in Endings /\ served[n.turn] = "running" /\ served'[n.turn] = n.kind,
         caller = "await" /\ Head(stdin).id = id =>
           /\ method = "turn/start" =>
                IF a.ok THEN a.turn = calls /\ served'[calls] # "none" ELSE served'[calls] = "none"
           /\ method = "turn/interrupt" => served'[turn] \in Endings
  PROVE  ClientInv'
<1> DEFINE r == Head(stdin)
<1>1. /\ r \in In(stdin) /\ r.id \in Nat /\ stdin' \in Seq(Line) /\ In(stdin)' \subseteq In(stdin)
      /\ \A i, j \in DOMAIN stdin' : i < j => stdin'[i].id < stdin'[j].id
      /\ \A l \in In(stdin)' : r.id < l.id
  BY Taking DEF Line
<1>2. /\ id \in Nat /\ r.id <= id /\ (caller = "write" => r.id < id)
      /\ Starting(r) => r.id = id
  BY <1>1 DEF ClientInv, Requested, Types, TypeOK
<1>3. \A l \in In(stdin)' : l \in In(stdin) /\ l.id \in Nat /\ l.id <= id
  BY <1>1, WireTypes DEF ClientInv, Requested
<1>4. \A e \in Envelopes : e.id \in Nat /\ e.id < r.id
  BY <1>1, WireTypes DEF ClientInv, Requested
<1>5. a.id = r.id
  OBVIOUS
<1>6. calls # 0 => calls \in Turns
  BY ClientAssumption DEF ClientInv, Types, TypeOK, Turns
<1>7. UNCHANGED <<caller, method, id, thread, calls, turn, collected, final, result, abandoned>>
  BY FrameIs
<1>8. Starting(r) => ~(caller = "write" /\ method = "turn/start") /\ In(stdin)' = {}
  BY <1>1, <1>2, <1>3
<1>9. \A t \in Turns : Goes(t)
  BY <1>8 DEF Goes
<1>10. /\ \A t \in Turns : served[t] # "none" => served'[t] # "none"
       /\ \A t \in Turns : served[t] \in Endings => served'[t] = served[t]
       /\ 0 \notin Turns
  BY <1>9 DEF Goes, Endings, Turns
<1>11. Calling' /\ Results' /\ \A t \in Turns : served'[t] = "none" => sent'[t] = 0
  <2> HIDE DEF r
  <2>1. \A t \in Turns : sent'[t] # sent[t] => served[t] = "running" /\ served'[t] = "running" /\ sent'[t] > 0
    OBVIOUS
  <2>2. sent' \in [Turns -> Nat]
    BY DEF ClientInv, Types
  <2> QED BY <1>1, <1>9, <2>1, <2>2, ServedKeeps
<1> HIDE DEF r
<1>12. Types'
  <2>1. TypeOK'
    BY <1>7 DEF ClientInv, Types, TypeOK, readers
  <2> QED BY <2>1, <1>1, <1>7 DEF ClientInv, Types
<1>13. Requested'
  <2>1. \A l \in In(stdin)', e \in Envelopes' : e.id < l.id
    BY <1>1, <1>3, <1>5 DEF ClientInv, Requested
  <2>2. \A e \in Envelopes' : e.id <= id /\ (caller = "write" => e.id < id)
    BY <1>2, <1>5 DEF ClientInv, Requested
  <2>3. \A l \in In(stdin)' : Starting(l) => l.id = id /\ calls # 0 /\ served'[calls] = "none"
    <3>1. ASSUME NEW l \in In(stdin)', Starting(l) PROVE l.id = id /\ calls # 0 /\ served'[calls] = "none"
      <4>1. l.id = id /\ calls # 0 /\ served[calls] = "none"
        BY <1>3, <3>1 DEF ClientInv, Requested
      <4>2. ~Starting(r)
        BY <1>8, <3>1
      <4> QED BY <4>1, <4>2, <1>6 DEF r
    <3> QED BY <3>1
  <2>4. \A l \in In(stdin)' : l.id <= id /\ (caller = "write" => l.id < id)
    BY <1>3 DEF ClientInv, Requested
  <2>5. \A l \in In(stdin)' : l.method = "turn/interrupt" => l.turn # 0
    BY <1>3 DEF ClientInv, Requested
  <2>6. caller = "await" => \A l \in In(stdin)' : l.id = id => l.method = method /\ l.turn = turn
    BY <1>3 DEF ClientInv, Requested
  <2> QED BY <1>1, <1>7, <2>1, <2>2, <2>3, <2>4, <2>5, <2>6 DEF Requested, Starting
<1>14. AnswersTell'
  <2>1. ASSUME caller = "await", NEW e \in Envelopes', e.id = id
        PROVE  /\ method = "turn/start" =>
                    IF e.ok THEN e.turn = calls /\ served'[calls] # "none" ELSE served'[calls] = "none"
               /\ method = "turn/interrupt" => served'[turn] \in Endings
    <3>1. e \notin Envelopes
      BY <1>1, <1>2, <1>4, <2>1
    <3>2. e = a
      BY <3>1, <2>1
    <3> QED BY <3>2, <2>1, <1>5 DEF r
  <2> QED BY <2>1, <1>7 DEF AnswersTell
<1>15. NotesTell'
  <2>1. ASSUME NEW n \in InFlight
        PROVE  /\ served'[n.turn] # "none"
               /\ n.kind \in Endings => served'[n.turn] = n.kind
               /\ n.kind \in Spoken => sent'[n.turn] > 0
    <3>1. n.turn \in Turns
      BY WireTypes
    <3>2. /\ served[n.turn] # "none"
          /\ n.kind \in Endings => served[n.turn] = n.kind
          /\ n.kind \in Spoken => sent[n.turn] > 0
      BY DEF ClientInv, NotesTell
    <3> QED BY <3>1, <3>2, <1>10
  <2>2. \A n \in N : served'[n.turn] # "none" /\ served'[n.turn] = n.kind /\ n.kind \notin Spoken
    BY DEF Endings, Spoken
  <2> QED BY <2>1, <2>2 DEF NotesTell
<1>16. Complete'
  <2>1. ASSUME abandoned = {} PROVE OneTurn' /\ NothingLost'
    <3>1. OneTurn /\ NothingLost
      BY <2>1 DEF ClientInv, Complete
    <3>2. \A t \in Turns : served'[t] = "running" => t = calls
      BY <3>1 DEF OneTurn, Endings
    <3>3. \A n \in N : n.turn \in Turns
      BY DEF Note
    <3>4. \A n \in InFlight' : n.turn = calls
      BY <3>1, <3>3 DEF OneTurn
    <3>5. ASSUME caller = "idle", ~Stopped PROVE InFlight' = {} /\ \A t \in Turns : served'[t] # "running"
      <4>1. InFlight = {} /\ \A t \in Turns : served[t] # "running"
        BY <3>1, <3>5 DEF OneTurn
      <4>2. N = {}
        BY <4>1, <3>3
      <4>3. ~Starting(r)
        BY <1>1, <3>5 DEF ClientInv, Calling, Stopped
      <4> QED BY <4>1, <4>2, <4>3 DEF r
    <3>6. OneTurn'
      BY <3>1, <3>2, <3>4, <3>5, <1>7 DEF OneTurn, Stopped
    <3>7. NothingLost'
      BY <3>1, <1>7 DEF NothingLost, Taken
    <3> QED BY <3>6, <3>7
  <2> QED BY <2>1, <1>7, <1>11 DEF Complete
<1> QED BY <1>11, <1>12, <1>13, <1>14, <1>15, <1>16 DEF ClientInv

(* A request answered, with no notification: Start's two, a refusal, and    *)
(* the start of a turn.                                                     *)
LEMMA AnswerOnly ==
  ASSUME ClientInv, stdin # <<>>, stdin' = Tail(stdin), alive,
         UNCHANGED <<Frame, canceled, alive, stderr, notes, pending, answers, readers, readErr, waitErr, sent>>,
         NEW a \in Answer, stdout' = Append(stdout, a), a.id = Head(stdin).id,
         \/ served' = served
         \/ /\ Starting(Head(stdin)) /\ served[calls] = "none"
            /\ served' = [served EXCEPT ![calls] = "running"],
         caller = "await" /\ Head(stdin).id = id =>
           /\ method = "turn/start" =>
                IF a.ok THEN a.turn = calls /\ served'[calls] # "none" ELSE served'[calls] = "none"
           /\ method = "turn/interrupt" => served'[turn] \in Endings
  PROVE  ClientInv'
<1>1. /\ stdout' \in Seq(Answer \cup Note) /\ Wrote(stdout, a) /\ \A m \in In(notes) : After(m, a)
      /\ a.kind = "answer"
  BY AnswerPut DEF Answer
<1>2. In(stdout)' = In(stdout) \cup {a} /\ In(notes)' = In(notes)
  BY <1>1 DEF Wrote, In
<1>3. Envelopes' = Envelopes \cup {a} /\ InFlight' = InFlight \cup {}
  BY <1>1, <1>2 DEF Envelopes, InFlight
<1>4. EndsLast'
  <2>1. \A i, j \in DOMAIN stdout' : i < j => After(stdout'[i], stdout'[j])
    BY <1>1 DEF Wrote
  <2> QED BY <1>1, <1>2, <2>1 DEF ClientInv, EndsLast, After
<1>5. served \in [Turns -> {"none", "running"} \cup Endings]
  BY DEF ClientInv, Types, TypeOK
<1>6. /\ served' \in [Turns -> {"none", "running"} \cup Endings]
      /\ \A t \in Turns :
           \/ served'[t] = served[t]
           \/ served[t] = "running" /\ served'[t] \in Endings
           \/ served[t] = "none" /\ t = calls /\ served'[t] = "running" /\ Starting(Head(stdin))
  <2>1. CASE served' = served
    BY <1>5, <2>1
  <2>2. CASE Starting(Head(stdin)) /\ served[calls] = "none" /\ served' = [served EXCEPT ![calls] = "running"]
    BY <1>5, <2>2
  <2> QED BY <2>1, <2>2
<1>7. {} \in SUBSET Note /\ \A n \in {} : n.kind \in Endings /\ served[n.turn] = "running" /\ served'[n.turn] = n.kind
  OBVIOUS
<1> QED BY <1>1, <1>3, <1>4, <1>6, <1>7, ServeKeeps

(* A turn interrupted: the answer, then the end of the turn.                *)
LEMMA InterruptServed ==
  ASSUME ClientInv, stdin # <<>>, stdin' = Tail(stdin), alive,
         UNCHANGED <<Frame, canceled, alive, stderr, notes, pending, answers, readers, readErr, waitErr, sent>>,
         NEW a \in Answer, NEW n \in Note, a.id = Head(stdin).id,
         Head(stdin).method = "turn/interrupt", n.turn = Head(stdin).turn, n.kind = "interrupted",
         stdout' = stdout \o <<a, n>>, served[n.turn] = "running",
         served' = [served EXCEPT ![n.turn] = "interrupted"]
  PROVE  ClientInv'
<1> DEFINE s == Append(stdout, a)
<1>1. /\ s \in Seq(Answer \cup Note) /\ Wrote(stdout, a) /\ \A m \in In(notes) : After(m, a)
      /\ a.kind = "answer" /\ n.kind \in Endings /\ n.kind # "answer" /\ n.turn \in Turns
      /\ stdout \in Seq(Answer \cup Note)
  BY AnswerPut DEF Answer, Note, Endings, ClientInv, Types
<1>2. stdout' = Append(s, n)
  BY <1>1
<1>3. /\ In(s) = In(stdout) \cup {a}
      /\ \A i, j \in DOMAIN s : i < j => After(s[i], s[j])
  BY <1>1 DEF Wrote
<1> HIDE DEF s
<1>4. \A m \in InFlight : m.kind \in Endings => m.turn # n.turn
  BY DEF ClientInv, NotesTell, Endings
<1>5. /\ \A m \in In(s) : After(m, n)
      /\ \A m \in In(notes) : After(m, n)
  BY <1>1, <1>3, <1>4 DEF After, InFlight, Endings
<1>6. stdout' \in Seq(Answer \cup Note) /\ Wrote(s, n)
  BY <1>1, <1>2, <1>3, <1>5, PutLast
<1>7. In(stdout)' = In(stdout) \cup {a, n} /\ In(notes)' = In(notes)
  BY <1>2, <1>3, <1>6 DEF Wrote, In
<1>8. Envelopes' = Envelopes \cup {a} /\ InFlight' = InFlight \cup {n}
  BY <1>1, <1>7 DEF Envelopes, InFlight
<1>9. EndsLast'
  <2>1. \A i, j \in DOMAIN stdout' : i < j => After(stdout'[i], stdout'[j])
    BY <1>2, <1>6 DEF Wrote
  <2> QED BY <1>1, <1>5, <1>7, <2>1 DEF ClientInv, EndsLast, After
<1>10. /\ served' \in [Turns -> {"none", "running"} \cup Endings]
       /\ served'[n.turn] = "interrupted" /\ \A t \in Turns : t # n.turn => served'[t] = served[t]
  BY <1>1 DEF ClientInv, Types, TypeOK, Endings
<1>11. \A t \in Turns :
         \/ served'[t] = served[t]
         \/ served[t] = "running" /\ served'[t] \in Endings
         \/ served[t] = "none" /\ t = calls /\ served'[t] = "running" /\ Starting(Head(stdin))
  BY <1>10 DEF Endings
<1>12. caller = "await" /\ Head(stdin).id = id => method = "turn/interrupt" /\ turn = n.turn
  BY Taking DEF ClientInv, Requested
<1>13. caller = "await" /\ Head(stdin).id = id =>
         /\ method = "turn/start" =>
              IF a.ok THEN a.turn = calls /\ served'[calls] # "none" ELSE served'[calls] = "none"
         /\ method = "turn/interrupt" => served'[turn] \in Endings
  BY <1>10, <1>12 DEF Endings
<1>14. {n} \in SUBSET Note
       /\ \A m \in {n} : m.kind \in Endings /\ served[m.turn] = "running" /\ served'[m.turn] = m.kind
  BY <1>1, <1>10
<1> QED BY <1>6, <1>8, <1>9, <1>10, <1>11, <1>13, <1>14, ServeKeeps

LEMMA ServeStep ==
  ASSUME ClientInv, Serve,
         UNCHANGED <<callerVars, turnVars, rpcVars, notes, readers, errVars, canceled>>
  PROVE  ClientInv'
<1> DEFINE r == Head(stdin)
           a(ok, t) == [kind |-> "answer", id |-> r.id, ok |-> ok, turn |-> t]
<1>1. /\ alive /\ stdin # <<>> /\ stdin' = Tail(stdin)
      /\ UNCHANGED <<Frame, canceled, alive, stderr, notes, pending, answers, readers, readErr, waitErr>>
  BY DEF Serve, Frame, rpcVars, errVars
<1>2. r \in Line /\ r \in In(stdin)
  BY <1>1, Taking
<1>3. r.id \in Nat /\ r.turn \in 0 .. MaxTurns /\ 0 \in 0 .. MaxTurns /\ calls \in 0 .. MaxTurns
  BY <1>2, ClientAssumption DEF Line, ClientInv, Types, TypeOK
<1>4. \A ok \in BOOLEAN, t \in 0 .. MaxTurns :
        a(ok, t) \in Answer /\ a(ok, t).id = r.id /\ a(ok, t).ok = ok /\ a(ok, t).turn = t
  BY <1>3 DEF Answer
<1>5. caller = "await" /\ r.id = id => method = r.method /\ turn = r.turn
  BY <1>2 DEF ClientInv, Requested
<1>6. Starting(r) => calls # 0 /\ served[calls] = "none"
  BY <1>2 DEF ClientInv, Requested
<1>7. r.method = "turn/interrupt" => r.turn # 0
  BY <1>2 DEF ClientInv, Requested
<1>8. /\ calls # 0 => calls \in Turns
      /\ r.turn # 0 => r.turn \in Turns
  BY <1>3, ClientAssumption DEF Turns
<1>9. served \in [Turns -> {"none", "running"} \cup Endings]
  BY DEF ClientInv, Types, TypeOK
<1>10. \/ r.method \in {"initialize", "thread/start"} /\ (\E ok \in BOOLEAN : Put(a(ok, 0))) /\ UNCHANGED work
       \/ r.method = "turn/start" /\ Put(a(FALSE, 0)) /\ UNCHANGED work
       \/ /\ r.method = "turn/start" /\ Put(a(TRUE, calls))
          /\ served' = [served EXCEPT ![calls] = "running"] /\ UNCHANGED <<sent, spoke>>
       \/ /\ r.method = "turn/interrupt"
          /\ stdout' = stdout \o IF Running(r.turn)
                                 THEN <<a(TRUE, 0), [kind |-> "interrupted", turn |-> r.turn]>>
                                 ELSE <<a(FALSE, 0)>>
          /\ served' = [served EXCEPT ![r.turn] = IF Running(r.turn) THEN "interrupted" ELSE @]
          /\ UNCHANGED <<sent, spoke>>
  BY DEF Serve
<1> HIDE DEF r, a
<1>11. CASE r.method \in {"initialize", "thread/start"} /\ (\E ok \in BOOLEAN : Put(a(ok, 0))) /\ UNCHANGED work
  <2>1. PICK ok \in BOOLEAN : Put(a(ok, 0))
    BY <1>11
  <2>2. a(ok, 0) \in Answer /\ a(ok, 0).id = r.id /\ stdout' = Append(stdout, a(ok, 0))
    BY <2>1, <1>3, <1>4 DEF Put
  <2>3. served' = served /\ sent' = sent
    BY <1>11 DEF work
  <2>4. caller = "await" /\ r.id = id => method # "turn/start" /\ method # "turn/interrupt"
    BY <1>5, <1>11
  <2> QED BY <1>1, <2>2, <2>3, <2>4, AnswerOnly DEF r
<1>12. CASE r.method = "turn/start" /\ Put(a(FALSE, 0)) /\ UNCHANGED work
  <2>1. a(FALSE, 0) \in Answer /\ a(FALSE, 0).id = r.id /\ stdout' = Append(stdout, a(FALSE, 0))
        /\ a(FALSE, 0).ok = FALSE
    BY <1>12, <1>3, <1>4 DEF Put
  <2>2. served' = served /\ sent' = sent /\ served[calls] = "none"
    BY <1>12, <1>6 DEF work, Starting
  <2>3. caller = "await" /\ r.id = id => method # "turn/interrupt"
    BY <1>5, <1>12
  <2> QED BY <1>1, <2>1, <2>2, <2>3, AnswerOnly DEF r
<1>13. CASE /\ r.method = "turn/start" /\ Put(a(TRUE, calls))
            /\ served' = [served EXCEPT ![calls] = "running"] /\ UNCHANGED <<sent, spoke>>
  <2>1. /\ a(TRUE, calls) \in Answer /\ a(TRUE, calls).id = r.id /\ stdout' = Append(stdout, a(TRUE, calls))
        /\ a(TRUE, calls).ok = TRUE /\ a(TRUE, calls).turn = calls
    BY <1>13, <1>3, <1>4 DEF Put
  <2>2. Starting(r) /\ served[calls] = "none" /\ served'[calls] = "running" /\ sent' = sent
    BY <1>6, <1>8, <1>9, <1>13 DEF Starting
  <2>3. caller = "await" /\ r.id = id => method # "turn/interrupt"
    BY <1>5, <1>13
  <2> QED BY <1>1, <1>13, <2>1, <2>2, <2>3, AnswerOnly DEF r
<1>14. CASE /\ r.method = "turn/interrupt"
            /\ stdout' = stdout \o IF Running(r.turn)
                                   THEN <<a(TRUE, 0), [kind |-> "interrupted", turn |-> r.turn]>>
                                   ELSE <<a(FALSE, 0)>>
            /\ served' = [served EXCEPT ![r.turn] = IF Running(r.turn) THEN "interrupted" ELSE @]
            /\ UNCHANGED <<sent, spoke>>
  <2>1. CASE Running(r.turn)
    <3> DEFINE n == [kind |-> "interrupted", turn |-> r.turn]
    <3>1. n \in Note /\ n.turn = r.turn /\ n.kind = "interrupted"
      BY <1>7, <1>8, <1>14 DEF Note, Endings
    <3>2. a(TRUE, 0) \in Answer /\ a(TRUE, 0).id = r.id
      BY <1>3, <1>4
    <3>3. /\ stdout' = stdout \o <<a(TRUE, 0), n>> /\ served[r.turn] = "running"
          /\ served' = [served EXCEPT ![r.turn] = "interrupted"] /\ sent' = sent
      BY <1>14, <2>1 DEF Running
    <3> HIDE DEF n
    <3> QED BY <1>1, <1>14, <3>1, <3>2, <3>3, InterruptServed DEF r
  <2>2. CASE ~Running(r.turn)
    <3>1. a(FALSE, 0) \in Answer /\ a(FALSE, 0).id = r.id
      BY <1>3, <1>4
    <3>2. served' = served /\ sent' = sent
      BY <1>9, <1>14, <2>2
    <3>3. stdout \in Seq(Answer \cup Note)
      BY DEF ClientInv, Types
    <3>4. stdout' = Append(stdout, a(FALSE, 0))
      <4>1. stdout' = stdout \o <<a(FALSE, 0)>>
        BY <1>14, <2>2
      <4>2. PICK e \in Answer \cup Note : e = a(FALSE, 0)
        BY <3>1
      <4>3. stdout \o <<e>> = Append(stdout, e)
        BY <3>3
      <4> QED BY <4>1, <4>2, <4>3
    <3>5. caller = "await" /\ r.id = id => method = "turn/interrupt" /\ served'[turn] \in Endings
      <4>1. ASSUME caller = "await", r.id = id PROVE method = "turn/interrupt" /\ served[turn] \in Endings
        <5>1. method = "turn/interrupt" /\ turn = r.turn /\ turn \in Turns
          BY <4>1, <1>5, <1>7, <1>8, <1>14
        <5>2. served[turn] # "none"
          BY <5>1, <1>7, <1>14 DEF ClientInv, Calling
        <5> QED BY <5>1, <5>2, <2>2, <1>9 DEF Running
      <4> QED BY <4>1, <3>2
    <3> QED BY <1>1, <3>1, <3>2, <3>4, <3>5, AnswerOnly DEF r
  <2> QED BY <2>1, <2>2
<1> QED BY <1>10, <1>11, <1>12, <1>13, <1>14

LEMMA ServerKeeps == ASSUME ClientInv, Server PROVE ClientInv'
<1>1. /\ UNCHANGED <<callerVars, turnVars, rpcVars, notes, readers, errVars, canceled>>
      /\ Serve \/ (\E t \in Turns : Speak(t) \/ FinishTurn(t)) \/ Die \/ CloseStderr
  BY DEF Server
<1>2. CASE Serve
  BY <1>1, <1>2, ServeStep
<1>3. CASE \E t \in Turns : Speak(t) \/ FinishTurn(t)
  BY <1>1, <1>3, TalkKeeps
<1>4. CASE Die \/ CloseStderr
  BY <1>1, <1>4, FaultKeeps
<1> QED BY <1>1, <1>2, <1>3, <1>4

LEMMA StutterKeeps == ASSUME ClientInv, UNCHANGED vars PROVE ClientInv'
<1>1. UNCHANGED <<Frame, pending, answers, notes, stdin, stdout, served, sent, canceled, alive, stderr>>
      /\ UNCHANGED <<readErr, waitErr, readers>>
  BY DEF vars, Frame, rpcVars, errVars, serverVars, work
<1>2. /\ readErr' \in BOOLEAN /\ waitErr' \in BOOLEAN /\ reaped' \in BOOLEAN
      /\ {reader', stderrReader'} \subseteq {"read", "stopped"}
      /\ alive' \in BOOLEAN /\ stderr' \in {"open", "closed"}
  BY <1>1 DEF readers, ClientInv, Types, TypeOK
<1> QED BY <1>1, <1>2, WholePrefix, LossKeeps

LEMMA InvStep == ClientInv /\ [Next]_vars => ClientInv'
<1> SUFFICES ASSUME ClientInv, [Next]_vars PROVE ClientInv'
  OBVIOUS
<1>1. CASE Caller
  BY <1>1, CallerKeeps
<1>2. CASE Readers
  BY <1>2, ReadLineKeeps, EndKeeps DEF Readers
<1>3. CASE Cancel
  BY <1>3, CancelKeeps
<1>4. CASE Server
  BY <1>4, ServerKeeps
<1>5. CASE UNCHANGED vars
  BY <1>5, StutterKeeps
<1> QED BY <1>1, <1>2, <1>3, <1>4, <1>5 DEF Next

-----------------------------------------------------------------------------
(* What is asked, answered and announced between the client and its server  *)
(* agrees, wherever the goroutines, the pipe and the channel are.           *)
THEOREM ClientInvariant == Spec => []ClientInv
BY InvInit, InvStep, PTL DEF Spec

(* The client stays in the states its code knows: no answer is held for a   *)
(* request that still waits, and the channel is never over its capacity.    *)
THEOREM TypeCorrect == Spec => []TypeOK
<1>1. ClientInv => TypeOK
  BY DEF ClientInv, Types
<1> QED BY <1>1, ClientInvariant, PTL

(* A turn RunTurn reports as completed or failed is one the server ended    *)
(* so, however many ends of turns given up earlier are on their way.        *)
THEOREM ResultCorrect == Spec => []TurnResultIsServers
<1>1. ClientInv => TurnResultIsServers
  BY DEF ClientInv, Results, TurnResultIsServers
<1> QED BY <1>1, ClientInvariant, PTL

(* The response of a completed turn is all the server said in it and        *)
(* nothing else, as long as no turn was given up while it ran.              *)
THEOREM ResponseCorrect == Spec => []ResponseBelongsToTurn
<1>1. ClientInv => ResponseBelongsToTurn
  BY DEF ClientInv, Results
<1> QED BY <1>1, ClientInvariant, PTL

(* A turn RunTurn reports as interrupted has ended on a server that lives.  *)
THEOREM InterruptCorrect == Spec => []InterruptStopsTurn
<1>1. ClientInv => InterruptStopsTurn
  BY DEF ClientInv, Results, InterruptStopsTurn, Endings
<1> QED BY <1>1, ClientInvariant, PTL

-----------------------------------------------------------------------------
(* What keeps a call from waiting for ever, as states: as long as the       *)
(* caller waits, what it waits for can still happen.  TLC checks that it    *)
(* does happen (CallsReturn, TurnEndsWithServer).                           *)

(* A server that lives owes an answer, and no stage loses it: the request   *)
(* is still in the pipe, or its answer is on the way back and its channel   *)
(* registered, or the answer lies in the channel.                           *)
Owed == /\ id \in pending
        /\ \/ \E l \in In(stdin) : l.id = id
           \/ \E e \in In(stdout) : e.kind = "answer" /\ e.id = id

AnswerComes == caller = "await" /\ alive => Owed \/ \E r \in answers : r.id = id

(* A turn still runs on the server, or its end is on the way.               *)
EndsWith(t) == \E n \in InFlight : n.kind \in Endings /\ n.turn = t

EndComes == caller = "turn" /\ alive => Running(turn) \/ EndsWith(turn)

(* The exit of the server is reported to the turn it cuts off: the process  *)
(* is not reaped yet, or the report lies in waitErr, whatever became of the *)
(* only place of readErr.                                                   *)
ExitComes == caller = "turn" /\ ~alive => ~reaped \/ waitErr

(* The inductive form.  A turn is asked for before it is run, and its end   *)
(* may be on the way before the caller has read that it started.            *)
ExitKept ==
    /\ reaped => ~alive
    /\ caller \in {"await", "turn"} /\ reaped => waitErr

AnswerKept == AnswerComes /\ (caller = "write" => id \in pending)

InTurn == caller = "turn" \/ (caller = "await" /\ method = "turn/start")

EndKept == alive /\ InTurn /\ served[calls] \in Endings => EndsWith(calls)

WaitInv == ExitKept /\ AnswerKept /\ EndKept

LEMMA WaitInit == Init => WaitInv
BY DEF Init, WaitInv, ExitKept, AnswerKept, AnswerComes, EndKept, InTurn

LEMMA ExitStep == ClientInv /\ ExitKept /\ [Next]_vars => ExitKept'
<1> SUFFICES ASSUME ClientInv, ExitKept, [Next]_vars PROVE ExitKept'
  OBVIOUS
<1> USE DEF ExitKept
<1>1. CASE Caller
  <2>1. reaped' = reaped
    BY <1>1 DEF Caller, readers
  <2>2. CASE (Calls \/ Await) /\ UNCHANGED <<notes, errVars, serverVars>>
    <3>1. caller' \in {"await", "turn"} => caller = "await"
      BY <2>2 DEF Calls, Await, Start, RunTurn, AwaitCanceled, AnswerRefused, Initialized,
         ThreadStarted, TurnStarted, InterruptAnswered, Answered, Request, Return
    <3> QED BY <2>1, <2>2, <3>1 DEF errVars, serverVars
  <2>3. CASE Select /\ UNCHANGED serverVars
    <3>1. CASE TurnSeesExit \/ TurnSeesClosedStream \/ TurnCanceled
      <4>1. caller' \in {"idle", "write"} /\ alive' = alive
        BY <2>3, <3>1 DEF TurnSeesExit, TurnSeesClosedStream, TurnCanceled, Request, Return, serverVars
      <4> QED BY <2>1, <4>1
    <3>2. CASE TurnNote
      <4>1. caller = "turn" /\ waitErr' = waitErr /\ alive' = alive
        BY <2>3, <3>2 DEF TurnNote, errVars, serverVars
      <4> QED BY <2>1, <4>1
    <3> QED BY <2>3, <3>1, <3>2 DEF Select
  <2>4. CASE Write /\ UNCHANGED errVars
    <3>1. alive' = alive /\ (caller' \in {"await", "turn"} => alive)
      BY <2>4 DEF Write, Return
    <3> QED BY <2>1, <3>1
  <2>5. CASE Close
    BY <2>1, <2>5 DEF Close
  <2> QED BY <1>1, <2>2, <2>3, <2>4, <2>5 DEF Caller
<1>2. CASE Readers
  BY <1>2 DEF Readers, ReadLine, StdoutEnds, StderrEnds, Reap, callerVars, readers, errVars, serverVars
<1>3. CASE Cancel \/ Server \/ UNCHANGED vars
  <2>1. UNCHANGED <<caller, reaped, waitErr>>
    BY <1>3 DEF Cancel, Server, vars, callerVars, readers, errVars
  <2>2. alive' = alive \/ ~alive'
    BY <1>3 DEF Cancel, Server, Serve, Speak, FinishTurn, Die, CloseStderr, vars, serverVars
  <2> QED BY <2>1, <2>2
<1> QED BY <1>1, <1>2, <1>3 DEF Next

(* A line read is in the channel of its kind. *)
LEMMA LineMoves ==
  ASSUME ClientInv, ReadLine
  PROVE  /\ In(stdout) = In(stdout)' \cup {Head(stdout)} /\ Head(stdout) \in In(stdout)
         /\ Head(stdout) \in Answer \cup Note
         /\ IF Head(stdout).kind = "answer" THEN HandleAnswer(Head(stdout)) ELSE HandleNote(Head(stdout))
         /\ In(stdin)' = In(stdin) /\ InFlight' = InFlight
<1> DEFINE e == Head(stdout)
<1>1. /\ stdout # <<>> /\ stdout' = Tail(stdout) /\ stdin' = stdin
      /\ IF e.kind = "answer" THEN HandleAnswer(e) ELSE HandleNote(e)
  BY DEF ReadLine
<1>2. stdout \in Seq(Answer \cup Note) /\ notes \in Seq(Note)
  BY DEF ClientInv, Types
<1>3. In(stdout) = In(Tail(stdout)) \cup {e} /\ e \in In(stdout) /\ e \in Answer \cup Note
  BY <1>1, <1>2, TailIn
<1>4. In(stdout)' = In(Tail(stdout)) /\ In(stdin)' = In(stdin) /\ In(notes)' = In(notes')
  BY <1>1 DEF In
<1> HIDE DEF e
<1>5. CASE e.kind = "answer"
  BY <1>1, <1>3, <1>4, <1>5 DEF HandleAnswer, InFlight, e
<1>6. CASE e.kind # "answer"
  <2>1. e \in Note
    BY <1>3, <1>6 DEF Answer
  <2>2. [kind |-> e.kind, turn |-> e.turn] = e
    BY <2>1 DEF Note
  <2>3. notes' = Append(notes, e)
    BY <1>1, <1>6, <2>2 DEF HandleNote
  <2>4. In(notes') = In(notes) \cup {e}
    BY <1>2, <2>1, <2>3, AppendIn
  <2> QED BY <1>1, <1>3, <1>4, <1>6, <2>4 DEF InFlight, e
<1> QED BY <1>5, <1>6

LEMMA ConcatIn ==
  ASSUME NEW S, NEW s \in Seq(S), NEW q \in Seq(S)
  PROVE  In(s) \subseteq In(s \o q) /\ In(q) \subseteq In(s \o q)
<1>1. /\ DOMAIN s = 1 .. Len(s) /\ DOMAIN q = 1 .. Len(q) /\ Len(s) \in Nat /\ Len(q) \in Nat
      /\ DOMAIN (s \o q) = 1 .. (Len(s) + Len(q))
  OBVIOUS
<1>2. ASSUME NEW k \in 1 .. Len(s) PROVE s[k] \in In(s \o q)
  <2>1. (s \o q)[k] = s[k] /\ k \in 1 .. (Len(s) + Len(q))
    BY <1>1
  <2> QED BY <1>1, <2>1 DEF In
<1>3. ASSUME NEW k \in 1 .. Len(q) PROVE q[k] \in In(s \o q)
  <2>1. (s \o q)[Len(s) + k] = q[k] /\ Len(s) + k \in 1 .. (Len(s) + Len(q))
    BY <1>1
  <2> QED BY <1>1, <2>1 DEF In
<1> QED BY <1>1, <1>2, <1>3 DEF In

LEMMA Short ==
  ASSUME NEW S, NEW x \in S, NEW y \in S
  PROVE  /\ <<x>> \in Seq(S) /\ 1 \in DOMAIN <<x>> /\ <<x>>[1] = x
         /\ <<x, y>> \in Seq(S) /\ 1 \in DOMAIN <<x, y>> /\ <<x, y>>[1] = x
         /\ 2 \in DOMAIN <<x, y>> /\ <<x, y>>[2] = y
OBVIOUS

(* The server tells of every turn it ends. *)
EndsShown ==
    \A t \in Turns : served'[t] \in Endings /\ served'[t] # served[t] =>
      \E n \in In(stdout)' : n.kind \in Endings /\ n.turn = t

(* A request served is answered. *)
LEMMA RequestServed ==
  ASSUME ClientInv, Serve
  PROVE  /\ In(stdin) = In(stdin)' \cup {Head(stdin)} /\ In(stdout) \subseteq In(stdout)'
         /\ \E e \in In(stdout)' : e.kind = "answer" /\ e.id = Head(stdin).id
         /\ EndsShown
<1> DEFINE r == Head(stdin)
           a(ok, t) == [kind |-> "answer", id |-> r.id, ok |-> ok, turn |-> t]
<1>1. stdin # <<>> /\ stdin' = Tail(stdin) /\ stdin \in Seq(Line) /\ stdout \in Seq(Answer \cup Note)
  BY DEF Serve, ClientInv, Types
<1>2. r \in Line /\ In(stdin) = In(Tail(stdin)) \cup {r}
  BY <1>1, TailIn
<1>3. In(stdin)' = In(Tail(stdin)) /\ In(stdout)' = In(stdout')
  BY <1>1 DEF In
<1>4. r.id \in Nat /\ r.turn \in 0 .. MaxTurns /\ calls \in 0 .. MaxTurns /\ 0 \in 0 .. MaxTurns
  BY <1>2, ClientAssumption DEF Line, ClientInv, Types, TypeOK
<1>5. \A ok \in BOOLEAN, t \in 0 .. MaxTurns :
        a(ok, t) \in Answer /\ a(ok, t).id = r.id /\ a(ok, t).kind = "answer"
  BY <1>4 DEF Answer
<1>6. r.method = "turn/interrupt" => r.turn \in Turns
  BY <1>2, <1>4, <1>1, TailIn DEF ClientInv, Requested, Turns
<1>7. \/ /\ \E ok \in BOOLEAN, t \in 0 .. MaxTurns : stdout' = Append(stdout, a(ok, t))
         /\ served' = served \/ served' = [served EXCEPT ![calls] = "running"]
      \/ /\ r.method = "turn/interrupt" /\ Running(r.turn)
         /\ stdout' = stdout \o <<a(TRUE, 0), [kind |-> "interrupted", turn |-> r.turn]>>
         /\ served' = [served EXCEPT ![r.turn] = "interrupted"]
      \/ /\ r.method = "turn/interrupt" /\ ~Running(r.turn)
         /\ stdout' = stdout \o <<a(FALSE, 0)>>
         /\ served' = [served EXCEPT ![r.turn] = @]
  BY <1>4 DEF Serve, Put, work
<1>t. served \in [Turns -> {"none", "running"} \cup Endings] /\ "running" \notin Endings
  BY DEF ClientInv, Types, TypeOK, Endings
<1> HIDE DEF r, a
<1>8. CASE /\ \E ok \in BOOLEAN, t \in 0 .. MaxTurns : stdout' = Append(stdout, a(ok, t))
           /\ served' = served \/ served' = [served EXCEPT ![calls] = "running"]
  <2>1. PICK ok \in BOOLEAN, t \in 0 .. MaxTurns : stdout' = Append(stdout, a(ok, t))
    BY <1>8
  <2>2. a(ok, t) \in Answer \cup Note /\ a(ok, t).id = r.id /\ a(ok, t).kind = "answer"
    BY <1>5
  <2>3. In(stdout') = In(stdout) \cup {a(ok, t)}
    BY <1>1, <2>1, <2>2, AppendIn
  <2>4. EndsShown
    BY <1>t, <1>8 DEF EndsShown
  <2> QED BY <1>2, <1>3, <2>2, <2>3, <2>4 DEF r
<1>9. CASE /\ r.method = "turn/interrupt" /\ Running(r.turn)
           /\ stdout' = stdout \o <<a(TRUE, 0), [kind |-> "interrupted", turn |-> r.turn]>>
           /\ served' = [served EXCEPT ![r.turn] = "interrupted"]
  <2> DEFINE n == [kind |-> "interrupted", turn |-> r.turn]
             q == <<a(TRUE, 0), n>>
  <2>1. a(TRUE, 0) \in Answer /\ a(TRUE, 0).id = r.id /\ a(TRUE, 0).kind = "answer"
    BY <1>4, <1>5
  <2>2. n \in Note /\ n.kind \in Endings /\ n.turn = r.turn
    BY <1>6, <1>9 DEF Note, Endings
  <2> HIDE DEF n
  <2>3. q \in Seq(Answer \cup Note) /\ 1 \in DOMAIN q /\ q[1] = a(TRUE, 0) /\ 2 \in DOMAIN q /\ q[2] = n
    <3>1. a(TRUE, 0) \in Answer \cup Note /\ n \in Answer \cup Note
      BY <2>1, <2>2
    <3> QED BY <3>1, Short
  <2> HIDE DEF q
  <2>4. In(stdout) \subseteq In(stdout \o q) /\ In(q) \subseteq In(stdout \o q)
    BY <1>1, <2>3, ConcatIn
  <2>5. a(TRUE, 0) \in In(q) /\ n \in In(q)
    BY <2>3 DEF In
  <2>6. stdout' = stdout \o q
    BY <1>9 DEF q, n
  <2>7. \A t \in Turns : t # r.turn => served'[t] = served[t]
    BY <1>t, <1>9
  <2>8. EndsShown
    BY <1>3, <2>2, <2>4, <2>5, <2>6, <2>7 DEF EndsShown
  <2> QED BY <1>2, <1>3, <2>1, <2>4, <2>5, <2>6, <2>8 DEF r
<1>10. CASE /\ r.method = "turn/interrupt" /\ ~Running(r.turn)
            /\ stdout' = stdout \o <<a(FALSE, 0)>>
            /\ served' = [served EXCEPT ![r.turn] = @]
  <2> DEFINE q == <<a(FALSE, 0)>>
  <2>1. a(FALSE, 0) \in Answer /\ a(FALSE, 0).id = r.id /\ a(FALSE, 0).kind = "answer"
    BY <1>4, <1>5
  <2>2. q \in Seq(Answer \cup Note) /\ 1 \in DOMAIN q /\ q[1] = a(FALSE, 0)
    BY <2>1, Short
  <2> HIDE DEF q
  <2>3. In(stdout) \subseteq In(stdout \o q) /\ In(q) \subseteq In(stdout \o q)
    BY <1>1, <2>2, ConcatIn
  <2>4. a(FALSE, 0) \in In(q)
    BY <2>2 DEF In
  <2>5. stdout' = stdout \o q
    BY <1>10 DEF q
  <2>6. EndsShown
    BY <1>t, <1>10 DEF EndsShown
  <2> QED BY <1>2, <1>3, <2>1, <2>3, <2>4, <2>5, <2>6 DEF r
<1> QED BY <1>7, <1>8, <1>9, <1>10

(* What a turn says joins the pipe. *)
LEMMA TalkWritten ==
  ASSUME ClientInv, NEW t \in Turns, Speak(t) \/ FinishTurn(t)
  PROVE  /\ In(stdout) \subseteq In(stdout)' /\ In(stdin)' = In(stdin) /\ alive' = alive
         /\ EndsShown
<1>1. PICK k \in Spoken \cup {"completed", "failed"} :
        /\ stdout' = Append(stdout, [kind |-> k, turn |-> t])
        /\ \/ served' = served
           \/ k \in Endings /\ served' = [served EXCEPT ![t] = k]
  BY DEF Speak, FinishTurn, Put, Spoken, Endings
<1> DEFINE n == [kind |-> k, turn |-> t]
<1>2. n \in Answer \cup Note /\ n.kind = k /\ n.turn = t
  BY DEF Note, Spoken, Endings
<1>3. stdin' = stdin /\ alive' = alive /\ stdout \in Seq(Answer \cup Note)
  BY DEF Speak, FinishTurn, ClientInv, Types
<1>4. In(Append(stdout, n)) = In(stdout) \cup {n}
  <2> HIDE DEF n
  <2> QED BY <1>2, <1>3, AppendIn
<1>5. In(stdout)' = In(stdout) \cup {n} /\ In(stdin)' = In(stdin)
  BY <1>1, <1>3, <1>4 DEF In
<1>6. served \in [Turns -> {"none", "running"} \cup Endings]
  BY DEF ClientInv, Types, TypeOK
<1>7. \A s \in Turns : s # t => served'[s] = served[s]
  BY <1>1, <1>6
<1>8. EndsShown
  <2>1. CASE served' = served
    BY <2>1 DEF EndsShown
  <2>2. CASE k \in Endings
    BY <1>2, <1>5, <1>7, <2>2 DEF EndsShown
  <2> QED BY <1>1, <2>1, <2>2
<1> QED BY <1>3, <1>5, <1>8

LEMMA AnswerStep == ClientInv /\ AnswerKept /\ [Next]_vars => AnswerKept'
<1> SUFFICES ASSUME ClientInv, AnswerKept, [Next]_vars PROVE AnswerKept'
  OBVIOUS
<1> USE DEF AnswerKept, AnswerComes
<1>0. /\ id \in Nat /\ stdin \in Seq(Line)
      /\ \A e \in Envelopes : caller = "write" => e.id # id
  BY WireTypes DEF ClientInv, Types, TypeOK, Requested
(* What no step of the caller touches. *)
<1>1. CASE Caller
  <2>1. CASE (Calls \/ Await) /\ UNCHANGED <<notes, errVars, serverVars>>
    BY <2>1 DEF Calls, Await, Start, RunTurn, AwaitCanceled, AnswerRefused, Initialized,
       ThreadStarted, TurnStarted, InterruptAnswered, Request, Return
  <2>2. CASE Select /\ UNCHANGED serverVars
    BY <2>2 DEF Select, TurnSeesExit, TurnSeesClosedStream, TurnCanceled, TurnNote, Request, Return
  <2>3. CASE Write
    <3>1. CASE alive
      <4> DEFINE l == [id |-> id, method |-> method, turn |-> turn]
      <4>1. l \in Line /\ l.id = id
        BY <1>0, <2>3 DEF Line, Methods, Write, ClientInv, Types, TypeOK, Calling, Asking
      <4>2. stdin' = Append(stdin, l) /\ pending' = pending /\ id' = id /\ caller = "write" /\ caller' = "await"
        BY <2>3, <3>1 DEF Write, rpcVars
      <4>3. In(Append(stdin, l)) = In(stdin) \cup {l}
        <5> HIDE DEF l
        <5> QED BY <1>0, <4>1, AppendIn
      <4>4. l \in In(stdin)'
        BY <4>2, <4>3 DEF In
      <4> HIDE DEF l
      <4> QED BY <4>1, <4>2, <4>4 DEF Owed
    <3>2. CASE ~alive
      BY <2>3, <3>2 DEF Write, Return
    <3> QED BY <3>1, <3>2
  <2>4. CASE Close
    BY <2>4 DEF Close
  <2> QED BY <1>1, <2>1, <2>2, <2>3, <2>4 DEF Caller
<1>2. CASE ReadLine
  <2> DEFINE e == Head(stdout)
  <2>1. /\ UNCHANGED <<caller, id, alive>>
        /\ In(stdout) = In(stdout)' \cup {e} /\ e \in In(stdout)
        /\ IF e.kind = "answer" THEN HandleAnswer(e) ELSE HandleNote(e)
        /\ In(stdin)' = In(stdin)
    BY <1>2, LineMoves DEF ReadLine, callerVars
  <2> HIDE DEF e
  <2>2. CASE e.kind = "answer" /\ e.id = id
    <3>1. e \in Envelopes
      BY <2>1, <2>2 DEF Envelopes
    <3>2. caller # "write"
      BY <1>0, <2>2, <3>1
    <3>3. /\ answers \subseteq answers'
          /\ id \in pending => \E r \in answers' : r.id = id
      <4> DEFINE d == [id |-> e.id, ok |-> e.ok, turn |-> e.turn]
      <4>1. d.id = id /\ answers' = IF e.id \in pending THEN answers \cup {d} ELSE answers
        BY <2>1, <2>2 DEF HandleAnswer
      <4> HIDE DEF d
      <4> QED BY <2>2, <4>1
    <3> QED BY <2>1, <3>2, <3>3 DEF Owed
  <2>3. CASE ~(e.kind = "answer" /\ e.id = id)
    <3>1. answers \subseteq answers' /\ (id \in pending => id \in pending')
      BY <2>1, <2>3 DEF HandleAnswer, HandleNote, rpcVars
    <3> QED BY <2>1, <2>3, <3>1 DEF Owed
  <2> QED BY <2>2, <2>3
<1>3. CASE StdoutEnds \/ StderrEnds \/ Reap \/ Cancel \/ UNCHANGED vars
  <2>1. UNCHANGED <<caller, id, alive, pending, answers, stdin>> /\ (stdout' = stdout \/ ~alive)
    BY <1>3 DEF StdoutEnds, StderrEnds, Reap, Cancel, vars, callerVars, rpcVars, serverVars
  <2> QED BY <2>1 DEF Owed, In
<1>4. CASE Server
  <2>1. UNCHANGED <<caller, id, pending, answers>>
    BY <1>4 DEF Server, callerVars, rpcVars
  <2>2. CASE Serve
    <3>1. /\ In(stdin) = In(stdin)' \cup {Head(stdin)} /\ In(stdout) \subseteq In(stdout)'
          /\ \E e \in In(stdout)' : e.kind = "answer" /\ e.id = Head(stdin).id
      BY <2>2, RequestServed
    <3>2. alive' = alive
      BY <2>2 DEF Serve
    <3> QED BY <2>1, <3>1, <3>2 DEF Owed
  <2>3. CASE \E t \in Turns : Speak(t) \/ FinishTurn(t)
    <3>1. In(stdout) \subseteq In(stdout)' /\ In(stdin)' = In(stdin) /\ alive' = alive
      BY <2>3, TalkWritten
    <3> QED BY <2>1, <3>1 DEF Owed
  <2>4. CASE Die \/ CloseStderr
    <3>1. UNCHANGED <<stdin, stdout>> /\ (alive' => alive)
      BY <2>4 DEF Die, CloseStderr
    <3> QED BY <2>1, <3>1 DEF Owed, In
  <2> QED BY <1>4, <2>2, <2>3, <2>4 DEF Server
<1> QED BY <1>1, <1>2, <1>3, <1>4 DEF Next, Readers

LEMMA EndStep == ClientInv /\ EndKept /\ [Next]_vars => EndKept'
<1> SUFFICES ASSUME ClientInv, EndKept, [Next]_vars, alive', InTurn', served'[calls'] \in Endings
             PROVE  EndsWith(calls)'
  BY DEF EndKept
<1>0. /\ served \in [Turns -> {"none", "running"} \cup Endings] /\ "answer" \notin Endings
      /\ calls # 0 => calls \in Turns
  BY ClientAssumption DEF ClientInv, Types, TypeOK, Endings, Turns
<1>1. CASE Caller
  <2>1. CASE (Calls \/ Await) /\ UNCHANGED <<notes, errVars, serverVars>>
    <3>1. TurnStarted /\ InTurn
      BY <2>1 DEF Calls, Await, Start, RunTurn, AwaitCanceled, AnswerRefused, Initialized,
         ThreadStarted, TurnStarted, InterruptAnswered, Answered, Request, Return, InTurn
    <3>2. UNCHANGED <<calls, alive, served, stdout, notes>>
      BY <2>1, <3>1 DEF TurnStarted, serverVars, work
    <3> QED BY <3>1, <3>2 DEF EndKept, EndsWith, InFlight, In
  <2>2. CASE Select /\ UNCHANGED serverVars
    <3>1. TurnNote /\ caller = "turn" /\ caller' = "turn"
      BY <2>2 DEF Select, TurnSeesExit, TurnSeesClosedStream, TurnCanceled, TurnNote, Request, Return, InTurn
    <3>2. UNCHANGED <<calls, alive, served, stdout, stdin, sent, answers>>
      BY <2>2, <3>1 DEF TurnNote, serverVars, work, rpcVars
    <3>3. notes # <<>> /\ notes' = Tail(notes) /\ ~EndsTurn(Head(notes))
      BY <3>1 DEF TurnNote, Return, EndsTurn, Endings
    <3>4. InFlight = InFlight' \cup {Head(notes)}
      BY <3>2, <3>3, NoteTaken DEF Wires
    <3>5. turn = calls
      BY <3>1 DEF ClientInv, Calling
    <3>6. EndsWith(calls)
      BY <3>1, <3>2 DEF EndKept, InTurn
    <3>7. Head(notes).kind \in Endings => Head(notes).turn # calls
      BY <3>3, <3>5 DEF EndsTurn
    <3> QED BY <3>2, <3>4, <3>6, <3>7 DEF EndsWith
  <2>3. CASE Write /\ UNCHANGED notes
    <3>1. caller = "write" /\ method = "turn/start" /\ UNCHANGED <<calls, served>>
      BY <2>3 DEF Write, Return, InTurn, work
    <3>2. served[calls] = "none" /\ calls # 0
      BY <3>1 DEF ClientInv, Calling, Asking
    <3> QED BY <3>1, <3>2 DEF Endings
  <2>4. CASE Close
    BY <2>4 DEF Close
  <2> QED BY <1>1, <2>1, <2>2, <2>3, <2>4 DEF Caller
<1>2. CASE ReadLine
  <2>1. UNCHANGED <<caller, method, calls, alive, served>> /\ InFlight' = InFlight
    BY <1>2, LineMoves DEF ReadLine, callerVars, work
  <2> QED BY <2>1 DEF EndKept, InTurn, EndsWith
<1>3. CASE StdoutEnds \/ StderrEnds \/ Reap \/ Cancel \/ UNCHANGED vars
  <2>1. UNCHANGED <<caller, method, calls, alive, served, stdout, notes>>
    BY <1>3 DEF StdoutEnds, StderrEnds, Reap, Cancel, vars, callerVars, serverVars, work
  <2> QED BY <2>1 DEF EndKept, InTurn, EndsWith, InFlight, In
<1>4. CASE Server
  <2>1. UNCHANGED <<caller, method, calls, notes>> /\ In(notes)' = In(notes)
    BY <1>4 DEF Server, callerVars, In
  <2>5. InTurn /\ calls \in Turns
    BY <1>0, <2>1 DEF InTurn, ClientInv, Calling, Asking
  <2>2. CASE Serve
    <3>1. alive /\ In(stdout) \subseteq In(stdout)' /\ EndsShown
      BY <2>2, RequestServed DEF Serve
    <3>2. InFlight \subseteq InFlight'
      BY <2>1, <3>1 DEF InFlight
    <3> QED BY <1>0, <2>1, <2>5, <3>1, <3>2 DEF EndsShown, EndKept, EndsWith, InFlight
  <2>3. CASE \E t \in Turns : Speak(t) \/ FinishTurn(t)
    <3>1. In(stdout) \subseteq In(stdout)' /\ alive' = alive /\ EndsShown
      BY <2>3, TalkWritten
    <3>2. InFlight \subseteq InFlight'
      BY <2>1, <3>1 DEF InFlight
    <3> QED BY <1>0, <2>1, <2>5, <3>1, <3>2 DEF EndsShown, EndKept, EndsWith, InFlight
  <2>4. CASE Die \/ CloseStderr
    <3>1. UNCHANGED <<stdout, served>> /\ (alive' => alive)
      BY <2>4 DEF Die, CloseStderr, work
    <3> QED BY <2>1, <3>1 DEF EndKept, InTurn, EndsWith, InFlight, In
  <2> QED BY <1>4, <2>2, <2>3, <2>4 DEF Server
<1> QED BY <1>1, <1>2, <1>3, <1>4 DEF Next, Readers

(* No call waits for what cannot come: as long as the server lives its      *)
(* answer is owed, in the pipe or in the channel, and so is the end of the  *)
(* turn; and the exit of the server is kept for the turn it cuts off.       *)
THEOREM CallsAreAnswered == Spec => [](AnswerComes /\ EndComes /\ ExitComes)
<1>1. ClientInv /\ WaitInv /\ [Next]_vars => WaitInv'
  BY ExitStep, AnswerStep, EndStep DEF WaitInv
<1>2. ClientInv /\ WaitInv => AnswerComes /\ EndComes /\ ExitComes
  <2> SUFFICES ASSUME ClientInv, WaitInv PROVE AnswerComes /\ EndComes /\ ExitComes
    OBVIOUS
  <2>1. EndComes
    <3>1. ASSUME caller = "turn", alive, ~Running(turn) PROVE EndsWith(turn)
      <4>1. turn = calls /\ turn # 0 /\ served[turn] # "none" /\ turn \in 0 .. MaxTurns
        BY <3>1 DEF ClientInv, Calling, Types, TypeOK
      <4>2. turn \in Turns
        BY <4>1, ClientAssumption DEF Turns
      <4>3. served[turn] \in Endings
        BY <3>1, <4>1, <4>2 DEF ClientInv, Types, TypeOK, Running
      <4> QED BY <3>1, <4>1, <4>3 DEF WaitInv, EndKept, InTurn
    <3> QED BY <3>1 DEF EndComes
  <2>2. AnswerComes /\ ExitComes
    BY DEF WaitInv, AnswerKept, ExitKept, ExitComes
  <2> QED BY <2>1, <2>2
<1> QED BY <1>1, <1>2, WaitInit, ClientInvariant, InvInit, InvStep, PTL DEF Spec

-----------------------------------------------------------------------------
(* The client is a turn runner (TurnRunner).  What its outcomes say of the  *)
(* turn rests on ClientInv, and on three facts about who ends what.         *)

(* An error in a channel means that a stream of the server has ended; of a  *)
(* server that lives only the reader of stderr can have put one there.      *)
StreamsEnd ==
    /\ ~alive \/ readErr \/ stderrReader = "stopped" => stderr = "closed"
    /\ waitErr \/ reaped \/ caller = "closed" => ~alive
    /\ readErr /\ alive => stderrReader = "stopped"

TurnIsLast == turn \in {0, calls}

(* Only a cancellation interrupts a turn, the last one. *)
OnlyCanceled ==
    /\ \A l \in In(stdin) : l.method = "turn/interrupt" => canceled /\ l.turn = calls
    /\ \A t \in Turns : served[t] = "interrupted" => canceled

(* Whoever calls was not stopped, and an interrupt on its way is of a call  *)
(* that waits for it or was stopped.                                        *)
CallsGoOn == caller \notin {"idle", "closed"} => ~Stopped

InterruptIsLast ==
    \A l \in In(stdin) : l.method = "turn/interrupt" =>
      Stopped \/ (caller = "await" /\ method = "turn/interrupt")

RunnerInv == StreamsEnd /\ TurnIsLast /\ OnlyCanceled /\ CallsGoOn /\ InterruptIsLast

LEMMA RunnerInit == Init => RunnerInv
<1> SUFFICES ASSUME Init PROVE RunnerInv
  OBVIOUS
<1>1. In(stdin) = {}
  BY DEF Init, In
<1> QED BY <1>1 DEF Init, RunnerInv, StreamsEnd, TurnIsLast, OnlyCanceled, CallsGoOn, InterruptIsLast, Endings

LEMMA StreamsStep == ClientInv /\ StreamsEnd /\ [Next]_vars => StreamsEnd'
<1> SUFFICES ASSUME ClientInv, StreamsEnd, [Next]_vars PROVE StreamsEnd'
  OBVIOUS
<1> USE DEF StreamsEnd
<1>1. CASE Caller
  <2>1. UNCHANGED <<reaped, stderrReader>>
    BY <1>1 DEF Caller, readers
  <2>2. CASE (Calls \/ Await) /\ UNCHANGED <<notes, errVars, serverVars>>
    <3>1. caller # "closed" /\ caller' # "closed"
      BY <2>2 DEF Calls, Await, Start, RunTurn, AwaitCanceled, AnswerRefused, Initialized,
         ThreadStarted, TurnStarted, InterruptAnswered, Answered, Request, Return
    <3> QED BY <2>1, <2>2, <3>1 DEF errVars, serverVars
  <2>3. CASE Select /\ UNCHANGED serverVars
    <3>1. caller = "turn" /\ caller' # "closed" /\ (readErr' => readErr) /\ (waitErr' => waitErr)
      BY <2>3 DEF Select, TurnSeesExit, TurnSeesClosedStream, TurnCanceled, TurnNote, Request,
         Return, errVars, callerVars
    <3> QED BY <2>1, <2>3, <3>1 DEF serverVars
  <2>4. CASE Write /\ UNCHANGED errVars
    <3>1. caller' # "closed" /\ alive' = alive /\ stderr' = stderr
      BY <2>4 DEF Write, Return
    <3> QED BY <2>1, <2>4, <3>1 DEF errVars
  <2>5. CASE Close /\ UNCHANGED errVars
    BY <2>1, <2>5 DEF Close
  <2> QED BY <1>1, <2>2, <2>3, <2>4, <2>5 DEF Caller
<1>2. CASE Readers
  BY <1>2 DEF Readers, ReadLine, StdoutEnds, StderrEnds, Reap, callerVars, readers, errVars, serverVars
<1>3. CASE Cancel \/ Server \/ UNCHANGED vars
  <2>1. UNCHANGED <<caller, reaped, stderrReader, waitErr, readErr>>
    BY <1>3 DEF Cancel, Server, vars, callerVars, readers, errVars
  <2>2. alive' = alive \/ ~alive'
    BY <1>3 DEF Cancel, Server, Serve, Speak, FinishTurn, Die, CloseStderr, vars, serverVars
  <2>3. stderr' = stderr \/ stderr' = "closed"
    BY <1>3 DEF Cancel, Server, Serve, Speak, FinishTurn, Die, CloseStderr, vars, serverVars
  <2>4. ~alive' => ~alive \/ stderr' = "closed"
    BY <1>3 DEF Cancel, Server, Serve, Speak, FinishTurn, Die, CloseStderr, vars, serverVars
  <2> QED BY <2>1, <2>2, <2>3, <2>4
<1> QED BY <1>1, <1>2, <1>3 DEF Next

LEMMA TurnIsLastStep == ClientInv /\ TurnIsLast /\ [Next]_vars => TurnIsLast'
<1> SUFFICES ASSUME ClientInv, TurnIsLast, [Next]_vars PROVE TurnIsLast'
  OBVIOUS
<1> USE DEF TurnIsLast
<1>1. CASE TurnStarted
  <2>1. PICK r \in answers : r.id = id /\ r.ok = TRUE /\ answers' = answers \ {r}
    BY <1>1 DEF TurnStarted, Answered
  <2>2. caller = "await" /\ method = "turn/start" /\ calls' = calls
    BY <1>1 DEF TurnStarted, Answered
  <2>3. r.turn = calls
    BY <2>1, <2>2 DEF ClientInv, AnswersTell, Envelopes
  <2>4. turn' = r.turn
    BY <1>1, <2>1 DEF TurnStarted
  <2> QED BY <2>2, <2>3, <2>4
<1>2. CASE RunTurn
  BY <1>2 DEF RunTurn, FreshResponse
<1>3. CASE ~TurnStarted /\ ~RunTurn
  <2>1. UNCHANGED <<turn, calls>>
    BY <1>3 DEF Next, Caller, Calls, Await, Select, Start, Write, Close, AwaitCanceled,
       AnswerRefused, Initialized, ThreadStarted, InterruptAnswered, Return, TurnSeesExit,
       TurnSeesClosedStream, TurnCanceled, TurnNote, Readers, ReadLine, StdoutEnds, StderrEnds,
       Reap, Cancel, Server, callerVars, turnVars, vars
  <2> QED BY <2>1
<1> QED BY <1>1, <1>2, <1>3

LEMMA CallsGoOnStep == CallsGoOn /\ [Next]_vars => CallsGoOn'
<1> SUFFICES ASSUME CallsGoOn, [Next]_vars PROVE CallsGoOn'
  OBVIOUS
<1> USE DEF CallsGoOn, Stopped
<1>1. CASE Calls
  BY <1>1 DEF Calls, Start, RunTurn, NoResult, turnVars
<1>2. CASE Await
  BY <1>2 DEF Await, AwaitCanceled, AnswerRefused, Initialized, ThreadStarted, TurnStarted,
     InterruptAnswered, Answered, Return, turnVars
<1>3. CASE Select
  BY <1>3 DEF Select, TurnSeesExit, TurnSeesClosedStream, TurnCanceled, TurnNote, Return, turnVars
<1>4. CASE Write \/ Close
  BY <1>4 DEF Write, Close, Return, turnVars
<1>5. CASE Readers \/ Cancel \/ Server \/ UNCHANGED vars
  BY <1>5 DEF Readers, ReadLine, StdoutEnds, StderrEnds, Reap, Cancel, Server, callerVars, turnVars, vars
<1> QED BY <1>1, <1>2, <1>3, <1>4, <1>5 DEF Next, Caller

LEMMA InterruptStep ==
  ClientInv /\ CallsGoOn /\ InterruptIsLast /\ [Next]_vars => InterruptIsLast'
<1> SUFFICES ASSUME ClientInv, CallsGoOn, InterruptIsLast, [Next]_vars PROVE InterruptIsLast'
  OBVIOUS
<1> DEFINE Interrupt(l) == l.method = "turn/interrupt"
<1>0. stdin \in Seq(Line)
  BY DEF ClientInv, Types
<1>1. CASE (Calls \/ Await) /\ UNCHANGED serverVars
  <2>1. In(stdin)' = In(stdin)
    BY <1>1 DEF serverVars, In
  <2>2. CASE Calls
    BY <2>1, <2>2 DEF Calls, Start, RunTurn, NoResult, InterruptIsLast, Stopped
  <2>3. CASE Await /\ method # "turn/interrupt"
    BY <2>1, <2>3 DEF Await, AwaitCanceled, AnswerRefused, Initialized, ThreadStarted, TurnStarted,
       InterruptAnswered, Answered, InterruptIsLast, CallsGoOn
  <2>4. CASE Await /\ method = "turn/interrupt"
    BY <2>1, <2>4 DEF Await, AwaitCanceled, ContextEndsRequest, AnswerRefused, Initialized,
       ThreadStarted, TurnStarted, InterruptAnswered, Answered, Return, InterruptIsLast, Stopped
  <2> QED BY <1>1, <2>2, <2>3, <2>4
<1>2. CASE Select /\ UNCHANGED serverVars
  <2>1. In(stdin)' = In(stdin)
    BY <1>2 DEF serverVars, In
  <2>2. caller = "turn"
    BY <1>2 DEF Select, TurnSeesExit, TurnSeesClosedStream, TurnCanceled, TurnNote
  <2> QED BY <2>1, <2>2 DEF InterruptIsLast, CallsGoOn
<1>3. CASE Write
  <2>1. \A l \in In(stdin) : ~Interrupt(l)
    BY <1>3 DEF Write, InterruptIsLast, CallsGoOn
  <2>2. CASE alive
    <3> DEFINE l == [id |-> id, method |-> method, turn |-> turn]
    <3>1. l \in Line /\ l.method = method
      BY <1>3 DEF Line, Methods, Write, ClientInv, Types, TypeOK, Calling, Asking
    <3>2. In(Append(stdin, l)) = In(stdin) \cup {l}
      <4> HIDE DEF l
      <4> QED BY <1>0, <3>1, AppendIn
    <3>3. stdin' = Append(stdin, l) /\ caller' = "await" /\ method' = method
      BY <1>3, <2>2 DEF Write
    <3>4. In(stdin)' = In(stdin) \cup {l}
      BY <3>2, <3>3 DEF In
    <3> HIDE DEF l
    <3> QED BY <2>1, <3>1, <3>3, <3>4 DEF InterruptIsLast
  <2>3. CASE ~alive
    <3>1. In(stdin)' = In(stdin)
      BY <1>3, <2>3 DEF Write, In
    <3> QED BY <2>1, <3>1 DEF InterruptIsLast
  <2> QED BY <2>2, <2>3
<1>4. CASE Close
  <2>1. In(stdin)' = In(stdin) /\ result' = result /\ caller = "idle"
    BY <1>4 DEF Close, turnVars, In
  <2> QED BY <2>1 DEF InterruptIsLast, Stopped
<1>5. CASE Readers \/ Cancel \/ Server \/ UNCHANGED vars
  <2>1. UNCHANGED <<caller, method, result>>
    BY <1>5 DEF Readers, ReadLine, StdoutEnds, StderrEnds, Reap, Cancel, Server, callerVars,
       turnVars, vars
  <2>2. CASE Serve
    BY <2>1, <2>2, RequestServed DEF InterruptIsLast, Stopped
  <2>3. CASE stdin' = stdin
    BY <2>1, <2>3 DEF InterruptIsLast, Stopped, In
  <2>4. Serve \/ stdin' = stdin
    BY <1>5 DEF Readers, ReadLine, StdoutEnds, StderrEnds, Reap, Cancel, Server, Speak, FinishTurn,
       Die, CloseStderr, serverVars, vars
  <2> QED BY <2>2, <2>3, <2>4
<1> QED BY <1>1, <1>2, <1>3, <1>4, <1>5 DEF Next, Caller

LEMMA CanceledStep ==
  /\ ClientInv /\ TurnIsLast /\ OnlyCanceled /\ InterruptIsLast
  /\ [Next]_vars
  => OnlyCanceled'
<1> SUFFICES ASSUME ClientInv, TurnIsLast, OnlyCanceled, InterruptIsLast, [Next]_vars PROVE OnlyCanceled'
  OBVIOUS
<1> USE DEF OnlyCanceled
<1>0. stdin \in Seq(Line) /\ served \in [Turns -> {"none", "running"} \cup Endings]
  BY DEF ClientInv, Types, TypeOK
<1>1. CASE Caller
  <2>1. canceled' = canceled
    BY <1>1 DEF Caller
  <2>2. CASE RunTurn /\ UNCHANGED serverVars
    <3>1. ~Stopped /\ caller = "idle" /\ served' = served /\ In(stdin)' = In(stdin)
      BY <2>2 DEF RunTurn, serverVars, work, In
    <3> QED BY <2>1, <3>1 DEF InterruptIsLast
  <2>3. CASE Write
    <3>1. calls' = calls /\ served' = served
      BY <2>3 DEF Write, work
    <3>2. CASE alive
      <4> DEFINE l == [id |-> id, method |-> method, turn |-> turn]
      <4>1. l \in Line /\ l.method = method /\ l.turn = turn
        BY <2>3 DEF Line, Methods, Write, ClientInv, Types, TypeOK, Calling, Asking
      <4>2. In(Append(stdin, l)) = In(stdin) \cup {l}
        <5> HIDE DEF l
        <5> QED BY <1>0, <4>1, AppendIn
      <4>3. stdin' = Append(stdin, l)
        BY <2>3, <3>2 DEF Write
      <4>4. In(stdin)' = In(stdin) \cup {l}
        BY <4>2, <4>3 DEF In
      <4>5. method = "turn/interrupt" => canceled /\ turn = calls
        BY <2>3 DEF Write, ClientInv, Calling, Asking, TurnIsLast
      <4> HIDE DEF l
      <4> QED BY <2>1, <3>1, <4>1, <4>4, <4>5
    <3>3. CASE ~alive
      <4>1. In(stdin)' = In(stdin)
        BY <2>3, <3>3 DEF Write, In
      <4> QED BY <2>1, <3>1, <4>1
    <3> QED BY <3>2, <3>3
  <2>4. CASE ~RunTurn /\ ~Write
    <3>1. UNCHANGED <<calls, stdin, served>>
      BY <1>1, <2>4 DEF Caller, Calls, Await, Select, Start, Close, AwaitCanceled, AnswerRefused,
         Initialized, ThreadStarted, TurnStarted, InterruptAnswered, TurnSeesExit,
         TurnSeesClosedStream, TurnCanceled, TurnNote, serverVars, work
    <3>2. In(stdin)' = In(stdin)
      BY <3>1 DEF In
    <3> QED BY <2>1, <3>1, <3>2
  <2>5. RunTurn => UNCHANGED serverVars
    BY <1>1 DEF Caller, RunTurn, Request, Await, AwaitCanceled, AnswerRefused, Initialized,
       ThreadStarted, TurnStarted, InterruptAnswered, Answered, Select, TurnSeesExit,
       TurnSeesClosedStream, TurnCanceled, TurnNote, Write, Close, serverVars, work
  <2> QED BY <2>2, <2>3, <2>4, <2>5
<1>2. CASE Readers \/ Cancel \/ (Server /\ (Die \/ CloseStderr)) \/ UNCHANGED vars
  <2>1. UNCHANGED <<calls, stdin, served>> /\ (canceled' = canceled \/ canceled')
    BY <1>2 DEF Server, Readers, ReadLine, StdoutEnds, StderrEnds, Reap, Cancel,
       Die, CloseStderr, callerVars, serverVars, work, vars
  <2>2. In(stdin)' = In(stdin)
    BY <2>1 DEF In
  <2> QED BY <2>1, <2>2
<1>3. CASE Server /\ Serve
  <2>1. UNCHANGED <<calls, canceled>>
    BY <1>3 DEF Server, callerVars
  <2>2. In(stdin) = In(stdin)' \cup {Head(stdin)}
    BY <1>3, RequestServed
  <2>3. \A t \in Turns : served'[t] = "interrupted" => canceled
    BY <1>0, <1>3, <2>2 DEF Serve, work
  <2> QED BY <2>1, <2>2, <2>3
<1>4. CASE Server /\ \E t \in Turns : Speak(t) \/ FinishTurn(t)
  <2>1. UNCHANGED <<calls, canceled, stdin>>
    BY <1>4 DEF Server, callerVars, Speak, FinishTurn
  <2>2. In(stdin)' = In(stdin)
    BY <2>1 DEF In
  <2>3. \A t \in Turns : served'[t] = "interrupted" => canceled
    BY <1>0, <1>4 DEF Speak, FinishTurn
  <2> QED BY <2>1, <2>2, <2>3
<1> QED BY <1>1, <1>2, <1>3, <1>4 DEF Next, Server

LEMMA RunnerInvariant == Spec => [](ClientInv /\ RunnerInv)
<1>1. ClientInv /\ RunnerInv /\ [Next]_vars => RunnerInv'
  BY StreamsStep, TurnIsLastStep, CanceledStep, CallsGoOnStep, InterruptStep DEF RunnerInv
<1> QED BY <1>1, RunnerInit, ClientInvariant, InvInit, InvStep, PTL DEF Spec

LEMMA StageIs ==
  /\ caller \in {"idle", "closed"} => Stage = caller
  /\ caller = "turn" => Stage = "turn"
  /\ Asking /\ method \in {"initialize", "thread/start"} => Stage = "opening"
  /\ Asking /\ method \in {"turn/start", "turn/interrupt"} => Stage = "turn"
BY DEF Stage, Asking

(* Every return of a call is one of those the contract allows.  What the    *)
(* outcome says of the turn is Justified.                                   *)
Justified(o) ==
    \/ o \in {"completed", "failed"} /\ served[calls] = o
    \/ o = "interrupted" /\ canceled /\ (alive => served[calls] \in Endings)
    \/ o = "error" /\ (~alive \/ served[calls] = "none")
    \/ o = "canceled" /\ canceled

UnseenByRunner == UNCHANGED <<thread, calls, canceled, AgentState, served>>

LEMMA SameAgent ==
  ASSUME UNCHANGED <<alive, stderr, stderrReader, readErr>> PROVE AgentState' = AgentState
BY DEF AgentState

LEMMA TurnReturns ==
  ASSUME NEW o, Return(o), UnseenByRunner, Stage = "turn", Justified(o), alive \in BOOLEAN
  PROVE  Runner!Next
<1>1. Stage' = "idle" /\ result'.outcome = o
  BY DEF Return, Stage
<1>2. UNCHANGED <<thread, calls, canceled, AgentState, served>>
  BY DEF UnseenByRunner
<1>3. Runner!Return(o)
  BY <1>1, <1>2 DEF Runner!Return
<1>a. ~alive <=> AgentState = "down"
  BY DEF AgentState
<1>4. CASE o \in {"completed", "failed"} /\ served[calls] = o
  BY <1>2, <1>3, <1>4 DEF Runner!TurnEnds, Runner!Caller, Runner!Next
<1>5. CASE o = "interrupted" /\ canceled /\ (alive => served[calls] \in Endings)
  BY <1>a, <1>2, <1>3, <1>5 DEF Runner!TurnStops, Runner!Caller, Runner!Next, Endings
<1>6. CASE o = "error" /\ (~alive \/ served[calls] = "none")
  BY <1>a, <1>2, <1>3, <1>6 DEF Runner!TurnFails, Runner!Caller, Runner!Next
<1>7. CASE o = "canceled" /\ canceled
  BY <1>2, <1>3, <1>7 DEF Runner!TurnCanceled, Runner!Caller, Runner!Next
<1> QED BY <1>4, <1>5, <1>6, <1>7 DEF Justified

LEMMA OpeningReturns ==
  ASSUME NEW o, Return(o), UnseenByRunner, Stage = "opening",
         o = "error" \/ (o = "canceled" /\ canceled)
  PROVE  Runner!Next
<1>1. Stage' = "idle" /\ result'.outcome = o
  BY DEF Return, Stage
<1>2. UNCHANGED <<thread, calls, canceled, AgentState, served>>
  BY DEF UnseenByRunner
<1> QED BY <1>1, <1>2 DEF Runner!Return, Runner!OpenFails, Runner!Caller, Runner!Next

LEMMA RunnerStutters ==
  ASSUME UnseenByRunner, result' = result, Stage' = Stage
  PROVE  UNCHANGED Runner!runnerVars
BY DEF UnseenByRunner, Runner!runnerVars

(* The end of stderr on a living server is told to one turn. *)
LEMMA MuteIsTold ==
  ASSUME Return("error"), Stage = "turn", alive, stderr = "closed", stderrReader = "stopped",
         readErr, ~readErr', UNCHANGED <<thread, calls, canceled, alive, stderr, stderrReader, served>>
  PROVE  Runner!Next
<1>1. Stage' = "idle" /\ result'.outcome = "error"
  BY DEF Return, Stage
<1>2. AgentState = "mute" /\ AgentState' = "known"
  BY DEF AgentState
<1> QED BY <1>1, <1>2 DEF Runner!Return, Runner!TurnFails, Runner!Caller, Runner!Next

Stutter == UNCHANGED Runner!runnerVars
RunnerStep == Runner!Next \/ Stutter

LEMMA Started ==
  ASSUME ClientInv, Start \/ RunTurn, UNCHANGED Still
  PROVE  RunnerStep
<1>1. UNCHANGED <<canceled, AgentState, served>>
  BY SameAgent DEF Still, serverVars, work, readers, errVars
<1>2. CASE Start
  <2>1. Stage = "idle" /\ Stage' = "opening" /\ UNCHANGED <<thread, calls, result>>
    BY <1>2 DEF Start, Request, Stage, turnVars
  <2> QED BY <1>1, <1>2, <2>1 DEF RunnerStep, Runner!Next, Runner!Caller, Runner!Open, Runner!MayOpen, Start, NoResult
<1>3. CASE RunTurn
  <2>1. Stage = "idle" /\ Stage' = "turn" /\ UNCHANGED <<thread, result>>
    BY <1>3 DEF RunTurn, Request, Stage
  <2> QED BY <1>1, <1>3, <2>1 DEF RunnerStep, Runner!Next, Runner!Caller, Runner!Call, Runner!MayCall, RunTurn, Stopped
<1> QED BY <1>2, <1>3

(* An answer, or the cancellation while it is awaited. *)
LEMMA Awaited ==
  ASSUME ClientInv, RunnerInv, Await, UNCHANGED Still
  PROVE  RunnerStep
<1>0. UNCHANGED <<calls, canceled, AgentState, served>> /\ caller = "await" /\ Asking
      /\ alive \in BOOLEAN
  BY SameAgent DEF Still, serverVars, work, readers, errVars, ClientInv, Types, TypeOK, Await, AwaitCanceled, AnswerRefused, Initialized, ThreadStarted,
     TurnStarted, InterruptAnswered, Answered, Asking
<1>1. \A r \in answers : r \in Envelopes
  BY DEF Envelopes
<1>2. /\ method \in Methods
      /\ method = "turn/interrupt" => canceled /\ turn = calls
      /\ method \in {"initialize", "thread/start"} => Stage = "opening"
      /\ method \in {"turn/start", "turn/interrupt"} => Stage = "turn"
  BY <1>0, StageIs DEF ClientInv, Types, TypeOK, Calling, Methods, RunnerInv, TurnIsLast
<1>3. CASE AwaitCanceled
  <2>1. Return("canceled") /\ UnseenByRunner /\ canceled
    BY <1>0, <1>3 DEF AwaitCanceled, ContextEndsRequest, UnseenByRunner
  <2> QED BY <1>0, <1>2, <2>1, TurnReturns, OpeningReturns DEF Justified, Methods, RunnerStep
<1>4. CASE AnswerRefused
  <2>0. UnseenByRunner
    BY <1>0, <1>4 DEF AnswerRefused, UnseenByRunner
  <2>1. CASE Answered("turn/interrupt", FALSE) /\ Return("interrupted")
    <3>1. served[calls] \in Endings
      BY <1>1, <1>2, <2>1 DEF Answered, ClientInv, AnswersTell
    <3> QED BY <1>0, <1>2, <2>0, <2>1, <3>1, TurnReturns DEF Answered, Justified, RunnerStep
  <2>2. CASE Answered("turn/start", FALSE) /\ Return("error")
    <3>1. served[calls] = "none"
      BY <1>1, <2>2 DEF Answered, ClientInv, AnswersTell
    <3> QED BY <1>0, <1>2, <2>0, <2>2, <3>1, TurnReturns DEF Answered, Justified, RunnerStep
  <2>3. CASE (Answered("initialize", FALSE) \/ Answered("thread/start", FALSE)) /\ Return("error")
    BY <1>2, <2>0, <2>3, OpeningReturns DEF Answered, RunnerStep
  <2> QED BY <1>4, <2>1, <2>2, <2>3 DEF AnswerRefused
<1>5. CASE Initialized
  <2>1. Stage = "opening" /\ UnseenByRunner
    BY <1>0, <1>2, <1>5 DEF Initialized, Answered, UnseenByRunner
  <2>2. CASE Return("error")
    BY <2>1, <2>2, OpeningReturns DEF RunnerStep
  <2>3. CASE Request("thread/start") /\ UNCHANGED turnVars
    BY <2>1, <2>3, RunnerStutters DEF Request, Stage, turnVars, RunnerStep, Stutter
  <2> QED BY <1>5, <2>2, <2>3 DEF Initialized
<1>6. CASE ThreadStarted
  <2>1. Stage = "opening" /\ Stage' = "idle" /\ thread' = TRUE /\ result' = result
    BY <1>2, <1>6 DEF ThreadStarted, Answered, Stage, turnVars
  <2> QED BY <1>0, <2>1 DEF RunnerStep, Runner!Next, Runner!Caller, Runner!Opened
<1>7. CASE TurnStarted
  <2>1. Stage = "turn" /\ Stage' = "turn" /\ result' = result /\ UnseenByRunner
    BY <1>0, <1>2, <1>7 DEF TurnStarted, Answered, Stage, UnseenByRunner
  <2> QED BY <2>1, RunnerStutters DEF RunnerStep, Stutter
<1>8. CASE InterruptAnswered
  <2>1. Answered("turn/interrupt", TRUE) /\ Return("interrupted") /\ UnseenByRunner
    BY <1>0, <1>8 DEF InterruptAnswered, UnseenByRunner
  <2>2. served[calls] \in Endings
    BY <1>1, <1>2, <2>1 DEF Answered, ClientInv, AnswersTell
  <2> QED BY <1>0, <1>2, <2>1, <2>2, TurnReturns DEF Answered, Justified, RunnerStep
<1> QED BY <1>3, <1>4, <1>5, <1>6, <1>7, <1>8 DEF Await

(* The select: the end of the process or of a stream, the cancellation, or  *)
(* a notification.                                                          *)
LEMMA Selected ==
  ASSUME ClientInv, RunnerInv, Select, UNCHANGED <<serverVars, canceled, stderrReader>>
  PROVE  RunnerStep
<1>0. caller = "turn" /\ Stage = "turn" /\ turn = calls /\ turn \in Turns
  BY StageIs DEF Select, TurnSeesExit, TurnSeesClosedStream, TurnCanceled, TurnNote, ClientInv,
     Types, TypeOK, Calling, Turns
<1>a. UNCHANGED <<thread, calls, canceled, alive, stderr, stderrReader, served>> /\ alive \in BOOLEAN
  BY DEF Select, TurnSeesExit, TurnSeesClosedStream, TurnCanceled, TurnNote, serverVars, work,
     ClientInv, Types, TypeOK
<1>1. readErr' = readErr \/ ~alive => UnseenByRunner
  <2>1. CASE readErr' = readErr
    BY <1>a, <2>1, SameAgent DEF UnseenByRunner
  <2>2. CASE ~alive
    BY <1>a, <2>2 DEF UnseenByRunner, AgentState
  <2> QED BY <2>1, <2>2
<1>2. CASE TurnSeesExit \/ TurnSeesClosedStream
  <2>1. CASE ~alive
    BY <1>0, <1>1, <1>a, <1>2, <2>1, TurnReturns DEF TurnSeesExit, TurnSeesClosedStream, Justified, RunnerStep
  <2>2. CASE alive
    <3>1. TurnSeesClosedStream /\ stderrReader = "stopped" /\ stderr = "closed"
      BY <1>2, <2>2 DEF TurnSeesExit, TurnSeesClosedStream, RunnerInv, StreamsEnd
    <3> QED BY <1>0, <1>a, <2>2, <3>1, MuteIsTold DEF TurnSeesClosedStream, RunnerStep
  <2> QED BY <2>1, <2>2
<1>3. CASE TurnCanceled
  <2>0. UnseenByRunner
    BY <1>1, <1>3 DEF TurnCanceled, errVars
  <2>1. Stage' = "turn" /\ result' = result
    BY <1>3 DEF TurnCanceled, Request, Stage, turnVars
  <2> QED BY <1>0, <2>0, <2>1, RunnerStutters DEF RunnerStep, Stutter
<1>4. CASE TurnNote
  <2> DEFINE n == Head(notes)
  <2>0. UnseenByRunner
    BY <1>1, <1>4 DEF TurnNote, errVars
  <2>1. n \in InFlight /\ n \in Note
    BY <1>4, TailIn DEF TurnNote, ClientInv, Types, InFlight
  <2>2. CASE EndsTurn(n) /\ Return(n.kind)
    <3>0. n.turn \in Turns
      BY <2>1 DEF Note
    <3>1. n.kind \in Endings /\ served[calls] = n.kind
      BY <1>0, <2>1, <2>2, <3>0 DEF EndsTurn, Turns, ClientInv, NotesTell
    <3>2. n.kind = "interrupted" => canceled
      BY <1>0, <3>1 DEF RunnerInv, OnlyCanceled
    <3>3. Justified(n.kind)
      BY <3>1, <3>2 DEF Justified, Endings
    <3> QED BY <1>0, <1>a, <2>0, <2>2, <3>3, TurnReturns DEF RunnerStep
  <2>3. CASE UNCHANGED <<caller, result>>
    <3>1. Stage' = Stage /\ result' = result
      BY <1>0, <2>3 DEF Stage
    <3> QED BY <2>0, <3>1, RunnerStutters DEF RunnerStep, Stutter
  <2> QED BY <1>4, <2>2, <2>3 DEF TurnNote, turnVars
<1> QED BY <1>2, <1>3, <1>4 DEF Select

LEMMA Written ==
  ASSUME ClientInv, RunnerInv, Write, UNCHANGED <<canceled, readers, errVars>>
  PROVE  RunnerStep
<1>0. Asking /\ UnseenByRunner /\ method \in Methods /\ alive \in BOOLEAN
  BY SameAgent DEF Write, Asking, UnseenByRunner, work, readers, errVars, ClientInv, Types, TypeOK,
     Calling, Methods
<1>1. CASE alive
  <2>1. Stage' = Stage /\ result' = result
    BY <1>1 DEF Write, Stage, turnVars
  <2> QED BY <1>0, <2>1, RunnerStutters DEF RunnerStep, Stutter
<1>2. CASE ~alive
  <2>1. CASE method = "turn/interrupt"
    <3>1. Stage = "turn" /\ canceled /\ Return("interrupted")
      BY <1>0, <1>2, <2>1, StageIs DEF Write, ClientInv, Calling
    <3> QED BY <1>0, <1>2, <3>1, TurnReturns DEF Justified, RunnerStep
  <2>2. CASE method # "turn/interrupt"
    <3>1. Return("error") /\ Stage \in {"opening", "turn"}
      BY <1>0, <1>2, <2>2, StageIs DEF Write, Methods
    <3> QED BY <1>0, <1>2, <3>1, TurnReturns, OpeningReturns DEF Justified, RunnerStep
  <2> QED BY <2>1, <2>2
<1> QED BY <1>1, <1>2

LEMMA CallerRefines == ASSUME ClientInv, RunnerInv, Caller PROVE RunnerStep
<1>1. CASE (Calls \/ Await) /\ UNCHANGED <<notes, errVars, serverVars>>
  <2>1. UNCHANGED Still
    BY <1>1 DEF Caller, Still
  <2> QED BY <1>1, <2>1, Started, Awaited DEF Calls
<1>2. CASE Select /\ UNCHANGED serverVars
  BY <1>2, Selected DEF Caller, readers
<1>3. CASE Write /\ UNCHANGED errVars
  BY <1>3, Written DEF Caller
<1>4. CASE Close
  <2>1. Stage = "idle" /\ Stage' = "closed" /\ AgentState' = "down"
    BY <1>4 DEF Close, Stage, AgentState
  <2>2. UNCHANGED <<thread, calls, result, canceled, served>>
    BY <1>4 DEF Close, Caller, turnVars, work
  <2> QED BY <2>1, <2>2 DEF RunnerStep, Runner!Next, Runner!Caller, Runner!Close
<1> QED BY <1>1, <1>2, <1>3, <1>4 DEF Caller

LEMMA ServerRefines == ASSUME ClientInv, RunnerInv, Server PROVE RunnerStep
<1>0. UNCHANGED <<Stage, thread, calls, result, canceled>>
  BY DEF Server, callerVars, turnVars, Stage
<1>a. UNCHANGED <<stderrReader, readErr>>
  BY DEF Server, readers, errVars
<1>1. CASE Die \/ CloseStderr
  <2>1. \/ AgentState = "up" /\ AgentState' \in {"mute", "down"}
        \/ AgentState \in {"mute", "known"} /\ AgentState' = "down"
        \/ AgentState' = AgentState
    BY <1>1, <1>a DEF Die, CloseStderr, AgentState, ClientInv, Types, TypeOK, RunnerInv, StreamsEnd
  <2>2. served' = served
    BY <1>1 DEF Die, CloseStderr, work
  <2> QED BY <1>0, <2>1, <2>2 DEF RunnerStep, Stutter, Runner!runnerVars, Runner!Next,
             Runner!Agent, Runner!AgentFails
<1>2. CASE \E t \in Turns : Speak(t) \/ FinishTurn(t)
  <2>1. PICK t \in Turns : Speak(t) \/ FinishTurn(t)
    BY <1>2
  <2>2. AgentState' = AgentState /\ AgentState # "down"
    BY <1>a, <2>1 DEF Speak, FinishTurn, AgentState
  <2>3. CASE served' = served
    BY <1>0, <2>2, <2>3 DEF RunnerStep, Stutter, Runner!runnerVars
  <2>4. CASE FinishTurn(t)
    <3>1. PICK k \in {"completed", "failed"} : served' = [served EXCEPT ![t] = k]
      BY <2>4 DEF FinishTurn
    <3>2. Runner!Works(t, k) /\ served[t] = "running"
      BY <1>0, <2>2, <2>4, <3>1 DEF Runner!Works, FinishTurn, Running
    <3>3. Runner!TurnFinishes(t) /\ t \in Runner!Turns
      BY <3>2 DEF Runner!TurnFinishes, Runner!Turns, Turns
    <3> QED BY <3>3 DEF RunnerStep, Runner!Next, Runner!Agent
  <2> QED BY <2>1, <2>3, <2>4 DEF Speak
<1>3. CASE Serve
  <2> DEFINE r == Head(stdin)
  <2>1. r \in In(stdin) /\ r \in Line
    BY <1>3, TailIn DEF Serve, ClientInv, Types
  <2>2. AgentState' = AgentState /\ AgentState # "down" /\ alive
    BY <1>a, <1>3 DEF Serve, AgentState
  <2>3. CASE served' = served
    BY <1>0, <2>2, <2>3 DEF RunnerStep, Stutter, Runner!runnerVars
  <2>4. CASE r.method = "turn/start" /\ served' = [served EXCEPT ![calls] = "running"]
    <3>1. r.id = id /\ calls # 0 /\ served[calls] = "none" /\ calls \in 0 .. MaxTurns
      BY <2>1, <2>4 DEF ClientInv, Requested, Starting, Types, TypeOK
    <3>2. calls \in Turns /\ calls \in Runner!Turns
      BY <3>1, ClientAssumption DEF Turns, Runner!Turns
    <3>3. caller # "turn" /\ caller # "closed"
      BY <2>2, <3>1 DEF ClientInv, Calling, RunnerInv, StreamsEnd
    <3>4. caller \in {"write", "await"} => method = "turn/start"
      BY <2>1, <2>4, <3>1 DEF ClientInv, Requested, Types, TypeOK
    <3>5. Stage = "turn" \/ result.outcome = "canceled"
      BY <2>1, <2>4, <3>3, <3>4, StageIs DEF ClientInv, Calling, Starting, Types, TypeOK, Asking
    <3>6. Runner!TurnBegins
      BY <1>0, <2>2, <2>4, <3>1, <3>2, <3>5 DEF Runner!TurnBegins, Runner!Works
    <3> QED BY <3>6 DEF RunnerStep, Runner!Next, Runner!Agent
  <2>5. CASE /\ r.method = "turn/interrupt" /\ Running(r.turn)
             /\ served' = [served EXCEPT ![r.turn] = "interrupted"]
    <3>1. r.turn = calls /\ canceled /\ r.turn # 0 /\ calls \in 0 .. MaxTurns
      BY <2>1, <2>5 DEF ClientInv, Requested, RunnerInv, OnlyCanceled, Types, TypeOK
    <3>2. calls \in Runner!Turns
      BY <3>1, ClientAssumption DEF Runner!Turns
    <3>3. Runner!TurnInterrupted
      BY <1>0, <2>2, <2>5, <3>1, <3>2 DEF Runner!TurnInterrupted, Runner!Works, Running
    <3> QED BY <3>3 DEF RunnerStep, Runner!Next, Runner!Agent
  <2>6. CASE r.method = "turn/interrupt" /\ ~Running(r.turn) /\ served' = [served EXCEPT ![r.turn] = @]
    <3>1. served' = served
      BY <2>6 DEF ClientInv, Types, TypeOK
    <3> QED BY <2>3, <3>1
  <2> QED BY <1>3, <2>3, <2>4, <2>5, <2>6 DEF Serve, work
<1> QED BY <1>1, <1>2, <1>3 DEF Server

(* The client implements the runner the engine relies on: for any number    *)
(* of turns, every capacity and every fault, no call begins before the one  *)
(* before has returned, the server begins no turn that was not asked for,   *)
(* and no outcome says of a turn what is not so.                            *)
THEOREM RunnerCorrect == Spec => ClientIsRunner
<1>1. Init => Runner!Init
  BY DEF Init, NoResult, Stage, AgentState, Runner!Init, Runner!Turns, Turns
<1>2. ClientInv /\ RunnerInv /\ [Next]_vars => [Runner!Next]_Runner!runnerVars
  <2> SUFFICES ASSUME ClientInv, RunnerInv, [Next]_vars PROVE RunnerStep
    BY DEF RunnerStep, Stutter
  <2>1. CASE Caller
    BY <2>1, CallerRefines
  <2>2. CASE Server
    BY <2>2, ServerRefines
  <2>3. CASE Cancel
    <3>1. UNCHANGED <<Stage, thread, calls, result, AgentState, served>>
      BY <2>3 DEF Cancel, callerVars, turnVars, serverVars, work, readers, errVars, Stage, AgentState
    <3>2. Stage # "closed"
      BY <2>3, StageIs DEF Cancel, Stage
    <3> QED BY <2>3, <3>1, <3>2 DEF Cancel, RunnerStep, Runner!Next, Runner!Cancel
  <2>4. CASE Readers \/ UNCHANGED vars
    <3>1. UNCHANGED <<caller, method, thread, calls, result, canceled, alive, stderr, served>>
      BY <2>4 DEF Readers, ReadLine, StdoutEnds, StderrEnds, Reap, callerVars, turnVars,
         serverVars, work, vars
    <3>2. AgentState' = AgentState
      <4>1. CASE UNCHANGED <<stderrReader, readErr>>
        BY <3>1, <4>1, SameAgent
      <4>2. CASE StdoutEnds
        BY <3>1, <4>2 DEF StdoutEnds, AgentState
      <4>3. CASE StderrEnds
        BY <3>1, <4>3 DEF StderrEnds, AgentState
      <4> QED BY <2>4, <4>1, <4>2, <4>3 DEF Readers, ReadLine, Reap, readers, errVars, vars
    <3>3. UnseenByRunner /\ Stage' = Stage
      BY <3>1, <3>2 DEF UnseenByRunner, Stage
    <3> QED BY <3>1, <3>3, RunnerStutters DEF RunnerStep, Stutter
  <2> QED BY <2>1, <2>2, <2>3, <2>4 DEF Next
<1> QED BY <1>1, <1>2, RunnerInvariant, PTL DEF Spec, ClientIsRunner, Runner!Spec
=============================================================================
