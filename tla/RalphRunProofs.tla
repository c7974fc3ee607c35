--------------------------- MODULE RalphRunProofs ---------------------------
(* The commands of ralph-loop on one branch, for any number of commands and *)
(* every turn limit: sessions, worktree and the order of the phases.        *)
EXTENDS RalphRun, SequenceTheorems, TLAPS

(* No command begins more coding turns than its limit. *)
Counted == iterations \in [Runs -> Nat] /\ \A r \in Runs : iterations[r] <= req[r].limit

USE DEF Counted

Before == {"idle", "stash", "look", "add", "install", "register"}
Working == {"connect", "loop", "turn", "leave", "hung"}

(* Where a command is tells its phase and which calls it has deferred. *)
Placed(r) ==
    /\ pc[r] \in Before \cup {"gone", "recycled"} => phase[r] = "none"
    /\ pc[r] \in Before => iterations[r] = 0
    /\ pc[r] \in Working => /\ phase[r] \in {"setup", "coding", "pr"}
                            /\ defers[r] = Deferred(r)
    /\ pc[r] \in {"loop", "leave"} => phase[r] = "coding"
    /\ pc[r] \in {"look", "add"} => ~req[r].linked
    /\ defers[r] = <<"session", "worktree">> => ~req[r].preserve

(* The record is of a command that still has to remove it, or never will. *)
Owned(r) == session = r => 
    pc[r] \in {"gone", "recycled"} \/ defers[r] # <<>> \/ "session" \in hitches[r]

Kept(r) == req[r].preserve \/ req[r].linked

(* What a command that shares the worktree with none relies on. *)
Undisturbed(r) ==
    /\ pc[r] \in Working => session = r
    /\ pc[r] \in Working \cup {"register"} => tree = "checkout"
    /\ pc[r] = "cleanup" /\ phase[r] # "none" =>
         IF defers[r] = <<"session", "worktree">> THEN tree = "checkout"
         ELSE IF Kept(r) THEN tree = "checkout"
         ELSE "worktree" \notin hitches[r] => tree # "checkout"
    /\ pc[r] \in {"install", "register"} /\ req[r].linked => ~dirty
    /\ pc[r] = "connect" /\ phase[r] = "setup" /\ req[r].linked => ~dirty

Meets(r) == \A s \in Runs : s # r /\ Active(r) /\ Active(s) => company[r]

(* A coding turn was begun, if the limit allows any. *)
Coded(r) == iterations[r] > 0 \/ req[r].limit = 0

(* The coding loop is left with the promise, or with its turns used up. *)
Promises(r) ==
    /\ pc[r] = "leave" => promised[r] \/ iterations[r] >= req[r].limit
    /\ pc[r] = "turn" /\ phase[r] = "coding" => iterations[r] > 0
    /\ pc[r] = "leave" => Coded(r)
    /\ phase[r] = "pr" /\ pc[r] \in {"connect", "turn"} => promised[r] /\ Coded(r)

Own(r) == Placed(r) /\ Owned(r) /\ Promises(r) /\ (company[r] \/ Undisturbed(r))

RunInv(r) == Own(r) /\ Meets(r)

RalphInv == TypeOK /\ \A r \in Runs : RunInv(r)

-----------------------------------------------------------------------------
LEMMA Deferrals ==
  /\ <<>> # <<"session">> /\ <<"session">> # <<"session", "worktree">>
  /\ <<>> # <<"session", "worktree">>
  /\ Front(<<"session", "worktree">>) = <<"session">> /\ Last(<<"session", "worktree">>) = "worktree"
  /\ Front(<<"session">>) = <<>> /\ Last(<<"session">>) = "session"
<1>1. Len(<<"session", "worktree">>) = 2 /\ Len(<<"session">>) = 1 /\ Len(<<>>) = 0
  OBVIOUS
<1>2. /\ <<>> # <<"session">> /\ <<"session">> # <<"session", "worktree">>
      /\ <<>> # <<"session", "worktree">>
  BY <1>1
<1>3. Last(<<"session", "worktree">>) = "worktree" /\ Last(<<"session">>) = "session"
  BY <1>1 DEF Last
<1>4. Front(<<"session", "worktree">>) = <<"session">>
  <2> DEFINE w == <<"session", "worktree">>
             f == SubSeq(w, 1, 1)
             t == <<"session">>
  <2>1. Len(w) = 2 /\ w[1] = "session" /\ t \in Seq({"session"}) /\ Len(t) = 1 /\ t[1] = "session"
    OBVIOUS
  <2> HIDE DEF w, t
  <2>2. \A i \in 1 .. 1 : w[i] \in {"session"}
    BY <2>1
  <2>3. f \in Seq({"session"}) /\ Len(f) = 1 /\ f[1] = w[1]
    BY <2>2, SubSeqProperties
  <2> HIDE DEF f
  <2>4. f = t
    BY <2>1, <2>3, SeqEqual
  <2>5. Front(w) = f
    BY <2>1 DEF Front, f
  <2> QED BY <2>4, <2>5 DEF w, t
<1>5. Front(<<"session">>) = <<>>
  <2>1. SubSeq(<<"session">>, 1, 0) = <<>>
    OBVIOUS
  <2>2. Front(<<"session">>) = SubSeq(<<"session">>, 1, 0)
    BY <1>1 DEF Front
  <2> QED BY <2>1, <2>2
<1> QED BY <1>2, <1>3, <1>4, <1>5

(* What a request holds, once the parser took it. *)
LEMMA RequestFacts ==
  /\ NoRequest \in Requests
  /\ \A q \in Requests : q.limit \in Nat /\ q.linked \in BOOLEAN /\ q.preserve \in BOOLEAN
<1>1. NoRequest.limit = 0 /\ NoRequest.linked = FALSE /\ NoRequest.preserve = FALSE
  BY DEF NoRequest
<1>2. LET n == [NoRequest EXCEPT !.linked = TRUE] IN
        n.limit = 0 /\ n.linked = TRUE /\ n.preserve = FALSE
  BY DEF NoRequest
<1>3. \A q \in [kind : {"main"}, linked : BOOLEAN, preserve : BOOLEAN, limit : Limits] :
        q.limit \in Nat /\ q.linked \in BOOLEAN /\ q.preserve \in BOOLEAN
  BY RalphAssumption
<1>4. ASSUME NEW q \in Requests PROVE q.limit \in Nat /\ q.linked \in BOOLEAN /\ q.preserve \in BOOLEAN
  <2>1. CASE q = NoRequest
    BY <2>1 DEF NoRequest
  <2>2. CASE q = [NoRequest EXCEPT !.linked = TRUE]
    BY <2>2 DEF NoRequest
  <2> QED BY <1>3, <2>1, <2>2 DEF Requests
<1> QED BY <1>4 DEF Requests

LEMMA InvInit == Init => RalphInv
<1> SUFFICES ASSUME Init PROVE RalphInv
  OBVIOUS
<1>1. TypeOK
  <2>1. NoRequest.limit = 0
    BY DEF NoRequest
  <2>2. req \in [Runs -> Requests] /\ Counted
    BY <2>1, RequestFacts DEF Init
  <2>3. hitches \in [Runs -> SUBSET {"session", "worktree"}]
    BY DEF Init
  <2> QED BY <2>2, <2>3, RalphAssumption DEF Init, TypeOK
<1>2. ASSUME NEW r \in Runs PROVE RunInv(r)
  BY RalphAssumption DEF Init, RunInv, Own, Placed, Owned, Meets, Promises, Undisturbed, Active, Working
<1> QED BY <1>1, <1>2 DEF RalphInv

(* A step of r alone leaves every other command what it relies on: one that *)
(* works at the same time has company, and relies on nothing but itself.    *)
OnlyOf(r) ==
    /\ \A s \in Runs \ {r} :
         /\ pc'[s] = pc[s] /\ phase'[s] = phase[s] /\ defers'[s] = defers[s]
         /\ req'[s] = req[s] /\ company'[s] = company[s]
         /\ iterations'[s] = iterations[s] /\ promised'[s] = promised[s]
         /\ hitches'[s] = hitches[s]
    /\ session' \in {session, NoRun, r}

LEMMA OthersKeep ==
  ASSUME RalphInv, NEW r \in Runs, Active(r), OnlyOf(r), TypeOK', Own(r)',
         company'[r] = company[r] \/ ~Active(r)'
  PROVE  RalphInv'
<1>1. Meets(r)'
  BY DEF RalphInv, RunInv, Meets, OnlyOf, Active
<1> SUFFICES ASSUME NEW s \in Runs \ {r} PROVE RunInv(s)'
  BY <1>1 DEF RalphInv, RunInv
<1>2. RunInv(s)
  BY DEF RalphInv
<1>3. Placed(s)'
  BY <1>2 DEF RunInv, Own, Placed, OnlyOf, Deferred
<1>4. Owned(s)'
  BY <1>2, RalphAssumption DEF RunInv, Own, Owned, OnlyOf
<1>5. Meets(s)'
  BY <1>2 DEF RunInv, Meets, OnlyOf, Active
<1>6. Promises(s)'
  BY <1>2 DEF RunInv, Own, Promises, Coded, OnlyOf
<1>7. (company[s] \/ Undisturbed(s))'
  <2>1. CASE Active(s)
    BY <1>2, <2>1 DEF RunInv, Meets, OnlyOf
  <2>2. CASE ~Active(s)
    BY <2>2 DEF Undisturbed, OnlyOf, Active, Working
  <2> QED BY <2>1, <2>2
<1> QED BY <1>3, <1>4, <1>5, <1>6, <1>7 DEF RunInv, Own

(* The return of a command, wherever it comes from: its deferred calls are  *)
(* still to run, and find the worktree as it was.                           *)
LEMMA ReturnKeeps ==
  ASSUME RalphInv, NEW r \in Runs, Return(r), pc[r] \in (Before \ {"idle"}) \cup Working,
         NEW p \in {"none", "setup", "coding", "pr", "done"},
         p = phase[r] \/ (pc[r] \in Working /\ p = "done"),
         phase' = [phase EXCEPT ![r] = p],
         pc[r] \in Working => UNCHANGED tree,
         tree' \in {"absent", "checkout", "leftover"}, dirty' \in BOOLEAN,
         UNCHANGED <<session, defers, req, company, hitches>>
  PROVE  RalphInv'
<1>1. TypeOK /\ Own(r) /\ Active(r)
  BY DEF RalphInv, RunInv, Active, Before, Working
<1>2. /\ pc' = [pc EXCEPT ![r] = "cleanup"] /\ iterations' = [iterations EXCEPT ![r] = 0]
      /\ failed' = [failed EXCEPT ![r] = FALSE] /\ promised' = [promised EXCEPT ![r] = FALSE]
  BY DEF Return, Go
<1>3. pc'[r] = "cleanup" /\ phase'[r] = p
  BY <1>1, <1>2 DEF TypeOK
<1>4. TypeOK'
  <2>1. \A s \in Runs : phase'[s] = "none" => defers'[s] = <<>>
    BY <1>1, <1>3 DEF TypeOK, Own, Placed, Before, Working
  <2>2. Counted'
    <3>1. \A s \in Runs : req[s].limit \in Nat
      BY <1>1, RequestFacts DEF TypeOK
    <3> QED BY <1>1, <1>2, <3>1 DEF TypeOK
  <2> QED BY <1>1, <1>2, <2>1, <2>2 DEF TypeOK
<1>5. OnlyOf(r)
  BY <1>1, <1>2, <1>3 DEF OnlyOf, TypeOK
<1>6. Own(r)'
  <2>1. Placed(r)'
    BY <1>1, <1>3 DEF Own, Placed, Before, Working
  <2>2. Owned(r)'
    BY <1>1, <1>3 DEF Own, Owned, Before, Working
  <2>3. Promises(r)'
    BY <1>3 DEF Promises, Coded
  <2>4. ASSUME ~company'[r] PROVE Undisturbed(r)'
    <3>1. CASE pc[r] \in Working
      <4>1. tree = "checkout" /\ UNCHANGED tree /\ defers[r] = Deferred(r)
        BY <1>1, <2>4, <3>1 DEF Own, Undisturbed, Placed
      <4> QED BY <1>3, <4>1 DEF Undisturbed, Deferred, Kept, Working
    <3>2. CASE pc[r] \in Before
      <4>1. phase'[r] = "none"
        BY <1>1, <1>3, <3>2 DEF Own, Placed, Before, Working
      <4> QED BY <1>3, <4>1 DEF Undisturbed, Working
    <3> QED BY <3>1, <3>2
  <2> QED BY <2>1, <2>2, <2>3, <2>4 DEF Own
<1> QED BY <1>1, <1>4, <1>5, <1>6, OthersKeep

LEMMA FailsKeeps ==
  ASSUME RalphInv, NEW r \in Runs, Fails(r), pc[r] \in (Before \ {"idle"}) \cup Working,
         UNCHANGED <<req, company, hitches>>
  PROVE  RalphInv'
<1>1. phase[r] \in {"none", "setup", "coding", "pr", "done"} /\ phase = [phase EXCEPT ![r] = phase[r]]
      /\ tree \in {"absent", "checkout", "leftover"} /\ dirty \in BOOLEAN
  BY DEF RalphInv, TypeOK
<1>2. Return(r) /\ UNCHANGED <<tree, dirty, session, phase, defers>>
  BY DEF Fails, files
<1> QED BY <1>1, <1>2, ReturnKeeps

(* Steps to another place of the command: what the place asks for is there. *)
LEMMA GoKeeps ==
  ASSUME RalphInv, NEW r \in Runs, Active(r), pc[r] # "idle",
         NEW l \in Before \cup Working, Go(r, l), OnlyOf(r), Own(r)',
         tree' \in {"absent", "checkout", "leftover"}, dirty' \in BOOLEAN,
         Counted',
         failed' \in [Runs -> BOOLEAN], promised' \in [Runs -> BOOLEAN],
         NEW p \in {"none", "setup", "coding", "pr", "done"}, phase' = [phase EXCEPT ![r] = p],
         p # "none" \/ (phase[r] = "none" /\ UNCHANGED defers),
         defers' \in [Runs -> {<<>>, <<"session">>, <<"session", "worktree">>}],
         UNCHANGED <<req, company, hitches>>
  PROVE  RalphInv'
<1>1. TypeOK
  BY DEF RalphInv
<1>2. \A s \in Runs : phase'[s] = "none" => defers'[s] = <<>>
  BY <1>1 DEF TypeOK, OnlyOf
<1>3. session' \in Runs \cup {NoRun}
  BY <1>1 DEF TypeOK, OnlyOf
<1>4. TypeOK'
  BY <1>1, <1>2, <1>3 DEF TypeOK, Go, Before, Working
<1> QED BY <1>4, OthersKeep

LEMMA PrepareKeeps ==
  ASSUME RalphInv, NEW r \in Runs, Stash(r) \/ Look(r) \/ Add(r), UNCHANGED <<req, company, hitches>>
  PROVE  RalphInv'
<1>1. TypeOK /\ Own(r) /\ Active(r) /\ phase[r] = "none" /\ pc[r] \in {"stash", "look", "add"}
  BY DEF RalphInv, RunInv, Own, Placed, Active, Before, Stash, Look, Add
<1>2. CASE Fails(r)
  BY <1>1, <1>2, FailsKeeps DEF Before
<1>3. ASSUME NEW l \in {"install", "add"}, Go(r, l), UNCHANGED <<session, phase, turns, defers>>,
             tree' \in {"absent", "checkout", "leftover"},
             \/ dirty' = FALSE /\ l = "install"
             \/ UNCHANGED dirty /\ ~req[r].linked
      PROVE  RalphInv'
  <2>1. /\ pc'[r] = l /\ phase'[r] = "none" /\ dirty' \in BOOLEAN
        /\ UNCHANGED <<session, phase, iterations, failed, promised, defers, req, company, hitches>>
    BY <1>1, <1>3 DEF Go, TypeOK, turns
  <2>2. OnlyOf(r)
    BY <1>1, <1>3, <2>1 DEF OnlyOf, Go, TypeOK
  <2>3. Own(r)'
    <3>1. Placed(r)'
      BY <1>1, <1>3, <2>1 DEF Own, Placed, Working, Before
    <3>2. Owned(r)'
      BY <1>1, <2>1 DEF Own, Owned
    <3>3. Promises(r)'
      BY <2>1 DEF Promises, Coded
    <3>4. Undisturbed(r)'
      BY <1>3, <2>1 DEF Undisturbed, Working
    <3> QED BY <3>1, <3>2, <3>3, <3>4 DEF Own
  <2>4. l \in Before \cup Working
    BY DEF Before
  <2>5. phase' = [phase EXCEPT ![r] = "none"] /\ pc[r] # "idle"
    BY <1>1, <2>1 DEF TypeOK
  <2>6. /\ Counted'
        /\ failed' \in [Runs -> BOOLEAN] /\ promised' \in [Runs -> BOOLEAN]
        /\ defers' \in [Runs -> {<<>>, <<"session">>, <<"session", "worktree">>}]
    BY <1>1, <2>1 DEF TypeOK
  <2> QED BY <1>1, <1>3, <2>1, <2>2, <2>3, <2>4, <2>5, <2>6, GoKeeps
<1>4. CASE Stash(r)
  BY <1>2, <1>3, <1>4 DEF Stash, StashIfDirty
<1>5. CASE Look(r) \/ Add(r)
  <2>1. ~req[r].linked /\ tree \in {"absent", "checkout", "leftover"}
    BY <1>1, <1>5 DEF TypeOK, Own, Placed, Stash, Look, Add
  <2> QED BY <1>2, <1>3, <1>5, <2>1 DEF Look, Add, files
<1> QED BY <1>4, <1>5

LEMMA InstallKeeps ==
  ASSUME RalphInv, NEW r \in Runs, Install(r), UNCHANGED <<req, company, hitches>>
  PROVE  RalphInv'
<1>1. /\ TypeOK /\ Own(r) /\ Active(r) /\ pc[r] = "install" /\ phase[r] = "none"
      /\ phase = [phase EXCEPT ![r] = "none"] /\ dirty \in BOOLEAN
      /\ UNCHANGED <<dirty, session, phase, defers>>
      /\ tree' \in {"absent", "checkout", "leftover"} /\ (tree = "checkout" => UNCHANGED tree)
  BY DEF RalphInv, RunInv, Own, Placed, Active, Before, Install, Mkdir, TypeOK
<1>2. CASE Return(r)
  <2>1. pc[r] \in (Before \ {"idle"}) \cup Working /\ pc[r] \notin Working
    BY <1>1 DEF Before, Working
  <2>2. dirty' \in BOOLEAN /\ phase' = [phase EXCEPT ![r] = "none"]
    BY <1>1
  <2> QED BY <1>1, <1>2, <2>1, <2>2, ReturnKeeps
<1>3. CASE tree = "checkout" /\ Go(r, "register") /\ UNCHANGED turns
  <2>1. /\ pc'[r] = "register" /\ phase'[r] = "none" /\ tree' = "checkout" /\ dirty' \in BOOLEAN
        /\ UNCHANGED <<iterations, failed, promised>>
    BY <1>1, <1>3 DEF Go, TypeOK, turns
  <2>2. OnlyOf(r)
    BY <1>1, <1>3, <2>1 DEF OnlyOf, Go, TypeOK
  <2>3. Own(r)'
    <3>1. Placed(r)'
      BY <1>1, <2>1 DEF Own, Placed, Working, Before
    <3>2. Owned(r)' /\ Promises(r)'
      BY <1>1, <2>1 DEF Own, Owned, Promises
    <3>3. ASSUME ~company[r] PROVE Undisturbed(r)'
      BY <1>1, <2>1, <3>3 DEF Own, Undisturbed, Working
    <3> QED BY <3>1, <3>2, <3>3 DEF Own
  <2>4. /\ "register" \in Before \cup Working
        /\ Counted'
        /\ failed' \in [Runs -> BOOLEAN] /\ promised' \in [Runs -> BOOLEAN]
        /\ defers' \in [Runs -> {<<>>, <<"session">>, <<"session", "worktree">>}]
    BY <1>1, <2>1 DEF TypeOK, Before
  <2> QED BY <1>1, <1>3, <2>1, <2>2, <2>3, <2>4, GoKeeps
<1> QED BY <1>2, <1>3 DEF Install

LEMMA RegisterKeeps ==
  ASSUME RalphInv, NEW r \in Runs, Register(r), UNCHANGED <<req, company, hitches>>
  PROVE  RalphInv'
<1>1. TypeOK /\ Own(r) /\ Active(r) /\ pc[r] = "register"
  BY DEF RalphInv, RunInv, Active, Register
<1>2. CASE Fails(r)
  BY <1>1, <1>2, FailsKeeps DEF Before
<1>3. CASE ~Fails(r)
  <2>1. /\ Mkdir /\ session' = r /\ Go(r, "connect")
        /\ defers' = [defers EXCEPT ![r] = Deferred(r)] /\ phase' = [phase EXCEPT ![r] = "setup"]
        /\ UNCHANGED <<dirty, iterations, failed, promised>>
    BY <1>3 DEF Register, Record, turns
  <2>2. /\ pc'[r] = "connect" /\ phase'[r] = "setup" /\ defers'[r] = Deferred(r)
        /\ tree' \in {"absent", "checkout", "leftover"} /\ (tree = "checkout" => UNCHANGED tree)
    BY <1>1, <2>1 DEF Go, TypeOK, Mkdir
  <2>3. Deferred(r) \in {<<"session">>, <<"session", "worktree">>} /\ Deferred(r)' = Deferred(r)
        /\ Deferred(r) # <<>>
    BY Deferrals DEF Deferred
  <2>4. OnlyOf(r)
    BY <1>1, <2>1 DEF OnlyOf, Go, TypeOK
  <2>5. Own(r)'
    <3>1. Placed(r)'
      BY <2>2, <2>3, Deferrals DEF Placed, Deferred, Working, Before
    <3>2. Owned(r)'
      BY <2>2, <2>3 DEF Owned
    <3>3. Promises(r)'
      BY <2>2 DEF Promises, Coded
    <3>4. ASSUME ~company[r] PROVE Undisturbed(r)'
      BY <1>1, <2>1, <2>2, <3>4 DEF Own, Undisturbed, Working
    <3> QED BY <3>1, <3>2, <3>3, <3>4 DEF Own
  <2>6. /\ Counted' /\ dirty' \in BOOLEAN
        /\ failed' \in [Runs -> BOOLEAN] /\ promised' \in [Runs -> BOOLEAN]
        /\ "connect" \in Before \cup Working
    BY <1>1, <2>1 DEF TypeOK, Working
  <2>7. defers' \in [Runs -> {<<>>, <<"session">>, <<"session", "worktree">>}]
    BY <1>1, <2>1, <2>3 DEF TypeOK
  <2> QED BY <1>1, <2>1, <2>2, <2>4, <2>5, <2>6, <2>7, GoKeeps
<1> QED BY <1>2, <1>3

-----------------------------------------------------------------------------
(* From the registration on: the record and the worktree stay as they are. *)
LEMMA WorkKeeps ==
  ASSUME RalphInv, NEW r \in Runs, pc[r] \in Working,
         NEW l \in Working, Go(r, l), dirty' \in BOOLEAN,
         NEW p \in {"setup", "coding", "pr"}, phase' = [phase EXCEPT ![r] = p],
         NEW i \in 0 .. req[r].limit, iterations' = [iterations EXCEPT ![r] = i],
         NEW f \in BOOLEAN, failed' = [failed EXCEPT ![r] = f],
         NEW m \in BOOLEAN, promised' = [promised EXCEPT ![r] = m],
         l \in {"loop", "leave"} => p = "coding",
         l = "leave" => m \/ i >= req[r].limit,
         l = "turn" /\ p = "coding" => i > 0,
         p = "pr" /\ l \in {"connect", "turn"} => m,
         l = "leave" \/ p = "pr" => i > 0 \/ req[r].limit = 0 \/ l = "hung",
         ~(l = "connect" /\ p = "setup"),
         UNCHANGED <<tree, session, defers, req, company, hitches>>
  PROVE  RalphInv'
<1>1. TypeOK /\ Own(r) /\ Active(r) /\ pc[r] \in Working
  BY DEF RalphInv, RunInv, Active, Working
<1>2. pc'[r] = l /\ phase'[r] = p /\ iterations'[r] = i /\ promised'[r] = m
  BY <1>1 DEF Go, TypeOK
<1>3. OnlyOf(r)
  BY <1>1 DEF OnlyOf, Go, TypeOK
<1>4. Own(r)'
  <2>1. Placed(r)'
    BY <1>1, <1>2 DEF Own, Placed, Deferred, Working, Before
  <2>2. Owned(r)'
    BY <1>1, <1>2 DEF Own, Owned, Working
  <2>3. Promises(r)'
    BY <1>2 DEF Promises, Coded
  <2>4. ASSUME ~company[r] PROVE Undisturbed(r)'
    BY <1>1, <1>2, <2>4 DEF Own, Undisturbed, Working
  <2> QED BY <2>1, <2>2, <2>3, <2>4 DEF Own
<1>5. /\ Counted'
      /\ failed' \in [Runs -> BOOLEAN] /\ promised' \in [Runs -> BOOLEAN]
      /\ tree' \in {"absent", "checkout", "leftover"}
      /\ defers' \in [Runs -> {<<>>, <<"session">>, <<"session", "worktree">>}]
      /\ p \in {"none", "setup", "coding", "pr", "done"} /\ p # "none" /\ pc[r] # "idle"
  BY <1>1 DEF TypeOK, Working
<1> QED BY <1>1, <1>3, <1>4, <1>5, GoKeeps DEF Working

(* What a working command is, for the lemmas on its steps. *)
LEMMA WorkFacts ==
  ASSUME RalphInv, NEW r \in Runs, pc[r] \in Working
  PROVE  /\ TypeOK /\ Own(r) /\ Active(r) /\ phase[r] \in {"setup", "coding", "pr"}
         /\ pc[r] \in {"loop", "leave"} => phase[r] = "coding"
         /\ iterations[r] \in 0 .. req[r].limit /\ iterations = [iterations EXCEPT ![r] = iterations[r]]
         /\ failed[r] \in BOOLEAN /\ failed = [failed EXCEPT ![r] = failed[r]]
         /\ promised[r] \in BOOLEAN /\ promised = [promised EXCEPT ![r] = promised[r]]
         /\ phase = [phase EXCEPT ![r] = phase[r]] /\ dirty \in BOOLEAN
         /\ phase[r] = "pr" /\ pc[r] \in {"connect", "turn"} => promised[r] /\ Coded(r)
         /\ pc[r] = "turn" /\ phase[r] = "coding" => iterations[r] > 0
         /\ pc[r] = "leave" => Coded(r) /\ (promised[r] \/ iterations[r] >= req[r].limit)
         /\ req[r].limit \in Nat
<1>1. req[r] \in Requests /\ req[r].limit \in Nat
  BY RequestFacts DEF RalphInv, TypeOK
<1>2. iterations[r] \in 0 .. req[r].limit
  BY <1>1 DEF RalphInv, TypeOK
<1> QED BY <1>1, <1>2 DEF RalphInv, RunInv, Own, Placed, Promises, TypeOK, Active, Working

LEMMA ConnectKeeps ==
  ASSUME RalphInv, NEW r \in Runs, Connect(r), UNCHANGED <<req, company, hitches>>
  PROVE  RalphInv'
<1>1. pc[r] = "connect" /\ pc[r] \in Working
  BY DEF Connect, Working
<1>2. CASE Fails(r)
  BY <1>1, <1>2, FailsKeeps
<1>3. ASSUME NEW l \in {IF phase[r] = "coding" THEN "loop" ELSE "turn", "hung"}, Go(r, l),
             UNCHANGED <<files, phase, turns, defers>>
      PROVE  RalphInv'
  <2>1. l \in {"loop", "turn", "hung"} /\ l \in Working /\ (l = "loop" <=> (phase[r] = "coding" /\ l # "hung"))
    BY <1>3 DEF Working
  <2>2. UNCHANGED <<tree, dirty, session, phase, iterations, failed, promised, defers, req, company, hitches>>
    BY <1>3 DEF files, turns
  <2>3. dirty' \in BOOLEAN /\ phase' = [phase EXCEPT ![r] = phase[r]]
        /\ iterations' = [iterations EXCEPT ![r] = iterations[r]]
        /\ failed' = [failed EXCEPT ![r] = failed[r]] /\ promised' = [promised EXCEPT ![r] = promised[r]]
    BY <1>1, <2>2, WorkFacts
  <2>4. /\ phase[r] \in {"setup", "coding", "pr"} /\ (phase[r] = "pr" => promised[r] /\ Coded(r))
        /\ iterations[r] \in 0 .. req[r].limit /\ failed[r] \in BOOLEAN /\ promised[r] \in BOOLEAN
    BY <1>1, WorkFacts
  <2>5. /\ l \in {"loop", "leave"} => phase[r] = "coding"
        /\ ~(l = "leave") /\ ~(l = "turn" /\ phase[r] = "coding") /\ ~(l = "connect")
        /\ phase[r] = "pr" => promised[r]
        /\ phase[r] = "pr" => iterations[r] > 0 \/ req[r].limit = 0
    BY <1>3, <2>1, <2>4 DEF Coded
  <2>6. Go(r, l)
    BY <1>3
  <2> QED BY <1>1, <2>1, <2>2, <2>3, <2>4, <2>5, <2>6, WorkKeeps
<1> QED BY <1>2, <1>3 DEF Connect

LEMMA LoopKeeps ==
  ASSUME RalphInv, NEW r \in Runs, Loop(r), UNCHANGED <<req, company, hitches>>
  PROVE  RalphInv'
<1>1. pc[r] = "loop" /\ pc[r] \in Working /\ phase[r] = "coding"
  BY WorkFacts DEF Loop, Working
<1>2. PICK l \in {"turn", "leave"}, i \in 0 .. req[r].limit :
        /\ Go(r, l) /\ iterations' = [iterations EXCEPT ![r] = i]
        /\ l = "leave" => i >= req[r].limit /\ (i > 0 \/ req[r].limit = 0)
        /\ l = "turn" => i > 0
  <2>1. CASE MayIterate(r)
    <3>1. Go(r, "turn") /\ iterations' = [iterations EXCEPT ![r] = iterations[r] + 1]
          /\ iterations[r] + 1 \in 0 .. req[r].limit /\ iterations[r] + 1 > 0
      BY <1>1, <2>1, WorkFacts, RalphAssumption DEF Loop, CountTurn, MayIterate
    <3> QED BY <3>1
  <2>2. CASE ~MayIterate(r)
    <3>1. Go(r, "leave") /\ iterations' = [iterations EXCEPT ![r] = iterations[r]]
          /\ iterations[r] >= req[r].limit /\ (iterations[r] > 0 \/ req[r].limit = 0)
      BY <1>1, <2>2, WorkFacts, RalphAssumption DEF Loop, MayIterate
    <3> QED BY <1>1, <3>1, WorkFacts
  <2> QED BY <2>1, <2>2
<1>3. UNCHANGED <<tree, dirty, session, phase, failed, promised, defers, req, company, hitches>>
  BY DEF Loop, files
<1>4. /\ dirty' \in BOOLEAN /\ phase' = [phase EXCEPT ![r] = phase[r]]
      /\ failed' = [failed EXCEPT ![r] = failed[r]] /\ promised' = [promised EXCEPT ![r] = promised[r]]
      /\ l \in Working
  BY <1>1, <1>3, WorkFacts DEF Working
<1> QED BY <1>1, <1>2, <1>3, <1>4, WorkFacts, WorkKeeps DEF Coded

LEMMA EditKeeps ==
  ASSUME RalphInv, NEW r \in Runs, Edit(r), UNCHANGED <<req, company, hitches>>
  PROVE  RalphInv'
<1>1. pc[r] = "turn" /\ pc[r] \in Working
  BY DEF Edit, Working
<1>2. /\ UNCHANGED <<tree, session, pc, phase, iterations, failed, promised, defers, req, company, hitches>>
      /\ dirty' \in BOOLEAN
  BY <1>1, WorkFacts DEF Edit, turns
<1>3. /\ phase' = [phase EXCEPT ![r] = phase[r]] /\ Go(r, "turn")
      /\ iterations' = [iterations EXCEPT ![r] = iterations[r]]
      /\ failed' = [failed EXCEPT ![r] = failed[r]] /\ promised' = [promised EXCEPT ![r] = promised[r]]
  BY <1>1, <1>2, WorkFacts DEF Go, TypeOK
<1>4. /\ iterations[r] \in 0 .. req[r].limit /\ failed[r] \in BOOLEAN /\ promised[r] \in BOOLEAN
      /\ phase[r] \in {"setup", "coding", "pr"} /\ (phase[r] = "pr" => promised[r] /\ Coded(r))
      /\ phase[r] = "coding" => iterations[r] > 0
  BY <1>1, WorkFacts
<1> QED BY <1>1, <1>2, <1>3, <1>4, WorkKeeps DEF Coded

LEMMA TurnKeeps ==
  ASSUME RalphInv, NEW r \in Runs, Turn(r), UNCHANGED <<req, company, hitches>>
  PROVE  RalphInv'
<1>1. pc[r] = "turn" /\ pc[r] \in Working
  BY DEF Turn, TurnEnds, Working
<1>2. CASE Fails(r)
  BY <1>1, <1>2, FailsKeeps
<1>3. CASE TurnEnds(r)
  <2>1. PICK f \in BOOLEAN, m \in BOOLEAN : TurnReturns(r, f, m)
    BY <1>3 DEF TurnEnds
  <2>2. UNCHANGED <<tree, session, defers, req, company, hitches>> /\ dirty' \in BOOLEAN
    BY <1>1, <1>3, WorkFacts DEF TurnEnds
  <2>3. CASE Return(r)
    <3>1. PICK p \in {phase[r], "done"} : phase' = [phase EXCEPT ![r] = p]
      BY <1>1, <2>1, <2>3, WorkFacts DEF TurnReturns, Return, Go, TypeOK
    <3>2. p \in {"none", "setup", "coding", "pr", "done"} /\ tree' \in {"absent", "checkout", "leftover"}
      BY <1>1, <2>2, <3>1, WorkFacts DEF TypeOK
    <3> QED BY <1>1, <2>2, <2>3, <3>1, <3>2, ReturnKeeps
  <2>4. CASE ~Return(r)
    <3>1. PICK p \in {"coding"}, l \in {"connect", "loop", "leave"} :
            /\ Go(r, l) /\ phase' = [phase EXCEPT ![r] = p] /\ (l = "leave" => m)
            /\ l # "connect" => phase[r] = "coding"
            /\ failed' = [failed EXCEPT ![r] = f] /\ promised' = [promised EXCEPT ![r] = m]
            /\ UNCHANGED iterations
      <4>1. CASE phase[r] = "setup"
        BY <2>1, <2>4, <4>1 DEF TurnReturns
      <4>2. CASE phase[r] = "coding"
        BY <1>1, <2>1, <2>4, <4>2, WorkFacts DEF TurnReturns
      <4> QED BY <1>1, <2>1, <2>4, <4>1, <4>2, WorkFacts DEF TurnReturns
    <3>2. iterations' = [iterations EXCEPT ![r] = iterations[r]] /\ l \in Working
          /\ p \in {"setup", "coding", "pr"}
      BY <1>1, <3>1, WorkFacts DEF Working
    <3>3. iterations[r] \in 0 .. req[r].limit /\ (l # "connect" => iterations[r] > 0)
      BY <1>1, <3>1, WorkFacts
    <3> QED BY <1>1, <2>2, <3>1, <3>2, <3>3, WorkKeeps
  <2> QED BY <2>3, <2>4
<1> QED BY <1>1, <1>2, <1>3 DEF Turn

(* The pull request is asked for with the promise of the last coding turn. *)
LEMMA LeaveKeeps ==
  ASSUME RalphInv, NEW r \in Runs, Leave(r), UNCHANGED <<req, company, hitches>>
  PROVE  RalphInv'
<1>1. pc[r] = "leave" /\ pc[r] \in Working /\ phase[r] = "coding"
  BY WorkFacts DEF Leave, Working
<1>2. UNCHANGED <<tree, dirty, session, defers, req, company, hitches>>
  BY DEF Leave, files
<1>3. CASE GivesUp(r)
  <2>1. Return(r) /\ UNCHANGED phase
    BY <1>3 DEF Leave
  <2>2. phase' = [phase EXCEPT ![r] = "coding"] /\ dirty' \in BOOLEAN
        /\ tree' \in {"absent", "checkout", "leftover"}
    BY <1>1, <1>2, <2>1, WorkFacts DEF TypeOK
  <2> QED BY <1>1, <1>2, <2>1, <2>2, ReturnKeeps
<1>4. CASE ~GivesUp(r)
  <2>1. promised[r]
    BY <1>1, <1>4, WorkFacts DEF GivesUp
  <2>2. Go(r, "connect") /\ phase' = [phase EXCEPT ![r] = "pr"] /\ UNCHANGED <<iterations, failed, promised>>
    BY <1>4 DEF Leave, turns
  <2>3. /\ iterations' = [iterations EXCEPT ![r] = iterations[r]]
        /\ failed' = [failed EXCEPT ![r] = failed[r]] /\ promised' = [promised EXCEPT ![r] = promised[r]]
        /\ dirty' \in BOOLEAN /\ "connect" \in Working
    BY <1>1, <1>2, <2>2, WorkFacts DEF Working
  <2>4. /\ iterations[r] \in 0 .. req[r].limit /\ failed[r] \in BOOLEAN /\ promised[r] \in BOOLEAN
        /\ Coded(r)
        /\ "pr" \in {"setup", "coding", "pr"} /\ UNCHANGED <<tree, session, defers, req, company, hitches>>
    BY <1>1, <1>2, WorkFacts
  <2>5. iterations[r] > 0 \/ req[r].limit = 0
    BY <2>4 DEF Coded
  <2>6. PICK l \in Working, p \in {"setup", "coding", "pr"}, m \in BOOLEAN, i \in 0 .. req[r].limit :
          /\ l = "connect" /\ p = "pr" /\ m /\ (i > 0 \/ req[r].limit = 0)
          /\ Go(r, l) /\ phase' = [phase EXCEPT ![r] = p]
          /\ iterations' = [iterations EXCEPT ![r] = i] /\ promised' = [promised EXCEPT ![r] = m]
    BY <2>1, <2>2, <2>3, <2>4, <2>5
  <2>7. /\ pc[r] \in Working /\ dirty' \in BOOLEAN /\ failed' = [failed EXCEPT ![r] = failed[r]]
        /\ failed[r] \in BOOLEAN /\ UNCHANGED <<tree, session, defers, req, company, hitches>>
    BY <1>1, <2>3, <2>4
  <2> QED BY <2>6, <2>7, WorkKeeps
<1> QED BY <1>3, <1>4

-----------------------------------------------------------------------------
(* The deferred calls: the worktree first, while the record is still there. *)
LEMMA CleanupKeeps ==
  ASSUME RalphInv, NEW r \in Runs, Cleanup(r)
  PROVE  RalphInv'
<1>1. TypeOK /\ Own(r) /\ Active(r) /\ pc[r] = "cleanup" /\ phase[r] # "none"
      /\ defers[r] \in {<<"session">>, <<"session", "worktree">>}
  BY DEF RalphInv, RunInv, Active, Cleanup, TypeOK
<1>2. UNCHANGED <<pc, phase, iterations, failed, promised, req, company>>
      /\ defers' = [defers EXCEPT ![r] = Front(defers[r])] /\ defers'[r] = Front(defers[r])
  BY <1>1 DEF Cleanup, turns, TypeOK
<1>3. /\ defers'[r] \in {<<>>, <<"session">>}
      /\ session' \in {session, NoRun} /\ tree' \in {tree, "absent", "leftover"} /\ dirty' \in BOOLEAN
      /\ hitches' \in {hitches, [hitches EXCEPT ![r] = @ \cup {"session"}],
                       [hitches EXCEPT ![r] = @ \cup {"worktree"}]}
      /\ defers'[r] = <<>> => /\ session' = NoRun \/ "session" \in hitches'[r]
                              /\ UNCHANGED tree
      /\ defers'[r] # <<>> => /\ defers[r] = <<"session", "worktree">>
                              /\ req[r].linked => UNCHANGED tree
                              /\ req[r].linked \/ tree' # "checkout" \/ "worktree" \in hitches'[r]
  <2>1. CASE defers[r] = <<"session">>
    BY <1>1, <1>2, <2>1, Deferrals DEF Cleanup, CleanupSession, Hitch, TypeOK
  <2>2. CASE defers[r] = <<"session", "worktree">>
    <3>1. CleanupWorktree(r) /\ defers'[r] = <<"session">>
      BY <1>2, <2>2, Deferrals DEF Cleanup
    <3>2. req[r].linked \in BOOLEAN /\ dirty \in BOOLEAN
      BY <1>1, RequestFacts DEF TypeOK
    <3>3. /\ session' \in {session, NoRun} /\ tree' \in {tree, "absent", "leftover"} /\ dirty' \in BOOLEAN
          /\ hitches' \in {hitches, [hitches EXCEPT ![r] = @ \cup {"worktree"}]}
      BY <3>1, <3>2 DEF CleanupWorktree, Hitch, files
    <3>4. req[r].linked => UNCHANGED tree
      BY <3>1 DEF CleanupWorktree, files
    <3>5. req[r].linked \/ tree' # "checkout" \/ "worktree" \in hitches'[r]
      BY <1>1, <3>1 DEF CleanupWorktree, Hitch, TypeOK
    <3> QED BY <2>2, <3>1, <3>3, <3>4, <3>5, Deferrals
  <2> QED BY <1>1, <2>1, <2>2
<1>4. TypeOK'
  <2>1. defers' \in [Runs -> {<<>>, <<"session">>, <<"session", "worktree">>}]
    BY <1>1, <1>2, <1>3 DEF TypeOK
  <2>2. \A s \in Runs : phase'[s] = "none" => defers'[s] = <<>>
    BY <1>1, <1>2 DEF TypeOK
  <2>3. hitches' \in [Runs -> SUBSET {"session", "worktree"}]
    <3>1. hitches \in [Runs -> SUBSET {"session", "worktree"}]
      BY <1>1 DEF TypeOK
    <3>2. hitches[r] \cup {"session"} \in SUBSET {"session", "worktree"}
          /\ hitches[r] \cup {"worktree"} \in SUBSET {"session", "worktree"}
      BY <3>1
    <3> QED BY <1>3, <3>1, <3>2
  <2>4. tree' \in {"absent", "checkout", "leftover"} /\ session' \in Runs \cup {NoRun}
    BY <1>1, <1>3 DEF TypeOK
  <2> QED BY <1>1, <1>2, <1>3, <2>1, <2>2, <2>3, <2>4 DEF TypeOK
<1>5. OnlyOf(r)
  BY <1>1, <1>2, <1>3 DEF OnlyOf, TypeOK
<1>6. Own(r)'
  <2>1. Placed(r)' /\ Promises(r)'
    BY <1>1, <1>2, <1>3, Deferrals DEF Placed, Promises, Before, Working
  <2>2. Owned(r)'
    BY <1>3, RalphAssumption DEF Owned
  <2>3. ASSUME ~company[r] PROVE Undisturbed(r)'
    <3>1. IF Kept(r) THEN tree' = "checkout" ELSE "worktree" \notin hitches'[r] => tree' # "checkout"
      <4>1. CASE defers'[r] = <<>> /\ defers[r] = <<"session">>
        <5>1. UNCHANGED tree /\ ("worktree" \in hitches[r] => "worktree" \in hitches'[r])
          BY <1>1, <1>3, <4>1 DEF TypeOK
        <5> QED BY <1>1, <2>3, <4>1, <5>1, Deferrals DEF Own, Undisturbed
      <4>2. CASE defers[r] = <<"session", "worktree">>
        <5>1. tree = "checkout"
          BY <1>1, <2>3, <4>2 DEF Own, Undisturbed
        <5>2. defers'[r] # <<>>
          BY <1>2, <4>2, Deferrals
        <5>3. IF req[r].linked THEN tree' = "checkout"
              ELSE "worktree" \notin hitches'[r] => tree' # "checkout"
          BY <1>3, <5>1, <5>2
        <5> QED BY <1>1, <4>2, <5>3 DEF Kept, Own, Placed
      <4> QED BY <1>1, <1>2, <4>1, <4>2, Deferrals
    <3> QED BY <1>1, <1>2, <1>3, <3>1, Deferrals DEF Undisturbed, Kept, Working
  <2> QED BY <1>2, <2>1, <2>2, <2>3 DEF Own
<1> QED BY <1>1, <1>2, <1>4, <1>5, <1>6, OthersKeep

(* The end of a process, by its return or by a signal: only its files stay. *)
LEMMA GoneKeeps ==
  ASSUME RalphInv, NEW r \in Runs, Exit(r) \/ Kill(r)
  PROVE  RalphInv'
<1>1. TypeOK /\ Own(r) /\ Active(r)
  BY DEF RalphInv, RunInv, Active, Exit, Kill
<1>2. Gone(r)
  BY DEF Exit, Kill
<1>3. /\ pc' = [pc EXCEPT ![r] = "gone"] /\ req' = [req EXCEPT ![r] = NoRequest]
      /\ phase' = [phase EXCEPT ![r] = "none"] /\ iterations' = [iterations EXCEPT ![r] = 0]
      /\ failed' = [failed EXCEPT ![r] = FALSE] /\ promised' = [promised EXCEPT ![r] = FALSE]
      /\ defers' = [defers EXCEPT ![r] = <<>>] /\ company' = [company EXCEPT ![r] = FALSE]
      /\ hitches' = [hitches EXCEPT ![r] = {}]
      /\ UNCHANGED <<tree, dirty, session>>
  BY <1>2 DEF Gone, Go, files
<1>4. pc'[r] = "gone" /\ phase'[r] = "none" /\ defers'[r] = <<>>
  BY <1>1, <1>3 DEF TypeOK
<1>5. TypeOK'
  <2>1. NoRequest \in Requests /\ NoRequest.limit \in Nat
    BY RequestFacts
  <2>2. req' \in [Runs -> Requests] /\ Counted'
        /\ company' \in [Runs -> BOOLEAN] /\ hitches' \in [Runs -> SUBSET {"session", "worktree"}]
    BY <1>1, <1>3, <2>1 DEF TypeOK
  <2>3. defers' \in [Runs -> {<<>>, <<"session">>, <<"session", "worktree">>}]
    BY <1>1, <1>3 DEF TypeOK
  <2>4. \A s \in Runs : phase'[s] = "none" => defers'[s] = <<>>
    BY <1>1, <1>3 DEF TypeOK
  <2>5. /\ phase' \in [Runs -> {"none", "setup", "coding", "pr", "done"}]
        /\ failed' \in [Runs -> BOOLEAN] /\ promised' \in [Runs -> BOOLEAN]
        /\ pc' \in [Runs -> {"idle", "stash", "look", "add", "install", "register", "connect",
                             "loop", "turn", "leave", "hung", "cleanup", "gone", "recycled"}]
    BY <1>1, <1>3 DEF TypeOK
  <2> QED BY <1>1, <1>3, <2>2, <2>3, <2>4, <2>5 DEF TypeOK
<1>6. OnlyOf(r)
  BY <1>1, <1>3 DEF OnlyOf, TypeOK
<1>7. Own(r)'
  <2>1. Placed(r)' /\ Promises(r)' /\ Undisturbed(r)'
    BY <1>4, Deferrals DEF Placed, Promises, Undisturbed, Before, Working
  <2>2. Owned(r)'
    BY <1>4 DEF Owned
  <2> QED BY <2>1, <2>2 DEF Own
<1>8. ~Active(r)'
  BY <1>4 DEF Active
<1> QED BY <1>1, <1>5, <1>6, <1>7, <1>8, OthersKeep

(* A pid is reused after its process is gone: no command moves. *)
LEMMA PidReusedKeeps ==
  ASSUME RalphInv, NEW r \in Runs, PidReused(r), UNCHANGED <<req, company, hitches>>
  PROVE  RalphInv'
<1>1. /\ TypeOK /\ pc[r] = "gone" /\ pc' = [pc EXCEPT ![r] = "recycled"] /\ pc'[r] = "recycled"
      /\ UNCHANGED <<tree, dirty, session, phase, iterations, failed, promised, defers, req, company, hitches>>
  BY DEF RalphInv, PidReused, Go, TypeOK, files, turns
<1>2. TypeOK'
  BY <1>1 DEF TypeOK
<1>3. ASSUME NEW s \in Runs PROVE RunInv(s)'
  <2>1. RunInv(s)
    BY DEF RalphInv
  <2>2. pc'[s] = pc[s] \/ (s = r /\ pc[s] = "gone" /\ pc'[s] = "recycled")
    BY <1>1 DEF TypeOK
  <2>3. Placed(s)' /\ Owned(s)' /\ Promises(s)'
    BY <1>1, <2>1, <2>2 DEF RunInv, Own, Placed, Owned, Promises, Coded, Deferred, Before, Working
  <2>4. (company[s] \/ Undisturbed(s))'
    BY <1>1, <2>1, <2>2 DEF RunInv, Own, Undisturbed, Kept, Working
  <2>5. Meets(s)'
    BY <1>1, <2>1 DEF RunInv, Meets, Active, TypeOK
  <2> QED BY <2>3, <2>4, <2>5 DEF RunInv, Own
<1> QED BY <1>2, <1>3 DEF RalphInv

(* The log's directory comes back only where there is no worktree. *)
LEMMA LogKeeps ==
  ASSUME RalphInv, NEW r \in Runs, Log(r), UNCHANGED <<req, company, hitches>>
  PROVE  RalphInv'
<1>1. /\ TypeOK /\ Own(r) /\ Active(r) /\ tree = "absent" /\ tree' = "leftover" /\ phase[r] # "none"
      /\ UNCHANGED <<dirty, session, pc, phase, iterations, failed, promised, defers, req, company, hitches>>
  BY DEF RalphInv, RunInv, Log, Mkdir, turns
<1>2. TypeOK'
  BY <1>1 DEF TypeOK
<1>3. OnlyOf(r)
  BY <1>1 DEF OnlyOf
<1>4. Own(r)'
  <2>1. Placed(r)' /\ Owned(r)' /\ Promises(r)'
    BY <1>1 DEF Own, Placed, Owned, Promises, Coded, Deferred
  <2>2. ASSUME ~company[r] PROVE Undisturbed(r)'
    BY <1>1, <2>2 DEF Own, Undisturbed, Kept
  <2> QED BY <1>1, <2>1, <2>2 DEF Own
<1> QED BY <1>1, <1>2, <1>3, <1>4, OthersKeep

(* A command that starts gives every command that works company. *)
LEMMA StartKeeps ==
  ASSUME RalphInv, NEW r \in Runs, Start(r)
  PROVE  RalphInv'
<1>1. TypeOK /\ pc[r] = "idle" /\ phase[r] = "none" /\ defers[r] = <<>> /\ Own(r)
  BY DEF RalphInv, RunInv, Own, Placed, Before, Start, TypeOK
<1>2. PICK q \in Requests :
        /\ req' = [req EXCEPT ![r] = q]
        /\ pc' = [pc EXCEPT ![r] = IF q.linked THEN "stash" ELSE "look"]
  BY DEF Start, Go
<1>3. /\ UNCHANGED <<tree, dirty, session, phase, iterations, failed, promised, defers, hitches>>
      /\ company' = [s \in Runs |-> \/ company[s]
                                    \/ s = r /\ \E o \in Runs : Active(o)
                                    \/ s # r /\ Active(s)]
  BY DEF Start, files, turns
<1>4. pc'[r] = (IF q.linked THEN "stash" ELSE "look") /\ req'[r] = q
  BY <1>1, <1>2 DEF TypeOK
<1>5. company' \in [Runs -> BOOLEAN]
  BY <1>1, <1>3, Zenon DEF TypeOK
<1>6. TypeOK'
  <2>1. Counted'
    <3>1. iterations[r] = 0 /\ q.limit \in Nat
      BY <1>1, RequestFacts DEF Own, Placed, Before
    <3> QED BY <1>1, <1>2, <1>3, <3>1 DEF TypeOK
  <2> QED BY <1>1, <1>2, <1>3, <1>5, <2>1 DEF TypeOK
<1>7. ASSUME NEW s \in Runs PROVE RunInv(s)'
  <2>1. RunInv(s) /\ (company[s] => company'[s]) /\ (s # r /\ Active(s) => company'[s])
        /\ (s = r /\ (\E o \in Runs : Active(o)) => company'[s])
    BY <1>3 DEF RalphInv
  <2>2. s # r => pc'[s] = pc[s] /\ req'[s] = req[s]
    BY <1>1, <1>2 DEF TypeOK
  <2>3. Placed(s)'
    <3>1. CASE s = r
      BY <1>1, <1>3, <1>4, <3>1, Deferrals, RequestFacts DEF Own, Placed, Before, Working
    <3>2. CASE s # r
      BY <1>3, <2>1, <2>2, <3>2 DEF RunInv, Own, Placed, Deferred
    <3> QED BY <3>1, <3>2
  <2>4. Owned(s)' /\ Promises(s)'
    BY <1>1, <1>3, <1>4, <2>1, <2>2 DEF RunInv, Own, Owned, Promises, Coded
  <2>5. Meets(s)'
    BY <1>1, <1>2, <1>3, <1>4, <2>1, <2>2 DEF RunInv, Meets, Active, TypeOK
  <2>6. (company[s] \/ Undisturbed(s))'
    <3>1. CASE s = r
      BY <1>4, <1>3, <1>1, <3>1 DEF Undisturbed, Working
    <3>2. CASE s # r /\ ~Active(s)
      BY <2>2, <3>2 DEF Undisturbed, Active, Working
    <3> QED BY <2>1, <3>1, <3>2
  <2> QED BY <2>3, <2>4, <2>5, <2>6 DEF RunInv, Own
<1> QED BY <1>6, <1>7 DEF RalphInv

LEMMA InvStep == RalphInv /\ [Next]_vars => RalphInv'
<1> SUFFICES ASSUME RalphInv, [Next]_vars PROVE RalphInv'
  OBVIOUS
<1>1. CASE UNCHANGED vars
  BY <1>1 DEF vars, files, turns, RalphInv, TypeOK, RunInv, Own, Placed, Owned, Meets, Promises, Coded,
              Undisturbed, Active, Deferred, Kept
<1>2. CASE Next
  <2>1. PICK r \in Runs : \/ Start(r) \/ Step(r)
                          \/ (Edit(r) \/ Log(r) \/ PidReused(r)) /\ UNCHANGED <<req, company, hitches>>
                          \/ Kill(r)
    BY <1>2 DEF Next
  <2>2. CASE Prepare(r) /\ UNCHANGED <<req, company, hitches>>
    BY <2>2, PrepareKeeps, InstallKeeps, RegisterKeeps DEF Prepare
  <2>3. CASE Work(r) /\ UNCHANGED <<req, company, hitches>>
    BY <2>3, ConnectKeeps, LoopKeeps, TurnKeeps, LeaveKeeps DEF Work
  <2>4. CASE Cleanup(r) \/ Exit(r) \/ Kill(r)
    BY <2>4, CleanupKeeps, GoneKeeps
  <2>5. CASE Start(r) \/ ((Edit(r) \/ Log(r) \/ PidReused(r)) /\ UNCHANGED <<req, company, hitches>>)
    BY <2>5, StartKeeps, EditKeeps, LogKeeps, PidReusedKeeps
  <2> QED BY <2>1, <2>2, <2>3, <2>4, <2>5 DEF Step
<1> QED BY <1>1, <1>2

LEMMA RalphInvariant == Spec => []RalphInv
  BY InvInit, InvStep, PTL DEF Spec

-----------------------------------------------------------------------------
(* Every variable of the commands keeps its type; no command begins more    *)
(* coding turns than its limit, and none defers a call before registering.  *)
THEOREM TypeCorrect == Spec => []TypeOK
<1>1. RalphInv => TypeOK
  BY DEF RalphInv
<1> QED BY <1>1, RalphInvariant, PTL

(* What ls lists is a run that is registered and works, for any number of   *)
(* commands that meet in a worktree, overwrite each other's record, are     *)
(* killed and clean up: the record of a dead run is taken for one only when *)
(* its pid is another program's by now, or it could not be removed.         *)
THEOREM SessionsCorrect == Spec => []SessionsTellRuns
<1>1. RalphInv => SessionsTellRuns
  <2> SUFFICES ASSUME RalphInv, NEW r \in Runs
               PROVE  /\ Listed(r) => \/ Registered(r)
                                      \/ "session" \in hitches[r] \/ pc[r] = "recycled"
                      /\ (Registered(r) /\ pc[r] # "cleanup" /\ ~company[r]) => Listed(r)
    BY DEF SessionsTellRuns
  <2>1. TypeOK /\ Own(r)
    BY DEF RalphInv, RunInv
  <2>2. Listed(r) => Registered(r) \/ "session" \in hitches[r] \/ pc[r] = "recycled"
    BY <2>1 DEF TypeOK, Own, Owned, Listed, Registered, Active
  <2>3. Registered(r) /\ pc[r] # "cleanup" => pc[r] \in Working
    BY <2>1 DEF TypeOK, Own, Placed, Registered, Active, Before, Working
  <2>4. pc[r] \in Working /\ ~company[r] => session = r
    BY <2>1 DEF Own, Undisturbed
  <2> QED BY <2>2, <2>3, <2>4 DEF Registered, Listed
<1> QED BY <1>1, RalphInvariant, PTL

(* The deferred calls leave neither the record nor, in a run on its own, a  *)
(* worktree nobody asked to keep, unless the removal itself failed; and a   *)
(* worktree that is to be kept, or was there before, is.                    *)
THEOREM CleanupCorrect == Spec => []CleanedUp
<1>1. RalphInv => CleanedUp
  BY Deferrals DEF RalphInv, RunInv, Own, Owned, Undisturbed, Kept, CleanedUp
<1> QED BY <1>1, RalphInvariant, PTL

(* A run started in its own worktree hands the setup agent a clean one.     *)
THEOREM StartCorrect == Spec => []StartsClean
<1>1. RalphInv => StartsClean
  BY DEF RalphInv, RunInv, Own, Undisturbed, StartsClean
<1> QED BY <1>1, RalphInvariant, PTL

(* No pull request is asked for without the promise of the last coding      *)
(* turn, whichever turns fail; only where the limit allows no coding turn   *)
(* at all does the promise of the setup turn do.                            *)
THEOREM PRCorrect == Spec => []PRAfterPromise
<1>1. RalphInv => PRAfterPromise
  BY DEF RalphInv, RunInv, Own, Promises, Coded, PRAfterPromise
<1> QED BY <1>1, RalphInvariant, PTL

-----------------------------------------------------------------------------
(* Why a command ends: what it may still do, by its turns left and its place. *)
TurnsLeft(r) == 2 * (req[r].limit - iterations[r])

Whole(r) == 2 * req[r].limit

Left(r) ==
    IF pc[r] = "cleanup" THEN Len(defers[r]) + 1
    ELSE IF pc[r] \in {"stash", "look"} THEN Whole(r) + 15
    ELSE IF pc[r] = "add" THEN Whole(r) + 14
    ELSE IF pc[r] = "install" THEN Whole(r) + 13
    ELSE IF pc[r] = "register" THEN Whole(r) + 12
    ELSE IF pc[r] = "connect" THEN
       (IF phase[r] = "setup" THEN Whole(r) + 11 ELSE IF phase[r] = "coding" THEN Whole(r) + 9 ELSE 5)
    ELSE IF pc[r] = "turn" THEN
       (IF phase[r] = "setup" THEN Whole(r) + 10 ELSE IF phase[r] = "coding" THEN TurnsLeft(r) + 8 ELSE 4)
    ELSE IF pc[r] = "loop" THEN TurnsLeft(r) + 7
    ELSE IF pc[r] = "leave" THEN 6
    ELSE 0

Nearer(r) == Left(r)' < Left(r)

LEMMA Measured ==
  ASSUME TypeOK, NEW r \in Runs
  PROVE  /\ TurnsLeft(r) \in Nat /\ TurnsLeft(r) <= Whole(r) /\ Whole(r) \in Nat
         /\ Len(defers[r]) \in 0 .. 2 /\ Left(r) \in Nat
         /\ pc[r] \in {"stash", "look", "add", "install", "register", "connect", "turn", "loop", "leave"} =>
              Left(r) >= 4
<1>1. iterations[r] \in 0 .. req[r].limit /\ req[r].limit \in Nat
  BY RequestFacts DEF TypeOK
<1>2. TurnsLeft(r) \in Nat /\ TurnsLeft(r) <= Whole(r) /\ Whole(r) \in Nat
  BY <1>1 DEF TurnsLeft, Whole
<1>3. Len(<<"session", "worktree">>) = 2 /\ Len(<<"session">>) = 1 /\ Len(<<>>) = 0
  OBVIOUS
<1>4. defers[r] \in {<<>>, <<"session">>, <<"session", "worktree">>}
  BY DEF TypeOK
<1>5. Len(defers[r]) \in 0 .. 2
  BY <1>3, <1>4
<1>6. Left(r) \in Nat
      /\ (pc[r] \in {"stash", "look", "add", "install", "register", "connect", "turn", "loop", "leave"} =>
            Left(r) >= 4)
  BY SMTT(60), <1>2, <1>5 DEF Left
<1> QED BY <1>2, <1>5, <1>6

LEMMA ReturnIsNearer ==
  ASSUME TypeOK, TypeOK', NEW r \in Runs, Return(r), UNCHANGED defers,
         pc[r] \in {"stash", "look", "add", "install", "register", "connect", "turn", "loop", "leave"}
  PROVE  Nearer(r)
<1>1. pc'[r] = "cleanup"
  BY DEF Return, Go, TypeOK
<1>2. Len(defers[r]) + 1 < Left(r)
  <2>1. Left(r) \in Nat /\ Left(r) >= 4 /\ Len(defers[r]) \in 0 .. 2
    BY Measured
  <2>2. \A l \in Nat, n \in 0 .. 2 : l >= 4 => n + 1 < l
    OBVIOUS
  <2> QED BY <2>1, <2>2
<1> QED BY <1>1, <1>2 DEF Nearer, Left

LEMMA PrepareIsNearer ==
  ASSUME RalphInv, TypeOK', NEW r \in Runs, Prepare(r), UNCHANGED req
  PROVE  Nearer(r)
<1> USE DEF Nearer
<1>w. Whole(r)' = Whole(r)
  BY DEF Whole
<1>t. TypeOK /\ pc \in [Runs -> {"idle", "stash", "look", "add", "install", "register", "connect",
                        "loop", "turn", "leave", "hung", "cleanup", "gone", "recycled"}]
  BY DEF RalphInv, TypeOK
<1>f. ASSUME Fails(r),
             pc[r] \in {"stash", "look", "add", "install", "register"}
      PROVE  Nearer(r)
  BY <1>t, <1>f, ReturnIsNearer DEF Fails
<1>1. CASE Stash(r)
  <2>1. CASE StashIfDirty(r)
    <3>1. pc[r] = "stash" /\ pc'[r] = "install"
      BY <1>t, <1>1, <2>1 DEF Stash, StashIfDirty, Go
    <3> QED BY <1>t, <1>w, <3>1, Measured DEF Left
  <2> QED BY <1>1, <1>f, <2>1 DEF Stash
<1>2. CASE Look(r)
  <2>1. pc[r] = "look" /\ pc'[r] \in {"install", "add"}
    BY <1>t, <1>2 DEF Look, Go
  <2> QED BY <1>t, <1>w, <2>1, Measured DEF Left
<1>3. CASE Add(r)
  <2>1. CASE pc[r] = "add" /\ Go(r, "install")
    <3>1. pc[r] = "add" /\ pc'[r] = "install"
      BY <1>t, <2>1 DEF Go
    <3> QED BY <1>t, <1>w, <3>1, Measured DEF Left
  <2> QED BY <1>3, <1>f, <2>1 DEF Add
<1>4. CASE Install(r)
  <2>1. CASE pc[r] = "install" /\ Go(r, "register")
    <3>1. pc[r] = "install" /\ pc'[r] = "register"
      BY <1>t, <2>1 DEF Go
    <3> QED BY <1>t, <1>w, <3>1, Measured DEF Left
  <2>2. CASE pc[r] = "install" /\ Return(r) /\ UNCHANGED defers
    BY <1>t, <2>2, ReturnIsNearer
  <2> QED BY <1>4, <2>1, <2>2 DEF Install
<1>5. CASE Register(r)
  <2>1. CASE pc[r] = "register" /\ Go(r, "connect") /\ phase' = [phase EXCEPT ![r] = "setup"]
    <3>1. pc[r] = "register" /\ pc'[r] = "connect" /\ phase'[r] = "setup"
      BY <1>t, <2>1 DEF Go, TypeOK
    <3> QED BY <1>t, <1>w, <3>1, Measured DEF Left
  <2> QED BY <1>5, <1>f, <2>1 DEF Register
<1> QED BY <1>1, <1>2, <1>3, <1>4, <1>5 DEF Prepare

LEMMA WorkIsNearer ==
  ASSUME RalphInv, TypeOK', NEW r \in Runs, Work(r), UNCHANGED req
  PROVE  Nearer(r)
<1> USE DEF Nearer
<1>t. TypeOK /\ pc \in [Runs -> {"idle", "stash", "look", "add", "install", "register", "connect",
                        "loop", "turn", "leave", "hung", "cleanup", "gone", "recycled"}]
      /\ phase \in [Runs -> {"none", "setup", "coding", "pr", "done"}]
      /\ Counted /\ req[r].limit \in Nat
  BY RequestFacts DEF RalphInv, TypeOK
<1>p. /\ pc[r] \in {"connect", "loop", "turn", "leave", "hung"} => phase[r] \in {"setup", "coding", "pr"}
      /\ pc[r] \in {"loop", "leave"} => phase[r] = "coding"
  BY DEF RalphInv, RunInv, Own, Placed, Working
<1>f. ASSUME pc[r] \in {"connect", "loop", "turn", "leave"}, Return(r), UNCHANGED defers
      PROVE  Nearer(r)
  BY <1>t, <1>f, ReturnIsNearer
<1>1. CASE Connect(r)
  <2>1. CASE UNCHANGED <<phase, iterations>>
             /\ \E l \in {IF phase[r] = "coding" THEN "loop" ELSE "turn", "hung"} : Go(r, l)
    <3>1. pc[r] = "connect" /\ pc'[r] \in {IF phase[r] = "coding" THEN "loop" ELSE "turn", "hung"}
      BY <1>t, <1>1, <2>1 DEF Connect, Go
    <3>2. phase'[r] = phase[r] /\ TurnsLeft(r)' = TurnsLeft(r) /\ Whole(r)' = Whole(r)
      BY <2>1 DEF TurnsLeft, Whole
    <3>3. TurnsLeft(r) \in Nat /\ TurnsLeft(r) <= Whole(r) /\ Whole(r) \in Nat
      BY <1>t, Measured
    <3>4. CASE pc'[r] = "hung"
      BY <1>p, <3>1, <3>2, <3>3, <3>4 DEF Left
    <3>5. CASE pc'[r] = "loop" /\ phase[r] = "coding"
      BY <3>1, <3>2, <3>3, <3>5 DEF Left
    <3>6. CASE pc'[r] = "turn" /\ phase[r] # "coding"
      BY <1>p, <3>1, <3>2, <3>3, <3>6 DEF Left
    <3> QED BY <3>1, <3>4, <3>5, <3>6
  <2> QED BY <1>1, <1>f, <2>1 DEF Connect, Fails, turns
<1>2. CASE Loop(r)
  <2>1. pc[r] = "loop" /\ phase'[r] = phase[r] /\ phase[r] = "coding"
    BY <1>2, <1>p DEF Loop
  <2>2. CASE MayIterate(r)
    <3>1. pc'[r] = "turn" /\ iterations'[r] = iterations[r] + 1
      BY <1>t, <1>2, <2>2 DEF Loop, CountTurn, Go
    <3>2. TurnsLeft(r)' = TurnsLeft(r) - 2 /\ TurnsLeft(r) \in Int
      BY <1>t, <3>1 DEF TurnsLeft
    <3> QED BY <2>1, <3>1, <3>2 DEF Left
  <2>3. CASE ~MayIterate(r)
    <3>1. pc'[r] = "leave"
      BY <1>t, <1>2, <2>3 DEF Loop, Go
    <3>2. TurnsLeft(r) \in Nat
      BY <1>t, Measured
    <3> QED BY <2>1, <3>1, <3>2 DEF Left
  <2> QED BY <2>2, <2>3
<1>3. CASE Turn(r)
  <2>1. CASE pc[r] = "turn" /\ Fails(r)
    BY <1>f, <2>1 DEF Fails
  <2>2. CASE TurnEnds(r)
    <3>1. PICK f \in BOOLEAN, p \in BOOLEAN : TurnReturns(r, f, p)
      BY <2>2 DEF TurnEnds
    <3>2. pc[r] = "turn" /\ UNCHANGED defers
      BY <2>2 DEF TurnEnds
    <3>3. CASE Return(r)
      BY <1>f, <3>2, <3>3
    <3>4. CASE ~Return(r)
      <4>1. /\ UNCHANGED iterations
            /\ \/ phase[r] = "setup" /\ Go(r, "connect") /\ phase' = [phase EXCEPT ![r] = "coding"]
               \/ phase[r] = "coding" /\ (Go(r, "leave") \/ Go(r, "loop")) /\ UNCHANGED phase
        BY <3>1, <3>4 DEF TurnReturns
      <4>2. TurnsLeft(r) \in Nat /\ TurnsLeft(r)' = TurnsLeft(r) /\ Whole(r) \in Nat /\ Whole(r)' = Whole(r)
        BY <1>t, <4>1, Measured DEF TurnsLeft, Whole
      <4>3. CASE phase[r] = "setup"
        <5>1. pc'[r] = "connect" /\ phase'[r] = "coding"
          BY <1>t, <4>1, <4>3 DEF Go
        <5> QED BY <3>2, <4>2, <4>3, <5>1 DEF Left
      <4>4. CASE phase[r] = "coding"
        <5>1. pc'[r] \in {"leave", "loop"} /\ phase'[r] = "coding"
          BY <1>t, <4>1, <4>4 DEF Go
        <5> QED BY <3>2, <4>2, <4>4, <5>1 DEF Left
      <4> QED BY <4>1, <4>3, <4>4
    <3> QED BY <3>3, <3>4
  <2> QED BY <1>3, <2>1, <2>2 DEF Turn
<1>4. CASE Leave(r)
  <2>1. pc[r] = "leave" /\ UNCHANGED defers
    BY <1>4 DEF Leave
  <2>2. CASE Return(r)
    BY <1>f, <2>1, <2>2
  <2>3. CASE ~Return(r)
    <3>1. pc'[r] = "connect" /\ phase'[r] = "pr"
      BY <1>t, <1>4, <2>3 DEF Leave, Go
    <3> QED BY <2>1, <3>1 DEF Left
  <2> QED BY <2>2, <2>3
<1> QED BY <1>1, <1>2, <1>3, <1>4 DEF Work

LEMMA CleanupIsNearer ==
  ASSUME RalphInv, TypeOK', NEW r \in Runs, Cleanup(r) \/ Exit(r)
  PROVE  Nearer(r)
<1>t. TypeOK
  BY DEF RalphInv
<1>1. CASE Cleanup(r)
  <2>1. pc[r] = "cleanup" /\ pc'[r] = "cleanup" /\ defers[r] # <<>> /\ defers'[r] = Front(defers[r])
    BY <1>t, <1>1 DEF Cleanup, TypeOK
  <2>2. defers[r] \in {<<"session">>, <<"session", "worktree">>}
    BY <1>t, <2>1 DEF TypeOK
  <2>3. Len(<<"session", "worktree">>) = 2 /\ Len(<<"session">>) = 1 /\ Len(<<>>) = 0
    OBVIOUS
  <2>4. Len(defers'[r]) = Len(defers[r]) - 1 /\ Len(defers[r]) \in Nat
    <3>1. CASE defers[r] = <<"session">>
      BY <2>1, <2>3, <3>1, Deferrals
    <3>2. CASE defers[r] = <<"session", "worktree">>
      <4>1. defers'[r] = <<"session">>
        BY <2>1, <3>2, Deferrals, Zenon
      <4> QED BY <2>3, <3>2, <4>1
    <3> QED BY <2>2, <3>1, <3>2
  <2> QED BY <2>1, <2>4 DEF Left, Nearer
<1>2. CASE Exit(r)
  <2>1. pc[r] = "cleanup" /\ pc'[r] = "gone"
    BY <1>t, <1>2 DEF Exit, Gone, Go, TypeOK
  <2>2. Len(defers[r]) \in Nat
    BY <1>t, Measured
  <2> QED BY <2>1, <2>2 DEF Left, Nearer
<1> QED BY <1>1, <1>2

(* What a measure is of; a step that leaves it alone keeps the measure. *)
LEMMA LeftKept ==
  ASSUME NEW r \in Runs, pc'[r] = pc[r], phase'[r] = phase[r], iterations'[r] = iterations[r],
         defers'[r] = defers[r], req'[r] = req[r]
  PROVE  Left(r)' = Left(r)
<1>1. TurnsLeft(r)' = TurnsLeft(r) /\ Whole(r)' = Whole(r)
  BY DEF TurnsLeft, Whole
<1> QED BY <1>1 DEF Left

(* A step of one command moves no other. *)
LEMMA OthersUntouched ==
  ASSUME TypeOK, NEW s \in Runs, NEW r \in Runs, r # s,
         \/ Start(s) \/ Step(s) \/ Kill(s)
         \/ (Edit(s) \/ Log(s) \/ PidReused(s)) /\ UNCHANGED <<req, company, hitches>>
  PROVE  /\ pc'[r] = pc[r] /\ phase'[r] = phase[r] /\ iterations'[r] = iterations[r]
         /\ defers'[r] = defers[r] /\ req'[r] = req[r]
<1> USE DEF turns, Go, Return, TypeOK
<1>1. CASE Start(s) \/ ((Edit(s) \/ Log(s) \/ PidReused(s)) /\ UNCHANGED <<req, company, hitches>>)
  BY <1>1 DEF Start, Edit, Log, PidReused
<1>2. CASE Prepare(s) /\ UNCHANGED req
  <2>1. CASE Stash(s) \/ Look(s) \/ Add(s)
    BY <1>2, <2>1 DEF Stash, StashIfDirty, Look, Add, Fails
  <2>2. CASE Install(s) \/ Register(s)
    BY <1>2, <2>2 DEF Install, Register, Fails
  <2> QED BY <1>2, <2>1, <2>2 DEF Prepare
<1>3. CASE Work(s) /\ UNCHANGED req
  <2>1. CASE Connect(s) \/ Loop(s) \/ Leave(s)
    BY <1>3, <2>1 DEF Connect, Loop, CountTurn, Leave, Fails
  <2>2. CASE Turn(s)
    <3>1. CASE Fails(s)
      BY <1>3, <3>1 DEF Fails
    <3>2. CASE TurnEnds(s)
      <4>1. PICK f \in BOOLEAN, p \in BOOLEAN : TurnReturns(s, f, p)
        BY <3>2 DEF TurnEnds
      <4> QED BY <1>3, <3>2, <4>1 DEF TurnEnds, TurnReturns
    <3> QED BY <2>2, <3>1, <3>2 DEF Turn
  <2> QED BY <1>3, <2>1, <2>2 DEF Work
<1>4. CASE Cleanup(s) \/ Exit(s) \/ Kill(s)
  BY <1>4 DEF Cleanup, Exit, Kill, Gone
<1> QED BY <1>1, <1>2, <1>3, <1>4 DEF Step

ComesNearer(r) ==
    /\ Step(r) => Nearer(r)
    /\ Active(r) => Nearer(r) \/ Left(r)' = Left(r)

LEMMA NearerStep ==
  ASSUME RalphInv, TypeOK', Next, NEW r \in Runs
  PROVE  ComesNearer(r)
<1>t. TypeOK /\ pc \in [Runs -> {"idle", "stash", "look", "add", "install", "register", "connect",
                        "loop", "turn", "leave", "hung", "cleanup", "gone", "recycled"}]
  BY DEF RalphInv, TypeOK
<1>1. Step(r) => Nearer(r)
  BY PrepareIsNearer, WorkIsNearer, CleanupIsNearer DEF Step
<1>2. ASSUME Active(r) PROVE Nearer(r) \/ Left(r)' = Left(r)
  <2>1. PICK s \in Runs :
          \/ Start(s) \/ Step(s) \/ Kill(s)
          \/ (Edit(s) \/ Log(s) \/ PidReused(s)) /\ UNCHANGED <<req, company, hitches>>
    BY DEF Next
  <2>2. CASE s = r /\ Step(s)
    BY <1>1, <2>2
  <2>3. CASE /\ s = r
             /\ \/ Start(s)
                \/ (Edit(s) \/ Log(s) \/ PidReused(s)) /\ UNCHANGED <<req, company, hitches>>
    <3>1. UNCHANGED <<pc, phase, turns, defers, req>>
      BY <1>2, <2>3 DEF Start, Edit, Log, PidReused, Active
    <3> QED BY <3>1, LeftKept DEF turns
  <2>4. CASE s = r /\ Kill(s)
    <3>1. pc'[r] = "gone"
      BY <1>t, <2>4 DEF Kill, Gone, Go
    <3>2. Left(r)' = 0
      BY <3>1 DEF Left
    <3>3. Left(r) \in Nat /\ (\A n \in Nat : 0 < n \/ n = 0)
      BY <1>t, Measured
    <3> QED BY <3>2, <3>3 DEF Nearer
  <2>5. CASE s # r
    <3>1. /\ pc'[r] = pc[r] /\ phase'[r] = phase[r] /\ iterations'[r] = iterations[r]
          /\ defers'[r] = defers[r] /\ req'[r] = req[r]
      BY <1>t, <2>1, <2>5, OthersUntouched
    <3> QED BY <3>1, LeftKept
  <2> QED BY <2>1, <2>2, <2>3, <2>4, <2>5
<1> QED BY <1>1, <1>2 DEF ComesNearer

(* A command cannot go round, whatever the other commands, git and the      *)
(* agents do, for every turn limit: each of its own steps takes it nearer   *)
(* to its end, and nobody's step takes it back.  It makes at most           *)
(* 2 * req.MaxIterations + 15 steps.                                        *)
THEOREM RunsComeNearer ==
  Spec => /\ [](\A r \in Runs : Left(r) \in Nat)
          /\ [][\A r \in Runs : ComesNearer(r)]_vars
<1>1. RalphInv => \A r \in Runs : Left(r) \in Nat
  BY Measured DEF RalphInv
<1>2. RalphInv /\ [Next]_vars /\ RalphInv' => [\A r \in Runs : ComesNearer(r)]_vars
  BY NearerStep DEF RalphInv
<1>3. Spec => []RalphInv
  BY RalphInvariant
<1> QED BY <1>1, <1>2, <1>3, PTL DEF Spec
=============================================================================
