-------------------------- MODULE HarnessBootProofs --------------------------
(* harnesscli boot for any number of commands, worktrees, ports and other   *)
(* programs: while nothing disturbs the commands, records name the          *)
(* applications that run, and answers are those of the own application.     *)
EXTENDS HarnessBoot, TLAPS

(* No two commands at work are of one worktree, nor two starts on a port. *)
Apart ==
    \A c, d \in Commands :
      c # d /\ Active(c) /\ Active(d) =>
        /\ cmd[c].tree # cmd[d].tree
        /\ Is(c, "start") /\ Is(d, "start") => cmd[c].port # cmd[d].port

Unspawned == {"idle", "read", "check", "ask", "spawn", "kill", "remove"}
Spawned == {"wait", "write", "linked"}

(* The application of a start is there once it was spawned, and as the      *)
(* start would have it.                                                     *)
OwnsApp ==
    \A c \in Commands :
      /\ cmd[c].pc \in Unspawned => app[c].state = "none"
      /\ cmd[c].pc \in Spawned => app[c].tree = cmd[c].tree /\ app[c].port = cmd[c].port
      /\ cmd[c].pc \in Spawned \cup {"spawn"} => Is(c, "start")
      /\ cmd[c].pc # "unlinked"

(* What a command has read of its record still holds, and stop removes the  *)
(* record of an application that has ended.                                 *)
SeesRecord ==
    \A c \in Commands :
      /\ cmd[c].pc \in {"check", "ask", "kill", "remove"} =>
           cmd[c].seen \in Commands /\ boot[cmd[c].tree] = cmd[c].seen
      /\ At(c, "remove") => ~Running(cmd[c].seen)

(* A record is of a start that is over, and of its own worktree. *)
RecordsOwn ==
    \A w \in Worktrees :
      boot[w] # NoApp => At(boot[w], "done") /\ app[boot[w]].tree = w

(* A start spawns only if no application of its worktree runs. *)
Alone ==
    \A c, a \in Commands :
      cmd[c].pc \in Spawned \cup {"spawn"} /\ a # c /\ Running(a) => app[a].tree # cmd[c].tree

(* No other application serves on the port of a start until it has its answer. *)
Choosing == {"read", "check", "ask", "spawn", "wait"}

PortFree ==
    \A c, a \in Commands :
      /\ Is(c, "start") /\ cmd[c].pc \in Choosing
      /\ a # c /\ app[a].state = "serving"
      => app[a].port # cmd[c].port

(* No start is over before its application serves, or has ended, unless     *)
(* another program has answered in its place; it then never gets the port.  *)
Waited ==
    \A a \in Commands :
      app[a].state = "starting" => At(a, "wait") \/ <<app[a].port, "answering">> \in foreign

Recorded == \A a \in Commands : Running(a) /\ ~Active(a) => boot[app[a].tree] = a

CalmInv == /\ Apart /\ OwnsApp /\ SeesRecord /\ RecordsOwn
           /\ Alone /\ PortFree /\ Waited /\ Recorded

(* While nobody is misled: no other program answers for a start that waits, *)
(* and the application whose process was found serves.                      *)
SureInv ==
    /\ \A c \in Commands :
         Is(c, "start") /\ cmd[c].pc \in Choosing => <<cmd[c].port, "answering">> \notin foreign
    /\ \A c \in Commands : At(c, "ask") => app[cmd[c].seen].state = "serving"
    /\ \A a \in Commands : app[a].state = "starting" => At(a, "wait")

BootInv == TypeOK /\ (calm => CalmInv) /\ (calm /\ ~misled => SureInv)

-----------------------------------------------------------------------------
LEMMA Consts ==
  /\ MaxCommands \in Nat /\ Base \in Nat /\ PortRange \in Nat /\ FallbackRange \in Nat
  /\ MaxPort \in Nat /\ Base \in Ports /\ Overrides \subseteq Ports
  /\ \A w \in Worktrees : Offset(w) \in Nat
  /\ NoApp \notin Commands /\ NotCalled.tree \in Worktrees
<1>1. NotCalled.tree = CHOOSE w \in Worktrees : TRUE
  BY DEF NotCalled
<1>2. (CHOOSE w \in Worktrees : TRUE) \in Worktrees
  BY BootAssumption
<1> QED BY <1>1, <1>2, BootAssumption DEF Ports, NoApp, Commands

LEMMA SumIsPort == ASSUME NEW a \in Nat, NEW b \in Nat PROVE SaturatingAdd(a, b) \in Ports
  BY Consts DEF SaturatingAdd, Ports

(* Every port that is probed or returned fits in 16 bits. *)
LEMMA ResolvedIsPort == ASSUME NEW w \in Worktrees PROVE ResolvePort(w) \subseteq Ports
<1> DEFINE first == SaturatingAdd(Base, Offset(w))
<1>1. first \in Ports
  BY Consts, SumIsPort
<1>2. ASSUME NEW i \in 1..(PortRange + FallbackRange)
      PROVE  (IF i <= PortRange THEN SaturatingAdd(first, i - 1)
              ELSE SaturatingAdd(Base, i - PortRange - 1)) \in Ports
  <2> HIDE DEF first
  <2>0. first \in Nat /\ i \in Nat \ {0}
    BY <1>1, Consts DEF Ports
  <2>1. CASE i <= PortRange
    <3>1. i - 1 \in Nat
      BY <2>0
    <3> QED BY <2>0, <2>1, <3>1, SumIsPort
  <2>2. CASE ~(i <= PortRange)
    <3>1. i - PortRange - 1 \in Nat
      BY <2>0, <2>2, Consts
    <3> QED BY <2>2, <3>1, Consts, SumIsPort
  <2> QED BY <2>1, <2>2
<1>3. Candidates[w] = [i \in 1..(PortRange + FallbackRange) |->
                         IF i <= PortRange THEN SaturatingAdd(first, i - 1)
                         ELSE SaturatingAdd(Base, i - PortRange - 1)]
  BY DEF Candidates
<1>4. \A i \in DOMAIN Candidates[w] : Candidates[w][i] \in Ports
  <2> HIDE DEF first
  <2> QED BY <1>2, <1>3
<1> QED BY <1>4, Consts DEF ResolvePort

(* A command that moves on keeps its locals, one that ends loses them, and  *)
(* the others stay where they are.                                          *)
LEMMA GotoFacts ==
  ASSUME TypeOK, NEW c \in Commands, NEW l, Goto(c, l)
  PROVE  /\ cmd'[c].pc = l /\ cmd'[c].op = cmd[c].op /\ cmd'[c].tree = cmd[c].tree
         /\ cmd'[c].port = cmd[c].port /\ cmd'[c].seen = cmd[c].seen
         /\ \A d \in Commands : d # c => cmd'[d] = cmd[d]
         /\ said' = "none"
  BY DEF Goto, TypeOK

LEMMA ReportFacts ==
  ASSUME TypeOK, NEW c \in Commands, NEW s, Report(c, s)
  PROVE  /\ cmd'[c].pc = "done"
         /\ \A d \in Commands : d # c => cmd'[d] = cmd[d]
         /\ said' = s
  BY DEF Report, Ended, NotCalled, TypeOK

-----------------------------------------------------------------------------
LEMMA TypeInit == Init => TypeOK
<1> SUFFICES ASSUME Init PROVE TypeOK
  OBVIOUS
<1>1. NotCalled \in [pc : {"idle"}, op : {"start"}, tree : Worktrees, port : Ports, seen : {NoApp}]
  BY Consts DEF NotCalled
<1>2. NotSpawned \in [state : {"none"}, tree : Worktrees, port : Ports]
  BY Consts DEF NotSpawned
<1> QED BY <1>1, <1>2 DEF Init, TypeOK

LEMMA TypeStep == TypeOK /\ [Next]_vars => TypeOK'
<1> SUFFICES ASSUME TypeOK, [Next]_vars PROVE TypeOK'
  OBVIOUS
<1>a. misled' \in BOOLEAN
  BY DEF TypeOK, Next, AppDies, Occupy, vars
<1> USE <1>a DEF TypeOK
<1>0. /\ Ended \in [pc : {"done"}, op : {"start"}, tree : Worktrees, port : Ports, seen : {NoApp}]
      /\ \A c \in Commands : cmd[c].tree \in Worktrees /\ cmd[c].port \in Ports
                             /\ boot[cmd[c].tree] \in Commands \cup {NoApp}
  BY Consts DEF Ended, NotCalled
<1> DEFINE CmdType == [pc : {"idle", "read", "check", "ask", "spawn", "wait", "write",
                             "linked", "unlinked", "kill", "remove", "done"},
                       op : {"start", "status", "stop"}, tree : Worktrees, port : Ports,
                       seen : Commands \cup {NoApp}]
<1>1. ASSUME NEW c \in Commands, NEW s, Report(c, s)
      PROVE  cmd' \in [Commands -> CmdType] /\ said' = s
  BY <1>0, <1>1 DEF Report
<1>2. ASSUME NEW c \in Commands, NEW l, Goto(c, l),
             l \in {"ask", "spawn", "wait", "write", "linked", "kill", "remove"}
      PROVE  cmd' \in [Commands -> CmdType] /\ said' = "none"
  BY <1>2 DEF Goto
<1>3. ASSUME NEW c \in Commands, Launch(c) PROVE TypeOK'
  <2>1. PICK o \in {"start", "status", "stop"}, w \in Worktrees :
          \E p \in IF o = "start" THEN ResolvePort(w) \cup Overrides ELSE {Base} :
             cmd' = [cmd EXCEPT ![c] = [pc |-> "read", op |-> o, tree |-> w, port |-> p, seen |-> NoApp]]
    BY <1>3 DEF Launch
  <2>2. PICK p \in Ports :
          cmd' = [cmd EXCEPT ![c] = [pc |-> "read", op |-> o, tree |-> w, port |-> p, seen |-> NoApp]]
    BY <2>1, ResolvedIsPort, Consts
  <2>3. cmd' \in [Commands -> CmdType]
    BY <2>2
  <2> QED BY <1>3, <2>3 DEF Launch, Calm
<1>4. ASSUME NEW c \in Commands, Step(c) PROVE TypeOK'
  <2>1. CASE ReadRecord(c)
    BY <1>0, <2>1 DEF ReadRecord
  <2>2. CASE ReadNothing(c)
    BY <1>1, <1>2, <2>2 DEF ReadNothing
  <2>3. CASE PidProbe(c)
    BY <1>1, <1>2, <2>3 DEF PidProbe, Unhealthy
  <2>4. CASE HttpProbe(c)
    <3>1. /\ Goto(c, "spawn") \/ \E s \in {"reused", "ok", "failed"} : Report(c, s)
          /\ UNCHANGED <<app, boot, foreign, kills, calm>>
      BY <2>4 DEF HttpProbe, Unhealthy
    <3> QED BY <1>1, <1>2, <3>1
  <2>5. CASE Spawn(c)
    <3>1. app' \in [Commands -> [state : {"none", "starting", "serving", "dead"},
                                 tree : Worktrees, port : Ports]]
      BY <1>0, <2>5 DEF Spawn
    <3> QED BY <1>2, <2>5, <3>1 DEF Spawn
  <2>6. CASE SpawnFails(c)
    BY <1>1, <2>6 DEF SpawnFails
  <2>7. CASE Ready(c)
    BY <1>2, <2>7 DEF Ready
  <2>8. CASE Timeout(c)
    BY <1>1, <2>8 DEF Timeout, Calm
  <2>9. CASE Truncate(c)
    BY <1>2, <2>9 DEF Truncate
  <2>10. CASE Write(c)
    <3>1. boot' \in [Worktrees -> Commands \cup {NoApp}]
      BY <1>0, <2>10 DEF Write
    <3> QED BY <1>1, <2>10, <3>1 DEF Write
  <2>11. CASE WriteFails(c)
    BY <1>1, <2>11 DEF WriteFails, Calm
  <2>12. CASE StopCheck(c)
    <3>1. /\ \E l \in {"kill", "remove"} : Goto(c, l)
          /\ UNCHANGED <<app, boot, foreign, kills, calm>>
      BY <2>12 DEF StopCheck
    <3> QED BY <1>2, <3>1
  <2>13. CASE StopPid(c)
    <3>1. app' \in [Commands -> [state : {"none", "starting", "serving", "dead"},
                                 tree : Worktrees, port : Ports]]
      BY <2>13 DEF StopPid
    <3> QED BY <1>2, <2>13, <3>1 DEF StopPid
  <2>14. CASE StopPidFails(c)
    BY <1>1, <2>14 DEF StopPidFails
  <2>15. CASE Remove(c)
    <3>1. cmd' \in [Commands -> CmdType]
      BY <1>0, <2>15 DEF Remove
    <3> QED BY <2>15, <3>1 DEF Remove
  <2> QED BY <1>4, <2>1, <2>2, <2>3, <2>4, <2>5, <2>6, <2>7, <2>8, <2>9, <2>10, <2>11, <2>12,
             <2>13, <2>14, <2>15 DEF Step
<1>5. ASSUME NEW c \in Commands, Kill(c) PROVE TypeOK'
  BY <1>1, <1>5 DEF Kill, Calm
<1>6. ASSUME NEW a \in Commands, Bind(a) \/ AppDies(a) PROVE TypeOK'
  BY <1>6 DEF Bind, AppDies
<1>7. ASSUME NEW p \in Ports, Occupy(p) PROVE TypeOK'
  BY <1>7 DEF Occupy
<1>8. CASE UNCHANGED vars
  BY <1>8 DEF vars
<1> QED BY <1>3, <1>4, <1>5, <1>6, <1>7, <1>8 DEF Next

-----------------------------------------------------------------------------
(* A start is answered by its own application, or by no application. *)
LEMMA AnswerIsOwn ==
  ASSUME TypeOK, CalmInv, NEW c \in Commands, At(c, "wait"), HttpOk(cmd[c].port)
  PROVE  Listening(c, cmd[c].port) \/ <<cmd[c].port, "answering">> \in foreign
<1> SUFFICES ASSUME <<cmd[c].port, "answering">> \notin foreign PROVE Listening(c, cmd[c].port)
  OBVIOUS
<1>1. PICK a \in Commands : Listening(a, cmd[c].port)
  BY DEF HttpOk
<1>2. Is(c, "start")
  BY DEF CalmInv, OwnsApp, Spawned, At
<1>3. a = c
  BY <1>1, <1>2 DEF CalmInv, PortFree, Choosing, Listening, At
<1> QED BY <1>1, <1>3

(* Whoever finds no application in its record has none that runs. *)
LEMMA NoneRuns ==
  ASSUME TypeOK, CalmInv, NEW c \in Commands, cmd[c].pc \in {"read", "check", "ask"},
         boot[cmd[c].tree] = NoApp \/ ~Running(boot[cmd[c].tree]),
         NEW a \in Commands, Running(a)
  PROVE  app[a].tree # cmd[c].tree
<1>1. Active(c) /\ a # c
  BY DEF Active, CalmInv, OwnsApp, Unspawned, Running
<1>2. CASE Active(a)
  <2>1. app[a].tree = cmd[a].tree
    BY <1>2 DEF TypeOK, CalmInv, OwnsApp, Unspawned, Spawned, Running, Active
  <2> QED BY <1>1, <1>2, <2>1 DEF CalmInv, Apart
<1>3. CASE ~Active(a)
  BY <1>3, Consts DEF CalmInv, Recorded
<1> QED BY <1>2, <1>3

(* If nobody answers at the recorded address, the application has ended. *)
LEMMA UnhealthyIsOver ==
  ASSUME TypeOK, CalmInv, NEW c \in Commands, At(c, "ask"), ~HttpOk(SeenPort(c))
  PROVE  ~Running(cmd[c].seen)
<1> DEFINE a == cmd[c].seen
<1>1. a \in Commands /\ boot[cmd[c].tree] = a /\ cmd[c].tree \in Worktrees
  BY DEF CalmInv, SeesRecord, At, TypeOK
<1>2. At(a, "done")
  BY <1>1, Consts DEF CalmInv, RecordsOwn
<1>3. SUFFICES ASSUME Running(a) PROVE FALSE
  OBVIOUS
<1>4. app[a].state = "serving" \/ <<app[a].port, "answering">> \in foreign
  BY <1>1, <1>2, <1>3 DEF CalmInv, Waited, Running, At
<1>5. HttpOk(app[a].port)
  BY <1>1, <1>4 DEF HttpOk, Listening
<1> QED BY <1>5 DEF SeenPort

(* A command that ends without leaving an application that runs disturbs    *)
(* nothing.                                                                 *)
LEMMA EndKeeps ==
  ASSUME TypeOK, CalmInv, NEW c \in Commands, Active(c), ~Running(c),
         cmd'[c].pc = "done", \A d \in Commands : d # c => cmd'[d] = cmd[d],
         UNCHANGED <<app, boot, foreign>>
  PROVE  CalmInv'
<1> USE DEF CalmInv, Active, At, Is, Running
<1>1. Apart' BY DEF Apart
<1>2. OwnsApp' BY DEF OwnsApp, Unspawned, Spawned
<1>3. SeesRecord' BY DEF SeesRecord
<1>4. RecordsOwn' BY DEF RecordsOwn, TypeOK
<1>5. Alone' BY DEF Alone, Spawned
<1>6. PortFree' BY DEF PortFree, Choosing
<1>7. Waited' BY DEF Waited
<1>8. Recorded' BY DEF Recorded
<1> QED BY <1>1, <1>2, <1>3, <1>4, <1>5, <1>6, <1>7, <1>8

LEMMA CalmInvInit == Init => CalmInv
<1> SUFFICES ASSUME Init PROVE CalmInv
  OBVIOUS
<1>1. \A c \in Commands : /\ cmd[c].pc = "idle" /\ app[c].state = "none"
  BY DEF Init, NotCalled, NotSpawned
<1>2. \A w \in Worktrees : boot[w] = NoApp
  BY DEF Init
<1> QED BY <1>1, <1>2 DEF CalmInv, Apart, OwnsApp, Unspawned, Spawned, SeesRecord, RecordsOwn,
       Alone, PortFree, Waited, Recorded, Active, Running, At

(* Launch: the port was free and the worktree has no other command. *)
LEMMA LaunchKeeps ==
  ASSUME TypeOK, CalmInv, NEW c \in Commands, Launch(c), calm'
  PROVE  CalmInv'
<1>1. PICK o \in {"start", "status", "stop"}, w \in Worktrees :
        \E p \in IF o = "start" THEN ResolvePort(w) \cup Overrides ELSE {Base} :
           /\ cmd' = [cmd EXCEPT ![c] = [pc |-> "read", op |-> o, tree |-> w, port |-> p, seen |-> NoApp]]
           /\ o = "start" => CanBindPort(p)
           /\ ~\E d \in Commands : Meets(d, o, w, p)
  BY DEF Launch, Calm
<1>2. PICK p : /\ cmd' = [cmd EXCEPT ![c] = [pc |-> "read", op |-> o, tree |-> w, port |-> p, seen |-> NoApp]]
               /\ o = "start" => CanBindPort(p)
               /\ ~\E d \in Commands : Meets(d, o, w, p)
  BY <1>1
<1>3. /\ cmd'[c].pc = "read" /\ cmd'[c].op = o /\ cmd'[c].tree = w /\ cmd'[c].port = p
      /\ \A d \in Commands : d # c => cmd'[d] = cmd[d]
      /\ cmd[c].pc = "idle" /\ UNCHANGED <<app, boot, foreign>> /\ app[c].state = "none"
  BY <1>2 DEF Launch, TypeOK, At, CalmInv, OwnsApp, Unspawned
<1> USE DEF CalmInv, Active, At, Is, Running
<1>4. Apart' BY <1>2, <1>3 DEF Apart, Meets
<1>5. OwnsApp' BY <1>3 DEF OwnsApp, Unspawned, Spawned
<1>6. SeesRecord' BY <1>3 DEF SeesRecord
<1>7. RecordsOwn' BY <1>3 DEF RecordsOwn, TypeOK
<1>8. Alone' BY <1>3 DEF Alone, Spawned
<1>9. PortFree' BY <1>2, <1>3 DEF PortFree, Choosing, CanBindPort, Listening
<1>10. Waited' BY <1>3 DEF Waited
<1>11. Recorded' BY <1>3 DEF Recorded
<1> QED BY <1>4, <1>5, <1>6, <1>7, <1>8, <1>9, <1>10, <1>11

(* The steps that only look: at the record, the pid, the port. *)
LEMMA ReadRecordKeeps ==
  ASSUME TypeOK, CalmInv, NEW c \in Commands, ReadRecord(c)
  PROVE  CalmInv'
<1>1. /\ cmd[c].pc = "read" /\ cmd'[c].pc = "check" /\ cmd'[c].seen = boot[cmd[c].tree]
      /\ boot[cmd[c].tree] \in Commands
      /\ cmd'[c].tree = cmd[c].tree /\ cmd'[c].port = cmd[c].port /\ cmd'[c].op = cmd[c].op
      /\ \A d \in Commands : d # c => cmd'[d] = cmd[d]
      /\ UNCHANGED <<app, boot, foreign>>
  BY Consts DEF ReadRecord, At, TypeOK
<1> USE DEF CalmInv, Active, At, Is, Running
<1>2. Apart' BY <1>1 DEF Apart
<1>3. OwnsApp' BY <1>1 DEF OwnsApp, Unspawned, Spawned
<1>4. SeesRecord' BY <1>1 DEF SeesRecord
<1>5. RecordsOwn' BY <1>1 DEF RecordsOwn, TypeOK
<1>6. Alone' BY <1>1 DEF Alone, Spawned
<1>7. PortFree' BY <1>1 DEF PortFree, Choosing
<1>8. Waited' BY <1>1 DEF Waited
<1>9. Recorded' BY <1>1 DEF Recorded
<1> QED BY <1>2, <1>3, <1>4, <1>5, <1>6, <1>7, <1>8, <1>9

LEMMA ToAskKeeps ==
  ASSUME TypeOK, CalmInv, NEW c \in Commands, At(c, "check"), Goto(c, "ask"),
         UNCHANGED <<app, boot, foreign>>
  PROVE  CalmInv'
<1>1. /\ cmd[c].pc = "check" /\ cmd'[c].pc = "ask" /\ cmd'[c].seen = cmd[c].seen
      /\ cmd'[c].tree = cmd[c].tree /\ cmd'[c].port = cmd[c].port /\ cmd'[c].op = cmd[c].op
      /\ \A d \in Commands : d # c => cmd'[d] = cmd[d]
  BY GotoFacts DEF At
<1> USE DEF CalmInv, Active, At, Is, Running
<1>2. Apart' BY <1>1 DEF Apart
<1>3. OwnsApp' BY <1>1 DEF OwnsApp, Unspawned, Spawned
<1>4. SeesRecord' BY <1>1 DEF SeesRecord
<1>5. RecordsOwn' BY <1>1 DEF RecordsOwn, TypeOK
<1>6. Alone' BY <1>1 DEF Alone, Spawned
<1>7. PortFree' BY <1>1 DEF PortFree, Choosing
<1>8. Waited' BY <1>1 DEF Waited
<1>9. Recorded' BY <1>1 DEF Recorded
<1> QED BY <1>2, <1>3, <1>4, <1>5, <1>6, <1>7, <1>8, <1>9

LEMMA ToSpawnKeeps ==
  ASSUME TypeOK, CalmInv, NEW c \in Commands, Goto(c, "spawn"), Is(c, "start"),
         cmd[c].pc \in {"read", "check", "ask"},
         boot[cmd[c].tree] = NoApp \/ ~Running(boot[cmd[c].tree]),
         UNCHANGED <<app, boot, foreign>>
  PROVE  CalmInv'
<1>1. /\ cmd'[c].pc = "spawn"
      /\ cmd'[c].tree = cmd[c].tree /\ cmd'[c].port = cmd[c].port /\ cmd'[c].op = cmd[c].op
      /\ \A d \in Commands : d # c => cmd'[d] = cmd[d]
  BY GotoFacts
<1>2. \A a \in Commands : Running(a) => app[a].tree # cmd[c].tree
  BY NoneRuns
<1> USE DEF CalmInv, Active, At, Is, Running
<1>3. Apart' BY <1>1 DEF Apart
<1>4. OwnsApp' BY <1>1 DEF OwnsApp, Unspawned, Spawned
<1>5. SeesRecord' BY <1>1 DEF SeesRecord
<1>6. RecordsOwn' BY <1>1 DEF RecordsOwn, TypeOK
<1>7. Alone' BY <1>1, <1>2 DEF Alone, Spawned
<1>8. PortFree' BY <1>1 DEF PortFree, Choosing
<1>9. Waited' BY <1>1 DEF Waited
<1>10. Recorded' BY <1>1 DEF Recorded
<1> QED BY <1>3, <1>4, <1>5, <1>6, <1>7, <1>8, <1>9, <1>10

LEMMA ReadyKeeps ==
  ASSUME TypeOK, CalmInv, NEW c \in Commands, Ready(c)
  PROVE  CalmInv'
<1>1. /\ cmd[c].pc = "wait" /\ cmd'[c].pc = "write"
      /\ cmd'[c].tree = cmd[c].tree /\ cmd'[c].port = cmd[c].port /\ cmd'[c].op = cmd[c].op
      /\ \A d \in Commands : d # c => cmd'[d] = cmd[d]
      /\ UNCHANGED <<app, boot, foreign>>
  BY GotoFacts DEF Ready, At
<1>2. app[c].state = "serving" \/ <<cmd[c].port, "answering">> \in foreign
  BY AnswerIsOwn DEF Ready, Listening
<1> USE DEF CalmInv, Active, At, Is, Running
<1>3. Apart' BY <1>1 DEF Apart
<1>4. OwnsApp' BY <1>1 DEF OwnsApp, Unspawned, Spawned
<1>5. SeesRecord' BY <1>1 DEF SeesRecord
<1>6. RecordsOwn' BY <1>1 DEF RecordsOwn, TypeOK
<1>7. Alone' BY <1>1 DEF Alone, Spawned
<1>8. PortFree' BY <1>1 DEF PortFree, Choosing
<1>9. Waited' BY <1>1, <1>2 DEF Waited, OwnsApp, Spawned
<1>10. Recorded' BY <1>1 DEF Recorded
<1> QED BY <1>3, <1>4, <1>5, <1>6, <1>7, <1>8, <1>9, <1>10

LEMMA StopCheckKeeps ==
  ASSUME TypeOK, CalmInv, NEW c \in Commands, StopCheck(c)
  PROVE  CalmInv'
<1>1. PICK l \in {"kill", "remove"} :
        Goto(c, l) /\ (l = "remove" => ~IsPidAlive(cmd[c].seen))
  BY DEF StopCheck
<1>2. /\ cmd[c].pc = "check" /\ cmd'[c].pc = l /\ cmd'[c].seen = cmd[c].seen
      /\ cmd'[c].tree = cmd[c].tree /\ cmd'[c].port = cmd[c].port /\ cmd'[c].op = cmd[c].op
      /\ \A d \in Commands : d # c => cmd'[d] = cmd[d]
      /\ UNCHANGED <<app, boot, foreign>>
  BY <1>1, GotoFacts DEF StopCheck, At
<1>3. l = "remove" => ~Running(cmd[c].seen)
  BY <1>1 DEF IsPidAlive
<1> USE DEF CalmInv, Active, At, Is, Running
<1>4. Apart' BY <1>2 DEF Apart
<1>5. OwnsApp' BY <1>2 DEF OwnsApp, Unspawned, Spawned
<1>6. SeesRecord' BY <1>2, <1>3 DEF SeesRecord
<1>7. RecordsOwn' BY <1>2 DEF RecordsOwn, TypeOK
<1>8. Alone' BY <1>2 DEF Alone, Spawned
<1>9. PortFree' BY <1>2 DEF PortFree, Choosing
<1>10. Waited' BY <1>2 DEF Waited
<1>11. Recorded' BY <1>2 DEF Recorded
<1> QED BY <1>4, <1>5, <1>6, <1>7, <1>8, <1>9, <1>10, <1>11

(* Spawn, and the end of an application that is stopped. *)
LEMMA SpawnKeeps ==
  ASSUME TypeOK, CalmInv, NEW c \in Commands, Spawn(c)
  PROVE  CalmInv'
<1>1. /\ cmd[c].pc = "spawn" /\ cmd'[c].pc = "wait" /\ cmd'[c].seen = cmd[c].seen
      /\ cmd'[c].tree = cmd[c].tree /\ cmd'[c].port = cmd[c].port /\ cmd'[c].op = cmd[c].op
      /\ \A d \in Commands : d # c => cmd'[d] = cmd[d]
      /\ UNCHANGED <<boot, foreign>>
  BY GotoFacts DEF Spawn, At
<1>2. /\ app'[c].state = "starting" /\ app'[c].tree = cmd[c].tree /\ app'[c].port = cmd[c].port
      /\ \A a \in Commands : a # c => app'[a] = app[a]
  BY DEF Spawn, TypeOK
<1>3. \A d \in Commands : cmd[d].pc \in {"check", "ask", "kill", "remove"} => cmd[d].seen # c
  BY <1>1, Consts DEF CalmInv, SeesRecord, RecordsOwn, At, TypeOK
<1> USE DEF CalmInv, Active, At, Is, Running
<1>4. Apart' BY <1>1, <1>2 DEF Apart
<1>5. OwnsApp' BY <1>1, <1>2 DEF OwnsApp, Unspawned, Spawned
<1>6. SeesRecord' BY <1>1, <1>2, <1>3 DEF SeesRecord
<1>7. RecordsOwn' BY <1>1, <1>2 DEF RecordsOwn, TypeOK
<1>8. Alone' BY <1>1, <1>2 DEF Alone, Spawned, Apart
<1>9. PortFree' BY <1>1, <1>2 DEF PortFree, Choosing
<1>10. Waited' BY <1>1, <1>2 DEF Waited
<1>11. Recorded' BY <1>1, <1>2 DEF Recorded
<1> QED BY <1>4, <1>5, <1>6, <1>7, <1>8, <1>9, <1>10, <1>11

LEMMA StopPidKeeps ==
  ASSUME TypeOK, CalmInv, NEW c \in Commands, StopPid(c)
  PROVE  CalmInv'
<1>1. /\ cmd[c].pc = "kill" /\ cmd'[c].pc = "remove" /\ cmd'[c].seen = cmd[c].seen
      /\ cmd'[c].tree = cmd[c].tree /\ cmd'[c].port = cmd[c].port /\ cmd'[c].op = cmd[c].op
      /\ \A d \in Commands : d # c => cmd'[d] = cmd[d]
      /\ UNCHANGED <<boot, foreign>>
  BY GotoFacts DEF StopPid, At
<1>2. /\ cmd[c].seen \in Commands /\ boot[cmd[c].tree] = cmd[c].seen /\ cmd[c].tree \in Worktrees
  BY <1>1 DEF CalmInv, SeesRecord, TypeOK
<1>3. cmd[cmd[c].seen].pc = "done"
  BY <1>2, Consts DEF CalmInv, RecordsOwn, At
<1>4. /\ app'[cmd[c].seen].state = "dead"
      /\ \A a \in Commands : /\ app'[a].tree = app[a].tree /\ app'[a].port = app[a].port
                             /\ a # cmd[c].seen => app'[a].state = app[a].state
  BY <1>2 DEF StopPid, TypeOK
<1> USE DEF CalmInv, Active, At, Is, Running
<1>5. Apart' BY <1>1, <1>2, <1>3, <1>4 DEF Apart
<1>6. OwnsApp' BY <1>1, <1>2, <1>3, <1>4 DEF OwnsApp, Unspawned, Spawned
<1>7. SeesRecord' BY <1>1, <1>2, <1>3, <1>4 DEF SeesRecord
<1>8. RecordsOwn' BY <1>1, <1>2, <1>3, <1>4 DEF RecordsOwn, TypeOK
<1>9. Alone' BY <1>1, <1>2, <1>3, <1>4 DEF Alone, Spawned
<1>10. PortFree' BY <1>1, <1>2, <1>3, <1>4 DEF PortFree, Choosing
<1>11. Waited' BY <1>1, <1>2, <1>3, <1>4 DEF Waited
<1>12. Recorded' BY <1>1, <1>2, <1>3, <1>4 DEF Recorded
<1> QED BY <1>5, <1>6, <1>7, <1>8, <1>9, <1>10, <1>11, <1>12

(* The record is emptied, written and removed. *)
LEMMA TruncateKeeps ==
  ASSUME TypeOK, CalmInv, NEW c \in Commands, Truncate(c)
  PROVE  CalmInv'
<1>1. /\ cmd[c].pc = "write" /\ cmd'[c].pc = "linked" /\ cmd'[c].seen = cmd[c].seen
      /\ cmd'[c].tree = cmd[c].tree /\ cmd'[c].port = cmd[c].port /\ cmd'[c].op = cmd[c].op
      /\ \A d \in Commands : d # c => cmd'[d] = cmd[d]
      /\ UNCHANGED <<app, foreign>>
  BY GotoFacts DEF Truncate, At
<1>2. /\ boot'[cmd[c].tree] = NoApp
      /\ \A w \in Worktrees : w # cmd[c].tree => boot'[w] = boot[w]
      /\ \A d \in Commands : cmd[d].tree \in Worktrees /\ app[d].tree \in Worktrees
      /\ \A w \in Worktrees : boot[w] \in Commands \cup {NoApp}
  BY DEF Truncate, TypeOK
<1> USE DEF CalmInv, Active, At, Is, Running
<1>3. Apart' BY <1>1, <1>2 DEF Apart
<1>4. OwnsApp' BY <1>1, <1>2 DEF OwnsApp, Unspawned, Spawned
<1>5. SeesRecord' BY <1>1, <1>2 DEF SeesRecord, Apart
<1>6. RecordsOwn' BY <1>1, <1>2 DEF RecordsOwn
<1>7. Alone' BY <1>1, <1>2 DEF Alone, Spawned
<1>8. PortFree' BY <1>1, <1>2 DEF PortFree, Choosing
<1>9. Waited' BY <1>1, <1>2 DEF Waited
<1>10. Recorded' BY <1>1, <1>2 DEF Recorded, Alone, Spawned
<1> QED BY <1>3, <1>4, <1>5, <1>6, <1>7, <1>8, <1>9, <1>10

LEMMA WriteKeeps ==
  ASSUME TypeOK, CalmInv, NEW c \in Commands, Write(c)
  PROVE  CalmInv'
<1>1. /\ cmd[c].pc = "linked" /\ cmd'[c].pc = "done"
      /\ \A d \in Commands : d # c => cmd'[d] = cmd[d]
      /\ UNCHANGED <<app, foreign>>
  BY ReportFacts DEF Write, At, CalmInv, OwnsApp
<1>2. /\ boot'[cmd[c].tree] = c
      /\ \A w \in Worktrees : w # cmd[c].tree => boot'[w] = boot[w]
      /\ \A d \in Commands : cmd[d].tree \in Worktrees /\ app[d].tree \in Worktrees
      /\ \A w \in Worktrees : boot[w] \in Commands \cup {NoApp}
  BY <1>1 DEF Write, TypeOK, At
<1>3. app[c].tree = cmd[c].tree
  BY <1>1 DEF CalmInv, OwnsApp, Spawned
<1> USE DEF CalmInv, Active, At, Is, Running
<1>4. Apart' BY <1>1, <1>2 DEF Apart
<1>5. OwnsApp' BY <1>1, <1>2 DEF OwnsApp, Unspawned, Spawned
<1>6. SeesRecord' BY <1>1, <1>2 DEF SeesRecord, Apart
<1>7. RecordsOwn' BY <1>1, <1>2, <1>3 DEF RecordsOwn
<1>8. Alone' BY <1>1, <1>2 DEF Alone, Spawned
<1>9. PortFree' BY <1>1, <1>2 DEF PortFree, Choosing
<1>10. Waited' BY <1>1, <1>2 DEF Waited
<1>11. Recorded' BY <1>1, <1>2, <1>3 DEF Recorded, Alone, Spawned
<1> QED BY <1>4, <1>5, <1>6, <1>7, <1>8, <1>9, <1>10, <1>11

LEMMA RemoveKeeps ==
  ASSUME TypeOK, CalmInv, NEW c \in Commands, Remove(c)
  PROVE  CalmInv'
<1>1. \A d \in Commands : d # c /\ At(d, "linked") => cmd[d].tree # cmd[c].tree
  BY DEF Remove, CalmInv, Apart, Active, At
<1>2. /\ cmd[c].pc = "remove" /\ cmd'[c].pc = "done"
      /\ \A d \in Commands : d # c => cmd'[d] = cmd[d]
      /\ UNCHANGED <<app, foreign>>
  BY <1>1 DEF Remove, At, Ended, NotCalled
<1>3. /\ boot'[cmd[c].tree] = NoApp
      /\ \A w \in Worktrees : w # cmd[c].tree => boot'[w] = boot[w]
      /\ \A d \in Commands : cmd[d].tree \in Worktrees /\ app[d].tree \in Worktrees
      /\ \A w \in Worktrees : boot[w] \in Commands \cup {NoApp}
  BY DEF Remove, TypeOK
<1>4. boot[cmd[c].tree] = cmd[c].seen /\ ~Running(cmd[c].seen)
  BY <1>2 DEF CalmInv, SeesRecord, At
<1> USE DEF CalmInv, Active, At, Is, Running
<1>5. Apart' BY <1>2, <1>3 DEF Apart
<1>6. OwnsApp' BY <1>2, <1>3 DEF OwnsApp, Unspawned, Spawned
<1>7. SeesRecord' BY <1>2, <1>3 DEF SeesRecord, Apart
<1>8. RecordsOwn' BY <1>2, <1>3 DEF RecordsOwn
<1>9. Alone' BY <1>2, <1>3 DEF Alone, Spawned
<1>10. PortFree' BY <1>2, <1>3 DEF PortFree, Choosing
<1>11. Waited' BY <1>2, <1>3 DEF Waited
<1>12. Recorded' BY <1>2, <1>3, <1>4 DEF Recorded, OwnsApp, Unspawned
<1> QED BY <1>5, <1>6, <1>7, <1>8, <1>9, <1>10, <1>11, <1>12

(* The applications: they bind their port or end. *)
LEMMA AppKeeps ==
  ASSUME TypeOK, CalmInv, NEW a \in Commands, Bind(a) \/ AppDies(a)
  PROVE  CalmInv'
<1>1. /\ UNCHANGED <<cmd, boot, foreign>> /\ Running(a)
      /\ app'[a].state \in {"serving", "dead"}
      /\ app'[a].state = "serving" => app[a].state = "starting" /\ CanBindPort(app[a].port)
      /\ \A b \in Commands : /\ app'[b].tree = app[b].tree /\ app'[b].port = app[b].port
                             /\ b # a => app'[b].state = app[b].state
  BY DEF Bind, AppDies, TypeOK, Running
<1>2. app[a].state = "starting" /\ CanBindPort(app[a].port) =>
        cmd[a].pc = "wait" /\ Is(a, "start") /\ app[a].port = cmd[a].port
  BY DEF CalmInv, Waited, OwnsApp, Spawned, At, CanBindPort, Manners
<1> USE DEF CalmInv, Active, At, Is, Running
<1>3. Apart' BY <1>1 DEF Apart
<1>4. OwnsApp' BY <1>1 DEF OwnsApp, Unspawned, Spawned
<1>5. SeesRecord' BY <1>1 DEF SeesRecord
<1>6. RecordsOwn' BY <1>1 DEF RecordsOwn, TypeOK
<1>7. Alone' BY <1>1 DEF Alone, Spawned
<1>8. PortFree' BY <1>1, <1>2 DEF PortFree, Choosing, Apart
<1>9. Waited' BY <1>1 DEF Waited
<1>10. Recorded' BY <1>1 DEF Recorded
<1> QED BY <1>3, <1>4, <1>5, <1>6, <1>7, <1>8, <1>9, <1>10

-----------------------------------------------------------------------------
LEMMA BootInvInit == Init => BootInv
<1>1. Init => SureInv
  BY DEF Init, NotCalled, NotSpawned, SureInv, Choosing, At
<1> QED BY <1>1, TypeInit, CalmInvInit DEF BootInv

LEMMA CalmInvStep ==
  ASSUME BootInv, [Next]_vars, calm'
  PROVE  CalmInv'
<1>0. TypeOK
  BY DEF BootInv
<1>1. CASE UNCHANGED vars
  BY <1>1 DEF BootInv, vars, CalmInv, Apart, OwnsApp, SeesRecord, RecordsOwn, Alone, PortFree,
             Waited, Recorded, Active, At, Is, Running
<1>2. ASSUME NEW c \in Commands, Launch(c) PROVE CalmInv'
  BY <1>2, LaunchKeeps DEF BootInv, Launch, Calm
<1>3. ASSUME NEW c \in Commands, Step(c) PROVE CalmInv'
  <2>0. CASE calm
    <3> USE <1>0, <2>0 DEF BootInv
    <3>0. /\ Active(c)
          /\ cmd[c].pc \in {"read", "check", "ask", "spawn", "kill"} => ~Running(c)
      BY <1>3 DEF Step, ReadRecord, ReadNothing, PidProbe, HttpProbe, Spawn, SpawnFails, Ready, Timeout,
           Truncate, Write, WriteFails, StopCheck, StopPid, StopPidFails, Remove, At, Active,
           CalmInv, OwnsApp, Unspawned, Running
    <3>1. CASE ReadRecord(c)
      BY <3>1, ReadRecordKeeps
    <3>2. CASE ReadNothing(c)
      <4>1. /\ cmd[c].pc = "read" /\ boot[cmd[c].tree] = NoApp /\ UNCHANGED <<app, boot, foreign>>
            /\ \/ Is(c, "start") /\ Goto(c, "spawn")
               \/ Report(c, "missing_boot_metadata")
        BY <3>2 DEF ReadNothing, At
      <4>2. CASE Is(c, "start") /\ Goto(c, "spawn")
        BY <4>1, <4>2, ToSpawnKeeps
      <4>3. CASE Report(c, "missing_boot_metadata")
        BY <3>0, <4>1, <4>3, ReportFacts, EndKeeps
      <4> QED BY <4>1, <4>2, <4>3
    <3>3. CASE PidProbe(c)
      <4>1. /\ At(c, "check") /\ UNCHANGED <<app, boot, foreign>>
            /\ \/ Goto(c, "ask")
               \/ ~IsPidAlive(cmd[c].seen) /\ Is(c, "start") /\ Goto(c, "spawn")
               \/ Report(c, "failed")
        BY <3>3 DEF PidProbe, Unhealthy
      <4>2. CASE Goto(c, "ask")
        BY <4>1, <4>2, ToAskKeeps
      <4>3. CASE ~IsPidAlive(cmd[c].seen) /\ Is(c, "start") /\ Goto(c, "spawn")
        <5>1. ~Running(boot[cmd[c].tree])
          BY <4>1, <4>3 DEF CalmInv, SeesRecord, At, IsPidAlive
        <5> QED BY <4>1, <4>3, <5>1, ToSpawnKeeps DEF At
      <4>4. CASE Report(c, "failed")
        BY <3>0, <4>1, <4>4, ReportFacts, EndKeeps DEF At
      <4> QED BY <4>1, <4>2, <4>3, <4>4
    <3>4. CASE HttpProbe(c)
      <4>1. /\ At(c, "ask") /\ UNCHANGED <<app, boot, foreign>>
            /\ \/ ~HttpOk(SeenPort(c)) /\ Is(c, "start") /\ Goto(c, "spawn")
               \/ \E s \in {"reused", "ok", "failed"} : Report(c, s)
        BY <3>4 DEF HttpProbe, Unhealthy
      <4>2. CASE ~HttpOk(SeenPort(c)) /\ Is(c, "start") /\ Goto(c, "spawn")
        <5>1. ~Running(boot[cmd[c].tree])
          BY <4>1, <4>2, UnhealthyIsOver DEF CalmInv, SeesRecord, At
        <5> QED BY <4>1, <4>2, <5>1, ToSpawnKeeps DEF At
      <4>3. CASE \E s \in {"reused", "ok", "failed"} : Report(c, s)
        BY <3>0, <4>1, <4>3, ReportFacts, EndKeeps DEF At
      <4> QED BY <4>1, <4>2, <4>3
    <3>5. CASE Spawn(c)
      BY <3>5, SpawnKeeps
    <3>6. CASE SpawnFails(c)
      BY <3>0, <3>6, ReportFacts, EndKeeps DEF SpawnFails, At
    <3>7. CASE Ready(c)
      BY <3>7, ReadyKeeps
    <3>8. CASE Timeout(c)
      BY <3>0, <3>8, ReportFacts, EndKeeps DEF Timeout, Calm
    <3>9. CASE Truncate(c)
      BY <3>9, TruncateKeeps
    <3>10. CASE Write(c)
      BY <3>10, WriteKeeps
    <3>11. CASE WriteFails(c)
      BY <3>11 DEF WriteFails, Calm
    <3>12. CASE StopCheck(c)
      BY <3>12, StopCheckKeeps
    <3>13. CASE StopPid(c)
      BY <3>13, StopPidKeeps
    <3>14. CASE StopPidFails(c)
      BY <3>0, <3>14, ReportFacts, EndKeeps DEF StopPidFails, At
    <3>15. CASE Remove(c)
      BY <3>15, RemoveKeeps
    <3> QED BY <1>3, <3>1, <3>2, <3>3, <3>4, <3>5, <3>6, <3>7, <3>8, <3>9, <3>10, <3>11, <3>12,
               <3>13, <3>14, <3>15 DEF Step
  <2>1. CASE ~calm
    BY <1>3, <2>1 DEF Step, ReadRecord, ReadNothing, PidProbe, HttpProbe, Spawn, SpawnFails, Ready,
         Timeout, Truncate, Write, WriteFails, StopCheck, StopPid, StopPidFails, Remove, Calm
  <2> QED BY <2>0, <2>1
<1>4. ASSUME NEW c \in Commands, Kill(c) PROVE CalmInv'
  BY <1>4 DEF Kill, Calm
<1>5. ASSUME NEW a \in Commands, Bind(a) \/ AppDies(a) PROVE CalmInv'
  BY <1>0, <1>5, AppKeeps DEF BootInv, Bind, AppDies
<1>6. ASSUME NEW p \in Ports, Occupy(p) PROVE CalmInv'
  <2>1. CalmInv /\ UNCHANGED <<cmd, app, boot>> /\ foreign \subseteq foreign'
    BY <1>6 DEF Occupy, BootInv
  <2> USE DEF CalmInv, Active, At, Is, Running
  <2>2. Apart' /\ OwnsApp' /\ SeesRecord'
    BY <2>1 DEF Apart, OwnsApp, SeesRecord
  <2>3. RecordsOwn' /\ Alone' /\ PortFree'
    BY <2>1 DEF RecordsOwn, Alone, PortFree
  <2>4. Waited' /\ Recorded'
    BY <2>1 DEF Waited, Recorded
  <2> QED BY <2>2, <2>3, <2>4
<1> QED BY <1>1, <1>2, <1>3, <1>4, <1>5, <1>6 DEF Next

-----------------------------------------------------------------------------
(* While nobody is misled: the steps of the commands, one by one. *)
LEMMA SureGoto ==
  ASSUME TypeOK, SureInv, NEW c \in Commands, NEW l, Goto(c, l),
         l \in Choosing => cmd[c].pc \in Choosing,
         l # "ask", app[c].state = "starting" => l = "wait",
         UNCHANGED <<app, foreign>>
  PROVE  SureInv'
<1>1. /\ cmd'[c].pc = l /\ cmd'[c].port = cmd[c].port /\ cmd'[c].op = cmd[c].op
      /\ \A d \in Commands : d # c => cmd'[d] = cmd[d]
  BY GotoFacts
<1> QED BY <1>1 DEF SureInv, At, Is

LEMMA SureReport ==
  ASSUME TypeOK, SureInv, NEW c \in Commands, NEW s, Report(c, s),
         app[c].state # "starting", UNCHANGED <<app, foreign>>
  PROVE  SureInv'
<1>1. cmd'[c].pc = "done" /\ \A d \in Commands : d # c => cmd'[d] = cmd[d]
  BY ReportFacts
<1> QED BY <1>1 DEF SureInv, Choosing, At, Is

(* A start takes the answer of its own application, which then serves. *)
LEMMA SureReady ==
  ASSUME TypeOK, CalmInv, SureInv, NEW c \in Commands, At(c, "wait"), HttpOk(cmd[c].port)
  PROVE  Listening(c, cmd[c].port)
<1>1. <<cmd[c].port, "answering">> \notin foreign
  BY DEF SureInv, Choosing, CalmInv, OwnsApp, Spawned, At
<1> QED BY <1>1, AnswerIsOwn

(* A recorded application whose process is found serves. *)
LEMMA SureProbe ==
  ASSUME TypeOK, CalmInv, SureInv, NEW c \in Commands, PidProbe(c)
  PROVE  SureInv'
<1>1. /\ cmd[c].pc = "check" /\ UNCHANGED <<app, foreign>>
      /\ app[c].state = "none"
  BY DEF PidProbe, At, CalmInv, OwnsApp, Unspawned
<1>2. CASE IsPidAlive(cmd[c].seen) /\ Goto(c, "ask")
  <2>1. cmd[c].seen \in Commands /\ boot[cmd[c].tree] = cmd[c].seen /\ cmd[c].tree \in Worktrees
    BY <1>1 DEF CalmInv, SeesRecord, TypeOK
  <2>2. At(cmd[c].seen, "done")
    BY <2>1, Consts DEF CalmInv, RecordsOwn
  <2>3. app[cmd[c].seen].state = "serving"
    BY <1>2, <2>1, <2>2 DEF IsPidAlive, Active, At, Running, SureInv
  <2>4. /\ cmd'[c].pc = "ask" /\ cmd'[c].port = cmd[c].port /\ cmd'[c].op = cmd[c].op
        /\ cmd'[c].seen = cmd[c].seen
        /\ \A d \in Commands : d # c => cmd'[d] = cmd[d]
    BY <1>2, GotoFacts
  <2> QED BY <1>1, <2>3, <2>4 DEF SureInv, Choosing, At, Is
<1>3. CASE Goto(c, "spawn")
  BY <1>1, <1>3, SureGoto DEF Choosing
<1>4. CASE Report(c, "failed")
  BY <1>1, <1>4, SureReport
<1> QED BY <1>2, <1>3, <1>4 DEF PidProbe, Unhealthy

LEMMA SureLaunch ==
  ASSUME TypeOK, CalmInv, SureInv, NEW c \in Commands, Launch(c), calm'
  PROVE  SureInv'
<1>1. PICK o \in {"start", "status", "stop"}, w \in Worktrees :
        \E p \in IF o = "start" THEN ResolvePort(w) \cup Overrides ELSE {Base} :
           /\ cmd' = [cmd EXCEPT ![c] = [pc |-> "read", op |-> o, tree |-> w, port |-> p, seen |-> NoApp]]
           /\ o = "start" => CanBindPort(p)
  BY DEF Launch, Calm
<1>2. PICK p : /\ cmd' = [cmd EXCEPT ![c] = [pc |-> "read", op |-> o, tree |-> w, port |-> p, seen |-> NoApp]]
               /\ o = "start" => CanBindPort(p)
  BY <1>1
<1>3. /\ cmd'[c].pc = "read" /\ cmd'[c].op = o /\ cmd'[c].port = p
      /\ \A d \in Commands : d # c => cmd'[d] = cmd[d]
      /\ UNCHANGED <<app, foreign>> /\ app[c].state = "none"
  BY <1>2 DEF Launch, TypeOK, At, CalmInv, OwnsApp, Unspawned
<1>4. o = "start" => <<p, "answering">> \notin foreign
  BY <1>2 DEF CanBindPort, Manners
<1> QED BY <1>3, <1>4 DEF SureInv, At, Is

LEMMA SureSpawn ==
  ASSUME TypeOK, CalmInv, SureInv, NEW c \in Commands, Spawn(c)
  PROVE  SureInv'
<1>1. /\ cmd[c].pc = "spawn" /\ cmd'[c].pc = "wait"
      /\ cmd'[c].port = cmd[c].port /\ cmd'[c].op = cmd[c].op
      /\ \A d \in Commands : d # c => cmd'[d] = cmd[d]
      /\ UNCHANGED foreign
  BY GotoFacts DEF Spawn, At
<1>2. \A a \in Commands : a # c => app'[a] = app[a]
  BY DEF Spawn, TypeOK
<1>3. \A d \in Commands : cmd[d].pc = "ask" => cmd[d].seen \in Commands /\ cmd[d].seen # c
  BY <1>1, Consts DEF CalmInv, SeesRecord, RecordsOwn, At, TypeOK
<1> QED BY <1>1, <1>2, <1>3 DEF SureInv, Choosing, At, Is

(* A stop ends the application of its own record, which no other command of *)
(* the worktree asks for meanwhile.                                         *)
LEMMA SureStopPid ==
  ASSUME TypeOK, CalmInv, SureInv, NEW c \in Commands, StopPid(c)
  PROVE  SureInv'
<1>1. /\ cmd[c].pc = "kill" /\ cmd'[c].pc = "remove" /\ cmd'[c].seen = cmd[c].seen
      /\ \A d \in Commands : d # c => cmd'[d] = cmd[d]
      /\ UNCHANGED foreign
  BY GotoFacts DEF StopPid, At
<1> DEFINE a == cmd[c].seen
<1>2. a \in Commands /\ boot[cmd[c].tree] = a /\ cmd[c].tree \in Worktrees
  BY <1>1 DEF CalmInv, SeesRecord, TypeOK
<1>3. app[a].tree = cmd[c].tree
  BY <1>2, Consts DEF CalmInv, RecordsOwn
<1>4. \A d \in Commands : cmd[d].pc = "ask" => cmd[d].seen \in Commands /\ cmd[d].seen # a
  <2> SUFFICES ASSUME NEW d \in Commands, cmd[d].pc = "ask"
               PROVE  cmd[d].seen \in Commands /\ cmd[d].seen # a
    OBVIOUS
  <2>1. cmd[d].seen \in Commands /\ boot[cmd[d].tree] = cmd[d].seen /\ cmd[d].tree \in Worktrees
    BY DEF CalmInv, SeesRecord, TypeOK
  <2>2. app[cmd[d].seen].tree = cmd[d].tree
    BY <2>1, Consts DEF CalmInv, RecordsOwn
  <2>3. cmd[d].tree # cmd[c].tree
    BY <1>1 DEF CalmInv, Apart, Active
  <2> QED BY <1>3, <2>1, <2>2, <2>3
<1>5. /\ app'[a].state = "dead"
      /\ \A b \in Commands : b # a => app'[b] = app[b]
  BY <1>2 DEF StopPid, TypeOK
<1> QED BY <1>1, <1>4, <1>5 DEF SureInv, Choosing, At, Is

LEMMA SureRemove ==
  ASSUME TypeOK, CalmInv, SureInv, NEW c \in Commands, Remove(c)
  PROVE  SureInv'
<1>1. \A d \in Commands : d # c /\ At(d, "linked") => cmd[d].tree # cmd[c].tree
  BY DEF Remove, CalmInv, Apart, Active, At
<1>2. /\ cmd[c].pc = "remove" /\ cmd'[c].pc = "done"
      /\ \A d \in Commands : d # c => cmd'[d] = cmd[d]
      /\ UNCHANGED <<app, foreign>>
  BY <1>1 DEF Remove, At, Ended, NotCalled
<1>3. app[c].state = "none"
  BY <1>2 DEF CalmInv, OwnsApp, Unspawned
<1> QED BY <1>2, <1>3 DEF SureInv, Choosing, At, Is

LEMMA SureInvStep ==
  ASSUME BootInv, [Next]_vars, calm', ~misled'
  PROVE  SureInv'
<1>0. TypeOK
  BY DEF BootInv
<1>1. CASE UNCHANGED vars
  BY <1>1 DEF BootInv, vars, SureInv, At, Is
<1> SUFFICES ASSUME Next PROVE SureInv'
  BY <1>1
<1>2. calm /\ ~misled
  <2>1. ~misled
    BY DEF Next, AppDies, Occupy
  <2>2. ASSUME NEW c \in Commands, Launch(c) \/ Step(c) \/ Kill(c) PROVE calm
    BY <2>2 DEF Launch, Step, ReadRecord, ReadNothing, PidProbe, HttpProbe, Spawn, SpawnFails,
         Ready, Timeout, Truncate, Write, WriteFails, StopCheck, StopPid, StopPidFails, Remove,
         Calm, Kill
  <2>3. ASSUME NEW c \in Commands, Bind(c) \/ AppDies(c) PROVE calm
    BY <2>3 DEF Bind, AppDies
  <2>4. ASSUME NEW p \in Ports, Occupy(p) PROVE calm
    BY <2>4 DEF Occupy
  <2> QED BY <2>1, <2>2, <2>3, <2>4 DEF Next
<1>3. CalmInv /\ SureInv
  BY <1>2 DEF BootInv
<1> USE <1>0, <1>3
<1>4. ASSUME NEW c \in Commands, Launch(c) PROVE SureInv'
  BY <1>4, SureLaunch
<1>5. ASSUME NEW c \in Commands, Step(c) PROVE SureInv'
  <2>0. cmd[c].pc \in Unspawned => app[c].state = "none"
    BY DEF CalmInv, OwnsApp
  <2>1. CASE ReadRecord(c)
    <3>1. /\ cmd[c].pc = "read" /\ cmd'[c].pc = "check"
          /\ cmd'[c].port = cmd[c].port /\ cmd'[c].op = cmd[c].op
          /\ \A d \in Commands : d # c => cmd'[d] = cmd[d]
          /\ UNCHANGED <<app, foreign>>
      BY <2>1 DEF ReadRecord, At, TypeOK
    <3> QED BY <3>1 DEF SureInv, Choosing, At, Is
  <2>2. CASE ReadNothing(c)
    <3>1. /\ cmd[c].pc = "read" /\ UNCHANGED <<app, foreign>>
          /\ Goto(c, "spawn") \/ Report(c, "missing_boot_metadata")
      BY <2>2 DEF ReadNothing, At
    <3>2. app[c].state = "none"
      BY <2>0, <3>1 DEF Unspawned
    <3>3. CASE Goto(c, "spawn")
      BY <3>1, <3>2, <3>3, SureGoto DEF Choosing
    <3>4. CASE Report(c, "missing_boot_metadata")
      BY <3>1, <3>2, <3>4, SureReport
    <3> QED BY <3>1, <3>3, <3>4
  <2>3. CASE PidProbe(c)
    BY <2>3, SureProbe
  <2>4. CASE HttpProbe(c)
    <3>1. /\ cmd[c].pc = "ask" /\ UNCHANGED <<app, foreign>>
          /\ Goto(c, "spawn") \/ \E s : Report(c, s)
      BY <2>4 DEF HttpProbe, Unhealthy, At
    <3>2. app[c].state = "none"
      BY <2>0, <3>1 DEF Unspawned
    <3>3. CASE Goto(c, "spawn")
      BY <3>1, <3>2, <3>3, SureGoto DEF Choosing
    <3>4. CASE \E s : Report(c, s)
      BY <3>1, <3>2, <3>4, SureReport
    <3> QED BY <3>1, <3>3, <3>4
  <2>5. CASE Spawn(c)
    BY <2>5, SureSpawn
  <2>6. CASE SpawnFails(c)
    BY <2>0, <2>6, SureReport DEF SpawnFails, At, Unspawned
  <2>7. CASE Ready(c)
    <3>1. Listening(c, cmd[c].port) /\ Goto(c, "write") /\ UNCHANGED <<app, foreign>>
      BY <2>7, SureReady DEF Ready
    <3> QED BY <3>1, SureGoto DEF Listening, Choosing
  <2>8. CASE Timeout(c)
    <3>1. ~Running(c)
      BY <2>8 DEF Timeout, Calm
    <3> QED BY <2>8, <3>1, SureReport DEF Timeout, Running
  <2>9. CASE Truncate(c)
    <3>1. At(c, "write") /\ Goto(c, "linked") /\ UNCHANGED <<app, foreign>>
      BY <2>9 DEF Truncate
    <3>2. app[c].state # "starting"
      BY <3>1 DEF SureInv, At
    <3> QED BY <3>1, <3>2, SureGoto DEF Choosing
  <2>10. CASE Write(c)
    <3>1. (At(c, "linked") \/ At(c, "unlinked")) /\ Report(c, "started") /\ UNCHANGED <<app, foreign>>
      BY <2>10 DEF Write
    <3>2. app[c].state # "starting"
      BY <3>1 DEF SureInv, At
    <3> QED BY <3>1, <3>2, SureReport
  <2>11. CASE WriteFails(c)
    BY <2>11 DEF WriteFails, Calm
  <2>12. CASE StopCheck(c)
    <3>1. PICK l \in {"kill", "remove"} : At(c, "check") /\ Goto(c, l) /\ UNCHANGED <<app, foreign>>
      BY <2>12 DEF StopCheck
    <3>2. app[c].state = "none"
      BY <2>0, <3>1 DEF Unspawned, At
    <3> QED BY <3>1, <3>2, SureGoto DEF Choosing
  <2>13. CASE StopPid(c)
    BY <2>13, SureStopPid
  <2>14. CASE StopPidFails(c)
    BY <2>0, <2>14, SureReport DEF StopPidFails, At, Unspawned
  <2>15. CASE Remove(c)
    BY <2>15, SureRemove
  <2> QED BY <1>5, <2>1, <2>2, <2>3, <2>4, <2>5, <2>6, <2>7, <2>8, <2>9, <2>10, <2>11, <2>12,
             <2>13, <2>14, <2>15 DEF Step
<1>6. ASSUME NEW c \in Commands, Kill(c) PROVE SureInv'
  BY <1>6 DEF Kill, Calm
<1>7. ASSUME NEW a \in Commands, Bind(a) PROVE SureInv'
  <2>1. /\ app[a].state = "starting" /\ UNCHANGED <<cmd, foreign>>
        /\ app'[a].state \in {"serving", "dead"}
        /\ \A b \in Commands : b # a => app'[b] = app[b]
    BY <1>7 DEF Bind, TypeOK
  <2>2. \A c \in Commands : At(c, "ask") => cmd[c].seen \in Commands
    BY DEF CalmInv, SeesRecord, At
  <2> QED BY <2>1, <2>2 DEF SureInv, At, Is
<1>8. ASSUME NEW a \in Commands, AppDies(a) PROVE SureInv'
  <2>1. /\ app[a].state = "serving" /\ UNCHANGED <<cmd, foreign>>
        /\ app'[a].state = "dead"
        /\ \A b \in Commands : b # a => app'[b] = app[b]
        /\ ~\E c \in Commands : At(c, "ask") /\ cmd[c].seen = a
    BY <1>8 DEF AppDies, TypeOK
  <2>2. \A c \in Commands : At(c, "ask") => cmd[c].seen \in Commands
    BY DEF CalmInv, SeesRecord, At
  <2> QED BY <2>1, <2>2 DEF SureInv, At, Is
<1>9. ASSUME NEW p \in Ports, Occupy(p) PROVE SureInv'
  <2>1. PICK k \in Manners :
          /\ foreign' = foreign \cup {<<p, k>>}
          /\ ~(/\ k = "answering"
               /\ \E c \in Commands : Active(c) /\ Is(c, "start") /\ cmd[c].port = p)
    BY <1>9 DEF Occupy
  <2>2. UNCHANGED <<cmd, app>>
    BY <1>9 DEF Occupy
  <2>3. \A c \in Commands : cmd[c].pc \in Choosing => Active(c)
    BY DEF Choosing, Active
  <2> QED BY <2>1, <2>2, <2>3 DEF SureInv, At, Is
<1> QED BY <1>4, <1>5, <1>6, <1>7, <1>8, <1>9 DEF Next

LEMMA BootInvStep == BootInv /\ [Next]_vars => BootInv'
  BY TypeStep, CalmInvStep, SureInvStep DEF BootInv

-----------------------------------------------------------------------------
(* Every variable keeps its type, and every port fits in 16 bits.           *)
THEOREM TypeCorrect == Spec => []TypeOK
  BY TypeInit, TypeStep, PTL DEF Spec

(* While nothing disturbs the commands, an application that runs when the   *)
(* start that spawned it is over is the one its worktree's record names:    *)
(* there is one at most, and a stop finds it.                               *)
THEOREM RecordsCorrect == Spec => []AppsRecorded
<1>1. BootInv => AppsRecorded
  BY DEF BootInv, CalmInv, Recorded, AppsRecorded
<1> QED BY <1>1, BootInvInit, BootInvStep, PTL DEF Spec

(* Answers to start and status come from the worktree's own application,    *)
(* and a start takes the answer of its own, while nothing disturbs the      *)
(* commands and nobody is misled between two probes or on a chosen port.    *)
THEOREM AnswersCorrect == Spec => AnswersFromOwnApp
<1> DEFINE Own == calm /\ ~misled => \A c \in Commands :
         /\ Claims(c) => LET a == cmd[c].seen IN
                         app[a].tree = cmd[c].tree /\ Listening(a, app[a].port)
         /\ At(c, "wait") /\ cmd'[c].pc = "write" => Listening(c, cmd[c].port)
<1>1. BootInv /\ [Next]_vars => [Own]_vars
  <2> SUFFICES ASSUME BootInv, Next, calm, ~misled, NEW c \in Commands
               PROVE  /\ Claims(c) => LET a == cmd[c].seen IN
                                      app[a].tree = cmd[c].tree /\ Listening(a, app[a].port)
                      /\ At(c, "wait") /\ cmd'[c].pc = "write" => Listening(c, cmd[c].port)
    BY DEF vars
  <2>0. TypeOK /\ CalmInv /\ SureInv
    BY DEF BootInv
  <2>1. ASSUME At(c, "ask")
        PROVE  app[cmd[c].seen].tree = cmd[c].tree /\ Listening(cmd[c].seen, app[cmd[c].seen].port)
    <3>1. /\ cmd[c].seen \in Commands /\ boot[cmd[c].tree] = cmd[c].seen /\ cmd[c].tree \in Worktrees
      BY <2>0, <2>1 DEF CalmInv, SeesRecord, At, TypeOK
    <3>2. app[cmd[c].seen].tree = cmd[c].tree
      BY <2>0, <3>1, Consts DEF CalmInv, RecordsOwn
    <3>3. app[cmd[c].seen].state = "serving"
      BY <2>0, <2>1 DEF SureInv
    <3> QED BY <3>2, <3>3 DEF Listening
  <2>2. CASE HttpProbe(c)
    <3>1. At(c, "ask")
      BY <2>2 DEF HttpProbe
    <3> QED BY <2>1, <3>1 DEF At
  <2>3. CASE Ready(c)
    <3>1. Listening(c, cmd[c].port) /\ said' = "none"
      BY <2>0, <2>3, SureReady, GotoFacts DEF Ready
    <3> QED BY <2>3, <3>1 DEF Claims, Ready, At
  <2>4. CASE \/ ReadRecord(c) \/ ReadNothing(c) \/ Spawn(c) \/ SpawnFails(c) \/ Timeout(c)
            \/ Truncate(c) \/ Write(c) \/ WriteFails(c) \/ StopCheck(c) \/ StopPid(c)
            \/ StopPidFails(c) \/ Remove(c) \/ Kill(c) \/ Launch(c) \/ PidProbe(c)
    <3>1. said' \notin {"reused", "ok"}
      BY <2>4 DEF ReadRecord, ReadNothing, Spawn, SpawnFails, Timeout, Truncate, Write, WriteFails,
           StopCheck, StopPid, StopPidFails, Remove, Kill, Launch, PidProbe, Unhealthy, Goto, Report
    <3>2. At(c, "wait") => cmd'[c].pc # "write"
      <4>1. ASSUME At(c, "wait") PROVE (Timeout(c) \/ Kill(c)) /\ cmd'[c].pc = "done"
        <5>1. Timeout(c) \/ Kill(c)
          BY <2>4, <4>1 DEF ReadRecord, ReadNothing, Spawn, SpawnFails, Truncate, Write, WriteFails,
               StopCheck, StopPid, StopPidFails, Remove, Launch, PidProbe, At
        <5> QED BY <2>0, <5>1, ReportFacts DEF Timeout, Kill
      <4> QED BY <4>1
    <3> QED BY <3>1, <3>2 DEF Claims
  <2>5. ASSUME NEW d \in Commands, d # c, Launch(d) \/ Step(d) \/ Kill(d) PROVE
          \/ cmd'[c] = cmd[c] \/ (Active(c) /\ cmd'[c].pc = "unlinked" /\ At(c, "linked"))
    <3>1. CASE Remove(d)
      BY <2>5, <3>1 DEF Remove, Active, At, TypeOK, BootInv
    <3>2. CASE Launch(d) \/ ReadRecord(d)
      BY <2>5, <3>2 DEF Launch, ReadRecord, TypeOK, BootInv
    <3>3. CASE (\E l : Goto(d, l)) \/ \E s : Report(d, s)
      BY <2>0, <2>5, <3>3, GotoFacts, ReportFacts
    <3> QED BY <2>5, <3>1, <3>2, <3>3 DEF Step, ReadNothing, PidProbe, HttpProbe, Unhealthy, Spawn,
               SpawnFails, Ready, Timeout, Truncate, Write, WriteFails, StopCheck, StopPid, StopPidFails, Kill
  <2>6. ASSUME NEW d \in Commands, d # c, Launch(d) \/ Step(d) \/ Kill(d)
        PROVE  ~Claims(c) /\ ~(At(c, "wait") /\ cmd'[c].pc = "write")
    BY <2>5, <2>6 DEF Claims, Active, At
  <2>7. ASSUME NEW a \in Commands, Bind(a) \/ AppDies(a)
        PROVE  ~Claims(c) /\ ~(At(c, "wait") /\ cmd'[c].pc = "write")
    BY <2>7 DEF Bind, AppDies, Claims, At
  <2>8. ASSUME NEW p \in Ports, Occupy(p)
        PROVE  ~Claims(c) /\ ~(At(c, "wait") /\ cmd'[c].pc = "write")
    BY <2>8 DEF Occupy, Claims, At
  <2> QED BY <2>2, <2>3, <2>4, <2>6, <2>7, <2>8 DEF Next, Step
<1> QED BY <1>1, BootInvInit, BootInvStep, PTL DEF Spec, AnswersFromOwnApp

-----------------------------------------------------------------------------
(* How many steps a command can still take where it is, at the most. *)
StepsLeft(l) ==
    CASE l = "idle" -> 9
      [] l = "read" -> 8
      [] l = "check" -> 7
      [] l = "ask" -> 6
      [] l = "spawn" -> 5
      [] l = "wait" -> 4
      [] l = "write" -> 3
      [] l \in {"linked", "kill"} -> 2
      [] l \in {"unlinked", "remove"} -> 1
      [] l = "done" -> 0

Nearer(c) == StepsLeft(cmd'[c].pc) < StepsLeft(cmd[c].pc)

LEMMA OwnStepIsNearer ==
  ASSUME TypeOK, NEW c \in Commands, Launch(c) \/ Step(c) \/ Kill(c)
  PROVE  Nearer(c)
<1>0. cmd \in [Commands -> [pc : {"idle", "read", "check", "ask", "spawn", "wait", "write",
                                  "linked", "unlinked", "kill", "remove", "done"},
                            op : {"start", "status", "stop"}, tree : Worktrees,
                            port : Ports, seen : Commands \cup {NoApp}]]
  BY DEF TypeOK
<1> USE DEF Nearer, StepsLeft, At
<1>1. CASE Launch(c)
  BY <1>0, <1>1 DEF Launch
<1>2. CASE ReadRecord(c)
  BY <1>0, <1>2 DEF ReadRecord
<1>3. CASE Remove(c)
  <2>1. cmd'[c].pc = "done" /\ At(c, "remove")
    BY <1>3 DEF Remove, Ended, NotCalled
  <2> QED BY <2>1
<1>4. ASSUME NEW s, Report(c, s), ~At(c, "done") PROVE Nearer(c)
  BY <1>0, <1>4, ReportFacts
<1>5. ASSUME NEW l, Goto(c, l) PROVE cmd'[c].pc = l
  BY <1>0, <1>5, GotoFacts
<1>6. CASE PidProbe(c) \/ HttpProbe(c) \/ StopCheck(c)
  <2>1. \/ At(c, "check") /\ \E l \in {"ask", "spawn", "kill", "remove"} : Goto(c, l)
        \/ At(c, "ask") /\ Goto(c, "spawn")
        \/ (At(c, "check") \/ At(c, "ask")) /\ \E s : Report(c, s)
    BY <1>6 DEF PidProbe, HttpProbe, Unhealthy, StopCheck
  <2>2. ASSUME At(c, "check") \/ At(c, "ask"), NEW s, Report(c, s) PROVE Nearer(c)
    BY <1>4, <2>2
  <2>3. ASSUME At(c, "check"), NEW l \in {"ask", "spawn", "kill", "remove"}, Goto(c, l)
        PROVE  Nearer(c)
    BY <1>5, <2>3
  <2>4. CASE At(c, "ask") /\ Goto(c, "spawn")
    BY <1>5, <2>4
  <2> QED BY <2>1, <2>2, <2>3, <2>4
<1>7. CASE ReadNothing(c) \/ Spawn(c) \/ Ready(c) \/ Truncate(c) \/ StopPid(c)
  <2>1. \/ At(c, "read") /\ Goto(c, "spawn")
        \/ At(c, "read") /\ Report(c, "missing_boot_metadata")
        \/ At(c, "spawn") /\ Goto(c, "wait")
        \/ At(c, "wait") /\ Goto(c, "write")
        \/ At(c, "write") /\ Goto(c, "linked")
        \/ At(c, "kill") /\ Goto(c, "remove")
    BY <1>7 DEF ReadNothing, Spawn, Ready, Truncate, StopPid
  <2>2. CASE At(c, "read") /\ Report(c, "missing_boot_metadata")
    BY <1>4, <2>2
  <2>3. CASE At(c, "read") /\ Goto(c, "spawn")
    BY <1>5, <2>3
  <2>4. CASE At(c, "spawn") /\ Goto(c, "wait")
    BY <1>5, <2>4
  <2>5. CASE At(c, "wait") /\ Goto(c, "write")
    BY <1>5, <2>5
  <2>6. CASE At(c, "write") /\ Goto(c, "linked")
    BY <1>5, <2>6
  <2>7. CASE At(c, "kill") /\ Goto(c, "remove")
    BY <1>5, <2>7
  <2> QED BY <2>1, <2>2, <2>3, <2>4, <2>5, <2>6, <2>7
<1>8. CASE SpawnFails(c) \/ Timeout(c) \/ Write(c) \/ WriteFails(c) \/ StopPidFails(c)
  BY <1>4, <1>8 DEF SpawnFails, Timeout, Write, WriteFails, StopPidFails
<1>9. CASE Kill(c)
  BY <1>4, <1>9 DEF Kill, Active
<1> QED BY <1>1, <1>2, <1>3, <1>6, <1>7, <1>8, <1>9 DEF Step

LEMMA OtherStepIsNoFarther ==
  ASSUME TypeOK, NEW c \in Commands, NEW d \in Commands, d # c,
         Launch(d) \/ Step(d) \/ Kill(d) \/ Bind(d) \/ AppDies(d)
  PROVE  cmd'[c] = cmd[c] \/ Nearer(c)
<1>1. CASE Remove(d)
  <2>1. cmd'[c] = cmd[c] \/ (At(c, "linked") /\ cmd'[c].pc = "unlinked")
    BY <1>1 DEF Remove, At, TypeOK
  <2> QED BY <2>1 DEF Nearer, StepsLeft, At
<1>2. CASE Launch(d) \/ ReadRecord(d)
  BY <1>2 DEF Launch, ReadRecord, TypeOK
<1>3. CASE (\E l : Goto(d, l)) \/ \E s : Report(d, s)
  BY <1>3, GotoFacts, ReportFacts
<1>4. CASE Bind(d) \/ AppDies(d)
  BY <1>4 DEF Bind, AppDies
<1> QED BY <1>1, <1>2, <1>3, <1>4 DEF Step, ReadNothing, PidProbe, HttpProbe, Unhealthy, Spawn,
          SpawnFails, Ready, Timeout, Truncate, Write, WriteFails, StopCheck, StopPid, StopPidFails, Kill

(* A command has no loop, whatever the other commands, the applications and *)
(* the ports do: each of its own steps takes it nearer to its end, and no   *)
(* step of anybody takes it back. With CommandsGoOn it ends, or waits for a *)
(* program that never answers.                                              *)
THEOREM CommandsComeNearer ==
  Spec => [][\A c \in Commands :
               /\ Step(c) => Nearer(c)
               /\ cmd'[c] # cmd[c] => Nearer(c)]_vars
<1>1. ASSUME TypeOK, Next, NEW c \in Commands
      PROVE  /\ Step(c) => Nearer(c)
             /\ cmd'[c] # cmd[c] => Nearer(c)
  <2>1. Step(c) => Nearer(c)
    BY <1>1, OwnStepIsNearer
  <2>2. CASE \E p \in Ports : Occupy(p)
    BY <2>1, <2>2 DEF Occupy
  <2>3. CASE \E d \in Commands : Launch(d) \/ Step(d) \/ Kill(d) \/ Bind(d) \/ AppDies(d)
    <3>1. PICK d \in Commands : Launch(d) \/ Step(d) \/ Kill(d) \/ Bind(d) \/ AppDies(d)
      BY <2>3
    <3>2. CASE d = c
      <4>1. CASE Bind(c) \/ AppDies(c)
        BY <2>1, <4>1 DEF Bind, AppDies
      <4> QED BY <1>1, <2>1, <3>1, <3>2, <4>1, OwnStepIsNearer
    <3>3. CASE d # c
      BY <1>1, <2>1, <3>1, <3>3, OtherStepIsNoFarther
    <3> QED BY <3>2, <3>3
  <2> QED BY <1>1, <2>2, <2>3 DEF Next
<1>2. TypeOK /\ [Next]_vars => [\A c \in Commands : /\ Step(c) => Nearer(c)
                                                    /\ cmd'[c] # cmd[c] => Nearer(c)]_vars
  BY <1>1
<1> QED BY <1>2, TypeCorrect, PTL DEF Spec
=============================================================================
