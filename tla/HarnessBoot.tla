----------------------------- MODULE HarnessBoot -----------------------------
(* harnesscli boot start, status and stop (src/harness/src/cmd/boot.rs):    *)
(* short-lived commands of several worktrees on one host. They meet in the  *)
(* boot.json of their worktree, in the TCP ports of the host, and in the    *)
(* demo applications they leave running.                                    *)
EXTENDS Integers, FiniteSets

CONSTANTS
    MaxCommands,    \* bound: commands called in a behaviour
    Worktrees,
    Base,           \* APP_PORT_BASE
    Offset(_),      \* fnv1a64(worktree_id) % 1000
    PortRange,      \* PORT_RANGE
    FallbackRange,  \* FALLBACK_PORT_RANGE
    MaxPort,        \* u16::MAX
    Overrides,      \* ports DISCODE_APP_PORT may name
    MaxForeign,     \* bound: ports that other programs take
    MaxActive,      \* bound: commands at work at a time
    MaxKills        \* bound: commands killed

ASSUME BootAssumption ==
    /\ {MaxCommands, Base, PortRange, FallbackRange, MaxPort} \subseteq Nat
    /\ {MaxForeign, MaxActive, MaxKills} \subseteq Nat
    /\ Base <= MaxPort
    /\ Worktrees # {}
    /\ \A w \in Worktrees : Offset(w) \in Nat
    /\ Overrides \subseteq 0..MaxPort

VARIABLES
    cmd,     \* the commands: where each is, and its locals
    said,    \* what the last step reported, if a command ended in it
    app,     \* the application each start has spawned, named by the start
    boot,    \* boot.json of each worktree: the application it names
    foreign, \* the ports other programs hold, and how they answer there
    kills,   \* commands killed
    calm,    \* history: nothing has disturbed a command (see Calm)
    misled   \* history: another's answer may have been taken (see AppDies, Occupy)

vars == <<cmd, said, app, boot, foreign, kills, calm, misled>>

Commands == 1..MaxCommands   \* in the order they are called
NoApp == 0                   \* boot.json is absent, empty or cut short
Ports == 0..MaxPort

NotCalled == [pc |-> "idle", op |-> "start", tree |-> CHOOSE w \in Worktrees : TRUE,
              port |-> Base, seen |-> NoApp]

NotSpawned == [state |-> "none", tree |-> NotCalled.tree, port |-> Base]

Active(c) == cmd[c].pc \notin {"idle", "done"}

-----------------------------------------------------------------------------
(* The host: who listens where, and which pids exist.                       *)

Running(a) == app[a].state \in {"starting", "serving"}

Listening(a, p) == app[a].state = "serving" /\ app[a].port = p

Manners == {"refusing", "silent", "answering"}

CanBindPort(p) == (\A k \in Manners : <<p, k>> \notin foreign) /\ ~\E a \in Commands : Listening(a, p)

(* Whoever listens on the port answers: the command's application, that of  *)
(* another worktree, or any program that says 200. One that takes the       *)
(* connection and says nothing keeps http_ok, which has no timeout, waiting. *)
HttpOk(p) == <<p, "answering">> \in foreign \/ \E a \in Commands : Listening(a, p)
HttpHangs(p) == <<p, "silent">> \in foreign

(* kill -0: an application that has ended is a zombie until the start that  *)
(* spawned it, and never waits for it, has ended too.                       *)
IsPidAlive(a) == Running(a) \/ (app[a].state = "dead" /\ Active(a))

(* Mutant: the sum is not kept within a u16. *)
PlainAdd(a, b) == a + b

SaturatingAdd(a, b) == IF a + b > MaxPort THEN MaxPort ELSE a + b

(* The candidates in the order they are probed. *)
Candidates ==
    [w \in Worktrees |->
       LET start == SaturatingAdd(Base, Offset(w)) IN
       [i \in 1..(PortRange + FallbackRange) |->
          IF i <= PortRange THEN SaturatingAdd(start, i - 1)
          ELSE SaturatingAdd(Base, i - PortRange - 1)]]

(* The first candidate that can be bound now, as the only member of a set;  *)
(* the base if there is none.                                               *)
ResolvePort(w) ==
    LET free == {i \in DOMAIN Candidates[w] : CanBindPort(Candidates[w][i])} IN
    IF free = {} THEN {Base}
    ELSE {Candidates[w][i] : i \in {k \in free : \A j \in free : k <= j}}

-----------------------------------------------------------------------------
Init ==
    /\ cmd = [c \in Commands |-> NotCalled]
    /\ said = "none"
    /\ app = [c \in Commands |-> NotSpawned]
    /\ boot = [w \in Worktrees |-> NoApp]
    /\ foreign = {}
    /\ kills = 0
    /\ calm = TRUE /\ misled = FALSE

At(c, l) == cmd[c].pc = l
Is(c, o) == cmd[c].op = o

Goto(c, l) == cmd' = [cmd EXCEPT ![c].pc = l] /\ said' = "none"

(* The command is over, and its locals with it. *)
Ended == [NotCalled EXCEPT !.pc = "done"]
Report(c, s) == cmd' = [cmd EXCEPT ![c] = Ended] /\ said' = s

(* What the properties have to know of the past: no two commands of one     *)
(* worktree, and no two starts on one port, were at work at the same time,  *)
(* each went to its end, the port of a start was free when it was chosen,   *)
(* and no start has given up on an application that still runs.             *)
Calm(b) == calm' = (calm /\ b)

Meets(d, o, w, p) ==
    Active(d) /\ (cmd[d].tree = w \/ (Is(d, "start") /\ o = "start" /\ cmd[d].port = p))

(* worktree_context: every command selects a port, but only start uses it. *)
Launch(c) ==
    /\ At(c, "idle") /\ \A d \in 1..(c - 1) : ~At(d, "idle")
    /\ Cardinality({d \in Commands : Active(d)}) < MaxActive
    /\ \E o \in {"start", "status", "stop"}, w \in Worktrees :
         \E p \in IF o = "start" THEN ResolvePort(w) \cup Overrides ELSE {Base} :
           /\ cmd' = [cmd EXCEPT ![c] = [pc |-> "read", op |-> o, tree |-> w, port |-> p,
                                         seen |-> NoApp]]
           /\ Calm(/\ o = "start" => CanBindPort(p)
                   /\ ~\E d \in Commands : Meets(d, o, w, p))
    /\ said' = "none"
    /\ UNCHANGED <<app, boot, foreign, kills>>

(* read_json_file: only start goes on without a record. *)
ReadRecord(c) ==
    /\ At(c, "read") /\ boot[cmd[c].tree] # NoApp
    /\ cmd' = [cmd EXCEPT ![c].pc = "check", ![c].seen = boot[cmd[c].tree]]
    /\ said' = "none"
    /\ UNCHANGED <<app, boot, foreign, kills, calm>>

ReadNothing(c) ==
    /\ At(c, "read") /\ boot[cmd[c].tree] = NoApp
    /\ IF Is(c, "start") THEN Goto(c, "spawn") ELSE Report(c, "missing_boot_metadata")
    /\ UNCHANGED <<app, boot, foreign, kills, calm>>

Unhealthy(c) == IF Is(c, "start") THEN Goto(c, "spawn") ELSE Report(c, "failed")

(* Mutant: the recorded process is not asked for. *)
AskAnyway(c) ==
    /\ At(c, "check") /\ ~Is(c, "stop")
    /\ Goto(c, "ask")
    /\ UNCHANGED <<app, boot, foreign, kills, calm>>

(* start and status ask for the recorded process first, *)
PidProbe(c) ==
    /\ At(c, "check") /\ ~Is(c, "stop")
    /\ IF IsPidAlive(cmd[c].seen) THEN Goto(c, "ask") ELSE Unhealthy(c)
    /\ UNCHANGED <<app, boot, foreign, kills, calm>>

SeenPort(c) == app[cmd[c].seen].port

(* Mutant: a start never reuses the application it finds. *)
StartAlways(c) ==
    /\ At(c, "ask") /\ ~HttpHangs(SeenPort(c))
    /\ IF Is(c, "status") /\ HttpOk(SeenPort(c)) THEN Report(c, "ok") ELSE Unhealthy(c)
    /\ UNCHANGED <<app, boot, foreign, kills, calm>>

(* and then at its address; by now anybody may answer there. *)
HttpProbe(c) ==
    /\ At(c, "ask") /\ ~HttpHangs(SeenPort(c))
    /\ IF HttpOk(SeenPort(c)) THEN Report(c, IF Is(c, "start") THEN "reused" ELSE "ok")
       ELSE Unhealthy(c)
    /\ UNCHANGED <<app, boot, foreign, kills, calm>>

Spawn(c) ==
    /\ At(c, "spawn")
    /\ app' = [app EXCEPT ![c] = [state |-> "starting", tree |-> cmd[c].tree,
                                  port |-> cmd[c].port]]
    /\ Goto(c, "wait")
    /\ UNCHANGED <<boot, foreign, kills, calm>>

(* A file of the application cannot be written, or python3 not be started. *)
SpawnFails(c) ==
    /\ At(c, "spawn")
    /\ Report(c, "boot_failed")
    /\ UNCHANGED <<app, boot, foreign, kills, calm>>

Ready(c) ==
    /\ At(c, "wait") /\ HttpOk(cmd[c].port)
    /\ Goto(c, "write")
    /\ UNCHANGED <<app, boot, foreign, kills, calm>>

(* Mutant: the wait ends only with an answer, or with the application. *)
PatientTimeout(c) ==
    /\ At(c, "wait") /\ ~HttpOk(cmd[c].port) /\ ~HttpHangs(cmd[c].port)
    /\ app[c].state = "dead"
    /\ Report(c, "boot_timeout")
    /\ UNCHANGED <<app, boot, foreign, kills, calm>>

(* 15 seconds without an answer. The application is left as it is. *)
Timeout(c) ==
    /\ At(c, "wait") /\ ~HttpOk(cmd[c].port) /\ ~HttpHangs(cmd[c].port)
    /\ Report(c, "boot_timeout")
    /\ Calm(~Running(c))
    /\ UNCHANGED <<app, boot, foreign, kills>>

(* fs::write empties the file first: readers find no record in it. *)
Truncate(c) ==
    /\ At(c, "write")
    /\ boot' = [boot EXCEPT ![cmd[c].tree] = NoApp]
    /\ Goto(c, "linked")
    /\ UNCHANGED <<app, foreign, kills, calm>>

(* What is written to a file that a stop has removed meanwhile is lost. *)
Write(c) ==
    /\ At(c, "linked") \/ At(c, "unlinked")
    /\ boot' = [boot EXCEPT ![cmd[c].tree] = IF At(c, "linked") THEN c ELSE @]
    /\ Report(c, "started")
    /\ UNCHANGED <<app, foreign, kills, calm>>

WriteFails(c) ==
    /\ At(c, "write") \/ At(c, "linked")
    /\ Report(c, "boot_failed")
    /\ Calm(FALSE)
    /\ UNCHANGED <<app, boot, foreign, kills>>

StopCheck(c) ==
    /\ At(c, "check") /\ Is(c, "stop")
    /\ Goto(c, IF IsPidAlive(cmd[c].seen) THEN "kill" ELSE "remove")
    /\ UNCHANGED <<app, boot, foreign, kills, calm>>

(* SIGTERM ends the server. *)
StopPid(c) ==
    /\ At(c, "kill") /\ IsPidAlive(cmd[c].seen)
    /\ app' = [app EXCEPT ![cmd[c].seen].state = "dead"]
    /\ Goto(c, "remove")
    /\ UNCHANGED <<boot, foreign, kills, calm>>

(* The process went after kill -0 had found it: the record stays. *)
StopPidFails(c) ==
    /\ At(c, "kill") /\ ~IsPidAlive(cmd[c].seen)
    /\ Report(c, "boot_failed")
    /\ UNCHANGED <<app, boot, foreign, kills, calm>>

(* remove_file, whatever record is there by now; its failure is ignored. *)
Remove(c) ==
    /\ At(c, "remove")
    /\ boot' = [boot EXCEPT ![cmd[c].tree] = NoApp]
    /\ cmd' = [d \in Commands |->
                 IF d = c THEN Ended
                 ELSE IF At(d, "linked") /\ cmd[d].tree = cmd[c].tree
                 THEN [cmd[d] EXCEPT !.pc = "unlinked"]
                 ELSE cmd[d]]
    /\ said' = "stopped"
    /\ UNCHANGED <<app, foreign, kills, calm>>

(* The command is killed; its application is a process of its own. *)
Kill(c) ==
    /\ Active(c) /\ kills < MaxKills
    /\ kills' = kills + 1
    /\ Report(c, "killed")
    /\ Calm(FALSE)
    /\ UNCHANGED <<app, boot, foreign>>

Step(c) ==
    \/ ReadRecord(c) \/ ReadNothing(c) \/ PidProbe(c) \/ HttpProbe(c)
    \/ Spawn(c) \/ SpawnFails(c) \/ Ready(c) \/ Timeout(c)
    \/ Truncate(c) \/ Write(c) \/ WriteFails(c)
    \/ StopCheck(c) \/ StopPid(c) \/ StopPidFails(c) \/ Remove(c)

-----------------------------------------------------------------------------
(* python3 -m http.server: it binds its port or ends. *)
Bind(a) ==
    /\ app[a].state = "starting"
    /\ app' = [app EXCEPT ![a].state = IF CanBindPort(app[a].port) THEN "serving" ELSE "dead"]
    /\ said' = "none"
    /\ UNCHANGED <<cmd, boot, foreign, kills, calm>>

(* It may end between the two probes of a command. *)
AppDies(a) ==
    /\ app[a].state = "serving"
    /\ app' = [app EXCEPT ![a].state = "dead"]
    /\ said' = "none"
    /\ misled' = (misled \/ \E c \in Commands : At(c, "ask") /\ cmd[c].seen = a)
    /\ UNCHANGED <<cmd, boot, foreign, kills, calm>>

(* Another program takes a port, maybe one that a start has just chosen.    *)
Occupy(p) ==
    /\ CanBindPort(p)
    /\ Cardinality(foreign) < MaxForeign
    /\ said' = "none"
    /\ \E k \in Manners :
         /\ foreign' = foreign \cup {<<p, k>>}
         /\ misled' = (misled \/ (/\ k = "answering"
                                  /\ \E c \in Commands :
                                       Active(c) /\ Is(c, "start") /\ cmd[c].port = p))
    /\ UNCHANGED <<cmd, app, boot, kills, calm>>

Next ==
    \/ \E c \in Commands : (Launch(c) \/ Step(c) \/ Kill(c) \/ Bind(c)) /\ UNCHANGED misled
    \/ \E c \in Commands : AppDies(c)
    \/ \E p \in Ports : Occupy(p)

Spec == Init /\ [][Next]_vars

-----------------------------------------------------------------------------
TypeOK ==
    /\ cmd \in [Commands -> [pc : {"idle", "read", "check", "ask", "spawn", "wait", "write",
                                   "linked", "unlinked", "kill", "remove", "done"},
                             op : {"start", "status", "stop"},
                             tree : Worktrees,
                             port : Ports,
                             seen : Commands \cup {NoApp}]]
    /\ said \in {"none", "missing_boot_metadata", "reused", "ok", "failed", "boot_failed",
                 "boot_timeout", "started", "stopped", "killed"}
    /\ app \in [Commands -> [state : {"none", "starting", "serving", "dead"},
                             tree : Worktrees,
                             port : Ports]]
    /\ boot \in [Worktrees -> Commands \cup {NoApp}]
    /\ foreign \subseteq Ports \X Manners
    /\ kills \in Nat
    /\ calm \in BOOLEAN /\ misled \in BOOLEAN

(* While nothing disturbs the commands, whatever their sequence and however *)
(* the applications end, an application that runs is the one its worktree's *)
(* record names once the start that spawned it is over: there is at most    *)
(* one, and the next stop finds it.                                         *)
AppsRecorded ==
    calm => \A a \in Commands : Running(a) /\ ~Active(a) => boot[app[a].tree] = a

(* A start or status that says the application is there speaks of its own   *)
(* worktree's application, not of whoever has come to its port, though it   *)
(* asks for the process and at the address one after the other; and start   *)
(* takes the answer of its own application only. Beyond calm, this takes    *)
(* that no application ends between the two probes of it, and that no other *)
(* program that says 200 takes a port which a start has chosen.             *)
Claims(c) == Active(c) /\ cmd'[c].pc = "done" /\ said' \in {"reused", "ok"}

AnswersFromOwnApp ==
    [][calm /\ ~misled => \A c \in Commands :
         /\ Claims(c) => LET a == cmd[c].seen IN
                         app[a].tree = cmd[c].tree /\ Listening(a, app[a].port)
         /\ At(c, "wait") /\ cmd'[c].pc = "write" => Listening(c, cmd[c].port)]_vars

(* A command that has not ended can go on, whatever the other commands, the *)
(* applications and the ports do, unless it waits for a program that never  *)
(* answers. A command has no loop, so it ends.                              *)
Stuck(c) ==
    \/ At(c, "wait") /\ HttpHangs(cmd[c].port)
    \/ At(c, "ask") /\ HttpHangs(SeenPort(c))

CommandsGoOn == \A c \in Commands : Active(c) /\ ~Stuck(c) => ENABLED Step(c)
=============================================================================
