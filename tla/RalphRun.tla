------------------------------ MODULE RalphRun ------------------------------
(***************************************************************************)
(* Commands of ralph-loop on one branch: runMain and runInit of            *)
(* src/internal/ralphloop/run.go, with the worktree of worktree.go, the    *)
(* session record of session.go and the log of logs.go.  A worktree is     *)
(* named by its branch, and the branch by default by the prompt: commands  *)
(* that run at the same time, or after one that was killed, meet in it.    *)
(*                                                                         *)
(* git, the agent and the disk are external: their calls succeed or fail.  *)
(* A command may be killed at any time (it handles no signal).  All the    *)
(* commands name the same branch, so ensureWorktreeBranch changes nothing. *)
(***************************************************************************)
EXTENDS Naturals, Sequences, SequencesExt

CONSTANTS
    Runs,           \* the commands
    NoRun,          \* no command
    Limits          \* values of req.MaxIterations (0 by a JSON request only)

ASSUME RalphAssumption ==
    /\ Limits \subseteq Nat
    /\ NoRun \notin Runs

VARIABLES
    tree,        \* the path of the worktree: "absent", a "checkout", or "leftover" files
    dirty,       \* the checkout holds uncommitted changes, whoever made them
    session,     \* the command of the record in ralph-loop.json
    pc,          \* where each command is
    req,         \* its request
    phase,       \* its phase
    iterations,  \* coding turns it began
    failed,      \* status of its last turn is "failed"
    promised,    \* agentText of its last turn holds the completion token
    defers,      \* its deferred calls, the last one runs first
    company,     \* history: another command ran at some time while it did
    hitches      \* history: its deferred calls that failed, their errors dropped

files == <<tree, dirty, session>>
turns == <<iterations, failed, promised>>
NoRequest == [kind |-> "init", linked |-> FALSE, preserve |-> FALSE, limit |-> 0]
vars == <<files, pc, req, phase, turns, defers, company, hitches>>

Requests ==
    {NoRequest, [NoRequest EXCEPT !.linked = TRUE]}
      \cup [kind : {"main"}, linked : BOOLEAN, preserve : BOOLEAN, limit : Limits]

Active(r) == pc[r] \notin {"idle", "gone", "recycled"}

Init ==
    /\ tree \in {"absent", "checkout"} /\ dirty = FALSE /\ session = NoRun
    /\ pc = [r \in Runs |-> "idle"]
    /\ req = [r \in Runs |-> NoRequest]
    /\ phase = [r \in Runs |-> "none"]
    /\ iterations = [r \in Runs |-> 0]
    /\ failed = [r \in Runs |-> FALSE] /\ promised = [r \in Runs |-> FALSE]
    /\ defers = [r \in Runs |-> <<>>]
    /\ company = [r \in Runs |-> FALSE]
    /\ hitches = [r \in Runs |-> {}]

-----------------------------------------------------------------------------
Go(r, l) == pc' = [pc EXCEPT ![r] = l]

(* return: the variables of the loop are gone, the deferred calls follow. *)
Return(r) ==
    /\ Go(r, "cleanup")
    /\ iterations' = [iterations EXCEPT ![r] = 0]
    /\ failed' = [failed EXCEPT ![r] = FALSE]
    /\ promised' = [promised EXCEPT ![r] = FALSE]

(* return err *)
Fails(r) == Return(r) /\ UNCHANGED <<files, phase, defers>>

(* Run, with a request the parser took.  A command started inside the      *)
(* worktree is linked to it.                                               *)
Start(r) ==
    /\ pc[r] = "idle"
    /\ \E q \in Requests :
         /\ q.linked => tree = "checkout"
         /\ req' = [req EXCEPT ![r] = q]
         /\ Go(r, IF q.linked THEN "stash" ELSE "look")
    /\ company' = [s \in Runs |->
                     \/ company[s]
                     \/ s = r /\ \E o \in Runs : Active(o)
                     \/ s # r /\ Active(s)]
    /\ UNCHANGED <<files, phase, turns, defers, hitches>>

(* Mutant: only commands outside the worktree prepare a clean one. *)
NoStash(r) ==
    /\ tree = "checkout" /\ Go(r, "install")
    /\ UNCHANGED <<files, phase, turns, defers>>

(* stashIfDirty: the changes, whoever made them, leave the checkout. *)
StashIfDirty(r) ==
    /\ tree = "checkout" /\ Go(r, "install")
    /\ dirty' = FALSE
    /\ UNCHANGED <<tree, session, phase, turns, defers>>

Stash(r) == pc[r] = "stash" /\ (StashIfDirty(r) \/ Fails(r))

(* createOrReuseLinkedWorktree looks for .git first (files that a removal  *)
(* left behind may hold one still),                                        *)
Look(r) ==
    /\ pc[r] = "look"
    /\ \/ tree # "absent" /\ Go(r, "install")
       \/ tree # "checkout" /\ Go(r, "add")
    /\ UNCHANGED <<files, phase, turns, defers>>

(* and adds then: git refuses a path that holds anything. *)
Add(r) ==
    /\ pc[r] = "add"
    /\ \/ /\ tree = "absent" /\ tree' = "checkout"
          /\ Go(r, "install")
          /\ UNCHANGED <<dirty, session, phase, turns, defers>>
       \/ Fails(r)

(* os.MkdirAll below the path of the worktree. *)
Mkdir == tree' = IF tree = "absent" THEN "leftover" ELSE tree

(* The rest of prepareWorktree: directories, installation, verification; a *)
(* directory without the project is no project.                            *)
Install(r) ==
    /\ pc[r] = "install" /\ Mkdir
    /\ \/ /\ tree = "checkout"
          /\ IF req[r].kind = "init" THEN Return(r)
             ELSE Go(r, "register") /\ UNCHANGED turns
       \/ Return(r)
    /\ UNCHANGED <<dirty, session, phase, defers>>

(* Mutant: the record of a session that is there is kept. *)
RecordIfNone(r) == session' = IF session = NoRun THEN r ELSE session

(* registerSession writes its files over those that are there. *)
Record(r) == session' = r

Deferred(r) == IF req[r].preserve THEN <<"session">> ELSE <<"session", "worktree">>

Register(r) ==
    /\ pc[r] = "register"
    /\ \/ /\ Mkdir /\ Record(r)
          /\ defers' = [defers EXCEPT ![r] = Deferred(r)]
          /\ phase' = [phase EXCEPT ![r] = "setup"]
          /\ Go(r, "connect")
          /\ UNCHANGED <<dirty, turns>>
       \/ Fails(r)

-----------------------------------------------------------------------------
(* A phase: its app-server is started, initialized and given a thread.  A  *)
(* server that dies before it answered is waited for on a context that     *)
(* never ends.  (In setup also the plan's directory and the event writer.) *)
Connect(r) ==
    /\ pc[r] = "connect"
    /\ \/ /\ \E l \in {IF phase[r] = "coding" THEN "loop" ELSE "turn", "hung"} : Go(r, l)
          /\ UNCHANGED <<files, phase, turns, defers>>
       \/ Fails(r)

(* Mutant: a turn that failed is not counted. *)
CountSuccess(r) ==
    iterations' = [iterations EXCEPT ![r] = IF failed[r] THEN @ ELSE @ + 1]

CountTurn(r) == iterations' = [iterations EXCEPT ![r] = @ + 1]

(* Mutant: off by one. *)
OneMoreTurn(r) == iterations[r] <= req[r].limit

MayIterate(r) == iterations[r] < req[r].limit

(* The head of the coding loop. *)
Loop(r) ==
    /\ pc[r] = "loop"
    /\ IF MayIterate(r)
       THEN CountTurn(r) /\ Go(r, "turn")
       ELSE UNCHANGED iterations /\ Go(r, "leave")
    /\ UNCHANGED <<files, phase, failed, promised, defers>>

(* The agent changes files, in a turn, and *)
Edit(r) ==
    /\ pc[r] = "turn" /\ tree = "checkout" /\ ~dirty
    /\ dirty' = TRUE
    /\ UNCHANGED <<tree, session, pc, phase, turns, defers>>

(* commits everything there is, or does not.  RunTurn returns the status   *)
(* and the text whether the turn failed or not, or an error (timeout).     *)
TurnReturns(r, f, p) ==
    LET Answer == /\ failed' = [failed EXCEPT ![r] = f]
                  /\ promised' = [promised EXCEPT ![r] = p]
                  /\ UNCHANGED iterations IN
    \/ phase[r] = "setup" /\ (f \/ ~p) /\ Return(r) /\ UNCHANGED phase
    \/ /\ phase[r] = "setup" /\ ~f /\ p /\ Answer
       /\ Go(r, "connect") /\ phase' = [phase EXCEPT ![r] = "coding"]
    \/ /\ phase[r] = "coding" /\ Answer
       /\ Go(r, IF ~f /\ p THEN "leave" ELSE "loop")
       /\ UNCHANGED phase
    \/ /\ phase[r] = "pr" /\ Return(r)
       /\ phase' = IF f THEN phase ELSE [phase EXCEPT ![r] = "done"]

TurnEnds(r) ==
    /\ pc[r] = "turn"
    /\ \E f, p \in BOOLEAN : TurnReturns(r, f, p)
    /\ dirty' \in {dirty, FALSE}
    /\ UNCHANGED <<tree, session, defers>>

Turn(r) == TurnEnds(r) \/ (pc[r] = "turn" /\ Fails(r))

(* Mutant: off by one. *)
GivesUpLater(r) == iterations[r] > req[r].limit /\ ~promised[r]

GivesUp(r) == iterations[r] >= req[r].limit /\ ~promised[r]

(* After the coding loop.  agentText is a variable of all the phases: with *)
(* no coding turn it still holds what the setup agent said.                *)
Leave(r) ==
    /\ pc[r] = "leave"
    /\ IF GivesUp(r) THEN Return(r) /\ UNCHANGED phase
       ELSE /\ Go(r, "connect") /\ phase' = [phase EXCEPT ![r] = "pr"]
            /\ UNCHANGED turns
    /\ UNCHANGED <<files, defers>>

-----------------------------------------------------------------------------
(* Mutant: the worktree of a run that failed is kept. *)
CleanupOnSuccess(r) ==
    IF req[r].linked \/ tree # "checkout" \/ phase[r] # "done" THEN UNCHANGED <<files, hitches>>
    ELSE tree' = "absent" /\ dirty' = FALSE /\ session' = NoRun /\ UNCHANGED hitches

(* The deferred call failed, and its error is dropped. *)
Hitch(r, call) == hitches' = [hitches EXCEPT ![r] = @ \cup {call}]

(* git worktree remove --force, with all that is in it.  It may refuse, as *)
(* for a path that is no worktree, or get half way: git forgets a worktree *)
(* some files of which it could not remove.                                *)
CleanupWorktree(r) ==
    \/ req[r].linked /\ UNCHANGED <<files, hitches>>
    \/ /\ ~req[r].linked /\ tree = "checkout"
       /\ tree' = "absent" /\ dirty' = FALSE /\ session' = NoRun
       /\ UNCHANGED hitches
    \/ /\ ~req[r].linked /\ Hitch(r, "worktree")
       /\ \/ UNCHANGED files
          \/ /\ tree = "checkout" /\ tree' = "leftover" /\ dirty' = FALSE
             /\ session' \in {session, NoRun}

(* The record is removed whoever wrote it, or cannot be. *)
CleanupSession(r) ==
    /\ \/ session' = NoRun /\ UNCHANGED hitches
       \/ session # NoRun /\ Hitch(r, "session") /\ UNCHANGED session
    /\ UNCHANGED <<tree, dirty>>

Cleanup(r) ==
    /\ pc[r] = "cleanup" /\ defers[r] # <<>>
    /\ defers' = [defers EXCEPT ![r] = Front(@)]
    /\ IF Last(defers[r]) = "worktree" THEN CleanupWorktree(r) ELSE CleanupSession(r)
    /\ UNCHANGED <<pc, phase, turns, req, company>>

(* The process is gone: nothing of it is left but its files. *)
Gone(r) ==
    /\ Go(r, "gone")
    /\ req' = [req EXCEPT ![r] = NoRequest]
    /\ phase' = [phase EXCEPT ![r] = "none"]
    /\ iterations' = [iterations EXCEPT ![r] = 0]
    /\ failed' = [failed EXCEPT ![r] = FALSE]
    /\ promised' = [promised EXCEPT ![r] = FALSE]
    /\ defers' = [defers EXCEPT ![r] = <<>>]
    /\ company' = [company EXCEPT ![r] = FALSE]
    /\ hitches' = [hitches EXCEPT ![r] = {}]
    /\ UNCHANGED files

Exit(r) == pc[r] = "cleanup" /\ defers[r] = <<>> /\ Gone(r)

(* The command handles no signal: its deferred calls do not run. *)
Kill(r) == Active(r) /\ Gone(r)

(* Another program gets the pid of the record, whose process is gone. *)
PidReused(r) ==
    /\ session = r /\ pc[r] = "gone" /\ Go(r, "recycled")
    /\ UNCHANGED <<files, phase, turns, defers>>

(* loopLogger.append: while the command lives its readers log what the     *)
(* app-servers wrote, and make the log's directory.                        *)
Log(r) ==
    /\ Active(r) /\ phase[r] # "none" /\ tree = "absent"
    /\ Mkdir
    /\ UNCHANGED <<dirty, session, pc, phase, turns, defers>>

-----------------------------------------------------------------------------
Prepare(r) == Stash(r) \/ Look(r) \/ Add(r) \/ Install(r) \/ Register(r)

Work(r) == Connect(r) \/ Loop(r) \/ Turn(r) \/ Leave(r)

Step(r) ==
    \/ (Prepare(r) \/ Work(r)) /\ UNCHANGED <<req, company, hitches>>
    \/ Cleanup(r)
    \/ Exit(r)

Next == \E r \in Runs :
          \/ Start(r)
          \/ Step(r)
          \/ (Edit(r) \/ Log(r) \/ PidReused(r)) /\ UNCHANGED <<req, company, hitches>>
          \/ Kill(r)

Spec == Init /\ [][Next]_vars

(* Each process is scheduled.  A turn ends at the latest with its timeout. *)
FairSpec == Spec /\ \A r \in Runs : WF_vars(Step(r))

-----------------------------------------------------------------------------
(* Where the commands can be.  No run begins more turns than it may, and   *)
(* none has a phase or a deferred call before its session is registered.   *)
TypeOK ==
    /\ tree \in {"absent", "checkout", "leftover"}
    /\ dirty \in BOOLEAN /\ session \in Runs \cup {NoRun}
    /\ pc \in [Runs -> {"idle", "stash", "look", "add", "install", "register", "connect",
                        "loop", "turn", "leave", "hung", "cleanup", "gone", "recycled"}]
    /\ req \in [Runs -> Requests]
    /\ phase \in [Runs -> {"none", "setup", "coding", "pr", "done"}]
    /\ iterations \in [Runs -> Nat] /\ \A r \in Runs : iterations[r] <= req[r].limit
    /\ failed \in [Runs -> BOOLEAN] /\ promised \in [Runs -> BOOLEAN]
    /\ company \in [Runs -> BOOLEAN] /\ hitches \in [Runs -> SUBSET {"session", "worktree"}]
    /\ defers \in [Runs -> {<<>>, <<"session">>, <<"session", "worktree">>}]
    /\ \A r \in Runs : phase[r] = "none" => defers[r] = <<>>

(* Mutant: the process is not asked for. *)
ListedDeadOrAlive(r) == session = r

(* listSessions: kill -0 finds a process under the pid of the record, be   *)
(* it the command or whatever has its pid by now.                          *)
Listed(r) == session = r /\ (Active(r) \/ pc[r] = "recycled")

Registered(r) == phase[r] # "none" /\ Active(r) /\ defers[r] # <<>>

(* ralph-loop ls: what it lists is a run between the registration of its   *)
(* session and its end, whatever was killed, removed or written over,      *)
(* unless its record could not be removed or its pid was reused; and a run *)
(* that shares the worktree with none is listed as long as it works.       *)
SessionsTellRuns ==
    \A r \in Runs :
      /\ Listed(r) => Registered(r) \/ "session" \in hitches[r] \/ pc[r] = "recycled"
      /\ (Registered(r) /\ pc[r] # "cleanup" /\ ~company[r]) => Listed(r)

(* A run that ends, however, leaves no record of its own, unless just that *)
(* could not be removed.  Alone, it leaves the worktree it was started in  *)
(* or was to keep, and no other that git would remove (run.go:479-484).    *)
(* What git no longer knows, the files of a removal that failed half way   *)
(* or the log's directory, may stay at the path.                           *)
CleanedUp ==
    \A r \in Runs :
      (pc[r] = "cleanup" /\ defers[r] = <<>> /\ phase[r] # "none") =>
        /\ "session" \notin hitches[r] => session # r
        /\ ~company[r] => IF req[r].preserve \/ req[r].linked THEN tree = "checkout"
                          ELSE "worktree" \notin hitches[r] => tree # "checkout"

(* A run started in a worktree it has to itself gives the setup agent a    *)
(* clean checkout, whatever a run killed before it left there.             *)
StartsClean ==
    \A r \in Runs :
      (pc[r] = "connect" /\ phase[r] = "setup" /\ req[r].linked /\ ~company[r]) => ~dirty

(* The pull-request agent starts only after a coding turn that said it was *)
(* done, the last one the limit allows included.  With a limit of 0, which *)
(* a JSON request may ask for, there is none: it is the setup agent's word *)
(* then that the text still holds.                                         *)
PRAfterPromise ==
    \A r \in Runs :
      (phase[r] = "pr" /\ pc[r] \in {"connect", "turn"}) =>
        promised[r] /\ (iterations[r] > 0 \/ req[r].limit = 0)

(* A command ends, or waits for an app-server that died before it answered *)
(* initialize or thread/start.                                             *)
RunEnds == \A r \in Runs : Active(r) ~> (~Active(r) \/ pc[r] = "hung")

(* specs/ralph-loop/SPEC.md, "Key properties": a pull request is only      *)
(* created after the coding loop signals completion, and a turn that       *)
(* failed does not ("Loop driver logic").                                  *)
PRRequiresCompletion ==
    \A r \in Runs :
      (phase[r] = "pr" /\ pc[r] \in {"connect", "turn"}) =>
        iterations[r] > 0 /\ promised[r] /\ ~failed[r]

(* specs/ralph-loop/SPEC.md, "Key properties": no two concurrent sessions  *)
(* share the same worktree.                                                *)
WorktreeExclusion ==
    \A r, s \in Runs : r # s => ~(Registered(r) /\ Registered(s))
=============================================================================
