-------------------------- MODULE FoundryTaskIndex --------------------------
(***************************************************************************)
(* Which task has which branch: the organization actor's taskIndex and     *)
(* taskSummaries, of foundry/packages/backend/src/actors/organization      *)
(* (actions/task-mutations.ts, actions/tasks.ts, workflow.ts), and the     *)
(* records of the task actors (task/workflow/common.ts, init.ts), for one  *)
(* repository.                                                             *)
(*                                                                         *)
(* createTask is an action and several run at once; pull requests and the  *)
(* summaries the tasks send go through the organization's workflow loop,   *)
(* one after the other, beside them.  A pull request on an unknown branch  *)
(* makes a virtual task, which has an entry and a summary but no actor     *)
(* before somebody opens it.  What happens between two awaits is one step. *)
(* An actor's own database does not fail; what one actor asks of another   *)
(* may.                                                                    *)
(***************************************************************************)
EXTENDS Naturals, FiniteSets

CONSTANTS
    Creations,      \* calls of createTask, and the tasks they make
    Virtual,        \* ids of virtual tasks
    Branches,
    Wishes,         \* what the calls may ask for: a set of functions on Creations
    None,
    Changing,       \* bound: the tasks that change after their first record,
    MaxTouches,     \* and how often
    MaxPulls,       \* bound on the pull requests reported
    MaxFailures     \* bound on the tasks for which a call of another actor has failed

Tasks == Creations \cup Virtual

ASSUME IndexAssumption ==
    /\ Creations \cap Virtual = {} /\ None \notin Tasks \cup Branches
    /\ Wishes \subseteq [Creations -> [kind : {"onBranch", "named", "any"},
                                       branch : Branches]]
    /\ Changing \subseteq Tasks
    /\ MaxTouches \in Nat /\ MaxPulls \in Nat /\ MaxFailures \in Nat

VARIABLES
    wish,           \* what each call asks for; never changes
    at,             \* where each call is
    got,            \* got[c]: the branch, the owner or the summary c holds
    index,          \* index[t]: the branch of t's row in taskIndex, or None
    summary,        \* summary[t]: t's row in taskSummaries, or None
    actor,          \* actor[t]: t's actor and its record
    commands,       \* tasks whose initialize command waits in their queue
    reader,         \* what a task that is asked for its record has read
    owing,          \* tasks that have stored something and are about to broadcast it
    news,           \* summaries on their way to the organization
    touches,        \* changes so far
    loop,           \* the pull request the organization's loop works on
    pulls,          \* pull requests reported
    \* Auxiliary: branches two tasks were let on; tasks whose entry another one
    \* deleted, or was there and could not be read; tasks whose summary was
    \* overwritten by an older one, or was not sent since a broadcast failed.
    contested, reclaimed, unread, overtaken, unsent

callVars  == <<at, got>>
tableVars == <<index, summary>>
taskVars  == <<actor, commands, reader, owing, news, touches>>
loopVars  == <<loop, pulls>>
aux       == <<contested, reclaimed, unread, overtaken, unsent>>
vars == <<wish, callVars, tableVars, taskVars, loopVars, aux>>

Summary == [branch : Branches \cup {None}, version : Nat]
ASSUME NoneAssumption == None \notin Summary

Found == [branch : Branches \cup {None}, owner : Tasks \cup {None}, summary : Summary \cup {None}]
Places == {"idle", "asking", "inserting", "creating", "initializing",
           "reading", "writing", "done", "failed"}

TypeOK ==
    /\ wish \in Wishes
    /\ at \in [Creations -> Places]
    /\ got \in [Creations -> Found]
    /\ index \in [Tasks -> Branches \cup {None}]
    /\ summary \in [Tasks -> Summary \cup {None}]
    /\ actor \in [Tasks -> [state : {"none", "empty", "record"}, record : Summary]]
    /\ commands \subseteq Creations
    /\ reader \in [Tasks -> [state : {"no", "asked", "read"}, branch : Branches \cup {None}]]
    /\ owing \subseteq Tasks
    /\ news \subseteq [task : Tasks, summary : Summary]
    /\ touches \in 0 .. MaxTouches
    /\ loop \in [at : {"idle", "indexing", "listing"}, task : Virtual \cup {None},
                 branch : Branches \cup {None}]
    /\ pulls \in 0 .. MaxPulls
    /\ contested \subseteq Branches
    /\ reclaimed \subseteq Tasks /\ unread \subseteq Tasks
    /\ overtaken \subseteq Tasks /\ unsent \subseteq Tasks

Blank == [branch |-> None, version |-> 0]
Free  == [at |-> "idle", task |-> None, branch |-> None]

Init ==
    /\ wish \in Wishes
    /\ at = [c \in Creations |-> "idle"]
    /\ got = [c \in Creations |-> [branch |-> None, owner |-> None, summary |-> None]]
    /\ index = [t \in Tasks |-> None] /\ summary = [t \in Tasks |-> None]
    /\ actor = [t \in Tasks |-> [state |-> "none", record |-> Blank]]
    /\ commands = {} /\ reader = [t \in Tasks |-> [state |-> "no", branch |-> None]]
    /\ owing = {} /\ news = {} /\ touches = 0
    /\ loop = Free /\ pulls = 0
    /\ contested = {} /\ reclaimed = {} /\ unread = {} /\ overtaken = {} /\ unsent = {}

Goto(c, p) == at' = [at EXCEPT ![c] = p]

\* Entries of other tasks on the branch.
Rivals(t, b) == {u \in Tasks \ {t} : index[u] = b}

Contest(t, b) == contested' = IF Rivals(t, b) = {} THEN contested ELSE contested \cup {b}

-----------------------------------------------------------------------------
(* The records of the task actors *)

MayFail == Cardinality(unread) + Cardinality(unsent) < MaxFailures

\* A task stores its row, and then begins to broadcast what it has stored.
Write(t, branch) ==
    /\ actor' = [actor EXCEPT ![t] =
                   [state |-> "record",
                    record |-> [branch |-> branch, version |-> actor[t].record.version + 1]]]
    /\ owing' = owing \cup {t}

\* Who waits for the broadcast of t's initialize command goes on.
Answered(t, places) ==
    IF t \in Creations /\ t \notin commands /\ at[t] = "initializing"
    THEN \E p \in places : Goto(t, p)
    ELSE UNCHANGED at

\* broadcastTaskUpdate builds the summary from the row as it is by then, and may throw
\* before it is sent (the repository cannot be asked for its remote) or after that (the
\* detail is built again).  Broadcasts of one task that wait for the same row are one.
Broadcast(t) ==
    /\ t \in owing
    /\ owing' = owing \ {t}
    /\ \/ /\ news' = news \cup {[task |-> t, summary |-> actor[t].record]}
          /\ unsent' = unsent \ {t}
          /\ Answered(t, {"reading", "failed"})
       \/ /\ MayFail /\ unsent' = unsent \cup {t}
          /\ Answered(t, {"failed"}) /\ UNCHANGED news
    /\ UNCHANGED <<wish, got, tableVars, actor, commands, reader, touches, loopVars,
                   contested, reclaimed, unread, overtaken>>

\* A task that is asked for its record without having one looks up its entry, and
\* makes a record of it.  A lookup that fails is taken for one that finds nothing.
ReadEntry(t) ==
    LET Read(b) == reader' = [reader EXCEPT ![t] = [state |-> "read", branch |-> b]] IN
    /\ reader[t].state = "asked"
    /\ \/ /\ actor[t].state = "record"
          /\ reader' = [reader EXCEPT ![t] = [state |-> "no", branch |-> None]]
          /\ UNCHANGED unread
       \/ /\ actor[t].state # "record"
          /\ Read(index[t]) /\ UNCHANGED unread
       \/ /\ actor[t].state # "record" /\ MayFail
          /\ Read(None) /\ unread' = unread \cup {t}
    /\ UNCHANGED <<wish, callVars, tableVars, actor, commands, owing, news, touches, loopVars,
                   contested, reclaimed, overtaken, unsent>>

WriteEntry(t) ==
    /\ reader[t].state = "read"
    /\ Write(t, reader[t].branch)
    /\ reader' = [reader EXCEPT ![t] = [state |-> "no", branch |-> None]]
    /\ UNCHANGED <<wish, callVars, tableVars, commands, news, touches, loopVars, aux>>

Asked(t) ==
    reader' = [reader EXCEPT ![t] = IF @.state = "no" THEN [@ EXCEPT !.state = "asked"] ELSE @]

\* A user opens a listed task that has no actor.
View(t) ==
    /\ summary[t] # None /\ actor[t].state = "none"
    /\ actor' = [actor EXCEPT ![t].state = "empty"]
    /\ Asked(t)
    /\ UNCHANGED <<wish, callVars, tableVars, commands, owing, news, touches, loopVars, aux>>

\* The change is not broadcast.
TouchSilently(t) ==
    /\ t \in Changing /\ actor[t].state = "record" /\ touches < MaxTouches
    /\ touches' = touches + 1
    /\ actor' = [actor EXCEPT ![t].record.version = @ + 1]
    /\ UNCHANGED <<wish, callVars, tableVars, commands, reader, owing, news, loopVars, aux>>

\* Provisioning, renaming, a pull request's data: every change is to be broadcast.
Touch(t) ==
    /\ t \in Changing /\ actor[t].state = "record" /\ touches < MaxTouches
    /\ touches' = touches + 1
    /\ Write(t, actor[t].record.branch)
    /\ UNCHANGED <<wish, callVars, tableVars, commands, reader, news, loopVars, aux>>

-----------------------------------------------------------------------------
(* createTask *)

\* registerTaskBranchMutation looks for an owner; the other way is to choose a name
\* no entry has, once all names are read.
Choose(c) ==
    LET b == wish[c].branch
        Hold(branch, owner, p) ==
            /\ got' = [got EXCEPT ![c] = [branch |-> branch, owner |-> owner, summary |-> None]]
            /\ Goto(c, p)
    IN
    /\ at[c] = "idle"
    /\ \/ /\ wish[c].kind = "onBranch" /\ Rivals(c, b) # {}
          /\ \E u \in Rivals(c, b) : Hold(b, u, "asking")
       \/ /\ wish[c].kind \in {"onBranch", "named"} /\ Rivals(c, b) = {}
          /\ Hold(b, None, "inserting")
       \/ /\ wish[c].kind = "named" /\ Rivals(c, b) # {}
          /\ Goto(c, "failed") /\ UNCHANGED got
       \/ /\ wish[c].kind = "any"
          /\ \E free \in Branches : Rivals(c, free) = {} /\ Hold(free, None, "inserting")
    /\ UNCHANGED <<wish, tableVars, taskVars, loopVars, aux>>

\* Any error of the owner counts as its absence.
AskOwnerOnce(c) ==
    LET u == got[c].owner IN
    /\ at[c] = "asking"
    /\ index' = [index EXCEPT ![u] = None]
    /\ reclaimed' = reclaimed \cup {u}
    /\ contested' = IF actor[u].state = "none" THEN contested \cup {got[c].branch}
                    ELSE contested
    /\ Goto(c, "inserting")
    /\ UNCHANGED <<wish, got, summary, taskVars, loopVars, unread, overtaken, unsent>>

\* An owner that answers, or fails otherwise than by not being there, keeps the
\* branch; the entry of one without an actor is deleted as stale.
AskOwner(c) ==
    LET u == got[c].owner IN
    /\ at[c] = "asking"
    /\ IF actor[u].state = "none"
       THEN /\ index' = [index EXCEPT ![u] = None]
            /\ reclaimed' = reclaimed \cup {u}
            /\ contested' = contested \cup {got[c].branch}
            /\ Goto(c, "inserting") /\ UNCHANGED reader
       ELSE /\ Goto(c, "failed") /\ Asked(u)
            /\ UNCHANGED <<index, reclaimed, contested>>
    /\ UNCHANGED <<wish, got, summary, actor, commands, owing, news, touches, loopVars,
                   unread, overtaken, unsent>>

Insert(c) ==
    /\ at[c] = "inserting"
    /\ index' = [index EXCEPT ![c] = got[c].branch]
    /\ Contest(c, got[c].branch)
    /\ Goto(c, "creating")
    /\ UNCHANGED <<wish, got, summary, taskVars, loopVars, reclaimed, unread, overtaken, unsent>>

\* getOrCreateTask; its failure deletes the entry.  Then initialize is sent.
CreateActor(c) ==
    /\ at[c] = "creating"
    /\ \/ /\ actor' = [actor EXCEPT ![c].state = "empty"]
          /\ commands' = commands \cup {c}
          /\ Goto(c, "initializing") /\ UNCHANGED index
       \/ /\ index' = [index EXCEPT ![c] = None]
          /\ Goto(c, "failed") /\ UNCHANGED <<actor, commands>>
    /\ UNCHANGED <<wish, got, summary, reader, owing, news, touches, loopVars, aux>>

\* The task's own loop writes the record, over one it may have; createTask is answered
\* when the broadcast has ended.
Initialize(c) ==
    /\ c \in commands
    /\ Write(c, got[c].branch)
    /\ commands' = commands \ {c}
    /\ UNCHANGED <<wish, callVars, tableVars, reader, news, touches, loopVars, aux>>

\* createTask rejects after ten seconds; the command stays in the task's queue.
InitializeTimesOut(c) ==
    /\ at[c] = "initializing"
    /\ Goto(c, "failed")
    /\ UNCHANGED <<wish, got, tableVars, taskVars, loopVars, aux>>

\* upsertTaskSummary, whatever is there.
Upsert(t, s) ==
    /\ summary' = [summary EXCEPT ![t] = s]
    /\ overtaken' = IF summary[t] # None /\ s.version < summary[t].version
                    THEN overtaken \cup {t}
                    ELSE IF s = actor[t].record THEN overtaken \ {t} ELSE overtaken

\* The summary is read from the task, then written; the code does it twice, and goes on
\* when it fails.
ReadSummary(c) ==
    /\ at[c] = "reading"
    /\ \/ got' = [got EXCEPT ![c].summary = actor[c].record] /\ Goto(c, "writing")
       \/ Goto(c, "done") /\ UNCHANGED got
    /\ UNCHANGED <<wish, tableVars, taskVars, loopVars, aux>>

WriteSummary(c) ==
    /\ at[c] = "writing"
    /\ Upsert(c, got[c].summary)
    /\ got' = [got EXCEPT ![c].summary = None]
    /\ Goto(c, "reading") \/ Goto(c, "done")
    /\ UNCHANGED <<wish, index, taskVars, loopVars, contested, reclaimed, unread, unsent>>

-----------------------------------------------------------------------------
(* The organization's loop *)

\* A summary is only written over a listed one.
ApplyToListed(n) ==
    /\ loop.at = "idle" /\ n \in news
    /\ news' = news \ {n}
    /\ IF summary[n.task] = None THEN UNCHANGED <<summary, overtaken>>
       ELSE Upsert(n.task, n.summary)
    /\ UNCHANGED <<wish, callVars, index, actor, commands, reader, owing, touches, loopVars,
                   contested, reclaimed, unread, unsent>>

\* applyTaskSummaryUpdate.  Two changes of a task build and send their summaries
\* side by side, so that they arrive in any order.
Apply(n) ==
    /\ loop.at = "idle" /\ n \in news
    /\ news' = news \ {n}
    /\ Upsert(n.task, n.summary)
    /\ UNCHANGED <<wish, callVars, index, actor, commands, reader, owing, touches, loopVars,
                   contested, reclaimed, unread, unsent>>

\* refreshTaskSummaryForBranch: a listed branch only gets the pull request's data;
\* for another one a virtual task is made.
PullRequest(b) ==
    /\ loop.at = "idle" /\ pulls < MaxPulls
    /\ pulls' = pulls + 1
    /\ IF \E t \in Tasks : summary[t] # None /\ summary[t].branch = b
       THEN UNCHANGED loop
       ELSE \E v \in Virtual :
              /\ index[v] = None /\ summary[v] = None /\ v \notin reclaimed
              /\ loop' = [at |-> "indexing", task |-> v, branch |-> b]
    /\ UNCHANGED <<wish, callVars, tableVars, taskVars, aux>>

\* The summary is stored before the entry.
StoreVirtualListed ==
    LET v == loop.task IN
    /\ \/ /\ loop.at = "indexing"
          /\ summary' = [summary EXCEPT ![v] = [branch |-> loop.branch, version |-> 0]]
          /\ loop' = [loop EXCEPT !.at = "listing"]
          /\ UNCHANGED <<index, contested>>
       \/ /\ loop.at = "listing"
          /\ index' = [index EXCEPT ![v] = loop.branch]
          /\ Contest(v, loop.branch)
          /\ loop' = Free
          /\ UNCHANGED summary
    /\ UNCHANGED <<wish, callVars, taskVars, pulls, reclaimed, unread, overtaken, unsent>>

\* First the entry, then the summary.
StoreVirtual ==
    LET v == loop.task IN
    /\ \/ /\ loop.at = "indexing"
          /\ index' = [index EXCEPT ![v] = loop.branch]
          /\ Contest(v, loop.branch)
          /\ loop' = [loop EXCEPT !.at = "listing"]
          /\ UNCHANGED summary
       \/ /\ loop.at = "listing"
          /\ summary' = [summary EXCEPT ![v] = [branch |-> loop.branch, version |-> 0]]
          /\ loop' = Free
          /\ UNCHANGED <<index, contested>>
    /\ UNCHANGED <<wish, callVars, taskVars, pulls, reclaimed, unread, overtaken, unsent>>

Create(c) ==
    AskOwner(c) \/ Insert(c) \/ CreateActor(c) \/ ReadSummary(c) \/ WriteSummary(c)

\* What a task has begun, and what the organization has to do.
Work(t) ==
    \/ ReadEntry(t) \/ WriteEntry(t) \/ Broadcast(t)
    \/ t \in Creations /\ Initialize(t)

Loop == StoreVirtual \/ \E n \in news : Apply(n)

Next ==
    \/ \E c \in Creations : Choose(c) \/ Create(c) \/ InitializeTimesOut(c)
    \/ \E t \in Tasks : Work(t) \/ View(t) \/ Touch(t)
    \/ Loop \/ \E b \in Branches : PullRequest(b)

\* What was begun goes on; nobody has to create, open, change or report anything.
Fairness ==
    /\ \A c \in Creations : WF_vars(Create(c))
    /\ \A t \in Tasks : WF_vars(Work(t))
    /\ WF_vars(Loop)

Spec == Init /\ [][Next]_vars /\ Fairness

-----------------------------------------------------------------------------
(* Properties *)

Holds(t, b) == \/ actor[t].state = "record" /\ actor[t].record.branch = b
               \/ summary[t] # None /\ summary[t].branch = b

\* No two tasks are listed or work on one branch, except where a creation passed
\* another one, a pull request passed a creation, or an entry without an actor was
\* taken for stale: an owner that is there is always found and heard.
OneTaskPerBranch ==
    \A t, u \in Tasks, b \in Branches :
        t # u /\ Holds(t, b) /\ Holds(u, b) => b \in contested

\* A task that was opened before it had a record finds its branch in the index,
\* unless that entry was deleted or the organization could not be asked.
OpenedWithBranch ==
    \A t \in Tasks \ (reclaimed \cup unread) :
        actor[t].state = "record" => actor[t].record.branch # None

\* The list shows every task as it is, or a summary that says so is on its way or about
\* to be sent, unless an older summary was written over a newer one or the last broadcast
\* failed.
ListedAsIs ==
    \A t \in Tasks \ (overtaken \cup unsent) :
        actor[t].state = "record" =>
            \/ summary[t] = actor[t].record
            \/ [task |-> t, summary |-> actor[t].record] \in news
            \/ t \in owing

\* Every task that has a record is listed in the end, those whose creation was given up
\* or was answered with an error included, except one whose broadcast failed.
EventuallyListed ==
    \A t \in Tasks : (actor[t].state = "record") ~> (summary[t] # None \/ t \in unsent)
=============================================================================
