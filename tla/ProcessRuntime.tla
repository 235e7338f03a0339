--------------------------- MODULE ProcessRuntime ---------------------------
(***************************************************************************)
(* The managed processes of /v1/processes: ProcessRuntime of               *)
(* server/packages/sandbox-agent/src/process_runtime.rs (their logs are in *)
(* ProcessLogs).                                                           *)
(*                                                                         *)
(* A call is one handler future; a process is named after the call that    *)
(* started it.  Two locks are held across an await: list_processes keeps   *)
(* the table's read lock while it takes a snapshot of every process, and   *)
(* write_input keeps the process's runtime mutex while it writes into a    *)
(* pipe the process may not read.  The table's lock is tokio's fair        *)
(* RwLock: while a writer waits no new reader gets in.  All other critical *)
(* sections have no await inside and are part of the step that needs them. *)
(***************************************************************************)
EXTENDS Naturals, FiniteSets

CONSTANTS
    Calls,                      \* handler futures
    None,                       \* no lock owner, no process
    Kinds,                      \* Kinds[h]: what call h may be
    Impatient,                  \* calls whose client may hang up
    max_concurrent_processes    \* the configured limit

ASSUME ProcessAssumption ==
    /\ None \notin Calls
    /\ Kinds \in [Calls -> SUBSET {"start", "stop", "kill", "delete", "write", "list", "get"}]
    /\ Impatient \subseteq Calls
    /\ max_concurrent_processes \in Nat \ {0}

VARIABLES
    processes,      \* ids in the table
    status,         \* status[p]: ManagedStatus.status
    pid,            \* pid[p]: runtime.pid (and runtime.stdin) is Some
    runtimeLock,    \* runtimeLock[p]: the write_input that holds the mutex
    os,             \* os[p]: the process in the operating system
    watcher,        \* watcher[p]: watch_exit
    at,             \* at[h]: the point call h has reached
    kind,           \* kind[h]: what call h does
    target,         \* target[h]: the process h names
    todo            \* todo[h]: processes list_processes has still to look at

callVars    == <<at, kind, target>>
processVars == <<status, pid, os, watcher>>
vars == <<processes, processVars, runtimeLock, callVars, todo>>

Ended == {"done", "failed", "refused", "notfound", "gone", "lost"}

TypeOK ==
    /\ processes \subseteq Calls
    /\ status \in [Calls -> {"none", "running", "exited"}]
    /\ pid \in [Calls -> BOOLEAN]
    /\ runtimeLock \in [Calls -> Calls \cup {None}]
    /\ os \in [Calls -> {"none", "alive", "zombie", "reaped"}]
    /\ watcher \in [Calls -> {"none", "wait", "status", "runtime", "done"}]
    /\ at \in [Calls -> {"idle", "count", "spawn", "insert", "lookup", "status", "remove", "pid",
                         "signal", "waitexit", "runtime", "writing", "read", "listing", "snapshot"}
                        \cup Ended]
    /\ kind \in [Calls -> {"none", "start", "stop", "kill", "delete", "write", "list", "get"}]
    /\ target \in [Calls -> Calls \cup {None}]
    /\ todo \in [Calls -> SUBSET Calls]

Init ==
    /\ processes = {}
    /\ status = [p \in Calls |-> "none"]
    /\ pid = [p \in Calls |-> FALSE]
    /\ runtimeLock = [p \in Calls |-> None]
    /\ os = [p \in Calls |-> "none"]
    /\ watcher = [p \in Calls |-> "none"]
    /\ at = [h \in Calls |-> "idle"]
    /\ kind = [h \in Calls |-> "none"]
    /\ target = [h \in Calls |-> None]
    /\ todo = [h \in Calls |-> {}]

Goto(h, place) == at' = [at EXCEPT ![h] = place]

\* Move from one point to another and change nothing else.
Pass(h, from, to) ==
    /\ at[h] = from
    /\ Goto(h, to)
    /\ UNCHANGED <<processes, processVars, runtimeLock, kind, target, todo>>

Running == {p \in processes : status[p] = "running"}

\* Calls that hold the table's read lock across an await; waiting writers.
Readers == {h \in Calls : at[h] = "listing"}
Writers == {h \in Calls : at[h] \in {"insert", "remove"}}
CanRead == Readers = {} \/ Writers = {}

-----------------------------------------------------------------------------
(* start_process().                                                         *)

Start(h) ==
    /\ at[h] = "idle"
    /\ "start" \in Kinds[h]
    /\ Goto(h, "count")
    /\ kind' = [kind EXCEPT ![h] = "start"]
    /\ target' = [target EXCEPT ![h] = h]
    /\ UNCHANGED <<processes, processVars, runtimeLock, todo>>

CountRunning(h) ==
    /\ CanRead
    /\ \/ Cardinality(Running) < max_concurrent_processes /\ Pass(h, "count", "spawn")
       \/ Cardinality(Running) >= max_concurrent_processes /\ Pass(h, "count", "refused")

\* spawn_existing_process: the tasks that pump the output and wait for the
\* exit start before the id is in the table.
SpawnProcess(h) ==
    /\ at[h] = "spawn"
    /\ Goto(h, "insert")
    /\ status' = [status EXCEPT ![h] = "running"]
    /\ pid' = [pid EXCEPT ![h] = TRUE]
    /\ os' = [os EXCEPT ![h] = "alive"]
    /\ watcher' = [watcher EXCEPT ![h] = "wait"]
    /\ UNCHANGED <<processes, runtimeLock, kind, target, todo>>

InsertProcess(h) ==
    /\ at[h] = "insert"
    /\ Readers = {}
    /\ processes' = processes \cup {h}
    /\ Goto(h, "snapshot")
    /\ UNCHANGED <<processVars, runtimeLock, kind, target, todo>>

-----------------------------------------------------------------------------
(* Calls that name a process.                                               *)

\* An id nobody is going to start is not found and of no interest.
Address(h) ==
    /\ at[h] = "idle"
    /\ Goto(h, "lookup")
    /\ \E k \in Kinds[h] \ {"start", "list"} : kind' = [kind EXCEPT ![h] = k]
    /\ \E p \in Calls : kind[p] = "start" /\ target' = [target EXCEPT ![h] = p]
    /\ UNCHANGED <<processes, processVars, runtimeLock, todo>>

LookupProcess(h) ==
    /\ at[h] = "lookup"
    /\ CanRead
    /\ \/ target[h] \notin processes /\ Pass(h, "lookup", "notfound")
       \/ /\ target[h] \in processes
          /\ Pass(h, "lookup", IF kind[h] = "get" THEN "snapshot" ELSE "status")

\* Variant: delete_process does not look at the status.
DeleteChecksNothing(h) == kind[h] = "delete" /\ Pass(h, "status", "remove")

DeleteChecks(h) ==
    /\ at[h] = "status"
    /\ kind[h] = "delete"
    /\ \/ status[target[h]] = "running" /\ Pass(h, "status", "refused")
       \/ status[target[h]] # "running" /\ Pass(h, "status", "remove")

RemoveProcess(h) ==
    /\ at[h] = "remove"
    /\ Readers = {}
    /\ processes' = processes \ {target[h]}
    /\ Goto(h, "done")
    /\ UNCHANGED <<processVars, runtimeLock, kind, target, todo>>

\* send_signal() looks at the status, takes the pid under the mutex, and
\* sends the signal after it has let the mutex go.
SignalChecks(h) ==
    /\ kind[h] \in {"stop", "kill"}
    /\ Pass(h, "status", IF status[target[h]] = "running" THEN "pid" ELSE "waitexit")

TakePid(h) ==
    /\ at[h] = "pid"
    /\ runtimeLock[target[h]] = None
    /\ Pass(h, "pid", IF pid[target[h]] THEN "signal" ELSE "waitexit")

\* SIGTERM may be handled or ignored; the pid of a reaped process is free (the
\* signal is lost, reaches whoever got the pid, or is not permitted).
SendSignal(h) ==
    LET p == target[h] IN
    /\ at[h] = "signal"
    /\ \/ Goto(h, "waitexit")
       \/ os[p] = "reaped" /\ Goto(h, "failed")
    /\ \/ /\ os[p] = "alive"
          /\ os' = [os EXCEPT ![p] = "zombie"]
       \/ /\ os[p] # "alive" \/ kind[h] = "stop"
          /\ UNCHANGED os
    /\ UNCHANGED <<processes, status, pid, watcher, runtimeLock, kind, target, todo>>

\* maybe_wait_for_exit: until the status changes or waitMs have passed.
WaitForExit(h) == Pass(h, "waitexit", "snapshot")

\* snapshot() takes the runtime mutex for the pid.
TakeSnapshot(h) ==
    /\ at[h] = "snapshot"
    /\ runtimeLock[target[h]] = None
    /\ Pass(h, "snapshot", "done")

-----------------------------------------------------------------------------
(* write_input().                                                           *)

WriteChecks(h) ==
    /\ kind[h] = "write"
    /\ Pass(h, "status", IF status[target[h]] = "running" THEN "runtime" ELSE "refused")

LockRuntime(h) ==
    LET p == target[h] IN
    /\ at[h] = "runtime"
    /\ runtimeLock[p] = None
    /\ \/ /\ pid[p]
          /\ Goto(h, "writing")
          /\ runtimeLock' = [runtimeLock EXCEPT ![p] = h]
       \/ /\ ~pid[p]
          /\ Goto(h, "refused")
          /\ UNCHANGED runtimeLock
    /\ UNCHANGED <<processes, processVars, kind, target, todo>>

\* Variant: the guard outlives a write that fails.
FinishWriteStuck(h, result) ==
    /\ at[h] = "writing"
    /\ Goto(h, result)
    /\ runtimeLock' = [runtimeLock EXCEPT ![target[h]] = IF result = "failed" THEN @ ELSE None]
    /\ UNCHANGED <<processes, processVars, kind, target, todo>>

FinishWrite(h, result) ==
    /\ at[h] = "writing"
    /\ Goto(h, result)
    /\ runtimeLock' = [runtimeLock EXCEPT ![target[h]] = None]
    /\ UNCHANGED <<processes, processVars, kind, target, todo>>

\* There is room in the pipe, or the process makes some.
InputRead(h)  == at[h] = "writing" /\ os[target[h]] = "alive" /\ FinishWrite(h, "done")

\* The other end of the pipe is closed.
InputFails(h) == at[h] = "writing" /\ os[target[h]] # "alive" /\ FinishWrite(h, "failed")

-----------------------------------------------------------------------------
(* list_processes().                                                        *)

List(h) ==
    /\ at[h] = "idle"
    /\ "list" \in Kinds[h]
    /\ Goto(h, "read")
    /\ kind' = [kind EXCEPT ![h] = "list"]
    /\ UNCHANGED <<processes, processVars, runtimeLock, target, todo>>

LockTable(h) ==
    /\ at[h] = "read"
    /\ CanRead
    /\ Goto(h, "listing")
    /\ todo' = [todo EXCEPT ![h] = processes]
    /\ UNCHANGED <<processes, processVars, runtimeLock, kind, target>>

ListNext(h) ==
    /\ at[h] = "listing"
    /\ \E p \in todo[h] :
        /\ runtimeLock[p] = None
        /\ todo' = [todo EXCEPT ![h] = @ \ {p}]
    /\ UNCHANGED <<processes, processVars, runtimeLock, callVars>>

ListDone(h) == todo[h] = {} /\ Pass(h, "listing", "done")

-----------------------------------------------------------------------------
(* The process and watch_exit().                                            *)

ProcessExit(p) ==
    /\ os[p] = "alive"
    /\ os' = [os EXCEPT ![p] = "zombie"]
    /\ UNCHANGED <<processes, status, pid, watcher, runtimeLock, callVars, todo>>

\* wait() returns: the kernel has forgotten the pid.
Reap(p) ==
    /\ watcher[p] = "wait"
    /\ os[p] = "zombie"
    /\ os' = [os EXCEPT ![p] = "reaped"]
    /\ watcher' = [watcher EXCEPT ![p] = "status"]
    /\ UNCHANGED <<processes, status, pid, runtimeLock, callVars, todo>>

\* mark_exited(): first the status, then, under the mutex, pid and stdin.
MarkStatus(p) ==
    /\ watcher[p] = "status"
    /\ status' = [status EXCEPT ![p] = "exited"]
    /\ watcher' = [watcher EXCEPT ![p] = "runtime"]
    /\ UNCHANGED <<processes, pid, os, runtimeLock, callVars, todo>>

MarkRuntime(p) ==
    /\ watcher[p] = "runtime"
    /\ runtimeLock[p] = None
    /\ pid' = [pid EXCEPT ![p] = FALSE]
    /\ watcher' = [watcher EXCEPT ![p] = "done"]
    /\ UNCHANGED <<processes, status, os, runtimeLock, callVars, todo>>

\* The future is dropped where it is suspended, and its guards with it.
HangUp(h) ==
    /\ h \in Impatient
    /\ at[h] \notin {"idle"} \cup Ended
    /\ Goto(h, IF at[h] = "insert" THEN "lost" ELSE "gone")
    /\ runtimeLock' = [p \in Calls |-> IF runtimeLock[p] = h THEN None ELSE runtimeLock[p]]
    /\ UNCHANGED <<processes, processVars, kind, target, todo>>

\* A spawn that fails leaves nothing behind.
SpawnFails(h) == Pass(h, "spawn", "failed")

-----------------------------------------------------------------------------
Step(h) ==
    \/ CountRunning(h) \/ SpawnProcess(h) \/ SpawnFails(h) \/ InsertProcess(h)
    \/ LookupProcess(h) \/ DeleteChecks(h) \/ RemoveProcess(h)
    \/ SignalChecks(h) \/ TakePid(h) \/ SendSignal(h) \/ WaitForExit(h) \/ TakeSnapshot(h)
    \/ WriteChecks(h) \/ LockRuntime(h) \/ InputFails(h)
    \/ LockTable(h) \/ ListNext(h) \/ ListDone(h)

WatchExit(p) == Reap(p) \/ MarkStatus(p) \/ MarkRuntime(p)

Next == \E h \in Calls :
    \/ Start(h) \/ Address(h) \/ List(h)
    \/ Step(h) \/ InputRead(h)
    \/ ProcessExit(h) \/ WatchExit(h)
    \/ HangUp(h)

Spec == Init /\ [][Next]_vars

\* Ready tasks run; a process need not read its input, nor end.
FairSpec == Spec /\ \A h \in Calls : WF_vars(Step(h)) /\ WF_vars(WatchExit(h))

\* In addition every process reads what it is sent.
ReadingSpec == FairSpec /\ \A h \in Calls : WF_vars(InputRead(h))

-----------------------------------------------------------------------------
(* Properties.                                                              *)

\* A process that has not ended is in the table or about to get there, unless
\* its client hung up while start_process waited for the table: delete_process
\* decides on a status it read earlier and removes the id later, and that is
\* sound because an end is final.
NoLostProcess ==
    \A p \in Calls : os[p] = "alive" => p \in processes \/ at[p] \in {"insert", "lost"}

\* An id once inserted is looked up in the order running, exited, deleted,
\* whatever calls race for it and whichever of them are dropped.
Life == [p \in Calls |->
    IF p \in processes THEN status[p]
    ELSE IF at[p] \in {"snapshot", "done", "gone"} /\ kind[p] = "start" /\ status[p] # "none"
         THEN "deleted" ELSE "unknown"]
Lives == INSTANCE ProcessLife WITH Processes <- Calls, life <- Life
KeepsLife == Lives!LifeSpec

\* A writer, a snapshot and mark_exited share one mutex: when a call does not
\* write any more it does not hold it (a guard kept would block every later
\* signal), and the mutex is held for a process whose stdin is still there.
RuntimeHeld ==
    \A p, h \in Calls :
        runtimeLock[p] = h => at[h] = "writing" /\ target[h] = p /\ pid[p]

\* The locks of the table and of the processes are not waited for in a
\* circle: as long as processes read their input, every call returns.
CallReturns == \A h \in Calls : at[h] # "idle" ~> at[h] \in Ended
=============================================================================
