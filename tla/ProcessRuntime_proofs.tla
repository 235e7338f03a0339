------------------------ MODULE ProcessRuntime_proofs ------------------------
(***************************************************************************)
(* Proofs about ProcessRuntime for any number of calls and processes: type *)
(* correctness, the discipline of the runtime mutex, the life of a process *)
(* id, and that no process is lost unless its own client hung up.          *)
(*                                                                         *)
(* The argument: the exit watcher goes through its points in order, so the *)
(* status of a process tells where its watcher is and never turns back;    *)
(* a status read long ago by delete_process is therefore still true.       *)
(***************************************************************************)
EXTENDS ProcessRuntime, TLAPS

\* The status and the process itself, as the exit watcher has left them.
WatcherTells ==
    \A p \in Calls :
        /\ status[p] = "none" <=> watcher[p] = "none"
        /\ status[p] = "running" <=> watcher[p] \in {"wait", "status"}
        /\ os[p] = "alive" => watcher[p] = "wait"
        /\ pid[p] => watcher[p] \in {"wait", "status", "runtime"}

\* A call that starts a process, and the process it starts.
StartTells ==
    \A h \in Calls :
        /\ at[h] = "idle" => kind[h] = "none"
        /\ at[h] \in {"count", "spawn", "insert"} => kind[h] = "start" /\ h \notin processes
        /\ at[h] \in {"idle", "count", "spawn"} => status[h] = "none"
        /\ status[h] # "none" => kind[h] = "start"
        /\ at[h] = "insert" => status[h] # "none"
        /\ at[h] = "lost" => h \notin processes
        /\ kind[h] = "start" /\ status[h] # "none" => at[h] \in {"insert", "snapshot", "done", "gone", "lost"}
        /\ kind[h] = "start" => target[h] = h

\* A call past the lookup names a process that was started; a delete about to
\* remove it has seen its end.
TargetTells ==
    \A h \in Calls :
        /\ at[h] \in {"status", "remove", "pid", "signal", "runtime", "writing"}
             => target[h] \in Calls /\ status[target[h]] # "none"
        /\ at[h] \in {"waitexit", "snapshot", "lookup"} => target[h] \in Calls
        /\ at[h] = "remove" => status[target[h]] = "exited"

\* Only processes whose start got past the insertion are in the table.
ListedTells ==
    \A p \in processes :
        status[p] # "none" /\ kind[p] = "start" /\ at[p] \in {"snapshot", "done", "gone"}

Inv == TypeOK /\ RuntimeHeld /\ WatcherTells /\ StartTells /\ TargetTells /\ ListedTells

LEMMA InitInv == Init => Inv
  BY ProcessAssumption
  DEF Init, Inv, TypeOK, RuntimeHeld, WatcherTells, StartTells, TargetTells, ListedTells, Ended

-----------------------------------------------------------------------------
(* Every step keeps the invariant.                                          *)

LEMMA StartInv == ASSUME Inv, NEW h \in Calls, Start(h) PROVE Inv'
  BY ProcessAssumption
  DEF Start, Goto, Pass, Inv, TypeOK, RuntimeHeld, WatcherTells, StartTells, TargetTells, ListedTells,
      Ended, callVars, processVars

LEMMA CountRunningInv == ASSUME Inv, NEW h \in Calls, CountRunning(h) PROVE Inv'
  BY ProcessAssumption
  DEF CountRunning, Goto, Pass, Inv, TypeOK, RuntimeHeld, WatcherTells, StartTells, TargetTells, ListedTells,
      Ended, callVars, processVars

LEMMA SpawnProcessInv == ASSUME Inv, NEW h \in Calls, SpawnProcess(h) PROVE Inv'
  BY ProcessAssumption
  DEF SpawnProcess, Goto, Pass, Inv, TypeOK, RuntimeHeld, WatcherTells, StartTells, TargetTells, ListedTells,
      Ended, callVars, processVars

LEMMA InsertProcessInv == ASSUME Inv, NEW h \in Calls, InsertProcess(h) PROVE Inv'
  BY ProcessAssumption
  DEF InsertProcess, Goto, Pass, Inv, TypeOK, RuntimeHeld, WatcherTells, StartTells, TargetTells, ListedTells,
      Ended, callVars, processVars

LEMMA AddressInv == ASSUME Inv, NEW h \in Calls, Address(h) PROVE Inv'
<1>1. PICK k \in Kinds[h] \ {"start", "list"}, p \in Calls :
        kind' = [kind EXCEPT ![h] = k] /\ target' = [target EXCEPT ![h] = p]
  BY DEF Address
<1>2. /\ k \in {"stop", "kill", "delete", "write", "get"}
      /\ at[h] = "idle" /\ at' = [at EXCEPT ![h] = "lookup"]
      /\ UNCHANGED <<processes, processVars, runtimeLock, todo>>
  BY ProcessAssumption DEF Address, Goto
<1>3. TypeOK' /\ RuntimeHeld' /\ WatcherTells'
  BY <1>1, <1>2 DEF Inv, TypeOK, RuntimeHeld, WatcherTells, processVars
<1>4. StartTells' /\ TargetTells' /\ ListedTells'
  BY <1>1, <1>2 DEF Inv, TypeOK, StartTells, TargetTells, ListedTells, processVars
<1> QED
  BY <1>3, <1>4 DEF Inv

LEMMA LookupProcessInv == ASSUME Inv, NEW h \in Calls, LookupProcess(h) PROVE Inv'
  BY ProcessAssumption
  DEF LookupProcess, Goto, Pass, Inv, TypeOK, RuntimeHeld, WatcherTells, StartTells, TargetTells, ListedTells,
      Ended, callVars, processVars

LEMMA DeleteChecksInv == ASSUME Inv, NEW h \in Calls, DeleteChecks(h) PROVE Inv'
  BY ProcessAssumption
  DEF DeleteChecks, Goto, Pass, Inv, TypeOK, RuntimeHeld, WatcherTells, StartTells, TargetTells, ListedTells,
      Ended, callVars, processVars

LEMMA RemoveProcessInv == ASSUME Inv, NEW h \in Calls, RemoveProcess(h) PROVE Inv'
  BY ProcessAssumption
  DEF RemoveProcess, Goto, Pass, Inv, TypeOK, RuntimeHeld, WatcherTells, StartTells, TargetTells, ListedTells,
      Ended, callVars, processVars

LEMMA SignalChecksInv == ASSUME Inv, NEW h \in Calls, SignalChecks(h) PROVE Inv'
  BY ProcessAssumption
  DEF SignalChecks, Goto, Pass, Inv, TypeOK, RuntimeHeld, WatcherTells, StartTells, TargetTells, ListedTells,
      Ended, callVars, processVars

LEMMA TakePidInv == ASSUME Inv, NEW h \in Calls, TakePid(h) PROVE Inv'
  BY ProcessAssumption
  DEF TakePid, Goto, Pass, Inv, TypeOK, RuntimeHeld, WatcherTells, StartTells, TargetTells, ListedTells,
      Ended, callVars, processVars

LEMMA SendSignalInv == ASSUME Inv, NEW h \in Calls, SendSignal(h) PROVE Inv'
  BY ProcessAssumption
  DEF SendSignal, Goto, Pass, Inv, TypeOK, RuntimeHeld, WatcherTells, StartTells, TargetTells, ListedTells,
      Ended, callVars, processVars

LEMMA WaitForExitInv == ASSUME Inv, NEW h \in Calls, WaitForExit(h) PROVE Inv'
  BY ProcessAssumption
  DEF WaitForExit, Goto, Pass, Inv, TypeOK, RuntimeHeld, WatcherTells, StartTells, TargetTells, ListedTells,
      Ended, callVars, processVars

LEMMA TakeSnapshotInv == ASSUME Inv, NEW h \in Calls, TakeSnapshot(h) PROVE Inv'
  BY ProcessAssumption
  DEF TakeSnapshot, Goto, Pass, Inv, TypeOK, RuntimeHeld, WatcherTells, StartTells, TargetTells, ListedTells,
      Ended, callVars, processVars

LEMMA WriteChecksInv == ASSUME Inv, NEW h \in Calls, WriteChecks(h) PROVE Inv'
  BY ProcessAssumption
  DEF WriteChecks, Goto, Pass, Inv, TypeOK, RuntimeHeld, WatcherTells, StartTells, TargetTells, ListedTells,
      Ended, callVars, processVars

LEMMA LockRuntimeInv == ASSUME Inv, NEW h \in Calls, LockRuntime(h) PROVE Inv'
  BY ProcessAssumption
  DEF LockRuntime, Goto, Pass, Inv, TypeOK, RuntimeHeld, WatcherTells, StartTells, TargetTells, ListedTells,
      Ended, callVars, processVars

LEMMA InputReadInv == ASSUME Inv, NEW h \in Calls, InputRead(h) PROVE Inv'
  BY ProcessAssumption
  DEF InputRead, FinishWrite, Goto, Pass, Inv, TypeOK, RuntimeHeld, WatcherTells, StartTells, TargetTells, ListedTells,
      Ended, callVars, processVars

LEMMA InputFailsInv == ASSUME Inv, NEW h \in Calls, InputFails(h) PROVE Inv'
  BY ProcessAssumption
  DEF InputFails, FinishWrite, Goto, Pass, Inv, TypeOK, RuntimeHeld, WatcherTells, StartTells, TargetTells, ListedTells,
      Ended, callVars, processVars

LEMMA ListInv == ASSUME Inv, NEW h \in Calls, List(h) PROVE Inv'
  BY ProcessAssumption
  DEF List, Goto, Pass, Inv, TypeOK, RuntimeHeld, WatcherTells, StartTells, TargetTells, ListedTells,
      Ended, callVars, processVars

LEMMA LockTableInv == ASSUME Inv, NEW h \in Calls, LockTable(h) PROVE Inv'
  BY ProcessAssumption
  DEF LockTable, Goto, Pass, Inv, TypeOK, RuntimeHeld, WatcherTells, StartTells, TargetTells, ListedTells,
      Ended, callVars, processVars

LEMMA ListNextInv == ASSUME Inv, NEW h \in Calls, ListNext(h) PROVE Inv'
  BY ProcessAssumption
  DEF ListNext, Goto, Pass, Inv, TypeOK, RuntimeHeld, WatcherTells, StartTells, TargetTells, ListedTells,
      Ended, callVars, processVars

LEMMA ListDoneInv == ASSUME Inv, NEW h \in Calls, ListDone(h) PROVE Inv'
  BY ProcessAssumption
  DEF ListDone, Goto, Pass, Inv, TypeOK, RuntimeHeld, WatcherTells, StartTells, TargetTells, ListedTells,
      Ended, callVars, processVars

LEMMA ProcessExitInv == ASSUME Inv, NEW p \in Calls, ProcessExit(p) PROVE Inv'
  BY ProcessAssumption
  DEF ProcessExit, Goto, Pass, Inv, TypeOK, RuntimeHeld, WatcherTells, StartTells, TargetTells, ListedTells,
      Ended, callVars, processVars

LEMMA ReapInv == ASSUME Inv, NEW p \in Calls, Reap(p) PROVE Inv'
  BY ProcessAssumption
  DEF Reap, Goto, Pass, Inv, TypeOK, RuntimeHeld, WatcherTells, StartTells, TargetTells, ListedTells,
      Ended, callVars, processVars

LEMMA MarkStatusInv == ASSUME Inv, NEW p \in Calls, MarkStatus(p) PROVE Inv'
  BY ProcessAssumption
  DEF MarkStatus, Goto, Pass, Inv, TypeOK, RuntimeHeld, WatcherTells, StartTells, TargetTells, ListedTells,
      Ended, callVars, processVars

LEMMA MarkRuntimeInv == ASSUME Inv, NEW p \in Calls, MarkRuntime(p) PROVE Inv'
  BY ProcessAssumption
  DEF MarkRuntime, Goto, Pass, Inv, TypeOK, RuntimeHeld, WatcherTells, StartTells, TargetTells, ListedTells,
      Ended, callVars, processVars

LEMMA HangUpInv == ASSUME Inv, NEW h \in Calls, HangUp(h) PROVE Inv'
  BY ProcessAssumption
  DEF HangUp, Goto, Pass, Inv, TypeOK, RuntimeHeld, WatcherTells, StartTells, TargetTells, ListedTells,
      Ended, callVars, processVars

LEMMA SpawnFailsInv == ASSUME Inv, NEW h \in Calls, SpawnFails(h) PROVE Inv'
  BY ProcessAssumption
  DEF SpawnFails, Goto, Pass, Inv, TypeOK, RuntimeHeld, WatcherTells, StartTells, TargetTells, ListedTells,
      Ended, callVars, processVars

LEMMA StutterInv == ASSUME Inv, UNCHANGED vars PROVE Inv'
  BY DEF Inv, TypeOK, RuntimeHeld, WatcherTells, StartTells, TargetTells, ListedTells,
         vars, callVars, processVars

LEMMA NextInv == ASSUME Inv, [Next]_vars PROVE Inv'
<1>1. ASSUME NEW h \in Calls, Step(h) PROVE Inv'
  BY <1>1, CountRunningInv, SpawnProcessInv, SpawnFailsInv, InsertProcessInv, LookupProcessInv,
     DeleteChecksInv, RemoveProcessInv, SignalChecksInv, TakePidInv, SendSignalInv,
     WaitForExitInv, TakeSnapshotInv, WriteChecksInv, LockRuntimeInv, InputFailsInv,
     LockTableInv, ListNextInv, ListDoneInv
  DEF Step
<1>2. ASSUME NEW p \in Calls, WatchExit(p) PROVE Inv'
  BY <1>2, ReapInv, MarkStatusInv, MarkRuntimeInv DEF WatchExit
<1>3. CASE UNCHANGED vars
  BY <1>3, StutterInv
<1> QED
  BY <1>1, <1>2, <1>3, StartInv, AddressInv, ListInv, InputReadInv, ProcessExitInv, HangUpInv
  DEF Next

\* The strengthened invariant holds in every reachable state.
THEOREM ProcessInvariant == Spec => []Inv
<1> QED
  BY InitInv, NextInv, PTL DEF Spec

\* Every variable keeps its type.
THEOREM ProcessTypeCorrect == Spec => []TypeOK
<1>1. Inv => TypeOK
  BY DEF Inv
<1> QED
  BY <1>1, ProcessInvariant, PTL

\* The runtime mutex is held by a call only while it writes, and only while
\* the process's stdin is there.
THEOREM RuntimeDiscipline == Spec => []RuntimeHeld
<1>1. Inv => RuntimeHeld
  BY DEF Inv
<1> QED
  BY <1>1, ProcessInvariant, PTL

\* A process that runs is in the table, unless its start has not got there or
\* was dropped while it waited for the table.
THEOREM NoProcessLost == Spec => []NoLostProcess
<1>1. Init => NoLostProcess
  BY DEF Init, NoLostProcess
<1>2. Inv /\ NoLostProcess /\ [Next]_vars => NoLostProcess'
  <2> SUFFICES ASSUME Inv, NoLostProcess, [Next]_vars PROVE NoLostProcess'
    OBVIOUS
  <2> USE DEF NoLostProcess, Pass, Goto, Ended, Inv, TypeOK, callVars, processVars
  <2>1. ASSUME NEW h \in Calls, SpawnProcess(h) \/ InsertProcess(h) PROVE NoLostProcess'
    BY <2>1 DEF SpawnProcess, InsertProcess
  <2>2. ASSUME NEW h \in Calls, RemoveProcess(h) PROVE NoLostProcess'
    <3>1. os[target[h]] # "alive"
      BY <2>2 DEF RemoveProcess, TargetTells, WatcherTells
    <3> QED
      BY <2>2, <3>1 DEF RemoveProcess
  <2>3. ASSUME NEW h \in Calls, Start(h) \/ Address(h) \/ List(h) PROVE NoLostProcess'
    BY <2>3 DEF Start, Address, List
  <2>4. ASSUME NEW h \in Calls,
               \/ CountRunning(h) \/ SpawnFails(h) \/ LookupProcess(h) \/ DeleteChecks(h)
               \/ SignalChecks(h) \/ TakePid(h) \/ WaitForExit(h) \/ TakeSnapshot(h)
               \/ WriteChecks(h) \/ ListDone(h)
        PROVE  NoLostProcess'
    <3>1. CASE CountRunning(h) \/ SpawnFails(h) \/ LookupProcess(h) \/ DeleteChecks(h)
      BY <2>4, <3>1 DEF CountRunning, SpawnFails, LookupProcess, DeleteChecks
    <3>2. CASE SignalChecks(h) \/ TakePid(h) \/ WaitForExit(h) \/ TakeSnapshot(h)
      BY <2>4, <3>2 DEF SignalChecks, TakePid, WaitForExit, TakeSnapshot
    <3>3. CASE WriteChecks(h) \/ ListDone(h)
      BY <2>4, <3>3 DEF WriteChecks, ListDone
    <3> QED
      BY <2>4, <3>1, <3>2, <3>3
  <2>5. ASSUME NEW h \in Calls, SendSignal(h) PROVE NoLostProcess'
    BY <2>5 DEF SendSignal, TargetTells
  <2>6. ASSUME NEW h \in Calls, LockRuntime(h) \/ InputRead(h) \/ InputFails(h) PROVE NoLostProcess'
    BY <2>6 DEF LockRuntime, InputRead, InputFails, FinishWrite
  <2>7. ASSUME NEW h \in Calls, LockTable(h) \/ ListNext(h) PROVE NoLostProcess'
    BY <2>7 DEF LockTable, ListNext
  <2>8. ASSUME NEW h \in Calls, ProcessExit(h) \/ WatchExit(h) PROVE NoLostProcess'
    BY <2>8 DEF ProcessExit, WatchExit, Reap, MarkStatus, MarkRuntime
  <2>9. ASSUME NEW h \in Calls, HangUp(h) PROVE NoLostProcess'
    BY <2>9 DEF HangUp
  <2>10. CASE UNCHANGED vars
    BY <2>10 DEF vars
  <2> QED
    BY <2>1, <2>2, <2>3, <2>4, <2>5, <2>6, <2>7, <2>8, <2>9, <2>10 DEF Next, Step
<1> QED
  BY <1>1, <1>2, ProcessInvariant, PTL DEF Spec

-----------------------------------------------------------------------------
(* The life of a process id.                                                *)

Kept == Lives!LifeNext \/ UNCHANGED Life

\* Life depends on the table, the status, and how far starts are.
Visible == <<processes, status, kind>>

LEMMA LifeOf ==
  ASSUME NEW p \in Calls, NEW to, Life' = [Life EXCEPT ![p] = to],
         \/ Life[p] = "unknown" /\ to \in {"running", "exited"}
         \/ Life[p] = "running" /\ to = "exited"
         \/ Life[p] = "exited" /\ to = "deleted"
  PROVE  Kept
  BY DEF Kept, Lives!LifeNext, Lives!Becomes

LEMMA InsertKept == ASSUME Inv, NEW h \in Calls, InsertProcess(h) PROVE Kept
<1>1. Life' = [Life EXCEPT ![h] = status[h]]
  BY DEF InsertProcess, Goto, processVars, Life, Inv, TypeOK
<1>2. Life[h] = "unknown" /\ status[h] \in {"running", "exited"}
  BY DEF InsertProcess, Life, Inv, TypeOK, StartTells
<1> QED
  BY <1>1, <1>2, LifeOf

LEMMA RemoveKept == ASSUME Inv, NEW h \in Calls, RemoveProcess(h) PROVE Kept
<1>1. CASE target[h] \in processes
  <2>1. /\ target[h] \in Calls /\ status[target[h]] = "exited"
        /\ target[h] # h
        /\ kind[target[h]] = "start" /\ at[target[h]] \in {"snapshot", "done", "gone"}
    BY <1>1 DEF RemoveProcess, Inv, TargetTells, ListedTells
  <2>2. Life' = [Life EXCEPT ![target[h]] = "deleted"]
    BY <1>1, <2>1 DEF RemoveProcess, Goto, processVars, Life, Inv, TypeOK, StartTells
  <2>3. Life[target[h]] = "exited"
    BY <1>1, <2>1 DEF Life
  <2> QED
    BY <2>1, <2>2, <2>3, LifeOf
<1>2. CASE target[h] \notin processes
  <2>1. Life' = Life
    BY <1>2 DEF RemoveProcess, Goto, processVars, Life, Inv, TypeOK, StartTells
  <2> QED
    BY <2>1 DEF Kept
<1> QED
  BY <1>1, <1>2

LEMMA MarkStatusKept == ASSUME Inv, NEW p \in Calls, MarkStatus(p) PROVE Kept
<1>1. CASE p \in processes
  <2>1. Life' = [Life EXCEPT ![p] = "exited"]
    BY <1>1 DEF MarkStatus, callVars, Life, Inv, TypeOK
  <2>2. Life[p] = "running"
    BY <1>1 DEF MarkStatus, Life, Inv, WatcherTells
  <2> QED
    BY <2>1, <2>2, LifeOf
<1>2. CASE p \notin processes
  <2>1. Life' = Life
    BY <1>2 DEF MarkStatus, callVars, Life, Inv, TypeOK, WatcherTells
  <2> QED
    BY <2>1 DEF Kept
<1> QED
  BY <1>1, <1>2

\* A step of a call that changes neither the table nor a status nor the kind
\* of a call, and does not move a start across the insertion.
LEMMA QuietKept ==
  ASSUME Inv, UNCHANGED Visible,
         \A p \in Calls : kind[p] = "start" /\ status[p] # "none" =>
             (at'[p] \in {"snapshot", "done", "gone"} <=> at[p] \in {"snapshot", "done", "gone"})
  PROVE  Kept
<1>1. Life' = Life
  BY DEF Life, Visible
<1> QED
  BY <1>1 DEF Kept

LEMMA StepKept == ASSUME Inv, NEW h \in Calls, Step(h) PROVE Kept
<1> USE DEF Pass, Goto, Inv, TypeOK, StartTells, processVars, callVars, Visible
<1>1. CASE SpawnProcess(h)
  <2>1. Life' = Life
    BY <1>1 DEF SpawnProcess, Life
  <2> QED
    BY <2>1 DEF Kept
<1>2. CASE CountRunning(h) \/ SpawnFails(h) \/ LookupProcess(h)
  BY <1>2, QuietKept DEF CountRunning, SpawnFails, LookupProcess
<1>3. CASE DeleteChecks(h) \/ SignalChecks(h) \/ TakePid(h)
  BY <1>3, QuietKept DEF DeleteChecks, SignalChecks, TakePid
<1>4. CASE SendSignal(h) \/ WaitForExit(h)
  BY <1>4, QuietKept DEF SendSignal, WaitForExit
<1>5. CASE TakeSnapshot(h)
  BY <1>5, QuietKept DEF TakeSnapshot
<1>6. CASE WriteChecks(h) \/ LockRuntime(h) \/ InputFails(h)
  BY <1>6, QuietKept DEF WriteChecks, LockRuntime, InputFails, FinishWrite
<1>7. CASE LockTable(h) \/ ListNext(h) \/ ListDone(h)
  BY <1>7, QuietKept DEF LockTable, ListNext, ListDone
<1> QED
  BY <1>1, <1>2, <1>3, <1>4, <1>5, <1>6, <1>7, InsertKept, RemoveKept DEF Step

LEMMA CallKept ==
  ASSUME Inv, NEW h \in Calls,
         \/ Start(h) \/ Address(h) \/ List(h) \/ InputRead(h) \/ HangUp(h)
         \/ ProcessExit(h) \/ Reap(h) \/ MarkRuntime(h)
  PROVE  Kept
<1> USE DEF Pass, Goto, Inv, TypeOK, StartTells, processVars, callVars, Visible
<1>1. CASE Start(h) \/ Address(h) \/ List(h)
  <2>1. status[h] = "none" /\ h \notin processes /\ UNCHANGED <<processes, status>>
    BY <1>1 DEF Start, Address, List, ListedTells
  <2>2. /\ \A p \in Calls : p # h => kind'[p] = kind[p] /\ at'[p] = at[p]
        /\ at'[h] \in {"count", "lookup", "read"} /\ at[h] = "idle"
    BY <1>1 DEF Start, Address, List
  <2>3. Life' = Life
    BY <2>1, <2>2 DEF Life
  <2> QED
    BY <2>3 DEF Kept
<1>2. CASE InputRead(h)
  BY <1>2, QuietKept DEF InputRead, FinishWrite
<1>3. CASE HangUp(h)
  BY <1>3, QuietKept DEF HangUp, Ended
<1>4. CASE ProcessExit(h) \/ Reap(h) \/ MarkRuntime(h)
  BY <1>4, QuietKept DEF ProcessExit, Reap, MarkRuntime
<1> QED
  BY <1>1, <1>2, <1>3, <1>4

\* Every id goes from unknown over running to exited and deleted, whatever
\* calls race for it.
THEOREM ImplementsLife == Spec => KeepsLife
<1>1. Init => Lives!LifeInit
  BY DEF Init, Lives!LifeInit, Life
<1>2. Inv /\ [Next]_vars => [Lives!LifeNext]_Life
  <2> SUFFICES ASSUME Inv, [Next]_vars PROVE Kept
    BY DEF Kept
  <2>1. CASE UNCHANGED vars
    <3>1. Life' = Life
      BY <2>1 DEF vars, callVars, processVars, Life
    <3> QED
      BY <3>1 DEF Kept
  <2> QED
    BY <2>1, StepKept, CallKept, MarkStatusKept DEF Next, WatchExit
<1> QED
  BY <1>1, <1>2, ProcessInvariant, PTL DEF Spec, KeepsLife, Lives!LifeSpec
=============================================================================
