--------------------------- MODULE AcpProxy_proofs ---------------------------
(***************************************************************************)
(* Proofs about AcpProxy for any number of calls, server ids and agents:   *)
(* type correctness, one instance per server id, and the implementation of *)
(* the atomic registry of module Registry, and that no agent is lost.      *)
(*                                                                         *)
(* The argument: the points between the second look at the map and the     *)
(* insertion are passed under the lock of the server id, insertions happen *)
(* only there, and deletions only help; so the id looked up is still       *)
(* unbound when the instance is inserted.                                  *)
(***************************************************************************)
EXTENDS AcpProxy, TLAPS

\* Before a call names its arguments it has none, and the install handler
\* names no server id.
ArgumentsKept ==
    \A h \in Calls :
        /\ at[h] = "idle" => server[h] = None /\ wants[h] = None
        /\ at[h] = "direct" => server[h] = None
        /\ at[h] \in {"find", "lock", "recheck", "remove", "close", "using"} \cup Creating
             => server[h] \in Servers

\* The lock of the server id is held from the second look to the insertion.
LockHeld ==
    \A h \in Calls :
        at[h] \in {"recheck"} \cup Creating => instanceLock[server[h]] = h

\* What the second look saw is still true at the insertion.
StillAbsent ==
    \A h \in Calls :
        at[h] \in Creating => instances[server[h]] = None /\ wants[h] \in Agents

\* A registered instance carries the arguments of the call that made it, and
\* they do not change any more.
RegisteredKept ==
    \A s \in Servers : instances[s] # None =>
        /\ at[instances[s]] \in {"using", "answered", "gone"}
        /\ server[instances[s]] = s
        /\ wants[instances[s]] \in Agents

\* An install is run for the agent its call names.
InstallerNamed ==
    \A h \in installing : wants[h] \in Agents /\ at[h] # "idle"

Inv == TypeOK /\ InstallerNamed /\ ArgumentsKept /\ LockHeld /\ StillAbsent /\ RegisteredKept

LEMMA InitInv == Init => Inv
  BY ProxyAssumption
  DEF Init, Inv, TypeOK, InstallerNamed, ArgumentsKept, LockHeld, StillAbsent, RegisteredKept, Creating, Settled

-----------------------------------------------------------------------------
(* Steps of post() and of the install handler.                              *)

\* A call names an agent or none.
LEMMA NamedAgents ==
  ASSUME NEW h \in Calls, NEW a \in Named[h] PROVE a \in Agents \cup {None}
  BY ProxyAssumption

LEMMA PostInv == ASSUME Inv, NEW h \in Calls, Post(h) PROVE Inv'
  BY ProxyAssumption, NamedAgents
  DEF Post, Goto, Inv, TypeOK, InstallerNamed, ArgumentsKept, LockHeld, StillAbsent, RegisteredKept,
      Creating, Settled, lockVars, installVars, stopVars

LEMMA FindInstanceInv == ASSUME Inv, NEW h \in Calls, FindInstance(h) PROVE Inv'
  BY ProxyAssumption
  DEF FindInstance, UseRegistered, End, Unlocked, Goto, Inv, TypeOK, InstallerNamed, ArgumentsKept, LockHeld,
      StillAbsent, RegisteredKept, Creating, Settled, lockVars, installVars, stopVars

LEMMA LockInstanceInv == ASSUME Inv, NEW h \in Calls, LockInstance(h) PROVE Inv'
  BY ProxyAssumption
  DEF LockInstance, Goto, Inv, TypeOK, InstallerNamed, ArgumentsKept, LockHeld,
      StillAbsent, RegisteredKept, Creating, Settled, lockVars, installVars, stopVars

LEMMA InsertInstanceInv == ASSUME Inv, NEW h \in Calls, InsertInstance(h) PROVE Inv'
  BY ProxyAssumption
  DEF InsertInstance, End, Unlocked, Goto, Inv, TypeOK, InstallerNamed, ArgumentsKept, LockHeld,
      StillAbsent, RegisteredKept, Creating, Settled, lockVars, installVars, stopVars

LEMMA FindAgainInv == ASSUME Inv, NEW h \in Calls, FindAgain(h) PROVE Inv'
  BY ProxyAssumption
  DEF FindAgain, UseRegistered, End, Unlocked, Goto, Inv, TypeOK, InstallerNamed, ArgumentsKept, LockHeld, StillAbsent, RegisteredKept,
      Creating, Settled, callVars, lockVars, installVars, stopVars

LEMMA EnsureInstalledInv == ASSUME Inv, NEW h \in Calls, EnsureInstalled(h) PROVE Inv'
  BY ProxyAssumption
  DEF EnsureInstalled, End, Unlocked, Goto, Inv, TypeOK, InstallerNamed, ArgumentsKept, LockHeld, StillAbsent, RegisteredKept,
      Creating, Settled, callVars, lockVars, installVars, stopVars

LEMMA LockInstallInv == ASSUME Inv, NEW h \in Calls, LockInstall(h) PROVE Inv'
  BY ProxyAssumption
  DEF LockInstall, Goto, Inv, TypeOK, InstallerNamed, ArgumentsKept, LockHeld, StillAbsent, RegisteredKept,
      Creating, Settled, callVars, lockVars, installVars, stopVars

LEMMA EnsureAgainInv == ASSUME Inv, NEW h \in Calls, EnsureAgain(h) PROVE Inv'
  BY ProxyAssumption
  DEF EnsureAgain, Installed, Unlocked, Goto, Inv, TypeOK, InstallerNamed, ArgumentsKept, LockHeld, StillAbsent, RegisteredKept,
      Creating, Settled, callVars, lockVars, installVars, stopVars

LEMMA ArtifactsAppearInv == ASSUME Inv, NEW h \in Calls, ArtifactsAppear(h) PROVE Inv'
  BY ProxyAssumption
  DEF ArtifactsAppear, Goto, Inv, TypeOK, InstallerNamed, ArgumentsKept, LockHeld, StillAbsent, RegisteredKept,
      Creating, Settled, callVars, lockVars, installVars, stopVars

LEMMA InstallEndsInv == ASSUME Inv, NEW h \in Calls, InstallEnds(h) PROVE Inv'
  BY ProxyAssumption
  DEF InstallEnds, Installed, End, Unlocked, Goto, Inv, TypeOK, InstallerNamed, ArgumentsKept, LockHeld, StillAbsent, RegisteredKept,
      Creating, Settled, callVars, lockVars, installVars, stopVars

LEMMA StartAgentInv == ASSUME Inv, NEW h \in Calls, StartAgent(h) PROVE Inv'
  BY ProxyAssumption
  DEF StartAgent, End, Unlocked, Goto, Inv, TypeOK, InstallerNamed, ArgumentsKept, LockHeld, StillAbsent, RegisteredKept,
      Creating, Settled, callVars, lockVars, installVars, stopVars

LEMMA AnswerInv == ASSUME Inv, NEW h \in Calls, Answer(h) PROVE Inv'
  BY ProxyAssumption
  DEF Answer, Goto, Inv, TypeOK, InstallerNamed, ArgumentsKept, LockHeld, StillAbsent, RegisteredKept,
      Creating, Settled, callVars, lockVars, installVars, stopVars

LEMMA InstallDirectlyInv == ASSUME Inv, NEW h \in Calls, InstallDirectly(h) PROVE Inv'
  BY ProxyAssumption, NamedAgents
  DEF InstallDirectly, Goto, Inv, TypeOK, InstallerNamed, ArgumentsKept, LockHeld, StillAbsent, RegisteredKept,
      Creating, Settled, callVars, lockVars, installVars, stopVars

LEMMA HangUpInv == ASSUME Inv, NEW h \in Calls, HangUp(h) PROVE Inv'
  BY ProxyAssumption
  DEF HangUp, End, Unlocked, Goto, Inv, TypeOK, InstallerNamed, ArgumentsKept, LockHeld, StillAbsent, RegisteredKept,
      Creating, Settled, callVars, lockVars, installVars, stopVars

LEMMA DeleteInv == ASSUME Inv, NEW h \in Calls, Delete(h) PROVE Inv'
  BY ProxyAssumption
  DEF Delete, Goto, Inv, TypeOK, InstallerNamed, ArgumentsKept, LockHeld, StillAbsent, RegisteredKept,
      Creating, Settled, callVars, lockVars, installVars, stopVars

LEMMA RemoveInstanceInv == ASSUME Inv, NEW h \in Calls, RemoveInstance(h) PROVE Inv'
  BY ProxyAssumption
  DEF RemoveInstance, Goto, Inv, TypeOK, InstallerNamed, ArgumentsKept, LockHeld, StillAbsent, RegisteredKept,
      Creating, Settled, callVars, lockVars, installVars, stopVars

LEMMA CloseInstanceInv == ASSUME Inv, NEW h \in Calls, CloseInstance(h) PROVE Inv'
<1>1. /\ at' = [at EXCEPT ![h] = "done"]
      /\ UNCHANGED <<instances, server, wants, instance, lockVars, installVars, stopVars>>
      /\ process' = [process EXCEPT ![instance[h]] = "exited"]
  BY DEF CloseInstance, Shutdown, Goto
<1>2. TypeOK'
  <2>1. process' \in [Calls -> {"none", "running", "watched", "exited"}]
    BY <1>1 DEF Inv, TypeOK
  <2> QED
    BY <1>1, <2>1 DEF Inv, TypeOK, Settled, lockVars, installVars, stopVars
<1>3. (InstallerNamed /\ ArgumentsKept /\ LockHeld /\ StillAbsent /\ RegisteredKept)'
  <2>1. at[h] = "close"
    BY DEF CloseInstance
  <2> QED
    BY <1>1, <2>1, ProxyAssumption
    DEF Inv, TypeOK, InstallerNamed, ArgumentsKept, LockHeld, StillAbsent,
        RegisteredKept, Creating, lockVars, installVars
<1> QED
  BY <1>2, <1>3 DEF Inv

LEMMA WatchAgentInv == ASSUME Inv, NEW h \in Calls, WatchAgent(h) PROVE Inv'
  BY ProxyAssumption
  DEF WatchAgent, Goto, Inv, TypeOK, InstallerNamed, ArgumentsKept, LockHeld, StillAbsent, RegisteredKept,
      Creating, Settled, callVars, lockVars, installVars, stopVars

LEMMA AgentExitInv == ASSUME Inv, NEW h \in Calls, AgentExit(h) PROVE Inv'
  BY ProxyAssumption
  DEF AgentExit, Goto, Inv, TypeOK, InstallerNamed, ArgumentsKept, LockHeld, StillAbsent, RegisteredKept,
      Creating, Settled, callVars, lockVars, installVars, stopVars

LEMMA DrainInstancesInv == ASSUME Inv, DrainInstances PROVE Inv'
  BY ProxyAssumption
  DEF DrainInstances, Goto, Inv, TypeOK, InstallerNamed, ArgumentsKept, LockHeld, StillAbsent, RegisteredKept,
      Creating, Settled, callVars, lockVars, installVars, stopVars

LEMMA CloseNextInv == ASSUME Inv, CloseNext PROVE Inv'
  BY ProxyAssumption
  DEF CloseNext, Goto, Inv, TypeOK, InstallerNamed, ArgumentsKept, LockHeld, StillAbsent, RegisteredKept,
      Creating, Settled, callVars, lockVars, installVars, stopVars

LEMMA CloseDrainedInv == ASSUME Inv, CloseDrained PROVE Inv'
  BY ProxyAssumption
  DEF CloseDrained, Shutdown, Goto, Inv, TypeOK, InstallerNamed, ArgumentsKept, LockHeld, StillAbsent, RegisteredKept,
      Creating, Settled, callVars, lockVars, installVars, stopVars
-----------------------------------------------------------------------------
LEMMA StutterInv == ASSUME Inv, UNCHANGED vars PROVE Inv'
  BY DEF Inv, TypeOK, InstallerNamed, ArgumentsKept, LockHeld, StillAbsent, RegisteredKept,
         vars, callVars, lockVars, installVars, stopVars

LEMMA NextInv == ASSUME Inv, [Next]_vars PROVE Inv'
<1>1. ASSUME NEW h \in Calls, Step(h) PROVE Inv'
  BY <1>1, FindInstanceInv, LockInstanceInv, FindAgainInv, EnsureInstalledInv, LockInstallInv,
     EnsureAgainInv, InstallEndsInv, StartAgentInv, InsertInstanceInv, RemoveInstanceInv,
     CloseInstanceInv
  DEF Step
<1>2. CASE ShutdownAll
  BY <1>2, DrainInstancesInv, CloseNextInv, CloseDrainedInv DEF ShutdownAll
<1>3. CASE UNCHANGED vars
  BY <1>3, StutterInv
<1> QED
  BY <1>1, <1>2, <1>3, PostInv, DeleteInv, InstallDirectlyInv, ArtifactsAppearInv, AnswerInv,
     HangUpInv, WatchAgentInv, AgentExitInv
  DEF Next

\* The strengthened invariant holds in every reachable state.
THEOREM ProxyInvariant == Spec => []Inv
<1> QED
  BY InitInv, NextInv, PTL DEF Spec

\* Every variable keeps its type.
THEOREM ProxyTypeCorrect == Spec => []TypeOK
<1>1. Inv => TypeOK
  BY DEF Inv
<1> QED
  BY <1>1, ProxyInvariant, PTL

\* No two calls create an instance for one server id, and none creates one
\* beside a registered instance, whatever calls are dropped in between.
THEOREM OneInstancePerServer == Spec => []OneInstance
<1>1. Inv => OneInstance
  <2> SUFFICES ASSUME Inv, NEW g \in Calls, NEW h \in Calls, at[g] \in Creating
               PROVE  /\ instances[server[g]] = None
                      /\ at[h] \in Creating /\ server[h] = server[g] => g = h
    BY DEF OneInstance
  <2>1. instances[server[g]] = None
    BY DEF Inv, StillAbsent
  <2>2. ASSUME at[h] \in Creating, server[h] = server[g] PROVE g = h
    BY <2>2 DEF Inv, LockHeld
  <2> QED
    BY <2>1, <2>2
<1> QED
  BY <1>1, ProxyInvariant, PTL

-----------------------------------------------------------------------------
(* No agent process is lost.                                                *)

\* shutdown_all has one instance in hand at most.
StopTells ==
    /\ stop = "idle" => drained = {}
    /\ stop # "closing" => closing = None

\* An agent process that runs can be reached through the registry or is about
\* to be shut down or registered, unless a client hung up at that moment.
THEOREM NoAgentOrphaned == Spec => []NoOrphan
<1>1. Init => StopTells /\ NoOrphan
  BY DEF Init, StopTells, NoOrphan, Live
<1>2. Inv /\ StopTells /\ [Next]_vars => StopTells'
  BY DEF StopTells, Next, Step, ShutdownAll, vars, stopVars, Post, FindInstance, LockInstance,
         FindAgain, EnsureInstalled, LockInstall, EnsureAgain, InstallEnds, StartAgent,
         InsertInstance, RemoveInstance, CloseInstance, Delete, InstallDirectly, ArtifactsAppear,
         Answer, HangUp, WatchAgent, AgentExit, DrainInstances, CloseNext, CloseDrained
<1>3. Inv /\ StopTells /\ NoOrphan /\ [Next]_vars => NoOrphan'
  <2> SUFFICES ASSUME Inv, StopTells, NoOrphan, [Next]_vars PROVE NoOrphan'
    OBVIOUS
  <2> USE ProxyAssumption DEF Inv, TypeOK, NoOrphan, Live, Goto, End, callVars, installVars, stopVars
  <2>1. ASSUME NEW h \in Calls, FindInstance(h) \/ FindAgain(h) PROVE NoOrphan'
    BY <2>1 DEF FindInstance, FindAgain, UseRegistered
  <2>2. ASSUME NEW h \in Calls,
               Post(h) \/ Delete(h) \/ InstallDirectly(h) \/ LockInstance(h) \/ EnsureInstalled(h)
        PROVE  NoOrphan'
    BY <2>2 DEF Post, Delete, InstallDirectly, LockInstance, EnsureInstalled
  <2>3. ASSUME NEW h \in Calls,
               LockInstall(h) \/ EnsureAgain(h) \/ ArtifactsAppear(h) \/ Answer(h)
        PROVE  NoOrphan'
    BY <2>3 DEF LockInstall, EnsureAgain, Installed, ArtifactsAppear, Answer
  <2>4. ASSUME NEW h \in Calls, InstallEnds(h) PROVE NoOrphan'
    BY <2>4 DEF InstallEnds, Installed
  <2>5. ASSUME NEW h \in Calls, StartAgent(h) PROVE NoOrphan'
    BY <2>5 DEF StartAgent
  <2>6. ASSUME NEW h \in Calls, InsertInstance(h) PROVE NoOrphan'
    <3>1. server[h] \in Servers /\ instances[server[h]] = None
      BY <2>6 DEF InsertInstance, StillAbsent, ArgumentsKept, Creating
    <3> QED
      BY <2>6, <3>1 DEF InsertInstance
  <2>7. ASSUME NEW h \in Calls, RemoveInstance(h) PROVE NoOrphan'
    <3>1. server[h] \in Servers
      BY <2>7 DEF RemoveInstance, ArgumentsKept
    <3> QED
      BY <2>7, <3>1 DEF RemoveInstance
  <2>8. ASSUME NEW h \in Calls, CloseInstance(h) PROVE NoOrphan'
    BY <2>8 DEF CloseInstance, Shutdown
  <2>9. ASSUME NEW h \in Calls, HangUp(h) PROVE NoOrphan'
    BY <2>9 DEF HangUp, Settled
  <2>10. ASSUME NEW h \in Calls, WatchAgent(h) \/ AgentExit(h) PROVE NoOrphan'
    BY <2>10 DEF WatchAgent, AgentExit
  <2>11. CASE ShutdownAll
    BY <2>11 DEF ShutdownAll, DrainInstances, CloseNext, CloseDrained, Shutdown, StopTells
  <2>12. CASE UNCHANGED vars
    BY <2>12 DEF vars
  <2> QED
    BY <2>1, <2>2, <2>3, <2>4, <2>5, <2>6, <2>7, <2>8, <2>9, <2>10, <2>11, <2>12 DEF Next, Step
<1> QED
  BY <1>1, <1>2, <1>3, ProxyInvariant, PTL DEF Spec

-----------------------------------------------------------------------------
(* The implementation of the registry.                                      *)

\* A call that names a server id and moves to another point changes its own
\* verdict only.
LEMMA VerdictMoves ==
  ASSUME NEW h \in Calls, NEW place, server[h] # None, server' = server,
         TypeOK, at' = [at EXCEPT ![h] = place]
  PROVE  Verdicts' = [Verdicts EXCEPT ![h] = Judged(place)]
  BY DEF Verdicts, TypeOK

LEMMA FindInstanceKeeps ==
  ASSUME Inv, NEW h \in Calls, FindInstance(h)
  PROVE  Registered!RegistryNext \/ UNCHANGED Registered!registryVars
<1>1. /\ server[h] \in Servers /\ server[h] # None
      /\ Verdicts[h] = "open"
      /\ UNCHANGED <<Bound, Asked, server>>
  BY ProxyAssumption DEF Inv, ArgumentsKept, FindInstance, Verdicts, Judged, Bound, Asked
<1>2. CASE instances[server[h]] = None
  <2>1. Verdicts' = [Verdicts EXCEPT ![h] = Judged("lock")]
    BY <1>1, <1>2, VerdictMoves DEF FindInstance, UseRegistered, Goto, Inv
  <2>2. Judged("lock") = "open" /\ Verdicts \in [Calls -> {Verdicts[k] : k \in Calls}]
    BY DEF Judged, Verdicts
  <2>3. Verdicts' = Verdicts
    BY <1>1, <2>1, <2>2
  <2> QED
    BY <1>1, <2>3 DEF Registered!registryVars
<1>3. CASE instances[server[h]] # None
  <2>1. /\ Bound[server[h]] = wants[instances[server[h]]]
        /\ Bound[server[h]] \in Agents
        /\ Asked[h] = wants[h]
    BY <1>1, <1>3 DEF Bound, Asked, Inv, RegisteredKept
  <2>2. CASE wants[h] \in {None, wants[instances[server[h]]]}
    <3>1. Verdicts' = [Verdicts EXCEPT ![h] = "granted"]
      BY <1>1, <1>3, <2>2, VerdictMoves DEF FindInstance, UseRegistered, End, Goto, Judged, Inv
    <3>2. Registered!Grant(h)
      BY <1>1, <2>1, <2>2, <3>1, ProxyAssumption DEF Registered!Grant, Registered!Judge
    <3> QED
      BY <3>2 DEF Registered!RegistryNext
  <2>3. CASE wants[h] \notin {None, wants[instances[server[h]]]}
    <3>1. Verdicts' = [Verdicts EXCEPT ![h] = "conflict"]
      BY <1>1, <1>3, <2>3, VerdictMoves DEF FindInstance, UseRegistered, End, Goto, Judged, Inv
    <3>2. Registered!Refuse(h)
      BY <1>1, <2>1, <2>3, <3>1, ProxyAssumption DEF Registered!Refuse, Registered!Judge
    <3> QED
      BY <3>2 DEF Registered!RegistryNext
  <2> QED
    BY <2>2, <2>3
<1> QED
  BY <1>2, <1>3

Kept == Registered!RegistryNext \/ UNCHANGED Registered!registryVars

\* The registry sees only the map and the calls.
LEMMA QuietKept == ASSUME UNCHANGED <<instances, callVars>> PROVE Kept
  BY DEF Kept, Registered!registryVars, Bound, Asked, Verdicts, callVars

\* A call under way moves from one point to another, both before its verdict.
LEMMA OnTheWayKept ==
  ASSUME Inv, NEW h \in Calls, NEW place, server[h] # None,
         Judged(at[h]) = "open", Judged(place) = "open",
         at' = [at EXCEPT ![h] = place], UNCHANGED <<instances, server, wants>>
  PROVE  Kept
<1>1. Verdicts' = [Verdicts EXCEPT ![h] = "open"]
  BY VerdictMoves DEF Inv
<1>2. Verdicts[h] = "open" /\ Verdicts = [k \in Calls |-> Verdicts[k]]
  BY DEF Verdicts
<1>3. Verdicts' = Verdicts
  BY <1>1, <1>2
<1> QED
  BY <1>3 DEF Kept, Registered!registryVars, Bound, Asked

\* An install or a start fails.
LEMMA FailedKept ==
  ASSUME Inv, NEW h \in Calls, server[h] # None, Judged(at[h]) = "open",
         at' = [at EXCEPT ![h] = "failed"], UNCHANGED <<instances, server, wants>>
  PROVE  Kept
<1>1. Verdicts' = [Verdicts EXCEPT ![h] = "failed"]
  BY VerdictMoves DEF Inv, Judged
<1>2. Verdicts[h] = "open" /\ UNCHANGED <<Bound, Asked>>
  BY DEF Verdicts, Bound, Asked
<1>3. Registered!Fail(h)
  BY <1>1, <1>2 DEF Registered!Fail, Registered!Judge
<1> QED
  BY <1>3 DEF Kept, Registered!RegistryNext

LEMMA FindAgainKeeps == ASSUME Inv, NEW h \in Calls, FindAgain(h) PROVE Kept
<1>1. /\ server[h] \in Servers /\ server[h] # None
      /\ Verdicts[h] = "open" /\ Judged(at[h]) = "open"
      /\ Asked[h] = wants[h]
      /\ UNCHANGED <<Bound, Asked, server, instances, wants>>
  BY ProxyAssumption DEF Inv, ArgumentsKept, FindAgain, Verdicts, Judged, Bound, Asked
<1>2. CASE instances[server[h]] = None /\ wants[h] = None
  <2>1. Verdicts' = [Verdicts EXCEPT ![h] = "invalid"]
    BY <1>1, <1>2, VerdictMoves DEF FindAgain, UseRegistered, End, Goto, Judged, Inv
  <2>2. Registered!Miss(h)
    BY <1>1, <1>2, <2>1 DEF Registered!Miss, Registered!Judge, Bound
  <2> QED
    BY <2>2 DEF Kept, Registered!RegistryNext
<1>3. CASE instances[server[h]] = None /\ wants[h] # None
  BY <1>1, <1>3, OnTheWayKept DEF FindAgain, UseRegistered, Goto, Judged
<1>4. CASE instances[server[h]] # None
  <2>1. /\ Bound[server[h]] = wants[instances[server[h]]]
        /\ Bound[server[h]] # None
    BY <1>1, <1>4, ProxyAssumption DEF Bound, Inv, RegisteredKept
  <2>2. CASE wants[h] \in {None, wants[instances[server[h]]]}
    <3>1. Verdicts' = [Verdicts EXCEPT ![h] = "granted"]
      BY <1>1, <1>4, <2>2, VerdictMoves DEF FindAgain, UseRegistered, End, Goto, Judged, Inv
    <3>2. Registered!Grant(h)
      BY <1>1, <2>1, <2>2, <3>1 DEF Registered!Grant, Registered!Judge
    <3> QED
      BY <3>2 DEF Kept, Registered!RegistryNext
  <2>3. CASE wants[h] \notin {None, wants[instances[server[h]]]}
    <3>1. Verdicts' = [Verdicts EXCEPT ![h] = "conflict"]
      BY <1>1, <1>4, <2>3, VerdictMoves DEF FindAgain, UseRegistered, End, Goto, Judged, Inv
    <3>2. Registered!Refuse(h)
      BY <1>1, <2>1, <2>3, <3>1 DEF Registered!Refuse, Registered!Judge
    <3> QED
      BY <3>2 DEF Kept, Registered!RegistryNext
  <2> QED
    BY <2>2, <2>3
<1> QED
  BY <1>2, <1>3, <1>4

\* The insertion binds the id: the second look still holds.
LEMMA InsertInstanceKeeps == ASSUME Inv, NEW h \in Calls, InsertInstance(h) PROVE Kept
<1>1. /\ server[h] \in Servers /\ server[h] # None
      /\ instances[server[h]] = None /\ wants[h] \in Agents
      /\ Verdicts[h] = "open"
      /\ UNCHANGED <<Asked, server, wants>>
  BY ProxyAssumption
  DEF Inv, ArgumentsKept, StillAbsent, InsertInstance, Verdicts, Judged, Asked, Creating
<1>2. Verdicts' = [Verdicts EXCEPT ![h] = "granted"]
  BY <1>1, VerdictMoves DEF InsertInstance, End, Goto, Judged, Inv
<1>3. Bound' = [Bound EXCEPT ![server[h]] = wants[h]]
  BY <1>1, ProxyAssumption DEF InsertInstance, Bound, Inv, TypeOK
<1>4. Registered!Bind(h)
  BY <1>1, <1>2, <1>3, ProxyAssumption DEF Registered!Bind, Registered!Judge, Bound, Asked
<1> QED
  BY <1>4 DEF Kept, Registered!RegistryNext

\* Post and delete name their arguments.
LEMMA AskKept ==
  ASSUME Inv, NEW h \in Calls, NEW s \in Servers, NEW a \in Agents \cup {None}, NEW place,
         at[h] = "idle", Judged(place) = "open",
         at' = [at EXCEPT ![h] = place],
         server' = [server EXCEPT ![h] = s],
         wants' = [wants EXCEPT ![h] = a],
         UNCHANGED instances
  PROVE  Kept
<1>1. server[h] = None /\ wants[h] = None /\ s # None
  BY ProxyAssumption DEF Inv, ArgumentsKept
<1>2. UNCHANGED <<Bound, Verdicts>> /\ Verdicts[h] = "open"
  <2>1. UNCHANGED Bound
    BY DEF Bound, Inv, TypeOK, RegisteredKept
  <2>2. UNCHANGED Verdicts
    BY <1>1 DEF Verdicts, Inv, TypeOK
  <2> QED
    BY <1>1, <2>1, <2>2 DEF Verdicts
<1>3. Asked' = [Asked EXCEPT ![h] = a]
  BY <1>1 DEF Asked, Inv, TypeOK
<1>4. Registered!Ask(h)
  BY <1>1, <1>2, <1>3 DEF Registered!Ask
<1> QED
  BY <1>4 DEF Kept, Registered!RegistryNext

LEMMA PostKeeps == ASSUME Inv, NEW h \in Calls, Post(h) PROVE Kept
  BY AskKept, NamedAgents DEF Post, Goto, Judged

LEMMA DeleteKeeps == ASSUME Inv, NEW h \in Calls, Delete(h) PROVE Kept
<1>1. wants' = [wants EXCEPT ![h] = None]
  BY DEF Delete, Inv, TypeOK, ArgumentsKept
<1> QED
  BY <1>1, AskKept DEF Delete, Goto, Judged

LEMMA InstallDirectlyKeeps == ASSUME Inv, NEW h \in Calls, InstallDirectly(h) PROVE Kept
<1>1. server[h] = None
  BY DEF InstallDirectly, Inv, ArgumentsKept
<1>2. UNCHANGED Bound
  BY DEF InstallDirectly, Bound, Inv, TypeOK, RegisteredKept
<1>3. UNCHANGED <<Asked, Verdicts>>
  BY <1>1 DEF InstallDirectly, Goto, Asked, Verdicts, Inv, TypeOK
<1> QED
  BY <1>2, <1>3 DEF Kept, Registered!registryVars, InstallDirectly

LEMMA CreateKeeps ==
  ASSUME Inv, NEW h \in Calls,
         LockInstance(h) \/ EnsureInstalled(h) \/ LockInstall(h) \/ EnsureAgain(h) \/ StartAgent(h)
  PROVE  Kept
<1>1. server[h] # None /\ Judged(at[h]) = "open"
  BY ProxyAssumption
  DEF Inv, ArgumentsKept, LockInstance, EnsureInstalled, LockInstall, EnsureAgain, StartAgent,
      Judged, Creating
<1>2. UNCHANGED <<instances, server, wants>>
  BY DEF LockInstance, EnsureInstalled, LockInstall, EnsureAgain, StartAgent
<1>3. \E place \in {"recheck", "start", "installlock", "ensureagain", "install", "insert", "failed"} :
        at' = [at EXCEPT ![h] = place]
  BY DEF LockInstance, EnsureInstalled, LockInstall, EnsureAgain, StartAgent, Installed, End, Goto
<1>4. \A place \in {"recheck", "start", "installlock", "ensureagain", "install", "insert"} :
        Judged(place) = "open"
  BY DEF Judged
<1> QED
  BY <1>1, <1>2, <1>3, <1>4, OnTheWayKept, FailedKept

LEMMA InstallEndsKeeps == ASSUME Inv, NEW h \in Calls, InstallEnds(h) PROVE Kept
<1>1. UNCHANGED <<instances, server, wants, instance>>
  BY DEF InstallEnds
<1>2. CASE at[h] = "install"
  <2>1. server[h] # None /\ Judged(at[h]) = "open" /\ Judged("start") = "open"
    BY <1>2, ProxyAssumption DEF Inv, ArgumentsKept, Judged, Creating
  <2>2. at' = [at EXCEPT ![h] = "start"] \/ at' = [at EXCEPT ![h] = "failed"]
    BY <1>2 DEF InstallEnds, Installed, End, Goto
  <2> QED
    BY <1>1, <2>1, <2>2, OnTheWayKept, FailedKept
<1>3. CASE at[h] = "direct"
  <2>1. server[h] = None
    BY <1>3 DEF Inv, ArgumentsKept
  <2>2. \E place : at' = [at EXCEPT ![h] = place]
    BY <1>3 DEF InstallEnds, End, Goto
  <2>3. UNCHANGED Verdicts
    BY <1>1, <2>1, <2>2 DEF Verdicts, Inv, TypeOK
  <2> QED
    BY <1>1, <2>3 DEF Kept, Registered!registryVars, Bound, Asked
<1>4. CASE at[h] \notin {"install", "direct"}
  BY <1>1, <1>4, QuietKept DEF InstallEnds, callVars
<1> QED
  BY <1>2, <1>3, <1>4

LEMMA AnswerKeeps == ASSUME Inv, NEW h \in Calls, Answer(h) PROVE Kept
<1>1. /\ server[h] # None /\ at[h] = "using"
      /\ UNCHANGED <<instances, server, wants>>
  BY ProxyAssumption DEF Answer, Inv, ArgumentsKept
<1>2. Verdicts' = [Verdicts EXCEPT ![h] = "granted"]
  BY <1>1, VerdictMoves DEF Answer, Goto, Judged, Inv
<1>3. Verdicts[h] = "granted" /\ Verdicts = [k \in Calls |-> Verdicts[k]]
  BY <1>1 DEF Verdicts, Judged
<1>4. UNCHANGED Verdicts
  BY <1>2, <1>3
<1> QED
  BY <1>1, <1>4 DEF Kept, Registered!registryVars, Bound, Asked

LEMMA HangUpKeeps == ASSUME Inv, NEW h \in Calls, HangUp(h) PROVE Kept
<1>0. PICK place \in {"gone", "lost"} : at' = [at EXCEPT ![h] = place]
  BY DEF HangUp, End, Goto
<1>1. UNCHANGED <<instances, server, wants, Bound, Asked>>
  BY DEF HangUp, Bound, Asked
<1>2. CASE server[h] = None
  <2>1. UNCHANGED Verdicts
    BY <1>0, <1>1, <1>2 DEF Verdicts, Inv, TypeOK
  <2> QED
    BY <1>1, <2>1 DEF Kept, Registered!registryVars
<1>3. CASE server[h] # None
  <2>1. Verdicts' = [Verdicts EXCEPT ![h] = "gone"]
    BY <1>0, <1>1, <1>3, VerdictMoves DEF Judged, Inv
  <2>2. Verdicts[h] \in {"open", "granted"}
    BY <1>3 DEF HangUp, Verdicts, Judged, Settled, Inv, TypeOK
  <2>3. Registered!Leave(h)
    BY <1>1, <2>1, <2>2 DEF Registered!Leave
  <2> QED
    BY <2>3 DEF Kept, Registered!RegistryNext
<1> QED
  BY <1>2, <1>3

LEMMA RemoveInstanceKeeps == ASSUME Inv, NEW h \in Calls, RemoveInstance(h) PROVE Kept
<1>1. /\ server[h] \in Servers /\ server[h] # None /\ Judged(at[h]) = "open"
      /\ UNCHANGED <<server, wants>>
      /\ instances' = [instances EXCEPT ![server[h]] = None]
      /\ at' = [at EXCEPT ![h] = "done"] \/ at' = [at EXCEPT ![h] = "close"]
  BY ProxyAssumption DEF RemoveInstance, Goto, Inv, ArgumentsKept, Judged
<1>2. Verdicts' = [Verdicts EXCEPT ![h] = "open"]
  BY <1>1, VerdictMoves DEF Inv, Judged
<1>3. Verdicts[h] = "open" /\ Verdicts = [k \in Calls |-> Verdicts[k]]
  BY <1>1 DEF Verdicts
<1>4. UNCHANGED <<Verdicts, Asked>>
  BY <1>1, <1>2, <1>3 DEF Asked
<1>5. Bound' = [s \in Servers |-> IF s \in {server[h]} THEN None ELSE Bound[s]]
  BY <1>1 DEF Bound, Inv, TypeOK
<1>6. Registered!Unbind({server[h]})
  BY <1>1, <1>4, <1>5 DEF Registered!Unbind
<1> QED
  BY <1>1, <1>6 DEF Kept, Registered!RegistryNext

LEMMA CloseInstanceKeeps == ASSUME Inv, NEW h \in Calls, CloseInstance(h) PROVE Kept
<1>1. /\ server[h] # None /\ Judged(at[h]) = "open" /\ Judged("done") = "open"
      /\ UNCHANGED <<instances, server, wants>>
      /\ at' = [at EXCEPT ![h] = "done"]
  BY ProxyAssumption DEF CloseInstance, Goto, Inv, ArgumentsKept, Judged
<1> QED
  BY <1>1, OnTheWayKept

LEMMA DrainInstancesKeeps == ASSUME Inv, DrainInstances PROVE Kept
<1>1. UNCHANGED <<at, server, wants>> /\ instances' = [s \in Servers |-> None]
  BY DEF DrainInstances, callVars
<1>2. /\ UNCHANGED <<server, Asked, Verdicts>>
      /\ Bound' = [s \in Servers |-> IF s \in Servers THEN None ELSE Bound[s]]
  BY <1>1 DEF Asked, Verdicts, Bound
<1>3. Registered!Unbind(Servers)
  BY <1>2 DEF Registered!Unbind
<1> QED
  BY <1>3 DEF Kept, Registered!RegistryNext

LEMMA NextKeeps == ASSUME Inv, [Next]_vars PROVE Kept
<1>1. ASSUME NEW h \in Calls, FindInstance(h) PROVE Kept
  BY <1>1, FindInstanceKeeps DEF Kept
<1>2. ASSUME NEW h \in Calls, Step(h) PROVE Kept
  BY <1>1, <1>2, FindAgainKeeps, CreateKeeps, InstallEndsKeeps, InsertInstanceKeeps,
     RemoveInstanceKeeps, CloseInstanceKeeps
  DEF Step
<1>3. ASSUME NEW h \in Calls, ArtifactsAppear(h) \/ WatchAgent(h) \/ AgentExit(h) PROVE Kept
  BY <1>3, QuietKept DEF ArtifactsAppear, WatchAgent, AgentExit
<1>4. CASE ShutdownAll
  BY <1>4, DrainInstancesKeeps, QuietKept DEF ShutdownAll, CloseNext, CloseDrained
<1>5. CASE UNCHANGED vars
  BY <1>5, QuietKept DEF vars
<1> QED
  BY <1>2, <1>3, <1>4, <1>5, PostKeeps, DeleteKeeps, InstallDirectlyKeeps, AnswerKeeps,
     HangUpKeeps
  DEF Next

\* The proxy implements the atomic registry: every id is bound, judged and
\* removed in one step, for any interleaving of calls, hang-ups and shutdown.
THEOREM ImplementsRegistry == Spec => KeepsRegistry
<1>1. Init => Registered!RegistryInit
  BY DEF Init, Registered!RegistryInit, Bound, Asked, Verdicts
<1>2. Inv /\ [Next]_vars => [Registered!RegistryNext]_(Registered!registryVars)
  BY NextKeeps DEF Kept
<1> QED
  BY <1>1, <1>2, ProxyInvariant, PTL DEF Spec, KeepsRegistry, Registered!RegistrySpec
=============================================================================
