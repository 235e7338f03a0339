------------------------------ MODULE AcpProxy ------------------------------
(***************************************************************************)
(* The registry of agent instances behind /v1/acp/{server_id}:             *)
(* AcpProxyRuntime of                                                      *)
(* server/packages/sandbox-agent/src/acp_proxy_runtime.rs, with the        *)
(* install handler of router.rs that shares its agent manager.             *)
(*                                                                         *)
(* A call is one handler future.  It can be suspended at every await, and  *)
(* its client may hang up there, which drops the future and the lock       *)
(* guards it holds, but not an install already handed to a blocking        *)
(* thread.  An instance is named after the call that started it.  Of the   *)
(* runtime of an instance (AdapterRuntime) only the life of its process is *)
(* kept: shutdown() kills it when the exit watcher has not taken the child *)
(* lock yet, and otherwise waits until it ends by itself.                  *)
(***************************************************************************)
EXTENDS Naturals, FiniteSets

CONSTANTS
    Calls,              \* calls of post, delete and of the install handler
    Servers,            \* server ids chosen by clients
    Agents,             \* agent kinds
    None,               \* no instance, no lock owner, no agent asked for
    Impatient,          \* calls whose client may hang up
    Kinds,              \* Kinds[h]: what call h may be
    Named               \* Named[h]: the agents call h may name, None for no agent

ASSUME ProxyAssumption ==
    /\ None \notin Calls \cup Servers \cup Agents
    /\ Impatient \subseteq Calls
    /\ Kinds \in [Calls -> SUBSET {"post", "delete", "install"}]
    /\ Named \in [Calls -> SUBSET (Agents \cup {None})]

VARIABLES
    require_preinstall, \* SANDBOX_AGENT_REQUIRE_PREINSTALL, read once
    instances,      \* instances[s]: the instance registered under s, or None
    at,             \* at[h]: the point call h has reached
    server,         \* server[h]: the server id h names
    wants,          \* wants[h]: the agent h asks for, or None
    instance,       \* instance[h]: the instance h works with
    instanceLock,   \* instanceLock[s]: owner of the mutex of server id s
    installLock,    \* installLock[a]: owner of the mutex of agent a
    installing,     \* calls whose install runs on a blocking thread
    ready,          \* agents whose artifacts are on disk
    process,        \* process[i]: the agent process of instance i
    stop,           \* shutdown_all()
    drained,        \* instances shutdown_all has still to close
    closing         \* the instance shutdown_all is closing

callVars    == <<at, server, wants, instance>>
lockVars    == <<instanceLock, installLock>>
installVars == <<require_preinstall, installing, ready>>
stopVars    == <<stop, drained, closing>>
vars == <<instances, callVars, lockVars, installVars, process, stopVars>>

\* The points of post() between the two checks of the map and the insertion.
Creating == {"ensure", "installlock", "ensureagain", "install", "start", "insert"}
Settled  == {"using", "answered", "conflict", "invalid", "failed", "done", "gone", "lost"}

TypeOK ==
    /\ require_preinstall \in BOOLEAN
    /\ instances \in [Servers -> Calls \cup {None}]
    /\ at \in [Calls -> {"idle", "find", "lock", "recheck", "direct", "remove", "close"}
                        \cup Creating \cup Settled]
    /\ server \in [Calls -> Servers \cup {None}]
    /\ wants \in [Calls -> Agents \cup {None}]
    /\ instance \in [Calls -> Calls \cup {None}]
    /\ instanceLock \in [Servers -> Calls \cup {None}]
    /\ installLock \in [Agents -> Calls \cup {None}]
    /\ installing \subseteq Calls
    /\ ready \subseteq Agents
    /\ process \in [Calls -> {"none", "running", "watched", "exited"}]
    /\ stop \in {"idle", "draining", "closing", "done"}
    /\ drained \subseteq Calls
    /\ closing \in Calls \cup {None}

Init ==
    /\ require_preinstall \in BOOLEAN
    /\ instances = [s \in Servers |-> None]
    /\ at = [h \in Calls |-> "idle"]
    /\ server = [h \in Calls |-> None]
    /\ wants = [h \in Calls |-> None]
    /\ instance = [h \in Calls |-> None]
    /\ instanceLock = [s \in Servers |-> None]
    /\ installLock = [a \in Agents |-> None]
    /\ installing = {}
    /\ ready \in SUBSET Agents
    /\ process = [h \in Calls |-> "none"]
    /\ stop = "idle"
    /\ drained = {}
    /\ closing = None

Goto(h, place) == at' = [at EXCEPT ![h] = place]

\* The guards a call holds are dropped when its future ends.
Unlocked(lock, h) == [x \in DOMAIN lock |-> IF lock[x] = h THEN None ELSE lock[x]]

End(h, result) ==
    /\ Goto(h, result)
    /\ instanceLock' = Unlocked(instanceLock, h)
    /\ installLock' = Unlocked(installLock, h)

-----------------------------------------------------------------------------
(* get_or_create_instance().                                                *)

Post(h) ==
    /\ at[h] = "idle"
    /\ "post" \in Kinds[h]
    /\ Goto(h, "find")
    /\ \E s \in Servers : server' = [server EXCEPT ![h] = s]
    /\ \E a \in Named[h] : wants' = [wants EXCEPT ![h] = a]
    /\ UNCHANGED <<instances, instance, lockVars, installVars, process, stopVars>>

\* Variant: the agent the client names is not compared.
UseRegisteredAny(h) ==
    LET i == instances[server[h]] IN
    /\ i # None
    /\ instance' = [instance EXCEPT ![h] = i]
    /\ End(h, "using")

\* An instance exists: it must run the agent the client names, if it names one.
UseRegistered(h) ==
    LET i == instances[server[h]] IN
    /\ i # None
    /\ \/ /\ wants[h] \in {None, wants[i]}
          /\ instance' = [instance EXCEPT ![h] = i]
          /\ End(h, "using")
       \/ /\ wants[h] \notin {None, wants[i]}
          /\ End(h, "conflict")
          /\ UNCHANGED instance

FindInstance(h) ==
    /\ at[h] = "find"
    /\ \/ UseRegistered(h)
       \/ /\ instances[server[h]] = None
          /\ Goto(h, "lock")
          /\ UNCHANGED <<instance, lockVars>>
    /\ UNCHANGED <<instances, server, wants, installVars, process, stopVars>>

LockInstance(h) ==
    /\ at[h] = "lock"
    /\ instanceLock[server[h]] = None
    /\ Goto(h, "recheck")
    /\ instanceLock' = [instanceLock EXCEPT ![server[h]] = h]
    /\ UNCHANGED <<instances, server, wants, instance, installLock, installVars,
                   process, stopVars>>

\* Variant: the map is not looked at again under the lock.
FindAgainNever(h) ==
    /\ at[h] = "recheck"
    /\ \/ /\ wants[h] = None
          /\ End(h, "invalid")
       \/ /\ wants[h] # None
          /\ Goto(h, "ensure")
          /\ UNCHANGED lockVars
    /\ UNCHANGED <<instances, server, wants, instance, installVars, process, stopVars>>

FindAgain(h) ==
    /\ at[h] = "recheck"
    /\ \/ UseRegistered(h)
       \/ /\ instances[server[h]] = None
          /\ wants[h] = None
          /\ End(h, "invalid")
          /\ UNCHANGED instance
       \/ /\ instances[server[h]] = None
          /\ wants[h] # None
          /\ Goto(h, "ensure")
          /\ UNCHANGED <<instance, lockVars>>
    /\ UNCHANGED <<instances, server, wants, installVars, process, stopVars>>

-----------------------------------------------------------------------------
(* create_instance() with ensure_installed().                               *)

EnsureInstalled(h) ==
    /\ at[h] = "ensure"
    /\ \/ wants[h] \in ready /\ Goto(h, "start") /\ UNCHANGED lockVars
       \/ wants[h] \notin ready /\ require_preinstall /\ End(h, "failed")
       \/ /\ wants[h] \notin ready
          /\ ~require_preinstall
          /\ Goto(h, "installlock")
          /\ UNCHANGED lockVars
    /\ UNCHANGED <<instances, server, wants, instance, installVars, process, stopVars>>

LockInstall(h) ==
    /\ at[h] = "installlock"
    /\ installLock[wants[h]] = None
    /\ Goto(h, "ensureagain")
    /\ installLock' = [installLock EXCEPT ![wants[h]] = h]
    /\ UNCHANGED <<instances, server, wants, instance, instanceLock, installVars,
                   process, stopVars>>

\* ensure_installed returns: only the install guard is dropped.
Installed(h) ==
    /\ Goto(h, "start")
    /\ installLock' = Unlocked(installLock, h)
    /\ UNCHANGED instanceLock

EnsureAgain(h) ==
    /\ at[h] = "ensureagain"
    /\ \/ wants[h] \in ready /\ Installed(h) /\ UNCHANGED installing
       \/ /\ wants[h] \notin ready
          /\ Goto(h, "install")
          /\ installing' = installing \cup {h}
          /\ UNCHANGED lockVars
    /\ UNCHANGED <<require_preinstall, instances, server, wants, instance, ready, process, stopVars>>

\* The last artifact is written and becomes visible before install() returns.
ArtifactsAppear(h) ==
    /\ h \in installing
    /\ ready' = ready \cup {wants[h]}
    /\ UNCHANGED <<require_preinstall, instances, callVars, lockVars, installing, process, stopVars>>

\* Variant: the future keeps its guards when the install fails.
InstallEndsStuck(h) ==
    /\ h \in installing
    /\ installing' = installing \ {h}
    /\ \/ /\ ready' = ready \cup {wants[h]}
          /\ CASE at[h] = "install" -> Installed(h)
               [] at[h] = "direct"  -> End(h, "done")
               [] OTHER -> UNCHANGED <<at, lockVars>>
       \/ /\ at' = [at EXCEPT ![h] = IF @ = "install" THEN "failed" ELSE @]
          /\ UNCHANGED <<ready, lockVars>>
    /\ UNCHANGED <<require_preinstall, instances, server, wants, instance, process, stopVars>>

\* The blocking job succeeds or fails; the call that started it, if it is
\* still there, goes on or returns the error.
InstallEnds(h) ==
    /\ h \in installing
    /\ installing' = installing \ {h}
    /\ \/ /\ ready' = ready \cup {wants[h]}
          /\ CASE at[h] = "install" -> Installed(h)
               [] at[h] = "direct"  -> End(h, "done")
               [] OTHER -> UNCHANGED <<at, lockVars>>
       \/ /\ UNCHANGED ready
          /\ IF at[h] \in {"install", "direct"} THEN End(h, "failed")
                                                ELSE UNCHANGED <<at, lockVars>>
    /\ UNCHANGED <<require_preinstall, instances, server, wants, instance, process, stopVars>>

\* The launch spec is resolved and the process spawned; either may fail.
StartAgent(h) ==
    /\ at[h] = "start"
    /\ \/ /\ Goto(h, "insert")
          /\ process' = [process EXCEPT ![h] = "running"]
          /\ UNCHANGED lockVars
       \/ End(h, "failed") /\ UNCHANGED process
    /\ UNCHANGED <<instances, server, wants, instance, installVars, stopVars>>

InsertInstance(h) ==
    /\ at[h] = "insert"
    /\ instances' = [instances EXCEPT ![server[h]] = h]
    /\ instance' = [instance EXCEPT ![h] = h]
    /\ End(h, "using")
    /\ UNCHANGED <<server, wants, installVars, process, stopVars>>

\* The adapter's post returns, or the /usage command is answered.
Answer(h) ==
    /\ at[h] = "using"
    /\ Goto(h, "answered")
    /\ UNCHANGED <<instances, server, wants, instance, lockVars, installVars,
                   process, stopVars>>

\* POST /v1/agents/{agent}/install: no lock, no look at what is on disk.
InstallDirectly(h) ==
    /\ at[h] = "idle"
    /\ "install" \in Kinds[h]
    /\ Goto(h, "direct")
    /\ \E a \in Named[h] \ {None} : wants' = [wants EXCEPT ![h] = a]
    /\ installing' = installing \cup {h}
    /\ UNCHANGED <<require_preinstall, instances, server, instance, lockVars, ready, process, stopVars>>

\* The client of h hangs up: the future is dropped where it is suspended.  An
\* instance that only the future knew is lost with it.
HangUp(h) ==
    /\ h \in Impatient
    /\ at[h] \notin {"idle"} \cup (Settled \ {"using"})
    /\ End(h, IF at[h] \in {"insert", "close"} THEN "lost" ELSE "gone")
    /\ UNCHANGED <<instances, server, wants, instance, installVars, process, stopVars>>

-----------------------------------------------------------------------------
(* delete() and shutdown_all().                                             *)

Delete(h) ==
    /\ at[h] = "idle"
    /\ "delete" \in Kinds[h]
    /\ Goto(h, "remove")
    /\ \E s \in Servers : server' = [server EXCEPT ![h] = s]
    /\ UNCHANGED <<instances, wants, instance, lockVars, installVars, process, stopVars>>

RemoveInstance(h) ==
    /\ at[h] = "remove"
    /\ instances' = [instances EXCEPT ![server[h]] = None]
    /\ instance' = [instance EXCEPT ![h] = instances[server[h]]]
    /\ Goto(h, IF instances[server[h]] = None THEN "done" ELSE "close")
    /\ UNCHANGED <<server, wants, lockVars, installVars, process, stopVars>>

\* Variant: shutdown() does not wait for the end of the process.
ShutdownEarly(i) == UNCHANGED process

\* AdapterRuntime::shutdown() returns: the process is dead.  It is killed
\* only if the exit watcher does not hold the child lock.
Shutdown(i) ==
    /\ process[i] \in {"running", "exited"}
    /\ process' = [process EXCEPT ![i] = "exited"]

CloseInstance(h) ==
    /\ at[h] = "close"
    /\ Shutdown(instance[h])
    /\ Goto(h, "done")
    /\ UNCHANGED <<instances, server, wants, instance, lockVars, installVars, stopVars>>

DrainInstances ==
    /\ stop = "idle"
    /\ stop' = "draining"
    /\ drained' = {instances[s] : s \in Servers} \ {None}
    /\ instances' = [s \in Servers |-> None]
    /\ UNCHANGED <<closing, callVars, lockVars, installVars, process>>

CloseNext ==
    /\ stop = "draining"
    /\ \/ \E i \in drained :
            /\ stop' = "closing"
            /\ closing' = i
            /\ drained' = drained \ {i}
       \/ drained = {} /\ stop' = "done" /\ UNCHANGED <<drained, closing>>
    /\ UNCHANGED <<instances, callVars, lockVars, installVars, process>>

CloseDrained ==
    /\ stop = "closing"
    /\ Shutdown(closing)
    /\ stop' = "draining"
    /\ closing' = None
    /\ UNCHANGED <<instances, drained, callVars, lockVars, installVars>>

\* The exit watcher takes the child lock and waits.
WatchAgent(i) ==
    /\ process[i] = "running"
    /\ process' = [process EXCEPT ![i] = "watched"]
    /\ UNCHANGED <<instances, callVars, lockVars, installVars, stopVars>>

AgentExit(i) ==
    /\ process[i] \in {"running", "watched"}
    /\ process' = [process EXCEPT ![i] = "exited"]
    /\ UNCHANGED <<instances, callVars, lockVars, installVars, stopVars>>

-----------------------------------------------------------------------------
\* The steps of call h the runtime schedules.
Step(h) ==
    \/ FindInstance(h) \/ LockInstance(h) \/ FindAgain(h)
    \/ EnsureInstalled(h) \/ LockInstall(h) \/ EnsureAgain(h)
    \/ InstallEnds(h) \/ StartAgent(h) \/ InsertInstance(h)
    \/ RemoveInstance(h) \/ CloseInstance(h)

ShutdownAll == DrainInstances \/ CloseNext \/ CloseDrained

Next ==
    \/ \E h \in Calls :
        \/ Step(h) \/ Post(h) \/ Delete(h) \/ InstallDirectly(h)
        \/ ArtifactsAppear(h) \/ Answer(h) \/ HangUp(h)
        \/ WatchAgent(h) \/ AgentExit(h)
    \/ ShutdownAll

Spec == Init /\ [][Next]_vars

\* Tasks run and installs end; clients need not call, and agents need not
\* answer.
Fairness ==
    /\ \A h \in Calls : WF_vars(Step(h))
    /\ WF_vars(CloseNext \/ CloseDrained)

FairSpec == Spec /\ Fairness

\* In addition every agent ends some day.
MortalSpec == FairSpec /\ \A h \in Calls : WF_vars(AgentExit(h))

-----------------------------------------------------------------------------
(* Properties.                                                              *)

Live(i) == process[i] \in {"running", "watched"}

\* No two calls create an instance for one server id at a time, and none
\* creates one while another is registered: the second insertion would throw
\* the first instance away (get_or_create_instance checks, locks and checks
\* again).
OneInstance ==
    \A g, h \in Calls :
        at[g] \in Creating =>
            /\ instances[server[g]] = None
            /\ at[h] \in Creating /\ server[h] = server[g] => g = h

\* An agent process that runs is registered, or in the hands of the call that
\* is about to register it, of a delete() or of shutdown_all(), which wait for
\* its end; or it was when the client of that call hung up.
NoOrphan ==
    \A i \in Calls : Live(i) =>
        \/ \E s \in Servers : instances[s] = i
        \/ at[i] \in {"insert", "lost"}
        \/ \E h \in Calls : at[h] \in {"close", "lost"} /\ instance[h] = i
        \/ i \in drained \cup {closing}

\* A post is settled: it gets an instance or an error; and shutdown_all() ends,
\* provided that agents do.
CallSettles ==
    /\ \A h \in Calls : at[h] = "find" ~> at[h] \in Settled
    /\ stop = "draining" ~> stop = "done"

\* How a call that has reached this place was judged.
Judged(place) ==
    IF place \in {"using", "answered"} THEN "granted"
    ELSE IF place \in {"gone", "lost"} THEN "gone"
    ELSE IF place \in {"conflict", "invalid", "failed"} THEN place
    ELSE "open"

\* The state of the abstract registry: the agent of every id, the agent every
\* call asks for, and how the call was judged.  The install handler names no
\* server id and is no part of it.
Bound == [s \in Servers |-> IF instances[s] = None THEN None ELSE wants[instances[s]]]
Asked == [h \in Calls |-> IF server[h] = None THEN None ELSE wants[h]]
Verdicts == [h \in Calls |-> IF server[h] = None THEN "open" ELSE Judged(at[h])]

Registered == INSTANCE Registry WITH
    bound <- Bound, server <- server, wants <- Asked, verdict <- Verdicts

\* The map with its two-level locking implements an atomic registry: ids are
\* bound, judged and removed in one step each.
KeepsRegistry == Registered!RegistrySpec
=============================================================================
