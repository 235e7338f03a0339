--------------------------- MODULE OpenCodeServer ---------------------------
(***************************************************************************)
(* The native OpenCode server behind /opencode: OpenCodeServerManager of   *)
(* server/packages/opencode-server-manager/src/lib.rs.                     *)
(*                                                                         *)
(* ensure_server starts the server when no live one is registered, one     *)
(* caller at a time; a monitor per server polls its child and restarts the *)
(* server when it has died; shutdown takes the server away and kills it.   *)
(* A child that was started stands for its base_url, its instance_id and   *)
(* the slot its handle is kept in.  The task that restarts the server      *)
(* after child c has died is named c, too.                                 *)
(***************************************************************************)
EXTENDS Naturals, FiniteSets

CONSTANTS
    Requests,       \* HTTP handlers that call ensure_server
    Children,       \* processes that may be started; bounds their number
    Stop,           \* the task that calls shutdown
    None,
    Impatient,      \* requests whose client may hang up
    auto_restart    \* of the configuration

Tasks == Requests \cup Children \cup {Stop}

ASSUME ServerAssumption ==
    /\ Requests \cap Children = {}
    /\ Stop \notin Requests \cup Children
    /\ None \notin Tasks
    /\ Impatient \subseteq Requests
    /\ auto_restart \in BOOLEAN

VARIABLES
    server,             \* state.server
    shutdown_requested, \* state.shutdown_requested
    ensure_lock,        \* the task that holds ensure_lock
    slot,               \* slot[c]: the handle of c is still in its slot
    os,                 \* os[c]: the process in the operating system
    monitor,            \* monitor[c]: the monitor task of c
    at,                 \* at[t]: the point task t has reached
    child               \* child[t]: the server t looked at, or has started

stateVars == <<server, shutdown_requested>>
childVars == <<slot, os>>
taskVars  == <<at, child>>
vars == <<stateVars, ensure_lock, childVars, monitor, taskVars>>

\* Points at which a task holds ensure_lock.
Critical == {"check", "clear", "spawn", "health", "register", "take"}
Ended    == {"done", "failed", "gone", "lost"}

TypeOK ==
    /\ server \in Children \cup {None}
    /\ shutdown_requested \in BOOLEAN
    /\ ensure_lock \in Tasks \cup {None}
    /\ slot \in [Children -> BOOLEAN]
    /\ os \in [Children -> {"none", "alive", "dead"}]
    /\ monitor \in [Children -> {"none", "poll", "exit", "done"}]
    /\ at \in [Tasks -> {"idle", "sleep", "lock", "detached"} \cup Critical \cup Ended]
    /\ child \in [Tasks -> Children \cup {None}]

Init ==
    /\ server = None
    /\ shutdown_requested = FALSE
    /\ ensure_lock = None
    /\ slot = [c \in Children |-> FALSE]
    /\ os = [c \in Children |-> "none"]
    /\ monitor = [c \in Children |-> "none"]
    /\ at = [t \in Tasks |-> "idle"]
    /\ child = [t \in Tasks |-> None]

Goto(t, place) == at' = [at EXCEPT ![t] = place]

\* The task ends, and with it its hold on ensure_lock.
Return(t, result) ==
    /\ Goto(t, result)
    /\ ensure_lock' = None

-----------------------------------------------------------------------------
(* ensure_server().                                                         *)

Call(t) ==
    /\ t \notin Children
    /\ at[t] = "idle"
    /\ Goto(t, "lock")
    /\ UNCHANGED <<stateVars, ensure_lock, childVars, monitor, child>>

Lock(t) ==
    /\ at[t] = "lock"
    /\ ensure_lock = None
    /\ ensure_lock' = t
    /\ Goto(t, IF t = Stop THEN "take" ELSE "check")
    /\ UNCHANGED <<stateVars, childVars, monitor, child>>

Alive(c) == slot[c] /\ os[c] = "alive"

\* running_base_url(): child_is_alive empties the slot of a child it reaps.
Check(t) ==
    /\ at[t] = "check"
    /\ child' = [child EXCEPT ![t] = server]
    /\ \/ /\ server = None
          /\ Goto(t, "spawn")
          /\ UNCHANGED <<ensure_lock, slot>>
       \/ /\ server # None
          /\ Alive(server)
          /\ Return(t, "done")
          /\ UNCHANGED slot
       \/ /\ server # None
          /\ ~Alive(server)
          /\ slot' = [slot EXCEPT ![server] = FALSE]
          /\ Goto(t, "clear")
          /\ UNCHANGED ensure_lock
    /\ UNCHANGED <<stateVars, os, monitor>>

\* Only the instance that was looked at is removed.
Clear(t) ==
    /\ at[t] = "clear"
    /\ server' = IF server = child[t] THEN None ELSE server
    /\ Goto(t, "spawn")
    /\ UNCHANGED <<shutdown_requested, ensure_lock, childVars, monitor, child>>

\* find_available_port and command.spawn on a blocking thread.
Spawn(t) ==
    /\ at[t] = "spawn"
    /\ \E c \in Children :
        /\ os[c] = "none"
        /\ os' = [os EXCEPT ![c] = "alive"]
        /\ slot' = [slot EXCEPT ![c] = TRUE]
        /\ child' = [child EXCEPT ![t] = c]
    /\ Goto(t, "health")
    /\ UNCHANGED <<stateVars, ensure_lock, monitor>>

SpawnFails(t) ==
    /\ at[t] = "spawn"
    /\ Return(t, "failed")
    /\ UNCHANGED <<stateVars, childVars, monitor, child>>

\* wait_for_http_server(): some endpoint answers.  The port was free when it
\* was picked; whoever listens there now may answer, and the child may be dead.
HealthPasses(t) ==
    /\ at[t] = "health"
    /\ Goto(t, "register")
    /\ UNCHANGED <<stateVars, ensure_lock, childVars, monitor, child>>

\* Variant: the child is left alone when its health check fails.
HealthFailsOnly(t) ==
    /\ at[t] = "health"
    /\ Return(t, "failed")
    /\ UNCHANGED <<stateVars, childVars, monitor, child>>

\* No endpoint answers in HEALTH_ATTEMPTS rounds; kill_child.
HealthFails(t) ==
    /\ at[t] = "health"
    /\ os' = [os EXCEPT ![child[t]] = "dead"]
    /\ slot' = [slot EXCEPT ![child[t]] = FALSE]
    /\ Return(t, "failed")
    /\ UNCHANGED <<stateVars, monitor, child>>

\* Variant: the monitor is started with the first server only.
RegisterOnce(t) ==
    /\ at[t] = "register"
    /\ server' = child[t]
    /\ shutdown_requested' = FALSE
    /\ monitor' = [monitor EXCEPT ![child[t]] =
        IF \A c \in Children : monitor[c] = "none" THEN "poll" ELSE "none"]
    /\ Return(t, "done")
    /\ UNCHANGED <<childVars, child>>

Register(t) ==
    /\ at[t] = "register"
    /\ server' = child[t]
    /\ shutdown_requested' = FALSE
    /\ monitor' = [monitor EXCEPT ![child[t]] = "poll"]
    /\ Return(t, "done")
    /\ UNCHANGED <<childVars, child>>

Dropped(place) ==
    IF place = "spawn" THEN "detached"
    ELSE IF place \in {"clear", "health", "register"} THEN "lost" ELSE "gone"

\* Variant: the guard is not dropped with the handler that waits for the start.
HangUpStuck(t) ==
    /\ t \in Impatient
    /\ at[t] \in {"lock"} \cup Critical
    /\ Goto(t, Dropped(at[t]))
    /\ ensure_lock' = IF ensure_lock = t /\ at[t] # "spawn" THEN None ELSE ensure_lock
    /\ UNCHANGED <<stateVars, childVars, monitor, child>>

\* The handler is dropped; the blocking thread is not.  A handler that had a
\* dead server to clear away, or a new one to register, is lost with it.
HangUp(t) ==
    /\ t \in Impatient
    /\ at[t] \in {"lock"} \cup Critical
    /\ Goto(t, Dropped(at[t]))
    /\ ensure_lock' = IF ensure_lock = t THEN None ELSE ensure_lock
    /\ UNCHANGED <<stateVars, childVars, monitor, child>>

\* A child nobody waits for any more: its handle is dropped, which kills it
\* as little as it kills the thread.
SpawnDetached(t) ==
    /\ at[t] = "detached"
    /\ \/ Goto(t, "gone") /\ UNCHANGED <<os, child>>
       \/ \E c \in Children :
            /\ os[c] = "none"
            /\ os' = [os EXCEPT ![c] = "alive"]
            /\ child' = [child EXCEPT ![t] = c]
            /\ Goto(t, "lost")
    /\ UNCHANGED <<stateVars, ensure_lock, slot, monitor>>

-----------------------------------------------------------------------------
(* shutdown().                                                              *)

TakeServer ==
    /\ at[Stop] = "take"
    /\ shutdown_requested' = TRUE
    /\ server' = None
    /\ IF server = None
       THEN UNCHANGED <<os, slot>>
       ELSE /\ os' = [os EXCEPT ![server] = "dead"]
            /\ slot' = [slot EXCEPT ![server] = FALSE]
    /\ Return(Stop, "done")
    /\ UNCHANGED <<monitor, child>>

-----------------------------------------------------------------------------
(* The child and its monitor.                                               *)

ChildExit(c) ==
    /\ os[c] = "alive"
    /\ os' = [os EXCEPT ![c] = "dead"]
    /\ UNCHANGED <<stateVars, ensure_lock, slot, monitor, taskVars>>

\* An empty slot ends the monitor without a word.
Poll(c) ==
    /\ monitor[c] = "poll"
    /\ \/ /\ ~slot[c]
          /\ monitor' = [monitor EXCEPT ![c] = "done"]
       \/ /\ slot[c] /\ os[c] = "dead"
          /\ monitor' = [monitor EXCEPT ![c] = "exit"]
    /\ UNCHANGED <<stateVars, ensure_lock, childVars, taskVars>>

\* handle_process_exit(): the monitor clears its own server only, and spawns
\* the task that restarts it.
HandleExit(c) ==
    /\ monitor[c] = "exit"
    /\ monitor' = [monitor EXCEPT ![c] = "done"]
    /\ \/ server # c /\ UNCHANGED <<server, at>>
       \/ /\ server = c
          /\ server' = None
          /\ IF ~shutdown_requested /\ auto_restart THEN Goto(c, "sleep") ELSE UNCHANGED at
    /\ UNCHANGED <<shutdown_requested, ensure_lock, childVars, child>>

\* After MONITOR_DELAY_MS; shutdown_requested is not looked at again.
Wake(c) ==
    /\ at[c] = "sleep"
    /\ Goto(c, "lock")
    /\ UNCHANGED <<stateVars, ensure_lock, childVars, monitor, child>>

-----------------------------------------------------------------------------
Health(t) == HealthPasses(t) \/ HealthFails(t)

Step(t) ==
    \/ Lock(t) \/ Check(t) \/ Clear(t) \/ Spawn(t) \/ SpawnFails(t)
    \/ Register(t) \/ SpawnDetached(t)

Monitor(c) == Poll(c) \/ HandleExit(c) \/ Wake(c)

Next ==
    \/ \E t \in Tasks : Call(t) \/ Step(t) \/ Health(t) \/ HangUp(t)
    \/ \E c \in Children : ChildExit(c) \/ Monitor(c)
    \/ TakeServer

Spec == Init /\ [][Next]_vars

\* Ready tasks and due timers run, and a request sent to the server is
\* answered or fails: the client of the health check has no timeout of its own.
FairSpec ==
    /\ Spec
    /\ \A t \in Tasks : WF_vars(Step(t)) /\ WF_vars(Health(t))
    /\ \A c \in Children : WF_vars(Monitor(c))
    /\ WF_vars(TakeServer)

-----------------------------------------------------------------------------
(* Properties.                                                              *)

\* The server a handler had in its hands when its client hung up.
LostWith(c) == \E t \in Requests : at[t] = "lost" /\ child[t] = c

\* ensure_lock: a process that runs is the registered server, or in the hands
\* of the one task that is starting it, so there is one at most and shutdown
\* leaves none behind; except for those whose start was dropped half way.
OneSidecar ==
    \A c \in Children : os[c] = "alive" =>
        \/ server = c /\ slot[c]
        \/ \E t \in Tasks :
            /\ ensure_lock = t /\ child[t] = c
            /\ at[t] \in {"health", "register"} /\ server = None
        \/ LostWith(c)

\* running_base_url and handle_process_exit: a live server is unseated by
\* shutdown alone, whatever an old monitor or a waiting caller believes.
UnseatsDead ==
    [][\A c \in Children :
        server = c /\ server' # c /\ os[c] = "alive" => ensure_lock = Stop]_vars

\* The server in place is watched, or the task that noticed its end first is
\* about to replace it, or was dropped at that very point.
Watched ==
    server # None =>
        \/ monitor[server] \in {"poll", "exit"} /\ slot[server]
        \/ \E t \in Tasks : at[t] = "clear" /\ child[t] = server
        \/ LostWith(server)

\* auto_restart: when the server has died somebody tries to start it again,
\* unless it was to be shut down or whoever noticed was dropped.
Restarted ==
    \A c \in Children :
        (server = c /\ os[c] = "dead")
            ~> \/ shutdown_requested \/ server \notin {c, None}
               \/ \E t \in Tasks : at[t] = "spawn"
               \/ LostWith(c)

\* The lock is always given back: every caller gets its answer, clients that
\* hang up with the lock in hand and failed starts notwithstanding.
EnsureReturns == \A t \in Tasks : at[t] = "lock" ~> at[t] \in Ended
=============================================================================
