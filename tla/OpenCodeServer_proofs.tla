------------------------ MODULE OpenCodeServer_proofs ------------------------
(***************************************************************************)
(* Proofs about OpenCodeServer, for any sets of requests and children.     *)
(*                                                                         *)
(* Everything rests on ensure_lock: while one task holds it past the check *)
(* no server is registered (Vacant), the server it removes has died        *)
(* (Cleared), and the one it starts is not seen by anybody else (Started). *)
(***************************************************************************)
EXTENDS OpenCodeServer, TLAPS

\* A task is in the critical section exactly when it holds the lock.
Discipline == \A t \in Tasks : at[t] \in Critical <=> ensure_lock = t

\* Who is about to start a server, or has just done so, is not in the way of
\* a registered one.
Vacant == \A t \in Tasks : at[t] \in {"spawn", "health", "register"} => server = None

\* What Clear removes is the dead server that was looked at.
Cleared ==
    \A t \in Tasks : at[t] = "clear" =>
        child[t] \in Children /\ os[child[t]] = "dead" /\ server \in {child[t], None}

Started ==
    \A t \in Tasks : at[t] \in {"health", "register"} =>
        /\ child[t] \in Children /\ os[child[t]] # "none" /\ slot[child[t]]
        /\ monitor[child[t]] = "none"

\* Only the handle of a dead server is gone from its slot.
Slots ==
    \A c \in Children : server = c =>
        os[c] # "none" /\ (~slot[c] => os[c] = "dead")

\* A monitor tells of the end of its child, and has ended itself when the
\* task that restarts the server begins.
Exits ==
    \A c \in Children :
        /\ monitor[c] = "exit" => os[c] = "dead"
        /\ os[c] = "none" => monitor[c] = "none"
        /\ at[c] # "idle" => monitor[c] = "done"

\* What a client leaves behind that hung up is seen by nobody else.
Lost == \A t \in Tasks : at[t] \in {"detached", "lost"} => t \in Requests

Inv == /\ TypeOK /\ Discipline /\ Vacant /\ Cleared /\ Started /\ Slots /\ Exits /\ Lost
       /\ OneSidecar /\ Watched

LEMMA InitInv == Init => Inv
<1> SUFFICES ASSUME Init PROVE Inv
    OBVIOUS
<1> USE ServerAssumption DEF Init, Critical, Ended, Tasks, stateVars, childVars, taskVars, Goto, Return, Alive
<1>1. TypeOK
    BY DEF TypeOK
<1>2. Discipline
    BY DEF Discipline
<1>3. Vacant
    BY DEF Vacant
<1>4. Cleared
    BY DEF Cleared
<1>5. Started
    BY DEF Started
<1>6. Slots
    BY DEF Slots
<1>7. Exits
    BY DEF Exits
<1>8. Lost /\ OneSidecar /\ Watched
    BY DEF Lost, OneSidecar, Watched
<1> QED
    BY <1>1, <1>2, <1>3, <1>4, <1>5, <1>6, <1>7, <1>8 DEF Inv

LEMMA CallInv == ASSUME Inv, NEW t \in Tasks, Call(t) PROVE Inv'
BY ServerAssumption DEF Call, Inv, TypeOK, Discipline, Vacant, Cleared, Started, Slots, Exits, Lost, OneSidecar, Watched, LostWith,
        Critical, Ended, Tasks, stateVars, childVars, taskVars, Goto, Return, Alive

LEMMA LockInv == ASSUME Inv, NEW t \in Tasks, Lock(t) PROVE Inv'
BY ServerAssumption DEF Lock, Inv, TypeOK, Discipline, Vacant, Cleared, Started, Slots, Exits, Lost, OneSidecar, Watched, LostWith,
        Critical, Ended, Tasks, stateVars, childVars, taskVars, Goto, Return, Alive

LEMMA CheckInv == ASSUME Inv, NEW t \in Tasks, Check(t) PROVE Inv'
<1> USE ServerAssumption DEF Check, Inv, Critical, Ended, Tasks, stateVars, childVars, taskVars, Goto, Return, Alive
<1>1. TypeOK'
    BY DEF TypeOK
<1>2. Discipline'
    BY DEF TypeOK, Discipline
<1>3. Vacant'
    BY DEF TypeOK, Discipline, Vacant, Cleared
<1>4. Cleared'
    BY DEF TypeOK, Discipline, Cleared, Slots, Vacant
<1>5. Started'
    BY DEF TypeOK, Discipline, Started, Vacant
<1>6. Slots'
    BY DEF TypeOK, Discipline, Slots, Started, Vacant
<1>7. Exits'
    BY DEF TypeOK, Discipline, Exits, Started
<1>8. Lost'
    BY DEF TypeOK, Lost
<1>9. OneSidecar'
    BY DEF TypeOK, Discipline, Vacant, Cleared, Slots, Started, Exits, OneSidecar, LostWith
<1>10. Watched'
    BY DEF TypeOK, Discipline, Vacant, Cleared, Slots, Started, Exits, Watched, LostWith
<1> QED
    BY <1>1, <1>2, <1>3, <1>4, <1>5, <1>6, <1>7, <1>8, <1>9, <1>10 DEF Inv

LEMMA ClearInv == ASSUME Inv, NEW t \in Tasks, Clear(t) PROVE Inv'
BY ServerAssumption DEF Clear, Inv, TypeOK, Discipline, Vacant, Cleared, Started, Slots, Exits, Lost, OneSidecar, Watched, LostWith,
        Critical, Ended, Tasks, stateVars, childVars, taskVars, Goto, Return, Alive

LEMMA SpawnInv == ASSUME Inv, NEW t \in Tasks, Spawn(t) PROVE Inv'
BY ServerAssumption DEF Spawn, Inv, TypeOK, Discipline, Vacant, Cleared, Started, Slots, Exits, Lost, OneSidecar, Watched, LostWith,
        Critical, Ended, Tasks, stateVars, childVars, taskVars, Goto, Return, Alive

LEMMA SpawnFailsInv == ASSUME Inv, NEW t \in Tasks, SpawnFails(t) PROVE Inv'
BY ServerAssumption DEF SpawnFails, Inv, TypeOK, Discipline, Vacant, Cleared, Started, Slots, Exits, Lost, OneSidecar, Watched, LostWith,
        Critical, Ended, Tasks, stateVars, childVars, taskVars, Goto, Return, Alive

LEMMA HealthPassesInv == ASSUME Inv, NEW t \in Tasks, HealthPasses(t) PROVE Inv'
BY ServerAssumption DEF HealthPasses, Inv, TypeOK, Discipline, Vacant, Cleared, Started, Slots, Exits, Lost, OneSidecar, Watched, LostWith,
        Critical, Ended, Tasks, stateVars, childVars, taskVars, Goto, Return, Alive

LEMMA HealthFailsInv == ASSUME Inv, NEW t \in Tasks, HealthFails(t) PROVE Inv'
BY ServerAssumption DEF HealthFails, Inv, TypeOK, Discipline, Vacant, Cleared, Started, Slots, Exits, Lost, OneSidecar, Watched, LostWith,
        Critical, Ended, Tasks, stateVars, childVars, taskVars, Goto, Return, Alive

LEMMA RegisterInv == ASSUME Inv, NEW t \in Tasks, Register(t) PROVE Inv'
<1> USE ServerAssumption DEF Register, Inv, Critical, Ended, Tasks, stateVars, childVars, taskVars, Goto, Return, Alive
<1>1. TypeOK'
    BY DEF TypeOK
<1>2. Discipline'
    BY DEF TypeOK, Discipline
<1>3. Vacant'
    BY DEF TypeOK, Discipline, Vacant, Cleared
<1>4. Cleared'
    BY DEF TypeOK, Discipline, Cleared, Slots, Vacant
<1>5. Started'
    BY DEF TypeOK, Discipline, Started, Vacant
<1>6. Slots'
    <2>1. server' = child[t] /\ UNCHANGED <<os, slot>>
        OBVIOUS
    <2>2. os[child[t]] # "none" /\ slot[child[t]]
        BY DEF Started
    <2> QED BY <2>1, <2>2 DEF Slots
<1>7. Exits'
    BY DEF TypeOK, Discipline, Exits, Started
<1>8. Lost'
    BY DEF TypeOK, Lost
<1>9. OneSidecar'
    BY DEF TypeOK, Discipline, Vacant, Cleared, Slots, Started, Exits, OneSidecar, LostWith
<1>10. Watched'
    BY DEF TypeOK, Discipline, Vacant, Cleared, Slots, Started, Exits, Watched, LostWith
<1> QED
    BY <1>1, <1>2, <1>3, <1>4, <1>5, <1>6, <1>7, <1>8, <1>9, <1>10 DEF Inv

LEMMA HangUpInv == ASSUME Inv, NEW t \in Tasks, HangUp(t) PROVE Inv'
BY ServerAssumption DEF HangUp, Dropped, Inv, TypeOK, Discipline, Vacant, Cleared, Started, Slots, Exits, Lost, OneSidecar, Watched, LostWith,
        Critical, Ended, Tasks, stateVars, childVars, taskVars, Goto, Return, Alive

LEMMA SpawnDetachedInv == ASSUME Inv, NEW t \in Tasks, SpawnDetached(t) PROVE Inv'
BY ServerAssumption DEF SpawnDetached, Inv, TypeOK, Discipline, Vacant, Cleared, Started, Slots, Exits, Lost, OneSidecar, Watched, LostWith,
        Critical, Ended, Tasks, stateVars, childVars, taskVars, Goto, Return, Alive

LEMMA TakeServerInv == ASSUME Inv, TakeServer PROVE Inv'
<1> USE ServerAssumption DEF TakeServer, Inv, Critical, Ended, Tasks, stateVars, childVars, taskVars, Goto, Return, Alive
<1>1. TypeOK'
    BY DEF TypeOK
<1>2. Discipline'
    BY DEF TypeOK, Discipline
<1>3. Vacant'
    BY DEF TypeOK, Discipline, Vacant, Cleared
<1>4. Cleared'
    BY DEF TypeOK, Discipline, Cleared, Slots, Vacant
<1>5. Started'
    BY DEF TypeOK, Discipline, Started, Vacant
<1>6. Slots'
    BY DEF TypeOK, Discipline, Slots, Started, Vacant
<1>7. Exits'
    BY DEF TypeOK, Discipline, Exits, Started
<1>8. Lost'
    BY DEF TypeOK, Lost
<1>9. OneSidecar'
    BY DEF TypeOK, Discipline, Vacant, Cleared, Slots, Started, Exits, OneSidecar, LostWith
<1>10. Watched'
    BY DEF TypeOK, Discipline, Vacant, Cleared, Slots, Started, Exits, Watched, LostWith
<1> QED
    BY <1>1, <1>2, <1>3, <1>4, <1>5, <1>6, <1>7, <1>8, <1>9, <1>10 DEF Inv

LEMMA ChildExitInv == ASSUME Inv, NEW c \in Children, ChildExit(c) PROVE Inv'
BY ServerAssumption DEF ChildExit, Inv, TypeOK, Discipline, Vacant, Cleared, Started, Slots, Exits, Lost, OneSidecar, Watched, LostWith,
        Critical, Ended, Tasks, stateVars, childVars, taskVars, Goto, Return, Alive

LEMMA PollInv == ASSUME Inv, NEW c \in Children, Poll(c) PROVE Inv'
BY ServerAssumption DEF Poll, Inv, TypeOK, Discipline, Vacant, Cleared, Started, Slots, Exits, Lost, OneSidecar, Watched, LostWith,
        Critical, Ended, Tasks, stateVars, childVars, taskVars, Goto, Return, Alive

LEMMA HandleExitInv == ASSUME Inv, NEW c \in Children, HandleExit(c) PROVE Inv'
<1> USE ServerAssumption DEF HandleExit, Inv, Critical, Ended, Tasks, stateVars, childVars, taskVars, Goto, Return, Alive
<1>1. TypeOK'
  <2>0. \/ at' = at
        \/ at' = [at EXCEPT ![c] = "sleep"]
    OBVIOUS
  <2>1. at' \in [Tasks -> {"idle", "sleep", "lock", "detached"} \cup Critical \cup Ended]
    BY <2>0 DEF TypeOK
  <2>2. server' \in Children \cup {None}
    BY DEF TypeOK
  <2>3. monitor' \in [Children -> {"none", "poll", "exit", "done"}]
    BY DEF TypeOK
  <2>4. UNCHANGED <<shutdown_requested, ensure_lock, slot, os, child>>
    OBVIOUS
  <2> QED
    BY <2>1, <2>2, <2>3, <2>4 DEF TypeOK
<1>2. Discipline'
    BY DEF TypeOK, Discipline, Exits
<1>3. Vacant'
    BY DEF TypeOK, Discipline, Vacant, Cleared
<1>4. Cleared'
    BY DEF TypeOK, Discipline, Cleared, Slots, Vacant
<1>5. Started'
    BY DEF TypeOK, Discipline, Started, Vacant
<1>6. Slots'
    BY DEF TypeOK, Discipline, Slots, Started, Vacant
<1>7. Exits'
    BY DEF TypeOK, Discipline, Exits, Started
<1>8. Lost'
    BY DEF TypeOK, Lost
<1>9. OneSidecar'
    BY DEF TypeOK, Discipline, Vacant, Cleared, Slots, Started, Exits, OneSidecar, LostWith
<1>10. Watched'
    BY DEF TypeOK, Discipline, Vacant, Cleared, Slots, Started, Exits, Watched, LostWith
<1> QED
    BY <1>1, <1>2, <1>3, <1>4, <1>5, <1>6, <1>7, <1>8, <1>9, <1>10 DEF Inv

LEMMA WakeInv == ASSUME Inv, NEW c \in Children, Wake(c) PROVE Inv'
BY ServerAssumption DEF Wake, Inv, TypeOK, Discipline, Vacant, Cleared, Started, Slots, Exits, Lost, OneSidecar, Watched, LostWith,
        Critical, Ended, Tasks, stateVars, childVars, taskVars, Goto, Return, Alive

-----------------------------------------------------------------------------
LEMMA StepInv == Inv /\ [Next]_vars => Inv'
<1> SUFFICES ASSUME Inv, [Next]_vars PROVE Inv'
    OBVIOUS
<1>1. CASE UNCHANGED vars
    BY <1>1 DEF Inv, TypeOK, Discipline, Vacant, Cleared, Started, Slots, Exits, Lost,
        OneSidecar, Watched, LostWith, vars, stateVars, childVars, taskVars
<1>2. ASSUME NEW t \in Tasks, Call(t) \/ Step(t) \/ Health(t) \/ HangUp(t)
      PROVE  Inv'
    BY <1>2, CallInv, LockInv, CheckInv, ClearInv, SpawnInv, SpawnFailsInv, HealthPassesInv,
        HealthFailsInv, RegisterInv, HangUpInv, SpawnDetachedInv DEF Step, Health
<1>3. ASSUME NEW c \in Children, ChildExit(c) \/ Monitor(c)
      PROVE  Inv'
    BY <1>3, ChildExitInv, PollInv, HandleExitInv, WakeInv DEF Monitor
<1>4. CASE TakeServer
    BY <1>4, TakeServerInv
<1> QED
    BY <1>1, <1>2, <1>3, <1>4 DEF Next

(* The inductive invariant holds in every reachable state. *)
THEOREM ServerInvariant == Spec => []Inv
BY InitInv, StepInv, PTL DEF Spec

(* The variables of the manager keep their types. *)
THEOREM ServerTypeCorrect == Spec => []TypeOK
<1>1. Inv => TypeOK
    BY DEF Inv
<1> QED
    BY <1>1, ServerInvariant, PTL

(* Every running server process is the registered one, or in the hands of the
   one task that is starting it, or was so when that task's client hung up:
   otherwise ensure_server never starts a second one and shutdown leaves none
   behind. *)
THEOREM NoSecondSidecar == Spec => []OneSidecar
<1>1. Inv => OneSidecar
    BY DEF Inv
<1> QED
    BY <1>1, ServerInvariant, PTL

(* The registered server has a monitor that will see its end, or the task that
   saw it first is about to replace it or was dropped just there. *)
THEOREM ServerIsWatched == Spec => []Watched
<1>1. Inv => Watched
    BY DEF Inv
<1> QED
    BY <1>1, ServerInvariant, PTL

(* A live server is unseated by shutdown alone, clients that hang up and old
   monitors notwithstanding. *)
THEOREM LiveServerStays == Spec => UnseatsDead
<1> DEFINE Kept == \A c \in Children :
        server = c /\ server' # c /\ os[c] = "alive" => ensure_lock = Stop
<1>1. Inv /\ [Next]_vars => Kept
  <2> SUFFICES ASSUME Inv, [Next]_vars, NEW c \in Children,
                      server = c, server' # c, os[c] = "alive"
               PROVE  ensure_lock = Stop
    OBVIOUS
  <2> USE ServerAssumption DEF Inv, TypeOK, Tasks, Critical
  <2>1. UNCHANGED server \/ \E t \in Tasks : Clear(t) \/ Register(t)
        \/ \E d \in Children : HandleExit(d)
        \/ TakeServer
    BY DEF Next, Step, Health, Monitor, Call, Lock, Check, Spawn, SpawnFails, HealthPasses,
        HealthFails, HangUp, SpawnDetached, ChildExit, Poll, Wake, vars, stateVars
  <2>2. ASSUME NEW t \in Tasks, Clear(t) PROVE FALSE
    BY <2>2 DEF Clear, Cleared
  <2>3. ASSUME NEW t \in Tasks, Register(t) PROVE FALSE
    BY <2>3 DEF Register, Vacant
  <2>4. ASSUME NEW d \in Children, HandleExit(d) PROVE FALSE
    BY <2>4 DEF HandleExit, Exits
  <2>5. CASE TakeServer
    BY <2>5 DEF TakeServer, Discipline
  <2> QED
    BY <2>1, <2>2, <2>3, <2>4, <2>5
<1> QED
    BY <1>1, ServerInvariant, PTL DEF Spec, UnseatsDead

=============================================================================
