----------------------- MODULE FoundryTaskIndex_proofs -----------------------
(***************************************************************************)
(* What holds of FoundryTaskIndex for any calls of createTask, any virtual *)
(* tasks and any branches: a task that is opened finds its branch, two     *)
(* tasks hold one branch only where the code let it happen, and the list   *)
(* shows the tasks as they are or will be told.                            *)
(*                                                                         *)
(* The argument follows a task's branch: from the moment its entry is      *)
(* there, every copy of it (record, summary, a summary on its way, the     *)
(* entry a task has read) names the branch of the entry, unless the entry  *)
(* was deleted, and then the branch is among the contested ones.  For the  *)
(* list it follows the versions: no copy is newer than the record.         *)
(***************************************************************************)
EXTENDS FoundryTaskIndex, TLAPS

\* Nothing was ever made of the task but perhaps its entry.
Absent(t) ==
    /\ actor[t] = [state |-> "none", record |-> Blank]
    /\ summary[t] = None
    /\ reader[t].state = "no"
    /\ \A n \in news : n.task # t
    /\ t \notin commands /\ t \notin owing
    /\ t \in Creations => got[t].summary = None

\* The task has an entry, or had one.
Known(t) == index[t] # None \/ t \in reclaimed

Before == {"idle", "asking", "inserting"}
After == {"creating", "initializing", "reading", "writing", "done"}

\* The copies of a task's branch.
Claims(t, b) ==
    \/ actor[t].record.branch = b
    \/ summary[t] # None /\ summary[t].branch = b
    \/ reader[t].state = "read" /\ reader[t].branch = b
    \/ \E n \in news : n.task = t /\ n.summary.branch = b
    \/ t \in Creations /\ got[t].summary # None /\ got[t].summary.branch = b
    \/ t \in Creations /\ (t \in commands \/ at[t] = "creating") /\ got[t].branch = b
    \/ loop.at = "listing" /\ loop.task = t /\ loop.branch = b

\* Before its entry is inserted nothing is made of a task.
Born == \A t \in Tasks : Absent(t) \/ Known(t)

\* A call has chosen its branch before it inserts, and makes an actor after.
CallsInOrder ==
    \A c \in Creations :
        /\ at[c] \in Before => ~Known(c)
        /\ at[c] \in After => Known(c)
        /\ at[c] = "creating" => Absent(c)
        /\ at[c] \in {"asking", "inserting", "creating"} \/ c \in commands
               => got[c].branch \in Branches

\* The owner a call asks had its entry on the call's branch, and gets no other one.
OwnersRegistered ==
    \A c \in Creations : at[c] = "asking" =>
        LET u == got[c].owner IN
        /\ u \in Tasks
        /\ index[u] \in {None, got[c].branch}
        /\ u \in Creations => at[u] \notin Before
        /\ u \in Virtual => Known(u)

\* The loop makes a virtual task once.
LoopInOrder ==
    loop.at # "idle" =>
        /\ loop.task \in Virtual /\ loop.branch \in Branches
        /\ loop.at = "indexing" <=> ~Known(loop.task)

\* Every copy of a branch agrees with the entry, or the branch is contested.
Claimed ==
    \A t \in Tasks, b \in Branches : Claims(t, b) => index[t] = b \/ b \in contested

\* So is a branch that two entries name.
EntriesApart ==
    \A t, u \in Tasks :
        t # u /\ index[t] = index[u] /\ index[t] # None => index[t] \in contested

\* A task whose entry stands and was read has a branch.
Branched ==
    \A t \in Tasks \ (reclaimed \cup unread) :
        /\ actor[t].state = "record" => actor[t].record.branch # None
        /\ reader[t].state = "read" => reader[t].branch # None

IInv ==
    /\ TypeOK /\ Born /\ CallsInOrder /\ OwnersRegistered /\ LoopInOrder
    /\ Claimed /\ EntriesApart /\ Branched
-----------------------------------------------------------------------------

THEOREM InitHolds == Init => IInv
<1> SUFFICES ASSUME Init PROVE IInv
  OBVIOUS
<1> USE IndexAssumption DEF Init, Tasks, Blank, Free
<1>1. TypeOK
  BY DEF TypeOK, Places, Summary, Found
<1>2. Born
  BY DEF Born, Absent
<1>3. CallsInOrder
  BY DEF CallsInOrder, Known, Before, After
<1>4. OwnersRegistered /\ LoopInOrder
  BY DEF OwnersRegistered, LoopInOrder
<1>5. Claimed
  BY DEF Claimed, Claims
<1>6. EntriesApart /\ Branched
  BY DEF EntriesApart, Branched
<1> QED
  BY <1>1, <1>2, <1>3, <1>4, <1>5, <1>6 DEF IInv

\* Being asked does not change the type of what a task has read.
LEMMA AskedType ==
  ASSUME TypeOK, NEW t \in Tasks, Asked(t)
  PROVE  reader' \in [Tasks -> [state : {"no", "asked", "read"}, branch : Branches \cup {None}]]
<1> DEFINE Readers == [state : {"no", "asked", "read"}, branch : Branches \cup {None}]
<1>1. \A r \in Readers : [r EXCEPT !.state = "asked"] \in Readers
  OBVIOUS
<1>2. reader \in [Tasks -> Readers]
  BY DEF TypeOK
<1> HIDE DEF Readers
<1>3. reader' \in [Tasks -> Readers]
  BY <1>1, <1>2 DEF Asked
<1> QED
  BY <1>3 DEF Readers

\* A task reads its entry, which it has unless it was deleted, or fails to.
LEMMA ReadEntryStep ==
  ASSUME IInv, NEW t \in Tasks, ReadEntry(t)
  PROVE  IInv'
<1> USE IndexAssumption DEF IInv, callVars, tableVars, loopVars
<1>1. /\ reader[t].state = "asked"
      /\ UNCHANGED <<wish, at, got, index, summary, actor, commands, owing, news, touches,
                     loop, pulls, contested, reclaimed, overtaken, unsent>>
  BY DEF ReadEntry
<1>2. PICK s \in {"no", "read"}, b \in Branches \cup {None} :
        /\ reader' = [reader EXCEPT ![t] = [state |-> s, branch |-> b]]
        /\ s = "read" => \/ b = index[t] /\ unread' = unread
                         \/ b = None /\ unread' = unread \cup {t}
        /\ s = "no" => unread' = unread
  BY DEF ReadEntry, TypeOK
<1>3. unread \subseteq unread' /\ unread' \subseteq Tasks
  BY <1>2 DEF TypeOK
<1>4. TypeOK'
  BY <1>1, <1>2, <1>3 DEF TypeOK
<1>5. Known(t) /\ \A u \in Tasks : Known(u)' <=> Known(u)
  BY <1>1 DEF Born, Absent, Known
<1>6. Born'
  BY <1>1, <1>2, <1>5 DEF TypeOK, Born, Absent
<1>7. CallsInOrder'
  <2>1. ASSUME NEW c \in Creations, at[c] = "creating" PROVE Absent(c)'
    <3>1. Absent(c) /\ c # t
      BY <1>1, <2>1 DEF CallsInOrder, Absent
    <3> QED
      BY <1>1, <1>2, <3>1 DEF Absent
  <2> QED
    BY <1>1, <1>5, <2>1 DEF CallsInOrder, Before, After, Tasks
<1>8. OwnersRegistered'
  BY <1>1, <1>5 DEF OwnersRegistered, Before
<1>9. LoopInOrder'
  BY <1>1, <1>5 DEF TypeOK, LoopInOrder, Tasks
<1>10. Claimed'
  BY <1>1, <1>2 DEF TypeOK, Claimed, Claims
<1>11. EntriesApart'
  BY <1>1 DEF EntriesApart
<1>12. Branched'
  BY <1>1, <1>2, <1>3, <1>5 DEF TypeOK, Branched, Known
<1> QED
  BY <1>4, <1>6, <1>7, <1>8, <1>9, <1>10, <1>11, <1>12

\* It writes its record with the branch it has read.
LEMMA WriteEntryStep ==
  ASSUME IInv, NEW t \in Tasks, WriteEntry(t)
  PROVE  IInv'
<1> USE IndexAssumption DEF IInv, WriteEntry, Write, callVars, tableVars, loopVars, aux
<1>1. TypeOK'
  BY DEF TypeOK, Summary
<1>2. Born'
  BY DEF TypeOK, Born, Absent, Known
<1>3. CallsInOrder'
  BY DEF TypeOK, Born, CallsInOrder, Absent, Known, Before, After
<1>4. OwnersRegistered'
  BY DEF TypeOK, OwnersRegistered, Known, Before
<1>5. LoopInOrder'
  BY DEF TypeOK, LoopInOrder, Known
<1>6. Claimed'
  BY DEF TypeOK, Tasks, Claimed, Claims
<1>7. EntriesApart'
  BY DEF TypeOK, EntriesApart
<1>8. Branched'
  BY DEF TypeOK, Branched
<1> QED
  BY <1>1, <1>2, <1>3, <1>4, <1>5, <1>6, <1>7, <1>8

\* A listed task has, or had, an entry.
LEMMA ViewStep ==
  ASSUME IInv, NEW t \in Tasks, View(t)
  PROVE  IInv'
<1> USE IndexAssumption DEF IInv, View, Asked, callVars, tableVars, loopVars, aux
<1>1. TypeOK'
  <2>1. actor' \in [Tasks -> [state : {"none", "empty", "record"}, record : Summary]]
    <3>1. actor' = [actor EXCEPT ![t] = [actor[t] EXCEPT !.state = "empty"]]
      OBVIOUS
    <3>2. [actor[t] EXCEPT !.state = "empty"]
            \in [state : {"none", "empty", "record"}, record : Summary]
      <4>1. actor[t] \in [state : {"none", "empty", "record"}, record : Summary]
        BY DEF TypeOK
      <4> QED BY <4>1
    <3> QED BY <3>1, <3>2 DEF TypeOK
  <2> QED
    BY <2>1, AskedType DEF TypeOK
<1>2. Born'
  BY DEF TypeOK, Born, Absent, Known
<1>3. CallsInOrder'
  BY DEF TypeOK, Born, CallsInOrder, Absent, Known, Before, After
<1>4. OwnersRegistered'
  BY DEF TypeOK, OwnersRegistered, Known, Before
<1>5. LoopInOrder'
  BY DEF TypeOK, LoopInOrder, Known
<1>6. Claimed'
  BY DEF TypeOK, Claimed, Claims
<1>7. EntriesApart'
  BY DEF TypeOK, EntriesApart
<1>8. Branched'
  BY DEF TypeOK, Branched
<1> QED
  BY <1>1, <1>2, <1>3, <1>4, <1>5, <1>6, <1>7, <1>8

\* A change keeps the branch.
LEMMA TouchStep ==
  ASSUME IInv, NEW t \in Tasks, Touch(t)
  PROVE  IInv'
<1> USE IndexAssumption DEF IInv, Touch, Write, callVars, tableVars, loopVars, aux
<1>1. TypeOK'
  BY DEF TypeOK, Summary
<1>2. Born'
  BY DEF TypeOK, Born, Absent, Known
<1>3. CallsInOrder'
  BY DEF TypeOK, Born, CallsInOrder, Absent, Known, Before, After
<1>4. OwnersRegistered'
  BY DEF TypeOK, OwnersRegistered, Known, Before
<1>5. LoopInOrder'
  BY DEF TypeOK, LoopInOrder, Known
<1>6. Claimed'
  BY DEF TypeOK, Claimed, Claims
<1>7. EntriesApart'
  BY DEF TypeOK, EntriesApart
<1>8. Branched'
  BY DEF TypeOK, Branched
<1> QED
  BY <1>1, <1>2, <1>3, <1>4, <1>5, <1>6, <1>7, <1>8

\* What a task sends of itself has the record's branch.
LEMMA BroadcastStep ==
  ASSUME IInv, NEW t \in Tasks, Broadcast(t)
  PROVE  IInv'
<1> USE IndexAssumption DEF IInv, tableVars, loopVars
<1>1. /\ t \in owing /\ owing' = owing \ {t}
      /\ UNCHANGED <<wish, got, index, summary, actor, commands, reader, touches, loop, pulls,
                     contested, reclaimed, unread, overtaken>>
  BY DEF Broadcast
<1>2. /\ news' \in {news, news \cup {[task |-> t, summary |-> actor[t].record]}}
      /\ unsent' \in {unsent \ {t}, unsent \cup {t}}
  BY DEF Broadcast
<1>3. /\ at' \in [Creations -> Places]
      /\ \A c \in Creations : \/ at'[c] = at[c]
                              \/ at[c] = "initializing" /\ at'[c] \in {"reading", "failed"}
  <2>1. at' = at \/ /\ t \in Creations /\ at[t] = "initializing"
                    /\ \E p \in {"reading", "failed"} : at' = [at EXCEPT ![t] = p]
    BY DEF Broadcast, Answered, Goto
  <2>2. CASE at' = at
    BY <2>2 DEF TypeOK
  <2>3. ASSUME t \in Creations, at[t] = "initializing",
               NEW p \in {"reading", "failed"}, at' = [at EXCEPT ![t] = p]
        PROVE  /\ at' \in [Creations -> Places] /\ at'[t] = p
               /\ \A c \in Creations \ {t} : at'[c] = at[c]
    BY <2>3 DEF TypeOK, Places
  <2> QED
    BY <2>1, <2>2, <2>3
<1>4. actor[t].record \in Summary
  BY DEF TypeOK
<1>5. TypeOK'
  BY <1>1, <1>2, <1>3, <1>4 DEF TypeOK
<1>6. Known(t) /\ \A u \in Tasks : Known(u)' <=> Known(u)
  BY <1>1 DEF Born, Absent, Known
<1>7. Born'
  BY <1>1, <1>2, <1>6 DEF Born, Absent
<1>8. CallsInOrder'
  <2>1. ASSUME NEW c \in Creations, at'[c] = "creating" PROVE Absent(c)'
    <3>1. at[c] = "creating" /\ Absent(c)
      BY <1>3, <2>1 DEF CallsInOrder
    <3>2. c # t
      BY <1>1, <3>1 DEF Absent
    <3> QED
      BY <1>1, <1>2, <3>1, <3>2 DEF Absent
  <2> QED
    BY <1>1, <1>3, <1>6, <2>1 DEF CallsInOrder, Before, After, Tasks
<1>9. OwnersRegistered'
  BY <1>1, <1>3, <1>6 DEF OwnersRegistered, Before
<1>10. LoopInOrder'
  BY <1>1, <1>6 DEF LoopInOrder, Tasks
<1>11. Claimed'
  <2>1. ASSUME NEW u \in Tasks, NEW b \in Branches, Claims(u, b)' PROVE Claims(u, b)
    BY <1>1, <1>2, <1>3, <2>1 DEF Claims
  <2> QED
    BY <1>1, <2>1 DEF Claimed
<1>12. EntriesApart' /\ Branched'
  BY <1>1 DEF EntriesApart, Branched
<1> QED
  BY <1>5, <1>7, <1>8, <1>9, <1>10, <1>11, <1>12

\* The owner of a branch has an entry there; a branch without one is free.
LEMMA ChooseStep ==
  ASSUME IInv, NEW c \in Creations, Choose(c)
  PROVE  IInv'
<1> USE IndexAssumption DEF IInv, Tasks
<1>a. at[c] = "idle"
  BY DEF Choose
<1> DEFINE Held(b, u) ==
             /\ got' = [got EXCEPT ![c] = [branch |-> b, owner |-> u, summary |-> None]]
             /\ at' = [at EXCEPT ![c] = IF u = None THEN "inserting" ELSE "asking"]
<1>b. \/ \E b \in Branches : Held(b, None)
      \/ \E b \in Branches, u \in Tasks \ {c} : index[u] = b /\ Held(b, u)
      \/ got' = got /\ at' = [at EXCEPT ![c] = "failed"]
  <2>1. wish[c].branch \in Branches
    BY DEF TypeOK
  <2>2. \A b \in Branches : \A u \in Rivals(c, b) : u \in Tasks \ {c} /\ index[u] = b /\ u # None
    BY DEF Rivals
  <2> HIDE DEF Rivals
  <2> QED
    BY <2>1, <2>2 DEF Choose, Goto
<1> HIDE DEF Held
<1>c. ASSUME NEW b \in Branches, NEW u \in Tasks \cup {None}, Held(b, u)
      PROVE  /\ got'[c].branch = b /\ got'[c].owner = u /\ got'[c].summary = None
             /\ \A d \in Creations \ {c} : got'[d] = got[d]
             /\ got' \in [Creations -> Found]
             /\ at'[c] = IF u = None THEN "inserting" ELSE "asking"
             /\ \A d \in Creations \ {c} : at'[d] = at[d]
             /\ at' \in [Creations -> Places]
  <2>1. [branch |-> b, owner |-> u, summary |-> None] \in Found
    BY DEF Found
  <2>2. got' \in [Creations -> Found]
    BY <1>c, <2>1 DEF Held, TypeOK
  <2> QED
    BY <1>c, <2>2 DEF Held, TypeOK, Places
<1>d. /\ at' \in [Creations -> Places]
      /\ at'[c] \in {"asking", "inserting", "failed"}
      /\ \A d \in Creations \ {c} : at'[d] = at[d] /\ got'[d] = got[d]
  <2>1. CASE got' = got /\ at' = [at EXCEPT ![c] = "failed"]
    BY <2>1 DEF TypeOK, Places
  <2>2. CASE \E b \in Branches, u \in Tasks \cup {None} : Held(b, u)
    BY <2>2, <1>c
  <2> QED
    BY <1>b, <2>1, <2>2
<1>e. /\ got' \in [Creations -> Found]
      /\ got'[c].summary = None
      /\ at'[c] \in {"asking", "inserting"} => got'[c].branch \in Branches
      /\ at'[c] = "asking" => /\ got'[c].owner \in Tasks \ {c}
                             /\ index[got'[c].owner] = got'[c].branch
  BY <1>b, <1>c, <1>a DEF TypeOK, Born, Absent, Known, CallsInOrder, Before
<1>f. UNCHANGED <<wish, index, summary, actor, commands, reader, owing, news, touches, loop,
                  pulls, contested, reclaimed, unread, overtaken, unsent>>
  BY DEF Choose, tableVars, taskVars, loopVars, aux
<1>1. TypeOK'
  BY <1>d, <1>e, <1>f DEF TypeOK
<1>2. Born'
  BY <1>d, <1>e, <1>f DEF TypeOK, Born, Absent, Known
<1>3. CallsInOrder'
  BY <1>d, <1>e, <1>f, <1>a DEF TypeOK, Born, CallsInOrder, Absent, Known, Before, After
<1>4. OwnersRegistered'
  <2>1. at'[c] = "asking" => Known(got'[c].owner)
    BY <1>e DEF Known
  <2>2. at'[c] = "asking" => (got'[c].owner \in Creations => at'[got'[c].owner] \notin Before)
    BY <1>d, <1>e, <2>1 DEF CallsInOrder
  <2> QED
    BY <1>a, <1>d, <1>e, <1>f, <2>1, <2>2 DEF OwnersRegistered, Known, Before
<1>5. LoopInOrder'
  BY <1>f DEF LoopInOrder, Known
<1>6. Claimed'
  <2>1. Absent(c) /\ at'[c] # "creating"
    BY <1>d, <1>a DEF Born, CallsInOrder, Before
  <2>2. ASSUME NEW t \in Tasks, NEW b \in Branches, Claims(t, b)' PROVE Claims(t, b)
    <3>1. CASE t # c
      BY <1>d, <1>f, <2>2, <3>1 DEF Claims
    <3>2. CASE t = c
      BY <1>e, <1>f, <2>1, <2>2, <3>2 DEF Claims, Absent, Blank
    <3> QED
      BY <3>1, <3>2
  <2> QED
    BY <1>f, <2>2 DEF Claimed
<1>7. EntriesApart'
  BY <1>f DEF EntriesApart
<1>8. Branched'
  BY <1>f DEF Branched
<1> QED
  BY <1>1, <1>2, <1>3, <1>4, <1>5, <1>6, <1>7, <1>8

\* An entry that is deleted leaves its branch contested.
LEMMA AskOwnerStep ==
  ASSUME IInv, NEW c \in Creations, AskOwner(c)
  PROVE  IInv'
<1> USE IndexAssumption DEF IInv, Tasks
<1> DEFINE u == got[c].owner
           b == got[c].branch
<1>1. /\ at[c] = "asking" /\ at' \in [Creations -> Places]
      /\ at'[c] \in {"inserting", "failed"}
      /\ \A d \in Creations \ {c} : at'[d] = at[d]
      /\ UNCHANGED <<wish, got, summary, actor, commands, owing, news, touches, loop, pulls,
                     unread, overtaken, unsent>>
  <2>1. at[c] = "asking" /\ \E p \in {"inserting", "failed"} : at' = [at EXCEPT ![c] = p]
    BY DEF AskOwner, Goto
  <2>2. UNCHANGED <<wish, got, summary, actor, commands, owing, news, touches, loop, pulls,
                    unread, overtaken, unsent>>
    BY DEF AskOwner, loopVars
  <2> QED
    BY <2>1, <2>2 DEF TypeOK, Places
<1>2. /\ u \in Tasks /\ b \in Branches /\ index[u] \in {None, b} /\ u # c
      /\ u \in Creations => at[u] \notin Before
      /\ u \in Virtual => Known(u)
  BY <1>1 DEF OwnersRegistered, CallsInOrder, Before
<1> HIDE DEF u, b
<1>3. CASE /\ index' = [index EXCEPT ![u] = None]
           /\ reclaimed' = reclaimed \cup {u} /\ contested' = contested \cup {b}
           /\ reader' = reader
  <2>1. TypeOK'
    BY <1>1, <1>2, <1>3 DEF TypeOK
  <2>2. \A t \in Tasks : Known(t)' <=> Known(t) \/ t = u
    BY <1>2, <1>3 DEF Known, TypeOK
  <2>3. \A t \in Tasks : index'[t] = IF t = u THEN None ELSE index[t]
    BY <1>2, <1>3 DEF TypeOK
  <2>4. Born' /\ CallsInOrder'
    BY <1>1, <1>2, <1>3, <2>2 DEF Born, CallsInOrder, Absent, Before, After
  <2>5. OwnersRegistered'
    BY <1>1, <1>2, <1>3, <2>2, <2>3 DEF OwnersRegistered, Before
  <2>6. LoopInOrder'
    BY <1>1, <1>2, <1>3, <2>2 DEF LoopInOrder
  <2>7. Claimed'
    BY <1>1, <1>2, <1>3, <2>3 DEF Claimed, Claims
  <2>8. EntriesApart' /\ Branched'
    BY <1>1, <1>2, <1>3, <2>3 DEF EntriesApart, Branched
  <2> QED
    BY <2>1, <2>4, <2>5, <2>6, <2>7, <2>8
<1>4. CASE actor[u].state # "none" /\ Asked(u) /\ UNCHANGED <<index, reclaimed, contested>>
  <2>1. TypeOK'
    BY <1>1, <1>2, <1>4, AskedType DEF TypeOK
  <2>2. ~Absent(u)
    BY <1>4 DEF Absent
  <2>3. \A t \in Tasks : t # u => reader'[t] = reader[t]
    BY <1>4 DEF Asked, TypeOK
  <2>4. reader'[u].state = "read" => reader[u].state = "read" /\ reader'[u] = reader[u]
    BY <1>2, <1>4 DEF Asked, TypeOK
  <2>5. Born' /\ CallsInOrder'
    BY <1>1, <1>2, <1>4, <2>2, <2>3 DEF Born, CallsInOrder, Absent, Known, Before, After
  <2>6. OwnersRegistered' /\ LoopInOrder'
    BY <1>1, <1>4 DEF OwnersRegistered, LoopInOrder, Known, Before
  <2>7. Claimed'
    BY <1>1, <1>2, <1>4, <2>3, <2>4 DEF Claimed, Claims
  <2>8. EntriesApart' /\ Branched'
    BY <1>1, <1>2, <1>4, <2>3, <2>4 DEF EntriesApart, Branched
  <2> QED
    BY <2>1, <2>5, <2>6, <2>7, <2>8
<1> QED
  BY <1>3, <1>4 DEF AskOwner, u, b

\* A second entry on a branch makes it contested.
LEMMA InsertStep ==
  ASSUME IInv, NEW c \in Creations, Insert(c)
  PROVE  IInv'
<1> USE IndexAssumption DEF IInv, Tasks
<1>a. /\ at[c] = "inserting" /\ got[c].branch \in Branches
      /\ at' = [at EXCEPT ![c] = "creating"]
      /\ UNCHANGED <<wish, got, summary, actor, commands, reader, owing, news, touches, loop,
                     pulls, reclaimed, unread, overtaken, unsent>>
  BY DEF Insert, Goto, taskVars, loopVars, CallsInOrder
<1>b. /\ index' = [index EXCEPT ![c] = got[c].branch]
      /\ contested' \in SUBSET Branches /\ contested \subseteq contested'
      /\ \A u \in Tasks \ {c} : index[u] = got[c].branch => got[c].branch \in contested'
  BY <1>a DEF Insert, Contest, Rivals, TypeOK
<1>c. /\ ~Known(c) /\ Known(c)'
      /\ \A t \in Tasks \ {c} : index'[t] = index[t] /\ (Known(t)' <=> Known(t))
  BY <1>a, <1>b DEF Known, TypeOK, CallsInOrder, Before
<1>1. TypeOK'
  BY <1>a, <1>b DEF TypeOK, Places
<1>2. Born'
  BY <1>a, <1>c DEF Born, Absent
<1>3. CallsInOrder'
  BY <1>a, <1>b, <1>c DEF TypeOK, CallsInOrder, Born, Absent, Before, After
<1>4. OwnersRegistered'
  BY <1>a, <1>b, <1>c DEF OwnersRegistered, TypeOK, Before
<1>5. LoopInOrder'
  BY <1>a, <1>c DEF LoopInOrder
<1>6. Claimed'
  <2>1. ASSUME NEW t \in Tasks, NEW b \in Branches, Claims(t, b)'
        PROVE  index'[t] = b \/ b \in contested'
    <3>1. CASE t = c
      <4>1. Absent(c)
        BY <1>c DEF Born
      <4>2. got[c].branch = b
        BY <1>a, <2>1, <3>1, <4>1 DEF Claims, Absent, Blank, TypeOK, LoopInOrder
      <4> QED
        BY <1>b, <3>1, <4>2 DEF TypeOK
    <3>2. CASE t # c
      <4>1. Claims(t, b)
        BY <1>a, <2>1, <3>2 DEF Claims, TypeOK
      <4> QED
        BY <1>b, <1>c, <3>2, <4>1 DEF Claimed
    <3> QED
      BY <3>1, <3>2
  <2> QED
    BY <2>1 DEF Claimed
<1>7. EntriesApart'
  BY <1>a, <1>b DEF EntriesApart
<1>8. Branched'
  BY <1>a DEF Branched
<1> QED
  BY <1>1, <1>2, <1>3, <1>4, <1>5, <1>6, <1>7, <1>8

\* A call that fails to make the actor leaves nothing.
LEMMA CreateActorStep ==
  ASSUME IInv, NEW c \in Creations, CreateActor(c)
  PROVE  IInv'
<1> USE IndexAssumption DEF IInv, Tasks
<1>1. /\ at[c] = "creating" /\ Absent(c) /\ Known(c) /\ got[c].branch \in Branches
      /\ UNCHANGED <<wish, got, summary, reader, owing, news, touches, loop, pulls, contested,
                     reclaimed, unread, overtaken, unsent>>
  BY DEF CreateActor, CallsInOrder, After, loopVars, aux
<1>2. CASE /\ actor' = [actor EXCEPT ![c].state = "empty"] /\ commands' = commands \cup {c}
           /\ at' = [at EXCEPT ![c] = "initializing"] /\ index' = index
  <2>1. /\ actor' \in [Tasks -> [state : {"none", "empty", "record"}, record : Summary]]
        /\ \A t \in Tasks : actor'[t].record = actor[t].record
        /\ \A t \in Tasks \ {c} : actor'[t] = actor[t]
        /\ actor'[c].state = "empty"
    BY <1>2 DEF TypeOK
  <2>2. TypeOK'
    BY <1>1, <1>2, <2>1 DEF TypeOK, Places
  <2>3. Born' /\ CallsInOrder'
    BY <1>1, <1>2, <2>1 DEF TypeOK, Born, CallsInOrder, Absent, Known, Before, After
  <2>4. OwnersRegistered' /\ LoopInOrder'
    BY <1>1, <1>2 DEF TypeOK, OwnersRegistered, LoopInOrder, Known, Before
  <2>5. Claimed'
    BY <1>1, <1>2, <2>1 DEF TypeOK, Claimed, Claims
  <2>6. EntriesApart' /\ Branched'
    BY <1>1, <1>2, <2>1 DEF EntriesApart, Branched
  <2> QED
    BY <2>2, <2>3, <2>4, <2>5, <2>6
<1>3. CASE /\ index' = [index EXCEPT ![c] = None] /\ at' = [at EXCEPT ![c] = "failed"]
           /\ UNCHANGED <<actor, commands>>
  <2>1. TypeOK'
    BY <1>1, <1>3 DEF TypeOK, Places
  <2>2. \A t \in Tasks : index'[t] = IF t = c THEN None ELSE index[t]
    BY <1>3 DEF TypeOK
  <2>3. Born' /\ CallsInOrder'
    BY <1>1, <1>3, <2>2 DEF TypeOK, Born, CallsInOrder, Absent, Known, Before, After
  <2>4. OwnersRegistered' /\ LoopInOrder'
    BY <1>1, <1>3, <2>2 DEF TypeOK, OwnersRegistered, LoopInOrder, Known, Before
  <2>5. ASSUME NEW t \in Tasks, NEW b \in Branches, Claims(t, b)'
        PROVE  index'[t] = b \/ b \in contested'
    <3>1. t # c
      BY <1>1, <1>3, <2>5 DEF Absent, Claims, Blank, TypeOK, LoopInOrder
    <3>2. Claims(t, b)
      BY <1>1, <1>3, <2>5, <3>1 DEF Claims, TypeOK
    <3> QED
      BY <1>1, <2>2, <3>1, <3>2 DEF Claimed
  <2>6. EntriesApart' /\ Branched'
    BY <1>1, <1>3, <2>2 DEF EntriesApart, Branched
  <2> QED
    BY <2>1, <2>3, <2>4, <2>5, <2>6 DEF Claimed
<1> QED
  BY <1>2, <1>3 DEF CreateActor, Goto

\* The command carries the branch of the entry.
LEMMA InitializeStep ==
  ASSUME IInv, NEW c \in Creations, Initialize(c)
  PROVE  IInv'
<1> USE IndexAssumption DEF IInv, Initialize, Write, callVars, tableVars, loopVars, aux, Tasks
<1>1. TypeOK'
  BY DEF TypeOK, Summary, Places, Found
<1>2. Born'
  BY DEF TypeOK, Born, Absent, Known
<1>3. CallsInOrder'
  BY DEF TypeOK, Born, CallsInOrder, Absent, Known, Before, After
<1>4. OwnersRegistered'
  BY DEF TypeOK, OwnersRegistered, Known, Before
<1>5. LoopInOrder'
  BY DEF TypeOK, LoopInOrder, Known
<1>6. Claimed'
  BY DEF TypeOK, Claimed, Claims
<1>7. EntriesApart'
  BY DEF TypeOK, EntriesApart
<1>8. Branched'
  BY DEF TypeOK, Branched, CallsInOrder
<1> QED
  BY <1>1, <1>2, <1>3, <1>4, <1>5, <1>6, <1>7, <1>8

\* A call that gives up leaves the command where it is.
LEMMA InitializeTimesOutStep ==
  ASSUME IInv, NEW c \in Creations, InitializeTimesOut(c)
  PROVE  IInv'
<1> USE IndexAssumption DEF IInv, InitializeTimesOut, Goto, tableVars, taskVars, loopVars, aux, Tasks
<1>1. TypeOK'
  BY DEF TypeOK, Summary, Places
<1>2. Born'
  BY DEF TypeOK, Born, Absent, Known
<1>3. CallsInOrder'
  BY DEF TypeOK, Born, CallsInOrder, Absent, Known, Before, After
<1>4. OwnersRegistered'
  BY DEF TypeOK, OwnersRegistered, Known, Before
<1>5. LoopInOrder'
  BY DEF TypeOK, LoopInOrder, Known
<1>6. Claimed'
  BY DEF TypeOK, Claimed, Claims
<1>7. EntriesApart'
  BY DEF TypeOK, EntriesApart
<1>8. Branched'
  BY DEF TypeOK, Branched
<1> QED
  BY <1>1, <1>2, <1>3, <1>4, <1>5, <1>6, <1>7, <1>8

\* A summary that a call reads has the record's branch.
LEMMA ReadSummaryStep ==
  ASSUME IInv, NEW c \in Creations, ReadSummary(c)
  PROVE  IInv'
<1> USE IndexAssumption DEF IInv, tableVars, taskVars, loopVars, aux, Tasks
<1>a. /\ at[c] = "reading"
      /\ UNCHANGED <<wish, tableVars, taskVars, loopVars, aux>>
  BY DEF ReadSummary
<1>b. /\ got' \in {got, [got EXCEPT ![c].summary = actor[c].record]}
      /\ \E p \in {"writing", "done"} : at' = [at EXCEPT ![c] = p]
  BY DEF ReadSummary, Goto
<1>c. /\ got' \in [Creations -> Found]
      /\ \A d \in Creations : got'[d].branch = got[d].branch /\ got'[d].owner = got[d].owner
      /\ \A d \in Creations \ {c} : got'[d] = got[d]
      /\ got'[c].summary \in {got[c].summary, actor[c].record}
  <2>1. actor[c].record \in Summary /\ got[c] \in Found
    BY DEF TypeOK
  <2>2. /\ [got[c] EXCEPT !.summary = actor[c].record] \in Found
        /\ [got[c] EXCEPT !.summary = actor[c].record].branch = got[c].branch
        /\ [got[c] EXCEPT !.summary = actor[c].record].owner = got[c].owner
        /\ [got[c] EXCEPT !.summary = actor[c].record].summary = actor[c].record
    BY <2>1 DEF Found
  <2>3. got \in [Creations -> Found]
    BY DEF TypeOK
  <2>4. CASE got' = got
    BY <2>3, <2>4
  <2>5. CASE got' = [got EXCEPT ![c] = [got[c] EXCEPT !.summary = actor[c].record]]
    <3> DEFINE x == [got[c] EXCEPT !.summary = actor[c].record]
    <3>1. /\ x \in Found /\ x.branch = got[c].branch /\ x.owner = got[c].owner
          /\ x.summary = actor[c].record /\ got' = [got EXCEPT ![c] = x]
      BY <2>2, <2>5
    <3> HIDE DEF x
    <3> QED
      BY <2>3, <3>1
  <2> QED
    BY <1>b, <2>4, <2>5
<1>d. /\ at' \in [Creations -> Places] /\ at'[c] \in {"writing", "done"}
      /\ \A d \in Creations \ {c} : at'[d] = at[d]
  BY <1>b DEF TypeOK, Places
<1>1. TypeOK'
  BY <1>a, <1>c, <1>d DEF TypeOK
<1>2. Born'
  <2>1. Known(c)
    BY <1>a DEF CallsInOrder, After
  <2>2. \A u \in Tasks : (Known(u)' <=> Known(u)) /\ (u # c /\ Absent(u) => Absent(u)')
    BY <1>a, <1>c DEF Known, Absent, tableVars, taskVars, aux
  <2> QED
    BY <2>1, <2>2 DEF Born
<1>3. CallsInOrder'
  BY <1>a, <1>c, <1>d DEF TypeOK, Born, CallsInOrder, Absent, Known, Before, After
<1>4. OwnersRegistered'
  BY <1>a, <1>c, <1>d DEF TypeOK, OwnersRegistered, Known, Before
<1>5. LoopInOrder'
  BY <1>a DEF TypeOK, LoopInOrder, Known
<1>6. Claimed'
  <2>1. ASSUME NEW u \in Tasks, NEW b \in Branches, Claims(u, b)' PROVE Claims(u, b)
    BY <1>a, <1>c, <1>d, <2>1 DEF Claims
  <2> QED
    BY <1>a, <2>1 DEF Claimed
<1>7. EntriesApart'
  BY <1>a DEF TypeOK, EntriesApart
<1>8. Branched'
  BY <1>a DEF TypeOK, Branched
<1> QED
  BY <1>1, <1>2, <1>3, <1>4, <1>5, <1>6, <1>7, <1>8

\* It is written as it was read.
LEMMA WriteSummaryStep ==
  ASSUME IInv, NEW c \in Creations, WriteSummary(c)
  PROVE  IInv'
<1> USE IndexAssumption DEF IInv, Tasks
<1>a. /\ at[c] = "writing"
      /\ summary' = [summary EXCEPT ![c] = got[c].summary]
      /\ got' = [got EXCEPT ![c].summary = None]
      /\ \E p \in {"reading", "done"} : at' = [at EXCEPT ![c] = p]
      /\ UNCHANGED <<wish, index, actor, commands, reader, owing, news, touches, loop, pulls,
                     contested, reclaimed, unread, unsent>>
  BY DEF WriteSummary, Upsert, Goto, taskVars, loopVars
<1>b. /\ got' \in [Creations -> Found]
      /\ \A d \in Creations : got'[d].branch = got[d].branch /\ got'[d].owner = got[d].owner
      /\ \A d \in Creations \ {c} : got'[d] = got[d]
      /\ got'[c].summary = None
  <2>1. [got[c] EXCEPT !.summary = None] \in Found
    <3>1. got[c] \in Found
      BY DEF TypeOK
    <3> QED
      BY <3>1 DEF Found
  <2> QED
    BY <1>a, <2>1 DEF TypeOK, Found
<1>c. /\ at' \in [Creations -> Places] /\ at'[c] \in {"reading", "done"}
      /\ \A d \in Creations \ {c} : at'[d] = at[d]
  BY <1>a DEF TypeOK, Places
<1>1. TypeOK'
  <2>1. summary' \in [Tasks -> Summary \cup {None}]
    BY <1>a DEF TypeOK, Found
  <2>2. overtaken' \subseteq Tasks
    BY DEF WriteSummary, Upsert, TypeOK
  <2> QED
    BY <1>a, <1>b, <1>c, <2>1, <2>2 DEF TypeOK
<1>2. Born'
  BY <1>a, <1>b DEF TypeOK, Born, CallsInOrder, Absent, Known, After
<1>3. CallsInOrder'
  BY <1>a, <1>b, <1>c DEF TypeOK, Born, CallsInOrder, Absent, Known, Before, After
<1>4. OwnersRegistered'
  BY <1>a, <1>b, <1>c DEF TypeOK, OwnersRegistered, Known, Before
<1>5. LoopInOrder'
  BY <1>a DEF TypeOK, LoopInOrder, Known
<1>6. Claimed'
  <2>1. summary'[c] = got[c].summary /\ \A u \in Tasks \ {c} : summary'[u] = summary[u]
    BY <1>a DEF TypeOK
  <2>2. ASSUME NEW u \in Tasks, NEW b \in Branches, Claims(u, b)' PROVE Claims(u, b)
    BY <1>a, <1>b, <1>c, <2>1, <2>2 DEF Claims
  <2> QED
    BY <1>a, <2>2 DEF Claimed
<1>7. EntriesApart'
  BY <1>a DEF TypeOK, EntriesApart
<1>8. Branched'
  BY <1>a DEF TypeOK, Branched
<1> QED
  BY <1>1, <1>2, <1>3, <1>4, <1>5, <1>6, <1>7, <1>8

\* A summary that arrives is written as it was sent.
LEMMA ApplyStep ==
  ASSUME IInv, NEW n \in news, Apply(n)
  PROVE  IInv'
<1> USE IndexAssumption DEF IInv, Apply, Upsert, callVars, loopVars, Tasks
<1>1. TypeOK'
  BY DEF TypeOK, Summary
<1>2. Born'
  BY DEF TypeOK, Born, Absent, Known
<1>3. CallsInOrder'
  BY DEF TypeOK, Born, CallsInOrder, Absent, Known, Before, After
<1>4. OwnersRegistered'
  BY DEF TypeOK, OwnersRegistered, Known, Before
<1>5. LoopInOrder'
  BY DEF TypeOK, LoopInOrder, Known
<1>6. Claimed'
  BY DEF TypeOK, Claimed, Claims
<1>7. EntriesApart'
  BY DEF TypeOK, EntriesApart
<1>8. Branched'
  BY DEF TypeOK, Branched
<1> QED
  BY <1>1, <1>2, <1>3, <1>4, <1>5, <1>6, <1>7, <1>8

\* A virtual task is one that has no entry and never had.
LEMMA PullRequestStep ==
  ASSUME IInv, NEW b \in Branches, PullRequest(b)
  PROVE  IInv'
<1> USE IndexAssumption DEF IInv, PullRequest, callVars, tableVars, taskVars, aux, Tasks
<1>1. TypeOK'
  BY DEF TypeOK, Summary
<1>2. Born'
  BY DEF TypeOK, Born, Absent, Known
<1>3. CallsInOrder'
  BY DEF TypeOK, Born, CallsInOrder, Absent, Known, Before, After
<1>4. OwnersRegistered'
  BY DEF TypeOK, OwnersRegistered, Known, Before
<1>5. LoopInOrder'
  BY DEF TypeOK, LoopInOrder, Known
<1>6. Claimed'
  BY DEF TypeOK, Claimed, Claims
<1>7. EntriesApart'
  BY DEF TypeOK, EntriesApart
<1>8. Branched'
  BY DEF TypeOK, Branched
<1> QED
  BY <1>1, <1>2, <1>3, <1>4, <1>5, <1>6, <1>7, <1>8

\* A virtual task's entry is inserted first and its summary then.
LEMMA StoreVirtualStep ==
  ASSUME IInv, StoreVirtual
  PROVE  IInv'
<1> USE IndexAssumption DEF IInv, Tasks
<1> DEFINE v == loop.task
           b == loop.branch
<1>1. /\ v \in Virtual /\ b \in Branches /\ loop.at # "idle"
      /\ UNCHANGED <<wish, at, got, actor, commands, reader, owing, news, touches, pulls,
                     reclaimed, unread, overtaken, unsent>>
  BY DEF StoreVirtual, LoopInOrder, callVars, taskVars
<1>2. loop = [at |-> loop.at, task |-> v, branch |-> b]
  BY DEF TypeOK
<1> HIDE DEF v, b
<1>3. CASE /\ loop.at = "indexing" /\ index' = [index EXCEPT ![v] = b]
           /\ Contest(v, b) /\ loop' = [loop EXCEPT !.at = "listing"]
           /\ summary' = summary
  <2>1. /\ contested' \in SUBSET Branches /\ contested \subseteq contested'
        /\ \A u \in Tasks \ {v} : index[u] = b => b \in contested'
    BY <1>1, <1>3 DEF Contest, Rivals, TypeOK
  <2>2. /\ \A t \in Tasks : index'[t] = IF t = v THEN b ELSE index[t]
        /\ loop' = [at |-> "listing", task |-> v, branch |-> b]
    BY <1>1, <1>2, <1>3 DEF TypeOK
  <2>3. ~Known(v) /\ Absent(v)
    BY <1>1, <1>3 DEF LoopInOrder, Born, v
  <2>4. TypeOK'
    BY <1>1, <1>3, <2>1, <2>2 DEF TypeOK
  <2>5. Born' /\ CallsInOrder'
    BY <1>1, <1>3, <2>2 DEF TypeOK, Born, CallsInOrder, Absent, Known, Before, After
  <2>6. OwnersRegistered' /\ LoopInOrder'
    BY <1>1, <1>3, <2>2, <2>3 DEF TypeOK, OwnersRegistered, LoopInOrder, Known, Before
  <2>7. ASSUME NEW t \in Tasks, NEW x \in Branches, Claims(t, x)'
        PROVE  index'[t] = x \/ x \in contested'
    <3>1. CASE t = v
      BY <1>1, <1>3, <2>2, <2>3, <2>7, <3>1 DEF Claims, Absent, Blank
    <3>2. CASE t # v
      <4>1. Claims(t, x)
        BY <1>1, <1>3, <2>2, <2>7, <3>2 DEF Claims
      <4> QED
        BY <2>1, <2>2, <3>2, <4>1 DEF Claimed
    <3> QED
      BY <3>1, <3>2
  <2>8. EntriesApart' /\ Branched'
    BY <1>1, <1>3, <2>1, <2>2 DEF EntriesApart, Branched
  <2> QED
    BY <2>4, <2>5, <2>6, <2>7, <2>8 DEF Claimed
<1>4. CASE /\ loop.at = "listing"
           /\ summary' = [summary EXCEPT ![v] = [branch |-> b, version |-> 0]]
           /\ loop' = Free /\ UNCHANGED <<index, contested>>
  <2>1. Known(v)
    BY <1>4 DEF LoopInOrder, v
  <2>2. TypeOK'
    BY <1>1, <1>4 DEF TypeOK, Summary, Free
  <2>3. Born' /\ CallsInOrder'
    BY <1>1, <1>4, <2>1 DEF TypeOK, Born, CallsInOrder, Absent, Known, Before, After
  <2>4. OwnersRegistered' /\ LoopInOrder'
    BY <1>1, <1>4 DEF OwnersRegistered, LoopInOrder, Known, Before, Free
  <2>5. Claimed'
    BY <1>1, <1>2, <1>4 DEF TypeOK, Claimed, Claims, Free
  <2>6. EntriesApart' /\ Branched'
    BY <1>1, <1>4 DEF EntriesApart, Branched
  <2> QED
    BY <2>2, <2>3, <2>4, <2>5, <2>6
<1> QED
  BY <1>3, <1>4 DEF StoreVirtual, v, b

-----------------------------------------------------------------------------

LEMMA NextHolds == IInv /\ [Next]_vars => IInv'
<1> SUFFICES ASSUME IInv, [Next]_vars PROVE IInv'
  OBVIOUS
<1>1. CASE UNCHANGED vars
  BY <1>1 DEF vars, callVars, tableVars, taskVars, loopVars, aux, IInv, TypeOK, Born,
     CallsInOrder, OwnersRegistered, LoopInOrder, Claimed, EntriesApart, Branched,
     Absent, Known, Claims
<1>2. ASSUME NEW c \in Creations, Choose(c) \/ Create(c) \/ InitializeTimesOut(c)
      PROVE  IInv'
  BY <1>2, ChooseStep, AskOwnerStep, InsertStep, CreateActorStep, ReadSummaryStep,
     WriteSummaryStep, InitializeTimesOutStep DEF Create
<1>3. ASSUME NEW t \in Tasks, Work(t) \/ View(t) \/ Touch(t)
      PROVE  IInv'
  BY <1>3, ReadEntryStep, WriteEntryStep, BroadcastStep, InitializeStep, ViewStep, TouchStep
  DEF Work
<1>4. ASSUME NEW n \in news, Apply(n) PROVE IInv'
  BY <1>4, ApplyStep
<1>5. ASSUME NEW b \in Branches, PullRequest(b) PROVE IInv'
  BY <1>5, PullRequestStep
<1>6. CASE StoreVirtual
  BY <1>6, StoreVirtualStep
<1> QED
  BY <1>1, <1>2, <1>3, <1>4, <1>5, <1>6 DEF Next, Loop

\* The invariant: every copy of a task's branch agrees with its entry, or the branch
\* is contested (createTaskMutation, registerTaskBranchMutation, getCurrentRecord,
\* refreshTaskSummaryForBranchMutation).
THEOREM IndexInvariant == Spec => []IInv
  BY InitHolds, NextHolds, PTL DEF Spec

\* For any number of calls, pull requests, changes and branches, two tasks are listed
\* or work on one branch only where a check was passed by another insertion or an
\* entry was taken for stale.
THEOREM BranchesHaveOneTask == Spec => []OneTaskPerBranch
<1>1. IInv => OneTaskPerBranch
  BY IndexAssumption DEF IInv, OneTaskPerBranch, Holds, Claimed, Claims, EntriesApart, Tasks
<1> QED
  BY <1>1, IndexInvariant, PTL

\* A task that initialises itself when it is opened finds its branch, unless its entry
\* was deleted or could not be read.
THEOREM OpensWithBranch == Spec => []OpenedWithBranch
<1>1. IInv => OpenedWithBranch
  BY DEF IInv, Branched, OpenedWithBranch
<1> QED
  BY <1>1, IndexInvariant, PTL

-----------------------------------------------------------------------------
(* The list of the tasks.                                                   *)

\* The copies of a task's record that are kept or on their way.
Copy(t, s) ==
    \/ summary[t] = s
    \/ [task |-> t, summary |-> s] \in news
    \/ t \in Creations /\ got[t].summary = s

\* None is newer than the record, and none as new differs from it.
Versions ==
    \A t \in Tasks :
        /\ actor[t].state = "record" => actor[t].record.version # 0
        /\ \A s \in Summary : Copy(t, s) =>
              /\ s.version <= actor[t].record.version
              /\ actor[t].state = "record" /\ s.version = actor[t].record.version
                    => s = actor[t].record

\* Nobody makes anything of a virtual task before the loop has listed it.
LoopAbsent == loop.at # "idle" => Absent(loop.task)

\* A call has read a summary before it writes one.
Read == \A c \in Creations : at[c] = "writing" => got[c].summary \in Summary

ListInv == IInv /\ Versions /\ LoopAbsent /\ ListedAsIs /\ Read
\* A step that only forgets copies.
LEMMA QuietList ==
  ASSUME ListInv, UNCHANGED <<summary, owing, news, overtaken, unsent>>,
         \A t \in Tasks : /\ actor'[t].record = actor[t].record
                          /\ actor'[t].state = "record" => actor[t] = actor'[t],
         \A c \in Creations : got'[c].summary \in {None, got[c].summary}
  PROVE  Versions' /\ ListedAsIs'
<1>1. \A t \in Tasks, s \in Summary : Copy(t, s)' => Copy(t, s)
  BY NoneAssumption DEF Copy
<1> QED
  BY <1>1 DEF ListInv, Versions, ListedAsIs

\* What a task writes is newer than all that was copied from it, and is to be sent.
LEMMA WriteList ==
  ASSUME ListInv, NEW t \in Tasks, NEW b \in Branches \cup {None}, Write(t, b),
         UNCHANGED <<summary, got, news, overtaken, unsent>>
  PROVE  Versions' /\ ListedAsIs'
<1> DEFINE record == [branch |-> b, version |-> actor[t].record.version + 1]
<1>1. /\ actor \in [Tasks -> [state : {"none", "empty", "record"}, record : Summary]]
      /\ actor[t].record.version \in Nat
  BY DEF ListInv, IInv, TypeOK, Summary
<1>2. /\ actor'[t] = [state |-> "record", record |-> record]
      /\ \A u \in Tasks \ {t} : actor'[u] = actor[u]
      /\ owing' = owing \cup {t}
  BY <1>1 DEF Write
<1>3. record.version = actor[t].record.version + 1
  BY <1>1
<1> HIDE DEF record
<1>4. \A u \in Tasks, s \in Summary : Copy(u, s)' => Copy(u, s)
  BY DEF Copy
<1>5. \A s \in Summary : s.version \in Nat
  BY DEF Summary
<1>6. Versions'
  BY <1>1, <1>2, <1>3, <1>4, <1>5 DEF ListInv, Versions
<1>7. ListedAsIs'
  BY <1>2 DEF ListInv, ListedAsIs
<1> QED
  BY <1>6, <1>7

\* What is sent is the record; what is not sent counts as unsent.
LEMMA BroadcastList ==
  ASSUME ListInv, NEW t \in Tasks, Broadcast(t)
  PROVE  Versions' /\ ListedAsIs'
<1> DEFINE n == [task |-> t, summary |-> actor[t].record]
<1>1. /\ owing' = owing \ {t} /\ UNCHANGED <<got, summary, actor, overtaken>>
      /\ \/ news' = news \cup {n} /\ unsent' = unsent \ {t}
         \/ news' = news /\ unsent' = unsent \cup {t}
  BY DEF Broadcast, tableVars
<1>2. actor[t].record \in Summary /\ n.task = t /\ n.summary = actor[t].record
  BY DEF ListInv, IInv, TypeOK
<1>3. \A u \in Tasks, s \in Summary :
         Copy(u, s)' => Copy(u, s) \/ (u = t /\ s = actor[t].record)
  BY <1>1, <1>2 DEF Copy
<1>4. actor[t].record.version <= actor[t].record.version
  BY <1>2 DEF Summary
<1>5. Versions'
  BY <1>1, <1>3, <1>4 DEF ListInv, Versions
<1>6. ListedAsIs'
  BY <1>1 DEF ListInv, ListedAsIs
<1> QED
  BY <1>5, <1>6

\* A copy that is written is the newest one, or the task counts as overtaken.
LEMMA UpsertList ==
  ASSUME ListInv, NEW t \in Tasks, NEW s \in Summary, Copy(t, s), Upsert(t, s),
         UNCHANGED <<actor, owing, unsent>>,
         \A c \in Creations : got'[c].summary \in {None, got[c].summary},
         news' \in {news, news \ {[task |-> t, summary |-> s]}}
  PROVE  Versions' /\ ListedAsIs'
<1>1. /\ summary \in [Tasks -> Summary \cup {None}]
      /\ actor[t].record \in Summary
  BY DEF ListInv, IInv, TypeOK
<1>2. /\ summary'[t] = s /\ \A u \in Tasks \ {t} : summary'[u] = summary[u]
      /\ \A u \in Tasks \ {t} : u \in overtaken' <=> u \in overtaken
  BY <1>1 DEF Upsert
<1>3. \A u \in Tasks, r \in Summary : Copy(u, r)' => Copy(u, r)
  BY <1>2, NoneAssumption DEF Copy
<1>4. Versions'
  BY <1>3 DEF ListInv, Versions
<1>5. ASSUME actor[t].state = "record", t \notin overtaken', t \notin unsent, t \notin owing,
             s # actor[t].record
      PROVE  [task |-> t, summary |-> actor[t].record] \in news'
  <2>1. t \notin overtaken /\ (summary[t] = None \/ ~ (s.version < summary[t].version))
    BY <1>5 DEF Upsert
  <2>2. s.version \in Nat /\ actor[t].record.version \in Nat
    BY <1>1 DEF Summary
  <2>3. s.version < actor[t].record.version
    BY <1>5, <2>2 DEF ListInv, Versions
  <2>4. summary[t] # actor[t].record
    BY <1>1, <2>1, <2>2, <2>3, NoneAssumption
  <2>5. [task |-> t, summary |-> actor[t].record] \in news
    BY <1>5, <2>1, <2>4 DEF ListInv, ListedAsIs
  <2>6. [task |-> t, summary |-> actor[t].record] # [task |-> t, summary |-> s]
    BY <1>5
  <2> QED
    BY <2>5, <2>6
<1>6. ASSUME NEW u \in Tasks \ {t}, [task |-> u, summary |-> actor[u].record] \in news
      PROVE  [task |-> u, summary |-> actor[u].record] \in news'
  BY <1>6
<1>7. ListedAsIs'
  BY <1>2, <1>5, <1>6 DEF ListInv, ListedAsIs
<1> QED
  BY <1>4, <1>7

LEMMA ListInit == Init => ListInv
<1> SUFFICES ASSUME Init PROVE ListInv
  OBVIOUS
<1>1. Versions
  BY NoneAssumption DEF Init, Versions, Copy
<1>2. LoopAbsent /\ ListedAsIs /\ Read
  BY DEF Init, LoopAbsent, ListedAsIs, Read, Free
<1> QED
  BY <1>1, <1>2, InitHolds DEF ListInv

\* The steps of createTask.
LEMMA CreateList ==
  ASSUME ListInv, NEW c \in Creations, Choose(c) \/ Create(c) \/ InitializeTimesOut(c)
  PROVE  Versions' /\ ListedAsIs' /\ Read'
<1>1. /\ actor \in [Tasks -> [state : {"none", "empty", "record"}, record : Summary]]
      /\ got \in [Creations -> Found] /\ at \in [Creations -> Places] /\ c \in Tasks
  BY DEF ListInv, IInv, TypeOK, Tasks
<1>2. CASE Choose(c)
  <2>1. UNCHANGED <<summary, owing, news, overtaken, unsent, actor>>
    BY <1>2 DEF Choose, tableVars, taskVars, aux
  <2>2. \A d \in Creations : got'[d].summary \in {None, got[d].summary}
    BY <1>1, <1>2 DEF Choose
  <2>3. Read'
    <3>1. \A d \in Creations \ {c} : at'[d] = at[d] /\ got'[d] = got[d]
      BY <1>1, <1>2 DEF Choose, Goto
    <3>2. at'[c] # "writing"
      BY <1>1, <1>2 DEF Choose, Goto
    <3> QED
      BY <3>1, <3>2 DEF ListInv, Read
  <2> QED
    BY <2>1, <2>2, <2>3, QuietList
<1>3. CASE AskOwner(c) \/ Insert(c) \/ CreateActor(c) \/ InitializeTimesOut(c)
  <2>1. UNCHANGED <<summary, owing, news, overtaken, unsent, got>>
    BY <1>3 DEF AskOwner, Insert, CreateActor, InitializeTimesOut, tableVars, taskVars, aux
  <2>2. \A t \in Tasks : /\ actor'[t].record = actor[t].record
                         /\ actor'[t].state = "record" => actor[t] = actor'[t]
    BY <1>1, <1>3 DEF AskOwner, Insert, CreateActor, InitializeTimesOut, tableVars, taskVars, aux
  <2>3. \A d \in Creations : at'[d] = "writing" => at[d] = "writing"
    BY <1>1, <1>3 DEF AskOwner, Insert, CreateActor, InitializeTimesOut, Goto
  <2> QED
    BY <2>1, <2>2, <2>3, QuietList DEF ListInv, Read
<1>4. CASE ReadSummary(c) /\ got' = got
  <2>1. UNCHANGED <<summary, owing, news, overtaken, unsent, actor, got>>
    BY <1>4 DEF ReadSummary, tableVars, taskVars, aux
  <2>2. got[c].summary = actor[c].record \/ at' = [at EXCEPT ![c] = "done"]
    BY <1>1, <1>4 DEF ReadSummary, Goto, Found
  <2>3. Read'
    <3>1. actor[c].record \in Summary
      BY <1>1
    <3>2. \A d \in Creations \ {c} : at'[d] = at[d]
      BY <1>1, <1>4 DEF ReadSummary, Goto
    <3>3. at'[c] = "writing" => got[c].summary \in Summary
      BY <1>1, <2>2, <3>1
    <3> QED
      BY <1>4, <3>2, <3>3 DEF ListInv, Read
  <2> QED
    BY <2>1, <2>3, QuietList
<1>5. CASE ReadSummary(c) /\ got' # got
  <2>1. /\ UNCHANGED <<summary, owing, news, overtaken, unsent, actor>>
        /\ got' = [got EXCEPT ![c].summary = actor[c].record]
        /\ at' = [at EXCEPT ![c] = "writing"]
    BY <1>5 DEF ReadSummary, Goto, tableVars, taskVars, aux
  <2>2. /\ got'[c].summary = actor[c].record /\ actor[c].record \in Summary
        /\ \A d \in Creations \ {c} : got'[d] = got[d] /\ at'[d] = at[d]
    BY <1>1, <2>1 DEF Found
  <2>3. \A t \in Tasks, s \in Summary :
           Copy(t, s)' => Copy(t, s) \/ (t = c /\ s = actor[c].record)
    BY <2>1, <2>2 DEF Copy
  <2>4. actor[c].record.version <= actor[c].record.version
    BY <2>2 DEF Summary
  <2>5. Versions'
    BY <2>1, <2>3, <2>4 DEF ListInv, Versions
  <2>6. ListedAsIs'
    BY <2>1 DEF ListInv, ListedAsIs
  <2>7. Read'
    BY <2>2 DEF ListInv, Read
  <2> QED
    BY <2>5, <2>6, <2>7
<1>6. CASE WriteSummary(c)
  <2>1. /\ at[c] = "writing" /\ Upsert(c, got[c].summary)
        /\ UNCHANGED <<actor, owing, news, unsent>>
        /\ at'[c] # "writing" /\ \A d \in Creations \ {c} : at'[d] = at[d]
    BY <1>1, <1>6 DEF WriteSummary, taskVars, Goto
  <2>4. /\ got'[c].summary = None
        /\ \A d \in Creations \ {c} : got'[d] = got[d]
    BY <1>1, <1>6 DEF WriteSummary, Found
  <2>2. got[c].summary \in Summary /\ Copy(c, got[c].summary)
    BY <2>1 DEF ListInv, Read, Copy
  <2>3. Versions' /\ ListedAsIs'
    <3> DEFINE s == got[c].summary
    <3>1. s \in Summary /\ Copy(c, s) /\ Upsert(c, s)
      BY <2>1, <2>2
    <3> HIDE DEF s
    <3> QED
      BY <1>1, <2>1, <2>4, <3>1, UpsertList
  <2> QED
    BY <2>1, <2>3, <2>4 DEF ListInv, Read
<1> QED
  BY <1>2, <1>3, <1>4, <1>5, <1>6 DEF Create

\* The steps of the tasks.
LEMMA TaskList ==
  ASSUME ListInv, NEW t \in Tasks, Work(t) \/ View(t) \/ Touch(t)
  PROVE  Versions' /\ ListedAsIs' /\ Read'
<1>1. /\ actor \in [Tasks -> [state : {"none", "empty", "record"}, record : Summary]]
      /\ reader[t].branch \in Branches \cup {None}
      /\ actor[t].record.branch \in Branches \cup {None}
      /\ t \in Creations => got[t].branch \in Branches \cup {None}
      /\ at \in [Creations -> Places]
  BY DEF ListInv, IInv, TypeOK, Summary, Found
<1>2. UNCHANGED <<got, summary, overtaken>>
  BY DEF Work, ReadEntry, WriteEntry, Broadcast, Initialize, View, Touch, callVars, tableVars, aux
<1>3. Read'
  <2>1. at' = at \/ \E p \in {"reading", "failed"} : at' = [at EXCEPT ![t] = p]
    BY DEF Work, ReadEntry, WriteEntry, Broadcast, Answered, Goto, Initialize, View, Touch,
       callVars
  <2>2. \A d \in Creations : at'[d] = "writing" => at[d] = "writing"
    BY <1>1, <2>1
  <2> QED
    BY <1>2, <2>2 DEF ListInv, Read
<1>4. CASE ReadEntry(t) \/ View(t)
  <2>1. UNCHANGED <<owing, news, unsent>>
    BY <1>4 DEF ReadEntry, View, aux
  <2>2. \A u \in Tasks : /\ actor'[u].record = actor[u].record
                         /\ actor'[u].state = "record" => actor[u] = actor'[u]
    BY <1>1, <1>4 DEF ReadEntry, View
  <2> QED
    BY <1>2, <1>3, <2>1, <2>2, QuietList
<1>5. CASE WriteEntry(t)
  BY <1>1, <1>2, <1>3, <1>5, WriteList DEF WriteEntry, aux
<1>6. CASE Touch(t)
  BY <1>1, <1>2, <1>3, <1>6, WriteList DEF Touch, aux
<1>7. CASE t \in Creations /\ Initialize(t)
  BY <1>1, <1>2, <1>3, <1>7, WriteList DEF Initialize, aux
<1>8. CASE Broadcast(t)
  BY <1>3, <1>8, BroadcastList
<1> QED
  BY <1>4, <1>5, <1>6, <1>7, <1>8 DEF Work

\* The steps of the organization's loop.
LEMMA LoopList ==
  ASSUME ListInv, Loop \/ \E b \in Branches : PullRequest(b)
  PROVE  Versions' /\ ListedAsIs' /\ Read'
<1>1. UNCHANGED <<at, got, actor, owing, unsent>>
  BY DEF Loop, Apply, PullRequest, StoreVirtual, callVars, taskVars, aux
<1>2. Read'
  BY <1>1 DEF ListInv, Read
<1>3. ASSUME NEW n \in news, Apply(n) PROVE Versions' /\ ListedAsIs'
  <2>1. n \in [task : Tasks, summary : Summary]
    BY DEF ListInv, IInv, TypeOK
  <2>2. n = [task |-> n.task, summary |-> n.summary] /\ n.task \in Tasks /\ n.summary \in Summary
    BY <2>1
  <2>3. Copy(n.task, n.summary)
    BY <2>2 DEF Copy
  <2>4. Upsert(n.task, n.summary) /\ news' = news \ {n}
    BY <1>3 DEF Apply
  <2> DEFINE t == n.task
             s == n.summary
  <2>5. n = [task |-> t, summary |-> s] /\ t \in Tasks /\ s \in Summary
        /\ Copy(t, s) /\ Upsert(t, s)
    BY <2>2, <2>3, <2>4
  <2> HIDE DEF t, s
  <2> QED
    BY <1>1, <2>4, <2>5, UpsertList
<1>4. ASSUME NEW b \in Branches, PullRequest(b) PROVE Versions' /\ ListedAsIs'
  <2>1. UNCHANGED <<summary, news, overtaken>>
    BY <1>4 DEF PullRequest, tableVars, taskVars, aux
  <2> QED
    BY <1>1, <2>1, QuietList
<1>5. CASE StoreVirtual /\ summary' = summary
  <2>1. UNCHANGED <<summary, news, overtaken>>
    BY <1>5 DEF StoreVirtual, taskVars
  <2> QED
    BY <1>1, <1>2, <2>1, QuietList
<1>6. CASE StoreVirtual /\ loop.at = "listing"
  <2> DEFINE v == loop.task
             s == [branch |-> loop.branch, version |-> 0]
  <2>1. /\ v \in Virtual /\ s \in Summary /\ Absent(v)
        /\ summary \in [Tasks -> Summary \cup {None}] /\ v \in Tasks
        /\ actor[v].record \in Summary
    BY <1>6 DEF ListInv, IInv, TypeOK, LoopInOrder, LoopAbsent, Summary, Tasks
  <2>2. summary' = [summary EXCEPT ![v] = s] /\ UNCHANGED <<news, overtaken>>
    BY <1>6 DEF StoreVirtual, taskVars
  <2>3. s.version = 0 /\ actor[v].state = "none" /\ actor[v].record.version \in Nat
    BY <2>1 DEF Absent, Summary
  <2> HIDE DEF s, v
  <2>4. \A t \in Tasks, r \in Summary : Copy(t, r)' => Copy(t, r) \/ (t = v /\ r = s)
    BY <1>1, <2>1, <2>2 DEF Copy
  <2>5. Versions'
    BY <1>1, <2>3, <2>4 DEF ListInv, Versions
  <2>6. ListedAsIs'
    BY <1>1, <2>1, <2>2, <2>3 DEF ListInv, ListedAsIs
  <2> QED
    BY <1>2, <2>5, <2>6
<1>7. StoreVirtual => summary' = summary \/ loop.at = "listing"
  BY DEF StoreVirtual
<1> QED
  BY <1>2, <1>3, <1>4, <1>5, <1>6, <1>7 DEF Loop

\* Nobody can open a virtual task before it is listed, and no call makes it.
LEMMA LoopAbsentStep ==
  ASSUME ListInv, Next
  PROVE  LoopAbsent'
<1> USE DEF ListInv, IInv
<1>1. /\ actor \in [Tasks -> [state : {"none", "empty", "record"}, record : Summary]]
      /\ Creations \cap Virtual = {} /\ Creations \subseteq Tasks /\ Virtual \subseteq Tasks
      /\ summary \in [Tasks -> Summary \cup {None}]
      /\ news \subseteq [task : Tasks, summary : Summary]
      /\ commands \subseteq Creations
      /\ reader \in [Tasks -> [state : {"no", "asked", "read"}, branch : Branches \cup {None}]]
  BY IndexAssumption DEF TypeOK, Tasks
<1>2. loop.at # "idle" => loop.task \in Virtual /\ Absent(loop.task)
  BY DEF LoopInOrder, LoopAbsent
<1>3. ASSUME NEW c \in Creations, Choose(c) \/ Create(c) \/ InitializeTimesOut(c)
      PROVE  LoopAbsent'
  <2>1. loop' = loop
    BY <1>3 DEF Choose, Create, InitializeTimesOut, AskOwner, Insert, CreateActor,
       ReadSummary, WriteSummary, loopVars
  <2>2. SUFFICES ASSUME loop.at # "idle" PROVE Absent(loop.task)'
    BY <2>1 DEF LoopAbsent
  <2> DEFINE v == loop.task
  <2>3. v \in Virtual /\ v \in Tasks /\ v \notin Creations /\ Absent(v)
    BY <1>1, <1>2, <2>2
  <2> HIDE DEF v
  <2>4. actor'[v] = actor[v] /\ summary'[v] = summary[v]
    BY <1>1, <1>3, <2>3 DEF Choose, Create, InitializeTimesOut, AskOwner, Insert,
       CreateActor, ReadSummary, WriteSummary, Upsert, tableVars, taskVars
  <2>5. commands' \subseteq commands \cup {c} /\ news' = news /\ owing' = owing
    BY <1>1, <1>3, <2>3 DEF Choose, Create, InitializeTimesOut, AskOwner, Insert,
       CreateActor, ReadSummary, WriteSummary, taskVars
  <2>6. reader'[v].state = "no"
    <3>1. CASE AskOwner(c)
      <4> DEFINE u == got[c].owner
      <4>1. reader' = reader \/ (actor[u].state # "none" /\ Asked(u))
        BY <3>1 DEF AskOwner
      <4> HIDE DEF u
      <4>2. CASE actor[u].state # "none" /\ Asked(u)
        <5>1. u # v
          BY <2>3, <4>2 DEF Absent
        <5> QED
          BY <1>1, <2>3, <4>2, <5>1 DEF Asked, Absent
      <4> QED
        BY <2>3, <4>1, <4>2 DEF Absent
    <3>2. CASE ~AskOwner(c)
      <4>1. reader' = reader
        BY <1>3, <3>2 DEF Choose, Create, InitializeTimesOut, Insert,
           CreateActor, ReadSummary, WriteSummary, taskVars
      <4> QED
        BY <2>3, <4>1 DEF Absent
    <3> QED
      BY <3>1, <3>2
  <2> QED
    BY <2>1, <2>3, <2>4, <2>5, <2>6 DEF Absent, v
<1>4. ASSUME NEW t \in Tasks, Work(t) \/ View(t) \/ Touch(t)
      PROVE  LoopAbsent'
  <2>1. loop' = loop
    BY <1>4 DEF Work, ReadEntry, WriteEntry, Broadcast, Initialize, View, Touch, loopVars
  <2>2. SUFFICES ASSUME loop.at # "idle" PROVE Absent(loop.task)'
    BY <2>1 DEF LoopAbsent
  <2> DEFINE v == loop.task
  <2>3. v \in Virtual /\ v \in Tasks /\ v \notin Creations /\ Absent(v)
    BY <1>1, <1>2, <2>2
  <2> HIDE DEF v
  <2>4. t # v
    BY <1>4, <2>3 DEF Work, ReadEntry, WriteEntry, Broadcast, Initialize, View, Touch, Absent
  <2>5. actor'[v] = actor[v] /\ reader'[v] = reader[v]
    BY <1>1, <1>4, <2>3, <2>4
    DEF Work, ReadEntry, WriteEntry, Broadcast, Initialize, View, Touch, Write, Asked
  <2>6. /\ summary' = summary /\ commands' \subseteq commands
        /\ owing' \subseteq owing \cup {t}
        /\ \A n \in news' : n \in news \/ n.task = t
    BY <1>4
    DEF Work, ReadEntry, WriteEntry, Broadcast, Initialize, View, Touch, Write, tableVars
  <2> QED
    BY <2>1, <2>3, <2>4, <2>5, <2>6 DEF Absent, v
<1>5. ASSUME NEW n \in news, Apply(n) PROVE LoopAbsent'
  BY <1>5 DEF Apply, LoopAbsent, loopVars
<1>6. ASSUME NEW b \in Branches, PullRequest(b) PROVE LoopAbsent'
  <2>1. UNCHANGED <<actor, summary, reader, owing, news, commands, got>>
    BY <1>6 DEF PullRequest, callVars, tableVars, taskVars
  <2>2. CASE loop' = loop
    BY <2>1, <2>2 DEF LoopAbsent, Absent
  <2>3. CASE loop' # loop
    <3>1. PICK v \in Virtual : /\ index[v] = None /\ v \notin reclaimed
                               /\ loop' = [at |-> "indexing", task |-> v, branch |-> b]
      BY <1>6, <2>3 DEF PullRequest
    <3>2. Absent(v)
      BY <1>1, <3>1 DEF Born, Known
    <3> QED
      BY <2>1, <3>1, <3>2 DEF LoopAbsent, Absent
  <2> QED
    BY <2>2, <2>3
<1>7. CASE StoreVirtual
  <2>1. CASE loop.at = "indexing"
    <3>1. /\ UNCHANGED <<actor, summary, reader, owing, news, commands, got>>
          /\ loop' = [loop EXCEPT !.at = "listing"]
      BY <1>7, <2>1 DEF StoreVirtual, callVars, taskVars
    <3>2. loop'.task = loop.task
      BY <3>1 DEF TypeOK
    <3> QED
      BY <2>1, <3>1, <3>2 DEF LoopAbsent, Absent
  <2>2. CASE loop.at # "indexing"
    BY <1>7, <2>2 DEF StoreVirtual, LoopAbsent, Free
  <2> QED
    BY <2>1, <2>2
<1> QED
  BY <1>3, <1>4, <1>5, <1>6, <1>7 DEF Next, Loop

LEMMA ListStep == ListInv /\ [Next]_vars => ListInv'
<1> SUFFICES ASSUME ListInv, [Next]_vars PROVE ListInv'
  OBVIOUS
<1>1. IInv'
  BY NextHolds DEF ListInv
<1>2. CASE Next
  <2>1. Versions' /\ ListedAsIs' /\ Read'
    BY <1>2, CreateList, TaskList, LoopList DEF Next
  <2> QED
    BY <1>1, <1>2, <2>1, LoopAbsentStep DEF ListInv
<1>3. CASE UNCHANGED vars
  BY <1>1, <1>3 DEF vars, callVars, tableVars, taskVars, loopVars, aux, ListInv, Versions,
     Copy, LoopAbsent, Absent, ListedAsIs, Read
<1> QED
  BY <1>2, <1>3

\* However the summaries of the tasks, of createTask and of the pull requests are
\* interleaved, what the list shows of a task is its record or is about to be, until
\* an older summary is written over a newer one or a broadcast fails.
THEOREM ListShowsTasks == Spec => []ListedAsIs
<1>1. ListInv => ListedAsIs
  BY DEF ListInv
<1> QED
  BY <1>1, ListInit, ListStep, PTL DEF Spec

=============================================================================
