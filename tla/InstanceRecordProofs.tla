------------------------- MODULE InstanceRecordProofs -------------------------
(***************************************************************************)
(* What every interleaving of InstanceRecord keeps, for any number of      *)
(* requests, events and crashes.                                           *)
(*                                                                         *)
(* The heart is CopyInv: the copy a task will save differs from the row    *)
(* only in columns somebody else has written since it was read.  So a Save *)
(* can undo only the writes it is known to have missed, and those are the  *)
(* columns clobbered remembers.  The other parts follow one column each.   *)
(***************************************************************************)
EXTENDS InstanceRecord, TLAPS

(* Tasks that hold a copy of the row they will save whole.                  *)
HoldsCopy(k) ==
    \/ k.at = "save"
    \/ k.op \in {"disconnect", "logout"} /\ k.at \in {"ensure", "down"}

\* k's copy is the row but for the columns k has missed.
IsCopy(k, rows) ==
    \A c \in Columns \ k.missed : rows # {} /\ \A r \in rows : k.mine[c] = r[c]

CopyInv == \A t \in Tasks : HoldsCopy(task[t]) => IsCopy(task[t], row)

\* Who is where: an idle task holds nothing, the handler of Connected is on
\* "events", a client that drops leaves its handler at "column" or "down".
Places ==
    /\ \A t \in Tasks : task[t].at = "idle" => task[t] = Idle
    /\ \A t \in Tasks : task[t].op = "connected" =>
         t = "events" /\ task[t].at = "column"

\* Tasks that will store that the instance is not connected.
TakesDown(k) ==
    \/ k.op = "start" /\ k.at = "down"
    \/ k.op = "reconnect" /\ k.at = "gone"
    \/ k.op = "logout" /\ k.at = "save"
    \/ k.op \in {"drop", "loggedout"} /\ k.at = "column"

LoggedIn(c) == c.link = "in" /\ c.named

\* A login that is later than a task's decision to store "not connected" has
\* not been stored yet, or the task has missed it.
DownInv ==
    \A t \in Tasks : TakesDown(task[t]) /\ "connected" \notin task[t].missed
      => \A c \in client : LoggedIn(c) => task["events"].op = "connected"

\* A login that has been stored is in the row.
UpInv ==
    "connected" \notin clobbered /\ task["events"].op # "connected"
      => \A c \in client, r \in row : LoggedIn(c) => r.connected

Refreshing(k) == k.at \in {"sync", "apply"}

AdvFits(c, rows) == c.old \/ \A r \in rows : c.my.adv = r.adv
ConfFits(c, rows) == c.old \/ \A r \in rows : r.conf \in {c.my.conf, ""}

\* The settings of the client are the row's while nobody is about to pass
\* new ones on: each column for itself, for a write may make up for what an
\* earlier one has lost in its own column only.
SettingsInv ==
    (\A t \in Tasks : ~Refreshing(task[t]))
      => \A c \in client : /\ "adv" \notin clobbered => AdvFits(c, row)
                           /\ "conf" \notin clobbered => ConfFits(c, row)

RecordInv ==
    /\ RecordTypeOK
    /\ Places
    /\ CopyInv
    /\ PairingIsSaved
    /\ DownInv
    /\ UpInv
    /\ SettingsInv

-----------------------------------------------------------------------------
(* Columns, rows and tasks.                                                        *)

\* A set of columns a statement writes, with values of their types.
IsChange(ch) ==
    /\ DOMAIN ch \subseteq Columns
    /\ \A r \in Row : /\ With(r, ch) \in Row
                      /\ \A c \in DOMAIN ch : With(r, ch)[c] = ch[c]
                      /\ \A c \in Columns \ DOMAIN ch : With(r, ch)[c] = r[c]

\* Every change a statement of the code makes is one.
LEMMA Changes ==
    /\ \A b \in BOOLEAN : /\ IsChange([connected |-> b])
                          /\ DOMAIN [connected |-> b] = {"connected"}
    /\ \A s \in Values : /\ IsChange([conf |-> s])
                         /\ DOMAIN [conf |-> s] = {"conf"}
    /\ \A s \in Values : /\ IsChange([adv |-> s])
                         /\ DOMAIN [adv |-> s] = {"adv"}
    /\ \A s \in Values : /\ IsChange([proxy |-> s])
                         /\ DOMAIN [proxy |-> s] = {"proxy"}
    /\ IsChange([jid |-> TRUE]) /\ DOMAIN [jid |-> TRUE] = {"jid"}
    /\ IsChange([jid |-> TRUE, connected |-> TRUE])
    /\ DOMAIN [jid |-> TRUE, connected |-> TRUE] = {"jid", "connected"}
<1>1. \A b \in BOOLEAN : /\ IsChange([connected |-> b])
                         /\ DOMAIN [connected |-> b] = {"connected"}
  BY DEF IsChange, With, Row, Columns
<1>2. \A s \in Values : /\ IsChange([conf |-> s])
                        /\ DOMAIN [conf |-> s] = {"conf"}
  BY DEF IsChange, With, Row, Columns
<1>3. \A s \in Values : /\ IsChange([adv |-> s])
                        /\ DOMAIN [adv |-> s] = {"adv"}
  BY DEF IsChange, With, Row, Columns
<1>4. \A s \in Values : /\ IsChange([proxy |-> s])
                        /\ DOMAIN [proxy |-> s] = {"proxy"}
  BY DEF IsChange, With, Row, Columns
<1>5. IsChange([jid |-> TRUE]) /\ DOMAIN [jid |-> TRUE] = {"jid"}
  BY DEF IsChange, With, Row, Columns
<1>6. /\ IsChange([jid |-> TRUE, connected |-> TRUE])
      /\ DOMAIN [jid |-> TRUE, connected |-> TRUE] = {"jid", "connected"}
  BY DEF IsChange, With, Row, Columns
<1> QED BY <1>1, <1>2, <1>3, <1>4, <1>5, <1>6

\* Proceed moves t and tells every other task what it has missed.
Kept(u, W) ==
    /\ task'[u].op = task[u].op /\ task'[u].at = task[u].at
    /\ task'[u].mine = task[u].mine /\ task'[u].fresh = task[u].fresh
    /\ task[u].at = "idle" \/ task'[u].missed = task[u].missed \cup W
    /\ task[u].at = "idle" => task'[u] = Idle

Moves(S, W) ==
    /\ S \subseteq Tasks /\ W \subseteq Columns
    /\ task' \in [Tasks -> Task]
    /\ \A u \in Tasks \ S : Kept(u, W)

LEMMA IdleType == Idle \in Task /\ Blank \in Row
<1>1. Blank \in Row
  BY DEF Blank, Row, Values
<1> QED BY <1>1 DEF Idle, Task

LEMMA ProceedMoves ==
    ASSUME RecordTypeOK, Places, NEW t \in Tasks, NEW next \in Task,
           NEW W \in SUBSET Columns, Proceed(t, next, W)
    PROVE  Moves({t}, W) /\ task'[t] = next
<1>1. \A u \in Tasks \ {t} : task[u].at = "idle" => task[u] = Idle /\ task'[u] = Idle
  BY DEF Proceed, Places
<1>2. ASSUME NEW u \in Tasks \ {t}, task[u].at # "idle"
      PROVE  task'[u] = [task[u] EXCEPT !.missed = @ \cup W]
  BY <1>2 DEF Proceed
<1>3. ASSUME NEW u \in Tasks \ {t}
      PROVE  task'[u] \in Task /\ Kept(u, W)
  <2>1. task[u] \in Task
    BY DEF RecordTypeOK
  <2>2. CASE task[u].at = "idle"
    BY <2>2, <1>1, IdleType DEF Kept
  <2>3. CASE task[u].at # "idle"
    <3>1. task'[u] = [task[u] EXCEPT !.missed = task[u].missed \cup W]
      BY <2>3, <1>2
    <3>2. task[u].missed \cup W \in SUBSET Columns
      BY <2>1 DEF Task
    <3>3. task'[u] \in Task
      BY <2>1, <3>1, <3>2 DEF Task
    <3> QED BY <2>1, <2>3, <3>1, <3>3 DEF Task, Kept
  <2> QED BY <2>2, <2>3
<1>4. task'[t] = next
  BY DEF Proceed
<1>5. task' \in [Tasks -> Task]
  BY <1>3, <1>4 DEF Proceed
<1> QED BY <1>3, <1>4, <1>5 DEF Moves

-----------------------------------------------------------------------------
(* What a step may do: the tasks S move, the columns W are written.         *)

RowKeeps(W) ==
    \A c \in Columns \ W :
        /\ row' = {} => row = {}
        /\ \A x \in row' : \E r \in row : x[c] = r[c]

Table(W) ==
    /\ row' \subseteq Row /\ \A a, b \in row' : a = b
    /\ clobbered' \subseteq Columns
    /\ clobbered \ W \subseteq clobbered'
    /\ RowKeeps(W)

Nobody == \A c \in client' : ~LoggedIn(c)
AllFit == \A c \in client' : AdvFits(c, row') /\ ConfFits(c, row')

\* Where the tasks that move arrive.
Arrives(t) ==
    /\ task'[t].at = "idle" => task'[t] = Idle
    /\ task'[t].op = "connected" => t = "events" /\ task'[t].at = "column"
    /\ HoldsCopy(task'[t]) => IsCopy(task'[t], row')
    /\ TakesDown(task'[t]) => Nobody
    /\ Refreshing(task[t]) => Refreshing(task'[t]) \/ AllFit

Pairs(W) ==
    LET written == "jid" \in clobbered' \/ \A x \in row' : x.jid
    IN /\ "jid" \in W => written
       /\ session' => session \/ task'["events"].op = "pair"
       /\ task["events"].op = "pair" => task'["events"].op = "pair" \/ written

Logs(W) ==
    LET written == "connected" \in clobbered' \/ \A x \in row' : x.connected
        coming == task'["events"].op = "connected"
    IN /\ \/ coming
          \/ \A c \in client' : LoggedIn(c) => \E b \in client : LoggedIn(b)
       /\ "connected" \in W => written \/ coming \/ Nobody
       /\ task["events"].op = "connected"
            => coming \/ Nobody \/ ("connected" \in W /\ written)

Sets(W) ==
    LET coming == \E t \in Tasks : Refreshing(task'[t])
    IN /\ \A c \in client' : \/ AdvFits(c, row') /\ ConfFits(c, row')
                             \/ \E b \in client : b.my = c.my /\ b.old = c.old
       /\ "adv" \in W => "adv" \in clobbered' \/ coming \/ row' = {}
       /\ "conf" \in W => \/ "conf" \in clobbered' \/ coming
                          \/ \A x \in row' : x.conf = ""

StepOK(S, W) ==
    /\ session' \in BOOLEAN
    /\ client' \subseteq Client /\ \A a, b \in client' : a = b
    /\ Moves(S, W)
    /\ Table(W)
    /\ \A t \in S : Arrives(t)
    /\ Pairs(W)
    /\ Logs(W)
    /\ Sets(W)

\* Such a step keeps every part of the invariant.
LEMMA StepKeeps ==
    ASSUME RecordInv, NEW S, NEW W, StepOK(S, W), ops' \in 0..MaxOps
    PROVE  RecordInv'
<1>1. RecordTypeOK'
  BY DEF StepOK, Moves, Table, RecordTypeOK
<1>2. ASSUME NEW u \in Tasks
      PROVE  \/ u \in S /\ Arrives(u)
             \/ u \notin S /\ Kept(u, W)
  BY DEF StepOK, Moves
<1>3. Places'
  <2>1. ASSUME NEW u \in Tasks
        PROVE  /\ task'[u].at = "idle" => task'[u] = Idle
               /\ task'[u].op = "connected" => u = "events" /\ task'[u].at = "column"
    BY <1>2 DEF Arrives, Kept, RecordInv, Places
  <2> QED BY <2>1 DEF Places
<1>4. CopyInv'
  <2>1. ASSUME NEW u \in Tasks, HoldsCopy(task'[u])
        PROVE  IsCopy(task'[u], row')
    <3>1. CASE u \in S
      BY <1>2, <2>1, <3>1 DEF Arrives
    <3>2. CASE u \notin S
      <4>1. Kept(u, W) /\ HoldsCopy(task[u]) /\ task[u].at # "idle"
        BY <1>2, <2>1, <3>2 DEF Kept, HoldsCopy
      <4>2. IsCopy(task[u], row) /\ task'[u].missed = task[u].missed \cup W
        BY <4>1 DEF RecordInv, CopyInv, Kept
      <4>3. RowKeeps(W) /\ task'[u].mine = task[u].mine
        BY <4>1 DEF StepOK, Table, Kept
      <4> QED BY <4>2, <4>3 DEF IsCopy, RowKeeps
    <3> QED BY <3>1, <3>2
  <2> QED BY <2>1 DEF CopyInv
<1>5. PairingIsSaved'
  <2> SUFFICES ASSUME NEW x \in row', session', task'["events"].op # "pair",
                      "jid" \notin clobbered'
               PROVE  x.jid
    BY DEF PairingIsSaved
  <2>1. CASE "jid" \in W \/ task["events"].op = "pair"
    BY <2>1 DEF StepOK, Pairs
  <2>2. CASE "jid" \notin W /\ task["events"].op # "pair"
    <3>1. session /\ "jid" \notin clobbered
      BY <2>2 DEF StepOK, Pairs, Table
    <3>2. PICK r \in row : x["jid"] = r["jid"]
      BY <2>2 DEF StepOK, Table, RowKeeps, Columns
    <3>3. r.jid
      BY <2>2, <3>1 DEF RecordInv, PairingIsSaved
    <3>4. r \in Row /\ x \in Row
      BY DEF RecordInv, RecordTypeOK, StepOK, Table
    <3> QED BY <3>2, <3>3, <3>4 DEF Row
  <2> QED BY <2>1, <2>2
<1>6. DownInv'
  <2> SUFFICES ASSUME NEW u \in Tasks, TakesDown(task'[u]),
                      "connected" \notin task'[u].missed,
                      NEW c \in client', LoggedIn(c)
               PROVE  task'["events"].op = "connected"
    BY DEF DownInv
  <2>1. u \notin S /\ Kept(u, W)
    BY <1>2 DEF Arrives, Nobody
  <2>2. task[u].at # "idle"
    BY <2>1 DEF Kept, TakesDown, Idle
  <2>3. TakesDown(task[u]) /\ "connected" \notin task[u].missed /\ "connected" \notin W
    BY <2>1, <2>2 DEF Kept, TakesDown
  <2>4. task'["events"].op = "connected" \/ task["events"].op = "connected"
    BY <2>3 DEF RecordInv, DownInv, StepOK, Logs
  <2> QED BY <2>3, <2>4 DEF StepOK, Logs, Nobody
<1>7. UpInv'
  <2> SUFFICES ASSUME "connected" \notin clobbered',
                      task'["events"].op # "connected",
                      NEW c \in client', NEW x \in row', LoggedIn(c)
               PROVE  x.connected
    BY DEF UpInv
  <2>1. CASE "connected" \in W \/ task["events"].op = "connected"
    BY <2>1 DEF StepOK, Logs, Nobody
  <2>2. CASE "connected" \notin W /\ task["events"].op # "connected"
    <3>1. PICK b \in client : LoggedIn(b)
      BY DEF StepOK, Logs
    <3>2. "connected" \notin clobbered
      BY <2>2 DEF StepOK, Table
    <3>3. PICK r \in row : x["connected"] = r["connected"]
      BY <2>2 DEF StepOK, Table, RowKeeps, Columns
    <3>4. r.connected
      BY <2>2, <3>1, <3>2 DEF RecordInv, UpInv
    <3>5. r \in Row /\ x \in Row
      BY DEF RecordInv, RecordTypeOK, StepOK, Table
    <3> QED BY <3>3, <3>4, <3>5 DEF Row
  <2> QED BY <2>1, <2>2
<1>8. SettingsInv'
  <2> SUFFICES ASSUME \A t \in Tasks : ~Refreshing(task'[t]), NEW c \in client'
               PROVE  /\ "adv" \notin clobbered' => AdvFits(c, row')
                      /\ "conf" \notin clobbered' => ConfFits(c, row')
    BY DEF SettingsInv
  <2>1. CASE AdvFits(c, row') /\ ConfFits(c, row')
    BY <2>1
  <2>2. CASE ~(AdvFits(c, row') /\ ConfFits(c, row'))
    <3>1. PICK b \in client : b.my = c.my /\ b.old = c.old
      BY <2>2 DEF StepOK, Sets
    <3>2. ASSUME NEW u \in Tasks
          PROVE  ~Refreshing(task[u])
      BY <1>2, <2>2 DEF Arrives, Kept, Refreshing, AllFit
    <3>3. ASSUME "adv" \notin clobbered'
          PROVE  AdvFits(c, row')
      <4>1. CASE "adv" \in W
        BY <3>3, <4>1 DEF StepOK, Sets, AdvFits
      <4>2. CASE "adv" \notin W
        <5>1. AdvFits(b, row)
          BY <3>2, <3>3, <4>2 DEF RecordInv, SettingsInv, StepOK, Table
        <5>2. ASSUME NEW x \in row'
              PROVE  \E r \in row : x["adv"] = r["adv"]
          BY <4>2 DEF StepOK, Table, RowKeeps, Columns
        <5> QED BY <3>1, <5>1, <5>2 DEF AdvFits
      <4> QED BY <4>1, <4>2
    <3>4. ASSUME "conf" \notin clobbered'
          PROVE  ConfFits(c, row')
      <4>1. CASE "conf" \in W
        BY <3>4, <4>1 DEF StepOK, Sets, ConfFits
      <4>2. CASE "conf" \notin W
        <5>1. ConfFits(b, row)
          BY <3>2, <3>4, <4>2 DEF RecordInv, SettingsInv, StepOK, Table
        <5>2. ASSUME NEW x \in row'
              PROVE  \E r \in row : x["conf"] = r["conf"]
          BY <4>2 DEF StepOK, Table, RowKeeps, Columns
        <5> QED BY <3>1, <5>1, <5>2 DEF ConfFits
      <4> QED BY <4>1, <4>2
    <3> QED BY <3>3, <3>4
  <2> QED BY <2>1, <2>2
<1> QED BY <1>1, <1>3, <1>4, <1>5, <1>6, <1>7, <1>8 DEF RecordInv

-----------------------------------------------------------------------------
(* The statements.                                                          *)

\* A step that leaves the table alone.
LEMMA QuietTable ==
    ASSUME RecordInv, row' = row, clobbered' = clobbered
    PROVE  Table({})
BY DEF RecordInv, RecordTypeOK, Table, RowKeeps

LEMMA QuietStep ==
    ASSUME RecordInv, NEW t \in Tasks, NEW next \in Task, Proceed(t, next, {}),
           row' = row, clobbered' = clobbered
    PROVE  Moves({t}, {}) /\ task'[t] = next /\ Table({})
BY QuietTable, ProceedMoves DEF RecordInv

\* The rows have what ch says.
Written(ch) == \A x \in row', c \in DOMAIN ch : x[c] = ch[c]

\* UPDATE of some columns.
LEMMA UpdateColumnsStep ==
    ASSUME RecordInv, NEW t \in Tasks, NEW next \in Task, NEW ch, IsChange(ch),
           UpdateColumns(t, ch, next)
    PROVE  /\ Moves({t}, DOMAIN ch) /\ task'[t] = next
           /\ Table(DOMAIN ch)
           /\ Written(ch)
           /\ row = {} => row' = {}
<1>1. DOMAIN ch \in SUBSET Columns
  BY DEF IsChange
<1>2. Moves({t}, DOMAIN ch) /\ task'[t] = next
  BY <1>1, ProceedMoves DEF UpdateColumns, RecordInv
<1>3. \A x \in row' : \E r \in row : r \in Row /\ x = With(r, ch)
  BY DEF UpdateColumns, RecordInv, RecordTypeOK
<1>4. row' \subseteq Row /\ \A a, b \in row' : a = b
  BY <1>3 DEF IsChange, RecordInv, RecordTypeOK
<1>5. clobbered' \subseteq Columns /\ clobbered \ DOMAIN ch \subseteq clobbered'
  BY <1>1 DEF UpdateColumns, RecordInv, RecordTypeOK
<1>6. RowKeeps(DOMAIN ch)
  <2>1. row' = {} => row = {}
    BY DEF UpdateColumns
  <2> QED BY <2>1, <1>3 DEF RowKeeps, IsChange
<1>7. Written(ch)
  BY <1>3 DEF IsChange, Written
<1>8. row = {} => row' = {}
  BY DEF UpdateColumns
<1> QED BY <1>2, <1>4, <1>5, <1>6, <1>7, <1>8 DEF Table

\* Save of a whole copy: by CopyInv it changes no column but those of ch and
\* those the task has missed.
LEMMA UpdateStep ==
    ASSUME RecordInv, NEW t \in Tasks, NEW next \in Task, NEW ch, IsChange(ch),
           HoldsCopy(task[t]), Update(t, ch, next)
    PROVE  LET W == DOMAIN ch \cup task[t].missed
           IN /\ Moves({t}, W) /\ task'[t] = next
              /\ Table(W)
              /\ Written(ch)
              /\ \A c \in task[t].missed : c \in clobbered'
<1> DEFINE W == DOMAIN ch \cup task[t].missed
           x == With(task[t].mine, ch)
<1>1. task[t].mine \in Row /\ W \in SUBSET Columns
  BY DEF RecordInv, RecordTypeOK, Task, IsChange
<1>2. Moves({t}, W) /\ task'[t] = next
  BY <1>1, ProceedMoves DEF Update, RecordInv
<1>3. row' = {x} /\ x \in Row
  BY <1>1 DEF Update, IsChange
<1>4. /\ clobbered' \subseteq Columns /\ clobbered \ W \subseteq clobbered'
      /\ \A c \in task[t].missed : c \in clobbered'
  BY <1>1 DEF Update, RecordInv, RecordTypeOK
<1>5. ASSUME NEW c \in Columns \ W
      PROVE  \E r \in row : x[c] = r[c]
  <2>1. row # {} /\ \A r \in row : task[t].mine[c] = r[c]
    BY <1>5 DEF RecordInv, CopyInv, IsCopy
  <2>2. x[c] = task[t].mine[c]
    BY <1>1, <1>5 DEF IsChange
  <2> QED BY <2>1, <2>2
<1>6. RowKeeps(W)
  BY <1>3, <1>5 DEF RowKeeps
<1>7. Written(ch)
  BY <1>1, <1>3 DEF IsChange, Written
<1> QED BY <1>2, <1>3, <1>4, <1>6, <1>7 DEF Table

-----------------------------------------------------------------------------
(* Two kinds of steps.                                                      *)

StepTaken == \E S, W : StepOK(S, W)

LEMMA EventsKept ==
    ASSUME RecordInv, NEW S, NEW W, Moves(S, W), "events" \notin S
    PROVE  task'["events"].op = task["events"].op
BY DEF Moves, Kept, Tasks

\* The event handler may go on, but not end what the others wait for.
HandlerGoesOn(S) ==
    "events" \in S =>
      /\ task["events"].op = "pair" => task'["events"].op = "pair" \/ row = {}
      /\ task["events"].op # "connected"

\* Nothing is written, and the client stays or goes.
LEMMA QuietOK ==
    ASSUME RecordInv, NEW S, Moves(S, {}), \A t \in S : Arrives(t),
           row' = row, clobbered' = clobbered,
           session' \in BOOLEAN, session' => session,
           client' = client \/ client' = {}, HandlerGoesOn(S)
    PROVE  StepTaken
<1>1. \/ task'["events"].op = task["events"].op
      \/ /\ task["events"].op = "pair" => task'["events"].op = "pair" \/ row = {}
         /\ task["events"].op # "connected"
  BY EventsKept DEF HandlerGoesOn
<1>2. Table({})
  BY QuietTable
<1>3. Pairs({})
  BY <1>1 DEF Pairs
<1>4. Logs({})
  BY <1>1 DEF Logs, Nobody
<1>5. Sets({})
  BY DEF Sets
<1>6. session' \in BOOLEAN /\ client' \subseteq Client /\ \A a, b \in client' : a = b
  BY DEF RecordInv, RecordTypeOK
<1> QED BY <1>2, <1>3, <1>4, <1>5, <1>6 DEF StepOK, StepTaken

\* A column is written as it should be, or known to be clobbered.
Writes(t, W) ==
    /\ "jid" \in W => "jid" \in clobbered' \/ \A x \in row' : x.jid
    /\ "connected" \in W =>
         \/ "connected" \in clobbered' \/ \A x \in row' : x.connected
         \/ Nobody \/ task["events"].op = "connected"
    /\ "adv" \in W => "adv" \in clobbered' \/ Refreshing(task'[t]) \/ row' = {}
    /\ "conf" \in W => \/ "conf" \in clobbered' \/ Refreshing(task'[t])
                       \/ \A x \in row' : x.conf = ""

\* A task other than the event handler writes, and the client stays.
LEMMA WriteOK ==
    ASSUME RecordInv, NEW t \in Tasks \ {"events"}, NEW W, Moves({t}, W), Table(W),
           Arrives(t), session' = session, client' = client, Writes(t, W)
    PROVE  StepTaken
<1>1. task'["events"].op = task["events"].op
  BY EventsKept
<1>2. Pairs(W)
  BY <1>1 DEF Pairs, Writes
<1>3. Logs(W)
  BY <1>1 DEF Logs, Nobody, Writes
<1>4. Sets(W)
  BY DEF Sets, Writes
<1>5. session' \in BOOLEAN /\ client' \subseteq Client /\ \A a, b \in client' : a = b
  BY DEF RecordInv, RecordTypeOK
<1> QED BY <1>2, <1>3, <1>4, <1>5 DEF StepOK, StepTaken

\* Goto changes where a task is, and only that.
LEMMA GotoFacts ==
    ASSUME RecordInv, NEW t \in Tasks,
           NEW at \in {"idle", "save", "column", "sync", "apply", "ensure",
                       "teardown", "down", "cut", "read", "launch", "clean",
                       "gone"}
    PROVE  /\ task[t] \in Task /\ Goto(t, at) \in Task /\ Goto(t, at).at = at
           /\ Goto(t, at).op = task[t].op /\ Goto(t, at).mine = task[t].mine
           /\ Goto(t, at).fresh = task[t].fresh
           /\ Goto(t, at).missed = task[t].missed
<1>1. task[t] \in Task
  BY DEF RecordInv, RecordTypeOK
<1> QED BY <1>1 DEF Goto, Task

-----------------------------------------------------------------------------
(* Requests.                                                                *)

LEMMA ConnectSaveOK ==
    ASSUME RecordInv, NEW r \in Requests, ConnectSave(r)
    PROVE  StepTaken
<1>1. PICK s \in Settings :
        Update(r, [conf |-> s],
               [Goto(r, "sync") EXCEPT !.mine = With(@, [conf |-> s])])
  BY DEF ConnectSave
<1> DEFINE ch == [conf |-> s]
           next == [Goto(r, "sync") EXCEPT !.mine = With(Goto(r, "sync").mine, ch)]
           W == DOMAIN ch \cup task[r].missed
<1>2. r \in Tasks \ {"events"} /\ HoldsCopy(task[r]) /\ task[r].op = "connect"
  BY RecordAssumption DEF Tasks, HoldsCopy, ConnectSave, At
<1>3. IsChange(ch) /\ DOMAIN ch = {"conf"}
  BY Changes DEF Values
<1>4. next \in Task /\ next.at = "sync" /\ next.op = "connect"
  BY <1>2, <1>3, GotoFacts DEF Task, IsChange
<1>5. /\ Moves({r}, W) /\ task'[r] = next /\ Table(W)
      /\ \A c \in task[r].missed : c \in clobbered'
  BY <1>1, <1>2, <1>3, <1>4, UpdateStep
<1>6. Arrives(r) /\ Refreshing(task'[r])
  BY <1>4, <1>5 DEF Arrives, HoldsCopy, TakesDown, Refreshing
<1>7. session' = session /\ client' = client
  BY DEF ConnectSave
<1>8. \A c \in W \ {"conf"} : c \in clobbered'
  BY <1>3, <1>5
<1> HIDE DEF W, next, ch
<1>9. Writes(r, W)
  BY <1>6, <1>8 DEF Writes
<1> QED BY <1>2, <1>5, <1>6, <1>7, <1>9, WriteOK

LEMMA UpdateAdvancedSettingsOK ==
    ASSUME RecordInv, NEW r \in Requests, UpdateAdvancedSettings(r)
    PROVE  StepTaken
<1>1. PICK s \in Values : UpdateColumns(r, [adv |-> s], Goto(r, "sync"))
  BY DEF UpdateAdvancedSettings
<1>2. r \in Tasks \ {"events"} /\ task[r].op = "advanced"
  BY RecordAssumption DEF Tasks, UpdateAdvancedSettings, At
<1>3. IsChange([adv |-> s]) /\ DOMAIN [adv |-> s] = {"adv"}
  BY Changes
<1>4. Goto(r, "sync") \in Task /\ Goto(r, "sync").at = "sync"
      /\ Goto(r, "sync").op = "advanced"
  BY <1>2, GotoFacts
<1>5. Moves({r}, {"adv"}) /\ task'[r] = Goto(r, "sync") /\ Table({"adv"})
  BY <1>1, <1>2, <1>3, <1>4, UpdateColumnsStep
<1>6. Arrives(r) /\ Refreshing(task'[r])
  BY <1>4, <1>5 DEF Arrives, HoldsCopy, TakesDown, Refreshing
<1>7. Writes(r, {"adv"})
  BY <1>6 DEF Writes
<1>8. session' = session /\ client' = client
  BY DEF UpdateAdvancedSettings
<1> QED BY <1>2, <1>5, <1>6, <1>7, <1>8, WriteOK

\* With no row there is nothing the client could differ from.
LEMMA NoRowFits ==
    ASSUME row' = {}
    PROVE  AllFit
BY DEF AllFit, AdvFits, ConfFits

LEMMA RequestIsTask == \A r \in Requests : r \in Tasks \ {"events", "loop", "again"}
BY RecordAssumption DEF Tasks

LEMMA ReadSettingsOK ==
    ASSUME RecordInv, NEW r \in Requests, ReadSettings(r)
    PROVE  StepTaken
<1>1. r \in Tasks \ {"events"} /\ task[r].at = "sync" /\ task[r].op # "connected"
  BY RequestIsTask DEF ReadSettings, RecordInv, Places
<1>2. UNCHANGED <<row, session, client, clobbered>>
  BY DEF ReadSettings
<1>3. CASE row = {}
  <2> DEFINE next == IF task[r].op = "connect" THEN Goto(r, "launch") ELSE Idle
  <2>1. Proceed(r, next, {})
    BY <1>3 DEF ReadSettings
  <2>2. next \in Task /\ \/ next = Idle
                         \/ next.at = "launch" /\ next.op = "connect"
    BY <1>1, GotoFacts, IdleType
  <2> HIDE DEF next
  <2>3. Moves({r}, {}) /\ task'[r] = next
    BY <1>1, <1>2, <2>1, <2>2, QuietStep
  <2>4. Arrives(r)
    BY <1>2, <1>3, <2>2, <2>3, NoRowFits
    DEF Arrives, HoldsCopy, TakesDown, Idle
  <2> QED BY <1>1, <1>2, <2>3, <2>4, QuietOK DEF HandlerGoesOn, RecordInv, RecordTypeOK
<1>4. CASE row # {}
  <2> DEFINE x == CHOOSE a \in row : TRUE
             next == [Goto(r, "apply") EXCEPT !.fresh = x]
  <2>1. Proceed(r, next, {})
    BY <1>4 DEF ReadSettings
  <2>2. x \in Row
    BY <1>4 DEF RecordInv, RecordTypeOK
  <2> HIDE DEF x
  <2>3. next \in Task /\ next.at = "apply" /\ next.op = task[r].op
    BY <1>1, <2>2, GotoFacts DEF Task
  <2> HIDE DEF next
  <2>4. Moves({r}, {}) /\ task'[r] = next
    BY <1>1, <1>2, <2>1, <2>3, QuietStep
  <2>5. Arrives(r)
    BY <1>1, <2>3, <2>4 DEF Arrives, HoldsCopy, TakesDown, Refreshing
  <2> QED BY <1>1, <1>2, <2>4, <2>5, QuietOK DEF HandlerGoesOn, RecordInv, RecordTypeOK
<1> QED BY <1>3, <1>4

LEMMA ApplySettingsOK ==
    ASSUME RecordInv, NEW r \in Requests, ApplySettings(r)
    PROVE  StepTaken
<1> DEFINE fresh == task[r].fresh
           stop == client = {} /\ task[r].op = "connect"
           next == IF stop THEN [Goto(r, "launch") EXCEPT !.fresh = Blank]
                   ELSE Idle
<1>1. r \in Tasks \ {"events"} /\ task[r].at = "apply" /\ fresh \in Row
  BY RequestIsTask DEF ApplySettings, RecordInv, RecordTypeOK, Task
<1>2. UNCHANGED <<row, session, clobbered>> /\ Proceed(r, next, {})
  BY DEF ApplySettings
<1>3. next \in Task /\ \/ next = Idle
                       \/ next.at = "launch" /\ next.op = "connect"
  BY <1>1, GotoFacts, IdleType DEF Task
<1> HIDE DEF next
<1>4. Moves({r}, {}) /\ task'[r] = next /\ Table({})
  BY <1>1, <1>2, <1>3, QuietStep
<1>5. ASSUME NEW c \in client'
      PROVE  \E b \in client : c = [b EXCEPT !.my = fresh, !.old = Old(fresh)]
  BY DEF ApplySettings
<1>6. ASSUME NEW b \in client
      PROVE  LET c == [b EXCEPT !.my = fresh, !.old = Old(fresh)]
             IN /\ c \in Client /\ LoggedIn(c) = LoggedIn(b)
                /\ c.my = fresh /\ c.old = Old(fresh)
  <2>1. b \in Client /\ Old(fresh) \in BOOLEAN
    BY DEF RecordInv, RecordTypeOK, Old
  <2> QED BY <1>1, <2>1 DEF Client, LoggedIn
<1>7. client' \subseteq Client /\ \A a, b \in client' : a = b
  <2>1. client' \subseteq Client
    BY <1>5, <1>6
  <2>2. ASSUME NEW a \in client', NEW b \in client'
        PROVE  a = b
    <3>1. PICK d \in client : a = [d EXCEPT !.my = fresh, !.old = Old(fresh)]
      BY <1>5
    <3>2. PICK e \in client : b = [e EXCEPT !.my = fresh, !.old = Old(fresh)]
      BY <1>5
    <3>3. d = e
      BY DEF RecordInv, RecordTypeOK
    <3> QED BY <3>1, <3>2, <3>3, Zenon
  <2> QED BY <2>1, <2>2
<1>8. AllFit
  BY <1>2, <1>5, <1>6 DEF AllFit, AdvFits, ConfFits, Old
<1>9. Arrives(r)
  BY <1>3, <1>4, <1>8 DEF Arrives, HoldsCopy, TakesDown, Idle
<1>10. task'["events"].op = task["events"].op
  BY <1>1, <1>4, EventsKept
<1>11. Pairs({})
  BY <1>2, <1>10 DEF Pairs
<1>12. Logs({})
  <2>1. \A c \in client' : LoggedIn(c) => \E b \in client : LoggedIn(b)
    BY <1>5, <1>6
  <2> QED BY <1>10, <2>1 DEF Logs
<1>13. Sets({})
  BY <1>8 DEF Sets, AllFit
<1>14. session' \in BOOLEAN
  BY <1>2 DEF RecordInv, RecordTypeOK
<1> QED BY <1>4, <1>7, <1>9, <1>11, <1>12, <1>13, <1>14 DEF StepOK, StepTaken

LEMMA ProxySaveOK ==
    ASSUME RecordInv, NEW r \in Requests, ProxySave(r)
    PROVE  StepTaken
<1>1. PICK s \in Values : Update(r, [proxy |-> s], Reconnect)
  BY DEF ProxySave, Values
<1> DEFINE W == DOMAIN [proxy |-> s] \cup task[r].missed
<1>2. r \in Tasks \ {"events"} /\ HoldsCopy(task[r]) /\ ~Refreshing(task[r])
  BY RequestIsTask DEF ProxySave, At, HoldsCopy, Refreshing
<1>3. IsChange([proxy |-> s]) /\ DOMAIN [proxy |-> s] = {"proxy"}
  BY Changes
<1>4. Reconnect \in Task /\ Reconnect.op = "reconnect" /\ Reconnect.at = "ensure"
  BY IdleType DEF Reconnect, Idle, Task, AllOps, RequestOps
<1>5. /\ Moves({r}, W) /\ task'[r] = Reconnect /\ Table(W)
      /\ \A c \in task[r].missed : c \in clobbered'
  BY <1>1, <1>2, <1>3, <1>4, UpdateStep
<1>6. Arrives(r)
  BY <1>2, <1>4, <1>5 DEF Arrives, HoldsCopy, TakesDown
<1>7. \A c \in W \ {"proxy"} : c \in clobbered'
  BY <1>3, <1>5
<1> HIDE DEF W
<1>8. Writes(r, W)
  BY <1>7 DEF Writes
<1>9. session' = session /\ client' = client
  BY DEF ProxySave
<1> QED BY <1>2, <1>5, <1>6, <1>8, <1>9, WriteOK

LEMMA EnsureClientConnectedOK ==
    ASSUME RecordInv, NEW r \in Requests, EnsureClientConnected(r)
    PROVE  StepTaken
<1> DEFINE up == \E c \in client : c.link # "off"
           in == \E c \in client : c.link = "in"
           next == CASE client = {} -> [Idle EXCEPT !.op = "start", !.at = "read"]
                     [] up /\ task[r].op = "reconnect" -> Goto(r, "teardown")
                     [] in /\ task[r].op \in {"disconnect", "logout"}
                          -> Goto(r, "down")
                     [] up /\ ~in /\ task[r].op = "logout" -> Goto(r, "cut")
                     [] OTHER -> Idle
<1>1. r \in Tasks \ {"events"} /\ task[r].at = "ensure"
  BY RequestIsTask DEF EnsureClientConnected
<1>2. UNCHANGED <<row, session, client, clobbered>> /\ Proceed(r, next, {})
  BY DEF EnsureClientConnected
<1>3. \/ next = [Idle EXCEPT !.op = "start", !.at = "read"]
      \/ next = Goto(r, "teardown") /\ task[r].op = "reconnect"
      \/ next = Goto(r, "down") /\ task[r].op \in {"disconnect", "logout"}
      \/ next = Goto(r, "cut") /\ task[r].op = "logout"
      \/ next = Idle
  <2>1. CASE client = {}
    <3>1. ~up /\ ~in
      BY <2>1
    <3> HIDE DEF up, in
    <3> QED BY <2>1, <3>1, Zenon
  <2>2. CASE client # {}
    <3> HIDE DEF up, in
    <3>1. CASE up /\ task[r].op = "reconnect"
      BY <2>2, <3>1
    <3>2. CASE in /\ task[r].op \in {"disconnect", "logout"}
      BY <2>2, <3>2
    <3>3. CASE up /\ ~in /\ task[r].op = "logout"
      BY <2>2, <3>3
    <3>4. CASE /\ ~(up /\ task[r].op = "reconnect")
               /\ ~(in /\ task[r].op \in {"disconnect", "logout"})
               /\ ~(up /\ ~in /\ task[r].op = "logout")
      BY <2>2, <3>4
    <3> QED BY <3>1, <3>2, <3>3, <3>4
  <2> QED BY <2>1, <2>2
<1> HIDE DEF next
<1>4. next \in Task /\ \/ next = Idle
                       \/ next.op = "start" /\ next.at = "read"
                       \/ next.op = "reconnect" /\ next.at = "teardown"
                       \/ /\ next.op \in {"disconnect", "logout"}
                          /\ next.op = task[r].op
                          /\ next.at = "down"
                          /\ next.mine = task[r].mine
                          /\ next.missed = task[r].missed
                       \/ next.op = "logout" /\ next.at = "cut"
  <2>1. CASE next = [Idle EXCEPT !.op = "start", !.at = "read"]
    BY <2>1, IdleType DEF Idle, Task, AllOps, RequestOps
  <2>2. CASE next = Goto(r, "teardown") /\ task[r].op = "reconnect"
    BY <1>1, <2>2, GotoFacts
  <2>3. CASE next = Goto(r, "down") /\ task[r].op \in {"disconnect", "logout"}
    BY <1>1, <2>3, GotoFacts
  <2>4. CASE next = Idle
    BY <2>4, IdleType
  <2>5. CASE next = Goto(r, "cut") /\ task[r].op = "logout"
    BY <1>1, <2>5, GotoFacts
  <2> QED BY <1>3, <2>1, <2>2, <2>3, <2>4, <2>5
<1>5. Moves({r}, {}) /\ task'[r] = next
  BY <1>1, <1>2, <1>4, QuietStep
<1>6. HoldsCopy(next) => IsCopy(next, row)
  BY <1>1, <1>4 DEF HoldsCopy, RecordInv, CopyInv, IsCopy, Idle
<1>7. Arrives(r)
  BY <1>1, <1>2, <1>4, <1>5, <1>6 DEF Arrives, TakesDown, Idle, Refreshing
<1> QED BY <1>1, <1>2, <1>5, <1>7, QuietOK DEF HandlerGoesOn, RecordInv, RecordTypeOK

\* A kill moves the task that sends it and the loop that receives it.
Becomes(a, x, b, y) == task' = [task EXCEPT ![a] = x, ![b] = y]

LEMMA TwoMove ==
    ASSUME RecordInv, NEW a \in Tasks, NEW b \in Tasks, a # b,
           NEW x \in Task, NEW y \in Task, Becomes(a, x, b, y)
    PROVE  Moves({a, b}, {}) /\ task'[a] = x /\ task'[b] = y
<1>1. task \in [Tasks -> Task]
  BY DEF RecordInv, RecordTypeOK
<1>2. task' \in [Tasks -> Task] /\ task'[a] = x /\ task'[b] = y
  BY <1>1 DEF Becomes
<1>3. ASSUME NEW u \in Tasks \ {a, b}
      PROVE  Kept(u, {})
  <2>1. task'[u] = task[u]
    BY <1>1 DEF Becomes
  <2> QED BY <2>1 DEF Kept, RecordInv, Places
<1> QED BY <1>2, <1>3 DEF Moves

LEMMA KilledFacts ==
    ASSUME RecordInv, NEW c \in client
    PROVE  Killed(c) \in Task /\ Killed(c).op = "start" /\ Killed(c).at = "down"
<1>1. c.cd \in Row
  BY DEF RecordInv, RecordTypeOK, Client
<1> QED BY <1>1, IdleType DEF Killed, Idle, Task, AllOps, RequestOps

\* The loop that receives a kill will store that the instance is down, and
\* nobody is logged in by then.
LEMMA LoopArrives ==
    ASSUME RecordInv, NEW c \in client, Kill(c), task'["loop"] = Killed(c)
    PROVE  Arrives("loop")
BY KilledFacts DEF Arrives, HoldsCopy, Nobody, Kill, Refreshing

LEMMA DisconnectOK ==
    ASSUME RecordInv, NEW r \in Requests, Disconnect(r)
    PROVE  StepTaken
<1>1. r \in Tasks \ {"events", "loop"} /\ task[r].op = "disconnect"
      /\ "loop" \in Tasks /\ "events" # "loop"
  BY RequestIsTask DEF Disconnect, At, Tasks
<1>2. ASSUME At(r, "disconnect", "down"), NEW c \in client, Kill(c),
             task' = [task EXCEPT ![r].at = "save", !["loop"] = Killed(c)],
             UNCHANGED <<row, session, clobbered>>
      PROVE  StepTaken
  <2>1. Goto(r, "save") \in Task /\ Goto(r, "save").at = "save"
        /\ Goto(r, "save").op = "disconnect"
        /\ Goto(r, "save").mine = task[r].mine
        /\ Goto(r, "save").missed = task[r].missed
    BY <1>1, GotoFacts
  <2>2. Becomes(r, Goto(r, "save"), "loop", Killed(c))
    BY <1>2 DEF Goto, Becomes
  <2>3. /\ Moves({r, "loop"}, {}) /\ task'[r] = Goto(r, "save")
        /\ task'["loop"] = Killed(c)
    BY <1>1, <2>1, <2>2, KilledFacts, TwoMove
  <2>4. IsCopy(task[r], row)
    BY <1>1, <1>2 DEF RecordInv, CopyInv, HoldsCopy, At
  <2>5. IsCopy(task'[r], row')
    BY <1>2, <2>1, <2>3, <2>4 DEF IsCopy
  <2>6. Arrives(r)
    BY <1>2, <2>1, <2>3, <2>5 DEF Arrives, TakesDown, At, Refreshing
  <2>7. Arrives("loop")
    BY <1>2, <2>3, LoopArrives
  <2>8. client' = {} /\ session' = session /\ session \in BOOLEAN
    BY <1>2 DEF Kill, RecordInv, RecordTypeOK
  <2>9. HandlerGoesOn({r, "loop"})
    BY <1>1 DEF HandlerGoesOn
  <2> QED BY <1>2, <2>3, <2>6, <2>7, <2>8, <2>9, QuietOK
<1>3. ASSUME At(r, "disconnect", "save"), Update(r, [conf |-> ""], Idle),
             UNCHANGED <<session, client>>
      PROVE  StepTaken
  <2> DEFINE ch == [conf |-> ""]
             W == DOMAIN ch \cup task[r].missed
  <2>1. HoldsCopy(task[r]) /\ ~Refreshing(task[r])
    BY <1>3 DEF At, HoldsCopy, Refreshing
  <2>2. IsChange(ch) /\ DOMAIN ch = {"conf"} /\ ch["conf"] = ""
    BY Changes DEF Values
  <2> Update(r, ch, Idle)
    BY <1>3
  <2> HIDE DEF ch
  <2>3. /\ Moves({r}, W) /\ task'[r] = Idle /\ Table(W)
        /\ Written(ch)
        /\ \A c \in task[r].missed : c \in clobbered'
    BY <1>1, <2>1, <2>2, IdleType, UpdateStep
  <2>4. Arrives(r)
    BY <2>1, <2>3 DEF Arrives, HoldsCopy, TakesDown, Idle
  <2>5. \A c \in W \ {"conf"} : c \in clobbered'
    BY <2>2, <2>3
  <2>6. \A x \in row' : x.conf = ""
    BY <2>2, <2>3 DEF Written
  <2> HIDE DEF W
  <2>7. Writes(r, W)
    BY <2>5, <2>6 DEF Writes
  <2> QED BY <1>1, <1>3, <2>3, <2>4, <2>7, WriteOK
<1> QED BY <1>2, <1>3 DEF Disconnect

\* Who stores that the instance is down has missed a login that is stored,
\* or nobody is logged in, or the login is still to be stored.
LEMMA DownWrite ==
    ASSUME RecordInv, NEW t \in Tasks, TakesDown(task[t]), client' = client
    PROVE  \/ "connected" \in task[t].missed
           \/ Nobody
           \/ task["events"].op = "connected"
BY DEF RecordInv, DownInv, Nobody

LEMMA LogoutOK ==
    ASSUME RecordInv, NEW r \in Requests, Logout(r)
    PROVE  StepTaken
<1>1. r \in Tasks \ {"events", "loop"} /\ task[r].op = "logout"
      /\ "loop" \in Tasks /\ "events" # "loop"
  BY RequestIsTask DEF Logout, At, Tasks
<1>2. ASSUME task[r].at \in {"down", "cut"},
             client' = {[c EXCEPT !.link = "off", !.named = FALSE] : c \in client},
             session' = (session /\ task[r].at = "cut"),
             Proceed(r, Goto(r, IF task[r].at = "cut" THEN "clean" ELSE "save"), {}),
             UNCHANGED <<row, clobbered>>
      PROVE  StepTaken
  <2> DEFINE at == IF task[r].at = "cut" THEN "clean" ELSE "save"
             next == Goto(r, at)
  <2>1. /\ at \in {"save", "clean"} /\ (at = "save" => task[r].at = "down")
        /\ next \in Task /\ next.at = at /\ next.op = "logout"
        /\ next.mine = task[r].mine /\ next.missed = task[r].missed
    <3>1. at \in {"save", "clean"} /\ (at = "save" => task[r].at = "down")
      BY <1>2
    <3> HIDE DEF at
    <3> QED BY <1>1, <3>1, GotoFacts
  <2> Proceed(r, next, {})
    BY <1>2
  <2> HIDE DEF at, next
  <2>2. Moves({r}, {}) /\ task'[r] = next /\ Table({})
    BY <1>1, <1>2, <2>1, QuietStep
  <2>3. at = "save" => IsCopy(task[r], row)
    BY <1>1, <2>1 DEF RecordInv, CopyInv, HoldsCopy
  <2>4. at = "save" => IsCopy(task'[r], row')
    <3>1. row' = row
      BY <1>2
    <3> QED BY <2>1, <2>2, <2>3, <3>1 DEF IsCopy
  <2>5. ASSUME NEW b \in client
        PROVE  LET c == [b EXCEPT !.link = "off", !.named = FALSE]
               IN c \in Client /\ ~LoggedIn(c) /\ c.my = b.my /\ c.old = b.old
    <3>1. b \in Client
      BY DEF RecordInv, RecordTypeOK
    <3> QED BY <3>1 DEF Client, LoggedIn
  <2>6. /\ client' \subseteq Client /\ Nobody
        /\ \A c \in client' : \E b \in client : b.my = c.my /\ b.old = c.old
    BY <1>2, <2>5 DEF Nobody
  <2>7. ASSUME NEW a \in client', NEW b \in client'
        PROVE  a = b
    <3>1. PICK d \in client : a = [d EXCEPT !.link = "off", !.named = FALSE]
      BY <1>2
    <3>2. PICK e \in client : b = [e EXCEPT !.link = "off", !.named = FALSE]
      BY <1>2
    <3>3. d = e
      BY DEF RecordInv, RecordTypeOK
    <3> QED BY <3>1, <3>2, <3>3, Zenon
  <2>8. Arrives(r)
    BY <1>2, <2>1, <2>2, <2>4, <2>6 DEF Arrives, HoldsCopy, Refreshing
  <2>9. task'["events"].op = task["events"].op
    BY <1>1, <2>2, EventsKept
  <2>10. session' \in BOOLEAN /\ (session' => session)
    BY <1>2 DEF RecordInv, RecordTypeOK
  <2>11. Pairs({}) /\ Logs({}) /\ Sets({})
    BY <1>2, <2>6, <2>9, <2>10 DEF Pairs, Logs, Sets, Nobody
  <2> QED BY <2>2, <2>6, <2>7, <2>8, <2>10, <2>11 DEF StepOK, StepTaken
<1>3. ASSUME At(r, "logout", "save"),
             Update(r, [connected |-> FALSE], Goto(r, "clean")),
             UNCHANGED <<session, client>>
      PROVE  StepTaken
  <2> DEFINE W == DOMAIN [connected |-> FALSE] \cup task[r].missed
  <2>1. HoldsCopy(task[r]) /\ ~Refreshing(task[r]) /\ TakesDown(task[r])
    BY <1>3 DEF At, HoldsCopy, Refreshing, TakesDown
  <2>2. IsChange([connected |-> FALSE]) /\ DOMAIN [connected |-> FALSE] = {"connected"}
    BY Changes
  <2>3. Goto(r, "clean") \in Task /\ Goto(r, "clean").at = "clean"
        /\ Goto(r, "clean").op = "logout"
    BY <1>1, GotoFacts
  <2>4. /\ Moves({r}, W) /\ task'[r] = Goto(r, "clean") /\ Table(W)
        /\ \A c \in task[r].missed : c \in clobbered'
    BY <1>1, <1>3, <2>1, <2>2, <2>3, UpdateStep
  <2>5. Arrives(r)
    BY <2>1, <2>3, <2>4 DEF Arrives, HoldsCopy, TakesDown
  <2>6. \A c \in W \ {"connected"} : c \in clobbered'
    BY <2>2, <2>4
  <2>7. "connected" \in clobbered' \/ Nobody \/ task["events"].op = "connected"
    BY <1>1, <1>3, <2>1, <2>4, DownWrite
  <2> HIDE DEF W
  <2>8. Writes(r, W)
    BY <2>6, <2>7 DEF Writes
  <2> QED BY <1>1, <1>3, <2>4, <2>5, <2>8, WriteOK
<1>4. ASSUME At(r, "logout", "clean"), NEW c \in client, Kill(c),
             task' = [task EXCEPT ![r] = Idle, !["loop"] = Killed(c)],
             UNCHANGED <<row, session, clobbered>>
      PROVE  StepTaken
  <2> Becomes(r, Idle, "loop", Killed(c))
    BY <1>4 DEF Becomes
  <2>1. /\ Moves({r, "loop"}, {}) /\ task'[r] = Idle /\ task'["loop"] = Killed(c)
    BY <1>1, KilledFacts, IdleType, TwoMove
  <2>2. Arrives(r)
    BY <1>4, <2>1 DEF Arrives, HoldsCopy, TakesDown, At, Refreshing, Idle
  <2>3. Arrives("loop")
    BY <1>4, <2>1, LoopArrives
  <2>4. client' = {} /\ session' = session /\ session \in BOOLEAN
    BY <1>4 DEF Kill, RecordInv, RecordTypeOK
  <2>5. HandlerGoesOn({r, "loop"})
    BY <1>1 DEF HandlerGoesOn
  <2> QED BY <1>4, <2>1, <2>2, <2>3, <2>4, <2>5, QuietOK
<1>5. ASSUME At(r, "logout", "clean"), client' = {}, Proceed(r, Idle, {}),
             UNCHANGED <<row, session, clobbered>>
      PROVE  StepTaken
  <2>1. Moves({r}, {}) /\ task'[r] = Idle
    BY <1>1, <1>5, IdleType, QuietStep
  <2>2. Arrives(r)
    BY <1>5, <2>1 DEF Arrives, HoldsCopy, TakesDown, At, Refreshing, Idle
  <2>3. HandlerGoesOn({r}) /\ session \in BOOLEAN
    BY <1>1 DEF HandlerGoesOn, RecordInv, RecordTypeOK
  <2> QED BY <1>5, <2>1, <2>2, <2>3, QuietOK
<1> QED BY <1>2, <1>3, <1>4, <1>5 DEF Logout

LEMMA DeleteInstanceOK ==
    ASSUME RecordInv, NEW r \in Requests, DeleteInstance(r)
    PROVE  StepTaken
<1>1. r \in Tasks \ {"events"} /\ task[r].op = "delete"
  BY RequestIsTask DEF DeleteInstance
<1>2. ASSUME task[r].at = "teardown",
             session' = (session /\ ~ \E c \in client : c.link = "in"),
             client' = {}, Proceed(r, Goto(r, "gone"), {}), UNCHANGED <<row, clobbered>>
      PROVE  StepTaken
  <2>1. Goto(r, "gone") \in Task /\ Goto(r, "gone").at = "gone"
        /\ Goto(r, "gone").op = "delete"
    BY <1>1, GotoFacts
  <2>2. Moves({r}, {}) /\ task'[r] = Goto(r, "gone")
    BY <1>1, <1>2, <2>1, QuietStep
  <2>3. Arrives(r)
    BY <1>2, <2>1, <2>2 DEF Arrives, HoldsCopy, TakesDown, Refreshing
  <2>4. session' \in BOOLEAN /\ (session' => session) /\ HandlerGoesOn({r})
    BY <1>1, <1>2 DEF HandlerGoesOn
  <2>5. client' = {} /\ row' = row /\ clobbered' = clobbered
    BY <1>2
  <2> QED BY <2>2, <2>3, <2>4, <2>5, QuietOK
<1>3. ASSUME task[r].at = "gone", row' = {}, clobbered' = {},
             Proceed(r, Idle, Columns), UNCHANGED <<session, client>>
      PROVE  StepTaken
  <2>1. Moves({r}, Columns) /\ task'[r] = Idle
    BY <1>1, <1>3, IdleType, ProceedMoves DEF RecordInv
  <2>2. Table(Columns)
    BY <1>3 DEF Table, RowKeeps, RecordInv, RecordTypeOK
  <2>3. Arrives(r)
    BY <1>3, <2>1 DEF Arrives, HoldsCopy, TakesDown, Refreshing, Idle
  <2>4. Writes(r, Columns)
    BY <1>3 DEF Writes
  <2> QED BY <1>1, <1>3, <2>1, <2>2, <2>3, <2>4, WriteOK
<1> QED BY <1>2, <1>3 DEF DeleteInstance

\* The copy a task reads is the row, and it has missed nothing.
LEMMA GetStep ==
    ASSUME RecordInv, NEW t \in Tasks,
           NEW at \in {"launch", "save", "clean"}, GetInstance(t, at)
    PROVE  /\ Moves({t}, {}) /\ row' = row /\ clobbered' = clobbered
           /\ \/ row = {} /\ task'[t] = Idle
              \/ /\ task'[t].op = task[t].op /\ task'[t].at = at
                 /\ IsCopy(task'[t], row')
<1>1. row' = row /\ clobbered' = clobbered
  BY DEF GetInstance
<1>2. CASE row = {}
  <2>1. Proceed(t, Idle, {})
    BY <1>2 DEF GetInstance
  <2> QED BY <1>1, <1>2, <2>1, IdleType, QuietStep
<1>3. CASE row # {}
  <2> DEFINE x == CHOOSE r \in row : TRUE
             next == [Goto(t, at) EXCEPT !.mine = x, !.missed = {}]
  <2>1. Proceed(t, next, {})
    BY <1>3 DEF GetInstance
  <2>2. x \in row /\ x \in Row /\ \A r \in row : r = x
    BY <1>3 DEF RecordInv, RecordTypeOK
  <2> HIDE DEF x
  <2>3. /\ next \in Task /\ next.at = at /\ next.op = task[t].op
        /\ next.mine = x /\ next.missed = {}
    <3> DEFINE one == [Goto(t, at) EXCEPT !.mine = x]
    <3>1. one \in Task /\ one.at = at /\ one.op = task[t].op /\ one.mine = x
      BY <2>2, GotoFacts DEF Task
    <3>2. next = [one EXCEPT !.missed = {}]
      BY Zenon
    <3> HIDE DEF one
    <3> QED BY <3>1, <3>2 DEF Task
  <2> HIDE DEF next
  <2>4. Moves({t}, {}) /\ task'[t] = next
    BY <1>1, <2>1, <2>3, QuietStep
  <2>5. IsCopy(task'[t], row')
    BY <1>1, <1>3, <2>2, <2>3, <2>4 DEF IsCopy
  <2> QED BY <1>1, <2>3, <2>4, <2>5
<1> QED BY <1>2, <1>3

LEMMA ForceReconnectOK ==
    ASSUME RecordInv, NEW r \in Requests, ForceReconnect(r)
    PROVE  StepTaken
<1> DEFINE next == [Goto(r, "gone") EXCEPT !.missed = {}]
<1>1. r \in Tasks \ {"events"} /\ task[r].op = "force" /\ HandlerGoesOn({r})
      /\ session \in BOOLEAN
  BY RequestIsTask DEF ForceReconnect, HandlerGoesOn, RecordInv, RecordTypeOK
<1>2. next \in Task /\ next.at = "gone" /\ next.op = "force"
  BY <1>1, GotoFacts DEF Task
<1>3. ASSUME task[r].at = "teardown",
             NEW n \in {next, Idle}, Proceed(r, n, {}),
             UNCHANGED <<row, session, client, clobbered>>
      PROVE  StepTaken
  <2> HIDE DEF next
  <2>1. n \in Task
    BY <1>2, IdleType
  <2>2. Moves({r}, {}) /\ task'[r] = n
    BY <1>1, <1>3, <2>1, QuietStep
  <2>3. Arrives(r)
    BY <1>2, <1>3, <2>2 DEF Arrives, HoldsCopy, TakesDown, Refreshing, Idle
  <2> QED BY <1>1, <1>3, <2>2, <2>3, QuietOK
<1>4. ASSUME task[r].at = "teardown", UpdateColumns(r, [jid |-> TRUE], next),
             UNCHANGED <<session, client>>
      PROVE  StepTaken
  <2> DEFINE ch == [jid |-> TRUE]
  <2>1. IsChange(ch) /\ DOMAIN ch = {"jid"} /\ ch["jid"] = TRUE
    BY Changes
  <2>2. UpdateColumns(r, ch, next)
    BY <1>4
  <2> HIDE DEF next, ch
  <2> Moves({r}, DOMAIN ch) /\ task'[r] = next /\ Table(DOMAIN ch) /\ Written(ch)
    BY <1>1, <1>2, <2>1, <2>2, UpdateColumnsStep
  <2>3. Moves({r}, {"jid"}) /\ task'[r] = next /\ Table({"jid"}) /\ Written(ch)
    BY <2>1, Zenon
  <2>4. Arrives(r)
    BY <1>2, <1>4, <2>3 DEF Arrives, HoldsCopy, TakesDown, Refreshing
  <2>5. \A x \in row' : x.jid = TRUE
    BY <2>1, <2>3 DEF Written
  <2>6. Writes(r, {"jid"})
    BY <2>5 DEF Writes
  <2> QED BY <1>1, <1>4, <2>3, <2>4, <2>6, WriteOK
<1>5. ASSUME task[r].at = "gone", GetInstance(r, "clean"), UNCHANGED <<session, client>>
      PROVE  StepTaken
  <2>1. /\ Moves({r}, {}) /\ row' = row /\ clobbered' = clobbered
        /\ \/ row = {} /\ task'[r] = Idle
           \/ /\ task'[r].op = task[r].op /\ task'[r].at = "clean"
              /\ IsCopy(task'[r], row')
    BY <1>1, <1>5, GetStep
  <2>2. Arrives(r)
    BY <1>1, <1>5, <2>1 DEF Arrives, HoldsCopy, TakesDown, Refreshing, Idle
  <2> QED BY <1>1, <1>5, <2>1, <2>2, QuietOK
<1>6. ASSUME task[r].at = "clean", client' = {}, Proceed(r, Goto(r, "launch"), {}),
             UNCHANGED <<row, session, clobbered>>
      PROVE  StepTaken
  <2>1. Goto(r, "launch") \in Task /\ Goto(r, "launch").at = "launch"
        /\ Goto(r, "launch").op = "force"
    BY <1>1, GotoFacts
  <2>2. Moves({r}, {}) /\ task'[r] = Goto(r, "launch")
    BY <1>1, <1>6, <2>1, QuietStep
  <2>3. Arrives(r)
    BY <1>6, <2>1, <2>2 DEF Arrives, HoldsCopy, TakesDown, Refreshing
  <2> QED BY <1>1, <1>6, <2>2, <2>3, QuietOK
<1> HIDE DEF next
<1>7. \/ /\ task[r].at = "teardown" /\ UNCHANGED <<session, client>>
         /\ \/ /\ Proceed(r, Idle, {}) \/ Proceed(r, next, {})
               /\ UNCHANGED <<row, clobbered>>
            \/ UpdateColumns(r, [jid |-> TRUE], next)
      \/ task[r].at = "gone" /\ GetInstance(r, "clean") /\ UNCHANGED <<session, client>>
      \/ /\ task[r].at = "clean" /\ client' = {} /\ Proceed(r, Goto(r, "launch"), {})
         /\ UNCHANGED <<row, session, clobbered>>
  BY DEF ForceReconnect, next
<1> QED BY <1>3, <1>4, <1>5, <1>6, <1>7

-----------------------------------------------------------------------------
(* Clients.                                                                 *)

LEMMA StartInstanceOK ==
    ASSUME RecordInv, NEW t \in Requests \cup {"again"}, StartInstance(t)
    PROVE  StepTaken
<1>1. t \in Tasks \ {"events"} /\ task[t].at = "read" /\ task[t].op # "connected"
  BY RequestIsTask DEF StartInstance, Tasks, RecordInv, Places
<1>2. GetInstance(t, "launch") /\ session' = session /\ client' = client
  BY DEF StartInstance
<1>3. /\ Moves({t}, {}) /\ row' = row /\ clobbered' = clobbered
      /\ \/ row = {} /\ task'[t] = Idle
         \/ /\ task'[t].op = task[t].op /\ task'[t].at = "launch"
            /\ IsCopy(task'[t], row')
  BY <1>1, <1>2, GetStep
<1>4. Arrives(t)
  BY <1>1, <1>3 DEF Arrives, HoldsCopy, TakesDown, Refreshing, Idle
<1>5. HandlerGoesOn({t}) /\ session \in BOOLEAN
  BY <1>1 DEF HandlerGoesOn, RecordInv, RecordTypeOK
<1> QED BY <1>2, <1>3, <1>4, <1>5, QuietOK

LEMMA ReconnectClientOK ==
    ASSUME RecordInv, NEW t \in Requests \cup {"again"}, ReconnectClient(t)
    PROVE  StepTaken
<1>1. t \in Tasks \ {"events"} /\ task[t].op = "reconnect" /\ HandlerGoesOn({t})
      /\ session \in BOOLEAN
  BY RequestIsTask DEF ReconnectClient, Tasks, HandlerGoesOn, RecordInv, RecordTypeOK
<1>2. ASSUME task[t].at = "teardown", client' = {},
             Proceed(t, [Goto(t, "gone") EXCEPT !.missed = {}], {}),
             UNCHANGED <<row, session, clobbered>>
      PROVE  StepTaken
  <2> DEFINE next == [Goto(t, "gone") EXCEPT !.missed = {}]
  <2>1. next \in Task /\ next.at = "gone" /\ next.op = "reconnect"
    BY <1>1, GotoFacts DEF Task
  <2> Proceed(t, next, {})
    BY <1>2
  <2> HIDE DEF next
  <2>2. Moves({t}, {}) /\ task'[t] = next
    BY <1>1, <1>2, <2>1, QuietStep
  <2>3. Arrives(t)
    BY <1>2, <2>1, <2>2 DEF Arrives, HoldsCopy, Nobody, Refreshing
  <2> QED BY <1>1, <1>2, <2>2, <2>3, QuietOK
<1>3. ASSUME task[t].at = "gone",
             UpdateConnected(t, FALSE, IF row = {} THEN Idle ELSE Goto(t, "read")),
             UNCHANGED <<session, client>>
      PROVE  StepTaken
  <2> DEFINE ch == [connected |-> FALSE]
             next == IF row = {} THEN Idle ELSE Goto(t, "read")
  <2>1. next \in Task /\ \/ next = Idle
                         \/ next.at = "read" /\ next.op = "reconnect"
    BY <1>1, IdleType, GotoFacts
  <2>2. IsChange(ch) /\ DOMAIN ch = {"connected"}
    BY Changes
  <2>3. UpdateColumns(t, ch, next)
    BY <1>3 DEF UpdateConnected
  <2>4. clobbered' = (clobbered \ {"connected"}) \cup ({"connected"} \cap task[t].missed)
    BY <2>2, <2>3 DEF UpdateColumns
  <2> HIDE DEF next, ch
  <2> Moves({t}, DOMAIN ch) /\ task'[t] = next /\ Table(DOMAIN ch)
    BY <1>1, <2>1, <2>2, <2>3, UpdateColumnsStep
  <2>5. Moves({t}, {"connected"}) /\ task'[t] = next /\ Table({"connected"})
    BY <2>2, Zenon
  <2>6. Arrives(t)
    BY <1>3, <2>1, <2>5 DEF Arrives, HoldsCopy, TakesDown, Refreshing, Idle
  <2>7. TakesDown(task[t])
    BY <1>1, <1>3 DEF TakesDown
  <2>8. "connected" \in clobbered' \/ Nobody \/ task["events"].op = "connected"
    BY <1>1, <1>3, <2>4, <2>7, DownWrite
  <2>9. Writes(t, {"connected"})
    BY <2>8 DEF Writes
  <2> QED BY <1>1, <1>3, <2>5, <2>6, <2>9, WriteOK
<1> QED BY <1>2, <1>3 DEF ReconnectClient

\* Another client takes the place of the one that is down.  Unless its copy is
\* old, it has the settings of the row.
LEMMA LaunchReadOK ==
    ASSUME RecordInv, NEW t \in Requests \cup {"again", "loop"}, LaunchRead(t)
    PROVE  StepTaken
<1> DEFINE cd == task[t].mine
           new == [cd |-> cd, my |-> cd, paired |-> cd.jid /\ session,
                   link |-> "off", named |-> FALSE, old |-> Old(cd)]
           ch == [connected |-> FALSE]
<1>1. /\ t \in Tasks \ {"events"} /\ task[t].at = "launch" /\ HandlerGoesOn({t})
      /\ session \in BOOLEAN /\ cd \in Row
  BY RequestIsTask DEF LaunchRead, Tasks, HandlerGoesOn, RecordInv, RecordTypeOK, Task
<1>2. session' = session /\ Launch(t, cd, Idle)
  BY DEF LaunchRead
<1>3. ASSUME Proceed(t, Idle, {}), UNCHANGED <<row, client, clobbered>>
      PROVE  StepTaken
  <2>1. Moves({t}, {}) /\ task'[t] = Idle
    BY <1>1, <1>3, IdleType, QuietStep
  <2>2. Arrives(t)
    BY <1>1, <2>1 DEF Arrives, HoldsCopy, TakesDown, Refreshing, Idle
  <2> QED BY <1>1, <1>2, <1>3, <2>1, <2>2, QuietOK
<1>4. ASSUME client' = {new},
             \/ UpdateConnected(t, FALSE, Idle)
             \/ Proceed(t, Idle, {}) /\ UNCHANGED <<row, clobbered>>
      PROVE  StepTaken
  <2>1. Old(cd) \in BOOLEAN
    BY DEF Old
  <2>2. /\ new \in Client /\ ~LoggedIn(new)
        /\ new.my = cd /\ new.old = Old(cd)
    BY <1>1, <2>1 DEF Client, Row, LoggedIn
  <2> HIDE DEF new
  <2>3. client' \subseteq Client /\ (\A a, b \in client' : a = b) /\ Nobody
    BY <1>4, <2>2 DEF Nobody
  <2>4. PICK W \in {{}, {"connected"}} :
          Moves({t}, W) /\ task'[t] = Idle /\ Table(W)
    <3>1. CASE Proceed(t, Idle, {}) /\ UNCHANGED <<row, clobbered>>
      BY <1>1, <3>1, IdleType, QuietStep
    <3>2. CASE UpdateConnected(t, FALSE, Idle)
      <4>1. IsChange(ch) /\ DOMAIN ch = {"connected"}
        BY Changes
      <4>2. UpdateColumns(t, ch, Idle)
        BY <3>2 DEF UpdateConnected
      <4> HIDE DEF ch
      <4>3. Moves({t}, DOMAIN ch) /\ task'[t] = Idle /\ Table(DOMAIN ch)
        BY <1>1, <4>1, <4>2, IdleType, UpdateColumnsStep
      <4> QED BY <4>1, <4>3, Zenon
    <3> QED BY <1>4, <3>1, <3>2
  <2>5. \A c \in {"adv", "conf"}, x \in row' : \E r \in row : x[c] = r[c]
    BY <2>4 DEF Table, RowKeeps, Columns
  <2>6. AllFit
    <3> SUFFICES ASSUME ~Old(cd)
                 PROVE  AdvFits(new, row') /\ ConfFits(new, row')
      BY <1>4, <2>2 DEF AllFit, AdvFits, ConfFits
    <3>1. \A r \in row : cd.conf = r.conf /\ cd.adv = r.adv
      BY DEF Old
    <3> HIDE DEF cd
    <3> QED BY <2>2, <2>5, <3>1 DEF AdvFits, ConfFits
  <2>7. Arrives(t)
    BY <1>1, <2>4 DEF Arrives, HoldsCopy, TakesDown, Refreshing, Idle
  <2>8. task'["events"].op = task["events"].op
    BY <1>1, <2>4, EventsKept
  <2>9. Pairs(W)
    BY <1>2, <2>4, <2>8 DEF Pairs
  <2>10. Logs(W)
    BY <2>3, <2>8 DEF Logs, Nobody
  <2>11. Sets(W)
    BY <2>4, <2>6 DEF Sets, AllFit
  <2>12. session' \in BOOLEAN /\ \A u \in {t} : Arrives(u)
    BY <1>1, <1>2, <2>7
  <2> QED BY <2>3, <2>4, <2>9, <2>10, <2>11, <2>12 DEF StepOK, StepTaken
<1>5. \/ Proceed(t, Idle, {}) /\ UNCHANGED <<row, client, clobbered>>
      \/ /\ client' = {new}
         /\ \/ UpdateConnected(t, FALSE, Idle)
            \/ Proceed(t, Idle, {}) /\ UNCHANGED <<row, clobbered>>
  BY <1>2, Zenon DEF Launch
<1> QED BY <1>3, <1>4, <1>5

LEMMA ConnectedOK ==
    ASSUME RecordInv, Connected
    PROVE  StepTaken
<1>1. task["events"] = Idle /\ "events" \in Tasks
  BY DEF Connected, RecordInv, Places, Tasks
<1>2. PICK b \in client, named \in BOOLEAN :
        /\ client' = {[b EXCEPT !.link = IF b.paired THEN "in" ELSE "qr",
                                !.named = named]}
        /\ IF named
           THEN Proceed("events", [Idle EXCEPT !.op = "connected",
                                               !.at = "column"], {})
           ELSE UNCHANGED task
  BY DEF Connected
<1> DEFINE link == IF b.paired THEN "in" ELSE "qr"
           one == [b EXCEPT !.link = link]
           c == [one EXCEPT !.named = named]
           next == [Idle EXCEPT !.op = "connected", !.at = "column"]
<1>3. UNCHANGED <<row, session, clobbered>>
  BY DEF Connected
<1>4. /\ c \in Client /\ c.my = b.my /\ c.old = b.old /\ c.named = named
  <2>1. b \in Client
    BY DEF RecordInv, RecordTypeOK
  <2>2. one \in Client /\ one.my = b.my /\ one.old = b.old
    BY <2>1 DEF Client
  <2> HIDE DEF one
  <2> QED BY <2>2 DEF Client
<1>5. client' = {c}
  BY <1>2, Zenon
<1> HIDE DEF c
<1>6. next \in Task /\ next.op = "connected" /\ next.at = "column"
  BY IdleType DEF Idle, Task
<1> HIDE DEF next
<1>7. Table({})
  BY <1>3, QuietTable
<1>8. /\ Moves({"events"}, {})
      /\ \/ named /\ task'["events"] = next
         \/ ~named /\ task'["events"] = Idle
  <2>1. CASE named
    <3>1. Proceed("events", next, {})
      BY <1>2, <2>1 DEF next
    <3> QED BY <1>1, <1>3, <1>6, <2>1, <3>1, QuietStep
  <2>2. CASE ~named
    <3>1. task' = task
      BY <1>2, <2>2
    <3>2. \A u \in Tasks : Kept(u, {})
      BY <3>1 DEF Kept, RecordInv, Places
    <3> QED BY <1>1, <2>2, <3>1, <3>2 DEF Moves, RecordInv, RecordTypeOK
  <2> QED BY <2>1, <2>2
<1>9. Arrives("events")
  BY <1>1, <1>6, <1>8 DEF Arrives, HoldsCopy, TakesDown, Refreshing, Idle
<1>10. Pairs({})
  BY <1>1, <1>3 DEF Pairs, Idle
<1>11. Logs({})
  <2>1. CASE named
    BY <1>1, <1>6, <1>8, <2>1 DEF Logs, Idle
  <2>2. CASE ~named
    BY <1>1, <1>4, <1>5, <2>2 DEF Logs, Idle, LoggedIn
  <2> QED BY <2>1, <2>2
<1>12. Sets({})
  BY <1>4, <1>5 DEF Sets
<1>13. session' \in BOOLEAN /\ client' \subseteq Client /\ \A x, y \in client' : x = y
  BY <1>3, <1>4, <1>5 DEF RecordInv, RecordTypeOK
<1> QED BY <1>7, <1>8, <1>9, <1>10, <1>11, <1>12, <1>13 DEF StepOK, StepTaken

-----------------------------------------------------------------------------
(* Event handlers.                                                          *)

\* A pairing or a login that is no longer on its way has been stored.
HandlerWrites(W) ==
    /\ task["events"].op = "pair" => "jid" \in clobbered' \/ \A x \in row' : x.jid
    /\ task["events"].op = "connected" =>
         "connected" \in W /\ \A x \in row' : x.connected

\* The event handler writes, and the client stays.
LEMMA HandlerWriteOK ==
    ASSUME RecordInv, NEW W, Moves({"events"}, W), Table(W), Arrives("events"),
           session' = session, client' = client, Writes("events", W), HandlerWrites(W)
    PROVE  StepTaken
<1>1. Pairs(W)
  BY DEF Pairs, Writes, HandlerWrites
<1>2. Logs(W)
  BY DEF Logs, Nobody, Writes, HandlerWrites
<1>3. Sets(W)
  BY DEF Sets, Writes, Moves
<1>4. session' \in BOOLEAN /\ client' \subseteq Client /\ \A a, b \in client' : a = b
  BY DEF RecordInv, RecordTypeOK
<1> QED BY <1>1, <1>2, <1>3, <1>4 DEF StepOK, StepTaken

\* Storing "connected" or "not connected", and going on as next.
LEMMA StoreConnected ==
    ASSUME RecordInv, NEW t \in Tasks, NEW b \in BOOLEAN, NEW next \in Task,
           UpdateConnected(t, b, next)
    PROVE  /\ Moves({t}, {"connected"}) /\ task'[t] = next /\ Table({"connected"})
           /\ \A x \in row' : x.connected = b
           /\ "connected" \in task[t].missed => "connected" \in clobbered'
<1> DEFINE ch == [connected |-> b]
<1>1. IsChange(ch) /\ DOMAIN ch = {"connected"} /\ ch["connected"] = b
  BY Changes
<1>2. UpdateColumns(t, ch, next)
  BY DEF UpdateConnected
<1> HIDE DEF ch
<1>3. /\ Moves({t}, DOMAIN ch) /\ task'[t] = next /\ Table(DOMAIN ch) /\ Written(ch)
      /\ clobbered' = (clobbered \ DOMAIN ch) \cup (DOMAIN ch \cap task[t].missed)
  BY <1>1, <1>2, UpdateColumnsStep DEF UpdateColumns
<1>4. Moves({t}, {"connected"}) /\ Table({"connected"})
  BY <1>1, <1>3, Zenon
<1>5. \A x \in row' : x.connected = b
  BY <1>1, <1>3 DEF Written
<1>6. "connected" \in task[t].missed => "connected" \in clobbered'
  BY <1>1, <1>3
<1> QED BY <1>3, <1>4, <1>5, <1>6

LEMMA EventsTask == "events" \in Tasks /\ "loop" \in Tasks /\ "again" \in Tasks
BY DEF Tasks

LEMMA ConnectedStoredOK ==
    ASSUME RecordInv, ConnectedStored
    PROVE  StepTaken
<1>1. UpdateConnected("events", TRUE, Idle) /\ task["events"].op = "connected"
      /\ task["events"].at = "column" /\ session' = session /\ client' = client
  BY DEF ConnectedStored, At
<1>2. /\ Moves({"events"}, {"connected"}) /\ task'["events"] = Idle
      /\ Table({"connected"}) /\ \A x \in row' : x.connected = TRUE
  BY <1>1, EventsTask, IdleType, StoreConnected
<1>3. Arrives("events")
  BY <1>1, <1>2 DEF Arrives, HoldsCopy, TakesDown, Refreshing, Idle
<1>4. Writes("events", {"connected"}) /\ HandlerWrites({"connected"})
  BY <1>1, <1>2 DEF Writes, HandlerWrites
<1> QED BY <1>1, <1>2, <1>3, <1>4, HandlerWriteOK

LEMMA PairSuccessReadOK ==
    ASSUME RecordInv, PairSuccessRead
    PROVE  StepTaken
<1>1. GetInstance("events", "save") /\ task["events"].op = "pair"
      /\ task["events"].at = "read" /\ session' = session /\ client' = client
  BY DEF PairSuccessRead, At
<1>2. /\ Moves({"events"}, {}) /\ row' = row /\ clobbered' = clobbered
      /\ \/ row = {} /\ task'["events"] = Idle
         \/ /\ task'["events"].op = "pair" /\ task'["events"].at = "save"
            /\ IsCopy(task'["events"], row')
  BY <1>1, EventsTask, GetStep
<1>3. Arrives("events")
  BY <1>1, <1>2 DEF Arrives, HoldsCopy, TakesDown, Refreshing, Idle
<1>4. HandlerGoesOn({"events"}) /\ session \in BOOLEAN
  BY <1>1, <1>2 DEF HandlerGoesOn, RecordInv, RecordTypeOK
<1> QED BY <1>1, <1>2, <1>3, <1>4, QuietOK

LEMMA PairSuccessSaveOK ==
    ASSUME RecordInv, PairSuccessSave
    PROVE  StepTaken
<1> DEFINE ch == [jid |-> TRUE, connected |-> TRUE]
           W == DOMAIN ch \cup task["events"].missed
<1>1. Update("events", ch, Idle) /\ task["events"].op = "pair"
      /\ task["events"].at = "save" /\ session' = session /\ client' = client
  BY DEF PairSuccessSave, At
<1>2. /\ IsChange(ch) /\ DOMAIN ch = {"jid", "connected"}
      /\ ch["jid"] = TRUE /\ ch["connected"] = TRUE
  BY Changes
<1>3. HoldsCopy(task["events"])
  BY <1>1 DEF HoldsCopy
<1> HIDE DEF ch
<1>4. /\ Moves({"events"}, W) /\ task'["events"] = Idle /\ Table(W) /\ Written(ch)
      /\ \A c \in task["events"].missed : c \in clobbered'
  BY <1>1, <1>2, <1>3, EventsTask, IdleType, UpdateStep
<1>5. \A c \in W \ {"jid", "connected"} : c \in clobbered'
  BY <1>2, <1>4
<1>6. \A x \in row' : x.jid = TRUE /\ x.connected = TRUE
  BY <1>2, <1>4 DEF Written
<1>7. Arrives("events")
  BY <1>1, <1>4 DEF Arrives, HoldsCopy, TakesDown, Refreshing, Idle
<1> HIDE DEF W
<1>8. Writes("events", W) /\ HandlerWrites(W)
  BY <1>1, <1>5, <1>6 DEF Writes, HandlerWrites
<1> QED BY <1>1, <1>4, <1>7, <1>8, HandlerWriteOK

LEMMA ConnectionLostStoredOK ==
    ASSUME RecordInv, ConnectionLostStored
    PROVE  StepTaken
<1>1. PICK op \in {"drop", "loggedout"} :
        /\ task["events"].op = op /\ task["events"].at = "column"
        /\ UpdateConnected("events", FALSE,
                           [Goto("events", "down") EXCEPT !.missed = {}])
        /\ session' = session /\ client' = client
  BY DEF ConnectionLostStored, At
<1> DEFINE next == [Goto("events", "down") EXCEPT !.missed = {}]
<1>2. next \in Task /\ next.at = "down" /\ next.op = op
  <2>1. /\ Goto("events", "down") \in Task /\ Goto("events", "down").at = "down"
        /\ Goto("events", "down").op = task["events"].op
    BY EventsTask, GotoFacts
  <2> HIDE DEF Goto
  <2>2. next \in Task /\ next.at = "down" /\ next.op = task["events"].op
    BY <2>1 DEF Task
  <2> QED BY <1>1, <2>2
<1> HIDE DEF next
<1>3. UpdateConnected("events", FALSE, next)
  BY <1>1 DEF next
<1>4. /\ Moves({"events"}, {"connected"}) /\ task'["events"] = next
      /\ Table({"connected"})
      /\ "connected" \in task["events"].missed => "connected" \in clobbered'
  BY <1>2, <1>3, EventsTask, StoreConnected
<1>5. Arrives("events")
  BY <1>1, <1>2, <1>4 DEF Arrives, HoldsCopy, TakesDown, Refreshing
<1>6. TakesDown(task["events"])
  BY <1>1 DEF TakesDown
<1>7. "connected" \in task["events"].missed \/ Nobody
  BY <1>1, <1>6, EventsTask, DownWrite
<1>8. Writes("events", {"connected"}) /\ HandlerWrites({"connected"})
  BY <1>1, <1>4, <1>7 DEF Writes, HandlerWrites
<1> QED BY <1>1, <1>4, <1>5, <1>8, HandlerWriteOK

LEMMA ReconnectAfterDropOK ==
    ASSUME RecordInv, ReconnectAfterDrop
    PROVE  StepTaken
<1> DEFINE next == [Idle EXCEPT !.op = "reconnect", !.at = "teardown"]
<1>1. /\ task["events"].op = "drop" /\ task["events"].at = "down"
      /\ task["again"].at = "idle" /\ Becomes("events", Idle, "again", next)
      /\ UNCHANGED <<row, session, client, clobbered>>
  BY DEF ReconnectAfterDrop, At, Becomes
<1>2. next \in Task /\ next.op = "reconnect" /\ next.at = "teardown"
  BY IdleType DEF Idle, Task, AllOps, RequestOps
<1> HIDE DEF next
<1>3. /\ Moves({"events", "again"}, {}) /\ task'["events"] = Idle
      /\ task'["again"] = next
  BY <1>1, <1>2, IdleType, EventsTask, TwoMove
<1>4. Arrives("events")
  BY <1>1, <1>3 DEF Arrives, HoldsCopy, TakesDown, Refreshing, Idle
<1>5. Arrives("again")
  BY <1>1, <1>2, <1>3 DEF Arrives, HoldsCopy, TakesDown, Refreshing
<1>6. HandlerGoesOn({"events", "again"}) /\ session \in BOOLEAN
  BY <1>1 DEF HandlerGoesOn, RecordInv, RecordTypeOK
<1> QED BY <1>1, <1>3, <1>4, <1>5, <1>6, QuietOK

LEMMA NobodyToKillOK ==
    ASSUME RecordInv, NobodyToKill
    PROVE  StepTaken
<1>1. /\ task["events"].op = "loggedout" /\ task["events"].at = "down"
      /\ Proceed("events", Idle, {}) /\ UNCHANGED <<row, session, client, clobbered>>
  BY DEF NobodyToKill, At
<1>2. Moves({"events"}, {}) /\ task'["events"] = Idle
  BY <1>1, EventsTask, IdleType, QuietStep
<1>3. Arrives("events")
  BY <1>1, <1>2 DEF Arrives, HoldsCopy, TakesDown, Refreshing, Idle
<1>4. HandlerGoesOn({"events"}) /\ session \in BOOLEAN
  BY <1>1 DEF HandlerGoesOn, RecordInv, RecordTypeOK
<1> QED BY <1>1, <1>2, <1>3, <1>4, QuietOK

LEMMA KillStoredOK ==
    ASSUME RecordInv, KillStored
    PROVE  StepTaken
<1> DEFINE next == Goto("loop", "launch")
<1>1. /\ task["loop"].op = "start" /\ task["loop"].at = "down"
      /\ UpdateConnected("loop", FALSE, next) /\ session' = session /\ client' = client
  BY DEF KillStored, At
<1>2. next \in Task /\ next.at = "launch" /\ next.op = "start"
  BY <1>1, EventsTask, GotoFacts
<1> HIDE DEF next
<1>3. /\ Moves({"loop"}, {"connected"}) /\ task'["loop"] = next /\ Table({"connected"})
      /\ "connected" \in task["loop"].missed => "connected" \in clobbered'
  BY <1>1, <1>2, EventsTask, StoreConnected
<1>4. Arrives("loop")
  BY <1>1, <1>2, <1>3 DEF Arrives, HoldsCopy, TakesDown, Refreshing
<1>5. TakesDown(task["loop"])
  BY <1>1 DEF TakesDown
<1>6. \/ "connected" \in task["loop"].missed \/ Nobody
      \/ task["events"].op = "connected"
  BY <1>1, <1>5, EventsTask, DownWrite
<1>7. Writes("loop", {"connected"})
  BY <1>3, <1>6 DEF Writes
<1>8. "loop" \in Tasks \ {"events"}
  BY EventsTask
<1> QED BY <1>1, <1>3, <1>4, <1>7, <1>8, WriteOK

-----------------------------------------------------------------------------
(* What begins: requests, events, crashes.                                  *)

\* Auth hands a request a copy that is the row.
LEMMA AuthOK ==
    ASSUME RecordInv, NEW r \in Requests, Auth(r)
    PROVE  StepTaken
<1>1. PICK op \in Ops \cap RequestOps, m \in row :
        Proceed(r, [Idle EXCEPT !.op = op,
                      !.mine = IF op \in {"advanced", "reconnect", "start",
                                          "delete"} THEN Blank ELSE m,
                      !.at = CASE op \in {"connect", "setproxy", "removeproxy"}
                                    -> "save"
                               [] op = "advanced" -> "column"
                               [] op \in {"delete", "force"} -> "teardown"
                               [] OTHER -> "ensure"], {})
  BY DEF Auth
<1> DEFINE mine == IF op \in {"advanced", "reconnect", "start", "delete"}
                   THEN Blank ELSE m
           at == CASE op \in {"connect", "setproxy", "removeproxy"} -> "save"
                   [] op = "advanced" -> "column"
                   [] op \in {"delete", "force"} -> "teardown"
                   [] OTHER -> "ensure"
           one == [Idle EXCEPT !.op = op]
           two == [one EXCEPT !.mine = mine]
           next == [two EXCEPT !.at = at]
<1>2. /\ r \in Tasks \ {"events"} /\ task[r].at = "idle"
      /\ UNCHANGED <<row, session, client, clobbered>> /\ session \in BOOLEAN
  BY RequestIsTask DEF Auth, RecordInv, RecordTypeOK
<1>3. Proceed(r, next, {})
  BY <1>1, Zenon
<1>4. mine \in Row /\ (op \in {"connect", "setproxy", "removeproxy", "disconnect",
                              "logout"} => mine = m)
  BY IdleType DEF RecordInv, RecordTypeOK
<1>5. /\ at \in {"save", "column", "teardown", "ensure"}
      /\ at = "save" => op \in {"connect", "setproxy", "removeproxy"}
      /\ at = "column" => op = "advanced"
  BY Zenon
<1> HIDE DEF mine, at
<1>6. next \in Task /\ next.op = op /\ next.at = at /\ next.mine = mine
      /\ next.missed = {}
  <2>1. one \in Task /\ one.op = op /\ one.missed = {}
    BY IdleType DEF Idle, Task, AllOps
  <2> HIDE DEF one
  <2>2. two \in Task /\ two.op = op /\ two.mine = mine /\ two.missed = {}
    BY <1>4, <2>1 DEF Task
  <2> HIDE DEF two
  <2> QED BY <1>5, <2>2 DEF Task
<1> HIDE DEF next
<1>7. Moves({r}, {}) /\ task'[r] = next
  BY <1>2, <1>3, <1>6, QuietStep
<1>8. HoldsCopy(next) => IsCopy(next, row)
  <2>1. HoldsCopy(next) => mine = m
    BY <1>4, <1>5, <1>6 DEF HoldsCopy
  <2>2. row # {} /\ \A x \in row : x = m
    BY DEF RecordInv, RecordTypeOK
  <2> QED BY <1>6, <2>1, <2>2 DEF IsCopy
<1>9. ~TakesDown(next) /\ next.op # "connected" /\ next.at # "idle"
  BY <1>5, <1>6 DEF TakesDown, RequestOps
<1>10. Arrives(r)
  BY <1>2, <1>7, <1>8, <1>9 DEF Arrives, Refreshing
<1> QED BY <1>2, <1>7, <1>10, QuietOK DEF HandlerGoesOn

\* PairSuccess and a lost connection put the client's link off and leave the
\* rest to the handler.
LEMMA PairSuccessOK ==
    ASSUME RecordInv, PairSuccess
    PROVE  StepTaken
<1> DEFINE next == [Idle EXCEPT !.op = "pair", !.at = "read"]
<1>1. PICK b \in client : client' = {[b EXCEPT !.paired = TRUE, !.link = "off"]}
  BY DEF PairSuccess
<1>2. /\ task["events"] = Idle /\ session' = TRUE /\ row' = row
      /\ clobbered' = clobbered /\ Proceed("events", next, {})
  BY EventsTask DEF PairSuccess, RecordInv, Places
<1> DEFINE one == [b EXCEPT !.paired = TRUE]
           c == [one EXCEPT !.link = "off"]
<1>3. c \in Client /\ ~LoggedIn(c) /\ c.my = b.my /\ c.old = b.old
  <2>1. b \in Client
    BY DEF RecordInv, RecordTypeOK
  <2>2. one \in Client /\ one.my = b.my /\ one.old = b.old
    BY <2>1 DEF Client
  <2> HIDE DEF one
  <2> QED BY <2>2 DEF Client, LoggedIn
<1>4. client' = {c}
  BY <1>1, Zenon
<1> HIDE DEF c
<1>5. next \in Task /\ next.op = "pair" /\ next.at = "read"
  BY IdleType DEF Idle, Task, AllOps, EventOps
<1> HIDE DEF next
<1>6. Moves({"events"}, {}) /\ task'["events"] = next /\ Table({})
  BY <1>2, <1>5, EventsTask, QuietStep
<1>7. Arrives("events")
  BY <1>2, <1>5, <1>6 DEF Arrives, HoldsCopy, TakesDown, Refreshing, Idle
<1>8. Pairs({}) /\ Logs({}) /\ Sets({})
  BY <1>2, <1>3, <1>4, <1>5, <1>6 DEF Pairs, Logs, Sets, Nobody, Idle
<1>9. session' \in BOOLEAN /\ client' \subseteq Client /\ \A x, y \in client' : x = y
  BY <1>2, <1>3, <1>4
<1> QED BY <1>6, <1>7, <1>8, <1>9 DEF StepOK, StepTaken

LEMMA ConnectionLostOK ==
    ASSUME RecordInv, ConnectionLost
    PROVE  StepTaken
<1>1. PICK op \in {"drop", "loggedout"} \cap Ops, b \in client :
        /\ client' = {[b EXCEPT !.link = "off", !.named = FALSE]}
        /\ session' = (session /\ op = "drop")
        /\ Proceed("events", [Idle EXCEPT !.op = op, !.at = "column"], {})
  BY DEF ConnectionLost
<1> DEFINE next == [Idle EXCEPT !.op = op, !.at = "column"]
           one == [b EXCEPT !.link = "off"]
           c == [one EXCEPT !.named = FALSE]
<1>2. /\ task["events"] = Idle /\ row' = row /\ clobbered' = clobbered
      /\ session' \in BOOLEAN /\ (session' => session)
  BY <1>1, EventsTask DEF ConnectionLost, RecordInv, Places
<1>3. c \in Client /\ ~LoggedIn(c) /\ c.my = b.my /\ c.old = b.old
  <2>1. b \in Client
    BY DEF RecordInv, RecordTypeOK
  <2>2. one \in Client /\ one.my = b.my /\ one.old = b.old
    BY <2>1 DEF Client
  <2> HIDE DEF one
  <2> QED BY <2>2 DEF Client, LoggedIn
<1>4. client' = {c} /\ Proceed("events", next, {})
  BY <1>1, Zenon
<1> HIDE DEF c
<1>5. next \in Task /\ next.op = op /\ next.at = "column"
  BY IdleType DEF Idle, Task, AllOps, EventOps
<1> HIDE DEF next
<1>6. Moves({"events"}, {}) /\ task'["events"] = next /\ Table({})
  BY <1>2, <1>4, <1>5, EventsTask, QuietStep
<1>7. Nobody
  BY <1>3, <1>4 DEF Nobody
<1>8. Arrives("events")
  BY <1>2, <1>5, <1>6, <1>7 DEF Arrives, HoldsCopy, Refreshing, Idle
<1>9. Pairs({}) /\ Logs({}) /\ Sets({})
  BY <1>2, <1>3, <1>4, <1>7 DEF Pairs, Logs, Sets, Nobody, Idle
<1>10. client' \subseteq Client /\ \A x, y \in client' : x = y
  BY <1>3, <1>4
<1> QED BY <1>2, <1>6, <1>8, <1>9, <1>10 DEF StepOK, StepTaken

LEMMA KillAfterEventOK ==
    ASSUME RecordInv, KillAfterEvent
    PROVE  StepTaken
<1>1. PICK c \in client :
        /\ Kill(c)
        /\ task' = [task EXCEPT !["events"] = Idle, !["loop"] = Killed(c)]
  BY DEF KillAfterEvent
<1>2. \/ task["events"].op = "loggedout" /\ task["events"].at = "down"
      \/ task["events"] = Idle
  BY EventsTask DEF KillAfterEvent, At, RecordInv, Places
<1>3. UNCHANGED <<row, session, clobbered>> /\ session \in BOOLEAN
  BY DEF KillAfterEvent, RecordInv, RecordTypeOK
<1> Becomes("events", Idle, "loop", Killed(c))
  BY <1>1 DEF Becomes
<1>4. /\ Moves({"events", "loop"}, {}) /\ task'["events"] = Idle
      /\ task'["loop"] = Killed(c)
  BY KilledFacts, IdleType, EventsTask, TwoMove
<1>5. Arrives("events")
  BY <1>2, <1>4 DEF Arrives, HoldsCopy, TakesDown, Refreshing, Idle
<1>6. Arrives("loop")
  BY <1>1, <1>4, LoopArrives
<1>7. client' = {}
  BY <1>1 DEF Kill
<1>8. HandlerGoesOn({"events", "loop"})
  BY <1>2 DEF HandlerGoesOn, Idle
<1> QED BY <1>3, <1>4, <1>5, <1>6, <1>7, <1>8, QuietOK

\* A crash leaves the row, and forgets every copy.
LEMMA CrashRestartOK ==
    ASSUME RecordInv, CrashRestart
    PROVE  StepTaken
<1> DEFINE next == [Idle EXCEPT !.op = "crash", !.at = "read"]
<1>1. /\ row' = row /\ session' = session /\ client' = {} /\ session \in BOOLEAN
      /\ clobbered \subseteq clobbered' /\ clobbered' \subseteq Columns
      /\ task["events"].op = "pair" => "jid" \in clobbered'
  BY DEF CrashRestart, RecordInv, RecordTypeOK, Columns
<1>2. next \in Task /\ next.op = "crash" /\ next.at = "read"
  BY IdleType DEF Idle, Task, AllOps, EventOps
<1>3. \A t \in Tasks : task'[t] \in {Idle, next}
  BY DEF CrashRestart
<1> HIDE DEF next
<1>4. task' \in [Tasks -> Task]
  BY <1>2, <1>3, IdleType DEF CrashRestart
<1>5. Moves(Tasks, {})
  BY <1>4 DEF Moves
<1>6. Table({})
  BY <1>1 DEF Table, RowKeeps, RecordInv, RecordTypeOK
<1>7. AllFit
  BY <1>1 DEF AllFit
<1>8. ASSUME NEW t \in Tasks
      PROVE  Arrives(t)
  BY <1>2, <1>3, <1>7 DEF Arrives, HoldsCopy, TakesDown, Idle
<1>9. Pairs({})
  BY <1>1 DEF Pairs
<1>10. Logs({})
  BY <1>1 DEF Logs, Nobody
<1>11. Sets({})
  BY <1>1 DEF Sets
<1>12. session' \in BOOLEAN /\ client' \subseteq Client /\ \A a, b \in client' : a = b
  BY <1>1
<1>13. StepOK(Tasks, {})
  BY <1>5, <1>6, <1>8, <1>9, <1>10, <1>11, <1>12 DEF StepOK
<1> QED BY <1>13 DEF StepTaken

-----------------------------------------------------------------------------
(* The theorems.                                                            *)

LEMMA InitHolds == RecordInit => RecordInv
<1> SUFFICES ASSUME RecordInit
             PROVE  RecordInv
  OBVIOUS
<1>1. Paired \in Row /\ Paired.jid = TRUE /\ Paired.connected = TRUE
  BY IdleType DEF Paired, Row, Blank
<1> DEFINE c == [cd |-> Paired, my |-> Paired, paired |-> TRUE,
                 link |-> "in", named |-> TRUE, old |-> FALSE]
<1>2. /\ task = [t \in Tasks |-> Idle] /\ clobbered = {} /\ ops = 0
      /\ row = {Blank} \/ row = {Paired}
      /\ session \in BOOLEAN /\ (session => row = {Paired})
      /\ client = {} \/ (client = {c} /\ row = {Paired})
  BY DEF RecordInit
<1>3. c \in Client /\ c.my = Paired /\ c.old = FALSE
  BY <1>1 DEF Client
<1> HIDE DEF c
<1>4. client \subseteq Client /\ \A a, b \in client : a = b
  BY <1>2, <1>3
<1>5. \A t \in Tasks : task[t] = Idle
  BY <1>2
<1>6. RecordTypeOK
  <2>1. 0 \in 0..MaxOps
    <3>1. MaxOps \in Nat
      BY RecordAssumption
    <3> QED BY <3>1
  <2>2. row \subseteq Row /\ \A a, b \in row : a = b
    BY <1>1, <1>2, IdleType
  <2>3. task \in [Tasks -> Task] /\ clobbered \subseteq Columns
    BY <1>2, IdleType
  <2> QED BY <1>2, <1>4, <2>1, <2>2, <2>3 DEF RecordTypeOK
<1>7. Places /\ CopyInv /\ DownInv
  BY <1>5 DEF Places, CopyInv, DownInv, HoldsCopy, TakesDown, Idle
<1>8. PairingIsSaved /\ UpInv
  BY <1>1, <1>2 DEF PairingIsSaved, UpInv
<1>9. SettingsInv
  <2>1. \A d \in client, r \in row : d.my = r
    BY <1>2, <1>3
  <2> QED BY <2>1 DEF SettingsInv, AdvFits, ConfFits
<1> QED BY <1>6, <1>7, <1>8, <1>9 DEF RecordInv

\* What every step may do, whoever takes it: others learn of what it writes.
LEMMA EveryStep ==
    ASSUME RecordInv, Next
    PROVE  StepTaken /\ ops' \in 0..MaxOps
<1>1. ops \in 0..MaxOps
  BY DEF RecordInv, RecordTypeOK
<1>2. Begins => ops' \in 0..MaxOps
  <2>1. MaxOps \in Nat
    BY RecordAssumption
  <2> QED BY <1>1, <2>1 DEF Begins
<1>3. CASE Continue /\ UNCHANGED ops
  <2>1. ASSUME NEW r \in Requests, Request(r)
        PROVE  StepTaken
    BY <2>1, ConnectSaveOK, UpdateAdvancedSettingsOK, ReadSettingsOK, ApplySettingsOK,
       ProxySaveOK, EnsureClientConnectedOK, DisconnectOK, LogoutOK,
       DeleteInstanceOK, ForceReconnectOK DEF Request
  <2>2. StepTaken
    BY <1>3, <2>1, StartInstanceOK, ReconnectClientOK, LaunchReadOK, ConnectedOK,
       ConnectedStoredOK, PairSuccessReadOK, PairSuccessSaveOK,
       ConnectionLostStoredOK, ReconnectAfterDropOK, NobodyToKillOK, KillStoredOK
    DEF Continue
  <2> QED BY <1>1, <1>3, <2>2
<1>4. CASE \E r \in Requests : Auth(r)
  BY <1>2, <1>4, AuthOK DEF Auth
<1>5. CASE PairSuccess
  BY <1>2, <1>5, PairSuccessOK DEF PairSuccess
<1>6. CASE ConnectionLost
  BY <1>2, <1>6, ConnectionLostOK DEF ConnectionLost
<1>7. CASE KillAfterEvent
  BY <1>1, <1>2, <1>7, KillAfterEventOK DEF KillAfterEvent
<1>8. CASE CrashRestart
  BY <1>2, <1>8, CrashRestartOK DEF CrashRestart
<1> QED BY <1>3, <1>4, <1>5, <1>6, <1>7, <1>8 DEF Next

\* Every step keeps the invariant, and so does a step that changes nothing.
LEMMA StepHolds == RecordInv /\ [Next]_vars => RecordInv'
<1>1. ASSUME RecordInv, Next
      PROVE  RecordInv'
  BY <1>1, EveryStep, StepKeeps DEF StepTaken
<1>2. ASSUME RecordInv, UNCHANGED vars
      PROVE  RecordInv'
  <2>1. /\ row' = row /\ session' = session /\ client' = client /\ ops' = ops
        /\ task' = task /\ clobbered' = clobbered
    BY <1>2 DEF vars
  <2>2. RecordTypeOK' /\ Places'
    BY <1>2, <2>1 DEF RecordInv, RecordTypeOK, Places
  <2>3. CopyInv' /\ PairingIsSaved'
    BY <1>2, <2>1 DEF RecordInv, CopyInv, PairingIsSaved
  <2>4. DownInv' /\ UpInv' /\ SettingsInv'
    BY <1>2, <2>1 DEF RecordInv, DownInv, UpInv, SettingsInv
  <2> QED BY <2>2, <2>3, <2>4 DEF RecordInv
<1> QED BY <1>1, <1>2

\* A copy that will be saved differs from the row in columns its task is known
\* to have missed only: the invariant of gorm's Save beside other writers.
THEOREM RecordInvariance == Spec => []RecordInv
<1> QED BY InitHolds, StepHolds, PTL DEF Spec

\* The row, the clients and the tasks have their types: at most one row, one client.
THEOREM RecordTypeInvariance == Spec => []RecordTypeOK
<1>1. RecordInv => RecordTypeOK
  BY DEF RecordInv
<1> QED BY <1>1, RecordInvariance, PTL

\* A handled PairSuccess is in the row unless a Save that had missed it, or a
\* crash, took the JID out.
THEOREM PairingStaysSaved == Spec => []PairingIsSaved
<1>1. RecordInv => PairingIsSaved
  BY DEF RecordInv
<1> QED BY <1>1, RecordInvariance, PTL

\* A login whose handler has run is in the row as connected, so a restart
\* brings the instance back, unless a writer had missed the write before.
THEOREM ConnectionStaysSaved == Spec => []ConnectionIsSaved
<1>1. RecordInv => ConnectionIsSaved
  <2> SUFFICES ASSUME RecordInv, \A t \in Tasks : task[t].at = "idle",
                      "connected" \notin clobbered
               PROVE  \A c \in client, r \in row :
                        c.link = "in" /\ c.named => r.connected
    BY DEF ConnectionIsSaved
  <2>1. task["events"].op # "connected"
    BY EventsTask DEF RecordInv, Places, Idle
  <2> QED BY <2>1 DEF RecordInv, UpInv, LoggedIn
<1> QED BY <1>1, RecordInvariance, PTL

\* With no request under way the client has the settings of the row.
THEOREM SettingsReachTheClient == Spec => []RuntimeHasSettings
<1>1. RecordInv => RuntimeHasSettings
  <2> SUFFICES ASSUME RecordInv, \A t \in Tasks : task[t].at = "idle",
                      {"adv", "conf"} \cap clobbered = {}
               PROVE  \A c \in client, r \in row :
                        c.old \/ (c.my.adv = r.adv /\ r.conf \in {c.my.conf, ""})
    BY DEF RuntimeHasSettings
  <2>1. \A t \in Tasks : ~Refreshing(task[t])
    BY DEF Refreshing
  <2> QED BY <2>1 DEF RecordInv, SettingsInv, AdvFits, ConfFits
<1> QED BY <1>1, RecordInvariance, PTL
=============================================================================
