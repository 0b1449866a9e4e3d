--------------------------- MODULE TaskStoreProofs ---------------------------
(***************************************************************************)
(* Theorems about TaskStore, for every set of tasks, processes and columns. *)
(***************************************************************************)
EXTENDS TaskStore, WellFoundedInduction, TLAPS

(* A set of log positions has a last one. *)
HasLatest(S) == \E m \in S : \A j \in S : j <= m

(* The last position of a set is any member that bounds it. *)
LEMMA LatestIsMax ==
  ASSUME NEW S, S \subseteq Nat, NEW m \in S, \A j \in S : j <= m
  PROVE  Latest(S) = m
<1>1. \E i \in S : \A j \in S : j <= i
  OBVIOUS
<1>2. /\ Latest(S) \in S
      /\ \A j \in S : j <= Latest(S)
  BY <1>1 DEF Latest
<1>3. /\ Latest(S) <= m
      /\ m <= Latest(S)
  BY <1>2
<1>4. Latest(S) \in Nat /\ m \in Nat
  BY <1>2
<1>5. QED
  BY <1>3, <1>4

LEMMA LatestInSet ==
  ASSUME NEW S, HasLatest(S)
  PROVE  Latest(S) \in S
BY DEF HasLatest, Latest

(* A member of Fields assigns values to some of the columns. *)
LEMMA FieldsAssign ==
  ASSUME NEW set \in Fields
  PROVE  /\ DOMAIN set \subseteq Column
         /\ \A c \in DOMAIN set : set[c] \in Value
BY DEF Fields

LEMMA OverwriteType ==
  ASSUME NEW cols \in [Column -> Value \cup {NoValue}], NEW set \in Fields
  PROVE  Overwrite(cols, set) \in [Column -> Value \cup {NoValue}]
BY FieldsAssign DEF Overwrite

(* Where an appended event is written. *)
LEMMA WritesAppend ==
  ASSUME NEW l \in Seq(Event), NEW e \in Event, NEW t
  PROVE  /\ e.task = t => Writes(Append(l, e), t) = Writes(l, t) \cup {Len(l) + 1}
         /\ e.task # t => Writes(Append(l, e), t) = Writes(l, t)
<1> DEFINE m == Append(l, e)
<1>1. /\ DOMAIN l = 1..Len(l)
      /\ DOMAIN m = 1..(Len(l) + 1)
      /\ m[Len(l) + 1] = e
      /\ \A i \in 1..Len(l) : m[i] = l[i]
      /\ Len(l) \in Nat
  OBVIOUS
<1> HIDE DEF m
<1>2. \A i : i \in Writes(m, t) <=> i \in Writes(l, t) \/ (i = Len(l) + 1 /\ e.task = t)
  BY <1>1 DEF Writes
<1>3. QED
  BY <1>2 DEF m

LEMMA WritesToAppend ==
  ASSUME NEW l \in Seq(Event), NEW e \in Event, NEW t, NEW c
  PROVE  /\ (e.task = t /\ c \in DOMAIN e.set) =>
              WritesTo(Append(l, e), t, c) = WritesTo(l, t, c) \cup {Len(l) + 1}
         /\ ~(e.task = t /\ c \in DOMAIN e.set) =>
              WritesTo(Append(l, e), t, c) = WritesTo(l, t, c)
<1> DEFINE m == Append(l, e)
<1>1. /\ DOMAIN l = 1..Len(l)
      /\ DOMAIN m = 1..(Len(l) + 1)
      /\ m[Len(l) + 1] = e
      /\ \A i \in 1..Len(l) : m[i] = l[i]
      /\ Len(l) \in Nat
  OBVIOUS
<1> HIDE DEF m
<1>2. \A i : i \in WritesTo(m, t, c) <=>
               \/ i \in WritesTo(l, t, c)
               \/ i = Len(l) + 1 /\ e.task = t /\ c \in DOMAIN e.set
  BY <1>1 DEF WritesTo, Writes
<1>3. QED
  BY <1>2 DEF m

(* An event appended to a set of positions becomes its last. *)
LEMMA AppendedIsLatest ==
  ASSUME NEW l \in Seq(Event), NEW S, S \subseteq DOMAIN l
  PROVE  /\ HasLatest(S \cup {Len(l) + 1})
         /\ Latest(S \cup {Len(l) + 1}) = Len(l) + 1
<1>1. /\ S \cup {Len(l) + 1} \subseteq Nat
      /\ \A j \in S \cup {Len(l) + 1} : j <= Len(l) + 1
      /\ Len(l) + 1 \in Nat
  OBVIOUS
<1>2. QED
  BY <1>1, LatestIsMax DEF HasLatest

-----------------------------------------------------------------------------
(* Every variable has its type, and the rows are the tasks of the log.      *)

LEMMA InitTypeOK == Init => TypeOK
<1> SUFFICES ASSUME Init PROVE TypeOK
  OBVIOUS
<1>1. tasks \in [DOMAIN tasks -> Row] /\ DOMAIN tasks = {}
  BY DEF Init
<1>2. log \in Seq(Event) /\ DOMAIN log = {}
  BY DEF Init
<1>3. call \in [Proc -> Call \cup {Idle}] /\ \A p \in Proc : call[p] = Idle
  BY DEF Init
<1>4. QED
  BY <1>1, <1>2, <1>3 DEF TypeOK, Logged

(* The tasks of a log after an append. *)
LEMMA TasksOfAppend ==
  ASSUME NEW l \in Seq(Event), NEW e \in Event
  PROVE  Logged(Append(l, e)) = Logged(l) \cup {e.task}
<1> DEFINE m == Append(l, e)
<1>1. /\ DOMAIN l = 1..Len(l)
      /\ DOMAIN m = 1..(Len(l) + 1)
      /\ m[Len(l) + 1] = e
      /\ \A i \in 1..Len(l) : m[i] = l[i]
      /\ Len(l) \in Nat
  OBVIOUS
<1> HIDE DEF m
<1>2. \A i \in DOMAIN m : m[i].task \in {l[j].task : j \in DOMAIN l} \cup {e.task}
  BY <1>1
<1>3. \A i \in DOMAIN l : i \in DOMAIN m /\ m[i].task = l[i].task
  BY <1>1
<1>4. Len(l) + 1 \in DOMAIN m /\ m[Len(l) + 1].task = e.task
  BY <1>1
<1>5. Logged(m) = Logged(l) \cup {e.task}
  BY <1>2, <1>3, <1>4 DEF Logged
<1>6. QED
  BY <1>5 DEF m

(* A call in flight is a well-typed record on a task. *)
LEMMA InFlight ==
  ASSUME TypeOK, NEW p \in Proc, call[p] # Idle
  PROVE  /\ call[p] \in Call
         /\ call[p].task \in Task
         /\ call[p].task \in DOMAIN tasks
         /\ call[p].from \in STATES
         /\ call[p].to \in STATES
         /\ call[p].set \in Fields
BY DEF TypeOK, Call

(* The event a write appends. *)
LEMMA WrittenEvent ==
  ASSUME NEW k \in Call
  PROVE  [type |-> "task.state_changed", task |-> k.task, from |-> k.from,
          to |-> k.to, set |-> k.set] \in Event
BY DEF Call, Event, Changed

(* The event create_task appends. *)
LEMMA CreatedEvent ==
  ASSUME NEW t \in Task
  PROVE  [type |-> "task.created", task |-> t, to |-> "blocked",
          set |-> [c \in Column |-> NoValue]] \in Event
BY DEF Event, Created

LEMMA NextTypeOK == TypeOK /\ [Next]_vars => TypeOK'
<1> SUFFICES ASSUME TypeOK, [Next]_vars PROVE TypeOK'
  OBVIOUS
<1>1. ASSUME NEW t \in Task, CreateTask(t) PROVE TypeOK'
  <2> DEFINE none == [c \in Column |-> NoValue]
             e == [type |-> "task.created", task |-> t, to |-> "blocked", set |-> none]
  <2>1. e \in Event
    BY CreatedEvent
  <2>2. log' = Append(log, e) /\ log \in Seq(Event)
    BY <1>1 DEF CreateTask, TypeOK
  <2>3. log' \in Seq(Event)
    BY <2>1, <2>2
  <2>4. Logged(log)' = DOMAIN tasks \cup {t}
    BY <2>1, <2>2, TasksOfAppend DEF TypeOK
  <2>5. /\ DOMAIN tasks' = DOMAIN tasks \cup {t}
        /\ tasks'[t] = [state |-> "blocked", cols |-> none]
        /\ \A u \in DOMAIN tasks : tasks'[u] = tasks[u]
        /\ tasks' = [u \in DOMAIN tasks' |-> tasks'[u]]
    BY <1>1 DEF CreateTask
  <2>6. tasks'[t] \in Row
    BY <2>5 DEF Row, STATES
  <2>7. tasks' \in [DOMAIN tasks' -> Row]
    BY <2>5, <2>6 DEF TypeOK
  <2>8. UNCHANGED call
    BY <1>1 DEF CreateTask
  <2>9. QED
    BY <2>3, <2>4, <2>5, <2>7, <2>8 DEF TypeOK
<1>2. ASSUME NEW p \in Proc, NEW t \in Task, NEW to \in STATES, NEW set \in Fields,
             TransitionRead(p, t, to, set)
      PROVE TypeOK'
  <2>1. tasks[t].state \in STATES
    BY <1>2 DEF TransitionRead, TypeOK, Row
  <2>2. [task |-> t, from |-> tasks[t].state, to |-> to, set |-> set] \in Call
    BY <2>1 DEF Call
  <2>3. /\ call' \in [Proc -> Call \cup {Idle}]
        /\ \A q \in Proc : call'[q] # Idle => call'[q].task \in DOMAIN tasks
    BY <1>2, <2>2 DEF TransitionRead, TypeOK
  <2>4. UNCHANGED <<tasks, log>>
    BY <1>2 DEF TransitionRead
  <2>5. QED
    BY <2>3, <2>4 DEF TypeOK
<1>3. ASSUME NEW p \in Proc, TransitionWrite(p) PROVE TypeOK'
  <2> DEFINE k == call[p]
             e == [type |-> "task.state_changed", task |-> k.task, from |-> k.from,
                   to |-> k.to, set |-> k.set]
             row == [state |-> k.to, cols |-> Overwrite(tasks[k.task].cols, k.set)]
  <2>1. /\ k \in Call
        /\ k.task \in DOMAIN tasks
        /\ k.to \in STATES
        /\ k.set \in Fields
    BY <1>3, InFlight DEF TransitionWrite
  <2>2. e \in Event
    BY <2>1, WrittenEvent
  <2>3. log' = Append(log, e) /\ log \in Seq(Event)
    BY <1>3 DEF TransitionWrite, TypeOK
  <2>4. log' \in Seq(Event)
    BY <2>2, <2>3
  <2>5. Logged(log)' = DOMAIN tasks
    <3>1. Logged(log') = Logged(log) \cup {e.task}
      BY <2>2, <2>3, TasksOfAppend
    <3>2. e.task \in Logged(log)
      BY <2>1 DEF TypeOK
    <3>3. QED
      BY <3>1, <3>2 DEF TypeOK
  <2>6. row \in Row
    <3>1. tasks[k.task].cols \in [Column -> Value \cup {NoValue}]
      BY <2>1 DEF TypeOK, Row
    <3>2. QED
      BY <2>1, <3>1, OverwriteType DEF Row
  <2>7. tasks' = [tasks EXCEPT ![k.task] = row]
    BY <1>3 DEF TransitionWrite
  <2>8. tasks' \in [DOMAIN tasks -> Row] /\ DOMAIN tasks' = DOMAIN tasks
    BY <2>6, <2>7 DEF TypeOK
  <2>9. /\ call' \in [Proc -> Call \cup {Idle}]
        /\ \A q \in Proc : call'[q] # Idle => call'[q].task \in DOMAIN tasks
    BY <1>3 DEF TransitionWrite, TypeOK
  <2>10. QED
    BY <2>4, <2>5, <2>8, <2>9 DEF TypeOK
<1>4. ASSUME NEW p \in Proc, CrashInCall(p) PROVE TypeOK'
  BY <1>4 DEF CrashInCall, TypeOK
<1>5. CASE UNCHANGED vars
  BY <1>5 DEF vars, TypeOK
<1>6. QED
  BY <1>1, <1>2, <1>3, <1>4, <1>5 DEF Next

(* Types hold in every reachable state. *)
THEOREM StoreTyped == Spec => []TypeOK
BY InitTypeOK, NextTypeOK, PTL DEF Spec

-----------------------------------------------------------------------------
(* The table is the replay of the log.  The inductive form says it row by    *)
(* row, and that the positions it refers to exist.                           *)

RowFollowsLog(t) ==
  /\ HasLatest(Writes(log, t))
  /\ tasks[t].state = log[Latest(Writes(log, t))].to
  /\ \A c \in Column :
        /\ HasLatest(WritesTo(log, t, c))
        /\ tasks[t].cols[c] = log[Latest(WritesTo(log, t, c))].set[c]

RowsFollowLog == \A t \in DOMAIN tasks : RowFollowsLog(t)

LEMMA RowsFollowLogIsReplay ==
  ASSUME TypeOK, RowsFollowLog
  PROVE  ReplayMatchesTable
<1> DEFINE row(t) == [state |-> log[Latest(Writes(log, t))].to,
                      cols  |-> [c \in Column |-> log[Latest(WritesTo(log, t, c))].set[c]]]
<1>1. ASSUME NEW t \in DOMAIN tasks PROVE tasks[t] = row(t)
  <2>1. /\ tasks[t] \in Row
        /\ tasks[t].state = log[Latest(Writes(log, t))].to
        /\ \A c \in Column : tasks[t].cols[c] = log[Latest(WritesTo(log, t, c))].set[c]
    BY <1>1 DEF TypeOK, RowsFollowLog, RowFollowsLog
  <2>2. tasks[t].cols = [c \in Column |-> log[Latest(WritesTo(log, t, c))].set[c]]
    BY <2>1 DEF Row
  <2>3. tasks[t] = [state |-> tasks[t].state, cols |-> tasks[t].cols]
    BY <2>1 DEF Row
  <2>4. QED
    BY <2>1, <2>2, <2>3
<1>2. Replay(log) = [t \in DOMAIN tasks |-> row(t)]
  BY DEF Replay, TypeOK
<1>3. tasks = [t \in DOMAIN tasks |-> tasks[t]]
  BY DEF TypeOK
<1>4. QED
  BY <1>1, <1>2, <1>3 DEF ReplayMatchesTable

(* A row no event of which is appended keeps following the log. *)
LEMMA OtherRowFollows ==
  ASSUME TypeOK, NEW e \in Event, log' = Append(log, e),
         NEW t \in DOMAIN tasks, t # e.task, tasks'[t] = tasks[t], RowFollowsLog(t)
  PROVE  RowFollowsLog(t)'
<1>1. log \in Seq(Event)
  BY DEF TypeOK
<1>2. /\ Writes(log', t) = Writes(log, t)
      /\ \A c : WritesTo(log', t, c) = WritesTo(log, t, c)
  BY <1>1, WritesAppend, WritesToAppend
<1>3. /\ Latest(Writes(log, t)) \in DOMAIN log
      /\ \A c \in Column : Latest(WritesTo(log, t, c)) \in DOMAIN log
  BY LatestInSet DEF RowFollowsLog, Writes, WritesTo
<1>4. \A i \in DOMAIN log : log'[i] = log[i]
  BY <1>1
<1>5. QED
  BY <1>2, <1>3, <1>4 DEF RowFollowsLog

(* The row an appended event belongs to follows the log when it took the     *)
(* state and the columns of the event and kept its other columns.            *)
LEMMA WrittenRowFollows ==
  ASSUME TypeOK, NEW e \in Event, log' = Append(log, e),
         tasks'[e.task].state = e.to,
         \A c \in Column :
            \/ c \in DOMAIN e.set /\ tasks'[e.task].cols[c] = e.set[c]
            \/ /\ c \notin DOMAIN e.set
               /\ HasLatest(WritesTo(log, e.task, c))
               /\ tasks'[e.task].cols[c] = log[Latest(WritesTo(log, e.task, c))].set[c]
  PROVE  RowFollowsLog(e.task)'
<1> DEFINE t == e.task
<1>1. log \in Seq(Event)
  BY DEF TypeOK
<1>2. /\ log'[Len(log) + 1] = e
      /\ \A i \in DOMAIN log : log'[i] = log[i]
  BY <1>1
<1>3. /\ HasLatest(Writes(log', t))
      /\ tasks'[t].state = log'[Latest(Writes(log', t))].to
  <2>1. Writes(log', t) = Writes(log, t) \cup {Len(log) + 1}
    BY <1>1, WritesAppend
  <2>2. Writes(log, t) \subseteq DOMAIN log
    BY DEF Writes
  <2>3. /\ HasLatest(Writes(log', t))
        /\ Latest(Writes(log', t)) = Len(log) + 1
    BY <1>1, <2>1, <2>2, AppendedIsLatest
  <2>4. QED
    BY <1>2, <2>3
<1>4. ASSUME NEW c \in Column
      PROVE  /\ HasLatest(WritesTo(log', t, c))
             /\ tasks'[t].cols[c] = log'[Latest(WritesTo(log', t, c))].set[c]
  <2>1. WritesTo(log, t, c) \subseteq DOMAIN log
    BY DEF Writes, WritesTo
  <2>2. CASE c \in DOMAIN e.set
    <3>1. WritesTo(log', t, c) = WritesTo(log, t, c) \cup {Len(log) + 1}
      BY <1>1, <2>2, WritesToAppend
    <3>2. /\ HasLatest(WritesTo(log', t, c))
          /\ Latest(WritesTo(log', t, c)) = Len(log) + 1
      BY <1>1, <2>1, <3>1, AppendedIsLatest
    <3>3. QED
      BY <1>2, <2>2, <3>2
  <2>3. CASE c \notin DOMAIN e.set
    <3>1. WritesTo(log', t, c) = WritesTo(log, t, c)
      BY <1>1, <2>3, WritesToAppend
    <3>2. HasLatest(WritesTo(log, t, c)) /\ Latest(WritesTo(log, t, c)) \in DOMAIN log
      BY <2>1, <2>3, LatestInSet
    <3>3. QED
      BY <1>2, <2>3, <3>1, <3>2
  <2>4. QED
    BY <2>2, <2>3
<1>5. QED
  BY <1>3, <1>4 DEF RowFollowsLog

LEMMA NextRowsFollowLog == TypeOK /\ RowsFollowLog /\ [Next]_vars => RowsFollowLog'
<1> SUFFICES ASSUME TypeOK, RowsFollowLog, [Next]_vars,
                    NEW t \in DOMAIN tasks'
             PROVE  RowFollowsLog(t)'
  BY DEF RowsFollowLog
<1>1. ASSUME NEW u \in Task, CreateTask(u) PROVE RowFollowsLog(t)'
  <2> DEFINE none == [c \in Column |-> NoValue]
             e == [type |-> "task.created", task |-> u, to |-> "blocked", set |-> none]
  <2>1. /\ e \in Event
        /\ log' = Append(log, e)
        /\ DOMAIN tasks' = DOMAIN tasks \cup {u}
        /\ tasks'[u] = [state |-> "blocked", cols |-> none]
        /\ \A v \in DOMAIN tasks : tasks'[v] = tasks[v]
        /\ u \notin DOMAIN tasks
    BY <1>1, CreatedEvent DEF CreateTask
  <2>2. CASE t = u
    BY <2>1, <2>2, WrittenRowFollows
  <2>3. CASE t # u
    BY <2>1, <2>3, OtherRowFollows DEF RowsFollowLog
  <2>4. QED
    BY <2>2, <2>3
<1>2. ASSUME NEW p \in Proc, TransitionWrite(p) PROVE RowFollowsLog(t)'
  <2> DEFINE k == call[p]
             e == [type |-> "task.state_changed", task |-> k.task, from |-> k.from,
                   to |-> k.to, set |-> k.set]
  <2>1. k \in Call /\ k.task \in DOMAIN tasks /\ k.set \in Fields
    BY <1>2, InFlight DEF TransitionWrite
  <2>2. e \in Event /\ log' = Append(log, e)
    BY <1>2, <2>1, WrittenEvent DEF TransitionWrite
  <2>3. /\ DOMAIN tasks' = DOMAIN tasks
        /\ tasks'[k.task] = [state |-> k.to, cols |-> Overwrite(tasks[k.task].cols, k.set)]
        /\ \A v \in DOMAIN tasks : v # k.task => tasks'[v] = tasks[v]
    BY <1>2, <2>1 DEF TransitionWrite
  <2>4. CASE t = k.task
    <3>1. tasks'[e.task].state = e.to
      BY <2>3
    <3>2. ASSUME NEW c \in Column
          PROVE \/ c \in DOMAIN e.set /\ tasks'[e.task].cols[c] = e.set[c]
                \/ /\ c \notin DOMAIN e.set
                   /\ HasLatest(WritesTo(log, e.task, c))
                   /\ tasks'[e.task].cols[c] = log[Latest(WritesTo(log, e.task, c))].set[c]
      BY <2>1, <2>3 DEF Overwrite, RowsFollowLog, RowFollowsLog
    <3>3. QED
      BY <2>2, <2>4, <3>1, <3>2, WrittenRowFollows
  <2>5. CASE t # k.task
    BY <2>2, <2>3, <2>5, OtherRowFollows DEF RowsFollowLog
  <2>6. QED
    BY <2>4, <2>5
<1>3. CASE UNCHANGED <<tasks, log>>
  BY <1>3 DEF RowsFollowLog, RowFollowsLog
<1>4. QED
  BY <1>1, <1>2, <1>3 DEF Next, vars, TransitionRead, CrashInCall

(* Whatever processes write and however their calls interleave, replaying    *)
(* the whole log yields the live tasks table.                                *)
THEOREM StoreReplays == Spec => []ReplayMatchesTable
<1>1. Init => RowsFollowLog
  BY DEF Init, RowsFollowLog
<1>2. TypeOK /\ RowsFollowLog => ReplayMatchesTable
  BY RowsFollowLogIsReplay
<1>3. QED
  BY <1>1, <1>2, NextRowsFollowLog, StoreTyped, PTL DEF Spec

-----------------------------------------------------------------------------
(* The loop of replay().  FoldLeft is a function on the sets of positions of  *)
(* the log that takes the last event off a set.  That there is such a        *)
(* function, and that it takes an appended event last, is shown by least     *)
(* counterexample on the length of the log.                                  *)

(* Every set of naturals that is not empty has a least member. *)
LEMMA LeastNat ==
  ASSUME NEW T \in SUBSET Nat, T # {}
  PROVE  \E m \in T : \A k \in T : m <= k
<1> DEFINE R == {ss \in Nat \X Nat : ss[1] < ss[2]}
<1>1. IsWellFoundedOn(R, Nat)
  BY NatLessThanWellFounded DEF OpToRel
<1> HIDE DEF R
<1>2. PICK m \in T : \A k \in T : <<k, m>> \notin R
  BY <1>1, WFMin
<1>3. \A k \in T : ~(k < m)
  BY <1>2 DEF R
<1>4. QED
  BY <1>3

(* A bound of an interval that is in a set of positions is its last one. *)
LEMMA TopIsMax ==
  ASSUME NEW n \in Nat, NEW s \in SUBSET (1..n), n \in s
  PROVE  Max(s) = n
<1>1. \A y \in s : n >= y
  OBVIOUS
<1>2. Max(s) \in s /\ \A y \in s : Max(s) >= y
  BY <1>1 DEF Max
<1>3. Max(s) \in 1..n /\ Max(s) >= n
  BY <1>2
<1>4. QED
  BY <1>3

(* f is what FoldLeft computes with for the first n events of l. *)
Unwinds(f, l, n) ==
  f = [s \in SUBSET (1..n) |->
         IF s = {} THEN <<>> ELSE ReplayStep(f[s \ {Max(s)}], l[Max(s)])]

(* A function for n events extends to one for n + 1. *)
LEMMA UnwindsMore ==
  ASSUME NEW l, NEW n \in Nat, NEW f, Unwinds(f, l, n)
  PROVE  \E g : Unwinds(g, l, n + 1)
<1> DEFINE m == n + 1
           g == [s \in SUBSET (1..m) |->
                   IF m \in s THEN ReplayStep(f[s \ {m}], l[m]) ELSE f[s]]
           h == [s \in SUBSET (1..m) |->
                   IF s = {} THEN <<>> ELSE ReplayStep(g[s \ {Max(s)}], l[Max(s)])]
<1>1. ASSUME NEW s \in SUBSET (1..n)
      PROVE  /\ s \in SUBSET (1..m) /\ m \notin s
             /\ g[s] = f[s]
             /\ f[s] = IF s = {} THEN <<>> ELSE ReplayStep(f[s \ {Max(s)}], l[Max(s)])
  <2>1. s \in SUBSET (1..m) /\ m \notin s
    OBVIOUS
  <2>2. g[s] = f[s]
    BY <2>1
  <2>3. f[s] = IF s = {} THEN <<>> ELSE ReplayStep(f[s \ {Max(s)}], l[Max(s)])
    BY Zenon DEF Unwinds
  <2>4. QED
    BY <2>1, <2>2, <2>3
<1>2. ASSUME NEW s \in SUBSET (1..m) PROVE g[s] = h[s]
  <2>1. CASE m \in s
    <3>1. Max(s) = m
      BY <2>1, TopIsMax
    <3>2. s \ {m} \in SUBSET (1..n)
      OBVIOUS
    <3>3. g[s \ {m}] = f[s \ {m}]
      BY <1>1, <3>2
    <3>4. g[s] = ReplayStep(f[s \ {m}], l[m])
      BY <2>1
    <3>5. h[s] = ReplayStep(g[s \ {m}], l[m])
      BY <2>1, <3>1
    <3> HIDE DEF g, h
    <3>6. QED
      BY <3>3, <3>4, <3>5
  <2>2. CASE m \notin s
    <3>1. s \in SUBSET (1..n)
      BY <2>2
    <3>2. s \ {Max(s)} \in SUBSET (1..n)
      BY <3>1
    <3>3. h[s] = IF s = {} THEN <<>> ELSE ReplayStep(g[s \ {Max(s)}], l[Max(s)])
      OBVIOUS
    <3>4. g[s \ {Max(s)}] = f[s \ {Max(s)}]
      BY <1>1, <3>2
    <3>5. g[s] = IF s = {} THEN <<>> ELSE ReplayStep(f[s \ {Max(s)}], l[Max(s)])
      BY <1>1, <3>1
    <3> HIDE DEF g, h
    <3>6. QED
      BY <3>3, <3>4, <3>5
  <2>3. QED
    BY <2>1, <2>2
<1>3. g = h
  <2>1. g = [s \in SUBSET (1..m) |-> g[s]] /\ h = [s \in SUBSET (1..m) |-> h[s]]
    OBVIOUS
  <2> HIDE DEF g, h
  <2>2. QED
    BY <1>2, <2>1
<1>4. Unwinds(g, l, m)
  BY <1>3 DEF Unwinds
<1>5. QED
  BY <1>4

(* Every log has its function. *)
LEMMA UnwindsExist ==
  ASSUME NEW l, NEW n \in Nat
  PROVE  \E f : Unwinds(f, l, n)
<1> DEFINE Bad == {k \in Nat : ~ \E f : Unwinds(f, l, k)}
<1>1. SUFFICES ASSUME Bad # {} PROVE FALSE
  OBVIOUS
<1>2. PICK k \in Bad : \A j \in Bad : k <= j
  <2>1. Bad \in SUBSET Nat
    OBVIOUS
  <2> HIDE DEF Bad
  <2>2. QED
    BY <1>1, <2>1, LeastNat
<1>3. k \in Nat /\ ~ \E f : Unwinds(f, l, k)
  OBVIOUS
<1>4. CASE k = 0
  <2> DEFINE f == [s \in SUBSET (1..0) |-> <<>>]
  <2>1. \A s \in SUBSET (1..0) : s = {}
    OBVIOUS
  <2>2. f = [s \in SUBSET (1..0) |->
               IF s = {} THEN <<>> ELSE ReplayStep(f[s \ {Max(s)}], l[Max(s)])]
    BY <2>1
  <2>3. Unwinds(f, l, 0)
    BY <2>2 DEF Unwinds
  <2>4. QED
    BY <1>3, <1>4, <2>3
<1>5. CASE k # 0
  <2>1. k - 1 \in Nat /\ ~(k <= k - 1) /\ (k - 1) + 1 = k
    BY <1>3, <1>5
  <2>2. k - 1 \notin Bad
    BY <1>2, <2>1
  <2>3. PICK f : Unwinds(f, l, k - 1)
    BY <2>1, <2>2
  <2>4. \E g : Unwinds(g, l, (k - 1) + 1)
    BY <2>1, <2>3, UnwindsMore
  <2>5. QED
    BY <1>3, <2>1, <2>4
<1>6. QED
  BY <1>4, <1>5

(* Along the initial intervals the function takes one event at a time. *)
LEMMA UnwindsStep ==
  ASSUME NEW l, NEW n \in Nat, NEW f, Unwinds(f, l, n)
  PROVE  /\ f[1..0] = <<>>
         /\ \A k \in 1..n : f[1..k] = ReplayStep(f[1..(k - 1)], l[k])
<1>1. ASSUME NEW s \in SUBSET (1..n)
      PROVE  f[s] = IF s = {} THEN <<>> ELSE ReplayStep(f[s \ {Max(s)}], l[Max(s)])
  BY Zenon DEF Unwinds
<1>2. f[1..0] = <<>>
  <2>1. 1..0 = {} /\ 1..0 \in SUBSET (1..n)
    OBVIOUS
  <2>2. QED
    BY <1>1, <2>1
<1>3. ASSUME NEW k \in 1..n
      PROVE  f[1..k] = ReplayStep(f[1..(k - 1)], l[k])
  <2>1. /\ 1..k \in SUBSET (1..n)
        /\ 1..k # {}
        /\ (1..k) \ {k} = 1..(k - 1)
        /\ k \in Nat /\ 1..k \in SUBSET (1..k) /\ k \in 1..k
    OBVIOUS
  <2>2. Max(1..k) = k
    BY <2>1, TopIsMax
  <2>3. QED
    BY <1>1, <2>1, <2>2
<1>4. QED
  BY <1>2, <1>3

(* What the loop makes of a log. *)
Rebuild(l) == FoldLeft(ReplayStep, <<>>, l)

LEMMA RebuildUnwinds ==
  ASSUME NEW l, NEW n \in Nat, DOMAIN l = 1..n
  PROVE  \E f : Unwinds(f, l, n) /\ Rebuild(l) = f[1..n]
<1> DEFINE g == CHOOSE f : Unwinds(f, l, n)
<1>1. \E f : Unwinds(f, l, n)
  BY UnwindsExist
<1>2. Unwinds(g, l, n)
  BY <1>1
<1>3. Rebuild(l) = g[1..n]
  BY Zenon DEF Rebuild, FoldLeft, MapThenFoldSet, Unwinds
<1>4. QED
  BY <1>2, <1>3

(* Two logs that agree on their first n events unwind alike. *)
LEMMA UnwindsAlike ==
  ASSUME NEW l, NEW m, NEW n \in Nat, NEW f, NEW g,
         Unwinds(f, l, n), Unwinds(g, m, n + 1),
         \A i \in 1..n : m[i] = l[i]
  PROVE  g[1..n] = f[1..n]
<1> DEFINE Bad == {k \in 0..n : g[1..k] # f[1..k]}
<1>1. /\ f[1..0] = <<>>
      /\ \A k \in 1..n : f[1..k] = ReplayStep(f[1..(k - 1)], l[k])
  BY UnwindsStep
<1>2. /\ g[1..0] = <<>>
      /\ \A k \in 1..(n + 1) : g[1..k] = ReplayStep(g[1..(k - 1)], m[k])
  BY UnwindsStep
<1>3. SUFFICES ASSUME Bad # {} PROVE FALSE
  OBVIOUS
<1>4. PICK k \in Bad : \A j \in Bad : k <= j
  <2>1. Bad \in SUBSET Nat
    OBVIOUS
  <2> HIDE DEF Bad
  <2>2. QED
    BY <1>3, <2>1, LeastNat
<1>5. k \in 0..n /\ g[1..k] # f[1..k]
  OBVIOUS
<1>6. k # 0
  BY <1>1, <1>2, <1>5
<1>7. k \in 1..n /\ k \in 1..(n + 1) /\ k - 1 \in 0..n /\ ~(k <= k - 1)
  BY <1>5, <1>6
<1>8. g[1..(k - 1)] = f[1..(k - 1)]
  BY <1>4, <1>7
<1>9. g[1..k] = f[1..k]
  BY <1>1, <1>2, <1>7, <1>8
<1>10. QED
  BY <1>5, <1>9

(* The loop takes an appended event after all the others. *)
LEMMA RebuildAppend ==
  ASSUME NEW E, NEW l \in Seq(E), NEW e \in E
  PROVE  Rebuild(Append(l, e)) = ReplayStep(Rebuild(l), e)
<1> DEFINE m == Append(l, e)
           n == Len(l)
<1>1. /\ n \in Nat /\ n + 1 \in Nat /\ n + 1 \in 1..(n + 1) /\ (n + 1) - 1 = n
      /\ DOMAIN l = 1..n
      /\ DOMAIN m = 1..(n + 1)
      /\ m[n + 1] = e
      /\ \A i \in 1..n : m[i] = l[i]
  OBVIOUS
<1> HIDE DEF m, n
<1>2. PICK f : Unwinds(f, l, n) /\ Rebuild(l) = f[1..n]
  BY <1>1, RebuildUnwinds
<1>3. PICK g : Unwinds(g, m, n + 1) /\ Rebuild(m) = g[1..(n + 1)]
  BY <1>1, RebuildUnwinds
<1>4. g[1..n] = f[1..n]
  BY <1>1, <1>2, <1>3, UnwindsAlike
<1>5. g[1..(n + 1)] = ReplayStep(g[1..n], e)
  BY <1>1, <1>3, UnwindsStep
<1>6. QED
  BY <1>2, <1>3, <1>4, <1>5 DEF m

(* The loop on an empty log does not run. *)
LEMMA RebuildEmpty == Rebuild(<<>>) = <<>>
<1>1. DOMAIN <<>> = 1..0
  OBVIOUS
<1>2. PICK f : Unwinds(f, <<>>, 0) /\ Rebuild(<<>>) = f[1..0]
  BY <1>1, RebuildUnwinds
<1>3. QED
  BY <1>2, UnwindsStep

LEMMA NextLoopReplay ==
  ASSUME TypeOK, LoopReplayMatchesTable, [Next]_vars
  PROVE  LoopReplayMatchesTable'
<1>1. ASSUME NEW e \in Event, log' = Append(log, e), tasks' = ReplayStep(tasks, e)
      PROVE  LoopReplayMatchesTable'
  <2>1. log \in Seq(Event)
    BY DEF TypeOK
  <2>2. Rebuild(log') = ReplayStep(Rebuild(log), e)
    BY <1>1, <2>1, RebuildAppend
  <2>3. Rebuild(log) = tasks
    BY DEF Rebuild, LoopReplayMatchesTable
  <2>4. Rebuild(log') = tasks'
    BY <1>1, <2>2, <2>3
  <2>5. QED
    BY <2>4 DEF Rebuild, LoopReplayMatchesTable
<1>2. ASSUME NEW u \in Task, CreateTask(u) PROVE LoopReplayMatchesTable'
  <2> DEFINE none == [c \in Column |-> NoValue]
             e == [type |-> "task.created", task |-> u, to |-> "blocked", set |-> none]
  <2>1. e \in Event /\ log' = Append(log, e)
    BY <1>2, CreatedEvent DEF CreateTask
  <2>2. tasks' = [v \in DOMAIN tasks \cup {u} |->
                    IF v = u THEN [state |-> "blocked", cols |-> none] ELSE tasks[v]]
    BY <1>2 DEF CreateTask
  <2>3. tasks' = ReplayStep(tasks, e)
    BY <2>2 DEF ReplayStep
  <2>4. QED
    BY <1>1, <2>1, <2>3
<1>3. ASSUME NEW p \in Proc, TransitionWrite(p) PROVE LoopReplayMatchesTable'
  <2> DEFINE k == call[p]
             e == [type |-> "task.state_changed", task |-> k.task, from |-> k.from,
                   to |-> k.to, set |-> k.set]
             row == [state |-> k.to, cols |-> Overwrite(tasks[k.task].cols, k.set)]
  <2>1. k \in Call /\ k.task \in DOMAIN tasks
    BY <1>3, InFlight DEF TransitionWrite
  <2>2. e \in Event /\ log' = Append(log, e)
    BY <1>3, <2>1, WrittenEvent DEF TransitionWrite
  <2>3. tasks' = [tasks EXCEPT ![k.task] = row] /\ tasks = [v \in DOMAIN tasks |-> tasks[v]]
    BY <1>3 DEF TransitionWrite, TypeOK
  <2>4. tasks' = [v \in DOMAIN tasks |-> IF v = k.task THEN row ELSE tasks[v]]
    BY <2>3
  <2>5. DOMAIN tasks \cup {k.task} = DOMAIN tasks
    BY <2>1
  <2>6. ReplayStep(tasks, e) = [v \in DOMAIN tasks |-> IF v = k.task THEN row ELSE tasks[v]]
    BY <2>5 DEF ReplayStep
  <2>7. QED
    BY <1>1, <2>2, <2>4, <2>6
<1>4. CASE UNCHANGED <<tasks, log>>
  BY <1>4 DEF LoopReplayMatchesTable
<1>5. QED
  BY <1>2, <1>3, <1>4 DEF Next, vars, TransitionRead, CrashInCall

(* replay() as it is written, one event after another, rebuilds the live     *)
(* tasks table from the log of any number of writers.                        *)
THEOREM StoreLoopReplays == Spec => []LoopReplayMatchesTable
<1>1. Init => LoopReplayMatchesTable
  BY RebuildEmpty DEF Init, LoopReplayMatchesTable, Rebuild
<1>2. TypeOK /\ LoopReplayMatchesTable /\ [Next]_vars => LoopReplayMatchesTable'
  BY NextLoopReplay
<1>3. QED
  BY <1>1, <1>2, StoreTyped, PTL DEF Spec

-----------------------------------------------------------------------------
(* Terminal states, with any number of writers.                              *)

LEMMA QuietStep ==
  ASSUME TypeOK, [Next]_vars, NEW t \in DOMAIN tasks,
         tasks[t].state \in TERMINAL, \A p \in Proc : call[p].task # t
  PROVE  tasks'[t] = tasks[t] /\ \A p \in Proc : call'[p].task # t
<1>1. t \in Task /\ t # NoTask
  BY StoreAssumption DEF TypeOK
<1>2. ASSUME NEW u \in Task, CreateTask(u)
      PROVE  tasks'[t] = tasks[t] /\ \A p \in Proc : call'[p].task # t
  BY <1>2 DEF CreateTask
<1>3. ASSUME NEW p \in Proc, NEW u \in Task, NEW to \in STATES, NEW set \in Fields,
             TransitionRead(p, u, to, set)
      PROVE  tasks'[t] = tasks[t] /\ \A q \in Proc : call'[q].task # t
  <2>1. u # t
    BY <1>3 DEF TransitionRead, Legal
  <2>2. \A q \in Proc : call'[q].task = IF q = p THEN u ELSE call[q].task
    BY <1>3 DEF TransitionRead, TypeOK
  <2>3. QED
    BY <1>3, <2>1, <2>2 DEF TransitionRead
<1>4. ASSUME NEW p \in Proc, TransitionWrite(p) \/ CrashInCall(p)
      PROVE  tasks'[t] = tasks[t] /\ \A q \in Proc : call'[q].task # t
  <2>1. \A q \in Proc : call'[q].task = IF q = p THEN NoTask ELSE call[q].task
    BY <1>4 DEF TransitionWrite, CrashInCall, TypeOK, Idle
  <2>2. tasks'[t] = tasks[t]
    BY <1>4 DEF TransitionWrite, CrashInCall
  <2>3. QED
    BY <1>1, <2>1, <2>2
<1>5. CASE UNCHANGED vars
  BY <1>5 DEF vars
<1>6. QED
  BY <1>2, <1>3, <1>4, <1>5 DEF Next

(* A terminal row with no call in flight on it never changes again: only a   *)
(* call that passed its check before the row became terminal can revive it.  *)
THEOREM QuietTerminal == Spec => QuietTerminalIsFinal
<1>1. TypeOK /\ [Next]_vars
        => [\A t \in DOMAIN tasks :
              (/\ tasks[t].state \in TERMINAL
               /\ \A p \in Proc : call[p].task # t)
              => /\ tasks'[t] = tasks[t]
                 /\ \A p \in Proc : call'[p].task # t]_vars
  BY QuietStep
<1>2. QED
  BY <1>1, StoreTyped, PTL DEF Spec, QuietTerminalIsFinal

-----------------------------------------------------------------------------
(* One writer: the state a call read is still the state it writes over.      *)

OneWriter == \A p, q \in Proc : p = q

CallsAreFresh ==
  \A p \in Proc : call[p] # Idle =>
     /\ call[p].from = tasks[call[p].task].state
     /\ Legal(call[p].from, call[p].to)

LEMMA NextCallsAreFresh ==
  ASSUME OneWriter, TypeOK, CallsAreFresh, [Next]_vars
  PROVE  CallsAreFresh'
<1>1. ASSUME NEW u \in Task, CreateTask(u) PROVE CallsAreFresh'
  BY <1>1 DEF CreateTask, CallsAreFresh, TypeOK
<1>2. ASSUME NEW p \in Proc, NEW u \in Task, NEW to \in STATES, NEW set \in Fields,
             TransitionRead(p, u, to, set)
      PROVE  CallsAreFresh'
  <2>1. \A q \in Proc : call'[q] = [task |-> u, from |-> tasks[u].state, to |-> to, set |-> set]
    BY <1>2 DEF OneWriter, TransitionRead, TypeOK
  <2>2. QED
    BY <1>2, <2>1 DEF TransitionRead, CallsAreFresh
<1>3. ASSUME NEW p \in Proc, TransitionWrite(p) \/ CrashInCall(p)
      PROVE  CallsAreFresh'
  <2>1. \A q \in Proc : call'[q] = Idle
    BY <1>3 DEF OneWriter, TransitionWrite, CrashInCall, TypeOK
  <2>2. QED
    BY <2>1 DEF CallsAreFresh
<1>4. CASE UNCHANGED vars
  BY <1>4 DEF vars, CallsAreFresh
<1>5. QED
  BY <1>1, <1>2, <1>3, <1>4 DEF Next

LEMMA FreshFinalStep ==
  ASSUME TypeOK, CallsAreFresh, [Next]_vars, NEW t \in DOMAIN tasks,
         tasks[t].state \in TERMINAL
  PROVE  tasks'[t].state = tasks[t].state
<1>1. ASSUME NEW p \in Proc, TransitionWrite(p) PROVE tasks'[t].state = tasks[t].state
  <2>1. call[p].task # t
    BY <1>1 DEF TransitionWrite, CallsAreFresh, Legal
  <2>2. QED
    BY <1>1, <2>1 DEF TransitionWrite
<1>2. QED
  BY <1>1 DEF Next, vars, CreateTask, TransitionRead, CrashInCall

(* With one writing process a terminal state is final, as events.py says.    *)
THEOREM OneWriterTerminal == OneWriter /\ Spec => TerminalIsFinal
<1>1. Init => CallsAreFresh
  BY DEF Init, CallsAreFresh
<1>2. OneWriter /\ TypeOK /\ CallsAreFresh /\ [Next]_vars => CallsAreFresh'
  BY NextCallsAreFresh
<1>3. TypeOK /\ CallsAreFresh /\ [Next]_vars
        => [\A t \in DOMAIN tasks :
              tasks[t].state \in TERMINAL => tasks'[t].state = tasks[t].state]_vars
  BY FreshFinalStep
<1>4. SUFFICES ASSUME OneWriter PROVE Spec => TerminalIsFinal
  OBVIOUS
<1>5. TypeOK /\ CallsAreFresh /\ [Next]_vars => CallsAreFresh'
  BY <1>2, <1>4
<1>6. QED
  BY <1>1, <1>3, <1>5, StoreTyped, PTL DEF Spec, TerminalIsFinal

-----------------------------------------------------------------------------
(* One writer: the log is a path of the state machine.                       *)

Before(l, i) == {j \in Writes(l, l[i].task) : j < i}

FollowsLog(l, i) ==
  l[i].type = "task.state_changed" =>
     /\ HasLatest(Before(l, i))
     /\ l[i].from = l[Latest(Before(l, i))].to

PathInv == \A i \in DOMAIN log : FollowsLog(log, i)

LEMMA PathInvIsPath == PathInv => LogIsAPath
BY LatestInSet DEF PathInv, FollowsLog, Before, HasLatest, LogIsAPath

LEMMA NextPathInv ==
  ASSUME TypeOK, RowsFollowLog, CallsAreFresh, PathInv, [Next]_vars
  PROVE  PathInv'
<1>1. ASSUME NEW e \in Event, log' = Append(log, e),
             e.type = "task.state_changed" =>
                /\ e.task \in DOMAIN tasks
                /\ e.from = tasks[e.task].state
      PROVE  PathInv'
  <2>1. /\ log \in Seq(Event)
        /\ Len(log) \in Nat
        /\ DOMAIN log = 1..Len(log)
        /\ DOMAIN log' = 1..(Len(log) + 1)
        /\ log'[Len(log) + 1] = e
        /\ \A i \in DOMAIN log : log'[i] = log[i]
    BY <1>1 DEF TypeOK
  <2>2. ASSUME NEW i \in DOMAIN log PROVE FollowsLog(log', i)
    <3>1. Before(log', i) = Before(log, i)
      BY <2>1, <2>2 DEF Writes, Before
    <3>2. FollowsLog(log, i)
      BY <2>2 DEF PathInv
    <3>3. HasLatest(Before(log, i)) => Latest(Before(log, i)) \in DOMAIN log
      BY LatestInSet DEF Before, Writes
    <3>4. QED
      BY <2>1, <2>2, <3>1, <3>2, <3>3 DEF FollowsLog
  <2>3. FollowsLog(log', Len(log) + 1)
    <3>1. Writes(log, e.task) \subseteq 1..Len(log)
      BY <2>1 DEF Writes
    <3>2. Before(log', Len(log) + 1) = Writes(log, e.task)
      <4>1. log'[Len(log) + 1].task = e.task
        BY <2>1
      <4>2. Writes(log', e.task) = Writes(log, e.task) \cup {Len(log) + 1}
        BY <1>1, <2>1, WritesAppend
      <4>3. \A j \in Writes(log, e.task) : j < Len(log) + 1
        BY <2>1, <3>1
      <4>4. QED
        BY <2>1, <4>1, <4>2, <4>3 DEF Before
    <3>3. CASE e.type = "task.state_changed"
      <4>1. RowFollowsLog(e.task) /\ e.from = tasks[e.task].state
        BY <1>1, <3>3 DEF RowsFollowLog
      <4>2. Latest(Writes(log, e.task)) \in DOMAIN log
        BY <2>1, <3>1, <4>1, LatestInSet DEF RowFollowsLog
      <4>3. QED
        BY <2>1, <3>2, <4>1, <4>2 DEF RowFollowsLog, FollowsLog
    <3>4. CASE e.type # "task.state_changed"
      BY <2>1, <3>4 DEF FollowsLog
    <3>5. QED
      BY <3>3, <3>4
  <2>4. \A i \in DOMAIN log' : i \in DOMAIN log \/ i = Len(log) + 1
    BY <2>1
  <2>5. QED
    BY <2>2, <2>3, <2>4 DEF PathInv
<1>2. ASSUME NEW u \in Task, CreateTask(u) PROVE PathInv'
  BY <1>1, <1>2, CreatedEvent DEF CreateTask
<1>3. ASSUME NEW p \in Proc, TransitionWrite(p) PROVE PathInv'
  <2> DEFINE k == call[p]
             e == [type |-> "task.state_changed", task |-> k.task, from |-> k.from,
                   to |-> k.to, set |-> k.set]
  <2>1. e \in Event /\ log' = Append(log, e)
    BY <1>3, InFlight, WrittenEvent DEF TransitionWrite
  <2>2. e.task \in DOMAIN tasks /\ e.from = tasks[e.task].state
    BY <1>3, InFlight DEF TransitionWrite, CallsAreFresh
  <2>3. QED
    BY <1>1, <2>1, <2>2
<1>4. CASE UNCHANGED log
  BY <1>4 DEF PathInv, FollowsLog, Before, Writes
<1>5. QED
  BY <1>2, <1>3, <1>4 DEF Next, vars, TransitionRead, CrashInCall

(* With one writing process every state change recorded in the log starts    *)
(* from the state the task's previous event ended in.                        *)
THEOREM OneWriterPath == OneWriter /\ Spec => []LogIsAPath
<1>1. SUFFICES ASSUME OneWriter PROVE Spec => []LogIsAPath
  OBVIOUS
<1>2. Init => RowsFollowLog /\ CallsAreFresh /\ PathInv
  BY DEF Init, RowsFollowLog, CallsAreFresh, PathInv
<1>3. TypeOK /\ CallsAreFresh /\ [Next]_vars => CallsAreFresh'
  BY <1>1, NextCallsAreFresh
<1>4. TypeOK /\ RowsFollowLog /\ CallsAreFresh /\ PathInv /\ [Next]_vars => PathInv'
  BY NextPathInv
<1>5. QED
  BY <1>2, <1>3, <1>4, NextRowsFollowLog, PathInvIsPath, StoreTyped, PTL DEF Spec
=============================================================================
