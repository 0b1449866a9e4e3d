------------------------------ MODULE TaskStore ------------------------------
(***************************************************************************)
(* The tasks table and the append-only event log of store/events.py, shared *)
(* by every process that opens the SQLite file: the scheduler process and   *)
(* the `dagent` command-line processes.                                     *)
(*                                                                          *)
(* events.py promises two things.  Every row of `tasks` is a projection of  *)
(* the log (replay(all events) = the live table), and a state change obeys  *)
(* the table of legal edges, in which a terminal state has no successor.    *)
(* transition() reads the current state and checks the edge in autocommit   *)
(* mode and only then opens the transaction that writes, so two processes   *)
(* can interleave between its two halves: a call is two steps here.         *)
(***************************************************************************)
EXTENDS Naturals, FiniteSets, SequencesExt, TaskStates

CONSTANTS
  Task,        \* task ids
  Scheduler,   \* scheduler processes: they write every edge but the human ones
  Cli,         \* `dagent answer` / `dagent cancel` processes
  Column,      \* the columns _UPDATABLE lets a transition carry
  Value,       \* values such a column may take
  NoValue,     \* SQL NULL
  NoTask,      \* no call in flight
  MaxLog       \* bound on the log, for TLC only

ASSUME StoreAssumption ==
  /\ NoTask \notin Task
  /\ NoValue \notin Value
  /\ MaxLog \in Nat

VARIABLES
  tasks,       \* id -> row, for the rows that exist
  log,         \* the events of kinds task.created and task.state_changed, by seq
  call         \* process -> its transition() between the check and the write

vars == <<tasks, log, call>>

Proc == Scheduler \cup Cli

-----------------------------------------------------------------------------
(* Types.  `set` is the partial function of columns an event carries. *)

Fields == UNION {[S -> Value] : S \in SUBSET Column}

Row == [state : STATES, cols : [Column -> Value \cup {NoValue}]]

Created == [type : {"task.created"}, task : Task, to : {"blocked"},
            set : [Column -> {NoValue}]]

Changed == [type : {"task.state_changed"}, task : Task, from : STATES,
            to : STATES, set : Fields]

Event == Created \cup Changed

Idle == [task |-> NoTask]

Call == [task : Task, from : STATES, to : STATES, set : Fields]

-----------------------------------------------------------------------------
(* replay(): the row that the log rebuilds for a task.  The fold assigns    *)
(* `state` at every event of the task and a column at every event that      *)
(* carries it, so each field holds what its last writer wrote.              *)

Writes(l, t) == {i \in DOMAIN l : l[i].task = t}

WritesTo(l, t, c) == {i \in Writes(l, t) : c \in DOMAIN l[i].set}

Latest(S) == CHOOSE i \in S : \A j \in S : j <= i

Logged(l) == {l[i].task : i \in DOMAIN l}

Replay(l) ==
  [t \in Logged(l) |->
     [state |-> l[Latest(Writes(l, t))].to,
      cols  |-> [c \in Column |-> l[Latest(WritesTo(l, t, c))].set[c]]]]

\* The columns after an UPDATE that sets those of `set`.
Overwrite(cols, set) ==
  [c \in Column |-> IF c \in DOMAIN set THEN set[c] ELSE cols[c]]

\* Mutant: a state change replaces the whole row, clearing other columns.
ReplayStepForgetful(rows, e) ==
  [u \in DOMAIN rows \cup {e.task} |->
     IF u # e.task THEN rows[u]
     ELSE [state |-> e.to,
           cols  |-> [c \in Column |-> IF c \in DOMAIN e.set
                                       THEN e.set[c] ELSE NoValue]]]

\* One iteration of the loop in replay(): task.created makes the row,
\* task.state_changed assigns the state and the columns its payload carries.
ReplayStep(rows, e) ==
  [u \in DOMAIN rows \cup {e.task} |->
     IF u # e.task THEN rows[u]
     ELSE [state |-> e.to,
           cols  |-> IF e.type = "task.created" THEN e.set
                     ELSE Overwrite(rows[u].cols, e.set)]]

-----------------------------------------------------------------------------
Init ==
  /\ tasks = <<>>
  /\ log = <<>>
  /\ call = [p \in Proc |-> Idle]

\* create_task: the row and its task.created event, in one transaction.
CreateTask(t) ==
  /\ t \notin DOMAIN tasks
  /\ Len(log) < MaxLog
  /\ LET none == [c \in Column |-> NoValue] IN
       /\ tasks' = [u \in DOMAIN tasks \cup {t} |->
                      IF u = t THEN [state |-> "blocked", cols |-> none]
                               ELSE tasks[u]]
       /\ log' = Append(log, [type |-> "task.created", task |-> t,
                              to |-> "blocked", set |-> none])
  /\ UNCHANGED call

\* The edges a process asks for: `answer` requeues a task that waits for a
\* human, `cancel` kills any task, every other edge is the scheduler's.
Asks(p, frm, to) ==
  \/ /\ p \in Cli
     /\ to = "cancelled" \/ <<frm, to>> = <<"needs_human", "queued">>
  \/ /\ p \in Scheduler
     /\ to # "cancelled" /\ <<frm, to>> # <<"needs_human", "queued">>

\* transition(), first half: SELECT state, reject an illegal edge (ValueError,
\* nothing written).  The read is outside any transaction.
TransitionRead(p, t, to, set) ==
  /\ call[p] = Idle
  /\ t \in DOMAIN tasks
  /\ Asks(p, tasks[t].state, to)
  /\ Legal(tasks[t].state, to)
  /\ call' = [call EXCEPT ![p] = [task |-> t, from |-> tasks[t].state,
                                  to |-> to, set |-> set]]
  /\ UNCHANGED <<tasks, log>>

\* Mutant: the event omits the columns the UPDATE wrote.
TransitionWriteBarePayload(p) ==
  LET k == call[p] IN
  /\ k # Idle
  /\ Len(log) < MaxLog
  /\ tasks' = [tasks EXCEPT ![k.task] =
                 [state |-> k.to, cols |-> Overwrite(@.cols, k.set)]]
  /\ log' = Append(log, [type |-> "task.state_changed", task |-> k.task,
                         from |-> k.from, to |-> k.to, set |-> <<>>])
  /\ call' = [call EXCEPT ![p] = Idle]

\* transition(), second half: UPDATE and the task.state_changed event in one
\* transaction; the state read before is not read again.
TransitionWrite(p) ==
  LET k == call[p] IN
  /\ k # Idle
  /\ Len(log) < MaxLog
  /\ tasks' = [tasks EXCEPT ![k.task] =
                 [state |-> k.to, cols |-> Overwrite(@.cols, k.set)]]
  /\ log' = Append(log, [type |-> "task.state_changed", task |-> k.task,
                         from |-> k.from, to |-> k.to, set |-> k.set])
  /\ call' = [call EXCEPT ![p] = Idle]

\* The process dies between the two halves: nothing was written.
CrashInCall(p) ==
  /\ call[p] # Idle
  /\ call' = [call EXCEPT ![p] = Idle]
  /\ UNCHANGED <<tasks, log>>

Next ==
  \/ \E t \in Task : CreateTask(t)
  \/ \E p \in Proc, t \in Task, to \in STATES, set \in Fields :
        TransitionRead(p, t, to, set)
  \/ \E p \in Proc : TransitionWrite(p)
  \/ \E p \in Proc : CrashInCall(p)

Spec == Init /\ [][Next]_vars

-----------------------------------------------------------------------------
(* Properties. *)

\* The variables have their types, and the rows are the tasks of the log.
TypeOK ==
  /\ DOMAIN tasks \in SUBSET Task
  /\ tasks \in [DOMAIN tasks -> Row]
  /\ log \in Seq(Event)
  /\ call \in [Proc -> Call \cup {Idle}]
  /\ \A p \in Proc : call[p] # Idle => call[p].task \in DOMAIN tasks
  /\ DOMAIN tasks = Logged(log)

\* Invariant 3 of the README: folding the whole log gives the live table,
\* whatever processes wrote it and in whatever order their writes landed.
ReplayMatchesTable == Replay(log) = tasks

\* The same of the loop as it is written: folding the log event by event.
LoopReplayMatchesTable == FoldLeft(ReplayStep, <<>>, log) = tasks

\* Every state change starts where the task's previous event left it: the
\* log is a path of the state machine.  True when one process writes.
LogIsAPath ==
  \A i \in DOMAIN log : log[i].type = "task.state_changed" =>
     LET before == {j \in Writes(log, log[i].task) : j < i}
     IN  before # {} /\ log[i].from = log[Latest(before)].to

\* A terminal state is final (events.py:81).  True when one process writes.
TerminalIsFinal ==
  [][\A t \in DOMAIN tasks :
        tasks[t].state \in TERMINAL => tasks'[t].state = tasks[t].state]_vars

\* What remains of it with several processes: a terminal row can be changed
\* only by a call that had already passed its check when the row became
\* terminal; with no such call in flight it never changes again.
QuietTerminalIsFinal ==
  [][\A t \in DOMAIN tasks :
        (/\ tasks[t].state \in TERMINAL
         /\ \A p \in Proc : call[p].task # t)
        => /\ tasks'[t] = tasks[t]
           /\ \A p \in Proc : call'[p].task # t]_vars
=============================================================================
