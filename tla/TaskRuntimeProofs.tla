--------------------------- MODULE TaskRuntimeProofs ---------------------------
(***************************************************************************)
(* What one scheduler process promises about one task, for any retry        *)
(* budget, number of slots and set of recoveries.                           *)
(*                                                                          *)
(* The proof goes in stages.  First, every action is shown to be of one of  *)
(* some twenty kinds (Kinds), each a list of what that kind of step may     *)
(* change; the types hold along the way (TypesHold).  Then the kinds that   *)
(* only move one coroutine are gathered into one (Mover), and the inductive *)
(* invariant Safe is kept by the few that are left, one lemma for each of   *)
(* its parts; who runs and who is at rest follows from it.  What a          *)
(* verification is safe from needs more: Sound adds the order in which the  *)
(* coroutines wait and what is known of each attempt, and is kept by the    *)
(* same few kinds, looked at by where a coroutine comes from and goes to    *)
(* (Goes).  Then every step is one of TaskContract, and its promise holds.  *)
(* Last, the run ends (TaskShutdown): until the main loop drains, ending it *)
(* keeps Safe; from then on, the worker that lived is gone or is waited for *)
(* (Ending).                                                                *)
(***************************************************************************)
EXTENDS TaskShutdown, FiniteSetTheorems, TLAPS

\* Where a coroutine may be, and what may follow the cleanup it awaits.
Place == Waiting \cup {"lock", "launch", "return", "raise", "begin", "policy", "deliver",
                      "stop", "aborted", "close"}

After == {"none", "lock", "launch", "return", "begin", "eof", "off", "idle", "raise", "close"}

CoType == [pc : Place, then : After, trig : Trigger, arg : Attempt \cup {0},
           new : Attempt \cup {0}, paid : Nat]

\* The coroutines that hold a slot of the pool for a worker that is to be born.
Spawners == {c \in Coroutine : co[c].pc = "spawn"}

Taken == IF mem.wt # 0 THEN 1 ELSE 0

\* The types, with those of the variables TypeOK leaves out, and the pool: the
\* free slots, those of the other tasks and those of this one never exceed it.
Typed ==
  /\ TypeOK
  /\ co \in [Coroutine -> CoType]
  /\ td \in [phase : {"none", "start", "reap"}, expect : Attempt \cup {0},
             owner : Coroutine \cup {0}, proc : Attempt \cup {0}]
  /\ cli \in [answers : Nat, cancels : Nat]
  /\ \A c \in Coroutine : /\ co[c].pc = "teardown" <=> co[c].then # "none"
                          /\ co[c].pc \in {"slot", "spawn"} => co[c].new # 0
  /\ mem.free + mem.others + Taken + Cardinality(Spawners) <= Slots

-----------------------------------------------------------------------------
(* Sets of names. *)

LEMMA Names ==
  /\ {"off", "dead", "idle", "read", "reap", "eof", "verify", "supervise", "teardown",
      "slot", "spawn", "lock", "launch", "return", "raise", "begin", "policy", "deliver",
      "stop", "join", "aborted", "close"} \subseteq Place
  /\ {"off", "dead", "idle", "read", "reap", "eof", "verify", "supervise", "teardown",
      "slot", "spawn", "join"} \subseteq Waiting
  /\ {"lock", "launch", "return", "raise", "begin", "policy", "deliver", "stop", "aborted",
      "close"} \cap Waiting = {}
  /\ {"none", "lock", "launch", "return", "begin", "eof", "off", "idle", "raise",
      "close"} = After
  /\ After \ {"none"} \subseteq Place
  /\ {"none", "protocol", "asked", "stalled", "timeout", "exited", "crashed",
      "verify.failed", "verify.repeated", "artifact.failed", "artifact.repeated",
      "delivery.failed"} \subseteq Trigger
BY DEF Place, Waiting, After, Trigger

LEMMA States ==
  {"queued", "running", "verifying", "triage", "needs_human", "delivering",
   "delivered", "failed", "cancelled"} \subseteq STATES
BY DEF STATES

LEMMA Numbers ==
  /\ Main \in Coroutine /\ Dog \in Coroutine /\ Main # Dog
  /\ Attempt \subseteq Coroutine /\ 0 \notin Coroutine
  /\ Main \notin Attempt /\ Dog \notin Attempt
  /\ \A n \in Attempt : n \in Nat /\ n # 0
  /\ IsFiniteSet(Coroutine)
<1>1. MaxRetries + MaxAnswers + 2 \in Nat
  BY RuntimeAssumption
<1>2. IsFiniteSet(Attempt)
  BY <1>1, FS_Interval DEF Attempt
<1>3. IsFiniteSet({Main, Dog})
  <2>1. IsFiniteSet({Main}) /\ IsFiniteSet({Dog})
    BY FS_Singleton
  <2>2. {Main, Dog} = {Main} \cup {Dog}
    OBVIOUS
  <2>3. QED
    BY <2>1, <2>2, FS_Union
<1>4. IsFiniteSet(Coroutine)
  BY <1>2, <1>3, FS_Union DEF Coroutine
<1>5. QED
  BY <1>1, <1>4 DEF Coroutine, Attempt, Main, Dog

-----------------------------------------------------------------------------
(* What a coroutine that moves does to itself, to the event loop and to the  *)
(* cleanup.                                                                  *)

\* Where the coroutine is once the cleanup it may await is over.
Dest(c) == IF co[c].pc = "teardown" THEN co[c].then ELSE co[c].pc

Yields(c) ==
  \/ /\ cpu' = c /\ late' = late
     /\ co'[c].pc \notin Waiting /\ (co'[c].pc = "lock" => lock = 0)
  \/ /\ cpu' = 0 /\ QueuedBehind(c)
     /\ co'[c].pc \in Waiting \/ (co'[c].pc = "lock" /\ lock # 0)

Turn(c, p, q) ==
  /\ run = "on" /\ co[c].pc = p
  /\ cpu = c \/ (cpu = 0 /\ c \notin late)
  /\ co' \in [Coroutine -> CoType]
  /\ \A d \in Coroutine \ {c} : co'[d] = co[d]
  /\ \/ co'[c].pc = q /\ co'[c].then = "none"
     \/ co'[c].pc = "teardown" /\ co'[c].then = q
  /\ Yields(c)

NoCall(c) == td' = td /\ co'[c].pc # "teardown"

Calls(c, e) ==
  \/ td' = td /\ co'[c].pc # "teardown" /\ e # 0 /\ mem.reg # e
  \/ /\ co'[c].pc = "teardown" /\ (e = 0 \/ mem.reg = e)
     /\ td.phase # "none" /\ td' = td
  \/ /\ co'[c].pc = "teardown" /\ (e = 0 \/ mem.reg = e)
     /\ td.phase = "none"
     /\ td' = [phase |-> "start", expect |-> e, owner |-> c, proc |-> 0]

MeType == [pc : Place \cup {"x"}, then : After, trig : Trigger, arg : Attempt \cup {0},
           new : Attempt \cup {0}, paid : Nat]

\* What the coroutine remembers.
Keeps(c, me) ==
  /\ co'[c].trig = me.trig /\ co'[c].arg = me.arg
  /\ co'[c].new = me.new /\ co'[c].paid = me.paid

LEMMA Yielding ==
  ASSUME Typed, NEW c \in Coroutine, NEW me \in MeType, NEW p \in Place,
         Continue(c, me, p)
  PROVE  /\ co' \in [Coroutine -> CoType]
         /\ co'[c].pc = p /\ co'[c].then = me.then /\ Keeps(c, me)
         /\ \A d \in Coroutine \ {c} : co'[d] = co[d]
         /\ Yields(c)
<1> DEFINE r == [me EXCEPT !.pc = p]
<1>1. r \in CoType /\ r.pc = p /\ r.then = me.then /\ r.trig = me.trig /\ r.arg = me.arg
      /\ r.new = me.new /\ r.paid = me.paid
  BY DEF MeType, CoType
<1>2. co' = [co EXCEPT ![c] = r]
  BY DEF Continue
<1>3. /\ co' \in [Coroutine -> CoType] /\ co'[c] = r
      /\ \A d \in Coroutine \ {c} : co'[d] = co[d]
  <2> HIDE DEF r
  <2>1. QED
    BY <1>1, <1>2 DEF Typed
<1>4. Yields(c)
  <2> HIDE DEF r
  <2>1. co'[c].pc = p
    BY <1>1, <1>3
  <2>2. QED
    BY <2>1 DEF Continue, Yields
<1>5. QED
  <2> HIDE DEF r
  <2>1. co'[c].pc = p /\ co'[c].then = me.then /\ Keeps(c, me)
    BY <1>1, <1>3 DEF Keeps
  <2> USE DEF r
  <2>2. QED
    BY <2>1, <1>3, <1>4

LEMMA Continues ==
  ASSUME Typed, NEW c \in Coroutine, NEW p \in Place, At(c, p),
         NEW me \in MeType, me.then = "none", NEW q \in Place, q # "teardown",
         Continue(c, me, q)
  PROVE  Turn(c, p, q) /\ co'[c].pc = q /\ Keeps(c, me)
BY Yielding DEF Turn, At

LEMMA CallsTeardown ==
  ASSUME Typed, NEW c \in Coroutine, NEW p \in Place, At(c, p),
         NEW me \in MeType, me.then = "none", NEW e \in Attempt \cup {0},
         NEW q \in After \ {"none"}, CallTeardown(c, me, e, q)
  PROVE  Turn(c, p, q) /\ Calls(c, e) /\ Keeps(c, me)
<1>0. q \in Place /\ "teardown" \in Place /\ q # "teardown"
  BY Names
<1>1. CASE e # 0 /\ mem.reg # e
  <2>1. Continue(c, me, q) /\ td' = td
    BY <1>1 DEF CallTeardown
  <2>2. QED
    BY <1>0, <1>1, <2>1, Continues DEF Calls
<1>2. CASE ~(e # 0 /\ mem.reg # e)
  <2> DEFINE r == [me EXCEPT !.then = q]
  <2>1. /\ r \in MeType /\ r.then = q /\ r.trig = me.trig /\ r.arg = me.arg
        /\ r.new = me.new /\ r.paid = me.paid
    BY DEF MeType
  <2>2. Continue(c, r, "teardown")
    BY <1>2 DEF CallTeardown
  <2>3. td' = IF td.phase # "none" THEN td
              ELSE [phase |-> "start", expect |-> e, owner |-> c, proc |-> 0]
    BY <1>2 DEF CallTeardown
  <2> HIDE DEF r
  <2>4. /\ co' \in [Coroutine -> CoType]
        /\ co'[c].pc = "teardown" /\ co'[c].then = q /\ Keeps(c, r)
        /\ \A d \in Coroutine \ {c} : co'[d] = co[d]
        /\ Yields(c)
    BY <1>0, <2>1, <2>2, Yielding
  <2>5. Turn(c, p, q) /\ Keeps(c, me)
    BY <2>1, <2>4 DEF Turn, At, Keeps
  <2>6. Calls(c, e)
    BY <1>2, <2>3, <2>4 DEF Calls
  <2>7. QED
    BY <2>5, <2>6
<1>3. QED
  BY <1>1, <1>2

LEMMA Mine ==
  ASSUME Typed, NEW c \in Coroutine
  PROVE  /\ co[c] \in CoType /\ co[c] \in MeType
         /\ co[c].pc # "teardown" => co[c].then = "none"
         /\ Resting("x") \in MeType /\ Resting("x").then = "none"
         /\ Resting("x").trig = "none" /\ Resting("x").arg = 0 /\ Resting("x").new = 0
         /\ Resting("x").paid = 0
BY Names DEF Typed, CoType, MeType, Resting

-----------------------------------------------------------------------------
(* The kinds of step.  Each action is one of them, and keeps the types.      *)

SameRow ==
  /\ task'.state = task.state /\ task'.cur = task.cur
  /\ task'.retries = task.retries /\ task'.made = task.made

SameProcs == \A n \in Attempt : att'[n].proc = att[n].proc

NoneBorn == \A n \in Attempt : att'[n].proc = "live" => att[n].proc = "live"

SameVerdicts == \A n \in Attempt : att'[n].verdict = att[n].verdict

SameRegistries ==
  /\ mem'.reg = mem.reg /\ mem'.held = mem.held /\ mem'.slot = mem.slot
  /\ mem'.wt = mem.wt /\ mem'.free = mem.free /\ mem'.others = mem.others

TaskType == [state : STATES, retries : Nat, cur : Attempt \cup {0},
             made : Attempt \cup {0}, nudges : 0..MaxNudges,
             open : BOOLEAN, repaired : BOOLEAN]

AttType == [lease : {"none", "active", "expired", "released", "recovered"},
            signalled : BOOLEAN,
            verdict : {"none", "infra", "passed", "failed", "unfit", "shipped"},
            proc : {"none", "live", "exited", "crashed", "killed"},
            out : Lines \cup {"none"}]

MemType == [reg : Attempt \cup {0}, seen : BOOLEAN, grace : BOOLEAN,
            held : Attempt \cup {0}, slot : Attempt \cup {0},
            wt : Attempt \cup {0}, free : 0..Slots, others : 0..OtherTasks]

Rows == task' \in TaskType /\ att' \in [Attempt -> AttType] /\ mem' \in MemType

LEMMA Types ==
  TypeOK <=> /\ task \in TaskType /\ att \in [Attempt -> AttType] /\ mem \in MemType
             /\ lock \in Coroutine \cup {0} /\ cpu \in Coroutine \cup {0}
             /\ late \subseteq Coroutine \cup {0}
             /\ infra \in BOOLEAN /\ run \in {"on", "failed"}
BY DEF TypeOK, TaskType, AttType, MemType

LEMMA YieldsTyped ==
  ASSUME Typed, NEW c \in Coroutine, Yields(c)
  PROVE  cpu' \in Coroutine \cup {0} /\ late' \subseteq Coroutine \cup {0}
BY DEF Typed, TypeOK, Yields, QueuedBehind

\* A coroutine that moves keeps the types when the rows and the pool are right.
LEMMA PoolTyped ==
  ASSUME Typed, NEW c \in Coroutine, NEW p, NEW q, Turn(c, p, q),
         NoCall(c) \/ \E e \in Attempt \cup {0} : Calls(c, e),
         q \in Place \ {"teardown", "none"},
         q \in {"slot", "spawn"} => co'[c].new # 0,
         mem'.free + mem'.others + Taken' + Cardinality(Spawners') <= Slots,
         Rows, lock' \in Coroutine \cup {0},
         infra' \in BOOLEAN, run' = run, cli' = cli
  PROVE  Typed'
<1>1. TypeOK'
  <2>1. cpu' \in Coroutine \cup {0} /\ late' \subseteq Coroutine \cup {0}
    BY YieldsTyped DEF Turn
  <2>2. run' \in {"on", "failed"}
    BY DEF Typed, TypeOK
  <2>3. QED
    BY <2>1, <2>2 DEF TypeOK, Rows, TaskType, AttType, MemType
<1>2. \A d \in Coroutine : /\ co'[d].pc = "teardown" <=> co'[d].then # "none"
                           /\ co'[d].pc \in {"slot", "spawn"} => co'[d].new # 0
  <2>1. \A d \in Coroutine \ {c} : co'[d] = co[d]
    BY DEF Turn
  <2>2. \/ co'[c].pc = q /\ co'[c].then = "none"
        \/ co'[c].pc = "teardown" /\ co'[c].then = q
    BY DEF Turn
  <2>3. /\ co'[c].pc = "teardown" <=> co'[c].then # "none"
        /\ co'[c].pc \in {"slot", "spawn"} => co'[c].new # 0
    BY <2>2
  <2>4. QED
    BY <2>1, <2>3 DEF Typed
<1>3. td' \in [phase : {"none", "start", "reap"}, expect : Attempt \cup {0},
               owner : Coroutine \cup {0}, proc : Attempt \cup {0}]
  BY DEF Typed, NoCall, Calls
<1>4. co' \in [Coroutine -> CoType]
  BY DEF Turn
<1>5. cli' \in [answers : Nat, cancels : Nat]
  BY DEF Typed
<1>6. QED
  BY <1>1, <1>2, <1>3, <1>4, <1>5 DEF Typed

\* A coroutine that neither takes nor gives back a slot keeps the types.
LEMMA TurnTyped ==
  ASSUME Typed, NEW c \in Coroutine, NEW p, NEW q, Turn(c, p, q),
         NoCall(c) \/ \E e \in Attempt \cup {0} : Calls(c, e),
         p # "spawn", q \in Place \ {"spawn", "slot", "teardown", "none"}, Rows,
         SameRegistries, lock' \in Coroutine \cup {0},
         infra' \in BOOLEAN, run' = run, cli' = cli
  PROVE  Typed'
<1>1. Spawners' = Spawners
  BY DEF Turn, Spawners
<1>2. mem'.free + mem'.others + Taken' + Cardinality(Spawners') <= Slots
  BY <1>1 DEF Typed, SameRegistries, Taken
<1>3. QED
  BY <1>2, PoolTyped

LEMMA RowShapes ==
  ASSUME Typed
  PROVE  /\ task \in TaskType /\ att \in [Attempt -> AttType] /\ mem \in MemType
         /\ lock \in Coroutine \cup {0} /\ infra \in BOOLEAN
BY Types DEF Typed

\* The row in another state.
LEMMA RowMoves ==
  ASSUME Typed, NEW to \in STATES, task' = [task EXCEPT !.state = to]
  PROVE  /\ task' \in TaskType /\ task'.state = to
         /\ task'.cur = task.cur /\ task'.retries = task.retries /\ task'.made = task.made
BY RowShapes DEF TaskType

ReadsLine(n) ==
  /\ SameRow /\ SameProcs /\ SameRegistries /\ lock' = lock /\ (infra => infra')
  /\ \A m \in Attempt \ {n} : att'[m].verdict = att[m].verdict
  /\ \/ /\ \E q \in {"read", "reap", "eof"} : Turn(n, "read", q)
        /\ NoCall(n) /\ att'[n].verdict = att[n].verdict
        /\ co'[n].trig \in {co[n].trig, "protocol"}
     \/ /\ Turn(n, "read", "lock") /\ NoCall(n)
        /\ att'[n].verdict = att[n].verdict /\ co'[n].trig = "asked"
     \/ /\ \E q \in {"eof", "return"} :
             Turn(n, "read", q) /\ (q = "eof" => "sdk_timeout" \in Lines)
        /\ Calls(n, n) /\ att'[n].verdict = "infra" /\ co'[n].trig = co[n].trig

\* What a watcher does with a line, as far as the rows and registries go.
LEMMA LineRead ==
  ASSUME Typed, NEW n \in Attempt, Accept(n) \/ ReadFenced(n)
  PROVE  att' \in [Attempt -> AttType] /\ SameProcs /\ SameVerdicts
         /\ mem' \in MemType /\ SameRegistries
<1>1. att \in [Attempt -> AttType] /\ mem \in MemType
  BY RowShapes
<1>2. att' = [att EXCEPT ![n].out = "none"]
  BY DEF Accept, ReadFenced
<1>3. att' \in [Attempt -> AttType] /\ SameProcs /\ SameVerdicts
  BY <1>1, <1>2 DEF AttType, SameProcs, SameVerdicts
<1>4. mem' = [mem EXCEPT !.seen = TRUE] \/ mem' = mem
  BY DEF Accept, ReadFenced
<1>5. mem' \in MemType /\ SameRegistries
  BY <1>1, <1>4 DEF MemType, SameRegistries
<1>6. QED
  BY <1>3, <1>5

\* Every line a watcher reads.
LEMMA ReadsStep ==
  ASSUME Typed, NEW n \in Attempt,
         ReadFenced(n) \/ ReadLog(n) \/ ReadDone(n) \/ ReadAsked(n) \/ EndOfStream(n)
  PROVE  ReadsLine(n) /\ Typed'
<1>0. n \in Coroutine /\ {"read", "reap", "eof", "lock"} \subseteq Place
  BY Numbers, Names
<1>1. co[n] \in MeType /\ (co[n].pc = "read" => co[n].then = "none")
  BY <1>0, Mine
<1>2. At(n, "read") /\ co[n].then = "none"
  BY <1>1 DEF ReadFenced, ReadLog, ReadDone, ReadAsked, EndOfStream, Accept, Reads, At
<1>3. task' = task /\ lock' = lock /\ td' = td /\ infra' = infra /\ run' = run /\ cli' = cli
  BY DEF ReadFenced, ReadLog, ReadDone, ReadAsked, EndOfStream
<1>4. att' \in [Attempt -> AttType] /\ SameProcs /\ SameVerdicts
      /\ mem' \in MemType /\ SameRegistries
  <2>1. CASE EndOfStream(n)
    BY <2>1, RowShapes DEF EndOfStream, SameProcs, SameVerdicts, SameRegistries
  <2>2. CASE ~EndOfStream(n)
    BY <2>2, LineRead DEF ReadLog, ReadDone, ReadAsked
  <2>3. QED
    BY <2>1, <2>2
<1>5. Rows /\ SameRow
  BY <1>3, <1>4, RowShapes DEF Rows, SameRow
<1>6. \/ \E q \in {"read", "reap", "eof"} :
           Turn(n, "read", q) /\ co'[n].pc = q /\ co'[n].trig \in {co[n].trig, "protocol"}
      \/ Turn(n, "read", "lock") /\ co'[n].pc = "lock" /\ co'[n].trig = "asked"
  <2>1. CASE ReadLog(n)
    <3> DEFINE me == [co[n] EXCEPT !.trig = IF att[n].out = "unclaimed" THEN "protocol" ELSE @]
    <3>1. me \in MeType /\ me.then = "none" /\ me.trig \in {co[n].trig, "protocol"}
      BY <1>1, <1>2, Names DEF MeType
    <3>2. Continue(n, me, "read")
      BY <2>1 DEF ReadLog
    <3> HIDE DEF me
    <3>3. QED
      BY <1>0, <1>2, <3>1, <3>2, Continues DEF Keeps
  <2>2. CASE ReadAsked(n)
    <3> DEFINE me == [co[n] EXCEPT !.trig = "asked"]
    <3>1. me \in MeType /\ me.then = "none" /\ me.trig = "asked"
      BY <1>1, <1>2, Names DEF MeType
    <3>2. Continue(n, me, "lock")
      BY <2>2 DEF ReadAsked
    <3> HIDE DEF me
    <3>3. QED
      BY <1>0, <1>2, <3>1, <3>2, Continues DEF Keeps
  <2>3. CASE ReadFenced(n) \/ ReadDone(n) \/ EndOfStream(n)
    <3>1. \E q \in {"reap", "eof"} : Continue(n, co[n], q)
      BY <2>3 DEF ReadFenced, ReadDone, EndOfStream, Goto
    <3>2. QED
      BY <1>0, <1>1, <1>2, <3>1, Continues DEF Keeps
  <2>4. QED
    BY <2>1, <2>2, <2>3
<1>7. ReadsLine(n)
  BY <1>3, <1>4, <1>5, <1>6 DEF ReadsLine, NoCall, SameVerdicts
<1>8. Typed'
  <2>1. PICK q \in {"read", "reap", "eof", "lock"} : Turn(n, "read", q) /\ co'[n].pc = q
    BY <1>6
  <2>2. q \in Place \ {"spawn", "slot", "teardown", "none"}
    BY <1>0
  <2>3. QED
    BY <1>0, <1>3, <1>4, <1>5, <2>1, <2>2, RowShapes, TurnTyped DEF NoCall
<1>9. QED
  BY <1>7, <1>8

LEMMA ReadInfraStep ==
  ASSUME Typed, NEW n \in Attempt, ReadInfra(n)
  PROVE  ReadsLine(n) /\ Typed'
<1>0. n \in Coroutine /\ {"read", "eof", "return"} \subseteq Place
      /\ {"eof", "return"} \subseteq After \ {"none"}
  BY Numbers, Names
<1>1. co[n] \in MeType /\ (co[n].pc = "read" => co[n].then = "none")
  BY <1>0, Mine
<1>2. At(n, "read") /\ co[n].then = "none"
  BY <1>1 DEF ReadInfra, Reads, At
<1>3. task' = task /\ lock' = lock /\ infra' = TRUE /\ run' = run /\ cli' = cli
  BY DEF ReadInfra
<1>4. /\ att' \in [Attempt -> AttType] /\ SameProcs /\ att'[n].verdict = "infra"
      /\ \A m \in Attempt \ {n} : att'[m].verdict = att[m].verdict
  <2>1. att' = [att EXCEPT ![n].out = "none", ![n].verdict = "infra"]
    BY DEF ReadInfra
  <2>2. QED
    BY <2>1, RowShapes, Zenon DEF AttType, SameProcs
<1>5. mem' \in MemType /\ SameRegistries
  BY RowShapes DEF ReadInfra, MemType, SameRegistries
<1>6. Rows /\ SameRow
  BY <1>3, <1>4, <1>5, RowShapes DEF Rows, SameRow
<1>7. PICK q \in {"eof", "return"} : /\ CallTeardown(n, co[n], n, q)
                                     /\ q = "eof" => att[n].out = "sdk_timeout"
  BY DEF ReadInfra
<1>8. q = "eof" => "sdk_timeout" \in Lines
  BY <1>7, RowShapes DEF AttType
<1>9. Turn(n, "read", q) /\ Calls(n, n) /\ Keeps(n, co[n])
  BY <1>0, <1>1, <1>2, <1>7, CallsTeardown
<1>10. ReadsLine(n)
  BY <1>3, <1>4, <1>5, <1>6, <1>8, <1>9 DEF ReadsLine, Keeps
<1>11. Typed'
  <2>1. q \in Place \ {"spawn", "slot", "teardown", "none"}
    BY <1>0
  <2>2. \E e \in Attempt \cup {0} : Calls(n, e)
    BY <1>9
  <2>3. TRUE \in BOOLEAN
    OBVIOUS
  <2>4. QED
    BY <1>0, <1>3, <1>5, <1>6, <1>9, <2>1, <2>2, RowShapes, TurnTyped
<1>12. QED
  BY <1>10, <1>11

-----------------------------------------------------------------------------
(* Launching. *)

SameVisible == SameProcs /\ SameVerdicts

Begins(c) ==
  /\ NoCall(c) /\ co'[c].new = task.made + 1 /\ task'.made = task.made + 1
  /\ co'[c].trig = co[c].trig /\ co'[c].paid = co[c].paid
  /\ task'.state = task.state /\ task'.cur = task.cur /\ task'.retries = task.retries
  /\ SameVisible /\ lock' = lock /\ infra' = infra
  /\ mem'.reg = mem.reg /\ mem'.wt = mem.wt /\ mem'.others = mem.others
  /\ mem'.held = task.made + 1 /\ mem'.seen = mem.seen
  /\ \/ c = Main /\ task.state = "queued" /\ ~infra /\ \E q \in {"slot", "spawn"} : Turn(c, "idle", q)
     \/ c # Main /\ \E q \in {"slot", "spawn"} : Turn(c, "launch", q)
  /\ \/ co'[c].pc = "slot" /\ mem'.slot = mem.slot /\ mem'.free = mem.free
     \/ co'[c].pc = "spawn" /\ mem'.slot = task.made + 1 /\ mem'.free = mem.free - 1

GetsSlot(c) ==
  /\ Turn(c, "slot", "spawn") /\ NoCall(c) /\ Keeps(c, co[c])
  /\ SameRow /\ SameVisible /\ lock' = lock /\ infra' = infra
  /\ mem'.reg = mem.reg /\ mem'.wt = mem.wt /\ mem'.others = mem.others
  /\ mem'.held = mem.held /\ mem'.slot = co[c].new /\ mem'.free = mem.free - 1
  /\ mem'.seen = mem.seen

\* The worker starts and is registered, with a reader of its own.
Registers(c) ==
  LET n == co[c].new IN
  /\ run = "on" /\ co[c].pc = "spawn" /\ n \in Attempt
  /\ cpu = c \/ (cpu = 0 /\ c \notin late)
  /\ Legal(task.state, "running") /\ task'.state = "running"
  /\ task'.cur = n /\ task'.made = task.made
  /\ task'.retries = (IF c = Main THEN task.retries ELSE co[c].paid)
  /\ att'[n].proc = "live" /\ \A m \in Attempt \ {n} : att'[m].proc = att[m].proc
  /\ SameVerdicts
  /\ mem'.reg = n /\ mem'.wt = n /\ mem'.held = mem.held /\ mem'.slot = mem.slot
  /\ mem'.free = mem.free /\ mem'.others = mem.others
  /\ \A d \in Coroutine \ {c, n} : co'[d] = co[d]
  /\ co'[n] = Resting("read")
  /\ c # n => /\ co'[c].pc = (IF c = Main THEN "idle" ELSE "return")
              /\ co'[c].then = co[c].then /\ co'[c].trig = co[c].trig
              /\ co'[c].arg = co[c].arg
  /\ td' = td /\ lock' = lock /\ infra' = infra
  /\ IF c = Main THEN cpu' = 0 /\ QueuedBehind(c) ELSE cpu' = c /\ late' = late

\* The worker starts, but its task may not run any more.
Orphans(c) ==
  /\ Turn(c, "spawn", "raise") /\ NoCall(c) /\ Keeps(c, co[c]) /\ ~Legal(task.state, "running")
  /\ co[c].new \in Attempt /\ att'[co[c].new].proc = "live"
  /\ \A m \in Attempt \ {co[c].new} : att'[m].proc = att[m].proc
  /\ SameVerdicts /\ SameRow /\ SameRegistries /\ lock' = lock /\ infra' = infra
  /\ mem'.seen = mem.seen

Misfires(c) ==
  /\ Turn(c, "spawn", "raise") /\ NoCall(c) /\ Keeps(c, co[c])
  /\ SameVisible /\ SameRow /\ lock' = lock /\ infra' = infra
  /\ mem'.reg = mem.reg /\ mem'.wt = mem.wt /\ mem'.others = mem.others
  /\ mem'.held = 0 /\ mem'.slot = mem.slot /\ mem'.free = mem.free /\ mem'.seen = mem.seen

LEMMA SpawnersFinite ==
  IsFiniteSet(Spawners) /\ Cardinality(Spawners) \in Nat
  /\ (\A c \in Spawners : Cardinality(Spawners \ {c}) = Cardinality(Spawners) - 1)
  /\ (\A c \in Coroutine \ Spawners :
        Cardinality(Spawners \cup {c}) = Cardinality(Spawners) + 1)
<1>1. IsFiniteSet(Spawners)
  BY Numbers, FS_Subset DEF Spawners
<1>2. QED
  BY <1>1, FS_CardinalityType, FS_AddElement, FS_RemoveElement

LEMMA Launcher ==
  ASSUME Typed, NEW c \in Coroutine, co[c].pc = "spawn"
  PROVE  co[c].new \in Attempt /\ c \in Spawners /\ co[c].then = "none"
BY DEF Typed, CoType, Spawners

LEMMA BeginsStep ==
  ASSUME Typed, NEW c \in Coroutine, (c = Main /\ MainLaunch) \/ Relaunch(c)
  PROVE  Begins(c) /\ Typed'
<1>0. c \in Coroutine /\ {"idle", "launch", "slot", "spawn"} \subseteq Place
  BY Names
<1> DEFINE new == task.made + 1
           now == mem.free > 0
           me == [co[c] EXCEPT !.new = new]
<1>1. /\ new \in Attempt
      /\ task' = [task EXCEPT !.made = new]
      /\ att' = [att EXCEPT ![new].lease = "active"]
      /\ mem' = [mem EXCEPT !.held = new, !.slot = IF now THEN new ELSE @,
                            !.free = IF now THEN @ - 1 ELSE @]
      /\ Continue(c, me, IF now THEN "spawn" ELSE "slot")
  BY DEF MainLaunch, Relaunch, StartLaunch
<1>2. /\ lock' = lock /\ td' = td /\ infra' = infra /\ run' = run /\ cli' = cli
      /\ \/ c = Main /\ At(c, "idle") /\ task.state = "queued" /\ ~infra
         \/ c # Main /\ At(c, "launch")
  BY DEF MainLaunch, Relaunch
<1>3. PICK p \in {"idle", "launch"} : At(c, p)
  BY <1>2
<1>4. co[c] \in MeType /\ co[c].then = "none"
  BY <1>0, <1>3, Mine DEF At
<1>5. /\ me \in MeType /\ me.then = "none" /\ me.new = new /\ new # 0
      /\ me.trig = co[c].trig /\ me.paid = co[c].paid
  BY <1>1, <1>4, Numbers DEF MeType
<1>6. PICK q \in {"slot", "spawn"} : q = IF now THEN "spawn" ELSE "slot"
  OBVIOUS
<1>6a. Continue(c, me, q)
  BY <1>1, <1>6
<1>7. task' \in TaskType /\ task'.made = new /\ task'.state = task.state
      /\ task'.cur = task.cur /\ task'.retries = task.retries
  BY <1>1, RowShapes DEF TaskType
<1>8. att' \in [Attempt -> AttType] /\ SameVisible
  BY <1>1, RowShapes DEF AttType, SameVisible, SameProcs, SameVerdicts
<1>9. /\ mem'.reg = mem.reg /\ mem'.wt = mem.wt /\ mem'.others = mem.others
      /\ mem'.held = new /\ mem'.seen = mem.seen
      /\ mem' \in MemType
      /\ q = "slot" => mem'.slot = mem.slot /\ mem'.free = mem.free
      /\ q = "spawn" => mem'.slot = new /\ mem'.free = mem.free - 1
  <2>0. mem \in MemType /\ Slots \in Nat
    BY RowShapes, RuntimeAssumption
  <2>1. CASE now
    <3>0. mem.free \in 0..Slots /\ mem.free > 0
      BY <2>0, <2>1 DEF MemType
    <3>1. PICK free \in 0..Slots : free = mem.free - 1
      BY <2>0, <3>0
    <3>2. mem' = [mem EXCEPT !.held = new, !.slot = new, !.free = free]
      BY <1>1, <2>1, <3>1
    <3>3. QED
      BY <1>1, <1>6, <2>0, <2>1, <3>1, <3>2 DEF MemType
  <2>2. CASE ~now
    <3>1. mem' = [mem EXCEPT !.held = new]
      BY <1>1, <2>2, <2>0 DEF MemType
    <3>2. QED
      BY <1>1, <1>6, <2>0, <2>2, <3>1 DEF MemType
  <2>3. QED
    BY <2>1, <2>2
<1> HIDE DEF new, me
<1>10. Turn(c, p, q) /\ co'[c].pc = q /\ Keeps(c, me)
  BY <1>0, <1>3, <1>5, <1>6a, Continues
<1>10a. /\ \/ c = Main /\ task.state = "queued" /\ ~infra /\ Turn(c, "idle", q)
           \/ c # Main /\ Turn(c, "launch", q)
        /\ NoCall(c) /\ co'[c].new = new
        /\ co'[c].trig = co[c].trig /\ co'[c].paid = co[c].paid
  <2>1. /\ NoCall(c) /\ co'[c].new = new
        /\ co'[c].trig = co[c].trig /\ co'[c].paid = co[c].paid
    BY <1>2, <1>5, <1>10 DEF NoCall, Keeps
  <2>2. c = Main /\ At(c, "idle") => p = "idle"
    BY <1>3 DEF At
  <2>3. c # Main /\ At(c, "launch") => p = "launch"
    BY <1>3 DEF At
  <2>4. QED
    BY <1>2, <1>10, <2>1, <2>2, <2>3
<1>11. Begins(c)
  BY <1>2, <1>7, <1>8, <1>9, <1>10, <1>10a DEF Begins, new
<1>12. Typed'
  <2>1. mem'.free + mem'.others + Taken' + Cardinality(Spawners') <= Slots
    <3>1. Taken' = Taken
      BY <1>9 DEF Taken
    <3>2. c \notin Spawners
      BY <1>3 DEF At, Spawners
    <3>3. CASE q = "spawn"
      <4>1. Spawners' = Spawners \cup {c}
        BY <1>10, <3>2, <3>3 DEF Turn, Spawners
      <4>2. Cardinality(Spawners') = Cardinality(Spawners) + 1
        BY <3>2, <4>1, SpawnersFinite
      <4>3. mem'.free = mem.free - 1 /\ mem'.others = mem.others
        BY <1>9, <3>3
      <4>4. mem.free + mem.others + Taken + Cardinality(Spawners) <= Slots
        BY DEF Typed
      <4>5. mem.free \in Nat /\ mem.others \in Nat /\ Taken \in {0, 1} /\ Slots \in Nat
        BY RowShapes, RuntimeAssumption DEF MemType, Taken
      <4>6. QED
        BY <3>1, <4>2, <4>3, <4>4, <4>5, SpawnersFinite
    <3>4. CASE q = "slot"
      <4>1. Spawners' = Spawners
        BY <1>10, <3>2, <3>4 DEF Turn, Spawners
      <4>2. QED
        BY <1>9, <3>1, <3>4, <4>1 DEF Typed
    <3>5. QED
      BY <3>3, <3>4
  <2>2. Rows
    BY <1>7, <1>8, <1>9 DEF Rows
  <2>3. co'[c].new # 0
    BY <1>5, <1>10a
  <2>4. QED
    BY <1>0, <1>2, <1>10, <1>10a, <2>1, <2>2, <2>3, RowShapes, PoolTyped
<1>13. QED
  BY <1>11, <1>12

LEMMA GetsSlotStep ==
  ASSUME Typed, NEW c \in Coroutine, GetSlot(c)
  PROVE  GetsSlot(c) /\ Typed'
<1>0. {"slot", "spawn"} \subseteq Place
  BY Names
<1>1. At(c, "slot") /\ mem.free > 0 /\ Continue(c, co[c], "spawn")
      /\ mem' = [mem EXCEPT !.free = @ - 1, !.slot = co[c].new]
      /\ task' = task /\ att' = att
      /\ lock' = lock /\ td' = td /\ infra' = infra /\ run' = run /\ cli' = cli
  BY DEF GetSlot, Goto
<1>2. co[c] \in MeType /\ co[c].then = "none" /\ co[c].new \in Attempt /\ co[c].new # 0
  BY <1>1, Mine, Numbers DEF At, Typed, CoType
<1>3. Turn(c, "slot", "spawn") /\ co'[c].pc = "spawn" /\ Keeps(c, co[c])
  BY <1>0, <1>1, <1>2, Continues
<1>4. /\ mem'.reg = mem.reg /\ mem'.wt = mem.wt /\ mem'.others = mem.others
      /\ mem'.held = mem.held /\ mem'.slot = co[c].new /\ mem'.free = mem.free - 1
      /\ mem' \in MemType /\ mem'.seen = mem.seen
  <2>0. mem \in MemType /\ Slots \in Nat
    BY RowShapes, RuntimeAssumption
  <2>1. mem.free \in 0..Slots /\ mem.free > 0
    BY <1>1, <2>0 DEF MemType
  <2>2. PICK free \in 0..Slots : free = mem.free - 1
    BY <2>0, <2>1
  <2>3. mem' = [mem EXCEPT !.free = free, !.slot = co[c].new]
    BY <1>1, <2>2
  <2>4. QED
    BY <1>2, <2>0, <2>2, <2>3 DEF MemType
<1>5. GetsSlot(c)
  BY <1>1, <1>3, <1>4 DEF GetsSlot, NoCall, Keeps, SameRow, SameVisible, SameProcs, SameVerdicts
<1>6. Typed'
  <2>1. c \notin Spawners
    BY <1>1 DEF At, Spawners
  <2>2. Spawners' = Spawners \cup {c}
    BY <1>3, <2>1 DEF Turn, Spawners
  <2>3. Cardinality(Spawners') = Cardinality(Spawners) + 1
    BY <2>1, <2>2, SpawnersFinite
  <2>4. Taken' = Taken
    BY <1>4 DEF Taken
  <2>5. mem.free + mem.others + Taken + Cardinality(Spawners) <= Slots
    BY DEF Typed
  <2>6. mem.free \in Nat /\ mem.others \in Nat /\ Taken \in {0, 1} /\ Slots \in Nat
    BY RowShapes, RuntimeAssumption DEF MemType, Taken
  <2>7. mem'.free + mem'.others + Taken' + Cardinality(Spawners') <= Slots
    BY <1>4, <2>3, <2>4, <2>5, <2>6, SpawnersFinite
  <2>8. Rows /\ NoCall(c) /\ co'[c].new # 0
    BY <1>1, <1>2, <1>3, <1>4, RowShapes DEF Rows, NoCall, Keeps
  <2>9. QED
    BY <1>0, <1>1, <1>3, <2>7, <2>8, RowShapes, PoolTyped
<1>7. QED
  BY <1>5, <1>6

LEMMA SpawnFreed ==
  ASSUME Typed, NEW c \in Coroutine, NEW q, q # "spawn", Turn(c, "spawn", q)
  PROVE  Cardinality(Spawners') = Cardinality(Spawners) - 1
<1>1. c \in Spawners
  BY DEF Turn, Spawners
<1>2. Spawners' = Spawners \ {c}
  BY DEF Turn, Spawners
<1>3. QED
  BY <1>1, <1>2, SpawnersFinite

\* A launch that ends in an exception keeps the types.
LEMMA GivenUpTyped ==
  ASSUME Typed, NEW c \in Coroutine, Turn(c, "spawn", "raise"), NoCall(c),
         Rows, mem'.free = mem.free, mem'.others = mem.others, mem'.wt = mem.wt,
         lock' = lock, infra' = infra, run' = run, cli' = cli
  PROVE  Typed'
<1>1. Cardinality(Spawners') = Cardinality(Spawners) - 1
  BY SpawnFreed
<1>2. Taken' = Taken
  BY DEF Taken
<1>3. mem.free + mem.others + Taken + Cardinality(Spawners) <= Slots
  BY DEF Typed
<1>4. mem.free \in Nat /\ mem.others \in Nat /\ Taken \in {0, 1} /\ Slots \in Nat
  BY RowShapes, RuntimeAssumption DEF MemType, Taken
<1>5. mem'.free + mem'.others + Taken' + Cardinality(Spawners') <= Slots
  BY <1>1, <1>2, <1>3, <1>4, SpawnersFinite
<1>6. "raise" \in Place \ {"teardown", "none"}
  BY Names
<1>7. QED
  BY <1>5, <1>6, RowShapes, PoolTyped

LEMMA MisfiresStep ==
  ASSUME Typed, NEW c \in Coroutine, SpawnFails(c)
  PROVE  Misfires(c) /\ Typed'
<1>0. {"raise", "spawn"} \subseteq Place
  BY Names
<1>1. At(c, "spawn") /\ Continue(c, co[c], "raise")
      /\ att' = [att EXCEPT ![co[c].new].lease = "recovered"]
      /\ mem' = [mem EXCEPT !.held = 0] /\ task' = task
      /\ lock' = lock /\ td' = td /\ infra' = infra /\ run' = run /\ cli' = cli
  BY DEF SpawnFails, Goto
<1>2. co[c] \in MeType /\ co[c].then = "none" /\ co[c].new \in Attempt
  BY <1>1, Mine, Launcher DEF At
<1>3. Turn(c, "spawn", "raise") /\ co'[c].pc = "raise" /\ Keeps(c, co[c])
  BY <1>0, <1>1, <1>2, Continues
<1>4. /\ mem'.reg = mem.reg /\ mem'.wt = mem.wt /\ mem'.others = mem.others
      /\ mem'.held = 0 /\ mem'.slot = mem.slot /\ mem'.free = mem.free
      /\ mem'.seen = mem.seen /\ mem' \in MemType
  BY <1>1, RowShapes DEF MemType
<1>5. att' \in [Attempt -> AttType] /\ SameVisible
  BY <1>1, <1>2, RowShapes DEF AttType, SameVisible, SameProcs, SameVerdicts
<1>6. Rows /\ NoCall(c)
  BY <1>1, <1>3, <1>4, <1>5, RowShapes DEF Rows, NoCall
<1>7. Misfires(c)
  BY <1>1, <1>3, <1>4, <1>5, <1>6 DEF Misfires, SameRow
<1>8. QED
  BY <1>1, <1>3, <1>4, <1>6, <1>7, GivenUpTyped

LEMMA SpawnedStep ==
  ASSUME Typed, NEW c \in Coroutine, Spawned(c)
  PROVE  (Registers(c) \/ Orphans(c)) /\ Typed'
<1>0. {"raise", "spawn", "idle", "return", "read"} \subseteq Place /\ "running" \in STATES
  BY Names, States
<1> DEFINE n == co[c].new
<1>1. At(c, "spawn") /\ att' = [att EXCEPT ![n].proc = "live"]
      /\ lock' = lock /\ td' = td /\ infra' = infra /\ run' = run /\ cli' = cli
  BY DEF Spawned
<1>2. co[c] \in MeType /\ co[c] \in CoType /\ co[c].then = "none" /\ n \in Attempt /\ n \in Coroutine
  BY <1>1, Mine, Launcher, Numbers DEF At
<1>3. /\ att' \in [Attempt -> AttType] /\ att'[n].proc = "live" /\ SameVerdicts
      /\ \A m \in Attempt \ {n} : att'[m].proc = att[m].proc
  BY <1>1, <1>2, RowShapes DEF AttType, SameVerdicts
<1>4. CASE ~Legal(task.state, "running")
  <2>1. Continue(c, co[c], "raise") /\ task' = task /\ mem' = mem
    BY <1>4 DEF Spawned, Moves, Goto
  <2>2. Turn(c, "spawn", "raise") /\ co'[c].pc = "raise" /\ Keeps(c, co[c])
    BY <1>0, <1>1, <1>2, <2>1, Continues
  <2>3. Rows /\ NoCall(c)
    BY <1>1, <1>3, <2>1, <2>2, RowShapes DEF Rows, NoCall
  <2>4. Orphans(c)
    BY <1>1, <1>2, <1>3, <1>4, <2>1, <2>2, <2>3 DEF Orphans, SameRow, SameRegistries
  <2>5. QED
    BY <1>1, <2>1, <2>2, <2>3, <2>4, GivenUpTyped
<1>5. CASE Legal(task.state, "running")
  <2> DEFINE me == [co[c] EXCEPT !.new = 0, !.pc = IF c = Main THEN "idle" ELSE "return"]
             x == Resting("read")
  <2>1. /\ task' = [task EXCEPT !.state = "running", !.cur = n,
                                 !.retries = IF c = Main THEN @ ELSE co[c].paid]
        /\ mem' = [mem EXCEPT !.reg = n, !.wt = n, !.seen = TRUE]
        /\ co' = [co EXCEPT ![c] = me, ![n] = x]
        /\ IF c = Main THEN cpu' = 0 /\ QueuedBehind(c) ELSE cpu' = c /\ late' = late
    BY <1>5 DEF Spawned, Moves
  <2>2. /\ me \in CoType /\ me.pc = (IF c = Main THEN "idle" ELSE "return")
        /\ me.then = co[c].then /\ me.trig = co[c].trig /\ me.arg = co[c].arg
    BY <1>0, <1>2 DEF CoType
  <2>3. x \in CoType /\ x.pc = "read" /\ x.then = "none"
    BY <1>0, Names DEF Resting, CoType
  <2>4. co \in [Coroutine -> CoType]
    BY DEF Typed
  <2>5. task' \in TaskType /\ task'.state = "running" /\ task'.cur = n /\ task'.made = task.made
        /\ task'.retries = (IF c = Main THEN task.retries ELSE co[c].paid)
    <3>0. task \in TaskType /\ task.retries \in Nat /\ co[c].paid \in Nat
      BY <1>2, RowShapes DEF TaskType, CoType
    <3>1. PICK r \in Nat : r = IF c = Main THEN task.retries ELSE co[c].paid
      BY <3>0
    <3>2. task' = [task EXCEPT !.state = "running", !.cur = n, !.retries = r]
      BY <2>1, <3>1
    <3>3. QED
      BY <1>0, <1>2, <3>0, <3>1, <3>2 DEF TaskType
  <2>6. mem' \in MemType
        /\ mem'.reg = n /\ mem'.wt = n /\ mem'.held = mem.held /\ mem'.slot = mem.slot
        /\ mem'.free = mem.free /\ mem'.others = mem.others
    BY <1>2, <2>1, RowShapes DEF MemType
  <2> HIDE DEF n, me, x
  <2>7. /\ co' \in [Coroutine -> CoType] /\ co'[n] = x /\ (c # n => co'[c] = me)
        /\ \A d \in Coroutine \ {c, n} : co'[d] = co[d]
    BY <1>2, <2>1, <2>2, <2>3, <2>4
  <2>8. Registers(c)
    BY <1>1, <1>2, <1>3, <1>5, <2>1, <2>2, <2>5, <2>6, <2>7 DEF Registers, At, n, x
  <2>9. Typed'
    <3>1. Cardinality(Spawners') <= Cardinality(Spawners) - 1 /\ Cardinality(Spawners') \in Nat
      <4>1. Spawners' \subseteq Spawners \ {c}
        <5>1. \A d \in Coroutine : co'[d].pc = "spawn" => d \notin {c, n}
          BY <2>2, <2>3, <2>7
        <5>2. QED
          BY <2>7, <5>1 DEF Spawners
      <4>2. IsFiniteSet(Spawners \ {c})
        BY SpawnersFinite, FS_Subset
      <4>3. Cardinality(Spawners') <= Cardinality(Spawners \ {c}) /\ IsFiniteSet(Spawners')
        BY <4>1, <4>2, FS_Subset
      <4>4. Cardinality(Spawners \ {c}) = Cardinality(Spawners) - 1
        BY <1>1, Launcher, SpawnersFinite DEF At
      <4>5. QED
        BY <4>3, <4>4, FS_CardinalityType
    <3>2. mem'.free + mem'.others + Taken' + Cardinality(Spawners') <= Slots
      <4>1. mem.free + mem.others + Taken + Cardinality(Spawners) <= Slots
        BY DEF Typed
      <4>2. mem.free \in Nat /\ mem.others \in Nat /\ Taken \in {0, 1} /\ Slots \in Nat
            /\ Taken' \in {0, 1}
        BY RowShapes, RuntimeAssumption DEF MemType, Taken
      <4>3. QED
        BY <2>6, <3>1, <4>1, <4>2, SpawnersFinite
    <3>3. TypeOK'
      <4>1. cpu' \in Coroutine \cup {0}
        BY <2>1
      <4>2. late' \subseteq Coroutine \cup {0}
        <5>1. late \subseteq Coroutine \cup {0}
          BY DEF Typed, TypeOK
        <5>2. QED
          BY <2>1, <5>1 DEF QueuedBehind
      <4>3. lock' \in Coroutine \cup {0} /\ infra' \in BOOLEAN /\ run' \in {"on", "failed"}
        BY <1>1 DEF Typed, TypeOK
      <4>4. QED
        BY <1>3, <2>5, <2>6, <4>1, <4>2, <4>3 DEF TypeOK, TaskType, AttType, MemType
    <3>4. \A d \in Coroutine : /\ co'[d].pc = "teardown" <=> co'[d].then # "none"
                               /\ co'[d].pc \in {"slot", "spawn"} => co'[d].new # 0
      <4>1. TAKE d \in Coroutine
      <4>2. CASE d \notin {c, n}
        BY <2>7, <4>2 DEF Typed
      <4>3. CASE d = n
        BY <2>3, <2>7, <4>3
      <4>4. CASE d = c /\ d # n
        BY <1>2, <2>2, <2>7, <4>4
      <4>5. QED
        BY <4>2, <4>3, <4>4
    <3>5. QED
      BY <1>1, <2>7, <3>2, <3>3, <3>4 DEF Typed
  <2>10. QED
    BY <2>8, <2>9
<1>6. QED
  BY <1>4, <1>5

-----------------------------------------------------------------------------
(* The end of an attempt: its claim, its exit, verification, delivery.       *)

SameAttempt == task'.cur = task.cur /\ task'.retries = task.retries /\ task'.made = task.made

LEMMA Edges ==
  \A s \in STATES :
    /\ Legal(s, "running") <=> s \in {"queued", "triage", "needs_human"}
    /\ Legal(s, "verifying") <=> s = "running"
    /\ Legal(s, "delivering") <=> s \in {"verifying", "needs_human"}
    /\ Legal(s, "delivered") <=> s = "delivering"
    /\ Legal(s, "triage") <=> s \in {"running", "verifying", "delivering"}
    /\ Legal(s, "needs_human") <=> s = "triage"
    /\ Legal(s, "failed") <=> s = "triage"
BY DEF Legal, Transitions, TERMINAL, STATES

LEMMA Row ==
  ASSUME Typed
  PROVE  /\ task.state \in STATES /\ task.cur \in Attempt \cup {0} /\ task.retries \in Nat
         /\ task.made \in Attempt \cup {0}
BY RowShapes DEF TaskType

Reaps(n) ==
  /\ SameAttempt /\ SameRegistries /\ SameVerdicts /\ lock' = lock /\ infra' = infra
  /\ Keeps(n, co[n])
  /\ att'[n].proc # "live" /\ \A m \in Attempt \ {n} : att'[m].proc = att[m].proc
  /\ \/ Turn(n, "reap", "begin") /\ Calls(n, n)
        /\ task.state = "running" /\ task'.state = "verifying"
     \/ Turn(n, "reap", "raise") /\ NoCall(n)
        /\ task.state # "running" /\ task'.state = task.state

\* The watcher reads the row and has the current attempt verified.
Opens(n) ==
  /\ SameRow /\ SameVisible /\ SameRegistries /\ lock' = lock /\ infra' = infra
  /\ Turn(n, "begin", "verify") /\ NoCall(n)
  /\ co'[n].trig = co[n].trig /\ co'[n].arg = task.cur

Ends(n) ==
  /\ SameRow /\ SameVisible /\ SameRegistries /\ lock' = lock /\ infra' = infra
  /\ att[n].proc # "live"
  /\ \/ Turn(n, "eof", "lock") /\ Calls(n, n) /\ task.state = "running"
        /\ co'[n].trig \in {"protocol", "exited", "crashed"}
     \/ Turn(n, "eof", "return") /\ NoCall(n) /\ Keeps(n, co[n])

Verifies(n) ==
  /\ SameAttempt /\ SameProcs /\ SameRegistries /\ lock' = lock /\ infra' = infra
  /\ NoCall(n)
  /\ \A m \in Attempt \ {co[n].arg} : att'[m].verdict = att[m].verdict
  /\ \/ /\ Turn(n, "verify", "deliver") /\ Keeps(n, co[n]) /\ task.state \in {"verifying", "needs_human"}
        /\ task'.state = "delivering"
        /\ co[n].arg \in Attempt => att'[co[n].arg].verdict = "passed"
     \/ /\ Turn(n, "verify", "raise") /\ Keeps(n, co[n]) /\ task.state \notin {"verifying", "needs_human"}
        /\ task'.state = task.state
        /\ co[n].arg \in Attempt => att'[co[n].arg].verdict = "passed"
     \/ /\ Turn(n, "verify", "lock") /\ co'[n].trig \in {"verify.failed", "verify.repeated"}
        /\ task'.state = task.state
        /\ co[n].arg \in Attempt => att'[co[n].arg].verdict = "failed"

HandsOver(n) ==
  /\ SameAttempt /\ SameProcs /\ SameRegistries /\ lock' = lock /\ infra' = infra
  /\ NoCall(n)
  /\ \A m \in Attempt \ {task.cur} : att'[m].verdict = att[m].verdict
  /\ \/ /\ Turn(n, "deliver", "lock")
        /\ co'[n].trig \in {"artifact.failed", "artifact.repeated", "delivery.failed"}
        /\ task'.state = task.state
        /\ task.cur \in Attempt => att'[task.cur].verdict \in {att[task.cur].verdict, "unfit"}
     \/ /\ Turn(n, "deliver", "return") /\ Keeps(n, co[n])
        /\ task.state = "delivering" /\ task'.state = "delivered"
        /\ task.cur \in Attempt => att'[task.cur].verdict = "shipped"
     \/ /\ Turn(n, "deliver", "raise") /\ Keeps(n, co[n])
        /\ task.state # "delivering" /\ task'.state = task.state
        /\ task.cur \in Attempt => att'[task.cur].verdict = "shipped"

\* The attempts with another verdict of one of them.
LEMMA Judged ==
  ASSUME Typed, NEW n, NEW v \in {"infra", "passed", "failed", "unfit", "shipped"},
         att' = [att EXCEPT ![n].verdict = v]
  PROVE  /\ att' \in [Attempt -> AttType] /\ SameProcs
         /\ \A m \in Attempt \ {n} : att'[m].verdict = att[m].verdict
         /\ n \in Attempt => att'[n].verdict = v
BY RowShapes, Zenon DEF AttType, SameProcs

LEMMA ReapsStep ==
  ASSUME Typed, NEW n \in Attempt, ReapedDone(n)
  PROVE  Reaps(n) /\ Typed'
<1>0. /\ n \in Coroutine /\ {"reap", "begin", "raise"} \subseteq Place
      /\ "begin" \in After \ {"none"} /\ "verifying" \in STATES
      /\ {"begin", "raise"} \subseteq Place \ {"spawn", "slot", "teardown", "none"}
  BY Numbers, Names, States
<1>1. /\ At(n, "reap") /\ att' = Kill(n) /\ mem' = mem
      /\ lock' = lock /\ infra' = infra /\ run' = run /\ cli' = cli
  BY DEF ReapedDone
<1>2. co[n] \in MeType /\ co[n].then = "none"
  BY <1>0, <1>1, Mine DEF At
<1>3. /\ att' \in [Attempt -> AttType] /\ SameVerdicts
      /\ att'[n].proc # "live" /\ \A m \in Attempt \ {n} : att'[m].proc = att[m].proc
  BY <1>1, RowShapes DEF Kill, AttType, SameVerdicts
<1>4. SameRegistries /\ mem' \in MemType
  BY <1>1, RowShapes DEF SameRegistries
<1>5. CASE task.state = "running"
  <2>1. task' = [task EXCEPT !.state = "verifying"] /\ CallTeardown(n, co[n], n, "begin")
    BY <1>5, Row, Edges DEF ReapedDone, Moves
  <2>2. task' \in TaskType /\ task'.state = "verifying" /\ SameAttempt
    BY <1>0, <2>1, RowMoves DEF SameAttempt
  <2>3. Turn(n, "reap", "begin") /\ Calls(n, n) /\ Keeps(n, co[n])
    BY <1>0, <1>1, <1>2, <2>1, CallsTeardown
  <2>4. Reaps(n)
    BY <1>1, <1>3, <1>4, <1>5, <2>2, <2>3 DEF Reaps
  <2>5. Rows /\ \E e \in Attempt \cup {0} : Calls(n, e)
    BY <1>3, <1>4, <2>2, <2>3 DEF Rows
  <2>6. QED
    BY <1>0, <1>1, <1>4, <2>3, <2>4, <2>5, RowShapes, TurnTyped
<1>6. CASE task.state # "running"
  <2>1. Continue(n, co[n], "raise") /\ task' = task /\ td' = td
    BY <1>6, Row, Edges DEF ReapedDone, Moves, Goto
  <2>2. Turn(n, "reap", "raise") /\ co'[n].pc = "raise" /\ Keeps(n, co[n])
    BY <1>0, <1>1, <1>2, <2>1, Continues
  <2>3. NoCall(n) /\ Rows
    BY <1>3, <1>4, <2>1, <2>2, RowShapes DEF NoCall, Rows
  <2>4. Reaps(n)
    BY <1>1, <1>3, <1>4, <1>6, <2>1, <2>2, <2>3 DEF Reaps, SameAttempt
  <2>5. QED
    BY <1>0, <1>1, <1>4, <2>2, <2>3, <2>4, RowShapes, TurnTyped
<1>7. QED
  BY <1>5, <1>6

LEMMA OpensStep ==
  ASSUME Typed, NEW n \in Attempt, VerifyBegins(n)
  PROVE  Opens(n) /\ Typed'
<1>0. /\ n \in Coroutine /\ {"begin", "verify"} \subseteq Place
      /\ "verify" \in Place \ {"spawn", "slot", "teardown", "none"}
  BY Numbers, Names
<1> DEFINE me == [co[n] EXCEPT !.arg = task.cur]
<1>1. /\ At(n, "begin") /\ Continue(n, me, "verify")
      /\ task' = task /\ att' = att /\ mem' = mem /\ td' = td
      /\ lock' = lock /\ infra' = infra /\ run' = run /\ cli' = cli
  BY DEF VerifyBegins
<1>2. co[n] \in MeType /\ co[n].then = "none" /\ task.cur \in Attempt \cup {0}
  BY <1>0, <1>1, Mine, Row DEF At
<1>3. /\ me \in MeType /\ me.then = "none" /\ me.trig = co[n].trig
      /\ me.arg = task.cur
  BY <1>2 DEF MeType
<1> HIDE DEF me
<1>4. Turn(n, "begin", "verify") /\ co'[n].pc = "verify" /\ Keeps(n, me)
  BY <1>0, <1>1, <1>3, Continues
<1>5. Rows /\ NoCall(n) /\ SameRegistries
  BY <1>1, <1>4, RowShapes DEF Rows, NoCall, SameRegistries
<1>6. Opens(n)
  BY <1>1, <1>3, <1>4, <1>5
     DEF Opens, Keeps, SameRow, SameVisible, SameProcs, SameVerdicts
<1>7. Typed'
  BY <1>0, <1>1, <1>4, <1>5, RowShapes, TurnTyped
<1>8. QED
  BY <1>6, <1>7

LEMMA EndsStep ==
  ASSUME Typed, NEW n \in Attempt, MarkExit(n)
  PROVE  Ends(n) /\ Typed'
<1>0. /\ n \in Coroutine /\ {"eof", "lock", "return"} \subseteq Place
      /\ "lock" \in After \ {"none"}
      /\ {"lock", "return"} \subseteq Place \ {"spawn", "slot", "teardown", "none"}
  BY Numbers, Names
<1> DEFINE kind == ExitKind(n)
<1>1. /\ At(n, "eof") /\ att[n].proc # "live" /\ mem' = mem /\ task' = task
      /\ lock' = lock /\ infra' = infra /\ run' = run /\ cli' = cli
  BY DEF MarkExit
<1>2. co[n] \in MeType /\ co[n].then = "none"
  BY <1>0, <1>1, Mine DEF At
<1>3. kind \in {"protocol", "exited", "crashed"} /\ kind \in Trigger
  BY Names DEF ExitKind
<1>4. \/ /\ task.state = "running"
         /\ att' = att \/ att' = [att EXCEPT ![task.cur].signalled = TRUE]
         /\ CallTeardown(n, [co[n] EXCEPT !.trig = kind], n, "lock")
      \/ Continue(n, co[n], "return") /\ att' = att /\ td' = td
  BY DEF MarkExit, Goto
<1> HIDE DEF kind
<1>5. att' \in [Attempt -> AttType] /\ SameVisible
  <2>1. CASE att' = att
    BY <2>1, RowShapes DEF SameVisible, SameProcs, SameVerdicts
  <2>2. CASE att' = [att EXCEPT ![task.cur].signalled = TRUE]
    BY <2>2, RowShapes, Zenon DEF AttType, SameVisible, SameProcs, SameVerdicts
  <2>3. QED
    BY <1>4, <2>1, <2>2
<1>6. SameRegistries /\ SameRow /\ Rows
  BY <1>1, <1>5, RowShapes DEF SameRegistries, SameRow, Rows
<1>7. CASE task.state = "running" /\ CallTeardown(n, [co[n] EXCEPT !.trig = kind], n, "lock")
  <2> DEFINE me == [co[n] EXCEPT !.trig = kind]
  <2>1. me \in MeType /\ me.then = "none" /\ me.trig = kind
    BY <1>2, <1>3 DEF MeType
  <2>2. CallTeardown(n, me, n, "lock")
    BY <1>7
  <2> HIDE DEF me
  <2>3. Turn(n, "eof", "lock") /\ Calls(n, n) /\ co'[n].trig = kind
    BY <1>0, <1>1, <2>1, <2>2, CallsTeardown DEF Keeps
  <2>4. Ends(n)
    BY <1>1, <1>3, <1>5, <1>6, <1>7, <2>3 DEF Ends
  <2>5. \E e \in Attempt \cup {0} : Calls(n, e)
    BY <2>3
  <2>6. QED
    BY <1>0, <1>1, <1>6, <2>3, <2>4, <2>5, RowShapes, TurnTyped
<1>8. CASE Continue(n, co[n], "return") /\ td' = td
  <2>1. Turn(n, "eof", "return") /\ co'[n].pc = "return" /\ Keeps(n, co[n])
    BY <1>0, <1>1, <1>2, <1>8, Continues
  <2>2. NoCall(n)
    BY <1>8, <2>1 DEF NoCall
  <2>3. Ends(n)
    BY <1>1, <1>5, <1>6, <2>1, <2>2 DEF Ends
  <2>4. QED
    BY <1>0, <1>1, <1>6, <2>1, <2>2, <2>3, RowShapes, TurnTyped
<1>9. QED
  BY <1>4, <1>7, <1>8

LEMMA VerifiesStep ==
  ASSUME Typed, NEW n \in Attempt, VerifyPasses(n) \/ VerifyFails(n)
  PROVE  Verifies(n) /\ Typed'
<1>0. /\ n \in Coroutine /\ {"verify", "deliver", "raise", "lock"} \subseteq Place
      /\ {"deliver", "lock", "raise"} \subseteq Place \ {"spawn", "slot", "teardown", "none"}
      /\ {"verify.failed", "verify.repeated"} \subseteq Trigger
      /\ "delivering" \in STATES
  BY Numbers, Names, States
<1>1. /\ At(n, "verify") /\ mem' = mem /\ td' = td
      /\ lock' = lock /\ infra' = infra /\ run' = run /\ cli' = cli
  BY DEF VerifyPasses, VerifyFails
<1>2. co[n] \in MeType /\ co[n].then = "none"
  BY <1>0, <1>1, Mine DEF At
<1>3. SameRegistries /\ mem' \in MemType
  BY <1>1, RowShapes DEF SameRegistries
<1>4. CASE VerifyPasses(n)
  <2>1. /\ att' \in [Attempt -> AttType] /\ SameProcs
        /\ \A m \in Attempt \ {co[n].arg} : att'[m].verdict = att[m].verdict
        /\ co[n].arg \in Attempt => att'[co[n].arg].verdict = "passed"
    <3>1. att' = [att EXCEPT ![co[n].arg].verdict = "passed"]
      BY <1>4 DEF VerifyPasses
    <3>2. QED
      BY <3>1, Judged
  <2>2. CASE task.state \in {"verifying", "needs_human"}
    <3>1. task' = [task EXCEPT !.state = "delivering"] /\ Continue(n, co[n], "deliver")
      BY <1>4, <2>2, Row, Edges DEF VerifyPasses, Moves, Goto
    <3>2. task' \in TaskType /\ task'.state = "delivering" /\ SameAttempt
      BY <1>0, <3>1, RowMoves DEF SameAttempt
    <3>3. Turn(n, "verify", "deliver") /\ co'[n].pc = "deliver" /\ Keeps(n, co[n])
      BY <1>0, <1>1, <1>2, <3>1, Continues
    <3>4. NoCall(n) /\ Rows
      BY <1>1, <1>3, <2>1, <3>2, <3>3 DEF NoCall, Rows
    <3>5. Verifies(n)
      BY <1>1, <1>3, <2>1, <2>2, <3>2, <3>3, <3>4 DEF Verifies
    <3>6. QED
      BY <1>0, <1>1, <1>3, <3>3, <3>4, <3>5, RowShapes, TurnTyped
  <2>3. CASE task.state \notin {"verifying", "needs_human"}
    <3>1. task' = task /\ Continue(n, co[n], "raise")
      BY <1>4, <2>3, Row, Edges DEF VerifyPasses, Moves, Goto
    <3>2. Turn(n, "verify", "raise") /\ co'[n].pc = "raise" /\ Keeps(n, co[n])
      BY <1>0, <1>1, <1>2, <3>1, Continues
    <3>3. NoCall(n) /\ Rows /\ SameAttempt
      BY <1>1, <1>3, <2>1, <3>1, <3>2, RowShapes DEF NoCall, Rows, SameAttempt
    <3>4. Verifies(n)
      BY <1>1, <1>3, <2>1, <2>3, <3>1, <3>2, <3>3 DEF Verifies
    <3>5. QED
      BY <1>0, <1>1, <1>3, <3>2, <3>3, <3>4, RowShapes, TurnTyped
  <2>4. QED
    BY <2>2, <2>3
<1>5. CASE VerifyFails(n)
  <2>1. /\ att' \in [Attempt -> AttType] /\ SameProcs
        /\ \A m \in Attempt \ {co[n].arg} : att'[m].verdict = att[m].verdict
        /\ co[n].arg \in Attempt => att'[co[n].arg].verdict = "failed"
    <3>1. att' = [att EXCEPT ![co[n].arg].verdict = "failed"]
      BY <1>5 DEF VerifyFails
    <3>2. QED
      BY <3>1, Judged
  <2>2. PICK kind \in {"verify.failed", "verify.repeated"} :
          Continue(n, [co[n] EXCEPT !.trig = kind], "lock")
    BY <1>5 DEF VerifyFails
  <2>3. task' = task
    BY <1>5 DEF VerifyFails
  <2> DEFINE me == [co[n] EXCEPT !.trig = kind]
  <2>4. me \in MeType /\ me.then = "none" /\ me.trig = kind /\ Continue(n, me, "lock")
    BY <1>0, <1>2, <2>2 DEF MeType
  <2> HIDE DEF me
  <2>5. Turn(n, "verify", "lock") /\ co'[n].pc = "lock" /\ co'[n].trig = kind
    BY <1>0, <1>1, <1>2, <2>4, Continues DEF Keeps
  <2>6. NoCall(n) /\ Rows /\ SameAttempt
    BY <1>1, <1>3, <2>1, <2>3, <2>5, RowShapes DEF NoCall, Rows, SameAttempt
  <2>7. Verifies(n)
    BY <1>1, <1>3, <2>1, <2>3, <2>5, <2>6 DEF Verifies
  <2>8. QED
    BY <1>0, <1>1, <1>3, <2>5, <2>6, <2>7, RowShapes, TurnTyped
<1>6. QED
  BY <1>4, <1>5

LEMMA HandsOverStep ==
  ASSUME Typed, NEW n \in Attempt, DeliverFails(n) \/ Deliver(n)
  PROVE  HandsOver(n) /\ Typed'
<1>0. /\ n \in Coroutine /\ {"deliver", "return", "raise", "lock"} \subseteq Place
      /\ {"return", "lock", "raise"} \subseteq Place \ {"spawn", "slot", "teardown", "none"}
      /\ {"artifact.failed", "artifact.repeated", "delivery.failed"} \subseteq Trigger
      /\ "delivered" \in STATES
  BY Numbers, Names, States
<1>1. /\ At(n, "deliver") /\ mem' = mem /\ td' = td
      /\ lock' = lock /\ infra' = infra /\ run' = run /\ cli' = cli
  BY DEF DeliverFails, Deliver
<1>2. co[n] \in MeType /\ co[n].then = "none"
  BY <1>0, <1>1, Mine DEF At
<1>3. SameRegistries /\ mem' \in MemType
  BY <1>1, RowShapes DEF SameRegistries
<1>4. CASE Deliver(n)
  <2>1. /\ att' \in [Attempt -> AttType] /\ SameProcs
        /\ \A m \in Attempt \ {task.cur} : att'[m].verdict = att[m].verdict
        /\ task.cur \in Attempt => att'[task.cur].verdict = "shipped"
    <3>1. att' = [att EXCEPT ![task.cur].verdict = "shipped"]
      BY <1>4 DEF Deliver
    <3>2. QED
      BY <3>1, Judged
  <2>2. CASE task.state = "delivering"
    <3>1. task' = [task EXCEPT !.state = "delivered"] /\ Continue(n, co[n], "return")
      BY <1>4, <2>2, Row, Edges DEF Deliver, Moves, Goto
    <3>2. task' \in TaskType /\ task'.state = "delivered" /\ SameAttempt
      BY <1>0, <3>1, RowMoves DEF SameAttempt
    <3>3. Turn(n, "deliver", "return") /\ co'[n].pc = "return" /\ Keeps(n, co[n])
      BY <1>0, <1>1, <1>2, <3>1, Continues
    <3>4. NoCall(n) /\ Rows
      BY <1>1, <1>3, <2>1, <3>2, <3>3 DEF NoCall, Rows
    <3>5. HandsOver(n)
      BY <1>1, <1>3, <2>1, <2>2, <3>2, <3>3, <3>4 DEF HandsOver
    <3>6. QED
      BY <1>0, <1>1, <1>3, <3>3, <3>4, <3>5, RowShapes, TurnTyped
  <2>3. CASE task.state # "delivering"
    <3>1. task' = task /\ Continue(n, co[n], "raise")
      BY <1>4, <2>3, Row, Edges DEF Deliver, Moves, Goto
    <3>2. Turn(n, "deliver", "raise") /\ co'[n].pc = "raise" /\ Keeps(n, co[n])
      BY <1>0, <1>1, <1>2, <3>1, Continues
    <3>3. NoCall(n) /\ Rows /\ SameAttempt
      BY <1>1, <1>3, <2>1, <3>1, <3>2, RowShapes DEF NoCall, Rows, SameAttempt
    <3>4. HandsOver(n)
      BY <1>1, <1>3, <2>1, <2>3, <3>1, <3>2, <3>3 DEF HandsOver
    <3>5. QED
      BY <1>0, <1>1, <1>3, <3>2, <3>3, <3>4, RowShapes, TurnTyped
  <2>4. QED
    BY <2>2, <2>3
<1>5. CASE DeliverFails(n)
  <2>1. PICK kind \in {"artifact.failed", "artifact.repeated", "delivery.failed"} :
          /\ att' = IF kind = "delivery.failed" THEN att
                    ELSE [att EXCEPT ![task.cur].verdict = "unfit"]
          /\ Continue(n, [co[n] EXCEPT !.trig = kind], "lock")
    BY <1>5 DEF DeliverFails
  <2>2. /\ att' \in [Attempt -> AttType] /\ SameProcs
        /\ \A m \in Attempt \ {task.cur} : att'[m].verdict = att[m].verdict
        /\ task.cur \in Attempt => att'[task.cur].verdict \in {att[task.cur].verdict, "unfit"}
    <3>1. CASE kind = "delivery.failed"
      BY <2>1, <3>1, RowShapes DEF SameProcs
    <3>2. CASE kind # "delivery.failed"
      BY <2>1, <3>2, Judged
    <3>3. QED
      BY <3>1, <3>2
  <2>3. task' = task
    BY <1>5 DEF DeliverFails
  <2> DEFINE me == [co[n] EXCEPT !.trig = kind]
  <2>4. me \in MeType /\ me.then = "none" /\ me.trig = kind /\ Continue(n, me, "lock")
    BY <1>0, <1>2, <2>1 DEF MeType
  <2> HIDE DEF me
  <2>5. Turn(n, "deliver", "lock") /\ co'[n].pc = "lock" /\ co'[n].trig = kind
    BY <1>0, <1>1, <1>2, <2>4, Continues DEF Keeps
  <2>6. NoCall(n) /\ Rows /\ SameAttempt
    BY <1>1, <1>3, <2>2, <2>3, <2>5, RowShapes DEF NoCall, Rows, SameAttempt
  <2>7. HandsOver(n)
    BY <1>1, <1>3, <2>2, <2>3, <2>5, <2>6 DEF HandsOver
  <2>8. QED
    BY <1>0, <1>1, <1>3, <2>5, <2>6, <2>7, RowShapes, TurnTyped
<1>6. QED
  BY <1>4, <1>5

-----------------------------------------------------------------------------
(* Triage. *)

Enters(c) ==
  /\ SameAttempt /\ SameVisible /\ SameRegistries /\ infra' = infra
  /\ NoCall(c) /\ Keeps(c, co[c]) /\ lock = 0
  /\ \/ /\ Turn(c, "lock", "return") /\ task.state \in SETTLED
        /\ task'.state = task.state /\ lock' = lock
     \/ /\ Turn(c, "lock", "policy") /\ lock' = c
        /\ task.state \in {"running", "verifying", "delivering", "triage"}
        /\ task'.state = "triage"
     \/ /\ Turn(c, "lock", "raise") /\ task'.state = task.state /\ lock' = lock
        /\ task.state \notin {"running", "verifying", "delivering", "triage"}

\* The way out of triage that c chooses, from p.
Decision(c, p) ==
  \/ /\ Turn(c, p, "launch") /\ Calls(c, 0) /\ BudgetLeft
     /\ co'[c].trig = co[c].trig /\ co'[c].arg = co[c].arg /\ co'[c].new = co[c].new
     /\ co'[c].paid = task.retries + 1
     /\ task'.state = task.state /\ lock' = lock
  \/ /\ Turn(c, p, "return") /\ Calls(c, 0) /\ Keeps(c, co[c])
     /\ task.state = "triage" /\ task'.state \in {"needs_human", "failed"} /\ lock' = lock
  \/ /\ Turn(c, p, "raise") /\ NoCall(c) /\ Keeps(c, co[c])
     /\ task'.state = task.state /\ lock' = lock
  \/ /\ p = "policy" /\ Turn(c, p, "supervise") /\ NoCall(c) /\ Keeps(c, co[c])
     /\ task'.state = task.state /\ lock' = lock
  \/ /\ p = "supervise" /\ Turn(c, p, IF c = Dog THEN "idle" ELSE "read") /\ NoCall(c)
     /\ Keeps(c, Resting("x")) /\ BudgetLeft
     /\ Legal(task.state, "running") /\ task'.state = "running"
     /\ lock' = IF lock = c THEN 0 ELSE lock
     /\ co[c].trig = "asked" \/ (co[c].trig = "stalled" /\ co[c].arg # 0 /\ Waits)

Decides(c) ==
  /\ SameAttempt /\ SameVisible /\ SameRegistries /\ infra' = infra
  /\ \E p \in {"policy", "supervise"} : Decision(c, p)

Leaves(c) ==
  /\ SameRow /\ SameVisible /\ SameRegistries /\ infra' = infra /\ mem'.seen = mem.seen
  /\ lock' = (IF lock = c THEN 0 ELSE lock)
  /\ Keeps(c, Resting("x"))
  /\ \/ c \in Attempt /\ (\E p \in {"return", "raise"} : Turn(c, p, "off")) /\ Calls(c, c)
     \/ c \notin Attempt /\ Turn(c, "return", "idle") /\ Calls(c, co[c].arg)
        /\ co[c].trig = "stalled"
     \/ c \notin Attempt /\ Turn(c, "return", "idle") /\ NoCall(c)
     \/ c \notin Attempt /\ Turn(c, "raise", IF c = Dog THEN "dead" ELSE "stop") /\ NoCall(c)

Sweeps ==
  /\ SameRow /\ SameVisible /\ SameRegistries /\ lock' = lock /\ infra' = infra
  /\ mem.seen /\ task.state = "running" /\ Turn(Dog, "idle", "lock")
  /\ \/ mem.reg # 0 /\ Calls(Dog, mem.reg) /\ co'[Dog].trig = "timeout"
     \/ NoCall(Dog) /\ co'[Dog].trig = "stalled" /\ co'[Dog].arg = mem.reg

LEMMA EntersStep ==
  ASSUME Typed, NEW c \in Coroutine, TriageEnters(c)
  PROVE  Enters(c) /\ Typed'
<1>0. /\ {"lock", "return", "raise", "policy"} \subseteq Place
      /\ {"return", "policy", "raise"} \subseteq Place \ {"spawn", "slot", "teardown", "none"}
      /\ "triage" \in STATES
  BY Names, States
<1>1. /\ At(c, "lock") /\ lock = 0 /\ mem' = mem /\ td' = td /\ att' = att
      /\ infra' = infra /\ run' = run /\ cli' = cli
  BY DEF TriageEnters
<1>2. co[c] \in MeType /\ co[c].then = "none"
  BY <1>1, Mine DEF At
<1>3. SameRegistries /\ SameVisible /\ mem' \in MemType /\ att' \in [Attempt -> AttType]
  BY <1>1, RowShapes DEF SameRegistries, SameVisible, SameProcs, SameVerdicts
<1>4. CASE task.state \in SETTLED
  <2>1. Continue(c, co[c], "return") /\ task' = task /\ lock' = lock
    BY <1>4 DEF TriageEnters, Goto
  <2>2. Turn(c, "lock", "return") /\ co'[c].pc = "return" /\ Keeps(c, co[c])
    BY <1>0, <1>1, <1>2, <2>1, Continues
  <2>3. NoCall(c) /\ Rows /\ SameAttempt
    BY <1>1, <1>3, <2>1, <2>2, RowShapes DEF NoCall, Rows, SameAttempt
  <2>4. Enters(c)
    BY <1>1, <1>3, <1>4, <2>1, <2>2, <2>3 DEF Enters
  <2>5. QED
    BY <1>0, <1>1, <1>3, <2>1, <2>2, <2>3, <2>4, RowShapes, TurnTyped
<1>5. CASE task.state \in {"running", "verifying", "delivering", "triage"}
  <2>1. task.state \notin SETTLED /\ (task.state = "triage" \/ Moves("triage"))
    BY <1>5, Row, Edges DEF SETTLED, Moves
  <2>2. Continue(c, co[c], "policy") /\ task' = [task EXCEPT !.state = "triage"] /\ lock' = c
    BY <2>1 DEF TriageEnters, Goto
  <2>3. task' \in TaskType /\ task'.state = "triage" /\ SameAttempt
    BY <1>0, <2>2, RowMoves DEF SameAttempt
  <2>4. Turn(c, "lock", "policy") /\ co'[c].pc = "policy" /\ Keeps(c, co[c])
    BY <1>0, <1>1, <1>2, <2>2, Continues
  <2>5. NoCall(c) /\ Rows
    BY <1>1, <1>3, <2>3, <2>4 DEF NoCall, Rows
  <2>6. Enters(c)
    BY <1>1, <1>3, <1>5, <2>2, <2>3, <2>4, <2>5 DEF Enters
  <2>7. lock' \in Coroutine \cup {0}
    BY <2>2
  <2>8. QED
    BY <1>0, <1>1, <1>3, <2>4, <2>5, <2>6, <2>7, RowShapes, TurnTyped
<1>6. CASE task.state \notin SETTLED
           /\ task.state \notin {"running", "verifying", "delivering", "triage"}
  <2>1. ~(task.state = "triage" \/ Moves("triage"))
    BY <1>6, Row, Edges DEF Moves
  <2>2. Continue(c, co[c], "raise") /\ task' = task /\ lock' = lock
    BY <1>6, <2>1 DEF TriageEnters, Goto
  <2>3. Turn(c, "lock", "raise") /\ co'[c].pc = "raise" /\ Keeps(c, co[c])
    BY <1>0, <1>1, <1>2, <2>2, Continues
  <2>4. NoCall(c) /\ Rows /\ SameAttempt
    BY <1>1, <1>3, <2>2, <2>3, RowShapes DEF NoCall, Rows, SameAttempt
  <2>5. Enters(c)
    BY <1>1, <1>3, <1>6, <2>2, <2>3, <2>4 DEF Enters
  <2>6. QED
    BY <1>0, <1>1, <1>3, <2>2, <2>3, <2>4, <2>5, RowShapes, TurnTyped
<1>7. QED
  BY <1>4, <1>5, <1>6

\* A decision that keeps the rows' types keeps all types.
LEMMA DecisionTyped ==
  ASSUME Typed, NEW c \in Coroutine, NEW p \in {"policy", "supervise"}, Decision(c, p),
         Rows, SameRegistries, infra' = infra, run' = run, cli' = cli
  PROVE  Typed'
<1>1. {"launch", "return", "raise", "supervise", "idle", "read"}
        \subseteq Place \ {"spawn", "slot", "teardown", "none"}
  BY Names
<1>2. PICK q \in {"launch", "return", "raise", "supervise", "idle", "read"} : Turn(c, p, q)
  BY DEF Decision
<1>3. NoCall(c) \/ \E e \in Attempt \cup {0} : Calls(c, e)
  BY DEF Decision
<1>4. lock' \in Coroutine \cup {0}
  BY RowShapes DEF Decision
<1>5. QED
  BY <1>1, <1>2, <1>3, <1>4, RowShapes, TurnTyped

LEMMA SettleDecides ==
  ASSUME Typed, NEW c \in Coroutine, NEW p \in {"policy", "supervise"}, At(c, p),
         NEW to \in {"needs_human", "failed"}, Settle(c, to), lock' = lock
  PROVE  Decision(c, p) /\ task' \in TaskType /\ SameAttempt
<1>0. /\ {"policy", "supervise", "return", "raise"} \subseteq Place
      /\ "return" \in After \ {"none"} /\ to \in STATES
  BY Names, States
<1>1. co[c] \in MeType /\ co[c].then = "none"
  BY Mine DEF At
<1>2. CASE task.state = "triage"
  <2>1. task' = [task EXCEPT !.state = to, !.open = FALSE] /\ CallTeardown(c, co[c], 0, "return")
    BY <1>2, Row, Edges DEF Settle, Moves
  <2>2. task' \in TaskType /\ task'.state = to /\ SameAttempt
    BY <1>0, <2>1, RowShapes DEF TaskType, SameAttempt
  <2>3. Turn(c, p, "return") /\ Calls(c, 0) /\ Keeps(c, co[c])
    BY <1>0, <1>1, <2>1, CallsTeardown
  <2>4. QED
    BY <1>2, <2>2, <2>3 DEF Decision
<1>3. CASE task.state # "triage"
  <2>1. task' = [task EXCEPT !.open = FALSE] /\ Continue(c, co[c], "raise") /\ td' = td
    BY <1>3, Row, Edges DEF Settle, Moves, Goto
  <2>2. task' \in TaskType /\ task'.state = task.state /\ SameAttempt
    BY <2>1, RowShapes DEF TaskType, SameAttempt
  <2>3. Turn(c, p, "raise") /\ co'[c].pc = "raise" /\ Keeps(c, co[c])
    BY <1>0, <1>1, <2>1, Continues
  <2>4. QED
    BY <2>1, <2>2, <2>3 DEF Decision, NoCall
<1>4. QED
  BY <1>2, <1>3

LEMMA RelaunchDecides ==
  ASSUME Typed, NEW c \in Coroutine, NEW p \in {"policy", "supervise"}, At(c, p),
         CallRelaunch(c), BudgetLeft, task'.state = task.state, lock' = lock
  PROVE  Decision(c, p)
<1>0. {"policy", "supervise"} \subseteq Place /\ "launch" \in After \ {"none"}
  BY Names
<1> DEFINE me == [co[c] EXCEPT !.paid = task.retries + 1]
<1>1. co[c] \in MeType /\ co[c].then = "none" /\ task.retries + 1 \in Nat
  BY Mine, Row DEF At
<1>2. /\ me \in MeType /\ me.then = "none" /\ me.trig = co[c].trig /\ me.arg = co[c].arg
      /\ me.new = co[c].new /\ me.paid = task.retries + 1
  BY <1>1 DEF MeType
<1>3. CallTeardown(c, me, 0, "launch")
  BY DEF CallRelaunch
<1> HIDE DEF me
<1>4. Turn(c, p, "launch") /\ Calls(c, 0) /\ Keeps(c, me)
  BY <1>0, <1>2, <1>3, CallsTeardown
<1>5. QED
  BY <1>2, <1>4 DEF Decision, Keeps

\* The deterministic policy.
LEMMA PolicyStep ==
  ASSUME Typed, NEW c \in Coroutine,
         PolicyRelaunches(c) \/ PolicyEscalates(c) \/ UnfinishedEscalates(c)
         \/ InvokeSupervisor(c)
  PROVE  Decides(c) /\ Typed'
<1>0. /\ {"policy", "return", "raise", "supervise", "launch"} \subseteq Place
      /\ {"return", "launch"} \subseteq After \ {"none"} /\ "needs_human" \in STATES
  BY Names, States
<1>1. /\ At(c, "policy") /\ mem' = mem /\ att' = att /\ lock' = lock
      /\ infra' = infra /\ run' = run /\ cli' = cli
  BY DEF PolicyRelaunches, PolicyEscalates, UnfinishedEscalates, InvokeSupervisor
<1>2. co[c] \in MeType /\ co[c].then = "none"
  BY <1>1, Mine DEF At
<1>3. SameRegistries /\ SameVisible /\ mem' \in MemType /\ att' \in [Attempt -> AttType]
  BY <1>1, RowShapes DEF SameRegistries, SameVisible, SameProcs, SameVerdicts
<1>4. Decision(c, "policy") /\ task' \in TaskType /\ SameAttempt
  <2>1. CASE PolicyRelaunches(c)
    <3>1. CallRelaunch(c) /\ BudgetLeft
      BY <2>1 DEF PolicyRelaunches, Relaunches
    <3>2. \E b \in BOOLEAN : task' = [task EXCEPT !.repaired = b]
      BY <2>1, RowShapes DEF PolicyRelaunches, TaskType
    <3>3. task' \in TaskType /\ SameAttempt /\ task'.state = task.state
      BY <3>2, RowShapes DEF TaskType, SameAttempt
    <3>4. QED
      BY <1>1, <3>1, <3>3, RelaunchDecides
  <2>2. CASE PolicyEscalates(c)
    <3>1. CASE task.state = "triage"
      <4>1. task' = [task EXCEPT !.state = "needs_human"] /\ CallTeardown(c, co[c], 0, "return")
        BY <2>2, <3>1, Row, Edges DEF PolicyEscalates, Moves
      <4>2. task' \in TaskType /\ task'.state = "needs_human" /\ SameAttempt
        BY <1>0, <4>1, RowMoves DEF SameAttempt
      <4>3. Turn(c, "policy", "return") /\ Calls(c, 0) /\ Keeps(c, co[c])
        BY <1>0, <1>1, <1>2, <4>1, CallsTeardown
      <4>4. QED
        BY <1>1, <3>1, <4>2, <4>3 DEF Decision
    <3>2. CASE task.state # "triage"
      <4>1. task' = task /\ Continue(c, co[c], "raise") /\ td' = td
        BY <2>2, <3>2, Row, Edges DEF PolicyEscalates, Moves, Goto
      <4>2. task' \in TaskType /\ task'.state = task.state /\ SameAttempt
        BY <4>1, RowShapes DEF SameAttempt
      <4>3. Turn(c, "policy", "raise") /\ co'[c].pc = "raise" /\ Keeps(c, co[c])
        BY <1>0, <1>1, <1>2, <4>1, Continues
      <4>4. QED
        BY <1>1, <4>1, <4>2, <4>3 DEF Decision, NoCall
    <3>3. QED
      BY <3>1, <3>2
  <2>3. CASE UnfinishedEscalates(c)
    BY <1>1, <2>3, SettleDecides DEF UnfinishedEscalates
  <2>4. CASE InvokeSupervisor(c)
    <3>1. Continue(c, co[c], "supervise") /\ task' = [task EXCEPT !.open = TRUE] /\ td' = td
      BY <2>4 DEF InvokeSupervisor, Goto
    <3>2. task' \in TaskType /\ task'.state = task.state /\ SameAttempt
      BY <3>1, RowShapes DEF TaskType, SameAttempt
    <3>3. Turn(c, "policy", "supervise") /\ co'[c].pc = "supervise" /\ Keeps(c, co[c])
      BY <1>0, <1>1, <1>2, <3>1, Continues
    <3>4. QED
      BY <1>1, <3>1, <3>2, <3>3 DEF Decision, NoCall
  <2>5. QED
    BY <2>1, <2>2, <2>3, <2>4
<1>5. Decides(c)
  BY <1>1, <1>3, <1>4 DEF Decides
<1>6. Rows
  BY <1>3, <1>4 DEF Rows
<1>7. QED
  BY <1>1, <1>3, <1>4, <1>5, <1>6, DecisionTyped

LEMMA Resumes ==
  ASSUME Typed, NEW c \in Coroutine, At(c, "supervise"), Resume(c), BudgetLeft,
         co[c].trig = "asked" => task.nudges < MaxNudges,
         co[c].trig = "asked" \/ (co[c].trig = "stalled" /\ co[c].arg # 0 /\ Waits)
  PROVE  Decision(c, "supervise") /\ task' \in TaskType /\ SameAttempt
<1>0. /\ {"supervise", "idle", "read", "raise"} \subseteq Place /\ "running" \in STATES
  BY Names, States
<1>1. co[c] \in MeType /\ co[c].then = "none" /\ td' = td
      /\ Resting("x") \in MeType /\ Resting("x").then = "none"
  BY Mine DEF At, Resume
<1>2. CASE Moves("running")
  <2>1. /\ task' = [task EXCEPT !.state = "running", !.open = FALSE,
                                !.nudges = IF co[c].trig = "asked" THEN @ + 1 ELSE @]
        /\ Unlock(c)
        /\ Continue(c, Resting("x"), IF c = Dog THEN "idle" ELSE "read")
    BY <1>2 DEF Resume
  <2>2. task \in TaskType /\ task.nudges \in 0..MaxNudges /\ MaxNudges \in Nat
    BY RowShapes, RuntimeAssumption DEF TaskType
  <2>3. PICK k \in 0..MaxNudges : k = IF co[c].trig = "asked" THEN task.nudges + 1 ELSE task.nudges
    BY <2>2
  <2>4. task' = [task EXCEPT !.state = "running", !.open = FALSE, !.nudges = k]
    BY <2>1, <2>3
  <2>5. task' \in TaskType /\ task'.state = "running" /\ SameAttempt
    BY <1>0, <2>2, <2>3, <2>4 DEF TaskType, SameAttempt
  <2>6. PICK q \in {"idle", "read"} : q = IF c = Dog THEN "idle" ELSE "read"
    OBVIOUS
  <2>7. Continue(c, Resting("x"), q)
    BY <2>1, <2>6
  <2>8. Turn(c, "supervise", q) /\ co'[c].pc = q /\ Keeps(c, Resting("x"))
    BY <1>0, <1>1, <2>7, Continues
  <2>9. NoCall(c) /\ lock' = IF lock = c THEN 0 ELSE lock
    BY <1>1, <2>1, <2>8 DEF NoCall, Unlock
  <2>10. QED
    BY <1>2, <2>5, <2>6, <2>8, <2>9 DEF Decision, Moves
<1>3. CASE ~Moves("running")
  <2>1. task' = [task EXCEPT !.open = FALSE] /\ Continue(c, co[c], "raise") /\ lock' = lock
    BY <1>3 DEF Resume, Goto
  <2>2. task' \in TaskType /\ task'.state = task.state /\ SameAttempt
    BY <2>1, RowShapes DEF TaskType, SameAttempt
  <2>3. Turn(c, "supervise", "raise") /\ co'[c].pc = "raise" /\ Keeps(c, co[c])
    BY <1>0, <1>1, <2>1, Continues
  <2>4. QED
    BY <1>1, <2>1, <2>2, <2>3 DEF Decision, NoCall
<1>4. QED
  BY <1>2, <1>3

\* What the supervisor may choose, and when.
LEMMA MenuMeans ==
  ASSUME NEW c
  PROVE  /\ "nudge" \in Menu(c) => BudgetLeft /\ co[c].trig = "asked" /\ task.nudges < MaxNudges
         /\ "wait" \in Menu(c) => BudgetLeft /\ co[c].trig = "stalled" /\ co[c].arg # 0 /\ Waits
         /\ "restart" \in Menu(c) => BudgetLeft
BY DEF Menu, LiveSession

LEMMA SupervisorStep ==
  ASSUME Typed, NEW c \in Coroutine, SupervisorActs(c)
  PROVE  Decides(c) /\ Typed'
<1>0. /\ {"supervise", "raise", "launch"} \subseteq Place
      /\ "launch" \in After \ {"none"}
  BY Names
<1>1. /\ At(c, "supervise") /\ att' = att /\ infra' = infra /\ run' = run /\ cli' = cli
  BY DEF SupervisorActs
<1>2. co[c] \in MeType /\ co[c].then = "none"
  BY <1>1, Mine DEF At
<1>3. PICK action \in Menu(c) :
       \/ action = "nudge" /\ Nudge(c)
       \/ /\ action = "wait" /\ Resume(c)
          /\ mem' = [mem EXCEPT !.grace = TRUE, !.seen = (@ \/ Moves("running"))]
       \/ /\ action = "restart"
          /\ task' = [task EXCEPT !.open = FALSE]
          /\ CallRelaunch(c) /\ UNCHANGED <<lock, mem>>
       \/ action = "escalate" /\ Settle(c, "needs_human") /\ UNCHANGED <<lock, mem>>
       \/ action = "abandon" /\ Settle(c, "failed") /\ UNCHANGED <<lock, mem>>
  BY DEF SupervisorActs
<1>4. Decision(c, "supervise") /\ task' \in TaskType /\ SameAttempt
      /\ (\/ mem' = mem
          \/ \E b \in BOOLEAN : mem' = [mem EXCEPT !.seen = b]
          \/ \E b \in BOOLEAN : mem' = [mem EXCEPT !.grace = TRUE, !.seen = b])
  <2>0. mem.seen \in BOOLEAN /\ (mem.seen \/ Moves("running")) \in BOOLEAN
    BY RowShapes DEF MemType
  <2>1. CASE action = "nudge" /\ Resume(c) /\ mem' = [mem EXCEPT !.seen = (@ \/ Moves("running"))]
    <3>1. \E b \in BOOLEAN : mem' = [mem EXCEPT !.seen = b]
      BY <2>0, <2>1
    <3>2. QED
      BY <1>1, <1>3, <2>1, <3>1, MenuMeans, Resumes
  <2>2. CASE action = "nudge" /\ task' = [task EXCEPT !.open = FALSE]
             /\ Continue(c, co[c], "raise") /\ UNCHANGED <<mem, lock, td>>
    <3>1. task' \in TaskType /\ task'.state = task.state /\ SameAttempt
      BY <2>2, RowShapes DEF TaskType, SameAttempt
    <3>2. Turn(c, "supervise", "raise") /\ co'[c].pc = "raise" /\ Keeps(c, co[c])
      BY <1>0, <1>1, <1>2, <2>2, Continues
    <3>3. QED
      BY <2>2, <3>1, <3>2 DEF Decision, NoCall
  <2>3. CASE action = "wait" /\ Resume(c)
             /\ mem' = [mem EXCEPT !.grace = TRUE, !.seen = (@ \/ Moves("running"))]
    <3>1. \E b \in BOOLEAN : mem' = [mem EXCEPT !.grace = TRUE, !.seen = b]
      BY <2>0, <2>3
    <3>2. "wait" \in Menu(c)
      BY <1>3, <2>3
    <3>3. BudgetLeft /\ co[c].trig = "stalled" /\ co[c].arg # 0 /\ Waits
      BY <3>2, MenuMeans
    <3>4. co[c].trig # "asked"
      BY <3>3
    <3>5. QED
      BY <1>1, <2>3, <3>1, <3>3, <3>4, Resumes
  <2>4. CASE action = "restart" /\ task' = [task EXCEPT !.open = FALSE]
             /\ CallRelaunch(c) /\ UNCHANGED <<lock, mem>>
    <3>1. task' \in TaskType /\ task'.state = task.state /\ SameAttempt
      BY <2>4, RowShapes DEF TaskType, SameAttempt
    <3>2. "restart" \in Menu(c)
      BY <1>3, <2>4
    <3>3. QED
      BY <1>1, <2>4, <3>1, <3>2, MenuMeans, RelaunchDecides
  <2>5. CASE \E to \in {"needs_human", "failed"} : Settle(c, to) /\ UNCHANGED <<lock, mem>>
    BY <1>1, <2>5, SettleDecides
  <2>6. Nudge(c) => \/ Resume(c) /\ mem' = [mem EXCEPT !.seen = (@ \/ Moves("running"))]
                    \/ task' = [task EXCEPT !.open = FALSE]
                       /\ Continue(c, co[c], "raise") /\ UNCHANGED <<mem, lock, td>>
    BY DEF Nudge, Goto
  <2>7. QED
    BY <1>3, <2>1, <2>2, <2>3, <2>4, <2>5, <2>6
<1>5. SameRegistries /\ mem' \in MemType
  BY <1>4, RowShapes DEF SameRegistries, MemType
<1>6. SameVisible /\ att' \in [Attempt -> AttType]
  BY <1>1, RowShapes DEF SameVisible, SameProcs, SameVerdicts
<1>7. Decides(c)
  BY <1>1, <1>4, <1>5, <1>6 DEF Decides
<1>8. Rows
  BY <1>4, <1>5, <1>6 DEF Rows
<1>9. QED
  BY <1>1, <1>4, <1>5, <1>7, <1>8, DecisionTyped

LEMMA LeavesStep ==
  ASSUME Typed, NEW c \in Coroutine, Return(c) \/ Raise(c)
  PROVE  Leaves(c) /\ Typed'
<1>0. /\ {"return", "raise", "off", "idle", "dead", "stop"} \subseteq Place
      /\ {"off", "idle"} \subseteq After \ {"none"}
      /\ {"off", "idle", "dead", "stop"} \subseteq Place \ {"spawn", "slot", "teardown", "none"}
  BY Names
<1>1. /\ mem' = mem /\ att' = att /\ task' = task
      /\ infra' = infra /\ run' = run /\ cli' = cli
      /\ lock' = IF lock = c THEN 0 ELSE lock
  BY DEF Return, Raise, Unlock
<1>2. PICK p \in {"return", "raise"} : At(c, p) /\ (p = "return" => Return(c)) /\ (p = "raise" => Raise(c))
  BY DEF Return, Raise
<1>3. Resting("x") \in MeType /\ Resting("x").then = "none" /\ co[c].arg \in Attempt \cup {0}
  BY Mine DEF CoType
<1>4. /\ SameRegistries /\ SameVisible /\ SameRow /\ Rows /\ lock' \in Coroutine \cup {0}
      /\ infra' \in BOOLEAN
  BY <1>1, RowShapes DEF SameRegistries, SameVisible, SameProcs, SameVerdicts, SameRow, Rows
<1>5. CASE c \in Attempt
  <2>1. CallTeardown(c, Resting("x"), c, "off")
    BY <1>2, <1>5 DEF Return, Raise
  <2>2. Turn(c, p, "off") /\ Calls(c, c) /\ Keeps(c, Resting("x"))
    BY <1>0, <1>2, <1>3, <1>5, <2>1, CallsTeardown
  <2>3. Leaves(c)
    BY <1>1, <1>4, <1>5, <2>2 DEF Leaves
  <2>4. QED
    BY <1>0, <1>1, <1>2, <1>4, <1>5, <2>2, <2>3, TurnTyped
<1>6. CASE c \notin Attempt /\ p = "return" /\ co[c].trig = "stalled"
  <2>1. CallTeardown(c, Resting("x"), co[c].arg, "idle")
    BY <1>2, <1>6 DEF Return
  <2>2. Turn(c, "return", "idle") /\ Calls(c, co[c].arg) /\ Keeps(c, Resting("x"))
    BY <1>0, <1>2, <1>3, <1>6, <2>1, CallsTeardown
  <2>3. Leaves(c)
    BY <1>1, <1>4, <1>6, <2>2 DEF Leaves
  <2>4. QED
    BY <1>0, <1>1, <1>3, <1>4, <2>2, <2>3, TurnTyped
<1>7. CASE c \notin Attempt /\ ~(p = "return" /\ co[c].trig = "stalled")
  <2>1. PICK q \in {"idle", "dead", "stop"} :
          /\ Continue(c, Resting("x"), q) /\ td' = td
          /\ q = IF p = "return" THEN "idle" ELSE IF c = Dog THEN "dead" ELSE "stop"
    BY <1>2, <1>7 DEF Return, Raise
  <2>2. Turn(c, p, q) /\ co'[c].pc = q /\ Keeps(c, Resting("x"))
    BY <1>0, <1>2, <1>3, <2>1, Continues
  <2>3. NoCall(c)
    BY <2>1, <2>2 DEF NoCall
  <2>4. Leaves(c)
    BY <1>1, <1>4, <1>7, <2>1, <2>2, <2>3 DEF Leaves
  <2>5. QED
    BY <1>0, <1>1, <1>4, <2>2, <2>3, <2>4, TurnTyped
<1>8. QED
  BY <1>5, <1>6, <1>7

LEMMA SweepsStep ==
  ASSUME Typed, DogTimeout \/ DogStall
  PROVE  Sweeps /\ Typed'
<1>0. /\ Dog \in Coroutine /\ {"idle", "lock"} \subseteq Place /\ "lock" \in After \ {"none"}
      /\ "lock" \in Place \ {"spawn", "slot", "teardown", "none"}
      /\ {"timeout", "stalled"} \subseteq Trigger
  BY Names, Numbers
<1>1. /\ At(Dog, "idle") /\ mem.seen /\ task.state = "running" /\ task' = task
      /\ mem' = [mem EXCEPT !.grace = FALSE]
      /\ lock' = lock /\ infra' = infra /\ run' = run /\ cli' = cli
  BY DEF DogTimeout, DogStall
<1>2. co[Dog] \in MeType /\ co[Dog].then = "none" /\ mem.reg \in Attempt \cup {0}
  BY <1>0, <1>1, Mine, RowShapes DEF At, MemType
<1>3. SameRegistries /\ SameRow /\ mem' \in MemType /\ task' \in TaskType
  BY <1>1, RowShapes DEF SameRegistries, SameRow, MemType
<1>4. SameVisible /\ att' \in [Attempt -> AttType]
  <2>1. CASE DogTimeout
    BY <2>1, RowShapes DEF DogTimeout, SameVisible, SameProcs, SameVerdicts
  <2>2. CASE DogStall
    <3>1. att' = [att EXCEPT ![task.cur].signalled = TRUE]
      BY <2>2 DEF DogStall
    <3>2. QED
      BY <3>1, RowShapes, Zenon DEF AttType, SameVisible, SameProcs, SameVerdicts
  <2>3. QED
    BY <2>1, <2>2
<1>5. Rows
  BY <1>3, <1>4 DEF Rows
<1>6. CASE DogTimeout
  <2> DEFINE me == [co[Dog] EXCEPT !.trig = "timeout"]
  <2>1. me \in MeType /\ me.then = "none" /\ me.trig = "timeout"
    BY <1>0, <1>2 DEF MeType
  <2>2. mem.reg # 0 /\ CallTeardown(Dog, me, mem.reg, "lock")
    BY <1>6 DEF DogTimeout
  <2> HIDE DEF me
  <2>3. Turn(Dog, "idle", "lock") /\ Calls(Dog, mem.reg) /\ co'[Dog].trig = "timeout"
    BY <1>0, <1>1, <1>2, <2>1, <2>2, CallsTeardown DEF Keeps
  <2>4. Sweeps
    BY <1>1, <1>3, <1>4, <2>2, <2>3 DEF Sweeps
  <2>5. QED
    BY <1>0, <1>1, <1>2, <1>3, <1>5, <2>3, <2>4, RowShapes, TurnTyped
<1>7. CASE DogStall
  <2> DEFINE me == [co[Dog] EXCEPT !.trig = "stalled", !.arg = mem.reg]
  <2>1. me \in MeType /\ me.then = "none" /\ me.trig = "stalled" /\ me.arg = mem.reg
    BY <1>0, <1>2 DEF MeType
  <2>2. Continue(Dog, me, "lock") /\ td' = td
    BY <1>7 DEF DogStall
  <2> HIDE DEF me
  <2>3. /\ Turn(Dog, "idle", "lock") /\ co'[Dog].pc = "lock" /\ co'[Dog].trig = "stalled"
        /\ co'[Dog].arg = mem.reg
    BY <1>0, <1>1, <1>2, <2>1, <2>2, Continues DEF Keeps
  <2>4. NoCall(Dog)
    BY <2>2, <2>3 DEF NoCall
  <2>5. Sweeps
    BY <1>1, <1>3, <1>4, <2>3, <2>4 DEF Sweeps
  <2>6. QED
    BY <1>0, <1>1, <1>3, <1>5, <2>3, <2>4, <2>5, RowShapes, TurnTyped
<1>8. QED
  BY <1>6, <1>7

-----------------------------------------------------------------------------
(* The cleanup, and the rest of the world. *)

\* The cleanup forgets the registered attempt before it kills it.
Forgets ==
  /\ run = "on" /\ cpu = 0 /\ cpu' = 0 /\ QueuedBehind(0)
  /\ td.phase = "start" /\ (td.expect # 0 => mem.reg = td.expect) /\ mem.reg # 0
  /\ td'.phase = "reap" /\ td'.proc = mem.reg /\ td'.owner = td.owner
  /\ co' = co /\ SameRow /\ SameVisible /\ lock' = lock /\ infra' = infra
  /\ mem'.reg = 0 /\ mem'.held = mem.held /\ mem'.slot = mem.slot
  /\ mem'.wt = mem.wt /\ mem'.free = mem.free /\ mem'.others = mem.others

\* Another attempt is registered than the cleanup was asked for.
Aborts ==
  /\ run = "on" /\ td.phase = "start" /\ td.expect # 0 /\ mem.reg # td.expect
  /\ td' = NoTeardown /\ SameRow /\ SameVisible
  /\ \A c \in Coroutine : IF co[c].pc # "teardown" THEN co'[c] = co[c]
                         ELSE co'[c].pc \in {co[c].then, "raise"}

Finishes ==
  /\ run = "on" /\ cpu = 0 /\ cpu' = 0 /\ 0 \notin late
  /\ late' = IF \E d \in Coroutine \ late : Ready(d) THEN late ELSE {}
  /\ td.phase = "reap" \/ (td.phase = "start" /\ td.expect = 0 /\ mem.reg = 0)
  /\ td' = NoTeardown
  /\ SameRow /\ SameVerdicts
  /\ td.proc # 0 => att'[td.proc].proc # "live"
  /\ \A n \in Attempt : n # td.proc => att'[n].proc = att[n].proc
  /\ mem'.reg = mem.reg /\ mem'.held = 0 /\ mem'.slot = 0 /\ mem'.wt = 0
  /\ mem'.free = mem.free + Taken /\ mem'.others = mem.others
  /\ infra' = (infra \/ (mem.wt = 0 /\ mem.slot # 0))
  /\ \A c \in Cancelled : co'[c] = Resting("off")
  /\ \A c \in Coroutine \ Cancelled :
       IF co[c].pc # "teardown" THEN co'[c] = co[c]
       ELSE /\ co'[c].pc \in {co[c].then, "raise"} /\ co'[c].then = "none"
            /\ co'[c].pc = "raise" => co[c].then = "raise" \/ (mem.wt = 0 /\ mem.slot # 0)
            /\ Keeps(c, co[c])
  /\ lock' = IF lock \in Cancelled THEN 0 ELSE lock

Outside ==
  /\ run = "on" /\ co' = co /\ td' = td /\ lock' = lock /\ cpu' = cpu /\ late' = late
  /\ infra' = infra /\ SameAttempt /\ SameVerdicts
  /\ \A n \in Attempt : att'[n].proc = "live" => att[n].proc = "live"
  /\ mem'.reg = mem.reg /\ mem'.held = mem.held /\ mem'.slot = mem.slot /\ mem'.wt = mem.wt
  /\ mem'.seen = mem.seen /\ mem'.free + mem'.others = mem.free + mem.others
  /\ \/ task'.state = task.state
     \/ task.state = "needs_human" /\ task'.state = "queued" /\ cli'.answers # 0
     \/ task.state \notin TERMINAL /\ task'.state = "cancelled" /\ cli'.cancels # 0

LEMMA Wakes ==
  ASSUME Typed, NEW f \in [Coroutine -> CoType], NEW failed \in BOOLEAN, co' = Woken(f, failed),
         \A c \in Coroutine : f[c].pc = "teardown" <=> f[c].then # "none"
  PROVE  /\ co' \in [Coroutine -> CoType]
         /\ \A c \in Coroutine :
              IF f[c].pc # "teardown" THEN co'[c] = f[c]
              ELSE /\ co'[c].pc \in {f[c].then, "raise"} /\ co'[c].then = "none"
                   /\ co'[c].pc = "raise" => failed \/ f[c].then = "raise"
                   /\ Keeps(c, f[c])
<1>0. After \ {"none"} \subseteq Place /\ "raise" \in Place /\ "none" \in After
  BY Names
<1> DEFINE w(c) == IF f[c].pc # "teardown" THEN f[c]
                   ELSE [f[c] EXCEPT !.pc = IF failed /\ f[c].then \notin {"off", "close"} THEN "raise"
                                            ELSE f[c].then,
                                     !.then = "none"]
<1>1. ASSUME NEW c \in Coroutine
      PROVE  /\ w(c) \in CoType
             /\ IF f[c].pc # "teardown" THEN w(c) = f[c]
                ELSE /\ w(c).pc \in {f[c].then, "raise"} /\ w(c).then = "none"
                     /\ w(c).pc = "raise" => failed \/ f[c].then = "raise"
                     /\ w(c).trig = f[c].trig /\ w(c).arg = f[c].arg
                     /\ w(c).new = f[c].new /\ w(c).paid = f[c].paid
  <2>1. CASE f[c].pc # "teardown"
    BY <2>1
  <2>2. CASE f[c].pc = "teardown"
    <3>1. f[c] \in CoType /\ f[c].then \in After \ {"none"}
      BY <2>2 DEF CoType
    <3>2. PICK p \in Place : /\ p = IF failed /\ f[c].then \notin {"off", "close"} THEN "raise"
                                    ELSE f[c].then
                             /\ p = "raise" => failed \/ f[c].then = "raise"
      BY <1>0, <3>1
    <3>3. w(c) = [f[c] EXCEPT !.pc = p, !.then = "none"]
      BY <2>2, <3>2
    <3>4. QED
      BY <1>0, <2>2, <3>1, <3>2, <3>3 DEF CoType
  <2>3. QED
    BY <2>1, <2>2
<1>2. co' = [c \in Coroutine |-> w(c)]
  BY DEF Woken
<1> HIDE DEF w
<1>3. \A c \in Coroutine : co'[c] = w(c)
  BY <1>2
<1>4. QED
  BY <1>1, <1>2, <1>3 DEF Keeps

\* The types hold again when the coroutines are woken and the pool adds up.
LEMMA WokenTyped ==
  ASSUME Typed, TypeOK', td' = NoTeardown \/ td' = [td EXCEPT !.phase = "reap", !.proc = mem.reg],
         cli' = cli,
         co' \in [Coroutine -> CoType],
         \A c \in Coroutine : \/ co'[c] = co[c]
                              \/ co'[c] = Resting("off")
                              \/ co'[c].then = "none" /\ co'[c].pc \in After \cup {"raise"},
         mem'.free + mem'.others + Taken' <= mem.free + mem.others + Taken
  PROVE  Typed'
<1>0. Resting("off").pc = "off" /\ Resting("off").then = "none"
  BY DEF Resting
<1>00. "slot" \notin After /\ "spawn" \notin After /\ "teardown" \notin After
  BY Names
<1>1. \A c \in Coroutine : /\ co'[c].pc = "teardown" <=> co'[c].then # "none"
                           /\ co'[c].pc \in {"slot", "spawn"} => co'[c].new # 0
                           /\ co'[c].pc = "spawn" => co[c].pc = "spawn"
  BY <1>0, <1>00 DEF Typed
<1>2. Spawners' \subseteq Spawners
  BY <1>1 DEF Spawners
<1>3. Cardinality(Spawners') <= Cardinality(Spawners) /\ Cardinality(Spawners') \in Nat
  BY <1>2, SpawnersFinite, FS_Subset, FS_CardinalityType
<1>4. mem'.free + mem'.others + Taken' + Cardinality(Spawners') <= Slots
  <2>1. mem.free \in Nat /\ mem.others \in Nat /\ Taken \in {0, 1} /\ Slots \in Nat /\ Taken' \in {0, 1}
    BY RowShapes, RuntimeAssumption DEF MemType, Taken
  <2>2. mem'.free \in Nat /\ mem'.others \in Nat
    BY RuntimeAssumption DEF TypeOK
  <2>3. mem.free + mem.others + Taken + Cardinality(Spawners) <= Slots
    BY DEF Typed
  <2>4. QED
    BY <1>3, <2>1, <2>2, <2>3, SpawnersFinite
<1>5. td' \in [phase : {"none", "start", "reap"}, expect : Attempt \cup {0},
               owner : Coroutine \cup {0}, proc : Attempt \cup {0}]
  <2>1. CASE td' = NoTeardown
    BY <2>1 DEF NoTeardown
  <2>2. CASE td' = [td EXCEPT !.phase = "reap", !.proc = mem.reg]
    BY <2>2, RowShapes DEF Typed, MemType
  <2>3. QED
    BY <2>1, <2>2
<1>6. cli' \in [answers : Nat, cancels : Nat]
  BY DEF Typed
<1>7. QED
  BY <1>1, <1>4, <1>5, <1>6 DEF Typed

LEMMA TeardownStartsStep ==
  ASSUME Typed, TeardownStarts
  PROVE  (Forgets \/ Aborts) /\ Typed'
<1>1. /\ run = "on" /\ cpu = 0 /\ td.phase = "start" /\ QueuedBehind(0)
      /\ task' = task /\ att' = att /\ lock' = lock /\ cpu' = cpu /\ infra' = infra
      /\ run' = run /\ cli' = cli
  BY DEF TeardownStarts
<1>2. late' \subseteq Coroutine \cup {0}
  <2>1. late \subseteq Coroutine \cup {0}
    BY DEF Typed, TypeOK
  <2>2. QED
    BY <1>1, <2>1 DEF QueuedBehind
<1>3. CASE td.expect # 0 /\ mem.reg # td.expect
  <2>1. td' = NoTeardown /\ co' = Woken(co, FALSE) /\ mem' = mem
    BY <1>3 DEF TeardownStarts
  <2>3. /\ co' \in [Coroutine -> CoType]
        /\ \A c \in Coroutine :
             IF co[c].pc # "teardown" THEN co'[c] = co[c]
             ELSE co'[c].pc \in {co[c].then, "raise"} /\ co'[c].then = "none"
    <3>1. co \in [Coroutine -> CoType] /\ \A c \in Coroutine : co[c].pc = "teardown" <=> co[c].then # "none"
      BY DEF Typed
    <3>2. QED
      BY <2>1, <3>1, Wakes
  <2>4. \A c \in Coroutine : \/ co'[c] = co[c]
                             \/ co'[c].then = "none" /\ co'[c].pc \in After \cup {"raise"}
    <3>1. \A c \in Coroutine : co[c].then \in After
      BY DEF Typed, CoType
    <3>2. QED
      BY <2>3, <3>1
  <2>5. TypeOK'
    BY <1>1, <1>2, <2>1 DEF Typed, TypeOK
  <2>6. mem'.free + mem'.others + Taken' <= mem.free + mem.others + Taken
    <3>1. Taken' = Taken
      BY <2>1 DEF Taken
    <3>2. mem.free \in Nat /\ mem.others \in Nat /\ Taken \in {0, 1}
      BY RowShapes, RuntimeAssumption DEF MemType, Taken
    <3>3. QED
      BY <2>1, <3>1, <3>2
  <2>2. Aborts
    BY <1>1, <1>3, <2>1, <2>3 DEF Aborts, SameRow, SameVisible, SameProcs, SameVerdicts
  <2>7. QED
    BY <1>1, <2>1, <2>2, <2>3, <2>4, <2>5, <2>6, WokenTyped
<1>4. CASE ~(td.expect # 0 /\ mem.reg # td.expect)
  <2>1. /\ mem.reg # 0
        /\ td' = [td EXCEPT !.phase = "reap", !.proc = mem.reg]
        /\ mem' = [mem EXCEPT !.reg = 0, !.seen = FALSE, !.grace = FALSE]
        /\ co' = co
    BY <1>4 DEF TeardownStarts
  <2>2. /\ mem' \in MemType /\ mem'.reg = 0 /\ mem'.held = mem.held /\ mem'.slot = mem.slot
        /\ mem'.wt = mem.wt /\ mem'.free = mem.free /\ mem'.others = mem.others
    BY <2>1, RowShapes DEF MemType
  <2>3. td'.phase = "reap" /\ td'.proc = mem.reg /\ td'.owner = td.owner
    BY <2>1 DEF Typed
  <2>4. Forgets
    BY <1>1, <1>4, <2>1, <2>2, <2>3 DEF Forgets, SameRow, SameVisible, SameProcs, SameVerdicts
  <2>5. TypeOK'
    BY <1>1, <1>2, <2>2, Types DEF Typed, TypeOK, MemType
  <2>6. mem'.free + mem'.others + Taken' <= mem.free + mem.others + Taken
    <3>1. Taken' = Taken
      BY <2>2 DEF Taken
    <3>2. mem.free \in Nat /\ mem.others \in Nat /\ Taken \in {0, 1}
      BY RowShapes, RuntimeAssumption DEF MemType, Taken
    <3>3. QED
      BY <2>2, <3>1, <3>2
  <2>7. co' \in [Coroutine -> CoType]
    BY <2>1 DEF Typed
  <2>8. QED
    BY <1>1, <2>1, <2>4, <2>5, <2>6, <2>7, WokenTyped
<1>5. QED
  BY <1>3, <1>4

LEMMA FinishesStep ==
  ASSUME Typed, TeardownEnds
  PROVE  Finishes /\ Typed'
<1>1. /\ run = "on" /\ cpu = 0 /\ 0 \notin late
      /\ td.phase = "reap" \/ (td.phase = "start" /\ td.expect = 0 /\ mem.reg = 0)
      /\ att' = RowsAfterTeardown
      /\ mem' = RegistriesAfterTeardown
      /\ infra' = (infra \/ (mem.wt = 0 /\ mem.slot # 0))
      /\ co' = Woken([c \in Coroutine |-> IF c \in Cancelled THEN Resting("off") ELSE co[c]],
                     mem.wt = 0 /\ mem.slot # 0)
      /\ lock' = (IF lock \in Cancelled THEN 0 ELSE lock)
      /\ td' = NoTeardown
      /\ late' = (IF \E d \in Coroutine \ late : Ready(d) THEN late ELSE {})
      /\ task' = task /\ cpu' = cpu /\ run' = run /\ cli' = cli
  BY DEF TeardownEnds
<1>2. Cancelled \subseteq Attempt /\ td.proc \in Attempt \cup {0}
  BY DEF Cancelled, Typed
<1>3. /\ att' \in [Attempt -> AttType] /\ SameVerdicts
      /\ td.proc # 0 => att'[td.proc].proc # "live"
      /\ \A n \in Attempt : n # td.proc => att'[n].proc = att[n].proc
  <2> DEFINE closed == IF \E w \in Cancelled : co[w].pc \in {"slot", "spawn"}
                       THEN "recovered" ELSE "released"
             row(a) == [att[a] EXCEPT !.proc = IF a = td.proc /\ @ = "live" THEN "killed" ELSE @,
                                      !.lease = IF a = mem.held /\ @ = "active" THEN closed ELSE @]
  <2>1. att' = [a \in Attempt |-> row(a)]
    BY <1>1 DEF RowsAfterTeardown
  <2>2. closed \in {"recovered", "released"}
    OBVIOUS
  <2>3. ASSUME NEW a \in Attempt
        PROVE  /\ row(a) \in AttType /\ row(a).verdict = att[a].verdict
               /\ a # td.proc => row(a).proc = att[a].proc
               /\ a = td.proc => row(a).proc # "live"
    <3> HIDE DEF closed
    <3>1. att[a] \in AttType
      BY RowShapes
    <3>2. PICK p \in {"none", "live", "exited", "crashed", "killed"} :
            p = IF a = td.proc /\ att[a].proc = "live" THEN "killed" ELSE att[a].proc
      BY <3>1 DEF AttType
    <3>3. PICK l \in {"none", "active", "expired", "released", "recovered"} :
            l = IF a = mem.held /\ att[a].lease = "active" THEN closed ELSE att[a].lease
      BY <2>2, <3>1 DEF AttType
    <3>4. row(a) = [att[a] EXCEPT !.proc = p, !.lease = l]
      BY <3>2, <3>3
    <3>5. QED
      BY <3>1, <3>2, <3>3, <3>4 DEF AttType
  <2> HIDE DEF row
  <2>4. \A a \in Attempt : att'[a] = row(a)
    BY <2>1
  <2>5. att' \in [Attempt -> AttType]
    BY <2>1, <2>3
  <2>6. QED
    BY <1>2, <2>3, <2>4, <2>5 DEF SameVerdicts
<1>4. /\ mem' \in MemType /\ mem'.reg = mem.reg /\ mem'.held = 0 /\ mem'.slot = 0 /\ mem'.wt = 0
      /\ mem'.free = mem.free + Taken /\ mem'.others = mem.others
  <2>0. mem \in MemType /\ Slots \in Nat /\ Taken \in {0, 1} /\ mem.free \in Nat /\ mem.others \in Nat
    BY RowShapes, RuntimeAssumption DEF MemType, Taken
  <2>1. mem.free + mem.others + Taken + Cardinality(Spawners) <= Slots
    BY DEF Typed
  <2>2. mem.free + Taken \in 0..Slots
    BY <2>0, <2>1, SpawnersFinite
  <2>3. PICK free \in 0..Slots : free = mem.free + Taken
    BY <2>2
  <2>4. free = IF mem.wt # 0 THEN mem.free + 1 ELSE mem.free
    BY <2>0, <2>3 DEF Taken
  <2>5. \E s \in BOOLEAN, g \in BOOLEAN :
          mem' = [mem EXCEPT !.held = 0, !.slot = 0, !.wt = 0, !.seen = s, !.grace = g, !.free = free]
    BY <1>1, <2>0, <2>4 DEF RegistriesAfterTeardown, MemType
  <2>6. QED
    BY <2>0, <2>3, <2>5 DEF MemType
<1>5. /\ co' \in [Coroutine -> CoType]
      /\ \A c \in Cancelled : co'[c] = Resting("off")
      /\ \A c \in Coroutine \ Cancelled :
           IF co[c].pc # "teardown" THEN co'[c] = co[c]
           ELSE /\ co'[c].pc \in {co[c].then, "raise"} /\ co'[c].then = "none"
                /\ co'[c].pc = "raise" => co[c].then = "raise" \/ (mem.wt = 0 /\ mem.slot # 0)
                /\ Keeps(c, co[c])
  <2> DEFINE r == Resting("off")
             f == [c \in Coroutine |-> IF c \in Cancelled THEN r ELSE co[c]]
             failed == mem.wt = 0 /\ mem.slot # 0
  <2>1. r \in CoType /\ r.pc = "off" /\ r.then = "none"
    BY Names DEF Resting, CoType
  <2>2. Cancelled \subseteq Coroutine /\ co \in [Coroutine -> CoType]
    BY <1>2, Numbers DEF Typed
  <2> HIDE DEF r
  <2>3. /\ f \in [Coroutine -> CoType]
        /\ \A c \in Cancelled : f[c] = r
        /\ \A c \in Coroutine \ Cancelled : f[c] = co[c]
    BY <2>1, <2>2
  <2>4. co' = Woken(f, failed)
    BY <1>1 DEF r
  <2> HIDE DEF f
  <2>5. \A c \in Coroutine : f[c].pc = "teardown" <=> f[c].then # "none"
    BY <2>1, <2>2, <2>3 DEF Typed
  <2>6. failed \in BOOLEAN
    OBVIOUS
  <2> HIDE DEF failed
  <2>7. /\ co' \in [Coroutine -> CoType]
        /\ \A c \in Coroutine :
             IF f[c].pc # "teardown" THEN co'[c] = f[c]
             ELSE /\ co'[c].pc \in {f[c].then, "raise"} /\ co'[c].then = "none"
                  /\ co'[c].pc = "raise" => failed \/ f[c].then = "raise"
                  /\ Keeps(c, f[c])
    BY <2>3, <2>4, <2>5, <2>6, Wakes
  <2>8. \A c \in Cancelled : co'[c] = r
    BY <2>1, <2>2, <2>3, <2>7
  <2>9. QED
    BY <2>2, <2>3, <2>7, <2>8 DEF r, failed
<1>6. SameRow
  BY <1>1 DEF SameRow
<1>7. Finishes
  BY <1>1, <1>3, <1>4, <1>5, <1>6 DEF Finishes
<1>8. Typed'
  <2>1. TypeOK'
    <3>1. lock' \in Coroutine \cup {0} /\ infra' \in BOOLEAN
      BY <1>1, RowShapes
    <3>2. late' \subseteq Coroutine \cup {0}
      BY <1>1 DEF Typed, TypeOK
    <3>3. task' \in TaskType
      BY <1>1, RowShapes
    <3>4. cpu' \in Coroutine \cup {0} /\ run' \in {"on", "failed"}
      BY <1>1 DEF Typed, TypeOK
    <3>5. QED
      BY <1>3, <1>4, <3>1, <3>2, <3>3, <3>4 DEF TypeOK, TaskType, AttType, MemType
  <2>2. \A c \in Coroutine : \/ co'[c] = co[c]
                             \/ co'[c] = Resting("off")
                             \/ co'[c].then = "none" /\ co'[c].pc \in After \cup {"raise"}
    <3>1. \A c \in Coroutine : co[c].then \in After
      BY DEF Typed, CoType
    <3>2. QED
      BY <1>5, <3>1
  <2>3. mem'.free + mem'.others + Taken' <= mem.free + mem.others + Taken
    <3>1. Taken' = 0
      BY <1>4 DEF Taken
    <3>2. mem.free \in Nat /\ mem.others \in Nat /\ Taken \in {0, 1}
      BY RowShapes, RuntimeAssumption DEF MemType, Taken
    <3>3. QED
      BY <1>4, <3>1, <3>2
  <2>4. QED
    BY <1>1, <1>5, <2>1, <2>2, <2>3, WokenTyped
<1>9. QED
  BY <1>7, <1>8

\* Nothing but the rows, the pool and the commands changes.
LEMMA OutsideTyped ==
  ASSUME Typed, Rows, co' = co, td' = td, lock' = lock, cpu' = cpu, late' = late,
         infra' = infra, run' \in {"on", "failed"}, cli' \in [answers : Nat, cancels : Nat],
         mem'.wt = mem.wt, mem'.free + mem'.others = mem.free + mem.others
  PROVE  Typed'
<1>1. TypeOK'
  BY DEF Typed, TypeOK, Rows, TaskType, AttType, MemType
<1>2. Spawners' = Spawners /\ Taken' = Taken
  BY DEF Spawners, Taken
<1>3. mem'.free + mem'.others + Taken' + Cardinality(Spawners') <= Slots
  <2>1. mem.free \in Nat /\ mem.others \in Nat /\ Taken \in {0, 1} /\ Slots \in Nat
    BY RowShapes, RuntimeAssumption DEF MemType, Taken
  <2>2. mem'.free \in Nat /\ mem'.others \in Nat
    BY RuntimeAssumption DEF Rows, MemType
  <2>3. QED
    BY <1>2, <2>1, <2>2, SpawnersFinite DEF Typed
<1>4. QED
  BY <1>1, <1>3 DEF Typed

LEMMA OutsideStep ==
  ASSUME Typed,
         \/ RunFails \/ OthersUseSlots \/ Answer \/ Cancel
         \/ \E n \in Attempt, kind \in Lines : WorkerWrites(n, kind)
         \/ \E n \in Attempt, how \in Exits : WorkerExits(n, how)
         \/ \E n \in Attempt : LeaseLapses(n)
  PROVE  Outside /\ Typed'
<1>1. /\ run = "on" /\ co' = co /\ td' = td /\ lock' = lock /\ cpu' = cpu /\ late' = late
      /\ infra' = infra
  BY DEF RunFails, OthersUseSlots, Answer, Cancel, WorkerWrites, WorkerExits, LeaseLapses, At
<1>2. CASE RunFails
  <2>1. task' = task /\ att' = att /\ mem' = mem /\ run' = "failed" /\ cli' = cli
    BY <1>2 DEF RunFails
  <2>2. Rows /\ cli \in [answers : Nat, cancels : Nat]
    BY <2>1, RowShapes DEF Rows, Typed
  <2>3. Typed'
    BY <1>1, <2>1, <2>2, OutsideTyped
  <2>4. QED
    BY <1>1, <2>1, <2>3 DEF Outside, SameAttempt, SameVerdicts
<1>3. CASE OthersUseSlots
  <2>1. task' = task /\ att' = att /\ run' = run /\ cli' = cli
        /\ (\/ /\ mem.others < OtherTasks /\ mem.free > 0
               /\ mem' = [mem EXCEPT !.others = @ + 1, !.free = @ - 1]
            \/ /\ mem.others > 0
               /\ mem' = [mem EXCEPT !.others = @ - 1, !.free = @ + 1])
    BY <1>3 DEF OthersUseSlots
  <2>2. mem \in MemType /\ Slots \in Nat /\ OtherTasks \in Nat /\ mem.free \in 0..Slots
        /\ mem.others \in 0..OtherTasks
    BY RowShapes, RuntimeAssumption DEF MemType
  <2>3. mem.free + mem.others <= Slots
    BY <2>2, SpawnersFinite DEF Typed, Taken
  <2>4. \E free \in 0..Slots, others \in 0..OtherTasks :
          /\ free + others = mem.free + mem.others
          /\ mem' = [mem EXCEPT !.others = others, !.free = free]
    <3>1. CASE mem.others < OtherTasks /\ mem.free > 0
               /\ mem' = [mem EXCEPT !.others = @ + 1, !.free = @ - 1]
      <4>1. mem.free - 1 \in 0..Slots /\ mem.others + 1 \in 0..OtherTasks
            /\ (mem.free - 1) + (mem.others + 1) = mem.free + mem.others
        BY <2>2, <3>1
      <4>2. QED
        BY <3>1, <4>1
    <3>2. CASE mem.others > 0 /\ mem' = [mem EXCEPT !.others = @ - 1, !.free = @ + 1]
      <4>1. mem.free + 1 \in 0..Slots /\ mem.others - 1 \in 0..OtherTasks
            /\ (mem.free + 1) + (mem.others - 1) = mem.free + mem.others
        BY <2>2, <2>3, <3>2
      <4>2. QED
        BY <3>2, <4>1
    <3>3. QED
      BY <2>1, <3>1, <3>2
  <2>5. /\ mem' \in MemType /\ mem'.reg = mem.reg /\ mem'.held = mem.held
        /\ mem'.slot = mem.slot /\ mem'.wt = mem.wt /\ mem'.seen = mem.seen
        /\ mem'.free + mem'.others = mem.free + mem.others
    BY <2>2, <2>4 DEF MemType
  <2>6. Rows /\ cli \in [answers : Nat, cancels : Nat] /\ run \in {"on", "failed"}
    BY <2>1, <2>5, RowShapes DEF Rows, Typed, TypeOK
  <2>7. Typed'
    BY <1>1, <2>1, <2>5, <2>6, OutsideTyped
  <2>8. QED
    BY <1>1, <2>1, <2>5, <2>7 DEF Outside, SameAttempt, SameVerdicts
<1>4. CASE Answer \/ Cancel
  <2>1. PICK to \in {"queued", "cancelled"} :
          /\ task' = [task EXCEPT !.state = to]
          /\ \/ to = "queued" /\ task.state = "needs_human" /\ cli'.answers # 0
             \/ to = "cancelled" /\ task.state \notin TERMINAL /\ cli'.cancels # 0
    <3>1. cli \in [answers : Nat, cancels : Nat]
      BY DEF Typed
    <3>2. /\ Answer => cli'.answers = cli.answers + 1
          /\ Cancel => cli'.cancels = cli.cancels + 1
      BY <3>1 DEF Answer, Cancel
    <3>3. QED
      BY <1>4, <3>1, <3>2 DEF Answer, Cancel
  <2>2. to \in STATES
    BY States
  <2>3. task' \in TaskType /\ task'.state = to /\ SameAttempt
    BY <2>1, <2>2, RowMoves DEF SameAttempt
  <2>4. att' = att /\ mem' = mem /\ run' = run
    BY <1>4 DEF Answer, Cancel
  <2>5. cli' \in [answers : Nat, cancels : Nat]
    BY <1>4 DEF Answer, Cancel, Typed
  <2>6. Rows /\ run \in {"on", "failed"}
    BY <2>3, <2>4, RowShapes DEF Rows, Typed, TypeOK
  <2>7. Typed'
    BY <1>1, <2>4, <2>5, <2>6, OutsideTyped
  <2>8. QED
    BY <1>1, <2>1, <2>3, <2>4, <2>7 DEF Outside, SameVerdicts
<1>5. CASE \/ \E n \in Attempt, kind \in Lines : WorkerWrites(n, kind)
           \/ \E n \in Attempt, how \in Exits : WorkerExits(n, how)
           \/ \E n \in Attempt : LeaseLapses(n)
  <2>1. task' = task /\ mem' = mem /\ run' = run /\ cli' = cli
    BY <1>5 DEF WorkerWrites, WorkerExits, LeaseLapses
  <2>2. /\ att' \in [Attempt -> AttType] /\ SameVerdicts
        /\ \A n \in Attempt : att'[n].proc = "live" => att[n].proc = "live"
    <3>1. CASE \E n \in Attempt, kind \in Lines : WorkerWrites(n, kind)
      <4>1. PICK n \in Attempt, kind \in Lines : att' = [att EXCEPT ![n].out = kind]
        BY <3>1 DEF WorkerWrites
      <4>2. QED
        BY <4>1, RowShapes DEF AttType, SameVerdicts
    <3>2. CASE \E n \in Attempt, how \in Exits : WorkerExits(n, how)
      <4>1. PICK n \in Attempt, how \in {"exited", "crashed"} : att' = [att EXCEPT ![n].proc = how]
        BY <3>2, RuntimeAssumption DEF WorkerExits
      <4>2. QED
        BY <4>1, RowShapes DEF AttType, SameVerdicts
    <3>3. CASE \E n \in Attempt : LeaseLapses(n)
      <4>1. PICK n \in Attempt : att' = [att EXCEPT ![n].lease = "expired"]
        BY <3>3 DEF LeaseLapses
      <4>2. QED
        BY <4>1, RowShapes DEF AttType, SameVerdicts
    <3>4. QED
      BY <1>5, <3>1, <3>2, <3>3
  <2>3. Rows /\ cli \in [answers : Nat, cancels : Nat] /\ run \in {"on", "failed"}
    BY <2>1, <2>2, RowShapes DEF Rows, Typed, TypeOK
  <2>4. Typed'
    BY <1>1, <2>1, <2>3, OutsideTyped
  <2>5. QED
    BY <1>1, <2>1, <2>2, <2>4 DEF Outside, SameAttempt
<1>6. QED
  BY <1>2, <1>3, <1>4, <1>5

-----------------------------------------------------------------------------
(* Every step is one of the kinds. *)

Kinds ==
  \/ \E c \in Coroutine : \/ Begins(c) \/ GetsSlot(c) \/ Registers(c) \/ Orphans(c) \/ Misfires(c)
                          \/ Enters(c) \/ Decides(c) \/ Leaves(c)
  \/ \E n \in Attempt : ReadsLine(n) \/ Reaps(n) \/ Ends(n) \/ Opens(n)
                        \/ Verifies(n) \/ HandsOver(n)
  \/ Sweeps \/ Forgets \/ Aborts \/ Finishes \/ Outside

LEMMA Classified ==
  ASSUME Typed, Next
  PROVE  Kinds /\ Typed'
<1>1. CASE MainLaunch
  BY <1>1, BeginsStep, Numbers DEF Kinds
<1>2. ASSUME NEW c \in Coroutine, Launching(c) PROVE Kinds /\ Typed'
  BY <1>2, BeginsStep, GetsSlotStep, SpawnedStep, MisfiresStep DEF Launching, Kinds
<1>3. ASSUME NEW c \in Coroutine, Triaging(c) PROVE Kinds /\ Typed'
  BY <1>3, EntersStep, PolicyStep, SupervisorStep, LeavesStep DEF Triaging, Kinds
<1>4. ASSUME NEW n \in Attempt, Watching(n) PROVE Kinds /\ Typed'
  BY <1>4, ReadsStep, ReadInfraStep, ReapsStep, EndsStep, OpensStep, VerifiesStep,
     HandsOverStep
     DEF Watching, Kinds
<1>5. CASE DogTimeout \/ DogStall
  BY <1>5, SweepsStep DEF Kinds
<1>6. CASE TeardownStarts
  BY <1>6, TeardownStartsStep DEF Kinds
<1>7. CASE TeardownEnds
  BY <1>7, FinishesStep DEF Kinds
<1>8. CASE \/ RunFails \/ OthersUseSlots \/ Answer \/ Cancel
           \/ \E n \in Attempt, kind \in Lines : WorkerWrites(n, kind)
           \/ \E n \in Attempt, how \in Exits : WorkerExits(n, how)
           \/ \E n \in Attempt : LeaseLapses(n)
  BY <1>8, OutsideStep DEF Kinds
<1>9. QED
  BY <1>1, <1>2, <1>3, <1>4, <1>5, <1>6, <1>7, <1>8 DEF Next, Step

LEMMA StutterTyped ==
  ASSUME Typed, UNCHANGED vars
  PROVE  Typed'
BY DEF vars, Typed, TypeOK, Spawners, Taken

LEMMA InitTyped ==
  ASSUME Init
  PROVE  Typed
<1>1. 0 \in Nat /\ Slots \in Nat /\ MaxNudges \in Nat /\ OtherTasks \in Nat
  BY RuntimeAssumption
<1>2. TypeOK
  <2>1. task \in TaskType
    BY <1>1, States DEF Init, TaskType
  <2>2. att \in [Attempt -> AttType]
    BY DEF Init, AttType
  <2>3. mem \in MemType
    BY <1>1 DEF Init, MemType
  <2>4. QED
    BY <2>1, <2>2, <2>3, Types DEF Init
<1>3. /\ co \in [Coroutine -> CoType]
      /\ \A c \in Coroutine : co[c].pc \in {"off", "idle"} /\ co[c].then = "none"
  <2>1. Resting("off") \in CoType /\ Resting("off").pc = "off" /\ Resting("off").then = "none"
        /\ Resting("idle") \in CoType /\ Resting("idle").pc = "idle" /\ Resting("idle").then = "none"
    BY Names DEF Resting, CoType
  <2>2. \A c \in Coroutine : co[c] = Resting("off") \/ co[c] = Resting("idle")
    BY DEF Init
  <2>3. co = [c \in Coroutine |-> Resting(IF c \in Attempt THEN "off" ELSE "idle")]
    BY DEF Init
  <2>4. QED
    BY <2>1, <2>2, <2>3
<1>4. Spawners = {}
  BY <1>3 DEF Spawners
<1>5. mem.free + mem.others + Taken + Cardinality(Spawners) <= Slots
  BY <1>1, <1>4, FS_EmptySet DEF Init, Taken
<1>6. /\ td \in [phase : {"none", "start", "reap"}, expect : Attempt \cup {0},
                 owner : Coroutine \cup {0}, proc : Attempt \cup {0}]
      /\ cli \in [answers : Nat, cancels : Nat]
  BY DEF Init, NoTeardown
<1>7. QED
  BY <1>2, <1>3, <1>5, <1>6 DEF Typed

\* Every variable of the runtime keeps its type; the attempts are never more than
\* were counted and the pool is never overdrawn (Scheduler.__init__, _launch).
THEOREM TypesHold == Spec => []TypeOK
<1>1. Init => Typed
  BY InitTyped
<1>2. Typed /\ [Next]_vars => Typed'
  BY Classified, StutterTyped
<1>3. Typed => TypeOK
  BY DEF Typed
<1>4. QED
  BY <1>1, <1>2, <1>3, PTL DEF Spec

-----------------------------------------------------------------------------
(* What holds until somebody answers the task. *)

InTriage == {"policy", "supervise", "launch", "slot", "spawn"}

Starting == {"launch", "slot", "spawn"}

Reaping == td.phase = "reap"

Dead(n) == att[n].proc # "live"

NoTriage == \A c \in Coroutine : Dest(c) \notin InTriage

\* The main loop only launches, sleeps and stops.
Apart == co[Main].pc \in {"idle", "slot", "spawn", "raise", "stop", "aborted", "join"}

\* The states a scheduler gives a task, and the numbers of its attempts.
Counted ==
  /\ task.state \notin {"blocked", "dependency_blocked"}
  /\ task.cur <= task.made

\* Before its first worker is there, nothing else moves for a task.
Fresh ==
  (task.state = "queued" /\ co[Main].pc # "join") \/ co[Main].pc \in {"slot", "spawn"} =>
    /\ \A n \in Attempt : co[n].pc = "off" /\ Dead(n) /\ att[n].verdict = "none"
    /\ co[Dog].pc = "idle" /\ ~mem.seen
    /\ td.phase = "none" /\ lock = 0
    /\ mem.reg = 0 /\ mem.wt = 0 /\ task.cur = 0 /\ task.retries = 0
    /\ co[Main].pc = "idle" => mem.held = 0 /\ mem.slot = 0 /\ task.made = 0
    /\ co[Main].pc \in {"slot", "spawn"} => task.made = 1
    /\ task.state \in {"queued", "cancelled"}

\* Triage is under the lock, and only a cancel moves the task meanwhile.
TriageLocked ==
  \A c \in Coroutine \ {Main} :
    Dest(c) \in InTriage => lock = c /\ task.state \in {"triage", "cancelled"}

\* A launch begins when everything of the previous attempt is gone.
StartsClean ==
  \A c \in Coroutine : co[c].pc \in Starting =>
    /\ \A n \in Attempt : Dead(n)
    /\ mem.reg = 0 /\ mem.wt = 0 /\ td.phase = "none"
    /\ co[c].pc = "launch" => mem.slot = 0 /\ mem.held = 0
    /\ co[c].pc = "slot" => mem.slot = 0
    /\ co[c].pc = "spawn" => mem.slot = co[c].new
    /\ co[c].pc \in {"slot", "spawn"} => co[c].new = task.made /\ task.cur < task.made

\* The cleanup in flight has an owner that waits for it, and what it is to
\* kill is what was registered.
CleanupKnown ==
  /\ td.phase = "start" => td.proc = 0 /\ (td.expect # 0 => mem.reg = td.expect)
  /\ td.phase = "reap" => mem.reg = 0 /\ td.proc # 0
  /\ td.phase # "none" => td.owner \in Coroutine /\ co[td.owner].pc = "teardown"
  /\ td.phase = "none" => \A c \in Coroutine : co[c].pc # "teardown"

\* The watchdog leaves triage with the lock, or at once.
DogLeaves ==
  Dest(Dog) = "return" => lock = Dog \/ (cpu = Dog /\ NoTriage)

\* A live worker is registered, or being killed, or was born to a cancelled task.
LiveKnown ==
  \A n \in Attempt : ~Dead(n) =>
    \/ mem.reg = n
    \/ Reaping /\ td.proc = n
    \/ task.state = "cancelled" /\ NoTriage

OneLive == \A m, n \in Attempt : ~Dead(m) /\ ~Dead(n) => m = n

CurrentKnown ==
  /\ mem.reg # 0 => task.cur = mem.reg
  /\ Reaping => task.cur = td.proc

\* The cleanup will cancel the watcher of n, or n is still registered.
Registered(n) == mem.reg = n \/ (Reaping /\ td.proc = n /\ td.owner # n)

\* The watcher of n still follows its stream.
Follows(n) ==
  \/ co[n].pc \in {"read", "reap"}
  \/ co[n].pc = "eof" /\ "sdk_timeout" \notin Lines
  \/ co[n].pc \in {"lock", "policy", "supervise"} /\ co[n].trig = "asked"

ReadersRegistered ==
  \A n \in Attempt :
    /\ Follows(n) => Registered(n)
    /\ co[n].trig # "stalled"
    /\ co[n].pc = "teardown" /\ co[n].then = "lock" => co[n].trig # "asked"
    /\ co[n].pc = "teardown" /\ co[n].then = "eof" => "sdk_timeout" \in Lines

SlotKept == (mem.reg # 0 => mem.wt # 0) /\ (mem.wt # 0 => mem.slot # 0)

Occupied == IF mem.slot # 0 THEN 1 ELSE 0

PoolAdds == ~infra => mem.free + mem.others + Occupied = Slots

Emptied == mem.reg = 0 /\ mem.held = 0 /\ mem.slot = 0 /\ \A n \in Attempt : Dead(n)

\* Once its worker is done with, a task's registries are clean or being cleaned.
SettledClean ==
  task.state \in {"verifying", "delivering", "delivered", "needs_human", "failed"} =>
    td.phase # "none" \/ Emptied

Safe ==
  /\ Typed /\ Apart /\ Counted /\ Fresh /\ TriageLocked /\ StartsClean /\ CleanupKnown
  /\ DogLeaves /\ LiveKnown /\ OneLive /\ CurrentKnown /\ ReadersRegistered
  /\ SlotKept /\ PoolAdds /\ SettledClean

\* Nobody has answered the task yet.
Unanswered == cli.answers = 0

-----------------------------------------------------------------------------

LEMMA OneTriager ==
  ASSUME Safe, NEW c \in Coroutine, NEW d \in Coroutine,
         Dest(c) \in InTriage, Dest(d) \in InTriage
  PROVE  c = d
<1>1. CASE c # Main /\ d # Main
  BY <1>1, Numbers DEF Safe, TriageLocked
<1>2. ASSUME NEW e \in Coroutine, e # Main, Dest(Main) \in InTriage
      PROVE  Dest(e) \notin InTriage
  <2>1. co[Main].pc \in {"slot", "spawn"}
    BY <1>2 DEF Safe, Apart, Dest, InTriage
  <2>2. co[e].pc \in {"off", "idle"}
    BY <1>2, <2>1, Numbers DEF Safe, Fresh, Coroutine
  <2>3. QED
    BY <2>2 DEF Dest, InTriage
<1>3. QED
  BY <1>1, <1>2

LEMMA NeverAborts ==
  ASSUME Safe, Aborts
  PROVE  FALSE
BY DEF Safe, CleanupKnown, Aborts

\* Nothing of a task that has not had a worker yet moves, but the main loop.
LEMMA FreshIsStill ==
  ASSUME Safe, (task.state = "queued" /\ co[Main].pc # "join") \/ co[Main].pc \in {"slot", "spawn"},
         NEW c \in Coroutine \ {Main}, NEW p, NEW q, Turn(c, p, q)
  PROVE  (c = Dog /\ p = "idle") \/ p = "off"
BY Numbers DEF Safe, Fresh, Turn, Coroutine

LEMMA ApartStep ==
  ASSUME Safe, Kinds
  PROVE  Apart'
<1>1. ASSUME NEW c \in Coroutine, Begins(c) \/ GetsSlot(c) \/ Orphans(c) \/ Misfires(c)
      PROVE  Apart'
  <2>1. PICK q \in {"slot", "spawn", "raise"}, p \in {"idle", "launch", "slot", "spawn"} :
          Turn(c, p, q)
    BY <1>1 DEF Begins, GetsSlot, Orphans, Misfires
  <2>2. NoCall(c)
    BY <1>1 DEF Begins, GetsSlot, Orphans, Misfires
  <2>3. QED
    BY <2>1, <2>2, Numbers DEF Safe, Apart, Turn, NoCall
<1>2. ASSUME NEW c \in Coroutine, Registers(c) PROVE Apart'
  <2>1. Main # co[c].new
    BY <1>2, Numbers DEF Registers
  <2>2. QED
    BY <1>2, <2>1, Numbers DEF Safe, Apart, Registers
<1>3. ASSUME NEW c \in Coroutine, Enters(c) \/ Decides(c) PROVE Apart'
  BY <1>3, Numbers DEF Safe, Apart, Enters, Decides, Decision, Turn
<1>4. ASSUME NEW c \in Coroutine, Leaves(c) PROVE Apart'
  BY <1>4, Numbers DEF Safe, Apart, Leaves, Turn, NoCall
<1>5. ASSUME NEW n \in Attempt,
             ReadsLine(n) \/ Reaps(n) \/ Ends(n) \/ Opens(n) \/ Verifies(n) \/ HandsOver(n)
      PROVE  Apart'
  BY <1>5, Numbers DEF Safe, Apart, ReadsLine, Reaps, Ends, Opens, Verifies, HandsOver, Turn
<1>6. CASE Sweeps
  BY <1>6, Numbers DEF Safe, Apart, Sweeps, Turn
<1>7. CASE Forgets \/ Outside
  BY <1>7 DEF Safe, Apart, Forgets, Outside
<1>8. CASE Finishes
  BY <1>8, Numbers DEF Safe, Apart, Finishes, Cancelled, Typed
<1>9. QED
  BY <1>1, <1>2, <1>3, <1>4, <1>5, <1>6, <1>7, <1>8, NeverAborts DEF Kinds

LEMMA CountedStep ==
  ASSUME Safe, Kinds, Unanswered'
  PROVE  Counted'
<1>0. /\ task.cur \in Nat /\ task.made \in Nat
      /\ cli'.answers = 0
  BY Row, Numbers DEF Safe, Unanswered
<1>1. ASSUME NEW c \in Coroutine, Begins(c) PROVE Counted'
  BY <1>0, <1>1 DEF Safe, Counted, Begins
<1>2. ASSUME NEW c \in Coroutine, GetsSlot(c) \/ Orphans(c) \/ Misfires(c) PROVE Counted'
  BY <1>0, <1>2 DEF Safe, Counted, GetsSlot, Orphans, Misfires, SameRow
<1>3. ASSUME NEW c \in Coroutine, Registers(c) PROVE Counted'
  <2>1. co[c].new = task.made
    BY <1>3 DEF Safe, StartsClean, Registers, Starting
  <2>2. QED
    BY <1>0, <1>3, <2>1 DEF Counted, Registers
<1>4. ASSUME NEW c \in Coroutine, Enters(c) PROVE Counted'
  BY <1>0, <1>4 DEF Safe, Counted, Enters, SameAttempt
<1>5. ASSUME NEW c \in Coroutine, Decides(c) PROVE Counted'
  BY <1>0, <1>5 DEF Safe, Counted, Decides, Decision, SameAttempt
<1>6. ASSUME NEW c \in Coroutine, Leaves(c) PROVE Counted'
  BY <1>0, <1>6 DEF Safe, Counted, Leaves, SameRow
<1>7. ASSUME NEW n \in Attempt, ReadsLine(n) \/ Ends(n) \/ Opens(n) PROVE Counted'
  BY <1>0, <1>7 DEF Safe, Counted, ReadsLine, Ends, Opens, SameRow
<1>8. ASSUME NEW n \in Attempt, Reaps(n) \/ Verifies(n) \/ HandsOver(n) PROVE Counted'
  BY <1>0, <1>8 DEF Safe, Counted, Reaps, Verifies, HandsOver, SameAttempt
<1>9. CASE Sweeps \/ Forgets \/ Finishes
  BY <1>0, <1>9 DEF Safe, Counted, Sweeps, Forgets, Finishes, SameRow
<1>10. CASE Outside
  BY <1>0, <1>10 DEF Safe, Counted, Outside, SameAttempt
<1>11. QED
  BY <1>1, <1>2, <1>3, <1>4, <1>5, <1>6, <1>7, <1>8, <1>9, <1>10, NeverAborts DEF Kinds

Unborn == (task.state = "queued" /\ co[Main].pc # "join") \/ co[Main].pc \in {"slot", "spawn"}

\* A task without a worker that has had none before has had none at all.
LEMMA UnbornBefore ==
  ASSUME Safe, Kinds, Unanswered', Unborn'
  PROVE  Unborn
<1>0. cli'.answers = 0
  BY DEF Unanswered
<1>0a. ASSUME NEW c \in Coroutine, NEW p, NEW q, Turn(c, p, q), q \notin {"slot", "spawn"},
              p # "join",
              Unborn', task'.state = "queued" => task.state = "queued"
       PROVE  Unborn
  BY <1>0a, Numbers DEF Unborn, Turn
<1>1. ASSUME NEW c \in Coroutine, Begins(c) PROVE Unborn
  BY <1>1, Numbers DEF Unborn, Begins, Turn
<1>2. ASSUME NEW c \in Coroutine, GetsSlot(c) \/ Orphans(c) \/ Misfires(c) PROVE Unborn
  BY <1>2, Numbers DEF Unborn, GetsSlot, Orphans, Misfires, SameRow, Turn
<1>3. ASSUME NEW c \in Coroutine, Registers(c) PROVE Unborn
  <2>1. co[c].new # Main
    BY <1>3, Numbers DEF Registers
  <2>2. QED
    BY <1>3, <2>1, Numbers DEF Unborn, Registers
<1>4. ASSUME NEW c \in Coroutine, Enters(c) \/ Decides(c) \/ Leaves(c) PROVE Unborn
  <2>1. task'.state = "queued" => task.state = "queued"
    BY <1>4 DEF Enters, Decides, Decision, Leaves, SameRow
  <2>2. \E p \in {"lock", "policy", "supervise", "return", "raise"} :
          \E q \in {"return", "policy", "raise", "launch", "supervise", "idle", "read",
                   "off", "dead", "stop"} : Turn(c, p, q)
    <3>1. CASE Enters(c)
      BY <3>1 DEF Enters
    <3>2. CASE Decides(c)
      BY <3>2 DEF Decides, Decision
    <3>3. CASE Leaves(c)
      BY <3>3 DEF Leaves
    <3>4. QED
      BY <1>4, <3>1, <3>2, <3>3
  <2>3. QED
    BY <1>0a, <2>1, <2>2
<1>6. ASSUME NEW n \in Attempt,
             ReadsLine(n) \/ Ends(n) \/ Reaps(n) \/ Opens(n) \/ Verifies(n) \/ HandsOver(n)
      PROVE  Unborn
  BY <1>6, Numbers DEF Unborn, ReadsLine, Ends, Reaps, Opens, Verifies, HandsOver, SameRow, Turn
<1>7. CASE Sweeps
  BY <1>7, Numbers DEF Unborn, Sweeps, SameRow, Turn
<1>8. CASE Finishes
  <2>1. co'[Main] = co[Main]
    BY <1>8, Numbers DEF Safe, Apart, Finishes, Cancelled, Typed
  <2>2. QED
    BY <1>8, <2>1 DEF Unborn, Finishes, SameRow
<1>9. CASE Forgets \/ Outside
  BY <1>0, <1>9 DEF Unborn, Forgets, Outside, SameRow
<1>10. QED
  BY <1>1, <1>2, <1>3, <1>4, <1>6, <1>7, <1>8, <1>9, NeverAborts DEF Kinds

LEMMA FreshStep ==
  ASSUME Safe, Kinds, Unanswered'
  PROVE  Fresh'
<1> SUFFICES ASSUME Unborn' PROVE Fresh'
  BY DEF Fresh, Unborn
<1>1. Unborn
  BY UnbornBefore
<1>2. /\ \A n \in Attempt : co[n].pc = "off" /\ Dead(n) /\ att[n].verdict = "none"
      /\ co[Dog].pc = "idle" /\ ~mem.seen
      /\ td.phase = "none" /\ lock = 0
      /\ mem.reg = 0 /\ mem.wt = 0 /\ task.cur = 0 /\ task.retries = 0
      /\ co[Main].pc = "idle" => mem.held = 0 /\ mem.slot = 0 /\ task.made = 0
      /\ co[Main].pc \in {"slot", "spawn"} => task.made = 1
      /\ task.state \in {"queued", "cancelled"}
  BY <1>1 DEF Safe, Fresh, Unborn
<1>3. ASSUME NEW c \in Coroutine, c # Main, NEW p, NEW q, Turn(c, p, q)
      PROVE  (c = Dog /\ p = "idle") \/ p = "off"
  BY <1>1, <1>3, FreshIsStill DEF Unborn
<1>4. ASSUME NEW c \in Coroutine, NEW p, NEW q, Turn(c, p, q), c = Main
      PROVE  /\ \A n \in Attempt : co'[n] = co[n]
             /\ co'[Dog] = co[Dog]
  BY <1>4, Numbers DEF Turn
<1>4a. ASSUME \A n \in Attempt : co'[n] = co[n], co'[Dog] = co[Dog], SameVisible,
              td' = td, lock' = 0, mem'.reg = 0, mem'.wt = 0, task'.cur = 0,
              task'.retries = 0, mem'.seen = mem.seen, task'.state \in {"queued", "cancelled"},
              co'[Main].pc = "idle" => mem'.held = 0 /\ mem'.slot = 0 /\ task'.made = 0,
              co'[Main].pc \in {"slot", "spawn"} => task'.made = 1
       PROVE  Fresh'
  <2>1. \A n \in Attempt : co'[n].pc = "off" /\ Dead(n)' /\ att'[n].verdict = "none"
    BY <1>2, <1>4a DEF SameVisible, SameProcs, SameVerdicts, Dead
  <2>2. QED
    BY <1>2, <1>4a, <2>1 DEF Fresh
<1>5. ASSUME NEW c \in Coroutine, Begins(c) PROVE Fresh'
  <2>1. c = Main
    BY <1>3, <1>5 DEF Begins
  <2>2. co[Main].pc = "idle"
    BY <1>5, <2>1 DEF Begins, Turn
  <2>3. co'[Main].pc # "idle" /\ (co'[Main].pc \in {"slot", "spawn"} => task'.made = 1)
    BY <1>2, <1>5, <2>1, <2>2 DEF Begins
  <2>4. (\A n \in Attempt : co'[n] = co[n]) /\ co'[Dog] = co[Dog]
    BY <1>4, <1>5, <2>1 DEF Begins
  <2>5. QED
    BY <1>2, <1>4a, <1>5, <2>2, <2>3, <2>4 DEF Begins, NoCall
<1>6. ASSUME NEW c \in Coroutine, GetsSlot(c) PROVE Fresh'
  <2>1. c = Main
    BY <1>3, <1>6 DEF GetsSlot
  <2>2. co'[Main].pc = "spawn" /\ co[Main].pc = "slot"
    BY <1>6, <2>1 DEF GetsSlot, Turn, NoCall
  <2>3. (\A n \in Attempt : co'[n] = co[n]) /\ co'[Dog] = co[Dog]
    BY <1>4, <1>6, <2>1 DEF GetsSlot
  <2>4. QED
    BY <1>2, <1>4a, <1>6, <2>2, <2>3 DEF GetsSlot, NoCall, SameRow
<1>7. ASSUME NEW c \in Coroutine, Registers(c) PROVE Fresh'
  <2>1. c = Main
    <3>1. co[c].pc = "spawn"
      BY <1>7 DEF Registers
    <3>2. QED
      BY <1>2, <3>1, Numbers DEF Coroutine
  <2>2. co[c].new # Main
    BY <1>7, Numbers DEF Registers
  <2>3. task'.state = "running" /\ co'[Main].pc = "idle"
    BY <1>7, <2>1, <2>2 DEF Registers
  <2>4. QED
    BY <2>3 DEF Unborn
<1>8. ASSUME NEW c \in Coroutine, Orphans(c) PROVE Fresh'
  <2>1. c = Main
    BY <1>3, <1>8 DEF Orphans
  <2>2. co'[Main].pc = "raise"
    BY <1>8, <2>1 DEF Orphans, Turn, NoCall
  <2>3. task'.state # "queued"
    BY <1>8, Row, Edges DEF Orphans, SameRow, Safe
  <2>4. QED
    BY <2>2, <2>3 DEF Unborn
<1>9. ASSUME NEW c \in Coroutine, Misfires(c) PROVE Fresh'
  <2>1. c = Main
    BY <1>3, <1>9 DEF Misfires
  <2>2. co'[Main].pc = "raise" /\ co[Main].pc = "spawn"
    BY <1>9, <2>1 DEF Misfires, Turn, NoCall
  <2>3. (\A n \in Attempt : co'[n] = co[n]) /\ co'[Dog] = co[Dog]
    BY <1>4, <1>9, <2>1 DEF Misfires
  <2>4. QED
    BY <1>2, <1>4a, <1>9, <2>2, <2>3 DEF Misfires, NoCall, SameRow
<1>10. ASSUME NEW c \in Coroutine, Enters(c) \/ Decides(c) PROVE Fresh'
  <2>1. PICK p \in {"lock", "policy", "supervise"} : \E q : Turn(c, p, q)
    BY <1>10 DEF Enters, Decides, Decision
  <2>2. c = Main
    BY <1>3, <2>1
  <2>3. QED
    BY <2>1, <2>2 DEF Safe, Apart, Turn
<1>11. ASSUME NEW c \in Coroutine, Leaves(c) PROVE Fresh'
  <2>1. PICK p \in {"return", "raise"} : \E q : Turn(c, p, q)
    BY <1>11 DEF Leaves
  <2>2. c = Main
    BY <1>3, <2>1
  <2>3. co'[Main].pc = "stop" /\ NoCall(c) /\ lock' = 0
    <3>1. Turn(c, "raise", "stop") /\ NoCall(c)
      BY <1>11, <2>2, Numbers DEF Leaves, Safe, Apart, Turn
    <3>2. QED
      BY <1>2, <1>11, <2>2, <3>1 DEF Turn, NoCall, Leaves
  <2>4. (\A n \in Attempt : co'[n] = co[n]) /\ co'[Dog] = co[Dog]
    BY <1>4, <2>1, <2>2
  <2>5. QED
    BY <1>2, <1>4a, <1>11, <2>3, <2>4 DEF Leaves, NoCall, SameRow, SameRegistries
<1>12. ASSUME NEW n \in Attempt,
              ReadsLine(n) \/ Ends(n) \/ Reaps(n) \/ Opens(n) \/ Verifies(n) \/ HandsOver(n)
       PROVE  Fresh'
  <2>1. PICK p \in {"read", "eof", "reap", "begin", "verify", "deliver"} : \E q : Turn(n, p, q)
    BY <1>12 DEF ReadsLine, Ends, Reaps, Opens, Verifies, HandsOver
  <2>2. QED
    BY <1>3, <2>1, Numbers
<1>13. CASE Sweeps
  BY <1>2, <1>13 DEF Sweeps
<1>14. CASE Forgets \/ Finishes
  BY <1>2, <1>14 DEF Forgets, Finishes
<1>15. CASE Outside
  <2>1. task'.state \in {"queued", "cancelled"}
    BY <1>2, <1>15 DEF Outside, Unanswered
  <2>2. \A n \in Attempt : Dead(n)' /\ att'[n].verdict = "none"
    BY <1>2, <1>15 DEF Outside, SameVerdicts, Dead
  <2>3. QED
    BY <1>2, <1>15, <2>1, <2>2 DEF Fresh, Outside, SameAttempt
<1>16. QED
  BY <1>5, <1>6, <1>7, <1>8, <1>9, <1>10, <1>11, <1>12, <1>13, <1>14, <1>15, NeverAborts
     DEF Kinds

Over == {"verifying", "delivering", "delivered", "needs_human", "failed"}

\* A coroutine that moves, and neither launches nor has an attempt registered.
Path(c) ==
  \E p \in Place \ {"off", "dead", "teardown"}, q \in Place \ {"slot", "spawn", "teardown"} :
    /\ Turn(c, p, q)
    /\ q = "return" /\ c = Dog =>
         \/ p \in {"policy", "supervise"} /\ lock' = lock
         \/ p = "lock" /\ lock = 0 /\ NoCall(c)

Asks(c) ==
  \/ NoCall(c)
  \/ \E e \in Attempt : Calls(c, e)
  \/ Calls(c, 0) /\ (Dest(c) \in InTriage \/ (c = Dog /\ co[c].pc = "return"))

Kept ==
  /\ mem'.reg = mem.reg /\ mem'.wt = mem.wt /\ mem'.slot = mem.slot
  /\ mem'.free = mem.free /\ mem'.others = mem.others /\ mem'.held \in {mem.held, 0}
  /\ task'.cur = task.cur /\ task'.made = task.made
  /\ \A n \in Attempt : Dead(n) => Dead(n)'
  /\ infra => infra'

Locks(c) ==
  /\ lock' = lock \/ lock \in {0, c}
  /\ Dest(c)' \in InTriage => lock' = c /\ task'.state \in {"triage", "cancelled"}
  /\ task.state \in {"triage", "cancelled"} => task'.state \in {"triage", "cancelled"} \/ lock = c
  /\ task.state = "cancelled" => /\ task'.state = "cancelled"
                                 /\ Dest(c)' \in InTriage => Dest(c) \in InTriage
  /\ task'.state \in Over => task.state \in Over \/ td'.phase # "none"
  /\ co'[c].pc \notin Starting

Heeds(c) ==
  c \in Attempt =>
    /\ Follows(c)' => Follows(c)
    /\ co'[c].trig # "stalled"
    /\ co'[c].pc = "teardown" /\ co'[c].then = "lock" => co'[c].trig # "asked"
    /\ co'[c].pc = "teardown" /\ co'[c].then = "eof" => "sdk_timeout" \in Lines

Mover(c) == Path(c) /\ Asks(c) /\ Kept /\ Locks(c) /\ Heeds(c)

\* A coroutine that begins or goes on with a launch.
Launches(c) ==
  /\ Begins(c) \/ GetsSlot(c)
  /\ co'[c].pc \in {"slot", "spawn"} /\ co'[c].then = "none" /\ td' = td
  /\ \E p \in {"idle", "launch", "slot"} : \E q \in {"slot", "spawn"} : Turn(c, p, q)

LEMMA Ways ==
  /\ {"idle", "lock", "policy", "supervise", "return", "raise", "read", "eof", "reap",
      "begin", "verify", "deliver", "spawn"} \subseteq Place \ {"off", "dead", "teardown"}
  /\ {"return", "policy", "raise", "launch", "supervise", "idle", "read", "off", "dead",
      "stop", "reap", "eof", "lock", "begin", "verify", "deliver"}
       \subseteq Place \ {"slot", "spawn", "teardown"}
BY Names

\* Where the coroutine that moves was and is.
LEMMA TurnDest ==
  ASSUME NEW c, NEW p, NEW q, Turn(c, p, q), p # "teardown", q # "teardown"
  PROVE  Dest(c) = p /\ Dest(c)' = q /\ co'[c].pc \in {q, "teardown"}
BY DEF Turn, Dest

\* A coroutine in triage has the lock.
LEMMA HasLock ==
  ASSUME Safe, NEW c \in Coroutine, Dest(c) \in InTriage, c # Main
  PROVE  lock = c /\ task.state \in {"triage", "cancelled"}
BY DEF Safe, TriageLocked

\* A move that is not about triage.
LEMMA LocksOutside ==
  ASSUME NEW c, NEW p, NEW q, Turn(c, p, q), p # "teardown", q # "teardown",
         q \notin InTriage, lock' = lock \/ lock = c,
         task'.state = task.state \/ task.state \notin {"triage", "cancelled"} \/ lock = c,
         task.state = "cancelled" => task'.state = "cancelled",
         task'.state \in Over => task.state \in Over \/ td'.phase # "none"
  PROVE  Locks(c)
<1>1. Dest(c)' = q /\ co'[c].pc \in {q, "teardown"}
  BY TurnDest
<1>2. QED
  BY <1>1 DEF Locks, Starting, InTriage

LEMMA MisfiresMove ==
  ASSUME Safe, NEW c \in Coroutine, Misfires(c)
  PROVE  Mover(c)
<1>1. Turn(c, "spawn", "raise") /\ NoCall(c) /\ Keeps(c, co[c])
  BY DEF Misfires
<1>2. Path(c) /\ Asks(c)
  BY <1>1, Ways DEF Path, Asks
<1>3. Kept
  BY DEF Misfires, Kept, SameRow, SameVisible, SameProcs, Dead
<1>4. Locks(c)
  BY <1>1, LocksOutside DEF Misfires, SameRow, InTriage
<1>5. Heeds(c)
  <2>1. co'[c].pc = "raise" /\ (c \in Attempt => co'[c].trig # "stalled")
    BY <1>1 DEF Turn, NoCall, Keeps, Safe, ReadersRegistered
  <2>2. QED
    BY <2>1 DEF Heeds, Follows
<1>6. QED
  BY <1>2, <1>3, <1>4, <1>5 DEF Mover

LEMMA EntersMove ==
  ASSUME Safe, NEW c \in Coroutine, Enters(c)
  PROVE  Mover(c)
<1>1. NoCall(c) /\ Keeps(c, co[c]) /\ lock = 0
  BY DEF Enters
<1>2. PICK q \in {"return", "policy", "raise"} :
        /\ Turn(c, "lock", q)
        /\ q # "policy" => lock' = lock /\ task'.state = task.state
        /\ q = "policy" => lock' = c /\ task'.state = "triage" /\ task.state # "cancelled"
  BY DEF Enters
<1>3. Path(c) /\ Asks(c)
  BY <1>1, <1>2, Ways DEF Path, Asks
<1>4. Kept
  BY DEF Enters, Kept, SameAttempt, SameVisible, SameProcs, SameRegistries, Dead
<1>5. Locks(c)
  <2>1. CASE q = "policy"
    <3>1. co'[c].pc = "policy" /\ Dest(c)' = "policy"
      BY <1>1, <1>2, <2>1 DEF Turn, NoCall, Dest
    <3>2. QED
      BY <1>1, <1>2, <2>1, <3>1 DEF Locks, Starting, Over
  <2>2. CASE q # "policy"
    BY <1>2, <2>2, LocksOutside DEF InTriage
  <2>3. QED
    BY <2>1, <2>2
<1>6. Heeds(c)
  <2>1. co[c].pc = "lock" /\ co'[c].pc \in {"return", "policy", "raise"}
        /\ co'[c].trig = co[c].trig
    BY <1>1, <1>2 DEF Turn, NoCall, Keeps
  <2>2. QED
    BY <2>1 DEF Heeds, Follows, Safe, ReadersRegistered
<1>7. QED
  BY <1>3, <1>4, <1>5, <1>6 DEF Mover

LEMMA DecidesMove ==
  ASSUME Safe, NEW c \in Coroutine, Decides(c)
  PROVE  Mover(c)
<1>0. PICK p \in {"policy", "supervise"} : Decision(c, p)
  BY DEF Decides
<1>1. PICK q \in {"launch", "return", "raise", "supervise", "idle", "read"} : Turn(c, p, q)
  BY <1>0 DEF Decision
<1>2. Dest(c) = p /\ p \in InTriage /\ co[c].pc = p
  BY <1>1, TurnDest DEF InTriage, Turn
<1>2a. c # Main
  BY <1>2 DEF Safe, Apart
<1>3. lock = c /\ task.state \in {"triage", "cancelled"}
  BY <1>2, <1>2a, HasLock
<1>4. NoCall(c) \/ Calls(c, 0)
  BY <1>0 DEF Decision
<1>5. Path(c)
  <2>1. Turn(c, p, "return") => lock' = lock
    BY <1>0 DEF Decision, Turn
  <2>2. QED
    BY <1>1, <2>1, Ways DEF Path
<1>6. Asks(c)
  BY <1>2, <1>4 DEF Asks
<1>7. Kept
  BY DEF Decides, Kept, SameAttempt, SameVisible, SameProcs, SameRegistries, Dead
<1>8. Locks(c) /\ Heeds(c)
  <2>1. CASE /\ Turn(c, p, "launch") /\ Calls(c, 0) /\ co'[c].trig = co[c].trig
             /\ task'.state = task.state /\ lock' = lock
    <3>1. Dest(c)' = "launch" /\ co'[c].pc = "teardown" /\ co'[c].then = "launch"
      BY <2>1 DEF Turn, Calls, Dest
    <3>2. Locks(c)
      BY <1>2, <1>3, <2>1, <3>1 DEF Locks, Starting
    <3>3. Heeds(c)
      BY <2>1, <3>1 DEF Heeds, Follows, Safe, ReadersRegistered
    <3>4. QED
      BY <3>2, <3>3
  <2>2. CASE /\ Turn(c, p, "return") /\ Calls(c, 0) /\ Keeps(c, co[c])
             /\ task.state = "triage" /\ task'.state \in {"needs_human", "failed"} /\ lock' = lock
    <3>1. Dest(c)' = "return" /\ co'[c].pc = "teardown" /\ co'[c].then = "return"
          /\ td'.phase # "none"
      BY <2>2 DEF Turn, Calls, Dest
    <3>2. Locks(c)
      BY <1>3, <2>2, <3>1 DEF Locks, Starting, InTriage
    <3>3. Heeds(c)
      BY <2>2, <3>1 DEF Heeds, Follows, Keeps, Safe, ReadersRegistered
    <3>4. QED
      BY <3>2, <3>3
  <2>3. CASE /\ Turn(c, p, "raise") /\ NoCall(c) /\ Keeps(c, co[c])
             /\ task'.state = task.state /\ lock' = lock
    <3>1. co'[c].pc = "raise"
      BY <2>3 DEF Turn, NoCall
    <3>2. Locks(c)
      BY <2>3, LocksOutside DEF InTriage
    <3>3. Heeds(c)
      BY <2>3, <3>1 DEF Heeds, Follows, Keeps, Safe, ReadersRegistered
    <3>4. QED
      BY <3>2, <3>3
  <2>4. CASE /\ p = "policy" /\ Turn(c, p, "supervise") /\ NoCall(c) /\ Keeps(c, co[c])
             /\ task'.state = task.state /\ lock' = lock
    <3>1. co'[c].pc = "supervise" /\ Dest(c)' = "supervise" /\ co[c].pc = "policy"
      BY <2>4 DEF Turn, NoCall, Dest
    <3>2. Locks(c)
      BY <1>2, <1>3, <2>4, <3>1 DEF Locks, Starting
    <3>3. Heeds(c)
      BY <2>4, <3>1 DEF Heeds, Follows, Keeps, Safe, ReadersRegistered
    <3>4. QED
      BY <3>2, <3>3
  <2>5. CASE /\ p = "supervise" /\ Turn(c, p, IF c = Dog THEN "idle" ELSE "read") /\ NoCall(c)
             /\ Keeps(c, Resting("x"))
             /\ Legal(task.state, "running") /\ task'.state = "running"
             /\ lock' = (IF lock = c THEN 0 ELSE lock)
             /\ co[c].trig = "asked" \/ co[c].trig = "stalled"
    <3>1. PICK r \in {"idle", "read"} : Turn(c, p, r) /\ co'[c].pc = r
      BY <2>5 DEF Turn, NoCall
    <3>2. task.state # "cancelled"
      BY <2>5, Edges, Row DEF Safe
    <3>3. Locks(c)
      BY <1>3, <2>5, <3>1, <3>2, LocksOutside DEF InTriage, Over
    <3>4. c \in Attempt => Follows(c)
      BY <1>2, <2>5 DEF Follows, Safe, ReadersRegistered
    <3>5. co'[c].trig = "none"
      BY <2>5, Mine DEF Keeps, Safe
    <3>6. Heeds(c)
      BY <3>1, <3>4, <3>5 DEF Heeds
    <3>7. QED
      BY <3>3, <3>6
  <2>6. QED
    BY <1>0, <2>1, <2>2, <2>3, <2>4, <2>5 DEF Decision
<1>9. QED
  BY <1>5, <1>6, <1>7, <1>8 DEF Mover

LEMMA LeavesMove ==
  ASSUME Safe, NEW c \in Coroutine, Leaves(c)
  PROVE  Mover(c)
<1>0. co[c].arg \in Attempt \cup {0}
  BY DEF Safe, Typed, CoType
<1>1. PICK p \in {"return", "raise"}, q \in {"off", "idle", "dead", "stop"} : Turn(c, p, q)
  BY DEF Leaves
<1>2. Path(c)
  BY <1>1, Ways DEF Path
<1>3. Asks(c)
  <2>1. CASE c \in Attempt
    BY <2>1, Numbers DEF Leaves, Asks
  <2>2. CASE Turn(c, "return", "idle") /\ Calls(c, co[c].arg) /\ c \notin Attempt
    <3>1. co[c].pc = "return"
      BY <2>2 DEF Turn
    <3>2. c = Dog
      BY <2>2, <3>1, Numbers DEF Safe, Apart, Coroutine
    <3>3. QED
      BY <1>0, <2>2, <3>1, <3>2 DEF Asks
  <2>3. CASE NoCall(c)
    BY <2>3 DEF Asks
  <2>4. QED
    BY <2>1, <2>2, <2>3 DEF Leaves
<1>4. Kept
  BY DEF Leaves, Kept, SameRow, SameVisible, SameProcs, SameRegistries, Dead
<1>5. Locks(c)
  BY <1>1, LocksOutside DEF Leaves, SameRow, InTriage
<1>6. Heeds(c)
  <2>1. c \in Attempt => co'[c].pc \in {"off", "teardown"} /\ co'[c].then # "eof"
                         /\ co'[c].trig = "none"
    <3>1. c \in Attempt => \E r \in {"return", "raise"} : Turn(c, r, "off")
      BY DEF Leaves
    <3>2. co'[c].trig = "none"
      BY Mine DEF Leaves, Keeps, Safe
    <3>3. QED
      BY <3>1, <3>2 DEF Turn
  <2>2. QED
    BY <2>1 DEF Heeds, Follows
<1>7. QED
  BY <1>2, <1>3, <1>4, <1>5, <1>6 DEF Mover

LEMMA ReadsMove ==
  ASSUME Safe, NEW n \in Attempt, ReadsLine(n)
  PROVE  Mover(n)
<1>1. PICK q \in {"read", "reap", "eof", "lock", "return"} : Turn(n, "read", q)
  BY DEF ReadsLine
<1>2. Path(n)
  BY <1>1, Ways, Numbers DEF Path
<1>3. Asks(n)
  BY DEF ReadsLine, Asks
<1>4. Kept
  BY DEF ReadsLine, Kept, SameRow, SameProcs, SameRegistries, Dead
<1>5. Locks(n)
  BY <1>1, LocksOutside DEF ReadsLine, SameRow, InTriage
<1>6. Heeds(n)
  <2>1. Follows(n) /\ co[n].trig # "stalled"
    BY <1>1 DEF Follows, Turn, Safe, ReadersRegistered
  <2>2. co'[n].trig \in {co[n].trig, "protocol", "asked"}
    BY DEF ReadsLine
  <2>3. co'[n].pc = "teardown" => co'[n].then # "lock"
                                  /\ (co'[n].then = "eof" => "sdk_timeout" \in Lines)
    BY DEF ReadsLine, NoCall, Turn
  <2>4. QED
    BY <2>1, <2>2, <2>3 DEF Heeds
<1>7. QED
  BY <1>2, <1>3, <1>4, <1>5, <1>6 DEF Mover

LEMMA EndsMove ==
  ASSUME Safe, NEW n \in Attempt, Ends(n)
  PROVE  Mover(n)
<1>1. PICK q \in {"lock", "return"} :
        /\ Turn(n, "eof", q)
        /\ q = "lock" => co'[n].trig \in {"protocol", "exited", "crashed"}
        /\ q = "return" => Keeps(n, co[n])
  BY DEF Ends
<1>2. Path(n)
  BY <1>1, Ways, Numbers DEF Path
<1>3. Asks(n)
  BY DEF Ends, Asks
<1>4. Kept
  BY DEF Ends, Kept, SameRow, SameVisible, SameProcs, SameRegistries, Dead
<1>5. Locks(n)
  BY <1>1, LocksOutside DEF Ends, SameRow, InTriage
<1>6. Heeds(n)
  <2>1. CASE q = "lock"
    <3>1. co'[n].pc \in {"lock", "teardown"}
      BY <1>1, <2>1 DEF Turn
    <3>2. co'[n].pc = "teardown" => co'[n].then = "lock"
      BY <1>1, <2>1 DEF Turn
    <3>3. QED
      BY <1>1, <2>1, <3>1, <3>2 DEF Heeds, Follows
  <2>2. CASE q = "return"
    <3>1. co'[n].pc \in {"return", "teardown"} /\ co'[n].trig # "stalled"
      BY <1>1, <2>2 DEF Turn, Keeps, Safe, ReadersRegistered
    <3>2. co'[n].pc = "teardown" => co'[n].then = "return"
      BY <1>1, <2>2 DEF Turn
    <3>3. QED
      BY <3>1, <3>2 DEF Heeds, Follows
  <2>3. QED
    BY <2>1, <2>2
<1>7. QED
  BY <1>2, <1>3, <1>4, <1>5, <1>6 DEF Mover

LEMMA ReapsMove ==
  ASSUME Safe, NEW n \in Attempt, Reaps(n)
  PROVE  Mover(n)
<1>1. PICK q \in {"begin", "raise"} : Turn(n, "reap", q)
  BY DEF Reaps
<1>2. Path(n)
  BY <1>1, Ways, Numbers DEF Path
<1>3. Asks(n)
  BY DEF Reaps, Asks
<1>4. Kept
  BY DEF Reaps, Kept, SameAttempt, SameRegistries, Dead
<1>5. Locks(n)
  <2>1. task'.state = "verifying" /\ Calls(n, n) => td'.phase # "none"
    <3>1. Registered(n)
      BY <1>1 DEF Turn, Follows, Safe, ReadersRegistered
    <3>2. QED
      BY <3>1, Numbers DEF Calls, Registered, Reaping
  <2>2. task'.state \in Over => task.state \in Over \/ td'.phase # "none"
    BY <2>1 DEF Reaps, Over
  <2>3. QED
    BY <1>1, <2>2, LocksOutside DEF Reaps, InTriage
<1>6. Heeds(n)
  <2>1. /\ co'[n].trig = co[n].trig /\ co'[n].pc \in {"begin", "raise", "teardown"}
        /\ co'[n].pc = "teardown" => co'[n].then \in {"begin", "raise"}
    BY <1>1 DEF Turn, Keeps, Reaps
  <2>2. QED
    BY <2>1 DEF Heeds, Follows, Safe, ReadersRegistered
<1>7. QED
  BY <1>2, <1>3, <1>4, <1>5, <1>6 DEF Mover

LEMMA OpensMove ==
  ASSUME Safe, NEW n \in Attempt, Opens(n)
  PROVE  Mover(n)
<1>1. Turn(n, "begin", "verify") /\ NoCall(n) /\ co'[n].trig = co[n].trig
  BY DEF Opens
<1>2. Path(n) /\ Asks(n)
  BY <1>1, Ways, Numbers DEF Path, Asks
<1>3. Kept
  BY DEF Opens, Kept, SameRow, SameVisible, SameProcs, SameRegistries, Dead
<1>4. Locks(n)
  BY <1>1, LocksOutside DEF Opens, SameRow, InTriage
<1>5. Heeds(n)
  <2>1. co'[n].pc = "verify" /\ co'[n].trig # "stalled"
    BY <1>1 DEF Turn, NoCall, Safe, ReadersRegistered
  <2>2. QED
    BY <2>1 DEF Heeds, Follows
<1>6. QED
  BY <1>2, <1>3, <1>4, <1>5 DEF Mover

LEMMA VerifiesMove ==
  ASSUME Safe, NEW n \in Attempt, Verifies(n) \/ HandsOver(n)
  PROVE  Mover(n)
<1>1. PICK p \in {"verify", "deliver"}, q \in {"deliver", "raise", "lock", "return"} :
        /\ Turn(n, p, q)
        /\ Keeps(n, co[n]) \/ co'[n].trig \notin {"asked", "stalled"}
        /\ q = "lock" => co'[n].trig # "asked"
  <2>1. CASE Verifies(n)
    <3>1. CASE Turn(n, "verify", "deliver") /\ Keeps(n, co[n])
      BY <3>1
    <3>2. CASE Turn(n, "verify", "raise") /\ Keeps(n, co[n])
      BY <3>2
    <3>3. CASE Turn(n, "verify", "lock") /\ co'[n].trig \in {"verify.failed", "verify.repeated"}
      BY <3>3
    <3>4. QED
      BY <2>1, <3>1, <3>2, <3>3 DEF Verifies
  <2>2. CASE HandsOver(n)
    <3>1. CASE /\ Turn(n, "deliver", "lock")
               /\ co'[n].trig \in {"artifact.failed", "artifact.repeated", "delivery.failed"}
      BY <3>1
    <3>2. CASE Turn(n, "deliver", "return") /\ Keeps(n, co[n])
      BY <3>2
    <3>3. CASE Turn(n, "deliver", "raise") /\ Keeps(n, co[n])
      BY <3>3
    <3>4. QED
      BY <2>2, <3>1, <3>2, <3>3 DEF HandsOver
  <2>3. QED
    BY <2>1, <2>2
<1>2. Path(n)
  BY <1>1, Ways, Numbers DEF Path
<1>3. NoCall(n) /\ Asks(n)
  BY DEF Verifies, HandsOver, Asks
<1>4. Kept
  BY DEF Verifies, HandsOver, Kept, SameAttempt, SameProcs, SameRegistries, Dead
<1>5. Locks(n)
  BY <1>1, LocksOutside DEF Verifies, HandsOver, InTriage, Over
<1>6. Heeds(n)
  <2>1. co'[n].pc = q /\ co'[n].trig # "stalled"
    BY <1>1, <1>3 DEF Turn, Keeps, NoCall, Safe, ReadersRegistered
  <2>2. QED
    BY <1>1, <2>1 DEF Heeds, Follows
<1>7. QED
  BY <1>2, <1>3, <1>4, <1>5, <1>6 DEF Mover

LEMMA SweepsMove ==
  ASSUME Safe, Sweeps
  PROVE  Mover(Dog)
<1>1. Turn(Dog, "idle", "lock")
  BY DEF Sweeps
<1>2. Path(Dog)
  BY <1>1, Ways DEF Path
<1>3. Asks(Dog)
  <2>1. mem.reg \in Attempt \cup {0}
    BY RowShapes DEF MemType, Safe
  <2>2. QED
    BY <2>1 DEF Sweeps, Asks
<1>4. Kept
  BY DEF Sweeps, Kept, SameRow, SameVisible, SameProcs, SameRegistries, Dead
<1>5. Locks(Dog)
  BY <1>1, LocksOutside DEF Sweeps, SameRow, InTriage
<1>6. Heeds(Dog)
  BY Numbers DEF Heeds
<1>7. QED
  BY <1>2, <1>3, <1>4, <1>5, <1>6 DEF Mover

LEMMA KindsMove ==
  ASSUME Safe, Kinds
  PROVE  \/ \E c \in Coroutine : \/ Mover(c) \/ Launches(c) \/ Registers(c) \/ Orphans(c)
         \/ Forgets \/ Finishes \/ Outside
<1>1. ASSUME NEW c \in Coroutine, Begins(c) \/ GetsSlot(c) PROVE Launches(c)
  BY <1>1 DEF Launches, Begins, GetsSlot, Turn, NoCall
<1>2. QED
  BY <1>1, MisfiresMove, EntersMove, DecidesMove, LeavesMove, ReadsMove, EndsMove,
     ReapsMove, OpensMove, VerifiesMove, SweepsMove, NeverAborts, Numbers DEF Kinds

LEMMA CleanupKnownStep ==
  ASSUME Safe, Kinds
  PROVE  CleanupKnown'
<1>0. Typed /\ 0 \notin Coroutine
  BY Numbers DEF Safe
<1>1. ASSUME NEW c \in Coroutine, NoCall(c) \/ \E e \in Attempt \cup {0} : Calls(c, e),
             co[c].pc # "teardown", \A d \in Coroutine \ {c} : co'[d] = co[d],
             mem'.reg = mem.reg
      PROVE  CleanupKnown'
  <2>1. CASE td' = td /\ co'[c].pc # "teardown"
    BY <1>1, <2>1 DEF Safe, CleanupKnown
  <2>2. CASE co'[c].pc = "teardown" /\ td.phase # "none" /\ td' = td
    BY <1>1, <2>2 DEF Safe, CleanupKnown
  <2>3. CASE /\ co'[c].pc = "teardown" /\ td.phase = "none"
             /\ \E e \in Attempt \cup {0} :
                  /\ e = 0 \/ mem.reg = e
                  /\ td' = [phase |-> "start", expect |-> e, owner |-> c, proc |-> 0]
    BY <1>1, <2>3 DEF CleanupKnown
  <2>4. QED
    BY <1>1, <2>1, <2>2, <2>3 DEF NoCall, Calls
<1>2. ASSUME NEW c \in Coroutine, Mover(c) PROVE CleanupKnown'
  <2>1. NoCall(c) \/ \E e \in Attempt \cup {0} : Calls(c, e)
    BY <1>2 DEF Mover, Asks
  <2>2. co[c].pc # "teardown" /\ \A d \in Coroutine \ {c} : co'[d] = co[d]
    BY <1>2 DEF Mover, Path, Turn
  <2>3. QED
    BY <1>1, <1>2, <2>1, <2>2 DEF Mover, Kept
<1>3. ASSUME NEW c \in Coroutine, Launches(c) PROVE CleanupKnown'
  BY <1>1, <1>3 DEF Launches, Turn, NoCall, Begins, GetsSlot
<1>4. ASSUME NEW c \in Coroutine, Orphans(c) PROVE CleanupKnown'
  BY <1>1, <1>4 DEF Orphans, Turn, SameRegistries
<1>5. ASSUME NEW c \in Coroutine, Registers(c) PROVE CleanupKnown'
  <2>1. td.phase = "none" /\ td' = td
    BY <1>5 DEF Safe, StartsClean, Registers, Starting
  <2>2. \A d \in Coroutine : co'[d].pc # "teardown"
    <3>1. \A d \in Coroutine : co[d].pc # "teardown"
      BY <2>1 DEF Safe, CleanupKnown
    <3>2. co'[co[c].new].pc = "read"
      BY <1>5 DEF Registers, Resting
    <3>3. QED
      BY <1>5, <3>1, <3>2 DEF Registers
  <2>3. QED
    BY <2>1, <2>2 DEF CleanupKnown
<1>6. CASE Forgets
  BY <1>0, <1>6 DEF Safe, CleanupKnown, Forgets
<1>7. CASE Finishes
  <2>1. \A d \in Coroutine : co'[d].pc # "teardown"
    <3>1. \A d \in Coroutine : co[d].then \in After /\ "teardown" \notin After
      BY <1>0, Names DEF Typed, CoType
    <3>2. Resting("off").pc = "off"
      BY DEF Resting
    <3>3. QED
      BY <1>7, <3>1, <3>2 DEF Finishes
  <2>2. td'.phase = "none"
    BY <1>7 DEF Finishes, NoTeardown
  <2>3. QED
    BY <2>1, <2>2 DEF CleanupKnown
<1>8. CASE Outside
  BY <1>8 DEF Safe, CleanupKnown, Outside
<1>9. QED
  BY <1>0, <1>2, <1>3, <1>4, <1>5, <1>6, <1>7, <1>8, KindsMove

LEMMA CurrentKnownStep ==
  ASSUME Safe, Kinds
  PROVE  CurrentKnown'
<1>0. Typed
  BY DEF Safe
<1>1. ASSUME NEW c \in Coroutine, Mover(c) PROVE CurrentKnown'
  <2>1. td' = td \/ td'.phase = "start"
    BY <1>1 DEF Mover, Asks, NoCall, Calls
  <2>2. QED
    BY <1>1, <2>1 DEF Safe, CurrentKnown, Mover, Kept, Reaping
<1>2. ASSUME NEW c \in Coroutine, Launches(c) PROVE CurrentKnown'
  BY <1>2 DEF Safe, CurrentKnown, Launches, Begins, GetsSlot, SameRow, Reaping
<1>3. ASSUME NEW c \in Coroutine, Orphans(c) PROVE CurrentKnown'
  BY <1>3 DEF Safe, CurrentKnown, Orphans, NoCall, SameRow, SameRegistries, Reaping
<1>4. ASSUME NEW c \in Coroutine, Registers(c) PROVE CurrentKnown'
  <2>1. td.phase = "none"
    BY <1>4 DEF Safe, StartsClean, Registers, Starting
  <2>2. QED
    BY <1>4, <2>1 DEF CurrentKnown, Registers, Reaping
<1>5. CASE Forgets
  BY <1>5 DEF Safe, CurrentKnown, Forgets, SameRow, Reaping
<1>6. CASE Finishes
  <2>1. mem'.reg = 0 /\ td'.phase = "none"
    BY <1>6 DEF Safe, CleanupKnown, Finishes, NoTeardown
  <2>2. QED
    BY <2>1 DEF CurrentKnown, Reaping
<1>7. CASE Outside
  BY <1>7 DEF Safe, CurrentKnown, Outside, SameAttempt, Reaping
<1>8. QED
  BY <1>0, <1>1, <1>2, <1>3, <1>4, <1>5, <1>6, <1>7, KindsMove

-----------------------------------------------------------------------------
(* Each part of Safe is kept by each kind of step. *)

\* What a finished cleanup does to a coroutine.
LEMMA FinishDest ==
  ASSUME Safe, Finishes, NEW c \in Coroutine
  PROVE  /\ co'[c].pc = Dest(c)' /\ co'[c].pc # "teardown"
         /\ \/ c \in Cancelled /\ co'[c] = Resting("off") /\ Dest(c)' = "off"
            \/ /\ c \notin Cancelled /\ co'[c].trig = co[c].trig /\ co'[c].arg = co[c].arg
               /\ co'[c].new = co[c].new /\ co'[c].paid = co[c].paid
               /\ \/ Dest(c)' = Dest(c)
                  \/ Dest(c)' = "raise" /\ co[c].pc = "teardown" /\ mem.wt = 0 /\ mem.slot # 0
               /\ co[c].pc # "teardown" => co'[c] = co[c]
<1>1. co[c].then \in After /\ "teardown" \notin After
  BY Names DEF Safe, Typed, CoType
<1>2. CASE c \in Cancelled
  BY <1>2 DEF Finishes, Resting, Dest
<1>3. CASE c \notin Cancelled /\ co[c].pc # "teardown"
  BY <1>3 DEF Finishes, Dest
<1>4. CASE c \notin Cancelled /\ co[c].pc = "teardown"
  BY <1>1, <1>4 DEF Finishes, Keeps, Dest
<1>5. QED
  BY <1>2, <1>3, <1>4

\* No attempt is registered when a cleanup ends, and all but its own process
\* and those of a cancelled task are dead.
LEMMA FinishEmpty ==
  ASSUME Safe, Finishes
  PROVE  /\ mem.reg = 0 /\ mem'.reg = 0
         /\ task.state # "cancelled" \/ ~NoTriage => \A n \in Attempt : Dead(n)'
<1>1. mem.reg = 0 /\ mem'.reg = 0
  BY DEF Safe, CleanupKnown, Finishes
<1>2. ASSUME task.state # "cancelled" \/ ~NoTriage, NEW n \in Attempt PROVE Dead(n)'
  <2>1. CASE n = td.proc
    BY <2>1, Numbers DEF Finishes, Dead
  <2>2. CASE n # td.proc
    <3>1. Dead(n)
      BY <1>1, <1>2, <2>2, Numbers DEF Safe, LiveKnown
    <3>2. QED
      BY <2>2, <3>1 DEF Finishes, Dead
  <2>3. QED
    BY <2>1, <2>2
<1>3. QED
  BY <1>1, <1>2

\* A coroutine of the task's main loop that launches, and one in triage.
LEMMA Begun ==
  ASSUME Safe, NEW c \in Coroutine, Launches(c)
  PROVE  /\ co[c].pc # "teardown" /\ Dest(c)' = co'[c].pc
         /\ \/ c = Main /\ Unborn
            \/ c # Main /\ Dest(c) \in InTriage
         /\ \A d \in Coroutine \ {c} : co'[d] = co[d] /\ Dest(d) \notin InTriage
         /\ task'.state = task.state /\ SameVisible /\ lock' = lock
         /\ mem'.reg = mem.reg /\ td' = td /\ co'[c].trig = co[c].trig
         /\ task.state \in {"queued", "triage", "cancelled"}
         /\ cpu \in {0, c}
<1>1. PICK p \in {"idle", "launch", "slot"} : \E q \in {"slot", "spawn"} : Turn(c, p, q)
  BY DEF Launches
<1>2. /\ co[c].pc = p /\ \A d \in Coroutine \ {c} : co'[d] = co[d]
      /\ cpu \in {0, c}
  BY <1>1 DEF Turn
<1>3. co[c].pc # "teardown" /\ Dest(c)' = co'[c].pc /\ Dest(c) = p
  BY <1>1, <1>2 DEF Launches, Dest
<1>4. \/ c = Main /\ Unborn
      \/ c # Main /\ p \in {"launch", "slot"}
  <2>1. CASE Begins(c)
    BY <1>2, <2>1 DEF Begins, Unborn, Turn
  <2>2. CASE GetsSlot(c)
    BY <1>2, <2>2 DEF GetsSlot, Unborn, Turn
  <2>3. QED
    BY <2>1, <2>2 DEF Launches
<1>5. ASSUME NEW d \in Coroutine \ {c} PROVE Dest(d) \notin InTriage
  <2>1. CASE c = Main
    <3>1. co[d].pc \in {"off", "idle"}
      BY <1>4, <2>1, Numbers DEF Safe, Fresh, Unborn, Coroutine
    <3>2. QED
      BY <3>1 DEF Dest, InTriage
  <2>2. CASE c # Main
    BY <1>3, <1>4, <2>2, OneTriager DEF InTriage
  <2>3. QED
    BY <2>1, <2>2
<1>6. /\ task'.state = task.state /\ SameVisible /\ lock' = lock
      /\ mem'.reg = mem.reg /\ td' = td /\ co'[c].trig = co[c].trig
  BY DEF Launches, Begins, GetsSlot, NoCall, SameRow, Keeps
<1>7. task.state \in {"queued", "triage", "cancelled"}
  BY <1>3, <1>4, HasLock DEF InTriage, Safe, Fresh, Unborn
<1>8. QED
  BY <1>2, <1>3, <1>4, <1>5, <1>6, <1>7 DEF InTriage

\* A worker that is born: nothing else of its task is alive, or in triage.
LEMMA Birth ==
  ASSUME Safe, NEW c \in Coroutine, Registers(c) \/ Orphans(c)
  PROVE  /\ co[c].pc = "spawn" /\ Dest(c) \in InTriage
         /\ \A d \in Coroutine \ {c} : Dest(d) \notin InTriage
         /\ \A n \in Attempt : Dead(n)
         /\ mem.reg = 0 /\ mem.wt = 0 /\ td.phase = "none" /\ td' = td
         /\ mem.slot = co[c].new /\ co[c].new \in Attempt /\ lock' = lock
         /\ task.state \in {"queued", "triage", "cancelled"}
         /\ cpu \in {0, c}
<1>1. co[c].pc = "spawn" /\ td' = td /\ lock' = lock /\ cpu \in {0, c} /\ co[c].new \in Attempt
  BY DEF Registers, Orphans, Turn, NoCall
<1>2. Dest(c) \in InTriage
  BY <1>1 DEF Dest, InTriage
<1>3. task.state \in {"queued", "triage", "cancelled"}
  BY <1>1, <1>2, HasLock DEF Safe, Fresh
<1>4. /\ \A n \in Attempt : Dead(n)
      /\ mem.reg = 0 /\ mem.wt = 0 /\ td.phase = "none" /\ mem.slot = co[c].new
  BY <1>1 DEF Safe, StartsClean, Starting
<1>5. QED
  BY <1>1, <1>2, <1>3, <1>4, OneTriager

\* Where everybody is after a birth.
LEMMA Born ==
  ASSUME Safe, NEW c \in Coroutine, Registers(c) \/ Orphans(c), NEW d \in Coroutine
  PROVE  /\ Dest(d)' \notin InTriage
         /\ \/ d # c /\ co'[d] = co[d]
            \/ Registers(c) /\ d = co[c].new /\ co'[d] = Resting("read") /\ Dest(d)' = "read"
            \/ /\ d = c /\ co'[d].pc \in {"idle", "return", "raise"} /\ Dest(d)' = co'[d].pc
               /\ co'[d].pc = "idle" => c = Main
               /\ co'[d].pc = "raise" => Orphans(c)
               /\ co'[d].trig = co[d].trig
<1>1. Resting("read").pc = "read"
  BY DEF Resting
<1>2. CASE Registers(c) /\ d = co[c].new
  BY <1>1, <1>2 DEF Registers, Dest, InTriage
<1>3. CASE Registers(c) /\ d # co[c].new /\ d = c
  BY <1>3 DEF Registers, Dest, InTriage
<1>4. CASE Orphans(c) /\ d = c
  BY <1>4 DEF Orphans, Turn, NoCall, Keeps, Dest, InTriage
<1>5. CASE d # c /\ co'[d] = co[d]
  BY <1>5, Birth DEF Dest
<1>6. QED
  BY <1>2, <1>3, <1>4, <1>5 DEF Registers, Orphans, Turn

\* What a coroutine that moves does to the others and to the cleanup.
LEMMA Moved ==
  ASSUME Safe, NEW c \in Coroutine, Mover(c)
  PROVE  /\ \A d \in Coroutine \ {c} : co'[d] = co[d] /\ Dest(d)' = Dest(d)
         /\ cpu \in {0, c}
         /\ co[c].pc # "teardown" /\ Dest(c) = co[c].pc
         /\ td.phase # "none" => td' = td
         /\ td' = td \/ td'.phase = "start"
<1>1. PICK p \in Place \ {"off", "dead", "teardown"} : \E q : Turn(c, p, q)
  BY DEF Mover, Path
<1>2. QED
  BY <1>1 DEF Turn, Dest, Mover, Asks, NoCall, Calls

LEMMA TriageLockedStep ==
  ASSUME Safe, Kinds
  PROVE  TriageLocked'
<1> SUFFICES ASSUME NEW d \in Coroutine, d # Main, Dest(d)' \in InTriage
             PROVE  lock' = d /\ task'.state \in {"triage", "cancelled"}
  BY DEF TriageLocked, InTriage
<1>0. d # 0
  BY Numbers
<1>1. ASSUME NEW c \in Coroutine, Mover(c)
      PROVE  lock' = d /\ task'.state \in {"triage", "cancelled"}
  <2>1. CASE d = c
    BY <1>1, <2>1 DEF Mover, Locks
  <2>2. CASE d # c
    <3>1. lock = d /\ task.state \in {"triage", "cancelled"}
      BY <1>1, <2>2, Moved, HasLock
    <3>2. QED
      BY <1>0, <1>1, <2>2, <3>1 DEF Mover, Locks
  <2>3. QED
    BY <2>1, <2>2
<1>2. ASSUME NEW c \in Coroutine, Launches(c)
      PROVE  lock' = d /\ task'.state \in {"triage", "cancelled"}
  <2>1. d = c /\ Dest(c) \in InTriage
    BY <1>2, Begun DEF Dest
  <2>2. QED
    BY <1>2, <2>1, Begun, HasLock
<1>3. ASSUME NEW c \in Coroutine, Registers(c) \/ Orphans(c)
      PROVE  lock' = d /\ task'.state \in {"triage", "cancelled"}
  BY <1>3, Born
<1>4. CASE Forgets
  <2>1. Dest(d) \in InTriage
    BY <1>4 DEF Forgets, Dest
  <2>2. QED
    BY <1>4, <2>1, HasLock DEF Forgets, SameRow
<1>5. CASE Finishes
  <2>1. d \notin Cancelled /\ Dest(d) \in InTriage
    BY <1>5, FinishDest DEF InTriage
  <2>2. lock = d /\ task.state \in {"triage", "cancelled"}
    BY <2>1, HasLock
  <2>3. QED
    BY <1>5, <2>1, <2>2 DEF Finishes, SameRow
<1>6. CASE Outside
  <2>1. Dest(d) \in InTriage
    BY <1>6 DEF Outside, Dest
  <2>2. QED
    BY <1>6, <2>1, HasLock DEF Outside
<1>7. QED
  BY <1>1, <1>2, <1>3, <1>4, <1>5, <1>6, KindsMove

LEMMA StartsCleanStep ==
  ASSUME Safe, Kinds
  PROVE  StartsClean'
<1>0. /\ task.cur \in Nat /\ task.made \in Nat /\ task.cur <= task.made
      /\ Starting \subseteq InTriage
  BY Row, Numbers DEF Safe, Counted, Starting, InTriage
<1> DEFINE Clean(c) ==
      /\ \A n \in Attempt : Dead(n)
      /\ mem.reg = 0 /\ mem.wt = 0 /\ td.phase = "none"
      /\ co[c].pc = "launch" => mem.slot = 0 /\ mem.held = 0
      /\ co[c].pc = "slot" => mem.slot = 0
      /\ co[c].pc = "spawn" => mem.slot = co[c].new
      /\ co[c].pc \in {"slot", "spawn"} => co[c].new = task.made /\ task.cur < task.made
<1> SUFFICES ASSUME NEW c \in Coroutine, co'[c].pc \in Starting
             PROVE  Clean(c)'
  BY DEF StartsClean, Starting
<1>a. ASSUME co[c].pc \in Starting PROVE Clean(c) /\ Dest(c) = co[c].pc /\ Dest(c) \in InTriage
  BY <1>0, <1>a DEF Safe, StartsClean, Dest, Starting
<1>1. ASSUME NEW d \in Coroutine, Mover(d)
      PROVE  Clean(c)'
  <2>1. c # d /\ co'[c] = co[c] /\ co[c].pc \in Starting
    BY <1>1, Moved DEF Mover, Locks
  <2>2. Clean(c) /\ Dest(c) \in InTriage
    BY <1>a, <2>1
  <2>3. ~(Dest(d) \in InTriage)
    BY <2>1, <2>2, OneTriager
  <2>4. ~(d = Dog /\ co[d].pc = "return")
    <3>1. SUFFICES ASSUME d = Dog, co[d].pc = "return" PROVE FALSE
      OBVIOUS
    <3>2. lock = Dog
      BY <2>2, <3>1 DEF Safe, DogLeaves, Dest, NoTriage
    <3>3. c = Main
      BY <2>1, <2>2, <3>1, <3>2, HasLock
    <3>4. co[Main].pc \in {"slot", "spawn"}
      BY <2>1, <3>3 DEF Safe, Apart, Starting
    <3>5. QED
      BY <3>1, <3>4 DEF Safe, Fresh
  <2>5. td' = td
    BY <1>1, <2>2, <2>3, <2>4, Numbers DEF Mover, Asks, NoCall, Calls
  <2>6. QED
    BY <1>1, <2>1, <2>2, <2>5 DEF Mover, Kept
<1>2. ASSUME NEW d \in Coroutine, Launches(d)
      PROVE  Clean(c)'
  <2>1. c = d
    BY <1>2, <1>a, Begun
  <2>2. CASE Begins(c) /\ c = Main /\ task.state = "queued" /\ co[c].pc = "idle"
    <3>1. /\ \A n \in Attempt : Dead(n)
          /\ mem.reg = 0 /\ mem.wt = 0 /\ td.phase = "none" /\ mem.slot = 0
      BY <2>2 DEF Safe, Fresh
    <3>2. QED
      BY <1>0, <2>2, <3>1 DEF Begins, NoCall, SameVisible, SameProcs, Dead
  <2>3. CASE Begins(c) /\ co[c].pc = "launch"
    <3>1. Clean(c)
      BY <1>a, <2>3 DEF Starting
    <3>2. QED
      BY <1>0, <2>3, <3>1 DEF Begins, NoCall, SameVisible, SameProcs, Dead
  <2>4. CASE GetsSlot(c)
    <3>1. co[c].pc = "slot" /\ co'[c].pc = "spawn"
      BY <2>4 DEF GetsSlot, Turn, NoCall
    <3>2. Clean(c)
      BY <1>a, <3>1 DEF Starting
    <3>3. QED
      BY <2>4, <3>1, <3>2 DEF GetsSlot, NoCall, SameVisible, SameProcs, Dead, Keeps, SameRow
  <2>5. QED
    BY <1>2, <2>1, <2>2, <2>3, <2>4 DEF Launches, Begins, Turn
<1>3. ASSUME NEW d \in Coroutine, Registers(d) \/ Orphans(d)
      PROVE  Clean(c)'
  <2>1. Dest(c)' \in InTriage
    BY <1>0 DEF Dest, Starting
  <2>2. QED
    BY <1>3, <2>1, Born
<1>4. CASE Forgets
  BY <1>4, <1>a DEF Forgets
<1>5. CASE Finishes
  <2>1. Dest(c) \in InTriage /\ co'[c].pc = Dest(c)
    BY <1>5, FinishDest DEF Starting, InTriage
  <2>2. co[c].pc = "teardown" /\ co'[c].pc = "launch"
    <3>1. co[c].pc = "teardown"
      <4>1. SUFFICES ASSUME co[c].pc # "teardown" PROVE FALSE
        OBVIOUS
      <4>2. co[c].pc \in Starting
        BY <1>5, <2>1, <4>1 DEF Dest
      <4>3. td.phase = "none"
        BY <1>a, <4>2
      <4>4. QED
        BY <1>5, <4>3 DEF Finishes
    <3>2. co[c].then \in After /\ {"slot", "spawn"} \cap After = {}
      BY Names DEF Safe, Typed, CoType
    <3>3. QED
      BY <2>1, <3>1, <3>2 DEF Dest, Starting
  <2>3. ~NoTriage
    BY <2>1 DEF NoTriage
  <2>4. QED
    BY <1>5, <2>2, <2>3, FinishEmpty DEF Finishes, NoTeardown
<1>6. CASE Outside
  BY <1>6, <1>a DEF Outside, SameAttempt, Dead
<1>7. QED
  BY <1>1, <1>2, <1>3, <1>4, <1>5, <1>6, KindsMove

LEMMA DogLeavesStep ==
  ASSUME Safe, Kinds
  PROVE  DogLeaves'
<1> SUFFICES ASSUME Dest(Dog)' = "return"
             PROVE  lock' = Dog \/ (cpu' = Dog /\ NoTriage')
  BY DEF DogLeaves
<1>0. Dog \in Coroutine /\ Dog # 0 /\ Dog # Main
  BY Numbers
<1>a. ASSUME Dest(Dog) = "return", cpu # Dog PROVE lock = Dog
  BY <1>a DEF Safe, DogLeaves
<1>1. ASSUME NEW c \in Coroutine, Mover(c)
      PROVE  lock' = Dog \/ (cpu' = Dog /\ NoTriage')
  <2>1. CASE c # Dog
    <3>1. lock = Dog
      BY <1>0, <1>1, <1>a, <2>1, Moved
    <3>2. QED
      BY <1>0, <1>1, <2>1, <3>1 DEF Mover, Locks
  <2>2. CASE c = Dog
    <3>1. PICK p \in Place \ {"off", "dead", "teardown"} :
            \E q \in Place \ {"slot", "spawn", "teardown"} :
              /\ Turn(c, p, q)
              /\ q = "return" =>
                   \/ p \in {"policy", "supervise"} /\ lock' = lock
                   \/ p = "lock" /\ lock = 0 /\ NoCall(c)
      BY <1>1, <2>2 DEF Mover, Path
    <3>2. /\ Turn(c, p, "return") /\ Dest(c) = p
          /\ \/ p \in {"policy", "supervise"} /\ lock' = lock
             \/ p = "lock" /\ lock = 0 /\ NoCall(c)
      BY <2>2, <3>1, TurnDest
    <3>3. CASE p \in {"policy", "supervise"} /\ lock' = lock
      BY <1>0, <2>2, <3>2, <3>3, HasLock DEF InTriage
    <3>4. CASE p = "lock" /\ lock = 0 /\ NoCall(c)
      <4>1. co'[Dog].pc = "return" /\ "return" \notin Waiting
        BY <2>2, <3>2, <3>4, Names DEF Turn, NoCall
      <4>2. cpu' = Dog
        BY <2>2, <3>2, <4>1 DEF Turn, Yields
      <4>3. ASSUME NEW d \in Coroutine, Dest(d)' \in InTriage PROVE FALSE
        <5>1. d # Dog
          BY <4>3 DEF InTriage
        <5>2. Dest(d) \in InTriage
          BY <1>1, <2>2, <4>3, <5>1, Moved
        <5>3. d = Main
          BY <3>4, <5>2, HasLock, Numbers
        <5>4. co[Main].pc \in {"slot", "spawn"}
          BY <5>2, <5>3 DEF Safe, Apart, Dest, InTriage
        <5>5. co[Dog].pc = "idle"
          BY <5>4 DEF Safe, Fresh
        <5>6. QED
          BY <2>2, <3>2, <3>4, <5>5 DEF Turn
      <4>4. QED
        BY <4>2, <4>3 DEF NoTriage
    <3>5. QED
      BY <3>2, <3>3, <3>4
  <2>3. QED
    BY <2>1, <2>2
<1>2. ASSUME NEW c \in Coroutine, Launches(c)
      PROVE  lock' = Dog \/ (cpu' = Dog /\ NoTriage')
  <2>1. c # Dog
    BY <1>2, Begun DEF Launches
  <2>2. Dest(Dog) = "return"
    BY <1>0, <1>2, <2>1, Begun DEF Dest
  <2>3. QED
    BY <1>0, <1>2, <1>a, <2>1, <2>2, Begun
<1>3. ASSUME NEW c \in Coroutine, Registers(c) \/ Orphans(c)
      PROVE  lock' = Dog \/ (cpu' = Dog /\ NoTriage')
  <2>1. CASE c = Dog
    BY <1>0, <1>3, <2>1, Birth, HasLock
  <2>2. CASE c # Dog
    <3>1. Dest(Dog) = "return"
      BY <1>0, <1>3, <2>2, Born DEF Dest
    <3>2. QED
      BY <1>0, <1>3, <1>a, <2>2, <3>1, Birth
  <2>3. QED
    BY <2>1, <2>2
<1>4. CASE Forgets
  BY <1>0, <1>4, <1>a DEF Forgets, Dest
<1>5. CASE Finishes
  <2>1. Dog \notin Cancelled
    BY <1>0, Numbers DEF Safe, Typed, Cancelled
  <2>2. Dest(Dog) = "return"
    BY <1>0, <1>5, FinishDest
  <2>3. QED
    BY <1>0, <1>5, <1>a, <2>1, <2>2 DEF Finishes
<1>6. CASE Outside
  BY <1>6 DEF Safe, DogLeaves, Outside, Dest, NoTriage
<1>7. QED
  BY <1>1, <1>2, <1>3, <1>4, <1>5, <1>6, KindsMove

LEMMA LiveKnownStep ==
  ASSUME Safe, Kinds
  PROVE  LiveKnown'
<1> SUFFICES ASSUME NEW n \in Attempt, ~Dead(n)'
             PROVE  \/ mem'.reg = n
                    \/ td'.phase = "reap" /\ td'.proc = n
                    \/ task'.state = "cancelled" /\ NoTriage'
  BY DEF LiveKnown, Reaping
<1> DEFINE Known == \/ mem'.reg = n
                    \/ td'.phase = "reap" /\ td'.proc = n
                    \/ task'.state = "cancelled" /\ NoTriage'
<1>a. ASSUME ~Dead(n)
      PROVE  \/ mem.reg = n
             \/ td.phase = "reap" /\ td.proc = n
             \/ task.state = "cancelled" /\ NoTriage
  BY <1>a DEF Safe, LiveKnown, Reaping
<1>1. ASSUME NEW c \in Coroutine, Mover(c) PROVE Known
  <2>1. ~Dead(n) /\ mem'.reg = mem.reg
    BY <1>1 DEF Mover, Kept
  <2>2. ASSUME task.state = "cancelled", NoTriage PROVE task'.state = "cancelled" /\ NoTriage'
    BY <1>1, <2>2, Moved DEF Mover, Locks, NoTriage
  <2>3. QED
    BY <1>1, <1>a, <2>1, <2>2, Moved
<1>2. ASSUME NEW c \in Coroutine, Launches(c) PROVE Known
  <2>1. ~Dead(n) /\ mem'.reg = mem.reg /\ td' = td
    BY <1>2, Begun DEF SameVisible, SameProcs, Dead
  <2>2. CASE c # Main /\ Dest(c) \in InTriage
    BY <1>a, <2>1, <2>2 DEF NoTriage
  <2>3. CASE c = Main /\ Unborn
    BY <2>1, <2>3 DEF Safe, Fresh, Unborn
  <2>4. QED
    BY <1>2, <2>2, <2>3, Begun
<1>3. ASSUME NEW c \in Coroutine, Registers(c) PROVE Known
  <2>1. \A m \in Attempt : Dead(m)
    BY <1>3, Birth
  <2>2. QED
    BY <1>3, <2>1 DEF Registers, Dead
<1>4. ASSUME NEW c \in Coroutine, Orphans(c) PROVE Known
  <2>1. task.state = "cancelled"
    BY <1>4, Birth, Edges, States DEF Orphans
  <2>2. QED
    BY <1>4, <2>1, Born DEF Orphans, SameRow, NoTriage
<1>5. CASE Forgets
  <2>1. ~Dead(n)
    BY <1>5 DEF Forgets, SameVisible, SameProcs, Dead
  <2>2. QED
    BY <1>5, <1>a, <2>1 DEF Forgets, SameRow, NoTriage, Dest
<1>6. CASE Finishes
  <2>1. ~(task.state # "cancelled" \/ ~NoTriage)
    BY <1>6, FinishEmpty
  <2>2. \A c \in Coroutine : Dest(c)' \notin InTriage
    BY <1>6, <2>1, FinishDest DEF NoTriage, InTriage
  <2>3. QED
    BY <1>6, <2>1, <2>2 DEF Finishes, SameRow, NoTriage
<1>7. CASE Outside
  <2>1. ~Dead(n)
    BY <1>7 DEF Outside, Dead
  <2>2. QED
    BY <1>7, <1>a, <2>1 DEF Outside, NoTriage, Dest, TERMINAL
<1>8. QED
  BY <1>1, <1>2, <1>3, <1>4, <1>5, <1>6, <1>7, KindsMove

LEMMA OneLiveStep ==
  ASSUME Safe, Kinds
  PROVE  OneLive'
<1>1. ASSUME \A n \in Attempt : ~Dead(n)' => ~Dead(n) PROVE OneLive'
  BY <1>1 DEF Safe, OneLive
<1>2. ASSUME NEW c \in Coroutine, Mover(c) PROVE OneLive'
  BY <1>1, <1>2 DEF Mover, Kept
<1>3. ASSUME NEW c \in Coroutine, Launches(c) PROVE OneLive'
  BY <1>1, <1>3, Begun DEF SameVisible, SameProcs, Dead
<1>4. ASSUME NEW c \in Coroutine, Registers(c) \/ Orphans(c) PROVE OneLive'
  BY <1>4, Birth DEF Registers, Orphans, OneLive, Dead
<1>5. CASE Forgets \/ Finishes \/ Outside
  <2>1. \A n \in Attempt : ~Dead(n)' => ~Dead(n)
    BY <1>5, Numbers DEF Forgets, Finishes, Outside, SameVisible, SameProcs, Dead
  <2>2. QED
    BY <1>1, <2>1
<1>6. QED
  BY <1>2, <1>3, <1>4, <1>5, KindsMove

LEMMA ReadersRegisteredStep ==
  ASSUME Safe, Kinds
  PROVE  ReadersRegistered'
<1> DEFINE Reader(n) ==
      /\ Follows(n) => Registered(n)
      /\ co[n].trig # "stalled"
      /\ co[n].pc = "teardown" /\ co[n].then = "lock" => co[n].trig # "asked"
      /\ co[n].pc = "teardown" /\ co[n].then = "eof" => "sdk_timeout" \in Lines
<1> SUFFICES ASSUME NEW n \in Attempt PROVE Reader(n)'
  BY DEF ReadersRegistered
<1>0. n \in Coroutine /\ n # Main /\ n # 0 /\ Reader(n)
  BY Numbers DEF Safe, ReadersRegistered
<1>1. ASSUME NEW c \in Coroutine, Mover(c) PROVE Reader(n)'
  <2>1. Registered(n) => Registered(n)'
    BY <1>1, Moved DEF Mover, Kept, Registered, Reaping
  <2>2. CASE c = n
    BY <1>0, <1>1, <2>1, <2>2 DEF Mover, Heeds
  <2>3. CASE c # n
    <3>1. co'[n] = co[n]
      BY <1>0, <1>1, <2>3, Moved
    <3>2. QED
      BY <1>0, <2>1, <3>1 DEF Follows
  <2>4. QED
    BY <2>2, <2>3
<1>2. ASSUME NEW c \in Coroutine, Launches(c) PROVE Reader(n)'
  <2>1. Registered(n) => Registered(n)'
    BY <1>2, Begun DEF Registered, Reaping
  <2>2. CASE c = n
    BY <1>0, <1>2, <2>2, Begun DEF Launches, Follows
  <2>3. CASE c # n
    <3>1. co'[n] = co[n]
      BY <1>0, <1>2, <2>3, Begun
    <3>2. QED
      BY <1>0, <2>1, <3>1 DEF Follows
  <2>4. QED
    BY <2>2, <2>3
<1>3. ASSUME NEW c \in Coroutine, Registers(c) \/ Orphans(c) PROVE Reader(n)'
  <2>1. ~Registered(n)
    BY <1>0, <1>3, Birth DEF Registered, Reaping
  <2>2. CASE n # c /\ co'[n] = co[n]
    BY <1>0, <2>1, <2>2 DEF Follows
  <2>3. CASE Registers(c) /\ n = co[c].new /\ co'[n] = Resting("read")
    <3>1. Registered(n)'
      BY <2>3 DEF Registers, Registered
    <3>2. QED
      BY <2>3, <3>1 DEF Resting
  <2>4. CASE n = c /\ co'[n].pc \in {"idle", "return", "raise"} /\ co'[n].trig = co[n].trig
    BY <1>0, <2>4 DEF Follows
  <2>5. QED
    BY <1>0, <1>3, <2>2, <2>3, <2>4, Born
<1>4. CASE Forgets
  <2>1. co' = co
    BY <1>4 DEF Forgets
  <2>2. Follows(n) => Registered(n)'
    <3>1. SUFFICES ASSUME Follows(n) PROVE Registered(n)'
      OBVIOUS
    <3>2. mem.reg = n
      BY <1>0, <1>4, <3>1 DEF Forgets, Registered, Reaping
    <3>3. td.owner # n
      BY <1>4, <3>1 DEF Safe, CleanupKnown, Forgets, Follows
    <3>4. QED
      BY <1>4, <3>2, <3>3 DEF Forgets, Registered, Reaping
  <2>3. QED
    BY <1>0, <2>1, <2>2 DEF Follows
<1>5. CASE Finishes
  <2>1. co'[n].pc # "teardown"
    BY <1>0, <1>5, FinishDest
  <2>2. CASE n \in Cancelled
    <3>1. co'[n] = Resting("off")
      BY <1>0, <1>5, <2>2, FinishDest
    <3>2. QED
      BY <3>1 DEF Follows, Resting
  <2>3. CASE n \notin Cancelled /\ co[n].pc # "teardown"
    <3>1. co'[n] = co[n]
      BY <1>0, <1>5, <2>3, FinishDest
    <3>2. ~Follows(n)
      <4>1. SUFFICES ASSUME Follows(n) PROVE FALSE
        OBVIOUS
      <4>2. td.proc = n /\ td.owner # n
        BY <1>0, <1>5, <4>1, FinishEmpty DEF Registered
      <4>3. co[n].pc # "off"
        BY <4>1 DEF Follows
      <4>4. QED
        BY <1>0, <2>3, <4>2, <4>3 DEF Cancelled
    <3>3. QED
      BY <1>0, <3>1, <3>2 DEF Follows
  <2>4. CASE n \notin Cancelled /\ co[n].pc = "teardown"
    <3>1. co[n].then \in After
      BY <1>0 DEF Safe, Typed, CoType
    <3>2. /\ co'[n].pc \in {co[n].then, "raise"} /\ co'[n].trig = co[n].trig
      BY <1>0, <1>5, <2>4, FinishDest DEF Dest
    <3>3. ~Follows(n)'
      BY <1>0, <2>4, <3>1, <3>2 DEF Follows, After
    <3>4. QED
      BY <1>0, <2>1, <3>2, <3>3
  <2>5. QED
    BY <2>2, <2>3, <2>4
<1>6. CASE Outside
  BY <1>0, <1>6 DEF Outside, Follows, Registered, Reaping
<1>7. QED
  BY <1>1, <1>2, <1>3, <1>4, <1>5, <1>6, KindsMove

LEMMA SlotKeptStep ==
  ASSUME Safe, Kinds
  PROVE  SlotKept'
<1>0. Typed /\ task.made \in Nat
  BY Row, Numbers DEF Safe
<1>1. ASSUME NEW c \in Coroutine, Mover(c) PROVE SlotKept'
  BY <1>1 DEF Safe, SlotKept, Mover, Kept
<1>2. ASSUME NEW c \in Coroutine, Begins(c) PROVE SlotKept'
  BY <1>0, <1>2 DEF Safe, SlotKept, Begins
<1>3. ASSUME NEW c \in Coroutine, GetsSlot(c) PROVE SlotKept'
  <2>1. co[c].new # 0
    BY <1>0, <1>3 DEF GetsSlot, Turn, Typed
  <2>2. QED
    BY <1>3, <2>1 DEF Safe, GetsSlot, SlotKept
<1>4. ASSUME NEW c \in Coroutine, Registers(c) PROVE SlotKept'
  BY <1>4, Birth, Numbers DEF Registers, SlotKept
<1>5. ASSUME NEW c \in Coroutine, Orphans(c) PROVE SlotKept'
  BY <1>5 DEF Safe, Orphans, SlotKept, SameRegistries
<1>6. CASE Forgets \/ Outside
  BY <1>6 DEF Safe, SlotKept, Forgets, Outside
<1>7. CASE Finishes
  BY <1>7, FinishEmpty DEF SlotKept, Finishes
<1>8. QED
  BY <1>1, <1>2, <1>3, <1>4, <1>5, <1>6, <1>7, KindsMove DEF Launches

LEMMA PoolAddsStep ==
  ASSUME Safe, Kinds
  PROVE  PoolAdds'
<1>0. /\ mem.free \in Int /\ mem.others \in Int /\ Slots \in Int /\ task.made \in Nat
      /\ infra \in BOOLEAN /\ Typed
  BY Row, RowShapes, Numbers, RuntimeAssumption DEF Safe, MemType
<1>1. ASSUME NEW c \in Coroutine, Mover(c) PROVE PoolAdds'
  BY <1>1 DEF Safe, PoolAdds, Occupied, Mover, Kept
<1>2. ASSUME NEW c \in Coroutine, Begins(c) PROVE PoolAdds'
  <2>1. mem.slot = 0
    <3>1. CASE c = Main /\ task.state = "queued" /\ co[c].pc = "idle"
      BY <3>1 DEF Safe, Fresh
    <3>2. CASE co[c].pc = "launch"
      BY <3>2 DEF Safe, StartsClean, Starting
    <3>3. QED
      BY <1>2, <3>1, <3>2 DEF Begins, Turn
  <2>1a. infra' = infra /\ mem'.others = mem.others
    BY <1>2 DEF Begins
  <2>1b. ~infra => mem.free + mem.others = Slots
    BY <1>0, <2>1 DEF Safe, PoolAdds, Occupied
  <2>2. CASE mem'.slot = mem.slot /\ mem'.free = mem.free
    BY <1>0, <2>1, <2>1a, <2>1b, <2>2 DEF PoolAdds, Occupied
  <2>3. CASE mem'.slot = task.made + 1 /\ mem'.free = mem.free - 1
    <3>1. mem'.slot # 0
      BY <1>0, <2>3
    <3>2. QED
      BY <1>0, <2>1a, <2>1b, <2>3, <3>1 DEF PoolAdds, Occupied
  <2>4. QED
    BY <1>2, <2>2, <2>3 DEF Begins
<1>3. ASSUME NEW c \in Coroutine, GetsSlot(c) PROVE PoolAdds'
  <2>1. mem.slot = 0 /\ co[c].new # 0
    BY <1>0, <1>3 DEF Safe, StartsClean, Starting, GetsSlot, Turn, Typed
  <2>2. QED
    BY <1>0, <1>3, <2>1 DEF Safe, PoolAdds, Occupied, GetsSlot
<1>4. ASSUME NEW c \in Coroutine, Registers(c) \/ Orphans(c) PROVE PoolAdds'
  BY <1>4 DEF Safe, PoolAdds, Occupied, Registers, Orphans, SameRegistries
<1>5. CASE Forgets \/ Outside
  BY <1>5 DEF Safe, PoolAdds, Occupied, Forgets, Outside
<1>6. CASE Finishes
  <2>1. CASE infra'
    BY <2>1 DEF PoolAdds
  <2>2. CASE ~infra' /\ mem.slot = 0
    BY <1>0, <1>6, <2>2 DEF Safe, PoolAdds, Occupied, SlotKept, Finishes, Taken
  <2>3. CASE ~infra' /\ mem.slot # 0
    <3>1. ~infra /\ mem.wt # 0
      BY <1>6, <2>3 DEF Finishes
    <3>2. QED
      BY <1>0, <1>6, <2>3, <3>1 DEF Safe, PoolAdds, Occupied, Finishes, Taken
  <2>4. QED
    BY <2>1, <2>2, <2>3
<1>7. QED
  BY <1>1, <1>2, <1>3, <1>4, <1>5, <1>6, KindsMove DEF Launches

LEMMA SettledCleanStep ==
  ASSUME Safe, Kinds, Unanswered'
  PROVE  SettledClean'
<1> SUFFICES ASSUME task'.state \in Over PROVE td'.phase # "none" \/ Emptied'
  BY DEF SettledClean, Over
<1>a. task.state \in Over => td.phase # "none" \/ Emptied
  BY DEF Safe, SettledClean, Over
<1>1. ASSUME NEW c \in Coroutine, Mover(c) PROVE td'.phase # "none" \/ Emptied'
  <2>1. task.state \in Over \/ td'.phase # "none"
    BY <1>1 DEF Mover, Locks
  <2>2. Emptied => Emptied'
    BY <1>1 DEF Mover, Kept, Emptied
  <2>3. QED
    BY <1>1, <1>a, <2>1, <2>2, Moved
<1>2. ASSUME NEW c \in Coroutine, Launches(c) PROVE FALSE
  BY <1>2, Begun DEF Over
<1>3. ASSUME NEW c \in Coroutine, Registers(c) \/ Orphans(c) PROVE FALSE
  BY <1>3, Birth DEF Registers, Orphans, SameRow, Over
<1>4. CASE Forgets
  BY <1>4 DEF Forgets
<1>5. CASE Finishes
  <2>1. task.state # "cancelled"
    BY <1>5 DEF Finishes, SameRow, Over
  <2>2. QED
    BY <1>5, <2>1, FinishEmpty DEF Finishes, Emptied
<1>6. CASE Outside
  <2>1. task.state \in Over
    BY <1>6 DEF Outside, Over
  <2>2. Emptied => Emptied'
    BY <1>6 DEF Outside, Emptied, Dead
  <2>3. QED
    BY <1>6, <1>a, <2>1, <2>2 DEF Outside
<1>7. QED
  BY <1>1, <1>2, <1>3, <1>4, <1>5, <1>6, KindsMove

LEMMA SafeStep ==
  ASSUME Safe, [Next]_vars, Unanswered'
  PROVE  Safe'
<1>1. CASE Next
  <2>1. Kinds /\ Typed'
    BY <1>1, Classified DEF Safe
  <2>2. Apart' /\ Counted' /\ Fresh' /\ TriageLocked' /\ StartsClean' /\ CleanupKnown'
    BY <2>1, ApartStep, CountedStep, FreshStep, TriageLockedStep, StartsCleanStep,
       CleanupKnownStep
  <2>3. DogLeaves' /\ LiveKnown' /\ OneLive' /\ CurrentKnown' /\ ReadersRegistered'
    BY <2>1, DogLeavesStep, LiveKnownStep, OneLiveStep, CurrentKnownStep,
       ReadersRegisteredStep
  <2>4. SlotKept' /\ PoolAdds' /\ SettledClean'
    BY <2>1, SlotKeptStep, PoolAddsStep, SettledCleanStep
  <2>5. QED
    BY <2>1, <2>2, <2>3, <2>4 DEF Safe
<1>2. CASE UNCHANGED vars
  <2>1. Typed'
    BY <1>2, StutterTyped DEF Safe
  <2>2. Apart' /\ Counted' /\ Fresh' /\ TriageLocked' /\ StartsClean' /\ CleanupKnown'
    BY <1>2 DEF vars, Safe, Apart, Counted, Fresh, Dead, TriageLocked, Dest, StartsClean,
       CleanupKnown
  <2>3. DogLeaves' /\ LiveKnown' /\ OneLive' /\ CurrentKnown'
    BY <1>2 DEF vars, Safe, DogLeaves, NoTriage, Dest, LiveKnown, OneLive, Dead, Reaping,
       CurrentKnown
  <2>4. ReadersRegistered' /\ SlotKept' /\ PoolAdds' /\ SettledClean'
    BY <1>2 DEF vars, Safe, ReadersRegistered, Follows, Registered, Reaping, SlotKept, PoolAdds,
       Occupied, SettledClean, Emptied, Dead
  <2>5. QED
    BY <2>1, <2>2, <2>3, <2>4 DEF Safe
<1>3. QED
  BY <1>1, <1>2

LEMMA InitSafe ==
  ASSUME Init
  PROVE  Safe
<1>0. Typed
  BY InitTyped
<1>1. /\ \A c \in Coroutine : co[c] = Resting(IF c \in Attempt THEN "off" ELSE "idle")
      /\ \A n \in Attempt : att[n].proc = "none" /\ att[n].verdict = "none"
  BY DEF Init
<1>2. /\ \A c \in Coroutine : co[c].pc \in {"off", "idle"} /\ Dest(c) \in {"off", "idle"}
                              /\ co[c].trig = "none"
      /\ co[Main].pc = "idle" /\ co[Dog].pc = "idle"
      /\ \A n \in Attempt : co[n].pc = "off" /\ Dead(n)
  <2>1. \A p : Resting(p).pc = p /\ Resting(p).trig = "none"
    BY DEF Resting
  <2>2. \A c \in Coroutine : co[c].pc = (IF c \in Attempt THEN "off" ELSE "idle")
                             /\ co[c].trig = "none"
    BY <1>1, <2>1
  <2>3. QED
    BY <1>1, <2>2, Numbers DEF Dest, Dead
<1>3. Apart /\ Counted /\ Fresh /\ TriageLocked /\ StartsClean /\ CleanupKnown
  BY <1>1, <1>2, RuntimeAssumption DEF Init, NoTeardown, Apart, Counted, Fresh, TriageLocked,
     InTriage, StartsClean, Starting, CleanupKnown
<1>4. DogLeaves /\ LiveKnown /\ OneLive /\ CurrentKnown
  BY <1>2, Numbers DEF Init, NoTeardown, DogLeaves, LiveKnown, OneLive, CurrentKnown, Reaping
<1>5. ReadersRegistered /\ SlotKept /\ PoolAdds /\ SettledClean
  BY <1>2, Numbers, RuntimeAssumption DEF Init, ReadersRegistered, Follows, SlotKept, PoolAdds,
     Occupied, SettledClean
<1>6. QED
  BY <1>0, <1>3, <1>4, <1>5 DEF Safe

LEMMA SafeHolds == Spec /\ []Unanswered => []Safe
<1>1. Init => Safe
  BY InitSafe
<1>2. Safe /\ [Next]_vars /\ Unanswered' => Safe'
  BY SafeStep
<1>3. QED
  BY <1>1, <1>2, PTL DEF Spec

\* While nobody answers an escalated task, two attempts of it never run at once:
\* a launch, which triage and the main loop may both do, begins only after the
\* cleanup has reaped what ran before (_launch, _teardown_owned).
THEOREM OneWorkerAtATime == Spec /\ []Unanswered => []OneLiveWorker
<1>1. Safe => OneLiveWorker
  <2> DEFINE alive == {n \in Attempt : att[n].proc = "live"}
  <2>1. SUFFICES ASSUME Safe PROVE Cardinality(alive) <= 1
    BY DEF OneLiveWorker
  <2>2. CASE alive = {}
    <3>1. Cardinality(alive) = 0
      BY <2>2, FS_EmptySet
    <3>2. QED
      BY <3>1
  <2>3. CASE alive # {}
    <3>1. PICK n \in Attempt : n \in alive
      BY <2>3
    <3>2. alive = {n}
      BY <2>1, <3>1 DEF Safe, OneLive, Dead
    <3>3. Cardinality(alive) = 1
      BY <3>2, FS_Singleton
    <3>4. QED
      BY <3>3
  <2>4. QED
    BY <2>2, <2>3
<1>2. QED
  BY <1>1, SafeHolds, PTL

\* Then a task that settled, and is not being cleaned up any more, holds no process,
\* registered attempt, lease or slot (_handle_triage, _teardown_owned).
THEOREM SettledIsAtRest == Spec /\ []Unanswered => []RestIsClean
<1>1. Safe => RestIsClean
  <2>1. SUFFICES ASSUME Safe, run = "on", ~infra, ~Busy, task.state \in SETTLED \ {"cancelled"}
                 PROVE  /\ \A n \in Attempt : att[n].proc # "live"
                        /\ mem.reg = 0 /\ mem.held = 0 /\ mem.slot = 0
                        /\ mem.free + mem.others = Slots
    BY DEF RestIsClean
  <2>2. Emptied
    BY <2>1 DEF Safe, SettledClean, Counted, Busy, SETTLED
  <2>3. mem.free \in Int /\ mem.others \in Int /\ Slots \in Int
    BY <2>1, RowShapes, RuntimeAssumption DEF Safe, MemType
  <2>4. mem.free + mem.others = Slots
    BY <2>1, <2>2, <2>3 DEF Safe, PoolAdds, Occupied, Emptied
  <2>5. QED
    BY <2>2, <2>4 DEF Emptied, Dead
<1>2. QED
  BY <1>1, SafeHolds, PTL

\* And a worker's exit is recorded against the attempt whose process it was, if no
\* worker reports an sdk_timeout, after which its watcher goes on (core.py:1002).
THEOREM ExitBlamed ==
  ASSUME "sdk_timeout" \notin Lines
  PROVE  Spec /\ []Unanswered => ExitBlamesItsAttempt
<1>1. Safe /\ [Next]_vars =>
        [\A n \in Attempt :
           (co[n].pc = "eof" /\ co'[n].trig \in {"exited", "crashed"} /\ co'[n].pc # "eof"
            /\ co'[n].pc # "return")
           => task.cur = n]_vars
  <2>1. SUFFICES ASSUME Safe, NEW n \in Attempt, co[n].pc = "eof" PROVE task.cur = n
    OBVIOUS
  <2>2. Registered(n)
    BY <2>1 DEF Safe, ReadersRegistered, Follows
  <2>3. QED
    BY <2>1, <2>2, Numbers DEF Safe, CurrentKnown, Registered
<1>2. QED
  BY <1>1, SafeHolds, PTL DEF Spec, ExitBlamesItsAttempt
-----------------------------------------------------------------------------
(* The order of what waits.                                                 *)

\* Whoever has the triage lock is in triage or on its way out of it.
Holder == lock # 0 => Dest(lock) \in InTriage \cup {"return", "raise"}

\* Whoever has the event loop does not wait.
Awake == cpu # 0 => co[cpu].pc \notin Waiting

\* No triage is under way while the task runs, is verified or delivered, but for the
\* last steps of the one that resumed it.
Undisturbed ==
  lock # 0 /\ task.state \in {"running", "verifying", "delivering"} =>
    /\ cpu = lock
    /\ \A n \in Attempt : co[n].pc # "reap"

\* Who came to the lock when it was free is in the event loop's queue.
Patient ==
  /\ \A c \in Coroutine :
       co[c].pc = "lock" /\ ~(c \in Attempt /\ co[c].trig = "asked")
       /\ task.state # "cancelled" /\ cpu # c
         => c \notin late
  /\ co[Dog].trig # "asked"

\* A triage that is due comes before the worker that claims to be done is reaped.
TriageFirst ==
  \A n \in Attempt, c \in Coroutine :
    co[n].pc = "reap" /\ task.state = "running" /\ co[c].pc = "lock" /\ cpu # c => n \in late

\* And who goes to triage after a cleanup is in the queue when that is over.
CleanupFirst ==
  \A c \in Coroutine :
    co[c].pc = "teardown" /\ co[c].then = "lock" =>
      /\ td.phase = "start" => mem.reg # 0
      /\ td.phase = "reap" /\ 0 \notin late => c \notin late

-----------------------------------------------------------------------------
(* What is known of the attempts. *)

\* Nothing is known of the attempts to come, and all but the first cost a retry.
Unused ==
  /\ \A m \in Attempt : m > task.cur => co[m].pc = "off" /\ att[m].verdict = "none"
  /\ task.cur > 1 => task.retries > 0

\* A relaunch is within the budget, and records one retry more than there were.
Affordable ==
  \A c \in Coroutine \ {Main} :
    Dest(c) \in Starting => BudgetLeft /\ co[c].paid = task.retries + 1

Unjudged == \A n \in Attempt : Follows(n) => att[n].verdict = "none"

\* Only the current attempt is verified and delivered, in the state that says so.
Verifying ==
  \A n \in Attempt :
    /\ Dest(n) \in {"begin", "verify"} =>
         n = task.cur /\ task.state \in {"verifying", "cancelled"} /\ att[n].verdict = "none"
    /\ Dest(n) = "verify" => co[n].arg = n
    /\ Dest(n) = "deliver" => /\ n = task.cur /\ task.state \in {"delivering", "cancelled"}
                              /\ att[n].verdict = "passed"

\* The cleanup in flight will cancel the watcher of n.
Doomed(n) == td.phase # "none" /\ td.owner # n /\ (mem.reg = n \/ td.proc = n)

\* Nobody is going to interrupt a verification or a delivery.
Alone ==
  \A n \in Attempt : Dest(n) \in {"begin", "verify", "deliver"} /\ task.state # "cancelled" =>
    \A c \in Coroutine : co[c].pc # "lock" /\ (Dest(c) = "lock" => Doomed(n))

\* Nothing follows the hand-off.
ShippedLast ==
  (\E n \in Attempt : att[n].verdict = "shipped") =>
    /\ task.state \in {"delivered", "cancelled"}
    /\ \A n \in Attempt : Dest(n) \notin {"begin", "verify", "deliver"}

Reaped ==
  task.state \in {"verifying", "delivering", "delivered"} => task.cur \in Attempt /\ Dead(task.cur)

Sound ==
  /\ Safe /\ Holder /\ Awake /\ Undisturbed /\ Patient /\ TriageFirst /\ CleanupFirst
  /\ Unused /\ Affordable /\ Unjudged /\ Verifying /\ Alone /\ ShippedLast /\ Reaped

-----------------------------------------------------------------------------
(* What a coroutine that goes from p to q does, unless a worker of its is    *)
(* registered then.                                                          *)

Calm(c) ==
  /\ mem'.reg = mem.reg /\ task'.cur = task.cur /\ task'.retries = task.retries
  /\ td' = td \/ (td.phase = "none" /\ td'.phase = "start")
  /\ task.cur \in Attempt /\ Dead(task.cur) => att'[task.cur].proc # "live"
  /\ c \in Attempt /\ Follows(c)' => Follows(c)
  /\ co'[Dog].trig = "asked" => co[Dog].trig = "asked"

Arrives(c, p, q) ==
  /\ q = "lock" =>
       /\ \/ p = "read" /\ c \in Attempt /\ co'[c].trig = "asked" /\ co'[c].pc = "lock"
          \/ p \in {"eof", "idle"} /\ task.state = "running"
          \/ p \in {"verify", "deliver"} /\ c \in Attempt
       /\ co'[c].pc = "teardown" => mem.reg # 0
  /\ q = "begin" => p = "reap" /\ c \in Attempt
  /\ q = "verify" => p = "begin" /\ c \in Attempt /\ co'[c].arg = task.cur
  /\ q = "deliver" => p = "verify" /\ c \in Attempt
  /\ q = "reap" => p = "read"
  /\ q \in Starting => \/ p \in Starting /\ co'[c].paid = co[c].paid
                       \/ BudgetLeft /\ co'[c].paid = task.retries + 1
                       \/ c = Main

Shifts(c, p, q) ==
  /\ \/ task'.state = task.state /\ q \notin {"begin", "deliver"}
     \/ /\ q = "begin" /\ task.state = "running" /\ task'.state = "verifying"
        /\ att'[c].proc # "live"
     \/ /\ q = "deliver" /\ task.state \in {"verifying", "needs_human"}
        /\ task'.state = "delivering"
        /\ task.cur \in Attempt => att'[task.cur].verdict = "passed"
     \/ /\ p = "deliver" /\ q = "return" /\ c \in Attempt
        /\ task.state = "delivering" /\ task'.state = "delivered"
        /\ task.cur \in Attempt => att'[task.cur].verdict = "shipped"
     \/ /\ p = "lock" /\ q = "policy" /\ lock = 0 /\ task'.state = "triage"
        /\ task.state \in {"running", "verifying", "delivering", "triage"}
     \/ /\ p \in {"policy", "supervise"} /\ q = "return" /\ task.state = "triage"
        /\ task'.state \in {"needs_human", "failed"}
     \/ /\ p = "supervise" /\ q \in {"idle", "read"} /\ lock = c /\ lock' = 0
        /\ task.state = "triage" /\ task'.state = "running" /\ BudgetLeft
        /\ co[c].trig = "asked" \/ (co[c].trig = "stalled" /\ Waits)
  /\ p = "deliver" /\ q # "lock" /\ task.state = "delivering" => task'.state = "delivered"

Keys(c, p, q) ==
  /\ \/ lock' = lock
     \/ lock = c /\ lock' = 0
     \/ lock = 0 /\ lock' = c /\ q = "policy" /\ task'.state = "triage"
  /\ lock' = c => q \in InTriage \cup {"return", "raise"}
  /\ lock = c /\ lock' = c => p \in InTriage

Judges(c, p, q) ==
  \A m \in Attempt : att'[m].verdict # att[m].verdict =>
    \/ /\ m = c /\ p = "read" /\ q \in {"eof", "return"}
       /\ att'[m].verdict = "infra" /\ ~Follows(c)'
    \/ /\ m = task.cur /\ c \in Attempt /\ p = "verify"
       /\ att'[m].verdict = IF q = "lock" THEN "failed" ELSE "passed"
    \/ /\ m = task.cur /\ c \in Attempt /\ p = "deliver"
       /\ att'[m].verdict = IF q = "lock" THEN "unfit" ELSE "shipped"

Goes(c, p, q) ==
  /\ Turn(c, p, q) /\ p \notin {"off", "dead", "teardown"} /\ q # "teardown"
  /\ Calm(c) /\ Arrives(c, p, q) /\ Shifts(c, p, q) /\ Keys(c, p, q) /\ Judges(c, p, q)

LEMMA MoverCalm ==
  ASSUME Safe, NEW c \in Coroutine, Mover(c), task'.retries = task.retries,
         c = Dog => co'[c].trig \in {co[c].trig, "none", "timeout", "stalled"}
  PROVE  Calm(c)
<1>1. mem'.reg = mem.reg /\ task'.cur = task.cur
      /\ \A n \in Attempt : Dead(n) => att'[n].proc # "live"
  BY DEF Mover, Kept, Dead
<1>2. td' = td \/ (td.phase = "none" /\ td'.phase = "start")
  BY DEF Mover, Asks, NoCall, Calls
<1>3. c \in Attempt /\ Follows(c)' => Follows(c)
  BY DEF Mover, Heeds
<1>4. co'[Dog].trig = "asked" => co[Dog].trig = "asked"
  BY Moved, Numbers
<1>5. QED
  BY <1>1, <1>2, <1>3, <1>4 DEF Calm

\* Who has the lock is at a place where it may be.
LEMMA LockPlace ==
  ASSUME Sound, NEW c \in Coroutine, NEW p, NEW q, Turn(c, p, q), p # "teardown", lock = c
  PROVE  p \in InTriage \cup {"return", "raise"}
BY Numbers DEF Sound, Holder, Turn, Dest

LEMMA SameJudged ==
  ASSUME SameVerdicts
  PROVE  \A c, p, q : Judges(c, p, q)
BY DEF SameVerdicts, Judges

LEMMA LaunchGoes ==
  ASSUME Sound, NEW c \in Coroutine, Launches(c)
  PROVE  \E p, q : Goes(c, p, q)
<1>1. PICK p \in {"idle", "launch", "slot"}, q \in {"slot", "spawn"} : Turn(c, p, q)
  BY DEF Launches
<1>2. /\ SameVisible /\ lock' = lock /\ mem'.reg = mem.reg /\ td' = td
      /\ task'.state = task.state /\ co'[c].trig = co[c].trig
      /\ \A d \in Coroutine \ {c} : co'[d] = co[d]
      /\ c = Main \/ Dest(c) \in InTriage
  BY Begun DEF Sound
<1>3. task'.cur = task.cur /\ task'.retries = task.retries
  BY DEF Launches, Begins, GetsSlot, SameRow
<1>4. Calm(c)
  <2>1. ~Follows(c)'
    BY DEF Launches, Follows
  <2>2. co'[Dog].trig = co[Dog].trig
    BY <1>2, Numbers
  <2>3. QED
    BY <1>2, <1>3, <2>1, <2>2 DEF Calm, SameVisible, SameProcs, Dead
<1>5. Arrives(c, p, q)
  <2>1. p \in Starting \/ c = Main
    BY <1>1, <1>2 DEF Starting, Turn, Dest, InTriage
  <2>2. co'[c].paid = co[c].paid
    <3>1. CASE Begins(c)
      BY <3>1 DEF Begins
    <3>2. CASE GetsSlot(c)
      BY <3>2 DEF GetsSlot, Keeps
    <3>3. QED
      BY <3>1, <3>2 DEF Launches
  <2>3. q \notin {"lock", "begin", "verify", "deliver", "reap"}
    BY <1>1
  <2>4. QED
    BY <2>1, <2>2, <2>3 DEF Arrives
<1>6. Shifts(c, p, q) /\ Judges(c, p, q)
  BY <1>1, <1>2, SameJudged DEF Shifts, SameVisible
<1>6a. Keys(c, p, q)
  <2>1. lock = c => p \in InTriage
    <3>1. c = Main => lock = 0
      BY Begun, <1>1 DEF Sound, Safe, Fresh, Unborn, Dest, Apart, InTriage, Turn
    <3>2. QED
      BY <1>1, <1>2, <3>1, Numbers DEF Turn, Dest, InTriage
  <2>2. QED
    BY <1>1, <1>2, <2>1 DEF Keys, InTriage
<1>7. QED
  BY <1>1, <1>4, <1>5, <1>6, <1>6a DEF Goes

LEMMA UnbornGoes ==
  ASSUME Sound, NEW c \in Coroutine, Orphans(c) \/ Misfires(c)
  PROVE  \E p, q : Goes(c, p, q)
<1>1. /\ Turn(c, "spawn", "raise") /\ NoCall(c) /\ Keeps(c, co[c]) /\ SameRow
      /\ SameVerdicts /\ lock' = lock /\ mem'.reg = mem.reg
  BY DEF Orphans, Misfires, SameVisible, SameRegistries
<1>2. Calm(c)
  <2>1. ~Follows(c)'
    BY <1>1 DEF Turn, NoCall, Follows
  <2>2. co'[Dog].trig = co[Dog].trig
    BY <1>1, Numbers DEF Turn, Keeps
  <2>3. task.cur \in Attempt /\ Dead(task.cur) => att'[task.cur].proc # "live"
    <3>1. CASE Misfires(c)
      BY <3>1 DEF Misfires, SameVisible, SameProcs, Dead
    <3>2. CASE Orphans(c)
      <4>1. task.cur < co[c].new /\ task.cur \in Nat
        BY <1>1, Row, Numbers DEF Sound, Safe, StartsClean, Starting, Turn
      <4>2. task.cur # co[c].new
        BY <3>2, <4>1, Numbers DEF Orphans
      <4>3. QED
        BY <3>2, <4>2 DEF Orphans, Dead
    <3>3. QED
      BY <3>1, <3>2
  <2>4. QED
    BY <1>1, <2>1, <2>2, <2>3 DEF Calm, NoCall, SameRow
<1>3. Arrives(c, "spawn", "raise") /\ Shifts(c, "spawn", "raise") /\ Keys(c, "spawn", "raise")
      /\ Judges(c, "spawn", "raise")
  BY <1>1, SameJudged DEF Arrives, Starting, Shifts, Keys, InTriage, SameRow
<1>4. QED
  BY <1>1, <1>2, <1>3 DEF Goes

LEMMA EntersGoes ==
  ASSUME Sound, NEW c \in Coroutine, Enters(c)
  PROVE  \E p, q : Goes(c, p, q)
<1>1. PICK q \in {"return", "policy", "raise"} :
        /\ Turn(c, "lock", q)
        /\ q # "policy" => lock' = lock /\ task'.state = task.state
        /\ q = "policy" => /\ lock' = c /\ task'.state = "triage"
                           /\ task.state \in {"running", "verifying", "delivering", "triage"}
  BY DEF Enters
<1>2. Calm(c)
  <2>1. Mover(c) /\ task'.retries = task.retries /\ co'[c].trig = co[c].trig
    BY EntersMove DEF Sound, Enters, SameAttempt, Keeps
  <2>2. QED
    BY <2>1, MoverCalm DEF Sound
<1>3. Arrives(c, "lock", q) /\ Shifts(c, "lock", q)
  BY <1>1 DEF Arrives, Shifts, Starting, Enters
<1>4. Keys(c, "lock", q)
  BY <1>1, Numbers DEF Keys, InTriage, Enters
<1>5. Judges(c, "lock", q)
  BY SameJudged DEF Enters, SameVisible
<1>6. QED
  BY <1>1, <1>2, <1>3, <1>4, <1>5 DEF Goes

LEMMA DecidesGoes ==
  ASSUME Sound, NEW c \in Coroutine, Decides(c)
  PROVE  \E p, q : Goes(c, p, q)
<1>1. PICK p \in {"policy", "supervise"} : Decision(c, p)
  BY DEF Decides
<1>2. SameAttempt /\ SameVerdicts
  BY DEF Decides, SameVisible
<1>3. co[c].pc = p
  BY <1>1 DEF Decision, Turn
<1>4. c # Main /\ lock = c /\ task.state \in {"triage", "cancelled"}
  <2>1. c # Main
    BY <1>3 DEF Sound, Safe, Apart
  <2>2. Dest(c) \in InTriage
    BY <1>3 DEF Dest, InTriage
  <2>3. QED
    BY <2>1, <2>2, HasLock DEF Sound
<1>5. Calm(c)
  <2>1. Mover(c) /\ task'.retries = task.retries
    BY DecidesMove DEF Sound, Decides, SameAttempt
  <2>2. co'[c].trig \in {co[c].trig, "none"}
    BY <1>1, Mine DEF Decision, Keeps, Sound, Safe
  <2>3. QED
    BY <2>1, <2>2, MoverCalm DEF Sound
<1>6. CASE /\ Turn(c, p, "launch") /\ BudgetLeft /\ co'[c].paid = task.retries + 1
           /\ task'.state = task.state /\ lock' = lock
  <2>1. Arrives(c, p, "launch") /\ Shifts(c, p, "launch") /\ Keys(c, p, "launch")
        /\ Judges(c, p, "launch")
    BY <1>2, <1>6, SameJudged DEF Arrives, Shifts, Keys, InTriage
  <2>2. QED
    BY <1>1, <1>5, <1>6, <2>1 DEF Goes
<1>7. CASE /\ Turn(c, p, "return") /\ task.state = "triage"
           /\ task'.state \in {"needs_human", "failed"} /\ lock' = lock
  <2>1. Arrives(c, p, "return") /\ Shifts(c, p, "return") /\ Keys(c, p, "return")
        /\ Judges(c, p, "return")
    BY <1>2, <1>7, SameJudged DEF Arrives, Shifts, Keys, InTriage, Starting
  <2>2. QED
    BY <1>1, <1>5, <1>7, <2>1 DEF Goes
<1>8. CASE (\E q \in {"raise", "supervise"} : Turn(c, p, q)) /\ task'.state = task.state /\ lock' = lock
  <2>1. PICK q \in {"raise", "supervise"} : Turn(c, p, q)
    BY <1>8
  <2>2. Arrives(c, p, q) /\ Shifts(c, p, q) /\ Keys(c, p, q) /\ Judges(c, p, q)
    BY <1>2, <1>8, SameJudged DEF Arrives, Shifts, Keys, InTriage, Starting
  <2>3. QED
    BY <1>1, <1>5, <2>1, <2>2 DEF Goes
<1>9. CASE /\ p = "supervise" /\ (\E q \in {"idle", "read"} : Turn(c, p, q)) /\ BudgetLeft
           /\ Legal(task.state, "running") /\ task'.state = "running"
           /\ lock' = (IF lock = c THEN 0 ELSE lock)
           /\ (co[c].trig = "asked" \/ (co[c].trig = "stalled" /\ Waits))
  <2>1. PICK q \in {"idle", "read"} : Turn(c, p, q)
    BY <1>9
  <2>2. task.state = "triage"
    BY <1>4, <1>9, Edges, States
  <2>3. lock' = 0 /\ c # 0
    BY <1>4, <1>9, Numbers
  <2>4. Arrives(c, p, q) /\ Judges(c, p, q)
    BY <1>2, SameJudged DEF Arrives, Starting
  <2>5. Shifts(c, p, q) /\ Keys(c, p, q)
    BY <1>4, <1>9, <2>2, <2>3 DEF Shifts, Keys
  <2>6. QED
    BY <1>1, <1>5, <2>1, <2>4, <2>5 DEF Goes
<1>10. QED
  BY <1>1, <1>6, <1>7, <1>8, <1>9 DEF Decision

LEMMA LeavesGoes ==
  ASSUME Sound, NEW c \in Coroutine, Leaves(c)
  PROVE  \E p, q : Goes(c, p, q)
<1>1. PICK p \in {"return", "raise"} : \E q \in {"off", "idle", "dead", "stop"} : Turn(c, p, q)
  BY DEF Leaves
<1>2. PICK q \in {"off", "idle", "dead", "stop"} : Turn(c, p, q)
  BY <1>1
<1>3. /\ SameRow /\ SameVerdicts /\ lock' = (IF lock = c THEN 0 ELSE lock)
      /\ Keeps(c, Resting("x")) /\ c # 0
  BY Numbers DEF Leaves, SameVisible
<1>4. Calm(c)
  <2>1. Mover(c) /\ task'.retries = task.retries
    BY <1>3, LeavesMove DEF Sound, SameRow
  <2>2. co'[c].trig = "none"
    BY <1>3, Mine DEF Keeps, Sound, Safe
  <2>3. QED
    BY <2>1, <2>2, MoverCalm DEF Sound
<1>5. Arrives(c, p, q) /\ Shifts(c, p, q) /\ Keys(c, p, q) /\ Judges(c, p, q)
  BY <1>3, SameJudged DEF Arrives, Starting, Shifts, Keys, SameRow
<1>6. QED
  BY <1>2, <1>4, <1>5 DEF Goes

LEMMA ReadsGoes ==
  ASSUME Sound, NEW n \in Attempt, ReadsLine(n)
  PROVE  \E p, q : Goes(n, p, q)
<1>0. n \in Coroutine /\ n # Dog
  BY Numbers
<1>1. SameRow /\ lock' = lock /\ \A m \in Attempt \ {n} : att'[m].verdict = att[m].verdict
  BY DEF ReadsLine
<1>2. PICK q \in {"read", "reap", "eof", "lock", "return"} :
        /\ Turn(n, "read", q)
        /\ \/ att'[n].verdict = att[n].verdict
           \/ att'[n].verdict = "infra" /\ q \in {"eof", "return"}
              /\ (q = "eof" => "sdk_timeout" \in Lines)
        /\ q = "lock" => NoCall(n) /\ co'[n].trig = "asked"
  BY DEF ReadsLine
<1>3. Calm(n)
  BY <1>0, <1>1, ReadsMove, MoverCalm DEF Sound, SameRow
<1>4. Arrives(n, "read", q) /\ Shifts(n, "read", q)
  BY <1>1, <1>2 DEF Arrives, Starting, Shifts, SameRow, Turn, NoCall
<1>5. Keys(n, "read", q)
  BY <1>0, <1>1, <1>2, LockPlace DEF Keys, InTriage
<1>6. Judges(n, "read", q)
  <2>1. q \in {"eof", "return"} /\ (q = "eof" => "sdk_timeout" \in Lines) => ~Follows(n)'
    BY <1>2 DEF Turn, Follows
  <2>2. QED
    BY <1>1, <1>2, <2>1 DEF Judges
<1>7. QED
  BY <1>2, <1>3, <1>4, <1>5, <1>6 DEF Goes

LEMMA EndsGoes ==
  ASSUME Sound, NEW n \in Attempt, Ends(n)
  PROVE  \E p, q : Goes(n, p, q)
<1>0. n \in Coroutine /\ n # Dog /\ n # 0
  BY Numbers
<1>1. SameRow /\ lock' = lock /\ SameVerdicts
  BY DEF Ends, SameVisible
<1>2. PICK q \in {"lock", "return"} :
        Turn(n, "eof", q) /\ (q = "lock" => Calls(n, n) /\ task.state = "running")
  BY DEF Ends
<1>3. Calm(n)
  BY <1>0, <1>1, EndsMove, MoverCalm DEF Sound, SameRow
<1>4. Arrives(n, "eof", q) /\ Shifts(n, "eof", q)
  BY <1>0, <1>1, <1>2 DEF Arrives, Starting, Shifts, SameRow, Calls
<1>5. Keys(n, "eof", q) /\ Judges(n, "eof", q)
  BY <1>0, <1>1, <1>2, LockPlace, SameJudged DEF Keys, InTriage
<1>6. QED
  BY <1>2, <1>3, <1>4, <1>5 DEF Goes

LEMMA ReapsGoes ==
  ASSUME Sound, NEW n \in Attempt, Reaps(n)
  PROVE  \E p, q : Goes(n, p, q)
<1>0. n \in Coroutine /\ n # Dog
  BY Numbers
<1>1. SameAttempt /\ lock' = lock /\ SameVerdicts /\ att'[n].proc # "live"
  BY DEF Reaps
<1>2. PICK q \in {"begin", "raise"} :
        /\ Turn(n, "reap", q)
        /\ q = "begin" => task.state = "running" /\ task'.state = "verifying"
        /\ q = "raise" => task'.state = task.state
  BY DEF Reaps
<1>3. Calm(n)
  BY <1>0, <1>1, ReapsMove, MoverCalm DEF Sound, SameAttempt
<1>4. Arrives(n, "reap", q) /\ Shifts(n, "reap", q)
  BY <1>1, <1>2 DEF Arrives, Starting, Shifts
<1>5. Keys(n, "reap", q) /\ Judges(n, "reap", q)
  BY <1>0, <1>1, <1>2, LockPlace, SameJudged DEF Keys, InTriage
<1>6. QED
  BY <1>2, <1>3, <1>4, <1>5 DEF Goes

LEMMA OpensGoes ==
  ASSUME Sound, NEW n \in Attempt, Opens(n)
  PROVE  \E p, q : Goes(n, p, q)
<1>0. n \in Coroutine /\ n # Dog
  BY Numbers
<1>1. /\ SameRow /\ lock' = lock /\ SameVerdicts
      /\ Turn(n, "begin", "verify") /\ co'[n].arg = task.cur
  BY DEF Opens, SameVisible
<1>2. Calm(n)
  BY <1>0, <1>1, OpensMove, MoverCalm DEF Sound, SameRow
<1>3. Arrives(n, "begin", "verify") /\ Shifts(n, "begin", "verify")
  BY <1>1 DEF Arrives, Starting, Shifts, SameRow
<1>4. Keys(n, "begin", "verify") /\ Judges(n, "begin", "verify")
  BY <1>0, <1>1, LockPlace, SameJudged DEF Keys, InTriage
<1>5. QED
  BY <1>1, <1>2, <1>3, <1>4 DEF Goes

LEMMA VerifiesGoes ==
  ASSUME Sound, NEW n \in Attempt, Verifies(n)
  PROVE  \E p, q : Goes(n, p, q)
<1>0. n \in Coroutine /\ n # Dog
  BY Numbers
<1>0a. co[n].arg = task.cur
  BY DEF Verifies, Turn, Dest, Sound, Verifying
<1>1. /\ SameAttempt /\ lock' = lock /\ NoCall(n)
      /\ \A m \in Attempt \ {task.cur} : att'[m].verdict = att[m].verdict
  BY <1>0a DEF Verifies
<1>2. PICK q \in {"deliver", "raise", "lock"} :
        /\ Turn(n, "verify", q)
        /\ q = "deliver" => task.state \in {"verifying", "needs_human"}
                            /\ task'.state = "delivering"
        /\ q # "deliver" => task'.state = task.state
        /\ task.cur \in Attempt =>
             att'[task.cur].verdict = IF q = "lock" THEN "failed" ELSE "passed"
  BY <1>0a DEF Verifies
<1>3. Calm(n)
  BY <1>0, <1>1, VerifiesMove, MoverCalm DEF Sound, SameAttempt
<1>4. Arrives(n, "verify", q) /\ Shifts(n, "verify", q)
  BY <1>1, <1>2 DEF Arrives, Starting, Shifts, Turn, NoCall
<1>5. Keys(n, "verify", q)
  BY <1>0, <1>1, <1>2, LockPlace DEF Keys, InTriage
<1>6. Judges(n, "verify", q)
  BY <1>1, <1>2 DEF Judges
<1>7. QED
  BY <1>2, <1>3, <1>4, <1>5, <1>6 DEF Goes

LEMMA HandsOverGoes ==
  ASSUME Sound, NEW n \in Attempt, HandsOver(n)
  PROVE  \E p, q : Goes(n, p, q)
<1>0. n \in Coroutine /\ n # Dog
  BY Numbers
<1>1. /\ SameAttempt /\ lock' = lock /\ NoCall(n)
      /\ \A m \in Attempt \ {task.cur} : att'[m].verdict = att[m].verdict
  BY DEF HandsOver
<1>2. PICK q \in {"lock", "return", "raise"} :
        /\ Turn(n, "deliver", q)
        /\ q = "return" => task.state = "delivering" /\ task'.state = "delivered"
        /\ q # "return" => task'.state = task.state
        /\ q = "raise" => task.state # "delivering"
        /\ task.cur \in Attempt =>
             \/ q = "lock" /\ att'[task.cur].verdict \in {att[task.cur].verdict, "unfit"}
             \/ q # "lock" /\ att'[task.cur].verdict = "shipped"
  BY DEF HandsOver
<1>3. Calm(n)
  BY <1>0, <1>1, VerifiesMove, MoverCalm DEF Sound, SameAttempt
<1>4. Arrives(n, "deliver", q) /\ Shifts(n, "deliver", q)
  BY <1>1, <1>2 DEF Arrives, Starting, Shifts, Turn, NoCall
<1>5. Keys(n, "deliver", q)
  BY <1>0, <1>1, <1>2, LockPlace DEF Keys, InTriage
<1>6. Judges(n, "deliver", q)
  BY <1>1, <1>2 DEF Judges
<1>7. QED
  BY <1>2, <1>3, <1>4, <1>5, <1>6 DEF Goes

LEMMA SweepsGoes ==
  ASSUME Sound, Sweeps
  PROVE  \E p, q : Goes(Dog, p, q)
<1>0. Dog \in Coroutine
  BY Numbers
<1>1. /\ SameRow /\ lock' = lock /\ SameVerdicts
      /\ Turn(Dog, "idle", "lock") /\ task.state = "running"
      /\ co'[Dog].pc = "teardown" => mem.reg # 0
      /\ co'[Dog].trig \in {"timeout", "stalled"}
  BY DEF Sweeps, SameVisible, NoCall
<1>2. Calm(Dog)
  BY <1>0, <1>1, SweepsMove, MoverCalm DEF Sound, SameRow
<1>3. Arrives(Dog, "idle", "lock") /\ Shifts(Dog, "idle", "lock")
  BY <1>1 DEF Arrives, Starting, Shifts, SameRow
<1>4. Keys(Dog, "idle", "lock") /\ Judges(Dog, "idle", "lock")
  BY <1>0, <1>1, LockPlace, SameJudged DEF Keys, InTriage
<1>5. QED
  BY <1>1, <1>2, <1>3, <1>4 DEF Goes

\* Every step, as the rest of this module looks at it.
LEMMA Courses ==
  ASSUME Sound, Kinds
  PROVE  \/ \E c \in Coroutine : (\E p, q : Goes(c, p, q)) \/ Registers(c)
         \/ Forgets \/ Finishes \/ Outside
<1>1. ASSUME NEW c \in Coroutine, Begins(c) \/ GetsSlot(c)
      PROVE  \E p, q : Goes(c, p, q)
  <2>1. Launches(c)
    BY <1>1 DEF Launches, Begins, GetsSlot, NoCall, Turn
  <2>2. QED
    BY <2>1, LaunchGoes
<1>2. QED
  BY <1>1, UnbornGoes, EntersGoes, DecidesGoes, LeavesGoes, ReadsGoes, EndsGoes, ReapsGoes,
     OpensGoes, VerifiesGoes, HandsOverGoes, SweepsGoes, Numbers, NeverAborts DEF Kinds, Sound
-----------------------------------------------------------------------------
(* What each kind of step leaves behind. *)

LEMMA Went ==
  ASSUME Sound, NEW c \in Coroutine, NEW p, NEW q, Goes(c, p, q)
  PROVE  /\ co[c].pc = p /\ Dest(c) = p /\ Dest(c)' = q /\ co'[c].pc \in {q, "teardown"}
         /\ \A d \in Coroutine \ {c} : co'[d] = co[d] /\ Dest(d)' = Dest(d)
         /\ cpu \in {0, c} /\ cpu' \in {0, c} /\ late' \subseteq late \cup {c}
         /\ td.phase # "none" => td' = td
         /\ lock' \in {lock, 0, c}
         /\ p \notin {"off", "dead", "teardown"} /\ q # "teardown"
<1>1. Turn(c, p, q) /\ p \notin {"off", "dead", "teardown"} /\ q # "teardown"
  BY DEF Goes
<1>2. co[c].pc = p /\ Dest(c) = p /\ Dest(c)' = q /\ co'[c].pc \in {q, "teardown"}
  BY <1>1, TurnDest DEF Turn
<1>3. \A d \in Coroutine \ {c} : co'[d] = co[d] /\ Dest(d)' = Dest(d)
  BY <1>1 DEF Turn, Dest
<1>4. cpu \in {0, c} /\ cpu' \in {0, c} /\ late' \subseteq late \cup {c}
  BY <1>1 DEF Turn, Yields, QueuedBehind
<1>5. (td.phase # "none" => td' = td) /\ lock' \in {lock, 0, c}
  BY DEF Goes, Calm, Keys
<1>6. QED
  BY <1>1, <1>2, <1>3, <1>4, <1>5

\* A worker is registered by the main loop, for a task that never had one, or by the
\* triage that has the lock; its watcher is new, and nobody else is watching.
LEMMA Hatched ==
  ASSUME Sound, NEW c \in Coroutine, Registers(c)
  PROVE  \E n \in Attempt :
         /\ n # c /\ task'.cur = n /\ task.cur < n /\ co[n].pc = "off"
         /\ att[n].verdict = "none" /\ (c = Main => n = 1)
         /\ co'[c].pc = (IF c = Main THEN "idle" ELSE "return") /\ co'[c].trig = co[c].trig
         /\ co'[n] = Resting("read")
         /\ \A d \in Coroutine \ {c, n} : co'[d] = co[d] /\ Dest(d)' = Dest(d)
         /\ Dest(c)' = co'[c].pc /\ Dest(n)' = "read" /\ Dest(c) = "spawn"
         /\ task.state \in {"queued", "triage"} /\ task'.state = "running"
         /\ task'.retries = (IF c = Main THEN task.retries ELSE task.retries + 1)
         /\ td.phase = "none" /\ td' = td /\ lock' = lock /\ mem.reg = 0
         /\ \A m \in Attempt : ~Follows(m)
         /\ \A d \in Coroutine : co[d].pc # "teardown"
         /\ \/ c = Main /\ lock = 0 /\ task.cur = 0 /\ task.state = "queued"
            \/ c # Main /\ lock = c /\ cpu' = c /\ task.state = "triage"
         /\ cpu \in {0, c} /\ SameVerdicts
<1>0. PICK n \in Attempt : n = co[c].new
  BY DEF Registers
<1>1. /\ co[c].pc = "spawn" /\ n \in Attempt
      /\ Legal(task.state, "running") /\ task'.state = "running" /\ task'.cur = n
      /\ task'.retries = (IF c = Main THEN task.retries ELSE co[c].paid)
      /\ \A d \in Coroutine \ {c, n} : co'[d] = co[d]
      /\ co'[n] = Resting("read")
      /\ c # n => /\ co'[c].pc = (IF c = Main THEN "idle" ELSE "return")
                  /\ co'[c].trig = co[c].trig
      /\ lock' = lock /\ SameVerdicts /\ cpu \in {0, c}
      /\ c # Main => cpu' = c
  BY <1>0 DEF Registers
<1>2. n = task.made /\ task.cur < task.made /\ n \in Nat /\ task.cur \in Nat
  BY <1>0, <1>1, Numbers, Row DEF Sound, Safe, StartsClean, Starting
<1>3. co[n].pc = "off" /\ att[n].verdict = "none" /\ n # c
  BY <1>1, <1>2 DEF Sound, Unused
<1>4. /\ mem.reg = 0 /\ td.phase = "none" /\ td' = td
      /\ task.state \in {"queued", "triage", "cancelled"}
  BY Birth DEF Sound
<1>5. task.state \in {"queued", "triage"}
  BY <1>1, <1>4, Edges, States
<1>6. \A m \in Attempt : ~Follows(m)
  <2>1. \A m \in Attempt : ~Registered(m)
    BY <1>4, Numbers DEF Registered, Reaping
  <2>2. QED
    BY <2>1 DEF Sound, Safe, ReadersRegistered
<1>7. \A d \in Coroutine : co[d].pc # "teardown"
  BY <1>4 DEF Sound, Safe, CleanupKnown
<1>8. /\ \/ c = Main /\ lock = 0 /\ task.cur = 0 /\ task.state = "queued"
         \/ c # Main /\ lock = c /\ cpu' = c /\ task.state = "triage"
      /\ c = Main => n = 1
  <2>1. CASE c = Main
    BY <1>1, <1>2, <1>5, <2>1 DEF Sound, Safe, Fresh
  <2>2. CASE c # Main
    <3>1. Dest(c) \in InTriage
      BY <1>1 DEF Dest, InTriage
    <3>2. QED
      BY <1>1, <1>5, <2>2, <3>1, HasLock DEF Sound
  <2>3. QED
    BY <2>1, <2>2
<1>9. /\ \A d \in Coroutine \ {c, n} : Dest(d)' = Dest(d)
      /\ Dest(c)' = co'[c].pc /\ Dest(n)' = "read" /\ Dest(c) = "spawn"
  <2>1. \A d \in Coroutine \ {c, n} : Dest(d)' = Dest(d)
    BY <1>1 DEF Dest
  <2>2. co'[c].pc \in {"idle", "return"}
    BY <1>1, <1>3
  <2>3. Dest(c)' = co'[c].pc /\ Dest(c) = "spawn"
    BY <1>1, <2>2 DEF Dest
  <2>4. Dest(n)' = "read"
    BY <1>1 DEF Dest, Resting
  <2>5. QED
    BY <2>1, <2>3, <2>4
<1>10. c # Main => co[c].paid = task.retries + 1
  BY <1>9 DEF Sound, Affordable, Starting
<1>11. QED
  BY <1>1, <1>2, <1>3, <1>4, <1>5, <1>6, <1>7, <1>8, <1>9, <1>10

\* When a cleanup ends nobody follows a stream any more, and nobody wakes up in triage
\* that had not been on its way there.
LEMMA Finished ==
  ASSUME Sound, Finishes
  PROVE  /\ \A n \in Attempt : ~Follows(n)'
         /\ \A n \in Attempt : Doomed(n) => Dest(n)' = "off"
         /\ task'.state = task.state /\ task'.cur = task.cur /\ task'.retries = task.retries
         /\ cpu = 0 /\ cpu' = 0 /\ SameVerdicts /\ late' \subseteq late
         /\ lock' \in {lock, 0}
<1>1. /\ cpu = 0 /\ cpu' = 0 /\ SameVerdicts /\ late' \subseteq late
      /\ task'.state = task.state /\ task'.cur = task.cur /\ task'.retries = task.retries
      /\ lock' \in {lock, 0}
  BY DEF Finishes, SameRow
<1>2. ASSUME NEW n \in Attempt, Doomed(n) PROVE Dest(n)' = "off"
  <2>1. CASE co[n].pc = "off"
    <3>1. Dest(n) = "off"
      BY <2>1 DEF Dest
    <3>2. QED
      BY <2>1, <3>1, FinishDest, Numbers DEF Sound
  <2>2. CASE co[n].pc # "off"
    <3>1. td.phase = "reap" /\ td.proc = n
      BY <1>2, Numbers, FinishEmpty DEF Doomed, Finishes, Sound, Safe, CleanupKnown
    <3>2. n \in Cancelled
      BY <1>2, <2>2, <3>1, Numbers DEF Cancelled, Doomed
    <3>3. QED
      BY <3>2, FinishDest, Numbers DEF Sound
  <2>3. QED
    BY <2>1, <2>2
<1>3. ASSUME NEW n \in Attempt, Follows(n)' PROVE FALSE
  <2>1. mem'.reg = 0 /\ td'.phase = "none"
    BY FinishEmpty DEF Sound, Finishes, NoTeardown
  <2>2. CASE co[n].pc # "teardown" /\ n \notin Cancelled
    <3>1. Follows(n)
      BY <1>3, <2>2, FinishDest, Numbers DEF Sound, Follows
    <3>2. Registered(n)
      BY <3>1 DEF Sound, Safe, ReadersRegistered
    <3>3. Reaping /\ td.proc = n /\ td.owner # n /\ n # 0
      BY <3>2, FinishEmpty, Numbers DEF Registered, Sound
    <3>4. co[n].pc # "off"
      BY <3>1 DEF Follows
    <3>5. QED
      BY <2>2, <3>3, <3>4 DEF Cancelled
  <2>3. CASE n \in Cancelled
    BY <1>3, <2>3, FinishDest, Numbers DEF Sound, Follows, Resting
  <2>4. CASE co[n].pc = "teardown" /\ n \notin Cancelled
    <3>1. Dest(n) = co[n].then /\ co[n].then # "none" /\ co'[n].pc = Dest(n)'
          /\ (Dest(n)' = Dest(n) \/ Dest(n)' = "raise") /\ co'[n].trig = co[n].trig
      BY <2>4, FinishDest, Numbers DEF Sound, Dest, Safe, Typed
    <3>2. co[n].then \notin {"read", "reap", "policy", "supervise"}
      BY <2>4, Numbers DEF Sound, Safe, Typed, CoType, After
    <3>3. QED
      BY <1>3, <2>4, <3>1, <3>2 DEF Follows, Sound, Safe, ReadersRegistered
  <2>5. QED
    BY <2>2, <2>3, <2>4
<1>4. QED
  BY <1>1, <1>2, <1>3

-----------------------------------------------------------------------------
(* The order is kept. *)

LEMMA HolderStep ==
  ASSUME Sound, Kinds
  PROVE  Holder'
<1>0. lock \in Coroutine \cup {0}
  BY DEF Sound, Safe, Typed, TypeOK
<1>1. ASSUME NEW c \in Coroutine, NEW p, NEW q, Goes(c, p, q)
      PROVE  Holder'
  <2>1. lock' # 0 => lock' = c \/ lock' = lock
    BY <1>1, Went, Numbers
  <2>2. lock' = c => q \in InTriage \cup {"return", "raise"}
    BY <1>1 DEF Goes, Keys
  <2>3. Dest(c)' = q /\ \A d \in Coroutine \ {c} : Dest(d)' = Dest(d)
    BY <1>1, Went
  <2>4. CASE lock' = c
    BY <2>2, <2>3, <2>4 DEF Holder
  <2>5. CASE lock' # c
    BY <1>0, <2>1, <2>3, <2>5 DEF Sound, Holder
  <2>6. QED
    BY <2>4, <2>5
<1>2. ASSUME NEW c \in Coroutine, Registers(c) PROVE Holder'
  <2>1. lock' # 0 => lock' = c /\ Dest(c)' = "return"
    BY <1>2, Hatched
  <2>2. QED
    BY <2>1 DEF Holder
<1>3. CASE Forgets
  BY <1>3 DEF Sound, Holder, Forgets, Dest
<1>4. CASE Finishes
  <2>1. lock' # 0 => lock' = lock /\ lock \notin Cancelled
    BY <1>4 DEF Finishes
  <2>2. lock' # 0 => Dest(lock)' \in {Dest(lock), "raise"}
    BY <1>0, <1>4, <2>1, FinishDest DEF Sound
  <2>3. QED
    BY <2>1, <2>2 DEF Sound, Holder
<1>5. CASE Outside
  BY <1>5 DEF Sound, Holder, Outside, Dest
<1>6. QED
  BY <1>1, <1>2, <1>3, <1>4, <1>5, Courses

LEMMA AwakeStep ==
  ASSUME Sound, Kinds
  PROVE  Awake'
<1>1. ASSUME NEW c \in Coroutine, NEW p, NEW q, Goes(c, p, q)
      PROVE  Awake'
  BY <1>1 DEF Goes, Turn, Yields, Awake
<1>2. ASSUME NEW c \in Coroutine, Registers(c) PROVE Awake'
  <2>1. cpu' # 0 => c # Main /\ cpu' = c
    BY <1>2 DEF Registers
  <2>2. "return" \notin Waiting
    BY Names
  <2>3. QED
    BY <1>2, <2>1, <2>2, Hatched DEF Awake
<1>3. CASE Forgets \/ Finishes
  BY <1>3 DEF Forgets, Finishes, Awake
<1>4. CASE Outside
  BY <1>4 DEF Outside, Sound, Awake
<1>5. QED
  BY <1>1, <1>2, <1>3, <1>4, Courses

\* Nobody but the holder of the lock moves while it has it and the task is at work.
LEMMA HeldStill ==
  ASSUME Sound, NEW c \in Coroutine, NEW p, NEW q, Turn(c, p, q), p # "teardown",
         lock # 0, task.state \in {"running", "verifying", "delivering"}
  PROVE  c = lock /\ p \in {"return", "raise"}
<1>1. cpu = lock /\ cpu \in {0, c}
  BY DEF Sound, Undisturbed, Turn
<1>2. c = lock /\ p \in InTriage \cup {"return", "raise"}
  BY <1>1, LockPlace
<1>3. c # Main => p \notin InTriage
  <2>1. Dest(c) = p
    BY DEF Turn, Dest
  <2>2. QED
    BY <2>1, HasLock DEF Sound
<1>4. c = Main => p \notin InTriage
  BY <1>2 DEF Turn, Sound, Safe, Apart, Fresh, InTriage
<1>5. QED
  BY <1>2, <1>3, <1>4

LEMMA UndisturbedStep ==
  ASSUME Sound, Kinds
  PROVE  Undisturbed'
<1> SUFFICES ASSUME lock' # 0, task'.state \in {"running", "verifying", "delivering"}
             PROVE  cpu' = lock' /\ \A n \in Attempt : co'[n].pc # "reap"
  BY DEF Undisturbed
<1>1. ASSUME NEW c \in Coroutine, NEW p, NEW q, Goes(c, p, q) PROVE FALSE
  <2>1. lock' = lock \/ (lock = 0 /\ lock' = c /\ task'.state = "triage")
    BY <1>1 DEF Goes, Keys
  <2>2. lock = c /\ lock' = c => p \in InTriage
    BY <1>1 DEF Goes, Keys
  <2>3. lock' = lock
    BY <2>1
  <2>4. CASE task.state \in {"running", "verifying", "delivering"}
    BY <1>1, <2>2, <2>3, <2>4, HeldStill DEF Goes, InTriage
  <2>5. CASE task.state \notin {"running", "verifying", "delivering"}
    <3>1. task.state = "needs_human" /\ q = "deliver"
      BY <1>1, <2>3, <2>5 DEF Goes, Shifts
    <3>2. p = "verify" /\ c \in Attempt
      BY <1>1, <3>1 DEF Goes, Arrives
    <3>3. QED
      BY <1>1, <3>1, <3>2, Went DEF Sound, Verifying
  <2>6. QED
    BY <2>4, <2>5
<1>2. ASSUME NEW c \in Coroutine, Registers(c)
      PROVE  cpu' = lock' /\ \A n \in Attempt : co'[n].pc # "reap"
  <2>1. cpu' = lock'
    BY <1>2, Hatched
  <2>2. \A n \in Attempt : co[n].pc # "reap"
    BY <1>2, Hatched DEF Follows
  <2>3. ASSUME NEW n \in Attempt, co'[n].pc = "reap" PROVE FALSE
    BY <1>2, <2>2, <2>3, Hatched, Numbers DEF Resting
  <2>4. QED
    BY <2>1, <2>3
<1>3. CASE Forgets \/ Finishes
  <2>1. cpu = 0 /\ task'.state = task.state /\ lock' \in {lock, 0}
    BY <1>3 DEF Forgets, Finishes, SameRow
  <2>2. QED
    BY <2>1 DEF Sound, Undisturbed
<1>4. CASE Outside
  BY <1>4 DEF Outside, Sound, Undisturbed
<1>5. QED
  BY <1>1, <1>2, <1>3, <1>4, Courses

\* Only one watcher follows its stream, that of the current attempt.
LEMMA OneReader ==
  ASSUME Sound, NEW n \in Attempt, Follows(n)
  PROVE  n = task.cur /\ att[n].verdict = "none"
<1>1. Registered(n)
  BY DEF Sound, Safe, ReadersRegistered
<1>2. QED
  BY <1>1, Numbers DEF Sound, Safe, CurrentKnown, Registered, Unjudged

LEMMA NotCancelled ==
  ASSUME Sound, NEW c \in Coroutine, NEW p, NEW q, Goes(c, p, q), task'.state # "cancelled"
  PROVE  task.state # "cancelled"
BY DEF Goes, Shifts

LEMMA PatientStep ==
  ASSUME Sound, Kinds
  PROVE  Patient'
<1>1. ASSUME NEW d \in Coroutine, NEW p, NEW q, Goes(d, p, q)
      PROVE  Patient'
  <2>1. co'[Dog].trig # "asked"
    BY <1>1 DEF Goes, Calm, Sound, Patient
  <2>2. ASSUME NEW c \in Coroutine, co'[c].pc = "lock",
               ~(c \in Attempt /\ co'[c].trig = "asked"), task'.state # "cancelled", cpu' # c
        PROVE  c \notin late'
    <3>0. task.state # "cancelled"
      BY <1>1, <2>2, NotCancelled
    <3>1. CASE c # d
      BY <1>1, <2>2, <3>0, <3>1, Went, Numbers DEF Sound, Patient
    <3>2. CASE c = d
      <4>1. q = "lock"
        BY <1>1, <2>2, <3>2, Went
      <4>2. lock # 0
        BY <1>1, <2>2, <3>2, Names DEF Goes, Turn, Yields
      <4>3. p \notin {"teardown", "return", "raise"} /\ Turn(d, p, q)
        BY <1>1, <4>1 DEF Goes, Arrives
      <4>4. task.state \notin {"running", "verifying", "delivering"}
        BY <4>2, <4>3, HeldStill
      <4>5. p \in {"verify", "deliver"} /\ c \in Attempt
        BY <1>1, <2>2, <3>2, <4>1, <4>4 DEF Goes, Arrives
      <4>6. QED
        BY <1>1, <3>0, <3>2, <4>4, <4>5, Went DEF Sound, Verifying
    <3>3. QED
      BY <3>1, <3>2
  <2>3. QED
    BY <2>1, <2>2 DEF Patient
<1>2. ASSUME NEW d \in Coroutine, Registers(d) PROVE Patient'
  <2>1. PICK n \in Attempt :
          /\ co'[d].pc \in {"idle", "return"} /\ co'[d].trig = co[d].trig
          /\ co'[n] = Resting("read") /\ task.state # "cancelled" /\ cpu \in {0, d}
          /\ \A e \in Coroutine \ {d, n} : co'[e] = co[e]
    BY <1>2, Hatched
  <2>2. late' \subseteq late \cup {d}
    BY <1>2 DEF Registers, QueuedBehind
  <2>3. co'[Dog].trig # "asked"
    BY <2>1, Numbers DEF Sound, Patient
  <2>4. ASSUME NEW c \in Coroutine, co'[c].pc = "lock",
               ~(c \in Attempt /\ co'[c].trig = "asked")
        PROVE  c \notin late'
    <3>1. c # d /\ c # n
      BY <2>1, <2>4 DEF Resting
    <3>2. QED
      BY <2>1, <2>2, <2>4, <3>1, Numbers DEF Sound, Patient
  <2>5. QED
    BY <2>3, <2>4 DEF Patient
<1>3. CASE Forgets
  <2>1. co' = co /\ cpu = 0 /\ task'.state = task.state /\ late' \subseteq late \cup {0}
    BY <1>3 DEF Forgets, SameRow, QueuedBehind
  <2>2. QED
    BY <2>1, Numbers DEF Sound, Patient
<1>4. CASE Finishes
  <2>1. cpu = 0 /\ task'.state = task.state /\ late' \subseteq late /\ 0 \notin late
        /\ (td.phase = "reap" \/ (td.phase = "start" /\ mem.reg = 0))
    BY <1>4, Finished DEF Finishes
  <2>2. co'[Dog].trig # "asked"
    BY <1>4, FinishDest, Numbers DEF Sound, Patient, Resting
  <2>3. ASSUME NEW c \in Coroutine, co'[c].pc = "lock",
               ~(c \in Attempt /\ co'[c].trig = "asked"), task'.state # "cancelled"
        PROVE  c \notin late'
    <3>1. c \notin Cancelled /\ co'[c].trig = co[c].trig
          /\ (co[c].pc # "teardown" => co'[c] = co[c]) /\ Dest(c) = "lock"
      BY <1>4, <2>3, FinishDest DEF Sound, Resting
    <3>2. CASE co[c].pc # "teardown"
      BY <2>1, <2>3, <3>1, <3>2, Numbers DEF Sound, Patient
    <3>3. CASE co[c].pc = "teardown"
      <4>1. co[c].then = "lock"
        BY <3>1, <3>3 DEF Dest
      <4>2. QED
        BY <2>1, <3>3, <4>1 DEF Sound, CleanupFirst
    <3>4. QED
      BY <3>2, <3>3
  <2>4. QED
    BY <2>2, <2>3 DEF Patient
<1>5. CASE Outside
  <2>1. co' = co /\ cpu' = cpu /\ late' = late
        /\ (task'.state # "cancelled" => task.state # "cancelled")
    BY <1>5 DEF Outside
  <2>2. QED
    BY <2>1 DEF Sound, Patient
<1>6. QED
  BY <1>1, <1>2, <1>3, <1>4, <1>5, Courses

\* Who is ready goes before the coroutine that now waits.
LEMMA Queued ==
  ASSUME NEW d, QueuedBehind(d), NEW c \in Coroutine, c # d, Ready(c)
  PROVE  d \in late' /\ (c \notin late => late' = late \cup {d})
BY DEF QueuedBehind

\* A supervisor that may wait has at most one retry to spend.  With a second one the
\* watcher of an attempt before last may still queue for the triage lock when a wait
\* lets the current worker finish, and takes it while that work is being verified.
WaitAssumption == Waits => MaxRetries <= 1

LEMMA TriageFirstStep ==
  ASSUME Sound, Kinds, WaitAssumption
  PROVE  TriageFirst'
<1>1. ASSUME NEW d \in Coroutine, NEW p, NEW q, Goes(d, p, q),
             NEW n \in Attempt, NEW c \in Coroutine,
             co'[n].pc = "reap", task'.state = "running", co'[c].pc = "lock", cpu' # c
      PROVE  n \in late'
  <2>0. /\ n \in Coroutine /\ n # c /\ co[d].pc = p /\ cpu \in {0, d}
        /\ \A e \in Coroutine \ {d} : co'[e] = co[e]
        /\ n = d => q = "reap" /\ p = "read"
        /\ c = d => q = "lock"
        /\ c # Main
    <3>1. /\ n \in Coroutine /\ n # c /\ co[d].pc = p /\ cpu \in {0, d}
          /\ \A e \in Coroutine \ {d} : co'[e] = co[e]
          /\ co'[d].pc \in {q, "teardown"}
      BY <1>1, Went, Numbers
    <3>2. q = "reap" => p = "read"
      BY <1>1 DEF Goes, Arrives
    <3>3. c # Main
      BY <1>1, ApartStep DEF Sound, Apart
    <3>4. QED
      BY <1>1, <3>1, <3>2, <3>3
  <2>1. CASE task.state = "running"
    <3>1. lock = 0
      <4>1. SUFFICES ASSUME lock # 0 PROVE FALSE
        OBVIOUS
      <4>2. p \in {"return", "raise"}
        BY <1>1, <2>1, <4>1, HeldStill DEF Goes
      <4>3. co[n].pc = "reap"
        BY <1>1, <2>0, <4>2
      <4>4. QED
        BY <2>1, <4>1, <4>3 DEF Sound, Undisturbed
    <3>2. c # d
      <4>1. c = d => cpu' = c
        BY <1>1, <2>0, <3>1, Names DEF Goes, Turn, Yields
      <4>2. QED
        BY <1>1, <4>1
    <3>3. co[c].pc = "lock" /\ Ready(c) /\ cpu # c
      BY <1>1, <2>0, <3>1, <3>2, Names, Numbers DEF Ready
    <3>4. CASE n = d
      <4>1. QueuedBehind(d)
        BY <1>1, <3>4, Names DEF Goes, Turn, Yields
      <4>2. QED
        BY <3>2, <3>3, <3>4, <4>1, Queued
    <3>5. CASE n # d
      <4>1. co[n].pc = "reap" /\ n \in late
        BY <1>1, <2>0, <2>1, <3>3, <3>5 DEF Sound, TriageFirst
      <4>2. ~(c \in Attempt /\ co[c].trig = "asked")
        <5>1. Follows(n)
          BY <4>1 DEF Follows
        <5>2. c \in Attempt /\ co[c].trig = "asked" => Follows(c)
          BY <3>3 DEF Follows
        <5>3. QED
          BY <2>0, <5>1, <5>2, OneReader
      <4>3. c \notin late
        BY <2>1, <3>3, <4>2 DEF Sound, Patient
      <4>4. late' = late \/ QueuedBehind(d)
        BY <1>1 DEF Goes, Turn, Yields
      <4>5. QED
        BY <3>2, <3>3, <4>1, <4>3, <4>4, Queued
    <3>6. QED
      BY <3>4, <3>5
  <2>2. CASE task.state # "running"
    <3>1. /\ p = "supervise" /\ q \in {"idle", "read"} /\ BudgetLeft
          /\ (co[d].trig = "asked" \/ (co[d].trig = "stalled" /\ Waits))
      BY <1>1, <2>2 DEF Goes, Shifts
    <3>2. co[n].pc = "reap" /\ co[c].pc = "lock" /\ n # d /\ c # d
      BY <1>1, <2>0, <3>1
    <3>3. Follows(n) /\ n = task.cur
      <4>1. Follows(n)
        BY <3>2 DEF Follows
      <4>2. QED
        BY <4>1, OneReader
    <3>4. d # Main
      BY <2>0, <3>1 DEF Sound, Safe, Apart
    <3>5. CASE co[d].trig = "asked"
      <4>1. d \in Attempt
        BY <3>4, <3>5 DEF Sound, Patient, Coroutine
      <4>2. Follows(d)
        BY <2>0, <3>1, <3>5 DEF Follows
      <4>3. QED
        BY <3>2, <3>3, <4>1, <4>2, OneReader
    <3>6. CASE co[d].trig = "stalled" /\ Waits
      <4>1. d = Dog
        BY <3>4, <3>6 DEF Sound, Safe, ReadersRegistered, Coroutine
      <4>2. c \in Attempt
        BY <2>0, <3>2, <4>1 DEF Coroutine
      <4>3. task.retries = 0
        BY <3>1, <3>6, Row, RuntimeAssumption DEF WaitAssumption, BudgetLeft, Sound, Safe
      <4>4. task.cur <= 1 /\ c <= task.cur
        <5>1. task.cur \in Nat /\ c \in Nat
          BY <3>3, <4>2, Numbers
        <5>2. QED
          BY <3>2, <4>2, <4>3, <5>1 DEF Sound, Unused
      <4>5. c = n
        BY <3>3, <4>2, <4>4, Numbers
      <4>6. QED
        BY <2>0, <4>5
    <3>7. QED
      BY <3>1, <3>5, <3>6
  <2>3. QED
    BY <2>1, <2>2
<1>2. ASSUME NEW d \in Coroutine, Registers(d), NEW n \in Attempt, co'[n].pc = "reap"
      PROVE  FALSE
  <2>1. PICK m \in Attempt :
          /\ co'[d].pc \in {"idle", "return"} /\ co'[m] = Resting("read")
          /\ \A e \in Coroutine \ {d, m} : co'[e] = co[e]
          /\ \A k \in Attempt : ~Follows(k)
    BY <1>2, Hatched
  <2>2. n # d /\ n # m
    BY <1>2, <2>1 DEF Resting
  <2>3. QED
    BY <1>2, <2>1, <2>2, Numbers DEF Follows
<1>3. ASSUME Forgets, NEW n \in Attempt, NEW c \in Coroutine,
             co'[n].pc = "reap", task'.state = "running", co'[c].pc = "lock"
      PROVE  n \in late'
  <2>1. co' = co /\ cpu = 0 /\ task.state = "running" /\ QueuedBehind(0)
    BY <1>3 DEF Forgets, SameRow
  <2>2. lock = 0 /\ Ready(c) /\ c # 0
    BY <1>3, <2>1, Names, Numbers DEF Sound, Undisturbed, Ready
  <2>3. n \in late /\ Follows(n) /\ c # n
    BY <1>3, <2>1, <2>2 DEF Sound, TriageFirst, Follows
  <2>4. ~(c \in Attempt /\ co[c].trig = "asked")
    <3>1. c \in Attempt /\ co[c].trig = "asked" => Follows(c)
      BY <1>3, <2>1 DEF Follows
    <3>2. QED
      BY <2>3, <3>1, OneReader
  <2>5. c \notin late
    BY <1>3, <2>1, <2>2, <2>4 DEF Sound, Patient
  <2>6. QED
    BY <2>1, <2>2, <2>3, <2>5, Queued
<1>4. ASSUME Finishes, NEW n \in Attempt, co'[n].pc = "reap" PROVE FALSE
  BY <1>4, Finished DEF Follows
<1>5. CASE Outside
  <2>1. co' = co /\ cpu' = cpu /\ late' = late
        /\ (task'.state = "running" => task.state = "running")
    BY <1>5 DEF Outside
  <2>2. QED
    BY <2>1 DEF Sound, TriageFirst
<1>6. CASE \E c \in Coroutine : \E p, q : Goes(c, p, q)
  BY <1>1, <1>6 DEF TriageFirst
<1>7. CASE \E c \in Coroutine : Registers(c)
  BY <1>2, <1>7 DEF TriageFirst
<1>8. CASE Forgets \/ Finishes
  BY <1>3, <1>4, <1>8 DEF TriageFirst
<1>9. QED
  BY <1>5, <1>6, <1>7, <1>8, Courses

LEMMA CleanupFirstStep ==
  ASSUME Sound, Kinds
  PROVE  CleanupFirst'
<1>1. ASSUME NEW d \in Coroutine, NEW p, NEW q, Goes(d, p, q),
             NEW c \in Coroutine, co'[c].pc = "teardown", co'[c].then = "lock"
      PROVE  /\ td'.phase = "start" => mem'.reg # 0
             /\ td'.phase = "reap" /\ 0 \notin late' => c \notin late'
  <2>0. /\ mem'.reg = mem.reg /\ (td.phase # "none" => td' = td)
        /\ \A e \in Coroutine \ {d} : co'[e] = co[e]
        /\ td' = td \/ td'.phase = "start"
    BY <1>1, Went DEF Goes, Calm
  <2>1. CASE c # d
    <3>1. co[c].pc = "teardown" /\ co[c].then = "lock" /\ td.phase # "none" /\ td' = td
      BY <1>1, <2>0, <2>1 DEF Sound, Safe, CleanupKnown
    <3>2. late' \subseteq {d} \/ late' = late \/ late' = late \cup {d}
      BY <1>1 DEF Goes, Turn, Yields, QueuedBehind
    <3>3. QED
      BY <2>0, <2>1, <3>1, <3>2, Numbers DEF Sound, CleanupFirst
  <2>2. CASE c = d
    <3>1. q = "lock"
      BY <1>1, <2>2 DEF Goes, Turn
    <3>2. mem.reg # 0
      BY <1>1, <2>2, <3>1 DEF Goes, Arrives
    <3>3. td'.phase # "reap"
      BY <2>0, <3>2 DEF Sound, Safe, CleanupKnown
    <3>4. QED
      BY <2>0, <3>2, <3>3
  <2>3. QED
    BY <2>1, <2>2
<1>2. ASSUME NEW d \in Coroutine, Registers(d) PROVE CleanupFirst'
  <2>1. td'.phase = "none"
    BY <1>2, Hatched
  <2>2. QED
    BY <2>1 DEF CleanupFirst
<1>3. CASE Forgets
  <2>1. td'.phase = "reap" /\ (0 \notin late' => late' = {})
    BY <1>3 DEF Forgets, QueuedBehind
  <2>2. QED
    BY <2>1 DEF CleanupFirst
<1>4. CASE Finishes
  BY <1>4 DEF Finishes, CleanupFirst, NoTeardown
<1>5. CASE Outside
  BY <1>5 DEF Outside, Sound, CleanupFirst
<1>6. CASE \E c \in Coroutine : \E p, q : Goes(c, p, q)
  BY <1>1, <1>6 DEF CleanupFirst
<1>7. QED
  BY <1>2, <1>3, <1>4, <1>5, <1>6, Courses

-----------------------------------------------------------------------------
(* What is known of the attempts is kept. *)

LEMMA UnusedStep ==
  ASSUME Sound, Kinds
  PROVE  Unused'
<1>0. task.cur \in Attempt \cup {0} /\ task.cur \in Nat /\ task.retries \in Nat
  BY Row, Numbers DEF Sound, Safe
<1>1. ASSUME NEW c \in Coroutine, NEW p, NEW q, Goes(c, p, q)
      PROVE  Unused'
  <2>1. /\ task'.cur = task.cur /\ task'.retries = task.retries
        /\ co[c].pc # "off" /\ \A d \in Coroutine \ {c} : co'[d] = co[d]
    BY <1>1, Went DEF Goes, Calm
  <2>2. ASSUME NEW m \in Attempt, m > task.cur
        PROVE  co'[m].pc = "off" /\ att'[m].verdict = "none"
    <3>1. co[m].pc = "off" /\ att[m].verdict = "none" /\ m # c /\ m # task.cur
      BY <1>0, <2>1, <2>2, Numbers DEF Sound, Unused
    <3>2. att'[m].verdict = "none"
      BY <1>1, <3>1 DEF Goes, Judges
    <3>3. QED
      BY <2>1, <3>1, <3>2, Numbers
  <2>3. QED
    BY <2>1, <2>2 DEF Sound, Unused
<1>2. ASSUME NEW c \in Coroutine, Registers(c) PROVE Unused'
  <2>1. PICK n \in Attempt :
          /\ n # c /\ task'.cur = n /\ task.cur < n /\ (c = Main => n = 1)
          /\ Dest(c) = "spawn" /\ SameVerdicts
          /\ \A d \in Coroutine \ {c, n} : co'[d] = co[d]
          /\ task'.retries = (IF c = Main THEN task.retries ELSE task.retries + 1)
    BY <1>2, Hatched
  <2>2. ASSUME NEW m \in Attempt, m > n
        PROVE  co'[m].pc = "off" /\ att'[m].verdict = "none"
    <3>1. m > task.cur /\ m # n
      BY <1>0, <2>1, <2>2, Numbers
    <3>2. co[m].pc = "off" /\ att[m].verdict = "none"
      BY <3>1 DEF Sound, Unused
    <3>3. m # c
      BY <2>1, <3>2 DEF Dest
    <3>4. QED
      BY <2>1, <3>1, <3>2, <3>3, Numbers DEF SameVerdicts
  <2>3. n > 1 => task'.retries > 0
    BY <1>0, <2>1, Numbers
  <2>4. QED
    BY <2>1, <2>2, <2>3 DEF Unused
<1>3. CASE Forgets \/ Outside
  BY <1>3 DEF Forgets, Outside, SameRow, SameAttempt, SameVisible, SameVerdicts, Sound, Unused
<1>4. CASE Finishes
  <2>1. task'.cur = task.cur /\ task'.retries = task.retries /\ SameVerdicts
    BY <1>4, Finished
  <2>2. \A m \in Attempt : co[m].pc = "off" => co'[m].pc = "off"
    BY <1>4, FinishDest, Numbers DEF Sound, Resting
  <2>3. QED
    BY <2>1, <2>2 DEF Sound, Unused, SameVerdicts
<1>5. QED
  BY <1>1, <1>2, <1>3, <1>4, Courses

LEMMA AffordableStep ==
  ASSUME Sound, Kinds
  PROVE  Affordable'
<1>1. ASSUME NEW c \in Coroutine, NEW p, NEW q, Goes(c, p, q)
      PROVE  Affordable'
  <2>1. /\ task'.retries = task.retries /\ Dest(c) = p /\ Dest(c)' = q
        /\ \A d \in Coroutine \ {c} : co'[d] = co[d] /\ Dest(d)' = Dest(d)
    BY <1>1, Went DEF Goes, Calm
  <2>2. q \in Starting => \/ p \in Starting /\ co'[c].paid = co[c].paid
                          \/ BudgetLeft /\ co'[c].paid = task.retries + 1
                          \/ c = Main
    BY <1>1 DEF Goes, Arrives
  <2>3. ASSUME NEW d \in Coroutine \ {Main}, Dest(d)' \in Starting
        PROVE  BudgetLeft' /\ co'[d].paid = task'.retries + 1
    <3>1. CASE d = c
      BY <2>1, <2>2, <2>3, <3>1 DEF Sound, Affordable, BudgetLeft
    <3>2. CASE d # c
      BY <2>1, <2>3, <3>2 DEF Sound, Affordable, BudgetLeft
    <3>3. QED
      BY <3>1, <3>2
  <2>4. QED
    BY <2>3, Names DEF Affordable, Starting
<1>2. ASSUME NEW c \in Coroutine, Registers(c) PROVE Affordable'
  <2>1. \A d \in Coroutine : Dest(d)' \notin InTriage
    BY <1>2, Born DEF Sound
  <2>2. QED
    BY <2>1 DEF Affordable, Starting, InTriage
<1>3. CASE Forgets \/ Outside
  BY <1>3 DEF Forgets, Outside, SameRow, SameAttempt, Sound, Affordable, Dest, BudgetLeft
<1>4. CASE Finishes
  <2>1. task'.retries = task.retries
    BY <1>4, Finished
  <2>2. \A c \in Coroutine : \/ Dest(c)' = Dest(c) /\ co'[c].paid = co[c].paid
                             \/ Dest(c)' \in {"off", "raise"}
    BY <1>4, FinishDest DEF Sound
  <2>3. QED
    BY <2>1, <2>2 DEF Sound, Affordable, BudgetLeft, Starting
<1>5. QED
  BY <1>1, <1>2, <1>3, <1>4, Courses

LEMMA UnjudgedStep ==
  ASSUME Sound, Kinds
  PROVE  Unjudged'
<1>1. ASSUME NEW c \in Coroutine, NEW p, NEW q, Goes(c, p, q), NEW n \in Attempt, Follows(n)'
      PROVE  att'[n].verdict = "none"
  <2>1. Follows(n)
    BY <1>1, Went, Numbers DEF Goes, Calm, Follows
  <2>2. n = task.cur /\ att[n].verdict = "none"
    BY <2>1, OneReader
  <2>3. p \in {"verify", "deliver"} /\ c \in Attempt => FALSE
    <3>1. p \in {"verify", "deliver"} /\ c \in Attempt => c = n
      BY <1>1, <2>2, Went DEF Sound, Verifying
    <3>2. QED
      BY <1>1, <2>1, <3>1, Went DEF Follows
  <2>4. QED
    BY <1>1, <2>2, <2>3 DEF Goes, Judges
<1>2. ASSUME NEW c \in Coroutine, Registers(c) PROVE Unjudged'
  <2>1. PICK n \in Attempt :
          /\ att[n].verdict = "none" /\ SameVerdicts
          /\ co'[c].pc \in {"idle", "return"}
          /\ \A d \in Coroutine \ {c, n} : co'[d] = co[d]
          /\ \A m \in Attempt : ~Follows(m)
    BY <1>2, Hatched
  <2>2. ASSUME NEW m \in Attempt, Follows(m)' PROVE m = n
    BY <2>1, <2>2, Numbers DEF Follows
  <2>3. QED
    BY <2>1, <2>2 DEF Unjudged, SameVerdicts
<1>3. CASE Forgets \/ Outside
  BY <1>3 DEF Forgets, Outside, SameVisible, SameVerdicts, Sound, Unjudged, Follows
<1>4. CASE Finishes
  BY <1>4, Finished DEF Unjudged
<1>5. CASE \E c \in Coroutine : \E p, q : Goes(c, p, q)
  BY <1>1, <1>5 DEF Unjudged
<1>6. QED
  BY <1>2, <1>3, <1>4, <1>5, Courses

\* A verification or a delivery goes on as it should: nothing but itself, a cancel or
\* the cleanup that cancels it changes the row or its verdict.
LEMMA VerifyingGoes ==
  ASSUME Sound, NEW c \in Coroutine, NEW p, NEW q, Goes(c, p, q),
         NEW n \in Attempt, Dest(n) \in {"begin", "verify", "deliver"}
  PROVE  /\ n = task.cur /\ task.state \in {"verifying", "delivering", "cancelled"}
         /\ c # n => /\ task'.state = task.state /\ att'[n].verdict = att[n].verdict
                     /\ q \notin {"begin", "verify", "deliver"}
                     /\ q = "lock" => task.state = "cancelled"
<1>1. n = task.cur /\ task.state \in {"verifying", "delivering", "cancelled"}
      /\ co[c].pc = p /\ Dest(c) = p
  BY Went DEF Sound, Verifying
<1>2. SUFFICES ASSUME c # n
               PROVE  /\ task'.state = task.state /\ att'[n].verdict = att[n].verdict
                      /\ q \notin {"begin", "verify", "deliver"}
                      /\ q = "lock" => task.state = "cancelled"
  BY <1>1
<1>3. c \in Attempt => p \notin {"begin", "verify", "deliver"}
  BY <1>1, <1>2 DEF Sound, Verifying
<1>4. c \in Attempt /\ p \in {"read", "reap"} => FALSE
  <2>1. c \in Attempt /\ p \in {"read", "reap"} => Follows(c)
    BY <1>1 DEF Follows
  <2>2. QED
    BY <1>1, <1>2, <2>1, OneReader
<1>5. p = "lock" => task.state = "cancelled"
  BY <1>1 DEF Sound, Alone
<1>6. q \notin {"begin", "verify", "deliver"}
  BY <1>3, <1>4 DEF Goes, Arrives
<1>7. task'.state = task.state
  <2>1. CASE task'.state = task.state
    BY <2>1
  <2>2. CASE task'.state # task.state
    BY <1>1, <1>3, <1>5, <1>6, <2>2 DEF Goes, Shifts
  <2>3. QED
    BY <2>1, <2>2
<1>8. att'[n].verdict = att[n].verdict
  BY <1>2, <1>3 DEF Goes, Judges
<1>9. q = "lock" => task.state = "cancelled"
  BY <1>1, <1>3, <1>4 DEF Goes, Arrives
<1>10. QED
  BY <1>6, <1>7, <1>8, <1>9

LEMMA VerifyingStep ==
  ASSUME Sound, Kinds
  PROVE  Verifying'
<1>1. ASSUME NEW c \in Coroutine, NEW p, NEW q, Goes(c, p, q), NEW n \in Attempt,
             Dest(n)' \in {"begin", "verify", "deliver"}, c # n
      PROVE  /\ n = task.cur /\ task'.cur = task.cur /\ Dest(n)' = Dest(n) /\ co'[n] = co[n]
             /\ task'.state = task.state /\ att'[n].verdict = att[n].verdict
  <2>1. Dest(n)' = Dest(n) /\ co'[n] = co[n] /\ task'.cur = task.cur
    BY <1>1, Went, Numbers DEF Goes, Calm
  <2>2. QED
    BY <1>1, <2>1, VerifyingGoes
<1>2. ASSUME NEW c \in Attempt, NEW p, NEW q, Goes(c, p, q), Dest(c)' \in {"begin", "verify", "deliver"}
      PROVE  /\ c = task.cur /\ task'.cur = task.cur
             /\ Dest(c)' \in {"begin", "verify"} =>
                  task'.state \in {"verifying", "cancelled"} /\ att'[c].verdict = "none"
             /\ Dest(c)' = "verify" => co'[c].arg = c
             /\ Dest(c)' = "deliver" => task'.state = "delivering" /\ att'[c].verdict = "passed"
  <2>1. Dest(c)' = q /\ task'.cur = task.cur /\ co[c].pc = p /\ Dest(c) = p
    BY <1>2, Went, Numbers DEF Goes, Calm
  <2>2. CASE q = "begin"
    <3>1. p = "reap" /\ task'.state = "verifying"
      BY <1>2, <2>2 DEF Goes, Arrives, Shifts
    <3>2. Follows(c)
      BY <2>1, <3>1 DEF Follows
    <3>3. c = task.cur /\ att[c].verdict = "none"
      BY <3>2, OneReader
    <3>4. att'[c].verdict = "none"
      BY <1>2, <3>1, <3>3 DEF Goes, Judges
    <3>5. QED
      BY <2>1, <2>2, <3>1, <3>3, <3>4
  <2>2a. CASE q = "verify"
    <3>1. p = "begin" /\ co'[c].arg = task.cur
      BY <1>2, <2>2a DEF Goes, Arrives
    <3>2. c = task.cur /\ task.state \in {"verifying", "cancelled"} /\ att[c].verdict = "none"
      BY <2>1, <3>1 DEF Sound, Verifying
    <3>3. task'.state = task.state
      BY <1>2, <2>2a, <3>1 DEF Goes, Shifts
    <3>4. att'[c].verdict = "none"
      BY <1>2, <3>1, <3>2 DEF Goes, Judges
    <3>5. QED
      BY <2>1, <2>2a, <3>1, <3>2, <3>3, <3>4
  <2>3. CASE q = "deliver"
    <3>1. p = "verify" /\ task'.state = "delivering"
          /\ (task.cur \in Attempt => att'[task.cur].verdict = "passed")
      BY <1>2, <2>3 DEF Goes, Arrives, Shifts
    <3>2. c = task.cur
      BY <2>1, <3>1 DEF Sound, Verifying
    <3>3. QED
      BY <2>1, <2>3, <3>1, <3>2
  <2>4. QED
    BY <1>2, <2>1, <2>2, <2>2a, <2>3
<1>3. ASSUME NEW c \in Coroutine, NEW p, NEW q, Goes(c, p, q) PROVE Verifying'
  BY <1>1, <1>2, <1>3 DEF Sound, Verifying
<1>4. ASSUME NEW c \in Coroutine, Registers(c) PROVE Verifying'
  <2>1. PICK n \in Attempt :
          /\ co'[c].pc \in {"idle", "return"} /\ Dest(c)' = co'[c].pc /\ Dest(n)' = "read"
          /\ task.state \in {"queued", "triage"}
          /\ \A d \in Coroutine \ {c, n} : Dest(d)' = Dest(d)
    BY <1>4, Hatched
  <2>2. \A m \in Attempt : Dest(m)' \notin {"begin", "verify", "deliver"}
    BY <2>1, Numbers DEF Sound, Verifying
  <2>3. QED
    BY <2>2 DEF Verifying
<1>5. CASE Forgets
  BY <1>5 DEF Forgets, SameRow, SameVisible, SameVerdicts, Sound, Verifying, Dest
<1>6. CASE Outside
  BY <1>6 DEF Outside, SameAttempt, SameVerdicts, Sound, Verifying, Dest
<1>7. CASE Finishes
  <2>1. task'.cur = task.cur /\ task'.state = task.state /\ SameVerdicts
    BY <1>7, Finished
  <2>2. \A n \in Attempt : \/ Dest(n)' = Dest(n) /\ co'[n].arg = co[n].arg
                           \/ Dest(n)' \in {"off", "raise"}
    BY <1>7, FinishDest, Numbers DEF Sound
  <2>3. QED
    BY <2>1, <2>2 DEF Sound, Verifying, SameVerdicts
<1>8. QED
  BY <1>3, <1>4, <1>5, <1>6, <1>7, Courses

LEMMA AloneStep ==
  ASSUME Sound, Kinds
  PROVE  Alone'
<1>0. td.phase = "none" => \A c \in Coroutine : co[c].pc # "teardown"
  BY DEF Sound, Safe, CleanupKnown
<1>1. ASSUME NEW d \in Coroutine, NEW p, NEW q, Goes(d, p, q), NEW n \in Attempt,
             Dest(n)' \in {"begin", "verify", "deliver"}, task'.state # "cancelled", NEW c \in Coroutine
      PROVE  co'[c].pc # "lock" /\ (Dest(c)' = "lock" => Doomed(n)')
  <2>0. /\ co[d].pc = p /\ Dest(d) = p /\ Dest(d)' = q
        /\ \A e \in Coroutine \ {d} : co'[e] = co[e] /\ Dest(e)' = Dest(e)
        /\ cpu \in {0, d} /\ (td.phase # "none" => td' = td) /\ n \in Coroutine
        /\ mem'.reg = mem.reg /\ task.state # "cancelled" /\ co'[d].pc \in {q, "teardown"}
    BY <1>1, Went, NotCancelled, Numbers DEF Goes, Calm
  <2>1. Doomed(n) => Doomed(n)'
    BY <2>0 DEF Doomed
  <2>2. CASE d # n
    <3>1. Dest(n) \in {"begin", "verify", "deliver"}
      BY <1>1, <2>0, <2>2
    <3>2. q # "lock"
      BY <1>1, <2>0, <2>2, <3>1, VerifyingGoes
    <3>3. CASE c = d
      BY <2>0, <3>2, <3>3
    <3>4. CASE c # d
      <4>1. co'[c].pc = co[c].pc /\ Dest(c)' = Dest(c)
        BY <2>0, <3>4
      <4>2. QED
        BY <2>0, <2>1, <3>1, <4>1 DEF Sound, Alone
    <3>5. QED
      BY <3>3, <3>4
  <2>3. CASE d = n /\ q \in {"verify", "deliver"}
    <3>1. Dest(n) \in {"begin", "verify"}
      BY <1>1, <2>0, <2>3 DEF Goes, Arrives
    <3>2. co[c].pc # "lock" /\ (Dest(c) = "lock" => Doomed(n))
      BY <2>0, <3>1 DEF Sound, Alone
    <3>3. QED
      BY <2>0, <2>1, <2>3, <3>2
  <2>4. CASE d = n /\ q = "begin"
    <3>1. p = "reap" /\ task.state = "running"
      BY <1>1, <2>4 DEF Goes, Arrives, Shifts
    <3>2. co[n].pc = "reap" /\ Follows(n) /\ Registered(n)
      BY <2>0, <2>4, <3>1 DEF Follows, Sound, Safe, ReadersRegistered
    <3>3. cpu = 0 /\ n \notin late
      <4>1. cpu # n
        BY <3>2, Names, Numbers DEF Sound, Awake
      <4>2. QED
        BY <1>1, <2>4, <4>1 DEF Goes, Turn
    <3>4. CASE c = n
      BY <2>0, <2>4, <3>4
    <3>5. CASE c # n
      <4>1. co[c].pc # "lock"
        BY <3>1, <3>2, <3>3, Numbers DEF Sound, TriageFirst
      <4>2. CASE co[c].pc = "teardown"
        <5>1. td.phase # "none" /\ td.owner # n
          BY <1>0, <3>2, <4>2 DEF Sound, Safe, CleanupKnown
        <5>2. Doomed(n)
          BY <3>2, <5>1 DEF Doomed, Registered
        <5>3. QED
          BY <2>0, <2>1, <2>4, <3>5, <4>1, <5>2
      <4>3. CASE co[c].pc # "teardown"
        <5>1. Dest(c) # "lock"
          BY <4>1, <4>3 DEF Dest
        <5>2. QED
          BY <2>0, <2>4, <3>5, <4>1, <5>1
      <4>4. QED
        BY <4>2, <4>3
    <3>6. QED
      BY <3>4, <3>5
  <2>5. QED
    BY <1>1, <2>0, <2>2, <2>3, <2>4
<1>2. ASSUME NEW c \in Coroutine, Registers(c) PROVE Alone'
  <2>1. PICK n \in Attempt :
          /\ co'[c].pc \in {"idle", "return"} /\ Dest(c)' = co'[c].pc /\ Dest(n)' = "read"
          /\ task.state \in {"queued", "triage"}
          /\ \A d \in Coroutine \ {c, n} : Dest(d)' = Dest(d)
    BY <1>2, Hatched
  <2>2. \A m \in Attempt : Dest(m)' \notin {"begin", "verify", "deliver"}
    BY <2>1, Numbers DEF Sound, Verifying
  <2>3. QED
    BY <2>2 DEF Alone
<1>3. CASE Forgets
  <2>1. /\ co' = co /\ task'.state = task.state /\ td.phase = "start" /\ td'.phase = "reap"
        /\ td'.proc = mem.reg /\ td'.owner = td.owner /\ mem'.reg = 0 /\ td.proc = 0
    BY <1>3 DEF Forgets, SameRow, Sound, Safe, CleanupKnown
  <2>2. \A n \in Attempt : Doomed(n) => Doomed(n)'
    BY <2>1, Numbers DEF Doomed
  <2>3. \A c \in Coroutine : Dest(c)' = Dest(c)
    BY <2>1 DEF Dest
  <2>4. QED
    BY <2>1, <2>2, <2>3, Numbers DEF Sound, Alone
<1>4. CASE Finishes
  <2>1. task'.state = task.state
    BY <1>4, Finished
  <2>2. \A c \in Coroutine : co'[c].pc = Dest(c)' /\ Dest(c)' \in {Dest(c), "off", "raise"}
    BY <1>4, FinishDest DEF Sound
  <2>3. ASSUME NEW n \in Attempt, Dest(n)' \in {"begin", "verify", "deliver"}, task.state # "cancelled",
               NEW c \in Coroutine, Dest(c)' = "lock"
        PROVE  FALSE
    <3>1. Dest(n) \in {"begin", "verify", "deliver"} /\ Dest(c) = "lock"
      BY <2>2, <2>3, Numbers
    <3>2. Doomed(n)
      BY <2>3, <3>1 DEF Sound, Alone
    <3>3. QED
      BY <1>4, <2>3, <3>2, Finished
  <2>4. QED
    BY <2>1, <2>2, <2>3 DEF Alone
<1>5. CASE Outside
  <2>1. /\ co' = co /\ td' = td /\ mem'.reg = mem.reg
        /\ (task'.state # "cancelled" => task.state # "cancelled")
    BY <1>5 DEF Outside
  <2>2. QED
    BY <2>1 DEF Sound, Alone, Doomed, Dest
<1>6. CASE \E c \in Coroutine : \E p, q : Goes(c, p, q)
  BY <1>1, <1>6 DEF Alone
<1>7. QED
  BY <1>2, <1>3, <1>4, <1>5, <1>6, Courses

LEMMA ShippedLastStep ==
  ASSUME Sound, Kinds
  PROVE  ShippedLast'
<1> DEFINE Shipped == \E n \in Attempt : att[n].verdict = "shipped"
           Quiet == \A n \in Attempt : Dest(n) \notin {"begin", "verify", "deliver"}
<1>1. ASSUME NEW c \in Coroutine, NEW p, NEW q, Goes(c, p, q) PROVE ShippedLast'
  <2>0. /\ co[c].pc = p /\ Dest(c) = p /\ Dest(c)' = q
        /\ \A d \in Coroutine \ {c} : Dest(d)' = Dest(d)
    BY <1>1, Went
  <2>1. CASE Shipped
    <3>1. task.state \in {"delivered", "cancelled"} /\ Quiet
      BY <2>1 DEF Sound, ShippedLast
    <3>2. task'.state = task.state
      BY <1>1, <3>1 DEF Goes, Shifts
    <3>3. q \notin {"begin", "verify", "deliver"}
      <4>1. q \notin {"begin", "deliver"}
        BY <1>1, <3>1, <3>2 DEF Goes, Shifts
      <4>2. q # "verify"
        BY <1>1, <2>0, <3>1 DEF Goes, Arrives
      <4>3. QED
        BY <4>1, <4>2
    <3>4. Quiet'
      BY <2>0, <3>1, <3>3, Numbers
    <3>5. QED
      BY <3>1, <3>2, <3>4 DEF ShippedLast
  <2>2. CASE ~Shipped /\ Shipped'
    <3>1. PICK m \in Attempt : att'[m].verdict = "shipped" /\ att[m].verdict # "shipped"
      BY <2>2
    <3>2. p = "deliver" /\ q # "lock" /\ c \in Attempt
      BY <1>1, <3>1 DEF Goes, Judges
    <3>3. c = task.cur /\ task.state \in {"delivering", "cancelled"}
      BY <2>0, <3>2 DEF Sound, Verifying
    <3>4. task'.state \in {"delivered", "cancelled"} /\ q \notin {"begin", "verify", "deliver"}
      <4>1. q \notin {"begin", "verify", "deliver"}
        BY <1>1, <3>2 DEF Goes, Arrives, Shifts
      <4>2. task.state = "delivering" => task'.state = "delivered"
        BY <1>1, <3>2 DEF Goes, Shifts
      <4>3. task.state = "cancelled" => task'.state = "cancelled"
        BY <1>1 DEF Goes, Shifts
      <4>4. QED
        BY <3>3, <4>1, <4>2, <4>3
    <3>5. Quiet'
      <4>1. ASSUME NEW n \in Attempt, Dest(n)' \in {"begin", "verify", "deliver"} PROVE FALSE
        <5>1. n # c /\ Dest(n) \in {"begin", "verify", "deliver"}
          BY <2>0, <3>4, <4>1, Numbers
        <5>2. QED
          BY <3>3, <5>1 DEF Sound, Verifying
      <4>2. QED
        BY <4>1
    <3>6. QED
      BY <3>4, <3>5 DEF ShippedLast
  <2>3. CASE ~Shipped'
    BY <2>3 DEF ShippedLast
  <2>4. QED
    BY <2>1, <2>2, <2>3
<1>2. ASSUME NEW c \in Coroutine, Registers(c) PROVE ShippedLast'
  <2>1. task.state \in {"queued", "triage"} /\ SameVerdicts
    BY <1>2, Hatched
  <2>2. QED
    BY <2>1 DEF Sound, ShippedLast, SameVerdicts
<1>3. CASE Forgets
  BY <1>3 DEF Forgets, SameRow, SameVisible, SameVerdicts, Sound, ShippedLast, Dest
<1>4. CASE Outside
  BY <1>4 DEF Outside, SameVerdicts, Sound, ShippedLast, Dest
<1>5. CASE Finishes
  <2>1. task'.state = task.state /\ SameVerdicts
    BY <1>5, Finished
  <2>2. \A n \in Attempt : Dest(n)' \in {Dest(n), "off", "raise"}
    BY <1>5, FinishDest, Numbers DEF Sound
  <2>3. QED
    BY <2>1, <2>2 DEF Sound, ShippedLast, SameVerdicts
<1>6. QED
  BY <1>1, <1>2, <1>3, <1>4, <1>5, Courses

LEMMA ReapedStep ==
  ASSUME Sound, Kinds
  PROVE  Reaped'
<1>1. ASSUME NEW c \in Coroutine, NEW p, NEW q, Goes(c, p, q),
             task'.state \in {"verifying", "delivering", "delivered"}
      PROVE  task'.cur \in Attempt /\ Dead(task.cur)'
  <2>1. task'.cur = task.cur /\ co[c].pc = p /\ Dest(c) = p
    BY <1>1, Went DEF Goes, Calm
  <2>2. CASE q = "begin"
    <3>1. p = "reap" /\ c \in Attempt
      BY <1>1, <2>2 DEF Goes, Arrives
    <3>2. Follows(c)
      BY <2>1, <3>1 DEF Follows
    <3>3. c = task.cur
      BY <3>1, <3>2, OneReader
    <3>4. att'[c].proc # "live"
      BY <1>1, <2>2, <3>1 DEF Goes, Shifts
    <3>5. QED
      BY <2>1, <3>1, <3>3, <3>4 DEF Dead
  <2>3. CASE q # "begin"
    <3>1. task.state \in {"verifying", "delivering", "delivered"}
      <4>1. CASE q = "deliver"
        <5>1. p = "verify" /\ c \in Attempt /\ task.state \in {"verifying", "needs_human"}
          BY <1>1, <4>1 DEF Goes, Arrives, Shifts
        <5>2. QED
          BY <2>1, <5>1 DEF Sound, Verifying
      <4>2. CASE q # "deliver"
        BY <1>1, <2>3, <4>2 DEF Goes, Shifts
      <4>3. QED
        BY <4>1, <4>2
    <3>2. task.cur \in Attempt /\ Dead(task.cur)
      BY <3>1 DEF Sound, Reaped
    <3>3. QED
      BY <1>1, <2>1, <3>2 DEF Goes, Calm, Dead
  <2>4. QED
    BY <2>2, <2>3
<1>2. ASSUME NEW c \in Coroutine, Registers(c) PROVE Reaped'
  BY <1>2 DEF Registers, Reaped
<1>3. CASE Forgets
  BY <1>3 DEF Forgets, SameRow, SameVisible, SameProcs, Sound, Reaped, Dead
<1>4. CASE Finishes
  <2>1. /\ \A n \in Attempt : Dead(n) => Dead(n)'
        /\ task'.state = task.state /\ task'.cur = task.cur
    <3>1. ASSUME NEW n \in Attempt, Dead(n) PROVE Dead(n)'
      BY <1>4, <3>1, Numbers DEF Finishes, Dead
    <3>2. QED
      BY <1>4, <3>1, Finished
  <2>2. QED
    BY <2>1 DEF Sound, Reaped, Dead
<1>5. CASE Outside
  BY <1>5 DEF Outside, SameAttempt, Sound, Reaped, Dead
<1>6. CASE \E c \in Coroutine : \E p, q : Goes(c, p, q)
  BY <1>1, <1>6 DEF Reaped
<1>7. QED
  BY <1>2, <1>3, <1>4, <1>5, <1>6, Courses

-----------------------------------------------------------------------------
(* All of it together.                                                      *)

LEMMA SoundStep ==
  ASSUME Sound, [Next]_vars, Unanswered', WaitAssumption
  PROVE  Sound'
<1>0. Safe'
  BY SafeStep DEF Sound
<1>1. CASE Next
  <2>1. Kinds
    BY <1>1, Classified DEF Sound, Safe
  <2>2. Holder' /\ Awake' /\ Undisturbed' /\ Patient' /\ TriageFirst' /\ CleanupFirst'
    BY <2>1, HolderStep, AwakeStep, UndisturbedStep, PatientStep, TriageFirstStep,
       CleanupFirstStep
  <2>3. Unused' /\ Affordable' /\ Unjudged' /\ Verifying'
    BY <2>1, UnusedStep, AffordableStep, UnjudgedStep, VerifyingStep
  <2>4. Alone' /\ ShippedLast' /\ Reaped'
    BY <2>1, AloneStep, ShippedLastStep, ReapedStep
  <2>5. QED
    BY <1>0, <2>2, <2>3, <2>4 DEF Sound
<1>2. CASE UNCHANGED vars
  <2>1. Holder' /\ Awake' /\ Undisturbed' /\ Patient' /\ TriageFirst' /\ CleanupFirst'
    BY <1>2 DEF vars, Sound, Holder, Awake, Undisturbed, Patient, TriageFirst, CleanupFirst, Dest
  <2>2. Unused' /\ Affordable' /\ Unjudged' /\ Verifying'
    BY <1>2 DEF vars, Sound, Unused, Affordable, BudgetLeft, Unjudged, Follows, Verifying, Dest
  <2>3. Alone' /\ ShippedLast' /\ Reaped'
    BY <1>2 DEF vars, Sound, Alone, Doomed, ShippedLast, Reaped, Dead, Dest
  <2>4. QED
    BY <1>0, <2>1, <2>2, <2>3 DEF Sound
<1>3. QED
  BY <1>1, <1>2

LEMMA InitSound ==
  ASSUME Init
  PROVE  Sound
<1>1. /\ \A c \in Coroutine : co[c] = Resting(IF c \in Attempt THEN "off" ELSE "idle")
      /\ \A n \in Attempt : att[n].verdict = "none"
      /\ lock = 0 /\ cpu = 0 /\ task.state = "queued" /\ task.cur = 0
  BY DEF Init
<1>2. \A c \in Coroutine : /\ co[c].pc = (IF c \in Attempt THEN "off" ELSE "idle")
                           /\ co[c].trig = "none" /\ Dest(c) \in {"off", "idle"}
  <2>1. \A p : Resting(p).pc = p /\ Resting(p).trig = "none"
    BY DEF Resting
  <2>2. QED
    BY <1>1, <2>1 DEF Dest
<1>3. \A n \in Attempt : co[n].pc = "off" /\ Dest(n) \in {"off", "idle"} /\ ~Follows(n)
  BY <1>2, Numbers DEF Follows
<1>4. Holder /\ Awake /\ Undisturbed /\ Patient /\ TriageFirst /\ CleanupFirst
  BY <1>1, <1>2, <1>3, Numbers DEF Holder, Awake, Undisturbed, Patient, TriageFirst, CleanupFirst
<1>5. Unused /\ Affordable /\ Unjudged /\ Verifying /\ Alone /\ ShippedLast /\ Reaped
  BY <1>1, <1>2, <1>3 DEF Unused, Affordable, Starting, Unjudged, Verifying, Alone, ShippedLast,
     Reaped
<1>6. QED
  BY <1>4, <1>5, InitSafe DEF Sound

LEMMA SoundHolds ==
  ASSUME WaitAssumption
  PROVE  Spec /\ []Unanswered => []Sound
<1>1. Init => Sound
  BY InitSound
<1>2. Sound /\ [Next]_vars /\ Unanswered' => Sound'
  BY SoundStep
<1>3. QED
  BY <1>1, <1>2, PTL DEF Spec

\* While nobody answers an escalated task, and a supervisor that may wait has at most
\* one retry to spend: the process group of the attempt being verified, delivered, or
\* delivered already, is gone (_watch reaps it before it verifies; core.py:958).
THEOREM WorkIsReaped ==
  ASSUME WaitAssumption
  PROVE  Spec /\ []Unanswered => []VerifyingWorkerReaped
<1>1. Sound => VerifyingWorkerReaped
  BY DEF Sound, Reaped, Dead, VerifyingWorkerReaped
<1>2. QED
  BY <1>1, SoundHolds, PTL

-----------------------------------------------------------------------------
(* The contract.                                                            *)

Passed == {n \in Attempt : att[n].verdict \in {"passed", "shipped"}}

Shipped == {n \in Attempt : att[n].verdict = "shipped"}

\* The two sets, when at most the verdict of the current attempt changes.
LEMMA OneVerdict ==
  ASSUME NEW n \in Attempt, \A m \in Attempt \ {n} : att'[m].verdict = att[m].verdict
  PROVE  /\ att'[n].verdict \in {"passed", "shipped"} => Passed' = Passed \cup {n}
         /\ att'[n].verdict \notin {"passed", "shipped"} => Passed' = Passed \ {n}
         /\ att'[n].verdict = "shipped" => Shipped' = Shipped \cup {n}
         /\ att'[n].verdict # "shipped" => Shipped' = Shipped \ {n}
BY DEF Passed, Shipped

LEMMA Lawful ==
  /\ Contract!Legal("queued", "running") /\ Contract!Legal("triage", "running")
  /\ Contract!Legal("running", "verifying") /\ Contract!Legal("verifying", "delivering")
  /\ Contract!Legal("delivering", "delivered")
  /\ \A s \in {"running", "verifying", "delivering"} : Contract!Legal(s, "triage")
  /\ Contract!Legal("triage", "needs_human") /\ Contract!Legal("triage", "failed")
  /\ Contract!Legal("needs_human", "queued")
  /\ \A s \in STATES \ TERMINAL : Contract!Legal(s, "cancelled")
  /\ Contract!STATES = STATES
BY DEF Contract!Legal, Contract!Transitions, Contract!TERMINAL, Contract!STATES, STATES, TERMINAL

LEMMA Silent ==
  ASSUME task'.state = task.state, task'.retries = task.retries, task'.cur = task.cur,
         Passed' = Passed, Shipped' = Shipped
  PROVE  UNCHANGED Contract!vars
BY DEF Contract!vars, Passed, Shipped

LEMMA VerificationKeeps ==
  ASSUME Sound, NEW n \in Attempt, NEW q, Goes(n, "verify", q)
  PROVE  [Contract!Next]_(Contract!vars)
<1>1. /\ n = task.cur /\ task.state \in {"verifying", "cancelled"} /\ att[n].verdict = "none"
      /\ task'.cur = task.cur /\ task'.retries = task.retries
  BY Went, Numbers DEF Goes, Calm, Sound, Verifying
<1>2. \A m \in Attempt \ {n} : att'[m].verdict = att[m].verdict
  BY <1>1 DEF Goes, Judges
<1>3. att'[n].verdict \in {"none", "failed", "passed"}
  BY <1>1 DEF Goes, Judges
<1>4. n \notin Passed /\ n \notin Shipped
  BY <1>1 DEF Passed, Shipped
<1>5. Shipped' = Shipped
  BY <1>2, <1>3, <1>4, OneVerdict
<1>6. CASE q = "deliver"
  <2>1. task.state = "verifying" /\ task'.state = "delivering" /\ att'[n].verdict = "passed"
    BY <1>1, <1>6 DEF Goes, Shifts
  <2>2. Passed' = Passed \cup {task.cur}
    BY <1>1, <1>2, <2>1, OneVerdict
  <2>3. Contract!Passes
    BY <1>1, <1>5, <2>1, <2>2, Lawful DEF Contract!Passes, Contract!Moves, Passed, Shipped
  <2>4. QED
    BY <2>3 DEF Contract!Next
<1>7. CASE q # "deliver"
  <2>1. task'.state = task.state
    BY <1>1, <1>7 DEF Goes, Shifts
  <2>2. CASE att'[n].verdict = "passed"
    <3>1. Passed' = Passed \cup {task.cur}
      BY <1>1, <1>2, <2>2, OneVerdict
    <3>2. Contract!Passes
      BY <1>1, <1>5, <2>1, <3>1 DEF Contract!Passes, Passed, Shipped
    <3>3. QED
      BY <3>2 DEF Contract!Next
  <2>3. CASE att'[n].verdict # "passed"
    <3>1. Passed' = Passed
      BY <1>2, <1>3, <1>4, <2>3, OneVerdict
    <3>2. QED
      BY <1>1, <1>5, <2>1, <3>1, Silent
  <2>4. QED
    BY <2>2, <2>3
<1>8. QED
  BY <1>6, <1>7

LEMMA DeliveryKeeps ==
  ASSUME Sound, NEW n \in Attempt, NEW q, Goes(n, "deliver", q)
  PROVE  [Contract!Next]_(Contract!vars)
<1>1. /\ n = task.cur /\ task.state \in {"delivering", "cancelled"} /\ att[n].verdict = "passed"
      /\ task'.cur = task.cur /\ task'.retries = task.retries /\ Dest(n) = "deliver"
  BY Went, Numbers DEF Goes, Calm, Sound, Verifying
<1>2. \A m \in Attempt \ {n} : att'[m].verdict = att[m].verdict
  BY <1>1 DEF Goes, Judges
<1>3. n \in Passed /\ Shipped = {}
  <2>1. Shipped = {}
    BY <1>1 DEF Sound, ShippedLast, Shipped
  <2>2. QED
    BY <1>1, <2>1 DEF Passed
<1>4. CASE q = "lock"
  <2>1. task'.state = task.state /\ att'[n].verdict \in {"passed", "unfit"}
    BY <1>1, <1>4 DEF Goes, Shifts, Judges
  <2>2. Shipped' = Shipped
    BY <1>2, <1>3, <2>1, OneVerdict
  <2>3. CASE att'[n].verdict = "passed"
    <3>1. Passed' = Passed
      BY <1>2, <1>3, <2>3, OneVerdict
    <3>2. QED
      BY <1>1, <2>1, <2>2, <3>1, Silent
  <2>4. CASE att'[n].verdict = "unfit"
    <3>1. Passed' = Passed \ {task.cur}
      BY <1>1, <1>2, <2>4, OneVerdict
    <3>2. Contract!Rejects
      BY <1>1, <1>3, <2>1, <2>2, <3>1 DEF Contract!Rejects, Passed, Shipped
    <3>3. QED
      BY <3>2 DEF Contract!Next
  <2>5. QED
    BY <2>1, <2>3, <2>4
<1>5. CASE q # "lock"
  <2>1. att'[n].verdict \in {"passed", "shipped"}
    BY <1>1, <1>5 DEF Goes, Judges
  <2>2. Passed' = Passed
    <3>1. Passed' = Passed \cup {n}
      BY <1>2, <2>1, OneVerdict
    <3>2. QED
      BY <1>3, <3>1
  <2>3. /\ task'.state = task.state \/ (task.state = "delivering" /\ task'.state = "delivered")
        /\ task'.state # task.state => att'[n].verdict = "shipped"
    BY <1>1 DEF Goes, Shifts
  <2>4. CASE att'[n].verdict = "shipped"
    <3>1. Shipped' = Shipped \cup {task.cur}
      BY <1>1, <1>2, <2>4, OneVerdict
    <3>2. Contract!HandsOff
      BY <1>1, <1>3, <2>2, <2>3, <3>1, Lawful DEF Contract!HandsOff, Contract!Moves, Passed, Shipped
    <3>3. QED
      BY <3>2 DEF Contract!Next
  <2>5. CASE att'[n].verdict # "shipped"
    <3>1. Shipped' = Shipped
      BY <1>2, <1>3, <2>5, OneVerdict
    <3>2. QED
      BY <1>1, <2>2, <2>3, <2>5, <3>1, Silent
  <2>6. QED
    BY <2>4, <2>5
<1>6. QED
  BY <1>4, <1>5

\* Every other step of a coroutine leaves what passed and what was handed off alone.
LEMMA WayKeeps ==
  ASSUME Sound, NEW c \in Coroutine, NEW p, NEW q, Goes(c, p, q),
         ~(c \in Attempt /\ p \in {"verify", "deliver"})
  PROVE  [Contract!Next]_(Contract!vars)
<1>1. task'.cur = task.cur /\ task'.retries = task.retries /\ co[c].pc = p
  BY Went DEF Goes, Calm
<1>2. Passed' = Passed /\ Shipped' = Shipped
  <2>1. ASSUME NEW m \in Attempt, att'[m].verdict # att[m].verdict
        PROVE  att[m].verdict = "none" /\ att'[m].verdict = "infra"
    <3>1. m = c /\ p = "read" /\ att'[m].verdict = "infra"
      BY <2>1 DEF Goes, Judges
    <3>2. Follows(m)
      BY <1>1, <3>1 DEF Follows
    <3>3. QED
      BY <3>1, <3>2, OneReader
  <2>2. QED
    BY <2>1 DEF Passed, Shipped
<1>3. task.state \in STATES
  BY Row DEF Sound, Safe
<1>4. CASE task'.state = task.state
  BY <1>1, <1>2, <1>4, Silent
<1>5. CASE q = "begin" /\ task.state = "running" /\ task'.state = "verifying"
  <2>1. Contract!Claims
    BY <1>1, <1>2, <1>5, Lawful DEF Contract!Claims, Contract!Moves, Passed, Shipped
  <2>2. QED
    BY <2>1 DEF Contract!Next
<1>6. CASE /\ task.state \in {"running", "verifying", "delivering"} /\ task'.state = "triage"
  <2>1. task.cur \notin Shipped
    BY <1>6 DEF Sound, ShippedLast, Shipped
  <2>2. Contract!Fails
    BY <1>1, <1>2, <1>6, <2>1, Lawful DEF Contract!Fails, Contract!Moves, Passed, Shipped
  <2>3. QED
    BY <2>2 DEF Contract!Next
<1>7. CASE task.state = "triage" /\ task'.state \in {"needs_human", "failed"}
  <2>1. Contract!Settles
    BY <1>1, <1>2, <1>7, Lawful DEF Contract!Settles, Contract!Moves, Passed, Shipped
  <2>2. QED
    BY <2>1 DEF Contract!Next
<1>8. CASE task.state = "triage" /\ task'.state = "running"
  <2>1. Contract!Continues
    BY <1>1, <1>2, <1>8, Lawful DEF Contract!Continues, Contract!Moves, Passed, Shipped
  <2>2. QED
    BY <2>1 DEF Contract!Next
<1>9. q # "deliver"
  BY DEF Goes, Arrives
<1>10. QED
  BY <1>4, <1>5, <1>6, <1>7, <1>8, <1>9 DEF Goes, Shifts

LEMMA LaunchKeeps ==
  ASSUME Sound, NEW c \in Coroutine, Registers(c)
  PROVE  Contract!Launches \/ Contract!Retries
<1>1. PICK n \in Attempt :
        /\ task'.cur = n /\ task.cur < n /\ Dest(c) = "spawn" /\ SameVerdicts
        /\ task'.state = "running"
        /\ task'.retries = (IF c = Main THEN task.retries ELSE task.retries + 1)
        /\ \/ c = Main /\ task.state = "queued"
           \/ c # Main /\ task.state = "triage"
  BY Hatched
<1>2. n \in Nat /\ task.cur \in Nat /\ task.retries \in Nat /\ MaxRetries \in Nat
  BY <1>1, Numbers, Row, RuntimeAssumption DEF Sound, Safe
<1>3. Passed' = Passed /\ Shipped' = Shipped
  BY <1>1 DEF SameVerdicts, Passed, Shipped
<1>4. CASE c = Main
  BY <1>1, <1>2, <1>3, <1>4, Lawful DEF Contract!Launches, Contract!Moves, Passed, Shipped
<1>5. CASE c # Main
  <2>1. task.retries < MaxRetries
    BY <1>1, <1>5 DEF Sound, Affordable, Starting, BudgetLeft
  <2>2. QED
    BY <1>1, <1>2, <1>3, <1>5, <2>1, Lawful DEF Contract!Retries, Contract!Moves, Passed, Shipped
<1>6. QED
  BY <1>4, <1>5

LEMMA StepKeeps ==
  ASSUME Sound, Kinds
  PROVE  [Contract!Next]_(Contract!vars)
<1>1. ASSUME NEW c \in Coroutine, NEW p, NEW q, Goes(c, p, q)
      PROVE  [Contract!Next]_(Contract!vars)
  BY <1>1, VerificationKeeps, DeliveryKeeps, WayKeeps
<1>2. ASSUME NEW c \in Coroutine, Registers(c) PROVE [Contract!Next]_(Contract!vars)
  BY <1>2, LaunchKeeps DEF Contract!Next
<1>3. CASE Forgets \/ Finishes
  <2>1. SameRow /\ SameVerdicts
    BY <1>3 DEF Forgets, Finishes, SameVisible
  <2>2. Passed' = Passed /\ Shipped' = Shipped
    BY <2>1 DEF SameVerdicts, Passed, Shipped
  <2>3. QED
    BY <2>1, <2>2, Silent DEF SameRow
<1>4. CASE Outside
  <2>1. task'.cur = task.cur /\ task'.retries = task.retries /\ task.state \in STATES
    BY <1>4, Row DEF Outside, SameAttempt, Sound, Safe
  <2>2. Passed' = Passed /\ Shipped' = Shipped
    BY <1>4 DEF Outside, SameVerdicts, Passed, Shipped
  <2>3. CASE task'.state = task.state
    BY <2>1, <2>2, <2>3, Silent
  <2>4. CASE task.state = "needs_human" /\ task'.state = "queued"
    <3>1. Contract!Answered
      BY <2>1, <2>2, <2>4, Lawful DEF Contract!Answered, Contract!Moves, Passed, Shipped
    <3>2. QED
      BY <3>1 DEF Contract!Next
  <2>5. CASE task.state \notin TERMINAL /\ task'.state = "cancelled"
    <3>1. Contract!Cancelled
      BY <2>1, <2>2, <2>5, Lawful DEF Contract!Cancelled, Contract!Moves, Passed, Shipped
    <3>2. QED
      BY <3>1 DEF Contract!Next
  <2>6. QED
    BY <1>4, <2>3, <2>4, <2>5 DEF Outside
<1>5. QED
  BY <1>1, <1>2, <1>3, <1>4, Courses

\* Then the scheduler, its coroutines and the people keep the contract of the task
\* (TaskContract): every step of theirs is a step of it or leaves its row alone.
THEOREM RuntimeKeepsContract ==
  ASSUME WaitAssumption
  PROVE  Spec /\ []Unanswered => ContractKept
<1>1. Init => Contract!Init
  BY DEF Init, Contract!Init
<1>2. Sound /\ [Next]_vars => [Contract!Next]_(Contract!vars)
  <2>1. CASE Sound /\ Next
    BY <2>1, Classified, StepKeeps DEF Sound, Safe
  <2>2. CASE UNCHANGED vars
    BY <2>2 DEF vars, Contract!vars
  <2>3. QED
    BY <2>1, <2>2
<1>3. QED
  BY <1>1, <1>2, SoundHolds, PTL DEF Spec, ContractKept, Contract!Spec

-----------------------------------------------------------------------------
(* What the contract amounts to.                                            *)

LEMMA CoherentStep ==
  ASSUME Contract!Coherent, [Contract!Next]_(Contract!vars)
  PROVE  Contract!Coherent'
<1>0. MaxRetries \in Nat
  BY RuntimeAssumption
<1>1. CASE Contract!Launches
  BY <1>0, <1>1 DEF Contract!Coherent, Contract!Launches, Contract!Moves, Contract!Legal,
     Contract!TERMINAL, Contract!STATES
<1>2. CASE Contract!Retries
  BY <1>0, <1>2 DEF Contract!Coherent, Contract!Retries, Contract!Moves, Contract!Legal,
     Contract!TERMINAL, Contract!STATES
<1>3. CASE Contract!Continues
  BY <1>0, <1>3 DEF Contract!Coherent, Contract!Continues, Contract!Moves, Contract!Legal,
     Contract!TERMINAL, Contract!STATES
<1>4. CASE Contract!Claims
  BY <1>0, <1>4 DEF Contract!Coherent, Contract!Claims, Contract!Moves, Contract!Legal,
     Contract!TERMINAL, Contract!STATES
<1>5. CASE Contract!Passes
  BY <1>0, <1>5 DEF Contract!Coherent, Contract!Passes, Contract!Moves, Contract!Legal,
     Contract!TERMINAL, Contract!STATES
<1>6. CASE Contract!StartsDelivery
  BY <1>0, <1>6 DEF Contract!Coherent, Contract!StartsDelivery, Contract!Moves, Contract!Legal,
     Contract!TERMINAL, Contract!STATES
<1>7. CASE Contract!Rejects
  BY <1>0, <1>7 DEF Contract!Coherent, Contract!Rejects
<1>8. CASE Contract!HandsOff
  BY <1>0, <1>8 DEF Contract!Coherent, Contract!HandsOff, Contract!Moves, Contract!Legal,
     Contract!TERMINAL, Contract!STATES
<1>9. CASE Contract!Delivers
  BY <1>0, <1>9 DEF Contract!Coherent, Contract!Delivers, Contract!Moves, Contract!Legal,
     Contract!TERMINAL, Contract!STATES
<1>10. CASE Contract!Fails
  BY <1>0, <1>10 DEF Contract!Coherent, Contract!Fails, Contract!Moves, Contract!Legal,
     Contract!TERMINAL, Contract!STATES
<1>11. CASE Contract!Settles
  BY <1>0, <1>11 DEF Contract!Coherent, Contract!Settles, Contract!Moves, Contract!Legal,
     Contract!TERMINAL, Contract!STATES
<1>12. CASE Contract!Answered
  BY <1>0, <1>12 DEF Contract!Coherent, Contract!Answered, Contract!Moves, Contract!Legal,
     Contract!TERMINAL, Contract!STATES
<1>13. CASE Contract!Cancelled
  BY <1>0, <1>13 DEF Contract!Coherent, Contract!Cancelled, Contract!Moves, Contract!Legal,
     Contract!TERMINAL, Contract!STATES
<1>14. CASE UNCHANGED Contract!vars
  BY <1>14 DEF Contract!Coherent, Contract!vars
<1>15. QED
  BY <1>1, <1>2, <1>3, <1>4, <1>5, <1>6, <1>7, <1>8, <1>9, <1>10, <1>11, <1>12,
     <1>13, <1>14 DEF Contract!Next

\* So, under the same conditions, the retries stay within max_retries, a delivered task's
\* current attempt was handed off, only what passed verification is handed off, and one
\* attempt of a task at most is (_handle_triage, _run_verify, _deliver).
THEOREM RuntimeKeepsPromise ==
  ASSUME WaitAssumption
  PROVE  Spec /\ []Unanswered => []Contract!Promise
<1>1. Contract!Init => Contract!Coherent
  BY RuntimeAssumption DEF Contract!Init, Contract!Coherent, Contract!STATES
<1>2. Contract!Coherent /\ [Contract!Next]_(Contract!vars) => Contract!Coherent'
  BY CoherentStep
<1>3. Contract!Coherent => Contract!Promise
  BY DEF Contract!Coherent, Contract!Promise
<1>4. QED
  BY <1>1, <1>2, <1>3, RuntimeKeepsContract, PTL DEF ContractKept, Contract!Spec

-----------------------------------------------------------------------------
(* The end of a run.                                                        *)

\* Nobody has cancelled the task.
Uncancelled == cli.cancels = 0

\* The main loop has not begun to drain.
Halting == stop.phase \in {"running", "watchdog"}

\* An attempt newer than the current one has had no worker.
Unspawned == \A n \in Attempt : n > task.cur => att[n].proc = "none"

\* Whoever lived when the drain began is dead.
Gone == \A n \in Attempt : ~Dead(n) => n \in stop.unborn

\* The main loop waits for the cleanup that is to kill the one who lived then.
Going ==
  /\ co[Main].pc = "teardown" /\ td.phase # "none"
  /\ \A c \in Coroutine : co[c].pc \notin Starting
  /\ \E n \in Attempt :
       /\ \A m \in Attempt : ~Dead(m) => m = n \/ m \in stop.unborn
       /\ td.phase = "start" => mem.reg = n /\ td.expect \in {0, n}
       /\ td.phase = "reap" => td.proc = n

Drained ==
  /\ co[Main].pc = "join" => stop.phase = "struck"
  /\ \A n \in Attempt : n > task.made => n \in stop.unborn
  /\ \A c \in Coroutine : co[c].pc \in {"slot", "spawn"} => co[c].new \in stop.unborn
  /\ Gone \/ (stop.phase = "drain" /\ Going)

StopType ==
  [phase  : {"running", "watchdog", "struck", "drain", "closed", "cancelled", "over"},
   unborn : SUBSET Attempt,
   hit    : BOOLEAN]

\* Until the drain begins the runtime is safe; from then on, who lived is gone or going.
Ending ==
  /\ Typed /\ stop \in StopType
  /\ IF Halting THEN Safe /\ Unspawned /\ task.state # "cancelled" ELSE Drained

\* A coroutine that is cancelled, or unwinds: it launches nothing and enters no triage.
Halts(c) ==
  /\ c # Main => Keeps(c, co[c])
  /\ c \in Attempt => co[c].pc = "aborted" /\ co'[c].pc = "raise"
  /\ \/ co[c].pc = "teardown" /\ co'[c].pc = "teardown" /\ co'[c].then \in {"off", "raise"}
     \/ /\ co[c].pc # "teardown" /\ co'[c].then = co[c].then
        /\ co'[c].pc \in {"raise", "aborted", "stop", "join", "dead"}
  /\ c = Main => co[c].pc # "join" /\ co'[c].pc \in {"raise", "aborted", "stop", "join"}

\* A step that only cancels coroutines, and gives a lease up.
Breaks ==
  /\ task' = task /\ td' = td /\ lock' = lock /\ infra' = infra /\ cli' = cli /\ run' = run
  /\ SameVisible /\ mem' \in {mem, [mem EXCEPT !.held = 0]}
  /\ \A c \in Coroutine : co'[c] = co[c] \/ Halts(c)
  /\ co'[Dog] = co[Dog] \/ co[Dog].pc = "aborted" \/ co'[Main].pc = "join"
  /\ cpu' = cpu \/ Dest(Dog)' # "return" \/ cpu # Dog

LEMMA InterruptedShape ==
  ASSUME Typed, NEW c \in Coroutine
  PROVE  LET d == Interrupted(co[c]) IN
         /\ d \in CoType /\ d.trig = co[c].trig /\ d.arg = co[c].arg /\ d.new = co[c].new
         /\ d.paid = co[c].paid
         /\ co[c].pc = "teardown" =>
              d.pc = "teardown" /\ d.then = IF co[c].then = "off" THEN "off" ELSE "raise"
         /\ co[c].pc \in {"off", "dead"} => d = co[c]
         /\ co[c].pc \in {"slot", "spawn"} => d.pc = "aborted" /\ d.then = "none"
         /\ co[c].pc \notin {"teardown", "off", "dead", "slot", "spawn"} =>
              d.pc = "raise" /\ d.then = "none"
<1>1. /\ co[c] \in CoType /\ {"aborted", "raise"} \subseteq Place /\ {"off", "raise"} \subseteq After
      /\ co[c].pc # "teardown" => co[c].then = "none"
  BY Names, Mine
<1>2. CASE co[c].pc = "teardown"
  <2>1. Interrupted(co[c]) = [co[c] EXCEPT !.then = IF co[c].then = "off" THEN "off" ELSE "raise"]
    BY <1>2 DEF Interrupted
  <2>2. QED
    BY <1>1, <1>2, <2>1 DEF CoType
<1>3. CASE co[c].pc \in {"slot", "spawn"}
  <2>1. Interrupted(co[c]) = [co[c] EXCEPT !.pc = "aborted"]
    BY <1>3 DEF Interrupted
  <2>2. QED
    BY <1>1, <1>3, <2>1 DEF CoType
<1>4. CASE co[c].pc \in {"off", "dead"}
  <2>1. Interrupted(co[c]) = co[c]
    BY <1>4 DEF Interrupted
  <2>2. QED
    BY <1>1, <1>4, <2>1
<1>5. CASE co[c].pc \notin {"teardown", "off", "dead", "slot", "spawn"}
  <2>1. Interrupted(co[c]) = [co[c] EXCEPT !.pc = "raise"]
    BY <1>5 DEF Interrupted
  <2>2. QED
    BY <1>1, <1>5, <2>1 DEF CoType
<1>6. QED
  BY <1>2, <1>3, <1>4, <1>5

\* The types after a step that takes and gives no slot back, and lets nobody spawn.
LEMMA BrokenTyped ==
  ASSUME Typed, task' = task, att' \in [Attempt -> AttType], lock' = lock, infra' = infra,
         run' = run, cli' = cli, mem' \in {mem, [mem EXCEPT !.held = 0]},
         cpu' \in Coroutine \cup {0}, late' \subseteq Coroutine \cup {0},
         td' \in [phase : {"none", "start", "reap"}, expect : Attempt \cup {0},
                  owner : Coroutine \cup {0}, proc : Attempt \cup {0}],
         co' \in [Coroutine -> CoType],
         \A c \in Coroutine : /\ co'[c].pc = "teardown" <=> co'[c].then # "none"
                              /\ co'[c].pc \in {"slot", "spawn"} => co'[c] = co[c]
  PROVE  Typed'
<1>1. /\ task \in TaskType /\ mem \in MemType /\ lock \in Coroutine \cup {0}
      /\ infra \in BOOLEAN /\ run \in {"on", "failed"}
  BY Types DEF Typed
<1>2. mem' \in MemType /\ mem'.free = mem.free /\ mem'.others = mem.others /\ mem'.wt = mem.wt
  BY <1>1 DEF MemType
<1>3. TypeOK'
  BY <1>1, <1>2 DEF TypeOK, TaskType, AttType, MemType
<1>4. Spawners' \subseteq Spawners
  BY DEF Spawners
<1>5. Cardinality(Spawners') <= Cardinality(Spawners) /\ Cardinality(Spawners') \in Nat
      /\ Cardinality(Spawners) \in Nat
  BY <1>4, SpawnersFinite, FS_Subset, FS_CardinalityType
<1>6. mem'.free + mem'.others + Taken' + Cardinality(Spawners') <= Slots
  <2>1. mem.free \in Nat /\ mem.others \in Nat /\ Taken \in {0, 1} /\ Slots \in Nat
    BY <1>1, RuntimeAssumption DEF MemType, Taken
  <2>2. Taken' = Taken
    BY <1>2 DEF Taken
  <2>3. QED
    BY <1>2, <1>5, <2>1, <2>2 DEF Typed
<1>7. QED
  BY <1>3, <1>6 DEF Typed

\* A coroutine that is cancelled or unwinds, and gives its lease up (_abort_launch, Unwind).
LEMMA AbortBreaks ==
  ASSUME Typed, NEW c \in Coroutine, AbortLaunch(c)
  PROVE  /\ Breaks /\ Typed'
         /\ \A d \in Coroutine : co'[d] = co[d] \/ co'[d].pc = "raise"
<1>0. {"aborted", "raise"} \subseteq Place /\ "aborted" # "teardown"
  BY Names
<1>1. At(c, "aborted") /\ co[c] \in MeType /\ co[c].then = "none" /\ co[c].pc = "aborted"
  BY Mine DEF AbortLaunch, At
<1>2. Turn(c, "aborted", "raise") /\ co'[c].pc = "raise" /\ Keeps(c, co[c])
  BY <1>0, <1>1, Continues DEF AbortLaunch, Goto
<1>3. /\ co' \in [Coroutine -> CoType] /\ co'[c].then = "none" /\ Yields(c)
      /\ \A d \in Coroutine \ {c} : co'[d] = co[d]
      /\ cpu \in {0, c}
  BY <1>2 DEF Turn
<1>4. /\ task' = task /\ td' = td /\ lock' = lock /\ infra' = infra /\ cli' = cli /\ run' = run
      /\ mem' = [mem EXCEPT !.held = 0]
  BY DEF AbortLaunch
<1>5. att' \in [Attempt -> AttType] /\ SameVisible
  <2>1. /\ att \in [Attempt -> AttType]
        /\ att' = [att EXCEPT ![co[c].new].lease = IF @ = "active" THEN "recovered" ELSE @]
    BY RowShapes DEF AbortLaunch
  <2>2. CASE co[c].new \notin Attempt
    <3>1. att' = att
      BY <2>1, <2>2
    <3>2. QED
      BY <2>1, <3>1 DEF SameVisible, SameProcs, SameVerdicts
  <2>3. CASE co[c].new \in Attempt
    <3>1. PICK l \in {"none", "active", "expired", "released", "recovered"} :
            att' = [att EXCEPT ![co[c].new].lease = l]
      BY <2>1, <2>3 DEF AttType
    <3>2. QED
      BY <2>1, <2>3, <3>1 DEF AttType, SameVisible, SameProcs, SameVerdicts
  <2>4. QED
    BY <2>2, <2>3
<1>6. cpu' \in Coroutine \cup {0} /\ late' \subseteq Coroutine \cup {0}
  BY <1>3, YieldsTyped
<1>7. \A d \in Coroutine : /\ co'[d].pc = "teardown" <=> co'[d].then # "none"
                           /\ co'[d].pc \in {"slot", "spawn"} => co'[d] = co[d]
  BY <1>2, <1>3 DEF Typed
<1>8. Typed'
  BY <1>3, <1>4, <1>5, <1>6, <1>7, BrokenTyped DEF Typed
<1>9. Breaks
  <2>1. Halts(c)
    BY <1>1, <1>2, <1>3 DEF Halts
  <2>2. co'[Dog] = co[Dog] \/ co[Dog].pc = "aborted"
    BY <1>1, <1>3, Numbers
  <2>3. Dest(Dog)' # "return" \/ cpu # Dog
    BY <1>2, <1>3, Numbers DEF Dest
  <2>4. QED
    BY <1>3, <1>4, <1>5, <2>1, <2>2, <2>3 DEF Breaks
<1>10. QED
  BY <1>2, <1>3, <1>8, <1>9

LEMMA InterruptBreaks ==
  ASSUME Typed, Apart, Interrupt
  PROVE  Breaks /\ Typed'
<1>0. Main \in Coroutine /\ "stop" \in Place
  BY Names, Numbers
<1>1. /\ co[Main] \in CoType /\ co[Main].pc \in {"idle", "slot", "spawn"}
      /\ co[Main].then = "none" /\ cpu = 0
  BY <1>0, Mine DEF Interrupt, Hit
<1>2. PICK d \in CoType :
        /\ d.pc \in {"stop", "aborted"} /\ d.then = "none"
        /\ d.trig = co[Main].trig /\ d.arg = co[Main].arg /\ d.new = co[Main].new
        /\ d.paid = co[Main].paid
        /\ co' = [co EXCEPT ![Main] = d]
  <2>1. CASE co[Main].pc = "idle"
    <3>1. co' = [co EXCEPT ![Main] = [co[Main] EXCEPT !.pc = "stop"]]
      BY <2>1 DEF Interrupt
    <3>2. QED
      BY <1>0, <1>1, <3>1 DEF CoType
  <2>2. CASE co[Main].pc # "idle"
    <3>1. co' = [co EXCEPT ![Main] = Interrupted(co[Main])]
      BY <2>2 DEF Interrupt
    <3>2. QED
      BY <1>0, <1>1, <2>2, <3>1, InterruptedShape
  <2>3. QED
    BY <2>1, <2>2
<1>3. /\ co' \in [Coroutine -> CoType] /\ co'[Main] = d
      /\ \A c \in Coroutine \ {Main} : co'[c] = co[c]
  BY <1>0, <1>2 DEF Typed
<1>4. /\ task' = task /\ td' = td /\ lock' = lock /\ infra' = infra /\ cli' = cli /\ run' = run
      /\ mem' = mem /\ att' = att /\ cpu' = cpu /\ late' = late
  BY DEF Interrupt
<1>5. Typed'
  <2>1. \A c \in Coroutine : /\ co'[c].pc = "teardown" <=> co'[c].then # "none"
                             /\ co'[c].pc \in {"slot", "spawn"} => co'[c] = co[c]
    BY <1>2, <1>3 DEF Typed
  <2>2. cpu \in Coroutine \cup {0} /\ late \subseteq Coroutine \cup {0} /\ att \in [Attempt -> AttType]
    BY Types DEF Typed
  <2>3. QED
    BY <1>3, <1>4, <2>1, <2>2, BrokenTyped DEF Typed
<1>6. Breaks
  <2>1. Halts(Main)
    BY <1>1, <1>2, <1>3, Numbers DEF Halts, Keeps
  <2>2. co'[Dog] = co[Dog]
    BY <1>3, Numbers
  <2>3. QED
    BY <1>3, <1>4, <2>1, <2>2 DEF Breaks, SameVisible, SameProcs, SameVerdicts
<1>7. QED
  BY <1>5, <1>6

LEMMA StopBreaks ==
  ASSUME Typed, Apart, StopBegins
  PROVE  Breaks /\ Typed'
<1>0. /\ Main \in Coroutine /\ Dog \in Coroutine /\ Main # Dog /\ "join" \in Place
      /\ Main \notin Attempt /\ Dog \notin Attempt
  BY Names, Numbers
<1>1. co[Main].pc \in {"stop", "idle"} /\ co[Main].then = "none" /\ cpu \in {0, Main}
  BY <1>0, Mine DEF StopBegins, At
<1>2. Resting("join") \in CoType /\ Resting("join").pc = "join" /\ Resting("join").then = "none"
  BY <1>0, Names DEF Resting, CoType
<1>3. PICK d \in CoType :
        /\ d = Interrupted(co[Dog])
        /\ d.pc = "teardown" <=> d.then # "none"
        /\ d.pc \notin {"slot", "spawn"}
        /\ d = co[Dog] \/ /\ d.trig = co[Dog].trig /\ d.arg = co[Dog].arg /\ d.new = co[Dog].new
                          /\ d.paid = co[Dog].paid
                          /\ \/ co[Dog].pc = "teardown" /\ d.pc = "teardown" /\ d.then \in {"off", "raise"}
                             \/ /\ co[Dog].pc # "teardown" /\ d.then = co[Dog].then
                                /\ d.pc \in {"raise", "aborted"}
  <2>1. co[Dog].pc = "teardown" <=> co[Dog].then # "none"
    BY <1>0 DEF Typed
  <2>2. QED
    BY <1>0, <2>1, InterruptedShape
<1>4. co' = [co EXCEPT ![Dog] = d, ![Main] = Resting("join")]
  BY <1>3 DEF StopBegins
<1>5. /\ co' \in [Coroutine -> CoType] /\ co'[Dog] = d /\ co'[Main] = Resting("join")
      /\ \A c \in Coroutine \ {Main, Dog} : co'[c] = co[c]
  <2> DEFINE r == Resting("join")
  <2>1. r \in CoType /\ co \in [Coroutine -> CoType] /\ co' = [co EXCEPT ![Dog] = d, ![Main] = r]
    BY <1>2, <1>4 DEF Typed
  <2> HIDE DEF r
  <2>2. /\ co' \in [Coroutine -> CoType] /\ co'[Dog] = d /\ co'[Main] = r
        /\ \A c \in Coroutine \ {Main, Dog} : co'[c] = co[c]
    BY <1>0, <2>1
  <2>3. QED
    BY <2>2 DEF r
<1>6. /\ task' = task /\ td' = td /\ lock' = lock /\ infra' = infra /\ cli' = cli /\ run' = run
      /\ mem' = mem /\ att' = att /\ cpu' = 0 /\ QueuedBehind(Main)
  BY DEF StopBegins
<1>7. Typed'
  <2>1. \A c \in Coroutine : /\ co'[c].pc = "teardown" <=> co'[c].then # "none"
                             /\ co'[c].pc \in {"slot", "spawn"} => co'[c] = co[c]
    BY <1>2, <1>3, <1>5 DEF Typed
  <2>2. late \subseteq Coroutine \cup {0} /\ att \in [Attempt -> AttType]
    BY Types DEF Typed
  <2>3. cpu' \in Coroutine \cup {0} /\ late' \subseteq Coroutine \cup {0}
    BY <1>0, <1>6, <2>2 DEF QueuedBehind
  <2>4. QED
    BY <1>5, <1>6, <2>1, <2>2, <2>3, BrokenTyped DEF Typed
<1>8. Breaks
  <2>1. Halts(Main)
    BY <1>0, <1>1, <1>2, <1>5 DEF Halts
  <2>2. co'[Dog] = co[Dog] \/ Halts(Dog)
    BY <1>0, <1>3, <1>5 DEF Halts, Keeps
  <2>3. co'[Main].pc = "join" /\ cpu # Dog
    BY <1>0, <1>1, <1>2, <1>5, Numbers
  <2>4. QED
    BY <1>5, <1>6, <2>1, <2>2, <2>3 DEF Breaks, SameVisible, SameProcs, SameVerdicts
<1>9. QED
  BY <1>7, <1>8

\* A run that is being ended stays safe.
LEMMA BreaksSafe ==
  ASSUME Safe, Breaks, Typed'
  PROVE  Safe'
<1>1. /\ mem'.reg = mem.reg /\ mem'.slot = mem.slot /\ mem'.wt = mem.wt /\ mem'.seen = mem.seen
      /\ mem'.free = mem.free /\ mem'.others = mem.others /\ mem'.held \in {mem.held, 0}
  BY RowShapes DEF Breaks, Safe, MemType
<1>2. \A n \in Attempt : /\ Dead(n)' = Dead(n) /\ att'[n].verdict = att[n].verdict
                         /\ co'[n].trig = co[n].trig
                         /\ co'[n] = co[n] \/ (co[n].pc = "aborted" /\ co'[n].pc = "raise")
  BY Numbers DEF Breaks, SameVisible, SameProcs, SameVerdicts, Dead, Halts, Keeps
<1>3. /\ task' = task /\ td' = td /\ lock' = lock /\ infra' = infra /\ cli' = cli
      /\ \A c \in Coroutine : co'[c] = co[c] \/ Halts(c)
      /\ Main \in Coroutine /\ Dog \in Coroutine
  BY Numbers DEF Breaks
<1>4. \A c \in Coroutine : /\ co'[c].pc = "teardown" <=> co[c].pc = "teardown"
                           /\ Dest(c)' = Dest(c)
                                \/ Dest(c)' \in {"off", "raise", "aborted", "stop", "join", "dead"}
                           /\ co'[c].pc \in Starting \cup {"idle"} => co'[c] = co[c]
  BY <1>3 DEF Halts, Dest, Starting
<1>5. Apart'
  BY <1>3 DEF Safe, Apart, Halts
<1>6. Counted'
  BY <1>3 DEF Safe, Counted
<1>7. Fresh'
  <2> SUFFICES ASSUME Unborn' PROVE Fresh'
    BY DEF Fresh, Unborn
  <2>1. Unborn /\ co'[Main].pc # "join"
    BY <1>3 DEF Unborn, Halts
  <2>2. co[Dog].pc = "idle"
    BY <2>1 DEF Safe, Fresh, Unborn
  <2>3. co'[Dog] = co[Dog]
    BY <2>1, <2>2 DEF Breaks
  <2>4. \A n \in Attempt : co[n].pc = "off" /\ co'[n].pc = "off" /\ Dead(n)'
                           /\ att'[n].verdict = "none"
    BY <1>2, <2>1 DEF Safe, Fresh, Unborn
  <2>5. co'[Main].pc \in {"idle", "slot", "spawn"} => co'[Main] = co[Main]
    BY <1>3, <1>4 DEF Starting
  <2>6. QED
    BY <1>1, <1>3, <2>1, <2>2, <2>3, <2>4, <2>5 DEF Safe, Fresh, Unborn
<1>8. TriageLocked'
  BY <1>3, <1>4 DEF Safe, TriageLocked, InTriage
<1>9. StartsClean'
  <2> SUFFICES ASSUME NEW c \in Coroutine, co'[c].pc \in Starting
               PROVE  /\ \A n \in Attempt : Dead(n)'
                      /\ mem'.reg = 0 /\ mem'.wt = 0 /\ td'.phase = "none"
                      /\ co'[c].pc = "launch" => mem'.slot = 0 /\ mem'.held = 0
                      /\ co'[c].pc = "slot" => mem'.slot = 0
                      /\ co'[c].pc = "spawn" => mem'.slot = co'[c].new
                      /\ co'[c].pc \in {"slot", "spawn"} =>
                           co'[c].new = task'.made /\ task'.cur < task'.made
    BY DEF StartsClean, Starting
  <2>1. co'[c] = co[c] /\ co[c].pc \in Starting
    BY <1>4
  <2>2. QED
    BY <1>1, <1>2, <1>3, <2>1 DEF Safe, StartsClean
<1>10. CleanupKnown'
  BY <1>1, <1>3, <1>4 DEF Safe, CleanupKnown
<1>11. DogLeaves'
  <2>1. ASSUME Dest(Dog)' = "return" PROVE lock' = Dog \/ (cpu' = Dog /\ NoTriage')
    <3>1. Dest(Dog) = "return"
      BY <1>3, <1>4, <2>1
    <3>2. NoTriage => NoTriage'
      BY <1>4 DEF NoTriage, InTriage
    <3>3. cpu = Dog => cpu' = Dog
      BY <2>1 DEF Breaks
    <3>4. QED
      BY <1>3, <3>1, <3>2, <3>3 DEF Safe, DogLeaves
  <2>2. QED
    BY <2>1 DEF DogLeaves
<1>12. LiveKnown'
  <2>1. NoTriage => NoTriage'
    BY <1>4 DEF NoTriage, InTriage
  <2>2. QED
    BY <1>1, <1>2, <1>3, <2>1 DEF Safe, LiveKnown, Reaping
<1>13. OneLive' /\ CurrentKnown'
  BY <1>1, <1>2, <1>3 DEF Safe, OneLive, CurrentKnown, Reaping
<1>14. ReadersRegistered'
  <2> SUFFICES ASSUME NEW n \in Attempt
               PROVE  /\ Follows(n)' => Registered(n)'
                      /\ co'[n].trig # "stalled"
                      /\ co'[n].pc = "teardown" /\ co'[n].then = "lock" => co'[n].trig # "asked"
                      /\ co'[n].pc = "teardown" /\ co'[n].then = "eof" => "sdk_timeout" \in Lines
    BY DEF ReadersRegistered
  <2>1. CASE co'[n] = co[n]
    BY <1>1, <1>3, <2>1 DEF Safe, ReadersRegistered, Follows, Registered, Reaping
  <2>2. CASE co'[n] # co[n]
    BY <1>2, <2>2 DEF Safe, ReadersRegistered, Follows
  <2>3. QED
    BY <2>1, <2>2
<1>15. SlotKept' /\ PoolAdds' /\ SettledClean'
  BY <1>1, <1>2, <1>3 DEF Safe, SlotKept, PoolAdds, Occupied, SettledClean, Emptied
<1>16. QED
  BY <1>5, <1>6, <1>7, <1>8, <1>9, <1>10, <1>11, <1>12, <1>13, <1>14, <1>15 DEF Safe

\* Only a spawn gives an attempt a worker.
LEMMA NoneStays ==
  ASSUME Typed, Step, NEW n \in Attempt, att[n].proc = "none"
  PROVE  att'[n].proc = "none" \/ \E c \in Coroutine : Spawned(c) /\ co[c].new = n
<1>0. att \in [Attempt -> AttType]
  BY RowShapes
<1>1. ASSUME NEW c \in Coroutine, MainLaunch \/ Relaunch(c) PROVE att'[n].proc = "none"
  BY <1>0, <1>1 DEF MainLaunch, Relaunch, StartLaunch, AttType
<1>2. ASSUME NEW c \in Coroutine, GetSlot(c) \/ SpawnFails(c) PROVE att'[n].proc = "none"
  BY <1>0, <1>2 DEF GetSlot, SpawnFails, AttType
<1>3. ASSUME NEW c \in Coroutine, Spawned(c), co[c].new # n PROVE att'[n].proc = "none"
  BY <1>0, <1>3 DEF Spawned, AttType
<1>4. ASSUME NEW c \in Coroutine, Triaging(c) PROVE att'[n].proc = "none"
  BY <1>4 DEF Triaging, TriageEnters, PolicyRelaunches, PolicyEscalates, UnfinishedEscalates,
     InvokeSupervisor, SupervisorActs, Return, Raise
<1>5. ASSUME NEW m \in Attempt, ReadFenced(m) \/ ReadLog(m) \/ ReadDone(m) \/ ReadAsked(m)
                                \/ ReadInfra(m) \/ EndOfStream(m)
      PROVE  att'[n].proc = "none"
  BY <1>0, <1>5 DEF ReadFenced, ReadLog, ReadDone, ReadAsked, ReadInfra, EndOfStream, Accept, AttType
<1>6. ASSUME NEW m \in Attempt, ReapedDone(m) PROVE att'[n].proc = "none"
  BY <1>0, <1>6 DEF ReapedDone, Kill, AttType
<1>7. ASSUME NEW m \in Attempt, MarkExit(m) PROVE att'[n].proc = "none"
  <2>1. att' = att \/ att' = [att EXCEPT ![task.cur].signalled = TRUE]
    BY <1>7 DEF MarkExit
  <2>2. QED
    BY <1>0, <2>1 DEF AttType
<1>8. ASSUME NEW m \in Attempt, \/ VerifyBegins(m) \/ VerifyPasses(m) \/ VerifyFails(m)
                                \/ DeliverFails(m) \/ Deliver(m)
      PROVE  att'[n].proc = "none"
  <2>1. att' = att \/ \E v \in {"passed", "failed", "unfit", "shipped"}, k \in {co[m].arg, task.cur} :
                         att' = [att EXCEPT ![k].verdict = v]
    BY <1>8 DEF VerifyBegins, VerifyPasses, VerifyFails, DeliverFails, Deliver
  <2>2. QED
    BY <1>0, <2>1 DEF AttType
<1>9. CASE DogTimeout \/ DogStall
  <2>1. att' = att \/ att' = [att EXCEPT ![task.cur].signalled = TRUE]
    BY <1>9 DEF DogTimeout, DogStall
  <2>2. QED
    BY <1>0, <2>1 DEF AttType
<1>10. CASE TeardownStarts \/ OthersUseSlots \/ Answer \/ Cancel
  BY <1>10 DEF TeardownStarts, OthersUseSlots, Answer, Cancel
<1>11. CASE TeardownEnds
  <2>1. att' = RowsAfterTeardown
    BY <1>11 DEF TeardownEnds
  <2>2. QED
    BY <1>0, <2>1 DEF RowsAfterTeardown, AttType
<1>12. CASE \/ \E m \in Attempt, kind \in Lines : WorkerWrites(m, kind)
            \/ \E m \in Attempt, how \in Exits : WorkerExits(m, how)
            \/ \E m \in Attempt : LeaseLapses(m)
  BY <1>0, <1>12 DEF WorkerWrites, WorkerExits, LeaseLapses, AttType
<1>13. QED
  BY <1>1, <1>2, <1>3, <1>4, <1>5, <1>6, <1>7, <1>8, <1>9, <1>10, <1>11, <1>12, Numbers
     DEF Step, Launching, Watching

\* Only people cancel a task.
LEMMA StaysUncancelled ==
  ASSUME Typed, Kinds, Uncancelled', task.state # "cancelled"
  PROVE  task'.state # "cancelled"
<1>1. ASSUME NEW c \in Coroutine,
             \/ Begins(c) \/ GetsSlot(c) \/ Registers(c) \/ Orphans(c) \/ Misfires(c)
             \/ Enters(c) \/ Decides(c) \/ Leaves(c)
      PROVE  task'.state # "cancelled"
  BY <1>1 DEF Begins, GetsSlot, Registers, Orphans, Misfires, Enters, Decides, Decision, Leaves, SameRow
<1>2. ASSUME NEW n \in Attempt, \/ ReadsLine(n) \/ Reaps(n) \/ Ends(n) \/ Opens(n) \/ Verifies(n)
                                \/ HandsOver(n)
      PROVE  task'.state # "cancelled"
  BY <1>2 DEF ReadsLine, Reaps, Ends, Opens, Verifies, HandsOver, SameRow
<1>3. CASE Sweeps \/ Forgets \/ Aborts \/ Finishes \/ Outside
  BY <1>3 DEF Sweeps, Forgets, Aborts, Finishes, Outside, SameRow, Uncancelled
<1>4. QED
  BY <1>1, <1>2, <1>3 DEF Kinds

\* The current attempt is replaced by a newer one only.
LEMMA CurrentGrows ==
  ASSUME Safe, Kinds
  PROVE  task'.cur >= task.cur
<1>0. task.cur \in Nat /\ task.made \in Nat
  BY Row, Numbers DEF Safe
<1>1. ASSUME NEW c \in Coroutine, Mover(c) \/ Launches(c) \/ Orphans(c) PROVE task'.cur = task.cur
  BY <1>1 DEF Mover, Kept, Launches, Begins, GetsSlot, Orphans, SameRow
<1>2. ASSUME NEW c \in Coroutine, Registers(c) PROVE task'.cur >= task.cur
  <2>1. co[c].new = task.made /\ task.cur < task.made
    BY <1>2 DEF Safe, StartsClean, Registers, Starting
  <2>2. QED
    BY <1>0, <1>2, <2>1 DEF Registers
<1>3. CASE Forgets \/ Finishes \/ Outside
  BY <1>0, <1>3 DEF Forgets, Finishes, Outside, SameRow, SameAttempt
<1>4. QED
  BY <1>0, <1>1, <1>2, <1>3, KindsMove

LEMMA HaltingStep ==
  ASSUME Ending, Halting, Step, stop' = stop, Unanswered', Uncancelled'
  PROVE  Ending'
<1>0. Safe /\ Unspawned /\ task.state # "cancelled" /\ Typed
  BY DEF Ending
<1>1. Kinds
  BY <1>0, Classified DEF Next
<1>2. Safe' /\ Typed'
  <2>1. Safe'
    BY <1>0, SafeStep DEF Next
  <2>2. QED
    BY <2>1 DEF Safe
<1>3. task'.state # "cancelled"
  BY <1>0, <1>1, StaysUncancelled
<1>4. Unspawned'
  <2> SUFFICES ASSUME NEW n \in Attempt, n > task'.cur PROVE att'[n].proc = "none"
    BY DEF Unspawned
  <2>0. task.cur \in Nat /\ task'.cur \in Nat /\ n \in Nat /\ task'.cur >= task.cur
    BY <1>0, <1>1, <1>2, Row, Numbers, CurrentGrows DEF Typed, TypeOK
  <2>1. att[n].proc = "none"
    BY <1>0, <2>0 DEF Unspawned
  <2>2. ASSUME NEW c \in Coroutine, Spawned(c), co[c].new = n PROVE FALSE
    <3>1. co[c].pc = "spawn" /\ Dest(c) \in InTriage
      BY <2>2 DEF Spawned, At, Dest, InTriage
    <3>2. task.state \in {"queued", "triage"}
      BY <1>0, <3>1, HasLock DEF Safe, Fresh
    <3>3. Moves("running")
      BY <1>0, <3>2, Row, Edges DEF Moves
    <3>4. task'.cur = n
      <4>1. task' = [task EXCEPT !.state = "running", !.cur = n,
                                 !.retries = IF c = Main THEN @ ELSE co[c].paid]
        BY <2>2, <3>3 DEF Spawned
      <4>2. task \in TaskType
        BY <1>0, RowShapes
      <4>3. QED
        BY <4>1, <4>2 DEF TaskType
    <3>5. QED
      BY <2>0, <3>4
  <2>3. QED
    BY <1>0, <2>1, <2>2, NoneStays
<1>5. QED
  BY <1>2, <1>3, <1>4 DEF Ending, Halting

\* A run that is being ended, until the main loop drains.
LEMMA StoppingStep ==
  ASSUME Ending, Halting, Interrupt \/ StopBegins \/ \E c \in Coroutine : AbortLaunch(c)
  PROVE  Ending'
<1>0. Safe /\ Typed /\ Apart /\ Unspawned /\ task.state # "cancelled"
  BY DEF Ending, Safe
<1>1. Breaks /\ Typed'
  BY <1>0, InterruptBreaks, StopBreaks, AbortBreaks
<1>2. Safe'
  BY <1>0, <1>1, BreaksSafe
<1>3. stop' \in StopType /\ Halting'
  BY DEF Ending, Halting, Interrupt, StopBegins, AbortLaunch, Phase, StopType
<1>4. Unspawned'
  <2>1. \A n \in Attempt : att[n].proc = "none" => att'[n].proc = "none"
    BY <1>1 DEF Breaks, SameVisible, SameProcs
  <2>2. QED
    BY <1>0, <1>1, <2>1 DEF Unspawned, Breaks
<1>5. QED
  BY <1>0, <1>1, <1>2, <1>3, <1>4 DEF Ending, Breaks

\* When the drain begins, whoever lives is to be killed by the cleanup it waits for.
LEMMA DrainStep ==
  ASSUME Ending, Halting, Drain
  PROVE  Ending'
<1>0. /\ Safe /\ Typed /\ Unspawned /\ task.state # "cancelled"
      /\ Main \in Coroutine /\ 0 \notin Coroutine /\ {"join", "close"} \subseteq Place
      /\ "close" \in After \ {"none"}
  BY Names, Numbers DEF Ending, Safe
<1>1. /\ At(Main, "join") /\ co[Main].pc = "join" /\ co[Main] \in MeType
      /\ co[Main].then = "none" /\ co[Main] \in CoType
  BY <1>0, Mine DEF Drain, At
<1>2. /\ task' = task /\ att' = att /\ mem' = mem /\ lock' = lock /\ infra' = infra
      /\ run' = run /\ cli' = cli
      /\ stop'.phase = "drain" /\ stop'.unborn = {n \in Attempt : att[n].proc = "none"}
      /\ stop' \in StopType
  BY DEF Drain, Ending, StopType
<1>3. ASSUME Typed', co'[Main].pc \in {"teardown", "close"},
             \A c \in Coroutine \ {Main} : co'[c] = co[c], Gone' \/ Going'
      PROVE  Ending'
  <2>0. /\ task.cur \in Nat /\ task.made \in Nat /\ task.cur <= task.made
        /\ \A n \in Attempt : n \in Nat
    BY <1>0, Row, Numbers DEF Safe, Counted
  <2>1. \A n \in Attempt : n > task'.made => n \in stop'.unborn
    BY <1>0, <1>2, <2>0 DEF Unspawned
  <2>2. ASSUME NEW c \in Coroutine, co'[c].pc \in {"slot", "spawn"} PROVE co'[c].new \in stop'.unborn
    <3>1. co'[c] = co[c] /\ co[c].pc \in {"slot", "spawn"}
      BY <1>3, <2>2
    <3>2. co[c].new = task.made /\ task.cur < task.made /\ co[c].new # 0
      BY <1>0, <3>1 DEF Safe, StartsClean, Starting, Typed
    <3>3. co[c].new \in Attempt
      BY <1>0, <3>2, Row
    <3>4. QED
      BY <1>0, <1>2, <2>0, <3>1, <3>2, <3>3 DEF Unspawned
  <2>3. QED
    BY <1>2, <1>3, <2>1, <2>2 DEF Ending, Halting, Drained
<1>4. CASE mem.slot # 0 \/ td.phase # "none"
  <2>1. CallTeardown(Main, co[Main], 0, "close")
    BY <1>4 DEF Drain
  <2>2. Turn(Main, "join", "close") /\ Calls(Main, 0)
    BY <1>0, <1>1, <2>1, CallsTeardown
  <2>3. Typed'
    <3>1. Rows /\ SameRegistries
      BY <1>0, <1>2, RowShapes DEF Rows, SameRegistries
    <3>2. lock \in Coroutine \cup {0} /\ infra \in BOOLEAN
      BY <1>0, RowShapes
    <3>3. QED
      BY <1>0, <1>2, <2>2, <3>1, <3>2, TurnTyped
  <2>4. co'[Main].pc = "teardown" /\ \A c \in Coroutine \ {Main} : co'[c] = co[c]
    BY <2>2 DEF Calls, Turn
  <2>5. /\ td'.phase # "none"
        /\ td' = td \/ (td.phase = "none" /\ td'.phase = "start" /\ td'.expect = 0)
    BY <2>2 DEF Calls
  <2>6. CASE \A n \in Attempt : Dead(n)
    <3>1. Gone'
      BY <1>2, <2>6 DEF Gone, Dead
    <3>2. QED
      BY <1>3, <2>3, <2>4, <3>1
  <2>7. ASSUME NEW n \in Attempt, ~Dead(n) PROVE Ending'
    <3>1. \A c \in Coroutine : co'[c].pc \notin Starting
      BY <1>0, <2>4, <2>7 DEF Safe, StartsClean, Starting
    <3>2. \A m \in Attempt : ~Dead(m)' => m = n
      BY <1>0, <1>2, <2>7 DEF Safe, OneLive, Dead
    <3>3. mem.reg = n \/ (Reaping /\ td.proc = n)
      BY <1>0, <2>7 DEF Safe, LiveKnown
    <3>4. /\ td'.phase = "start" => mem'.reg = n /\ td'.expect \in {0, n}
          /\ td'.phase = "reap" => td'.proc = n
      BY <1>0, <1>2, <2>5, <2>7, <3>3, Numbers DEF Safe, CleanupKnown, Reaping
    <3>5. Going'
      BY <2>4, <2>5, <3>1, <3>2, <3>4 DEF Going
    <3>6. QED
      BY <1>3, <2>3, <2>4, <3>5
  <2>8. QED
    BY <2>6, <2>7
<1>5. CASE mem.slot = 0 /\ td.phase = "none"
  <2>1. co' = [co EXCEPT ![Main].pc = "close"] /\ cpu' = 0 /\ QueuedBehind(Main) /\ td' = td
    BY <1>5 DEF Drain
  <2>2. /\ co' \in [Coroutine -> CoType] /\ co'[Main].pc = "close" /\ co'[Main].then = "none"
        /\ \A c \in Coroutine \ {Main} : co'[c] = co[c]
    <3>1. [co[Main] EXCEPT !.pc = "close"] \in CoType
      BY <1>0, <1>1 DEF CoType
    <3>2. PICK d \in CoType : d.pc = "close" /\ d.then = "none" /\ co' = [co EXCEPT ![Main] = d]
      BY <1>1, <2>1, <3>1 DEF CoType
    <3>3. QED
      BY <1>0, <3>2 DEF Typed
  <2>3. Typed'
    <3>1. late' \subseteq Coroutine \cup {0} /\ att \in [Attempt -> AttType]
      <4>1. late \subseteq Coroutine \cup {0} /\ att \in [Attempt -> AttType]
        BY <1>0, Types DEF Typed
      <4>2. QED
        BY <1>0, <2>1, <4>1 DEF QueuedBehind
    <3>2. \A c \in Coroutine : /\ co'[c].pc = "teardown" <=> co'[c].then # "none"
                               /\ co'[c].pc \in {"slot", "spawn"} => co'[c] = co[c]
      BY <1>0, <2>2 DEF Typed
    <3>3. QED
      BY <1>0, <1>2, <2>1, <2>2, <3>1, <3>2, BrokenTyped DEF Typed
  <2>4. \A n \in Attempt : Dead(n)
    BY <1>0, <1>5, Numbers DEF Safe, LiveKnown, SlotKept, Reaping
  <2>5. Gone'
    BY <1>2, <2>4 DEF Gone, Dead
  <2>6. QED
    BY <1>3, <2>2, <2>3, <2>5
<1>6. QED
  BY <1>4, <1>5

\* An interrupt of the wait for the watchdog: there is no drain, and nobody to spare.
LEMMA JoinStep ==
  ASSUME Ending, Halting, InterruptJoin
  PROVE  Ending'
<1>0. /\ Safe /\ Typed /\ Dog \in Coroutine /\ Main \in Coroutine /\ Main # Dog
      /\ "raise" \in Place /\ "none" \in After
  BY Names, Numbers DEF Ending, Safe
<1>1. /\ task' = task /\ att' = att /\ mem' = mem /\ lock' = lock /\ td' = td /\ cpu' = cpu
      /\ late' = late /\ infra' = infra /\ run' = run /\ cli' = cli
      /\ stop' = [phase |-> "struck", unborn |-> Attempt, hit |-> TRUE]
  BY DEF InterruptJoin
<1>2. co' \in [Coroutine -> CoType] /\ \A c \in Coroutine :
        co'[c] = co[c] \/ (co'[c].pc = "raise" /\ co'[c].then = "none")
  <2>1. CASE UNCHANGED co
    BY <1>0, <2>1 DEF Typed
  <2>2. CASE co' = [co EXCEPT ![Dog] = [@ EXCEPT !.pc = "raise", !.then = "none"]]
    <3>1. PICK d \in CoType : d.pc = "raise" /\ d.then = "none" /\ co' = [co EXCEPT ![Dog] = d]
      BY <1>0, <2>2, Mine DEF CoType
    <3>2. QED
      BY <1>0, <3>1 DEF Typed
  <2>3. QED
    BY <2>1, <2>2 DEF InterruptJoin
<1>3. Typed'
  <2>1. \A c \in Coroutine : /\ co'[c].pc = "teardown" <=> co'[c].then # "none"
                             /\ co'[c].pc \in {"slot", "spawn"} => co'[c] = co[c]
    BY <1>0, <1>2 DEF Typed
  <2>2. cpu \in Coroutine \cup {0} /\ late \subseteq Coroutine \cup {0} /\ att \in [Attempt -> AttType]
    BY <1>0, Types DEF Typed
  <2>3. QED
    BY <1>0, <1>1, <1>2, <2>1, <2>2, BrokenTyped DEF Typed
<1>4. \A c \in Coroutine : co'[c].pc \in {"slot", "spawn"} => co'[c].new \in Attempt
  <2> SUFFICES ASSUME NEW c \in Coroutine, co'[c].pc \in {"slot", "spawn"}
               PROVE  co'[c].new \in Attempt
    OBVIOUS
  <2>1. co'[c] = co[c] /\ co[c].pc \in {"slot", "spawn"}
    BY <1>2
  <2>2. co[c].new = task.made /\ co[c].new # 0
    BY <1>0, <2>1 DEF Safe, StartsClean, Starting, Typed
  <2>3. QED
    BY <1>0, <2>1, <2>2, Row
<1>5. Drained'
  BY <1>1, <1>4 DEF Drained, Gone
<1>6. QED
  BY <1>1, <1>3, <1>5 DEF Ending, Halting, StopType

\* A step of a coroutine that begins, goes on with and ends no launch.
Plainly(c) ==
  /\ co[c].pc # "teardown" /\ co'[c].pc \notin Starting \cup {"join"}
  /\ \A d \in Coroutine \ {c} : co'[d] = co[d]
  /\ task'.made = task.made /\ mem'.reg = mem.reg
  /\ \A n \in Attempt : Dead(n) => Dead(n)'
  /\ td' = td \/ td.phase = "none"

LEMMA Plain ==
  ASSUME Typed,
         \/ \E c \in Coroutine : Misfires(c) \/ Enters(c) \/ Decides(c) \/ Leaves(c)
         \/ \E n \in Attempt : \/ ReadsLine(n) \/ Reaps(n) \/ Ends(n) \/ Opens(n) \/ Verifies(n)
                               \/ HandsOver(n)
         \/ Sweeps
  PROVE  \E c \in Coroutine : Plainly(c)
<1>1. ASSUME NEW c, NEW p, NEW q, Turn(c, p, q), p # "teardown", q \notin {"slot", "spawn", "join"},
             \/ NoCall(c) /\ q # "launch"
             \/ \E e : Calls(c, e) /\ (q = "launch" => e = 0)
      PROVE  /\ co[c].pc # "teardown" /\ co'[c].pc \notin Starting \cup {"join"}
             /\ \A d \in Coroutine \ {c} : co'[d] = co[d]
             /\ td' = td \/ td.phase = "none"
  BY <1>1 DEF Turn, NoCall, Calls, Starting
<1>2. ASSUME NEW c \in Coroutine, Misfires(c) PROVE Plainly(c)
  BY <1>1, <1>2 DEF Misfires, Plainly, SameRow, SameVisible, SameProcs, Dead
<1>3. ASSUME NEW c \in Coroutine, Enters(c) PROVE Plainly(c)
  BY <1>1, <1>3 DEF Enters, Plainly, SameAttempt, SameVisible, SameProcs, SameRegistries, Dead
<1>4. ASSUME NEW c \in Coroutine, Decides(c) PROVE Plainly(c)
  <2>1. PICK p \in {"policy", "supervise"} : Decision(c, p)
    BY <1>4 DEF Decides
  <2>2. \E q \in {"launch", "return", "raise", "supervise", "idle", "read"} :
          /\ Turn(c, p, q)
          /\ \/ NoCall(c) /\ q # "launch"
             \/ Calls(c, 0)
    BY <2>1 DEF Decision
  <2>3. QED
    BY <1>1, <1>4, <2>2 DEF Decides, Plainly, SameAttempt, SameVisible, SameProcs, SameRegistries, Dead
<1>5. ASSUME NEW c \in Coroutine, Leaves(c) PROVE Plainly(c)
  <2>1. \E p \in {"return", "raise"} : \E q \in {"off", "idle", "dead", "stop"} :
          Turn(c, p, q) /\ (NoCall(c) \/ \E e : Calls(c, e))
    BY <1>5 DEF Leaves
  <2>2. QED
    BY <1>1, <1>5, <2>1 DEF Leaves, Plainly, SameRow, SameVisible, SameProcs, SameRegistries, Dead
<1>6. ASSUME NEW n \in Attempt, ReadsLine(n) PROVE Plainly(n)
  <2>1. \E q \in {"read", "reap", "eof", "lock", "return"} :
          Turn(n, "read", q) /\ (NoCall(n) \/ \E e : Calls(n, e))
    BY <1>6 DEF ReadsLine
  <2>2. QED
    BY <1>1, <1>6, <2>1 DEF ReadsLine, Plainly, SameRow, SameProcs, SameRegistries, Dead
<1>7. ASSUME NEW n \in Attempt, Reaps(n) PROVE Plainly(n)
  <2>1. \E q \in {"begin", "raise"} : Turn(n, "reap", q) /\ (NoCall(n) \/ \E e : Calls(n, e))
    BY <1>7 DEF Reaps
  <2>2. QED
    BY <1>1, <1>7, <2>1 DEF Reaps, Plainly, SameAttempt, SameRegistries, Dead
<1>8. ASSUME NEW n \in Attempt, Ends(n) PROVE Plainly(n)
  <2>1. \E q \in {"lock", "return"} : Turn(n, "eof", q) /\ (NoCall(n) \/ \E e : Calls(n, e))
    BY <1>8 DEF Ends
  <2>2. QED
    BY <1>1, <1>8, <2>1 DEF Ends, Plainly, SameRow, SameVisible, SameProcs, SameRegistries, Dead
<1>9. ASSUME NEW n \in Attempt, Verifies(n) \/ HandsOver(n) PROVE Plainly(n)
  <2>1. \E p \in {"verify", "deliver"} : \E q \in {"deliver", "raise", "lock", "return"} :
          Turn(n, p, q) /\ NoCall(n)
    BY <1>9 DEF Verifies, HandsOver
  <2>2. QED
    BY <1>1, <1>9, <2>1 DEF Verifies, HandsOver, Plainly, SameAttempt, SameProcs, SameRegistries, Dead
<1>9a. ASSUME NEW n \in Attempt, Opens(n) PROVE Plainly(n)
  BY <1>1, <1>9a DEF Opens, Plainly, SameRow, SameVisible, SameProcs, SameRegistries, Dead
<1>10. CASE Sweeps
  <2>1. Turn(Dog, "idle", "lock") /\ (NoCall(Dog) \/ \E e : Calls(Dog, e))
    BY <1>10 DEF Sweeps
  <2>2. Plainly(Dog)
    BY <1>1, <1>10, <2>1 DEF Sweeps, Plainly, SameRow, SameVisible, SameProcs, SameRegistries, Dead
  <2>3. QED
    BY <2>2, Numbers
<1>11. QED
  BY <1>2, <1>3, <1>4, <1>5, <1>6, <1>7, <1>8, <1>9, <1>9a, <1>10, Numbers

\* A step outside a launch and the cleanup keeps what is known since the drain began.
LEMMA PlainDrains ==
  ASSUME Typed, Drained, stop' = stop, NEW c \in Coroutine, Plainly(c)
  PROVE  Drained'
<1>1. co'[Main].pc = "join" => stop'.phase = "struck"
  BY Numbers DEF Drained, Plainly
<1>2. \A d \in Coroutine : co'[d].pc \in Starting => co'[d] = co[d]
  BY DEF Plainly
<1>3. Gone => Gone'
  BY DEF Gone, Plainly
<1>4. Going => Going'
  <2> SUFFICES ASSUME Going PROVE Going'
    OBVIOUS
  <2>1. co'[Main].pc = "teardown" /\ td' = td
    BY Numbers DEF Going, Plainly
  <2>2. \A d \in Coroutine : co'[d].pc \notin Starting
    BY <1>2 DEF Going
  <2>3. PICK n \in Attempt :
          /\ \A m \in Attempt : ~Dead(m) => m = n \/ m \in stop.unborn
          /\ td.phase = "start" => mem.reg = n /\ td.expect \in {0, n}
          /\ td.phase = "reap" => td.proc = n
    BY DEF Going
  <2>4. \A m \in Attempt : ~Dead(m)' => m = n \/ m \in stop'.unborn
    BY <2>3 DEF Plainly
  <2>5. QED
    BY <2>1, <2>2, <2>3, <2>4 DEF Going, Plainly
<1>5. QED
  BY <1>1, <1>2, <1>3, <1>4 DEF Drained, Plainly, Starting

LEMMA LaunchDrains ==
  ASSUME Typed, Typed', Drained, stop' = stop, NEW c \in Coroutine,
         Begins(c) \/ GetsSlot(c) \/ Registers(c) \/ Orphans(c)
  PROVE  Drained'
<1>0. /\ task.made \in Nat /\ task'.made \in Attempt \cup {0} /\ Main \in Coroutine
      /\ \A n \in Attempt : n \in Nat /\ n # 0
  BY Row, Numbers DEF Typed, TypeOK
<1>1. co[c].pc \in Starting \/ (c = Main /\ co[c].pc = "idle")
  BY DEF Begins, GetsSlot, Registers, Orphans, Turn, Starting
<1>2. Gone
  BY <1>1 DEF Drained, Going, Starting
<1>3. CASE Begins(c)
  <2>1. /\ co'[c].new = task'.made /\ task'.made = task.made + 1 /\ co'[c].pc \in {"slot", "spawn"}
        /\ \A d \in Coroutine \ {c} : co'[d] = co[d]
        /\ \A n \in Attempt : Dead(n)' = Dead(n)
    BY <1>3 DEF Begins, NoCall, Turn, SameVisible, SameProcs, Dead
  <2>2. task'.made \in stop.unborn
    BY <1>0, <2>1 DEF Drained
  <2>3. QED
    BY <1>0, <1>2, <2>1, <2>2 DEF Drained, Gone
<1>4. CASE GetsSlot(c)
  <2>1. /\ co'[c].new = co[c].new /\ task'.made = task.made /\ co[c].pc = "slot" /\ co'[c].pc = "spawn"
        /\ \A d \in Coroutine \ {c} : co'[d] = co[d]
        /\ \A n \in Attempt : Dead(n)' = Dead(n)
    BY <1>4 DEF GetsSlot, NoCall, Keeps, Turn, SameRow, SameVisible, SameProcs, Dead
  <2>2. QED
    BY <1>0, <1>2, <2>1 DEF Drained, Gone
<1>5. CASE Registers(c) \/ Orphans(c)
  <2>1. /\ co[c].pc = "spawn" /\ co[c].new \in Attempt /\ task'.made = task.made
        /\ \A n \in Attempt \ {co[c].new} : Dead(n)' = Dead(n)
    BY <1>5 DEF Registers, Orphans, Turn, SameRow, Dead
  <2>2. \A d \in Coroutine : co'[d] = co[d] \/ co'[d].pc \in {"read", "idle", "return", "raise"}
    BY <1>5 DEF Registers, Orphans, Turn, NoCall, Resting
  <2>3. co[c].new \in stop.unborn
    BY <2>1 DEF Drained
  <2>4. Gone'
    BY <1>2, <2>1, <2>3 DEF Gone
  <2>5. QED
    BY <1>0, <2>1, <2>2, <2>4 DEF Drained
<1>6. QED
  BY <1>3, <1>4, <1>5

LEMMA CleanupDrains ==
  ASSUME Typed, Drained, stop' = stop, Forgets \/ Aborts \/ Finishes \/ Outside
  PROVE  Drained'
<1>1. \A c \in Coroutine : co[c].then \notin {"slot", "spawn", "join"}
  BY Names DEF Typed, CoType
<1>2. /\ task'.made = task.made
      /\ \A c \in Coroutine : co'[c].pc \in {"slot", "spawn", "join"} => co'[c] = co[c]
  BY <1>1 DEF Forgets, Aborts, Finishes, Outside, SameRow, SameAttempt, Resting
<1>3. \A n \in Attempt : Dead(n) => Dead(n)'
  <2>1. CASE Forgets \/ Aborts \/ Outside
    BY <2>1 DEF Forgets, Aborts, Outside, SameVisible, SameProcs, Dead
  <2>2. CASE Finishes
    <3>1. \A n \in Attempt : n # 0
      BY Numbers
    <3>2. QED
      BY <2>2, <3>1 DEF Finishes, Dead
  <2>3. QED
    BY <2>1, <2>2
<1>4. Gone => Gone'
  BY <1>3 DEF Gone
<1>5. ASSUME Going PROVE Gone' \/ Going'
  <2>1. PICK n \in Attempt :
          /\ \A m \in Attempt : ~Dead(m) => m = n \/ m \in stop.unborn
          /\ td.phase = "start" => mem.reg = n /\ td.expect \in {0, n}
          /\ td.phase = "reap" => td.proc = n
    BY <1>5 DEF Going
  <2>2. n # 0
    BY Numbers
  <2>3. CASE Finishes
    <3>1. td.proc = n /\ Dead(n)'
      BY <2>1, <2>2, <2>3 DEF Finishes, Dead
    <3>2. QED
      BY <1>3, <2>1, <3>1 DEF Gone
  <2>4. CASE Aborts
    BY <2>1, <2>4 DEF Aborts
  <2>5. CASE Forgets
    <3>1. \A m \in Attempt : ~Dead(m)' => m = n \/ m \in stop'.unborn
      BY <1>3, <2>1
    <3>2. td'.phase = "reap" /\ td'.proc = n /\ co' = co
      BY <2>1, <2>5 DEF Forgets
    <3>3. QED
      BY <1>5, <3>1, <3>2 DEF Going
  <2>6. CASE Outside
    <3>1. \A m \in Attempt : ~Dead(m)' => m = n \/ m \in stop'.unborn
      BY <1>3, <2>1
    <3>2. td' = td /\ mem'.reg = mem.reg /\ co' = co
      BY <2>6 DEF Outside
    <3>3. QED
      BY <1>5, <2>1, <3>1, <3>2 DEF Going
  <2>7. QED
    BY <2>3, <2>4, <2>5, <2>6
<1>6. QED
  BY <1>2, <1>4, <1>5, Numbers DEF Drained

LEMMA DrainingStep ==
  ASSUME Ending, ~Halting, Step, stop' = stop
  PROVE  Ending'
<1>1. Typed /\ Typed' /\ Kinds /\ Drained
  BY Classified DEF Ending, Next
<1>2. Drained'
  BY <1>1, Plain, PlainDrains, LaunchDrains, CleanupDrains DEF Kinds
<1>3. QED
  BY <1>1, <1>2 DEF Ending, Halting

\* A launch that is given up, once the drain has begun.
LEMMA AbortDrains ==
  ASSUME Ending, ~Halting, NEW c \in Coroutine, AbortLaunch(c)
  PROVE  Ending'
<1>1. /\ Drained /\ Breaks /\ Typed' /\ stop' = stop /\ Main \in Coroutine
      /\ \A d \in Coroutine : co'[d] = co[d] \/ co'[d].pc = "raise"
  BY AbortBreaks, Numbers DEF Ending, AbortLaunch
<1>2. /\ task' = task /\ td' = td /\ mem'.reg = mem.reg
      /\ \A n \in Attempt : Dead(n)' = Dead(n)
      /\ \A d \in Coroutine : co[d].pc = "teardown" => co'[d].pc = "teardown"
  BY <1>1, RowShapes DEF Ending, Breaks, Halts, SameVisible, SameProcs, Dead, MemType
<1>3. Gone => Gone'
  BY <1>1, <1>2 DEF Gone
<1>4. Going => Going'
  BY <1>1, <1>2 DEF Going, Starting
<1>5. QED
  BY <1>1, <1>2, <1>3, <1>4 DEF Ending, Halting, Drained

\* When the pool is closed, or left as it is, nobody waits for a cleanup in the main
\* loop's name any more.
LEMMA CloseDrains ==
  ASSUME Ending, ~Halting, PoolCloses \/ Undrained
  PROVE  Ending'
<1>a. PICK p \in {"close", "join"} : At(Main, p)
  BY DEF PoolCloses, Undrained
<1>0. /\ Main \in Coroutine /\ {"close", "join", "dead"} \subseteq Place /\ co[Main] \in MeType
      /\ At(Main, p) /\ co[Main].pc = p /\ co[Main].then = "none"
      /\ Typed /\ Drained
  BY <1>a, Names, Numbers, Mine DEF Ending, At
<1>1. Turn(Main, p, "dead") /\ co'[Main].pc = "dead"
  BY <1>0, Continues DEF PoolCloses, Undrained, Goto
<1>2. /\ task' = task /\ att' = att /\ mem' = mem /\ lock' = lock /\ td' = td /\ infra' = infra
      /\ run' = run /\ cli' = cli /\ stop' = [stop EXCEPT !.phase = "closed"]
  BY DEF PoolCloses, Undrained, Phase
<1>3. Typed'
  <2>1. Rows /\ SameRegistries
    BY <1>0, <1>2, RowShapes DEF Rows, SameRegistries
  <2>2. NoCall(Main)
    BY <1>1, <1>2 DEF NoCall
  <2>3. lock \in Coroutine \cup {0} /\ infra \in BOOLEAN
    BY <1>0, RowShapes
  <2>4. QED
    BY <1>0, <1>1, <1>2, <2>1, <2>2, <2>3, TurnTyped
<1>4. stop'.phase = "closed" /\ stop'.unborn = stop.unborn /\ stop' \in StopType
  BY <1>2 DEF Ending, StopType
<1>5. Gone'
  BY <1>0, <1>2, <1>4 DEF Drained, Going, Gone, Dead
<1>6. \A d \in Coroutine \ {Main} : co'[d] = co[d]
  BY <1>1 DEF Turn
<1>7. Drained'
  BY <1>0, <1>1, <1>2, <1>4, <1>5, <1>6 DEF Drained
<1>8. QED
  BY <1>3, <1>4, <1>7 DEF Ending, Halting

\* And when all that is left is cancelled, nobody launches.
LEMMA CancelDrains ==
  ASSUME Ending, ~Halting, CancelRest
  PROVE  Ending'
<1>0. Typed /\ Drained /\ stop.phase = "closed" /\ Main \in Coroutine
  BY Numbers DEF Ending, CancelRest, Phase
<1>1. /\ task' = task /\ mem' = mem /\ lock' = lock /\ cpu' = cpu /\ infra' = infra /\ run' = run
      /\ cli' = cli /\ late' = {} /\ td' = NoTeardown
      /\ co' = Woken([c \in Coroutine |-> Interrupted(co[c])], FALSE)
      /\ stop' = [stop EXCEPT !.phase = "cancelled"]
  BY DEF CancelRest, Phase
<1>2. /\ att' \in [Attempt -> AttType]
      /\ \A n \in Attempt : Dead(n) => Dead(n)'
  <2>1. att \in [Attempt -> AttType]
    BY <1>0, RowShapes
  <2>2. CASE att' = att
    BY <2>1, <2>2 DEF Dead
  <2>3. CASE att' = Kill(td.proc)
    <3>1. PICK how \in {"none", "live", "exited", "crashed", "killed"} :
            \/ att' = [att EXCEPT ![td.proc].proc = how] /\ how # "live"
            \/ att' = att
      BY <2>1, <2>3 DEF Kill, AttType
    <3>2. QED
      BY <2>1, <3>1 DEF Dead, AttType
  <2>4. QED
    BY <2>2, <2>3 DEF CancelRest
<1>3. /\ co' \in [Coroutine -> CoType]
      /\ \A c \in Coroutine : /\ co'[c].pc = "teardown" <=> co'[c].then # "none"
                              /\ co'[c].pc \notin {"slot", "spawn", "join"}
  <2> DEFINE f == [c \in Coroutine |-> Interrupted(co[c])]
  <2>1. /\ f \in [Coroutine -> CoType]
        /\ \A c \in Coroutine :
             /\ f[c].pc = "teardown" <=> f[c].then # "none"
             /\ f[c].pc \notin {"slot", "spawn", "join"}
             /\ f[c].pc = "teardown" => f[c].then \in {"off", "raise"}
    <3>1. ASSUME NEW c \in Coroutine
          PROVE  /\ Interrupted(co[c]) \in CoType
                 /\ Interrupted(co[c]).pc = "teardown" <=> Interrupted(co[c]).then # "none"
                 /\ Interrupted(co[c]).pc \notin {"slot", "spawn", "join"}
                 /\ Interrupted(co[c]).pc = "teardown" => Interrupted(co[c]).then \in {"off", "raise"}
      <4>1. co[c].pc = "teardown" <=> co[c].then # "none"
        BY <1>0 DEF Typed
      <4>2. QED
        BY <1>0, <4>1, InterruptedShape
    <3>2. QED
      BY <3>1
  <2>2. co' = Woken(f, FALSE)
    BY <1>1
  <2> HIDE DEF f
  <2>3. /\ co' \in [Coroutine -> CoType]
        /\ \A c \in Coroutine :
             IF f[c].pc # "teardown" THEN co'[c] = f[c]
             ELSE co'[c].pc \in {f[c].then, "raise"} /\ co'[c].then = "none"
    BY <1>0, <2>1, <2>2, Wakes
  <2>4. QED
    BY <2>1, <2>3
<1>4. Typed'
  <2>1. cpu \in Coroutine \cup {0}
    BY <1>0 DEF Typed, TypeOK
  <2>2. NoTeardown \in [phase : {"none", "start", "reap"}, expect : Attempt \cup {0},
                        owner : Coroutine \cup {0}, proc : Attempt \cup {0}]
    BY DEF NoTeardown
  <2>3. QED
    BY <1>0, <1>1, <1>2, <1>3, <2>1, <2>2, BrokenTyped DEF Typed
<1>5. stop'.phase = "cancelled" /\ stop'.unborn = stop.unborn /\ stop' \in StopType
  BY <1>1 DEF Ending, StopType
<1>6. Drained'
  BY <1>0, <1>1, <1>2, <1>3, <1>5 DEF Drained, Gone
<1>7. QED
  BY <1>4, <1>5, <1>6 DEF Ending, Halting

LEMMA EndingStep ==
  ASSUME Ending, [NextS]_allVars, Unanswered', Uncancelled'
  PROVE  Ending'
<1>1. CASE Step /\ UNCHANGED stop
  BY <1>1, HaltingStep, DrainingStep
<1>2. CASE (\E c \in Coroutine : AbortLaunch(c)) \/ Interrupt \/ StopBegins
  <2>1. Interrupt \/ StopBegins => Halting
    BY DEF Interrupt, StopBegins, Phase, Halting
  <2>2. QED
    BY <1>2, <2>1, StoppingStep, AbortDrains
<1>3. CASE Drain \/ InterruptJoin
  <2>1. Halting
    BY <1>3 DEF Drain, InterruptJoin, Halting
  <2>2. QED
    BY <1>3, <2>1, DrainStep, JoinStep
<1>4. CASE PoolCloses \/ Undrained \/ CancelRest
  <2>1. ~Halting
    BY <1>4 DEF PoolCloses, Undrained, CancelRest, Phase, Halting
  <2>2. QED
    BY <1>4, <2>1, CloseDrains, CancelDrains
<1>5. CASE LoopCloses
  <2>1. /\ UNCHANGED vars /\ stop.phase = "cancelled" /\ stop' = [stop EXCEPT !.phase = "over"]
    BY <1>5 DEF LoopCloses, Phase
  <2>2. Typed' /\ Drained
    BY <2>1, StutterTyped DEF Ending, Halting
  <2>3. stop'.phase = "over" /\ stop'.unborn = stop.unborn /\ stop' \in StopType
    BY <2>1 DEF Ending, StopType
  <2>4. Drained'
    BY <2>1, <2>2, <2>3 DEF Drained, Gone, Dead, vars
  <2>5. QED
    BY <2>2, <2>3, <2>4 DEF Ending, Halting
<1>6. CASE UNCHANGED allVars
  <2>1. UNCHANGED vars /\ stop' = stop
    BY <1>6 DEF allVars
  <2>2. Typed'
    BY <2>1, StutterTyped DEF Ending
  <2>3. CASE Halting
    <3>1. Safe'
      BY <2>1, <2>3, <1>6, SafeStep DEF Ending
    <3>2. Unspawned' /\ task'.state # "cancelled"
      BY <2>1, <2>3 DEF Ending, Unspawned, vars
    <3>3. QED
      BY <2>1, <2>2, <2>3, <3>1, <3>2 DEF Ending, Halting
  <2>4. CASE ~Halting
    <3>1. Drained'
      BY <2>1, <2>4 DEF Ending, Drained, Gone, Going, Dead, vars
    <3>2. QED
      BY <2>1, <2>2, <2>4, <3>1 DEF Ending, Halting
  <2>5. QED
    BY <2>3, <2>4
<1>7. QED
  BY <1>1, <1>2, <1>3, <1>4, <1>5, <1>6 DEF NextS, Stopping

\* While nobody answers or cancels the task: a worker that lived when the main loop began
\* to drain is gone when the pool is removed, whatever watchers, cleanups and cancelled
\* coroutines were under way (run_until_settled, core.py:364, _drain_teardowns).
THEOREM DrainReaps == SpecS /\ [](Unanswered /\ Uncancelled) => []DrainedAreReaped
<1>1. InitS => Ending
  <2>1. ASSUME InitS PROVE Ending
    <3>1. Safe /\ Typed
      BY <2>1, InitSafe, InitTyped DEF InitS
    <3>2. Unspawned /\ task.state # "cancelled"
      BY <2>1 DEF InitS, Init, Unspawned
    <3>3. QED
      BY <2>1, <3>1, <3>2 DEF InitS, Ending, Halting, StopType
  <2>2. QED
    BY <2>1
<1>2. Ending /\ [NextS]_allVars /\ (Unanswered /\ Uncancelled)' => Ending'
  BY EndingStep
<1>3. Ending => DrainedAreReaped
  BY DEF Ending, Halting, Drained, Gone, Dead, DrainedAreReaped
<1>4. QED
  BY <1>1, <1>2, <1>3, PTL DEF SpecS

===============================================================================
