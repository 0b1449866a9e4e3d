----------------------------- MODULE RestartProofs -----------------------------
(***************************************************************************)
(* Theorems about Restart: one task, any retry budget, any number of kills, *)
(* workers that outlive their scheduler or do not.  When a process starts,  *)
(* no other task keeps its main coroutine away (AloneAtBoot): with others,  *)
(* two coroutines can drive the task, which RestartTwoDrivers.cfg shows.    *)
(***************************************************************************)
EXTENDS Restart, FiniteSetTheorems, WellFoundedInduction, TLAPS

AloneAtBoot == ~OthersBoot

CoType == [pc : PC, cause : Nat, n : {0} \cup Attempt, iv : Nat,
           live : BOOLEAN, boot : Nat]

Kinds == {"done", "exit", "stall", "passed", "failed", "shipped", "undelivered",
          "invoked", "acted", "gaveup", "spawned"}
Acts == {"none", "crashed", "restart", "escalate", "wait"}

EventType == [type : Kinds, att : {0} \cup Attempt, cause : Nat, act : Acts,
              iv : Nat, cand : {0} \cup Attempt]

RowType == [state : STATES, retries : Nat, att : {0} \cup Attempt,
            cause : Nat, cand : {0} \cup Attempt]

AttemptType == [made : {"no", "created", "used"}, parent : {0} \cup Attempt, iv : Nat,
                base : {0} \cup Attempt, cand : {0} \cup Attempt,
                lease : {"none", "active", "lapsed", "closed"}]

IvType == [source : {0} \cup Attempt, target : {0} \cup Attempt, ended : BOOLEAN]

(* The kinds of value, without the bounds of TypeOK that no proof needs. *)
Shape ==
  /\ row \in RowType
  /\ attempts \in [Attempt -> AttemptType]
  /\ log \in Seq(EventType)
  /\ ivs \in Seq(IvType)
  /\ worker \in [Attempt -> {"none", "alive", "dead"}]
  /\ shipped \subseteq Attempt
  /\ co \in [Co -> CoType]
  /\ crashes \in Nat

-----------------------------------------------------------------------------
(* The coroutines: where the main one is while the other drives the task, and *)
(* what the row is where one of them writes it.                               *)

Recovers == {"policy", "interrupted", "call", "calling", "close", "dispatch"}
Launching == {"lease", "target", "spawn", "use", "run"}

OneDriver ==
  /\ co["watch"].pc # "off" =>
       /\ co["main"].pc \in {"boot2", "boot3", "loop", "ended"}
       /\ row.state # "queued"
  /\ co["watch"].pc # "off" /\ co["main"].pc \in {"boot2", "boot3"} =>
       co["watch"].pc = "watch" /\ row.state = "running"
  /\ ~co["main"].live

(* The attempt that was created last is not as it was created. *)
LatestUsed == LatestAttempt # 0 => attempts[LatestAttempt].made = "used"

Affordable == row.state = "triage" /\ row.retries < MaxRetries

Passed(n) == Positions({"passed"}, n) # {}

(* What coroutine c relies on at the place where it is. *)
Relies(c) ==
  LET me == co[c] IN
  /\ me.pc \in {"triage", "policy", "orphaned"} => me.cause \in DOMAIN log
  /\ me.pc \in Recovers => row.state = "triage"
  /\ me.pc \in {"calling", "close", "dispatch", "target"} => me.iv \in DOMAIN ivs
  /\ me.pc \in {"clean", "create"} => me.iv \in DOMAIN ivs \cup {0}
  /\ me.pc = "clean" => Affordable /\ LatestUsed
  /\ me.pc = "create" =>
       (Affordable /\ LatestUsed) \/ (row.state = "queued" /\ me.iv = 0 /\ c = "main")
  /\ me.pc \in Launching =>
       /\ Affordable \/ (row.state = "queued" /\ c = "main")
       /\ me.n \in Made /\ me.n > row.att
       /\ \A k \in Made : k <= me.n
  /\ me.pc = "run" => attempts[me.n].made = "used"
  /\ me.pc \in {"verify", "verified"} => row.state = "verifying"
  /\ me.pc = "verified" => Passed(row.att)
  /\ me.pc \in {"deliver", "ship", "delivered", "redeliver"} => row.state = "delivering"
  /\ me.pc \in {"ship", "delivered"} => row.att \in shipped

MainRelies ==
  LET pc == co["main"].pc IN
  /\ pc = "fence" => row.state \in {"running", "verifying"}
  /\ pc \in {"claimed", "exited", "orphaned"} => row.state = "running"
  /\ pc \notin {"watch", "claim", "captured"}

WatchRelies ==
  LET pc == co["watch"].pc IN
  /\ pc \in {"claim", "captured"} => row.state = "running"
  /\ pc \notin {"off"} \cup Launching => co["watch"].n = row.att
  /\ pc \notin {"down", "fence", "claimed", "exited", "orphaned", "boot1", "boot2",
                "boot3", "redeliver", "loop", "failed", "ended"}

(* What the rows and the log say of each other. *)
RowsAndLog ==
  /\ row.state \in {"queued", "running", "verifying", "triage", "delivering",
                    "delivered", "needs_human"}
  /\ row.state # "queued" => row.att # 0
  /\ row.state = "queued" => ivs = <<>>
  /\ row.att # 0 => attempts[row.att].made = "used"
  /\ row.state = "triage" => row.cause \in DOMAIN log
  /\ row.state \in {"delivering", "delivered"} => Passed(row.att)
  /\ \A i \in DOMAIN log :
       /\ log[i].type = "shipped" => log[i].att \in shipped
       /\ log[i].type = "exit" => log[i].att # 0 /\ attempts[log[i].att].made = "used"
       /\ log[i].type = "acted" => log[i].iv \in DOMAIN ivs

(* A child that was created for an intervention and not yet used is the newest. *)
TargetsAreNewest ==
  \A v \in DOMAIN ivs :
    LET m == ivs[v].target IN
    m # 0 /\ attempts[m].made = "created" => \A k \in Made : k <= m

Inv ==
  /\ Shape
  /\ OneDriver
  /\ \A c \in Co : Relies(c)
  /\ MainRelies /\ WatchRelies
  /\ RowsAndLog
  /\ TargetsAreNewest

-----------------------------------------------------------------------------
(* Newest of a set of numbers. *)

(* A set of numbers that is bounded has a newest member, or is empty. *)
LEMMA NewestIsMax ==
  ASSUME NEW S, NEW b \in Nat, S \subseteq 0..b
  PROVE  /\ Newest(S) \in S \cup {0}
         /\ \A j \in S : j <= Newest(S)
<1> DEFINE above == {u \in Nat : \A j \in S : j <= u}
           less == OpToRel(<, Nat)
<1>1. IsWellFoundedOn(less, Nat)
  BY NatLessThanWellFounded
<1> HIDE DEF less
<1>2. above \subseteq Nat /\ above # {}
  BY b \in above
<1>3. PICK u \in above : \A v \in above : <<v, u>> \notin less
  <2> HIDE DEF above
  <2>1. QED
    BY <1>1, <1>2, WFMin
<1>4. \A v \in above : ~(v < u)
  BY <1>3 DEF OpToRel, less
<1>5. u \in S \cup {0}
  <2>1. SUFFICES ASSUME u \notin S, u # 0 PROVE FALSE
    OBVIOUS
  <2>2. u \in Nat /\ (\A j \in S : j <= u) /\ (\A j \in S : j \in Nat)
    BY <1>3
  <2>3. u - 1 \in Nat /\ u - 1 < u
    BY <2>1, <2>2
  <2>4. \A j \in S : j <= u - 1
    BY <2>1, <2>2
  <2>5. u - 1 \in above
    BY <2>3, <2>4
  <2>6. QED
    BY <1>4, <2>3, <2>5
<1>6. \E i \in S \cup {0} : \A j \in S : j <= i
  BY <1>3, <1>5
<1>7. QED
  BY <1>6 DEF Newest

LEMMA NewestPosition ==
  ASSUME Shape, NEW S, S \subseteq DOMAIN log
  PROVE  /\ Newest(S) \in S \cup {0} /\ Newest(S) \in Nat
         /\ \A j \in S : j <= Newest(S)
         /\ S # {} => Newest(S) \in S
<1>1. Len(log) \in Nat /\ DOMAIN log = 1..Len(log)
  BY DEF Shape
<1>2. S \subseteq 0..Len(log)
  BY <1>1
<1>3. QED
  BY <1>1, <1>2, NewestIsMax

LEMMA Latest ==
  ASSUME Shape
  PROVE  /\ LatestAttempt \in {0} \cup Attempt
         /\ LatestAttempt # 0 => LatestAttempt \in Made
         /\ \A k \in Made : k <= LatestAttempt
<1>1. Made \subseteq Attempt /\ Made \subseteq 0..MaxAttempt /\ MaxAttempt \in Nat
  BY RestartAssumption DEF Made, Attempt
<1>2. QED
  BY <1>1, NewestIsMax DEF LatestAttempt

(* The newest attempt is the one that no other exceeds. *)
LEMMA LatestIs ==
  ASSUME Shape, NEW n \in Made, \A k \in Made : k <= n
  PROVE  LatestAttempt = n
<1>1. n \in Nat /\ n > 0 /\ LatestAttempt \in Nat
  BY Latest DEF Made, Attempt
<1>2. n <= LatestAttempt /\ LatestAttempt <= n
  BY <1>1, Latest
<1>3. QED
  BY <1>1, <1>2

-----------------------------------------------------------------------------
(* Steps that add to the records. *)

(* The log keeps what it has. *)
Extends ==
  /\ DOMAIN log \subseteq DOMAIN log'
  /\ \A i \in DOMAIN log : log'[i] = log[i]

(* Attempts are neither made nor lost, and an update marks them as used. *)
Restamps ==
  \A n \in Attempt :
    \/ attempts'[n].made = attempts[n].made
    \/ attempts[n].made # "no" /\ attempts'[n].made = "used"

LEMMA Logged ==
  ASSUME Shape, NEW e \in EventType, log' = Append(log, e)
  PROVE  /\ log' \in Seq(EventType)
         /\ Len(log') = Len(log) + 1 /\ Len(log') \in DOMAIN log' /\ Len(log') \in Nat
         /\ log'[Len(log')] = e
         /\ Extends
         /\ \A i \in DOMAIN log' : i \in DOMAIN log \/ i = Len(log')
BY DEF Shape, Extends

LEMMA Entries ==
  ASSUME Shape
  PROVE  /\ \A v \in DOMAIN ivs : ivs[v] \in IvType
         /\ \A i \in DOMAIN log : log[i] \in EventType
BY DEF Shape

LEMMA MadeKept ==
  ASSUME Shape, Shape', Restamps
  PROVE  /\ Made' = Made /\ LatestAttempt' = LatestAttempt
         /\ LatestUsed => LatestUsed'
<1>1. Made' = Made
  BY DEF Shape, Restamps, Made
<1>2. LatestAttempt' = LatestAttempt
  BY <1>1 DEF LatestAttempt, Newest
<1>3. LatestUsed => LatestUsed'
  BY <1>2, Latest DEF LatestUsed, Restamps
<1>4. QED
  BY <1>1, <1>2, <1>3

LEMMA PassedKept ==
  ASSUME Extends
  PROVE  \A n : Passed(n) => Passed(n)'
BY DEF Extends, Passed, Positions

(* What an event must not say falsely. *)
Honest(e) ==
  /\ e.type = "shipped" => e.att \in shipped
  /\ e.type = "exit" => e.att # 0 /\ attempts[e.att].made = "used"
  /\ e.type = "acted" => e.iv \in DOMAIN ivs

LEMMA FactsKept ==
  ASSUME Inv, Shape', row' = row, Restamps, Extends,
         \A i \in DOMAIN log' \ DOMAIN log : Honest(log[i])',
         DOMAIN ivs \subseteq DOMAIN ivs', row.state = "queued" => ivs' = ivs,
         \A v \in DOMAIN ivs' : \/ v \in DOMAIN ivs /\ ivs'[v].target = ivs[v].target
                                \/ ivs'[v].target = 0,
         shipped \subseteq shipped'
  PROVE  RowsAndLog' /\ TargetsAreNewest'
<1>1. \A i \in DOMAIN log : Honest(log[i])
  BY DEF Inv, RowsAndLog, Honest
<1>2. \A i \in DOMAIN log' : Honest(log[i])'
  <2>1. TAKE i \in DOMAIN log'
  <2>2. CASE i \in DOMAIN log
    <3>1. log'[i] = log[i] /\ Honest(log[i]) /\ log[i] \in EventType
      BY <1>1, <2>2 DEF Extends, Inv, Shape
    <3>2. QED
      BY <3>1 DEF Honest, Restamps, EventType
  <2>3. CASE i \notin DOMAIN log
    BY <2>3
  <2>4. QED
    BY <2>2, <2>3
<1>3. row.state \in {"delivering", "delivered"} => Passed(row.att)'
  <2>1. row.state \in {"delivering", "delivered"} => Passed(row.att)
    BY DEF Inv, RowsAndLog
  <2>2. QED
    BY <2>1, PassedKept DEF Passed, Positions
<1>4. RowsAndLog'
  <2>1. row.att # 0 => attempts'[row.att].made = "used"
    BY DEF Inv, RowsAndLog, Shape, Restamps, RowType
  <2>2. QED
    BY <1>2, <1>3, <2>1 DEF Inv, RowsAndLog, Honest, Extends
<1>5. TargetsAreNewest'
  <2>1. Made' = Made
    BY MadeKept DEF Inv
  <2>2. ASSUME NEW v \in DOMAIN ivs', ivs'[v].target # 0,
               attempts'[ivs'[v].target].made = "created", NEW k \in Made
        PROVE  k <= ivs'[v].target
    <3>1. v \in DOMAIN ivs /\ ivs'[v].target = ivs[v].target
      BY <2>2
    <3>2. ivs[v].target \in Attempt
      BY <2>2, <3>1, Entries DEF Inv, IvType
    <3>3. attempts[ivs[v].target].made = "created"
      BY <2>2, <3>1, <3>2 DEF Restamps
    <3>4. QED
      BY <2>2, <3>1, <3>3 DEF Inv, TargetsAreNewest
  <2>3. QED
    BY <2>1, <2>2 DEF TargetsAreNewest
<1>6. QED
  BY <1>4, <1>5

-----------------------------------------------------------------------------
(* Every step keeps the shape. *)

LEMMA Places ==
  {"down", "fence", "claimed", "exited", "orphaned", "boot1", "boot2", "boot3",
   "redeliver", "loop", "failed", "ended", "off", "watch", "claim", "captured", "triage",
   "policy", "interrupted", "call", "calling", "close", "dispatch", "clean", "reap",
   "create", "target", "lease", "spawn", "use", "run", "verify", "verified", "deliver",
   "ship", "delivered"} \subseteq PC
BY DEF PC

LEMMA BackShape ==
  ASSUME Shape, NEW c \in Co
  PROVE  Back(c) \in [Co -> CoType] /\ Raised(c) \in [Co -> CoType]
<1>1. Idle \in CoType
  BY Places DEF Idle, CoType
<1>2. QED
  BY <1>1, Places DEF Shape, Back, Raised, Co, CoType

LEMMA TransitionShape ==
  ASSUME Shape, NEW c \in Co, NEW to \in STATES, NEW cause \in Nat,
         NEW next \in [Co -> CoType], Transition(c, to, cause, next)
  PROVE  row' \in RowType /\ co' \in [Co -> CoType]
<1>1. [row EXCEPT !.state = to, !.cause = cause] \in RowType
  BY DEF Shape, RowType
<1>2. QED
  BY <1>1, BackShape DEF Shape, Transition, Moved

(* An event that is appended: it is of this kind, and about this attempt. *)
Adds(type, att, cause, iv) ==
  \E e \in EventType :
    /\ log' = Append(log, e)
    /\ e.type = type /\ e.att = att /\ e.cause = cause /\ e.iv = iv

LEMMA EventShape ==
  ASSUME Shape, NEW type, type \in Kinds, NEW att, att \in {0} \cup Attempt,
         NEW cause, cause \in Nat, NEW act, act \in Acts, NEW iv, iv \in Nat,
         log' = Append(log, Event(type, att, cause, act, iv))
  PROVE  Adds(type, att, cause, iv)
<1>1. Event(type, att, cause, act, iv) \in EventType
  BY DEF Shape, Event, EventType, RowType
<1>2. LET e == Event(type, att, cause, act, iv) IN
      e.type = type /\ e.att = att /\ e.cause = cause /\ e.iv = iv
  BY DEF Event
<1>3. QED
  BY <1>1, <1>2 DEF Adds

LEMMA KindsAndActs ==
  /\ {"done", "exit", "stall", "passed", "failed", "shipped", "undelivered",
      "invoked", "acted", "gaveup", "spawned"} \subseteq Kinds
  /\ {"none", "crashed", "restart", "escalate", "wait"} \subseteq Acts
BY DEF Kinds, Acts

LEMMA StampedShape ==
  ASSUME Shape
  PROVE  Stamped \in [Attempt -> AttemptType]
<1>1. \A n \in Attempt :
        attempts[n] \in AttemptType /\ [attempts[n] EXCEPT !.made = "used"] \in AttemptType
  BY DEF Shape, AttemptType
<1>2. QED
  BY <1>1 DEF Stamped

LEMMA LogShape ==
  ASSUME Shape
  PROVE  Len(log) \in Nat /\ DOMAIN log = 1..Len(log)
BY DEF Shape

(* Coroutine c goes on as r. *)
LEMMA CoSet ==
  ASSUME Shape, NEW c \in Co, NEW r \in CoType, co' = [co EXCEPT ![c] = r]
  PROVE  /\ co' \in [Co -> CoType] /\ co'[c] = r
         /\ \A d \in Co \ {c} : co'[d] = co[d]
BY DEF Shape

LEMMA Goes ==
  ASSUME Shape, NEW c \in Co, NEW p \in PC, co' = [co EXCEPT ![c].pc = p]
  PROVE  /\ co' \in [Co -> CoType]
         /\ \A d \in Co \ {c} : co'[d] = co[d]
         /\ co'[c].pc = p /\ co'[c].cause = co[c].cause /\ co'[c].n = co[c].n
         /\ co'[c].iv = co[c].iv /\ co'[c].live = co[c].live
BY DEF Shape, CoType

LEMMA ToTriage ==
  ASSUME Shape, NEW c \in Co, NEW cause \in Nat, NEW live \in BOOLEAN, NEW boot \in Nat,
         Triage(c, cause, live, boot)
  PROVE  /\ co' \in [Co -> CoType]
         /\ \A d \in Co \ {c} : co'[d] = co[d]
         /\ co'[c].pc = "triage" /\ co'[c].cause = cause /\ co'[c].n = co[c].n
         /\ co'[c].live = live
<1> DEFINE r == [co[c] EXCEPT !.pc = "triage", !.cause = cause, !.live = live, !.boot = boot]
<1>1. /\ r \in CoType /\ r.pc = "triage" /\ r.cause = cause /\ r.n = co[c].n
      /\ r.live = live
  BY Places DEF Shape, CoType
<1>2. co' = [co EXCEPT ![c] = r]
  BY DEF Triage
<1> HIDE DEF r
<1>3. QED
  BY <1>1, <1>2, CoSet

(* An attempt is rewritten as a. *)
LEMMA Rewrites ==
  ASSUME Shape, NEW n \in Attempt, NEW a \in AttemptType,
         attempts' = [attempts EXCEPT ![n] = a],
         \/ a.made = attempts[n].made
         \/ attempts[n].made # "no" /\ a.made = "used"
  PROVE  attempts' \in [Attempt -> AttemptType] /\ Restamps
BY DEF Shape, Restamps

LEMMA StampedKept ==
  ASSUME Shape, attempts' = Stamped
  PROVE  attempts' \in [Attempt -> AttemptType] /\ Restamps
<1>1. LatestAttempt # 0 => LatestAttempt \in Attempt /\ attempts[LatestAttempt].made # "no"
  BY Latest DEF Made
<1>2. \A n \in Attempt : n # 0
  BY RestartAssumption DEF Attempt
<1>3. QED
  BY <1>1, <1>2, StampedShape DEF Stamped, Restamps, Shape, AttemptType

(* An update of the lease or of the candidate of attempt n. *)
LEMMA Amended ==
  ASSUME Shape, NEW n \in Attempt, NEW cand \in {0} \cup Attempt,
         NEW lease \in {"none", "active", "lapsed", "closed"}
  PROVE  LET a == [attempts[n] EXCEPT !.cand = cand, !.lease = lease] IN
         a \in AttemptType /\ a.made = attempts[n].made
<1>1. attempts[n] \in AttemptType
  BY DEF Shape
<1>2. QED
  BY <1>1 DEF AttemptType

LEMMA Leased ==
  ASSUME Shape, NEW n \in Attempt, NEW lease \in {"none", "active", "lapsed", "closed"},
         attempts' = [attempts EXCEPT ![n].lease = lease]
  PROVE  attempts' \in [Attempt -> AttemptType] /\ Restamps
<1>1. attempts[n] \in AttemptType
  BY DEF Shape
<1>2. attempts[n].cand \in {0} \cup Attempt
  BY <1>1 DEF AttemptType
<1> DEFINE a == [attempts[n] EXCEPT !.cand = attempts[n].cand, !.lease = lease]
<1>3. a = [attempts[n] EXCEPT !.lease = lease]
  BY <1>1 DEF AttemptType
<1>4. a \in AttemptType /\ a.made = attempts[n].made
  BY <1>2, Amended
<1> HIDE DEF a
<1>5. QED
  BY <1>3, <1>4, Rewrites

LEMMA TornDownKept ==
  ASSUME Shape, NEW c \in Co, TornDown(c)
  PROVE  /\ worker' \in [Attempt -> {"none", "alive", "dead"}]
         /\ attempts' \in [Attempt -> AttemptType] /\ Restamps
<1>1. co.watch.n \in {0} \cup Attempt
  BY DEF Shape, Co, CoType
<1>2. worker' \in [Attempt -> {"none", "alive", "dead"}]
  BY DEF Shape, TornDown
<1>3. CASE attempts' = attempts
  BY <1>2, <1>3 DEF Shape, Restamps
<1>4. CASE co.watch.n # 0 /\ attempts' = [attempts EXCEPT ![co.watch.n].lease = "closed"]
  BY <1>1, <1>2, <1>4, Leased
<1>5. QED
  BY <1>3, <1>4 DEF TornDown

-----------------------------------------------------------------------------
(* One coroutine drives the task; the other relies on nothing. *)

Drives ==
  {"triage", "orphaned", "target", "clean", "create", "verify", "verified",
   "deliver", "ship", "delivered", "redeliver"} \cup Recovers \cup Launching

LEMMA Vacuous ==
  ASSUME NEW c \in Co, co[c].pc \notin Drives
  PROVE  Relies(c)
BY DEF Relies, Drives, Recovers, Launching

StartPlaces == {"down", "fence", "claimed", "exited", "orphaned", "boot1", "boot2",
                "boot3", "redeliver", "loop", "failed", "ended"}

LEMMA Alone ==
  ASSUME Inv, AloneAtBoot, NEW c \in Co, NEW p \in PC, At(c, p),
         p \notin {"off", "boot2", "boot3", "loop", "ended"}
  PROVE  /\ c = "main" => co["watch"].pc = "off"
         /\ c = "watch" => co["main"].pc \in {"loop", "ended"}
<1>1. CASE c = "main"
  BY <1>1 DEF Inv, OneDriver, At
<1>2. CASE c = "watch"
  BY <1>2 DEF Inv, OneDriver, At, Awaits, AloneAtBoot, Co
<1>3. QED
  BY <1>1, <1>2 DEF Co

(* The main coroutine takes a step alone. *)
LEMMA MainStep ==
  ASSUME Inv, co["watch"].pc = "off", co'["watch"] = co["watch"],
         Relies("main")', ~co'["main"].live,
         \/ MainRelies'
         \/ co'["main"].pc \notin {"watch", "claim", "captured", "fence", "claimed",
                                 "exited", "orphaned"}
  PROVE  OneDriver' /\ (\A d \in Co : Relies(d)') /\ MainRelies' /\ WatchRelies'
<1>1. Relies("watch")'
  BY DEF Relies, Recovers, Launching
<1>2. QED
  BY <1>1 DEF OneDriver, MainRelies, WatchRelies, Co

(* The driver c takes a step. *)
LEMMA DriverStep ==
  ASSUME Inv, AloneAtBoot, NEW c \in Co, NEW p \in PC, At(c, p),
         p \notin {"off", "boot2", "boot3", "loop", "ended"},
         \A d \in Co \ {c} : co'[d] = co[d],
         c = "watch" => row'.state # "queued",
         Relies(c)',
         c = "main" =>
           /\ ~co'[c].live
           /\ \/ MainRelies'
              \/ co'[c].pc \notin {"watch", "claim", "captured", "fence", "claimed",
                                   "exited", "orphaned"},
         c = "watch" => /\ co'[c].pc \in {"claim", "captured"} => row'.state = "running"
                        /\ co'[c].pc \notin {"off"} \cup Launching => co'[c].n = row'.att
                        /\ co'[c].pc \notin StartPlaces
  PROVE  OneDriver' /\ (\A d \in Co : Relies(d)') /\ MainRelies' /\ WatchRelies'
<1>1. CASE c = "main"
  <2>1. co["watch"].pc = "off" /\ co'["watch"] = co["watch"]
    BY <1>1, Alone DEF Co
  <2>2. QED
    BY <1>1, <2>1, MainStep
<1>2. CASE c = "watch"
  <2>1. co'["main"].pc \in {"loop", "ended"} /\ co'["main"] = co["main"]
    BY <1>2, Alone DEF Co
  <2>2. Relies("main")'
    BY <2>1 DEF Relies, Recovers, Launching
  <2>3. QED
    BY <1>2, <2>1, <2>2 DEF Inv, OneDriver, MainRelies, WatchRelies, Co, StartPlaces
<1>3. QED
  BY <1>1, <1>2 DEF Co

(* It comes to an end. *)
LEMMA Ends ==
  ASSUME Inv, AloneAtBoot, NEW c \in Co, NEW p \in PC, At(c, p),
         p \notin {"off", "boot2", "boot3", "loop", "ended"},
         co' = Back(c) \/ co' = Raised(c),
         c = "watch" => row'.state # "queued"
  PROVE  /\ co' \in [Co -> CoType]
         /\ OneDriver' /\ (\A d \in Co : Relies(d)') /\ MainRelies' /\ WatchRelies'
<1>1. co' \in [Co -> CoType]
  BY BackShape DEF Inv
<1>2. \A d \in Co \ {c} : co'[d] = co[d]
  BY DEF Inv, Shape, Back, Raised, Co
<1>3. c = "main" => co'[c].pc \in {"boot2", "boot3", "loop", "failed"} /\ ~co'[c].live
  <2>1. SUFFICES ASSUME c = "main" PROVE co'[c].pc \in {"boot2", "boot3", "loop", "failed"} /\ ~co'[c].live
    OBVIOUS
  <2>2. co["main"] \in CoType /\ ~co["main"].live /\ co \in [Co -> CoType] /\ "main" \in Co
    BY DEF Inv, Shape, Co, OneDriver
  <2>3. PICK q \in {"boot2", "boot3", "loop", "failed"} : co' = [co EXCEPT !["main"].pc = q]
    BY <2>1 DEF Back, Raised
  <2>4. QED
    BY <2>1, <2>2, <2>3 DEF CoType
<1>4. c = "watch" => co'[c].pc = "off"
  BY DEF Inv, Shape, Back, Raised, Co, Idle
<1>5. Relies(c)'
  BY <1>3, <1>4 DEF Co, Relies, Recovers, Launching
<1>6. QED
  BY <1>1, <1>2, <1>3, <1>4, <1>5, DriverStep DEF StartPlaces

-----------------------------------------------------------------------------
(* The facts that steps of a kind keep. *)

LEMMA FactsStill ==
  ASSUME Inv, Shape', UNCHANGED <<row, log, ivs, shipped>>, Restamps
  PROVE  RowsAndLog' /\ TargetsAreNewest'
<1>1. Extends
  BY DEF Extends
<1>2. \A v \in DOMAIN ivs' : v \in DOMAIN ivs /\ ivs'[v].target = ivs[v].target
  OBVIOUS
<1>3. QED
  BY <1>1, <1>2, FactsKept

LEMMA FactsLogged ==
  ASSUME Inv, Shape', NEW e \in EventType, log' = Append(log, e), Honest(e)',
         UNCHANGED <<row, ivs>>, Restamps, shipped \subseteq shipped'
  PROVE  RowsAndLog' /\ TargetsAreNewest'
<1>1. Extends /\ \A i \in DOMAIN log' \ DOMAIN log : log'[i] = e
  BY Logged DEF Inv
<1>2. \A i \in DOMAIN log' \ DOMAIN log : Honest(log[i])'
  BY <1>1 DEF Honest
<1>3. \A v \in DOMAIN ivs' : v \in DOMAIN ivs /\ ivs'[v].target = ivs[v].target
  OBVIOUS
<1>4. QED
  BY <1>1, <1>2, <1>3, FactsKept

LEMMA FactsMoved ==
  ASSUME Inv, Shape', UNCHANGED <<attempts, log, ivs, shipped>>, row.state # "queued",
         row'.att = row.att,
         row'.state \in {"running", "verifying", "triage", "delivering", "delivered",
                         "needs_human"},
         row'.state = "triage" => row'.cause \in DOMAIN log,
         row'.state \in {"delivering", "delivered"} => Passed(row.att)
  PROVE  RowsAndLog' /\ TargetsAreNewest'
<1>1. row'.state \in {"delivering", "delivered"} => Passed(row.att)'
  BY DEF Passed, Positions
<1>2. RowsAndLog'
  BY <1>1 DEF Inv, RowsAndLog
<1>3. TargetsAreNewest'
  BY DEF Inv, TargetsAreNewest, Made
<1>4. QED
  BY <1>2, <1>3

(* The coroutine ends: it has nothing to do, or its transition is refused. *)
LEMMA Stops ==
  ASSUME Inv, AloneAtBoot, NEW c \in Co, NEW p \in PC, At(c, p),
         p \notin {"off", "boot2", "boot3", "loop", "ended"},
         co' = Back(c) \/ co' = Raised(c),
         UNCHANGED <<row, attempts, log, ivs, worker, shipped, crashes>>
  PROVE  Inv'
<1>1. c = "watch" => row'.state # "queued"
  BY DEF Inv, OneDriver, At
<1>2. /\ co' \in [Co -> CoType]
      /\ OneDriver' /\ (\A d \in Co : Relies(d)') /\ MainRelies' /\ WatchRelies'
  BY <1>1, Ends
<1>3. Shape'
  BY <1>2 DEF Inv, Shape
<1>4. Restamps
  BY DEF Restamps
<1>5. QED
  BY <1>2, <1>3, <1>4, FactsStill DEF Inv

-----------------------------------------------------------------------------
(* A process starts. *)

(* The main coroutine goes to its next place, where it relies on nothing but *)
(* the state of the row.                                                     *)
LEMMA MainGoes ==
  ASSUME Inv, AloneAtBoot, NEW p \in PC, At("main", p),
         p \notin {"off", "boot2", "boot3", "loop", "ended"},
         NEW q \in StartPlaces, co' = [co EXCEPT !["main"].pc = q],
         q # "orphaned", q = "redeliver" => row'.state = "delivering",
         q = "fence" => row'.state \in {"running", "verifying"},
         q \in {"claimed", "exited"} => row'.state = "running"
  PROVE  /\ co' \in [Co -> CoType]
         /\ OneDriver' /\ (\A d \in Co : Relies(d)') /\ MainRelies' /\ WatchRelies'
<1>1. "main" \in Co /\ q \in PC
  BY Places DEF Co, StartPlaces
<1>2. /\ co' \in [Co -> CoType] /\ co'["main"].pc = q
      /\ co'["main"].live = co["main"].live
      /\ \A d \in Co \ {"main"} : co'[d] = co[d]
  BY <1>1, Goes DEF Inv
<1>3. Relies("main")'
  BY <1>2 DEF Relies, Recovers, Launching, StartPlaces
<1>4. ~co'["main"].live /\ MainRelies'
  BY <1>2 DEF Inv, OneDriver, MainRelies, StartPlaces
<1>5. QED
  BY <1>1, <1>2, <1>3, <1>4, DriverStep

LEMMA StartKept ==
  ASSUME Inv, AloneAtBoot, Start
  PROVE  Inv'
<1> DEFINE q == IF Gone \/ row.state = "verifying" THEN "fence" ELSE "boot1"
<1>1. q \in StartPlaces /\ q \in {"fence", "boot1"}
      /\ (q = "fence" => row.state \in {"running", "verifying"})
  BY DEF Gone, StartPlaces
<1>2. co' = [co EXCEPT !["main"].pc = q] /\ At("main", "down") /\ row' = row
  BY DEF Start, Go
<1> HIDE DEF q
<1>3. /\ co' \in [Co -> CoType]
      /\ OneDriver' /\ (\A d \in Co : Relies(d)') /\ MainRelies' /\ WatchRelies'
  BY <1>1, <1>2, Places, MainGoes
<1>4. Shape'
  BY <1>3 DEF Start, Inv, Shape
<1>5. RowsAndLog' /\ TargetsAreNewest'
  BY <1>4, FactsStill DEF Start, Restamps
<1>6. QED
  BY <1>3, <1>4, <1>5 DEF Inv

LEMMA FenceKept ==
  ASSUME Inv, AloneAtBoot, Fence
  PROVE  Inv'
<1> DEFINE q == IF row.state = "verifying" THEN "boot1"
                ELSE IF Claimed # {} THEN "claimed" ELSE "exited"
<1>1. co' = [co EXCEPT !["main"].pc = q] /\ At("main", "fence") /\ row' = row
  BY DEF Fence, Go
<1>2. row.state \in {"running", "verifying"}
  BY <1>1 DEF Inv, MainRelies, At
<1>3. q \in StartPlaces /\ q \in {"boot1", "claimed", "exited"}
      /\ (q \in {"claimed", "exited"} => row.state = "running")
  BY <1>2 DEF StartPlaces
<1> HIDE DEF q
<1>4. /\ co' \in [Co -> CoType]
      /\ OneDriver' /\ (\A d \in Co : Relies(d)') /\ MainRelies' /\ WatchRelies'
  BY <1>1, <1>3, Places, MainGoes
<1>5. attempts' \in [Attempt -> AttemptType] /\ Restamps
  <2>1. \A n \in Attempt : attempts[n] \in AttemptType
    BY DEF Inv, Shape
  <2>2. \A n \in Attempt : /\ [attempts[n] EXCEPT !.lease = "closed"] \in AttemptType
                           /\ [attempts[n] EXCEPT !.lease = "closed"].made = attempts[n].made
    BY <2>1 DEF AttemptType
  <2>3. QED
    BY <2>1, <2>2 DEF Fence, Restamps
<1>6. Shape'
  BY <1>4, <1>5 DEF Fence, Inv, Shape
<1>7. RowsAndLog' /\ TargetsAreNewest'
  BY <1>5, <1>6, FactsStill DEF Fence
<1>8. QED
  BY <1>4, <1>6, <1>7 DEF Inv

LEMMA ReconcileClaimKept ==
  ASSUME Inv, AloneAtBoot, ReconcileClaim
  PROVE  Inv'
<1>1. /\ co' = [co EXCEPT !["main"].pc = "boot1"] /\ At("main", "claimed")
      /\ row'.state = "verifying" /\ row'.att = row.att /\ row.state = "running"
  BY DEF ReconcileClaim, Go, Inv, Shape, RowType, MainRelies, At
<1>2. /\ co' \in [Co -> CoType]
      /\ OneDriver' /\ (\A d \in Co : Relies(d)') /\ MainRelies' /\ WatchRelies'
  BY <1>1, Places, MainGoes DEF StartPlaces
<1>3. row' \in RowType
  <2>1. Newest(Claimed) \in Nat
    BY NewestPosition DEF Inv, Claimed, Facts, Positions
  <2>2. row.att \in Attempt
    BY <1>1 DEF Inv, RowsAndLog, Shape, RowType
  <2>3. attempts[row.att].cand \in {0} \cup Attempt
    BY <2>2 DEF Inv, Shape, AttemptType
  <2> DEFINE cand == IF attempts[row.att].cand # 0 THEN attempts[row.att].cand ELSE row.cand
  <2>4. cand \in {0} \cup Attempt
    BY <2>3 DEF Inv, Shape, RowType
  <2>5. row' = [row EXCEPT !.state = "verifying", !.cause = Newest(Claimed), !.cand = cand]
    BY DEF ReconcileClaim
  <2> HIDE DEF cand
  <2>6. QED
    BY <2>1, <2>4, <2>5 DEF Inv, Shape, RowType, STATES
<1>4. Shape'
  BY <1>2, <1>3 DEF ReconcileClaim, Inv, Shape
<1>5. RowsAndLog' /\ TargetsAreNewest'
  BY <1>1, <1>4, FactsMoved DEF ReconcileClaim
<1>6. QED
  BY <1>2, <1>4, <1>5 DEF Inv

LEMMA ReconcileExitKept ==
  ASSUME Inv, AloneAtBoot, ReconcileExit
  PROVE  Inv'
<1> DEFINE a == [attempts[row.att] EXCEPT !.made = "used", !.cand = row.att]
           r == [co["main"] EXCEPT !.pc = "orphaned", !.cause = Len(log')]
<1>1. "main" \in Co /\ At("main", "exited") /\ row.state = "running"
  BY DEF ReconcileExit, Inv, MainRelies, At, Co
<1>2. row.att \in Attempt /\ row.att # 0 /\ attempts[row.att].made = "used"
      /\ attempts[row.att] \in AttemptType
  BY <1>1 DEF Inv, RowsAndLog, Shape, RowType
<1>3. PICK e \in EventType : log' = Append(log, e) /\ e.type = "exit" /\ e.att = row.att
  <2>1. Adds("exit", row.att, 0, 0)
    BY <1>2, EventShape, KindsAndActs DEF ReconcileExit, Inv
  <2>2. QED
    BY <2>1 DEF Adds
<1>4. log' \in Seq(EventType) /\ Len(log') \in Nat /\ Len(log') \in DOMAIN log'
  BY <1>3, Logged DEF Inv
<1>5. a \in AttemptType /\ a.made = "used"
  BY <1>2 DEF AttemptType
<1>6. attempts' = [attempts EXCEPT ![row.att] = a]
  BY DEF ReconcileExit
<1>7. r \in CoType /\ r.pc = "orphaned" /\ r.cause = Len(log') /\ ~r.live
  BY <1>1, <1>4, Places DEF Inv, Shape, CoType, OneDriver
<1>8. co' = [co EXCEPT !["main"] = r]
  BY DEF ReconcileExit
<1> HIDE DEF a, r
<1>9. attempts' \in [Attempt -> AttemptType] /\ Restamps
  BY <1>2, <1>5, <1>6, Rewrites DEF Inv
<1>10. co' \in [Co -> CoType] /\ co'["main"] = r /\ \A d \in Co \ {"main"} : co'[d] = co[d]
  BY <1>1, <1>7, <1>8, CoSet DEF Inv
<1>11. Shape'
  BY <1>4, <1>9, <1>10 DEF ReconcileExit, Inv, Shape
<1>12. Relies("main")' /\ MainRelies'
  BY <1>1, <1>4, <1>7, <1>10 DEF ReconcileExit, Relies, MainRelies, Recovers, Launching
<1>13. OneDriver' /\ (\A d \in Co : Relies(d)') /\ MainRelies' /\ WatchRelies'
  BY <1>1, <1>7, <1>10, <1>12, Places, DriverStep
<1>14. Honest(e)'
  BY <1>2, <1>3, <1>9 DEF Honest, Restamps
<1>15. RowsAndLog' /\ TargetsAreNewest'
  BY <1>3, <1>9, <1>11, <1>14, FactsLogged DEF ReconcileExit
<1>16. QED
  BY <1>11, <1>13, <1>15 DEF Inv

LEMMA ReconcileMoveKept ==
  ASSUME Inv, AloneAtBoot, ReconcileMove
  PROVE  Inv'
<1>1. At("main", "orphaned") /\ row.state = "running"
  BY DEF ReconcileMove, Inv, MainRelies, At
<1>2. "main" \in Co /\ co["main"].cause \in DOMAIN log
  BY <1>1 DEF Inv, Relies, Co, At
<1>3. Moved("triage", co["main"].cause) /\ co' = [co EXCEPT !["main"].pc = "boot1"]
  BY <1>1 DEF ReconcileMove, Transition, Legal, Transitions, TERMINAL
<1>4. /\ row' \in RowType /\ row'.state = "triage" /\ row'.att = row.att
      /\ row'.cause = co["main"].cause
  BY <1>2, <1>3 DEF Inv, Shape, RowType, Moved, STATES, CoType
<1>5. /\ co' \in [Co -> CoType]
      /\ OneDriver' /\ (\A d \in Co : Relies(d)') /\ MainRelies' /\ WatchRelies'
  BY <1>1, <1>3, Places, MainGoes DEF StartPlaces
<1>6. Shape'
  BY <1>4, <1>5 DEF ReconcileMove, Inv, Shape
<1>7. RowsAndLog' /\ TargetsAreNewest'
  BY <1>1, <1>2, <1>4, <1>6, FactsMoved DEF ReconcileMove
<1>8. QED
  BY <1>5, <1>6, <1>7 DEF Inv

(* The main coroutine triages the task, which nothing else drives. *)
LEMMA MainTriages ==
  ASSUME Inv, co["watch"].pc = "off", NEW cause \in DOMAIN log, NEW boot \in Nat,
         Triage("main", cause, FALSE, boot),
         UNCHANGED <<row, attempts, log, ivs, worker, shipped, crashes>>
  PROVE  Inv'
<1>1. "main" \in Co /\ "watch" \in Co /\ cause \in Nat
  BY LogShape DEF Inv, Co
<1>2. /\ co' \in [Co -> CoType] /\ co'["main"].pc = "triage" /\ co'["main"].cause = cause
      /\ co'["main"].live = FALSE /\ \A d \in Co \ {"main"} : co'[d] = co[d]
  BY <1>1, ToTriage DEF Inv
<1>3. Relies("main")'
  BY <1>2 DEF Relies, Recovers, Launching
<1>4. OneDriver' /\ (\A d \in Co : Relies(d)') /\ MainRelies' /\ WatchRelies'
  BY <1>1, <1>2, <1>3, MainStep
<1>5. Shape'
  BY <1>2 DEF Inv, Shape
<1>6. RowsAndLog' /\ TargetsAreNewest'
  BY <1>5, FactsStill DEF Restamps
<1>7. QED
  BY <1>4, <1>5, <1>6 DEF Inv

LEMMA ResumeTriageKept ==
  ASSUME Inv, AloneAtBoot, ResumeTriage
  PROVE  Inv'
<1>1. At("main", "boot1") /\ "main" \in Co /\ "boot1" \in PC
  BY Places DEF ResumeTriage, Co
<1>2. CASE row.state = "triage"
  <2>1. co["watch"].pc = "off"
    BY <1>1, Alone
  <2>2. row.cause \in DOMAIN log
    BY <1>2 DEF Inv, RowsAndLog
  <2>3. QED
    BY <1>2, <2>1, <2>2, MainTriages DEF ResumeTriage
<1>3. CASE row.state # "triage"
  <2>1. co' = [co EXCEPT !["main"].pc = "boot2"]
    BY <1>3 DEF ResumeTriage, Go
  <2>2. /\ co' \in [Co -> CoType]
        /\ OneDriver' /\ (\A d \in Co : Relies(d)') /\ MainRelies' /\ WatchRelies'
    BY <1>1, <2>1, MainGoes DEF StartPlaces
  <2>3. Shape'
    BY <2>2 DEF ResumeTriage, Inv, Shape
  <2>4. RowsAndLog' /\ TargetsAreNewest'
    BY <2>3, FactsStill DEF ResumeTriage, Restamps
  <2>5. QED
    BY <2>2, <2>3, <2>4 DEF Inv
<1>4. QED
  BY <1>2, <1>3

(* The main coroutine has no checkpoint to resume here. *)
LEMMA MainPasses ==
  ASSUME Inv, NEW q \in {"boot3", "loop", "ended"}, co' = [co EXCEPT !["main"].pc = q],
         co["main"].pc \in {"boot2", "boot3", "loop", "redeliver"},
         q = "boot3" => co["main"].pc = "boot2",
         UNCHANGED <<row, attempts, log, ivs, worker, shipped, crashes>>
  PROVE  Inv'
<1>1. "main" \in Co /\ "watch" \in Co /\ q \in PC
  BY Places DEF Co
<1>2. /\ co' \in [Co -> CoType] /\ co'["main"].pc = q
      /\ co'["main"].live = co["main"].live /\ \A d \in Co \ {"main"} : co'[d] = co[d]
  BY <1>1, Goes DEF Inv
<1>3. co'["watch"] = co["watch"]
  BY <1>1, <1>2
<1>4. Shape'
  BY <1>2 DEF Inv, Shape
<1>5. Restamps /\ Extends
  BY DEF Restamps, Extends
<1>6. RowsAndLog' /\ TargetsAreNewest'
  BY <1>4, <1>5, FactsStill
<1>7. Relies("main")'
  BY <1>2 DEF Relies, Recovers, Launching
<1>8. Relies("watch")'
  <2>1. Made' = Made /\ (LatestUsed => LatestUsed') /\ (Affordable => Affordable')
    BY <1>4, <1>5, MadeKept DEF Inv, Affordable
  <2>2. \A n : Passed(n) => Passed(n)'
    BY <1>5, PassedKept
  <2>3. Passed(row.att) => Passed(row.att)'
    BY <2>2 DEF Passed, Positions
  <2>4. Relies("watch")
    BY <1>1 DEF Inv
  <2>5. QED
    BY <1>3, <2>1, <2>3, <2>4 DEF Relies
<1>9. OneDriver'
  BY <1>2, <1>3 DEF Inv, OneDriver
<1>10. MainRelies' /\ WatchRelies'
  BY <1>2, <1>3 DEF Inv, MainRelies, WatchRelies
<1>11. QED
  BY <1>1, <1>4, <1>6, <1>7, <1>8, <1>9, <1>10 DEF Inv, Co

(* The main coroutine resumes a checkpoint, at p, which nothing else drives. *)
LEMMA MainResumes ==
  ASSUME Inv, co["watch"].pc = "off", NEW p \in {"verify", "deliver"}, NEW boot \in Nat,
         co' = [co EXCEPT !["main"].pc = p, !["main"].boot = boot],
         row.state = IF p = "verify" THEN "verifying" ELSE "delivering",
         UNCHANGED <<row, attempts, log, ivs, worker, shipped, crashes>>
  PROVE  Inv'
<1> DEFINE r == [co["main"] EXCEPT !.pc = p, !.boot = boot]
<1>1. "main" \in Co /\ "watch" \in Co /\ p \in PC
  BY Places DEF Co
<1>2. r \in CoType /\ r.pc = p /\ r.live = co["main"].live
  BY <1>1 DEF Inv, Shape, CoType
<1>3. co' = [co EXCEPT !["main"] = r]
  OBVIOUS
<1> HIDE DEF r
<1>4. co' \in [Co -> CoType] /\ co'["main"] = r /\ \A d \in Co \ {"main"} : co'[d] = co[d]
  BY <1>1, <1>2, <1>3, CoSet DEF Inv
<1>5. Relies("main")' /\ ~co'["main"].live
  BY <1>2, <1>4 DEF Inv, OneDriver, Relies, Recovers, Launching
<1>6. OneDriver' /\ (\A d \in Co : Relies(d)') /\ MainRelies' /\ WatchRelies'
  BY <1>1, <1>2, <1>4, <1>5, MainStep
<1>7. Shape'
  BY <1>4 DEF Inv, Shape
<1>8. RowsAndLog' /\ TargetsAreNewest'
  BY <1>7, FactsStill DEF Restamps
<1>9. QED
  BY <1>6, <1>7, <1>8 DEF Inv

(* The main coroutine projects a recorded result to the row, and goes to q. *)
LEMMA MainProjects ==
  ASSUME Inv, co["watch"].pc = "off", NEW to \in {"delivering", "delivered"}, NEW cause \in Nat,
         NEW r \in CoType, ~r.live, r.pc \in {"redeliver", "boot3", "loop"},
         r.pc = "redeliver" => to = "delivering",
         Moved(to, cause), co' = [co EXCEPT !["main"] = r], row.state # "queued",
         Passed(row.att), UNCHANGED <<attempts, log, ivs, worker, shipped, crashes>>
  PROVE  Inv'
<1>1. "main" \in Co /\ "watch" \in Co
  BY DEF Co
<1>2. co' \in [Co -> CoType] /\ co'["main"] = r /\ \A d \in Co \ {"main"} : co'[d] = co[d]
  BY <1>1, CoSet DEF Inv
<1>3. row' \in RowType /\ row'.state = to /\ row'.att = row.att
  BY DEF Inv, Shape, RowType, Moved, STATES
<1>4. Relies("main")'
  BY <1>2, <1>3 DEF Relies, Recovers, Launching
<1>5. OneDriver' /\ (\A d \in Co : Relies(d)') /\ MainRelies' /\ WatchRelies'
  BY <1>1, <1>2, <1>4, MainStep
<1>6. Shape'
  BY <1>2, <1>3 DEF Inv, Shape
<1>7. RowsAndLog' /\ TargetsAreNewest'
  BY <1>3, <1>6, FactsMoved
<1>8. QED
  BY <1>5, <1>6, <1>7 DEF Inv

LEMMA ResumeVerifyingKept ==
  ASSUME Inv, AloneAtBoot, ResumeVerifying
  PROVE  Inv'
<1> DEFINE last == Newest(Verdicts)
<1>1. At("main", "boot2") /\ co["main"].pc = "boot2"
  BY DEF ResumeVerifying, At
<1>2. last \in Nat /\ last \in Verdicts \cup {0} /\ Verdicts \subseteq DOMAIN log
  BY NewestPosition DEF Inv, Verdicts, Facts, Positions
<1>3. /\ UNCHANGED <<attempts, log, ivs, worker, shipped, crashes>>
      /\ IF row.state # "verifying" THEN Go("main", "boot3") /\ UNCHANGED row
         ELSE IF last = 0
         THEN co' = [co EXCEPT !["main"].pc = "verify", !["main"].boot = 2] /\ UNCHANGED row
         ELSE IF log[last].type = "passed"
         THEN Transition("main", "delivering", last,
                         [co EXCEPT !["main"].pc = "redeliver", !["main"].boot = 2])
         ELSE Triage("main", last, FALSE, 2) /\ UNCHANGED row
  BY DEF ResumeVerifying
<1>4. log[last].type = "passed" /\ last # 0 => Passed(row.att)
  BY <1>2 DEF Passed, Verdicts, Facts, Positions
<1> HIDE DEF last
<1>5. CASE row.state # "verifying"
  BY <1>1, <1>3, <1>5, MainPasses DEF Go
<1>6. CASE row.state = "verifying"
  <2>1. co["watch"].pc = "off"
    BY <1>1, <1>6 DEF Inv, OneDriver
  <2>2. CASE last = 0
    BY <1>3, <1>6, <2>1, <2>2, MainResumes
  <2>3. CASE last # 0 /\ log[last].type = "passed"
    <3>1. /\ Moved("delivering", last)
          /\ co' = [co EXCEPT !["main"].pc = "redeliver", !["main"].boot = 2]
      BY <1>3, <1>6, <2>3 DEF Transition, Legal, Transitions, TERMINAL
    <3> DEFINE r == [co["main"] EXCEPT !.pc = "redeliver", !.boot = 2]
    <3>2. r \in CoType /\ ~r.live /\ r.pc = "redeliver"
      BY Places DEF Inv, Shape, CoType, OneDriver, Co
    <3>3. co' = [co EXCEPT !["main"] = r]
      BY <3>1
    <3> HIDE DEF r
    <3>4. QED
      BY <1>2, <1>3, <1>4, <1>6, <2>1, <2>3, <3>1, <3>2, <3>3, MainProjects
  <2>4. CASE last # 0 /\ log[last].type # "passed"
    BY <1>2, <1>3, <1>6, <2>1, <2>4, MainTriages
  <2>5. QED
    BY <2>2, <2>3, <2>4
<1>7. QED
  BY <1>5, <1>6

LEMMA ResumeDeliveringKept ==
  ASSUME Inv, AloneAtBoot, ResumeDelivering
  PROVE  Inv'
<1> DEFINE boot == IF co["main"].pc = "boot3" THEN 3 ELSE 2
           q == IF boot = 2 THEN "boot3" ELSE "loop"
           done == Newest(Facts({"shipped"}))
           failed == Newest(Facts({"undelivered"}))
<1>1. /\ co["main"].pc \in {"boot3", "redeliver"} /\ boot \in {2, 3} /\ q \in {"boot3", "loop"}
      /\ At("main", "boot3") \/ At("main", "redeliver")
  BY DEF ResumeDelivering, At
<1>2. done \in Nat /\ failed \in DOMAIN log \cup {0}
  BY NewestPosition DEF Inv, Facts, Positions
<1>3. /\ UNCHANGED <<attempts, log, ivs, worker, shipped, crashes>>
      /\ IF row.state # "delivering" THEN Go("main", "loop") /\ UNCHANGED row
         ELSE IF done # 0
         THEN Transition("main", "delivered", done, [co EXCEPT !["main"].pc = q])
         ELSE /\ IF failed # 0 THEN Triage("main", failed, FALSE, boot)
                 ELSE co' = [co EXCEPT !["main"].pc = "deliver", !["main"].boot = boot]
              /\ UNCHANGED row
  BY DEF ResumeDelivering
<1> HIDE DEF boot, q, done, failed
<1>4. CASE row.state # "delivering"
  BY <1>1, <1>3, <1>4, MainPasses DEF Go
<1>5. CASE row.state = "delivering"
  <2>1. co["watch"].pc = "off"
    <3>1. CASE co["main"].pc = "boot3"
      BY <1>5, <3>1 DEF Inv, OneDriver
    <3>2. CASE co["main"].pc # "boot3"
      BY <1>1, <3>2, Alone, Places DEF At, Co
    <3>3. QED
      BY <3>1, <3>2
  <2>2. CASE done # 0
    <3>1. Moved("delivered", done) /\ co' = [co EXCEPT !["main"].pc = q]
      BY <1>3, <1>5, <2>2 DEF Transition, Legal, Transitions, TERMINAL
    <3> DEFINE r == [co["main"] EXCEPT !.pc = q]
    <3>2. r \in CoType /\ ~r.live /\ r.pc = q
      BY <1>1, Places DEF Inv, Shape, CoType, OneDriver, Co
    <3>3. co' = [co EXCEPT !["main"] = r] /\ Passed(row.att)
      BY <1>5, <3>1 DEF Inv, RowsAndLog
    <3> HIDE DEF r
    <3>4. QED
      BY <1>1, <1>2, <1>3, <1>5, <2>1, <3>1, <3>2, <3>3, MainProjects
  <2>3. CASE done = 0 /\ failed # 0
    BY <1>1, <1>2, <1>3, <1>5, <2>1, <2>3, MainTriages
  <2>4. CASE done = 0 /\ failed = 0
    BY <1>1, <1>3, <1>5, <2>1, <2>4, MainResumes
  <2>5. QED
    BY <2>2, <2>3, <2>4
<1>6. QED
  BY <1>4, <1>5

LEMMA LoopKept ==
  ASSUME Inv, AloneAtBoot, Loop
  PROVE  Inv'
<1>1. co["main"].pc = "loop"
  BY DEF Loop, At
<1>2. CASE row.state \in TERMINAL \cup {"needs_human"} /\ Go("main", "ended")
  BY <1>1, <1>2, MainPasses DEF Loop, Go
<1>3. CASE /\ row.state = "queued"
           /\ co' = [co EXCEPT !["main"].pc = "create", !["main"].iv = 0, !["main"].boot = 4]
  <2> DEFINE r == [co["main"] EXCEPT !.pc = "create", !.iv = 0, !.boot = 4]
  <2>1. "main" \in Co /\ "watch" \in Co /\ co["watch"].pc = "off"
    BY <1>1, <1>3 DEF Inv, OneDriver, Co
  <2>2. r \in CoType /\ ~r.live /\ r.pc = "create" /\ r.iv = 0
    BY <2>1, Places DEF Inv, Shape, CoType, OneDriver
  <2>3. co' = [co EXCEPT !["main"] = r]
    BY <1>3
  <2> HIDE DEF r
  <2>4. co' \in [Co -> CoType] /\ co'["main"] = r /\ \A d \in Co \ {"main"} : co'[d] = co[d]
    BY <2>1, <2>2, <2>3, CoSet DEF Inv
  <2>5. Relies("main")'
    BY <1>3, <2>2, <2>4 DEF Loop, Relies, Recovers, Launching
  <2>6. OneDriver' /\ (\A d \in Co : Relies(d)') /\ MainRelies' /\ WatchRelies'
    BY <2>1, <2>2, <2>4, <2>5, MainStep
  <2>7. Shape'
    BY <2>4 DEF Loop, Inv, Shape
  <2>8. RowsAndLog' /\ TargetsAreNewest'
    BY <2>7, FactsStill DEF Loop, Restamps
  <2>9. QED
    BY <2>6, <2>7, <2>8 DEF Inv
<1>4. QED
  BY <1>2, <1>3 DEF Loop

-----------------------------------------------------------------------------
(* Triage. *)

(* The driver c, at p, goes on as r. *)
LEMMA DriverGoes ==
  ASSUME Inv, AloneAtBoot, NEW c \in Co, NEW p \in PC, At(c, p),
         p \notin {"off", "boot2", "boot3", "loop", "ended"},
         NEW r \in CoType, co' = [co EXCEPT ![c] = r],
         r.n = co[c].n, c = "main" => ~r.live,
         r.pc \notin StartPlaces, r.pc \notin {"off", "claim", "captured"},
         r.pc = "watch" => c = "watch",
         p \in Launching => r.pc \in Launching,
         row'.att = row.att, c = "watch" => row'.state # "queued",
         Relies(c)'
  PROVE  /\ co' \in [Co -> CoType] /\ co'[c] = r
         /\ OneDriver' /\ (\A d \in Co : Relies(d)') /\ MainRelies' /\ WatchRelies'
<1>1. co' \in [Co -> CoType] /\ co'[c] = r /\ \A d \in Co \ {c} : co'[d] = co[d]
  BY CoSet DEF Inv
<1>2. c = "watch" => (co'[c].pc \notin {"off"} \cup Launching => co'[c].n = row'.att)
  BY <1>1 DEF Inv, WatchRelies, At
<1>3. c = "main" => co'[c].pc \notin {"watch", "claim", "captured", "fence", "claimed",
                                      "exited", "orphaned"}
  BY <1>1 DEF StartPlaces
<1>4. QED
  BY <1>1, <1>2, <1>3, DriverStep

(* What is known of the driver c at its place. *)
LEMMA Driver ==
  ASSUME Inv, NEW c \in Co
  PROVE  /\ co[c] \in CoType /\ Relies(c)
         /\ c = "main" => ~co[c].live
         /\ c = "watch" /\ co[c].pc # "off" => row.state # "queued"
BY DEF Inv, Shape, OneDriver

(* The driver c goes on as r, and nothing else changes. *)
LEMMA DriverStays ==
  ASSUME Inv, AloneAtBoot, NEW c \in Co, NEW p \in PC, At(c, p),
         p \notin {"off", "boot2", "boot3", "loop", "ended"},
         NEW r \in CoType, co' = [co EXCEPT ![c] = r],
         r.n = co[c].n, c = "main" => ~r.live,
         r.pc \notin StartPlaces, r.pc \notin {"off", "claim", "captured"},
         r.pc = "watch" => c = "watch",
         p \in Launching => r.pc \in Launching,
         Relies(c)',
         UNCHANGED <<row, attempts, log, ivs, worker, shipped, crashes>>
  PROVE  Inv'
<1>1. c = "watch" => row'.state # "queued"
  BY Driver, Places DEF At
<1>2. /\ co' \in [Co -> CoType]
      /\ OneDriver' /\ (\A d \in Co : Relies(d)') /\ MainRelies' /\ WatchRelies'
  BY <1>1, DriverGoes
<1>3. Shape'
  BY <1>2 DEF Inv, Shape
<1>4. RowsAndLog' /\ TargetsAreNewest'
  BY <1>3, FactsStill DEF Restamps
<1>5. QED
  BY <1>2, <1>3, <1>4 DEF Inv

(* The driver c goes on as r, and moves the task. *)
LEMMA DriverMoves ==
  ASSUME Inv, AloneAtBoot, NEW c \in Co, NEW p \in PC, At(c, p),
         p \notin {"off", "boot2", "boot3", "loop", "ended"},
         NEW r \in CoType, co' = [co EXCEPT ![c] = r],
         r.n = co[c].n, c = "main" => ~r.live,
         r.pc \notin StartPlaces, r.pc \notin {"off", "claim", "captured"},
         r.pc = "watch" => c = "watch",
         p \in Launching => r.pc \in Launching,
         Relies(c)',
         NEW to \in {"running", "verifying", "triage", "delivering", "delivered", "needs_human"},
         NEW cause \in Nat, Moved(to, cause), row.state # "queued",
         to = "triage" => cause \in DOMAIN log,
         to \in {"delivering", "delivered"} => Passed(row.att),
         UNCHANGED <<attempts, log, ivs, worker, shipped, crashes>>
  PROVE  Inv'
<1>1. row' \in RowType /\ row'.state = to /\ row'.cause = cause /\ row'.att = row.att
  BY DEF Inv, Shape, RowType, Moved, STATES
<1>2. /\ co' \in [Co -> CoType]
      /\ OneDriver' /\ (\A d \in Co : Relies(d)') /\ MainRelies' /\ WatchRelies'
  BY <1>1, DriverGoes
<1>3. Shape'
  BY <1>1, <1>2 DEF Inv, Shape
<1>4. RowsAndLog' /\ TargetsAreNewest'
  BY <1>1, <1>3, FactsMoved
<1>5. QED
  BY <1>2, <1>3, <1>4 DEF Inv

LEMMA EnterTriageKept ==
  ASSUME Inv, AloneAtBoot, NEW c \in Co, EnterTriage(c)
  PROVE  Inv'
<1>1. At(c, "triage") /\ co[c].pc = "triage" /\ "triage" \in PC
  BY Places DEF EnterTriage, At
<1>2. co[c].cause \in DOMAIN log
  BY <1>1, Driver DEF Relies
<1> DEFINE r == [co[c] EXCEPT !.pc = "policy"]
<1>3. r \in CoType /\ r.pc = "policy" /\ r.n = co[c].n /\ r.live = co[c].live
      /\ r.cause = co[c].cause
  BY Driver, Places DEF CoType
<1>4. [co EXCEPT ![c].pc = "policy"] = [co EXCEPT ![c] = r]
  OBVIOUS
<1>5. CASE co' = Back(c) /\ UNCHANGED row
  BY <1>1, <1>5, Stops DEF EnterTriage
<1>6. CASE row.state = "triage" /\ Go(c, "policy") /\ UNCHANGED row
  <2>1. co' = [co EXCEPT ![c] = r]
    BY <1>4, <1>6 DEF Go
  <2> HIDE DEF r
  <2>2. co'[c] = r
    BY <2>1, <1>3, CoSet DEF Inv
  <2>3. Relies(c)'
    BY <1>2, <1>3, <1>6, <2>2 DEF EnterTriage, Relies, Recovers, Launching
  <2>4. QED
    BY <1>1, <1>3, <1>6, <2>1, <2>3, Driver, DriverStays DEF EnterTriage, StartPlaces, Launching
<1>7. CASE /\ row.state \notin TERMINAL \cup {"needs_human", "triage"}
           /\ Transition(c, "triage", co[c].cause, [co EXCEPT ![c].pc = "policy"])
  <2>1. CASE ~Legal(row.state, "triage")
    BY <1>1, <1>7, <2>1, Stops DEF EnterTriage, Transition
  <2>2. CASE Legal(row.state, "triage")
    <3>1. Moved("triage", co[c].cause) /\ co' = [co EXCEPT ![c] = r]
      BY <1>4, <1>7, <2>2 DEF Transition
    <3>2. row'.state = "triage" /\ co[c].cause \in Nat /\ row.state # "queued"
      BY <2>2, <3>1, Driver DEF Inv, Shape, RowType, Moved, CoType, Legal, Transitions
    <3> HIDE DEF r
    <3>3. co'[c] = r
      BY <3>1, <1>3, CoSet DEF Inv
    <3>4. Relies(c)'
      BY <1>2, <1>3, <3>2, <3>3 DEF EnterTriage, Relies, Recovers, Launching
    <3>5. QED
      BY <1>1, <1>2, <1>3, <3>1, <3>2, <3>4, Driver, DriverMoves
      DEF EnterTriage, StartPlaces, Launching
  <2>3. QED
    BY <2>1, <2>2
<1>8. QED
  BY <1>5, <1>6, <1>7 DEF EnterTriage

LEMMA PolicyKept ==
  ASSUME Inv, AloneAtBoot, NEW c \in Co, Policy(c)
  PROVE  Inv'
<1> DEFINE saved == Newest(Acted(co[c].cause))
<1>1. At(c, "policy") /\ co[c].pc = "policy" /\ "policy" \in PC
  BY Places DEF Policy, At
<1>2. co[c].cause \in DOMAIN log /\ row.state = "triage"
  BY <1>1, Driver DEF Relies, Recovers
<1>3. saved # 0 => saved \in DOMAIN log /\ log[saved].type = "acted"
  BY NewestPosition DEF Inv, Acted
<1>4. saved # 0 => log[saved].iv \in DOMAIN ivs
  BY <1>3 DEF Inv, RowsAndLog
<1>5. PICK q \in {"clean", "interrupted", "dispatch", "call"}, iv \in Nat :
        /\ co' = [co EXCEPT ![c] = [@ EXCEPT !.pc = q, !.iv = iv]]
        /\ q = "clean" => CrashRetried(co[c].cause) /\ iv = 0
        /\ q = "dispatch" => iv \in DOMAIN ivs
  <2>1. co[c].iv \in Nat /\ co[c] \in CoType
    BY Driver DEF CoType
  <2>2. \A q : [co EXCEPT ![c].pc = q] = [co EXCEPT ![c] = [@ EXCEPT !.pc = q, !.iv = co[c].iv]]
    BY <2>1 DEF CoType
  <2>3. saved # 0 => log[saved].iv \in Nat
    BY <1>3, Entries DEF Inv, EventType
  <2> HIDE DEF saved
  <2>4. CASE CrashRetried(co[c].cause)
    BY <2>4 DEF Policy
  <2>5. CASE ~CrashRetried(co[c].cause) /\ Unfinished # {}
    BY <2>1, <2>2, <2>5 DEF Policy, Go
  <2>6. CASE ~CrashRetried(co[c].cause) /\ Unfinished = {} /\ saved # 0
    BY <1>4, <2>3, <2>6 DEF Policy, saved
  <2>7. CASE ~CrashRetried(co[c].cause) /\ Unfinished = {} /\ saved = 0
    BY <2>1, <2>2, <2>7 DEF Policy, Go, saved
  <2>8. QED
    BY <2>4, <2>5, <2>6, <2>7
<1> DEFINE r == [co[c] EXCEPT !.pc = q, !.iv = iv]
<1>6. r \in CoType /\ r.pc = q /\ r.n = co[c].n /\ r.live = co[c].live /\ r.iv = iv
  BY Driver, Places DEF CoType
<1>7. co' = [co EXCEPT ![c] = r]
  BY <1>5
<1> HIDE DEF r
<1>8. co'[c] = r
  BY <1>6, <1>7, CoSet DEF Inv
<1>9. UNCHANGED <<row, attempts, log, ivs, worker, shipped, crashes>>
  BY DEF Policy
<1>10. q = "clean" => Affordable /\ LatestUsed
  BY <1>2, <1>5 DEF CrashRetried, Affordable, LatestUsed, Inv, RowsAndLog
<1>11. (Affordable => Affordable') /\ (LatestUsed => LatestUsed')
  BY <1>9 DEF Affordable, LatestUsed, LatestAttempt, Newest, Made
<1>12. Relies(c)'
  BY <1>2, <1>5, <1>6, <1>8, <1>9, <1>10, <1>11 DEF Relies, Recovers, Launching
<1>13. QED
  BY <1>1, <1>6, <1>7, <1>9, <1>12, Driver, DriverStays DEF StartPlaces, Launching

(* An intervention is rewritten. *)
LEMMA Reviewed ==
  ASSUME Shape, NEW k \in DOMAIN ivs, NEW x \in IvType, ivs' = [ivs EXCEPT ![k] = x]
  PROVE  /\ ivs' \in Seq(IvType) /\ DOMAIN ivs' = DOMAIN ivs /\ ivs'[k] = x
         /\ \A v \in DOMAIN ivs : v # k => ivs'[v] = ivs[v]
BY DEF Shape

(* It ends. *)
LEMMA Ended ==
  ASSUME Shape, NEW k \in DOMAIN ivs, ivs' = [ivs EXCEPT ![k].ended = TRUE]
  PROVE  /\ ivs' \in Seq(IvType) /\ DOMAIN ivs' = DOMAIN ivs
         /\ \A v \in DOMAIN ivs' : ivs'[v].target = ivs[v].target
<1> DEFINE x == [ivs[k] EXCEPT !.ended = TRUE]
<1>1. x \in IvType /\ x.target = ivs[k].target
  BY Entries DEF IvType
<1>2. ivs' = [ivs EXCEPT ![k] = x]
  OBVIOUS
<1> HIDE DEF x
<1>3. QED
  BY <1>1, <1>2, Reviewed

LEMMA NewestIntervention ==
  ASSUME Shape, NEW S, S \subseteq DOMAIN ivs
  PROVE  Newest(S) \in Nat /\ (S # {} => Newest(S) \in S)
<1>1. Len(ivs) \in Nat /\ DOMAIN ivs = 1..Len(ivs)
  BY DEF Shape
<1>2. S \subseteq 0..Len(ivs)
  BY <1>1
<1>3. QED
  BY <1>1, <1>2, NewestIsMax

LEMMA InterruptedKept ==
  ASSUME Inv, AloneAtBoot, NEW c \in Co, Interrupted(c)
  PROVE  Inv'
<1>1. At(c, "interrupted") /\ co[c].pc = "interrupted" /\ "interrupted" \in PC
  BY Places DEF Interrupted, At
<1>2. row.state = "triage" /\ Shape
  BY <1>1, Driver DEF Relies, Recovers, Inv
<1>3. CASE Unfinished # {}
  <2> DEFINE k == Newest(Unfinished)
  <2>1. k \in DOMAIN ivs /\ k \in Nat
    BY <1>2, <1>3, NewestIntervention DEF Unfinished
  <2>2. Adds("gaveup", row.att, co[c].cause, k)
    <3>1. row.att \in {0} \cup Attempt /\ co[c].cause \in Nat
      BY <1>2, Driver DEF Shape, RowType, CoType
    <3>2. log' = Append(log, Event("gaveup", row.att, co[c].cause, "none", k))
      BY <1>3 DEF Interrupted
    <3> HIDE DEF k
    <3>3. QED
      BY <1>2, <2>1, <3>1, <3>2, EventShape, KindsAndActs
  <2>3. ivs' = [ivs EXCEPT ![k].ended = TRUE]
    BY <1>3 DEF Interrupted
  <2>4. /\ attempts' = Stamped /\ UNCHANGED <<row, co, worker, shipped, crashes>>
    BY <1>3 DEF Interrupted
  <2> HIDE DEF k
  <2>5. PICK e \in EventType : log' = Append(log, e) /\ e.type = "gaveup"
    BY <2>2 DEF Adds
  <2>6. /\ ivs' \in Seq(IvType) /\ DOMAIN ivs' = DOMAIN ivs
        /\ \A v \in DOMAIN ivs' : ivs'[v].target = ivs[v].target
    BY <1>2, <2>1, <2>3, Ended
  <2>7. attempts' \in [Attempt -> AttemptType] /\ Restamps
    BY <1>2, <2>4, StampedKept
  <2>8. log' \in Seq(EventType) /\ Extends
        /\ \A i \in DOMAIN log' : i \in DOMAIN log \/ log'[i] = e
    BY <1>2, <2>5, Logged
  <2>9. Shape'
    BY <2>4, <2>6, <2>7, <2>8 DEF Inv, Shape
  <2>10. \A i \in DOMAIN log' \ DOMAIN log : Honest(log[i])'
    BY <2>5, <2>8 DEF Honest
  <2>11. RowsAndLog' /\ TargetsAreNewest'
    BY <1>2, <2>4, <2>6, <2>7, <2>8, <2>9, <2>10, FactsKept
  <2>12. Relies(c)'
    BY <1>1, <1>2, <2>4 DEF Relies, Recovers, Launching
  <2>13. co' = [co EXCEPT ![c] = co[c]]
    BY <1>2, <2>4 DEF Shape
  <2>14. OneDriver' /\ (\A d \in Co : Relies(d)') /\ MainRelies' /\ WatchRelies'
    BY <1>1, <2>4, <2>12, <2>13, Driver, DriverGoes DEF StartPlaces, Launching
  <2>15. QED
    BY <2>9, <2>11, <2>14 DEF Inv
<1>4. CASE Unfinished = {}
  <2> DEFINE r == [co[c] EXCEPT !.pc = "reap"]
  <2>1. Moved("needs_human", Len(log)) /\ co' = [co EXCEPT ![c] = r]
    BY <1>2, <1>4 DEF Interrupted, Transition, Legal, Transitions, TERMINAL
  <2>2. r \in CoType /\ r.pc = "reap" /\ r.n = co[c].n /\ r.live = co[c].live
    BY Driver, Places DEF CoType
  <2> HIDE DEF r
  <2>3. co'[c] = r
    BY <1>2, <2>1, <2>2, CoSet
  <2>4. Relies(c)'
    BY <2>2, <2>3 DEF Relies, Recovers, Launching
  <2>5. Len(log) \in Nat /\ UNCHANGED <<attempts, log, ivs, worker, shipped, crashes>>
    BY <1>2, <1>4, LogShape DEF Interrupted
  <2>6. QED
    BY <1>1, <1>2, <2>1, <2>2, <2>4, <2>5, Driver, DriverMoves DEF StartPlaces, Launching
<1>5. QED
  BY <1>3, <1>4

LEMMA CallKept ==
  ASSUME Inv, AloneAtBoot, NEW c \in Co, Call(c)
  PROVE  Inv'
<1> DEFINE x == [source |-> LatestAttempt, target |-> 0, ended |-> FALSE]
           r == [co[c] EXCEPT !.pc = "calling", !.iv = Len(ivs')]
<1>1. At(c, "call") /\ co[c].pc = "call" /\ "call" \in PC /\ Shape
  BY Places DEF Call, At, Inv
<1>2. row.state = "triage"
  BY <1>1, Driver DEF Relies, Recovers
<1>3. x \in IvType /\ x.target = 0
  BY <1>1, Latest DEF IvType
<1>4. ivs' = Append(ivs, x) /\ attempts' = Stamped /\ co' = [co EXCEPT ![c] = r]
      /\ UNCHANGED <<row, worker, shipped, crashes>>
  BY DEF Call
<1> HIDE DEF x
<1>5. /\ ivs' \in Seq(IvType) /\ Len(ivs') \in Nat /\ Len(ivs') \in DOMAIN ivs'
      /\ DOMAIN ivs \subseteq DOMAIN ivs'
      /\ \A v \in DOMAIN ivs' : \/ v \in DOMAIN ivs /\ ivs'[v] = ivs[v]
                               \/ ivs'[v] = x
  BY <1>1, <1>3, <1>4 DEF Shape
<1>6. \A v \in DOMAIN ivs' : \/ v \in DOMAIN ivs /\ ivs'[v].target = ivs[v].target
                           \/ ivs'[v].target = 0
  BY <1>3, <1>5
<1>7. PICK e \in EventType : log' = Append(log, e) /\ e.type = "invoked"
  <2>1. row.att \in {0} \cup Attempt /\ co[c].cause \in Nat
    BY <1>1, Driver DEF Shape, RowType, CoType
  <2>2. Adds("invoked", row.att, co[c].cause, Len(ivs'))
    BY <1>1, <1>5, <2>1, EventShape, KindsAndActs DEF Call
  <2>3. QED
    BY <2>2 DEF Adds
<1>8. attempts' \in [Attempt -> AttemptType] /\ Restamps
  BY <1>1, <1>4, StampedKept
<1>9. log' \in Seq(EventType) /\ Extends
      /\ \A i \in DOMAIN log' : i \in DOMAIN log \/ log'[i] = e
  BY <1>1, <1>7, Logged
<1>10. r \in CoType /\ r.pc = "calling" /\ r.n = co[c].n /\ r.live = co[c].live
       /\ r.iv = Len(ivs')
  BY <1>5, Driver, Places DEF CoType
<1> HIDE DEF r
<1>11. co'[c] = r /\ co' \in [Co -> CoType]
  BY <1>1, <1>4, <1>10, CoSet
<1>12. Shape'
  BY <1>4, <1>5, <1>8, <1>9, <1>11 DEF Inv, Shape
<1>13. \A i \in DOMAIN log' \ DOMAIN log : Honest(log[i])'
  BY <1>7, <1>9 DEF Honest
<1>14. RowsAndLog' /\ TargetsAreNewest'
  BY <1>2, <1>4, <1>5, <1>6, <1>8, <1>9, <1>12, <1>13, FactsKept
<1>15. Relies(c)'
  BY <1>2, <1>4, <1>5, <1>10, <1>11 DEF Relies, Recovers, Launching
<1>16. OneDriver' /\ (\A d \in Co : Relies(d)') /\ MainRelies' /\ WatchRelies'
  BY <1>1, <1>4, <1>10, <1>15, Driver, DriverGoes DEF StartPlaces, Launching
<1>17. QED
  BY <1>12, <1>14, <1>16 DEF Inv

LEMMA AnsweredKept ==
  ASSUME Inv, AloneAtBoot, NEW c \in Co, Answered(c)
  PROVE  Inv'
<1> DEFINE r == [co[c] EXCEPT !.pc = "close"]
<1>1. At(c, "calling") /\ co[c].pc = "calling" /\ "calling" \in PC /\ Shape
  BY Places DEF Answered, At, Inv
<1>2. row.state = "triage" /\ co[c].iv \in DOMAIN ivs
  BY <1>1, Driver DEF Relies, Recovers
<1>3. co' = [co EXCEPT ![c] = r] /\ UNCHANGED <<row, attempts, ivs, worker, shipped, crashes>>
  BY DEF Answered, Go
<1>4. PICK e \in EventType : log' = Append(log, e) /\ e.type = "acted" /\ e.iv = co[c].iv
  <2>1. row.att \in {0} \cup Attempt /\ co[c].cause \in Nat /\ co[c].iv \in Nat
    BY <1>1, Driver DEF Shape, RowType, CoType
  <2>2. PICK act \in Menu(co[c].live) :
          log' = Append(log, Event("acted", row.att, co[c].cause, act, co[c].iv))
    BY DEF Answered
  <2>3. act \in Acts
    BY KindsAndActs DEF Menu
  <2>4. Adds("acted", row.att, co[c].cause, co[c].iv)
    BY <1>1, <2>1, <2>2, <2>3, EventShape, KindsAndActs
  <2>5. QED
    BY <2>4 DEF Adds
<1>5. r \in CoType /\ r.pc = "close" /\ r.n = co[c].n /\ r.live = co[c].live
      /\ r.iv = co[c].iv
  BY Driver, Places DEF CoType
<1> HIDE DEF r
<1>6. co'[c] = r /\ co' \in [Co -> CoType]
  BY <1>1, <1>3, <1>5, CoSet
<1>7. log' \in Seq(EventType)
  BY <1>1, <1>4, Logged
<1>8. Shape' /\ Restamps
  BY <1>3, <1>6, <1>7 DEF Inv, Shape, Restamps
<1>9. Honest(e)'
  BY <1>2, <1>3, <1>4 DEF Honest
<1>10. RowsAndLog' /\ TargetsAreNewest'
  BY <1>3, <1>4, <1>8, <1>9, FactsLogged
<1>11. Relies(c)'
  BY <1>2, <1>3, <1>5, <1>6 DEF Relies, Recovers, Launching
<1>12. OneDriver' /\ (\A d \in Co : Relies(d)') /\ MainRelies' /\ WatchRelies'
  BY <1>1, <1>3, <1>5, <1>11, Driver, DriverGoes DEF StartPlaces, Launching
<1>13. QED
  BY <1>8, <1>10, <1>12 DEF Inv

LEMMA CloseInterventionKept ==
  ASSUME Inv, AloneAtBoot, NEW c \in Co, CloseIntervention(c)
  PROVE  Inv'
<1> DEFINE r == [co[c] EXCEPT !.pc = "dispatch"]
<1>1. At(c, "close") /\ co[c].pc = "close" /\ "close" \in PC /\ Shape
  BY Places DEF CloseIntervention, At, Inv
<1>2. row.state = "triage" /\ co[c].iv \in DOMAIN ivs
  BY <1>1, Driver DEF Relies, Recovers
<1>3. co' = [co EXCEPT ![c] = r] /\ UNCHANGED <<row, attempts, log, worker, shipped, crashes>>
      /\ ivs' = [ivs EXCEPT ![co[c].iv].ended = TRUE]
  BY DEF CloseIntervention, Go
<1>4. /\ ivs' \in Seq(IvType) /\ DOMAIN ivs' = DOMAIN ivs
      /\ \A v \in DOMAIN ivs' : ivs'[v].target = ivs[v].target
  BY <1>1, <1>2, <1>3, Ended
<1>5. r \in CoType /\ r.pc = "dispatch" /\ r.n = co[c].n /\ r.live = co[c].live
      /\ r.iv = co[c].iv
  BY Driver, Places DEF CoType
<1> HIDE DEF r
<1>6. co'[c] = r /\ co' \in [Co -> CoType]
  BY <1>1, <1>3, <1>5, CoSet
<1>7. Shape' /\ Restamps /\ Extends
  BY <1>3, <1>4, <1>6 DEF Inv, Shape, Restamps, Extends
<1>8. RowsAndLog' /\ TargetsAreNewest'
  BY <1>2, <1>3, <1>4, <1>7, FactsKept
<1>9. Relies(c)'
  BY <1>2, <1>3, <1>4, <1>5, <1>6 DEF Relies, Recovers, Launching
<1>10. OneDriver' /\ (\A d \in Co : Relies(d)') /\ MainRelies' /\ WatchRelies'
  BY <1>1, <1>3, <1>5, <1>9, Driver, DriverGoes DEF StartPlaces, Launching
<1>11. QED
  BY <1>7, <1>8, <1>10 DEF Inv

(* An answer that restarts the task is affordable, one that waits needs the watcher. *)
LEMMA OnTheMenu ==
  ASSUME NEW act, NEW live \in BOOLEAN, act \in Menu(live)
  PROVE  /\ act \in {"restart", "escalate", "wait"}
         /\ act = "restart" => ~(row.retries >= MaxRetries)
         /\ act = "wait" => live
BY DEF Menu

LEMMA DispatchKept ==
  ASSUME Inv, AloneAtBoot, NEW c \in Co, Dispatch(c)
  PROVE  Inv'
<1> DEFINE saved == Newest(Acted(co[c].cause))
           act == IF Offered(log[saved].act, co[c].live) THEN log[saved].act ELSE "escalate"
<1>1. At(c, "dispatch") /\ co[c].pc = "dispatch" /\ "dispatch" \in PC /\ Shape
  BY Places DEF Dispatch, At, Inv
<1>2. row.state = "triage" /\ co[c].iv \in DOMAIN ivs
  BY <1>1, Driver DEF Relies, Recovers
<1>3. /\ act \in {"restart", "escalate", "wait"}
      /\ act = "restart" => row.retries < MaxRetries
      /\ act = "wait" => co[c].live
  <2>1. co[c].live \in BOOLEAN /\ row.retries \in Nat /\ MaxRetries \in Nat
    BY <1>1, Driver, RestartAssumption DEF CoType, Shape, RowType
  <2>2. CASE Offered(log[saved].act, co[c].live)
    BY <2>1, <2>2, OnTheMenu DEF Offered
  <2>3. CASE ~Offered(log[saved].act, co[c].live)
    BY <2>3
  <2>4. QED
    BY <2>2, <2>3
<1>4. saved \in Nat
  BY <1>1, NewestPosition DEF Acted
<1>5. /\ act = "restart" => Go(c, "clean") /\ UNCHANGED row
      /\ act = "wait" => Transition(c, "running", saved, [co EXCEPT ![c].pc = "watch"])
      /\ act = "escalate" => Transition(c, "needs_human", saved, [co EXCEPT ![c].pc = "reap"])
  BY <1>3 DEF Dispatch
<1>6. attempts' = Stamped /\ UNCHANGED <<log, ivs, worker, shipped, crashes>>
  BY DEF Dispatch
<1> HIDE DEF act, saved
<1>7. PICK q \in {"clean", "watch", "reap"} :
        /\ co' = [co EXCEPT ![c].pc = q]
        /\ q = "clean" => UNCHANGED row /\ row.retries < MaxRetries
        /\ q = "watch" => Moved("running", saved) /\ co[c].live
        /\ q = "reap" => Moved("needs_human", saved)
  BY <1>2, <1>3, <1>5 DEF Go, Transition, Legal, Transitions, TERMINAL
<1> DEFINE r == [co[c] EXCEPT !.pc = q]
<1>8. r \in CoType /\ r.pc = q /\ r.n = co[c].n /\ r.live = co[c].live /\ r.iv = co[c].iv
  BY Driver, Places DEF CoType
<1>9. co' = [co EXCEPT ![c] = r]
  BY <1>7
<1> HIDE DEF r
<1>10. co'[c] = r /\ co' \in [Co -> CoType]
  BY <1>1, <1>8, <1>9, CoSet
<1>11. /\ row' \in RowType /\ row'.att = row.att /\ row'.retries = row.retries
       /\ row'.state \in {"triage", "running", "needs_human"}
       /\ row'.state = "triage" => row'.cause = row.cause
       /\ q = "clean" => row'.state = "triage"
  BY <1>1, <1>2, <1>4, <1>7 DEF Shape, RowType, Moved, STATES
<1>12. attempts' \in [Attempt -> AttemptType] /\ Restamps
  BY <1>1, <1>6, StampedKept
<1>13. Shape'
  BY <1>6, <1>10, <1>11, <1>12 DEF Inv, Shape
<1>14. LatestUsed'
  <2>1. LatestAttempt' = LatestAttempt
    BY <1>1, <1>12, <1>13, MadeKept
  <2>2. LatestAttempt # 0 => LatestAttempt \in Attempt /\ attempts[LatestAttempt] \in AttemptType
    BY <1>1, Latest DEF Made, Shape
  <2>3. LatestAttempt # 0 => attempts'[LatestAttempt].made = "used"
    BY <1>6, <2>2 DEF Stamped, AttemptType
  <2>4. QED
    BY <2>1, <2>3 DEF LatestUsed
<1>15. q = "clean" => Affordable'
  BY <1>7, <1>11 DEF Affordable
<1>16. Relies(c)'
  BY <1>2, <1>6, <1>8, <1>10, <1>14, <1>15 DEF Relies, Recovers, Launching
<1>17. OneDriver' /\ (\A d \in Co : Relies(d)') /\ MainRelies' /\ WatchRelies'
  <2>1. q = "watch" => c = "watch"
    BY <1>7, Driver DEF Co
  <2>2. QED
    BY <1>1, <1>8, <1>9, <1>11, <1>16, <2>1, Driver, DriverGoes DEF StartPlaces, Launching
<1>18. RowsAndLog' /\ TargetsAreNewest'
  <2>1. Made' = Made
    BY <1>1, <1>12, <1>13, MadeKept
  <2>2. row.att # 0 => attempts'[row.att].made = "used"
    BY <1>12 DEF Inv, RowsAndLog, Shape, RowType, Restamps
  <2>3. RowsAndLog'
    BY <1>2, <1>6, <1>11, <1>12, <2>2, Entries DEF Inv, RowsAndLog, Restamps, EventType
  <2>4. TargetsAreNewest'
    BY <1>1, <1>6, <1>12, <2>1, Entries DEF Inv, TargetsAreNewest, Restamps, IvType
  <2>5. QED
    BY <2>3, <2>4
<1>19. QED
  BY <1>13, <1>17, <1>18 DEF Inv

LEMMA CleanKept ==
  ASSUME Inv, AloneAtBoot, NEW c \in Co, Clean(c)
  PROVE  Inv'
<1> DEFINE r == [co[c] EXCEPT !.pc = "create"]
<1>1. At(c, "clean") /\ co[c].pc = "clean" /\ "clean" \in PC /\ Shape
  BY Places DEF Clean, At, Inv
<1>2. Affordable /\ LatestUsed /\ co[c].iv \in DOMAIN ivs \cup {0}
  BY <1>1, Driver DEF Relies
<1>3. co' = [co EXCEPT ![c] = r] /\ UNCHANGED <<row, log, ivs, shipped, crashes>>
  BY DEF Clean, Go
<1>4. /\ worker' \in [Attempt -> {"none", "alive", "dead"}]
      /\ attempts' \in [Attempt -> AttemptType] /\ Restamps
  BY <1>1, TornDownKept DEF Clean
<1>5. r \in CoType /\ r.pc = "create" /\ r.n = co[c].n /\ r.live = co[c].live /\ r.iv = co[c].iv
  BY Driver, Places DEF CoType
<1> HIDE DEF r
<1>6. co'[c] = r /\ co' \in [Co -> CoType]
  BY <1>1, <1>3, <1>5, CoSet
<1>7. Shape'
  BY <1>3, <1>4, <1>6 DEF Inv, Shape
<1>8. Affordable' /\ LatestUsed'
  BY <1>1, <1>2, <1>3, <1>4, <1>7, MadeKept DEF Affordable
<1>9. Relies(c)'
  BY <1>2, <1>3, <1>5, <1>6, <1>8 DEF Relies, Recovers, Launching
<1>10. OneDriver' /\ (\A d \in Co : Relies(d)') /\ MainRelies' /\ WatchRelies'
  BY <1>1, <1>3, <1>5, <1>9, Driver, DriverGoes DEF StartPlaces, Launching
<1>11. RowsAndLog' /\ TargetsAreNewest'
  BY <1>3, <1>4, <1>7, FactsStill
<1>12. QED
  BY <1>7, <1>10, <1>11 DEF Inv

LEMMA ReapKept ==
  ASSUME Inv, AloneAtBoot, NEW c \in Co, Reap(c)
  PROVE  Inv'
<1>1. At(c, "reap") /\ "reap" \in PC /\ Shape
  BY Places DEF Reap, At, Inv
<1>2. co' = Back(c) /\ UNCHANGED <<row, log, ivs, shipped, crashes>>
  BY DEF Reap
<1>3. /\ worker' \in [Attempt -> {"none", "alive", "dead"}]
      /\ attempts' \in [Attempt -> AttemptType] /\ Restamps
  BY <1>1, TornDownKept DEF Reap
<1>4. c = "watch" => row'.state # "queued"
  BY <1>1, <1>2, Driver DEF At
<1>5. /\ co' \in [Co -> CoType]
      /\ OneDriver' /\ (\A d \in Co : Relies(d)') /\ MainRelies' /\ WatchRelies'
  BY <1>1, <1>2, <1>4, Ends
<1>6. Shape'
  BY <1>2, <1>3, <1>5 DEF Inv, Shape
<1>7. RowsAndLog' /\ TargetsAreNewest'
  BY <1>2, <1>3, <1>6, FactsStill
<1>8. QED
  BY <1>5, <1>6, <1>7 DEF Inv

-----------------------------------------------------------------------------
(* Launching an attempt. *)

(* Where an attempt is created, no earlier child waits to be used. *)
LEMMA NoneWaits ==
  ASSUME Inv, LatestUsed \/ ivs = <<>>, NEW v \in DOMAIN ivs
  PROVE  ~(ivs[v].target # 0 /\ attempts[ivs[v].target].made = "created")
<1> DEFINE m == ivs[v].target
<1>1. SUFFICES ASSUME m # 0, attempts[m].made = "created" PROVE FALSE
  OBVIOUS
<1>2. m \in Attempt
  BY <1>1, Entries DEF Inv, IvType
<1>3. m \in Made /\ \A k \in Made : k <= m
  BY <1>1, <1>2 DEF Made, Inv, TargetsAreNewest
<1> HIDE DEF m
<1>4. LatestAttempt = m
  BY <1>3, LatestIs DEF Inv
<1>5. LatestUsed
  BY DEF Inv, Shape
<1>6. QED
  BY <1>1, <1>4, <1>5 DEF LatestUsed, m

LEMMA CreateKept ==
  ASSUME Inv, AloneAtBoot, NEW c \in Co, Create(c)
  PROVE  Inv'
<1> DEFINE new == LatestAttempt + 1
           child == Newest(Created(co[c].iv))
           base == IF LatestAttempt = 0 THEN 0 ELSE attempts[LatestAttempt].cand
           a == [NoAttempt EXCEPT !.made = "created", !.parent = LatestAttempt,
                                  !.iv = co[c].iv, !.base = base]
           q == IF co[c].iv = 0 THEN "lease" ELSE "target"
           r == [co[c] EXCEPT !.pc = q, !.n = new]
<1>1. At(c, "create") /\ co[c].pc = "create" /\ "create" \in PC /\ Shape
  BY Places DEF Create, At, Inv
<1>2. /\ (Affordable /\ LatestUsed) \/ (row.state = "queued" /\ co[c].iv = 0 /\ c = "main")
      /\ co[c].iv \in DOMAIN ivs \cup {0}
  BY <1>1, Driver DEF Relies
<1>3. row.state = "queued" => ivs = <<>>
  BY DEF Inv, RowsAndLog
<1>4. Created(co[c].iv) = {}
  <2>1. ASSUME NEW n \in Created(co[c].iv) PROVE FALSE
    <3>1. n \in Made /\ attempts[n].made = "created" /\ co[c].iv # 0
          /\ (n = ivs[co[c].iv].target \/ n = LatestAttempt)
      BY <2>1 DEF Created
    <3>2. LatestUsed /\ co[c].iv \in DOMAIN ivs
      BY <1>2, <3>1
    <3>3. n # 0
      BY <3>1, RestartAssumption DEF Made, Attempt
    <3>4. QED
      BY <3>1, <3>2, <3>3, NoneWaits DEF LatestUsed
  <2>2. QED
    BY <2>1
<1>5. child = 0
  BY <1>4 DEF Newest
<1>6. /\ new \in Attempt /\ attempts' = [attempts EXCEPT ![new] = a]
      /\ co' = [co EXCEPT ![c] = r]
      /\ UNCHANGED <<row, log, ivs, worker, shipped, crashes>>
  BY <1>5 DEF Create
<1>7. LatestAttempt \in {0} \cup Attempt /\ LatestAttempt \in Nat
      /\ (\A k \in Made : k \in Nat /\ k <= LatestAttempt) /\ new > LatestAttempt
  BY <1>1, Latest, RestartAssumption DEF Made, Attempt
<1>8. a \in AttemptType /\ a.made = "created"
  <2>1. base \in {0} \cup Attempt
    BY <1>1, <1>7 DEF Shape, AttemptType
  <2>2. co[c].iv \in Nat
    BY Driver DEF CoType
  <2> HIDE DEF base
  <2>3. QED
    BY <1>7, <2>1, <2>2 DEF AttemptType, NoAttempt
<1>9. r \in CoType /\ r.pc = q /\ r.n = new /\ r.live = co[c].live /\ r.iv = co[c].iv
  BY <1>6, Driver, Places DEF CoType
<1>10. q \in {"lease", "target"} /\ (q = "target" => co[c].iv # 0)
  OBVIOUS
<1> HIDE DEF new, a, q, r
<1>11. attempts' \in [Attempt -> AttemptType] /\ attempts'[new] = a
       /\ \A n \in Attempt : n # new => attempts'[n] = attempts[n]
  BY <1>1, <1>6, <1>8 DEF Shape
<1>12. co' \in [Co -> CoType] /\ co'[c] = r /\ \A d \in Co \ {c} : co'[d] = co[d]
  BY <1>1, <1>6, <1>9, CoSet
<1>13. Shape'
  BY <1>6, <1>11, <1>12 DEF Inv, Shape
<1>14. new \notin Made /\ Made' = Made \cup {new} /\ new \in Nat
  <2>1. new \notin Made /\ new \in Nat
    BY <1>6, <1>7 DEF Attempt
  <2>2. QED
    BY <1>6, <1>8, <1>11, <2>1 DEF Made
<1>15. (\A k \in Made' : k <= new) /\ (\A k \in Made : k < new)
  BY <1>7, <1>14
<1>16. row.att # 0 => row.att \in Made
  BY DEF Inv, RowsAndLog, Shape, RowType, Made
<1>17. new > row.att
  <2>1. CASE row.att = 0
    BY <1>6, <2>1 DEF Attempt
  <2>2. CASE row.att # 0
    BY <1>7, <1>14, <1>15, <1>16, <2>2
  <2>3. QED
    BY <2>1, <2>2
<1>18. Affordable' \/ (row'.state = "queued" /\ c = "main")
  BY <1>2, <1>6 DEF Affordable
<1>19. Relies(c)'
  BY <1>2, <1>6, <1>9, <1>10, <1>12, <1>14, <1>15, <1>17, <1>18 DEF Relies, Recovers, Launching
<1>20. OneDriver' /\ (\A d \in Co : Relies(d)') /\ MainRelies' /\ WatchRelies'
  BY <1>1, <1>6, <1>9, <1>10, <1>12, <1>19, Driver, DriverStep DEF StartPlaces, Launching
<1>21. RowsAndLog'
  <2>1. \A i \in DOMAIN log : log[i].type = "exit" => log[i].att \in Made
    BY <1>1, Entries DEF Inv, RowsAndLog, EventType, Made
  <2>2. \A i \in DOMAIN log : log[i].type = "exit" => attempts'[log[i].att] = attempts[log[i].att]
    BY <1>11, <1>14, <2>1 DEF Made
  <2>3. row.att # 0 => attempts'[row.att] = attempts[row.att]
    BY <1>11, <1>14, <1>16 DEF Made
  <2>4. Passed(row.att) => Passed(row.att)'
    BY <1>6 DEF Passed, Positions
  <2>5. QED
    BY <1>6, <2>2, <2>3, <2>4 DEF Inv, RowsAndLog
<1>22. TargetsAreNewest'
  <2>1. ASSUME NEW v \in DOMAIN ivs, ivs[v].target # 0, attempts'[ivs[v].target].made = "created"
        PROVE  ivs[v].target = new
    <3>1. ivs[v].target \in Attempt
      BY <1>1, <2>1, Entries DEF IvType
    <3>2. LatestUsed \/ ivs = <<>>
      BY <1>2, <1>3
    <3>3. QED
      BY <1>11, <2>1, <3>1, <3>2, NoneWaits
  <2>2. QED
    BY <1>6, <1>15, <2>1 DEF TargetsAreNewest
<1>23. QED
  BY <1>13, <1>20, <1>21, <1>22 DEF Inv

(* What is known at the launch of an attempt. *)
LEMMA Launch ==
  ASSUME Inv, NEW c \in Co, co[c].pc \in Launching
  PROVE  /\ Affordable \/ (row.state = "queued" /\ c = "main")
         /\ co[c].n \in Made /\ co[c].n \in Attempt /\ co[c].n > row.att
         /\ \A k \in Made : k <= co[c].n
         /\ attempts[co[c].n].made # "no"
BY Driver DEF Relies, Made

LEMMA TargetKept ==
  ASSUME Inv, AloneAtBoot, NEW c \in Co, Target(c)
  PROVE  Inv'
<1> DEFINE r == [co[c] EXCEPT !.pc = "lease"]
           k == co[c].iv
           x == [ivs[k] EXCEPT !.target = co[c].n]
<1>1. At(c, "target") /\ co[c].pc = "target" /\ "target" \in PC /\ Shape
  BY Places DEF Target, At, Inv
<1>2. k \in DOMAIN ivs /\ co[c].pc \in Launching
  BY <1>1, Driver DEF Relies, Launching
<1>3. x \in IvType /\ x.target = co[c].n
  BY <1>1, <1>2, Launch, Entries DEF IvType
<1>4. co' = [co EXCEPT ![c] = r] /\ UNCHANGED <<row, attempts, log, worker, shipped, crashes>>
      /\ ivs' = [ivs EXCEPT ![k] = x]
  BY DEF Target, Go
<1>5. r \in CoType /\ r.pc = "lease" /\ r.n = co[c].n /\ r.live = co[c].live
  BY Driver, Places DEF CoType
<1> HIDE DEF r, x, k
<1>6. /\ ivs' \in Seq(IvType) /\ DOMAIN ivs' = DOMAIN ivs /\ ivs'[k] = x
      /\ \A v \in DOMAIN ivs : v # k => ivs'[v] = ivs[v]
  BY <1>1, <1>2, <1>3, <1>4, Reviewed
<1>7. co'[c] = r /\ co' \in [Co -> CoType]
  BY <1>1, <1>4, <1>5, CoSet
<1>8. Shape' /\ Made' = Made
  BY <1>4, <1>6, <1>7 DEF Inv, Shape, Made
<1>9. Relies(c)'
  BY <1>2, <1>4, <1>5, <1>7, <1>8, Launch DEF Relies, Recovers, Launching, Affordable
<1>10. OneDriver' /\ (\A d \in Co : Relies(d)') /\ MainRelies' /\ WatchRelies'
  BY <1>1, <1>4, <1>5, <1>9, Driver, DriverGoes DEF StartPlaces, Launching
<1>11. row.state # "queued"
  BY <1>1, <1>2 DEF Inv, RowsAndLog
<1>12. Passed(row.att) => Passed(row.att)'
  BY <1>4 DEF Passed, Positions
<1>13. RowsAndLog'
  BY <1>4, <1>6, <1>11, <1>12 DEF Inv, RowsAndLog
<1>14. TargetsAreNewest'
  BY <1>2, <1>3, <1>4, <1>6, <1>8, Launch DEF Inv, TargetsAreNewest
<1>15. QED
  BY <1>8, <1>10, <1>13, <1>14 DEF Inv

LEMMA LeaseKept ==
  ASSUME Inv, AloneAtBoot, NEW c \in Co, Lease(c)
  PROVE  Inv'
<1> DEFINE r == [co[c] EXCEPT !.pc = "spawn"]
<1>1. At(c, "lease") /\ co[c].pc = "lease" /\ "lease" \in PC /\ Shape
  BY Places DEF Lease, At, Inv
<1>2. CASE co' = Raised(c) /\ UNCHANGED attempts
  BY <1>1, <1>2, Stops DEF Lease
<1>3. CASE attempts' = [attempts EXCEPT ![co[c].n].lease = "active"] /\ Go(c, "spawn")
  <2>1. co' = [co EXCEPT ![c] = r] /\ UNCHANGED <<row, log, ivs, worker, shipped, crashes>>
    BY <1>3 DEF Lease, Go
  <2>2. co[c].pc \in Launching
    BY <1>1 DEF Launching
  <2>3. attempts' \in [Attempt -> AttemptType] /\ Restamps
    BY <1>1, <1>3, <2>2, Launch, Leased
  <2>4. r \in CoType /\ r.pc = "spawn" /\ r.n = co[c].n /\ r.live = co[c].live
    BY Driver, Places DEF CoType
  <2> HIDE DEF r
  <2>5. co'[c] = r /\ co' \in [Co -> CoType]
    BY <1>1, <2>1, <2>4, CoSet
  <2>6. Shape'
    BY <2>1, <2>3, <2>5 DEF Inv, Shape
  <2>7. Made' = Made
    BY <1>1, <2>3, <2>6, MadeKept
  <2>8. Relies(c)'
    BY <2>1, <2>2, <2>4, <2>5, <2>7, Launch DEF Relies, Recovers, Launching, Affordable
  <2>9. OneDriver' /\ (\A d \in Co : Relies(d)') /\ MainRelies' /\ WatchRelies'
    BY <1>1, <2>1, <2>4, <2>8, Driver, DriverGoes DEF StartPlaces, Launching
  <2>10. RowsAndLog' /\ TargetsAreNewest'
    BY <2>1, <2>3, <2>6, FactsStill
  <2>11. QED
    BY <2>6, <2>9, <2>10 DEF Inv
<1>4. QED
  BY <1>2, <1>3 DEF Lease

LEMMA SpawnKept ==
  ASSUME Inv, AloneAtBoot, NEW c \in Co, Spawn(c)
  PROVE  Inv'
<1> DEFINE r == [co[c] EXCEPT !.pc = "use"]
<1>1. At(c, "spawn") /\ co[c].pc = "spawn" /\ "spawn" \in PC /\ Shape
  BY Places DEF Spawn, At, Inv
<1>2. co' = [co EXCEPT ![c] = r] /\ UNCHANGED <<row, attempts, log, ivs, shipped, crashes>>
      /\ worker' \in [Attempt -> {"none", "alive", "dead"}]
  BY <1>1 DEF Spawn, Go, Shape
<1>3. r \in CoType /\ r.pc = "use" /\ r.n = co[c].n /\ r.live = co[c].live
  BY Driver, Places DEF CoType
<1>4. co[c].pc \in Launching
  BY <1>1 DEF Launching
<1> HIDE DEF r
<1>5. co'[c] = r /\ co' \in [Co -> CoType]
  BY <1>1, <1>2, <1>3, CoSet
<1>6. Shape' /\ Made' = Made
  BY <1>2, <1>5 DEF Inv, Shape, Made
<1>7. Relies(c)'
  BY <1>2, <1>3, <1>4, <1>5, <1>6, Launch DEF Relies, Recovers, Launching, Affordable
<1>8. OneDriver' /\ (\A d \in Co : Relies(d)') /\ MainRelies' /\ WatchRelies'
  BY <1>1, <1>2, <1>3, <1>7, Driver, DriverGoes DEF StartPlaces, Launching
<1>9. RowsAndLog' /\ TargetsAreNewest'
  BY <1>2, <1>6, FactsStill DEF Restamps
<1>10. QED
  BY <1>6, <1>8, <1>9 DEF Inv

LEMMA UseKept ==
  ASSUME Inv, AloneAtBoot, NEW c \in Co, Use(c)
  PROVE  Inv'
<1> DEFINE r == [co[c] EXCEPT !.pc = "run"]
           a == [attempts[co[c].n] EXCEPT !.made = "used"]
<1>1. At(c, "use") /\ co[c].pc = "use" /\ "use" \in PC /\ Shape
  BY Places DEF Use, At, Inv
<1>2. co' = [co EXCEPT ![c] = r] /\ UNCHANGED <<row, ivs, worker, shipped, crashes>>
      /\ attempts' = [attempts EXCEPT ![co[c].n] = a]
  BY DEF Use, Go
<1>3. r \in CoType /\ r.pc = "run" /\ r.n = co[c].n /\ r.live = co[c].live
  BY Driver, Places DEF CoType
<1>4. co[c].pc \in Launching /\ co[c].n \in Attempt /\ attempts[co[c].n].made # "no"
  BY <1>1, Launch DEF Launching
<1>5. a \in AttemptType /\ a.made = "used"
  <2>1. attempts[co[c].n] \in AttemptType
    BY <1>1, <1>4 DEF Shape
  <2>2. QED
    BY <2>1 DEF AttemptType
<1> HIDE DEF r, a
<1>6. attempts' \in [Attempt -> AttemptType] /\ Restamps
  BY <1>1, <1>2, <1>4, <1>5, Rewrites
<1>7. attempts'[co[c].n].made = "used"
  BY <1>1, <1>2, <1>4, <1>5 DEF Shape
<1>8. PICK e \in EventType : log' = Append(log, e) /\ e.type = "spawned"
  <2>1. co[c].n \in {0} \cup Attempt /\ co[c].cause \in Nat
    BY Driver DEF CoType
  <2>2. Adds("spawned", co[c].n, co[c].cause, 0)
    BY <1>1, <2>1, EventShape, KindsAndActs DEF Use
  <2>3. QED
    BY <2>2 DEF Adds
<1>9. log' \in Seq(EventType)
  BY <1>1, <1>8, Logged
<1>10. co'[c] = r /\ co' \in [Co -> CoType]
  BY <1>1, <1>2, <1>3, CoSet
<1>11. Shape'
  BY <1>2, <1>6, <1>9, <1>10 DEF Inv, Shape
<1>12. Made' = Made
  BY <1>1, <1>6, <1>11, MadeKept
<1>13. Relies(c)'
  BY <1>2, <1>3, <1>4, <1>7, <1>10, <1>12, Launch DEF Relies, Recovers, Launching, Affordable
<1>14. OneDriver' /\ (\A d \in Co : Relies(d)') /\ MainRelies' /\ WatchRelies'
  BY <1>1, <1>2, <1>3, <1>13, Driver, DriverGoes DEF StartPlaces, Launching
<1>15. Honest(e)'
  BY <1>8 DEF Honest
<1>16. RowsAndLog' /\ TargetsAreNewest'
  BY <1>2, <1>6, <1>8, <1>11, <1>15, FactsLogged
<1>17. QED
  BY <1>11, <1>14, <1>16 DEF Inv

LEMMA RunKept ==
  ASSUME Inv, AloneAtBoot, NEW c \in Co, Run(c)
  PROVE  Inv'
<1> DEFINE w == [Idle EXCEPT !.pc = "watch", !.n = co[c].n]
<1>1. At(c, "run") /\ co[c].pc = "run" /\ "run" \in PC /\ Shape
  BY Places DEF Run, At, Inv
<1>2. UNCHANGED <<attempts, log, ivs, worker, shipped, crashes>>
  BY DEF Run
<1>3. co[c].pc \in Launching /\ co[c].n \in Attempt /\ attempts[co[c].n].made = "used"
      /\ row.state \in {"queued", "triage"} /\ co[c].n # 0
  <2>1. co[c].pc \in Launching /\ attempts[co[c].n].made = "used"
    BY <1>1, Driver DEF Launching, Relies
  <2>2. QED
    BY <2>1, Launch, RestartAssumption DEF Affordable, Attempt
<1>4. /\ row' = [state |-> "running", att |-> co[c].n, cause |-> Len(log),
                 cand |-> attempts[co[c].n].base,
                 retries |-> row.retries + (IF row.state = "triage" THEN 1 ELSE 0)]
      /\ co' = [Back(c) EXCEPT !["watch"] = w]
  BY <1>3 DEF Run, Legal, Transitions, TERMINAL
<1>5. row' \in RowType /\ row'.state = "running" /\ row'.att = co[c].n
  <2>1. attempts[co[c].n].base \in {0} \cup Attempt /\ Len(log) \in Nat /\ row.retries \in Nat
    BY <1>1, <1>3, LogShape DEF Shape, AttemptType, RowType
  <2>2. row.retries + (IF row.state = "triage" THEN 1 ELSE 0) \in Nat
    BY <2>1
  <2>3. QED
    BY <1>3, <1>4, <2>1, <2>2 DEF RowType, STATES
<1>6. w \in CoType /\ w.pc = "watch" /\ w.n = co[c].n
  BY <1>3, Places DEF CoType, Idle
<1> HIDE DEF w
<1>7. /\ co' \in [Co -> CoType] /\ co'["watch"] = w /\ co'["main"] = Back(c)["main"]
  BY <1>1, <1>4, <1>6, BackShape DEF Co
<1>8. co'["main"].pc \in {"boot2", "boot3", "loop", "ended"} /\ ~co'["main"].live
  <2>1. CASE c = "watch"
    <3>1. co'["main"] = co["main"] /\ co["main"].pc \in {"loop", "ended"}
      BY <1>1, <1>7, <2>1, Alone DEF Back, Co, Shape
    <3>2. QED
      BY <3>1, Driver DEF Co
  <2>2. CASE c = "main"
    <3> DEFINE q == CASE co["main"].boot = 1 -> "boot2" [] co["main"].boot = 2 -> "boot3"
                      [] OTHER -> "loop"
    <3>1. Back(c) = [co EXCEPT !["main"].pc = q] /\ q \in {"boot2", "boot3", "loop"}
      BY <2>2 DEF Back
    <3> HIDE DEF q
    <3>2. co["main"] \in CoType /\ ~co["main"].live /\ co \in [Co -> CoType] /\ "main" \in Co
      BY <1>1, Driver DEF Co, Shape
    <3>3. QED
      BY <1>7, <3>1, <3>2 DEF CoType
  <2>3. QED
    BY <2>1, <2>2 DEF Co
<1>9. Shape'
  BY <1>2, <1>5, <1>7 DEF Inv, Shape
<1>10. OneDriver' /\ MainRelies' /\ WatchRelies'
  BY <1>5, <1>6, <1>7, <1>8 DEF OneDriver, MainRelies, WatchRelies
<1>11. \A d \in Co : Relies(d)'
  BY <1>6, <1>7, <1>8 DEF Co, Relies, Recovers, Launching
<1>12. RowsAndLog'
  BY <1>2, <1>3, <1>5 DEF Inv, RowsAndLog
<1>13. TargetsAreNewest'
  BY <1>2 DEF Inv, TargetsAreNewest, Made
<1>14. QED
  BY <1>9, <1>10, <1>11, <1>12, <1>13 DEF Inv

-----------------------------------------------------------------------------
(* Verifying and delivering. *)

(* The driver c logs an event, and goes on as r; the row stays. *)
LEMMA DriverLogs ==
  ASSUME Inv, AloneAtBoot, NEW c \in Co, NEW p \in PC, At(c, p),
         p \notin {"off", "boot2", "boot3", "loop", "ended"}, p \notin Launching,
         NEW e \in EventType, log' = Append(log, e), e.type # "exit", e.type # "acted",
         e.type = "shipped" => e.att \in shipped,
         NEW r \in CoType, co' = [co EXCEPT ![c] = r], r.n = co[c].n,
         c = "main" => ~r.live, c = "main" => r.pc \notin {"claim", "captured"},
         r.pc \in {"claim", "captured"} => row.state = "running",
         r.pc \notin StartPlaces \cup {"off", "watch"}, Relies(c)',
         attempts' \in [Attempt -> AttemptType], Restamps,
         UNCHANGED <<row, ivs, shipped, crashes>>,
         worker' \in [Attempt -> {"none", "alive", "dead"}]
  PROVE  Inv'
<1>1. /\ co' \in [Co -> CoType] /\ co'[c] = r
      /\ \A d \in Co \ {c} : co'[d] = co[d]
  BY CoSet DEF Inv
<1>2. log' \in Seq(EventType)
  BY Logged DEF Inv
<1>3. Shape'
  BY <1>1, <1>2 DEF Inv, Shape
<1>4. c = "watch" => row'.state # "queued" /\ co'[c].n = row'.att
  BY <1>1, Driver DEF Inv, WatchRelies, At
<1>5. OneDriver' /\ (\A d \in Co : Relies(d)') /\ MainRelies' /\ WatchRelies'
  BY <1>1, <1>4, DriverStep DEF StartPlaces
<1>6. Honest(e)'
  BY DEF Honest
<1>7. RowsAndLog' /\ TargetsAreNewest'
  BY <1>3, <1>6, FactsLogged
<1>8. QED
  BY <1>3, <1>5, <1>7 DEF Inv

(* A verdict about the current attempt. *)
LEMMA PassedNow ==
  ASSUME Shape, NEW e \in EventType, log' = Append(log, e), e.type = "passed", e.att = row.att,
         UNCHANGED row
  PROVE  Passed(row.att)'
<1>1. Len(log') \in DOMAIN log' /\ log'[Len(log')] = e
  BY Logged
<1>2. QED
  BY <1>1 DEF Passed, Positions

LEMMA VerifyKept ==
  ASSUME Inv, AloneAtBoot, NEW c \in Co, Verify(c)
  PROVE  Inv'
<1>1. At(c, "verify") /\ co[c].pc = "verify" /\ "verify" \in PC /\ Shape
  BY Places DEF Verify, At, Inv
<1>2. row.state = "verifying"
  BY <1>1, Driver DEF Relies
<1>3. row.att \in Attempt /\ attempts[row.att] \in AttemptType
      /\ row.cand \in {0} \cup Attempt
  BY <1>1, <1>2 DEF Inv, RowsAndLog, Shape, RowType
<1>4. PICK verdict \in {"passed", "failed"} :
        /\ log' = Append(log, Event(verdict, row.att, 0, "none", 0))
        /\ IF verdict = "failed" THEN Triage(c, Len(log'), FALSE, co[c].boot)
           ELSE co' = [co EXCEPT ![c].pc = "verified", ![c].cause = Len(log')]
  BY DEF Verify
<1>5. PICK e \in EventType : log' = Append(log, e) /\ e.type = verdict /\ e.att = row.att
  <2>1. Adds(verdict, row.att, 0, 0)
    BY <1>1, <1>3, <1>4, EventShape, KindsAndActs
  <2>2. QED
    BY <2>1 DEF Adds
<1>6. Len(log') \in DOMAIN log' /\ Len(log') \in Nat
  BY <1>1, <1>5, Logged
<1>7. attempts' \in [Attempt -> AttemptType] /\ Restamps
  <2> DEFINE lease == IF c = "watch" /\ attempts[row.att].lease = "active" THEN "closed"
                      ELSE attempts[row.att].lease
             a == [attempts[row.att] EXCEPT !.cand = row.cand, !.lease = lease]
  <2>1. attempts' = [attempts EXCEPT ![row.att] = a]
    BY DEF Verify
  <2>2. lease \in {"none", "active", "lapsed", "closed"}
    <3>1. attempts[row.att].lease \in {"none", "active", "lapsed", "closed"}
      BY <1>3 DEF AttemptType
    <3> HIDE DEF a
    <3>2. QED
      BY <3>1
  <2> HIDE DEF lease
  <2>3. a \in AttemptType /\ a.made = attempts[row.att].made
    BY <1>1, <1>3, <2>2, Amended
  <2> HIDE DEF a
  <2>4. QED
    BY <1>1, <1>3, <2>1, <2>3, Rewrites
<1>8. UNCHANGED <<row, ivs, worker, shipped, crashes>>
  BY DEF Verify
<1>9. CASE verdict = "failed"
  <2> DEFINE r == [co[c] EXCEPT !.pc = "triage", !.cause = Len(log'), !.live = FALSE,
                                !.boot = co[c].boot]
  <2>1. co' = [co EXCEPT ![c] = r]
    BY <1>4, <1>9 DEF Triage
  <2>2. r \in CoType /\ r.pc = "triage" /\ r.cause = Len(log') /\ r.n = co[c].n
        /\ r.live = FALSE
    BY <1>6, Driver, Places DEF CoType
  <2> HIDE DEF r
  <2>3. co'[c] = r
    BY <1>1, <2>1, <2>2, CoSet
  <2>4. Relies(c)'
    BY <1>6, <2>2, <2>3 DEF Relies, Recovers, Launching
  <2>5. QED
    BY <1>1, <1>5, <1>7, <1>8, <1>9, <2>1, <2>2, <2>4, DriverLogs
    DEF StartPlaces, Launching, Shape
<1>10. CASE verdict = "passed"
  <2> DEFINE r == [co[c] EXCEPT !.pc = "verified", !.cause = Len(log')]
  <2>1. co' = [co EXCEPT ![c] = r]
    BY <1>4, <1>10
  <2>2. r \in CoType /\ r.pc = "verified" /\ r.n = co[c].n /\ r.live = co[c].live
    BY <1>6, Driver, Places DEF CoType
  <2> HIDE DEF r
  <2>3. co'[c] = r
    BY <1>1, <2>1, <2>2, CoSet
  <2>4. Passed(row.att)'
    BY <1>1, <1>5, <1>8, <1>10, PassedNow
  <2>5. Relies(c)'
    BY <1>2, <1>8, <2>2, <2>3, <2>4 DEF Relies, Recovers, Launching
  <2>6. QED
    BY <1>1, <1>5, <1>7, <1>8, <1>10, <2>1, <2>2, <2>5, Driver, DriverLogs
    DEF StartPlaces, Launching, Shape
<1>11. QED
  BY <1>9, <1>10

LEMMA VerifiedKept ==
  ASSUME Inv, AloneAtBoot, NEW c \in Co, Verified(c)
  PROVE  Inv'
<1> DEFINE r == [co[c] EXCEPT !.pc = "deliver"]
<1>1. At(c, "verified") /\ co[c].pc = "verified" /\ "verified" \in PC /\ Shape
  BY Places DEF Verified, At, Inv
<1>2. row.state = "verifying" /\ Passed(row.att)
  BY <1>1, Driver DEF Relies
<1>3. Moved("delivering", co[c].cause) /\ co' = [co EXCEPT ![c] = r]
      /\ UNCHANGED <<attempts, log, ivs, worker, shipped, crashes>>
  BY <1>2 DEF Verified, Transition, Legal, Transitions, TERMINAL
<1>4. r \in CoType /\ r.pc = "deliver" /\ r.n = co[c].n /\ r.live = co[c].live
  BY Driver, Places DEF CoType
<1>5. row'.state = "delivering" /\ co[c].cause \in Nat
  BY <1>1, <1>3, Driver DEF Moved, Shape, RowType, CoType
<1> HIDE DEF r
<1>6. co'[c] = r
  BY <1>1, <1>3, <1>4, CoSet
<1>7. Relies(c)'
  BY <1>4, <1>5, <1>6 DEF Relies, Recovers, Launching
<1>8. QED
  BY <1>1, <1>2, <1>3, <1>4, <1>5, <1>7, Driver, DriverMoves DEF StartPlaces, Launching

LEMMA DeliverKept ==
  ASSUME Inv, AloneAtBoot, NEW c \in Co, Deliver(c)
  PROVE  Inv'
<1>1. At(c, "deliver") /\ co[c].pc = "deliver" /\ "deliver" \in PC /\ Shape
      /\ UNCHANGED <<row, attempts, ivs, worker, crashes>>
  BY Places DEF Deliver, At, Inv
<1>2. row.state = "delivering"
  BY <1>1, Driver DEF Relies
<1>3. row.att \in Attempt
  BY <1>2 DEF Inv, RowsAndLog, Shape, RowType
<1>4. CASE shipped' = shipped \cup {row.att} /\ Go(c, "ship") /\ UNCHANGED log
  <2> DEFINE r == [co[c] EXCEPT !.pc = "ship"]
  <2>1. co' = [co EXCEPT ![c] = r]
    BY <1>4 DEF Go
  <2>2. r \in CoType /\ r.pc = "ship" /\ r.n = co[c].n /\ r.live = co[c].live
    BY Driver, Places DEF CoType
  <2> HIDE DEF r
  <2>3. co'[c] = r /\ co' \in [Co -> CoType]
    BY <1>1, <2>1, <2>2, CoSet
  <2>4. Relies(c)'
    BY <1>1, <1>2, <1>4, <2>2, <2>3 DEF Relies, Recovers, Launching
  <2>5. OneDriver' /\ (\A d \in Co : Relies(d)') /\ MainRelies' /\ WatchRelies'
    BY <1>1, <2>1, <2>2, <2>4, Driver, DriverGoes DEF StartPlaces, Launching
  <2>6. Shape'
    BY <1>1, <1>3, <1>4, <2>3 DEF Inv, Shape
  <2>7. Restamps /\ Extends /\ shipped \subseteq shipped'
    BY <1>1, <1>4 DEF Restamps, Extends
  <2>8. RowsAndLog' /\ TargetsAreNewest'
    BY <1>1, <1>4, <2>6, <2>7, FactsKept
  <2>9. QED
    BY <2>5, <2>6, <2>8 DEF Inv
<1>5. CASE /\ log' = Append(log, Event("undelivered", row.att, 0, "none", 0))
           /\ Triage(c, Len(log'), FALSE, co[c].boot) /\ UNCHANGED shipped
  <2> DEFINE r == [co[c] EXCEPT !.pc = "triage", !.cause = Len(log'), !.live = FALSE,
                                !.boot = co[c].boot]
  <2>1. PICK e \in EventType : log' = Append(log, e) /\ e.type = "undelivered"
    <3>1. Adds("undelivered", row.att, 0, 0)
      BY <1>1, <1>3, <1>5, EventShape, KindsAndActs
    <3>2. QED
      BY <3>1 DEF Adds
  <2>2. Len(log') \in DOMAIN log' /\ Len(log') \in Nat
    BY <1>1, <2>1, Logged
  <2>3. co' = [co EXCEPT ![c] = r]
    BY <1>5 DEF Triage
  <2>4. r \in CoType /\ r.pc = "triage" /\ r.cause = Len(log') /\ r.n = co[c].n
        /\ r.live = FALSE
    BY <2>2, Driver, Places DEF CoType
  <2> HIDE DEF r
  <2>5. co'[c] = r
    BY <1>1, <2>3, <2>4, CoSet
  <2>6. Relies(c)'
    BY <2>2, <2>4, <2>5 DEF Relies, Recovers, Launching
  <2>7. QED
    BY <1>1, <1>5, <2>1, <2>3, <2>4, <2>6, DriverLogs
    DEF StartPlaces, Launching, Shape, Restamps
<1>6. QED
  BY <1>4, <1>5 DEF Deliver

LEMMA ShipKept ==
  ASSUME Inv, AloneAtBoot, NEW c \in Co, Ship(c)
  PROVE  Inv'
<1> DEFINE r == [co[c] EXCEPT !.pc = "delivered", !.cause = Len(log')]
<1>1. At(c, "ship") /\ co[c].pc = "ship" /\ "ship" \in PC /\ Shape
      /\ UNCHANGED <<row, attempts, ivs, worker, shipped, crashes>>
  BY Places DEF Ship, At, Inv
<1>2. row.state = "delivering" /\ row.att \in shipped
  BY <1>1, Driver DEF Relies
<1>3. PICK e \in EventType : log' = Append(log, e) /\ e.type = "shipped" /\ e.att = row.att
  <2>1. Adds("shipped", row.att, 0, 0)
    BY <1>1, EventShape, KindsAndActs DEF Ship, Shape, RowType
  <2>2. QED
    BY <2>1 DEF Adds
<1>4. Len(log') \in Nat
  BY <1>1, <1>3, Logged
<1>5. co' = [co EXCEPT ![c] = r]
  BY DEF Ship
<1>6. r \in CoType /\ r.pc = "delivered" /\ r.n = co[c].n /\ r.live = co[c].live
  BY <1>4, Driver, Places DEF CoType
<1> HIDE DEF r
<1>7. co'[c] = r
  BY <1>1, <1>5, <1>6, CoSet
<1>8. Relies(c)'
  BY <1>1, <1>2, <1>6, <1>7 DEF Relies, Recovers, Launching
<1>9. QED
  BY <1>1, <1>2, <1>3, <1>5, <1>6, <1>8, Driver, DriverLogs
  DEF StartPlaces, Launching, Shape, Restamps

LEMMA DeliveredKept ==
  ASSUME Inv, AloneAtBoot, NEW c \in Co, Delivered(c)
  PROVE  Inv'
<1>1. At(c, "delivered") /\ co[c].pc = "delivered" /\ "delivered" \in PC /\ Shape
      /\ UNCHANGED <<attempts, log, ivs, worker, shipped, crashes>>
  BY Places DEF Delivered, At, Inv
<1>2. row.state = "delivering" /\ Passed(row.att)
  BY <1>1, Driver DEF Relies, Inv, RowsAndLog
<1>3. Moved("delivered", co[c].cause) /\ co' = Back(c)
  BY <1>2 DEF Delivered, Transition, Legal, Transitions, TERMINAL
<1>4. row' \in RowType /\ row'.state = "delivered" /\ row'.att = row.att
  BY <1>1, <1>3, Driver DEF Moved, Shape, RowType, CoType, STATES
<1>5. /\ co' \in [Co -> CoType]
      /\ OneDriver' /\ (\A d \in Co : Relies(d)') /\ MainRelies' /\ WatchRelies'
  BY <1>1, <1>3, <1>4, Ends
<1>6. Shape'
  BY <1>1, <1>4, <1>5 DEF Inv, Shape
<1>7. RowsAndLog' /\ TargetsAreNewest'
  BY <1>1, <1>2, <1>4, <1>6, FactsMoved
<1>8. QED
  BY <1>5, <1>6, <1>7 DEF Inv

-----------------------------------------------------------------------------
(* Watching. *)

LEMMA ReadDoneKept ==
  ASSUME Inv, AloneAtBoot, ReadDone
  PROVE  Inv'
<1> DEFINE r == [co["watch"] EXCEPT !.pc = "claim", !.cause = Len(log')]
<1>1. At("watch", "watch") /\ "watch" \in PC /\ "watch" \in Co /\ Shape /\ row.state = "running"
      /\ UNCHANGED <<row, attempts, ivs, worker, shipped, crashes>>
  BY Places DEF ReadDone, Inv, Co
<1>2. PICK e \in EventType : log' = Append(log, e) /\ e.type = "done"
  <2>1. co["watch"].n \in {0} \cup Attempt
    BY <1>1, Driver DEF CoType
  <2>2. Adds("done", co["watch"].n, 0, 0)
    BY <1>1, <2>1, EventShape, KindsAndActs DEF ReadDone
  <2>3. QED
    BY <2>2 DEF Adds
<1>3. Len(log') \in Nat
  BY <1>1, <1>2, Logged
<1>4. co' = [co EXCEPT !["watch"] = r]
  BY DEF ReadDone
<1>5. r \in CoType /\ r.pc = "claim" /\ r.n = co["watch"].n
  BY <1>1, <1>3, Driver, Places DEF CoType
<1> HIDE DEF r
<1>6. co'["watch"] = r
  BY <1>1, <1>4, <1>5, CoSet
<1>7. Relies("watch")'
  BY <1>5, <1>6 DEF Relies, Recovers, Launching
<1>8. QED
  BY <1>1, <1>2, <1>4, <1>5, <1>7, DriverLogs DEF StartPlaces, Launching, Shape, Restamps

(* The watcher and the row agree on the attempt. *)
LEMMA Watched ==
  ASSUME Inv, co["watch"].pc \in {"watch", "claim", "captured"}
  PROVE  /\ co["watch"].n = row.att /\ row.att \in Attempt /\ row.att # 0
         /\ attempts[row.att] \in AttemptType /\ attempts[row.att].made = "used"
BY DEF Inv, WatchRelies, OneDriver, RowsAndLog, Shape, RowType, Launching

LEMMA CaptureKept ==
  ASSUME Inv, AloneAtBoot, Capture
  PROVE  Inv'
<1> DEFINE r == [co["watch"] EXCEPT !.pc = "captured"]
           a == [attempts[row.att] EXCEPT !.cand = row.att, !.lease = attempts[row.att].lease]
<1>1. At("watch", "claim") /\ "claim" \in PC /\ "watch" \in Co /\ Shape
      /\ co["watch"].pc = "claim" /\ UNCHANGED <<row, log, ivs, shipped, crashes>>
  BY Places DEF Capture, Inv, Co, At
<1>2. row.state = "running" /\ co["watch"].n = row.att /\ row.att \in Attempt
      /\ attempts[row.att] \in AttemptType
  BY <1>1, Watched DEF Inv, WatchRelies
<1>3. worker' \in [Attempt -> {"none", "alive", "dead"}]
  BY <1>1 DEF Capture, Shape
<1>4. attempts' = [attempts EXCEPT ![row.att] = a]
  <2>1. a = [attempts[row.att] EXCEPT !.cand = co["watch"].n]
    BY <1>2 DEF AttemptType
  <2>2. QED
    BY <2>1 DEF Capture
<1>5. a \in AttemptType /\ a.made = attempts[row.att].made
  <2>1. attempts[row.att].lease \in {"none", "active", "lapsed", "closed"}
    BY <1>2 DEF AttemptType
  <2>2. QED
    BY <1>1, <1>2, <2>1, Amended
<1>6. r \in CoType /\ r.pc = "captured" /\ r.n = co["watch"].n
      /\ co' = [co EXCEPT !["watch"] = r]
  BY <1>1, Driver, Places DEF CoType, Capture, Go
<1> HIDE DEF r, a
<1>7. attempts' \in [Attempt -> AttemptType] /\ Restamps
  BY <1>1, <1>2, <1>4, <1>5, Rewrites
<1>8. co'["watch"] = r /\ co' \in [Co -> CoType] /\ \A d \in Co \ {"watch"} : co'[d] = co[d]
  BY <1>1, <1>6, CoSet
<1>9. Shape'
  BY <1>1, <1>3, <1>7, <1>8 DEF Inv, Shape
<1>10. Relies("watch")'
  BY <1>6, <1>8 DEF Relies, Recovers, Launching
<1>11. OneDriver' /\ (\A d \in Co : Relies(d)') /\ MainRelies' /\ WatchRelies'
  BY <1>1, <1>2, <1>6, <1>8, <1>10, DriverStep DEF StartPlaces, Launching
<1>12. RowsAndLog' /\ TargetsAreNewest'
  BY <1>1, <1>7, <1>9, FactsStill
<1>13. QED
  BY <1>9, <1>11, <1>12 DEF Inv

LEMMA ClaimKept ==
  ASSUME Inv, AloneAtBoot, Claim
  PROVE  Inv'
<1> DEFINE r == [co["watch"] EXCEPT !.pc = "verify"]
<1>1. At("watch", "captured") /\ "captured" \in PC /\ "watch" \in Co /\ Shape
      /\ co["watch"].pc = "captured" /\ UNCHANGED <<attempts, log, ivs, worker, shipped, crashes>>
  BY Places DEF Claim, Inv, Co, At
<1>2. row.state = "running" /\ co["watch"].n = row.att
  BY <1>1, Watched DEF Inv, WatchRelies
<1>3. /\ row' = [row EXCEPT !.state = "verifying", !.cause = co["watch"].cause,
                         !.cand = co["watch"].n]
      /\ co' = [co EXCEPT !["watch"] = r]
  BY <1>2 DEF Claim, Go, Legal, Transitions, TERMINAL
<1>4. r \in CoType /\ r.pc = "verify" /\ r.n = co["watch"].n
  BY <1>1, Driver, Places DEF CoType
<1>5. row' \in RowType /\ row'.state = "verifying" /\ row'.att = row.att
  <2>1. co["watch"].cause \in Nat /\ co["watch"].n \in {0} \cup Attempt
    BY <1>1, Driver DEF CoType
  <2>2. QED
    BY <1>1, <1>3, <2>1 DEF Shape, RowType, STATES
<1> HIDE DEF r
<1>6. co'["watch"] = r
  BY <1>1, <1>3, <1>4, CoSet
<1>7. Relies("watch")'
  BY <1>4, <1>5, <1>6 DEF Relies, Recovers, Launching
<1>8. /\ co' \in [Co -> CoType]
      /\ OneDriver' /\ (\A d \in Co : Relies(d)') /\ MainRelies' /\ WatchRelies'
  BY <1>1, <1>3, <1>4, <1>5, <1>7, DriverGoes DEF StartPlaces, Launching
<1>9. Shape'
  BY <1>1, <1>5, <1>8 DEF Inv, Shape
<1>10. RowsAndLog' /\ TargetsAreNewest'
  BY <1>1, <1>2, <1>5, <1>9, FactsMoved
<1>11. QED
  BY <1>8, <1>9, <1>10 DEF Inv

LEMMA ReadExitKept ==
  ASSUME Inv, AloneAtBoot, ReadExit
  PROVE  Inv'
<1> DEFINE r == [co["watch"] EXCEPT !.pc = "triage", !.cause = Len(log'), !.live = FALSE,
                                    !.boot = 0]
           a == [attempts[row.att] EXCEPT !.cand = row.att, !.lease = "closed"]
<1>1. At("watch", "watch") /\ "watch" \in PC /\ "watch" \in Co /\ Shape
      /\ co["watch"].pc = "watch" /\ row.state = "running"
      /\ UNCHANGED <<row, ivs, worker, shipped, crashes>>
  BY Places DEF ReadExit, Inv, Co, At
<1>2. co["watch"].n = row.att /\ row.att \in Attempt /\ row.att # 0
      /\ attempts[row.att] \in AttemptType /\ attempts[row.att].made = "used"
  BY <1>1, Watched
<1>3. PICK e \in EventType : log' = Append(log, e) /\ e.type = "exit" /\ e.att = row.att
  <2>1. PICK how \in {"crashed", "none"} :
          log' = Append(log, Event("exit", co["watch"].n, 0, how, 0))
    BY DEF ReadExit
  <2>2. Adds("exit", row.att, 0, 0)
    BY <1>1, <1>2, <2>1, EventShape, KindsAndActs
  <2>3. QED
    BY <2>2 DEF Adds
<1>4. Len(log') \in DOMAIN log' /\ Len(log') \in Nat /\ log' \in Seq(EventType)
  BY <1>1, <1>3, Logged
<1>5. co' = [co EXCEPT !["watch"] = r]
  BY DEF ReadExit, Triage
<1>6. attempts' = [attempts EXCEPT ![row.att] = a]
  <2>1. a = [[attempts[row.att] EXCEPT !.lease = "closed"] EXCEPT !.cand = row.att]
    BY <1>2 DEF AttemptType
  <2>2. QED
    BY <1>2, <2>1 DEF ReadExit
<1>7. r \in CoType /\ r.pc = "triage" /\ r.cause = Len(log') /\ r.n = co["watch"].n
  <2>1. PICK w \in CoType : w = co["watch"]
    BY <1>1 DEF Shape
  <2>2. PICK k \in Nat : k = Len(log')
    BY <1>4
  <2>3. "triage" \in PC /\ 0 \in Nat /\ FALSE \in BOOLEAN
    BY Places
  <2>4. r = [w EXCEPT !.pc = "triage", !.cause = k, !.live = FALSE, !.boot = 0]
    BY <2>1, <2>2
  <2> HIDE DEF r
  <2>5. QED
    BY <2>1, <2>2, <2>3, <2>4 DEF CoType
<1>8. a \in AttemptType /\ a.made = attempts[row.att].made
  BY <1>1, <1>2, Amended
<1> HIDE DEF r, a
<1>9. attempts' \in [Attempt -> AttemptType] /\ Restamps
  BY <1>1, <1>2, <1>6, <1>8, Rewrites
<1>10. co'["watch"] = r /\ co' \in [Co -> CoType] /\ \A d \in Co \ {"watch"} : co'[d] = co[d]
  BY <1>1, <1>5, <1>7, CoSet
<1>11. Shape'
  BY <1>1, <1>4, <1>9, <1>10 DEF Inv, Shape
<1>12. Relies("watch")'
  BY <1>4, <1>7, <1>10 DEF Relies, Recovers, Launching
<1>13. OneDriver' /\ (\A d \in Co : Relies(d)') /\ MainRelies' /\ WatchRelies'
  BY <1>1, <1>2, <1>7, <1>10, <1>12, DriverStep DEF StartPlaces, Launching
<1>14. Honest(e)'
  BY <1>2, <1>3, <1>9 DEF Honest, Restamps
<1>15. RowsAndLog' /\ TargetsAreNewest'
  BY <1>1, <1>3, <1>9, <1>11, <1>14, FactsLogged
<1>16. QED
  BY <1>11, <1>13, <1>15 DEF Inv

LEMMA StallKept ==
  ASSUME Inv, AloneAtBoot, Stall
  PROVE  Inv'
<1> DEFINE r == [co["watch"] EXCEPT !.pc = "triage", !.cause = Len(log'), !.live = TRUE,
                                    !.boot = 0]
<1>1. At("watch", "watch") /\ "watch" \in PC /\ "watch" \in Co /\ Shape
      /\ UNCHANGED <<row, attempts, ivs, worker, shipped, crashes>>
  BY Places DEF Stall, Inv, Co
<1>2. PICK e \in EventType : log' = Append(log, e) /\ e.type = "stall"
  <2>1. co["watch"].n \in {0} \cup Attempt
    BY <1>1, Driver DEF CoType
  <2>2. Adds("stall", co["watch"].n, 0, 0)
    BY <1>1, <2>1, EventShape, KindsAndActs DEF Stall
  <2>3. QED
    BY <2>2 DEF Adds
<1>3. Len(log') \in DOMAIN log' /\ Len(log') \in Nat
  BY <1>1, <1>2, Logged
<1>4. co' = [co EXCEPT !["watch"] = r]
  BY DEF Stall, Triage
<1>5. r \in CoType /\ r.pc = "triage" /\ r.cause = Len(log') /\ r.n = co["watch"].n
  BY <1>1, <1>3, Driver, Places DEF CoType
<1> HIDE DEF r
<1>6. co'["watch"] = r
  BY <1>1, <1>4, <1>5, CoSet
<1>7. Relies("watch")'
  BY <1>3, <1>5, <1>6 DEF Relies, Recovers, Launching
<1>8. QED
  BY <1>1, <1>2, <1>4, <1>5, <1>7, DriverLogs DEF StartPlaces, Launching, Shape, Restamps

-----------------------------------------------------------------------------
(* The world around the scheduler. *)

LEMMA CrashKept ==
  ASSUME Inv, Crash
  PROVE  Inv'
<1>1. UNCHANGED <<row, attempts, log, ivs, shipped>> /\ co' = Down /\ crashes' = crashes + 1
  BY DEF Crash
<1>2. worker' \in [Attempt -> {"none", "alive", "dead"}]
  BY DEF Crash, Inv, Shape
<1>3. /\ Down \in [Co -> CoType] /\ Down["main"].pc = "down" /\ Down["watch"].pc = "off"
      /\ ~Down["main"].live
  BY Places DEF Down, Idle, Co, CoType
<1>4. Shape'
  BY <1>1, <1>2, <1>3 DEF Inv, Shape
<1>5. RowsAndLog' /\ TargetsAreNewest'
  BY <1>1, <1>4, FactsStill DEF Restamps
<1>6. (\A d \in Co : Relies(d)') /\ OneDriver' /\ MainRelies' /\ WatchRelies'
  BY <1>1, <1>3 DEF Relies, Recovers, Launching, Co, OneDriver, MainRelies, WatchRelies
<1>7. QED
  BY <1>4, <1>5, <1>6 DEF Inv

(* The scheduler does not notice. *)
LEMMA AroundKept ==
  ASSUME Inv, UNCHANGED <<row, log, ivs, shipped, co, crashes>>,
         worker' \in [Attempt -> {"none", "alive", "dead"}],
         attempts' \in [Attempt -> AttemptType], Restamps
  PROVE  Inv'
<1>1. Shape'
  BY DEF Inv, Shape
<1>2. RowsAndLog' /\ TargetsAreNewest'
  BY <1>1, FactsStill
<1>3. OneDriver' /\ MainRelies' /\ WatchRelies'
  BY DEF Inv, OneDriver, MainRelies, WatchRelies
<1>4. \A d \in Co : Relies(d)'
  <2>1. TAKE d \in Co
  <2>2. Made' = Made /\ (LatestUsed => LatestUsed') /\ (Affordable => Affordable')
    BY <1>1, MadeKept DEF Inv, Affordable
  <2>3. Passed(row.att) => Passed(row.att)'
    BY DEF Passed, Positions
  <2>4. Relies(d) /\ (co[d].pc = "run" => attempts'[co[d].n].made = "used")
    <3>1. co[d].pc = "run" => co[d].n \in Attempt /\ attempts[co[d].n].made = "used"
      BY Driver DEF Relies, Launching, Made
    <3>2. QED
      BY <3>1, Driver DEF Restamps
  <2>5. QED
    BY <2>2, <2>3, <2>4 DEF Relies
<1>5. QED
  BY <1>1, <1>2, <1>3, <1>4 DEF Inv

LEMMA WorkerDiesKept ==
  ASSUME Inv, NEW n \in Attempt, WorkerDies(n)
  PROVE  Inv'
BY AroundKept DEF WorkerDies, Inv, Shape, Restamps

LEMMA LeaseLapsesKept ==
  ASSUME Inv, NEW n \in Attempt, LeaseLapses(n)
  PROVE  Inv'
<1>1. attempts' \in [Attempt -> AttemptType] /\ Restamps
  BY Leased DEF LeaseLapses, Inv
<1>2. QED
  BY <1>1, AroundKept DEF LeaseLapses, Inv, Shape

-----------------------------------------------------------------------------
(* The invariant. *)

LEMMA InitInv == Init => Inv
<1> SUFFICES ASSUME Init PROVE Inv
  OBVIOUS
<1>1. /\ Down \in [Co -> CoType] /\ Down["main"].pc = "down" /\ Down["watch"].pc = "off"
      /\ ~Down["main"].live
  BY Places DEF Down, Idle, Co, CoType
<1>2. NoAttempt \in AttemptType
  BY DEF NoAttempt, AttemptType
<1>3. Shape
  BY <1>1, <1>2 DEF Init, Shape, RowType, STATES
<1>4. RowsAndLog /\ TargetsAreNewest
  BY DEF Init, RowsAndLog, TargetsAreNewest
<1>5. (\A d \in Co : Relies(d)) /\ OneDriver /\ MainRelies /\ WatchRelies
  BY <1>1 DEF Init, Relies, Recovers, Launching, Co, OneDriver, MainRelies, WatchRelies
<1>6. QED
  BY <1>3, <1>4, <1>5 DEF Inv

LEMMA StartupKept ==
  ASSUME Inv, AloneAtBoot, Startup
  PROVE  Inv'
BY StartKept, FenceKept, ReconcileClaimKept, ReconcileExitKept, ReconcileMoveKept,
   ResumeTriageKept, ResumeVerifyingKept, ResumeDeliveringKept, LoopKept DEF Startup

LEMMA DriveKept ==
  ASSUME Inv, AloneAtBoot, NEW c \in Co, Drive(c)
  PROVE  Inv'
BY EnterTriageKept, PolicyKept, InterruptedKept, CallKept, AnsweredKept,
   CloseInterventionKept, DispatchKept, CleanKept, ReapKept, CreateKept, TargetKept,
   LeaseKept, SpawnKept, UseKept, RunKept, VerifyKept, VerifiedKept, DeliverKept,
   ShipKept, DeliveredKept DEF Drive

LEMMA StepInv ==
  ASSUME Inv, AloneAtBoot, [Next]_vars
  PROVE  Inv'
<1>1. CASE Startup
  BY <1>1, StartupKept
<1>2. CASE Watch
  BY <1>2, ReadDoneKept, CaptureKept, ClaimKept, ReadExitKept, StallKept DEF Watch
<1>3. CASE Crash
  BY <1>3, CrashKept
<1>4. ASSUME NEW c \in Co, Drive(c) PROVE Inv'
  BY <1>4, DriveKept
<1>5. ASSUME NEW n \in Attempt, WorkerDies(n) \/ LeaseLapses(n) PROVE Inv'
  BY <1>5, WorkerDiesKept, LeaseLapsesKept
<1>6. CASE UNCHANGED vars
  BY <1>6, AroundKept DEF vars, Inv, Shape, Restamps
<1>7. QED
  BY <1>1, <1>2, <1>3, <1>4, <1>5, <1>6 DEF Next

-----------------------------------------------------------------------------
(* Every step is a step of the contract, or none. *)

Keeps == [Contract!Next]_(Contract!vars)

AllPassed == {n \in Attempt : Positions({"passed"}, n) # {}}

LEMMA Quiet ==
  ASSUME UNCHANGED <<row, shipped>>, AllPassed' = AllPassed
  PROVE  Keeps
BY DEF Keeps, Contract!vars, AllPassed

LEMMA PassedAsBefore ==
  ASSUME UNCHANGED log
  PROVE  AllPassed' = AllPassed
BY DEF AllPassed, Positions

LEMMA OtherEvent ==
  ASSUME Shape, NEW type, type # "passed", NEW att, NEW cause, NEW act, NEW iv,
         log' = Append(log, Event(type, att, cause, act, iv))
  PROVE  AllPassed' = AllPassed
<1>1. PICK e : log' = Append(log, e) /\ e.type # "passed"
  BY DEF Event
<1>2. /\ DOMAIN log' = DOMAIN log \cup {Len(log) + 1} /\ log'[Len(log) + 1] = e
      /\ \A i \in DOMAIN log : log'[i] = log[i]
  BY <1>1 DEF Shape
<1>3. \A n : Positions({"passed"}, n)' = Positions({"passed"}, n)
  BY <1>1, <1>2 DEF Positions
<1>4. QED
  BY <1>3 DEF AllPassed

(* A step that moves the task: the row but for its cause and candidate. *)
LEMMA FailsKeeps ==
  ASSUME row.state \in {"running", "verifying", "delivering"}, row'.state = "triage",
         row'.att = row.att, row'.retries = row.retries, AllPassed' = AllPassed,
         UNCHANGED shipped
  PROVE  Keeps
BY DEF Keeps, Contract!Next, Contract!Fails, Contract!Moves, Contract!Legal,
       Contract!Transitions, Contract!TERMINAL, AllPassed

LEMMA ClaimsKeeps ==
  ASSUME row.state = "running", row'.state = "verifying",
         row'.att = row.att, row'.retries = row.retries, AllPassed' = AllPassed,
         UNCHANGED shipped
  PROVE  Keeps
BY DEF Keeps, Contract!Next, Contract!Claims, Contract!Moves, Contract!Legal,
       Contract!Transitions, Contract!TERMINAL, AllPassed

LEMMA StartsDeliveryKeeps ==
  ASSUME row.state = "verifying", row'.state = "delivering", row.att \in AllPassed,
         row'.att = row.att, row'.retries = row.retries, AllPassed' = AllPassed,
         UNCHANGED shipped
  PROVE  Keeps
BY DEF Keeps, Contract!Next, Contract!StartsDelivery, Contract!Moves, Contract!Legal,
       Contract!Transitions, Contract!TERMINAL, AllPassed

LEMMA DeliversKeeps ==
  ASSUME row.state = "delivering", row'.state = "delivered", row.att \in shipped,
         row'.att = row.att, row'.retries = row.retries, AllPassed' = AllPassed,
         UNCHANGED shipped
  PROVE  Keeps
BY DEF Keeps, Contract!Next, Contract!Delivers, Contract!Moves, Contract!Legal,
       Contract!Transitions, Contract!TERMINAL, AllPassed

LEMMA SettlesKeeps ==
  ASSUME row.state = "triage", row'.state = "needs_human",
         row'.att = row.att, row'.retries = row.retries, AllPassed' = AllPassed,
         UNCHANGED shipped
  PROVE  Keeps
BY DEF Keeps, Contract!Next, Contract!Settles, Contract!Moves, Contract!Legal,
       Contract!Transitions, Contract!TERMINAL, AllPassed

LEMMA ContinuesKeeps ==
  ASSUME row.state = "triage", row'.state = "running",
         row'.att = row.att, row'.retries = row.retries, AllPassed' = AllPassed,
         UNCHANGED shipped
  PROVE  Keeps
BY DEF Keeps, Contract!Next, Contract!Continues, Contract!Moves, Contract!Legal,
       Contract!Transitions, Contract!TERMINAL, AllPassed

LEMMA MovedRow ==
  ASSUME Shape, NEW to, NEW cause, Moved(to, cause)
  PROVE  row'.state = to /\ row'.att = row.att /\ row'.retries = row.retries
BY DEF Shape, RowType, Moved

(* The verdict and the claim are about the attempt of the row. *)
LEMMA PassedAttempt ==
  ASSUME Inv, Passed(row.att), row.state # "queued"
  PROVE  row.att \in AllPassed
BY DEF Inv, Shape, RowType, RowsAndLog, Passed, AllPassed

LEMMA StartupKeeps ==
  ASSUME Inv, AloneAtBoot, Startup
  PROVE  Keeps
<1>1. Shape
  BY DEF Inv
<1>2. CASE Start \/ Fence \/ ResumeTriage \/ Loop
  BY <1>2, Quiet, PassedAsBefore DEF Start, Fence, ResumeTriage, Loop
<1>3. CASE ReconcileClaim
  <2>1. row.state = "running"
    BY <1>3 DEF ReconcileClaim, Inv, MainRelies, At
  <2>2. row'.state = "verifying" /\ row'.att = row.att /\ row'.retries = row.retries
    BY <1>1, <1>3 DEF ReconcileClaim, Shape, RowType
  <2>3. QED
    BY <1>3, <2>1, <2>2, ClaimsKeeps, PassedAsBefore DEF ReconcileClaim
<1>4. CASE ReconcileExit
  BY <1>1, <1>4, Quiet, OtherEvent DEF ReconcileExit
<1>5. CASE ReconcileMove
  <2>1. row.state = "running"
    BY <1>5 DEF ReconcileMove, Inv, MainRelies, At
  <2>2. Moved("triage", co["main"].cause)
    BY <1>5, <2>1 DEF ReconcileMove, Transition, Legal, Transitions, TERMINAL
  <2>3. QED
    BY <1>1, <1>5, <2>1, <2>2, MovedRow, FailsKeeps, PassedAsBefore DEF ReconcileMove
<1>6. CASE ResumeVerifying
  <2> DEFINE last == Newest(Verdicts)
  <2>1. UNCHANGED <<log, shipped>> /\ AllPassed' = AllPassed
    BY <1>6, PassedAsBefore DEF ResumeVerifying
  <2>2. CASE UNCHANGED row
    BY <2>1, <2>2, Quiet
  <2>3. CASE row' # row
    <3>1. /\ row.state = "verifying" /\ last # 0 /\ log[last].type = "passed"
          /\ Moved("delivering", last)
      BY <1>6, <2>3 DEF ResumeVerifying, Transition
    <3>2. last \in Verdicts
      BY <1>1, <3>1, NewestPosition DEF Verdicts, Facts, Positions
    <3>3. Passed(row.att)
      BY <3>1, <3>2 DEF Passed, Verdicts, Facts, Positions
    <3> HIDE DEF last
    <3>4. row.att \in AllPassed
      BY <3>1, <3>3, PassedAttempt
    <3>5. QED
      BY <1>1, <2>1, <3>1, <3>4, MovedRow, StartsDeliveryKeeps
  <2>4. QED
    BY <2>2, <2>3
<1>7. CASE ResumeDelivering
  <2> DEFINE done == Newest(Facts({"shipped"}))
  <2>1. UNCHANGED <<log, shipped>> /\ AllPassed' = AllPassed
    BY <1>7, PassedAsBefore DEF ResumeDelivering
  <2>2. CASE UNCHANGED row
    BY <2>1, <2>2, Quiet
  <2>3. CASE row' # row
    <3>1. row.state = "delivering" /\ done # 0 /\ Moved("delivered", done)
      BY <1>7, <2>3 DEF ResumeDelivering, Transition
    <3>2. done \in Facts({"shipped"})
      BY <1>1, <3>1, NewestPosition DEF Facts, Positions
    <3>3. row.att \in shipped
      BY <3>2 DEF Facts, Positions, Inv, RowsAndLog
    <3> HIDE DEF done
    <3>4. QED
      BY <1>1, <2>1, <3>1, <3>3, MovedRow, DeliversKeeps
  <2>4. QED
    BY <2>2, <2>3
<1>8. QED
  BY <1>2, <1>3, <1>4, <1>5, <1>6, <1>7 DEF Startup

LEMMA TriageKeeps ==
  ASSUME Inv, AloneAtBoot, NEW c \in Co,
         \/ EnterTriage(c) \/ Policy(c) \/ Interrupted(c) \/ Call(c) \/ Answered(c)
         \/ CloseIntervention(c) \/ Dispatch(c) \/ Clean(c) \/ Reap(c)
  PROVE  Keeps
<1>1. Shape
  BY DEF Inv
<1>2. CASE EnterTriage(c)
  <2>1. UNCHANGED <<log, shipped>> /\ AllPassed' = AllPassed
    BY <1>2, PassedAsBefore DEF EnterTriage
  <2>2. CASE UNCHANGED row
    BY <2>1, <2>2, Quiet
  <2>3. CASE row' # row
    <3>1. Legal(row.state, "triage") /\ Moved("triage", co[c].cause)
      BY <1>2, <2>3 DEF EnterTriage, Transition
    <3>2. row.state \in {"running", "verifying", "delivering"}
      BY <3>1 DEF Legal, Transitions
    <3>3. QED
      BY <1>1, <2>1, <3>1, <3>2, MovedRow, FailsKeeps
  <2>4. QED
    BY <2>2, <2>3
<1>3. CASE Policy(c) \/ CloseIntervention(c) \/ Clean(c) \/ Reap(c)
  BY <1>3, Quiet, PassedAsBefore DEF Policy, CloseIntervention, Clean, Reap
<1>4. CASE Interrupted(c)
  <2>1. CASE UNCHANGED row
    <3>1. AllPassed' = AllPassed
      BY <1>1, <1>4, PassedAsBefore, OtherEvent DEF Interrupted
    <3>2. QED
      BY <1>4, <2>1, <3>1, Quiet DEF Interrupted
  <2>2. CASE row' # row
    <3>1. Moved("needs_human", Len(log)) /\ UNCHANGED <<log, shipped>>
      BY <1>4, <2>2 DEF Interrupted, Transition
    <3>2. row.state = "triage"
      BY <1>4, Driver DEF Interrupted, At, Relies, Recovers
    <3>3. QED
      BY <1>1, <3>1, <3>2, MovedRow, SettlesKeeps, PassedAsBefore
  <2>3. QED
    BY <2>1, <2>2
<1>5. CASE Call(c)
  BY <1>1, <1>5, Quiet, OtherEvent DEF Call
<1>6. CASE Answered(c)
  <2>1. PICK act : log' = Append(log, Event("acted", row.att, co[c].cause, act, co[c].iv))
    BY <1>6 DEF Answered
  <2>2. AllPassed' = AllPassed
    BY <1>1, <2>1, OtherEvent
  <2>3. QED
    BY <1>6, <2>2, Quiet DEF Answered
<1>7. CASE Dispatch(c)
  <2>1. row.state = "triage" /\ UNCHANGED <<log, shipped>>
    BY <1>7, Driver DEF Dispatch, At, Relies, Recovers
  <2>2. AllPassed' = AllPassed
    BY <2>1, PassedAsBefore
  <2> DEFINE saved == Newest(Acted(co[c].cause))
  <2>3. UNCHANGED row \/ Moved("running", saved) \/ Moved("needs_human", saved)
    <3> DEFINE act == IF Offered(log[saved].act, co[c].live) THEN log[saved].act ELSE "escalate"
    <3>1. act \in {"restart", "escalate", "wait"}
      BY DEF Offered, Menu
    <3>2. QED
      BY <1>7, <3>1 DEF Dispatch, Transition
  <2> HIDE DEF saved
  <2>4. QED
    BY <1>1, <2>1, <2>2, <2>3, MovedRow, Quiet, ContinuesKeeps, SettlesKeeps
<1>8. QED
  BY <1>2, <1>3, <1>4, <1>5, <1>6, <1>7

LEMMA LaunchKeeps ==
  ASSUME Inv, AloneAtBoot, NEW c \in Co,
         Create(c) \/ Target(c) \/ Lease(c) \/ Spawn(c) \/ Use(c) \/ Run(c)
  PROVE  Keeps
<1>1. Shape
  BY DEF Inv
<1>2. CASE Create(c) \/ Target(c) \/ Lease(c) \/ Spawn(c)
  BY <1>2, Quiet, PassedAsBefore DEF Create, Target, Lease, Spawn
<1>3. CASE Use(c)
  BY <1>1, <1>3, Quiet, OtherEvent DEF Use
<1>4. CASE Run(c)
  <2>1. co[c].pc \in Launching /\ UNCHANGED <<log, shipped>>
    BY <1>4 DEF Run, At, Launching
  <2>2. Affordable \/ row.state = "queued"
    BY <2>1, Launch
  <2>3. co[c].n \in Nat /\ co[c].n > row.att
    BY <2>1, Launch, RestartAssumption DEF Attempt
  <2>4. row'.state = "running" /\ row'.att = co[c].n
        /\ row'.retries = row.retries + (IF row.state = "triage" THEN 1 ELSE 0)
    BY <1>4, <2>2 DEF Run, Affordable, Legal, Transitions, TERMINAL
  <2>5. AllPassed' = AllPassed /\ row.retries \in Nat
    BY <1>1, <2>1, PassedAsBefore DEF Shape, RowType
  <2>6. CASE row.state = "queued"
    BY <2>1, <2>3, <2>4, <2>5, <2>6
    DEF Keeps, Contract!Next, Contract!Launches, Contract!Moves, Contract!Legal,
        Contract!Transitions, Contract!TERMINAL, AllPassed
  <2>7. CASE Affordable
    BY <2>1, <2>3, <2>4, <2>5, <2>7
    DEF Keeps, Contract!Next, Contract!Retries, Contract!Moves, Contract!Legal,
        Contract!Transitions, Contract!TERMINAL, AllPassed, Affordable
  <2>8. QED
    BY <2>2, <2>6, <2>7
<1>5. QED
  BY <1>2, <1>3, <1>4

LEMMA DeliveryKeeps ==
  ASSUME Inv, AloneAtBoot, NEW c \in Co,
         Verify(c) \/ Verified(c) \/ Deliver(c) \/ Ship(c) \/ Delivered(c)
  PROVE  Keeps
<1>1. Shape
  BY DEF Inv
<1>2. CASE Verify(c)
  <2>1. row.state = "verifying" /\ UNCHANGED <<row, shipped>>
    BY <1>2, Driver DEF Verify, At, Relies
  <2>2. PICK verdict \in {"passed", "failed"} :
          log' = Append(log, Event(verdict, row.att, 0, "none", 0))
    BY <1>2 DEF Verify
  <2>3. CASE verdict = "failed"
    BY <1>1, <2>1, <2>2, <2>3, OtherEvent, Quiet
  <2>4. CASE verdict = "passed"
    <3>1. PICK e : log' = Append(log, e) /\ e.type = "passed" /\ e.att = row.att
      BY <2>2, <2>4 DEF Event
    <3>2. /\ DOMAIN log' = DOMAIN log \cup {Len(log) + 1} /\ log'[Len(log) + 1] = e
          /\ \A i \in DOMAIN log : log'[i] = log[i]
      BY <1>1, <3>1 DEF Shape
    <3>3. \A n : Positions({"passed"}, n)' # {} <=> Positions({"passed"}, n) # {} \/ n = row.att
      BY <3>1, <3>2 DEF Positions
    <3>4. row.att \in Attempt
      BY <2>1 DEF Inv, RowsAndLog, Shape, RowType
    <3>5. AllPassed' = AllPassed \cup {row.att}
      BY <3>3, <3>4 DEF AllPassed
    <3>6. QED
      BY <2>1, <3>5 DEF Keeps, Contract!Next, Contract!Passes, AllPassed
  <2>5. QED
    BY <2>3, <2>4
<1>3. CASE Verified(c)
  <2>1. row.state = "verifying" /\ Passed(row.att) /\ UNCHANGED <<log, shipped>>
    BY <1>3, Driver DEF Verified, At, Relies
  <2>2. Moved("delivering", co[c].cause)
    BY <1>3, <2>1 DEF Verified, Transition, Legal, Transitions, TERMINAL
  <2>3. QED
    BY <1>1, <2>1, <2>2, MovedRow, PassedAttempt, PassedAsBefore, StartsDeliveryKeeps
<1>4. CASE Deliver(c)
  <2>1. row.state = "delivering" /\ UNCHANGED row
    BY <1>4, Driver DEF Deliver, At, Relies
  <2>2. CASE log' = Append(log, Event("undelivered", row.att, 0, "none", 0)) /\ UNCHANGED shipped
    BY <1>1, <2>1, <2>2, OtherEvent, Quiet
  <2>3. CASE shipped' = shipped \cup {row.att} /\ UNCHANGED log
    <3>1. row.att \in AllPassed /\ AllPassed' = AllPassed
      BY <2>1, <2>3, PassedAttempt, PassedAsBefore DEF Inv, RowsAndLog
    <3>2. QED
      BY <2>1, <2>3, <3>1 DEF Keeps, Contract!Next, Contract!HandsOff, AllPassed
  <2>4. QED
    BY <1>4, <2>2, <2>3 DEF Deliver
<1>5. CASE Ship(c)
  BY <1>1, <1>5, Quiet, OtherEvent DEF Ship
<1>6. CASE Delivered(c)
  <2>1. row.state = "delivering" /\ row.att \in shipped /\ UNCHANGED <<log, shipped>>
    BY <1>6, Driver DEF Delivered, At, Relies
  <2>2. Moved("delivered", co[c].cause)
    BY <1>6, <2>1 DEF Delivered, Transition, Legal, Transitions, TERMINAL
  <2>3. QED
    BY <1>1, <2>1, <2>2, MovedRow, PassedAsBefore, DeliversKeeps
<1>7. QED
  BY <1>2, <1>3, <1>4, <1>5, <1>6

LEMMA WatchKeeps ==
  ASSUME Inv, AloneAtBoot, Watch
  PROVE  Keeps
<1>1. Shape
  BY DEF Inv
<1>2. CASE ReadDone
  BY <1>1, <1>2, Quiet, OtherEvent DEF ReadDone
<1>3. CASE Capture
  BY <1>3, Quiet, PassedAsBefore DEF Capture
<1>4. CASE Claim
  <2>1. row.state = "running" /\ UNCHANGED <<log, shipped>>
    BY <1>4 DEF Claim, At, Inv, WatchRelies
  <2>2. row'.state = "verifying" /\ row'.att = row.att /\ row'.retries = row.retries
    BY <1>1, <1>4, <2>1 DEF Claim, Legal, Transitions, TERMINAL, Shape, RowType
  <2>3. QED
    BY <2>1, <2>2, ClaimsKeeps, PassedAsBefore
<1>5. CASE ReadExit
  <2>1. PICK how : log' = Append(log, Event("exit", co["watch"].n, 0, how, 0))
    BY <1>5 DEF ReadExit
  <2>2. AllPassed' = AllPassed
    BY <1>1, <2>1, OtherEvent
  <2>3. QED
    BY <1>5, <2>2, Quiet DEF ReadExit
<1>6. CASE Stall
  BY <1>1, <1>6, Quiet, OtherEvent DEF Stall
<1>7. QED
  BY <1>2, <1>3, <1>4, <1>5, <1>6 DEF Watch

LEMMA StepKeeps ==
  ASSUME Inv, AloneAtBoot, [Next]_vars
  PROVE  Keeps
<1>1. CASE Startup
  BY <1>1, StartupKeeps
<1>2. CASE Watch
  BY <1>2, WatchKeeps
<1>3. CASE Crash
  BY <1>3, Quiet, PassedAsBefore DEF Crash
<1>4. ASSUME NEW c \in Co, Drive(c) PROVE Keeps
  BY <1>4, TriageKeeps, LaunchKeeps, DeliveryKeeps DEF Drive
<1>5. ASSUME NEW n \in Attempt, WorkerDies(n) \/ LeaseLapses(n) PROVE Keeps
  BY <1>5, Quiet, PassedAsBefore DEF WorkerDies, LeaseLapses
<1>6. CASE UNCHANGED vars
  BY <1>6, Quiet, PassedAsBefore DEF vars
<1>7. QED
  BY <1>1, <1>2, <1>3, <1>4, <1>5, <1>6 DEF Next

-----------------------------------------------------------------------------

\* For any retry budget, any number of kills and any number of attempts, the
\* scheduler processes that serve a task one after the other (reconcile(), the
\* checkpoints of run_until_settled, triage, launches, verification, delivery)
\* keep the contract of a task together, but for hand-offs that are repeated.
THEOREM RestartKeepsContract == ASSUME AloneAtBoot PROVE Spec => ContractKept
<1>1. Init => Inv
  BY InitInv
<1>2. Inv /\ [Next]_vars => Inv'
  BY StepInv
<1>3. Init => Contract!Init
  BY DEF Init, Contract!Init, Positions
<1>4. Inv /\ [Next]_vars => [Contract!Next]_(Contract!vars)
  BY StepKeeps DEF Keeps
<1>5. QED
  BY <1>1, <1>2, <1>3, <1>4, PTL DEF Spec, ContractKept, Contract!Spec

-----------------------------------------------------------------------------
(* What the contract amounts to, for a task that many processes serve. *)

\* Each step of the contract keeps what makes it coherent.
LEMMA CoherentStep ==
  ASSUME Contract!Coherent, [Contract!Next]_(Contract!vars)
  PROVE  Contract!Coherent'
<1>0. MaxRetries \in Nat
  BY RestartAssumption
<1>1. CASE Contract!Launches
  BY <1>0, <1>1 DEF Contract!Coherent, Contract!Launches, Contract!Moves, Contract!Legal,
     Contract!TERMINAL, Contract!STATES
<1>2. CASE Contract!Retries
  BY <1>0, <1>2 DEF Contract!Coherent, Contract!Retries, Contract!Moves, Contract!Legal,
     Contract!TERMINAL, Contract!STATES
<1>3. CASE Contract!Continues
  BY <1>0, <1>3 DEF Contract!Coherent, Contract!Continues, Contract!Moves, Contract!Legal,
     Contract!TERMINAL, Contract!STATES
<1>4. CASE Contract!Claims
  BY <1>0, <1>4 DEF Contract!Coherent, Contract!Claims, Contract!Moves, Contract!Legal,
     Contract!TERMINAL, Contract!STATES
<1>5. CASE Contract!Passes
  BY <1>0, <1>5 DEF Contract!Coherent, Contract!Passes, Contract!Moves, Contract!Legal,
     Contract!TERMINAL, Contract!STATES
<1>6. CASE Contract!StartsDelivery
  BY <1>0, <1>6 DEF Contract!Coherent, Contract!StartsDelivery, Contract!Moves, Contract!Legal,
     Contract!TERMINAL, Contract!STATES
<1>7. CASE Contract!Rejects
  BY <1>0, <1>7 DEF Contract!Coherent, Contract!Rejects
<1>8. CASE Contract!HandsOff
  BY <1>0, <1>8 DEF Contract!Coherent, Contract!HandsOff, Contract!Moves, Contract!Legal,
     Contract!TERMINAL, Contract!STATES
<1>9. CASE Contract!Delivers
  BY <1>0, <1>9 DEF Contract!Coherent, Contract!Delivers, Contract!Moves, Contract!Legal,
     Contract!TERMINAL, Contract!STATES
<1>10. CASE Contract!Fails
  BY <1>0, <1>10 DEF Contract!Coherent, Contract!Fails, Contract!Moves, Contract!Legal,
     Contract!TERMINAL, Contract!STATES
<1>11. CASE Contract!Settles
  BY <1>0, <1>11 DEF Contract!Coherent, Contract!Settles, Contract!Moves, Contract!Legal,
     Contract!TERMINAL, Contract!STATES
<1>12. CASE Contract!Answered
  BY <1>0, <1>12 DEF Contract!Coherent, Contract!Answered, Contract!Moves, Contract!Legal,
     Contract!TERMINAL, Contract!STATES
<1>13. CASE Contract!Cancelled
  BY <1>0, <1>13 DEF Contract!Coherent, Contract!Cancelled, Contract!Moves, Contract!Legal,
     Contract!TERMINAL, Contract!STATES
<1>14. CASE UNCHANGED Contract!vars
  BY <1>14 DEF Contract!Coherent, Contract!vars
<1>15. QED
  BY <1>1, <1>2, <1>3, <1>4, <1>5, <1>6, <1>7, <1>8, <1>9, <1>10, <1>11, <1>12,
     <1>13, <1>14 DEF Contract!Next

\* However often the scheduler is killed, the retries of a task stay within its
\* budget, a delivered task's current attempt was handed off, and everything
\* that was handed off had passed.
THEOREM RestartKeepsPromise == ASSUME AloneAtBoot PROVE Spec => []Contract!Promise
<1>1. Contract!Init => Contract!Coherent
  BY RestartAssumption DEF Contract!Init, Contract!Coherent, Contract!STATES
<1>2. Contract!Coherent /\ [Contract!Next]_(Contract!vars) => Contract!Coherent'
  BY CoherentStep
<1>3. Contract!Coherent => Contract!Promise
  BY DEF Contract!Coherent, Contract!Promise
<1>4. QED
  BY <1>1, <1>2, <1>3, RestartKeepsContract, PTL DEF ContractKept, Contract!Spec

\* And a task that is delivered, failed or cancelled stays so, whatever the next
\* scheduler finds: nothing launches it again or spends a retry (events.py:81).
THEOREM RestartTerminalStays == ASSUME AloneAtBoot PROVE Spec => Contract!Final
<1>1. [Contract!Next]_(Contract!vars) =>
        [(row.state \in Contract!TERMINAL)
           => UNCHANGED <<row.state, row.att, row.retries>>]_(Contract!vars)
  <2>1. Contract!Next => (row.state \in Contract!TERMINAL
                            => UNCHANGED <<row.state, row.att, row.retries>>)
    BY DEF Contract!Next, Contract!Launches, Contract!Retries, Contract!Continues,
       Contract!Claims, Contract!Passes, Contract!StartsDelivery, Contract!Rejects,
       Contract!HandsOff, Contract!Delivers, Contract!Fails, Contract!Settles,
       Contract!Answered, Contract!Cancelled, Contract!Moves, Contract!Legal,
       Contract!TERMINAL
  <2>2. QED
    BY <2>1
<1>2. QED
  BY <1>1, RestartKeepsContract, PTL DEF ContractKept, Contract!Spec, Contract!Final

-----------------------------------------------------------------------------
(* What the log says of an attempt, of its workers and of the calls of the   *)
(* model, when the scheduler is killed any number of times.  Each section    *)
(* adds to Inv what its theorem needs: Records, Budget, Calls.               *)

-----------------------------------------------------------------------------
(* What is on record about an attempt is recorded once. *)

Verdict == {"passed", "failed"}
Results == {"done", "passed", "failed"}
Outcomes == {"done", "passed", "failed", "exit", "stall"}
Triaging == {"triage"} \cup Recovers

(* Nothing is on record yet of the attempt that is watched, or that is triaged *)
(* while its worker lives.                                                     *)
Fresh == \/ co["watch"].pc = "watch"
         \/ co["watch"].live /\ co["watch"].pc \in Triaging

(* Coroutine c is about to verify the attempt. *)
Judges(c) == co[c].pc \in {"verify", "claim", "captured"}

OneVerdict ==
  \A i, j \in DOMAIN log :
    log[i].type \in Verdict /\ log[j].type \in Verdict /\ log[i].att = log[j].att => i = j

Records ==
  /\ \A i \in DOMAIN log : log[i].type \in Results => log[i].att <= row.att
  /\ Fresh => Positions(Results, row.att) = {}
  /\ co["main"].pc = "exited" => Positions({"done"}, row.att) = {}
  /\ \A c \in Co : Judges(c) => Positions(Verdict, row.att) = {}
  /\ OneVerdict /\ ClaimSurvives

(* The coroutines come to no place where something is known of the records. *)
Calm ==
  /\ Fresh' => Fresh
  /\ co'["main"].pc = "exited" => co["main"].pc = "exited"
  /\ \A c \in Co : Judges(c)' => Judges(c)

(* The log says nothing new about outcomes. *)
Silent ==
  \/ log' = log
  \/ \E e : log' = Append(log, e) /\ e.type \notin Outcomes

LEMMA SilentLog ==
  ASSUME Shape, Silent
  PROVE  /\ DOMAIN log \subseteq DOMAIN log'
         /\ \A i \in DOMAIN log : log'[i] = log[i]
         /\ \A i \in DOMAIN log' : log'[i].type \in Outcomes => i \in DOMAIN log
<1>1. CASE log' = log
  BY <1>1
<1>2. CASE \E e : log' = Append(log, e) /\ e.type \notin Outcomes
  <2>1. PICK e : log' = Append(log, e) /\ e.type \notin Outcomes
    BY <1>2
  <2>2. PICK n \in Nat : n = Len(log) /\ DOMAIN log = 1..n
    BY DEF Shape
  <2>3. /\ DOMAIN log' = 1..(n + 1) /\ log'[n + 1] = e
        /\ \A i \in 1..n : log'[i] = log[i]
    BY <2>1, <2>2 DEF Shape
  <2>4. \A i \in 1..(n + 1) : i \in 1..n \/ i = n + 1
    BY <2>2
  <2>5. QED
    BY <2>1, <2>2, <2>3, <2>4
<1>3. QED
  BY <1>1, <1>2 DEF Silent

LEMMA RecordsStay ==
  ASSUME Inv, Records, row'.att = row.att, Silent, Calm
  PROVE  Records'
<1>1. /\ DOMAIN log \subseteq DOMAIN log'
      /\ \A i \in DOMAIN log : log'[i] = log[i]
      /\ \A i \in DOMAIN log' : log'[i].type \in Outcomes => i \in DOMAIN log
  BY SilentLog DEF Inv
<1>2. /\ Positions(Results, row.att)' = Positions(Results, row.att)
      /\ Positions(Verdict, row.att)' = Positions(Verdict, row.att)
      /\ Positions({"done"}, row.att)' = Positions({"done"}, row.att)
  BY <1>1 DEF Positions, Results, Verdict, Outcomes
<1>3. \A i \in DOMAIN log' : log'[i].type \in Results => log'[i].att <= row'.att
  BY <1>1 DEF Records, Results, Outcomes
<1>4. OneVerdict'
  BY <1>1 DEF Records, OneVerdict, Verdict, Outcomes
<1>5. ClaimSurvives'
  BY <1>1 DEF Records, ClaimSurvives, Outcomes
<1>6. QED
  BY <1>2, <1>3, <1>4, <1>5 DEF Records, Calm

(* Coroutine c goes on, or ends. *)
LEMMA Onward ==
  ASSUME Shape, NEW c \in Co, \A d \in Co \ {c} : co'[d] = co[d],
         co'[c].pc \notin {"watch", "exited", "verify", "claim", "captured"},
         co'[c].pc \in Triaging =>
           \/ co'[c].live = FALSE
           \/ co'[c].live = co[c].live /\ co[c].pc \in Triaging
  PROVE  Calm
<1>1. Fresh' => Fresh
  BY DEF Fresh, Co
<1>2. co'["main"].pc = "exited" => co["main"].pc = "exited"
  BY DEF Co
<1>3. \A d \in Co : Judges(d)' => Judges(d)
  BY DEF Judges
<1>4. QED
  BY <1>1, <1>2, <1>3 DEF Calm

LEMMA OnwardGo ==
  ASSUME Shape, NEW c \in Co, NEW p \in PC, co' = [co EXCEPT ![c].pc = p],
         p \notin {"watch", "exited", "verify", "claim", "captured"},
         p \in Triaging => co[c].pc \in Triaging
  PROVE  Calm
<1>1. co'[c].pc = p /\ co'[c].live = co[c].live /\ \A d \in Co \ {c} : co'[d] = co[d]
  BY Goes
<1>2. QED
  BY <1>1, Onward

LEMMA OnwardTriage ==
  ASSUME Shape, NEW c \in Co, NEW cause \in Nat, NEW boot \in Nat,
         Triage(c, cause, FALSE, boot)
  PROVE  Calm
BY ToTriage, Onward

LEMMA OnwardEnd ==
  ASSUME Shape, NEW c \in Co, co' = Back(c) \/ co' = Raised(c)
  PROVE  Calm
<1>1. CASE c = "main"
  <2> DEFINE q == CASE co["main"].boot = 1 -> "boot2" [] co["main"].boot = 2 -> "boot3"
                    [] OTHER -> "loop"
  <2>1. co' = [co EXCEPT !["main"].pc = q] \/ co' = [co EXCEPT !["main"].pc = "failed"]
    BY <1>1 DEF Back, Raised
  <2>2. q \in {"boot2", "boot3", "loop"}
    OBVIOUS
  <2> HIDE DEF q
  <2>3. QED
    BY <1>1, <2>1, <2>2, OnwardGo, Places DEF Triaging, Recovers
<1>2. CASE c = "watch"
  <2>1. co'["watch"].pc = "off" /\ \A d \in Co \ {c} : co'[d] = co[d]
    BY <1>2 DEF Back, Raised, Shape, Idle, Co
  <2>2. QED
    BY <1>2, <2>1, Onward DEF Triaging, Recovers
<1>3. QED
  BY <1>1, <1>2 DEF Co

LEMMA Unremarkable ==
  ASSUME NEW type, type \notin Outcomes, NEW att, NEW cause, NEW act, NEW iv,
         log' = Append(log, Event(type, att, cause, act, iv))
  PROVE  Silent
BY DEF Silent, Event

(* Coroutine c goes on, and the records say nothing new. *)
LEMMA GoesOn ==
  ASSUME Inv, Records, row'.att = row.att, Silent, NEW c \in Co, NEW p \in PC, Go(c, p),
         p \notin {"watch", "exited", "verify", "claim", "captured"},
         p \in Triaging => co[c].pc \in Triaging
  PROVE  Records'
<1>1. Calm
  BY OnwardGo DEF Inv, Go
<1>2. QED
  BY <1>1, RecordsStay

LEMMA StaysAtt ==
  ASSUME Shape, NEW c \in Co, NEW to, NEW cause, NEW next, Transition(c, to, cause, next)
  PROVE  /\ row'.att = row.att
         /\ co' = next \/ co' = Raised(c)
BY MovedRow DEF Transition

LEMMA StartRecords ==
  ASSUME Inv, Records, Start \/ ReconcileMove \/ ReconcileClaim
  PROVE  Records'
<1>1. Shape /\ "main" \in Co
  BY DEF Inv, Co
<1>2. CASE Start
  <2> DEFINE q == IF Gone \/ row.state = "verifying" THEN "fence" ELSE "boot1"
  <2>1. Go("main", q) /\ q \in {"fence", "boot1"} /\ row'.att = row.att /\ Silent
    BY <1>2 DEF Start, Silent
  <2> HIDE DEF q
  <2>2. QED
    BY <1>1, <2>1, GoesOn, Places DEF Triaging, Recovers
<1>3. CASE ReconcileMove
  <2>1. row'.att = row.att /\ Silent
        /\ (co' = [co EXCEPT !["main"].pc = "boot1"] \/ co' = Raised("main"))
    BY <1>1, <1>3, StaysAtt DEF ReconcileMove, Silent
  <2>2. Calm
    BY <1>1, <2>1, OnwardGo, OnwardEnd, Places DEF Triaging, Recovers
  <2>3. QED
    BY <2>1, <2>2, RecordsStay
<1>4. CASE ReconcileClaim
  <2>1. Go("main", "boot1") /\ row'.att = row.att /\ Silent
    BY <1>1, <1>4 DEF ReconcileClaim, Silent, Shape, RowType
  <2>2. QED
    BY <1>1, <2>1, GoesOn, Places DEF Triaging, Recovers
<1>5. QED
  BY <1>2, <1>3, <1>4

LEMMA FenceRecords ==
  ASSUME Inv, Records, AloneAtBoot, Fence
  PROVE  Records'
<1> DEFINE q == IF row.state = "verifying" THEN "boot1"
                ELSE IF Claimed # {} THEN "claimed" ELSE "exited"
<1>1. /\ Go("main", q) /\ q \in {"boot1", "claimed", "exited"}
      /\ UNCHANGED <<row, log>> /\ At("main", "fence")
      /\ q = "exited" => Positions({"done"}, row.att) = {}
  BY DEF Fence, Claimed, Facts
<1> HIDE DEF q
<1>2. Shape /\ "main" \in Co /\ q \in PC /\ co["watch"].pc = "off"
  BY <1>1, Alone, Places DEF Inv, Co
<1>3. CASE q # "exited"
  BY <1>1, <1>2, <1>3, GoesOn DEF Triaging, Recovers, Silent
<1>4. CASE q = "exited"
  <2>1. co'["main"].pc = "exited" /\ co'["watch"].pc = "off"
    BY <1>1, <1>2, <1>4, Goes DEF Go, Co
  <2>2. ~Fresh' /\ \A c \in Co : ~Judges(c)'
    BY <2>1 DEF Fresh, Judges, Co, Triaging, Recovers
  <2>3. Positions({"done"}, row.att)' = {}
    BY <1>1, <1>4 DEF Positions
  <2>4. QED
    BY <1>1, <2>2, <2>3 DEF Records, OneVerdict, ClaimSurvives
<1>5. QED
  BY <1>3, <1>4

(* An event about the current attempt, of a kind that settles nothing yet, when *)
(* its claim is not on record.                                                  *)
LEMMA UnclaimedRecords ==
  ASSUME Inv, Records, row'.att = row.att, NEW type, type \in {"exit", "stall"},
         NEW cause, NEW act, NEW iv,
         log' = Append(log, Event(type, row.att, cause, act, iv)),
         Positions({"done"}, row.att) = {}, Calm
  PROVE  Records'
<1>1. PICK e : log' = Append(log, e) /\ e.type = type /\ e.att = row.att
  BY DEF Event
<1>2. /\ DOMAIN log' = DOMAIN log \cup {Len(log) + 1} /\ log'[Len(log) + 1] = e
      /\ \A i \in DOMAIN log : log'[i] = log[i] /\ i < Len(log) + 1 /\ i \in Nat
  BY <1>1 DEF Inv, Shape
<1>3. \A i \in DOMAIN log' : log'[i].type \in Results => i \in DOMAIN log
  BY <1>1, <1>2 DEF Results
<1>4. \A i \in DOMAIN log' : log'[i].type \in Results => log'[i].att <= row'.att
  BY <1>2, <1>3 DEF Records
<1>5. /\ Positions(Results, row.att)' = Positions(Results, row.att)
      /\ Positions(Verdict, row.att)' = Positions(Verdict, row.att)
      /\ Positions({"done"}, row.att)' = Positions({"done"}, row.att)
  BY <1>2, <1>3 DEF Positions, Results, Verdict
<1>6. OneVerdict'
  BY <1>2, <1>3 DEF Records, OneVerdict, Verdict, Results
<1>7. ClaimSurvives'
  <2>1. SUFFICES ASSUME NEW i \in DOMAIN log', NEW j \in DOMAIN log', log'[i].type = "done",
                        log'[j].type \in {"exit", "stall"}, i < j
                 PROVE  log'[i].att # log'[j].att
    BY DEF ClaimSurvives
  <2>2. i \in DOMAIN log
    BY <1>3, <2>1 DEF Results
  <2>3. CASE j \in DOMAIN log
    BY <1>2, <2>1, <2>2, <2>3 DEF Records, ClaimSurvives
  <2>4. CASE j \notin DOMAIN log
    <3>1. log'[j].att = row.att
      BY <1>1, <1>2, <2>4
    <3>2. log[i].type = "done" /\ log'[i].att = log[i].att
      BY <1>2, <2>1, <2>2
    <3>3. log[i].att # row.att
      BY <2>2, <3>2 DEF Positions
    <3>4. QED
      BY <3>1, <3>2, <3>3
  <2>5. QED
    BY <2>3, <2>4
<1>8. QED
  BY <1>4, <1>5, <1>6, <1>7 DEF Records, Calm

LEMMA ReconcileExitRecords ==
  ASSUME Inv, Records, ReconcileExit
  PROVE  Records'
<1>1. Shape /\ co["main"].pc = "exited" /\ row' = row
  BY DEF ReconcileExit, Inv, At
<1>2. co'["main"].pc = "orphaned" /\ co'["watch"] = co["watch"]
  BY <1>1 DEF ReconcileExit, Shape, CoType, Co
<1>3. Calm
  BY <1>2, Onward, <1>1 DEF Co, Triaging, Recovers
<1>4. Positions({"done"}, row.att) = {}
  BY <1>1 DEF Records
<1>5. QED
  BY <1>1, <1>3, <1>4, UnclaimedRecords DEF ReconcileExit

LEMMA ResumeRecords ==
  ASSUME Inv, Records, AloneAtBoot, ResumeTriage \/ ResumeDelivering \/ Loop
  PROVE  Records'
<1>1. Shape /\ "main" \in Co /\ Silent
  BY DEF Inv, Co, Silent, ResumeTriage, ResumeDelivering, Loop
<1>2. CASE ResumeTriage
  <2>1. row'.att = row.att
    BY <1>2 DEF ResumeTriage
  <2>2. CASE Triage("main", row.cause, FALSE, 1)
    BY <1>1, <2>1, <2>2, OnwardTriage, RecordsStay DEF Shape, RowType
  <2>3. CASE Go("main", "boot2")
    BY <1>1, <2>1, <2>3, GoesOn, Places DEF Triaging, Recovers
  <2>4. QED
    BY <1>2, <2>2, <2>3 DEF ResumeTriage
<1>3. CASE ResumeDelivering
  <2> DEFINE boot == IF co.main.pc = "boot3" THEN 3 ELSE 2
             done == Newest(Facts({"shipped"}))
             failed == Newest(Facts({"undelivered"}))
             next == IF boot = 2 THEN "boot3" ELSE "loop"
  <2>1. done \in Nat /\ failed \in Nat /\ boot \in Nat /\ next \in {"boot3", "loop"}
    BY <1>1, NewestPosition DEF Facts, Positions
  <2>2. \/ Go("main", "loop") /\ UNCHANGED row
        \/ Transition("main", "delivered", done, [co EXCEPT !.main.pc = next])
        \/ Triage("main", failed, FALSE, boot) /\ UNCHANGED row
        \/ co' = [co EXCEPT !["main"].pc = "deliver", !["main"].boot = boot] /\ UNCHANGED row
    BY <1>3 DEF ResumeDelivering
  <2> HIDE DEF boot, done, failed, next
  <2>3. CASE Go("main", "loop") /\ UNCHANGED row
    BY <1>1, <2>3, GoesOn, Places DEF Triaging, Recovers
  <2>4. CASE Transition("main", "delivered", done, [co EXCEPT !.main.pc = next])
    <3>1. row'.att = row.att /\ (co' = [co EXCEPT !["main"].pc = next] \/ co' = Raised("main"))
      BY <1>1, <2>4, StaysAtt
    <3>2. Calm
      BY <1>1, <2>1, <3>1, OnwardGo, OnwardEnd, Places DEF Triaging, Recovers
    <3>3. QED
      BY <1>1, <3>1, <3>2, RecordsStay
  <2>5. CASE Triage("main", failed, FALSE, boot) /\ UNCHANGED row
    BY <1>1, <2>1, <2>5, OnwardTriage, RecordsStay
  <2>6. CASE co' = [co EXCEPT !["main"].pc = "deliver", !["main"].boot = boot] /\ UNCHANGED row
    <3>1. co'["main"].pc = "deliver" /\ \A d \in Co \ {"main"} : co'[d] = co[d]
      BY <1>1, <2>6 DEF Shape, CoType
    <3>2. Calm
      BY <1>1, <3>1, Onward DEF Triaging, Recovers
    <3>3. QED
      BY <1>1, <2>6, <3>2, RecordsStay
  <2>7. QED
    BY <2>2, <2>3, <2>4, <2>5, <2>6
<1>4. CASE Loop
  <2>1. row'.att = row.att
    BY <1>4 DEF Loop
  <2>2. CASE co' = [co EXCEPT !["main"].pc = "create", !["main"].iv = 0, !["main"].boot = 4]
    <3>1. co'["main"].pc = "create" /\ \A d \in Co \ {"main"} : co'[d] = co[d]
      BY <1>1, <2>2 DEF Shape, CoType
    <3>2. QED
      BY <1>1, <2>1, <3>1, Onward, RecordsStay DEF Triaging, Recovers
  <2>3. CASE Go("main", "ended")
    BY <1>1, <2>1, <2>3, GoesOn, Places DEF Triaging, Recovers
  <2>4. QED
    BY <1>4, <2>2, <2>3 DEF Loop
<1>5. QED
  BY <1>2, <1>3, <1>4

LEMMA ResumeVerifyingRecords ==
  ASSUME Inv, Records, AloneAtBoot, ResumeVerifying
  PROVE  Records'
<1> DEFINE last == Newest(Verdicts)
<1>1. /\ Shape /\ "main" \in Co /\ Silent /\ log' = log /\ At("main", "boot2")
      /\ Verdicts \subseteq DOMAIN log /\ Verdicts = Positions(Verdict, row.att)
  BY DEF Inv, Co, Silent, ResumeVerifying, Verdicts, Facts, Positions, Verdict
<1>2. last \in Nat /\ (last = 0 => Verdicts = {})
  <2>1. last \in Nat /\ (Verdicts # {} => last \in Verdicts)
    BY <1>1, NewestPosition
  <2>2. \A i \in DOMAIN log : i # 0
    BY <1>1 DEF Shape
  <2>3. QED
    BY <1>1, <2>1, <2>2
<1>3. \/ Go("main", "boot3") /\ UNCHANGED row
      \/ /\ row.state = "verifying" /\ last = 0 /\ UNCHANGED row
         /\ co' = [co EXCEPT !["main"].pc = "verify", !["main"].boot = 2]
      \/ Transition("main", "delivering", last,
                    [co EXCEPT !["main"].pc = "redeliver", !["main"].boot = 2])
      \/ Triage("main", last, FALSE, 2) /\ UNCHANGED row
  BY DEF ResumeVerifying
<1> HIDE DEF last
<1>4. CASE Go("main", "boot3") /\ UNCHANGED row
  BY <1>1, <1>4, GoesOn, Places DEF Triaging, Recovers
<1>5. CASE /\ row.state = "verifying" /\ last = 0 /\ UNCHANGED row
           /\ co' = [co EXCEPT !["main"].pc = "verify", !["main"].boot = 2]
  <2>1. co'["main"].pc = "verify" /\ co'["watch"] = co["watch"]
    BY <1>1, <1>5 DEF Shape, CoType, Co
  <2>2. co["watch"].pc \in {"off", "watch"} /\ (co["watch"].pc = "watch" => row.state = "running")
    BY <1>1 DEF Inv, OneDriver, At
  <2>3. co["watch"].pc = "off"
    BY <1>5, <2>2
  <2>4. ~Fresh'
    BY <2>1, <2>3 DEF Fresh, Triaging, Recovers
  <2>5. Positions(Verdict, row.att)' = {}
    BY <1>1, <1>2, <1>5 DEF Positions
  <2>6. QED
    BY <1>1, <1>5, <2>1, <2>4, <2>5 DEF Records, OneVerdict, ClaimSurvives
<1>6. CASE Transition("main", "delivering", last,
                      [co EXCEPT !["main"].pc = "redeliver", !["main"].boot = 2])
  <2> DEFINE next == [co EXCEPT !["main"].pc = "redeliver", !["main"].boot = 2]
  <2>1. next["main"].pc = "redeliver" /\ \A d \in Co \ {"main"} : next[d] = co[d]
    BY <1>1 DEF Shape, CoType
  <2>2. Transition("main", "delivering", last, next)
    BY <1>6
  <2> HIDE DEF next
  <2>3. row'.att = row.att /\ (co' = next \/ co' = Raised("main"))
    BY <1>1, <2>2, StaysAtt
  <2>4. CASE co' = next
    BY <1>1, <2>1, <2>3, <2>4, Onward, RecordsStay DEF Triaging, Recovers
  <2>5. CASE co' = Raised("main")
    BY <1>1, <2>3, <2>5, OnwardEnd, RecordsStay
  <2>6. QED
    BY <2>3, <2>4, <2>5
<1>7. CASE Triage("main", last, FALSE, 2) /\ UNCHANGED row
  BY <1>1, <1>2, <1>7, OnwardTriage, RecordsStay
<1>8. QED
  BY <1>3, <1>4, <1>5, <1>6, <1>7

LEMMA EnterTriageRecords ==
  ASSUME Inv, Records, NEW c \in Co, EnterTriage(c)
  PROVE  Records'
<1>1. Shape /\ Silent /\ co[c].pc = "triage" /\ co[c].pc \in Triaging
  BY DEF Inv, Silent, EnterTriage, At, Triaging
<1>2. CASE co' = Back(c) /\ UNCHANGED row
  BY <1>1, <1>2, OnwardEnd, RecordsStay
<1>3. CASE Go(c, "policy") /\ UNCHANGED row
  BY <1>1, <1>3, GoesOn, Places
<1>4. CASE Transition(c, "triage", co[c].cause, [co EXCEPT ![c].pc = "policy"])
  <2>1. row'.att = row.att /\ (co' = [co EXCEPT ![c].pc = "policy"] \/ co' = Raised(c))
    BY <1>1, <1>4, StaysAtt
  <2>2. Calm
    BY <1>1, <2>1, OnwardGo, OnwardEnd, Places
  <2>3. QED
    BY <1>1, <2>1, <2>2, RecordsStay
<1>5. QED
  BY <1>2, <1>3, <1>4 DEF EnterTriage

LEMMA PolicyRecords ==
  ASSUME Inv, Records, NEW c \in Co, Policy(c)
  PROVE  Records'
<1> DEFINE saved == Newest(Acted(co[c].cause))
<1>1. /\ Shape /\ Silent /\ row'.att = row.att /\ co[c].pc \in Triaging
  BY DEF Inv, Silent, Policy, At, Triaging, Recovers
<1>2. \/ co' = [co EXCEPT ![c].pc = "clean", ![c].iv = 0]
      \/ Go(c, "interrupted") \/ Go(c, "call")
      \/ co' = [co EXCEPT ![c].pc = "dispatch", ![c].iv = log[saved].iv]
  BY DEF Policy
<1> HIDE DEF saved
<1>3. CASE co' = [co EXCEPT ![c].pc = "clean", ![c].iv = 0]
  <2>1. co'[c].pc = "clean" /\ \A d \in Co \ {c} : co'[d] = co[d]
    BY <1>1, <1>3 DEF Shape, CoType
  <2>2. QED
    BY <1>1, <2>1, Onward, RecordsStay DEF Triaging, Recovers
<1>4. CASE Go(c, "interrupted") \/ Go(c, "call")
  BY <1>1, <1>4, GoesOn, Places
<1>5. CASE co' = [co EXCEPT ![c].pc = "dispatch", ![c].iv = log[saved].iv]
  <2>1. /\ co'[c].pc = "dispatch" /\ co'[c].live = co[c].live
        /\ \A d \in Co \ {c} : co'[d] = co[d]
    BY <1>1, <1>5 DEF Shape, CoType
  <2>2. QED
    BY <1>1, <2>1, Onward, RecordsStay
<1>6. QED
  BY <1>2, <1>3, <1>4, <1>5

LEMMA InterruptedRecords ==
  ASSUME Inv, Records, NEW c \in Co, Interrupted(c)
  PROVE  Records'
<1>1. Shape /\ co[c].pc \in Triaging
  BY DEF Inv, Interrupted, At, Triaging, Recovers
<1>2. CASE Unfinished # {}
  <2>1. log' = Append(log, Event("gaveup", row.att, co[c].cause, "none", Newest(Unfinished)))
        /\ UNCHANGED <<row, co>>
    BY <1>2 DEF Interrupted
  <2>2. Silent
    BY <2>1, Unremarkable DEF Outcomes
  <2>3. Calm
    BY <2>1 DEF Calm, Fresh, Judges
  <2>4. QED
    BY <2>1, <2>2, <2>3, RecordsStay
<1>3. CASE Unfinished = {}
  <2>1. Transition(c, "needs_human", Len(log), [co EXCEPT ![c].pc = "reap"]) /\ Silent
    BY <1>3 DEF Interrupted, Silent
  <2>2. row'.att = row.att /\ (co' = [co EXCEPT ![c].pc = "reap"] \/ co' = Raised(c))
    BY <1>1, <2>1, StaysAtt
  <2>3. Calm
    BY <1>1, <2>2, OnwardGo, OnwardEnd, Places DEF Triaging, Recovers
  <2>4. QED
    BY <2>1, <2>2, <2>3, RecordsStay
<1>4. QED
  BY <1>2, <1>3

LEMMA CallRecords ==
  ASSUME Inv, Records, NEW c \in Co, Call(c) \/ Answered(c) \/ CloseIntervention(c)
  PROVE  Records'
<1>1. Shape /\ row'.att = row.att /\ co[c].pc \in Triaging
  BY DEF Inv, Call, Answered, CloseIntervention, At, Triaging, Recovers
<1>2. CASE Call(c)
  <2>1. Silent
    BY <1>2, Unremarkable DEF Call, Outcomes
  <2>2. /\ co'[c].pc = "calling" /\ co'[c].live = co[c].live
        /\ \A d \in Co \ {c} : co'[d] = co[d]
    BY <1>1, <1>2 DEF Call, Shape, CoType
  <2>3. QED
    BY <1>1, <2>1, <2>2, Onward, RecordsStay
<1>3. CASE Answered(c)
  <2>1. PICK act : log' = Append(log, Event("acted", row.att, co[c].cause, act, co[c].iv))
    BY <1>3 DEF Answered
  <2>2. Silent
    BY <2>1, Unremarkable DEF Outcomes
  <2>3. QED
    BY <1>1, <1>3, <2>2, GoesOn, Places DEF Answered
<1>4. CASE CloseIntervention(c)
  BY <1>1, <1>4, GoesOn, Places DEF CloseIntervention, Silent
<1>5. QED
  BY <1>2, <1>3, <1>4

LEMMA DispatchRecords ==
  ASSUME Inv, Records, AloneAtBoot, NEW c \in Co, Dispatch(c)
  PROVE  Records'
<1> DEFINE saved == Newest(Acted(co[c].cause))
<1>1. /\ Shape /\ Silent /\ At(c, "dispatch") /\ co[c].pc \in Triaging
  BY DEF Inv, Silent, Dispatch, At, Triaging, Recovers
<1>2. \/ Go(c, "clean") /\ UNCHANGED row
      \/ co[c].live /\ Transition(c, "running", saved, [co EXCEPT ![c].pc = "watch"])
      \/ Transition(c, "needs_human", saved, [co EXCEPT ![c].pc = "reap"])
  <2> DEFINE act == IF Offered(log[saved].act, co[c].live) THEN log[saved].act ELSE "escalate"
  <2>1. act \in {"restart", "escalate", "wait"} /\ (act = "wait" => co[c].live)
    BY DEF Offered, Menu
  <2>2. QED
    BY <2>1 DEF Dispatch
<1> HIDE DEF saved
<1>3. CASE Go(c, "clean") /\ UNCHANGED row
  BY <1>1, <1>3, GoesOn, Places
<1>4. CASE Transition(c, "needs_human", saved, [co EXCEPT ![c].pc = "reap"])
  <2>1. row'.att = row.att /\ (co' = [co EXCEPT ![c].pc = "reap"] \/ co' = Raised(c))
    BY <1>1, <1>4, StaysAtt
  <2>2. Calm
    BY <1>1, <2>1, OnwardGo, OnwardEnd, Places DEF Triaging, Recovers
  <2>3. QED
    BY <1>1, <2>1, <2>2, RecordsStay
<1>5. CASE co[c].live /\ Transition(c, "running", saved, [co EXCEPT ![c].pc = "watch"])
  <2>1. row'.att = row.att /\ (co' = [co EXCEPT ![c].pc = "watch"] \/ co' = Raised(c))
    BY <1>1, <1>5, StaysAtt
  <2>2. c = "watch"
    BY <1>5 DEF Inv, OneDriver, Co
  <2>3. CASE co' = [co EXCEPT ![c].pc = "watch"]
    <3>1. co'["watch"].pc = "watch" /\ co'["main"] = co["main"]
      BY <1>1, <2>2, <2>3, Goes, Places DEF Co
    <3>2. Fresh
      BY <1>1, <1>5, <2>2 DEF Fresh
    <3>3. Calm
      BY <3>1, <3>2 DEF Calm, Judges, Co
    <3>4. QED
      BY <1>1, <2>1, <3>3, RecordsStay
  <2>4. CASE co' = Raised(c)
    BY <1>1, <2>1, <2>4, OnwardEnd, RecordsStay
  <2>5. QED
    BY <2>1, <2>3, <2>4
<1>6. QED
  BY <1>2, <1>3, <1>4, <1>5

LEMMA CleanRecords ==
  ASSUME Inv, Records, NEW c \in Co, Clean(c) \/ Reap(c)
  PROVE  Records'
<1>1. Shape /\ row'.att = row.att /\ Silent
  BY DEF Inv, Clean, Reap, Silent
<1>2. CASE Clean(c)
  BY <1>1, <1>2, GoesOn, Places DEF Clean, Triaging, Recovers
<1>3. CASE Reap(c)
  BY <1>1, <1>3, OnwardEnd, RecordsStay DEF Reap
<1>4. QED
  BY <1>2, <1>3

LEMMA LaunchRecords ==
  ASSUME Inv, Records, NEW c \in Co,
         Create(c) \/ Target(c) \/ Lease(c) \/ Spawn(c) \/ Use(c)
  PROVE  Records'
<1>1. Shape /\ row'.att = row.att
  BY DEF Inv, Create, Target, Lease, Spawn, Use
<1>2. CASE Create(c)
  <2> DEFINE child == Newest(Created(co[c].iv))
  <2>1. \/ co' = [co EXCEPT ![c].pc = "lease", ![c].n = child]
        \/ co' = [co EXCEPT ![c].pc = "lease", ![c].n = LatestAttempt + 1]
        \/ co' = [co EXCEPT ![c].pc = "target", ![c].n = LatestAttempt + 1]
    BY <1>2 DEF Create
  <2> HIDE DEF child
  <2>2. co'[c].pc \in {"lease", "target"} /\ \A d \in Co \ {c} : co'[d] = co[d]
    BY <1>1, <2>1 DEF Shape, CoType
  <2>3. Silent
    BY <1>2 DEF Create, Silent
  <2>4. QED
    BY <1>1, <2>2, <2>3, Onward, RecordsStay DEF Triaging, Recovers
<1>3. CASE Target(c)
  BY <1>1, <1>3, GoesOn, Places DEF Target, Silent, Triaging, Recovers
<1>4. CASE Lease(c)
  <2>1. Silent /\ (co' = Raised(c) \/ co' = [co EXCEPT ![c].pc = "spawn"])
    BY <1>4 DEF Lease, Silent, Go
  <2>2. Calm
    BY <1>1, <2>1, OnwardGo, OnwardEnd, Places DEF Triaging, Recovers
  <2>3. QED
    BY <1>1, <2>1, <2>2, RecordsStay
<1>5. CASE Spawn(c)
  BY <1>1, <1>5, GoesOn, Places DEF Spawn, Silent, Triaging, Recovers
<1>6. CASE Use(c)
  <2>1. Silent
    BY <1>6, Unremarkable DEF Use, Outcomes
  <2>2. QED
    BY <1>1, <1>6, <2>1, GoesOn, Places DEF Use, Triaging, Recovers
<1>7. QED
  BY <1>2, <1>3, <1>4, <1>5, <1>6

LEMMA RunRecords ==
  ASSUME Inv, Records, AloneAtBoot, NEW c \in Co, Run(c)
  PROVE  Records'
<1>1. Shape /\ log' = log /\ Silent /\ At(c, "run")
  BY DEF Inv, Run, Silent
<1>2. CASE co' = Raised(c) /\ UNCHANGED row
  BY <1>1, <1>2, OnwardEnd, RecordsStay
<1>3. CASE row'.att = co[c].n /\ co' = [Back(c) EXCEPT !.watch = [Idle EXCEPT !.pc = "watch", !.n = co[c].n]]
  <2>1. co[c].n \in Nat /\ co[c].n > row.att /\ row.att \in Nat
    <3>1. co[c].n \in Made /\ co[c].n > row.att
      BY <1>1, Launch DEF At, Launching
    <3>2. QED
      BY <1>1, <3>1, RestartAssumption DEF Made, Attempt, Shape, RowType
  <2>2. \A i \in DOMAIN log : log[i].type \in Results => log[i].att <= row.att /\ log[i].att \in Nat
    BY <1>1, Entries, RestartAssumption DEF Records, EventType, Attempt
  <2>3. Positions(Results, row.att)' = {}
    BY <1>1, <1>3, <2>1, <2>2 DEF Positions
  <2>4. \A i \in DOMAIN log : log[i].type \in Results => log[i].att <= row'.att
    BY <1>3, <2>1, <2>2
  <2>5. co'["main"].pc \in {"boot2", "boot3", "loop", "ended"} /\ co'["watch"].pc = "watch"
    <3>1. Back(c)["main"].pc \in {"boot2", "boot3", "loop", "ended"}
      BY <1>1, Alone, Places DEF Back, Shape, CoType, Co
    <3>2. Back(c) \in [Co -> CoType] /\ Idle \in CoType
      BY <1>1, BackShape, Places DEF Idle, CoType
    <3>3. QED
      BY <1>3, <3>1, <3>2 DEF Idle, Co
  <2>6. \A d \in Co : ~Judges(d)'
    BY <2>5 DEF Judges, Co
  <2>7. OneVerdict' /\ ClaimSurvives'
    BY <1>1 DEF Records, OneVerdict, ClaimSurvives
  <2>8. QED
    BY <1>1, <2>3, <2>4, <2>5, <2>6, <2>7 DEF Records
<1>4. QED
  BY <1>2, <1>3 DEF Run

(* A verdict about the attempt, the first. *)
LEMMA JudgedRecords ==
  ASSUME Inv, Records, row'.att = row.att, NEW type, type \in Verdict,
         NEW cause, NEW act, NEW iv,
         log' = Append(log, Event(type, row.att, cause, act, iv)),
         Positions(Verdict, row.att) = {},
         ~Fresh', co'["main"].pc # "exited", \A d \in Co : ~Judges(d)'
  PROVE  Records'
<1>1. PICK e : log' = Append(log, e) /\ e.type = type /\ e.att = row.att
  BY DEF Event
<1>2. /\ DOMAIN log' = DOMAIN log \cup {Len(log) + 1} /\ log'[Len(log) + 1] = e
      /\ \A i \in DOMAIN log : log'[i] = log[i] /\ i < Len(log) + 1 /\ i \in Nat
      /\ Len(log) \in Nat
  BY <1>1 DEF Inv, Shape
<1>3. row.att \in Nat
  BY RestartAssumption DEF Inv, Shape, RowType, Attempt
<1>4. \A i \in DOMAIN log' : log'[i].type \in Results => log'[i].att <= row'.att
  BY <1>1, <1>2, <1>3 DEF Records
<1>5. \A i \in DOMAIN log : log[i].type \in Verdict => log[i].att # row.att
  BY DEF Positions
<1>6. OneVerdict'
  BY <1>1, <1>2, <1>5 DEF Records, OneVerdict
<1>7. ClaimSurvives'
  <2>1. \A i \in DOMAIN log' : log'[i].type \in {"done", "exit", "stall"} => i \in DOMAIN log
    BY <1>1, <1>2 DEF Verdict
  <2>2. QED
    BY <1>2, <2>1 DEF Records, ClaimSurvives
<1>8. QED
  BY <1>4, <1>6, <1>7 DEF Records

LEMMA VerifyRecords ==
  ASSUME Inv, Records, AloneAtBoot, NEW c \in Co, Verify(c)
  PROVE  Records'
<1>1. Shape /\ At(c, "verify") /\ row'.att = row.att
  BY DEF Inv, Verify
<1>2. PICK verdict \in {"passed", "failed"} :
        /\ log' = Append(log, Event(verdict, row.att, 0, "none", 0))
        /\ IF verdict = "failed" THEN Triage(c, Len(log'), FALSE, co[c].boot)
           ELSE co' = [co EXCEPT ![c].pc = "verified", ![c].cause = Len(log')]
  BY DEF Verify
<1>3. /\ co'[c].pc \in {"triage", "verified"} /\ (co'[c].pc = "triage" => co'[c].live = FALSE)
      /\ \A d \in Co \ {c} : co'[d] = co[d]
  BY <1>1, <1>2 DEF Triage, Shape, CoType
<1>4. /\ c = "main" => co["watch"].pc = "off"
      /\ c = "watch" => co["main"].pc \in {"loop", "ended"}
  BY <1>1, Alone, Places
<1>5. ~Fresh' /\ co'["main"].pc # "exited" /\ \A d \in Co : ~Judges(d)'
  BY <1>3, <1>4 DEF Fresh, Judges, Co, Triaging, Recovers
<1>6. Positions(Verdict, row.att) = {}
  BY <1>1 DEF Records, Judges, At
<1>7. QED
  BY <1>1, <1>2, <1>5, <1>6, JudgedRecords DEF Verdict

LEMMA DeliveryRecords ==
  ASSUME Inv, Records, NEW c \in Co, Verified(c) \/ Deliver(c) \/ Ship(c) \/ Delivered(c)
  PROVE  Records'
<1>1. Shape
  BY DEF Inv
<1>2. CASE Verified(c)
  <2>1. Silent /\ row'.att = row.att /\ (co' = [co EXCEPT ![c].pc = "deliver"] \/ co' = Raised(c))
    BY <1>1, <1>2, StaysAtt DEF Verified, Silent
  <2>2. Calm
    BY <1>1, <2>1, OnwardGo, OnwardEnd, Places DEF Triaging, Recovers
  <2>3. QED
    BY <2>1, <2>2, RecordsStay
<1>3. CASE Deliver(c)
  <2>1. row'.att = row.att
    BY <1>3 DEF Deliver
  <2>2. CASE Go(c, "ship") /\ UNCHANGED log
    BY <1>1, <2>1, <2>2, GoesOn, Places DEF Silent, Triaging, Recovers
  <2>3. CASE /\ log' = Append(log, Event("undelivered", row.att, 0, "none", 0))
             /\ Triage(c, Len(log'), FALSE, co[c].boot)
    <3>1. Silent
      BY <2>3, Unremarkable DEF Outcomes
    <3>2. co'[c].pc = "triage" /\ co'[c].live = FALSE /\ \A d \in Co \ {c} : co'[d] = co[d]
      BY <1>1, <2>3 DEF Triage, Shape, CoType
    <3>3. QED
      BY <1>1, <2>1, <3>1, <3>2, Onward, RecordsStay
  <2>4. QED
    BY <1>3, <2>2, <2>3 DEF Deliver
<1>4. CASE Ship(c)
  <2>1. Silent /\ row'.att = row.att
    BY <1>4, Unremarkable DEF Ship, Outcomes
  <2>2. co'[c].pc = "delivered" /\ \A d \in Co \ {c} : co'[d] = co[d]
    BY <1>1, <1>4 DEF Ship, Shape, CoType
  <2>3. QED
    BY <1>1, <2>1, <2>2, Onward, RecordsStay DEF Triaging, Recovers
<1>5. CASE Delivered(c)
  <2>1. Silent /\ row'.att = row.att /\ (co' = Back(c) \/ co' = Raised(c))
    BY <1>1, <1>5, StaysAtt DEF Delivered, Silent
  <2>2. QED
    BY <1>1, <2>1, OnwardEnd, RecordsStay
<1>6. QED
  BY <1>2, <1>3, <1>4, <1>5

LEMMA WatchRecords ==
  ASSUME Inv, Records, AloneAtBoot, Watch
  PROVE  Records'
<1>1. Shape /\ row.att \in Nat
  BY RestartAssumption DEF Inv, Shape, RowType, Attempt
<1>2. ASSUME NEW p \in {"watch", "claim", "captured"}, At("watch", p)
      PROVE  /\ co["watch"].n = row.att /\ co["watch"].pc = p
             /\ co["main"].pc \in {"loop", "ended"}
  BY <1>2, Alone, Places DEF Inv, WatchRelies, At, Launching, Co
<1>3. CASE ReadDone
  <2>1. At("watch", "watch") /\ UNCHANGED row
    BY <1>3 DEF ReadDone
  <2>2. Positions(Results, row.att) = {}
    BY <2>1 DEF Records, Fresh, At
  <2>3. PICK e : log' = Append(log, e) /\ e.type = "done" /\ e.att = row.att
    BY <1>2, <1>3, <2>1 DEF ReadDone, Event
  <2>4. /\ DOMAIN log' = DOMAIN log \cup {Len(log) + 1} /\ log'[Len(log) + 1] = e
        /\ \A i \in DOMAIN log : log'[i] = log[i] /\ i < Len(log) + 1 /\ i \in Nat
        /\ Len(log) \in Nat
    BY <1>1, <2>3 DEF Shape
  <2>5. \A i \in DOMAIN log' : log'[i].type \in {"passed", "failed", "exit", "stall"} => i \in DOMAIN log
    BY <2>3, <2>4
  <2>6. \A i \in DOMAIN log' : log'[i].type \in Results => log'[i].att <= row'.att
    BY <1>1, <2>1, <2>3, <2>4 DEF Records
  <2>7. Positions(Verdict, row.att)' = {}
    BY <2>1, <2>2, <2>4, <2>5 DEF Positions, Verdict, Results
  <2>8. OneVerdict'
    BY <2>4, <2>5 DEF Records, OneVerdict, Verdict
  <2>9. ClaimSurvives'
    <3>1. \A i \in DOMAIN log' : i \notin DOMAIN log => \A j \in DOMAIN log : ~(i < j)
      BY <2>4
    <3>2. QED
      BY <2>4, <2>5, <3>1 DEF Records, ClaimSurvives
  <2>10. co'["watch"].pc = "claim" /\ co'["main"] = co["main"]
    BY <1>1, <1>3 DEF ReadDone, Shape, CoType, Co
  <2>11. ~Fresh' /\ co'["main"].pc # "exited"
    BY <1>2, <2>1, <2>10 DEF Fresh, Triaging, Recovers
  <2>12. QED
    BY <2>6, <2>7, <2>8, <2>9, <2>11 DEF Records
<1>4. CASE Capture \/ Claim
  <2>1. Silent /\ row'.att = row.att
    BY <1>1, <1>4 DEF Capture, Claim, Silent, Shape, RowType
  <2>2. PICK p \in {"claim", "captured"} : At("watch", p)
    BY <1>4 DEF Capture, Claim
  <2>3. CASE co' = Raised("watch")
    BY <1>1, <2>1, <2>3, OnwardEnd, RecordsStay DEF Co
  <2>4. CASE co' # Raised("watch")
    <3>1. PICK q \in {"captured", "verify"} : co' = [co EXCEPT !["watch"].pc = q]
      BY <1>4, <2>4 DEF Capture, Claim, Go
    <3>2. co'["watch"].pc = q /\ co'["main"] = co["main"]
      BY <1>1, <3>1, Goes, Places DEF Co
    <3>3. Calm
      BY <1>2, <2>2, <3>2 DEF Calm, Fresh, Judges, Co, Triaging, Recovers
    <3>4. QED
      BY <2>1, <3>3, RecordsStay
  <2>5. QED
    BY <2>3, <2>4
<1>5. CASE ReadExit \/ Stall
  <2>1. At("watch", "watch") /\ UNCHANGED row
    BY <1>5 DEF ReadExit, Stall
  <2>2. Positions({"done"}, row.att) = {} /\ Fresh
    BY <2>1 DEF Records, Fresh, At, Positions, Results
  <2>3. PICK live \in BOOLEAN : Triage("watch", Len(log'), live, 0)
    BY <1>5 DEF ReadExit, Stall
  <2>4. co'["watch"].pc = "triage" /\ co'["main"] = co["main"]
    BY <1>1, <2>3 DEF Triage, Shape, CoType, Co
  <2>5. Calm
    BY <2>2, <2>4 DEF Calm, Judges, Co
  <2>6. CASE ReadExit
    <3>1. PICK how : log' = Append(log, Event("exit", row.att, 0, how, 0))
      BY <1>2, <2>1, <2>6 DEF ReadExit
    <3>2. QED
      BY <2>1, <2>2, <2>5, <3>1, UnclaimedRecords
  <2>7. CASE Stall
    <3>1. log' = Append(log, Event("stall", row.att, 0, "none", 0))
      BY <1>2, <2>1, <2>7 DEF Stall
    <3>2. QED
      BY <2>1, <2>2, <2>5, <3>1, UnclaimedRecords
  <2>8. QED
    BY <1>5, <2>6, <2>7
<1>6. QED
  BY <1>3, <1>4, <1>5 DEF Watch

LEMMA StepRecords ==
  ASSUME Inv, Records, AloneAtBoot, [Next]_vars
  PROVE  Records'
<1>1. CASE Startup
  BY <1>1, StartRecords, FenceRecords, ReconcileExitRecords, ResumeRecords,
     ResumeVerifyingRecords DEF Startup
<1>2. CASE Watch
  BY <1>2, WatchRecords
<1>3. CASE Crash
  <2>1. Down["main"].pc = "down" /\ Down["watch"].pc = "off"
    BY DEF Down, Idle, Co
  <2>2. Calm
    BY <1>3, <2>1 DEF Crash, Calm, Fresh, Judges, Co, Triaging, Recovers
  <2>3. QED
    BY <1>3, <2>2, RecordsStay DEF Crash, Silent
<1>4. ASSUME NEW c \in Co, Drive(c) PROVE Records'
  BY <1>4, EnterTriageRecords, PolicyRecords, InterruptedRecords, CallRecords,
     DispatchRecords, CleanRecords, LaunchRecords, RunRecords, VerifyRecords,
     DeliveryRecords DEF Drive
<1>5. CASE UNCHANGED <<row, log, co>>
  BY <1>5, RecordsStay DEF Calm, Silent, Fresh, Judges
<1>6. ASSUME NEW n \in Attempt, WorkerDies(n) \/ LeaseLapses(n) PROVE Records'
  BY <1>5, <1>6 DEF WorkerDies, LeaseLapses
<1>7. CASE UNCHANGED vars
  BY <1>5, <1>7 DEF vars
<1>8. QED
  BY <1>1, <1>2, <1>3, <1>4, <1>6, <1>7 DEF Next

LEMMA InitRecords == Init => Records
<1> SUFFICES ASSUME Init PROVE Records
  OBVIOUS
<1>1. log = <<>> /\ co["main"].pc = "down" /\ co["watch"].pc = "off"
  BY DEF Init, Down, Idle, Co
<1>2. QED
  BY <1>1 DEF Records, OneVerdict, ClaimSurvives, Fresh, Judges, Co, Triaging, Recovers

LEMMA AtMostOne ==
  ASSUME Shape, OneVerdict
  PROVE  VerdictOnce
<1> SUFFICES ASSUME NEW n \in Attempt PROVE Cardinality(Positions({"passed", "failed"}, n)) <= 1
  BY DEF VerdictOnce
<1> DEFINE S == Positions({"passed", "failed"}, n)
<1>1. \A i, j \in S : i = j
  BY DEF OneVerdict, Positions, Verdict
<1>2. CASE S = {}
  BY <1>2, FS_EmptySet
<1>3. CASE S # {}
  <2>1. PICK i : S = {i}
    BY <1>1, <1>3
  <2>2. QED
    BY <2>1, FS_Singleton
<1>4. QED
  BY <1>2, <1>3

-----------------------------------------------------------------------------

\* For any retry budget and any number of kills, an attempt has one verdict: the
\* checkpoint of run_until_settled uses the verdict on record, verifies again
\* only when there is none, and no watcher and checkpoint judge the same attempt.
THEOREM RestartVerdictOnce == ASSUME AloneAtBoot PROVE Spec => []VerdictOnce
<1>1. Init => Inv /\ Records
  BY InitInv, InitRecords
<1>2. Inv /\ Records /\ [Next]_vars => Inv' /\ Records'
  BY StepInv, StepRecords
<1>3. Inv /\ Records => VerdictOnce
  BY AtMostOne DEF Inv, Records
<1>4. QED
  BY <1>1, <1>2, <1>3, PTL DEF Spec

\* For any retry budget and any number of kills, the claim of a worker that is on
\* record is not followed by the exit or the stall of the same attempt: neither
\* reconcile() nor a watcher declares dead what has already reported done.
THEOREM RestartClaimSurvives == ASSUME AloneAtBoot PROVE Spec => []ClaimSurvives
<1>1. Init => Inv /\ Records
  BY InitInv, InitRecords
<1>2. Inv /\ Records /\ [Next]_vars => Inv' /\ Records'
  BY StepInv, StepRecords
<1>3. Records => ClaimSurvives
  BY DEF Records
<1>4. QED
  BY <1>1, <1>2, <1>3, PTL DEF Spec

-----------------------------------------------------------------------------
(* The workers that were spawned, and what accounts for each of them. *)

Spawns == {i \in DOMAIN log : log[i].type = "spawned"}

(* A coroutine has spawned a worker and not yet written the row. *)
InDoubt == IF \E c \in Co : co[c].pc = "run" THEN 1 ELSE 0

First == IF row.state = "queued" THEN 0 ELSE 1

Budget ==
  /\ Cardinality(Spawns) <= First + row.retries + crashes + InDoubt
  /\ row.retries <= MaxRetries

LEMMA SpawnsFinite ==
  ASSUME Shape
  PROVE  IsFiniteSet(Spawns) /\ Cardinality(Spawns) \in Nat
<1>1. Len(log) \in Nat /\ DOMAIN log = 1..Len(log)
  BY LogShape
<1>2. IsFiniteSet(DOMAIN log)
  BY <1>1, FS_Interval
<1>3. IsFiniteSet(Spawns)
  BY <1>2, FS_Subset DEF Spawns
<1>4. QED
  BY <1>3, FS_CardinalityType

(* The step pays for nothing and spawns nothing. *)
Spares ==
  /\ row'.retries = row.retries /\ crashes' = crashes
  /\ row.state # "queued" => row'.state # "queued"
  /\ \/ log' = log
     \/ \E e : log' = Append(log, e) /\ e.type # "spawned"

LEMMA SparesKept ==
  ASSUME Shape, Spares
  PROVE  Spawns' = Spawns
<1>1. CASE log' = log
  BY <1>1 DEF Spawns
<1>2. CASE log' # log
  <2>1. PICK e : log' = Append(log, e) /\ e.type # "spawned"
    BY <1>2 DEF Spares
  <2>2. /\ DOMAIN log' = DOMAIN log \cup {Len(log) + 1} /\ log'[Len(log) + 1] = e
        /\ \A i \in DOMAIN log : log'[i] = log[i]
    BY <2>1 DEF Shape
  <2>3. QED
    BY <2>1, <2>2 DEF Spawns
<1>3. QED
  BY <1>1, <1>2

LEMMA BudgetStays ==
  ASSUME Inv, Budget, Spares,
         \/ co' = co
         \/ \E c \in Co, p \in PC : p # "run" /\ At(c, p)
  PROVE  Budget'
<1>1. /\ Shape /\ row.retries \in Nat /\ crashes \in Nat /\ MaxRetries \in Nat
      /\ Cardinality(Spawns) \in Nat
  BY SpawnsFinite, RestartAssumption DEF Inv, Shape, RowType
<1>2. InDoubt' = InDoubt \/ InDoubt = 0
  BY DEF InDoubt, At, Awaits, Co
<1>3. InDoubt \in {0, 1} /\ InDoubt' \in {0, 1} /\ First \in {0, 1} /\ First' \in {0, 1}
  BY DEF InDoubt, First
<1>4. First <= First'
  BY DEF First, Spares
<1>5. First + row.retries + crashes + InDoubt
      <= First' + row'.retries + crashes' + InDoubt'
  BY <1>1, <1>2, <1>3, <1>4 DEF Spares
<1>6. First' + row'.retries + crashes' + InDoubt' \in Nat
  BY <1>1, <1>3 DEF Spares
<1>7. Cardinality(Spawns) <= First + row.retries + crashes + InDoubt
  BY DEF Budget
<1>8. First + row.retries + crashes + InDoubt \in Nat
  BY <1>1, <1>3
<1>9. Cardinality(Spawns) <= First' + row'.retries + crashes' + InDoubt'
  BY <1>1, <1>5, <1>6, <1>7, <1>8
<1>10. Spawns' = Spawns /\ row'.retries <= MaxRetries
  BY <1>1, SparesKept DEF Budget, Spares
<1>11. QED
  BY <1>9, <1>10 DEF Budget

LEMMA TransitionSpares ==
  ASSUME Shape, NEW c \in Co, NEW to, to # "queued", NEW cause, NEW next,
         Transition(c, to, cause, next)
  PROVE  row'.retries = row.retries /\ (row.state # "queued" => row'.state # "queued")
BY MovedRow DEF Transition

LEMMA EventSpares ==
  ASSUME NEW type, type # "spawned", NEW att, NEW cause, NEW act, NEW iv,
         log' = Append(log, Event(type, att, cause, act, iv))
  PROVE  \E e : log' = Append(log, e) /\ e.type # "spawned"
BY DEF Event

LEMMA StartupSpares ==
  ASSUME Shape, Startup
  PROVE  Spares
<1>1. "main" \in Co
  BY DEF Co
<1>2. CASE Start \/ Fence \/ ResumeTriage \/ Loop
  BY <1>2 DEF Start, Fence, ResumeTriage, Loop, Spares
<1>3. CASE ReconcileClaim
  BY <1>3 DEF ReconcileClaim, Spares, Shape, RowType
<1>4. CASE ReconcileExit
  BY <1>4, EventSpares DEF ReconcileExit, Spares
<1>5. CASE ReconcileMove
  BY <1>1, <1>5, TransitionSpares DEF ReconcileMove, Spares
<1>6. CASE ResumeVerifying
  <2>1. UNCHANGED <<log, crashes>>
    BY <1>6 DEF ResumeVerifying
  <2>2. UNCHANGED row \/ \E cause, next : Transition("main", "delivering", cause, next)
    BY <1>6 DEF ResumeVerifying
  <2>3. QED
    BY <1>1, <2>1, <2>2, TransitionSpares DEF Spares
<1>7. CASE ResumeDelivering
  <2>1. UNCHANGED <<log, crashes>>
    BY <1>7 DEF ResumeDelivering
  <2>2. UNCHANGED row \/ \E cause, next : Transition("main", "delivered", cause, next)
    BY <1>7 DEF ResumeDelivering
  <2>3. QED
    BY <1>1, <2>1, <2>2, TransitionSpares DEF Spares
<1>8. QED
  BY <1>2, <1>3, <1>4, <1>5, <1>6, <1>7 DEF Startup

LEMMA TriageSpares ==
  ASSUME Shape, NEW c \in Co,
         \/ EnterTriage(c) \/ Policy(c) \/ Interrupted(c) \/ Call(c) \/ Answered(c)
         \/ CloseIntervention(c) \/ Dispatch(c) \/ Clean(c) \/ Reap(c)
  PROVE  Spares
<1>1. CASE EnterTriage(c)
  <2>1. UNCHANGED <<log, crashes>>
    BY <1>1 DEF EnterTriage
  <2>2. UNCHANGED row \/ \E cause, next : Transition(c, "triage", cause, next)
    BY <1>1 DEF EnterTriage
  <2>3. QED
    BY <2>1, <2>2, TransitionSpares DEF Spares
<1>2. CASE Policy(c) \/ CloseIntervention(c) \/ Clean(c) \/ Reap(c)
  BY <1>2 DEF Policy, CloseIntervention, Clean, Reap, Spares
<1>3. CASE Interrupted(c)
  <2>1. CASE Unfinished # {}
    <3>1. log' = Append(log, Event("gaveup", row.att, co[c].cause, "none", Newest(Unfinished)))
          /\ UNCHANGED <<row, crashes>>
      BY <1>3, <2>1 DEF Interrupted
    <3>2. QED
      BY <3>1, EventSpares DEF Spares
  <2>2. CASE Unfinished = {}
    <3>1. UNCHANGED <<log, crashes>>
          /\ Transition(c, "needs_human", Len(log), [co EXCEPT ![c].pc = "reap"])
      BY <1>3, <2>2 DEF Interrupted
    <3>2. QED
      BY <3>1, TransitionSpares DEF Spares
  <2>3. QED
    BY <2>1, <2>2
<1>4. CASE Call(c)
  BY <1>4, EventSpares DEF Call, Spares
<1>5. CASE Answered(c)
  <2>1. PICK act : log' = Append(log, Event("acted", row.att, co[c].cause, act, co[c].iv))
    BY <1>5 DEF Answered
  <2>2. QED
    BY <1>5, <2>1, EventSpares DEF Answered, Spares
<1>6. CASE Dispatch(c)
  <2> DEFINE saved == Newest(Acted(co[c].cause))
             act == IF Offered(log[saved].act, co[c].live) THEN log[saved].act ELSE "escalate"
  <2>1. UNCHANGED <<log, crashes>>
    BY <1>6 DEF Dispatch
  <2>2. act \in {"restart", "escalate", "wait"}
    BY DEF Offered, Menu
  <2>3. \/ UNCHANGED row
        \/ Transition(c, "running", saved, [co EXCEPT ![c].pc = "watch"])
        \/ Transition(c, "needs_human", saved, [co EXCEPT ![c].pc = "reap"])
    BY <1>6, <2>2 DEF Dispatch
  <2> HIDE DEF saved, act
  <2>4. QED
    BY <2>1, <2>3, TransitionSpares DEF Spares
<1>7. QED
  BY <1>1, <1>2, <1>3, <1>4, <1>5, <1>6

LEMMA OthersSpare ==
  ASSUME Shape, NEW c \in Co,
         \/ Create(c) \/ Target(c) \/ Lease(c) \/ Spawn(c)
         \/ Verify(c) \/ Verified(c) \/ Deliver(c) \/ Ship(c) \/ Delivered(c)
  PROVE  Spares
<1>1. CASE Create(c) \/ Target(c) \/ Lease(c) \/ Spawn(c)
  BY <1>1 DEF Create, Target, Lease, Spawn, Spares
<1>2. CASE Verify(c)
  <2>1. PICK verdict \in {"passed", "failed"} :
          log' = Append(log, Event(verdict, row.att, 0, "none", 0))
    BY <1>2 DEF Verify
  <2>2. QED
    BY <1>2, <2>1, EventSpares DEF Verify, Spares
<1>3. CASE Verified(c) \/ Delivered(c)
  BY <1>3, TransitionSpares DEF Verified, Delivered, Spares
<1>4. CASE Deliver(c)
  <2>1. UNCHANGED <<row, crashes>>
    BY <1>4 DEF Deliver
  <2>2. log' = log \/ log' = Append(log, Event("undelivered", row.att, 0, "none", 0))
    BY <1>4 DEF Deliver
  <2>3. QED
    BY <2>1, <2>2, EventSpares DEF Spares
<1>5. CASE Ship(c)
  BY <1>5, EventSpares DEF Ship, Spares
<1>6. QED
  BY <1>1, <1>2, <1>3, <1>4, <1>5

LEMMA WatchSpares ==
  ASSUME Shape, Watch
  PROVE  Spares
<1>1. CASE ReadDone \/ Stall
  <2>1. PICK type \in {"done", "stall"} :
          log' = Append(log, Event(type, co["watch"].n, 0, "none", 0))
    BY <1>1 DEF ReadDone, Stall
  <2>2. QED
    BY <1>1, <2>1, EventSpares DEF ReadDone, Stall, Spares
<1>2. CASE Capture \/ Claim
  BY <1>2 DEF Capture, Claim, Spares, Shape, RowType
<1>3. CASE ReadExit
  <2>1. PICK how : log' = Append(log, Event("exit", co["watch"].n, 0, how, 0))
    BY <1>3 DEF ReadExit
  <2>2. QED
    BY <1>3, <2>1, EventSpares DEF ReadExit, Spares
<1>4. QED
  BY <1>1, <1>2, <1>3 DEF Watch

LEMMA UseBudget ==
  ASSUME Inv, Budget, AloneAtBoot, NEW c \in Co, Use(c)
  PROVE  Budget'
<1>1. /\ Shape /\ row.retries \in Nat /\ crashes \in Nat
      /\ IsFiniteSet(Spawns) /\ Cardinality(Spawns) \in Nat
  BY SpawnsFinite DEF Inv, Shape, RowType
<1>2. PICK e : log' = Append(log, e) /\ e.type = "spawned"
  BY DEF Use, Event
<1>3. /\ DOMAIN log' = DOMAIN log \cup {Len(log) + 1} /\ log'[Len(log) + 1] = e
      /\ \A i \in DOMAIN log : log'[i] = log[i]
  BY <1>1, <1>2 DEF Shape
<1>4. Spawns' = Spawns \cup {Len(log) + 1}
  BY <1>2, <1>3 DEF Spawns
<1>5. Cardinality(Spawns \cup {Len(log) + 1}) <= Cardinality(Spawns) + 1
  <2>1. \/ Cardinality(Spawns \cup {Len(log) + 1}) = Cardinality(Spawns)
        \/ Cardinality(Spawns \cup {Len(log) + 1}) = Cardinality(Spawns) + 1
    BY <1>1, FS_AddElement, Zenon
  <2> HIDE DEF Spawns
  <2>2. QED
    BY <1>1, <2>1
<1>6. Cardinality(Spawns \cup {Len(log) + 1}) \in Nat
  BY <1>1, FS_AddElement, FS_CardinalityType
<1>7. InDoubt = 0 /\ InDoubt' = 1
  <2>1. \A d \in Co : co[d].pc # "run"
    BY DEF Use, At, Awaits
  <2>2. co'[c].pc = "run"
    BY <1>1, Goes, Places DEF Use, Go
  <2>3. QED
    BY <2>1, <2>2 DEF InDoubt
<1>8. First' = First /\ First \in {0, 1} /\ row' = row /\ crashes' = crashes
  BY DEF Use, First
<1>9. Cardinality(Spawns) <= First + row.retries + crashes + 0
  BY <1>7 DEF Budget
<1>10. Cardinality(Spawns \cup {Len(log) + 1}) <= First + row.retries + crashes + 1
  BY <1>1, <1>5, <1>6, <1>8, <1>9
<1>11. row'.retries <= MaxRetries
  BY <1>8 DEF Budget
<1>12. QED
  BY <1>4, <1>7, <1>8, <1>10, <1>11 DEF Budget

LEMMA RunBudget ==
  ASSUME Inv, Budget, AloneAtBoot, NEW c \in Co, Run(c)
  PROVE  Budget'
<1>1. /\ Shape /\ row.retries \in Nat /\ crashes \in Nat /\ MaxRetries \in Nat
      /\ Cardinality(Spawns) \in Nat /\ Spawns' = Spawns /\ crashes' = crashes
  BY SpawnsFinite, RestartAssumption DEF Inv, Shape, RowType, Run, Spawns
<1>2. co[c].pc \in Launching
  BY DEF Run, At, Launching
<1>3. Affordable \/ row.state = "queued"
  BY <1>2, Launch
<1>4. row'.state = "running"
      /\ row'.retries = row.retries + (IF row.state = "triage" THEN 1 ELSE 0)
  BY <1>3 DEF Run, Affordable, Legal, Transitions, TERMINAL
<1>5. First' = 1 /\ InDoubt \in {0, 1} /\ InDoubt' \in {0, 1}
  BY <1>4 DEF First, InDoubt
<1>6. First + row.retries + 1 <= First' + row'.retries
  BY <1>1, <1>3, <1>4, <1>5 DEF First, Affordable
<1>7. row'.retries \in Nat /\ row'.retries <= MaxRetries /\ First \in {0, 1}
  BY <1>1, <1>3, <1>4 DEF First, Affordable, Budget
<1>8. Cardinality(Spawns) <= First + row.retries + crashes + InDoubt
  BY DEF Budget
<1>9. Cardinality(Spawns) <= First' + row'.retries + crashes + InDoubt'
  BY <1>1, <1>5, <1>6, <1>7, <1>8
<1>10. QED
  BY <1>1, <1>7, <1>9 DEF Budget

LEMMA CrashBudget ==
  ASSUME Inv, Budget, Crash
  PROVE  Budget'
<1>1. /\ row.retries \in Nat /\ crashes \in Nat /\ Cardinality(Spawns) \in Nat
      /\ Spawns' = Spawns /\ crashes' = crashes + 1 /\ row' = row
  BY SpawnsFinite DEF Inv, Shape, RowType, Crash, Spawns
<1>2. First' = First /\ First \in {0, 1} /\ InDoubt \in {0, 1} /\ InDoubt' \in {0, 1}
  BY <1>1 DEF First, InDoubt
<1>3. Cardinality(Spawns) <= First + row.retries + crashes + InDoubt
  BY DEF Budget
<1>4. Cardinality(Spawns) <= First' + row'.retries + crashes' + InDoubt'
  BY <1>1, <1>2, <1>3
<1>5. QED
  BY <1>1, <1>4 DEF Budget

(* No other action than Run is taken where a worker was just spawned. *)
LEMMA StepBudget ==
  ASSUME Inv, Budget, AloneAtBoot, [Next]_vars
  PROVE  Budget'
<1>1. Shape
  BY DEF Inv
<1>2. CASE Startup
  <2>1. \E p \in PC : p # "run" /\ At("main", p)
    BY <1>2, Places DEF Startup, Start, Fence, ReconcileClaim, ReconcileExit, ReconcileMove,
       ResumeTriage, ResumeVerifying, ResumeDelivering, Loop
  <2>2. QED
    BY <1>1, <1>2, <2>1, StartupSpares, BudgetStays DEF Co
<1>3. CASE Watch
  <2>1. \E p \in PC : p # "run" /\ At("watch", p)
    BY <1>3, Places DEF Watch, ReadDone, Capture, Claim, ReadExit, Stall
  <2>2. QED
    BY <1>1, <1>3, <2>1, WatchSpares, BudgetStays DEF Co
<1>4. CASE Crash
  BY <1>4, CrashBudget
<1>5. ASSUME NEW c \in Co, Drive(c) PROVE Budget'
  <2>1. CASE \/ EnterTriage(c) \/ Policy(c) \/ Interrupted(c) \/ Call(c) \/ Answered(c)
             \/ CloseIntervention(c) \/ Dispatch(c) \/ Clean(c) \/ Reap(c)
    <3>1. \E p \in PC : p # "run" /\ At(c, p)
      BY <2>1, Places DEF EnterTriage, Policy, Interrupted, Call, Answered,
         CloseIntervention, Dispatch, Clean, Reap
    <3>2. QED
      BY <1>1, <2>1, <3>1, TriageSpares, BudgetStays
  <2>2. CASE \/ Create(c) \/ Target(c) \/ Lease(c) \/ Spawn(c)
             \/ Verify(c) \/ Verified(c) \/ Deliver(c) \/ Ship(c) \/ Delivered(c)
    <3>1. \E p \in PC : p # "run" /\ At(c, p)
      BY <2>2, Places DEF Create, Target, Lease, Spawn, Verify, Verified, Deliver,
         Ship, Delivered
    <3>2. QED
      BY <1>1, <2>2, <3>1, OthersSpare, BudgetStays
  <2>3. QED
    BY <1>5, <2>1, <2>2, UseBudget, RunBudget DEF Drive
<1>6. ASSUME NEW n \in Attempt, WorkerDies(n) \/ LeaseLapses(n) PROVE Budget'
  BY <1>6, BudgetStays DEF WorkerDies, LeaseLapses, Spares
<1>7. CASE UNCHANGED vars
  BY <1>7, BudgetStays DEF vars, Spares
<1>8. QED
  BY <1>2, <1>3, <1>4, <1>5, <1>6, <1>7 DEF Next

LEMMA InitBudget == Init => Budget
<1> SUFFICES ASSUME Init PROVE Budget
  OBVIOUS
<1>1. Spawns = {} /\ row.retries = 0 /\ row.state = "queued" /\ crashes = 0
  BY DEF Init, Spawns
<1>2. First = 0 /\ InDoubt \in {0, 1}
  BY <1>1 DEF First, InDoubt
<1>3. QED
  BY <1>1, <1>2, FS_EmptySet, RestartAssumption DEF Budget

LEMMA BudgetAccounts ==
  ASSUME Inv, Budget
  PROVE  SpawnsAccounted
<1>1. /\ row.retries \in Nat /\ crashes \in Nat /\ Cardinality(Spawns) \in Nat
      /\ MaxRetries \in Nat /\ row.retries <= MaxRetries
  BY SpawnsFinite, RestartAssumption DEF Inv, Shape, RowType, Budget
<1>2. Cardinality(Spawns) <= First + row.retries + crashes + InDoubt
  BY DEF Budget
<1>3. First \in {0, 1}
  BY DEF First
<1>4. First + row.retries + InDoubt <= 1 + MaxRetries
  <2>1. CASE InDoubt = 0
    BY <1>1, <1>3, <2>1
  <2>2. CASE InDoubt # 0
    <3>1. PICK c \in Co : co[c].pc = "run"
      BY <2>2 DEF InDoubt
    <3>2. Affordable \/ row.state = "queued"
      BY <3>1, Launch DEF Launching
    <3>3. InDoubt = 1
      BY <2>2 DEF InDoubt
    <3>4. QED
      BY <1>1, <1>3, <3>2, <3>3 DEF Affordable, First
  <2>3. QED
    BY <2>1, <2>2
<1>5. InDoubt \in {0, 1}
  BY DEF InDoubt
<1>6. Cardinality(Spawns) <= 1 + MaxRetries + crashes
  BY <1>1, <1>2, <1>3, <1>4, <1>5
<1>7. QED
  BY <1>6 DEF SpawnsAccounted, Spawns

-----------------------------------------------------------------------------

\* For any retry budget and any number of kills, every worker beyond the first
\* and the budget of retries stands for a kill of the scheduler: the retry is
\* counted in the commit that writes the row, and only a kill between the spawn
\* and that commit leaves a worker that was not counted.
THEOREM RestartSpawnsAccounted == ASSUME AloneAtBoot PROVE Spec => []SpawnsAccounted
<1>1. Init => Inv /\ Budget
  BY InitInv, InitBudget
<1>2. Inv /\ Budget /\ [Next]_vars => Inv' /\ Budget'
  BY StepInv, StepBudget
<1>3. Inv /\ Budget => SpawnsAccounted
  BY BudgetAccounts
<1>4. QED
  BY <1>1, <1>2, <1>3, PTL DEF Spec

-----------------------------------------------------------------------------
(* The calls of the model, and how each of them ended. *)

CallEvents == {"invoked", "acted", "gaveup"}
CallPlaces == {"call", "calling", "close"}

(* The call that event i stands for is open, answered or closed as interrupted. *)
Settled(i) ==
  \/ ivs[log[i].iv].ended = FALSE
  \/ Acted(log[i].cause) # {}
  \/ \E k \in DOMAIN log : i < k /\ log[k].type = "gaveup" /\ log[k].iv = log[i].iv

(* What coroutine c relies on between the policy and the end of a call. *)
Asks(c) ==
  /\ co[c].pc = "call" =>
       /\ \A v \in DOMAIN ivs : ivs[v].ended = TRUE
       /\ Acted(co[c].cause) = {}
  /\ co[c].pc = "calling" =>
       \A i \in DOMAIN log :
         /\ log[i].type = "acted" => log[i].iv # co[c].iv
         /\ log[i].type = "invoked" /\ log[i].iv = co[c].iv => log[i].cause = co[c].cause
  /\ co[c].pc = "close" =>
       \A i \in DOMAIN log :
         log[i].type = "invoked" /\ log[i].iv = co[c].iv => Acted(log[i].cause) # {}

(* The two parts of OneCallPerCause. *)
OneAnswer ==
  \A i, j \in DOMAIN log :
    i < j /\ log[i].type = "acted" /\ log[j].type = "acted" => log[i].iv # log[j].iv

OneCall ==
  \A i, j \in DOMAIN log :
    i < j /\ log[i].type = "invoked" /\ log[j].type = "invoked" /\ log[i].cause = log[j].cause =>
      \E k \in DOMAIN log :
        i < k /\ k < j /\ log[k].type = "gaveup" /\ log[k].iv = log[i].iv

Calls ==
  /\ \A i \in DOMAIN log : log[i].type = "invoked" => log[i].iv \in DOMAIN ivs /\ Settled(i)
  /\ \A c \in Co : Asks(c)
  /\ OneAnswer /\ OneCall

(* The step is no part of a call. *)
Uncalled ==
  \/ log' = log
  \/ \E e : log' = Append(log, e) /\ e.type \notin CallEvents

(* No coroutine comes to a place between the policy and the end of a call. *)
Apart ==
  \A c \in Co : co'[c].pc \in CallPlaces => co'[c] = co[c]

SameIvs ==
  /\ DOMAIN ivs' = DOMAIN ivs
  /\ \A v \in DOMAIN ivs : ivs'[v].ended = ivs[v].ended

LEMMA CallsStay ==
  ASSUME Inv, Calls, Uncalled, Apart, SameIvs
  PROVE  Calls'
<1>1. /\ DOMAIN log \subseteq DOMAIN log'
      /\ \A i \in DOMAIN log : log'[i] = log[i]
      /\ \A i \in DOMAIN log' : log'[i].type \in CallEvents => i \in DOMAIN log
  BY DEF Inv, Shape, Uncalled
<1>2. OneAnswer'
  BY <1>1 DEF Calls, OneAnswer, CallEvents
<1>3. \A i \in DOMAIN log' : log'[i].type = "invoked" => log'[i].iv \in DOMAIN ivs' /\ Settled(i)'
  <2>1. SUFFICES ASSUME NEW i \in DOMAIN log', log'[i].type = "invoked"
                 PROVE  log'[i].iv \in DOMAIN ivs' /\ Settled(i)'
    OBVIOUS
  <2>2. i \in DOMAIN log /\ log'[i] = log[i]
    BY <1>1, <2>1 DEF CallEvents
  <2>3. log[i].iv \in DOMAIN ivs /\ Settled(i)
    BY <2>1, <2>2 DEF Calls
  <2>4. Acted(log[i].cause)' = Acted(log[i].cause)
    BY <1>1, <2>2 DEF Acted, CallEvents
  <2>5. QED
    BY <1>1, <2>2, <2>3, <2>4 DEF Settled, SameIvs
<1>4. \A c \in Co : Asks(c)'
  <2>1. SUFFICES ASSUME NEW c \in Co, co'[c].pc \in CallPlaces PROVE Asks(c)'
    BY DEF Asks, CallPlaces
  <2>2. co'[c] = co[c] /\ Asks(c)
    BY <2>1 DEF Apart, Calls
  <2>3. Acted(co[c].cause)' = Acted(co[c].cause)
    BY <1>1, <2>2 DEF Acted, CallEvents
  <2>4. \A i \in DOMAIN log : Acted(log[i].cause)' = Acted(log[i].cause)
    BY <1>1 DEF Acted, CallEvents
  <2>5. QED
    BY <1>1, <2>2, <2>3, <2>4 DEF Asks, SameIvs, CallEvents
<1>5. OneCall'
  <2>1. SUFFICES ASSUME NEW i \in DOMAIN log', NEW j \in DOMAIN log', i < j,
                        log'[i].type = "invoked", log'[j].type = "invoked",
                        log'[i].cause = log'[j].cause
                 PROVE  \E k \in DOMAIN log' :
                          /\ i < k /\ k < j
                          /\ log'[k].type = "gaveup" /\ log'[k].iv = log'[i].iv
    BY DEF OneCall
  <2>2. i \in DOMAIN log /\ j \in DOMAIN log
    BY <1>1, <2>1 DEF CallEvents
  <2>3. PICK k \in DOMAIN log :
          i < k /\ k < j /\ log[k].type = "gaveup" /\ log[k].iv = log[i].iv
    BY <1>1, <2>1, <2>2 DEF Calls, OneCall
  <2>4. QED
    BY <1>1, <2>2, <2>3
<1>6. QED
  BY <1>2, <1>3, <1>4, <1>5 DEF Calls

LEMMA CallsSuffice ==
  ASSUME Shape, Calls
  PROVE  OneCallPerCause
<1>1. SUFFICES ASSUME NEW i \in DOMAIN log, NEW j \in DOMAIN log, i < j,
                      log[i].type = log[j].type
               PROVE  /\ log[i].type = "acted" => log[i].iv # log[j].iv
                      /\ log[i].type = "invoked" /\ log[i].cause = log[j].cause =>
                           \E k \in i..j : log[k].type = "gaveup" /\ log[k].iv = log[i].iv
  BY DEF OneCallPerCause
<1>2. log[i].type = "acted" => log[i].iv # log[j].iv
  BY <1>1 DEF Calls, OneAnswer
<1>3. ASSUME log[i].type = "invoked", log[i].cause = log[j].cause
      PROVE  \E k \in i..j : log[k].type = "gaveup" /\ log[k].iv = log[i].iv
  <2>1. log[j].type = "invoked" /\ OneCall
    BY <1>1, <1>3 DEF Calls
  <2>2. PICK k \in DOMAIN log :
          i < k /\ k < j /\ log[k].type = "gaveup" /\ log[k].iv = log[i].iv
    <3>1. ASSUME NEW x \in DOMAIN log, NEW y \in DOMAIN log, x < y,
                 log[x].type = "invoked", log[y].type = "invoked", log[x].cause = log[y].cause
          PROVE  \E k \in DOMAIN log :
                   x < k /\ k < y /\ log[k].type = "gaveup" /\ log[k].iv = log[x].iv
      BY <2>1, <3>1 DEF OneCall
    <3>2. QED
      BY <1>1, <1>3, <2>1, <3>1
  <2>3. k \in i..j
    BY <2>2 DEF Shape
  <2>4. QED
    BY <2>2, <2>3
<1>4. QED
  BY <1>2, <1>3

(* Coroutine c goes elsewhere. *)
LEMMA Elsewhere ==
  ASSUME NEW c \in Co, \A d \in Co \ {c} : co'[d] = co[d], co'[c].pc \notin CallPlaces
  PROVE  Apart
BY DEF Apart

LEMMA ElsewhereGo ==
  ASSUME Shape, NEW c \in Co, NEW p \in PC, co' = [co EXCEPT ![c].pc = p], p \notin CallPlaces
  PROVE  Apart
BY Goes, Elsewhere

LEMMA ElsewhereTriage ==
  ASSUME Shape, NEW c \in Co, NEW cause, NEW live, NEW boot, Triage(c, cause, live, boot)
  PROVE  Apart
<1>1. co'[c].pc = "triage" /\ \A d \in Co \ {c} : co'[d] = co[d]
  BY DEF Triage, Shape, CoType
<1>2. QED
  BY <1>1, Elsewhere DEF CallPlaces

LEMMA ElsewhereEnd ==
  ASSUME Shape, NEW c \in Co, co' = Back(c) \/ co' = Raised(c)
  PROVE  Apart
<1>1. CASE c = "main"
  <2>1. PICK q \in {"boot2", "boot3", "loop", "failed"} : co' = [co EXCEPT !["main"].pc = q]
    BY <1>1 DEF Back, Raised
  <2>2. QED
    BY <1>1, <2>1, ElsewhereGo, Places DEF CallPlaces
<1>2. CASE c = "watch"
  <2>1. co'["watch"].pc = "off" /\ \A d \in Co \ {c} : co'[d] = co[d]
    BY <1>2 DEF Back, Raised, Shape, Idle, Co
  <2>2. QED
    BY <1>2, <2>1, Elsewhere DEF CallPlaces
<1>3. QED
  BY <1>1, <1>2 DEF Co

LEMMA EventUncalled ==
  ASSUME NEW type, type \notin CallEvents, NEW att, NEW cause, NEW act, NEW iv,
         log' = Append(log, Event(type, att, cause, act, iv))
  PROVE  Uncalled
BY DEF Event, Uncalled

LEMMA StartupCalls ==
  ASSUME Inv, Calls, Startup
  PROVE  Calls'
<1>1. Shape /\ "main" \in Co /\ SameIvs
  BY DEF Inv, Co, SameIvs, Startup, Start, Fence, ReconcileClaim, ReconcileExit,
     ReconcileMove, ResumeTriage, ResumeVerifying, ResumeDelivering, Loop
<1>2. Uncalled
  <2>1. CASE ReconcileExit
    BY <2>1, EventUncalled DEF ReconcileExit, CallEvents
  <2>2. CASE ~ReconcileExit
    BY <2>2 DEF Uncalled, Startup, Start, Fence, ReconcileClaim, ReconcileMove,
       ResumeTriage, ResumeVerifying, ResumeDelivering, Loop
  <2>3. QED
    BY <2>1, <2>2
<1>3. Apart
  <2>1. CASE \E q \in StartPlaces : Go("main", q)
    BY <1>1, <2>1, ElsewhereGo, Places DEF Go, StartPlaces, CallPlaces
  <2>2. CASE \E cause, live, boot : Triage("main", cause, live, boot)
    BY <1>1, <2>2, ElsewhereTriage
  <2>3. CASE \E q \in StartPlaces, boot \in Nat : \E to, cause :
               Transition("main", to, cause, [co EXCEPT !["main"].pc = q, !["main"].boot = boot])
    <3>1. PICK q \in StartPlaces, boot \in Nat :
            \E to, cause : Transition("main", to, cause,
                                      [co EXCEPT !["main"].pc = q, !["main"].boot = boot])
      BY <2>3
    <3> DEFINE next == [co EXCEPT !["main"].pc = q, !["main"].boot = boot]
    <3>2. next["main"].pc = q /\ \A d \in Co \ {"main"} : next[d] = co[d]
      BY <1>1 DEF Shape, CoType
    <3>3. co' = next \/ co' = Raised("main")
      BY <3>1 DEF Transition
    <3> HIDE DEF next
    <3>4. q \notin CallPlaces
      BY DEF StartPlaces, CallPlaces
    <3>5. QED
      BY <1>1, <3>2, <3>3, <3>4, Elsewhere, ElsewhereEnd
  <2>4. CASE \E q \in StartPlaces : \E to, cause :
               Transition("main", to, cause, [co EXCEPT !["main"].pc = q])
    <3>1. \E q \in StartPlaces : co' = [co EXCEPT !["main"].pc = q] \/ co' = Raised("main")
      BY <2>4 DEF Transition
    <3>2. QED
      BY <1>1, <3>1, ElsewhereGo, ElsewhereEnd, Places DEF StartPlaces, CallPlaces
  <2>5. CASE \E q \in {"verify", "deliver"}, boot \in Nat :
               co' = [co EXCEPT !["main"].pc = q, !["main"].boot = boot]
    <3>1. co'["main"].pc \in {"verify", "deliver"} /\ \A d \in Co \ {"main"} : co'[d] = co[d]
      BY <1>1, <2>5 DEF Shape, CoType
    <3>2. QED
      BY <1>1, <3>1, Elsewhere DEF CallPlaces
  <2>6. CASE Start \/ Fence \/ ReconcileClaim
    BY <2>1, <2>6 DEF Start, Fence, ReconcileClaim, StartPlaces, Go
  <2>7. CASE ReconcileExit
    <3>1. co'["main"].pc = "orphaned" /\ \A d \in Co \ {"main"} : co'[d] = co[d]
      BY <1>1, <2>7 DEF ReconcileExit, Shape, CoType
    <3>2. QED
      BY <1>1, <3>1, Elsewhere DEF CallPlaces
  <2>8. CASE ReconcileMove
    <3>1. Transition("main", "triage", co["main"].cause, [co EXCEPT !["main"].pc = "boot1"])
      BY <2>8 DEF ReconcileMove
    <3>2. QED
      BY <2>4, <3>1 DEF StartPlaces
  <2>9. CASE ResumeTriage
    BY <2>1, <2>2, <2>9 DEF ResumeTriage, StartPlaces
  <2>10. CASE ResumeVerifying
    <3> DEFINE last == Newest(Verdicts)
    <3>1. \/ Go("main", "boot3")
          \/ co' = [co EXCEPT !["main"].pc = "verify", !["main"].boot = 2]
          \/ Transition("main", "delivering", last,
                        [co EXCEPT !["main"].pc = "redeliver", !["main"].boot = 2])
          \/ Triage("main", last, FALSE, 2)
      BY <2>10 DEF ResumeVerifying
    <3> HIDE DEF last
    <3>2. QED
      BY <2>1, <2>2, <2>3, <2>5, <3>1 DEF StartPlaces
  <2>11. CASE ResumeDelivering
    <3> DEFINE boot == IF co.main.pc = "boot3" THEN 3 ELSE 2
               done == Newest(Facts({"shipped"}))
               failed == Newest(Facts({"undelivered"}))
               next == IF boot = 2 THEN "boot3" ELSE "loop"
    <3>1. boot \in Nat /\ next \in StartPlaces
      BY DEF StartPlaces
    <3>2. \/ Go("main", "loop")
          \/ Transition("main", "delivered", done, [co EXCEPT !["main"].pc = next])
          \/ Triage("main", failed, FALSE, boot)
          \/ co' = [co EXCEPT !["main"].pc = "deliver", !["main"].boot = boot]
      BY <2>11 DEF ResumeDelivering
    <3> HIDE DEF boot, done, failed, next
    <3>3. QED
      BY <2>1, <2>2, <2>4, <2>5, <3>1, <3>2 DEF StartPlaces
  <2>12. CASE Loop
    <3>1. CASE co' = [co EXCEPT !["main"].pc = "create", !["main"].iv = 0, !["main"].boot = 4]
      <4>1. co'["main"].pc = "create" /\ \A d \in Co \ {"main"} : co'[d] = co[d]
        BY <1>1, <3>1 DEF Shape, CoType
      <4>2. QED
        BY <1>1, <4>1, Elsewhere DEF CallPlaces
    <3>2. CASE Go("main", "ended")
      BY <2>1, <3>2 DEF StartPlaces
    <3>3. QED
      BY <2>12, <3>1, <3>2 DEF Loop
  <2>13. QED
    BY <2>6, <2>7, <2>8, <2>9, <2>10, <2>11, <2>12 DEF Startup
<1>4. QED
  BY <1>1, <1>2, <1>3, CallsStay

(* Coroutine c decides to call: no call is open, and its cause has no answer. *)
LEMMA PolicyCalls ==
  ASSUME Inv, Calls, NEW c \in Co, Policy(c)
  PROVE  Calls'
<1> DEFINE saved == Newest(Acted(co[c].cause))
<1>1. /\ Shape /\ Uncalled /\ SameIvs /\ UNCHANGED <<log, ivs>>
  BY DEF Inv, Policy, Uncalled, SameIvs
<1>2. \/ co' = [co EXCEPT ![c].pc = "clean", ![c].iv = 0]
      \/ Go(c, "interrupted")
      \/ co' = [co EXCEPT ![c].pc = "dispatch", ![c].iv = log[saved].iv]
      \/ Unfinished = {} /\ saved = 0 /\ Go(c, "call")
  BY DEF Policy
<1>3. saved = 0 => Acted(co[c].cause) = {}
  <2>1. Acted(co[c].cause) \subseteq DOMAIN log
    BY DEF Acted
  <2>2. Acted(co[c].cause) # {} => saved \in Acted(co[c].cause)
    BY <1>1, <2>1, NewestPosition
  <2>3. \A i \in DOMAIN log : i # 0
    BY <1>1 DEF Shape
  <2>4. QED
    BY <2>1, <2>2, <2>3
<1> HIDE DEF saved
<1>4. CASE \/ co' = [co EXCEPT ![c].pc = "clean", ![c].iv = 0]
           \/ co' = [co EXCEPT ![c].pc = "dispatch", ![c].iv = log[saved].iv]
  <2>1. co'[c].pc \in {"clean", "dispatch"} /\ \A d \in Co \ {c} : co'[d] = co[d]
    BY <1>1, <1>4 DEF Shape, CoType
  <2>2. QED
    BY <1>1, <2>1, Elsewhere, CallsStay DEF CallPlaces
<1>5. CASE Go(c, "interrupted")
  BY <1>1, <1>5, ElsewhereGo, CallsStay, Places DEF CallPlaces, Go
<1>6. CASE Unfinished = {} /\ saved = 0 /\ Go(c, "call")
  <2>1. /\ co'[c].pc = "call" /\ co'[c].cause = co[c].cause
        /\ \A d \in Co \ {c} : co'[d] = co[d]
    BY <1>1, <1>6, Goes, Places DEF Go
  <2>2. \A v \in DOMAIN ivs : ivs[v].ended = TRUE
    BY <1>1, <1>6, Entries DEF Unfinished, IvType
  <2>3. Acted(co[c].cause)' = Acted(co[c].cause) /\ Acted(co[c].cause) = {}
    BY <1>1, <1>3, <1>6, <2>1 DEF Acted
  <2>4. Asks(c)'
    BY <1>1, <2>1, <2>2, <2>3 DEF Asks
  <2>5. \A d \in Co \ {c} : Asks(d)'
    BY <1>1, <2>1 DEF Calls, Asks, Acted
  <2>6. QED
    BY <1>1, <2>4, <2>5 DEF Calls, Settled, OneAnswer, OneCall, Acted
<1>7. QED
  BY <1>2, <1>4, <1>5, <1>6

(* What is known of the log and of the other coroutine when an event of a call is *)
(* appended.                                                                       *)
LEMMA CallLogged ==
  ASSUME Inv, AloneAtBoot, NEW c \in Co, NEW p \in PC, At(c, p),
         p \in {"interrupted", "call", "calling", "close"},
         NEW type, NEW att, NEW cause, NEW act, NEW iv,
         log' = Append(log, Event(type, att, cause, act, iv))
  PROVE  \E e : /\ e.type = type /\ e.cause = cause /\ e.iv = iv
                /\ Len(log) + 1 \in DOMAIN log' /\ log'[Len(log) + 1] = e
                /\ Len(log) + 1 \notin DOMAIN log
                /\ DOMAIN log' = DOMAIN log \cup {Len(log) + 1}
                /\ \A i \in DOMAIN log : log'[i] = log[i] /\ i < Len(log) + 1
<1>1. LET e == Event(type, att, cause, act, iv) IN
      e.type = type /\ e.cause = cause /\ e.iv = iv
  BY DEF Event
<1>2. ASSUME NEW e, log' = Append(log, e)
      PROVE  /\ Len(log) + 1 \in DOMAIN log' /\ log'[Len(log) + 1] = e
             /\ Len(log) + 1 \notin DOMAIN log
             /\ DOMAIN log' = DOMAIN log \cup {Len(log) + 1}
             /\ \A i \in DOMAIN log : log'[i] = log[i] /\ i < Len(log) + 1
  BY <1>2 DEF Inv, Shape
<1>3. QED
  BY <1>1, <1>2

LEMMA OtherIdle ==
  ASSUME Inv, AloneAtBoot, NEW c \in Co, NEW p \in PC, At(c, p),
         p \notin {"off", "boot2", "boot3", "loop", "ended"},
         \A d \in Co \ {c} : co'[d] = co[d]
  PROVE  \A d \in Co \ {c} : Asks(d)'
<1>1. \A d \in Co \ {c} : co'[d].pc \in {"off", "loop", "ended"}
  BY Alone DEF Co
<1>2. QED
  BY <1>1 DEF Asks

LEMMA InterruptedCalls ==
  ASSUME Inv, Calls, AloneAtBoot, NEW c \in Co, Interrupted(c)
  PROVE  Calls'
<1>1. Shape /\ At(c, "interrupted")
  BY DEF Inv, Interrupted
<1>2. CASE Unfinished = {}
  <2>1. UNCHANGED <<log, ivs>>
        /\ Transition(c, "needs_human", Len(log), [co EXCEPT ![c].pc = "reap"])
    BY <1>2 DEF Interrupted
  <2>2. co' = [co EXCEPT ![c].pc = "reap"] \/ co' = Raised(c)
    BY <2>1 DEF Transition
  <2>3. Apart
    BY <1>1, <2>2, ElsewhereGo, ElsewhereEnd, Places DEF CallPlaces
  <2>4. QED
    BY <2>1, <2>3, CallsStay DEF Uncalled, SameIvs
<1>3. CASE Unfinished # {}
  <2> DEFINE v == Newest(Unfinished)
  <2>1. /\ log' = Append(log, Event("gaveup", row.att, co[c].cause, "none", v))
        /\ ivs' = [ivs EXCEPT ![v].ended = TRUE] /\ co' = co
    BY <1>3 DEF Interrupted
  <2> HIDE DEF v
  <2>2. PICK e : /\ e.type = "gaveup" /\ e.iv = v
                 /\ Len(log) + 1 \in DOMAIN log' /\ log'[Len(log) + 1] = e
                 /\ Len(log) + 1 \notin DOMAIN log
                 /\ DOMAIN log' = DOMAIN log \cup {Len(log) + 1}
                 /\ \A i \in DOMAIN log : log'[i] = log[i] /\ i < Len(log) + 1
    BY <1>1, <2>1, CallLogged, Places
  <2>3. DOMAIN ivs' = DOMAIN ivs /\ \A u \in DOMAIN ivs : u # v => ivs'[u] = ivs[u]
    BY <1>1, <2>1 DEF Shape
  <2>4. \A i \in DOMAIN log' : log'[i].type \in {"invoked", "acted"} => i \in DOMAIN log
    BY <2>2
  <2>5. ASSUME NEW i \in DOMAIN log', log'[i].type = "invoked"
        PROVE  log'[i].iv \in DOMAIN ivs' /\ Settled(i)'
    <3>1. i \in DOMAIN log /\ log'[i] = log[i]
      BY <2>2, <2>4, <2>5
    <3>2. log[i].iv \in DOMAIN ivs /\ Settled(i)
      BY <2>5, <3>1 DEF Calls
    <3>3. Acted(log[i].cause)' = Acted(log[i].cause)
      BY <2>2, <2>4, <3>1 DEF Acted
    <3>4. CASE log[i].iv = v
      BY <2>2, <2>3, <3>1, <3>2, <3>4 DEF Settled
    <3>5. CASE log[i].iv # v
      BY <2>2, <2>3, <3>1, <3>2, <3>3, <3>5 DEF Settled
    <3>6. QED
      BY <3>4, <3>5
  <2>6. \A d \in Co : Asks(d)'
    BY <1>1, <2>1, OtherIdle, Places DEF Asks, At
  <2>7. OneAnswer'
    BY <2>2, <2>4 DEF Calls, OneAnswer
  <2>8. OneCall'
    <3>1. SUFFICES ASSUME NEW i \in DOMAIN log', NEW j \in DOMAIN log', i < j,
                          log'[i].type = "invoked", log'[j].type = "invoked",
                          log'[i].cause = log'[j].cause
                   PROVE  \E k \in DOMAIN log' :
                            /\ i < k /\ k < j
                            /\ log'[k].type = "gaveup" /\ log'[k].iv = log'[i].iv
      BY DEF OneCall
    <3>2. i \in DOMAIN log /\ j \in DOMAIN log
      BY <2>4, <3>1
    <3>3. PICK k \in DOMAIN log :
            i < k /\ k < j /\ log[k].type = "gaveup" /\ log[k].iv = log[i].iv
      BY <2>2, <3>1, <3>2 DEF Calls, OneCall
    <3>4. QED
      BY <2>2, <3>2, <3>3
  <2>9. QED
    BY <2>5, <2>6, <2>7, <2>8 DEF Calls
<1>4. QED
  BY <1>2, <1>3

LEMMA CallCalls ==
  ASSUME Inv, Calls, AloneAtBoot, NEW c \in Co, Call(c)
  PROVE  Calls'
<1> DEFINE n == Len(log) + 1
           u == Len(ivs) + 1
<1>1. /\ Shape /\ At(c, "call") /\ co[c].pc = "call"
      /\ log' = Append(log, Event("invoked", row.att, co[c].cause, "none", Len(ivs')))
      /\ co' = [co EXCEPT ![c].pc = "calling", ![c].iv = Len(ivs')]
      /\ ivs' = Append(ivs, [source |-> LatestAttempt, target |-> 0, ended |-> FALSE])
  BY DEF Inv, Call, At
<1>2. PICK new : ivs' = Append(ivs, new) /\ new.ended = FALSE
  BY <1>1
<1>3. /\ DOMAIN ivs' = DOMAIN ivs \cup {u} /\ ivs'[u] = new /\ u \notin DOMAIN ivs
      /\ \A v \in DOMAIN ivs : ivs'[v] = ivs[v]
      /\ Len(ivs') = u
  BY <1>1, <1>2 DEF Shape
<1>4. PICK e : /\ e.type = "invoked" /\ e.cause = co[c].cause /\ e.iv = u
               /\ n \in DOMAIN log' /\ log'[n] = e /\ n \notin DOMAIN log
               /\ DOMAIN log' = DOMAIN log \cup {n}
               /\ \A i \in DOMAIN log : log'[i] = log[i] /\ i < n
  BY <1>1, <1>3, CallLogged, Places
<1>5. co'[c].pc = "calling" /\ co'[c].iv = u /\ co'[c].cause = co[c].cause
      /\ \A d \in Co \ {c} : co'[d] = co[d]
  BY <1>1, <1>3 DEF Shape, CoType
<1>6. /\ \A v \in DOMAIN ivs : ivs[v].ended = TRUE
      /\ Acted(co[c].cause) = {}
  BY <1>1 DEF Calls, Asks
<1>7. n \in Nat /\ \A i \in DOMAIN log : i \in Nat
  BY <1>1 DEF Shape
<1> HIDE DEF n, u
<1>8. \A i \in DOMAIN log : log[i].type \in {"invoked", "acted"} => log[i].iv \in DOMAIN ivs
  BY DEF Calls, Inv, RowsAndLog
<1>9. ASSUME NEW i \in DOMAIN log', log'[i].type = "invoked"
      PROVE  log'[i].iv \in DOMAIN ivs' /\ Settled(i)'
  <2>1. CASE i = n
    BY <1>2, <1>3, <1>4, <2>1 DEF Settled
  <2>2. CASE i # n
    <3>1. i \in DOMAIN log /\ log'[i] = log[i]
      BY <1>4, <2>2
    <3>2. log[i].iv \in DOMAIN ivs /\ Settled(i)
      BY <1>9, <3>1 DEF Calls
    <3>3. Acted(log[i].cause) # {} => Acted(log[i].cause)' # {}
      BY <1>4, <3>1 DEF Acted
    <3>4. QED
      BY <1>3, <1>4, <3>1, <3>2, <3>3 DEF Settled
  <2>3. QED
    BY <2>1, <2>2
<1>10. Asks(c)'
  <2>1. \A i \in DOMAIN log' :
          /\ log'[i].type = "acted" => log'[i].iv # u
          /\ log'[i].type = "invoked" /\ log'[i].iv = u => log'[i].cause = co[c].cause
    BY <1>3, <1>4, <1>8
  <2>2. QED
    BY <1>5, <2>1 DEF Asks
<1>11. \A d \in Co \ {c} : Asks(d)'
  BY <1>1, <1>5, OtherIdle, Places
<1>12. OneAnswer'
  BY <1>4 DEF Calls, OneAnswer
<1>13. OneCall'
  <2>1. SUFFICES ASSUME NEW i \in DOMAIN log', NEW j \in DOMAIN log', i < j,
                        log'[i].type = "invoked", log'[j].type = "invoked",
                        log'[i].cause = log'[j].cause
                 PROVE  \E k \in DOMAIN log' :
                          /\ i < k /\ k < j
                          /\ log'[k].type = "gaveup" /\ log'[k].iv = log'[i].iv
    BY DEF OneCall
  <2>2. i \in DOMAIN log
    BY <1>4, <1>7, <2>1
  <2>3. CASE j = n
    <3>1. log[i].type = "invoked" /\ log[i].cause = co[c].cause
      BY <1>4, <2>1, <2>2, <2>3
    <3>2. log[i].iv \in DOMAIN ivs /\ Settled(i)
      BY <2>2, <3>1 DEF Calls
    <3>3. PICK k \in DOMAIN log : i < k /\ log[k].type = "gaveup" /\ log[k].iv = log[i].iv
      BY <1>6, <3>1, <3>2 DEF Settled
    <3>4. QED
      BY <1>4, <2>2, <2>3, <3>3
  <2>4. CASE j # n
    <3>1. j \in DOMAIN log
      BY <1>4, <2>4
    <3>2. PICK k \in DOMAIN log :
            i < k /\ k < j /\ log[k].type = "gaveup" /\ log[k].iv = log[i].iv
      BY <1>4, <2>1, <2>2, <3>1 DEF Calls, OneCall
    <3>3. QED
      BY <1>4, <2>2, <3>1, <3>2
  <2>5. QED
    BY <2>3, <2>4
<1>14. QED
  BY <1>9, <1>10, <1>11, <1>12, <1>13 DEF Calls

LEMMA AnsweredCalls ==
  ASSUME Inv, Calls, AloneAtBoot, NEW c \in Co, Answered(c)
  PROVE  Calls'
<1> DEFINE n == Len(log) + 1
<1>1. /\ Shape /\ At(c, "calling") /\ co[c].pc = "calling"
      /\ co' = [co EXCEPT ![c].pc = "close"] /\ ivs' = ivs
  BY DEF Inv, Answered, At, Go
<1>2. PICK act : log' = Append(log, Event("acted", row.att, co[c].cause, act, co[c].iv))
  BY DEF Answered
<1>3. PICK e : /\ e.type = "acted" /\ e.cause = co[c].cause /\ e.iv = co[c].iv
               /\ n \in DOMAIN log' /\ log'[n] = e /\ n \notin DOMAIN log
               /\ DOMAIN log' = DOMAIN log \cup {n}
               /\ \A i \in DOMAIN log : log'[i] = log[i] /\ i < n
  BY <1>1, <1>2, CallLogged, Places
<1>4. co'[c].pc = "close" /\ co'[c].iv = co[c].iv /\ \A d \in Co \ {c} : co'[d] = co[d]
  BY <1>1, Goes, Places
<1>5. n \in Nat /\ \A i \in DOMAIN log : i \in Nat
  BY <1>1 DEF Shape
<1> HIDE DEF n
<1>6. \A i \in DOMAIN log :
        /\ log[i].type = "acted" => log[i].iv # co[c].iv
        /\ log[i].type = "invoked" /\ log[i].iv = co[c].iv => log[i].cause = co[c].cause
  BY <1>1 DEF Calls, Asks
<1>7. \A i \in DOMAIN log' : log'[i].type \in {"invoked", "gaveup"} => i \in DOMAIN log
  BY <1>3
<1>8. ASSUME NEW i \in DOMAIN log', log'[i].type = "invoked"
      PROVE  log'[i].iv \in DOMAIN ivs' /\ Settled(i)'
  <2>1. i \in DOMAIN log /\ log'[i] = log[i]
    BY <1>3, <1>7, <1>8
  <2>2. log[i].iv \in DOMAIN ivs /\ Settled(i)
    BY <1>8, <2>1 DEF Calls
  <2>3. Acted(log[i].cause) # {} => Acted(log[i].cause)' # {}
    BY <1>3, <2>1 DEF Acted
  <2>4. QED
    BY <1>1, <1>3, <2>1, <2>2, <2>3 DEF Settled
<1>9. Asks(c)'
  <2>1. ASSUME NEW i \in DOMAIN log', log'[i].type = "invoked", log'[i].iv = co[c].iv
        PROVE  Acted(log[i].cause)' # {}
    <3>1. i \in DOMAIN log /\ log'[i].cause = co[c].cause
      BY <1>3, <1>6, <1>7, <2>1
    <3>2. log'[n].type = "acted" /\ log'[n].cause = log'[i].cause /\ n \in DOMAIN log'
      BY <1>3, <3>1
    <3>3. QED
      BY <3>2 DEF Acted
  <2>2. QED
    BY <1>4, <2>1 DEF Asks
<1>10. \A d \in Co \ {c} : Asks(d)'
  BY <1>1, <1>4, OtherIdle, Places
<1>11. OneAnswer'
  <2>1. SUFFICES ASSUME NEW i \in DOMAIN log', NEW j \in DOMAIN log', i < j,
                        log'[i].type = "acted", log'[j].type = "acted"
                 PROVE  log'[i].iv # log'[j].iv
    BY DEF OneAnswer
  <2>2. i \in DOMAIN log
    BY <1>3, <1>5, <2>1
  <2>3. CASE j = n
    BY <1>3, <1>6, <2>1, <2>2, <2>3
  <2>4. CASE j # n
    <3>1. j \in DOMAIN log
      BY <1>3, <2>4
    <3>2. QED
      BY <1>3, <2>1, <2>2, <3>1 DEF Calls, OneAnswer
  <2>5. QED
    BY <2>3, <2>4
<1>12. OneCall'
  <2>1. SUFFICES ASSUME NEW i \in DOMAIN log', NEW j \in DOMAIN log', i < j,
                        log'[i].type = "invoked", log'[j].type = "invoked",
                        log'[i].cause = log'[j].cause
                 PROVE  \E k \in DOMAIN log' :
                          /\ i < k /\ k < j
                          /\ log'[k].type = "gaveup" /\ log'[k].iv = log'[i].iv
    BY DEF OneCall
  <2>2. i \in DOMAIN log /\ j \in DOMAIN log
    BY <1>7, <2>1
  <2>3. PICK k \in DOMAIN log :
          i < k /\ k < j /\ log[k].type = "gaveup" /\ log[k].iv = log[i].iv
    BY <1>3, <2>1, <2>2 DEF Calls, OneCall
  <2>4. QED
    BY <1>3, <2>2, <2>3
<1>13. QED
  BY <1>8, <1>9, <1>10, <1>11, <1>12 DEF Calls

(* The intervention is closed when its decision is on record. *)
LEMMA CloseCalls ==
  ASSUME Inv, Calls, AloneAtBoot, NEW c \in Co, CloseIntervention(c)
  PROVE  Calls'
<1>1. /\ Shape /\ At(c, "close") /\ co[c].pc = "close" /\ log' = log
      /\ co' = [co EXCEPT ![c].pc = "dispatch"]
      /\ ivs' = [ivs EXCEPT ![co[c].iv].ended = TRUE]
  BY DEF Inv, CloseIntervention, At, Go
<1>2. DOMAIN ivs' = DOMAIN ivs /\ \A v \in DOMAIN ivs : v # co[c].iv => ivs'[v] = ivs[v]
  BY <1>1 DEF Shape
<1>3. \A i \in DOMAIN log :
        log[i].type = "invoked" /\ log[i].iv = co[c].iv => Acted(log[i].cause) # {}
  BY <1>1 DEF Calls, Asks
<1>4. ASSUME NEW i \in DOMAIN log', log'[i].type = "invoked"
      PROVE  log'[i].iv \in DOMAIN ivs' /\ Settled(i)'
  <2>1. log[i].iv \in DOMAIN ivs /\ Settled(i)
    BY <1>1, <1>4 DEF Calls
  <2>2. Acted(log[i].cause)' = Acted(log[i].cause)
    BY <1>1 DEF Acted
  <2>3. QED
    BY <1>1, <1>2, <1>3, <1>4, <2>1, <2>2 DEF Settled
<1>5. co'[c].pc = "dispatch" /\ \A d \in Co \ {c} : co'[d] = co[d]
  BY <1>1, Goes, Places
<1>6. \A d \in Co : Asks(d)'
  <2>1. Asks(c)'
    BY <1>5 DEF Asks
  <2>2. \A d \in Co \ {c} : Asks(d)'
    BY <1>1, <1>5, OtherIdle, Places
  <2>3. QED
    BY <2>1, <2>2
<1>7. OneAnswer' /\ OneCall'
  BY <1>1 DEF Calls, OneAnswer, OneCall
<1>8. QED
  BY <1>4, <1>6, <1>7 DEF Calls

LEMMA TriageCalls ==
  ASSUME Inv, Calls, NEW c \in Co,
         EnterTriage(c) \/ Dispatch(c) \/ Clean(c) \/ Reap(c)
  PROVE  Calls'
<1>1. Shape /\ SameIvs /\ Uncalled
  BY DEF Inv, EnterTriage, Dispatch, Clean, Reap, SameIvs, Uncalled
<1>2. CASE co' = Back(c) \/ co' = Raised(c)
  BY <1>1, <1>2, ElsewhereEnd, CallsStay
<1>3. CASE \E q \in {"policy", "clean", "create", "watch", "reap"} : co' = [co EXCEPT ![c].pc = q]
  BY <1>1, <1>3, ElsewhereGo, CallsStay, Places DEF CallPlaces
<1>4. CASE EnterTriage(c)
  BY <1>2, <1>3, <1>4 DEF EnterTriage, Transition, Go
<1>5. CASE Dispatch(c)
  <2> DEFINE saved == Newest(Acted(co[c].cause))
             act == IF Offered(log[saved].act, co[c].live) THEN log[saved].act ELSE "escalate"
  <2>1. act \in {"restart", "escalate", "wait"}
    BY DEF Offered, Menu
  <2>2. \/ Go(c, "clean")
        \/ Transition(c, "running", saved, [co EXCEPT ![c].pc = "watch"])
        \/ Transition(c, "needs_human", saved, [co EXCEPT ![c].pc = "reap"])
    BY <1>5, <2>1 DEF Dispatch
  <2> HIDE DEF saved, act
  <2>3. QED
    BY <1>2, <1>3, <2>2 DEF Transition, Go
<1>6. CASE Clean(c)
  BY <1>3, <1>6 DEF Clean, Go
<1>7. CASE Reap(c)
  BY <1>2, <1>7 DEF Reap
<1>8. QED
  BY <1>4, <1>5, <1>6, <1>7

LEMMA LaunchCalls ==
  ASSUME Inv, Calls, NEW c \in Co,
         Create(c) \/ Target(c) \/ Lease(c) \/ Spawn(c) \/ Use(c) \/ Run(c)
  PROVE  Calls'
<1>1. Shape
  BY DEF Inv
<1>2. SameIvs
  <2>1. CASE Target(c)
    <3>1. \A v \in DOMAIN ivs : [ivs[v] EXCEPT !.target = co[c].n].ended = ivs[v].ended
      BY <1>1, Entries DEF IvType
    <3>2. DOMAIN ivs' = DOMAIN ivs
          /\ \A v \in DOMAIN ivs : ivs'[v] = ivs[v] \/ ivs'[v] = [ivs[v] EXCEPT !.target = co[c].n]
      BY <1>1, <2>1 DEF Target, Shape
    <3>3. QED
      BY <3>1, <3>2 DEF SameIvs
  <2>2. CASE ~Target(c)
    BY <2>2 DEF Create, Lease, Spawn, Use, Run, SameIvs
  <2>3. QED
    BY <2>1, <2>2
<1>3. Uncalled
  <2>1. CASE Use(c)
    BY <2>1, EventUncalled DEF Use, CallEvents
  <2>2. CASE ~Use(c)
    BY <2>2 DEF Create, Target, Lease, Spawn, Run, Uncalled
  <2>3. QED
    BY <2>1, <2>2
<1>4. CASE \E q \in {"lease", "spawn", "use", "run"} : co' = [co EXCEPT ![c].pc = q]
  BY <1>1, <1>2, <1>3, <1>4, ElsewhereGo, CallsStay, Places DEF CallPlaces
<1>5. CASE co' = Raised(c)
  BY <1>1, <1>2, <1>3, <1>5, ElsewhereEnd, CallsStay
<1>6. CASE Create(c)
  <2> DEFINE child == Newest(Created(co[c].iv))
  <2>1. \/ co' = [co EXCEPT ![c].pc = "lease", ![c].n = child]
        \/ co' = [co EXCEPT ![c].pc = "lease", ![c].n = LatestAttempt + 1]
        \/ co' = [co EXCEPT ![c].pc = "target", ![c].n = LatestAttempt + 1]
    BY <1>6 DEF Create
  <2> HIDE DEF child
  <2>2. co'[c].pc \in {"lease", "target"} /\ \A d \in Co \ {c} : co'[d] = co[d]
    BY <1>1, <2>1 DEF Shape, CoType
  <2>3. QED
    BY <1>2, <1>3, <2>2, Elsewhere, CallsStay DEF CallPlaces
<1>7. CASE Target(c) \/ Lease(c) \/ Spawn(c) \/ Use(c)
  BY <1>4, <1>5, <1>7 DEF Target, Lease, Spawn, Use, Go
<1>8. CASE Run(c)
  <2>1. CASE co' = [Back(c) EXCEPT !["watch"] = [Idle EXCEPT !.pc = "watch", !.n = co[c].n]]
    <3>1. Back(c) \in [Co -> CoType] /\ Idle \in CoType
      BY <1>1, BackShape, Places DEF Idle, CoType
    <3>2. co'["watch"].pc = "watch" /\ co'["main"] = Back(c)["main"]
      BY <2>1, <3>1 DEF Idle, Co
    <3>3. Back(c)["main"] = co["main"] \/ Back(c)["main"].pc \in {"boot2", "boot3", "loop"}
      BY <1>1 DEF Back, Shape, CoType, Co
    <3>4. Apart
      BY <3>2, <3>3 DEF Apart, CallPlaces, Co
    <3>5. QED
      BY <1>2, <1>3, <3>4, CallsStay
  <2>2. QED
    BY <1>5, <1>8, <2>1 DEF Run
<1>9. QED
  BY <1>6, <1>7, <1>8

LEMMA DeliveryCalls ==
  ASSUME Inv, Calls, NEW c \in Co,
         Verify(c) \/ Verified(c) \/ Deliver(c) \/ Ship(c) \/ Delivered(c)
  PROVE  Calls'
<1>1. Shape /\ SameIvs
  BY DEF Inv, Verify, Verified, Deliver, Ship, Delivered, SameIvs
<1>2. Uncalled
  <2>1. CASE Verify(c)
    <3>1. PICK verdict \in {"passed", "failed"} :
            log' = Append(log, Event(verdict, row.att, 0, "none", 0))
      BY <2>1 DEF Verify
    <3>2. QED
      BY <3>1, EventUncalled DEF CallEvents
  <2>2. CASE Deliver(c)
    <3>1. log' = log \/ log' = Append(log, Event("undelivered", row.att, 0, "none", 0))
      BY <2>2 DEF Deliver
    <3>2. QED
      BY <3>1, EventUncalled DEF CallEvents, Uncalled
  <2>3. CASE Ship(c)
    BY <2>3, EventUncalled DEF Ship, CallEvents
  <2>4. CASE Verified(c) \/ Delivered(c)
    BY <2>4 DEF Verified, Delivered, Uncalled
  <2>5. QED
    BY <2>1, <2>2, <2>3, <2>4
<1>3. CASE \E cause, live, boot : Triage(c, cause, live, boot)
  BY <1>1, <1>2, <1>3, ElsewhereTriage, CallsStay
<1>4. CASE co' = Back(c) \/ co' = Raised(c)
  BY <1>1, <1>2, <1>4, ElsewhereEnd, CallsStay
<1>5. CASE \E q \in {"deliver", "ship"} : co' = [co EXCEPT ![c].pc = q]
  BY <1>1, <1>2, <1>5, ElsewhereGo, CallsStay, Places DEF CallPlaces
<1>6. CASE \E q \in {"verified", "delivered"} : \E cause :
             co' = [co EXCEPT ![c].pc = q, ![c].cause = cause]
  <2>1. co'[c].pc \in {"verified", "delivered"} /\ \A d \in Co \ {c} : co'[d] = co[d]
    BY <1>1, <1>6 DEF Shape, CoType
  <2>2. QED
    BY <1>1, <1>2, <2>1, Elsewhere, CallsStay DEF CallPlaces
<1>7. CASE Verify(c)
  <2>1. \/ Triage(c, Len(log'), FALSE, co[c].boot)
        \/ co' = [co EXCEPT ![c].pc = "verified", ![c].cause = Len(log')]
    BY <1>7 DEF Verify
  <2>2. QED
    BY <1>3, <1>6, <2>1
<1>8. CASE Ship(c)
  BY <1>6, <1>8 DEF Ship
<1>9. CASE Deliver(c)
  BY <1>3, <1>5, <1>9 DEF Deliver, Go
<1>10. CASE Verified(c) \/ Delivered(c)
  BY <1>4, <1>5, <1>10 DEF Verified, Delivered, Transition
<1>11. QED
  BY <1>7, <1>8, <1>9, <1>10

LEMMA WatchCalls ==
  ASSUME Inv, Calls, Watch
  PROVE  Calls'
<1>1. Shape /\ SameIvs /\ "watch" \in Co
  BY DEF Inv, Watch, ReadDone, Capture, Claim, ReadExit, Stall, SameIvs, Co
<1>2. Uncalled
  <2>1. CASE ReadDone \/ Stall
    <3>1. PICK type \in {"done", "stall"} :
            log' = Append(log, Event(type, co["watch"].n, 0, "none", 0))
      BY <2>1 DEF ReadDone, Stall
    <3>2. QED
      BY <3>1, EventUncalled DEF CallEvents
  <2>2. CASE ReadExit
    <3>1. PICK how : log' = Append(log, Event("exit", co["watch"].n, 0, how, 0))
      BY <2>2 DEF ReadExit
    <3>2. QED
      BY <3>1, EventUncalled DEF CallEvents
  <2>3. CASE Capture \/ Claim
    BY <2>3 DEF Capture, Claim, Uncalled
  <2>4. QED
    BY <2>1, <2>2, <2>3 DEF Watch
<1>3. CASE \E cause, live, boot : Triage("watch", cause, live, boot)
  BY <1>1, <1>2, <1>3, ElsewhereTriage, CallsStay
<1>4. CASE co' = Raised("watch")
  BY <1>1, <1>2, <1>4, ElsewhereEnd, CallsStay
<1>5. CASE \E q \in {"captured", "verify"} : co' = [co EXCEPT !["watch"].pc = q]
  BY <1>1, <1>2, <1>5, ElsewhereGo, CallsStay, Places DEF CallPlaces
<1>6. CASE ReadDone
  <2>1. co'["watch"].pc = "claim" /\ \A d \in Co \ {"watch"} : co'[d] = co[d]
    BY <1>1, <1>6 DEF ReadDone, Shape, CoType
  <2>2. QED
    BY <1>1, <1>2, <2>1, Elsewhere, CallsStay DEF CallPlaces
<1>7. CASE Capture \/ Claim
  BY <1>4, <1>5, <1>7 DEF Capture, Claim, Go
<1>8. CASE ReadExit \/ Stall
  BY <1>3, <1>8 DEF ReadExit, Stall
<1>9. QED
  BY <1>6, <1>7, <1>8 DEF Watch

LEMMA StepCalls ==
  ASSUME Inv, Calls, AloneAtBoot, [Next]_vars
  PROVE  Calls'
<1>1. CASE Startup
  BY <1>1, StartupCalls
<1>2. CASE Watch
  BY <1>2, WatchCalls
<1>3. CASE Crash
  <2>1. Down["main"].pc = "down" /\ Down["watch"].pc = "off"
    BY DEF Down, Idle, Co
  <2>2. Apart
    BY <1>3, <2>1 DEF Crash, Apart, CallPlaces, Co
  <2>3. QED
    BY <1>3, <2>2, CallsStay DEF Crash, Uncalled, SameIvs
<1>4. ASSUME NEW c \in Co, Drive(c) PROVE Calls'
  BY <1>4, TriageCalls, PolicyCalls, InterruptedCalls, CallCalls, AnsweredCalls,
     CloseCalls, LaunchCalls, DeliveryCalls DEF Drive
<1>5. CASE UNCHANGED <<log, ivs, co>>
  BY <1>5, CallsStay DEF Uncalled, SameIvs, Apart
<1>6. ASSUME NEW n \in Attempt, WorkerDies(n) \/ LeaseLapses(n) PROVE Calls'
  BY <1>5, <1>6 DEF WorkerDies, LeaseLapses
<1>7. CASE UNCHANGED vars
  BY <1>5, <1>7 DEF vars
<1>8. QED
  BY <1>1, <1>2, <1>3, <1>4, <1>6, <1>7 DEF Next

LEMMA InitCalls == Init => Calls
<1> SUFFICES ASSUME Init PROVE Calls
  OBVIOUS
<1>1. log = <<>> /\ co["main"].pc = "down" /\ co["watch"].pc = "off"
  BY DEF Init, Down, Idle, Co
<1>2. QED
  BY <1>1 DEF Calls, Asks, OneAnswer, OneCall, Co

-----------------------------------------------------------------------------

\* For any retry budget and any number of kills, a cause pays for a second call of
\* the model only when the first was closed as interrupted, and one intervention
\* has one decision: create_intervention reserves a call before it is made, and
\* the next process closes what it finds open instead of asking again.
THEOREM RestartOneCallPerCause == ASSUME AloneAtBoot PROVE Spec => []OneCallPerCause
<1>1. Init => Inv /\ Calls
  BY InitInv, InitCalls
<1>2. Inv /\ Calls /\ [Next]_vars => Inv' /\ Calls'
  BY StepInv, StepCalls
<1>3. Inv /\ Calls => OneCallPerCause
  BY CallsSuffice DEF Inv
<1>4. QED
  BY <1>1, <1>2, <1>3, PTL DEF Spec
=============================================================================
