---------------------------- MODULE ExecutionLease ----------------------------
(***************************************************************************)
(* Durable execution leases and fencing tokens: execution_lease.py and the  *)
(* execution_leases table.                                                  *)
(*                                                                          *)
(* An attempt is executed under at most one active lease.  Each acquisition *)
(* gets the next generation of the attempt; the pair (attempt, generation)  *)
(* is the fencing token (the ULID lease_id names the same pair).  A caller  *)
(* keeps the token and presents it in later calls, however late.            *)
(*                                                                          *)
(* Every function reads its `now` first and then waits for BEGIN IMMEDIATE, *)
(* so the time it decides with may be older than the time it writes at: a   *)
(* call is a Begin step, which fixes `now`, and the step of its transaction.*)
(***************************************************************************)
EXTENDS Naturals, FiniteSets, SequencesExt

CONSTANTS
  Attempt,     \* attempt ids (rows of `attempts`)
  Owner,       \* execution owners: "scheduler:<run>:<attempt>"
  Watchdog,    \* callers of recover() that own no lease (reconcile)
  TTL,         \* seconds a grant or renewal lasts (ttl_s, 300 in the code)
  MaxClock,    \* bound on time
  MaxLog       \* bound on the lease events

ASSUME LeaseAssumption ==
  /\ Owner \cap Watchdog = {}
  /\ TTL \in Nat \ {0}
  /\ MaxClock \in Nat
  /\ MaxLog \in Nat

VARIABLES
  clock,       \* the wall clock
  leases,      \* rows of execution_leases
  events,      \* the execution_lease.* events, by seq
  call,        \* caller -> its call between reading `now` and its transaction
  reply        \* the outcome of the call the last step completed, if any

vars == <<clock, leases, events, call, reply>>

Caller == Owner \cup Watchdog

-----------------------------------------------------------------------------
Lease == [attempt : Attempt, gen : Nat \ {0}, owner : Owner,
          status : {"active", "released", "recovered"},
          renewed : Nat, expires : Nat]

LeaseEvent == [type : {"acquired", "renewed", "released", "recovered"},
               row : Lease]

Op == {"acquire", "validate", "renew", "release", "recover"}

Call == [op : Op, attempt : Attempt, gen : Nat, now : Nat]

NoCall == [op |-> "none"]

Reply == {"none", "ok", "busy", "stale"}

\* The rows a call's (attempt, generation) names; lookups use the whole
\* identity, so a token of one generation never finds another.
Named(k) == {l \in leases : l.attempt = k.attempt /\ l.gen = k.gen}

Active(a) == {l \in leases : l.attempt = a /\ l.status = "active"}

Expired(l, now) == now >= l.expires

Gens(a) == {l.gen : l \in {m \in leases : m.attempt = a}}

\* COALESCE(MAX(generation), 0) + 1: rows are never deleted.
NextGen(a) ==
  IF Gens(a) = {} THEN 1
  ELSE 1 + CHOOSE g \in Gens(a) : \A h \in Gens(a) : h <= g

Answer(p, verdict) ==
  /\ reply' = verdict
  /\ call' = [call EXCEPT ![p] = NoCall]

\* Two rows, or a row and an event, of one fencing token.
SameToken(l, m) == l.attempt = m.attempt /\ l.gen = m.gen

\* Mutant: a renewal is not projected, so the rebuilt expiry is too early.
ReplayStepSkipsRenewals(rows, e) ==
  IF e.type = "acquired" THEN rows \cup {e.row}
  ELSE {IF SameToken(l, e.row) /\ e.type # "renewed"
        THEN [l EXCEPT !.status = e.row.status] ELSE l : l \in rows}

\* One iteration of the loop in replay_leases(): "acquired" makes the row,
\* "renewed" assigns its times, the other two assign its status.
ReplayStep(rows, e) ==
  IF e.type = "acquired" THEN rows \cup {e.row}
  ELSE {IF ~SameToken(l, e.row) THEN l
        ELSE IF e.type = "renewed"
             THEN [l EXCEPT !.renewed = e.row.renewed, !.expires = e.row.expires]
             ELSE [l EXCEPT !.status = e.row.status] : l \in rows}

-----------------------------------------------------------------------------
Init ==
  /\ clock = 0
  /\ leases = {}
  /\ events = <<>>
  /\ call = [p \in Caller |-> NoCall]
  /\ reply = "none"

Tick ==
  /\ clock < MaxClock
  /\ clock' = clock + 1
  /\ reply' = "none"
  /\ UNCHANGED <<leases, events, call>>

\* A caller enters a function and reads `now`.  An owner acquires, or uses a
\* token it was granted; anyone may recover a lease it can name.
Begin(p, op, a, g) ==
  /\ call[p] = NoCall
  /\ IF op = "acquire" THEN p \in Owner /\ g = 0
     ELSE \E l \in leases : /\ l.attempt = a /\ l.gen = g
                            /\ p = l.owner \/ op = "recover"
  /\ call' = [call EXCEPT ![p] = [op |-> op, attempt |-> a, gen |-> g, now |-> clock]]
  /\ reply' = "none"
  /\ UNCHANGED <<clock, leases, events>>

\* acquire(), refused: LeaseBusyError, the live lease is not stolen.
AcquireBusy(p) ==
  LET k == call[p] IN
  /\ k.op = "acquire"
  /\ \E l \in Active(k.attempt) : ~Expired(l, k.now)
  /\ Answer(p, "busy")
  /\ UNCHANGED <<clock, leases, events>>

\* The row a granted acquire() inserts.
Granted(p) ==
  [attempt |-> call[p].attempt, gen |-> NextGen(call[p].attempt), owner |-> p,
   status |-> "active", renewed |-> call[p].now, expires |-> call[p].now + TTL]

Fence(l) == [l EXCEPT !.status = "recovered"]

\* One event for the lease that is fenced, if any, and one for the grant.
AcquireEvents(old, new) ==
  LET acquired == [type |-> "acquired", row |-> new] IN
  /\ Len(events) + 1 < MaxLog
  /\ \/ old = {} /\ events' = Append(events, acquired)
     \/ \E l \in old : events' = events \o <<[type |-> "recovered", row |-> Fence(l)], acquired>>

\* Mutant: an expired lease is left active beside the new one.
AcquireWithoutRecovery(p) ==
  /\ call[p].op = "acquire"
  /\ \A l \in Active(call[p].attempt) : Expired(l, call[p].now)
  /\ Len(events) < MaxLog
  /\ leases' = leases \cup {Granted(p)}
  /\ events' = Append(events, [type |-> "acquired", row |-> Granted(p)])
  /\ Answer(p, "ok")
  /\ UNCHANGED clock

\* Mutant: whether the active lease has expired is not looked at.
AcquireSteals(p) ==
  LET old == Active(call[p].attempt) IN
  /\ call[p].op = "acquire"
  /\ leases' = (leases \ old) \cup {Fence(l) : l \in old} \cup {Granted(p)}
  /\ AcquireEvents(old, Granted(p))
  /\ Answer(p, "ok")
  /\ UNCHANGED clock

\* acquire(), granted: an expired active lease is recovered and the next
\* generation inserted, with one event each, in the same transaction.
AcquireGranted(p) ==
  LET old == Active(call[p].attempt) IN
  /\ call[p].op = "acquire"
  /\ \A l \in old : Expired(l, call[p].now)
  /\ leases' = (leases \ old) \cup {Fence(l) : l \in old} \cup {Granted(p)}
  /\ AcquireEvents(old, Granted(p))
  /\ Answer(p, "ok")
  /\ UNCHANGED clock

\* validate(): the token is current, active and unexpired at `now`.
Validate(p) ==
  LET k == call[p] IN
  /\ k.op = "validate"
  /\ \E l \in Named(k) :
       Answer(p, IF l.status = "active" /\ ~Expired(l, k.now) THEN "ok" ELSE "stale")
  /\ UNCHANGED <<clock, leases, events>>

\* Mutant: renew() revives a lease that was fenced.
RenewRevives(p) ==
  LET k == call[p] IN
  /\ k.op = "renew"
  /\ Len(events) < MaxLog
  /\ \E l \in Named(k) :
       LET new == [l EXCEPT !.status = "active", !.renewed = k.now, !.expires = k.now + TTL]
       IN /\ leases' = (leases \ {l}) \cup {new}
          /\ events' = Append(events, [type |-> "renewed", row |-> new])
  /\ Answer(p, "ok")
  /\ UNCHANGED clock

\* Mutant: the time is renewed but the TTL is not added to it.
RenewForgetsTTL(p) ==
  LET k == call[p] IN
  /\ k.op = "renew"
  /\ Len(events) < MaxLog
  /\ \E l \in Named(k) :
       LET new == [l EXCEPT !.renewed = k.now, !.expires = k.now]
       IN /\ l.status = "active" /\ ~Expired(l, k.now)
          /\ leases' = (leases \ {l}) \cup {new}
          /\ events' = Append(events, [type |-> "renewed", row |-> new])
  /\ Answer(p, "ok")
  /\ UNCHANGED clock

\* renew(): extends a lease that is active and unexpired at `now`, keeping
\* its generation; otherwise StaleLeaseError.
Renew(p) ==
  LET k == call[p] IN
  /\ k.op = "renew"
  /\ \E l \in Named(k) :
       IF l.status = "active" /\ ~Expired(l, k.now)
       THEN LET new == [l EXCEPT !.renewed = k.now, !.expires = k.now + TTL]
            IN /\ Len(events) < MaxLog
               /\ leases' = (leases \ {l}) \cup {new}
               /\ events' = Append(events, [type |-> "renewed", row |-> new])
               /\ Answer(p, "ok")
       ELSE Answer(p, "stale") /\ UNCHANGED <<leases, events>>
  /\ UNCHANGED clock

\* _release_row: the row leaves "active" and the event says how.
Close(l, status) ==
  LET new == [l EXCEPT !.status = status] IN
  /\ Len(events) < MaxLog
  /\ leases' = (leases \ {l}) \cup {new}
  /\ events' = Append(events, [type |-> status, row |-> new])

\* release(): idempotent on a lease that is no longer active; on an active
\* lease that has expired it raises StaleLeaseError and leaves the row alone.
Release(p) ==
  LET k == call[p] IN
  /\ k.op = "release"
  /\ \E l \in Named(k) :
       \/ l.status # "active" /\ Answer(p, "ok") /\ UNCHANGED <<leases, events>>
       \/ /\ l.status = "active" /\ Expired(l, k.now)
          /\ Answer(p, "stale") /\ UNCHANGED <<leases, events>>
       \/ /\ l.status = "active" /\ ~Expired(l, k.now)
          /\ Close(l, "released") /\ Answer(p, "ok")
  /\ UNCHANGED clock

\* recover(): fences exactly the lease it names, whatever its expiry; the
\* caller need not own it; repeating it is harmless.
Recover(p) ==
  LET k == call[p] IN
  /\ k.op = "recover"
  /\ \E l \in Named(k) :
       IF l.status = "active" THEN Close(l, "recovered")
       ELSE UNCHANGED <<leases, events>>
  /\ Answer(p, "ok")
  /\ UNCHANGED clock

Next ==
  \/ Tick
  \/ \E p \in Caller, op \in Op, a \in Attempt, g \in 0..Cardinality(leases) :
        Begin(p, op, a, g)
  \/ \E p \in Caller :
        \/ AcquireBusy(p) \/ AcquireGranted(p)
        \/ Validate(p) \/ Renew(p) \/ Release(p) \/ Recover(p)

Spec == Init /\ [][Next]_vars

-----------------------------------------------------------------------------
(* Properties. *)

TypeOK ==
  /\ clock \in Nat
  /\ leases \subseteq Lease
  /\ events \in Seq(LeaseEvent)
  /\ call \in [Caller -> Call \cup {NoCall}]
  /\ reply \in Reply

\* A fencing token names one lease for ever: no generation is handed out twice.
TokensUnique == \A l, m \in leases : SameToken(l, m) => l = m

\* Only the newest generation of an attempt can be active, hence at most one
\* lease of an attempt is active and every older holder is fenced.
ActiveIsNewest ==
  \A l, m \in leases :
     l.status = "active" /\ m.attempt = l.attempt => m.gen <= l.gen

\* The lease rows are a projection of the lease events: the loop of
\* replay_leases() over all of them gives the live rows.
LeaseReplayMatchesTable == FoldLeft(ReplayStep, {}, events) = leases

\* "Once a lease is released or recovered, all actions carrying that lease
\* identity are stale": its row never changes again.
FencedStaysFenced ==
  [][\A l \in leases : l.status # "active" => l \in leases']_vars

\* "A live lease is never stolen": a later generation appears only when the
\* active one has expired by the clock, although acquire() decided with the
\* time it had read before it got the database lock.
LiveLeaseNotStolen ==
  [][\A l \in leases, m \in leases' :
        (l.status = "active" /\ m.attempt = l.attempt /\ m.gen > l.gen)
        => Expired(l, clock)]_vars

\* A renewal never brings the expiry forward, even when its `now` was read
\* before other calls ran.
ExpiryNeverShrinks ==
  [][\A l \in leases, m \in leases' : SameToken(l, m) => l.expires <= m.expires]_vars

\* A token that validate() or renew() accepts is the newest of its attempt,
\* so the signals of an execution that was replaced are always rejected.
AcceptedIsCurrent ==
  [][\A p \in Caller :
        (/\ call[p] # NoCall /\ call'[p] = NoCall
         /\ call[p].op \in {"validate", "renew"}
         /\ reply' = "ok")
        => \A m \in leases : m.attempt = call[p].attempt => m.gen <= call[p].gen]_vars

\* What Scheduler._teardown_owned (core.py:2027) reads into StaleLeaseError: a
\* release that is refused as stale was already fenced, with a durable event.
StaleReleaseMeansFenced ==
  [][\A p \in Caller :
        (/\ call[p].op = "release" /\ call'[p] = NoCall
         /\ reply' = "stale")
        => \A l \in Named(call[p]) : l.status # "active"]_vars
=============================================================================
