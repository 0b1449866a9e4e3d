------------------------- MODULE ExecutionLeaseProofs -------------------------
(***************************************************************************)
(* Theorems about ExecutionLease, for any attempts, owners and TTL.         *)
(***************************************************************************)
EXTENDS ExecutionLease, WellFoundedInduction, TLAPS

-----------------------------------------------------------------------------
(* Types. *)

(* NextGen(a) exceeds every generation of the attempt, provided the numbers  *)
(* in use have a largest one.                                                *)
GensHaveMax ==
  \A a \in Attempt : Gens(a) # {} => \E g \in Gens(a) : \A h \in Gens(a) : h <= g

LEMMA NextGenIsNew ==
  ASSUME TypeOK, GensHaveMax, NEW a \in Attempt
  PROVE  /\ NextGen(a) \in Nat \ {0}
         /\ \A l \in leases : l.attempt = a => l.gen < NextGen(a)
<1>1. /\ Gens(a) \subseteq Nat \ {0}
      /\ \A l \in leases : l.attempt = a => l.gen \in Gens(a)
  BY DEF Gens, TypeOK, Lease
<1>2. CASE Gens(a) = {}
  BY <1>1, <1>2 DEF NextGen
<1>3. CASE Gens(a) # {}
  <2> DEFINE top == CHOOSE g \in Gens(a) : \A h \in Gens(a) : h <= g
  <2>1. top \in Gens(a) /\ \A h \in Gens(a) : h <= top
    BY <1>3 DEF GensHaveMax
  <2>2. NextGen(a) = 1 + top
    BY <1>3 DEF NextGen
  <2> HIDE DEF top
  <2>3. QED
    BY <1>1, <2>1, <2>2
<1>4. QED
  BY <1>2, <1>3

(* The three ways a step changes the lease table: a row leaves "active", its *)
(* owner renews it, or a new generation is granted and the old one fenced.   *)
Rewrites(l, new) ==
  /\ l \in leases
  /\ l.status = "active"
  /\ new \in Lease
  /\ SameToken(l, new)
  /\ new.owner = l.owner
  /\ leases' = (leases \ {l}) \cup {new}

Closes(l, new) ==
  /\ Rewrites(l, new)
  /\ new.status # "active"
  /\ new.renewed = l.renewed
  /\ new.expires = l.expires

Renews(p, l, new) ==
  /\ Rewrites(l, new)
  /\ call[p].op = "renew"
  /\ l \in Named(call[p])
  /\ new.status = "active"
  /\ new.renewed = call[p].now
  /\ new.expires = call[p].now + TTL

GrantsTo(p) ==
  /\ call[p] \in Call
  /\ call[p].op = "acquire"
  /\ \A l \in Active(call[p].attempt) : Expired(l, call[p].now)
  /\ leases' = (leases \ Active(call[p].attempt))
               \cup {Fence(l) : l \in Active(call[p].attempt)} \cup {Granted(p)}

TableChange ==
  \/ leases' = leases
  \/ \E l, new : Closes(l, new)
  \/ \E p \in Owner : \E l, new : Renews(p, l, new)
  \/ \E p \in Owner : GrantsTo(p)

(* Only an owner acquires, and only the owner of a lease renews it. *)
CallsAreTheirs ==
  \A p \in Caller :
     /\ call[p].op = "acquire" => p \in Owner
     /\ call[p].op = "renew" => /\ Named(call[p]) # {}
                                /\ \A l \in Named(call[p]) : l.owner = p

LEMMA GrantedType ==
  ASSUME TypeOK, GensHaveMax, NEW p \in Owner, call[p] \in Call
  PROVE  /\ Granted(p) \in Lease
         /\ Granted(p).attempt = call[p].attempt
         /\ Granted(p).gen = NextGen(call[p].attempt)
         /\ Granted(p).owner = p
         /\ Granted(p).status = "active"
         /\ Granted(p).renewed = call[p].now
         /\ Granted(p).expires = call[p].now + TTL
<1>1. NextGen(call[p].attempt) \in Nat \ {0}
  BY NextGenIsNew DEF Call
<1>2. call[p].now + TTL \in Nat
  BY LeaseAssumption DEF Call
<1>3. QED
  BY <1>1, <1>2 DEF Granted, Lease, Call

LEMMA FenceType ==
  ASSUME NEW l \in Lease
  PROVE  /\ Fence(l) \in Lease
         /\ Fence(l).status = "recovered"
         /\ SameToken(Fence(l), l)
         /\ Fence(l).owner = l.owner
         /\ Fence(l).renewed = l.renewed
         /\ Fence(l).expires = l.expires
BY DEF Fence, Lease, SameToken

LEMMA CallTyped ==
  ASSUME TypeOK, NEW p \in Caller, call[p].op \in Op
  PROVE  call[p] \in Call
<1>1. "none" \notin Op
  BY DEF Op
<1>2. call[p] # NoCall
  BY <1>1 DEF NoCall
<1>3. QED
  BY <1>2 DEF TypeOK

LEMMA CloseIs ==
  ASSUME TypeOK, NEW l \in leases, l.status = "active",
         NEW status \in {"released", "recovered"}, Close(l, status)
  PROVE  /\ \E new : Closes(l, new)
         /\ events' \in Seq(LeaseEvent)
<1> DEFINE new == [l EXCEPT !.status = status]
<1>1. l \in Lease
  BY DEF TypeOK
<1>2. /\ new \in Lease
      /\ new.status = status
      /\ SameToken(l, new) /\ new.owner = l.owner
      /\ new.renewed = l.renewed /\ new.expires = l.expires
  BY <1>1 DEF Lease, SameToken
<1>3. [type |-> status, row |-> new] \in LeaseEvent
  BY <1>2 DEF LeaseEvent
<1>4. events' = Append(events, [type |-> status, row |-> new])
      /\ leases' = (leases \ {l}) \cup {new}
  BY DEF Close
<1>5. events \in Seq(LeaseEvent)
  BY DEF TypeOK
<1> HIDE DEF new
<1>6. events' \in Seq(LeaseEvent)
  BY <1>3, <1>4, <1>5
<1>7. Closes(l, new)
  BY <1>2, <1>4 DEF Closes, Rewrites
<1>8. QED
  BY <1>6, <1>7

(* Every step leaves the table alone or changes it in one of the three ways. *)
LEMMA Forms ==
  ASSUME TypeOK, GensHaveMax, CallsAreTheirs, Next
  PROVE  events' \in Seq(LeaseEvent) /\ TableChange
<1>0. events \in Seq(LeaseEvent) /\ leases \subseteq Lease
  BY DEF TypeOK
<1>1. CASE Tick
  BY <1>0, <1>1 DEF Tick, TableChange
<1>2. CASE \E p \in Caller, op \in Op, a \in Attempt, g \in 0..Cardinality(leases) :
             Begin(p, op, a, g)
  BY <1>0, <1>2 DEF Begin, TableChange
<1>3. ASSUME NEW p \in Caller, AcquireBusy(p) \/ Validate(p)
      PROVE  events' \in Seq(LeaseEvent) /\ TableChange
  BY <1>0, <1>3 DEF AcquireBusy, Validate, TableChange
<1>4. ASSUME NEW p \in Caller, AcquireGranted(p)
      PROVE  events' \in Seq(LeaseEvent) /\ TableChange
  <2>1. call[p].op = "acquire"
    BY <1>4 DEF AcquireGranted
  <2>2. p \in Owner
    BY <2>1 DEF CallsAreTheirs
  <2>3. call[p] \in Call
    BY <2>1, CallTyped DEF Op
  <2>4. Granted(p) \in Lease
    BY <2>2, <2>3, GrantedType
  <2>5. /\ AcquireEvents(Active(call[p].attempt), Granted(p))
        /\ GrantsTo(p)
    BY <1>4, <2>3 DEF AcquireGranted, GrantsTo
  <2>6. [type |-> "acquired", row |-> Granted(p)] \in LeaseEvent
    BY <2>4 DEF LeaseEvent
  <2>7. ASSUME NEW l \in Active(call[p].attempt)
        PROVE  [type |-> "recovered", row |-> Fence(l)] \in LeaseEvent
    <3>1. l \in Lease
      BY <1>0 DEF Active
    <3>2. QED
      BY <3>1, FenceType DEF LeaseEvent
  <2>8. ASSUME events' = Append(events, [type |-> "acquired", row |-> Granted(p)])
        PROVE  events' \in Seq(LeaseEvent)
    BY <1>0, <2>6, <2>8
  <2>9. ASSUME \E l \in Active(call[p].attempt) :
               events' = events \o <<[type |-> "recovered", row |-> Fence(l)],
                                     [type |-> "acquired", row |-> Granted(p)]>>
        PROVE  events' \in Seq(LeaseEvent)
    <3>1. PICK l \in Active(call[p].attempt) :
               events' = events \o <<[type |-> "recovered", row |-> Fence(l)],
                                     [type |-> "acquired", row |-> Granted(p)]>>
      BY <2>9
    <3> DEFINE first == [type |-> "recovered", row |-> Fence(l)]
               second == [type |-> "acquired", row |-> Granted(p)]
    <3>2. first \in LeaseEvent /\ second \in LeaseEvent
      BY <2>6, <2>7
    <3> HIDE DEF first, second
    <3>3. <<first, second>> \in Seq(LeaseEvent)
      BY <3>2
    <3>4. events \o <<first, second>> \in Seq(LeaseEvent)
      BY <1>0, <3>3
    <3>5. QED
      BY <3>1, <3>4 DEF first, second
  <2>10. events' \in Seq(LeaseEvent)
    BY <2>5, <2>8, <2>9 DEF AcquireEvents
  <2>11. QED
    BY <2>2, <2>5, <2>10 DEF TableChange
<1>5. ASSUME NEW p \in Caller, Renew(p)
      PROVE  events' \in Seq(LeaseEvent) /\ TableChange
  <2>1. PICK l \in Named(call[p]) :
          \/ UNCHANGED <<leases, events>>
          \/ LET new == [l EXCEPT !.renewed = call[p].now, !.expires = call[p].now + TTL]
             IN /\ l.status = "active"
                /\ leases' = (leases \ {l}) \cup {new}
                /\ events' = Append(events, [type |-> "renewed", row |-> new])
    BY <1>5 DEF Renew
  <2> DEFINE new == [l EXCEPT !.renewed = call[p].now, !.expires = call[p].now + TTL]
  <2>2. call[p].op = "renew"
    BY <1>5 DEF Renew
  <2>3. call[p] \in Call
    BY <2>2, CallTyped DEF Op
  <2>4. l \in leases /\ l \in Lease /\ l.owner = p
    BY <1>0, <2>2 DEF Named, CallsAreTheirs
  <2>5. call[p].now \in Nat /\ call[p].now + TTL \in Nat
    BY <2>3, LeaseAssumption DEF Call
  <2>6. /\ new \in Lease
        /\ new.status = l.status
        /\ SameToken(l, new) /\ new.owner = l.owner
        /\ new.renewed = call[p].now /\ new.expires = call[p].now + TTL
    BY <2>4, <2>5 DEF Lease, SameToken
  <2>7. p \in Owner
    BY <2>4 DEF Lease
  <2>8. [type |-> "renewed", row |-> new] \in LeaseEvent
    BY <2>6 DEF LeaseEvent
  <2>9. CASE UNCHANGED <<leases, events>>
    BY <1>0, <2>9 DEF TableChange
  <2>10. CASE ~UNCHANGED <<leases, events>>
    <3>1. /\ l.status = "active"
          /\ leases' = (leases \ {l}) \cup {new}
          /\ events' = Append(events, [type |-> "renewed", row |-> new])
      BY <2>1, <2>10
    <3> HIDE DEF new
    <3>2. events' \in Seq(LeaseEvent)
      BY <1>0, <2>8, <3>1
    <3>3. Renews(p, l, new)
      BY <2>1, <2>2, <2>4, <2>6, <3>1 DEF Renews, Rewrites
    <3>4. QED
      BY <2>7, <3>2, <3>3 DEF TableChange
  <2>11. QED
    BY <2>9, <2>10
<1>6. ASSUME NEW p \in Caller, Release(p) \/ Recover(p)
      PROVE  events' \in Seq(LeaseEvent) /\ TableChange
  <2>1. \/ UNCHANGED <<leases, events>>
        \/ \E l \in leases, status \in {"released", "recovered"} :
              l.status = "active" /\ Close(l, status)
    BY <1>6 DEF Release, Recover, Named
  <2>2. QED
    BY <1>0, <2>1, CloseIs DEF TableChange
<1>7. QED
  BY <1>1, <1>2, <1>3, <1>4, <1>5, <1>6 DEF Next

-----------------------------------------------------------------------------
(* Tokens.  With the types, the inductive invariant of the lease table: a    *)
(* token is unique, the active generation is the newest, every attempt has a *)
(* newest generation, a renewal belongs to the owner of the lease it names,  *)
(* and no lease or call is ahead of the clock.                               *)
Times ==
  /\ \A l \in leases : l.expires = l.renewed + TTL /\ l.renewed <= clock
  /\ \A p \in Caller : call[p].op \in Op => call[p].now <= clock
  /\ \A p \in Caller : call[p].op = "renew" =>
        \A l \in Named(call[p]) : l.renewed <= call[p].now

IInv ==
  /\ TypeOK
  /\ TokensUnique
  /\ ActiveIsNewest
  /\ GensHaveMax
  /\ CallsAreTheirs
  /\ Times

LEMMA InitIInv == Init => IInv
<1> SUFFICES ASSUME Init PROVE IInv
  OBVIOUS
<1>1. TypeOK
  BY DEF Init, TypeOK, Reply, Call, NoCall, Lease, LeaseEvent
<1>2. GensHaveMax
  BY DEF Init, GensHaveMax, Gens
<1>3. CallsAreTheirs /\ Times
  BY DEF Init, CallsAreTheirs, Times, NoCall, Op
<1>4. QED
  BY <1>1, <1>2, <1>3 DEF Init, IInv, TokensUnique, ActiveIsNewest

(* What a rewritten row is, whichever way it is rewritten. *)
LEMMA RewriteKeepsTokens ==
  ASSUME TypeOK, TokensUnique, ActiveIsNewest, GensHaveMax,
         NEW l, NEW new, Rewrites(l, new)
  PROVE  /\ leases' \subseteq Lease
         /\ TokensUnique'
         /\ ActiveIsNewest'
         /\ GensHaveMax'
         /\ \A a : Gens(a)' = Gens(a)
<1>1. /\ l \in leases /\ l \in Lease /\ new \in Lease
      /\ new.attempt = l.attempt /\ new.gen = l.gen
      /\ leases' = (leases \ {l}) \cup {new}
      /\ l.status = "active"
      /\ leases \subseteq Lease
  BY DEF Rewrites, SameToken, TypeOK
<1>2. \A m \in leases' : \E n \in leases : /\ SameToken(n, m)
                                          /\ m.status = "active" => n.status = "active"
                                          /\ n = l <=> m = new
  BY <1>1 DEF SameToken, TokensUnique
<1>3. TokensUnique'
  BY <1>1, <1>2 DEF TokensUnique, SameToken
<1>4. ActiveIsNewest'
  BY <1>1, <1>2 DEF ActiveIsNewest, SameToken
<1>5. \A a : Gens(a)' = Gens(a)
  BY <1>1 DEF Gens
<1>6. GensHaveMax'
  BY <1>5 DEF GensHaveMax
<1>7. QED
  BY <1>1, <1>3, <1>4, <1>5, <1>6

(* A granted generation is new, and the row it fences keeps its token. *)
LEMMA GrantKeepsTokens ==
  ASSUME TypeOK, TokensUnique, ActiveIsNewest, GensHaveMax,
         NEW p \in Owner, GrantsTo(p)
  PROVE  /\ leases' \subseteq Lease
         /\ TokensUnique'
         /\ ActiveIsNewest'
         /\ GensHaveMax'
<1>0. PICK a : a = call[p].attempt
  OBVIOUS
<1> DEFINE old == Active(a)
           new == Granted(p)
<1>1. /\ new \in Lease /\ new.attempt = a /\ new.gen = NextGen(a)
      /\ new.status = "active" /\ a \in Attempt
  BY <1>0, GrantedType DEF GrantsTo, Call
<1>2. /\ NextGen(a) \in Nat \ {0}
      /\ \A l \in leases : l.attempt = a => l.gen < NextGen(a)
  BY <1>1, NextGenIsNew
<1>3. leases \subseteq Lease /\ old \subseteq leases
  BY DEF TypeOK, Active
<1>4. \A l \in leases : l.attempt = a /\ l.status = "active" => l \in old
  BY DEF Active
<1>5. leases' = (leases \ old) \cup {Fence(l) : l \in old} \cup {new}
  BY <1>0 DEF GrantsTo
<1>6. \A l \in old : /\ Fence(l) \in Lease /\ Fence(l).status # "active"
                     /\ Fence(l).attempt = l.attempt /\ Fence(l).gen = l.gen
  BY <1>3, FenceType DEF SameToken
<1> HIDE DEF old, new
<1>7. leases' \subseteq Lease
  BY <1>1, <1>3, <1>5, <1>6
<1>8. \A m \in leases' : \/ m = new
                         \/ m \in leases \ old
                         \/ \E l \in old : m = Fence(l)
  BY <1>5
<1>9. \A m \in leases' : m # new =>
         \E n \in leases : m.attempt = n.attempt /\ m.gen = n.gen
  BY <1>3, <1>6, <1>8
<1>10. \A m \in leases' : m # new /\ m.attempt = a => m.gen < new.gen
  BY <1>1, <1>2, <1>9
<1>11. TokensUnique'
  <2> SUFFICES ASSUME NEW l \in leases', NEW m \in leases', SameToken(l, m)
               PROVE  l = m
    BY DEF TokensUnique, SameToken
  <2>1. CASE l = new \/ m = new
    <3>1. l.attempt = a /\ m.attempt = a /\ l.gen = m.gen
      BY <1>1, <2>1 DEF SameToken
    <3>2. l.gen \in Nat /\ m.gen \in Nat
      BY <1>7 DEF Lease
    <3>3. QED
      BY <1>10, <2>1, <3>1, <3>2
  <2>2. CASE l # new /\ m # new
    <3>1. \E n \in leases : /\ n.attempt = l.attempt /\ n.gen = l.gen
                           /\ IF n \in old THEN l = Fence(n) ELSE l = n
      BY <1>3, <1>6, <1>8, <2>2
    <3>2. \E n \in leases : /\ n.attempt = m.attempt /\ n.gen = m.gen
                           /\ IF n \in old THEN m = Fence(n) ELSE m = n
      BY <1>3, <1>6, <1>8, <2>2
    <3>3. QED
      BY <3>1, <3>2 DEF TokensUnique, SameToken
  <2>3. QED
    BY <2>1, <2>2
<1>12. ActiveIsNewest'
  <2> SUFFICES ASSUME NEW l \in leases', NEW m \in leases',
                      l.status = "active", m.attempt = l.attempt
               PROVE  m.gen <= l.gen
    BY DEF ActiveIsNewest
  <2>0. l.gen \in Nat /\ m.gen \in Nat
    BY <1>7 DEF Lease
  <2>1. CASE l = new
    BY <1>1, <1>10, <2>0, <2>1
  <2>2. CASE l # new
    <3>1. l \in leases \ old
      BY <1>6, <1>8, <2>2
    <3>2. l.attempt # a
      BY <1>4, <3>1
    <3>3. m # new
      BY <1>1, <3>2
    <3>4. QED
      BY <1>9, <3>1, <3>3 DEF ActiveIsNewest
  <2>3. QED
    BY <2>1, <2>2
<1>13. GensHaveMax'
  <2>1. \A b : Gens(b)' = {l.gen : l \in {m \in leases' : m.attempt = b}}
    BY DEF Gens
  <2>2. new \in leases' /\ \A h \in Gens(a)' : h <= new.gen
    <3>1. \A m \in leases' : m.attempt = a => m.gen <= new.gen
      BY <1>1, <1>2, <1>7, <1>10 DEF Lease
    <3>2. QED
      BY <1>5, <2>1, <3>1
  <2>3. new.gen \in Gens(a)'
    BY <1>1, <2>1, <2>2
  <2>4. ASSUME NEW b \in Attempt, b # a
        PROVE  Gens(b)' = Gens(b)
    <3>1. \A l \in leases : l.attempt = b => l \in leases'
      BY <1>5, <2>4 DEF old, Active
    <3>2. \A m \in leases' : m.attempt = b => m \in leases
      <4> TAKE m \in leases'
      <4> HAVE m.attempt = b
      <4>1. \A l \in old : l.attempt = a
        BY DEF old, Active
      <4>2. QED
        BY <1>1, <1>6, <1>8, <2>4, <4>1
    <3>3. QED
      BY <2>1, <3>1, <3>2 DEF Gens
  <2>5. QED
    BY <2>2, <2>3, <2>4 DEF GensHaveMax
<1>14. QED
  BY <1>7, <1>11, <1>12, <1>13

(* What a step does to the calls: it begins one at the current time, or ends *)
(* one, and never changes one in flight.                                     *)
LEMMA CallStep ==
  ASSUME TypeOK, Next
  PROVE  /\ call' \in [Caller -> Call \cup {NoCall}]
         /\ reply' \in Reply
         /\ clock' \in Nat /\ clock <= clock'
         /\ \A p \in Caller :
              \/ call'[p] = call[p]
              \/ call'[p] = NoCall
              \/ /\ leases' = leases
                 /\ call'[p].now = clock
                 /\ call'[p].op = "acquire" => p \in Owner
                 /\ call'[p].op \in {"validate", "renew", "release"} =>
                      \E l \in Named(call'[p]) : l.owner = p
<1>0. /\ clock \in Nat /\ reply \in Reply
      /\ call \in [Caller -> Call \cup {NoCall}]
  BY DEF TypeOK
<1>1. CASE Tick
  BY <1>0, <1>1 DEF Tick, Reply
<1>2. ASSUME NEW p \in Caller, NEW op \in Op, NEW a \in Attempt,
             NEW g \in 0..Cardinality(leases), Begin(p, op, a, g)
      PROVE  /\ call' \in [Caller -> Call \cup {NoCall}]
             /\ reply' = "none" /\ clock' = clock /\ leases' = leases
             /\ \A q \in Caller : q # p => call'[q] = call[q]
             /\ call'[p].now = clock
             /\ call'[p].op = "acquire" => p \in Owner
             /\ call'[p].op \in {"validate", "renew", "release"} =>
                  \E l \in Named(call'[p]) : l.owner = p
  <2> DEFINE k == [op |-> op, attempt |-> a, gen |-> g, now |-> clock]
  <2>1. k \in Call
    BY <1>0 DEF Call
  <2>2. call' = [call EXCEPT ![p] = k]
    BY <1>2 DEF Begin
  <2>3. call'[p] = k
    BY <1>0, <2>2
  <2>4. QED
    BY <1>0, <1>2, <2>1, <2>2, <2>3 DEF Begin, Named
<1>3. ASSUME NEW p \in Caller,
             \/ AcquireBusy(p) \/ AcquireGranted(p) \/ Validate(p)
             \/ Renew(p) \/ Release(p) \/ Recover(p)
      PROVE  /\ clock' = clock
             /\ reply' \in Reply
             /\ call' = [call EXCEPT ![p] = NoCall]
  BY <1>3 DEF AcquireBusy, AcquireGranted, Validate, Renew, Release, Recover, Answer, Reply
<1>4. ASSUME NEW p \in Caller, call' = [call EXCEPT ![p] = NoCall]
      PROVE  /\ call' \in [Caller -> Call \cup {NoCall}]
             /\ \A q \in Caller : call'[q] = call[q] \/ call'[q] = NoCall
  BY <1>0, <1>4
<1>5. QED
  BY <1>0, <1>1, <1>2, <1>3, <1>4 DEF Next, Reply

(* The row n before a step is the row m after it. *)
Becomes(n, m) ==
  /\ SameToken(n, m)
  /\ m.owner = n.owner
  /\ \/ m = n
     \/ /\ n.status = "active"
        /\ \/ m.renewed = n.renewed /\ m.expires = n.expires
           \/ \E p \in Owner : Renews(p, n, m)

NewRow(m) ==
  /\ \A n \in leases : ~SameToken(n, m)
  /\ \E p \in Owner : GrantsTo(p) /\ m = Granted(p)

(* Rows are granted under a new token or evolve under the one they have;     *)
(* none disappears, and one that is not active does not change.              *)
LEMMA RowsEvolve ==
  ASSUME TypeOK, TokensUnique, ActiveIsNewest, GensHaveMax, TableChange
  PROVE  /\ leases' \subseteq Lease
         /\ TokensUnique' /\ ActiveIsNewest' /\ GensHaveMax'
         /\ \A m \in leases' : NewRow(m) \/ \E n \in leases : Becomes(n, m)
         /\ \A n \in leases : \E m \in leases' : SameToken(n, m)
         /\ \A n \in leases : n.status # "active" => n \in leases'
<1> USE DEF TypeOK
<1>1. CASE leases' = leases
  <2>1. TokensUnique' /\ ActiveIsNewest' /\ GensHaveMax'
    BY <1>1 DEF TokensUnique, ActiveIsNewest, GensHaveMax, Gens
  <2>2. QED
    BY <1>1, <2>1 DEF Becomes, SameToken
<1>2. ASSUME NEW l, NEW new, Rewrites(l, new),
             \/ new.renewed = l.renewed /\ new.expires = l.expires
             \/ \E p \in Owner : Renews(p, l, new)
      PROVE  /\ \A m \in leases' : \E n \in leases : Becomes(n, m)
             /\ \A n \in leases : \E m \in leases' : SameToken(n, m)
             /\ \A n \in leases : n.status # "active" => n \in leases'
  <2>1. Becomes(l, new)
    BY <1>2 DEF Becomes, Rewrites
  <2>2. \A n : Becomes(n, n)
    BY DEF Becomes, SameToken
  <2>3. QED
    BY <1>2, <2>1, <2>2 DEF Rewrites, SameToken
<1>3. CASE \E l, new : Closes(l, new)
  BY <1>2, <1>3, RewriteKeepsTokens DEF Closes
<1>4. CASE \E p \in Owner : \E l, new : Renews(p, l, new)
  <2>0. PICK p \in Owner : \E l, new : Renews(p, l, new)
    BY <1>4
  <2>1. PICK l, new : Renews(p, l, new)
    BY <2>0
  <2>2. Rewrites(l, new)
    BY <2>1 DEF Renews
  <2>3. QED
    BY <1>2, <2>1, <2>2, RewriteKeepsTokens
<1>5. CASE \E p \in Owner : GrantsTo(p)
  <2>1. PICK p \in Owner : GrantsTo(p)
    BY <1>5
  <2> DEFINE new == Granted(p)
             old == Active(call[p].attempt)
  <2>2. /\ new.attempt = call[p].attempt /\ new.gen = NextGen(call[p].attempt)
        /\ call[p].attempt \in Attempt
    BY <2>1, GrantedType DEF GrantsTo, Call
  <2>3. \A n \in leases : n.attempt = call[p].attempt => n.gen < new.gen
    BY <2>2, NextGenIsNew
  <2>4. leases' = (leases \ old) \cup {Fence(l) : l \in old} \cup {new}
    BY <2>1 DEF GrantsTo
  <2>5. \A l \in old : l \in leases /\ l.status = "active"
    BY DEF Active
  <2>6. \A l \in old : Becomes(l, Fence(l)) /\ SameToken(l, Fence(l))
    BY <2>5, FenceType DEF Becomes, SameToken
  <2> HIDE DEF new, old
  <2>7. NewRow(new)
    <3>1. \A n \in leases : n.gen \in Nat
      BY DEF Lease
    <3>2. \A n \in leases : ~SameToken(n, new)
      BY <2>2, <2>3, <3>1 DEF SameToken
    <3>3. QED
      BY <2>1, <3>2 DEF NewRow, new
  <2>8. \A n : Becomes(n, n) /\ SameToken(n, n)
    BY DEF Becomes, SameToken
  <2>9. \A m \in leases' : NewRow(m) \/ \E n \in leases : Becomes(n, m)
    BY <2>4, <2>5, <2>6, <2>7, <2>8
  <2>10. \A n \in leases : /\ \E m \in leases' : SameToken(n, m)
                           /\ n.status # "active" => n \in leases'
    BY <2>4, <2>5, <2>6, <2>8
  <2>11. QED
    BY <2>1, <2>9, <2>10, GrantKeepsTokens
<1>6. QED
  BY <1>1, <1>3, <1>4, <1>5 DEF TableChange

LEMMA NextIInv ==
  ASSUME IInv, Next
  PROVE  IInv' /\ TableChange
<1>1. /\ TypeOK /\ TokensUnique /\ ActiveIsNewest /\ GensHaveMax
      /\ CallsAreTheirs /\ Times
  BY DEF IInv
<1>2. events' \in Seq(LeaseEvent) /\ TableChange
  BY <1>1, Forms
<1>3. /\ leases' \subseteq Lease
      /\ TokensUnique' /\ ActiveIsNewest' /\ GensHaveMax'
      /\ \A m \in leases' : NewRow(m) \/ \E n \in leases : Becomes(n, m)
      /\ \A n \in leases : \E m \in leases' : SameToken(n, m)
  BY <1>1, <1>2, RowsEvolve
<1>4. /\ call' \in [Caller -> Call \cup {NoCall}]
      /\ reply' \in Reply
      /\ clock' \in Nat /\ clock <= clock'
      /\ \A p \in Caller :
           \/ call'[p] = call[p]
           \/ call'[p] = NoCall
           \/ /\ leases' = leases
              /\ call'[p].now = clock
              /\ call'[p].op = "acquire" => p \in Owner
              /\ call'[p].op \in {"validate", "renew", "release"} =>
                   \E l \in Named(call'[p]) : l.owner = p
  BY <1>1, CallStep
<1>5. TypeOK'
  BY <1>2, <1>3, <1>4 DEF TypeOK
<1>6. NoCall.op \notin Op /\ NoCall.op # "renew" /\ NoCall.op # "acquire"
  BY DEF NoCall, Op
\* a renewal in flight still names the rows it named, and no new one
<1>7. ASSUME NEW p \in Caller, call[p].op = "renew", call'[p] = call[p]
      PROVE  \A m \in leases' : m.attempt = call[p].attempt /\ m.gen = call[p].gen =>
               \E n \in Named(call[p]) : Becomes(n, m)
  <2> TAKE m \in leases'
  <2> HAVE m.attempt = call[p].attempt /\ m.gen = call[p].gen
  <2>1. PICK n \in Named(call[p]) : TRUE
    BY <1>1, <1>7 DEF CallsAreTheirs
  <2>2. n \in leases /\ SameToken(n, m)
    BY <2>1 DEF Named, SameToken
  <2>3. ~NewRow(m)
    BY <2>2 DEF NewRow
  <2>4. QED
    BY <1>3, <2>3 DEF Named, Becomes, SameToken
<1>8. CallsAreTheirs'
  <2> SUFFICES ASSUME NEW p \in Caller
               PROVE  /\ call'[p].op = "acquire" => p \in Owner
                      /\ call'[p].op = "renew" =>
                           /\ Named(call[p])' # {}
                           /\ \A l \in Named(call[p])' : l.owner = p
    BY DEF CallsAreTheirs
  <2>1. CASE call'[p] = call[p]
    <3>1. call[p].op = "acquire" => p \in Owner
      BY <1>1 DEF CallsAreTheirs
    <3>2. ASSUME call[p].op = "renew"
          PROVE  Named(call[p])' # {}
      <4>1. PICK n \in Named(call[p]) : TRUE
        BY <1>1, <3>2 DEF CallsAreTheirs
      <4>2. PICK m \in leases' : SameToken(n, m)
        BY <1>3, <4>1 DEF Named
      <4>3. QED
        BY <2>1, <4>1, <4>2 DEF Named, SameToken
    <3>3. ASSUME call[p].op = "renew", NEW m \in Named(call[p])'
          PROVE  m.owner = p
      <4>1. m \in leases' /\ m.attempt = call[p].attempt /\ m.gen = call[p].gen
        BY <2>1 DEF Named
      <4>2. PICK n \in Named(call[p]) : Becomes(n, m)
        BY <1>7, <2>1, <3>3, <4>1
      <4>3. QED
        BY <1>1, <3>3, <4>2 DEF CallsAreTheirs, Becomes
    <3>4. QED
      BY <2>1, <3>1, <3>2, <3>3
  <2>2. CASE call'[p] = NoCall
    BY <1>6, <2>2
  <2>3. CASE call'[p] # call[p] /\ call'[p] # NoCall
    <3>1. /\ leases' = leases
          /\ call'[p].op = "acquire" => p \in Owner
          /\ call'[p].op = "renew" => \E l \in Named(call'[p]) : l.owner = p
      BY <1>4, <2>3
    <3>2. Named(call[p])' = Named(call'[p])
      BY <3>1 DEF Named
    <3>3. \A l, m \in Named(call'[p]) : l = m
      BY <1>1 DEF Named, TokensUnique, SameToken
    <3>4. QED
      BY <3>1, <3>2, <3>3
  <2>4. QED
    BY <2>1, <2>2, <2>3
<1>9. Times'
  <2>1. ASSUME NEW m \in leases'
        PROVE  m.expires = m.renewed + TTL /\ m.renewed <= clock'
    <3>0. m.renewed \in Nat /\ clock \in Nat
      BY <1>1, <1>3 DEF Lease, TypeOK
    <3>1. CASE NewRow(m)
      <4>1. PICK p \in Owner : GrantsTo(p) /\ m = Granted(p)
        BY <3>1 DEF NewRow
      <4>2. m.renewed = call[p].now /\ m.expires = call[p].now + TTL
        BY <1>1, <4>1, GrantedType DEF GrantsTo
      <4>3. call[p].now <= clock
        BY <1>1, <4>1 DEF GrantsTo, Times, Call, Caller
      <4>4. QED
        BY <1>4, <3>0, <4>2, <4>3
    <3>2. CASE \E n \in leases : Becomes(n, m)
      <4>1. PICK n \in leases : Becomes(n, m)
        BY <3>2
      <4>2. n.expires = n.renewed + TTL /\ n.renewed <= clock
        BY <1>1 DEF Times
      <4>3. CASE m.renewed = n.renewed /\ m.expires = n.expires
        BY <1>4, <3>0, <4>2, <4>3
      <4>4. CASE \E p \in Owner : Renews(p, n, m)
        <5>1. PICK p \in Owner : Renews(p, n, m)
          BY <4>4
        <5>2. call[p].now <= clock
          BY <1>1, <5>1 DEF Renews, Times, Op, Caller
        <5>3. QED
          BY <1>4, <3>0, <5>1, <5>2 DEF Renews
      <4>5. QED
        BY <4>1, <4>3, <4>4 DEF Becomes
    <3>3. QED
      BY <1>3, <3>1, <3>2
  <2>2. ASSUME NEW p \in Caller, call'[p].op \in Op
        PROVE  call'[p].now <= clock'
    <3>1. CASE call'[p] = call[p]
      <4>1. call[p].now <= clock
        BY <1>1, <2>2, <3>1 DEF Times
      <4>2. call[p].now \in Nat /\ clock \in Nat
        BY <1>1, <2>2, <3>1, CallTyped DEF Call, TypeOK
      <4>3. QED
        BY <1>4, <3>1, <4>1, <4>2
    <3>2. CASE call'[p].now = clock
      BY <1>4, <3>2
    <3>3. QED
      BY <1>4, <1>6, <2>2, <3>1, <3>2
  <2>3. ASSUME NEW p \in Caller, call'[p].op = "renew", NEW m \in Named(call[p])'
        PROVE  m.renewed <= call'[p].now
    <3>0. m \in leases' /\ m.attempt = call'[p].attempt /\ m.gen = call'[p].gen
      BY <2>3 DEF Named
    <3>1. CASE call'[p] = call[p]
      <4>1. PICK n \in Named(call[p]) : Becomes(n, m)
        BY <1>7, <2>3, <3>0, <3>1
      <4>2. n.renewed <= call[p].now /\ n.owner = p /\ n \in leases
        BY <1>1, <2>3, <3>1, <4>1 DEF Times, Named, CallsAreTheirs
      <4>3. CASE \E q \in Owner : Renews(q, n, m)
        <5>1. PICK q \in Owner : Renews(q, n, m)
          BY <4>3
        <5>2. q = p
          BY <1>1, <4>2, <5>1 DEF Renews, CallsAreTheirs, Caller
        <5>3. call[p].now \in Nat
          BY <1>1, <2>3, <3>1, CallTyped DEF Call, Op
        <5>4. QED
          BY <3>1, <5>1, <5>2, <5>3 DEF Renews
      <4>4. QED
        BY <3>1, <4>1, <4>2, <4>3 DEF Becomes
    <3>2. CASE call'[p] # call[p]
      <4>1. leases' = leases /\ call'[p].now = clock
        BY <1>4, <1>6, <2>3, <3>2
      <4>2. QED
        BY <1>1, <3>0, <4>1 DEF Times
    <3>3. QED
      BY <3>1, <3>2
  <2>4. QED
    BY <2>1, <2>2, <2>3 DEF Times
<1>10. QED
  BY <1>2, <1>3, <1>5, <1>8, <1>9 DEF IInv

-----------------------------------------------------------------------------
(* The theorems. *)

LEMMA StutterIInv ==
  ASSUME IInv, UNCHANGED vars
  PROVE  IInv'
<1>1. /\ clock' = clock /\ leases' = leases /\ events' = events
      /\ call' = call /\ reply' = reply
  BY DEF vars
<1>2. TypeOK' /\ TokensUnique' /\ ActiveIsNewest'
  BY <1>1 DEF IInv, TypeOK, TokensUnique, ActiveIsNewest
<1>3. GensHaveMax'
  BY <1>1 DEF IInv, GensHaveMax, Gens
<1>4. CallsAreTheirs' /\ Times'
  BY <1>1 DEF IInv, CallsAreTheirs, Times, Named
<1>5. QED
  BY <1>2, <1>3, <1>4 DEF IInv

LEMMA Invariance == Spec => []IInv
<1>1. IInv /\ [Next]_vars => IInv'
  BY NextIInv, StutterIInv
<1>2. QED
  BY InitIInv, <1>1, PTL DEF Spec

(* The variables of the lease table keep their types: in particular every    *)
(* generation acquire() computes is a positive number.                       *)
THEOREM LeaseTyped == Spec => []TypeOK
<1>1. IInv => TypeOK
  BY DEF IInv
<1>2. QED
  BY Invariance, <1>1, PTL

(* acquire() never hands out a fencing token twice.                          *)
THEOREM LeaseTokensUnique == Spec => []TokensUnique
<1>1. IInv => TokensUnique
  BY DEF IInv
<1>2. QED
  BY Invariance, <1>1, PTL

(* At most one lease of an attempt is active, and it is the newest one.      *)
THEOREM LeaseActiveIsNewest == Spec => []ActiveIsNewest
<1>1. IInv => ActiveIsNewest
  BY DEF IInv
<1>2. QED
  BY Invariance, <1>1, PTL

(* No call of acquire(), renew(), release() or recover() changes the row of  *)
(* a lease that was released or recovered.                                   *)
THEOREM LeaseFencedStaysFenced == Spec => FencedStaysFenced
<1>1. IInv /\ [Next]_vars =>
        [\A l \in leases : l.status # "active" => l \in leases']_vars
  BY NextIInv, RowsEvolve DEF IInv
<1>2. QED
  BY Invariance, <1>1, PTL DEF Spec, FencedStaysFenced

(* acquire() grants a new generation only when the active one has expired,   *)
(* although it decides with a time it read before it had the lock.           *)
THEOREM LeaseNeverStolen == Spec => LiveLeaseNotStolen
<1>1. ASSUME IInv, Next, NEW l \in leases, NEW m \in leases',
             l.status = "active", m.attempt = l.attempt, m.gen > l.gen
      PROVE  Expired(l, clock)
  <2>1. TypeOK /\ TokensUnique /\ ActiveIsNewest /\ GensHaveMax /\ Times /\ TableChange
    BY <1>1, NextIInv DEF IInv
  <2>2. NewRow(m) \/ \E n \in leases : Becomes(n, m)
    BY <2>1, RowsEvolve
  <2>3. l \in Lease
    BY <2>1 DEF TypeOK
  <2>4. CASE NewRow(m)
    <3>1. PICK p \in Owner : GrantsTo(p) /\ m = Granted(p)
      BY <2>4 DEF NewRow
    <3>2. call[p] \in Call /\ m.attempt = call[p].attempt
      BY <2>1, <3>1, GrantedType DEF GrantsTo
    <3>3. Expired(l, call[p].now)
      BY <1>1, <3>1, <3>2 DEF GrantsTo, Active
    <3>4. call[p].now <= clock
      BY <2>1, <3>2 DEF Times, Call, Caller
    <3>5. call[p].now \in Nat /\ clock \in Nat /\ l.expires \in Nat
      BY <2>1, <2>3, <3>2 DEF Call, Lease, TypeOK
    <3>6. QED
      BY <3>3, <3>4, <3>5 DEF Expired
  <2>5. CASE \E n \in leases : Becomes(n, m)
    <3>1. PICK n \in leases : Becomes(n, m)
      BY <2>5
    <3>2. n.attempt = l.attempt /\ n.gen = m.gen
      BY <1>1, <3>1 DEF Becomes, SameToken
    <3>3. n.gen <= l.gen
      BY <1>1, <2>1, <3>2 DEF ActiveIsNewest
    <3>4. n.gen \in Nat /\ l.gen \in Nat
      BY <2>1, <2>3 DEF TypeOK, Lease
    <3>5. QED
      BY <1>1, <3>2, <3>3, <3>4
  <2>6. QED
    BY <2>2, <2>4, <2>5
<1>2. IInv /\ [Next]_vars =>
        [\A l \in leases, m \in leases' :
           (l.status = "active" /\ m.attempt = l.attempt /\ m.gen > l.gen)
           => Expired(l, clock)]_vars
  BY <1>1
<1>3. QED
  BY Invariance, <1>2, PTL DEF Spec, LiveLeaseNotStolen

(* renew() never brings an expiry forward: only the owner renews, one call   *)
(* at a time, so the time it read is not older than the last renewal.        *)
THEOREM LeaseExpiryNeverShrinks == Spec => ExpiryNeverShrinks
<1>1. ASSUME IInv, Next, NEW l \in leases, NEW m \in leases', SameToken(l, m)
      PROVE  l.expires <= m.expires
  <2>1. TypeOK /\ TokensUnique /\ ActiveIsNewest /\ GensHaveMax /\ Times /\ TableChange
    BY <1>1, NextIInv DEF IInv
  <2>2. NewRow(m) \/ \E n \in leases : Becomes(n, m)
    BY <2>1, RowsEvolve
  <2>3. PICK n \in leases : Becomes(n, m)
    BY <1>1, <2>2 DEF NewRow
  <2>4. n = l
    BY <1>1, <2>1, <2>3 DEF Becomes, SameToken, TokensUnique
  <2>5. l.expires = l.renewed + TTL /\ l.renewed \in Nat /\ l.expires \in Nat
    BY <2>1 DEF Times, TypeOK, Lease
  <2>6. ASSUME NEW p \in Owner, Renews(p, l, m)
        PROVE  l.expires <= m.expires
    <3>1. call[p].op = "renew" /\ l \in Named(call[p]) /\ m.expires = call[p].now + TTL
      BY <2>6 DEF Renews
    <3>2. l.renewed <= call[p].now
      BY <2>1, <3>1 DEF Times, Caller
    <3>3. call[p].now \in Nat
      BY <2>1, <3>1, CallTyped DEF Call, Op, Caller
    <3>4. QED
      BY <2>5, <3>1, <3>2, <3>3, LeaseAssumption
  <2>7. QED
    BY <2>3, <2>4, <2>5, <2>6 DEF Becomes
<1>2. IInv /\ [Next]_vars =>
        [\A l \in leases, m \in leases' : SameToken(l, m) => l.expires <= m.expires]_vars
  BY <1>1
<1>3. QED
  BY Invariance, <1>2, PTL DEF Spec, ExpiryNeverShrinks

(* validate() and renew() accept a token only when it is the newest of its   *)
(* attempt: the signals of an execution that was replaced are refused.       *)
THEOREM LeaseAcceptedIsCurrent == Spec => AcceptedIsCurrent
<1>1. ASSUME IInv, Next, NEW p \in Caller, call[p] # NoCall, call'[p] = NoCall,
             call[p].op \in {"validate", "renew"}, reply' = "ok",
             NEW m \in leases, m.attempt = call[p].attempt
      PROVE  m.gen <= call[p].gen
  <2>1. TypeOK /\ ActiveIsNewest
    BY <1>1 DEF IInv
  <2>2. call \in [Caller -> Call \cup {NoCall}]
    BY <2>1 DEF TypeOK
  <2>3. Validate(p) \/ Renew(p)
    <3>1. ~Tick
      BY <1>1 DEF Tick
    <3>2. ASSUME NEW q \in Caller, NEW op \in Op, NEW a \in Attempt,
                 NEW g \in 0..Cardinality(leases), Begin(q, op, a, g)
          PROVE  FALSE
      BY <1>1, <2>2, <3>2 DEF Begin
    <3>3. ASSUME NEW q \in Caller, call' = [call EXCEPT ![q] = NoCall]
          PROVE  q = p
      BY <1>1, <2>2, <3>3
    <3>4. ASSUME NEW q \in Caller,
                 AcquireBusy(q) \/ AcquireGranted(q) \/ Release(q) \/ Recover(q)
          PROVE  FALSE
      BY <1>1, <3>3, <3>4 DEF AcquireBusy, AcquireGranted, Release, Recover, Answer
    <3>5. ASSUME NEW q \in Caller, Validate(q) \/ Renew(q)
          PROVE  q = p
      BY <3>3, <3>5 DEF Validate, Renew, Answer
    <3>6. QED
      BY <1>1, <3>1, <3>2, <3>4, <3>5 DEF Next
  <2>4. PICK l \in Named(call[p]) : l.status = "active"
    BY <1>1, <2>3 DEF Validate, Renew, Answer
  <2>5. QED
    BY <1>1, <2>1, <2>4 DEF ActiveIsNewest, Named
<1>2. IInv /\ [Next]_vars =>
        [\A p \in Caller :
           (/\ call[p] # NoCall /\ call'[p] = NoCall
            /\ call[p].op \in {"validate", "renew"}
            /\ reply' = "ok")
           => \A m \in leases : m.attempt = call[p].attempt => m.gen <= call[p].gen]_vars
  BY <1>1
<1>3. QED
  BY Invariance, <1>2, PTL DEF Spec, AcceptedIsCurrent

-----------------------------------------------------------------------------
(* The loop of replay_leases().  FoldLeft is a function on the sets of positions of  *)
(* the log that takes the last event off a set.  That there is such a        *)
(* function, and that it takes an appended event last, is shown by least     *)
(* counterexample on the length of the log.                                  *)

(* Every set of naturals that is not empty has a least member. *)
LEMMA LeastNat ==
  ASSUME NEW T \in SUBSET Nat, T # {}
  PROVE  \E m \in T : \A k \in T : m <= k
<1> DEFINE R == {ss \in Nat \X Nat : ss[1] < ss[2]}
<1>1. IsWellFoundedOn(R, Nat)
  BY NatLessThanWellFounded DEF OpToRel
<1> HIDE DEF R
<1>2. PICK m \in T : \A k \in T : <<k, m>> \notin R
  BY <1>1, WFMin
<1>3. \A k \in T : ~(k < m)
  BY <1>2 DEF R
<1>4. QED
  BY <1>3

(* A bound of an interval that is in a set of positions is its last one. *)
LEMMA TopIsMax ==
  ASSUME NEW n \in Nat, NEW s \in SUBSET (1..n), n \in s
  PROVE  Max(s) = n
<1>1. \A y \in s : n >= y
  OBVIOUS
<1>2. Max(s) \in s /\ \A y \in s : Max(s) >= y
  BY <1>1 DEF Max
<1>3. Max(s) \in 1..n /\ Max(s) >= n
  BY <1>2
<1>4. QED
  BY <1>3

(* f is what FoldLeft computes with for the first n events of l. *)
Unwinds(f, l, n) ==
  f = [s \in SUBSET (1..n) |->
         IF s = {} THEN {} ELSE ReplayStep(f[s \ {Max(s)}], l[Max(s)])]

(* A function for n events extends to one for n + 1. *)
LEMMA UnwindsMore ==
  ASSUME NEW l, NEW n \in Nat, NEW f, Unwinds(f, l, n)
  PROVE  \E g : Unwinds(g, l, n + 1)
<1> DEFINE m == n + 1
           g == [s \in SUBSET (1..m) |->
                   IF m \in s THEN ReplayStep(f[s \ {m}], l[m]) ELSE f[s]]
           h == [s \in SUBSET (1..m) |->
                   IF s = {} THEN {} ELSE ReplayStep(g[s \ {Max(s)}], l[Max(s)])]
<1>1. ASSUME NEW s \in SUBSET (1..n)
      PROVE  /\ s \in SUBSET (1..m) /\ m \notin s
             /\ g[s] = f[s]
             /\ f[s] = IF s = {} THEN {} ELSE ReplayStep(f[s \ {Max(s)}], l[Max(s)])
  <2>1. s \in SUBSET (1..m) /\ m \notin s
    OBVIOUS
  <2>2. g[s] = f[s]
    BY <2>1
  <2>3. f[s] = IF s = {} THEN {} ELSE ReplayStep(f[s \ {Max(s)}], l[Max(s)])
    BY Zenon DEF Unwinds
  <2>4. QED
    BY <2>1, <2>2, <2>3
<1>2. ASSUME NEW s \in SUBSET (1..m) PROVE g[s] = h[s]
  <2>1. CASE m \in s
    <3>1. Max(s) = m
      BY <2>1, TopIsMax
    <3>2. s \ {m} \in SUBSET (1..n)
      OBVIOUS
    <3>3. g[s \ {m}] = f[s \ {m}]
      BY <1>1, <3>2
    <3>4. g[s] = ReplayStep(f[s \ {m}], l[m])
      BY <2>1
    <3>5. h[s] = ReplayStep(g[s \ {m}], l[m])
      BY <2>1, <3>1
    <3> HIDE DEF g, h
    <3>6. QED
      BY <3>3, <3>4, <3>5
  <2>2. CASE m \notin s
    <3>1. s \in SUBSET (1..n)
      BY <2>2
    <3>2. s \ {Max(s)} \in SUBSET (1..n)
      BY <3>1
    <3>3. h[s] = IF s = {} THEN {} ELSE ReplayStep(g[s \ {Max(s)}], l[Max(s)])
      OBVIOUS
    <3>4. g[s \ {Max(s)}] = f[s \ {Max(s)}]
      BY <1>1, <3>2
    <3>5. g[s] = IF s = {} THEN {} ELSE ReplayStep(f[s \ {Max(s)}], l[Max(s)])
      BY <1>1, <3>1
    <3> HIDE DEF g, h
    <3>6. QED
      BY <3>3, <3>4, <3>5
  <2>3. QED
    BY <2>1, <2>2
<1>3. g = h
  <2>1. g = [s \in SUBSET (1..m) |-> g[s]] /\ h = [s \in SUBSET (1..m) |-> h[s]]
    OBVIOUS
  <2> HIDE DEF g, h
  <2>2. QED
    BY <1>2, <2>1
<1>4. Unwinds(g, l, m)
  BY <1>3 DEF Unwinds
<1>5. QED
  BY <1>4

(* Every log has its function. *)
LEMMA UnwindsExist ==
  ASSUME NEW l, NEW n \in Nat
  PROVE  \E f : Unwinds(f, l, n)
<1> DEFINE Bad == {k \in Nat : ~ \E f : Unwinds(f, l, k)}
<1>1. SUFFICES ASSUME Bad # {} PROVE FALSE
  OBVIOUS
<1>2. PICK k \in Bad : \A j \in Bad : k <= j
  <2>1. Bad \in SUBSET Nat
    OBVIOUS
  <2> HIDE DEF Bad
  <2>2. QED
    BY <1>1, <2>1, LeastNat
<1>3. k \in Nat /\ ~ \E f : Unwinds(f, l, k)
  OBVIOUS
<1>4. CASE k = 0
  <2> DEFINE f == [s \in SUBSET (1..0) |-> {}]
  <2>1. \A s \in SUBSET (1..0) : s = {}
    OBVIOUS
  <2>2. f = [s \in SUBSET (1..0) |->
               IF s = {} THEN {} ELSE ReplayStep(f[s \ {Max(s)}], l[Max(s)])]
    BY <2>1
  <2>3. Unwinds(f, l, 0)
    BY <2>2 DEF Unwinds
  <2>4. QED
    BY <1>3, <1>4, <2>3
<1>5. CASE k # 0
  <2>1. k - 1 \in Nat /\ ~(k <= k - 1) /\ (k - 1) + 1 = k
    BY <1>3, <1>5
  <2>2. k - 1 \notin Bad
    BY <1>2, <2>1
  <2>3. PICK f : Unwinds(f, l, k - 1)
    BY <2>1, <2>2
  <2>4. \E g : Unwinds(g, l, (k - 1) + 1)
    BY <2>1, <2>3, UnwindsMore
  <2>5. QED
    BY <1>3, <2>1, <2>4
<1>6. QED
  BY <1>4, <1>5

(* Along the initial intervals the function takes one event at a time. *)
LEMMA UnwindsStep ==
  ASSUME NEW l, NEW n \in Nat, NEW f, Unwinds(f, l, n)
  PROVE  /\ f[1..0] = {}
         /\ \A k \in 1..n : f[1..k] = ReplayStep(f[1..(k - 1)], l[k])
<1>1. ASSUME NEW s \in SUBSET (1..n)
      PROVE  f[s] = IF s = {} THEN {} ELSE ReplayStep(f[s \ {Max(s)}], l[Max(s)])
  BY Zenon DEF Unwinds
<1>2. f[1..0] = {}
  <2>1. 1..0 = {} /\ 1..0 \in SUBSET (1..n)
    OBVIOUS
  <2>2. QED
    BY <1>1, <2>1
<1>3. ASSUME NEW k \in 1..n
      PROVE  f[1..k] = ReplayStep(f[1..(k - 1)], l[k])
  <2>1. /\ 1..k \in SUBSET (1..n)
        /\ 1..k # {}
        /\ (1..k) \ {k} = 1..(k - 1)
        /\ k \in Nat /\ 1..k \in SUBSET (1..k) /\ k \in 1..k
    OBVIOUS
  <2>2. Max(1..k) = k
    BY <2>1, TopIsMax
  <2>3. QED
    BY <1>1, <2>1, <2>2
<1>4. QED
  BY <1>2, <1>3

(* What the loop makes of a log. *)
Rebuild(l) == FoldLeft(ReplayStep, {}, l)

LEMMA RebuildUnwinds ==
  ASSUME NEW l, NEW n \in Nat, DOMAIN l = 1..n
  PROVE  \E f : Unwinds(f, l, n) /\ Rebuild(l) = f[1..n]
<1> DEFINE g == CHOOSE f : Unwinds(f, l, n)
<1>1. \E f : Unwinds(f, l, n)
  BY UnwindsExist
<1>2. Unwinds(g, l, n)
  BY <1>1
<1>3. Rebuild(l) = g[1..n]
  BY Zenon DEF Rebuild, FoldLeft, MapThenFoldSet, Unwinds
<1>4. QED
  BY <1>2, <1>3

(* Two logs that agree on their first n events unwind alike. *)
LEMMA UnwindsAlike ==
  ASSUME NEW l, NEW m, NEW n \in Nat, NEW f, NEW g,
         Unwinds(f, l, n), Unwinds(g, m, n + 1),
         \A i \in 1..n : m[i] = l[i]
  PROVE  g[1..n] = f[1..n]
<1> DEFINE Bad == {k \in 0..n : g[1..k] # f[1..k]}
<1>1. /\ f[1..0] = {}
      /\ \A k \in 1..n : f[1..k] = ReplayStep(f[1..(k - 1)], l[k])
  BY UnwindsStep
<1>2. /\ g[1..0] = {}
      /\ \A k \in 1..(n + 1) : g[1..k] = ReplayStep(g[1..(k - 1)], m[k])
  BY UnwindsStep
<1>3. SUFFICES ASSUME Bad # {} PROVE FALSE
  OBVIOUS
<1>4. PICK k \in Bad : \A j \in Bad : k <= j
  <2>1. Bad \in SUBSET Nat
    OBVIOUS
  <2> HIDE DEF Bad
  <2>2. QED
    BY <1>3, <2>1, LeastNat
<1>5. k \in 0..n /\ g[1..k] # f[1..k]
  OBVIOUS
<1>6. k # 0
  BY <1>1, <1>2, <1>5
<1>7. k \in 1..n /\ k \in 1..(n + 1) /\ k - 1 \in 0..n /\ ~(k <= k - 1)
  BY <1>5, <1>6
<1>8. g[1..(k - 1)] = f[1..(k - 1)]
  BY <1>4, <1>7
<1>9. g[1..k] = f[1..k]
  BY <1>1, <1>2, <1>7, <1>8
<1>10. QED
  BY <1>5, <1>9

(* The loop takes an appended event after all the others. *)
LEMMA RebuildAppend ==
  ASSUME NEW E, NEW l \in Seq(E), NEW e \in E
  PROVE  Rebuild(Append(l, e)) = ReplayStep(Rebuild(l), e)
<1> DEFINE m == Append(l, e)
           n == Len(l)
<1>1. /\ n \in Nat /\ n + 1 \in Nat /\ n + 1 \in 1..(n + 1) /\ (n + 1) - 1 = n
      /\ DOMAIN l = 1..n
      /\ DOMAIN m = 1..(n + 1)
      /\ m[n + 1] = e
      /\ \A i \in 1..n : m[i] = l[i]
  OBVIOUS
<1> HIDE DEF m, n
<1>2. PICK f : Unwinds(f, l, n) /\ Rebuild(l) = f[1..n]
  BY <1>1, RebuildUnwinds
<1>3. PICK g : Unwinds(g, m, n + 1) /\ Rebuild(m) = g[1..(n + 1)]
  BY <1>1, RebuildUnwinds
<1>4. g[1..n] = f[1..n]
  BY <1>1, <1>2, <1>3, UnwindsAlike
<1>5. g[1..(n + 1)] = ReplayStep(g[1..n], e)
  BY <1>1, <1>3, UnwindsStep
<1>6. QED
  BY <1>2, <1>3, <1>4, <1>5 DEF m

(* The loop on an empty log does not run. *)
LEMMA RebuildEmpty == Rebuild(<<>>) = {}
<1>1. DOMAIN <<>> = 1..0
  OBVIOUS
<1>2. PICK f : Unwinds(f, <<>>, 0) /\ Rebuild(<<>>) = f[1..0]
  BY <1>1, RebuildUnwinds
<1>3. QED
  BY <1>2, UnwindsStep

(* The loop, on a release or a recovery: the row is found by its unique token. *)
LEMMA StepCloses ==
  ASSUME TypeOK, TokensUnique, NEW l \in leases, NEW status \in {"released", "recovered"},
         NEW new, new = [l EXCEPT !.status = status]
  PROVE  ReplayStep(leases, [type |-> status, row |-> new]) = (leases \ {l}) \cup {new}
<1> DEFINE row(x) == IF ~SameToken(x, new) THEN x ELSE [x EXCEPT !.status = new.status]
<1>1. l \in Lease
  BY DEF TypeOK
<1>2. SameToken(l, new) /\ new.status = status
  BY <1>1 DEF Lease, SameToken
<1>3. row(l) = new
  BY <1>2
<1>4. ASSUME NEW x \in leases, x # l PROVE row(x) = x
  BY <1>2, <1>4 DEF TokensUnique, SameToken
<1>5. ReplayStep(leases, [type |-> status, row |-> new]) = {row(x) : x \in leases}
  BY DEF ReplayStep
<1> HIDE DEF row
<1>6. QED
  BY <1>3, <1>4, <1>5

(* The row of a renewal. *)
Renewed(l, now, until) == [l EXCEPT !.renewed = now, !.expires = until]

(* The loop, on a renewal. *)
LEMMA StepRenews ==
  ASSUME TypeOK, TokensUnique, NEW l \in leases, NEW now \in Nat, NEW until \in Nat,
         NEW new, new = Renewed(l, now, until)
  PROVE  ReplayStep(leases, [type |-> "renewed", row |-> new]) = (leases \ {l}) \cup {new}
<1> DEFINE row(x) == IF ~SameToken(x, new) THEN x ELSE [x EXCEPT !.renewed = new.renewed, !.expires = new.expires]
<1>1. l \in Lease
  BY DEF TypeOK
<1>2. SameToken(l, new) /\ new.renewed = now /\ new.expires = until
  BY <1>1 DEF Lease, SameToken, Renewed
<1>3. row(l) = new
  BY <1>2 DEF Renewed
<1>4. ASSUME NEW x \in leases, x # l PROVE row(x) = x
  BY <1>2, <1>4 DEF TokensUnique, SameToken
<1>5. ReplayStep(leases, [type |-> "renewed", row |-> new]) = {row(x) : x \in leases}
  BY DEF ReplayStep
<1> HIDE DEF row
<1>6. QED
  BY <1>3, <1>4, <1>5

(* The loop, on the event of a grant. *)
LEMMA StepGrants ==
  ASSUME NEW rows, NEW new
  PROVE  ReplayStep(rows, [type |-> "acquired", row |-> new]) = rows \cup {new}
BY DEF ReplayStep

(* At most one lease of an attempt is active. *)
LEMMA OneActive ==
  ASSUME IInv, NEW a, NEW l \in Active(a), NEW m \in Active(a)
  PROVE  l = m
<1>1. /\ l \in leases /\ l.attempt = a /\ l.status = "active" /\ l.gen \in Nat
      /\ m \in leases /\ m.attempt = a /\ m.status = "active" /\ m.gen \in Nat
  BY DEF Active, IInv, TypeOK, Lease
<1>2. l.gen <= m.gen /\ m.gen <= l.gen
  BY <1>1 DEF IInv, ActiveIsNewest
<1>3. SameToken(l, m)
  BY <1>1, <1>2 DEF SameToken
<1>4. QED
  BY <1>1, <1>3 DEF IInv, TokensUnique

LEMMA NextLeaseReplay ==
  ASSUME IInv, LeaseReplayMatchesTable, [Next]_vars
  PROVE  LeaseReplayMatchesTable'
<1>0. /\ events \in Seq(LeaseEvent) /\ leases \subseteq Lease
      /\ TypeOK /\ TokensUnique /\ GensHaveMax /\ CallsAreTheirs
      /\ Rebuild(events) = leases
  BY DEF IInv, TypeOK, Rebuild, LeaseReplayMatchesTable
<1>1. ASSUME NEW e \in LeaseEvent, events' = Append(events, e), leases' = ReplayStep(leases, e)
      PROVE  LeaseReplayMatchesTable'
  <2>1. Rebuild(events') = leases'
    BY <1>0, <1>1, RebuildAppend
  <2>2. QED
    BY <2>1 DEF Rebuild, LeaseReplayMatchesTable
<1>2. ASSUME NEW l \in leases, NEW status \in {"released", "recovered"}, Close(l, status)
      PROVE  LeaseReplayMatchesTable'
  <2> DEFINE new == [l EXCEPT !.status = status]
             e == [type |-> status, row |-> new]
  <2>1. l \in Lease
    BY <1>0
  <2>2. /\ new \in Lease /\ SameToken(l, new)
        /\ new = [l EXCEPT !.status = status]
    BY <2>1 DEF Lease, SameToken
  <2>3. e \in LeaseEvent
    BY <2>2 DEF LeaseEvent
  <2>4. events' = Append(events, e) /\ leases' = (leases \ {l}) \cup {new}
    BY <1>2 DEF Close
  <2> HIDE DEF new
  <2>5. ReplayStep(leases, e) = (leases \ {l}) \cup {new}
    BY <1>0, <2>2, StepCloses
  <2>6. QED
    BY <1>1, <2>3, <2>4, <2>5
<1>3. ASSUME NEW p \in Caller, Renew(p)
      PROVE  LeaseReplayMatchesTable'
  <2>1. PICK l \in Named(call[p]) :
          \/ UNCHANGED <<leases, events>>
          \/ LET new == [l EXCEPT !.renewed = call[p].now, !.expires = call[p].now + TTL]
             IN /\ leases' = (leases \ {l}) \cup {new}
                /\ events' = Append(events, [type |-> "renewed", row |-> new])
    BY <1>3 DEF Renew
  <2> DEFINE new == [l EXCEPT !.renewed = call[p].now, !.expires = call[p].now + TTL]
             e == [type |-> "renewed", row |-> new]
  <2>2. call[p] \in Call
    BY <1>0, <1>3, CallTyped DEF Renew, Op
  <2>3. l \in leases /\ l \in Lease
    BY <1>0 DEF Named
  <2>4. call[p].now \in Nat /\ call[p].now + TTL \in Nat
    BY <2>2, LeaseAssumption DEF Call
  <2>5. /\ new \in Lease /\ SameToken(l, new)
        /\ new = Renewed(l, call[p].now, call[p].now + TTL)
    BY <2>3, <2>4 DEF Lease, SameToken, Renewed
  <2>6. e \in LeaseEvent
    BY <2>5 DEF LeaseEvent
  <2>7. \/ UNCHANGED <<leases, events>>
        \/ events' = Append(events, e) /\ leases' = (leases \ {l}) \cup {new}
    BY <2>1
  <2> HIDE DEF new
  <2>8. ReplayStep(leases, e) = (leases \ {l}) \cup {new}
    BY <1>0, <2>3, <2>4, <2>5, StepRenews
  <2>9. CASE UNCHANGED <<leases, events>>
    BY <2>9 DEF LeaseReplayMatchesTable
  <2>10. QED
    BY <1>1, <2>6, <2>7, <2>8, <2>9
<1>4. ASSUME NEW p \in Caller, AcquireGranted(p)
      PROVE  LeaseReplayMatchesTable'
  <2> DEFINE old == Active(call[p].attempt)
             new == Granted(p)
             granted == [type |-> "acquired", row |-> new]
  <2>1. call[p].op = "acquire" /\ p \in Owner
    BY <1>0, <1>4 DEF AcquireGranted, CallsAreTheirs
  <2>2. call[p] \in Call
    BY <1>0, <2>1, CallTyped DEF Op
  <2>3. new \in Lease
    BY <1>0, <2>1, <2>2, GrantedType
  <2>4. granted \in LeaseEvent
    BY <2>3 DEF LeaseEvent
  <2>5. /\ leases' = (leases \ old) \cup {Fence(l) : l \in old} \cup {new}
        /\ \/ old = {} /\ events' = Append(events, granted)
           \/ \E l \in old : events' = events \o <<[type |-> "recovered", row |-> Fence(l)], granted>>
    BY <1>4 DEF AcquireGranted, AcquireEvents
  <2> HIDE DEF new
  <2>6. CASE old = {} /\ events' = Append(events, granted)
    <3>1. leases' = leases \cup {new}
      BY <2>5, <2>6
    <3>2. QED
      BY <1>1, <2>4, <2>6, <3>1, StepGrants
  <2>7. CASE \E l \in old : events' = events \o <<[type |-> "recovered", row |-> Fence(l)], granted>>
    <3>1. PICK l \in old : events' = events \o <<[type |-> "recovered", row |-> Fence(l)], granted>>
      BY <2>7
    <3> DEFINE fenced == [type |-> "recovered", row |-> Fence(l)]
               mid == Append(events, fenced)
    <3>2. old = {l}
      BY OneActive
    <3>3. l \in leases /\ l \in Lease
      BY <1>0 DEF Active
    <3>4. /\ Fence(l) \in Lease /\ SameToken(l, Fence(l))
          /\ Fence(l) = [l EXCEPT !.status = "recovered"]
      BY <3>3 DEF Fence, Lease, SameToken
    <3>5. fenced \in LeaseEvent
      BY <3>4 DEF LeaseEvent
    <3>6. mid \in Seq(LeaseEvent) /\ events' = Append(mid, granted)
      <4> HIDE DEF fenced, granted
      <4>1. events' = events \o <<fenced, granted>>
        BY <3>1 DEF fenced
      <4>2. QED
        BY <1>0, <2>4, <3>5, <4>1
    <3>7. Rebuild(mid) = (leases \ {l}) \cup {Fence(l)}
      <4>1. ReplayStep(leases, fenced) = (leases \ {l}) \cup {Fence(l)}
        BY <1>0, <3>3, <3>4, StepCloses
      <4>2. Rebuild(mid) = ReplayStep(Rebuild(events), fenced)
        BY <1>0, <3>5, RebuildAppend
      <4>3. QED
        BY <1>0, <4>1, <4>2
    <3> HIDE DEF mid
    <3>8. Rebuild(events') = Rebuild(mid) \cup {new}
      BY <2>4, <3>6, RebuildAppend, StepGrants
    <3>9. leases' = (leases \ {l}) \cup {Fence(l)} \cup {new}
      BY <2>5, <3>2
    <3>10. Rebuild(events') = leases'
      BY <3>7, <3>8, <3>9
    <3>11. QED
      BY <3>10 DEF Rebuild, LeaseReplayMatchesTable
  <2>8. QED
    BY <2>5, <2>6, <2>7
<1>5. CASE UNCHANGED <<leases, events>>
  BY <1>5 DEF LeaseReplayMatchesTable
<1>6. ASSUME NEW p \in Caller, Release(p) \/ Recover(p)
      PROVE  LeaseReplayMatchesTable'
  <2>1. \/ UNCHANGED <<leases, events>>
        \/ \E l \in leases, status \in {"released", "recovered"} : Close(l, status)
    BY <1>6 DEF Release, Recover, Named
  <2>2. QED
    BY <1>2, <1>5, <2>1
<1>7. ASSUME NEW p \in Caller, AcquireBusy(p) \/ Validate(p)
      PROVE  UNCHANGED <<leases, events>>
  BY <1>7 DEF AcquireBusy, Validate
<1>8. CASE Tick \/ UNCHANGED vars
  BY <1>5, <1>8 DEF Tick, vars
<1>9. ASSUME NEW p \in Caller, NEW op \in Op, NEW a \in Attempt,
             NEW g \in 0..Cardinality(leases), Begin(p, op, a, g)
      PROVE  UNCHANGED <<leases, events>>
  BY <1>9 DEF Begin
<1>10. QED
  BY <1>3, <1>4, <1>5, <1>6, <1>7, <1>8, <1>9 DEF Next

(* replay_leases() as it is written, one event after another, rebuilds the   *)
(* lease rows from the events, whoever called what in whatever order.        *)
THEOREM LeaseLoopReplays == Spec => []LeaseReplayMatchesTable
<1>1. Init => LeaseReplayMatchesTable
  BY RebuildEmpty DEF Init, LeaseReplayMatchesTable, Rebuild
<1>2. IInv /\ LeaseReplayMatchesTable /\ [Next]_vars => LeaseReplayMatchesTable'
  BY NextLeaseReplay
<1>3. QED
  BY <1>1, <1>2, Invariance, PTL DEF Spec
=============================================================================
