---------------------------- MODULE Gateway_proofs ----------------------------
(***************************************************************************)
(* Proofs about Gateway, for any requests, watches, entities and channel   *)
(* capacity.  What Inbound_proofs shows of the handlers is used for them   *)
(* here: the gateway is a refinement of Inbound.                           *)
(***************************************************************************)
EXTENDS Gateway, Inbound_proofs, Integers

\* Each step of the gateway is one of Inbound or leaves its variables alone.
LEMMA InboundStep ==
    ASSUME [GatewayNext]_gatewayVars
    PROVE  [Next]_vars
<1>1. ASSUME NEW r \in Requests, Webhook(r) PROVE [Next]_vars
  BY <1>1 DEF Webhook, Outside, Handler, Step, Publish, PanicOnLock, Next, Handle
<1>2. CASE StageOverflow
  BY <1>2 DEF StageOverflow
<1>3. CASE Host
  BY <1>3 DEF Host, Watch, Cancel, StartEntity, DropEntity, Others
<1>4. ASSUME NEW e \in Entities, Dispatcher(e) PROVE [Next]_vars
  BY <1>4 DEF Dispatcher, Subscribe, RecvLagged, RecvOk, Snapshot, Die, Emit, Exit, Others
<1>5. CASE UNCHANGED gatewayVars
  BY <1>5 DEF gatewayVars
<1> QED BY <1>1, <1>2, <1>3, <1>4, <1>5 DEF GatewayNext

\* The gateway implements the webhook receiver: what is proved of Inbound holds
\* of the handlers in it, poisoned lock or not.
THEOREM GatewayIsInbound == GatewaySpec => Spec
<1>1. GatewayInit => Init
  BY DEF GatewayInit
<1>2. [GatewayNext]_gatewayVars => [Next]_vars
  BY InboundStep
<1> QED BY <1>1, <1>2, PTL DEF GatewaySpec, Spec

-----------------------------------------------------------------------------
\* The steps that leave the watch side alone: of handlers short of publishing,
\* of agents, of what surrounds a request.
Calm ==
    \/ StageOverflow
    \/ \E r \in Requests : Outside(r) \/ (r \notin panicked /\ (Step(r) \/ PanicOnLock(r)))
    \/ UNCHANGED gatewayVars

LEMMA GatewayCases ==
    ASSUME [GatewayNext]_gatewayVars
    PROVE  \/ Calm
           \/ \E r \in Requests : r \notin panicked /\ Publish(r)
           \/ \E w \in Watches :
                 Cancel(w) \/ \E ks \in SUBSET ALL_KINDS \ {{}} : Watch(w, ks)
           \/ \E e \in Entities : StartEntity(e) \/ DropEntity(e) \/ Dispatcher(e)
BY DEF GatewayNext, Webhook, Handler, Host, Calm

LEMMA CalmFrame ==
    ASSUME Calm
    PROVE  /\ UNCHANGED <<watchVars, notices>>
           /\ poisoned' = "yes" \/ poisoned' = poisoned
BY DEF Calm, StageOverflow, Outside, Step, PanicOnLock, gatewayVars, vars, stateVars,
       Refuse, Arrive, Accept, PushTask, RecordStatus, Stamp, RecordEvent, MaybePush, Reply

\* The type of the gateway's own state.
WatchTypeOK ==
    /\ poisoned \in {"yes", "no"}
    /\ panicked \subseteq Requests
    /\ registry \in [Watches -> {"new", "live", "cancelled"}]
    /\ filters \in [Watches -> SUBSET ALL_KINDS]
    /\ phase \in [Entities -> Phases]
    /\ stop_tx \in [Entities -> {"armed", "sent"}]
    /\ rx \in [Entities -> Nat \ {0}]
    /\ emitters \in [Entities -> SUBSET Watches]
    /\ emitted \in [Entities -> [Watches -> Seq(Nat)]]
    /\ audience \in Seq(SUBSET Entities)
    /\ missed \in [Entities -> SUBSET Nat]
    /\ since \in [Watches -> Nat]
    /\ until \in [Watches -> Nat]

\* What an Emit leaves.
LEMMA EmitFacts ==
    ASSUME WatchTypeOK, NEW e \in Entities, NEW w \in Watches, Emit(e, w)
    PROVE  /\ emitted' \in [Entities -> [Watches -> Seq(Nat)]]
           /\ Current(e) \in Nat
           /\ emitted'[e][w] = Append(emitted[e][w], Current(e))
           /\ Told(e, w)' = Told(e, w) \union {Current(e)}
           /\ emitted'[e][w] # <<>>
           /\ \A v \in Watches \ {w} : emitted'[e][v] = emitted[e][v]
           /\ \A f \in Entities \ {e} : emitted'[f] = emitted[f]
<1>1. Current(e) \in Nat
  BY DEF Current, WatchTypeOK
<1>2. emitted' = [emitted EXCEPT ![e][w] = Append(@, Current(e))]
  BY DEF Emit
<1> DEFINE s == emitted[e][w]
           c == Current(e)
<1>3. s \in Seq(Nat) /\ c \in Nat
  BY <1>1 DEF WatchTypeOK
<1>4. emitted'[e][w] = Append(s, c)
  BY <1>2 DEF WatchTypeOK
<1> HIDE DEF s, c
<1>5. /\ Append(s, c) \in Seq(Nat) /\ Append(s, c) # <<>>
      /\ DOMAIN Append(s, c) = DOMAIN s \union {Len(s) + 1}
      /\ \A i \in DOMAIN s : Append(s, c)[i] = s[i]
      /\ Append(s, c)[Len(s) + 1] = c
  <2>1. /\ Append(s, c) \in Seq(Nat) /\ Append(s, c) # <<>>
        /\ Len(s) \in Nat /\ DOMAIN s = 1..Len(s)
        /\ DOMAIN Append(s, c) = 1..(Len(s) + 1)
        /\ \A i \in 1..Len(s) : Append(s, c)[i] = s[i]
        /\ Append(s, c)[Len(s) + 1] = c
    BY <1>3
  <2>2. DOMAIN Append(s, c) = DOMAIN s \union {Len(s) + 1}
    BY <2>1
  <2> QED BY <2>1, <2>2
<1>6. Range(Append(s, c)) = Range(s) \union {c}
  BY <1>5, Zenon DEF Range
<1>7. /\ \A v \in Watches \ {w} : emitted'[e][v] = emitted[e][v]
      /\ \A f \in Entities \ {e} : emitted'[f] = emitted[f]
  BY <1>2 DEF WatchTypeOK
<1>8. emitted' \in [Entities -> [Watches -> Seq(Nat)]]
  BY <1>2, <1>5 DEF WatchTypeOK, s, c
<1> QED BY <1>1, <1>4, <1>5, <1>6, <1>7, <1>8 DEF s, c, Told

LEMMA TypePreserved ==
    ASSUME TypeOK, WatchTypeOK, [GatewayNext]_gatewayVars
    PROVE  WatchTypeOK'
<1> USE DEF WatchTypeOK
<1>1. CASE Calm
  <2>1. panicked' \subseteq Requests
    BY <1>1 DEF Calm, StageOverflow, Outside, Step, PanicOnLock, gatewayVars
  <2> QED BY <1>1, <2>1, CalmFrame DEF watchVars, hostVars, dispVars
<1>2. ASSUME NEW r \in Requests, Publish(r) PROVE WatchTypeOK'
  <2>1. {e \in Entities : Subscribed(e)} \in SUBSET Entities
    OBVIOUS
  <2>2. audience' \in Seq(SUBSET Entities)
    BY <1>2, <2>1 DEF Publish
  <2>3. Len(notices) + 1 \in Nat
    BY DEF TypeOK
  <2>4. missed' \in [Entities -> SUBSET Nat]
    BY <1>2, <2>3 DEF Publish
  <2> QED BY <1>2, <2>2, <2>4 DEF Publish, hostVars, dispVars
<1>3. ASSUME NEW w \in Watches, NEW ks \in SUBSET ALL_KINDS, Watch(w, ks)
      PROVE  WatchTypeOK'
  <2>1. Len(notices) \in Nat
    BY DEF TypeOK
  <2> QED BY <1>3, <2>1 DEF Watch, dispVars
<1>4. ASSUME NEW w \in Watches, Cancel(w) PROVE WatchTypeOK'
  <2>1. Len(notices) \in Nat
    BY DEF TypeOK
  <2> QED BY <1>4, <2>1 DEF Cancel, dispVars
<1>5. ASSUME NEW e \in Entities, StartEntity(e) \/ DropEntity(e) \/ Dispatcher(e)
      PROVE  WatchTypeOK'
  <2> USE DEF Others, hostVars, Phases
  <2>0. Len(notices) \in Nat /\ OldestRetained \in Nat \ {0}
    BY ChannelAssumption DEF TypeOK, OldestRetained
  <2>1. CASE StartEntity(e)
    BY <2>1 DEF StartEntity
  <2>2. CASE DropEntity(e)
    BY <2>2 DEF DropEntity
  <2>3. CASE Subscribe(e)
    BY <2>0, <2>3 DEF Subscribe
  <2>4. CASE RecvLagged(e)
    <3>1. rx[e] .. OldestRetained - 1 \subseteq Nat
      BY <2>0
    <3> QED BY <2>0, <2>4, <3>1 DEF RecvLagged
  <2>5. CASE RecvOk(e)
    BY <2>5 DEF RecvOk
  <2>6. CASE Snapshot(e)
    BY <2>6 DEF Snapshot, MatchingEmitters
  <2>7. CASE Die(e)
    <3>1. Current(e) .. Len(notices) \subseteq Nat
      BY <2>0 DEF Current
    <3> QED BY <2>7, <3>1 DEF Die
  <2>8. ASSUME NEW w \in Watches, Emit(e, w) PROVE WatchTypeOK'
    BY <2>8, EmitFacts DEF Emit
  <2>9. CASE Exit(e)
    <3>1. rx[e] .. Len(notices) \subseteq Nat
      BY <2>0
    <3> QED BY <2>9, <3>1 DEF Exit
  <2> QED BY <1>5, <2>1, <2>2, <2>3, <2>4, <2>5, <2>6, <2>7, <2>8, <2>9 DEF Dispatcher
<1> QED BY GatewayCases, <1>1, <1>2, <1>3, <1>4, <1>5

\* The type invariant of the gateway.
THEOREM GatewayTypeCorrect == GatewaySpec => []GatewayTypeOK
<1>1. GatewayInit => WatchTypeOK
  <2>1. <<>> \in Seq(Nat) /\ <<>> \in Seq(SUBSET Entities)
    OBVIOUS
  <2> QED BY <2>1 DEF GatewayInit, WatchTypeOK, Phases
<1>2. TypeOK /\ WatchTypeOK /\ [GatewayNext]_gatewayVars => WatchTypeOK'
  BY TypePreserved
<1>3. TypeOK /\ WatchTypeOK => GatewayTypeOK
  BY DEF WatchTypeOK, GatewayTypeOK
<1> QED BY <1>1, <1>2, <1>3, GatewayIsInbound, TypeCorrect, PTL DEF GatewaySpec

-----------------------------------------------------------------------------
\* What no step of Inbound takes back: the parameters of a request that was
\* announced or wrote a status, a recorded event, a known status.
LEMMA Monotone ==
    ASSUME TypeOK, HandlerInv, [Next]_vars
    PROVE  /\ \A r \in Requests : pc[r] # "new" =>
                 /\ pc'[r] # "new"
                 /\ kind'[r] = kind[r] /\ sid'[r] = sid[r] /\ status'[r] = status[r]
           /\ Range(recorded) \subseteq Range(recorded')
           /\ Range(notices) \subseteq Range(notices')
           /\ \A s \in Sids : last_status[s] # None => last_status'[s] # None
<1>1. ASSUME NEW q \in Requests, Arrive(q)
      PROVE  /\ \A r \in Requests : pc[r] # "new" =>
                   /\ pc'[r] # "new"
                   /\ kind'[r] = kind[r] /\ sid'[r] = sid[r] /\ status'[r] = status[r]
             /\ UNCHANGED <<recorded, notices, last_status>>
  BY <1>1 DEF Arrive, Accept, Goto, stateVars, TypeOK
<1>2. ASSUME NEW q \in Requests, RecordStatus(q)
      PROVE  /\ \A s \in Sids : last_status[s] # None => last_status'[s] # None
             /\ \A r \in Requests : pc[r] # "new" => pc'[r] # "new"
             /\ UNCHANGED <<recorded, notices, paramVars>>
  BY <1>2 DEF RecordStatus, Goto, HandlerInv, TypeOK
<1>3. ASSUME NEW q \in Requests, RecordEvent(q)
      PROVE  /\ Range(recorded') = Range(recorded) \union {q}
             /\ \A r \in Requests : pc[r] # "new" => pc'[r] # "new"
             /\ UNCHANGED <<last_status, notices, paramVars>>
  BY <1>3, AppendFacts DEF RecordEvent, Goto, TypeOK
<1>4. ASSUME NEW q \in Requests, NotifyInbound(q)
      PROVE  /\ Range(notices') = Range(notices) \union {q}
             /\ \A r \in Requests : pc[r] # "new" => pc'[r] # "new"
             /\ UNCHANGED <<recorded, last_status, paramVars>>
  BY <1>4, AppendFacts DEF NotifyInbound, Goto, TypeOK
<1>5. ASSUME NEW q \in Requests, Quiet(q)
      PROVE  /\ \A r \in Requests : pc[r] # "new" => pc'[r] # "new"
             /\ UNCHANGED <<stateVars, paramVars>>
  BY <1>5, QuietFrame DEF Quiet, Refuse, Stamp, MaybePush, Reply, PushTask, Goto, Answer, TypeOK
<1> QED BY <1>1, <1>2, <1>3, <1>4, <1>5, StepCases DEF stateVars, paramVars, vars

\* A request that is nowhere but at its start has left nothing.
LEMMA NotNew ==
    ASSUME HandlerInv, NEW r \in Requests,
           r \in Range(notices) \/ r \in Range(written)
    PROVE  pc[r] # "new"
BY DEF HandlerInv

LEMMA TracePreserved ==
    ASSUME TypeOK, HandlerInv, \A r \in Requests : TraceInv(r), [Next]_vars
    PROVE  \A r \in Requests : TraceInv(r)'
<1> USE DEF TraceInv
<1>1. ASSUME NEW q \in Requests, Arrive(q), NEW r \in Requests PROVE TraceInv(r)'
  <2>1. /\ pc[q] = "new" /\ pc'[q] \in {"status", "stamp"}
        /\ UNCHANGED <<written, notices, last_status>>
        /\ q # r => /\ sid'[r] = sid[r] /\ kind'[r] = kind[r] /\ pc'[r] = pc[r]
    BY <1>1 DEF Arrive, Accept, Goto, stateVars, TypeOK
  <2>2. q \notin Range(written) /\ q \notin Range(notices)
    BY <2>1, NotNew
  <2> QED BY <2>1, <2>2
<1>2. ASSUME NEW q \in Requests, RecordStatus(q), NEW r \in Requests PROVE TraceInv(r)'
  <2>1. Range(written') = Range(written) \union {q}
    BY <1>2, AppendFacts DEF RecordStatus, TypeOK
  <2>2. sid[q] \in Sids /\ status[q] # None
    BY <1>2 DEF RecordStatus, HandlerInv, TypeOK
  <2>3. r \in Range(written) => sid[r] \in Sids
    BY DEF HandlerInv, TypeOK
  <2> QED BY <1>2, <2>1, <2>2, <2>3 DEF RecordStatus, Goto, paramVars, TypeOK
<1>3. ASSUME NEW q \in Requests, RecordEvent(q), NEW r \in Requests PROVE TraceInv(r)'
  BY <1>3 DEF RecordEvent, Goto, paramVars, TypeOK
<1>4. ASSUME NEW q \in Requests, NotifyInbound(q), NEW r \in Requests PROVE TraceInv(r)'
  <2>1. Range(notices') = Range(notices) \union {q}
    BY <1>4, AppendFacts DEF NotifyInbound, TypeOK
  <2> QED BY <1>4, <2>1 DEF NotifyInbound, Goto, paramVars, TypeOK
<1>5. ASSUME NEW q \in Requests, Quiet(q), NEW r \in Requests PROVE TraceInv(r)'
  <2>1. UNCHANGED <<stateVars, paramVars>>
    BY <1>5, QuietFrame
  <2>2. \/ pc'[r] = pc[r] \/ pc'[r] \in {"record", "answered"}
        \/ pc[r] = "push" /\ pc'[r] = "reply"
    BY <1>5 DEF Quiet, Refuse, Stamp, MaybePush, Reply, PushTask, Goto, Answer, TypeOK
  <2> QED BY <2>1, <2>2 DEF stateVars, paramVars
<1>6. CASE UNCHANGED vars
  BY <1>6 DEF vars, stateVars, paramVars
<1> QED BY <1>1, <1>2, <1>3, <1>4, <1>5, <1>6, StepCases

\* A handler that panicked takes no further step.
LEMMA PanickedPreserved ==
    ASSUME TypeOK, WatchTypeOK, \A r \in panicked : MayTakeLock(r) /\ ~LockIsSound,
           [GatewayNext]_gatewayVars
    PROVE  \A r \in panicked' : MayTakeLock(r)' /\ ~LockIsSound'
<1> USE DEF MayTakeLock, TakesLock, LockIsSound
<1>1. ASSUME NEW q \in Requests, Outside(q), NEW r \in panicked
      PROVE  pc'[r] = pc[r] /\ kind'[r] = kind[r] /\ sid'[r] = sid[r]
  BY <1>1 DEF Outside, Refuse, Arrive, Accept, PushTask, Goto, Answer, paramVars,
              TypeOK, WatchTypeOK
<1>2. ASSUME NEW q \in Requests \ panicked, Step(q) \/ Publish(q), NEW r \in panicked
      PROVE  pc'[r] = pc[r] /\ kind'[r] = kind[r] /\ sid'[r] = sid[r]
  <2>1. q # r /\ r \in Requests
    BY <1>2 DEF WatchTypeOK
  <2> QED BY <1>2, <2>1 DEF Step, Publish, RecordStatus, Stamp, RecordEvent, NotifyInbound,
              MaybePush, Reply, Goto, Answer, paramVars, TypeOK
<1>3. ASSUME NEW q \in Requests \ panicked, PanicOnLock(q)
      PROVE  \A r \in panicked' : MayTakeLock(r)' /\ ~LockIsSound'
  BY <1>3 DEF PanicOnLock, vars, paramVars
<1>4. ASSUME UNCHANGED <<pc, kind, sid, panicked>>, poisoned' = "yes" \/ poisoned' = poisoned
      PROVE  \A r \in panicked' : MayTakeLock(r)' /\ ~LockIsSound'
  BY <1>4
<1>5. CASE StageOverflow \/ UNCHANGED gatewayVars
  BY <1>4, <1>5 DEF StageOverflow, gatewayVars, vars, paramVars
<1>6. ASSUME NEW q \in Requests, Outside(q) \/ (q \notin panicked /\ (Step(q) \/ Publish(q)))
      PROVE  \A r \in panicked' : MayTakeLock(r)' /\ ~LockIsSound'
  <2>1. panicked' = panicked /\ poisoned' = poisoned
    BY <1>6 DEF Outside, Step, Publish
  <2> QED BY <1>1, <1>2, <1>6, <2>1
<1>7. ASSUME NEW w \in Watches, Cancel(w) \/ \E ks \in SUBSET ALL_KINDS \ {{}} : Watch(w, ks)
      PROVE  \A r \in panicked' : MayTakeLock(r)' /\ ~LockIsSound'
  BY <1>4, <1>7 DEF Cancel, Watch, vars, paramVars
<1>8. ASSUME NEW e \in Entities, StartEntity(e) \/ DropEntity(e) \/ Dispatcher(e)
      PROVE  \A r \in panicked' : MayTakeLock(r)' /\ ~LockIsSound'
  <2>1. UNCHANGED Others
    BY <1>8 DEF StartEntity, DropEntity, Dispatcher, Subscribe, RecvLagged, RecvOk, Snapshot,
                Die, Emit, Exit
  <2> QED BY <1>4, <2>1 DEF Others, vars, paramVars
<1> QED BY <1>3, <1>5, <1>6, <1>7, <1>8, GatewayCases DEF Calm

-----------------------------------------------------------------------------
\* What can be read of a notice can be read ever after.
LEMMA ReadableStays ==
    ASSUME TypeOK, HandlerInv, [Next]_vars,
           NEW w \in Watches, filters'[w] = filters[w],
           NEW r \in Range(notices), CanBeRead(r, w)
    PROVE  CanBeRead(r, w)'
<1>1. r \in Requests
  BY DEF TypeOK, Range
<1>2. pc[r] # "new"
  BY <1>1, NotNew
<1>3. sid[r] \in Sids \union {None}
  BY <1>1 DEF TypeOK
<1> QED BY <1>1, <1>2, <1>3, Monotone DEF CanBeRead

\* The notice an entity has in hand was published.
LEMMA InHand ==
    ASSUME TypeOK, WatchTypeOK, NEW e \in Entities, EntityInv(e),
           phase[e] \in {"received", "emitting"}
    PROVE  /\ Current(e) \in DOMAIN notices
           /\ notices[Current(e)] \in Range(notices)
           /\ notices[Current(e)] \in Requests
<1>1. Len(notices) \in Nat /\ DOMAIN notices = 1..Len(notices)
  BY DEF TypeOK
<1>2. Current(e) \in 1..Len(notices)
  BY <1>1 DEF EntityInv, Current, WatchTypeOK
<1> QED BY <1>1, <1>2 DEF Range, TypeOK

\* An entity that no step of its own moved keeps its bookkeeping, when nothing it
\* reads changed for the worse.
LEMMA Undisturbed ==
    ASSUME TypeOK, WatchTypeOK, NEW e \in Entities, EntityInv(e),
           notices' = notices, audience' = audience,
           phase'[e] = phase[e], rx'[e] = rx[e], emitters'[e] = emitters[e],
           emitted'[e] = emitted[e],
           poisoned' = "yes" \/ poisoned' = poisoned,
           \A r \in Range(notices) : kind'[r] = kind[r],
           \A w \in Watches : registry'[w] = "new" => registry[w] = "new",
           \A w \in Watches : registry[w] # "new" => filters'[w] = filters[w]
    PROVE  EntityInv(e)'
<1>1. Subscribed(e)' <=> Subscribed(e)
  BY DEF Subscribed
<1>2. Current(e)' = Current(e)
  BY DEF Current
<1>3. emitters[e] \subseteq Watches
  BY DEF WatchTypeOK
<1>4. \A w \in emitters[e] : phase[e] = "emitting" /\ w \in Watches /\ registry[w] # "new"
  BY <1>3 DEF EntityInv
<1>5. \A w \in emitters[e] : kind'[notices[Current(e)]] \in filters'[w]
  <2>1. emitters[e] # {} => kind'[notices[Current(e)]] = kind[notices[Current(e)]]
    BY <1>4, InHand
  <2>2. \A w \in emitters[e] : kind[notices[Current(e)]] \in filters[w]
    BY DEF EntityInv
  <2> QED BY <1>4, <2>1, <2>2
<1>6. \A w \in emitters[e] : registry'[w] # "new"
  BY <1>4
<1> QED BY <1>1, <1>2, <1>3, <1>5, <1>6 DEF EntityInv, LockIsSound

LEMMA PublishKeeps ==
    ASSUME TypeOK, WatchTypeOK, Len(audience) = Len(notices),
           NEW q \in Requests, Publish(q), NEW e \in Entities, EntityInv(e)
    PROVE  EntityInv(e)'
<1> DEFINE n == Len(notices)
<1>0. /\ notices \in Seq(Requests) /\ audience \in Seq(SUBSET Entities)
      /\ notices' = Append(notices, q)
      /\ audience' = Append(audience, {f \in Entities : Subscribed(f)})
      /\ {f \in Entities : Subscribed(f)} \in SUBSET Entities
  BY DEF Publish, NotifyInbound, TypeOK, WatchTypeOK
<1>1. /\ n \in Nat
      /\ Len(notices') = n + 1
      /\ \A p \in 1..n : notices'[p] = notices[p]
      /\ audience'[n + 1] = {f \in Entities : Subscribed(f)}
      /\ \A p \in 1..n : audience'[p] = audience[p]
  BY <1>0
<1>2. UNCHANGED <<kind, phase, rx, emitters, emitted, registry, filters, poisoned>>
  BY DEF Publish, NotifyInbound, paramVars, hostVars, dispVars
<1>3. Current(e)' = Current(e) /\ (Subscribed(e)' <=> Subscribed(e))
  BY <1>2 DEF Current, Subscribed
<1>4. phase[e] \in {"received", "emitting"} => Current(e) \in 1..n
  BY InHand DEF TypeOK
<1>5. Subscribed(e) => \A p \in rx[e] .. n + 1 : e \in audience'[p]
  <2>1. rx[e] \in Nat \ {0}
    BY DEF WatchTypeOK
  <2>2. \A p \in rx[e] .. n + 1 : (p \in rx[e] .. n /\ p \in 1..n) \/ p = n + 1
    BY <1>1, <2>1
  <2>3. Subscribed(e) => \A p \in rx[e] .. n : e \in audience[p]
    BY DEF EntityInv
  <2>4. Subscribed(e) => e \in audience'[n + 1]
    BY <1>1
  <2> QED BY <1>1, <2>2, <2>3, <2>4
<1>6. /\ phase[e] \in {"received", "emitting"} => e \in audience'[Current(e)]
      /\ \A w \in emitters[e] : kind[notices'[Current(e)]] \in filters[w]
  BY <1>1, <1>4 DEF EntityInv
<1>7. rx[e] <= n + 2
  BY <1>1 DEF EntityInv, WatchTypeOK
<1> HIDE DEF n
<1>8. rx'[e] <= Len(notices') + 1
  BY <1>1, <1>2, <1>7 DEF WatchTypeOK
<1>9. Subscribed(e)' => \A p \in rx'[e] .. Len(notices') : e \in audience'[p]
  BY <1>1, <1>2, <1>3, <1>5
<1> QED BY <1>2, <1>3, <1>6, <1>8, <1>9 DEF EntityInv, LockIsSound

\* A step of an entity keeps its own bookkeeping.
LEMMA OwnStepKeeps ==
    ASSUME TypeOK, WatchTypeOK, Len(audience) = Len(notices),
           NEW e \in Entities, EntityInv(e),
           StartEntity(e) \/ DropEntity(e) \/ Dispatcher(e)
    PROVE  EntityInv(e)'
<1> USE DEF Others, vars, stateVars, paramVars, hostVars
<1>1. Len(notices) \in Nat
  BY DEF TypeOK
<1>2. CASE StartEntity(e)
  BY <1>2 DEF StartEntity, EntityInv, Subscribed, Current, LockIsSound, WatchTypeOK
<1>3. CASE DropEntity(e)
  BY <1>3 DEF DropEntity, EntityInv, Subscribed, Current, LockIsSound, WatchTypeOK
<1>4. CASE Subscribe(e)
  BY <1>1, <1>4 DEF Subscribe, EntityInv, Subscribed, Current, LockIsSound, WatchTypeOK
<1>5. CASE RecvLagged(e)
  <2>1. OldestRetained \in Nat /\ OldestRetained <= Len(notices) + 1 /\ rx[e] < OldestRetained
    BY <1>1, <1>5, ChannelAssumption DEF RecvLagged, Lagging, OldestRetained
  <2> QED BY <1>1, <1>5, <2>1 DEF RecvLagged, EntityInv, Subscribed, Current, LockIsSound, WatchTypeOK
<1>6. CASE RecvOk(e)
  BY <1>1, <1>6 DEF RecvOk, EntityInv, Subscribed, Current, LockIsSound, WatchTypeOK
<1>7. CASE Snapshot(e)
  BY <1>1, <1>7 DEF Snapshot, MatchingEmitters, EntityInv, Subscribed, Current, LockIsSound, WatchTypeOK
<1>8. CASE Die(e)
  BY <1>1, <1>8 DEF Die, EntityInv, Subscribed, Current, LockIsSound, WatchTypeOK
<1>9. ASSUME NEW w \in Watches, Emit(e, w) PROVE EntityInv(e)'
  <2>1. /\ phase[e] = "emitting" /\ w \in emitters[e]
        /\ emitters'[e] = emitters[e] \ {w}
        /\ phase'[e] = IF emitters[e] = {w} THEN "listening" ELSE "emitting"
        /\ rx'[e] = rx[e]
        /\ UNCHANGED <<notices, kind, audience, poisoned, registry, filters>>
    BY <1>9 DEF Emit, WatchTypeOK
  <2>2. Current(e)' = Current(e) /\ Subscribed(e) /\ Subscribed(e)'
    BY <2>1 DEF Current, Subscribed
  <2>3. \A v \in Watches : registry[v] = "new" => emitted'[e][v] = <<>>
    <3>1. registry[w] # "new" /\ \A v \in Watches : registry[v] = "new" => emitted[e][v] = <<>>
      BY <2>1 DEF EntityInv
    <3>2. \A v \in Watches \ {w} : emitted'[e][v] = emitted[e][v]
      BY <1>9, EmitFacts
    <3> QED BY <3>1, <3>2
  <2> QED BY <2>1, <2>2, <2>3 DEF EntityInv, LockIsSound
<1>10. CASE Exit(e)
  BY <1>1, <1>10 DEF Exit, EntityInv, Subscribed, Current, LockIsSound, WatchTypeOK
<1> QED BY <1>2, <1>3, <1>4, <1>5, <1>6, <1>7, <1>8, <1>9, <1>10 DEF Dispatcher

\* A step of an entity leaves the others as they are.
LEMMA OtherEntities ==
    ASSUME WatchTypeOK, NEW e \in Entities,
           StartEntity(e) \/ DropEntity(e) \/ Dispatcher(e)
    PROVE  /\ UNCHANGED Others
           /\ \A f \in Entities \ {e} :
                 /\ phase'[f] = phase[f] /\ stop_tx'[f] = stop_tx[f] /\ rx'[f] = rx[f]
                 /\ emitters'[f] = emitters[f] /\ emitted'[f] = emitted[f]
                 /\ missed'[f] = missed[f]
<1>1. UNCHANGED Others
  BY DEF StartEntity, DropEntity, Dispatcher, Subscribe, RecvLagged, RecvOk, Snapshot,
         Die, Emit, Exit
<1>2. ASSUME NEW f \in Entities \ {e}
      PROVE  /\ phase'[f] = phase[f] /\ stop_tx'[f] = stop_tx[f] /\ rx'[f] = rx[f]
             /\ emitters'[f] = emitters[f] /\ missed'[f] = missed[f]
  BY DEF StartEntity, DropEntity, Dispatcher, Subscribe, RecvLagged, RecvOk, Snapshot,
         Die, Emit, Exit, WatchTypeOK
<1>3. \A f \in Entities \ {e} : emitted'[f] = emitted[f]
  BY EmitFacts DEF StartEntity, DropEntity, Dispatcher, Subscribe, RecvLagged, RecvOk,
         Snapshot, Die, Exit
<1> QED BY <1>1, <1>2, <1>3

LEMMA EntitiesPreserved ==
    ASSUME TypeOK, HandlerInv, WatchTypeOK, GatewayInv, [GatewayNext]_gatewayVars
    PROVE  \A e \in Entities : EntityInv(e)'
<1>1. Len(audience) = Len(notices) /\ \A e \in Entities : EntityInv(e)
  BY DEF GatewayInv
<1>2. \A r \in Range(notices) : kind'[r] = kind[r]
  <2>1. \A r \in Range(notices) : r \in Requests /\ pc[r] # "new"
    BY NotNew DEF TypeOK, Range
  <2> QED BY <2>1, InboundStep, Monotone
<1>3. CASE Calm
  BY <1>1, <1>2, <1>3, CalmFrame, Undisturbed DEF watchVars, hostVars, dispVars
<1>4. ASSUME NEW q \in Requests, Publish(q) PROVE \A e \in Entities : EntityInv(e)'
  BY <1>1, <1>4, PublishKeeps
<1>5. ASSUME NEW w \in Watches, Cancel(w) \/ \E ks \in SUBSET ALL_KINDS \ {{}} : Watch(w, ks)
      PROVE  \A e \in Entities : EntityInv(e)'
  <2>1. /\ UNCHANGED <<notices, audience, phase, rx, emitters, emitted, poisoned>>
        /\ \A v \in Watches : registry'[v] = "new" => registry[v] = "new"
        /\ \A v \in Watches : registry[v] # "new" => filters'[v] = filters[v]
    BY <1>5 DEF Cancel, Watch, vars, stateVars, dispVars, WatchTypeOK
  <2> QED BY <1>1, <1>2, <2>1, Undisturbed
<1>6. ASSUME NEW e \in Entities, StartEntity(e) \/ DropEntity(e) \/ Dispatcher(e)
      PROVE  \A f \in Entities : EntityInv(f)'
  <2>1. EntityInv(e)'
    BY <1>1, <1>6, OwnStepKeeps
  <2>2. UNCHANGED <<notices, audience, poisoned, registry, filters>>
    BY <1>6, OtherEntities DEF Others, vars, stateVars, hostVars
  <2>3. \A f \in Entities \ {e} : EntityInv(f)'
    BY <1>1, <1>2, <1>6, <2>2, OtherEntities, Undisturbed
  <2> QED BY <2>1, <2>3
<1> QED BY <1>3, <1>4, <1>5, <1>6, GatewayCases

-----------------------------------------------------------------------------
\* What each step adds to what a watch was told: nothing, or the notice that an
\* entity has in hand.
LEMMA Tells ==
    ASSUME TypeOK, WatchTypeOK, [GatewayNext]_gatewayVars,
           NEW e \in Entities, NEW w \in Watches
    PROVE  \/ Told(e, w)' = Told(e, w)
           \/ /\ Told(e, w)' = Told(e, w) \union {Current(e)}
              /\ phase[e] = "emitting" /\ w \in emitters[e]
              /\ UNCHANGED <<Others, rx>>
<1> USE DEF Told
<1>1. CASE UNCHANGED emitted
  BY <1>1
<1>2. ASSUME NEW f \in Entities, NEW v \in Watches, Emit(f, v)
      PROVE  \/ Told(e, w)' = Told(e, w)
             \/ /\ Told(e, w)' = Told(e, w) \union {Current(e)}
                /\ phase[e] = "emitting" /\ w \in emitters[e]
                /\ UNCHANGED <<Others, rx>>
  <2>1. CASE e = f /\ v = w
    BY <1>2, <2>1, EmitFacts DEF Emit
  <2>2. CASE e = f /\ v # w
    BY <1>2, <2>2, EmitFacts
  <2>3. CASE e # f
    BY <1>2, <2>3, EmitFacts
  <2> QED BY <2>1, <2>2, <2>3
<1>3. CASE Calm
  BY <1>1, <1>3, CalmFrame DEF watchVars
<1>4. ASSUME NEW q \in Requests, Publish(q) PROVE UNCHANGED emitted
  BY <1>4 DEF Publish
<1>5. ASSUME NEW v \in Watches, Cancel(v) \/ \E ks \in SUBSET ALL_KINDS \ {{}} : Watch(v, ks)
      PROVE  UNCHANGED emitted
  BY <1>5 DEF Cancel, Watch
<1>6. ASSUME NEW f \in Entities, StartEntity(f) \/ DropEntity(f) \/ Dispatcher(f)
      PROVE  UNCHANGED emitted \/ \E v \in Watches : Emit(f, v)
  BY <1>6 DEF StartEntity, DropEntity, Dispatcher, Subscribe, RecvLagged, RecvOk, Snapshot,
              Die, Exit
<1> QED BY <1>1, <1>2, <1>3, <1>4, <1>5, <1>6, GatewayCases

\* What has been published, and to whom, is not taken back; a watch that was told
\* of anything keeps its filter.
LEMMA Kept ==
    ASSUME TypeOK, HandlerInv, WatchTypeOK, GatewayInv, [GatewayNext]_gatewayVars
    PROVE  /\ \A p \in DOMAIN notices : p \in DOMAIN notices' /\ notices'[p] = notices[p]
           /\ \A p \in DOMAIN audience : p \in DOMAIN audience' /\ audience'[p] = audience[p]
           /\ Len(audience') = Len(notices')
           /\ \A w \in Watches : registry[w] # "new" => filters'[w] = filters[w]
<1>1. ASSUME NEW q \in Requests, Publish(q)
      PROVE  /\ \A p \in DOMAIN notices : p \in DOMAIN notices' /\ notices'[p] = notices[p]
             /\ \A p \in DOMAIN audience : p \in DOMAIN audience' /\ audience'[p] = audience[p]
             /\ Len(audience') = Len(notices')
             /\ filters' = filters
  <2>1. /\ notices \in Seq(Requests) /\ audience \in Seq(SUBSET Entities)
        /\ notices' = Append(notices, q)
        /\ audience' = Append(audience, {f \in Entities : Subscribed(f)})
        /\ {f \in Entities : Subscribed(f)} \in SUBSET Entities
        /\ Len(audience) = Len(notices) /\ filters' = filters
    BY <1>1 DEF Publish, NotifyInbound, hostVars, TypeOK, WatchTypeOK, GatewayInv
  <2> QED BY <2>1
<1>2. ASSUME NEW w \in Watches, Cancel(w) \/ \E ks \in SUBSET ALL_KINDS \ {{}} : Watch(w, ks)
      PROVE  /\ UNCHANGED <<notices, audience>>
             /\ \A v \in Watches : registry[v] # "new" => filters'[v] = filters[v]
  BY <1>2 DEF Cancel, Watch, vars, stateVars, WatchTypeOK
<1>3. CASE Calm
  BY <1>3, CalmFrame DEF watchVars, hostVars, GatewayInv
<1>4. ASSUME NEW e \in Entities, StartEntity(e) \/ DropEntity(e) \/ Dispatcher(e)
      PROVE  UNCHANGED <<notices, audience, filters>>
  BY <1>4, OtherEntities DEF Others, vars, stateVars, hostVars
<1> QED BY <1>1, <1>2, <1>3, <1>4, GatewayCases DEF GatewayInv

LEMMA TicksPreserved ==
    ASSUME TypeOK, HandlerInv, WatchTypeOK, GatewayInv, [GatewayNext]_gatewayVars
    PROVE  TickIsReadable' /\ ToldByListeners'
<1> SUFFICES ASSUME NEW e \in Entities, NEW w \in Watches, NEW p \in Told(e, w)'
             PROVE  /\ p \in DOMAIN notices' /\ CanBeRead(notices[p], w)'
                    /\ p \in DOMAIN audience' /\ e \in audience'[p]
  BY DEF TickIsReadable, ToldByListeners
<1>1. EntityInv(e) /\ TickIsReadable /\ ToldByListeners
  BY DEF GatewayInv
<1>2. [Next]_vars
  BY InboundStep
<1>3. CASE p \in Told(e, w)
  <2>1. p \in DOMAIN notices /\ CanBeRead(notices[p], w) /\ p \in DOMAIN audience /\ e \in audience[p]
    BY <1>1, <1>3 DEF TickIsReadable, ToldByListeners
  <2>2. registry[w] # "new"
    BY <1>1, <1>3 DEF EntityInv, Told, Range
  <2>3. notices[p] \in Range(notices)
    BY <2>1 DEF Range
  <2>4. CanBeRead(notices[p], w)'
    <3>1. notices'[p] = notices[p] /\ filters'[w] = filters[w]
      BY <2>1, <2>2, Kept
    <3>2. PICK r \in Range(notices) : r = notices[p]
      BY <2>3
    <3>3. CanBeRead(r, w)
      BY <2>1, <3>2
    <3>4. CanBeRead(r, w)'
      BY <1>2, <3>1, <3>3, ReadableStays
    <3> QED BY <3>1, <3>2, <3>4 DEF CanBeRead
  <2> QED BY <2>1, <2>4, Kept
<1>4. CASE p \notin Told(e, w)
  <2>1. /\ p = Current(e) /\ phase[e] = "emitting" /\ w \in emitters[e]
        /\ UNCHANGED Others
    BY <1>4, Tells
  <2>2. p \in DOMAIN notices /\ notices[p] \in Range(notices) /\ notices[p] \in Requests
    BY <1>1, <2>1, InHand
  <2>3. CanBeRead(notices[p], w)
    <3>1. notices[p] \in Range(recorded)
      BY <2>2 DEF HandlerInv
    <3>2. kind[notices[p]] \in filters[w]
      BY <1>1, <2>1 DEF EntityInv
    <3>3. /\ kind[notices[p]] = "status" /\ sid[notices[p]] # None /\ status[notices[p]] # None
          => last_status[sid[notices[p]]] # None
      BY <2>2 DEF HandlerInv, GatewayInv, TraceInv
    <3> QED BY <3>1, <3>2, <3>3 DEF CanBeRead
  <2>4. e \in audience[p]
    BY <1>1, <2>1 DEF EntityInv
  <2>5. p \in DOMAIN audience
    BY <2>2 DEF GatewayInv, TypeOK, WatchTypeOK
  <2>6. UNCHANGED <<notices, audience, recorded, kind, sid, status, last_status, filters>>
    BY <2>1 DEF Others, vars, stateVars, paramVars, hostVars
  <2>7. CanBeRead(notices[p], w)'
    BY <2>3, <2>6 DEF CanBeRead
  <2> QED BY <2>2, <2>4, <2>5, <2>6, <2>7
<1> QED BY <1>3, <1>4

\* The inductive invariant of the gateway: where a handler stands agrees with what
\* it left, a panicked one stands at the lock, and every entity holds a notice
\* that was published while it listened.
THEOREM GatewayInvariance == GatewaySpec => []GatewayInv
<1>1. GatewayInit => WatchTypeOK
  <2>1. <<>> \in Seq(Nat) /\ <<>> \in Seq(SUBSET Entities)
    OBVIOUS
  <2> QED BY <2>1 DEF GatewayInit, WatchTypeOK, Phases
<1>2. GatewayInit => GatewayInv
  BY DEF GatewayInit, Init, GatewayInv, TraceInv, EntityInv, TickIsReadable, ToldByListeners,
         Subscribed, Told, Range
<1>3. TypeOK /\ HandlerInv /\ WatchTypeOK /\ GatewayInv /\ [GatewayNext]_gatewayVars
      => WatchTypeOK' /\ GatewayInv'
  <2> SUFFICES ASSUME TypeOK, HandlerInv, WatchTypeOK, GatewayInv, [GatewayNext]_gatewayVars
               PROVE  WatchTypeOK' /\ GatewayInv'
    OBVIOUS
  <2>1. \A r \in Requests : TraceInv(r)'
    BY InboundStep, TracePreserved DEF GatewayInv
  <2>2. \A r \in panicked' : MayTakeLock(r)' /\ ~LockIsSound'
    BY PanickedPreserved DEF GatewayInv
  <2>3. Len(audience') = Len(notices')
    BY Kept
  <2> QED BY <2>1, <2>2, <2>3, TypePreserved, EntitiesPreserved, TicksPreserved DEF GatewayInv
<1> QED BY <1>1, <1>2, <1>3, GatewayIsInbound, TypeCorrect, HandlersAgree, PTL DEF GatewaySpec

\* A tick can be acted on.
THEOREM TicksAreReadable == GatewaySpec => []TickIsReadable
<1>1. GatewayInv => TickIsReadable
  BY DEF GatewayInv
<1> QED BY <1>1, GatewayInvariance, PTL

\* Only an entity that listened when a notice was published tells of it.
THEOREM OnlyListenersTell == GatewaySpec => []ToldByListeners
<1>1. GatewayInv => ToldByListeners
  BY DEF GatewayInv
<1> QED BY <1>1, GatewayInvariance, PTL

\* A handler that panicked leaves nothing half announced.
THEOREM PanicIsClean == GatewaySpec => []PanicLeaves
<1>1. TypeOK /\ HandlerInv /\ WatchTypeOK /\ GatewayInv => PanicLeaves
  <2> SUFFICES ASSUME TypeOK, HandlerInv, WatchTypeOK, GatewayInv, NEW r \in panicked
               PROVE  /\ ~Answered(r)
                      /\ kind[r] # "voice" => /\ r \notin Range(recorded) \union Range(notices)
                                              /\ pushes[r] = "none"
                      /\ kind[r] = "voice" => (r \in Range(recorded) <=> r \in Range(notices))
                      /\ r \in Range(written) => kind[r] = "status"
    BY DEF PanicLeaves
  <2>1. r \in Requests
    BY DEF WatchTypeOK
  <2>2. pc[r] \in {"status", "record"} \/ (pc[r] = "reply" /\ kind[r] = "voice")
    BY DEF GatewayInv, MayTakeLock, TakesLock
  <2>3. pc[r] = "reply" /\ kind[r] = "voice" => r \in Range(notices)
    BY <2>1 DEF GatewayInv, TraceInv
  <2> QED BY <2>1, <2>2, <2>3 DEF HandlerInv, Answered
<1>2. GatewayTypeOK => TypeOK /\ WatchTypeOK
  BY DEF GatewayTypeOK, WatchTypeOK
<1> QED BY <1>1, <1>2, GatewayIsInbound, GatewayTypeCorrect, HandlersAgree, GatewayInvariance, PTL

-----------------------------------------------------------------------------
(* Every entity, taken alone, implements the push.                         *)

LEMMA LogFacts ==
    ASSUME TypeOK
    PROVE  /\ Log \in Seq(Kinds) /\ Len(Log) = Len(notices) /\ Len(Log) \in Nat
           /\ DOMAIN Log = 1..Len(notices)
           /\ \A p \in DOMAIN notices : Log[p] = kind[notices[p]]
<1>1. Len(notices) \in Nat /\ DOMAIN notices = 1..Len(notices)
  BY DEF TypeOK
<1>2. \A p \in 1..Len(notices) : kind[notices[p]] \in Kinds
  BY <1>1 DEF TypeOK
<1> QED BY <1>1, <1>2 DEF Log

\* The log stays when nothing is published.
LEMMA LogStays ==
    ASSUME TypeOK, HandlerInv, [Next]_vars, UNCHANGED notices
    PROVE  Log' = Log
<1>1. \A p \in DOMAIN notices : kind'[notices[p]] = kind[notices[p]]
  <2>1. \A p \in DOMAIN notices : notices[p] \in Range(notices) /\ notices[p] \in Requests
    BY DEF Range, TypeOK
  <2> QED BY <2>1, NotNew, Monotone
<1> QED BY <1>1 DEF Log

\* The channel of the push holds what that of the gateway holds.
LEMMA ChannelFacts ==
    ASSUME TypeOK, NEW e \in Entities
    PROVE  /\ Push(e)!OldestRetained = OldestRetained
           /\ Push(e)!Lagging <=> Lagging(e)
           /\ Push(e)!Current = Current(e)
           /\ \A k : Push(e)!MatchingEmitters(k) = MatchingEmitters(k)
BY LogFacts DEF Push!OldestRetained, OldestRetained, Push!Lagging, Lagging, Push!Current,
                Current, Push!MatchingEmitters, MatchingEmitters

\* The variables of one entity's push.
Own(e) == <<PushPhase(e), stop_tx[e], rx[e], emitters[e], emitted[e], missed[e]>>

LEMMA PushStutters ==
    ASSUME NEW e \in Entities, UNCHANGED <<poisoned, Log, hostVars, Own(e)>>
    PROVE  PushStep(e)
BY DEF PushStep, Push!vars, Own, hostVars

\* The panic of an agent is one to each push.
LEMMA OverflowRefines ==
    ASSUME TypeOK, HandlerInv, NEW e \in Entities, StageOverflow
    PROVE  PushStep(e)
<1>1. UNCHANGED <<notices, kind, hostVars, dispVars, emitted, Own(e)>>
  BY DEF StageOverflow, vars, stateVars, paramVars, watchVars, dispVars, Own, PushPhase
<1>2. Log' = Log
  BY <1>1 DEF Log
<1>3. Push(e)!StageOverflow
  BY <1>1, <1>2 DEF StageOverflow, LockIsSound, Push!StageOverflow, Push!LockIsSound, Push!hostVars,
     Push!dispVars, hostVars, Own
<1> QED BY <1>3 DEF PushStep, Push!Next

LEMMA PublishRefines ==
    ASSUME TypeOK, HandlerInv, WatchTypeOK, GatewayInv,
           NEW q \in Requests, Publish(q), NEW e \in Entities
    PROVE  PushStep(e)
<1>1. kind[q] \in ALL_KINDS
  BY DEF Publish, NotifyInbound, GatewayInv, TraceInv, TypeOK, Kinds, ALL_KINDS
<1>2. Log' = Append(Log, kind[q])
  <2>1. /\ notices' = Append(notices, q) /\ notices \in Seq(Requests) /\ kind' = kind
    BY DEF Publish, NotifyInbound, paramVars, TypeOK
  <2>2. /\ DOMAIN notices' = 1..(Len(notices) + 1)
        /\ \A p \in 1..Len(notices) : notices'[p] = notices[p]
        /\ notices'[Len(notices) + 1] = q
        /\ Len(notices) \in Nat /\ DOMAIN notices = 1..Len(notices)
    BY <2>1
  <2>3. /\ DOMAIN Append(Log, kind[q]) = 1..(Len(notices) + 1)
        /\ \A p \in 1..Len(notices) : Append(Log, kind[q])[p] = Log[p]
        /\ Append(Log, kind[q])[Len(notices) + 1] = kind[q]
        /\ Append(Log, kind[q]) = [p \in 1..(Len(notices) + 1) |-> Append(Log, kind[q])[p]]
    BY <1>1, LogFacts DEF TypeOK
  <2>4. \A p \in 1..(Len(notices) + 1) : kind'[notices'[p]] = Append(Log, kind[q])[p]
    BY <2>1, <2>2, <2>3, LogFacts
  <2>5. Log' = [p \in 1..(Len(notices) + 1) |-> kind'[notices'[p]]]
    BY <2>2 DEF Log
  <2> QED BY <2>3, <2>4, <2>5
<1>3. UNCHANGED <<poisoned, hostVars, dispVars, emitted>>
  BY DEF Publish
<1>4. PushPhase(e)' = PushPhase(e)
  BY <1>3 DEF PushPhase, dispVars
<1>5. Push(e)!Subscribed <=> Subscribed(e)
  BY DEF Push!Subscribed, Subscribed, PushPhase
<1>6. missed'[e] = IF Push(e)!Subscribed THEN missed[e] ELSE missed[e] \union {Len(Log) + 1}
  BY <1>5, LogFacts DEF Publish, WatchTypeOK
<1>7. Push(e)!NotifyInbound(kind[q])
  BY <1>2, <1>3, <1>4, <1>6 DEF Push!NotifyInbound, Push!hostVars, Push!dispVars, hostVars, dispVars
<1> QED BY <1>1, <1>7 DEF PushStep, Push!Next, Push!Webhook

LEMMA HostRefines ==
    ASSUME TypeOK, HandlerInv, WatchTypeOK, NEW e \in Entities, NEW w \in Watches,
           Cancel(w) \/ \E ks \in SUBSET ALL_KINDS \ {{}} : Watch(w, ks)
    PROVE  PushStep(e)
<1>1. UNCHANGED <<vars, poisoned, dispVars, emitted, missed>>
  BY DEF Cancel, Watch
<1>2. /\ PushPhase(e)' = PushPhase(e) /\ Log' = Log /\ Len(Log) = Len(notices)
      /\ stop_tx'[e] = stop_tx[e] /\ rx'[e] = rx[e] /\ emitters'[e] = emitters[e]
      /\ emitted'[e] = emitted[e] /\ missed'[e] = missed[e]
  BY <1>1, LogFacts DEF PushPhase, Log, dispVars, vars, stateVars, paramVars
<1>3. CASE Cancel(w)
  <2>1. Push(e)!Cancel(w)
    BY <1>1, <1>2, <1>3 DEF Cancel, LockIsSound, Push!Cancel, Push!LockIsSound, Push!dispVars
  <2> QED BY <2>1 DEF PushStep, Push!Next, Push!Host
<1>4. ASSUME NEW ks \in SUBSET ALL_KINDS \ {{}}, Watch(w, ks) PROVE PushStep(e)
  <2>1. Push(e)!Watch(w, ks)
    BY <1>1, <1>2, <1>4 DEF Watch, LockIsSound, Push!Watch, Push!LockIsSound, Push!Filters, Push!dispVars
  <2> QED BY <2>1 DEF PushStep, Push!Next, Push!Host
<1> QED BY <1>3, <1>4

LEMMA EntityRefines ==
    ASSUME TypeOK, HandlerInv, WatchTypeOK, GatewayInv, NEW e \in Entities,
           StartEntity(e) \/ DropEntity(e) \/ Dispatcher(e)
    PROVE  PushStep(e)
<1> USE DEF PushStep, Push!Next, Push!Host, Push!Dispatcher
<1>1. UNCHANGED Others
  BY OtherEntities
<1>2. /\ Log' = Log /\ Len(Log) = Len(notices)
      /\ UNCHANGED <<poisoned, hostVars, Push(e)!hostVars>>
  BY <1>1, LogFacts DEF Others, Log, vars, stateVars, paramVars, hostVars, Push!hostVars
<1>3. phase[e] \in Phases /\ PushPhase(e) = IF phase[e] \in {"new", "gone"} THEN "down" ELSE phase[e]
  BY DEF PushPhase, WatchTypeOK
<1>4. PushPhase(e)' = IF phase'[e] \in {"new", "gone"} THEN "down" ELSE phase'[e]
  BY DEF PushPhase
<1> USE DEF WatchTypeOK
<1>5. CASE StartEntity(e)
  <2>1. Push(e)!StartEntity
    BY <1>2, <1>3, <1>4, <1>5 DEF StartEntity, Push!StartEntity
  <2> QED BY <2>1
<1>6. CASE DropEntity(e)
  <2>1. PushPhase(e)' = PushPhase(e)
    BY <1>6 DEF DropEntity, PushPhase
  <2>2. Push(e)!DropEntity
    BY <1>2, <1>3, <1>6, <2>1 DEF DropEntity, Push!DropEntity, Phases
  <2> QED BY <2>2
<1>7. CASE Subscribe(e)
  <2>1. Push(e)!Subscribe
    BY <1>2, <1>3, <1>4, <1>7 DEF Subscribe, Push!Subscribe
  <2> QED BY <2>1
<1>8. CASE RecvLagged(e)
  <2>1. PushPhase(e)' = PushPhase(e)
    BY <1>8 DEF RecvLagged, PushPhase
  <2>2. Push(e)!RecvLagged
    BY <1>2, <1>3, <1>8, <2>1, ChannelFacts DEF RecvLagged, Push!RecvLagged
  <2> QED BY <2>2
<1>9. CASE RecvOk(e)
  <2>1. Push(e)!RecvOk
    BY <1>2, <1>3, <1>4, <1>9, ChannelFacts DEF RecvOk, Push!RecvOk
  <2> QED BY <2>1
<1>10. CASE Snapshot(e)
  <2>1. Log[Current(e)] = kind[notices[Current(e)]]
    BY <1>10, InHand, LogFacts DEF Snapshot, GatewayInv
  <2>2. Push(e)!Snapshot
    BY <1>2, <1>3, <1>4, <1>10, <2>1, ChannelFacts
    DEF Snapshot, LockIsSound, Push!Snapshot, Push!LockIsSound
  <2> QED BY <2>2
<1>11. CASE Die(e)
  <2>1. Push(e)!Die
    BY <1>2, <1>3, <1>4, <1>11, ChannelFacts DEF Die, LockIsSound, Push!Die, Push!LockIsSound
  <2> QED BY <2>1
<1>12. ASSUME NEW w \in Watches, Emit(e, w) PROVE PushStep(e)
  <2>1. emitted'[e] = [emitted[e] EXCEPT ![w] = Append(@, Current(e))]
    BY <1>12 DEF Emit
  <2>2. /\ phase[e] = "emitting" /\ w \in emitters[e]
        /\ emitters'[e] = emitters[e] \ {w}
        /\ phase'[e] = IF emitters[e] = {w} THEN "listening" ELSE "emitting"
        /\ UNCHANGED <<stop_tx[e], rx[e], missed[e]>>
    BY <1>12 DEF Emit
  <2>3. Push(e)!Emit(w)
    BY <1>2, <1>3, <1>4, <2>1, <2>2, ChannelFacts DEF Push!Emit
  <2> QED BY <2>3
<1>13. CASE Exit(e)
  <2>1. Push(e)!Subscribed <=> Subscribed(e)
    BY <1>3, <1>13 DEF Push!Subscribed, Subscribed, Exit
  <2>2. Push(e)!Exit
    BY <1>2, <1>3, <1>4, <1>13, <2>1 DEF Exit, Push!Exit
  <2> QED BY <2>2
<1> QED BY <1>5, <1>6, <1>7, <1>8, <1>9, <1>10, <1>11, <1>12, <1>13 DEF Dispatcher

\* Each entity implements the push of WatchPush, whatever the other entities and
\* the handlers do, poisoned lock or not.
THEOREM EntitiesArePushes == GatewaySpec => ImplementsPush
<1>1. GatewayInit => \A e \in Entities : Push(e)!Init
  BY DEF GatewayInit, Init, Push!Init, Log, PushPhase
<1>2. ASSUME TypeOK, HandlerInv, WatchTypeOK, GatewayInv, [GatewayNext]_gatewayVars,
             NEW e \in Entities
      PROVE  PushStep(e)
  <2>1. CASE Calm
    <3>1. UNCHANGED <<hostVars, Own(e), notices>>
      BY <2>1, CalmFrame DEF watchVars, dispVars, Own, PushPhase
    <3>2. StageOverflow \/ UNCHANGED poisoned
      BY <2>1 DEF Calm, Outside, Step, PanicOnLock, gatewayVars
    <3> QED BY <1>2, <3>1, <3>2, InboundStep, LogStays, PushStutters, OverflowRefines
  <2>2. CASE \E q \in Requests : Publish(q)
    BY <1>2, <2>2, PublishRefines
  <2>3. CASE \E w \in Watches :
               Cancel(w) \/ \E ks \in SUBSET ALL_KINDS \ {{}} : Watch(w, ks)
    BY <1>2, <2>3, HostRefines
  <2>4. ASSUME NEW f \in Entities, StartEntity(f) \/ DropEntity(f) \/ Dispatcher(f)
        PROVE  PushStep(e)
    <3>1. CASE f = e
      BY <1>2, <2>4, <3>1, EntityRefines
    <3>2. CASE f # e
      <4>1. UNCHANGED <<poisoned, notices, hostVars, Own(e)>>
        BY <1>2, <2>4, <3>2, OtherEntities
        DEF Others, vars, stateVars, Own, PushPhase
      <4> QED BY <1>2, <4>1, InboundStep, LogStays, PushStutters
    <3> QED BY <3>1, <3>2
  <2> QED BY <1>2, <2>1, <2>2, <2>3, <2>4, GatewayCases
<1>3. GatewayTypeOK => TypeOK /\ WatchTypeOK
  BY DEF GatewayTypeOK, WatchTypeOK
<1>4. TypeOK /\ HandlerInv /\ WatchTypeOK /\ GatewayInv /\ [GatewayNext]_gatewayVars
      => [\A e \in Entities : PushStep(e)]_gatewayVars
  BY <1>2
<1> QED BY <1>1, <1>3, <1>4, GatewayIsInbound, GatewayTypeCorrect, HandlersAgree,
           GatewayInvariance, PTL DEF GatewaySpec, ImplementsPush

-----------------------------------------------------------------------------
(* What WatchPush_proofs shows of a push it shows of each entity.  It can   *)
(* be cited for an instance without parameters only, so that the entity is  *)
(* a constant here: any one of them.                                        *)
CONSTANT entity

Entity == INSTANCE WatchPush_proofs WITH
    sent <- Log,
    status <- registry,
    kinds <- filters,
    phase <- PushPhase(entity),
    stop_tx <- stop_tx[entity],
    rx <- rx[entity],
    emitters <- emitters[entity],
    emitted <- emitted[entity],
    lost <- missed[entity]

\* What Push says of this entity and what this instance says are the same.
LEMMA SamePush ==
  /\ Push(entity)!Init => Entity!Init
  /\ PushStep(entity) => [Entity!Next]_(Entity!vars)
<1>1. /\ Push(entity)!Subscribed <=> Entity!Subscribed
      /\ Push(entity)!OldestRetained = Entity!OldestRetained
      /\ Push(entity)!Lagging <=> Entity!Lagging
      /\ Push(entity)!Current = Entity!Current
      /\ \A k : Push(entity)!MatchingEmitters(k) = Entity!MatchingEmitters(k)
  BY DEF Push!Subscribed, Entity!Subscribed, Push!OldestRetained, Entity!OldestRetained, Push!Lagging,
         Entity!Lagging, Push!Current, Entity!Current, Push!MatchingEmitters, Entity!MatchingEmitters
<1>0. Push(entity)!StageOverflow => Entity!StageOverflow
  BY DEF Push!StageOverflow, Entity!StageOverflow, Push!LockIsSound, Entity!LockIsSound, Push!hostVars,
         Entity!hostVars, Push!dispVars, Entity!dispVars
<1>2. Push(entity)!Webhook => Entity!Webhook
  BY <1>1 DEF Push!Webhook, Entity!Webhook, Push!NotifyInbound, Entity!NotifyInbound, Push!hostVars,
              Entity!hostVars, Push!dispVars, Entity!dispVars
<1>3. Push(entity)!Host => Entity!Host
  BY <1>1 DEF Push!Host, Entity!Host, Push!LockIsSound, Entity!LockIsSound, Push!Watch, Entity!Watch, Push!Cancel, Entity!Cancel, Push!Filters,
              Entity!Filters, Push!StartEntity, Entity!StartEntity, Push!DropEntity, Entity!DropEntity,
              Push!hostVars, Entity!hostVars, Push!dispVars, Entity!dispVars
<1>4. Push(entity)!Dispatcher => Entity!Dispatcher
  BY <1>1 DEF Push!Dispatcher, Entity!Dispatcher, Push!LockIsSound, Entity!LockIsSound, Push!Die, Entity!Die,
              Push!Subscribe, Entity!Subscribe, Push!RecvLagged,
              Entity!RecvLagged, Push!RecvOk, Entity!RecvOk, Push!Snapshot, Entity!Snapshot, Push!Emit,
              Entity!Emit, Push!Exit, Entity!Exit, Push!hostVars, Entity!hostVars
<1> QED BY <1>0, <1>2, <1>3, <1>4 DEF PushStep, Push!Init, Entity!Init, Push!Next, Entity!Next, Push!vars,
              Entity!vars, Push!hostVars, Entity!hostVars, Push!dispVars, Entity!dispVars

\* The entity, taken alone, is a push.
LEMMA EntitySpec ==
  ASSUME entity \in Entities
  PROVE  GatewaySpec => Entity!Spec
<1>1. (\A e \in Entities : Push(e)!Init) => Entity!Init
  BY SamePush
<1>2. [\A e \in Entities : PushStep(e)]_gatewayVars => [Entity!Next]_(Entity!vars)
  <2>1. CASE UNCHANGED gatewayVars
    <3>1. UNCHANGED <<poisoned, notices, kind, hostVars, phase, stop_tx, rx, emitters, emitted, missed>>
      BY <2>1 DEF gatewayVars, vars, watchVars, hostVars, dispVars, stateVars, paramVars
    <3>2. Log' = Log /\ PushPhase(entity)' = PushPhase(entity)
      BY <3>1 DEF Log, PushPhase
    <3> QED BY <3>1, <3>2 DEF Entity!vars, hostVars
  <2> QED BY <2>1, SamePush
<1> QED BY <1>1, <1>2, EntitiesArePushes, PTL DEF ImplementsPush, Entity!Spec


\* Whatever other entities, handlers and a poisoned lock do, what an entity tells
\* its watches is a feed: each notice at most once, in the order of publication,
\* of a kind the watch asked for, and none published after its cancel
\* (watch.rs:92-172, state.rs:252-307).
THEOREM EntityFeeds ==
  ASSUME entity \in Entities
  PROVE  GatewaySpec => Entity!ImplementsFeed
<1>1. GatewaySpec => Entity!Spec
  BY EntitySpec
<1>2. Entity!Spec => Entity!ImplementsFeed
  BY Entity!Refinement, ChannelAssumption DEF ChannelAssumption, Entity!CapAssumption
<1> QED BY <1>1, <1>2

\* A notice a live watch asked for is told it by an entity, on its way in it, or
\* lost to it; and what is lost to it never arrives.  The losses are what was
\* published while the entity did not listen or after its task died, what was in
\* hand or queued when the task died or the entity was dropped, and, while it
\* listens, only what a full channel overran (watch.rs:118-138, state.rs:35-38, 301).
THEOREM EntityLosses ==
  ASSUME entity \in Entities
  PROVE  GatewaySpec => [](Entity!NoSilentLoss /\ Entity!LossInv) /\ Entity!LostOnlyByOverflow
<1>1. GatewaySpec => Entity!Spec
  BY EntitySpec
<1>2. Entity!Spec => []Entity!NoSilentLoss
  BY Entity!LossAccounted, ChannelAssumption DEF ChannelAssumption, Entity!CapAssumption
<1>3. Entity!Spec => []Entity!LossInv
  BY Entity!LossIsFinal, ChannelAssumption DEF ChannelAssumption, Entity!CapAssumption
<1>4. Entity!Spec => Entity!LostOnlyByOverflow
  BY Entity!OverflowOnly, ChannelAssumption DEF ChannelAssumption, Entity!CapAssumption
<1> QED BY <1>1, <1>2, <1>3, <1>4, PTL
=============================================================================
