------------------------------- MODULE Gateway --------------------------------
(***************************************************************************)
(* The three entities in one gateway process: the webhook handlers of      *)
(* Inbound, the dispatchers of the watch entities and the agents that      *)
(* stage scripts, over the one TwilioState of src/src/cdylib.rs and its    *)
(* one mutex (src/src/state.rs).                                           *)
(*                                                                         *)
(* The handlers are Inbound's, each step that takes the lock now waiting   *)
(* for it to be sound.  A thread that panics with the lock held poisons    *)
(* it, and from then on whoever takes it panics: a handler where it        *)
(* stands, a dispatcher's task at its next notice.  What takes no lock     *)
(* goes on.  The host may build a watch entity while an older one is still *)
(* there; all of them read the one channel and the one registry.           *)
(*                                                                         *)
(* Staged scripts are VoiceControl's subject: of stage_call_response only  *)
(* the panic is here, of take_script only that it takes the lock.          *)
(***************************************************************************)
EXTENDS Inbound

CONSTANTS
    Watches,              \* the registrations the host may ask for
    Entities,             \* the watch entities, each built once
    NOTICE_CHANNEL_CAP    \* capacity of the broadcast channel

ASSUME ChannelAssumption == NOTICE_CHANNEL_CAP \in Nat \ {0}

ALL_KINDS == {"sms", "voice", "status"}

VARIABLES
    poisoned,    \* "yes" once a thread panicked with the lock held
    panicked,    \* the requests whose handler did
    registry,    \* per watch: "new", "live" or "cancelled"
    filters,     \* the kinds each watch was registered with
    phase,       \* per entity: "new", "starting", "listening", "received",
                 \* "emitting", "dead" (its task panicked) or "gone"
    stop_tx,     \* per entity: "armed", or "sent" once it is being dropped
    rx,          \* per entity: the next position of notices it will read
    emitters,    \* per entity: the watches still to be called
    emitted,     \* per entity and watch: the positions emitted, in order
    \* What the code does not keep, to state properties with:
    audience,    \* per notice, the entities that listened when it was published
    missed,      \* per entity: the positions it will never receive
    since,       \* Len(notices) when each watch was registered
    until        \* Len(notices) when each watch was cancelled

hostVars == <<registry, filters, since, until>>
dispVars == <<phase, stop_tx, rx, emitters>>
watchVars == <<hostVars, dispVars, emitted, audience, missed>>
gatewayVars == <<vars, poisoned, panicked, watchVars>>

-----------------------------------------------------------------------------
\* The lock can be taken.
LockIsSound == poisoned = "no"

Subscribed(e) == phase[e] \in {"listening", "received", "emitting"}

\* The oldest position the channel still holds.
OldestRetained ==
    IF Len(notices) > NOTICE_CHANNEL_CAP
    THEN Len(notices) - NOTICE_CHANNEL_CAP + 1 ELSE 1

Lagging(e) == rx[e] < OldestRetained

\* The notice under dispatch.
Current(e) == rx[e] - 1

\* Slip in matching_emitters: the kind is ignored.
SlipAnyKind(k) == {w \in Watches : registry[w] = "live"}

\* matching_emitters.
MatchingEmitters(k) ==
    {w \in Watches : registry[w] = "live" /\ k \in filters[w]}

LastEmitted(e, w) ==
    IF emitted[e][w] = <<>> THEN 0 ELSE emitted[e][w][Len(emitted[e][w])]

GatewayInit ==
    /\ Init
    /\ poisoned = "no"
    /\ panicked = {}
    /\ registry = [w \in Watches |-> "new"]
    /\ filters = [w \in Watches |-> {}]
    /\ phase = [e \in Entities |-> "new"]
    /\ stop_tx = [e \in Entities |-> "armed"]
    /\ rx = [e \in Entities |-> 1]
    /\ emitters = [e \in Entities |-> {}]
    /\ emitted = [e \in Entities |-> [w \in Watches |-> <<>>]]
    /\ audience = <<>>
    /\ missed = [e \in Entities |-> {}]
    /\ since = [w \in Watches |-> 0]
    /\ until = [w \in Watches |-> 0]

-----------------------------------------------------------------------------
(* The agent: a ttl_secs that the expiry cannot hold panics inside         *)
(* stage_script, with the lock held.                                       *)
StageOverflow ==
    /\ LockIsSound
    /\ poisoned' = "yes"
    /\ UNCHANGED <<vars, panicked, watchVars>>

-----------------------------------------------------------------------------
(* The handlers.                                                           *)

\* notify_inbound sends to whoever listens, and takes no lock.
Publish(r) ==
    /\ NotifyInbound(r)
    /\ audience' = Append(audience, {e \in Entities : Subscribed(e)})
    /\ missed' = [e \in Entities |->
                    IF Subscribed(e) THEN missed[e]
                                     ELSE missed[e] \union {Len(notices) + 1}]
    /\ UNCHANGED <<poisoned, panicked, hostVars, dispVars, emitted>>

\* Whether the handler's next step takes the lock: a call without a CallSid may
\* come without a To as well, and looks nothing up.
TakesLock(r) ==
    \/ pc[r] \in {"status", "record"}
    \/ pc[r] = "reply" /\ kind[r] = "voice" /\ sid[r] # None

\* Slip: publishing a notice takes the lock.
SlipLockToPublish(r) == TakesLock(r) \/ pc[r] = "notify" \/ (pc[r] = "reply" /\ kind[r] = "voice")

MayTakeLock(r) == TakesLock(r) \/ (pc[r] = "reply" /\ kind[r] = "voice")

Step(r) ==
    /\ TakesLock(r) => LockIsSound
    /\ RecordStatus(r) \/ Stamp(r) \/ RecordEvent(r) \/ MaybePush(r) \/ Reply(r)
    /\ UNCHANGED <<poisoned, panicked, watchVars>>

\* Slip: the lock of a thread that panicked is never released.
SlipWaitForLock(r) ==
    /\ ~LockIsSound
    /\ MayTakeLock(r)
    /\ UNCHANGED gatewayVars

\* lock().expect("twilio state poisoned").
PanicOnLock(r) ==
    /\ ~LockIsSound
    /\ MayTakeLock(r)
    /\ panicked' = panicked \union {r}
    /\ UNCHANGED <<vars, poisoned, watchVars>>

Handler(r) == r \notin panicked /\ (Step(r) \/ Publish(r) \/ PanicOnLock(r))

\* A request comes in, and what goes on beside its handler.
Outside(r) ==
    /\ Refuse(r) \/ Arrive(r) \/ PushTask(r)
    /\ UNCHANGED <<poisoned, panicked, watchVars>>

-----------------------------------------------------------------------------
(* The host.  On a poisoned lock watch and cancel panic and change nothing.*)
Watch(w, ks) ==
    /\ LockIsSound
    /\ registry[w] = "new"
    /\ registry' = [registry EXCEPT ![w] = "live"]
    /\ filters' = [filters EXCEPT ![w] = ks]
    /\ since' = [since EXCEPT ![w] = Len(notices)]
    /\ UNCHANGED <<vars, poisoned, panicked, until, dispVars, emitted, audience, missed>>

Cancel(w) ==
    /\ LockIsSound
    /\ registry[w] = "live"
    /\ registry' = [registry EXCEPT ![w] = "cancelled"]
    /\ until' = [until EXCEPT ![w] = Len(notices)]
    /\ UNCHANGED <<vars, poisoned, panicked, filters, since, dispVars, emitted,
                   audience, missed>>

\* What a step of an entity leaves alone.
Others == <<vars, poisoned, panicked, hostVars, audience>>

StartEntity(e) ==
    /\ phase[e] = "new"
    /\ phase' = [phase EXCEPT ![e] = "starting"]
    /\ UNCHANGED <<Others, stop_tx, rx, emitters, emitted, missed>>

\* Slip: one stop signal for all entities.
SlipStopAll(e) ==
    /\ phase[e] \notin {"new", "gone"}
    /\ stop_tx[e] = "armed"
    /\ stop_tx' = [f \in Entities |-> "sent"]
    /\ UNCHANGED <<Others, phase, rx, emitters, emitted, missed>>

DropEntity(e) ==
    /\ phase[e] \notin {"new", "gone"}
    /\ stop_tx[e] = "armed"
    /\ stop_tx' = [stop_tx EXCEPT ![e] = "sent"]
    /\ UNCHANGED <<Others, phase, rx, emitters, emitted, missed>>

-----------------------------------------------------------------------------
(* The dispatcher task of an entity.                                       *)

\* Slip: a new receiver starts with what the channel retains.
SlipReplay(e) ==
    /\ phase[e] = "starting"
    /\ phase' = [phase EXCEPT ![e] = "listening"]
    /\ rx' = [rx EXCEPT ![e] = OldestRetained]
    /\ UNCHANGED <<Others, stop_tx, emitters, emitted, missed>>

\* subscribe_notices: nothing published so far is received.
Subscribe(e) ==
    /\ phase[e] = "starting"
    /\ phase' = [phase EXCEPT ![e] = "listening"]
    /\ rx' = [rx EXCEPT ![e] = Len(notices) + 1]
    /\ UNCHANGED <<Others, stop_tx, emitters, emitted, missed>>

\* Slip in the Lagged arm: the loop is left.
SlipBreakOnLag(e) ==
    /\ phase[e] = "listening"
    /\ Lagging(e)
    /\ phase' = [phase EXCEPT ![e] = "gone"]
    /\ UNCHANGED <<Others, stop_tx, rx, emitters, emitted, missed>>

RecvLagged(e) ==
    /\ phase[e] = "listening"
    /\ Lagging(e)
    /\ rx' = [rx EXCEPT ![e] = OldestRetained]
    /\ missed' = [missed EXCEPT ![e] = @ \union (rx[e] .. OldestRetained - 1)]
    /\ UNCHANGED <<Others, phase, stop_tx, emitters, emitted>>

RecvOk(e) ==
    /\ phase[e] = "listening"
    /\ ~Lagging(e)
    /\ rx[e] <= Len(notices)
    /\ rx' = [rx EXCEPT ![e] = @ + 1]
    /\ phase' = [phase EXCEPT ![e] = "received"]
    /\ UNCHANGED <<Others, stop_tx, emitters, emitted, missed>>

\* matching_emitters under the lock; the host is called after its release.
Snapshot(e) ==
    LET matching == MatchingEmitters(kind[notices[Current(e)]]) IN
    /\ LockIsSound
    /\ phase[e] = "received"
    /\ emitters' = [emitters EXCEPT ![e] = matching]
    /\ phase' = [phase EXCEPT ![e] =
                   IF matching = {} THEN "listening" ELSE "emitting"]
    /\ UNCHANGED <<Others, stop_tx, rx, emitted, missed>>

\* matching_emitters panics: the task ends with the notice in hand, and its
\* receiver goes with all that is queued.  The entity does not notice.
Die(e) ==
    /\ ~LockIsSound
    /\ phase[e] = "received"
    /\ phase' = [phase EXCEPT ![e] = "dead"]
    /\ missed' = [missed EXCEPT ![e] = @ \union (Current(e) .. Len(notices))]
    /\ UNCHANGED <<Others, stop_tx, rx, emitters, emitted>>

Emit(e, w) ==
    /\ phase[e] = "emitting"
    /\ w \in emitters[e]
    /\ emitted' = [emitted EXCEPT ![e][w] = Append(@, Current(e))]
    /\ emitters' = [emitters EXCEPT ![e] = @ \ {w}]
    /\ phase' = [phase EXCEPT ![e] =
                   IF emitters[e] = {w} THEN "listening" ELSE "emitting"]
    /\ UNCHANGED <<Others, stop_tx, rx, missed>>

Exit(e) ==
    /\ stop_tx[e] = "sent"
    /\ phase[e] \in {"starting", "listening", "dead"}
    /\ phase' = [phase EXCEPT ![e] = "gone"]
    /\ stop_tx' = [stop_tx EXCEPT ![e] = "armed"]
    /\ missed' = [missed EXCEPT ![e] =
                    IF Subscribed(e) THEN @ \union (rx[e] .. Len(notices)) ELSE @]
    /\ UNCHANGED <<Others, rx, emitters, emitted>>

-----------------------------------------------------------------------------
Webhook(r) == Outside(r) \/ Handler(r)

Host ==
    \/ \E w \in Watches :
          \/ \E ks \in SUBSET ALL_KINDS \ {{}} : Watch(w, ks)
          \/ Cancel(w)
    \/ \E e \in Entities : StartEntity(e) \/ DropEntity(e)

Dispatcher(e) ==
    \/ Subscribe(e) \/ RecvLagged(e) \/ RecvOk(e) \/ Snapshot(e) \/ Die(e)
    \/ \E w \in Watches : Emit(e, w)
    \/ Exit(e)

GatewayNext ==
    \/ StageOverflow
    \/ \E r \in Requests : Webhook(r)
    \/ Host
    \/ \E e \in Entities : Dispatcher(e)

GatewaySpec == GatewayInit /\ [][GatewayNext]_gatewayVars

\* A handler runs on a thread of its own, and nobody keeps the lock; an entity
\* has a runtime of its own.  Agents and the host owe nothing.
GatewayFairness ==
    /\ \A r \in Requests : WF_gatewayVars(Handler(r))
    /\ \A e \in Entities : WF_gatewayVars(Dispatcher(e))

GatewayFairSpec == GatewaySpec /\ GatewayFairness

-----------------------------------------------------------------------------
Phases == {"new", "starting", "listening", "received", "emitting", "dead", "gone"}

\* The type of what the gateway adds to Inbound.
GatewayTypeOK ==
    /\ TypeOK
    /\ poisoned \in {"yes", "no"}
    /\ panicked \subseteq Requests
    /\ registry \in [Watches -> {"new", "live", "cancelled"}]
    /\ filters \in [Watches -> SUBSET ALL_KINDS]
    /\ phase \in [Entities -> Phases]
    /\ stop_tx \in [Entities -> {"armed", "sent"}]
    /\ rx \in [Entities -> Nat \ {0}]
    /\ emitters \in [Entities -> SUBSET Watches]
    /\ emitted \in [Entities -> [Watches -> Seq(Nat)]]
    /\ audience \in Seq(SUBSET Entities)
    /\ missed \in [Entities -> SUBSET Nat]
    /\ since \in [Watches -> Nat]
    /\ until \in [Watches -> Nat]

Told(e, w) == Range(emitted[e][w])

\* The event of r, of a kind the watch w asked for, is there to be read.
CanBeRead(r, w) ==
    /\ r \in Range(recorded)
    /\ kind[r] \in filters[w]
    /\ kind[r] = "status" /\ sid[r] # None /\ status[r] # None
         => last_status[sid[r]] # None

\* A tick can be acted on.  When a client is told of a notice its event has been
\* recorded, and a status callback has written its status, although handler and
\* dispatcher are different threads and others may have panicked in between
\* (webhook.rs:203-228, 327-366, watch.rs:157-172).
TickIsReadable ==
    \A e \in Entities, w \in Watches : \A p \in Told(e, w) :
        p \in DOMAIN notices /\ CanBeRead(notices[p], w)

\* Only an entity that listened when a notice was published tells of it: a watch
\* hears of one notice twice only when two entities overlapped then, and an
\* entity built later replays nothing (watch.rs:118-138, cdylib.rs:39-45).
ToldByListeners ==
    \A e \in Entities, w \in Watches : \A p \in Told(e, w) :
        p \in DOMAIN audience /\ e \in audience[p]

\* What a handler that panicked leaves: nothing, or the status of its callback
\* without the event, or all of a call but its answer.  Its notice is never out
\* without its event, and no SMS or gather is left half done (state.rs:159-166,
\* 196-205, 220-224).
PanicLeaves ==
    \A r \in panicked :
        /\ ~Answered(r)
        /\ kind[r] # "voice" => /\ r \notin Range(recorded) \union Range(notices)
                                /\ pushes[r] = "none"
        /\ kind[r] = "voice" => (r \in Range(recorded) <=> r \in Range(notices))
        /\ r \in Range(written) => kind[r] = "status"

\* The dispatchers' bookkeeping, which the properties above rest on.
EntityInv(e) ==
    /\ rx[e] <= Len(notices) + 1
    /\ Subscribed(e) => \A p \in rx[e] .. Len(notices) : e \in audience[p]
    /\ phase[e] \in {"received", "emitting"} => rx[e] > 1 /\ e \in audience[Current(e)]
    /\ phase[e] # "emitting" => emitters[e] = {}
    /\ \A w \in emitters[e] : kind[notices[Current(e)]] \in filters[w]
    /\ phase[e] = "dead" => ~LockIsSound
    /\ \A w \in Watches : registry[w] = "new" => emitted[e][w] = <<>>
    /\ \A w \in emitters[e] : registry[w] # "new"

\* What a request has left by the place its handler has reached.
TraceInv(r) ==
    /\ r \in Range(written) => last_status[sid[r]] # None
    /\ r \in Range(notices) \/ pc[r] \in {"notify", "push"} => kind[r] # "gather"
    /\ pc[r] = "push" \/ (pc[r] = "reply" /\ kind[r] = "voice") => r \in Range(notices)

\* The inductive invariant of the gateway, beside Inbound's.
GatewayInv ==
    /\ \A r \in Requests : TraceInv(r)
    /\ \A r \in panicked : MayTakeLock(r) /\ ~LockIsSound
    /\ Len(audience) = Len(notices)
    /\ \A e \in Entities : EntityInv(e)
    /\ TickIsReadable
    /\ ToldByListeners

\* The kinds of the notices published, and an entity's phase as its push has it.
Log == [p \in DOMAIN notices |-> kind[notices[p]]]

PushPhase(e) == IF phase[e] \in {"new", "gone"} THEN "down" ELSE phase[e]

\* One entity, taken alone, is the push of WatchPush: what another one does, and
\* what the handlers do besides publishing, is nothing to it.
Push(e) == INSTANCE WatchPush WITH
    sent <- Log,
    status <- registry,
    kinds <- filters,
    phase <- PushPhase(e),
    stop_tx <- stop_tx[e],
    rx <- rx[e],
    emitters <- emitters[e],
    emitted <- emitted[e],
    lost <- missed[e]

\* Each entity implements the push, the death of its task on the poisoned lock
\* included: it starts as Push(e)!Init says, and every step of the gateway is one
\* of its steps or none (watch.rs:92-172, state.rs:301).
PushStep(e) == [Push(e)!Next]_(Push(e)!vars)

ImplementsPush ==
    /\ \A e \in Entities : Push(e)!Init
    /\ [][\A e \in Entities : PushStep(e)]_gatewayVars

\* Every request that is let in comes to an end: it is answered, or its thread
\* panicked on the poisoned lock.  None waits for ever (webhook.rs:195-366).
EveryRequestEnds ==
    \A r \in Requests : pc[r] \notin {"new", "answered"} ~> Answered(r) \/ r \in panicked

\* A watch of every kind gets a tick for a notice, or for a later one, from each
\* entity that listened, however far it lags behind, unless the watch is
\* cancelled, the entity dropped, or its task dies (watch.rs:118-138).
NoticeTicks(n) ==
    \A e \in Entities, w \in Watches :
        /\ Len(notices) = n /\ e \in audience[n] /\ Subscribed(e) /\ stop_tx[e] = "armed"
        /\ registry[w] = "live" /\ since[w] < n /\ filters[w] = ALL_KINDS
        ~> \/ LastEmitted(e, w) >= n \/ registry[w] = "cancelled"
           \/ stop_tx[e] = "sent" \/ phase[e] = "dead"
=============================================================================
