------------------------------ MODULE WatchPush ------------------------------
(***************************************************************************)
(* The native watch push: the notice channel and the watch registry of     *)
(* TwilioState (src/src/state.rs) and the dispatcher task of the watch     *)
(* entity (src/src/watch.rs).                                              *)
(*                                                                         *)
(* Three kinds of actor interleave.  Webhook threads publish notices onto  *)
(* a tokio broadcast channel and never wait.  Host threads register and    *)
(* cancel watches under the state lock, and build and drop the entity.     *)
(* The dispatcher receives one notice at a time, takes a snapshot of the   *)
(* matching emitters under the lock, releases it and calls them one by     *)
(* one.  Each critical section, receive and emit call is a step.           *)
(*                                                                         *)
(* An agent's call may panic with the lock held.  The lock is poisoned for *)
(* good: nobody registers or cancels any more, and the dispatcher's task   *)
(* dies of the next notice it receives.  Publishing takes no lock.         *)
(*                                                                         *)
(* The channel is modelled by the log of everything published: it retains  *)
(* the last NOTICE_CHANNEL_CAP entries of sent, and a receiver is a cursor *)
(* into it.  A notice is abstracted to its kind, an emit call to the       *)
(* position of its notice (the payload is not modelled), the id of a       *)
(* registration to the watch itself.                                       *)
(***************************************************************************)
EXTENDS Naturals, Sequences

CONSTANTS Watches,              \* the registrations the host may ask for
          ALL_KINDS,            \* the notice kinds
          NOTICE_CHANNEL_CAP    \* capacity of the broadcast channel

ASSUME CapAssumption == NOTICE_CHANNEL_CAP \in Nat \ {0}

VARIABLES
    poisoned,   \* "yes" once a thread panicked with the lock held
    sent,       \* kinds of all notices published, oldest first
    status,     \* the registry: "new", "live" (registered) or "cancelled"
    kinds,      \* the filter each watch was registered with
    phase,      \* the dispatcher: "down", "starting", "listening",
                \* "received" (notice taken), "emitting" (snapshot taken) or
                \* "dead" (its task panicked, the entity is still there)
    stop_tx,    \* "sent" once the entity is being dropped, else "armed"
    rx,         \* the next position of sent the receiver will read
    emitters,   \* the snapshot's watches whose emit is still to be called
    emitted,    \* per watch, positions of the notices emitted to it, in order
    \* What the code does not keep, to state properties with:
    since,      \* Len(sent) when each watch was registered
    until,      \* Len(sent) when each watch was cancelled
    lost        \* the positions no dispatcher will ever receive

hostVars == <<status, kinds, since, until>>
dispVars == <<phase, stop_tx, rx, emitters>>
vars == <<poisoned, sent, status, kinds, phase, stop_tx, rx, emitters, emitted,
          since, until, lost>>

-----------------------------------------------------------------------------
\* The lock can be taken.
LockIsSound == poisoned = "no"

Subscribed == phase \in {"listening", "received", "emitting"}

\* The oldest position the channel still holds.
OldestRetained ==
    IF Len(sent) > NOTICE_CHANNEL_CAP THEN Len(sent) - NOTICE_CHANNEL_CAP + 1
                                      ELSE 1

Lagging == rx < OldestRetained

\* The notice under dispatch.
Current == rx - 1

\* Slip in matching_emitters: the kind is ignored.
SlipAnyKind(k) == {w \in Watches : status[w] = "live"}

\* The watches whose filter matches a kind.
MatchingEmitters(k) == {w \in Watches : status[w] = "live" /\ k \in kinds[w]}

-----------------------------------------------------------------------------
Init ==
    /\ poisoned = "no"
    /\ sent = <<>>
    /\ status = [w \in Watches |-> "new"]
    /\ kinds = [w \in Watches |-> {}]
    /\ phase = "down"
    /\ stop_tx = "armed"
    /\ rx = 1
    /\ emitters = {}
    /\ emitted = [w \in Watches |-> <<>>]
    /\ since = [w \in Watches |-> 0]
    /\ until = [w \in Watches |-> 0]
    /\ lost = {}

\* The agent: a ttl_secs that the expiry cannot hold panics in stage_script.
StageOverflow ==
    /\ LockIsSound
    /\ poisoned' = "yes"
    /\ UNCHANGED <<sent, hostVars, dispVars, emitted, lost>>

(* A webhook thread: TwilioState::notify_inbound.  With no receiver the    *)
(* send fails and the notice is dropped.                                   *)
NotifyInbound(k) ==
    /\ sent' = Append(sent, k)
    /\ lost' = IF Subscribed THEN lost ELSE lost \union {Len(sent) + 1}
    /\ UNCHANGED <<poisoned, hostVars, dispVars, emitted>>

\* What parse_kinds lets through: a list that is empty or names an unknown kind
\* is refused, an absent one asks for every kind.
Filters == SUBSET ALL_KINDS \ {{}}

(* The host.  A spec that parse_kinds refuses leaves the registry alone,   *)
(* and so does a panic on the poisoned lock.                               *)
Watch(w, ks) ==
    /\ LockIsSound
    /\ status[w] = "new"
    /\ ks \in Filters
    /\ status' = [status EXCEPT ![w] = "live"]
    /\ kinds' = [kinds EXCEPT ![w] = ks]
    /\ since' = [since EXCEPT ![w] = Len(sent)]
    /\ UNCHANGED <<poisoned, sent, until, dispVars, emitted, lost>>

\* The registry is in the shared state: cancelling needs no dispatcher.
Cancel(w) ==
    /\ LockIsSound
    /\ status[w] = "live"
    /\ status' = [status EXCEPT ![w] = "cancelled"]
    /\ until' = [until EXCEPT ![w] = Len(sent)]
    /\ UNCHANGED <<poisoned, sent, kinds, since, dispVars, emitted, lost>>

\* TwilioWatchCdylib::new returns with the dispatcher spawned, not running.
StartEntity ==
    /\ phase = "down"
    /\ phase' = "starting"
    /\ UNCHANGED <<poisoned, sent, hostVars, stop_tx, rx, emitters, emitted, lost>>

\* Drop signals stop_tx, then drops the runtime, which joins its worker.
DropEntity ==
    /\ phase # "down"
    /\ stop_tx = "armed"
    /\ stop_tx' = "sent"
    /\ UNCHANGED <<poisoned, sent, hostVars, phase, rx, emitters, emitted, lost>>

(* The dispatcher task.                                                    *)
Subscribe ==
    /\ phase = "starting"
    /\ phase' = "listening"
    /\ rx' = Len(sent) + 1
    /\ UNCHANGED <<poisoned, sent, hostVars, stop_tx, emitters, emitted, lost>>

\* Slips in the Lagged arm: one notice too many skipped, a fresh subscription
\* at the tail.
SlipSkipOneMore ==
    /\ phase = "listening"
    /\ Lagging
    /\ rx' = OldestRetained + 1
    /\ lost' = lost \union (rx .. OldestRetained - 1)
    /\ UNCHANGED <<poisoned, sent, hostVars, phase, stop_tx, emitters, emitted>>

SlipResubscribe ==
    /\ phase = "listening"
    /\ Lagging
    /\ rx' = Len(sent) + 1
    /\ lost' = lost \union (rx .. Len(sent))
    /\ UNCHANGED <<poisoned, sent, hostVars, phase, stop_tx, emitters, emitted>>

\* recv() = Err(Lagged(n)): the cursor jumps to the oldest notice retained.
RecvLagged ==
    /\ phase = "listening"
    /\ Lagging
    /\ rx' = OldestRetained
    /\ lost' = lost \union (rx .. OldestRetained - 1)
    /\ UNCHANGED <<poisoned, sent, hostVars, phase, stop_tx, emitters, emitted>>

\* recv() = Ok(notice).
RecvOk ==
    /\ phase = "listening"
    /\ ~Lagging
    /\ rx <= Len(sent)
    /\ rx' = rx + 1
    /\ phase' = "received"
    /\ UNCHANGED <<poisoned, sent, hostVars, stop_tx, emitters, emitted, lost>>

\* matching_emitters: the snapshot, under the lock; none ends the dispatch.
Snapshot ==
    LET matching == MatchingEmitters(sent[Current]) IN
    /\ LockIsSound
    /\ phase = "received"
    /\ emitters' = matching
    /\ phase' = IF matching = {} THEN "listening" ELSE "emitting"
    /\ UNCHANGED <<poisoned, sent, hostVars, stop_tx, rx, emitted, lost>>

\* Slip: the panic is caught, and the loop goes on with the next notice.
SlipCatchPanic ==
    /\ ~LockIsSound
    /\ phase = "received"
    /\ phase' = "listening"
    /\ UNCHANGED <<poisoned, sent, hostVars, stop_tx, rx, emitters, emitted, lost>>

\* matching_emitters panics: the task ends with the notice in hand, and its
\* receiver goes with all that is queued.  The entity does not notice.
Die ==
    /\ ~LockIsSound
    /\ phase = "received"
    /\ phase' = "dead"
    /\ lost' = lost \union (Current .. Len(sent))
    /\ UNCHANGED <<poisoned, sent, hostVars, stop_tx, rx, emitters, emitted>>

\* One call of the host's emit, after the lock was released.  The watch may
\* have been cancelled since the snapshot.
Emit(w) ==
    /\ phase = "emitting"
    /\ w \in emitters
    /\ emitted' = [emitted EXCEPT ![w] = Append(@, Current)]
    /\ emitters' = emitters \ {w}
    /\ phase' = IF emitters = {w} THEN "listening" ELSE "emitting"
    /\ UNCHANGED <<poisoned, sent, hostVars, stop_tx, rx, lost>>

\* The select takes the stop branch, or the runtime drops the task before it
\* ran or between two notices; the receiver goes with the task.  A dead task is
\* gone already.
Exit ==
    /\ stop_tx = "sent"
    /\ phase \in {"starting", "listening", "dead"}
    /\ phase' = "down"
    /\ stop_tx' = "armed"
    /\ lost' = IF Subscribed THEN lost \union (rx .. Len(sent)) ELSE lost
    /\ UNCHANGED <<poisoned, sent, hostVars, rx, emitters, emitted>>

-----------------------------------------------------------------------------
Webhook == \E k \in ALL_KINDS : NotifyInbound(k)

Host ==
    \/ \E w \in Watches :
          \/ \E ks \in SUBSET ALL_KINDS : Watch(w, ks)
          \/ Cancel(w)
    \/ StartEntity
    \/ DropEntity

Dispatcher ==
    \/ Subscribe
    \/ RecvLagged
    \/ RecvOk
    \/ Snapshot
    \/ Die
    \/ \E w \in Watches : Emit(w)
    \/ Exit

Next == StageOverflow \/ Webhook \/ Host \/ Dispatcher

Spec == Init /\ [][Next]_vars

-----------------------------------------------------------------------------
Range(s) == {s[i] : i \in DOMAIN s}

\* The type of the state.
TypeOK ==
    /\ poisoned \in {"yes", "no"}
    /\ sent \in Seq(ALL_KINDS)
    /\ status \in [Watches -> {"new", "live", "cancelled"}]
    /\ kinds \in [Watches -> SUBSET ALL_KINDS]
    /\ phase \in {"down", "starting", "listening", "received", "emitting", "dead"}
    /\ stop_tx \in {"armed", "sent"}
    /\ rx \in Nat \ {0}
    /\ emitters \subseteq Watches
    /\ emitted \in [Watches -> Seq(Nat)]
    /\ since \in [Watches -> Nat]
    /\ until \in [Watches -> Nat]
    /\ lost \subseteq Nat

\* A watch is told of a notice at most once and in the order of publication,
\* through lag and through a restart of the entity over the same registry
\* (state.rs:252-278, watch.rs:118-138).
InOrder ==
    \A w \in Watches : \A i, j \in DOMAIN emitted[w] :
        i < j => emitted[w][i] < emitted[w][j]

\* A notice published after cancel returned never reaches the cancelled watch,
\* whatever was queued or in flight at that moment (watch.rs:206-215).
CancelCutoff ==
    \A w \in Watches : status[w] = "cancelled" =>
        \A i \in DOMAIN emitted[w] : emitted[w][i] <= until[w]

\* The notice p is on its way to the watch w: still queued, received, or in
\* the snapshot being emitted.
Underway(w, p) ==
    \/ Subscribed /\ p >= rx
    \/ phase = "received" /\ p = Current
    \/ phase = "emitting" /\ p = Current /\ w \in emitters

\* A notice published while a watch is registered for its kind is emitted to
\* it, underway, or lost: with no dispatcher listening, by an overrun of the
\* channel, or with a task that was dropped or died of the poisoned lock.  A
\* living dispatcher skips no watch and drops no notice (watch.rs:118-138,
\* 157-172, state.rs:301).
NoSilentLoss ==
    \A w \in Watches : status[w] = "live" =>
        \A p \in (since[w] + 1) .. Len(sent) : sent[p] \in kinds[w] =>
            p \in Range(emitted[w]) \/ p \in lost \/ Underway(w, p)

\* While a dispatcher listens, a notice is lost only once the channel's whole
\* capacity was published after it: the newest NOTICE_CHANNEL_CAP notices
\* survive any lag (state.rs:35-38, watch.rs:125-130).
LostOnlyByOverflow ==
    [][Subscribed /\ Subscribed' =>
         \A p \in lost' \ lost : p + NOTICE_CHANNEL_CAP <= Len(sent)]_vars

\* A lost notice is lost for good: no dispatcher has emitted it, has it in hand or
\* will come to it, one built later included.  Without one that listens all that
\* the last one left is lost, and a dead one took the notice in hand with it
\* (watch.rs:118-138, state.rs:255-259, 301).
LossInv ==
    /\ \A p \in lost : p <= Len(sent) /\ (Subscribed => p < rx)
    /\ phase \in {"received", "emitting"} => Current \notin lost
    /\ \A w \in Watches : lost \intersect Range(emitted[w]) = {}
    /\ ~Subscribed => rx .. Len(sent) \subseteq lost
    /\ phase = "dead" => ~LockIsSound /\ Current \in lost

\* The dispatcher's bookkeeping, which the properties above rest on: the cursor
\* never passes the end of the log, a watch still to be told of the notice in
\* hand has been told of earlier ones only, and every emitter of a snapshot
\* asked for that notice and was not cancelled before it was published.
EmitterInv(w) ==
    /\ status[w] = "new" => emitted[w] = <<>>
    /\ \A i \in DOMAIN emitted[w] :
          /\ emitted[w][i] < rx
          /\ phase = "received" \/ w \in emitters => emitted[w][i] < Current
    /\ w \in emitters =>
          /\ status[w] # "new"
          /\ sent[Current] \in kinds[w]
          /\ status[w] = "cancelled" => Current <= until[w]

DispatchInv ==
    /\ rx <= Len(sent) + 1
    /\ phase \in {"received", "emitting"} => rx > 1
    /\ phase # "emitting" => emitters = {}
    /\ \A w \in Watches : EmitterInv(w)

\* The push implements the feed a client is promised.
Feed == INSTANCE WatchFeed
ImplementsFeed == Feed!FeedSpec
=============================================================================
