------------------------------- MODULE Inbound --------------------------------
(***************************************************************************)
(* The webhook receiver: the four handlers of TwilioWebhook                *)
(* (src/src/webhook.rs) and what they leave in TwilioState                 *)
(* (src/src/state.rs): the ring of recent events, the last status of each  *)
(* SID, the notices and the pushes.                                        *)
(*                                                                         *)
(* Requests run on threads of their own.  A handler stamps its event       *)
(* before it takes the lock to record it, and records it, records a        *)
(* status, publishes the notice and spawns the push under no common lock:  *)
(* each is a step.                                                         *)
(*                                                                         *)
(* An event, its notice and its push are the request they are about.  The  *)
(* signature is its verdict.  How a voice request is answered is           *)
(* VoiceControl's subject and what becomes of a notice WatchPush's: here   *)
(* the reply is one step, after any wait for the handler tool, and the     *)
(* channel is the log of what was published.                               *)
(***************************************************************************)
EXTENDS Naturals, Sequences

CONSTANTS
    Requests,   \* the deliveries of webhooks, each handled once
    Sids,       \* MessageSids and CallSids
    Statuses,   \* of messages and calls
    None,       \* an absent parameter
    RING_CAP,   \* events the ring retains
    Config      \* of "tool", "default_verbs", "auto_reply" and
                \* "notify_webhook_url", those configured

ASSUME RingAssumption == RING_CAP \in Nat \ {0}
ASSUME NoneAssumption == None \notin Sids \union Statuses

VARIABLES
    now,            \* the monotonic clock
    ring,           \* recent events, newest last
    last_status,    \* per SID
    notices,        \* everything published on the notice channel, in order
    pushes,         \* per request: "none", "spawned", "posted" or "failed"
    pc,             \* per request: the next step of its handler, or its end
    kind,           \* "sms", "voice", "gather" or "status"
    sid,            \* its MessageSid or CallSid
    status,         \* its MessageStatus or CallStatus
    received_at,    \* the stamp of its event
    reply,          \* the answer
    \* What the code does not keep, to state properties with:
    recorded,       \* every event recorded, in order
    written         \* every request that wrote a status, in order

paramVars == <<kind, sid, status>>
stateVars == <<ring, last_status, notices, recorded, written>>
vars == <<now, stateVars, pushes, pc, paramVars, received_at, reply>>

Kinds == {"sms", "voice", "gather", "status"}

Replies == {"none", "403", "404", "script", "tool", "default_verbs",
            "auto_reply", "empty", "reject", "204"}

Range(s) == {s[i] : i \in DOMAIN s}

-----------------------------------------------------------------------------
Init ==
    /\ now = 0
    /\ ring = <<>>
    /\ last_status = [s \in Sids |-> None]
    /\ notices = <<>>
    /\ pushes = [r \in Requests |-> "none"]
    /\ pc = [r \in Requests |-> "new"]
    /\ kind = [r \in Requests |-> "sms"]
    /\ sid = [r \in Requests |-> None]
    /\ status = [r \in Requests |-> None]
    /\ received_at = [r \in Requests |-> 0]
    /\ reply = [r \in Requests |-> "none"]
    /\ recorded = <<>>
    /\ written = <<>>

Goto(r, step) == pc' = [pc EXCEPT ![r] = step]

Answer(r, what) ==
    /\ Goto(r, "answered")
    /\ reply' = [reply EXCEPT ![r] = what]

\* Slip: the event is recorded before the signature is checked.
SlipRecordFirst(r) ==
    /\ pc[r] = "new"
    /\ Answer(r, "403")
    /\ ring' = IF Len(ring) = RING_CAP THEN Append(Tail(ring), r) ELSE Append(ring, r)
    /\ recorded' = Append(recorded, r)
    /\ UNCHANGED <<now, last_status, notices, written, pushes, paramVars, received_at>>

\* A signature that does not verify is refused before anything else, a path
\* that is no route of ours after it.
Refuse(r) ==
    /\ pc[r] = "new"
    /\ \E what \in {"403", "404"} : Answer(r, what)
    /\ UNCHANGED <<now, stateVars, pushes, paramVars, received_at>>

\* A request is accepted with its parameters, and routed by its path.
Accept(r, k, s, st) ==
    /\ pc[r] = "new"
    /\ kind' = [kind EXCEPT ![r] = k]
    /\ sid' = [sid EXCEPT ![r] = s]
    /\ status' = [status EXCEPT ![r] = st]
    /\ Goto(r, IF k = "status" /\ s # None /\ st # None THEN "status" ELSE "stamp")
    /\ UNCHANGED <<now, stateVars, pushes, received_at, reply>>

\* Slip: a status already known is kept.
SlipKeepStatus(r) ==
    /\ pc[r] = "status"
    /\ last_status' = [last_status EXCEPT ![sid[r]] = IF @ = None THEN status[r] ELSE @]
    /\ written' = Append(written, r)
    /\ Goto(r, "stamp")
    /\ UNCHANGED <<now, ring, notices, recorded, pushes, paramVars, received_at, reply>>

\* handle_status alone: record_status.
RecordStatus(r) ==
    /\ pc[r] = "status"
    /\ last_status' = [last_status EXCEPT ![sid[r]] = status[r]]
    /\ written' = Append(written, r)
    /\ Goto(r, "stamp")
    /\ UNCHANGED <<now, ring, notices, recorded, pushes, paramVars, received_at, reply>>

\* Slip: the event is announced and never recorded.
SlipNotRecorded(r) ==
    /\ pc[r] = "stamp"
    /\ received_at' = [received_at EXCEPT ![r] = now]
    /\ now' = now + 1
    /\ Goto(r, "notify")
    /\ UNCHANGED <<stateVars, pushes, paramVars, reply>>

\* Instant::now() in the argument of record_event, before the lock.
Stamp(r) ==
    /\ pc[r] = "stamp"
    /\ received_at' = [received_at EXCEPT ![r] = now]
    /\ now' = now + 1
    /\ Goto(r, "record")
    /\ UNCHANGED <<stateVars, pushes, paramVars, reply>>

\* Slips in record_event: a gather turn goes on to publish a notice too; the
\* newest event of a full ring is dropped.
SlipAnnounceGather(r) ==
    /\ pc[r] = "record"
    /\ ring' = IF Len(ring) = RING_CAP THEN Append(Tail(ring), r) ELSE Append(ring, r)
    /\ recorded' = Append(recorded, r)
    /\ Goto(r, "notify")
    /\ UNCHANGED <<now, last_status, notices, written, pushes, paramVars,
                   received_at, reply>>

SlipPopBack(r) ==
    /\ pc[r] = "record"
    /\ ring' = IF Len(ring) = RING_CAP
               THEN Append(SubSeq(ring, 1, RING_CAP - 1), r) ELSE Append(ring, r)
    /\ recorded' = Append(recorded, r)
    /\ Goto(r, IF kind[r] = "gather" THEN "reply" ELSE "notify")
    /\ UNCHANGED <<now, last_status, notices, written, pushes, paramVars,
                   received_at, reply>>

\* record_event, which evicts the oldest of a full ring.  A gather turn
\* publishes no notice.
RecordEvent(r) ==
    /\ pc[r] = "record"
    /\ ring' = IF Len(ring) = RING_CAP THEN Append(Tail(ring), r) ELSE Append(ring, r)
    /\ recorded' = Append(recorded, r)
    /\ Goto(r, IF kind[r] = "gather" THEN "reply" ELSE "notify")
    /\ UNCHANGED <<now, last_status, notices, written, pushes, paramVars,
                   received_at, reply>>

\* notify_inbound.  A status callback is not pushed.
NotifyInbound(r) ==
    /\ pc[r] = "notify"
    /\ notices' = Append(notices, r)
    /\ Goto(r, IF kind[r] = "status" THEN "reply" ELSE "push")
    /\ UNCHANGED <<now, ring, last_status, recorded, written, pushes, paramVars,
                   received_at, reply>>

\* maybe_push spawns the POST and does not wait for it.
MaybePush(r) ==
    /\ pc[r] = "push"
    /\ pushes' = IF "notify_webhook_url" \in Config
                 THEN [pushes EXCEPT ![r] = "spawned"] ELSE pushes
    /\ Goto(r, "reply")
    /\ UNCHANGED <<now, stateVars, paramVars, received_at, reply>>

\* The task of maybe_push: one POST, whose failure is ignored.
PushTask(r) ==
    /\ pushes[r] = "spawned"
    /\ \E end \in {"posted", "failed"} : pushes' = [pushes EXCEPT ![r] = end]
    /\ UNCHANGED <<now, stateVars, pc, paramVars, received_at, reply>>

\* The answer when no script and no tool gave one.
Fallback(k) ==
    CASE k = "sms"    -> IF "auto_reply" \in Config THEN "auto_reply" ELSE "empty"
      [] k = "voice"  -> IF "default_verbs" \in Config THEN "default_verbs" ELSE "reject"
      [] k = "gather" -> "reject"
      [] k = "status" -> "204"

\* What may answer a request besides: a staged script, the tool's verbs.
Controls(k) ==
    (IF k = "voice" THEN {"script"} ELSE {})
        \union (IF k # "status" /\ "tool" \in Config THEN {"tool"} ELSE {})

Reply(r) ==
    /\ pc[r] = "reply"
    /\ \E what \in Controls(kind[r]) \union {Fallback(kind[r])} : Answer(r, what)
    /\ UNCHANGED <<now, stateVars, pushes, paramVars, received_at>>

-----------------------------------------------------------------------------
\* The parameters a request may carry.  A status matters to a callback only.
Arrive(r) ==
    \E k \in Kinds, s \in Sids \union {None}, st \in Statuses \union {None} :
        /\ k # "status" => st = None
        /\ Accept(r, k, s, st)

\* The steps of a request that was accepted.
Handle(r) ==
    \/ RecordStatus(r)
    \/ Stamp(r)
    \/ RecordEvent(r)
    \/ NotifyInbound(r)
    \/ MaybePush(r)
    \/ Reply(r)

Next == \E r \in Requests : Refuse(r) \/ Arrive(r) \/ Handle(r) \/ PushTask(r)

Spec == Init /\ [][Next]_vars

-----------------------------------------------------------------------------
Steps == {"status", "stamp", "record", "notify", "push", "reply"}

Answered(r) == pc[r] = "answered"

\* The type of the state.
TypeOK ==
    /\ now \in Nat
    /\ ring \in Seq(Requests)
    /\ last_status \in [Sids -> Statuses \union {None}]
    /\ notices \in Seq(Requests)
    /\ pushes \in [Requests -> {"none", "spawned", "posted", "failed"}]
    /\ pc \in [Requests -> Steps \union {"new", "answered"}]
    /\ kind \in [Requests -> Kinds]
    /\ sid \in [Requests -> Sids \union {None}]
    /\ status \in [Requests -> Statuses \union {None}]
    /\ received_at \in [Requests -> Nat]
    /\ reply \in [Requests -> Replies]
    /\ recorded \in Seq(Requests)
    /\ written \in Seq(Requests)

\* The ring is the tail of everything recorded, no longer than its capacity and
\* no shorter than it has to be (state.rs:159-166).
RecentIsSuffix ==
    LET dropped == Len(recorded) - Len(ring) IN
    /\ Len(ring) <= RING_CAP
    /\ Len(ring) < RING_CAP => dropped = 0
    /\ \A i \in DOMAIN ring :
          dropped + i \in DOMAIN recorded /\ ring[i] = recorded[dropped + i]

\* A refused request leaves no trace: no event, status, notice or push
\* (webhook.rs:175-181).
RefusedLeavesNoTrace ==
    \A r \in Requests : reply[r] \in {"403", "404"} =>
        /\ r \notin Range(recorded) \union Range(notices) \union Range(written)
        /\ pushes[r] = "none"

\* What is announced can be read: whatever other requests do meanwhile, the
\* event of a notice or a push is in the ring, unless RING_CAP later events
\* were recorded since (webhook.rs:203-228, 246-268).
AnnouncedIsReadable ==
    \A r \in Requests : r \in Range(notices) \/ pushes[r] # "none" =>
        \E i \in DOMAIN recorded :
            /\ recorded[i] = r
            /\ r \in Range(ring) \/ i + RING_CAP <= Len(recorded)

\* A delivery is recorded once and announced once, though the threads of other
\* deliveries interleave (webhook.rs:195-366).
OncePerDelivery ==
    /\ \A i, j \in DOMAIN recorded : recorded[i] = recorded[j] => i = j
    /\ \A i, j \in DOMAIN notices : notices[i] = notices[j] => i = j

\* A SID's status is the one written last for it, and a status callback whose
\* notice is out wrote its own before (state.rs:220-224, webhook.rs:327-366).
Latest(s) == {i \in DOMAIN written :
                 /\ sid[written[i]] = s
                 /\ \A j \in DOMAIN written : sid[written[j]] = s => j <= i}

StatusTraced ==
    /\ \A s \in Sids :
          /\ last_status[s] # None => Latest(s) # {}
          /\ \A i \in Latest(s) : last_status[s] = status[written[i]]
    /\ \A r \in Range(notices) :
          kind[r] = "status" /\ sid[r] # None /\ status[r] # None
              => r \in Range(written)

\* Where a handler is agrees with what its request has left behind, and what it
\* leaves is what its kind asks for: every kind records its event, a status
\* callback alone writes a status, all but a gather turn are announced, and only
\* messages and calls are pushed, if a URL is configured
\* (webhook.rs:195-235, 237-296, 298-325, 327-366).
HandlerInv ==
    \A r \in Requests :
        LET accepted == reply[r] \notin {"403", "404"} IN
        /\ reply[r] # "none" => pc[r] = "answered"
        /\ pc[r] = "status" => kind[r] = "status" /\ sid[r] # None /\ status[r] # None
        /\ pc[r] = "notify" => kind[r] # "gather"
        /\ pc[r] = "push" => kind[r] \in {"sms", "voice"}
        /\ r \in Range(recorded) <=>
              pc[r] \in {"notify", "push", "reply", "answered"} /\ accepted
        /\ r \in Range(written) <=>
              /\ pc[r] \notin {"new", "status"} /\ accepted
              /\ kind[r] = "status" /\ sid[r] # None /\ status[r] # None
        /\ r \in Range(notices) <=>
              /\ pc[r] \in {"push", "reply", "answered"} /\ accepted
              /\ kind[r] # "gather"
        /\ pushes[r] # "none" <=>
              /\ pc[r] \in {"reply", "answered"} /\ accepted
              /\ kind[r] \in {"sms", "voice"} /\ "notify_webhook_url" \in Config

\* The inductive invariant behind the safety properties.
IInv == HandlerInv /\ RecentIsSuffix /\ OncePerDelivery /\ StatusTraced
=============================================================================
