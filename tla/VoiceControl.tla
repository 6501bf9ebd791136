---------------------------- MODULE VoiceControl -----------------------------
(***************************************************************************)
(* Live call control: the staged-script map of TwilioState                 *)
(* (src/src/state.rs), the stage_call_response operation that fills it     *)
(* (src/src/tools.rs) and the voice webhook that empties it                *)
(* (src/src/webhook.rs, handle_voice).                                     *)
(*                                                                         *)
(* Agents stage scripts while voice webhook requests, retries of the same  *)
(* call among them, run on threads of their own.  A request takes the      *)
(* state lock three times (record_event, then one take_script per key) and *)
(* releases it in between; each of these is a step.  The handler tool runs *)
(* on another thread under a timeout and may end after the request was     *)
(* answered without it.                                                    *)
(*                                                                         *)
(* A script is its position in the history of stagings; its verbs are not  *)
(* modelled.  A ScriptKey is a CallSid or a number, the two never equal.   *)
(* The ring that record_event fills and the channel that notify_inbound    *)
(* feeds are not part of this module: here the two only move the request   *)
(* on.  The agents include a handler tool that stages scripts while it     *)
(* runs, or after its request was answered without it.                     *)
(***************************************************************************)
EXTENDS Naturals, Sequences

CONSTANTS
    Requests,       \* the deliveries of voice webhooks, each handled once
    CallSids,       \* the calls
    Numbers,        \* the destination numbers
    None,           \* an absent or empty form parameter or argument
    Ttls,           \* the ttl_secs agents pass (900 when they pass none)
    INSTANT_MAX,    \* the latest Instant the platform represents
    InboundVoice    \* of "handler_tool" and "default_verbs", those configured

Keys == CallSids \union Numbers

ASSUME KeyAssumption == CallSids \intersect Numbers = {} /\ None \notin Keys
ASSUME TtlAssumption == Ttls \subseteq Nat /\ INSTANT_MAX \in Nat

VARIABLES
    now,         \* the monotonic clock
    staged,      \* the map: per key, the script filed under it, or 0
    poisoned,    \* "yes" once a thread panicked with the lock held
    pc,          \* per request: the next step of handle_voice, its reply, or
                 \* "panicked"
    sid,         \* the CallSid parameter of each request
    to,          \* its To parameter
    tool,        \* its handler tool: "idle", "running", "abandoned", "ended"
    \* What the code does not keep, to state properties with:
    stagings,    \* every script staged, oldest first
    served,      \* per request, the script it was answered with, or 0
    arrived      \* per request, how many scripts were staged when it came

callVars == <<pc, sid, to, tool, served, arrived>>
vars == <<now, staged, poisoned, pc, sid, to, tool, stagings, served, arrived>>

Replies == {"script", "tool", "default", "reject"}

Answered(r) == pc[r] \in Replies

-----------------------------------------------------------------------------
Init ==
    /\ now = 0
    /\ staged = [k \in Keys |-> 0]
    /\ poisoned = "no"
    /\ pc = [r \in Requests |-> "record"]
    /\ sid = [r \in Requests |-> None]
    /\ to = [r \in Requests |-> None]
    /\ tool = [r \in Requests |-> "idle"]
    /\ stagings = <<>>
    /\ served = [r \in Requests |-> 0]
    /\ arrived = [r \in Requests |-> 0]

Tick ==
    /\ now' = now + 1
    /\ UNCHANGED <<staged, poisoned, callVars, stagings>>

-----------------------------------------------------------------------------
(* The agent: stage_call_response.  Empty verbs, or neither a call_sid nor *)
(* a to, is a tool error that stages nothing.  When the expiry cannot be   *)
(* represented the addition panics, and the lock is held: every later      *)
(* lock().expect(..) panics too.                                           *)

\* An argument call_sid wins over an argument to.
KeyOf(callSid, number) == IF callSid # None THEN callSid ELSE number

\* Slip: a script already filed is kept.
SlipKeepFirst(k, ttl) ==
    IF now + ttl > INSTANT_MAX
    THEN poisoned' = "yes" /\ UNCHANGED <<staged, stagings>>
    ELSE /\ stagings' = Append(stagings, [key |-> k, expires_at |-> now + ttl])
         /\ staged' = IF staged[k] = 0
                      THEN [staged EXCEPT ![k] = Len(stagings) + 1] ELSE staged
         /\ UNCHANGED poisoned

StageScript(k, ttl) ==
    IF now + ttl > INSTANT_MAX
    THEN poisoned' = "yes" /\ UNCHANGED <<staged, stagings>>
    ELSE /\ stagings' = Append(stagings, [key |-> k, expires_at |-> now + ttl])
         /\ staged' = [staged EXCEPT ![k] = Len(stagings) + 1]
         /\ UNCHANGED poisoned

StageCallResponse(callSid, number, ttl) ==
    /\ KeyOf(callSid, number) # None
    /\ poisoned = "no"
    /\ StageScript(KeyOf(callSid, number), ttl)
    /\ UNCHANGED <<now, callVars>>

-----------------------------------------------------------------------------
(* The request.                                                            *)

\* A panicked handler leaves everything else alone.
Panic(r) ==
    /\ pc' = [pc EXCEPT ![r] = "panicked"]
    /\ UNCHANGED <<now, staged, poisoned, sid, to, tool, stagings, served, arrived>>

\* take_script panics on a poisoned lock, as record_event does.
PanicOnLock(r) ==
    /\ poisoned = "yes"
    /\ pc[r] \in {"record", "take_sid", "take_to"}
    /\ Panic(r)

RecordEvent(r, callSid, number) ==
    /\ pc[r] = "record"
    /\ poisoned = "no"
    /\ sid' = [sid EXCEPT ![r] = callSid]
    /\ to' = [to EXCEPT ![r] = number]
    /\ pc' = [pc EXCEPT ![r] = "notify"]
    /\ arrived' = [arrived EXCEPT ![r] = Len(stagings)]
    /\ UNCHANGED <<now, staged, poisoned, tool, stagings, served>>

\* notify_inbound and maybe_push, which wait for nothing.
Notify(r) ==
    /\ pc[r] = "notify"
    /\ pc' = [pc EXCEPT ![r] = "take_sid"]
    /\ UNCHANGED <<now, staged, poisoned, sid, to, tool, stagings, served, arrived>>

Fresh(i) == stagings[i].expires_at > now

\* Slips in take_script: the script read but not removed, its expiry ignored,
\* a script about to expire thrown away.
SlipPeek(r, k, next) ==
    LET i == staged[k] IN
    /\ poisoned = "no"
    /\ IF i # 0 /\ Fresh(i)
       THEN /\ served' = [served EXCEPT ![r] = i]
            /\ pc' = [pc EXCEPT ![r] = "script"]
       ELSE /\ pc' = [pc EXCEPT ![r] = next]
            /\ UNCHANGED served
    /\ UNCHANGED <<now, staged, poisoned, sid, to, tool, stagings, arrived>>

SlipIgnoreExpiry(r, k, next) ==
    LET i == staged[k] IN
    /\ poisoned = "no"
    /\ staged' = [staged EXCEPT ![k] = 0]
    /\ IF i # 0
       THEN /\ served' = [served EXCEPT ![r] = i]
            /\ pc' = [pc EXCEPT ![r] = "script"]
       ELSE /\ pc' = [pc EXCEPT ![r] = next]
            /\ UNCHANGED served
    /\ UNCHANGED <<now, poisoned, sid, to, tool, stagings, arrived>>

SlipExpiryMargin(r, k, next) ==
    LET i == staged[k] IN
    /\ poisoned = "no"
    /\ staged' = [staged EXCEPT ![k] = 0]
    /\ IF i # 0 /\ stagings[i].expires_at > now + 1
       THEN /\ served' = [served EXCEPT ![r] = i]
            /\ pc' = [pc EXCEPT ![r] = "script"]
       ELSE /\ pc' = [pc EXCEPT ![r] = next]
            /\ UNCHANGED served
    /\ UNCHANGED <<now, poisoned, sid, to, tool, stagings, arrived>>

\* take_script: whatever is filed under the key is removed; it is the reply if
\* it has not expired, and otherwise the handler goes on.
TakeScript(r, k, next) ==
    LET i == staged[k] IN
    /\ poisoned = "no"
    /\ staged' = [staged EXCEPT ![k] = 0]
    /\ IF i # 0 /\ Fresh(i)
       THEN /\ served' = [served EXCEPT ![r] = i]
            /\ pc' = [pc EXCEPT ![r] = "script"]
       ELSE /\ pc' = [pc EXCEPT ![r] = next]
            /\ UNCHANGED served
    /\ UNCHANGED <<now, poisoned, sid, to, tool, stagings, arrived>>

\* Without the parameter the handler goes on at once.
Skip(r, next) ==
    /\ pc' = [pc EXCEPT ![r] = next]
    /\ UNCHANGED <<now, staged, poisoned, sid, to, tool, stagings, served, arrived>>

\* Slip: a call with a CallSid is not looked up by its number.
SlipSidOnly(r) ==
    /\ pc[r] = "take_sid"
    /\ IF sid[r] # None THEN TakeScript(r, sid[r], "tool?") ELSE Skip(r, "take_to")

TakeBySid(r) ==
    /\ pc[r] = "take_sid"
    /\ IF sid[r] # None THEN TakeScript(r, sid[r], "take_to") ELSE Skip(r, "take_to")

TakeByTo(r) ==
    /\ pc[r] = "take_to"
    /\ IF to[r] # None THEN TakeScript(r, to[r], "tool?") ELSE Skip(r, "tool?")

\* The templated default, else a safe <Reject/>.
Fallback == IF "default_verbs" \in InboundVoice THEN "default" ELSE "reject"

\* run_handler_tool returns None at once when no tool is configured.
InvokeTool(r) ==
    /\ pc[r] = "tool?"
    /\ IF "handler_tool" \in InboundVoice
       THEN /\ tool' = [tool EXCEPT ![r] = "running"]
            /\ pc' = [pc EXCEPT ![r] = "await"]
       ELSE /\ pc' = [pc EXCEPT ![r] = Fallback]
            /\ UNCHANGED tool
    /\ UNCHANGED <<now, staged, poisoned, sid, to, stagings, served, arrived>>

\* The tool ends in time: its verbs (an empty list included) are the reply; an
\* error or a result without verbs is answered with the fallback.
ToolAnswers(r, reply) ==
    /\ pc[r] = "await"
    /\ tool' = [tool EXCEPT ![r] = "ended"]
    /\ pc' = [pc EXCEPT ![r] = reply]
    /\ UNCHANGED <<now, staged, poisoned, sid, to, stagings, served, arrived>>

\* Slip: the wait is for the task to end, not for the timer.
SlipJoinTool(r) ==
    /\ pc[r] = "await"
    /\ tool[r] = "ended"
    /\ pc' = [pc EXCEPT ![r] = Fallback]
    /\ UNCHANGED <<now, staged, poisoned, sid, to, tool, stagings, served, arrived>>

\* handler_timeout_ms passes first.  The blocking task is not stopped.
ToolTimeout(r) ==
    /\ pc[r] = "await"
    /\ tool' = [tool EXCEPT ![r] = "abandoned"]
    /\ pc' = [pc EXCEPT ![r] = Fallback]
    /\ UNCHANGED <<now, staged, poisoned, sid, to, stagings, served, arrived>>

\* The late answer is dropped with the task.
ToolEndsLate(r) ==
    /\ tool[r] = "abandoned"
    /\ tool' = [tool EXCEPT ![r] = "ended"]
    /\ UNCHANGED <<now, staged, poisoned, pc, sid, to, stagings, served, arrived>>

-----------------------------------------------------------------------------
Agent == \E callSid \in CallSids \union {None}, number \in Numbers \union {None},
            ttl \in Ttls : StageCallResponse(callSid, number, ttl)

\* The steps of the webhook thread itself.
HandleVoice(r) ==
    \/ \E callSid \in CallSids \union {None}, number \in Numbers \union {None} :
          RecordEvent(r, callSid, number)
    \/ Notify(r)
    \/ TakeBySid(r)
    \/ TakeByTo(r)
    \/ InvokeTool(r)
    \/ ToolTimeout(r)
    \/ PanicOnLock(r)

HandlerTool(r) ==
    \/ \E reply \in {"tool", Fallback} : ToolAnswers(r, reply)
    \/ ToolEndsLate(r)

Next == Tick \/ Agent \/ \E r \in Requests : HandleVoice(r) \/ HandlerTool(r)

Spec == Init /\ [][Next]_vars

\* A request that began runs on, timer included; a request need not come, a
\* tool need not end and an agent need not stage.
Fairness ==
    \A r \in Requests : WF_vars(pc[r] # "record" /\ HandleVoice(r))

FairSpec == Spec /\ Fairness

-----------------------------------------------------------------------------
Scripts == DOMAIN stagings

\* No later script was staged under the key of script i.
Newest(i) == \A j \in Scripts : j > i => stagings[j].key # stagings[i].key

IsServed(i) == \E r \in Requests : served[r] = i

\* The type of the state.
TypeOK ==
    /\ now \in Nat
    /\ staged \in [Keys -> Nat]
    /\ poisoned \in {"yes", "no"}
    /\ pc \in [Requests -> Replies \union {"record", "notify", "take_sid", "take_to",
                                           "tool?", "await", "panicked"}]
    /\ sid \in [Requests -> CallSids \union {None}]
    /\ to \in [Requests -> Numbers \union {None}]
    /\ tool \in [Requests -> {"idle", "running", "abandoned", "ended"}]
    /\ stagings \in Seq([key : Keys, expires_at : Nat])
    /\ served \in [Requests -> Nat]
    /\ arrived \in [Requests -> Nat]

\* What the map holds: the newest script of its key, not yet served.
MapInv ==
    \A k \in Keys : staged[k] # 0 =>
        /\ staged[k] \in Scripts
        /\ stagings[staged[k]].key = k
        /\ Newest(staged[k])
        /\ ~IsServed(staged[k])

\* A script answers at most one request, retries of its own call included
\* (state.rs:194-202, "take (consume)").
ServedOnce ==
    \A r, q \in Requests : served[r] = served[q] /\ served[r] # 0 => r = q

\* No script is mislaid: each is still filed under its key, served, replaced
\* by a later one for the key, or expired (state.rs:181-202).
Accounted ==
    \A i \in Scripts :
        \/ staged[stagings[i].key] = i
        \/ IsServed(i)
        \/ ~Newest(i)
        \/ ~Fresh(i)

\* The request r looked under k and found nothing it could use: a script that
\* was staged there before r came, is the newest and has not expired, answered
\* another request.
LookedUnder(r, k) ==
    \A i \in Scripts :
        i <= arrived[r] /\ stagings[i].key = k /\ Newest(i) /\ Fresh(i)
            => IsServed(i)

\* Staging a script before the call comes in is enough.  Once a request is
\* answered, a script staged before it came, for its CallSid or its number, was
\* served, unless a later one replaced it, it expired, or the CallSid's own
\* script went before the number's (webhook.rs:270-284).
StageThenCall ==
    \A r \in Requests : Answered(r) =>
        /\ LookedUnder(r, sid[r])
        /\ LookedUnder(r, to[r]) \/ (/\ pc[r] = "script"
                                     /\ stagings[served[r]].key = sid[r])

\* Who was served, and by what.
ServedInv ==
    \A r \in Requests :
        /\ served[r] # 0 <=> pc[r] = "script"
        /\ served[r] # 0 => /\ served[r] \in Scripts
                            /\ stagings[served[r]].key \in {sid[r], to[r]}
        /\ arrived[r] <= Len(stagings)

\* What a request has looked under at each of its steps.
LookInv ==
    \A r \in Requests :
        /\ pc[r] \in {"take_to", "tool?", "await", "tool", "default", "reject"}
              => LookedUnder(r, sid[r])
        /\ pc[r] \in {"tool?", "await", "tool", "default", "reject"}
              => LookedUnder(r, to[r])
        /\ pc[r] = "script" =>
              /\ LookedUnder(r, sid[r])
              /\ LookedUnder(r, to[r]) \/ stagings[served[r]].key = sid[r]

\* The inductive invariant behind the four properties: the map holds only what
\* may still be served, and a request past a key left nothing usable there.
IInv == MapInv /\ ServedInv /\ ServedOnce /\ Accounted /\ LookInv

\* What is served is, at that moment, the newest script staged under its key,
\* and has not expired (state.rs:182-202).
ServesNewest ==
    [][\A r \in Requests : served'[r] # served[r] =>
         Newest(served'[r]) /\ Fresh(served'[r])]_vars

\* What became of a script.
Life(i) == IF staged[stagings[i].key] = i THEN "open"
           ELSE IF IsServed(i) THEN "served" ELSE "gone"

\* The map and the webhook implement the life of a staged script.
ScriptLives == INSTANCE ScriptLife WITH life <- [i \in Scripts |-> Life(i)]
ImplementsLife == ScriptLives!LifeSpec

\* Every request comes to an end, even when its tool never ends: it is answered,
\* or its thread panicked on a lock that an agent's script poisoned meanwhile
\* (webhook.rs:238-296, 372-415, state.rs:188, 195).
EveryCallEnds ==
    \A r \in Requests :
        pc[r] # "record" ~> Answered(r) \/ (pc[r] = "panicked" /\ poisoned = "yes")

\* What the .expect("twilio state poisoned") of every access asserts
\* (state.rs:161-305).
NeverPoisoned == poisoned = "no"
=============================================================================
