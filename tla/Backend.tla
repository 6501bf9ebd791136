------------------------------- MODULE Backend --------------------------------
(***************************************************************************)
(* The backend entity: the profiles of TwilioBackendPlugin                 *)
(* (src/src/backend_plugin.rs), what may be registered                     *)
(* (src/src/config.rs), and the operations that run under a profile        *)
(* (src/src/tools.rs).                                                     *)
(*                                                                         *)
(* The host registers profiles while calls are in flight on threads of     *)
(* their own.  A call is made, looks its profile up under the read lock,   *)
(* and from then on holds that profile, replaced or not: each of these is  *)
(* a step.  A specification is what the code tells apart.  A REST request  *)
(* is an operation of AtLeastOnce, the contract that RestCall is shown to  *)
(* implement: it may take effect more than once, and after its failure was *)
(* reported.                                                               *)
(***************************************************************************)
EXTENDS Naturals, Sequences

CONSTANTS
    Calls,              \* of execute, list_resources, complete_template_variable
    Names,              \* of profiles
    Specs,              \* what the host may register
    Args,               \* what a call may carry
    None,               \* an absent field or argument
    Tries,              \* the occasions on which a request may take effect
    MaxRegistrations    \* bound: how many registrations are accepted

SpecFields == {"op", "form", "creds", "from", "service", "surface", "uri"}
ArgFields == {"form", "from", "service", "uri"}

\* "messages" are list_messages and get_message, "local" are build_twiml and
\* stage_call_response, "other" is any other operation.
Ops == {"send_sms", "make_call", "messages", "other", "local"}

ASSUME SpecAssumption == \A s \in Specs :
    /\ DOMAIN s = SpecFields
    /\ s.op \in Ops
    /\ s.form \in {"in_order", "malformed"}
    /\ s.surface \in {"tool", "resource", "prompt"}
ASSUME ArgAssumption == \A a \in Args :
    /\ DOMAIN a = ArgFields
    /\ a.form \in {"in_order", "malformed"}
ASSUME MaxAssumption == MaxRegistrations \in Nat

VARIABLES
    profiles,       \* per name, the registration in force, or 0
    pc,             \* per call: "idle", "called", "dispatch", "page", "rest",
                    \* "shape" or "returned"
    via,            \* "execute", "list_resources", "complete", or None
    name,           \* the profile it names
    args,           \* its arguments
    profile,        \* the registration it holds, or 0
    sender,         \* whom its message or call is from
    result,         \* its outcome
    \* What the code does not keep, to state properties with:
    registrations,  \* every registration accepted, oldest first
    since,          \* per call, how many there were when it was made
    done,           \* it ran an operation that asks Twilio for nothing
    told,           \* what its REST client was told, of AtLeastOnce
    effects         \* the occasions on which its request took effect

deeds == <<done, told, effects>>
callVars == <<pc, via, name, args, profile, sender, result, since, deeds>>
vars == <<profiles, callVars, registrations>>

Results == {"none", "Ok", "ToolError", "BackendError", "ProfileNotFound"}

\* The REST client, as far as a caller of it is concerned.
Once == INSTANCE AtLeastOnce

-----------------------------------------------------------------------------
\* Operation::needs_rest.
NeedsRest(s) == s.op # "local"

\* Slip: credentials are not required.
SlipNoCredentials(s) ==
    /\ s.form = "in_order"
    /\ s.op = "send_sms" => s.from # None \/ s.service # None

\* TwilioConfig::parse and validate.  What is checked of one field alone, and
\* the Verify service, is "form".
Valid(s) ==
    /\ s.form = "in_order"
    /\ NeedsRest(s) => s.creds # None
    /\ s.op = "send_sms" => s.from # None \/ s.service # None

Or(argument, default) == IF argument # None THEN argument ELSE default

\* The sender of an SMS: a messaging service, whosever, before a number.
SmsSender(s, a) == Or(Or(a.service, s.service), Or(a.from, s.from))

\* The number that makes a call.
CallSender(s, a) == Or(a.from, s.from)

\* A sender is named, or none is called for.
NamesSender(s, a) ==
    /\ s.op = "send_sms" => SmsSender(s, a) # None
    /\ s.op = "make_call" => CallSender(s, a) # None

\* The specification a call holds.
Held(c) == registrations[profile[c]].spec

-----------------------------------------------------------------------------
Init ==
    /\ profiles = [n \in Names |-> 0]
    /\ pc = [c \in Calls |-> "idle"]
    /\ via = [c \in Calls |-> None]
    /\ name = [c \in Calls |-> None]
    /\ args = [c \in Calls |-> None]
    /\ profile = [c \in Calls |-> 0]
    /\ sender = [c \in Calls |-> None]
    /\ result = [c \in Calls |-> "none"]
    /\ registrations = <<>>
    /\ since = [c \in Calls |-> 0]
    /\ done = [c \in Calls |-> FALSE]
    /\ Once!CallInit

\* Slip: every other profile is dropped.
SlipDropOthers(n, s) ==
    /\ Len(registrations) < MaxRegistrations
    /\ Valid(s)
    /\ registrations' = Append(registrations, [name |-> n, spec |-> s])
    /\ profiles' = [m \in Names |-> IF m = n THEN Len(registrations) + 1 ELSE 0]
    /\ UNCHANGED callVars

\* register_profile.  A specification that is refused changes nothing; one that
\* is accepted replaces the profile of its name.
RegisterProfile(n, s) ==
    /\ Len(registrations) < MaxRegistrations
    /\ Valid(s)
    /\ registrations' = Append(registrations, [name |-> n, spec |-> s])
    /\ profiles' = [profiles EXCEPT ![n] = Len(registrations) + 1]
    /\ UNCHANGED callVars

\* The host makes a call, on a thread of its own.
Call(c, how, n, a) ==
    /\ pc[c] = "idle"
    /\ pc' = [pc EXCEPT ![c] = "called"]
    /\ via' = [via EXCEPT ![c] = how]
    /\ name' = [name EXCEPT ![c] = n]
    /\ args' = [args EXCEPT ![c] = a]
    /\ since' = [since EXCEPT ![c] = Len(registrations)]
    /\ UNCHANGED <<profiles, profile, sender, result, registrations, deeds>>

\* What a call in flight leaves alone from here on.
Settled == <<profiles, registrations, via, name, args, since>>

Return(c, outcome) ==
    /\ pc' = [pc EXCEPT ![c] = "returned"]
    /\ result' = [result EXCEPT ![c] = outcome]

Missing(c) ==
    /\ pc[c] = "called"
    /\ profiles[name[c]] = 0
    /\ Return(c, "ProfileNotFound")
    /\ UNCHANGED <<Settled, profile, sender, deeds>>

\* Slip: the lookup finds the last profile registered.
SlipFoundLast(c) ==
    /\ pc[c] = "called"
    /\ profiles[name[c]] # 0
    /\ profile' = [profile EXCEPT ![c] = Len(registrations)]
    /\ pc' = [pc EXCEPT ![c] = IF via[c] = "execute" THEN "dispatch" ELSE "page"]
    /\ UNCHANGED <<Settled, sender, result, deeds>>

\* The lookup clones the profile, under the read lock.
Found(c) ==
    /\ pc[c] = "called"
    /\ profiles[name[c]] # 0
    /\ profile' = [profile EXCEPT ![c] = profiles[name[c]]]
    /\ pc' = [pc EXCEPT ![c] = IF via[c] = "execute" THEN "dispatch" ELSE "page"]
    /\ UNCHANGED <<Settled, sender, result, deeds>>

-----------------------------------------------------------------------------
\* What dispatch demands before it does anything: arguments that parse and that
\* the operation takes, a REST client, and a sender.
Acceptable(s, a) ==
    /\ a.form = "in_order"
    /\ NeedsRest(s) => s.creds # None
    /\ NamesSender(s, a)

Refuse(c) ==
    /\ pc[c] = "dispatch"
    /\ ~Acceptable(Held(c), args[c])
    /\ Return(c, "ToolError")
    /\ UNCHANGED <<Settled, profile, sender, deeds>>

\* build_twiml and stage_call_response are done at once.
RunLocal(c) ==
    /\ pc[c] = "dispatch"
    /\ Acceptable(Held(c), args[c])
    /\ ~NeedsRest(Held(c))
    /\ pc' = [pc EXCEPT ![c] = "shape"]
    /\ done' = [done EXCEPT ![c] = TRUE]
    /\ UNCHANGED <<Settled, profile, sender, result, told, effects>>

SendRequest(c) ==
    LET s == Held(c) IN
    /\ pc[c] = "dispatch"
    /\ Acceptable(s, args[c])
    /\ NeedsRest(s)
    /\ pc' = [pc EXCEPT ![c] = "rest"]
    /\ sender' = [sender EXCEPT ![c] =
           IF s.op = "send_sms" THEN SmsSender(s, args[c])
           ELSE IF s.op = "make_call" THEN CallSender(s, args[c]) ELSE None]
    /\ Once!Issue(c)
    /\ UNCHANGED <<Settled, profile, result, done>>

\* Twilio carries a request out, while it is on its way or later.
Effect(c) ==
    /\ \E t \in Tries : Once!Effect(c, t)
    /\ UNCHANGED <<Settled, pc, profile, sender, result, done>>

\* What the REST client returns: Ok, or an error, which map_rest makes a tool
\* error and ? passes on, whether or not the request was refused.
RestOk(c) ==
    /\ pc[c] = "rest" /\ via[c] = "execute"
    /\ Once!Succeed(c)
    /\ pc' = [pc EXCEPT ![c] = "shape"]
    /\ UNCHANGED <<Settled, profile, sender, result, done>>

RestError(c) ==
    /\ pc[c] = "rest" /\ via[c] = "execute"
    /\ Once!Refuse(c) \/ Once!Fail(c)
    /\ \E outcome \in {"ToolError", "BackendError"} : Return(c, outcome)
    /\ UNCHANGED <<Settled, profile, sender, done>>

\* resolve_resource_uri: the binding's URI, else the argument's.
ResolveUri(s, a) == Or(s.uri, a.uri)

\* Slip: only the binding is asked for a URI.
SlipShapeBindingUri(c) ==
    /\ pc[c] = "shape"
    /\ Return(c, IF Held(c).surface = "resource" /\ Held(c).uri = None
                 THEN "ToolError" ELSE "Ok")
    /\ UNCHANGED <<Settled, profile, sender, deeds>>

\* The result takes the shape of the binding's surface.  A resource needs a
\* URI, which is missed only now that the operation is done.
Shape(c) ==
    /\ pc[c] = "shape"
    /\ Return(c, IF /\ Held(c).surface = "resource"
                    /\ ResolveUri(Held(c), args[c]) = None
                 THEN "ToolError" ELSE "Ok")
    /\ UNCHANGED <<Settled, profile, sender, deeds>>

-----------------------------------------------------------------------------
\* list_resources and complete_template_variable ask for a page of messages;
\* it is empty without a REST client or, listing, under another operation.
HasPage(s, how) ==
    /\ NeedsRest(s) /\ s.creds # None
    /\ how = "list_resources" => s.op = "messages"

EmptyPage(c) ==
    /\ pc[c] = "page"
    /\ ~HasPage(Held(c), via[c])
    /\ Return(c, "Ok")
    /\ UNCHANGED <<Settled, profile, sender, deeds>>

FetchPage(c) ==
    /\ pc[c] = "page"
    /\ HasPage(Held(c), via[c])
    /\ pc' = [pc EXCEPT ![c] = "rest"]
    /\ UNCHANGED <<Settled, profile, sender, result, deeds>>

\* A page has no tool error: a refusal by Twilio is a fault.
PageAnswer(c) ==
    /\ pc[c] = "rest" /\ via[c] # "execute"
    /\ \E outcome \in {"Ok", "BackendError"} : Return(c, outcome)
    /\ UNCHANGED <<Settled, profile, sender, deeds>>

-----------------------------------------------------------------------------
Host ==
    \/ \E n \in Names, s \in Specs : RegisterProfile(n, s)
    \/ \E c \in Calls, how \in {"execute", "list_resources", "complete"},
          n \in Names, a \in Args : Call(c, how, n, a)

Execute(c) ==
    \/ Missing(c) \/ Found(c)
    \/ Refuse(c) \/ RunLocal(c) \/ SendRequest(c)
    \/ RestOk(c) \/ RestError(c) \/ Shape(c)
    \/ EmptyPage(c) \/ FetchPage(c) \/ PageAnswer(c)

Next == Host \/ \E c \in Calls : Execute(c) \/ Effect(c)

Spec == Init /\ [][Next]_vars

-----------------------------------------------------------------------------
Registered == DOMAIN registrations

\* The type of the state: of backend_plugin.rs's map, and of a call in flight,
\* which holds a profile from its lookup to its end.
TypeOK ==
    /\ registrations \in Seq([name : Names, spec : Specs])
    /\ profiles \in [Names -> Nat]
    /\ profile \in [Calls -> Nat]
    /\ since \in [Calls -> Nat]
    /\ done \in [Calls -> BOOLEAN]
    /\ told \in [Calls -> {"idle", "open", "done", "refused", "failed"}]
    /\ effects \in [Calls -> SUBSET Tries]
    /\ result \in [Calls -> Results]
    /\ pc \in [Calls -> {"idle", "called", "dispatch", "page", "rest", "shape",
                         "returned"}]
    /\ via \in [Calls -> {"execute", "list_resources", "complete", None}]
    /\ name \in [Calls -> Names \cup {None}]
    /\ args \in [Calls -> Args \cup {None}]
    /\ DOMAIN sender = Calls
    /\ \A c \in Calls :
           /\ pc[c] # "idle" => name[c] \in Names /\ args[c] \in Args
           /\ pc[c] \in {"dispatch", "page", "rest", "shape"} => profile[c] \in Registered

\* A call runs under a registration of the name it gave, and under none that was
\* replaced before the call was made: profile() and register_profile, the lookup
\* coming any number of registrations after the call.
NoStaleProfile == \A c \in Calls : profile[c] # 0 =>
    /\ registrations[profile[c]].name = name[c]
    /\ \A i \in Registered :
           i <= since[c] /\ registrations[i].name = name[c] => i <= profile[c]

\* ProfileNotFound says that no profile of that name had been registered when the
\* call was made: register_profile replaces and never removes.
NotFoundMeansNever == \A c \in Calls : result[c] = "ProfileNotFound" =>
    \A i \in Registered : i <= since[c] => registrations[i].name # name[c]

\* What dispatch still refuses of a profile never happens: whatever the arguments,
\* a REST operation finds its client and an SMS its sender, validate having asked
\* for both at registration.
ValidatedAtRegistration == \A c \in Calls : profile[c] # 0 =>
    /\ NeedsRest(Held(c)) => Held(c).creds # None
    /\ Held(c).op = "send_sms" => SmsSender(Held(c), args[c]) # None

Done(c) == done[c] \/ effects[c] # {}

\* What execute reports is what happened, and what may still: Ok is said only of
\* an operation that was carried out; one that was, or will be, is denied only
\* where the REST client failed in doubt, or where neither the binding nor the
\* arguments give a resource its URI (backend_plugin.rs:132-166).
ReportedTruly == \A c \in Calls : via[c] = "execute" /\ pc[c] = "returned" =>
    /\ result[c] = "Ok" => Done(c)
    /\ Done(c) /\ result[c] # "Ok" =>
           \/ told[c] = "failed"
           \/ /\ Held(c).surface = "resource"
              /\ Held(c).uri = None /\ args[c].uri = None

\* "From / MessagingServiceSid: arg overrides config default" (tools.rs:184), and to
\* agents, "overrides the binding default" (423): an SMS whose caller names a
\* number, and no service, is from that number.
ArgumentWins == \A c \in Calls :
    /\ pc[c] = "rest" /\ via[c] = "execute" /\ Held(c).op = "send_sms"
    /\ args[c].from # None /\ args[c].service = None
    => sender[c] = args[c].from

-----------------------------------------------------------------------------
\* The map holds, per name, its last registration.
MapInv ==
    /\ \A n \in Names : profiles[n] # 0 =>
           profiles[n] \in Registered /\ registrations[profiles[n]].name = n
    /\ \A i \in Registered : i <= profiles[registrations[i].name]

\* Nothing else is ever registered.
OnlyValid == \A i \in Registered : Valid(registrations[i].spec)

\* Where a call in flight stands.
CallInv == \A c \in Calls :
    /\ since[c] <= Len(registrations)
    /\ profile[c] # 0 => profile[c] \in Registered /\ args[c] \in Args
    /\ pc[c] \in {"idle", "called"} => profile[c] = 0
    /\ result[c] # "none" => pc[c] = "returned"
    /\ pc[c] \in {"dispatch", "shape"} => via[c] = "execute"
    /\ pc[c] = "page" => via[c] # "execute"
    /\ done[c] => pc[c] \in {"shape", "returned"} /\ profile[c] # 0 /\ told[c] = "idle"
    /\ pc[c] = "shape" => done[c] \/ told[c] = "done"

\* What its request has done by then.
DeedInv == \A c \in Calls :
    /\ told[c] = "open" <=> pc[c] = "rest" /\ via[c] = "execute"
    /\ told[c] # "idle" => profile[c] # 0 /\ via[c] = "execute"
    /\ told[c] = "done" => pc[c] \in {"shape", "returned"} /\ effects[c] # {}
    /\ told[c] \in {"refused", "failed"} => pc[c] = "returned" /\ result[c] # "Ok"
    /\ told[c] \in {"idle", "refused"} => effects[c] = {}

IInv == TypeOK /\ MapInv /\ OnlyValid /\ CallInv /\ DeedInv
        /\ NoStaleProfile /\ NotFoundMeansNever /\ ReportedTruly
=============================================================================
