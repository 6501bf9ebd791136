------------------------------ MODULE RestCall -------------------------------
(***************************************************************************)
(* The REST client: TwilioRest::send_with_retry and the functions that     *)
(* shape its outcome (src/src/rest.rs, map_rest in src/src/tools.rs).      *)
(*                                                                         *)
(* Every operation of the backend is one call of this loop, and every list *)
(* is one too (a single page per call).  Twilio is external: an attempt    *)
(* that was sent may be lost, or handled at any time, also after the       *)
(* client stopped waiting for it.                                          *)
(*                                                                         *)
(* A request is its call and attempt number, an answer the class of its    *)
(* status code, a body only its being readable.  Time is not a clock but   *)
(* what each call has spent on attempts and waits.                         *)
(***************************************************************************)
EXTENDS Naturals

CONSTANTS
    Calls,          \* the calls of send_with_retry
    MAX_RETRIES,    \* retries of a call
    TIMEOUT,        \* timeout_ms: how long one attempt may take
    BACKOFF,        \* the wait before a retry when Twilio names none
    RetryAfters,    \* the waits Twilio asks for
    MAX_WAIT        \* the longest of them

ASSUME RetryAssumption == MAX_RETRIES \in Nat
ASSUME TimeAssumption ==
    /\ TIMEOUT \in Nat /\ MAX_WAIT \in Nat
    /\ BACKOFF \in 0..MAX_WAIT /\ RetryAfters \subseteq 0..MAX_WAIT

VARIABLES
    pc,         \* "idle", "send", "wait" (for the answer), "sleep", "returned"
    via,        \* "op" (through map_rest) or "list"
    attempt,    \* retries so far
    result,     \* the outcome of the call, or "none"
    answer,     \* Twilio's, per attempt; "unsent" and "pending" before
    \* What the code does not keep, to state properties with:
    applied,    \* the attempts that took effect
    seen,       \* what the client made of each attempt, or "nothing"
    spent       \* the time the call has taken

vars == <<pc, via, attempt, result, answer, applied, seen, spent>>

Attempts == 0..MAX_RETRIES

\* Statuses: 2xx, 429, 5xx and the rest.
Statuses == {"success", "throttled", "failed", "rejected"}

-----------------------------------------------------------------------------
Init ==
    /\ pc = [c \in Calls |-> "idle"]
    /\ via = [c \in Calls |-> "op"]
    /\ attempt = [c \in Calls |-> 0]
    /\ result = [c \in Calls |-> "none"]
    /\ answer = [c \in Calls |-> [a \in Attempts |-> "unsent"]]
    /\ applied = [c \in Calls |-> {}]
    /\ seen = [c \in Calls |-> [a \in Attempts |-> "nothing"]]
    /\ spent = [c \in Calls |-> 0]

\* An operation whose arguments are in order makes one call, a list through
\* list and any other through map_rest; resources/list and completion list too.
Begin(c, how) ==
    /\ pc[c] = "idle"
    /\ pc' = [pc EXCEPT ![c] = "send"]
    /\ via' = [via EXCEPT ![c] = how]
    /\ UNCHANGED <<attempt, result, answer, applied, seen, spent>>

Dispatch(c) == \E how \in {"op", "list"} : Begin(c, how)

ListResources(c) == Begin(c, "list")

Send(c) ==
    /\ pc[c] = "send"
    /\ pc' = [pc EXCEPT ![c] = "wait"]
    /\ answer' = [answer EXCEPT ![c][attempt[c]] = "pending"]
    /\ UNCHANGED <<via, attempt, result, applied, seen, spent>>

\* Twilio handles a request it got.  A 5xx may come before the effect or after.
Twilio(c, a, status) ==
    /\ answer[c][a] = "pending"
    /\ answer' = [answer EXCEPT ![c][a] = status]
    /\ \/ status # "success" /\ UNCHANGED applied
       \/ /\ status \in {"success", "failed"}
          /\ applied' = [applied EXCEPT ![c] = @ \union {a}]
    /\ UNCHANGED <<pc, via, attempt, result, seen, spent>>

-----------------------------------------------------------------------------
\* The loop ends with an outcome, or goes round again after a wait.
Return(c, outcome, what, d) ==
    /\ pc' = [pc EXCEPT ![c] = "returned"]
    /\ result' = [result EXCEPT ![c] = outcome]
    /\ seen' = [seen EXCEPT ![c][attempt[c]] = what]
    /\ spent' = [spent EXCEPT ![c] = @ + d]
    /\ UNCHANGED <<via, attempt, answer, applied>>

\* Slip: one retry too many.
SlipRetryOnceMore(c, what, d) ==
    /\ attempt[c] <= MAX_RETRIES
    /\ attempt' = [attempt EXCEPT ![c] = @ + 1]
    /\ pc' = [pc EXCEPT ![c] = "sleep"]
    /\ seen' = [seen EXCEPT ![c][attempt[c]] = what]
    /\ spent' = [spent EXCEPT ![c] = @ + d]
    /\ UNCHANGED <<via, result, answer, applied>>

Retry(c, what, d) ==
    /\ attempt[c] < MAX_RETRIES
    /\ attempt' = [attempt EXCEPT ![c] = @ + 1]
    /\ pc' = [pc EXCEPT ![c] = "sleep"]
    /\ seen' = [seen EXCEPT ![c][attempt[c]] = what]
    /\ spent' = [spent EXCEPT ![c] = @ + d]
    /\ UNCHANGED <<via, result, answer, applied>>

\* The sleep of a retry is counted when the retry is decided.
Wake(c) ==
    /\ pc[c] = "sleep"
    /\ pc' = [pc EXCEPT ![c] = "send"]
    /\ UNCHANGED <<via, attempt, result, answer, applied, seen, spent>>

Answer(c) == answer[c][attempt[c]]

\* RestOutcome::ToolError: an error result of an operation, while list and
\* list_cursor turn it into a transport error.
Logical(c) == IF via[c] = "list" THEN "Transport" ELSE "ToolError"

\* Slips: a 5xx taken for a success; a success whose body is lost retried.
SlipAnyButClientError(c, d) ==
    /\ pc[c] = "wait"
    /\ Answer(c) \in {"success", "failed"}
    /\ Return(c, "Ok", Answer(c), d)

SlipRetryUnreadable(c, d) ==
    /\ pc[c] = "wait"
    /\ Answer(c) = "success"
    /\ Retry(c, "unreadable", d)

Succeeds(c, d) ==
    /\ pc[c] = "wait"
    /\ Answer(c) = "success"
    /\ Return(c, "Ok", "success", d)

\* A body that is cut off (the timeout included) or is not JSON is not retried.
Unreadable(c, d) ==
    /\ pc[c] = "wait"
    /\ Answer(c) = "success"
    /\ Return(c, "Transport", "unreadable", d)

BacksOff(c, d) ==
    /\ pc[c] = "wait"
    /\ Answer(c) \in {"throttled", "failed"}
    /\ \E w \in RetryAfters \union {BACKOFF} : Retry(c, Answer(c), d + w)

\* classify_error: a 4xx, or a 429 or 5xx that is left after the last retry.
Classified(c, d) ==
    /\ pc[c] = "wait"
    /\ \/ Answer(c) = "rejected"
       \/ Answer(c) \in {"throttled", "failed"} /\ attempt[c] = MAX_RETRIES
    /\ Return(c, Logical(c), Answer(c), d)

\* Slips: a timed out attempt retried; no timeout on the client.
SlipRetryTimeout(c) ==
    /\ pc[c] = "wait"
    /\ Retry(c, "timeout", TIMEOUT)

SlipNoTimeout(c) ==
    /\ pc[c] = "wait"
    /\ Answer(c) # "pending"
    /\ Return(c, "Timeout", "timeout", TIMEOUT)

\* No answer by the timeout; the request may be handled yet.
TimesOut(c) ==
    /\ pc[c] = "wait"
    /\ Return(c, "Timeout", "timeout", TIMEOUT)

\* The connection fails, before or after the request reached Twilio.
Breaks(c, d) ==
    /\ pc[c] = "wait"
    /\ \/ Retry(c, "broken", d + BACKOFF)
       \/ attempt[c] = MAX_RETRIES /\ Return(c, "Transport", "broken", d)

\* reqwest cannot build the request: nothing is sent.
Unbuildable(c) ==
    /\ pc[c] = "send"
    /\ attempt[c] = 0
    /\ Return(c, "Transport", "nothing", 0)

\* An argument is missing or malformed, or the binding has no REST client: the
\* operation is a tool error and nothing is sent.
InvalidArguments(c) ==
    /\ pc[c] = "idle"
    /\ Return(c, "ToolError", "nothing", 0)

-----------------------------------------------------------------------------
Invoke(c) == Dispatch(c) \/ ListResources(c) \/ InvalidArguments(c)

SendWithRetry(c) ==
    \/ Send(c)
    \/ Unbuildable(c)
    \/ \E d \in 0..TIMEOUT :
          Succeeds(c, d) \/ Unreadable(c, d) \/ BacksOff(c, d)
              \/ Classified(c, d) \/ Breaks(c, d)
    \/ TimesOut(c)
    \/ Wake(c)

Handled(c) == \E a \in Attempts, status \in Statuses : Twilio(c, a, status)

Next ==
    \E c \in Calls :
        \/ Invoke(c)
        \/ SendWithRetry(c)
        \/ Handled(c)

Spec == Init /\ [][Next]_vars

\* The runtime polls the call, and its timers expire; Twilio owes nothing, not
\* even a broken connection.
Fairness == \A c \in Calls : WF_vars(Send(c) \/ Wake(c) \/ TimesOut(c))
FairSpec == Spec /\ Fairness

-----------------------------------------------------------------------------
Returned(c) == pc[c] = "returned"

Last(c) == seen[c][attempt[c]]

Faults == {"failed", "broken"}

\* The type of the state.
TypeOK ==
    /\ pc \in [Calls -> {"idle", "send", "wait", "sleep", "returned"}]
    /\ via \in [Calls -> {"op", "list"}]
    /\ attempt \in [Calls -> Attempts]
    /\ result \in [Calls -> {"none", "Ok", "ToolError", "Transport", "Timeout"}]
    /\ answer \in [Calls -> [Attempts -> Statuses \union {"unsent", "pending"}]]
    /\ applied \in [Calls -> SUBSET Attempts]
    /\ seen \in [Calls -> [Attempts -> Statuses \union
                   {"nothing", "broken", "timeout", "unreadable"}]]
    /\ spent \in [Calls -> Nat]

\* A retry follows a 429, a 5xx or a broken connection only: never a success,
\* a rejection, a lost body or a timeout (rest.rs:14-16, 255-288).
RetryJustified ==
    \A c \in Calls : \A a \in Attempts : a < attempt[c] =>
        seen[c][a] \in Faults \union {"throttled"}

\* A call that returns Ok took effect, on the very attempt it returned after
\* (rest.rs:246-260).
OkMeansDone ==
    \A c \in Calls : result[c] = "Ok" => attempt[c] \in applied[c]

\* An operation takes effect again only when the client saw the earlier attempt
\* fail with a 5xx or a broken connection: being throttled duplicates nothing
\* (rest.rs:14-16).
DuplicateOnlyAfterFault ==
    \A c \in Calls : \A a \in applied[c] :
        a < attempt[c] => seen[c][a] \in Faults

\* However Twilio behaves, a call is over after 1 + MAX_RETRIES attempts and
\* the waits between them (rest.rs:60-61, 235-292).
ResponseBound ==
    \A c \in Calls :
        spent[c] <= (1 + MAX_RETRIES) * TIMEOUT + MAX_RETRIES * MAX_WAIT

\* An answer Twilio gave and the client's view of it, attempt by attempt: what
\* the client reports of an attempt is what Twilio did.
ViewInv ==
    \A c \in Calls : \A a \in Attempts :
        /\ a > attempt[c] => answer[c][a] = "unsent"
        /\ a >= attempt[c] /\ ~Returned(c) => seen[c][a] = "nothing"
        /\ a = attempt[c] /\ pc[c] \in {"idle", "send", "sleep"}
              => answer[c][a] = "unsent"
        /\ seen[c][a] \in Statuses => answer[c][a] = seen[c][a]
        /\ answer[c][a] = "success" => a \in applied[c]
        /\ a \in applied[c] => answer[c][a] \in {"success", "failed"}
        /\ answer[c][a] = "success" => seen[c][a] # "throttled"

\* What a call has spent at its current attempt.
SpentInv ==
    \A c \in Calls :
        spent[c] <= attempt[c] * (TIMEOUT + MAX_WAIT)
                        + (IF Returned(c) THEN TIMEOUT ELSE 0)

\* How a call ended agrees with its last attempt.
ResultInv ==
    \A c \in Calls :
        /\ result[c] # "none" <=> Returned(c)
        /\ result[c] = "Ok" => Last(c) = "success"
        /\ result[c] = "ToolError" /\ Last(c) = "nothing" =>
              answer[c][attempt[c]] = "unsent"
        /\ pc[c] = "idle" => attempt[c] = 0

\* The inductive invariant behind the properties above.
IInv == ViewInv /\ SpentInv /\ ResultInv /\ RetryJustified

\* What the caller may conclude: refused when nothing was sent or the first
\* answer was a rejection.
Told(c) ==
    IF pc[c] = "idle" THEN "idle"
    ELSE IF ~Returned(c) THEN "open"
    ELSE IF result[c] = "Ok" THEN "done"
    ELSE IF seen[c][0] = "rejected" THEN "refused"
    ELSE IF seen[c][0] = "nothing" /\ result[c] = "ToolError" THEN "refused"
    ELSE "failed"

\* The client implements an at-least-once operation.
Once == INSTANCE AtLeastOnce WITH Tries <- Attempts, effects <- applied,
                                  told <- [c \in Calls |-> Told(c)]
ImplementsAtLeastOnce == Once!CallSpec

\* Every call returns, though Twilio may never answer (rest.rs:61).
CallReturns == \A c \in Calls : pc[c] = "send" ~> Returned(c)

\* README.md:98-99: "Real failures (connection / 5xx / timeout) surface as
\* BackendError".
ServerErrorIsBackendError ==
    \A c \in Calls : Returned(c) /\ Last(c) = "failed" =>
        result[c] \in {"Transport", "Timeout"}
=============================================================================
