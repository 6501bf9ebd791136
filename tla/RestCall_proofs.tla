--------------------------- MODULE RestCall_proofs ---------------------------
(***************************************************************************)
(* Proofs about RestCall, for any calls, retry budget, timeout and waits.  *)
(***************************************************************************)
EXTENDS RestCall, TLAPS

Outcomes == {"Ok", "ToolError", "Transport", "Timeout"}
Views == Statuses \union {"nothing", "broken", "timeout", "unreadable"}

\* What is known of an attempt that ends the call, and of one that is retried.
Ends(c, o, w, d) ==
    /\ o \in Outcomes /\ w \in Views /\ d \in 0..TIMEOUT
    /\ w \in Statuses => answer[c][attempt[c]] = w
    /\ o = "Ok" => w = "success"
    /\ \/ pc[c] = "wait" /\ w # "nothing"
       \/ pc[c] = "send" /\ w = "nothing" /\ o = "Transport"
       \/ pc[c] = "idle" /\ w = "nothing" /\ o = "ToolError"
    /\ Return(c, o, w, d)

Again(c, w, d) ==
    /\ w \in {"throttled", "failed", "broken"} /\ d \in 0..(TIMEOUT + MAX_WAIT)
    /\ w \in Statuses => answer[c][attempt[c]] = w
    /\ pc[c] = "wait"
    /\ Retry(c, w, d)

\* The steps that neither end a call nor retry it.
Plain(c) ==
    \/ \E how \in {"op", "list"} : Begin(c, how)
    \/ Send(c)
    \/ Wake(c)

\* Every step is one of five.
LEMMA StepCases ==
    ASSUME TypeOK, [Next]_vars
    PROVE  \/ \E c \in Calls : Plain(c)
           \/ \E c \in Calls, a \in Attempts, s \in Statuses : Twilio(c, a, s)
           \/ \E c \in Calls, o \in Outcomes, w \in Views, d \in 0..TIMEOUT :
                 Ends(c, o, w, d)
           \/ \E c \in Calls, w \in {"throttled", "failed", "broken"},
                 d \in 0..(TIMEOUT + MAX_WAIT) : Again(c, w, d)
           \/ UNCHANGED vars
<1> DEFINE End(c) == \E o \in Outcomes, w \in Views, d \in 0..TIMEOUT : Ends(c, o, w, d)
           More(c) == \E w \in {"throttled", "failed", "broken"},
                         d \in 0..(TIMEOUT + MAX_WAIT) : Again(c, w, d)
<1>1. ASSUME NEW c \in Calls, SendWithRetry(c)
      PROVE  Plain(c) \/ End(c) \/ More(c)
  <2>1. ASSUME NEW d \in 0..TIMEOUT, Succeeds(c, d) PROVE End(c)
    <3>1. Ends(c, "Ok", "success", d)
      BY <2>1 DEF Succeeds, Answer, Ends, Outcomes, Views, Statuses
    <3> QED BY <3>1 DEF Outcomes, Views, Statuses
  <2>2. ASSUME NEW d \in 0..TIMEOUT, Unreadable(c, d) PROVE End(c)
    <3>1. Ends(c, "Transport", "unreadable", d)
      BY <2>2 DEF Unreadable, Answer, Ends, Outcomes, Views, Statuses
    <3> QED BY <3>1 DEF Outcomes, Views, Statuses
  <2>3. ASSUME NEW d \in 0..TIMEOUT, BacksOff(c, d) PROVE More(c)
    <3>1. PICK w \in RetryAfters \union {BACKOFF} : Retry(c, Answer(c), d + w)
      BY <2>3 DEF BacksOff
    <3>2. d + w \in 0..(TIMEOUT + MAX_WAIT)
      BY TimeAssumption
    <3>3. Again(c, Answer(c), d + w)
      BY <2>3, <3>1, <3>2 DEF BacksOff, Answer, Again, Statuses
    <3> QED BY <2>3, <3>2, <3>3 DEF BacksOff
  <2>4. ASSUME NEW d \in 0..TIMEOUT, Classified(c, d) PROVE End(c)
    <3>1. Ends(c, Logical(c), Answer(c), d)
      BY <2>4 DEF Classified, Logical, Answer, Ends, Outcomes, Views, Statuses
    <3> QED BY <3>1 DEF Ends
  <2>5. ASSUME NEW d \in 0..TIMEOUT, Breaks(c, d) PROVE End(c) \/ More(c)
    <3>1. CASE Retry(c, "broken", d + BACKOFF)
      <4>1. d + BACKOFF \in 0..(TIMEOUT + MAX_WAIT)
        BY TimeAssumption
      <4>2. Again(c, "broken", d + BACKOFF)
        BY <2>5, <3>1, <4>1 DEF Breaks, Again, Statuses
      <4> QED BY <4>1, <4>2
    <3>2. CASE Return(c, "Transport", "broken", d)
      <4>1. Ends(c, "Transport", "broken", d)
        BY <2>5, <3>2 DEF Breaks, Ends, Outcomes, Views, Statuses
      <4> QED BY <4>1 DEF Outcomes, Views
    <3> QED BY <2>5, <3>1, <3>2 DEF Breaks
  <2>6. ASSUME TimesOut(c) PROVE End(c)
    <3>1. TIMEOUT \in 0..TIMEOUT
      BY TimeAssumption
    <3>2. Ends(c, "Timeout", "timeout", TIMEOUT)
      BY <2>6, <3>1 DEF TimesOut, Ends, Outcomes, Views, Statuses
    <3> QED BY <3>1, <3>2 DEF Outcomes, Views
  <2>7. ASSUME Unbuildable(c) PROVE End(c)
    <3>1. 0 \in 0..TIMEOUT
      BY TimeAssumption
    <3>2. Ends(c, "Transport", "nothing", 0)
      BY <2>7, <3>1 DEF Unbuildable, Ends, Outcomes, Views, Statuses
    <3> QED BY <3>1, <3>2 DEF Outcomes, Views
  <2> HIDE DEF End, More
  <2> QED BY <1>1, <2>1, <2>2, <2>3, <2>4, <2>5, <2>6, <2>7 DEF SendWithRetry, Plain
<1>2. ASSUME NEW c \in Calls, InvalidArguments(c) PROVE End(c)
  <2>1. 0 \in 0..TIMEOUT
    BY TimeAssumption
  <2>2. Ends(c, "ToolError", "nothing", 0)
    BY <1>2, <2>1 DEF InvalidArguments, Ends, Outcomes, Views, Statuses
  <2> QED BY <2>1, <2>2 DEF Outcomes, Views
<1>3. ASSUME NEW c \in Calls, Dispatch(c) \/ ListResources(c) PROVE Plain(c)
  BY <1>3 DEF Dispatch, ListResources, Plain
<1> QED BY <1>1, <1>2, <1>3 DEF Next, Invoke, Handled

\* An answer recorded for one attempt of one call.
LEMMA Recorded ==
    ASSUME NEW S, NEW f \in [Calls -> [Attempts -> S]], NEW x \in S,
           NEW c \in Calls, NEW a \in Attempts
    PROVE  LET g == [f EXCEPT ![c][a] = x] IN
           /\ g \in [Calls -> [Attempts -> S]]
           /\ \A q \in Calls, b \in Attempts :
                 g[q][b] = IF q = c /\ b = a THEN x ELSE f[q][b]
<1> DEFINE g == [f EXCEPT ![c][a] = x]
           h == [f[c] EXCEPT ![a] = x]
<1>1. h \in [Attempts -> S] /\ \A b \in Attempts : h[b] = IF b = a THEN x ELSE f[c][b]
  OBVIOUS
<1>2. g = [f EXCEPT ![c] = h]
  OBVIOUS
<1> HIDE DEF h
<1>3. [f EXCEPT ![c] = h] \in [Calls -> [Attempts -> S]]
  BY <1>1
<1>4. \A q \in Calls : [f EXCEPT ![c] = h][q] = IF q = c THEN h ELSE f[q]
  OBVIOUS
<1> HIDE DEF g
<1>5. g \in [Calls -> [Attempts -> S]]
  BY <1>2, <1>3
<1>6. \A q \in Calls, b \in Attempts :
         g[q][b] = IF q = c /\ b = a THEN x ELSE f[q][b]
  BY <1>1, <1>2, <1>4
<1> QED BY <1>5, <1>6 DEF g

\* Sending and handling touch the answer of one attempt only.
LEMMA AnswerStep ==
    ASSUME TypeOK, NEW c \in Calls, NEW a \in Attempts,
           NEW s \in Statuses \union {"pending"},
           answer' = [answer EXCEPT ![c][a] = s]
    PROVE  /\ answer' \in [Calls -> [Attempts -> Statuses \union {"unsent", "pending"}]]
           /\ \A q \in Calls, b \in Attempts :
                 answer'[q][b] = IF q = c /\ b = a THEN s ELSE answer[q][b]
BY Recorded DEF TypeOK

\* The type invariant of the REST client.
THEOREM TypeCorrect == Spec => []TypeOK
<1>1. Init => TypeOK
  BY RetryAssumption DEF Init, TypeOK, Attempts
<1>2. TypeOK /\ [Next]_vars => TypeOK'
  <2> SUFFICES ASSUME TypeOK, [Next]_vars PROVE TypeOK'
    OBVIOUS
  <2> USE DEF TypeOK
  <2>1. ASSUME NEW c \in Calls, Plain(c) PROVE TypeOK'
    <3>1. CASE Send(c)
      <4>1. answer' \in [Calls -> [Attempts -> Statuses \union {"unsent", "pending"}]]
        BY <3>1, AnswerStep DEF Send
      <4> QED BY <3>1, <4>1 DEF Send
    <3>2. CASE Wake(c)
      BY <3>2 DEF Wake
    <3>3. ASSUME NEW how \in {"op", "list"}, Begin(c, how) PROVE TypeOK'
      BY <3>3 DEF Begin
    <3> QED BY <2>1, <3>1, <3>2, <3>3 DEF Plain
  <2>2. ASSUME NEW c \in Calls, NEW a \in Attempts, NEW s \in Statuses, Twilio(c, a, s)
        PROVE  TypeOK'
    <3>1. answer' \in [Calls -> [Attempts -> Statuses \union {"unsent", "pending"}]]
      BY <2>2, AnswerStep DEF Twilio
    <3>2. applied' \in [Calls -> SUBSET Attempts]
      BY <2>2 DEF Twilio
    <3> QED BY <2>2, <3>1, <3>2 DEF Twilio
  <2>3. ASSUME NEW c \in Calls, NEW o \in Outcomes, NEW w \in Views,
               NEW d \in 0..TIMEOUT, Ends(c, o, w, d)
        PROVE  TypeOK'
    <3>1. spent[c] + d \in Nat
      BY TimeAssumption
    <3> QED BY <2>3, <3>1 DEF Ends, Return, Outcomes, Views
  <2>4. ASSUME NEW c \in Calls, NEW w \in {"throttled", "failed", "broken"},
               NEW d \in 0..(TIMEOUT + MAX_WAIT), Again(c, w, d)
        PROVE  TypeOK'
    <3>1. spent[c] + d \in Nat
      BY TimeAssumption
    <3>2. attempt[c] + 1 \in Attempts
      BY <2>4, RetryAssumption DEF Again, Retry, Attempts
    <3> QED BY <2>4, <3>1, <3>2 DEF Again, Retry, Statuses
  <2>5. CASE UNCHANGED vars
    BY <2>5 DEF vars
  <2> QED BY StepCases, <2>1, <2>2, <2>3, <2>4, <2>5
<1> QED BY <1>1, <1>2, PTL DEF Spec

-----------------------------------------------------------------------------
\* The client's view of every attempt stays what Twilio did.
LEMMA ViewPreserved ==
    ASSUME TypeOK, ViewInv, [Next]_vars
    PROVE  ViewInv'
<1> USE DEF ViewInv
<1>1. ASSUME NEW c \in Calls, Plain(c) PROVE ViewInv'
  <2>1. CASE Send(c)
    <3>1. \A q \in Calls, b \in Attempts :
             answer'[q][b] = IF q = c /\ b = attempt[c] THEN "pending" ELSE answer[q][b]
      BY <2>1, AnswerStep DEF Send, TypeOK
    <3> QED BY <2>1, <3>1, RetryAssumption
            DEF Send, TypeOK, Returned, Statuses, Attempts
  <2> QED BY <1>1, <2>1 DEF Plain, Begin, Wake, TypeOK, Returned, Statuses, Attempts
<1>2. ASSUME NEW c \in Calls, NEW a \in Attempts, NEW s \in Statuses, Twilio(c, a, s)
      PROVE  ViewInv'
  <2>1. \A q \in Calls, b \in Attempts :
           answer'[q][b] = IF q = c /\ b = a THEN s ELSE answer[q][b]
    <3>1. answer' = [answer EXCEPT ![c][a] = s] /\ s \in Statuses \union {"pending"}
      BY <1>2 DEF Twilio
    <3> HIDE DEF ViewInv
    <3> QED BY <3>1, AnswerStep, Zenon
  <2>2. \A q \in Calls, b \in Attempts :
           /\ b \in applied[q] => b \in applied'[q]
           /\ b \in applied'[q] /\ b \notin applied[q]
                 => q = c /\ b = a /\ s \in {"success", "failed"}
    BY <1>2 DEF Twilio, TypeOK
  <2>3. s = "success" => a \in applied'[c]
    BY <1>2 DEF Twilio, TypeOK
  <2> QED BY <1>2, <2>1, <2>2, <2>3, RetryAssumption
          DEF Twilio, TypeOK, Returned, Statuses, Attempts
<1>3. ASSUME NEW c \in Calls, NEW o \in Outcomes, NEW w \in Views,
             NEW d \in 0..TIMEOUT, Ends(c, o, w, d)
      PROVE  ViewInv'
  BY <1>3 DEF Ends, Return, TypeOK, Returned, Statuses, Attempts, Views
<1>4. ASSUME NEW c \in Calls, NEW w \in {"throttled", "failed", "broken"},
             NEW d \in 0..(TIMEOUT + MAX_WAIT), Again(c, w, d)
      PROVE  ViewInv'
  BY <1>4, RetryAssumption DEF Again, Retry, TypeOK, Returned, Statuses, Attempts
<1>5. CASE UNCHANGED vars
  BY <1>5 DEF vars, Returned
<1> QED BY StepCases, <1>1, <1>2, <1>3, <1>4, <1>5

\* A retry costs at most one timeout and one wait.
LEMMA SpentPreserved ==
    ASSUME TypeOK, ResultInv, SpentInv, [Next]_vars
    PROVE  SpentInv'
<1> USE DEF SpentInv
<1>1. ASSUME NEW c \in Calls, Plain(c) PROVE SpentInv'
  BY <1>1 DEF Plain, Begin, Send, Wake, TypeOK, Returned
<1>2. ASSUME NEW c \in Calls, NEW a \in Attempts, NEW s \in Statuses, Twilio(c, a, s)
      PROVE  SpentInv'
  BY <1>2 DEF Twilio, TypeOK, Returned
<1>3. ASSUME NEW c \in Calls, NEW o \in Outcomes, NEW w \in Views,
             NEW d \in 0..TIMEOUT, Ends(c, o, w, d)
      PROVE  SpentInv'
  <2>1. ~Returned(c) /\ d <= TIMEOUT /\ d \in Nat
    BY <1>3, TimeAssumption DEF Ends, Returned
  <2>2. /\ spent' = [spent EXCEPT ![c] = @ + d]
        /\ attempt' = attempt
        /\ pc' = [pc EXCEPT ![c] = "returned"]
    BY <1>3 DEF Ends, Return
  <2> QED BY <2>1, <2>2, TimeAssumption, RetryAssumption DEF TypeOK, Returned, Attempts
<1>4. ASSUME NEW c \in Calls, NEW w \in {"throttled", "failed", "broken"},
             NEW d \in 0..(TIMEOUT + MAX_WAIT), Again(c, w, d)
      PROVE  SpentInv'
  <2> DEFINE K == TIMEOUT + MAX_WAIT
  <2>1. ~Returned(c) /\ d <= K /\ d \in Nat /\ K \in Nat
    BY <1>4, TimeAssumption DEF Again, Returned
  <2>2. /\ spent' = [spent EXCEPT ![c] = @ + d]
        /\ attempt' = [attempt EXCEPT ![c] = @ + 1]
        /\ pc' = [pc EXCEPT ![c] = "sleep"]
    BY <1>4 DEF Again, Retry
  <2>3. /\ attempt \in [Calls -> Nat] /\ spent \in [Calls -> Nat]
        /\ pc \in [Calls -> {"idle", "send", "wait", "sleep", "returned"}]
    BY RetryAssumption DEF TypeOK, Attempts
  <2>4. (attempt[c] + 1) * K = attempt[c] * K + K
    BY <2>1, <2>3
  <2>5. spent[c] <= attempt[c] * K
    BY <2>1, <2>3, TimeAssumption DEF Returned
  <2>6. spent'[c] <= attempt'[c] * K
    <3>1. attempt[c] * K \in Nat
      BY <2>1, <2>3
    <3>2. spent'[c] = spent[c] + d /\ attempt'[c] = attempt[c] + 1
      BY <2>2, <2>3
    <3> HIDE DEF K
    <3> QED BY <2>1, <2>3, <2>4, <2>5, <3>1, <3>2
  <2>7. ASSUME NEW q \in Calls, q # c
        PROVE  spent'[q] = spent[q] /\ attempt'[q] = attempt[q] /\ pc'[q] = pc[q]
    BY <2>2, <2>3, <2>7
  <2>8. pc'[c] = "sleep" /\ attempt'[c] * K \in Nat /\ spent'[c] \in Nat
    BY <2>1, <2>2, <2>3
  <2> SUFFICES ASSUME NEW q \in Calls
               PROVE  spent'[q] <= attempt'[q] * K
                          + (IF pc'[q] = "returned" THEN TIMEOUT ELSE 0)
    BY DEF Returned
  <2>9. CASE q = c
    BY <2>6, <2>8, <2>9
  <2>10. CASE q # c
    BY <2>7, <2>10 DEF Returned
  <2> QED BY <2>9, <2>10
<1>5. CASE UNCHANGED vars
  BY <1>5 DEF vars, Returned
<1> QED BY StepCases, <1>1, <1>2, <1>3, <1>4, <1>5

\* The outcome agrees with the last attempt, and a retry had a reason.
LEMMA ResultPreserved ==
    ASSUME TypeOK, ViewInv, ResultInv, RetryJustified, [Next]_vars
    PROVE  ResultInv' /\ RetryJustified'
<1> USE DEF ResultInv, RetryJustified, Faults
<1>1. ASSUME NEW c \in Calls, Plain(c) PROVE ResultInv' /\ RetryJustified'
  BY <1>1 DEF Plain, Begin, Send, Wake, TypeOK, Returned, Last
<1>2. ASSUME NEW c \in Calls, NEW a \in Attempts, NEW s \in Statuses, Twilio(c, a, s)
      PROVE  ResultInv' /\ RetryJustified'
  BY <1>2 DEF Twilio, TypeOK, Returned, Last
<1>3. ASSUME NEW c \in Calls, NEW o \in Outcomes, NEW w \in Views,
             NEW d \in 0..TIMEOUT, Ends(c, o, w, d)
      PROVE  ResultInv' /\ RetryJustified'
  <2>1. /\ pc' = [pc EXCEPT ![c] = "returned"] /\ result' = [result EXCEPT ![c] = o]
        /\ seen' = [seen EXCEPT ![c][attempt[c]] = w]
        /\ UNCHANGED <<attempt, answer>>
    BY <1>3 DEF Ends, Return
  <2>2. /\ attempt[c] \in Attempts /\ o # "none"
        /\ \A q \in Calls, b \in Attempts :
              seen'[q][b] = IF q = c /\ b = attempt[c] THEN w ELSE seen[q][b]
    BY <1>3, <2>1 DEF TypeOK, Outcomes
  <2>3. o = "Ok" => w = "success"
    BY <1>3 DEF Ends
  <2>4. o = "ToolError" /\ w = "nothing" => answer[c][attempt[c]] = "unsent"
    BY <1>3, <2>2 DEF Ends, ViewInv
  <2>5. \A b \in Attempts : b < attempt[c] => b # attempt[c]
    BY RetryAssumption DEF Attempts
  <2>6. ResultInv'
    BY <2>1, <2>2, <2>3, <2>4 DEF TypeOK, Returned, Last
  <2>7. RetryJustified'
    BY <2>1, <2>2, <2>5 DEF TypeOK
  <2> QED BY <2>6, <2>7
<1>4. ASSUME NEW c \in Calls, NEW w \in {"throttled", "failed", "broken"},
             NEW d \in 0..(TIMEOUT + MAX_WAIT), Again(c, w, d)
      PROVE  ResultInv' /\ RetryJustified'
  BY <1>4, RetryAssumption DEF Again, Retry, TypeOK, Returned, Last, Attempts
<1>5. CASE UNCHANGED vars
  BY <1>5 DEF vars, Returned, Last
<1> QED BY StepCases, <1>1, <1>2, <1>3, <1>4, <1>5

\* The inductive invariant of the REST client.
THEOREM Invariance == Spec => [](TypeOK /\ IInv)
<1>1. Init => IInv
  <2> SUFFICES ASSUME Init PROVE IInv
    OBVIOUS
  <2>1. ViewInv
    BY RetryAssumption DEF Init, ViewInv, Attempts, Statuses, Returned
  <2>2. SpentInv
    <3>1. 0 * (TIMEOUT + MAX_WAIT) = 0 /\ 0 <= 0 + 0
      BY TimeAssumption
    <3>2. \A c \in Calls : spent[c] = 0 /\ attempt[c] = 0 /\ ~Returned(c)
      BY DEF Init, Returned
    <3> QED BY <3>1, <3>2 DEF SpentInv
  <2>3. ResultInv /\ RetryJustified
    BY RetryAssumption DEF Init, ResultInv, RetryJustified, Returned, Attempts
  <2> QED BY <2>1, <2>2, <2>3 DEF IInv
<1>2. TypeOK /\ IInv /\ [Next]_vars => IInv'
  BY ViewPreserved, SpentPreserved, ResultPreserved DEF IInv
<1> QED BY <1>1, <1>2, TypeCorrect, PTL DEF Spec

\* A retry always had a reason that permits one.
THEOREM OnlyJustifiedRetries == Spec => []RetryJustified
<1>1. IInv => RetryJustified
  BY DEF IInv
<1> QED BY <1>1, Invariance, PTL

\* Ok means that the last attempt took effect.
THEOREM OkIsDone == Spec => []OkMeansDone
<1>1. TypeOK /\ IInv => OkMeansDone
  BY DEF TypeOK, IInv, ViewInv, ResultInv, OkMeansDone, Last, Returned, Statuses
<1> QED BY <1>1, Invariance, PTL

\* Nothing is done twice unless an earlier attempt was seen to fail.
THEOREM DuplicatesExplained == Spec => []DuplicateOnlyAfterFault
<1>1. TypeOK /\ IInv => DuplicateOnlyAfterFault
  <2> SUFFICES ASSUME TypeOK, IInv, NEW c \in Calls, NEW a \in applied[c],
                      a < attempt[c]
               PROVE  seen[c][a] \in Faults
    BY DEF DuplicateOnlyAfterFault
  <2>1. a \in Attempts
    BY DEF TypeOK
  <2>2. answer[c][a] \in {"success", "failed"}
    BY <2>1 DEF IInv, ViewInv
  <2>3. seen[c][a] \in Faults \union {"throttled"}
    BY <2>1 DEF IInv, RetryJustified
  <2>4. seen[c][a] # "throttled"
    BY <2>1, <2>2 DEF IInv, ViewInv, Statuses
  <2> QED BY <2>3, <2>4
<1> QED BY <1>1, Invariance, PTL

\* The time a call takes is bounded by its budget of attempts and waits.
THEOREM Bounded == Spec => []ResponseBound
<1>1. ASSUME NEW n \in Attempts, NEW k \in Nat
      PROVE  n * k \in Nat /\ n * k <= MAX_RETRIES * k
  BY RetryAssumption DEF Attempts
<1>2. TypeOK /\ IInv => ResponseBound
  <2> SUFFICES ASSUME TypeOK, IInv, NEW c \in Calls
               PROVE  spent[c] <= (1 + MAX_RETRIES) * TIMEOUT + MAX_RETRIES * MAX_WAIT
    BY DEF ResponseBound
  <2> DEFINE n == attempt[c]
  <2>1. n \in Attempts /\ n \in Nat /\ spent[c] \in Nat
    BY RetryAssumption DEF TypeOK, Attempts
  <2>2. spent[c] <= n * (TIMEOUT + MAX_WAIT) + TIMEOUT
    <3>1. n * (TIMEOUT + MAX_WAIT) \in Nat
      BY <2>1, <1>1, TimeAssumption
    <3> QED BY <2>1, <3>1, TimeAssumption DEF IInv, SpentInv
  <2>3. n * (TIMEOUT + MAX_WAIT) = n * TIMEOUT + n * MAX_WAIT
    BY <2>1, TimeAssumption
  <2>4. (1 + MAX_RETRIES) * TIMEOUT = TIMEOUT + MAX_RETRIES * TIMEOUT
    BY RetryAssumption, TimeAssumption
  <2>5. /\ n * TIMEOUT \in Nat /\ n * TIMEOUT <= MAX_RETRIES * TIMEOUT
        /\ n * MAX_WAIT \in Nat /\ n * MAX_WAIT <= MAX_RETRIES * MAX_WAIT
    BY <1>1, <2>1, TimeAssumption
  <2>6. MAX_RETRIES * TIMEOUT \in Nat /\ MAX_RETRIES * MAX_WAIT \in Nat
    BY RetryAssumption, TimeAssumption
  <2> HIDE DEF n
  <2> QED BY <2>1, <2>2, <2>3, <2>4, <2>5, <2>6, TimeAssumption
<1> QED BY <1>2, Invariance, PTL

-----------------------------------------------------------------------------
\* The client implements an at-least-once operation.
THEOREM Refinement == Spec => ImplementsAtLeastOnce
<1> DEFINE T == [c \in Calls |-> Told(c)]
<1>1. Init => Once!CallInit
  BY DEF Init, Once!CallInit, Told
<1>2. TypeOK /\ IInv /\ [Next]_vars => [Once!CallNext]_(Once!callVars)
  <2> SUFFICES ASSUME TypeOK, IInv, [Next]_vars
               PROVE  Once!CallNext \/ UNCHANGED Once!callVars
    BY DEF Once!callVars
  <2> USE DEF Once!callVars
  <2>1. ASSUME NEW c \in Calls, Plain(c) PROVE Once!CallNext \/ UNCHANGED <<T, applied>>
    <3>1. CASE \E how \in {"op", "list"} : Begin(c, how)
      <4>1. Told(c) = "idle" /\ Told(c)' = "open" /\ UNCHANGED applied
        BY <3>1 DEF Begin, Told, Returned, TypeOK
      <4>2. \A q \in Calls : q # c => Told(q)' = Told(q)
        BY <3>1 DEF Begin, Told, Returned, TypeOK
      <4>3. Once!Issue(c)
        BY <4>1, <4>2 DEF Once!Issue
      <4> QED BY <4>3 DEF Once!CallNext
    <3>2. CASE Send(c) \/ Wake(c)
      <4>1. \A q \in Calls : Told(q)' = Told(q)
        BY <3>2 DEF Send, Wake, Told, Returned, TypeOK
      <4> QED BY <3>2, <4>1 DEF Send, Wake
    <3> QED BY <2>1, <3>1, <3>2 DEF Plain
  <2>2. ASSUME NEW c \in Calls, NEW a \in Attempts, NEW s \in Statuses, Twilio(c, a, s)
        PROVE  Once!CallNext \/ UNCHANGED <<T, applied>>
    <3>1. \A q \in Calls : Told(q)' = Told(q)
      BY <2>2 DEF Twilio, Told, Returned
    <3>2. CASE UNCHANGED applied
      BY <3>1, <3>2
    <3>3. CASE applied' = [applied EXCEPT ![c] = @ \union {a}]
      <4>1. a \notin applied[c]
        BY <2>2 DEF Twilio, IInv, ViewInv
      <4>2. Told(c) \in {"open", "done", "failed"}
        <5>1. pc[c] # "idle"
          <6>1. ASSUME pc[c] = "idle" PROVE answer[c][a] = "unsent"
            <7>1. attempt[c] = 0
              BY <6>1 DEF IInv, ResultInv
            <7>2. a > attempt[c] \/ a = attempt[c]
              BY <7>1, RetryAssumption DEF Attempts
            <7> QED BY <6>1, <7>2 DEF IInv, ViewInv
          <6> QED BY <2>2, <6>1 DEF Twilio
        <5>2. ASSUME Returned(c), seen[c][0] = "rejected" PROVE FALSE
          <6>1. 0 \in Attempts /\ attempt[c] \in Nat /\ a \in Nat
            BY RetryAssumption DEF Attempts, TypeOK
          <6>2. answer[c][0] = "rejected"
            BY <5>2, <6>1 DEF IInv, ViewInv, Statuses
          <6>3. attempt[c] = 0
            BY <5>2, <6>1 DEF IInv, RetryJustified, Faults
          <6>4. a = 0
            BY <2>2, <6>1, <6>3 DEF Twilio, IInv, ViewInv
          <6> QED BY <2>2, <6>2, <6>4 DEF Twilio
        <5>3. ASSUME Returned(c), seen[c][0] = "nothing", result[c] = "ToolError"
              PROVE  FALSE
          <6>1. 0 \in Attempts /\ attempt[c] \in Nat /\ a \in Nat
            BY RetryAssumption DEF Attempts, TypeOK
          <6>2. attempt[c] = 0
            BY <5>3, <6>1 DEF IInv, RetryJustified, Faults
          <6>3. answer[c][0] = "unsent"
            BY <5>3, <6>2 DEF IInv, ResultInv, Last
          <6>4. a > 0 => answer[c][a] = "unsent"
            BY <6>2 DEF IInv, ViewInv
          <6> QED BY <2>2, <6>1, <6>3, <6>4 DEF Twilio
        <5> QED BY <5>1, <5>2, <5>3 DEF Told
      <4>3. Once!Effect(c, a)
        BY <3>1, <3>3, <4>1, <4>2 DEF Once!Effect
      <4> QED BY <4>3 DEF Once!CallNext
    <3> QED BY <2>2, <3>2, <3>3 DEF Twilio
  <2>3. ASSUME NEW c \in Calls, NEW o \in Outcomes, NEW w \in Views,
               NEW d \in 0..TIMEOUT, Ends(c, o, w, d)
        PROVE  Once!CallNext
    <3>1. \A q \in Calls : q # c => Told(q)' = Told(q)
      BY <2>3 DEF Ends, Return, Told, Returned, TypeOK
    <3>2. UNCHANGED applied
      BY <2>3 DEF Ends, Return
    <3>3. /\ Told(c) \in {"idle", "open"}
          /\ pc[c] = "idle" \/ Told(c) = "open"
          /\ pc[c] = "idle" => o = "ToolError" /\ w = "nothing"
      <4>1. pc[c] \in {"idle", "send", "wait"}
        BY <2>3 DEF Ends
      <4>2. pc[c] = "idle" => o = "ToolError" /\ w = "nothing"
        BY <2>3 DEF Ends
      <4> QED BY <4>1, <4>2 DEF Told, Returned
    <3>4. pc'[c] = "returned" /\ result'[c] = o
      BY <2>3 DEF Ends, Return, TypeOK
    <3>5. Told(c)' = IF o = "Ok" THEN "done"
                     ELSE IF \/ seen'[c][0] = "rejected"
                             \/ seen'[c][0] = "nothing" /\ o = "ToolError"
                          THEN "refused" ELSE "failed"
      BY <3>4 DEF Told, Returned
    <3>6. attempt[c] \in Attempts /\ 0 \in Attempts /\ attempt[c] \in Nat
      BY RetryAssumption DEF TypeOK, Attempts
    <3>7. CASE o = "Ok"
      <4>1. applied[c] # {}
        BY <2>3, <3>6, <3>7 DEF Ends, IInv, ViewInv, Statuses
      <4>2. Once!Succeed(c)
        BY <3>1, <3>2, <3>3, <3>5, <3>7, <4>1 DEF Once!Succeed
      <4> QED BY <4>2 DEF Once!CallNext
    <3>8. CASE /\ o # "Ok"
               /\ \/ seen'[c][0] = "rejected"
                  \/ seen'[c][0] = "nothing" /\ o = "ToolError"
      <4>1. attempt[c] = 0 /\ answer[c][0] \in {"rejected", "unsent"}
        <5>1. seen'[c] = [seen[c] EXCEPT ![attempt[c]] = w]
          BY <2>3 DEF Ends, Return, TypeOK
        <5>2. seen[c] \in [Attempts -> Views]
          BY DEF TypeOK, Views
        <5>3. CASE attempt[c] = 0
          <6>1. seen'[c][0] = w
            BY <3>6, <5>1, <5>2, <5>3
          <6>2. CASE w = "rejected"
            BY <2>3, <5>3, <6>2 DEF Ends, Statuses
          <6>3. CASE w = "nothing" /\ o = "ToolError"
            <7>1. pc[c] = "idle"
              BY <2>3, <6>3 DEF Ends
            <7> QED BY <3>6, <5>3, <7>1 DEF IInv, ViewInv
          <6> QED BY <3>8, <6>1, <6>2, <6>3
        <5>4. CASE attempt[c] # 0
          BY <3>6, <3>8, <5>1, <5>2, <5>4 DEF IInv, RetryJustified, Faults
        <5> QED BY <5>3, <5>4
      <4>2. applied[c] = {}
        <5>1. ASSUME NEW a \in applied[c] PROVE FALSE
          <6>1. a \in Attempts /\ a \in Nat
            BY RetryAssumption DEF TypeOK, Attempts
          <6>2. answer[c][a] \in {"success", "failed"}
            BY <6>1 DEF IInv, ViewInv
          <6>3. a = 0
            BY <4>1, <6>1, <6>2 DEF IInv, ViewInv
          <6> QED BY <4>1, <6>2, <6>3
        <5> QED BY <5>1
      <4>3. Once!Refuse(c)
        BY <3>1, <3>2, <3>3, <3>5, <3>8, <4>2 DEF Once!Refuse
      <4> QED BY <4>3 DEF Once!CallNext
    <3>9. CASE /\ o # "Ok" /\ seen'[c][0] # "rejected"
               /\ ~(seen'[c][0] = "nothing" /\ o = "ToolError")
      <4>1. pc[c] # "idle"
        <5>1. ASSUME pc[c] = "idle" PROVE FALSE
          <6>1. attempt[c] = 0
            BY <5>1 DEF IInv, ResultInv
          <6>2. seen'[c][0] = w
            BY <2>3, <3>6, <6>1 DEF Ends, Return, TypeOK
          <6> QED BY <3>3, <3>9, <5>1, <6>2
        <5> QED BY <5>1
      <4>2. Once!Fail(c)
        BY <4>1, <3>1, <3>2, <3>3, <3>5, <3>9 DEF Once!Fail
      <4> QED BY <4>2 DEF Once!CallNext
    <3> QED BY <3>7, <3>8, <3>9
  <2>4. ASSUME NEW c \in Calls, NEW w \in {"throttled", "failed", "broken"},
               NEW d \in 0..(TIMEOUT + MAX_WAIT), Again(c, w, d)
        PROVE  UNCHANGED <<T, applied>>
    <3>1. \A q \in Calls : Told(q)' = Told(q)
      BY <2>4 DEF Again, Retry, Told, Returned, TypeOK
    <3> QED BY <2>4, <3>1 DEF Again, Retry
  <2>5. CASE UNCHANGED vars
    <3>1. \A q \in Calls : Told(q)' = Told(q)
      BY <2>5 DEF vars, Told, Returned
    <3> QED BY <2>5, <3>1 DEF vars
  <2> QED BY StepCases, <2>1, <2>2, <2>3, <2>4, <2>5
<1> QED BY <1>1, <1>2, Invariance, PTL DEF Spec, ImplementsAtLeastOnce, Once!CallSpec
=============================================================================
