---------------------------- MODULE Inbound_proofs ----------------------------
(***************************************************************************)
(* Proofs about Inbound, for any requests, SIDs, statuses, configuration   *)
(* and ring capacity.                                                      *)
(***************************************************************************)
EXTENDS Inbound, TLAPS

\* What appending does to a history of requests.
LEMMA AppendFacts ==
    ASSUME NEW s \in Seq(Requests), NEW r \in Requests
    PROVE  /\ Append(s, r) \in Seq(Requests)
           /\ Len(s) \in Nat /\ DOMAIN s = 1..Len(s)
           /\ Len(Append(s, r)) = Len(s) + 1
           /\ DOMAIN Append(s, r) = 1..(Len(s) + 1)
           /\ DOMAIN Append(s, r) = DOMAIN s \union {Len(s) + 1}
           /\ Append(s, r)[Len(s) + 1] = r
           /\ \A i \in DOMAIN s : Append(s, r)[i] = s[i] /\ s[i] \in Requests
           /\ Range(Append(s, r)) = Range(s) \union {r}
<1>1. /\ Append(s, r) \in Seq(Requests)
      /\ Len(s) \in Nat /\ DOMAIN s = 1..Len(s)
      /\ Len(Append(s, r)) = Len(s) + 1
      /\ DOMAIN Append(s, r) = 1..(Len(s) + 1)
      /\ Append(s, r)[Len(s) + 1] = r
      /\ \A i \in 1..Len(s) : Append(s, r)[i] = s[i] /\ s[i] \in Requests
  OBVIOUS
<1>2. DOMAIN Append(s, r) = DOMAIN s \union {Len(s) + 1}
  BY <1>1
<1>3. Range(Append(s, r)) = Range(s) \union {r}
  <2>1. \A i \in DOMAIN s : Append(s, r)[i] = s[i]
    BY <1>1
  <2>2. Append(s, r)[Len(s) + 1] = r
    BY <1>1
  <2> QED BY <1>2, <2>1, <2>2, Zenon DEF Range
<1> QED BY <1>1, <1>2, <1>3

\* What the ring becomes: it drops its first event when it is full.
LEMMA RingFacts ==
    ASSUME NEW s \in Seq(Requests), NEW r \in Requests, Len(s) <= RING_CAP,
           NEW t, t = IF Len(s) = RING_CAP THEN Append(Tail(s), r) ELSE Append(s, r)
    PROVE  /\ t \in Seq(Requests) /\ DOMAIN t = 1..Len(t)
           /\ Len(s) = RING_CAP => /\ Len(t) = RING_CAP
                                   /\ \A i \in 1..(Len(t) - 1) :
                                         i + 1 \in DOMAIN s /\ t[i] = s[i + 1]
           /\ Len(s) # RING_CAP => /\ Len(t) = Len(s) + 1
                                   /\ \A i \in 1..(Len(t) - 1) :
                                         i \in DOMAIN s /\ t[i] = s[i]
           /\ t[Len(t)] = r
<1>1. CASE Len(s) = RING_CAP
  <2> DEFINE u == Tail(s)
  <2>1. s # <<>>
    BY <1>1, RingAssumption
  <2>2. /\ u \in Seq(Requests) /\ Len(u) = Len(s) - 1
        /\ \A i \in 1..(Len(s) - 1) : u[i] = s[i + 1]
    BY <2>1
  <2> HIDE DEF u
  <2>3. Len(s) \in Nat /\ DOMAIN s = 1..Len(s)
    OBVIOUS
  <2>4. t = Append(u, r)
    BY <1>1 DEF u
  <2>5. /\ t \in Seq(Requests) /\ DOMAIN t = 1..Len(t) /\ Len(t) = Len(u) + 1
        /\ \A i \in 1..Len(u) : t[i] = u[i]
        /\ t[Len(u) + 1] = r
    BY <2>2, <2>4, AppendFacts
  <2> QED BY <1>1, <2>2, <2>3, <2>5
<1>2. CASE Len(s) # RING_CAP
  <2>1. t = Append(s, r)
    BY <1>2
  <2> QED BY <1>2, <2>1, AppendFacts
<1> QED BY <1>1, <1>2

\* The type invariant of the webhook receiver.
THEOREM TypeCorrect == Spec => []TypeOK
<1>1. Init => TypeOK
  <2> SUFFICES ASSUME Init PROVE TypeOK
    OBVIOUS
  <2>1. <<>> \in Seq(Requests)
    OBVIOUS
  <2> QED BY <2>1 DEF Init, TypeOK, Kinds, Replies
<1>2. TypeOK /\ [Next]_vars => TypeOK'
  <2> SUFFICES ASSUME TypeOK, [Next]_vars PROVE TypeOK'
    OBVIOUS
  <2> USE DEF TypeOK, stateVars, paramVars, Goto, Answer, Steps
  <2>1. ASSUME NEW r \in Requests, Refuse(r) PROVE TypeOK'
    BY <2>1 DEF Refuse, Replies
  <2>2. ASSUME NEW r \in Requests, Arrive(r) PROVE TypeOK'
    BY <2>2 DEF Arrive, Accept
  <2>3. ASSUME NEW r \in Requests, RecordStatus(r) PROVE TypeOK'
    <3>1. written' \in Seq(Requests)
      BY <2>3, AppendFacts DEF RecordStatus
    <3>2. last_status' \in [Sids -> Statuses \union {None}]
      BY <2>3 DEF RecordStatus
    <3> QED BY <2>3, <3>1, <3>2 DEF RecordStatus
  <2>4. ASSUME NEW r \in Requests, Stamp(r) PROVE TypeOK'
    BY <2>4 DEF Stamp
  <2>5. ASSUME NEW r \in Requests, RecordEvent(r) PROVE TypeOK'
    <3>1. recorded' \in Seq(Requests)
      BY <2>5, AppendFacts DEF RecordEvent
    <3>2. ring' \in Seq(Requests)
      <4>1. CASE Len(ring) = RING_CAP
        <5>1. Tail(ring) \in Seq(Requests)
          BY <4>1, RingAssumption
        <5>2. ring' = Append(Tail(ring), r)
          BY <2>5, <4>1 DEF RecordEvent
        <5> QED BY <5>1, <5>2, AppendFacts
      <4>2. CASE Len(ring) # RING_CAP
        BY <2>5, <4>2, AppendFacts DEF RecordEvent
      <4> QED BY <4>1, <4>2
    <3>3. pc' \in [Requests -> Steps \union {"new", "answered"}]
      BY <2>5 DEF RecordEvent
    <3> QED BY <2>5, <3>1, <3>2, <3>3 DEF RecordEvent
  <2>6. ASSUME NEW r \in Requests, NotifyInbound(r) PROVE TypeOK'
    <3>1. notices' \in Seq(Requests)
      BY <2>6, AppendFacts DEF NotifyInbound
    <3>2. pc' \in [Requests -> Steps \union {"new", "answered"}]
      BY <2>6 DEF NotifyInbound
    <3> QED BY <2>6, <3>1, <3>2 DEF NotifyInbound
  <2>7. ASSUME NEW r \in Requests, MaybePush(r) PROVE TypeOK'
    BY <2>7 DEF MaybePush
  <2>8. ASSUME NEW r \in Requests, Reply(r) PROVE TypeOK'
    <3>1. kind[r] \in Kinds
      OBVIOUS
    <3>2. Controls(kind[r]) \union {Fallback(kind[r])} \subseteq Replies
      BY <3>1 DEF Controls, Fallback, Kinds, Replies
    <3> QED BY <2>8, <3>2 DEF Reply
  <2>9. ASSUME NEW r \in Requests, PushTask(r) PROVE TypeOK'
    BY <2>9 DEF PushTask
  <2>10. CASE UNCHANGED vars
    BY <2>10 DEF vars
  <2> QED BY <2>1, <2>2, <2>3, <2>4, <2>5, <2>6, <2>7, <2>8, <2>9, <2>10
          DEF Next, Handle
<1> QED BY <1>1, <1>2, PTL DEF Spec

-----------------------------------------------------------------------------
\* The steps that touch neither a history nor the parameters of a request.
Quiet(r) == Refuse(r) \/ Stamp(r) \/ MaybePush(r) \/ Reply(r) \/ PushTask(r)

LEMMA StepCases ==
    ASSUME [Next]_vars
    PROVE  \/ \E r \in Requests : Arrive(r) \/ RecordStatus(r) \/ RecordEvent(r)
                                     \/ NotifyInbound(r) \/ Quiet(r)
           \/ UNCHANGED vars
BY DEF Next, Handle, Quiet

\* A quiet step leaves the histories and the parameters alone.
LEMMA QuietFrame ==
    ASSUME (\E r \in Requests : Quiet(r)) \/ UNCHANGED vars
    PROVE  UNCHANGED <<stateVars, paramVars>>
BY DEF Quiet, Refuse, Stamp, MaybePush, Reply, PushTask, vars

\* The answers Reply gives are those of an accepted request.
LEMMA ReplyAccepted ==
    ASSUME NEW k \in Kinds, NEW what \in Controls(k) \union {Fallback(k)}
    PROVE  what \notin {"403", "404", "none"}
BY DEF Controls, Fallback, Kinds

LEMMA HandlerPreserved ==
    ASSUME TypeOK, HandlerInv, [Next]_vars
    PROVE  HandlerInv'
<1> USE DEF HandlerInv, Goto, Answer
<1>1. ASSUME NEW r \in Requests, Arrive(r) PROVE HandlerInv'
  BY <1>1, NoneAssumption DEF Arrive, Accept, stateVars, TypeOK
<1>2. ASSUME NEW r \in Requests, RecordStatus(r) PROVE HandlerInv'
  <2>1. Range(written') = Range(written) \union {r}
    BY <1>2, AppendFacts DEF RecordStatus, TypeOK
  <2> QED BY <1>2, <2>1 DEF RecordStatus, paramVars, TypeOK
<1>3. ASSUME NEW r \in Requests, RecordEvent(r) PROVE HandlerInv'
  <2>1. Range(recorded') = Range(recorded) \union {r}
    BY <1>3, AppendFacts DEF RecordEvent, TypeOK
  <2> QED BY <1>3, <2>1 DEF RecordEvent, paramVars, TypeOK
<1>4. ASSUME NEW r \in Requests, NotifyInbound(r) PROVE HandlerInv'
  <2>1. Range(notices') = Range(notices) \union {r}
    BY <1>4, AppendFacts DEF NotifyInbound, TypeOK
  <2> QED BY <1>4, <2>1 DEF NotifyInbound, paramVars, TypeOK, Kinds
<1>5. ASSUME NEW r \in Requests, Quiet(r) PROVE HandlerInv'
  <2>1. CASE Reply(r)
    <3>1. PICK what \in Controls(kind[r]) \union {Fallback(kind[r])} :
             pc' = [pc EXCEPT ![r] = "answered"] /\ reply' = [reply EXCEPT ![r] = what]
      BY <2>1 DEF Reply
    <3>2. what \notin {"403", "404", "none"}
      BY <3>1, ReplyAccepted DEF TypeOK
    <3> QED BY <2>1, <3>1, <3>2 DEF Reply, stateVars, paramVars, TypeOK
  <2>2. CASE Refuse(r)
    BY <2>2 DEF Refuse, stateVars, paramVars, TypeOK
  <2>3. CASE Stamp(r) \/ MaybePush(r) \/ PushTask(r)
    BY <2>3 DEF Stamp, MaybePush, PushTask, stateVars, paramVars, TypeOK
  <2> QED BY <1>5, <2>1, <2>2, <2>3 DEF Quiet
<1>6. CASE UNCHANGED vars
  BY <1>6 DEF vars, stateVars, paramVars
<1> QED BY StepCases, <1>1, <1>2, <1>3, <1>4, <1>5, <1>6

\* The ring s is the tail of the history h.
IsTail(s, h) ==
    /\ Len(s) <= RING_CAP
    /\ Len(s) < RING_CAP => Len(h) - Len(s) = 0
    /\ \A i \in DOMAIN s : /\ (Len(h) - Len(s)) + i \in DOMAIN h
                           /\ s[i] = h[(Len(h) - Len(s)) + i]

LEMMA RecordKeepsTail ==
    ASSUME NEW s \in Seq(Requests), NEW h \in Seq(Requests), NEW r \in Requests,
           IsTail(s, h),
           NEW t, t = IF Len(s) = RING_CAP THEN Append(Tail(s), r) ELSE Append(s, r)
    PROVE  IsTail(t, Append(h, r))
<1> DEFINE g == Append(h, r)
           n == Len(h)
           m == Len(s)
           k == Len(t)
<1>1. /\ n \in Nat /\ m \in Nat /\ DOMAIN s = 1..m /\ DOMAIN h = 1..n
      /\ Len(g) = n + 1 /\ DOMAIN g = 1..(n + 1) /\ g[n + 1] = r
      /\ \A i \in 1..n : g[i] = h[i]
  <2>1. n \in Nat /\ m \in Nat /\ DOMAIN s = 1..m /\ DOMAIN h = 1..n
    OBVIOUS
  <2> HIDE DEF m
  <2> QED BY <2>1, AppendFacts
<1>2. /\ m <= RING_CAP /\ (m < RING_CAP => n - m = 0)
      /\ \A i \in DOMAIN s : (n - m) + i \in DOMAIN h /\ s[i] = h[(n - m) + i]
  BY DEF IsTail
<1>3. /\ DOMAIN t = 1..k /\ k \in Nat /\ t[k] = r
      /\ m = RING_CAP => k = m /\ \A i \in 1..(k - 1) : t[i] = s[i + 1]
      /\ m # RING_CAP => k = m + 1 /\ \A i \in 1..(k - 1) : t[i] = s[i]
  <2>1. /\ t \in Seq(Requests) /\ DOMAIN t = 1..k
        /\ m = RING_CAP => k = RING_CAP /\ \A i \in 1..(k - 1) : t[i] = s[i + 1]
        /\ m # RING_CAP => k = m + 1 /\ \A i \in 1..(k - 1) : t[i] = s[i]
        /\ t[k] = r
    BY <1>2, RingFacts
  <2>2. k \in Nat
    BY <2>1
  <2> HIDE DEF k, m
  <2> QED BY <2>1, <2>2
<1> HIDE DEF g, n, m, k
<1>4. m <= n
  <2>1. CASE m = 0
    BY <1>1, <2>1
  <2>2. CASE m # 0
    <3>1. 1 \in 1..m
      BY <1>1, <2>2
    <3>2. (n - m) + 1 \in 1..n
      BY <1>1, <1>2, <3>1
    <3> QED BY <1>1, <3>2
  <2> QED BY <2>1, <2>2
<1>5. k <= RING_CAP /\ (k < RING_CAP => (n + 1) - k = 0)
  BY <1>1, <1>2, <1>3, RingAssumption
<1>6. ASSUME NEW i \in 1..k
      PROVE  ((n + 1) - k) + i \in 1..(n + 1) /\ t[i] = g[((n + 1) - k) + i]
  <2>1. CASE i = k
    BY <1>1, <1>3, <2>1
  <2>2. CASE i # k /\ m = RING_CAP
    <3>1. i + 1 \in 1..m /\ t[i] = s[i + 1]
      BY <1>1, <1>3, <2>2
    <3>2. s[i + 1] = h[(n - m) + (i + 1)]
      BY <1>1, <1>2, <3>1
    <3>3. (n - m) + (i + 1) = ((n + 1) - k) + i /\ ((n + 1) - k) + i \in 1..n
      BY <1>1, <1>3, <1>4, <2>2, <3>1
    <3> QED BY <1>1, <3>1, <3>2, <3>3
  <2>3. CASE i # k /\ m # RING_CAP
    <3>1. i \in 1..m /\ t[i] = s[i]
      BY <1>1, <1>3, <2>3
    <3>2. s[i] = h[(n - m) + i]
      BY <1>1, <1>2, <3>1
    <3>3. (n - m) + i = ((n + 1) - k) + i /\ ((n + 1) - k) + i \in 1..n
      BY <1>1, <1>3, <1>4, <2>3, <3>1
    <3> QED BY <1>1, <3>1, <3>2, <3>3
  <2> QED BY <2>1, <2>2, <2>3
<1>7. Len(t) = k
  BY DEF k
<1>8. Len(g) - Len(t) = (n + 1) - k
  BY <1>1, <1>7, Zenon
<1>9. \A i \in DOMAIN t : /\ (Len(g) - Len(t)) + i \in DOMAIN g
                          /\ t[i] = g[(Len(g) - Len(t)) + i]
  BY <1>1, <1>3, <1>6, <1>8
<1>10. Len(t) <= RING_CAP /\ (Len(t) < RING_CAP => Len(g) - Len(t) = 0)
  BY <1>5, <1>7, <1>8
<1>11. IsTail(t, g)
  BY <1>9, <1>10, Zenon DEF IsTail
<1> QED BY <1>11 DEF g

LEMMA SuffixPreserved ==
    ASSUME TypeOK, RecentIsSuffix, [Next]_vars
    PROVE  RecentIsSuffix'
<1>1. RecentIsSuffix <=> IsTail(ring, recorded)
  BY DEF RecentIsSuffix, IsTail
<1>2. RecentIsSuffix' <=> IsTail(ring', recorded')
  BY DEF RecentIsSuffix, IsTail
<1>3. ASSUME NEW r \in Requests, RecordEvent(r) PROVE RecentIsSuffix'
  <2>1. /\ recorded' = Append(recorded, r)
        /\ ring' = IF Len(ring) = RING_CAP THEN Append(Tail(ring), r)
                                            ELSE Append(ring, r)
    BY <1>3 DEF RecordEvent
  <2>2. ring \in Seq(Requests) /\ recorded \in Seq(Requests)
    BY DEF TypeOK
  <2>3. IsTail(ring', Append(recorded, r))
    BY <1>1, <2>1, <2>2, RecordKeepsTail, Zenon
  <2> QED BY <1>2, <2>1, <2>3
<1>4. CASE UNCHANGED <<ring, recorded>>
  BY <1>4 DEF RecentIsSuffix
<1>5. CASE \E r \in Requests : Arrive(r) \/ RecordStatus(r) \/ NotifyInbound(r)
  BY <1>4, <1>5 DEF Arrive, Accept, RecordStatus, NotifyInbound, stateVars
<1>6. CASE (\E r \in Requests : Quiet(r)) \/ UNCHANGED vars
  BY <1>4, <1>6, QuietFrame DEF stateVars
<1> QED BY StepCases, <1>3, <1>5, <1>6

LEMMA OncePreserved ==
    ASSUME TypeOK, HandlerInv, OncePerDelivery, [Next]_vars
    PROVE  OncePerDelivery'
<1>1. ASSUME NEW s \in Seq(Requests), NEW r \in Requests, r \notin Range(s),
             \A i, j \in DOMAIN s : s[i] = s[j] => i = j,
             NEW i \in DOMAIN Append(s, r), NEW j \in DOMAIN Append(s, r),
             Append(s, r)[i] = Append(s, r)[j]
      PROVE  i = j
  <2>1. \A l \in DOMAIN s : s[l] # r
    BY <1>1 DEF Range
  <2>2. /\ DOMAIN Append(s, r) = DOMAIN s \union {Len(s) + 1}
        /\ Append(s, r)[Len(s) + 1] = r
        /\ \A l \in DOMAIN s : Append(s, r)[l] = s[l]
    BY AppendFacts
  <2> QED BY <1>1, <2>1, <2>2
<1>2. ASSUME NEW r \in Requests, RecordEvent(r) PROVE OncePerDelivery'
  <2>1. r \notin Range(recorded)
    BY <1>2 DEF RecordEvent, HandlerInv
  <2>2. recorded' = Append(recorded, r) /\ notices' = notices
    BY <1>2 DEF RecordEvent
  <2> QED BY <1>1, <2>1, <2>2 DEF OncePerDelivery, TypeOK
<1>3. ASSUME NEW r \in Requests, NotifyInbound(r) PROVE OncePerDelivery'
  <2>1. r \notin Range(notices)
    BY <1>3 DEF NotifyInbound, HandlerInv
  <2>2. notices' = Append(notices, r) /\ recorded' = recorded
    BY <1>3 DEF NotifyInbound
  <2> QED BY <1>1, <2>1, <2>2 DEF OncePerDelivery, TypeOK
<1>4. CASE UNCHANGED <<recorded, notices>>
  BY <1>4 DEF OncePerDelivery
<1>5. CASE \E r \in Requests : Arrive(r) \/ RecordStatus(r)
  BY <1>4, <1>5 DEF Arrive, Accept, RecordStatus, stateVars
<1>6. CASE (\E r \in Requests : Quiet(r)) \/ UNCHANGED vars
  BY <1>4, <1>6, QuietFrame DEF stateVars
<1> QED BY StepCases, <1>2, <1>3, <1>5, <1>6

LEMMA StatusPreserved ==
    ASSUME TypeOK, HandlerInv, StatusTraced, [Next]_vars
    PROVE  StatusTraced'
<1>1. ASSUME NEW r \in Requests, Arrive(r) PROVE StatusTraced'
  <2>1. /\ \A q \in Requests : q # r => /\ sid'[q] = sid[q]
                                        /\ status'[q] = status[q]
                                        /\ kind'[q] = kind[q]
        /\ UNCHANGED <<last_status, notices, written>>
        /\ pc[r] = "new"
    BY <1>1 DEF Arrive, Accept, stateVars, TypeOK
  <2>2. r \notin Range(written) /\ r \notin Range(notices)
    BY <2>1 DEF HandlerInv
  <2>3. \A i \in DOMAIN written : written[i] \in Requests /\ written[i] # r
    BY <2>2 DEF Range, TypeOK
  <2>4. \A q \in Range(notices) : q \in Requests /\ q # r
    BY <2>2 DEF Range, TypeOK
  <2>5. \A i \in DOMAIN written : /\ sid'[written[i]] = sid[written[i]]
                                  /\ status'[written[i]] = status[written[i]]
    BY <2>1, <2>3
  <2>6. \A s \in Sids : Latest(s)' = Latest(s)
    BY <2>1, <2>5 DEF Latest
  <2>7. \A s \in Sids : \A i \in Latest(s) : i \in DOMAIN written
    BY DEF Latest
  <2> QED BY <2>1, <2>4, <2>5, <2>6, <2>7 DEF StatusTraced
<1>2. ASSUME NEW r \in Requests, RecordStatus(r) PROVE StatusTraced'
  <2> DEFINE n == Len(written)
  <2>1. /\ written' = Append(written, r) /\ UNCHANGED <<notices, paramVars>>
        /\ last_status' = [last_status EXCEPT ![sid[r]] = status[r]]
    BY <1>2 DEF RecordStatus
  <2>2. /\ sid[r] \in Sids /\ status[r] # None
    BY <1>2 DEF RecordStatus, HandlerInv, TypeOK
  <2>3. /\ DOMAIN written' = DOMAIN written \union {n + 1} /\ written'[n + 1] = r
        /\ n \in Nat /\ DOMAIN written = 1..n
        /\ \A i \in DOMAIN written : written'[i] = written[i]
        /\ Range(written') = Range(written) \union {r}
    BY <2>1, AppendFacts DEF TypeOK
  <2> HIDE DEF n
  <2>4. \A i \in DOMAIN written : i < n + 1
    BY <2>3
  <2>5. ASSUME NEW s \in Sids
        PROVE  /\ last_status'[s] # None => Latest(s)' # {}
               /\ \A i \in Latest(s)' : last_status'[s] = status'[written'[i]]
    <3>1. CASE s = sid[r]
      <4>1. n + 1 \in Latest(s)'
        BY <2>1, <2>3, <2>4, <3>1 DEF Latest, paramVars
      <4>2. \A i \in Latest(s)' : i = n + 1
        <5>1. ASSUME NEW i \in Latest(s)' PROVE i = n + 1
          <6>1. i \in DOMAIN written \union {n + 1} /\ n + 1 <= i
            BY <2>1, <2>3, <3>1, <5>1 DEF Latest, paramVars
          <6> QED BY <2>3, <6>1
        <5> QED BY <5>1
      <4>3. last_status'[s] = status[r]
        BY <2>1, <2>2, <3>1 DEF TypeOK
      <4> QED BY <2>1, <2>3, <4>1, <4>2, <4>3 DEF paramVars
    <3>2. CASE s # sid[r]
      <4>1. Latest(s)' = Latest(s)
        BY <2>1, <2>3, <3>2, Zenon DEF Latest, paramVars
      <4>2. last_status'[s] = last_status[s]
        BY <2>1, <2>2, <3>2 DEF TypeOK
      <4>3. \A i \in Latest(s) : i \in DOMAIN written
        BY DEF Latest
      <4> QED BY <2>1, <2>3, <4>1, <4>2, <4>3 DEF StatusTraced, paramVars
    <3> QED BY <3>1, <3>2
  <2> QED BY <2>1, <2>3, <2>5 DEF StatusTraced, paramVars
<1>3. ASSUME NEW r \in Requests, NotifyInbound(r) PROVE StatusTraced'
  <2>1. Range(notices') = Range(notices) \union {r}
    BY <1>3, AppendFacts DEF NotifyInbound, TypeOK
  <2>2. kind[r] = "status" /\ sid[r] # None /\ status[r] # None => r \in Range(written)
    BY <1>3 DEF NotifyInbound, HandlerInv
  <2>3. \A s \in Sids : Latest(s)' = Latest(s)
    BY <1>3 DEF NotifyInbound, paramVars, Latest
  <2> QED BY <1>3, <2>1, <2>2, <2>3 DEF NotifyInbound, paramVars, StatusTraced
<1>4. CASE UNCHANGED <<last_status, notices, written, paramVars>>
  <2>1. \A s \in Sids : Latest(s)' = Latest(s)
    BY <1>4 DEF paramVars, Latest
  <2> QED BY <1>4, <2>1 DEF StatusTraced, paramVars
<1>5. CASE \E r \in Requests : RecordEvent(r)
  BY <1>4, <1>5 DEF RecordEvent
<1>6. CASE (\E r \in Requests : Quiet(r)) \/ UNCHANGED vars
  BY <1>4, <1>6, QuietFrame DEF stateVars
<1> QED BY StepCases, <1>1, <1>2, <1>3, <1>5, <1>6

-----------------------------------------------------------------------------
\* The inductive invariant of the webhook receiver.
THEOREM Invariance == Spec => [](TypeOK /\ IInv)
<1>1. Init => IInv
  BY RingAssumption DEF Init, IInv, HandlerInv, RecentIsSuffix, OncePerDelivery,
                        StatusTraced, Latest, Range
<1>2. TypeOK /\ IInv /\ [Next]_vars => IInv'
  BY HandlerPreserved, SuffixPreserved, OncePreserved, StatusPreserved DEF IInv
<1> QED BY <1>1, <1>2, TypeCorrect, PTL DEF Spec

\* Where each handler is agrees with what it left.
THEOREM HandlersAgree == Spec => []HandlerInv
<1>1. IInv => HandlerInv
  BY DEF IInv
<1> QED BY <1>1, Invariance, PTL

\* The ring is the tail of what was recorded.
THEOREM RingIsRecent == Spec => []RecentIsSuffix
<1>1. IInv => RecentIsSuffix
  BY DEF IInv
<1> QED BY <1>1, Invariance, PTL

\* A delivery is recorded and announced at most once.
THEOREM AtMostOnce == Spec => []OncePerDelivery
<1>1. IInv => OncePerDelivery
  BY DEF IInv
<1> QED BY <1>1, Invariance, PTL

\* The status of a SID is the one last written.
THEOREM StatusIsLast == Spec => []StatusTraced
<1>1. IInv => StatusTraced
  BY DEF IInv
<1> QED BY <1>1, Invariance, PTL

\* A refused request leaves no trace.
THEOREM NoTrace == Spec => []RefusedLeavesNoTrace
<1>1. IInv => RefusedLeavesNoTrace
  BY DEF IInv, HandlerInv, RefusedLeavesNoTrace
<1> QED BY <1>1, Invariance, PTL

\* What is announced is in the ring, or RING_CAP later events are.
THEOREM Readable == Spec => []AnnouncedIsReadable
<1>1. TypeOK /\ IInv => AnnouncedIsReadable
  <2> SUFFICES ASSUME TypeOK, IInv, NEW r \in Requests,
                      r \in Range(notices) \/ pushes[r] # "none"
               PROVE  \E i \in DOMAIN recorded :
                         /\ recorded[i] = r
                         /\ r \in Range(ring) \/ i + RING_CAP <= Len(recorded)
    BY DEF AnnouncedIsReadable
  <2>1. r \in Range(recorded)
    BY DEF IInv, HandlerInv
  <2>2. PICK i \in DOMAIN recorded : recorded[i] = r
    BY <2>1 DEF Range
  <2> DEFINE n == Len(recorded)
             m == Len(ring)
  <2>3. /\ n \in Nat /\ m \in Nat /\ i \in 1..n /\ DOMAIN ring = 1..m
    BY DEF TypeOK
  <2>4. /\ m <= RING_CAP /\ (m < RING_CAP => n - m = 0)
        /\ \A j \in DOMAIN ring : ring[j] = recorded[(n - m) + j]
    BY DEF IInv, RecentIsSuffix
  <2> HIDE DEF n, m
  <2>5. CASE i > n - m
    <3>1. i - (n - m) \in 1..m /\ (n - m) + (i - (n - m)) = i
      BY <2>3, <2>5
    <3>2. ring[i - (n - m)] = r
      BY <2>2, <2>3, <2>4, <3>1
    <3>3. r \in Range(ring)
      BY <2>3, <3>1, <3>2 DEF Range
    <3> QED BY <2>2, <3>3
  <2>6. CASE ~(i > n - m)
    <3>1. i + RING_CAP <= n
      BY <2>3, <2>4, <2>6, RingAssumption
    <3> QED BY <2>2, <3>1 DEF n
  <2> QED BY <2>5, <2>6
<1> QED BY <1>1, Invariance, PTL
=============================================================================
