------------------------- MODULE VoiceControl_proofs -------------------------
(***************************************************************************)
(* Proofs about VoiceControl, for any requests, keys, lifetimes, clock and *)
(* configuration, and any number of scripts.                               *)
(***************************************************************************)
EXTENDS VoiceControl, Integers, TLAPS

Script == [key : Keys, expires_at : Nat]

\* The steps of a request that touch neither the map nor what was served.
Quiet(r) ==
    \/ \E callSid \in CallSids \union {None}, number \in Numbers \union {None} :
          RecordEvent(r, callSid, number)
    \/ Notify(r)
    \/ pc[r] = "take_sid" /\ sid[r] = None /\ Skip(r, "take_to")
    \/ pc[r] = "take_to" /\ to[r] = None /\ Skip(r, "tool?")
    \/ InvokeTool(r)
    \/ ToolTimeout(r)
    \/ PanicOnLock(r)
    \/ HandlerTool(r)

\* The two looks that take a script.
LookUnder(r, k) ==
    \/ pc[r] = "take_sid" /\ k = sid[r] /\ TakeScript(r, k, "take_to")
    \/ pc[r] = "take_to" /\ k = to[r] /\ TakeScript(r, k, "tool?")

\* A step stages a script, takes one, or leaves the scripts alone.
LEMMA StepCases ==
    ASSUME TypeOK, [Next]_vars
    PROVE  \/ \E k \in Keys, ttl \in Ttls :
                 StageScript(k, ttl) /\ UNCHANGED <<now, callVars>>
           \/ \E r \in Requests, k \in Keys : LookUnder(r, k)
           \/ \E r \in Requests : Quiet(r)
           \/ Tick
           \/ UNCHANGED vars
<1>1. CASE Agent
  BY <1>1 DEF Agent, StageCallResponse, KeyOf, Keys
<1>2. ASSUME NEW r \in Requests, HandleVoice(r) \/ HandlerTool(r)
      PROVE  Quiet(r) \/ \E k \in Keys : LookUnder(r, k)
  <2>1. (sid[r] # None => sid[r] \in Keys) /\ (to[r] # None => to[r] \in Keys)
    BY DEF TypeOK, Keys
  <2>2. CASE TakeBySid(r)
    BY <2>1, <2>2 DEF TakeBySid, Quiet, LookUnder
  <2>3. CASE TakeByTo(r)
    BY <2>1, <2>3 DEF TakeByTo, Quiet, LookUnder
  <2>4. CASE ~TakeBySid(r) /\ ~TakeByTo(r)
    BY <1>2, <2>4 DEF HandleVoice, Quiet
  <2> QED BY <2>2, <2>3, <2>4
<1> QED BY <1>1, <1>2 DEF Next

\* What staging does to the history.
LEMMA AppendScript ==
    ASSUME NEW s \in Seq(Script), NEW x \in Script
    PROVE  /\ DOMAIN Append(s, x) = DOMAIN s \union {Len(s) + 1}
           /\ Append(s, x)[Len(s) + 1] = x
           /\ \A i \in DOMAIN s : /\ Append(s, x)[i] = s[i]
                                  /\ i \in Nat /\ i # 0 /\ i <= Len(s)
                                  /\ s[i] \in Script
           /\ Append(s, x) \in Seq(Script)
           /\ Len(s) \in Nat
           /\ Len(Append(s, x)) = Len(s) + 1
<1>1. /\ Append(s, x)[Len(s) + 1] = x
      /\ DOMAIN s = 1..Len(s)
      /\ DOMAIN Append(s, x) = 1..(Len(s) + 1)
      /\ \A i \in 1..Len(s) : Append(s, x)[i] = s[i] /\ s[i] \in Script
      /\ Len(s) \in Nat
      /\ Append(s, x) \in Seq(Script)
      /\ Len(Append(s, x)) = Len(s) + 1
  OBVIOUS
<1>2. DOMAIN Append(s, x) = DOMAIN s \union {Len(s) + 1}
  BY <1>1
<1> QED BY <1>1, <1>2

\* The type invariant of live call control.
THEOREM TypeCorrect == Spec => []TypeOK
<1>1. Init => TypeOK
  <2> SUFFICES ASSUME Init PROVE TypeOK
    OBVIOUS
  <2>1. stagings \in Seq([key : Keys, expires_at : Nat])
    BY DEF Init
  <2> QED BY <2>1 DEF Init, TypeOK
<1>2. TypeOK /\ [Next]_vars => TypeOK'
  <2> SUFFICES ASSUME TypeOK, [Next]_vars PROVE TypeOK'
    OBVIOUS
  <2> USE DEF callVars
  <2>1. ASSUME NEW k \in Keys, NEW ttl \in Ttls,
               StageScript(k, ttl), UNCHANGED <<now, callVars>>
        PROVE  TypeOK'
    <3>1. CASE now + ttl > INSTANT_MAX
      BY <2>1, <3>1 DEF StageScript, TypeOK
    <3>2. CASE ~(now + ttl > INSTANT_MAX)
      <4> DEFINE x == [key |-> k, expires_at |-> now + ttl]
      <4>1. x \in Script /\ stagings \in Seq(Script)
        BY TtlAssumption DEF TypeOK, Script
      <4>2. stagings' = Append(stagings, x)
        BY <2>1, <3>2 DEF StageScript
      <4>3. stagings' \in Seq([key : Keys, expires_at : Nat])
        BY <4>1, <4>2, AppendScript DEF Script
      <4>4. staged' \in [Keys -> Nat] /\ poisoned' = poisoned
        <5>1. Len(stagings) + 1 \in Nat
          BY DEF TypeOK
        <5> QED BY <2>1, <3>2, <5>1 DEF StageScript, TypeOK
      <4> QED BY <2>1, <4>3, <4>4 DEF TypeOK
    <3> QED BY <3>1, <3>2
  <2>2. ASSUME NEW r \in Requests, NEW k \in Keys, LookUnder(r, k) PROVE TypeOK'
    <3>1. UNCHANGED <<now, poisoned, sid, to, tool, stagings, arrived>>
      BY <2>2 DEF LookUnder, TakeScript
    <3>2. staged' \in [Keys -> Nat]
      <4>1. staged' = [staged EXCEPT ![k] = 0]
        BY <2>2 DEF LookUnder, TakeScript
      <4> QED BY <4>1 DEF TypeOK
    <3>3. served' \in [Requests -> Nat]
      BY <2>2 DEF LookUnder, TakeScript, TypeOK
    <3>4. pc' \in [Requests -> Replies \union {"record", "notify", "take_sid", "take_to",
                                               "tool?", "await", "panicked"}]
      BY <2>2 DEF LookUnder, TakeScript, TypeOK, Replies
    <3> QED BY <3>1, <3>2, <3>3, <3>4 DEF TypeOK
  <2>3. ASSUME NEW r \in Requests, Quiet(r) PROVE TypeOK'
    <3>1. UNCHANGED <<now, staged, poisoned, stagings, served>>
      BY <2>3 DEF Quiet, RecordEvent, Notify, Skip, InvokeTool, ToolTimeout,
         PanicOnLock, Panic, HandlerTool, ToolAnswers, ToolEndsLate
    <3>2. pc' \in [Requests -> Replies \union {"record", "notify", "take_sid", "take_to",
                                               "tool?", "await", "panicked"}]
      BY <2>3 DEF Quiet, RecordEvent, Notify, Skip, InvokeTool, ToolTimeout,
         PanicOnLock, Panic, HandlerTool, ToolAnswers, ToolEndsLate, TypeOK,
         Replies, Fallback
    <3>3. tool' \in [Requests -> {"idle", "running", "abandoned", "ended"}]
      BY <2>3 DEF Quiet, RecordEvent, Notify, Skip, InvokeTool, ToolTimeout,
         PanicOnLock, Panic, HandlerTool, ToolAnswers, ToolEndsLate, TypeOK
    <3>4. /\ sid' \in [Requests -> CallSids \union {None}]
          /\ to' \in [Requests -> Numbers \union {None}]
          /\ arrived' \in [Requests -> Nat]
      <4>1. ASSUME NEW callSid \in CallSids \union {None},
                   NEW number \in Numbers \union {None},
                   RecordEvent(r, callSid, number)
            PROVE  /\ sid' \in [Requests -> CallSids \union {None}]
                   /\ to' \in [Requests -> Numbers \union {None}]
                   /\ arrived' \in [Requests -> Nat]
        <5>1. Len(stagings) \in Nat
          BY DEF TypeOK
        <5>2. arrived' \in [Requests -> Nat]
          BY <4>1, <5>1 DEF RecordEvent, TypeOK
        <5> QED BY <4>1, <5>2 DEF RecordEvent, TypeOK
      <4>2. CASE UNCHANGED <<sid, to, arrived>>
        BY <4>2 DEF TypeOK
      <4> QED
        BY <2>3, <4>1, <4>2 DEF Quiet, Notify, Skip, InvokeTool, ToolTimeout,
           PanicOnLock, Panic, HandlerTool, ToolAnswers, ToolEndsLate
    <3> QED BY <3>1, <3>2, <3>3, <3>4 DEF TypeOK
  <2>4. CASE Tick
    BY <2>4 DEF Tick, TypeOK
  <2>5. CASE UNCHANGED vars
    BY <2>5 DEF vars, TypeOK
  <2> QED BY <2>1, <2>2, <2>3, <2>4, <2>5, StepCases
<1> QED BY <1>1, <1>2, PTL DEF Spec

-----------------------------------------------------------------------------
\* Every script staged has a key and an expiry.
LEMMA ScriptTypes ==
    ASSUME TypeOK, NEW i \in Scripts
    PROVE  stagings[i].key \in Keys /\ stagings[i].expires_at \in Nat /\ i \in Nat
<1>1. stagings \in Seq(Script)
  BY DEF TypeOK, Script
<1>2. i \in 1..Len(stagings) /\ Len(stagings) \in Nat
  BY <1>1 DEF Scripts
<1>3. stagings[i] \in Script
  BY <1>1, <1>2
<1> QED BY <1>2, <1>3 DEF Script

\* Staging a script adds the newest one of its key and touches no other.
LEMMA StageFacts ==
    ASSUME TypeOK, NEW k \in Keys, NEW ttl \in Ttls, StageScript(k, ttl),
           UNCHANGED <<now, callVars>>, ~ UNCHANGED <<stagings, staged>>
    PROVE  LET n == Len(stagings) + 1 IN
           /\ n \in Nat /\ n # 0
           /\ Scripts' = Scripts \union {n}
           /\ \A i \in Scripts : /\ stagings'[i] = stagings[i]
                                 /\ i \in Nat /\ i < n
                                 /\ Newest(i)' => Newest(i) /\ stagings[i].key # k
                                 /\ Newest(i) /\ stagings[i].key # k => Newest(i)'
           /\ stagings'[n].key = k
           /\ \A m : m = n => Newest(m)'
           /\ staged' = [staged EXCEPT ![k] = n]
           /\ Len(stagings') = n
<1> DEFINE n == Len(stagings) + 1
           x == [key |-> k, expires_at |-> now + ttl]
<1>1. stagings' = Append(stagings, x) /\ staged' = [staged EXCEPT ![k] = n]
  BY DEF StageScript
<1>2. x \in Script /\ stagings \in Seq(Script) /\ x.key = k
  BY TtlAssumption DEF TypeOK, Script
<1>3. /\ Scripts' = Scripts \union {n}
      /\ stagings'[n] = x
      /\ \A i \in Scripts : stagings'[i] = stagings[i] /\ i \in Nat /\ i < n
      /\ n \in Nat /\ n # 0 /\ Len(stagings') = n
  BY <1>1, <1>2, AppendScript DEF Scripts
<1>4. ASSUME NEW i \in Scripts
      PROVE  /\ Newest(i)' => Newest(i) /\ stagings[i].key # k
             /\ Newest(i) /\ stagings[i].key # k => Newest(i)'
  BY <1>2, <1>3 DEF Newest
<1>5. ASSUME NEW m, m = n PROVE Newest(m)'
  BY <1>3, <1>5 DEF Newest
<1> QED BY <1>1, <1>2, <1>3, <1>4, <1>5

\* Staging preserves the invariant.
LEMMA StagePreserves ==
    ASSUME TypeOK, IInv, NEW k \in Keys, NEW ttl \in Ttls, StageScript(k, ttl),
           UNCHANGED <<now, callVars>>
    PROVE  IInv'
<1>1. CASE UNCHANGED <<stagings, staged>>
  BY <1>1 DEF IInv, MapInv, ServedInv, ServedOnce, Accounted, LookInv, Scripts,
     LookedUnder, Newest, IsServed, Fresh, callVars
<1>2. CASE ~ UNCHANGED <<stagings, staged>>
  <2> DEFINE n == Len(stagings) + 1
  <2>1. /\ n \in Nat /\ n # 0
        /\ Scripts' = Scripts \union {n}
        /\ \A i \in Scripts : /\ stagings'[i] = stagings[i]
                              /\ i \in Nat /\ i < n
                              /\ Newest(i)' => Newest(i) /\ stagings[i].key # k
                              /\ Newest(i) /\ stagings[i].key # k => Newest(i)'
        /\ stagings'[n].key = k
        /\ \A m : m = n => Newest(m)'
        /\ staged' = [staged EXCEPT ![k] = n]
        /\ Len(stagings') = n
    BY <1>2, StageFacts
  <2>2. /\ UNCHANGED <<now, pc, sid, to, tool, served, arrived>>
        /\ \A i : IsServed(i)' <=> IsServed(i)
    BY DEF callVars, IsServed
  <2>3. \A i \in Scripts : Fresh(i)' <=> Fresh(i)
    BY <2>1, <2>2 DEF Fresh
  <2>4. ~IsServed(n)
    BY <2>1 DEF IsServed, IInv, ServedInv
  <2> HIDE DEF n
  <2>5. MapInv'
    <3> SUFFICES ASSUME NEW q \in Keys, NEW m, m = staged'[q], m # 0
                 PROVE  /\ m \in Scripts'
                        /\ stagings'[m].key = q
                        /\ Newest(m)'
                        /\ ~IsServed(m)'
      BY DEF MapInv, Newest, IsServed
    <3>1. CASE q = k
      <4>1. m = n
        BY <2>1, <3>1 DEF TypeOK
      <4> QED BY <2>1, <2>2, <2>4, <3>1, <4>1
    <3>2. CASE q # k
      <4>1. m = staged[q]
        BY <2>1, <3>2 DEF TypeOK
      <4>2. /\ m \in Scripts
            /\ stagings[m].key = q
            /\ Newest(m)
            /\ ~IsServed(m)
        BY <4>1 DEF IInv, MapInv
      <4> QED BY <2>1, <2>2, <3>2, <4>2
    <3> QED BY <3>1, <3>2
  <2>6. ServedInv'
    <3>1. \A r \in Requests : arrived[r] \in Nat /\ arrived[r] < n /\ n \in Nat
      BY <2>1 DEF IInv, ServedInv, TypeOK, n
    <3> QED BY <2>1, <2>2, <3>1 DEF IInv, ServedInv
  <2>7. ServedOnce'
    BY <2>2 DEF IInv, ServedOnce
  <2>8. Accounted'
    <3>1. \A i \in Scripts : stagings[i].key \in Keys
      BY ScriptTypes
    <3> QED BY <2>1, <2>2, <2>3, <3>1 DEF IInv, Accounted, TypeOK
  <2>9. ASSUME NEW r \in Requests, NEW q, LookedUnder(r, q)
        PROVE  LookedUnder(r, q)'
    <3>1. arrived[r] < n /\ arrived[r] \in Nat
      BY <2>1 DEF IInv, ServedInv, TypeOK, n
    <3> QED BY <2>1, <2>2, <2>3, <2>9, <3>1 DEF LookedUnder
  <2>10. LookInv'
    BY <2>1, <2>2, <2>9 DEF IInv, LookInv, ServedInv
  <2> QED BY <2>5, <2>6, <2>7, <2>8, <2>10 DEF IInv
<1> QED BY <1>1, <1>2

\* Looking under a key preserves the invariant.
LEMMA LookPreserves ==
    ASSUME TypeOK, IInv, NEW r \in Requests, NEW k \in Keys, LookUnder(r, k)
    PROVE  IInv'
<1> DEFINE i == staged[k]
           Taken == i # 0 /\ Fresh(i)
<1>1. /\ UNCHANGED <<now, poisoned, sid, to, tool, stagings, arrived>>
      /\ staged'[k] = 0
      /\ \A q \in Keys \ {k} : staged'[q] = staged[q]
      /\ pc[r] \in {"take_sid", "take_to"}
      /\ pc[r] = "take_sid" => k = sid[r]
      /\ pc[r] = "take_to" => k = to[r]
  BY DEF LookUnder, TakeScript, TypeOK
<1>2. /\ \A q \in Requests \ {r} : served'[q] = served[q] /\ pc'[q] = pc[q]
      /\ Taken => served'[r] = i /\ pc'[r] = "script"
      /\ ~Taken => /\ served'[r] = served[r]
                   /\ pc[r] = "take_sid" => pc'[r] = "take_to"
                   /\ pc[r] = "take_to" => pc'[r] = "tool?"
  BY DEF LookUnder, TakeScript, TypeOK
<1>3. served[r] = 0
  BY <1>1 DEF IInv, ServedInv
<1>4. /\ \A j : j # 0 => (IsServed(j)' <=> IsServed(j) \/ (Taken /\ j = i))
      /\ \A j : (Newest(j)' <=> Newest(j)) /\ (Fresh(j)' <=> Fresh(j))
      /\ Scripts' = Scripts
  BY <1>1, <1>2, <1>3 DEF IsServed, Newest, Fresh, Scripts
<1>5. i # 0 => /\ i \in Scripts /\ stagings[i].key = k
               /\ Newest(i) /\ ~IsServed(i)
  BY DEF IInv, MapInv
<1>6. \A j \in Scripts : stagings[j].key \in Keys /\ j \in Nat /\ j # 0
  <2>1. \A j \in Scripts : j # 0
    BY DEF TypeOK, Scripts
  <2> QED BY <2>1, ScriptTypes
<1> HIDE DEF i, Taken
<1>7. Taken => i # 0 /\ i \in Scripts
  BY <1>5 DEF Taken
<1>8. MapInv'
  BY <1>1, <1>4, <1>5, <1>7 DEF IInv, MapInv
<1>9. ServedInv'
  <2>1. ASSUME NEW q \in Requests, q # r
        PROVE  /\ served'[q] # 0 <=> pc'[q] = "script"
               /\ served'[q] # 0 => /\ served'[q] \in Scripts'
                                    /\ stagings'[served'[q]].key \in {sid'[q], to'[q]}
               /\ arrived'[q] <= Len(stagings')
    BY <1>1, <1>2, <1>4, <2>1 DEF IInv, ServedInv
  <2>2. /\ served'[r] # 0 <=> pc'[r] = "script"
        /\ served'[r] # 0 => /\ served'[r] \in Scripts'
                             /\ stagings'[served'[r]].key \in {sid'[r], to'[r]}
        /\ arrived'[r] <= Len(stagings')
    BY <1>1, <1>2, <1>3, <1>4, <1>5, <1>7 DEF IInv, ServedInv
  <2> QED BY <2>1, <2>2 DEF ServedInv
<1>10. ServedOnce'
  <2>1. ASSUME Taken, NEW q \in Requests PROVE served[q] # i
    BY <1>5, <1>7, <2>1 DEF IsServed
  <2> QED BY <1>2, <1>3, <2>1 DEF IInv, ServedOnce
<1>11. Accounted'
  <2> SUFFICES ASSUME NEW j \in Scripts
               PROVE  \/ staged'[stagings[j].key] = j
                      \/ IsServed(j)'
                      \/ ~Newest(j)
                      \/ ~Fresh(j)
    BY <1>1, <1>4 DEF Accounted
  <2>1. CASE staged[stagings[j].key] = j
    <3>1. CASE stagings[j].key = k
      BY <1>4, <1>6, <2>1, <3>1 DEF i, Taken
    <3>2. CASE stagings[j].key # k
      BY <1>1, <1>6, <2>1, <3>2
    <3> QED BY <3>1, <3>2
  <2>2. CASE staged[stagings[j].key] # j
    BY <1>4, <1>6, <2>2 DEF IInv, Accounted
  <2> QED BY <2>1, <2>2
<1>12. ASSUME NEW q \in Requests, NEW key, LookedUnder(q, key)
       PROVE  LookedUnder(q, key)'
  BY <1>1, <1>4, <1>6, <1>12 DEF LookedUnder
<1>13. LookedUnder(r, k)'
  <2> SUFFICES ASSUME NEW j \in Scripts, stagings[j].key = k, Newest(j), Fresh(j)
               PROVE  IsServed(j)'
    BY <1>1, <1>4 DEF LookedUnder
  <2>1. staged[k] = j \/ IsServed(j)
    BY DEF IInv, Accounted
  <2> QED BY <1>4, <1>6, <2>1 DEF i, Taken
<1>14. LookInv'
  <2>1. ASSUME NEW q \in Requests, q # r
        PROVE  /\ pc'[q] \in {"take_to", "tool?", "await", "tool", "default", "reject"}
                    => LookedUnder(q, sid[q])'
               /\ pc'[q] \in {"tool?", "await", "tool", "default", "reject"}
                    => LookedUnder(q, to[q])'
               /\ pc'[q] = "script" =>
                    /\ LookedUnder(q, sid[q])'
                    /\ \/ LookedUnder(q, to[q])'
                       \/ stagings'[served'[q]].key = sid'[q]
    <3>1. pc'[q] = pc[q] /\ served'[q] = served[q]
      BY <1>2, <2>1
    <3>2. /\ LookedUnder(q, sid[q]) => LookedUnder(q, sid[q])'
          /\ LookedUnder(q, to[q]) => LookedUnder(q, to[q])'
      BY <1>1, <1>12
    <3> QED BY <1>1, <3>1, <3>2 DEF IInv, LookInv
  <2>2. CASE pc[r] = "take_sid"
    <3>1. LookedUnder(r, sid[r])'
      BY <1>1, <1>13, <2>2
    <3>2. Taken => stagings'[served'[r]].key = sid'[r]
      BY <1>1, <1>2, <1>5, <1>7, <2>2
    <3> QED BY <1>2, <2>1, <2>2, <3>1, <3>2 DEF LookInv
  <2>3. CASE pc[r] = "take_to"
    <3>1. LookedUnder(r, to[r])'
      BY <1>1, <1>13, <2>3
    <3>2. LookedUnder(r, sid[r])'
      BY <1>1, <1>12, <2>3 DEF IInv, LookInv
    <3> QED BY <1>2, <2>1, <2>3, <3>1, <3>2 DEF LookInv
  <2> QED BY <1>1, <2>2, <2>3
<1> QED BY <1>8, <1>9, <1>10, <1>11, <1>14 DEF IInv

\* The other steps of a request only move it on.
LEMMA QuietPreserves ==
    ASSUME TypeOK, IInv, NEW r \in Requests, Quiet(r)
    PROVE  IInv'
<1>1. UNCHANGED <<now, staged, stagings, served>>
  BY DEF Quiet, RecordEvent, Notify, Skip, InvokeTool, ToolTimeout,
     PanicOnLock, Panic, HandlerTool, ToolAnswers, ToolEndsLate
<1>2. /\ \A q \in Requests \ {r} : /\ pc'[q] = pc[q] /\ sid'[q] = sid[q]
                                   /\ to'[q] = to[q] /\ arrived'[q] = arrived[q]
      /\ \/ pc[r] = "record" /\ pc'[r] = "notify" /\ arrived'[r] = Len(stagings)
         \/ /\ sid'[r] = sid[r] /\ to'[r] = to[r] /\ arrived'[r] = arrived[r]
            /\ \/ pc[r] = "notify" /\ pc'[r] = "take_sid"
               \/ pc[r] = "take_sid" /\ sid[r] = None /\ pc'[r] = "take_to"
               \/ pc[r] = "take_to" /\ to[r] = None /\ pc'[r] = "tool?"
               \/ /\ pc[r] \in {"tool?", "await"}
                  /\ pc'[r] \in {"await", "tool", "default", "reject"}
               \/ pc[r] # "script" /\ pc'[r] = "panicked"
               \/ pc'[r] = pc[r]
  BY DEF Quiet, RecordEvent, Notify, Skip, InvokeTool, ToolTimeout,
     PanicOnLock, Panic, HandlerTool, ToolAnswers, ToolEndsLate, TypeOK, Fallback
<1>3. /\ Scripts' = Scripts
      /\ \A i : /\ Newest(i)' <=> Newest(i)
                /\ Fresh(i)' <=> Fresh(i)
                /\ IsServed(i)' <=> IsServed(i)
  BY <1>1 DEF Scripts, Newest, Fresh, IsServed
<1>4. MapInv' /\ ServedOnce' /\ Accounted'
  BY <1>1, <1>3 DEF IInv, MapInv, ServedOnce, Accounted
<1>5. ServedInv'
  <2>1. Len(stagings) \in Nat
    BY DEF TypeOK
  <2> QED BY <1>1, <1>2, <1>3, <2>1 DEF IInv, ServedInv
<1>6. \A q \in Requests : \A k :
        arrived'[q] = arrived[q] /\ LookedUnder(q, k) => LookedUnder(q, k)'
  BY <1>1, <1>3 DEF LookedUnder
<1>7. \A q \in Requests : LookedUnder(q, None)
  BY ScriptTypes, KeyAssumption DEF LookedUnder
<1>8. LookInv'
  BY <1>1, <1>2, <1>6, <1>7 DEF IInv, LookInv
<1> QED BY <1>4, <1>5, <1>8 DEF IInv

\* Time only takes scripts away.
LEMMA TickPreserves ==
    ASSUME TypeOK, IInv, Tick
    PROVE  IInv'
<1>1. UNCHANGED <<staged, stagings, pc, sid, to, served, arrived>>
  BY DEF Tick, callVars
<1>2. \A i \in Scripts : Fresh(i)' => Fresh(i)
  BY ScriptTypes DEF Tick, Fresh, TypeOK
<1>3. /\ Scripts' = Scripts
      /\ \A i : (Newest(i)' <=> Newest(i)) /\ (IsServed(i)' <=> IsServed(i))
  BY <1>1 DEF Scripts, Newest, IsServed
<1>4. MapInv' /\ ServedOnce' /\ ServedInv'
  BY <1>1, <1>3 DEF IInv, MapInv, ServedOnce, ServedInv
<1>5. Accounted'
  BY <1>1, <1>2, <1>3 DEF IInv, Accounted
<1>6. \A q \in Requests : \A k : LookedUnder(q, k) => LookedUnder(q, k)'
  BY <1>1, <1>2, <1>3 DEF LookedUnder
<1>7. LookInv'
  BY <1>1, <1>6 DEF IInv, LookInv
<1> QED BY <1>4, <1>5, <1>7 DEF IInv

\* The inductive invariant.
THEOREM Invariance == Spec => []IInv
<1>1. Init => IInv
  <2> SUFFICES ASSUME Init PROVE IInv
    OBVIOUS
  <2>1. Scripts = {} /\ Len(stagings) = 0
    BY DEF Init, Scripts
  <2> QED
    BY <2>1 DEF Init, IInv, MapInv, ServedInv, ServedOnce, Accounted, LookInv
<1>2. TypeOK /\ IInv /\ [Next]_vars => IInv'
  <2> SUFFICES ASSUME TypeOK, IInv, [Next]_vars PROVE IInv'
    OBVIOUS
  <2>1. CASE UNCHANGED vars
    BY <2>1 DEF vars, IInv, MapInv, ServedInv, ServedOnce, Accounted, LookInv,
       LookedUnder, Scripts, Newest, IsServed, Fresh
  <2> QED
    BY <2>1, StepCases, StagePreserves, LookPreserves, QuietPreserves,
       TickPreserves
<1> QED BY <1>1, <1>2, TypeCorrect, PTL DEF Spec

\* A script answers at most one request.
THEOREM AtMostOnce == Spec => []ServedOnce
BY Invariance, PTL DEF IInv

\* Every script is filed, served, replaced or expired.
THEOREM NothingMislaid == Spec => []Accounted
BY Invariance, PTL DEF IInv

\* A script staged before its call came is served to it, or to another.
THEOREM StagedIsServed == Spec => []StageThenCall
<1>1. IInv /\ TypeOK => StageThenCall
  BY DEF IInv, LookInv, StageThenCall, Answered, Replies
<1> QED BY <1>1, Invariance, TypeCorrect, PTL

\* What is served is the newest script of its key and has not expired.
THEOREM NewestServed == Spec => ServesNewest
<1>1. TypeOK /\ IInv /\ [Next]_vars =>
        [\A r \in Requests : served'[r] # served[r] =>
           Newest(served'[r]) /\ Fresh(served'[r])]_vars
  <2> SUFFICES ASSUME TypeOK, IInv, [Next]_vars, NEW r \in Requests,
                      NEW i, i = served'[r], i # served[r]
               PROVE  Newest(i) /\ Fresh(i)
    BY DEF Newest, Fresh
  <2>1. PICK q \in Requests, k \in Keys : LookUnder(q, k)
    BY StepCases DEF callVars, vars, Tick, Quiet, RecordEvent, Notify, Skip,
       InvokeTool, ToolTimeout, PanicOnLock, Panic, HandlerTool, ToolAnswers,
       ToolEndsLate
  <2>2. i = staged[k] /\ i # 0 /\ Fresh(i)
    BY <2>1 DEF LookUnder, TakeScript, TypeOK
  <2> QED BY <2>2 DEF IInv, MapInv
<1> QED BY <1>1, TypeCorrect, Invariance, PTL DEF Spec, ServesNewest

-----------------------------------------------------------------------------
\* Staging files a script in the abstract life, or changes nothing of it.
LEMMA StageRefines ==
    ASSUME TypeOK, IInv, NEW k \in Keys, NEW ttl \in Ttls, StageScript(k, ttl),
           UNCHANGED <<now, callVars>>, ~ UNCHANGED <<stagings, staged>>
    PROVE  ScriptLives!File(k, ttl)
<1> DEFINE n == Len(stagings) + 1
<1>1. /\ n \in Nat /\ n # 0
      /\ Scripts' = Scripts \union {n}
      /\ \A i \in Scripts : stagings'[i] = stagings[i] /\ i \in Nat /\ i < n
      /\ stagings'[n].key = k
      /\ staged' = [staged EXCEPT ![k] = n]
  BY StageFacts
<1>2. stagings' = Append(stagings, [key |-> k, expires_at |-> now + ttl])
  BY DEF StageScript
<1>3. UNCHANGED <<now, served>> /\ \A i : IsServed(i)' <=> IsServed(i)
  BY DEF callVars, IsServed
<1>4. ASSUME NEW i \in Scripts
      PROVE  Life(i)' = IF stagings[i].key = k /\ Life(i) = "open" THEN "gone"
                        ELSE Life(i)
  <2>1. stagings[i].key \in Keys /\ i # 0
    BY <1>1, ScriptTypes DEF Scripts, TypeOK
  <2>2. CASE stagings[i].key = k
    <3>1. staged'[stagings[i].key] # i
      BY <1>1, <2>2 DEF TypeOK
    <3>2. staged[k] = i => ~IsServed(i)
      BY <2>1 DEF IInv, MapInv
    <3> QED BY <1>1, <1>3, <2>2, <3>1, <3>2 DEF Life
  <2>3. CASE stagings[i].key # k
    <3>1. staged'[stagings[i].key] = staged[stagings[i].key]
      BY <1>1, <2>1, <2>3 DEF TypeOK
    <3> QED BY <1>1, <1>3, <2>3, <3>1 DEF Life
  <2> QED BY <2>2, <2>3
<1>5. ASSUME NEW m, m = n PROVE Life(m)' = "open"
  BY <1>1, <1>5 DEF Life, TypeOK
<1>6. Scripts = 1..Len(stagings) /\ Scripts' = 1..n /\ n \notin Scripts
  BY <1>1 DEF Scripts, TypeOK
<1> HIDE DEF n
<1>7. [i \in Scripts |-> Life(i)]' =
        [i \in 1..n |->
           IF i = n THEN "open"
           ELSE IF stagings[i].key = k /\ [j \in Scripts |-> Life(j)][i] = "open"
                THEN "gone"
           ELSE [j \in Scripts |-> Life(j)][i]]
  BY <1>1, <1>4, <1>5, <1>6
<1> QED BY <1>2, <1>3, <1>7 DEF ScriptLives!File, n

\* A look serves the script filed there, finds it expired, or finds none.
LEMMA LookRefines ==
    ASSUME TypeOK, IInv, NEW r \in Requests, NEW k \in Keys, LookUnder(r, k)
    PROVE  \/ \E i \in Scripts : ScriptLives!Serve(i) \/ ScriptLives!Expire(i)
           \/ UNCHANGED ScriptLives!lifeVars
<1> DEFINE i == staged[k]
<1>1. /\ UNCHANGED <<now, stagings>>
      /\ staged' = [staged EXCEPT ![k] = 0]
      /\ served[r] = 0
      /\ i # 0 /\ Fresh(i) => served' = [served EXCEPT ![r] = i]
      /\ ~(i # 0 /\ Fresh(i)) => served' = served
  BY DEF LookUnder, TakeScript, IInv, ServedInv
<1>2. i # 0 => i \in Scripts /\ stagings[i].key = k /\ ~IsServed(i)
  BY DEF IInv, MapInv
<1>3. \A j \in Scripts : /\ stagings[j].key \in Keys /\ j # 0
                         /\ stagings[j].expires_at \in Nat
  BY ScriptTypes DEF Scripts, TypeOK
<1>4. ASSUME NEW j \in Scripts
      PROVE  staged'[stagings[j].key] = j
               <=> staged[stagings[j].key] = j /\ j # i
  BY <1>1, <1>2, <1>3 DEF TypeOK
<1>5. ASSUME NEW j \in Scripts
      PROVE  IsServed(j)' <=> IsServed(j) \/ (j = i /\ Fresh(i))
  BY <1>1, <1>3 DEF IsServed, TypeOK
<1>6. Scripts' = Scripts /\ stagings' = stagings /\ now' = now
  BY <1>1 DEF Scripts
<1>7. i # 0 => Life(i) = "open"
  BY <1>2 DEF Life
<1> HIDE DEF i
<1>8. ASSUME NEW j \in Scripts, j # i PROVE Life(j)' = Life(j)
  BY <1>4, <1>5, <1>6, <1>8 DEF Life
<1>9. CASE i = 0
  <2>1. [j \in Scripts |-> Life(j)]' = [j \in Scripts |-> Life(j)]
    BY <1>3, <1>6, <1>8, <1>9
  <2> QED BY <1>6, <2>1 DEF ScriptLives!lifeVars
<1>10. CASE i # 0 /\ Fresh(i)
  <2>1. ASSUME NEW m, m = i PROVE Life(m)' = "served"
    BY <1>2, <1>4, <1>5, <1>6, <1>10, <2>1 DEF Life
  <2>2. [j \in Scripts |-> Life(j)]' = [[j \in Scripts |-> Life(j)] EXCEPT ![i] = "served"]
    BY <1>2, <1>6, <1>8, <1>10, <2>1
  <2>3. ScriptLives!Serve(i)
    BY <1>2, <1>6, <1>7, <1>10, <2>2 DEF ScriptLives!Serve, Fresh
  <2> QED BY <1>2, <1>10, <2>3
<1>11. CASE i # 0 /\ ~Fresh(i)
  <2>1. ASSUME NEW m, m = i PROVE Life(m)' = "gone"
    BY <1>2, <1>4, <1>5, <1>6, <1>11, <2>1 DEF Life
  <2>2. [j \in Scripts |-> Life(j)]' = [[j \in Scripts |-> Life(j)] EXCEPT ![i] = "gone"]
    BY <1>2, <1>6, <1>8, <1>11, <2>1
  <2>3. ScriptLives!Expire(i)
    BY <1>2, <1>3, <1>6, <1>7, <1>11, <2>2 DEF ScriptLives!Expire, Fresh, TypeOK
  <2> QED BY <1>2, <1>11, <2>3
<1> QED BY <1>9, <1>10, <1>11

\* The map and the webhook refine the life of a staged script.
THEOREM Refinement == Spec => ImplementsLife
<1>1. Init => ScriptLives!LifeInit
  BY DEF Init, ScriptLives!LifeInit, Scripts
<1>2. TypeOK /\ IInv /\ [Next]_vars =>
        [ScriptLives!LifeNext]_(ScriptLives!lifeVars)
  <2> SUFFICES ASSUME TypeOK, IInv, [Next]_vars
               PROVE  [ScriptLives!LifeNext]_(ScriptLives!lifeVars)
    OBVIOUS
  <2>1. ASSUME UNCHANGED <<staged, stagings, served>>
        PROVE  UNCHANGED <<stagings, [i \in Scripts |-> Life(i)]>>
    BY <2>1 DEF Scripts, Life, IsServed
  <2>2. ASSUME NEW k \in Keys, NEW ttl \in Ttls, StageScript(k, ttl),
               UNCHANGED <<now, callVars>>
        PROVE  [ScriptLives!LifeNext]_(ScriptLives!lifeVars)
    <3>1. CASE UNCHANGED <<stagings, staged>>
      BY <2>1, <2>2, <3>1 DEF ScriptLives!lifeVars, callVars
    <3>2. CASE ~ UNCHANGED <<stagings, staged>>
      BY <2>2, <3>2, StageRefines DEF ScriptLives!LifeNext
    <3> QED BY <3>1, <3>2
  <2>3. ASSUME NEW r \in Requests, NEW k \in Keys, LookUnder(r, k)
        PROVE  [ScriptLives!LifeNext]_(ScriptLives!lifeVars)
    BY <2>3, LookRefines DEF ScriptLives!LifeNext, Scripts
  <2>4. ASSUME NEW r \in Requests, Quiet(r)
        PROVE  [ScriptLives!LifeNext]_(ScriptLives!lifeVars)
    <3>1. UNCHANGED <<now, staged, stagings, served>>
      BY <2>4 DEF Quiet, RecordEvent, Notify, Skip, InvokeTool, ToolTimeout,
         PanicOnLock, Panic, HandlerTool, ToolAnswers, ToolEndsLate
    <3> QED BY <2>1, <3>1 DEF ScriptLives!lifeVars
  <2>5. CASE Tick
    <3>1. ScriptLives!Pass
      BY <2>1, <2>5 DEF Tick, callVars, ScriptLives!Pass
    <3> QED BY <3>1 DEF ScriptLives!LifeNext
  <2>6. CASE UNCHANGED vars
    BY <2>1, <2>6 DEF vars, ScriptLives!lifeVars
  <2> QED BY <2>2, <2>3, <2>4, <2>5, <2>6, StepCases
<1> QED
  BY <1>1, <1>2, TypeCorrect, Invariance, PTL
  DEF Spec, ImplementsLife, ScriptLives!LifeSpec
=============================================================================
