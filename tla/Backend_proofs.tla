---------------------------- MODULE Backend_proofs ----------------------------
(***************************************************************************)
(* Proofs about Backend, for any calls, names, specifications and          *)
(* arguments.                                                              *)
(***************************************************************************)
EXTENDS Backend, TLAPS

Pending == {"called", "dispatch", "page", "rest", "shape"}

OnItsWay(c) == pc[c] = "rest" /\ via[c] = "execute"

\* The actions of one call, grouped by what they disturb.
Ends(c, o) ==
    /\ pc[c] \in Pending
    /\ o \in Results /\ o # "none"
    /\ pc[c] = "called" => o = "ProfileNotFound" /\ profiles[name[c]] = 0
    /\ pc[c] # "called" => o # "ProfileNotFound"
    /\ pc[c] = "shape" => o = "Ok" \/ /\ Held(c).surface = "resource"
                                      /\ ResolveUri(Held(c), args[c]) = None
    /\ pc[c] \in {"rest", "dispatch"} /\ via[c] = "execute" => o # "Ok"
    /\ Return(c, o)
    /\ \/ told' = told /\ ~OnItsWay(c)
       \/ told' = [told EXCEPT ![c] = "refused"] /\ OnItsWay(c) /\ effects[c] = {}
       \/ told' = [told EXCEPT ![c] = "failed"] /\ OnItsWay(c)
    /\ UNCHANGED <<Settled, profile, sender, done, effects>>

CarriedOut(c) ==
    /\ via[c] = "execute"
    /\ pc' = [pc EXCEPT ![c] = "shape"]
    /\ \/ /\ pc[c] = "dispatch"
          /\ done' = [done EXCEPT ![c] = TRUE]
          /\ told' = told
       \/ /\ OnItsWay(c) /\ effects[c] # {}
          /\ told' = [told EXCEPT ![c] = "done"]
          /\ done' = done
    /\ UNCHANGED <<Settled, profile, sender, result, effects>>

Asks(c) ==
    /\ \/ /\ pc[c] = "dispatch" /\ via[c] = "execute"
          /\ told' = [told EXCEPT ![c] = "open"]
       \/ pc[c] = "page" /\ via[c] # "execute" /\ told' = told
    /\ pc' = [pc EXCEPT ![c] = "rest"]
    /\ UNCHANGED <<Settled, profile, result, done, effects>>
    /\ DOMAIN sender' = DOMAIN sender

\* Every step of a call is one of four.
LEMMA StepCases ==
    ASSUME TypeOK, CallInv, NEW c \in Calls, Execute(c)
    PROVE  \/ \E o \in Results : Ends(c, o)
           \/ Found(c) \/ CarriedOut(c) \/ Asks(c)
<1> USE DEF Pending, Results, OnItsWay, deeds
<1>1. ASSUME Missing(c) PROVE Ends(c, "ProfileNotFound")
  BY <1>1 DEF Missing, Ends
<1>2. ASSUME Refuse(c) PROVE Ends(c, "ToolError")
  BY <1>2 DEF Refuse, Ends
<1>3. ASSUME RunLocal(c) PROVE CarriedOut(c)
  BY <1>3 DEF RunLocal, CarriedOut, CallInv
<1>4. ASSUME SendRequest(c) PROVE Asks(c)
  BY <1>4 DEF SendRequest, Asks, TypeOK, CallInv, Once!Issue
<1>5. ASSUME RestOk(c) PROVE CarriedOut(c)
  BY <1>5 DEF RestOk, CarriedOut, Once!Succeed
<1>6. ASSUME RestError(c) PROVE Ends(c, "ToolError") \/ Ends(c, "BackendError")
  BY <1>6 DEF RestError, Ends, Once!Refuse, Once!Fail
<1>7. ASSUME Shape(c) PROVE Ends(c, "ToolError") \/ Ends(c, "Ok")
  BY <1>7 DEF Shape, Ends
<1>8. ASSUME EmptyPage(c) PROVE Ends(c, "Ok")
  BY <1>8, Zenon DEF EmptyPage, Ends
<1>9. ASSUME FetchPage(c) PROVE Asks(c)
  BY <1>9 DEF FetchPage, Asks, CallInv
<1>10. ASSUME PageAnswer(c) PROVE Ends(c, "Ok") \/ Ends(c, "BackendError")
  BY <1>10 DEF PageAnswer, Ends
<1> QED
  BY <1>1, <1>2, <1>3, <1>4, <1>5, <1>6, <1>7, <1>8, <1>9, <1>10, Zenon
  DEF Execute

-----------------------------------------------------------------------------
\* One more registration: the others stay where they are.
LEMMA Appended ==
    ASSUME TypeOK, NEW n \in Names, NEW s \in Specs, RegisterProfile(n, s)
    PROVE  LET m == Len(registrations) + 1 IN
           /\ registrations' \in Seq([name : Names, spec : Specs])
           /\ Len(registrations') = m
           /\ Registered' = Registered \cup {m}
           /\ m \notin Registered
           /\ m \in Nat \ {0}
           /\ \A i \in Registered : i \in Nat /\ i < m
           /\ registrations'[m] = [name |-> n, spec |-> s]
           /\ \A i \in Registered : registrations'[i] = registrations[i]
<1> DEFINE m == Len(registrations) + 1
           r == [name |-> n, spec |-> s]
<1>1. registrations \in Seq([name : Names, spec : Specs])
  BY DEF TypeOK
<1>2. r \in [name : Names, spec : Specs]
  OBVIOUS
<1>3. registrations' = Append(registrations, r)
  BY DEF RegisterProfile
<1>4. Registered = 1..Len(registrations) /\ Len(registrations) \in Nat
  BY <1>1 DEF Registered
<1> HIDE DEF r
<1>5. /\ registrations' \in Seq([name : Names, spec : Specs])
      /\ Len(registrations') = m
      /\ registrations'[m] = r
      /\ \A i \in 1..Len(registrations) : registrations'[i] = registrations[i]
  BY <1>1, <1>2, <1>3
<1>6. Registered' = 1..m
  BY <1>5 DEF Registered
<1> QED BY <1>4, <1>5, <1>6 DEF r

\* What an entry of the log is.
LEMMA Entry ==
    ASSUME TypeOK, NEW i \in Registered
    PROVE  /\ i \in 1..Len(registrations)
           /\ registrations[i].name \in Names
           /\ registrations[i].spec \in Specs
<1> DEFINE E == [name : Names, spec : Specs]
<1>1. registrations \in Seq(E)
  BY DEF TypeOK
<1> HIDE DEF E
<1>2. i \in 1..Len(registrations) /\ registrations[i] \in E
  BY <1>1 DEF Registered
<1>3. registrations[i].name \in Names /\ registrations[i].spec \in Specs
  BY <1>2 DEF E
<1> QED BY <1>2, <1>3

\* What is registered, and holds of it, is not disturbed by a call.
LEMMA NothingRegistered ==
    ASSUME registrations' = registrations
    PROVE  Registered' = Registered
BY DEF Registered

-----------------------------------------------------------------------------
\* The steps of a call leave the map alone.
Quiet == profiles' = profiles /\ registrations' = registrations

LEMMA CallsAreQuiet ==
    ASSUME NEW c \in Calls
    PROVE  /\ \A n, a, how : Call(c, how, n, a) => Quiet
           /\ \A o : Ends(c, o) => Quiet
           /\ Found(c) => Quiet
           /\ CarriedOut(c) => Quiet
           /\ Asks(c) => Quiet
           /\ Effect(c) => Quiet
BY Zenon DEF Call, Ends, Found, CarriedOut, Asks, Effect, Settled, Quiet

LEMMA TypeRegister ==
    ASSUME TypeOK, NEW n \in Names, NEW s \in Specs, RegisterProfile(n, s)
    PROVE  TypeOK'
<1> DEFINE m == Len(registrations) + 1
<1>1. /\ registrations' \in Seq([name : Names, spec : Specs])
      /\ Registered \subseteq Registered'
      /\ m \in Nat
  BY Appended
<1>2. profiles' \in [Names -> Nat]
  BY <1>1 DEF RegisterProfile, TypeOK
<1> QED BY <1>1, <1>2 DEF TypeOK, RegisterProfile, callVars, deeds

LEMMA TypeStep ==
    ASSUME TypeOK, MapInv, CallInv, NEW c \in Calls,
           \/ \E n \in Names, a \in Args,
                 how \in {"execute", "list_resources", "complete"} : Call(c, how, n, a)
           \/ \E o \in Results : Ends(c, o)
           \/ Found(c) \/ CarriedOut(c) \/ Asks(c) \/ Effect(c)
    PROVE  TypeOK'
<1>1. CASE \E n \in Names, a \in Args,
              how \in {"execute", "list_resources", "complete"} : Call(c, how, n, a)
  <2>1. Len(registrations) \in Nat
    BY DEF TypeOK
  <2> QED BY <1>1, <2>1, NothingRegistered DEF TypeOK, Call, deeds
<1>2. CASE \E o \in Results : Ends(c, o)
  <2>1. PICK o \in Results : Ends(c, o)
    BY <1>2
  <2>2. /\ pc[c] # "idle"
        /\ pc' = [pc EXCEPT ![c] = "returned"]
        /\ result' = [result EXCEPT ![c] = o]
        /\ \/ told' = told
           \/ \E t \in {"refused", "failed"} : told' = [told EXCEPT ![c] = t]
        /\ UNCHANGED <<profiles, registrations, via, name, args, since, profile,
                       sender, done, effects>>
    BY <2>1 DEF Ends, Return, Settled, Pending
  <2> QED BY <2>2, NothingRegistered DEF TypeOK
<1>3. CASE Found(c)
  <2>1. name[c] \in Names /\ profiles[name[c]] \in Registered
    BY <1>3 DEF TypeOK, MapInv, Found
  <2>2. name[c] \in Names /\ args[c] \in Args /\ profiles[name[c]] \in Nat
    BY <1>3, <2>1 DEF TypeOK, Found
  <2>3. /\ Registered' = Registered
        /\ profile' = [profile EXCEPT ![c] = profiles[name[c]]]
        /\ pc' = [pc EXCEPT ![c] = IF via[c] = "execute" THEN "dispatch" ELSE "page"]
        /\ UNCHANGED <<profiles, registrations, via, name, args, since, sender,
                       result, deeds>>
    BY <1>3, NothingRegistered DEF Found, Settled
  <2> QED BY <2>1, <2>2, <2>3 DEF TypeOK, deeds
<1>4. CASE CarriedOut(c)
  <2>1. /\ pc[c] # "idle" /\ pc[c] \in {"dispatch", "rest"}
        /\ pc' = [pc EXCEPT ![c] = "shape"]
        /\ done' = [done EXCEPT ![c] = TRUE] \/ done' = done
        /\ told' = [told EXCEPT ![c] = "done"] \/ told' = told
        /\ UNCHANGED <<profiles, registrations, via, name, args, since, profile,
                       sender, result, effects>>
    BY <1>4 DEF CarriedOut, Settled, OnItsWay
  <2> QED BY <2>1, NothingRegistered DEF TypeOK
<1>5. CASE Asks(c)
  BY <1>5, NothingRegistered DEF TypeOK, Asks, Settled
<1>6. CASE Effect(c)
  <2>1. PICK t \in Tries : effects' = [effects EXCEPT ![c] = @ \union {t}]
    BY <1>6 DEF Effect, Once!Effect
  <2>2. UNCHANGED <<Settled, pc, profile, sender, result, done, told>>
    BY <1>6 DEF Effect, Once!Effect
  <2> QED BY <2>1, <2>2, NothingRegistered DEF TypeOK, Settled
<1> QED BY <1>1, <1>2, <1>3, <1>4, <1>5, <1>6

-----------------------------------------------------------------------------
LEMMA MapRegister ==
    ASSUME TypeOK, MapInv, OnlyValid,
           NEW n \in Names, NEW s \in Specs, RegisterProfile(n, s)
    PROVE  MapInv' /\ OnlyValid'
<1> DEFINE m == Len(registrations) + 1
<1>1. /\ Registered' = Registered \cup {m}
      /\ m \in Nat \ {0}
      /\ \A i \in Registered : i \in Nat /\ i < m
      /\ registrations'[m] = [name |-> n, spec |-> s]
      /\ \A i \in Registered : registrations'[i] = registrations[i]
  BY Appended
<1> HIDE DEF m
<1>2. /\ profiles' = [profiles EXCEPT ![n] = m]
      /\ profiles \in [Names -> Nat]
  BY DEF RegisterProfile, TypeOK, m
<1>3. \A k \in Names : profiles'[k] # 0 =>
          profiles'[k] \in Registered' /\ registrations'[profiles'[k]].name = k
  <2> SUFFICES ASSUME NEW k \in Names, profiles'[k] # 0
               PROVE  profiles'[k] \in Registered'
                      /\ registrations'[profiles'[k]].name = k
    OBVIOUS
  <2>1. CASE k = n
    BY <1>1, <1>2, <2>1
  <2>2. CASE k # n
    <3>1. profiles'[k] = profiles[k]
      BY <1>2, <2>2
    <3>2. profiles[k] \in Registered /\ registrations[profiles[k]].name = k
      BY <3>1 DEF MapInv
    <3> QED BY <1>1, <3>1, <3>2
  <2> QED BY <2>1, <2>2
<1>4. \A i \in Registered' : i <= profiles'[registrations'[i].name]
  <2> SUFFICES ASSUME NEW i \in Registered'
               PROVE  i <= profiles'[registrations'[i].name]
    OBVIOUS
  <2>1. CASE i = m
    BY <1>1, <1>2, <2>1
  <2>2. CASE i \in Registered
    <3>1. registrations'[i] = registrations[i] /\ i < m /\ i \in Nat
      BY <1>1, <2>2
    <3>2. registrations[i].name \in Names /\ i <= profiles[registrations[i].name]
      BY <2>2, Entry DEF MapInv
    <3> QED BY <1>1, <1>2, <3>1, <3>2
  <2> QED BY <1>1, <2>1, <2>2
<1>5. Valid(s)
  BY DEF RegisterProfile
<1>6. \A i \in Registered' : Valid(registrations'[i].spec)
  <2> SUFFICES ASSUME NEW i \in Registered' PROVE Valid(registrations'[i].spec)
    OBVIOUS
  <2>1. CASE i = m
    <3>1. registrations'[i].spec = s
      BY <1>1, <2>1
    <3> QED BY <1>5, <3>1
  <2>2. CASE i \in Registered
    <3>1. registrations'[i] = registrations[i] /\ Valid(registrations[i].spec)
      BY <1>1, <2>2 DEF OnlyValid
    <3> QED BY <3>1
  <2> QED BY <1>1, <2>1, <2>2
<1> QED BY <1>3, <1>4, <1>6 DEF MapInv, OnlyValid

LEMMA MapQuiet ==
    ASSUME MapInv, OnlyValid, Quiet
    PROVE  MapInv' /\ OnlyValid'
<1>1. Registered' = Registered
  BY NothingRegistered DEF Quiet
<1>2. MapInv'
  BY <1>1 DEF MapInv, Quiet
<1>3. OnlyValid'
  BY <1>1 DEF OnlyValid, Quiet
<1> QED BY <1>2, <1>3

-----------------------------------------------------------------------------
\* What is known of calls.
CallsInv == CallInv /\ DeedInv /\ NoStaleProfile /\ NotFoundMeansNever /\ ReportedTruly

LEMMA CallsRegister ==
    ASSUME TypeOK, CallsInv, NEW n \in Names, NEW s \in Specs, RegisterProfile(n, s)
    PROVE  CallsInv'
<1> DEFINE m == Len(registrations) + 1
<1>1. /\ Registered' = Registered \cup {m}
      /\ Len(registrations') = m
      /\ m \in Nat \ {0}
      /\ \A i \in Registered : i \in Nat /\ i < m
      /\ \A i \in Registered : registrations'[i] = registrations[i]
  BY Appended
<1> HIDE DEF m
<1>2. /\ UNCHANGED <<pc, via, name, args, profile, sender, result, since, deeds>>
      /\ Len(registrations) \in Nat /\ m = Len(registrations) + 1
  BY DEF RegisterProfile, callVars, TypeOK, m
<1>3. \A c \in Calls : since[c] \in Nat /\ since[c] < m
  BY <1>2 DEF TypeOK, CallsInv, CallInv
<1>4. \A c \in Calls : profile[c] # 0 => /\ profile[c] \in Registered
                                         /\ Held(c)' = Held(c)
  <2> SUFFICES ASSUME NEW c \in Calls, profile[c] # 0
               PROVE  profile[c] \in Registered /\ Held(c)' = Held(c)
    OBVIOUS
  <2>1. profile[c] \in Registered
    BY DEF CallsInv, CallInv
  <2> QED BY <1>1, <1>2, <2>1 DEF Held
<1>5. CallInv' /\ DeedInv'
  BY <1>1, <1>2, <1>3 DEF CallsInv, CallInv, DeedInv, deeds
<1>6. NoStaleProfile'
  <2> SUFFICES ASSUME NEW c \in Calls, profile'[c] # 0
               PROVE  /\ registrations'[profile'[c]].name = name'[c]
                      /\ \A i \in Registered' :
                             i <= since'[c] /\ registrations'[i].name = name'[c]
                             => i <= profile'[c]
    BY DEF NoStaleProfile
  <2>1. /\ profile'[c] = profile[c] /\ name'[c] = name[c] /\ since'[c] = since[c]
        /\ profile[c] \in Registered
    BY <1>2, <1>4
  <2>2. registrations'[profile'[c]].name = name'[c]
    BY <1>1, <2>1 DEF CallsInv, NoStaleProfile
  <2>3. ASSUME NEW i \in Registered', i <= since[c], registrations'[i].name = name[c]
        PROVE  i <= profile[c]
    <3>1. i \in Registered
      BY <1>1, <1>3, <2>3
    <3> QED BY <1>1, <2>1, <2>3, <3>1 DEF CallsInv, NoStaleProfile
  <2> QED BY <2>1, <2>2, <2>3
<1>7. NotFoundMeansNever'
  <2> SUFFICES ASSUME NEW c \in Calls, result[c] = "ProfileNotFound",
                      NEW i \in Registered', i <= since[c]
               PROVE  registrations'[i].name # name[c]
    BY <1>2 DEF NotFoundMeansNever
  <2>1. i \in Registered
    BY <1>1, <1>3
  <2> QED BY <1>1, <2>1 DEF CallsInv, NotFoundMeansNever
<1>8. ReportedTruly'
  <2> SUFFICES ASSUME NEW c \in Calls, via[c] = "execute", pc[c] = "returned"
               PROVE  /\ result[c] = "Ok" => Done(c)
                      /\ Done(c) /\ result[c] # "Ok" =>
                             \/ told[c] = "failed"
                             \/ /\ (Held(c)').surface = "resource"
                                /\ (Held(c)').uri = None /\ args[c].uri = None
    BY <1>2 DEF ReportedTruly, Done, deeds
  <2>1. Done(c) => Held(c)' = Held(c)
    BY <1>4 DEF CallsInv, CallInv, DeedInv, Done, TypeOK
  <2> QED BY <2>1 DEF CallsInv, ReportedTruly
<1> QED BY <1>5, <1>6, <1>7, <1>8 DEF CallsInv

LEMMA CallsCall ==
    ASSUME TypeOK, CallsInv, NEW c \in Calls, NEW n \in Names, NEW a \in Args,
           NEW how \in {"execute", "list_resources", "complete"}, Call(c, how, n, a)
    PROVE  CallsInv'
<1>1. /\ pc[c] = "idle"
      /\ pc' = [pc EXCEPT ![c] = "called"]
      /\ via' = [via EXCEPT ![c] = how]
      /\ name' = [name EXCEPT ![c] = n]
      /\ args' = [args EXCEPT ![c] = a]
      /\ since' = [since EXCEPT ![c] = Len(registrations)]
      /\ UNCHANGED <<profile, sender, result, registrations, done, told, effects>>
      /\ Registered' = Registered
      /\ Len(registrations) \in Nat
  BY NothingRegistered DEF Call, TypeOK, deeds
<1>2. profile[c] = 0 /\ result[c] = "none" /\ ~done[c] /\ told[c] = "idle"
  BY <1>1 DEF CallsInv, CallInv, DeedInv, TypeOK
<1>3. CallInv' /\ DeedInv'
  BY <1>1, <1>2 DEF CallsInv, CallInv, DeedInv, TypeOK
<1>4. NoStaleProfile'
  BY <1>1, <1>2 DEF CallsInv, NoStaleProfile, TypeOK
<1>5. NotFoundMeansNever'
  BY <1>1, <1>2 DEF CallsInv, NotFoundMeansNever, TypeOK
<1>6. ReportedTruly'
  BY <1>1, <1>2 DEF CallsInv, ReportedTruly, Done, Held, TypeOK
<1> QED BY <1>3, <1>4, <1>5, <1>6 DEF CallsInv

LEMMA CallsFound ==
    ASSUME TypeOK, MapInv, CallsInv, NEW c \in Calls, Found(c)
    PROVE  CallsInv'
<1> DEFINE p == profiles[name[c]]
<1>1. /\ pc[c] = "called"
      /\ pc' = [pc EXCEPT ![c] = IF via[c] = "execute" THEN "dispatch" ELSE "page"]
      /\ profile' = [profile EXCEPT ![c] = p]
      /\ UNCHANGED <<via, name, args, sender, result, since, registrations, done,
                     told, effects>>
      /\ Registered' = Registered
  BY NothingRegistered DEF Found, Settled, deeds
<1>2. name[c] \in Names /\ args[c] \in Args
  BY <1>1 DEF TypeOK
<1>3. /\ p \in Registered /\ registrations[p].name = name[c]
      /\ \A i \in Registered : registrations[i].name = name[c] => i <= p
  BY <1>2 DEF MapInv, Found
<1> HIDE DEF p
<1>4. result[c] = "none" /\ ~done[c] /\ told[c] = "idle"
  BY <1>1 DEF CallsInv, CallInv, DeedInv, TypeOK
<1>5. CallInv' /\ DeedInv'
  BY <1>1, <1>2, <1>3, <1>4 DEF CallsInv, CallInv, DeedInv, TypeOK
<1>6. NoStaleProfile'
  BY <1>1, <1>3 DEF CallsInv, NoStaleProfile, TypeOK
<1>7. NotFoundMeansNever'
  BY <1>1 DEF CallsInv, NotFoundMeansNever
<1>8. ReportedTruly'
  BY <1>1 DEF CallsInv, ReportedTruly, Done, Held, TypeOK
<1> QED BY <1>5, <1>6, <1>7, <1>8 DEF CallsInv

LEMMA CallsWork ==
    ASSUME TypeOK, CallsInv, NEW c \in Calls, CarriedOut(c) \/ Asks(c)
    PROVE  CallsInv'
<1>1. /\ pc[c] \in {"dispatch", "rest", "page"}
      /\ \/ /\ pc' = [pc EXCEPT ![c] = "shape"] /\ via[c] = "execute"
            /\ \/ /\ pc[c] = "dispatch"
                  /\ done' = [done EXCEPT ![c] = TRUE] /\ told' = told
               \/ /\ OnItsWay(c) /\ effects[c] # {}
                  /\ told' = [told EXCEPT ![c] = "done"] /\ done' = done
         \/ /\ pc' = [pc EXCEPT ![c] = "rest"] /\ done' = done
            /\ \/ /\ pc[c] = "dispatch" /\ via[c] = "execute"
                  /\ told' = [told EXCEPT ![c] = "open"]
               \/ pc[c] = "page" /\ via[c] # "execute" /\ told' = told
      /\ UNCHANGED <<via, name, args, profile, result, since, registrations, effects>>
      /\ Registered' = Registered
  BY NothingRegistered DEF CarriedOut, Asks, Settled, OnItsWay
<1>2. profile[c] # 0 /\ ~done[c]
  <2>1. profile[c] \in Registered
    BY <1>1 DEF TypeOK
  <2>2. 0 \notin Registered
    BY Entry
  <2> QED BY <1>1, <2>1, <2>2 DEF CallsInv, CallInv
<1>3. CallInv'
  BY <1>1, <1>2 DEF CallsInv, CallInv, DeedInv, TypeOK, OnItsWay
<1>6. DeedInv'
  <2>1. told[c] \in {"idle", "open"} /\ (told[c] = "open" <=> OnItsWay(c))
    BY <1>1 DEF CallsInv, DeedInv, TypeOK, OnItsWay
  <2>2. \A d \in Calls : d # c => told'[d] = told[d] /\ pc'[d] = pc[d]
    BY <1>1 DEF TypeOK
  <2>3. \/ pc'[c] = "shape" /\ told'[c] = "idle" /\ via[c] = "execute"
        \/ pc'[c] = "shape" /\ told'[c] = "done" /\ via[c] = "execute" /\ effects[c] # {}
        \/ pc'[c] = "rest" /\ told'[c] = "open" /\ via[c] = "execute"
        \/ pc'[c] = "rest" /\ told'[c] = "idle" /\ via[c] # "execute"
    BY <1>1, <2>1 DEF TypeOK, OnItsWay
  <2>4. told[c] = "idle" => effects[c] = {}
    BY DEF CallsInv, DeedInv
  <2>5. told'[c] = "idle" => told[c] = "idle"
    BY <1>1, <2>1, <2>3 DEF TypeOK
  <2>6. UNCHANGED <<via, profile, effects, result>>
    BY <1>1, NothingRegistered DEF CarriedOut, Asks, Settled
  <2> SUFFICES ASSUME NEW d \in Calls
               PROVE  /\ told'[d] = "open" <=> pc'[d] = "rest" /\ via[d] = "execute"
                      /\ told'[d] # "idle" => profile[d] # 0 /\ via[d] = "execute"
                      /\ told'[d] = "done" => pc'[d] \in {"shape", "returned"} /\ effects[d] # {}
                      /\ told'[d] \in {"refused", "failed"} => pc'[d] = "returned" /\ result[d] # "Ok"
                      /\ told'[d] \in {"idle", "refused"} => effects[d] = {}
    BY <2>6 DEF DeedInv
  <2>7. CASE d = c
    BY <1>2, <2>3, <2>4, <2>5, <2>7
  <2>8. CASE d # c
    BY <2>2, <2>8 DEF CallsInv, DeedInv
  <2> QED BY <2>7, <2>8
<1>4. NoStaleProfile' /\ NotFoundMeansNever'
  BY <1>1 DEF CallsInv, NoStaleProfile, NotFoundMeansNever
<1>5. ReportedTruly'
  <2>1. pc'[c] # "returned"
    BY <1>1 DEF TypeOK
  <2>2. \A d \in Calls : d # c =>
            pc'[d] = pc[d] /\ told'[d] = told[d] /\ done'[d] = done[d]
    BY <1>1 DEF TypeOK
  <2>3. UNCHANGED <<via, args, profile, result, registrations, effects>>
    BY <1>1
  <2> QED BY <2>1, <2>2, <2>3 DEF CallsInv, ReportedTruly, Done, Held
<1> QED BY <1>3, <1>4, <1>5, <1>6 DEF CallsInv

LEMMA CallsEnds ==
    ASSUME TypeOK, MapInv, CallsInv, NEW c \in Calls, NEW o \in Results, Ends(c, o)
    PROVE  CallsInv'
<1>1. /\ pc[c] \in Pending
      /\ o # "none"
      /\ pc' = [pc EXCEPT ![c] = "returned"]
      /\ result' = [result EXCEPT ![c] = o]
      /\ \/ told' = told /\ ~OnItsWay(c)
         \/ told' = [told EXCEPT ![c] = "refused"] /\ OnItsWay(c) /\ effects[c] = {}
         \/ told' = [told EXCEPT ![c] = "failed"] /\ OnItsWay(c)
      /\ UNCHANGED <<via, name, args, profile, since, registrations, done, effects>>
      /\ Registered' = Registered
  BY NothingRegistered DEF Ends, Return, Settled
<1>2. CallInv'
  BY <1>1 DEF CallsInv, CallInv, DeedInv, TypeOK, Pending, OnItsWay
<1>6. DeedInv'
  <2>1. OnItsWay(c) => o # "Ok" /\ told[c] = "open"
    BY DEF Ends, OnItsWay, CallsInv, DeedInv
  <2> QED BY <1>1, <2>1 DEF CallsInv, CallInv, DeedInv, TypeOK, Pending, OnItsWay
<1>3. NoStaleProfile'
  BY <1>1 DEF CallsInv, NoStaleProfile
<1>4. NotFoundMeansNever'
  <2>1. ASSUME o = "ProfileNotFound", NEW i \in Registered
        PROVE  registrations[i].name # name[c]
    <3>1. profiles[name[c]] = 0
      BY <2>1 DEF Ends, Pending
    <3>2. i <= profiles[registrations[i].name] /\ i \in 1..Len(registrations)
      BY Entry DEF MapInv
    <3> QED BY <3>1, <3>2
  <2> QED BY <1>1, <2>1 DEF CallsInv, NotFoundMeansNever, TypeOK
<1>5. ReportedTruly'
  <2>1. ASSUME via[c] = "execute", o = "Ok" PROVE Done(c)
    <3>1. pc[c] = "shape"
      BY <2>1 DEF Ends, Pending, CallsInv, CallInv
    <3> QED BY <3>1 DEF CallsInv, CallInv, DeedInv, Done
  <2>2. ASSUME Done(c), o # "Ok", via[c] = "execute"
        PROVE  \/ told'[c] = "failed"
               \/ Held(c).surface = "resource" /\ Held(c).uri = None /\ args[c].uri = None
    <3>1. CASE OnItsWay(c)
      BY <1>1, <2>2, <3>1 DEF CallsInv, CallInv, Done, TypeOK, OnItsWay
    <3>2. CASE ~OnItsWay(c)
      <4>1. pc[c] = "shape"
        BY <2>2, <3>2, <1>1 DEF CallsInv, CallInv, DeedInv, Done, Pending, OnItsWay, TypeOK
      <4> QED BY <2>2, <4>1 DEF Ends, Or, ResolveUri
    <3> QED BY <3>1, <3>2
  <2>3. \A d \in Calls : Held(d)' = Held(d) /\ Done(d)' = Done(d)
    BY <1>1 DEF Held, Done
  <2>4. \A d \in Calls : d # c => pc'[d] = pc[d] /\ result'[d] = result[d] /\ told'[d] = told[d]
    BY <1>1 DEF TypeOK
  <2>5. result'[c] = o
    BY <1>1 DEF TypeOK
  <2> SUFFICES ASSUME NEW d \in Calls, via[d] = "execute", pc'[d] = "returned"
               PROVE  /\ result'[d] = "Ok" => Done(d)
                      /\ Done(d) /\ result'[d] # "Ok" =>
                             \/ told'[d] = "failed"
                             \/ /\ Held(d).surface = "resource"
                                /\ Held(d).uri = None /\ args[d].uri = None
    BY <1>1, <2>3 DEF ReportedTruly
  <2>6. CASE d = c
    BY <2>1, <2>2, <2>5, <2>6
  <2>7. CASE d # c
    BY <2>4, <2>7 DEF CallsInv, ReportedTruly
  <2> QED BY <2>6, <2>7
<1> QED BY <1>2, <1>3, <1>4, <1>5, <1>6 DEF CallsInv

\* What Twilio does, for a request that is on its way, or that was answered and
\* not refused.
LEMMA CallsEffect ==
    ASSUME TypeOK, CallsInv, NEW c \in Calls, Effect(c)
    PROVE  CallsInv'
<1>1. PICK t \in Tries : effects' = [effects EXCEPT ![c] = @ \union {t}]
  BY DEF Effect, Once!Effect
<1>2. /\ told[c] \in {"open", "done", "failed"}
      /\ UNCHANGED <<pc, via, name, args, profile, result, since, registrations,
                     done, told>>
      /\ Registered' = Registered
  BY NothingRegistered DEF Effect, Once!Effect, Settled
<1>3. CallInv' /\ NoStaleProfile' /\ NotFoundMeansNever'
  BY <1>2 DEF CallsInv, CallInv, NoStaleProfile, NotFoundMeansNever
<1>4. DeedInv'
  BY <1>1, <1>2 DEF CallsInv, DeedInv, TypeOK
<1>5. ReportedTruly'
  <2>1. \A d \in Calls : Held(d)' = Held(d)
    BY <1>2 DEF Held
  <2>2. \A d \in Calls : d # c => Done(d)' = Done(d)
    BY <1>1, <1>2 DEF Done, TypeOK
  <2>3. Done(c)'
    BY <1>1 DEF Done, TypeOK
  <2>4. pc[c] = "returned" /\ told[c] = "done" => Done(c)
    BY DEF CallsInv, DeedInv, Done
  <2>5. told[c] = "open" => pc[c] # "returned"
    BY DEF CallsInv, DeedInv
  <2> SUFFICES ASSUME NEW d \in Calls, via[d] = "execute", pc[d] = "returned"
               PROVE  /\ result[d] = "Ok" => Done(d)'
                      /\ Done(d)' /\ result[d] # "Ok" =>
                             \/ told[d] = "failed"
                             \/ /\ Held(d).surface = "resource"
                                /\ Held(d).uri = None /\ args[d].uri = None
    BY <1>2, <2>1 DEF ReportedTruly
  <2>6. CASE d = c
    BY <1>2, <2>3, <2>4, <2>5, <2>6 DEF CallsInv, ReportedTruly
  <2>7. CASE d # c
    BY <2>2, <2>7 DEF CallsInv, ReportedTruly
  <2> QED BY <2>6, <2>7
<1> QED BY <1>3, <1>4, <1>5 DEF CallsInv

-----------------------------------------------------------------------------
\* The inductive invariant.  The map holds, per name, the last registration
\* accepted (register_profile's insert), all of them passed validate, and a call
\* in flight holds one of them.
THEOREM Invariance == Spec => []IInv
<1>1. Init => IInv
  <2> SUFFICES ASSUME Init PROVE IInv
    OBVIOUS
  <2>1. registrations = <<>> /\ Registered = {}
    BY DEF Init, Registered
  <2>2. TypeOK
    <3>1. registrations \in Seq([name : Names, spec : Specs])
      BY <2>1
    <3> QED BY <3>1 DEF Init, TypeOK, Results, Once!CallInit
  <2> QED BY <2>1, <2>2 DEF Init, IInv, MapInv, OnlyValid, CallInv, DeedInv,
               NoStaleProfile, NotFoundMeansNever, ReportedTruly, Once!CallInit
<1>2. IInv /\ [Next]_vars => IInv'
  <2> SUFFICES ASSUME IInv, [Next]_vars PROVE IInv'
    OBVIOUS
  <2>1. TypeOK /\ MapInv /\ OnlyValid /\ CallInv /\ CallsInv
    BY DEF IInv, CallsInv
  <2>2. ASSUME NEW n \in Names, NEW s \in Specs, RegisterProfile(n, s) PROVE IInv'
    BY <2>1, <2>2, TypeRegister, MapRegister, CallsRegister DEF IInv, CallsInv
  <2>3. ASSUME NEW c \in Calls, NEW n \in Names, NEW a \in Args,
               NEW how \in {"execute", "list_resources", "complete"},
               Call(c, how, n, a)
        PROVE  IInv'
    <3>1. TypeOK' BY <2>1, <2>3, TypeStep
    <3>2. MapInv' /\ OnlyValid' BY <2>1, <2>3, CallsAreQuiet, MapQuiet
    <3>3. CallsInv' BY <2>1, <2>3, CallsCall
    <3> QED BY <3>1, <3>2, <3>3 DEF IInv, CallsInv
  <2>4. ASSUME NEW c \in Calls, Execute(c) PROVE IInv'
    <3>1. \/ \E o \in Results : Ends(c, o)
          \/ Found(c) \/ CarriedOut(c) \/ Asks(c)
      BY <2>1, <2>4, StepCases
    <3>2. TypeOK' BY <2>1, <3>1, TypeStep
    <3>3. MapInv' /\ OnlyValid' BY <2>1, <3>1, CallsAreQuiet, MapQuiet
    <3>4. CallsInv' BY <2>1, <3>1, CallsFound, CallsWork, CallsEnds
    <3> QED BY <3>2, <3>3, <3>4 DEF IInv, CallsInv
  <2>6. ASSUME NEW c \in Calls, Effect(c) PROVE IInv'
    <3>1. TypeOK' BY <2>1, <2>6, TypeStep
    <3>2. MapInv' /\ OnlyValid' BY <2>1, <2>6, CallsAreQuiet, MapQuiet
    <3>3. CallsInv' BY <2>1, <2>6, CallsEffect
    <3> QED BY <3>1, <3>2, <3>3 DEF IInv, CallsInv
  <2>5. CASE UNCHANGED vars
    <3>1. Registered' = Registered /\ \A c \in Calls : Held(c)' = Held(c)
      BY <2>5 DEF vars, callVars, Registered, Held
    <3>2. TypeOK' BY <2>1, <2>5, <3>1 DEF TypeOK, vars, callVars, deeds
    <3>3. MapInv' /\ OnlyValid' BY <2>1, <2>5, MapQuiet DEF vars, Quiet
    <3>4. CallsInv'
      BY <2>1, <2>5, <3>1
      DEF CallsInv, CallInv, DeedInv, NoStaleProfile, NotFoundMeansNever, ReportedTruly,
          Done, vars, callVars, deeds
    <3> QED BY <3>2, <3>3, <3>4 DEF IInv, CallsInv
  <2> QED BY <2>2, <2>3, <2>4, <2>5, <2>6 DEF Next, Host
<1> QED BY <1>1, <1>2, PTL DEF Spec

\* The type invariant: whatever is registered and called, the map and the calls
\* of backend_plugin.rs keep their shape.
THEOREM TypeCorrect == Spec => []TypeOK
<1>1. IInv => TypeOK
  BY DEF IInv
<1> QED BY <1>1, Invariance, PTL

\* A call runs under a registration of its name, and under none replaced before
\* the call was made.
THEOREM NeverStale == Spec => []NoStaleProfile
<1>1. IInv => NoStaleProfile
  BY DEF IInv
<1> QED BY <1>1, Invariance, PTL

\* ProfileNotFound is only said of a name without a registration.
THEOREM NotFoundIsTrue == Spec => []NotFoundMeansNever
<1>1. IInv => NotFoundMeansNever
  BY DEF IInv
<1> QED BY <1>1, Invariance, PTL

\* execute says what happened, but for a resource without a URI.
THEOREM Reported == Spec => []ReportedTruly
<1>1. IInv => ReportedTruly
  BY DEF IInv
<1> QED BY <1>1, Invariance, PTL

\* What validate demanded holds of every profile a call may hold, so dispatch
\* never misses a REST client, or the sender of an SMS.
THEOREM ValidatedOnce == Spec => []ValidatedAtRegistration
<1>1. IInv => ValidatedAtRegistration
  <2> SUFFICES ASSUME IInv, NEW c \in Calls, profile[c] # 0
               PROVE  /\ NeedsRest(Held(c)) => Held(c).creds # None
                      /\ Held(c).op = "send_sms" => SmsSender(Held(c), args[c]) # None
    BY DEF ValidatedAtRegistration
  <2>1. Valid(Held(c))
    BY DEF IInv, CallInv, OnlyValid, Held
  <2> QED BY <2>1 DEF Valid, SmsSender, Or
<1> QED BY <1>1, Invariance, PTL
=============================================================================
