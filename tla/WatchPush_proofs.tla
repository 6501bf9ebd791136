--------------------------- MODULE WatchPush_proofs ---------------------------
(***************************************************************************)
(* Proofs about WatchPush, for every set of watches and kinds, every       *)
(* channel capacity and any number of notices.                             *)
(***************************************************************************)
EXTENDS WatchPush, Integers, TLAPS

\* What Append does to a sequence of positions.
LEMMA AppendFacts ==
    ASSUME NEW s \in Seq(Nat), NEW e \in Nat
    PROVE  /\ DOMAIN Append(s, e) = DOMAIN s \union {Len(s) + 1}
           /\ Append(s, e)[Len(s) + 1] = e
           /\ \A i \in DOMAIN s : /\ Append(s, e)[i] = s[i]
                                  /\ i < Len(s) + 1
                                  /\ i \in Nat
                                  /\ s[i] \in Nat
           /\ Range(Append(s, e)) = Range(s) \union {e}
           /\ Len(Append(s, e)) = Len(s) + 1
           /\ Len(s) \in Nat
           /\ Append(s, e) # <<>>
<1>1. /\ Len(Append(s, e)) = Len(s) + 1
      /\ \A i \in 1..Len(s) : Append(s, e)[i] = s[i]
      /\ Append(s, e)[Len(s) + 1] = e
      /\ DOMAIN s = 1..Len(s)
      /\ \A i \in 1..Len(s) : s[i] \in Nat
      /\ DOMAIN Append(s, e) = 1..(Len(s) + 1)
      /\ Len(s) \in Nat
      /\ Append(s, e) # <<>>
  OBVIOUS
<1>2. DOMAIN Append(s, e) = DOMAIN s \union {Len(s) + 1}
  BY <1>1
<1> QED BY <1>1, <1>2 DEF Range

\* The type invariant of the push.
THEOREM TypeCorrect == Spec => []TypeOK
<1>1. Init => TypeOK
  <2>1. /\ <<>> \in Seq(ALL_KINDS)
        /\ <<>> \in Seq(Nat)
    OBVIOUS
  <2> SUFFICES ASSUME Init PROVE TypeOK
    OBVIOUS
  <2>2. emitted \in [Watches -> Seq(Nat)]
    BY <2>1 DEF Init
  <2>3. sent \in Seq(ALL_KINDS)
    BY <2>1 DEF Init
  <2>4. kinds \in [Watches -> SUBSET ALL_KINDS]
    BY DEF Init
  <2>5. /\ status \in [Watches -> {"new", "live", "cancelled"}]
        /\ since \in [Watches -> Nat] /\ until \in [Watches -> Nat]
        /\ poisoned \in {"yes", "no"} /\ phase = "down" /\ stop_tx \in {"armed", "sent"} /\ rx \in Nat \ {0}
        /\ emitters \subseteq Watches /\ lost \subseteq Nat
    BY DEF Init
  <2> QED BY <2>2, <2>3, <2>4, <2>5 DEF TypeOK
<1>2. TypeOK /\ [Next]_vars => TypeOK'
  <2> SUFFICES ASSUME TypeOK, [Next]_vars PROVE TypeOK'
    OBVIOUS
  <2> USE CapAssumption DEF TypeOK, hostVars, dispVars
  <2>1. ASSUME NEW k \in ALL_KINDS, NotifyInbound(k) PROVE TypeOK'
    <3>1. sent' \in Seq(ALL_KINDS)
      BY <2>1 DEF NotifyInbound
    <3>2. lost' \subseteq Nat
      <4>1. Len(sent) + 1 \in Nat
        OBVIOUS
      <4> QED BY <2>1, <4>1 DEF NotifyInbound
    <3> QED BY <2>1, <3>1, <3>2 DEF NotifyInbound
  <2>2. ASSUME NEW w \in Watches, NEW ks \in SUBSET ALL_KINDS, Watch(w, ks)
        PROVE  TypeOK'
    BY <2>2 DEF Watch
  <2>3. ASSUME NEW w \in Watches, Cancel(w) PROVE TypeOK'
    BY <2>3 DEF Cancel
  <2>4. CASE StartEntity \/ DropEntity
    BY <2>4 DEF StartEntity, DropEntity
  <2>5. CASE Subscribe
    BY <2>5 DEF Subscribe
  <2>6. CASE RecvLagged
    <3>1. OldestRetained \in Nat \ {0}
      BY DEF OldestRetained
    <3> QED BY <2>6, <3>1 DEF RecvLagged
  <2>7. CASE RecvOk
    BY <2>7 DEF RecvOk
  <2>8. CASE Snapshot
    BY <2>8 DEF Snapshot, MatchingEmitters
  <2>9. ASSUME NEW w \in Watches, Emit(w) PROVE TypeOK'
    <3>1. Current \in Nat
      BY DEF Current
    <3>2. emitted' \in [Watches -> Seq(Nat)]
      <4>1. Append(emitted[w], Current) \in Seq(Nat)
        BY <3>1
      <4> QED BY <2>9, <4>1 DEF Emit
    <3>3. /\ UNCHANGED <<poisoned, sent, status, kinds, since, until, stop_tx, rx, lost>>
          /\ emitters' \subseteq Watches
          /\ phase' \in {"listening", "emitting"}
      BY <2>9 DEF Emit
    <3> QED BY <3>2, <3>3
  <2>10. CASE Exit
    <3>1. rx .. Len(sent) \subseteq Nat
      OBVIOUS
    <3>2. lost' \subseteq Nat
      BY <2>10, <3>1 DEF Exit
    <3> QED BY <2>10, <3>2 DEF Exit
  <2>11. CASE Die
    <3>1. Current .. Len(sent) \subseteq Nat
      BY DEF Current
    <3>2. lost' \subseteq Nat
      BY <2>11, <3>1 DEF Die
    <3> QED BY <2>11, <3>2 DEF Die
  <2>12. CASE StageOverflow \/ UNCHANGED vars
    BY <2>12 DEF StageOverflow, vars
  <2> QED
    BY <2>1, <2>2, <2>3, <2>4, <2>5, <2>6, <2>7, <2>8, <2>9, <2>10, <2>11, <2>12
    DEF Next, Webhook, Host, Dispatcher
<1> QED BY <1>1, <1>2, PTL DEF Spec

\* The step of Emit that the invariants below need: what the watch called, and
\* every other one, has been told afterwards.
LEMMA EmitFacts ==
    ASSUME TypeOK, NEW w \in Watches, Emit(w)
    PROVE  /\ emitted'[w] = Append(emitted[w], Current)
           /\ \A v \in Watches \ {w} : emitted'[v] = emitted[v]
           /\ emitted[w] \in Seq(Nat) /\ Current \in Nat
           /\ Current' = Current
           /\ emitters' = emitters \ {w} /\ w \in emitters
           /\ phase = "emitting"
           /\ \/ phase' = "emitting"
              \/ phase' = "listening" /\ emitters' = {}
           /\ UNCHANGED <<poisoned, sent, status, kinds, since, until, rx, lost>>
<1>1. Current \in Nat
  BY DEF TypeOK, Current
<1> QED BY <1>1 DEF Emit, TypeOK, hostVars, Current

\* The dispatcher's bookkeeping is an inductive invariant.
THEOREM DispatchCorrect == Spec => []DispatchInv
<1>1. Init => DispatchInv
  BY DEF Init, DispatchInv, EmitterInv
<1>2. TypeOK /\ DispatchInv /\ [Next]_vars => DispatchInv'
  <2> SUFFICES ASSUME TypeOK, DispatchInv, [Next]_vars PROVE DispatchInv'
    OBVIOUS
  <2> USE CapAssumption DEF TypeOK, DispatchInv, EmitterInv, hostVars, dispVars, Current
  <2>1. ASSUME NEW k \in ALL_KINDS, NotifyInbound(k) PROVE DispatchInv'
    <3>1. /\ Len(sent') = Len(sent) + 1
          /\ \A p \in 1..Len(sent) : sent'[p] = sent[p]
      BY <2>1 DEF NotifyInbound
    <3> QED BY <2>1, <3>1 DEF NotifyInbound
  <2>2. ASSUME NEW w \in Watches, NEW ks \in SUBSET ALL_KINDS, Watch(w, ks)
        PROVE  DispatchInv'
    BY <2>2 DEF Watch
  <2>3. ASSUME NEW w \in Watches, Cancel(w) PROVE DispatchInv'
    BY <2>3 DEF Cancel
  <2>4. CASE StartEntity \/ DropEntity
    BY <2>4 DEF StartEntity, DropEntity
  <2>5. CASE Subscribe
    BY <2>5 DEF Subscribe
  <2>6. CASE RecvLagged
    BY <2>6 DEF RecvLagged, OldestRetained, Lagging
  <2>7. CASE RecvOk
    BY <2>7 DEF RecvOk
  <2>8. CASE Snapshot
    BY <2>8 DEF Snapshot, MatchingEmitters
  <2>9. ASSUME NEW w \in Watches, Emit(w) PROVE DispatchInv'
    <3>1. Current < rx
      OBVIOUS
    <3>2. ASSUME NEW v \in Watches PROVE EmitterInv(v)'
      <4> HIDE DEF TypeOK, Current
      <4> SUFFICES /\ emitted'[v] # emitted[v] => status[v] # "new"
                   /\ \A i \in DOMAIN emitted'[v] :
                        /\ emitted'[v][i] < rx
                        /\ v \in emitters' => emitted'[v][i] < Current
        BY <2>9, EmitFacts
      <4>1. CASE v # w
        BY <2>9, <4>1, EmitFacts
      <4>2. CASE v = w
        <5>1. /\ emitted'[w] = Append(emitted[w], Current)
              /\ emitted[w] \in Seq(Nat) /\ Current \in Nat
              /\ w \notin emitters' /\ w \in emitters
          BY <2>9, EmitFacts
        <5>2. DOMAIN emitted'[w] = DOMAIN emitted[w] \union {Len(emitted[w]) + 1}
          BY <5>1, AppendFacts
        <5>3. /\ \A i \in DOMAIN emitted[w] : emitted'[w][i] = emitted[w][i]
              /\ emitted'[w][Len(emitted[w]) + 1] = Current
          BY <5>1, AppendFacts
        <5> QED BY <3>1, <4>2, <5>1, <5>2, <5>3
      <4> QED BY <4>1, <4>2
    <3>3. /\ rx' <= Len(sent') + 1
          /\ rx' > 1
          /\ phase' # "emitting" => emitters' = {}
      <4> HIDE DEF TypeOK, Current
      <4> QED BY <2>9, EmitFacts
    <3> QED BY <3>2, <3>3
  <2>10. CASE Exit \/ Die
    BY <2>10 DEF Exit, Die
  <2>11. CASE StageOverflow \/ UNCHANGED vars
    BY <2>11 DEF StageOverflow, vars
  <2> QED
    BY <2>1, <2>2, <2>3, <2>4, <2>5, <2>6, <2>7, <2>8, <2>9, <2>10, <2>11
    DEF Next, Webhook, Host, Dispatcher
<1> QED BY <1>1, <1>2, TypeCorrect, PTL DEF Spec

\* Only Emit extends what a watch was told.
LEMMA OthersKeepEmitted ==
    ASSUME [Next]_vars, ~ \E w \in Watches : Emit(w)
    PROVE  emitted' = emitted
BY DEF Next, StageOverflow, Webhook, Host, Dispatcher, NotifyInbound, Watch, Cancel,
       StartEntity, DropEntity, Subscribe, RecvLagged, RecvOk, Snapshot, Die, Exit,
       vars

\* A watch is told of a notice at most once, in order.
THEOREM Ordered == Spec => []InOrder
<1>1. Init => InOrder
  BY DEF Init, InOrder
<1>2. TypeOK /\ DispatchInv /\ InOrder /\ [Next]_vars => InOrder'
  <2> SUFFICES ASSUME TypeOK, DispatchInv, InOrder, [Next]_vars,
                      NEW v \in Watches,
                      NEW i \in DOMAIN emitted'[v], NEW j \in DOMAIN emitted'[v],
                      i < j
               PROVE  emitted'[v][i] < emitted'[v][j]
    BY DEF InOrder
  <2>1. CASE emitted'[v] = emitted[v]
    BY <2>1 DEF InOrder
  <2>2. ASSUME NEW w \in Watches, Emit(w) PROVE emitted'[v][i] < emitted'[v][j]
    <3>1. CASE v # w
      BY <2>1, <2>2, <3>1, EmitFacts
    <3>2. CASE v = w
      <4>1. /\ emitted'[v] = Append(emitted[v], Current)
            /\ emitted[v] \in Seq(Nat) /\ Current \in Nat
            /\ v \in emitters
        BY <2>2, <3>2, EmitFacts
      <4>2. \A m \in DOMAIN emitted[v] : emitted[v][m] < Current
        BY <4>1 DEF DispatchInv, EmitterInv
      <4>3. /\ DOMAIN emitted'[v] = DOMAIN emitted[v] \union {Len(emitted[v]) + 1}
            /\ emitted'[v][Len(emitted[v]) + 1] = Current
            /\ \A m \in DOMAIN emitted[v] : /\ emitted'[v][m] = emitted[v][m]
                                            /\ m < Len(emitted[v]) + 1
                                            /\ m \in Nat
            /\ Len(emitted[v]) \in Nat
        BY <4>1, AppendFacts
      <4>4. i \in DOMAIN emitted[v]
        BY <4>3
      <4>5. CASE j \in DOMAIN emitted[v]
        BY <4>3, <4>4, <4>5 DEF InOrder
      <4>6. CASE j = Len(emitted[v]) + 1
        BY <4>2, <4>3, <4>4, <4>6
      <4> QED BY <4>3, <4>5, <4>6
    <3> QED BY <3>1, <3>2
  <2> QED BY <2>1, <2>2, OthersKeepEmitted
<1> QED BY <1>1, <1>2, TypeCorrect, DispatchCorrect, PTL DEF Spec

\* A cancelled watch is told of nothing published after the cancel.
THEOREM CancelIsCutoff == Spec => []CancelCutoff
<1>1. Init => CancelCutoff
  BY DEF Init, CancelCutoff
<1>2. TypeOK /\ DispatchInv /\ CancelCutoff /\ [Next]_vars => CancelCutoff'
  <2> SUFFICES ASSUME TypeOK, DispatchInv, CancelCutoff, [Next]_vars,
                      NEW v \in Watches, status'[v] = "cancelled",
                      NEW i \in DOMAIN emitted'[v]
               PROVE  emitted'[v][i] <= until'[v]
    BY DEF CancelCutoff
  <2>1. ASSUME NEW w \in Watches, Cancel(w) PROVE emitted'[v][i] <= until'[v]
    <3>1. emitted'[v] = emitted[v]
      BY <2>1 DEF Cancel
    <3>2. CASE v = w
      <4>1. until'[v] = Len(sent)
        BY <2>1, <3>2 DEF Cancel, TypeOK
      <4>2. emitted[v][i] < rx /\ rx <= Len(sent) + 1
        BY <3>1 DEF DispatchInv, EmitterInv
      <4>3. emitted[v][i] \in Nat /\ rx \in Nat /\ Len(sent) \in Nat
        BY <3>1 DEF TypeOK
      <4> QED BY <3>1, <4>1, <4>2, <4>3
    <3>3. CASE v # w
      BY <2>1, <3>1, <3>3 DEF Cancel, TypeOK, CancelCutoff
    <3> QED BY <3>2, <3>3
  <2>2. ASSUME NEW w \in Watches, Emit(w) PROVE emitted'[v][i] <= until'[v]
    <3>1. CASE v # w
      BY <2>2, <3>1, EmitFacts DEF CancelCutoff
    <3>2. CASE v = w
      <4>1. /\ emitted'[v] = Append(emitted[v], Current)
            /\ emitted[v] \in Seq(Nat) /\ Current \in Nat
            /\ v \in emitters /\ status[v] = "cancelled" /\ until'[v] = until[v]
        BY <2>2, <3>2, EmitFacts
      <4>2. Current <= until[v]
        BY <4>1 DEF DispatchInv, EmitterInv
      <4>3. \/ i \in DOMAIN emitted[v] /\ emitted'[v][i] = emitted[v][i]
            \/ emitted'[v][i] = Current
        BY <4>1, AppendFacts
      <4> QED BY <4>1, <4>2, <4>3 DEF CancelCutoff
    <3> QED BY <3>1, <3>2
  <2>3. CASE ~ \E w \in Watches : Cancel(w) \/ Emit(w)
    <3>1. emitted' = emitted
      BY <2>3, OthersKeepEmitted
    <3>2. status[v] = "cancelled" /\ until'[v] = until[v]
      BY <2>3 DEF Next, StageOverflow, Webhook, Host, Dispatcher, NotifyInbound, Watch,
         StartEntity, DropEntity, Subscribe, RecvLagged, RecvOk, Snapshot, Die, Exit,
         vars, hostVars, TypeOK
    <3> QED BY <3>1, <3>2 DEF CancelCutoff
  <2> QED BY <2>1, <2>2, <2>3
<1> QED BY <1>1, <1>2, TypeCorrect, DispatchCorrect, PTL DEF Spec

\* A position reached by w is reached in every later state.
LEMMA RangeGrows ==
    ASSUME TypeOK, [Next]_vars, NEW v \in Watches, NEW p \in Range(emitted[v])
    PROVE  p \in Range(emitted'[v])
<1>1. CASE emitted' = emitted
  BY <1>1
<1>2. ASSUME NEW w \in Watches, Emit(w) PROVE p \in Range(emitted'[v])
  <2>1. CASE v # w
    BY <1>2, <2>1, EmitFacts
  <2>2. CASE v = w
    <3>1. /\ emitted'[v] = Append(emitted[v], Current)
          /\ emitted[v] \in Seq(Nat) /\ Current \in Nat
      BY <1>2, <2>2, EmitFacts
    <3> QED BY <3>1, AppendFacts
  <2> QED BY <2>1, <2>2
<1> QED BY <1>1, <1>2, OthersKeepEmitted

\* A living dispatcher drops nothing: a notice for a live watch is emitted, on its
\* way, or lost.
THEOREM LossAccounted == Spec => []NoSilentLoss
<1>1. Init => NoSilentLoss
  BY DEF Init, NoSilentLoss
<1>2. TypeOK /\ DispatchInv /\ NoSilentLoss /\ [Next]_vars => NoSilentLoss'
  <2> SUFFICES ASSUME TypeOK, DispatchInv, NoSilentLoss, [Next]_vars,
                      NEW v \in Watches, status'[v] = "live",
                      NEW p \in (since'[v] + 1) .. Len(sent'),
                      sent'[p] \in kinds'[v]
               PROVE  p \in Range(emitted'[v]) \/ p \in lost' \/ Underway(v, p)'
    BY DEF NoSilentLoss
  <2> DEFINE Done == p \in Range(emitted'[v]) \/ p \in lost' \/ Underway(v, p)'
             Before == p \in Range(emitted[v]) \/ p \in lost \/ Underway(v, p)
  <2>1. p \in Range(emitted[v]) => p \in Range(emitted'[v])
    BY RangeGrows
  \* What held of p before the step, unless the step published p or
  \* registered v.
  <2>2. ASSUME UNCHANGED <<sent, status, kinds, since>> PROVE Before
    BY <2>2 DEF NoSilentLoss
  <2>0. p \in Int /\ rx \in Nat /\ Len(sent) \in Nat /\ since[v] \in Nat
    BY DEF TypeOK
  <2> USE <2>0 DEF Underway, Subscribed, Current, hostVars, dispVars
  <2>3. ASSUME NEW k \in ALL_KINDS, NotifyInbound(k) PROVE Done
    <3>1. /\ Len(sent') = Len(sent) + 1
          /\ Len(sent) \in Nat /\ since[v] \in Nat
          /\ \A q \in 1..Len(sent) : sent'[q] = sent[q]
          /\ UNCHANGED <<status, kinds, since, phase, rx, emitters>>
      BY <2>3 DEF NotifyInbound
    <3>2. CASE p = Len(sent) + 1
      <4>1. CASE Subscribed
        BY <3>1, <3>2, <4>1 DEF DispatchInv
      <4>2. CASE ~Subscribed
        BY <2>3, <3>2, <4>2 DEF NotifyInbound
      <4> QED BY <4>1, <4>2
    <3>3. CASE p # Len(sent) + 1
      <4>1. p \in (since[v] + 1) .. Len(sent) /\ sent[p] \in kinds[v]
        BY <3>1, <3>3
      <4>2. Before
        BY <3>1, <4>1 DEF NoSilentLoss
      <4>3. lost \subseteq lost'
        BY <2>3 DEF NotifyInbound
      <4> QED BY <2>1, <3>1, <4>2, <4>3
    <3> QED BY <3>2, <3>3
  <2>4. ASSUME NEW w \in Watches, NEW ks \in SUBSET ALL_KINDS, Watch(w, ks)
        PROVE  Done
    <3>1. CASE v = w
      BY <2>4, <3>1 DEF Watch, TypeOK
    <3>2. CASE v # w
      <4>1. Before
        BY <2>4, <3>2 DEF Watch, NoSilentLoss
      <4> QED BY <2>1, <2>4, <4>1 DEF Watch
    <3> QED BY <3>1, <3>2
  <2>5. ASSUME NEW w \in Watches, Cancel(w) PROVE Done
    <3>1. status[v] = "live"
      BY <2>5 DEF Cancel
    <3>2. Before
      BY <2>5, <3>1 DEF Cancel, NoSilentLoss
    <3> QED BY <2>1, <2>5, <3>2 DEF Cancel
  <2>6. CASE StartEntity \/ DropEntity
    <3>1. Before
      BY <2>2, <2>6 DEF StartEntity, DropEntity
    <3> QED BY <2>1, <2>6, <3>1 DEF StartEntity, DropEntity
  <2>7. CASE Subscribe
    <3>1. Before
      BY <2>2, <2>7 DEF Subscribe
    <3> QED BY <2>1, <2>7, <3>1 DEF Subscribe
  <2>8. CASE RecvLagged
    <3>1. Before
      BY <2>2, <2>8 DEF RecvLagged
    <3>2. OldestRetained \in Nat
      BY CapAssumption DEF OldestRetained
    <3> QED BY <2>1, <2>8, <3>1, <3>2 DEF RecvLagged
  <2>9. CASE RecvOk
    <3>1. Before
      BY <2>2, <2>9 DEF RecvOk
    <3> QED BY <2>1, <2>9, <3>1 DEF RecvOk
  <2>10. CASE Snapshot
    <3>1. Before
      BY <2>2, <2>10 DEF Snapshot
    <3>2. p = Current => v \in MatchingEmitters(sent[Current])
      BY <2>10 DEF Snapshot, MatchingEmitters
    <3> QED BY <2>1, <2>10, <3>1, <3>2 DEF Snapshot
  <2>11. ASSUME NEW w \in Watches, Emit(w) PROVE Done
    <3>1. Before
      BY <2>2, <2>11, EmitFacts
    <3>2. CASE v # w \/ p # Current
      BY <2>1, <2>11, <3>1, <3>2, EmitFacts
    <3>3. CASE v = w /\ p = Current
      <4>1. /\ emitted'[v] = Append(emitted[v], p)
            /\ emitted[v] \in Seq(Nat) /\ p \in Nat
        BY <2>11, <3>3, EmitFacts
      <4> QED BY <4>1, AppendFacts
    <3> QED BY <3>2, <3>3
  <2>12. CASE Exit
    <3>1. Before
      BY <2>2, <2>12 DEF Exit
    <3>2. p <= Len(sent)
      BY <2>12 DEF Exit
    <3> QED BY <2>1, <2>12, <3>1, <3>2 DEF Exit
  <2>13. CASE Die
    <3>1. Before
      BY <2>2, <2>13 DEF Die
    <3>2. p <= Len(sent)
      BY <2>13 DEF Die
    <3> QED BY <2>1, <2>13, <3>1, <3>2 DEF Die
  <2>14. CASE StageOverflow \/ UNCHANGED vars
    <3>1. Before
      BY <2>2, <2>14 DEF StageOverflow, vars
    <3> QED BY <2>1, <2>14, <3>1 DEF StageOverflow, vars
  <2> QED
    BY <2>3, <2>4, <2>5, <2>6, <2>7, <2>8, <2>9, <2>10, <2>11, <2>12, <2>13, <2>14
    DEF Next, Webhook, Host, Dispatcher
<1> QED BY <1>1, <1>2, TypeCorrect, DispatchCorrect, PTL DEF Spec

\* What is counted as lost never arrives, and what comes in while nobody listens
\* is counted: the account of LossAccounted is exact.
THEOREM LossIsFinal == Spec => []LossInv
<1>1. Init => LossInv
  BY DEF Init, LossInv, Subscribed, Range
<1>2. TypeOK /\ DispatchInv /\ LossInv /\ [Next]_vars => LossInv'
  <2> SUFFICES ASSUME TypeOK, DispatchInv, LossInv, [Next]_vars PROVE LossInv'
    OBVIOUS
  <2>0. /\ rx \in Nat \ {0} /\ Len(sent) \in Nat /\ lost \subseteq Nat
        /\ rx <= Len(sent) + 1 /\ Current = rx - 1
        /\ OldestRetained \in Nat
        /\ OldestRetained <= Len(sent) \/ OldestRetained = 1
    BY CapAssumption DEF TypeOK, DispatchInv, Current, OldestRetained
  \* What a watch has been told lies before the cursor.
  <2>1. \A w \in Watches : \A p \in Range(emitted[w]) :
          p < rx /\ (phase = "received" => p < Current)
    BY DEF DispatchInv, EmitterInv, Range
  <2>2. \A w \in Watches : Range(emitted[w]) \subseteq Nat
    BY DEF TypeOK, Range
  <2>3. CASE emitted' = emitted
    <3>1. \A w \in Watches : Range(emitted'[w]) = Range(emitted[w])
      BY <2>3
    <3> HIDE DEF Range
    <3> USE <2>0 DEF LossInv, Subscribed, LockIsSound, hostVars, dispVars
    \* A loss ahead of what watches have been told leaves them alone.
    <3>0. ASSUME \A p \in lost' \ lost : p >= rx \/ (phase = "received" /\ p >= Current)
          PROVE  \A w \in Watches : lost' \intersect Range(emitted'[w]) = {}
      <4>1. ASSUME NEW w \in Watches, NEW p \in Range(emitted[w]) PROVE p \notin lost'
        <5>1. p \in Nat /\ p < rx /\ (phase = "received" => p < Current) /\ p \notin lost
          BY <2>1, <2>2, <4>1
        <5> QED BY <3>0, <5>1
      <4> QED BY <3>1, <4>1
    <3>2. ASSUME NEW k \in ALL_KINDS, NotifyInbound(k) PROVE LossInv'
      <4>1. Len(sent') = Len(sent) + 1 /\ UNCHANGED <<poisoned, phase, rx>>
        BY <3>2 DEF NotifyInbound, TypeOK
      <4>2. Current' = Current
        BY <4>1 DEF Current
      <4>3. lost' = IF Subscribed THEN lost ELSE lost \union {Len(sent) + 1}
        BY <3>2 DEF NotifyInbound
      <4>4. \A w \in Watches : lost' \intersect Range(emitted'[w]) = {}
        BY <3>0, <4>3
      <4>5. \A p \in lost' : p <= Len(sent') /\ (Subscribed' => p < rx')
        BY <4>1, <4>3
      <4>6. ~Subscribed' => rx' .. Len(sent') \subseteq lost'
        BY <4>1, <4>3
      <4>7. /\ phase' \in {"received", "emitting"} => Current' \notin lost'
            /\ phase' = "dead" => ~LockIsSound' /\ Current' \in lost'
        BY <4>1, <4>2, <4>3
      <4> QED BY <4>4, <4>5, <4>6, <4>7
    <3>3. ASSUME \/ Host \/ StageOverflow \/ UNCHANGED vars PROVE LossInv'
      <4>1. /\ UNCHANGED <<sent, rx, lost>>
            /\ phase' = phase \/ (phase = "down" /\ phase' = "starting")
            /\ poisoned' = poisoned \/ poisoned' = "yes"
        BY <3>3 DEF Host, Watch, Cancel, StartEntity, DropEntity, StageOverflow, vars
      <4>2. Current' = Current
        BY <4>1 DEF Current
      <4> QED BY <3>1, <4>1, <4>2
    <3>4. CASE Subscribe
      BY <3>1, <3>4 DEF Subscribe, Current
    <3>5. CASE RecvLagged
      <4>1. /\ phase = "listening" /\ rx < OldestRetained /\ rx' = OldestRetained
            /\ lost' = lost \union (rx .. OldestRetained - 1)
            /\ UNCHANGED <<poisoned, sent, phase>>
        BY <3>5 DEF RecvLagged, Lagging
      <4>2. \A w \in Watches : lost' \intersect Range(emitted'[w]) = {}
        BY <3>0, <4>1
      <4> QED BY <4>1, <4>2
    <3>6. CASE RecvOk
      BY <3>1, <3>6 DEF RecvOk, Current
    <3>7. CASE Snapshot
      BY <3>1, <3>7 DEF Snapshot, Current
    <3>8. CASE Die
      <4>1. /\ ~LockIsSound /\ phase = "received" /\ phase' = "dead"
            /\ lost' = lost \union (Current .. Len(sent))
            /\ Current' = Current
            /\ UNCHANGED <<poisoned, sent, rx>>
        BY <3>8 DEF Die, Current
      <4>2. \A w \in Watches : lost' \intersect Range(emitted'[w]) = {}
        BY <3>0, <4>1
      <4> QED BY <4>1, <4>2
    <3>9. CASE Exit
      <4>1. /\ phase \in {"starting", "listening", "dead"} /\ phase' = "down"
            /\ lost' = IF Subscribed THEN lost \union (rx .. Len(sent)) ELSE lost
            /\ UNCHANGED <<poisoned, sent, rx>>
        BY <3>9 DEF Exit
      <4>2. \A w \in Watches : lost' \intersect Range(emitted'[w]) = {}
        BY <3>0, <4>1
      <4> QED BY <4>1, <4>2
    <3>10. ASSUME NEW w \in Watches, Emit(w) PROVE FALSE
      <4>1. /\ emitted[w] \in Seq(Nat) /\ Current \in Nat
            /\ emitted[w] = Append(emitted[w], Current)
        BY <2>3, <3>10, EmitFacts
      <4> QED BY <4>1, AppendFacts
    <3> QED BY <3>2, <3>3, <3>4, <3>5, <3>6, <3>7, <3>8, <3>9, <3>10
            DEF Next, Webhook, Dispatcher
  <2>4. ASSUME NEW w \in Watches, Emit(w) PROVE LossInv'
    <3>1. /\ Current' = Current /\ phase = "emitting" /\ phase' \in {"emitting", "listening"}
          /\ UNCHANGED <<poisoned, sent, rx, lost>>
      BY <2>4, EmitFacts
    <3>2. ASSUME NEW v \in Watches PROVE lost \intersect Range(emitted'[v]) = {}
      <4>1. Range(emitted'[v]) \subseteq Range(emitted[v]) \union {Current}
        <5>1. CASE v # w
          BY <2>4, <5>1, EmitFacts
        <5>2. CASE v = w
          <6>1. /\ emitted'[v] = Append(emitted[v], Current)
                /\ emitted[v] \in Seq(Nat) /\ Current \in Nat
            BY <2>4, <5>2, EmitFacts
          <6> QED BY <6>1, AppendFacts
        <5> QED BY <5>1, <5>2
      <4> QED BY <3>1, <4>1 DEF LossInv
    <3>3. Subscribed /\ Subscribed' /\ (LockIsSound' <=> LockIsSound)
      BY <3>1 DEF Subscribed, LockIsSound
    <3> QED BY <3>1, <3>2, <3>3 DEF LossInv
  <2> QED BY <2>3, <2>4, OthersKeepEmitted
<1> QED BY <1>1, <1>2, TypeCorrect, DispatchCorrect, PTL DEF Spec

\* While a dispatcher listens, only an overflow of the channel loses a notice.
THEOREM OverflowOnly == Spec => LostOnlyByOverflow
<1>1. TypeOK /\ [Next]_vars =>
        [Subscribed /\ Subscribed' =>
           \A p \in lost' \ lost : p + NOTICE_CHANNEL_CAP <= Len(sent)]_vars
  <2> SUFFICES ASSUME TypeOK, [Next]_vars, Subscribed, Subscribed',
                      NEW p \in lost' \ lost
               PROVE  p + NOTICE_CHANNEL_CAP <= Len(sent)
    OBVIOUS
  <2>1. RecvLagged
    BY DEF Next, StageOverflow, Webhook, Host, Dispatcher, NotifyInbound, Watch, Cancel,
       StartEntity, DropEntity, Subscribe, RecvOk, Snapshot, Die, Emit, Exit, vars,
       Subscribed
  <2>2. p \in rx .. (OldestRetained - 1) /\ rx < OldestRetained
    BY <2>1 DEF RecvLagged, Lagging
  <2>3. Len(sent) \in Nat /\ rx \in Nat \ {0}
    BY DEF TypeOK
  <2> QED BY <2>2, <2>3, CapAssumption DEF OldestRetained
<1> QED BY <1>1, TypeCorrect, PTL DEF Spec, LostOnlyByOverflow

\* The last position of a non-empty sequence of positions is one of them.
LEMMA LastIsMember ==
    ASSUME NEW s \in Seq(Nat), s # <<>>
    PROVE  Len(s) \in DOMAIN s
OBVIOUS

\* The push refines the feed: every step is a step of the feed or leaves it be.
THEOREM Refinement == Spec => ImplementsFeed
<1>1. Init => Feed!FeedInit
  BY DEF Init, Feed!FeedInit
<1>2. TypeOK /\ DispatchInv /\ [Next]_vars => [Feed!FeedNext]_(Feed!feedVars)
  <2> SUFFICES ASSUME TypeOK, DispatchInv, [Next]_vars
               PROVE  [Feed!FeedNext]_(Feed!feedVars)
    OBVIOUS
  <2> USE DEF Feed!feedVars, hostVars, dispVars
  <2>1. ASSUME NEW k \in ALL_KINDS, NotifyInbound(k) PROVE Feed!FeedNext
    <3>1. Feed!Announce(k)
      BY <2>1 DEF NotifyInbound, Feed!Announce
    <3> QED BY <3>1 DEF Feed!FeedNext
  <2>2. ASSUME NEW w \in Watches, NEW ks \in SUBSET ALL_KINDS, Watch(w, ks)
        PROVE  Feed!FeedNext
    <3>1. Feed!Open(w, ks)
      BY <2>2 DEF Watch, Feed!Open
    <3> QED BY <3>1 DEF Feed!FeedNext
  <2>3. ASSUME NEW w \in Watches, Cancel(w) PROVE Feed!FeedNext
    <3>1. Feed!Close(w)
      BY <2>3 DEF Cancel, Feed!Close
    <3> QED BY <3>1 DEF Feed!FeedNext
  <2>4. ASSUME NEW w \in Watches, Emit(w) PROVE Feed!FeedNext
    <3>1. /\ emitted[w] \in Seq(Nat) /\ Current \in Nat /\ w \in emitters
          /\ phase = "emitting"
      BY <2>4, EmitFacts
    <3>2. /\ status[w] # "new"
          /\ sent[Current] \in kinds[w]
          /\ status[w] = "cancelled" => Current <= until[w]
      BY <3>1 DEF DispatchInv, EmitterInv
    <3>3. Current > Feed!LastEmitted(w)
      <4>1. Current > 0
        BY <3>1 DEF DispatchInv, Current, TypeOK
      <4>2. \A i \in DOMAIN emitted[w] : emitted[w][i] < Current
        BY <3>1 DEF DispatchInv, EmitterInv
      <4> QED BY <3>1, <4>1, <4>2, LastIsMember DEF Feed!LastEmitted
    <3>4. Current \in 1..Len(sent)
      BY <3>1 DEF DispatchInv, Current, TypeOK
    <3>5. Feed!Tick(w, Current)
      BY <2>4, <3>2, <3>3 DEF Emit, Feed!Tick
    <3> QED BY <3>4, <3>5 DEF Feed!FeedNext
  <2>5. CASE \/ StartEntity \/ DropEntity \/ Subscribe \/ RecvLagged \/ RecvOk
             \/ Snapshot \/ Die \/ Exit \/ StageOverflow \/ UNCHANGED vars
    BY <2>5 DEF StartEntity, DropEntity, Subscribe, RecvLagged, RecvOk,
       Snapshot, Die, Exit, StageOverflow, vars
  <2> QED BY <2>1, <2>2, <2>3, <2>4, <2>5 DEF Next, Webhook, Host, Dispatcher
<1> QED
  BY <1>1, <1>2, TypeCorrect, DispatchCorrect, PTL
  DEF Spec, ImplementsFeed, Feed!FeedSpec
=============================================================================
