---------------------------- MODULE Paging_proofs ----------------------------
(***************************************************************************)
(* Proofs about Paging, for any accounts, messages and page size.          *)
(***************************************************************************)
EXTENDS Paging, TLAPS

Marks == [account : Accounts, below : Nat]

\* What one page does, for one answer of Twilio.
PageStep(a, page, uri) ==
    /\ pages' = Append(pages, page \ NoSid)
    /\ cursor' = NextCursor(uri, page)
    /\ pc' = IF cursor' = None THEN "ended" ELSE "ready"
    /\ began' = IF cursor = None THEN a ELSE began
    /\ steady' = IF cursor = None THEN live[a] ELSE steady
    /\ UNCHANGED <<twilioVars, binding, held, cut>>

Rest == {m \in live[Requested.account] : m < Requested.below}

\* A page is the newest of the messages left, and its cursor says how far it
\* goes.
Answer(page, uri) ==
    /\ page \subseteq Rest
    /\ \A m \in page, k \in Rest \ page : k < m
    /\ uri \in NextPageUris(Requested.account, page, Rest)

LEMMA PageAnswers ==
    ASSUME Page
    PROVE  \E page, uri : Answer(page, uri) /\ PageStep(Requested.account, page, uri)
BY DEF Page, PagesOf, Answer, PageStep, Rest, Listed

\* Where a page starts from.
LEMMA RequestedType ==
    ASSUME TypeOK, CursorInv, OneAccount
    PROVE  /\ Requested \in Marks
           /\ cursor # None => Requested = cursor /\ Requested.account = began
           /\ cursor = None => Requested.account = held.account
                               /\ Requested.below = newest[held.account] + 1
BY DEF TypeOK, CursorInv, OneAccount, Requested, Marks, Cursors, Bindings

\* What the cursor may be after a page: none if it was the last, else the mark
\* of its oldest message.
LEMMA NextCursorIs ==
    ASSUME TypeOK, NEW page, NEW uri, Answer(page, uri), Requested \in Marks
    PROVE  \/ NextCursor(uri, page) = None /\ page = Rest
           \/ /\ NextCursor(uri, page) \in Marks
              /\ NextCursor(uri, page) # None
              /\ NextCursor(uri, page).account = Requested.account
              /\ NextCursor(uri, page).below \in page
              /\ \A m \in page : NextCursor(uri, page).below <= m
<1>1. page \subseteq Nat
  BY DEF Answer, Rest, TypeOK, Marks
<1>2. CASE page = Rest
  BY <1>2 DEF Answer, NextPageUris, NextCursor
<1>3. CASE page # Rest
  <2>1. PICK m \in page : /\ \A l \in page : m <= l
                          /\ uri = [account |-> Requested.account, below |-> m]
    BY <1>3 DEF Answer, NextPageUris
  <2>2. uri \in Marks
    BY <2>1, <1>1 DEF Marks
  <2>3. uri # None /\ uri # Empty
    BY <2>2, NoneAssumption DEF Marks
  <2> QED BY <2>1, <2>2, <2>3 DEF NextCursor
<1> QED BY <1>2, <1>3

-----------------------------------------------------------------------------
LEMMA TypeInit == Init => TypeOK
<1> SUFFICES ASSUME Init PROVE TypeOK
  OBVIOUS
<1>1. live \in [Accounts -> SUBSET Nat] /\ newest \in [Accounts -> Nat]
  BY DEF Init
<1>2. pages \in Seq(SUBSET Nat)
  <2> DEFINE S == SUBSET Nat
  <2> HIDE DEF S
  <2>1. pages \in Seq(S)
    BY DEF Init
  <2> QED BY <2>1 DEF S
<1>3. binding \in Bindings /\ held \in Bindings /\ cursor = None
  BY DEF Init
<1> QED BY <1>1, <1>2, <1>3 DEF Init, TypeOK

\* The cursor's account is of the binding that was asked, so its type needs
\* what OneAccount and CursorInv say of it.
LEMMA TypePage ==
    ASSUME IInv, Page
    PROVE  TypeOK'
<1> USE DEF IInv
<1>1. PICK page, uri : Answer(page, uri) /\ PageStep(Requested.account, page, uri)
  BY PageAnswers
<1>2. Requested \in Marks
  BY RequestedType
<1>3. page \subseteq Nat
  BY <1>1, <1>2 DEF Answer, Rest, TypeOK, Marks
<1>4. cursor' \in Cursors \union {None}
  BY <1>1, <1>2, NextCursorIs DEF PageStep, Marks, Cursors
<1>5. pages' \in Seq(SUBSET Nat)
  <2> DEFINE S == SUBSET Nat
  <2>1. pages \in Seq(S)
    BY DEF TypeOK
  <2>2. page \ NoSid \in S
    BY <1>3
  <2>3. pages' = Append(pages, page \ NoSid)
    BY <1>1 DEF PageStep
  <2>4. pages' \in Seq(S)
    <3> HIDE DEF S
    <3> QED BY <2>1, <2>2, <2>3
  <2> QED BY <2>4
<1>6. began' \in Accounts \union {None} /\ steady' \in SUBSET Nat
  BY <1>1, <1>2 DEF PageStep, TypeOK, Marks
<1> QED BY <1>1, <1>4, <1>5, <1>6 DEF PageStep, TypeOK, twilioVars

LEMMA TypeStep == IInv /\ [Next]_vars => TypeOK'
<1> SUFFICES ASSUME IInv, [Next]_vars PROVE TypeOK'
  OBVIOUS
<1> USE DEF TypeOK, twilioVars, ghostVars
<1>0. TypeOK
  BY DEF IInv
<1>1. ASSUME NEW a \in Accounts, Send(a) PROVE TypeOK'
  BY <1>0, <1>1 DEF Send
<1>2. ASSUME NEW a \in Accounts, NEW m \in live[a], Delete(a, m) PROVE TypeOK'
  BY <1>0, <1>2 DEF Delete
<1>3. ASSUME NEW b \in Bindings, RegisterProfile(b) PROVE TypeOK'
  BY <1>0, <1>3 DEF RegisterProfile
<1>4. ASSUME Ask PROVE TypeOK'
  BY <1>0, <1>4 DEF Ask
<1>5. ASSUME EmptyPage PROVE TypeOK'
  BY <1>0, <1>5 DEF EmptyPage
<1>6. ASSUME Fail PROVE TypeOK'
  BY <1>0, <1>6 DEF Fail
<1>7. CASE UNCHANGED vars
  BY <1>0, <1>7 DEF vars
<1> QED BY <1>1, <1>2, <1>3, <1>4, <1>5, <1>6, <1>7, TypePage DEF Next, ListResources

-----------------------------------------------------------------------------
(* The inductive invariant: a page, and every other step. *)

LEMMA InvPage ==
    ASSUME IInv, Page
    PROVE  CursorInv' /\ NewestFirst' /\ Complete' /\ OneAccount'
<1>0. TypeOK /\ CursorInv /\ NewestFirst /\ Complete /\ OneAccount
  BY DEF IInv
<1>1. PICK page, uri : Answer(page, uri) /\ PageStep(Requested.account, page, uri)
  BY PageAnswers
<1> DEFINE a == Requested.account
           below == Requested.below
<1>2. a \in Accounts /\ below \in Nat /\ Requested \in Marks
  BY <1>0, RequestedType DEF Marks
<1>3. /\ page \subseteq live[a]
      /\ \A m \in page : m < below
      /\ \A m \in live[a] \ page : m < below => \A k \in page : m < k
  BY <1>1 DEF Answer, Rest
<1>4. live[a] \subseteq 1..newest[a] /\ newest[a] \in Nat /\ live[a] \subseteq Nat
  BY <1>0, <1>2 DEF CursorInv, TypeOK
<1>5. /\ began' = a
      /\ cursor # None => began = a /\ cursor.below = below
      /\ live' = live /\ newest' = newest /\ cut' = cut
  BY <1>0, <1>1, RequestedType DEF PageStep, twilioVars
<1>6. \/ cursor' = None /\ page = Rest
      \/ /\ cursor' \in Marks /\ cursor' # None
         /\ cursor'.account = a /\ cursor'.below \in page
         /\ \A m \in page : cursor'.below <= m
  BY <1>0, <1>1, <1>2, NextCursorIs DEF PageStep
<1>7. pc = "asking"
  BY DEF Page
<1> DEFINE n == Len(pages)
<1>8. /\ pages' = Append(pages, page \ NoSid)
      /\ pages \in Seq(SUBSET Nat) /\ n \in Nat
      /\ cursor = None => pages = <<>>
  BY <1>0, <1>1, <1>7 DEF PageStep, CursorInv, TypeOK
<1>9. /\ DOMAIN pages = 1..n /\ DOMAIN pages' = 1..(n + 1)
      /\ \A i \in 1..n : pages'[i] = pages[i] /\ pages[i] \subseteq Nat
      /\ pages'[n + 1] = page \ NoSid
  <2>1. page \ NoSid \in SUBSET Nat
    BY <1>3, <1>4
  <2> QED BY <2>1, <1>8
<1>10. steady' \subseteq live[a] /\ (cursor # None => steady' = steady)
  BY <1>0, <1>1, <1>5, <1>2 DEF PageStep, CursorInv
\* The pages before are at or above the mark this one started from.
<1>11. \A i \in 1..n : \A m \in pages[i] : below <= m /\ m \in 1..newest[a]
  <2>1. CASE cursor = None
    <3>1. n = 0
      BY <2>1, <1>8
    <3> QED BY <3>1
  <2>2. CASE cursor # None
    BY <2>2, <1>0, <1>5, <1>9 DEF CursorInv, OneAccount
  <2> QED BY <2>1, <2>2
\* What is left out of all pages is below everything on this one.
<1>12. \A m \in steady' \ NoSid : below <= m => \E i \in DOMAIN pages' : m \in pages'[i]
  <2>1. CASE cursor = None
    <3>1. below = newest[a] + 1
      BY <2>1, <1>0, RequestedType
    <3> QED BY <3>1, <1>10, <1>4
  <2>2. CASE cursor # None
    <3> SUFFICES ASSUME NEW m \in steady \ NoSid, below <= m
                 PROVE  \E i \in DOMAIN pages' : m \in pages'[i]
      BY <2>2, <1>10
    <3>1. PICK i \in 1..n : m \in pages[i]
      BY <2>2, <1>0, <1>5, <1>9 DEF CursorInv
    <3> QED BY <3>1, <1>8, <1>9
  <2> QED BY <2>1, <2>2
<1>13. \A m \in steady' \ NoSid : m \in page => \E i \in DOMAIN pages' : m \in pages'[i]
  BY <1>8, <1>9
<1>14. NewestFirst'
  <2> SUFFICES ASSUME NEW i \in 1..(n + 1), NEW j \in 1..(n + 1), i < j,
                      NEW m \in pages'[i], NEW k \in pages'[j]
               PROVE  k < m
    BY <1>9 DEF NewestFirst
  <2>1. i \in 1..n /\ m \in pages[i] /\ m \in Nat
    BY <1>8, <1>9
  <2>2. CASE j \in 1..n
    BY <2>1, <2>2, <1>0, <1>9 DEF NewestFirst
  <2>3. CASE j = n + 1
    <3>1. k \in page
      BY <2>3, <1>9
    <3> QED BY <3>1, <2>1, <1>2, <1>3, <1>4, <1>11
  <2> QED BY <2>2, <2>3, <1>8
<1>15. OneAccount'
  <2>1. \A i \in DOMAIN pages' : pages'[i] \subseteq 1..newest[a]
    <3> SUFFICES ASSUME NEW i \in 1..(n + 1) PROVE pages'[i] \subseteq 1..newest[a]
      BY <1>9
    <3>1. CASE i \in 1..n
      BY <3>1, <1>9, <1>11
    <3>2. CASE i = n + 1
      BY <3>2, <1>9, <1>3, <1>4
    <3> QED BY <3>1, <3>2, <1>8
  <2>2. cursor' # None => cursor'.account = a
    BY <1>6
  <2> QED BY <2>1, <2>2, <1>5 DEF OneAccount
<1>16. CursorInv'
  <2>1. \A b \in Accounts : live'[b] \subseteq 1..newest'[b]
    BY <1>0, <1>5 DEF CursorInv
  <2>2. began' # None /\ steady' \subseteq live'[began']
    BY <1>5, <1>10, <1>2, NoneAssumption
  <2>3. cursor' = None => pc' = "ended"
    BY <1>1 DEF PageStep
  <2>4. ASSUME cursor' # None, NEW i \in DOMAIN pages', NEW m \in pages'[i]
        PROVE  cursor'.below <= m
    <3>1. CASE i = n + 1
      BY <3>1, <2>4, <1>6, <1>9
    <3>2. CASE i \in 1..n
      <4>1. cursor'.below \in page /\ below <= m /\ m \in Nat
        BY <3>2, <2>4, <1>6, <1>9, <1>11
      <4> QED BY <4>1, <1>2, <1>3, <1>4
    <3> QED BY <3>1, <3>2, <1>8, <1>9
  <2>5. ASSUME cursor' # None, NEW m \in steady' \ NoSid, cursor'.below <= m
        PROVE  \E i \in DOMAIN pages' : m \in pages'[i]
    <3>1. cursor'.below \in page /\ m \in Nat /\ m \in live[a]
      BY <2>5, <1>4, <1>6, <1>10
    <3>2. below <= m \/ m \in page
      BY <3>1, <2>5, <1>2, <1>3, <1>4
    <3> QED BY <3>2, <2>5, <1>12, <1>13
  <2> QED BY <2>1, <2>2, <2>3, <2>4, <2>5 DEF CursorInv
<1>17. Complete'
  <2> SUFFICES ASSUME pc' = "ended", NEW m \in steady' \ NoSid
               PROVE  \E i \in DOMAIN pages' : m \in pages'[i]
    BY DEF Complete
  <2>1. cursor' = None /\ page = Rest
    BY <1>1, <1>6 DEF PageStep
  <2>2. m \in live[a] /\ m \in Nat
    BY <1>4, <1>10
  <2>3. below <= m \/ m \in page
    BY <2>1, <2>2, <1>2 DEF Rest
  <2> QED BY <2>3, <1>12, <1>13
<1> QED BY <1>14, <1>15, <1>16, <1>17

LEMMA InvStep == IInv /\ [Next]_vars => (CursorInv /\ NewestFirst /\ Complete /\ OneAccount)'
<1> SUFFICES ASSUME IInv, [Next]_vars
             PROVE  (CursorInv /\ NewestFirst /\ Complete /\ OneAccount)'
  OBVIOUS
<1>0. TypeOK /\ CursorInv /\ NewestFirst /\ Complete /\ OneAccount
  BY DEF IInv
<1> USE DEF twilioVars, ghostVars
<1>1. ASSUME NEW a \in Accounts, Send(a)
      PROVE  (CursorInv /\ NewestFirst /\ Complete /\ OneAccount)'
  <2>1. /\ newest[a] \in Nat /\ newest'[a] = newest[a] + 1
        /\ live'[a] = live[a] \union {newest[a] + 1}
        /\ \A b \in Accounts : b # a => newest'[b] = newest[b] /\ live'[b] = live[b]
    BY <1>0, <1>1 DEF Send, TypeOK
  <2>2. \A b \in Accounts : /\ live'[b] \subseteq 1..newest'[b]
                            /\ 1..newest[b] \subseteq 1..newest'[b]
                            /\ live[b] \subseteq live'[b]
    <3> SUFFICES ASSUME NEW b \in Accounts
                 PROVE  /\ live'[b] \subseteq 1..newest'[b]
                        /\ 1..newest[b] \subseteq 1..newest'[b]
                        /\ live[b] \subseteq live'[b]
      OBVIOUS
    <3>1. live[b] \subseteq 1..newest[b] /\ newest[b] \in Nat
      BY <1>0 DEF CursorInv, TypeOK
    <3> QED BY <3>1, <2>1
  <2>3. began # None => began \in Accounts
    BY <1>0 DEF TypeOK
  <2>4. UNCHANGED <<pc, cursor, pages, began, steady, cut>>
    BY <1>1 DEF Send
  <2>5. \A i \in DOMAIN pages : pages[i] \subseteq 1..newest'[began]
    <3> SUFFICES ASSUME NEW i \in DOMAIN pages PROVE pages[i] \subseteq 1..newest'[began]
      OBVIOUS
    <3>1. began # None
      BY <1>0 DEF CursorInv
    <3> QED BY <3>1, <1>0, <2>2, <2>3 DEF OneAccount
  <2>6. CursorInv'
    BY <1>0, <2>2, <2>3, <2>4 DEF CursorInv
  <2> QED BY <1>0, <2>4, <2>5, <2>6 DEF NewestFirst, Complete, OneAccount
<1>2. ASSUME NEW a \in Accounts, NEW m \in live[a], Delete(a, m)
      PROVE  (CursorInv /\ NewestFirst /\ Complete /\ OneAccount)'
  <2>1. UNCHANGED <<newest, pc, cursor, pages, began, cut>> /\ steady' \subseteq steady
    BY <1>2 DEF Delete
  <2>2. \A b \in Accounts : live'[b] = IF b = a THEN live[b] \ {m} ELSE live[b]
    BY <1>0, <1>2 DEF Delete, TypeOK
  <2>3. began # None => began \in Accounts
    BY <1>0 DEF TypeOK
  <2>4. began # None => steady' \subseteq live'[began]
    BY <1>0, <1>2, <2>2, <2>3 DEF CursorInv, Delete
  <2>5. \A b \in Accounts : live'[b] \subseteq 1..newest'[b]
    BY <1>0, <2>1, <2>2 DEF CursorInv
  <2>6. CursorInv'
    BY <1>0, <2>1, <2>4, <2>5 DEF CursorInv
  <2> QED BY <1>0, <2>1, <2>6 DEF NewestFirst, Complete, OneAccount
<1>3. ASSUME UNCHANGED <<live, newest, cursor, pages, began, steady>>,
             pc' = pc \/ (pc # "ended" /\ pc' # "ended") \/ (pc' = "ended" /\ cut'),
             pc' = pc => cut' = cut
      PROVE  (CursorInv /\ NewestFirst /\ Complete /\ OneAccount)'
  <2>1. CursorInv'
    BY <1>0, <1>3 DEF CursorInv
  <2>2. Complete'
    BY <1>0, <1>3 DEF Complete
  <2> QED BY <1>0, <1>3, <2>1, <2>2 DEF NewestFirst, OneAccount
<1>4. ASSUME NEW b \in Bindings, RegisterProfile(b)
      PROVE  (CursorInv /\ NewestFirst /\ Complete /\ OneAccount)'
  BY <1>3, <1>4 DEF RegisterProfile
<1>5. ASSUME Ask PROVE (CursorInv /\ NewestFirst /\ Complete /\ OneAccount)'
  BY <1>3, <1>5 DEF Ask
<1>6. ASSUME EmptyPage PROVE (CursorInv /\ NewestFirst /\ Complete /\ OneAccount)'
  BY <1>3, <1>6 DEF EmptyPage
<1>7. ASSUME Fail PROVE (CursorInv /\ NewestFirst /\ Complete /\ OneAccount)'
  BY <1>3, <1>7 DEF Fail
<1>8. CASE UNCHANGED vars
  BY <1>3, <1>8 DEF vars
<1> QED BY <1>1, <1>2, <1>4, <1>5, <1>6, <1>7, <1>8, InvPage DEF Next, ListResources

LEMMA InvInit == Init => IInv
BY TypeInit DEF Init, IInv, CursorInv, NewestFirst, Complete, OneAccount

-----------------------------------------------------------------------------
\* What is listed, what is left and the cursor agree, through any number of
\* pages, failures and registrations: the inductive invariant
\* (rest.rs:142-223, backend_plugin.rs:198-217).
THEOREM Invariance == Spec => []IInv
<1>1. IInv /\ [Next]_vars => IInv'
  BY TypeStep, InvStep DEF IInv
<1> QED BY <1>1, InvInit, PTL DEF Spec

\* Every reachable state is well typed; no cursor is an empty path.
THEOREM TypeCorrect == Spec => []TypeOK
<1>1. IInv => TypeOK
  BY DEF IInv
<1> QED BY <1>1, Invariance, PTL

\* No message is listed twice, and the pages go back in time, for any
\* messages and pages of any length (rest.rs:178-193, 196-223).
THEOREM NeverTwice == Spec => []NewestFirst
<1>1. IInv => NewestFirst
  BY DEF IInv
<1> QED BY <1>1, Invariance, PTL

\* A traversal that ends has listed every message there was all along
\* (backend_plugin.rs:198-217).
THEOREM NothingMissed == Spec => []Complete
<1>1. IInv => Complete
  BY DEF IInv
<1> QED BY <1>1, Invariance, PTL

\* A traversal stays with the account it began with, whatever the binding has
\* become (rest.rs:202).
THEOREM StaysWithAccount == Spec => []OneAccount
<1>1. IInv => OneAccount
  BY DEF IInv
<1> QED BY <1>1, Invariance, PTL
=============================================================================
