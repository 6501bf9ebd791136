-------------------------------- MODULE Paging -------------------------------
(***************************************************************************)
(* resources/list over the messages of a binding: a client goes from page  *)
(* to page by the cursor it was given                                      *)
(* (TwilioBackendPlugin::list_resources, src/src/backend_plugin.rs;        *)
(* TwilioRest::list and list_cursor, src/src/rest.rs;                      *)
(* messages_to_resource_page, src/src/surface.rs).                         *)
(*                                                                         *)
(* The gateway keeps nothing between two pages: the cursor is Twilio's     *)
(* next_page_uri, a path with the account in it, and is followed with the  *)
(* credentials of whatever the binding is by then.  Meanwhile messages are *)
(* sent and deleted, and the binding is registered again.                  *)
(*                                                                         *)
(* Twilio is external: a message is its rank by age, the newest the        *)
(* greatest, and a page is the newest of those below a mark, of any length *)
(* up to the page size.  A page is the set of its messages.                *)
(***************************************************************************)
EXTENDS Naturals, Sequences, FiniteSets

CONSTANTS
    Accounts,   \* Twilio accounts
    NoSid,      \* messages whose record has no sid
    PAGE_SIZE,  \* records of a page
    None,       \* no cursor; next_page_uri: null
    Empty       \* next_page_uri: ""

ASSUME PageAssumption == PAGE_SIZE \in Nat \ {0}
ASSUME NoneAssumption == None \notin Accounts \union [account : Accounts, below : Nat]
                         /\ Empty \notin [account : Accounts, below : Nat]

VARIABLES
    live,       \* per account: its messages
    newest,     \* per account: how many there ever were
    binding,    \* the profile: its account, and whether it lists messages
    pc,         \* the client: "ready", "asking", "failed" or "ended"
    cursor,     \* of the page it asks for
    held,       \* the profile its call looked up
    pages,      \* the pages it has
    \* What the code does not keep, to state properties with:
    began,      \* the account of the first page
    steady,     \* that account's messages since then, but for those deleted
    cut         \* whether the binding no longer listed messages

twilioVars == <<live, newest>>
ghostVars == <<began, steady, cut>>
vars == <<twilioVars, binding, pc, cursor, held, pages, ghostVars>>

Bindings == [account : Accounts, lists : BOOLEAN]

Cursors == [account : Accounts, below : Nat]

-----------------------------------------------------------------------------
Init ==
    /\ live = [a \in Accounts |-> {}]
    /\ newest = [a \in Accounts |-> 0]
    /\ binding \in Bindings
    /\ pc = "ready"
    /\ cursor = None
    /\ held = binding
    /\ pages = <<>>
    /\ began = None
    /\ steady = {}
    /\ cut = FALSE

(* Twilio, and the operator. *)

Send(a) ==
    /\ newest' = [newest EXCEPT ![a] = @ + 1]
    /\ live' = [live EXCEPT ![a] = @ \union {newest[a] + 1}]
    /\ UNCHANGED <<binding, pc, cursor, held, pages, ghostVars>>

Delete(a, m) ==
    /\ live' = [live EXCEPT ![a] = @ \ {m}]
    /\ steady' = IF a = began THEN steady \ {m} ELSE steady
    /\ UNCHANGED <<newest, binding, pc, cursor, held, pages, began, cut>>

RegisterProfile(b) ==
    /\ binding' = b
    /\ UNCHANGED <<twilioVars, pc, cursor, held, pages, ghostVars>>

(* One call. *)

\* The client asks for the next page, or again for one it did not get; the
\* call looks its profile up.
Ask ==
    /\ pc \in {"ready", "failed"}
    /\ pc' = "asking"
    /\ held' = binding
    /\ UNCHANGED <<twilioVars, binding, cursor, pages, ghostVars>>

\* A binding of any other operation has no page and no more.
EmptyPage ==
    /\ pc = "asking"
    /\ ~held.lists
    /\ pc' = "ended"
    /\ cut' = TRUE
    /\ UNCHANGED <<twilioVars, binding, cursor, held, pages, began, steady>>

\* Slips: every page is the first; the mark, in the profile's own account.
SlipFirstPage == [account |-> held.account, below |-> newest[held.account] + 1]

SlipOwnAccount ==
    [account |-> held.account,
     below |-> IF cursor = None THEN newest[held.account] + 1 ELSE cursor.below]

\* The account whose collection is asked for, and from where: list has the
\* account of the profile, list_cursor that of the path.
Requested ==
    IF cursor = None THEN [account |-> held.account, below |-> newest[held.account] + 1]
    ELSE cursor

\* What Twilio may answer of the messages left.
PagesOf(rest) ==
    {page \in SUBSET rest :
        /\ Cardinality(page) <= PAGE_SIZE
        /\ rest # {} => page # {}
        /\ \A m \in page, k \in rest \ page : k < m}

\* Null or empty after the last page, else a path with the oldest as mark.
NextPageUris(a, page, rest) ==
    IF page = rest THEN {None, Empty}
    ELSE {[account |-> a, below |-> m] : m \in {k \in page : \A l \in page : k <= l}}

\* Slip: a page that is not full is the last.
SlipShortIsLast(uri, page) ==
    IF uri = Empty \/ Cardinality(page) < PAGE_SIZE THEN None ELSE uri

\* An empty next_page_uri is none.
NextCursor(uri, page) == IF uri = Empty THEN None ELSE uri

\* messages_to_resource_page: what has no sid is left out.
Listed(page) == page \ NoSid

\* A page.  Twilio may serve the path of one account to the credentials of
\* another, its parent's.
Page ==
    /\ pc = "asking"
    /\ held.lists
    /\ LET a == Requested.account
           rest == {m \in live[a] : m < Requested.below}
       IN  /\ \E page \in PagesOf(rest) : \E uri \in NextPageUris(a, page, rest) :
                /\ pages' = Append(pages, Listed(page))
                /\ cursor' = NextCursor(uri, page)
                /\ pc' = IF cursor' = None THEN "ended" ELSE "ready"
           /\ began' = IF cursor = None THEN a ELSE began
           /\ steady' = IF cursor = None THEN live[a] ELSE steady
    /\ UNCHANGED <<twilioVars, binding, held, cut>>

\* A rejection, as the credentials of another account may meet, a fault or a
\* timeout: an error, and no page.
Fail ==
    /\ pc = "asking"
    /\ held.lists
    /\ pc' = "failed"
    /\ UNCHANGED <<twilioVars, binding, cursor, held, pages, ghostVars>>

ListResources == EmptyPage \/ Page \/ Fail

Next ==
    \/ \E a \in Accounts : Send(a) \/ \E m \in live[a] : Delete(a, m)
    \/ \E b \in Bindings : RegisterProfile(b)
    \/ Ask
    \/ ListResources

Spec == Init /\ [][Next]_vars

\* The client asks until it is told that there is no more; a call is answered,
\* or ends by its timeout (RestCall).
Fairness == WF_vars(Ask) /\ WF_vars(ListResources)

-----------------------------------------------------------------------------
\* Type invariant.  A cursor is a path, never an empty one.
TypeOK ==
    /\ live \in [Accounts -> SUBSET Nat] /\ newest \in [Accounts -> Nat]
    /\ binding \in Bindings /\ held \in Bindings
    /\ pc \in {"ready", "asking", "failed", "ended"}
    /\ cursor \in Cursors \union {None}
    /\ pages \in Seq(SUBSET Nat)
    /\ began \in Accounts \union {None} /\ steady \in SUBSET Nat /\ cut \in BOOLEAN

\* However messages come and go, and whatever becomes of the binding, no
\* message is listed twice, and the pages go back in time
\* (rest.rs:178-193, 196-223).
NewestFirst ==
    \A i, j \in DOMAIN pages : i < j => \A m \in pages[i], k \in pages[j] : k < m

\* Every message there was from the first page to the last is listed when the
\* client is told that there is no more, unless the binding was registered
\* again as one that lists no messages: pages that are short, of two accounts
\* or not got at the first time do not end it early
\* (backend_plugin.rs:198-217, rest.rs:182-189).
Complete ==
    pc = "ended" /\ ~cut =>
        \A m \in steady \ NoSid : \E i \in DOMAIN pages : m \in pages[i]

\* The pages are of one account, of which all that is listed was once a
\* message, though the binding may be of another by now (rest.rs:202).
OneAccount ==
    /\ cursor # None => cursor.account = began
    /\ \A i \in DOMAIN pages : pages[i] \subseteq 1..newest[began]

\* What the pages so far have to do with the cursor: all that is at or above
\* its mark is listed, and nothing else is.
CursorInv ==
    /\ \A a \in Accounts : live[a] \subseteq 1..newest[a]
    /\ began = None => pages = <<>> /\ steady = {}
    /\ began # None => steady \subseteq live[began]
    /\ cursor = None /\ pc # "ended" => pages = <<>>
    /\ cursor # None =>
         /\ began # None
         /\ \A i \in DOMAIN pages : \A m \in pages[i] : cursor.below <= m
         /\ \A m \in steady \ NoSid :
                cursor.below <= m => \E i \in DOMAIN pages : m \in pages[i]

\* The inductive invariant.
IInv == TypeOK /\ CursorInv /\ NewestFirst /\ Complete /\ OneAccount

\* A client that follows the cursors comes to the end, however many messages
\* are sent meanwhile, if its calls do not fail again and again
\* (rest.rs:163-193).
TraversalEnds == <>(pc = "ended") \/ []<>(pc = "failed")
=============================================================================
