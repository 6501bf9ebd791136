------------------------------ MODULE MCPaging -------------------------------
EXTENDS Paging

CONSTANTS
    MaxMessages,    \* messages ever sent to each account
    MaxPages        \* pages of one traversal; more than there are messages

MCListResources == Len(pages) < MaxPages /\ ListResources

MCNext ==
    \/ \E a \in Accounts : \/ newest[a] < MaxMessages /\ Send(a)
                           \/ \E m \in live[a] : Delete(a, m)
    \/ \E b \in Bindings : b # binding /\ RegisterProfile(b)
    \/ Ask
    \/ MCListResources

MCSpec == Init /\ [][MCNext]_vars /\ WF_vars(Ask) /\ WF_vars(MCListResources)
=============================================================================
