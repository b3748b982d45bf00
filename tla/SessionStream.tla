----------------------------- MODULE SessionStream -----------------------------
(* What a session that streams its events promises the pages that follow it    *)
(* (ndp/ping/live.py, ndp/mtu/discover.py and their endpoints in server.py):   *)
(* every event goes to one page, in the order the session reported them, and   *)
(* none once the page's stream has ended.  The end is announced only when the  *)
(* session is over, a session nobody stops reports nothing else after it, and  *)
(* a stream that ends without the announcement has left nothing behind.        *)
EXTENDS Sequences

CONSTANTS
    Pages,
    Reports,    \* the events a session can report
    Endings,    \* the types of those that announce its end
    EndsItself  \* the session comes to an end that nobody asked for

VARIABLES
    pending,    \* reported, and given to no page yet
    given,      \* what each page was given
    over,       \* the session has nothing more to do
    stopped,    \* somebody asked it to stop
    ended       \* the pages whose stream the server has ended

vars == <<pending, given, over, stopped, ended>>

Init ==
    /\ pending = <<>>
    /\ given = [p \in Pages |-> <<>>]
    /\ over = FALSE
    /\ stopped = FALSE
    /\ ended = {}

\* A stop only makes the session stop soon: what it was at is still reported.
Report(e) ==
    /\ e.type \in Endings => over
    /\ over => e.type \in Endings \/ stopped
    /\ pending' = Append(pending, e)
    /\ UNCHANGED <<given, over, stopped, ended>>

Stop ==
    /\ stopped' = TRUE
    /\ UNCHANGED <<pending, given, over, ended>>

End ==
    /\ stopped \/ EndsItself
    /\ over' = TRUE
    /\ UNCHANGED <<pending, given, stopped, ended>>

\* The announcement is the last a page is given.
Deliver(p) ==
    /\ p \notin ended
    /\ pending # <<>>
    /\ given' = [given EXCEPT ![p] = Append(given[p], Head(pending))]
    /\ pending' = Tail(pending)
    /\ ended' = IF Head(pending).type \in Endings THEN ended \cup {p} ELSE ended
    /\ UNCHANGED <<over, stopped>>

\* Another page may have been given the announcement.
Close(p) ==
    /\ p \notin ended
    /\ over \/ stopped
    /\ pending = <<>>
    /\ ended' = ended \cup {p}
    /\ UNCHANGED <<pending, given, over, stopped>>

Next == \/ \E e \in Reports : Report(e)
        \/ Stop
        \/ End
        \/ \E p \in Pages : Deliver(p) \/ Close(p)

Spec == Init /\ [][Next]_vars

===============================================================================
