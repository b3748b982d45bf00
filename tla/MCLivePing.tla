------------------------------ MODULE MCLivePing ------------------------------
(* LivePing with the events of ndp/web/server.py:330-346.                      *)
EXTENDS LivePing

Done == {"done"}

\* The bound of a run: a second page, or a second stop(), comes only where the second
\* host could not be pinged.
TwoHostsOrTwoPages ==
    \/ /\ \A c \in Consumers \ {1} : cpc'[c] = "new"
       /\ \A s \in Stoppers \ {1} : spc'[s] = 1
    \/ \A h \in Hosts \ {1} : pc[h] = "gone" /\ seq[h] = 0

===============================================================================
