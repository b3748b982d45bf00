------------------------------ MODULE MCShutdown ------------------------------
(* The hotspot with its watchdog, one page that restarts it, one command line    *)
(* and two shutdown threads.                                                     *)
EXTENDS Shutdown

\* The bound of a run: of a request, a command, a new configuration and a failure
\* one happens, and the threads, which are all alike, begin in the order of their
\* numbers.
OneEvent ==
    /\ requests' + faults' <= 1
    /\ \A s, t \in Stoppers : s < t /\ spc'[t] # "none" => spc'[s] # "none"

===============================================================================
