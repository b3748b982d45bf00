---------------------------- MODULE MCMtuDiscovery ----------------------------
(* MtuDiscovery with the events of ndp/web/server.py:631-647.                  *)
EXTENDS MtuDiscovery

DoneOrStopped == {"done", "stopped"}

===============================================================================
