-------------------------- MODULE MCDiscoverySession --------------------------
(* TLC instances of DiscoverySession with the callers the UIs have: the TFT's  *)
(* button loop and the dashboard press start, select, skip and cancel, one     *)
(* after the other.                                                            *)
EXTENDS DiscoverySessionInv

UIOps == {"start", "select", "skip", "cancel"}

StartThenCancel == {"start", "cancel"}

===============================================================================
