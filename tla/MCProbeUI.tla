------------------------------- MODULE MCProbeUI -------------------------------
(* One page beside the display; any buttons in any order.                       *)
EXTENDS ProbeUI

===============================================================================
