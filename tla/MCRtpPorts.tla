----------------------------- MODULE MCRtpPorts -----------------------------
(***************************************************************************)
(* RtpPorts for TLC: three servers that compete for the ports, under the   *)
(* faults of the network and the engine, and with close() calls that come  *)
(* twice or late, when the port may be another server's; and two servers   *)
(* under every fault.                                                      *)
(***************************************************************************)
EXTENDS RtpPorts

CONSTANTS r1, r2, r3

MCServer == {r1, r2, r3}

MCScenarios ==
  {[servers |-> MCServer, faults |-> {"noEngine", "bindError", "analysisError"}],
   [servers |-> MCServer, faults |-> {"double", "late"}],
   [servers |-> {r1, r2}, faults |-> Fault]}

=============================================================================
