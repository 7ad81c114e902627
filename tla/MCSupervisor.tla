---------------------------- MODULE MCSupervisor ----------------------------
(* Supervisor on small instances. *)
EXTENDS Supervisor

CONSTANTS p1, p2, p3, p4

ThreePids == {p1, p2, p3}
FourPids == {p1, p2, p3, p4}
Worker == {"bridge_worker"}
WorkerAndTailer == {"bridge_worker", "openclaw_tailer"}
Daemon == {"sparkd"}
=============================================================================
