---------------------------- MODULE MCKernelJobs ----------------------------
(* One thread that submits, one lane and one key.                          *)
EXTENDS KernelJobs

CONSTANTS ui, poller, lane, once

MCCallers == {ui}
MCSlots == {lane}
MCKeys == {once}
=============================================================================
