-------------------------- MODULE MCPendingImport --------------------------
(* A home of two databases, one helper.                                    *)
EXTENDS PendingImport

TwoKinds == {1, 2}
=============================================================================
