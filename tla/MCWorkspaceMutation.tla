------------------------ MODULE MCWorkspaceMutation ------------------------
(* Small instances of WorkspaceMutation for TLC.                             *)
EXTENDS WorkspaceMutation

CONSTANTS o1, o2, sa, sb, n1, n2

MCOps == {o1, o2}
MCSourceIds == {sa, sb}
MCSnapshots == {n1, n2}
=============================================================================
