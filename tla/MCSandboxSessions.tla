-------------------------- MODULE MCSandboxSessions --------------------------
(* Instances of SandboxSessions for TLC.  Requests are interchangeable.    *)
EXTENDS SandboxSessions, TLC

Symmetry == Permutations(Requests) \cup Permutations(Specs)
=============================================================================
