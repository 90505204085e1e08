----------------------------- MODULE MCTaskQueue -----------------------------
(* Instances of TaskQueue for TLC: two chats of one project.               *)
EXTENDS TaskQueue, TLC

CONSTANTS c1, c2, w1, w2, p

OneProject == [c \in {c1, c2} |-> p]

\* Processes are interchangeable, and so are the two chats of one project.
Symmetry == Permutations(Workers) \cup Permutations(Chats)
=============================================================================
