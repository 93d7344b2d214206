----------------------- MODULE MCCoordinationIdentity -----------------------
(* Two commands at a time: p1 presents one run and claims in either worktree;   *)
(* p2, in one of them, does everything, by its marker or as nobody or presenting *)
(* another run.                                                                  *)
EXTENDS CoordinationIdentity
CONSTANTS p1, p2, s1, s2, w1, w2, e1, e2

MCSession == [p \in Processes |-> IF p = p1 THEN s1 ELSE s2]
MCTrees == [p \in Processes |-> IF p = p1 THEN Worktrees ELSE {w1}]
MCEnvironment == [p \in Processes |-> IF p = p1 THEN e1 ELSE None]
MCArguments == [p \in Processes |-> IF p = p1 THEN {} ELSE {e2}]
MCCommands == [p \in Processes |-> IF p = p1 THEN {"claim"} ELSE Verbs]
\* The marker of w1 is damaged one way or the other, w2 has none.
MCFound == [w \in Worktrees |-> IF w = w1 THEN {Malformed, Unreadable} ELSE {None}]
=============================================================================
