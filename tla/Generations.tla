---------------------------- MODULE Generations ----------------------------
(***************************************************************************)
(* What a Profile advancement promises: the generation a Workspace is in   *)
(* moves in one step or not at all, only to one that may follow it, and    *)
(* the step that moves it records the move.  There are no files, markers,  *)
(* locks, crashes or recoveries here.                                      *)
(***************************************************************************)
CONSTANTS
    First,              \* the generation a Workspace begins with
    MayFollow(_, _)     \* what one advancement may change

VARIABLES
    current,    \* the generation the Workspace is in
    moves       \* the moves made so far: [from, to]

Init == current = First /\ moves = {}

Move ==
    /\ current' # current /\ MayFollow(current, current')
    /\ moves' = moves \cup {[from |-> current, to |-> current']}

Spec == Init /\ [][Move]_<<current, moves>>
=============================================================================
