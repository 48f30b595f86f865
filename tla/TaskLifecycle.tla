--------------------------- MODULE TaskLifecycle ---------------------------
(***************************************************************************)
(* What the queues kept in a table promise of one row, whatever its columns  *)
(* are called: the row waits, is worked on in numbered turns, and ends; only *)
(* the turn in force ends it, gives it back, or writes its outcome, and a    *)
(* done row keeps the outcome of the turn that ended it.  A reopened row     *)
(* counts its turns from the start.  ParseQueue and ExtractionQueue are      *)
(* checked against this specification.                                       *)
(***************************************************************************)
EXTENDS Naturals

VARIABLES
    state,     \* where the row stands
    turn,      \* the number of the turn in force
    outcome    \* the turn whose work is the row's outcome, 0 when there is none

taskVars == <<state, turn, outcome>>

TaskInit ==
    /\ state = "waiting"
    /\ turn = 0
    /\ outcome = 0

Take ==
    /\ state \in {"waiting", "working"}
    /\ state' = "working"
    /\ turn' = turn + 1
    /\ UNCHANGED outcome

Publish ==
    /\ state = "working"
    /\ state' = "done"
    /\ outcome' = turn
    /\ UNCHANGED turn

Leave ==
    /\ state = "working"
    /\ state' \in {"waiting", "failed"}
    /\ UNCHANGED <<turn, outcome>>

\* A user ends a row that has not ended.
Withdraw ==
    /\ state \in {"waiting", "working"}
    /\ state' = "failed"
    /\ UNCHANGED <<turn, outcome>>

Reopen ==
    /\ state = "failed"
    /\ state' = "waiting"
    /\ turn' = 0
    /\ UNCHANGED outcome

TaskNext == Take \/ Publish \/ Leave \/ Withdraw \/ Reopen
TaskSpec == TaskInit /\ [][TaskNext]_taskVars
=============================================================================
