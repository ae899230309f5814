----------------------------- MODULE WorkerGoals -----------------------------
(***************************************************************************)
(* The goals the GC workers work towards (scheduler/worker_goals.rs): a    *)
(* set of requested goals, and the rule that picks the next one.           *)
(***************************************************************************)

\* `enum WorkerGoal`, listed from the highest priority to the lowest.
GoalGc == "Gc"
GoalStopForFork == "StopForFork"
Goals == {GoalGc, GoalStopForFork}

\* `Option::None`: no current goal, or nothing requested.
NoGoal == "None"

\* `set_request`: the requests after `goal` was requested.
SetRequest(requests, goal) == requests \cup {goal}

\* `set_request` answers whether the request is new.
NewlyRequested(requests, goal) == goal \notin requests

\* `poll_next_goal`: the requested goal of the highest priority.
PollNextGoal(requests) ==
    IF GoalGc \in requests THEN GoalGc
    ELSE IF GoalStopForFork \in requests THEN GoalStopForFork
    ELSE NoGoal

\* `poll_next_goal` also takes the goal it returns out of the requests.
RequestsAfterPoll(requests) == requests \ {PollNextGoal(requests)}
=============================================================================
