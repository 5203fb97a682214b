---------------------------- MODULE TaskControl ----------------------------
(***************************************************************************)
(* What an Agent Space promises the user: the agent works on a task only   *)
(* while it has control of it; the moment the user takes control, or the   *)
(* task ends, nothing of the agent is still at work there; and a task that *)
(* is over never starts again.                                             *)
(***************************************************************************)
CONSTANTS
    Spaces,     \* the tasks
    Calls       \* the tool calls of the agents

VARIABLES
    control,    \* who controls each task: none, agent, user or over
    working     \* <<c, s>> when call c is at work in task s

tvars == <<control, working>>

In(S) == {w \in working : w[2] \in S}

Init ==
    /\ control = [s \in Spaces |-> "none"]
    /\ working = {}

Begin(s) ==
    /\ control[s] = "none"
    /\ control' = [control EXCEPT ![s] = "agent"]
    /\ UNCHANGED working

Work(c, s) ==
    /\ control[s] = "agent"
    /\ working' = working \cup {<<c, s>>}
    /\ UNCHANGED control

Rest ==
    /\ working' \subseteq working
    /\ UNCHANGED control

ToUser(s) ==
    /\ control[s] = "agent"
    /\ control' = [control EXCEPT ![s] = "user"]
    /\ working' = working \ In({s})

ToAgent(s) ==
    /\ control[s] = "user"
    /\ control' = [control EXCEPT ![s] = "agent"]
    /\ UNCHANGED working

End(S) ==
    /\ control' = [s \in Spaces |-> IF s \in S THEN "over" ELSE control[s]]
    /\ working' = working \ In(S)

Next ==
    \/ \E s \in Spaces : Begin(s) \/ ToUser(s) \/ ToAgent(s)
    \/ \E c \in Calls, s \in Spaces : Work(c, s)
    \/ Rest
    \/ \E S \in SUBSET Spaces : End(S)

Spec == Init /\ [][Next]_tvars
=============================================================================
