--------------------------- MODULE Control_proofs ---------------------------
(***************************************************************************)
(* What the two abstract promises of control say, apart from who keeps     *)
(* them: a tab under control is never taken by another agent, and a task   *)
(* the user has, or that is over, has nothing of the agent at work in it.  *)
(* Every module that refines one of them inherits this.                    *)
(***************************************************************************)
EXTENDS TLAPS

CONSTANTS Tabs, Holders, Nobody, Spaces, Calls
VARIABLES ctl, control, working

Tab  == INSTANCE TabControl
Task == INSTANCE TaskControl
-----------------------------------------------------------------------------
TabType == ctl \in [Tabs -> Holders \cup {Nobody}]

(* What every step of the table does, moves apart.                         *)
LEMMA TabSteps ==
    ASSUME TabType, Tab!Next
    PROVE  /\ TabType'
           /\ \A t \in Tabs : ctl[t] # Nobody => ctl'[t] \in {ctl[t], Nobody}
<1>1. ASSUME NEW h \in Holders, NEW S \in SUBSET Tabs, NEW R \in SUBSET Tabs,
             Tab!Take(h, S, R)
      PROVE  /\ TabType'
             /\ \A t \in Tabs : ctl[t] # Nobody => ctl'[t] \in {ctl[t], Nobody}
  BY <1>1 DEF Tab!Take, Tab!Of, TabType
<1>2. ASSUME NEW S \in SUBSET Tabs, NEW to \in [S -> Holders], Tab!Serve(S, to)
      PROVE  /\ TabType'
             /\ \A t \in Tabs : ctl[t] # Nobody => ctl'[t] \in {ctl[t], Nobody}
  BY <1>2 DEF Tab!Serve, Tab!Of, TabType
<1>3. CASE Tab!End
  BY <1>3 DEF Tab!End, TabType
<1> QED
  BY <1>1, <1>2, <1>3 DEF Tab!Next

(* A move passes all the tabs of one holder on to another.                 *)
LEMMA TabMoves ==
    ASSUME TabType, Tab!Move
    PROVE  /\ TabType'
           /\ \A t \in Tabs : ctl'[t] \notin {ctl[t], Nobody} =>
                \A u \in Tabs : ctl[u] = ctl[t] => ctl'[u] = ctl'[t]
<1>1. PICK g \in Holders, h \in Holders : g # h /\ Tab!HandOver(g, h)
  BY DEF Tab!Move
<1>2. \A t \in Tabs : ctl'[t] = IF ctl[t] = g THEN h
                                ELSE IF ctl[t] = h THEN Nobody ELSE ctl[t]
  BY <1>1 DEF Tab!HandOver, Tab!Of
<1>3. TabType'
  BY <1>1 DEF Tab!HandOver, Tab!Of, TabType
<1>4. \A t \in Tabs : ctl'[t] \notin {ctl[t], Nobody} => ctl[t] = g /\ ctl'[t] = h
  BY <1>2
<1> QED
  BY <1>2, <1>3, <1>4

(* No tab under control is taken by another agent: between two controllers *)
(* of a tab there is a time when nobody controls it.                       *)
THEOREM NobodyIsDisplaced ==
    Tab!Spec => [][\A t \in Tabs : ctl[t] # Nobody => ctl'[t] \in {ctl[t], Nobody}]_ctl
<1>1. Tab!Init => TabType
  BY DEF Tab!Init, TabType
<1>2. TabType /\ [Tab!Next]_ctl => TabType'
  BY TabSteps DEF TabType
<1>3. TabType /\ [Tab!Next]_ctl
        => [\A t \in Tabs : ctl[t] # Nobody => ctl'[t] \in {ctl[t], Nobody}]_ctl
  BY TabSteps
<1> QED
  BY <1>1, <1>2, <1>3, PTL DEF Tab!Spec

Displaced(t) == ctl[t] # Nobody /\ ctl'[t] \notin {ctl[t], Nobody}

(* Where handles can be moved, a controlled tab comes to another holder    *)
(* only together with all the others of its controller.                    *)
THEOREM TabsMoveTogether ==
    Tab!MovableSpec =>
      [][\A t, u \in Tabs : Displaced(t) /\ ctl[u] = ctl[t] => ctl'[u] = ctl'[t]]_ctl
<1>1. Tab!Init => TabType
  BY DEF Tab!Init, TabType
<1>2. TabType /\ [Tab!Next \/ Tab!Move]_ctl => TabType'
  BY TabSteps, TabMoves DEF TabType
<1>3. TabType /\ [Tab!Next \/ Tab!Move]_ctl
        => [\A t, u \in Tabs : Displaced(t) /\ ctl[u] = ctl[t] => ctl'[u] = ctl'[t]]_ctl
  BY TabSteps, TabMoves DEF Displaced
<1> QED
  BY <1>1, <1>2, <1>3, PTL DEF Tab!MovableSpec
-----------------------------------------------------------------------------
Controls == {"none", "agent", "user", "over"}

(* At work only under the agent's control.                                 *)
TaskInv ==
    /\ control \in [Spaces -> Controls]
    /\ working \subseteq Calls \X Spaces
    /\ \A w \in working : control[w[2]] = "agent"

LEMMA TaskSteps ==
    ASSUME TaskInv, Task!Next
    PROVE  /\ TaskInv'
           /\ \A s \in Spaces : control[s] = "over" => control'[s] = "over"
<1>1. ASSUME NEW s \in Spaces, Task!Begin(s) \/ Task!ToAgent(s)
      PROVE  /\ TaskInv'
             /\ \A t \in Spaces : control[t] = "over" => control'[t] = "over"
  BY <1>1 DEF Task!Begin, Task!ToAgent, TaskInv, Controls
<1>2. ASSUME NEW s \in Spaces, Task!ToUser(s)
      PROVE  /\ TaskInv'
             /\ \A t \in Spaces : control[t] = "over" => control'[t] = "over"
  BY <1>2 DEF Task!ToUser, Task!In, TaskInv, Controls
<1>3. ASSUME NEW c \in Calls, NEW s \in Spaces, Task!Work(c, s)
      PROVE  /\ TaskInv'
             /\ \A t \in Spaces : control[t] = "over" => control'[t] = "over"
  BY <1>3 DEF Task!Work, TaskInv
<1>4. CASE Task!Rest
  BY <1>4 DEF Task!Rest, TaskInv
<1>5. ASSUME NEW S \in SUBSET Spaces, Task!End(S)
      PROVE  /\ TaskInv'
             /\ \A t \in Spaces : control[t] = "over" => control'[t] = "over"
  BY <1>5 DEF Task!End, Task!In, TaskInv, Controls
<1> QED
  BY <1>1, <1>2, <1>3, <1>4, <1>5 DEF Task!Next

LEMMA TaskInvariant == Task!Spec => []TaskInv
<1>1. Task!Init => TaskInv
  BY DEF Task!Init, TaskInv, Controls
<1>2. TaskInv /\ [Task!Next]_Task!tvars => TaskInv'
  BY TaskSteps DEF TaskInv, Task!tvars
<1> QED
  BY <1>1, <1>2, PTL DEF Task!Spec

(* Nothing of the agent is at work in a task that is not under its         *)
(* control: not yet begun, taken over by the user, or over.                *)
THEOREM WorkNeedsTheAgent ==
    Task!Spec => [](\A w \in working : control[w[2]] = "agent")
BY TaskInvariant, PTL DEF TaskInv

(* A task that is over stays over.                                         *)
THEOREM OverIsForever ==
    Task!Spec => [][\A s \in Spaces : control[s] = "over" => control'[s] = "over"]_Task!tvars
<1>1. TaskInv /\ [Task!Next]_Task!tvars
        => [\A s \in Spaces : control[s] = "over" => control'[s] = "over"]_Task!tvars
  BY TaskSteps
<1> QED
  BY <1>1, TaskInvariant, PTL DEF Task!Spec
=============================================================================
