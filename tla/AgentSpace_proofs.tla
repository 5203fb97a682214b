-------------------------- MODULE AgentSpace_proofs --------------------------
(***************************************************************************)
(* Proofs about Agent Spaces, for any spaces, calls, tabs and limits: the  *)
(* inductive invariant IInv and the safety properties it contains, and     *)
(* that every handler is a step of TaskControl.                            *)
(***************************************************************************)
EXTENDS AgentSpace, TLAPS, FiniteSetTheorems, WellFoundedInduction
-----------------------------------------------------------------------------

(* The phases of a space fall into open, closed, unused and gone.          *)
LEMMA PhaseFacts ==
    /\ Live \subseteq Phases /\ Closed \subseteq Phases
    /\ Live \cap Closed = {}
    /\ "gone" \in Phases /\ "unused" \in Phases
    /\ "gone" \notin Live \cup Closed /\ "unused" \notin Live \cup Closed
    /\ "none" \notin Live \cup Closed
  BY DEF Phases, Live, Closed

(* Answered ends the calls it is given and no others.                      *)
LEMMA AnsweredFacts ==
    ASSUME TypeOK, NEW cs
    PROVE  /\ Answered(cs) \in [Calls -> CallStates]
           /\ \A c \in Calls : Answered(cs)[c] = IF c \in cs THEN "done" ELSE callState[c]
  BY DEF Answered, TypeOK, CallStates

(* Set changes a function of the spaces where it is told to.               *)
LEMMA SetFacts ==
    ASSUME NEW T, NEW f \in [Spaces -> T], NEW S, NEW v \in T
    PROVE  /\ Set(f, S, v) \in [Spaces -> T]
           /\ \A s \in Spaces : Set(f, S, v)[s] = IF s \in S THEN v ELSE f[s]
  BY DEF Set

(* PruneClosedRecords dismisses closed spaces only.                        *)
LEMMA PrunedFacts ==
    ASSUME NEW ph \in [Spaces -> Phases]
    PROVE  /\ Pruned(ph) \in [Spaces -> Phases]
           /\ \A s \in Spaces : ph[s] \notin Closed => Pruned(ph)[s] = ph[s]
           /\ \A s \in Spaces : ph[s] \in Closed => Pruned(ph)[s] \in {ph[s], "gone"}
           /\ \A s \in Spaces : Pruned(ph)[s] \in Live => ph[s] = Pruned(ph)[s]
  <1>1. Pruned(ph) = [s \in Spaces |-> IF s \in Surplus(ph) THEN "gone" ELSE ph[s]]
    BY DEF Pruned, Set
  <1>2. \A s \in Surplus(ph) : s \in Spaces /\ ph[s] \in Closed
    BY DEF Surplus, Recorded
  <1> QED
    BY <1>1, <1>2, PhaseFacts

(* What SaveHistory writes is a list of closed spaces.                     *)
LEMMA HistoryType ==
    ASSUME NEW ph
    PROVE  HistoryOf(ph) \in [Spaces -> Closed \cup {"none"}]
  BY DEF HistoryOf

(* The history does not tell open spaces apart.                            *)
LEMMA HistoryOfOpen ==
    ASSUME NEW ph \in [Spaces -> Phases], NEW s \in Spaces, ph[s] \in Live,
           NEW p \in Live
    PROVE  HistoryOf([ph EXCEPT ![s] = p]) = HistoryOf(ph)
  BY PhaseFacts DEF HistoryOf

(* The service starts well typed.                                          *)
LEMMA TypeInit == Init => TypeOK
  BY SpacesAssumption, PhaseFacts DEF Init, TypeOK, Reasons, CallStates

(* CloseSpace keeps the types.                                             *)
LEMMA CloseType ==
    ASSUME TypeOK, NEW S, NEW state \in Closed, NEW cs, Close(S, state, cs),
           UNCHANGED <<callSpace, cancelled>>
    PROVE  TypeOK'
  <1>1. phase' \in [Spaces -> Phases]
    BY SetFacts, PrunedFacts, PhaseFacts DEF Close, TypeOK
  <1>2. reason' \in [Spaces -> Reasons]
    BY SetFacts DEF Close, TypeOK, Reasons
  <1>3. locked' \in [Spaces -> BOOLEAN] /\ hiding' \in [Spaces -> BOOLEAN]
    BY DEF Close, TypeOK, Set
  <1>4. /\ dialogs' \in [Spaces -> SUBSET Tabs] /\ covered' \in [Spaces -> SUBSET Tabs]
        /\ help' \in [Spaces -> Calls \cup {NoCall}]
    BY DEF Close, TypeOK, Set
  <1>5. prompt' \in [Spaces -> {"none", "queued", "shown"}]
    BY DEF Close, TypeOK, Set
  <1>6. history' \in [Spaces -> Closed \cup {"none"}]
    BY HistoryType DEF Close
  <1>7. callState' \in [Calls -> CallStates]
    BY AnsweredFacts DEF Close
  <1> QED
    BY <1>1, <1>2, <1>3, <1>4, <1>5, <1>6, <1>7 DEF Close, TypeOK

(* The outcomes of looking at a space for a call.                          *)
LEMMA AdmitType ==
    ASSUME TypeOK, NEW c \in Calls, NEW s \in Spaces,
           Admit(c, s) \/ AdmitHandsOff(c, s) \/ AdmitFails(c, s) \/ WaitForCommit(c),
           callSpace' \in [Calls -> Spaces \cup {NoSpace}]
    PROVE  TypeOK'
  <1> USE PhaseFacts
  <1>1. CASE Admit(c, s)
    BY <1>1 DEF Admit, TypeOK, CallStates, spaceVars, pageVars
  <1>2. CASE AdmitHandsOff(c, s)
    BY <1>2, AnsweredFacts DEF AdmitHandsOff, HandOff, TypeOK, Reasons, Live, pageVars
  <1>3. CASE AdmitFails(c, s)
    BY <1>3, AnsweredFacts DEF AdmitFails, TypeOK, spaceVars, pageVars
  <1>4. CASE WaitForCommit(c)
    BY <1>4 DEF WaitForCommit, TypeOK, CallStates, spaceVars, pageVars
  <1> QED
    BY <1>1, <1>2, <1>3, <1>4

(* Every handler keeps the types.                                          *)
LEMMA TypeStep == TypeOK /\ [Next]_vars => TypeOK'
  <1> SUFFICES ASSUME TypeOK, Next PROVE TypeOK'
    BY DEF TypeOK, vars, spaceVars, pageVars, callVars
  <1> USE SpacesAssumption, PhaseFacts
  <1>call. ASSUME NEW c \in Calls, CallStep(c) PROVE TypeOK'
    <2>1. CASE Refuse(c)
      BY <2>1, AnsweredFacts DEF Refuse, TypeOK, spaceVars, pageVars
    <2>2. CASE CreateReply(c)
      BY <2>2, AnsweredFacts DEF CreateReply, TypeOK, spaceVars, pageVars
    <2>3. CASE Dispatch(c)
      BY <2>3, AdmitType DEF Dispatch, TypeOK
    <2>4. CASE Complete(c)
      BY <2>4, AnsweredFacts DEF Complete, TypeOK, spaceVars, pageVars
    <2>5. CASE Cancel({c})
      BY <2>5, AnsweredFacts DEF Cancel, TypeOK, pageVars
    <2> QED
      BY <1>call, <2>1, <2>2, <2>3, <2>4, <2>5 DEF CallStep
  <1>tool. ASSUME NEW c \in Calls, NEW s \in Spaces, ToolStep(c, s) PROVE TypeOK'
    <2>1. CASE CreateSpace(c, s)
      <3>1. [phase EXCEPT ![s] = "running"] \in [Spaces -> Phases]
        BY DEF TypeOK, Live
      <3>2. phase' \in [Spaces -> Phases] /\ history' \in [Spaces -> Closed \cup {"none"}]
        BY <2>1, <3>1, PrunedFacts, HistoryType DEF CreateSpace
      <3> QED
        BY <2>1, <3>2 DEF CreateSpace, TypeOK, CallStates, pageVars
    <2>2. CASE CreateFails(c, s)
      <3>1. [phase EXCEPT ![s] = "stopped"] \in [Spaces -> Phases]
        BY DEF TypeOK, Closed
      <3>2. phase' \in [Spaces -> Phases] /\ history' \in [Spaces -> Closed \cup {"none"}]
        BY <2>2, <3>1, PrunedFacts, HistoryType DEF CreateFails
      <3> QED
        BY <2>2, <3>2, AnsweredFacts DEF CreateFails, TypeOK, pageVars
    <2>3. CASE Execute(c, s)
      BY <2>3, AdmitType DEF Execute, TypeOK
    <2>4. CASE RequestUserHelp(c, s)
      <3>1. callState' \in [Calls -> CallStates]
        BY <2>4, AnsweredFacts DEF RequestUserHelp, CallStates
      <3> QED
        BY <2>4, <3>1 DEF RequestUserHelp, TypeOK, Live, Reasons, pageVars
    <2>5. CASE FinishSpace(c, s)
      BY <2>5, CloseType DEF FinishSpace, Closed
    <2>6. CASE HandleDialog(c, s)
      BY <2>6, AnsweredFacts DEF HandleDialog, TypeOK, spaceVars
    <2> QED
      BY <1>tool, <2>1, <2>2, <2>3, <2>4, <2>5, <2>6 DEF ToolStep
  <1>user. ASSUME NEW s \in Spaces, UserStep(s) PROVE TypeOK'
    <2>1. CASE TakeOverRunning(s)
      BY <2>1, AnsweredFacts DEF TakeOverRunning, HandOff, TypeOK, Live, Reasons, pageVars
    <2>2. CASE ShowWindow(s)
      BY <2>2 DEF ShowWindow, TypeOK, pageVars, callVars
    <2>3. CASE HandBack(s)
      BY <2>3, AnsweredFacts DEF HandBack, ReturnToAgent, TypeOK, Live, Reasons, pageVars
    <2>4. CASE HideWindow(s)
      BY <2>4 DEF HideWindow, TypeOK, pageVars, callVars
    <2>5. CASE Stop(s)
      BY <2>5, CloseType DEF Stop, Closed
    <2>6. CASE Dismiss(s)
      BY <2>6, HistoryType DEF Dismiss, TypeOK, pageVars, callVars
    <2> QED
      BY <1>user, <2>1, <2>2, <2>3, <2>4, <2>5, <2>6 DEF UserStep
  <1>page. ASSUME NEW s \in Spaces, PageStep(s) PROVE TypeOK'
    <2>1. ASSUME NEW t \in Tabs, OnDialogOpened(s, t) PROVE TypeOK'
      BY <2>1 DEF OnDialogOpened, TypeOK, spaceVars, callVars
    <2>2. ASSUME NEW t \in Tabs, OnDialogClosed(s, t) PROVE TypeOK'
      BY <2>2 DEF OnDialogClosed, TypeOK, spaceVars, callVars
    <2>3. CASE PermissionRequested(s)
      BY <2>3 DEF PermissionRequested, TypeOK, spaceVars, callVars
    <2>4. CASE OnPermissionPrompt(s)
      <3>1. /\ phase' \in [Spaces -> Phases] /\ reason' \in [Spaces -> Reasons]
            /\ locked' \in [Spaces -> BOOLEAN] /\ callState' \in [Calls -> CallStates]
        <4>1. CASE phase[s] = "running"
          <5>1. HandOff(s, "page", {})
            BY <2>4, <4>1 DEF OnPermissionPrompt
          <5> QED
            BY <5>1, AnsweredFacts DEF HandOff, TypeOK, Live, Reasons
        <4>2. CASE phase[s] # "running"
          <5>1. UNCHANGED <<phase, reason, locked, callState>>
            BY <2>4, <4>2 DEF OnPermissionPrompt
          <5> QED
            BY <5>1 DEF TypeOK
        <4> QED
          BY <4>1, <4>2
      <3> QED
        BY <2>4, <3>1 DEF OnPermissionPrompt, TypeOK
    <2>5. CASE PermissionAnswered(s)
      BY <2>5 DEF PermissionAnswered, TypeOK, spaceVars, callVars
    <2>6. CASE OnPageNeedsUser(s)
      BY <2>6, AnsweredFacts DEF OnPageNeedsUser, HandOff, TypeOK, Live, Reasons, pageVars
    <2> QED
      BY <1>page, <2>1, <2>2, <2>3, <2>4, <2>5, <2>6 DEF PageStep
  <1>timer. ASSUME NEW s \in Spaces, TimerStep(s) PROVE TypeOK'
    <2>1. CASE OnHelpTimeout(s)
      BY <2>1, AnsweredFacts DEF OnHelpTimeout, TypeOK, pageVars
    <2>2. CASE CancelBehindDialog(s)
      BY <2>2, AnsweredFacts DEF CancelBehindDialog, TypeOK, spaceVars
    <2>3. CASE HideWindowAfterFullscreenExit(s)
      <3>1. /\ phase' \in [Spaces -> Phases] /\ reason' \in [Spaces -> Reasons]
            /\ locked' \in [Spaces -> BOOLEAN] /\ callState' \in [Calls -> CallStates]
            /\ help' \in [Spaces -> Calls \cup {NoCall}]
        <4>1. CASE ReturnToAgent(s)
          BY <4>1, AnsweredFacts DEF ReturnToAgent, TypeOK, Live, Reasons
        <4>2. CASE UNCHANGED <<phase, reason, locked, help, callState>>
          BY <4>2 DEF TypeOK
        <4> QED
          BY <2>3, <4>1, <4>2 DEF HideWindowAfterFullscreenExit
      <3> QED
        BY <2>3, <3>1 DEF HideWindowAfterFullscreenExit, TypeOK, pageVars
    <2> QED
      BY <1>timer, <2>1, <2>2, <2>3 DEF TimerStep
  <1>service. ASSUME ServiceStep PROVE TypeOK'
    <2>1. ASSUME NEW mcp \in BOOLEAN, CancelClientTools(mcp) PROVE TypeOK'
      BY <2>1, AnsweredFacts DEF CancelClientTools, Cancel, TypeOK, pageVars
    <2>2. CASE StopSpacesForClient
      BY <2>2, CloseType DEF StopSpacesForClient, Closed
    <2>3. CASE CheckIdleSpaces
      BY <2>3, CloseType DEF CheckIdleSpaces, Closed
    <2>4. CASE Restart
      <3>1. Restored \in [Spaces -> Phases]
        BY DEF Restored, TypeOK
      <3>2. phase' \in [Spaces -> Phases] /\ history' \in [Spaces -> Closed \cup {"none"}]
        BY <2>4, <3>1, PrunedFacts, HistoryType DEF Restart
      <3> QED
        BY <2>4, <3>2, AnsweredFacts DEF Restart, TypeOK, Reasons
    <2> QED
      BY <1>service, <2>1, <2>2, <2>3, <2>4 DEF ServiceStep
  <1> QED
    BY <1>call, <1>tool, <1>user, <1>page, <1>timer, <1>service DEF Next

-----------------------------------------------------------------------------
(* Most steps answer some calls and nothing more: a space then leaves the  *)
(* agent's control only if the calls at work in it are among them.         *)
LEMMA AnsweringKeepsCalls ==
    ASSUME TypeOK, CallsNeedTheAgent, NEW cs,
           callState' = Answered(cs), callSpace' = callSpace,
           \A s \in Spaces : phase[s] = "running" =>
               phase'[s] = "running" \/ ActiveIn({s}) \subseteq cs
    PROVE  CallsNeedTheAgent'
  <1> SUFFICES ASSUME NEW c \in Calls, callState'[c] = "active"
               PROVE  callSpace[c] \in Spaces /\ phase'[callSpace[c]] = "running"
    BY DEF CallsNeedTheAgent
  <1>1. c \notin cs /\ callState[c] = "active"
    BY AnsweredFacts
  <1>2. callSpace[c] \in Spaces /\ phase[callSpace[c]] = "running"
    BY <1>1 DEF CallsNeedTheAgent
  <1>3. c \in ActiveIn({callSpace[c]})
    BY <1>1 DEF ActiveIn
  <1> QED
    BY <1>1, <1>2, <1>3

(* A step that leaves the calls alone leaves running spaces running.       *)
LEMMA RunningKeepsCalls ==
    ASSUME CallsNeedTheAgent, UNCHANGED <<callState, callSpace>>,
           \A s \in Spaces : phase[s] = "running" => phase'[s] = "running"
    PROVE  CallsNeedTheAgent'
  BY DEF CallsNeedTheAgent

(* CloseSpace answers the calls of the spaces it closes; the records it    *)
(* prunes have none.                                                       *)
LEMMA CloseKeepsCalls ==
    ASSUME TypeOK, CallsNeedTheAgent, NEW S, NEW state \in Closed, NEW cs,
           Close(S, state, cs), callSpace' = callSpace
    PROVE  CallsNeedTheAgent'
  <1>1. /\ Set(phase, S, state) \in [Spaces -> Phases]
        /\ \A s \in Spaces : Set(phase, S, state)[s] = IF s \in S THEN state ELSE phase[s]
    BY PhaseFacts DEF Set, TypeOK
  <1>2. ASSUME NEW s \in Spaces, s \notin S, phase[s] = "running"
        PROVE  phase'[s] = "running"
    BY <1>1, <1>2, PrunedFacts, PhaseFacts DEF Close, Live, Closed
  <1>3. \A s \in S : ActiveIn({s}) \subseteq cs \cup ActiveIn(S) \cup HelpIn(S)
    BY DEF ActiveIn
  <1> QED
    BY <1>2, <1>3, AnsweringKeepsCalls DEF Close

(* HandOffToUser answers the calls of the space.                           *)
LEMMA HandOffKeepsCalls ==
    ASSUME TypeOK, CallsNeedTheAgent, NEW s \in Spaces, NEW why, NEW cs,
           HandOff(s, why, cs), callSpace' = callSpace
    PROVE  CallsNeedTheAgent'
  <1>1. \A t \in Spaces \ {s} : phase'[t] = phase[t]
    BY DEF HandOff, TypeOK
  <1>2. ActiveIn({s}) \subseteq cs \cup ActiveIn({s})
    OBVIOUS
  <1> QED
    BY <1>1, <1>2, AnsweringKeepsCalls DEF HandOff

(* HandBack and the deferred hide give the agent another space.            *)
LEMMA ReturnKeepsCalls ==
    ASSUME TypeOK, CallsNeedTheAgent, NEW s \in Spaces,
           ReturnToAgent(s), callSpace' = callSpace
    PROVE  CallsNeedTheAgent'
  <1>1. \A t \in Spaces : phase[t] = "running" => phase'[t] = "running"
    BY DEF ReturnToAgent, TypeOK
  <1> QED
    BY <1>1, AnsweringKeepsCalls DEF ReturnToAgent

(* A call whose space is chosen by this step: it was not at work before.   *)
LEMMA ExecuteKeepsCalls ==
    ASSUME TypeOK, CallsNeedTheAgent, NEW c \in Calls, NEW s \in Spaces,
           callState[c] # "active",
           \A d \in Calls \ {c} : callSpace'[d] = callSpace[d],
           callSpace'[c] = s,
           \/ Admit(c, s) \/ AdmitHandsOff(c, s) \/ AdmitFails(c, s)
           \/ WaitForCommit(c)
    PROVE  CallsNeedTheAgent'
  <1>1. CASE Admit(c, s)
    BY <1>1 DEF Admit, CallsNeedTheAgent, TypeOK, spaceVars
  <1>2. CASE AdmitHandsOff(c, s)
    <2>1. /\ phase' = [phase EXCEPT ![s] = "user"]
          /\ callState' = Answered({c} \cup ActiveIn({s}))
      BY <1>2 DEF AdmitHandsOff, HandOff
    <2>2. ASSUME NEW d \in Calls, callState'[d] = "active"
          PROVE  d # c /\ callState[d] = "active" /\ callSpace[d] # s
      BY <2>1, <2>2, AnsweredFacts DEF ActiveIn
    <2> QED
      BY <2>1, <2>2 DEF CallsNeedTheAgent, TypeOK
  <1>3. CASE AdmitFails(c, s)
    <2>1. phase' = phase /\ callState' = Answered({c})
      BY <1>3 DEF AdmitFails, spaceVars
    <2>2. \A d \in Calls : callState'[d] = "active" => d # c /\ callState[d] = "active"
      BY <2>1, AnsweredFacts
    <2> QED
      BY <2>1, <2>2 DEF CallsNeedTheAgent
  <1>4. CASE WaitForCommit(c)
    BY <1>4 DEF WaitForCommit, CallsNeedTheAgent, TypeOK, spaceVars
  <1> QED
    BY <1>1, <1>2, <1>3, <1>4

(* Every handler keeps calls to spaces the agent controls.                 *)
LEMMA CallsStep == TypeOK /\ CallsNeedTheAgent /\ [Next]_vars => CallsNeedTheAgent'
  <1> SUFFICES ASSUME TypeOK, CallsNeedTheAgent, Next PROVE CallsNeedTheAgent'
    BY DEF CallsNeedTheAgent, vars, spaceVars, callVars
  <1>call. ASSUME NEW c \in Calls, CallStep(c) PROVE CallsNeedTheAgent'
    <2>1. CASE Refuse(c)
      BY <2>1, AnsweringKeepsCalls DEF Refuse, spaceVars
    <2>2. CASE CreateReply(c)
      BY <2>2, AnsweringKeepsCalls DEF CreateReply, spaceVars
    <2>3. CASE Dispatch(c)
      BY <2>3, ExecuteKeepsCalls DEF Dispatch
    <2>4. CASE Complete(c)
      BY <2>4, AnsweringKeepsCalls DEF Complete, spaceVars
    <2>5. CASE Cancel({c})
      BY <2>5, AnsweringKeepsCalls DEF Cancel
    <2> QED
      BY <1>call, <2>1, <2>2, <2>3, <2>4, <2>5 DEF CallStep
  <1>tool. ASSUME NEW c \in Calls, NEW s \in Spaces, ToolStep(c, s)
           PROVE  CallsNeedTheAgent'
    <2>1. CASE CreateSpace(c, s)
      <3>1. [phase EXCEPT ![s] = "running"] \in [Spaces -> Phases]
        BY PhaseFacts DEF TypeOK, Live
      <3>2. \A t \in Spaces : phase[t] = "running" => phase'[t] = "running"
        BY <2>1, <3>1, PrunedFacts, PhaseFacts DEF CreateSpace, TypeOK, Closed
      <3>3. /\ callState' = [callState EXCEPT ![c] = "creating"]
            /\ callSpace' = [callSpace EXCEPT ![c] = s]
        BY <2>1 DEF CreateSpace
      <3> QED
        BY <3>2, <3>3 DEF CallsNeedTheAgent, TypeOK
    <2>2. CASE CreateFails(c, s)
      <3>1. [phase EXCEPT ![s] = "stopped"] \in [Spaces -> Phases]
        BY PhaseFacts DEF TypeOK, Closed
      <3>2. phase[s] = "unused" /\ callState' = Answered({c}) /\ callSpace' = callSpace
            /\ phase' = [Pruned([phase EXCEPT ![s] = "stopped"]) EXCEPT ![s] = "gone"]
        BY <2>2 DEF CreateFails, Creatable
      <3>3. \A t \in Spaces : phase[t] = "running" => phase'[t] = "running"
        BY <3>1, <3>2, PrunedFacts DEF TypeOK, Closed
      <3> QED
        BY <3>2, <3>3, AnsweringKeepsCalls
    <2>3. CASE Execute(c, s)
      <3>1. /\ callState[c] = "new" /\ callSpace'[c] = s
            /\ \A d \in Calls \ {c} : callSpace'[d] = callSpace[d]
        BY <2>3 DEF Execute, TypeOK
      <3> QED
        BY <2>3, <3>1, ExecuteKeepsCalls DEF Execute
    <2>4. CASE RequestUserHelp(c, s)
      <3>1. /\ callState' = [Answered(ActiveIn({s})) EXCEPT ![c] = "help"]
            /\ callSpace' = [callSpace EXCEPT ![c] = s]
            /\ phase' = [phase EXCEPT ![s] = "user"]
        BY <2>4 DEF RequestUserHelp
      <3>2. ASSUME NEW d \in Calls, callState'[d] = "active"
            PROVE  d # c /\ callState[d] = "active" /\ callSpace[d] # s
        BY <3>1, <3>2, AnsweredFacts DEF ActiveIn
      <3> QED
        BY <3>1, <3>2 DEF CallsNeedTheAgent, TypeOK
    <2>5. CASE FinishSpace(c, s)
      BY <2>5, CloseKeepsCalls DEF FinishSpace, Closed
    <2>6. CASE HandleDialog(c, s)
      BY <2>6, AnsweringKeepsCalls DEF HandleDialog, spaceVars
    <2> QED
      BY <1>tool, <2>1, <2>2, <2>3, <2>4, <2>5, <2>6 DEF ToolStep
  <1>user. ASSUME NEW s \in Spaces, UserStep(s) PROVE CallsNeedTheAgent'
    <2>1. CASE TakeOverRunning(s)
      BY <2>1, HandOffKeepsCalls DEF TakeOverRunning
    <2>2. CASE ShowWindow(s)
      BY <2>2, RunningKeepsCalls DEF ShowWindow, callVars
    <2>3. CASE HandBack(s)
      BY <2>3, ReturnKeepsCalls DEF HandBack
    <2>4. CASE HideWindow(s)
      BY <2>4, RunningKeepsCalls DEF HideWindow, callVars
    <2>5. CASE Stop(s)
      BY <2>5, CloseKeepsCalls DEF Stop, Closed
    <2>6. CASE Dismiss(s)
      BY <2>6, RunningKeepsCalls DEF Dismiss, TypeOK, Closed, callVars
    <2> QED
      BY <1>user, <2>1, <2>2, <2>3, <2>4, <2>5, <2>6 DEF UserStep
  <1>page. ASSUME NEW s \in Spaces, PageStep(s) PROVE CallsNeedTheAgent'
    <2>1. ASSUME NEW t \in Tabs, OnDialogOpened(s, t) \/ OnDialogClosed(s, t)
          PROVE  CallsNeedTheAgent'
      BY <2>1, RunningKeepsCalls DEF OnDialogOpened, OnDialogClosed, spaceVars, callVars
    <2>2. CASE PermissionRequested(s) \/ PermissionAnswered(s)
      BY <2>2, RunningKeepsCalls
      DEF PermissionRequested, PermissionAnswered, spaceVars, callVars
    <2>3. CASE OnPermissionPrompt(s)
      BY <2>3, HandOffKeepsCalls, RunningKeepsCalls DEF OnPermissionPrompt
    <2>4. CASE OnPageNeedsUser(s)
      BY <2>4, HandOffKeepsCalls DEF OnPageNeedsUser
    <2> QED
      BY <1>page, <2>1, <2>2, <2>3, <2>4 DEF PageStep
  <1>timer. ASSUME NEW s \in Spaces, TimerStep(s) PROVE CallsNeedTheAgent'
    <2>1. CASE OnHelpTimeout(s)
      BY <2>1, AnsweringKeepsCalls DEF OnHelpTimeout
    <2>2. CASE CancelBehindDialog(s)
      BY <2>2, AnsweringKeepsCalls, RunningKeepsCalls DEF CancelBehindDialog, spaceVars
    <2>3. CASE HideWindowAfterFullscreenExit(s)
      BY <2>3, ReturnKeepsCalls, RunningKeepsCalls DEF HideWindowAfterFullscreenExit
    <2> QED
      BY <1>timer, <2>1, <2>2, <2>3 DEF TimerStep
  <1>service. ASSUME ServiceStep PROVE CallsNeedTheAgent'
    <2>1. ASSUME NEW mcp \in BOOLEAN, CancelClientTools(mcp)
          PROVE  CallsNeedTheAgent'
      BY <2>1, AnsweringKeepsCalls DEF CancelClientTools, Cancel
    <2>2. CASE StopSpacesForClient
      BY <2>2, CloseKeepsCalls DEF StopSpacesForClient, Closed
    <2>3. CASE CheckIdleSpaces
      BY <2>3, CloseKeepsCalls DEF CheckIdleSpaces, Closed
    <2>4. CASE Restart
      <3>1. \A c \in Calls : callState'[c] # "active"
        BY <2>4, AnsweredFacts DEF Restart
      <3> QED
        BY <3>1 DEF CallsNeedTheAgent
    <2> QED
      BY <1>service, <2>1, <2>2, <2>3, <2>4 DEF ServiceStep
  <1> QED
    BY <1>call, <1>tool, <1>user, <1>page, <1>timer, <1>service DEF Next

-----------------------------------------------------------------------------
(* What the window and the sidebar show agrees with the control.           *)
Settled == ControlIsConsistent /\ HistoryIsTheRecord

(* A step that leaves the spaces alone keeps them settled.                 *)
LEMMA SameSpacesSettled ==
    ASSUME Settled, UNCHANGED <<phase, reason, locked, hiding, history>>
    PROVE  Settled'
  BY DEF Settled, ControlIsConsistent, HistoryIsTheRecord, HistoryOf, Open

(* Showing or hiding the window of an open space does.                     *)
LEMMA HidingSettled ==
    ASSUME TypeOK, Settled, NEW s \in Spaces, NEW h \in BOOLEAN, h => Open(s),
           hiding' = [hiding EXCEPT ![s] = h],
           UNCHANGED <<phase, reason, locked, history>>
    PROVE  Settled'
  BY DEF Settled, ControlIsConsistent, HistoryIsTheRecord, HistoryOf, Open, TypeOK

(* Passing control between the agent and the user moves the lock and the   *)
(* reason with it, and is no matter for the history.                       *)
LEMMA PassingSettled ==
    ASSUME TypeOK, Settled, NEW s \in Spaces, Open(s),
           NEW p \in Live, NEW why \in Reasons,
           why # "none" <=> p = "user",
           phase' = [phase EXCEPT ![s] = p],
           reason' = [reason EXCEPT ![s] = why],
           locked' = [locked EXCEPT ![s] = (p = "running")],
           hiding' = hiding \/ hiding' = [hiding EXCEPT ![s] = FALSE],
           history' = history
    PROVE  Settled'
  <1>1. HistoryIsTheRecord'
    <2>1. HistoryOf(phase') = HistoryOf(phase)
      BY HistoryOfOpen DEF Open, TypeOK
    <2> QED
      BY <2>1 DEF Settled, HistoryIsTheRecord
  <1>2. ASSUME NEW t \in Spaces
        PROVE  /\ locked'[t] <=> phase'[t] = "running"
               /\ reason'[t] # "none" <=> phase'[t] = "user"
               /\ hiding'[t] => phase'[t] \in Live
    <2>1. /\ locked[t] <=> phase[t] = "running"
          /\ reason[t] # "none" <=> phase[t] = "user"
          /\ hiding[t] => phase[t] \in Live
      BY DEF Settled, ControlIsConsistent, Open
    <2>2. CASE t = s
      BY <2>2 DEF TypeOK, Live
    <2>3. CASE t # s
      BY <2>1, <2>3 DEF TypeOK
    <2> QED
      BY <2>2, <2>3
  <1> QED
    BY <1>1, <1>2 DEF Settled, ControlIsConsistent, Open

(* HandOffToUser unlocks the tabs and gives a reason.                      *)
LEMMA HandOffSettled ==
    ASSUME TypeOK, Settled, NEW s \in Spaces, Open(s),
           NEW why \in Reasons \ {"none"}, NEW cs, HandOff(s, why, cs),
           hiding' = hiding \/ hiding' = [hiding EXCEPT ![s] = FALSE],
           history' = history
    PROVE  Settled'
  <1>1. /\ phase' = [phase EXCEPT ![s] = "user"]
        /\ reason' = [reason EXCEPT ![s] = why]
        /\ locked' = [locked EXCEPT ![s] = ("user" = "running")]
    BY DEF HandOff
  <1>2. "user" \in Live
    BY DEF Live
  <1> QED
    BY <1>1, <1>2, PassingSettled

(* ReturnToAgent locks them and clears it.                                 *)
LEMMA ReturnSettled ==
    ASSUME TypeOK, Settled, NEW s \in Spaces, phase[s] = "user", ReturnToAgent(s),
           hiding' = hiding \/ hiding' = [hiding EXCEPT ![s] = FALSE],
           history' = history
    PROVE  Settled'
  <1>1. /\ phase' = [phase EXCEPT ![s] = "running"]
        /\ reason' = [reason EXCEPT ![s] = "none"]
        /\ locked' = [locked EXCEPT ![s] = ("running" = "running")]
    BY DEF ReturnToAgent
  <1>2. "running" \in Live /\ "none" \in Reasons /\ Open(s)
    BY DEF Live, Reasons, Open
  <1> QED
    BY <1>1, <1>2, PassingSettled

(* A closed space is locked, shown and hidden no more; the history is      *)
(* saved when the records have been pruned.                                *)
LEMMA CloseSettled ==
    ASSUME TypeOK, Settled, NEW S, NEW state \in Closed, NEW cs, Close(S, state, cs)
    PROVE  Settled'
  <1> DEFINE ph == Set(phase, S, state)
  <1>1. /\ ph \in [Spaces -> Phases]
        /\ \A s \in Spaces : ph[s] = IF s \in S THEN state ELSE phase[s]
    BY PhaseFacts DEF Set, TypeOK
  <1>2. ASSUME NEW s \in Spaces
        PROVE  /\ locked'[s] <=> phase'[s] = "running"
               /\ reason'[s] # "none" <=> phase'[s] = "user"
               /\ hiding'[s] => phase'[s] \in Live
    <2>1. /\ locked[s] <=> phase[s] = "running"
          /\ reason[s] # "none" <=> phase[s] = "user"
          /\ hiding[s] => phase[s] \in Live
      BY DEF Settled, ControlIsConsistent, Open
    <2>2. /\ locked'[s] = IF s \in S THEN FALSE ELSE locked[s]
          /\ reason'[s] = IF s \in S THEN "none" ELSE reason[s]
          /\ hiding'[s] = IF s \in S THEN FALSE ELSE hiding[s]
      BY DEF Close, Set
    <2>3. /\ ph[s] \notin Closed => phase'[s] = ph[s]
          /\ ph[s] \in Closed => phase'[s] \in {ph[s], "gone"}
      BY <1>1, PrunedFacts DEF Close
    <2>4. CASE s \in S
      BY <1>1, <2>2, <2>3, <2>4 DEF Closed
    <2>5. CASE s \notin S
      BY <1>1, <2>1, <2>2, <2>3, <2>5 DEF Closed, Live
    <2> QED
      BY <2>4, <2>5
  <1>3. HistoryIsTheRecord'
    BY DEF Close, HistoryIsTheRecord
  <1> QED
    BY <1>2, <1>3 DEF Settled, ControlIsConsistent, Open

(* A call entering a space disturbs it only when a permission request      *)
(* hands it to the user.                                                   *)
LEMMA ExecuteSettled ==
    ASSUME TypeOK, Settled, NEW c \in Calls, NEW s \in Spaces,
           \/ Admit(c, s) \/ AdmitHandsOff(c, s) \/ AdmitFails(c, s)
           \/ WaitForCommit(c)
    PROVE  Settled'
  <1>1. CASE AdmitHandsOff(c, s)
    BY <1>1, HandOffSettled DEF AdmitHandsOff, Open, Live, Reasons
  <1>2. CASE Admit(c, s) \/ AdmitFails(c, s) \/ WaitForCommit(c)
    BY <1>2, SameSpacesSettled DEF Admit, AdmitFails, WaitForCommit, spaceVars
  <1> QED
    BY <1>1, <1>2

(* Every handler keeps locks, reasons, hiding and the history in step with *)
(* the control of the spaces.                                              *)
LEMMA SettledStep == TypeOK /\ Settled /\ [Next]_vars => Settled'
  <1> SUFFICES ASSUME TypeOK, Settled, Next PROVE Settled'
    BY SameSpacesSettled DEF vars, spaceVars
  <1>call. ASSUME NEW c \in Calls, CallStep(c) PROVE Settled'
    <2>1. CASE Dispatch(c)
      BY <2>1, ExecuteSettled DEF Dispatch
    <2>2. CASE Refuse(c) \/ CreateReply(c) \/ Complete(c)
      BY <2>2, SameSpacesSettled DEF Refuse, CreateReply, Complete, spaceVars
    <2>3. CASE Cancel({c})
      BY <2>3, SameSpacesSettled DEF Cancel
    <2> QED
      BY <1>call, <2>1, <2>2, <2>3 DEF CallStep
  <1>tool. ASSUME NEW c \in Calls, NEW s \in Spaces, ToolStep(c, s) PROVE Settled'
    <2>1. CASE CreateSpace(c, s)
      <3> DEFINE ph == [phase EXCEPT ![s] = "running"]
      <3>1. /\ ph \in [Spaces -> Phases]
            /\ phase[s] = "unused"
        BY <2>1, PhaseFacts DEF CreateSpace, Creatable, TypeOK, Live
      <3>2. ASSUME NEW t \in Spaces
            PROVE  /\ locked'[t] <=> phase'[t] = "running"
                   /\ reason'[t] # "none" <=> phase'[t] = "user"
                   /\ hiding'[t] => phase'[t] \in Live
        <4>1. /\ locked[t] <=> phase[t] = "running"
              /\ reason[t] # "none" <=> phase[t] = "user"
              /\ hiding[t] => phase[t] \in Live
          BY DEF Settled, ControlIsConsistent, Open
        <4>2. /\ locked' = [locked EXCEPT ![s] = TRUE]
              /\ UNCHANGED <<reason, hiding>>
          BY <2>1 DEF CreateSpace
        <4>3. /\ ph[t] \notin Closed => phase'[t] = ph[t]
              /\ ph[t] \in Closed => phase'[t] \in {ph[t], "gone"}
          BY <2>1, <3>1, PrunedFacts DEF CreateSpace
        <4>4. CASE t = s
          BY <3>1, <4>1, <4>2, <4>3, <4>4 DEF TypeOK, Live, Closed
        <4>5. CASE t # s
          BY <4>1, <4>2, <4>3, <4>5 DEF TypeOK, Live, Closed
        <4> QED
          BY <4>4, <4>5
      <3>3. HistoryIsTheRecord'
        BY <2>1 DEF CreateSpace, HistoryIsTheRecord
      <3> QED
        BY <3>2, <3>3 DEF Settled, ControlIsConsistent, Open
    <2>2. CASE CreateFails(c, s)
      <3> DEFINE ph == [phase EXCEPT ![s] = "stopped"]
      <3>1. /\ ph \in [Spaces -> Phases]
            /\ phase[s] = "unused"
            /\ phase' = [Pruned(ph) EXCEPT ![s] = "gone"]
            /\ UNCHANGED <<reason, locked, hiding>>
        BY <2>2, PhaseFacts DEF CreateFails, Creatable, TypeOK, Closed
      <3>2. ASSUME NEW t \in Spaces
            PROVE  /\ locked'[t] <=> phase'[t] = "running"
                   /\ reason'[t] # "none" <=> phase'[t] = "user"
                   /\ hiding'[t] => phase'[t] \in Live
        <4>1. /\ locked[t] <=> phase[t] = "running"
              /\ reason[t] # "none" <=> phase[t] = "user"
              /\ hiding[t] => phase[t] \in Live
          BY DEF Settled, ControlIsConsistent, Open
        <4>2. t # s => /\ phase[t] \notin Closed => phase'[t] = phase[t]
                       /\ phase[t] \in Closed => phase'[t] \in {phase[t], "gone"}
          <5>1. /\ Pruned(ph) \in [Spaces -> Phases]
                /\ ph[t] \notin Closed => Pruned(ph)[t] = ph[t]
                /\ ph[t] \in Closed => Pruned(ph)[t] \in {ph[t], "gone"}
            BY <3>1, PrunedFacts
          <5>2. t # s => ph[t] = phase[t] /\ phase'[t] = Pruned(ph)[t]
            BY <3>1, <5>1 DEF TypeOK
          <5> HIDE DEF ph
          <5> QED
            BY <5>1, <5>2
        <4>3. t = s => phase'[t] = "gone"
          BY <3>1, PrunedFacts
        <4> QED
          BY <3>1, <4>1, <4>2, <4>3 DEF Live, Closed
      <3>3. HistoryIsTheRecord'
        BY <2>2 DEF CreateFails, HistoryIsTheRecord
      <3> QED
        BY <3>2, <3>3 DEF Settled, ControlIsConsistent, Open
    <2>3. CASE Execute(c, s)
      BY <2>3, ExecuteSettled DEF Execute
    <2>4. CASE RequestUserHelp(c, s)
      <3>1. /\ phase' = [phase EXCEPT ![s] = "user"]
            /\ locked' = [locked EXCEPT ![s] = ("user" = "running")]
            /\ UNCHANGED <<hiding, history>>
            /\ Open(s)
        BY <2>4 DEF RequestUserHelp
      <3> DEFINE why == IF phase[s] = "running" THEN "help" ELSE reason[s]
      <3>2. reason' = [reason EXCEPT ![s] = why]
        BY <2>4 DEF RequestUserHelp
      <3>3. why \in Reasons /\ why # "none"
        BY <3>1 DEF Reasons, TypeOK, Settled, ControlIsConsistent, Open, Live
      <3>4. "user" \in Live
        BY DEF Live
      <3> HIDE DEF why
      <3> QED
        BY <3>1, <3>2, <3>3, <3>4, PassingSettled
    <2>5. CASE FinishSpace(c, s)
      BY <2>5, CloseSettled DEF FinishSpace, Closed
    <2>6. CASE HandleDialog(c, s)
      BY <2>6, SameSpacesSettled DEF HandleDialog, spaceVars
    <2> QED
      BY <1>tool, <2>1, <2>2, <2>3, <2>4, <2>5, <2>6 DEF ToolStep
  <1>user. ASSUME NEW s \in Spaces, UserStep(s) PROVE Settled'
    <2>1. CASE TakeOverRunning(s)
      BY <2>1, HandOffSettled DEF TakeOverRunning, Open, Live, Reasons
    <2>2. CASE ShowWindow(s)
      BY <2>2, HidingSettled DEF ShowWindow
    <2>3. CASE HandBack(s)
      BY <2>3, ReturnSettled DEF HandBack
    <2>4. CASE HideWindow(s)
      BY <2>4, HidingSettled DEF HideWindow
    <2>5. CASE Stop(s)
      BY <2>5, CloseSettled DEF Stop, Closed
    <2>6. CASE Dismiss(s)
      <3>1. HistoryIsTheRecord'
        BY <2>6 DEF Dismiss, HistoryIsTheRecord
      <3>2. ControlIsConsistent'
        <4>1. /\ phase[s] \in Closed /\ phase' = [phase EXCEPT ![s] = "gone"]
              /\ UNCHANGED <<reason, locked, hiding>>
          BY <2>6 DEF Dismiss
        <4>2. ControlIsConsistent
          BY DEF Settled
        <4> QED
          BY <4>1, <4>2 DEF ControlIsConsistent, Open, TypeOK, Live, Closed
      <3> QED
        BY <3>1, <3>2 DEF Settled
    <2> QED
      BY <1>user, <2>1, <2>2, <2>3, <2>4, <2>5, <2>6 DEF UserStep
  <1>page. ASSUME NEW s \in Spaces, PageStep(s) PROVE Settled'
    <2>1. ASSUME NEW t \in Tabs, OnDialogOpened(s, t) \/ OnDialogClosed(s, t)
          PROVE  Settled'
      BY <2>1, SameSpacesSettled DEF OnDialogOpened, OnDialogClosed, spaceVars
    <2>2. CASE PermissionRequested(s) \/ PermissionAnswered(s)
      BY <2>2, SameSpacesSettled DEF PermissionRequested, PermissionAnswered, spaceVars
    <2>3. CASE OnPermissionPrompt(s)
      BY <2>3, HandOffSettled, SameSpacesSettled DEF OnPermissionPrompt, Reasons
    <2>4. CASE OnPageNeedsUser(s)
      BY <2>4, HandOffSettled DEF OnPageNeedsUser, Open, Live, Reasons
    <2> QED
      BY <1>page, <2>1, <2>2, <2>3, <2>4 DEF PageStep
  <1>timer. ASSUME NEW s \in Spaces, TimerStep(s) PROVE Settled'
    <2>1. CASE OnHelpTimeout(s)
      BY <2>1, SameSpacesSettled DEF OnHelpTimeout
    <2>2. CASE CancelBehindDialog(s)
      BY <2>2, SameSpacesSettled DEF CancelBehindDialog, spaceVars
    <2>3. CASE HideWindowAfterFullscreenExit(s)
      <3>1. CASE phase[s] = "user" /\ ReturnToAgent(s)
        BY <2>3, <3>1, ReturnSettled DEF HideWindowAfterFullscreenExit
      <3>2. CASE UNCHANGED <<phase, reason, locked, help, callState>>
        BY <2>3, <3>2, HidingSettled DEF HideWindowAfterFullscreenExit
      <3> QED
        BY <2>3, <3>1, <3>2 DEF HideWindowAfterFullscreenExit
    <2> QED
      BY <1>timer, <2>1, <2>2, <2>3 DEF TimerStep
  <1>service. ASSUME ServiceStep PROVE Settled'
    <2>1. ASSUME NEW mcp \in BOOLEAN, CancelClientTools(mcp) PROVE Settled'
      BY <2>1, SameSpacesSettled DEF CancelClientTools, Cancel
    <2>2. CASE StopSpacesForClient
      BY <2>2, CloseSettled DEF StopSpacesForClient, Closed
    <2>3. CASE CheckIdleSpaces
      BY <2>3, CloseSettled DEF CheckIdleSpaces, Closed
    <2>4. CASE Restart
      <3>1. Restored \in [Spaces -> Phases]
        BY PhaseFacts DEF Restored, TypeOK
      <3>2. \A s \in Spaces : Restored[s] \notin Live
        BY PhaseFacts DEF Restored, TypeOK
      <3>3. \A s \in Spaces : phase'[s] \notin Live
        BY <2>4, <3>1, <3>2, PrunedFacts DEF Restart
      <3>4. ControlIsConsistent'
        BY <2>4, <3>3 DEF Restart, ControlIsConsistent, Live, Open
      <3>5. HistoryIsTheRecord'
        BY <2>4 DEF Restart, HistoryIsTheRecord
      <3> QED
        BY <3>4, <3>5 DEF Settled
    <2> QED
      BY <1>service, <2>1, <2>2, <2>3, <2>4 DEF ServiceStep
  <1> QED
    BY <1>call, <1>tool, <1>user, <1>page, <1>timer, <1>service DEF Next

-----------------------------------------------------------------------------
(* Waits for the user stay answerable when a step touches other calls only *)
(* and leaves the user's spaces with the user.                             *)
LEMMA OtherCallsKeepHelp ==
    ASSUME TypeOK, HelpIsAnswerable, help' = help,
           \A c \in Calls : callState'[c] = "help" <=> callState[c] = "help",
           \A c \in Calls : callState[c] = "help" => callSpace'[c] = callSpace[c],
           \A s \in Spaces : phase[s] = "user" => phase'[s] = "user"
    PROVE  HelpIsAnswerable'
  <1>1. ASSUME NEW c \in Calls, callState'[c] = "help"
        PROVE  callSpace'[c] \in Spaces /\ help'[callSpace'[c]] = c
    BY <1>1 DEF HelpIsAnswerable
  <1>2. ASSUME NEW s \in Spaces, help'[s] # NoCall
        PROVE  /\ phase'[s] = "user"
               /\ callState'[help'[s]] = "help" /\ callSpace'[help'[s]] = s
    BY <1>2 DEF HelpIsAnswerable, TypeOK
  <1> QED
    BY <1>1, <1>2 DEF HelpIsAnswerable

(* They do too when the spaces whose call is answered forget it.           *)
LEMMA AnsweringKeepsHelp ==
    ASSUME TypeOK, HelpIsAnswerable, NEW cs,
           callState' = Answered(cs), callSpace' = callSpace,
           \A s \in Spaces : help'[s] = IF help[s] \in cs THEN NoCall ELSE help[s],
           \A s \in Spaces : phase[s] = "user" =>
               phase'[s] = "user" \/ help[s] \in cs \cup {NoCall}
    PROVE  HelpIsAnswerable'
  <1>1. ASSUME NEW c \in Calls, callState'[c] = "help"
        PROVE  callSpace'[c] \in Spaces /\ help'[callSpace'[c]] = c
    <2>1. c \notin cs /\ callState[c] = "help"
      BY <1>1, AnsweredFacts
    <2>2. callSpace[c] \in Spaces /\ help[callSpace[c]] = c
      BY <2>1 DEF HelpIsAnswerable
    <2> QED
      BY <2>1, <2>2
  <1>2. ASSUME NEW s \in Spaces, help'[s] # NoCall
        PROVE  /\ phase'[s] = "user"
               /\ callState'[help'[s]] = "help" /\ callSpace'[help'[s]] = s
    <2>1. help[s] \notin cs /\ help[s] # NoCall /\ help'[s] = help[s]
      BY <1>2
    <2>2. /\ phase[s] = "user" /\ help[s] \in Calls
          /\ callState[help[s]] = "help" /\ callSpace[help[s]] = s
      BY <2>1 DEF HelpIsAnswerable, TypeOK
    <2> QED
      BY <2>1, <2>2, AnsweredFacts
  <1> QED
    BY <1>1, <1>2 DEF HelpIsAnswerable

(* No space knows of a call that does not wait for the user.               *)
LEMMA AnsweringOthersKeepsHelp ==
    ASSUME TypeOK, HelpIsAnswerable, NEW cs, callState' = Answered(cs),
           \A c \in Calls : c \in cs => callState[c] # "help",
           help' = help,
           \A c \in Calls : callState[c] = "help" => callSpace'[c] = callSpace[c],
           \A s \in Spaces : phase[s] = "user" => phase'[s] = "user"
    PROVE  HelpIsAnswerable'
  <1>1. \A c \in Calls : callState'[c] = "help" <=> callState[c] = "help"
    BY AnsweredFacts
  <1> QED
    BY <1>1, OtherCallsKeepHelp

(* A step that leaves the calls and the waits alone keeps them answerable. *)
LEMMA SameCallsKeepHelp ==
    ASSUME TypeOK, HelpIsAnswerable, UNCHANGED <<help, callState, callSpace>>,
           \A s \in Spaces : phase[s] = "user" => phase'[s] = "user"
    PROVE  HelpIsAnswerable'
  BY OtherCallsKeepHelp

(* Taking a space from the agent answers calls at work, never one that     *)
(* waits for the user.                                                     *)
LEMMA HandOffKeepsHelp ==
    ASSUME TypeOK, HelpIsAnswerable, NEW s \in Spaces, NEW why, NEW cs,
           \A c \in Calls : c \in cs => callState[c] # "help",
           HandOff(s, why, cs), help' = help,
           \A c \in Calls : callState[c] = "help" => callSpace'[c] = callSpace[c]
    PROVE  HelpIsAnswerable'
  <1>1. \A t \in Spaces : phase[t] = "user" => phase'[t] = "user"
    BY DEF HandOff, TypeOK
  <1>2. \A c \in Calls : c \in cs \cup ActiveIn({s}) => callState[c] # "help"
    BY DEF ActiveIn
  <1> QED
    BY <1>1, <1>2, AnsweringOthersKeepsHelp DEF HandOff

(* The answer that control came back is the one the waiting call gets.     *)
LEMMA ReturnKeepsHelp ==
    ASSUME TypeOK, HelpIsAnswerable, NEW s \in Spaces, ReturnToAgent(s),
           callSpace' = callSpace
    PROVE  HelpIsAnswerable'
  <1> DEFINE cs == HelpIn({s})
  <1>1. \A t \in Spaces : help[t] \in cs => t = s
    BY SpacesAssumption DEF HelpIn, HelpIsAnswerable, TypeOK
  <1>2. help[s] # NoCall => help[s] \in cs
    BY DEF HelpIn
  <1>3. /\ help' = [help EXCEPT ![s] = NoCall]
        /\ phase' = [phase EXCEPT ![s] = "running"]
        /\ callState' = Answered(cs)
    BY DEF ReturnToAgent
  <1>4. \A t \in Spaces : help'[t] = IF help[t] \in cs THEN NoCall ELSE help[t]
    BY <1>1, <1>2, <1>3 DEF TypeOK
  <1>5. \A t \in Spaces : phase[t] = "user" =>
            phase'[t] = "user" \/ help[t] \in cs \cup {NoCall}
    BY <1>2, <1>3 DEF TypeOK
  <1> QED
    BY <1>3, <1>4, <1>5, AnsweringKeepsHelp

(* CloseSpace answers the waiting call of each space it closes.            *)
LEMMA CloseKeepsHelp ==
    ASSUME TypeOK, HelpIsAnswerable, NEW S, S \subseteq Spaces,
           NEW state \in Closed, NEW cs,
           \A c \in Calls : c \in cs => callState[c] # "help",
           Close(S, state, cs), callSpace' = callSpace
    PROVE  HelpIsAnswerable'
  <1> DEFINE all == cs \cup ActiveIn(S) \cup HelpIn(S)
  <1>1. callState' = Answered(all) /\ help' = Set(help, S, NoCall)
    BY DEF Close
  <1>2. ASSUME NEW t \in Spaces, help[t] # NoCall
        PROVE  help[t] \in all <=> t \in S
    <2>1. /\ help[t] \in Calls /\ callState[help[t]] = "help"
          /\ callSpace[help[t]] = t
      BY <1>2 DEF HelpIsAnswerable, TypeOK
    <2>2. help[t] \notin cs /\ help[t] \notin ActiveIn(S)
      BY <2>1 DEF ActiveIn
    <2>3. help[t] \in HelpIn(S) <=> t \in S
      BY <1>2, <2>1 DEF HelpIn, HelpIsAnswerable
    <2> QED
      BY <2>2, <2>3
  <1>3. ASSUME NEW t \in Spaces
        PROVE  help'[t] = IF help[t] \in all THEN NoCall ELSE help[t]
    <2>1. help'[t] = IF t \in S THEN NoCall ELSE help[t]
      BY <1>1 DEF Set
    <2> QED
      BY <1>2, <2>1
  <1>4. ASSUME NEW t \in Spaces, phase[t] = "user"
        PROVE  phase'[t] = "user" \/ help[t] \in all \cup {NoCall}
    <2>1. CASE t \in S
      BY <1>2, <2>1
    <2>2. CASE t \notin S
      <3>1. /\ Set(phase, S, state) \in [Spaces -> Phases]
            /\ Set(phase, S, state)[t] = "user"
        BY <1>4, <2>2, PhaseFacts DEF Set, TypeOK
      <3> QED
        BY <3>1, PrunedFacts DEF Close, Closed
    <2> QED
      BY <2>1, <2>2
  <1> HIDE DEF all
  <1> QED
    BY <1>1, <1>3, <1>4, AnsweringKeepsHelp

(* A call entering a space was not waiting for the user, and answers none  *)
(* that is.                                                                *)
LEMMA ExecuteKeepsHelp ==
    ASSUME TypeOK, HelpIsAnswerable, NEW c \in Calls, NEW s \in Spaces,
           callState[c] # "help",
           \A d \in Calls \ {c} : callSpace'[d] = callSpace[d],
           \/ Admit(c, s) \/ AdmitHandsOff(c, s) \/ AdmitFails(c, s)
           \/ WaitForCommit(c)
    PROVE  HelpIsAnswerable'
  <1>1. CASE Admit(c, s) \/ WaitForCommit(c)
    <2>1. /\ UNCHANGED <<help, phase>>
          /\ \E x \in {"active", "waiting"} : callState' = [callState EXCEPT ![c] = x]
      BY <1>1 DEF Admit, WaitForCommit, spaceVars
    <2>2. \A d \in Calls : callState'[d] = "help" <=> callState[d] = "help"
      BY <2>1 DEF TypeOK
    <2> QED
      BY <2>1, <2>2, OtherCallsKeepHelp
  <1>2. CASE AdmitHandsOff(c, s)
    BY <1>2, HandOffKeepsHelp DEF AdmitHandsOff
  <1>3. CASE AdmitFails(c, s)
    BY <1>3, AnsweringOthersKeepsHelp DEF AdmitFails, spaceVars
  <1> QED
    BY <1>1, <1>2, <1>3

(* Every handler keeps the waits for the user answerable.                  *)
LEMMA HelpStep == TypeOK /\ HelpIsAnswerable /\ [Next]_vars => HelpIsAnswerable'
  <1> SUFFICES ASSUME TypeOK, HelpIsAnswerable, Next PROVE HelpIsAnswerable'
    BY SameCallsKeepHelp DEF vars, spaceVars, callVars
  <1>cancel. ASSUME NEW cs, Cancel(cs) PROVE HelpIsAnswerable'
    <2> DEFINE as == {c \in cs : callState[c] \in {"active", "help"}}
    <2>1. /\ callState' = Answered(as) /\ callSpace' = callSpace /\ phase' = phase
          /\ help' = [s \in Spaces |-> IF help[s] \in cs THEN NoCall ELSE help[s]]
      BY <1>cancel DEF Cancel
    <2>2. ASSUME NEW s \in Spaces
          PROVE  help'[s] = IF help[s] \in as THEN NoCall ELSE help[s]
      BY <2>1 DEF HelpIsAnswerable
    <2> HIDE DEF as
    <2> QED
      BY <2>1, <2>2, AnsweringKeepsHelp
  <1>call. ASSUME NEW c \in Calls, CallStep(c) PROVE HelpIsAnswerable'
    <2>1. CASE Refuse(c) \/ CreateReply(c) \/ Complete(c)
      BY <2>1, AnsweringOthersKeepsHelp DEF Refuse, CreateReply, Complete, spaceVars
    <2>2. CASE Dispatch(c)
      BY <2>2, ExecuteKeepsHelp DEF Dispatch
    <2>3. CASE Cancel({c})
      BY <2>3, <1>cancel
    <2> QED
      BY <1>call, <2>1, <2>2, <2>3 DEF CallStep
  <1>tool. ASSUME NEW c \in Calls, NEW s \in Spaces, ToolStep(c, s)
           PROVE  HelpIsAnswerable'
    <2>1. CASE CreateSpace(c, s)
      <3>1. /\ [phase EXCEPT ![s] = "running"] \in [Spaces -> Phases]
            /\ phase[s] = "unused"
        BY <2>1, PhaseFacts DEF CreateSpace, Creatable, TypeOK, Live
      <3>2. \A t \in Spaces : phase[t] = "user" => phase'[t] = "user"
        BY <2>1, <3>1, PrunedFacts DEF CreateSpace, TypeOK, Closed
      <3>3. /\ callState[c] = "new" /\ help' = help
            /\ callState' = [callState EXCEPT ![c] = "creating"]
            /\ callSpace' = [callSpace EXCEPT ![c] = s]
        BY <2>1 DEF CreateSpace, Creatable
      <3>4. /\ \A d \in Calls : callState'[d] = "help" <=> callState[d] = "help"
            /\ \A d \in Calls : callState[d] = "help" => callSpace'[d] = callSpace[d]
        BY <3>3 DEF TypeOK
      <3> QED
        BY <3>2, <3>3, <3>4, OtherCallsKeepHelp
    <2>2. CASE CreateFails(c, s)
      <3>1. [phase EXCEPT ![s] = "stopped"] \in [Spaces -> Phases]
        BY PhaseFacts DEF TypeOK, Closed
      <3>2. /\ phase[s] = "unused" /\ callState[c] = "new" /\ help' = help
            /\ callState' = Answered({c}) /\ callSpace' = callSpace
            /\ phase' = [Pruned([phase EXCEPT ![s] = "stopped"]) EXCEPT ![s] = "gone"]
        BY <2>2 DEF CreateFails, Creatable
      <3>3. \A t \in Spaces : phase[t] = "user" => phase'[t] = "user"
        BY <3>1, <3>2, PrunedFacts DEF TypeOK, Closed
      <3> QED
        <4>1. \A d \in Calls : d \in {c} => callState[d] # "help"
          BY <3>2
        <4>2. \A d \in Calls : callState[d] = "help" => callSpace'[d] = callSpace[d]
          BY <3>2
        <4> QED
          BY <3>2, <3>3, <4>1, <4>2, AnsweringOthersKeepsHelp
    <2>3. CASE Execute(c, s)
      <3>1. /\ callState[c] = "new"
            /\ \A d \in Calls \ {c} : callSpace'[d] = callSpace[d]
        BY <2>3 DEF Execute, TypeOK
      <3> QED
        BY <2>3, <3>1, ExecuteKeepsHelp DEF Execute
    <2>4. CASE RequestUserHelp(c, s)
      <3>1. /\ callState' = [Answered(ActiveIn({s})) EXCEPT ![c] = "help"]
            /\ callSpace' = [callSpace EXCEPT ![c] = s]
            /\ help' = [help EXCEPT ![s] = c]
            /\ phase' = [phase EXCEPT ![s] = "user"]
            /\ callState[c] = "new" /\ help[s] = NoCall
        BY <2>4 DEF RequestUserHelp
      <3>2. ASSUME NEW d \in Calls \ {c}
            PROVE  /\ callState'[d] = "help" <=> callState[d] = "help"
                   /\ callSpace'[d] = callSpace[d]
        <4>1. callState'[d] = Answered(ActiveIn({s}))[d]
          BY <3>1, AnsweredFacts
        <4> QED
          BY <3>1, <4>1, AnsweredFacts DEF ActiveIn, TypeOK
      <3>3. callState'[c] = "help" /\ callSpace'[c] = s /\ help'[s] = c
        BY <3>1, AnsweredFacts DEF TypeOK
      <3>4. ASSUME NEW d \in Calls, callState'[d] = "help"
            PROVE  callSpace'[d] \in Spaces /\ help'[callSpace'[d]] = d
        <4>1. CASE d = c
          BY <3>3, <4>1
        <4>2. CASE d # c
          <5>1. callState[d] = "help" /\ callSpace'[d] = callSpace[d]
            BY <3>2, <3>4, <4>2
          <5>2. callSpace[d] \in Spaces /\ help[callSpace[d]] = d
            BY <5>1 DEF HelpIsAnswerable
          <5>3. callSpace[d] # s
            BY <3>1, <5>2, SpacesAssumption
          <5> QED
            BY <3>1, <5>1, <5>2, <5>3 DEF TypeOK
        <4> QED
          BY <4>1, <4>2
      <3>5. ASSUME NEW t \in Spaces, help'[t] # NoCall
            PROVE  /\ phase'[t] = "user"
                   /\ callState'[help'[t]] = "help" /\ callSpace'[help'[t]] = t
        <4>1. CASE t = s
          BY <3>1, <3>3, <4>1 DEF TypeOK
        <4>2. CASE t # s
          <5>1. help'[t] = help[t] /\ phase'[t] = phase[t]
            BY <3>1, <4>2 DEF TypeOK
          <5>2. /\ phase[t] = "user" /\ help[t] \in Calls
                /\ callState[help[t]] = "help" /\ callSpace[help[t]] = t
            BY <3>5, <5>1 DEF HelpIsAnswerable, TypeOK
          <5>3. help[t] # c
            BY <3>1, <5>2
          <5> QED
            BY <3>2, <5>1, <5>2, <5>3
        <4> QED
          BY <4>1, <4>2
      <3> QED
        BY <3>4, <3>5 DEF HelpIsAnswerable
    <2>5. CASE FinishSpace(c, s)
      BY <2>5, CloseKeepsHelp DEF FinishSpace, Closed
    <2>6. CASE HandleDialog(c, s)
      BY <2>6, AnsweringOthersKeepsHelp DEF HandleDialog, spaceVars
    <2> QED
      BY <1>tool, <2>1, <2>2, <2>3, <2>4, <2>5, <2>6 DEF ToolStep
  <1>user. ASSUME NEW s \in Spaces, UserStep(s) PROVE HelpIsAnswerable'
    <2>1. CASE TakeOverRunning(s)
      BY <2>1, HandOffKeepsHelp DEF TakeOverRunning
    <2>2. CASE ShowWindow(s) \/ HideWindow(s)
      BY <2>2, SameCallsKeepHelp DEF ShowWindow, HideWindow, callVars
    <2>3. CASE HandBack(s)
      BY <2>3, ReturnKeepsHelp DEF HandBack
    <2>4. CASE Stop(s)
      BY <2>4, CloseKeepsHelp DEF Stop, Closed
    <2>5. CASE Dismiss(s)
      BY <2>5, SameCallsKeepHelp DEF Dismiss, TypeOK, Closed, callVars
    <2> QED
      BY <1>user, <2>1, <2>2, <2>3, <2>4, <2>5 DEF UserStep
  <1>page. ASSUME NEW s \in Spaces, PageStep(s) PROVE HelpIsAnswerable'
    <2>1. ASSUME NEW t \in Tabs, OnDialogOpened(s, t) \/ OnDialogClosed(s, t)
          PROVE  HelpIsAnswerable'
      BY <2>1, SameCallsKeepHelp DEF OnDialogOpened, OnDialogClosed, spaceVars, callVars
    <2>2. CASE PermissionRequested(s) \/ PermissionAnswered(s)
      BY <2>2, SameCallsKeepHelp
      DEF PermissionRequested, PermissionAnswered, spaceVars, callVars
    <2>3. CASE OnPermissionPrompt(s)
      BY <2>3, HandOffKeepsHelp, SameCallsKeepHelp DEF OnPermissionPrompt
    <2>4. CASE OnPageNeedsUser(s)
      BY <2>4, HandOffKeepsHelp DEF OnPageNeedsUser
    <2> QED
      BY <1>page, <2>1, <2>2, <2>3, <2>4 DEF PageStep
  <1>timer. ASSUME NEW s \in Spaces, TimerStep(s) PROVE HelpIsAnswerable'
    <2>1. CASE OnHelpTimeout(s)
      <3>1. /\ callState' = Answered({help[s]}) /\ help[s] # NoCall
            /\ help' = [help EXCEPT ![s] = NoCall]
            /\ UNCHANGED <<phase, callSpace>>
        BY <2>1 DEF OnHelpTimeout
      <3>2. \A t \in Spaces : help[t] = help[s] => t = s
        BY <3>1 DEF HelpIsAnswerable
      <3>3. \A t \in Spaces : help'[t] = IF help[t] \in {help[s]} THEN NoCall ELSE help[t]
        BY <3>1, <3>2 DEF TypeOK
      <3> QED
        BY <3>1, <3>3, AnsweringKeepsHelp
    <2>2. CASE CancelBehindDialog(s)
      <3>1. \A c \in Calls : c \in ActiveIn({s}) => callState[c] # "help"
        BY DEF ActiveIn
      <3> QED
        BY <2>2, <3>1, AnsweringOthersKeepsHelp, SameCallsKeepHelp
        DEF CancelBehindDialog, spaceVars
    <2>3. CASE HideWindowAfterFullscreenExit(s)
      BY <2>3, ReturnKeepsHelp, SameCallsKeepHelp DEF HideWindowAfterFullscreenExit
    <2> QED
      BY <1>timer, <2>1, <2>2, <2>3 DEF TimerStep
  <1>service. ASSUME ServiceStep PROVE HelpIsAnswerable'
    <2>1. ASSUME NEW mcp \in BOOLEAN, CancelClientTools(mcp) PROVE HelpIsAnswerable'
      BY <2>1, <1>cancel DEF CancelClientTools
    <2>2. CASE StopSpacesForClient
      <3>1. {s \in McpSpaces : Open(s)} \subseteq Spaces
        BY SpacesAssumption
      <3> QED
        BY <2>2, <3>1, CloseKeepsHelp DEF StopSpacesForClient, Closed
    <2>3. CASE CheckIdleSpaces
      BY <2>3, CloseKeepsHelp DEF CheckIdleSpaces, Closed
    <2>4. CASE Restart
      <3>1. help' = [s \in Spaces |-> NoCall]
        BY <2>4 DEF Restart
      <3>2. \A c \in Calls : callState'[c] # "help"
        BY <2>4, AnsweredFacts DEF Restart
      <3> QED
        BY <3>1, <3>2 DEF HelpIsAnswerable
    <2> QED
      BY <1>service, <2>1, <2>2, <2>3, <2>4 DEF ServiceStep
  <1> QED
    BY <1>call, <1>tool, <1>user, <1>page, <1>timer, <1>service DEF Next

-----------------------------------------------------------------------------
(* No call is at work where the page has a question for the user.  Of the  *)
(* dialogs the code knows only the last, so this is about that one; what   *)
(* it says of the tabs really blocked is DialogsKnown, below.              *)
PendingStopsCalls ==
    \A c \in Calls \ ListCalls : callState[c] = "active" =>
        pending[callSpace[c]] = NoTab \/ posted[callSpace[c]] > 0

Undisturbed == PromptStopsCalls /\ PendingStopsCalls

(* The calls at work after most steps were at work before, in spaces whose *)
(* prompts and dialogs the step has not changed.                           *)
LEMMA FewerCallsUndisturbed ==
    ASSUME Undisturbed, UNCHANGED <<pending, posted>>,
           \A c \in Calls : callState'[c] = "active" =>
               /\ callState[c] = "active" /\ callSpace'[c] = callSpace[c]
               /\ prompt'[callSpace[c]] \in {prompt[callSpace[c]], "none", "queued"}
    PROVE  Undisturbed'
  BY DEF Undisturbed, PromptStopsCalls, PendingStopsCalls

(* Answering calls leaves nothing new at work.                             *)
LEMMA AnsweringUndisturbed ==
    ASSUME TypeOK, Undisturbed, NEW cs, callState' = Answered(cs),
           UNCHANGED <<pending, posted, prompt>>,
           \A c \in Calls : callState[c] = "active" => callSpace'[c] = callSpace[c]
    PROVE  Undisturbed'
  <1>1. \A c \in Calls : callState'[c] = "active" => callState[c] = "active"
    BY AnsweredFacts
  <1> QED
    BY <1>1, FewerCallsUndisturbed

(* Nor does a step that leaves calls, prompts and dialogs alone.           *)
LEMMA SameCallsUndisturbed ==
    ASSUME Undisturbed, UNCHANGED <<pending, posted, prompt, callState, callSpace>>
    PROVE  Undisturbed'
  BY FewerCallsUndisturbed

(* A call is admitted to a space without a prompt and without a dialog.    *)
LEMMA ExecuteUndisturbed ==
    ASSUME TypeOK, Undisturbed, NEW c \in Calls, NEW s \in Spaces,
           callState[c] # "active",
           \A d \in Calls \ {c} : callSpace'[d] = callSpace[d],
           callSpace'[c] = s,
           \/ Admit(c, s) \/ AdmitHandsOff(c, s) \/ AdmitFails(c, s)
           \/ WaitForCommit(c)
    PROVE  Undisturbed'
  <1>1. CASE Admit(c, s)
    <2>1. /\ prompt[s] = "none" /\ (pending[s] = NoTab \/ c \in ListCalls)
          /\ callState' = [callState EXCEPT ![c] = "active"]
          /\ UNCHANGED <<pending, posted, prompt>>
      BY <1>1 DEF Admit, Blocked, pageVars
    <2>2. \A d \in Calls \ {c} : callState'[d] = callState[d]
      BY <2>1 DEF TypeOK
    <2> QED
      BY <2>1, <2>2 DEF Undisturbed, PromptStopsCalls, PendingStopsCalls
  <1>2. CASE AdmitHandsOff(c, s)
    BY <1>2, AnsweringUndisturbed DEF AdmitHandsOff, HandOff, pageVars
  <1>3. CASE AdmitFails(c, s)
    BY <1>3, AnsweringUndisturbed DEF AdmitFails, pageVars
  <1>4. CASE WaitForCommit(c)
    <2>1. /\ callState' = [callState EXCEPT ![c] = "waiting"]
          /\ UNCHANGED <<pending, posted, prompt>>
      BY <1>4 DEF WaitForCommit, pageVars
    <2>2. \A d \in Calls : callState'[d] = "active" => d # c /\ callState[d] = "active"
      BY <2>1 DEF TypeOK
    <2> QED
      BY <2>1, <2>2, FewerCallsUndisturbed
  <1> QED
    BY <1>1, <1>2, <1>3, <1>4

(* Closing takes the prompts of a space away with its calls.               *)
LEMMA CloseUndisturbed ==
    ASSUME TypeOK, Undisturbed, NEW S, NEW state, NEW cs,
           Close(S, state, cs), callSpace' = callSpace,
           \A c \in Calls : callState[c] = "active" => callSpace[c] \in Spaces
    PROVE  Undisturbed'
  <1>1. /\ callState' = Answered(cs \cup ActiveIn(S) \cup HelpIn(S))
        /\ UNCHANGED <<pending, posted>>
    BY DEF Close
  <1>2. \A c \in Calls : callState'[c] = "active" => callState[c] = "active"
    BY <1>1, AnsweredFacts
  <1>3. \A s \in Spaces : prompt'[s] \in {prompt[s], "none"}
    BY DEF Close, Set
  <1> QED
    BY <1>1, <1>2, <1>3, FewerCallsUndisturbed

(* Every handler keeps calls from working under a prompt or an undetected  *)
(* dialog; a shown prompt relies on the user's spaces having no calls.     *)
LEMMA UndisturbedStep ==
    TypeOK /\ CallsNeedTheAgent /\ Undisturbed /\ [Next]_vars => Undisturbed'
  <1> SUFFICES ASSUME TypeOK, CallsNeedTheAgent, Undisturbed, Next PROVE Undisturbed'
    BY SameCallsUndisturbed DEF vars, pageVars, callVars
  <1>spaces. \A c \in Calls : callState[c] = "active" => callSpace[c] \in Spaces
    BY DEF CallsNeedTheAgent
  <1>call. ASSUME NEW c \in Calls, CallStep(c) PROVE Undisturbed'
    <2>1. CASE Refuse(c) \/ CreateReply(c) \/ Complete(c)
      BY <2>1, AnsweringUndisturbed DEF Refuse, CreateReply, Complete, pageVars
    <2>2. CASE Dispatch(c)
      BY <2>2, ExecuteUndisturbed DEF Dispatch
    <2>3. CASE Cancel({c})
      BY <2>3, AnsweringUndisturbed DEF Cancel, pageVars
    <2> QED
      BY <1>call, <2>1, <2>2, <2>3 DEF CallStep
  <1>tool. ASSUME NEW c \in Calls, NEW s \in Spaces, ToolStep(c, s) PROVE Undisturbed'
    <2>1. CASE CreateSpace(c, s)
      <3>1. /\ callState' = [callState EXCEPT ![c] = "creating"]
            /\ callSpace' = [callSpace EXCEPT ![c] = s]
            /\ UNCHANGED <<pending, posted, prompt>>
        BY <2>1 DEF CreateSpace, pageVars
      <3>2. \A d \in Calls : callState'[d] = "active" =>
                callState[d] = "active" /\ callSpace'[d] = callSpace[d]
        BY <3>1 DEF TypeOK
      <3> QED
        BY <3>1, <3>2, FewerCallsUndisturbed
    <2>2. CASE CreateFails(c, s)
      BY <2>2, AnsweringUndisturbed DEF CreateFails, pageVars
    <2>3. CASE Execute(c, s)
      <3>1. /\ callState[c] = "new" /\ callSpace'[c] = s
            /\ \A d \in Calls \ {c} : callSpace'[d] = callSpace[d]
        BY <2>3 DEF Execute, TypeOK
      <3> QED
        BY <2>3, <3>1, ExecuteUndisturbed DEF Execute
    <2>4. CASE RequestUserHelp(c, s)
      <3>1. /\ callState' = [Answered(ActiveIn({s})) EXCEPT ![c] = "help"]
            /\ callSpace' = [callSpace EXCEPT ![c] = s]
            /\ UNCHANGED <<pending, posted, prompt>>
        BY <2>4 DEF RequestUserHelp, pageVars
      <3>2. \A d \in Calls : callState'[d] = "active" =>
                callState[d] = "active" /\ callSpace'[d] = callSpace[d]
        BY <3>1, AnsweredFacts DEF TypeOK
      <3> QED
        BY <3>1, <3>2, FewerCallsUndisturbed
    <2>5. CASE FinishSpace(c, s)
      BY <2>5, <1>spaces, CloseUndisturbed DEF FinishSpace
    <2>6. CASE HandleDialog(c, s)
      <3>1. /\ callState' = Answered({c}) /\ UNCHANGED <<posted, prompt, callSpace>>
            /\ pending' = [pending EXCEPT ![s] = NoTab]
        BY <2>6 DEF HandleDialog
      <3>2. \A d \in Calls : callState'[d] = "active" => callState[d] = "active"
        BY <3>1, AnsweredFacts
      <3>3. \A r \in Spaces : pending'[r] \in {pending[r], NoTab}
        BY <3>1 DEF TypeOK
      <3> QED
        BY <1>spaces, <3>1, <3>2, <3>3
        DEF Undisturbed, PromptStopsCalls, PendingStopsCalls
    <2> QED
      BY <1>tool, <2>1, <2>2, <2>3, <2>4, <2>5, <2>6 DEF ToolStep
  <1>user. ASSUME NEW s \in Spaces, UserStep(s) PROVE Undisturbed'
    <2>1. CASE TakeOverRunning(s)
      BY <2>1, AnsweringUndisturbed DEF TakeOverRunning, HandOff, pageVars
    <2>2. CASE ShowWindow(s) \/ HideWindow(s) \/ Dismiss(s)
      BY <2>2, SameCallsUndisturbed DEF ShowWindow, HideWindow, Dismiss, pageVars, callVars
    <2>3. CASE HandBack(s)
      BY <2>3, AnsweringUndisturbed DEF HandBack, ReturnToAgent, pageVars
    <2>4. CASE Stop(s)
      BY <2>4, <1>spaces, CloseUndisturbed DEF Stop
    <2> QED
      BY <1>user, <2>1, <2>2, <2>3, <2>4 DEF UserStep
  <1>page. ASSUME NEW s \in Spaces, PageStep(s) PROVE Undisturbed'
    <2>1. ASSUME NEW t \in Tabs, OnDialogOpened(s, t) PROVE Undisturbed'
      <3>1. /\ pending' = [pending EXCEPT ![s] = t]
            /\ posted' = [posted EXCEPT ![s] = @ + 1]
            /\ UNCHANGED <<prompt, callState, callSpace>>
        BY <2>1 DEF OnDialogOpened, callVars
      <3>2. posted[s] \in Nat
        BY SpacesAssumption DEF TypeOK
      <3>3. posted'[s] > 0
        BY <3>1, <3>2 DEF TypeOK
      <3>4. \A r \in Spaces \ {s} : pending'[r] = pending[r] /\ posted'[r] = posted[r]
        BY <3>1 DEF TypeOK
      <3> QED
        BY <1>spaces, <3>1, <3>3, <3>4 DEF Undisturbed, PromptStopsCalls, PendingStopsCalls
    <2>2. ASSUME NEW t \in Tabs, OnDialogClosed(s, t) PROVE Undisturbed'
      <3>1. /\ pending' = [pending EXCEPT ![s] = IF @ = t THEN NoTab ELSE @]
            /\ UNCHANGED <<posted, prompt, callState, callSpace>>
        BY <2>2 DEF OnDialogClosed, callVars
      <3>2. \A r \in Spaces : pending'[r] \in {pending[r], NoTab}
        BY <3>1 DEF TypeOK
      <3> QED
        BY <1>spaces, <3>1, <3>2 DEF Undisturbed, PromptStopsCalls, PendingStopsCalls
    <2>3. ASSUME NEW p \in {"none", "queued"}, prompt' = [prompt EXCEPT ![s] = p],
                 UNCHANGED <<pending, posted, callVars>>
          PROVE  Undisturbed'
      <3>1. \A r \in Spaces : prompt'[r] \in {prompt[r], "none", "queued"}
        BY <2>3 DEF TypeOK
      <3> QED
        BY <1>spaces, <2>3, <3>1, FewerCallsUndisturbed DEF callVars
    <2>4. CASE PermissionRequested(s) \/ PermissionAnswered(s)
      BY <2>3, <2>4 DEF PermissionRequested, PermissionAnswered
    <2>5. CASE OnPermissionPrompt(s)
      <3>1. /\ prompt' = [prompt EXCEPT ![s] = "shown"]
            /\ UNCHANGED <<pending, posted, callSpace>>
        BY <2>5 DEF OnPermissionPrompt
      <3>2. ASSUME NEW c \in Calls, callState'[c] = "active"
            PROVE  callState[c] = "active" /\ callSpace[c] # s
        <4>1. CASE phase[s] = "running"
          <5>1. callState' = Answered({} \cup ActiveIn({s}))
            BY <2>5, <4>1 DEF OnPermissionPrompt, HandOff
          <5> QED
            BY <3>2, <5>1, AnsweredFacts DEF ActiveIn
        <4>2. CASE phase[s] # "running"
          <5>1. callState' = callState
            BY <2>5, <4>2 DEF OnPermissionPrompt
          <5> QED
            BY <3>2, <4>2, <5>1 DEF CallsNeedTheAgent
        <4> QED
          BY <4>1, <4>2
      <3>3. \A r \in Spaces \ {s} : prompt'[r] = prompt[r]
        BY <3>1 DEF TypeOK
      <3> QED
        BY <1>spaces, <3>1, <3>2, <3>3, FewerCallsUndisturbed
    <2>6. CASE OnPageNeedsUser(s)
      BY <2>6, AnsweringUndisturbed DEF OnPageNeedsUser, HandOff, pageVars
    <2> QED
      BY <1>page, <2>1, <2>2, <2>4, <2>5, <2>6 DEF PageStep
  <1>timer. ASSUME NEW s \in Spaces, TimerStep(s) PROVE Undisturbed'
    <2>1. CASE OnHelpTimeout(s)
      BY <2>1, AnsweringUndisturbed DEF OnHelpTimeout, pageVars
    <2>2. CASE CancelBehindDialog(s)
      <3>1. /\ posted' = [posted EXCEPT ![s] = @ - 1]
            /\ UNCHANGED <<pending, prompt, callSpace>>
            /\ callState' = IF pending[s] # NoTab THEN Answered(ActiveIn({s}))
                                                  ELSE callState
        BY <2>2 DEF CancelBehindDialog
      <3>2. ASSUME NEW c \in Calls, callState'[c] = "active"
            PROVE  /\ callState[c] = "active"
                   /\ callSpace[c] = s => pending[s] = NoTab
        BY <3>1, <3>2, AnsweredFacts DEF ActiveIn
      <3>3. \A r \in Spaces \ {s} : posted'[r] = posted[r]
        BY <3>1 DEF TypeOK
      <3> QED
        BY <1>spaces, <3>1, <3>2, <3>3
        DEF Undisturbed, PromptStopsCalls, PendingStopsCalls
    <2>3. CASE HideWindowAfterFullscreenExit(s)
      BY <2>3, AnsweringUndisturbed, SameCallsUndisturbed
      DEF HideWindowAfterFullscreenExit, ReturnToAgent, pageVars
    <2> QED
      BY <1>timer, <2>1, <2>2, <2>3 DEF TimerStep
  <1>service. ASSUME ServiceStep PROVE Undisturbed'
    <2>1. ASSUME NEW mcp \in BOOLEAN, CancelClientTools(mcp) PROVE Undisturbed'
      BY <2>1, AnsweringUndisturbed DEF CancelClientTools, Cancel, pageVars
    <2>2. CASE StopSpacesForClient
      BY <2>2, <1>spaces, CloseUndisturbed DEF StopSpacesForClient
    <2>3. CASE CheckIdleSpaces
      BY <2>3, <1>spaces, CloseUndisturbed DEF CheckIdleSpaces
    <2>4. CASE Restart
      <3>1. \A c \in Calls : callState'[c] # "active"
        BY <2>4, AnsweredFacts DEF Restart
      <3> QED
        BY <3>1 DEF Undisturbed, PromptStopsCalls, PendingStopsCalls
    <2> QED
      BY <1>service, <2>1, <2>2, <2>3, <2>4 DEF ServiceStep
  <1> QED
    BY <1>call, <1>tool, <1>user, <1>page, <1>timer, <1>service DEF Next

-----------------------------------------------------------------------------
(* The one dialog the service knows is the one of every blocked tab that   *)
(* no later dialog has displaced.                                          *)
DialogsKnown ==
    \A s \in Spaces : /\ covered[s] \subseteq dialogs[s]
                      /\ dialogs[s] \ covered[s] \subseteq {pending[s]}
                      /\ pending[s] \notin covered[s]

(* A step that leaves the dialogs of each space or takes them all keeps    *)
(* what is known.                                                          *)
LEMMA SameDialogsKnown ==
    ASSUME DialogsKnown, NEW S, pending' = pending,
           dialogs' = Set(dialogs, S, {}), covered' = Set(covered, S, {})
    PROVE  DialogsKnown'
  BY DEF DialogsKnown, Set

(* Opening a dialog displaces those that are open; an answer to the known  *)
(* one, or the end of any, leaves the others as they were.                 *)
LEMMA DialogsKnownStep == TypeOK /\ DialogsKnown /\ [Next]_vars => DialogsKnown'
  <1> SUFFICES ASSUME TypeOK, DialogsKnown, Next PROVE DialogsKnown'
    BY DEF DialogsKnown, vars, pageVars
  <1>same. ASSUME UNCHANGED <<pending, dialogs, covered>> PROVE DialogsKnown'
    BY <1>same DEF DialogsKnown
  <1>close. ASSUME NEW S, NEW state, NEW cs, Close(S, state, cs) PROVE DialogsKnown'
    BY <1>close, SameDialogsKnown DEF Close
  <1>call. ASSUME NEW c \in Calls, CallStep(c) PROVE DialogsKnown'
    BY <1>call, <1>same
    DEF CallStep, Refuse, CreateReply, Dispatch, Complete, Cancel, Admit,
        AdmitHandsOff, AdmitFails, pageVars
  <1>tool. ASSUME NEW c \in Calls, NEW s \in Spaces, ToolStep(c, s) PROVE DialogsKnown'
    <2>1. CASE CreateSpace(c, s) \/ CreateFails(c, s) \/ RequestUserHelp(c, s)
      BY <2>1, <1>same DEF CreateSpace, CreateFails, RequestUserHelp, pageVars
    <2>2. CASE Execute(c, s)
      BY <2>2, <1>same
      DEF Execute, WaitForCommit, Admit, AdmitHandsOff, AdmitFails, pageVars
    <2>3. CASE FinishSpace(c, s)
      BY <2>3, <1>close DEF FinishSpace
    <2>4. CASE HandleDialog(c, s)
      <3>1. /\ pending[s] \in Tabs /\ NoTab \notin covered[s]
            /\ pending' = [pending EXCEPT ![s] = NoTab]
            /\ dialogs' = [dialogs EXCEPT ![s] = @ \ {pending[s]}]
            /\ covered' = covered
        BY <2>4, SpacesAssumption DEF HandleDialog, TypeOK
      <3> QED
        BY <3>1 DEF DialogsKnown, TypeOK
    <2> QED
      BY <1>tool, <2>1, <2>2, <2>3, <2>4 DEF ToolStep
  <1>user. ASSUME NEW s \in Spaces, UserStep(s) PROVE DialogsKnown'
    <2>1. CASE Stop(s)
      BY <2>1, <1>close DEF Stop
    <2>2. CASE \/ TakeOverRunning(s) \/ ShowWindow(s) \/ HandBack(s)
               \/ HideWindow(s) \/ Dismiss(s)
      BY <2>2, <1>same
      DEF TakeOverRunning, ShowWindow, HandBack, HideWindow, Dismiss, pageVars
    <2> QED
      BY <1>user, <2>1, <2>2 DEF UserStep
  <1>page. ASSUME NEW s \in Spaces, PageStep(s) PROVE DialogsKnown'
    <2>1. ASSUME NEW t \in Tabs, OnDialogOpened(s, t) PROVE DialogsKnown'
      BY <2>1 DEF OnDialogOpened, DialogsKnown, TypeOK
    <2>2. ASSUME NEW t \in Tabs, OnDialogClosed(s, t) PROVE DialogsKnown'
      <3>1. /\ pending' = [pending EXCEPT ![s] = IF @ = t THEN NoTab ELSE @]
            /\ dialogs' = [dialogs EXCEPT ![s] = @ \ {t}]
            /\ covered' = [covered EXCEPT ![s] = @ \ {t}]
            /\ NoTab \notin covered[s]
        BY <2>2, SpacesAssumption DEF OnDialogClosed, TypeOK
      <3> QED
        BY <3>1 DEF DialogsKnown, TypeOK
    <2>3. CASE \/ PermissionRequested(s) \/ OnPermissionPrompt(s)
               \/ PermissionAnswered(s) \/ OnPageNeedsUser(s)
      BY <2>3, <1>same
      DEF PermissionRequested, OnPermissionPrompt, PermissionAnswered,
          OnPageNeedsUser, pageVars
    <2> QED
      BY <1>page, <2>1, <2>2, <2>3 DEF PageStep
  <1>timer. ASSUME NEW s \in Spaces, TimerStep(s) PROVE DialogsKnown'
    BY <1>timer, <1>same
    DEF TimerStep, OnHelpTimeout, CancelBehindDialog, HideWindowAfterFullscreenExit,
        pageVars
  <1>service. ASSUME ServiceStep PROVE DialogsKnown'
    <2>1. ASSUME NEW mcp \in BOOLEAN, CancelClientTools(mcp) PROVE DialogsKnown'
      BY <2>1, <1>same DEF CancelClientTools, Cancel, pageVars
    <2>2. CASE StopSpacesForClient
      BY <2>2, <1>close DEF StopSpacesForClient
    <2>3. CASE CheckIdleSpaces
      BY <2>3, <1>close DEF CheckIdleSpaces
    <2>4. CASE Restart
      BY <2>4 DEF Restart, DialogsKnown
    <2> QED
      BY <1>service, <2>1, <2>2, <2>3, <2>4 DEF ServiceStep
  <1> QED
    BY <1>call, <1>tool, <1>user, <1>page, <1>timer, <1>service DEF Next

(* With no dialog known, every blocked tab's dialog has been displaced.    *)
LEMMA BlockedTabs ==
    ASSUME TypeOK, CallsNeedTheAgent, PendingStopsCalls, DialogsKnown
    PROVE  DialogStopsCalls
  <1> SUFFICES ASSUME NEW c \in Calls \ ListCalls, callState[c] = "active",
                      ~(posted[callSpace[c]] > 0)
               PROVE  dialogs[callSpace[c]] \subseteq covered[callSpace[c]]
    BY DEF DialogStopsCalls
  <1>1. callSpace[c] \in Spaces
    BY DEF CallsNeedTheAgent
  <1>2. pending[callSpace[c]] = NoTab
    BY DEF PendingStopsCalls
  <1>3. NoTab \notin dialogs[callSpace[c]]
    BY <1>1, SpacesAssumption DEF TypeOK
  <1> QED
    BY <1>1, <1>2, <1>3 DEF DialogsKnown

-----------------------------------------------------------------------------
(* The inductive invariant: who has control, who waits for the user, what  *)
(* is recorded and what a page shows hang together.                        *)
IInv ==
    /\ TypeOK
    /\ CallsNeedTheAgent
    /\ HelpIsAnswerable
    /\ Settled
    /\ Undisturbed
    /\ DialogsKnown

(* Every reachable state satisfies it.                                     *)
THEOREM SpaceInvariant == Spec => []IInv
  <1>1. Init => IInv
    <2> SUFFICES ASSUME Init PROVE IInv
      OBVIOUS
    <2>1. \A c \in Calls : callState[c] = "new"
      BY DEF Init
    <2>2. CallsNeedTheAgent /\ Undisturbed
      BY <2>1 DEF CallsNeedTheAgent, Undisturbed, PromptStopsCalls, PendingStopsCalls
    <2>3. HelpIsAnswerable
      BY <2>1 DEF Init, HelpIsAnswerable
    <2>4. Settled
      <3>1. phase = [s \in Spaces |-> "unused"] /\ history = [s \in Spaces |-> "none"]
        BY DEF Init
      <3>2. HistoryIsTheRecord
        BY <3>1 DEF HistoryIsTheRecord, HistoryOf, Closed
      <3>3. ControlIsConsistent
        BY DEF Init, ControlIsConsistent
      <3> QED
        BY <3>2, <3>3 DEF Settled
    <2> QED
      <3>1. DialogsKnown
        BY SpacesAssumption DEF Init, DialogsKnown
      <3> QED
        BY <2>2, <2>3, <2>4, <3>1, TypeInit DEF IInv
  <1>2. IInv /\ [Next]_vars => IInv'
    BY TypeStep, CallsStep, HelpStep, SettledStep, UndisturbedStep, DialogsKnownStep
    DEF IInv
  <1> QED
    BY <1>1, <1>2, PTL DEF Spec

(* The variables of an Agent Space keep their types.                       *)
THEOREM SpaceTypes == Spec => []TypeOK
  BY SpaceInvariant, PTL DEF IInv

(* No call is at work in a space that is the user's or over, whatever the  *)
(* spaces, calls and limits.                                               *)
THEOREM CallsStop == Spec => []CallsNeedTheAgent
  BY SpaceInvariant, PTL DEF IInv

(* Hand back, stop, cancel and timeout find the call that waits for the    *)
(* user.                                                                   *)
THEOREM HelpIsFound == Spec => []HelpIsAnswerable
  BY SpaceInvariant, PTL DEF IInv

(* The pages are locked exactly while the agent has control.               *)
THEOREM ControlSettled == Spec => []ControlIsConsistent
  BY SpaceInvariant, PTL DEF IInv, Settled

(* The saved history is the list of closed spaces.                         *)
THEOREM HistorySaved == Spec => []HistoryIsTheRecord
  BY SpaceInvariant, PTL DEF IInv, Settled

(* No call is at work under a permission prompt.                           *)
THEOREM PromptsStopCalls == Spec => []PromptStopsCalls
  BY SpaceInvariant, PTL DEF IInv, Undisturbed

(* With any number of tabs, no call is at work while a tab is blocked by a *)
(* dialog, unless its cancelling is due or a later dialog made the service *)
(* forget every one that is open.                                          *)
THEOREM DialogsStopCalls == Spec => []DialogStopsCalls
  BY SpaceInvariant, BlockedTabs, PTL DEF IInv, Undisturbed
-----------------------------------------------------------------------------
(* The mapping of ImplementsTaskControl.                                   *)
ControlOf(p) ==
    CASE p = "unused" -> "none"
      [] p = "running" -> "agent"
      [] p = "user" -> "user"
      [] OTHER -> "over"

ctlbar  == [s \in Spaces |-> ControlOf(phase[s])]
workbar == {<<c, callSpace[c]>> : c \in {d \in Calls : callState[d] = "active"}}

(* How phases map to control.                                              *)
LEMMA ControlFacts ==
    /\ ControlOf("unused") = "none" /\ ControlOf("running") = "agent"
    /\ ControlOf("user") = "user"
    /\ \A p \in Closed \cup {"gone"} : ControlOf(p) = "over"
  BY DEF ControlOf, Closed

(* Answering calls takes them out of the work at hand.                     *)
LEMMA AnsweringEndsWork ==
    ASSUME TypeOK, NEW cs, callState' = Answered(cs),
           \A c \in Calls : callState[c] = "active" => callSpace'[c] = callSpace[c]
    PROVE  /\ workbar' \subseteq workbar
           /\ \A S : (\A c \in Calls : callState[c] = "active" =>
                         (c \in cs <=> callSpace[c] \in S))
                 => workbar' = workbar \ Control!In(S)
  <1>1. \A c \in Calls : callState'[c] = "active" <=> callState[c] = "active" /\ c \notin cs
    BY AnsweredFacts
  <1>2. workbar' = {<<c, callSpace'[c]>> : c \in {d \in Calls : callState'[d] = "active"}}
    BY DEF workbar
  <1>3. workbar' \subseteq workbar
    BY <1>1, <1>2 DEF workbar
  <1>4. ASSUME NEW S, \A c \in Calls : callState[c] = "active" =>
                          (c \in cs <=> callSpace[c] \in S)
        PROVE  workbar' = workbar \ Control!In(S)
    <2>1. Control!In(S) = {w \in workbar : w[2] \in S}
      BY DEF Control!In, workbar
    <2>2. ASSUME NEW w \in workbar'
          PROVE  w \in workbar /\ w[2] \notin S
      BY <1>1, <1>2, <1>4, <2>2 DEF workbar
    <2>3. ASSUME NEW w \in workbar, w[2] \notin S
          PROVE  w \in workbar'
      BY <1>1, <1>2, <1>4, <2>3 DEF workbar
    <2> QED
      BY <2>1, <2>2, <2>3
  <1> QED
    BY <1>3, <1>4

-----------------------------------------------------------------------------
(* All that happens to the phases of the spaces.                           *)
Passes == \E t \in Spaces, p \in Live :
    phase[t] \in Live /\ phase' = [phase EXCEPT ![t] = p]

Dismisses == \E t \in Spaces :
    phase[t] \in Closed /\ phase' = [phase EXCEPT ![t] = "gone"]

Opens == \E t \in Spaces :
    /\ phase[t] = "unused" /\ Cardinality({s \in Spaces : Open(s)}) < MaxActive
    /\ phase' = Pruned([phase EXCEPT ![t] = "running"])

OpensInVain == \E t \in Spaces :
    /\ phase[t] = "unused"
    /\ phase' = [Pruned([phase EXCEPT ![t] = "stopped"]) EXCEPT ![t] = "gone"]

Ends == \E ph \in [Spaces -> Phases] :
    /\ \A s \in Spaces : ph[s] = phase[s] \/ (phase[s] \in Live /\ ph[s] \notin Live)
    /\ phase' = Pruned(ph)

PhaseStep ==
    phase' = phase \/ Passes \/ Dismisses \/ Opens \/ OpensInVain \/ Ends

(* HandOffToUser, RequestUserHelp and ReturnToAgent pass control.          *)
LEMMA PassingPhase ==
    ASSUME NEW t \in Spaces, NEW p \in Live, phase[t] \in Live,
           phase' = [phase EXCEPT ![t] = p]
    PROVE  PhaseStep
  BY DEF PhaseStep, Passes

(* CloseSpace of open spaces ends them.                                    *)
LEMMA ClosePhase ==
    ASSUME TypeOK, NEW S, \A t \in S \cap Spaces : phase[t] \in Live,
           NEW state \in Closed, NEW cs, Close(S, state, cs)
    PROVE  PhaseStep
  <1> DEFINE ph == Set(phase, S, state)
  <1>1. ph \in [Spaces -> Phases] /\ phase' = Pruned(ph)
    BY PhaseFacts DEF Set, TypeOK, Close
  <1>2. \A s \in Spaces : ph[s] = phase[s] \/ (phase[s] \in Live /\ ph[s] \notin Live)
    BY PhaseFacts DEF Set
  <1> HIDE DEF ph
  <1> QED
    BY <1>1, <1>2 DEF PhaseStep, Ends

(* A call entering a space at most hands it to the user.                   *)
LEMMA ExecutePhase ==
    ASSUME NEW c \in Calls, NEW t \in Spaces,
           \/ Admit(c, t) \/ AdmitHandsOff(c, t) \/ AdmitFails(c, t)
           \/ WaitForCommit(c)
    PROVE  PhaseStep
  <1>1. CASE AdmitHandsOff(c, t)
    BY <1>1, PassingPhase DEF AdmitHandsOff, HandOff, Live
  <1>2. CASE Admit(c, t) \/ AdmitFails(c, t) \/ WaitForCommit(c)
    BY <1>2 DEF PhaseStep, Admit, AdmitFails, WaitForCommit, spaceVars
  <1> QED
    BY <1>1, <1>2

(* Every handler moves the phases in one of these ways; LoadHistory relies *)
(* on the preference being the list of closed spaces.                      *)
LEMMA PhasesMove ==
    ASSUME TypeOK, HistoryIsTheRecord, Next
    PROVE  PhaseStep
  <1>same. phase' = phase => PhaseStep
    BY DEF PhaseStep
  <1>live. "running" \in Live /\ "user" \in Live
    BY DEF Live
  <1>call. ASSUME NEW c \in Calls, CallStep(c) PROVE PhaseStep
    <2>1. CASE Dispatch(c)
      BY <2>1, ExecutePhase DEF Dispatch
    <2>2. CASE Refuse(c) \/ CreateReply(c) \/ Complete(c) \/ Cancel({c})
      BY <2>2, <1>same DEF Refuse, CreateReply, Complete, Cancel, spaceVars
    <2> QED
      BY <1>call, <2>1, <2>2 DEF CallStep
  <1>tool. ASSUME NEW c \in Calls, NEW t \in Spaces, ToolStep(c, t) PROVE PhaseStep
    <2>1. CASE CreateSpace(c, t)
      BY <2>1 DEF CreateSpace, Creatable, PhaseStep, Opens
    <2>2. CASE CreateFails(c, t)
      BY <2>2 DEF CreateFails, Creatable, PhaseStep, OpensInVain
    <2>3. CASE Execute(c, t)
      BY <2>3, ExecutePhase DEF Execute
    <2>4. CASE RequestUserHelp(c, t)
      BY <2>4, <1>live, PassingPhase DEF RequestUserHelp, Open
    <2>5. CASE FinishSpace(c, t)
      BY <2>5, <1>live, ClosePhase DEF FinishSpace, Closed
    <2>6. CASE HandleDialog(c, t)
      BY <2>6, <1>same DEF HandleDialog, spaceVars
    <2> QED
      BY <1>tool, <2>1, <2>2, <2>3, <2>4, <2>5, <2>6 DEF ToolStep
  <1>user. ASSUME NEW t \in Spaces, UserStep(t) PROVE PhaseStep
    <2>1. CASE TakeOverRunning(t)
      BY <2>1, <1>live, PassingPhase DEF TakeOverRunning, HandOff
    <2>2. CASE ShowWindow(t) \/ HideWindow(t)
      BY <2>2, <1>same DEF ShowWindow, HideWindow
    <2>3. CASE HandBack(t)
      BY <2>3, <1>live, PassingPhase DEF HandBack, ReturnToAgent
    <2>4. CASE Stop(t)
      BY <2>4, ClosePhase DEF Stop, Open, Closed
    <2>5. CASE Dismiss(t)
      BY <2>5 DEF Dismiss, PhaseStep, Dismisses
    <2> QED
      BY <1>user, <2>1, <2>2, <2>3, <2>4, <2>5 DEF UserStep
  <1>page. ASSUME NEW t \in Spaces, PageStep(t) PROVE PhaseStep
    <2>1. CASE OnPermissionPrompt(t)
      <3>1. CASE phase[t] = "running"
        BY <2>1, <3>1, <1>live, PassingPhase DEF OnPermissionPrompt, HandOff
      <3>2. CASE phase[t] # "running"
        BY <2>1, <3>2, <1>same DEF OnPermissionPrompt
      <3> QED
        BY <3>1, <3>2
    <2>2. CASE OnPageNeedsUser(t)
      BY <2>2, <1>live, PassingPhase DEF OnPageNeedsUser, HandOff
    <2>3. CASE PermissionRequested(t) \/ PermissionAnswered(t)
      BY <2>3, <1>same DEF PermissionRequested, PermissionAnswered, spaceVars
    <2>4. ASSUME NEW b \in Tabs, OnDialogOpened(t, b) \/ OnDialogClosed(t, b)
          PROVE  PhaseStep
      BY <2>4, <1>same DEF OnDialogOpened, OnDialogClosed, spaceVars
    <2> QED
      BY <1>page, <2>1, <2>2, <2>3, <2>4 DEF PageStep
  <1>timer. ASSUME NEW t \in Spaces, TimerStep(t) PROVE PhaseStep
    <2>1. CASE OnHelpTimeout(t) \/ CancelBehindDialog(t)
      BY <2>1, <1>same DEF OnHelpTimeout, CancelBehindDialog, spaceVars
    <2>2. CASE HideWindowAfterFullscreenExit(t)
      BY <2>2, <1>same, <1>live, PassingPhase
      DEF HideWindowAfterFullscreenExit, ReturnToAgent
    <2> QED
      BY <1>timer, <2>1, <2>2 DEF TimerStep
  <1>service. ASSUME ServiceStep PROVE PhaseStep
    <2>1. ASSUME NEW mcp \in BOOLEAN, CancelClientTools(mcp) PROVE PhaseStep
      BY <2>1, <1>same DEF CancelClientTools, Cancel
    <2>2. CASE StopSpacesForClient
      BY <2>2, ClosePhase DEF StopSpacesForClient, Open, Closed
    <2>3. CASE CheckIdleSpaces
      <3>1. PICK S \in SUBSET {t \in Spaces : phase[t] = "running" /\ ActiveIn({t}) = {}} :
                Close(S, "stopped", {})
        BY <2>3 DEF CheckIdleSpaces
      <3>2. \A t \in S \cap Spaces : phase[t] \in Live
        BY <1>live
      <3> QED
        BY <3>1, <3>2, ClosePhase DEF Closed
    <2>4. CASE Restart
      <3>1. Restored \in [Spaces -> Phases] /\ phase' = Pruned(Restored)
        BY <2>4, PhaseFacts DEF Restart, Restored, TypeOK
      <3>2. \A s \in Spaces : Restored[s] = phase[s]
                              \/ (phase[s] \in Live /\ Restored[s] \notin Live)
        BY PhaseFacts DEF Restored, HistoryIsTheRecord, HistoryOf, TypeOK, Phases
      <3> QED
        BY <3>1, <3>2 DEF PhaseStep, Ends
    <2> QED
      BY <1>service, <2>1, <2>2, <2>3, <2>4 DEF ServiceStep
  <1> QED
    BY <1>call, <1>tool, <1>user, <1>page, <1>timer, <1>service DEF Next

(* None of them wakes a space that is over or changes what it ended as.    *)
LEMMA EndsStep ==
    ASSUME TypeOK, PhaseStep, NEW s \in Spaces
    PROVE  /\ phase[s] \in Closed => phase'[s] \in {phase[s], "gone"}
           /\ phase[s] = "gone" => phase'[s] = "gone"
  <1> USE PhaseFacts
  <1>1. CASE phase' = phase
    BY <1>1
  <1>2. CASE Passes \/ Dismisses
    BY <1>2 DEF Passes, Dismisses, TypeOK
  <1>3. ASSUME NEW ph \in [Spaces -> Phases], ph[s] = phase[s], phase'[s] = Pruned(ph)[s]
        PROVE  /\ phase[s] \in Closed => phase'[s] \in {phase[s], "gone"}
               /\ phase[s] = "gone" => phase'[s] = "gone"
    BY <1>3, PrunedFacts
  <1>4. CASE Opens
    <2>1. PICK t \in Spaces : /\ phase[t] = "unused"
                              /\ phase' = Pruned([phase EXCEPT ![t] = "running"])
      BY <1>4 DEF Opens
    <2>2. [phase EXCEPT ![t] = "running"] \in [Spaces -> Phases]
      BY DEF TypeOK, Live
    <2>3. t # s => [phase EXCEPT ![t] = "running"][s] = phase[s]
      BY DEF TypeOK
    <2> QED
      BY <1>3, <2>1, <2>2, <2>3
  <1>5. CASE OpensInVain
    <2>1. PICK t \in Spaces :
            /\ phase[t] = "unused"
            /\ phase' = [Pruned([phase EXCEPT ![t] = "stopped"]) EXCEPT ![t] = "gone"]
      BY <1>5 DEF OpensInVain
    <2>2. /\ [phase EXCEPT ![t] = "stopped"] \in [Spaces -> Phases]
          /\ t # s => [phase EXCEPT ![t] = "stopped"][s] = phase[s]
      BY DEF TypeOK, Closed
    <2>3. t # s => phase'[s] = Pruned([phase EXCEPT ![t] = "stopped"])[s]
      BY <2>1, <2>2, PrunedFacts
    <2> QED
      BY <1>3, <2>1, <2>2, <2>3
  <1>6. CASE Ends
    <2>1. PICK ph \in [Spaces -> Phases] :
            /\ ph[s] = phase[s] \/ (phase[s] \in Live /\ ph[s] \notin Live)
            /\ phase' = Pruned(ph)
      BY <1>6 DEF Ends
    <2> QED
      BY <1>3, <2>1
  <1> QED
    BY <1>1, <1>2, <1>4, <1>5, <1>6 DEF PhaseStep

(* A record keeps what its space ended as until it is dismissed, through   *)
(* any number of restarts, and a dismissed one stays away.                 *)
THEOREM EndingsLast == Spec => EndsForGood
  <1>1. IInv /\ [Next]_vars =>
            [\A s \in Spaces : /\ phase[s] \in Closed => phase'[s] \in {phase[s], "gone"}
                               /\ phase[s] = "gone" => phase'[s] = "gone"]_vars
    BY PhasesMove, EndsStep DEF IInv, Settled
  <1> QED
    BY <1>1, SpaceInvariant, PTL DEF Spec, EndsForGood

-----------------------------------------------------------------------------
(* Sets of spaces are finite, and a smaller one counts no more.            *)
LEMMA CountFacts ==
    ASSUME NEW S, S \subseteq Spaces
    PROVE  /\ IsFiniteSet(S) /\ Cardinality(S) \in Nat
           /\ \A T \in SUBSET S : Cardinality(T) <= Cardinality(S)
  BY SpacesAssumption, FS_Subset, FS_CardinalityType

(* A set of spaces has an oldest one.                                      *)
LEMMA OldestSpace ==
    ASSUME NEW S, S \subseteq Spaces, S # {}
    PROVE  \E m \in S : \A s \in S \ {m} : s > m
  <1> DEFINE Before == {p \in Nat \X Nat : p[1] < p[2]}
  <1>1. S \subseteq Nat
    BY SpacesAssumption
  <1>2. OpToRel(<, Nat) = Before
    BY Zenon DEF OpToRel
  <1> HIDE DEF Before
  <1>3. IsWellFoundedOn(Before, Nat)
    BY <1>2, NatLessThanWellFounded, Zenon
  <1>4. \E m \in S : \A s \in S : ~(<<s, m>> \in Before)
    BY <1>1, <1>3, WFMin
  <1>5. ASSUME NEW s \in Nat, NEW m \in Nat, s < m
        PROVE  <<s, m>> \in Before
    BY <1>5, Zenon DEF Before
  <1>6. PICK m \in S : \A s \in S : ~(<<s, m>> \in Before)
    BY <1>4
  <1>7. \A s \in S : ~(s < m)
    BY <1>1, <1>5, <1>6
  <1>8. \A s \in S \ {m} : s > m
    BY <1>1, <1>7
  <1> QED
    BY <1>8

(* PruneClosedRecords keeps at most MaxClosed records: the oldest it keeps *)
(* has fewer newer ones, and all the others it keeps are newer.            *)
LEMMA PruningBounds ==
    ASSUME NEW ph \in [Spaces -> Phases]
    PROVE  Cardinality(Recorded(Pruned(ph))) <= MaxClosed
  <1> DEFINE R == Recorded(ph)
             K == Recorded(Pruned(ph))
  <1>1. R \subseteq Spaces /\ K \subseteq R
    BY PrunedFacts, PhaseFacts DEF Recorded
  <1>2. \A k \in K : Cardinality({t \in R : t > k}) < MaxClosed
    <2> SUFFICES ASSUME NEW k \in K, ~(Cardinality({t \in R : t > k}) < MaxClosed)
                 PROVE  FALSE
      OBVIOUS
    <2>1. Cardinality({t \in R : t > k}) \in Nat /\ MaxClosed \in Nat
      BY <1>1, CountFacts, SpacesAssumption
    <2>2. k \in Surplus(ph)
      BY <1>1, <2>1 DEF Surplus
    <2>3. k \in Spaces /\ Pruned(ph)[k] \in Closed
      BY DEF Recorded
    <2> QED
      BY <2>2, <2>3, PhaseFacts DEF Pruned, Set
  <1> HIDE DEF R, K
  <1>3. MaxClosed \in Nat
    BY SpacesAssumption
  <1>4. CASE K = {}
    BY <1>3, <1>4, FS_EmptySet DEF K
  <1>5. CASE K # {}
    <2>1. K \subseteq Spaces
      BY <1>1
    <2>2. PICK m \in K : \A s \in K \ {m} : s > m
      BY <1>5, <2>1, OldestSpace
    <2>3. K \ {m} \subseteq {t \in R : t > m} /\ {t \in R : t > m} \subseteq Spaces
      BY <1>1, <2>2
    <2>4. /\ Cardinality(K \ {m}) <= Cardinality({t \in R : t > m})
          /\ Cardinality({t \in R : t > m}) \in Nat
          /\ Cardinality(K \ {m}) \in Nat /\ Cardinality(K) \in Nat
          /\ IsFiniteSet(K)
      BY <2>1, <2>3, CountFacts
    <2>5. Cardinality(K \ {m}) = Cardinality(K) - 1
      BY <2>2, <2>4, FS_RemoveElement
    <2>6. Cardinality({t \in R : t > m}) < MaxClosed
      BY <1>2
    <2> QED
      BY <1>3, <2>4, <2>5, <2>6 DEF K
  <1> QED
    BY <1>4, <1>5

(* The limits hold after every handler: only create_space opens a space,   *)
(* below the limit, and whatever closes one prunes.                        *)
LEMMA BoundedStep ==
    ASSUME TypeOK, TypeOK', Bounded, PhaseStep
    PROVE  Bounded'
  <1> DEFINE Opened == {s \in Spaces : phase[s] \in Live}
             Opened2 == {s \in Spaces : phase'[s] \in Live}
  <1> USE PhaseFacts
  <1>1. /\ Cardinality(Opened) <= MaxActive
        /\ Cardinality(Recorded(phase)) <= MaxClosed
        /\ Opened \subseteq Spaces /\ Recorded(phase) \subseteq Spaces
        /\ MaxActive \in Nat /\ MaxClosed \in Nat
    BY SpacesAssumption DEF Bounded, Open, Recorded
  <1>2. SUFFICES /\ Cardinality(Opened2) <= MaxActive
                 /\ Cardinality(Recorded(phase')) <= MaxClosed
    BY DEF Bounded, Open
  <1>fewer. ASSUME Opened2 \subseteq Opened PROVE Cardinality(Opened2) <= MaxActive
    <2>1. /\ Cardinality(Opened) \in Nat /\ Cardinality(Opened2) \in Nat
          /\ Cardinality(Opened2) <= Cardinality(Opened)
      BY <1>1, <1>fewer, CountFacts
    <2> QED
      BY <1>1, <2>1
  <1>kept. ASSUME NEW ph \in [Spaces -> Phases], Recorded(phase') \subseteq Recorded(ph),
                  Cardinality(Recorded(ph)) <= MaxClosed
           PROVE  Cardinality(Recorded(phase')) <= MaxClosed
    <2>1. Recorded(ph) \subseteq Spaces
      BY DEF Recorded
    <2>2. /\ Cardinality(Recorded(ph)) \in Nat /\ Cardinality(Recorded(phase')) \in Nat
          /\ Cardinality(Recorded(phase')) <= Cardinality(Recorded(ph))
      BY <1>kept, <2>1, CountFacts
    <2> QED
      BY <1>1, <1>kept, <2>2
  <1>3. CASE phase' = phase
    BY <1>1, <1>3
  <1>4. CASE Passes \/ Dismisses
    <2>1. Opened2 \subseteq Opened /\ Recorded(phase') \subseteq Recorded(phase)
      BY <1>4 DEF Passes, Dismisses, Recorded, TypeOK
    <2>2. phase \in [Spaces -> Phases]
      BY DEF TypeOK
    <2> HIDE DEF Opened, Opened2
    <2> QED
      BY <1>1, <1>fewer, <1>kept, <2>1, <2>2
  <1>5. CASE Opens
    <2>1. PICK t \in Spaces :
            /\ phase[t] = "unused" /\ Cardinality(Opened) < MaxActive
            /\ phase' = Pruned([phase EXCEPT ![t] = "running"])
      BY <1>5 DEF Opens, Open
    <2>2. [phase EXCEPT ![t] = "running"] \in [Spaces -> Phases]
      BY DEF TypeOK, Live
    <2>3. Cardinality(Recorded(phase')) <= MaxClosed
      BY <2>1, <2>2, PruningBounds
    <2>4. Opened2 \subseteq Opened \cup {t}
      <3>1. \A s \in Spaces : phase'[s] \in Live =>
                [phase EXCEPT ![t] = "running"][s] = phase'[s]
        BY <2>1, <2>2, PrunedFacts
      <3> QED
        BY <3>1 DEF TypeOK
    <2>5. /\ IsFiniteSet(Opened) /\ Cardinality(Opened) \in Nat
          /\ Opened \cup {t} \subseteq Spaces
      BY <1>1, CountFacts
    <2>6. Cardinality(Opened \cup {t}) <= Cardinality(Opened) + 1
      BY <2>5, FS_AddElement
    <2>7. /\ Cardinality(Opened2) <= Cardinality(Opened \cup {t})
          /\ Cardinality(Opened2) \in Nat /\ Cardinality(Opened \cup {t}) \in Nat
      BY <2>4, <2>5, CountFacts
    <2> QED
      BY <1>1, <2>1, <2>3, <2>5, <2>6, <2>7
  <1>6. CASE OpensInVain
    <2>1. PICK t \in Spaces :
            /\ phase[t] = "unused"
            /\ phase' = [Pruned([phase EXCEPT ![t] = "stopped"]) EXCEPT ![t] = "gone"]
      BY <1>6 DEF OpensInVain
    <2> DEFINE ph == [phase EXCEPT ![t] = "stopped"]
    <2>2. ph \in [Spaces -> Phases] /\ \A s \in Spaces \ {t} : ph[s] = phase[s]
      BY DEF TypeOK, Closed
    <2>3. /\ Pruned(ph) \in [Spaces -> Phases]
          /\ \A s \in Spaces : Pruned(ph)[s] \in Live => ph[s] = Pruned(ph)[s]
          /\ Cardinality(Recorded(Pruned(ph))) <= MaxClosed
      BY <2>2, PrunedFacts, PruningBounds
    <2>4. phase'[t] = "gone" /\ \A s \in Spaces \ {t} : phase'[s] = Pruned(ph)[s]
      BY <2>1, <2>3
    <2> HIDE DEF ph
    <2>5. Opened2 \subseteq Opened
      BY <2>2, <2>3, <2>4
    <2>6. Recorded(phase') \subseteq Recorded(Pruned(ph))
      BY <2>4 DEF Recorded
    <2> QED
      BY <1>fewer, <1>kept, <2>3, <2>5, <2>6
  <1>7. CASE Ends
    <2>1. PICK ph \in [Spaces -> Phases] :
            /\ \A s \in Spaces : ph[s] = phase[s] \/ (phase[s] \in Live /\ ph[s] \notin Live)
            /\ phase' = Pruned(ph)
      BY <1>7 DEF Ends
    <2>2. \A s \in Spaces : phase'[s] \in Live => ph[s] = phase'[s]
      BY <2>1, PrunedFacts
    <2>3. Opened2 \subseteq Opened
      BY <2>1, <2>2
    <2> QED
      BY <1>fewer, <2>1, <2>3, PruningBounds
  <1> QED
    BY <1>3, <1>4, <1>5, <1>6, <1>7 DEF PhaseStep

(* Never more than MaxActive open spaces and MaxClosed records.            *)
THEOREM LimitsHold == Spec => []Bounded
  <1>1. Init => Bounded
    <2> SUFFICES ASSUME Init PROVE Bounded
      OBVIOUS
    <2>1. {s \in Spaces : Open(s)} = {} /\ Recorded(phase) = {}
      BY DEF Init, Open, Live, Recorded, Closed
    <2> QED
      BY <2>1, FS_EmptySet, SpacesAssumption DEF Bounded
  <1>2. IInv /\ IInv' /\ Bounded /\ [Next]_vars => Bounded'
    <2>1. CASE UNCHANGED vars
      BY <2>1 DEF vars, spaceVars, Bounded, Open, Recorded
    <2> QED
      BY <2>1, PhasesMove, BoundedStep DEF IInv, Settled
  <1> QED
    BY <1>1, <1>2, SpaceInvariant, PTL DEF Spec


(* Steps in which control stays where it is and work only ends.            *)
LEMMA RestStep ==
    ASSUME ctlbar' = ctlbar, workbar' \subseteq workbar
    PROVE  Control!Next
  BY DEF Control!Next, Control!Rest, ctlbar, ControlOf, workbar

(* Answers are work that ends.                                             *)
LEMMA AnsweringRests ==
    ASSUME TypeOK, NEW cs, callState' = Answered(cs), phase' = phase,
           \A c \in Calls : callState[c] = "active" => callSpace'[c] = callSpace[c]
    PROVE  Control!Next
  <1>1. ctlbar' = ctlbar
    BY DEF ctlbar
  <1> QED
    BY <1>1, AnsweringEndsWork, RestStep

(* A step that changes neither calls nor control is a stutter.             *)
LEMMA SameCallsRest ==
    ASSUME TypeOK, UNCHANGED <<callState, callSpace>>, ctlbar' = ctlbar
    PROVE  Control!Next
  <1>1. workbar' = workbar
    BY DEF workbar
  <1> QED
    BY <1>1, RestStep

(* HandOffToUser is ToUser.                                                *)
LEMMA HandOffToUserStep ==
    ASSUME TypeOK, NEW s \in Spaces, phase[s] = "running", NEW why, NEW cs,
           \A c \in Calls : c \in cs => callState[c] # "active",
           HandOff(s, why, cs),
           \A c \in Calls : callState[c] = "active" => callSpace'[c] = callSpace[c]
    PROVE  Control!Next
  <1>1. /\ phase' = [phase EXCEPT ![s] = "user"]
        /\ callState' = Answered(cs \cup ActiveIn({s}))
    BY DEF HandOff
  <1>2. ctlbar[s] = "agent" /\ ctlbar' = [ctlbar EXCEPT ![s] = "user"]
    BY <1>1, ControlFacts DEF ctlbar, TypeOK
  <1>3. \A c \in Calls : callState[c] = "active" =>
            (c \in cs \cup ActiveIn({s}) <=> callSpace[c] \in {s})
    BY DEF ActiveIn
  <1>4. workbar' = workbar \ Control!In({s})
    BY <1>1, <1>3, AnsweringEndsWork
  <1>5. Control!ToUser(s)
    BY <1>2, <1>4 DEF Control!ToUser, ctlbar, ControlOf, workbar
  <1> QED
    BY <1>5 DEF Control!Next

(* ReturnToAgent is ToAgent: the call it answers was not at work.          *)
LEMMA ReturnToAgentStep ==
    ASSUME TypeOK, HelpIsAnswerable, NEW s \in Spaces, phase[s] = "user",
           ReturnToAgent(s), callSpace' = callSpace
    PROVE  Control!Next
  <1>1. /\ phase' = [phase EXCEPT ![s] = "running"]
        /\ callState' = Answered(HelpIn({s}))
    BY DEF ReturnToAgent
  <1>2. ctlbar[s] = "user" /\ ctlbar' = [ctlbar EXCEPT ![s] = "agent"]
    BY <1>1, ControlFacts DEF ctlbar, TypeOK
  <1>3. \A c \in HelpIn({s}) : callState[c] = "help"
    BY DEF HelpIn, HelpIsAnswerable
  <1>4. \A c \in Calls : callState'[c] = "active" <=> callState[c] = "active"
    BY <1>1, <1>3, AnsweredFacts
  <1>5. workbar' = workbar
    BY <1>4 DEF workbar
  <1>6. Control!ToAgent(s)
    BY <1>2, <1>5 DEF Control!ToAgent, ctlbar, ControlOf, workbar
  <1> QED
    BY <1>6 DEF Control!Next

(* Ending a set of tasks with the work in it is End.                       *)
LEMMA EndStep ==
    ASSUME NEW S, S \subseteq Spaces, workbar' = workbar \ Control!In(S),
           \A s \in Spaces : ctlbar'[s] = IF s \in S THEN "over" ELSE ctlbar[s]
    PROVE  Control!Next
  <1>1. ctlbar' = [s \in Spaces |-> IF s \in S THEN "over" ELSE ctlbar[s]]
    BY DEF ctlbar
  <1>2. Control!End(S)
    BY <1>1 DEF Control!End, ctlbar, ControlOf, workbar
  <1> QED
    BY <1>2 DEF Control!Next

(* CloseSpace is End of the spaces it closes.                              *)
LEMMA CloseEnds ==
    ASSUME TypeOK, HelpIsAnswerable, NEW S, S \subseteq Spaces,
           NEW state \in Closed, NEW cs,
           \A c \in Calls : c \in cs => callState[c] # "active",
           Close(S, state, cs), callSpace' = callSpace
    PROVE  Control!Next
  <1>1. callState' = Answered(cs \cup ActiveIn(S) \cup HelpIn(S))
    BY DEF Close
  <1>2. \A c \in HelpIn(S) : callState[c] = "help"
    BY DEF HelpIn, HelpIsAnswerable
  <1>3. \A c \in Calls : callState[c] = "active" =>
            (c \in cs \cup ActiveIn(S) \cup HelpIn(S) <=> callSpace[c] \in S)
    BY <1>2 DEF ActiveIn
  <1>4. workbar' = workbar \ Control!In(S)
    BY <1>1, <1>3, AnsweringEndsWork
  <1>5. ASSUME NEW s \in Spaces
        PROVE  ctlbar'[s] = IF s \in S THEN "over" ELSE ctlbar[s]
    <2> DEFINE ph == Set(phase, S, state)
    <2>1. ph \in [Spaces -> Phases] /\ ph[s] = IF s \in S THEN state ELSE phase[s]
      BY PhaseFacts DEF Set, TypeOK
    <2>2. /\ ph[s] \notin Closed => phase'[s] = ph[s]
          /\ ph[s] \in Closed => phase'[s] \in {ph[s], "gone"}
      BY <2>1, PrunedFacts DEF Close
    <2>3. ctlbar'[s] = ControlOf(phase'[s]) /\ ctlbar[s] = ControlOf(phase[s])
      BY DEF ctlbar
    <2> HIDE DEF ph
    <2> QED
      BY <2>1, <2>2, <2>3, ControlFacts
  <1> QED
    BY <1>4, <1>5, EndStep

(* A call entering a space is Work, ToUser or Rest.                        *)
LEMMA ExecuteStep ==
    ASSUME TypeOK, NEW c \in Calls, NEW s \in Spaces, callState[c] # "active",
           \A d \in Calls \ {c} : callSpace'[d] = callSpace[d],
           callSpace'[c] = s,
           \/ Admit(c, s) \/ AdmitHandsOff(c, s) \/ AdmitFails(c, s)
           \/ WaitForCommit(c)
    PROVE  Control!Next
  <1>1. CASE Admit(c, s)
    <2>1. /\ phase[s] = "running" /\ phase' = phase
          /\ callState' = [callState EXCEPT ![c] = "active"]
      BY <1>1 DEF Admit, spaceVars
    <2>2. workbar' = workbar \cup {<<c, s>>}
      <3>1. \A d \in Calls : callState'[d] = "active" <=> d = c \/ callState[d] = "active"
        BY <2>1 DEF TypeOK
      <3>2. workbar' = {<<d, callSpace'[d]>> : d \in {e \in Calls : callState'[e] = "active"}}
        BY DEF workbar
      <3> QED
        BY <3>1, <3>2 DEF workbar
    <2>3. ctlbar' = ctlbar /\ ctlbar[s] = "agent"
      BY <2>1, ControlFacts DEF ctlbar
    <2>4. Control!Work(c, s)
      BY <2>2, <2>3 DEF Control!Work, ctlbar, ControlOf, workbar
    <2> QED
      BY <2>4 DEF Control!Next
  <1>2. CASE AdmitHandsOff(c, s)
    BY <1>2, HandOffToUserStep DEF AdmitHandsOff
  <1>3. CASE AdmitFails(c, s)
    BY <1>3, AnsweringRests DEF AdmitFails, spaceVars
  <1>4. CASE WaitForCommit(c)
    <2>1. phase' = phase /\ callState' = [callState EXCEPT ![c] = "waiting"]
      BY <1>4 DEF WaitForCommit, spaceVars
    <2>2. \A d \in Calls : callState'[d] = "active" <=> callState[d] = "active"
      BY <2>1 DEF TypeOK
    <2>3. workbar' = workbar /\ ctlbar' = ctlbar
      BY <2>1, <2>2 DEF workbar, ctlbar
    <2> QED
      BY <2>3, RestStep
  <1> QED
    BY <1>1, <1>2, <1>3, <1>4

(* Every handler is a step of TaskControl.                                 *)
LEMMA ControlStep ==
    ASSUME TypeOK, CallsNeedTheAgent, HelpIsAnswerable, HistoryIsTheRecord, Next
    PROVE  Control!Next
  <1>call. ASSUME NEW c \in Calls, CallStep(c) PROVE Control!Next
    <2>1. CASE Refuse(c) \/ CreateReply(c) \/ Complete(c)
      BY <2>1, AnsweringRests DEF Refuse, CreateReply, Complete, spaceVars
    <2>2. CASE Dispatch(c)
      BY <2>2, ExecuteStep DEF Dispatch
    <2>3. CASE Cancel({c})
      BY <2>3, AnsweringRests DEF Cancel
    <2> QED
      BY <1>call, <2>1, <2>2, <2>3 DEF CallStep
  <1>tool. ASSUME NEW c \in Calls, NEW s \in Spaces, ToolStep(c, s) PROVE Control!Next
    <2>1. CASE CreateSpace(c, s)
      <3> DEFINE ph == [phase EXCEPT ![s] = "running"]
      <3>1. /\ ph \in [Spaces -> Phases] /\ phase[s] = "unused"
            /\ phase' = Pruned(ph)
            /\ callState[c] = "new"
            /\ callState' = [callState EXCEPT ![c] = "creating"]
            /\ callSpace' = [callSpace EXCEPT ![c] = s]
        BY <2>1, PhaseFacts DEF CreateSpace, Creatable, TypeOK, Live
      <3>2. \A d \in Calls : /\ callState'[d] = "active" <=> callState[d] = "active"
                             /\ callState[d] = "active" => callSpace'[d] = callSpace[d]
        BY <3>1 DEF TypeOK
      <3>3. workbar' = workbar
        BY <3>2 DEF workbar
      <3>4. ASSUME NEW t \in Spaces
            PROVE  ctlbar'[t] = IF t = s THEN "agent" ELSE ctlbar[t]
        <4>1. /\ ph[t] \notin Closed => phase'[t] = ph[t]
              /\ ph[t] \in Closed => phase'[t] \in {ph[t], "gone"}
          BY <3>1, PrunedFacts
        <4>2. ph[t] = IF t = s THEN "running" ELSE phase[t]
          BY DEF TypeOK
        <4>3. ctlbar'[t] = ControlOf(phase'[t]) /\ ctlbar[t] = ControlOf(phase[t])
          BY DEF ctlbar
        <4> HIDE DEF ph
        <4> QED
          BY <4>1, <4>2, <4>3, ControlFacts DEF Closed
      <3>5. ctlbar[s] = "none" /\ ctlbar' = [ctlbar EXCEPT ![s] = "agent"]
        BY <3>1, <3>4, ControlFacts DEF ctlbar
      <3>6. Control!Begin(s)
        BY <3>3, <3>5 DEF Control!Begin, ctlbar, ControlOf, workbar
      <3> QED
        BY <3>6 DEF Control!Next
    <2>2. CASE CreateFails(c, s)
      <3> DEFINE ph == [phase EXCEPT ![s] = "stopped"]
      <3>1. /\ ph \in [Spaces -> Phases] /\ phase[s] = "unused"
            /\ phase' = [Pruned(ph) EXCEPT ![s] = "gone"]
            /\ callState[c] = "new" /\ callState' = Answered({c})
            /\ callSpace' = callSpace
        BY <2>2, PhaseFacts DEF CreateFails, Creatable, TypeOK, Closed
      <3>2. \A d \in Calls : callState[d] = "active" =>
                (d \in {c} <=> callSpace[d] \in {s})
        BY <3>1 DEF CallsNeedTheAgent
      <3>3. workbar' = workbar \ Control!In({s})
        BY <3>1, <3>2, AnsweringEndsWork
      <3>4. ASSUME NEW t \in Spaces
            PROVE  ctlbar'[t] = IF t \in {s} THEN "over" ELSE ctlbar[t]
        <4>1. /\ Pruned(ph) \in [Spaces -> Phases]
              /\ ph[t] \notin Closed => Pruned(ph)[t] = ph[t]
              /\ ph[t] \in Closed => Pruned(ph)[t] \in {ph[t], "gone"}
          BY <3>1, PrunedFacts
        <4>2. ph[t] = IF t = s THEN "stopped" ELSE phase[t]
          BY DEF TypeOK
        <4>3. phase'[t] = IF t = s THEN "gone" ELSE Pruned(ph)[t]
          BY <3>1, <4>1
        <4>4. ctlbar'[t] = ControlOf(phase'[t]) /\ ctlbar[t] = ControlOf(phase[t])
          BY DEF ctlbar
        <4> HIDE DEF ph
        <4> QED
          BY <4>1, <4>2, <4>3, <4>4, ControlFacts
      <3> QED
        BY <3>3, <3>4, EndStep
    <2>3. CASE Execute(c, s)
      <3>1. /\ callState[c] = "new" /\ callSpace'[c] = s
            /\ \A d \in Calls \ {c} : callSpace'[d] = callSpace[d]
        BY <2>3 DEF Execute, TypeOK
      <3> QED
        BY <2>3, <3>1, ExecuteStep DEF Execute
    <2>4. CASE RequestUserHelp(c, s)
      <3>1. /\ callState' = [Answered(ActiveIn({s})) EXCEPT ![c] = "help"]
            /\ callSpace' = [callSpace EXCEPT ![c] = s]
            /\ phase' = [phase EXCEPT ![s] = "user"]
            /\ callState[c] = "new" /\ phase[s] \in Live
        BY <2>4 DEF RequestUserHelp, Open
      <3>2. \A d \in Calls :
                /\ callState'[d] = "active" <=> callState[d] = "active" /\ callSpace[d] # s
                /\ callState[d] = "active" => callSpace'[d] = callSpace[d]
        BY <3>1, AnsweredFacts DEF ActiveIn, TypeOK
      <3>3. workbar' = {<<d, callSpace'[d]>> : d \in {e \in Calls : callState'[e] = "active"}}
        BY DEF workbar
      <3>4. CASE phase[s] = "running"
        <4>1. ctlbar[s] = "agent" /\ ctlbar' = [ctlbar EXCEPT ![s] = "user"]
          BY <3>1, <3>4, ControlFacts DEF ctlbar, TypeOK
        <4>2. Control!In({s}) = {w \in workbar : w[2] \in {s}}
          BY DEF Control!In, workbar
        <4>3. ASSUME NEW w \in workbar' PROVE w \in workbar /\ w[2] # s
          BY <3>2, <3>3, <4>3 DEF workbar
        <4>4. ASSUME NEW w \in workbar, w[2] # s PROVE w \in workbar'
          BY <3>2, <3>3, <4>4 DEF workbar
        <4>5. workbar' = workbar \ Control!In({s})
          BY <4>2, <4>3, <4>4
        <4>6. Control!ToUser(s)
          BY <4>1, <4>5 DEF Control!ToUser, ctlbar, ControlOf, workbar
        <4> QED
          BY <4>6 DEF Control!Next
      <3>5. CASE phase[s] # "running"
        <4>1. phase' = phase
          BY <3>1, <3>5 DEF Live, TypeOK
        <4>2. ctlbar' = ctlbar
          BY <4>1 DEF ctlbar
        <4>3. workbar' \subseteq workbar
          BY <3>2, <3>3 DEF workbar
        <4> QED
          BY <4>2, <4>3, RestStep
      <3> QED
        BY <3>4, <3>5
    <2>5. CASE FinishSpace(c, s)
      BY <2>5, CloseEnds DEF FinishSpace, Closed
    <2>6. CASE HandleDialog(c, s)
      BY <2>6, AnsweringRests DEF HandleDialog, spaceVars
    <2> QED
      BY <1>tool, <2>1, <2>2, <2>3, <2>4, <2>5, <2>6 DEF ToolStep
  <1>user. ASSUME NEW s \in Spaces, UserStep(s) PROVE Control!Next
    <2>1. CASE TakeOverRunning(s)
      BY <2>1, HandOffToUserStep DEF TakeOverRunning
    <2>2. CASE ShowWindow(s) \/ HideWindow(s)
      BY <2>2, SameCallsRest DEF ShowWindow, HideWindow, callVars, ctlbar
    <2>3. CASE HandBack(s)
      BY <2>3, ReturnToAgentStep DEF HandBack
    <2>4. CASE Stop(s)
      BY <2>4, CloseEnds DEF Stop, Closed
    <2>5. CASE Dismiss(s)
      <3>1. /\ phase[s] \in Closed /\ phase' = [phase EXCEPT ![s] = "gone"]
            /\ UNCHANGED <<callState, callSpace>>
        BY <2>5 DEF Dismiss, callVars
      <3>2. ctlbar' = ctlbar
        BY <3>1, ControlFacts DEF ctlbar, TypeOK
      <3> QED
        BY <3>1, <3>2, SameCallsRest
    <2> QED
      BY <1>user, <2>1, <2>2, <2>3, <2>4, <2>5 DEF UserStep
  <1>page. ASSUME NEW s \in Spaces, PageStep(s) PROVE Control!Next
    <2>1. ASSUME NEW t \in Tabs, OnDialogOpened(s, t) \/ OnDialogClosed(s, t)
          PROVE  Control!Next
      BY <2>1, SameCallsRest
      DEF OnDialogOpened, OnDialogClosed, spaceVars, callVars, ctlbar
    <2>2. CASE PermissionRequested(s) \/ PermissionAnswered(s)
      BY <2>2, SameCallsRest
      DEF PermissionRequested, PermissionAnswered, spaceVars, callVars, ctlbar
    <2>3. CASE OnPermissionPrompt(s)
      BY <2>3, HandOffToUserStep, SameCallsRest DEF OnPermissionPrompt, ctlbar
    <2>4. CASE OnPageNeedsUser(s)
      BY <2>4, HandOffToUserStep DEF OnPageNeedsUser
    <2> QED
      BY <1>page, <2>1, <2>2, <2>3, <2>4 DEF PageStep
  <1>timer. ASSUME NEW s \in Spaces, TimerStep(s) PROVE Control!Next
    <2>1. CASE OnHelpTimeout(s)
      BY <2>1, AnsweringRests DEF OnHelpTimeout
    <2>2. CASE CancelBehindDialog(s)
      BY <2>2, AnsweringRests, SameCallsRest DEF CancelBehindDialog, spaceVars, ctlbar
    <2>3. CASE HideWindowAfterFullscreenExit(s)
      BY <2>3, ReturnToAgentStep, SameCallsRest
      DEF HideWindowAfterFullscreenExit, ctlbar
    <2> QED
      BY <1>timer, <2>1, <2>2, <2>3 DEF TimerStep
  <1>service. ASSUME ServiceStep PROVE Control!Next
    <2>1. ASSUME NEW mcp \in BOOLEAN, CancelClientTools(mcp) PROVE Control!Next
      BY <2>1, AnsweringRests DEF CancelClientTools, Cancel
    <2>2. CASE StopSpacesForClient
      <3>1. {s \in McpSpaces : Open(s)} \subseteq Spaces
        BY SpacesAssumption
      <3> QED
        BY <2>2, <3>1, CloseEnds DEF StopSpacesForClient, Closed
    <2>3. CASE CheckIdleSpaces
      BY <2>3, CloseEnds DEF CheckIdleSpaces, Closed
    <2>4. CASE Restart
      <3> DEFINE S == {s \in Spaces : phase[s] # "unused"}
      <3>1. /\ Restored \in [Spaces -> Phases]
            /\ phase' = Pruned(Restored)
            /\ callState' = Answered({c \in Calls : callState[c] # "new"})
            /\ callSpace' = callSpace
        BY <2>4, PhaseFacts DEF Restart, Restored, TypeOK
      <3>2. workbar' = workbar \ Control!In(S)
        <4>1. \A c \in Calls : callState[c] = "active" =>
                  (c \in {d \in Calls : callState[d] # "new"} <=> callSpace[c] \in S)
          BY DEF CallsNeedTheAgent
        <4> HIDE DEF S
        <4> QED
          BY <3>1, <4>1, AnsweringEndsWork
      <3>3. ASSUME NEW s \in Spaces
            PROVE  ctlbar'[s] = IF s \in S THEN "over" ELSE ctlbar[s]
        <4>1. /\ Restored[s] \notin Closed => phase'[s] = Restored[s]
              /\ Restored[s] \in Closed => phase'[s] \in {Restored[s], "gone"}
          BY <3>1, PrunedFacts
        <4>2. ctlbar'[s] = ControlOf(phase'[s]) /\ ctlbar[s] = ControlOf(phase[s])
          BY DEF ctlbar
        <4>3. Restored[s] = IF phase[s] \in Closed THEN phase[s]
                            ELSE IF phase[s] = "unused" THEN "unused" ELSE "gone"
          BY PhaseFacts DEF Restored, HistoryIsTheRecord, HistoryOf
        <4> QED
          BY <4>1, <4>2, <4>3, PhaseFacts, ControlFacts
      <3> QED
        BY <3>2, <3>3, EndStep
    <2> QED
      BY <1>service, <2>1, <2>2, <2>3, <2>4 DEF ServiceStep
  <1> QED
    BY <1>call, <1>tool, <1>user, <1>page, <1>timer, <1>service DEF Next

(* Agent Spaces implement the promise of TaskControl: every handler is one *)
(* of its steps.                                                           *)
THEOREM SpaceRefinement == Spec => ImplementsTaskControl
  <1>1. Init => Control!Init
    <2> SUFFICES ASSUME Init PROVE Control!Init
      OBVIOUS
    <2>1. ctlbar = [s \in Spaces |-> "none"]
      BY ControlFacts DEF Init, ctlbar
    <2>2. workbar = {}
      BY DEF Init, workbar
    <2> QED
      BY <2>1, <2>2 DEF Control!Init, ctlbar, ControlOf, workbar
  <1>2. IInv /\ [Next]_vars => [Control!Next]_<<ctlbar, workbar>>
    <2>1. CASE UNCHANGED vars
      BY <2>1 DEF vars, spaceVars, callVars, ctlbar, workbar
    <2> QED
      BY <2>1, ControlStep DEF IInv, Settled
  <1> QED
    BY <1>1, <1>2, SpaceInvariant, PTL
       DEF Spec, ImplementsTaskControl, Control!Spec, Control!tvars,
           ctlbar, ControlOf, workbar
-----------------------------------------------------------------------------
(***************************************************************************)
(* The life of a call: once it has come in it waits, works or waits for    *)
(* the user until its one answer; the wait for a commit is the only one    *)
(* that ends in work, and so the only one a cancellation comes too early   *)
(* for.                                                                    *)
(***************************************************************************)
CallMoves ==
    \A c \in Calls : callState[c] # "new" =>
        \/ callState'[c] \in {callState[c], "done"}
        \/ callState[c] = "waiting" /\ callState'[c] = "active"

LEMMA AnsweringMoves ==
    ASSUME TypeOK, NEW cs, callState' = Answered(cs)
    PROVE  CallMoves
  BY AnsweredFacts DEF CallMoves

LEMMA SameCallsMove == callState' = callState => CallMoves
  BY DEF CallMoves

(* A new call is taken up; other calls may be answered by that.            *)
LEMMA TakingUpMoves ==
    ASSUME TypeOK, NEW c \in Calls, callState[c] = "new", NEW cs, NEW p,
           callState' = [Answered(cs) EXCEPT ![c] = p]
    PROVE  CallMoves
  BY AnsweredFacts DEF CallMoves

LEMMA NewCallMoves ==
    ASSUME TypeOK, NEW c \in Calls, NEW p, callState' = [callState EXCEPT ![c] = p],
           callState[c] = "new" \/ (callState[c] = "waiting" /\ p = "active")
    PROVE  CallMoves
  BY DEF CallMoves, TypeOK

LEMMA AdmitMoves ==
    ASSUME TypeOK, NEW c \in Calls, NEW s \in Spaces, callState[c] \in {"new", "waiting"},
           Admit(c, s) \/ AdmitHandsOff(c, s) \/ AdmitFails(c, s)
    PROVE  CallMoves
  <1>1. CASE Admit(c, s)
    BY <1>1, NewCallMoves DEF Admit
  <1>2. CASE AdmitHandsOff(c, s) \/ AdmitFails(c, s)
    BY <1>2, AnsweringMoves DEF AdmitHandsOff, AdmitFails, HandOff
  <1> QED
    BY <1>1, <1>2

LEMMA CallsMove ==
    ASSUME TypeOK, Next
    PROVE  CallMoves
  <1>call. ASSUME NEW c \in Calls, CallStep(c) PROVE CallMoves
    <2>1. CASE Dispatch(c)
      BY <2>1, AdmitMoves DEF Dispatch
    <2>2. CASE Refuse(c) \/ CreateReply(c) \/ Complete(c) \/ Cancel({c})
      BY <2>2, AnsweringMoves DEF Refuse, CreateReply, Complete, Cancel
    <2> QED
      BY <1>call, <2>1, <2>2 DEF CallStep
  <1>tool. ASSUME NEW c \in Calls, NEW t \in Spaces, ToolStep(c, t) PROVE CallMoves
    <2>1. CASE CreateSpace(c, t)
      BY <2>1, NewCallMoves DEF CreateSpace, Creatable
    <2>2. CASE CreateFails(c, t) \/ HandleDialog(c, t)
      BY <2>2, AnsweringMoves DEF CreateFails, HandleDialog
    <2>3. CASE Execute(c, t)
      <3>1. callState[c] = "new"
        BY <2>3 DEF Execute
      <3>2. CASE WaitForCommit(c)
        BY <3>1, <3>2, NewCallMoves DEF WaitForCommit
      <3> QED
        BY <2>3, <3>1, <3>2, AdmitMoves DEF Execute
    <2>4. CASE RequestUserHelp(c, t)
      BY <2>4, TakingUpMoves DEF RequestUserHelp
    <2>5. CASE FinishSpace(c, t)
      BY <2>5, AnsweringMoves DEF FinishSpace, Close
    <2> QED
      BY <1>tool, <2>1, <2>2, <2>3, <2>4, <2>5 DEF ToolStep
  <1>user. ASSUME NEW t \in Spaces, UserStep(t) PROVE CallMoves
    BY <1>user, AnsweringMoves, SameCallsMove
       DEF UserStep, TakeOverRunning, HandOff, ShowWindow, HideWindow, HandBack, ReturnToAgent,
           Stop, Close, Dismiss, callVars
  <1>page. ASSUME NEW t \in Spaces, PageStep(t) PROVE CallMoves
    BY <1>page, AnsweringMoves, SameCallsMove
       DEF PageStep, OnPermissionPrompt, OnPageNeedsUser, HandOff, PermissionRequested,
           PermissionAnswered, OnDialogOpened, OnDialogClosed, callVars
  <1>timer. ASSUME NEW t \in Spaces, TimerStep(t) PROVE CallMoves
    BY <1>timer, AnsweringMoves, SameCallsMove
       DEF TimerStep, OnHelpTimeout, CancelBehindDialog, HideWindowAfterFullscreenExit,
           ReturnToAgent
  <1>service. ASSUME ServiceStep PROVE CallMoves
    BY <1>service, AnsweringMoves
       DEF ServiceStep, CancelClientTools, Cancel, StopSpacesForClient, CheckIdleSpaces, Restart,
           Close
  <1> QED
    BY <1>call, <1>tool, <1>user, <1>page, <1>timer, <1>service DEF Next

(* A call that came in goes forward only: an answered call is never taken  *)
(* up again, none starts to wait for the user after it has begun, and none *)
(* starts to work but out of its wait for a commit.                        *)
THEOREM CallsGoForward ==
    Spec => [][\A c \in Calls : callState[c] # "new" =>
                 \/ callState'[c] \in {callState[c], "done"}
                 \/ callState[c] = "waiting" /\ callState'[c] = "active"]_vars
  <1>1. IInv /\ [Next]_vars
          => [\A c \in Calls : callState[c] # "new" =>
                 \/ callState'[c] \in {callState[c], "done"}
                 \/ callState[c] = "waiting" /\ callState'[c] = "active"]_vars
    BY CallsMove DEF IInv, CallMoves
  <1> QED
    BY <1>1, SpaceInvariant, PTL DEF Spec

(* What a client has cancelled has come in, and does not wait for the user. *)
CancelledAreKnown == \A c \in cancelled : callState[c] \notin {"new", "help"}

LEMMA CancelledStep ==
    ASSUME TypeOK, CancelledAreKnown, Next
    PROVE  CancelledAreKnown'
  <1>1. CallMoves /\ cancelled \subseteq Calls
    BY CallsMove DEF TypeOK
  <1>2. ASSUME cancelled' = cancelled PROVE CancelledAreKnown'
    BY <1>1, <1>2 DEF CancelledAreKnown, CallMoves
  <1>3. ASSUME NEW cs \in SUBSET Calls, Cancel(cs) PROVE CancelledAreKnown'
    <2>1. cancelled' = cancelled \cup cs
      BY <1>3 DEF Cancel
    <2>2. \A c \in cs : callState'[c] \notin {"new", "help"}
      BY <1>3, AnsweredFacts DEF Cancel
    <2> QED
      BY <1>1, <2>1, <2>2 DEF CancelledAreKnown, CallMoves
  <1>4. \/ cancelled' = cancelled
        \/ \E cs \in SUBSET Calls : Cancel(cs)
    <2>1. ASSUME NEW c \in Calls, CallStep(c)
          PROVE  cancelled' = cancelled \/ \E cs \in SUBSET Calls : Cancel(cs)
      BY <2>1 DEF CallStep, Refuse, CreateReply, Dispatch, Admit, AdmitHandsOff, AdmitFails,
         Complete
    <2>2. ASSUME NEW c \in Calls, NEW t \in Spaces, ToolStep(c, t) PROVE cancelled' = cancelled
      BY <2>2 DEF ToolStep, CreateSpace, CreateFails, Execute, WaitForCommit, Admit,
         AdmitHandsOff, AdmitFails, RequestUserHelp, FinishSpace, HandleDialog
    <2>3. ASSUME NEW t \in Spaces, UserStep(t) \/ PageStep(t) \/ TimerStep(t)
          PROVE  cancelled' = cancelled
      BY <2>3 DEF UserStep, TakeOverRunning, ShowWindow, HideWindow, HandBack, Stop, Dismiss,
         PageStep, OnPermissionPrompt, OnPageNeedsUser, PermissionRequested, PermissionAnswered,
         OnDialogOpened, OnDialogClosed, TimerStep, OnHelpTimeout, CancelBehindDialog,
         HideWindowAfterFullscreenExit, callVars
    <2>4. ASSUME ServiceStep
          PROVE  cancelled' = cancelled \/ \E cs \in SUBSET Calls : Cancel(cs)
      <3>1. ASSUME NEW mcp \in BOOLEAN, CancelClientTools(mcp)
            PROVE  \E cs \in SUBSET Calls : Cancel(cs)
        BY <3>1 DEF CancelClientTools
      <3>2. CASE StopSpacesForClient \/ CheckIdleSpaces \/ Restart
        BY <3>2 DEF StopSpacesForClient, CheckIdleSpaces, Restart
      <3> QED
        BY <2>4, <3>1, <3>2 DEF ServiceStep
    <2> QED
      BY <2>1, <2>2, <2>3, <2>4 DEF Next
  <1> QED
    BY <1>2, <1>3, <1>4

(* A cancelled call that starts all the same was waiting for its page to   *)
(* commit, where CancelTool and CancelClientTools do not look; what works  *)
(* or waits for the user is over with the cancellation.                    *)
THEOREM OnlyWaitsOutliveCancelling ==
    Spec => [][\A c \in cancelled :
                 callState'[c] = "active" /\ callState[c] # "active"
                    => callState[c] = "waiting"]_vars
  <1>1. Init => CancelledAreKnown
    BY DEF Init, CancelledAreKnown
  <1>2. IInv /\ CancelledAreKnown /\ [Next]_vars => CancelledAreKnown'
    BY CancelledStep DEF IInv, CancelledAreKnown, vars, callVars
  <1>3. IInv /\ CancelledAreKnown /\ [Next]_vars
          => [\A c \in cancelled :
                 callState'[c] = "active" /\ callState[c] # "active"
                    => callState[c] = "waiting"]_vars
    BY CallsMove DEF IInv, TypeOK, CancelledAreKnown, CallMoves
  <1> QED
    BY <1>1, <1>2, <1>3, SpaceInvariant, PTL DEF Spec
=============================================================================
