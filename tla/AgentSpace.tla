---------------------------- MODULE AgentSpace ----------------------------
(***************************************************************************)
(* Agent Spaces (agent_space/dao_agent_space_service.cc and                *)
(* dao_agent_space.cc): background task windows an agent works in through  *)
(* tool calls, and the user can take over, hand back, stop, hide and       *)
(* dismiss.  Everything runs on the UI thread, so a handler is one step;   *)
(* calls that wait, timers and posted tasks are the steps between.         *)
(***************************************************************************)
EXTENDS Naturals, FiniteSets

CONSTANTS
    Spaces,     \* space ids, numbered in the order they are created
    Calls,      \* tool calls, each with a request id of its own
    Tabs,       \* tabs of a space that can open a dialog
    McpSpaces,  \* the spaces of MCP clients; the others are Dao Agent's
    McpCalls,   \* the calls of MCP clients
    ListCalls,  \* the calls of list_tabs, which a dialog does not block
    MaxActive,  \* kMaxActiveSpaces
    MaxClosed,  \* kMaxClosedRecords
    MaxPosted,  \* bound on the posted tasks of a space's dialogs
    NoCall, NoSpace, NoTab

ASSUME SpacesAssumption ==
    /\ Spaces \subseteq Nat /\ IsFiniteSet(Spaces)
    /\ McpSpaces \subseteq Spaces
    /\ McpCalls \subseteq Calls /\ ListCalls \subseteq Calls
    /\ {MaxActive, MaxClosed, MaxPosted} \subseteq Nat
    /\ NoCall \notin Calls /\ NoSpace \notin Spaces /\ NoTab \notin Tabs

VARIABLES
    phase,      \* spaces_ and state_: unused before, gone after its time there
    reason,     \* handoff_reason_
    locked,     \* its tabs are locked against the user's input
    hiding,     \* hide_window_callback_ waits for a fullscreen transition
    pending,    \* pending_dialog_: the tab of the dialog, or NoTab
    dialogs,    \* the tabs that are blocked by a dialog
    covered,    \* (history) those whose dialog a later one displaced
    posted,     \* posted tasks of OnSpaceDialogOpened
    prompt,     \* permission request of a page: none, queued or shown
    help,       \* helps_: the call that waits for the user, or NoCall
    history,    \* the dao.agent_space.history preference
    callState,  \* where each call is; "active" is being in calls_
    callSpace,  \* the space a call is for
    cancelled   \* (history) calls whose client has cancelled them

spaceVars == <<phase, reason, locked, hiding, help, history>>
pageVars  == <<pending, dialogs, covered, posted, prompt>>
callVars  == <<callState, callSpace, cancelled>>
vars      == <<spaceVars, pageVars, callVars>>

Live      == {"running", "user"}           \* ~is_closed()
Closed    == {"finished", "stopped"}
Phases    == {"unused", "gone"} \cup Live \cup Closed
Reasons   == {"none", "manual", "help", "page"}
CallStates == {"new", "creating", "waiting", "active", "help", "done"}

Open(s)   == phase[s] \in Live
Mine(c, s) == (c \in McpCalls) = (s \in McpSpaces)   \* ResolveSpace
ActiveIn(S) == {c \in Calls : callState[c] = "active" /\ callSpace[c] \in S}
HelpIn(S) == {help[s] : s \in S} \ {NoCall}

(* callState when the calls cs have been answered.                         *)
Answered(cs) == [c \in Calls |-> IF c \in cs THEN "done" ELSE callState[c]]

Set(f, S, v) == [s \in Spaces |-> IF s \in S THEN v ELSE f[s]]
-----------------------------------------------------------------------------
Recorded(ph) == {s \in Spaces : ph[s] \in Closed}

(* Mutant: the limit counts the records kept beside the newest.            *)
SurplusPastLimit(ph) ==
    {s \in Recorded(ph) :
        Cardinality({t \in Recorded(ph) : t > s}) > MaxClosed}

(* PruneClosedRecords dismisses the oldest records, those with MaxClosed   *)
(* newer ones; the age is that of the space, not of its closing.           *)
Surplus(ph) ==
    {s \in Recorded(ph) :
        Cardinality({t \in Recorded(ph) : t > s}) >= MaxClosed}

Pruned(ph) == Set(ph, Surplus(ph), "gone")

(* SaveHistory                                                             *)
HistoryOf(ph) == [s \in Spaces |-> IF ph[s] \in Closed THEN ph[s] ELSE "none"]

(* Mutant: the deferred hide is not cancelled.                             *)
CloseLeavingHide(S, state, cs) ==
    /\ phase' = Pruned(Set(phase, S, state))
    /\ history' = HistoryOf(phase')
    /\ reason' = Set(reason, S, "none")
    /\ locked' = Set(locked, S, FALSE)
    /\ help' = Set(help, S, NoCall)
    /\ callState' = Answered(cs \cup ActiveIn(S) \cup HelpIn(S))
    /\ dialogs' = Set(dialogs, S, {})
    /\ covered' = Set(covered, S, {})
    /\ prompt' = Set(prompt, S, "none")
    /\ UNCHANGED <<hiding, pending, posted>>

(* Mutant: the history is not saved when a space closes.                   *)
CloseUnsaved(S, state, cs) ==
    /\ phase' = Pruned(Set(phase, S, state))
    /\ reason' = Set(reason, S, "none")
    /\ locked' = Set(locked, S, FALSE)
    /\ hiding' = Set(hiding, S, FALSE)
    /\ help' = Set(help, S, NoCall)
    /\ callState' = Answered(cs \cup ActiveIn(S) \cup HelpIn(S))
    /\ dialogs' = Set(dialogs, S, {})
    /\ covered' = Set(covered, S, {})
    /\ prompt' = Set(prompt, S, "none")
    /\ UNCHANGED <<history, pending, posted>>

(* CloseSpace for every space of S, with cs the calls it answers besides   *)
(* those of the spaces.  pending_dialog_ stays.                            *)
Close(S, state, cs) ==
    /\ phase' = Pruned(Set(phase, S, state))
    /\ history' = HistoryOf(phase')
    /\ reason' = Set(reason, S, "none")
    /\ locked' = Set(locked, S, FALSE)
    /\ hiding' = Set(hiding, S, FALSE)
    /\ help' = Set(help, S, NoCall)
    /\ callState' = Answered(cs \cup ActiveIn(S) \cup HelpIn(S))
    /\ dialogs' = Set(dialogs, S, {})
    /\ covered' = Set(covered, S, {})
    /\ prompt' = Set(prompt, S, "none")
    /\ UNCHANGED <<pending, posted>>

(* HandOffToUser of a running space: its tabs unlock and CancelAll answers *)
(* the calls in its executor; cs are answered too.                         *)
HandOff(s, why, cs) ==
    /\ phase' = [phase EXCEPT ![s] = "user"]
    /\ reason' = [reason EXCEPT ![s] = why]
    /\ locked' = [locked EXCEPT ![s] = FALSE]
    /\ callState' = Answered(cs \cup ActiveIn({s}))

(* Mutant: the waiting help call is forgotten when control returns.        *)
HandBackDroppingHelp(s) ==
    /\ phase' = [phase EXCEPT ![s] = "running"]
    /\ reason' = [reason EXCEPT ![s] = "none"]
    /\ locked' = [locked EXCEPT ![s] = TRUE]
    /\ help' = [help EXCEPT ![s] = NoCall]
    /\ UNCHANGED callState

(* ReturnToAgent and the answer to the call that asked for help.           *)
ReturnToAgent(s) ==
    /\ phase' = [phase EXCEPT ![s] = "running"]
    /\ reason' = [reason EXCEPT ![s] = "none"]
    /\ locked' = [locked EXCEPT ![s] = TRUE]
    /\ help' = [help EXCEPT ![s] = NoCall]
    /\ callState' = Answered(HelpIn({s}))
-----------------------------------------------------------------------------
Init ==
    /\ phase = [s \in Spaces |-> "unused"]
    /\ reason = [s \in Spaces |-> "none"]
    /\ locked = [s \in Spaces |-> FALSE]
    /\ hiding = [s \in Spaces |-> FALSE]
    /\ pending = [s \in Spaces |-> NoTab]
    /\ dialogs = [s \in Spaces |-> {}]
    /\ covered = [s \in Spaces |-> {}]
    /\ posted = [s \in Spaces |-> 0]
    /\ prompt = [s \in Spaces |-> "none"]
    /\ help = [s \in Spaces |-> NoCall]
    /\ history = [s \in Spaces |-> "none"]
    /\ callState = [c \in Calls |-> "new"]
    /\ callSpace = [c \in Calls |-> NoSpace]
    /\ cancelled = {}

(* Any tool may be answered with an error before it has an effect.         *)
Refuse(c) ==
    /\ callState[c] = "new"
    /\ callState' = Answered({c})
    /\ UNCHANGED <<spaceVars, pageVars, callSpace, cancelled>>

Creatable(c, s) ==
    /\ callState[c] = "new" /\ Mine(c, s)
    /\ phase[s] = "unused"
    /\ \A t \in Spaces : t < s => phase[t] # "unused"
    /\ Cardinality({t \in Spaces : Open(t)}) < MaxActive

(* The reply waits for the first page to commit.                           *)
CreateSpace(c, s) ==
    /\ Creatable(c, s)
    /\ phase' = Pruned([phase EXCEPT ![s] = "running"])
    /\ history' = HistoryOf(phase')
    /\ locked' = [locked EXCEPT ![s] = TRUE]
    /\ callState' = [callState EXCEPT ![c] = "creating"]
    /\ callSpace' = [callSpace EXCEPT ![c] = s]
    /\ UNCHANGED <<reason, hiding, help, pageVars, cancelled>>

(* The page cannot be opened: the space is closed, then dismissed.         *)
CreateFails(c, s) ==
    /\ Creatable(c, s)
    /\ phase' = [Pruned([phase EXCEPT ![s] = "stopped"]) EXCEPT ![s] = "gone"]
    /\ history' = HistoryOf(phase')
    /\ callState' = Answered({c})
    /\ UNCHANGED <<reason, locked, hiding, help, pageVars, callSpace, cancelled>>

(* Committed, timed out after 15 s, or destroyed: then a posted task.      *)
CreateReply(c) ==
    /\ callState[c] = "creating"
    /\ callState' = Answered({c})
    /\ UNCHANGED <<spaceVars, pageVars, callSpace, cancelled>>

Blocked(c, s) == pending[s] # NoTab /\ c \notin ListCalls

(* Mutant: the pending permission request is not looked for.               *)
AdmitUnderPrompt(c, s) ==
    /\ phase[s] = "running" /\ ~Blocked(c, s)
    /\ callState' = [callState EXCEPT ![c] = "active"]
    /\ UNCHANGED <<spaceVars, pageVars, cancelled>>

(* ExecuteInSpace past the wait: the call enters calls_ and the executor.  *)
Admit(c, s) ==
    /\ phase[s] = "running" /\ prompt[s] = "none" /\ ~Blocked(c, s)
    /\ callState' = [callState EXCEPT ![c] = "active"]
    /\ UNCHANGED <<spaceVars, pageVars, cancelled>>

(* A permission request nobody can see gives the space to the user.        *)
AdmitHandsOff(c, s) ==
    /\ phase[s] = "running" /\ prompt[s] # "none"
    /\ HandOff(s, "page", {c})
    /\ UNCHANGED <<hiding, help, history, pageVars, cancelled>>

(* Closed, not the agent's turn, a dialog, the user's own tab, a limit.    *)
AdmitFails(c, s) ==
    /\ ~(phase[s] = "running" /\ prompt[s] # "none")
    /\ callState' = Answered({c})
    /\ UNCHANGED <<spaceVars, pageVars, cancelled>>

(* A page without a committed document makes the call wait outside calls_. *)
WaitForCommit(c) ==
    /\ c \notin ListCalls
    /\ callState' = [callState EXCEPT ![c] = "waiting"]
    /\ UNCHANGED <<spaceVars, pageVars, cancelled>>

Execute(c, s) ==
    /\ callState[c] = "new" /\ Mine(c, s) /\ Open(s)
    /\ callSpace' = [callSpace EXCEPT ![c] = s]
    /\ \/ WaitForCommit(c)
       \/ Admit(c, s)
       \/ AdmitHandsOff(c, s)
       \/ AdmitFails(c, s)

(* Mutant: the space is not looked at again after the wait.                *)
DispatchUnchecked(c) ==
    /\ callState[c] = "waiting"
    /\ callState' = [callState EXCEPT ![c] = "active"]
    /\ UNCHANGED <<spaceVars, pageVars, callSpace, cancelled>>

(* The posted end of the wait, also after 15 s or without the page.        *)
Dispatch(c) ==
    /\ callState[c] = "waiting"
    /\ \E s \in Spaces :
        /\ s = callSpace[c]
        /\ Admit(c, s) \/ AdmitHandsOff(c, s) \/ AdmitFails(c, s)
    /\ UNCHANGED callSpace

(* The executor's result, error or deadline.                               *)
Complete(c) ==
    /\ callState[c] = "active"
    /\ callState' = Answered({c})
    /\ UNCHANGED <<spaceVars, pageVars, callSpace, cancelled>>

(* Mutant: the wait for help ends without an answer.                       *)
CancelForgettingHelp(cs) ==
    /\ \A c \in cs : callState[c] \notin {"new", "done"}
    /\ cs # {} /\ cs \cap cancelled = {}
    /\ callState' = Answered({c \in cs : callState[c] = "active"})
    /\ help' = [s \in Spaces |-> IF help[s] \in cs THEN NoCall ELSE help[s]]
    /\ cancelled' = cancelled \cup cs
    /\ UNCHANGED <<phase, reason, locked, hiding, history, pageVars, callSpace>>

(* CancelTool of one call, CancelClientTools of all of a client: calls_,   *)
(* then the waits for help.                                                *)
Cancel(cs) ==
    /\ \A c \in cs : callState[c] \notin {"new", "done"}
    /\ cs # {} /\ cs \cap cancelled = {}
    /\ callState' = Answered({c \in cs : callState[c] \in {"active", "help"}})
    /\ help' = [s \in Spaces |-> IF help[s] \in cs THEN NoCall ELSE help[s]]
    /\ cancelled' = cancelled \cup cs
    /\ UNCHANGED <<phase, reason, locked, hiding, history, pageVars, callSpace>>

CancelClientTools(mcp) ==
    Cancel({c \in Calls : /\ (c \in McpCalls) = mcp
                          /\ callState[c] \notin {"new", "done"}
                          /\ c \notin cancelled})
-----------------------------------------------------------------------------
(* The space's calls are cancelled, the user gets control unless they have *)
(* it, and the call waits for them, at most 14 minutes.                    *)
RequestUserHelp(c, s) ==
    /\ callState[c] = "new" /\ Mine(c, s) /\ Open(s)
    /\ help[s] = NoCall
    /\ callState' = [Answered(ActiveIn({s})) EXCEPT ![c] = "help"]
    /\ callSpace' = [callSpace EXCEPT ![c] = s]
    /\ help' = [help EXCEPT ![s] = c]
    /\ phase' = [phase EXCEPT ![s] = "user"]
    /\ reason' = [reason EXCEPT ![s] = IF phase[s] = "running" THEN "help" ELSE @]
    /\ locked' = [locked EXCEPT ![s] = FALSE]
    /\ UNCHANGED <<hiding, history, pageVars, cancelled>>

(* The call is answered; the user keeps control.                           *)
OnHelpTimeout(s) ==
    /\ help[s] # NoCall
    /\ callState' = Answered({help[s]})
    /\ help' = [help EXCEPT ![s] = NoCall]
    /\ UNCHANGED <<phase, reason, locked, hiding, history, pageVars, callSpace, cancelled>>

FinishSpace(c, s) ==
    /\ callState[c] = "new" /\ Mine(c, s) /\ phase[s] = "running"
    /\ Close({s}, "finished", {c})
    /\ UNCHANGED <<callSpace, cancelled>>

(* AnswerDialog: an answer, or the dialog has gone with its page.          *)
HandleDialog(c, s) ==
    /\ callState[c] = "new" /\ Mine(c, s) /\ phase[s] = "running"
    /\ pending[s] # NoTab
    /\ pending' = [pending EXCEPT ![s] = NoTab]
    /\ dialogs' = [dialogs EXCEPT ![s] = @ \ {pending[s]}]
    /\ callState' = Answered({c})
    /\ UNCHANGED <<spaceVars, covered, posted, prompt, callSpace, cancelled>>

(* Stop; and OnBrowserClosed, when the window goes away.                   *)
Stop(s) ==
    /\ Open(s)
    /\ Close({s}, "stopped", {})
    /\ UNCHANGED <<callSpace, cancelled>>

(* MCP is switched off.                                                    *)
StopSpacesForClient ==
    /\ \E s \in McpSpaces : Open(s)
    /\ Close({s \in McpSpaces : Open(s)}, "stopped", {})
    /\ UNCHANGED <<callSpace, cancelled>>

(* The idle timer stops spaces without activity; calls that wait for a     *)
(* commit do not count.  How long each has been idle is left open.         *)
CheckIdleSpaces ==
    /\ \E S \in SUBSET {s \in Spaces : phase[s] = "running" /\ ActiveIn({s}) = {}} :
        S # {} /\ Close(S, "stopped", {})
    /\ UNCHANGED <<callSpace, cancelled>>

Dismiss(s) ==
    /\ phase[s] \in Closed
    /\ phase' = [phase EXCEPT ![s] = "gone"]
    /\ history' = HistoryOf(phase')
    /\ UNCHANGED <<reason, locked, hiding, help, pageVars, callVars>>
-----------------------------------------------------------------------------
(* The user takes over, and the window opens.                              *)
TakeOverRunning(s) ==
    /\ phase[s] = "running"
    /\ HandOff(s, "manual", {})
    /\ hiding' = [hiding EXCEPT ![s] = FALSE]
    /\ UNCHANGED <<help, history, pageVars, callSpace, cancelled>>

(* ShowWindow, and TakeOver of a space the user has: a deferred hide is    *)
(* cancelled.                                                              *)
ShowWindow(s) ==
    /\ Open(s) /\ hiding[s]
    /\ hiding' = [hiding EXCEPT ![s] = FALSE]
    /\ UNCHANGED <<phase, reason, locked, help, history, pageVars, callVars>>

HandBack(s) ==
    /\ phase[s] = "user"
    /\ ReturnToAgent(s)
    /\ UNCHANGED <<hiding, history, pageVars, callSpace, cancelled>>

(* HideWindow hides at once or at the end of a fullscreen transition.      *)
HideWindow(s) ==
    /\ Open(s) /\ ~hiding[s]
    /\ hiding' = [hiding EXCEPT ![s] = TRUE]
    /\ UNCHANGED <<phase, reason, locked, help, history, pageVars, callVars>>

(* Hidden: a space the user has goes back to the agent.  A window that is  *)
(* fullscreen again stays.                                                 *)
HideWindowAfterFullscreenExit(s) ==
    /\ hiding[s]
    /\ hiding' = [hiding EXCEPT ![s] = FALSE]
    /\ \/ phase[s] = "user" /\ ReturnToAgent(s)
       \/ UNCHANGED <<phase, reason, locked, help, callState>>
    /\ UNCHANGED <<history, pageVars, callSpace, cancelled>>
-----------------------------------------------------------------------------
(* Mutant: the calls behind the dialog are not cancelled.                  *)
DialogOpenedQuietly(s, t) ==
    /\ Open(s) /\ t \notin dialogs[s]
    /\ dialogs' = [dialogs EXCEPT ![s] = @ \cup {t}]
    /\ covered' = [covered EXCEPT ![s] = @ \cup dialogs[s]]
    /\ pending' = [pending EXCEPT ![s] = t]
    /\ UNCHANGED <<spaceVars, posted, prompt, callVars>>

(* A confirm or prompt of a hidden page stays open; a task is posted.  The *)
(* service has place for one dialog and forgets an earlier one.            *)
OnDialogOpened(s, t) ==
    /\ Open(s) /\ t \notin dialogs[s] /\ posted[s] < MaxPosted
    /\ dialogs' = [dialogs EXCEPT ![s] = @ \cup {t}]
    /\ covered' = [covered EXCEPT ![s] = @ \cup dialogs[s]]
    /\ pending' = [pending EXCEPT ![s] = t]
    /\ posted' = [posted EXCEPT ![s] = @ + 1]
    /\ UNCHANGED <<spaceVars, prompt, callVars>>

(* The user answered it, or the page went elsewhere.                       *)
OnDialogClosed(s, t) ==
    /\ t \in dialogs[s]
    /\ dialogs' = [dialogs EXCEPT ![s] = @ \ {t}]
    /\ covered' = [covered EXCEPT ![s] = @ \ {t}]
    /\ pending' = [pending EXCEPT ![s] = IF @ = t THEN NoTab ELSE @]
    /\ UNCHANGED <<spaceVars, posted, prompt, callVars>>

(* The task of OnSpaceDialogOpened cancels the calls behind the dialog.    *)
CancelBehindDialog(s) ==
    /\ posted[s] > 0
    /\ posted' = [posted EXCEPT ![s] = @ - 1]
    /\ callState' = IF pending[s] # NoTab THEN Answered(ActiveIn({s})) ELSE callState
    /\ UNCHANGED <<spaceVars, pending, dialogs, covered, prompt, callSpace, cancelled>>

(* The permission manager has a request, not shown yet.                    *)
PermissionRequested(s) ==
    /\ Open(s) /\ prompt[s] = "none"
    /\ prompt' = [prompt EXCEPT ![s] = "queued"]
    /\ UNCHANGED <<spaceVars, pending, dialogs, covered, posted, callVars>>

(* The prompt is shown, or cannot be in a hidden tab.                      *)
OnPermissionPrompt(s) ==
    /\ Open(s) /\ prompt[s] = "queued"
    /\ prompt' = [prompt EXCEPT ![s] = "shown"]
    /\ IF phase[s] = "running"
         THEN HandOff(s, "page", {})
         ELSE UNCHANGED <<phase, reason, locked, callState>>
    /\ UNCHANGED <<hiding, help, history, pending, dialogs, covered, posted,
                   callSpace, cancelled>>

PermissionAnswered(s) ==
    /\ prompt[s] # "none"
    /\ prompt' = [prompt EXCEPT ![s] = "none"]
    /\ UNCHANGED <<spaceVars, pending, dialogs, covered, posted, callVars>>

(* A file or device chooser, or a browser dialog, that only the user can   *)
(* answer.                                                                 *)
OnPageNeedsUser(s) ==
    /\ phase[s] = "running"
    /\ HandOff(s, "page", {})
    /\ UNCHANGED <<hiding, help, history, pageVars, callSpace, cancelled>>
-----------------------------------------------------------------------------
(* Mutant: the recorded state is not read.                                 *)
RestoredAsStopped ==
    [s \in Spaces |-> IF history[s] # "none" THEN "stopped"
                      ELSE IF phase[s] = "unused" THEN "unused" ELSE "gone"]

(* RestoreRecord of what the preference has; other spaces are lost.        *)
Restored ==
    [s \in Spaces |-> IF history[s] # "none" THEN history[s]
                      ELSE IF phase[s] = "unused" THEN "unused" ELSE "gone"]

(* The browser ends and starts again: LoadHistory.  Calls end with it.     *)
Restart ==
    /\ phase' = Pruned(Restored)
    /\ history' = HistoryOf(phase')
    /\ reason' = [s \in Spaces |-> "none"]
    /\ locked' = [s \in Spaces |-> FALSE]
    /\ hiding' = [s \in Spaces |-> FALSE]
    /\ pending' = [s \in Spaces |-> NoTab]
    /\ dialogs' = [s \in Spaces |-> {}]
    /\ covered' = [s \in Spaces |-> {}]
    /\ posted' = [s \in Spaces |-> 0]
    /\ prompt' = [s \in Spaces |-> "none"]
    /\ help' = [s \in Spaces |-> NoCall]
    /\ callState' = Answered({c \in Calls : callState[c] # "new"})
    /\ UNCHANGED <<callSpace, cancelled>>

CallStep(c) ==
    \/ Refuse(c) \/ CreateReply(c) \/ Dispatch(c) \/ Complete(c) \/ Cancel({c})

ToolStep(c, s) ==
    \/ CreateSpace(c, s) \/ CreateFails(c, s) \/ Execute(c, s)
    \/ RequestUserHelp(c, s) \/ FinishSpace(c, s) \/ HandleDialog(c, s)

UserStep(s) ==
    \/ TakeOverRunning(s) \/ ShowWindow(s) \/ HandBack(s) \/ HideWindow(s)
    \/ Stop(s) \/ Dismiss(s)

PageStep(s) ==
    \/ \E t \in Tabs : OnDialogOpened(s, t) \/ OnDialogClosed(s, t)
    \/ PermissionRequested(s) \/ OnPermissionPrompt(s) \/ PermissionAnswered(s)
    \/ OnPageNeedsUser(s)

TimerStep(s) ==
    \/ OnHelpTimeout(s) \/ CancelBehindDialog(s)
    \/ HideWindowAfterFullscreenExit(s)

ServiceStep ==
    \/ \E mcp \in BOOLEAN : CancelClientTools(mcp)
    \/ StopSpacesForClient \/ CheckIdleSpaces \/ Restart

Next ==
    \/ \E c \in Calls : CallStep(c) \/ \E s \in Spaces : ToolStep(c, s)
    \/ \E s \in Spaces : UserStep(s) \/ PageStep(s) \/ TimerStep(s)
    \/ ServiceStep

Spec == Init /\ [][Next]_vars

(* Posted tasks run; the commit wait, every tool and the wait for the user *)
(* have deadlines.                                                         *)
Fairness ==
    /\ \A c \in Calls : /\ WF_vars(CreateReply(c))
                        /\ WF_vars(Dispatch(c))
                        /\ WF_vars(Complete(c))
    /\ \A s \in Spaces : WF_vars(OnHelpTimeout(s))

FairSpec == Spec /\ Fairness
-----------------------------------------------------------------------------
(* The variables keep their types.                                         *)
TypeOK ==
    /\ phase \in [Spaces -> Phases]
    /\ reason \in [Spaces -> Reasons]
    /\ locked \in [Spaces -> BOOLEAN]
    /\ hiding \in [Spaces -> BOOLEAN]
    /\ pending \in [Spaces -> Tabs \cup {NoTab}]
    /\ dialogs \in [Spaces -> SUBSET Tabs]
    /\ covered \in [Spaces -> SUBSET Tabs]
    /\ posted \in [Spaces -> 0..MaxPosted]
    /\ prompt \in [Spaces -> {"none", "queued", "shown"}]
    /\ help \in [Spaces -> Calls \cup {NoCall}]
    /\ history \in [Spaces -> Closed \cup {"none"}]
    /\ callState \in [Calls -> CallStates]
    /\ callSpace \in [Calls -> Spaces \cup {NoSpace}]
    /\ cancelled \subseteq Calls

(* No call is at work in a space the user controls or that is over:        *)
(* HandOffToUser, MarkClosed and the test after the commit wait leave no   *)
(* way around it.                                                          *)
CallsNeedTheAgent ==
    \A c \in Calls : callState[c] = "active" =>
        callSpace[c] \in Spaces /\ phase[callSpace[c]] = "running"

(* A call waiting for the user is the one its space knows of, in a space   *)
(* the user controls: hand back, stop and timeout will answer it           *)
(* (ResolveHelp).                                                          *)
HelpIsAnswerable ==
    /\ \A c \in Calls : callState[c] = "help" =>
        callSpace[c] \in Spaces /\ help[callSpace[c]] = c
    /\ \A s \in Spaces : help[s] # NoCall =>
        /\ phase[s] = "user"
        /\ callState[help[s]] = "help" /\ callSpace[help[s]] = s

(* Pages are locked against the user exactly while the agent has control   *)
(* (UpdateTabControl, DetachWindow), a reason is shown exactly while the   *)
(* user has it, and no hide is due for a window that is gone.              *)
ControlIsConsistent ==
    \A s \in Spaces :
        /\ locked[s] <=> phase[s] = "running"
        /\ reason[s] # "none" <=> phase[s] = "user"
        /\ hiding[s] => Open(s)

(* The preference holds exactly the records of closed spaces, so that a    *)
(* restart shows what the sidebar showed (SaveHistory, LoadHistory).       *)
HistoryIsTheRecord == history = HistoryOf(phase)

(* At most MaxActive spaces are open and MaxClosed records kept.           *)
Bounded ==
    /\ Cardinality({s \in Spaces : Open(s)}) <= MaxActive
    /\ Cardinality(Recorded(phase)) <= MaxClosed

(* Once a permission prompt is up no call is at work in the space: taken   *)
(* back by the agent, the space goes to the user again before a call runs. *)
PromptStopsCalls ==
    \A c \in Calls : callState[c] = "active" => prompt[callSpace[c]] # "shown"

(* While a tab of its space is blocked by a dialog a call is at work only  *)
(* if it is about to be cancelled, if it is list_tabs, or if a later       *)
(* dialog took the place of every one still open in pending_dialog_.  The  *)
(* last is where the code departs from docs/features.md 607, which has     *)
(* calls fail until the dialog is answered.                                *)
DialogStopsCalls ==
    \A c \in Calls \ ListCalls : callState[c] = "active" =>
        \/ posted[callSpace[c]] > 0
        \/ dialogs[callSpace[c]] \subseteq covered[callSpace[c]]

(* What a space ended as never changes, over restarts too, and a lost      *)
(* space never comes back (RestoreRecord).                                 *)
EndsForGood ==
    [][\A s \in Spaces : /\ phase[s] \in Closed => phase'[s] \in {phase[s], "gone"}
                         /\ phase[s] = "gone" => phase'[s] = "gone"]_vars

(* Wanted: a call its client cancelled does not start afterwards           *)
(* (CancelTool, CancelClientTools at the end of a turn).                   *)
CancelledCallsNeverStart ==
    [][\A c \in cancelled :
          callState[c] # "active" => callState'[c] # "active"]_vars

(* Every call is answered: a page that never commits, a tool that hangs    *)
(* and a user who never comes back end it too.                             *)
CallsEnd ==
    \A c \in Calls : callState[c] # "new" ~> callState[c] = "done"

Control == INSTANCE TaskControl WITH
    control <- [s \in Spaces |->
                  CASE phase[s] = "unused" -> "none"
                    [] phase[s] = "running" -> "agent"
                    [] phase[s] = "user" -> "user"
                    [] OTHER -> "over"],
    working <- {<<c, callSpace[c]>> : c \in {d \in Calls : callState[d] = "active"}}

(* An Agent Space keeps the promise of TaskControl.                        *)
ImplementsTaskControl == Control!Spec
=============================================================================
