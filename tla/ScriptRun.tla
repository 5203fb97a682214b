----------------------------- MODULE ScriptRun -----------------------------
(***************************************************************************)
(* One run of run_browser_script (agent_space/dao_agent_script_run.cc).    *)
(* The script lives in a hidden page.  Its tool calls and at last its      *)
(* report travel to the browser in order; the answers travel back.  Page,  *)
(* browser, the user and the timers step one at a time, and a call may be  *)
(* on its way in either direction when the run ends.                       *)
(***************************************************************************)
EXTENDS Naturals, FiniteSets, Sequences

CONSTANTS
    Calls,          \* the calls the script can make, by their id in the page
    MaxToolCalls,   \* kMaxToolCalls
    Report          \* the script's outcome among the messages to the browser

ASSUME ScriptAssumption ==
    /\ Calls \subseteq Nat
    /\ MaxToolCalls \in Nat
    /\ Report \notin Calls

VARIABLES
    run,            \* new, open while done_ is set, ended, gone when deleted
    result,         \* what the caller of the script was told
    outstanding,    \* outstanding_calls_
    toolCalls,      \* tool_calls_
    missed,         \* (history) calls at work that the end of the run passed over
    page,           \* none, loading, running, reported, gone
    stopped,        \* the page's record of a hard stop
    report,         \* the outcome, and the calls answered to the script before
    toBrowser,      \* messages from the page
    callState,      \* where each call is
    answer,         \* what each call was answered
    control         \* who controls the space of the script: agent, user, over

browserVars == <<run, result, toolCalls, missed>>
pageVars    == <<page, stopped, report, toBrowser>>
answerVars  == <<callState, answer, outstanding>>
vars        == <<browserVars, pageVars, answerVars, control>>

(* A call is dropped when nobody is left to get its answer.                *)
CallStates == {"new", "sent", "active", "parked", "help", "answered", "settled", "dropped"}
Answers    == {"none", "ok", "error", "stop", "refused"}
Results    == {"none", "ok", "failed", "stopped", "error", "lost"}

In(states)  == {c \in Calls : callState[c] \in states}
Active      == In({"active"})
Interrupted == In({"active", "help"})          \* those CancelTool finds
AtWork      == In({"active", "parked", "help"})

Listening == run # "gone" /\ page # "gone"

(* The callback of OnDevToolsEvent for the calls cs, and OnToolResult.     *)
Answer(cs, how) ==
    /\ callState' = [c \in Calls |-> IF c \notin cs THEN callState[c]
                                     ELSE IF Listening THEN "answered" ELSE "dropped"]
    /\ answer' = [c \in Calls |-> IF c \in cs THEN how ELSE answer[c]]
    /\ outstanding' = IF run = "gone" THEN outstanding ELSE outstanding \ cs
-----------------------------------------------------------------------------
Init ==
    /\ run = "new" /\ result = "none"
    /\ outstanding = {} /\ toolCalls = 0 /\ missed = {}
    /\ page = "none" /\ stopped = FALSE
    /\ report = [end |-> "none", seen |-> {}]
    /\ toBrowser = <<>>
    /\ callState = [c \in Calls |-> "new"]
    /\ answer = [c \in Calls |-> "none"]
    /\ control = "agent"

Start ==
    /\ run = "new"
    /\ run' = "open" /\ page' = "loading"
    /\ UNCHANGED <<result, toolCalls, missed, stopped, report, toBrowser,
                   answerVars, control>>

(* Finish, where it may be called: the caller is answered and the outstan- *)
(* ding calls are cancelled.  A cancelled call erases itself from the set  *)
(* Finish is going through, so which calls are cancelled after the first   *)
(* is undefined; all of them leave the set.                                *)
Finish(how) ==
    /\ run = "open"
    /\ run' = "ended" /\ result' = how
    /\ outstanding' = {}
    /\ \E cs \in SUBSET (outstanding \cap Interrupted) :
        /\ outstanding \cap Interrupted # {} => cs # {}
        /\ callState' = [c \in Calls |-> IF c \in cs THEN "answered" ELSE callState[c]]
        /\ answer' = [c \in Calls |-> IF c \in cs THEN "error" ELSE answer[c]]
        /\ missed' = AtWork \ cs
    /\ UNCHANGED <<toolCalls, control>>

(* The other outcome of going on from an erased element: the browser dies. *)
FinishCrashes ==
    /\ run = "open" /\ outstanding \cap Interrupted # {}
    /\ run' = "gone" /\ result' = "lost"
    /\ page' = "gone" /\ toBrowser' = <<>>
    /\ control' = "over"
    /\ callState' = [c \in Calls |-> IF callState[c] \in {"new", "settled"}
                                       THEN callState[c] ELSE "dropped"]
    /\ UNCHANGED <<outstanding, toolCalls, missed, stopped, report, answer>>

(* Prepare to RunScript: a run that has ended does not notice.             *)
RunScript ==
    /\ run \in {"open", "ended"} /\ page = "loading"
    /\ page' = "running"
    /\ UNCHANGED <<browserVars, stopped, report, toBrowser, answerVars, control>>

(* Attaching, a set-up command or the runtime fails.                       *)
SetUpFails ==
    /\ page = "loading"
    /\ Finish("error")
    /\ page' = "gone"
    /\ UNCHANGED <<stopped, report, toBrowser>>

(* Mutant: the deadline starts with the script, not with its page.         *)
DeadlineOfScript ==
    /\ page # "loading"
    /\ Finish("error")
    /\ UNCHANGED pageVars

(* deadline_: the timeout counts from Start.                               *)
Deadline ==
    /\ Finish("error")
    /\ UNCHANGED pageVars

(* CancelTool of the script itself.                                        *)
CancelScript ==
    /\ Finish("error")
    /\ UNCHANGED pageVars

(* CancelClientTools: the script, then all calls, those Finish passed over *)
(* and those of a run that has ended too.                                  *)
CancelClientTools ==
    /\ run # "new" /\ (run = "open" \/ Interrupted # {})
    /\ run' = IF run = "open" THEN "ended" ELSE run
    /\ result' = IF run = "open" THEN "error" ELSE result
    /\ callState' = [c \in Calls |-> IF c \notin Interrupted THEN callState[c]
                                     ELSE IF Listening THEN "answered" ELSE "dropped"]
    /\ answer' = [c \in Calls |-> IF c \in Interrupted THEN "error" ELSE answer[c]]
    /\ outstanding' = IF run = "open" THEN {}
                      ELSE IF run = "gone" THEN outstanding ELSE outstanding \ Interrupted
    /\ missed' = IF run = "open" THEN In({"parked"}) ELSE missed
    /\ UNCHANGED <<toolCalls, pageVars, control>>

(* PrimaryMainFrameRenderProcessGone, or the DevTools target closes.       *)
RendererGone ==
    /\ page \notin {"none", "gone"}
    /\ page' = "gone" /\ toBrowser' = <<>>
    /\ LET Unheard(state) == IF state \in {"sent", "answered"} THEN "dropped" ELSE state
       IN  IF run = "open"
             THEN /\ run' = "ended" /\ result' = "error" /\ outstanding' = {}
                  /\ \E cs \in SUBSET (outstanding \cap Interrupted) :
                      /\ outstanding \cap Interrupted # {} => cs # {}
                      /\ callState' = [c \in Calls |-> IF c \in cs THEN "dropped"
                                                       ELSE Unheard(callState[c])]
                      /\ answer' = [c \in Calls |-> IF c \in cs THEN "error" ELSE answer[c]]
                      /\ missed' = AtWork \ cs
             ELSE /\ callState' = [c \in Calls |-> Unheard(callState[c])]
                  /\ UNCHANGED <<run, result, outstanding, answer, missed>>
    /\ UNCHANGED <<toolCalls, stopped, report, control>>

(* The posted deletion of a run that has ended: the destructor cancels the *)
(* calls that came in since, as far as CancelTool finds them, and the page *)
(* goes.                                                                   *)
Delete ==
    /\ run = "ended"
    /\ run' = "gone"
    /\ page' = "gone" /\ toBrowser' = <<>>
    /\ LET late == outstanding \cap Interrupted
       IN  /\ callState' = [c \in Calls |->
                              IF c \in late \cup In({"sent", "answered"})
                                THEN "dropped" ELSE callState[c]]
           /\ answer' = [c \in Calls |-> IF c \in late THEN "error" ELSE answer[c]]
    /\ missed' = missed \cup In({"parked"})
    /\ UNCHANGED <<result, toolCalls, stopped, report, outstanding, control>>
-----------------------------------------------------------------------------
(* dao.call: ids count up, and after a hard stop nothing is sent.          *)
PageCalls(c) ==
    /\ page \in {"running", "reported"} /\ ~stopped
    /\ callState[c] = "new"
    /\ \A d \in Calls : d < c => callState[d] # "new"
    /\ callState' = [callState EXCEPT ![c] = "sent"]
    /\ toBrowser' = Append(toBrowser, c)
    /\ UNCHANGED <<browserVars, page, stopped, report, outstanding, answer, control>>

(* __daoSettle.  Answers arrive in any order here.                         *)
PageSettles(c) ==
    /\ callState[c] = "answered"
    /\ page \in {"running", "reported"}
    /\ callState' = [callState EXCEPT ![c] = "settled"]
    /\ stopped' = (stopped \/ answer[c] = "stop")
    /\ UNCHANGED <<browserVars, page, report, toBrowser, outstanding, answer, control>>

(* Mutant: the outcome does not say that the script was stopped.           *)
PageReportsAnyway(end) ==
    /\ page = "running"
    /\ page' = "reported"
    /\ report' = [end |-> end, seen |-> In({"settled"})]
    /\ toBrowser' = Append(toBrowser, Report)
    /\ UNCHANGED <<browserVars, stopped, answerVars, control>>

(* The script returns (ok), throws (failed), or its outcome is lost (too   *)
(* large, unreadable, a syntax error).  Calls it did not wait for may be   *)
(* on their way, and more may follow.                                      *)
PageReports(end) ==
    /\ page = "running"
    /\ page' = "reported"
    /\ report' = [end |-> IF stopped /\ end # "error" THEN "stopped" ELSE end,
                  seen |-> In({"settled"})]
    /\ toBrowser' = Append(toBrowser, Report)
    /\ UNCHANGED <<browserVars, stopped, answerVars, control>>

(* OnScriptFinished; nothing happens when the run has ended before.        *)
OnScriptFinished ==
    /\ toBrowser # <<>> /\ Head(toBrowser) = Report
    /\ toBrowser' = Tail(toBrowser)
    /\ \/ Finish(report.end)
       \/ run # "open" /\ UNCHANGED <<browserVars, answerVars, control>>
    /\ UNCHANGED <<page, stopped, report>>
-----------------------------------------------------------------------------
WithinBudget == toolCalls + 1 <= MaxToolCalls

(* Mutant: a call is noted only while the run is open.                     *)
EnterWhileOpen(c, state) ==
    /\ callState' = [callState EXCEPT ![c] = state]
    /\ outstanding' = IF run = "open" THEN outstanding \cup {c} ELSE outstanding
    /\ UNCHANGED answer

(* Noted even when the run has ended, for the destructor to cancel.        *)
Enter(c, state) ==
    /\ callState' = [callState EXCEPT ![c] = state]
    /\ outstanding' = outstanding \cup {c}
    /\ UNCHANGED answer

(* request_user_help: what is at work is cancelled, the user gets control, *)
(* and the call waits.                                                     *)
EnterHelp(c) ==
    /\ control # "over" /\ In({"help"}) = {}
    /\ control' = "user"
    /\ callState' = [d \in Calls |-> IF d = c THEN "help"
                                     ELSE IF d \in Active THEN "answered" ELSE callState[d]]
    /\ answer' = [d \in Calls |-> IF d \in Active THEN "stop" ELSE answer[d]]
    /\ outstanding' = (outstanding \ Active) \cup {c}

(* ExecuteTool: at work, parked for a first commit, waiting for the user,  *)
(* the end of the space, answered at once, or refused control.             *)
Execute(c) ==
    \/ control = "agent" /\ Enter(c, "active") /\ UNCHANGED control
    \/ control # "over" /\ Enter(c, "parked") /\ UNCHANGED control
    \/ EnterHelp(c)
    \/ /\ control = "agent" /\ control' = "over"
       /\ callState' = [d \in Calls |-> IF d \in Interrupted \cup {c} THEN "answered"
                                        ELSE callState[d]]
       /\ answer' = [d \in Calls |-> IF d = c THEN "ok"
                                     ELSE IF d \in Interrupted THEN "stop" ELSE answer[d]]
       /\ outstanding' = outstanding \ Interrupted
    \/ \E how \in {"ok", "error"} : Answer({c}, how) /\ UNCHANGED control
    \/ control # "agent" /\ Answer({c}, "stop") /\ UNCHANGED control

(* OnDevToolsEvent: malformed and nested calls are not counted, calls past *)
(* the limit are, and neither is executed.                                 *)
OnDevToolsEvent(c) ==
    /\ toBrowser # <<>> /\ Head(toBrowser) = c
    /\ toBrowser' = Tail(toBrowser)
    /\ \/ Answer({c}, "refused") /\ UNCHANGED <<toolCalls, control>>
       \/ /\ toolCalls' = toolCalls + 1
          /\ \/ WithinBudget /\ Execute(c)
             \/ ~WithinBudget /\ Answer({c}, "refused") /\ UNCHANGED control
    /\ UNCHANGED <<run, result, missed, page, stopped, report>>

(* Mutant: control is not looked at again after the wait.                  *)
DispatchUnchecked(c) ==
    /\ callState[c] = "parked"
    /\ callState' = [callState EXCEPT ![c] = "active"]
    /\ UNCHANGED <<browserVars, pageVars, outstanding, answer, control>>

(* The wait for a commit is over; nothing cancels it, not even the run's   *)
(* end.                                                                    *)
Dispatch(c) ==
    /\ callState[c] = "parked"
    /\ \/ /\ control = "agent"
          /\ callState' = [callState EXCEPT ![c] = "active"]
          /\ UNCHANGED <<outstanding, answer>>
       \/ Answer({c}, "error")
       \/ control # "agent" /\ Answer({c}, "stop")
    /\ UNCHANGED <<browserVars, pageVars, control>>

(* A result, an error or a deadline of the tool, or of the wait for help.  *)
Complete(c) ==
    /\ c \in Interrupted
    /\ \E how \in {"ok", "error"} : Answer({c}, how)
    /\ UNCHANGED <<browserVars, pageVars, control>>

(* The user, or a page that needs them, takes control.                     *)
TakeOver ==
    /\ run # "new" /\ control = "agent"
    /\ control' = "user"
    /\ Answer(Active, "stop")
    /\ UNCHANGED <<browserVars, pageVars>>

HandBack ==
    /\ control = "user"
    /\ control' = "agent"
    /\ Answer(In({"help"}), "ok")
    /\ UNCHANGED <<browserVars, pageVars>>

StopSpace ==
    /\ run # "new" /\ control # "over"
    /\ control' = "over"
    /\ Answer(Interrupted, "stop")
    /\ UNCHANGED <<browserVars, pageVars>>

CallStep(c) ==
    \/ PageCalls(c) \/ PageSettles(c) \/ OnDevToolsEvent(c)
    \/ Dispatch(c) \/ Complete(c)

RunStep ==
    \/ Start \/ RunScript \/ SetUpFails \/ Deadline \/ CancelScript
    \/ CancelClientTools \/ RendererGone \/ Delete \/ FinishCrashes
    \/ \E end \in {"ok", "failed", "error"} : PageReports(end)
    \/ OnScriptFinished

SpaceStep == TakeOver \/ HandBack \/ StopSpace

Next == RunStep \/ SpaceStep \/ \E c \in Calls : CallStep(c)

Spec == Init /\ [][Next]_vars

(* deadline_ and DeleteSoon; the page and the user promise nothing.        *)
FairSpec == Spec /\ WF_vars(Deadline) /\ WF_vars(Delete)
-----------------------------------------------------------------------------
(* The variables keep their types, and a run has a result when it is over. *)
TypeOK ==
    /\ run \in {"new", "open", "ended", "gone"}
    /\ result \in IF run \in {"new", "open"} THEN {"none"} ELSE Results \ {"none"}
    /\ outstanding \subseteq Calls
    /\ toolCalls \in Nat
    /\ missed \subseteq Calls
    /\ page \in {"none", "loading", "running", "reported", "gone"}
    /\ stopped \in BOOLEAN
    /\ report \in [end : {"none", "ok", "failed", "stopped", "error"}, seen : SUBSET Calls]
    /\ toBrowser \in Seq(Calls \cup {Report})
    /\ callState \in [Calls -> CallStates]
    /\ answer \in [Calls -> Answers]
    /\ control \in {"agent", "user", "over"}

(* The set Finish and the destructor cancel from knows every call that is  *)
(* at work for the run, whatever answered the others: while the run is     *)
(* open exactly those, afterwards none that is over (outstanding_calls_).  *)
OutstandingIsAtWork ==
    /\ run \in {"new", "open"} => outstanding = AtWork
    /\ run = "ended" => outstanding \subseteq AtWork

(* The output of a script is delivered only if none of the calls it had    *)
(* the answer of was stopped because the user took over or ended the       *)
(* space (OnScriptFinished, "Hard stop").                                  *)
StopDropsOutput ==
    result \in {"ok", "failed"} => \A c \in report.seen : answer[c] # "stop"

(* At most MaxToolCalls calls of a script are executed, however many it    *)
(* sends, and whatever becomes of them.                                    *)
BudgetKept ==
    Cardinality({c \in Calls : \/ callState[c] \in {"active", "parked", "help"}
                               \/ answer[c] \in {"ok", "error", "stop"}}) <= MaxToolCalls

(* Once a run is deleted no call works for it any more, neither one it had *)
(* when it ended nor one that reached the browser between its end and its  *)
(* deletion, whatever the order of messages, answers and dispatches.  The  *)
(* exceptions are the code's own: a call parked for a commit, which        *)
(* CancelTool does not find, and those Finish passed over when an erased   *)
(* element cut its iteration short.                                        *)
LateCallsEnd == run = "gone" => AtWork \subseteq missed

(* Every run is answered and deleted, also when its page never loads or    *)
(* its script never returns.                                               *)
RunsEnd == run = "open" ~> run = "gone" /\ result # "none"

Control == INSTANCE TaskControl WITH
    Spaces  <- {Report},
    control <- [s \in {Report} |-> IF run = "new" THEN "none" ELSE control],
    working <- Active \X {Report}

(* The space looks to the run as TaskControl promises: this is where the   *)
(* model meets AgentSpace, which implements the same promise.              *)
ImplementsTaskControl == Control!Spec
=============================================================================
