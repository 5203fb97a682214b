------------------------------ MODULE McpPages ------------------------------
(***************************************************************************)
(* How the MCP service (mcp/dao_mcp_service.cc) gives external clients     *)
(* control of the user's pages: connections, the approval prompt, the      *)
(* per-tab leases, the page picker, and the tool calls that wait for them. *)
(* Handlers run to completion on the UI thread, so each is one step.       *)
(* A connection is one record; the operators below rewrite it the way the  *)
(* methods of DaoMcpService do.                                            *)
(***************************************************************************)
EXTENDS Naturals, FiniteSets, SequencesExt

CONSTANTS
    Conns,          \* connection generations (numbers), each used once
    Tabs,           \* tabs of the approved window; some do not exist yet
    Opened,         \* the tabs that exist at the start
    Reqs,           \* request ids of a connection, each used once
    MaxConnections, \* kDaoMcpMaxConnections
    MaxCalls,       \* kMaxPendingToolCalls
    MaxDoc,         \* bound on the documents a tab goes through
    NoTab, NoReq    \* no tab, no request

ASSUME PagesAssumption ==
    /\ Conns \subseteq Nat /\ Reqs \subseteq Nat
    /\ IsFiniteSet(Conns) /\ IsFiniteSet(Reqs)
    /\ Opened \subseteq Tabs
    /\ NoTab \notin Tabs /\ NoReq \notin Reqs
    /\ {MaxConnections, MaxCalls, MaxDoc} \subseteq Nat

VARIABLES
    conn,       \* connections_: the ConnectionState of every generation
    tab,        \* what is shown in every tab of the window
    yolo,       \* the page "auto approve" preference
    agent       \* Dao Agent's turn: the tab it leases and the tab it drives

vars == <<conn, tab, yolo, agent>>

Kinds == {"list", "open", "access", "page", "switch", "close"}
Calls == [id : Reqs, kind : Kinds, tab : Tabs \cup {NoTab}]
Pages == [tab : Tabs, doc : 0..MaxDoc]       \* PageCandidate
NoPage == [tab |-> NoTab, doc |-> 0]

WindowScoped(call) == call.kind \in {"list", "open", "access"}
Ids(calls) == {call.id : call \in calls}

Fresh == [
    phase |-> "none",         \* none, open, closing (no more writes), gone
    hello |-> FALSE,          \* client_info
    approval |-> "NotRequested",
    canCreate |-> FALSE,      \* can_create_tabs
    context |-> [t \in Tabs |-> "none"],  \* target_contexts, and their lease
    default |-> NoTab,        \* default_target_id
    initial |-> NoPage,       \* initial_candidate
    pageReq |-> NoReq,        \* page_request_id
    pageTab |-> NoTab,        \* page_requested_tab_id
    candidates |-> {},        \* page_candidates
    pending |-> {},           \* pending_tool_calls
    running |-> {},           \* calls an executor has accepted
    active |-> {},            \* active_tool_calls
    retry |-> FALSE,          \* lease_retry_timer
    approvalTimer |-> FALSE,
    prompt |-> FALSE,         \* the approval dialog is queued or shown
    pagePrompt |-> FALSE,     \* the page picker is queued or shown
    revoked |-> {},           \* (history) pages revoked under the open picker
    seen |-> {},              \* requests that reached HandleToolsCall
    sent |-> [r \in Reqs |-> 0] ]   \* responses written, per request
-----------------------------------------------------------------------------
(* A handler of connection c works on a world w: c's record k, the tabs,   *)
(* the tabs no other client leases, the active tab of the window and the   *)
(* auto-approve preference.  A lease is an entry of the lease manager's    *)
(* table; here the context that owns the handle says so.                   *)
Contexts(k) == {t \in Tabs : k.context[t] # "none"}
Leased(k)   == {t \in Tabs : k.context[t] = "leased"}

WorldOf(c, conns, tabs, auto, active) ==
    [k |-> conns[c], tab |-> tabs, auto |-> auto, active |-> active,
     free |-> Tabs \ ({agent.lease} \cup UNION {Leased(conns[d]) : d \in Conns \ {c}})]

Usable(w, t)  == w.tab[t].state = "ok"     \* ValidateExternalTarget
Current(w, p) == Usable(w, p.tab) /\ w.tab[p.tab].doc = p.doc

(* SendSuccess and SendError write only while the connection is not        *)
(* closing.                                                                *)
Send(k, ids) ==
    IF k.phase = "open"
      THEN [k EXCEPT !.sent = [r \in Reqs |-> IF r \in ids THEN @[r] + 1 ELSE @[r]]]
      ELSE k

(* OnToolCallComplete, FailPendingCalls: answer those calls still active.  *)
Complete(k, ids) ==
    [Send(k, ids \cap k.active) EXCEPT !.active = @ \ ids]

(* Mutant: a page request ends and its picker stays on the screen.         *)
WithoutPageRequestKeepingPicker(k) ==
    [k EXCEPT !.pageReq = NoReq, !.pageTab = NoTab, !.candidates = {},
              !.revoked = {}]

WithoutPageRequest(k) ==
    [k EXCEPT !.pageReq = NoReq, !.pageTab = NoTab, !.candidates = {},
              !.pagePrompt = FALSE, !.revoked = {}]

(* Mutant: a cancelled page request is forgotten without an answer.        *)
CancelTabAccessSilently(k) ==
    IF k.pageReq = NoReq THEN k
    ELSE [WithoutPageRequest(k) EXCEPT !.active = @ \ {k.pageReq}]

CancelTabAccess(k) ==
    IF k.pageReq = NoReq THEN k ELSE Complete(WithoutPageRequest(k), {k.pageReq})

(* Mutant: the connection is marked closing before its calls are answered. *)
RejectConnectionClosingFirst(k) ==
    LET closing == [k EXCEPT !.phase = "closing"]
        answered == Complete(CancelTabAccess(closing), Ids(k.pending) \cup Ids(k.running))
    IN  [Fresh EXCEPT !.phase = "closing", !.approval = "Denied",
                      !.canCreate = k.canCreate, !.initial = k.initial,
                      !.seen = k.seen, !.sent = answered.sent]

(* RejectConnection: every call is answered, then the connection closes    *)
(* and gives up its grants.                                                *)
RejectConnection(k) ==
    LET answered == Complete(CancelTabAccess(k), Ids(k.pending) \cup Ids(k.running))
    IN  [Fresh EXCEPT !.phase = "closing", !.approval = "Denied",
                      !.canCreate = k.canCreate, !.initial = k.initial,
                      !.seen = k.seen, !.sent = answered.sent]

Answer(w, id) == [w EXCEPT !.k = Complete(@, {id})]
Reject(w)     == [w EXCEPT !.k = RejectConnection(@)]
-----------------------------------------------------------------------------
(* Mutant: the lease manager is not asked.                                 *)
CanGrantAnyTab(w, t) == Usable(w, t)

(* AddTargetContext for an allowed connection: the tab joins the grants    *)
(* with its lease and becomes the default target.                          *)
CanGrant(w, t) == Usable(w, t) /\ (t \in Contexts(w.k) \/ t \in w.free)
Grant(w, t) ==
    [w EXCEPT !.k.context[t] = IF @ = "none" THEN "leased" ELSE @,
              !.k.default = t]

(* Mutant: the page is not compared with the one the picker showed.        *)
OnTabAccessResultOfStalePage(w, t) ==
    LET id == w.k.pageReq
        v  == [w EXCEPT !.k = WithoutPageRequest(@)]
    IN  IF (\E p \in w.k.candidates : p.tab = t) /\ CanGrant(w, t)
          THEN Answer(Grant(v, t), id)
          ELSE Answer(v, id)

(* OnTabAccessResult, for the choice t (NoTab when refused).               *)
OnTabAccessResult(w, t) ==
    LET id == w.k.pageReq
        v  == [w EXCEPT !.k = WithoutPageRequest(@)]
    IN  IF (\E p \in w.k.candidates : p.tab = t /\ Current(w, p)) /\ CanGrant(w, t)
          THEN Answer(Grant(v, t), id)
          ELSE Answer(v, id)

AutoApproveTabAccess(w) ==
    OnTabAccessResult(w, IF w.k.pageTab # NoTab THEN w.k.pageTab ELSE w.active)

(* Under auto approval a request that names no tab means the active one.   *)
RequestTabAccess(w, call) ==
    LET wanted == IF call.tab # NoTab THEN {call.tab}
                  ELSE IF w.auto THEN {w.active} ELSE Tabs
        offered == {[tab |-> t, doc |-> w.tab[t].doc] : t \in {u \in wanted : Usable(w, u)}}
        asked == [w EXCEPT !.k.pageReq = call.id, !.k.pageTab = call.tab,
                           !.k.candidates = offered]
    IN  IF w.k.pageReq # NoReq \/ offered = {} THEN Answer(w, call.id)
        ELSE IF call.tab \in Contexts(w.k) THEN OnTabAccessResult(asked, call.tab)
        ELSE IF w.auto THEN AutoApproveTabAccess(asked)
        ELSE [asked EXCEPT !.k.pagePrompt = TRUE]

(* open_tab: a new tab in the window, granted and made the default.        *)
OpenTab(w, call) ==
    LET unused == {t \in Tabs : w.tab[t].state = "absent"}
        new == CHOOSE t \in unused : TRUE
    IN  IF w.k.canCreate /\ unused # {}
          THEN Answer(Grant([w EXCEPT !.tab[new].state = "ok"], new), call.id)
          ELSE Answer(w, call.id)

(* DispatchToolCall: list, open and switch finish within the call; a page  *)
(* tool and close_tab are left to their executor.  CanAccessTab asks for   *)
(* the lease, a page tool only for the context.                            *)
DispatchToolCall(w, call) ==
    LET v == [w EXCEPT !.k.pending = @ \ {call}]
        granted == call.tab \in Contexts(w.k) /\ Usable(w, call.tab)
        accessible == granted /\ call.tab \in Leased(w.k)
        refused == Answer(v, call.id)
        started == [v EXCEPT !.k.running = @ \cup {call}]
    IN  CASE call.kind = "access" -> RequestTabAccess(v, call)
          [] call.kind = "list"   -> Answer(v, call.id)
          [] call.kind = "open"   -> OpenTab(v, call)
          [] call.kind = "switch" ->
               IF accessible THEN Answer([v EXCEPT !.k.default = call.tab], call.id)
                             ELSE refused
          [] call.kind = "close"  -> IF accessible THEN started ELSE refused
          [] call.kind = "page"   -> IF granted THEN started ELSE refused

(* DispatchPendingCalls: the first of the queue until there is none.       *)
FirstPending(k) == CHOOSE x \in k.pending : \A y \in k.pending : x.id <= y.id

DispatchPendingCalls(w) ==
    LET after[n \in 0..Cardinality(w.k.pending)] ==
          IF n = 0 THEN w
          ELSE LET v == after[n - 1] IN DispatchToolCall(v, FirstPending(v.k))
    IN  after[Cardinality(w.k.pending)]

(* Mutant: the deadline stops, and a busy lease is not tried again.        *)
TryAcquireExternalLeaseOnce(w, late) ==
    LET t == w.k.default
        ready == [w EXCEPT !.k.approvalTimer = FALSE, !.k.retry = FALSE]
        need == t \in Contexts(w.k) \ Leased(w.k)
    IN  IF ~need THEN DispatchPendingCalls(ready)
        ELSE IF Usable(w, t) /\ t \in w.free
          THEN DispatchPendingCalls([ready EXCEPT !.k.context[t] = "leased"])
        ELSE IF Usable(w, t) THEN ready
        ELSE Reject(w)

(* TryAcquireExternalLease.  late: the approval deadline has passed.       *)
TryAcquireExternalLease(w, late) ==
    LET t == w.k.default
        ready == [w EXCEPT !.k.approvalTimer = FALSE, !.k.retry = FALSE]
        need == t \in Contexts(w.k) \ Leased(w.k)
    IN  IF ~need THEN DispatchPendingCalls(ready)
        ELSE IF Usable(w, t) /\ t \in w.free
          THEN DispatchPendingCalls([ready EXCEPT !.k.context[t] = "leased"])
        ELSE IF Usable(w, t) /\ ~late THEN [w EXCEPT !.k.retry = TRUE]
        ELSE Reject(w)

(* OnApprovalResult: the page must still be the one the prompt showed.     *)
OnApprovalResult(w, allowed, late) ==
    LET v == [w EXCEPT !.k.prompt = FALSE]
    IN  IF ~allowed \/ (w.k.initial # NoPage /\ ~Current(w, w.k.initial))
          THEN Reject(v)
          ELSE TryAcquireExternalLease([v EXCEPT !.k.approval = "Allowed"], late)
-----------------------------------------------------------------------------
(* tools/call, its refusals first.  The target of a page tool or close_tab *)
(* that names no tab is the default one.                                   *)
Target(k, call) ==
    IF call.kind \in {"page", "close"} /\ call.tab = NoTab THEN k.default ELSE call.tab

(* PrepareApprovalSession, RequestApproval: the first call of a connection *)
(* asks the user, for the named tab or for the window.                     *)
RequestApproval(w, t) ==
    LET k == [w.k EXCEPT !.approval = "Pending", !.approvalTimer = TRUE,
                         !.canCreate = (t = NoTab), !.default = t]
        v == [w EXCEPT !.k = IF t = NoTab THEN k
                             ELSE [k EXCEPT !.context[t] = "granted",
                                            !.initial = [tab |-> t, doc |-> w.tab[t].doc]]]
    IN  IF w.auto THEN OnApprovalResult(v, TRUE, FALSE)
                  ELSE [v EXCEPT !.k.prompt = TRUE]

HandleToolsCall(w0, call) ==
    LET w == [w0 EXCEPT !.k.seen = @ \cup {call.id}]
        refused == [w EXCEPT !.k = Send(@, {call.id})]
        first == w.k.approval = "NotRequested"
        v == IF first THEN RequestApproval(w, call.tab) ELSE w
        target == Target(v.k, call)
        queued == [v EXCEPT !.k.pending = @ \cup {[call EXCEPT !.tab = target]},
                            !.k.active = @ \cup {call.id}]
        waits == v.k.approval # "Allowed"
                   \/ v.k.default \in Contexts(v.k) \ Leased(v.k)
    IN  IF \/ Cardinality(w.k.active) >= MaxCalls
           \/ first /\ call.tab = NoTab /\ ~WindowScoped(call)
           \/ first /\ call.tab # NoTab /\ (call.tab \notin Tabs \/ ~Usable(w, call.tab))
          THEN refused
        ELSE IF v.k.phase # "open" THEN v
        ELSE IF ~WindowScoped(call) /\ target \notin Contexts(v.k)
          THEN [v EXCEPT !.k = Send(@, {call.id})]
        ELSE IF waits THEN queued ELSE DispatchPendingCalls(queued)

(* tools/cancel of an active call: it is answered in every one of its      *)
(* stages.                                                                 *)
HandleToolsCancel(k, id) ==
    IF k.pageReq = id THEN CancelTabAccess(k)
    ELSE Complete([k EXCEPT !.pending = {x \in @ : x.id # id},
                            !.running = {x \in @ : x.id # id}], {id})

(* Mutant: only the queued calls go with the grant.                        *)
OnTargetInvalidatedKeepingRunning(k, t) ==
    LET lost == {x \in k.pending : ~WindowScoped(x) /\ x.tab = t}
    IN  Complete([k EXCEPT !.context[t] = "none",
                           !.default = IF @ = t THEN NoTab ELSE @,
                           !.pending = @ \ lost], Ids(lost))

(* OnTargetInvalidated: the grant goes, with the calls on it.              *)
OnTargetInvalidated(k, t) ==
    LET lost == {x \in k.pending \cup k.running : ~WindowScoped(x) /\ x.tab = t}
    IN  Complete([k EXCEPT !.context[t] = "none",
                           !.default = IF @ = t THEN NoTab ELSE @,
                           !.pending = @ \ lost, !.running = @ \ lost], Ids(lost))

(* Mutant: the open picker keeps the revoked page.                         *)
RevokeTabOnly(k, t) ==
    OnTargetInvalidated(
        [k EXCEPT !.revoked = IF k.pageReq = NoReq THEN {} ELSE @ \cup {t}], t)

(* RevokeTab: a picker must not restore the revoked page.                  *)
RevokeTab(k, t) ==
    LET v == [k EXCEPT !.candidates = {p \in @ : p.tab # t},
                       !.revoked = IF k.pageReq = NoReq THEN {} ELSE @ \cup {t}]
        emptied == v.candidates = {} /\ k.candidates # {}
    IN  OnTargetInvalidated(IF emptied THEN CancelTabAccess(v) ELSE v, t)

-----------------------------------------------------------------------------
Init ==
    /\ conn = [c \in Conns |-> Fresh]
    /\ tab = [t \in Tabs |-> [state |-> IF t \in Opened THEN "ok" ELSE "absent",
                              doc |-> 0]]
    /\ yolo = FALSE
    /\ agent = [lease |-> NoTab, drives |-> NoTab]

Open(c) == conn[c].phase = "open"
World(c, active) == WorldOf(c, conn, tab, yolo, active)

(* Handlers that touch only the record of c, and those that see the tabs.  *)
Becomes(c, k) == conn' = [conn EXCEPT ![c] = k] /\ UNCHANGED <<tab, yolo, agent>>
Yields(c, w)  ==
    conn' = [conn EXCEPT ![c] = w.k] /\ tab' = w.tab /\ UNCHANGED <<yolo, agent>>

(* OnTransportAccepted *)
Accept(c) ==
    /\ conn[c].phase = "none"
    /\ Becomes(c, [Fresh EXCEPT !.phase = "open"])

Busy(k) == k.approval = "Pending" \/ k.active # {}

Admitted(c) == {d \in Conns \ {c} : Open(d) /\ conn[d].hello}

(* Mutant: a client with queued or running calls can be evicted.           *)
VictimsEvenBusy(c) == Admitted(c)

(* MakeRoomForConnection ranks the idle connections: never approved first, *)
(* then by last activity, whose order is left open here.                   *)
Victims(c) ==
    LET idle == {d \in Admitted(c) : ~Busy(conn[d])}
        cheap == {d \in idle : conn[d].approval # "Allowed"}
    IN  IF cheap # {} THEN cheap ELSE idle

(* Mutant: the connections are not counted.                                *)
HandleHelloUncounted(c) ==
    /\ Open(c) /\ ~conn[c].hello
    /\ Becomes(c, [conn[c] EXCEPT !.hello = TRUE])

(* A first hello with the right nonce, which may close an idle connection. *)
HandleHello(c) ==
    /\ Open(c) /\ ~conn[c].hello
    /\ LET admit == [conn[c] EXCEPT !.hello = TRUE]
       IN  IF Cardinality(Admitted(c)) < MaxConnections
             THEN conn' = [conn EXCEPT ![c] = admit]
             ELSE \/ /\ Victims(c) = {}
                     /\ conn' = [conn EXCEPT ![c].phase = "closing"]
                  \/ \E d \in Victims(c) :
                       conn' = [conn EXCEPT ![c] = admit,
                                            ![d] = RejectConnection(@)]
    /\ UNCHANGED <<tab, yolo, agent>>

(* A wrong nonce, another first request, a second hello, or the hello      *)
(* timeout: the socket closes after the error is written.  Nothing else of *)
(* the connection is reset until the transport reports the close.          *)
BadHello(c) ==
    /\ Open(c)
    /\ Becomes(c, [conn[c] EXCEPT !.phase = "closing"])

(* OnConnectionClosed: ResetConnectionState, then the record is erased.    *)
OnConnectionClosed(c) ==
    /\ conn[c].phase \in {"open", "closing"}
    /\ Becomes(c, [Fresh EXCEPT !.phase = "gone", !.seen = conn[c].seen,
                                !.sent = conn[c].sent])

(* A client numbers its calls and names one of the tabs, or none; list and *)
(* open take no tab.                                                       *)
ToolsCall(c) ==
    /\ Open(c) /\ conn[c].hello
    /\ \E call \in Calls, active \in Tabs :
         /\ call.id \notin conn[c].seen
         /\ call.kind \in {"list", "open"} => call.tab = NoTab
         /\ call.kind = "switch" => call.tab # NoTab
         /\ Yields(c, HandleToolsCall(World(c, active), call))

ToolsCancel(c) ==
    /\ Open(c)
    /\ \E id \in conn[c].active : Becomes(c, HandleToolsCancel(conn[c], id))

(* The answer of the approval dialog; a closing connection ignores it.     *)
UserDecides(c) ==
    /\ conn[c].prompt
    /\ IF Open(c) /\ conn[c].approval = "Pending"
         THEN \E allowed \in BOOLEAN, late \in BOOLEAN, active \in Tabs :
                Yields(c, OnApprovalResult(World(c, active), allowed, late))
         ELSE Becomes(c, [conn[c] EXCEPT !.prompt = FALSE])

(* The answer of the page picker, any page it listed or none.              *)
UserPicksPage(c) ==
    /\ conn[c].pagePrompt
    /\ IF Open(c) /\ conn[c].approval = "Allowed"
         THEN \E t \in Tabs \cup {NoTab}, active \in Tabs :
                /\ conn[c].pageTab # NoTab => t \in {conn[c].pageTab, NoTab}
                /\ Yields(c, OnTabAccessResult(World(c, active), t))
         ELSE Becomes(c, [conn[c] EXCEPT !.pagePrompt = FALSE])

(* approval_timer: it guards the prompt, and then the wait for the lease.  *)
OnApprovalTimeout(c) ==
    /\ conn[c].approvalTimer
    /\ LET k == [conn[c] EXCEPT !.approvalTimer = FALSE]
           unleased == k.default \in Contexts(k) \ Leased(k)
       IN  Becomes(c, IF k.approval = "Pending" \/ (k.approval = "Allowed" /\ unleased)
                        THEN RejectConnection(k) ELSE k)

(* page_approval_timer *)
OnPageTimeout(c) ==
    /\ conn[c].pagePrompt /\ conn[c].pageReq # NoReq
    /\ Becomes(c, CancelTabAccess(conn[c]))

(* lease_retry_timer *)
RetryLease(c) ==
    /\ conn[c].retry
    /\ LET k == [conn[c] EXCEPT !.retry = FALSE]
       IN  IF Open(c) /\ k.approval = "Allowed"
             THEN \E late \in BOOLEAN, active \in Tabs :
                    Yields(c, TryAcquireExternalLease(
                                  [World(c, active) EXCEPT !.k = k], late))
             ELSE Becomes(c, k)

(* An executor finishes, or its deadline does; close_tab closes its tab.   *)
CompleteCall(c) ==
    \E call \in conn[c].running :
        /\ LET k == [conn[c] EXCEPT !.running = @ \ {call}]
           IN  conn' = [conn EXCEPT ![c] = Complete(k, {call.id})]
        /\ tab' = IF call.kind = "close" /\ Usable([tab |-> tab], call.tab)
                    THEN [tab EXCEPT ![call.tab].state = "gone"] ELSE tab
        /\ UNCHANGED <<yolo, agent>>

(* StopControl, OnWindowInvalidated *)
StopControl(c) ==
    /\ conn[c].phase \in {"open", "closing"} /\ conn[c].hello
    /\ Becomes(c, RejectConnection(conn[c]))

UserRevokesTab(c) ==
    /\ Open(c)
    /\ \E t \in Contexts(conn[c]) : Becomes(c, RevokeTab(conn[c], t))

(* The lifecycle monitor's posted Revalidate finds the tab gone or         *)
(* forbidden.                                                              *)
TargetInvalidated(c) ==
    /\ Open(c)
    /\ \E t \in Contexts(conn[c]) :
         /\ tab[t].state # "ok"
         /\ Becomes(c, OnTargetInvalidated(conn[c], t))

(* SetPageYoloModeEnabled: switching it on answers every open prompt, one  *)
(* connection after the other.                                             *)
AutoAnswer(w) ==
    LET v == IF w.k.approval = "Pending" THEN OnApprovalResult(w, TRUE, FALSE) ELSE w
    IN  IF v.k.phase = "open" /\ v.k.pageReq # NoReq THEN AutoApproveTabAccess(v) ELSE v

Asking == {c \in Conns : conn[c].approval = "Pending" \/ conn[c].pageReq # NoReq}

AnswerNext(acc, active) ==
    LET c == Min(acc.todo)
        w == AutoAnswer(WorldOf(c, acc.conn, acc.tab, TRUE, active))
        rest == [acc EXCEPT !.todo = @ \ {c}]
    IN  IF acc.conn[c].phase # "open" THEN rest
        ELSE [rest EXCEPT !.conn[c] = w.k, !.tab = w.tab]

AnswerAll(active) ==
    LET after[n \in 0..Cardinality(Asking)] ==
          IF n = 0 THEN [todo |-> Asking, conn |-> conn, tab |-> tab]
          ELSE LET acc == after[n - 1] IN AnswerNext(acc, active)
    IN  after[Cardinality(Asking)]

SetPageYoloModeEnabled(enabled) ==
    /\ yolo' = enabled
    /\ IF enabled
         THEN \E active \in Tabs :
                LET done == AnswerAll(active) IN conn' = done.conn /\ tab' = done.tab
         ELSE UNCHANGED <<conn, tab>>
    /\ UNCHANGED agent
-----------------------------------------------------------------------------
(* The user and the other agent.                                           *)
Navigate(t) ==
    /\ tab[t].state \in {"ok", "forbidden"} /\ tab[t].doc < MaxDoc
    /\ \E s \in {"ok", "forbidden"} :
         tab' = [tab EXCEPT ![t] = [state |-> s, doc |-> @.doc + 1]]
    /\ UNCHANGED <<conn, yolo, agent>>

CloseTab(t) ==
    /\ tab[t].state \in {"ok", "forbidden"}
    /\ tab' = [tab EXCEPT ![t].state = "gone"]
    /\ UNCHANGED <<conn, yolo, agent>>

(* BeginAgentTurn leases the active tab.                                   *)
BeginAgentTurn(t) ==
    /\ agent.lease = NoTab /\ tab[t].state = "ok"
    /\ \A c \in Conns : t \notin Leased(conn[c])
    /\ agent' = [lease |-> t, drives |-> t]
    /\ UNCHANGED <<conn, tab, yolo>>

(* Dao Agent's own switch_tab: SetTarget and no lease.                     *)
AgentSwitchTab(t) ==
    /\ agent.lease # NoTab /\ tab[t].state = "ok"
    /\ agent' = [agent EXCEPT !.drives = t]
    /\ UNCHANGED <<conn, tab, yolo>>

EndAgentTurn ==
    /\ agent.lease # NoTab
    /\ agent' = [lease |-> NoTab, drives |-> NoTab]
    /\ UNCHANGED <<conn, tab, yolo>>

OfService(c) ==
    \/ OnApprovalTimeout(c) \/ OnPageTimeout(c) \/ RetryLease(c)
    \/ CompleteCall(c) \/ TargetInvalidated(c)

OfClient(c) ==
    \/ Accept(c) \/ HandleHello(c) \/ BadHello(c) \/ OnConnectionClosed(c)
    \/ ToolsCall(c) \/ ToolsCancel(c)

OfUser(c) == UserDecides(c) \/ UserPicksPage(c) \/ StopControl(c) \/ UserRevokesTab(c)

Next ==
    \/ \E c \in Conns : OfService(c) \/ OfClient(c) \/ OfUser(c)
    \/ \E enabled \in BOOLEAN : SetPageYoloModeEnabled(enabled)
    \/ \E t \in Tabs : Navigate(t) \/ CloseTab(t) \/ BeginAgentTurn(t) \/ AgentSwitchTab(t)
    \/ EndAgentTurn

(* The timers fire and the executors' deadlines end every running call.    *)
Fairness ==
    \A c \in Conns : /\ WF_vars(OnApprovalTimeout(c)) /\ WF_vars(OnPageTimeout(c))
                     /\ WF_vars(RetryLease(c)) /\ WF_vars(CompleteCall(c))

Spec == Init /\ [][Next]_vars
FairSpec == Spec /\ Fairness
-----------------------------------------------------------------------------
PhaseOK == {"none", "open", "closing", "gone"}
ApprovalState == {"NotRequested", "Pending", "Allowed", "Denied"}

(* Every record keeps the shape of its declarations in DaoMcpService.      *)
TypeOK ==
    /\ \A c \in Conns :
         LET k == conn[c] IN
         /\ DOMAIN k = DOMAIN Fresh
         /\ k.phase \in PhaseOK /\ k.approval \in ApprovalState
         /\ {k.hello, k.canCreate, k.retry, k.approvalTimer, k.prompt, k.pagePrompt}
              \subseteq BOOLEAN
         /\ k.context \in [Tabs -> {"none", "granted", "leased"}]
         /\ k.default \in Tabs \cup {NoTab} /\ k.initial \in Pages \cup {NoPage}
         /\ k.pageReq \in Reqs \cup {NoReq} /\ k.pageTab \in Tabs \cup {NoTab}
         /\ k.candidates \subseteq Pages /\ k.pending \cup k.running \subseteq Calls
         /\ \A x \in k.pending \cup k.running : WindowScoped(x) \/ x.tab \in Tabs
         /\ k.active \cup k.seen \subseteq Reqs /\ k.sent \in [Reqs -> Nat]
    /\ tab \in [Tabs -> [state : {"absent", "ok", "forbidden", "gone"}, doc : 0..MaxDoc]]
    /\ yolo \in BOOLEAN
    /\ agent \in [lease : Tabs \cup {NoTab}, drives : Tabs \cup {NoTab}]

(* No tab is controlled by two clients, whichever of approval, retry, page *)
(* picker, auto approval or open_tab gave them the control.                *)
OneController ==
    /\ \A c, d \in Conns : c # d => Leased(conn[c]) \cap Leased(conn[d]) = {}
    /\ \A c \in Conns : agent.lease \notin Leased(conn[c])

(* The clients that lease a tab: connections, and Dao Agent.               *)
Client(c) == <<"mcp", c>>
DaoAgent  == <<"daoAgent">>

Owners(t) ==
    {Client(c) : c \in {d \in Conns : t \in Leased(conn[d])}}
      \cup (IF agent.lease = t THEN {DaoAgent} ELSE {})

Control == INSTANCE TabControl
             WITH Holders <- {{Client(c)} : c \in Conns} \cup {{DaoAgent}},
                  Nobody <- {}, ctl <- [t \in Tabs |-> Owners(t)]

(* Control of a tab is exclusive (two owners are no holder) and is never   *)
(* passed on: whichever of approval, retry, page picker, auto approval or  *)
(* open_tab gives it, it was free, and only its holder loses it.           *)
ImplementsTabControl == Control!Spec

(* A running page call or close drives only a tab its open connection was  *)
(* allowed and still leases (DispatchToolCall against OnTargetInvalidated, *)
(* RejectConnection and the closing of sockets).                           *)
DrivesOnlyLeasedTabs ==
    \A c \in Conns : Open(c) => \A x \in conn[c].running :
        conn[c].approval = "Allowed" /\ x.tab \in Leased(conn[c])

(* While a connection lives, a call is either answered, once, or still     *)
(* queued, running or at the page picker; and no call is ever answered     *)
(* twice, be it by the end of the connection or a late executor.           *)
EveryCallAccounted ==
    \A c \in Conns :
        LET k == conn[c] IN
        /\ \A r \in Reqs : k.sent[r] <= 1
        /\ Open(c) =>
             /\ k.active = Ids(k.pending) \cup Ids(k.running) \cup ({k.pageReq} \ {NoReq})
             /\ \A r \in k.seen : k.sent[r] = IF r \in k.active THEN 0 ELSE 1

(* A queue of an allowed connection is never left without the retry that   *)
(* will drain it, nor an unanswered prompt without its deadline.           *)
QueueIsWatched ==
    \A c \in Conns : Open(c) =>
        LET k == conn[c] IN
        /\ k.approval = "Allowed" /\ k.pending # {} => k.retry
        /\ k.approval = "Allowed" /\ Contexts(k) # Leased(k) => k.retry /\ k.approvalTimer
        /\ k.approval = "Pending" => k.approvalTimer
        /\ k.approval # "Allowed" => k.running = {} /\ k.pageReq = NoReq

(* Prompts outlive neither the question they ask nor the request behind    *)
(* it, so an answer is never taken for another question.                   *)
PromptsAreCurrent ==
    \A c \in Conns :
        /\ conn[c].prompt => conn[c].approval = "Pending"
        /\ conn[c].pagePrompt => conn[c].pageReq # NoReq /\ conn[c].candidates # {}

(* No more clients are admitted than kDaoMcpMaxConnections.                *)
AdmissionBound ==
    Cardinality({c \in Conns : Open(c) /\ conn[c].hello}) <= MaxConnections

(* A page revoked under an open picker does not come back through it.      *)
NoRegrantByPicker ==
    [][\A c \in Conns : \A t \in conn[c].revoked :
         conn[c].pageReq # NoReq => conn'[c].context[t] = "none"]_vars

(* Making room for a new client never costs a client that is waiting for   *)
(* the user or for a call.                                                 *)
EvictionSparesWork ==
    [][\A c, d \in Conns :
         c # d /\ ~conn[c].hello /\ conn'[c].hello /\ conn'[d] # conn[d]
           => /\ conn[d].approval # "Pending"
              /\ \A r \in conn[d].seen : conn[d].sent[r] = 1]_vars

(* When the service ends a connection, every call outstanding then is      *)
(* answered before the socket closes (RejectConnection's order).           *)
EndingAnswersCalls ==
    [][\A c \in Conns :
         Open(c) /\ conn'[c].approval = "Denied"
           => \A r \in conn[c].active : conn'[c].sent[r] = 1]_vars

(* Consent is for a page: what a dialog grants is the document it showed.  *)
ConsentIsForThePageShown ==
    [][\A c \in Conns, t \in Tabs :
         /\ conn[c].context[t] = "none" /\ conn'[c].context[t] # "none"
         /\ conn[c].pagePrompt
         => \/ [tab |-> t, doc |-> tab[t].doc] \in conn[c].candidates
            \/ tab[t].state = "absent"]_vars

(* Every call a client makes is answered, or its connection ends.          *)
CallsEnd ==
    \A c \in Conns, r \in Reqs :
        r \in conn[c].active ~> (conn[c].sent[r] = 1 \/ ~Open(c))

(* docs/mcp-server.md promises exclusive control per tab, and              *)
(* AGENT_CONTROL_BUSY to Dao Agent's tools on a tab MCP controls.          *)
AgentRespectsControl ==
    \A c \in Conns : agent.drives \notin Leased(conn[c])
=============================================================================
