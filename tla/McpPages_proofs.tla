--------------------------- MODULE McpPages_proofs ---------------------------
(***************************************************************************)
(* For any number of clients, tabs and calls: control of a tab is          *)
(* exclusive, running calls drive leased tabs only, what is granted was    *)
(* offered, every call is answered once, and no queue is left unwatched.   *)
(*                                                                         *)
(* A handler of the service works on one connection and rewrites it step   *)
(* by step.  Sound is what holds of it all along, Settled what holds       *)
(* between handlers as well, and Moves what a handler may have changed.    *)
(***************************************************************************)
EXTENDS McpPages, FiniteSetTheorems, WellFoundedInduction, NaturalsInduction, TLAPS

Shown == [state : {"absent", "ok", "forbidden", "gone"}, doc : 0..MaxDoc]
Grants == {"none", "granted", "leased"}

(* What needs a tab names one.                                             *)
Placed == {x \in Calls : WindowScoped(x) \/ x.tab \in Tabs}

Connection ==
    [phase : PhaseOK, hello : BOOLEAN, approval : ApprovalState, canCreate : BOOLEAN,
     context : [Tabs -> Grants], default : Tabs \cup {NoTab}, initial : Pages \cup {NoPage},
     pageReq : Reqs \cup {NoReq}, pageTab : Tabs \cup {NoTab}, candidates : SUBSET Pages,
     pending : SUBSET Placed, running : SUBSET Placed, active : SUBSET Reqs, retry : BOOLEAN,
     approvalTimer : BOOLEAN, prompt : BOOLEAN, pagePrompt : BOOLEAN, revoked : SUBSET Tabs,
     seen : SUBSET Reqs, sent : [Reqs -> Nat]]

Worlds == [k : Connection, tab : [Tabs -> Shown], auto : BOOLEAN, active : Tabs,
           free : SUBSET Tabs]
-----------------------------------------------------------------------------
(* A prompt has its question.                                              *)
Prompts(k) ==
    /\ k.prompt => k.approval = "Pending"
    /\ k.pagePrompt => k.pageReq # NoReq /\ k.candidates # {}

(* What was revoked under the open picker is neither granted nor offered.  *)
Revokes(k) ==
    /\ k.revoked # {} => k.pageReq # NoReq
    /\ \A t \in k.revoked : k.context[t] = "none" /\ \A p \in k.candidates : p.tab # t

(* A running call is a page tool or close_tab on a tab the client leases.  *)
Drives(k) ==
    \A x \in k.running : /\ x.kind \in {"page", "close"}
                         /\ k.approval = "Allowed" /\ x.tab \in Leased(k)

(* Each call is at one place, and answered once when it has left them all; *)
(* held are the calls the handler has in its hands.                        *)
Unique(calls) == \A x, y \in calls : x.id = y.id => x = y

Accounts(k, held) ==
    /\ Unique(k.pending \cup k.running) /\ k.pending \cap k.running = {}
    /\ k.pageReq \notin Ids(k.pending \cup k.running)
    /\ held \cap (Ids(k.pending \cup k.running) \cup {k.pageReq}) = {}
    /\ k.active \ held = Ids(k.pending) \cup Ids(k.running) \cup ({k.pageReq} \ {NoReq})
    /\ k.active \cup held \subseteq k.seen
    /\ \A r \in Reqs : k.sent[r] = IF r \in k.seen \ (k.active \cup held) THEN 1 ELSE 0

(* Between handlers: what waits has a timer, and only the default tab of a *)
(* client that has not been anywhere yet waits for its lease.              *)
Watched(k) ==
    /\ k.approval # "Denied"
    /\ k.approval = "NotRequested" => Contexts(k) = {} /\ k.pending = {}
    /\ k.approval = "Pending" => k.approvalTimer /\ Leased(k) = {}
    /\ k.approval # "Allowed" => k.running = {} /\ k.pageReq = NoReq
    /\ k.approval = "Allowed" /\ k.pending # {} => k.retry
    /\ k.approval = "Allowed" /\ Contexts(k) # Leased(k)
         => k.retry /\ k.approvalTimer /\ k.pageReq = NoReq
    /\ Contexts(k) \ Leased(k) \subseteq {k.default}

(* No call is answered twice, not even by the end of its connection.       *)
Once(k) == \A r \in Reqs : k.sent[r] <= 1

(* The tabs that do not exist yet are nobody's.                            *)
Unseen(k, ts) ==
    \A t \in Tabs : ts[t].state = "absent" => k.context[t] = "none" /\ t \notin k.revoked

Always(k, held) ==
    /\ Prompts(k) /\ Revokes(k)
    /\ k.phase = "open" => Drives(k) /\ Accounts(k, held)
    /\ k.phase # "open" => Once(k)
Resting(k) == Always(k, {}) /\ (k.phase = "open" => Watched(k))

StateInv(cs, ts) ==
    /\ cs \in [Conns -> Connection] /\ ts \in [Tabs -> Shown]
    /\ \A c \in Conns : Resting(cs[c]) /\ Unseen(cs[c], ts)
    /\ \A c, d \in Conns : c # d => Leased(cs[c]) \cap Leased(cs[d]) = {}
    /\ \A c \in Conns : agent.lease \notin Leased(cs[c])
    /\ agent.lease # NoTab => agent.lease \in Tabs /\ ts[agent.lease].state # "absent"

IInv ==
    /\ StateInv(conn, tab)
    /\ yolo \in BOOLEAN
    /\ agent \in [lease : Tabs \cup {NoTab}, drives : Tabs \cup {NoTab}]
-----------------------------------------------------------------------------
Sound(w, held) ==
    /\ w \in Worlds
    /\ Leased(w.k) \subseteq w.free
    /\ \A t \in Tabs : w.tab[t].state = "absent" => t \in w.free
    /\ Always(w.k, held) /\ Unseen(w.k, w.tab)

Settled(w) == Sound(w, {}) /\ (w.k.phase = "open" => Watched(w.k))

(* A handler may show a tab that did not exist.                            *)
TabsGrow(ts, us) ==
    \A t \in Tabs : /\ us[t].doc = ts[t].doc
                    /\ us[t].state = "absent" => ts[t].state = "absent"

(* While a picker is open, what is granted is what it offers, or a new tab; *)
(* and a connection that is rejected has had its answers.                  *)
Offered(k, ts, t) == [tab |-> t, doc |-> ts[t].doc] \in k.candidates

ConnMoves(k, ts, l) ==
    /\ l.hello => k.hello
    /\ l.hello /\ l.phase = "open" => k.phase = "open"
    /\ k.pageReq # NoReq => \A t \in Tabs :
         k.context[t] = "none" /\ l.context[t] # "none"
           => Offered(k, ts, t) \/ ts[t].state = "absent"
    /\ k.phase = "open" /\ l.approval = "Denied" => \A r \in k.active : l.sent[r] = 1

SameWindow(w, v) == v.free = w.free /\ v.auto = w.auto /\ v.active = w.active

(* A handler takes no lease away but by ending the connection.             *)
Moves(w, v) ==
    /\ SameWindow(w, v) /\ TabsGrow(w.tab, v.tab) /\ ConnMoves(w.k, w.tab, v.k)
    /\ v.k.phase = "open" => Leased(w.k) \subseteq Leased(v.k)
-----------------------------------------------------------------------------
(* What answering a call leaves alone, and what a page request keeps.      *)
Standing(k) == <<k.phase, k.hello, k.approval, k.canCreate, k.context, k.default, k.initial,
                 k.retry, k.approvalTimer, k.prompt, k.seen>>
Paging(k)   == <<k.pageReq, k.pageTab, k.candidates, k.pagePrompt, k.revoked>>
Queues(k)   == <<k.pending, k.running>>

LEMMA SendFacts ==
    ASSUME NEW k \in Connection, NEW ids
    PROVE  /\ Send(k, ids) \in Connection
           /\ Standing(Send(k, ids)) = Standing(k) /\ Paging(Send(k, ids)) = Paging(k)
           /\ Queues(Send(k, ids)) = Queues(k) /\ Send(k, ids).active = k.active
           /\ k.phase = "open" => \A r \in Reqs :
                Send(k, ids).sent[r] = IF r \in ids THEN k.sent[r] + 1 ELSE k.sent[r]
           /\ k.phase # "open" => Send(k, ids).sent = k.sent
<1>1. CASE k.phase = "open"
  <2> DEFINE sent == [r \in Reqs |-> IF r \in ids THEN k.sent[r] + 1 ELSE k.sent[r]]
  <2>1. sent \in [Reqs -> Nat]
    BY DEF Connection
  <2>2. Send(k, ids) = [k EXCEPT !.sent = sent]
    BY <1>1 DEF Send
  <2> HIDE DEF sent
  <2>3. /\ Send(k, ids) \in Connection
        /\ Standing(Send(k, ids)) = Standing(k) /\ Paging(Send(k, ids)) = Paging(k)
        /\ Queues(Send(k, ids)) = Queues(k) /\ Send(k, ids).active = k.active
        /\ Send(k, ids).sent = sent
    BY <2>1, <2>2 DEF Connection, Standing, Paging, Queues
  <2> QED
    BY <1>1, <2>3 DEF sent
<1>2. CASE k.phase # "open"
  BY <1>2 DEF Send
<1> QED
  BY <1>1, <1>2

LEMMA CompleteFacts ==
    ASSUME NEW k \in Connection, NEW ids
    PROVE  LET l == Complete(k, ids) IN
           /\ l \in Connection
           /\ Standing(l) = Standing(k) /\ Paging(l) = Paging(k) /\ Queues(l) = Queues(k)
           /\ l.active = k.active \ ids
           /\ k.phase = "open" => \A r \in Reqs :
                l.sent[r] = IF r \in ids \cap k.active THEN k.sent[r] + 1 ELSE k.sent[r]
           /\ k.phase # "open" => l.sent = k.sent
<1> DEFINE s == Send(k, ids \cap k.active)
           l == [s EXCEPT !.active = @ \ ids]
<1>1. /\ s \in Connection
      /\ Standing(s) = Standing(k) /\ Paging(s) = Paging(k)
      /\ Queues(s) = Queues(k) /\ s.active = k.active
      /\ k.phase = "open" => \A r \in Reqs :
           s.sent[r] = IF r \in ids \cap k.active THEN k.sent[r] + 1 ELSE k.sent[r]
      /\ k.phase # "open" => s.sent = k.sent
  BY SendFacts
<1>2. Complete(k, ids) = l
  BY DEF Complete
<1> HIDE DEF s
<1>3. /\ l \in Connection /\ l.active = s.active \ ids /\ l.sent = s.sent
      /\ Standing(l) = Standing(s) /\ Paging(l) = Paging(s) /\ Queues(l) = Queues(s)
  BY <1>1 DEF Connection, Standing, Paging, Queues
<1> QED
  BY <1>1, <1>2, <1>3

LEMMA PageRequestEnds ==
    ASSUME NEW k \in Connection
    PROVE  LET l == WithoutPageRequest(k) IN
           /\ l \in Connection
           /\ Standing(l) = Standing(k) /\ Queues(l) = Queues(k)
           /\ l.active = k.active /\ l.sent = k.sent
           /\ l.pageReq = NoReq /\ l.candidates = {} /\ ~l.pagePrompt /\ l.revoked = {}
  BY DEF WithoutPageRequest, Connection, Standing, Queues

(* Answering the call a handler holds settles the account of its           *)
(* connection.                                                             *)
LEMMA AnswersSettle ==
    ASSUME NEW k \in Connection, k.phase = "open", NEW ids, NEW l \in Connection,
           Accounts(k, ids), ids \subseteq k.active, l.active = k.active \ ids,
           Queues(l) = Queues(k), l.pageReq = k.pageReq, l.seen = k.seen,
           \A r \in Reqs : l.sent[r] = IF r \in ids \cap k.active THEN k.sent[r] + 1
                                        ELSE k.sent[r]
    PROVE  Accounts(l, {})
<1>1. k.sent \in [Reqs -> Nat] /\ k.active \subseteq Reqs
  BY DEF Connection
<1>2. \A r \in Reqs : l.sent[r] = IF r \in l.seen \ (l.active \cup {}) THEN 1 ELSE 0
  BY <1>1 DEF Accounts
<1>3. l.pending = k.pending /\ l.running = k.running
  BY DEF Queues
<1> QED
  BY <1>2, <1>3 DEF Accounts

LEMMA AnswerSound ==
    ASSUME NEW w, NEW id, Sound(w, {id}), w.k.phase = "open", id \in w.k.active
    PROVE  LET v == Answer(w, id) IN
           /\ Sound(v, {})
           /\ SameWindow(w, v) /\ v.tab = w.tab
           /\ Standing(v.k) = Standing(w.k) /\ Paging(v.k) = Paging(w.k)
           /\ Queues(v.k) = Queues(w.k)
<1> DEFINE l == Complete(w.k, {id})
           v == Answer(w, id)
<1>1. w \in Worlds /\ w.k \in Connection
  BY DEF Sound, Worlds
<1>2. /\ l \in Connection
      /\ Standing(l) = Standing(w.k) /\ Paging(l) = Paging(w.k) /\ Queues(l) = Queues(w.k)
      /\ l.active = w.k.active \ {id}
      /\ \A r \in Reqs : l.sent[r] = IF r \in {id} \cap w.k.active THEN w.k.sent[r] + 1
                                       ELSE w.k.sent[r]
  BY <1>1, CompleteFacts
<1> HIDE DEF l
<1>3. /\ v \in Worlds /\ v.k = l /\ v.tab = w.tab /\ SameWindow(w, v)
  BY <1>1, <1>2 DEF Answer, Worlds, SameWindow, l
<1>4. /\ l.pageReq = w.k.pageReq /\ l.seen = w.k.seen /\ l.context = w.k.context
      /\ l.prompt = w.k.prompt /\ l.approval = w.k.approval /\ l.pagePrompt = w.k.pagePrompt
      /\ l.candidates = w.k.candidates /\ l.revoked = w.k.revoked /\ l.running = w.k.running
      /\ l.phase = w.k.phase
  BY <1>2 DEF Standing, Paging, Queues
<1>5. Accounts(l, {})
  BY <1>1, <1>2, <1>4, AnswersSettle DEF Sound, Always
<1>6. Leased(l) = Leased(w.k)
  BY <1>4 DEF Leased
<1>7. Drives(l) /\ Prompts(l) /\ Revokes(l) /\ Unseen(l, w.tab)
  BY <1>4, <1>6 DEF Sound, Always, Drives, Prompts, Revokes, Unseen
<1>8. Sound(v, {})
  BY <1>3, <1>4, <1>5, <1>6, <1>7 DEF Sound, Always, SameWindow
<1> QED
  BY <1>2, <1>3, <1>8
-----------------------------------------------------------------------------
(* A page request that ends leaves its call in the handler's hands.        *)
LEMMA PageRequestHeld ==
    ASSUME NEW k \in Connection, Accounts(k, {}), k.pageReq # NoReq
    PROVE  Accounts(WithoutPageRequest(k), {k.pageReq})
<1> DEFINE l == WithoutPageRequest(k)
<1>1. /\ Standing(l) = Standing(k) /\ Queues(l) = Queues(k)
      /\ l.active = k.active /\ l.sent = k.sent /\ l.pageReq = NoReq
  BY PageRequestEnds
<1>2. l.seen = k.seen /\ l.pending = k.pending /\ l.running = k.running
  BY <1>1 DEF Standing, Queues
<1> HIDE DEF l
<1>3. NoReq \notin Ids(l.pending \cup l.running)
  BY <1>2, PagesAssumption DEF Ids, Calls, Placed, Connection
<1>4. k.pageReq \in k.active /\ k.active \subseteq k.seen
  BY DEF Accounts
<1>5. l.active \ {k.pageReq} = Ids(l.pending) \cup Ids(l.running)
  BY <1>1, <1>2 DEF Accounts, Ids
<1>6. {k.pageReq} \cap (Ids(l.pending \cup l.running) \cup {l.pageReq}) = {}
  BY <1>1, <1>2 DEF Accounts
<1>7. Accounts(l, {k.pageReq})
  BY <1>1, <1>2, <1>3, <1>4, <1>5, <1>6 DEF Accounts
<1> QED
  BY <1>7 DEF l

LEMMA CancelFacts ==
    ASSUME NEW k \in Connection, Always(k, {})
    PROVE  LET l == CancelTabAccess(k) IN
           /\ l \in Connection /\ Always(l, {})
           /\ Standing(l) = Standing(k) /\ Queues(l) = Queues(k)
           /\ l.pageReq = NoReq /\ l.revoked = {} /\ l.candidates \subseteq k.candidates
           /\ k.phase = "open" => l.active = k.active \ {k.pageReq}
<1>1. CASE k.pageReq = NoReq
  <2>1. k.phase = "open" => k.active = k.active \ {NoReq}
    BY PagesAssumption DEF Connection
  <2> QED
    BY <1>1, <2>1 DEF CancelTabAccess, Always, Revokes
<1>2. CASE k.pageReq # NoReq
  <2> DEFINE v == WithoutPageRequest(k)
             l == Complete(v, {k.pageReq})
  <2>1. /\ v \in Connection
        /\ Standing(v) = Standing(k) /\ Queues(v) = Queues(k)
        /\ v.active = k.active /\ v.sent = k.sent
        /\ v.pageReq = NoReq /\ v.candidates = {} /\ ~v.pagePrompt /\ v.revoked = {}
    BY PageRequestEnds
  <2>2. k.phase = "open" => Accounts(v, {k.pageReq}) /\ k.pageReq \in v.active
    BY <1>2, <2>1, PageRequestHeld DEF Always, Accounts
  <2>3. CancelTabAccess(k) = l
    BY <1>2 DEF CancelTabAccess
  <2> HIDE DEF v
  <2>4. /\ l \in Connection
        /\ Standing(l) = Standing(v) /\ Paging(l) = Paging(v) /\ Queues(l) = Queues(v)
        /\ l.active = v.active \ {k.pageReq}
        /\ v.phase = "open" => \A r \in Reqs :
             l.sent[r] = IF r \in {k.pageReq} \cap v.active THEN v.sent[r] + 1 ELSE v.sent[r]
        /\ v.phase # "open" => l.sent = v.sent
    BY <2>1, CompleteFacts
  <2> HIDE DEF l
  <2>5. /\ l.pageReq = NoReq /\ l.candidates = {} /\ ~l.pagePrompt /\ l.revoked = {}
        /\ l.phase = k.phase /\ l.seen = v.seen /\ l.context = k.context /\ v.phase = k.phase
        /\ l.prompt = k.prompt /\ l.approval = k.approval /\ l.running = k.running
    BY <2>1, <2>4 DEF Paging, Standing, Queues
  <2>6. k.phase = "open" => Accounts(l, {})
    BY <2>1, <2>2, <2>4, <2>5, AnswersSettle
  <2>7. Prompts(l) /\ Revokes(l) /\ (k.phase = "open" => Drives(l))
    BY <2>5 DEF Always, Prompts, Revokes, Drives, Leased
  <2>8. k.phase # "open" => Once(l)
    BY <2>1, <2>4, <2>5 DEF Always, Once
  <2> QED
    BY <2>1, <2>3, <2>4, <2>5, <2>6, <2>7, <2>8 DEF Always
<1> QED
  BY <1>1, <1>2

LEMMA FreshIsOK == Fresh \in Connection
<1>1. NoPage \in Pages \cup {NoPage}
  OBVIOUS
<1> QED
  BY <1>1 DEF Fresh, Connection, PhaseOK, ApprovalState, Grants

(* A rejected connection has nothing left, and its calls their answers.    *)
LEMMA RejectFacts ==
    ASSUME NEW k \in Connection, Always(k, {})
    PROVE  LET l == RejectConnection(k) IN
           /\ l \in Connection /\ Always(l, {})
           /\ l.phase = "closing" /\ ~l.hello
           /\ l.context = [t \in Tabs |-> "none"] /\ l.revoked = {}
           /\ k.phase = "open" => \A r \in k.active : l.sent[r] = 1
<1> DEFINE v == CancelTabAccess(k)
           a == Complete(v, Ids(k.pending) \cup Ids(k.running))
           l == RejectConnection(k)
<1>1. /\ v \in Connection /\ Always(v, {})
      /\ Standing(v) = Standing(k) /\ Queues(v) = Queues(k)
      /\ k.phase = "open" => v.active = k.active \ {k.pageReq}
  BY CancelFacts
<1> HIDE DEF v
<1>2. /\ a \in Connection
      /\ v.phase = "open" => \A r \in Reqs :
           a.sent[r] = IF r \in (Ids(k.pending) \cup Ids(k.running)) \cap v.active
                       THEN v.sent[r] + 1 ELSE v.sent[r]
      /\ v.phase # "open" => a.sent = v.sent
  BY <1>1, CompleteFacts
<1> HIDE DEF a
<1>3. l = [Fresh EXCEPT !.phase = "closing", !.approval = "Denied",
                        !.canCreate = k.canCreate, !.initial = k.initial,
                        !.seen = k.seen, !.sent = a.sent]
  BY DEF RejectConnection, a, v
<1>4. /\ l \in Connection /\ l.sent = a.sent /\ l.phase = "closing" /\ ~l.hello
      /\ l.context = [t \in Tabs |-> "none"] /\ l.revoked = {} /\ ~l.prompt /\ ~l.pagePrompt
  <2> DEFINE f == [Fresh EXCEPT !.phase = "closing", !.approval = "Denied",
                                !.canCreate = k.canCreate, !.initial = k.initial,
                                !.seen = k.seen, !.sent = a.sent]
  <2>1. f \in Connection
    <3>1. /\ k.canCreate \in BOOLEAN /\ k.initial \in Pages \cup {NoPage}
          /\ k.seen \subseteq Reqs /\ a.sent \in [Reqs -> Nat]
          /\ "closing" \in PhaseOK /\ "Denied" \in ApprovalState
      BY <1>2 DEF Connection, PhaseOK, ApprovalState
    <3> QED
      BY <3>1, FreshIsOK DEF Connection
  <2>2. /\ f.sent = a.sent /\ f.phase = "closing" /\ ~f.hello
        /\ f.context = [t \in Tabs |-> "none"] /\ f.revoked = {} /\ ~f.prompt /\ ~f.pagePrompt
    BY DEF Fresh
  <2> QED
    BY <1>3, <2>1, <2>2
<1>5. Always(l, {})
  <2>1. Once(l)
    <3>1. CASE v.phase = "open"
      <4>1. \A r \in Reqs : v.sent[r] = IF r \in v.seen \ v.active THEN 1 ELSE 0
        BY <1>1, <3>1 DEF Always, Accounts
      <4> QED
        BY <1>2, <1>4, <3>1, <4>1 DEF Once
    <3>2. CASE v.phase # "open"
      BY <1>1, <1>2, <1>4, <3>2 DEF Always, Once
    <3> QED
      BY <3>1, <3>2
  <2> QED
    BY <1>4, <2>1 DEF Always, Prompts, Revokes
<1>6. ASSUME k.phase = "open", NEW r \in k.active PROVE l.sent[r] = 1
  <2>1. v.phase = "open" /\ v.seen = k.seen /\ r \in Reqs
    BY <1>1, <1>6 DEF Standing, Connection
  <2>2. Accounts(v, {}) /\ r \in v.seen
    BY <1>1, <1>6, <2>1 DEF Always, Accounts
  <2>3. CASE r = k.pageReq
    <3>1. r \notin v.active /\ v.sent[r] = 1
      BY <1>1, <1>6, <2>1, <2>2, <2>3 DEF Accounts
    <3> QED
      BY <1>2, <1>4, <2>1, <3>1
  <2>4. CASE r # k.pageReq
    <3>1. r \in v.active /\ v.sent[r] = 0
      BY <1>1, <1>6, <2>1, <2>2, <2>4 DEF Accounts
    <3>2. r \in Ids(k.pending) \cup Ids(k.running)
      BY <1>6, <2>4 DEF Always, Accounts
    <3> QED
      BY <1>2, <1>4, <2>1, <3>1, <3>2
  <2> QED
    BY <2>3, <2>4
<1> QED
  BY <1>4, <1>5, <1>6
-----------------------------------------------------------------------------
(* What a grant leaves alone.                                              *)
Apart(k) == <<k.phase, k.hello, k.approval, k.canCreate, k.initial, k.retry, k.approvalTimer,
              k.prompt, k.seen, k.active, k.sent>>

LEMMA GrantFacts ==
    ASSUME NEW w, NEW held, NEW t \in Tabs, Sound(w, held),
           t \in Contexts(w.k) \/ t \in w.free,
           w.tab[t].state # "absent", t \notin w.k.revoked
    PROVE  LET v == Grant(w, t) IN
           /\ Sound(v, held)
           /\ SameWindow(w, v) /\ v.tab = w.tab
           /\ Apart(v.k) = Apart(w.k) /\ Paging(v.k) = Paging(w.k) /\ Queues(v.k) = Queues(w.k)
           /\ \A u \in Tabs \ {t} : v.k.context[u] = w.k.context[u]
           /\ Contexts(w.k) = Leased(w.k) => Contexts(v.k) = Leased(v.k)
           /\ Leased(w.k) \subseteq Leased(v.k)
<1> DEFINE new == [u \in Tabs |-> IF u = t /\ w.k.context[t] = "none" THEN "leased"
                                  ELSE w.k.context[u]]
           l == [w.k EXCEPT !.context = new, !.default = t]
           v == Grant(w, t)
<1>1. w \in Worlds /\ w.k \in Connection /\ w.k.context \in [Tabs -> Grants]
  BY DEF Sound, Worlds, Connection
<1>2. new \in [Tabs -> Grants] /\ t \in Tabs \cup {NoTab}
  BY <1>1 DEF Grants
<1>3. v = [w EXCEPT !.k = l]
  <2>1. [w.k.context EXCEPT ![t] = IF w.k.context[t] = "none" THEN "leased" ELSE w.k.context[t]] = new
    BY <1>1
  <2>2. Grant(w, t) = [w EXCEPT !.k = [w.k EXCEPT !.context =
           [w.k.context EXCEPT ![t] = IF w.k.context[t] = "none" THEN "leased" ELSE w.k.context[t]],
                                                  !.default = t]]
    BY <1>1 DEF Grant, Worlds, Connection
  <2> HIDE DEF new
  <2> QED
    BY <2>1, <2>2
<1> HIDE DEF new
<1>4. /\ l \in Connection /\ l.context = new
      /\ Apart(l) = Apart(w.k) /\ Paging(l) = Paging(w.k) /\ Queues(l) = Queues(w.k)
  BY <1>1, <1>2 DEF Connection, Apart, Paging, Queues
<1> HIDE DEF l
<1>5. v \in Worlds /\ v.k = l /\ v.tab = w.tab /\ SameWindow(w, v)
  BY <1>1, <1>3, <1>4 DEF Worlds, SameWindow
<1>6. /\ Leased(w.k) \subseteq Leased(l) /\ Leased(l) \subseteq Leased(w.k) \cup {t}
      /\ w.k.context[t] # "none" => l.context = w.k.context
      /\ Contexts(l) = Contexts(w.k) \cup {t}
      /\ w.k.context[t] = "none" => t \in Leased(l)
  BY <1>1, <1>4 DEF Leased, Contexts, new
<1>7. Leased(l) \subseteq w.free
  BY <1>1, <1>6 DEF Sound, Contexts, Leased
<1>8. Unseen(l, w.tab)
  BY <1>4 DEF Sound, Unseen, Paging, new
<1>9. /\ Prompts(l) /\ (l.phase = "open" => Accounts(l, held))
      /\ l.phase # "open" => Once(l)
  BY <1>4 DEF Sound, Always, Prompts, Accounts, Once, Apart, Paging, Queues
<1>10. Revokes(l)
  BY <1>4 DEF Sound, Always, Revokes, Paging, new, Connection
<1>11. l.phase = "open" => Drives(l)
  BY <1>4, <1>6 DEF Sound, Always, Drives, Apart, Queues
<1>12. Sound(v, held)
  BY <1>5, <1>7, <1>8, <1>9, <1>10, <1>11 DEF Sound, Always, SameWindow
<1>13. /\ \A u \in Tabs \ {t} : v.k.context[u] = w.k.context[u]
       /\ Contexts(w.k) = Leased(w.k) => Contexts(v.k) = Leased(v.k)
  BY <1>4, <1>5, <1>6 DEF new, Contexts, Leased
<1> QED
  BY <1>4, <1>5, <1>6, <1>12, <1>13

(* A connection whose calls may be dispatched.                             *)
Ready(w, held) ==
    /\ Sound(w, held)
    /\ w.k.phase = "open" /\ w.k.approval = "Allowed"
    /\ Contexts(w.k) = Leased(w.k)

(* The answer of the picker grants at most a page it offered.              *)
LEMMA PickerFacts ==
    ASSUME NEW w, NEW t, Ready(w, {}), w.k.pageReq # NoReq
    PROVE  LET v == OnTabAccessResult(w, t) IN
           /\ Ready(v, {})
           /\ SameWindow(w, v) /\ v.tab = w.tab /\ v.k.hello = w.k.hello
           /\ Queues(v.k) = Queues(w.k)
           /\ \A u \in Tabs : w.k.context[u] = "none" /\ v.k.context[u] # "none"
                => Offered(w.k, w.tab, u)
           /\ v.k.retry = w.k.retry /\ Leased(w.k) \subseteq Leased(v.k)
<1> DEFINE id == w.k.pageReq
           l == WithoutPageRequest(w.k)
           u == [w EXCEPT !.k = l]
<1>1. w \in Worlds /\ w.k \in Connection /\ Always(w.k, {}) /\ Accounts(w.k, {})
  BY DEF Ready, Sound, Worlds, Always
<1>2. /\ l \in Connection
      /\ Standing(l) = Standing(w.k) /\ Queues(l) = Queues(w.k)
      /\ l.active = w.k.active /\ l.sent = w.k.sent
      /\ l.pageReq = NoReq /\ l.candidates = {} /\ ~l.pagePrompt /\ l.revoked = {}
  BY <1>1, PageRequestEnds
<1>3. Accounts(l, {id}) /\ id \in l.active
  BY <1>1, <1>2, PageRequestHeld DEF Accounts
<1> HIDE DEF l
<1>4. /\ u \in Worlds /\ u.k = l /\ u.tab = w.tab /\ SameWindow(w, u)
  BY <1>1, <1>2 DEF Worlds, SameWindow
<1>5. /\ l.phase = w.k.phase /\ l.context = w.k.context /\ l.approval = w.k.approval
      /\ l.prompt = w.k.prompt /\ l.running = w.k.running /\ l.hello = w.k.hello
      /\ l.retry = w.k.retry /\ Leased(l) = Leased(w.k) /\ Contexts(l) = Contexts(w.k)
  BY <1>2 DEF Standing, Queues, Leased, Contexts
<1>6. Prompts(l) /\ Revokes(l) /\ Drives(l) /\ Unseen(l, w.tab)
  BY <1>1, <1>2, <1>5 DEF Ready, Sound, Always, Prompts, Revokes, Drives, Unseen
<1>7. Sound(u, {id})
  BY <1>3, <1>4, <1>5, <1>6 DEF Ready, Sound, Always, SameWindow
<1>8. CASE (\E p \in w.k.candidates : p.tab = t /\ Current(w, p)) /\ CanGrant(w, t)
  <2> DEFINE g == Grant(u, t)
  <2>1. PICK p \in w.k.candidates : p.tab = t /\ Current(w, p)
    BY <1>8
  <2>2. p \in Pages /\ t \in Tabs /\ p = [tab |-> t, doc |-> w.tab[t].doc]
    BY <1>1, <2>1 DEF Connection, Pages, Current
  <2>3. u.tab[t].state # "absent" /\ t \notin u.k.revoked
    BY <1>2, <1>4, <1>8 DEF CanGrant, Usable
  <2>4. t \in Contexts(u.k) \/ t \in u.free
    BY <1>4, <1>5, <1>8 DEF CanGrant, SameWindow
  <2>5. /\ Sound(g, {id})
        /\ SameWindow(u, g) /\ g.tab = u.tab
        /\ Apart(g.k) = Apart(u.k) /\ Paging(g.k) = Paging(u.k) /\ Queues(g.k) = Queues(u.k)
        /\ \A x \in Tabs \ {t} : g.k.context[x] = u.k.context[x]
        /\ Contexts(u.k) = Leased(u.k) => Contexts(g.k) = Leased(g.k)
        /\ Leased(u.k) \subseteq Leased(g.k)
    BY <1>7, <2>2, <2>3, <2>4, GrantFacts
  <2>6. OnTabAccessResult(w, t) = Answer(g, id)
    BY <1>8 DEF OnTabAccessResult, l
  <2> HIDE DEF g, u
  <2>7. g.k.phase = "open" /\ id \in g.k.active
    BY <1>3, <1>4, <1>5, <2>5 DEF Apart, Ready
  <2> DEFINE v == Answer(g, id)
  <2>8. /\ Sound(v, {})
        /\ SameWindow(g, v) /\ v.tab = g.tab
        /\ Standing(v.k) = Standing(g.k) /\ Paging(v.k) = Paging(g.k)
        /\ Queues(v.k) = Queues(g.k)
    BY <2>5, <2>7, AnswerSound
  <2> HIDE DEF v
  <2>9. /\ v.k.phase = w.k.phase /\ v.k.approval = w.k.approval /\ v.k.hello = w.k.hello
        /\ v.k.retry = w.k.retry
        /\ v.k.context = g.k.context /\ Contexts(v.k) = Leased(v.k)
        /\ Leased(w.k) \subseteq Leased(v.k)
    BY <1>4, <1>5, <2>5, <2>8 DEF Standing, Apart, Contexts, Leased, Ready
  <2>10. Offered(w.k, w.tab, t)
    BY <2>1, <2>2 DEF Offered
  <2>11. \A x \in Tabs : w.k.context[x] = "none" /\ v.k.context[x] # "none"
           => Offered(w.k, w.tab, x)
    BY <1>4, <1>5, <2>5, <2>9, <2>10
  <2>12. SameWindow(w, v) /\ v.tab = w.tab /\ Queues(v.k) = Queues(w.k)
    BY <1>2, <1>4, <2>5, <2>8 DEF SameWindow
  <2> QED
    BY <2>6, <2>8, <2>9, <2>11, <2>12 DEF Ready, v
<1>9. CASE ~((\E p \in w.k.candidates : p.tab = t /\ Current(w, p)) /\ CanGrant(w, t))
  <2>1. OnTabAccessResult(w, t) = Answer(u, id)
    BY <1>9, Zenon DEF OnTabAccessResult, l
  <2> HIDE DEF u
  <2>2. u.k.phase = "open" /\ id \in u.k.active
    BY <1>3, <1>4, <1>5 DEF Ready
  <2> DEFINE v == Answer(u, id)
  <2>3. /\ Sound(v, {})
        /\ SameWindow(u, v) /\ v.tab = u.tab
        /\ Standing(v.k) = Standing(u.k) /\ Queues(v.k) = Queues(u.k)
    BY <1>7, <2>2, AnswerSound
  <2> HIDE DEF v
  <2>4. /\ v.k.phase = w.k.phase /\ v.k.approval = w.k.approval /\ v.k.hello = w.k.hello
        /\ v.k.retry = w.k.retry /\ v.k.context = w.k.context /\ Contexts(v.k) = Leased(v.k)
        /\ Leased(v.k) = Leased(w.k)
    BY <1>4, <1>5, <2>3 DEF Standing, Contexts, Leased, Ready
  <2>5. SameWindow(w, v) /\ v.tab = w.tab /\ Queues(v.k) = Queues(w.k)
    BY <1>2, <1>4, <2>3 DEF SameWindow
  <2> QED
    BY <2>1, <2>3, <2>4, <2>5 DEF Ready, v
<1> QED
  BY <1>8, <1>9
-----------------------------------------------------------------------------
(* What dispatching calls may change: an open picker stays as it is, only  *)
(* new tabs are granted beside it, and no lease is lost.                   *)
Works(w, v) ==
    /\ SameWindow(w, v) /\ TabsGrow(w.tab, v.tab) /\ v.k.hello = w.k.hello
    /\ Leased(w.k) \subseteq Leased(v.k)
    /\ w.k.pageReq # NoReq =>
         /\ v.k.pageReq = w.k.pageReq /\ v.k.candidates = w.k.candidates
         /\ \A t \in Tabs : w.k.context[t] = "none" /\ v.k.context[t] # "none"
              => w.tab[t].state = "absent"

(* What is said below of a handler that answers the call it holds.         *)
LEMMA AnswerWorks ==
    ASSUME NEW w, NEW id, Ready(w, {id}), id \in w.k.active
    PROVE  LET v == Answer(w, id) IN
           Ready(v, {}) /\ Works(w, v) /\ v.k.pending = w.k.pending /\ v.k.context = w.k.context
           /\ v.tab = w.tab /\ Paging(v.k) = Paging(w.k)
<1> DEFINE v == Answer(w, id)
<1>1. /\ Sound(v, {})
      /\ SameWindow(w, v) /\ v.tab = w.tab
      /\ Standing(v.k) = Standing(w.k) /\ Paging(v.k) = Paging(w.k)
      /\ Queues(v.k) = Queues(w.k)
  BY AnswerSound DEF Ready
<1> HIDE DEF v
<1>2. /\ v.k.phase = w.k.phase /\ v.k.approval = w.k.approval /\ v.k.hello = w.k.hello
      /\ v.k.context = w.k.context /\ v.k.pageReq = w.k.pageReq
      /\ v.k.candidates = w.k.candidates /\ v.k.pending = w.k.pending
  BY <1>1 DEF Standing, Paging, Queues
<1>3. Ready(v, {})
  BY <1>1, <1>2 DEF Ready, Contexts, Leased
<1>4. Works(w, v)
  BY <1>1, <1>2 DEF Works, TabsGrow, Leased
<1> QED
  BY <1>1, <1>2, <1>3, <1>4 DEF v

LEMMA RequestTabAccessWorks ==
    ASSUME NEW w, NEW call \in Calls, Ready(w, {call.id}), call.id \in w.k.active
    PROVE  LET v == RequestTabAccess(w, call) IN
           Ready(v, {}) /\ Works(w, v) /\ v.k.pending = w.k.pending
<1> DEFINE wanted == IF call.tab # NoTab THEN {call.tab}
                     ELSE IF w.auto THEN {w.active} ELSE Tabs
           offered == {[tab |-> t, doc |-> w.tab[t].doc] : t \in {u \in wanted : Usable(w, u)}}
           l == [w.k EXCEPT !.pageReq = call.id, !.pageTab = call.tab, !.candidates = offered]
           asked == [w EXCEPT !.k = l]
<1>1. /\ w \in Worlds /\ w.k \in Connection /\ Accounts(w.k, {call.id})
      /\ call.id \in Reqs /\ call.id # NoReq /\ call.tab \in Tabs \cup {NoTab}
  BY PagesAssumption DEF Ready, Sound, Worlds, Always, Calls
<1>2. offered \subseteq Pages
  BY <1>1 DEF Worlds, Shown, Pages
<1>3. RequestTabAccess(w, call) =
        IF w.k.pageReq # NoReq \/ offered = {} THEN Answer(w, call.id)
        ELSE IF call.tab \in Contexts(w.k) THEN OnTabAccessResult(asked, call.tab)
        ELSE IF w.auto THEN AutoApproveTabAccess(asked)
        ELSE [asked EXCEPT !.k.pagePrompt = TRUE]
  <2> DEFINE paging == [w EXCEPT !.k.pageReq = call.id, !.k.pageTab = call.tab,
                                 !.k.candidates = offered]
  <2>1. paging = asked
    BY <1>1 DEF Worlds
  <2>2. RequestTabAccess(w, call) =
          IF w.k.pageReq # NoReq \/ offered = {} THEN Answer(w, call.id)
          ELSE IF call.tab \in Contexts(w.k) THEN OnTabAccessResult(paging, call.tab)
          ELSE IF w.auto THEN AutoApproveTabAccess(paging)
          ELSE [paging EXCEPT !.k.pagePrompt = TRUE]
    BY Zenon DEF RequestTabAccess
  <2> HIDE DEF asked, paging
  <2> QED
    BY <2>1, <2>2
<1> HIDE DEF offered, wanted
<1>4. CASE w.k.pageReq # NoReq \/ offered = {}
  BY <1>1, <1>3, <1>4, AnswerWorks
<1>5. CASE w.k.pageReq = NoReq /\ offered # {}
  <2>1. /\ l \in Connection /\ l.pageReq = call.id /\ l.candidates = offered
        /\ Standing(l) = Standing(w.k) /\ Queues(l) = Queues(w.k)
        /\ l.pagePrompt = w.k.pagePrompt /\ l.revoked = w.k.revoked
        /\ l.active = w.k.active /\ l.sent = w.k.sent
    BY <1>1, <1>2 DEF Connection, Standing, Queues
  <2> HIDE DEF l
  <2>2. /\ l.phase = w.k.phase /\ l.hello = w.k.hello /\ l.approval = w.k.approval
        /\ l.context = w.k.context /\ l.prompt = w.k.prompt /\ l.seen = w.k.seen
        /\ l.pending = w.k.pending /\ l.running = w.k.running
    BY <2>1 DEF Standing, Queues
  <2>3. Leased(l) = Leased(w.k) /\ Contexts(l) = Contexts(w.k)
    BY <2>2 DEF Leased, Contexts
  <2>4. ~w.k.pagePrompt /\ w.k.revoked = {}
    BY <1>5 DEF Ready, Sound, Always, Prompts, Revokes
  <2>5. Accounts(l, {})
    <3>1. /\ call.id \notin Ids(l.pending \cup l.running)
          /\ l.active = Ids(l.pending) \cup Ids(l.running) \cup {call.id}
      BY <1>1, <1>5, <2>1, <2>2 DEF Accounts
    <3> QED
      BY <1>1, <2>1, <2>2, <3>1 DEF Accounts
  <2>6. Prompts(l) /\ Revokes(l) /\ Drives(l) /\ Unseen(l, w.tab)
    BY <2>1, <2>2, <2>3, <2>4 DEF Ready, Sound, Always, Prompts, Revokes, Drives, Unseen
  <2>7. asked \in Worlds /\ asked.k = l /\ asked.tab = w.tab /\ SameWindow(w, asked)
    BY <1>1, <2>1 DEF Worlds, SameWindow
  <2> HIDE DEF asked
  <2>8. Ready(asked, {}) /\ asked.k.pageReq # NoReq
    BY <1>1, <2>1, <2>2, <2>3, <2>5, <2>6, <2>7 DEF Ready, Sound, Always, SameWindow
  <2>9. ASSUME NEW t
        PROVE  LET v == OnTabAccessResult(asked, t) IN
               Ready(v, {}) /\ Works(w, v) /\ v.k.pending = w.k.pending
    <3> DEFINE v == OnTabAccessResult(asked, t)
    <3>1. /\ Ready(v, {})
          /\ SameWindow(asked, v) /\ v.tab = asked.tab /\ v.k.hello = asked.k.hello
          /\ Queues(v.k) = Queues(asked.k) /\ Leased(asked.k) \subseteq Leased(v.k)
      BY <2>8, PickerFacts
    <3> HIDE DEF v
    <3>2. SameWindow(w, v) /\ TabsGrow(w.tab, v.tab)
      BY <2>7, <3>1 DEF SameWindow, TabsGrow
    <3>3. v.k.hello = w.k.hello /\ v.k.pending = w.k.pending
      BY <2>2, <2>7, <3>1 DEF Queues
    <3> QED
      BY <1>5, <2>3, <2>7, <3>1, <3>2, <3>3 DEF Works, v
  <2>10. CASE call.tab \in Contexts(w.k) \/ w.auto
    BY <1>3, <1>5, <2>9, <2>10 DEF AutoApproveTabAccess
  <2>11. CASE ~(call.tab \in Contexts(w.k) \/ w.auto)
    <3> DEFINE q == [l EXCEPT !.pagePrompt = TRUE]
               v == [asked EXCEPT !.k = q]
    <3>1. RequestTabAccess(w, call) = v
      BY <1>3, <1>5, <2>7, <2>11
    <3>2. /\ q \in Connection /\ q.pagePrompt /\ q.candidates = offered /\ q.pageReq = call.id
          /\ q.phase = l.phase /\ q.hello = l.hello /\ q.approval = l.approval
          /\ q.context = l.context /\ q.prompt = l.prompt /\ q.seen = l.seen
          /\ q.pending = l.pending /\ q.running = l.running /\ q.revoked = l.revoked
          /\ q.active = l.active /\ q.sent = l.sent
      BY <2>1 DEF Connection
    <3> HIDE DEF q
    <3>3. v \in Worlds /\ v.k = q /\ v.tab = w.tab /\ SameWindow(w, v)
      BY <2>7, <3>2 DEF Worlds, SameWindow
    <3> HIDE DEF v
    <3>4. Leased(q) = Leased(l) /\ Contexts(q) = Contexts(l)
      BY <3>2 DEF Leased, Contexts
    <3>5. Prompts(q) /\ Revokes(q) /\ Drives(q) /\ Unseen(q, w.tab) /\ Accounts(q, {})
      BY <1>1, <1>5, <2>1, <2>5, <2>6, <3>2, <3>4
      DEF Prompts, Revokes, Drives, Unseen, Accounts
    <3>6. Ready(v, {})
      BY <2>2, <2>3, <3>2, <3>3, <3>4, <3>5 DEF Ready, Sound, Always, SameWindow
    <3>7. Works(w, v) /\ v.k.pending = w.k.pending
      BY <1>5, <2>2, <2>3, <3>2, <3>3, <3>4 DEF Works, TabsGrow
    <3> QED
      BY <3>1, <3>6, <3>7
  <2> QED
    BY <2>10, <2>11
<1> QED
  BY <1>4, <1>5

LEMMA OpenTabWorks ==
    ASSUME NEW w, NEW call \in Calls, Ready(w, {call.id}), call.id \in w.k.active
    PROVE  LET v == OpenTab(w, call) IN
           Ready(v, {}) /\ Works(w, v) /\ v.k.pending = w.k.pending
<1> DEFINE unused == {t \in Tabs : w.tab[t].state = "absent"}
           new == CHOOSE t \in unused : TRUE
           id == call.id
<1>1. w \in Worlds /\ w.k \in Connection /\ w.tab \in [Tabs -> Shown]
  BY DEF Ready, Sound, Worlds
<1>2. CASE ~(w.k.canCreate /\ unused # {})
  <2>1. OpenTab(w, call) = Answer(w, id)
    BY <1>2 DEF OpenTab
  <2> QED
    BY <2>1, AnswerWorks
<1>3. CASE w.k.canCreate /\ unused # {}
  <2>1. new \in Tabs /\ w.tab[new].state = "absent"
    BY <1>3
  <2> DEFINE tabs == [t \in Tabs |-> IF t = new THEN [w.tab[t] EXCEPT !.state = "ok"] ELSE w.tab[t]]
             u == [w EXCEPT !.tab = tabs]
             g == Grant(u, new)
             v == Answer(g, id)
  <2>2. OpenTab(w, call) = v
    <3> DEFINE q == [w EXCEPT !.tab[new].state = "ok"]
    <3>1. q = u
      BY <1>1, <2>1 DEF Worlds
    <3>2. OpenTab(w, call) = Answer(Grant(q, new), id)
      BY <1>3 DEF OpenTab
    <3> HIDE DEF q, u, new
    <3> QED
      BY <3>1, <3>2
  <2> HIDE DEF new
  <2>3. /\ tabs \in [Tabs -> Shown] /\ TabsGrow(w.tab, tabs) /\ tabs[new].state = "ok"
        /\ \A t \in Tabs : tabs[t].state = "absent" => w.tab[t].state = "absent"
    BY <1>1, <2>1 DEF Shown, TabsGrow
  <2> HIDE DEF tabs
  <2>4. u \in Worlds /\ u.k = w.k /\ u.tab = tabs /\ SameWindow(w, u)
    BY <1>1, <2>3 DEF Worlds, SameWindow
  <2> HIDE DEF u
  <2>5. Ready(u, {id})
    BY <2>3, <2>4 DEF Ready, Sound, Unseen, SameWindow
  <2>6. new \in u.free /\ new \notin u.k.revoked /\ w.k.context[new] = "none"
    BY <2>1, <2>4 DEF Ready, Sound, Unseen, SameWindow
  <2>7. /\ Sound(g, {id})
        /\ SameWindow(u, g) /\ g.tab = u.tab
        /\ Apart(g.k) = Apart(u.k) /\ Paging(g.k) = Paging(u.k) /\ Queues(g.k) = Queues(u.k)
        /\ \A x \in Tabs \ {new} : g.k.context[x] = u.k.context[x]
        /\ Contexts(u.k) = Leased(u.k) => Contexts(g.k) = Leased(g.k)
        /\ Leased(u.k) \subseteq Leased(g.k)
    BY <2>1, <2>3, <2>4, <2>5, <2>6, GrantFacts DEF Ready
  <2> HIDE DEF g
  <2>8. /\ g.k.phase = w.k.phase /\ g.k.approval = w.k.approval /\ g.k.hello = w.k.hello
        /\ g.k.active = w.k.active /\ g.k.pageReq = w.k.pageReq
        /\ g.k.candidates = w.k.candidates /\ g.k.pending = w.k.pending
    BY <2>4, <2>7 DEF Apart, Paging, Queues
  <2>9. Ready(g, {id}) /\ id \in g.k.active
    BY <2>4, <2>5, <2>7, <2>8 DEF Ready
  <2>10. /\ Ready(v, {}) /\ Works(g, v) /\ v.k.pending = g.k.pending
         /\ v.k.context = g.k.context /\ v.tab = g.tab /\ Paging(v.k) = Paging(g.k)
    BY <2>9, AnswerWorks
  <2> HIDE DEF v
  <2>11. SameWindow(w, v) /\ TabsGrow(w.tab, v.tab) /\ v.k.hello = w.k.hello
    BY <2>3, <2>4, <2>7, <2>8, <2>10 DEF SameWindow, Works
  <2>12. v.k.pageReq = w.k.pageReq /\ v.k.candidates = w.k.candidates
    BY <2>8, <2>10 DEF Paging
  <2>13. \A t \in Tabs : w.k.context[t] = "none" /\ v.k.context[t] # "none"
           => w.tab[t].state = "absent"
    BY <2>1, <2>4, <2>7, <2>10
  <2> QED
    BY <2>2, <2>4, <2>7, <2>8, <2>10, <2>11, <2>12, <2>13 DEF Works
<1> QED
  BY <1>2, <1>3

(* A dispatched call leaves the queue and is answered, started or at the   *)
(* picker.                                                                 *)
LEMMA DispatchWorks ==
    ASSUME NEW w, NEW call \in w.k.pending, Ready(w, {})
    PROVE  LET v == DispatchToolCall(w, call) IN
           Ready(v, {}) /\ Works(w, v) /\ v.k.pending = w.k.pending \ {call}
<1> DEFINE id == call.id
           l == [w.k EXCEPT !.pending = @ \ {call}]
           u == [w EXCEPT !.k = l]
           granted == call.tab \in Contexts(w.k) /\ Usable(w, call.tab)
           accessible == granted /\ call.tab \in Leased(w.k)
           v == DispatchToolCall(w, call)
<1>1. /\ w \in Worlds /\ w.k \in Connection /\ Always(w.k, {}) /\ Accounts(w.k, {})
      /\ call \in Calls /\ id \in Reqs
  BY DEF Ready, Sound, Worlds, Always, Connection, Calls, Placed
<1>2. /\ l \in Connection /\ l.pending = w.k.pending \ {call}
      /\ Standing(l) = Standing(w.k) /\ Paging(l) = Paging(w.k)
      /\ l.running = w.k.running /\ l.active = w.k.active /\ l.sent = w.k.sent
  BY <1>1 DEF Connection, Standing, Paging
<1> HIDE DEF l
<1>3. /\ l.phase = w.k.phase /\ l.hello = w.k.hello /\ l.approval = w.k.approval
      /\ l.context = w.k.context /\ l.prompt = w.k.prompt /\ l.seen = w.k.seen
      /\ l.pageReq = w.k.pageReq /\ l.candidates = w.k.candidates
      /\ l.pagePrompt = w.k.pagePrompt /\ l.revoked = w.k.revoked
  BY <1>2 DEF Standing, Paging
<1>4. Leased(l) = Leased(w.k) /\ Contexts(l) = Contexts(w.k)
  BY <1>3 DEF Leased, Contexts
<1>5. /\ id \in w.k.active /\ id # w.k.pageReq /\ id # NoReq
      /\ \A x \in (w.k.pending \cup w.k.running) \ {call} : x.id # id
      /\ call \notin w.k.running
  BY <1>1, PagesAssumption DEF Accounts, Ids, Unique
<1>6. Accounts(l, {id})
  <2>1. l.pending \cup l.running \subseteq (w.k.pending \cup w.k.running) \ {call}
    BY <1>2, <1>5
  <2>2. Ids(w.k.pending) = Ids(l.pending) \cup {id} /\ Ids(w.k.running) = Ids(l.running)
    BY <1>2 DEF Ids
  <2>3. id \notin Ids(l.pending \cup l.running)
    BY <1>5, <2>1 DEF Ids
  <2>4. Unique(l.pending \cup l.running) /\ l.pending \cap l.running = {}
        /\ l.pageReq \notin Ids(l.pending \cup l.running)
    BY <1>1, <1>2, <1>3, <2>1 DEF Accounts, Unique, Ids
  <2>5. id \notin Ids(l.pending) /\ id \notin Ids(l.running)
    BY <2>3 DEF Ids
  <2>6. l.active \ {id} = Ids(l.pending) \cup Ids(l.running) \cup ({l.pageReq} \ {NoReq})
    BY <1>1, <1>2, <1>3, <1>5, <2>2, <2>5 DEF Accounts
  <2> QED
    BY <1>1, <1>2, <1>3, <1>5, <2>3, <2>4, <2>6 DEF Accounts
<1>7. u \in Worlds /\ u.k = l /\ u.tab = w.tab /\ SameWindow(w, u)
  BY <1>1, <1>2 DEF Worlds, SameWindow
<1>8. Prompts(l) /\ Revokes(l) /\ Drives(l) /\ Unseen(l, w.tab)
  BY <1>1, <1>2, <1>3, <1>4 DEF Ready, Sound, Always, Prompts, Revokes, Drives, Unseen
<1>9. Ready(u, {id}) /\ id \in u.k.active
  BY <1>2, <1>3, <1>4, <1>5, <1>6, <1>7, <1>8 DEF Ready, Sound, Always, SameWindow
<1>10. ASSUME NEW q, Ready(q, {}), Works(u, q), q.k.pending = u.k.pending, v = q
       PROVE  Ready(v, {}) /\ Works(w, v) /\ v.k.pending = w.k.pending \ {call}
  BY <1>2, <1>3, <1>4, <1>7, <1>10 DEF Works, SameWindow
<1>11. /\ call.kind = "access" => v = RequestTabAccess(u, call)
       /\ call.kind = "list" => v = Answer(u, id)
       /\ call.kind = "open" => v = OpenTab(u, call)
       /\ call.kind = "switch" => v = IF accessible THEN Answer([u EXCEPT !.k.default = call.tab], id)
                                      ELSE Answer(u, id)
       /\ call.kind = "close" => v = IF accessible THEN [u EXCEPT !.k.running = @ \cup {call}]
                                     ELSE Answer(u, id)
       /\ call.kind = "page" => v = IF granted THEN [u EXCEPT !.k.running = @ \cup {call}]
                                    ELSE Answer(u, id)
  <2> DEFINE x == [w EXCEPT !.k.pending = @ \ {call}]
  <2>1. x = u
    BY <1>1 DEF Worlds, l
  <2>2. /\ call.kind = "access" => v = RequestTabAccess(x, call)
        /\ call.kind = "list" => v = Answer(x, id)
        /\ call.kind = "open" => v = OpenTab(x, call)
        /\ call.kind = "switch" => v = IF accessible THEN Answer([x EXCEPT !.k.default = call.tab], id)
                                       ELSE Answer(x, id)
        /\ call.kind = "close" => v = IF accessible THEN [x EXCEPT !.k.running = @ \cup {call}]
                                      ELSE Answer(x, id)
        /\ call.kind = "page" => v = IF granted THEN [x EXCEPT !.k.running = @ \cup {call}]
                                     ELSE Answer(x, id)
    BY DEF DispatchToolCall
  <2> HIDE DEF x, u, v, granted, accessible
  <2> QED
    BY <2>1, <2>2
<1>a. SUFFICES Ready(v, {}) /\ Works(w, v) /\ v.k.pending = w.k.pending \ {call}
  OBVIOUS
<1> HIDE DEF u, v
<1>12. Ready(Answer(u, id), {}) /\ Works(u, Answer(u, id)) /\ Answer(u, id).k.pending = u.k.pending
  BY <1>9, AnswerWorks
<1>13. CASE call.kind = "access"
  BY <1>1, <1>9, <1>10, <1>11, <1>13, RequestTabAccessWorks
<1>14. CASE call.kind = "open"
  BY <1>1, <1>9, <1>10, <1>11, <1>14, OpenTabWorks
<1>15. CASE v = Answer(u, id)
  BY <1>10, <1>12, <1>15
<1>16. CASE call.kind = "switch" /\ accessible
  <2> DEFINE d == [l EXCEPT !.default = call.tab]
             q == [u EXCEPT !.k = d]
  <2>1. call.tab \in Tabs
    BY <1>16 DEF Contexts
  <2>2. /\ d \in Connection /\ Paging(d) = Paging(l) /\ Queues(d) = Queues(l)
        /\ Apart(d) = Apart(l) /\ d.context = l.context
    BY <1>2, <2>1 DEF Connection, Paging, Queues, Apart
  <2>3. v = Answer(q, id)
    BY <1>7, <1>11, <1>16
  <2> HIDE DEF d
  <2>4. q \in Worlds /\ q.k = d /\ q.tab = u.tab /\ SameWindow(u, q)
    BY <1>7, <2>2 DEF Worlds, SameWindow
  <2> HIDE DEF q
  <2>5. /\ d.phase = l.phase /\ d.hello = l.hello /\ d.approval = l.approval
        /\ d.prompt = l.prompt /\ d.seen = l.seen /\ d.active = l.active /\ d.sent = l.sent
        /\ d.pageReq = l.pageReq /\ d.candidates = l.candidates
        /\ d.pagePrompt = l.pagePrompt /\ d.revoked = l.revoked
        /\ d.pending = l.pending /\ d.running = l.running
        /\ Leased(d) = Leased(l) /\ Contexts(d) = Contexts(l)
    BY <2>2 DEF Paging, Queues, Apart, Leased, Contexts
  <2>a. Prompts(d) /\ Revokes(d) /\ Drives(d) /\ Unseen(d, w.tab)
    BY <1>8, <2>2, <2>5 DEF Prompts, Revokes, Drives, Unseen
  <2>b. Accounts(d, {id})
    BY <1>6, <2>5 DEF Accounts
  <2>6. Ready(q, {id}) /\ id \in q.k.active
    BY <1>7, <1>9, <2>2, <2>4, <2>5, <2>a, <2>b DEF Ready, Sound, Always, SameWindow
  <2>7. Ready(v, {}) /\ Works(q, v) /\ v.k.pending = q.k.pending
    BY <2>3, <2>6, AnswerWorks
  <2>8. Works(u, v) /\ v.k.pending = u.k.pending
    BY <1>7, <2>2, <2>4, <2>5, <2>7 DEF Works, SameWindow
  <2> QED
    BY <1>10, <2>7, <2>8
<1>17. CASE call.kind \in {"page", "close"} /\ v = [u EXCEPT !.k.running = @ \cup {call}] /\ granted
  <2> DEFINE d == [l EXCEPT !.running = @ \cup {call}]
  <2>1. /\ d \in Connection /\ Paging(d) = Paging(l) /\ Standing(d) = Standing(l)
        /\ d.pending = l.pending /\ d.running = l.running \cup {call}
        /\ d.active = l.active /\ d.sent = l.sent
    BY <1>1, <1>2 DEF Connection, Paging, Standing
  <2>2. v = [u EXCEPT !.k = d]
    BY <1>7, <1>17
  <2> HIDE DEF d
  <2>3. v \in Worlds /\ v.k = d /\ v.tab = u.tab /\ SameWindow(u, v)
    BY <1>7, <2>1, <2>2 DEF Worlds, SameWindow
  <2>4. /\ d.phase = l.phase /\ d.hello = l.hello /\ d.approval = l.approval
        /\ d.context = l.context /\ d.prompt = l.prompt /\ d.seen = l.seen
        /\ d.pageReq = l.pageReq /\ d.candidates = l.candidates
        /\ d.pagePrompt = l.pagePrompt /\ d.revoked = l.revoked
        /\ Leased(d) = Leased(l) /\ Contexts(d) = Contexts(l)
    BY <2>1 DEF Paging, Standing, Leased, Contexts
  <2>5. Drives(d)
    BY <1>3, <1>4, <1>8, <1>17, <2>1, <2>4 DEF Drives, Ready
  <2>6. Accounts(d, {})
    <3>1. d.pending \cup d.running = w.k.pending \cup w.k.running
      BY <1>2, <2>1
    <3>2. d.pending \cap d.running = {}
      BY <1>1, <1>2, <2>1 DEF Accounts
    <3>3. Ids(d.pending) \cup Ids(d.running) = Ids(w.k.pending) \cup Ids(w.k.running)
      BY <1>2, <2>1 DEF Ids
    <3>4. /\ d.active = w.k.active /\ d.sent = w.k.sent /\ d.seen = w.k.seen
          /\ d.pageReq = w.k.pageReq
      BY <1>2, <1>3, <2>1, <2>4
    <3>5. Ids(d.pending \cup d.running) = Ids(w.k.pending \cup w.k.running)
          /\ (Unique(d.pending \cup d.running) <=> Unique(w.k.pending \cup w.k.running))
      BY <3>1
    <3> QED
      BY <1>1, <3>2, <3>3, <3>4, <3>5 DEF Accounts
  <2>7. Prompts(d) /\ Revokes(d) /\ Unseen(d, w.tab)
    BY <1>8, <2>4 DEF Prompts, Revokes, Unseen
  <2>8. Ready(v, {})
    BY <1>7, <1>9, <2>3, <2>4, <2>5, <2>6, <2>7 DEF Ready, Sound, Always, SameWindow
  <2>9. Works(u, v) /\ v.k.pending = u.k.pending
    BY <1>7, <2>1, <2>3, <2>4 DEF Works, TabsGrow
  <2> QED
    BY <1>10, <2>8, <2>9
<1>18. call.kind \in Kinds
  BY <1>1 DEF Calls
<1> QED
  BY <1>11, <1>13, <1>14, <1>15, <1>16, <1>17, <1>18 DEF Kinds
-----------------------------------------------------------------------------
(* Every nonempty set of numbers has a least one, and induction.           *)
LEMMA LeastNumber ==
    ASSUME NEW S, S \subseteq Nat, S # {}
    PROVE  \E m \in S : \A s \in S : m <= s
<1> DEFINE Before == {p \in Nat \X Nat : p[1] < p[2]}
<1>1. OpToRel(<, Nat) = Before
  BY Zenon DEF OpToRel
<1> HIDE DEF Before
<1>2. IsWellFoundedOn(Before, Nat)
  BY <1>1, NatLessThanWellFounded, Zenon
<1>3. PICK m \in S : \A s \in S : ~(<<s, m>> \in Before)
  BY <1>2, WFMin
<1>4. ASSUME NEW s \in Nat, NEW n \in Nat, s < n
      PROVE  <<s, n>> \in Before
  BY <1>4, Zenon DEF Before
<1>5. \A s \in S : ~(s < m)
  BY <1>3, <1>4
<1> QED
  BY <1>5

LEMMA Counting ==
    ASSUME NEW S, 0 \in S, \A n \in Nat : n \in S => n + 1 \in S
    PROVE  Nat \subseteq S
<1> SUFFICES ASSUME Nat \ S # {} PROVE FALSE
  OBVIOUS
<1>1. PICK m \in Nat \ S : \A s \in Nat \ S : m <= s
  BY LeastNumber
<1>2. m - 1 \in Nat /\ m - 1 \in S
  BY <1>1
<1> QED
  BY <1>1, <1>2

LEMMA FirstPendingFacts ==
    ASSUME NEW k \in Connection, k.pending # {}
    PROVE  FirstPending(k) \in k.pending
<1> DEFINE ids == Ids(k.pending)
<1>1. ids \subseteq Nat /\ ids # {}
  <2>1. \A x \in k.pending : x.id \in Reqs
    BY DEF Connection, Calls, Placed
  <2> QED
    BY <2>1, PagesAssumption DEF Ids
<1>2. PICK m \in ids : \A s \in ids : m <= s
  BY <1>1, LeastNumber
<1>3. \E x \in k.pending : \A y \in k.pending : x.id <= y.id
  BY <1>2 DEF Ids
<1> QED
  BY <1>3 DEF FirstPending

LEMMA QueuesAreFinite ==
    ASSUME NEW k \in Connection, Unique(k.pending)
    PROVE  IsFiniteSet(k.pending)
<1> DEFINE f == [x \in k.pending |-> x.id]
<1>1. f \in Injection(k.pending, Reqs)
  BY DEF Injection, IsInjective, Unique, Connection, Calls, Placed
<1> QED
  BY <1>1, FS_Injection, PagesAssumption
-----------------------------------------------------------------------------
(* The loop of DispatchPendingCalls.                                       *)
LEMMA DispatchRuns ==
    ASSUME NEW w, NEW N \in Nat
    PROVE  \E f : f = [n \in 0..N |-> IF n = 0 THEN w
                                      ELSE DispatchToolCall(f[n - 1], FirstPending(f[n - 1].k))]
<1> DEFINE Step(v) == DispatchToolCall(v, FirstPending(v.k))
           Runs(f, m) == f = [n \in 0..m |-> IF n = 0 THEN w ELSE Step(f[n - 1])]
           S == {m \in Nat : \E f : Runs(f, m)}
<1> HIDE DEF Step
<1>1. 0 \in S
  <2> DEFINE f == [n \in 0..0 |-> w]
  <2>1. \A n \in 0..0 : n = 0
    OBVIOUS
  <2>2. Runs(f, 0)
    BY <2>1
  <2> QED
    BY <2>2
<1>2. ASSUME NEW m \in Nat, m \in S PROVE m + 1 \in S
  <2>1. PICK f : Runs(f, m)
    BY <1>2
  <2> DEFINE g == [n \in 0..(m + 1) |-> IF n \in 0..m THEN f[n] ELSE Step(f[m])]
  <2>2. \A n \in 0..m : f[n] = IF n = 0 THEN w ELSE Step(f[n - 1])
    BY <2>1
  <2>3. \A n \in 0..(m + 1) : g[n] = IF n = 0 THEN w ELSE Step(g[n - 1])
    BY <2>2
  <2>4. g = [n \in 0..(m + 1) |-> g[n]]
    OBVIOUS
  <2> HIDE DEF g
  <2>5. g = [n \in 0..(m + 1) |-> IF n = 0 THEN w ELSE Step(g[n - 1])]
    BY <2>3, <2>4
  <2> QED
    BY <2>5
<1> HIDE DEF S
<1>3. N \in S
  BY <1>1, <1>2, Counting
<1> QED
  BY <1>3 DEF S, Step

LEMMA DispatchAllWorks ==
    ASSUME NEW w, Ready(w, {})
    PROVE  LET v == DispatchPendingCalls(w) IN
           Ready(v, {}) /\ Works(w, v) /\ v.k.pending = {}
<1> DEFINE N == Cardinality(w.k.pending)
           Step(u) == DispatchToolCall(u, FirstPending(u.k))
           after == CHOOSE f : f = [n \in 0..N |-> IF n = 0 THEN w ELSE Step(f[n - 1])]
           Done(n, u) == /\ Ready(u, {}) /\ Works(w, u)
                         /\ IsFiniteSet(u.k.pending) /\ Cardinality(u.k.pending) = N - n
<1>1. IsFiniteSet(w.k.pending) /\ N \in Nat
  <2>1. w.k \in Connection /\ Unique(w.k.pending)
    BY DEF Ready, Sound, Worlds, Always, Accounts, Unique
  <2> QED
    BY <2>1, QueuesAreFinite, FS_CardinalityType
<1>2. DispatchPendingCalls(w) = after[N]
  BY DEF DispatchPendingCalls
<1> HIDE DEF N
<1>3. after = [n \in 0..N |-> IF n = 0 THEN w ELSE Step(after[n - 1])]
  BY <1>1, DispatchRuns
<1> HIDE DEF after
<1>4. after[0] = w /\ \A n \in 0..N : n # 0 => after[n] = Step(after[n - 1])
  BY <1>1, <1>3
<1>5. ASSUME NEW n \in Nat, n < N, NEW u, Done(n, u)
      PROVE  Done(n + 1, Step(u))
  <2> DEFINE call == FirstPending(u.k)
             v == Step(u)
  <2>1. u.k \in Connection /\ u.k.pending # {}
    <3>1. Cardinality(u.k.pending) # 0
      BY <1>1, <1>5
    <3> QED
      BY <1>5, <3>1, FS_EmptySet DEF Ready, Sound, Worlds
  <2>2. call \in u.k.pending
    BY <2>1, FirstPendingFacts
  <2>3. Ready(v, {}) /\ Works(u, v) /\ v.k.pending = u.k.pending \ {call}
    BY <1>5, <2>2, DispatchWorks
  <2> HIDE DEF call, v, Step
  <2>4. IsFiniteSet(v.k.pending) /\ Cardinality(v.k.pending) = N - (n + 1)
    BY <1>1, <1>5, <2>2, <2>3, FS_RemoveElement
  <2>5. Works(w, v)
    BY <1>5, <2>3 DEF Works, SameWindow, TabsGrow
  <2> QED
    BY <2>3, <2>4, <2>5 DEF v
<1>6. Done(0, w)
  BY <1>1 DEF Works, SameWindow, TabsGrow, N
<1> HIDE DEF Step, Done
<1> DEFINE S == {n \in Nat : n <= N => Done(n, after[n])}
<1>7. 0 \in S
  BY <1>4, <1>6
<1>8. ASSUME NEW n \in Nat, n \in S PROVE n + 1 \in S
  BY <1>1, <1>4, <1>5, <1>8
<1> HIDE DEF S
<1>9. N \in S
  BY <1>1, <1>7, <1>8, Counting
<1>10. Done(N, after[N])
  BY <1>1, <1>9 DEF S
<1>11. after[N].k.pending = {}
  BY <1>1, <1>10, FS_EmptySet DEF Done
<1> QED
  BY <1>2, <1>10, <1>11 DEF Done
-----------------------------------------------------------------------------
(* A connection the user has allowed, whose default tab may wait for its   *)
(* lease.                                                                  *)
Trying(w, held) ==
    /\ Sound(w, held)
    /\ w.k.phase = "open" /\ w.k.approval = "Allowed"
    /\ Contexts(w.k) \ Leased(w.k) \subseteq {w.k.default}
    /\ Contexts(w.k) # Leased(w.k) => w.k.approvalTimer /\ w.k.pageReq = NoReq

Body(k) == <<k.phase, k.hello, k.approval, k.default, k.prompt, k.seen, k.active, k.sent,
             k.pending, k.running>>

(* Its queue is dispatched, or it tries again later, or it is rejected.    *)
LEMMA TryCases ==
    ASSUME NEW w, NEW held, NEW late \in BOOLEAN, Trying(w, held)
    PROVE  LET v == TryAcquireExternalLease(w, late) IN
           \/ \E u : /\ v = DispatchPendingCalls(u)
                     /\ Ready(u, held)
                     /\ SameWindow(w, u) /\ u.tab = w.tab
                     /\ Body(u.k) = Body(w.k) /\ Paging(u.k) = Paging(w.k)
                     /\ Contexts(u.k) = Contexts(w.k)
           \/ /\ Trying(v, held)
              /\ v.k.retry /\ Contexts(v.k) # Leased(v.k)
              /\ SameWindow(w, v) /\ v.tab = w.tab
              /\ Body(v.k) = Body(w.k) /\ Paging(v.k) = Paging(w.k)
              /\ v.k.context = w.k.context
           \/ v = Reject(w)
<1> DEFINE t == w.k.default
           r == [w.k EXCEPT !.approvalTimer = FALSE, !.retry = FALSE]
           ready == [w EXCEPT !.k = r]
           need == t \in Contexts(w.k) \ Leased(w.k)
           v == TryAcquireExternalLease(w, late)
           Goal == \/ \E u : /\ v = DispatchPendingCalls(u)
                             /\ Ready(u, held)
                             /\ SameWindow(w, u) /\ u.tab = w.tab
                             /\ Body(u.k) = Body(w.k) /\ Paging(u.k) = Paging(w.k)
                             /\ Contexts(u.k) = Contexts(w.k)
                   \/ /\ Trying(v, held)
                      /\ v.k.retry /\ Contexts(v.k) # Leased(v.k)
                      /\ SameWindow(w, v) /\ v.tab = w.tab
                      /\ Body(v.k) = Body(w.k) /\ Paging(v.k) = Paging(w.k)
                      /\ v.k.context = w.k.context
                   \/ v = Reject(w)
<1> SUFFICES Goal
  OBVIOUS
<1>1. w \in Worlds /\ w.k \in Connection
  BY DEF Trying, Sound, Worlds
<1>2. /\ r \in Connection /\ Body(r) = Body(w.k) /\ Paging(r) = Paging(w.k)
      /\ r.context = w.k.context
  BY <1>1 DEF Connection, Body, Paging
<1>3. v = IF ~need THEN DispatchPendingCalls(ready)
          ELSE IF Usable(w, t) /\ t \in w.free
            THEN DispatchPendingCalls([ready EXCEPT !.k.context[t] = "leased"])
          ELSE IF Usable(w, t) /\ ~late THEN [w EXCEPT !.k.retry = TRUE]
          ELSE Reject(w)
  <2> DEFINE x == [w EXCEPT !.k.approvalTimer = FALSE, !.k.retry = FALSE]
  <2>1. x = ready
    BY <1>1 DEF Worlds
  <2>2. v = IF ~need THEN DispatchPendingCalls(x)
          ELSE IF Usable(w, t) /\ t \in w.free
            THEN DispatchPendingCalls([x EXCEPT !.k.context[t] = "leased"])
          ELSE IF Usable(w, t) /\ ~late THEN [w EXCEPT !.k.retry = TRUE]
          ELSE Reject(w)
    BY Zenon DEF TryAcquireExternalLease
  <2> HIDE DEF x, ready
  <2> QED
    BY <2>1, <2>2
<1> HIDE DEF r, v
(* A record that is the connection's but for its lease.                    *)
<1>4. ASSUME NEW l \in Connection, NEW u, u = [w EXCEPT !.k = l],
             Body(l) = Body(w.k), Paging(l) = Paging(w.k),
             Contexts(l) = Contexts(w.k), Leased(w.k) \subseteq Leased(l),
             Leased(l) \subseteq w.free
      PROVE  /\ Sound(u, held) /\ u.k = l /\ u.k.phase = "open" /\ u.k.approval = "Allowed"
             /\ SameWindow(w, u) /\ u.tab = w.tab
  <2>1. u \in Worlds /\ u.k = l /\ u.tab = w.tab /\ SameWindow(w, u)
    BY <1>1, <1>4 DEF Worlds, SameWindow
  <2>2. /\ l.phase = w.k.phase /\ l.approval = w.k.approval /\ l.prompt = w.k.prompt
        /\ l.seen = w.k.seen /\ l.active = w.k.active /\ l.sent = w.k.sent
        /\ l.pending = w.k.pending /\ l.running = w.k.running /\ l.pageReq = w.k.pageReq
        /\ l.candidates = w.k.candidates /\ l.pagePrompt = w.k.pagePrompt
        /\ l.revoked = w.k.revoked
    BY <1>4 DEF Body, Paging
  <2>3. \A x \in Tabs : w.k.context[x] = "none" <=> l.context[x] = "none"
    BY <1>4 DEF Contexts
  <2>4. Prompts(l) /\ Revokes(l) /\ Unseen(l, w.tab)
    BY <1>1, <2>2, <2>3 DEF Trying, Sound, Always, Prompts, Revokes, Unseen, Connection
  <2>5. Drives(l) /\ Accounts(l, held)
    <3>1. Drives(w.k) /\ Accounts(w.k, held)
      BY DEF Trying, Sound, Always
    <3>2. Drives(l)
      BY <1>4, <2>2, <3>1 DEF Drives
    <3> QED
      BY <2>2, <3>1, <3>2 DEF Accounts
  <2> QED
    BY <1>4, <2>1, <2>2, <2>4, <2>5 DEF Trying, Sound, Always, SameWindow
<1>5. CASE ~need
  <2>1. Contexts(r) = Contexts(w.k) /\ Leased(r) = Leased(w.k)
    BY <1>2 DEF Contexts, Leased
  <2>2. /\ Sound(ready, held) /\ ready.k = r /\ r.phase = "open" /\ r.approval = "Allowed"
        /\ SameWindow(w, ready) /\ ready.tab = w.tab
    BY <1>2, <1>4, <2>1 DEF Trying, Sound
  <2>3. Contexts(w.k) = Leased(w.k)
    BY <1>5 DEF Trying, Contexts, Leased
  <2> HIDE DEF ready
  <2>4. Ready(ready, held)
    BY <2>1, <2>2, <2>3 DEF Ready
  <2> QED
    BY <1>2, <1>3, <1>5, <2>1, <2>2, <2>4
<1>6. CASE need /\ Usable(w, t) /\ t \in w.free
  <2> DEFINE new == [x \in Tabs |-> IF x = t THEN "leased" ELSE w.k.context[x]]
             l == [r EXCEPT !.context = new]
             u == [w EXCEPT !.k = l]
  <2>1. new \in [Tabs -> Grants] /\ t \in Tabs
    BY <1>1, <1>6 DEF Connection, Grants, Contexts
  <2>2. [ready EXCEPT !.k.context[t] = "leased"] = u
    <3>1. [r.context EXCEPT ![t] = "leased"] = new
      BY <1>1, <1>2 DEF Connection
    <3>2. [ready EXCEPT !.k.context[t] = "leased"] =
            [w EXCEPT !.k = [r EXCEPT !.context = [r.context EXCEPT ![t] = "leased"]]]
      BY <1>1, <1>2 DEF Worlds, Connection
    <3> HIDE DEF new
    <3> QED
      BY <3>1, <3>2
  <2> HIDE DEF new
  <2>3. /\ l \in Connection /\ l.context = new
        /\ Body(l) = Body(w.k) /\ Paging(l) = Paging(w.k)
    BY <1>2, <2>1 DEF Connection, Body, Paging
  <2> HIDE DEF l
  <2>4. Contexts(l) = Contexts(w.k) /\ Leased(l) = Leased(w.k) \cup {t}
    BY <1>6, <2>1, <2>3 DEF Contexts, Leased, new
  <2>5. /\ Sound(u, held) /\ u.k = l /\ u.k.phase = "open" /\ u.k.approval = "Allowed"
        /\ SameWindow(w, u) /\ u.tab = w.tab
    BY <1>4, <1>6, <2>3, <2>4 DEF Trying, Sound
  <2>6. Contexts(l) = Leased(l)
    BY <1>6, <2>4 DEF Trying, Contexts, Leased
  <2>7. v = DispatchPendingCalls(u)
    BY <1>3, <1>6, <2>2
  <2> HIDE DEF u
  <2> QED
    BY <2>3, <2>4, <2>5, <2>6, <2>7 DEF Ready
<1>7. CASE need /\ ~(Usable(w, t) /\ t \in w.free) /\ Usable(w, t) /\ ~late
  <2> DEFINE l == [w.k EXCEPT !.retry = TRUE]
  <2>1. v = [w EXCEPT !.k = l]
    BY <1>3, <1>7
  <2>2. /\ l \in Connection /\ l.context = w.k.context /\ l.retry
        /\ l.approvalTimer = w.k.approvalTimer
        /\ Body(l) = Body(w.k) /\ Paging(l) = Paging(w.k)
    BY <1>1 DEF Connection, Body, Paging
  <2> HIDE DEF l
  <2>3. Contexts(l) = Contexts(w.k) /\ Leased(l) = Leased(w.k)
    BY <2>2 DEF Contexts, Leased
  <2>4. /\ Sound(v, held) /\ v.k = l /\ v.k.phase = "open" /\ v.k.approval = "Allowed"
        /\ SameWindow(w, v) /\ v.tab = w.tab
    BY <1>4, <2>1, <2>2, <2>3 DEF Trying, Sound
  <2>5. l.default = w.k.default /\ l.pageReq = w.k.pageReq
    BY <2>2 DEF Body, Paging
  <2>6. Trying(v, held) /\ Contexts(v.k) # Leased(v.k)
    BY <1>7, <2>2, <2>3, <2>4, <2>5 DEF Trying
  <2> QED
    BY <2>2, <2>4, <2>6
<1>8. CASE need /\ ~(Usable(w, t) /\ t \in w.free) /\ ~(Usable(w, t) /\ ~late)
  BY <1>3, <1>8
<1> QED
  BY <1>5, <1>6, <1>7, <1>8
-----------------------------------------------------------------------------
LEMMA WorksMoves ==
    ASSUME NEW w, NEW v, w.k.phase = "open", Works(w, v), v.k.approval = "Allowed"
    PROVE  Moves(w, v)
  BY DEF Works, Moves, ConnMoves

(* A dispatched queue leaves nothing to watch.                             *)
LEMMA ReadyIsSettled ==
    ASSUME NEW v, Ready(v, {}), v.k.pending = {} \/ v.k.retry
    PROVE  Settled(v)
  BY DEF Ready, Settled, Watched, Contexts, Leased

LEMMA RejectWorks ==
    ASSUME NEW w, Sound(w, {})
    PROVE  Settled(Reject(w)) /\ Moves(w, Reject(w)) /\ Reject(w).k.phase = "closing"
<1> DEFINE l == RejectConnection(w.k)
           v == Reject(w)
<1>1. w \in Worlds /\ w.k \in Connection /\ Always(w.k, {})
  BY DEF Sound, Worlds
<1>2. /\ l \in Connection /\ Always(l, {})
      /\ l.phase = "closing" /\ ~l.hello
      /\ l.context = [t \in Tabs |-> "none"] /\ l.revoked = {}
      /\ w.k.phase = "open" => \A r \in w.k.active : l.sent[r] = 1
  BY <1>1, RejectFacts
<1> HIDE DEF l
<1>3. v \in Worlds /\ v.k = l /\ v.tab = w.tab /\ SameWindow(w, v)
  BY <1>1, <1>2 DEF Worlds, SameWindow, Reject, l
<1>4. Leased(l) = {} /\ Unseen(l, w.tab)
  BY <1>2 DEF Leased, Unseen
<1>5. Settled(v)
  BY <1>2, <1>3, <1>4 DEF Settled, Sound, SameWindow
<1>6. Moves(w, v)
  BY <1>2, <1>3 DEF Moves, ConnMoves, TabsGrow
<1> QED
  BY <1>2, <1>3, <1>5, <1>6

LEMMA TryWorks ==
    ASSUME NEW w, NEW late \in BOOLEAN, Trying(w, {})
    PROVE  LET v == TryAcquireExternalLease(w, late) IN Settled(v) /\ Moves(w, v)
<1> DEFINE v == TryAcquireExternalLease(w, late)
<1>1. \/ \E u : /\ v = DispatchPendingCalls(u)
                /\ Ready(u, {})
                /\ SameWindow(w, u) /\ u.tab = w.tab
                /\ Body(u.k) = Body(w.k) /\ Paging(u.k) = Paging(w.k)
                /\ Contexts(u.k) = Contexts(w.k)
      \/ /\ Trying(v, {})
         /\ v.k.retry /\ Contexts(v.k) # Leased(v.k)
         /\ SameWindow(w, v) /\ v.tab = w.tab
         /\ Body(v.k) = Body(w.k) /\ Paging(v.k) = Paging(w.k)
         /\ v.k.context = w.k.context
      \/ v = Reject(w)
  BY TryCases
<1> SUFFICES Settled(v) /\ Moves(w, v)
  OBVIOUS
<1> HIDE DEF v
<1>2. ASSUME NEW u, v = DispatchPendingCalls(u), Ready(u, {}),
             SameWindow(w, u), u.tab = w.tab, Body(u.k) = Body(w.k), Paging(u.k) = Paging(w.k),
             Contexts(u.k) = Contexts(w.k)
      PROVE  Settled(v) /\ Moves(w, v)
  <2>1. Ready(v, {}) /\ Works(u, v) /\ v.k.pending = {}
    BY <1>2, DispatchAllWorks
  <2>2. Settled(v)
    BY <2>1, ReadyIsSettled
  <2>3. /\ u.k.phase = w.k.phase /\ u.k.hello = w.k.hello
        /\ u.k.pageReq = w.k.pageReq /\ u.k.candidates = w.k.candidates
    BY <1>2 DEF Body, Paging
  <2>4. \A t \in Tabs : w.k.context[t] = "none" => u.k.context[t] = "none"
    BY <1>2 DEF Contexts
  <2>a. Leased(w.k) \subseteq Leased(u.k)
    BY <1>2, <2>1 DEF Ready, Contexts, Leased
  <2>5. Works(w, v)
    BY <1>2, <2>1, <2>3, <2>4, <2>a DEF Works, SameWindow
  <2> QED
    BY <2>1, <2>2, <2>5, WorksMoves DEF Trying, Ready
<1>3. CASE /\ Trying(v, {})
           /\ v.k.retry /\ Contexts(v.k) # Leased(v.k)
           /\ SameWindow(w, v) /\ v.tab = w.tab
           /\ Body(v.k) = Body(w.k) /\ Paging(v.k) = Paging(w.k)
           /\ v.k.context = w.k.context
  <2>1. /\ v.k.hello = w.k.hello /\ v.k.phase = "open" /\ v.k.approval = "Allowed"
        /\ v.k.approvalTimer /\ v.k.pageReq = NoReq
    BY <1>3 DEF Body, Trying
  <2>2. Settled(v)
    BY <1>3, <2>1 DEF Trying, Settled, Watched
  <2>3. Moves(w, v)
    BY <1>3, <2>1 DEF Trying, Moves, ConnMoves, TabsGrow, Leased
  <2> QED
    BY <2>2, <2>3
<1>4. CASE v = Reject(w)
  BY <1>4, RejectWorks DEF Trying
<1> QED
  BY <1>1, <1>2, <1>3, <1>4

(* The user's answer to the approval dialog.                               *)
LEMMA ApprovalWorks ==
    ASSUME NEW w, NEW allowed \in BOOLEAN, NEW late \in BOOLEAN,
           Settled(w), w.k.phase = "open", w.k.approval = "Pending"
    PROVE  LET v == OnApprovalResult(w, allowed, late) IN Settled(v) /\ Moves(w, v)
<1> DEFINE l == [w.k EXCEPT !.prompt = FALSE]
           u == [w EXCEPT !.k = l]
           m == [l EXCEPT !.approval = "Allowed"]
           q == [w EXCEPT !.k = m]
           refused == ~allowed \/ (w.k.initial # NoPage /\ ~Current(w, w.k.initial))
           v == OnApprovalResult(w, allowed, late)
<1>1. /\ w \in Worlds /\ w.k \in Connection /\ Always(w.k, {}) /\ Watched(w.k)
      /\ Drives(w.k) /\ Accounts(w.k, {}) /\ Prompts(w.k) /\ Revokes(w.k) /\ Unseen(w.k, w.tab)
  BY DEF Settled, Sound, Worlds, Always
<1>2. v = IF refused THEN Reject(u) ELSE TryAcquireExternalLease(q, late)
  <2>1. [u EXCEPT !.k.approval = "Allowed"] = q
    BY <1>1 DEF Worlds
  <2>2. u = [w EXCEPT !.k.prompt = FALSE]
    OBVIOUS
  <2>3. v = LET x == [w EXCEPT !.k.prompt = FALSE]
            IN  IF refused THEN Reject(x)
                ELSE TryAcquireExternalLease([x EXCEPT !.k.approval = "Allowed"], late)
    BY DEF OnApprovalResult
  <2> HIDE DEF u, q, refused, v
  <2> QED
    BY <2>1, <2>2, <2>3
<1>3. /\ l \in Connection /\ ~l.prompt /\ l.context = w.k.context
      /\ Paging(l) = Paging(w.k) /\ Queues(l) = Queues(w.k)
      /\ l.phase = "open" /\ l.hello = w.k.hello /\ l.approval = "Pending"
      /\ l.default = w.k.default /\ l.seen = w.k.seen
      /\ l.active = w.k.active /\ l.sent = w.k.sent /\ l.approvalTimer = w.k.approvalTimer
  BY <1>1 DEF Connection, Paging, Queues
<1> HIDE DEF l
<1>4. /\ m \in Connection /\ ~m.prompt /\ m.context = w.k.context
      /\ Paging(m) = Paging(w.k) /\ Queues(m) = Queues(w.k)
      /\ m.phase = "open" /\ m.hello = w.k.hello /\ m.approval = "Allowed"
      /\ m.default = w.k.default /\ m.seen = w.k.seen
      /\ m.active = w.k.active /\ m.sent = w.k.sent /\ m.approvalTimer = w.k.approvalTimer
  BY <1>1, <1>3 DEF Connection, Paging, Queues, ApprovalState
<1> HIDE DEF m
(* Neither changes what is granted, queued or shown.                       *)
<1>5. ASSUME NEW n \in Connection, NEW x, x = [w EXCEPT !.k = n],
             ~n.prompt, n.context = w.k.context,
             Paging(n) = Paging(w.k), Queues(n) = Queues(w.k), n.seen = w.k.seen,
             n.active = w.k.active, n.sent = w.k.sent, n.phase = "open"
      PROVE  Sound(x, {}) /\ x.k = n /\ x.tab = w.tab /\ SameWindow(w, x)
  <2>1. x \in Worlds /\ x.k = n /\ x.tab = w.tab /\ SameWindow(w, x)
    BY <1>1, <1>5 DEF Worlds, SameWindow
  <2>2. /\ n.pending = w.k.pending /\ n.running = w.k.running /\ n.pageReq = w.k.pageReq
        /\ n.candidates = w.k.candidates /\ n.pagePrompt = w.k.pagePrompt
        /\ n.revoked = w.k.revoked
    BY <1>5 DEF Paging, Queues
  <2>3. n.running = {}
    BY <1>1, <2>2 DEF Watched
  <2>4. Prompts(n) /\ Revokes(n) /\ Drives(n) /\ Unseen(n, w.tab)
    BY <1>1, <1>5, <2>2, <2>3 DEF Prompts, Revokes, Drives, Unseen
  <2>5. Accounts(n, {})
    BY <1>1, <1>5, <2>2 DEF Accounts
  <2>6. Leased(n) = Leased(w.k)
    BY <1>5 DEF Leased
  <2> QED
    BY <1>5, <2>1, <2>4, <2>5, <2>6 DEF Settled, Sound, Always, SameWindow
<1>6. Sound(u, {}) /\ u.k = l /\ u.tab = w.tab /\ SameWindow(w, u)
  BY <1>3, <1>5
<1>7. Sound(q, {}) /\ q.k = m /\ q.tab = w.tab /\ SameWindow(w, q)
  BY <1>4, <1>5
<1> SUFFICES Settled(v) /\ Moves(w, v)
  OBVIOUS
<1> HIDE DEF u, q, v, refused
(* The connection moves as it does after the dialog is gone.               *)
<1>8. ASSUME NEW n, NEW x, x.k = n, x.tab = w.tab, SameWindow(w, x), n.context = w.k.context,
             Paging(n) = Paging(w.k), n.hello = w.k.hello, n.phase = "open",
             n.active = w.k.active, Moves(x, v)
      PROVE  Moves(w, v)
  BY <1>8 DEF Moves, ConnMoves, SameWindow, Offered, Paging, Leased
<1>9. CASE refused
  <2>1. Settled(v) /\ Moves(u, v)
    BY <1>2, <1>6, <1>9, RejectWorks
  <2> QED
    BY <1>3, <1>6, <1>8, <2>1
<1>10. CASE ~refused
  <2>1. Contexts(m) = Contexts(w.k) /\ Leased(m) = Leased(w.k) /\ m.pageReq = w.k.pageReq
    BY <1>4 DEF Contexts, Leased, Paging
  <2>2. Trying(q, {})
    BY <1>1, <1>4, <1>7, <2>1 DEF Trying, Watched
  <2>3. Settled(v) /\ Moves(q, v)
    BY <1>2, <1>10, <2>2, TryWorks
  <2> QED
    BY <1>4, <1>7, <1>8, <2>3
<1> QED
  BY <1>9, <1>10
-----------------------------------------------------------------------------
(* The first call of a connection finds it empty.                          *)
LEMMA NoDispatch ==
    ASSUME NEW w, w.k.pending = {}
    PROVE  DispatchPendingCalls(w) = w
<1> DEFINE Step(u) == DispatchToolCall(u, FirstPending(u.k))
           after == CHOOSE f : f = [n \in 0..0 |-> IF n = 0 THEN w ELSE Step(f[n - 1])]
<1>1. Cardinality(w.k.pending) = 0
  BY FS_EmptySet
<1>2. DispatchPendingCalls(w) = after[0]
  BY <1>1 DEF DispatchPendingCalls
<1>3. after = [n \in 0..0 |-> IF n = 0 THEN w ELSE Step(after[n - 1])]
  BY DispatchRuns
<1> HIDE DEF after
<1> QED
  BY <1>2, <1>3

Empty(k) == k.pending = {} /\ k.running = {} /\ k.pageReq = NoReq /\ k.approval # "Denied"

LEMMA RejectEmpty ==
    ASSUME NEW w, NEW held, Sound(w, held), Empty(w.k)
    PROVE  LET v == Reject(w) IN
           Settled(v) /\ SameWindow(w, v) /\ v.tab = w.tab /\ v.k.phase = "closing" /\ ~v.k.hello
<1> DEFINE a == Complete(w.k, Ids(w.k.pending) \cup Ids(w.k.running))
           l == RejectConnection(w.k)
           v == Reject(w)
<1>1. w \in Worlds /\ w.k \in Connection
  BY DEF Sound, Worlds
<1>2. a \in Connection /\ Once(a)
  <2>1. /\ a \in Connection
        /\ w.k.phase = "open" => \A r \in Reqs : a.sent[r] = w.k.sent[r]
        /\ w.k.phase # "open" => a.sent = w.k.sent
    BY <1>1, CompleteFacts DEF Empty, Ids
  <2>2. w.k.phase = "open" => \A r \in Reqs : w.k.sent[r] <= 1
    BY DEF Sound, Always, Accounts
  <2> QED
    BY <2>1, <2>2 DEF Sound, Always, Once
<1>3. l = [Fresh EXCEPT !.phase = "closing", !.approval = "Denied",
                        !.canCreate = w.k.canCreate, !.initial = w.k.initial,
                        !.seen = w.k.seen, !.sent = a.sent]
  BY DEF RejectConnection, CancelTabAccess, Empty
<1> HIDE DEF a, l
<1>4. /\ w.k.canCreate \in BOOLEAN /\ w.k.initial \in Pages \cup {NoPage}
      /\ w.k.seen \subseteq Reqs /\ a.sent \in [Reqs -> Nat]
      /\ "closing" \in PhaseOK /\ "Denied" \in ApprovalState
  BY <1>1, <1>2 DEF Connection, PhaseOK, ApprovalState
<1>5. l \in Connection
  BY <1>3, <1>4, FreshIsOK DEF Connection
<1>6. /\ l.phase = "closing" /\ ~l.hello
      /\ l.context = [t \in Tabs |-> "none"] /\ l.revoked = {} /\ ~l.prompt /\ ~l.pagePrompt
      /\ l.sent = a.sent
  BY <1>3 DEF Fresh
<1>7. v \in Worlds /\ v.k = l /\ v.tab = w.tab /\ SameWindow(w, v)
  BY <1>1, <1>5 DEF Worlds, SameWindow, Reject, l
<1>8. Leased(l) = {} /\ Unseen(l, w.tab) /\ Always(l, {})
  BY <1>2, <1>6 DEF Leased, Unseen, Always, Prompts, Revokes, Once
<1> QED
  BY <1>6, <1>7, <1>8 DEF Settled, Sound, SameWindow

(* What is left when the first call has asked: a rejected connection, or   *)
(* one that waits for the user, for a lease, or for nothing.               *)
Asked(w, v, held) ==
    /\ SameWindow(w, v) /\ v.tab = w.tab /\ (v.k.hello => w.k.hello)
    /\ \/ v.k.phase = "closing" /\ Settled(v)
       \/ /\ v.k.phase = "open" /\ v.k.approval # "NotRequested"
          /\ Sound(v, held) /\ Watched(v.k) /\ Empty(v.k)
          /\ v.k.active = w.k.active /\ v.k.seen = w.k.seen

LEMMA YoloApproval ==
    ASSUME NEW w, NEW held, Sound(w, held), w.k.phase = "open", w.k.approval = "Pending",
           w.k.approvalTimer, Empty(w.k), Contexts(w.k) \ Leased(w.k) \subseteq {w.k.default}
    PROVE  Asked(w, OnApprovalResult(w, TRUE, FALSE), held)
<1> DEFINE l == [w.k EXCEPT !.prompt = FALSE]
           u == [w EXCEPT !.k = l]
           m == [l EXCEPT !.approval = "Allowed"]
           q == [w EXCEPT !.k = m]
           refused == w.k.initial # NoPage /\ ~Current(w, w.k.initial)
           v == OnApprovalResult(w, TRUE, FALSE)
<1>1. /\ w \in Worlds /\ w.k \in Connection
      /\ Accounts(w.k, held) /\ Prompts(w.k) /\ Revokes(w.k) /\ Unseen(w.k, w.tab)
  BY DEF Sound, Worlds, Always
<1>2. v = IF refused THEN Reject(u) ELSE TryAcquireExternalLease(q, FALSE)
  <2>1. [u EXCEPT !.k.approval = "Allowed"] = q
    BY <1>1 DEF Worlds
  <2>2. u = [w EXCEPT !.k.prompt = FALSE]
    OBVIOUS
  <2>3. v = LET x == [w EXCEPT !.k.prompt = FALSE]
            IN  IF refused THEN Reject(x)
                ELSE TryAcquireExternalLease([x EXCEPT !.k.approval = "Allowed"], FALSE)
    BY DEF OnApprovalResult
  <2> HIDE DEF u, q, refused, v
  <2> QED
    BY <2>1, <2>2, <2>3
<1>3. /\ l \in Connection /\ ~l.prompt /\ l.context = w.k.context
      /\ Paging(l) = Paging(w.k) /\ Queues(l) = Queues(w.k)
      /\ l.phase = "open" /\ l.hello = w.k.hello /\ l.approval = "Pending"
      /\ l.default = w.k.default /\ l.seen = w.k.seen
      /\ l.active = w.k.active /\ l.sent = w.k.sent /\ l.approvalTimer = w.k.approvalTimer
  BY <1>1 DEF Connection, Paging, Queues
<1> HIDE DEF l
<1>4. /\ m \in Connection /\ ~m.prompt /\ m.context = w.k.context
      /\ Paging(m) = Paging(w.k) /\ Queues(m) = Queues(w.k)
      /\ m.phase = "open" /\ m.hello = w.k.hello /\ m.approval = "Allowed"
      /\ m.default = w.k.default /\ m.seen = w.k.seen
      /\ m.active = w.k.active /\ m.sent = w.k.sent /\ m.approvalTimer = w.k.approvalTimer
  BY <1>1, <1>3 DEF Connection, Paging, Queues, ApprovalState
<1> HIDE DEF m
<1>5. ASSUME NEW n \in Connection, NEW x, x = [w EXCEPT !.k = n],
             ~n.prompt, n.context = w.k.context,
             Paging(n) = Paging(w.k), Queues(n) = Queues(w.k), n.seen = w.k.seen,
             n.active = w.k.active, n.sent = w.k.sent, n.approval # "Denied",
             n.phase = "open"
      PROVE  Sound(x, held) /\ x.k = n /\ x.tab = w.tab /\ SameWindow(w, x) /\ Empty(n)
  <2>1. x \in Worlds /\ x.k = n /\ x.tab = w.tab /\ SameWindow(w, x)
    BY <1>1, <1>5 DEF Worlds, SameWindow
  <2>2. /\ n.pending = w.k.pending /\ n.running = w.k.running /\ n.pageReq = w.k.pageReq
        /\ n.candidates = w.k.candidates /\ n.pagePrompt = w.k.pagePrompt
        /\ n.revoked = w.k.revoked
    BY <1>5 DEF Paging, Queues
  <2>3. Empty(n)
    BY <1>5, <2>2 DEF Empty
  <2>4. Prompts(n) /\ Revokes(n) /\ Drives(n) /\ Unseen(n, w.tab)
    BY <1>1, <1>5, <2>2, <2>3 DEF Prompts, Revokes, Drives, Unseen, Empty
  <2>5. Accounts(n, held)
    BY <1>1, <1>5, <2>2 DEF Accounts
  <2>6. Leased(n) = Leased(w.k)
    BY <1>5 DEF Leased
  <2> QED
    BY <1>5, <2>1, <2>3, <2>4, <2>5, <2>6 DEF Sound, Always, SameWindow
<1>6. Sound(u, held) /\ u.k = l /\ u.tab = w.tab /\ SameWindow(w, u) /\ Empty(u.k)
  BY <1>3, <1>5
<1>7. Sound(q, held) /\ q.k = m /\ q.tab = w.tab /\ SameWindow(w, q) /\ Empty(q.k)
  BY <1>4, <1>5
<1> SUFFICES Asked(w, v, held)
  OBVIOUS
<1> HIDE DEF u, q, v, refused
<1>8. ASSUME NEW x, Sound(x, held), Empty(x.k), SameWindow(w, x), x.tab = w.tab, v = Reject(x)
      PROVE  Asked(w, v, held)
  BY <1>8, RejectEmpty DEF Asked, SameWindow
<1>9. CASE refused
  BY <1>2, <1>6, <1>8, <1>9
<1>10. CASE ~refused
  <2>1. Contexts(m) = Contexts(w.k) /\ Leased(m) = Leased(w.k) /\ m.pageReq = NoReq
    BY <1>4, <1>7 DEF Contexts, Leased, Empty
  <2>2. Trying(q, held)
    BY <1>4, <1>7, <2>1 DEF Trying
  <2>3. v = TryAcquireExternalLease(q, FALSE)
    BY <1>2, <1>10
  <2>4. \/ \E x : /\ v = DispatchPendingCalls(x)
                  /\ Ready(x, held)
                  /\ SameWindow(q, x) /\ x.tab = q.tab
                  /\ Body(x.k) = Body(q.k) /\ Paging(x.k) = Paging(q.k)
                  /\ Contexts(x.k) = Contexts(q.k)
        \/ /\ Trying(v, held)
           /\ v.k.retry /\ Contexts(v.k) # Leased(v.k)
           /\ SameWindow(q, v) /\ v.tab = q.tab
           /\ Body(v.k) = Body(q.k) /\ Paging(v.k) = Paging(q.k)
           /\ v.k.context = q.k.context
        \/ v = Reject(q)
    <3> DEFINE late == FALSE
    <3>1. late \in BOOLEAN /\ v = TryAcquireExternalLease(q, late)
      BY <2>3
    <3> HIDE DEF late
    <3> QED
      BY <2>2, <3>1, TryCases
  <2>5. ASSUME NEW x, v = DispatchPendingCalls(x), Ready(x, held),
               SameWindow(q, x), x.tab = q.tab, Body(x.k) = Body(q.k), Paging(x.k) = Paging(q.k)
        PROVE  Asked(w, v, held)
    <3>1. /\ x.k.pending = {} /\ x.k.running = {} /\ x.k.pageReq = NoReq
          /\ x.k.hello = w.k.hello /\ x.k.active = w.k.active /\ x.k.seen = w.k.seen
      BY <1>4, <1>7, <2>5 DEF Body, Paging, Empty
    <3>2. v = x
      BY <2>5, <3>1, NoDispatch
    <3>3. Watched(x.k) /\ Empty(x.k)
      BY <2>5, <3>1 DEF Ready, Watched, Empty, Contexts, Leased
    <3> QED
      BY <1>7, <2>5, <3>1, <3>2, <3>3 DEF Asked, Ready, SameWindow
  <2>6. CASE /\ Trying(v, held)
             /\ v.k.retry /\ Contexts(v.k) # Leased(v.k)
             /\ SameWindow(q, v) /\ v.tab = q.tab
             /\ Body(v.k) = Body(q.k) /\ Paging(v.k) = Paging(q.k)
             /\ v.k.context = q.k.context
    <3>1. /\ v.k.pending = {} /\ v.k.running = {} /\ v.k.pageReq = NoReq
          /\ v.k.hello = w.k.hello /\ v.k.active = w.k.active /\ v.k.seen = w.k.seen
      BY <1>4, <1>7, <2>6 DEF Body, Paging, Empty
    <3>2. Watched(v.k) /\ Empty(v.k)
      BY <2>6, <3>1 DEF Trying, Watched, Empty
    <3> QED
      BY <1>7, <2>6, <3>1, <3>2 DEF Asked, Trying, SameWindow
  <2> QED
    BY <1>7, <1>8, <2>4, <2>5, <2>6
<1> QED
  BY <1>9, <1>10

LEMMA RequestApprovalWorks ==
    ASSUME NEW w, NEW held, NEW t \in Tabs \cup {NoTab}, Sound(w, held), Watched(w.k),
           w.k.phase = "open", w.k.approval = "NotRequested",
           t # NoTab => w.tab[t].state # "absent"
    PROVE  Asked(w, RequestApproval(w, t), held)
<1> DEFINE page == IF t = NoTab THEN w.k.initial ELSE [tab |-> t, doc |-> w.tab[t].doc]
           new == [x \in Tabs |-> IF x = t THEN "granted" ELSE w.k.context[x]]
           l == [w.k EXCEPT !.approval = "Pending", !.approvalTimer = TRUE,
                            !.canCreate = (t = NoTab), !.default = t,
                            !.context = new, !.initial = page]
           u == [w EXCEPT !.k = l]
           v == RequestApproval(w, t)
<1>1. /\ w \in Worlds /\ w.k \in Connection
      /\ Accounts(w.k, held) /\ Prompts(w.k) /\ Revokes(w.k) /\ Unseen(w.k, w.tab)
  BY DEF Sound, Worlds, Always
<1>2. new \in [Tabs -> Grants] /\ page \in Pages \cup {NoPage}
  BY <1>1, PagesAssumption DEF Worlds, Shown, Connection, Grants, Pages
<1>3. u = [w EXCEPT !.k =
             IF t = NoTab
               THEN [w.k EXCEPT !.approval = "Pending", !.approvalTimer = TRUE,
                                !.canCreate = (t = NoTab), !.default = t]
               ELSE [[w.k EXCEPT !.approval = "Pending", !.approvalTimer = TRUE,
                                 !.canCreate = (t = NoTab), !.default = t]
                       EXCEPT !.context[t] = "granted",
                              !.initial = [tab |-> t, doc |-> w.tab[t].doc]]]
  <2>1. CASE t = NoTab
    <3>1. new = w.k.context
      BY <1>1, <2>1, PagesAssumption DEF Connection
    <3>2. page = w.k.initial
      BY <2>1
    <3> HIDE DEF new, page
    <3> QED
      BY <1>1, <2>1, <3>1, <3>2 DEF Connection
  <2>2. CASE t # NoTab
    <3>1. new = [w.k.context EXCEPT ![t] = "granted"]
      BY <1>1 DEF Connection
    <3>2. page = [tab |-> t, doc |-> w.tab[t].doc]
      BY <2>2
    <3> HIDE DEF new, page
    <3> QED
      BY <1>1, <2>2, <3>1, <3>2 DEF Connection
  <2> QED
    BY <2>1, <2>2
<1>4. v = IF w.auto THEN OnApprovalResult(u, TRUE, FALSE) ELSE [u EXCEPT !.k.prompt = TRUE]
  <2> DEFINE k == [w.k EXCEPT !.approval = "Pending", !.approvalTimer = TRUE,
                              !.canCreate = (t = NoTab), !.default = t]
             x == [w EXCEPT !.k = IF t = NoTab THEN k
                                  ELSE [k EXCEPT !.context[t] = "granted",
                                                 !.initial = [tab |-> t, doc |-> w.tab[t].doc]]]
  <2>1. x = u
    BY <1>3
  <2>2. v = IF w.auto THEN OnApprovalResult(x, TRUE, FALSE) ELSE [x EXCEPT !.k.prompt = TRUE]
    BY Zenon DEF RequestApproval
  <2> HIDE DEF x, u, v
  <2> QED
    BY <2>1, <2>2
<1> HIDE DEF new, page
<1>5. /\ l \in Connection /\ l.context = new /\ l.default = t /\ l.approvalTimer
      /\ Paging(l) = Paging(w.k) /\ Queues(l) = Queues(w.k)
      /\ l.phase = "open" /\ l.hello = w.k.hello /\ l.approval = "Pending"
      /\ l.seen = w.k.seen /\ l.active = w.k.active /\ l.sent = w.k.sent
  BY <1>1, <1>2 DEF Connection, Paging, Queues, ApprovalState
<1> HIDE DEF l
<1>6. /\ l.pending = w.k.pending /\ l.running = w.k.running /\ l.pageReq = w.k.pageReq
      /\ l.candidates = w.k.candidates /\ l.pagePrompt = w.k.pagePrompt
      /\ l.revoked = w.k.revoked
  BY <1>5 DEF Paging, Queues
<1>7. Empty(l)
  BY <1>5, <1>6 DEF Watched, Empty
<1>8. w.k.revoked = {} /\ ~w.k.pagePrompt
  BY <1>1 DEF Revokes, Prompts, Watched
<1>9. Contexts(w.k) = {} /\ Leased(l) = {} /\ Contexts(l) \subseteq {t}
  BY <1>5 DEF Watched, Contexts, Leased, new
<1>10. Revokes(l) /\ Drives(l) /\ Unseen(l, w.tab) /\ ~l.pagePrompt
  <2>1. \A x \in Tabs : x # t => l.context[x] = w.k.context[x]
    BY <1>5 DEF new
  <2>2. Unseen(l, w.tab)
    BY <1>1, <1>6, <1>8, <2>1, PagesAssumption DEF Unseen
  <2> QED
    BY <1>6, <1>7, <1>8, <2>2 DEF Revokes, Drives, Empty
<1>11. Accounts(l, held)
  BY <1>1, <1>5, <1>6 DEF Accounts
<1>12. u \in Worlds /\ u.k = l /\ u.tab = w.tab /\ SameWindow(w, u)
  BY <1>1, <1>5 DEF Worlds, SameWindow
<1>13. Prompts(l)
  BY <1>5, <1>10 DEF Prompts
<1>14. Sound(u, held)
  BY <1>5, <1>9, <1>10, <1>11, <1>12, <1>13 DEF Sound, Always, SameWindow
<1> SUFFICES Asked(w, v, held)
  OBVIOUS
<1> HIDE DEF u, v
<1>15. CASE w.auto
  <2>1. Asked(u, v, held)
    BY <1>4, <1>5, <1>7, <1>9, <1>12, <1>14, <1>15, YoloApproval
  <2> QED
    BY <1>5, <1>12, <2>1 DEF Asked, SameWindow
<1>16. CASE ~w.auto
  <2> DEFINE p == [l EXCEPT !.prompt = TRUE]
  <2>1. v = [u EXCEPT !.k = p]
    BY <1>4, <1>12, <1>16
  <2>2. /\ p \in Connection /\ p.context = l.context /\ p.default = l.default /\ p.approvalTimer
        /\ Paging(p) = Paging(l) /\ Queues(p) = Queues(l)
        /\ p.phase = "open" /\ p.hello = l.hello /\ p.approval = "Pending"
        /\ p.seen = l.seen /\ p.active = l.active /\ p.sent = l.sent
    BY <1>5 DEF Connection, Paging, Queues
  <2> HIDE DEF p
  <2>3. v \in Worlds /\ v.k = p /\ v.tab = u.tab /\ SameWindow(u, v)
    BY <1>12, <2>1, <2>2 DEF Worlds, SameWindow
  <2>4. /\ p.pending = l.pending /\ p.running = l.running /\ p.pageReq = l.pageReq
        /\ p.candidates = l.candidates /\ p.pagePrompt = l.pagePrompt
        /\ p.revoked = l.revoked /\ Leased(p) = Leased(l) /\ Contexts(p) = Contexts(l)
    BY <2>2 DEF Paging, Queues, Leased, Contexts
  <2>5. Prompts(p) /\ Revokes(p) /\ Drives(p) /\ Unseen(p, w.tab) /\ Empty(p)
    BY <1>7, <1>10, <2>2, <2>4 DEF Prompts, Revokes, Drives, Unseen, Empty
  <2>6. Accounts(p, held)
    BY <1>11, <2>2, <2>4 DEF Accounts
  <2>7. Sound(v, held)
    BY <1>12, <1>14, <2>2, <2>3, <2>4, <2>5, <2>6 DEF Sound, Always, SameWindow
  <2>8. Watched(p)
    BY <1>5, <1>9, <2>2, <2>4, <2>5 DEF Watched, Empty
  <2> QED
    BY <1>5, <1>12, <2>2, <2>3, <2>5, <2>7, <2>8 DEF Asked, SameWindow
<1> QED
  BY <1>15, <1>16
-----------------------------------------------------------------------------
(* A call that was not refused: it is answered, queued or dispatched.      *)
Admit(v, call) ==
    LET target == Target(v.k, call)
        queued == [v EXCEPT !.k.pending = @ \cup {[call EXCEPT !.tab = target]},
                            !.k.active = @ \cup {call.id}]
        waits == v.k.approval # "Allowed"
                   \/ v.k.default \in Contexts(v.k) \ Leased(v.k)
    IN  IF ~WindowScoped(call) /\ target \notin Contexts(v.k)
          THEN [v EXCEPT !.k = Send(@, {call.id})]
        ELSE IF waits THEN queued ELSE DispatchPendingCalls(queued)

LEMMA SendErrorWorks ==
    ASSUME NEW w, NEW id \in Reqs, Sound(w, {id}), w.k.phase = "open", Watched(w.k),
           id \in w.k.seen, id \notin w.k.active
    PROVE  LET v == [w EXCEPT !.k = Send(@, {id})] IN
           Settled(v) /\ Works(w, v) /\ v.k.approval = w.k.approval /\ v.k.active = w.k.active
<1> DEFINE l == Send(w.k, {id})
           v == [w EXCEPT !.k = l]
<1>1. /\ w \in Worlds /\ w.k \in Connection /\ Drives(w.k)
      /\ Accounts(w.k, {id}) /\ Prompts(w.k) /\ Revokes(w.k) /\ Unseen(w.k, w.tab)
  BY DEF Sound, Worlds, Always
<1>2. /\ l \in Connection
      /\ Standing(l) = Standing(w.k) /\ Paging(l) = Paging(w.k)
      /\ Queues(l) = Queues(w.k) /\ l.active = w.k.active
      /\ \A r \in Reqs : l.sent[r] = IF r \in {id} THEN w.k.sent[r] + 1 ELSE w.k.sent[r]
  BY <1>1, SendFacts
<1> HIDE DEF l
<1>3. v \in Worlds /\ v.k = l /\ v.tab = w.tab /\ SameWindow(w, v)
  BY <1>1, <1>2 DEF Worlds, SameWindow
<1>4. /\ l.phase = "open" /\ l.hello = w.k.hello /\ l.approval = w.k.approval
      /\ l.context = w.k.context /\ l.default = w.k.default /\ l.retry = w.k.retry
      /\ l.approvalTimer = w.k.approvalTimer /\ l.prompt = w.k.prompt /\ l.seen = w.k.seen
      /\ l.pageReq = w.k.pageReq /\ l.candidates = w.k.candidates
      /\ l.pagePrompt = w.k.pagePrompt /\ l.revoked = w.k.revoked
      /\ l.pending = w.k.pending /\ l.running = w.k.running
  BY <1>2 DEF Standing, Paging, Queues
<1>5. Leased(l) = Leased(w.k) /\ Contexts(l) = Contexts(w.k)
  BY <1>4 DEF Leased, Contexts
<1>6. Accounts(l, {})
  <2>1. \A r \in Reqs : l.sent[r] = IF r \in l.seen \ (l.active \cup {}) THEN 1 ELSE 0
    BY <1>1, <1>2, <1>4 DEF Accounts
  <2>2. l.active \ {} = Ids(l.pending) \cup Ids(l.running) \cup ({l.pageReq} \ {NoReq})
    BY <1>1, <1>2, <1>4 DEF Accounts
  <2> QED
    BY <1>1, <1>2, <1>4, <2>1, <2>2 DEF Accounts
<1>7. Prompts(l) /\ Revokes(l) /\ Drives(l) /\ Unseen(l, w.tab)
  BY <1>1, <1>4, <1>5 DEF Prompts, Revokes, Drives, Unseen
<1>8. Watched(l)
  BY <1>4, <1>5 DEF Watched
<1>9. Settled(v)
  BY <1>3, <1>4, <1>5, <1>6, <1>7, <1>8 DEF Settled, Sound, Always, SameWindow
<1>10. Works(w, v)
  BY <1>3, <1>4, <1>5 DEF Works, TabsGrow
<1> QED
  BY <1>2, <1>3, <1>4, <1>9, <1>10 DEF l

LEMMA AdmitWorks ==
    ASSUME NEW w, NEW call \in Calls, Sound(w, {call.id}), w.k.phase = "open", Watched(w.k),
           w.k.approval # "NotRequested", call.id \in w.k.seen, call.id \notin w.k.active,
           call.kind = "switch" => call.tab # NoTab
    PROVE  LET v == Admit(w, call) IN
           Settled(v) /\ Works(w, v) /\ v.k.approval # "Denied"
<1> DEFINE id == call.id
           target == Target(w.k, call)
           item == [call EXCEPT !.tab = target]
           l == [w.k EXCEPT !.pending = @ \cup {item}, !.active = @ \cup {id}]
           u == [w EXCEPT !.k = l]
           waits == w.k.approval # "Allowed"
                      \/ w.k.default \in Contexts(w.k) \ Leased(w.k)
           v == Admit(w, call)
<1>1. /\ w \in Worlds /\ w.k \in Connection /\ Drives(w.k)
      /\ Accounts(w.k, {id}) /\ Prompts(w.k) /\ Revokes(w.k) /\ Unseen(w.k, w.tab)
      /\ id \in Reqs
  BY DEF Sound, Worlds, Always, Calls
<1>2. v = IF ~WindowScoped(call) /\ target \notin Contexts(w.k)
            THEN [w EXCEPT !.k = Send(@, {id})]
          ELSE IF waits THEN u ELSE DispatchPendingCalls(u)
  <2> DEFINE x == [w EXCEPT !.k.pending = @ \cup {item}, !.k.active = @ \cup {id}]
  <2>1. x = u
    BY <1>1 DEF Worlds
  <2>2. v = IF ~WindowScoped(call) /\ target \notin Contexts(w.k)
              THEN [w EXCEPT !.k = Send(@, {id})]
            ELSE IF waits THEN x ELSE DispatchPendingCalls(x)
    BY Zenon DEF Admit
  <2> HIDE DEF x, u, v
  <2> QED
    BY <2>1, <2>2
<1> SUFFICES Settled(v) /\ Works(w, v) /\ v.k.approval # "Denied"
  OBVIOUS
<1> HIDE DEF v
<1>3. CASE ~WindowScoped(call) /\ target \notin Contexts(w.k)
  <2>1. v = [w EXCEPT !.k = Send(@, {id})]
    BY <1>2, <1>3
  <2>2. Settled(v) /\ Works(w, v) /\ v.k.approval = w.k.approval
    BY <1>1, <2>1, SendErrorWorks
  <2> QED
    BY <2>2 DEF Watched
<1>4. CASE ~(~WindowScoped(call) /\ target \notin Contexts(w.k))
  <2>1. target \in Tabs \cup {NoTab} /\ call.tab \in Tabs \cup {NoTab}
    BY <1>1 DEF Target, Connection, Calls
  <2>2. WindowScoped(call) \/ target \in Tabs
    BY <1>4 DEF Contexts
  <2>3. item \in Placed /\ item.id = id
    BY <2>1, <2>2 DEF Placed, Calls, WindowScoped
  <2> HIDE DEF item, target
  <2>4. /\ l \in Connection /\ l.pending = w.k.pending \cup {item} /\ l.running = w.k.running
        /\ l.active = w.k.active \cup {id} /\ l.sent = w.k.sent
        /\ Standing(l) = Standing(w.k) /\ Paging(l) = Paging(w.k)
    BY <1>1, <2>3 DEF Connection, Standing, Paging
  <2> HIDE DEF l
  <2>5. /\ l.phase = "open" /\ l.hello = w.k.hello /\ l.approval = w.k.approval
        /\ l.context = w.k.context /\ l.default = w.k.default /\ l.retry = w.k.retry
        /\ l.approvalTimer = w.k.approvalTimer /\ l.prompt = w.k.prompt /\ l.seen = w.k.seen
        /\ l.pageReq = w.k.pageReq /\ l.candidates = w.k.candidates
        /\ l.pagePrompt = w.k.pagePrompt /\ l.revoked = w.k.revoked
    BY <2>4 DEF Standing, Paging
  <2>6. Leased(l) = Leased(w.k) /\ Contexts(l) = Contexts(w.k)
    BY <2>5 DEF Leased, Contexts
  <2>7. Prompts(l) /\ Revokes(l) /\ Drives(l) /\ Unseen(l, w.tab)
    BY <1>1, <2>4, <2>5, <2>6 DEF Prompts, Revokes, Drives, Unseen
  <2>8. Accounts(l, {})
    <3>1. /\ id \notin Ids(w.k.pending \cup w.k.running) /\ id # w.k.pageReq
          /\ Unique(w.k.pending \cup w.k.running) /\ w.k.pending \cap w.k.running = {}
      BY <1>1 DEF Accounts
    <3>2. \A x \in w.k.pending \cup w.k.running : x.id # id
      BY <3>1 DEF Ids
    <3>3. Unique(l.pending \cup l.running) /\ l.pending \cap l.running = {}
      BY <2>3, <2>4, <3>1, <3>2 DEF Unique
    <3>4. l.pageReq \notin Ids(l.pending \cup l.running)
      BY <1>1, <2>3, <2>4, <2>5, <3>1 DEF Accounts, Ids
    <3>5. Ids(l.pending) = Ids(w.k.pending) \cup {id} /\ Ids(l.running) = Ids(w.k.running)
      BY <2>3, <2>4 DEF Ids
    <3>6. l.active = Ids(l.pending) \cup Ids(l.running) \cup ({l.pageReq} \ {NoReq})
      BY <1>1, <2>4, <2>5, <3>5 DEF Accounts
    <3>7. \A r \in Reqs : l.sent[r] = IF r \in l.seen \ (l.active \cup {}) THEN 1 ELSE 0
      BY <1>1, <2>4, <2>5 DEF Accounts
    <3>8. l.active \cup {} \subseteq l.seen
      BY <1>1, <2>4, <2>5 DEF Accounts
    <3> QED
      BY <3>3, <3>4, <3>6, <3>7, <3>8 DEF Accounts
  <2>9. u \in Worlds /\ u.k = l /\ u.tab = w.tab /\ SameWindow(w, u)
    BY <1>1, <2>4 DEF Worlds, SameWindow
  <2>10. Sound(u, {})
    BY <2>5, <2>6, <2>7, <2>8, <2>9 DEF Sound, Always, SameWindow
  <2>11. Works(w, u)
    BY <2>5, <2>6, <2>9 DEF Works, TabsGrow
  <2> HIDE DEF u
  <2>12. CASE waits
    <3>1. Watched(l)
      BY <2>4, <2>5, <2>6, <2>12 DEF Watched
    <3> QED
      BY <1>2, <1>4, <2>5, <2>9, <2>10, <2>11, <2>12, <3>1 DEF Settled, Watched
  <2>13. CASE ~waits
    <3>1. Contexts(l) = Leased(l) /\ l.approval = "Allowed"
      BY <2>5, <2>6, <2>13 DEF Watched, Contexts, Leased
    <3>2. Ready(u, {})
      BY <2>5, <2>9, <2>10, <3>1 DEF Ready
    <3>3. Ready(v, {}) /\ Works(u, v) /\ v.k.pending = {}
      BY <1>2, <1>4, <2>13, <3>2, DispatchAllWorks
    <3>4. Settled(v) /\ v.k.approval = "Allowed"
      BY <3>3, ReadyIsSettled DEF Ready
    <3>5. Works(w, v)
      BY <2>5, <2>6, <2>9, <3>3 DEF Works, SameWindow
    <3> QED
      BY <3>4, <3>5
  <2> QED
    BY <2>12, <2>13
<1> QED
  BY <1>3, <1>4

LEMMA ToolsCallWorks ==
    ASSUME NEW w0, NEW call \in Calls, Settled(w0), w0.k.phase = "open",
           call.id \notin w0.k.seen, call.kind = "switch" => call.tab # NoTab
    PROVE  LET v == HandleToolsCall(w0, call) IN Settled(v) /\ Moves(w0, v)
<1> DEFINE id == call.id
           l == [w0.k EXCEPT !.seen = @ \cup {id}]
           w == [w0 EXCEPT !.k = l]
           first == w.k.approval = "NotRequested"
           u == IF first THEN RequestApproval(w, call.tab) ELSE w
           refused == \/ Cardinality(w.k.active) >= MaxCalls
                      \/ first /\ call.tab = NoTab /\ ~WindowScoped(call)
                      \/ first /\ call.tab # NoTab /\ (call.tab \notin Tabs \/ ~Usable(w, call.tab))
           v == HandleToolsCall(w0, call)
<1>1. /\ w0 \in Worlds /\ w0.k \in Connection /\ Drives(w0.k) /\ Watched(w0.k)
      /\ Accounts(w0.k, {}) /\ Prompts(w0.k) /\ Revokes(w0.k) /\ Unseen(w0.k, w0.tab)
      /\ id \in Reqs /\ call.tab \in Tabs \cup {NoTab}
  BY DEF Settled, Sound, Worlds, Always, Calls
<1>2. v = IF refused THEN [w EXCEPT !.k = Send(@, {id})]
          ELSE IF u.k.phase # "open" THEN u
          ELSE Admit(u, call)
  <2> DEFINE x == [w0 EXCEPT !.k.seen = @ \cup {call.id}]
  <2>1. x = w
    BY <1>1 DEF Worlds
  <2>2. HandleToolsCall(w0, call) =
          LET first_x == x.k.approval = "NotRequested"
              y == IF first_x THEN RequestApproval(x, call.tab) ELSE x
          IN  IF \/ Cardinality(x.k.active) >= MaxCalls
                 \/ first_x /\ call.tab = NoTab /\ ~WindowScoped(call)
                 \/ first_x /\ call.tab # NoTab /\ (call.tab \notin Tabs \/ ~Usable(x, call.tab))
                THEN [x EXCEPT !.k = Send(@, {call.id})]
              ELSE IF y.k.phase # "open" THEN y
              ELSE Admit(y, call)
    BY Zenon DEF HandleToolsCall, Admit
  <2> HIDE DEF x, w
  <2> QED
    BY <2>1, <2>2
<1>3. /\ l \in Connection /\ l.seen = w0.k.seen \cup {id}
      /\ Paging(l) = Paging(w0.k) /\ Queues(l) = Queues(w0.k)
      /\ l.phase = "open" /\ l.hello = w0.k.hello /\ l.approval = w0.k.approval
      /\ l.context = w0.k.context /\ l.default = w0.k.default /\ l.retry = w0.k.retry
      /\ l.approvalTimer = w0.k.approvalTimer /\ l.prompt = w0.k.prompt
      /\ l.active = w0.k.active /\ l.sent = w0.k.sent
  BY <1>1 DEF Connection, Paging, Queues
<1> HIDE DEF l
<1>4. /\ l.pageReq = w0.k.pageReq /\ l.candidates = w0.k.candidates
      /\ l.pagePrompt = w0.k.pagePrompt /\ l.revoked = w0.k.revoked
      /\ l.pending = w0.k.pending /\ l.running = w0.k.running
      /\ Leased(l) = Leased(w0.k) /\ Contexts(l) = Contexts(w0.k)
  BY <1>3 DEF Paging, Queues, Leased, Contexts
<1>5. id \in l.seen /\ id \notin l.active
  BY <1>1, <1>3 DEF Accounts
<1>6. Accounts(l, {id})
  <2>1. id \notin Ids(l.pending) \cup Ids(l.running) \cup ({l.pageReq} \ {NoReq})
    BY <1>1, <1>3, <1>4, <1>5 DEF Accounts
  <2>2. id # l.pageReq /\ id \notin Ids(l.pending \cup l.running)
    BY <1>1, <2>1, PagesAssumption DEF Ids
  <2>3. l.active \ {id} = Ids(l.pending) \cup Ids(l.running) \cup ({l.pageReq} \ {NoReq})
    BY <1>1, <1>3, <1>4, <1>5 DEF Accounts
  <2>4. \A r \in Reqs : l.sent[r] = IF r \in l.seen \ (l.active \cup {id}) THEN 1 ELSE 0
    BY <1>1, <1>3 DEF Accounts
  <2>5. l.active \cup {id} \subseteq l.seen
    BY <1>1, <1>3 DEF Accounts
  <2> QED
    BY <1>1, <1>4, <2>2, <2>3, <2>4, <2>5 DEF Accounts
<1>7. Prompts(l) /\ Revokes(l) /\ Drives(l) /\ Unseen(l, w0.tab) /\ Watched(l)
  BY <1>1, <1>3, <1>4 DEF Prompts, Revokes, Drives, Unseen, Watched
<1>8. w \in Worlds /\ w.k = l /\ w.tab = w0.tab /\ SameWindow(w0, w)
  BY <1>1, <1>3 DEF Worlds, SameWindow
<1>9. Sound(w, {id})
  BY <1>3, <1>4, <1>6, <1>7, <1>8 DEF Settled, Sound, Always, SameWindow
<1> SUFFICES Settled(v) /\ Moves(w0, v)
  OBVIOUS
<1> HIDE DEF w, v
(* What the connection does from here on, it does from w0.                 *)
<1>10. ASSUME NEW x, Works(w, x), x.k.approval # "Denied" PROVE Moves(w0, x)
  BY <1>3, <1>4, <1>8, <1>10 DEF Works, Moves, ConnMoves, SameWindow, TabsGrow
<1>11. CASE refused
  <2>1. Settled(v) /\ Works(w, v) /\ v.k.approval = w.k.approval
    BY <1>1, <1>2, <1>3, <1>5, <1>7, <1>8, <1>9, <1>11, SendErrorWorks
  <2> QED
    BY <1>7, <1>8, <1>10, <2>1 DEF Watched
<1>12. CASE ~refused /\ ~first
  <2>1. u = w
    BY <1>12
  <2>2. v = Admit(w, call)
    BY <1>2, <1>3, <1>8, <1>12, <2>1
  <2>3. Settled(v) /\ Works(w, v) /\ v.k.approval # "Denied"
    BY <1>3, <1>5, <1>7, <1>8, <1>9, <1>12, <2>2, AdmitWorks
  <2> QED
    BY <1>10, <2>3
<1>13. CASE ~refused /\ first
  <2>1. u = RequestApproval(w, call.tab)
    BY <1>13
  <2> HIDE DEF u
  <2>2. call.tab # NoTab => w.tab[call.tab].state # "absent"
    BY <1>13 DEF Usable
  <2>3. Asked(w, u, {id})
    BY <1>1, <1>3, <1>7, <1>8, <1>9, <1>13, <2>1, <2>2, RequestApprovalWorks
  <2>4. w0.k.pageReq = NoReq /\ w0.k.active = {}
    <3>1. w0.k.pageReq = NoReq /\ w0.k.pending = {} /\ w0.k.running = {}
      BY <1>1, <1>3, <1>8, <1>13 DEF Watched
    <3> QED
      BY <1>1, <3>1 DEF Accounts, Ids
  (* Nobody can have been waiting for an answer or looked at a picker.     *)
  <2>5. ASSUME NEW x, SameWindow(w0, x), TabsGrow(w0.tab, x.tab), x.k.hello => w0.k.hello
        PROVE  Moves(w0, x)
    <3>1. Leased(w0.k) = {}
      BY <1>1, <1>3, <1>8, <1>13 DEF Watched, Contexts, Leased
    <3> QED
      BY <2>4, <2>5, <3>1 DEF Moves, ConnMoves
  <2>6. CASE u.k.phase # "open"
    <3>1. v = u /\ Settled(u)
      BY <1>2, <1>13, <2>3, <2>6 DEF Asked
    <3>2. /\ SameWindow(w0, u) /\ TabsGrow(w0.tab, u.tab) /\ (u.k.hello => w0.k.hello)
      BY <1>3, <1>8, <2>3 DEF Asked, SameWindow, TabsGrow
    <3> QED
      BY <2>5, <3>1, <3>2
  <2>7. CASE u.k.phase = "open"
    <3>1. v = Admit(u, call)
      BY <1>2, <1>13, <2>7
    <3>2. /\ Sound(u, {id}) /\ Watched(u.k) /\ u.k.approval # "NotRequested"
          /\ id \in u.k.seen /\ id \notin u.k.active
          /\ SameWindow(w, u) /\ u.tab = w.tab /\ (u.k.hello => w.k.hello)
      BY <1>5, <1>8, <2>3, <2>7 DEF Asked
    <3>3. Settled(v) /\ Works(u, v)
      BY <2>7, <3>1, <3>2, AdmitWorks
    <3>4. SameWindow(w0, v) /\ TabsGrow(w0.tab, v.tab) /\ (v.k.hello => w0.k.hello)
      BY <1>3, <1>8, <3>2, <3>3 DEF Works, SameWindow, TabsGrow
    <3> QED
      BY <2>5, <3>3, <3>4
  <2> QED
    BY <2>6, <2>7
<1> QED
  BY <1>11, <1>12, <1>13
-----------------------------------------------------------------------------
(* Calls that are taken from their queue or executor and answered.         *)
LEMMA RemovedCalls ==
    ASSUME NEW k \in Connection, Accounts(k, {}),
           NEW gone, gone \subseteq k.pending \cup k.running,
           NEW m \in Connection, m.phase = "open",
           m.pending = k.pending \ gone, m.running = k.running \ gone,
           m.pageReq = k.pageReq, m.active = k.active, m.sent = k.sent, m.seen = k.seen
    PROVE  Accounts(Complete(m, Ids(gone)), {})
<1> DEFINE l == Complete(m, Ids(gone))
<1>1. Unique(k.pending \cup k.running)
  BY DEF Accounts
<1>2. \A x \in gone, y \in (m.pending \cup m.running) : x.id # y.id
  BY <1>1 DEF Unique
<1>3. Ids(gone) \cap Ids(m.pending \cup m.running) = {}
  BY <1>2 DEF Ids
<1>4. Ids(k.pending) \cup Ids(k.running) = Ids(m.pending) \cup Ids(m.running) \cup Ids(gone)
  BY DEF Ids
<1>5. k.pageReq \notin Ids(gone) /\ k.pageReq \notin Ids(m.pending \cup m.running)
  <2>1. k.pageReq \notin Ids(k.pending \cup k.running)
    BY DEF Accounts
  <2> QED
    BY <2>1 DEF Ids
<1>6. Ids(m.pending \cup m.running) = Ids(m.pending) \cup Ids(m.running)
  BY DEF Ids
<1>7. Accounts(m, Ids(gone)) /\ Ids(gone) \subseteq m.active
  <2>a. /\ k.active = Ids(k.pending) \cup Ids(k.running) \cup ({k.pageReq} \ {NoReq})
        /\ k.active \subseteq k.seen
    BY DEF Accounts
  <2>1. Unique(m.pending \cup m.running) /\ m.pending \cap m.running = {}
    BY <1>1 DEF Accounts, Unique
  <2>2. Ids(gone) \subseteq m.active
    BY <1>4, <2>a
  <2>3. m.active \ Ids(gone) = Ids(m.pending) \cup Ids(m.running) \cup ({m.pageReq} \ {NoReq})
    BY <1>3, <1>4, <1>5, <1>6, <2>a
  <2>4. \A r \in Reqs : m.sent[r] = IF r \in m.seen \ (m.active \cup Ids(gone)) THEN 1 ELSE 0
    BY <2>2 DEF Accounts
  <2>5. m.active \cup Ids(gone) \subseteq m.seen
    BY <2>2, <2>a
  <2>6. /\ m.pageReq \notin Ids(m.pending \cup m.running)
        /\ Ids(gone) \cap (Ids(m.pending \cup m.running) \cup {m.pageReq}) = {}
    BY <1>3, <1>5
  <2> QED
    BY <2>1, <2>2, <2>3, <2>4, <2>5, <2>6 DEF Accounts
<1>8. /\ l \in Connection
      /\ Standing(l) = Standing(m) /\ Paging(l) = Paging(m) /\ Queues(l) = Queues(m)
      /\ l.active = m.active \ Ids(gone)
      /\ \A r \in Reqs :
           l.sent[r] = IF r \in Ids(gone) \cap m.active THEN m.sent[r] + 1 ELSE m.sent[r]
  BY CompleteFacts
<1> HIDE DEF l
<1>9. l.pageReq = m.pageReq /\ l.seen = m.seen
  BY <1>8 DEF Paging, Standing
<1>10. Accounts(l, {})
  BY <1>7, <1>8, <1>9, AnswersSettle
<1> QED
  BY <1>10 DEF l

(* A handler that takes from its connection and gives it nothing.          *)
Shrinks(k, l) ==
    /\ l \in Connection /\ Resting(l)
    /\ l.hello => k.hello
    /\ l.hello /\ l.phase = "open" => k.phase = "open"
    /\ Contexts(l) \subseteq Contexts(k) /\ Leased(l) \subseteq Leased(k)
    /\ l.revoked \subseteq k.revoked \cup Contexts(k)
    /\ k.phase = "open" /\ l.approval = "Denied" => \A r \in k.active : l.sent[r] = 1

LEMMA RejectShrinks ==
    ASSUME NEW k \in Connection, Always(k, {})
    PROVE  Shrinks(k, RejectConnection(k))
<1> DEFINE l == RejectConnection(k)
<1>1. /\ l \in Connection /\ Always(l, {})
      /\ l.phase = "closing" /\ ~l.hello
      /\ l.context = [t \in Tabs |-> "none"] /\ l.revoked = {}
      /\ k.phase = "open" => \A r \in k.active : l.sent[r] = 1
  BY RejectFacts
<1> HIDE DEF l
<1>2. Contexts(l) = {} /\ Leased(l) = {}
  BY <1>1 DEF Contexts, Leased
<1>3. Shrinks(k, l)
  BY <1>1, <1>2 DEF Shrinks, Resting
<1> QED
  BY <1>3 DEF l

LEMMA CancelTabAccessShrinks ==
    ASSUME NEW k \in Connection, Resting(k)
    PROVE  Shrinks(k, CancelTabAccess(k))
<1> DEFINE l == CancelTabAccess(k)
<1>1. Always(k, {})
  BY DEF Resting
<1>2. /\ l \in Connection /\ Always(l, {})
      /\ Standing(l) = Standing(k) /\ Queues(l) = Queues(k)
      /\ l.pageReq = NoReq /\ l.revoked = {}
  BY <1>1, CancelFacts
<1> HIDE DEF l
<1>3. /\ l.phase = k.phase /\ l.hello = k.hello /\ l.approval = k.approval
      /\ l.context = k.context /\ l.default = k.default /\ l.retry = k.retry
      /\ l.approvalTimer = k.approvalTimer /\ l.pending = k.pending /\ l.running = k.running
  BY <1>2 DEF Standing, Queues
<1>4. Contexts(l) = Contexts(k) /\ Leased(l) = Leased(k)
  BY <1>3 DEF Contexts, Leased
<1>5. l.phase = "open" => Watched(l)
  BY <1>2, <1>3, <1>4 DEF Resting, Watched
<1>6. k.phase = "open" => l.approval # "Denied"
  BY <1>3 DEF Resting, Watched
<1>7. Shrinks(k, l)
  BY <1>2, <1>3, <1>4, <1>5, <1>6 DEF Shrinks, Resting
<1> QED
  BY <1>7 DEF l

(* A call of an open connection leaves with its answer.                    *)
LEMMA RemovalShrinks ==
    ASSUME NEW k \in Connection, Resting(k), k.phase = "open",
           NEW gone, gone \subseteq k.pending \cup k.running,
           NEW m \in Connection, Standing(m) = Standing(k), Paging(m) = Paging(k),
           m.pending = k.pending \ gone, m.running = k.running \ gone,
           m.active = k.active, m.sent = k.sent
    PROVE  Shrinks(k, Complete(m, Ids(gone)))
<1> DEFINE l == Complete(m, Ids(gone))
<1>1. /\ Prompts(k) /\ Revokes(k) /\ Drives(k) /\ Accounts(k, {}) /\ Watched(k)
  BY DEF Resting, Always
<1>2. m.phase = "open" /\ m.pageReq = k.pageReq /\ m.seen = k.seen
  BY DEF Standing, Paging
<1>3. Accounts(l, {})
  BY <1>1, <1>2, RemovedCalls
<1>4. /\ l \in Connection
      /\ Standing(l) = Standing(m) /\ Paging(l) = Paging(m) /\ Queues(l) = Queues(m)
  BY CompleteFacts
<1> HIDE DEF l
<1>5. /\ l.phase = k.phase /\ l.hello = k.hello /\ l.approval = k.approval
      /\ l.context = k.context /\ l.default = k.default /\ l.retry = k.retry
      /\ l.approvalTimer = k.approvalTimer /\ l.prompt = k.prompt
      /\ l.pageReq = k.pageReq /\ l.candidates = k.candidates
      /\ l.pagePrompt = k.pagePrompt /\ l.revoked = k.revoked
      /\ l.pending = k.pending \ gone /\ l.running = k.running \ gone
  BY <1>4 DEF Standing, Paging, Queues
<1>6. Contexts(l) = Contexts(k) /\ Leased(l) = Leased(k)
  BY <1>5 DEF Contexts, Leased
<1>7. Prompts(l) /\ Revokes(l) /\ Drives(l)
  BY <1>1, <1>5, <1>6 DEF Prompts, Revokes, Drives
<1>8. Watched(l)
  BY <1>1, <1>5, <1>6 DEF Watched
<1>9. Shrinks(k, l)
  BY <1>1, <1>3, <1>4, <1>5, <1>6, <1>7, <1>8 DEF Shrinks, Resting, Always, Watched
<1> QED
  BY <1>9 DEF l

LEMMA ToolsCancelShrinks ==
    ASSUME NEW k \in Connection, Resting(k), k.phase = "open", NEW id \in k.active
    PROVE  Shrinks(k, HandleToolsCancel(k, id))
<1>1. CASE k.pageReq = id
  BY <1>1, CancelTabAccessShrinks DEF HandleToolsCancel
<1>2. CASE k.pageReq # id
  <2> DEFINE gone == {x \in k.pending \cup k.running : x.id = id}
             p == {x \in k.pending : x.id # id}
             q == {x \in k.running : x.id # id}
             m == [k EXCEPT !.pending = p, !.running = q]
  <2>1. p = k.pending \ gone /\ q = k.running \ gone /\ gone \subseteq k.pending \cup k.running
    OBVIOUS
  <2>2. Accounts(k, {})
    BY DEF Resting, Always
  <2>3. id \in Ids(k.pending) \cup Ids(k.running)
    BY <1>2, <2>2 DEF Accounts
  <2>4. Ids(gone) = {id}
    BY <2>3 DEF Ids
  <2>5. HandleToolsCancel(k, id) = Complete(m, {id})
    BY <1>2 DEF HandleToolsCancel
  <2> HIDE DEF gone, p, q
  <2>6. /\ m \in Connection /\ Standing(m) = Standing(k) /\ Paging(m) = Paging(k)
        /\ m.pending = p /\ m.running = q /\ m.active = k.active /\ m.sent = k.sent
    BY <2>1 DEF Connection, Standing, Paging
  <2> HIDE DEF m
  <2> QED
    BY <2>1, <2>4, <2>5, <2>6, RemovalShrinks
<1> QED
  BY <1>1, <1>2

LEMMA CompletedCallShrinks ==
    ASSUME NEW k \in Connection, Resting(k), NEW call \in k.running
    PROVE  Shrinks(k, Complete([k EXCEPT !.running = @ \ {call}], {call.id}))
<1> DEFINE m == [k EXCEPT !.running = @ \ {call}]
           l == Complete(m, {call.id})
<1>1. /\ m \in Connection /\ Standing(m) = Standing(k) /\ Paging(m) = Paging(k)
      /\ m.pending = k.pending /\ m.running = k.running \ {call}
      /\ m.active = k.active /\ m.sent = k.sent
  BY DEF Connection, Standing, Paging
<1> HIDE DEF m
<1>2. CASE k.phase = "open"
  <2>1. k.pending = k.pending \ {call}
    BY <1>2 DEF Resting, Always, Accounts
  <2>2. Ids({call}) = {call.id}
    BY DEF Ids
  <2>3. m.pending = k.pending \ {call} /\ {call} \subseteq k.pending \cup k.running
    BY <1>1, <2>1
  <2> QED
    BY <1>1, <1>2, <2>2, <2>3, RemovalShrinks DEF m
<1>3. CASE k.phase # "open"
  <2>1. /\ l \in Connection
        /\ Standing(l) = Standing(m) /\ Paging(l) = Paging(m) /\ Queues(l) = Queues(m)
        /\ m.phase # "open" => l.sent = m.sent
    BY <1>1, CompleteFacts
  <2> HIDE DEF l
  <2>2. /\ l.phase = k.phase /\ l.hello = k.hello /\ l.approval = k.approval
        /\ l.context = k.context /\ l.prompt = k.prompt
        /\ l.pageReq = k.pageReq /\ l.candidates = k.candidates
        /\ l.pagePrompt = k.pagePrompt /\ l.revoked = k.revoked
    BY <1>1, <2>1 DEF Standing, Paging
  <2>3. Contexts(l) = Contexts(k) /\ Leased(l) = Leased(k)
    BY <2>2 DEF Contexts, Leased
  <2>4. Prompts(l) /\ Revokes(l)
    BY <2>2 DEF Resting, Always, Prompts, Revokes
  <2>5. Once(l)
    BY <1>1, <1>3, <2>1 DEF Resting, Always, Once, Standing
  <2>6. Shrinks(k, l)
    BY <1>3, <2>1, <2>2, <2>3, <2>4, <2>5 DEF Shrinks, Resting, Always
  <2> QED
    BY <2>6 DEF l, m
<1> QED
  BY <1>2, <1>3

(* A page that is lost takes its grant and its calls with it; it may be    *)
(* one that was just revoked.                                              *)
LEMMA InvalidatedShrinks ==
    ASSUME NEW k \in Connection, k.phase = "open", NEW t \in Contexts(k),
           Prompts(k), Drives(k), Accounts(k, {}), Watched(k),
           k.revoked # {} => k.pageReq # NoReq,
           \A s \in k.revoked : (s = t \/ k.context[s] = "none")
                                /\ \A p \in k.candidates : p.tab # s
    PROVE  Shrinks(k, OnTargetInvalidated(k, t))
<1> DEFINE lost == {x \in k.pending \cup k.running : ~WindowScoped(x) /\ x.tab = t}
           new == [x \in Tabs |-> IF x = t THEN "none" ELSE k.context[x]]
           m == [k EXCEPT !.context = new, !.default = IF @ = t THEN NoTab ELSE @,
                          !.pending = @ \ lost, !.running = @ \ lost]
           l == Complete(m, Ids(lost))
<1>1. new \in [Tabs -> Grants] /\ t \in Tabs
  BY DEF Connection, Grants, Contexts
<1>2. OnTargetInvalidated(k, t) = l
  <2>1. [k.context EXCEPT ![t] = "none"] = new
    BY DEF Connection
  <2>2. OnTargetInvalidated(k, t) =
          Complete([k EXCEPT !.context = [k.context EXCEPT ![t] = "none"],
                             !.default = IF @ = t THEN NoTab ELSE @,
                             !.pending = @ \ lost, !.running = @ \ lost], Ids(lost))
    BY DEF OnTargetInvalidated
  <2> HIDE DEF new
  <2> QED
    BY <2>1, <2>2
<1>3. lost \subseteq k.pending \cup k.running
  OBVIOUS
<1>4. \A x \in k.running \ lost : x.kind \in {"page", "close"} => x.tab # t
  BY DEF WindowScoped
<1> HIDE DEF lost, new
<1>5. /\ m \in Connection /\ m.context = new /\ Paging(m) = Paging(k)
      /\ m.default = (IF k.default = t THEN NoTab ELSE k.default)
      /\ m.pending = k.pending \ lost /\ m.running = k.running \ lost
      /\ m.active = k.active /\ m.sent = k.sent /\ m.seen = k.seen
      /\ m.phase = k.phase /\ m.hello = k.hello /\ m.approval = k.approval
      /\ m.retry = k.retry /\ m.approvalTimer = k.approvalTimer /\ m.prompt = k.prompt
  BY <1>1, <1>3 DEF Connection, Paging
<1> HIDE DEF m
<1>6. m.pageReq = k.pageReq
  BY <1>5 DEF Paging
<1>7. Accounts(l, {})
  BY <1>3, <1>5, <1>6, RemovedCalls
<1>8. /\ l \in Connection
      /\ Standing(l) = Standing(m) /\ Paging(l) = Paging(m) /\ Queues(l) = Queues(m)
  BY <1>5, CompleteFacts
<1> HIDE DEF l
<1>9. /\ l.phase = k.phase /\ l.hello = k.hello /\ l.approval = k.approval
      /\ l.context = new /\ l.default = m.default /\ l.retry = k.retry
      /\ l.approvalTimer = k.approvalTimer /\ l.prompt = k.prompt
      /\ l.pageReq = k.pageReq /\ l.candidates = k.candidates
      /\ l.pagePrompt = k.pagePrompt /\ l.revoked = k.revoked
      /\ l.pending = k.pending \ lost /\ l.running = k.running \ lost
  BY <1>5, <1>8 DEF Standing, Paging, Queues
<1>10. Contexts(l) = Contexts(k) \ {t} /\ Leased(l) = Leased(k) \ {t}
  BY <1>9 DEF Contexts, Leased, new
<1>11. \A s \in Tabs : k.context[s] = "none" \/ s = t => l.context[s] = "none"
  BY <1>9 DEF new
<1>12. Prompts(l) /\ Revokes(l)
  BY <1>1, <1>9, <1>11 DEF Prompts, Revokes, Connection
<1>13. Drives(l)
  BY <1>4, <1>9, <1>10 DEF Drives
<1>14. Watched(l)
  BY <1>5, <1>9, <1>10 DEF Watched
<1>15. Shrinks(k, l)
  BY <1>7, <1>8, <1>9, <1>10, <1>12, <1>13, <1>14 DEF Shrinks, Resting, Always, Watched
<1> QED
  BY <1>2, <1>15

LEMMA RevokedShrinks ==
    ASSUME NEW k \in Connection, Resting(k), k.phase = "open", NEW t \in Contexts(k)
    PROVE  Shrinks(k, RevokeTab(k, t))
<1> DEFINE kept == {p \in k.candidates : p.tab # t}
           marked == IF k.pageReq = NoReq THEN {} ELSE k.revoked \cup {t}
           v == [k EXCEPT !.candidates = kept, !.revoked = marked]
           emptied == v.candidates = {} /\ k.candidates # {}
           y == IF emptied THEN CancelTabAccess(v) ELSE v
           l == RevokeTab(k, t)
<1>1. /\ Prompts(k) /\ Revokes(k) /\ Drives(k) /\ Accounts(k, {}) /\ Watched(k) /\ t \in Tabs
  BY DEF Resting, Always, Contexts
<1>2. l = OnTargetInvalidated(y, t)
  BY Zenon DEF RevokeTab
<1>3. /\ v \in Connection /\ v.candidates = kept /\ v.revoked = marked
      /\ Standing(v) = Standing(k) /\ Queues(v) = Queues(k)
      /\ v.active = k.active /\ v.sent = k.sent
      /\ v.pageReq = k.pageReq /\ v.pagePrompt = k.pagePrompt
  BY <1>1 DEF Connection, Standing, Queues
<1> HIDE DEF v, l
<1>4. v.pending = k.pending /\ v.running = k.running /\ v.seen = k.seen
  BY <1>3 DEF Standing, Queues
<1>5. Accounts(v, {})
  BY <1>1, <1>3, <1>4 DEF Accounts
<1>6. /\ y \in Connection /\ Standing(y) = Standing(k) /\ Queues(y) = Queues(k)
      /\ Accounts(y, {}) /\ y.active \subseteq k.active
      /\ y.pagePrompt => y.pageReq # NoReq /\ y.candidates # {}
      /\ y.revoked # {} => y.pageReq # NoReq
      /\ y.revoked \subseteq k.revoked \cup {t}
      /\ \A p \in y.candidates : p \in k.candidates /\ p.tab # t
      /\ y.pageReq \in {k.pageReq, NoReq}
  <2>1. CASE emptied /\ k.pageReq # NoReq
    <3> DEFINE q == WithoutPageRequest(v)
               z == Complete(q, {k.pageReq})
    <3>1. y = z
      BY <1>3, <2>1 DEF CancelTabAccess
    <3>2. /\ q \in Connection
          /\ Standing(q) = Standing(v) /\ Queues(q) = Queues(v)
          /\ q.active = v.active /\ q.sent = v.sent
          /\ q.pageReq = NoReq /\ q.candidates = {} /\ ~q.pagePrompt /\ q.revoked = {}
      BY <1>3, PageRequestEnds
    <3>3. Accounts(q, {k.pageReq})
      BY <1>3, <1>5, <2>1, PageRequestHeld
    <3> HIDE DEF q
    <3>4. k.pageReq \in q.active
      BY <1>1, <1>3, <2>1, <3>2 DEF Accounts
    <3>5. q.phase = "open"
      BY <1>3, <3>2 DEF Standing
    <3>6. /\ z \in Connection
          /\ Standing(z) = Standing(q) /\ Paging(z) = Paging(q) /\ Queues(z) = Queues(q)
          /\ z.active = q.active \ {k.pageReq}
          /\ \A r \in Reqs : z.sent[r] = IF r \in {k.pageReq} \cap q.active THEN q.sent[r] + 1
                                          ELSE q.sent[r]
      BY <3>2, <3>5, CompleteFacts
    <3> HIDE DEF z
    <3>7. /\ z.pageReq = NoReq /\ z.candidates = {} /\ ~z.pagePrompt /\ z.revoked = {}
          /\ z.seen = q.seen
      BY <3>2, <3>6 DEF Paging, Standing
    <3>8. Accounts(z, {})
      BY <3>2, <3>3, <3>4, <3>5, <3>6, <3>7, AnswersSettle
    <3>9. Standing(z) = Standing(k) /\ Queues(z) = Queues(k) /\ z.active \subseteq k.active
      BY <1>3, <3>2, <3>6
    <3> HIDE DEF y
    <3> QED
      BY <3>1, <3>6, <3>7, <3>8, <3>9
  <2>2. CASE ~(emptied /\ k.pageReq # NoReq)
    <3>1. y = v
      BY <1>3, <2>2 DEF CancelTabAccess
    <3>2. v.pagePrompt => v.pageReq # NoReq /\ v.candidates # {}
      BY <1>1, <1>3, <2>2 DEF Prompts
    <3> HIDE DEF y
    <3> QED
      BY <1>3, <1>5, <3>1, <3>2
  <2> QED
    BY <2>1, <2>2
<1> HIDE DEF y
<1>7. /\ y.phase = k.phase /\ y.hello = k.hello /\ y.approval = k.approval
      /\ y.context = k.context /\ y.default = k.default /\ y.retry = k.retry
      /\ y.approvalTimer = k.approvalTimer /\ y.prompt = k.prompt
      /\ y.pending = k.pending /\ y.running = k.running
  BY <1>6 DEF Standing, Queues
<1>8. Contexts(y) = Contexts(k) /\ Leased(y) = Leased(k)
  BY <1>7 DEF Contexts, Leased
<1>9. Prompts(y) /\ Drives(y) /\ Watched(y)
  BY <1>1, <1>6, <1>7, <1>8 DEF Prompts, Drives, Watched
<1>10. \A s \in y.revoked : (s = t \/ y.context[s] = "none")
                            /\ \A p \in y.candidates : p.tab # s
  BY <1>1, <1>6, <1>7 DEF Revokes
<1>11. Shrinks(y, l)
  BY <1>2, <1>6, <1>7, <1>8, <1>9, <1>10, InvalidatedShrinks
<1>12. l.phase = "open"
  <2>1. /\ OnTargetInvalidated(y, t).phase = y.phase
    <3> DEFINE lost == {x \in y.pending \cup y.running : ~WindowScoped(x) /\ x.tab = t}
               new == [x \in Tabs |-> IF x = t THEN "none" ELSE y.context[x]]
               m == [y EXCEPT !.context = new, !.default = IF @ = t THEN NoTab ELSE @,
                              !.pending = @ \ lost, !.running = @ \ lost]
    <3>1. new = [y.context EXCEPT ![t] = "none"]
      BY <1>6 DEF Connection
    <3>2. OnTargetInvalidated(y, t) = Complete(m, Ids(lost))
      BY <3>1 DEF OnTargetInvalidated
    <3>3. new \in [Tabs -> Grants]
      BY <1>6 DEF Connection, Grants
    <3> HIDE DEF lost, new
    <3>4. m \in Connection /\ m.phase = y.phase
      BY <1>6, <3>3 DEF Connection
    <3> HIDE DEF m
    <3> QED
      BY <3>2, <3>4, CompleteFacts DEF Standing
  <2> QED
    BY <1>2, <1>7, <2>1
<1>13. l.approval # "Denied"
  BY <1>11, <1>12 DEF Shrinks, Resting, Watched
<1>14. l.revoked \subseteq k.revoked \cup Contexts(k)
  BY <1>6, <1>8, <1>11 DEF Shrinks
<1>15. Shrinks(k, l)
  BY <1>7, <1>8, <1>11, <1>12, <1>13, <1>14 DEF Shrinks
<1> QED
  BY <1>15 DEF l
-----------------------------------------------------------------------------
(* A picker is open only on a connection that waits for nothing else.      *)
LEMMA PickerIsReady ==
    ASSUME NEW w, Settled(w), w.k.phase = "open", w.k.pageReq # NoReq
    PROVE  Ready(w, {})
  BY DEF Settled, Ready, Watched

LEMMA PickerWorks ==
    ASSUME NEW w, NEW t, Settled(w), w.k.phase = "open", w.k.pageReq # NoReq
    PROVE  LET v == OnTabAccessResult(w, t) IN Settled(v) /\ Moves(w, v)
<1> DEFINE v == OnTabAccessResult(w, t)
<1>1. Ready(w, {})
  BY PickerIsReady
<1>2. /\ Ready(v, {})
      /\ SameWindow(w, v) /\ v.tab = w.tab /\ v.k.hello = w.k.hello
      /\ Queues(v.k) = Queues(w.k)
      /\ \A u \in Tabs : w.k.context[u] = "none" /\ v.k.context[u] # "none"
           => Offered(w.k, w.tab, u)
      /\ v.k.retry = w.k.retry /\ Leased(w.k) \subseteq Leased(v.k)
  BY <1>1, PickerFacts
<1> HIDE DEF v
<1>3. v.k.pending = {} \/ v.k.retry
  BY <1>1, <1>2 DEF Settled, Watched, Queues, Ready
<1>4. Settled(v)
  BY <1>2, <1>3, ReadyIsSettled
<1>5. Moves(w, v)
  BY <1>1, <1>2 DEF Moves, ConnMoves, TabsGrow, Ready
<1> QED
  BY <1>4, <1>5 DEF v

LEMMA AutoAnswerWorks ==
    ASSUME NEW w, Settled(w), w.k.phase = "open"
    PROVE  /\ Settled(AutoAnswer(w)) /\ Moves(w, AutoAnswer(w))
           /\ Leased(w.k) \subseteq Leased(AutoAnswer(w).k)
<1> DEFINE u == IF w.k.approval = "Pending" THEN OnApprovalResult(w, TRUE, FALSE) ELSE w
           t == IF u.k.pageTab # NoTab THEN u.k.pageTab ELSE u.active
           v == AutoAnswer(w)
<1>1. v = IF u.k.phase = "open" /\ u.k.pageReq # NoReq THEN OnTabAccessResult(u, t) ELSE u
  BY DEF AutoAnswer, AutoApproveTabAccess
<1>2. w.k.approval # "Denied"
  BY DEF Settled, Watched
<1>3. Settled(u) /\ Moves(w, u) /\ (w.k.pageReq # NoReq => u = w)
  <2>1. CASE w.k.approval = "Pending"
    <3> DEFINE allowed == TRUE
               late == FALSE
    <3>1. allowed \in BOOLEAN /\ late \in BOOLEAN /\ u = OnApprovalResult(w, allowed, late)
      BY <2>1
    <3> HIDE DEF allowed, late, u
    <3>2. Settled(u) /\ Moves(w, u)
      BY <2>1, <3>1, ApprovalWorks
    <3> QED
      BY <2>1, <3>2 DEF Settled, Watched
  <2>2. CASE w.k.approval # "Pending"
    BY <1>2, <2>2 DEF Moves, ConnMoves, TabsGrow, SameWindow
  <2> QED
    BY <2>1, <2>2
<1>a. Leased(w.k) \subseteq Leased(u.k)
  <2>1. CASE w.k.approval = "Pending"
    BY <2>1 DEF Settled, Watched
  <2>2. CASE w.k.approval # "Pending"
    BY <2>2 DEF u
  <2> QED
    BY <2>1, <2>2
<1> HIDE DEF u, t, v
<1>4. CASE u.k.phase = "open" /\ u.k.pageReq # NoReq
  <2>1. v = OnTabAccessResult(u, t)
    BY <1>1, <1>4
  <2>2. Settled(v) /\ Moves(u, v)
    BY <1>3, <1>4, <2>1, PickerWorks
  <2>a. Leased(w.k) \subseteq Leased(v.k)
    BY <1>a, <1>4, <1>3, <2>1, PickerIsReady, PickerFacts
  <2>3. CASE w.k.pageReq # NoReq
    BY <1>3, <2>2, <2>3, <2>a DEF v
  <2>4. CASE w.k.pageReq = NoReq
    <3>1. Ready(u, {}) /\ Ready(v, {})
      BY <1>3, <1>4, <2>1, PickerIsReady, PickerFacts
    <3>2. Moves(w, v)
      BY <1>3, <2>a, <2>2, <2>4, <3>1 DEF Moves, ConnMoves, SameWindow, TabsGrow, Ready
    <3> QED
      BY <2>2, <2>a, <3>2 DEF v
  <2> QED
    BY <2>3, <2>4
<1>5. CASE ~(u.k.phase = "open" /\ u.k.pageReq # NoReq)
  BY <1>1, <1>3, <1>a, <1>5 DEF v
<1> QED
  BY <1>4, <1>5
-----------------------------------------------------------------------------
(* From connections to the whole state.                                    *)
LEMMA WorldIsSettled ==
    ASSUME NEW cs, NEW ts, StateInv(cs, ts), NEW c \in Conns, cs[c].phase = "open",
           NEW auto \in BOOLEAN, NEW active \in Tabs
    PROVE  LET w == WorldOf(c, cs, ts, auto, active) IN
           Settled(w) /\ w.k = cs[c] /\ w.tab = ts
<1> DEFINE free == Tabs \ ({agent.lease} \cup UNION {Leased(cs[d]) : d \in Conns \ {c}})
           w == WorldOf(c, cs, ts, auto, active)
<1>1. w = [k |-> cs[c], tab |-> ts, auto |-> auto, active |-> active, free |-> free]
  BY DEF WorldOf
<1>2. cs[c] \in Connection /\ ts \in [Tabs -> Shown] /\ Resting(cs[c]) /\ Unseen(cs[c], ts)
  BY DEF StateInv
<1>3. Leased(cs[c]) \subseteq free
  BY DEF StateInv, Leased
<1>4. ASSUME NEW t \in Tabs, ts[t].state = "absent" PROVE t \in free
  <2>1. t # agent.lease
    BY <1>4, PagesAssumption DEF StateInv
  <2>2. \A d \in Conns : t \notin Leased(cs[d])
    BY <1>4 DEF StateInv, Unseen, Leased
  <2> QED
    BY <2>1, <2>2
<1> HIDE DEF free
<1>5. free \subseteq Tabs
  BY DEF free
<1> HIDE DEF w
<1>6. w \in Worlds /\ w.k = cs[c] /\ w.tab = ts /\ w.free = free
  BY <1>1, <1>2, <1>5 DEF Worlds
<1>7. Settled(w)
  BY <1>2, <1>3, <1>4, <1>6 DEF Settled, Sound, Resting
<1> QED
  BY <1>6, <1>7 DEF w

LEMMA YieldKeepsInv ==
    ASSUME NEW cs, NEW ts, StateInv(cs, ts), NEW c \in Conns, NEW auto, NEW active,
           NEW v, Settled(v), SameWindow(WorldOf(c, cs, ts, auto, active), v),
           TabsGrow(ts, v.tab)
    PROVE  StateInv([cs EXCEPT ![c] = v.k], v.tab)
<1> DEFINE ds == [cs EXCEPT ![c] = v.k]
<1>1. v.k \in Connection /\ v.tab \in [Tabs -> Shown] /\ Unseen(v.k, v.tab) /\ Resting(v.k)
  BY DEF Settled, Sound, Worlds, Resting
<1>2. /\ ds \in [Conns -> Connection] /\ ds[c] = v.k
      /\ \A d \in Conns : d # c => ds[d] = cs[d]
  BY <1>1 DEF StateInv
<1> HIDE DEF ds
<1>3. v.free = Tabs \ ({agent.lease} \cup UNION {Leased(cs[d]) : d \in Conns \ {c}})
  BY DEF SameWindow, WorldOf
<1>4. Leased(v.k) \subseteq v.free
  BY DEF Settled, Sound
<1>5. agent.lease \notin Leased(v.k) /\ \A d \in Conns \ {c} : Leased(v.k) \cap Leased(cs[d]) = {}
  BY <1>3, <1>4
<1>6. ASSUME NEW d \in Conns PROVE Resting(ds[d]) /\ Unseen(ds[d], v.tab)
  <2>1. CASE d = c
    BY <1>1, <1>2, <2>1
  <2>2. CASE d # c
    BY <1>2, <2>2 DEF StateInv, Unseen, TabsGrow
  <2> QED
    BY <2>1, <2>2
<1>7. ASSUME NEW d \in Conns, NEW e \in Conns, d # e
      PROVE  Leased(ds[d]) \cap Leased(ds[e]) = {}
  <2>1. CASE d # c /\ e # c
    BY <1>2, <1>7, <2>1 DEF StateInv
  <2>2. CASE d = c \/ e = c
    BY <1>2, <1>5, <1>7, <2>2
  <2> QED
    BY <2>1, <2>2
<1>8. \A d \in Conns : agent.lease \notin Leased(ds[d])
  BY <1>2, <1>5 DEF StateInv
<1>9. agent.lease # NoTab => agent.lease \in Tabs /\ v.tab[agent.lease].state # "absent"
  BY PagesAssumption DEF StateInv, TabsGrow, Shown
<1>10. StateInv(ds, v.tab)
  BY <1>1, <1>2, <1>6, <1>7, <1>8, <1>9 DEF StateInv
<1> QED
  BY <1>10 DEF ds

LEMMA ShrinkKeepsInv ==
    ASSUME NEW cs, NEW ts, StateInv(cs, ts), NEW c \in Conns, NEW l, Shrinks(cs[c], l)
    PROVE  StateInv([cs EXCEPT ![c] = l], ts) /\ ConnMoves(cs[c], ts, l)
<1> DEFINE ds == [cs EXCEPT ![c] = l]
<1>1. l \in Connection /\ Resting(l) /\ cs[c] \in Connection /\ Unseen(cs[c], ts)
  BY DEF Shrinks, StateInv
<1>2. /\ ds \in [Conns -> Connection] /\ ds[c] = l
      /\ \A d \in Conns : d # c => ds[d] = cs[d]
  BY <1>1 DEF StateInv
<1> HIDE DEF ds
<1>3. Contexts(l) \subseteq Contexts(cs[c]) /\ Leased(l) \subseteq Leased(cs[c])
      /\ l.revoked \subseteq cs[c].revoked \cup Contexts(cs[c])
  BY DEF Shrinks
<1>4. Unseen(l, ts)
  BY <1>1, <1>3 DEF Unseen, Contexts
<1>5. \A d \in Conns : Resting(ds[d]) /\ Unseen(ds[d], ts) /\ Leased(ds[d]) \subseteq Leased(cs[d])
  BY <1>1, <1>2, <1>3, <1>4 DEF StateInv
<1>6. \A d, e \in Conns : d # e => Leased(ds[d]) \cap Leased(ds[e]) = {}
  BY <1>5 DEF StateInv
<1>7. \A d \in Conns : agent.lease \notin Leased(ds[d])
  BY <1>5 DEF StateInv
<1>8. StateInv(ds, ts)
  BY <1>2, <1>5, <1>6, <1>7 DEF StateInv
<1>9. ConnMoves(cs[c], ts, l)
  BY <1>3 DEF Shrinks, ConnMoves, Contexts
<1> QED
  BY <1>8, <1>9 DEF ds

(* The other connections stay where they are.                              *)
LEMMA StillMoves ==
    ASSUME NEW k, Resting(k), NEW ts
    PROVE  ConnMoves(k, ts, k)
  BY DEF ConnMoves, Resting, Watched

LEMMA OneMoves ==
    ASSUME NEW cs, NEW ts, StateInv(cs, ts), NEW c \in Conns, NEW l, ConnMoves(cs[c], ts, l)
    PROVE  \A d \in Conns : ConnMoves(cs[d], ts, [cs EXCEPT ![c] = l][d])
<1> SUFFICES ASSUME NEW d \in Conns PROVE ConnMoves(cs[d], ts, [cs EXCEPT ![c] = l][d])
  OBVIOUS
<1>1. Resting(cs[d]) /\ DOMAIN cs = Conns
  BY DEF StateInv
<1>2. CASE d = c
  BY <1>1, <1>2
<1>3. CASE d # c
  <2>1. [cs EXCEPT ![c] = l][d] = cs[d]
    BY <1>1, <1>3
  <2> QED
    BY <1>1, <2>1, StillMoves
<1> QED
  BY <1>2, <1>3
-----------------------------------------------------------------------------
(* SetPageYoloModeEnabled answers one connection after the other.          *)
LEMMA AnswerRuns ==
    ASSUME NEW a, NEW active, NEW N \in Nat
    PROVE  \E f : f = [n \in 0..N |-> IF n = 0 THEN a ELSE AnswerNext(f[n - 1], active)]
<1> DEFINE Step(v) == AnswerNext(v, active)
           Runs(f, m) == f = [n \in 0..m |-> IF n = 0 THEN a ELSE Step(f[n - 1])]
           S == {m \in Nat : \E f : Runs(f, m)}
<1> HIDE DEF Step
<1>1. 0 \in S
  <2> DEFINE f == [n \in 0..0 |-> a]
  <2>1. \A n \in 0..0 : n = 0
    OBVIOUS
  <2>2. Runs(f, 0)
    BY <2>1
  <2> QED
    BY <2>2
<1>2. ASSUME NEW m \in Nat, m \in S PROVE m + 1 \in S
  <2>1. PICK f : Runs(f, m)
    BY <1>2
  <2> DEFINE g == [n \in 0..(m + 1) |-> IF n \in 0..m THEN f[n] ELSE Step(f[m])]
  <2>2. \A n \in 0..m : f[n] = IF n = 0 THEN a ELSE Step(f[n - 1])
    BY <2>1
  <2>3. \A n \in 0..(m + 1) : g[n] = IF n = 0 THEN a ELSE Step(g[n - 1])
    BY <2>2
  <2>4. g = [n \in 0..(m + 1) |-> g[n]]
    OBVIOUS
  <2> HIDE DEF g
  <2>5. g = [n \in 0..(m + 1) |-> IF n = 0 THEN a ELSE Step(g[n - 1])]
    BY <2>3, <2>4
  <2> QED
    BY <2>5
<1> HIDE DEF S
<1>3. N \in S
  BY <1>1, <1>2, Counting
<1> QED
  BY <1>3 DEF S, Step

(* What holds after every one of them.                                     *)
Answered(acc) ==
    /\ StateInv(acc.conn, acc.tab) /\ TabsGrow(tab, acc.tab)
    /\ acc.todo \subseteq Conns
    /\ \A d \in acc.todo : acc.conn[d] = conn[d]
    /\ \A d \in Conns : /\ ConnMoves(conn[d], tab, acc.conn[d])
                        /\ Leased(conn[d]) \subseteq Leased(acc.conn[d])

Turns == [todo : SUBSET Conns, conn : [Conns -> Connection], tab : [Tabs -> Shown]]

LEMMA AnswerNextWorks ==
    ASSUME NEW acc \in Turns, Answered(acc), acc.todo # {}, NEW active \in Tabs
    PROVE  LET next == AnswerNext(acc, active) IN
           /\ next \in Turns /\ Answered(next)
           /\ \E c \in acc.todo : next.todo = acc.todo \ {c}
<1> DEFINE c == Min(acc.todo)
           w == WorldOf(c, acc.conn, acc.tab, TRUE, active)
           v == AutoAnswer(w)
           rest == [acc EXCEPT !.todo = @ \ {c}]
           next == AnswerNext(acc, active)
<1>1. c \in acc.todo /\ c \in Conns
  <2>1. acc.todo \subseteq Conns /\ acc.todo \subseteq Nat
    BY PagesAssumption DEF Turns
  <2>2. \E m \in acc.todo : \A s \in acc.todo : m <= s
    BY <2>1, LeastNumber
  <2> QED
    BY <2>1, <2>2 DEF Min
<1>2. next = IF acc.conn[c].phase # "open" THEN rest
             ELSE [rest EXCEPT !.conn[c] = v.k, !.tab = v.tab]
  BY Zenon DEF AnswerNext
<1> HIDE DEF c
<1>3. /\ rest \in Turns /\ rest.todo = acc.todo \ {c}
      /\ rest.conn = acc.conn /\ rest.tab = acc.tab
  BY DEF Turns
<1> HIDE DEF rest, next
<1>4. CASE acc.conn[c].phase # "open"
  <2>1. next = rest
    BY <1>2, <1>4
  <2>2. Answered(rest)
    BY <1>3 DEF Answered
  <2> QED
    BY <1>1, <1>3, <2>1, <2>2 DEF next
<1>5. CASE acc.conn[c].phase = "open"
  <2> DEFINE ds == [acc.conn EXCEPT ![c] = v.k]
  <2>1. StateInv(acc.conn, acc.tab)
    BY DEF Answered
  <2>2. Settled(w) /\ w.k = acc.conn[c] /\ w.tab = acc.tab
    <3> DEFINE auto == TRUE
    <3>1. auto \in BOOLEAN /\ w = WorldOf(c, acc.conn, acc.tab, auto, active)
      OBVIOUS
    <3> HIDE DEF auto, w
    <3> QED
      BY <1>1, <1>5, <2>1, <3>1, WorldIsSettled
  <2>3. Settled(v) /\ Moves(w, v) /\ Leased(acc.conn[c]) \subseteq Leased(v.k)
    BY <1>5, <2>2, AutoAnswerWorks
  <2>4. SameWindow(w, v) /\ TabsGrow(acc.tab, v.tab) /\ ConnMoves(acc.conn[c], acc.tab, v.k)
    BY <2>2, <2>3 DEF Moves
  <2>5. v.k \in Connection /\ v.tab \in [Tabs -> Shown]
    BY <2>3 DEF Settled, Sound, Worlds
  <2>6. StateInv(ds, v.tab)
    BY <1>1, <2>1, <2>3, <2>4, YieldKeepsInv
  <2> HIDE DEF v, w
  <2>7. next = [todo |-> acc.todo \ {c}, conn |-> ds, tab |-> v.tab]
    BY <1>2, <1>3, <1>5 DEF Turns
  <2>8. /\ DOMAIN acc.conn = Conns /\ ds \in [Conns -> Connection] /\ ds[c] = v.k
        /\ \A d \in Conns : d # c => ds[d] = acc.conn[d]
    BY <1>1, <2>5 DEF Turns
  <2> HIDE DEF ds
  <2>9. TabsGrow(tab, v.tab)
    BY <2>4 DEF Answered, TabsGrow
  <2>10. ConnMoves(conn[c], tab, ds[c])
    BY <1>1, <2>4, <2>8 DEF Answered, ConnMoves, TabsGrow, Offered
  <2>11. \A d \in Conns : /\ ConnMoves(conn[d], tab, ds[d])
                          /\ Leased(conn[d]) \subseteq Leased(ds[d])
    BY <2>3, <2>8, <2>10 DEF Answered
  <2>12. next \in Turns /\ next.todo = acc.todo \ {c}
    BY <1>3, <2>5, <2>7, <2>8 DEF Turns
  <2>13. Answered(next)
    BY <2>6, <2>7, <2>8, <2>9, <2>11 DEF Answered
  <2> QED
    BY <1>1, <2>12, <2>13 DEF next
<1> QED
  BY <1>4, <1>5

LEMMA AnswerAllWorks ==
    ASSUME StateInv(conn, tab), NEW active \in Tabs
    PROVE  LET done == AnswerAll(active) IN
           /\ StateInv(done.conn, done.tab) /\ TabsGrow(tab, done.tab)
           /\ \A d \in Conns : /\ ConnMoves(conn[d], tab, done.conn[d])
                               /\ Leased(conn[d]) \subseteq Leased(done.conn[d])
<1> DEFINE N == Cardinality(Asking)
           start == [todo |-> Asking, conn |-> conn, tab |-> tab]
           after == CHOOSE f : f = [n \in 0..N |-> IF n = 0 THEN start
                                                    ELSE AnswerNext(f[n - 1], active)]
           Done(n, acc) == /\ acc \in Turns /\ Answered(acc)
                           /\ IsFiniteSet(acc.todo) /\ Cardinality(acc.todo) = N - n
<1>1. Asking \subseteq Conns /\ IsFiniteSet(Asking) /\ N \in Nat
  BY FS_Subset, FS_CardinalityType, PagesAssumption DEF Asking
<1>2. AnswerAll(active) = after[N]
  BY Zenon DEF AnswerAll
<1>3. Done(0, start)
  <2>1. start \in Turns
    BY <1>1 DEF Turns, StateInv
  <2>2. Answered(start)
    BY <1>1, StillMoves DEF Answered, TabsGrow, StateInv
  <2> QED
    BY <1>1, <2>1, <2>2
<1> HIDE DEF N, start
<1>4. after = [n \in 0..N |-> IF n = 0 THEN start ELSE AnswerNext(after[n - 1], active)]
  BY <1>1, AnswerRuns
<1> HIDE DEF after
<1>5. after[0] = start
      /\ \A n \in 0..N : n # 0 => after[n] = AnswerNext(after[n - 1], active)
  BY <1>1, <1>4
<1>6. ASSUME NEW n \in Nat, n < N, NEW acc, Done(n, acc)
      PROVE  Done(n + 1, AnswerNext(acc, active))
  <2> DEFINE next == AnswerNext(acc, active)
  <2>1. acc.todo # {}
    BY <1>1, <1>6, FS_EmptySet
  <2>2. /\ next \in Turns /\ Answered(next)
        /\ \E c \in acc.todo : next.todo = acc.todo \ {c}
    BY <1>6, <2>1, AnswerNextWorks
  <2> HIDE DEF next
  <2>3. IsFiniteSet(next.todo) /\ Cardinality(next.todo) = N - (n + 1)
    BY <1>1, <1>6, <2>2, FS_RemoveElement
  <2> QED
    BY <2>2, <2>3 DEF next
<1> HIDE DEF Done
<1> DEFINE S == {n \in Nat : n <= N => Done(n, after[n])}
<1>7. 0 \in S
  BY <1>3, <1>5
<1>8. ASSUME NEW n \in Nat, n \in S PROVE n + 1 \in S
  BY <1>1, <1>5, <1>6, <1>8
<1> HIDE DEF S
<1>9. N \in S
  BY <1>1, <1>7, <1>8, Counting
<1>10. Done(N, after[N])
  BY <1>1, <1>9 DEF S
<1> QED
  BY <1>2, <1>10 DEF Done, Answered
-----------------------------------------------------------------------------
(* The steps.  Progress is what every step but a first hello does to the   *)
(* connections.                                                            *)
Progress == \A d \in Conns : ConnMoves(conn[d], tab, conn'[d])

LEMMA InitInv == Init => IInv
<1> SUFFICES ASSUME Init PROVE IInv
  OBVIOUS
<1>1. conn \in [Conns -> Connection] /\ \A c \in Conns : conn[c] = Fresh
  BY FreshIsOK DEF Init
<1>2. tab \in [Tabs -> Shown]
  BY PagesAssumption DEF Init, Shown
<1>3. Resting(Fresh) /\ Contexts(Fresh) = {} /\ Leased(Fresh) = {} /\ Fresh.revoked = {}
  BY DEF Fresh, Resting, Always, Prompts, Revokes, Once, Contexts, Leased
<1>4. Unseen(Fresh, tab)
  BY DEF Fresh, Unseen
<1>5. agent.lease = NoTab /\ agent \in [lease : Tabs \cup {NoTab}, drives : Tabs \cup {NoTab}]
  BY DEF Init
<1>6. yolo \in BOOLEAN
  BY DEF Init
<1> QED
  BY <1>1, <1>2, <1>3, <1>4, <1>5, <1>6 DEF IInv, StateInv

LEMMA BecomesKeepsInv ==
    ASSUME IInv, NEW c \in Conns, NEW l, Shrinks(conn[c], l), Becomes(c, l)
    PROVE  IInv' /\ Progress
<1>1. StateInv(conn, tab)
  BY DEF IInv
<1>2. /\ conn' = [conn EXCEPT ![c] = l] /\ tab' = tab /\ yolo' = yolo /\ agent' = agent
  BY DEF Becomes
<1>3. StateInv(conn', tab) /\ ConnMoves(conn[c], tab, l)
  BY <1>1, <1>2, ShrinkKeepsInv
<1>4. Progress
  BY <1>1, <1>2, <1>3, OneMoves DEF Progress
<1>5. StateInv(conn, tab)'
  BY <1>2, <1>3 DEF StateInv
<1> QED
  BY <1>2, <1>4, <1>5 DEF IInv

LEMMA YieldsKeepsInv ==
    ASSUME IInv, NEW c \in Conns, NEW active, NEW v, Settled(v),
           SameWindow(World(c, active), v), TabsGrow(tab, v.tab),
           ConnMoves(conn[c], tab, v.k), Yields(c, v)
    PROVE  IInv' /\ Progress
<1>1. StateInv(conn, tab)
  BY DEF IInv
<1>2. conn' = [conn EXCEPT ![c] = v.k] /\ tab' = v.tab /\ yolo' = yolo /\ agent' = agent
  BY DEF Yields
<1>3. StateInv(conn', tab')
  BY <1>1, <1>2, YieldKeepsInv DEF World
<1>4. Progress
  BY <1>1, <1>2, OneMoves DEF Progress
<1>5. StateInv(conn, tab)'
  BY <1>2, <1>3 DEF StateInv
<1> QED
  BY <1>2, <1>4, <1>5 DEF IInv

(* Tabs change beside the connections; none is taken back to absence.      *)
LEMMA TabsKeepInv ==
    ASSUME NEW cs, NEW ts, StateInv(cs, ts), NEW us \in [Tabs -> Shown],
           \A t \in Tabs : us[t].state = "absent" => ts[t].state = "absent"
    PROVE  StateInv(cs, us)
  BY DEF StateInv, Unseen

LEMMA WorldFacts ==
    ASSUME IInv, NEW c \in Conns, Open(c), NEW active \in Tabs
    PROVE  /\ Settled(World(c, active)) /\ World(c, active).k = conn[c]
           /\ World(c, active).tab = tab /\ World(c, active).k.phase = "open"
<1>1. StateInv(conn, tab) /\ yolo \in BOOLEAN /\ conn[c].phase = "open"
  BY DEF IInv, Open
<1> QED
  BY <1>1, WorldIsSettled DEF World

(* Timers and prompts that end.                                            *)
LEMMA FlagsShrink ==
    ASSUME NEW k \in Connection, Resting(k), NEW l \in Connection,
           l.phase = k.phase, l.hello = k.hello, l.approval = k.approval,
           l.context = k.context, l.seen = k.seen,
           l.active = k.active, l.sent = k.sent, Queues(l) = Queues(k),
           l.pageReq = k.pageReq, l.candidates = k.candidates, l.revoked = k.revoked,
           l.prompt => k.prompt, l.pagePrompt => k.pagePrompt,
           l.phase = "open" => Watched(l)
    PROVE  Shrinks(k, l)
<1>1. l.pending = k.pending /\ l.running = k.running
  BY DEF Queues
<1>2. Contexts(l) = Contexts(k) /\ Leased(l) = Leased(k)
  BY DEF Contexts, Leased
<1>3. Prompts(l) /\ Revokes(l)
  BY DEF Resting, Always, Prompts, Revokes
<1>4. l.phase = "open" => Drives(l)
  BY <1>1, <1>2 DEF Resting, Always, Drives
<1>5. l.phase = "open" => Accounts(l, {})
  BY <1>1 DEF Resting, Always, Accounts
<1>6. k.phase = "open" => l.approval # "Denied"
  BY DEF Watched
<1>7. l.phase # "open" => Once(l)
  BY DEF Resting, Always, Once
<1> QED
  BY <1>2, <1>3, <1>4, <1>5, <1>6, <1>7 DEF Shrinks, Resting, Always
-----------------------------------------------------------------------------
(* The transport.                                                          *)
LEMMA AcceptStep ==
    ASSUME IInv, NEW c \in Conns, Accept(c)
    PROVE  IInv' /\ Progress
<1> DEFINE l == [Fresh EXCEPT !.phase = "open"]
<1>1. l \in Connection
  BY FreshIsOK DEF Connection, PhaseOK
<1>2. /\ l.phase = "open" /\ ~l.hello /\ l.approval = "NotRequested" /\ ~l.prompt /\ ~l.pagePrompt
      /\ l.context = [t \in Tabs |-> "none"] /\ l.revoked = {} /\ l.pageReq = NoReq
      /\ l.pending = {} /\ l.running = {} /\ l.active = {} /\ l.seen = {}
      /\ l.sent = [r \in Reqs |-> 0]
  BY DEF Fresh
<1> HIDE DEF l
<1>3. Contexts(l) = {} /\ Leased(l) = {}
  BY <1>2 DEF Contexts, Leased
<1>4. Ids({}) = {} /\ Unique({})
  BY DEF Ids, Unique
<1>5. Accounts(l, {})
  BY <1>2, <1>4 DEF Accounts
<1>6. Prompts(l) /\ Revokes(l) /\ Drives(l) /\ Watched(l)
  BY <1>2, <1>3 DEF Prompts, Revokes, Drives, Watched
<1>7. Shrinks(conn[c], l)
  BY <1>1, <1>2, <1>3, <1>5, <1>6 DEF Shrinks, Resting, Always
<1>8. Becomes(c, l)
  BY DEF Accept, l
<1> QED
  BY <1>7, <1>8, BecomesKeepsInv

LEMMA BadHelloStep ==
    ASSUME IInv, NEW c \in Conns, BadHello(c)
    PROVE  IInv' /\ Progress
<1> DEFINE k == conn[c]
           l == [k EXCEPT !.phase = "closing"]
<1>1. k \in Connection /\ Resting(k) /\ k.phase = "open"
  BY DEF IInv, StateInv, BadHello, Open
<1> HIDE DEF k
<1>2. /\ l \in Connection /\ l.phase = "closing" /\ l.hello = k.hello /\ l.approval = k.approval
      /\ l.sent = k.sent
      /\ l.context = k.context /\ Paging(l) = Paging(k) /\ l.prompt = k.prompt
  BY <1>1 DEF Connection, PhaseOK, Paging
<1> HIDE DEF l
<1>3. Contexts(l) = Contexts(k) /\ Leased(l) = Leased(k)
  BY <1>2 DEF Contexts, Leased
<1>4. Prompts(l) /\ Revokes(l) /\ l.revoked = k.revoked
  BY <1>1, <1>2 DEF Resting, Always, Prompts, Revokes, Paging
<1>5. l.approval # "Denied"
  BY <1>1, <1>2 DEF Resting, Watched
<1>6. Once(l)
  BY <1>1, <1>2 DEF Resting, Always, Accounts, Once
<1>7. Shrinks(k, l)
  BY <1>1, <1>2, <1>3, <1>4, <1>5, <1>6 DEF Shrinks, Resting, Always
<1>8. Becomes(c, l)
  BY DEF BadHello, l, k
<1> QED
  BY <1>7, <1>8, BecomesKeepsInv DEF k

LEMMA ClosedStep ==
    ASSUME IInv, NEW c \in Conns, OnConnectionClosed(c)
    PROVE  IInv' /\ Progress
<1> DEFINE k == conn[c]
           l == [Fresh EXCEPT !.phase = "gone", !.seen = k.seen, !.sent = k.sent]
<1>1. k \in Connection /\ Resting(k)
  BY DEF IInv, StateInv
<1> HIDE DEF k
<1>2. k.seen \subseteq Reqs /\ k.sent \in [Reqs -> Nat]
  BY <1>1 DEF Connection
<1>3. l \in Connection
  BY <1>2, FreshIsOK DEF Connection, PhaseOK
<1>4. /\ l.phase = "gone" /\ ~l.hello /\ l.approval = "NotRequested" /\ ~l.prompt /\ ~l.pagePrompt
      /\ l.context = [t \in Tabs |-> "none"] /\ l.revoked = {} /\ l.sent = k.sent
  BY DEF Fresh
<1> HIDE DEF l
<1>5. Contexts(l) = {} /\ Leased(l) = {} /\ Prompts(l) /\ Revokes(l)
  BY <1>4 DEF Contexts, Leased, Prompts, Revokes
<1>6. Shrinks(k, l)
  <2>1. Once(l)
    BY <1>1, <1>4 DEF Resting, Always, Accounts, Once
  <2> QED
    BY <1>3, <1>4, <1>5, <2>1 DEF Shrinks, Resting, Always
<1>7. Becomes(c, l)
  BY DEF OnConnectionClosed, l, k
<1> QED
  BY <1>6, <1>7, BecomesKeepsInv DEF k

LEMMA HelloStep ==
    ASSUME IInv, NEW c \in Conns, HandleHello(c)
    PROVE  /\ IInv'
           /\ \A d \in Conns \ {c} : conn'[d] = conn[d]
                \/ (d \in Victims(c) /\ conn'[d] = RejectConnection(conn[d]))
           /\ conn'[c].context = conn[c].context /\ conn'[c].approval = conn[c].approval
           /\ conn'[c].seen = conn[c].seen
           /\ \/ /\ conn'[c].phase = "closing"
              \/ /\ Cardinality(Admitted(c)) < MaxConnections
              \/ \E d \in Victims(c) : conn'[d].phase = "closing"
<1> DEFINE k == conn[c]
           l == [k EXCEPT !.hello = TRUE]
           q == [k EXCEPT !.phase = "closing"]
<1>1. /\ k \in Connection /\ Resting(k) /\ Unseen(k, tab) /\ k.phase = "open"
      /\ conn \in [Conns -> Connection] /\ StateInv(conn, tab)
  BY DEF IInv, StateInv, HandleHello, Open
<1>2. /\ \/ Cardinality(Admitted(c)) < MaxConnections /\ conn' = [conn EXCEPT ![c] = l]
         \/ conn' = [conn EXCEPT ![c] = q]
         \/ \E d \in Victims(c) :
              conn' = [[conn EXCEPT ![c] = l] EXCEPT ![d] = RejectConnection(conn[d])]
      /\ tab' = tab /\ yolo' = yolo /\ agent' = agent
  <2>1. \A d \in Victims(c) : d \in Conns /\ d # c
    BY DEF Victims, Admitted
  <2>2. [conn EXCEPT ![c].phase = "closing"] = [conn EXCEPT ![c] = q]
    BY <1>1
  <2>3. \A d \in Victims(c) : [conn EXCEPT ![c] = l, ![d] = RejectConnection(@)]
          = [[conn EXCEPT ![c] = l] EXCEPT ![d] = RejectConnection(conn[d])]
    BY <1>1, <2>1
  <2> QED
    BY <2>2, <2>3 DEF HandleHello
<1> HIDE DEF k
<1>3. /\ l \in Connection /\ l.phase = "open" /\ l.approval = k.approval
      /\ l.context = k.context /\ l.prompt = k.prompt /\ Paging(l) = Paging(k)
      /\ Queues(l) = Queues(k) /\ l.default = k.default /\ l.retry = k.retry
      /\ l.approvalTimer = k.approvalTimer /\ l.seen = k.seen /\ l.active = k.active
      /\ l.sent = k.sent
  BY <1>1 DEF Connection, Paging, Queues
<1>4. /\ q \in Connection /\ q.phase = "closing" /\ q.hello = k.hello /\ q.approval = k.approval
      /\ q.context = k.context /\ q.prompt = k.prompt /\ Paging(q) = Paging(k) /\ q.seen = k.seen
      /\ q.sent = k.sent
  BY <1>1 DEF Connection, PhaseOK, Paging
<1> HIDE DEF l, q
(* A connection that has only said hello is as it was.                     *)
<1>5. StateInv([conn EXCEPT ![c] = l], tab)
  <2> DEFINE cs == [conn EXCEPT ![c] = l]
  <2>1. Contexts(l) = Contexts(k) /\ Leased(l) = Leased(k)
    BY <1>3 DEF Contexts, Leased
  <2>2. /\ l.pageReq = k.pageReq /\ l.candidates = k.candidates /\ l.pagePrompt = k.pagePrompt
        /\ l.revoked = k.revoked /\ l.pending = k.pending /\ l.running = k.running
    BY <1>3 DEF Paging, Queues
  <2>3. Prompts(l) /\ Revokes(l) /\ Drives(l) /\ Watched(l) /\ Unseen(l, tab)
    BY <1>1, <1>3, <2>1, <2>2 DEF Resting, Always, Prompts, Revokes, Drives, Watched, Unseen
  <2>4. Accounts(l, {})
    BY <1>1, <1>3, <2>2 DEF Resting, Always, Accounts
  <2>5. Resting(l)
    BY <1>3, <2>3, <2>4 DEF Resting, Always
  <2>6. cs \in [Conns -> Connection] /\ cs[c] = l /\ \A d \in Conns : d # c => cs[d] = conn[d]
    BY <1>1, <1>3
  <2> HIDE DEF cs
  <2>7. \A d \in Conns : /\ Resting(cs[d]) /\ Unseen(cs[d], tab)
                         /\ Leased(cs[d]) = Leased(conn[d])
    BY <1>1, <2>1, <2>3, <2>5, <2>6 DEF StateInv, k
  <2>8. StateInv(cs, tab)
    BY <1>1, <2>6, <2>7 DEF StateInv
  <2> QED
    BY <2>8 DEF cs
<1>6. CASE Cardinality(Admitted(c)) < MaxConnections /\ conn' = [conn EXCEPT ![c] = l]
  <2>1. StateInv(conn, tab)'
    BY <1>2, <1>5, <1>6 DEF StateInv
  <2>2. conn'[c] = l /\ \A d \in Conns \ {c} : conn'[d] = conn[d]
    BY <1>1, <1>6
  <2> QED
    BY <1>2, <1>3, <1>6, <2>1, <2>2 DEF IInv, k
<1>7. CASE conn' = [conn EXCEPT ![c] = q]
  <2>1. Contexts(q) = Contexts(k) /\ Leased(q) = Leased(k)
    BY <1>4 DEF Contexts, Leased
  <2>2. Prompts(q) /\ Revokes(q) /\ q.revoked = k.revoked
    BY <1>1, <1>4 DEF Resting, Always, Prompts, Revokes, Paging
  <2>3. q.approval # "Denied"
    BY <1>1, <1>4 DEF Resting, Watched
  <2>4. Shrinks(k, q)
    <3>1. Once(q)
      BY <1>1, <1>4 DEF Resting, Always, Accounts, Once
    <3> QED
      BY <1>1, <1>4, <2>1, <2>2, <2>3, <3>1 DEF Shrinks, Resting, Always
  <2>5. StateInv(conn', tab)
    BY <1>1, <1>7, <2>4, ShrinkKeepsInv DEF k
  <2>6. StateInv(conn, tab)'
    BY <1>2, <2>5 DEF StateInv
  <2>7. conn'[c] = q /\ \A d \in Conns \ {c} : conn'[d] = conn[d]
    BY <1>1, <1>7
  <2> QED
    BY <1>2, <1>4, <2>6, <2>7 DEF IInv, k
<1>8. ASSUME NEW d \in Victims(c),
             conn' = [[conn EXCEPT ![c] = l] EXCEPT ![d] = RejectConnection(conn[d])]
      PROVE  /\ StateInv(conn, tab)' /\ conn'[c] = l
             /\ conn'[d] = RejectConnection(conn[d]) /\ conn'[d].phase = "closing"
             /\ \A e \in Conns \ {c, d} : conn'[e] = conn[e]
  <2>1. d \in Conns /\ d # c
    BY DEF Victims, Admitted
  <2> DEFINE cs == [conn EXCEPT ![c] = l]
             r == RejectConnection(conn[d])
  <2>2. cs[d] = conn[d] /\ cs[c] = l /\ cs \in [Conns -> Connection]
    BY <1>1, <1>3, <2>1
  <2>3. conn[d] \in Connection /\ Always(conn[d], {})
    BY <1>1, <2>1 DEF StateInv, Resting
  <2>4. Shrinks(cs[d], r) /\ r.phase = "closing" /\ r \in Connection
    BY <2>2, <2>3, RejectShrinks, RejectFacts
  <2>5. StateInv(cs, tab)
    BY <1>5
  <2>6. \A e \in Conns : e # c => cs[e] = conn[e]
    BY <1>1
  <2> HIDE DEF cs, r
  <2>7. StateInv([cs EXCEPT ![d] = r], tab)
    BY <2>1, <2>4, <2>5, ShrinkKeepsInv
  <2>8. conn' = [cs EXCEPT ![d] = r]
    BY <1>8 DEF cs, r
  <2>9. StateInv(conn, tab)'
    BY <1>2, <2>7, <2>8 DEF StateInv
  <2>10. conn'[c] = l /\ conn'[d] = r /\ \A e \in Conns \ {c, d} : conn'[e] = conn[e]
    BY <2>1, <2>2, <2>6, <2>8
  <2> QED
    BY <2>4, <2>9, <2>10 DEF r
<1>9. CASE \E d \in Victims(c) :
              conn' = [[conn EXCEPT ![c] = l] EXCEPT ![d] = RejectConnection(conn[d])]
  <2>1. PICK d \in Victims(c) :
              conn' = [[conn EXCEPT ![c] = l] EXCEPT ![d] = RejectConnection(conn[d])]
    BY <1>9
  <2>2. /\ StateInv(conn, tab)' /\ conn'[c] = l
        /\ conn'[d] = RejectConnection(conn[d]) /\ conn'[d].phase = "closing"
        /\ \A e \in Conns \ {c, d} : conn'[e] = conn[e]
    BY <1>8, <2>1
  <2> QED
    BY <1>2, <1>3, <2>2 DEF IInv, k
<1> QED
  BY <1>2, <1>6, <1>7, <1>9
-----------------------------------------------------------------------------
(* The client's calls.                                                     *)
LEMMA ToolsCallStep ==
    ASSUME IInv, NEW c \in Conns, ToolsCall(c)
    PROVE  IInv' /\ Progress
<1>1. PICK call \in Calls, active \in Tabs :
        /\ call.id \notin conn[c].seen
        /\ call.kind = "switch" => call.tab # NoTab
        /\ Yields(c, HandleToolsCall(World(c, active), call))
  BY DEF ToolsCall
<1> DEFINE w == World(c, active)
           v == HandleToolsCall(w, call)
<1>2. Settled(w) /\ w.k = conn[c] /\ w.tab = tab /\ w.k.phase = "open"
  BY WorldFacts DEF ToolsCall
<1>3. Settled(v) /\ Moves(w, v)
  BY <1>1, <1>2, ToolsCallWorks
<1>4. SameWindow(w, v) /\ TabsGrow(tab, v.tab) /\ ConnMoves(conn[c], tab, v.k) /\ Yields(c, v)
  BY <1>1, <1>2, <1>3 DEF Moves
<1> QED
  BY <1>3, <1>4, YieldsKeepsInv

LEMMA ToolsCancelStep ==
    ASSUME IInv, NEW c \in Conns, ToolsCancel(c)
    PROVE  IInv' /\ Progress
<1>1. conn[c] \in Connection /\ Resting(conn[c]) /\ conn[c].phase = "open"
  BY DEF IInv, StateInv, ToolsCancel, Open
<1>2. PICK id \in conn[c].active : Becomes(c, HandleToolsCancel(conn[c], id))
  BY DEF ToolsCancel
<1> QED
  BY <1>1, <1>2, ToolsCancelShrinks, BecomesKeepsInv
-----------------------------------------------------------------------------
(* The user's answers.                                                     *)
LEMMA UserDecidesStep ==
    ASSUME IInv, NEW c \in Conns, UserDecides(c)
    PROVE  IInv' /\ Progress
<1>1. CASE Open(c) /\ conn[c].approval = "Pending"
  <2>1. PICK allowed \in BOOLEAN, late \in BOOLEAN, active \in Tabs :
          Yields(c, OnApprovalResult(World(c, active), allowed, late))
    BY <1>1 DEF UserDecides
  <2> DEFINE w == World(c, active)
             v == OnApprovalResult(w, allowed, late)
  <2>2. Settled(w) /\ w.k = conn[c] /\ w.tab = tab /\ w.k.phase = "open"
    BY <1>1, WorldFacts
  <2>3. Settled(v) /\ Moves(w, v)
    BY <1>1, <2>2, ApprovalWorks
  <2>4. SameWindow(w, v) /\ TabsGrow(tab, v.tab) /\ ConnMoves(conn[c], tab, v.k) /\ Yields(c, v)
    BY <2>1, <2>2, <2>3 DEF Moves
  <2> QED
    BY <2>3, <2>4, YieldsKeepsInv
<1>2. CASE ~(Open(c) /\ conn[c].approval = "Pending")
  <2> DEFINE k == conn[c]
             l == [k EXCEPT !.prompt = FALSE]
  <2>1. k \in Connection /\ Resting(k)
    BY DEF IInv, StateInv
  <2> HIDE DEF k
  <2>2. /\ l \in Connection /\ l.phase = k.phase /\ l.hello = k.hello /\ l.approval = k.approval
        /\ l.context = k.context /\ l.default = k.default /\ l.retry = k.retry
        /\ l.approvalTimer = k.approvalTimer /\ l.seen = k.seen /\ l.active = k.active
        /\ l.sent = k.sent /\ Queues(l) = Queues(k) /\ Paging(l) = Paging(k) /\ ~l.prompt
    BY <2>1 DEF Connection, Queues, Paging
  <2> HIDE DEF l
  <2>3. /\ l.pageReq = k.pageReq /\ l.candidates = k.candidates /\ l.revoked = k.revoked
        /\ l.pagePrompt = k.pagePrompt /\ l.pending = k.pending /\ l.running = k.running
        /\ Contexts(l) = Contexts(k) /\ Leased(l) = Leased(k)
    BY <2>2 DEF Paging, Queues, Contexts, Leased
  <2>4. l.phase = "open" => Watched(l)
    BY <2>1, <2>2, <2>3 DEF Resting, Watched
  <2>5. Shrinks(k, l)
    BY <2>1, <2>2, <2>3, <2>4, FlagsShrink
  <2>6. Becomes(c, l)
    BY <1>2 DEF UserDecides, l, k
  <2> QED
    BY <2>5, <2>6, BecomesKeepsInv DEF k
<1> QED
  BY <1>1, <1>2

LEMMA UserPicksPageStep ==
    ASSUME IInv, NEW c \in Conns, UserPicksPage(c)
    PROVE  IInv' /\ Progress
<1>1. CASE Open(c) /\ conn[c].approval = "Allowed"
  <2>1. PICK t \in Tabs \cup {NoTab}, active \in Tabs :
          Yields(c, OnTabAccessResult(World(c, active), t))
    BY <1>1 DEF UserPicksPage
  <2> DEFINE w == World(c, active)
             v == OnTabAccessResult(w, t)
  <2>2. Settled(w) /\ w.k = conn[c] /\ w.tab = tab /\ w.k.phase = "open"
    BY <1>1, WorldFacts
  <2>3. conn[c].pageReq # NoReq
    BY DEF UserPicksPage, IInv, StateInv, Resting, Always, Prompts
  <2>4. Settled(v) /\ Moves(w, v)
    BY <2>2, <2>3, PickerWorks
  <2>5. SameWindow(w, v) /\ TabsGrow(tab, v.tab) /\ ConnMoves(conn[c], tab, v.k) /\ Yields(c, v)
    BY <2>1, <2>2, <2>4 DEF Moves
  <2> QED
    BY <2>4, <2>5, YieldsKeepsInv
<1>2. CASE ~(Open(c) /\ conn[c].approval = "Allowed")
  <2> DEFINE k == conn[c]
             l == [k EXCEPT !.pagePrompt = FALSE]
  <2>1. k \in Connection /\ Resting(k)
    BY DEF IInv, StateInv
  <2> HIDE DEF k
  <2>2. /\ l \in Connection /\ Standing(l) = Standing(k) /\ Queues(l) = Queues(k)
        /\ l.active = k.active /\ l.sent = k.sent /\ ~l.pagePrompt
        /\ l.pageReq = k.pageReq /\ l.candidates = k.candidates /\ l.revoked = k.revoked
    BY <2>1 DEF Connection, Queues, Standing
  <2> HIDE DEF l
  <2>3. /\ l.phase = k.phase /\ l.hello = k.hello /\ l.approval = k.approval
        /\ l.context = k.context /\ l.default = k.default /\ l.retry = k.retry
        /\ l.approvalTimer = k.approvalTimer /\ l.seen = k.seen /\ l.prompt = k.prompt
        /\ l.pending = k.pending /\ l.running = k.running
    BY <2>2 DEF Standing, Queues
  <2>4. Contexts(l) = Contexts(k) /\ Leased(l) = Leased(k)
    BY <2>3 DEF Contexts, Leased
  <2>5. l.phase = "open" => Watched(l)
    BY <2>1, <2>2, <2>3, <2>4 DEF Resting, Watched
  <2>6. Shrinks(k, l)
    BY <2>1, <2>2, <2>3, <2>5, FlagsShrink
  <2>7. Becomes(c, l)
    BY <1>2 DEF UserPicksPage, l, k
  <2> QED
    BY <2>6, <2>7, BecomesKeepsInv DEF k
<1> QED
  BY <1>1, <1>2

LEMMA StopControlStep ==
    ASSUME IInv, NEW c \in Conns, StopControl(c)
    PROVE  IInv' /\ Progress
<1>1. conn[c] \in Connection /\ Always(conn[c], {})
  BY DEF IInv, StateInv, Resting
<1>2. Becomes(c, RejectConnection(conn[c]))
  BY DEF StopControl
<1> QED
  BY <1>1, <1>2, RejectShrinks, BecomesKeepsInv

LEMMA UserRevokesTabStep ==
    ASSUME IInv, NEW c \in Conns, UserRevokesTab(c)
    PROVE  IInv' /\ Progress
<1>1. conn[c] \in Connection /\ Resting(conn[c]) /\ conn[c].phase = "open"
  BY DEF IInv, StateInv, UserRevokesTab, Open
<1>2. PICK t \in Contexts(conn[c]) : Becomes(c, RevokeTab(conn[c], t))
  BY DEF UserRevokesTab
<1> QED
  BY <1>1, <1>2, RevokedShrinks, BecomesKeepsInv
-----------------------------------------------------------------------------
(* Timers, executors and the lifecycle monitor.                            *)
LEMMA ApprovalTimeoutStep ==
    ASSUME IInv, NEW c \in Conns, OnApprovalTimeout(c)
    PROVE  IInv' /\ Progress
<1> DEFINE k == conn[c]
           l == [k EXCEPT !.approvalTimer = FALSE]
           unleased == l.default \in Contexts(l) \ Leased(l)
           ends == l.approval = "Pending" \/ (l.approval = "Allowed" /\ unleased)
<1>1. k \in Connection /\ Resting(k)
  BY DEF IInv, StateInv
<1>2. Becomes(c, IF ends THEN RejectConnection(l) ELSE l)
  BY Zenon DEF OnApprovalTimeout
<1> HIDE DEF k
<1>3. /\ l \in Connection /\ l.phase = k.phase /\ l.hello = k.hello /\ l.approval = k.approval
      /\ l.context = k.context /\ l.default = k.default /\ l.retry = k.retry
      /\ l.seen = k.seen /\ l.active = k.active /\ l.prompt = k.prompt
      /\ l.sent = k.sent /\ Queues(l) = Queues(k) /\ Paging(l) = Paging(k)
  BY <1>1 DEF Connection, Queues, Paging
<1> HIDE DEF l
<1>4. /\ l.pageReq = k.pageReq /\ l.candidates = k.candidates /\ l.revoked = k.revoked
      /\ l.pagePrompt = k.pagePrompt /\ l.pending = k.pending /\ l.running = k.running
      /\ Contexts(l) = Contexts(k) /\ Leased(l) = Leased(k)
  BY <1>3 DEF Paging, Queues, Contexts, Leased
<1>5. CASE ~ends
  <2>1. l.phase = "open" => Watched(l)
    BY <1>1, <1>3, <1>4, <1>5 DEF Resting, Watched, Contexts, Leased
  <2>2. Shrinks(k, l)
    BY <1>1, <1>3, <1>4, <2>1, FlagsShrink
  <2> QED
    BY <1>2, <1>5, <2>2, BecomesKeepsInv DEF k
<1>6. CASE ends
  <2>1. Always(l, {})
    <3>1. Prompts(l) /\ Revokes(l)
      BY <1>1, <1>3, <1>4 DEF Resting, Always, Prompts, Revokes
    <3>2. l.phase = "open" => Drives(l)
      BY <1>1, <1>3, <1>4 DEF Resting, Always, Drives
    <3>3. l.phase = "open" => Accounts(l, {})
      BY <1>1, <1>3, <1>4 DEF Resting, Always, Accounts
    <3>4. l.phase # "open" => Once(l)
      BY <1>1, <1>3 DEF Resting, Always, Once
    <3> QED
      BY <3>1, <3>2, <3>3, <3>4 DEF Always
  <2>2. Shrinks(l, RejectConnection(l))
    BY <1>3, <2>1, RejectShrinks
  <2>3. Shrinks(k, RejectConnection(l))
    BY <1>3, <1>4, <2>2 DEF Shrinks
  <2> QED
    BY <1>2, <1>6, <2>3, BecomesKeepsInv DEF k
<1> QED
  BY <1>5, <1>6

LEMMA PageTimeoutStep ==
    ASSUME IInv, NEW c \in Conns, OnPageTimeout(c)
    PROVE  IInv' /\ Progress
<1>1. conn[c] \in Connection /\ Resting(conn[c])
  BY DEF IInv, StateInv
<1>2. Becomes(c, CancelTabAccess(conn[c]))
  BY DEF OnPageTimeout
<1> QED
  BY <1>1, <1>2, CancelTabAccessShrinks, BecomesKeepsInv

LEMMA RetryLeaseStep ==
    ASSUME IInv, NEW c \in Conns, RetryLease(c)
    PROVE  IInv' /\ Progress
<1> DEFINE k == conn[c]
           l == [k EXCEPT !.retry = FALSE]
<1>1. k \in Connection /\ Resting(k)
  BY DEF IInv, StateInv
<1>2. /\ l \in Connection /\ l.phase = k.phase /\ l.hello = k.hello /\ l.approval = k.approval
      /\ l.context = k.context /\ l.default = k.default /\ l.approvalTimer = k.approvalTimer
      /\ l.seen = k.seen /\ l.active = k.active /\ l.prompt = k.prompt
      /\ l.sent = k.sent /\ Queues(l) = Queues(k) /\ Paging(l) = Paging(k)
  BY <1>1 DEF Connection, Queues, Paging
<1>3. \/ /\ Open(c) /\ l.approval = "Allowed"
         /\ \E late \in BOOLEAN, active \in Tabs :
              Yields(c, TryAcquireExternalLease([World(c, active) EXCEPT !.k = l], late))
      \/ ~(Open(c) /\ l.approval = "Allowed") /\ Becomes(c, l)
  BY Zenon DEF RetryLease
<1> HIDE DEF l, k
<1>4. /\ l.pageReq = k.pageReq /\ l.candidates = k.candidates /\ l.revoked = k.revoked
      /\ l.pagePrompt = k.pagePrompt /\ l.pending = k.pending /\ l.running = k.running
      /\ Contexts(l) = Contexts(k) /\ Leased(l) = Leased(k)
  BY <1>2 DEF Paging, Queues, Contexts, Leased
<1>5. CASE ~(Open(c) /\ l.approval = "Allowed")
  <2>1. Becomes(c, l)
    BY <1>3, <1>5
  <2>2. l.phase = "open" => Watched(l)
    BY <1>1, <1>2, <1>4, <1>5 DEF Resting, Watched, Open, k
  <2>3. Shrinks(k, l)
    BY <1>1, <1>2, <1>4, <2>2, FlagsShrink
  <2> QED
    BY <2>1, <2>3, BecomesKeepsInv DEF k
<1>6. CASE Open(c) /\ l.approval = "Allowed"
  <2>1. PICK late \in BOOLEAN, active \in Tabs :
          Yields(c, TryAcquireExternalLease([World(c, active) EXCEPT !.k = l], late))
    BY <1>3, <1>6
  <2> DEFINE x == World(c, active)
             w == [x EXCEPT !.k = l]
             v == TryAcquireExternalLease(w, late)
  <2>2. Settled(x) /\ x.k = k /\ x.tab = tab /\ k.phase = "open"
    BY <1>6, WorldFacts DEF k
  <2> HIDE DEF x
  <2>3. w \in Worlds /\ w.k = l /\ w.tab = tab /\ SameWindow(x, w)
    BY <1>2, <2>2 DEF Settled, Sound, Worlds, SameWindow
  <2>4. Prompts(l) /\ Revokes(l) /\ Drives(l) /\ Unseen(l, tab)
    BY <1>1, <1>2, <1>4, <2>2 DEF Settled, Sound, Always, Prompts, Revokes, Drives, Unseen
  <2>5. Accounts(l, {})
    BY <1>2, <1>4, <2>2 DEF Settled, Sound, Always, Accounts
  <2>6. Sound(w, {})
    BY <1>2, <1>4, <2>2, <2>3, <2>4, <2>5 DEF Settled, Sound, Always, SameWindow
  <2>7. Trying(w, {})
    BY <1>2, <1>4, <1>6, <2>2, <2>3, <2>6 DEF Trying, Settled, Watched
  <2>8. Settled(v) /\ Moves(w, v)
    BY <2>7, TryWorks
  <2>9. SameWindow(x, v) /\ TabsGrow(tab, v.tab) /\ ConnMoves(l, tab, v.k)
    BY <2>3, <2>8 DEF Moves, SameWindow
  <2>10. ConnMoves(k, tab, v.k)
    BY <1>2, <1>4, <2>9 DEF ConnMoves, Offered
  <2>11. Yields(c, v)
    BY <2>1 DEF x
  <2> QED
    BY <2>8, <2>9, <2>10, <2>11, YieldsKeepsInv DEF k, x
<1> QED
  BY <1>5, <1>6

LEMMA CompleteCallStep ==
    ASSUME IInv, NEW c \in Conns, CompleteCall(c)
    PROVE  IInv' /\ Progress
<1> DEFINE k == conn[c]
<1>1. k \in Connection /\ Resting(k) /\ StateInv(conn, tab)
  BY DEF IInv, StateInv
<1>2. PICK call \in k.running :
        /\ conn' = [conn EXCEPT ![c] = Complete([k EXCEPT !.running = @ \ {call}], {call.id})]
        /\ tab' = IF call.kind = "close" /\ Usable([tab |-> tab], call.tab)
                    THEN [tab EXCEPT ![call.tab].state = "gone"] ELSE tab
        /\ UNCHANGED <<yolo, agent>>
  BY DEF CompleteCall
<1> DEFINE l == Complete([k EXCEPT !.running = @ \ {call}], {call.id})
<1>3. conn' = [conn EXCEPT ![c] = l]
  BY <1>1, <1>2 DEF StateInv
<1>4. Shrinks(k, l)
  BY <1>1, CompletedCallShrinks
<1> HIDE DEF l
<1>5. StateInv(conn', tab) /\ ConnMoves(k, tab, l)
  BY <1>1, <1>3, <1>4, ShrinkKeepsInv
<1>6. tab' \in [Tabs -> Shown] /\ \A t \in Tabs : tab'[t].state = "absent" => tab[t].state = "absent"
  <2>1. tab \in [Tabs -> Shown]
    BY <1>1 DEF StateInv
  <2> QED
    BY <1>2, <2>1 DEF Shown
<1>7. StateInv(conn', tab')
  BY <1>5, <1>6, TabsKeepInv
<1>8. StateInv(conn, tab)'
  BY <1>2, <1>7 DEF StateInv
<1>9. Progress
  BY <1>1, <1>3, <1>5, OneMoves DEF Progress
<1> QED
  BY <1>2, <1>8, <1>9 DEF IInv

LEMMA TargetInvalidatedStep ==
    ASSUME IInv, NEW c \in Conns, TargetInvalidated(c)
    PROVE  IInv' /\ Progress
<1> DEFINE k == conn[c]
<1>1. k \in Connection /\ Resting(k) /\ k.phase = "open"
  BY DEF IInv, StateInv, TargetInvalidated, Open
<1>2. PICK t \in Contexts(k) : Becomes(c, OnTargetInvalidated(k, t))
  BY DEF TargetInvalidated
<1> HIDE DEF k
<1>3. /\ Prompts(k) /\ Drives(k) /\ Accounts(k, {}) /\ Watched(k)
      /\ k.revoked # {} => k.pageReq # NoReq
      /\ \A s \in k.revoked : (s = t \/ k.context[s] = "none")
                              /\ \A p \in k.candidates : p.tab # s
  BY <1>1 DEF Resting, Always, Revokes
<1>4. Shrinks(k, OnTargetInvalidated(k, t))
  BY <1>1, <1>3, InvalidatedShrinks
<1> QED
  BY <1>2, <1>4, BecomesKeepsInv DEF k

LEMMA YoloStep ==
    ASSUME IInv, NEW enabled \in BOOLEAN, SetPageYoloModeEnabled(enabled)
    PROVE  IInv' /\ Progress
<1>1. StateInv(conn, tab) /\ yolo' \in BOOLEAN /\ agent' = agent
  BY DEF IInv, SetPageYoloModeEnabled
<1>2. CASE enabled
  <2>1. PICK active \in Tabs : conn' = AnswerAll(active).conn /\ tab' = AnswerAll(active).tab
    BY <1>2 DEF SetPageYoloModeEnabled
  <2> DEFINE done == AnswerAll(active)
  <2>2. /\ StateInv(done.conn, done.tab)
        /\ \A d \in Conns : ConnMoves(conn[d], tab, done.conn[d])
    BY <1>1, AnswerAllWorks
  <2> HIDE DEF done
  <2>3. conn' = done.conn /\ tab' = done.tab
    BY <2>1 DEF done
  <2>4. StateInv(conn, tab)' /\ Progress
    BY <1>1, <2>2, <2>3 DEF StateInv, Progress
  <2> QED
    BY <1>1, <2>4 DEF IInv
<1>3. CASE ~enabled
  <2>1. conn' = conn /\ tab' = tab
    BY <1>3 DEF SetPageYoloModeEnabled
  <2>2. Progress
    BY <1>1, <2>1, StillMoves DEF StateInv, Progress
  <2>3. StateInv(conn, tab)'
    BY <1>1, <2>1 DEF StateInv
  <2> QED
    BY <1>1, <2>2, <2>3 DEF IInv
<1> QED
  BY <1>2, <1>3
-----------------------------------------------------------------------------
(* The pages and Dao Agent.                                                *)
LEMMA PagesStep ==
    ASSUME IInv, NEW t \in Tabs, Navigate(t) \/ CloseTab(t)
    PROVE  IInv' /\ Progress
<1>1. conn' = conn /\ yolo' = yolo /\ agent' = agent /\ StateInv(conn, tab)
  BY DEF Navigate, CloseTab, IInv
<1>2. tab' \in [Tabs -> Shown] /\ \A u \in Tabs : tab'[u].state = "absent" => tab[u].state = "absent"
  <2>1. tab \in [Tabs -> Shown] /\ MaxDoc \in Nat
    BY <1>1, PagesAssumption DEF StateInv
  <2>2. CASE Navigate(t)
    <3>1. PICK s \in {"ok", "forbidden"} :
            tab' = [tab EXCEPT ![t] = [state |-> s, doc |-> @.doc + 1]]
      BY <2>2 DEF Navigate
    <3>2. tab[t].doc \in 0..MaxDoc /\ tab[t].doc < MaxDoc
      BY <2>1, <2>2 DEF Navigate, Shown
    <3>3. [state |-> s, doc |-> tab[t].doc + 1] \in Shown
      BY <2>1, <3>2 DEF Shown
    <3> QED
      BY <2>1, <3>1, <3>3
  <2>3. CASE CloseTab(t)
    <3>1. tab' = [tab EXCEPT ![t] = [@ EXCEPT !.state = "gone"]]
      BY <2>3 DEF CloseTab
    <3>2. [tab[t] EXCEPT !.state = "gone"] \in Shown
      BY <2>1 DEF Shown
    <3> QED
      BY <2>1, <3>1, <3>2
  <2> QED
    BY <2>2, <2>3
<1>3. StateInv(conn, tab')
  BY <1>1, <1>2, TabsKeepInv
<1>4. StateInv(conn, tab)'
  BY <1>1, <1>3 DEF StateInv
<1>5. Progress
  BY <1>1, StillMoves DEF StateInv, Progress
<1> QED
  BY <1>1, <1>4, <1>5 DEF IInv

LEMMA AgentStep ==
    ASSUME IInv, (\E t \in Tabs : BeginAgentTurn(t) \/ AgentSwitchTab(t)) \/ EndAgentTurn
    PROVE  IInv' /\ Progress
<1>1. conn' = conn /\ yolo' = yolo /\ tab' = tab /\ StateInv(conn, tab)
  BY DEF BeginAgentTurn, AgentSwitchTab, EndAgentTurn, IInv
<1>2. /\ agent' \in [lease : Tabs \cup {NoTab}, drives : Tabs \cup {NoTab}]
      /\ \A c \in Conns : agent'.lease \notin Leased(conn[c])
      /\ agent'.lease # NoTab => agent'.lease \in Tabs /\ tab[agent'.lease].state # "absent"
  <2>1. agent \in [lease : Tabs \cup {NoTab}, drives : Tabs \cup {NoTab}]
    BY DEF IInv
  <2>2. ASSUME NEW t \in Tabs, BeginAgentTurn(t)
        PROVE  /\ agent' \in [lease : Tabs \cup {NoTab}, drives : Tabs \cup {NoTab}]
               /\ \A c \in Conns : agent'.lease \notin Leased(conn[c])
               /\ agent'.lease # NoTab => agent'.lease \in Tabs /\ tab[agent'.lease].state # "absent"
    BY <2>2 DEF BeginAgentTurn
  <2>3. ASSUME NEW t \in Tabs, AgentSwitchTab(t)
        PROVE  /\ agent' \in [lease : Tabs \cup {NoTab}, drives : Tabs \cup {NoTab}]
               /\ agent'.lease = agent.lease
    BY <2>1, <2>3 DEF AgentSwitchTab
  <2>4. CASE EndAgentTurn
    <3>1. agent' = [lease |-> NoTab, drives |-> NoTab]
      BY <2>4 DEF EndAgentTurn
    <3> QED
      BY <3>1, PagesAssumption DEF Leased
  <2> QED
    BY <1>1, <2>2, <2>3, <2>4 DEF StateInv
<1>3. StateInv(conn, tab)'
  BY <1>1, <1>2 DEF StateInv
<1>4. Progress
  BY <1>1, StillMoves DEF StateInv, Progress
<1> QED
  BY <1>1, <1>2, <1>3, <1>4 DEF IInv

LEMMA NextStep ==
    ASSUME IInv, Next
    PROVE  IInv' /\ (Progress \/ \E c \in Conns : HandleHello(c))
<1>1. ASSUME NEW c \in Conns, OfService(c) PROVE IInv' /\ Progress
  BY <1>1, ApprovalTimeoutStep, PageTimeoutStep, RetryLeaseStep, CompleteCallStep,
     TargetInvalidatedStep DEF OfService
<1>2. ASSUME NEW c \in Conns, OfClient(c) PROVE IInv' /\ (Progress \/ HandleHello(c))
  BY <1>2, AcceptStep, HelloStep, BadHelloStep, ClosedStep, ToolsCallStep, ToolsCancelStep
  DEF OfClient
<1>3. ASSUME NEW c \in Conns, OfUser(c) PROVE IInv' /\ Progress
  BY <1>3, UserDecidesStep, UserPicksPageStep, StopControlStep, UserRevokesTabStep DEF OfUser
<1>4. CASE \E enabled \in BOOLEAN : SetPageYoloModeEnabled(enabled)
  BY <1>4, YoloStep
<1>5. CASE \E t \in Tabs : Navigate(t) \/ CloseTab(t)
  BY <1>5, PagesStep
<1>6. CASE (\E t \in Tabs : BeginAgentTurn(t) \/ AgentSwitchTab(t)) \/ EndAgentTurn
  BY <1>6, AgentStep
<1> QED
  BY <1>1, <1>2, <1>3, <1>4, <1>5, <1>6 DEF Next

LEMMA StutterStep == ASSUME IInv, UNCHANGED vars PROVE IInv' /\ Progress
<1>1. conn' = conn /\ tab' = tab /\ yolo' = yolo /\ agent' = agent
  BY DEF vars
<1>2. IInv'
  BY <1>1 DEF IInv, StateInv
<1>3. Progress
  BY <1>1, StillMoves DEF IInv, StateInv, Progress
<1> QED
  BY <1>2, <1>3

THEOREM Invariance == Spec => []IInv
<1>1. Init => IInv
  BY InitInv
<1>2. IInv /\ [Next]_vars => IInv'
  BY NextStep, StutterStep
<1> QED
  BY <1>1, <1>2, PTL DEF Spec
-----------------------------------------------------------------------------
(* The parts of the invariant, one by one.                                 *)
LEMMA RecordTypes ==
    ASSUME NEW k \in Connection
    PROVE  /\ DOMAIN k = DOMAIN Fresh
           /\ k.phase \in PhaseOK /\ k.approval \in ApprovalState
           /\ {k.hello, k.canCreate, k.retry, k.approvalTimer, k.prompt, k.pagePrompt}
                \subseteq BOOLEAN
           /\ k.context \in [Tabs -> {"none", "granted", "leased"}]
           /\ k.default \in Tabs \cup {NoTab} /\ k.initial \in Pages \cup {NoPage}
           /\ k.pageReq \in Reqs \cup {NoReq} /\ k.pageTab \in Tabs \cup {NoTab}
           /\ k.candidates \subseteq Pages /\ k.pending \cup k.running \subseteq Calls
           /\ \A x \in k.pending \cup k.running : WindowScoped(x) \/ x.tab \in Tabs
           /\ k.active \cup k.seen \subseteq Reqs /\ k.sent \in [Reqs -> Nat]
<1>1. DOMAIN k = DOMAIN Fresh
  BY DEF Connection, Fresh
<1>2. k.pending \cup k.running \subseteq Placed
  BY DEF Connection
<1>3. /\ k.pending \cup k.running \subseteq Calls
      /\ \A x \in k.pending \cup k.running : WindowScoped(x) \/ x.tab \in Tabs
  BY <1>2 DEF Placed
<1> QED
  BY <1>1, <1>3 DEF Connection, Grants

(* Every record of the service keeps its shape, for any number of clients, *)
(* tabs and calls.                                                         *)
THEOREM TypesHold == Spec => []TypeOK
<1>1. IInv => TypeOK
  <2> SUFFICES ASSUME IInv PROVE TypeOK
    OBVIOUS
  <2>1. conn \in [Conns -> Connection] /\ tab \in [Tabs -> Shown]
    BY DEF IInv, StateInv
  <2>2. \A c \in Conns : conn[c] \in Connection
    BY <2>1
  <2> QED
    BY <2>1, <2>2, RecordTypes DEF IInv, TypeOK, Shown
<1> QED
  BY <1>1, Invariance, PTL

(* No tab is controlled by two clients, or by a client and Dao Agent.      *)
THEOREM ControlIsExclusive == Spec => []OneController
<1>1. IInv => OneController
  BY DEF IInv, StateInv, OneController
<1> QED
  BY <1>1, Invariance, PTL

(* Whatever runs on a page runs for the client that leases its tab.        *)
THEOREM CallsDriveLeasedTabs == Spec => []DrivesOnlyLeasedTabs
<1>1. IInv => DrivesOnlyLeasedTabs
  BY DEF IInv, StateInv, Resting, Always, Drives, DrivesOnlyLeasedTabs, Open
<1> QED
  BY <1>1, Invariance, PTL

(* No call of a living connection is dropped, and none is ever answered    *)
(* twice.                                                                  *)
THEOREM CallsAreAccounted == Spec => []EveryCallAccounted
<1>1. ASSUME IInv, NEW c \in Conns
      PROVE  LET k == conn[c] IN
             /\ \A r \in Reqs : k.sent[r] <= 1
             /\ Open(c) =>
                  /\ k.active = Ids(k.pending) \cup Ids(k.running) \cup ({k.pageReq} \ {NoReq})
                  /\ \A r \in k.seen : k.sent[r] = IF r \in k.active THEN 0 ELSE 1
  <2> DEFINE k == conn[c]
  <2>1. k \in Connection /\ Always(k, {}) /\ (Open(c) <=> k.phase = "open")
    BY <1>1 DEF IInv, StateInv, Resting, Open
  <2> HIDE DEF k
  <2>2. k.seen \subseteq Reqs
    BY <2>1 DEF Connection
  <2>3. CASE k.phase = "open"
    <3>1. Accounts(k, {})
      BY <2>1, <2>3 DEF Always
    <3>2. /\ k.active = Ids(k.pending) \cup Ids(k.running) \cup ({k.pageReq} \ {NoReq})
          /\ \A r \in k.seen : k.sent[r] = IF r \in k.active THEN 0 ELSE 1
          /\ \A r \in Reqs : k.sent[r] <= 1
      BY <2>2, <3>1 DEF Accounts
    <3> QED
      BY <3>2 DEF k
  <2>4. CASE k.phase # "open"
    BY <2>1, <2>4 DEF Always, Once, k
  <2> QED
    BY <2>3, <2>4
<1>2. IInv => EveryCallAccounted
  BY <1>1 DEF EveryCallAccounted
<1> QED
  BY <1>2, Invariance, PTL

(* Whatever waits, for the user or for a lease, has the timer that ends    *)
(* its waiting.                                                            *)
THEOREM QueuesAreWatched == Spec => []QueueIsWatched
<1>1. IInv => QueueIsWatched
  BY DEF IInv, StateInv, Resting, Watched, QueueIsWatched, Open
<1> QED
  BY <1>1, Invariance, PTL

(* A prompt on the screen has its question behind it.                      *)
THEOREM PromptsHold == Spec => []PromptsAreCurrent
<1>1. IInv => PromptsAreCurrent
  BY DEF IInv, StateInv, Resting, Always, Prompts, PromptsAreCurrent
<1> QED
  BY <1>1, Invariance, PTL
-----------------------------------------------------------------------------
(* Admission: only a hello adds to the clients, and it counts the others.  *)
Clients == {c \in Conns : Open(c) /\ conn[c].hello}

LEMMA ClientsAreFinite ==
    \A s \in SUBSET Conns : IsFiniteSet(s) /\ Cardinality(s) \in Nat
  BY PagesAssumption, FS_Subset, FS_CardinalityType

LEMMA HelloKeepsBound ==
    ASSUME IInv, NEW c \in Conns, HandleHello(c), Cardinality(Clients) <= MaxConnections
    PROVE  Cardinality(Clients') <= MaxConnections
<1> DEFINE others == Admitted(c)
<1>1. others \subseteq Conns /\ Clients' \subseteq Conns /\ Clients \subseteq Conns
  BY DEF Admitted, Clients
<1>2. /\ IsFiniteSet(others) /\ Cardinality(others) \in Nat /\ MaxConnections \in Nat
      /\ IsFiniteSet(Clients') /\ Cardinality(Clients') \in Nat
      /\ IsFiniteSet(Clients) /\ Cardinality(Clients) \in Nat
  BY <1>1, ClientsAreFinite, PagesAssumption
<1>3. others = Clients
  BY DEF HandleHello, Admitted, Clients
<1>4. \A d \in Conns \ {c} : d \in Clients' => d \in others
  <2> SUFFICES ASSUME NEW d \in Conns \ {c}, d \in Clients' PROVE d \in others
    OBVIOUS
  <2>1. conn'[d] = conn[d]
        \/ (d \in Victims(c) /\ conn'[d] = RejectConnection(conn[d]))
    BY HelloStep
  <2>2. conn[d] \in Connection /\ Always(conn[d], {})
    BY DEF IInv, StateInv, Resting
  <2>3. ~RejectConnection(conn[d]).hello
    BY <2>2, RejectFacts
  <2> QED
    BY <2>1, <2>3 DEF Clients, Admitted, Open
<1> HIDE DEF others
<1>5. CASE conn'[c].phase = "closing"
  <2>1. Clients' \subseteq others
    BY <1>1, <1>4, <1>5 DEF Clients, Open
  <2> QED
    BY <1>2, <1>3, <2>1, FS_Subset
<1>6. CASE Cardinality(others) < MaxConnections
  <2>1. Clients' \subseteq others \cup {c}
    BY <1>1, <1>4
  <2>2. IsFiniteSet(others \cup {c}) /\ Cardinality(others \cup {c}) <= Cardinality(others) + 1
    BY <1>2, FS_AddElement
  <2>3. Cardinality(Clients') <= Cardinality(others \cup {c})
    BY <2>1, <2>2, FS_Subset
  <2>4. Cardinality(others \cup {c}) \in Nat
    BY <2>2, FS_CardinalityType
  <2> QED
    BY <1>2, <1>6, <2>2, <2>3, <2>4
<1>7. ASSUME NEW d \in Victims(c), conn'[d].phase = "closing"
      PROVE  Cardinality(Clients') <= MaxConnections
  <2>1. d \in others
    BY DEF Victims, Admitted, others
  <2> DEFINE left == others \ {d}
  <2>2. Clients' \subseteq left \cup {c}
    BY <1>1, <1>4, <1>7 DEF Clients, Open
  <2>3. IsFiniteSet(left) /\ Cardinality(left) = Cardinality(others) - 1
    BY <1>2, <2>1, FS_RemoveElement
  <2> HIDE DEF left
  <2>4. Cardinality(left) \in Nat
    BY <2>3, FS_CardinalityType
  <2>5. IsFiniteSet(left \cup {c}) /\ Cardinality(left \cup {c}) <= Cardinality(left) + 1
    BY <2>3, <2>4, FS_AddElement
  <2>6. Cardinality(Clients') <= Cardinality(left \cup {c}) /\ Cardinality(left \cup {c}) \in Nat
    BY <2>2, <2>5, FS_Subset, FS_CardinalityType
  <2> QED
    BY <1>2, <1>3, <2>3, <2>4, <2>5, <2>6
<1> QED
  BY <1>5, <1>6, <1>7, HelloStep DEF others

LEMMA ProgressKeepsBound ==
    ASSUME Progress, Cardinality(Clients) <= MaxConnections
    PROVE  Cardinality(Clients') <= MaxConnections
<1>1. Clients' \subseteq Clients
  BY DEF Progress, ConnMoves, Clients, Open
<1>2. Clients \subseteq Conns /\ MaxConnections \in Nat
  BY PagesAssumption DEF Clients
<1>3. IsFiniteSet(Clients) /\ Cardinality(Clients) \in Nat /\ Cardinality(Clients') \in Nat
  BY <1>1, <1>2, ClientsAreFinite
<1> QED
  BY <1>1, <1>2, <1>3, FS_Subset

(* There are never more clients than the service admits.                   *)
THEOREM AdmissionIsBounded == Spec => []AdmissionBound
<1>1. AdmissionBound <=> Cardinality(Clients) <= MaxConnections
  BY DEF AdmissionBound, Clients
<1>2. Init => AdmissionBound
  <2> SUFFICES ASSUME Init PROVE AdmissionBound
    OBVIOUS
  <2>1. Clients = {}
    BY DEF Init, Fresh, Clients, Open
  <2> QED
    BY <1>1, <2>1, FS_EmptySet, PagesAssumption
<1>3. IInv /\ AdmissionBound /\ [Next]_vars => AdmissionBound'
  <2> SUFFICES ASSUME IInv, Cardinality(Clients) <= MaxConnections, [Next]_vars
               PROVE  Cardinality(Clients') <= MaxConnections
    BY <1>1 DEF AdmissionBound, Clients
  <2> QED
    BY NextStep, StutterStep, HelloKeepsBound, ProgressKeepsBound
<1> QED
  BY <1>2, <1>3, Invariance, PTL DEF Spec
-----------------------------------------------------------------------------
(* What no step does.                                                      *)
(* A page revoked under an open picker stays revoked, whatever answers.    *)
THEOREM RevokedPagesStay == Spec => NoRegrantByPicker
<1>1. ASSUME IInv, [Next]_vars, NEW c \in Conns, NEW t \in conn[c].revoked,
             conn[c].pageReq # NoReq
      PROVE  conn'[c].context[t] = "none" \/ UNCHANGED vars
  <2> DEFINE k == conn[c]
  <2>1. /\ k \in Connection /\ Revokes(k) /\ Unseen(k, tab) /\ Always(k, {})
    BY <1>1 DEF IInv, StateInv, Resting, Always
  <2>2. t \in Tabs /\ k.context[t] = "none" /\ (\A p \in k.candidates : p.tab # t)
    BY <1>1, <2>1 DEF Revokes, Connection
  <2>3. tab[t].state # "absent" /\ ~Offered(k, tab, t)
    BY <1>1, <2>1, <2>2 DEF Unseen, Offered
  <2>4. CASE Progress
    BY <1>1, <2>2, <2>3, <2>4 DEF Progress, ConnMoves
  <2>5. ASSUME NEW d \in Conns, HandleHello(d) PROVE conn'[c].context[t] = "none"
    <3>1. RejectConnection(k).context = [u \in Tabs |-> "none"]
      BY <2>1, RejectFacts
    <3>2. \/ conn'[c] = k \/ conn'[c] = RejectConnection(k)
          \/ conn'[c].context = k.context
      BY <1>1, <2>5, HelloStep
    <3> QED
      BY <2>2, <3>1, <3>2
  <2> QED
    BY <1>1, <2>4, <2>5, NextStep
<1>2. IInv /\ [Next]_vars =>
        [\A c \in Conns : \A t \in conn[c].revoked :
           conn[c].pageReq # NoReq => conn'[c].context[t] = "none"]_vars
  BY <1>1
<1> QED
  BY <1>2, Invariance, PTL DEF Spec, NoRegrantByPicker

(* An eviction only ever costs a client that waits for nothing.            *)
THEOREM EvictionsSpareWork == Spec => EvictionSparesWork
<1>1. ASSUME IInv, [Next]_vars, ~UNCHANGED vars, NEW c \in Conns, NEW d \in Conns,
             c # d, ~conn[c].hello, conn'[c].hello, conn'[d] # conn[d]
      PROVE  /\ conn[d].approval # "Pending"
             /\ \A r \in conn[d].seen : conn[d].sent[r] = 1
  <2>1. ~Progress
    BY <1>1 DEF Progress, ConnMoves
  <2>2. PICK e \in Conns : HandleHello(e)
    BY <1>1, <2>1, NextStep
  <2>3. conn[c] \in Connection /\ Always(conn[c], {}) /\ conn[d] \in Connection
        /\ (Open(d) => Accounts(conn[d], {}))
    BY <1>1 DEF IInv, StateInv, Resting, Always, Open
  <2>4. ~RejectConnection(conn[c]).hello
    BY <2>3, RejectFacts
  <2>5. e = c
    BY <1>1, <2>2, <2>4, HelloStep
  <2>6. d \in Victims(c)
    BY <1>1, <2>2, <2>5, HelloStep
  <2>7. Open(d) /\ ~Busy(conn[d])
    BY <2>6 DEF Victims, Admitted
  <2>8. conn[d].active = {} /\ conn[d].approval # "Pending"
    BY <2>7 DEF Busy
  <2>9. conn[d].seen \subseteq Reqs
    BY <2>3 DEF Connection
  <2> QED
    BY <2>3, <2>7, <2>8, <2>9 DEF Accounts
<1>2. IInv /\ [Next]_vars =>
        [\A c, d \in Conns :
           c # d /\ ~conn[c].hello /\ conn'[c].hello /\ conn'[d] # conn[d]
             => /\ conn[d].approval # "Pending"
                /\ \A r \in conn[d].seen : conn[d].sent[r] = 1]_vars
  BY <1>1
<1> QED
  BY <1>2, Invariance, PTL DEF Spec, EvictionSparesWork

(* A connection the service ends has had the answers of its calls.         *)
THEOREM EndingsAnswer == Spec => EndingAnswersCalls
<1>1. ASSUME IInv, [Next]_vars, ~UNCHANGED vars, NEW c \in Conns, Open(c),
             conn'[c].approval = "Denied", NEW r \in conn[c].active
      PROVE  conn'[c].sent[r] = 1
  <2>1. conn[c] \in Connection /\ Always(conn[c], {}) /\ conn[c].approval # "Denied"
        /\ conn[c].phase = "open"
    BY <1>1 DEF IInv, StateInv, Resting, Watched, Open
  <2>2. CASE Progress
    BY <1>1, <2>1, <2>2 DEF Progress, ConnMoves
  <2>3. ASSUME NEW e \in Conns, HandleHello(e) PROVE conn'[c].sent[r] = 1
    <3>1. conn'[c] = RejectConnection(conn[c])
      BY <1>1, <2>1, <2>3, HelloStep
    <3> QED
      BY <2>1, <3>1, RejectFacts
  <2> QED
    BY <1>1, <2>2, <2>3, NextStep
<1>2. IInv /\ [Next]_vars =>
        [\A c \in Conns :
           Open(c) /\ conn'[c].approval = "Denied"
             => \A r \in conn[c].active : conn'[c].sent[r] = 1]_vars
  BY <1>1
<1> QED
  BY <1>2, Invariance, PTL DEF Spec, EndingAnswersCalls

(* What is granted while a picker is open is a page it shows, or a new tab. *)
THEOREM ConsentIsForThePage == Spec => ConsentIsForThePageShown
<1>1. ASSUME IInv, [Next]_vars, ~UNCHANGED vars, NEW c \in Conns, NEW t \in Tabs,
             conn[c].context[t] = "none", conn'[c].context[t] # "none", conn[c].pagePrompt
      PROVE  [tab |-> t, doc |-> tab[t].doc] \in conn[c].candidates \/ tab[t].state = "absent"
  <2>1. conn[c] \in Connection /\ Always(conn[c], {}) /\ conn[c].pageReq # NoReq
    BY <1>1 DEF IInv, StateInv, Resting, Always, Prompts
  <2>2. CASE Progress
    BY <1>1, <2>1, <2>2 DEF Progress, ConnMoves, Offered
  <2>3. ASSUME NEW e \in Conns, HandleHello(e) PROVE FALSE
    <3>1. RejectConnection(conn[c]).context[t] = "none"
      BY <2>1, RejectFacts
    <3> QED
      BY <1>1, <2>3, <3>1, HelloStep
  <2> QED
    BY <1>1, <2>2, <2>3, NextStep
<1>2. IInv /\ [Next]_vars =>
        [\A c \in Conns, t \in Tabs :
           /\ conn[c].context[t] = "none" /\ conn'[c].context[t] # "none"
           /\ conn[c].pagePrompt
           => \/ [tab |-> t, doc |-> tab[t].doc] \in conn[c].candidates
              \/ tab[t].state = "absent"]_vars
  BY <1>1
<1> QED
  BY <1>2, Invariance, PTL DEF Spec, ConsentIsForThePageShown
-----------------------------------------------------------------------------
(***************************************************************************)
(* The refinement of TabControl.  Exclusivity before and after a step says *)
(* who owns each tab; a step of one client can then only be a Take, and    *)
(* auto approval, which may serve several at once, a Serve.                *)
(***************************************************************************)
Bar == [t \in Tabs |-> Owners(t)]

Owned ==
    \A t \in Tabs :
        /\ \A c \in Conns : t \in Leased(conn[c]) <=> Owners(t) = {Client(c)}
        /\ agent.lease = t <=> Owners(t) = {DaoAgent}
        /\ Owners(t) = {} <=> agent.lease # t /\ \A c \in Conns : t \notin Leased(conn[c])

LEMMA ClientsDiffer ==
    \A c \in Conns : /\ Client(c) # DaoAgent
                     /\ \A d \in Conns : Client(c) = Client(d) => c = d
  BY DEF Client, DaoAgent

LEMMA TabsAreOwned == OneController => Owned
<1> SUFFICES ASSUME OneController, NEW t \in Tabs
             PROVE  /\ \A c \in Conns : t \in Leased(conn[c]) <=> Owners(t) = {Client(c)}
                    /\ agent.lease = t <=> Owners(t) = {DaoAgent}
                    /\ Owners(t) = {} <=> /\ agent.lease # t
                                          /\ \A c \in Conns : t \notin Leased(conn[c])
  BY DEF Owned
<1>1. /\ \A c \in Conns : Client(c) \in Owners(t) <=> t \in Leased(conn[c])
      /\ DaoAgent \in Owners(t) <=> agent.lease = t
      /\ \A o \in Owners(t) : o = DaoAgent \/ \E c \in Conns : o = Client(c)
  BY ClientsDiffer DEF Owners
<1>2. \A c, d \in Conns : t \in Leased(conn[c]) /\ t \in Leased(conn[d]) => c = d
  BY DEF OneController
<1>3. \A c \in Conns : t \in Leased(conn[c]) => agent.lease # t
  BY DEF OneController
<1>4. ASSUME NEW c \in Conns, t \in Leased(conn[c]) PROVE Owners(t) = {Client(c)}
  BY <1>1, <1>2, <1>3, <1>4
<1>5. ASSUME agent.lease = t PROVE Owners(t) = {DaoAgent}
  BY <1>1, <1>3, <1>5
<1>6. Owners(t) = {} <=> agent.lease # t /\ \A c \in Conns : t \notin Leased(conn[c])
  BY <1>1
<1> QED
  BY <1>1, <1>4, <1>5, <1>6

(* One client takes free tabs or lets go of some of its own.               *)
LEMMA OneTakes ==
    ASSUME Owned, Owned', NEW c \in Conns, agent' = agent,
           \A d \in Conns \ {c} : Leased(conn'[d]) = Leased(conn[d])
    PROVE  [Control!Next]_Bar
<1> DEFINE S == Leased(conn'[c]) \ Leased(conn[c])
           R == Leased(conn[c]) \ Leased(conn'[c])
           h == {Client(c)}
<1>1. S \in SUBSET Tabs /\ R \in SUBSET Tabs
  BY DEF Leased
<1>2. ASSUME NEW t \in Tabs
      PROVE  /\ t \in S => Owners(t) = {}
             /\ t \in R => Owners(t) = h
             /\ Owners(t)' = IF t \in S THEN h ELSE IF t \in R THEN {} ELSE Owners(t)
  <2>1. CASE t \in S
    <3>1. t \in Leased(conn'[c]) /\ t \notin Leased(conn[c])
      BY <2>1
    <3>2. Owners(t)' = h
      BY <3>1 DEF Owned
    <3>3. agent.lease # t
      BY <3>2, ClientsDiffer DEF Owned
    <3>4. \A d \in Conns \ {c} : t \notin Leased(conn[d])
      BY <3>2, ClientsDiffer DEF Owned
    <3>5. Owners(t) = {}
      BY <3>1, <3>3, <3>4 DEF Owned
    <3> QED
      BY <2>1, <3>2, <3>5
  <2>2. CASE t \in R
    <3>1. t \in Leased(conn[c]) /\ t \notin Leased(conn'[c])
      BY <2>2
    <3>2. Owners(t) = h
      BY <3>1 DEF Owned
    <3>3. agent.lease # t /\ \A d \in Conns \ {c} : t \notin Leased(conn[d])
      BY <3>2, ClientsDiffer DEF Owned
    <3>4. Owners(t)' = {}
      BY <3>1, <3>3 DEF Owned
    <3> QED
      BY <2>2, <3>2, <3>4
  <2>3. CASE t \notin S /\ t \notin R
    <3>1. \A d \in Conns : t \in Leased(conn'[d]) <=> t \in Leased(conn[d])
      BY <2>3
    <3>2. Owners(t)' = Owners(t)
      BY <3>1 DEF Owners
    <3> QED
      BY <2>3, <3>2
  <2> QED
    BY <2>1, <2>2, <2>3
<1>3. Control!Take(h, S, R)
  BY <1>1, <1>2 DEF Control!Take, Control!Of, Bar
<1>4. h \in {{Client(d)} : d \in Conns} \cup {{DaoAgent}}
  OBVIOUS
<1> HIDE DEF S, R, h
<1> QED
  BY <1>1, <1>3, <1>4 DEF Control!Next

(* Several are served: whoever had a tab keeps it.                         *)
LEMMA SeveralAreServed ==
    ASSUME Owned, Owned', agent' = agent,
           \A c \in Conns : Leased(conn[c]) \subseteq Leased(conn'[c])
    PROVE  [Control!Next]_Bar
<1> DEFINE S == {t \in Tabs : Owners(t) = {} /\ Owners(t)' # {}}
           to == [t \in S |-> Owners(t)']
           Some == {{Client(c)} : c \in Conns} \cup {{DaoAgent}}
<1>1. \A t \in S : Owners(t)' \in Some
  BY DEF Owned
<1>2. ASSUME NEW t \in Tabs, t \notin S PROVE Owners(t)' = Owners(t)
  <2>1. CASE Owners(t) = {}
    BY <1>2, <2>1
  <2>2. CASE agent.lease = t
    BY <2>2 DEF Owned
  <2>3. CASE \E c \in Conns : t \in Leased(conn[c])
    <3>1. PICK c \in Conns : t \in Leased(conn[c])
      BY <2>3
    <3>2. t \in Leased(conn'[c])
      BY <3>1
    <3> QED
      BY <3>1, <3>2 DEF Owned
  <2> QED
    BY <2>1, <2>2, <2>3 DEF Owned
<1>3. S \in SUBSET Tabs /\ to \in [S -> Some]
  BY <1>1
<1>4. Control!Serve(S, to)
  BY <1>2 DEF Control!Serve, Control!Of, Bar
<1> HIDE DEF S, to
<1> QED
  BY <1>3, <1>4 DEF Control!Next

(* Dao Agent's turn takes one tab and lets go of it.                       *)
LEMMA AgentTakes ==
    ASSUME Owned, Owned', conn' = conn, agent'.lease # agent.lease,
           agent.lease = NoTab \/ agent'.lease = NoTab
    PROVE  [Control!Next]_Bar
<1> DEFINE S == {t \in Tabs : agent'.lease = t}
           R == {t \in Tabs : agent.lease = t}
           h == {DaoAgent}
<1>1. ASSUME NEW t \in Tabs
      PROVE  /\ t \in S => Owners(t) = {}
             /\ t \in R => Owners(t) = h
             /\ Owners(t)' = IF t \in S THEN h ELSE IF t \in R THEN {} ELSE Owners(t)
  <2>1. CASE t \in S
    <3>1. Owners(t)' = h /\ agent.lease # t
      BY <2>1 DEF Owned
    <3>2. \A c \in Conns : t \notin Leased(conn[c])
      BY <3>1, ClientsDiffer DEF Owned
    <3> QED
      BY <2>1, <3>1, <3>2 DEF Owned
  <2>2. CASE t \in R
    <3>1. Owners(t) = h /\ agent'.lease # t
      BY <2>2 DEF Owned
    <3>2. \A c \in Conns : t \notin Leased(conn[c])
      BY <3>1, ClientsDiffer DEF Owned
    <3> QED
      BY <2>2, <3>1, <3>2 DEF Owned
  <2>3. CASE t \notin S /\ t \notin R
    BY <2>3 DEF Owners
  <2> QED
    BY <2>1, <2>2, <2>3
<1>2. Control!Take(h, S, R)
  BY <1>1 DEF Control!Take, Control!Of, Bar
<1>3. h \in {{Client(d)} : d \in Conns} \cup {{DaoAgent}} /\ S \in SUBSET Tabs /\ R \in SUBSET Tabs
  OBVIOUS
<1> HIDE DEF S, R, h
<1> QED
  BY <1>2, <1>3 DEF Control!Next

(* Which client a step is of.                                              *)
LEMMA HelloIsOfOne ==
    ASSUME IInv, NEW c \in Conns, HandleHello(c)
    PROVE  \E d \in Conns : \A e \in Conns \ {d} : Leased(conn'[e]) = Leased(conn[e])
<1> DEFINE l == [conn[c] EXCEPT !.hello = TRUE]
           q == [conn[c] EXCEPT !.phase = "closing"]
<1>1. conn \in [Conns -> Connection] /\ conn[c] \in Connection
  BY DEF IInv, StateInv
<1>2. Leased(l) = Leased(conn[c]) /\ Leased(q) = Leased(conn[c])
  BY <1>1 DEF Leased, Connection
<1>3. \/ conn' = [conn EXCEPT ![c] = l]
      \/ conn' = [conn EXCEPT ![c] = q]
      \/ \E d \in Conns : conn' = [[conn EXCEPT ![c] = l] EXCEPT ![d] = RejectConnection(conn[d])]
  <2>1. \A d \in Victims(c) : d \in Conns /\ d # c
    BY DEF Victims, Admitted
  <2>2. [conn EXCEPT ![c].phase = "closing"] = [conn EXCEPT ![c] = q]
    BY <1>1
  <2>3. \A d \in Victims(c) : [conn EXCEPT ![c] = l, ![d] = RejectConnection(@)]
          = [[conn EXCEPT ![c] = l] EXCEPT ![d] = RejectConnection(conn[d])]
    BY <1>1, <2>1
  <2> QED
    BY <2>1, <2>2, <2>3 DEF HandleHello
<1> HIDE DEF l, q
<1>4. CASE conn' = [conn EXCEPT ![c] = l] \/ conn' = [conn EXCEPT ![c] = q]
  BY <1>1, <1>4
<1>5. ASSUME NEW d \in Conns,
             conn' = [[conn EXCEPT ![c] = l] EXCEPT ![d] = RejectConnection(conn[d])]
      PROVE  \A e \in Conns \ {d} : Leased(conn'[e]) = Leased(conn[e])
  <2> SUFFICES ASSUME NEW e \in Conns, e # d PROVE Leased(conn'[e]) = Leased(conn[e])
    OBVIOUS
  <2>1. conn'[e] = IF e = c THEN l ELSE conn[e]
    BY <1>1, <1>5
  <2> QED
    BY <1>2, <2>1
<1> QED
  BY <1>3, <1>4, <1>5

LEMMA OneClient ==
    ASSUME IInv, NEW c \in Conns, OfService(c) \/ OfClient(c) \/ OfUser(c)
    PROVE  /\ agent' = agent
           /\ \E d \in Conns : \A e \in Conns \ {d} : Leased(conn'[e]) = Leased(conn[e])
<1>1. conn \in [Conns -> Connection]
  BY DEF IInv, StateInv
<1>2. CASE \E k : conn' = [conn EXCEPT ![c] = k] /\ agent' = agent
  BY <1>1, <1>2
<1>3. CASE HandleHello(c)
  BY <1>3, HelloIsOfOne DEF HandleHello
<1>4. CASE CompleteCall(c)
  <2>1. \E k : conn' = [conn EXCEPT ![c] = k] /\ agent' = agent
    BY <1>4 DEF CompleteCall
  <2> QED
    BY <1>2, <2>1
<1>5. CASE (OfService(c) /\ ~CompleteCall(c)) \/ (OfClient(c) /\ ~HandleHello(c)) \/ OfUser(c)
  <2>1. (\E k : Becomes(c, k)) \/ (\E w : Yields(c, w))
    BY <1>5 DEF OfService, OfClient, OfUser, OnApprovalTimeout, OnPageTimeout, RetryLease,
                TargetInvalidated, Accept, BadHello, OnConnectionClosed, ToolsCall, ToolsCancel,
                UserDecides, UserPicksPage, StopControl, UserRevokesTab
  <2>2. \E k : conn' = [conn EXCEPT ![c] = k] /\ agent' = agent
    BY <2>1 DEF Becomes, Yields
  <2> QED
    BY <1>2, <2>2
<1> QED
  BY <1>3, <1>4, <1>5

LEMMA YoloServes ==
    ASSUME IInv, NEW enabled \in BOOLEAN, SetPageYoloModeEnabled(enabled)
    PROVE  agent' = agent /\ \A c \in Conns : Leased(conn[c]) \subseteq Leased(conn'[c])
<1>1. StateInv(conn, tab) /\ agent' = agent
  BY DEF IInv, SetPageYoloModeEnabled
<1>2. CASE enabled
  <2>1. PICK active \in Tabs : conn' = AnswerAll(active).conn
    BY <1>2 DEF SetPageYoloModeEnabled
  <2> QED
    BY <1>1, <2>1, AnswerAllWorks
<1>3. CASE ~enabled
  BY <1>1, <1>3 DEF SetPageYoloModeEnabled
<1> QED
  BY <1>2, <1>3

LEMMA StepOfControl ==
    ASSUME IInv, Owned, Owned', [Next]_vars
    PROVE  [Control!Next]_Bar
<1>1. ASSUME NEW c \in Conns, OfService(c) \/ OfClient(c) \/ OfUser(c)
      PROVE  [Control!Next]_Bar
  BY <1>1, OneClient, OneTakes
<1>2. ASSUME NEW enabled \in BOOLEAN, SetPageYoloModeEnabled(enabled)
      PROVE  [Control!Next]_Bar
  BY <1>2, YoloServes, SeveralAreServed
<1>3. ASSUME NEW t \in Tabs, BeginAgentTurn(t) PROVE [Control!Next]_Bar
  <2>1. conn' = conn /\ agent.lease = NoTab /\ agent'.lease = t /\ t # NoTab
    BY <1>3, PagesAssumption DEF BeginAgentTurn
  <2> QED
    BY <2>1, AgentTakes
<1>4. CASE EndAgentTurn
  <2>1. conn' = conn /\ agent.lease # NoTab /\ agent'.lease = NoTab
    BY <1>4 DEF EndAgentTurn
  <2> QED
    BY <2>1, AgentTakes
<1>5. CASE conn' = conn /\ agent'.lease = agent.lease
  BY <1>5 DEF Bar, Owners
<1>6. ASSUME NEW t \in Tabs, AgentSwitchTab(t) PROVE [Control!Next]_Bar
  <2>1. conn' = conn /\ agent'.lease = agent.lease
    BY <1>6 DEF AgentSwitchTab, IInv
  <2> QED
    BY <1>5, <2>1
<1>7. ASSUME NEW t \in Tabs, Navigate(t) \/ CloseTab(t) PROVE [Control!Next]_Bar
  BY <1>5, <1>7 DEF Navigate, CloseTab
<1>8. CASE UNCHANGED vars
  BY <1>5, <1>8 DEF vars
<1> QED
  BY <1>1, <1>2, <1>3, <1>4, <1>6, <1>7, <1>8 DEF Next

LEMMA ControlSteps == IInv /\ IInv' /\ [Next]_vars => [Control!Next]_Bar
<1>1. IInv => Owned
  BY TabsAreOwned DEF IInv, StateInv, OneController
<1>2. IInv' => Owned'
  BY <1>1, PTL
<1> QED
  BY <1>1, <1>2, StepOfControl

(* The service implements exclusive control that is never passed on: with  *)
(* any number of clients, tabs and calls, whichever of approval, retry,    *)
(* picker, auto approval or open_tab gives a tab, it was free, and only    *)
(* its holder loses it.                                                    *)
THEOREM PagesRefinement == Spec => ImplementsTabControl
<1>1. Init => Bar = [t \in Tabs |-> {}]
  <2> SUFFICES ASSUME Init, NEW t \in Tabs PROVE Owners(t) = {}
    BY DEF Bar
  <2>1. \A c \in Conns : t \notin Leased(conn[c])
    BY DEF Init, Leased, Fresh
  <2> QED
    BY <2>1, PagesAssumption DEF Init, Owners
<1>2. Init => Control!Init
  BY <1>1 DEF Control!Init, Bar
<1> QED
  BY <1>2, ControlSteps, Invariance, PTL DEF Spec, ImplementsTabControl, Control!Spec, Bar

(* A tab that a client or Dao Agent controls is never passed on to another *)
(* in one step: a revocation, a client pushed out to make room or a closed *)
(* page leaves it free first, for everybody who waits for it alike.        *)
THEOREM TabsAreNotPassedOn ==
    Spec => [][\A t \in Tabs : Owners(t) # {} => Owners(t)' \in {Owners(t), {}}]_vars
<1>1. IInv /\ IInv' /\ [Next]_vars
        => [\A t \in Tabs : Owners(t) # {} => Owners(t)' \in {Owners(t), {}}]_vars
  <2> SUFFICES ASSUME IInv, IInv', Next, NEW t \in Tabs, Owners(t) # {}
               PROVE  Owners(t)' \in {Owners(t), {}}
    OBVIOUS
  <2>1. [Control!Next]_Bar
    BY ControlSteps
  <2>2. Bar[t] = Owners(t) /\ Bar'[t] = Owners(t)'
    BY DEF Bar
  <2>3. CASE UNCHANGED Bar
    BY <2>2, <2>3
  <2>4. ASSUME NEW h, NEW S \in SUBSET Tabs, NEW R \in SUBSET Tabs, Control!Take(h, S, R)
        PROVE  Owners(t)' \in {Owners(t), {}}
    BY <2>2, <2>4 DEF Control!Take, Control!Of, Bar
  <2>5. ASSUME NEW S \in SUBSET Tabs, NEW to, Control!Serve(S, to)
        PROVE  Owners(t)' \in {Owners(t), {}}
    BY <2>2, <2>5 DEF Control!Serve, Control!Of, Bar
  <2>6. CASE Control!End
    BY <2>2, <2>6 DEF Control!End, Bar
  <2> QED
    BY <2>1, <2>3, <2>4, <2>5, <2>6 DEF Control!Next
<1> QED
  BY <1>1, Invariance, PTL DEF Spec
=============================================================================
