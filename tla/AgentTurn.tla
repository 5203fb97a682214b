----------------------------- MODULE AgentTurn -----------------------------
(***************************************************************************)
(* The turn of the agent sidebar, in its page (runAgentTurn_ of            *)
(* dao_chat_view.ts, callNative of agent_bridge.ts) and in the browser     *)
(* (dao_agent_ui.cc).  The page asks for a turn, runs it and ends it.  The *)
(* browser holds one turn at most, and with it the lease on the tab.  The  *)
(* page's messages arrive in order; it gives up an answer that does not    *)
(* come in time, and takes the turn back if that was the one it asked for. *)
(***************************************************************************)
EXTENDS Naturals, Sequences

VARIABLES
    phase,          \* agentTurn_: none, begin, open, end
    begun,          \* the page's turns so far; the last is the one of phase
    answer,         \* what is on its way to the call the page waits for
    toBrowser,      \* messages from the page
    activeTurn,     \* active_turn_id_, 0 when empty
    pendingBegin,   \* pending_begin_callback_id_, 0 when empty
    lease,          \* agent_turn_lease_ is held
    snapshots       \* turns whose answer waits for a snapshot of Dao Home

pageVars    == <<phase, begun>>
browserVars == <<activeTurn, pendingBegin, lease, snapshots>>
turnVars    == <<pageVars, answer, toBrowser, browserVars>>

Message == [op : {"begin", "cancel", "end"}, n : Nat]

TypeOK ==
    /\ phase \in {"none", "begin", "open", "end"}
    /\ begun \in Nat
    /\ answer \in {"none", "ok", "error"}
    /\ toBrowser \in Seq(Message)
    /\ activeTurn \in Nat /\ pendingBegin \in Nat
    /\ lease \in BOOLEAN
    /\ snapshots \in SUBSET Nat

Init ==
    /\ phase = "none" /\ begun = 0 /\ answer = "none"
    /\ toBrowser = <<>>
    /\ activeTurn = 0 /\ pendingBegin = 0 /\ lease = FALSE
    /\ snapshots = {}
-----------------------------------------------------------------------------
(* The page.                                                               *)

Post(op, n) == toBrowser' = Append(toBrowser, [op |-> op, n |-> n])

BeginTurn ==
    /\ phase = "none"
    /\ phase' = "begin" /\ begun' = begun + 1
    /\ Post("begin", begun + 1)
    /\ UNCHANGED <<answer, browserVars>>

BeginSucceeds ==
    /\ phase = "begin" /\ answer = "ok"
    /\ phase' = "open" /\ answer' = "none"
    /\ UNCHANGED <<begun, toBrowser, browserVars>>

BeginFails ==
    /\ phase = "begin" /\ answer = "error"
    /\ phase' = "none" /\ answer' = "none"
    /\ UNCHANGED <<begun, toBrowser, browserVars>>

(* callNative: the call is forgotten and its cancelMethod sent.            *)
BeginTimesOut ==
    /\ phase = "begin"
    /\ phase' = "none" /\ answer' = "none"
    /\ Post("cancel", begun)
    /\ UNCHANGED <<begun, browserVars>>

(* The run is over; the page asks the browser to end the turn.             *)
EndTurn ==
    /\ phase = "open"
    /\ phase' = "end"
    /\ Post("end", begun)
    /\ UNCHANGED <<begun, answer, browserVars>>

EndAnswered ==
    /\ phase = "end" /\ answer # "none"
    /\ phase' = "none" /\ answer' = "none"
    /\ UNCHANGED <<begun, toBrowser, browserVars>>

EndTimesOut ==
    /\ phase = "end"
    /\ phase' = "none" /\ answer' = "none"
    /\ UNCHANGED <<begun, toBrowser, browserVars>>
-----------------------------------------------------------------------------
(* The browser.                                                            *)

Arrives(op) == toBrowser # <<>> /\ Head(toBrowser).op = op
Number      == Head(toBrowser).n

(* An answer nobody waits for any more is lost in the page.                *)
Answer(in, n, how) == answer' = IF phase = in /\ begun = n THEN how ELSE answer

Aborted == activeTurn' = 0 /\ pendingBegin' = 0 /\ lease' = FALSE

(* No target, another lease error, or Dao Home is not visible.             *)
RefuseBegin ==
    /\ Arrives("begin")
    /\ toBrowser' = Tail(toBrowser)
    /\ Aborted
    /\ Answer("begin", Number, "error")
    /\ UNCHANGED <<pageVars, snapshots>>

(* With the lease, or without it when another agent controls the tab.      *)
OpenTurn ==
    /\ Arrives("begin")
    /\ toBrowser' = Tail(toBrowser)
    /\ activeTurn' = Number /\ pendingBegin' = Number
    /\ lease' \in BOOLEAN
    /\ Answer("begin", Number, "ok")
    /\ UNCHANGED <<pageVars, snapshots>>

(* In a Dao Home tab the answer waits for a snapshot.                      *)
OpenHomeTurn ==
    /\ Arrives("begin")
    /\ toBrowser' = Tail(toBrowser)
    /\ activeTurn' = Number /\ pendingBegin' = Number
    /\ lease' = TRUE
    /\ snapshots' = snapshots \union {Number}
    /\ UNCHANGED <<pageVars, answer>>

SnapshotArrives(n) ==
    /\ n \in snapshots /\ activeTurn = n
    /\ snapshots' = snapshots \ {n}
    /\ Answer("begin", n, "ok")
    /\ UNCHANGED <<pageVars, toBrowser, activeTurn, pendingBegin, lease>>

(* Mutant: whatever turn is active now is aborted.                         *)
SnapshotTooLateForAny(n) ==
    /\ n \in snapshots
    /\ snapshots' = snapshots \ {n}
    /\ Aborted
    /\ Answer("begin", n, "error")
    /\ UNCHANGED <<pageVars, toBrowser>>

(* The turn has gone, or its target is not that Dao Home any more.         *)
SnapshotTooLate(n) ==
    /\ n \in snapshots
    /\ snapshots' = snapshots \ {n}
    /\ IF activeTurn = n THEN Aborted
       ELSE UNCHANGED <<activeTurn, pendingBegin, lease>>
    /\ Answer("begin", n, "error")
    /\ UNCHANGED <<pageVars, toBrowser>>

(* Mutant: the pending id is cleared once the begin is answered.           *)
CancelAnsweredBegin ==
    /\ Arrives("cancel")
    /\ toBrowser' = Tail(toBrowser)
    /\ IF pendingBegin = Number /\ Number \in snapshots THEN Aborted
       ELSE UNCHANGED <<activeTurn, pendingBegin, lease>>
    /\ UNCHANGED <<pageVars, answer, snapshots>>

CancelBegin ==
    /\ Arrives("cancel")
    /\ toBrowser' = Tail(toBrowser)
    /\ IF pendingBegin = Number THEN Aborted
       ELSE UNCHANGED <<activeTurn, pendingBegin, lease>>
    /\ UNCHANGED <<pageVars, answer, snapshots>>

(* A turn that is not the active one is stale and stays.                   *)
HandleEnd ==
    /\ Arrives("end")
    /\ toBrowser' = Tail(toBrowser)
    /\ IF activeTurn = Number THEN Aborted
       ELSE UNCHANGED <<activeTurn, pendingBegin, lease>>
    /\ Answer("end", Number, "ok")
    /\ UNCHANGED <<pageVars, snapshots>>

(* The page's document goes away with all that was between it and the      *)
(* browser; its handler aborts the turn and forgets its callbacks.         *)
Reload ==
    /\ phase' = "none" /\ answer' = "none"
    /\ toBrowser' = <<>>
    /\ Aborted
    /\ snapshots' = {}
    /\ UNCHANGED begun

Browser ==
    \/ RefuseBegin \/ OpenTurn \/ OpenHomeTurn
    \/ \E n \in snapshots : SnapshotArrives(n) \/ SnapshotTooLate(n)
    \/ CancelBegin \/ HandleEnd

Next ==
    \/ BeginTurn \/ BeginSucceeds \/ BeginFails \/ BeginTimesOut
    \/ EndTurn \/ EndAnswered \/ EndTimesOut
    \/ Browser \/ Reload

Spec == Init /\ [][Next]_turnVars
-----------------------------------------------------------------------------
(* When the page has no turn and nothing is on its way, the browser has    *)
(* none and holds no lease: a begin whose answer came too late is undone.  *)
TurnsAgree == phase = "none" /\ toBrowser = <<>> => activeTurn = 0 /\ ~lease

(* While the page runs a turn the browser has that turn, whatever became   *)
(* of earlier ones: their late cancels, ends and snapshots do not touch it. *)
OpenTurnIsActive == phase = "open" => activeTurn = begun
=============================================================================
