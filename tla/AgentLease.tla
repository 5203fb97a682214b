----------------------------- MODULE AgentLease -----------------------------
(***************************************************************************)
(* The profile-wide table of browser control leases                        *)
(* (automation/dao_agent_lease_manager.cc): which agent may drive which    *)
(* tab.  A client holds its lease in a move-only DaoAgentLease; the table  *)
(* entry lives as long as the handle, whichever variable it was moved to.  *)
(***************************************************************************)
EXTENDS Naturals

CONSTANTS
    Tabs,      \* tab handles; their order is the order of the std::map
    Holders,   \* the DaoAgentLease variables of the clients
    Clients,   \* the agents that ask for control
    Mcp,       \* those of type kMcp; the others are of type kDaoAgent
    Nobody,    \* no client
    MaxId      \* bound on next_lease_id_, a uint64_t in the code

ASSUME LeaseAssumption ==
    /\ Tabs \subseteq Nat \ {0}
    /\ Mcp \subseteq Clients
    /\ Nobody \notin Clients \cup Holders
    /\ MaxId \in Nat

VARIABLES
    alive,     \* the manager exists (it is user data of the profile)
    leases,    \* leases_: the entry of every target, NoLease when absent
    nextId,    \* next_lease_id_
    handle,    \* the DaoAgentLease each holder has, Empty when moved from
    reply      \* what the last TryAcquire returned

vars == <<alive, leases, nextId, handle, reply>>

Whole   == 0                          \* TabHandle::Null(): the whole browser
Targets == Tabs \cup {Whole}
NoLease == [id |-> 0, owner |-> Nobody]
Empty   == [target |-> Whole, id |-> 0]
Replies == {"none", "granted", "LeaseBusy", "AgentControlBusy"}

Held == {t \in Targets : leases[t].id # 0}
Live == {h \in Holders : handle[h].id # 0}

(* Mutant: only an entry of the wanted target itself is in the way.        *)
InTheWayOfSameTarget(t) == Held \cap {t}

(* The entry TryAcquire finds in its way: any entry when the whole browser *)
(* is wanted (the first of the map), else the tab's own, else the whole    *)
(* browser's.                                                              *)
InTheWay(t) == IF t = Whole THEN Held ELSE Held \cap {t, Whole}

Existing(t) ==
    IF t # Whole /\ t \in Held
      THEN t
      ELSE CHOOSE u \in InTheWay(t) : \A v \in InTheWay(t) : u <= v

(* The table ls after Release(l.target, l.id): a stale id changes nothing. *)
Released(ls, l) ==
    IF alive /\ l.id # 0 /\ ls[l.target].id = l.id
      THEN [ls EXCEPT ![l.target] = NoLease]
      ELSE ls
-----------------------------------------------------------------------------
Init ==
    /\ alive = TRUE
    /\ leases = [t \in Targets |-> NoLease]
    /\ nextId = 1
    /\ handle = [h \in Holders |-> Empty]
    /\ reply = "none"

(* TryAcquire succeeds and its result is move-assigned to h, which first   *)
(* releases the lease h still had.                                         *)
Acquire(h, t, c) ==
    /\ alive
    /\ InTheWay(t) = {}
    /\ nextId <= MaxId
    /\ leases' = Released([leases EXCEPT ![t] = [id |-> nextId, owner |-> c]],
                          handle[h])
    /\ handle' = [handle EXCEPT ![h] = [target |-> t, id |-> nextId]]
    /\ nextId' = nextId + 1
    /\ reply' = "granted"
    /\ UNCHANGED alive

(* TryAcquire fails; only a Dao Agent stopped by an MCP client may retry.  *)
Refuse(t, c) ==
    /\ alive
    /\ InTheWay(t) # {}
    /\ reply' = IF c \notin Mcp /\ leases[Existing(t)].owner \in Mcp
                  THEN "AgentControlBusy"
                  ELSE "LeaseBusy"
    /\ UNCHANGED <<alive, leases, nextId, handle>>

(* Mutant: the target of a move does not reset its own lease.              *)
MoveWithoutReset(g, h) ==
    /\ g # h
    /\ handle' = [handle EXCEPT ![g] = handle[h], ![h] = Empty]
    /\ UNCHANGED <<alive, leases, nextId, reply>>

(* Mutant: the target of a move is reset after it took the source's lease. *)
MoveThenReset(g, h) ==
    /\ g # h
    /\ leases' = Released(leases, handle[h])
    /\ handle' = [handle EXCEPT ![g] = handle[h], ![h] = Empty]
    /\ UNCHANGED <<alive, nextId, reply>>

(* g = std::move(h): g's lease is reset, h is left empty.                  *)
Move(g, h) ==
    /\ g # h
    /\ leases' = Released(leases, handle[g])
    /\ handle' = [handle EXCEPT ![g] = handle[h], ![h] = Empty]
    /\ UNCHANGED <<alive, nextId, reply>>

(* DaoAgentLease::Reset, also what the destructor does.                    *)
Reset(h) ==
    /\ leases' = Released(leases, handle[h])
    /\ handle' = [handle EXCEPT ![h] = Empty]
    /\ UNCHANGED <<alive, nextId, reply>>

(* The profile drops its user data; the handles' weak pointers go null.    *)
DestroyManager ==
    /\ alive
    /\ alive' = FALSE
    /\ leases' = [t \in Targets |-> NoLease]
    /\ UNCHANGED <<nextId, handle, reply>>

Next ==
    \/ \E h \in Holders, t \in Targets, c \in Clients : Acquire(h, t, c)
    \/ \E t \in Targets, c \in Clients : Refuse(t, c)
    \/ \E g, h \in Holders : Move(g, h)
    \/ \E h \in Holders : Reset(h)
    \/ DestroyManager

Spec == Init /\ [][Next]_vars
-----------------------------------------------------------------------------
LeaseState  == [id : Nat, owner : Clients \cup {Nobody}]
LeaseHandle == [target : Targets, id : Nat]

(* The variables keep the types the C++ declarations give them.            *)
TypeOK ==
    /\ alive \in BOOLEAN
    /\ leases \in [Targets -> LeaseState]
    /\ nextId \in Nat \ {0}
    /\ handle \in [Holders -> LeaseHandle]
    /\ reply \in Replies

Overlap(t, u) == t = u \/ t = Whole \/ u = Whole

(* Two lease handles in circulation never give control of the same tab,    *)
(* nor does a handle on one tab coexist with one on the whole browser,     *)
(* however the handles were moved about (TryAcquire, operator=).           *)
Exclusive ==
    alive => \A g, h \in Live :
                g # h => ~Overlap(handle[g].target, handle[h].target)

(* Every table entry belongs to a handle some client still has: a tab is   *)
(* never left locked by a lease nobody can release (Reset, Release).       *)
NoLostLease ==
    \A t \in Held : \E h \in Live :
        handle[h].target = t /\ handle[h].id = leases[t].id

(* Every handle a client still has is in the table: control that was       *)
(* granted is not lost to another client's release of a stale id.          *)
NoStolenLease ==
    alive => \A h \in Live : leases[handle[h].target].id = handle[h].id

(* Lease ids are issued once, so that Release can tell a stale handle.     *)
FreshIds ==
    \A g, h \in Live :
        /\ handle[g].id < nextId
        /\ handle[g].id = handle[h].id => g = h

(* Control of the tabs, as the handles in circulation give it.             *)
Controller(t) ==
    IF alive /\ \E h \in Live : handle[h].target \in {t, Whole}
      THEN CHOOSE h \in Live : handle[h].target \in {t, Whole}
      ELSE Nobody

Control == INSTANCE TabControl WITH ctl <- [t \in Tabs |-> Controller(t)]

(* The lease table implements exclusive, undisplaced control of tabs, which *)
(* only a move of the handle passes on.                                    *)
ImplementsTabControl == Control!MovableSpec
=============================================================================
