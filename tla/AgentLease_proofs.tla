-------------------------- MODULE AgentLease_proofs --------------------------
(***************************************************************************)
(* Proofs about AgentLease: for any tabs, holders and clients the handles  *)
(* in circulation and the lease table always agree, so that control of a   *)
(* tab is exclusive, and the table implements TabControl.                  *)
(***************************************************************************)
EXTENDS AgentLease, TLAPS

(* Once the manager is gone its table is.                                  *)
DeadIsEmpty == ~alive => Held = {}

IInv ==
    /\ TypeOK
    /\ Exclusive
    /\ NoLostLease
    /\ NoStolenLease
    /\ FreshIds
    /\ DeadIsEmpty

(* Releasing a handle only ever clears the entry that handle owns.         *)
LEMMA ReleasedFacts ==
    ASSUME TypeOK, NEW h \in Holders,
           NEW ls \in [Targets -> LeaseState]
    PROVE  /\ Released(ls, handle[h]) \in [Targets -> LeaseState]
           /\ \A t \in Targets :
                 Released(ls, handle[h])[t] =
                    IF /\ alive
                       /\ handle[h].id # 0
                       /\ t = handle[h].target
                       /\ ls[t].id = handle[h].id
                      THEN NoLease
                      ELSE ls[t]
  <1>1. NoLease \in LeaseState
    BY DEF NoLease, LeaseState
  <1>2. handle[h] \in LeaseHandle /\ handle[h].target \in Targets
    BY DEF TypeOK, LeaseHandle
  <1> QED
    BY <1>1, <1>2 DEF Released

LEMMA NullFacts ==
    /\ Whole \in Targets
    /\ Whole \notin Tabs
    /\ Empty \in LeaseHandle
    /\ NoLease \in LeaseState
    /\ Nobody \notin Clients
    /\ Nobody \notin Holders
  BY LeaseAssumption
     DEF Whole, Targets, Empty, LeaseHandle, NoLease, LeaseState

LEMMA InitInv == Init => IInv
  <1> SUFFICES ASSUME Init PROVE IInv
    OBVIOUS
  <1>1. TypeOK
    BY NullFacts DEF Init, TypeOK, Replies
  <1>2. Live = {} /\ Held = {}
    BY DEF Init, Live, Held, Empty, NoLease
  <1> QED
    BY <1>1, <1>2 DEF IInv, Exclusive, NoLostLease, NoStolenLease, FreshIds,
                      DeadIsEmpty

LEMMA AcquireInv ==
    ASSUME IInv, NEW h \in Holders, NEW t \in Targets, NEW c \in Clients,
           Acquire(h, t, c)
    PROVE  IInv'
  <1> USE DEF IInv
  <1> DEFINE new == [id |-> nextId, owner |-> c]
             ls  == [leases EXCEPT ![t] = new]
  <1>1. new \in LeaseState /\ ls \in [Targets -> LeaseState]
    BY DEF TypeOK, LeaseState
  <1>2. leases' = Released(ls, handle[h])
    BY DEF Acquire
  <1> HIDE DEF ls
  <1>3. TypeOK'
    <2>1. leases' \in [Targets -> LeaseState]
      BY <1>1, <1>2, ReleasedFacts
    <2>2. [target |-> t, id |-> nextId] \in LeaseHandle
      BY DEF TypeOK, LeaseHandle
    <2>3. nextId' \in Nat \ {0} /\ reply' \in Replies /\ alive' \in BOOLEAN
      BY DEF TypeOK, Acquire, Replies
    <2>4. handle' \in [Holders -> LeaseHandle]
      BY <2>2 DEF TypeOK, Acquire
    <2> QED
      BY <2>1, <2>3, <2>4 DEF TypeOK
  <1>4. /\ handle' = [handle EXCEPT ![h] = [target |-> t, id |-> nextId]]
        /\ nextId' = nextId + 1
        /\ nextId \in Nat \ {0}
        /\ alive /\ alive'
    BY DEF Acquire, TypeOK
  <1>5. Live' = Live \cup {h}
    BY <1>4 DEF Live, TypeOK
  <1>6. \A g \in Live : ~Overlap(handle[g].target, t)
    BY <1>4, NullFacts
       DEF Acquire, InTheWay, Held, Overlap, NoStolenLease, TypeOK, Live,
           LeaseHandle
  <1>7. Exclusive'
    BY <1>4, <1>5, <1>6 DEF Exclusive, Overlap, TypeOK, Live
  <1>8. FreshIds'
    BY <1>4, <1>5 DEF FreshIds, TypeOK, LeaseHandle, Live
  <1>9. \A u \in Targets :
          leases'[u] =
             IF handle[h].id # 0 /\ u = handle[h].target
                  /\ ls[u].id = handle[h].id
               THEN NoLease ELSE ls[u]
    BY <1>1, <1>2, <1>4, ReleasedFacts
  <1>10. \A u \in Targets : ls[u] = IF u = t THEN new ELSE leases[u]
    BY DEF ls, TypeOK
  <1>11. leases'[t].id = nextId
    BY <1>4, <1>9, <1>10 DEF FreshIds, Live, TypeOK, LeaseHandle
  <1>12. \A g \in Live : g # h => leases'[handle[g].target] = leases[handle[g].target]
    BY <1>4, <1>6, <1>9, <1>10
       DEF Overlap, Exclusive, Live, TypeOK, LeaseHandle
  <1>13. NoStolenLease'
    BY <1>4, <1>5, <1>11, <1>12 DEF NoStolenLease, TypeOK, Live, LeaseHandle
  <1>14. NoLostLease'
    <2> SUFFICES ASSUME NEW u \in Held'
                 PROVE  \E g \in Live' : handle'[g].target = u
                                         /\ handle'[g].id = leases'[u].id
      BY DEF NoLostLease
    <2>1. u \in Targets
      BY DEF Held
    <2>2. CASE u = t
      BY <2>2, <1>4, <1>5, <1>11 DEF TypeOK
    <2>3. CASE u # t
      <3>1. leases'[u].id # 0
        BY DEF Held
      <3>2. leases'[u] = leases[u]
        BY <2>1, <2>3, <3>1, <1>9, <1>10 DEF NoLease
      <3>3. u \in Held
        BY <3>1, <3>2, <2>1 DEF Held
      <3>4. PICK g \in Live : handle[g].target = u /\ handle[g].id = leases[u].id
        BY <3>3 DEF NoLostLease
      <3>5. g # h
        BY <3>1, <3>2, <3>4, <1>9, <1>10, <2>1, <2>3 DEF Live, NoLease
      <3> QED
        BY <3>2, <3>4, <3>5, <1>4, <1>5 DEF TypeOK, Live
    <2> QED
      BY <2>2, <2>3
  <1>15. DeadIsEmpty'
    BY <1>4 DEF DeadIsEmpty
  <1> QED
    BY <1>3, <1>7, <1>8, <1>13, <1>14, <1>15

(* What Reset, Move and a stale release have in common: the lease of g is  *)
(* released and no other table entry changes.                              *)
LEMMA AfterRelease ==
    ASSUME IInv, NEW g \in Holders, leases' = Released(leases, handle[g])
    PROVE  /\ leases' \in [Targets -> LeaseState]
           /\ alive => \A h \in Live \ {g} :
                leases'[handle[h].target] = leases[handle[h].target]
           /\ \A t \in Targets : leases'[t].id # 0 =>
                /\ leases'[t] = leases[t]
                /\ \E h \in Live \ {g} :
                      handle[h].target = t /\ handle[h].id = leases[t].id
  <1> USE DEF IInv
  <1>1. /\ leases' \in [Targets -> LeaseState]
        /\ \A t \in Targets :
             leases'[t] = IF /\ alive /\ handle[g].id # 0
                             /\ t = handle[g].target
                             /\ leases[t].id = handle[g].id
                            THEN NoLease ELSE leases[t]
    BY ReleasedFacts DEF TypeOK
  <1>2. ASSUME alive, NEW h \in Live \ {g}
        PROVE  leases'[handle[h].target] = leases[handle[h].target]
    BY <1>1, <1>2 DEF NoStolenLease, FreshIds, Exclusive, Overlap, Live,
                      TypeOK, LeaseHandle
  <1>3. ASSUME NEW t \in Targets, leases'[t].id # 0
        PROVE  /\ leases'[t] = leases[t]
               /\ \E h \in Live \ {g} :
                     handle[h].target = t /\ handle[h].id = leases[t].id
    <2>1. leases'[t] = leases[t] /\ t \in Held
      BY <1>1, <1>3 DEF NoLease, Held
    <2>2. PICK h \in Live : handle[h].target = t /\ handle[h].id = leases[t].id
      BY <2>1 DEF NoLostLease
    <2>3. CASE h # g
      BY <2>1, <2>2, <2>3
    <2>4. CASE h = g
      <3>1. ~alive
        BY <2>1, <2>2, <2>4, <1>1, <1>3 DEF NoLease, Live
      <3> QED
        BY <2>1, <3>1 DEF DeadIsEmpty, Held
    <2> QED
      BY <2>3, <2>4
  <1> QED
    BY <1>1, <1>2, <1>3

LEMMA MoveInv ==
    ASSUME IInv, NEW g \in Holders, NEW h \in Holders, Move(g, h)
    PROVE  IInv'
  <1> USE DEF IInv
  <1>1. /\ g # h
        /\ leases' = Released(leases, handle[g])
        /\ handle' = [handle EXCEPT ![g] = handle[h], ![h] = Empty]
        /\ UNCHANGED <<alive, nextId, reply>>
    BY DEF Move
  <1>2. TypeOK'
    BY <1>1, AfterRelease, NullFacts DEF TypeOK
  <1>3. /\ handle'[g] = handle[h]
        /\ handle'[h] = Empty
        /\ \A k \in Holders \ {g, h} : handle'[k] = handle[k]
    BY <1>1, NullFacts DEF TypeOK
  <1> DEFINE Was == [k \in Holders |-> IF k = g THEN h ELSE k]
  <1>4. h \notin Live' /\ Live' \subseteq Holders /\ Live \subseteq Holders
    BY <1>3 DEF Live, Empty
  <1>5. \A k \in Live' : /\ Was[k] \in Live \ {g}
                        /\ handle'[k] = handle[Was[k]]
    BY <1>1, <1>3, <1>4 DEF Live
  <1>6. ASSUME NEW k \in Live \ {g}
        PROVE  \E m \in Live' : Was[m] = k
    <2>1. CASE k = h
      BY <2>1, <1>1, <1>3, <1>4 DEF Live
    <2>2. CASE k # h
      BY <2>2, <1>1, <1>3, <1>4 DEF Live
    <2> QED
      BY <2>1, <2>2
  <1>7. \A k, m \in Live' : k # m => Was[k] # Was[m]
    BY <1>4
  <1> HIDE DEF Was
  <1>a. alive' = alive /\ nextId' = nextId
    BY <1>1
  <1>b. Exclusive /\ FreshIds /\ NoStolenLease
    OBVIOUS
  <1>c. alive => \A k \in Live \ {g} :
          leases'[handle[k].target] = leases[handle[k].target]
    BY <1>1, AfterRelease
  <1>8. ASSUME NEW k \in Live', NEW m \in Live', k # m
        PROVE  /\ alive' => ~Overlap(handle'[k].target, handle'[m].target)
               /\ handle'[k].id # handle'[m].id
               /\ handle'[k].id < nextId'
    BY <1>a, <1>b, <1>5, <1>7, <1>8 DEF Exclusive, FreshIds
  <1>9. ASSUME NEW k \in Live'
        PROVE  /\ handle'[k].id < nextId'
               /\ alive' => leases'[handle'[k].target].id = handle'[k].id
    BY <1>a, <1>b, <1>c, <1>5 DEF FreshIds, NoStolenLease
  <1>10. Exclusive' /\ FreshIds' /\ NoStolenLease'
    BY <1>8, <1>9 DEF Exclusive, FreshIds, NoStolenLease, Overlap
  <1>11. NoLostLease'
    <2> SUFFICES ASSUME NEW t \in Held'
                 PROVE  \E m \in Live' : handle'[m].target = t
                                         /\ handle'[m].id = leases'[t].id
      BY DEF NoLostLease
    <2>1. t \in Targets /\ leases'[t].id # 0
      BY DEF Held
    <2>2. PICK k \in Live \ {g} : /\ leases'[t] = leases[t]
                                  /\ handle[k].target = t
                                  /\ handle[k].id = leases[t].id
      BY <1>1, <2>1, AfterRelease
    <2>3. PICK m \in Live' : Was[m] = k
      BY <1>6
    <2> QED
      BY <2>2, <2>3, <1>5
  <1>12. DeadIsEmpty'
    BY <1>1, <1>2, AfterRelease DEF DeadIsEmpty, Held
  <1> QED
    BY <1>2, <1>10, <1>11, <1>12

LEMMA ResetInv ==
    ASSUME IInv, NEW h \in Holders, Reset(h)
    PROVE  IInv'
  <1> USE DEF IInv
  <1>1. /\ leases' = Released(leases, handle[h])
        /\ handle' = [handle EXCEPT ![h] = Empty]
        /\ UNCHANGED <<alive, nextId, reply>>
    BY DEF Reset
  <1>2. TypeOK'
    BY <1>1, AfterRelease, NullFacts DEF TypeOK
  <1>3. /\ Live' = Live \ {h}
        /\ \A k \in Live' : handle'[k] = handle[k]
    BY <1>1, NullFacts DEF TypeOK, Live, Empty
  <1>4. Exclusive' /\ FreshIds'
    BY <1>1, <1>3 DEF Exclusive, FreshIds, Overlap
  <1>5. NoStolenLease' /\ NoLostLease'
    BY <1>1, <1>3, AfterRelease DEF NoStolenLease, NoLostLease, Held
  <1>6. DeadIsEmpty'
    BY <1>1, AfterRelease DEF DeadIsEmpty, Held
  <1> QED
    BY <1>2, <1>4, <1>5, <1>6

LEMMA NextInv == IInv /\ [Next]_vars => IInv'
  <1> SUFFICES ASSUME IInv, [Next]_vars PROVE IInv'
    OBVIOUS
  <1>1. ASSUME NEW h \in Holders, NEW t \in Targets, NEW c \in Clients,
               Acquire(h, t, c)
        PROVE  IInv'
    BY <1>1, AcquireInv
  <1>2. ASSUME NEW t \in Targets, NEW c \in Clients, Refuse(t, c)
        PROVE  IInv'
    BY <1>2 DEF Refuse, IInv, TypeOK, Exclusive, NoLostLease, NoStolenLease,
                FreshIds, DeadIsEmpty, Live, Held, Replies
  <1>3. ASSUME NEW g \in Holders, NEW h \in Holders, Move(g, h)
        PROVE  IInv'
    BY <1>3, MoveInv
  <1>4. ASSUME NEW h \in Holders, Reset(h)
        PROVE  IInv'
    BY <1>4, ResetInv
  <1>5. CASE DestroyManager
    BY <1>5, NullFacts
       DEF DestroyManager, IInv, TypeOK, Exclusive, NoLostLease,
           NoStolenLease, FreshIds, DeadIsEmpty, Live, Held, NoLease
  <1>6. CASE UNCHANGED vars
    BY <1>6 DEF vars, IInv, TypeOK, Exclusive, NoLostLease, NoStolenLease,
                FreshIds, DeadIsEmpty, Live, Held
  <1> QED
    BY <1>1, <1>2, <1>3, <1>4, <1>5, <1>6 DEF Next

THEOREM LeaseInvariant == Spec => []IInv
  BY InitInv, NextInv, PTL DEF Spec

(* The variables of the lease table keep their types.                      *)
THEOREM LeaseTypes == Spec => []TypeOK
  BY LeaseInvariant, PTL DEF IInv

(* No two lease handles in circulation control the same tab, for any       *)
(* number of tabs, clients and lease variables.                            *)
THEOREM LeaseExclusion == Spec => []Exclusive
  BY LeaseInvariant, PTL DEF IInv

(* A table entry always belongs to a handle in circulation, so releasing   *)
(* the handles frees every tab.                                            *)
THEOREM LeasesAreReleasable == Spec => []NoLostLease
  BY LeaseInvariant, PTL DEF IInv

(* A handle in circulation always owns its table entry: stale releases     *)
(* never take another client's control away.                               *)
THEOREM LeasesAreNotStolen == Spec => []NoStolenLease
  BY LeaseInvariant, PTL DEF IInv
-----------------------------------------------------------------------------
(***************************************************************************)
(* The refinement: the controller of a tab is the one live handle that     *)
(* covers it.  Exclusive is what makes it one, so that the CHOOSE in       *)
(* Controller is no choice.                                                *)
(***************************************************************************)
Controls(h, t) == alive /\ h \in Live /\ handle[h].target \in {t, Whole}

Characterised ==
    \A t \in Tabs :
        /\ Controller(t) \in Holders \cup {Nobody}
        /\ \A h \in Holders : Controller(t) = h <=> Controls(h, t)
        /\ Controller(t) = Nobody <=> \A h \in Holders : ~Controls(h, t)

LEMMA ControllerIsUnique == IInv => Characterised
  <1> SUFFICES ASSUME IInv, NEW t \in Tabs
               PROVE  /\ Controller(t) \in Holders \cup {Nobody}
                      /\ \A h \in Holders : Controller(t) = h <=> Controls(h, t)
                      /\ Controller(t) = Nobody
                           <=> \A h \in Holders : ~Controls(h, t)
    BY DEF Characterised
  <1>1. Exclusive /\ Nobody \notin Holders /\ Live \subseteq Holders
    BY NullFacts DEF IInv, Live
  <1>2. CASE \E h \in Holders : Controls(h, t)
    <2>1. PICK h \in Holders : Controls(h, t)
      BY <1>2
    <2>2. \A g \in Holders : Controls(g, t) => g = h
      BY <1>1, <2>1 DEF Controls, Exclusive, Overlap
    <2>3. Controls(Controller(t), t)
      BY <2>1 DEF Controller, Controls
    <2> QED
      BY <1>1, <2>1, <2>2, <2>3 DEF Controls
  <1>3. CASE \A h \in Holders : ~Controls(h, t)
    BY <1>1, <1>3 DEF Controller, Controls
  <1> QED
    BY <1>2, <1>3

ctlbar == [t \in Tabs |-> Controller(t)]

(* A step changes control as the abstract action says if it changes who    *)
(* controls which tab that way.                                            *)
LEMMA StepOfControl ==
    ASSUME Characterised, Characterised', [Next]_vars, IInv, IInv'
    PROVE  [Control!Next \/ Control!Move]_ctlbar
  <1>0. /\ Nobody \notin Holders /\ Whole \notin Tabs
        /\ ctlbar = [t \in Tabs |-> Controller(t)]
        /\ ctlbar' = [t \in Tabs |-> Controller(t)']
        /\ \A t \in Tabs :
             /\ \A h \in Holders : Controller(t) = h <=> Controls(h, t)
             /\ Controller(t) = Nobody <=> \A h \in Holders : ~Controls(h, t)
             /\ Controller(t) \in Holders \cup {Nobody}
        /\ \A t \in Tabs :
             /\ \A h \in Holders : Controller(t)' = h <=> Controls(h, t)'
             /\ Controller(t)' = Nobody <=> \A h \in Holders : ~Controls(h, t)'
             /\ Controller(t)' \in Holders \cup {Nobody}
    BY NullFacts DEF Characterised, ctlbar
  <1>1. ASSUME NEW h \in Holders, NEW t \in Targets, NEW c \in Clients,
               Acquire(h, t, c)
        PROVE  [Control!Next \/ Control!Move]_ctlbar
    <2> DEFINE S == IF t = Whole THEN Tabs ELSE {t}
    <2>1. /\ handle' = [handle EXCEPT ![h] = [target |-> t, id |-> nextId]]
          /\ nextId \in Nat \ {0} /\ alive /\ alive'
      BY <1>1 DEF Acquire, IInv, TypeOK
    <2>2. \A g \in Live : ~Overlap(handle[g].target, t)
      BY <1>1, NullFacts
         DEF Acquire, InTheWay, Held, Overlap, IInv, NoStolenLease, TypeOK,
             Live, LeaseHandle
    <2>3. \A x \in Tabs, g \in Holders :
             Controls(g, x)' <=> IF g = h THEN x \in S ELSE Controls(g, x)
      BY <2>1, NullFacts DEF Controls, Live, IInv, TypeOK, Targets
    <2>4. \A x \in S, g \in Holders : ~Controls(g, x)
      BY <2>2 DEF Controls, Overlap
    <2> DEFINE R == Control!Of(h)
    <2>5. Control!Take(h, S, R)
      <3>1. S \subseteq Tabs
        BY DEF Targets
      <3>2. \A x \in S : Controller(x) = Nobody
        BY <1>0, <2>4, <3>1
      <3>3. \A x \in Tabs : Controller(x)' =
              IF x \in S THEN h
              ELSE IF Controller(x) = h THEN Nobody ELSE Controller(x)
        BY <1>0, <2>3, <2>4
      <3> QED
        BY <1>0, <3>1, <3>2, <3>3 DEF Control!Take, Control!Of, ctlbar
    <2>6. S \in SUBSET Tabs /\ R \in SUBSET Tabs
      BY DEF Targets, Control!Of
    <2> QED
      BY <2>5, <2>6 DEF Control!Next
  <1>2. ASSUME NEW t \in Targets, NEW c \in Clients, Refuse(t, c)
        PROVE  [Control!Next \/ Control!Move]_ctlbar
    <2>1. UNCHANGED ctlbar
      BY <1>2 DEF Refuse, ctlbar, Controller, Live
    <2> QED
      BY <2>1
  <1>3. ASSUME NEW g \in Holders, NEW h \in Holders, Move(g, h)
        PROVE  [Control!Next \/ Control!Move]_ctlbar
    <2>1. /\ handle' = [handle EXCEPT ![g] = handle[h], ![h] = Empty]
          /\ g # h /\ alive' = alive
      BY <1>3 DEF Move
    <2>2. \A x \in Tabs, k \in Holders :
             Controls(k, x)' <=> IF k = g THEN Controls(h, x)
                                 ELSE k # h /\ Controls(k, x)
      BY <2>1 DEF Controls, Live, IInv, TypeOK, Empty
    <2>3. \A x \in Tabs : Controller(x)' =
            IF Controller(x) = h THEN g
            ELSE IF Controller(x) = g THEN Nobody ELSE Controller(x)
      BY <1>0, <2>1, <2>2
    <2>4. Control!HandOver(h, g)
      BY <1>0, <2>3 DEF Control!HandOver, Control!Of, ctlbar
    <2> QED
      BY <2>1, <2>4 DEF Control!Move
  <1>4. ASSUME NEW h \in Holders, Reset(h)
        PROVE  [Control!Next \/ Control!Move]_ctlbar
    <2>1. handle' = [handle EXCEPT ![h] = Empty] /\ alive' = alive
      BY <1>4 DEF Reset
    <2>2. \A x \in Tabs, k \in Holders :
             Controls(k, x)' <=> k # h /\ Controls(k, x)
      BY <2>1 DEF Controls, Live, IInv, TypeOK, Empty
    <2>3. \A x \in Tabs : Controller(x)' =
            IF Controller(x) = h THEN Nobody ELSE Controller(x)
      BY <1>0, <2>2
    <2> DEFINE R == Control!Of(h)
    <2>4. Control!Take(h, {}, R) /\ R \in SUBSET Tabs
      BY <1>0, <2>3 DEF Control!Take, Control!Of, ctlbar
    <2> QED
      BY <2>4 DEF Control!Next
  <1>5. CASE DestroyManager
    <2>1. \A x \in Tabs : Controller(x)' = Nobody
      BY <1>0, <1>5 DEF DestroyManager, Controls
    <2>2. Control!End
      BY <1>0, <2>1 DEF Control!End, ctlbar
    <2> QED
      BY <2>2 DEF Control!Next
  <1>6. CASE UNCHANGED vars
    <2>1. UNCHANGED ctlbar
      BY <1>6 DEF vars, ctlbar, Controller, Live
    <2> QED
      BY <2>1
  <1> QED
    BY <1>1, <1>2, <1>3, <1>4, <1>5, <1>6 DEF Next

(* The lease table implements exclusive control of tabs: every change of   *)
(* the handles is a taking of free tabs, a handing over, a giving up or    *)
(* the end of the profile.                                                 *)
THEOREM LeaseRefinement == Spec => ImplementsTabControl
  <1>1. Init => Control!Init
    <2> SUFFICES ASSUME Init PROVE \A t \in Tabs : Controller(t) = Nobody
      BY DEF Control!Init
    <2>1. Live = {}
      BY DEF Init, Live, Empty
    <2> QED
      BY <2>1 DEF Controller
  <1>2. IInv /\ IInv' /\ [Next]_vars => [Control!Next \/ Control!Move]_ctlbar
    <2>1. IInv => Characterised
      BY ControllerIsUnique
    <2>2. IInv' => Characterised'
      BY ControllerIsUnique, PTL
    <2> QED
      BY <2>1, <2>2, StepOfControl
  <1> QED
    BY <1>1, <1>2, LeaseInvariant, PTL
       DEF Spec, ImplementsTabControl, Control!MovableSpec, ctlbar
=============================================================================
