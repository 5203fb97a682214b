----------------------------- MODULE TabControl -----------------------------
(***************************************************************************)
(* What the browser promises about agent control of its tabs: every tab    *)
(* has at most one controller, a controller is never displaced by another  *)
(* one's request, and control ends only when its holder gives it up or the *)
(* whole profile goes away.  MovableSpec also lets a holder hand its tabs  *)
(* to another holder.                                                      *)
(***************************************************************************)
CONSTANTS
    Tabs,       \* the tabs of a profile
    Holders,    \* the places an agent can keep its grip on a tab
    Nobody      \* no controller

VARIABLE ctl    \* ctl[t] is the holder that controls tab t, or Nobody

Init == ctl = [t \in Tabs |-> Nobody]

Of(h) == {t \in Tabs : ctl[t] = h}

(* h takes the free tabs S, and lets go of the tabs R it had.              *)
Take(h, S, R) ==
    /\ S \subseteq Of(Nobody)
    /\ R \subseteq Of(h)
    /\ ctl' = [t \in Tabs |-> IF t \in S THEN h ELSE IF t \in R THEN Nobody ELSE ctl[t]]

(* Several are served at once, each with free tabs.                        *)
Serve(S, to) ==
    /\ S \subseteq Of(Nobody)
    /\ ctl' = [t \in Tabs |-> IF t \in S THEN to[t] ELSE ctl[t]]

(* g gives its tabs to h, which lets go of its own.                        *)
HandOver(g, h) ==
    ctl' = [t \in Tabs |-> IF t \in Of(g) THEN h
                           ELSE IF t \in Of(h) THEN Nobody ELSE ctl[t]]

End == ctl' = [t \in Tabs |-> Nobody]

Next ==
    \/ \E h \in Holders, S, R \in SUBSET Tabs : Take(h, S, R)
    \/ \E S \in SUBSET Tabs : \E to \in [S -> Holders] : Serve(S, to)
    \/ End

Move == \E g, h \in Holders : g # h /\ HandOver(g, h)

Spec == Init /\ [][Next]_ctl
MovableSpec == Init /\ [][Next \/ Move]_ctl
=============================================================================
