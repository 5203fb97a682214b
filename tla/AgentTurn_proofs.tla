-------------------------- MODULE AgentTurn_proofs --------------------------
(***************************************************************************)
(* For any number of turns: the browser never keeps a turn the page has    *)
(* given up, and never takes away the one the page runs.                   *)
(***************************************************************************)
EXTENDS AgentTurn, TLAPS

(* The numbers on the way rise, and each begin is the first of its turn.   *)
Numbers ==
    /\ \A i \in 1..Len(toBrowser) : toBrowser[i].n \in 1..begun
    /\ \A i, j \in 1..Len(toBrowser) : i < j => toBrowser[i].n <= toBrowser[j].n
    /\ \A s \in snapshots : s \in 1..begun

(* A begin on its way is newer than all the browser has, and the page      *)
(* still waits for it or has sent its cancel after it.                     *)
BeginIsNew ==
    \A i \in 1..Len(toBrowser) : toBrowser[i].op = "begin" =>
        /\ activeTurn < toBrowser[i].n
        /\ \A j \in 1..Len(toBrowser) : j < i => toBrowser[j].n < toBrowser[i].n
        /\ \A s \in snapshots : s < toBrowser[i].n

BeginIsWanted ==
    \A i \in 1..Len(toBrowser) : toBrowser[i].op = "begin" =>
        \/ phase = "begin" /\ begun = toBrowser[i].n
        \/ \E j \in 1..Len(toBrowser) : i < j /\ toBrowser[j] = [op |-> "cancel", n |-> toBrowser[i].n]

(* The browser's turn is the page's, or what ends it is on its way.        *)
ActiveIsWanted ==
    activeTurn # 0 =>
        /\ pendingBegin = activeTurn /\ activeTurn <= begun
        /\ \/ phase \in {"begin", "open"} /\ begun = activeTurn
           \/ \E j \in 1..Len(toBrowser) :
                toBrowser[j].op \in {"cancel", "end"} /\ toBrowser[j].n = activeTurn

(* Nothing on its way touches the turn the page has.                       *)
OpenIsSafe ==
    phase = "open" =>
        /\ activeTurn = begun /\ begun \notin snapshots
        /\ \A i \in 1..Len(toBrowser) : toBrowser[i].n < begun

BeginIsSafe ==
    phase = "begin" =>
        /\ \A i \in 1..Len(toBrowser) : toBrowser[i].n = begun => toBrowser[i].op = "begin"
        /\ answer # "none" \/ begun \in snapshots =>
              \A i \in 1..Len(toBrowser) : toBrowser[i].n < begun
        /\ answer # "none" => begun \notin snapshots
        /\ answer = "ok" => activeTurn = begun
        /\ answer = "error" => activeTurn # begun

Rest ==
    /\ phase \in {"none", "open"} => answer = "none"
    /\ phase # "none" => begun # 0
    /\ lease => activeTurn # 0

IInv == /\ TypeOK /\ Numbers /\ BeginIsNew /\ BeginIsWanted /\ ActiveIsWanted
        /\ OpenIsSafe /\ BeginIsSafe /\ Rest
-----------------------------------------------------------------------------
(* What posting and receiving do to the messages on their way.             *)
LEMMA Posting ==
    ASSUME toBrowser \in Seq(Message), NEW op \in {"begin", "cancel", "end"},
           NEW n \in Nat, Post(op, n)
    PROVE  /\ toBrowser' \in Seq(Message)
           /\ Len(toBrowser') = Len(toBrowser) + 1
           /\ \A i \in 1..Len(toBrowser) : toBrowser'[i] = toBrowser[i]
           /\ toBrowser'[Len(toBrowser) + 1] = [op |-> op, n |-> n]
<1>1. [op |-> op, n |-> n] \in Message
  BY DEF Message
<1> QED
  BY <1>1 DEF Post

LEMMA Receiving ==
    ASSUME toBrowser \in Seq(Message), NEW op, Arrives(op), toBrowser' = Tail(toBrowser)
    PROVE  /\ toBrowser' \in Seq(Message)
           /\ Len(toBrowser) \in Nat \ {0}
           /\ Len(toBrowser') = Len(toBrowser) - 1
           /\ \A i \in 1..Len(toBrowser') : i + 1 \in 1..Len(toBrowser) /\ toBrowser'[i] = toBrowser[i + 1]
           /\ Number = toBrowser[1].n /\ toBrowser[1].op = op
           /\ \A i \in 1..Len(toBrowser) : i # 1 => i - 1 \in 1..Len(toBrowser')
           /\ \A i \in 1..Len(toBrowser) : i # 1 => toBrowser'[i - 1] = toBrowser[i]
<1>1. toBrowser # <<>> /\ Head(toBrowser) = toBrowser[1]
  BY DEF Arrives
<1>2. Len(toBrowser) \in Nat \ {0} /\ Len(Tail(toBrowser)) = Len(toBrowser) - 1
      /\ \A i \in 1..Len(Tail(toBrowser)) : Tail(toBrowser)[i] = toBrowser[i + 1]
  BY <1>1
<1>3. Tail(toBrowser) \in Seq(Message)
  BY <1>1
<1>4. Number = toBrowser[1].n /\ toBrowser[1].op = op
  BY <1>1 DEF Arrives, Number
<1> QED
  BY <1>2, <1>3, <1>4 

LEMMA Messages ==
    ASSUME toBrowser \in Seq(Message), NEW i \in 1..Len(toBrowser)
    PROVE  toBrowser[i].n \in Nat /\ toBrowser[i].op \in {"begin", "cancel", "end"}
           /\ toBrowser[i] = [op |-> toBrowser[i].op, n |-> toBrowser[i].n]
<1>1. toBrowser[i] \in Message
  OBVIOUS
<1> QED
  BY <1>1 DEF Message

THEOREM TurnInvInit == Init => IInv
<1> SUFFICES ASSUME Init PROVE IInv
  OBVIOUS
<1>1. toBrowser = <<>> /\ Len(toBrowser) = 0 /\ toBrowser \in Seq(Message)
  BY DEF Init
<1>2. \A i \in 1..Len(toBrowser) : FALSE
  BY <1>1
<1>3. TypeOK
  BY <1>1 DEF Init, TypeOK
<1>4. Numbers /\ BeginIsNew /\ BeginIsWanted
  BY <1>2 DEF Init, Numbers, BeginIsNew, BeginIsWanted
<1> QED
  BY <1>1, <1>3, <1>4 DEF Init, IInv, ActiveIsWanted, OpenIsSafe, BeginIsSafe, Rest

LEMMA BeginTurnKeepsInv == IInv /\ BeginTurn => IInv'
<1> SUFFICES ASSUME IInv, BeginTurn PROVE IInv'
  OBVIOUS
<1> USE DEF IInv, TypeOK
<1> DEFINE L == Len(toBrowser)
<1>1. /\ toBrowser' \in Seq(Message)
      /\ Len(toBrowser') = L + 1
      /\ \A i \in 1..L : toBrowser'[i] = toBrowser[i]
      /\ toBrowser'[L + 1] = [op |-> "begin", n |-> begun + 1]
  <2>1. Post("begin", begun + 1)
    BY DEF BeginTurn
  <2>2. begun + 1 \in Nat
    OBVIOUS
  <2> QED
    BY <2>1, <2>2, Posting
<1>2. \A i \in 1..L : toBrowser[i].n \in Nat
  BY Messages
<1>l. L \in Nat /\ L + 1 \notin 1..L /\ L + 1 \in 1..Len(toBrowser')
      /\ \A i \in 1..Len(toBrowser') : i \in 1..L \/ i = L + 1
  BY <1>1
<1>b. phase' = "begin" /\ begun' = begun + 1 /\ UNCHANGED <<answer, browserVars>>
  BY DEF BeginTurn
<1>3. TypeOK'
  BY <1>1, <1>b DEF browserVars
<1>4. Numbers'
  <2>1. \A i \in 1..Len(toBrowser') : toBrowser'[i].n \in 1..begun'
    BY <1>1, <1>2, <1>l, <1>b DEF Numbers
  <2>2. ASSUME NEW i \in 1..Len(toBrowser'), NEW j \in 1..Len(toBrowser'), i < j
        PROVE  toBrowser'[i].n <= toBrowser'[j].n
    <3>1. i \in 1..L
      BY <1>1, <2>2
    <3>2. CASE j \in 1..L
      BY <1>1, <2>2, <3>1, <3>2 DEF Numbers
    <3>3. CASE j = L + 1
      BY <1>1, <3>1, <3>3 DEF Numbers
    <3> QED
      BY <1>l, <3>2, <3>3
  <2>3. \A s \in snapshots' : s \in 1..begun'
    BY <1>b DEF Numbers, browserVars
  <2> QED
    BY <2>1, <2>2, <2>3 DEF Numbers
<1>5. BeginIsNew'
  <2> SUFFICES ASSUME NEW i \in 1..Len(toBrowser'), toBrowser'[i].op = "begin"
               PROVE  /\ activeTurn < toBrowser'[i].n
                      /\ \A j \in 1..Len(toBrowser') : j < i => toBrowser'[j].n < toBrowser'[i].n
                      /\ \A s \in snapshots : s < toBrowser'[i].n
    BY <1>b DEF BeginIsNew, browserVars
  <2>1. CASE i \in 1..L
    <3>1. \A j \in 1..Len(toBrowser') : j < i => j \in 1..L
      BY <1>1, <2>1
    <3> QED
      BY <1>1, <2>1, <3>1 DEF BeginIsNew
  <2>2. CASE i = L + 1
    <3>1. \A j \in 1..Len(toBrowser') : j < i => j \in 1..L
      BY <1>1, <2>2
    <3>2. activeTurn <= begun
      BY DEF ActiveIsWanted
    <3> QED
      BY <1>1, <2>2, <3>1, <3>2 DEF Numbers
  <2> QED
    BY <1>l, <2>1, <2>2
<1>6. BeginIsWanted'
  <2> SUFFICES ASSUME NEW i \in 1..Len(toBrowser'), toBrowser'[i].op = "begin",
                      begun' # toBrowser'[i].n
               PROVE  \E j \in 1..Len(toBrowser') :
                        i < j /\ toBrowser'[j] = [op |-> "cancel", n |-> toBrowser'[i].n]
    BY <1>b DEF BeginIsWanted
  <2>1. i \in 1..L
    BY <1>1, <1>l, <1>b
  <2>2. PICK j \in 1..L : i < j /\ toBrowser[j] = [op |-> "cancel", n |-> toBrowser[i].n]
    BY <1>1, <2>1 DEF BeginIsWanted, BeginTurn
  <2> QED
    BY <1>1, <2>1, <2>2
<1>7. ActiveIsWanted'
  <2> SUFFICES ASSUME activeTurn # 0
               PROVE  /\ pendingBegin = activeTurn /\ activeTurn <= begun + 1
                      /\ \E j \in 1..Len(toBrowser') :
                           toBrowser'[j].op \in {"cancel", "end"} /\ toBrowser'[j].n = activeTurn
    BY <1>b DEF ActiveIsWanted, browserVars
  <2>1. PICK j \in 1..L : toBrowser[j].op \in {"cancel", "end"} /\ toBrowser[j].n = activeTurn
    BY DEF ActiveIsWanted, BeginTurn
  <2>2. j \in 1..Len(toBrowser') /\ toBrowser'[j] = toBrowser[j]
    BY <1>1, <2>1
  <2> QED
    BY <2>1, <2>2 DEF ActiveIsWanted
<1>8. OpenIsSafe' /\ Rest'
  BY <1>b DEF browserVars, OpenIsSafe, Rest, BeginTurn
<1>9. BeginIsSafe'
  <2>1. answer = "none" /\ begun + 1 \notin snapshots
    BY DEF Numbers, Rest, BeginTurn
  <2>2. \A i \in 1..Len(toBrowser') : toBrowser'[i].n = begun' => toBrowser'[i].op = "begin"
    BY <1>1, <1>2, <1>l, <1>b DEF Numbers
  <2> QED
    BY <1>b, <2>1, <2>2 DEF browserVars, BeginIsSafe
<1> QED
  BY <1>3, <1>4, <1>5, <1>6, <1>7, <1>8, <1>9

LEMMA PostingEndKeepsInv ==
    ASSUME IInv, NEW op \in {"cancel", "end"}, Post(op, begun), phase = "open" \/ op = "cancel",
           phase = "begin" \/ op = "end", phase' = IF op = "end" THEN "end" ELSE "none",
           answer' = "none", UNCHANGED <<begun, browserVars>>
    PROVE  IInv'
<1> USE DEF IInv, TypeOK
<1> DEFINE L == Len(toBrowser)
<1>1. /\ toBrowser' \in Seq(Message)
      /\ Len(toBrowser') = L + 1
      /\ \A i \in 1..L : toBrowser'[i] = toBrowser[i]
      /\ toBrowser'[L + 1] = [op |-> op, n |-> begun]
  BY Posting
<1>2. \A i \in 1..L : toBrowser[i].n \in Nat
  BY Messages
<1>l. L \in Nat /\ L + 1 \notin 1..L /\ L + 1 \in 1..Len(toBrowser')
      /\ \A i \in 1..Len(toBrowser') : i \in 1..L \/ i = L + 1
  BY <1>1
<1>3. TypeOK'
  BY <1>1 DEF browserVars
<1>4. Numbers'
  <2>1. begun \in 1..begun
    BY DEF Rest
  <2>2. \A i \in 1..Len(toBrowser') : toBrowser'[i].n \in 1..begun'
    BY <1>1, <1>2, <1>l, <2>1 DEF Numbers
  <2>3. ASSUME NEW i \in 1..Len(toBrowser'), NEW j \in 1..Len(toBrowser'), i < j
        PROVE  toBrowser'[i].n <= toBrowser'[j].n
    <3>1. i \in 1..L
      BY <1>1, <2>3
    <3>2. CASE j \in 1..L
      BY <1>1, <2>3, <3>1, <3>2 DEF Numbers
    <3>3. CASE j = L + 1
      BY <1>1, <3>1, <3>3 DEF Numbers
    <3> QED
      BY <1>l, <3>2, <3>3
  <2> QED
    BY <2>2, <2>3 DEF Numbers, browserVars
<1>5. BeginIsNew'
  <2> SUFFICES ASSUME NEW i \in 1..Len(toBrowser'), toBrowser'[i].op = "begin"
               PROVE  /\ activeTurn < toBrowser'[i].n
                      /\ \A j \in 1..Len(toBrowser') : j < i => toBrowser'[j].n < toBrowser'[i].n
                      /\ \A s \in snapshots : s < toBrowser'[i].n
    BY DEF BeginIsNew, browserVars
  <2>1. i \in 1..L
    BY <1>1, <1>l
  <2>2. \A j \in 1..Len(toBrowser') : j < i => j \in 1..L
    BY <1>1, <2>1
  <2> QED
    BY <1>1, <2>1, <2>2 DEF BeginIsNew
<1>6. BeginIsWanted'
  <2> SUFFICES ASSUME NEW i \in 1..Len(toBrowser'), toBrowser'[i].op = "begin"
               PROVE  \E j \in 1..Len(toBrowser') :
                        i < j /\ toBrowser'[j] = [op |-> "cancel", n |-> toBrowser'[i].n]
    BY DEF BeginIsWanted
  <2>0. i \in 1..L /\ toBrowser'[i] = toBrowser[i]
    BY <1>1, <1>l
  <2>1. CASE phase = "begin" /\ begun = toBrowser[i].n
    <3>1. op = "cancel"
      BY <2>1
    <3> QED
      BY <1>1, <1>l, <2>0, <2>1, <3>1
  <2>2. CASE \E j \in 1..L : i < j /\ toBrowser[j] = [op |-> "cancel", n |-> toBrowser[i].n]
    <3>1. PICK j \in 1..L : i < j /\ toBrowser[j] = [op |-> "cancel", n |-> toBrowser[i].n]
      BY <2>2
    <3> QED
      BY <1>1, <2>0, <3>1
  <2> QED
    BY <2>0, <2>1, <2>2 DEF BeginIsWanted
<1>7. ActiveIsWanted'
  <2> SUFFICES ASSUME activeTurn # 0
               PROVE  /\ pendingBegin = activeTurn /\ activeTurn <= begun
                      /\ \E j \in 1..Len(toBrowser') :
                           toBrowser'[j].op \in {"cancel", "end"} /\ toBrowser'[j].n = activeTurn
    BY DEF ActiveIsWanted, browserVars
  <2>1. CASE activeTurn = begun
    <3>1. toBrowser'[L + 1].op \in {"cancel", "end"} /\ toBrowser'[L + 1].n = activeTurn
      BY <1>1, <2>1
    <3> QED
      BY <1>l, <3>1 DEF ActiveIsWanted
  <2>2. CASE \E j \in 1..L : toBrowser[j].op \in {"cancel", "end"} /\ toBrowser[j].n = activeTurn
    <3>1. PICK j \in 1..L : toBrowser[j].op \in {"cancel", "end"} /\ toBrowser[j].n = activeTurn
      BY <2>2
    <3>2. j \in 1..Len(toBrowser') /\ toBrowser'[j] = toBrowser[j]
      BY <1>1, <3>1
    <3> QED
      BY <3>1, <3>2 DEF ActiveIsWanted
  <2> QED
    BY <2>1, <2>2 DEF ActiveIsWanted
<1>8. OpenIsSafe' /\ Rest' /\ BeginIsSafe'
  BY DEF browserVars, OpenIsSafe, BeginIsSafe, Rest
<1> QED
  BY <1>3, <1>4, <1>5, <1>6, <1>7, <1>8

LEMMA PageKeepsInv ==
    ASSUME IInv, BeginSucceeds \/ BeginFails \/ BeginTimesOut \/ EndTurn \/ EndAnswered \/ EndTimesOut
    PROVE  IInv'
<1> USE DEF IInv, TypeOK, browserVars
<1> DEFINE Rest3 == UNCHANGED <<begun, toBrowser, browserVars>>
<1>p. ASSUME Rest3, phase' \in {"none", "open"}, answer' = "none"
      PROVE  TypeOK' /\ Numbers' /\ BeginIsNew' /\ BeginIsSafe'
  BY <1>p DEF Numbers, BeginIsNew, BeginIsSafe
<1>w. ASSUME Rest3,
             phase = "begin" => \A i \in 1..Len(toBrowser) : toBrowser[i].n < begun
      PROVE  BeginIsWanted'
  <2>1. \A i \in 1..Len(toBrowser) : toBrowser[i].n \in Nat
    BY Messages
  <2> QED
    BY <1>w, <2>1 DEF BeginIsWanted
<1>1. CASE BeginSucceeds
  <2>1. Rest3 /\ phase = "begin" /\ answer = "ok" /\ phase' = "open" /\ answer' = "none"
    BY <1>1 DEF BeginSucceeds
  <2>2. ActiveIsWanted' /\ OpenIsSafe' /\ Rest'
    BY <2>1 DEF ActiveIsWanted, OpenIsSafe, BeginIsSafe, Rest
  <2>3. \A i \in 1..Len(toBrowser) : toBrowser[i].n < begun
    BY <2>1 DEF BeginIsSafe
  <2>4. TypeOK' /\ Numbers' /\ BeginIsNew' /\ BeginIsSafe'
    BY <1>p, <2>1
  <2>5. BeginIsWanted'
    BY <1>w, <2>1, <2>3
  <2> QED
    BY <2>2, <2>4, <2>5
<1>2. CASE BeginFails
  <2>1. Rest3 /\ phase = "begin" /\ answer = "error" /\ phase' = "none" /\ answer' = "none"
    BY <1>2 DEF BeginFails
  <2>2. ActiveIsWanted' /\ OpenIsSafe' /\ Rest'
    BY <2>1 DEF ActiveIsWanted, OpenIsSafe, BeginIsSafe, Rest
  <2>3. \A i \in 1..Len(toBrowser) : toBrowser[i].n < begun
    BY <2>1 DEF BeginIsSafe
  <2>4. TypeOK' /\ Numbers' /\ BeginIsNew' /\ BeginIsSafe'
    BY <1>p, <2>1
  <2>5. BeginIsWanted'
    BY <1>w, <2>1, <2>3
  <2> QED
    BY <2>2, <2>4, <2>5
<1>3. CASE BeginTimesOut
  BY <1>3, PostingEndKeepsInv DEF BeginTimesOut
<1>4. CASE EndTurn
  BY <1>4, PostingEndKeepsInv DEF EndTurn, IInv, Rest
<1>5. CASE EndAnswered \/ EndTimesOut
  <2>1. Rest3 /\ phase = "end" /\ phase' = "none" /\ answer' = "none"
    BY <1>5 DEF EndAnswered, EndTimesOut
  <2>2. ActiveIsWanted' /\ OpenIsSafe' /\ Rest'
    BY <2>1 DEF ActiveIsWanted, OpenIsSafe, Rest
  <2> QED
    BY <1>p, <1>w, <2>1, <2>2
<1> QED
  BY <1>1, <1>2, <1>3, <1>4, <1>5

(* What is left once the browser took the first message.                   *)
LEMMA Shift ==
    ASSUME IInv, NEW op, Arrives(op), toBrowser' = Tail(toBrowser), UNCHANGED pageVars
    PROVE  /\ toBrowser' \in Seq(Message)
           /\ Number \in 1..begun /\ (phase = "open" => Number < begun)
           /\ \A i \in 1..Len(toBrowser') :
                 toBrowser'[i].n \in Number..begun /\ (phase = "open" => toBrowser'[i].n < begun)
           /\ \A i, j \in 1..Len(toBrowser') : i < j => toBrowser'[i].n <= toBrowser'[j].n
           /\ \A i \in 1..Len(toBrowser') : toBrowser'[i].op = "begin" =>
                 /\ activeTurn < toBrowser'[i].n /\ Number < toBrowser'[i].n
                 /\ \A j \in 1..Len(toBrowser') : j < i => toBrowser'[j].n < toBrowser'[i].n
                 /\ \A s \in snapshots : s < toBrowser'[i].n
<1> USE DEF IInv, TypeOK, pageVars
<1>1. /\ toBrowser' \in Seq(Message)
      /\ Len(toBrowser) \in Nat \ {0}
      /\ Len(toBrowser') = Len(toBrowser) - 1
      /\ \A i \in 1..Len(toBrowser') : i + 1 \in 1..Len(toBrowser) /\ toBrowser'[i] = toBrowser[i + 1]
      /\ Number = toBrowser[1].n
  BY Receiving
<1>2. 1 \in 1..Len(toBrowser)
  BY <1>1
<1>3. \A i \in 1..Len(toBrowser) : toBrowser[i].n \in Nat
  BY Messages
<1>4. Number \in 1..begun /\ (phase = "open" => Number < begun)
  BY <1>1, <1>2 DEF Numbers, OpenIsSafe
<1>5. ASSUME NEW i \in 1..Len(toBrowser')
      PROVE  toBrowser'[i].n \in Number..begun /\ (phase = "open" => toBrowser'[i].n < begun)
  <2>1. 1 < i + 1 /\ i + 1 \in 1..Len(toBrowser) /\ toBrowser'[i] = toBrowser[i + 1]
    BY <1>1
  <2> QED
    BY <1>1, <1>2, <1>3, <2>1 DEF Numbers, OpenIsSafe
<1>6. ASSUME NEW i \in 1..Len(toBrowser'), NEW j \in 1..Len(toBrowser'), i < j
      PROVE  toBrowser'[i].n <= toBrowser'[j].n
  BY <1>1, <1>6 DEF Numbers
<1>7. ASSUME NEW i \in 1..Len(toBrowser'), toBrowser'[i].op = "begin"
      PROVE  /\ activeTurn < toBrowser'[i].n /\ Number < toBrowser'[i].n
             /\ \A j \in 1..Len(toBrowser') : j < i => toBrowser'[j].n < toBrowser'[i].n
             /\ \A s \in snapshots : s < toBrowser'[i].n
  <2>1. 1 < i + 1 /\ i + 1 \in 1..Len(toBrowser) /\ toBrowser'[i] = toBrowser[i + 1]
    BY <1>1
  <2>2. \A j \in 1..Len(toBrowser') : j < i => j + 1 < i + 1
    OBVIOUS
  <2> QED
    BY <1>1, <1>2, <1>7, <2>1, <2>2 DEF BeginIsNew
<1> QED
  BY <1>1, <1>4, <1>5, <1>6, <1>7

LEMMA ShiftWanted ==
    ASSUME IInv, NEW op, Arrives(op), toBrowser' = Tail(toBrowser), UNCHANGED pageVars
    PROVE  /\ BeginIsWanted'
           /\ op = "begin" => \/ phase = "begin" /\ begun = Number
                              \/ \E j \in 1..Len(toBrowser') :
                                    toBrowser'[j].op = "cancel" /\ toBrowser'[j].n = Number
           /\ activeTurn # 0 /\ ~(op \in {"cancel", "end"} /\ Number = activeTurn) =>
                 \/ phase \in {"begin", "open"} /\ begun = activeTurn
                 \/ \E j \in 1..Len(toBrowser') :
                       toBrowser'[j].op \in {"cancel", "end"} /\ toBrowser'[j].n = activeTurn
<1> USE DEF IInv, TypeOK, pageVars
<1>1. /\ Len(toBrowser) \in Nat \ {0}
      /\ Len(toBrowser') = Len(toBrowser) - 1
      /\ \A i \in 1..Len(toBrowser') : i + 1 \in 1..Len(toBrowser) /\ toBrowser'[i] = toBrowser[i + 1]
      /\ Number = toBrowser[1].n /\ toBrowser[1].op = op
      /\ \A i \in 1..Len(toBrowser) : i # 1 => i - 1 \in 1..Len(toBrowser')
      /\ \A i \in 1..Len(toBrowser) : i # 1 => toBrowser'[i - 1] = toBrowser[i]
  BY Receiving
<1>2. 1 \in 1..Len(toBrowser)
  BY <1>1
<1>3. BeginIsWanted'
  <2> SUFFICES ASSUME NEW i \in 1..Len(toBrowser'), toBrowser'[i].op = "begin",
                      ~(phase = "begin" /\ begun = toBrowser'[i].n)
               PROVE  \E j \in 1..Len(toBrowser') :
                        i < j /\ toBrowser'[j] = [op |-> "cancel", n |-> toBrowser'[i].n]
    BY DEF BeginIsWanted
  <2>1. i + 1 \in 1..Len(toBrowser) /\ toBrowser'[i] = toBrowser[i + 1]
    BY <1>1
  <2>2. PICK j \in 1..Len(toBrowser) :
            i + 1 < j /\ toBrowser[j] = [op |-> "cancel", n |-> toBrowser[i + 1].n]
    BY <2>1 DEF BeginIsWanted
  <2>3. j # 1 /\ i < j - 1
    BY <2>2
  <2> QED
    BY <1>1, <2>1, <2>2, <2>3
<1>4. ASSUME op = "begin", ~(phase = "begin" /\ begun = Number)
      PROVE  \E j \in 1..Len(toBrowser') : toBrowser'[j].op = "cancel" /\ toBrowser'[j].n = Number
  <2>1. PICK j \in 1..Len(toBrowser) :
            1 < j /\ toBrowser[j] = [op |-> "cancel", n |-> toBrowser[1].n]
    BY <1>1, <1>2, <1>4 DEF BeginIsWanted
  <2>2. toBrowser[j].op = "cancel" /\ toBrowser[j].n = Number
    BY <1>1, <2>1
  <2>3. j # 1
    BY <2>1
  <2>4. j - 1 \in 1..Len(toBrowser') /\ toBrowser'[j - 1] = toBrowser[j]
    BY <1>1, <2>1, <2>3
  <2> QED
    BY <2>2, <2>4
<1>5. ASSUME activeTurn # 0, ~(op \in {"cancel", "end"} /\ Number = activeTurn),
             ~(phase \in {"begin", "open"} /\ begun = activeTurn)
      PROVE  \E j \in 1..Len(toBrowser') :
                toBrowser'[j].op \in {"cancel", "end"} /\ toBrowser'[j].n = activeTurn
  <2>1. PICK j \in 1..Len(toBrowser) :
            toBrowser[j].op \in {"cancel", "end"} /\ toBrowser[j].n = activeTurn
    BY <1>5 DEF ActiveIsWanted
  <2>2. j # 1
    BY <1>1, <1>5, <2>1
  <2>3. j - 1 \in 1..Len(toBrowser') /\ toBrowser'[j - 1] = toBrowser[j]
    BY <1>1, <2>1, <2>2
  <2> QED
    BY <2>1, <2>3
<1> QED
  BY <1>3, <1>4, <1>5

LEMMA HandlingBeginKeepsInv ==
    ASSUME IInv, RefuseBegin \/ OpenTurn \/ OpenHomeTurn
    PROVE  IInv'
<1> USE DEF IInv, TypeOK, pageVars
<1>a. Arrives("begin") /\ toBrowser' = Tail(toBrowser) /\ UNCHANGED pageVars
  BY DEF RefuseBegin, OpenTurn, OpenHomeTurn
<1> DEFINE n == Number
<1>1. /\ toBrowser' \in Seq(Message)
      /\ n \in 1..begun /\ (phase = "open" => n < begun)
      /\ \A i \in 1..Len(toBrowser') : toBrowser'[i].n \in n..begun
      /\ \A i, j \in 1..Len(toBrowser') : i < j => toBrowser'[i].n <= toBrowser'[j].n
      /\ \A i \in 1..Len(toBrowser') : toBrowser'[i].op = "begin" =>
            /\ activeTurn < toBrowser'[i].n /\ n < toBrowser'[i].n
            /\ \A j \in 1..Len(toBrowser') : j < i => toBrowser'[j].n < toBrowser'[i].n
            /\ \A s \in snapshots : s < toBrowser'[i].n
  BY <1>a, Shift
<1>2. /\ BeginIsWanted'
      /\ \/ phase = "begin" /\ begun = n
         \/ \E j \in 1..Len(toBrowser') : toBrowser'[j].op = "cancel" /\ toBrowser'[j].n = n
  BY <1>a, ShiftWanted
<1>3. /\ Len(toBrowser) \in Nat \ {0} /\ n = toBrowser[1].n /\ toBrowser[1].op = "begin"
      /\ \A i \in 1..Len(toBrowser') : i + 1 \in 1..Len(toBrowser) /\ toBrowser'[i] = toBrowser[i + 1]
  BY <1>a, Receiving
<1>4. 1 \in 1..Len(toBrowser)
  BY <1>3
<1>5. activeTurn < n /\ \A s \in snapshots : s < n
  BY <1>3, <1>4 DEF BeginIsNew
<1>6. phase # "open" /\ ~(phase = "begin" /\ answer = "ok")
  BY <1>1, <1>5 DEF OpenIsSafe, BeginIsSafe
<1>7. ASSUME phase = "begin"
      PROVE  /\ begun # 0
             /\ \A i \in 1..Len(toBrowser') : toBrowser'[i].n = begun => toBrowser'[i].op = "begin"
             /\ answer # "none" \/ begun \in snapshots =>
                   n # begun /\ \A i \in 1..Len(toBrowser') : toBrowser'[i].n < begun
             /\ n = begun => \A i \in 1..Len(toBrowser') : toBrowser'[i].n < begun
  <2>1. \A i \in 1..Len(toBrowser') : toBrowser'[i].n = begun => toBrowser'[i].op = "begin"
    BY <1>3, <1>7 DEF BeginIsSafe
  <2>2. ASSUME answer # "none" \/ begun \in snapshots
        PROVE  n # begun /\ \A i \in 1..Len(toBrowser') : toBrowser'[i].n < begun
    <3>1. \A i \in 1..Len(toBrowser) : toBrowser[i].n < begun
      BY <1>7, <2>2 DEF BeginIsSafe
    <3> QED
      BY <1>3, <1>4, <3>1
  <2>3. n = begun => \A i \in 1..Len(toBrowser') : toBrowser'[i].n < begun
    BY <1>1, <2>1
  <2> QED
    BY <1>7, <2>1, <2>2, <2>3 DEF Rest
<1>8. CASE RefuseBegin
  <2>1. /\ activeTurn' = 0 /\ pendingBegin' = 0 /\ lease' = FALSE /\ snapshots' = snapshots
        /\ answer' = IF phase = "begin" /\ begun = n THEN "error" ELSE answer
    BY <1>8 DEF RefuseBegin, Aborted, Answer
  <2>2. TypeOK'
    BY <1>1, <1>a, <2>1
  <2>3. Numbers' /\ BeginIsNew'
    BY <1>1, <1>a, <2>1 DEF Numbers, BeginIsNew
  <2>4. ActiveIsWanted' /\ OpenIsSafe' /\ Rest'
    BY <1>6, <1>a, <2>1 DEF ActiveIsWanted, OpenIsSafe, Rest
  <2>5. BeginIsSafe'
    BY <1>5, <1>6, <1>7, <1>a, <2>1 DEF BeginIsSafe
  <2> QED
    BY <1>2, <2>2, <2>3, <2>4, <2>5
<1>9. CASE OpenTurn
  <2>1. /\ activeTurn' = n /\ pendingBegin' = n /\ lease' \in BOOLEAN /\ snapshots' = snapshots
        /\ answer' = IF phase = "begin" /\ begun = n THEN "ok" ELSE answer
    BY <1>9 DEF OpenTurn, Answer
  <2>2. TypeOK'
    BY <1>1, <1>a, <2>1
  <2>3. Numbers'
    BY <1>1, <1>a, <2>1 DEF Numbers
  <2>7. BeginIsNew'
    BY <1>1, <1>a, <2>1 DEF BeginIsNew
  <2>4. ActiveIsWanted'
    <3>1. n <= begun /\ n # 0
      BY <1>1
    <3>2. CASE phase = "begin" /\ begun = n
      BY <1>a, <2>1, <3>1, <3>2 DEF ActiveIsWanted
    <3>3. CASE \E j \in 1..Len(toBrowser') : toBrowser'[j].op = "cancel" /\ toBrowser'[j].n = n
      BY <1>a, <2>1, <3>1, <3>3 DEF ActiveIsWanted
    <3> QED
      BY <1>2, <3>2, <3>3
  <2>5. OpenIsSafe' /\ Rest'
    BY <1>1, <1>6, <1>a, <2>1 DEF OpenIsSafe, Rest
  <2>6. BeginIsSafe'
    BY <1>5, <1>6, <1>7, <1>a, <2>1 DEF BeginIsSafe
  <2> QED
    BY <1>2, <2>2, <2>3, <2>4, <2>5, <2>6, <2>7
<1>10. CASE OpenHomeTurn
  <2>1. /\ activeTurn' = n /\ pendingBegin' = n /\ lease' = TRUE
        /\ snapshots' = snapshots \union {n} /\ answer' = answer
    BY <1>10 DEF OpenHomeTurn
  <2>2. TypeOK'
    BY <1>1, <1>a, <2>1
  <2>3. Numbers'
    BY <1>1, <1>a, <2>1 DEF Numbers
  <2>7. BeginIsNew'
    BY <1>1, <1>a, <2>1 DEF BeginIsNew
  <2>4. ActiveIsWanted'
    <3>1. n <= begun /\ n # 0
      BY <1>1
    <3>2. CASE phase = "begin" /\ begun = n
      BY <1>a, <2>1, <3>1, <3>2 DEF ActiveIsWanted
    <3>3. CASE \E j \in 1..Len(toBrowser') : toBrowser'[j].op = "cancel" /\ toBrowser'[j].n = n
      BY <1>a, <2>1, <3>1, <3>3 DEF ActiveIsWanted
    <3> QED
      BY <1>2, <3>2, <3>3
  <2>5. OpenIsSafe' /\ Rest'
    BY <1>1, <1>6, <1>a, <2>1 DEF OpenIsSafe, Rest
  <2>6. BeginIsSafe'
    BY <1>6, <1>7, <1>a, <2>1 DEF BeginIsSafe
  <2> QED
    BY <1>2, <2>2, <2>3, <2>4, <2>5, <2>6, <2>7
<1> QED
  BY <1>8, <1>9, <1>10

LEMMA HandlingEndKeepsInv ==
    ASSUME IInv, CancelBegin \/ HandleEnd
    PROVE  IInv'
<1> USE DEF IInv, TypeOK, pageVars
<1> DEFINE n == Number
<1>1. PICK op \in {"cancel", "end"} :
         /\ Arrives(op) /\ toBrowser' = Tail(toBrowser) /\ UNCHANGED <<pageVars, snapshots>>
         /\ op = "cancel" => CancelBegin
         /\ op = "end" => HandleEnd
  BY DEF CancelBegin, HandleEnd
<1>2. /\ toBrowser' \in Seq(Message)
      /\ n \in 1..begun /\ (phase = "open" => n < begun)
      /\ \A i \in 1..Len(toBrowser') :
            toBrowser'[i].n \in n..begun /\ (phase = "open" => toBrowser'[i].n < begun)
      /\ \A i, j \in 1..Len(toBrowser') : i < j => toBrowser'[i].n <= toBrowser'[j].n
      /\ \A i \in 1..Len(toBrowser') : toBrowser'[i].op = "begin" =>
            /\ activeTurn < toBrowser'[i].n /\ n < toBrowser'[i].n
            /\ \A j \in 1..Len(toBrowser') : j < i => toBrowser'[j].n < toBrowser'[i].n
            /\ \A s \in snapshots : s < toBrowser'[i].n
  BY <1>1, Shift
<1>3. /\ BeginIsWanted'
      /\ activeTurn # 0 /\ n # activeTurn =>
            \/ phase \in {"begin", "open"} /\ begun = activeTurn
            \/ \E j \in 1..Len(toBrowser') :
                  toBrowser'[j].op \in {"cancel", "end"} /\ toBrowser'[j].n = activeTurn
  BY <1>1, ShiftWanted
<1>4. /\ Len(toBrowser) \in Nat \ {0} /\ n = toBrowser[1].n /\ toBrowser[1].op = op
      /\ \A i \in 1..Len(toBrowser') : i + 1 \in 1..Len(toBrowser) /\ toBrowser'[i] = toBrowser[i + 1]
  BY <1>1, Receiving
<1>5. 1 \in 1..Len(toBrowser)
  BY <1>4
<1>6. /\ \/ activeTurn' = 0 /\ pendingBegin' = 0 /\ lease' = FALSE
         \/ n # activeTurn /\ UNCHANGED <<activeTurn, pendingBegin, lease>>
      /\ n # activeTurn => UNCHANGED activeTurn \/ activeTurn = 0
  <2>1. CASE op = "cancel"
    <3>1. activeTurn # 0 => pendingBegin = activeTurn
      BY DEF ActiveIsWanted
    <3>2. n # 0
      BY <1>2
    <3> QED
      BY <1>1, <2>1, <3>1, <3>2 DEF CancelBegin, Aborted
  <2>2. CASE op = "end"
    BY <1>1, <2>2 DEF HandleEnd, Aborted
  <2> QED
    BY <2>1, <2>2
<1>7. answer' \in {"none", "ok", "error"} /\ (phase # "end" => answer' = answer)
  BY <1>1 DEF CancelBegin, HandleEnd, Answer
<1>8. TypeOK'
  <2>1. activeTurn' \in Nat /\ pendingBegin' \in Nat
    BY <1>6
  <2>2. lease' \in BOOLEAN
    BY <1>6, Zenon
  <2> QED
    BY <1>1, <1>2, <1>7, <2>1, <2>2
<1>9. Numbers'
  BY <1>1, <1>2 DEF Numbers
<1>10. BeginIsNew'
  BY <1>1, <1>2, <1>6 DEF BeginIsNew
<1>11. ActiveIsWanted'
  <2>1. CASE activeTurn' = 0
    BY <2>1 DEF ActiveIsWanted
  <2>2. CASE activeTurn # 0 /\ n # activeTurn /\ UNCHANGED <<activeTurn, pendingBegin>>
    BY <1>1, <1>3, <2>2 DEF ActiveIsWanted
  <2> QED
    BY <1>6, <2>1, <2>2
<1>12. OpenIsSafe'
  BY <1>1, <1>2, <1>6 DEF OpenIsSafe
<1>13. BeginIsSafe'
  <2> SUFFICES ASSUME phase = "begin" PROVE BeginIsSafe'
    BY <1>1 DEF BeginIsSafe
  <2>1. n # begun /\ begun # 0
    BY <1>4, <1>5 DEF BeginIsSafe, Rest
  <2>2. \A i \in 1..Len(toBrowser') : toBrowser'[i].n = begun => toBrowser'[i].op = "begin"
    BY <1>4 DEF BeginIsSafe
  <2>3. answer # "none" \/ begun \in snapshots =>
            \A i \in 1..Len(toBrowser') : toBrowser'[i].n < begun
    BY <1>4 DEF BeginIsSafe
  <2>4. answer' = answer /\ begun' = begun /\ snapshots' = snapshots
    BY <1>1, <1>7
  <2>5. (answer = "ok" => activeTurn' = begun) /\ (answer = "error" => activeTurn' # begun)
    BY <1>6, <2>1 DEF BeginIsSafe
  <2> QED
    BY <2>2, <2>3, <2>4, <2>5 DEF BeginIsSafe
<1>14. Rest'
  BY <1>1, <1>6, <1>7 DEF Rest
<1> QED
  BY <1>3, <1>8, <1>9, <1>10, <1>11, <1>12, <1>13, <1>14

LEMMA SnapshotsKeepInv ==
    ASSUME IInv, NEW n \in snapshots, SnapshotArrives(n) \/ SnapshotTooLate(n)
    PROVE  IInv'
<1> USE DEF IInv, TypeOK, pageVars
<1>1. /\ UNCHANGED <<phase, begun, toBrowser>> /\ snapshots' = snapshots \ {n}
      /\ n \in 1..begun
  BY DEF SnapshotArrives, SnapshotTooLate, Numbers
<1>2. \/ UNCHANGED <<activeTurn, pendingBegin, lease>>
      \/ activeTurn = n /\ activeTurn' = 0 /\ pendingBegin' = 0 /\ lease' = FALSE
  BY DEF SnapshotArrives, SnapshotTooLate, Aborted
<1>3. /\ answer' \in {"none", "ok", "error"}
      /\ ~(phase = "begin" /\ begun = n) => answer' = answer
      /\ phase = "begin" /\ begun = n =>
            \/ answer' = "ok" /\ activeTurn' = n
            \/ answer' = "error" /\ activeTurn' # n
  BY <1>1 DEF SnapshotArrives, SnapshotTooLate, Aborted, Answer
<1>4. TypeOK'
  <2>1. activeTurn' \in Nat /\ pendingBegin' \in Nat
    BY <1>2
  <2>2. lease' \in BOOLEAN
    BY <1>2, Zenon
  <2> QED
    BY <1>1, <1>3, <2>1, <2>2
<1>5. Numbers' /\ BeginIsWanted'
  BY <1>1 DEF Numbers, BeginIsWanted
<1>6. BeginIsNew'
  <2>1. \A i \in 1..Len(toBrowser) : toBrowser[i].n \in Nat
    BY Messages
  <2>2. activeTurn' = activeTurn \/ activeTurn' = 0
    BY <1>2
  <2>3. ASSUME NEW i \in 1..Len(toBrowser), toBrowser[i].op = "begin"
        PROVE  /\ activeTurn' < toBrowser[i].n
               /\ \A j \in 1..Len(toBrowser) : j < i => toBrowser[j].n < toBrowser[i].n
               /\ \A s \in snapshots : s < toBrowser[i].n
    <3>1. /\ activeTurn < toBrowser[i].n
          /\ \A j \in 1..Len(toBrowser) : j < i => toBrowser[j].n < toBrowser[i].n
          /\ \A s \in snapshots : s < toBrowser[i].n
      BY <2>3 DEF BeginIsNew
    <3>2. activeTurn' < toBrowser[i].n
      BY <3>1, <2>1, <2>2
    <3> QED
      BY <3>1, <3>2
  <2>4. toBrowser' = toBrowser /\ snapshots' \subseteq snapshots
    BY <1>1
  <2> QED
    BY <2>3, <2>4, Zenon DEF BeginIsNew
<1>7. ActiveIsWanted' /\ OpenIsSafe' /\ Rest'
  <2>1. ActiveIsWanted'
    BY <1>1, <1>2 DEF ActiveIsWanted
  <2>2. OpenIsSafe'
    BY <1>1, <1>2 DEF OpenIsSafe
  <2>3. Rest'
    BY <1>1, <1>2, <1>3 DEF Rest
  <2> QED
    BY <2>1, <2>2, <2>3
<1>8. BeginIsSafe'
  BY <1>1, <1>2, <1>3 DEF BeginIsSafe, Rest
<1> QED
  BY <1>4, <1>5, <1>6, <1>7, <1>8

LEMMA ReloadKeepsInv == IInv /\ Reload => IInv'
<1> SUFFICES ASSUME IInv, Reload PROVE IInv'
  OBVIOUS
<1>1. toBrowser' = <<>> /\ Len(toBrowser') = 0 /\ toBrowser' \in Seq(Message)
  BY DEF Reload
<1>2. \A i \in 1..Len(toBrowser') : FALSE
  BY <1>1
<1>3. TypeOK'
  BY <1>1 DEF IInv, TypeOK, Reload, Aborted
<1>4. Numbers' /\ BeginIsNew' /\ BeginIsWanted'
  BY <1>2 DEF Reload, Numbers, BeginIsNew, BeginIsWanted
<1> QED
  BY <1>1, <1>3, <1>4
     DEF Reload, Aborted, IInv, ActiveIsWanted, OpenIsSafe, BeginIsSafe, Rest

LEMMA TurnInvStep == IInv /\ [Next]_turnVars => IInv'
<1> SUFFICES ASSUME IInv, [Next]_turnVars PROVE IInv'
  OBVIOUS
<1>1. CASE BeginTurn
  BY <1>1, BeginTurnKeepsInv
<1>2. CASE BeginSucceeds \/ BeginFails \/ BeginTimesOut \/ EndTurn \/ EndAnswered \/ EndTimesOut
  BY <1>2, PageKeepsInv
<1>3. CASE RefuseBegin \/ OpenTurn \/ OpenHomeTurn
  BY <1>3, HandlingBeginKeepsInv
<1>4. CASE CancelBegin \/ HandleEnd
  BY <1>4, HandlingEndKeepsInv
<1>5. CASE \E n \in snapshots : SnapshotArrives(n) \/ SnapshotTooLate(n)
  BY <1>5, SnapshotsKeepInv
<1>6. CASE Reload
  BY <1>6, ReloadKeepsInv
<1>7. CASE UNCHANGED turnVars
  BY <1>7 DEF turnVars, pageVars, browserVars, IInv, TypeOK, Numbers, BeginIsNew,
              BeginIsWanted, ActiveIsWanted, OpenIsSafe, BeginIsSafe, Rest
<1> QED
  BY <1>1, <1>2, <1>3, <1>4, <1>5, <1>6, <1>7 DEF Next, Browser

(* The inductive invariant holds in every reachable state.                 *)
THEOREM TurnInvariant == Spec => []IInv
<1>1. Init => IInv
  BY TurnInvInit
<1>2. IInv /\ [Next]_turnVars => IInv'
  BY TurnInvStep
<1> QED
  BY <1>1, <1>2, PTL DEF Spec

(* The messages, numbers and phases stay what they are declared to be.     *)
THEOREM TurnTypes == Spec => []TypeOK
<1>1. IInv => TypeOK
  BY DEF IInv
<1> QED
  BY <1>1, TurnInvariant, PTL

(* A page without a turn, with nothing on the way, leaves the browser      *)
(* without one: no begin, however late, strands the lease on its tab.      *)
THEOREM NoTurnIsStranded == Spec => []TurnsAgree
<1>1. IInv => TurnsAgree
  <2> SUFFICES ASSUME IInv, phase = "none", toBrowser = <<>> PROVE activeTurn = 0 /\ ~lease
    BY DEF TurnsAgree
  <2>1. \A j \in 1..Len(toBrowser) : FALSE
    OBVIOUS
  <2> QED
    BY <2>1 DEF IInv, ActiveIsWanted, Rest
<1> QED
  BY <1>1, TurnInvariant, PTL

(* The turn the page runs is the browser's: nothing that was sent for an   *)
(* earlier one reaches it.                                                 *)
THEOREM OpenTurnStaysActive == Spec => []OpenTurnIsActive
<1>1. IInv => OpenTurnIsActive
  BY DEF IInv, OpenIsSafe, OpenTurnIsActive
<1> QED
  BY <1>1, TurnInvariant, PTL
=============================================================================
