-------------------------- MODULE ScriptRun_proofs --------------------------
(***************************************************************************)
(* Proofs about script runs, for any calls and any limit: the inductive    *)
(* invariant IInv with the safety properties it contains, the limit on     *)
(* calls, and that every step is a step of TaskControl.                    *)
(***************************************************************************)
EXTENDS ScriptRun, TLAPS, FiniteSetTheorems, SequenceTheorems
-----------------------------------------------------------------------------
(* What travels in a queue, and that it travels once.                      *)
Within(q)   == {q[i] : i \in 1..Len(q)}
Distinct(q) == \A i, j \in 1..Len(q) : q[i] = q[j] => i = j

(* Before Start nothing has happened.                                      *)
Fresh ==
    run = "new" => /\ page = "none" /\ toBrowser = <<>> /\ control = "agent"
                   /\ \A c \in Calls : callState[c] = "new"

(* Every message is under way once: calls that were sent, and a report     *)
(* that was made.                                                          *)
SentOnce ==
    /\ Distinct(toBrowser)
    /\ \A c \in Calls : c \in Within(toBrowser) => callState[c] = "sent"
    /\ Report \in Within(toBrowser) => report.end # "none"

(* The page knows of every stop that has reached the script.               *)
StopIsKnown ==
    \A c \in Calls : callState[c] = "settled" /\ answer[c] = "stop" => stopped

(* A report is made once, it does not claim the output of a stopped        *)
(* script, and a result with output is the report's.                       *)
ReportIsTrue ==
    /\ report.end # "none" => page \in {"reported", "gone"}
    /\ \A c \in report.seen : callState[c] = "settled"
    /\ report.end \in {"ok", "failed"} => \A c \in report.seen : answer[c] # "stop"
    /\ result \in {"ok", "failed"} => report.end = result

IInv ==
    /\ TypeOK /\ Fresh /\ SentOnce /\ StopIsKnown /\ ReportIsTrue
    /\ OutstandingIsAtWork
-----------------------------------------------------------------------------
(* Reading the first message leaves the others.                            *)
LEMMA Received ==
    ASSUME NEW S, NEW q \in Seq(S), q # <<>>, Distinct(q)
    PROVE  /\ Head(q) \in S /\ Head(q) \in Within(q)
           /\ Tail(q) \in Seq(S)
           /\ Distinct(Tail(q))
           /\ Within(Tail(q)) = Within(q) \ {Head(q)}
  <1>1. /\ Len(q) \in Nat /\ Len(q) > 0
        /\ Tail(q) \in Seq(S) /\ Len(Tail(q)) = Len(q) - 1
        /\ \A i \in 1..Len(Tail(q)) : Tail(q)[i] = q[i + 1]
        /\ Head(q) = q[1] /\ Head(q) \in S
    BY HeadTailProperties, EmptySeq, LenProperties
  <1>2. Distinct(Tail(q))
    BY <1>1 DEF Distinct
  <1>3. \A i \in 1..Len(Tail(q)) : i + 1 \in 1..Len(q) /\ q[i + 1] # q[1]
    BY <1>1 DEF Distinct
  <1>4. \A i \in 1..Len(q) : i # 1 => i - 1 \in 1..Len(Tail(q)) /\ q[i] = Tail(q)[i - 1]
    BY <1>1
  <1>5. Within(Tail(q)) \subseteq Within(q) \ {Head(q)}
    BY <1>1, <1>3 DEF Within
  <1>6. Within(q) \ {Head(q)} \subseteq Within(Tail(q))
    <2> SUFFICES ASSUME NEW i \in 1..Len(q), q[i] # Head(q)
                 PROVE  q[i] \in Within(Tail(q))
      BY DEF Within
    <2>1. i # 1
      BY <1>1
    <2> QED
      BY <1>4, <2>1 DEF Within
  <1>7. Head(q) \in Within(q)
    <2>1. 1 \in 1..Len(q) /\ Head(q) = q[1]
      BY <1>1
    <2> QED
      BY <2>1 DEF Within
  <1> QED
    BY <1>1, <1>2, <1>5, <1>6, <1>7

(* Sending a new message adds it at the end.                               *)
LEMMA Delivered ==
    ASSUME NEW S, NEW q \in Seq(S), NEW m \in S, m \notin Within(q), Distinct(q)
    PROVE  /\ Append(q, m) \in Seq(S)
           /\ Distinct(Append(q, m))
           /\ Within(Append(q, m)) = Within(q) \cup {m}
  <1>1. /\ Len(q) \in Nat
        /\ Append(q, m) \in Seq(S) /\ Len(Append(q, m)) = Len(q) + 1
        /\ \A i \in 1..Len(q) : Append(q, m)[i] = q[i]
        /\ Append(q, m)[Len(q) + 1] = m
    BY AppendProperties, LenProperties
  <1>2. Within(Append(q, m)) = Within(q) \cup {m}
    <2>1. \A i \in 1..Len(q) + 1 : i \in 1..Len(q) \/ i = Len(q) + 1
      BY <1>1
    <2>2. Within(Append(q, m)) \subseteq Within(q) \cup {m}
      BY <1>1, <2>1 DEF Within
    <2>3. Within(q) \subseteq Within(Append(q, m))
      BY <1>1 DEF Within
    <2>4. m \in Within(Append(q, m))
      BY <1>1 DEF Within
    <2> QED
      BY <2>2, <2>3, <2>4
  <1>3. Distinct(Append(q, m))
    <2> SUFFICES ASSUME NEW i \in 1..Len(q) + 1, NEW j \in 1..Len(q) + 1,
                        Append(q, m)[i] = Append(q, m)[j]
                 PROVE  i = j
      BY <1>1 DEF Distinct
    <2>1. \A k \in 1..Len(q) : q[k] # m
      BY DEF Within
    <2> QED
      BY <1>1, <2>1 DEF Distinct
  <1> QED
    BY <1>1, <1>2, <1>3

(* Nothing travels in the empty queue.                                     *)
LEMMA Quiet == Distinct(<<>>) /\ Within(<<>>) = {} /\ \A S : <<>> \in Seq(S)
  BY DEF Distinct, Within
-----------------------------------------------------------------------------
(* A run starts well.                                                      *)
LEMMA InitIInv == Init => IInv
  <1> SUFFICES ASSUME Init PROVE IInv
    OBVIOUS
  <1>1. TypeOK
    <2>1. toBrowser \in Seq(Calls \cup {Report})
      BY Quiet DEF Init
    <2>2. report \in [end : {"none", "ok", "failed", "stopped", "error"}, seen : SUBSET Calls]
      BY DEF Init
    <2> QED
      BY <2>1, <2>2 DEF Init, TypeOK, CallStates, Answers, Results
  <1>2. SentOnce
    BY Quiet DEF Init, SentOnce
  <1>3. Fresh /\ StopIsKnown /\ ReportIsTrue
    BY DEF Init, Fresh, StopIsKnown, ReportIsTrue
  <1>4. OutstandingIsAtWork
    BY DEF Init, OutstandingIsAtWork, AtWork, In
  <1> QED
    BY <1>1, <1>2, <1>3, <1>4 DEF IInv
-----------------------------------------------------------------------------
(* Answering calls that are at work keeps the invariant, whoever does it.  *)
LEMMA Answering ==
    ASSUME IInv, run # "new",
           NEW cs \in SUBSET AtWork, NEW how \in {"ok", "error", "stop"},
           Answer(cs, how), control' \in {"agent", "user", "over"},
           UNCHANGED <<browserVars, pageVars>>
    PROVE  IInv'
  <1>1. \A c \in Calls :
           /\ c \in cs => /\ callState[c] \in {"active", "parked", "help"}
                          /\ callState'[c] \in {"answered", "dropped"}
           /\ c \notin cs => callState'[c] = callState[c] /\ answer'[c] = answer[c]
    BY DEF Answer, AtWork, In
  <1>2. TypeOK'
    <2>1. callState' \in [Calls -> CallStates] /\ answer' \in [Calls -> Answers]
      BY DEF Answer, IInv, TypeOK, CallStates, Answers
    <2>2. outstanding' \subseteq Calls
      BY DEF Answer, IInv, TypeOK
    <2> QED
      BY <2>1, <2>2 DEF IInv, TypeOK, browserVars, pageVars
  <1>3. Fresh' /\ SentOnce'
    BY <1>1 DEF IInv, Fresh, SentOnce, browserVars, pageVars
  <1>4. StopIsKnown'
    BY <1>1 DEF IInv, StopIsKnown, browserVars, pageVars
  <1>5. ReportIsTrue'
    <2>1. \A c \in report.seen : c \in Calls /\ c \notin cs
      BY <1>1 DEF IInv, TypeOK, ReportIsTrue
    <2> QED
      BY <1>1, <2>1 DEF IInv, ReportIsTrue, browserVars, pageVars
  <1>6. OutstandingIsAtWork'
    <2>1. AtWork' = AtWork \ cs
      BY <1>1 DEF AtWork, In
    <2> QED
      BY <2>1 DEF Answer, IInv, OutstandingIsAtWork, browserVars, pageVars
  <1> QED
    BY <1>2, <1>3, <1>4, <1>5, <1>6 DEF IInv

(* The user takes over, hands back or ends the space.                      *)
LEMMA SpaceStepKeeps == IInv /\ SpaceStep => IInv'
  <1> SUFFICES ASSUME IInv, SpaceStep PROVE IInv'
    OBVIOUS
  <1>1. /\ Active \subseteq AtWork /\ Interrupted \subseteq AtWork
        /\ In({"help"}) \subseteq AtWork
    BY DEF Active, Interrupted, AtWork, In
  <1>2. CASE TakeOver
    BY <1>1, <1>2, Answering DEF TakeOver
  <1>3. CASE HandBack
    BY <1>1, <1>3, Answering DEF HandBack, IInv, Fresh
  <1>4. CASE StopSpace
    BY <1>1, <1>4, Answering DEF StopSpace
  <1> QED
    BY <1>2, <1>3, <1>4 DEF SpaceStep

(* A tool ends, or the wait for help.                                      *)
LEMMA CompleteKeeps ==
    ASSUME NEW c \in Calls, IInv, Complete(c)
    PROVE  IInv'
  <1>1. {c} \in SUBSET AtWork /\ run # "new"
    BY DEF Complete, Interrupted, AtWork, In, IInv, Fresh
  <1>2. control' \in {"agent", "user", "over"} /\ UNCHANGED <<browserVars, pageVars>>
    BY DEF Complete, IInv, TypeOK
  <1> QED
    BY <1>1, <1>2, Answering DEF Complete

(* A wait for a commit ends.                                               *)
LEMMA DispatchKeeps ==
    ASSUME NEW c \in Calls, IInv, Dispatch(c)
    PROVE  IInv'
  <1>1. {c} \in SUBSET AtWork /\ run # "new" /\ callState[c] = "parked"
    BY DEF Dispatch, AtWork, In, IInv, Fresh
  <1>2. control' \in {"agent", "user", "over"} /\ UNCHANGED <<browserVars, pageVars>>
    BY DEF Dispatch, IInv, TypeOK
  <1>3. CASE \E how \in {"error", "stop"} : Answer({c}, how)
    BY <1>1, <1>2, <1>3, Answering
  <1>4. CASE /\ callState' = [callState EXCEPT ![c] = "active"]
             /\ UNCHANGED <<outstanding, answer>>
    <2>1. AtWork' = AtWork
      BY <1>1, <1>4 DEF AtWork, In, IInv, TypeOK
    <2>2. TypeOK' /\ Fresh' /\ SentOnce' /\ StopIsKnown' /\ ReportIsTrue'
      BY <1>1, <1>2, <1>4
         DEF IInv, TypeOK, Fresh, SentOnce, StopIsKnown, ReportIsTrue, CallStates,
             browserVars, pageVars
    <2> QED
      BY <1>2, <1>4, <2>1, <2>2 DEF IInv, OutstandingIsAtWork, browserVars
  <1> QED
    BY <1>3, <1>4 DEF Dispatch
(* A call arrives: the calls cs, which were at work, are answered, and the *)
(* call is at work from now on or answered too.                            *)
LEMMA Arriving ==
    ASSUME IInv, NEW c \in Calls, NEW cs \in SUBSET AtWork,
           toBrowser # <<>>, Head(toBrowser) = c, toBrowser' = Tail(toBrowser),
           UNCHANGED <<run, result, missed, page, stopped, report>>,
           toolCalls' \in Nat, control' \in {"agent", "user", "over"},
           callState' \in [Calls -> CallStates], answer' \in [Calls -> Answers],
           callState'[c] \in {"active", "parked", "help", "answered", "dropped"},
           \A d \in Calls \ {c} :
              IF d \in cs THEN callState'[d] \in {"answered", "dropped"}
                          ELSE callState'[d] = callState[d] /\ answer'[d] = answer[d],
           outstanding' \subseteq Calls,
           run # "gone" =>
              outstanding' = (outstanding \ cs) \cup
                  (IF callState'[c] \in {"active", "parked", "help"} THEN {c} ELSE {})
    PROVE  IInv'
  <1>1. /\ Head(toBrowser) \in Within(toBrowser)
        /\ toBrowser' \in Seq(Calls \cup {Report})
        /\ Distinct(toBrowser')
        /\ Within(toBrowser') = Within(toBrowser) \ {c}
    BY Received DEF IInv, TypeOK, SentOnce
  <1>2. callState[c] = "sent" /\ run # "new"
    BY <1>1 DEF IInv, SentOnce, Fresh
  <1>3. \A d \in cs : callState[d] \in {"active", "parked", "help"}
    BY DEF AtWork, In
  <1>4. TypeOK'
    BY <1>1 DEF IInv, TypeOK
  <1>5. Fresh' /\ SentOnce'
    BY <1>1, <1>2, <1>3 DEF IInv, Fresh, SentOnce
  <1>6. StopIsKnown'
    BY <1>2 DEF IInv, StopIsKnown
  <1>7. ReportIsTrue'
    <2>1. \A d \in report.seen : d \in Calls \ {c} /\ d \notin cs
      BY <1>2, <1>3 DEF IInv, TypeOK, ReportIsTrue
    <2> QED
      BY <2>1 DEF IInv, ReportIsTrue
  <1>8. OutstandingIsAtWork'
    <2>1. AtWork' = (AtWork \ cs) \cup
              (IF callState'[c] \in {"active", "parked", "help"} THEN {c} ELSE {})
      <3>1. \A d \in Calls \ {c} : d \in AtWork' <=> d \in AtWork /\ d \notin cs
        BY <1>3 DEF AtWork, In
      <3>2. c \notin AtWork /\ (c \in AtWork' <=> callState'[c] \in {"active", "parked", "help"})
        BY <1>2 DEF AtWork, In
      <3> QED
        BY <3>1, <3>2 DEF AtWork, In
    <2> QED
      BY <2>1, <1>2 DEF IInv, OutstandingIsAtWork
  <1> QED
    BY <1>4, <1>5, <1>6, <1>7, <1>8 DEF IInv

(* A call arrives and is executed, refused or answered.                    *)
LEMMA OnDevToolsEventKeeps ==
    ASSUME NEW c \in Calls, IInv, OnDevToolsEvent(c)
    PROVE  IInv'
  <1> USE DEF OnDevToolsEvent
  <1>1. callState[c] = "sent" /\ c \notin AtWork
    BY Received DEF IInv, TypeOK, SentOnce, AtWork, In
  <1>2. toolCalls' \in Nat
    BY DEF IInv, TypeOK
  <1>3. Active \subseteq AtWork /\ Interrupted \subseteq AtWork
    BY DEF Active, Interrupted, AtWork, In
  <1>4. run \in {"new", "open", "ended"} => outstanding \subseteq AtWork
    BY DEF IInv, OutstandingIsAtWork
  <1>5. /\ run \in {"new", "open", "ended", "gone"} /\ outstanding \subseteq Calls
        /\ control \in {"agent", "user", "over"}
        /\ callState \in [Calls -> CallStates] /\ answer \in [Calls -> Answers]
    BY DEF IInv, TypeOK
  <1>6. CASE /\ \E how \in {"ok", "error", "stop", "refused"} : Answer({c}, how)
             /\ UNCHANGED control
    <2>1. /\ callState' \in [Calls -> CallStates] /\ answer' \in [Calls -> Answers]
          /\ callState'[c] \in {"answered", "dropped"}
          /\ \A d \in Calls \ {c} : callState'[d] = callState[d] /\ answer'[d] = answer[d]
          /\ outstanding' \subseteq Calls
          /\ run # "gone" => outstanding' = outstanding
      BY <1>1, <1>4, <1>5, <1>6 DEF Answer, CallStates, Answers
    <2>2. {} \in SUBSET AtWork
      OBVIOUS
    <2> QED
      BY <1>2, <1>5, <1>6, <2>1, <2>2, Arriving
  <1>7. CASE \E state \in {"active", "parked"} : Enter(c, state) /\ UNCHANGED control
    <2>1. /\ callState' \in [Calls -> CallStates] /\ answer' \in [Calls -> Answers]
          /\ callState'[c] \in {"active", "parked"}
          /\ \A d \in Calls \ {c} : callState'[d] = callState[d] /\ answer'[d] = answer[d]
          /\ outstanding' = outstanding \cup {c}
      BY <1>5, <1>7 DEF Enter, CallStates
    <2>2. {} \in SUBSET AtWork
      OBVIOUS
    <2> QED
      BY <1>2, <1>5, <1>7, <2>1, <2>2, Arriving
  <1>8. CASE EnterHelp(c)
    <2>1. /\ callState' \in [Calls -> CallStates] /\ answer' \in [Calls -> Answers]
          /\ callState'[c] = "help"
          /\ \A d \in Calls \ {c} :
                IF d \in Active THEN callState'[d] = "answered"
                ELSE callState'[d] = callState[d] /\ answer'[d] = answer[d]
          /\ outstanding' = (outstanding \ Active) \cup {c}
          /\ control' = "user"
      BY <1>5, <1>8 DEF EnterHelp, CallStates, Answers
    <2>2. Active \in SUBSET AtWork
      BY <1>3
    <2> QED
      BY <1>2, <1>5, <2>1, <2>2, Arriving
  <1>9. CASE /\ control' = "over"
             /\ callState' = [d \in Calls |-> IF d \in Interrupted \cup {c} THEN "answered"
                                              ELSE callState[d]]
             /\ answer' = [d \in Calls |-> IF d = c THEN "ok"
                                           ELSE IF d \in Interrupted THEN "stop" ELSE answer[d]]
             /\ outstanding' = outstanding \ Interrupted
    <2>1. /\ callState' \in [Calls -> CallStates] /\ answer' \in [Calls -> Answers]
          /\ callState'[c] = "answered"
          /\ \A d \in Calls \ {c} :
                IF d \in Interrupted THEN callState'[d] = "answered"
                ELSE callState'[d] = callState[d] /\ answer'[d] = answer[d]
          /\ outstanding' = (outstanding \ Interrupted) \cup {} /\ outstanding' \subseteq Calls
          /\ control' = "over"
      BY <1>5, <1>9 DEF CallStates, Answers
    <2>2. Interrupted \in SUBSET AtWork
      BY <1>3
    <2>3. \A d \in Calls \ {c} :
             IF d \in Interrupted THEN callState'[d] \in {"answered", "dropped"}
                                 ELSE callState'[d] = callState[d] /\ answer'[d] = answer[d]
      BY <2>1
    <2>4. outstanding' = (outstanding \ Interrupted) \cup
              (IF callState'[c] \in {"active", "parked", "help"} THEN {c} ELSE {})
      BY <2>1
    <2> QED
      BY <1>2, <2>1, <2>2, <2>3, <2>4, Arriving
  <1> QED
    BY <1>6, <1>7, <1>8, <1>9 DEF Execute

(* The script's calls are cancelled when the run ends, all or some.        *)
LEMMA Ending ==
    ASSUME IInv, NEW cs \in SUBSET Interrupted,
           run \in {"open", "ended", "gone"}, run' = IF run = "open" THEN "ended" ELSE run,
           result' \in Results, run \in {"ended", "gone"} => result' = result,
           run = "open" => /\ result' # "none"
                           /\ result' \in {"ok", "failed"} => report.end = result',
           page' \in {page, "gone"}, UNCHANGED <<toolCalls, stopped, report>>,
           missed' \subseteq Calls,
           toBrowser' \in Seq(Calls \cup {Report}), Distinct(toBrowser'),
           Within(toBrowser') \subseteq Within(toBrowser), control' = control,
           callState' \in [Calls -> CallStates],
           answer' = [c \in Calls |-> IF c \in cs THEN "error" ELSE answer[c]],
           \A c \in Calls :
              IF c \in cs THEN callState'[c] \in {"answered", "dropped"}
              ELSE \/ callState'[c] = callState[c]
                   \/ /\ callState[c] \in {"sent", "answered"} /\ callState'[c] = "dropped"
                      /\ c \notin Within(toBrowser'),
           run = "open" => outstanding' = {},
           run = "ended" => outstanding' = outstanding \ cs,
           run = "gone" => outstanding' = outstanding
    PROVE  IInv'
  <1>1. \A c \in cs : c \in Calls /\ callState[c] \in {"active", "help"}
    BY DEF Interrupted, In
  <1>2. TypeOK'
    <2>1. answer' \in [Calls -> Answers]
      BY DEF IInv, TypeOK, Answers
    <2> QED
      BY <2>1 DEF IInv, TypeOK
  <1>3. Fresh' /\ SentOnce'
    BY <1>1 DEF IInv, Fresh, SentOnce
  <1>4. StopIsKnown'
    BY <1>1 DEF IInv, StopIsKnown
  <1>5. ReportIsTrue'
    <2>1. \A c \in report.seen :
             callState[c] = "settled" /\ callState'[c] = "settled" /\ answer'[c] = answer[c]
      BY <1>1 DEF IInv, TypeOK, ReportIsTrue
    <2> QED
      BY <2>1 DEF IInv, ReportIsTrue
  <1>6. OutstandingIsAtWork'
    <2>1. AtWork' = AtWork \ cs
      BY <1>1 DEF AtWork, In
    <2> QED
      BY <2>1 DEF IInv, OutstandingIsAtWork
  <1> QED
    BY <1>2, <1>3, <1>4, <1>5, <1>6 DEF IInv

(* Finish, wherever it is called: the page may be gone, and the message    *)
(* that led to it is read already.                                         *)
LEMMA FinishKeeps ==
    ASSUME IInv, NEW how \in Results \ {"none"}, Finish(how),
           how \in {"ok", "failed"} => report.end = how,
           page' \in {page, "gone"}, UNCHANGED <<stopped, report>>,
           toBrowser' \in Seq(Calls \cup {Report}), Distinct(toBrowser'),
           Within(toBrowser') \subseteq Within(toBrowser)
    PROVE  IInv'
  <1>1. PICK cs \in SUBSET (outstanding \cap Interrupted) :
           /\ callState' = [c \in Calls |-> IF c \in cs THEN "answered" ELSE callState[c]]
           /\ answer' = [c \in Calls |-> IF c \in cs THEN "error" ELSE answer[c]]
    BY DEF Finish
  <1>2. callState' \in [Calls -> CallStates]
    BY <1>1 DEF IInv, TypeOK, CallStates
  <1>3. cs \in SUBSET Interrupted
    OBVIOUS
  <1>4. \A c \in Calls : IF c \in cs THEN callState'[c] = "answered"
                                     ELSE callState'[c] = callState[c]
    BY <1>1
  <1>5. missed' \subseteq Calls
    BY DEF Finish, AtWork, In
  <1> QED
    BY <1>1, <1>2, <1>3, <1>4, <1>5, Ending DEF Finish

(* The run's own ends: with no message read, and with the report.          *)
LEMMA EndStepsKeep ==
    ASSUME IInv,
           SetUpFails \/ Deadline \/ CancelScript \/ CancelClientTools \/ OnScriptFinished
    PROVE  IInv'
  <1>1. /\ toBrowser \in Seq(Calls \cup {Report}) /\ Distinct(toBrowser)
        /\ "error" \in Results \ {"none"}
    BY DEF IInv, TypeOK, SentOnce, Results
  <1>2. CASE SetUpFails
    BY <1>1, <1>2, FinishKeeps DEF SetUpFails
  <1>3. CASE Deadline
    BY <1>1, <1>3, FinishKeeps DEF Deadline, pageVars
  <1>4. CASE CancelScript
    BY <1>1, <1>4, FinishKeeps DEF CancelScript, pageVars
  <1>5. CASE CancelClientTools
    <2>1. /\ callState' \in [Calls -> CallStates]
          /\ \A c \in Calls : IF c \in Interrupted THEN callState'[c] \in {"answered", "dropped"}
                                                   ELSE callState'[c] = callState[c]
      BY <1>5 DEF CancelClientTools, IInv, TypeOK, CallStates
    <2>2. run \in {"open", "ended", "gone"} /\ result' \in Results
      BY <1>5 DEF CancelClientTools, IInv, TypeOK, Results
    <2>3. Interrupted \in SUBSET Interrupted /\ missed' \subseteq Calls
      BY <1>5 DEF CancelClientTools, In, IInv, TypeOK
    <2> QED
      BY <1>1, <1>5, <2>1, <2>2, <2>3, Ending DEF CancelClientTools, pageVars
  <1>6. CASE OnScriptFinished
    <2>1. /\ toBrowser' \in Seq(Calls \cup {Report}) /\ Distinct(toBrowser')
          /\ Within(toBrowser') = Within(toBrowser) \ {Report}
          /\ Report \in Within(toBrowser)
      BY <1>1, <1>6, Received DEF OnScriptFinished
    <2>2. report.end \in Results \ {"none"}
      BY <2>1 DEF IInv, TypeOK, SentOnce, Results
    <2>3. CASE Finish(report.end)
      BY <1>6, <2>1, <2>2, <2>3, FinishKeeps DEF OnScriptFinished
    <2>4. CASE run # "open" /\ UNCHANGED <<browserVars, answerVars, control>>
      <3>1. run # "new"
        BY <2>1, Quiet DEF IInv, Fresh
      <3>2. TypeOK' /\ Fresh' /\ SentOnce'
        BY <1>6, <2>1, <2>4, <3>1, ScriptAssumption
           DEF OnScriptFinished, browserVars, answerVars, IInv, TypeOK, Fresh, SentOnce
      <3>3. StopIsKnown' /\ ReportIsTrue' /\ OutstandingIsAtWork'
        BY <1>6, <2>4
           DEF OnScriptFinished, browserVars, answerVars, IInv, StopIsKnown, ReportIsTrue,
               OutstandingIsAtWork, AtWork, In
      <3> QED
        BY <3>2, <3>3 DEF IInv
    <2> QED
      BY <1>6, <2>3, <2>4 DEF OnScriptFinished
  <1> QED
    BY <1>2, <1>3, <1>4, <1>5, <1>6

(* The page goes away.                                                     *)
LEMMA RendererGoneKeeps == IInv /\ RendererGone => IInv'
  <1> SUFFICES ASSUME IInv, RendererGone PROVE IInv'
    OBVIOUS
  <1>1. /\ toBrowser' = <<>> /\ page' = "gone"
        /\ run \in {"open", "ended", "gone"}
        /\ "error" \in Results /\ result \in Results
        /\ UNCHANGED <<toolCalls, stopped, report, control>>
        /\ missed' \subseteq Calls
    BY DEF RendererGone, AtWork, In, IInv, TypeOK, Fresh, Results
  <1>2. /\ toBrowser' \in Seq(Calls \cup {Report}) /\ Distinct(toBrowser')
        /\ Within(toBrowser') = {} /\ Within(toBrowser') \subseteq Within(toBrowser)
    BY <1>1, Quiet
  <1>3. CASE run = "open"
    <2>1. PICK cs \in SUBSET (outstanding \cap Interrupted) :
             /\ callState' = [c \in Calls |->
                    IF c \in cs THEN "dropped"
                    ELSE IF callState[c] \in {"sent", "answered"} THEN "dropped"
                    ELSE callState[c]]
             /\ answer' = [c \in Calls |-> IF c \in cs THEN "error" ELSE answer[c]]
      BY <1>3 DEF RendererGone
    <2>2. /\ callState' \in [Calls -> CallStates]
          /\ \A c \in Calls :
                IF c \in cs THEN callState'[c] \in {"answered", "dropped"}
                ELSE \/ callState'[c] = callState[c]
                     \/ /\ callState[c] \in {"sent", "answered"} /\ callState'[c] = "dropped"
                        /\ c \notin Within(toBrowser')
      BY <1>2, <2>1 DEF IInv, TypeOK, CallStates
    <2>3. cs \in SUBSET Interrupted
      OBVIOUS
    <2>4. run' = "ended" /\ result' = "error" /\ outstanding' = {}
      BY <1>3 DEF RendererGone
    <2> QED
      BY <1>1, <1>2, <1>3, <2>1, <2>2, <2>3, <2>4, Ending
  <1>4. CASE run # "open"
    <2>1. /\ callState' = [c \in Calls |-> IF callState[c] \in {"sent", "answered"}
                                             THEN "dropped" ELSE callState[c]]
          /\ UNCHANGED <<run, result, outstanding, answer>>
      BY <1>4 DEF RendererGone
    <2>2. /\ callState' \in [Calls -> CallStates]
          /\ \A c \in Calls :
                \/ callState'[c] = callState[c]
                \/ /\ callState[c] \in {"sent", "answered"} /\ callState'[c] = "dropped"
                   /\ c \notin Within(toBrowser')
      BY <1>2, <2>1 DEF IInv, TypeOK, CallStates
    <2>3. answer' = [c \in Calls |-> IF c \in {} THEN "error" ELSE answer[c]]
      BY <2>1 DEF IInv, TypeOK
    <2>4. {} \in SUBSET Interrupted /\ outstanding \ {} = outstanding
      OBVIOUS
    <2> QED
      BY <1>1, <1>2, <1>4, <2>1, <2>2, <2>3, <2>4, Ending
  <1> QED
    BY <1>3, <1>4

(* Steps of the page, and the steps of a run that answer nobody but the    *)
(* caller.                                                                 *)
LEMMA PageSettlesKeeps ==
    ASSUME NEW c \in Calls, IInv, PageSettles(c)
    PROVE  IInv'
  <1>1. /\ callState[c] = "answered"
        /\ callState' = [callState EXCEPT ![c] = "settled"]
        /\ callState \in [Calls -> CallStates]
    BY DEF PageSettles, IInv, TypeOK
  <1>2. callState' \in [Calls -> CallStates]
    BY <1>1 DEF CallStates
  <1>3. TypeOK' /\ Fresh' /\ SentOnce' /\ StopIsKnown'
    BY <1>1, <1>2
       DEF PageSettles, browserVars, IInv, TypeOK, Fresh, SentOnce, StopIsKnown
  <1>4. ReportIsTrue'
    BY <1>1 DEF PageSettles, browserVars, IInv, TypeOK, ReportIsTrue
  <1>5. OutstandingIsAtWork'
    <2>1. AtWork' = AtWork
      BY <1>1 DEF AtWork, In
    <2> QED
      BY <2>1 DEF PageSettles, browserVars, IInv, OutstandingIsAtWork
  <1> QED
    BY <1>3, <1>4, <1>5 DEF IInv

LEMMA PageSendsKeep ==
    ASSUME IInv,
           \/ \E c \in Calls : PageCalls(c)
           \/ \E end \in {"ok", "failed", "error"} : PageReports(end)
    PROVE  IInv'
  <1>1. /\ toBrowser \in Seq(Calls \cup {Report}) /\ Distinct(toBrowser)
        /\ callState \in [Calls -> CallStates] /\ Report \notin Calls
    BY ScriptAssumption DEF IInv, TypeOK, SentOnce
  <1>2. ASSUME NEW c \in Calls, PageCalls(c)
        PROVE  IInv'
    <2>1. /\ callState[c] = "new" /\ page \in {"running", "reported"}
          /\ callState' = [callState EXCEPT ![c] = "sent"]
          /\ toBrowser' = Append(toBrowser, c)
      BY <1>2 DEF PageCalls
    <2>2. c \notin Within(toBrowser) /\ c \in Calls \cup {Report}
      BY <2>1 DEF IInv, SentOnce
    <2>3. /\ toBrowser' \in Seq(Calls \cup {Report}) /\ Distinct(toBrowser')
          /\ Within(toBrowser') = Within(toBrowser) \cup {c}
      BY <1>1, <2>1, <2>2, Delivered
    <2>4. callState' \in [Calls -> CallStates]
      BY <1>1, <2>1 DEF CallStates
    <2>5. TypeOK' /\ Fresh' /\ SentOnce' /\ StopIsKnown'
      BY <1>1, <1>2, <2>1, <2>3, <2>4
         DEF PageCalls, browserVars, IInv, TypeOK, Fresh, SentOnce, StopIsKnown
    <2>6. ReportIsTrue'
      BY <1>1, <1>2, <2>1 DEF PageCalls, browserVars, IInv, TypeOK, ReportIsTrue
    <2>7. OutstandingIsAtWork'
      <3>1. AtWork' = AtWork
        BY <1>1, <2>1 DEF AtWork, In
      <3> QED
        BY <1>2, <3>1 DEF PageCalls, browserVars, IInv, OutstandingIsAtWork
    <2> QED
      BY <2>5, <2>6, <2>7 DEF IInv
  <1>3. ASSUME NEW end \in {"ok", "failed", "error"}, PageReports(end)
        PROVE  IInv'
    <2>1. /\ page = "running" /\ page' = "reported"
          /\ report' = [end |-> IF stopped /\ end # "error" THEN "stopped" ELSE end,
                        seen |-> In({"settled"})]
          /\ toBrowser' = Append(toBrowser, Report)
          /\ UNCHANGED <<browserVars, stopped, answerVars, control>>
      BY <1>3 DEF PageReports
    <2>2. Report \notin Within(toBrowser)
      BY <2>1 DEF IInv, SentOnce, ReportIsTrue
    <2>3. /\ toBrowser' \in Seq(Calls \cup {Report}) /\ Distinct(toBrowser')
          /\ Within(toBrowser') = Within(toBrowser) \cup {Report}
      BY <1>1, <2>1, <2>2, Delivered
    <2>4. /\ report' \in [end : {"none", "ok", "failed", "stopped", "error"}, seen : SUBSET Calls]
          /\ report'.end # "none" /\ report'.seen = In({"settled"})
          /\ report'.end \in {"ok", "failed"} => ~stopped
      BY <2>1 DEF In
    <2>5. TypeOK' /\ Fresh' /\ SentOnce' /\ StopIsKnown'
      BY <1>1, <2>1, <2>3, <2>4
         DEF browserVars, answerVars, IInv, TypeOK, Fresh, SentOnce, StopIsKnown
    <2>6. ReportIsTrue'
      BY <2>1, <2>4 DEF browserVars, answerVars, IInv, ReportIsTrue, StopIsKnown, In
    <2>7. OutstandingIsAtWork'
      BY <2>1 DEF browserVars, answerVars, IInv, OutstandingIsAtWork, AtWork, In
    <2> QED
      BY <2>5, <2>6, <2>7 DEF IInv
  <1> QED
    BY <1>2, <1>3

LEMMA QuietStepsKeep ==
    ASSUME IInv, Start \/ RunScript \/ Delete \/ FinishCrashes
    PROVE  IInv'
  <1>1. CASE Start
    BY <1>1, Quiet
       DEF Start, answerVars, IInv, TypeOK, Fresh, SentOnce, StopIsKnown, ReportIsTrue,
           OutstandingIsAtWork, AtWork, In
  <1>2. CASE RunScript
    BY <1>2, Quiet
       DEF RunScript, browserVars, answerVars, IInv, TypeOK, Fresh, SentOnce, StopIsKnown,
           ReportIsTrue, OutstandingIsAtWork, AtWork, In
  <1>3. CASE Delete
    BY <1>3, Quiet
       DEF Delete, Interrupted, CallStates, Answers, IInv, TypeOK, Fresh, SentOnce,
           StopIsKnown, ReportIsTrue, OutstandingIsAtWork, In
  <1>4. CASE FinishCrashes
    BY <1>4, Quiet
       DEF FinishCrashes, CallStates, Results, IInv, TypeOK, Fresh, SentOnce, StopIsKnown,
           ReportIsTrue, OutstandingIsAtWork
  <1> QED
    BY <1>1, <1>2, <1>3, <1>4
-----------------------------------------------------------------------------
(* Every step of the run keeps the invariant.                              *)
LEMMA NextKeeps == IInv /\ [Next]_vars => IInv'
  <1> SUFFICES ASSUME IInv, [Next]_vars PROVE IInv'
    OBVIOUS
  <1>1. CASE RunStep
    BY <1>1, EndStepsKeep, RendererGoneKeeps, PageSendsKeep, QuietStepsKeep DEF RunStep
  <1>2. CASE SpaceStep
    BY <1>2, SpaceStepKeeps
  <1>3. CASE \E c \in Calls : CallStep(c)
    BY <1>3, PageSendsKeep, PageSettlesKeeps, OnDevToolsEventKeeps, DispatchKeeps,
       CompleteKeeps DEF CallStep
  <1>4. CASE UNCHANGED vars
    BY <1>4
       DEF vars, browserVars, pageVars, answerVars, IInv, TypeOK, Fresh, SentOnce,
           StopIsKnown, ReportIsTrue, OutstandingIsAtWork, AtWork, In
  <1> QED
    BY <1>1, <1>2, <1>3, <1>4 DEF Next

(* The inductive invariant holds always.                                   *)
THEOREM ScriptInvariant == Spec => []IInv
  BY InitIInv, NextKeeps, PTL DEF Spec

(* The variables of a script run keep their types.                         *)
THEOREM ScriptTypes == Spec => []TypeOK
  <1>1. IInv => TypeOK
    BY DEF IInv
  <1> QED
    BY <1>1, ScriptInvariant, PTL

(* The set that Finish and the destructor cancel from knows every call at  *)
(* work for an open run, and none that is over.                            *)
THEOREM OutstandingKnown == Spec => []OutstandingIsAtWork
  <1>1. IInv => OutstandingIsAtWork
    BY DEF IInv
  <1> QED
    BY <1>1, ScriptInvariant, PTL

(* The output of a script that saw a call stopped is never delivered.      *)
THEOREM StoppedOutputIsDropped == Spec => []StopDropsOutput
  <1>1. IInv => StopDropsOutput
    BY DEF IInv, ReportIsTrue, StopDropsOutput
  <1> QED
    BY <1>1, ScriptInvariant, PTL
-----------------------------------------------------------------------------
(* The calls executed so far, and the limit on them with what it rests on: *)
(* each call that is executed has been counted.                            *)
Executed == {c \in Calls : \/ callState[c] \in {"active", "parked", "help"}
                           \/ answer[c] \in {"ok", "error", "stop"}}

Counted ==
    /\ IsFiniteSet(Executed)
    /\ Cardinality(Executed) <= toolCalls
    /\ Cardinality(Executed) <= MaxToolCalls

(* A step executes at most the one call that arrives, and counts it.       *)
LEMMA ExecutesOne ==
    ASSUME IInv, [Next]_vars
    PROVE  /\ toolCalls' \in Nat /\ toolCalls' >= toolCalls
           /\ \/ Executed' \subseteq Executed
              \/ \E c \in Calls : /\ Executed' \subseteq Executed \cup {c}
                                  /\ toolCalls' = toolCalls + 1 /\ toolCalls' <= MaxToolCalls
  <1> USE DEF Executed
  <1>1. /\ callState \in [Calls -> CallStates] /\ answer \in [Calls -> Answers]
        /\ toolCalls \in Nat
    BY DEF IInv, TypeOK
  <1>2. CASE RunStep
    BY <1>1, <1>2
       DEF RunStep, Start, RunScript, SetUpFails, Deadline, CancelScript, CancelClientTools,
           RendererGone, Delete, FinishCrashes, PageReports, OnScriptFinished, Finish,
           Interrupted, In, browserVars, pageVars, answerVars
  <1>3. CASE SpaceStep
    BY <1>1, <1>3
       DEF SpaceStep, TakeOver, HandBack, StopSpace, Answer, Active, Interrupted, In,
           browserVars
  <1>4. ASSUME NEW c \in Calls, PageCalls(c) \/ PageSettles(c) \/ Dispatch(c) \/ Complete(c)
        PROVE  toolCalls' = toolCalls /\ Executed' \subseteq Executed
    BY <1>1, <1>4
       DEF PageCalls, PageSettles, Dispatch, Complete, Answer, Interrupted, In, browserVars
  <1>5. ASSUME NEW c \in Calls, OnDevToolsEvent(c)
        PROVE  \/ toolCalls' = toolCalls + 1 /\ toolCalls' <= MaxToolCalls
                                             /\ Executed' \subseteq Executed \cup {c}
               \/ toolCalls' \in {toolCalls, toolCalls + 1} /\ Executed' \subseteq Executed
    <2>1. CASE /\ Answer({c}, "refused")
               /\ toolCalls' \in {toolCalls, toolCalls + 1}
      BY <1>1, <2>1 DEF Answer
    <2>2. CASE Execute(c) /\ toolCalls' = toolCalls + 1 /\ WithinBudget
      <3>1. Executed' \subseteq Executed \cup {c}
        BY <1>1, <2>2
           DEF Execute, Enter, EnterHelp, Answer, Active, Interrupted, In
      <3> QED
        BY <2>2, <3>1 DEF WithinBudget
    <2> QED
      BY <1>5, <2>1, <2>2 DEF OnDevToolsEvent
  <1>6. CASE UNCHANGED vars
    BY <1>1, <1>6 DEF vars, browserVars, answerVars
  <1>7. CASE \E c \in Calls : CallStep(c)
    BY <1>1, <1>4, <1>5, <1>7 DEF CallStep
  <1> QED
    BY <1>2, <1>3, <1>6, <1>7 DEF Next

LEMMA CountedKeeps == IInv /\ Counted /\ [Next]_vars => Counted'
  <1> SUFFICES ASSUME IInv, Counted, [Next]_vars PROVE Counted'
    OBVIOUS
  <1>1. /\ toolCalls \in Nat /\ MaxToolCalls \in Nat /\ Cardinality(Executed) \in Nat
    BY ScriptAssumption, FS_CardinalityType DEF IInv, TypeOK, Counted
  <1>2. CASE Executed' \subseteq Executed
    <2>1. /\ IsFiniteSet(Executed') /\ Cardinality(Executed') <= Cardinality(Executed)
          /\ Cardinality(Executed') \in Nat
      BY <1>2, FS_Subset, FS_CardinalityType DEF Counted
    <2> QED
      BY <1>1, <2>1, ExecutesOne DEF Counted
  <1>3. ASSUME NEW c \in Calls, Executed' \subseteq Executed \cup {c},
               toolCalls' = toolCalls + 1, toolCalls' <= MaxToolCalls
        PROVE  Counted'
    <2>1. /\ IsFiniteSet(Executed \cup {c})
          /\ Cardinality(Executed \cup {c}) <= Cardinality(Executed) + 1
      BY <1>1, FS_AddElement DEF Counted
    <2>2. /\ IsFiniteSet(Executed')
          /\ Cardinality(Executed') <= Cardinality(Executed \cup {c})
      BY <1>3, <2>1, FS_Subset
    <2>3. Cardinality(Executed') \in Nat /\ Cardinality(Executed \cup {c}) \in Nat
      BY <2>1, <2>2, FS_CardinalityType
    <2> QED
      BY <1>1, <1>3, <2>1, <2>2, <2>3 DEF Counted
  <1> QED
    BY <1>2, <1>3, ExecutesOne

(* A script's calls past the limit are never executed, however many it     *)
(* sends and whatever is answered in between.                              *)
THEOREM LimitHolds == Spec => []BudgetKept
  <1>1. Init => Counted
    <2> SUFFICES ASSUME Init PROVE Counted
      OBVIOUS
    <2>1. Executed = {}
      BY DEF Init, Executed
    <2> QED
      BY <2>1, FS_EmptySet, ScriptAssumption DEF Counted, Init
  <1>2. Counted => BudgetKept
    BY DEF Counted, BudgetKept, Executed
  <1> QED
    BY <1>1, <1>2, CountedKeeps, ScriptInvariant, PTL DEF Spec

(* What is at work is known to the run until it is deleted, or missed; a   *)
(* deleted run gets no message any more.                                   *)
Remaining ==
    /\ run = "ended" => AtWork \subseteq outstanding \cup missed
    /\ run = "gone" => AtWork \subseteq missed /\ toBrowser = <<>> /\ page = "gone"

(* A call enters only by a message, and is noted; an answer takes a call   *)
(* from the noted ones and from those at work; what Finish or Delete does  *)
(* not cancel is missed.                                                   *)
LEMMA RemainingKeeps == IInv /\ Remaining /\ [Next]_vars => Remaining'
  <1> SUFFICES ASSUME IInv, Remaining, [Next]_vars PROVE Remaining'
    OBVIOUS
  <1> USE DEF AtWork, In
  <1>1. /\ callState \in [Calls -> CallStates] /\ outstanding \subseteq Calls
        /\ run \in {"new", "open"} => outstanding = AtWork
        /\ run = "new" => AtWork = {}
    BY DEF IInv, TypeOK, OutstandingIsAtWork, Fresh
  <1>fewer. ASSUME UNCHANGED <<run, missed, page, outstanding>>,
                   AtWork' \subseteq AtWork,
                   toBrowser' = toBrowser \/ run # "gone"
            PROVE  Remaining'
    BY <1>fewer DEF Remaining
  <1>answer. ASSUME NEW cs, NEW how, Answer(cs, how),
                    UNCHANGED <<run, missed, page>>,
                    toBrowser' = toBrowser \/ run # "gone"
             PROVE  Remaining'
    BY <1>1, <1>answer DEF Answer, Remaining
  <1>2. ASSUME NEW how, Finish(how) PROVE Remaining'
    BY <1>1, <1>2 DEF Finish, Remaining
  <1>3. CASE RunStep
    <2>1. CASE Start \/ RunScript \/ \E end \in {"ok", "failed", "error"} : PageReports(end)
      BY <1>1, <2>1
      DEF Start, RunScript, PageReports, Remaining, browserVars, answerVars
    <2>2. CASE SetUpFails \/ Deadline \/ CancelScript
      BY <1>2, <2>2 DEF SetUpFails, Deadline, CancelScript
    <2>3. CASE CancelClientTools
      BY <1>1, <2>3 DEF CancelClientTools, Interrupted, Remaining, pageVars
    <2>4. CASE RendererGone
      BY <1>1, <2>4 DEF RendererGone, Interrupted, Remaining
    <2>5. CASE Delete
      BY <1>1, <2>5 DEF Delete, Interrupted, Remaining
    <2>6. CASE FinishCrashes
      BY <1>1, <2>6 DEF FinishCrashes, Remaining
    <2>7. CASE OnScriptFinished
      BY <1>1, <1>2, <2>7 DEF OnScriptFinished, Remaining, browserVars, answerVars
    <2> QED
      BY <1>3, <2>1, <2>2, <2>3, <2>4, <2>5, <2>6, <2>7 DEF RunStep
  <1>4. CASE SpaceStep
    BY <1>4, <1>answer
    DEF SpaceStep, TakeOver, HandBack, StopSpace, browserVars, pageVars
  <1>5. ASSUME NEW c \in Calls, CallStep(c) PROVE Remaining'
    <2>1. CASE PageCalls(c)
      BY <1>1, <2>1 DEF PageCalls, Remaining, browserVars
    <2>2. CASE PageSettles(c)
      BY <1>1, <1>fewer, <2>2 DEF PageSettles, browserVars
    <2>3. CASE OnDevToolsEvent(c)
      <3>1. run # "gone" /\ UNCHANGED <<run, missed, page>>
        BY <2>3 DEF OnDevToolsEvent, Remaining
      <3>2. CASE \E how : Answer({c}, how)
        BY <1>answer, <3>1, <3>2
      <3>3. CASE \E state : Enter(c, state)
        BY <1>1, <3>1, <3>3 DEF Enter, Remaining
      <3>4. CASE EnterHelp(c)
        BY <1>1, <3>1, <3>4 DEF EnterHelp, Active, Remaining
      <3>5. CASE Execute(c)
        BY <1>1, <3>1, <3>2, <3>3, <3>4, <3>5 DEF Execute, Interrupted, Remaining
      <3> QED
        BY <2>3, <3>2, <3>5 DEF OnDevToolsEvent
    <2>4. CASE Dispatch(c)
      BY <1>1, <1>answer, <1>fewer, <2>4 DEF Dispatch, browserVars, pageVars
    <2>5. CASE Complete(c)
      BY <1>answer, <2>5 DEF Complete, browserVars, pageVars
    <2> QED
      BY <1>5, <2>1, <2>2, <2>3, <2>4, <2>5 DEF CallStep
  <1>6. CASE UNCHANGED vars
    BY <1>6 DEF vars, browserVars, pageVars, answerVars, Remaining
  <1> QED
    BY <1>3, <1>4, <1>5, <1>6 DEF Next

(* No call works for a deleted run, however late it came, but those parked *)
(* for a commit and those Finish passed over.                              *)
THEOREM LateCallsCancelled == Spec => []LateCallsEnd
  <1>1. Init => Remaining
    BY DEF Init, Remaining
  <1>2. Remaining => LateCallsEnd
    BY DEF Remaining, LateCallsEnd
  <1> QED
    BY <1>1, <1>2, RemainingKeeps, ScriptInvariant, PTL DEF Spec
-----------------------------------------------------------------------------
(* The mapping of ImplementsTaskControl.                                   *)
ctlbar  == [s \in {Report} |-> IF run = "new" THEN "none" ELSE control]
workbar == Active \X {Report}

(* How control and the calls at work may change, put in this model's words.*)
LEMMA Mapped ==
    ASSUME run # "new", run' # "new",
           \/ control' = control /\ Active' \subseteq Active
           \/ control = "agent" /\ control' = control
                                /\ \E c \in Calls : Active' = Active \cup {c}
           \/ control = "agent" /\ control' = "user" /\ Active' = {}
           \/ control = "user" /\ control' = "agent" /\ Active' = Active
           \/ control' = "over" /\ Active' = {}
    PROVE  Control!Next
  <1>1. /\ ctlbar = [s \in {Report} |-> control]
        /\ ctlbar' = [s \in {Report} |-> control']
    BY DEF ctlbar
  <1>2. workbar \ Control!In({Report}) = {}
    BY DEF Control!In, workbar
  <1>3. CASE control' = control /\ Active' \subseteq Active
    <2>1. Control!Rest
      BY <1>1, <1>3 DEF Control!Rest, ctlbar, workbar
    <2> QED
      BY <2>1 DEF Control!Next
  <1>4. ASSUME control = "agent", control' = control,
               NEW c \in Calls, Active' = Active \cup {c}
        PROVE  Control!Next
    <2>1. workbar' = workbar \cup {<<c, Report>>}
      BY <1>4 DEF workbar
    <2>2. Control!Work(c, Report)
      BY <1>1, <1>4, <2>1 DEF Control!Work, ctlbar, workbar
    <2> QED
      BY <2>2 DEF Control!Next
  <1>5. CASE control = "agent" /\ control' = "user" /\ Active' = {}
    <2>1. ctlbar' = [ctlbar EXCEPT ![Report] = "user"] /\ workbar' = {}
      BY <1>1, <1>5 DEF workbar
    <2>2. Control!ToUser(Report)
      BY <1>1, <1>2, <1>5, <2>1 DEF Control!ToUser, ctlbar, workbar
    <2> QED
      BY <2>2 DEF Control!Next
  <1>6. CASE control = "user" /\ control' = "agent" /\ Active' = Active
    <2>1. ctlbar' = [ctlbar EXCEPT ![Report] = "agent"] /\ workbar' = workbar
      BY <1>1, <1>6 DEF workbar
    <2>2. Control!ToAgent(Report)
      BY <1>1, <1>6, <2>1 DEF Control!ToAgent, ctlbar, workbar
    <2> QED
      BY <2>2 DEF Control!Next
  <1>7. CASE control' = "over" /\ Active' = {}
    <2>1. ctlbar' = [s \in {Report} |-> IF s \in {Report} THEN "over" ELSE ctlbar[s]]
          /\ workbar' = {}
      BY <1>1, <1>7 DEF workbar
    <2>2. Control!End({Report})
      BY <1>2, <2>1 DEF Control!End, ctlbar, workbar
    <2> QED
      BY <2>2 DEF Control!Next
  <1> QED
    BY <1>3, <1>4, <1>5, <1>6, <1>7

(* Every step of the run is a step of TaskControl.                         *)
LEMMA StepImplements == IInv /\ [Next]_vars => [Control!Next]_<<ctlbar, workbar>>
  <1> SUFFICES ASSUME IInv, Next PROVE Control!Next \/ UNCHANGED <<ctlbar, workbar>>
    BY DEF vars, browserVars, answerVars, ctlbar, workbar, Active, In
  <1>1. /\ callState \in [Calls -> CallStates]
        /\ run = "new" => control = "agent" /\ \A c \in Calls : callState[c] = "new"
    BY DEF IInv, TypeOK, Fresh
  <1>2. CASE Start
    <2>1. /\ ctlbar = [s \in {Report} |-> "none"] /\ ctlbar' = [s \in {Report} |-> "agent"]
          /\ workbar' = workbar
      BY <1>1, <1>2 DEF Start, answerVars, ctlbar, workbar, Active, In
    <2>2. Control!Begin(Report)
      BY <2>1 DEF Control!Begin, ctlbar, workbar
    <2> QED
      BY <2>2 DEF Control!Next
  <1>3. ASSUME run # "new", RunStep, ~Start
        PROVE  /\ run' # "new"
               /\ \/ control' = control /\ Active' \subseteq Active
                  \/ control' = "over" /\ Active' = {}
    BY <1>1, <1>3
       DEF RunStep, RunScript, SetUpFails, Deadline, CancelScript, CancelClientTools,
           RendererGone, Delete, FinishCrashes, PageReports, OnScriptFinished, Finish,
           Active, Interrupted, In, browserVars, pageVars, answerVars
  <1>4. CASE SpaceStep
    <2>1. /\ run # "new" /\ run' # "new"
          /\ \/ control = "agent" /\ control' = "user" /\ Active' = {}
             \/ control = "user" /\ control' = "agent" /\ Active' = Active
             \/ control' = "over" /\ Active' = {}
      BY <1>1, <1>4
         DEF SpaceStep, TakeOver, HandBack, StopSpace, Answer, Active, Interrupted, In,
             browserVars
    <2> QED
      BY <2>1, Mapped
  <1>5. ASSUME NEW c \in Calls, PageCalls(c) \/ PageSettles(c) \/ Complete(c)
        PROVE  control' = control /\ Active' \subseteq Active /\ run' = run
    BY <1>1, <1>5
       DEF PageCalls, PageSettles, Complete, Answer, Active, Interrupted, In, browserVars
  <1>6. ASSUME NEW c \in Calls, Dispatch(c)
        PROVE  /\ run # "new" /\ run' = run /\ control' = control
               /\ \/ Active' \subseteq Active
                  \/ control = "agent" /\ Active' = Active \cup {c}
    BY <1>1, <1>6 DEF Dispatch, Answer, Active, In, browserVars
  <1>7. ASSUME NEW c \in Calls, OnDevToolsEvent(c)
        PROVE  /\ run # "new" /\ run' = run
               /\ \/ control' = control /\ Active' \subseteq Active
                  \/ control = "agent" /\ control' = control /\ Active' = Active \cup {c}
                  \/ control = "agent" /\ control' = "user" /\ Active' = {}
                  \/ control' = "over" /\ Active' = {}
    <2>1. callState[c] = "sent" /\ run # "new"
      BY <1>1, <1>7, Received DEF OnDevToolsEvent, IInv, TypeOK, SentOnce
    <2>2. ASSUME NEW how, Answer({c}, how)
          PROVE  Active' \subseteq Active
      BY <1>1, <2>2 DEF Answer, Active, In
    <2>3. CASE WithinBudget /\ Execute(c)
      <3>1. CASE EnterHelp(c)
        <4>1. Active' = {}
          BY <1>1, <3>1 DEF EnterHelp, Active, In
        <4>2. control \in {"agent", "user"} /\ control' = "user"
          BY <3>1 DEF EnterHelp, IInv, TypeOK
        <4> QED
          BY <1>7, <2>1, <4>1, <4>2 DEF OnDevToolsEvent
      <3>2. CASE ~EnterHelp(c)
        BY <1>1, <1>7, <2>1, <2>2, <2>3, <3>2
           DEF OnDevToolsEvent, Execute, Enter, Active, Interrupted, In
      <3> QED
        BY <3>1, <3>2
    <2> QED
      BY <1>7, <2>1, <2>2, <2>3 DEF OnDevToolsEvent
  <1>8. CASE RunStep /\ ~Start
    <2>1. run # "new"
      BY <1>8, Quiet
         DEF RunStep, RunScript, SetUpFails, Deadline, CancelScript, CancelClientTools,
             RendererGone, Delete, FinishCrashes, PageReports, OnScriptFinished, Finish,
             IInv, Fresh
    <2> QED
      BY <1>3, <1>8, <2>1, Mapped
  <1>9. CASE \E c \in Calls : CallStep(c)
    <2> PICK c \in Calls : CallStep(c)
      BY <1>9
    <2>1. CASE PageCalls(c) \/ PageSettles(c) \/ Complete(c)
      <3>1. run # "new"
        BY <1>1, <2>1 DEF PageCalls, PageSettles, Complete, Interrupted, In, IInv, Fresh
      <3> QED
        BY <1>5, <2>1, <3>1, Mapped
    <2>2. CASE Dispatch(c)
      BY <1>6, <2>2, Mapped
    <2>3. CASE OnDevToolsEvent(c)
      BY <1>7, <2>3, Mapped
    <2> QED
      BY <2>1, <2>2, <2>3 DEF CallStep
  <1> QED
    BY <1>2, <1>4, <1>8, <1>9 DEF Next

(* The space a script runs in keeps what TaskControl promises, as it does  *)
(* in AgentSpace: the calls of the script are at work only while the agent *)
(* has control, and none is when the user takes over.                      *)
THEOREM ScriptKeepsControl == Spec => ImplementsTaskControl
  <1>1. Init => Control!Init
    BY DEF Init, Control!Init, Active, In
  <1> QED
    BY <1>1, StepImplements, ScriptInvariant, PTL
       DEF Spec, ImplementsTaskControl, Control!Spec, Control!tvars, ctlbar, workbar
-----------------------------------------------------------------------------
(* A call that is not over has no answer yet.                              *)
Unanswered ==
    \A c \in Calls : callState[c] \in {"new", "sent", "active", "parked", "help"}
                        => answer[c] = "none"

(* What was answered, to the caller of the script or to the script, and    *)
(* what became of a call, stays.                                           *)
AnswersStay ==
    /\ result # "none" => result' = result
    /\ \A c \in Calls : answer[c] # "none" => answer'[c] = answer[c]
    /\ \A c \in Calls : callState[c] \in {"settled", "dropped"} => callState'[c] = callState[c]

LEMMA AnswersStep ==
    ASSUME IInv, Unanswered, [Next]_vars
    PROVE  Unanswered' /\ AnswersStay
  <1> USE DEF Unanswered, AnswersStay
  <1>1. /\ callState \in [Calls -> CallStates] /\ answer \in [Calls -> Answers]
        /\ result # "none" => run \notin {"new", "open"}
    BY DEF IInv, TypeOK
  <1>2. CASE RunStep
    BY <1>1, <1>2
       DEF RunStep, Start, RunScript, SetUpFails, Deadline, CancelScript, CancelClientTools,
           RendererGone, Delete, FinishCrashes, PageReports, OnScriptFinished, Finish,
           Interrupted, In, browserVars, pageVars, answerVars
  <1>3. CASE SpaceStep
    BY <1>1, <1>3
       DEF SpaceStep, TakeOver, HandBack, StopSpace, Answer, Active, Interrupted, In,
           browserVars
  <1>4. ASSUME NEW c \in Calls, PageCalls(c) \/ PageSettles(c) \/ Dispatch(c) \/ Complete(c)
        PROVE  Unanswered' /\ AnswersStay
    BY <1>1, <1>4
       DEF PageCalls, PageSettles, Dispatch, Complete, Answer, Interrupted, In, browserVars
  <1>5. ASSUME NEW c \in Calls, OnDevToolsEvent(c)
        PROVE  Unanswered' /\ AnswersStay
    <2>1. callState[c] = "sent" /\ result' = result
      BY <1>5, Received DEF OnDevToolsEvent, IInv, TypeOK, SentOnce
    <2>2. CASE Answer({c}, "refused")
      BY <1>1, <2>1, <2>2 DEF Answer
    <2>3. CASE Execute(c)
      BY <1>1, <2>1, <2>3
         DEF Execute, Enter, EnterHelp, Answer, Active, Interrupted, In
    <2> QED
      BY <1>5, <2>2, <2>3 DEF OnDevToolsEvent
  <1>6. CASE UNCHANGED vars
    BY <1>1, <1>6 DEF vars, browserVars, answerVars
  <1>7. CASE \E c \in Calls : CallStep(c)
    BY <1>4, <1>5, <1>7 DEF CallStep
  <1> QED
    BY <1>2, <1>3, <1>6, <1>7 DEF Next

(* The caller of a script gets one result and every call one answer: the   *)
(* end of the run, a cancellation, a deadline and a late result of a tool  *)
(* never answer what another of them has answered before (Finish,          *)
(* OnToolResult, CancelClientTools).                                       *)
THEOREM AnswersAreFinal ==
    Spec => [][/\ result # "none" => result' = result
               /\ \A c \in Calls : answer[c] # "none" => answer'[c] = answer[c]
               /\ \A c \in Calls : callState[c] \in {"settled", "dropped"}
                                     => callState'[c] = callState[c]]_vars
  <1>1. Init => Unanswered
    BY DEF Init, Unanswered
  <1>2. IInv /\ Unanswered /\ [Next]_vars => Unanswered'
    BY AnswersStep
  <1>3. IInv /\ Unanswered /\ [Next]_vars
          => [/\ result # "none" => result' = result
              /\ \A c \in Calls : answer[c] # "none" => answer'[c] = answer[c]
              /\ \A c \in Calls : callState[c] \in {"settled", "dropped"}
                                    => callState'[c] = callState[c]]_vars
    BY AnswersStep DEF AnswersStay
  <1> QED
    BY <1>1, <1>2, <1>3, ScriptInvariant, PTL DEF Spec
=============================================================================
