-------------------------- MODULE AgentChat_proofs --------------------------
(***************************************************************************)
(* For any number of chats, runs, saves and compactions: what the chat     *)
(* does to its turns is what AgentTurn allows, so the theorems about turns *)
(* hold of the chat, and a run never outlives its turn.                    *)
(***************************************************************************)
EXTENDS AgentChat, TLAPS

TP == INSTANCE AgentTurn_proofs

(* The work of the turn is a record, and its step "run" is that of the run. *)
RunInv ==
    /\ work = [kind |-> work.kind, step |-> work.step, kept |-> work.kept]
    /\ Streaming => phase = "open" /\ work.step = "run"
-----------------------------------------------------------------------------
(* AgentTurn seen from here and seen from its theorems is the same.        *)
LEMMA SameTurn ==
    /\ T!Init => TP!Init
    /\ T!Next => TP!Next
    /\ UNCHANGED T!turnVars => UNCHANGED TP!turnVars
<1>1. T!Init => TP!Init
  BY DEF T!Init, TP!Init
<1>2. UNCHANGED T!turnVars => UNCHANGED TP!turnVars
  BY DEF T!turnVars, TP!turnVars, T!pageVars, TP!pageVars, T!browserVars, TP!browserVars
<1>3. /\ T!BeginTurn => TP!BeginTurn
      /\ T!BeginSucceeds => TP!BeginSucceeds
      /\ T!BeginFails => TP!BeginFails
      /\ T!BeginTimesOut => TP!BeginTimesOut
  BY DEF T!Post, TP!Post, T!browserVars, TP!browserVars, T!BeginTurn, TP!BeginTurn,
     T!BeginSucceeds, TP!BeginSucceeds, T!BeginFails, TP!BeginFails,
     T!BeginTimesOut, TP!BeginTimesOut
<1>4. /\ T!EndTurn => TP!EndTurn
      /\ T!EndAnswered => TP!EndAnswered
      /\ T!EndTimesOut => TP!EndTimesOut
      /\ T!Reload => TP!Reload
  BY DEF T!Post, TP!Post, T!browserVars, TP!browserVars, T!EndTurn, TP!EndTurn,
     T!EndAnswered, TP!EndAnswered, T!EndTimesOut, TP!EndTimesOut,
     T!Aborted, TP!Aborted, T!Reload, TP!Reload
<1>5. T!Browser => TP!Browser
  BY DEF T!Browser, TP!Browser, T!RefuseBegin, TP!RefuseBegin, T!OpenTurn, TP!OpenTurn,
     T!OpenHomeTurn, TP!OpenHomeTurn, T!SnapshotArrives, TP!SnapshotArrives,
     T!SnapshotTooLate, TP!SnapshotTooLate, T!CancelBegin, TP!CancelBegin,
     T!HandleEnd, TP!HandleEnd, T!Arrives, TP!Arrives, T!Number, TP!Number,
     T!Answer, TP!Answer, T!Aborted, TP!Aborted, T!pageVars, TP!pageVars
<1> QED
  BY <1>1, <1>2, <1>3, <1>4, <1>5 DEF T!Next, TP!Next
-----------------------------------------------------------------------------
(* What each step of the chat does to the turn.                            *)
LEMMA ChatStepIsTurnStep == [Next]_vars => [T!Next]_turnVars
<1> SUFFICES ASSUME [Next]_vars, ~UNCHANGED turnVars PROVE T!Next
  OBVIOUS
<1>1. CASE EditGoesOn
  BY <1>1 DEF EditGoesOn, StartTurn, T!Next
<1>2. CASE Ask
  BY <1>2 DEF Ask, Send, Retry, Edit, StartTurn, T!Next
<1>3. CASE Act
  BY <1>3 DEF Act, Stop, NewSession, Compact, CompactAbort, EditStreaming, Rewind,
              OpenRecord, DeleteRecord, ResumeStarts, SubmitExternal, Reload, T!Next
<1>4. CASE Turn
  BY <1>4 DEF Turn, TurnBegins, TurnFails, TurnReturns, EditIsSaved, RunStarts,
              RunFailsToStart, RunAnswers, RunEnds, T!Next
<1>5. CASE Return
  BY <1>5 DEF Return, SaveReturns, LoadReturns, ResumeChecks, ResumeKeeps, ResumeLoads,
              CompactFails, CompactEnds, ExternalGivesUp, ExternalSends, StartTurn, Native, T!Next
<1>6. CASE UNCHANGED vars
  BY <1>6 DEF vars, chatVars
<1> QED
  BY <1>1, <1>2, <1>3, <1>4, <1>5, <1>6 DEF Next

LEMMA TurnVars == UNCHANGED turnVars => UNCHANGED T!turnVars
  BY DEF turnVars, T!turnVars, T!pageVars, T!browserVars

(* What the chat does with its turns (sends, retries, edits, failures,     *)
(* new chats, reloads) is what the page and the browser of AgentTurn may   *)
(* do with them.                                                           *)
THEOREM ChatImplementsTurn == Spec => ImplementsAgentTurn
<1>1. Init => T!Init
  BY DEF Init
<1>2. [Next]_vars => [T!Next]_T!turnVars
  BY ChatStepIsTurnStep, TurnVars
<1>3. Spec => T!Spec
  BY <1>1, <1>2, PTL DEF Spec, T!Spec
<1> QED
  BY <1>3 DEF ImplementsAgentTurn

(* The theorems about turns hold of the chat.                              *)
LEMMA TurnFacts == Spec => []T!TurnsAgree /\ []T!OpenTurnIsActive
<1>1. T!Init => TP!Init
  BY SameTurn
<1>2. [T!Next]_T!turnVars => [TP!Next]_TP!turnVars
  BY SameTurn
<1>3. T!Spec => TP!Spec
  BY <1>1, <1>2, PTL DEF T!Spec, TP!Spec
<1>4. TP!Spec => []TP!TurnsAgree
  BY TP!NoTurnIsStranded
<1>5. TP!Spec => []TP!OpenTurnIsActive
  BY TP!OpenTurnStaysActive
<1>6. /\ TP!TurnsAgree => T!TurnsAgree
      /\ TP!OpenTurnIsActive => T!OpenTurnIsActive
  BY DEF T!TurnsAgree, TP!TurnsAgree, T!OpenTurnIsActive, TP!OpenTurnIsActive
<1>7. ImplementsAgentTurn => T!Spec
  BY PTL DEF ImplementsAgentTurn
<1> QED
  BY <1>3, <1>4, <1>5, <1>6, <1>7, ChatImplementsTurn, PTL

(* A page without a turn has left none in the browser, and no lease.       *)
THEOREM ChatTurnsAgree == Spec => []TurnsAgree
<1>1. T!TurnsAgree => TurnsAgree
  BY DEF TurnsAgree
<1> QED
  BY <1>1, TurnFacts, PTL
-----------------------------------------------------------------------------
LEMMA RunInvInit == Init => RunInv
  BY DEF Init, RunInv, Streaming, NoWork, T!Init

(* Steps that leave the phase and the work alone, and start no run.        *)
LEMMA QuietStep ==
    ASSUME RunInv, UNCHANGED <<phase, work>>, run' # "idle" => run # "idle"
    PROVE  RunInv'
  BY DEF RunInv, Streaming

LEMMA RunInvStep == RunInv /\ [Next]_vars => RunInv'
<1> SUFFICES ASSUME RunInv, [Next]_vars PROVE RunInv'
  OBVIOUS
<1>1. CASE EditGoesOn
  BY <1>1 DEF RunInv, EditGoesOn, EditMayGoOn, Occupied, Streaming, StartTurn, runVars
<1>2. CASE Ask
  BY <1>2 DEF Ask, Send, Retry, Edit, Occupied, StartTurn, RunInv, Streaming, runVars
<1>3. CASE Act
  <2>1. CASE Reload
    BY <2>1 DEF Reload, RunInv, Streaming, NoWork
  <2>2. CASE Act /\ ~Reload
    <3>1. UNCHANGED <<phase, work>> /\ (run' # "idle" => run # "idle")
      BY <2>2 DEF Act, Stop, NewSession, Compact, CompactAbort, EditStreaming, Rewind,
                  OpenRecord, DeleteRecord, ResumeStarts, SubmitExternal, StartLoad,
                  Reset, Leave, Streaming, turnVars, runVars
    <3> QED
      BY <3>1, QuietStep
  <2> QED
    BY <1>3, <2>1, <2>2
<1>4. CASE Turn
  <2>1. CASE TurnBegins
    BY <2>1 DEF TurnBegins, RunInv, Streaming, runVars, T!BeginSucceeds
  <2>2. CASE TurnFails \/ TurnReturns
    BY <2>2 DEF TurnFails, TurnReturns, TurnIsOver, NoWork, RunInv, Streaming, runVars,
                T!BeginFails, T!BeginTimesOut, T!EndAnswered, T!EndTimesOut
  <2>3. CASE EditIsSaved
    BY <2>3 DEF EditIsSaved, RunInv, Streaming, runVars, turnVars
  <2>4. CASE RunStarts
    <3>1. phase' = "open" /\ work' = [work EXCEPT !.step = "run"]
      BY <2>4 DEF RunStarts, Prepared, turnVars
    <3> QED
      BY <3>1 DEF RunInv
  <2>5. CASE RunFailsToStart
    <3>1. /\ work' = [work EXCEPT !.step = "failed"] /\ run' = run
          /\ work.step # "run"
      BY <2>5 DEF RunFailsToStart, Prepared, runVars
    <3> QED
      BY <3>1 DEF RunInv, Streaming
  <2>6. CASE RunAnswers
    <3>1. UNCHANGED <<phase, work, run>>
      BY <2>6 DEF RunAnswers, turnVars, runVars
    <3> QED
      BY <3>1, QuietStep
  <2>7. CASE RunEnds
    <3>1. run' = "idle" /\ work' = [work EXCEPT !.step = "ended"]
      BY <2>7 DEF RunEnds
    <3> QED
      BY <3>1 DEF RunInv, Streaming
  <2> QED
    BY <1>4, <2>1, <2>2, <2>3, <2>4, <2>5, <2>6, <2>7 DEF Turn
<1>5. CASE Return
  <2>1. CASE SaveReturns
    BY <2>1 DEF SaveReturns, RunInv, Streaming, runVars, turnVars
  <2>2. CASE ExternalSends
    <3>1. run' # "idle" => Streaming
      BY <2>2 DEF ExternalSends, Reset, Leave, Streaming
    <3>2. CASE UNCHANGED <<turnVars, work>>
      BY <3>1, <3>2, QuietStep DEF turnVars, Streaming
    <3>3. CASE ~Occupied /\ StartTurn("send", <<>>)
      BY <3>1, <3>3 DEF Occupied, StartTurn, RunInv, Streaming
    <3> QED
      BY <2>2, <3>2, <3>3 DEF ExternalSends
  <2>3. CASE Native
    <3>1. UNCHANGED <<phase, work, run>>
      BY <2>3 DEF Native, runVars, T!Browser, T!RefuseBegin, T!OpenTurn, T!OpenHomeTurn,
                  T!SnapshotArrives, T!SnapshotTooLate, T!CancelBegin, T!HandleEnd, T!pageVars
    <3> QED
      BY <3>1, QuietStep
  <2>4. CASE Return /\ ~SaveReturns /\ ~ExternalSends /\ ~Native
    <3>1. UNCHANGED <<phase, work>> /\ (run' # "idle" => run # "idle")
      BY <2>4 DEF Return, LoadReturns, ResumeChecks, ResumeKeeps, ResumeLoads, CompactFails,
                  CompactEnds, ExternalGivesUp, StartLoad, Reset, Leave, Streaming,
                  turnVars, runVars
    <3> QED
      BY <3>1, QuietStep
  <2> QED
    BY <1>5, <2>1, <2>2, <2>3, <2>4
<1>6. CASE UNCHANGED vars
  BY <1>6, QuietStep DEF vars, chatVars, runVars, turnVars
<1> QED
  BY <1>1, <1>2, <1>3, <1>4, <1>5, <1>6 DEF Next

(* A run goes on only inside the page's turn, and that turn is the one the *)
(* browser has: its tools find the tab they were given.                    *)
THEOREM RunsHaveTheirTurn == Spec => []RunHasItsTurn
<1>1. Spec => []RunInv
  BY RunInvInit, RunInvStep, PTL DEF Spec
<1>2. RunInv /\ T!OpenTurnIsActive => RunHasItsTurn
  BY DEF RunInv, T!OpenTurnIsActive, RunHasItsTurn
<1> QED
  BY <1>1, <1>2, TurnFacts, PTL
-----------------------------------------------------------------------------
(* A run the user left is still going and its output is discarded.         *)
LeftInv == left => Streaming /\ discard

LEMMA LeftInvInit == Init => LeftInv
  BY DEF Init, LeftInv

(* Steps that keep a run, and neither leave a conversation nor discard less. *)
LEMMA LeftQuietStep ==
    ASSUME LeftInv, UNCHANGED <<left, discard>>, run = "idle" => run' = "idle",
           run' = "idle" => run = "idle"
    PROVE  LeftInv'
  BY DEF LeftInv, Streaming

LEMMA LeavingKeepsLeftInv == LeftInv /\ Leave => LeftInv'
  BY DEF LeftInv, Leave, Streaming

LEMMA LeftInvStep == LeftInv /\ [Next]_vars => LeftInv'
<1> SUFFICES ASSUME LeftInv, [Next]_vars PROVE LeftInv'
  OBVIOUS
<1>1. CASE UNCHANGED runVars
  BY <1>1, LeftQuietStep DEF runVars
<1>2. CASE Leave
  BY <1>2, LeavingKeepsLeftInv
<1>3. CASE Stop \/ \E i \in DOMAIN messages : EditStreaming(i)
  BY <1>3 DEF Stop, EditStreaming, LeftInv, Streaming
<1>4. CASE RunStarts \/ RunEnds \/ Reload
  BY <1>4 DEF RunStarts, RunEnds, Reload, LeftInv
<1>5. CASE \E l \in loads : LoadReturns(l)
  BY <1>5, LeftQuietStep DEF LoadReturns
<1>6. CASE Ask \/ EditGoesOn
  BY <1>1, <1>6 DEF Ask, Send, Retry, Edit, EditGoesOn
<1>7. CASE Act
  BY <1>1, <1>2, <1>3, <1>4, <1>7 DEF Act, NewSession, Compact, CompactAbort, Rewind,
     OpenRecord, DeleteRecord, ResumeStarts, SubmitExternal, StartLoad, Reset
<1>8. CASE Turn
  BY <1>1, <1>4, <1>8 DEF Turn, TurnBegins, TurnFails, TurnReturns, TurnIsOver, EditIsSaved,
     RunFailsToStart, RunAnswers
<1>9. CASE Return
  BY <1>1, <1>2, <1>5, <1>9 DEF Return, SaveReturns, ResumeChecks, ResumeKeeps, ResumeLoads,
     CompactFails, CompactEnds, ExternalGivesUp, ExternalSends, Native, StartLoad, Reset
<1>10. CASE UNCHANGED vars
  BY <1>1, <1>10 DEF vars, chatVars
<1> QED
  BY <1>6, <1>7, <1>8, <1>9, <1>10 DEF Next

(* The steps that make a message.                                          *)
LEMMA Makers ==
    ASSUME [Next]_vars, made' # made
    PROVE  RunStarts \/ RunAnswers \/ RunEnds \/ \E j \in Jobs : CompactEnds(j)
<1>1. ~Act
  BY DEF Act, Stop, NewSession, Compact, CompactAbort, EditStreaming, Rewind, OpenRecord,
         DeleteRecord, ResumeStarts, SubmitExternal, Reload
<1>2. ~Ask /\ ~EditGoesOn
  BY DEF Ask, Send, Retry, Edit, EditGoesOn
<1>3. CASE Turn
  BY <1>3 DEF Turn, TurnBegins, TurnFails, TurnReturns, TurnIsOver, EditIsSaved, RunFailsToStart
<1>4. CASE Return
  BY <1>4 DEF Return, SaveReturns, LoadReturns, ResumeChecks, ResumeKeeps, ResumeLoads,
     CompactFails, ExternalGivesUp, ExternalSends, Native
<1>5. ~UNCHANGED vars
  BY DEF vars, chatVars
<1> QED
  BY <1>1, <1>2, <1>3, <1>4, <1>5 DEF Next

(* What a run adds after its conversation was left changes no other        *)
(* conversation, and nothing else is put there while that run goes.        *)
THEOREM LeftRunsAreSilent == Spec => LeftRunsStayOut
<1>1. ASSUME LeftInv, RunInv, [Next]_vars, left, made' # made
      PROVE  messages' = messages
  <2>1. Streaming /\ discard /\ work.step = "run"
    BY <1>1 DEF LeftInv, RunInv
  <2>2. CASE RunStarts
    BY <2>1, <2>2 DEF RunStarts, Prepared
  <2>3. CASE RunAnswers \/ RunEnds
    BY <2>1, <2>3 DEF RunAnswers, RunEnds, Push, Show
  <2>4. CASE \E j \in Jobs : CompactEnds(j)
    BY <2>1, <2>4 DEF CompactEnds
  <2> QED
    BY <1>1, <2>2, <2>3, <2>4, Makers
<1>2. LeftInv /\ RunInv /\ [Next]_vars => [left /\ made' # made => messages' = messages]_vars
  BY <1>1
<1>3. Spec => []LeftInv
  BY LeftInvInit, LeftInvStep, PTL DEF Spec
<1>4. Spec => []RunInv
  BY RunInvInit, RunInvStep, PTL DEF Spec
<1> QED
  BY <1>2, <1>3, <1>4, PTL DEF Spec, LeftRunsStayOut
-----------------------------------------------------------------------------
(* Compactions are records, and one that saw the messages shown, saw the   *)
(* messages that are shown now.                                            *)
IsJob(r) == r \in [on : BOOLEAN, aborted : BOOLEAN, same : BOOLEAN, auto : BOOLEAN,
                   saw : {r.saw}]
SawMessages(r, ms) == r.on /\ r.same => r.saw = Remote(ms)

JobsInv ==
    /\ jobs = [j \in Jobs |-> jobs[j]]
    /\ \A j \in Jobs : IsJob(jobs[j]) /\ SawMessages(jobs[j], messages)

LEMMA JobsInvInit == Init => JobsInv
  BY DEF Init, JobsInv, IsJob, SawMessages, NoJob

(* What a step does to the compactions.                                    *)
LEMMA JobSteps ==
    ASSUME [Next]_vars
    PROVE  \/ UNCHANGED <<messages, jobs>>
           \/ UNCHANGED messages /\ jobs' = Cancelled
           \/ jobs' = Outdated(jobs)
           \/ messages' = <<>> /\ jobs' = Outdated(Cancelled)
           \/ UNCHANGED messages /\ StartJob(jobs, FALSE)
           \/ StartJob(Outdated(jobs), TRUE)
           \/ \E j \in Jobs : CompactFails(j) \/ CompactEnds(j)
           \/ Reload
<1>1. CASE Ask \/ EditGoesOn
  BY <1>1 DEF Ask, Send, Retry, Edit, EditGoesOn, convVars, compactVars
<1>2. CASE Act
  BY <1>2 DEF Act, Stop, NewSession, Compact, CompactAbort, EditStreaming, Rewind, OpenRecord,
     DeleteRecord, ResumeStarts, SubmitExternal, StartLoad, Reset, Show, convVars, compactVars
<1>3. CASE Turn
  BY <1>3 DEF Turn, TurnBegins, TurnFails, TurnReturns, TurnIsOver, EditIsSaved, RunStarts,
     RunFailsToStart, RunAnswers, RunEnds, Push, Show, convVars, compactVars
<1>4. CASE Return
  BY <1>4 DEF Return, SaveReturns, LoadReturns, ResumeChecks, ResumeKeeps, ResumeLoads,
     ExternalGivesUp, ExternalSends, Native, StartLoad, Reset, Show, convVars, compactVars
<1>5. CASE UNCHANGED vars
  BY <1>5 DEF vars, chatVars, convVars, compactVars
<1> QED
  BY <1>1, <1>2, <1>3, <1>4, <1>5 DEF Next

(* Aborting leaves what a compaction saw; other messages outdate it.       *)
LEMMA CancelledJobs ==
    ASSUME JobsInv
    PROVE  /\ Cancelled = [j \in Jobs |-> Cancelled[j]]
           /\ \A j \in Jobs : /\ IsJob(Cancelled[j])
                              /\ Cancelled[j].on = jobs[j].on
                              /\ Cancelled[j].same = jobs[j].same
                              /\ Cancelled[j].saw = jobs[j].saw
<1>1. CASE controller = 0
  BY <1>1 DEF JobsInv, Cancelled
<1>2. CASE controller # 0
  <2> DEFINE Aborted(r) == [r EXCEPT !.aborted = TRUE]
  <2>1. ASSUME NEW r, IsJob(r)
        PROVE  /\ IsJob(Aborted(r)) /\ Aborted(r).on = r.on
               /\ Aborted(r).same = r.same /\ Aborted(r).saw = r.saw
    BY <2>1 DEF IsJob
  <2>2. Cancelled = [j \in Jobs |-> IF j = controller THEN Aborted(jobs[j]) ELSE jobs[j]]
    BY <1>2 DEF Cancelled, JobsInv
  <2>3. \A j \in Jobs : IsJob(jobs[j])
    BY DEF JobsInv
  <2> HIDE DEF Aborted
  <2> QED
    BY <2>1, <2>2, <2>3
<1> QED
  BY <1>1, <1>2

LEMMA OutdatedJobs ==
    ASSUME NEW js, \A j \in Jobs : IsJob(js[j])
    PROVE  /\ Outdated(js) = [j \in Jobs |-> Outdated(js)[j]]
           /\ \A j \in Jobs : /\ IsJob(Outdated(js)[j])
                              /\ js[j].on => Outdated(js)[j].on
                              /\ ~(Outdated(js)[j].on /\ Outdated(js)[j].same)
<1>1. ASSUME NEW r, IsJob(r)
      PROVE  LET q == [r EXCEPT !.same = FALSE]
             IN  IsJob(q) /\ q.on = r.on /\ ~q.same
  BY <1>1 DEF IsJob
<1>2. IsJob(NoJob) /\ ~NoJob.on
  BY DEF IsJob, NoJob
<1>3. Outdated(js) = [j \in Jobs |-> Outdated(js)[j]]
  BY DEF Outdated
<1>4. ASSUME NEW j \in Jobs
      PROVE  Outdated(js)[j] = IF js[j].on THEN [js[j] EXCEPT !.same = FALSE] ELSE NoJob
  BY DEF Outdated
<1> QED
  BY <1>1, <1>2, <1>3, <1>4

LEMMA JobsInvStep == JobsInv /\ [Next]_vars => JobsInv'
<1> SUFFICES ASSUME JobsInv, [Next]_vars PROVE JobsInv'
  OBVIOUS
<1>1. CASE UNCHANGED <<messages, jobs>>
  BY <1>1 DEF JobsInv
<1>2. CASE UNCHANGED messages /\ jobs' = Cancelled
  BY <1>2, CancelledJobs DEF JobsInv, SawMessages
<1>3. CASE jobs' = Outdated(jobs)
  BY <1>3, OutdatedJobs DEF JobsInv, SawMessages
<1>4. CASE jobs' = Outdated(Cancelled)
  BY <1>4, OutdatedJobs, CancelledJobs DEF JobsInv, SawMessages
<1>5. ASSUME NEW js, NEW isAuto \in BOOLEAN, StartJob(js, isAuto), js = [j \in Jobs |-> js[j]],
             \A j \in Jobs : IsJob(js[j]) /\ SawMessages(js[j], messages')
      PROVE  JobsInv'
  <2> DEFINE new == [on |-> TRUE, aborted |-> FALSE, same |-> TRUE, auto |-> isAuto,
                     saw |-> Remote(messages')]
  <2>1. PICK j \in Jobs : jobs' = [js EXCEPT ![j] = new]
    BY <1>5 DEF StartJob
  <2>2. IsJob(new) /\ SawMessages(new, messages')
    BY DEF IsJob, SawMessages
  <2> HIDE DEF new
  <2>3. jobs' = [k \in Jobs |-> IF k = j THEN new ELSE js[k]]
    BY <1>5, <2>1
  <2> QED
    BY <1>5, <2>2, <2>3 DEF JobsInv
<1>6. CASE UNCHANGED messages /\ StartJob(jobs, FALSE)
  BY <1>5, <1>6 DEF JobsInv
<1>7. CASE StartJob(Outdated(jobs), TRUE)
  BY <1>5, <1>7, OutdatedJobs DEF JobsInv, SawMessages
<1>8. CASE \E j \in Jobs : CompactFails(j)
  <2>1. PICK j \in Jobs : jobs' = [jobs EXCEPT ![j] = NoJob] /\ UNCHANGED messages
    BY <1>8 DEF CompactFails, convVars
  <2>2. IsJob(NoJob) /\ SawMessages(NoJob, messages)
    BY DEF IsJob, SawMessages, NoJob
  <2>3. jobs' = [k \in Jobs |-> IF k = j THEN NoJob ELSE jobs[k]]
    BY <2>1 DEF JobsInv
  <2> QED
    BY <2>1, <2>2, <2>3 DEF JobsInv
<1>9. CASE \E j \in Jobs : CompactEnds(j)
  <2>1. PICK j \in Jobs : jobs' = [Outdated(jobs) EXCEPT ![j] = NoJob]
    BY <1>9 DEF CompactEnds
  <2>2. IsJob(NoJob) /\ SawMessages(NoJob, messages')
    BY DEF IsJob, SawMessages, NoJob
  <2>3. jobs' = [k \in Jobs |-> IF k = j THEN NoJob ELSE Outdated(jobs)[k]]
    BY <2>1, OutdatedJobs DEF JobsInv
  <2>4. \A k \in Jobs : IsJob(Outdated(jobs)[k]) /\ SawMessages(Outdated(jobs)[k], messages')
    BY OutdatedJobs DEF JobsInv, SawMessages
  <2> QED
    BY <2>2, <2>3, <2>4 DEF JobsInv
<1>10. CASE Reload
  BY <1>10 DEF Reload, JobsInv, IsJob, SawMessages, NoJob
<1> QED
  BY <1>1, <1>2, <1>3, <1>4, <1>6, <1>7, <1>8, <1>9, <1>10, JobSteps

(* A compaction that ends and leaves other messages than before has put    *)
(* its summary there.                                                      *)
LEMMA SummaryIsShown ==
    ASSUME JobsInv, [Next]_vars, NEW j \in Jobs, jobs[j].on, ~jobs'[j].on,
           messages' \notin {messages, <<>>}
    PROVE  CompactEnds(j)
<1>1. ASSUME NEW js, NEW isAuto, StartJob(js, isAuto), js = [k \in Jobs |-> js[k]], js[j].on
      PROVE  FALSE
  BY <1>1 DEF StartJob
<1>2. ~StartJob(Outdated(jobs), TRUE) /\ jobs' # Outdated(jobs)
  BY <1>1, OutdatedJobs DEF JobsInv
<1>3. ~\E k \in Jobs : CompactFails(k)
  BY DEF CompactFails, convVars
<1>4. messages' # <<>> /\ ~Reload
  BY DEF Reload
<1>5. PICK k \in Jobs : CompactEnds(k)
  BY <1>2, <1>3, <1>4, JobSteps
<1>6. jobs' = [Outdated(jobs) EXCEPT ![k] = NoJob]
  BY <1>5 DEF CompactEnds
<1>7. k = j
  BY <1>6, OutdatedJobs DEF JobsInv
<1> QED
  BY <1>5, <1>7

(* A summary replaces only messages it was made from, however many         *)
(* compactions there are and whatever happens while they wait.             *)
THEOREM CompactionsKeepMessages == Spec => CompactionKeepsMessages
<1> DEFINE Kept(j) == \A m \in Range(Remote(messages)) : m \in Range(jobs[j].saw)
<1>1. ASSUME JobsInv, [Next]_vars, NEW j \in Jobs, jobs[j].on, ~jobs'[j].on,
             messages' \notin {messages, <<>>}
      PROVE  Kept(j)
  <2>1. CompactEnds(j)
    BY <1>1, SummaryIsShown
  <2>2. jobs[j].saw = Remote(messages)
    BY <1>1, <2>1 DEF CompactEnds, JobsInv, SawMessages
  <2> QED
    BY <2>2
<1>2. JobsInv /\ [Next]_vars =>
        [\A j \in Jobs : jobs[j].on /\ ~jobs'[j].on /\ messages' \notin {messages, <<>>} =>
            Kept(j)]_vars
  BY <1>1
<1>3. Spec => []JobsInv
  BY JobsInvInit, JobsInvStep, PTL DEF Spec
<1> QED
  BY <1>2, <1>3, PTL DEF Spec, CompactionKeepsMessages
-----------------------------------------------------------------------------
(* The history has the messages shown, or a save waits, or the turn will   *)
(* save: its run ends with one, and so does a retry or an edit that fails. *)
Recorded == messages = <<>> \/ (session \in DOMAIN records /\ records[session] = messages)

WillSave ==
    \/ phase = "open" /\ (Streaming \/ work.kind # "send")
    \/ phase = "end" /\ work.step = "failed" /\ work.kind # "send"

SavesInv == saves \in Nat /\ (saves # 0 \/ Recorded \/ WillSave)

LEMMA SavesInvInit == Init => SavesInv
  BY DEF Init, SavesInv, Recorded

(* A save waits after it was asked for, unless the chat is empty.          *)
LEMMA SavingKeepsSavesInv == SavesInv /\ Save => SavesInv'
  BY ChatAssumption DEF SavesInv, Save, Recorded

(* Steps that leave the chat, its record and the turn's promise alone.     *)
LEMMA QuietSavesStep ==
    ASSUME SavesInv, UNCHANGED <<session, messages, records, saves>>, WillSave => WillSave'
    PROVE  SavesInv'
  BY DEF SavesInv, Recorded

LEMMA EmptyChatIsRecorded == SavesInv /\ messages' = <<>> /\ saves' \in Nat => SavesInv'
  BY DEF SavesInv, Recorded

(* What is said of the turn, where a step leaves it and the run alone.     *)
LEMMA QuietTurn == UNCHANGED <<phase, work>> /\ Streaming' = Streaming => (WillSave => WillSave')
  BY DEF WillSave

LEMMA SavesOfActs == SavesInv /\ Act => SavesInv'
<1> SUFFICES ASSUME SavesInv, Act PROVE SavesInv'
  OBVIOUS
<1>1. CASE \E i \in DOMAIN messages : Rewind(i)
  BY <1>1, SavingKeepsSavesInv DEF Rewind
<1>2. CASE NewSession
  BY <1>2, EmptyChatIsRecorded DEF NewSession, Reset, saveVars, SavesInv
<1>3. CASE Reload
  BY <1>3, EmptyChatIsRecorded DEF Reload
<1>4. CASE \E id \in DOMAIN records : DeleteRecord(id)
  <2>1. PICK id \in DOMAIN records : DeleteRecord(id)
    BY <1>4
  <2>2. CASE id = session
    BY <2>1, <2>2, EmptyChatIsRecorded DEF DeleteRecord, Reset, SavesInv
  <2>3. CASE id # session
    BY <2>1, <2>3 DEF DeleteRecord, Restrict, SavesInv, Recorded, WillSave, Streaming,
       turnVars, runVars
  <2> QED
    BY <2>2, <2>3
<1>5. CASE Stop \/ Compact \/ CompactAbort \/ ResumeStarts \/ SubmitExternal
           \/ (\E i \in DOMAIN messages : EditStreaming(i))
           \/ \E id \in DOMAIN records : OpenRecord(id)
  <2>1. UNCHANGED <<session, messages, records, saves, phase, work>>
    BY <1>5 DEF Stop, Compact, CompactAbort, ResumeStarts, SubmitExternal, EditStreaming,
       OpenRecord, turnVars, convVars, saveVars
  <2>2. Streaming' = Streaming
    BY <1>5 DEF Stop, Compact, CompactAbort, ResumeStarts, SubmitExternal, EditStreaming,
       OpenRecord, StartLoad, Leave, Streaming, runVars
  <2> QED
    BY <2>1, <2>2, QuietTurn, QuietSavesStep
<1> QED
  BY <1>1, <1>2, <1>3, <1>4, <1>5 DEF Act

LEMMA SavesOfTurns == SavesInv /\ RunInv /\ Turn => SavesInv'
<1> SUFFICES ASSUME SavesInv, RunInv, Turn PROVE SavesInv'
  OBVIOUS
<1>1. CASE TurnBegins
  <2>1. phase = "begin" /\ phase' = "open" /\ work'.kind = work.kind
    BY <1>1 DEF TurnBegins, T!BeginSucceeds, RunInv
  <2>2. CASE work.kind = "send"
    BY <1>1, <2>1, <2>2, QuietSavesStep DEF TurnBegins, saveVars, WillSave
  <2>3. CASE work.kind # "send"
    BY <1>1, <2>1, <2>3 DEF TurnBegins, saveVars, WillSave, SavesInv
  <2> QED
    BY <2>2, <2>3
<1>2. CASE TurnFails \/ TurnReturns
  <2>1. PICK failed \in BOOLEAN :
          TurnIsOver(failed) /\ (WillSave => failed /\ work.kind # "send")
    BY <1>2 DEF TurnFails, TurnReturns, T!BeginFails, T!BeginTimesOut, T!EndAnswered,
       T!EndTimesOut, WillSave
  <2>2. CASE failed /\ work.kind # "send"
    BY <2>1, <2>2, SavingKeepsSavesInv DEF TurnIsOver
  <2>3. CASE ~(failed /\ work.kind # "send")
    BY <2>1, <2>3, QuietSavesStep DEF TurnIsOver
  <2> QED
    BY <2>2, <2>3
<1>3. CASE EditIsSaved \/ RunEnds
  BY <1>3, SavingKeepsSavesInv DEF EditIsSaved, RunEnds
<1>4. CASE RunStarts
  <2>1. phase' = "open" /\ Streaming'
    BY <1>4 DEF RunStarts, Prepared, Streaming, turnVars
  <2>2. saves' \in Nat
    BY <1>4 DEF RunStarts, Save, SavesInv
  <2> QED
    BY <2>1, <2>2 DEF SavesInv, WillSave
<1>5. CASE RunFailsToStart
  <2>1. /\ phase = "open" /\ phase' = "end" /\ work'.kind = work.kind
        /\ work'.step = "failed" /\ ~Streaming
    BY <1>5 DEF RunFailsToStart, Prepared, T!EndTurn, RunInv
  <2>2. WillSave => WillSave'
    BY <2>1 DEF WillSave
  <2> QED
    BY <1>5, <2>2, QuietSavesStep DEF RunFailsToStart, convVars, saveVars
<1>6. CASE RunAnswers
  <2>1. phase = "open" /\ phase' = "open" /\ Streaming'
    BY <1>6 DEF RunAnswers, RunInv, Streaming, turnVars, runVars
  <2>2. saves' \in Nat
    BY <1>6 DEF RunAnswers, Save, SavesInv
  <2> QED
    BY <2>1, <2>2 DEF SavesInv, WillSave
<1> QED
  BY <1>1, <1>2, <1>3, <1>4, <1>5, <1>6 DEF Turn

LEMMA SavesOfReturns == SavesInv /\ RunInv /\ Return => SavesInv'
<1> SUFFICES ASSUME SavesInv, RunInv, Return PROVE SavesInv'
  OBVIOUS
<1>1. CASE SaveReturns
  <2>1. /\ saves' \in Nat /\ session' = session /\ messages' = messages
        /\ records' = [id \in DOMAIN records \union {session} |->
                        IF id = session THEN messages ELSE records[id]]
    BY <1>1 DEF SaveReturns, SavesInv, convVars
  <2>2. session \in DOMAIN records' /\ records'[session] = messages
    BY <2>1
  <2> QED
    BY <2>1, <2>2 DEF SavesInv, Recorded
<1>2. CASE \E l \in loads : LoadReturns(l)
  <2>1. PICK l \in loads : LoadReturns(l)
    BY <1>2
  <2>2. CASE l.id \in DOMAIN records
    BY <2>1, <2>2 DEF LoadReturns, Show, saveVars, SavesInv, Recorded
  <2>3. CASE l.id \notin DOMAIN records
    BY <2>1, <2>3, QuietTurn, QuietSavesStep DEF LoadReturns, saveVars, turnVars, Streaming
  <2> QED
    BY <2>2, <2>3
<1>3. CASE Reset /\ UNCHANGED saveVars
  BY <1>3, EmptyChatIsRecorded DEF Reset, saveVars, SavesInv
<1>4. CASE \E j \in Jobs : CompactEnds(j)
  BY <1>4, SavingKeepsSavesInv DEF CompactEnds
<1>5. CASE \/ ResumeKeeps \/ ExternalGivesUp \/ Native
           \/ (\E id \in DOMAIN records : ResumeLoads(id))
           \/ (\E j \in Jobs : CompactFails(j))
           \/ ResumeChecks /\ ~Reset
  <2>1. UNCHANGED <<session, messages, records, saves, work>>
    BY <1>5 DEF ResumeKeeps, ExternalGivesUp, Native, ResumeLoads, CompactFails, ResumeChecks,
       convVars, saveVars
  <2>2. phase' = phase
    BY <1>5 DEF ResumeKeeps, ExternalGivesUp, Native, ResumeLoads, CompactFails, ResumeChecks,
       turnVars, T!Browser, T!RefuseBegin, T!OpenTurn, T!OpenHomeTurn, T!SnapshotArrives,
       T!SnapshotTooLate, T!CancelBegin, T!HandleEnd, T!pageVars
  <2>3. Streaming' = Streaming
    BY <1>5 DEF ResumeKeeps, ExternalGivesUp, Native, ResumeLoads, CompactFails, ResumeChecks,
       StartLoad, Leave, Streaming, runVars
  <2> QED
    BY <2>1, <2>2, <2>3, QuietTurn, QuietSavesStep
<1> QED
  BY <1>1, <1>2, <1>3, <1>4, <1>5 DEF Return, ResumeChecks, ExternalSends

LEMMA SavesInvStep == SavesInv /\ RunInv /\ [Next]_vars => SavesInv'
<1> SUFFICES ASSUME SavesInv, RunInv, [Next]_vars PROVE SavesInv'
  OBVIOUS
<1>1. CASE Ask \/ EditGoesOn
  <2>1. UNCHANGED <<session, messages, records, saves>>
    BY <1>1 DEF Ask, Send, Retry, Edit, EditGoesOn, convVars, saveVars
  <2>2. phase = "none"
    BY <1>1 DEF Ask, Send, Retry, Edit, EditGoesOn, EditMayGoOn, Occupied
  <2> QED
    BY <2>1, <2>2, QuietSavesStep DEF WillSave
<1>2. CASE UNCHANGED vars
  <2>1. UNCHANGED <<session, messages, records, saves, phase, work, run>>
    BY <1>2 DEF vars, chatVars, turnVars, convVars, runVars, saveVars
  <2> QED
    BY <2>1, QuietTurn, QuietSavesStep DEF Streaming
<1> QED
  BY <1>1, <1>2, SavesOfActs, SavesOfTurns, SavesOfReturns DEF Next

(* Whenever the chat rests, the history has what is shown: after turns     *)
(* that failed, edits, rewinds, compactions and loads, in any number.      *)
THEOREM HistoryIsWhatIsShown == Spec => []ShownIsSaved
<1>1. Spec => []RunInv
  BY RunInvInit, RunInvStep, PTL DEF Spec
<1>2. Spec => []SavesInv
  BY <1>1, SavesInvInit, SavesInvStep, PTL DEF Spec
<1>3. SavesInv => ShownIsSaved
  BY DEF SavesInv, Recorded, WillSave, ShownIsSaved, Occupied
<1> QED
  BY <1>2, <1>3, PTL
=============================================================================
