----------------------------- MODULE AgentChat -----------------------------
(***************************************************************************)
(* The conversation of the agent sidebar (dao_chat_view.ts, dao_compact.ts *)
(* and the history panel): what the page shows, the run of the model that  *)
(* adds to it, the turn around the run (AgentTurn), its compaction, and    *)
(* the records of the history.  Everything that waits in the page (for the *)
(* browser, the model, the database) is resumed in an order nobody chose,  *)
(* and meanwhile the user starts a new chat or opens another one.          *)
(***************************************************************************)
EXTENDS Naturals, Sequences, SequencesExt

CONSTANTS
    MaxTurns,       \* bound: turns the page starts
    MaxAnswers,     \* bound: messages made before runs only end
    MaxSessions,    \* bound: session ids minted
    MaxSaves,       \* bound: saves that wait at a time; a further one joins
    MaxActs,        \* bound: what the user does besides taking turns
    Jobs            \* bound: compactions at a time

ASSUME ChatAssumption ==
    /\ MaxTurns \in Nat /\ MaxAnswers \in Nat /\ MaxActs \in Nat
    /\ MaxSessions \in Nat \ {0} /\ MaxSaves \in Nat \ {0}
    /\ 0 \notin Jobs

VARIABLES
    phase, begun, answer, toBrowser,                \* of AgentTurn
    activeTurn, pendingBegin, lease, snapshots,
    work,           \* what the turn does, how far it is, the messages it keeps
    run,            \* the agent's run: idle, going or aborted
    discard,        \* discardRunOutput_
    shown,          \* isStreaming_
    left,           \* the user left the conversation while this run was going
    session,        \* currentSessionId_, 0 when empty
    messages,       \* agent.state.messages
    made,           \* messages made so far
    sessions,       \* session ids minted so far
    records,        \* the history: the saved messages by session id
    saves,          \* saves that wait for the metadata of their session
    loads,          \* loads of a record that wait for the database
    resume,         \* maybeResumeLastSession_: idle, checking, probing, loading
    ready,          \* mountReady_
    compacting,     \* compacting_
    controller,     \* the job of compactAbort_, 0 when null
    jobs,           \* compactions that wait for their summary
    external,       \* a prompt of the command bar: idle, mount, sending
    edit,           \* the message whose edit waits for the turn, 0 if none
    acts            \* what the user did besides taking turns

T == INSTANCE AgentTurn

turnVars    == <<phase, begun, answer, toBrowser, activeTurn, pendingBegin, lease, snapshots>>
convVars    == <<session, messages, sessions>>
runVars     == <<run, discard, shown, left>>
saveVars    == <<records, saves>>
loadVars    == <<loads, resume, ready>>
compactVars == <<compacting, controller, jobs>>
askVars     == <<external, edit>>
chatVars == <<turnVars, work, convVars, runVars, made, saveVars, loadVars,
          compactVars, askVars>>
vars     == <<chatVars, acts>>

IsUser(m) == m.from \in {"user", "summary"}

NoWork == [kind |-> "none", step |-> "none", kept |-> <<>>]
NoJob  == [on |-> FALSE, aborted |-> FALSE, same |-> FALSE, auto |-> FALSE, saw |-> <<>>]

Streaming == run # "idle"
Occupied  == phase # "none" \/ Streaming       \* runAgentTurn_ starts nothing
Holds(id) == \E i \in DOMAIN messages : messages[i].id = id
-----------------------------------------------------------------------------
Init ==
    /\ T!Init
    /\ work = NoWork
    /\ run = "idle" /\ discard = FALSE /\ shown = FALSE /\ left = FALSE
    /\ session = 0 /\ messages = <<>>
    /\ made = 2 /\ sessions = 1
    /\ records = 1 :> <<[id |-> 1, from |-> "user"], [id |-> 2, from |-> "agent"]>>
    /\ saves = 0
    /\ loads = {} /\ resume = "probing" /\ ready = FALSE
    /\ compacting = FALSE /\ controller = 0 /\ jobs = [j \in Jobs |-> NoJob]
    /\ external = "idle" /\ edit = 0 /\ acts = 0
-----------------------------------------------------------------------------
(* Parts of the handlers.                                                  *)

(* Compactions see by the array's identity that the messages are others.   *)
Outdated(js) == [j \in Jobs |-> IF js[j].on THEN [js[j] EXCEPT !.same = FALSE] ELSE NoJob]
Show(ms)     == messages' = ms /\ jobs' = Outdated(jobs)

(* saveCurrentSession_ up to its wait: an empty chat is not saved, and the *)
(* first save of a chat mints its id.                                      *)
Save ==
    IF messages' = <<>> THEN UNCHANGED <<session, sessions, saves>>
    ELSE /\ saves' = IF saves < MaxSaves THEN saves + 1 ELSE saves
         /\ session' = IF session = 0 THEN sessions + 1 ELSE session
         /\ sessions' = IF session = 0 THEN sessions + 1 ELSE sessions

(* The agent adds a message; output of a run that was left is taken out.   *)
Push(from) ==
    /\ made' = made + 1
    /\ Show(IF discard THEN messages
            ELSE Append(messages, [id |-> made + 1, from |-> from]))

(* Mutant: the output is not discarded.                                    *)
LeaveKeepingOutput ==
    /\ run' = IF Streaming THEN "aborted" ELSE run
    /\ left' = (left \/ Streaming)
    /\ compacting' = FALSE /\ controller' = 0
    /\ UNCHANGED discard

(* What startNewSession and loadSession_ begin with.                       *)
Leave ==
    /\ run' = IF Streaming THEN "aborted" ELSE run
    /\ discard' = (discard \/ Streaming)
    /\ left' = (left \/ Streaming)
    /\ compacting' = FALSE /\ controller' = 0

Cancelled == IF controller = 0 THEN jobs ELSE [jobs EXCEPT ![controller].aborted = TRUE]

(* startNewSession                                                         *)
Reset ==
    /\ sessions < MaxSessions
    /\ Leave /\ shown' = FALSE
    /\ messages' = <<>> /\ jobs' = Outdated(Cancelled)
    /\ session' = 0

StartTurn(kind, kept) ==
    /\ begun < MaxTurns
    /\ T!BeginTurn
    /\ work' = [kind |-> kind, step |-> "prepare", kept |-> kept]
-----------------------------------------------------------------------------
(* The user, with a turn.                                                  *)

Send ==
    /\ ~Occupied
    /\ StartTurn("send", <<>>)
    /\ UNCHANGED <<runVars, convVars, made, saveVars, loadVars, compactVars, askVars>>

(* retryFromUserIndex_: regenerate, or retry of an error.                  *)
Retry(i) ==
    /\ ~Occupied
    /\ IsUser(messages[i])
    /\ StartTurn("retry", SubSeq(messages, 1, i))
    /\ UNCHANGED <<runVars, convVars, made, saveVars, loadVars, compactVars, askVars>>

(* applyUserMessageEdit_ while nothing runs.                               *)
Edit(i) ==
    /\ ~Occupied
    /\ IsUser(messages[i])
    /\ StartTurn("edit", SubSeq(messages, 1, i))
    /\ UNCHANGED <<runVars, convVars, made, saveVars, loadVars, compactVars, askVars>>

(* ... and while a run goes: it is aborted, and the edit waits for its end *)
(* and for the end of its turn.                                            *)
EditStreaming(i) ==
    /\ Streaming /\ edit = 0 /\ begun < MaxTurns
    /\ IsUser(messages[i])
    /\ run' = "aborted"
    /\ edit' = messages[i].id
    /\ UNCHANGED <<turnVars, work, discard, shown, left, convVars, made,
                   saveVars, loadVars, compactVars, external>>

EditMayGoOn == edit # 0 /\ ~Occupied

(* The message is looked up again, and may be gone.                        *)
EditGoesOn ==
    /\ EditMayGoOn
    /\ edit' = 0
    /\ IF ~Holds(edit) THEN UNCHANGED <<turnVars, work>>
       ELSE LET i == CHOOSE k \in DOMAIN messages : messages[k].id = edit
            IN  StartTurn("edit", SubSeq(messages, 1, i))
    /\ UNCHANGED <<runVars, convVars, made, saveVars, loadVars, compactVars, external>>

(* The stop button.                                                        *)
Stop ==
    /\ run = "going"
    /\ run' = "aborted"
    /\ UNCHANGED <<turnVars, work, discard, shown, left, convVars, made, saveVars,
                   loadVars, compactVars, askVars>>
-----------------------------------------------------------------------------
(* The turn goes on.                                                       *)

(* A retry and an edit cut the messages they took with them.               *)
TurnBegins ==
    /\ T!BeginSucceeds
    /\ IF work.kind = "send" THEN UNCHANGED <<messages, jobs>> ELSE Show(work.kept)
    /\ work' = [work EXCEPT !.kept = <<>>]
    /\ UNCHANGED <<runVars, session, sessions, made, saveVars, loadVars,
                   compacting, controller, askVars>>

(* The end of runAgentTurn_: a retry or an edit that failed saves.         *)
TurnIsOver(failed) ==
    /\ work' = NoWork
    /\ external' = IF external = "sending" THEN "idle" ELSE external
    /\ UNCHANGED messages
    /\ IF failed /\ work.kind # "send" THEN Save ELSE UNCHANGED <<session, sessions, saves>>
    /\ UNCHANGED <<runVars, made, records, loadVars, compactVars, edit>>

(* Mutants: a begin is given up silently, an end is waited for for ever.   *)
TurnFailsSilently ==
    /\ phase = "begin" /\ phase' = "none" /\ answer' = "none"
    /\ UNCHANGED <<begun, toBrowser, activeTurn, pendingBegin, lease, snapshots>>
    /\ TurnIsOver(TRUE)
TurnReturnsOnAnswer == T!EndAnswered /\ TurnIsOver(work.step = "failed")

TurnFails   == (T!BeginFails \/ T!BeginTimesOut) /\ TurnIsOver(TRUE)
TurnReturns == (T!EndAnswered \/ T!EndTimesOut) /\ TurnIsOver(work.step = "failed")

(* An edit saves before it goes on; its save waits like any other.         *)
EditIsSaved ==
    /\ phase = "open" /\ work.kind = "edit" /\ work.step = "prepare"
    /\ UNCHANGED messages /\ Save
    /\ work' = [work EXCEPT !.step = IF messages = <<>> THEN "saved" ELSE "saving"]
    /\ UNCHANGED <<turnVars, runVars, made, records, loadVars, compactVars, askVars>>

Prepared == phase = "open" /\ work.step = IF work.kind = "edit" THEN "saved" ELSE "prepare"

CanContinue == messages # <<>> /\ IsUser(Last(messages))

(* The agent's prompt or continue starts the run: agent_start.             *)
RunStarts ==
    /\ Prepared
    /\ IF work.kind = "send" THEN made' = made + 1
                                /\ Show(Append(messages, [id |-> made + 1, from |-> "user"]))
       ELSE /\ CanContinue
            /\ UNCHANGED <<made, messages, jobs>>
    /\ run' = "going" /\ discard' = FALSE /\ shown' = TRUE /\ left' = FALSE
    /\ work' = [work EXCEPT !.step = "run"]
    /\ IF work.kind = "send" THEN Save ELSE UNCHANGED <<session, sessions, saves>>
    /\ UNCHANGED <<turnVars, records, loadVars, compacting, controller, askVars>>

(* No key, or nothing to continue from.                                    *)
RunFailsToStart ==
    /\ Prepared
    /\ work.kind # "send" => ~CanContinue
    /\ T!EndTurn
    /\ work' = [work EXCEPT !.step = "failed"]
    /\ UNCHANGED <<runVars, convVars, made, saveVars, loadVars, compactVars, askVars>>

(* message_end of an answer before the last.                               *)
RunAnswers ==
    /\ Streaming /\ made < MaxAnswers
    /\ Push("agent")
    /\ IF discard THEN UNCHANGED <<session, sessions, saves>> ELSE Save
    /\ UNCHANGED <<turnVars, work, runVars, records, loadVars, compacting,
                   controller, askVars>>

(* compactAgentMessages up to its wait, where it does not refuse: the last *)
(* user turn may be kept, and the rest must be more than an old summary.   *)
LastUser(ms) == CHOOSE i \in DOMAIN ms : IsUser(ms[i]) /\ \A k \in i+1..Len(ms) : ~IsUser(ms[k])
LastTurn(ms) == IF \E i \in DOMAIN ms : IsUser(ms[i]) THEN SubSeq(ms, LastUser(ms), Len(ms))
                ELSE <<>>
Remote(ms)   == SelectSeq(ms, LAMBDA m : m.from # "notice")
Tails(ms)    == {tail \in {LastTurn(ms), <<>>} :
                    LET head == SubSeq(ms, 1, Len(ms) - Len(tail))
                    IN  head # <<>> /\ ~(Len(head) = 1 /\ head[1].from = "summary")}

StartJob(js, isAuto) ==
    \E j \in Jobs :
        /\ ~js[j].on
        /\ jobs' = [js EXCEPT ![j] = [on |-> TRUE, aborted |-> FALSE, same |-> TRUE,
                                      auto |-> isAuto, saw |-> Remote(messages')]]
        /\ compacting' = TRUE /\ controller' = j

(* The last message and agent_end; then the page ends the turn and may     *)
(* compact the chat (maybeAutoCompactAfterTurn_).                          *)
RunEnds ==
    /\ Streaming
    /\ made' = made + 1
    /\ messages' = IF discard THEN messages
                   ELSE Append(messages, [id |-> made + 1, from |-> "agent"])
    /\ run' = "idle" /\ shown' = FALSE /\ left' = FALSE
    /\ Save
    /\ T!EndTurn
    /\ work' = [work EXCEPT !.step = "ended"]
    /\ \/ jobs' = Outdated(jobs) /\ UNCHANGED <<compacting, controller>>
       \/ /\ ~compacting /\ Len(messages') >= 2 /\ Tails(Remote(messages')) # {}
          /\ StartJob(Outdated(jobs), TRUE)
    /\ UNCHANGED <<discard, records, loadVars, askVars>>
-----------------------------------------------------------------------------
(* The database answers a save: what is written is what the page shows now. *)
SaveReturns ==
    /\ saves > 0
    /\ saves' = saves - 1
    /\ records' = [id \in DOMAIN records \union {session} |->
                    IF id = session THEN messages ELSE records[id]]
    /\ \/ (work.step = "saving" => saves > 1) /\ UNCHANGED work
       \/ work.step = "saving" /\ work' = [work EXCEPT !.step = "saved"]
    /\ UNCHANGED <<turnVars, runVars, convVars, made, loadVars, compactVars, askVars>>

NewSession ==
    /\ messages # <<>> \/ Streaming
    /\ Reset
    /\ UNCHANGED <<turnVars, work, sessions, made, saveVars, loadVars, askVars>>

(* Mutant: no save.                                                        *)
RewindUnsaved(i) ==
    /\ ~Streaming /\ ~shown
    /\ messages[i].from = "agent"
    /\ \E k \in i+1..Len(messages) : messages[k].from = "agent"
    /\ Show(SubSeq(messages, 1, i))
    /\ UNCHANGED <<turnVars, work, runVars, session, sessions, made, saveVars, loadVars,
                   compacting, controller, askVars>>

(* rewindToAssistantById_                                                  *)
Rewind(i) ==
    /\ ~Streaming /\ ~shown
    /\ messages[i].from = "agent"
    /\ \E k \in i+1..Len(messages) : messages[k].from = "agent"
    /\ Show(SubSeq(messages, 1, i))
    /\ Save
    /\ UNCHANGED <<turnVars, work, runVars, made, records, loadVars, compacting,
                   controller, askVars>>

(* loadSession_ up to its wait.                                            *)
StartLoad(by, id) ==
    /\ Leave /\ UNCHANGED shown
    /\ jobs' = Cancelled
    /\ loads' = loads \union {[by |-> by, id |-> id]}

OpenRecord(id) ==
    /\ id \in DOMAIN records \ {0} /\ \A l \in loads : l.by # "history"
    /\ StartLoad("history", id)
    /\ UNCHANGED <<turnVars, work, convVars, made, saveVars, resume, ready, askVars>>

LoadReturns(l) ==
    /\ l \in loads
    /\ loads' = loads \ {l}
    /\ IF l.id \in DOMAIN records THEN session' = l.id /\ Show(records[l.id]) /\ shown' = FALSE
       ELSE UNCHANGED <<session, messages, jobs, shown>>
    /\ IF l.by = "resume" THEN resume' = "idle" /\ ready' = TRUE
       ELSE UNCHANGED <<resume, ready>>
    /\ UNCHANGED <<turnVars, work, run, discard, left, sessions, made, saveVars,
                   compacting, controller, askVars>>

(* The history panel deletes a record; that of the chat shown resets it.   *)
DeleteRecord(id) ==
    /\ id \in DOMAIN records \ {0}
    /\ records' = Restrict(records, DOMAIN records \ {id})
    /\ IF id = session THEN Reset
       ELSE UNCHANGED <<runVars, session, messages, compactVars>>
    /\ UNCHANGED <<turnVars, work, sessions, made, saves, loadVars, askVars>>
-----------------------------------------------------------------------------
(* maybeResumeLastSession_, at the mount and whenever the sidebar shows.   *)

ResumeStarts ==
    /\ resume = "idle"
    /\ ~shown
    /\ external = "idle"
    /\ session # 0 \/ messages = <<>>
    /\ resume' = IF session # 0 THEN "checking" ELSE "probing"
    /\ UNCHANGED <<turnVars, work, runVars, convVars, made, saveVars, loads, ready,
                   compactVars, askVars>>

(* The chat shown has gone stale, or not.                                  *)
ResumeChecks ==
    /\ resume = "checking"
    /\ resume' = "idle"
    /\ Reset \/ UNCHANGED <<runVars, session, messages, compactVars>>
    /\ UNCHANGED <<turnVars, work, sessions, made, saveVars, loads, ready, askVars>>

(* No record, none that is fresh, or the chat is not blank any more.       *)
ResumeKeeps ==
    /\ resume = "probing"
    /\ resume' = "idle" /\ ready' = TRUE
    /\ UNCHANGED <<turnVars, work, runVars, convVars, made, saveVars, loads,
                   compactVars, askVars>>

ResumeLoads(id) ==
    /\ resume = "probing"
    /\ external = "idle" /\ session = 0 /\ messages = <<>>
    /\ records[id] # <<>>
    /\ id = 0 => sessions < MaxSessions
    /\ StartLoad("resume", id)
    /\ resume' = "loading"
    /\ UNCHANGED <<turnVars, work, convVars, made, saveVars, ready, askVars>>
-----------------------------------------------------------------------------
(* onCompactClick_: starts a compaction or aborts the one that goes on.    *)
Compact ==
    /\ ~compacting /\ ~Streaming
    /\ UNCHANGED messages
    /\ Tails(Remote(messages)) # {} /\ made < MaxAnswers
    /\ StartJob(jobs, FALSE)
    /\ UNCHANGED <<turnVars, work, runVars, session, sessions, made, saveVars,
                   loadVars, askVars>>

CompactAbort ==
    /\ compacting /\ controller # 0
    /\ jobs' = Cancelled
    /\ UNCHANGED <<turnVars, work, runVars, convVars, made, saveVars, loadVars,
                   compacting, controller, askVars>>

(* The finally of both handlers; only one looks whose controller it clears. *)
JobIsOver(j) ==
    /\ compacting' = FALSE
    /\ controller' = IF jobs[j].auto /\ controller # j THEN controller ELSE 0

CompactFails(j) ==
    /\ jobs[j].on
    /\ jobs' = [jobs EXCEPT ![j] = NoJob]
    /\ JobIsOver(j)
    /\ UNCHANGED <<turnVars, work, runVars, convVars, made, saveVars, loadVars, askVars>>

(* Mutant: the messages may be others by now.                              *)
CompactEndsAnyway(j) ==
    /\ jobs[j].on /\ ~jobs[j].aborted /\ ~Streaming
    /\ \E tail \in Tails(jobs[j].saw) :
        messages' = <<[id |-> made + 1, from |-> "summary"]>> \o tail \o
                    IF jobs[j].auto THEN <<[id |-> made + 2, from |-> "notice"]>> ELSE <<>>
    /\ made' = made + 2
    /\ jobs' = [Outdated(jobs) EXCEPT ![j] = NoJob]
    /\ JobIsOver(j)
    /\ Save
    /\ UNCHANGED <<turnVars, work, runVars, records, loadVars, askVars>>

(* The summary arrives, and the messages are still those it was asked for. *)
CompactEnds(j) ==
    /\ jobs[j].on /\ ~jobs[j].aborted
    /\ jobs[j].same /\ ~Streaming
    /\ \E tail \in Tails(jobs[j].saw) :
        messages' = <<[id |-> made + 1, from |-> "summary"]>> \o tail \o
                    IF jobs[j].auto THEN <<[id |-> made + 2, from |-> "notice"]>> ELSE <<>>
    /\ made' = made + 2
    /\ jobs' = [Outdated(jobs) EXCEPT ![j] = NoJob]
    /\ JobIsOver(j)
    /\ Save
    /\ UNCHANGED <<turnVars, work, runVars, records, loadVars, askVars>>
-----------------------------------------------------------------------------
(* submitExternalPrompt: the command bar asks.  A second one is turned     *)
(* away; the first waits for the mount, or gives up.                       *)

SubmitExternal ==
    /\ external = "idle"
    /\ external' = "mount"
    /\ UNCHANGED <<turnVars, work, runVars, convVars, made, saveVars, loadVars,
                   compactVars, edit>>

ExternalGivesUp ==
    /\ external = "mount" /\ ~ready
    /\ external' = "idle"
    /\ UNCHANGED <<turnVars, work, runVars, convVars, made, saveVars, loadVars,
                   compactVars, edit>>

(* A new session, and the send, which does nothing while a turn is there.  *)
ExternalSends ==
    /\ external = "mount" /\ ready
    /\ Reset
    /\ \/ Occupied /\ external' = "idle" /\ UNCHANGED <<turnVars, work>>
       \/ ~Occupied /\ StartTurn("send", <<>>) /\ external' = "sending"
    /\ UNCHANGED <<sessions, made, saveVars, loadVars, edit>>
-----------------------------------------------------------------------------
(* The browser's side of the turn.                                         *)
Native ==
    /\ T!Browser
    /\ UNCHANGED <<work, runVars, convVars, made, saveVars, loadVars, compactVars, askVars>>

(* The page is loaded again; the history is what remains.                  *)
Reload ==
    /\ sessions < MaxSessions
    /\ T!Reload
    /\ work' = NoWork
    /\ run' = "idle" /\ discard' = FALSE /\ shown' = FALSE /\ left' = FALSE
    /\ session' = 0 /\ messages' = <<>>
    /\ saves' = 0 /\ loads' = {} /\ resume' = "probing" /\ ready' = FALSE
    /\ compacting' = FALSE /\ controller' = 0 /\ jobs' = [j \in Jobs |-> NoJob]
    /\ external' = "idle" /\ edit' = 0
    /\ UNCHANGED <<sessions, made, records>>
-----------------------------------------------------------------------------
Ask == Send \/ \E i \in DOMAIN messages : Retry(i) \/ Edit(i)

Act ==
    /\ acts < MaxActs
    /\ acts' = acts + 1
    /\ \/ Stop \/ NewSession \/ Compact \/ CompactAbort
       \/ \E i \in DOMAIN messages : EditStreaming(i) \/ Rewind(i)
       \/ \E id \in DOMAIN records : OpenRecord(id) \/ DeleteRecord(id)
       \/ ResumeStarts \/ SubmitExternal \/ Reload

Turn == TurnBegins \/ TurnFails \/ TurnReturns \/ EditIsSaved \/ RunStarts
        \/ RunFailsToStart \/ RunAnswers \/ RunEnds

Return ==
    \/ SaveReturns \/ \E l \in loads : LoadReturns(l)
    \/ ResumeChecks \/ ResumeKeeps \/ \E id \in DOMAIN records : ResumeLoads(id)
    \/ \E j \in Jobs : CompactFails(j) \/ CompactEnds(j)
    \/ ExternalGivesUp \/ ExternalSends
    \/ Native

(* Nothing gets between the end of a turn and an edit that awaits it.      *)
Next ==
    \/ EditGoesOn /\ UNCHANGED acts
    \/ ~EditMayGoOn /\ (Ask \/ Turn \/ Return) /\ UNCHANGED acts
    \/ ~EditMayGoOn /\ Act

Spec == Init /\ [][Next]_vars

FairSpec ==
    /\ Spec
    /\ WF_chatVars(TurnBegins \/ TurnFails) /\ WF_chatVars(EditIsSaved) /\ WF_chatVars(SaveReturns)
    /\ WF_chatVars(RunStarts \/ RunFailsToStart) /\ WF_chatVars(RunEnds) /\ WF_chatVars(TurnReturns)
-----------------------------------------------------------------------------
TypeOK ==
    /\ T!TypeOK
    /\ run \in {"idle", "going", "aborted"}
    /\ {discard, shown, left, ready, compacting} \subseteq BOOLEAN
    /\ session \in 0..sessions /\ sessions \in 1..MaxSessions
    /\ made \in Nat /\ saves \in 0..MaxSaves
    /\ edit \in 0..made
    /\ DOMAIN records \subseteq 0..sessions
    /\ resume \in {"idle", "checking", "probing", "loading"}
    /\ external \in {"idle", "mount", "sending"}
    /\ controller \in Jobs \union {0}

(* When the page has no turn and nothing is on its way to the browser, the *)
(* browser has no turn and holds no lease: endAgentTurn, its time-out, the *)
(* late answer to a begin and a reload all leave the tab to others.        *)
TurnsAgree == T!TurnsAgree

(* A run goes on only inside a turn of the page that is the turn of the    *)
(* browser: its tools find their target, whatever became of other turns.   *)
RunHasItsTurn == Streaming => phase = "open" /\ work.step = "run" /\ activeTurn = begun

(* What the chat does with turns is what the page of AgentTurn may do.     *)
ImplementsAgentTurn == T!Spec

(* What a run still adds after the user left its conversation, to its last *)
(* message, is not shown in the one the user went to (discardRunOutput_),  *)
(* and no summary is put in place of that conversation meanwhile.          *)
LeftRunsStayOut ==
    [][left /\ made' # made => messages' = messages]_vars

(* When no save waits and no turn is there, the history holds the chat as  *)
(* it is shown, after turns that failed, edits, rewinds and compactions.   *)
ShownIsSaved ==
    saves = 0 /\ ~Occupied /\ messages # <<>> =>
        session \in DOMAIN records /\ records[session] = messages

(* A summary replaces messages it was made from and no others, whatever    *)
(* was sent, rewound or opened while the model wrote it.                   *)
CompactionKeepsMessages ==
    [][\A j \in Jobs : jobs[j].on /\ ~jobs'[j].on /\ messages' \notin {messages, <<>>} =>
         \A m \in Range(Remote(messages)) : m \in Range(jobs[j].saw)]_vars

(* runAgentTurn_ does nothing while a turn is there, so a turn that stayed *)
(* would end the chat: every turn ends.                                    *)
TurnsEnd == phase # "none" ~> phase = "none"

(* "Start a fresh session and immediately submit `text`": a prompt of the  *)
(* command bar starts a turn.                                              *)
PromptsAreSent ==
    [][external = "mount" /\ external' # "mount" /\ ready /\ ready' => phase' = "begin"]_vars
=============================================================================
