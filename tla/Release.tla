------------------------------ MODULE Release ------------------------------
(***************************************************************************)
(* The combined desktop release (release.ts, release-transaction.ts and    *)
(* windows-update.ts): it changes managed files, publishes what it built   *)
(* and tags the commit, or puts back what it changed.  Its maintainer      *)
(* edits the same files, moves HEAD and the tag, interrupts it and starts  *)
(* it again; the process may be killed.  One candidate version.            *)
(***************************************************************************)
EXTENDS Naturals, Sequences

CONSTANTS
    MaxRuns,        \* bound: times the command is started
    MaxEdits        \* bound: what the maintainer does in the checkout

ASSUME ReleaseAssumption == MaxRuns \in Nat /\ MaxEdits \in Nat

VARIABLES
    files,          \* what the managed files hold
    original, owned,\* the transaction's maps
    window,         \* the file between the check and the rename of atomicWrite
    status, step,   \* where the run is
    opts,           \* --skip-build and --skip-upload, positively
    todo,           \* files the rollback has still to look at
    problems,       \* conflicts, failures to restore or to delete the tag
    created,        \* createdTag
    outcome,        \* how the last run ended
    head, tag,      \* of the repository: HEAD and the candidate's tag
    head0, tag0,    \* the provenance read when the run started
    dist, published,\* artifacts built and artifacts public, by the run that built them
    started,        \* publication.artifactsStarted
    told,           \* the maintainer was told to retry with --skip-build
    aborted,        \* the run's signal
    runs, edits,
    mine,           \* edits made during the run that must survive it
    stray,          \* git made the tag and reported that it had not
    local           \* (history) the runs started with --skip-upload

fileVars == <<files, original, owned, window>>
runVars  == <<status, step, opts, todo, problems, outcome, aborted, runs>>
gitVars  == <<head, tag, head0, tag0, created, stray>>
distVars == <<dist, published, started, told>>
userVars == <<edits, mine, local>>
vars     == <<fileVars, runVars, gitVars, distVars, userVars>>

Files     == {"dao", "notes", "feed", "appcast", "info"}
Artifacts == {"dmg", "exe", "manifest"}

(* Contents of a file: 0 as before any release, then what a release writes, *)
(* then edits of the maintainer.                                           *)
Half == 1
New  == 2
Contents == Nat

(* The order of the transaction's maps.                                    *)
Rank == [dao |-> 1, appcast |-> 2, info |-> 3, feed |-> 4, notes |-> 5]

NoTag == [by |-> 0, id |-> 0, commit |-> 0]
Tags  == [by : Nat, id : Nat, commit : Nat]

Write(f, c) == [op |-> "write", what |-> f, value |-> c]
Phase(p)    == [op |-> "phase", what |-> p, value |-> 0]

(* The bump, plannedReleaseSteps and the canonical mutations after them.   *)
Steps == <<Write("dao", New), Write("notes", New),
           Phase("mac"), Phase("windows"), Phase("update-manifest"), Write("feed", New),
           Phase("appcast"), Write("appcast", New), Phase("upload"),
           Phase("metadata"), Write("info", Half), Write("info", New), Phase("tag")>>

Init ==
    /\ files = [f \in Files |-> 0] /\ original = files /\ owned = files /\ window = "none"
    /\ status = "idle" /\ step = 1 /\ opts = [build |-> TRUE, upload |-> TRUE]
    /\ todo = {} /\ problems = FALSE /\ created = NoTag /\ outcome = "none"
    /\ head = 1 /\ tag = NoTag /\ head0 = 0 /\ tag0 = NoTag
    /\ dist = [a \in Artifacts |-> 0] /\ published = dist
    /\ started = FALSE /\ told = FALSE /\ aborted = FALSE
    /\ runs = 0 /\ edits = 0 /\ mine = files /\ stray = FALSE
    /\ local = {}
-----------------------------------------------------------------------------
(* runRelease reads the files and the provenance before its preflight.     *)
Start(o) ==
    /\ status = "idle" /\ outcome # "done" /\ runs < MaxRuns
    /\ \A f \in Files : files[f] \notin {Half, New}
    /\ ~o.build => told
    /\ tag # NoTag => tag.commit = head
    /\ original' = files /\ owned' = files /\ mine' = [f \in Files |-> 0]
    /\ head0' = head /\ tag0' = tag /\ created' = NoTag /\ stray' = FALSE
    /\ status' = "preflight" /\ step' = 1 /\ opts' = o
    /\ todo' = {} /\ problems' = FALSE /\ aborted' = FALSE /\ started' = FALSE
    /\ runs' = runs + 1 /\ outcome' = "none"
    /\ local' = IF o.upload THEN local ELSE local \union {runs + 1}
    /\ UNCHANGED <<files, window, head, tag, dist, published, told, edits>>

(* Mutant: what is public already is not looked at.                        *)
PreflightTrusting ==
    /\ status = "preflight"
    /\ status' = "steps"
    /\ UNCHANGED <<fileVars, step, opts, todo, problems, outcome, aborted, runs,
                   gitVars, distVars, userVars>>

(* assertUnpublishedReleaseArtifacts, where something is built to publish: *)
(* a run that uploads nothing is not asked.                                *)
Preflight ==
    /\ status = "preflight"
    /\ opts.build /\ opts.upload => \A a \in Artifacts : published[a] = 0
    /\ status' = "steps"
    /\ UNCHANGED <<fileVars, step, opts, todo, problems, outcome, aborted, runs,
                   gitVars, distVars, userVars>>

PreflightRefuses ==
    /\ status = "preflight"
    /\ status' = "idle" /\ outcome' = "refused"
    /\ told' = (told \/ \E a \in Artifacts : published[a] # 0)
    /\ UNCHANGED <<fileVars, step, opts, todo, problems, aborted, runs,
                   gitVars, dist, published, started, userVars>>
-----------------------------------------------------------------------------
Fail == /\ status' = "rollback" /\ todo' = Files
        /\ UNCHANGED <<step, opts, problems, outcome, aborted, runs>>

NextStep == /\ IF step < Len(Steps) THEN step' = step + 1 /\ UNCHANGED status
               ELSE status' = "finish" /\ UNCHANGED step
            /\ UNCHANGED <<opts, todo, problems, outcome, aborted, runs>>

Now == Steps[step]

(* throwIfReleaseAborted, before the bump and around each phase.           *)
StepAborts ==
    /\ status = "steps" /\ aborted /\ window = "none"
    /\ Fail
    /\ UNCHANGED <<fileVars, gitVars, distVars, userVars>>

(* Mutant: the file is not read again.                                     *)
WriteChecksNothing ==
    /\ status = "steps" /\ ~aborted /\ window = "none" /\ Now.op = "write"
    /\ window' = Now.what
    /\ UNCHANGED <<files, original, owned, runVars, gitVars, distVars, userVars>>

(* writeFile up to the rename: the file must hold what the run left there. *)
WriteChecks ==
    /\ status = "steps" /\ ~aborted /\ window = "none" /\ Now.op = "write"
    /\ files[Now.what] = owned[Now.what]
    /\ window' = Now.what
    /\ UNCHANGED <<files, original, owned, runVars, gitVars, distVars, userVars>>

WriteReplaces ==
    /\ status = "steps" /\ window # "none"
    /\ files' = [files EXCEPT ![window] = Now.value]
    /\ owned' = [owned EXCEPT ![window] = Now.value]
    /\ window' = "none"
    /\ NextStep
    /\ UNCHANGED <<original, gitVars, distVars, userVars>>

(* A concurrent edit, or a write or a rename that failed.                  *)
WriteFails ==
    /\ status = "steps" /\ Now.op = "write"
    /\ window' = "none"
    /\ Fail
    /\ UNCHANGED <<files, original, owned, gitVars, distVars, userVars>>

AtPhase(p) == status = "steps" /\ ~aborted /\ Now.op = "phase" /\ Now.what = p

(* A build replaces what dist/ holds; without one it stays.                *)
Builds(a) ==
    /\ IF opts.build THEN dist' = [dist EXCEPT ![a] = runs] ELSE UNCHANGED dist
    /\ NextStep
    /\ UNCHANGED <<fileVars, gitVars, published, started, told, userVars>>

BuildMac     == AtPhase("mac") /\ Builds("dmg")
BuildWindows == AtPhase("windows") /\ Builds("exe")

(* The manifest is signed for the installer built, or must be for that     *)
(* which is there.                                                         *)
UpdateManifest ==
    /\ AtPhase("update-manifest")
    /\ ~opts.build => dist["manifest"] = dist["exe"] /\ dist["dmg"] # 0 /\ dist["exe"] # 0
    /\ Builds("manifest")

(* uploadWindowsReleaseArtifacts: what is public is not sent again, and    *)
(* may have another size, which stops the run.                             *)
UploadStarts ==
    /\ AtPhase("upload") /\ opts.upload /\ ~started
    /\ started' = TRUE
    /\ UNCHANGED <<fileVars, runVars, gitVars, dist, published, told, userVars>>

UploadOne(a) ==
    /\ AtPhase("upload") /\ started /\ published[a] = 0
    /\ published' = [published EXCEPT ![a] = dist[a]]
    /\ UNCHANGED <<fileVars, runVars, gitVars, dist, started, told, userVars>>

UploadEnds ==
    /\ AtPhase("upload")
    /\ opts.upload => started /\ \A a \in Artifacts : published[a] # 0
    /\ NextStep
    /\ UNCHANGED <<fileVars, gitVars, distVars, userVars>>

(* The appcast is made in dist/; metadata and tag do nothing themselves.   *)
PhaseEnds ==
    /\ \E p \in {"appcast", "metadata", "tag"} : AtPhase(p)
    /\ NextStep
    /\ UNCHANGED <<fileVars, gitVars, distVars, userVars>>

(* A command failed, or was stopped by the signal.                         *)
PhaseFails ==
    /\ status = "steps" /\ Now.op = "phase"
    /\ Fail
    /\ UNCHANGED <<fileVars, gitVars, distVars, userVars>>
-----------------------------------------------------------------------------
GoOn(s) == status' = s /\ UNCHANGED <<step, opts, todo, problems, outcome, aborted, runs>>

(* revalidateReleaseProvenance                                             *)
Revalidate ==
    /\ status = "finish"
    /\ IF aborted \/ head # head0 \/ tag # tag0 THEN Fail
       ELSE GoOn(IF tag0 = NoTag THEN "tagging" ELSE "commit")
    /\ UNCHANGED <<fileVars, gitVars, distVars, userVars>>

OwnTag == [by |-> runs, id |-> 0, commit |-> head0]

(* createReleaseTag: update-ref only where there is no tag.                *)
CreateTag ==
    /\ status = "tagging" /\ tag = NoTag
    /\ tag' = OwnTag /\ created' = OwnTag
    /\ GoOn("commit")
    /\ UNCHANGED <<fileVars, head, head0, tag0, stray, distVars, userVars>>

(* There is a tag by now, or git failed, before or after its effect.       *)
CreateTagFails ==
    /\ status = "tagging"
    /\ Fail
    /\ \/ UNCHANGED <<tag, stray>>
       \/ tag = NoTag /\ tag' = OwnTag /\ stray' = TRUE
    /\ UNCHANGED <<fileVars, head, head0, tag0, created, distVars, userVars>>

(* Mutant: the signal is not looked at again.                              *)
CommitRegardless ==
    /\ status = "commit"
    /\ files = owned
    /\ status' = "idle" /\ outcome' = "done"
    /\ UNCHANGED <<fileVars, step, opts, todo, problems, aborted, runs,
                   gitVars, distVars, userVars>>

(* commit, after the last look at the signal.                              *)
Commit ==
    /\ status = "commit" /\ ~aborted
    /\ files = owned
    /\ status' = "idle" /\ outcome' = "done"
    /\ UNCHANGED <<fileVars, step, opts, todo, problems, aborted, runs,
                   gitVars, distVars, userVars>>

CommitFails ==
    /\ status = "commit" /\ (aborted \/ files # owned)
    /\ Fail
    /\ UNCHANGED <<fileVars, gitVars, distVars, userVars>>
-----------------------------------------------------------------------------
(* rollback, one file after the other.                                     *)
IsNext(f) == f \in todo /\ \A g \in todo : Rank[f] <= Rank[g]

Looked(f, problem) ==
    /\ todo' = todo \ {f} /\ problems' = (problems \/ problem)
    /\ UNCHANGED <<status, step, opts, outcome, aborted, runs>>

(* Mutant: a conflict is tried again.                                      *)
RestoreConflictsAgain(f) ==
    /\ status = "rollback" /\ window = "none" /\ IsNext(f)
    /\ files[f] # owned[f]
    /\ problems' = TRUE
    /\ UNCHANGED <<fileVars, status, step, opts, todo, outcome, aborted, runs,
                   gitVars, distVars, userVars>>

RestoreConflicts(f) ==
    /\ status = "rollback" /\ window = "none" /\ IsNext(f)
    /\ files[f] # owned[f]
    /\ Looked(f, TRUE)
    /\ UNCHANGED <<fileVars, gitVars, distVars, userVars>>

(* Mutant: the file is compared with the wrong one of the two maps.        *)
RestoreKeepsOwned(f) ==
    /\ status = "rollback" /\ window = "none" /\ IsNext(f)
    /\ files[f] = owned[f]
    /\ Looked(f, FALSE)
    /\ UNCHANGED <<fileVars, gitVars, distVars, userVars>>

RestoreKeeps(f) ==
    /\ status = "rollback" /\ window = "none" /\ IsNext(f)
    /\ files[f] = owned[f] /\ owned[f] = original[f]
    /\ Looked(f, FALSE)
    /\ UNCHANGED <<fileVars, gitVars, distVars, userVars>>

RestoreChecks(f) ==
    /\ status = "rollback" /\ window = "none" /\ IsNext(f)
    /\ files[f] = owned[f] /\ owned[f] # original[f]
    /\ window' = f
    /\ UNCHANGED <<files, original, owned, runVars, gitVars, distVars, userVars>>

RestoreReplaces ==
    /\ status = "rollback" /\ window # "none"
    /\ files' = [files EXCEPT ![window] = original[window]]
    /\ window' = "none"
    /\ Looked(window, FALSE)
    /\ UNCHANGED <<original, owned, gitVars, distVars, userVars>>

RestoreFails ==
    /\ status = "rollback" /\ window # "none"
    /\ window' = "none"
    /\ Looked(window, TRUE)
    /\ UNCHANGED <<files, original, owned, gitVars, distVars, userVars>>

(* The end of a failed run: its report, and the retry it proposes.         *)
Report(bad) ==
    /\ status' = "idle" /\ outcome' = IF bad THEN "incomplete" ELSE "clean"
    /\ told' = (started \/ ~opts.build)
    /\ UNCHANGED <<step, opts, todo, problems, aborted, runs>>

RolledBack == status = "rollback" /\ window = "none" /\ todo = {}

(* Mutant: the tag is deleted by its name.                                 *)
DeleteTagByName ==
    /\ RolledBack /\ created # NoTag
    /\ tag' = NoTag
    /\ Report(problems)
    /\ UNCHANGED <<fileVars, head, head0, tag0, created, stray, dist, published, started, userVars>>

(* deleteReleaseTag: only the object the run made.                         *)
DeleteTag ==
    /\ RolledBack /\ created # NoTag /\ tag = created
    /\ tag' = NoTag
    /\ Report(problems)
    /\ UNCHANGED <<fileVars, head, head0, tag0, created, stray, dist, published, started, userVars>>

DeleteTagFails ==
    /\ RolledBack /\ created # NoTag
    /\ Report(TRUE)
    /\ UNCHANGED <<fileVars, gitVars, dist, published, started, userVars>>

NoTagToDelete ==
    /\ RolledBack /\ created = NoTag
    /\ Report(problems)
    /\ UNCHANGED <<fileVars, gitVars, dist, published, started, userVars>>
-----------------------------------------------------------------------------
(* The maintainer.  A signal is seen where the run awaits something.       *)
Awaits == \/ status \in {"preflight", "finish", "commit"}
          \/ status = "steps" /\ Now.op = "phase"

Signal ==
    /\ Awaits /\ ~aborted
    /\ aborted' = TRUE
    /\ UNCHANGED <<fileVars, status, step, opts, todo, problems, outcome, runs,
                   gitVars, distVars, userVars>>

(* An edit in the window of a rename is lost with it: no check sees it.    *)
EditFile(f) ==
    /\ status # "idle" /\ edits < MaxEdits
    /\ edits' = edits + 1
    /\ files' = [files EXCEPT ![f] = New + 1 + edits]
    /\ mine' = IF window = f THEN mine ELSE [mine EXCEPT ![f] = New + 1 + edits]
    /\ UNCHANGED <<original, owned, window, runVars, gitVars, distVars, local>>

MoveHead ==
    /\ edits < MaxEdits
    /\ edits' = edits + 1
    /\ head' = head + 1
    /\ UNCHANGED <<fileVars, runVars, tag, head0, tag0, created, stray, distVars, mine, local>>

MoveTag ==
    /\ edits < MaxEdits
    /\ edits' = edits + 1
    /\ tag' \in {NoTag, [by |-> 0, id |-> edits + 1, commit |-> head]} \ {tag}
    /\ UNCHANGED <<fileVars, runVars, head, head0, tag0, created, stray, distVars, mine, local>>

(* What a run left in the files is taken out by hand.                      *)
Resolve ==
    /\ status = "idle" /\ outcome \in {"incomplete", "crashed"}
    /\ \E f \in Files : files[f] \in {Half, New}
    /\ files' = [f \in Files |-> IF files[f] \in {Half, New} THEN original[f] ELSE files[f]]
    /\ UNCHANGED <<original, owned, window, runVars, gitVars, distVars, userVars>>

(* The process is killed and rolls nothing back.                           *)
Crash ==
    /\ status # "idle"
    /\ status' = "idle" /\ outcome' = "crashed" /\ window' = "none"
    /\ told' = (started \/ ~opts.build)
    /\ UNCHANGED <<files, original, owned, step, opts, todo, problems, aborted, runs,
                   gitVars, dist, published, started, userVars>>
-----------------------------------------------------------------------------
Rollback ==
    \/ \E f \in todo : RestoreConflicts(f) \/ RestoreKeeps(f) \/ RestoreChecks(f)
    \/ RestoreReplaces \/ RestoreFails
    \/ DeleteTag \/ DeleteTagFails \/ NoTagToDelete

Run ==
    \/ Preflight \/ PreflightRefuses \/ StepAborts
    \/ WriteChecks \/ WriteReplaces \/ WriteFails
    \/ BuildMac \/ BuildWindows \/ UpdateManifest
    \/ UploadStarts \/ \E a \in Artifacts : UploadOne(a)
    \/ UploadEnds \/ PhaseEnds \/ PhaseFails
    \/ Revalidate \/ CreateTag \/ CreateTagFails \/ Commit \/ CommitFails
    \/ Rollback

Maintainer ==
    \/ \E o \in [build : BOOLEAN, upload : BOOLEAN] : Start(o)
    \/ Signal \/ MoveHead \/ MoveTag \/ Resolve \/ Crash
    \/ \E f \in Files : EditFile(f)

Next == Run \/ Maintainer

Spec == Init /\ [][Next]_vars

FairSpec == Spec /\ WF_vars(Run)
-----------------------------------------------------------------------------
TypeOK ==
    /\ files \in [Files -> Contents] /\ original \in [Files -> Contents]
    /\ owned \in [Files -> Contents] /\ mine \in [Files -> Contents]
    /\ window \in Files \union {"none"}
    /\ status \in {"idle", "preflight", "steps", "finish", "tagging", "commit", "rollback"}
    /\ step \in 1..Len(Steps) /\ opts \in [build : BOOLEAN, upload : BOOLEAN]
    /\ todo \subseteq Files
    /\ problems \in BOOLEAN /\ aborted \in BOOLEAN /\ stray \in BOOLEAN
    /\ started \in BOOLEAN /\ told \in BOOLEAN
    /\ outcome \in {"none", "refused", "clean", "incomplete", "done", "crashed"}
    /\ tag \in Tags /\ tag0 \in Tags /\ created \in Tags
    /\ head \in Nat /\ head0 \in Nat /\ runs \in Nat /\ edits \in Nat
    /\ dist \in [Artifacts -> Nat] /\ published \in [Artifacts -> Nat]
    /\ local \subseteq Nat

(* What the maintainer writes to a managed file during a run stays, unless *)
(* it landed between the check of a write and its rename: no bump, phase   *)
(* or rollback overwrites it.                                              *)
EditsSurvive == \A f \in Files : mine[f] # 0 => files[f] = mine[f]

(* A run that reports a clean failure left no file as it wrote it, and no  *)
(* tag of its own that git admitted to.                                    *)
FailureRestores ==
    outcome = "clean" =>
        /\ \A f \in Files : files[f] \in {original[f]} \union ({mine[f]} \ {0})
        /\ tag.by = runs => stray

(* A run that succeeds was not interrupted, left every file as released,   *)
(* and its tag names the commit it started at.  If it uploads, everything  *)
(* is public, and as dist/ has it unless a local run rebuilt that.         *)
CommitIsWhole ==
    outcome = "done" =>
        /\ ~aborted
        /\ \A f \in Files : files[f] = New
        /\ opts.upload => \A a \in Artifacts : /\ published[a] # 0
                                              /\ dist[a] \in {published[a]} \union local
        /\ tag.by # 0 => tag.commit = head0

(* A tag that the run did not make, whoever made it and whenever, is       *)
(* neither replaced nor deleted.                                           *)
TagsAreKept ==
    [][tag \notin {NoTag} /\ tag.by # runs /\ tag' # tag => edits' # edits]_vars

(* What is public is what dist/ still holds, so that a retry sends the     *)
(* same bytes, unless a run with --skip-upload rebuilt it: the preflight   *)
(* asks only runs that both build and upload (release.ts 549).  So far,    *)
(* and no further, does the code keep docs/development.md 87, which has    *)
(* the preflight block every rebuild of a public candidate.                *)
PublicBytesAreKept ==
    \A a \in Artifacts : published[a] # 0 => dist[a] \in {published[a]} \union local

(* A run ends, whatever fails in it and in its rollback.                   *)
ReleaseEnds == status # "idle" ~> status = "idle"
=============================================================================
