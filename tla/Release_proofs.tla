-------------------------- MODULE Release_proofs --------------------------
(***************************************************************************)
(* For any number of runs and of edits beside them: a release overwrites   *)
(* no edit and no tag but its own, a clean failure leaves nothing behind,  *)
(* a run is finite and what is public stays in dist/ until a run that      *)
(* uploads nothing rebuilds it.                                            *)
(***************************************************************************)
EXTENDS Release, TLAPS

Restored(f) == files[f] = original[f] \/ (mine[f] # 0 /\ files[f] = mine[f])

(* An edit is newer than all the run knows of the file, so that a file     *)
(* which holds one never passes the check before a write.                  *)
EditsAreNew ==
    /\ \A f \in Files :
        /\ files[f] <= New + edits /\ original[f] <= New + edits
        /\ original[f] \notin {Half, New} /\ owned[f] \in {original[f], Half, New}
        /\ mine[f] # 0 => files[f] = mine[f] /\ mine[f] > New /\ mine[f] > original[f]
    /\ window # "none" => mine[window] = 0

(* Where a write is under way, and what the rollback has dealt with.       *)
WindowIsOpen ==
    /\ status \notin {"steps", "rollback"} => window = "none"
    /\ status = "steps" /\ window # "none" => Now.op = "write" /\ window = Now.what
    /\ status = "rollback" /\ window # "none" => window \in todo

RollbackRestores ==
    /\ outcome # "none" => status = "idle"
    /\ status = "rollback" /\ ~problems => \A f \in Files \ todo : Restored(f)
    /\ outcome = "clean" => \A f \in Files : Restored(f)

(* The run knows the tag it made, unless git hid it.                       *)
OwnTagIsKnown ==
    /\ status # "idle" \/ outcome # "none" => runs > 0
    /\ created # NoTag => runs > 0 /\ created.by = runs
    /\ tag.by <= runs
    /\ runs > 0 /\ tag.by = runs => tag = created \/ stray
    /\ outcome = "clean" => (tag.by = runs => stray)
    /\ tag.by # 0 => tag.commit = head0

IInv == TypeOK /\ EditsAreNew /\ WindowIsOpen /\ RollbackRestores /\ OwnTagIsKnown
-----------------------------------------------------------------------------
(* The steps of a release, one by one.                                     *)
LEMMA StepList ==
    /\ Len(Steps) = 13
    /\ Steps[1] = Write("dao", New) /\ Steps[2] = Write("notes", New)
    /\ Steps[3] = Phase("mac") /\ Steps[4] = Phase("windows")
    /\ Steps[5] = Phase("update-manifest") /\ Steps[6] = Write("feed", New)
    /\ Steps[7] = Phase("appcast") /\ Steps[8] = Write("appcast", New)
    /\ Steps[9] = Phase("upload") /\ Steps[10] = Phase("metadata")
    /\ Steps[11] = Write("info", Half) /\ Steps[12] = Write("info", New)
    /\ Steps[13] = Phase("tag")
BY DEF Steps

LEMMA StepFacts ==
    ASSUME NEW i \in 1..Len(Steps)
    PROVE  /\ i \in 1..13
           /\ Steps[i].op = "write" => Steps[i].what \in Files /\ Steps[i].value \in {Half, New}
           /\ Steps[i].op = "write" <=> i \in {1, 2, 6, 8, 11, 12}
           /\ Steps[i].op = "write" => Steps[i].what # "none"
           /\ Steps[i].op = "phase" /\ Steps[i].what = "upload" => i = 9
           /\ Steps[i].op = "phase" /\ Steps[i].what \in {"mac", "windows", "update-manifest"}
                => i \in {3, 4, 5}
BY StepList DEF Write, Phase, Files, Half, New

LEMMA WriteSteps ==
    ASSUME NEW i \in 1..Len(Steps), Steps[i].op = "write"
    PROVE  /\ i = 1 => Steps[i].what = "dao" /\ Steps[i].value = New
           /\ i = 2 => Steps[i].what = "notes" /\ Steps[i].value = New
           /\ i = 6 => Steps[i].what = "feed" /\ Steps[i].value = New
           /\ i = 8 => Steps[i].what = "appcast" /\ Steps[i].value = New
           /\ i = 11 => Steps[i].what = "info"
           /\ i = 12 => Steps[i].what = "info" /\ Steps[i].value = New
BY StepList DEF Write, Phase

(* The next step of a run that goes on.                                    *)
LEMMA NextStepFacts ==
    ASSUME step \in 1..Len(Steps), status = "steps", NextStep
    PROVE  /\ step' \in 1..Len(Steps) /\ status' \in {"steps", "finish"}
           /\ status' = "steps" => step' = step + 1
           /\ status' = "finish" => step = 13
           /\ UNCHANGED <<opts, todo, problems, outcome, aborted, runs>>
BY StepList DEF NextStep
-----------------------------------------------------------------------------
(* The two kinds of steps: those of a run that touch no managed file and   *)
(* no tag, and the others, by name.                                        *)
Quiet ==
    \/ Preflight \/ PreflightRefuses
    \/ BuildMac \/ BuildWindows \/ UpdateManifest
    \/ UploadStarts \/ UploadEnds \/ PhaseEnds
    \/ \E a \in Artifacts : UploadOne(a)

Failing == StepAborts \/ PhaseFails \/ CommitFails

LEMMA StepCases ==
    ASSUME Next
    PROVE  \/ \E o \in [build : BOOLEAN, upload : BOOLEAN] : Start(o)
           \/ Quiet \/ Failing
           \/ WriteChecks \/ WriteReplaces \/ WriteFails
           \/ Revalidate \/ CreateTag \/ CreateTagFails \/ Commit
           \/ \E f \in todo : RestoreConflicts(f) \/ RestoreKeeps(f) \/ RestoreChecks(f)
           \/ RestoreReplaces \/ RestoreFails
           \/ DeleteTag \/ DeleteTagFails \/ NoTagToDelete
           \/ Signal \/ MoveHead \/ MoveTag \/ Resolve \/ Crash
           \/ \E f \in Files : EditFile(f)
BY DEF Next, Run, Rollback, Maintainer, Quiet, Failing

(* What a quiet step does to the run.                                      *)
LEMMA QuietFacts ==
    ASSUME TypeOK, Quiet
    PROVE  /\ UNCHANGED <<fileVars, gitVars, userVars, opts, todo, problems, aborted, runs>>
           /\ status = "preflight" \/ (status = "steps" /\ Now.op = "phase")
           /\ \/ status' \in {"steps", "finish"} /\ UNCHANGED outcome
              \/ status' = "idle" /\ outcome' = "refused"
           /\ step' \in 1..Len(Steps)
           /\ dist' \in [Artifacts -> Nat] /\ published' \in [Artifacts -> Nat]
           /\ told' \in BOOLEAN /\ started' \in BOOLEAN
<1>1. CASE Preflight
  BY <1>1 DEF Preflight, TypeOK, fileVars, gitVars, distVars, userVars
<1>5. CASE PreflightRefuses
  <2>1. told' \in BOOLEAN
    BY <1>5, Zenon DEF PreflightRefuses
  <2> QED
    BY <1>5, <2>1 DEF PreflightRefuses, TypeOK, fileVars, gitVars, userVars
<1>2. CASE BuildMac \/ BuildWindows \/ UpdateManifest
  <2>1. PICK a \in Artifacts : status = "steps" /\ Now.op = "phase" /\ Builds(a)
    BY <1>2 DEF BuildMac, BuildWindows, UpdateManifest, AtPhase, Artifacts
  <2>2. NextStep
    BY <2>1 DEF Builds
  <2>3. dist' \in [Artifacts -> Nat]
    BY <2>1 DEF Builds, TypeOK
  <2> QED
    BY <2>1, <2>2, <2>3, NextStepFacts DEF Builds, TypeOK, fileVars, gitVars, userVars
<1>3. CASE UploadEnds \/ PhaseEnds
  <2>1. status = "steps" /\ Now.op = "phase" /\ NextStep
    BY <1>3 DEF UploadEnds, PhaseEnds, AtPhase
  <2> QED
    BY <1>3, <2>1, NextStepFacts DEF UploadEnds, PhaseEnds, TypeOK, fileVars, gitVars, userVars, distVars
<1>4. CASE UploadStarts \/ \E a \in Artifacts : UploadOne(a)
  BY <1>4 DEF UploadStarts, UploadOne, AtPhase, TypeOK, fileVars, runVars, gitVars, userVars
<1> QED
  BY <1>1, <1>2, <1>3, <1>4, <1>5 DEF Quiet

LEMMA NoTagIsATag == NoTag \in Tags /\ NoTag.by = 0
BY DEF NoTag, Tags

LEMMA TypesInit == Init => TypeOK
<1> SUFFICES ASSUME Init PROVE TypeOK
  OBVIOUS
<1>1. files \in [Files -> Nat] /\ original = files /\ owned = files /\ mine = files
  BY DEF Init
<1>2. dist \in [Artifacts -> Nat] /\ published = dist
  BY DEF Init
<1>3. step \in 1..Len(Steps) /\ opts \in [build : BOOLEAN, upload : BOOLEAN]
  BY StepList DEF Init
<1> QED
  BY <1>1, <1>2, <1>3, NoTagIsATag DEF Init, TypeOK, Contents

(* The assignments of a start, without what it waits for.                  *)
StartFacts(o) ==
    /\ original' = files /\ owned' = files /\ mine' = [f \in Files |-> 0]
    /\ head0' = head /\ tag0' = tag /\ created' = NoTag /\ stray' = FALSE
    /\ status' = "preflight" /\ step' = 1 /\ opts' = o
    /\ todo' = {} /\ problems' = FALSE /\ aborted' = FALSE /\ started' = FALSE
    /\ runs' = runs + 1 /\ outcome' = "none"
    /\ UNCHANGED <<files, window, head, tag, dist, published, told, edits>>

LEMMA StartSets == ASSUME NEW o, Start(o) PROVE StartFacts(o)
BY Zenon DEF Start, StartFacts

LEMMA TypesStep == TypeOK /\ [Next]_vars => TypeOK'
<1> SUFFICES ASSUME TypeOK, [Next]_vars PROVE TypeOK'
  OBVIOUS
<1> USE DEF TypeOK, Contents
<1>0. CASE UNCHANGED vars
  BY <1>0 DEF vars, fileVars, runVars, gitVars, distVars, userVars
<1>1. ASSUME NEW o \in [build : BOOLEAN, upload : BOOLEAN], Start(o) PROVE TypeOK'
  <2>1. mine' \in [Files -> Nat]
    BY <1>1 DEF Start
  <2>2. StartFacts(o)
    BY <1>1, StartSets
  <2>3. step' \in 1..Len(Steps)
    BY <2>2, StepList DEF StartFacts
  <2>4. created' \in Tags /\ tag0' \in Tags /\ opts' \in [build : BOOLEAN, upload : BOOLEAN]
    BY <2>2, NoTagIsATag, Zenon DEF StartFacts
  <2>5. runs' \in Nat /\ todo' \subseteq Files
    BY <2>2 DEF StartFacts
  <2>6. local' \subseteq Nat
    BY <1>1 DEF Start
  <2> QED
    BY <2>1, <2>2, <2>3, <2>4, <2>5, <2>6, ZenonT(30) DEF StartFacts
<1>2. CASE Quiet
  BY <1>2, QuietFacts DEF fileVars, gitVars, userVars
<1>3. CASE Failing \/ WriteFails \/ Revalidate \/ Commit
  BY <1>3 DEF Failing, StepAborts, PhaseFails, CommitFails, WriteFails, Revalidate, Commit,
              Fail, GoOn, fileVars, gitVars, distVars, userVars
<1>4. CASE WriteChecks
  <2>1. Now.what \in Files
    BY <1>4, StepFacts DEF WriteChecks, Now
  <2> QED
    BY <1>4, <2>1 DEF WriteChecks, runVars, gitVars, distVars, userVars
<1>5. CASE WriteReplaces
  <2>1. NextStep /\ status = "steps"
    BY <1>5 DEF WriteReplaces
  <2>2. Now.value \in Nat
    BY StepList DEF Now, Write, Phase, Half, New
  <2> QED
    BY <1>5, <2>1, <2>2, NextStepFacts DEF WriteReplaces, gitVars, distVars, userVars
<1>6. CASE CreateTag \/ CreateTagFails
  <2>1. OwnTag \in Tags
    BY DEF OwnTag, Tags
  <2> QED
    BY <1>6, <2>1 DEF CreateTag, CreateTagFails, Fail, GoOn, fileVars, distVars, userVars
<1>7. ASSUME NEW f \in todo, RestoreConflicts(f) \/ RestoreKeeps(f) \/ RestoreChecks(f)
      PROVE  TypeOK'
  BY <1>7 DEF RestoreConflicts, RestoreKeeps, RestoreChecks, Looked,
              fileVars, runVars, gitVars, distVars, userVars
<1>8. CASE RestoreReplaces \/ RestoreFails
  BY <1>8 DEF RestoreReplaces, RestoreFails, Looked, gitVars, distVars, userVars
<1>9. CASE DeleteTag \/ DeleteTagFails \/ NoTagToDelete
  <2>1. PICK bad \in BOOLEAN : Report(bad)
    BY <1>9 DEF DeleteTag, DeleteTagFails, NoTagToDelete
  <2>2. told' \in BOOLEAN
    BY <2>1, Zenon DEF Report
  <2> QED
    BY <1>9, <2>1, <2>2, NoTagIsATag
       DEF DeleteTag, DeleteTagFails, NoTagToDelete, Report, fileVars, gitVars, userVars
<1>10. CASE Signal
  BY <1>10 DEF Signal, fileVars, gitVars, distVars, userVars
<1>11. CASE MoveHead \/ MoveTag
  <2>1. tag' \in Tags
    BY <1>11, NoTagIsATag DEF MoveHead, MoveTag, Tags
  <2>2. head' \in Nat /\ edits' \in Nat
    BY <1>11 DEF MoveHead, MoveTag
  <2>3. /\ UNCHANGED <<fileVars, runVars, head0, tag0, created, stray>>
        /\ UNCHANGED <<distVars, mine, local>>
    BY <1>11, Zenon DEF MoveHead, MoveTag
  <2> QED
    BY <2>1, <2>2, <2>3 DEF fileVars, runVars, distVars
<1>12. CASE Resolve
  BY <1>12 DEF Resolve, runVars, gitVars, distVars, userVars
<1>13. CASE Crash
  BY <1>13 DEF Crash, gitVars, userVars
<1>14. ASSUME NEW f \in Files, EditFile(f) PROVE TypeOK'
  BY <1>14 DEF EditFile, New, runVars, gitVars, distVars
<1> QED
  BY <1>0, <1>1, <1>2, <1>3, <1>4, <1>5, <1>6, <1>7, <1>8, <1>9, <1>10, <1>11, <1>12, <1>13,
     <1>14, StepCases
-----------------------------------------------------------------------------
LEMMA EditsInit == Init => EditsAreNew
BY DEF Init, EditsAreNew, Half, New

(* A file that holds what the run left in it holds no edit.                *)
LEMMA CheckedHoldsNoEdit ==
    ASSUME TypeOK, EditsAreNew, NEW f \in Files, files[f] = owned[f]
    PROVE  mine[f] = 0
<1>1. mine[f] \in Nat /\ original[f] \in Nat /\ files[f] \in Nat
  BY DEF TypeOK, Contents
<1>2. owned[f] \in {original[f], 1, 2} /\ (mine[f] # 0 => files[f] = mine[f] /\ mine[f] > 2 /\ mine[f] > original[f])
  BY DEF EditsAreNew, Half, New
<1> QED
  BY <1>1, <1>2

(* A write checks first, so that the file it replaces holds no edit.       *)
LEMMA EditsStep == TypeOK /\ EditsAreNew /\ WindowIsOpen /\ [Next]_vars => EditsAreNew'
<1> SUFFICES ASSUME TypeOK, EditsAreNew, WindowIsOpen, [Next]_vars PROVE EditsAreNew'
  OBVIOUS
<1> USE DEF TypeOK, Contents, EditsAreNew, Half, New
<1> DEFINE Same == UNCHANGED <<files, original, owned, window, edits, mine>>
<1>0. CASE Same
  BY <1>0
<1>1. ASSUME NEW o \in [build : BOOLEAN, upload : BOOLEAN], Start(o) PROVE EditsAreNew'
  <2>1. StartFacts(o)
    BY <1>1, StartSets
  <2>2. \A f \in Files : files[f] \notin {1, 2}
    BY <1>1, Zenon DEF Start, Half, New
  <2> QED
    BY <2>1, <2>2 DEF StartFacts
<1>2. CASE WriteChecks
  <2>1. Now.what \in Files /\ window' = Now.what
    BY <1>2, StepFacts DEF WriteChecks, Now
  <2>2. mine[Now.what] = 0
    BY <1>2, <2>1, CheckedHoldsNoEdit DEF WriteChecks
  <2> QED
    BY <1>2, <2>1, <2>2 DEF WriteChecks, userVars
<1>3. CASE WriteReplaces
  <2>1. window \in Files /\ Now.value \in {Half, New}
    BY <1>3, StepFacts DEF WriteReplaces, WindowIsOpen, Now
  <2> QED
    BY <1>3, <2>1 DEF WriteReplaces, userVars
<1>4. CASE WriteFails \/ RestoreFails
  BY <1>4 DEF WriteFails, RestoreFails, userVars
<1>5. ASSUME NEW f \in todo, RestoreChecks(f) PROVE EditsAreNew'
  <2>1. mine[f] = 0
    BY <1>5, CheckedHoldsNoEdit DEF RestoreChecks
  <2> QED
    BY <1>5, <2>1 DEF RestoreChecks, userVars
<1>6. CASE RestoreReplaces
  BY <1>6 DEF RestoreReplaces, userVars
<1>7. CASE MoveHead \/ MoveTag
  BY <1>7 DEF MoveHead, MoveTag, fileVars
<1>8. CASE Resolve
  BY <1>8 DEF Resolve, userVars
<1>9. CASE Crash
  BY <1>9 DEF Crash, userVars
<1>10. ASSUME NEW f \in Files, EditFile(f) PROVE EditsAreNew'
  <2>1. /\ edits' = edits + 1 /\ files' = [files EXCEPT ![f] = 3 + edits]
        /\ mine' = IF window = f THEN mine ELSE [mine EXCEPT ![f] = 3 + edits]
        /\ UNCHANGED <<original, owned, window>>
    BY <1>10 DEF EditFile
  <2>2. ASSUME NEW g \in Files, g # f PROVE files'[g] = files[g] /\ mine'[g] = mine[g]
    BY <2>1, <2>2
  <2>3. CASE window = f
    <3>1. mine' = mine /\ window' = f /\ mine[f] = 0 /\ files'[f] = 3 + edits
      BY <2>1, <2>3 DEF Files
    <3>2. mine'[window'] = 0
      BY <3>1
    <3>3. ASSUME NEW g \in Files
          PROVE  /\ files'[g] <= 2 + edits' /\ original'[g] <= 2 + edits'
                 /\ original'[g] \notin {1, 2} /\ owned'[g] \in {original'[g], 1, 2}
                 /\ mine'[g] # 0 => files'[g] = mine'[g] /\ mine'[g] > 2 /\ mine'[g] > original'[g]
      <4>1. edits' = edits + 1 /\ original'[g] = original[g] /\ owned'[g] = owned[g] /\ mine'[g] = mine[g]
        BY <2>1, <3>1
      <4>2. files'[g] = IF g = f THEN 3 + edits ELSE files[g]
        BY <2>2, <3>1
      <4> QED
        BY <3>1, <4>1, <4>2
    <3> QED
      BY <3>2, <3>3
  <2>4. CASE window # f
    <3>1. mine'[f] = 3 + edits /\ files'[f] = 3 + edits
      BY <2>1, <2>4
    <3>2. window' # "none" => mine'[window'] = 0
      BY <2>1, <2>2, <2>4
    <3> QED
      BY <2>1, <2>2, <3>1, <3>2
  <2> QED
    BY <2>3, <2>4
<1>11. CASE UNCHANGED vars
  BY <1>11, <1>0 DEF vars, fileVars, userVars
<1>12. CASE Quiet
  BY <1>12, <1>0, QuietFacts DEF fileVars, userVars
<1>13. CASE Failing \/ Revalidate \/ CreateTag \/ CreateTagFails \/ Commit \/ Signal
  BY <1>13, <1>0 DEF Failing, StepAborts, PhaseFails, CommitFails, Revalidate, CreateTag,
       CreateTagFails, Commit, Signal, fileVars, userVars
<1>14. ASSUME NEW f \in todo, RestoreConflicts(f) \/ RestoreKeeps(f) PROVE EditsAreNew'
  BY <1>14, <1>0 DEF RestoreConflicts, RestoreKeeps, fileVars, userVars
<1>15. CASE DeleteTag \/ DeleteTagFails \/ NoTagToDelete
  BY <1>15, <1>0 DEF DeleteTag, DeleteTagFails, NoTagToDelete, fileVars, userVars
<1> QED
  BY <1>1, <1>2, <1>3, <1>4, <1>5, <1>6, <1>7, <1>8, <1>9, <1>10, <1>11, <1>12, <1>13,
     <1>14, <1>15, StepCases

LEMMA WindowStep == TypeOK /\ WindowIsOpen /\ [Next]_vars => WindowIsOpen'
<1> SUFFICES ASSUME TypeOK, WindowIsOpen, [Next]_vars PROVE WindowIsOpen'
  OBVIOUS
<1> USE DEF WindowIsOpen
<1>0. ASSUME window' = "none" PROVE WindowIsOpen'
  BY <1>0
<1>1. ASSUME NEW o \in [build : BOOLEAN, upload : BOOLEAN], Start(o) PROVE WindowIsOpen'
  BY <1>1, <1>0, StartSets, Zenon DEF Start, StartFacts
<1>2. CASE WriteChecks
  BY <1>2 DEF WriteChecks, runVars, Now
<1>3. CASE WriteReplaces \/ WriteFails \/ RestoreReplaces \/ RestoreFails \/ Crash
  BY <1>3, <1>0 DEF WriteReplaces, WriteFails, RestoreReplaces, RestoreFails, Crash
<1>4. ASSUME NEW f \in todo, RestoreConflicts(f) \/ RestoreKeeps(f) PROVE WindowIsOpen'
  BY <1>4, <1>0 DEF RestoreConflicts, RestoreKeeps, fileVars
<1>5. ASSUME NEW f \in todo, RestoreChecks(f) PROVE WindowIsOpen'
  BY <1>5 DEF RestoreChecks, runVars
<1>6. CASE Quiet
  <2>1. window = "none"
    BY <1>6, QuietFacts DEF Now
  <2> QED
    BY <1>6, <2>1, <1>0, QuietFacts DEF fileVars
<1>7. CASE Failing
  BY <1>7 DEF Failing, StepAborts, PhaseFails, CommitFails, Fail, fileVars, TypeOK
<1>8. CASE Revalidate \/ CreateTag \/ CreateTagFails \/ Commit \/ DeleteTag \/ DeleteTagFails
           \/ NoTagToDelete
  BY <1>8, <1>0 DEF Revalidate, CreateTag, CreateTagFails, Commit, DeleteTag, DeleteTagFails,
       NoTagToDelete, RolledBack, fileVars
<1>9. CASE Signal \/ MoveHead \/ MoveTag \/ Resolve
  BY <1>9 DEF Signal, MoveHead, MoveTag, Resolve, fileVars, runVars, Now
<1>10. ASSUME NEW f \in Files, EditFile(f) PROVE WindowIsOpen'
  BY <1>10 DEF EditFile, runVars, Now
<1>11. CASE UNCHANGED vars
  BY <1>11 DEF vars, fileVars, runVars, Now
<1> QED
  BY <1>1, <1>2, <1>3, <1>4, <1>5, <1>6, <1>7, <1>8, <1>9, <1>10, <1>11, StepCases
-----------------------------------------------------------------------------
(* A file the rollback has dealt with is as it was, or as it was edited.   *)
LEMMA RollbackStep ==
    TypeOK /\ EditsAreNew /\ WindowIsOpen /\ RollbackRestores /\ [Next]_vars => RollbackRestores'
<1> SUFFICES ASSUME TypeOK, EditsAreNew, WindowIsOpen, RollbackRestores, [Next]_vars
             PROVE  RollbackRestores'
  OBVIOUS
<1> USE DEF TypeOK, Contents, RollbackRestores, Restored
<1>0. CASE UNCHANGED <<files, original, mine, status, problems, todo, outcome>>
  BY <1>0
<1>1. ASSUME status' # "idle", outcome' = "none", status' = "rollback" => todo' = Files
      PROVE  RollbackRestores'
  BY <1>1
<1>2. ASSUME NEW o \in [build : BOOLEAN, upload : BOOLEAN], Start(o) PROVE RollbackRestores'
  BY <1>2, <1>1, StartSets DEF StartFacts
<1>3. CASE Quiet
  BY <1>3, QuietFacts DEF fileVars, userVars
<1>4. CASE Failing \/ WriteFails \/ CreateTagFails
  BY <1>4, <1>1 DEF Failing, StepAborts, PhaseFails, CommitFails, WriteFails, CreateTagFails, Fail
<1>5. CASE WriteChecks \/ Signal
  BY <1>5 DEF WriteChecks, Signal, fileVars, runVars, userVars
<1>6. CASE WriteReplaces
  BY <1>6, <1>1, NextStepFacts DEF WriteReplaces
<1>7. CASE Revalidate \/ CreateTag
  BY <1>7, <1>1 DEF Revalidate, CreateTag, Fail, GoOn
<1>8. CASE Commit \/ Crash
  BY <1>8 DEF Commit, Crash
<1>9. ASSUME NEW f \in todo, RestoreConflicts(f) PROVE RollbackRestores'
  BY <1>9 DEF RestoreConflicts, Looked
<1>10. ASSUME NEW f \in todo, RestoreKeeps(f) PROVE RollbackRestores'
  <2>1. Restored(f) /\ todo' = todo \ {f} /\ problems' = (problems \/ FALSE)
    BY <1>10 DEF RestoreKeeps, Looked
  <2>2. UNCHANGED <<files, original, mine, status, outcome>>
    BY <1>10 DEF RestoreKeeps, Looked, fileVars, userVars
  <2> QED
    BY <2>1, <2>2
<1>11. ASSUME NEW f \in todo, RestoreChecks(f) PROVE RollbackRestores'
  BY <1>11, <1>0 DEF RestoreChecks, runVars, userVars
<1>12. CASE RestoreReplaces
  <2>1. /\ window \in Files /\ files' = [files EXCEPT ![window] = original[window]]
        /\ todo' = todo \ {window} /\ problems' = (problems \/ FALSE)
        /\ UNCHANGED <<original, mine, status, outcome>>
    BY <1>12 DEF RestoreReplaces, Looked, userVars
  <2>2. \A g \in Files : files'[g] = IF g = window THEN original[g] ELSE files[g]
    BY <2>1
  <2> QED
    BY <2>1, <2>2
<1>13. CASE RestoreFails
  BY <1>13 DEF RestoreFails, Looked
<1>14. CASE DeleteTag \/ DeleteTagFails \/ NoTagToDelete
  <2>1. todo = {} /\ status = "rollback" /\ UNCHANGED <<files, original, mine>>
    BY <1>14 DEF DeleteTag, DeleteTagFails, NoTagToDelete, RolledBack, fileVars, userVars
  <2>2. Report(problems) \/ Report(TRUE)
    BY <1>14 DEF DeleteTag, DeleteTagFails, NoTagToDelete
  <2>3. status' = "idle" /\ (outcome' = "clean" => ~problems)
    BY <2>2 DEF Report
  <2> QED
    BY <2>1, <2>3
<1>15. CASE MoveHead \/ MoveTag
  BY <1>15, <1>0 DEF MoveHead, MoveTag, fileVars, runVars
<1>16. CASE Resolve
  BY <1>16 DEF Resolve, runVars
<1>17. ASSUME NEW f \in Files, EditFile(f) PROVE RollbackRestores'
  <2>1. /\ files' = [files EXCEPT ![f] = New + 1 + edits]
        /\ mine' = IF window = f THEN mine ELSE [mine EXCEPT ![f] = New + 1 + edits]
        /\ status # "idle" /\ UNCHANGED <<original, window, status, problems, todo, outcome>>
    BY <1>17 DEF EditFile, runVars
  <2>2. \A g \in Files : g # f => files'[g] = files[g] /\ mine'[g] = mine[g]
    BY <2>1
  <2>3. window # f => mine'[f] = New + 1 + edits /\ files'[f] = New + 1 + edits
    BY <2>1
  <2>4. window = f /\ status = "rollback" => f \in todo
    BY DEF WindowIsOpen, Files
  <2> QED
    BY <2>1, <2>2, <2>3, <2>4 DEF New
<1>18. CASE UNCHANGED vars
  BY <1>18, <1>0 DEF vars, fileVars, runVars, userVars
<1> QED
  BY <1>2, <1>3, <1>4, <1>5, <1>6, <1>7, <1>8, <1>9, <1>10, <1>11, <1>12, <1>13, <1>14, <1>15,
     <1>16, <1>17, <1>18, StepCases

(* The tag belongs to the run exactly when the run recorded making it.     *)
LEMMA TagStep == TypeOK /\ RollbackRestores /\ OwnTagIsKnown /\ [Next]_vars => OwnTagIsKnown'
<1> SUFFICES ASSUME TypeOK, RollbackRestores, OwnTagIsKnown, [Next]_vars PROVE OwnTagIsKnown'
  OBVIOUS
<1> USE NoTagIsATag DEF TypeOK, OwnTagIsKnown
<1> DEFINE Same == UNCHANGED <<tag, created, stray, runs, head0>>
<1>1. ASSUME Same, runs > 0, outcome' # "clean" PROVE OwnTagIsKnown'
  BY <1>1
<1>2. ASSUME NEW o \in [build : BOOLEAN, upload : BOOLEAN], Start(o) PROVE OwnTagIsKnown'
  <2>1. tag # NoTag => tag.commit = head
    BY <1>2 DEF Start
  <2>2. /\ runs' = runs + 1 /\ created' = NoTag /\ tag' = tag /\ head0' = head
        /\ outcome' = "none"
    BY <1>2, StartSets DEF StartFacts
  <2>3. tag.by \in Nat
    BY DEF Tags
  <2> QED
    BY <2>1, <2>2, <2>3
<1>3. CASE Quiet
  <2>1. outcome' # "clean" /\ runs > 0
    BY <1>3, QuietFacts DEF RollbackRestores
  <2> QED
    BY <1>3, <2>1, <1>1, QuietFacts DEF gitVars
<1>4. CASE Failing \/ WriteFails \/ Revalidate \/ Commit
  <2>1. Same /\ status # "idle" /\ (UNCHANGED outcome \/ outcome' = "done")
    BY <1>4 DEF Failing, StepAborts, PhaseFails, CommitFails, WriteFails, Revalidate, Commit,
       Fail, GoOn, gitVars
  <2> QED
    BY <2>1, <1>1 DEF RollbackRestores
<1>5. CASE WriteChecks \/ WriteReplaces
  <2>1. status = "steps" /\ UNCHANGED gitVars /\ UNCHANGED <<outcome, runs>>
    BY <1>5, NextStepFacts DEF WriteChecks, WriteReplaces, runVars
  <2> QED
    BY <2>1, <1>1 DEF RollbackRestores, gitVars
<1>6. CASE CreateTag
  <2>1. runs > 0 /\ tag' = OwnTag /\ created' = OwnTag /\ UNCHANGED <<stray, runs, head0, outcome>>
    BY <1>6 DEF CreateTag, GoOn
  <2>2. OwnTag.by = runs /\ OwnTag.commit = head0
    BY DEF OwnTag
  <2>3. outcome' # "clean"
    BY <1>6, <2>1 DEF CreateTag, RollbackRestores
  <2> QED
    BY <2>1, <2>2, <2>3
<1>7. CASE CreateTagFails
  <2>1. runs > 0 /\ UNCHANGED <<created, runs, head0, outcome>>
    BY <1>7 DEF CreateTagFails, Fail
  <2>2. \/ UNCHANGED <<tag, stray>>
        \/ stray' = TRUE /\ tag' = OwnTag
    BY <1>7 DEF CreateTagFails
  <2>3. OwnTag.by = runs /\ OwnTag.commit = head0
    BY DEF OwnTag
  <2>4. outcome' # "clean"
    BY <1>7, <2>1 DEF CreateTagFails, RollbackRestores
  <2> QED
    BY <2>1, <2>2, <2>3, <2>4
<1>8. ASSUME NEW f \in todo, RestoreConflicts(f) \/ RestoreKeeps(f) \/ RestoreChecks(f)
      PROVE  OwnTagIsKnown'
  <2>1. Same /\ status = "rollback" /\ UNCHANGED outcome
    BY <1>8 DEF RestoreConflicts, RestoreKeeps, RestoreChecks, Looked, gitVars, runVars
  <2> QED
    BY <2>1, <1>1 DEF RollbackRestores
<1>9. CASE RestoreReplaces \/ RestoreFails
  <2>1. Same /\ status = "rollback" /\ UNCHANGED outcome
    BY <1>9 DEF RestoreReplaces, RestoreFails, Looked, gitVars
  <2> QED
    BY <2>1, <1>1 DEF RollbackRestores
<1>10. CASE DeleteTag
  <2>1. runs > 0 /\ tag' = NoTag /\ UNCHANGED <<created, stray, runs, head0>>
    BY <1>10 DEF DeleteTag, RolledBack, Report
  <2> QED
    BY <2>1
<1>11. CASE DeleteTagFails
  <2>1. Same /\ runs > 0 /\ outcome' = "incomplete"
    BY <1>11 DEF DeleteTagFails, RolledBack, Report, gitVars
  <2> QED
    BY <2>1, <1>1
<1>12. CASE NoTagToDelete
  <2>1. Same /\ runs > 0 /\ created = NoTag
    BY <1>12 DEF NoTagToDelete, RolledBack, Report, gitVars
  <2>2. tag.by = runs => stray
    BY <2>1
  <2> QED
    BY <2>1, <2>2
<1>13. CASE Signal \/ Resolve \/ MoveHead
  BY <1>13 DEF Signal, Resolve, MoveHead, gitVars, runVars
<1>14. CASE MoveTag
  <2>1. tag'.by = 0 /\ UNCHANGED <<created, stray, runs, head0, outcome, status>>
    BY <1>14 DEF MoveTag, runVars, NoTag
  <2> QED
    BY <2>1 DEF RollbackRestores
<1>15. CASE Crash
  BY <1>15, <1>1 DEF Crash, gitVars
<1>16. ASSUME NEW f \in Files, EditFile(f) PROVE OwnTagIsKnown'
  BY <1>16 DEF EditFile, gitVars, runVars
<1>17. CASE UNCHANGED vars
  BY <1>17 DEF vars, gitVars, runVars
<1> QED
  BY <1>2, <1>3, <1>4, <1>5, <1>6, <1>7, <1>8, <1>9, <1>10, <1>11, <1>12, <1>13, <1>14, <1>15,
     <1>16, <1>17, StepCases
-----------------------------------------------------------------------------
LEMMA IInvInit == Init => IInv
<1> SUFFICES ASSUME Init PROVE IInv
  OBVIOUS
<1>1. tag = NoTag /\ created = NoTag /\ runs = 0 /\ outcome = "none" /\ status = "idle"
  BY DEF Init
<1>2. OwnTagIsKnown
  BY <1>1, NoTagIsATag DEF OwnTagIsKnown
<1>3. WindowIsOpen /\ RollbackRestores
  BY DEF Init, WindowIsOpen, RollbackRestores
<1> QED
  BY <1>2, <1>3, TypesInit, EditsInit DEF IInv

(* What a release knows of its files and its tag, kept by every step of it *)
(* and of its maintainer.                                                  *)
THEOREM ReleaseInvariant == Spec => []IInv
<1>1. IInv /\ [Next]_vars => IInv'
  BY TypesStep, EditsStep, WindowStep, RollbackStep, TagStep DEF IInv
<1> QED
  BY <1>1, IInvInit, PTL DEF Spec

(* An edit made during a run outlives its writes, its phases and its       *)
(* rollback (writeFile and rollback compare before they replace).          *)
THEOREM EditsOutlive == Spec => []EditsSurvive
<1>1. IInv => EditsSurvive
  BY DEF IInv, EditsAreNew, EditsSurvive
<1> QED
  BY <1>1, ReleaseInvariant, PTL

(* A run that reports a clean failure has put back every file and deleted  *)
(* the tag it knows it made (rollback, deleteReleaseTag).                  *)
THEOREM FailuresRestore == Spec => []FailureRestores
<1>1. IInv => FailureRestores
  BY DEF IInv, RollbackRestores, Restored, OwnTagIsKnown, FailureRestores
<1> QED
  BY <1>1, ReleaseInvariant, PTL

(* No run replaces or deletes a tag that it did not make (createReleaseTag *)
(* expects none, deleteReleaseTag expects its own object).                 *)
THEOREM TagsStay == Spec => TagsAreKept
<1> DEFINE Act == tag \notin {NoTag} /\ tag.by # runs /\ tag' # tag => edits' # edits
<1>1. IInv /\ [Next]_vars => [Act]_vars
  <2> SUFFICES ASSUME IInv, Next, tag # NoTag, tag.by # runs, tag' # tag PROVE edits' # edits
    OBVIOUS
  <2>1. tag = created => FALSE
    BY DEF IInv, OwnTagIsKnown
  <2>2. Quiet => tag' = tag
    BY QuietFacts DEF IInv, gitVars
  <2>3. MoveTag => edits' # edits
    BY DEF MoveTag, IInv, TypeOK
  <2>4. ASSUME NEW o \in [build : BOOLEAN, upload : BOOLEAN], Start(o) PROVE FALSE
    BY <2>4, StartSets DEF StartFacts
  <2>5. CASE \/ Failing \/ WriteChecks \/ WriteReplaces \/ WriteFails
             \/ Revalidate \/ CreateTag \/ CreateTagFails \/ Commit
    BY <2>5 DEF Failing, StepAborts, PhaseFails, CommitFails, WriteChecks, WriteReplaces,
       WriteFails, Revalidate, CreateTag, CreateTagFails, Commit, gitVars
  <2>6. CASE \/ \E f \in todo : RestoreConflicts(f) \/ RestoreKeeps(f) \/ RestoreChecks(f)
             \/ RestoreReplaces \/ RestoreFails
    BY <2>6 DEF RestoreConflicts, RestoreKeeps, RestoreChecks, RestoreReplaces, RestoreFails, gitVars
  <2>7. CASE DeleteTag \/ DeleteTagFails \/ NoTagToDelete
    BY <2>1, <2>7 DEF DeleteTag, DeleteTagFails, NoTagToDelete, gitVars
  <2>8. CASE Signal \/ MoveHead \/ Resolve \/ Crash \/ \E f \in Files : EditFile(f)
    BY <2>8 DEF Signal, MoveHead, Resolve, Crash, EditFile, gitVars
  <2> QED
    BY <2>2, <2>3, <2>4, <2>5, <2>6, <2>7, <2>8, StepCases
<1> QED
  BY <1>1, ReleaseInvariant, PTL DEF Spec, TagsAreKept
-----------------------------------------------------------------------------
(* A run that uploads nothing is a local one.                              *)
LocalIsKnown == opts.upload = FALSE => runs \in local

(* Nothing is public while a run that will upload may replace it.          *)
NothingPublicYet ==
    /\ status = "steps" /\ step <= 5 /\ opts.build = TRUE /\ opts.upload = TRUE =>
         \A a \in Artifacts : published[a] = 0
    /\ PublicBytesAreKept

(* The options of a run and its number stay until the next one.            *)
LEMMA OptionsStay ==
    ASSUME TypeOK, [Next]_vars
    PROVE  \/ UNCHANGED <<opts, runs, local>>
           \/ \E o \in [build : BOOLEAN, upload : BOOLEAN] : Start(o)
<1>1. CASE Quiet
  BY <1>1, QuietFacts DEF userVars
<1>2. CASE Failing \/ WriteFails \/ Revalidate \/ CreateTag \/ CreateTagFails \/ Commit
  BY <1>2 DEF Failing, StepAborts, PhaseFails, CommitFails, WriteFails, Revalidate, CreateTag,
     CreateTagFails, Commit, Fail, GoOn, userVars
<1>3. CASE WriteChecks \/ Signal
  BY <1>3 DEF WriteChecks, Signal, runVars, userVars
<1>4. CASE WriteReplaces
  BY <1>4, NextStepFacts DEF WriteReplaces, TypeOK, userVars
<1>5. CASE \/ \E f \in todo : RestoreConflicts(f) \/ RestoreKeeps(f) \/ RestoreChecks(f)
           \/ RestoreReplaces \/ RestoreFails
  BY <1>5 DEF RestoreConflicts, RestoreKeeps, RestoreChecks, RestoreReplaces, RestoreFails,
     Looked, runVars, userVars
<1>6. CASE DeleteTag \/ DeleteTagFails \/ NoTagToDelete \/ Crash
  BY <1>6, Zenon DEF DeleteTag, DeleteTagFails, NoTagToDelete, Crash, Report, userVars
<1>7. CASE MoveHead \/ MoveTag \/ Resolve \/ \E f \in Files : EditFile(f)
  BY <1>7 DEF MoveHead, MoveTag, Resolve, EditFile, runVars, userVars
<1>8. CASE UNCHANGED vars
  BY <1>8 DEF vars, runVars, userVars
<1> QED
  BY <1>1, <1>2, <1>3, <1>4, <1>5, <1>6, <1>7, <1>8, StepCases

LEMMA LocalStep ==
    ASSUME TypeOK, LocalIsKnown, [Next]_vars
    PROVE  LocalIsKnown'
<1>1. ASSUME NEW o \in [build : BOOLEAN, upload : BOOLEAN], Start(o) PROVE LocalIsKnown'
  <2>1. opts' = o /\ runs' = runs + 1
    BY <1>1, StartSets DEF StartFacts
  <2>2. local' = IF o.upload THEN local ELSE local \union {runs + 1}
    BY <1>1, Zenon DEF Start
  <2>3. CASE o.upload = FALSE
    <3>1. local' = local \union {runs + 1}
      BY <2>2, <2>3, Zenon
    <3> QED
      BY <2>1, <3>1 DEF LocalIsKnown
  <2>4. CASE o.upload # FALSE
    BY <2>1, <2>4 DEF LocalIsKnown
  <2> QED
    BY <2>3, <2>4
<1>2. CASE UNCHANGED <<opts, runs, local>>
  BY <1>2 DEF LocalIsKnown
<1> QED
  BY <1>1, <1>2, OptionsStay, Zenon

LEMMA PublicStep ==
    ASSUME TypeOK, LocalIsKnown, NothingPublicYet, [Next]_vars
    PROVE  NothingPublicYet'
<1>local. local \subseteq local'
  <2>1. ASSUME NEW o \in [build : BOOLEAN, upload : BOOLEAN], Start(o) PROVE local \subseteq local'
    BY <2>1 DEF Start
  <2> QED
    BY <2>1, OptionsStay
<1>same. UNCHANGED <<dist, published>> => PublicBytesAreKept'
  BY <1>local DEF NothingPublicYet, PublicBytesAreKept
<1> USE DEF TypeOK, NothingPublicYet
<1>0. CASE /\ UNCHANGED <<dist, published, opts>>
           /\ status' = "steps" => status = "steps" /\ step' \in {step, step + 1}
  BY <1>0, <1>same
<1>1. ASSUME NEW o \in [build : BOOLEAN, upload : BOOLEAN], Start(o) PROVE NothingPublicYet'
  <2>1. opts' = o /\ status' = "preflight" /\ UNCHANGED <<dist, published>>
    BY <1>1, StartSets DEF StartFacts
  <2> QED
    BY <2>1, <1>same
<1>2. CASE Preflight
  <2>1. opts.build = TRUE /\ opts.upload = TRUE => \A a \in Artifacts : published[a] = 0
    BY <1>2, Zenon DEF Preflight
  <2>2. status' = "steps" /\ UNCHANGED <<dist, published, opts>>
    BY <1>2 DEF Preflight, distVars
  <2> QED
    BY <2>1, <2>2, <1>same
<1>3. CASE PreflightRefuses
  <2>1. status' = "idle" /\ UNCHANGED <<dist, published, opts>>
    BY <1>3, Zenon DEF PreflightRefuses
  <2> QED
    BY <2>1, <1>same
<1>4. CASE BuildMac \/ BuildWindows \/ UpdateManifest
  <2>1. PICK a \in Artifacts : status = "steps" /\ step \in {3, 4, 5} /\ Builds(a)
    BY <1>4, StepFacts DEF BuildMac, BuildWindows, UpdateManifest, AtPhase, Artifacts, Now
  <2>2. /\ status' \in {"steps", "finish"} /\ (status' = "steps" => step' = step + 1)
        /\ UNCHANGED <<opts, published>>
    BY <2>1, NextStepFacts DEF Builds
  <2>3. CASE opts.build = TRUE /\ opts.upload = TRUE
    <3>1. \A b \in Artifacts : published'[b] = 0
      BY <2>1, <2>2, <2>3
    <3> QED
      BY <2>2, <3>1 DEF PublicBytesAreKept
  <2>4. CASE opts.build = TRUE /\ opts.upload = FALSE
    <3>1. dist' = [dist EXCEPT ![a] = runs] /\ runs \in local'
      BY <2>1, <2>4, <1>local DEF Builds, LocalIsKnown
    <3>2. \A b \in Artifacts : dist'[b] = IF b = a THEN runs ELSE dist[b]
      BY <3>1
    <3>3. PublicBytesAreKept'
      BY <2>2, <3>1, <3>2, <1>local DEF PublicBytesAreKept
    <3> QED
      BY <2>2, <2>4, <3>3
  <2>5. CASE opts.build = FALSE
    <3>1. UNCHANGED dist
      BY <2>1, <2>5 DEF Builds
    <3> QED
      BY <2>2, <2>5, <3>1, <1>same
  <2> QED
    BY <2>3, <2>4, <2>5
<1>5. CASE UploadStarts
  BY <1>5, <1>0 DEF UploadStarts, AtPhase, runVars
<1>6. ASSUME NEW a \in Artifacts, UploadOne(a) PROVE NothingPublicYet'
  <2>1. step = 9 /\ UNCHANGED <<status, step, opts, dist>> /\ published' = [published EXCEPT ![a] = dist[a]]
    BY <1>6, StepFacts DEF UploadOne, AtPhase, runVars, Now
  <2>2. PublicBytesAreKept'
    BY <2>1, <1>local DEF PublicBytesAreKept
  <2> QED
    BY <2>1, <2>2
<1>7. CASE UploadEnds \/ PhaseEnds \/ WriteReplaces
  <2>1. status = "steps" /\ NextStep /\ UNCHANGED <<dist, published>>
    BY <1>7 DEF UploadEnds, PhaseEnds, WriteReplaces, AtPhase, distVars
  <2> QED
    BY <2>1, <1>0, NextStepFacts
<1>8. CASE Failing \/ WriteFails \/ Revalidate \/ CreateTag \/ CreateTagFails \/ Commit
  <2>1. status' # "steps" /\ UNCHANGED <<dist, published, opts>>
    BY <1>8 DEF Failing, StepAborts, PhaseFails, CommitFails, WriteFails, Revalidate, CreateTag,
       CreateTagFails, Commit, Fail, GoOn, distVars
  <2> QED
    BY <2>1, <1>same
<1>9. CASE WriteChecks \/ Signal
  BY <1>9, <1>0 DEF WriteChecks, Signal, distVars, runVars
<1>10. CASE \/ \E f \in todo : RestoreConflicts(f) \/ RestoreKeeps(f) \/ RestoreChecks(f)
            \/ RestoreReplaces \/ RestoreFails
  BY <1>10, <1>0 DEF RestoreConflicts, RestoreKeeps, RestoreChecks, RestoreReplaces, RestoreFails,
       Looked, distVars, runVars
<1>11. CASE DeleteTag \/ DeleteTagFails \/ NoTagToDelete \/ Crash
  <2>1. status' = "idle" /\ UNCHANGED <<dist, published, opts>>
    BY <1>11, Zenon DEF DeleteTag, DeleteTagFails, NoTagToDelete, Crash, Report
  <2> QED
    BY <2>1, <1>same
<1>12. CASE MoveHead \/ MoveTag \/ Resolve \/ \E f \in Files : EditFile(f)
  BY <1>12, <1>0 DEF MoveHead, MoveTag, Resolve, EditFile, distVars, runVars
<1>13. CASE UNCHANGED vars
  BY <1>13, <1>0 DEF vars, distVars, runVars
<1> QED
  BY <1>1, <1>2, <1>3, <1>4, <1>5, <1>6, <1>7, <1>8, <1>9, <1>10, <1>11, <1>12, <1>13,
     StepCases DEF Quiet

(* Whatever is started, stopped, killed and tried again, what is public is *)
(* what dist/ still holds, until a run with --skip-upload rebuilds it: the *)
(* preflight (assertUnpublishedReleaseArtifacts) covers all other runs.    *)
THEOREM PublicBytesStay == Spec => []PublicBytesAreKept
<1>1. Init => LocalIsKnown /\ NothingPublicYet
  BY DEF Init, LocalIsKnown, NothingPublicYet, PublicBytesAreKept
<1>2. IInv /\ LocalIsKnown /\ NothingPublicYet /\ [Next]_vars
        => LocalIsKnown' /\ NothingPublicYet'
  BY LocalStep, PublicStep DEF IInv
<1>3. NothingPublicYet => PublicBytesAreKept
  BY DEF NothingPublicYet
<1> QED
  BY <1>1, <1>2, <1>3, ReleaseInvariant, PTL DEF Spec
-----------------------------------------------------------------------------
(* What is behind a run when it has come past a step.                      *)
Past(i) == status \in {"finish", "tagging", "commit"} \/ (status = "steps" /\ step > i)

WrittenSoFar ==
    /\ Past(1) => owned["dao"] = New
    /\ Past(2) => owned["notes"] = New
    /\ Past(6) => owned["feed"] = New
    /\ Past(8) => owned["appcast"] = New
    /\ Past(12) => owned["info"] = New

AllPublic == \A a \in Artifacts : published[a] # 0

BehindTheRun ==
    /\ status = "preflight" => step = 1
    /\ WrittenSoFar
    /\ Past(9) /\ opts.upload = TRUE => AllPublic
    /\ outcome = "done" => /\ ~aborted /\ (\A f \in Files : files[f] = New)
                           /\ opts.upload = TRUE => AllPublic

LEMMA BehindStep ==
    ASSUME TypeOK, WindowIsOpen, RollbackRestores, BehindTheRun, [Next]_vars
    PROVE  BehindTheRun'
<1> USE DEF BehindTheRun
<1> DEFINE Goes == \/ status' = "finish" /\ status = "finish"
                   \/ status' \in {"tagging", "commit"} /\ status \in {"finish", "tagging", "commit"}
                   \/ status' = "steps" /\ status = "steps" /\ step' = step
<1>0. CASE status' \in {"idle", "rollback"} /\ outcome' # "done"
  BY <1>0 DEF Past, WrittenSoFar
<1>1. CASE Goes /\ UNCHANGED <<owned, published, opts>> /\ outcome' # "done"
  BY <1>1 DEF Past, WrittenSoFar, AllPublic
<1>2. ASSUME NEW o \in [build : BOOLEAN, upload : BOOLEAN], Start(o) PROVE BehindTheRun'
  BY <1>2, StartSets DEF StartFacts, Past, WrittenSoFar
<1>3. CASE Preflight
  <2>1. step = 1 /\ status' = "steps" /\ step' = step /\ outcome' # "done"
    BY <1>3 DEF Preflight, RollbackRestores
  <2> QED
    BY <2>1 DEF Past, WrittenSoFar
<1>4. CASE PreflightRefuses
  BY <1>4, <1>0, Zenon DEF PreflightRefuses
(* A step of the run that is not a write, other than the upload.           *)
<1>5. ASSUME status = "steps", NextStep, UNCHANGED <<owned, published>>,
             Now.op = "phase", step = 9 /\ opts.upload = TRUE => AllPublic
      PROVE  BehindTheRun'
  <2>1. step \notin {1, 2, 6, 8, 11, 12} /\ step \in 1..13 /\ outcome # "done"
    BY <1>5, StepFacts DEF Now, TypeOK, RollbackRestores
  <2>2. /\ status' \in {"steps", "finish"} /\ (status' = "steps" => step' = step + 1)
        /\ (status' = "finish" => step = 13) /\ outcome' = outcome /\ opts' = opts
    BY <1>5, NextStepFacts DEF TypeOK
  <2>3. \A i \in {1, 2, 6, 8, 12} : Past(i)' => Past(i)
    BY <1>5, <2>1, <2>2 DEF Past
  <2>4. Past(9)' => Past(9) \/ step = 9
    BY <1>5, <2>1, <2>2 DEF Past
  <2> QED
    BY <1>5, <2>1, <2>2, <2>3, <2>4 DEF WrittenSoFar, AllPublic
<1>6. CASE BuildMac \/ BuildWindows \/ UpdateManifest
  <2>1. PICK a \in Artifacts : status = "steps" /\ Now.op = "phase" /\ step # 9 /\ Builds(a)
    BY <1>6, StepFacts DEF BuildMac, BuildWindows, UpdateManifest, AtPhase, Artifacts, Now, TypeOK
  <2> QED
    BY <2>1, <1>5 DEF Builds, fileVars
<1>7. CASE PhaseEnds
  <2>1. status = "steps" /\ Now.op = "phase" /\ step # 9 /\ NextStep
    BY <1>7, StepList DEF PhaseEnds, AtPhase, Now, Phase
  <2> QED
    BY <1>7, <2>1, <1>5 DEF PhaseEnds, fileVars, distVars
<1>8. CASE UploadEnds
  <2>1. opts.upload = TRUE => AllPublic
    BY <1>8, Zenon DEF UploadEnds, AllPublic
  <2> QED
    BY <1>8, <2>1, <1>5 DEF UploadEnds, AtPhase, fileVars, distVars
<1>9. CASE UploadStarts
  BY <1>9, <1>1 DEF UploadStarts, AtPhase, fileVars, runVars, RollbackRestores
<1>10. ASSUME NEW a \in Artifacts, UploadOne(a) PROVE BehindTheRun'
  <2>1. step = 9 /\ status = "steps" /\ UNCHANGED <<status, step, outcome, owned, opts>>
    BY <1>10, StepFacts DEF UploadOne, AtPhase, runVars, fileVars, Now, TypeOK
  <2> QED
    BY <2>1 DEF Past, WrittenSoFar, RollbackRestores
<1>11. CASE WriteReplaces
  <2>1. /\ status = "steps" /\ NextStep /\ Now.op = "write" /\ window = Now.what
        /\ owned' = [owned EXCEPT ![Now.what] = Now.value] /\ UNCHANGED published
    BY <1>11 DEF WriteReplaces, WindowIsOpen, distVars
  <2>2. step \in 1..13 /\ step \in {1, 2, 6, 8, 11, 12} /\ outcome # "done"
    BY <2>1, StepFacts DEF Now, TypeOK, RollbackRestores
  <2>3. status' = "steps" /\ step' = step + 1 /\ outcome' = outcome /\ opts' = opts
    BY <2>1, <2>2, NextStepFacts DEF TypeOK
  <2>4. Now.what \in Files /\ \A f \in Files : owned'[f] = IF f = Now.what THEN Now.value ELSE owned[f]
    BY <2>1, StepFacts DEF TypeOK, Now, Contents
  <2>5. \A i \in {1, 2, 6, 8, 9, 12} : Past(i)' => Past(i) \/ step = i
    BY <2>1, <2>2, <2>3 DEF Past
  <2>6. /\ step = 1 => Now.what = "dao" /\ Now.value = New
        /\ step = 2 => Now.what = "notes" /\ Now.value = New
        /\ step = 6 => Now.what = "feed" /\ Now.value = New
        /\ step = 8 => Now.what = "appcast" /\ Now.value = New
        /\ step = 11 => Now.what = "info"
        /\ step = 12 => Now.what = "info" /\ Now.value = New
    BY <2>1, WriteSteps DEF Now, TypeOK
  <2>7. step = 11 => ~Past(12)'
    BY <2>3 DEF Past
  <2>8. WrittenSoFar'
    BY <2>2, <2>4, <2>5, <2>6, <2>7 DEF WrittenSoFar, Files
  <2> QED
    BY <2>1, <2>2, <2>3, <2>5, <2>8 DEF AllPublic
<1>12. CASE Failing \/ WriteFails \/ CreateTagFails
  BY <1>12, <1>0 DEF Failing, StepAborts, PhaseFails, CommitFails, WriteFails, CreateTagFails,
       Fail, RollbackRestores
<1>13. CASE Revalidate \/ CreateTag
  BY <1>13, <1>0, <1>1 DEF Revalidate, CreateTag, Fail, GoOn, fileVars, distVars, RollbackRestores
<1>14. CASE Commit
  <2>1. status = "commit" /\ status' = "idle" /\ ~aborted /\ files = owned
    BY <1>14 DEF Commit
  <2>2. UNCHANGED <<files, published, aborted, opts>>
    BY <1>14 DEF Commit, fileVars, distVars
  <2>3. \A f \in Files : files[f] = New
    BY <2>1 DEF Past, WrittenSoFar, Files
  <2>4. opts.upload = TRUE => AllPublic
    BY <2>1 DEF Past
  <2> QED
    BY <2>1, <2>2, <2>3, <2>4 DEF Past, WrittenSoFar, AllPublic
<1>15. CASE WriteChecks \/ Signal
  BY <1>15 DEF WriteChecks, Signal, Awaits, Past, WrittenSoFar, AllPublic, fileVars, runVars,
       distVars, RollbackRestores
<1>16. CASE \/ \E f \in todo : RestoreConflicts(f) \/ RestoreKeeps(f) \/ RestoreChecks(f)
            \/ RestoreReplaces \/ RestoreFails
  BY <1>16, <1>0 DEF RestoreConflicts, RestoreKeeps, RestoreChecks, RestoreReplaces, RestoreFails,
       Looked, runVars, RollbackRestores
<1>17. CASE DeleteTag \/ DeleteTagFails \/ NoTagToDelete \/ Crash
  BY <1>17, <1>0, Zenon DEF DeleteTag, DeleteTagFails, NoTagToDelete, Crash, Report
<1>18. CASE MoveHead \/ MoveTag
  BY <1>18 DEF MoveHead, MoveTag, Past, WrittenSoFar, AllPublic, fileVars, runVars, distVars
<1>19. CASE Resolve
  BY <1>19, <1>0 DEF Resolve, runVars
<1>20. ASSUME NEW f \in Files, EditFile(f) PROVE BehindTheRun'
  BY <1>20 DEF EditFile, Past, WrittenSoFar, AllPublic, runVars, distVars, RollbackRestores
<1>21. CASE UNCHANGED vars
  BY <1>21 DEF vars, Past, WrittenSoFar, AllPublic, fileVars, runVars, distVars
<1> QED
  BY <1>2, <1>3, <1>4, <1>6, <1>7, <1>8, <1>9, <1>10, <1>11, <1>12, <1>13, <1>14, <1>15, <1>16,
     <1>17, <1>18, <1>19, <1>20, <1>21, StepCases DEF Quiet

(* A run that succeeds was not interrupted, released every managed file    *)
(* and has its tag at the commit it checked (commit, revalidateRelease-    *)
(* Provenance); if it uploads, all is public, and as dist/ has it wherever *)
(* no local run rebuilt that.                                              *)
THEOREM CommitsAreWhole == Spec => []CommitIsWhole
<1>1. Init => LocalIsKnown /\ NothingPublicYet /\ BehindTheRun
  BY DEF Init, LocalIsKnown, NothingPublicYet, PublicBytesAreKept, BehindTheRun, WrittenSoFar, Past
<1>2. IInv /\ LocalIsKnown /\ NothingPublicYet /\ BehindTheRun /\ [Next]_vars
        => LocalIsKnown' /\ NothingPublicYet' /\ BehindTheRun'
  BY LocalStep, PublicStep, BehindStep DEF IInv
<1>3. IInv /\ NothingPublicYet /\ BehindTheRun => CommitIsWhole
  <2> SUFFICES ASSUME IInv, NothingPublicYet, BehindTheRun, outcome = "done" PROVE CommitIsWhole
    BY DEF CommitIsWhole
  <2>1. ~aborted /\ (\A f \in Files : files[f] = New)
    BY DEF BehindTheRun
  <2>2. opts.upload = TRUE =>
          \A a \in Artifacts : published[a] # 0 /\ dist[a] \in {published[a]} \union local
    BY DEF BehindTheRun, AllPublic, NothingPublicYet, PublicBytesAreKept
  <2>3. tag.by # 0 => tag.commit = head0
    BY DEF IInv, OwnTagIsKnown
  <2>4. opts.upload \in BOOLEAN
    BY DEF IInv, TypeOK
  <2> QED
    BY <2>1, <2>2, <2>3, <2>4, Zenon DEF CommitIsWhole
<1> QED
  BY <1>1, <1>2, <1>3, ReleaseInvariant, PTL DEF Spec
-----------------------------------------------------------------------------
(***************************************************************************)
(* A run is finite: what it has still to do gets less with every step of   *)
(* its own, and nothing the maintainer does adds to it.                    *)
(***************************************************************************)
One(b) == IF b THEN 1 ELSE 0

FilesLeft == One("dao" \in todo) + One("notes" \in todo) + One("feed" \in todo)
               + One("appcast" \in todo) + One("info" \in todo)

UploadsLeft == One(published["dmg"] = 0) + One(published["exe"] = 0)
                 + One(published["manifest"] = 0)

(* A rollback looks at every file and may rename twice; a write has two    *)
(* steps and the upload five.                                              *)
Left ==
    CASE status = "preflight" -> 94
      [] status = "steps"     -> 16 + 6 * (13 - step) + UploadsLeft
                                    + One(~started) + One(window = "none")
      [] status = "finish"    -> 15
      [] status = "tagging"   -> 14
      [] status = "commit"    -> 13
      [] status = "rollback"  -> 1 + 2 * FilesLeft + One(window = "none")
      [] OTHER                -> 0

LEMMA CountFacts ==
    /\ FilesLeft \in 0..5 /\ UploadsLeft \in 0..3
    /\ One(window = "none") \in {0, 1} /\ One(~started) \in {0, 1}
BY DEF FilesLeft, UploadsLeft, One

(* The measure, status by status.                                          *)
LeftIs ==
    /\ FilesLeft \in 0..5 /\ UploadsLeft \in 0..3
    /\ status = "preflight" => Left = 94
    /\ status = "steps" => /\ Left = 16 + 6 * (13 - step) + UploadsLeft
                                       + One(~started) + One(window = "none")
                           /\ Left \in 16..93
    /\ status = "finish" => Left = 15
    /\ status = "tagging" => Left = 14
    /\ status = "commit" => Left = 13
    /\ status = "rollback" => /\ Left = 1 + 2 * FilesLeft + One(window = "none")
                              /\ Left \in 1..12
    /\ status = "idle" => Left = 0
    /\ Left \in 0..94

LEMMA LeftFacts == TypeOK => LeftIs
<1> SUFFICES ASSUME TypeOK PROVE LeftIs
  OBVIOUS
<1>1. step \in 1..13
  BY StepList DEF TypeOK
<1>2. /\ status = "preflight" => Left = 94
      /\ status = "steps" => Left = 16 + 6 * (13 - step) + UploadsLeft
                                      + One(~started) + One(window = "none")
      /\ status = "finish" => Left = 15
      /\ status = "tagging" => Left = 14
      /\ status = "commit" => Left = 13
      /\ status = "rollback" => Left = 1 + 2 * FilesLeft + One(window = "none")
      /\ status = "idle" => Left = 0
  BY Zenon DEF Left
<1>3. status = "steps" => Left \in 16..93
  BY <1>1, <1>2, CountFacts
<1>4. status = "rollback" => Left \in 1..12
  BY <1>2, CountFacts
<1> QED
  BY <1>2, <1>3, <1>4, CountFacts DEF LeftIs, TypeOK

(* Which phase is which step.                                              *)
LEMMA PhaseFacts ==
    ASSUME TypeOK
    PROVE  /\ step \in 1..13
           /\ AtPhase("mac") => step = 3
           /\ AtPhase("windows") => step = 4
           /\ AtPhase("update-manifest") => step = 5
           /\ AtPhase("upload") => step = 9
           /\ \A p \in {"appcast", "metadata", "tag"} : AtPhase(p) => step \in {7, 10, 13}
           /\ Now.op = "write" => step \in {1, 2, 6, 8, 11, 12}
BY StepList DEF TypeOK, AtPhase, Now, Write, Phase

(* The upload finds everything there that it is to send.                   *)
BuiltSoFar ==
    /\ status = "preflight" => step = 1
    /\ status = "steps" =>
        /\ opts.build = TRUE /\ step > 3 => dist["dmg"] # 0
        /\ opts.build = TRUE /\ step > 4 => dist["exe"] # 0
        /\ step > 5 => \A a \in Artifacts : dist[a] # 0

LEMMA BuiltStep ==
    ASSUME IInv, BuiltSoFar, [Next]_vars
    PROVE  BuiltSoFar'
<1> TypeOK /\ (status = "steps" => runs \in Nat \ {0})
  BY DEF IInv, TypeOK, OwnTagIsKnown
<1>0. CASE /\ UNCHANGED <<dist, opts, step>>
           /\ status' \in {"preflight", "steps"} => status' = status
  BY <1>0 DEF BuiltSoFar
<1>1. CASE status' \notin {"preflight", "steps"}
  BY <1>1 DEF BuiltSoFar
(* A step that builds nothing.                                             *)
<1>2. ASSUME status = "steps", NextStep, UNCHANGED dist, step \notin {3, 4, 5}
      PROVE  BuiltSoFar'
  <2>1. /\ step \in 1..13 /\ status' \in {"steps", "finish"} /\ opts' = opts
        /\ status' = "steps" => step' = step + 1
    BY <1>2, NextStepFacts, PhaseFacts DEF TypeOK
  <2> QED
    BY <1>2, <2>1 DEF BuiltSoFar
<1>3. ASSUME NEW o \in [build : BOOLEAN, upload : BOOLEAN], Start(o) PROVE BuiltSoFar'
  BY <1>3, StartSets DEF StartFacts, BuiltSoFar
<1>4. CASE Preflight
  BY <1>4 DEF Preflight, BuiltSoFar
<1>5. ASSUME NEW a \in Artifacts, status = "steps", Builds(a),
             \/ a = "dmg" /\ step = 3
             \/ a = "exe" /\ step = 4
             \/ /\ a = "manifest" /\ step = 5
                /\ opts.build # TRUE => \A b \in Artifacts : dist[b] # 0
      PROVE  BuiltSoFar'
  <2>1. NextStep /\ dist' = IF opts.build = TRUE THEN [dist EXCEPT ![a] = runs] ELSE dist
    BY <1>5 DEF Builds, TypeOK
  <2>2. /\ status' \in {"steps", "finish"} /\ opts' = opts
        /\ status' = "steps" => step' = step + 1
    BY <1>5, <2>1, NextStepFacts DEF TypeOK
  <2>3. CASE opts.build = TRUE
    <3>1. \A b \in Artifacts : dist'[b] = IF b = a THEN runs ELSE dist[b]
      BY <2>1, <2>3 DEF TypeOK
    <3>2. runs # 0
      BY <1>5
    <3>3. CASE a = "dmg"
      BY <1>5, <2>2, <3>1, <3>2, <3>3 DEF BuiltSoFar, Artifacts
    <3>4. CASE a = "exe"
      BY <1>5, <2>2, <2>3, <3>1, <3>2, <3>4 DEF BuiltSoFar, Artifacts
    <3>5. CASE a = "manifest"
      <4>1. dist["dmg"] # 0 /\ dist["exe"] # 0
        BY <1>5, <2>3, <3>5 DEF BuiltSoFar
      <4> QED
        BY <1>5, <2>2, <3>1, <3>2, <3>5, <4>1 DEF BuiltSoFar, Artifacts
    <3> QED
      BY <3>3, <3>4, <3>5 DEF Artifacts
  <2>4. CASE opts.build # TRUE
    <3>1. dist' = dist
      BY <2>1, <2>4
    <3>2. opts'.build # TRUE /\ status' # "preflight"
      BY <2>2, <2>4
    <3>3. status' = "steps" /\ step' > 5 => \A b \in Artifacts : dist'[b] # 0
      BY <1>5, <2>2, <2>4, <3>1
    <3> QED
      BY <3>2, <3>3 DEF BuiltSoFar
  <2> QED
    BY <2>3, <2>4
<1>6. CASE BuildMac
  BY <1>5, <1>6, PhaseFacts DEF BuildMac, AtPhase, Artifacts
<1>7. CASE BuildWindows
  BY <1>5, <1>7, PhaseFacts DEF BuildWindows, AtPhase, Artifacts
<1>8. CASE UpdateManifest
  <2>1. status = "steps" /\ step = 5 /\ Builds("manifest")
    BY <1>8, PhaseFacts DEF UpdateManifest, AtPhase
  <2>2. opts.build # TRUE => \A b \in Artifacts : dist[b] # 0
    BY <1>8 DEF UpdateManifest, Artifacts, TypeOK
  <2> QED
    BY <1>5, <2>1, <2>2 DEF Artifacts
<1>9. CASE UploadEnds \/ PhaseEnds \/ WriteReplaces
  <2>1. status = "steps" /\ NextStep /\ UNCHANGED dist
    BY <1>9 DEF UploadEnds, PhaseEnds, WriteReplaces, AtPhase, distVars
  <2>2. step \notin {3, 4, 5}
    BY <1>9, PhaseFacts DEF UploadEnds, PhaseEnds, WriteReplaces, IInv, WindowIsOpen
  <2> QED
    BY <1>2, <2>1, <2>2
<1>10. CASE \/ PreflightRefuses \/ Failing \/ WriteFails \/ Revalidate \/ CreateTag
            \/ CreateTagFails \/ Commit \/ DeleteTag \/ DeleteTagFails \/ NoTagToDelete \/ Crash
  <2>1. status' \notin {"preflight", "steps"}
    BY <1>10, Zenon DEF PreflightRefuses, Failing, StepAborts, PhaseFails, CommitFails, WriteFails,
       Revalidate, CreateTag, CreateTagFails, Commit, Fail, GoOn, DeleteTag, DeleteTagFails,
       NoTagToDelete, Crash, Report
  <2> QED
    BY <1>1, <2>1
<1>11. CASE \/ UploadStarts \/ WriteChecks \/ Signal \/ MoveHead \/ MoveTag \/ Resolve
            \/ \E a \in Artifacts : UploadOne(a)
            \/ \E f \in Files : EditFile(f)
            \/ \E f \in todo : RestoreConflicts(f) \/ RestoreKeeps(f) \/ RestoreChecks(f)
            \/ RestoreReplaces \/ RestoreFails
  BY <1>0, <1>11 DEF UploadStarts, UploadOne, WriteChecks, Signal, MoveHead, MoveTag, Resolve,
     EditFile, RestoreConflicts, RestoreKeeps, RestoreChecks, RestoreReplaces, RestoreFails,
     Looked, runVars, distVars
<1>12. CASE UNCHANGED vars
  BY <1>0, <1>12 DEF vars, runVars, distVars
<1> QED
  BY <1>3, <1>4, <1>6, <1>7, <1>8, <1>9, <1>10, <1>11, <1>12, StepCases DEF Quiet

LEMMA RunCases ==
    ASSUME Run
    PROVE  \/ Preflight \/ PreflightRefuses \/ Failing
           \/ WriteChecks \/ WriteReplaces \/ WriteFails
           \/ BuildMac \/ BuildWindows \/ UpdateManifest
           \/ UploadStarts \/ \E a \in Artifacts : UploadOne(a)
           \/ UploadEnds \/ PhaseEnds
           \/ Revalidate \/ CreateTag \/ CreateTagFails \/ Commit
           \/ \E f \in todo : RestoreConflicts(f) \/ RestoreKeeps(f) \/ RestoreChecks(f)
           \/ RestoreReplaces \/ RestoreFails
           \/ DeleteTag \/ DeleteTagFails \/ NoTagToDelete
BY DEF Run, Rollback, Failing

LEMMA FileLooked ==
    ASSUME NEW f \in todo, todo \subseteq Files, todo' = todo \ {f}
    PROVE  FilesLeft' = FilesLeft - 1
<1>1. f \in {"dao", "notes", "feed", "appcast", "info"}
  BY DEF Files
<1> QED
  BY <1>1 DEF FilesLeft, One

LEMMA ArtifactSent ==
    ASSUME TypeOK, NEW a \in Artifacts, published[a] = 0, dist[a] # 0,
           published' = [published EXCEPT ![a] = dist[a]]
    PROVE  UploadsLeft' = UploadsLeft - 1
<1>1. a \in {"dmg", "exe", "manifest"} /\ \A b \in Artifacts :
        published'[b] = IF b = a THEN dist[a] ELSE published[b]
  BY DEF Artifacts, TypeOK
<1> QED
  BY <1>1 DEF UploadsLeft, One, Artifacts

(* A step of a run brings its end nearer.                                  *)
LEMMA RunGetsOn ==
    ASSUME IInv, IInv', BuiltSoFar, LeftIs, LeftIs', Run
    PROVE  Left' < Left
<1> TypeOK /\ TypeOK' /\ step \in 1..13 /\ WindowIsOpen
  BY PhaseFacts DEF IInv
<1>1. CASE Preflight
  BY <1>1 DEF Preflight, LeftIs
<1>2. CASE PreflightRefuses \/ DeleteTag \/ DeleteTagFails \/ NoTagToDelete \/ Commit
  <2>1. status' = "idle" /\ status \in {"preflight", "rollback", "commit"}
    BY <1>2, Zenon DEF PreflightRefuses, DeleteTag, DeleteTagFails, NoTagToDelete, Report, RolledBack,
       Commit
  <2> QED
    BY <2>1 DEF LeftIs
<1>3. CASE Failing \/ WriteFails \/ CreateTagFails
  <2>1. status' = "rollback" /\ status \in {"steps", "commit", "tagging"}
    BY <1>3 DEF Failing, StepAborts, PhaseFails, CommitFails, WriteFails, CreateTagFails, Fail
  <2> QED
    BY <2>1 DEF LeftIs
<1>4. CASE Revalidate \/ CreateTag
  <2>1. \/ status = "finish" /\ status' \in {"rollback", "tagging", "commit"}
        \/ status = "tagging" /\ status' = "commit"
    BY <1>4 DEF Revalidate, CreateTag, Fail, GoOn
  <2> QED
    BY <2>1 DEF LeftIs
(* A step of the list is over; a write leaves its window.                  *)
<1>5. ASSUME status = "steps", NextStep, UNCHANGED <<published, started>>
      PROVE  Left' < Left
  <2>1. /\ status' \in {"steps", "finish"} /\ (status' = "steps" => step' = step + 1)
        /\ UploadsLeft' = UploadsLeft /\ One(~started)' = One(~started)
    BY <1>5, NextStepFacts DEF TypeOK, UploadsLeft
  <2>2. One(window = "none") \in {0, 1} /\ One(window = "none")' \in {0, 1} /\ One(~started) \in {0, 1}
    BY DEF One
  <2> QED
    BY <1>5, <2>1, <2>2 DEF LeftIs
<1>6. CASE BuildMac \/ BuildWindows \/ UpdateManifest
  <2>1. \E a \in Artifacts : status = "steps" /\ Builds(a)
    BY <1>6 DEF BuildMac, BuildWindows, UpdateManifest, AtPhase, Artifacts
  <2> QED
    BY <2>1, <1>5 DEF Builds
<1>7. CASE WriteReplaces \/ UploadEnds \/ PhaseEnds
  BY <1>7, <1>5 DEF WriteReplaces, UploadEnds, PhaseEnds, AtPhase, distVars
<1>8. CASE WriteChecks
  <2>1. /\ status = "steps" /\ status' = status /\ step' = step
        /\ One(window = "none") = 1 /\ One(window = "none")' = 0
        /\ UploadsLeft' = UploadsLeft /\ One(~started)' = One(~started)
    BY <1>8, StepFacts DEF WriteChecks, runVars, distVars, One, UploadsLeft, Now, TypeOK
  <2>2. One(~started) \in {0, 1}
    BY DEF One
  <2> QED
    BY <2>1, <2>2 DEF LeftIs
<1>9. CASE UploadStarts
  <2>1. /\ status = "steps" /\ status' = status /\ step' = step
        /\ One(~started) = 1 /\ One(~started)' = 0
        /\ UploadsLeft' = UploadsLeft /\ One(window = "none")' = One(window = "none")
    BY <1>9 DEF UploadStarts, AtPhase, runVars, fileVars, One, UploadsLeft
  <2>2. One(window = "none") \in {0, 1}
    BY DEF One
  <2> QED
    BY <2>1, <2>2 DEF LeftIs
<1>10. ASSUME NEW a \in Artifacts, UploadOne(a) PROVE Left' < Left
  <2>1. /\ status = "steps" /\ status' = status /\ step' = step /\ step = 9
        /\ One(~started)' = One(~started) /\ One(window = "none")' = One(window = "none")
    BY <1>10, PhaseFacts DEF UploadOne, AtPhase, runVars, fileVars
  <2>2. UploadsLeft' = UploadsLeft - 1
    <3>1. dist[a] # 0
      BY <2>1 DEF BuiltSoFar
    <3>2. published[a] = 0 /\ published' = [published EXCEPT ![a] = dist[a]]
      BY <1>10 DEF UploadOne
    <3> QED
      BY <3>1, <3>2, ArtifactSent
  <2>3. One(window = "none") \in {0, 1} /\ One(~started) \in {0, 1}
    BY DEF One
  <2> QED
    BY <2>1, <2>2, <2>3 DEF LeftIs
<1>11. ASSUME NEW f \in todo, RestoreConflicts(f) \/ RestoreKeeps(f) PROVE Left' < Left
  <2>1. /\ status = "rollback" /\ status' = status /\ todo' = todo \ {f}
        /\ One(window = "none")' = One(window = "none")
    BY <1>11 DEF RestoreConflicts, RestoreKeeps, Looked, fileVars
  <2>2. FilesLeft' = FilesLeft - 1
    BY <2>1, FileLooked DEF TypeOK
  <2>3. One(window = "none") \in {0, 1}
    BY DEF One
  <2> QED
    BY <2>1, <2>2, <2>3 DEF LeftIs
<1>12. ASSUME NEW f \in todo, RestoreChecks(f) PROVE Left' < Left
  <2>1. /\ status = "rollback" /\ status' = status /\ todo' = todo
        /\ One(window = "none") = 1 /\ One(window = "none")' = 0
    BY <1>12 DEF RestoreChecks, runVars, One, TypeOK, Files
  <2>2. FilesLeft' = FilesLeft
    BY <2>1 DEF FilesLeft
  <2> QED
    BY <2>1, <2>2 DEF LeftIs
<1>13. CASE RestoreReplaces \/ RestoreFails
  <2>1. /\ status = "rollback" /\ status' = status /\ window \in todo /\ todo' = todo \ {window}
        /\ One(window = "none") = 0 /\ One(window = "none")' = 1
    BY <1>13 DEF RestoreReplaces, RestoreFails, Looked, One, WindowIsOpen
  <2>2. FilesLeft' = FilesLeft - 1
    BY <2>1, FileLooked DEF TypeOK
  <2> QED
    BY <2>1, <2>2 DEF LeftIs
<1> QED
  BY <1>1, <1>2, <1>3, <1>4, <1>6, <1>7, <1>8, <1>9, <1>10, <1>11, <1>12, <1>13, RunCases

Starts == \E o \in [build : BOOLEAN, upload : BOOLEAN] : Start(o)

(* The maintainer adds nothing to a run but by starting one.               *)
LEMMA MaintainerAddsNothing ==
    ASSUME IInv, IInv', LeftIs, LeftIs', Maintainer, ~Starts
    PROVE  Left' <= Left
<1>1. CASE Signal \/ MoveHead \/ MoveTag \/ \E f \in Files : EditFile(f)
  <2>1. UNCHANGED <<status, step, todo, published, started, window>>
    BY <1>1 DEF Signal, MoveHead, MoveTag, EditFile, runVars, fileVars, distVars
  <2>2. Left' = Left
    BY <2>1 DEF Left, FilesLeft, UploadsLeft
  <2> QED
    BY <2>2 DEF LeftIs
<1>2. CASE Resolve \/ Crash
  <2>1. status' = "idle"
    BY <1>2, Zenon DEF Resolve, Crash, runVars
  <2> QED
    BY <2>1 DEF LeftIs
<1> QED
  BY <1>1, <1>2 DEF Maintainer, Starts

(* A run takes at most 94 steps, whatever fails in it, in its rollback or  *)
(* beside it: nothing is written, uploaded or restored over and over       *)
(* (runRelease, uploadWindowsReleaseArtifacts, rollback).                  *)
THEOREM RunsAreFinite ==
    Spec => /\ [](Left \in 0..94)
            /\ [][/\ Run => Left' < Left
                  /\ ~Starts => Left' <= Left]_vars
<1>1. Init => BuiltSoFar
  BY DEF Init, BuiltSoFar
<1>2. IInv /\ BuiltSoFar /\ [Next]_vars => BuiltSoFar'
  BY BuiltStep
<1>3. IInv => LeftIs
  BY LeftFacts DEF IInv
<1>4. IInv' => LeftIs'
  BY <1>3, PTL
<1>5. IInv /\ IInv' /\ BuiltSoFar /\ [Next]_vars
        => [(Run => Left' < Left) /\ (~Starts => Left' <= Left)]_vars
  <2> SUFFICES ASSUME IInv, IInv', BuiltSoFar, Next
               PROVE  (Run => Left' < Left) /\ (~Starts => Left' <= Left)
    OBVIOUS
  <2>1. LeftIs /\ LeftIs'
    BY <1>3, <1>4
  <2>2. Run => Left' < Left
    BY <2>1, RunGetsOn
  <2>3. Left' \in 0..94 /\ Left \in 0..94
    BY <2>1 DEF LeftIs
  <2>4. ~Starts => Left' <= Left
    BY <2>1, <2>2, <2>3, MaintainerAddsNothing DEF Next
  <2> QED
    BY <2>2, <2>4
<1>6. LeftIs => Left \in 0..94
  BY DEF LeftIs
<1> QED
  BY <1>1, <1>2, <1>3, <1>5, <1>6, ReleaseInvariant, PTL DEF Spec
=============================================================================
