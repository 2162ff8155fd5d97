----------------------------- MODULE TuiSession -----------------------------
(***************************************************************************)
(* One head node on which the OpenCATTUS installer is started again and     *)
(* again: runApplication (src/src/main.cpp) and the questionnaire loop it   *)
(* drives (src/src/presenter/PresenterInstall.cpp), together with the two   *)
(* files it leaves behind: the draft answerfile and the completed output    *)
(* answerfile (src/src/services/tui_session.cpp).                           *)
(*                                                                          *)
(* The answers themselves are left to CONSTANT operators, so that what is   *)
(* proved here holds whatever the questionnaire asks.  ClusterModel.tla     *)
(* defines them for the thirteen steps of the program.                      *)
(***************************************************************************)
EXTENDS Integers, Sequences

CONSTANTS
    Steps,              \* the questionnaire's steps, in order
    EmptyModel,         \* a default-constructed Cluster
    NoAnswers,          \* what the operator has said before the first step
    Launches,           \* the command lines the installer is started with
    MaxRuns,            \* bound: how often it is started
    Answers(_),         \* the answers an operator can give at a step
    AnswerStep(_,_,_,_),\* results of completing step s with answer a
    Interrupted(_,_,_), \* what a step that is left half way has changed
    ApplyDraft(_,_,_),  \* results of applyDraftToModel
    FillData(_,_),      \* results of fillData from an accepted answerfile
    FillThrows(_,_),    \* fillData can throw
    Acceptable(_),      \* the AnswerFile constructor accepts the dump
    Revise(_,_,_)       \* the operator's own record of the answers

\* The steps are a non-empty list of different names (PresenterInstall.cpp
\* 168-231).
ASSUME StepsAssumption ==
    /\ Steps \in Seq(STRING)
    /\ Len(Steps) > 0
    /\ \A i, j \in 1..Len(Steps) : Steps[i] = Steps[j] => i = j

\* A command line says whether the questionnaire runs, which file --answerfile
\* names, and whether --dry-run and --dump-answerfile are given.
ASSUME LaunchesAssumption ==
    Launches \subseteq [tui : BOOLEAN, answerfile : {"none", "draft", "output"},
                        dryRun : BOOLEAN, dump : BOOLEAN]

\* Without --answerfile the questionnaire always runs (main.cpp 252-283).
ASSUME InteractiveAssumption ==
    \A o \in Launches : o.answerfile = "none" => o.tui

ASSUME MaxRunsAssumption == MaxRuns \in Nat

VARIABLES
    phase,      \* where the process is, "off" when there is none
    opts,       \* its command line
    model,      \* the Cluster it is filling in
    pending,    \* the ISO download the model still waits for, FALSE if none
    stepIndex,  \* PresenterInstall's stepIndex
    history,    \* PresenterInstall's completedHistory
    completed,  \* runApplication's completedSteps
    save,       \* the writeDraft call in progress
    files,      \* the draft file and the output file
    exit,       \* how the last process ended
    runs,       \* how often the installer has been started
    told        \* (ghost) what the operator last answered, step by step

vars == <<phase, opts, model, pending, stepIndex, history, completed, save,
          files, exit, runs, told>>

\* Everything a process keeps in memory.
memory == <<model, pending, stepIndex, history, completed, told>>

-----------------------------------------------------------------------------
\* The files.  A file is missing, torn (cut short by a crash or a full disk),
\* a body without the [tui] group, or a body with it.  The body is named by the
\* model that was dumped; the conversion is in ApplyDraft, FillData and
\* Acceptable.

Paths == {"draft", "output"}
FileStates == {"absent", "torn", "body", "tagged"}
NoFile == [state |-> "absent", body |-> EmptyModel, told |-> NoAnswers,
           draft |-> FALSE, steps |-> <<>>, pending |-> FALSE]
Torn == [state |-> "torn", body |-> EmptyModel, told |-> NoAnswers,
         draft |-> FALSE, steps |-> <<>>, pending |-> FALSE]

\* What dumpData leaves: everything but the [tui] group.
Dumped(m, t) == [state |-> "body", body |-> m, told |-> t,
                 draft |-> FALSE, steps |-> <<>>, pending |-> FALSE]

\* What writeDraft leaves once it has added the [tui] group.
Tagged(f, list, p, complete) ==
    [state |-> "tagged", body |-> f.body, told |-> f.told,
     draft |-> ~complete, steps |-> list, pending |-> p]

\* isDraftAnswerfile
IsDraft(f) == f.state = "tagged" /\ f.draft

-----------------------------------------------------------------------------
\* A process ends: what it had in memory is gone.
Exit(status) ==
    /\ phase' = "off" /\ exit' = status
    /\ model' = EmptyModel /\ pending' = FALSE /\ told' = NoAnswers
    /\ stepIndex' = 0 /\ history' = <<>> /\ completed' = <<>>
    /\ save' = [path |-> "draft", stage |-> "idle", list |-> <<>>,
                complete |-> FALSE, why |-> "none"]

\* Mutant of StartIndex: the last completed step is asked again.
StartIndexBefore(done) ==
    CHOOSE n \in 0..Len(Steps) :
        /\ \A i \in 1..n : Steps[i] \in done
        /\ n + 1 < Len(Steps) => Steps[n + 2] \notin done

\* The first step that is not in the set of completed steps.
StartIndex(done) ==
    CHOOSE n \in 0..Len(Steps) :
        /\ \A i \in 1..n : Steps[i] \in done
        /\ n < Len(Steps) => Steps[n + 1] \notin done

\* PresenterInstall starts from the steps a draft lists.
EnterQuestionnaire(list) ==
    LET done == { list[i] : i \in 1..Len(list) } IN
    /\ phase' = "steps"
    /\ completed' = list
    /\ stepIndex' = StartIndex(done)
    /\ history' = SubSeq(Steps, 1, StartIndex(done))

\* A process starts: it has read its command line.
Started(o) ==
    /\ phase = "off" /\ runs < MaxRuns
    /\ runs' = runs + 1 /\ opts' = o /\ exit' = "running"
    /\ UNCHANGED <<save, files>>

\* The questionnaire starts from nothing: no draft was found.
LaunchFresh(o) ==
    /\ o.tui /\ o.answerfile = "none"
    /\ ~IsDraft(files["draft"])
    /\ Started(o)
    /\ EnterQuestionnaire(<<>>)
    /\ UNCHANGED <<model, pending, told>>

\* A draft was found: the operator is asked whether to continue from it.
LaunchAsk(o) ==
    /\ o.tui /\ o.answerfile = "none"
    /\ IsDraft(files["draft"])
    /\ Started(o)
    /\ phase' = "ask"
    /\ UNCHANGED memory

\* loadDraftState and applyDraftToModel, then the questionnaire.
Resume(f) ==
    /\ \E r \in ApplyDraft(f.body, f.pending, opts'.dryRun) :
          model' = r.model /\ pending' = r.pending
    /\ told' = f.told
    /\ EnterQuestionnaire(f.steps)

ContinueDraft ==
    /\ phase = "ask"
    /\ UNCHANGED opts
    /\ Resume(files["draft"])
    /\ UNCHANGED <<save, files, exit, runs>>

IgnoreDraft ==
    /\ phase = "ask"
    /\ EnterQuestionnaire(<<>>)
    /\ UNCHANGED <<opts, model, pending, told, save, files, exit, runs>>

\* Quit at that question is not caught: the process ends.
QuitAsk ==
    /\ phase = "ask"
    /\ Exit("failed")
    /\ UNCHANGED <<opts, files, runs>>

\* --tui --answerfile names a draft: it is resumed without asking.
LaunchDraft(o) ==
    /\ o.tui /\ o.answerfile # "none"
    /\ IsDraft(files[o.answerfile])
    /\ Started(o)
    /\ Resume(files[o.answerfile])

\* --answerfile names a file that is not a draft and loads.
LaunchAnswerfile(o) ==
    LET f == files[o.answerfile] IN
    /\ o.answerfile # "none"
    /\ f.state \in {"body", "tagged"} /\ ~IsDraft(f)
    /\ Acceptable(f.body)
    /\ Started(o)
    /\ \E m \in FillData(f.body, o.dryRun) : model' = m
    /\ pending' = FALSE
    /\ told' = f.told
    /\ \/ o.tui /\ EnterQuestionnaire(<<>>)
       \/ ~o.tui /\ phase' = (IF o.dump THEN "dump" ELSE "confirm")
                 /\ UNCHANGED <<stepIndex, history, completed>>

\* The process gives up at once: an unattended run of a draft, a file that is
\* missing, cannot be parsed, is not accepted or cannot be filled in, or a torn
\* draft at the default path that GLib cannot parse.
LaunchRefused(o) ==
    /\ \/ o.answerfile # "none"
          /\ \/ ~o.tui /\ IsDraft(files[o.answerfile])
             \/ files[o.answerfile].state \in {"absent", "torn"}
             \/ /\ ~IsDraft(files[o.answerfile])
                /\ \/ ~Acceptable(files[o.answerfile].body)
                   \/ FillThrows(files[o.answerfile].body, o.dryRun)
       \/ o.answerfile = "none" /\ o.tui /\ files["draft"].state = "torn"
    /\ phase = "off" /\ runs < MaxRuns
    /\ runs' = runs + 1 /\ opts' = o
    /\ UNCHANGED files
    /\ Exit("refused")

-----------------------------------------------------------------------------
\* writeDraft: dumpData rewrites the whole file, then the file is loaded back
\* and saved again with the [tui] group.  The process can die in between.

BeginSave(path, list, complete, why) ==
    /\ phase' = "saving"
    /\ save' = [path |-> path, stage |-> "dump", list |-> list,
                complete |-> complete, why |-> why]

\* What runApplication does when writeDraft returns, or throws.  A save after a
\* step goes back to the questionnaire: the callback only logs a failure.
AfterStepSave ==
    /\ save.why = "step"
    /\ phase' = "steps" /\ save' = [save EXCEPT !.stage = "idle"]
    /\ UNCHANGED <<memory, exit>>

\* Mutants of AfterAbortSave: it says "draft saved" although the save threw; it
\* saves again until it succeeds.
AbortAlwaysStops(ok) ==
    /\ save.why = "abort"
    /\ Exit("stopped")
AbortRetries(ok) ==
    /\ save.why = "abort"
    /\ IF ok THEN Exit("stopped")
       ELSE BeginSave("draft", completed, FALSE, "abort")
            /\ UNCHANGED <<memory, exit>>

\* The abort handler reports that the draft is saved, or that it is not.
AfterAbortSave(ok) ==
    /\ save.why = "abort"
    /\ Exit(IF ok THEN "stopped" ELSE "failed")

\* Mutant of AfterCompleteSave: the output is saved as a draft.
OutputStaysDraft ==
    /\ save.why = "complete"
    /\ BeginSave("output", completed, FALSE, "output")
    /\ UNCHANGED <<memory, exit>>

\* Whether or not the draft could be marked complete, the output is written.
AfterCompleteSave ==
    /\ save.why = "complete"
    /\ BeginSave("output", completed, TRUE, "output")
    /\ UNCHANGED <<memory, exit>>

\* The engine starts, unless only the file was wanted or it could not be written.
AfterOutputSave(ok) ==
    /\ save.why = "output"
    /\ IF ok /\ ~opts.dump /\ ~opts.dryRun
       THEN /\ phase' = "install" /\ save' = [save EXCEPT !.stage = "idle"]
            /\ UNCHANGED <<memory, exit>>
       ELSE Exit(IF ok THEN "finished" ELSE "failed")

SaveReturns(ok) == AfterStepSave \/ AfterAbortSave(ok) \/ AfterCompleteSave
                       \/ AfterOutputSave(ok)

\* dumpData succeeded: the [tui] group of an earlier save is gone.
SaveDump ==
    /\ phase = "saving" /\ save.stage = "dump"
    /\ files' = [files EXCEPT ![save.path] = Dumped(model, told)]
    /\ save' = [save EXCEPT !.stage = "tag"]
    /\ UNCHANGED <<phase, opts, memory, exit, runs>>

\* The file cannot be opened for writing: it keeps its contents.
SaveCannotOpen ==
    /\ phase = "saving" /\ save.stage = "dump"
    /\ SaveReturns(FALSE)
    /\ UNCHANGED <<opts, files, runs>>

\* The disk is full: files::write does not notice, and loading the file back or
\* saving it again fails.
SaveCutShort ==
    /\ phase = "saving" /\ save.stage = "dump"
    /\ files' = [files EXCEPT ![save.path] = Torn]
    /\ SaveReturns(FALSE)
    /\ UNCHANGED <<opts, runs>>

\* The [tui] group is added.
SaveTag ==
    /\ phase = "saving" /\ save.stage = "tag"
    /\ files' = [files EXCEPT ![save.path] =
                    Tagged(@, save.list, pending, save.complete)]
    /\ SaveReturns(TRUE)
    /\ UNCHANGED <<opts, runs>>

\* Loading the file back or saving it again throws: the body stays untagged.
SaveTagFails ==
    /\ phase = "saving" /\ save.stage = "tag"
    /\ SaveReturns(FALSE)
    /\ UNCHANGED <<opts, files, runs>>

-----------------------------------------------------------------------------
\* The questionnaire loop.

AtStep == phase = "steps" /\ stepIndex < Len(Steps)
CurrentStep == Steps[stepIndex + 1]

\* A presenter returns: the step is appended to the history and the callback
\* saves the draft.
CompleteStep ==
    /\ AtStep
    /\ \E a \in Answers(CurrentStep) :
          /\ \E r \in AnswerStep(CurrentStep, a, model, pending) :
                model' = r.model /\ pending' = r.pending
          /\ told' = Revise(told, CurrentStep, a)
    /\ history' = Append(SubSeq(history, 1, stepIndex), CurrentStep)
    /\ completed' = history'
    /\ stepIndex' = stepIndex + 1
    /\ BeginSave("draft", history', FALSE, "step")
    /\ UNCHANGED <<opts, files, exit, runs>>

\* What a presenter has already changed when it is left half way.
LeaveStep ==
    \E r \in Interrupted(CurrentStep, model, pending) :
        model' = r.model /\ pending' = r.pending

\* Mutants of Back: the first step has one before it; the history is kept.
BackFromFirst ==
    /\ AtStep
    /\ LeaveStep
    /\ stepIndex' = stepIndex - 1
    /\ BeginSave("draft", history, FALSE, "step")
    /\ UNCHANGED <<opts, files, exit, runs, told, history, completed>>
BackKeepsHistory ==
    /\ AtStep /\ stepIndex > 0
    /\ LeaveStep
    /\ stepIndex' = stepIndex - 1
    /\ BeginSave("draft", history, FALSE, "step")
    /\ UNCHANGED <<opts, files, exit, runs, told, history, completed>>

\* Back: the step before is asked again.
Back ==
    /\ AtStep /\ stepIndex > 0
    /\ LeaveStep
    /\ history' = SubSeq(history, 1, stepIndex - 1)
    /\ completed' = history'
    /\ stepIndex' = stepIndex - 1
    /\ BeginSave("draft", history', FALSE, "step")
    /\ UNCHANGED <<opts, files, exit, runs, told>>

\* Quit, or Back on the first step: ViewAbortRequested reaches runApplication,
\* which saves the draft with the steps its callback last heard of.
Quit ==
    /\ AtStep
    /\ LeaveStep
    /\ BeginSave("draft", completed, FALSE, "abort")
    /\ UNCHANGED <<opts, files, exit, runs, told, stepIndex, history,
                   completed>>

\* Any other exception of a presenter, or of the download that follows the last
\* one, ends the process with no save.
StepThrows ==
    /\ phase = "steps"
    /\ Exit("failed")
    /\ UNCHANGED <<opts, files, runs>>

-----------------------------------------------------------------------------
\* After the last step.

AllAnswered == phase = "steps" /\ stepIndex = Len(Steps)

\* wget runs without a timeout, and a message about its failure waits for the
\* operator.
AwaitsDownload == AllAnswered /\ pending # FALSE /\ ~opts.dryRun

\* No download is pending, or it succeeds, or a dry run pretends it did.
DownloadDone ==
    /\ AllAnswered
    /\ pending' = FALSE
    /\ phase' = "generate"
    /\ UNCHANGED <<opts, model, stepIndex, history, completed, save, files,
                   exit, runs, told>>

\* The download is stopped, fails, or leaves no file: the draft is saved.
DownloadFails ==
    /\ AwaitsDownload
    /\ BeginSave("draft", completed, FALSE, "abort")
    /\ UNCHANGED <<opts, memory, files, exit, runs>>

\* Mutant of Generate: the dump is not read back.
GenerateUnchecked ==
    /\ phase = "generate"
    /\ BeginSave("draft", completed, TRUE, "complete")
    /\ UNCHANGED <<opts, memory, files, exit, runs>>

\* generateAnswerfileFromTuiModel reads the dump back, then the draft is marked
\* complete.
Generate ==
    /\ phase = "generate" /\ Acceptable(model)
    /\ BeginSave("draft", completed, TRUE, "complete")
    /\ UNCHANGED <<opts, memory, files, exit, runs>>

\* The AnswerFile constructor throws: the process ends, with no save.
GenerateThrows ==
    /\ phase = "generate" /\ ~Acceptable(model)
    /\ Exit("rejected")
    /\ UNCHANGED <<opts, files, runs>>

\* Without a questionnaire the operator is asked before the system is modified.
Confirm ==
    /\ phase = "confirm"
    /\ phase' = "install"
    /\ UNCHANGED <<opts, memory, save, files, exit, runs>>

Decline ==
    /\ phase = "confirm" /\ ~opts.dryRun
    /\ Exit("finished")
    /\ UNCHANGED <<opts, files, runs>>

\* --dump-answerfile without a questionnaire: the file is written, cut short
\* without notice, or cannot be opened.
DumpAnswerfile ==
    /\ phase = "dump"
    /\ \/ /\ files' \in {[files EXCEPT !["output"] = Dumped(model, told)],
                        [files EXCEPT !["output"] = Torn]}
          /\ Exit("finished")
       \/ UNCHANGED files /\ Exit("failed")
    /\ UNCHANGED <<opts, runs>>

\* The installation engine returns, or throws.
EndInstall ==
    /\ phase = "install"
    /\ \E status \in {"installed", "failed"} : Exit(status)
    /\ UNCHANGED <<opts, files, runs>>

-----------------------------------------------------------------------------
\* The process is killed, or the machine stops.  A file that was being
\* rewritten may be left torn.
Crash ==
    /\ phase # "off"
    /\ \/ UNCHANGED files
       \/ /\ phase = "saving" /\ save.stage = "dump"
          /\ files' = [files EXCEPT ![save.path] = Torn]
       \/ /\ phase = "dump"
          /\ files' = [files EXCEPT !["output"] = Torn]
    /\ Exit("crashed")
    /\ UNCHANGED <<opts, runs>>

Init ==
    /\ phase = "off" /\ exit = "none" /\ runs = 0
    /\ opts = [tui |-> FALSE, answerfile |-> "none", dryRun |-> FALSE,
               dump |-> FALSE]
    /\ model = EmptyModel /\ pending = FALSE /\ told = NoAnswers
    /\ stepIndex = 0 /\ history = <<>> /\ completed = <<>>
    /\ save = [path |-> "draft", stage |-> "idle", list |-> <<>>,
               complete |-> FALSE, why |-> "none"]
    /\ files = [p \in Paths |-> NoFile]

Launch ==
    \E o \in Launches :
        LaunchFresh(o) \/ LaunchAsk(o) \/ LaunchDraft(o) \/ LaunchAnswerfile(o)
            \/ LaunchRefused(o)

WriteDraft == SaveDump \/ SaveCannotOpen \/ SaveCutShort \/ SaveTag
                \/ SaveTagFails

Operator == ContinueDraft \/ IgnoreDraft \/ QuitAsk \/ CompleteStep \/ Back \/ Quit
                \/ Confirm \/ Decline

Program == StepThrows \/ DownloadDone \/ DownloadFails \/ Generate
                \/ GenerateThrows \/ DumpAnswerfile \/ EndInstall

\* The installer has been started as often as the bound allows.
Done == phase = "off" /\ runs = MaxRuns /\ UNCHANGED vars

Next == Launch \/ WriteDraft \/ Operator \/ Program \/ Crash \/ Done

Spec == Init /\ [][Next]_vars

\* What runs to its end without waiting for the operator, for wget or for a
\* command of the engine: writeDraft and the code between the last step and the
\* installation.
GoesOn ==
    \/ ~AwaitsDownload /\ DownloadDone
    \/ Generate \/ GenerateThrows \/ DumpAnswerfile

FairSpec == Spec /\ WF_vars(WriteDraft) /\ WF_vars(GoesOn)

-----------------------------------------------------------------------------
Phases == {"off", "ask", "steps", "saving", "generate", "confirm", "dump",
           "install"}
Exits == {"none", "running", "refused", "stopped", "failed", "rejected",
          "finished", "installed", "crashed"}
StepLists == Seq({Steps[i] : i \in 1..Len(Steps)})

FilesType ==
    /\ DOMAIN files = Paths
    /\ \A f \in Paths : /\ files[f].state \in FileStates
                        /\ files[f].draft \in BOOLEAN
                        /\ files[f].steps \in StepLists

\* The type invariant.  The answers (model, pending, told and what the files
\* keep of them) are not restricted.
TypeOK ==
    /\ phase \in Phases
    /\ opts \in [tui : BOOLEAN, answerfile : {"none", "draft", "output"},
                 dryRun : BOOLEAN, dump : BOOLEAN]
    /\ stepIndex \in 0..Len(Steps)
    /\ history \in StepLists /\ completed \in StepLists
    /\ save \in [path : Paths, stage : {"idle", "dump", "tag"},
                 list : StepLists, complete : BOOLEAN,
                 why : {"none", "step", "abort", "complete", "output"}]
    /\ FilesType
    /\ exit \in Exits
    /\ runs \in 0..MaxRuns

\* The first n steps.
Prefix(n) == SubSeq(Steps, 1, n)

\* The questionnaire is under way in this process.
Asking == phase \in {"steps", "saving", "generate"}

\* PresenterInstall and runApplication each keep the completed steps: through
\* any sequence of answers, Back, Quit, failed saves and resumed drafts the two
\* agree, and they are exactly the steps before the cursor.
HistoryIsPrefix ==
    Asking => history = Prefix(stepIndex) /\ completed = history

\* Whatever was interrupted, a file that says it is a draft lists a prefix of
\* the questionnaire, so that a resume skips no step that was never answered;
\* and the output answerfile is never marked as a draft and lists every step.
FilesListPrefix ==
    /\ \A f \in Paths : files[f].state = "tagged" =>
          \E n \in 0..Len(Steps) : files[f].steps = Prefix(n)
    /\ files["output"].state = "tagged" =>
          ~files["output"].draft /\ files["output"].steps = Steps

\* After a questionnaire the engine starts only on a model that was answered to
\* the end, whose ISO is there, that the AnswerFile constructor accepted, and
\* that is on disk as the completed output answerfile.
InstallGate ==
    (phase = "install" /\ opts.tui) =>
        /\ stepIndex = Len(Steps)
        /\ pending = FALSE
        /\ Acceptable(model)
        /\ files["output"].state = "tagged"
        /\ files["output"].body = model
        /\ ~opts.dryRun /\ ~opts.dump

\* What a process relies on between two steps: how the phases follow from the
\* command line, and what a save in progress is about.
SessionInv ==
    /\ phase # "off" => exit = "running"
    /\ phase = "ask" => opts.tui /\ IsDraft(files["draft"])
    /\ phase \in {"confirm", "dump"} => ~opts.tui
    /\ Asking => opts.tui
    /\ phase = "generate" => stepIndex = Len(Steps) /\ pending = FALSE
    /\ phase = "saving" =>
          /\ save.list = history
          /\ save.stage # "idle" /\ save.why # "none"
          /\ save.path = (IF save.why = "output" THEN "output" ELSE "draft")
          /\ save.complete = (save.why \in {"complete", "output"})
          /\ save.complete => /\ stepIndex = Len(Steps)
                              /\ pending = FALSE
                              /\ Acceptable(model)
          /\ save.stage = "tag" => /\ files[save.path].state = "body"
                                   /\ files[save.path].body = model

\* The inductive invariant.
IInv == TypeOK /\ HistoryIsPrefix /\ FilesListPrefix /\ SessionInv
            /\ InstallGate

\* "Draft saved" is only reported when the draft on disk resumes where the
\* operator stopped, with the answers given so far and the download still to do
\* (the abort handler of runApplication).
StopKeepsProgress ==
    [][ exit' = "stopped" /\ phase # "off" =>
          /\ IsDraft(files'["draft"])
          /\ files'["draft"].steps = Prefix(stepIndex)
          /\ files'["draft"].body = model
          /\ files'["draft"].pending = pending ]_vars

\* Where the operator is, and what the draft on disk keeps.
Place == IF Asking THEN stepIndex ELSE -1
KeptPlace == IF IsDraft(files["draft"]) THEN Len(files["draft"].steps) ELSE -1

Progress == INSTANCE DraftProgress
                WITH Length <- Len(Steps), at <- Place, kept <- KeptPlace

\* The sessions implement the promise of DraftProgress: the cursor moves by one
\* step, a save keeps exactly the place where the operator is, and a process
\* opens the questionnaire at its start or at the place that was kept.
KeepsProgress == Progress!PSpec

\* A process whose questionnaire is answered, or whose operator has quit, does
\* not hang once it has the image: it reaches the engine or ends, whatever a save
\* does.  How long wget takes is not the program's to say.
QuestionnaireEnds ==
    (\/ AllAnswered /\ ~AwaitsDownload
     \/ phase = "generate"
     \/ phase = "saving" /\ save.why # "step")
        ~> (phase \in {"install", "off"})
=============================================================================
