------------------------- MODULE TuiSession_proofs -------------------------
(***************************************************************************)
(* Proofs about TuiSession, for every list of steps, every set of answers    *)
(* and any number of runs.                                                   *)
(***************************************************************************)
EXTENDS TuiSession, TLAPS

\* A prefix of the steps is a list of steps and has the length it says.
LEMMA PrefixType ==
    ASSUME NEW n \in 0..Len(Steps)
    PROVE  /\ Prefix(n) \in StepLists
           /\ Len(Prefix(n)) = n
           /\ \A i \in 1..n : Prefix(n)[i] = Steps[i]
BY StepsAssumption DEF Prefix, StepLists

\* Completing the next step appends it.
LEMMA PrefixAppend ==
    ASSUME NEW n \in 0..Len(Steps), n < Len(Steps)
    PROVE  Append(SubSeq(Prefix(n), 1, n), Steps[n + 1]) = Prefix(n + 1)
BY StepsAssumption DEF Prefix

\* Going back drops the last one.
LEMMA PrefixCut ==
    ASSUME NEW n \in 1..Len(Steps)
    PROVE  SubSeq(Prefix(n), 1, n - 1) = Prefix(n - 1)
BY StepsAssumption DEF Prefix

\* The empty list is the prefix of length zero, the whole list the longest one.
LEMMA PrefixEnds == Prefix(0) = <<>> /\ Prefix(Len(Steps)) = Steps
BY StepsAssumption DEF Prefix

\* A questionnaire that starts from the first n steps starts at step n.
LEMMA StartIndexPrefix ==
    ASSUME NEW n \in 0..Len(Steps)
    PROVE  StartIndex({ Prefix(n)[i] : i \in 1..Len(Prefix(n)) }) = n
<1> DEFINE D == { Prefix(n)[i] : i \in 1..Len(Prefix(n)) }
           P(k) == /\ \A i \in 1..k : Steps[i] \in D
                   /\ k < Len(Steps) => Steps[k + 1] \notin D
<1>1. D = { Steps[i] : i \in 1..n }
  BY PrefixType
<1> HIDE DEF D
<1>a. \A k \in 1..Len(Steps) : Steps[k] \in D <=> k <= n
  BY <1>1, StepsAssumption
<1>2. P(n)
  BY <1>a, StepsAssumption
<1>3. ASSUME NEW k \in 0..Len(Steps), P(k) PROVE k = n
  <2>1. Len(Steps) \in Nat
    BY StepsAssumption
  <2>2. ~(k < n)
    BY <1>a, <1>3, <2>1
  <2>3. ~(n < k)
    BY <1>a, <1>3, <2>1
  <2> QED BY <2>1, <2>2, <2>3
<1>4. StartIndex(D) = CHOOSE k \in 0..Len(Steps) : P(k)
  BY DEF StartIndex
<1> HIDE DEF P
<1>5. (CHOOSE k \in 0..Len(Steps) : P(k)) = n
  BY <1>2, <1>3
<1> QED BY <1>4, <1>5 DEF D

\* Entering the questionnaire with the first n steps done.
LEMMA EnterPrefix ==
    ASSUME NEW n \in 0..Len(Steps), EnterQuestionnaire(Prefix(n))
    PROVE  /\ phase' = "steps" /\ stepIndex' = n
           /\ history' = Prefix(n) /\ completed' = Prefix(n)
BY StartIndexPrefix DEF EnterQuestionnaire, Prefix

-----------------------------------------------------------------------------
\* The initial state satisfies the invariant.
LEMMA InitIInv == Init => IInv
<1> SUFFICES ASSUME Init PROVE IInv
  OBVIOUS
<1>0. <<>> \in StepLists
  BY DEF StepLists
<1>1. FilesType
  <2>1. \A f \in Paths : files[f] = NoFile
    BY DEF Init
  <2>2. NoFile.state = "absent" /\ NoFile.draft = FALSE /\ NoFile.steps = <<>>
    BY DEF NoFile
  <2> QED BY <1>0, <2>1, <2>2 DEF Init, FilesType, FileStates
<1>2. TypeOK
  BY <1>1, StepsAssumption, MaxRunsAssumption
  DEF Init, TypeOK, Phases, Exits, StepLists, Paths
<1> QED
  BY <1>2
  DEF Init, IInv, HistoryIsPrefix, FilesListPrefix, SessionInv, InstallGate,
      Asking, NoFile, Paths

\* A process that ends keeps the invariant if the files do.
LEMMA ExitIInv ==
    ASSUME IInv, NEW status \in Exits, Exit(status),
           opts' \in [tui : BOOLEAN, answerfile : {"none", "draft", "output"},
                      dryRun : BOOLEAN, dump : BOOLEAN],
           runs' \in 0..MaxRuns, FilesType', FilesListPrefix'
    PROVE  IInv'
<1>1. TypeOK'
  BY StepsAssumption DEF Exit, TypeOK, Phases, StepLists, Paths
<1> QED
  BY <1>1 DEF Exit, IInv, HistoryIsPrefix, SessionInv, InstallGate, Asking

\* So does a process that enters the questionnaire, with the files untouched.
LEMMA EnterIInv ==
    ASSUME IInv, NEW n \in 0..Len(Steps), EnterQuestionnaire(Prefix(n)),
           opts' \in [tui : BOOLEAN, answerfile : {"none", "draft", "output"},
                      dryRun : BOOLEAN, dump : BOOLEAN],
           opts'.tui, runs' \in 0..MaxRuns, exit' = "running",
           UNCHANGED <<save, files>>
    PROVE  IInv'
<1>1. /\ phase' = "steps" /\ stepIndex' = n
      /\ history' = Prefix(n) /\ completed' = Prefix(n)
  BY EnterPrefix
<1>2. Prefix(n) \in StepLists
  BY PrefixType
<1>3. TypeOK'
  BY <1>1, <1>2 DEF IInv, TypeOK, FilesType, Phases, Exits
<1> QED
  BY <1>1, <1>3
  DEF IInv, HistoryIsPrefix, FilesListPrefix, SessionInv, InstallGate, Asking

\* Starting the installer keeps the invariant.
LEMMA LaunchIInv ==
    ASSUME IInv, Launch
    PROVE  IInv'
<1>1. PICK o \in Launches : \/ LaunchFresh(o) \/ LaunchAsk(o) \/ LaunchDraft(o)
                            \/ LaunchAnswerfile(o) \/ LaunchRefused(o)
  BY DEF Launch
<1>2. o \in [tui : BOOLEAN, answerfile : {"none", "draft", "output"},
             dryRun : BOOLEAN, dump : BOOLEAN]
  BY LaunchesAssumption
<1>3. Started(o) => /\ runs' \in 0..MaxRuns /\ opts' = o /\ exit' = "running"
                    /\ UNCHANGED <<save, files>>
  BY MaxRunsAssumption DEF Started, IInv, TypeOK
<1>4. <<>> = Prefix(0) /\ 0 \in 0..Len(Steps)
  BY PrefixEnds, StepsAssumption
<1>5. CASE LaunchFresh(o)
  BY <1>2, <1>3, <1>4, <1>5, EnterIInv DEF LaunchFresh
<1>6. CASE LaunchAsk(o)
  <2>1. TypeOK'
    BY <1>2, <1>3, <1>6 DEF LaunchAsk, memory, IInv, TypeOK, FilesType, Phases,
                             Exits
  <2> QED
    BY <1>3, <1>6, <2>1
    DEF LaunchAsk, memory, IInv, HistoryIsPrefix, FilesListPrefix, SessionInv,
        InstallGate, Asking, IsDraft
<1>7. CASE LaunchDraft(o)
  <2>1. o.answerfile \in Paths
    BY <1>2, <1>7 DEF LaunchDraft, Paths
  <2>2. PICK n \in 0..Len(Steps) : files[o.answerfile].steps = Prefix(n)
    BY <1>7, <2>1 DEF LaunchDraft, IInv, FilesListPrefix, IsDraft
  <2>3. EnterQuestionnaire(Prefix(n))
    BY <1>7, <2>2 DEF LaunchDraft, Resume
  <2> QED BY <1>2, <1>3, <1>7, <2>3, EnterIInv DEF LaunchDraft
<1>8. CASE LaunchAnswerfile(o)
  <2>1. CASE o.tui /\ EnterQuestionnaire(<<>>)
    BY <1>2, <1>3, <1>4, <1>8, <2>1, EnterIInv DEF LaunchAnswerfile
  <2>2. CASE ~o.tui /\ phase' \in {"dump", "confirm"}
             /\ UNCHANGED <<stepIndex, history, completed>>
    <3>1. TypeOK'
      BY <1>2, <1>3, <1>8, <2>2
      DEF LaunchAnswerfile, IInv, TypeOK, FilesType, Phases, Exits
    <3> QED
      BY <1>3, <1>8, <2>2, <3>1
      DEF LaunchAnswerfile, IInv, HistoryIsPrefix, FilesListPrefix, SessionInv,
          InstallGate, Asking
  <2> QED BY <1>8, <2>1, <2>2 DEF LaunchAnswerfile
<1>9. CASE LaunchRefused(o)
  <2>1. runs' \in 0..MaxRuns
    BY <1>9, MaxRunsAssumption DEF LaunchRefused, IInv, TypeOK
  <2>2. FilesType' /\ FilesListPrefix'
    BY <1>9 DEF LaunchRefused, IInv, TypeOK, FilesType, FilesListPrefix
  <2> QED BY <1>2, <1>9, <2>1, <2>2, ExitIInv DEF LaunchRefused, Exits
<1> QED BY <1>1, <1>5, <1>6, <1>7, <1>8, <1>9

-----------------------------------------------------------------------------
\* The saves.  What writeDraft's caller does next keeps the invariant, provided
\* the files do and a save that went well has left the output answerfile.
LEMMA SaveReturnsIInv ==
    ASSUME IInv, phase = "saving", NEW ok \in BOOLEAN, SaveReturns(ok),
           UNCHANGED <<opts, runs>>, FilesType', FilesListPrefix',
           ok /\ save.path = "output" =>
               files'["output"].state = "tagged" /\ files'["output"].body = model
    PROVE  IInv'
<1> USE DEF Phases
<1>1. CASE save.why = "step"
  <2>1. /\ phase' = "steps" /\ save' = [save EXCEPT !.stage = "idle"]
        /\ UNCHANGED <<memory, exit>>
    BY <1>1 DEF SaveReturns, AfterStepSave, AfterAbortSave,
       AfterCompleteSave, AfterOutputSave
  <2>2. TypeOK'
    BY <2>1 DEF memory, IInv, TypeOK
  <2> QED
    BY <2>1, <2>2
    DEF memory, IInv, HistoryIsPrefix, SessionInv, InstallGate, Asking
<1>2. CASE save.why = "abort"
  <2>1. Exit(IF ok THEN "stopped" ELSE "failed")
    BY <1>2 DEF SaveReturns, AfterStepSave, AfterAbortSave,
       AfterCompleteSave, AfterOutputSave
  <2> QED BY <2>1, ExitIInv DEF Exits, IInv, TypeOK
<1>3. CASE save.why = "complete"
  <2>1. /\ BeginSave("output", completed, TRUE, "output")
        /\ UNCHANGED <<memory, exit>>
    BY <1>3 DEF SaveReturns, AfterStepSave, AfterAbortSave,
       AfterCompleteSave, AfterOutputSave
  <2>2. TypeOK'
    BY <2>1 DEF BeginSave, memory, IInv, TypeOK, Paths
  <2>3. SessionInv'
    BY <1>3, <2>1
    DEF BeginSave, memory, IInv, HistoryIsPrefix, SessionInv, Asking
  <2> QED
    BY <2>1, <2>2, <2>3
    DEF BeginSave, memory, IInv, HistoryIsPrefix, InstallGate, Asking
<1>4. CASE save.why = "output"
  <2>1. CASE ok /\ ~opts.dump /\ ~opts.dryRun
    <3>1. /\ phase' = "install" /\ save' = [save EXCEPT !.stage = "idle"]
          /\ UNCHANGED <<memory, exit>>
      BY <1>4, <2>1 DEF SaveReturns, AfterStepSave, AfterAbortSave,
       AfterCompleteSave, AfterOutputSave
    <3>2. TypeOK'
      BY <3>1 DEF memory, IInv, TypeOK
    <3>3. InstallGate'
      BY <1>4, <2>1, <3>1 DEF memory, IInv, SessionInv, InstallGate
    <3> QED
      BY <3>1, <3>2, <3>3
      DEF memory, IInv, HistoryIsPrefix, SessionInv, Asking
  <2>2. CASE ~(ok /\ ~opts.dump /\ ~opts.dryRun)
    <3>1. Exit(IF ok THEN "finished" ELSE "failed")
      BY <1>4, <2>2 DEF SaveReturns, AfterStepSave, AfterAbortSave,
       AfterCompleteSave, AfterOutputSave
    <3> QED BY <3>1, ExitIInv DEF Exits, IInv, TypeOK
  <2> QED BY <2>1, <2>2
<1> QED BY <1>1, <1>2, <1>3, <1>4 DEF SaveReturns, AfterStepSave, AfterAbortSave,
       AfterCompleteSave, AfterOutputSave

\* Writing one of the files keeps their types, and their lists when it does not
\* leave a list that is not a prefix.
LEMMA WriteFile ==
    ASSUME IInv, NEW p \in Paths, NEW f,
           files' = [files EXCEPT ![p] = f],
           f.state \in FileStates, f.draft \in BOOLEAN, f.steps \in StepLists,
           f.state = "tagged" =>
               /\ \E n \in 0..Len(Steps) : f.steps = Prefix(n)
               /\ p = "output" => ~f.draft /\ f.steps = Steps
    PROVE  FilesType' /\ FilesListPrefix'
<1>1. FilesType'
  BY DEF IInv, TypeOK, FilesType
<1> QED BY <1>1 DEF IInv, TypeOK, FilesType, FilesListPrefix, Paths

\* Every step of writeDraft keeps the invariant.
LEMMA WriteDraftIInv ==
    ASSUME IInv, WriteDraft
    PROVE  IInv'
<1>0. <<>> \in StepLists /\ save.path \in Paths
  BY DEF StepLists, IInv, TypeOK
<1>t. Torn.state = "torn" /\ Torn.draft = FALSE /\ Torn.steps = <<>>
  BY DEF Torn
<1>1. CASE SaveDump
  <2> DEFINE f == Dumped(model, told)
  <2>0. files' = [files EXCEPT ![save.path] = f]
    BY <1>1 DEF SaveDump
  <2>1. f.state = "body" /\ f.draft = FALSE /\ f.steps = <<>> /\ f.body = model
    BY DEF Dumped
  <2> HIDE DEF f
  <2>2. FilesType' /\ FilesListPrefix'
    BY <1>0, <2>0, <2>1, WriteFile DEF FileStates
  <2>3. TypeOK'
    BY <1>1, <2>2 DEF SaveDump, memory, IInv, TypeOK
  <2>4. SessionInv'
    BY <1>0, <1>1, <2>0, <2>1
    DEF SaveDump, memory, IInv, TypeOK, FilesType, SessionInv, Asking
  <2> QED
    BY <1>1, <2>2, <2>3, <2>4
    DEF SaveDump, memory, IInv, HistoryIsPrefix, InstallGate, Asking
<1>2. CASE SaveCannotOpen
  <2>1. FilesType' /\ FilesListPrefix'
    BY <1>2 DEF SaveCannotOpen, IInv, TypeOK, FilesType, FilesListPrefix
  <2> QED BY <1>2, <2>1, SaveReturnsIInv DEF SaveCannotOpen
<1>3. CASE SaveCutShort
  <2>1. FilesType' /\ FilesListPrefix'
    BY <1>0, <1>t, <1>3, WriteFile DEF SaveCutShort, FileStates
  <2> QED BY <1>3, <2>1, SaveReturnsIInv DEF SaveCutShort
<1>4. CASE SaveTag
  <2> DEFINE f == Tagged(files[save.path], save.list, pending, save.complete)
  <2>1. /\ f.state = "tagged" /\ f.body = files[save.path].body
        /\ f.draft = ~save.complete /\ f.steps = save.list
    BY DEF Tagged
  <2>2. files' = [files EXCEPT ![save.path] = f]
    BY <1>4 DEF SaveTag, IInv, TypeOK, FilesType
  <2> HIDE DEF f
  <2>3. /\ save.list = Prefix(stepIndex) /\ stepIndex \in 0..Len(Steps)
        /\ save.path = "output" => save.complete /\ stepIndex = Len(Steps)
        /\ save.list \in StepLists /\ save.complete \in BOOLEAN
    BY <1>4
    DEF SaveTag, IInv, TypeOK, SessionInv, HistoryIsPrefix, Asking, Paths
  <2>4. FilesType' /\ FilesListPrefix'
    BY <1>0, <2>1, <2>2, <2>3, PrefixEnds, WriteFile DEF FileStates
  <2>5. save.path = "output" =>
            files'["output"].state = "tagged" /\ files'["output"].body = model
    BY <1>0, <1>4, <2>1, <2>2
    DEF SaveTag, IInv, TypeOK, FilesType, SessionInv
  <2> QED BY <1>4, <2>4, <2>5, SaveReturnsIInv DEF SaveTag
<1>5. CASE SaveTagFails
  <2>1. FilesType' /\ FilesListPrefix'
    BY <1>5 DEF SaveTagFails, IInv, TypeOK, FilesType, FilesListPrefix
  <2> QED BY <1>5, <2>1, SaveReturnsIInv DEF SaveTagFails
<1> QED BY <1>1, <1>2, <1>3, <1>4, <1>5 DEF WriteDraft

-----------------------------------------------------------------------------
\* The questionnaire.  Files, command line and counters untouched, a save that
\* is begun for the right list keeps the invariant.
LEMMA BeginSaveIInv ==
    ASSUME IInv, NEW list, NEW why \in {"step", "abort", "complete"},
           BeginSave("draft", list, why = "complete", why),
           stepIndex' \in 0..Len(Steps), history' = Prefix(stepIndex'),
           completed' = history', list = history', opts.tui, phase # "off",
           why = "complete" => /\ stepIndex' = Len(Steps) /\ pending' = FALSE
                               /\ Acceptable(model'),
           UNCHANGED <<opts, files, exit, runs>>
    PROVE  IInv'
<1>1. history' \in StepLists
  BY PrefixType
<1>2. TypeOK'
  BY <1>1 DEF BeginSave, IInv, TypeOK, FilesType, Phases, Paths
<1>3. /\ phase' = "saving" /\ save'.path = "draft" /\ save'.stage = "dump"
      /\ save'.list = history' /\ save'.why = why
      /\ save'.complete = (why = "complete")
  BY DEF BeginSave
<1>4. save'.complete = (save'.why \in {"complete", "output"})
  <2>1. CASE why = "complete"
    BY <1>3, <2>1
  <2>2. CASE why # "complete"
    BY <1>3, <2>2
  <2> QED BY <2>1, <2>2
<1>5. save'.complete => /\ stepIndex' = Len(Steps) /\ pending' = FALSE
                        /\ Acceptable(model')
  BY <1>3
<1>6. SessionInv'
  BY <1>3, <1>4, <1>5 DEF IInv, SessionInv, Asking
<1> QED
  BY <1>2, <1>6
  DEF BeginSave, IInv, HistoryIsPrefix, FilesListPrefix, InstallGate, Asking

\* What the operator does keeps the invariant.
LEMMA OperatorIInv ==
    ASSUME IInv, Operator
    PROVE  IInv'
<1>f. UNCHANGED files => FilesType' /\ FilesListPrefix'
  BY DEF IInv, TypeOK, FilesType, FilesListPrefix
<1>0. /\ <<>> = Prefix(0) /\ 0 \in 0..Len(Steps) /\ Len(Steps) \in Nat
      /\ stepIndex \in 0..Len(Steps)
  BY PrefixEnds, StepsAssumption DEF IInv, TypeOK
<1>1. CASE ContinueDraft
  <2>1. PICK n \in 0..Len(Steps) : files["draft"].steps = Prefix(n)
    BY <1>1
    DEF ContinueDraft, IInv, SessionInv, FilesListPrefix, IsDraft, Paths
  <2>2. EnterQuestionnaire(Prefix(n))
    BY <1>1, <2>1 DEF ContinueDraft, Resume
  <2> QED BY <1>1, <2>2, EnterIInv DEF ContinueDraft, IInv, TypeOK, SessionInv
<1>2. CASE IgnoreDraft
  BY <1>0, <1>2, EnterIInv DEF IgnoreDraft, IInv, TypeOK, SessionInv
<1>3. CASE QuitAsk
  BY <1>3, <1>f, ExitIInv DEF QuitAsk, IInv, TypeOK, Exits
<1>4. CASE CompleteStep
  <2>1. stepIndex' = stepIndex + 1 /\ stepIndex' \in 0..Len(Steps)
        /\ stepIndex < Len(Steps)
    BY <1>0, <1>4 DEF CompleteStep, AtStep
  <2>2. history' = Append(SubSeq(Prefix(stepIndex), 1, stepIndex),
                          Steps[stepIndex + 1])
    BY <1>4
    DEF CompleteStep, AtStep, CurrentStep, IInv, HistoryIsPrefix, Asking
  <2>3. history' = Prefix(stepIndex')
    BY <1>0, <2>1, <2>2, PrefixAppend
  <2>4. BeginSave("draft", history', "step" = "complete", "step")
    BY <1>4 DEF CompleteStep, BeginSave
  <2>5. opts.tui /\ phase # "off"
    BY <1>4 DEF CompleteStep, AtStep, IInv, SessionInv, Asking
  <2> QED BY <1>4, <2>1, <2>3, <2>4, <2>5, BeginSaveIInv DEF CompleteStep
<1>5. CASE Back
  <2>1. /\ stepIndex' = stepIndex - 1 /\ stepIndex' \in 0..Len(Steps)
        /\ stepIndex \in 1..Len(Steps)
    BY <1>0, <1>5 DEF Back, AtStep
  <2>2. history' = SubSeq(Prefix(stepIndex), 1, stepIndex - 1)
    BY <1>5 DEF Back, AtStep, IInv, HistoryIsPrefix, Asking
  <2>3. history' = Prefix(stepIndex')
    BY <2>1, <2>2, PrefixCut
  <2>4. BeginSave("draft", history', "step" = "complete", "step")
    BY <1>5 DEF Back, BeginSave
  <2>5. opts.tui /\ phase # "off"
    BY <1>5 DEF Back, AtStep, IInv, SessionInv, Asking
  <2> QED BY <1>5, <2>1, <2>3, <2>4, <2>5, BeginSaveIInv DEF Back
<1>6. CASE Quit
  <2>1. BeginSave("draft", completed, "abort" = "complete", "abort")
    BY <1>6 DEF Quit, BeginSave
  <2>2. opts.tui /\ phase # "off" /\ history = Prefix(stepIndex) /\ completed = history
    BY <1>6
    DEF Quit, AtStep, IInv, SessionInv, Asking, HistoryIsPrefix
  <2> QED BY <1>0, <1>6, <2>1, <2>2, BeginSaveIInv DEF Quit
<1>7. CASE Confirm
  <2>1. TypeOK'
    BY <1>7 DEF Confirm, memory, IInv, TypeOK, FilesType, Phases
  <2> QED
    BY <1>7, <2>1
    DEF Confirm, memory, IInv, HistoryIsPrefix, FilesListPrefix, SessionInv,
        InstallGate, Asking
<1>8. CASE Decline
  BY <1>8, <1>f, ExitIInv DEF Decline, IInv, TypeOK, Exits
<1> QED BY <1>1, <1>2, <1>3, <1>4, <1>5, <1>6, <1>7, <1>8 DEF Operator

\* What the process does by itself keeps the invariant.
LEMMA ProgramIInv ==
    ASSUME IInv, Program
    PROVE  IInv'
<1>f. UNCHANGED files => FilesType' /\ FilesListPrefix'
  BY DEF IInv, TypeOK, FilesType, FilesListPrefix
<1>e. ASSUME NEW status \in Exits, Exit(status), UNCHANGED <<opts, files, runs>>
      PROVE  IInv'
  BY <1>e, <1>f, ExitIInv DEF IInv, TypeOK
<1>0. stepIndex \in 0..Len(Steps)
  BY DEF IInv, TypeOK
<1>1. CASE StepThrows
  BY <1>1, <1>e DEF StepThrows, Exits
<1>2. CASE DownloadDone
  <2>1. TypeOK'
    BY <1>2 DEF DownloadDone, IInv, TypeOK, FilesType, Phases
  <2> QED
    BY <1>2, <2>1
    DEF DownloadDone, AllAnswered, IInv, HistoryIsPrefix, FilesListPrefix,
        SessionInv, InstallGate, Asking
<1>3. CASE DownloadFails
  <2>1. BeginSave("draft", completed, "abort" = "complete", "abort")
    BY <1>3 DEF DownloadFails, BeginSave
  <2>2. opts.tui /\ phase # "off" /\ history = Prefix(stepIndex) /\ completed = history
    BY <1>3
    DEF DownloadFails, AwaitsDownload, AllAnswered, IInv, SessionInv, Asking, HistoryIsPrefix
  <2> QED
    BY <1>0, <1>3, <2>1, <2>2, BeginSaveIInv DEF DownloadFails, memory
<1>4. CASE Generate
  <2>1. BeginSave("draft", completed, "complete" = "complete", "complete")
    BY <1>4 DEF Generate, BeginSave
  <2>2. /\ opts.tui /\ phase # "off" /\ history = Prefix(stepIndex) /\ completed = history
        /\ stepIndex = Len(Steps) /\ pending = FALSE /\ Acceptable(model)
    BY <1>4 DEF Generate, IInv, SessionInv, Asking, HistoryIsPrefix
  <2>3. UNCHANGED <<model, pending, stepIndex, history, completed, opts, files,
                    exit, runs>>
    BY <1>4 DEF Generate, memory
  <2>4. Acceptable(model')
    BY <2>2, <2>3
  <2> QED BY <1>0, <2>1, <2>2, <2>3, <2>4, BeginSaveIInv
<1>5. CASE GenerateThrows
  BY <1>5, <1>e DEF GenerateThrows, Exits
<1>6. CASE DumpAnswerfile
  <2> DEFINE d == Dumped(model, told)
  <2>1. <<>> \in StepLists
    BY DEF StepLists
  <2>2. /\ Torn.state = "torn" /\ Torn.draft = FALSE /\ Torn.steps = <<>>
        /\ d.state = "body" /\ d.draft = FALSE /\ d.steps = <<>>
    BY DEF Torn, Dumped
  <2>3. CASE UNCHANGED files /\ Exit("failed")
    BY <1>6, <1>e, <2>3 DEF DumpAnswerfile, Exits
  <2>4. CASE /\ files' \in {[files EXCEPT !["output"] = d],
                            [files EXCEPT !["output"] = Torn]}
             /\ Exit("finished")
    <3>1. PICK f \in {d, Torn} : files' = [files EXCEPT !["output"] = f]
      BY <2>4
    <3> HIDE DEF d
    <3>2. FilesType' /\ FilesListPrefix'
      BY <2>1, <2>2, <3>1, WriteFile DEF FileStates, Paths
    <3> QED
      BY <1>6, <2>4, <3>2, ExitIInv DEF DumpAnswerfile, IInv, TypeOK, Exits
  <2> QED BY <1>6, <2>3, <2>4 DEF DumpAnswerfile
<1>7. CASE EndInstall
  BY <1>7, <1>e DEF EndInstall, Exits
<1> QED BY <1>1, <1>2, <1>3, <1>4, <1>5, <1>6, <1>7 DEF Program

\* So does a crash.
LEMMA CrashIInv ==
    ASSUME IInv, Crash
    PROVE  IInv'
<1>1. <<>> \in StepLists /\ save.path \in Paths
  BY DEF StepLists, IInv, TypeOK
<1>2. Torn.state = "torn" /\ Torn.draft = FALSE /\ Torn.steps = <<>>
  BY DEF Torn
<1>3. CASE UNCHANGED files
  BY <1>3, ExitIInv
  DEF Crash, IInv, TypeOK, FilesType, FilesListPrefix, Exits
<1>4. ASSUME NEW p \in Paths, files' = [files EXCEPT ![p] = Torn]
      PROVE  IInv'
  <2>1. FilesType' /\ FilesListPrefix'
    BY <1>1, <1>2, <1>4, WriteFile DEF FileStates
  <2> QED BY <2>1, ExitIInv DEF Crash, IInv, TypeOK, Exits
<1> QED BY <1>1, <1>3, <1>4 DEF Crash, Paths

\* The invariant is inductive.
LEMMA NextIInv == IInv /\ [Next]_vars => IInv'
<1> SUFFICES ASSUME IInv, [Next]_vars PROVE IInv'
  OBVIOUS
<1>1. CASE UNCHANGED vars
  BY <1>1
  DEF vars, IInv, TypeOK, FilesType, HistoryIsPrefix, FilesListPrefix,
      SessionInv, InstallGate, Asking, IsDraft
<1> QED
  BY <1>1, LaunchIInv, WriteDraftIInv, OperatorIInv, ProgramIInv, CrashIInv
  DEF Next, Done

-----------------------------------------------------------------------------
\* Every reachable state is well typed: no step of the installer leaves the
\* phases, step lists and file states that runApplication and writeDraft know.
THEOREM TypeCorrect == Spec => []TypeOK
<1>1. IInv => TypeOK
  BY DEF IInv
<1> QED BY <1>1, InitIInv, NextIInv, PTL DEF Spec

\* For any questionnaire, the presenter's history and runApplication's copy of
\* it are the steps before the cursor.
THEOREM HistoriesAgree == Spec => []HistoryIsPrefix
<1>1. IInv => HistoryIsPrefix
  BY DEF IInv
<1> QED BY <1>1, InitIInv, NextIInv, PTL DEF Spec

\* Whatever save was cut short, a tagged file lists a prefix of the
\* questionnaire, and the output answerfile all of it.
THEOREM DraftsListPrefixes == Spec => []FilesListPrefix
<1>1. IInv => FilesListPrefix
  BY DEF IInv
<1> QED BY <1>1, InitIInv, NextIInv, PTL DEF Spec

\* The engine only starts on a finished, accepted and saved questionnaire whose
\* ISO is there.
THEOREM InstallGated == Spec => []InstallGate
<1>1. IInv => InstallGate
  BY DEF IInv
<1> QED BY <1>1, InitIInv, NextIInv, PTL DEF Spec

\* "Draft saved" is never said in vain: the draft lists the steps before the
\* cursor and holds the model and the pending download as they are.
THEOREM StopKeeps == Spec => StopKeepsProgress
<1> DEFINE Kept == exit' = "stopped" /\ phase # "off" =>
          /\ IsDraft(files'["draft"])
          /\ files'["draft"].steps = Prefix(stepIndex)
          /\ files'["draft"].body = model
          /\ files'["draft"].pending = pending
<1>1. IInv /\ [Next]_vars => [Kept]_vars
  <2> SUFFICES ASSUME IInv, Next, exit' = "stopped", phase # "off"
               PROVE  Kept
    OBVIOUS
  <2>1. exit = "running"
    BY DEF IInv, SessionInv
  <2>2. ASSUME SaveTag, save.why = "abort" PROVE Kept
    <3> DEFINE f == Tagged(files[save.path], save.list, pending, save.complete)
    <3>0. save.complete = FALSE
      <4>1. save.complete = (save.why \in {"complete", "output"})
        BY <2>2 DEF SaveTag, IInv, SessionInv
      <4>2. save.complete \in BOOLEAN
        BY DEF IInv, TypeOK
      <4>3. save.why \notin {"complete", "output"}
        BY <2>2
      <4> QED BY <4>1, <4>2, <4>3, Zenon
    <3>1. /\ save.path = "draft" /\ save.list = Prefix(stepIndex)
          /\ files["draft"].body = model
      BY <2>2 DEF SaveTag, IInv, SessionInv, HistoryIsPrefix, Asking
    <3>2. files'["draft"] = f
      BY <2>2, <3>1 DEF SaveTag, IInv, TypeOK, FilesType, Paths
    <3>3. /\ f.state = "tagged" /\ f.draft = TRUE /\ f.pending = pending
          /\ f.steps = Prefix(stepIndex) /\ f.body = model
      BY <3>0, <3>1 DEF Tagged
    <3> QED BY <3>2, <3>3 DEF IsDraft
  <2>3. CASE WriteDraft
    <3>1. ~SaveDump
      BY <2>1 DEF SaveDump
    <3>2. ASSUME SaveReturns(FALSE) PROVE FALSE
      BY <2>1, <3>2 DEF SaveReturns, AfterStepSave, AfterAbortSave,
       AfterCompleteSave, AfterOutputSave, Exit
    <3>3. SaveTag
      BY <2>3, <3>1, <3>2 DEF WriteDraft, SaveCannotOpen, SaveCutShort,
                              SaveTagFails
    <3>4. save.why = "abort"
      BY <2>1, <3>3 DEF SaveTag, SaveReturns, AfterStepSave, AfterAbortSave,
       AfterCompleteSave, AfterOutputSave, Exit
    <3> QED BY <2>2, <3>3, <3>4
  <2>4. ASSUME Launch PROVE FALSE
    BY <2>4 DEF Launch, LaunchFresh, LaunchAsk, LaunchDraft, LaunchAnswerfile,
                LaunchRefused, Started
  <2>5. ASSUME Operator PROVE FALSE
    BY <2>1, <2>5 DEF Operator, ContinueDraft, IgnoreDraft, QuitAsk, Exit,
                      CompleteStep, Back, Quit, Confirm, Decline
  <2>6. ASSUME Program PROVE FALSE
    BY <2>1, <2>6 DEF Program, StepThrows, DownloadDone, DownloadFails, AwaitsDownload, Generate,
                      GenerateThrows, DumpAnswerfile, EndInstall, Exit
  <2> QED
    BY <2>3, <2>4, <2>5, <2>6 DEF Next, Crash, Exit, Done
<1> QED BY <1>1, InitIInv, NextIInv, PTL DEF Spec, StopKeepsProgress

-----------------------------------------------------------------------------
\* The refinement: what each step of a session does to the place of the
\* operator and to the place the draft keeps.

\* With the draft untouched, the place it keeps stays.
LEMMA KeptSame == files'["draft"] = files["draft"] => KeptPlace' = KeptPlace
BY DEF KeptPlace, IsDraft

\* A process that ends, or goes on to install, is in no questionnaire.
LEMMA ExitPlace == ASSUME NEW status, Exit(status) PROVE Place' = -1
BY DEF Exit, Place, Asking

\* The place is where the operator is, or nowhere.
LEMMA PlaceType ==
    ASSUME IInv
    PROVE  /\ Asking => Place = stepIndex /\ Place \in 0..Len(Steps) /\ Place # -1
           /\ ~Asking => Place = -1
BY StepsAssumption DEF Place, IInv, TypeOK

\* The questionnaire opens at its start or at the place that was kept.
LEMMA OpenPlace ==
    ASSUME IInv, ~Asking, files' = files, NEW n \in 0..Len(Steps),
           EnterQuestionnaire(Prefix(n)),
           n = 0 \/ (IsDraft(files["draft"]) /\ files["draft"].steps = Prefix(n))
    PROVE  Progress!Open
<1>1. Place = -1 /\ Place' = n
  BY EnterPrefix DEF Place, Asking
<1>2. KeptPlace' = KeptPlace
  BY KeptSame
<1>3. CASE n = 0
  BY <1>1, <1>2, <1>3 DEF Progress!Open, Progress!Nowhere
<1>4. CASE IsDraft(files["draft"]) /\ files["draft"].steps = Prefix(n)
  <2>1. KeptPlace = n
    BY <1>4, PrefixType DEF KeptPlace
  <2> QED BY <1>1, <1>2, <2>1 DEF Progress!Open, Progress!Nowhere
<1> QED BY <1>3, <1>4

\* When a save returns the operator is where he was, or out.
LEMMA SaveReturnsPlace ==
    ASSUME IInv, phase = "saving", NEW ok, SaveReturns(ok)
    PROVE  Place' = Place \/ Place' = -1
<1>1. CASE save.why = "step" \/ save.why = "complete"
  BY <1>1 DEF SaveReturns, AfterStepSave, AfterAbortSave,
       AfterCompleteSave, AfterOutputSave, BeginSave, memory, Place, Asking
<1>2. CASE save.why = "abort"
  BY <1>2, ExitPlace DEF SaveReturns, AfterStepSave, AfterAbortSave,
       AfterCompleteSave, AfterOutputSave
<1>3. CASE save.why = "output"
  BY <1>3, ExitPlace DEF SaveReturns, AfterStepSave, AfterAbortSave,
       AfterCompleteSave, AfterOutputSave, memory, Place, Asking
<1> QED BY <1>1, <1>2, <1>3 DEF SaveReturns, AfterStepSave, AfterAbortSave,
       AfterCompleteSave, AfterOutputSave

\* A step that leaves the place or leaves the questionnaire, with the draft
\* untouched, made to keep the place, or spoilt.
LEMMA LeavePlace ==
    ASSUME IInv, Place' = Place \/ Place' = -1,
           \/ KeptPlace' = KeptPlace
           \/ Asking /\ KeptPlace' = Place
           \/ Asking /\ KeptPlace' = -1
    PROVE  [Progress!PNext]_<<Place, KeptPlace>>
BY PlaceType
DEF Progress!PNext, Progress!Keep, Progress!Drop, Progress!Leave,
    Progress!Nowhere

\* A file that is not tagged keeps no place.
LEMMA SpoiltDraft ==
    ASSUME IInv, NEW f, f.state # "tagged", NEW p \in Paths,
           files' = [files EXCEPT ![p] = f]
    PROVE  KeptPlace' = KeptPlace \/ (p = "draft" /\ KeptPlace' = -1)
<1>1. CASE p = "draft"
  <2>1. files'["draft"] = f
    BY <1>1 DEF IInv, TypeOK, FilesType
  <2> QED BY <1>1, <2>1 DEF KeptPlace, IsDraft
<1>2. CASE p = "output"
  <2>1. files'["draft"] = files["draft"]
    BY <1>2 DEF IInv, TypeOK, FilesType, Paths
  <2> QED BY <2>1, KeptSame
<1> QED BY <1>1, <1>2 DEF Paths

\* Starting the installer opens the questionnaire or changes no place.
LEMMA LaunchRefines ==
    ASSUME IInv, Launch
    PROVE  [Progress!PNext]_<<Place, KeptPlace>>
<1>1. PICK o \in Launches : \/ LaunchFresh(o) \/ LaunchAsk(o) \/ LaunchDraft(o)
                            \/ LaunchAnswerfile(o) \/ LaunchRefused(o)
  BY DEF Launch
<1>2. phase = "off" /\ files' = files
  BY <1>1 DEF LaunchFresh, LaunchAsk, LaunchDraft, LaunchAnswerfile,
              LaunchRefused, Started
<1>3. ~Asking /\ Place = -1 /\ KeptPlace' = KeptPlace
  BY <1>2, KeptSame DEF Asking, Place
<1>4. <<>> = Prefix(0) /\ 0 \in 0..Len(Steps)
  BY PrefixEnds, StepsAssumption
<1>5. CASE EnterQuestionnaire(<<>>)
  BY <1>2, <1>3, <1>4, <1>5, OpenPlace DEF Progress!PNext
<1>6. CASE LaunchDraft(o)
  <2>1. o.answerfile = "draft"
    BY <1>6, LaunchesAssumption DEF LaunchDraft, IInv, FilesListPrefix, IsDraft
  <2>2. PICK n \in 0..Len(Steps) : files["draft"].steps = Prefix(n)
    BY <1>6, <2>1 DEF LaunchDraft, IInv, FilesListPrefix, IsDraft, Paths
  <2>3. EnterQuestionnaire(Prefix(n)) /\ IsDraft(files["draft"])
    BY <1>6, <2>1, <2>2 DEF LaunchDraft, Resume
  <2> QED BY <1>2, <1>3, <2>2, <2>3, OpenPlace DEF Progress!PNext
<1>7. CASE phase' \in {"off", "ask", "dump", "confirm"}
  BY <1>3, <1>7 DEF Place, Asking
<1> QED
  BY <1>1, <1>5, <1>6, <1>7
  DEF LaunchFresh, LaunchAsk, LaunchAnswerfile, LaunchRefused, Exit

\* Each step of writeDraft keeps the place, drops it, or leaves it alone.
LEMMA WriteDraftRefines ==
    ASSUME IInv, WriteDraft
    PROVE  [Progress!PNext]_<<Place, KeptPlace>>
<1>1. phase = "saving" /\ Asking /\ save.path \in Paths
  BY DEF WriteDraft, SaveDump, SaveCannotOpen, SaveCutShort, SaveTag,
         SaveTagFails, Asking, IInv, TypeOK
<1>2. CASE SaveDump
  <2>1. Place' = Place
    BY <1>1, <1>2 DEF SaveDump, memory, Place, Asking
  <2>2. KeptPlace' = KeptPlace \/ KeptPlace' = -1
    <3> DEFINE f == Dumped(model, told)
    <3>1. f.state # "tagged"
      BY DEF Dumped
    <3>2. files' = [files EXCEPT ![save.path] = f]
      BY <1>2 DEF SaveDump
    <3> HIDE DEF f
    <3> QED BY <1>1, <3>1, <3>2, SpoiltDraft
  <2> QED BY <1>1, <2>1, <2>2, LeavePlace
<1>3. CASE SaveCannotOpen \/ SaveTagFails
  BY <1>1, <1>3, SaveReturnsPlace, KeptSame, LeavePlace
  DEF SaveCannotOpen, SaveTagFails
<1>4. CASE SaveCutShort
  <2>1. KeptPlace' = KeptPlace \/ KeptPlace' = -1
    <3>1. Torn.state # "tagged"
      BY DEF Torn
    <3> QED BY <1>1, <1>4, <3>1, SpoiltDraft DEF SaveCutShort
  <2> QED BY <1>1, <1>4, <2>1, SaveReturnsPlace, LeavePlace DEF SaveCutShort
<1>5. CASE SaveTag
  <2> DEFINE f == Tagged(files[save.path], save.list, pending, save.complete)
  <2>1. f.steps = save.list
    BY DEF Tagged
  <2>2. files' = [files EXCEPT ![save.path] = f]
    BY <1>5 DEF SaveTag, IInv, TypeOK, FilesType
  <2> HIDE DEF f
  <2>3. Len(save.list) = stepIndex
    BY <1>1, PrefixType DEF IInv, TypeOK, SessionInv, HistoryIsPrefix
  <2>4. \/ KeptPlace' = KeptPlace
        \/ KeptPlace' = Place
        \/ KeptPlace' = -1
    <3>1. CASE save.path = "draft"
      <4>1. files'["draft"] = f
        BY <2>2, <3>1 DEF IInv, TypeOK, FilesType, Paths
      <4> QED BY <1>1, <2>1, <2>3, <4>1 DEF KeptPlace, Place
    <3>2. CASE save.path = "output"
      <4>1. files'["draft"] = files["draft"]
        BY <2>2, <3>2 DEF IInv, TypeOK, FilesType, Paths
      <4> QED BY <4>1, KeptSame
    <3> QED BY <1>1, <3>1, <3>2 DEF Paths
  <2>5. Place' = Place \/ Place' = -1
    BY <1>1, <1>5, SaveReturnsPlace DEF SaveTag
  <2> QED BY <1>1, <2>4, <2>5, LeavePlace
<1> QED BY <1>2, <1>3, <1>4, <1>5 DEF WriteDraft

\* An answer and Back move by one step; the rest opens or leaves.
LEMMA OperatorRefines ==
    ASSUME IInv, Operator
    PROVE  [Progress!PNext]_<<Place, KeptPlace>>
<1>0. files' = files /\ KeptPlace' = KeptPlace
  BY KeptSame
  DEF Operator, ContinueDraft, IgnoreDraft, QuitAsk, CompleteStep, Back, Quit,
      Confirm, Decline
<1>1. CASE ContinueDraft
  <2>1. IsDraft(files["draft"]) /\ ~Asking
    BY <1>1 DEF ContinueDraft, IInv, SessionInv, Asking
  <2>2. PICK n \in 0..Len(Steps) : files["draft"].steps = Prefix(n)
    BY <2>1 DEF IInv, FilesListPrefix, IsDraft, Paths
  <2>3. EnterQuestionnaire(Prefix(n))
    BY <1>1, <2>2 DEF ContinueDraft, Resume
  <2> QED BY <1>0, <2>1, <2>2, <2>3, OpenPlace DEF Progress!PNext
<1>2. CASE IgnoreDraft
  <2>1. <<>> = Prefix(0) /\ 0 \in 0..Len(Steps) /\ ~Asking
    BY <1>2, PrefixEnds, StepsAssumption DEF IgnoreDraft, Asking
  <2> QED BY <1>0, <1>2, <2>1, OpenPlace DEF IgnoreDraft, Progress!PNext
<1>3. CASE QuitAsk \/ Decline
  BY <1>0, <1>3, ExitPlace, LeavePlace DEF QuitAsk, Decline
<1>4. CASE CompleteStep \/ Back
  <2>1. /\ phase = "steps" /\ phase' = "saving"
        /\ stepIndex \in 0..Len(Steps) /\ Len(Steps) \in Nat
        /\ \/ stepIndex < Len(Steps) /\ stepIndex' = stepIndex + 1
           \/ stepIndex > 0 /\ stepIndex' = stepIndex - 1
    BY <1>4, StepsAssumption
    DEF CompleteStep, Back, AtStep, BeginSave, IInv, TypeOK
  <2> QED
    BY <1>0, <2>1
    DEF Place, Asking, Progress!PNext, Progress!Move, Progress!Nowhere,
        Progress!Places
<1>5. CASE Quit
  BY <1>0, <1>5 DEF Quit, AtStep, BeginSave, Place, Asking
<1>6. CASE Confirm
  BY <1>0, <1>6 DEF Confirm, Place, Asking
<1> QED BY <1>1, <1>2, <1>3, <1>4, <1>5, <1>6 DEF Operator

\* What the process does by itself stays or leaves; the draft is not written.
LEMMA ProgramRefines ==
    ASSUME IInv, Program
    PROVE  [Progress!PNext]_<<Place, KeptPlace>>
<1>1. KeptPlace' = KeptPlace
  <2>1. files'["draft"] = files["draft"]
    BY DEF Program, StepThrows, DownloadDone, DownloadFails, AwaitsDownload, Generate,
           GenerateThrows, DumpAnswerfile, EndInstall, IInv, TypeOK, FilesType,
           Paths
  <2> QED BY <2>1, KeptSame
<1>2. Place' = Place \/ Place' = -1
  BY ExitPlace
  DEF Program, StepThrows, DownloadDone, DownloadFails, AwaitsDownload, Generate, GenerateThrows,
      DumpAnswerfile, EndInstall, AllAnswered, BeginSave, memory, Place, Asking
<1> QED BY <1>1, <1>2, LeavePlace

\* A crash leaves, and may spoil the draft that was being written.
LEMMA CrashRefines ==
    ASSUME IInv, Crash
    PROVE  [Progress!PNext]_<<Place, KeptPlace>>
<1>1. Place' = -1
  BY ExitPlace DEF Crash
<1>2. CASE UNCHANGED files
  BY <1>1, <1>2, KeptSame, LeavePlace
<1>3. CASE phase = "saving" /\ files' = [files EXCEPT ![save.path] = Torn]
  <2>1. Asking /\ save.path \in Paths /\ Torn.state # "tagged"
    BY <1>3 DEF Asking, IInv, TypeOK, Torn
  <2>2. KeptPlace' = KeptPlace \/ KeptPlace' = -1
    BY <1>3, <2>1, SpoiltDraft
  <2> QED BY <1>1, <2>1, <2>2, LeavePlace
<1>4. CASE files' = [files EXCEPT !["output"] = Torn]
  <2>1. files'["draft"] = files["draft"]
    BY <1>4 DEF IInv, TypeOK, FilesType, Paths
  <2> QED BY <1>1, <2>1, KeptSame, LeavePlace
<1> QED BY <1>2, <1>3, <1>4 DEF Crash

\* Whatever the questionnaire asks and however often the installer is started,
\* killed or left, the sessions implement DraftProgress: the cursor moves by
\* one step, a draft keeps the place where the operator is, and a resumed
\* questionnaire opens there.
THEOREM SessionsKeepProgress == Spec => KeepsProgress
<1>1. Init => Progress!PInit
  BY DEF Init, Progress!PInit, Progress!Nowhere, Place, KeptPlace, Asking,
         IsDraft, NoFile, Paths
<1>2. IInv /\ [Next]_vars => [Progress!PNext]_<<Place, KeptPlace>>
  <2> SUFFICES ASSUME IInv, [Next]_vars
               PROVE  [Progress!PNext]_<<Place, KeptPlace>>
    OBVIOUS
  <2>1. CASE UNCHANGED vars
    BY <2>1 DEF vars, Place, KeptPlace, Asking, IsDraft
  <2> QED
    BY <2>1, LaunchRefines, WriteDraftRefines, OperatorRefines, ProgramRefines,
       CrashRefines
    DEF Next, Done
<1> QED
  BY <1>1, <1>2, InitIInv, NextIInv, PTL DEF Spec, KeepsProgress, Progress!PSpec
=============================================================================
