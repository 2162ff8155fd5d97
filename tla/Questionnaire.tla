--------------------------- MODULE Questionnaire ---------------------------
(***************************************************************************)
(* The installer's sessions (TuiSession) with the thirteen steps and the    *)
(* answers of the program (ClusterModel): a configuration binds the         *)
(* operators TuiSession leaves open to the definitions of ClusterModel.     *)
(***************************************************************************)
EXTENDS TuiSession, ClusterModel

\* The command lines: the questionnaire, the questionnaire started from either
\* file, a dry run, a dump, and an unattended installation.
Questionnaires ==
    { [tui |-> TRUE, answerfile |-> "none", dryRun |-> FALSE, dump |-> FALSE] }
FromFile ==
    { [tui |-> TRUE, answerfile |-> f, dryRun |-> FALSE, dump |-> FALSE]
      : f \in Paths }
DryRuns ==
    { [tui |-> TRUE, answerfile |-> "none", dryRun |-> TRUE, dump |-> FALSE] }
Unattended ==
    { [tui |-> FALSE, answerfile |-> f, dryRun |-> FALSE, dump |-> f = "output"]
      : f \in Paths }
AllLaunches == Questionnaires \cup FromFile \cup DryRuns \cup Unattended

\* Networks one visit of the networking step can create: the external and the
\* management network, or only one of the two when the other raised an error,
\* which is logged and skipped.
UsualNetworks == { {"External", "Management"} }
SkippedNetworks == UsualNetworks \cup { {"External"}, {"Management"} }

\* Shortened questionnaires.  The loop, the saves and the resume treat all steps
\* alike, so a run keeps the steps whose answers its question is about.
ControlSteps == <<"networking", "os", "nodes", "queue">>
LaunchSteps == <<"networking", "os", "nodes">>

-----------------------------------------------------------------------------
\* Model m holds the latest answer to step s that t records.  What is only ever
\* added to holds at least the answer: a network has the settings of the latest
\* visit, the nodes and the mail system are there.  An ISO that was there when it
\* was chosen may be gone when a draft is resumed, and an empty choice of bundles
\* reads as none; an empty choice of repositories does too, and is left out.
HoldsNetworks(m, a) ==
    /\ \A p \in a.created :
          HasNetwork(m, p) /\ m.nets[p][Len(m.nets[p])].net = a.subnet[p]
    /\ a.ofed # "none" => m.ofed = a.ofed
HoldsNodes(m, q) == HasNetwork(m, "Management") /\ \A n \in 1..q : m.nodes[n] > 0
HoldsAnswer(s, m, a) ==
    /\ s \in ScalarSteps \ {"repositories"} => m.scalar[s] = a
    /\ s = "networking" => HoldsNetworks(m, a)
    /\ s = "os"    => m.disk \in (IF a = "download" THEN {"planned"} ELSE {"local", Unset})
    /\ s = "ohpc"  => m.bundles \in (IF a = "some" THEN {a} ELSE {a, Unset})
    /\ s = "nodes" => HoldsNodes(m, a)
    /\ s = "queue" => m.queue = a
    /\ s = "mail"  => (a => m.mail)

\* The first n steps are answered, and m holds what t records of them.
Holds(n, m, t) ==
    \A i \in 1..n : t[Steps[i]] # <<>> /\ HoldsAnswer(Steps[i], m, t[Steps[i]][1])

\* p says whether the image of the os step is still to be downloaded.
Awaits(n, t, p) == \A i \in 1..n : Steps[i] = "os" => p = (t["os"] = <<"download">>)

\* A process that asks, or that has asked and installs.
Answering == Asking \/ (phase = "install" /\ opts.tui)

\* A step the questionnaire counts as done is one whose latest answer is in the
\* model, up to the installation and whatever Back, Quit, half-finished visits,
\* failed saves, crashes and resumed drafts came before; a download stays pending
\* until it has been done, after the last step.
CompletedAnswersHold ==
    /\ Answering => Holds(stepIndex, model, told)
    /\ phase \in {"steps", "saving"} /\ save.why \notin {"complete", "output"} =>
            Awaits(stepIndex, told, pending)

-----------------------------------------------------------------------------
\* The answers: clusters the questionnaire and the files can make, and records of
\* what was told.
Models ==
    [ scalar  : [ScalarSteps -> {Unset, "given", "partial"}],
      nets    : [Profiles -> Seq([ip : Subnets, net : Subnets])],
      ofed    : OFEDKinds \cup {"none", "inbox"},
      disk    : {Unset, "planned", "local"},
      bundles : {Unset, "none", "some"},
      topology: BOOLEAN,
      nodes   : [1..MaxNodes -> Nat],
      queue   : Queues \cup {"none", "slurm", "pbs"},
      mail    : BOOLEAN ]
Record(t) ==
    /\ DOMAIN t = StepNames
    /\ \A s \in StepNames : t[s] = <<>> \/ \E a \in StepAnswers(s) : t[s] = <<a>>

FileAnswers(f) == f.body \in Models /\ f.pending \in BOOLEAN /\ Record(f.told)

\* The type of the answers, in memory and in the files, which TypeOK leaves open.
AnswersType ==
    /\ model \in Models /\ pending \in BOOLEAN /\ Record(told)
    /\ \A f \in Paths : FileAnswers(files[f])

\* A file with the [tui] group holds the answers to the steps it lists: a draft
\* with the download they ask for, a completed one for all steps.
FileHolds(f) ==
    f.state = "tagged" =>
        /\ Holds(Len(f.steps), f.body, f.told)
        /\ f.draft => Awaits(Len(f.steps), f.told, f.pending)
        /\ ~f.draft => f.steps = Steps /\ f.pending = FALSE

\* What makes CompletedAnswersHold inductive: the files hold their answers, and
\* between the two writes of a save the file has the record of the process.
AnswersInv ==
    /\ AnswersType
    /\ CompletedAnswersHold
    /\ phase \in {"off", "ask", "steps"} => save.why \notin {"complete", "output"}
    /\ phase = "saving" /\ save.stage = "tag" => files[save.path].told = told
    /\ \A f \in Paths : FileHolds(files[f])

-----------------------------------------------------------------------------
\* Statements of the program about itself that its code does not keep.

\* "Use Back to revisit earlier screens before installation starts"
\* (PresenterInstructions.h 19-20): a network has the address of the latest
\* visit, on its interface and wherever the installation names it.
RevisitedAnswersTakeEffect ==
    (phase = "install" /\ opts.tui) =>
        \A p \in told["networking"][1].created :
            Addresses(model, p) = {told["networking"][1].subnet[p]}

\* "progress is saved to a draft answerfile in the current directory and can be
\* resumed later" (PresenterInstructions.h 21-22): the node list of a
\* questionnaire that was left, or gone back in, is accepted at the end.
ResumedAnswersAccepted ==
    phase = "generate" => UniqueNodes(model)

\* "Answerfile {} is an incomplete TUI draft" (main.cpp 341): an unattended
\* installation never starts from a questionnaire that was not finished.
UnattendedNeedsCompletedAnswers ==
    phase = "confirm" => \A i \in 1..Len(Steps) : told[Steps[i]] # <<>>
=============================================================================
