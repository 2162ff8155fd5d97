SPECIFICATION Spec
CONSTANTS
    Steps <- ControlSteps
    EmptyModel <- InitialModel
    NoAnswers <- NothingTold
    Answers <- StepAnswers
    AnswerStep <- CompleteAnswer
    Interrupted <- PartialAnswer
    ApplyDraft <- DraftToModel
    FillData <- FillModel
    FillThrows <- FillModelThrows
    Acceptable <- AnswerFileAccepts
    Revise <- RecordAnswer
    Launches <- AllLaunches
    MaxRuns = 2
    Subnets = {"s1"}
    Created <- UsualNetworks
    OFEDKinds = {}
    MaxNodes = 1
    Queues = {"slurm"}
INVARIANTS
    TypeOK
    HistoryIsPrefix
    FilesListPrefix
    InstallGate
    CompletedAnswersHold
PROPERTIES
    StopKeepsProgress
    KeepsProgress
