SPECIFICATION Spec
CONSTANTS
    Steps <- LaunchSteps
    EmptyModel <- InitialModel
    NoAnswers <- NothingTold
    Answers <- StepAnswers
    AnswerStep <- CompleteAnswer
    Interrupted <- PartialAnswer
    ApplyDraft <- DraftToModel
    FillData <- FillModel
    FillThrows <- FillModelThrows
    Acceptable <- AnswerFileAccepts
    Revise <- RecordAnswer
    Launches <- Questionnaires
    MaxRuns = 2
    Subnets = {"s1"}
    Created <- UsualNetworks
    OFEDKinds = {}
    MaxNodes = 2
    Queues = {"none", "slurm", "pbs"}
INVARIANT
    ResumedAnswersAccepted
