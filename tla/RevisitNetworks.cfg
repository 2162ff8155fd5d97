SPECIFICATION Spec
CONSTANTS
    Steps <- LaunchSteps
    EmptyModel <- InitialModel
    NoAnswers <- NothingTold
    Answers <- StepAnswers
    AnswerStep <- CompleteAnswer
    Interrupted <- PartialAnswer
    ApplyDraft <- DraftToModel
    FillData <- FillModel
    FillThrows <- FillModelThrows
    Acceptable <- AnswerFileAccepts
    Revise <- RecordAnswer
    Launches <- Questionnaires
    MaxRuns = 1
    Subnets = {"s1", "s2"}
    Created <- UsualNetworks
    OFEDKinds = {}
    MaxNodes = 1
    Queues = {"none", "slurm", "pbs"}
INVARIANT
    RevisitedAnswersTakeEffect
