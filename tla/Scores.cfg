SPECIFICATION Spec
CONSTANTS
    Questions <- MCQuestions
    GroupSize = 2
    TailLength = 2
INVARIANTS
    TypeOK
    ScoresAreFractions
    RightAnswerScoresFull
    FullScoreNeedsTheAnswer
    EditDistancesAgree
    BoxedCopiesAgree
    JoinScoreIsDice
    PartialCreditIsBelowHalf
CHECK_DEADLOCK FALSE
