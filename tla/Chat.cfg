CONSTANTS
    m1 = m1
    None = None
    Message = {m1}
    MaxActive = 1
    QueueCap = 1
    MaxTurns = 2
    MaxEvents = 1
    MaxNights = 1
SPECIFICATION FairSpec
INVARIANTS TurnIsKept EndsOnce
PROPERTIES AnswerIsOwn EveryTurnEnds EveryTalentEnds
CHECK_DEADLOCK FALSE
