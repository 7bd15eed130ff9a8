SPECIFICATION FilterSpec
CONSTANTS
    entityId = entityId
    lastName = lastName
    createdAt = createdAt
    labels = labels
    person = person
    Null = Null
    Unanswered = Unanswered
    Refused = Refused
    Entities = {e1}
    Joinable = {person}
    Lists <- BothLists
    Values <- TwoValues
    Like <- LikeText
    MaxElements = 2
    MaxConditions = 2
CHECK_DEADLOCK FALSE
INVARIANTS
    AnswersWhatIsMeant
