\* Every operation of the API, of every kind of recipient.
SPECIFICATION Spec
CONSTANTS
    Ops <- MCOps
    Texts <- MCTexts
    Remotes <- MCRemotes
    Together <- MCTogether
INVARIANTS
    ApiTypeOK
    AtMostOneCopy
    AnswersAreTrue
    OneRecipient

    
CHECK_DEADLOCK FALSE
