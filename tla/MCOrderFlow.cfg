SPECIFICATION Spec
CONSTANTS
    Handlers = {h1, h2}
    Texts <- MCTexts
    Limit = 1
SYMMETRY Alike
INVARIANT OrderTypeOK
INVARIANT ConfirmationComplete
INVARIANT ConfirmedAnswersAreNew
PROPERTY CancelHolds
PROPERTY TakenLeadHolds
PROPERTY StaleOrderHolds
