SPECIFICATION Spec
CONSTANTS
    Tabs = {tab1, tab2}
    Attempts = {attempt1, attempt2}
    NoTab = NoTab
    NoAttempt = NoAttempt
    MaxTokens = 3
SYMMETRY TabSymmetry
INVARIANTS
    CodeSentOnce
    LogoutForgets
    StoredTokenUsable
PROPERTIES
    DeletesOnlyRefused
CHECK_DEADLOCK FALSE
