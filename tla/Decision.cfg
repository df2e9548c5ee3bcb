\* Two lists of four lines in all, three families of lines, or the user's own rules.
CONSTANTS
    ListCount = 2
    Labels <- Tokens
    Names <- Queried
    Star = "*"
    Groups <- Choice
    SecondLevels = {"co", "com"}
    CountryCodes = {"uk"}
    None = None
    MaxDomains = 3
    MaxPatterns = 2
    MaxLines = 4
    MaxRules = 3
    Themes <- ThemesMC
SPECIFICATION Spec
INVARIANTS TypeOK Precedence BlocksHold BlocksAreEarned NearestRewrite CheckAgrees
\* The lines are bounded.
CHECK_DEADLOCK FALSE
