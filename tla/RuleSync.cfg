\* PromoteNeutral, an action property, holds with these constants too.
SPECIFICATION RulesFairSpec
CONSTANTS
    MaxRules = 3
    MaxEdits = 4
    Gap = 1
    RegexFields = {"subject"}
    ExactFields = {"domain"}
    OverrideFields = {"groups"}
    SimFields = {"subject", "domain"}
    Vals = {1, 2}
    Blank = "any"
    Texts <- MCTexts
    Accepted <- MCAccepted
    AcceptedBoth <- MCAcceptedBoth
    Forms <- SyncForms
INVARIANT ParityUnderDiscipline
PROPERTIES UntouchedExact EventuallyInForce
CHECK_DEADLOCK FALSE
