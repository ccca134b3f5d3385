SPECIFICATION TreeSpec
CONSTANTS
    MaxRules = 4
    MaxEdits = 4
    Gap = 1
    RegexFields = {"subject"}
    ExactFields = {"domain"}
    OverrideFields = {"groups"}
    SimFields = {"subject", "domain"}
    Vals = {1, 2}
    Blank = "any"
    Texts <- MCTexts
    Accepted <- MCAccepted
    AcceptedBoth <- MCAcceptedBoth
    Forms <- TreeForms
INVARIANT PublishNeverFails
\* or, in its place:
\* INVARIANT CombinedIsAnd
CHECK_DEADLOCK FALSE
