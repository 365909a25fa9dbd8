CONSTANTS
    self = self
    colleague = colleague
    newcomer = newcomer
    h1 = h1
    h2 = h2
    None = None
    Account = {self, colleague, newcomer}
    Me = self
    Team = {self, colleague}
    Run = {h1}
    Forms <- MCForms
    MaxWrites = 2
    MaxElsewhere = 1
SPECIFICATION Spec
INVARIANTS
    TypeOK
    TeamPageMatchesBackend
    ReportedIsSaved
    SubmittingHasHandler
    TeamShowsOwnWrites
