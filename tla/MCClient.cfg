CONSTANTS
  Roles <- MCRoles
  MaxSaves = 2
  MaxEdits = 1
  Nothing = Nothing
SPECIFICATION TabSpec
INVARIANTS TabTypeOK NoSurprise MenuLeadsToAnswers ShownIsCurrent
