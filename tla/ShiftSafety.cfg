\* Two windows of two units and one desk; three requests of operators.
SPECIFICATION MCSpec
CONSTANTS
  Count = 2
  Length = 2
  Lead = 1
  d1 = d1
  Desks = {d1}
  MaxTopics = 1
  MaxEdits = 3
INVARIANTS
  NoUnseenSuggestionRuns
PROPERTIES
  ImplementsCalendar
  LockedLinesSurvive
  OverdueShiftCloses
