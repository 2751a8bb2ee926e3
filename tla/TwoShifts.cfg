\* The calendar of ShiftSafety, with two requests of operators.
SPECIFICATION RaceSpec
CONSTANTS
  Count = 2
  Length = 2
  Lead = 1
  Desks = {d1}
  MaxTopics = 1
  MaxEdits = 2
INVARIANT OneShiftOnAir
