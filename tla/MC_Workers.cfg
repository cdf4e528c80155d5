\* Two workers, a file and a name without one, one retry; five events.
CONSTANTS
  Ids = {w1, w2}
  Paths = {p1, p2}
  Initial = {p1}
  Person = Person
  Absent = Absent
  Unknown = Unknown
  MaxRetries = 1
  MaxEdits = 3
  MaxExtras = 4
  MaxEvents = 5
SPECIFICATION Spec
INVARIANTS TypeOK EditsAccounted
SYMMETRY AnyWorker
