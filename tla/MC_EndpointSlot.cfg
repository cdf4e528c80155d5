\* Four requests, two endpoints, aborts, a setting that changes.
CONSTANTS
  Callers = {c1, c2, c3, c4}
  Endpoints = {e1, e2}
  NoEndpoint = NoEndpoint
SPECIFICATION FairSlotSpec
PROPERTIES Implements EveryWaiterServed
