\* Two commands of the shell and a JavaScript run beside Python.  The frames of the two
\* levels have different rules.
CONSTANTS
  Bash = {b1, b2}
  Js = {j1}
  Py = {p1, p2, p3, p4}
  Levels = {routed, local}
  Strict = {local}
  NoCall = NoCall
SPECIFICATION Spec
INVARIANTS
  TypeOK
  StoppedWritesNothing
  StoppedCodeEndsUnlessLost
  ReadyIsThere
  WaitIsSettled
