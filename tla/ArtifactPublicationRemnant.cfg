\* One publisher, against the completeness of what the validity predicate accepts.
CONSTANTS
  Publishers = {p1}
  Names = {n1}
  Files <- JsonThenMarkdown
  Nobody = Nobody
SPECIFICATION Spec
INVARIANT IncompleteIsNotValid
CHECK_DEADLOCK FALSE
