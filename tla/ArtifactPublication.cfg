\* Three publishers, two run ids, two files, every failure; with and without a
\* parent directory to begin with.
CONSTANTS
  Publishers = {p1, p2, p3}
  Names = {n1, n2}
  Files <- JsonThenMarkdown
  Nobody = Nobody
SPECIFICATION Spec
SYMMETRY Interchangeable
INVARIANTS
  PublishedIsWhole
  OnlyTheMarkerIsTorn
  FailureLeavesNothing
  RemoversMadeTheParent
PROPERTIES
  KeepsShelf
CHECK_DEADLOCK FALSE
