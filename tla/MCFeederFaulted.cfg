CONSTANTS
  Switches = {1, 2, 3, 4, 5, 6}
  Sections = {1, 2, 3, 4}
  Kind <- MCKind
  From <- MCFrom
  To <- MCTo
  Rating <- MCRating
  Position <- MCPosition
  Ties <- MCTies
  Nodes <- MCNodes
  Load <- MCLoad
  Shots = 2
  MaxLoadTransfer = 6
  Supplies = {{1, 2, 3, 4}, {1, 2}}
  CountLimit = 4
  Requests = {"Open", "Closed"}
  MaxCalls = 4
SPECIFICATION Spec
CHECK_DEADLOCK FALSE
INVARIANT FaultedSectionStaysDead
