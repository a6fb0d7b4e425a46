CONSTANTS
  Nodes = {"h1", "s1", "s2", "s3"}
  NoNode = NoNode

SPECIFICATION Spec

INVARIANT SptIsShortestPathTree
INVARIANT TraversingIsShortestPath
