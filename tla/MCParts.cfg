\* Names over four people and three edges of trust; manifests of two authors;
\* two applicants with tokens whose hashes fail or pass at a byte's middle;
\* messages around the block size and around 2^16; onion packets over three
\* nodes that start twice; four modules and two developers;
\* two replicas of a board opened
\* three times.
SPECIFICATION MCSpec
CONSTANTS
  Me = me
  Peers = {p1, p2, p3}
  NameKeys = {k1, k2}
  Scores = {1, 0}
  MaxDepth = 2
  MaxEdges = 3
  MaxLists = 2
  Publishers = {a1, a2}
  Roots = {r1, r2}
  MaxSequence = 3
  Applicants = {q1, q2}
  Difficulty = 10
  MaxAge = 1
  BanThreshold = 2
  HashBytes = {0, 63, 64, 255}
  Latest = 2
  MaxAttempts = 4
  Lengths = {0, 1, 508, 511, 512, 513, 65535, 65536, 65539, 131072}
  Nodes = {n1, n2, n3}
  MaxSessions = 2
  MaxPackets = 2
  Developers = {d1, d2}
  Wasms <- MCWasms
  MaxFuel = 2
  MaxSigned = 2
  Replicas = {b1, b2}
  RoomKeys = {1, 2}
  EntryOps = {6}
  MaxActors = 3
  MaxEntries = 3
  MaxSaved = 2
INVARIANTS
  WotNearest
  LogGrows
  BanNeedsRow
  DeliveredWhole
  OnlyTargetReads
  RunsWithinGrant
  ThreadsKept
SYMMETRY Interchangeable
CHECK_DEADLOCK FALSE
