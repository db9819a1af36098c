CONSTANTS
  Voters = {1, 2}
  NumOptions = 2
  Randoms = {3}
  P = 5
  Q = 7
  MaxTries <- Tries
  MaxCrashes = 1
  MaxFaults = 1
SPECIFICATION Spec
INVARIANTS TypeOK OneVotePerVoter AuditPasses AcceptedCounted TallyRight MerkleSound TalliesAgree
PROPERTIES RefusalExplained CountsVotes
CHECK_DEADLOCK FALSE
