CONSTANTS
  Delivery = {1, 2, 3}
  Account = {"a", "b"}
  AccountOf <- MCTwoAccounts
  Unreadable = {2}
  Process = {w1, w2}
  ListLimit = 2
  MaxFaults = 1
  MaxChanges = 2
  NoDelivery = NoDelivery
  w1 = w1
  w2 = w2
SPECIFICATION FairCompletionSpec
INVARIANTS
  OneClaimant
  CompletedHasInteraction
PROPERTIES
  NeverClaimableAgain
  ClaimableIsTaken
