\* One intent of any class, contested by two brokers.
SPECIFICATION FairSpec
CONSTANTS
  set = set
  patch = patch
  alert = alert
  Keys = {k1}
  Operations <- AllOperations
  EffectClass <- MCEffectClass
  Brokers = {b1, b2}
  GrantIds = {g1, g2}
  TTLs = {1}
  MaxTime = 2
  MaxFence = 3
  NoOp = NoOp
  NoBroker = NoBroker
  NoGrant = NoGrant
  NoKey = NoKey
INVARIANTS AppliedOnceAsProposed ApprovalIsBinding FencesAgree OutboxIsTheHistory
PROPERTIES AppliedWithinValidity KeepsPromise PolicyEffectsSettle
CHECK_DEADLOCK FALSE
