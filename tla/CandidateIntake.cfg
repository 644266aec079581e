SPECIFICATION IntakeSpec
CONSTANTS
  Candidates <- MCCandidates
  Categories = {1, 2, 3}
  Category <- MCCategory
  Quota <- MCQuota
  QuotaOrder <- MCQuotaOrder
  Slots = 2
  Window = 4
  Pools <- MCPools
  Pins <- MCPins
  Configured <- MCConfigured
  Agendas <- MCAgendas
  Period = 12
INVARIANTS
  PinnedAreRun
  RotationReaches
