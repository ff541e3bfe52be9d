SPECIFICATION ToolSpec
CHECK_DEADLOCK FALSE
INVARIANTS ChallengeGrantable ReplayRetriable
PROPERTIES OneConsentSuffices GrantsKept
