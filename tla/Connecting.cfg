SPECIFICATION Spec
CONSTANTS
  Transports = {"unix", "tcp", "nonce-tcp"}
  Mechanisms <- BothMechanisms
  Processes = {"DBUS_COOKIE_SHA1"}
  MaxChallenges = 2
INVARIANTS
  InStep
PROPERTIES
  ConnectsOrCleansUp
CHECK_DEADLOCK FALSE
