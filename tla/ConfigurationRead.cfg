SPECIFICATION Spec
CONSTANTS
  Within <- MCWithin
  NumberOf <- MCNumberOf
  PathOf <- MCPathOf
  AuthFiles = {"htpasswd"}
  Descriptions <- MCDescriptions
  Busy = {{}, {9090}}
INVARIANTS ReadAsWritten DamageRefused
PROPERTIES ServedIffValid
CHECK_DEADLOCK FALSE
