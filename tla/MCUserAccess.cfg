SPECIFICATION Spec
CONSTANTS
  Char <- MCChar
  CommonName <- MCCommonName
  Policy <- MCPolicy
  MaxChanges = 4
INVARIANTS
  UserTypeOK
  OutageCostsOneCall
PROPERTIES
  GrantsFollowPolicy
CHECK_DEADLOCK FALSE
