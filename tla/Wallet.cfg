\* Creation, verification and notifications interleave on every rail.
CONSTANTS
  None = None
  Payments <- MCPayments
  Rail <- MCRail
  Verifiers = {v1, v2}
SPECIFICATION Spec
\* Clients may stop asking once every request is answered.
CHECK_DEADLOCK FALSE
SYMMETRY VerifierSymmetry
INVARIANTS
  WalletInv
PROPERTIES
  SettledChangesOnlyByNotice
