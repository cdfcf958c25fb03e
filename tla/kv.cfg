SPECIFICATION Spec
CONSTANTS
  Offered <- MCOffered
  Empty <- MCEmpty
  NoId = NoId
  Missing = Missing
  MaxEntries = 4
INVARIANTS StoreIsEffectiveWrites RequestsNameFirstEntry ResultsFaithful RestartRebuilds DamageRefused
CHECK_DEADLOCK FALSE
