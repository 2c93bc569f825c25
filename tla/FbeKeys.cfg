\* Three users, with the same password, different ones or none.
CONSTANTS
  Users = {owner, guest, work}
  User0 = owner
  Secrets = {p, q, bang}
  Default = bang
  NoPassword = NoPassword
  DE = DE
  Tries = 3
  MaxLayers = 2
SPECIFICATION Spec
INVARIANTS MarkedIsReadable OneGuess UnMountReleases
PROPERTIES RemountRestores
