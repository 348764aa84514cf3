\* Every connector; three names on pages of one, two changes.
CONSTANTS
    Kinds <- EveryKind
    MaxName = 3
    MaxDigest = 2
    PageSize = 1
    MaxChanges = 2
SPECIFICATION Spec
INVARIANT TypeOK
INVARIANT ListingComplete
INVARIANT DigestServed
INVARIANT TestedCredentialsAccepted
PROPERTY CallsEnd
