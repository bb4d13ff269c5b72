\* Two authorities, three CAs, two templates; a form may simply be left.
CONSTANTS
    a1 = a1
    a2 = a2
    Authorities = {a1, a2}
    Forest <- MCForest
    TemplatesOf <- MCTemplatesOf
    Database <- MCDatabase
    ConfigStrings <- MCConfigStrings
    CRMFs <- MCCRMFs
    csr = csr
    Pkcs10s = {csr}
    NoValue = NoValue
SPECIFICATION Spec
CHECK_DEADLOCK FALSE
INVARIANTS
    OffersAreReal
    DiscoversWhatWasChosen
    ProfileIsFollowed
