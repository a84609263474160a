\* Every tool's validator on every combination of the chosen raw values.
CONSTANTS
    UriRaws <- MCUriRaws
    ValueRaws <- MCValueRaws
SPECIFICATION Spec
INVARIANT TypeOK
INVARIANT UriDualMode
INVARIANT FalsyFormsAbsent
