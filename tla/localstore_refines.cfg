\* The localStorage store with a working localStorage: it implements
\* RecordStore across every action, import and page reload.
CONSTANTS
    ProviderIds <- MC_ProviderIds
    PaymentIds <- MC_PaymentIds
    PVals <- MC_PVals
    RateSnaps <- MC_RateSnaps
    Dues = {0, 1}
    MaxDue = 1
    None = None
    Absent = Absent
    Corrupt = Corrupt
    Docs <- MC_Docs
    StorageMayFail = FALSE
SPECIFICATION Spec
INVARIANT TypeOK
PROPERTY ImplementsRecordStore
