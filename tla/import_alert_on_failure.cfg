\* handleImport treats the Promise importPaymentsData returns as its
\* result.
CONSTANTS
    PaymentIds <- MC_PaymentIds
    ProviderIds <- MC_ProviderIds
    OldIds <- MC_OldIds
    InitServer <- MC_InitServer
    InitProviders <- MC_InitProviders
    Docs <- MC_Docs
    MaxDue = 2
    MaxClicks = 2
    MaxMounts = 2
    Corrupt = Corrupt
    None = None
SPECIFICATION Spec
INVARIANT ImportAlertMatchesResult
CHECK_DEADLOCK FALSE
