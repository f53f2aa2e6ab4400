\* Two Mark Paid clicks on one row each show "Payment marked as paid";
\* the second reads the cached date before the first one's realtime
\* update arrived.
CONSTANTS
    PaymentIds <- MC_PaymentIds
    ProviderIds <- MC_ProviderIds
    OldIds <- MC_OldIds
    InitServer <- MC_InitServer
    InitProviders <- MC_InitProviders
    Docs <- MC_Docs
    MaxDue = 2
    MaxClicks = 2
    MaxMounts = 2
    Corrupt = Corrupt
    None = None
SPECIFICATION Spec
INVARIANT MarkToastMeansAdvance
CHECK_DEADLOCK FALSE
