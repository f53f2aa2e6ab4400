\* The page with one payment: clicks from the table, the cards and the
\* calendar, a provider delete, failed connections, and the import of a
\* backup file or an unreadable one.
CONSTANTS
    PaymentIds <- MC_PaymentIds
    ProviderIds <- MC_ProviderIds
    OldIds <- MC_OldIds
    InitServer <- MC_InitServer
    InitProviders <- MC_InitProviders
    Docs <- MC_Docs
    MaxDue = 2
    MaxClicks = 2
    MaxMounts = 2
    Corrupt = Corrupt
    None = None
SPECIFICATION Spec
INVARIANT PageTypeOK
INVARIANT CacheMatchesServerWhenQuiet
INVARIANT BusySlotHasRequest
INVARIANT ImportReportsEveryFailure
\* Once the clicks are spent, the events handled and the import returned,
\* the page idles: that is the system at rest, not a deadlock.
CHECK_DEADLOCK FALSE
