--------------------------- MODULE MC_PaymentsPage ---------------------------
(* One payment of provider P1 loaded on the page, two free payment ids and *)
(* two free provider ids for what an import creates.  The file to import   *)
(* names P1, which is also the id of the provider already on the server,   *)
(* and one payment whose provider P3 the file does not carry.              *)
EXTENDS PaymentsPage

MC_PaymentIds == {"a", "b", "c"}
MC_ProviderIds == {"P1", "P2", "P3"}
MC_OldIds == {"P1", "P3"}
MC_InitServer == [q \in MC_PaymentIds |->
                    IF q = "a" THEN [due |-> 0, prov |-> "P1"] ELSE None]
MC_InitProviders == {"P1"}

DocBackup == [providers |-> << "P1" >>,
              payments |-> << [prov |-> "P1", due |-> 0], [prov |-> "P3", due |-> 0] >>]
MC_Docs == {DocBackup, Corrupt}
=============================================================================
