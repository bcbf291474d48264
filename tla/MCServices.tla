----------------------------- MODULE MCServices -----------------------------
(* Services on small instances. *)
EXTENDS Services

MCLaneRequests == {-4, 1, 2, 4, 8, 16}
MCAdapterKinds == {{}, {"loopback"}, {"virtual", "adapter or switch"},
                   {"virtual", "adapter or switch", "bluetooth"}}
MCLibraries == <<"adreno", "mali", "system">>
=============================================================================
