--------------------------- MODULE MCTwinDelivery ---------------------------
(* TwinDelivery on small instances. *)
EXTENDS TwinDelivery, TLC

\* The answers the code recognises: ACK with table and key, a row of
\* tbl_events, ACK with Reason=Setting, both ACKs in one frame, NACK.
AllShapes == {<<"todo">>, <<"event">>, <<"reason">>, <<"todo", "reason">>, <<"nack">>}
\* Rows of tbl_events only, the answer that ends the tracking of a setting.
EventOnly == {<<"event">>}

Symmetric == Permutations(Names) \cup Permutations(Sessions) \cup Permutations(Devices)
==============================================================================
