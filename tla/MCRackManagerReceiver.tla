----------------------- MODULE MCRackManagerReceiver -----------------------
(***************************************************************************)
(* Small instances of RackManagerReceiver: a record with two fields and    *)
(* one with one field; payloads without any recognised field, with one     *)
(* record, and with both.                                                  *)
(***************************************************************************)
EXTENDS RackManagerReceiver

MCCell == {<<"leak", "leak">>, <<"leak", "timestamp">>, <<"flow", "value">>}

MCLeak == <<<<"leak", "leak">>, <<"leak", "timestamp">>>>

MCPayloads == {<<>>, MCLeak, MCLeak \o <<<<"flow", "value">>>>}
=============================================================================
