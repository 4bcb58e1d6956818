---------------------------- MODULE MCConnection ----------------------------
(***************************************************************************)
(* Short streams that reach each branch of the handler; the first exceeds  *)
(* the receive buffer.                                                     *)
(***************************************************************************)
EXTENDS Connection

MCStreams == {<<"HELLO", "REGISTER", "DATA", "PING">>,
              <<"HELLO", "RECONNECT", "UNREGISTER">>,
              <<"DATA", "PING", "BAD">>}

MCPayloadSize == [t \in Types |-> IF t \in {"DATA", "RECONNECT"} THEN 1 ELSE 0]
=============================================================================
