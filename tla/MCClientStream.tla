--------------------------- MODULE MCClientStream ---------------------------
(* Small instances of ClientStream for TLC. *)
EXTENDS ClientStream

MCByte == {"v", "w", "h", "0", "a", "b", "c"}
MCVersion == <<"v", "w">>
MCHello == <<"h">>
MCHeartbeat == <<"0">>
MCRequests == {<<"a", "b">>, <<"c">>}
==============================================================================
