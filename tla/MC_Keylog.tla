------------------------------ MODULE MC_Keylog ------------------------------
(* Keylog on a small instance: a TLS 1.3 line with a 48-byte secret and a    *)
(* line whose label the sidecar does not know.                               *)
EXTENDS Keylog

CONSTANTS a1, f1, f2

Tls13 == [id |-> 1, label |-> "CLIENT_TRAFFIC_SECRET_0", len |-> 48]
Early == [id |-> 2, label |-> "EARLY_EXPORTER_SECRET", len |-> 32]

KnownAndUnknown == {Tls13, Early}
OneProc == {a1}
TwoConns == {f1, f2}

=============================================================================
