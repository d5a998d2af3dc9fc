------------------------------- MODULE MCDaemon -------------------------------
(* One exporter of each behaviour: a ticker, a server; or none at all. *)
EXTENDS Daemon

MCExporters == <<"file", "expvar">>

MCNoExporters == <<>>
=============================================================================
