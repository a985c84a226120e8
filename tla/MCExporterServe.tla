-------------------------- MODULE MCExporterServe --------------------------
(* Instances of ExporterServe for TLC: Serve calls, handlers and Shutdown calls are model *)
(* values given in the configuration.                                                    *)
EXTENDS ExporterServe
=============================================================================
