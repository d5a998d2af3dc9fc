------------------------------- MODULE Metrics -------------------------------
(***************************************************************************)
(* The exporters of metrics, src/reporter/metrics: each one opens a file,  *)
(* a socket or a listener when it is initialised, serves it from its own   *)
(* goroutine, and closes it once the channel "done" is closed; Stop waits  *)
(* for all of them.  Daemon calls Start and Stop.                          *)
(*                                                                         *)
(* The goroutine that samples runtime metrics holds no resource and nobody *)
(* waits for it: it is left out.                                           *)
(***************************************************************************)
EXTENDS Integers, Sequences

CONSTANT Exporters   \* the configuration, a sequence of "file", "collectd" or "expvar"

VARIABLES
    metrics,     \* where the calls of Start() and Stop() are
    exporters,   \* the exporters initialised so far: their goroutines
    wg,          \* the wait group
    done         \* the channel is closed

TypeOK ==
    /\ metrics \in {"new", "Start", "started", "failing", "failed",
                    "Stop", "stopped", "panicked"}
    /\ exporters \in Seq({"idle", "exporting", "closed", "gone"})
    /\ Len(exporters) <= Len(Exporters)
    /\ wg \in 0..Len(Exporters)
    /\ done \in BOOLEAN

Init ==
    /\ metrics = "new"
    /\ exporters = <<>>
    /\ wg = 0
    /\ done = FALSE

-----------------------------------------------------------------------------
Start ==
    /\ metrics = "new"
    /\ metrics' = "Start"
    /\ UNCHANGED <<exporters, wg, done>>

(* Stop() closes the channel; closing it twice would panic. *)
closeDone(next) ==
    /\ metrics' = IF done THEN "panicked" ELSE next
    /\ done' = TRUE

(* The exporters are initialised in their order.  One that cannot open its *)
(* file, its socket or its listener stops those that are there already.    *)
initExporter ==
    /\ metrics = "Start"
    /\ Len(exporters) < Len(Exporters)
    /\ \/ /\ exporters' = Append(exporters, "idle")
          /\ wg' = wg + 1
          /\ UNCHANGED <<metrics, done>>
       \/ /\ closeDone("failing")
          /\ UNCHANGED <<exporters, wg>>

Started ==
    /\ metrics = "Start"
    /\ Len(exporters) = Len(Exporters)
    /\ metrics' = "started"
    /\ UNCHANGED <<exporters, wg, done>>

Stop ==
    /\ closeDone("Stop")
    /\ UNCHANGED <<exporters, wg>>

(* wg.Wait() returns, and the call with it. *)
Waited ==
    /\ wg = 0
    /\ \/ metrics = "failing" /\ metrics' = "failed"
       \/ metrics = "Stop" /\ metrics' = "stopped"
    /\ UNCHANGED <<exporters, wg, done>>

-----------------------------------------------------------------------------
becomes(i, goroutine) == exporters' = [exporters EXCEPT ![i] = goroutine]

(* A tick writes the registry out, a request is answered. *)
Export(i) ==
    /\ i \in DOMAIN exporters
    /\ exporters[i] = "idle"
    /\ becomes(i, "exporting")
    /\ UNCHANGED <<metrics, wg, done>>

Exported(i) ==
    /\ i \in DOMAIN exporters
    /\ exporters[i] = "exporting"
    /\ becomes(i, "idle")
    /\ UNCHANGED <<metrics, wg, done>>

(* A ticker's goroutine notices between two exports; the HTTP server stops *)
(* even if a request does not end.                                         *)
Close(i) ==
    /\ i \in DOMAIN exporters
    /\ done
    /\ \/ exporters[i] = "idle"
       \/ exporters[i] = "exporting" /\ Exporters[i] = "expvar"
    /\ becomes(i, "closed")
    /\ UNCHANGED <<metrics, wg, done>>

Done(i) ==
    /\ i \in DOMAIN exporters
    /\ exporters[i] = "closed"
    /\ becomes(i, "gone")
    /\ wg' = wg - 1
    /\ UNCHANGED <<metrics, done>>

Call == initExporter \/ Started \/ Waited
=============================================================================
