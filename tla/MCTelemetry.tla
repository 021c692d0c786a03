---------------------------- MODULE MCTelemetry -----------------------------
(* Logger, tracing, span export and metrics for TLC. They share no state, so *)
(* a behaviour is one of them.                                               *)
EXTENDS Logger, Tracing, Metrics

VARIABLE focus

BoundListsDef == {<<2, NaN, 1>>}

(* The other machines rest in one of their initial states. *)
Resting == /\ focus # "log" => sink = "sync" /\ min = Min(Levels) /\ maxLevel = Min(Levels)
           /\ focus # "trace" => threshold = Min(SpanLevels)

Init == /\ focus \in {"log", "trace", "otlp", "metrics"}
        /\ LogInit /\ TraceInit /\ OtlpInit /\ MetricInit /\ Resting

Log(A) == focus = "log" /\ A /\ UNCHANGED <<focus, traceVars, otlpVars, metricVars>>
Trace(A) == focus = "trace" /\ A /\ UNCHANGED <<focus, logVars, otlpVars, metricVars>>
Otlp(A) == focus = "otlp" /\ A /\ UNCHANGED <<focus, logVars, traceVars, metricVars>>
Metric(A) == focus = "metrics" /\ A /\ UNCHANGED <<focus, logVars, traceVars, otlpVars>>

Next == Log(LogNext) \/ Trace(TraceNext) \/ Otlp(OtlpNext) \/ Metric(MetricNext)

vars == <<focus, logVars, traceVars, otlpVars, metricVars>>

(* The writer thread, threads inside flush() and the exporters' tasks go on;  *)
(* nobody has to log, to enter a span, to observe or to scrape.               *)
Spec == /\ Init /\ [][Next]_vars
        /\ WF_vars(Log(WriterStep \/ WriterEnds))
        /\ \A t \in Threads : WF_vars(Log(LogSyncEnd(t) \/ FlushSend(t) \/ FlushLost(t)))
        /\ \A e \in Exporters : WF_vars(Otlp(TaskStep(e)))
=============================================================================
