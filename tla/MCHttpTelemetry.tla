-------------------------- MODULE MCHttpTelemetry --------------------------
(* Every stack of transports, and propagators in both orders.              *)
EXTENDS HttpTelemetry

MCSetups ==
    [layers : {<<"traced">>, <<"propagating">>, <<"propagating", "traced">>},
     propagators : {<<"trace", "bound">>, <<"pair", "trace">>}, preserve : BOOLEAN, callerSets : BOOLEAN]
=============================================================================
