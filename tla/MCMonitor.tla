----------------------------- MODULE MCMonitor -----------------------------
EXTENDS PhilMonitor

ASSUME MonitorBounds == PhilAssumption
=============================================================================
