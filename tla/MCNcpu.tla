------------------------------- MODULE MCNcpu -------------------------------
EXTENDS NcpuIpc
=============================================================================
