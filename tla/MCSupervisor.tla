----------------------------- MODULE MCSupervisor -----------------------------
EXTENDS Supervisor

FourProcesses == 1 .. 4
StopsWithAndWithoutShell == FALSE :> 3 @@ TRUE :> 1
===============================================================================
