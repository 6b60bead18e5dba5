---------------------------- MODULE MCInterrupts ----------------------------
EXTENDS Interrupts
CONSTANTS driver, app, disk
ToDriver == [s \in Sources |-> driver]
=============================================================================
