------------------------------ MODULE MCEventBus ------------------------------
EXTENDS EventBus

Everything == [s \in Subscribers |-> Events]
=============================================================================
